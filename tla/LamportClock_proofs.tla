------------------------- MODULE LamportClock_proofs -------------------------
(***************************************************************************)
(* Proofs about the concurrent Lamport clock of src/types/src/clock.rs,   *)
(* for every number of tasks, every width and every set of peer times.    *)
(***************************************************************************)
EXTENDS LamportClock, TLAPS

(***************************************************************************)
(* Type correctness.                                                       *)
(***************************************************************************)

\* The constants' facts the proofs rely on, used everywhere below.
LEMMA ConstantFacts ==
  /\ Modulus \in Nat /\ Modulus >= 2
  /\ MaxTime \in Nat /\ MaxTime = Modulus - 1
  /\ Times \subseteq 0 .. MaxTime
  /\ IncBudget \in Nat
  BY ModulusAssumption, TimesAssumption, BudgetAssumption DEF MaxTime

\* A peer's time is a natural number.
LEMMA TimesNat == Times \subseteq Nat
  BY ConstantFacts

\* Every value the code stores in the atomic is reduced modulo 2^TimeWidth.
LEMMA ModInRange ==
  ASSUME NEW x \in Nat
  PROVE  x % Modulus \in 0 .. MaxTime
  BY ConstantFacts

\* Every step keeps TypeOK.
LEMMA TypeStep == TypeOK /\ [Next]_vars => TypeOK'
<1> SUFFICES ASSUME TypeOK, [Next]_vars PROVE TypeOK'
  OBVIOUS
<1>1. ASSUME NEW p \in Procs, Increment(p) PROVE TypeOK'
  <2>1. (clock + 1) % Modulus \in 0 .. MaxTime
    BY ModInRange DEF TypeOK
  <2>2. incs' \in 0 .. IncBudget
    BY <1>1, ConstantFacts DEF Increment, TypeOK
  <2>3. CASE OverflowChecks /\ clock = MaxTime
    BY <1>1, <2>1, <2>2, <2>3 DEF Increment, TypeOK, PC
  <2>4. CASE ~(OverflowChecks /\ clock = MaxTime)
    BY <1>1, <2>1, <2>2, <2>4 DEF Increment, TypeOK, PC
  <2>5. QED
    BY <2>3, <2>4
<1>2. ASSUME NEW p \in Procs, NEW t \in Times, Witness(p, t) PROVE TypeOK'
  BY <1>2, ConstantFacts DEF Witness, TypeOK, PC
<1>3. ASSUME NEW p \in Procs, LoadOld(p) PROVE TypeOK'
  BY <1>3 DEF LoadOld, TypeOK, PC
<1>4. ASSUME NEW p \in Procs, LoadBehind(p) PROVE TypeOK'
  BY <1>4 DEF LoadBehind, TypeOK, PC
<1>5. ASSUME NEW p \in Procs, CasPanic(p) PROVE TypeOK'
  BY <1>5 DEF CasPanic, TypeOK, PC
<1>6. ASSUME NEW p \in Procs, CasSucceed(p) PROVE TypeOK'
  <2>1. (arg[p] + 1) % Modulus \in 0 .. MaxTime
    BY ModInRange, ConstantFacts DEF TypeOK
  <2>2. QED
    BY <1>6, <2>1 DEF CasSucceed, TypeOK, PC
<1>7. ASSUME NEW p \in Procs, CasFail(p) PROVE TypeOK'
  BY <1>7 DEF CasFail, TypeOK, PC
<1>8. CASE UNCHANGED vars
  BY <1>8 DEF vars, TypeOK
<1>9. QED
  BY <1>1, <1>2, <1>3, <1>4, <1>5, <1>6, <1>7, <1>8 DEF Next, WitnessStep

(* TypeOK: the atomic, the per-task registers and the ghost history stay  *)
(* within the u64 range (here 0 .. MaxTime) whatever the tasks interleave. *)
THEOREM TypeCorrect == Spec => []TypeOK
<1>1. Init => TypeOK
  BY ConstantFacts DEF Init, TypeOK, PC
<1>2. TypeOK /\ [Next]_vars => TypeOK'
  BY TypeStep
<1>3. QED
  BY <1>1, <1>2, PTL DEF Spec

-----------------------------------------------------------------------------
(***************************************************************************)
(* The clock covers its history.  With u64 wrap-around the property is    *)
(* false (run clock_peer_overflow), so the theorem assumes what a cluster *)
(* whose times stay far from u64::MAX guarantees: no peer time plus one    *)
(* plus all local increments reaches MaxTime.                              *)
(***************************************************************************)
NoWrap ==
  /\ IncBudget <= MaxTime
  /\ \A t \in Times : t + 1 + IncBudget <= MaxTime

\* A witness under way carries a peer's time.
ArgFromPeer == \A p \in Procs : pc[p] \in {"load", "cas"} => arg[p] \in Times

\* A task at the CAS loaded a value behind its argument.
CasBehind == \A p \in Procs : pc[p] = "cas" => cur[p] < arg[p]

\* The clock has not run past a peer's time plus the local increments.
ClockBounded == clock <= incs \/ \E t \in Times : clock <= t + 1 + incs

(* The inductive invariant: ClockCoversHistory alone is not inductive,    *)
(* since a CAS must know its argument is ahead of the value it replaces   *)
(* (CasBehind) and an increment must know it cannot wrap (ClockBounded).  *)
IInv ==
  /\ TypeOK
  /\ ClockCoversHistory
  /\ ArgFromPeer
  /\ CasBehind
  /\ ClockBounded

\* Below the modulus, reducing a value changes nothing.
LEMMA ModSmall ==
  ASSUME NEW x \in 0 .. MaxTime
  PROVE  x % Modulus = x
  BY ConstantFacts

\* Under NoWrap a value the clock can hold has room for one more increment.
LEMMA IncrementNoWrap ==
  ASSUME NoWrap, TypeOK, ClockBounded, incs < IncBudget
  PROVE  /\ clock + 1 \in 0 .. MaxTime
         /\ (clock + 1) % Modulus = clock + 1
  <1>1. clock + 1 <= MaxTime
    <2>1. CASE clock <= incs
      BY <2>1, ConstantFacts DEF NoWrap, TypeOK
    <2>2. CASE \E t \in Times : clock <= t + 1 + incs
      BY <2>2, ConstantFacts DEF NoWrap, TypeOK
    <2>3. QED
      BY <2>1, <2>2 DEF ClockBounded
  <1>2. QED
    BY <1>1, ModSmall, ConstantFacts DEF TypeOK

THEOREM IInvInit == Init => IInv
  BY ConstantFacts DEF Init, IInv, TypeOK, PC, ClockCoversHistory,
                       ArgFromPeer, CasBehind, ClockBounded

THEOREM IInvNext == NoWrap /\ IInv /\ [Next]_vars => IInv'
<1> SUFFICES ASSUME NoWrap, IInv, [Next]_vars PROVE IInv'
  OBVIOUS
<1>0. TypeOK'
  BY TypeStep DEF IInv
<1>1. ASSUME NEW p \in Procs, Increment(p) PROVE IInv'
  <2>1. /\ clock + 1 \in 0 .. MaxTime
        /\ clock' = clock + 1
    BY <1>1, IncrementNoWrap DEF IInv, Increment
  <2>2. ~(clock = MaxTime)
    BY <2>1, ConstantFacts DEF IInv, TypeOK
  <2>3. issued' = issued \cup {clock + 1} /\ pc' = pc
    BY <1>1, <2>1, <2>2 DEF Increment
  <2>4. ClockCoversHistory'
    BY <1>1, <2>1, <2>3, ConstantFacts
       DEF Increment, IInv, TypeOK, ClockCoversHistory
  <2>5. ClockBounded'
    BY <1>1, <2>1, ConstantFacts DEF Increment, IInv, TypeOK, ClockBounded
  <2>6. QED
    BY <1>0, <1>1, <2>3, <2>4, <2>5
       DEF Increment, IInv, ArgFromPeer, CasBehind
<1>2. ASSUME NEW p \in Procs, NEW t \in Times, Witness(p, t) PROVE IInv'
  BY <1>2, <1>0, ConstantFacts
     DEF Witness, IInv, TypeOK, ClockCoversHistory, ArgFromPeer, CasBehind,
         ClockBounded
<1>3. ASSUME NEW p \in Procs, LoadOld(p) PROVE IInv'
  BY <1>3, <1>0, ConstantFacts
     DEF LoadOld, IInv, TypeOK, ClockCoversHistory, ArgFromPeer, CasBehind,
         ClockBounded
<1>4. ASSUME NEW p \in Procs, LoadBehind(p) PROVE IInv'
  BY <1>4, <1>0, ConstantFacts
     DEF LoadBehind, IInv, TypeOK, ClockCoversHistory, ArgFromPeer, CasBehind,
         ClockBounded
<1>5. ASSUME NEW p \in Procs, CasPanic(p) PROVE IInv'
  BY <1>5, <1>0, ConstantFacts
     DEF CasPanic, IInv, TypeOK, ClockCoversHistory, ArgFromPeer, CasBehind,
         ClockBounded
<1>6. ASSUME NEW p \in Procs, CasSucceed(p) PROVE IInv'
  <2>1. arg[p] \in Times /\ clock < arg[p]
    BY <1>6 DEF CasSucceed, IInv, ArgFromPeer, CasBehind
  <2>2. arg[p] + 1 \in 0 .. MaxTime
    <3>1. arg[p] + 1 + IncBudget <= MaxTime
      BY <2>1 DEF NoWrap
    <3>2. arg[p] \in Nat
      BY <2>1, TimesNat
    <3>3. QED
      BY <3>1, <3>2, ConstantFacts
  <2>3. clock' = arg[p] + 1
    BY <1>6, <2>2, ModSmall DEF CasSucceed
  <2>4. ClockCoversHistory'
    BY <1>6, <2>1, <2>3, ConstantFacts
       DEF CasSucceed, IInv, TypeOK, ClockCoversHistory
  <2>5. ClockBounded'
    BY <1>6, <2>1, <2>3, ConstantFacts DEF CasSucceed, IInv, TypeOK, ClockBounded
  <2>6. (ArgFromPeer /\ CasBehind)'
    BY <1>6 DEF CasSucceed, IInv, TypeOK, ArgFromPeer, CasBehind
  <2>7. QED
    BY <1>0, <2>4, <2>5, <2>6 DEF IInv
<1>7. ASSUME NEW p \in Procs, CasFail(p) PROVE IInv'
  BY <1>7, <1>0, ConstantFacts
     DEF CasFail, IInv, TypeOK, ClockCoversHistory, ArgFromPeer, CasBehind,
         ClockBounded
<1>8. CASE UNCHANGED vars
  BY <1>8 DEF vars, IInv, TypeOK, ClockCoversHistory, ArgFromPeer, CasBehind,
              ClockBounded
<1>9. QED
  BY <1>1, <1>2, <1>3, <1>4, <1>5, <1>6, <1>7, <1>8 DEF Next, WitnessStep

(* ClockCoversHistory, for every number of tasks and every interleaving of *)
(* increment() and witness(): the compare_exchange in witness never puts   *)
(* the clock below a value already handed out or witnessed.                *)
THEOREM ClockSafety == NoWrap => (Spec => []ClockCoversHistory)
<1> SUFFICES ASSUME NoWrap PROVE Spec => []ClockCoversHistory
  OBVIOUS
<1>1. IInv => ClockCoversHistory
  BY DEF IInv
<1>2. QED
  BY IInvInit, IInvNext, <1>1, PTL DEF Spec

\* Under NoWrap every step leaves the u64 where it was or moves it up.
LEMMA MonotoneStep == NoWrap /\ IInv /\ [Next]_vars => clock' >= clock
<1> SUFFICES ASSUME NoWrap, IInv, [Next]_vars PROVE clock' >= clock
  OBVIOUS
<1>0. clock \in Nat
  BY ConstantFacts DEF IInv, TypeOK
<1>1. ASSUME NEW p \in Procs, Increment(p) PROVE clock' >= clock
  <2>1. clock' = clock + 1
    BY <1>1, IncrementNoWrap DEF IInv, Increment
  <2>2. QED
    BY <1>0, <2>1
<1>2. ASSUME NEW p \in Procs, CasSucceed(p) PROVE clock' >= clock
  <2>1. arg[p] \in Times /\ clock < arg[p]
    BY <1>2 DEF CasSucceed, IInv, ArgFromPeer, CasBehind
  <2>2. arg[p] \in Nat /\ arg[p] + 1 \in 0 .. MaxTime
    <3>1. arg[p] + 1 + IncBudget <= MaxTime
      BY <2>1 DEF NoWrap
    <3>2. arg[p] \in Nat
      BY <2>1, TimesNat
    <3>3. QED
      BY <3>1, <3>2, ConstantFacts
  <2>3. clock' = arg[p] + 1
    BY <1>2, <2>2, ModSmall DEF CasSucceed
  <2>4. QED
    BY <1>0, <2>1, <2>2, <2>3
<1>3. ASSUME NEW p \in Procs,
             \/ \E t \in Times : Witness(p, t)
             \/ LoadOld(p) \/ LoadBehind(p) \/ CasPanic(p) \/ CasFail(p)
      PROVE  clock' >= clock
  <2>1. clock' = clock
    BY <1>3 DEF Witness, LoadOld, LoadBehind, CasPanic, CasFail
  <2>2. QED
    BY <1>0, <2>1
<1>4. CASE UNCHANGED vars
  BY <1>0, <1>4 DEF vars
<1>5. QED
  BY <1>1, <1>2, <1>3, <1>4 DEF Next, WitnessStep

(* ClockMonotone, for every number of tasks: while no time comes near      *)
(* u64::MAX, neither increment() nor a witness CAS that lost a race ever   *)
(* moves the clock backwards.  Without NoWrap it is false: a release build *)
(* wraps to 0.                                                              *)
THEOREM ClockMonotoneSafe == NoWrap => (Spec => ClockMonotone)
<1> SUFFICES ASSUME NoWrap PROVE Spec => ClockMonotone
  OBVIOUS
<1>1. IInv /\ [Next]_vars => [clock' >= clock]_clock
  BY MonotoneStep
<1>2. QED
  BY IInvInit, IInvNext, <1>1, PTL DEF Spec, ClockMonotone

-----------------------------------------------------------------------------
(***************************************************************************)
(* Refinement: the CAS loop implements the atomic clock, with or without  *)
(* wrap-around.  The invariant it needs says that a task at the CAS holds *)
(* a peer's time (ArgFromPeer) that is ahead of the value it loaded        *)
(* (CasBehind): a successful compare_exchange, which finds the clock still *)
(* at that value, is then an abstract Advance.                             *)
(***************************************************************************)
RInv == TypeOK /\ ArgFromPeer /\ CasBehind

LEMMA RInvInit == Init => RInv
  BY ConstantFacts DEF Init, RInv, TypeOK, PC, ArgFromPeer, CasBehind

LEMMA RInvNext == RInv /\ [Next]_vars => RInv'
<1> SUFFICES ASSUME RInv, [Next]_vars PROVE RInv'
  OBVIOUS
<1>0. TypeOK'
  BY TypeStep DEF RInv
<1>1. ASSUME NEW p \in Procs, Increment(p) PROVE RInv'
  <2>1. CASE OverflowChecks /\ clock = MaxTime
    BY <1>0, <1>1, <2>1 DEF Increment, RInv, TypeOK, ArgFromPeer, CasBehind
  <2>2. CASE ~(OverflowChecks /\ clock = MaxTime)
    BY <1>0, <1>1, <2>2 DEF Increment, RInv, ArgFromPeer, CasBehind
  <2>3. QED
    BY <2>1, <2>2
<1>2. ASSUME NEW p \in Procs, NEW t \in Times, Witness(p, t) PROVE RInv'
  BY <1>0, <1>2 DEF Witness, RInv, TypeOK, ArgFromPeer, CasBehind
<1>3. ASSUME NEW p \in Procs, LoadOld(p) PROVE RInv'
  BY <1>0, <1>3 DEF LoadOld, RInv, TypeOK, ArgFromPeer, CasBehind
<1>4. ASSUME NEW p \in Procs, LoadBehind(p) PROVE RInv'
  BY <1>0, <1>4 DEF LoadBehind, RInv, TypeOK, ArgFromPeer, CasBehind
<1>5. ASSUME NEW p \in Procs, CasPanic(p) PROVE RInv'
  BY <1>0, <1>5 DEF CasPanic, RInv, TypeOK, ArgFromPeer, CasBehind
<1>6. ASSUME NEW p \in Procs, CasSucceed(p) PROVE RInv'
  BY <1>0, <1>6 DEF CasSucceed, RInv, TypeOK, ArgFromPeer, CasBehind
<1>7. ASSUME NEW p \in Procs, CasFail(p) PROVE RInv'
  BY <1>0, <1>7 DEF CasFail, RInv, TypeOK, ArgFromPeer, CasBehind
<1>8. CASE UNCHANGED vars
  BY <1>8 DEF vars, RInv, TypeOK, ArgFromPeer, CasBehind
<1>9. QED
  BY <1>1, <1>2, <1>3, <1>4, <1>5, <1>6, <1>7, <1>8 DEF Next, WitnessStep

\* Every step of the detailed clock is an abstract step or leaves the u64
\* alone.
LEMMA StepRefines == RInv /\ [Next]_vars => [Atomic!Next]_clock
<1> SUFFICES ASSUME RInv, [Next]_vars PROVE [Atomic!Next]_clock
  OBVIOUS
<1>1. ASSUME NEW p \in Procs, Increment(p) PROVE Atomic!Tick
  BY <1>1 DEF Increment, Atomic!Tick
<1>2. ASSUME NEW p \in Procs, CasSucceed(p) PROVE Atomic!Advance(arg[p])
  <2>1. clock < arg[p]
    BY <1>2 DEF CasSucceed, RInv, CasBehind
  <2>2. QED
    BY <1>2, <2>1 DEF CasSucceed, Atomic!Advance
<1>3. ASSUME NEW p \in Procs, CasSucceed(p) PROVE arg[p] \in Times
  BY <1>3 DEF CasSucceed, RInv, ArgFromPeer
<1>4. ASSUME NEW p \in Procs,
             \/ \E t \in Times : Witness(p, t)
             \/ LoadOld(p) \/ LoadBehind(p) \/ CasPanic(p) \/ CasFail(p)
      PROVE  UNCHANGED clock
  BY <1>4 DEF Witness, LoadOld, LoadBehind, CasPanic, CasFail
<1>5. CASE UNCHANGED vars
  BY <1>5 DEF vars
<1>6. QED
  BY <1>1, <1>2, <1>3, <1>4, <1>5 DEF Next, WitnessStep, Atomic!Next

(* The witness CAS loop and increment(), interleaved in any way by any     *)
(* number of tasks, implement the atomic clock: its u64 only ever ticks or *)
(* jumps from below a peer's time t to t + 1.  No bound on the times is    *)
(* needed.                                                                  *)
THEOREM Refinement == Spec => AtomicClockSpec
<1>1. Init => Atomic!Init
  BY DEF Init, Atomic!Init
<1>2. QED
  BY <1>1, RInvInit, RInvNext, StepRefines, PTL
     DEF Spec, AtomicClockSpec, Atomic!Spec


-----------------------------------------------------------------------------
(***************************************************************************)
(* The debug build.  Its overflow checks do not stop the clock wrapping,  *)
(* but they make every backward step panic: an increment() can only lower *)
(* the clock from MaxTime, where its `+ 1` panics, and a successful CAS   *)
(* stores time + 1 > time > the value it found, because the compare        *)
(* guards the loaded value (CasBehind) and time = MaxTime has panicked.   *)
(***************************************************************************)

\* A step of a debug build lowers the clock only when some task panics in it.
LEMMA WrapPanicsStep ==
  ASSUME OverflowChecks, RInv, [Next]_vars
  PROVE  clock' < clock =>
           \E p \in Procs : pc[p] # "panicked" /\ pc'[p] = "panicked"
<1>0. clock \in 0 .. MaxTime
  BY DEF RInv, TypeOK
<1>1. ASSUME NEW p \in Procs, Increment(p)
      PROVE  clock' < clock =>
               \E q \in Procs : pc[q] # "panicked" /\ pc'[q] = "panicked"
  <2>1. CASE clock = MaxTime
    <3>1. pc[p] = "idle" /\ pc'[p] = "panicked"
      BY <1>1, <2>1 DEF Increment, RInv, TypeOK
    <3>2. QED
      BY <3>1
  <2>2. CASE clock # MaxTime
    <3>1. clock + 1 \in 0 .. MaxTime
      BY <1>0, <2>2, ConstantFacts
    <3>2. clock' = clock + 1
      BY <1>1, <3>1, ModSmall DEF Increment
    <3>3. QED
      BY <1>0, <3>2, ConstantFacts
  <2>3. QED
    BY <2>1, <2>2
<1>2. ASSUME NEW p \in Procs, CasSucceed(p)
      PROVE  clock' >= clock
  <2>1. arg[p] \in 0 .. MaxTime /\ arg[p] # MaxTime
    BY <1>2 DEF CasSucceed, RInv, TypeOK
  <2>2. clock = cur[p] /\ cur[p] < arg[p]
    BY <1>2 DEF CasSucceed, RInv, CasBehind
  <2>3. arg[p] + 1 \in 0 .. MaxTime
    BY <2>1, ConstantFacts
  <2>4. clock' = arg[p] + 1
    BY <1>2, <2>3, ModSmall DEF CasSucceed
  <2>5. QED
    BY <1>0, <2>1, <2>2, <2>4, ConstantFacts
<1>3. ASSUME NEW p \in Procs,
             \/ \E t \in Times : Witness(p, t)
             \/ LoadOld(p) \/ LoadBehind(p) \/ CasPanic(p) \/ CasFail(p)
      PROVE  clock' = clock
  BY <1>3 DEF Witness, LoadOld, LoadBehind, CasPanic, CasFail
<1>4. CASE UNCHANGED vars
  BY <1>0, <1>4, ConstantFacts DEF vars
<1>5. ASSUME NEW p \in Procs,
             \/ CasSucceed(p)
             \/ \E t \in Times : Witness(p, t)
             \/ LoadOld(p) \/ LoadBehind(p) \/ CasPanic(p) \/ CasFail(p)
      PROVE  clock' < clock =>
               \E q \in Procs : pc[q] # "panicked" /\ pc'[q] = "panicked"
  <2>1. clock' >= clock
    BY <1>0, <1>2, <1>3, <1>5, ConstantFacts
  <2>2. clock' \in 0 .. MaxTime
    BY TypeStep DEF RInv, TypeOK
  <2>3. QED
    BY <1>0, <2>1, <2>2, ConstantFacts
<1>6. QED
  BY <1>1, <1>4, <1>5, Zenon DEF Next, WitnessStep

(* WrapPanics, for every number of tasks, every width and every set of   *)
(* peer times, u64::MAX - 1 and u64::MAX included: in a debug build the   *)
(* clock goes backwards only in an increment() whose `+ 1` overflows and  *)
(* panics its task; no witness CAS ever lowers it.                         *)
THEOREM WrapPanicsSafe == OverflowChecks => (Spec => WrapPanics)
<1> SUFFICES ASSUME OverflowChecks PROVE Spec => WrapPanics
  OBVIOUS
<1>1. RInv /\ [Next]_vars =>
        [clock' < clock =>
           \E p \in Procs : pc[p] # "panicked" /\ pc'[p] = "panicked"]_clock
  BY WrapPanicsStep
<1>2. QED
  BY RInvInit, RInvNext, <1>1, PTL DEF Spec, WrapPanics
=============================================================================
