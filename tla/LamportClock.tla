---------------------------- MODULE LamportClock ----------------------------
(***************************************************************************)
(* The lock-free Lamport clock of src/types/src/clock.rs.                  *)
(*                                                                         *)
(* A LamportClock is an Arc<AtomicU64> shared by every task of a node that *)
(* handles gossip: increment() is one fetch_add, witness(t) is a loop of a *)
(* load, a comparison and a compare_exchange_weak that may fail, spuriously*)
(* or because another task moved the clock in between.  Each task is a    *)
(* process with a program counter; a step is one atomic access.           *)
(*                                                                         *)
(* The atomic keeps its width: values live in 0 .. 2^TimeWidth - 1, and   *)
(* fetch_add wraps.  The plain `+ 1` on a u64 wraps in a release build and *)
(* panics in a debug build (OverflowChecks).                               *)
(*                                                                         *)
(* Two ghost variables record the history the properties talk about:      *)
(* issued (values increment() returned) and witnessed (arguments of the    *)
(* witness calls that returned).                                           *)
(***************************************************************************)
EXTENDS Naturals

CONSTANTS
  Procs,          \* the tasks sharing one clock
  TimeWidth,      \* bit width of the atomic (64 in the code)
  Times,          \* the Lamport times a peer's message may carry
  IncBudget,      \* bound: number of increment() calls in a behaviour
  OverflowChecks  \* TRUE for a debug build: u64 `+ 1` overflow panics

ASSUME WidthAssumption == TimeWidth \in Nat \ {0}
ASSUME BudgetAssumption == IncBudget \in Nat
ASSUME ChecksAssumption == OverflowChecks \in BOOLEAN

Modulus == 2^TimeWidth
MaxTime == Modulus - 1                     \* u64::MAX

\* An arithmetic fact the provers cannot derive from `^` themselves.
ASSUME ModulusAssumption == Modulus \in Nat /\ Modulus >= 2
ASSUME TimesAssumption == Times \subseteq 0 .. MaxTime

VARIABLES
  clock,      \* the AtomicU64
  pc,         \* per task: "idle", "load", "cas" or "panicked"
  arg,        \* per task: the time passed to witness
  cur,        \* per task: the value witness loaded (`current`)
  issued,     \* ghost: every value increment() returned
  witnessed,  \* ghost: every t of a witness(t) that returned
  incs        \* number of increment() calls so far (bounded)

vars == <<clock, pc, arg, cur, issued, witnessed, incs>>

PC == {"idle", "load", "cas", "panicked"}

TypeOK ==
  /\ clock \in 0 .. MaxTime
  /\ pc \in [Procs -> PC]
  /\ arg \in [Procs -> 0 .. MaxTime]
  /\ cur \in [Procs -> 0 .. MaxTime]
  /\ issued \subseteq 0 .. MaxTime
  /\ witnessed \subseteq 0 .. MaxTime
  /\ incs \in 0 .. IncBudget

\* LamportClock::new(): the atomic starts at 0.
Init ==
  /\ clock = 0
  /\ pc = [p \in Procs |-> "idle"]
  /\ arg = [p \in Procs |-> 0]
  /\ cur = [p \in Procs |-> 0]
  /\ issued = {}
  /\ witnessed = {}
  /\ incs = 0

(***************************************************************************)
(* Plausible faults of this code, each of which some property must detect. *)
(***************************************************************************)

\* The retry `continue` jumps back to the CAS with the stale `current`.
CasFailStaleRetry(p) ==
  /\ pc[p] = "cas"
  /\ ~(OverflowChecks /\ arg[p] = MaxTime)
  /\ UNCHANGED vars

\* increment() with `wrapping_add(1)`: the debug build no longer panics.
IncrementWrapping(p) ==
  /\ pc[p] = "idle"
  /\ incs < IncBudget
  /\ clock' = (clock + 1) % Modulus
  /\ incs' = incs + 1
  /\ issued' = issued \cup {(clock + 1) % Modulus}
  /\ UNCHANGED <<pc, arg, cur, witnessed>>

\* A plain store in place of compare_exchange: the compare is dropped.
CasSucceedNoCompare(p) ==
  /\ pc[p] = "cas"
  /\ ~(OverflowChecks /\ arg[p] = MaxTime)
  /\ clock' = (arg[p] + 1) % Modulus
  /\ pc' = [pc EXCEPT ![p] = "idle"]
  /\ witnessed' = witnessed \cup {arg[p]}
  /\ UNCHANGED <<arg, cur, issued, incs>>

(***************************************************************************)
(* increment(): fetch_add(1) returns the old value, which the code then    *)
(* adds 1 to.  The atomic add always wraps; the `+ 1` on the returned u64  *)
(* panics in a debug build when the old value was u64::MAX, after the      *)
(* atomic has already wrapped.                                             *)
(***************************************************************************)
Increment(p) ==
  /\ pc[p] = "idle"
  /\ incs < IncBudget
  /\ clock' = (clock + 1) % Modulus
  /\ incs' = incs + 1
  /\ IF OverflowChecks /\ clock = MaxTime
       THEN /\ pc' = [pc EXCEPT ![p] = "panicked"]
            /\ UNCHANGED issued
       ELSE /\ issued' = issued \cup {(clock + 1) % Modulus}
            /\ UNCHANGED pc
  /\ UNCHANGED <<arg, cur, witnessed>>

\* witness(t) is called with a time taken from a peer's message.
Witness(p, t) ==
  /\ pc[p] = "idle"
  /\ pc' = [pc EXCEPT ![p] = "load"]
  /\ arg' = [arg EXCEPT ![p] = t]
  /\ UNCHANGED <<clock, cur, issued, witnessed, incs>>

\* `current = load()`; `if current >= time { return }`.
LoadOld(p) ==
  /\ pc[p] = "load"
  /\ clock >= arg[p]
  /\ pc' = [pc EXCEPT ![p] = "idle"]
  /\ cur' = [cur EXCEPT ![p] = clock]
  /\ witnessed' = witnessed \cup {arg[p]}
  /\ UNCHANGED <<clock, arg, issued, incs>>

\* `current = load()` found the clock behind: go on to the CAS.
LoadBehind(p) ==
  /\ pc[p] = "load"
  /\ clock < arg[p]
  /\ pc' = [pc EXCEPT ![p] = "cas"]
  /\ cur' = [cur EXCEPT ![p] = clock]
  /\ UNCHANGED <<clock, arg, issued, witnessed, incs>>

\* Computing the CAS argument `time.0 + 1` overflows: a debug build panics.
CasPanic(p) ==
  /\ pc[p] = "cas"
  /\ OverflowChecks /\ arg[p] = MaxTime
  /\ pc' = [pc EXCEPT ![p] = "panicked"]
  /\ UNCHANGED <<clock, arg, cur, issued, witnessed, incs>>

\* compare_exchange_weak(current, time + 1) succeeds: witness returns.
CasSucceed(p) ==
  /\ pc[p] = "cas"
  /\ ~(OverflowChecks /\ arg[p] = MaxTime)
  /\ clock = cur[p]
  /\ clock' = (arg[p] + 1) % Modulus
  /\ pc' = [pc EXCEPT ![p] = "idle"]
  /\ witnessed' = witnessed \cup {arg[p]}
  /\ UNCHANGED <<arg, cur, issued, incs>>

(* compare_exchange_weak fails, because another task changed the clock or  *)
(* spuriously (the weak form may fail even when the values are equal):     *)
(* `continue` goes back to the load.                                       *)
CasFail(p) ==
  /\ pc[p] = "cas"
  /\ ~(OverflowChecks /\ arg[p] = MaxTime)
  /\ pc' = [pc EXCEPT ![p] = "load"]
  /\ UNCHANGED <<clock, arg, cur, issued, witnessed, incs>>

\* The steps of a witness call already under way.
WitnessStep(p) ==
  \/ LoadOld(p)
  \/ LoadBehind(p)
  \/ CasPanic(p)
  \/ CasSucceed(p)
  \/ CasFail(p)

Next ==
  \E p \in Procs :
    \/ Increment(p)
    \/ \E t \in Times : Witness(p, t)
    \/ WitnessStep(p)

(***************************************************************************)
(* Fairness: the async runtime keeps polling a task that is inside witness *)
(* (it never awaits there), and compare_exchange_weak does not fail        *)
(* spuriously forever: a CAS that keeps being possible eventually succeeds.*)
(* New calls are not forced: a task may stay idle.                         *)
(***************************************************************************)
Fairness ==
  \A p \in Procs : WF_vars(WitnessStep(p)) /\ SF_vars(CasSucceed(p))

Spec == Init /\ [][Next]_vars /\ Fairness

(***************************************************************************)
(* The refinement mapping: the atomic itself is the abstract clock; the    *)
(* tasks' program counters, loaded values and the ghosts are hidden.       *)
(***************************************************************************)
Atomic == INSTANCE AtomicLamportClock
            WITH clock <- clock, Modulus <- Modulus, Times <- Times

-----------------------------------------------------------------------------
(***************************************************************************)
(* Properties.                                                             *)
(***************************************************************************)

(* The clock is at least every value increment() has handed out and every *)
(* time a completed witness(t) was given, while other tasks race on the    *)
(* same atomic: no witness CAS may overwrite a newer value with an older   *)
(* one, and a witness may only return once the clock has caught up.        *)
ClockCoversHistory ==
  \A v \in issued \cup witnessed : v <= clock

(* The clock never goes backwards (the "clock monotonicity" law of the     *)
(* spec), over every step of increment() and of the witness CAS loop.      *)
ClockMonotone == [][clock' >= clock]_clock

(* In a debug build the clock goes backwards only in a step whose task     *)
(* panics on the overflow.  A peer's time of u64::MAX - 1 lets witness     *)
(* store u64::MAX; the next increment()'s fetch_add then wraps the shared  *)
(* atomic to 0 before its `+ 1` panics, so the overflow checks do not keep *)
(* the clock from wrapping, but every wrap kills the task that caused it,  *)
(* and a witness CAS that lost a race never stores an older value.         *)
WrapPanics ==
  [][clock' < clock =>
       \E p \in Procs : pc[p] # "panicked" /\ pc'[p] = "panicked"]_clock

(* Every witness call that has started returns (or, in a debug build,      *)
(* panics on overflow): the CAS retry loop cannot spin forever.            *)
WitnessTerminates ==
  \A p \in Procs : pc[p] = "load" ~> pc[p] \in {"idle", "panicked"}

(* The load / compare_exchange_weak loop of witness, racing increment() *)
(* and other witness calls on the same atomic, behaves as the atomic       *)
(* clock of AtomicLamportClock: every change of the u64 is one tick or one *)
(* jump from below a peer's time t to t + 1.                               *)
AtomicClockSpec == Atomic!Spec

=============================================================================
