------------------------- MODULE AtomicLamportClock -------------------------
(***************************************************************************)
(* What LamportClock (src/types/src/clock.rs) promises its callers: one   *)
(* u64 counter that moves only by atomic steps of two kinds.              *)
(*                                                                         *)
(*  - a tick: increment() adds one (wrapping at 2^64);                    *)
(*  - a witness of a peer's time t that is ahead of the clock: the clock  *)
(*    jumps to t + 1 at once.                                              *)
(*                                                                         *)
(* A witness of a time the clock has reached changes nothing.  The        *)
(* detailed module LamportClock, with its load / compare-exchange retry   *)
(* loop racing other tasks, is shown to implement this specification.     *)
(***************************************************************************)
EXTENDS Naturals

CONSTANTS
  Modulus,   \* 2^64 for a u64
  Times      \* the times peers may send

VARIABLE clock

Tick == clock' = (clock + 1) % Modulus

Advance(t) ==
  /\ clock < t
  /\ clock' = (t + 1) % Modulus

Init == clock = 0

Next == Tick \/ \E t \in Times : Advance(t)

Spec == Init /\ [][Next]_clock
=============================================================================
