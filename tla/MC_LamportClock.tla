--------------------------- MODULE MC_LamportClock ---------------------------
(***************************************************************************)
(* Instances of LamportClock for TLC.  A 3-bit clock stands for the u64:   *)
(* it keeps the wrap-around at MaxTime = 7 reachable in a few steps.       *)
(***************************************************************************)
EXTENDS LamportClock

\* A debug build facing peers that send small times, u64::MAX - 1 and
\* u64::MAX: witness(6) stores 7, so an increment() then overflows.
MC_TimesWithMax == {0, 1, 2, 6, 7}

\* A release build facing a peer that sends u64::MAX.
MC_PeerMax == {1, 7}
=============================================================================
