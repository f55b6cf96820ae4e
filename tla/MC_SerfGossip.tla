---------------------------- MODULE MC_SerfGossip ----------------------------
(***************************************************************************)
(* Instances of SerfGossip for TLC.                                        *)
(***************************************************************************)
EXTENDS SerfGossip

\* Event ltimes 0 .. 2 against a ring of two slots: slot reuse and the
\* window check both happen.
MC_EventTimes == 0 .. 2
=============================================================================
