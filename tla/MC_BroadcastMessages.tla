------------------------- MODULE MC_BroadcastMessages -------------------------
(***************************************************************************)
(* Instances of BroadcastMessages for TLC: four broadcasts of different  *)
(* sizes and limits that fit one, two or three of them.                   *)
(***************************************************************************)
EXTENDS BroadcastMessages, TLC

CONSTANTS m1, m2, m3, m4

MC_Ids == {m1, m2, m3, m4}
MC_Size == (m1 :> 3) @@ (m2 :> 2) @@ (m3 :> 4) @@ (m4 :> 1)
MC_Limits == {4, 7}
=============================================================================
