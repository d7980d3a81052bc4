-------------------------------- MODULE Levels --------------------------------
(***************************************************************************)
(* The privilege levels of the hart (defines.svh).                         *)
(***************************************************************************)
PrvU == 0
PrvS == 1
PrvM == 3
Prv  == {PrvU, PrvS, PrvM}
=============================================================================
