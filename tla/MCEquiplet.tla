------------------------------ MODULE MCEquiplet ------------------------------
(***************************************************************************)
(* Two modules; the second is also taken to NORMAL by another client.      *)
(***************************************************************************)
EXTENDS EquipletProps

CONSTANTS m1, m2

MCModules == {m1, m2}
MCOthers  == {<<m2, "NORMAL">>}
=============================================================================
