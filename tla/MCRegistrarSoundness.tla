------------------------ MODULE MCRegistrarSoundness ------------------------
(***************************************************************************)
(* Runs the bodies of MCRegistrarBodies after the walk has read them.      *)
(***************************************************************************)
EXTENDS MCRegistrarBodies, RegistrarSoundness

MCForeign == {<<x>>}
=============================================================================
