-------------------------- MODULE MCSettingsPanel --------------------------
(* Three texts for SettingsPanel, one of them with the prefix the server   *)
(* cuts off.                                                               *)
EXTENDS SettingsPanel, TLC

CONSTANTS A, PrefixedA, B

MCTexts == {A, PrefixedA, B}
MCClean == PrefixedA :> A @@ A :> A @@ B :> B
=============================================================================
