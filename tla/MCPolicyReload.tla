---------------------------- MODULE MCPolicyReload ----------------------------
(* Model-checking instance of PolicyReload: each file is edited twice; the *)
(* first edit of each breaks it, and the domain map of the second edit     *)
(* names a default policy the second policies version lacks.               *)
EXTENDS PolicyReload

MCBadDm     == {1}
MCBadPol    == {1}
MCNoDefault == {<<2, 2>>}
=============================================================================
