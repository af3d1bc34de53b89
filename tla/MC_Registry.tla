---------------------------- MODULE MC_Registry ----------------------------
(* Two types registered with two user functions or a nil one.            *)
(* Registering a type again, and registering with a nil function, are    *)
(* both among the inputs.                                                  *)
EXTENDS Registry

CONSTANTS T1, T2, F1, F2, NilFn

MCTypes == {T1, T2}
MCCallbacks == {F1, F2}
=============================================================================
