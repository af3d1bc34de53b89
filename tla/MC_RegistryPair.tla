--------------------------- MODULE MC_RegistryPair ---------------------------
(* Two types, registered in that order by both processes' init, two user  *)
(* functions to register and re-register them with, and up to two saved   *)
(* values.  No symmetry: the program fixes an order of the types.          *)
EXTENDS RegistryPair

CONSTANTS T1, T2, F1, F2, NilFn

MCTypes == {T1, T2}
MCCallbacks == {F1, F2}
MCProgram == <<T1, T2>>
=============================================================================
