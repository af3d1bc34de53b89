---------------------------- MODULE MC_SerdeGen ----------------------------
(* Two defined types A and NameB of the main package, whose underlying    *)
(* types range over basic, slice, pointer and struct types that refer to *)
(* A, NameB and U, and U, a struct type of another package.  The         *)
(* candidates include self- and mutually recursive types, a basic kind   *)
(* with no codec (int), and A and NameB with identical underlying types.  *)
EXTENDS SerdeGen

CONSTANT NameB

MCNamedIds == {"A", NameB, "U"}
MCPkgOf == [n \in MCNamedIds |-> IF n = "U" THEN "other" ELSE "main"]

UUnder == StructT(<<Field("s", BasicT("string"))>>)

MainUnders ==
  { BasicT("string"), BasicT("int"),
    SliceT(NamedT("A")), SliceT(BasicT("int64")), SliceT(NamedT("U")),
    PointerT(NamedT("A")),
    StructT(<<Field("x", NamedT(NameB))>>),
    StructT(<<Field("x", BasicT("int64")), Field("y", SliceT(NamedT("A")))>>),
    StructT(<<Field("x", NamedT("A")), Field("y", SliceT(BasicT("int64")))>>),
    StructT(<<Field("x", SliceT(NamedT(NameB))), Field("y", BasicT("string"))>>) }

(* The defined types a struct type holds directly, not through a slice or *)
(* a pointer.                                                             *)
Embeds(u, n) ==
  IF u[n].k = "struct"
  THEN {u[n].fields[i].type.n : i \in {i \in DOMAIN u[n].fields : u[n].fields[i].type.k = "named"}}
  ELSE {}

(* Go rejects a struct type that holds itself, directly or through       *)
(* another struct ("invalid recursive type").                            *)
GoAccepts(u) ==
  \A n \in {"A", NameB} : n \notin Embeds(u, n) /\ \A m \in Embeds(u, n) : n \notin Embeds(u, m)

AllUnders ==
  {[n \in MCNamedIds |-> IF n = "U" THEN UUnder ELSE IF n = "A" THEN a ELSE b] : a, b \in MainUnders}

MCUnderChoices == {u \in AllUnders : GoAccepts(u)}

MCDefs == {TypeDefOf("A"), TypeDefOf(NameB), PkgNameDef("main"), VarDef("v", BasicT("string"))}

MCRequests == {"", "A", NameB, "Z", "main"}
=============================================================================
