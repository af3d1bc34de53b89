----------------------------- MODULE SerdeGen -----------------------------
(***************************************************************************)
(* The serde code generator of src/compiler/compile.go (738-1225): given  *)
(* -type T it finds T's definition, walks T's type and emits a serializer *)
(* and a deserializer for every slice and struct type it reaches, memoised *)
(* in generator.known (a typeutil.Map, keyed by types.Identical).         *)
(*                                                                         *)
(* Types are terms.  A defined (named) type is referred to by its name and *)
(* its underlying type is under[n]; slices, pointers and structs are       *)
(* nested terms, so types.Identical is equality of terms.  The emitted     *)
(* source is kept as the functions it defines: their name, role, the type *)
(* their signature names, and the calls their bodies make.                 *)
(***************************************************************************)
EXTENDS Integers, Sequences, FiniteSets, TLC

CONSTANTS
  NamedIds,     \* the defined types of the loaded packages
  PkgOf,        \* NamedIds -> "main" (the package of T) or "other"
  UnderChoices, \* candidate functions NamedIds -> underlying type
  Defs,         \* TypesInfo.Defs of the loaded package: [name, kind, type]
  Requests      \* values of the -type flag

VARIABLES
  typeName,  \* the -type flag
  under,     \* Underlying() of every defined type
  target,    \* the typedef findTypeDef returned
  out,       \* the functions of the generated source, in emission order
  imports,   \* generator.imports: package name -> path
  result     \* "none" before generate; then how the command ended

vars == <<typeName, under, target, out, imports, result>>

Ty(k, b, n, e, fs) == [k |-> k, b |-> b, n |-> n, elem |-> e, fields |-> fs]
BasicT(b)   == Ty("basic", b, "", <<>>, <<>>)
NamedT(n)   == Ty("named", "", n, <<>>, <<>>)
SliceT(t)   == Ty("slice", "", "", <<t>>, <<>>)
PointerT(t) == Ty("pointer", "", "", <<t>>, <<>>)
StructT(fs) == Ty("struct", "", "", <<>>, fs)
Field(f, t) == [name |-> f, type |-> t]
Elem(t)     == t.elem[1]
NoType      == Ty("none", "", "", <<>>, <<>>)

TypeDefOf(n)     == [name |-> n, kind |-> "type", type |-> NamedT(n)]
VarDef(n, t)     == [name |-> n, kind |-> "var", type |-> t]
PkgNameDef(n)    == [name |-> n, kind |-> "nil", type |-> NoType]
NoDef            == [name |-> "", kind |-> "none", type |-> NoType]

SerdePath == "github.com/stealthrocket/coroutine/serde"

(* The serde function each handled basic kind is serialized with (the     *)
(* nameof(serde.SerializeX) cases of Basic).                               *)
Codec ==
  ("string" :> "String") @@ ("bool" :> "Bool") @@ ("int64" :> "Int64") @@
  ("int32" :> "Int32") @@ ("int16" :> "Int16") @@ ("int8" :> "Int8") @@
  ("uint64" :> "Uint64") @@ ("uint32" :> "Uint32") @@ ("uint16" :> "Uint16") @@
  ("uint8" :> "Uint8") @@ ("float32" :> "Float32") @@ ("float64" :> "Float64") @@
  ("complex64" :> "Complex64") @@ ("complex128" :> "Complex128")

(* types.TypeString(t, RelativeTo(main)) contains a character isInvalidChar *)
(* rejects unless t is a basic type or a defined type of the main package:  *)
(* "[]T", "struct{...}", "*T" and the path-qualified "example.com/p.U".   *)
HasInvalidChar(t) == ~(t.k = "basic" \/ (t.k = "named" /\ PkgOf[t.n] = "main"))

(* The type string names a type of another package by its import path,    *)
(* which is not Go syntax: format.Source rejects such a source.            *)
RECURSIVE Qualified(_)
Qualified(t) ==
  CASE t.k = "named"             -> PkgOf[t.n] # "main"
    [] t.k \in {"slice", "pointer"} -> Qualified(Elem(t))
    [] t.k = "struct"            -> \E i \in DOMAIN t.fields : Qualified(t.fields[i].type)
    [] OTHER                     -> FALSE

-----------------------------------------------------------------------------
(* The generator's state, threaded through the recursive walk.            *)
G0 == [known |-> <<>>, imports |-> <<>>, out |-> <<>>, panic |-> FALSE]
Panic(g) == [g EXCEPT !.panic = TRUE]
NoLoc == [pkg |-> "", ser |-> "", des |-> "", method |-> FALSE]

(* generator.get: the locations memoised for a type identical to t.       *)
Known(g, t) == t \in DOMAIN g.known

(* generator.ensureImport                                                  *)
EnsureImport(g, name, path) ==
  CASE name \in DOMAIN g.imports /\ g.imports[name] # path -> Panic(g)
    [] name \in DOMAIN g.imports                         -> g
    [] OTHER -> [g EXCEPT !.imports = (name :> path) @@ @]

(* generator.newGenLocation: name the functions after the type string, or  *)
(* gen<known.Len()> when it is not an identifier; memoise; panic if t     *)
(* already had locations.  Returns <<locations, generator>>.               *)
NewGenLocation(g, t, nameT) ==
  LET base == IF HasInvalidChar(nameT)
              THEN "gen" \o ToString(Cardinality(DOMAIN g.known))
              ELSE nameT.n
      loc  == [pkg |-> "", ser |-> "Serialize_" \o base,
               des |-> "Deserialize_" \o base, method |-> FALSE]
  IN IF Known(g, t) THEN <<loc, Panic(g)>>
     ELSE <<loc, [g EXCEPT !.known = (t :> loc) @@ @]>>

(* Fault: the serde codec used without importing serde.                  *)
BasicNoImport(g, t) ==
  IF t.b \in DOMAIN Codec
  THEN <<[pkg |-> "serde", ser |-> "Serialize" \o Codec[t.b],
          des |-> "Deserialize" \o Codec[t.b], method |-> FALSE], g>>
  ELSE <<NoLoc, Panic(g)>>

(* generator.Basic: import serde and use its codec for the kind; panic on *)
(* Invalid and on the kinds with no codec (int, uint, uintptr, ...).       *)
Basic(g, t) ==
  LET g1 == EnsureImport(g, "serde", SerdePath)
  IN IF t.b \in DOMAIN Codec
     THEN <<[pkg |-> "serde", ser |-> "Serialize" \o Codec[t.b],
             des |-> "Deserialize" \o Codec[t.b], method |-> FALSE], g1>>
     ELSE <<NoLoc, Panic(g1)>>

(* serializeCallForLoc / deserializeCallForLoc: the call written for a     *)
(* value x of type arg; role selects the serializer or the deserializer.  *)
CallForLoc(loc, role, arg) ==
  [fn |-> IF role = "ser" THEN loc.ser ELSE loc.des, pkg |-> loc.pkg,
   method |-> loc.method, arg |-> arg]

(* A generated function: its name, its role, the type its signature uses, *)
(* and the calls of its body.                                              *)
Func(name, role, type, calls) ==
  [name |-> name, role |-> role, type |-> type, calls |-> calls]

(* W of a function's text.  Writing a call for a location that is both a *)
(* method and package-qualified panics.                                    *)
Emit(g, fs) ==
  CASE g.panic -> g
    [] \E f \in {fs[i] : i \in DOMAIN fs} :
         \E j \in DOMAIN f.calls : f.calls[j].method /\ f.calls[j].pkg # "" -> Panic(g)
    [] OTHER -> [g EXCEPT !.out = @ \o fs]

-----------------------------------------------------------------------------
RECURSIVE Type(_, _, _), Named(_, _), FieldLocsDropLast(_, _), FieldLocs(_, _),
          SliceCallsSelf(_, _, _), Slice(_, _, _), StructNoGet(_, _, _),
          Struct(_, _, _)

(* Fault: a field loop that stops one field short (i < n-1).             *)
FieldLocsDropLast(g, fs) ==
  IF Len(fs) <= 1 THEN <<<<>>, g>>
  ELSE LET h == Type(g, Head(fs).type, Head(fs).type)
           r == FieldLocsDropLast(h[2], Tail(fs))
       IN <<<<h[1]>> \o r[1], r[2]>>

(* One loop of Struct over its fields: g.Type(ft, TypeNameFor(ft)) for   *)
(* each field in order.  Returns <<the fields' locations, generator>>.    *)
FieldLocs(g, fs) ==
  IF fs = <<>> THEN <<<<>>, g>>
  ELSE LET h == Type(g, Head(fs).type, Head(fs).type)
           r == FieldLocs(h[2], Tail(fs))
       IN <<<<h[1]>> \o r[1], r[2]>>

(* Fault: the element calls written for the slice's own locations.        *)
SliceCallsSelf(g, t, nameT) ==
  IF Known(g, t) THEN <<g.known[t], g>>
  ELSE LET l  == NewGenLocation(g, t, nameT)
           et == Elem(t)
           e  == Type(l[2], et, et)
       IN <<l[1], Emit(e[2], <<Func(l[1].ser, "ser", nameT, <<CallForLoc(l[1], "ser", et)>>),
                               Func(l[1].des, "des", nameT, <<CallForLoc(l[1], "des", et)>>)>>)>>

(* generator.Slice: reuse the memoised locations; otherwise take new ones *)
(* before generating the element type (so a recursive type terminates),  *)
(* then write the serializer, which calls the element's serializer per    *)
(* element, and the deserializer, which calls the element's deserializer. *)
Slice(g, t, nameT) ==
  IF Known(g, t) THEN <<g.known[t], g>>
  ELSE LET l  == NewGenLocation(g, t, nameT)
           et == Elem(t)
           e  == Type(l[2], et, et)
       IN <<l[1], Emit(e[2], <<Func(l[1].ser, "ser", nameT, <<CallForLoc(e[1], "ser", et)>>),
                               Func(l[1].des, "des", nameT, <<CallForLoc(e[1], "des", et)>>)>>)>>

(* generator.Named: generate for the underlying type, under the name of  *)
(* the defined type.                                                      *)
Named(g, t) == Type(g, under[t.n], t)

(* The calls a struct function makes for its fields, in field order.      *)
FieldCalls(locs, fs, role) == [i \in DOMAIN locs |-> CallForLoc(locs[i], role, fs[i].type)]

(* Fault: the struct check of the memo left out.                          *)
StructNoGet(g, t, nameT) ==
  LET l  == NewGenLocation(g, t, nameT)
      g1 == FieldLocs(l[2], t.fields)[2]
      s  == FieldLocs(g1, t.fields)
      d  == FieldLocs(s[2], t.fields)
  IN <<l[1], Emit(d[2], <<Func(l[1].ser, "ser", nameT, FieldCalls(s[1], t.fields, "ser")),
                          Func(l[1].des, "des", nameT, FieldCalls(d[1], t.fields, "des"))>>)>>

(* generator.Struct: reuse the memoised locations; otherwise take new ones,*)
(* generate every field type (first loop), then write the serializer      *)
(* (second loop: one call per field) and the deserializer (third loop).   *)
Struct(g, t, nameT) ==
  IF Known(g, t) THEN <<g.known[t], g>>
  ELSE
  LET l  == NewGenLocation(g, t, nameT)
      g1 == FieldLocs(l[2], t.fields)[2]
      s  == FieldLocs(g1, t.fields)
      d  == FieldLocs(s[2], t.fields)
  IN <<l[1], Emit(d[2], <<Func(l[1].ser, "ser", nameT, FieldCalls(s[1], t.fields, "ser")),
                          Func(l[1].des, "des", nameT, FieldCalls(d[1], t.fields, "des"))>>)>>

(* generator.Type: dispatch on the kind of type; pointers, maps, arrays,  *)
(* interfaces and the rest are not implemented and panic.  A panic       *)
(* unwinds the whole walk, so a panicked generator is left as it is.      *)
Type(g, t, nameT) ==
  IF g.panic THEN <<NoLoc, g>>
  ELSE CASE t.k = "basic"  -> Basic(g, t)
         [] t.k = "struct" -> Struct(g, t, nameT)
         [] t.k = "named"  -> Named(g, t)
         [] t.k = "slice"  -> Slice(g, t, nameT)
         [] OTHER          -> <<NoLoc, Panic(g)>>

(* generator.Typedef: generate for the type of the object found.          *)
Typedef(g, td) == Type(g, td.type, td.type)[2]

-----------------------------------------------------------------------------
(* findTypeDef: the definitions of the package whose identifier is named  *)
(* typeName.  The loop ranges over TypesInfo.Defs, a Go map, and returns *)
(* the first match, so any matching definition may be the one found: a    *)
(* type, a variable or field, or the nil object of a package clause.      *)
FindTypeDef == {d \in Defs : d.name = typeName}

(* typedef.TargetFile: t.obj.Pos() on the nil object of a package clause *)
(* dereferences nil; the files of a loaded package all end in ".go", so   *)
(* its own panic does not fire.                                           *)
TargetFilePanics(td) == td.kind = "nil"

(* The types the text of a generated function spells out: its parameter  *)
(* or result type, and in a deserializer the "var x T" of each call.      *)
Spelled(f) == {f.type} \cup IF f.role = "des" THEN {f.calls[i].arg : i \in DOMAIN f.calls} ELSE {}

Init ==
  /\ typeName \in Requests
  /\ under \in UnderChoices
  /\ target = NoDef
  /\ out = <<>>
  /\ imports = <<>>
  /\ result = "none"

(* main, then generate: exit 2 without -type; an error when no definition *)
(* is found; otherwise TargetFile (a nil object panics there), Typedef,   *)
(* WriteTo, then format.Source, whose error is returned before the output *)
(* file is opened, and finally the file written.                          *)
Generate ==
  /\ result = "none"
  /\ \/ /\ typeName = ""
        /\ result' = "usage"
        /\ UNCHANGED <<target, out, imports>>
     \/ /\ typeName # ""
        /\ FindTypeDef = {}
        /\ result' = "notfound"
        /\ UNCHANGED <<target, out, imports>>
     \/ /\ typeName # ""
        /\ \E td \in FindTypeDef :
             LET g == IF TargetFilePanics(td) THEN Panic(G0) ELSE Typedef(G0, td)
             IN /\ target' = td
                /\ out' = g.out
                /\ imports' = g.imports
                /\ result' = CASE g.panic -> "panic"
                               [] \E i \in DOMAIN g.out : \E t \in Spelled(g.out[i]) : Qualified(t)
                                  -> "fmterror"
                               [] OTHER -> "written"
  /\ UNCHANGED <<typeName, under>>

Spec == Init /\ [][Generate]_vars

-----------------------------------------------------------------------------
(* Reference definitions over the type graph, independent of the walk.   *)
Underlying(t) == IF t.k = "named" THEN under[t.n] ELSE t

Children(t) ==
  CASE t.k = "named"                -> {under[t.n]}
    [] t.k \in {"slice", "pointer"} -> {Elem(t)}
    [] t.k = "struct"               -> {t.fields[i].type : i \in DOMAIN t.fields}
    [] OTHER                        -> {}

(* The types reachable from a set of types, as a least fixpoint.          *)
RECURSIVE ReachFrom(_)
ReachFrom(S) ==
  LET S2 == S \cup UNION {Children(t) : t \in S}
  IN IF S2 = S THEN S ELSE ReachFrom(S2)

Reach(t) == ReachFrom({t})

(* Types the generator has no code for.                                   *)
Unsupported(t) ==
  \/ t.k \in {"pointer", "none"}
  \/ t.k = "basic" /\ t.b \notin DOMAIN Codec

(* Go's defined types: declared ones and the predeclared basic types.    *)
Defined(t) == t.k \in {"named", "basic"}

(* Go assignability of a value of type v to a variable of type p.        *)
Assignable(v, p) == v = p \/ (Underlying(v) = Underlying(p) /\ ~(Defined(v) /\ Defined(p)))

(* The generation ran to its end, so the functions were written out.     *)
Emitted == result \in {"written", "fmterror"}

(* The function a call invokes and the type of the value it handles:     *)
(* a generated function, or serde's codec for a basic kind.               *)
OutFuncs == {out[i] : i \in DOMAIN out}

Callee(c, role) ==
  {[name |-> f.name, type |-> f.type] : f \in OutFuncs}
  \cup {[name |-> (IF role = "ser" THEN "Serialize" ELSE "Deserialize") \o Codec[b],
         type |-> BasicT(b)] : b \in DOMAIN Codec}

CalleeOf(c, role) ==
  {h \in Callee(c, role) : h.name = c.fn /\ (c.pkg = "serde") = (h.type.k = "basic")}

-----------------------------------------------------------------------------
TypeOK ==
  /\ result \in {"none", "usage", "notfound", "panic", "fmterror", "written"}
  /\ target \in Defs \cup {NoDef}
  /\ DOMAIN imports \subseteq {"serde"}
  /\ \A i \in DOMAIN out :
       /\ out[i].role \in {"ser", "des"}
       /\ \A j \in DOMAIN out[i].calls : out[i].calls[j].pkg \in {""} \cup DOMAIN imports

(* Basic, Type and newGenLocation: the generator panics exactly when the *)
(* requested type reaches a type it has no code for (a pointer, or a      *)
(* basic kind without a serde codec such as int) or findTypeDef returned  *)
(* a package name; the memo keeps a recursive type from reaching          *)
(* newGenLocation's "trying to override known location" panic.           *)
PanicsOnlyOnUnsupported ==
  result \in {"panic", "fmterror", "written"} =>
    (result = "panic" <=> TargetFilePanics(target) \/ \E t \in Reach(target.type) : Unsupported(t))

(* Slice and Struct: once the walk completes, every slice and struct type *)
(* reachable from the requested type, through fields, elements and the    *)
(* underlying types of defined types, has a serializer and a deserializer *)
(* whose signature names it or a defined type with it as underlying type. *)
EveryReachableSerialized ==
  Emitted =>
    \A t \in Reach(target.type) : t.k \in {"slice", "struct"} =>
      \A r \in {"ser", "des"} : \E f \in OutFuncs : f.role = r /\ Underlying(f.type) = t

(* serializeCallForLoc / deserializeCallForLoc with the locations memoised *)
(* in known: every call a generated function makes, for an element or a   *)
(* field, goes to functions of the same role, each of which handles a     *)
(* type with the argument's underlying type, and at least one exists.     *)
CallsMatchArgument ==
  Emitted =>
    \A f \in OutFuncs : \A j \in DOMAIN f.calls :
      LET c == f.calls[j] IN
        /\ CalleeOf(c, f.role) # {}
        /\ \A h \in CalleeOf(c, f.role) : Underlying(h.type) = Underlying(c.arg)

(* The source the generator writes compiles: no function is declared     *)
(* twice (newGenLocation's "TODO: check name collision"), every call      *)
(* passes a value assignable to the callee's parameter, and the callee's  *)
(* result is assignable to the variable the deserializer reads into.     *)
CallsWellTyped ==
  Emitted =>
    /\ \A f, h \in OutFuncs : f.name = h.name => f = h
    /\ \A f \in OutFuncs : \A j \in DOMAIN f.calls :
         \A h \in CalleeOf(f.calls[j], f.role) :
           Assignable(f.calls[j].arg, h.type) /\ Assignable(h.type, f.calls[j].arg)

=============================================================================
