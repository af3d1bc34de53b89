---------------------------- MODULE RegistryPair ----------------------------
(***************************************************************************)
(* The type register of two processes running the same program: a writer *)
(* that saves values of registered types and a reader, in another process,*)
(* that loads them.  Spec 4.1 and 3: Serialize writes the type id of a    *)
(* value of a polymorphic root before it, and Deserialize looks the type  *)
(* up by that id in its own process's register.  Each process registers  *)
(* the program's types in the program's order (its init), and either may  *)
(* register a type again later, which replaces the functions only.       *)
(***************************************************************************)
EXTENDS Integers, Sequences, FiniteSets

CONSTANTS
  Types, Callbacks, Nil,
  Program,    \* the Register calls of the program's init, in order
  MaxSaves    \* bound on the values saved

VARIABLES
  wcustom, wserdes,  \* the writer's typemap
  rcustom, rserdes,  \* the reader's typemap
  wpc, rpc,          \* how many calls of Program each process has made
  stream,            \* the ids written, in order, with the saved type
  loaded             \* what each load found: [saved, got, early]

vars == <<wcustom, wserdes, rcustom, rserdes, wpc, rpc, stream, loaded>>

W == INSTANCE Registry WITH custom <- wcustom, serdes <- wserdes
R == INSTANCE Registry WITH custom <- rcustom, serdes <- rserdes

Fail == "fail"    \* Deserialize's error for an id with no type

Init ==
  /\ W!Init /\ R!Init
  /\ wpc = 0 /\ rpc = 0
  /\ stream = <<>> /\ loaded = {}

(* A process makes the next Register call of its init.                   *)
WInit ==
  /\ wpc < Len(Program)
  /\ \E s, d \in Callbacks : W!Register(Program[wpc + 1], s, d)
  /\ wpc' = wpc + 1
  /\ UNCHANGED <<rcustom, rserdes, rpc, stream, loaded>>

RInit ==
  /\ rpc < Len(Program)
  /\ \E s, d \in Callbacks : R!Register(Program[rpc + 1], s, d)
  /\ rpc' = rpc + 1
  /\ UNCHANGED <<wcustom, wserdes, wpc, stream, loaded>>

(* Register called again at run time for a type already registered, to   *)
(* replace its functions (spec 3 allows it; the id must not change).      *)
WOverride ==
  /\ \E t \in Types, s, d \in Callbacks : W!Registered(t) /\ W!Register(t, s, d)
  /\ UNCHANGED <<rcustom, rserdes, wpc, rpc, stream, loaded>>

ROverride ==
  /\ \E t \in Types, s, d \in Callbacks : R!Registered(t) /\ R!Register(t, s, d)
  /\ UNCHANGED <<wcustom, wserdes, wpc, rpc, stream, loaded>>

(* Serialize of a value of a registered type: the id from serdeOf first. *)
Save ==
  /\ Len(stream) < MaxSaves
  /\ \E t \in Types :
       /\ W!Registered(t)
       /\ stream' = Append(stream, [type |-> t, id |-> wserdes[t].id])
  /\ UNCHANGED <<wcustom, wserdes, rcustom, rserdes, wpc, rpc, loaded>>

(* Fault: the id is taken as a 1-based position.                          *)
LookupFromOne(custom, id) == IF id \in 1..Len(custom) THEN custom[id] ELSE Fail

(* The type registered with an id: custom[id], or no type.               *)
Lookup(custom, id) == IF id \in 0..Len(custom) - 1 THEN custom[id + 1] ELSE Fail

(* Deserialize of the next value: the type the reader has for its id.    *)
Load ==
  /\ stream # <<>>
  /\ loaded' = loaded \cup {[saved |-> Head(stream).type,
                             got   |-> Lookup(rcustom, Head(stream).id),
                             early |-> rpc < Len(Program)]}
  /\ stream' = Tail(stream)
  /\ UNCHANGED <<wcustom, wserdes, rcustom, rserdes, wpc, rpc>>

Next == WInit \/ RInit \/ WOverride \/ ROverride \/ Save \/ Load

Spec == Init /\ [][Next]_vars

-----------------------------------------------------------------------------
TypeOK == W!TypeOK /\ R!TypeOK

(* attach in each process: ids are positions in custom, dense and stable. *)
IdsArePositions == W!IdsArePositions /\ R!IdsArePositions

(* Resuming in another process: a value loaded by the reader has the type *)
(* the writer saved it with, whatever either process re-registered in     *)
(* between; only a load made before the reader's init has registered the  *)
(* type may fail, and it never yields another type.  This holds because   *)
(* attach gives a type its id once, from the order of first registrations,*)
(* which both processes share.                                            *)
RoundTripPreservesType ==
  \A r \in loaded : r.got = r.saved \/ (r.got = Fail /\ r.early)

=============================================================================
