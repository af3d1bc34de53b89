----------------------------- MODULE Registry -----------------------------
(***************************************************************************)
(* The process-wide type register of src/unnamed/part_000: Register and   *)
(* registerSerde wrap the user's serializer and deserializer in closures   *)
(* and attach them to the type; attach assigns a type its id, its position *)
(* in custom, the first time it is registered and keeps it afterwards.     *)
(***************************************************************************)
EXTENDS Integers, Sequences, FiniteSets

CONSTANTS
  Types,      \* reflect.Type values that get registered
  Callbacks,  \* user serializer / deserializer functions
  Nil         \* a nil function value

ASSUME Nil \notin Callbacks

VARIABLES
  custom,   \* typemap.custom: registered types in registration order
  serdes    \* typemap.serdes: type -> [id, ser, des], or NoSerde

vars == <<custom, serdes>>

NoSerde == [id |-> -1, ser |-> Nil, des |-> Nil]

(* The closure registerSerde builds around a user function: a non-nil     *)
(* func value whatever the function it calls.                              *)
Wrap(userFn) == [calls |-> userFn]

(* typemap.serdeOf                                                          *)
Registered(t) == serdes[t] # NoSerde

-----------------------------------------------------------------------------
(* Fault: the id taken after the type is appended to custom.             *)
AttachIdAfterAppend(t, ser, des) ==
  IF ser = Nil \/ des = Nil
  THEN UNCHANGED <<custom, serdes>>
  ELSE /\ custom' = IF Registered(t) THEN custom ELSE Append(custom, t)
       /\ serdes' = [serdes EXCEPT ![t] =
                      [id  |-> IF Registered(t) THEN @.id ELSE Len(custom) + 1,
                       ser |-> ser, des |-> des]]

(* Fault: a new id on every registration, re-registration included.      *)
AttachAlwaysNewId(t, ser, des) ==
  IF ser = Nil \/ des = Nil
  THEN UNCHANGED <<custom, serdes>>
  ELSE /\ custom' = Append(custom, t)
       /\ serdes' = [serdes EXCEPT ![t] = [id |-> Len(custom), ser |-> ser, des |-> des]]

(* typemap.attach: panic unless both functions are given; a type seen for *)
(* the first time gets id len(custom) and is appended to custom; the       *)
(* functions are replaced in any case.  A panic in attach leaves the       *)
(* register as it was (the process then dies in its init).                 *)
Attach(t, ser, des) ==
  IF ser = Nil \/ des = Nil
  THEN UNCHANGED <<custom, serdes>>
  ELSE /\ custom' = IF Registered(t) THEN custom ELSE Append(custom, t)
       /\ serdes' = [serdes EXCEPT ![t] =
                      [id  |-> IF Registered(t) THEN @.id ELSE Len(custom),
                       ser |-> ser, des |-> des]]

(* Register[T](serializer, deserializer), through registerSerde.          *)
Register(t, userSer, userDes) == Attach(t, Wrap(userSer), Wrap(userDes))

Init ==
  /\ custom = <<>>
  /\ serdes = [t \in Types |-> NoSerde]

Next == \E t \in Types, s, d \in Callbacks \cup {Nil} : Register(t, s, d)

Spec == Init /\ [][Next]_vars

-----------------------------------------------------------------------------
TypeOK ==
  /\ custom \in Seq(Types)
  /\ \A t \in Types : serdes[t] = NoSerde \/ serdes[t].id \in 0..Len(custom) - 1

(* The id of a registered type is its position in custom, and custom      *)
(* lists each registered type once: ids are dense, distinct, and name the  *)
(* type that the deserializer looks up by id.  Since attach only appends   *)
(* to custom, this also gives spec 3's "a type id, once assigned, is never *)
(* reassigned for the life of the process", re-registration included.     *)
IdsArePositions ==
  /\ \A t \in Types : Registered(t) => custom[serdes[t].id + 1] = t
  /\ \A i \in DOMAIN custom : serdes[custom[i]].id = i - 1

(* Spec 4.1: Register fails with MissingCallback when either function is  *)
(* absent, so every registered type has a serializer and a deserializer.   *)
RegisterRejectsMissingCallback ==
  \A t \in Types : Registered(t) => serdes[t].ser.calls # Nil /\ serdes[t].des.calls # Nil

=============================================================================
