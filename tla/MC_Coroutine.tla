--------------------------- MODULE MC_Coroutine ---------------------------
(***************************************************************************)
(* A program for the Coroutine model, shaped after scenarios S1 and S3 of *)
(* the spec: main has a side effect, calls f, then g, then has another     *)
(* effect; f records a defer, yields, records a second defer and yields    *)
(* again; g calls h, whose body is the single expression Yield(v3) and is  *)
(* therefore left untransformed, so h's Yield reads g's frame as Top.      *)
(***************************************************************************)
EXTENDS Coroutine

S(op, arg) == [op |-> op, arg |-> arg]

MCFuncs == {"main", "f", "g", "h"}

MCBody ==
  [fn \in MCFuncs |->
     CASE fn = "main" -> << S("effect", "e1"), S("call", "f"), S("call", "g"),
                            S("effect", "e2") >>
       [] fn = "f"    -> << S("defer", "d1"), S("effect", "e3"), S("yield", "v1"),
                            S("defer", "d2"), S("effect", "e4"), S("yield", "v2") >>
       [] fn = "g"    -> << S("call", "h"), S("effect", "e5") >>
       [] fn = "h"    -> << S("yield", "v3") >>]

MCEntry == "main"

(* A coroutine whose entry point is h: func() { Yield(v3) }.              *)
MCExprEntry == "h"
MCZero == "zero"
MCSendValues == {"s1"}

(* The state without its history: control never reads log or snapLog, so *)
(* two states that differ only there have the same futures.  Checking      *)
(* Terminates on this view keeps a coroutine that re-executes its body     *)
(* forever a finite cycle instead of an ever longer log.                   *)
ControlView == <<frames, fp, recv, send, done, stop, calls, mode, snapshot>>

=============================================================================
