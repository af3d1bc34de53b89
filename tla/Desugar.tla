------------------------------ MODULE Desugar ------------------------------
(***************************************************************************)
(* The statement-level desugaring pass of src/unnamed/part_001 (desugar.go)*)
(* as a pure recursive function over a small statement syntax.  Only the   *)
(* CONTROL of the pass is kept: which statement becomes which, where        *)
(* initialisers go, which generated variable or label is taken when, the   *)
(* labels that breaks and continues name, and which labels end up unused.  *)
(* Expressions are left abstract: an assignment records the identifiers it *)
(* defines and a tag for its right-hand side.                              *)
(*                                                                         *)
(* Identifiers (variables and labels) are records [k, n]: a user name, a   *)
(* generated "_v<n>" variable, a generated "_l<n>" label, "_", or none     *)
(* (a nil *ast.Ident).  A statement is a record whose field k is its kind  *)
(* and whose field id names the source statement it stands for; generated  *)
(* statements carry id Gen, the key-collecting loop id Collect.            *)
(***************************************************************************)
EXTENDS Integers, Sequences, FiniteSets, TLC

CONSTANTS
  UserLabels,  \* the user's label identifiers of the function
  Programs     \* function bodies the pass is applied to

NilI   == [k |-> "none",  n |-> 0]          \* a nil *ast.Ident
Under  == [k |-> "under", n |-> 0]          \* the blank identifier _
GenVar(n)   == [k |-> "var",   n |-> n]     \* "_v" + strconv.Itoa(n)
GenLabel(n) == [k |-> "label", n |-> n]     \* "_l" + strconv.Itoa(n)

Gen == -1
Collect == -2
NilS  == [k |-> "nil", id |-> Gen]          \* a nil ast.Stmt
Panic == [k |-> "panic", id |-> Gen]        \* the pass panicked

Assign(lhs, tok, rhs) == [k |-> "assign", id |-> Gen, lhs |-> lhs, tok |-> tok, rhs |-> rhs]
IncDec(v)        == [k |-> "incdec", id |-> Gen, x |-> v]
Block(list)      == [k |-> "block",  id |-> Gen, list |-> list]
Labeled(l, s)    == [k |-> "labeled", id |-> Gen, label |-> l, stmt |-> s]

(* The desugarer's own state: its counters, unusedLabels and userLabels.  *)
State0 == [vars |-> 0, labels |-> 0, unused |-> {},
           user |-> [u \in UserLabels |-> NilI]]

(* A result: the rewritten statement and the desugarer's state after it.  *)
R(s, d) == [s |-> s, d |-> d]

(* newVar: the next "_v<n>"; the types.Info entry is not modelled.        *)
NewVar(d) == R(GenVar(d.vars), [d EXCEPT !.vars = @ + 1])

(* newLabel: the next "_l<n>", recorded as unused.                        *)
NewLabel(d) ==
  R(GenLabel(d.labels),
    [d EXCEPT !.labels = @ + 1, !.unused = @ \cup {GenLabel(d.labels)}])

(* addUserLabel, under the callers' "if userLabel != nil".                *)
AddUserLabel(d, userLabel, l) ==
  IF userLabel = NilI THEN d ELSE [d EXCEPT !.user[userLabel] = l]

(* useLabel                                                                *)
UseLabel(d, l) == [d EXCEPT !.unused = @ \ {l}]

(* isUnderscore, with the nil check its callers make before it.          *)
Blank(e) == e = NilI \/ e = Under

(* `if init != nil { stmt = &ast.BlockStmt{List: {init, stmt}} }`          *)
WithInit(init, s) == IF init = NilS THEN s ELSE Block(<<init, s>>)

(* The indexed loop a range over a sequence is lowered to:                *)
(* for i := 0; i < len(_x); i++ { body }                                  *)
IndexLoop(id, i, body) ==
  [k |-> "for", id |-> id, init |-> Assign(<<i>>, "define", "zero"),
   post |-> IncDec(i), body |-> body]

-----------------------------------------------------------------------------
RECURSIVE D(_, _, _, _, _), DList(_, _, _, _), DIf(_, _, _, _),
          DFor(_, _, _, _, _), DRange(_, _, _, _, _), DSwitch(_, _, _, _, _),
          DBranch(_, _, _, _), DSwitchBreakOnly(_, _, _, _, _),
          DIfKeepsInit(_, _, _, _)

(* Fault: the initialiser is left on the if statement.                    *)
DIfKeepsInit(s, breakTo, continueTo, d) ==
  LET b == D(s.body, breakTo, continueTo, NilI, d)
      e == D(s.else, breakTo, continueTo, NilI, b.d)
  IN  R([s EXCEPT !.body = b.s, !.else = e.s], e.d)

(* case *ast.IfStmt: `if init; cond {}` => `{ init; if cond {} }`          *)
DIf(s, breakTo, continueTo, d) ==
  LET i == D(s.init, NilI, NilI, NilI, d)
      b == D(s.body, breakTo, continueTo, NilI, i.d)
      e == D(s.else, breakTo, continueTo, NilI, b.d)
  IN  R(WithInit(i.s, [s EXCEPT !.init = NilS, !.body = b.s, !.else = e.s]), e.d)

(* case *ast.ForStmt: the initialiser hoisted, the loop under a fresh     *)
(* label that breaks and continues in its body name, the user's label      *)
(* mapped to it.                                                           *)
DFor(s, breakTo, continueTo, userLabel, d) ==
  LET i == D(s.init, NilI, NilI, NilI, d)
      l == NewLabel(i.d)
      b == D(s.body, l.s, l.s, NilI, AddUserLabel(l.d, userLabel, l.s))
      p == D(s.post, NilI, NilI, NilI, b.d)
  IN  R(WithInit(i.s, Labeled(l.s, [s EXCEPT !.init = NilS, !.body = b.s, !.post = p.s])),
        p.d)

(* case *ast.RangeStmt.  _x := x first; then by the static type of x:     *)
(* over an array or slice an indexed loop whose index is the key (or a     *)
(* fresh variable) and whose body starts with `v := _x[i]`; over a map     *)
(* without key and value an indexed loop; over a map otherwise a loop      *)
(* collecting the keys, left as it is, then a range over the keys whose    *)
(* body re-reads the entry and skips an absent one, desugared in turn.     *)
(* Any other type (a named type, a string, a channel...) has no case: the  *)
(* statement is returned as it is.                                         *)
DRange(s, breakTo, continueTo, userLabel, d) ==
  LET x    == NewVar(d)
      init == Assign(<<x.s>>, "define", s.x)
  IN
  CASE s.xt \in {"slice", "array"} ->
         LET i    == IF Blank(s.key) THEN NewVar(x.d) ELSE R(s.key, x.d)
             body == IF Blank(s.value) THEN s.body
                     ELSE [s.body EXCEPT !.list = <<Assign(<<s.value>>, "define", "index")>> \o @]
             f    == D(IndexLoop(s.id, i.s, body), breakTo, continueTo, userLabel, i.d)
         IN  R(Block(<<init, f.s>>), f.d)
    [] s.xt = "map" /\ s.key = NilI /\ s.value = NilI ->
         LET i == NewVar(x.d)
             f == D(IndexLoop(s.id, i.s, s.body), breakTo, continueTo, userLabel, i.d)
         IN  R(Block(<<init, f.s>>), f.d)
    [] s.xt = "map" ->
         LET keys    == NewVar(x.d)
             kv      == NewVar(keys.d)
             collect == Block(<<Assign(<<keys.s>>, "define", "make"),
                               [k |-> "range", id |-> Collect, key |-> kv.s, value |-> NilI, tok |-> "define",
                                x |-> x.s, xt |-> "map",
                                body |-> Block(<<Assign(<<keys.s>>, "assign", "append")>>)]>>)
             mapKey  == IF Blank(s.key) THEN NewVar(kv.d) ELSE R(s.key, kv.d)
             mapVal  == IF s.value # NilI THEN s.value ELSE Under
             ok      == NewVar(mapKey.d)
             lookup  == [k |-> "if", id |-> Gen, init |-> Assign(<<mapVal, ok.s>>, "define", "lookup"),
                         body |-> s.body, else |-> NilS]
             iter    == D([k |-> "range", id |-> s.id, key |-> NilI, value |-> mapKey.s, tok |-> "define",
                           x |-> keys.s, xt |-> "slice", body |-> Block(<<lookup>>)],
                          breakTo, continueTo, userLabel, ok.d)
         IN  R(Block(<<init, collect, iter.s>>), iter.d)
    [] OTHER -> R(s, x.d)

(* Fault: a switch's label is handed down as the continue target as well. *)
DSwitchBreakOnly(s, breakTo, continueTo, userLabel, d) ==
  LET i == D(s.init, NilI, NilI, NilI, d)
      l == NewLabel(i.d)
      b == D(s.body, l.s, l.s, NilI, AddUserLabel(l.d, userLabel, l.s))
  IN  R(WithInit(i.s, Labeled(l.s, [s EXCEPT !.init = NilS, !.body = b.s])), b.d)

(* case *ast.SwitchStmt and *ast.TypeSwitchStmt: the initialiser hoisted, *)
(* the switch under a fresh label that breaks in its cases name; continue  *)
(* keeps the enclosing loop's target.  The type switch's Assign is a leaf. *)
DSwitch(s, breakTo, continueTo, userLabel, d) ==
  LET i == D(s.init, NilI, NilI, NilI, d)
      l == NewLabel(i.d)
      b == D(s.body, l.s, continueTo, NilI, AddUserLabel(l.d, userLabel, l.s))
  IN  R(WithInit(i.s, Labeled(l.s, [s EXCEPT !.init = NilS, !.body = b.s])), b.d)

(* Fault: a labelled branch keeps the user's label.                      *)
DBranchKeepsUserLabel(s, breakTo, continueTo, d) ==
  IF s.label # NilI
  THEN LET l == d.user[s.label]
       IN  IF l = NilI THEN R(Panic, d) ELSE R(s, UseLabel(d, l))
  ELSE CASE s.tok = "break"    -> R([s EXCEPT !.label = breakTo], UseLabel(d, breakTo))
         [] s.tok = "continue" -> R([s EXCEPT !.label = continueTo], UseLabel(d, continueTo))
         [] OTHER              -> R(Panic, d)

(* case *ast.BranchStmt: a labelled branch names the label generated for  *)
(* the user's, and panics if there is none; break and continue name the    *)
(* current targets; fallthrough and goto panic.                            *)
DBranch(s, breakTo, continueTo, d) ==
  IF s.label # NilI
  THEN LET l == d.user[s.label]
       IN  IF l = NilI THEN R(Panic, d) ELSE R([s EXCEPT !.label = l], UseLabel(d, l))
  ELSE CASE s.tok = "break"    -> R([s EXCEPT !.label = breakTo], UseLabel(d, breakTo))
         [] s.tok = "continue" -> R([s EXCEPT !.label = continueTo], UseLabel(d, continueTo))
         [] OTHER              -> R(Panic, d)

(* desugarList: each statement in turn, with the state threaded through.  *)
DList(list, breakTo, continueTo, d) ==
  IF list = <<>> THEN R(<<>>, d)
  ELSE LET h == D(Head(list), breakTo, continueTo, NilI, d)
           t == DList(Tail(list), breakTo, continueTo, h.d)
       IN  R(<<h.s>> \o t.s, t.d)

(* desugarer.desugar: the switch over the statement's kind.  A labelled   *)
(* statement loses its label, which is passed on to the statement it      *)
(* labels; select panics; the simple statements are left as they are.     *)
D(s, breakTo, continueTo, userLabel, d) ==
  CASE s.k = "block"   -> LET r == DList(s.list, breakTo, continueTo, d)
                          IN  R([s EXCEPT !.list = r.s], r.d)
    [] s.k = "if"      -> DIf(s, breakTo, continueTo, d)
    [] s.k = "for"     -> DFor(s, breakTo, continueTo, userLabel, d)
    [] s.k = "range"   -> DRange(s, breakTo, continueTo, userLabel, d)
    [] s.k \in {"switch", "typeswitch"} -> DSwitch(s, breakTo, continueTo, userLabel, d)
    [] s.k = "case"    -> LET r == DList(s.body, breakTo, continueTo, d)
                          IN  R([s EXCEPT !.body = r.s], r.d)
    [] s.k = "branch"  -> DBranch(s, breakTo, continueTo, d)
    [] s.k = "labeled" -> D(s.stmt, breakTo, continueTo, s.label, d)
    [] s.k = "select"  -> R(Panic, d)
    [] OTHER           -> R(s, d)

-----------------------------------------------------------------------------
(* The second pass of desugar: every labelled statement whose label is    *)
(* still unused is replaced by the statement it labels.                    *)
RECURSIVE Elide(_, _)
Elide(s, unused) ==
  LET E(x) == Elide(x, unused)
      EL(l) == [i \in DOMAIN l |-> Elide(l[i], unused)]
  IN
  CASE s.k = "labeled" /\ s.label \in unused -> E(s.stmt)
    [] s.k = "labeled" -> [s EXCEPT !.stmt = E(@)]
    [] s.k = "block"   -> [s EXCEPT !.list = EL(@)]
    [] s.k = "case"    -> [s EXCEPT !.body = EL(@)]
    [] s.k = "if"      -> [s EXCEPT !.body = E(@), !.else = E(@)]
    [] s.k \in {"for", "range", "switch", "typeswitch"} -> [s EXCEPT !.body = E(@)]
    [] OTHER           -> s

(* All statements of a tree.                                               *)
RECURSIVE Nodes(_)
Nodes(s) ==
  {s} \cup
  CASE s.k = "block"   -> UNION {Nodes(s.list[i]) : i \in DOMAIN s.list}
    [] s.k = "case"    -> UNION {Nodes(s.body[i]) : i \in DOMAIN s.body}
    [] s.k = "labeled" -> Nodes(s.stmt)
    [] s.k = "if"      -> Nodes(s.init) \cup Nodes(s.body) \cup Nodes(s.else)
    [] s.k = "for"     -> Nodes(s.init) \cup Nodes(s.post) \cup Nodes(s.body)
    [] s.k \in {"range", "switch", "typeswitch"} -> Nodes(s.body)
    [] OTHER           -> {}

(* desugar(stmt, info): both passes; a panic anywhere aborts the pass.    *)
Desugar(s) ==
  LET r == D(s, NilI, NilI, NilI, State0)
      out == Elide(r.s, r.d.unused)
  IN  IF \E n \in Nodes(out) : n.k = "panic" THEN Panic ELSE out

-----------------------------------------------------------------------------
(* The pass applied to one function body: compileFuncBody calls desugar   *)
(* once per body.                                                          *)
VARIABLES prog, out, done

dvars == <<prog, out, done>>

Init == prog \in Programs /\ out = NilS /\ done = FALSE

Translate == ~done /\ out' = Desugar(prog) /\ done' = TRUE /\ UNCHANGED prog

Next == Translate

Spec == Init /\ [][Next]_dvars

-----------------------------------------------------------------------------
NoTarget == -3

(* Reference: what each break and continue refers to under Go's rules:    *)
(* its label's statement, else the innermost loop (continue) or the        *)
(* innermost loop or switch (break).  A set of <<branch id, target id>>.   *)
RECURSIVE Resolve(_, _, _, _)
Resolve(s, brk, cont, lab) ==
  LET RL(l) == UNION {Resolve(l[i], brk, cont, lab) : i \in DOMAIN l}
      Target(b) == IF b.label = NilI
                   THEN IF b.tok = "break" THEN brk ELSE cont
                   ELSE IF b.label \in DOMAIN lab THEN lab[b.label] ELSE NoTarget
  IN
  CASE s.k = "branch"  -> {<<s.id, Target(s)>>}
    [] s.k = "labeled" -> Resolve(s.stmt, brk, cont, (s.label :> s.stmt.id) @@ lab)
    [] s.k \in {"for", "range"} -> Resolve(s.body, s.id, s.id, lab)
    [] s.k \in {"switch", "typeswitch"} -> Resolve(s.body, s.id, cont, lab)
    [] s.k = "block"   -> RL(s.list)
    [] s.k = "case"    -> RL(s.body)
    [] s.k = "if"      -> Resolve(s.body, brk, cont, lab) \cup Resolve(s.else, brk, cont, lab)
    [] OTHER           -> {}

Targets(s) == Resolve(s, NoTarget, NoTarget, <<>>)

Translated == done /\ out.k # "panic"

(* The rewritten body is a block (or the pass panicked) and every label   *)
(* in it is one the pass generated: the user's labels are all gone.        *)
TypeOK ==
  /\ done \in BOOLEAN
  /\ prog.k = "block"
  /\ out.k \in {"nil", "block", "panic"}
  /\ \A n \in Nodes(out) : n.k \in {"labeled", "branch"} => n.label.k = "label"

(* Every break and continue of the rewritten body leaves the same loop or *)
(* switch as in the user's body: the generated labels of DFor, DSwitch and *)
(* the lowered ranges, and the mapping of user labels, keep each branch's  *)
(* target, and eliding unused labels removes none that a branch names.     *)
BranchTargetsPreserved == Translated => Targets(out) = Targets(prog)

(* Spec 4.5: in the rewritten body no if, for or switch has an           *)
(* initialiser, no range is left but the key-collecting loop, every break  *)
(* and continue names its label, and every label left is named by one.     *)
NormalForm ==
  Translated =>
    LET N == Nodes(out) IN
    \A n \in N :
      /\ n.k \in {"if", "for", "switch", "typeswitch"} => n.init = NilS
      /\ n.k = "range" => n.id = Collect
      /\ n.k = "branch" => n.label # NilI
      /\ n.k = "labeled" => \E b \in N : b.k = "branch" /\ b.label = n.label

(* Spec 4.5.2: every range over an ordered sequence or a map is lowered  *)
(* (none is left but the key-collecting loop); the key and value are bound *)
(* inside the body, so the loop's header counts with a generated index and *)
(* a body that assigns the key does not change which elements are visited; *)
(* and a range that assigns (=) variables declared outside it still        *)
(* assigns them: no declaration (:=) the pass adds names its key or value, *)
(* which would leave the outer variables unchanged by the loop.            *)
RangeLowering ==
  Translated =>
    LET Ranges   == {r \in Nodes(prog) : r.k = "range"}
        Assigned == UNION {{r.key, r.value} : r \in {r \in Ranges : r.tok = "assign"}}
                      \ {NilI, Under}
    IN
    \A n \in Nodes(out) :
      /\ n.k = "range" => n.id = Collect
      /\ n.k = "for" /\ n.id \in {r.id : r \in Ranges} => n.post.x.k = "var"
      /\ n.k = "assign" /\ n.tok = "define" /\ n \notin Nodes(prog)
           => \A i \in DOMAIN n.lhs : n.lhs[i] \notin Assigned

=============================================================================
