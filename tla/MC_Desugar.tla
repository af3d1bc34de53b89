---------------------------- MODULE MC_Desugar -----------------------------
(* Function bodies for the desugaring pass: a statement, possibly under   *)
(* the user label L, holding a statement that holds a break, a continue    *)
(* (either possibly naming L) or an expression statement.  Each compound   *)
(* comes in every form the pass distinguishes: with and without an         *)
(* initialiser or post statement, ranges with a nil, blank or named key    *)
(* and value over each type in RangeTypes.  Only bodies Go accepts are      *)
(* kept: every branch has a target, continue leaves a loop, L is used.     *)
EXTENDS Desugar

(* The static types a range can be over that the pass tells apart.       *)
MCRangeTypes == {"slice", "map"}
MCRangeTypesNamed == {"slice", "named"}

CONSTANT RangeTypes

L  == [k |-> "user", n |-> 100]
KI == [k |-> "user", n |-> 1]     \* a user key / loop variable
VI == [k |-> "user", n |-> 2]     \* a user value variable
XI == [k |-> "user", n |-> 3]     \* the ranged-over expression

MCUserLabels == {L}

Expr(id) == [k |-> "expr", id |-> id]
Branch(id, tok, lab) == [k |-> "branch", id |-> id, tok |-> tok, label |-> lab]

Leaves(id) ==
  {Expr(id)} \cup {Branch(id, t, l) : t \in {"break", "continue"}, l \in {NilI, L}}

Inits == {NilS, Assign(<<KI>>, "define", "init")}

(* Every compound statement with the given id and body list.             *)
Compounds(id, list) ==
     {[k |-> "if", id |-> id, init |-> i, body |-> Block(list), else |-> NilS] : i \in Inits}
  \cup {[k |-> "for", id |-> id, init |-> i, post |-> p, body |-> Block(list)] :
          i \in Inits, p \in {NilS, IncDec(KI)}}
  \cup {r \in {[k |-> "range", id |-> id, key |-> key, value |-> v, tok |-> tok, x |-> XI,
                 xt |-> t, body |-> Block(list)] : key \in {NilI, Under, KI}, v \in {NilI, Under, VI},
                                         tok \in {"define", "assign"}, t \in RangeTypes} :
          /\ r.key = NilI => r.value = NilI
          /\ r.tok = "assign" => r.key = KI}
  \cup {[k |-> sk, id |-> id, init |-> i,
         body |-> Block(<<[k |-> "case", id |-> id + 10, body |-> list]>>)] :
          sk \in {"switch", "typeswitch"}, i \in Inits}

Outer(inner) == {c : c \in Compounds(1, <<inner>>)}

Candidates ==
  UNION {UNION {{Block(<<o>>), Block(<<Labeled(L, o)>>)} : o \in Outer(in)} :
          in \in UNION {Compounds(2, <<lf>>) : lf \in Leaves(3)}}

GoAccepts(s) ==
  LET N == Nodes(s)
      T == Targets(s)
      Kind(id) == (CHOOSE n \in N : n.id = id).k
  IN
  /\ \A t \in T : t[2] # NoTarget
  /\ \A t \in T : Kind(t[2]) \in {"for", "range", "switch", "typeswitch"}
  /\ \A b \in N : b.k = "branch" /\ b.tok = "continue" =>
       \A t \in T : t[1] = b.id => Kind(t[2]) \in {"for", "range"}
  /\ (\E n \in N : n.k = "labeled") <=> (\E b \in N : b.k = "branch" /\ b.label = L)

MCPrograms == {s \in Candidates : GoAccepts(s)}
=============================================================================
