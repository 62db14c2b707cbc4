-------------------------- MODULE ProtobufSerializer --------------------------
(***************************************************************************)
(* What the verbalizer grammar gets to read                                *)
(* (sparrowhawk/src/lib/protobuf_serializer.cc): a token's fields, spelled *)
(* into an automaton that has the fields of each message in every order,   *)
(* or, with preserve_order, in the order that the classifier gave them in, *)
(* and each string with its quotes or without.                             *)
(*                                                                         *)
(* An automaton is its number of states, 0 the first, its arcs in the      *)
(* order in which they were added, and the state `at' that was reached.  A *)
(* weight is left out: only that of the skipped features is not One.       *)
(***************************************************************************)
EXTENDS Normalizer

CONSTANT MaxOrders  \* 5040 in the program

ASSUME MaxOrdersAssumption == MaxOrders \in Nat \ {0}

Empty == [size |-> 1, arcs |-> <<>>, at |-> 0]

AddArc(g, from, o, to) ==
  [g EXCEPT !.arcs = Append(@, [from |-> from, o |-> o, to |-> to])]

\* A chain of new states, which SerializeChar makes one by one.
Chain(g, s) ==
  LET State(k) == IF k = 0 THEN g.at ELSE g.size + k - 1 IN
  [size |-> g.size + Len(s), at |-> State(Len(s)),
   arcs |-> g.arcs \o [k \in DOMAIN s |-> [from |-> State(k - 1), o |-> s[k],
                                            to |-> State(k)]]]

InQuotes(v) == <<"dquote">> \o v \o <<"dquote">>

\* Quotes are taken together or not at all.
RECURSIVE SerializeString(_, _)
SerializeString(g, s) ==
  LET h == Chain(g, s) IN
  IF Len(s) >= 2 /\ s[1] = "dquote" /\ Last(s) = "dquote"
  THEN LET bare == SerializeString([h EXCEPT !.at = g.at], Tail(Front(s)))
       IN  [AddArc(bare, bare.at, "eps", h.at) EXCEPT !.at = h.at]
  ELSE h

\* Mutant: the space at the end is kept.
KeepTrailingSpace(g, finish) == AddArc(g, g.size - 1, "eps", finish)

\* From behind the last arc, state by state, that is not a space.
StripTrailingSpace(g, finish) ==
  LET FirstArcs(k) == SelectSeq(g.arcs, LAMBDA a : a.from = k)
      Ends == {k \in 1 .. g.size - 1 :
                 FirstArcs(k) # <<>> /\ FirstArcs(k)[1].o # "sp"}
  IN  IF Ends = {} THEN g
      ELSE AddArc(g, FirstArcs(Max(Ends))[1].to, "eps", finish)
-----------------------------------------------------------------------------
ListFields(is, m) == SelectSeq(Fields[is], LAMBDA f : m[f] # Unset)

\* Some order was recorded, too.
PreservesOrder(is, m) ==
  /\ is \in MessageFields /\ m.preserve_order = Given(<<"true">>)
  /\ m.field_order # <<>>

\* next_permutation begins with the fields' numbers and ends with MaxOrders.
Permuted(fields) ==
  LET n == Len(fields)
      Before(q, r) == \E k \in 1 .. n : q[k] < r[k] /\ \A j \in 1 .. k - 1 : q[j] = r[j]
      all == SetToSortSeq({q \in [1 .. n -> 1 .. n] : IsInjective(q)}, Before)
  IN  [k \in 1 .. Min({MaxOrders, Len(all)}) |-> [j \in 1 .. n |-> fields[all[k][j]]]]

\* With the order, preserve_order itself was recorded, and is here once more.
Orders(is, m) ==
  IF PreservesOrder(is, m) THEN <<Append(m.field_order, "preserve_order")>>
  ELSE Permuted(ListFields(is, m))

RECURSIVE SerializeToFstInternal(_, _, _)

\* The features may be skipped, to the state behind their space.
SerializeField(g, f, v) ==
  IF f \in MessageFields
  THEN LET inner == SerializeToFstInternal(SerializeString(g, <<f, "sp", "{", "sp">>), f, v)
       IN  SerializeString(inner, <<"sp", "}", "sp">>)
  ELSE LET named == SerializeString(g, <<f, ":", "sp">>)
           text  == SerializeString(named, IF f \in BoolFields THEN v ELSE InQuotes(v))
           h     == Chain(text, <<"sp">>)
       IN  IF f = "morphosyntactic_features" THEN AddArc(h, g.at, "eps", h.at) ELSE h

SerializePermutation(g, m, fields) ==
  LET AllOf(h, f) == FoldLeft(LAMBDA i, v : SerializeField(i, f, v), h, m[f])
  IN  FoldLeft(AllOf, g, SelectSeq(fields, LAMBDA f : f # "field_order"))

SerializeToFstInternal(g, is, m) ==
  LET finish == g.size
      From(h, fields) ==
        StripTrailingSpace(SerializePermutation([h EXCEPT !.at = g.at], m, fields), finish)
  IN  IF ListFields(is, m) = <<>> THEN g
      ELSE [FoldLeft(From, [g EXCEPT !.size = @ + 1], Orders(is, m)) EXCEPT !.at = finish]

SerializeToFst(token) == SerializeToFstInternal(Empty, "tokens", token)
-----------------------------------------------------------------------------
RECURSIVE StringsFrom(_, _)
StringsFrom(g, k) ==
  (IF k = g.at THEN {<<>>} ELSE {}) \cup
  UNION {{IF a.o = "eps" THEN w ELSE <<a.o>> \o w : w \in StringsFrom(g, a.to)} :
           a \in {b \in ToSet(g.arcs) : b.from = k}}

Strings(g) == StringsFrom(g, 0)

(* How a message may be written, by what is in it: each string with quotes *)
(* and without, the fields in their numbers' order, or in every order and  *)
(* with the features or without.                                           *)

Featureless(fields) == SelectSeq(fields, LAMBDA f : f # "morphosyntactic_features")

Orderings(is, m) ==
  IF PreservesOrder(is, m) THEN ToSet(Orders(is, m))
  ELSE SetToSeqs(ToSet(ListFields(is, m)))

Fits(is, m) == Cardinality(Orderings(is, m)) <= MaxOrders

Spaced(before, after) ==
  IF before = {<<>>} THEN after ELSE {v \o <<"sp">> \o w : v \in before, w \in after}

RECURSIVE Spellings(_, _, _)

SpellingsOf(f, v, any) ==
  IF f \in MessageFields
  THEN {<<f, "sp", "{", "sp">> \o w \o <<"sp", "}">> : w \in Spellings(f, v, any)}
  ELSE {<<f, ":", "sp">> \o w : w \in IF f \in BoolFields THEN {v} ELSE {v, InQuotes(v)}}

SpelledIn(m, fields, any) ==
  FoldLeft(LAMBDA before, f :
             FoldLeft(LAMBDA b, v : Spaced(b, SpellingsOf(f, v, any)), before, m[f]),
           {<<>>}, SelectSeq(fields, LAMBDA f : f # "field_order"))

Spellings(is, m, any) ==
  LET all == Orderings(is, m)
      orders == IF any THEN all \cup ({Featureless(fields) : fields \in all} \ {<<>>})
                ELSE {Orders(is, m)[1]}
  IN  UNION {SpelledIn(m, fields, any) : fields \in orders}
-----------------------------------------------------------------------------
\* What is no field for the grammar to read.
CleanFields(t) ==
  [f \in DOMAIN t |->
     IF f \in {"first", "last", "type", "skip", "phrase_break", "name"} THEN Unset ELSE t[f]]

\* What the grammar gets for a token, and that it may have no reading for it.
VerbalizerInput(t) == SerializeToFst(CleanFields(t))

(* The automaton that the verbalizer grammar reads spells the token and    *)
(* nothing else: the fields of each message once, in every order, or with  *)
(* preserve_order in the recorded one; strings in quotes and bare, the     *)
(* features there and skipped, even where they come last, and no space at  *)
(* the end.  Of more orders than MaxOrders some are missing, but never     *)
(* that of the fields' numbers                                             *)
(* (SerializeToFst, StripTrailingSpace, and CleanFields before it).        *)
AllOrdersFit(t) ==
  /\ Fits("tokens", t)
  /\ \A f \in MessageFields : t[f] # Unset => Fits(f, t[f][1])
SpellsTheToken ==
  pc = "parsed" => \A k \in next .. Len(tokens) :
    TypeOf(tokens[k]) = "SEMIOTIC_CLASS" =>
      LET t == CleanFields(tokens[k])
          strings == Strings(VerbalizerInput(tokens[k]))
      IN  /\ strings \subseteq Spellings("tokens", t, TRUE)
          /\ AllOrdersFit(t) => strings = Spellings("tokens", t, TRUE)
          /\ Spellings("tokens", t, FALSE) \subseteq strings
=============================================================================
