---------------------------- MODULE MCNormalizer ----------------------------
(***************************************************************************)
(* Paths that the classifier may return: a token or two, each spelled as   *)
(* universal_func.grm spells it, with the input anywhere along the path,   *)
(* and a few that it should not return.                                    *)
(***************************************************************************)
EXTENDS SparrowhawkUtt, ProtobufSerializer

\* Spelling and meaning of a token's fields, with spaces and without.
Quoted(f, v) == <<f, ":", "sp", "dquote">> \o v \o <<"dquote">>
Plain(f, v)  == <<f, ":">> \o v
Nothing == NewMessage("tokens")

WordToken == [spelling |-> <<"name", ":", "dquote", "x", "dquote">>,
              meant |-> [Nothing EXCEPT !.name = Given(<<"x">>)]]
\* A word without a spelling.
EmptyToken == [spelling |-> Quoted("name", <<>>),
               meant |-> [Nothing EXCEPT !.name = Given(<<>>)]]
\* Punctuation of one byte, and of three.
Stop == [spelling |-> Quoted("name", <<".">>) \o Plain("type", <<"PUNCT", "sp">>),
         meant |-> [Nothing EXCEPT !.name = Given(<<".">>),
                                   !.type = Given(<<"PUNCT">>)]]
Danda == [spelling |-> Quoted("name", <<"danda">>) \o Plain("type", <<"PUNCT", "sp">>)
                       \o Plain("phrase_break", <<"true">>),
          meant |-> [Nothing EXCEPT !.name = Given(<<"danda">>),
                                    !.type = Given(<<"PUNCT">>),
                                    !.phrase_break = Given(<<"true">>)]]
PunctToken == [spelling |-> Quoted("name", <<"x">>) \o Plain("type", <<"PUNCT", "sp">>)
                            \o Plain("phrase_break", <<"true", "sp">>),
               meant |-> [Nothing EXCEPT !.name = Given(<<"x">>),
                                         !.type = Given(<<"PUNCT">>),
                                         !.phrase_break = Given(<<"true">>)]]
CardinalToken ==
  [spelling |-> <<"sp", "cardinal", "sp", "{", "sp">> \o Plain("integer", <<"eps", "x">>)
                \o <<"}", "sp">>,
   meant |-> [Nothing EXCEPT !.cardinal =
               Given([NewMessage("cardinal") EXCEPT !.integer = Given(<<"x">>)])]]
\* Three fields in no order, spelled against their numbers; twice the same
\* message; an order to preserve, with a number in two parts; nothing at all.
Inner(is, out) == <<is, "sp", "{", "sp">> \o out \o <<"sp", "}", "sp">>
OfCardinal(m)  == [Nothing EXCEPT !.cardinal = Given(m)]
FeaturesToken ==
  [spelling |-> Inner("cardinal", Plain("preserve_order", <<"x", "sp">>)
                      \o Quoted("morphosyntactic_features", <<"x">>)
                      \o Quoted("integer", <<"x", "x">>)),
   meant |-> OfCardinal([NewMessage("cardinal") EXCEPT
               !.integer = Given(<<"x", "x">>), !.preserve_order = Given(<<"false">>),
               !.morphosyntactic_features = Given(<<"x">>)])]
TwiceToken ==
  [spelling |-> Inner("cardinal", Quoted("morphosyntactic_features", <<"x">>))
                \o Inner("cardinal", Quoted("integer", <<>>))
                \o Quoted("verbatim", <<"x", "sp">>),
   meant |-> [OfCardinal([NewMessage("cardinal") EXCEPT
                !.integer = Given(<<>>), !.morphosyntactic_features = Given(<<"x">>)])
              EXCEPT !.verbatim = Given(<<"x", "sp">>)]]
OrderToken ==
  [spelling |-> Inner("telephone", Quoted("number_part", <<"x">>)
                      \o Plain("preserve_order", <<"true", "sp">>)
                      \o Plain("number_part", <<".", "sp">>)
                      \o Quoted("morphosyntactic_features", <<"x">>)),
   meant |-> [Nothing EXCEPT !.telephone = Given([NewMessage("telephone") EXCEPT
                !.number_part = <<<<"x">>, <<".">>>>, !.preserve_order = Given(<<"true">>),
                !.morphosyntactic_features = Given(<<"x">>),
                !.field_order = <<"number_part", "preserve_order", "number_part",
                                  "morphosyntactic_features">>])]]
BareToken == [spelling |-> Inner("cardinal", <<>>), meant |-> OfCardinal(NewMessage("cardinal"))]
\* A quote and a backslash, both escaped.
VerbatimToken ==
  [spelling |-> Quoted("verbatim",
                       <<"backslash", "dquote", "eps", "backslash", "backslash">>),
   meant |-> [Nothing EXCEPT !.verbatim = Given(<<"dquote", "backslash">>)]]
\* A type nobody knows, and a value that ends with the brace.
SkippedToken ==
  [spelling |-> Plain("type", <<"x", "sp">>) \o Plain("skip", <<"true">>),
   meant |-> [Nothing EXCEPT !.skip = Given(<<"true">>)]]
\* A backslash that escapes the closing quote: it is ignored in the end.
RawToken == [spelling |-> Quoted("verbatim", <<"x", "backslash">>),
             meant |-> [Nothing EXCEPT !.verbatim = Given(<<"x">>)]]

Spelled(t) == <<"tokens", "{">> \o t.spelling \o <<"}">>

\* The path that spells out, with the bytes of in at the places at.
Arcs(out, in, at) ==
  [k \in DOMAIN out |->
     [i |-> IF \E j \in DOMAIN in : at[j] = k
            THEN in[CHOOSE j \in DOMAIN in : at[j] = k] ELSE "eps",
      o |-> out[k]]]

Places(n, len) ==
  {at \in [1 .. n -> 1 .. len] : \A i, j \in 1 .. n : i < j => at[i] < at[j]}

Paths(out, in) == {Arcs(out, in, at) : at \in Places(Len(in), Len(out))}

One(t, in) ==
  {[meant |-> <<t.meant>>, path |-> w] : w \in Paths(Spelled(t), in)}

Two(t, u, in) ==
  {[meant |-> <<t.meant, u.meant>>, path |-> w] :
     w \in Paths(Spelled(t) \o <<"sp">> \o Spelled(u), in)}

\* Tokens as long as they like, each with its input at its end.
Row(row) ==
  {[meant |-> [k \in DOMAIN row |-> row[k].t.meant],
    path |-> FlattenSeq([k \in DOMAIN row |->
               [j \in 1 .. Len(Spelled(row[k].t)) - 1 |->
                  [i |-> "eps", o |-> Spelled(row[k].t)[j]]]
               \o [j \in 1 .. Len(row[k].in) |->
                     [i |-> row[k].in[j], o |-> IF j = Len(row[k].in) THEN "}" ELSE "eps"]]])]}
Marks == {[t |-> Stop, in |-> <<".">>], [t |-> Danda, in |-> <<"a", "a", "a">>]}
Others == {[t |-> WordToken, in |-> <<"b">>], [t |-> CardinalToken, in |-> <<".">>]}
Rows == UNION {Row(row) : row \in [1 .. 3 -> Marks] \cup
          {<<u, m, n, v>> : u, v \in Others, m, n \in Marks}}

\* A grammar's mistakes: labels that nobody knows, and paths that are cut off.
Mistakes == {<<"x">>, <<"tokens">>, <<"tokens", "{", "x", ":">>,
             <<"tokens", "{", "name", ":", "x">>,
             <<"tokens", "{">> \o Quoted("name", <<"backslash">>),
             <<"tokens", "{", "cardinal", "{", "name", ":", "x", "}", "}">>,
             <<"tokens", "{", "cardinal", "{", "field_order", ":", "x", "}", "}">>}
Refused(in) == UNION {{[meant |-> <<>>, path |-> w] :
                         w \in Paths(out, in)} : out \in Mistakes}

MCSources ==
  Refused(<<"a">>) \cup
  One(WordToken, <<"sp", "a", "sp">>) \cup One(PunctToken, <<"a">>)
  \cup One(VerbatimToken, <<"a", "sp">>) \cup One(SkippedToken, <<"a">>)
  \cup Two(WordToken, WordToken, <<"a", "sp", "b">>)
  \cup Two(CardinalToken, PunctToken, <<"a", "b">>)
  \cup Two(PunctToken, SkippedToken, <<"a", "b">>)
  \cup Two(VerbatimToken, CardinalToken, <<"a", "b">>)
  \cup Two(WordToken, RawToken, <<"a">>)
  \cup One(EmptyToken, <<"a">>) \cup Two(EmptyToken, WordToken, <<"b">>)
  \cup One(CardinalToken, <<>>)
  \cup Rows
  \cup UNION {Row(<<[t |-> t, in |-> <<"a">>], [t |-> u, in |-> <<"b">>]>>) :
                t, u \in {FeaturesToken, TwiceToken, OrderToken, BareToken}}

MCPunc == {<<".">>, <<"danda">>}

MCReadings == {<<"w">>, <<"w", ",">>}
=============================================================================
