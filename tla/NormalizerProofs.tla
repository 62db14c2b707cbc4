-------------------------- MODULE NormalizerProofs --------------------------
(***************************************************************************)
(* For every set of sources, of readings and of marks, after any number of *)
(* steps: tokens and words refer to each other (DaughtersAlwaysAgree), and *)
(* the indices of the tokens are the places of their texts in the input    *)
(* (PositionsAreRight), wherever along the path the input is; and what     *)
(* Festival's module reads back has the tokens with their words            *)
(* (WordsAreKept) and the marks between them (MarksAreKept).               *)
(*                                                                         *)
(* The parser's steps are sorted by what they do to the tokens first       *)
(* (ParseStep): open one, close one, or keep them, and read an arc at      *)
(* most; a step of VerbalizeUtt is the turn of one token.  The invariants  *)
(* then need not look into the steps again.  Verbalized says of the tokens *)
(* that had their turn which stretch of the words is theirs, Positioned of *)
(* the parser that what it gathered for a token is the input from the      *)
(* token's start to the place on the path where it is, and Listing of the  *)
(* utterance that the stream is at the beginning of a line, and what the   *)
(* relations have is what the lines before it say.                         *)
(***************************************************************************)
EXTENDS SparrowhawkUtt, SequenceTheorems, FiniteSetTheorems, WellFoundedInduction, TLAPS

\* A sequence of whatever it has.
Listed(s) == s \in Seq({s[k] : k \in DOMAIN s})

\* Every sequence is Listed.
LEMMA ListedSeq ==
    ASSUME NEW S, NEW s \in Seq(S)
    PROVE  Listed(s)
<1>1. /\ Len(s) \in Nat /\ DOMAIN s = 1 .. Len(s) /\ s = [k \in 1 .. Len(s) |-> s[k]]
  OBVIOUS
<1>2. s = SubSeq(s, 1, Len(s))
  BY SubSeqFull
<1>3. SubSeq(s, 1, Len(s)) \in Seq({s[k] : k \in DOMAIN s})
  BY <1>1, SubSeqProperties
<1> QED
  BY <1>2, <1>3 DEF Listed

\* The length and the domain of a sequence.
LEMMA ListedShape ==
    ASSUME NEW s, Listed(s)
    PROVE  /\ Len(s) \in Nat /\ DOMAIN s = 1 .. Len(s)
           /\ s # <<>> <=> Len(s) > 0
<1>1. s \in Seq({s[k] : k \in DOMAIN s})
  BY DEF Listed
<1> HIDE DEF Listed
<1> QED
  BY <1>1, EmptySeq, LenProperties

\* The elements of s with e after them.
LEMMA ListedAppend ==
    ASSUME NEW s, Listed(s), NEW e
    PROVE  /\ Listed(Append(s, e)) /\ Len(Append(s, e)) = Len(s) + 1
           /\ \A k \in 1 .. Len(s) : Append(s, e)[k] = s[k]
           /\ Append(s, e)[Len(s) + 1] = e
<1> DEFINE S == {s[k] : k \in DOMAIN s} \cup {e}
<1>1. s \in Seq(S) /\ e \in S
  <2>1. s \in Seq({s[k] : k \in DOMAIN s})
    BY DEF Listed
  <2> QED
    BY <2>1, SeqMonotonic
<1> HIDE DEF S
<1>2. Append(s, e) \in Seq(S)
  BY <1>1
<1>3. Listed(Append(s, e))
  BY <1>2, ListedSeq
<1> QED
  BY <1>1, <1>3

\* The elements of s and then those of t.
LEMMA ListedConcat ==
    ASSUME NEW s, Listed(s), NEW t, Listed(t)
    PROVE  /\ Listed(s \o t) /\ Len(s \o t) = Len(s) + Len(t)
           /\ \A k \in 1 .. Len(s) : (s \o t)[k] = s[k]
           /\ \A k \in 1 .. Len(t) : (s \o t)[Len(s) + k] = t[k]
<1> DEFINE S == {s[k] : k \in DOMAIN s} \cup {t[k] : k \in DOMAIN t}
<1>1. s \in Seq(S) /\ t \in Seq(S)
  <2>1. /\ s \in Seq({s[k] : k \in DOMAIN s})
        /\ t \in Seq({t[k] : k \in DOMAIN t})
    BY DEF Listed
  <2> QED
    BY <2>1, SeqMonotonic
<1> HIDE DEF S
<1>2. s \o t \in Seq(S)
  BY <1>1
<1>3. Listed(s \o t)
  BY <1>2, ListedSeq
<1>4. /\ Len(s \o t) = Len(s) + Len(t) /\ Len(s) \in Nat /\ Len(t) \in Nat
      /\ \A k \in 1 .. Len(s) + Len(t) :
           (s \o t)[k] = IF k <= Len(s) THEN s[k] ELSE t[k - Len(s)]
  BY <1>1, ConcatProperties
<1>5. ASSUME NEW k \in 1 .. Len(t) PROVE (s \o t)[Len(s) + k] = t[k]
  <2>1. Len(s) + k \in 1 .. Len(s) + Len(t) /\ ~(Len(s) + k <= Len(s)) /\ Len(s) + k - Len(s) = k
    BY <1>4
  <2> QED
    BY <1>4, <2>1
<1>6. ASSUME NEW k \in 1 .. Len(s) PROVE (s \o t)[k] = s[k]
  BY <1>4
<1> QED
  BY <1>3, <1>4, <1>5, <1>6

\* One element of a sequence replaced.
LEMMA ListedExcept ==
    ASSUME NEW s, Listed(s), NEW n \in 1 .. Len(s), NEW e
    PROVE  /\ Listed([s EXCEPT ![n] = e]) /\ Len([s EXCEPT ![n] = e]) = Len(s)
           /\ \A k \in 1 .. Len(s) : [s EXCEPT ![n] = e][k] = IF k = n THEN e ELSE s[k]
<1> DEFINE S == {s[k] : k \in DOMAIN s} \cup {e}
<1>1. s \in Seq(S) /\ e \in S
  <2>1. s \in Seq({s[k] : k \in DOMAIN s})
    BY DEF Listed
  <2> QED
    BY <2>1, SeqMonotonic
<1> HIDE DEF S
<1>2. /\ [s EXCEPT ![n] = e] \in Seq(S) /\ Len([s EXCEPT ![n] = e]) = Len(s)
      /\ \A k \in 1 .. Len(s) : [s EXCEPT ![n] = e][k] = IF k = n THEN e ELSE s[k]
  BY <1>1, ExceptSeq
<1> QED
  BY <1>2, ListedSeq

\* A sequence without its last element.
LEMMA ListedFront ==
    ASSUME NEW s, Listed(s), s # <<>>
    PROVE  /\ Listed(Front(s)) /\ Len(Front(s)) = Len(s) - 1
           /\ \A k \in 1 .. Len(s) - 1 : Front(s)[k] = s[k]
<1>1. s \in Seq({s[k] : k \in DOMAIN s})
  BY DEF Listed
<1>2. Len(s) \in Nat /\ Len(s) > 0 /\ DOMAIN s = 1 .. Len(s)
  BY ListedShape
<1>3. \A k \in 1 .. Len(s) - 1 : s[k] \in {s[j] : j \in DOMAIN s}
  BY <1>2
<1>4. PICK n \in Nat : n = Len(s) /\ n > 0
  BY <1>2
<1>5. \A k \in 1 .. n - 1 : s[k] \in {s[j] : j \in DOMAIN s}
  BY <1>3, <1>4
<1>6. /\ SubSeq(s, 1, n - 1) \in Seq({s[k] : k \in DOMAIN s})
      /\ Len(SubSeq(s, 1, n - 1)) = IF 1 <= n - 1 THEN n - 1 - 1 + 1 ELSE 0
      /\ \A k \in 1 .. n - 1 - 1 + 1 : SubSeq(s, 1, n - 1)[k] = s[1 + k - 1]
  BY <1>5, SubSeqProperties
<1>7. Front(s) = SubSeq(s, 1, n - 1) /\ Listed(Front(s))
  BY <1>4, <1>6, ListedSeq DEF Front
<1>8. Len(SubSeq(s, 1, n - 1)) = n - 1
  BY <1>4, <1>6
<1>9. ASSUME NEW k \in 1 .. n - 1 PROVE SubSeq(s, 1, n - 1)[k] = s[k]
  <2>1. k \in 1 .. n - 1 - 1 + 1 /\ 1 + k - 1 = k
    OBVIOUS
  <2> QED
    BY <1>6, <2>1
<1> QED
  BY <1>4, <1>7, <1>8, <1>9

\* The sequence of one element.
LEMMA ListedOne ==
    ASSUME NEW e
    PROVE  Listed(<<e>>) /\ Len(<<e>>) = 1 /\ <<e>>[1] = e
<1>1. <<e>> \in Seq({e})
  OBVIOUS
<1> QED
  BY <1>1, ListedSeq
-----------------------------------------------------------------------------
\* The fields of every token, whatever was spelled.
Slots == {"text", "start", "end", "first", "last"}

\* No field of a message is named like an index or a daughter.
LEMMA FieldNames ==
    ASSUME NEW is \in DOMAIN Fields
    PROVE  ToSet(Fields[is]) \cap Slots = {}
<1>1. DOMAIN Fields = {"tokens", "cardinal", "telephone"}
  BY DEF Fields
<1>2. CASE is = "tokens"
  BY <1>2 DEF Fields, ToSet, Slots
<1>3. CASE is = "cardinal"
  BY <1>3 DEF Fields, ToSet, Slots
<1>4. CASE is = "telephone"
  BY <1>4 DEF Fields, ToSet, Slots
<1> QED
  BY <1>1, <1>2, <1>3, <1>4

\* A new token has no daughters, and none of its fields is one of its indices.
LEMMA NewTokenEmpty ==
  Slots \subseteq DOMAIN NewToken /\ NewToken.first = Unset
BY DEF NewToken, Slots
-----------------------------------------------------------------------------
\* Each token has its indices and its daughters among its fields.
Shaped(T) == Listed(T) /\ \A k \in 1 .. Len(T) : Slots \subseteq DOMAIN T[k]

\* The tokens are as many, and their indices and daughters the same.
Alike(T, U) ==
  Len(U) = Len(T) /\ \A k \in 1 .. Len(T) : \A f \in Slots : U[k][f] = T[k][f]

\* The messages that are being parsed, the token first.
Opened(o) ==
  /\ Listed(o)
  /\ \A k \in 1 .. Len(o) : "is" \in DOMAIN o[k] /\ o[k].is \in DOMAIN Fields
  /\ o # <<>> => o[1].is = "tokens"

\* The invariant of the parser's data.
Shape ==
  /\ Shaped(tokens) /\ Opened(open)
  /\ open # <<>> => tokens # <<>>
  /\ pc \in {"value", "quoted"} =>
       open # <<>> /\ label[1] \in ToSet(Fields[Last(open).is])

\* Alike is reflexive.
LEMMA AlikeItself ==
    ASSUME NEW T PROVE Alike(T, T)
BY DEF Alike

\* OpenToken: a new token has its indices and daughters.
LEMMA ShapedAppend ==
    ASSUME NEW T, Shaped(T)
    PROVE  Shaped(Append(T, NewToken))
<1>1. /\ Listed(T) /\ Len(T) \in Nat
      /\ Listed(Append(T, NewToken)) /\ Len(Append(T, NewToken)) = Len(T) + 1
      /\ \A k \in 1 .. Len(T) : Append(T, NewToken)[k] = T[k]
      /\ Append(T, NewToken)[Len(T) + 1] = NewToken
  BY ListedAppend, ListedShape DEF Shaped
<1>2. ASSUME NEW k \in 1 .. Len(T) + 1
      PROVE  Slots \subseteq DOMAIN (Append(T, NewToken)[k])
  <2>1. CASE k = Len(T) + 1
    BY <1>1, <2>1, NewTokenEmpty
  <2>2. CASE k # Len(T) + 1
    <3>1. k \in 1 .. Len(T)
      BY <1>1, <2>2
    <3> QED
      BY <1>1, <3>1 DEF Shaped
  <2> QED
    BY <2>1, <2>2
<1> QED
  BY <1>1, <1>2 DEF Shaped

\* A token with another in its place.
LEMMA ShapedExcept ==
    ASSUME NEW T, Shaped(T), NEW n \in 1 .. Len(T), NEW u, Slots \subseteq DOMAIN u
    PROVE  /\ Shaped([T EXCEPT ![n] = u]) /\ Len([T EXCEPT ![n] = u]) = Len(T)
           /\ \A k \in 1 .. Len(T) : [T EXCEPT ![n] = u][k] = IF k = n THEN u ELSE T[k]
<1>1. /\ Listed([T EXCEPT ![n] = u]) /\ Len([T EXCEPT ![n] = u]) = Len(T)
      /\ \A k \in 1 .. Len(T) : [T EXCEPT ![n] = u][k] = IF k = n THEN u ELSE T[k]
  BY ListedExcept DEF Shaped
<1> QED
  BY <1>1 DEF Shaped

\* A token with another value of a field.
LEMMA ShapedField ==
    ASSUME NEW T, Shaped(T), NEW n \in 1 .. Len(T), NEW g, g \notin Slots, NEW e
    PROVE  /\ Shaped([T EXCEPT ![n] = [T[n] EXCEPT ![g] = e]])
           /\ Alike(T, [T EXCEPT ![n] = [T[n] EXCEPT ![g] = e]])
<1> DEFINE u == [T[n] EXCEPT ![g] = e]
<1>1. Slots \subseteq DOMAIN T[n]
  BY DEF Shaped
<1>2. DOMAIN u = DOMAIN T[n] /\ \A f \in Slots : u[f] = T[n][f]
  BY <1>1
<1> HIDE DEF u
<1>3. /\ Shaped([T EXCEPT ![n] = u]) /\ Len([T EXCEPT ![n] = u]) = Len(T)
      /\ \A k \in 1 .. Len(T) : [T EXCEPT ![n] = u][k] = IF k = n THEN u ELSE T[k]
  BY <1>1, <1>2, ShapedExcept
<1>4. Alike(T, [T EXCEPT ![n] = u])
  BY <1>2, <1>3 DEF Alike
<1> QED
  BY <1>3, <1>4 DEF u

\* OpenMessage: one more message is open.
LEMMA OpenShape ==
    ASSUME NEW o, Opened(o), o # <<>>
    PROVE  /\ Len(o) \in Nat /\ Len(o) > 0 /\ Listed(o)
           /\ \A k \in 1 .. Len(o) : "is" \in DOMAIN o[k] /\ o[k].is \in DOMAIN Fields
           /\ o[1].is = "tokens" /\ Last(o).is \in DOMAIN Fields
<1>1. Len(o) \in Nat /\ Len(o) > 0
  BY ListedShape DEF Opened
<1>2. PICK n \in Nat : n = Len(o) /\ n > 0
  BY <1>1
<1>3. n \in 1 .. n
  BY <1>2
<1> QED
  BY <1>2, <1>3 DEF Opened, Last

\* A message that notes a field stays what it is, and so do the others.
LEMMA OpenNoted ==
    ASSUME Opened(open), open # <<>>
    PROVE  /\ Opened(Noted) /\ Len(Noted) = Len(open) /\ Noted # <<>>
           /\ Last(Noted).is = Last(open).is
<1> DEFINE n == Len(open)
           m == [open[n] EXCEPT !.order = Append(@, label[1])]
<1>1. /\ n \in Nat /\ n > 0 /\ Listed(open)
      /\ \A k \in 1 .. n : "is" \in DOMAIN open[k] /\ open[k].is \in DOMAIN Fields
      /\ open[1].is = "tokens"
  BY OpenShape
<1>2. Noted = [open EXCEPT ![n] = m]
  BY DEF Noted
<1>3. n \in 1 .. n /\ 1 \in 1 .. n /\ n = Len(open)
  BY <1>1
<1>4. "is" \in DOMAIN m /\ m.is = open[n].is
  BY <1>1, <1>3
<1> HIDE DEF m, n
<1>5. /\ Listed(Noted) /\ Len(Noted) = n
      /\ \A k \in 1 .. n : Noted[k] = IF k = n THEN m ELSE open[k]
  <2>1. n \in 1 .. Len(open)
    BY <1>3
  <2>2. /\ Listed([open EXCEPT ![n] = m]) /\ Len([open EXCEPT ![n] = m]) = Len(open)
        /\ \A k \in 1 .. Len(open) :
             [open EXCEPT ![n] = m][k] = IF k = n THEN m ELSE open[k]
    BY <1>1, <2>1, ListedExcept
  <2> QED
    BY <1>2, <1>3, <2>2
<1>6. Noted # <<>>
  BY <1>1, <1>5, ListedShape
<1>7. \A k \in 1 .. n : "is" \in DOMAIN Noted[k] /\ Noted[k].is = open[k].is
  BY <1>1, <1>4, <1>5
<1> QED
  BY <1>1, <1>3, <1>5, <1>6, <1>7 DEF Opened, Last
-----------------------------------------------------------------------------
(* What a step of the parser does to the tokens and to its place.          *)

\* The parser reads the value of a field that the innermost message has.
InField == pc \in {"value", "quoted"} =>
             open # <<>> /\ label[1] \in ToSet(Fields[Last(open).is])

\* At most an arc is read, and perhaps given back.
Moves == p' = p \/ (~AtEnd /\ p' \in {NextState, PrevState(NextState)})

\* A token is opened.
OpensToken ==
  /\ open = <<>> /\ Opened(open') /\ open' # <<>>
  /\ tokens' = Append(tokens, NewToken) /\ Moves

\* A token is closed.
ClosesToken ==
  /\ open # <<>> /\ open' = <<>>
  /\ tokens' = Append(Front(tokens), UpdateTokenIndices(Last(tokens)))
  /\ p' = [p EXCEPT !.name = <<>>, !.start = NextPlace(p.start, p.name)]

\* Neither.
KeepsTokens ==
  /\ Opened(open') /\ (open' # <<>> <=> open # <<>>)
  /\ Shaped(tokens') /\ Alike(tokens, tokens') /\ (Moves \/ again')

\* A step that leaves tokens and open messages alone.
LEMMA UnchangedKeeps ==
    ASSUME Shape, UNCHANGED <<open, tokens>>, Moves \/ again'
    PROVE  KeepsTokens
BY AlikeItself DEF KeepsTokens, Shape

\* While a message is open there is a token to parse into.
LEMMA LastToken ==
    ASSUME Shape, open # <<>>
    PROVE  Shaped(tokens) /\ Len(tokens) \in 1 .. Len(tokens) /\ tokens # <<>>
<1>1. Shaped(tokens) /\ Listed(tokens) /\ tokens # <<>>
  BY DEF Shape, Shaped
<1>2. Len(tokens) \in Nat /\ Len(tokens) > 0
  BY <1>1, ListedShape
<1>3. PICK n \in Nat : n = Len(tokens) /\ n > 0
  BY <1>2
<1>4. n \in 1 .. n
  BY <1>3
<1> QED
  BY <1>1, <1>3, <1>4

\* SetField leaves each token's indices and daughters as they were.
LEMMA SetFieldKeeps ==
    ASSUME Shape, pc \in {"value", "quoted"}, NEW v, SetField(v)
    PROVE  Shaped(tokens') /\ Alike(tokens, tokens') /\ pc' = "after field"
<1> DEFINE f == label[1]
           w == Converted(f, v)
           n == Len(tokens)
<1>1. open # <<>> /\ f \in ToSet(Fields[Last(open).is])
  BY DEF Shape
<1>2. Shaped(tokens) /\ n \in 1 .. Len(tokens)
  BY <1>1, LastToken
<1>3. Last(open).is \in DOMAIN Fields /\ f \notin Slots
  BY <1>1, OpenShape, FieldNames DEF Shape
<1>4. /\ pc' = "after field"
      /\ tokens' = IF ~Valid(f, v) THEN tokens
                   ELSE IF InMessage("tokens") THEN [tokens EXCEPT ![n] = With(@, f, w)]
                   ELSE [tokens EXCEPT ![n][Last(open).is][1] = With(@, f, w)]
  BY DEF SetField
<1> HIDE DEF f, w, n
<1>5. CASE ~Valid(f, v)
  BY <1>2, <1>4, <1>5, AlikeItself
<1>6. CASE Valid(f, v) /\ InMessage("tokens")
  <2> DEFINE e == IF f \in Repeated THEN Append(tokens[n][f], w) ELSE Given(w)
  <2>1. tokens' = [tokens EXCEPT ![n] = [tokens[n] EXCEPT ![f] = e]]
    BY <1>4, <1>6 DEF With
  <2> HIDE DEF e
  <2>2. /\ Shaped([tokens EXCEPT ![n] = [tokens[n] EXCEPT ![f] = e]])
        /\ Alike(tokens, [tokens EXCEPT ![n] = [tokens[n] EXCEPT ![f] = e]])
    BY <1>2, <1>3, ShapedField
  <2> QED
    BY <1>4, <2>1, <2>2
<1>7. CASE Valid(f, v) /\ ~InMessage("tokens")
  <2> DEFINE g == Last(open).is
             e == [tokens[n][g] EXCEPT ![1] = With(@, f, w)]
  <2>1. tokens' = [tokens EXCEPT ![n] = [tokens[n] EXCEPT ![g] = e]]
    BY <1>4, <1>7
  <2>2. g \notin Slots
    BY <1>3 DEF Fields, Slots
  <2> HIDE DEF e, g
  <2>3. /\ Shaped([tokens EXCEPT ![n] = [tokens[n] EXCEPT ![g] = e]])
        /\ Alike(tokens, [tokens EXCEPT ![n] = [tokens[n] EXCEPT ![g] = e]])
    BY <1>2, <2>2, ShapedField
  <2> QED
    BY <1>4, <2>1, <2>3
<1> QED
  BY <1>5, <1>6, <1>7

\* ConsumeLabel and what it finds: an arc at most.
LEMMA LabelStep ==
    ASSUME Shape, ConsumeLabel \/ ConsumeWhitespace
    PROVE  KeepsTokens /\ InField' /\ UNCHANGED source
<1>1. CASE ConsumeLabel
  <2>1. UNCHANGED <<source, open, tokens>> /\ pc' \in {"label", "after label"}
    BY <1>1 DEF ConsumeLabel
  <2>2. Moves
    BY <1>1 DEF ConsumeLabel, Moves
  <2> QED
    BY <2>1, <2>2, UnchangedKeeps DEF InField
<1>2. CASE ConsumeWhitespace
  <2>1. /\ UNCHANGED <<source, open, tokens>>
        /\ pc' \in {"label", "after label", "after field", "dispatch"}
    BY <1>2 DEF ConsumeWhitespace
  <2>2. Moves
    BY <1>2 DEF ConsumeWhitespace, Moves
  <2> QED
    BY <2>1, <2>2, UnchangedKeeps DEF InField
<1> QED
  BY <1>1, <1>2

\* ParseFieldValue: an arc, or the field is set.
LEMMA ValueStep ==
    ASSUME Shape, ParseFieldValue
    PROVE  KeepsTokens /\ InField' /\ UNCHANGED source
<1>1. UNCHANGED source /\ pc = "value" /\ InField
  BY DEF ParseFieldValue, Shape, InField
<1>2. CASE AtEnd
  <2>1. Fail
    BY <1>2 DEF ParseFieldValue
  <2>2. UNCHANGED <<open, tokens>> /\ Moves /\ pc' = "failed"
    BY <2>1 DEF Fail, Moves
  <2> QED
    BY <1>1, <2>2, UnchangedKeeps DEF InField
<1>3. CASE ~AtEnd
  <2>1. UNCHANGED <<open, label>> /\ Moves
    BY <1>3 DEF ParseFieldValue, Moves
  <2>2. \/ SetField(value)
        \/ UNCHANGED tokens /\ pc' \in {"value", "quoted"}
    BY <1>1, <1>3 DEF ParseFieldValue
  <2>3. CASE SetField(value)
    <3>1. Shaped(tokens') /\ Alike(tokens, tokens') /\ pc' = "after field"
      BY <1>1, <2>3, SetFieldKeeps
    <3> QED
      BY <1>1, <2>1, <3>1 DEF KeepsTokens, InField, Shape
  <2>4. CASE UNCHANGED tokens /\ pc' \in {"value", "quoted"}
    BY <1>1, <2>1, <2>4, UnchangedKeeps DEF InField
  <2> QED
    BY <2>2, <2>3, <2>4
<1> QED
  BY <1>2, <1>3

\* ParseQuotedFieldValue: an arc, the field is set, or a second reading.
LEMMA QuotedStep ==
    ASSUME Shape, ParseQuotedFieldValue, again' = (again \/ SecondReading)
    PROVE  KeepsTokens /\ InField' /\ UNCHANGED source
<1>1. UNCHANGED source /\ pc = "quoted" /\ InField
  BY DEF ParseQuotedFieldValue, Shape, InField
<1>2. CASE AtEnd /\ quote.raw
  <2>1. Fail
    BY <1>2 DEF ParseQuotedFieldValue
  <2>2. UNCHANGED <<open, tokens>> /\ Moves /\ pc' = "failed"
    BY <2>1 DEF Fail, Moves
  <2> QED
    BY <1>1, <2>2, UnchangedKeeps DEF InField
<1>3. CASE AtEnd /\ ~quote.raw
  <2>1. TryAgain
    BY <1>3 DEF ParseQuotedFieldValue
  <2>2. UNCHANGED <<open, label, tokens>> /\ pc' = pc
    BY <2>1 DEF TryAgain
  <2>3. again'
    BY <1>1, <1>3 DEF SecondReading
  <2> QED
    BY <1>1, <2>2, <2>3, UnchangedKeeps DEF InField
<1>4. CASE ~AtEnd
  <2>1. UNCHANGED <<open, label>> /\ Moves
    BY <1>4 DEF ParseQuotedFieldValue, Moves
  <2>2. \/ SetField(value)
        \/ UNCHANGED tokens /\ pc' = pc
    BY <1>1, <1>4 DEF ParseQuotedFieldValue
  <2>3. CASE SetField(value)
    <3>1. Shaped(tokens') /\ Alike(tokens, tokens') /\ pc' = "after field"
      BY <1>1, <2>3, SetFieldKeeps
    <3> QED
      BY <1>1, <2>1, <3>1 DEF KeepsTokens, InField, Shape
  <2>4. CASE UNCHANGED tokens /\ pc' = pc
    BY <1>1, <2>1, <2>4, UnchangedKeeps DEF InField
  <2> QED
    BY <2>2, <2>3, <2>4
<1> QED
  BY <1>2, <1>3, <1>4

\* ConsumeBrace reads an arc.
LEMMA BraceMoves ==
    ASSUME ConsumeBrace
    PROVE  Moves
BY DEF ConsumeBrace, Moves

\* A field of the token at hand that is not one of its indices is set.
LEMMA FieldKeeps ==
    ASSUME Shape, open # <<>>, NEW g \in DOMAIN Fields \cup MessageFields, NEW e,
           tokens' = [tokens EXCEPT ![Len(tokens)] = [tokens[Len(tokens)] EXCEPT ![g] = e]]
    PROVE  Shaped(tokens') /\ Alike(tokens, tokens')
<1> DEFINE n == Len(tokens)
<1>1. Shaped(tokens) /\ n \in 1 .. Len(tokens)
  BY LastToken
<1>2. g \notin Slots
  BY DEF Fields, MessageFields, Slots
<1>3. tokens' = [tokens EXCEPT ![n] = [tokens[n] EXCEPT ![g] = e]]
  OBVIOUS
<1> HIDE DEF n
<1>4. /\ Shaped([tokens EXCEPT ![n] = [tokens[n] EXCEPT ![g] = e]])
      /\ Alike(tokens, [tokens EXCEPT ![n] = [tokens[n] EXCEPT ![g] = e]])
  BY <1>1, <1>2, ShapedField
<1> QED
  BY <1>3, <1>4

\* ParseTokensFromFST at the beginning of a token.
LEMMA OpenTokenStep ==
    ASSUME Shape, OpenToken
    PROVE  OpensToken /\ pc' = "label"
<1>1. /\ open = <<>> /\ tokens' = Append(tokens, NewToken)
      /\ open' = <<Message("tokens")>> /\ pc' = "label" /\ Moves
  BY BraceMoves DEF OpenToken, NextLabel
<1> DEFINE m == Message("tokens")
<1>2. "is" \in DOMAIN m /\ m.is = "tokens" /\ "tokens" \in DOMAIN Fields
  BY DEF Message, Fields
<1> HIDE DEF m
<1>3. Listed(<<m>>) /\ Len(<<m>>) = 1 /\ <<m>>[1] = m
  BY ListedOne
<1>4. <<m>> # <<>>
  BY <1>3, ListedShape
<1>5. Opened(<<m>>)
  BY <1>2, <1>3 DEF Opened
<1> QED
  BY <1>1, <1>4, <1>5 DEF OpensToken, m

\* ParseMessage at the beginning of a message.
LEMMA OpenMessageStep ==
    ASSUME Shape, OpenMessage
    PROVE  KeepsTokens /\ pc' = "label"
<1>1. PICK f \in MessageFields :
        /\ open' = Append(Noted, Message(f))
        /\ tokens' = [tokens EXCEPT ![Len(tokens)][f] =
                        IF @ = Unset THEN Given(NewMessage(f)) ELSE @]
  BY DEF OpenMessage
<1>2. Moves /\ pc' = "label" /\ open # <<>>
  BY BraceMoves DEF OpenMessage, NextLabel, InMessage
<1>3. Shaped(tokens') /\ Alike(tokens, tokens')
  <2> DEFINE e == IF tokens[Len(tokens)][f] = Unset THEN Given(NewMessage(f))
                  ELSE tokens[Len(tokens)][f]
  <2>1. tokens' = [tokens EXCEPT ![Len(tokens)] = [tokens[Len(tokens)] EXCEPT ![f] = e]]
    BY <1>1
  <2> HIDE DEF e
  <2> QED
    BY <1>2, <2>1, FieldKeeps
<1>4. Opened(open') /\ open' # <<>>
  <2> DEFINE m == Message(f)
  <2>1. "is" \in DOMAIN m /\ m.is \in DOMAIN Fields
    BY DEF Message, Fields, MessageFields
  <2> HIDE DEF m
  <2>2. /\ Opened(Noted) /\ Noted # <<>>
    BY <1>2, OpenNoted DEF Shape
  <2>3. /\ Len(Noted) \in Nat /\ Len(Noted) > 0 /\ Listed(Noted) /\ Noted[1].is = "tokens"
        /\ \A k \in 1 .. Len(Noted) : "is" \in DOMAIN Noted[k] /\ Noted[k].is \in DOMAIN Fields
    BY <2>2, OpenShape
  <2>4. PICK n \in Nat : n = Len(Noted) /\ n > 0
    BY <2>3
  <2>5. /\ Listed(Append(Noted, m)) /\ Len(Append(Noted, m)) = n + 1
        /\ \A k \in 1 .. n : Append(Noted, m)[k] = Noted[k]
        /\ Append(Noted, m)[n + 1] = m
    BY <2>3, <2>4, ListedAppend
  <2>6. Append(Noted, m) # <<>>
    BY <2>4, <2>5, ListedShape
  <2>7. ASSUME NEW k \in 1 .. n + 1
        PROVE  "is" \in DOMAIN (Append(Noted, m)[k]) /\ Append(Noted, m)[k].is \in DOMAIN Fields
    <3>1. CASE k = n + 1
      BY <2>1, <2>5, <3>1
    <3>2. CASE k # n + 1
      <4>1. k \in 1 .. n
        BY <3>2
      <4> QED
        BY <2>3, <2>4, <2>5, <4>1
    <3> QED
      BY <3>1, <3>2
  <2>8. Append(Noted, m)[1].is = "tokens"
    <3>1. 1 \in 1 .. n
      BY <2>4
    <3> QED
      BY <2>3, <2>5, <3>1
  <2> QED
    BY <1>1, <2>5, <2>6, <2>7, <2>8 DEF Opened, m
<1> QED
  BY <1>2, <1>3, <1>4 DEF KeepsTokens

\* ParseMessage at a closing brace: of a message inside, or of the token.
LEMMA CloseMessageStep ==
    ASSUME Shape, CloseMessage
    PROVE  KeepsTokens /\ pc' = "after field"
<1>1. PICK f \in MessageFields :
        /\ InMessage(f)
        /\ tokens' = [tokens EXCEPT ![Len(tokens)][f][1] =
                        RecordFieldOrder(@, Last(open).order)]
  BY DEF CloseMessage
<1>2. /\ Moves /\ pc' = "after field" /\ open # <<>> /\ Last(open).is = f
      /\ open' = Front(open)
  BY <1>1 DEF CloseMessage, InMessage, Moves
<1>3. Shaped(tokens') /\ Alike(tokens, tokens')
  <2> DEFINE e == [tokens[Len(tokens)][f] EXCEPT ![1] =
                     RecordFieldOrder(@, Last(open).order)]
  <2>1. tokens' = [tokens EXCEPT ![Len(tokens)] = [tokens[Len(tokens)] EXCEPT ![f] = e]]
    BY <1>1
  <2> HIDE DEF e
  <2> QED
    BY <1>2, <2>1, FieldKeeps
<1>4. Opened(open') /\ open' # <<>>
  <2>1. /\ Len(open) \in Nat /\ Len(open) > 0 /\ Listed(open) /\ open[1].is = "tokens"
        /\ \A k \in 1 .. Len(open) : "is" \in DOMAIN open[k] /\ open[k].is \in DOMAIN Fields
    BY <1>2, OpenShape DEF Shape
  <2>2. PICK n \in Nat : n = Len(open) /\ n > 0
    BY <2>1
  <2>3. n > 1
    <3>1. f # "tokens"
      BY DEF MessageFields
    <3>2. n # 1
      BY <1>2, <2>1, <2>2, <3>1 DEF Last
    <3> QED
      BY <2>2, <3>2
  <2>4. /\ Listed(Front(open)) /\ Len(Front(open)) = n - 1
        /\ \A k \in 1 .. n - 1 : Front(open)[k] = open[k]
    BY <1>2, <2>1, <2>2, ListedFront
  <2>5. Front(open) # <<>>
    BY <2>3, <2>4, ListedShape
  <2>6. 1 \in 1 .. n - 1 /\ \A k \in 1 .. n - 1 : k \in 1 .. n
    BY <2>3
  <2> QED
    BY <1>2, <2>1, <2>2, <2>4, <2>5, <2>6 DEF Opened
<1> QED
  BY <1>2, <1>3, <1>4 DEF KeepsTokens

\* ParseMessage at a field's name.
LEMMA OpenFieldStep ==
    ASSUME Shape, OpenField
    PROVE  KeepsTokens /\ InField'
<1>1. PICK f \in KnownFields \ MessageFields : label = <<f>>
  BY DEF OpenField
<1>2. UNCHANGED <<label, tokens>> /\ Moves /\ open # <<>> /\ open' = Noted
  BY DEF OpenField, Moves
<1>3. /\ Opened(Noted) /\ Noted # <<>> /\ Last(Noted).is = Last(open).is
  BY <1>2, OpenNoted DEF Shape
<1>4. f \in ToSet(Fields[Last(open).is])
  BY DEF KnownFields
<1>5. InField'
  BY <1>1, <1>2, <1>3, <1>4 DEF InField
<1> QED
  BY <1>2, <1>3, <1>5, AlikeItself DEF KeepsTokens, Shape

\* What a label says is to be parsed next.
LEMMA DispatchStep ==
    ASSUME Shape, Dispatch
    PROVE  (OpensToken \/ ClosesToken \/ KeepsTokens) /\ InField' /\ UNCHANGED source
<1>1. UNCHANGED source /\ pc = "dispatch" /\ (Action \/ Fail)
  BY DEF Dispatch
<1>2. CASE Parsed \/ Fail
  <2>1. UNCHANGED <<open, tokens>> /\ Moves /\ pc' \in {"parsed", "failed"}
    BY <1>2 DEF Parsed, Fail, Moves
  <2> QED
    BY <1>1, <2>1, UnchangedKeeps DEF InField
<1>3. CASE OpenToken
  BY <1>1, <1>3, OpenTokenStep DEF InField
<1>4. CASE OpenMessage
  BY <1>1, <1>4, OpenMessageStep DEF InField
<1>5. CASE CloseMessage
  BY <1>1, <1>5, CloseMessageStep DEF InField
<1>6. CASE CloseToken
  <2>1. ClosesToken /\ pc' = "label"
    BY <1>6 DEF CloseToken, ClosesToken, NextLabel, InMessage
  <2> QED
    BY <1>1, <2>1 DEF InField
<1>7. CASE OpenField
  BY <1>1, <1>7, OpenFieldStep
<1> QED
  BY <1>1, <1>2, <1>3, <1>4, <1>5, <1>6, <1>7 DEF Action

\* Each step of the parser opens a token, closes it, or keeps the tokens.
LEMMA ParseStep ==
    ASSUME Shape, Parse
    PROVE  (OpensToken \/ ClosesToken \/ KeepsTokens) /\ InField' /\ UNCHANGED source
           /\ again' = (again \/ SecondReading)
BY LabelStep, DispatchStep, ValueStep, QuotedStep DEF Parse
-----------------------------------------------------------------------------
\* A token that is closed gets its indices, and keeps its daughters.
LEMMA IndicesUpdated ==
    ASSUME NEW t, Slots \subseteq DOMAIN t
    PROVE  /\ Slots \subseteq DOMAIN UpdateTokenIndices(t)
           /\ UpdateTokenIndices(t).first = t.first
           /\ UpdateTokenIndices(t).text = Stripped(p.name)
           /\ UpdateTokenIndices(t).start = p.start
           /\ UpdateTokenIndices(t).end =
                p.start + UnicodeSize(p.name) - (Len(p.name) - Len(Stripped(p.name))) - 1
<1> DEFINE text == Stripped(p.name)
           end == p.start + UnicodeSize(p.name) - (Len(p.name) - Len(text)) - 1
           u == [t EXCEPT !.text = text, !.start = p.start, !.end = end]
           v == [u EXCEPT !.wordid = t.name]
           w == [u EXCEPT !.name = Given(text), !.type = Given(<<"SEMIOTIC_CLASS">>)]
<1>1. UpdateTokenIndices(t) \in {v, w}
  BY DEF UpdateTokenIndices
<1> HIDE DEF text, end
<1>2. /\ "text" \in DOMAIN t /\ "start" \in DOMAIN t /\ "end" \in DOMAIN t
      /\ "first" \in DOMAIN t
  BY DEF Slots
<1>3. /\ DOMAIN u = DOMAIN t /\ u.first = t.first /\ u.text = text
      /\ u.start = p.start /\ u.end = end
  BY <1>2
<1> HIDE DEF u
<1>4. /\ DOMAIN v = DOMAIN u /\ DOMAIN w = DOMAIN u
      /\ v.first = u.first /\ v.text = u.text /\ v.start = u.start /\ v.end = u.end
      /\ w.first = u.first /\ w.text = u.text /\ w.start = u.start /\ w.end = u.end
  BY <1>2, <1>3
<1> HIDE DEF v, w
<1> QED
  BY <1>1, <1>3, <1>4 DEF text, end

\* Closing a token changes the last one only, and in its indices.
LEMMA TokenClosed ==
    ASSUME Shape, ClosesToken
    PROVE  /\ Shaped(tokens') /\ Len(tokens') = Len(tokens) /\ tokens # <<>>
           /\ \A k \in 1 .. Len(tokens) - 1 : tokens'[k] = tokens[k]
           /\ tokens'[Len(tokens)] = UpdateTokenIndices(tokens[Len(tokens)])
<1> DEFINE u == UpdateTokenIndices(Last(tokens))
<1>1. /\ Shaped(tokens) /\ tokens # <<>> /\ Listed(tokens)
      /\ Len(tokens) \in 1 .. Len(tokens) /\ Len(tokens) \in Nat
  BY LastToken, ListedShape DEF ClosesToken, Shaped
<1>2. PICK n \in Nat : n = Len(tokens) /\ n > 0
  BY <1>1
<1>3. Slots \subseteq DOMAIN u /\ u = UpdateTokenIndices(tokens[n])
  BY <1>1, <1>2, IndicesUpdated DEF Last, Shaped
<1>4. tokens' = Append(Front(tokens), u)
  BY DEF ClosesToken
<1> HIDE DEF u
<1>5. /\ Listed(Front(tokens)) /\ Len(Front(tokens)) = n - 1
      /\ \A k \in 1 .. n - 1 : Front(tokens)[k] = tokens[k]
  BY <1>1, <1>2, ListedFront
<1>6. /\ Listed(tokens') /\ Len(tokens') = n - 1 + 1
      /\ \A k \in 1 .. n - 1 : tokens'[k] = Front(tokens)[k]
      /\ tokens'[n - 1 + 1] = u
  BY <1>4, <1>5, ListedAppend
<1>7. Len(tokens') = n /\ tokens'[n] = u
  BY <1>6
<1>8. ASSUME NEW k \in 1 .. n PROVE Slots \subseteq DOMAIN tokens'[k]
  <2>1. CASE k = n
    BY <1>3, <1>7, <2>1
  <2>2. CASE k # n
    <3>1. k \in 1 .. n - 1
      BY <2>2
    <3> QED
      BY <1>1, <1>2, <1>5, <1>6, <3>1 DEF Shaped
  <2> QED
    BY <2>1, <2>2
<1> QED
  BY <1>1, <1>2, <1>3, <1>5, <1>6, <1>7, <1>8 DEF Shaped

\* From the n-th on no token has daughters.
Bare(T, n) == \A k \in n .. Len(T) : T[k].first = Unset

\* The parser's steps keep Shape, and give no token a daughter.
LEMMA ParseKeepsShape ==
    ASSUME Shape, Parse
    PROVE  Shape' /\ (Bare(tokens, 1) => Bare(tokens', 1))
<1>1. /\ OpensToken \/ ClosesToken \/ KeepsTokens
      /\ InField'
  BY ParseStep
<1>2. /\ Shaped(tokens) /\ Opened(open) /\ Len(tokens) \in Nat
      /\ tokens # <<>> <=> Len(tokens) > 0
  BY ListedShape DEF Shape, Shaped
<1>3. CASE OpensToken
  <2>1. /\ Shaped(tokens') /\ Len(tokens') = Len(tokens) + 1 /\ Opened(open')
        /\ \A k \in 1 .. Len(tokens) : tokens'[k] = tokens[k]
        /\ tokens'[Len(tokens) + 1] = NewToken
    BY <1>2, <1>3, ShapedAppend, ListedAppend DEF OpensToken, Shaped
  <2>2. tokens' # <<>>
    <3>1. Listed(tokens') /\ Len(tokens') > 0
      BY <1>2, <2>1 DEF Shaped
    <3> QED
      BY <3>1, ListedShape
  <2>3. ASSUME Bare(tokens, 1), NEW k \in 1 .. Len(tokens) + 1
        PROVE  tokens'[k].first = Unset
    <3>1. CASE k = Len(tokens) + 1
      BY <2>1, <3>1, NewTokenEmpty
    <3>2. CASE k # Len(tokens) + 1
      <4>1. k \in 1 .. Len(tokens)
        BY <1>2, <3>2
      <4> QED
        BY <2>1, <2>3, <4>1 DEF Bare
    <3> QED
      BY <3>1, <3>2
  <2> QED
    BY <1>1, <2>1, <2>2, <2>3 DEF Shape, InField, Bare
<1>4. CASE ClosesToken
  <2>1. /\ Shaped(tokens') /\ Len(tokens') = Len(tokens) /\ tokens # <<>>
        /\ \A k \in 1 .. Len(tokens) - 1 : tokens'[k] = tokens[k]
        /\ tokens'[Len(tokens)] = UpdateTokenIndices(tokens[Len(tokens)])
    BY <1>4, TokenClosed
  <2>2. open' = <<>> /\ Opened(open')
    <3>1. Listed(<<>>) /\ Len(<<>>) = 0
      BY EmptySeq, ListedSeq
    <3> QED
      BY <1>4, <3>1 DEF ClosesToken, Opened
  <2>3. ASSUME Bare(tokens, 1), NEW k \in 1 .. Len(tokens)
        PROVE  tokens'[k].first = Unset
    <3>1. CASE k = Len(tokens)
      <4>1. Slots \subseteq DOMAIN tokens[k] /\ tokens[k].first = Unset
        BY <1>2, <2>3 DEF Shaped, Bare
      <4> QED
        BY <2>1, <3>1, <4>1, IndicesUpdated
    <3>2. CASE k # Len(tokens)
      <4>1. k \in 1 .. Len(tokens) - 1
        BY <1>2, <3>2
      <4> QED
        BY <2>1, <2>3, <4>1 DEF Bare
    <3> QED
      BY <3>1, <3>2
  <2> QED
    BY <1>1, <2>1, <2>2, <2>3 DEF Shape, InField, Bare
<1>5. CASE KeepsTokens
  <2>1. /\ Shaped(tokens') /\ Opened(open') /\ (open' # <<>> <=> open # <<>>)
        /\ Len(tokens') = Len(tokens)
        /\ \A k \in 1 .. Len(tokens) : \A f \in Slots : tokens'[k][f] = tokens[k][f]
    BY <1>5 DEF KeepsTokens, Alike
  <2>2. open' # <<>> => tokens' # <<>>
    <3>1. tokens' # <<>> <=> Len(tokens') > 0
      BY <2>1, ListedShape DEF Shaped
    <3> QED
      BY <1>2, <2>1, <3>1 DEF Shape
  <2>3. ASSUME Bare(tokens, 1), NEW k \in 1 .. Len(tokens)
        PROVE  tokens'[k].first = Unset
    <3>1. "first" \in Slots
      BY DEF Slots
    <3> QED
      BY <2>1, <2>3, <3>1 DEF Bare
  <2> QED
    BY <1>1, <2>1, <2>2, <2>3 DEF Shape, InField, Bare
<1> QED
  BY <1>1, <1>3, <1>4, <1>5
-----------------------------------------------------------------------------
(* The words are the daughters of the tokens that VerbalizeUtt has seen.   *)

\* The words from the a-th to the b-th, from 0, are the token's daughters.
Stretch(t, k, W, a, b) ==
  /\ a <= b /\ b < Len(W) /\ t.first = <<a>> /\ t.last = <<b>>
  /\ \A w \in a .. b : W[w + 1].parent = k - 1

\* A word, and the token it is a daughter of.
Below(T, n, W, w) ==
  LET a == W[w].parent IN
  /\ a \in 0 .. n - 2 /\ a + 1 \in 1 .. Len(T) /\ T[a + 1].first # Unset
  /\ w - 1 \in T[a + 1].first[1] .. T[a + 1].last[1]

\* Tokens before the n-th have had their turn: the words are theirs, in order.
Daughters(T, W, n) ==
  /\ Shaped(T) /\ Listed(W) /\ n \in 1 .. Len(T) + 1
  /\ Bare(T, n)
  /\ \A k \in 1 .. n - 1 :
       T[k].first # Unset => \E a, b \in Nat : Stretch(T[k], k, W, a, b)
  /\ \A w \in 1 .. Len(W) : Below(T, n, W, w)
  /\ \A v, w \in 1 .. Len(W) : v < w => W[v].parent <= W[w].parent

\* What is said of all tokens is said of those that VerbalizeUtt has seen.
LEMMA DaughtersEnough ==
    ASSUME Daughters(tokens, words, next)
    PROVE  DaughtersAgree
<1>1. /\ DOMAIN words = 1 .. Len(words) /\ DOMAIN tokens = 1 .. Len(tokens)
      /\ Len(words) \in Nat /\ Len(tokens) \in Nat /\ next \in 1 .. Len(tokens) + 1
  BY ListedShape DEF Daughters, Shaped
<1>2. ASSUME NEW w \in DOMAIN words
      PROVE  LET t == tokens[words[w].parent + 1] IN
             t.first # Unset /\ w - 1 \in t.first[1] .. t.last[1]
  BY <1>1 DEF Daughters, Below
<1>3. ASSUME NEW k \in DOMAIN tokens, tokens[k].first # Unset,
             NEW w \in tokens[k].first[1] .. tokens[k].last[1]
      PROVE  words[w + 1].parent = k - 1
  <2>1. k \in 1 .. next - 1
    <3>1. ~(k \in next .. Len(tokens))
      BY <1>3 DEF Daughters, Bare
    <3> QED
      BY <1>1, <3>1
  <2>2. PICK a, b \in Nat : Stretch(tokens[k], k, words, a, b)
    BY <1>3, <2>1 DEF Daughters
  <2> QED
    BY <1>3, <2>2 DEF Stretch
<1>4. \A v, w \in DOMAIN words : v < w => words[v].parent <= words[w].parent
  BY <1>1 DEF Daughters
<1> QED
  BY <1>2, <1>3, <1>4 DEF DaughtersAgree

\* There are no tokens in the beginning.
LEMMA ShapedEmpty == Shaped(<<>>) /\ Len(<<>>) = 0
<1>1. Listed(<<>>) /\ Len(<<>>) = 0
  BY EmptySeq, ListedSeq
<1> QED
  BY <1>1 DEF Shaped

\* Before there are words any tokens without daughters will do.
LEMMA NoDaughters ==
    ASSUME NEW T, Shaped(T), Bare(T, 1)
    PROVE  Daughters(T, <<>>, 1)
<1>1. Listed(<<>>) /\ Len(<<>>) = 0
  BY ShapedEmpty DEF Shaped
<1>2. Len(T) \in Nat
  BY ListedShape DEF Shaped
<1>3. 1 \in 1 .. Len(T) + 1
  BY <1>2
<1> QED
  BY <1>1, <1>3 DEF Daughters

\* A token's turn passes, its own fields but for the daughters aside.
LEMMA TurnPasses ==
    ASSUME NEW T, NEW W, NEW n \in 1 .. Len(T), Daughters(T, W, n)
    PROVE  Daughters(T, W, n + 1)
<1>1. Len(T) \in Nat /\ Len(W) \in Nat
  BY ListedShape DEF Daughters, Shaped
<1>2. n + 1 \in 1 .. Len(T) + 1 /\ \A k \in n + 1 .. Len(T) : k \in n .. Len(T)
  BY <1>1
<1>3. T[n].first = Unset
  <2>1. n \in n .. Len(T)
    BY <1>1
  <2> QED
    BY <2>1 DEF Daughters, Bare
<1>4. ASSUME NEW k \in 1 .. n + 1 - 1, T[k].first # Unset
      PROVE  \E a, b \in Nat : Stretch(T[k], k, W, a, b)
  <2>1. k \in 1 .. n - 1
    BY <1>1, <1>3, <1>4
  <2> QED
    BY <1>4, <2>1 DEF Daughters
<1>5. ASSUME NEW w \in 1 .. Len(W) PROVE Below(T, n + 1, W, w)
  <2>1. Below(T, n, W, w)
    BY DEF Daughters
  <2>2. W[w].parent \in 0 .. n - 2 => W[w].parent \in 0 .. n + 1 - 2
    BY <1>1
  <2> QED
    BY <2>1, <2>2 DEF Below
<1>6. Bare(T, n + 1)
  BY <1>2 DEF Daughters, Bare
<1> QED
  BY <1>2, <1>4, <1>5, <1>6 DEF Daughters

\* A token that has no daughters yet may be another one that has none.
LEMMA TokenCleared ==
    ASSUME NEW T, NEW W, NEW n \in 1 .. Len(T), Daughters(T, W, n),
           NEW t, Slots \subseteq DOMAIN t, t.first = Unset
    PROVE  /\ Daughters([T EXCEPT ![n] = t], W, n)
           /\ Len([T EXCEPT ![n] = t]) = Len(T)
           /\ \A k \in 1 .. Len(T) : k # n => [T EXCEPT ![n] = t][k] = T[k]
<1> DEFINE U == [T EXCEPT ![n] = t]
<1>1. /\ Shaped(U) /\ Len(U) = Len(T)
      /\ \A k \in 1 .. Len(T) : U[k] = IF k = n THEN t ELSE T[k]
  BY ShapedExcept DEF Daughters
<1> HIDE DEF U
<1>2. Len(T) \in Nat /\ Len(W) \in Nat
  BY ListedShape DEF Daughters, Shaped
<1>3. Bare(U, n)
  <2>1. \A k \in n .. Len(T) : k \in 1 .. Len(T) /\ (k # n => T[k].first = Unset)
    BY <1>2 DEF Daughters, Bare
  <2> QED
    BY <1>1, <2>1 DEF Bare
<1>4. \A k \in 1 .. n - 1 : U[k] = T[k]
  BY <1>1, <1>2
<1>5. ASSUME NEW w \in 1 .. Len(W) PROVE Below(U, n, W, w)
  <2> DEFINE a == W[w].parent
  <2>1. /\ a \in 0 .. n - 2 /\ a + 1 \in 1 .. Len(T) /\ T[a + 1].first # Unset
        /\ w - 1 \in T[a + 1].first[1] .. T[a + 1].last[1]
    BY DEF Daughters, Below
  <2> HIDE DEF a
  <2>2. a + 1 \in 1 .. n - 1
    BY <1>2, <2>1
  <2>3. U[a + 1] = T[a + 1]
    BY <1>4, <2>2
  <2> QED
    BY <1>1, <2>1, <2>3 DEF Below, a
<1>6. \A k \in 1 .. n - 1 :
        U[k].first # Unset => \E a, b \in Nat : Stretch(U[k], k, W, a, b)
  BY <1>4 DEF Daughters
<1>7. Daughters(U, W, n)
  BY <1>1, <1>3, <1>5, <1>6 DEF Daughters
<1> QED
  BY <1>1, <1>7 DEF U

\* A sequence given element by element.
LEMMA ListedFunction ==
    ASSUME NEW s, Listed(s), NEW f, DOMAIN f = DOMAIN s, f = [j \in DOMAIN f |-> f[j]]
    PROVE  Listed(f) /\ Len(f) = Len(s)
<1>1. PICK m \in Nat : DOMAIN f = 1 .. m /\ m = Len(s)
  BY ListedShape
<1>2. f = [j \in 1 .. m |-> f[j]] /\ \A j \in 1 .. m : f[j] \in {f[k] : k \in DOMAIN f}
  BY <1>1
<1>3. f \in [1 .. m -> {f[k] : k \in DOMAIN f}]
  BY <1>2
<1>4. f \in Seq({f[k] : k \in DOMAIN f}) /\ Len(f) = m
  BY <1>3
<1> QED
  BY <1>1, <1>4 DEF Listed

\* t is the n-th token, and below it are the words D.
Adds(T, W, n, t, D) ==
  /\ Daughters(T, W, n) /\ n \in 1 .. Len(T)
  /\ Listed(D) /\ Len(D) > 0 /\ \A j \in 1 .. Len(D) : D[j].parent = n - 1
  /\ Slots \subseteq DOMAIN t
  /\ t.first = Given(Len(W)) /\ t.last = Given(Len(W) + Len(D) - 1)

\* Words at the end of the list, and the n-th token that names them.
LEMMA WordsAdded ==
    ASSUME NEW T, NEW W, NEW n, NEW t, NEW D, Adds(T, W, n, t, D)
    PROVE  /\ Daughters([T EXCEPT ![n] = t], W \o D, n + 1)
           /\ Len([T EXCEPT ![n] = t]) = Len(T)
           /\ \A k \in 1 .. Len(T) : k # n => [T EXCEPT ![n] = t][k] = T[k]
<1> USE DEF Adds
<1> DEFINE U == [T EXCEPT ![n] = t]
           V == W \o D
<1>1. /\ Shaped(U) /\ Len(U) = Len(T)
      /\ \A k \in 1 .. Len(T) : U[k] = IF k = n THEN t ELSE T[k]
  BY ShapedExcept DEF Daughters
<1>2. PICK a \in Nat, d \in Nat, l \in Nat : a = Len(W) /\ d = Len(D) /\ l = Len(T) /\ d > 0
  BY ListedShape DEF Daughters, Shaped
<1>3. /\ Listed(V) /\ Len(V) = a + d
      /\ \A k \in 1 .. a : V[k] = W[k]
      /\ \A k \in 1 .. d : V[a + k] = D[k]
  BY <1>2, ListedConcat DEF Daughters
<1> HIDE DEF U, V
<1>4. n \in 1 .. l /\ n + 1 \in 1 .. l + 1 /\ n - 1 \in 0 .. n + 1 - 2
  BY <1>2
<1>5. ASSUME NEW w \in 1 .. a + d
      PROVE  \/ w \in 1 .. a /\ V[w] = W[w] /\ Below(T, n, W, w)
             \/ w \in a + 1 .. a + d /\ V[w].parent = n - 1
  <2>1. CASE w <= a
    BY <1>2, <1>3, <2>1 DEF Daughters
  <2>2. CASE w > a
    <3>1. w - a \in 1 .. d /\ a + (w - a) = w /\ w \in a + 1 .. a + d
      BY <1>2, <2>2
    <3>2. V[w] = D[w - a]
      BY <1>3, <3>1
    <3>3. D[w - a].parent = n - 1
      BY <1>2, <3>1
    <3> QED
      BY <3>1, <3>2, <3>3
  <2> QED
    BY <1>2, <2>1, <2>2
<1>6. Bare(U, n + 1)
  <2>1. \A k \in n + 1 .. l : k \in 1 .. l /\ k # n /\ k \in n .. l
    BY <1>4
  <2> QED
    BY <1>1, <1>2, <2>1 DEF Daughters, Bare
<1>7. ASSUME NEW k \in 1 .. n + 1 - 1, U[k].first # Unset
      PROVE  \E b, c \in Nat : Stretch(U[k], k, V, b, c)
  <2>1. CASE k = n
    <3>1. U[k] = t
      BY <1>1, <1>2, <1>4, <2>1
    <3>2. a + d - 1 \in Nat /\ a <= a + d - 1 /\ a + d - 1 < a + d
      BY <1>2
    <3>3. ASSUME NEW w \in a .. a + d - 1 PROVE V[w + 1].parent = k - 1
      <4>1. w + 1 \in 1 .. a + d /\ w + 1 \notin 1 .. a
        BY <1>2
      <4> QED
        BY <1>5, <2>1, <4>1
    <3>4. t.first = <<a>> /\ t.last = <<a + d - 1>>
      BY <1>2 DEF Given
    <3>5. Stretch(U[k], k, V, a, a + d - 1)
      BY <1>3, <3>1, <3>2, <3>3, <3>4 DEF Stretch
    <3> QED
      BY <1>2, <3>2, <3>5
  <2>2. CASE k # n
    <3>1. k \in 1 .. n - 1 /\ U[k] = T[k]
      BY <1>1, <1>2, <1>4, <2>2
    <3>2. PICK b, c \in Nat : Stretch(T[k], k, W, b, c)
      BY <1>7, <3>1 DEF Daughters
    <3>3. c < a /\ b <= c
      BY <1>2, <3>2 DEF Stretch
    <3>4. c < a + d
      BY <1>2, <3>3
    <3>5. ASSUME NEW w \in b .. c PROVE V[w + 1].parent = k - 1
      <4>1. w + 1 \in 1 .. a
        BY <1>2, <3>3
      <4> QED
        BY <1>3, <3>2, <4>1 DEF Stretch
    <3>6. Stretch(U[k], k, V, b, c)
      BY <1>3, <3>1, <3>2, <3>3, <3>4, <3>5 DEF Stretch
    <3> QED
      BY <3>6
  <2> QED
    BY <2>1, <2>2
<1>8. ASSUME NEW w \in 1 .. a + d PROVE Below(U, n + 1, V, w)
  <2>1. CASE w \in 1 .. a /\ V[w] = W[w] /\ Below(T, n, W, w)
    <3> DEFINE q == W[w].parent
    <3>1. /\ q \in 0 .. n - 2 /\ q + 1 \in 1 .. Len(T) /\ T[q + 1].first # Unset
          /\ w - 1 \in T[q + 1].first[1] .. T[q + 1].last[1] /\ V[w].parent = q
      BY <2>1 DEF Below
    <3> HIDE DEF q
    <3>2. q + 1 # n /\ q \in 0 .. n + 1 - 2
      <4>1. q \in 0 .. n - 2
        BY <3>1
      <4> QED
        BY <1>4, <4>1
    <3>3. U[q + 1] = T[q + 1]
      BY <1>1, <3>1, <3>2
    <3> QED
      BY <1>1, <3>1, <3>2, <3>3 DEF Below
  <2>2. CASE w \in a + 1 .. a + d /\ V[w].parent = n - 1
    <3>1. n - 1 + 1 = n /\ n - 1 \in 0 .. n + 1 - 2 /\ n \in 1 .. Len(T)
      BY <1>4
    <3>2. U[n] = t
      BY <1>1
    <3>3. w - 1 \in a .. a + d - 1
      BY <1>2, <2>2
    <3>4. t.first[1] = a /\ t.last[1] = a + d - 1 /\ t.first # Unset
      BY <1>2 DEF Unset, Given
    <3> DEFINE q == V[w].parent
    <3>5. q \in 0 .. n + 1 - 2 /\ q + 1 = n
      BY <2>2, <3>1
    <3> HIDE DEF q
    <3>6. /\ q + 1 \in 1 .. Len(U) /\ U[q + 1].first # Unset
          /\ w - 1 \in U[q + 1].first[1] .. U[q + 1].last[1]
      BY <1>1, <3>1, <3>2, <3>3, <3>4, <3>5
    <3> QED
      BY <3>5, <3>6 DEF Below, q
  <2> QED
    BY <1>5, <2>1, <2>2
<1>9. ASSUME NEW v \in 1 .. a + d, NEW w \in 1 .. a + d, v < w
      PROVE  V[v].parent <= V[w].parent
  <2>1. \A x \in 1 .. a : V[x] = W[x] /\ V[x].parent \in 0 .. n - 2
    BY <1>2, <1>3 DEF Daughters, Below
  <2>2. CASE w \in 1 .. a
    <3>1. v \in 1 .. a
      BY <1>2, <1>9, <2>2
    <3> QED
      BY <1>2, <1>9, <2>1, <2>2, <3>1 DEF Daughters
  <2>3. CASE V[w].parent = n - 1
    <3>1. V[v].parent = n - 1 \/ V[v].parent \in 0 .. n - 2
      BY <1>5, <2>1
    <3> QED
      BY <1>4, <2>3, <3>1
  <2> QED
    BY <1>5, <2>2, <2>3
<1>10. Daughters(U, V, n + 1)
  BY <1>1, <1>2, <1>3, <1>4, <1>6, <1>7, <1>8, <1>9 DEF Daughters
<1> QED
  BY <1>1, <1>10 DEF U, V

\* What becomes of the tokens and the words when it is the n-th token's turn.
Turn(T, W, n, u) ==
  /\ Daughters(u.tokens, u.words, n + 1) /\ Len(u.tokens) = Len(T)
  /\ \A k \in 1 .. Len(T) : k # n => u.tokens[k] = T[k]

\* AddAll is a turn, for no spelling and for any number.
LEMMA AddAllTurn ==
    ASSUME NEW u, NEW n \in 1 .. Len(u.tokens), Daughters(u.tokens, u.words, n),
           NEW spellings, Listed(spellings)
    PROVE  Turn(u.tokens, u.words, n, AddAll(u, n, spellings))
<1> DEFINE T == u.tokens
           W == u.words
           from == Len(W)
           d == Len(spellings)
           D == [j \in DOMAIN spellings |-> [parent |-> n - 1, id |-> "", spelling |-> spellings[j]]]
           t == [T[n] EXCEPT !.first = IF @ = Unset THEN Given(from) ELSE @,
                             !.last  = Given(from + d - 1)]
<1>1. n \in n .. Len(T) /\ Len(T) \in Nat
  <2>1. Len(T) \in Nat
    BY ListedShape DEF Daughters, Shaped
  <2> QED
    BY <2>1
<1>2. Slots \subseteq DOMAIN T[n] /\ T[n].first = Unset
  BY <1>1 DEF Daughters, Shaped, Bare
<1>3. d \in Nat /\ DOMAIN spellings = 1 .. d /\ (spellings # <<>> <=> d > 0)
  BY ListedShape
<1>4. CASE spellings = <<>>
  <2>1. AddAll(u, n, spellings) = u
    BY <1>4 DEF AddAll
  <2>2. Daughters(T, W, n + 1)
    BY TurnPasses
  <2> QED
    BY <2>1, <2>2 DEF Turn
<1>5. CASE spellings # <<>>
  <2>1. AddAll(u, n, spellings) = [tokens |-> [T EXCEPT ![n] = t], words |-> W \o D]
    BY <1>5 DEF AddAll
  <2>2. Listed(D) /\ Len(D) = d
    <3>1. DOMAIN D = DOMAIN spellings /\ D = [j \in DOMAIN D |-> D[j]]
      OBVIOUS
    <3> HIDE DEF D
    <3> QED
      BY <3>1, ListedFunction
  <2>3. \A j \in 1 .. d : D[j].parent = n - 1
    BY <1>3
  <2>4. Slots \subseteq DOMAIN t /\ t.first = Given(from) /\ t.last = Given(from + d - 1)
    <3>1. "first" \in DOMAIN T[n] /\ "last" \in DOMAIN T[n] /\ "first" # "last"
      BY <1>2 DEF Slots
    <3> HIDE DEF from, d, T
    <3> QED
      BY <1>2, <3>1
  <2> HIDE DEF D, t
  <2>5. /\ Daughters([T EXCEPT ![n] = t], W \o D, n + 1)
        /\ Len([T EXCEPT ![n] = t]) = Len(T)
        /\ \A k \in 1 .. Len(T) : k # n => [T EXCEPT ![n] = t][k] = T[k]
    <3>1. Adds(T, W, n, t, D)
      BY <1>3, <1>5, <2>2, <2>3, <2>4 DEF Adds
    <3> HIDE DEF T, W, d, from
    <3>2. Len([T EXCEPT ![n] = t]) = Len(T)
      BY <3>1, WordsAdded
    <3>3. \A k \in 1 .. Len(T) : k # n => [T EXCEPT ![n] = t][k] = T[k]
      BY <3>1, WordsAdded
    <3>4. Daughters([T EXCEPT ![n] = t], W \o D, n + 1)
      BY <3>1, WordsAdded
    <3> QED
      BY <3>2, <3>3, <3>4
  <2> QED
    BY <2>1, <2>5 DEF Turn
<1> QED
  BY <1>4, <1>5

\* One word, or those of a reading.
LEMMA AddWordTurn ==
    ASSUME NEW u, NEW n \in 1 .. Len(u.tokens), Daughters(u.tokens, u.words, n),
           NEW spelling
    PROVE  Turn(u.tokens, u.words, n, AddWord(u, n, spelling))
<1>1. Listed(<<spelling>>)
  BY ListedOne
<1> QED
  BY <1>1, AddAllTurn DEF AddWord

\* AddWords is a turn, whatever the reading.
LEMMA AddWordsTurn ==
    ASSUME NEW u, NEW n \in 1 .. Len(u.tokens), Daughters(u.tokens, u.words, n),
           NEW reading, Listed(reading)
    PROVE  Turn(u.tokens, u.words, n, AddWords(u, n, reading))
<1> DEFINE spellings == [j \in DOMAIN reading |->
                           IF reading[j] = "," THEN Sil ELSE <<reading[j]>>]
<1>1. DOMAIN spellings = DOMAIN reading /\ spellings = [j \in DOMAIN spellings |-> spellings[j]]
  OBVIOUS
<1>2. AddWords(u, n, reading) = AddAll(u, n, spellings)
  BY DEF AddWords
<1> HIDE DEF spellings
<1>3. Listed(spellings)
  BY <1>1, ListedFunction
<1> QED
  BY <1>2, <1>3, AddAllTurn

\* Clear leaves a token without daughters, and the turn is what it was.
LEMMA RevertTurn ==
    ASSUME NEW T, NEW W, NEW n \in 1 .. Len(T), Daughters(T, W, n),
           NEW reading, Listed(reading)
    PROVE  Turn(T, W, n, Revert([tokens |-> T, words |-> W], n, reading))
<1> DEFINE t == Verbatim(T[n])
           u == [tokens |-> [T EXCEPT ![n] = t], words |-> W]
<1>1. Revert([tokens |-> T, words |-> W], n, reading) = AddWords(u, n, reading)
  BY DEF Revert
<1>2. Slots \subseteq DOMAIN t /\ t.first = Unset
  BY NewTokenEmpty DEF Verbatim
<1> HIDE DEF t
<1>3. /\ Daughters([T EXCEPT ![n] = t], W, n)
      /\ Len([T EXCEPT ![n] = t]) = Len(T)
      /\ \A k \in 1 .. Len(T) : k # n => [T EXCEPT ![n] = t][k] = T[k]
  BY <1>2, TokenCleared
<1>4. /\ Daughters(u.tokens, u.words, n) /\ Len(u.tokens) = Len(T)
      /\ \A k \in 1 .. Len(T) : k # n => u.tokens[k] = T[k]
  BY <1>3
<1> HIDE DEF u
<1>5. Turn(u.tokens, u.words, n, AddWords(u, n, reading))
  BY <1>4, AddWordsTurn
<1> QED
  BY <1>1, <1>4, <1>5 DEF Turn

\* It is a token's turn: it gets its words, if any, and no other token is touched.
LEMMA VerbalizeTurn ==
    ASSUME Daughters(tokens, words, next), VerbalizeUtt
    PROVE  /\ Daughters(tokens', words', next + 1) /\ Len(tokens') = Len(tokens)
           /\ \A k \in 1 .. Len(tokens) : k # next => tokens'[k] = tokens[k]
<1> DEFINE u == [tokens |-> tokens, words |-> words]
<1>1. next \in 1 .. Len(tokens)
  <2>1. Len(tokens) \in Nat
    BY ListedShape DEF Daughters, Shaped
  <2> QED
    BY <2>1 DEF VerbalizeUtt, Daughters
<1>2. Daughters(u.tokens, u.words, next) /\ u.tokens = tokens /\ u.words = words
  OBVIOUS
<1>3. Punctuation(u, next) \/ SemioticClass(u, next) \/ Word(u, next)
  BY DEF VerbalizeUtt
<1> SUFFICES ASSUME NEW v, Put(v), Turn(tokens, words, next, v)
             PROVE  /\ Daughters(tokens', words', next + 1) /\ Len(tokens') = Len(tokens)
                    /\ \A k \in 1 .. Len(tokens) : k # next => tokens'[k] = tokens[k]
  <2>1. ASSUME Put(u) PROVE \E v : Put(v) /\ Turn(tokens, words, next, v)
    <3>1. Turn(tokens, words, next, u)
      BY <1>1, TurnPasses DEF Turn
    <3> QED
      BY <2>1, <3>1
  <2>2. ASSUME NEW spelling, Put(AddWord(u, next, spelling))
        PROVE  \E v : Put(v) /\ Turn(tokens, words, next, v)
    <3> HIDE DEF u
    <3>1. Turn(tokens, words, next, AddWord(u, next, spelling))
      BY <1>1, <1>2, AddWordTurn
    <3> QED
      BY <2>2, <3>1
  <2>3. ASSUME NEW reading, Listed(reading), Put(AddWords(u, next, reading))
        PROVE  \E v : Put(v) /\ Turn(tokens, words, next, v)
    <3> HIDE DEF u
    <3>1. Turn(tokens, words, next, AddWords(u, next, reading))
      BY <1>1, <1>2, <2>3, AddWordsTurn
    <3> QED
      BY <2>3, <3>1
  <2>4. ASSUME NEW reading, Listed(reading), Put(Revert(u, next, reading))
        PROVE  \E v : Put(v) /\ Turn(tokens, words, next, v)
    <3>1. Turn(tokens, words, next, Revert(u, next, reading))
      BY <1>1, <2>4, RevertTurn
    <3> QED
      BY <2>4, <3>1
  <2> HIDE DEF u
  <2>5. CASE Punctuation(u, next)
    <3>1. Put(u) \/ Put(AddWord(u, next, Sil))
      BY <2>5 DEF Punctuation
    <3> QED
      BY <2>1, <2>2, <3>1
  <2>6. CASE Word(u, next)
    <3>1. Put(u) \/ Put(AddWord(u, next, u.tokens[next].wordid[1]))
      BY <2>6 DEF Word
    <3> QED
      BY <2>1, <2>2, <3>1
  <2>7. CASE SemioticClass(u, next)
    <3>1. \/ Put(u)
          \/ \E first, second \in Readings \cup {NoReading} :
               Put(IF first # NoReading THEN AddWords(u, next, first)
                   ELSE Revert(u, next, IF second = NoReading THEN <<>> ELSE second))
      BY <2>7 DEF SemioticClass
    <3>2. ASSUME NEW r \in Readings \cup {<<>>} PROVE Listed(r)
      <4>1. r \in Seq(STRING)
        <5>1. <<>> \in Seq(STRING)
          OBVIOUS
        <5> QED
          BY <5>1, ReadingsAssumption
      <4> QED
        BY <4>1, ListedSeq
    <3>3. ASSUME NEW first \in Readings \cup {NoReading}, NEW second \in Readings \cup {NoReading},
                 Put(IF first # NoReading THEN AddWords(u, next, first)
                     ELSE Revert(u, next, IF second = NoReading THEN <<>> ELSE second))
          PROVE  \E v : Put(v) /\ Turn(tokens, words, next, v)
      <4>1. CASE first # NoReading
        <5>1. Listed(first) /\ Put(AddWords(u, next, first))
          BY <3>2, <3>3, <4>1
        <5> QED
          BY <2>3, <5>1
      <4>2. CASE first = NoReading
        <5> DEFINE r == IF second = NoReading THEN <<>> ELSE second
        <5>1. r \in Readings \cup {<<>>} /\ Put(Revert(u, next, r))
          BY <3>3, <4>2
        <5> HIDE DEF r
        <5> QED
          BY <2>4, <3>2, <5>1
      <4> QED
        BY <4>1, <4>2
    <3> QED
      BY <2>1, <3>1, <3>3
  <2> QED
    BY <1>3, <2>5, <2>6, <2>7
<1> QED
  BY DEF Put, Turn
-----------------------------------------------------------------------------
\* The inductive invariant for the daughters.
Verbalized ==
  /\ Shape /\ Daughters(tokens, words, next)
  /\ pc # "parsed" => words = <<>> /\ next = 1

\* What the beginning is like.
LEMMA StartShape ==
    ASSUME Start
    PROVE  /\ Shape /\ tokens = <<>> /\ open = <<>> /\ words = <<>> /\ next = 1
           /\ pc = "label" /\ ~again /\ source \in Sources
           /\ p = [state |-> 0, last |-> 0, i |-> "eps", name |-> <<>>, start |-> 0]
<1>1. /\ tokens = <<>> /\ open = <<>> /\ words = <<>> /\ next = 1
      /\ pc = "label" /\ ~again /\ source \in Sources
      /\ p = [state |-> 0, last |-> 0, i |-> "eps", name |-> <<>>, start |-> 0]
  BY DEF Start, Init
<1>2. Shaped(<<>>) /\ Opened(<<>>)
  BY ShapedEmpty DEF Shaped, Opened
<1> QED
  BY <1>1, <1>2 DEF Shape

\* A turn leaves the parser where it is.
LEMMA VerbalizeKeepsShape ==
    ASSUME Shape, Daughters(tokens, words, next), VerbalizeUtt
    PROVE  /\ Shape' /\ UNCHANGED <<source, p, pc, open, label, value, quote, again>>
           /\ pc = "parsed" /\ next' = next + 1
<1>1. /\ UNCHANGED <<source, p, pc, open, label, value, quote, again>>
      /\ pc = "parsed" /\ next' = next + 1
  BY DEF VerbalizeUtt
<1>2. Shaped(tokens') /\ Len(tokens') = Len(tokens)
  BY VerbalizeTurn DEF Daughters
<1>3. tokens # <<>> => tokens' # <<>>
  BY <1>2, ListedShape DEF Shape, Shaped
<1> QED
  BY <1>1, <1>2, <1>3 DEF Shape

\* Parsing is over before the first word is said.
LEMMA ParsedOnce == Parse => pc # "parsed"
BY DEF Parse, ConsumeLabel, ConsumeWhitespace, Dispatch, ParseFieldValue,
       ParseQuotedFieldValue

\* Every step of the normalizer keeps the invariant.
LEMMA VerbalizedKept == Verbalized /\ [Normalize]_normalizer => Verbalized'
<1> SUFFICES ASSUME Verbalized, [Normalize]_normalizer PROVE Verbalized'
  OBVIOUS
<1>1. CASE Parse /\ UNCHANGED <<words, next>>
  <2>1. Parse /\ UNCHANGED <<words, next>> /\ words = <<>> /\ next = 1
    BY <1>1, ParsedOnce DEF Verbalized
  <2>2. Bare(tokens, 1)
    BY <2>1 DEF Verbalized, Daughters
  <2>3. Shape' /\ Bare(tokens', 1)
    BY <2>1, <2>2, ParseKeepsShape DEF Verbalized
  <2>4. Daughters(tokens', <<>>, 1)
    BY <2>3, NoDaughters DEF Shape
  <2> QED
    BY <2>1, <2>3, <2>4 DEF Verbalized
<1>2. CASE VerbalizeUtt
  BY <1>2, VerbalizeTurn, VerbalizeKeepsShape DEF Verbalized
<1>3. CASE UNCHANGED normalizer
  BY <1>3 DEF normalizer, parser, Verbalized, Shape, Shaped, Opened, Daughters, Bare,
              Below, Stretch
<1>4. CASE RulesFail /\ UNCHANGED <<words, next>>
  BY <1>4 DEF RulesFail, Verbalized, Shape, Shaped, Opened, Daughters, Bare, Below, Stretch
<1> QED
  BY <1>1, <1>2, <1>3, <1>4 DEF Normalize, TokenizeAndClassifyUtt

\* The invariant holds in the beginning.
LEMMA StartVerbalized == Start => Verbalized
<1> SUFFICES ASSUME Start PROVE Verbalized
  OBVIOUS
<1>1. Bare(<<>>, 1)
  BY ShapedEmpty DEF Bare
<1> QED
  BY <1>1, StartShape, ShapedEmpty, NoDaughters DEF Verbalized

\* Festival's module runs the normalizer, and leaves what it found as it is.
LEMMA UttNormalizes ==
  /\ Start0 => Start
  /\ [Next]_vars => [Normalize]_normalizer
<1>1. Start0 => Start
  BY DEF Start0
<1>2. ASSUME [Next]_vars PROVE [Normalize]_normalizer
  <2>1. CASE Normalize
    BY <2>1
  <2>2. CASE NormalizeAndShowLinks \/ FT_Sparrowhawk_Normalize_Utt
    BY <2>2 DEF NormalizeAndShowLinks, FT_Sparrowhawk_Normalize_Utt
  <2>3. CASE UNCHANGED vars
    BY <2>3 DEF vars
  <2> QED
    BY <1>2, <2>1, <2>2, <2>3 DEF Next
<1> QED
  BY <1>1, <1>2

\* Whatever the grammars return, the tokens' daughters are stretches of the words, in
\* order, and the words' parents say the same: AddWord never adds to a token
\* that has had its turn, and Clear comes before the words.
THEOREM DaughtersAlwaysAgree == Spec => []DaughtersAgree
<1>1. Start0 => Verbalized
  BY StartVerbalized, UttNormalizes
<1>2. Verbalized /\ [Next]_vars => Verbalized'
  BY VerbalizedKept, UttNormalizes
<1>3. Verbalized => DaughtersAgree
  BY DaughtersEnough DEF Verbalized
<1> QED
  BY <1>1, <1>2, <1>3, PTL DEF Spec
-----------------------------------------------------------------------------
\* A set of numbers up to N has a least one.
LEMMA LeastNumber ==
    ASSUME NEW N \in Nat, NEW B, B \subseteq 0 .. N, B # {}
    PROVE  \E m \in B : \A k \in B : m <= k
<1> DEFINE T == {0 .. k : k \in B}
<1>1. T \subseteq FiniteSubsetsOf(0 .. N) /\ T # {}
  <2>1. ASSUME NEW k \in B PROVE 0 .. k \in FiniteSubsetsOf(0 .. N)
    <3>1. k \in 0 .. N /\ IsFiniteSet(0 .. k)
      BY FS_Interval
    <3> QED
      BY <3>1 DEF FiniteSubsetsOf
  <2> QED
    BY <2>1
<1> HIDE DEF T
<1>2. PICK x \in T : \A y \in T : ~(<<y, x>> \in StrictSubsetOrdering(0 .. N))
  BY <1>1, WFMin, FS_StrictSubsetOrderingWellFounded
<1>3. PICK m \in B : x = 0 .. m
  BY <1>2 DEF T
<1>4. ASSUME NEW k \in B, ~(m <= k) PROVE FALSE
  <2>1. k \in 0 .. N /\ m \in 0 .. N /\ 0 .. k \in T /\ k < m
    BY <1>4 DEF T
  <2>2. 0 .. k \subseteq 0 .. m /\ 0 .. k # 0 .. m
    <3>1. m \in 0 .. m /\ m \notin 0 .. k
      BY <2>1
    <3> QED
      BY <2>1, <3>1
  <2>3. <<0 .. k, 0 .. m>> \in StrictSubsetOrdering(0 .. N)
    BY <2>1, <2>2 DEF StrictSubsetOrdering
  <2> QED
    BY <1>2, <1>3, <2>1, <2>3
<1> QED
  BY <1>4
-----------------------------------------------------------------------------
(* Passed is what its recursive definition says.                           *)

\* The arcs of a path.
ArcSet == [i : Bytes \cup {"eps"}, o : Labels]

\* The input that has been passed after one more arc.
Passing(s, arc) == IF arc.i = "eps" THEN s ELSE Append(s, arc.i)

\* Passing an arc gives a sequence of bytes.
LEMMA WithTypes ==
    ASSUME NEW s \in Seq(Bytes), NEW arc \in ArcSet
    PROVE  Passing(s, arc) \in Seq(Bytes)
<1>1. CASE arc.i = "eps"
  BY <1>1 DEF Passing
<1>2. CASE arc.i # "eps"
  <2>1. arc.i \in Bytes
    BY <1>2 DEF ArcSet
  <2> QED
    BY <1>2, <2>1 DEF Passing
<1> QED
  BY <1>1, <1>2

\* f is the input that has been passed, up to the m-th arc.
Follows(f, l, m) ==
  /\ f \in [0 .. m -> Seq(Bytes)] /\ f[0] = <<>>
  /\ \A k \in 1 .. m : f[k] = Passing(f[k - 1], l[k])

\* There is a function with the recursive definition's values: no m is the least without.
LEMMA PassedExists ==
    ASSUME NEW l \in Seq(ArcSet)
    PROVE  \E f : Follows(f, l, Len(l))
<1> DEFINE L == Len(l)
           B == {m \in 0 .. L : ~ \E f : Follows(f, l, m)}
<1>1. L \in Nat /\ \A k \in 1 .. L : l[k] \in ArcSet
  OBVIOUS
<1> SUFFICES ASSUME ~ \E f : Follows(f, l, L) PROVE FALSE
  OBVIOUS
<1> HIDE DEF L
<1>2. B \subseteq 0 .. L /\ B # {}
  <2>1. L \in 0 .. L
    BY <1>1
  <2>2. L \in B
    BY <2>1
  <2> QED
    BY <2>2
<1>3. PICK m \in B : \A k \in B : m <= k
  BY <1>1, <1>2, LeastNumber
<1>4. m \in 0 .. L /\ ~ \E f : Follows(f, l, m)
  BY <1>3
<1>5. CASE m = 0
  <2> DEFINE f == [k \in 0 .. 0 |-> <<>>]
  <2>1. <<>> \in Seq(Bytes)
    OBVIOUS
  <2>2. f \in [0 .. 0 -> Seq(Bytes)] /\ f[0] = <<>>
    BY <2>1
  <2>3. Follows(f, l, 0)
    BY <2>2 DEF Follows
  <2> QED
    BY <1>4, <1>5, <2>3
<1>6. CASE m # 0
  <2>1. m - 1 \in 0 .. L /\ m \in 1 .. L /\ ~(m <= m - 1)
    BY <1>1, <1>4, <1>6
  <2>2. m - 1 \notin B
    BY <1>3, <2>1
  <2>3. PICK f : Follows(f, l, m - 1)
    BY <2>1, <2>2
  <2> DEFINE w == Passing(f[m - 1], l[m])
             g == [k \in 0 .. m |-> IF k = m THEN w ELSE f[k]]
  <2>4. w \in Seq(Bytes)
    <3>1. f[m - 1] \in Seq(Bytes) /\ l[m] \in ArcSet
      BY <1>1, <2>1, <2>3 DEF Follows
    <3> QED
      BY <3>1, WithTypes
  <2>5. w = Passing(f[m - 1], l[m])
    OBVIOUS
  <2> HIDE DEF w
  <2>6. g \in [0 .. m -> Seq(Bytes)] /\ g[0] = <<>>
    BY <2>1, <2>3, <2>4 DEF Follows
  <2>7. ASSUME NEW k \in 1 .. m PROVE g[k] = Passing(g[k - 1], l[k])
    <3>1. CASE k = m
      BY <2>1, <2>5, <3>1
    <3>2. CASE k # m
      <4>1. k \in 1 .. m - 1 /\ k \in 0 .. m /\ k - 1 \in 0 .. m /\ k - 1 # m
        BY <2>1, <3>2
      <4>2. f[k] = Passing(f[k - 1], l[k])
        BY <2>3, <4>1 DEF Follows
      <4> QED
        BY <3>2, <4>1, <4>2
    <3> QED
      BY <3>1, <3>2
  <2>8. Follows(g, l, m)
    BY <2>6, <2>7 DEF Follows
  <2> QED
    BY <1>4, <2>8
<1> QED
  BY <1>5, <1>6

\* Passed is such a function.
LEMMA PassedValue ==
    ASSUME NEW l \in Seq(ArcSet)
    PROVE  Passed(l) = [k \in 0 .. Len(l) |->
                          IF k = 0 THEN <<>> ELSE Passing(Passed(l)[k - 1], l[k])]
<1> DEFINE R(f) == [k \in 0 .. Len(l) |->
                      IF k = 0 THEN <<>> ELSE Passing(f[k - 1], l[k])]
<1>1. PICK f : Follows(f, l, Len(l))
  BY PassedExists
<1>2. Len(l) \in Nat
  OBVIOUS
<1>3. f = R(f)
  <2>1. ASSUME NEW k \in 0 .. Len(l) PROVE f[k] = R(f)[k]
    <3>1. CASE k = 0
      BY <1>1, <3>1 DEF Follows
    <3>2. CASE k # 0
      <4>1. k \in 1 .. Len(l)
        BY <1>2, <3>2
      <4> QED
        BY <1>1, <3>2, <4>1 DEF Follows
    <3> QED
      BY <3>1, <3>2
  <2>2. f = [k \in 0 .. Len(l) |-> f[k]]
    BY <1>1 DEF Follows
  <2> QED
    BY <2>1, <2>2
<1>4. Passed(l) = CHOOSE g : g = R(g)
  BY DEF Passed, Passing
<1>5. Passed(l) = R(Passed(l))
  <2> HIDE DEF R
  <2> QED
    BY <1>3, <1>4
<1> QED
  BY <1>5

\* Its values are inputs, and its steps those of Passing.
LEMMA PassedTypes ==
    ASSUME NEW l \in Seq(ArcSet)
    PROVE  /\ Passed(l)[0] = <<>>
           /\ \A k \in 0 .. Len(l) : Passed(l)[k] \in Seq(Bytes)
           /\ \A k \in 1 .. Len(l) : Passed(l)[k] = Passing(Passed(l)[k - 1], l[k])
<1> DEFINE L == Len(l)
           at == Passed(l)
           B == {m \in 0 .. L : at[m] \notin Seq(Bytes)}
<1>1. L \in Nat /\ L = Len(l) /\ \A k \in 1 .. L : l[k] \in ArcSet
  OBVIOUS
<1>2. at = [k \in 0 .. L |-> IF k = 0 THEN <<>> ELSE Passing(at[k - 1], l[k])]
  BY PassedValue
<1> HIDE DEF L, at
<1>3. at[0] = <<>> /\ \A k \in 1 .. L : at[k] = Passing(at[k - 1], l[k])
  <2>1. 0 \in 0 .. L /\ \A k \in 1 .. L : k \in 0 .. L /\ k # 0
    BY <1>1
  <2> DEFINE f == [k \in 0 .. L |-> IF k = 0 THEN <<>> ELSE Passing(at[k - 1], l[k])]
  <2>2. f[0] = <<>> /\ \A k \in 1 .. L : f[k] = Passing(at[k - 1], l[k])
    BY <2>1
  <2> HIDE DEF f
  <2>3. at = f
    BY <1>2 DEF f
  <2> QED
    BY <2>2, <2>3
<1>4. B = {}
  <2> SUFFICES ASSUME B # {} PROVE FALSE
    OBVIOUS
  <2>1. PICK m \in B : \A k \in B : m <= k
    <3>1. B \subseteq 0 .. L
      OBVIOUS
    <3> QED
      BY <1>1, <3>1, LeastNumber
  <2>2. m \in 0 .. L /\ at[m] \notin Seq(Bytes)
    BY <2>1
  <2>3. m \in 1 .. L /\ m - 1 \in 0 .. L /\ ~(m <= m - 1)
    <3>1. m # 0
      <4>1. <<>> \in Seq(Bytes)
        OBVIOUS
      <4> QED
        BY <1>3, <2>2, <4>1
    <3> QED
      BY <1>1, <2>2, <3>1
  <2>4. at[m - 1] \in Seq(Bytes)
    BY <2>1, <2>3
  <2> QED
    BY <1>1, <1>3, <2>2, <2>3, <2>4, WithTypes
<1> QED
  BY <1>3, <1>4 DEF at, L

\* What has been passed is how the input begins, and the next byte is its next.
LEMMA PassedGrows ==
    ASSUME NEW s \in Seq(Bytes), NEW arc \in ArcSet
    PROVE  /\ IF arc.i = "eps" THEN Passing(s, arc) = s
              ELSE /\ Len(Passing(s, arc)) = Len(s) + 1
                   /\ Passing(s, arc)[Len(s) + 1] = arc.i
           /\ Len(s) <= Len(Passing(s, arc))
           /\ \A j \in 1 .. Len(s) : Passing(s, arc)[j] = s[j]
<1>1. CASE arc.i = "eps"
  BY <1>1 DEF Passing
<1>2. CASE arc.i # "eps"
  <2>1. arc.i \in Bytes
    BY <1>2 DEF ArcSet
  <2> QED
    BY <1>2, <2>1 DEF Passing
<1> QED
  BY <1>1, <1>2

\* s is a beginning of t.
Begins(s, t) == Len(s) <= Len(t) /\ \A j \in 1 .. Len(s) : t[j] = s[j]

\* A beginning's beginning.
LEMMA BeginsChain ==
    ASSUME NEW r, NEW s, NEW t, Len(r) \in Nat, Len(s) \in Nat,
           Begins(r, s), Begins(s, t)
    PROVE  Begins(r, t)
<1>1. Len(r) <= Len(s) /\ \A j \in 1 .. Len(r) : s[j] = r[j]
  BY DEF Begins
<1>2. Len(s) <= Len(t) /\ \A j \in 1 .. Len(s) : t[j] = s[j]
  BY DEF Begins
<1> QED
  BY <1>1, <1>2 DEF Begins

\* What is passed after some of the arcs is a beginning of all the input.
LEMMA InputBegins ==
    ASSUME NEW l \in Seq(ArcSet), NEW k \in 0 .. Len(l)
    PROVE  Begins(Passed(l)[k], Passed(l)[Len(l)])
<1> DEFINE L == Len(l)
           at == Passed(l)
           B == {m \in 0 .. L : ~Begins(at[L - m], at[L])}
<1>1. L \in Nat /\ L = Len(l) /\ \A j \in 1 .. L : l[j] \in ArcSet
  OBVIOUS
<1>2. /\ \A j \in 0 .. L : at[j] \in Seq(Bytes)
      /\ \A j \in 1 .. L : at[j] = Passing(at[j - 1], l[j])
  BY PassedTypes
<1> HIDE DEF L, at
<1>3. B = {}
  <2> SUFFICES ASSUME B # {} PROVE FALSE
    OBVIOUS
  <2>1. PICK m \in B : \A j \in B : m <= j
    <3>1. B \subseteq 0 .. L
      OBVIOUS
    <3> QED
      BY <1>1, <3>1, LeastNumber
  <2>2. m \in 0 .. L /\ ~Begins(at[L - m], at[L])
    BY <2>1
  <2>3. m # 0
    <3>1. at[L] \in Seq(Bytes)
      BY <1>1, <1>2
    <3>2. Begins(at[L], at[L])
      BY <3>1 DEF Begins
    <3>3. L - 0 = L
      BY <1>1
    <3> QED
      BY <2>2, <3>2, <3>3
  <2>4. PICK n \in 0 .. L : n = L - m /\ n < L
    BY <1>1, <2>2, <2>3
  <2>5. m - 1 \in 0 .. L /\ ~(m <= m - 1) /\ L - (m - 1) = n + 1
    BY <1>1, <2>2, <2>3, <2>4
  <2>6. Begins(at[n + 1], at[L])
    BY <2>1, <2>5
  <2>7. n \in 0 .. L /\ n + 1 \in 1 .. L /\ n + 1 - 1 = n
    BY <1>1, <2>4
  <2>8. at[n] \in Seq(Bytes) /\ at[n + 1] = Passing(at[n], l[n + 1]) /\ l[n + 1] \in ArcSet
    BY <1>1, <1>2, <2>7
  <2>9. Begins(at[n], at[n + 1])
    BY <2>8, PassedGrows DEF Begins
  <2>10. Begins(at[n], at[L])
    <3>1. Len(at[n]) \in Nat /\ Len(at[n + 1]) \in Nat
      BY <1>1, <1>2, <2>7
    <3> QED
      BY <2>6, <2>9, <3>1, BeginsChain
  <2> QED
    BY <2>2, <2>4, <2>10
<1>4. PICK m \in 0 .. L : k = L - m
  <2>1. k \in 0 .. L
    BY <1>1
  <2>2. L - k \in 0 .. L /\ k = L - (L - k)
    BY <1>1, <2>1
  <2> QED
    BY <2>2
<1> QED
  BY <1>3, <1>4 DEF at, L

\* How much of the input is before a state of the path.
Behind(s) == Len(Passed(path)[s])

\* How an arc's input takes part in the whole.
LEMMA InputRead ==
    ASSUME source \in Sources, NEW s \in 0 .. Len(path)
    PROVE  /\ Len(path) \in Nat /\ Input \in Seq(Bytes) /\ Behind(0) = 0
           /\ Behind(s) \in Nat /\ Behind(s) <= Len(Input)
           /\ s < Len(path) =>
                /\ path[s + 1] \in ArcSet
                /\ IF path[s + 1].i = "eps" THEN Behind(s + 1) = Behind(s)
                   ELSE /\ Behind(s + 1) = Behind(s) + 1 /\ Behind(s + 1) <= Len(Input)
                        /\ Input[Behind(s) + 1] = path[s + 1].i
<1>1. path \in Seq(ArcSet)
  BY SourceAssumption DEF path, ArcSet
<1> DEFINE L == Len(path)
           at == Passed(path)
<1>2. L \in Nat /\ \A k \in 1 .. L : path[k] \in ArcSet
  BY <1>1
<1>3. /\ at[0] = <<>> /\ \A k \in 0 .. L : at[k] \in Seq(Bytes)
      /\ \A k \in 1 .. L : at[k] = Passing(at[k - 1], path[k])
  BY <1>1, PassedTypes
<1>4. \A k \in 0 .. L : Begins(at[k], at[L])
  BY <1>1, InputBegins
<1>5. Input = at[L] /\ \A k : Behind(k) = Len(at[k])
  BY DEF Input, Behind
<1> HIDE DEF at, L
<1>6. Input \in Seq(Bytes) /\ Behind(0) = 0 /\ Behind(s) \in Nat /\ Behind(s) <= Len(Input)
  <2>1. s \in 0 .. L /\ L \in 0 .. L /\ at[s] \in Seq(Bytes) /\ at[L] \in Seq(Bytes)
    BY <1>2, <1>3 DEF L
  <2> QED
    BY <1>3, <1>4, <1>5, <2>1, EmptySeq DEF Begins
<1>7. ASSUME s < L
      PROVE  /\ path[s + 1] \in ArcSet
             /\ IF path[s + 1].i = "eps" THEN Behind(s + 1) = Behind(s)
                ELSE /\ Behind(s + 1) = Behind(s) + 1 /\ Behind(s + 1) <= Len(Input)
                     /\ Input[Behind(s) + 1] = path[s + 1].i
  <2>1. s \in 0 .. L /\ s + 1 \in 1 .. L /\ s + 1 \in 0 .. L /\ s + 1 - 1 = s
    BY <1>2, <1>7 DEF L
  <2>2. path[s + 1] \in ArcSet /\ at[s] \in Seq(Bytes) /\ at[s + 1] = Passing(at[s], path[s + 1])
    BY <1>2, <1>3, <2>1
  <2>3. Begins(at[s + 1], Input)
    BY <1>4, <1>5, <2>1
  <2>4. CASE path[s + 1].i = "eps"
    BY <1>5, <2>2, <2>4, PassedGrows
  <2>5. CASE path[s + 1].i # "eps"
    <3>1. /\ Len(at[s + 1]) = Len(at[s]) + 1 /\ Len(at[s]) \in Nat
          /\ at[s + 1][Len(at[s]) + 1] = path[s + 1].i
      BY <2>2, <2>5, PassedGrows
    <3>2. Len(at[s]) + 1 \in 1 .. Len(at[s + 1])
      BY <3>1
    <3>3. Input[Len(at[s]) + 1] = path[s + 1].i /\ Len(at[s + 1]) <= Len(Input)
      BY <2>3, <3>1, <3>2 DEF Begins
    <3> QED
      BY <1>5, <2>2, <2>5, <3>1, <3>3
  <2> QED
    BY <2>4, <2>5
<1> QED
  BY <1>2, <1>6, <1>7 DEF L
-----------------------------------------------------------------------------
(* The parser's place: where it is on the path, and in the input.          *)

\* The types of the parser's place.
Place == [state : Int, last : Int, i : Bytes \cup {"eps"}, name : Seq(Bytes), start : Int]

\* The name is what of the input is before the state, from the start on, and does not
\* begin with a space.
Placed(q) ==
  /\ q \in Place /\ q.state \in 0 .. Len(path) /\ q.start \in Nat
  /\ q.start + Len(q.name) = Behind(q.state)
  /\ \A j \in 1 .. Len(q.name) : q.name[j] = Input[q.start + j]
  /\ q.name # <<>> => q.name[1] # "sp"

\* What is after the e-th byte, from 0, and before the s-th is spaces.
Gap(e, s) == e < s /\ \A j \in e + 2 .. s : Input[j] = "sp"

\* NextState: the byte of the last arc is gathered, and spaces before a name are passed.
LEMMA NextStatePlaced ==
    ASSUME source \in Sources, Placed(p), ~AtEnd
    PROVE  Placed(NextState) /\ Gap(p.start - 1, NextState.start)
<1> DEFINE s == p.state
<1>1. /\ s \in 0 .. Len(path) /\ Len(path) \in Nat /\ s # Len(path)
      /\ p \in Place /\ p.start \in Nat /\ p.name \in Seq(Bytes)
      /\ p.start + Len(p.name) = Behind(s)
  BY InputRead DEF Placed, AtEnd, Place
<1>2. s < Len(path) /\ s + 1 \in 0 .. Len(path)
  BY <1>1
<1>3. /\ Input \in Seq(Bytes) /\ Behind(s) \in Nat
      /\ Arc \in ArcSet
      /\ IF Arc.i = "eps" THEN Behind(s + 1) = Behind(s)
         ELSE /\ Behind(s + 1) = Behind(s) + 1 /\ Behind(s + 1) <= Len(Input)
              /\ Input[Behind(s) + 1] = Arc.i
  BY <1>1, <1>2, InputRead DEF Arc
<1> DEFINE q == [p EXCEPT !.state = @ + 1, !.last = s, !.i = Arc.i]
<1>4. /\ q \in Place /\ q.state = s + 1 /\ q.start = p.start /\ q.name = p.name
  <2>1. Arc.i \in Bytes \cup {"eps"} /\ s \in Int /\ s + 1 \in Int
    BY <1>1, <1>3 DEF ArcSet
  <2>2. PICK i \in Bytes \cup {"eps"}, to \in Int : i = Arc.i /\ to = s + 1
    BY <2>1
  <2>3. p \in Place /\ s \in Int /\ q = [p EXCEPT !.state = to, !.last = s, !.i = i]
    BY <1>1, <2>1, <2>2
  <2> HIDE DEF q, s
  <2>4. q \in Place /\ q.state = to /\ q.start = p.start /\ q.name = p.name
    BY <2>3 DEF Place
  <2> QED
    BY <2>2, <2>4
<1>5. \A j \in 1 .. Len(p.name) : p.name[j] = Input[p.start + j]
  BY DEF Placed
<1>6. p.name # <<>> => p.name[1] # "sp"
  BY DEF Placed
<1>7. NextState = IF Arc.i = "eps" THEN q
                  ELSE IF Arc.i = "sp" /\ p.name = <<>> THEN [q EXCEPT !.start = @ + 1]
                  ELSE [q EXCEPT !.name = Append(@, Arc.i)]
  BY DEF NextState
<1>8. Gap(p.start - 1, p.start)
  BY <1>1 DEF Gap
<1> HIDE DEF q, s
<1>9. CASE Arc.i = "eps"
  <2>1. NextState = q
    BY <1>7, <1>9
  <2>2. q.start + Len(q.name) = Behind(q.state)
    BY <1>1, <1>3, <1>4, <1>9
  <2>3. Placed(q)
    BY <1>1, <1>2, <1>4, <1>5, <1>6, <2>2 DEF Placed
  <2> QED
    BY <1>4, <1>8, <2>1, <2>3
<1>10. CASE Arc.i = "sp" /\ p.name = <<>>
  <2> DEFINE r == [q EXCEPT !.start = @ + 1]
  <2>1. NextState = r
    BY <1>7, <1>10
  <2>2. r \in Place /\ r.state = s + 1 /\ r.start = p.start + 1 /\ r.name = <<>>
    BY <1>1, <1>4, <1>10 DEF Place
  <2> HIDE DEF r
  <2>3. Len(<<>>) = 0 /\ Len(p.name) = 0
    BY <1>10
  <2>4. p.start = Behind(s) /\ Input[p.start + 1] = "sp" /\ Behind(s + 1) = p.start + 1
    BY <1>1, <1>3, <1>10, <2>3
  <2>5. \A j \in p.start - 1 + 2 .. p.start + 1 : j = p.start + 1
    BY <1>1
  <2>6. Gap(p.start - 1, p.start + 1)
    BY <1>1, <2>4, <2>5 DEF Gap
  <2>7. Placed(r)
    BY <1>1, <1>2, <2>2, <2>3, <2>4 DEF Placed
  <2> QED
    BY <2>1, <2>2, <2>6, <2>7
<1>11. CASE Arc.i # "eps" /\ ~(Arc.i = "sp" /\ p.name = <<>>)
  <2> DEFINE w == Append(p.name, Arc.i)
             r == [q EXCEPT !.name = w]
  <2>1. NextState = r
    BY <1>4, <1>7, <1>11
  <2>2. Arc.i \in Bytes
    BY <1>3, <1>11 DEF ArcSet
  <2>3. /\ w \in Seq(Bytes) /\ Len(w) = Len(p.name) + 1 /\ w # <<>>
        /\ \A j \in 1 .. Len(p.name) : w[j] = p.name[j]
        /\ w[Len(p.name) + 1] = Arc.i /\ Len(p.name) \in Nat
    BY <1>1, <2>2
  <2> HIDE DEF w
  <2>4. r \in Place /\ r.state = s + 1 /\ r.start = p.start /\ r.name = w
    BY <1>4, <2>3 DEF Place
  <2> HIDE DEF r
  <2>5. ASSUME NEW j \in 1 .. Len(w) PROVE w[j] = Input[p.start + j]
    <3>1. CASE j = Len(p.name) + 1
      <4>1. p.start + j = Behind(s) + 1
        <5>1. p.start + Len(p.name) = Behind(s) /\ p.start \in Nat /\ Len(p.name) \in Nat
          BY <1>1, <2>3
        <5> QED
          BY <3>1, <5>1
      <4> QED
        BY <1>3, <1>11, <2>3, <3>1, <4>1
    <3>2. CASE j # Len(p.name) + 1
      <4>1. j \in 1 .. Len(p.name)
        BY <2>3, <3>2
      <4> QED
        BY <1>5, <2>3, <4>1
    <3> QED
      BY <3>1, <3>2
  <2>6. w[1] # "sp"
    <3>1. CASE p.name = <<>>
      <4>1. Len(p.name) = 0
        BY <3>1
      <4> QED
        BY <1>11, <2>3, <3>1, <4>1
    <3>2. CASE p.name # <<>>
      <4>1. 1 \in 1 .. Len(p.name)
        BY <1>1, <3>2
      <4> QED
        BY <1>6, <2>3, <3>2, <4>1
    <3> QED
      BY <3>1, <3>2
  <2>7. p.start + Len(w) = Behind(s + 1)
    <3>1. p.start + Len(p.name) = Behind(s) /\ p.start \in Nat /\ Len(p.name) \in Nat
      BY <1>1, <2>3
    <3>2. Len(w) = Len(p.name) + 1 /\ Behind(s + 1) = Behind(s) + 1
      BY <1>3, <1>11, <2>3
    <3> QED
      BY <3>1, <3>2
  <2>8. Placed(r)
    BY <1>1, <1>2, <2>4, <2>5, <2>6, <2>7 DEF Placed
  <2> QED
    BY <1>8, <2>1, <2>4, <2>8
<1> QED
  BY <1>9, <1>10, <1>11

\* PrevState takes back what NextState has read, and its input.
LEMMA PrevStatePlaced ==
    ASSUME source \in Sources, Placed(p), ~AtEnd
    PROVE  Placed(PrevState(NextState)) /\ PrevState(NextState).start = p.start
<1> DEFINE q == [p EXCEPT !.state = @ + 1, !.last = p.state, !.i = Arc.i]
           n == NextState
           r == [n EXCEPT !.state = n.last]
           z == PrevState(n)
<1>1. p \in Place /\ p.state \in 0 .. Len(path) /\ p.start \in Nat /\ p.name \in Seq(Bytes)
  BY DEF Placed, Place
<1>2. Arc.i \in Bytes \cup {"eps"}
  <2>1. p.state < Len(path)
    BY <1>1, InputRead DEF AtEnd
  <2> QED
    BY <1>1, <2>1, InputRead DEF Arc, ArcSet
<1>3. /\ q \in Place /\ q.last = p.state /\ q.start = p.start /\ q.name = p.name
      /\ q.i = Arc.i
  <2>1. p.state \in Int /\ p.state + 1 \in Int
    BY <1>1 DEF Place
  <2>2. PICK i \in Bytes \cup {"eps"}, to \in Int, from \in Int :
            i = Arc.i /\ to = p.state + 1 /\ from = p.state
    BY <1>2, <2>1
  <2>3. p \in Place /\ q = [p EXCEPT !.state = to, !.last = from, !.i = i]
    BY <1>1, <2>2
  <2> HIDE DEF q
  <2>4. q \in Place /\ q.last = from /\ q.start = p.start /\ q.name = p.name /\ q.i = i
    BY <2>3 DEF Place
  <2> QED
    BY <2>2, <2>4
<1>4. n = IF Arc.i = "eps" THEN q
          ELSE IF Arc.i = "sp" /\ p.name = <<>> THEN [q EXCEPT !.start = @ + 1]
          ELSE [q EXCEPT !.name = Append(@, Arc.i)]
  BY DEF NextState
<1>5. z = IF n.i = "eps" THEN r
          ELSE IF n.i = "sp" /\ n.name = <<>> THEN [r EXCEPT !.start = @ - 1]
          ELSE IF n.name # <<>> THEN [r EXCEPT !.name = Front(@)]
          ELSE r
  BY DEF PrevState
<1> HIDE DEF q, n, z
<1>6. z \in Place /\ z.state = p.state /\ z.start = p.start /\ z.name = p.name
  <2>1. CASE Arc.i = "eps"
    <3>1. n = q
      BY <1>4, <2>1
    <3>2. z = r
      BY <1>3, <1>5, <2>1, <3>1
    <3> QED
      BY <1>1, <1>3, <3>1, <3>2 DEF Place
  <2>2. CASE Arc.i = "sp" /\ p.name = <<>>
    <3>1. n = [q EXCEPT !.start = @ + 1]
      BY <1>4, <2>2
    <3>2. /\ n \in Place /\ n.last = p.state /\ n.start = p.start + 1 /\ n.name = p.name
          /\ n.i = "sp"
      BY <1>1, <1>3, <2>2, <3>1 DEF Place
    <3>3. z = [r EXCEPT !.start = @ - 1]
      BY <1>5, <2>2, <3>2
    <3>4. r \in Place /\ r.state = p.state /\ r.start = p.start + 1 /\ r.name = p.name
      BY <1>1, <3>2 DEF Place
    <3> HIDE DEF r
    <3> QED
      BY <1>1, <3>3, <3>4 DEF Place
  <2>3. CASE Arc.i # "eps" /\ ~(Arc.i = "sp" /\ p.name = <<>>)
    <3> DEFINE w == Append(p.name, Arc.i)
    <3>1. n = [q EXCEPT !.name = w]
      BY <1>3, <1>4, <2>3
    <3>2. w \in Seq(Bytes) /\ w # <<>> /\ Front(w) = p.name
      <4>1. Arc.i \in Bytes
        BY <1>2, <2>3
      <4>2. w \in Seq(Bytes) /\ w # <<>> /\ Len(w) = Len(p.name) + 1 /\ Len(p.name) \in Nat
            /\ \A j \in 1 .. Len(p.name) : w[j] = p.name[j]
        BY <1>1, <4>1
      <4> HIDE DEF w
      <4>3. Listed(w)
        BY <4>2, ListedSeq
      <4>4. /\ Len(Front(w)) = Len(w) - 1
            /\ \A j \in 1 .. Len(w) - 1 : Front(w)[j] = w[j]
        BY <4>2, <4>3, ListedFront
      <4>5. Front(w) \in Seq(Bytes)
        BY <4>2 DEF Front
      <4>6. Len(w) - 1 = Len(p.name)
        BY <4>2
      <4>7. Len(Front(w)) = Len(p.name) /\ \A j \in 1 .. Len(Front(w)) : Front(w)[j] = p.name[j]
        BY <4>2, <4>4, <4>6
      <4>8. Front(w) = p.name
        BY <1>1, <4>5, <4>7, SeqEqual
      <4> QED
        BY <4>2, <4>8
    <3> HIDE DEF w
    <3>3. /\ n \in Place /\ n.last = p.state /\ n.start = p.start /\ n.name = w
          /\ n.i = Arc.i
      BY <1>1, <1>3, <3>1, <3>2 DEF Place
    <3>4. z = [r EXCEPT !.name = Front(@)]
      BY <1>5, <2>3, <3>2, <3>3
    <3>5. r \in Place /\ r.state = p.state /\ r.start = p.start /\ r.name = w
      BY <1>1, <3>3 DEF Place
    <3> HIDE DEF r
    <3>6. z = [r EXCEPT !.name = p.name]
      BY <3>2, <3>4, <3>5
    <3> QED
      BY <1>1, <3>5, <3>6 DEF Place
  <2> QED
    BY <2>1, <2>2, <2>3
<1>7. Placed(z)
  BY <1>6 DEF Placed
<1> QED
  BY <1>6, <1>7 DEF z, n

\* An arc that is read, or read and given back, leaves the parser placed.
LEMMA MovesPlaced ==
    ASSUME source \in Sources, UNCHANGED source, Placed(p), Moves
    PROVE  Placed(p') /\ Gap(p.start - 1, p'.start)
<1>1. Gap(p.start - 1, p.start)
  BY DEF Gap, Placed
<1>2. CASE p' = p
  BY <1>1, <1>2
<1>3. CASE ~AtEnd /\ p' = NextState
  BY <1>3, NextStatePlaced
<1>4. CASE ~AtEnd /\ p' = PrevState(NextState)
  BY <1>1, <1>4, PrevStatePlaced
<1> QED
  BY <1>2, <1>3, <1>4 DEF Moves
-----------------------------------------------------------------------------
(* The spaces at a name's end.                                             *)

\* m is where the name ends and its last spaces begin.
EndsAt(name, m) ==
  /\ Stripped(name) = SubSeq(name, 1, m)
  /\ m > 0 => name[1] # "sp" /\ name[m] # "sp"
  /\ \A k \in m + 1 .. Len(name) : name[k] = "sp"

\* Spaces, in terms of the bytes.
LEMMA SpacesFrom ==
    ASSUME NEW name \in Seq(Bytes), NEW k \in 1 .. Len(name)
    PROVE  Spaces(SubSeq(name, k + 1, Len(name)))
             <=> \A j \in k + 1 .. Len(name) : name[j] = "sp"
<1> DEFINE L == Len(name)
           t == SubSeq(name, k + 1, L)
<1>1. L \in Nat /\ \A j \in k + 1 .. L : name[j] \in Bytes
  OBVIOUS
<1>2. k + 1 \in Int /\ L \in Int
  BY <1>1
<1> HIDE DEF L
<1>3. /\ t \in Seq(Bytes)
      /\ Len(t) = IF k + 1 <= L THEN L - (k + 1) + 1 ELSE 0
      /\ \A j \in 1 .. L - (k + 1) + 1 : t[j] = name[k + 1 + j - 1]
  BY <1>1, <1>2, SubSeqProperties
<1>4. k \in 1 .. L
  BY DEF L
<1>5. Len(t) = L - k
  <2>1. CASE k = L
    BY <1>1, <1>3, <1>4, <2>1
  <2>2. CASE k # L
    BY <1>1, <1>3, <1>4, <2>2
  <2> QED
    BY <2>1, <2>2
<1>6. DOMAIN t = 1 .. L - k /\ \A j \in 1 .. L - k : t[j] = name[k + j]
  <2>1. \A j \in 1 .. L - k : j \in 1 .. L - (k + 1) + 1 /\ k + 1 + j - 1 = k + j
    BY <1>1, <1>4
  <2> QED
    BY <1>3, <1>5, <2>1
<1>7. ASSUME \A j \in 1 .. L - k : t[j] = "sp", NEW j \in k + 1 .. L
      PROVE  name[j] = "sp"
  <2>1. j - k \in 1 .. L - k /\ k + (j - k) = j
    BY <1>1, <1>4
  <2> QED
    BY <1>6, <1>7, <2>1
<1>8. ASSUME \A j \in k + 1 .. L : name[j] = "sp", NEW j \in 1 .. L - k
      PROVE  t[j] = "sp"
  <2>1. k + j \in k + 1 .. L
    BY <1>1, <1>4
  <2> QED
    BY <1>6, <1>8, <2>1
<1> QED
  BY <1>6, <1>7, <1>8 DEF Spaces, L

\* What Stripped leaves ends before the spaces at the end.
LEMMA StrippedEnds ==
    ASSUME NEW name \in Seq(Bytes), name # <<>> => name[1] # "sp"
    PROVE  \E m \in 0 .. Len(name) : EndsAt(name, m)
<1>1. PICK L \in Nat : L = Len(name) /\ DOMAIN name = 1 .. L
  OBVIOUS
<1>2. CASE name = <<>>
  <2>1. Len(name) = 0 /\ Spaces(name)
    BY <1>2 DEF Spaces
  <2>2. Stripped(name) = <<>>
    BY <1>2, <2>1 DEF Stripped
  <2>3. SubSeq(name, 1, 0) = <<>>
    BY SubSeqEmpty
  <2>4. EndsAt(name, 0)
    BY <2>1, <2>2, <2>3 DEF EndsAt
  <2> QED
    BY <2>1, <2>4
<1>3. CASE name # <<>>
  <2> DEFINE B == {j \in 0 .. L : j < L /\ name[L - j] # "sp"}
             P(k) == name[k] # "sp" /\ Spaces(SubSeq(name, k + 1, Len(name)))
  <2>1. L > 0 /\ 1 \in 1 .. L
    BY <1>1, <1>3
  <2>2. B # {} /\ B \subseteq 0 .. L
    <3>1. L - 1 \in 0 .. L /\ L - 1 < L /\ L - (L - 1) = 1
      BY <2>1
    <3>2. L - 1 \in B
      BY <1>3, <3>1
    <3> QED
      BY <3>2
  <2>3. PICK b \in B : \A j \in B : b <= j
    BY <2>2, LeastNumber
  <2>4. L - b \in 1 .. L /\ name[L - b] # "sp"
    BY <2>3
  <2>5. ASSUME NEW j \in L - b + 1 .. L PROVE name[j] = "sp"
    <3>1. L - j \in 0 .. L /\ L - j < L /\ L - (L - j) = j /\ ~(b <= L - j)
      BY <2>4
    <3> QED
      BY <2>3, <3>1
  <2> HIDE DEF P
  <2>6. P(L - b) /\ L - b \in DOMAIN name
    <3>1. L - b \in 1 .. Len(name)
      BY <1>1, <2>4
    <3>2. Spaces(SubSeq(name, L - b + 1, Len(name)))
      BY <1>1, <2>5, <3>1, SpacesFrom
    <3> QED
      BY <1>1, <2>4, <3>2 DEF P
  <2>7. PICK m \in DOMAIN name : P(m) /\ m = CHOOSE k \in DOMAIN name : P(k)
    BY <2>6
  <2>8. ~Spaces(name)
    BY <1>1, <1>3, <2>1 DEF Spaces
  <2>9. Stripped(name) = SubSeq(name, 1, m)
    BY <2>7, <2>8 DEF Stripped, P
  <2>10. m \in 1 .. Len(name) /\ name[m] # "sp"
         /\ \A k \in m + 1 .. Len(name) : name[k] = "sp"
    <3>1. m \in 1 .. Len(name)
      BY <1>1
    <3> QED
      BY <2>7, <3>1, SpacesFrom DEF P
  <2>11. EndsAt(name, m) /\ m \in 0 .. Len(name)
    BY <1>1, <1>3, <2>9, <2>10 DEF EndsAt
  <2> QED
    BY <2>11
<1> QED
  BY <1>2, <1>3
-----------------------------------------------------------------------------
(* The tokens' places.                                                     *)

\* The token's indices are where its text is.
RightPlace(t) ==
  /\ t.start \in Nat /\ t.end \in Int /\ t.start <= t.end + 1 /\ t.end < Len(Input)
  /\ SubSeq(Input, t.start + 1, t.end + 1) = t.text
  /\ t.text # <<>> => t.text[1] # "sp" /\ Last(t.text) # "sp"

\* The token that is closed is where its text is in the input, and what is
\* left of the name is spaces.
LEMMA CloseRight ==
    ASSUME source \in Sources, Placed(p), NEW t, Slots \subseteq DOMAIN t
    PROVE  LET u == UpdateTokenIndices(t) IN
           RightPlace(u) /\ u.start = p.start /\ Gap(u.end, p.start + Len(p.name))
<1> DEFINE u == UpdateTokenIndices(t)
           name == p.name
           text == Stripped(name)
<1>1. PICK L \in Nat, s \in Nat, I \in Nat : L = Len(name) /\ s = p.start /\ I = Len(Input)
  BY InputRead DEF Placed, Place
<1>2. /\ name \in Seq(Bytes) /\ Input \in Seq(Bytes) /\ s + L <= I
      /\ \A j \in 1 .. L : name[j] = Input[s + j]
      /\ name # <<>> => name[1] # "sp"
  BY <1>1, InputRead DEF Placed, Place
<1>3. PICK m \in 0 .. L : EndsAt(name, m)
  BY <1>1, <1>2, StrippedEnds
<1> HIDE DEF name
<1>4. /\ text = SubSeq(name, 1, m) /\ m <= L /\ m \in Nat
      /\ m > 0 => name[1] # "sp" /\ name[m] # "sp"
      /\ \A k \in m + 1 .. L : name[k] = "sp"
  BY <1>1, <1>3 DEF EndsAt
<1>5. /\ text \in Seq(Bytes) /\ Len(text) = m
      /\ \A j \in 1 .. m : text[j] = name[j]
  <2>1. \A j \in 1 .. m : name[j] \in Bytes
    BY <1>1, <1>2, <1>4
  <2>2. /\ SubSeq(name, 1, m) \in Seq(Bytes)
        /\ Len(SubSeq(name, 1, m)) = IF 1 <= m THEN m - 1 + 1 ELSE 0
        /\ \A j \in 1 .. m - 1 + 1 : SubSeq(name, 1, m)[j] = name[1 + j - 1]
    BY <1>4, <2>1, SubSeqProperties
  <2>3. Len(SubSeq(name, 1, m)) = m
    BY <1>4, <2>2
  <2>4. \A j \in 1 .. m : j \in 1 .. m - 1 + 1 /\ 1 + j - 1 = j
    BY <1>4
  <2> QED
    BY <1>4, <2>2, <2>3, <2>4
<1> HIDE DEF text
<1>6. /\ u.text = text /\ u.start = s /\ u.end = s + m - 1
  <2>1. /\ u.text = text /\ u.start = p.start
        /\ u.end = p.start + UnicodeSize(p.name) - (Len(p.name) - Len(Stripped(p.name))) - 1
    BY IndicesUpdated DEF text, name
  <2>2. u.end = s + L - (L - m) - 1
    BY <1>1, <1>5, <2>1 DEF UnicodeSize, text, name
  <2>3. s + L - (L - m) - 1 = s + m - 1
    BY <1>4
  <2> QED
    BY <1>1, <2>1, <2>2, <2>3
<1> HIDE DEF u
<1>7. /\ SubSeq(Input, s + 1, s + m) \in Seq(Bytes)
      /\ Len(SubSeq(Input, s + 1, s + m)) = m
      /\ \A j \in 1 .. m : SubSeq(Input, s + 1, s + m)[j] = Input[s + j]
  <2>1. \A j \in s + 1 .. s + m : j \in 1 .. I
    BY <1>2, <1>4
  <2>2. \A j \in s + 1 .. s + m : Input[j] \in Bytes
    BY <1>1, <1>2, <2>1
  <2>3. s + 1 \in Int /\ s + m \in Int
    BY <1>4
  <2>4. /\ SubSeq(Input, s + 1, s + m) \in Seq(Bytes)
        /\ Len(SubSeq(Input, s + 1, s + m)) = IF s + 1 <= s + m THEN s + m - (s + 1) + 1 ELSE 0
        /\ \A j \in 1 .. s + m - (s + 1) + 1 : SubSeq(Input, s + 1, s + m)[j] = Input[s + 1 + j - 1]
    BY <2>2, <2>3, SubSeqProperties
  <2>5. Len(SubSeq(Input, s + 1, s + m)) = m
    BY <1>4, <2>4
  <2>6. \A j \in 1 .. m : j \in 1 .. s + m - (s + 1) + 1 /\ s + 1 + j - 1 = s + j
    BY <1>4
  <2> QED
    BY <2>4, <2>5, <2>6
<1>8. SubSeq(Input, s + 1, s + m) = text
  <2>1. \A j \in 1 .. m : SubSeq(Input, s + 1, s + m)[j] = text[j]
    <3>1. \A j \in 1 .. m : j \in 1 .. L
      BY <1>4
    <3> QED
      BY <1>2, <1>5, <1>7, <3>1
  <2> QED
    BY <1>5, <1>7, <2>1, SeqEqual
<1>9. s + m - 1 + 1 = s + m /\ s + m - 1 \in Int /\ s <= s + m /\ s + m - 1 < I
  BY <1>2, <1>4
<1>10. ASSUME text # <<>> PROVE text[1] # "sp" /\ Last(text) # "sp"
  <2>1. m > 0
    BY <1>5, <1>10
  <2>2. 1 \in 1 .. m /\ m \in 1 .. m
    BY <1>4, <2>1
  <2> QED
    BY <1>4, <1>5, <2>1, <2>2 DEF Last
<1>11. RightPlace(u)
  <2>1. u.start \in Nat /\ u.end \in Int /\ u.start <= u.end + 1 /\ u.end < Len(Input)
    BY <1>1, <1>6, <1>9
  <2>2. SubSeq(Input, u.start + 1, u.end + 1) = u.text
    BY <1>6, <1>8, <1>9
  <2> QED
    BY <1>6, <1>10, <2>1, <2>2 DEF RightPlace
<1>12. Gap(s + m - 1, s + L)
  <2>1. s + m - 1 < s + L
    BY <1>4
  <2>2. ASSUME NEW j \in s + m - 1 + 2 .. s + L PROVE Input[j] = "sp"
    <3>1. j - s \in m + 1 .. L /\ j - s \in 1 .. L /\ s + (j - s) = j
      BY <1>4
    <3>2. name[j - s] = Input[s + (j - s)]
      BY <1>2, <3>1
    <3> QED
      BY <1>4, <3>1, <3>2
  <2> QED
    BY <2>1, <2>2 DEF Gap
<1>13. u.start = p.start /\ Gap(u.end, p.start + Len(p.name))
  BY <1>1, <1>6, <1>12 DEF name
<1> QED
  BY <1>11, <1>13 DEF u
-----------------------------------------------------------------------------
\* How many tokens are closed.
Complete == IF open = <<>> THEN Len(tokens) ELSE Len(tokens) - 1

\* The tokens from the n-th to the c-th have their places, one after the other, and
\* nothing but spaces is between them, nor between the last and s.
Row(T, n, c, s) ==
  \A k \in n .. c :
    /\ RightPlace(T[k])
    /\ k - 1 \in n .. c => Gap(T[k - 1].end, T[k].start)
    /\ k = c => Gap(T[k].end, s)

\* The inductive invariant for the places.
Positioned ==
  /\ Verbalized /\ source \in Sources
  /\ ~again => Placed(p) /\ Row(tokens, next, Complete, p.start)

\* A gap, and one that begins where it ends.
LEMMA GapGrows ==
    ASSUME NEW e \in Int, NEW r \in Int, NEW s \in Int, Gap(e, r), Gap(r - 1, s)
    PROVE  Gap(e, s)
<1>1. e < s
  BY DEF Gap
<1>2. ASSUME NEW j \in e + 2 .. s PROVE Input[j] = "sp"
  <2>1. j \in e + 2 .. r \/ j \in r - 1 + 2 .. s
    OBVIOUS
  <2> QED
    BY <2>1 DEF Gap
<1> QED
  BY <1>1, <1>2 DEF Gap

\* Tokens whose places are the same, and a parser that went on.
LEMMA RowKept ==
    ASSUME NEW T, NEW U, NEW n \in Nat, NEW c \in Int, NEW r \in Int, NEW s \in Int,
           Row(T, n, c, r), Gap(r - 1, s),
           \A k \in n .. c : /\ U[k].start = T[k].start /\ U[k].end = T[k].end
                             /\ U[k].text = T[k].text
    PROVE  Row(U, n, c, s)
<1> SUFFICES ASSUME NEW k \in n .. c
             PROVE  /\ RightPlace(U[k])
                    /\ k - 1 \in n .. c => Gap(U[k - 1].end, U[k].start)
                    /\ k = c => Gap(U[k].end, s)
  BY DEF Row
<1>1. RightPlace(T[k]) /\ RightPlace(U[k])
  BY DEF Row, RightPlace
<1>2. ASSUME k - 1 \in n .. c PROVE Gap(U[k - 1].end, U[k].start)
  BY <1>2 DEF Row
<1>3. ASSUME k = c PROVE Gap(U[k].end, s)
  <2>1. Gap(T[k].end, r) /\ T[k].end \in Int
    BY <1>1, <1>3 DEF Row, RightPlace
  <2> QED
    BY <2>1, GapGrows
<1> QED
  BY <1>1, <1>2, <1>3

\* A new token does not count until it is closed.
LEMMA RowOpened ==
    ASSUME Shape, source \in Sources, UNCHANGED source, Placed(p),
           Row(tokens, 1, Complete, p.start), OpensToken
    PROVE  Placed(p') /\ Row(tokens', 1, Complete', p'.start)
<1>1. Listed(tokens) /\ open = <<>> /\ open' # <<>> /\ tokens' = Append(tokens, NewToken)
  BY DEF OpensToken, Shape, Shaped
<1>2. PICK l \in Nat : l = Len(tokens) /\ Complete = l
  BY <1>1, ListedShape DEF Complete
<1>3. Len(tokens') = l + 1 /\ \A k \in 1 .. l : tokens'[k] = tokens[k]
  BY <1>1, <1>2, ListedAppend
<1>4. Complete' = l
  BY <1>1, <1>2, <1>3 DEF Complete
<1>5. Placed(p') /\ Gap(p.start - 1, p'.start)
  BY MovesPlaced DEF OpensToken
<1>6. p.start \in Int /\ p'.start \in Int
  BY <1>5 DEF Placed
<1>7. Row(tokens', 1, l, p'.start)
  <2>1. Row(tokens, 1, l, p.start)
    BY <1>2
  <2> QED
    <3>1. \A k \in 1 .. l : /\ tokens'[k].start = tokens[k].start
                            /\ tokens'[k].end = tokens[k].end
                            /\ tokens'[k].text = tokens[k].text
      BY <1>3
    <3>2. 1 \in Nat /\ l \in Int
      OBVIOUS
    <3> QED
      BY <1>5, <1>6, <2>1, <3>1, <3>2, RowKept
<1> QED
  BY <1>4, <1>5, <1>7

\* A step within a token leaves the row as it is.
LEMMA RowStays ==
    ASSUME Shape, source \in Sources, UNCHANGED source, Placed(p),
           Row(tokens, 1, Complete, p.start), KeepsTokens, ~again'
    PROVE  Placed(p') /\ Row(tokens', 1, Complete', p'.start)
<1>1. /\ Listed(tokens) /\ (open' # <<>> <=> open # <<>>) /\ Len(tokens') = Len(tokens)
      /\ \A k \in 1 .. Len(tokens) : \A f \in Slots : tokens'[k][f] = tokens[k][f]
  BY DEF KeepsTokens, Alike, Shape, Shaped
<1>2. PICK c \in Int : c = Complete /\ c <= Len(tokens) /\ Len(tokens) \in Nat
  <2>1. Len(tokens) \in Nat
    BY <1>1, ListedShape
  <2> QED
    BY <2>1 DEF Complete
<1>3. Complete' = c
  BY <1>1, <1>2 DEF Complete
<1>4. Placed(p') /\ Gap(p.start - 1, p'.start)
  BY MovesPlaced DEF KeepsTokens
<1>5. p.start \in Int /\ p'.start \in Int
  BY <1>4 DEF Placed
<1>6. \A k \in 1 .. c : /\ tokens'[k].start = tokens[k].start /\ tokens'[k].end = tokens[k].end
                        /\ tokens'[k].text = tokens[k].text
  <2>1. \A k \in 1 .. c : k \in 1 .. Len(tokens)
    BY <1>2
  <2>2. "start" \in Slots /\ "end" \in Slots /\ "text" \in Slots
    BY DEF Slots
  <2> QED
    BY <1>1, <2>1, <2>2
<1>7. Row(tokens', 1, c, p'.start)
  <2>1. Row(tokens, 1, c, p.start)
    BY <1>2
  <2> QED
    BY <1>4, <1>5, <1>6, <2>1, RowKept
<1> QED
  BY <1>3, <1>4, <1>7

\* The next token starts where the closed one's name ended.
LEMMA RowClosed ==
    ASSUME Shape, source \in Sources, UNCHANGED source, Placed(p),
           Row(tokens, 1, Complete, p.start), ClosesToken
    PROVE  Placed(p') /\ Row(tokens', 1, Complete', p'.start)
<1>1. /\ Shaped(tokens) /\ Listed(tokens) /\ tokens # <<>> /\ open # <<>> /\ open' = <<>>
      /\ Len(tokens') = Len(tokens)
      /\ \A k \in 1 .. Len(tokens) - 1 : tokens'[k] = tokens[k]
      /\ tokens'[Len(tokens)] = UpdateTokenIndices(tokens[Len(tokens)])
  BY TokenClosed DEF ClosesToken, Shape, Shaped
<1>2. PICK l \in Nat : l = Len(tokens) /\ l > 0
  BY <1>1, ListedShape
<1>3. Complete = l - 1 /\ Complete' = l
  BY <1>1, <1>2 DEF Complete
<1>4. PICK s \in Nat : s = p.start + Len(p.name) /\ s = Behind(p.state)
  BY DEF Placed, Place
<1>5. p' = [p EXCEPT !.name = <<>>, !.start = s]
  BY <1>4 DEF ClosesToken, NextPlace, UnicodeSize
<1>6. Placed(p') /\ p'.start = s
  <2>1. p \in Place /\ p.state \in 0 .. Len(path)
    BY DEF Placed
  <2>2. p' \in Place /\ p'.state = p.state /\ p'.start = s /\ p'.name = <<>>
    <3>1. <<>> \in Seq(Bytes) /\ s \in Int
      OBVIOUS
    <3> QED
      BY <1>5, <2>1, <3>1 DEF Place
  <2>3. Len(<<>>) = 0
    OBVIOUS
  <2> QED
    BY <1>4, <2>1, <2>2, <2>3 DEF Placed
<1>7. LET u == tokens'[l] IN RightPlace(u) /\ u.start = p.start /\ Gap(u.end, s)
  <2>1. l \in 1 .. Len(tokens)
    BY <1>2
  <2>2. Slots \subseteq DOMAIN tokens[l]
    BY <1>1, <2>1 DEF Shaped
  <2> QED
    BY <1>1, <1>2, <1>4, <2>2, CloseRight
<1>8. ASSUME NEW k \in 1 .. l
      PROVE  /\ RightPlace(tokens'[k])
             /\ k - 1 \in 1 .. l => Gap(tokens'[k - 1].end, tokens'[k].start)
             /\ k = l => Gap(tokens'[k].end, s)
  <2>1. \A j \in 1 .. l - 1 : tokens'[j] = tokens[j]
    BY <1>1, <1>2
  <2>2. Row(tokens, 1, l - 1, p.start)
    BY <1>3
  <2>3. CASE k = l
    <3>1. ASSUME k - 1 \in 1 .. l PROVE Gap(tokens'[k - 1].end, tokens'[k].start)
      <4>1. k - 1 \in 1 .. l - 1 /\ k - 1 = l - 1
        BY <2>3, <3>1
      <4>2. Gap(tokens[k - 1].end, p.start)
        BY <2>2, <4>1 DEF Row
      <4> QED
        BY <1>7, <2>1, <2>3, <4>1, <4>2
    <3> QED
      BY <1>7, <2>3, <3>1
  <2>4. CASE k # l
    <3>1. k \in 1 .. l - 1
      BY <2>4
    <3>2. RightPlace(tokens[k]) /\ (k - 1 \in 1 .. l - 1 => Gap(tokens[k - 1].end, tokens[k].start))
      BY <2>2, <3>1 DEF Row
    <3>3. k - 1 \in 1 .. l => k - 1 \in 1 .. l - 1
      BY <3>1
    <3> QED
      BY <2>1, <2>4, <3>1, <3>2, <3>3
  <2> QED
    BY <2>3, <2>4
<1>9. Row(tokens', 1, l, s)
  BY <1>8 DEF Row
<1> QED
  BY <1>3, <1>6, <1>9

\* The path does not change: what is said of the next place is said next.
LEMMA SamePath ==
    ASSUME UNCHANGED source, Placed(p'), Row(tokens', next', Complete', p'.start)
    PROVE  (Placed(p) /\ Row(tokens, next, Complete, p.start))'
<1>1. path' = path /\ Input' = Input /\ \A s : (Behind(s))' = Behind(s)
  BY DEF path, Input, Behind
<1>2. Placed(p)'
  BY <1>1 DEF Placed
<1>3. Row(tokens, next, Complete, p.start)'
  BY <1>1 DEF Row, RightPlace, Gap
<1> QED
  BY <1>2, <1>3

\* A turn leaves the tokens behind it as they are.
LEMMA RowTurns ==
    ASSUME Verbalized, VerbalizeUtt, Placed(p), Row(tokens, next, Complete, p.start)
    PROVE  Placed(p') /\ Row(tokens', next', Complete', p'.start)
<1>1. /\ UNCHANGED <<source, p, pc, open, label, value, quote, again>> /\ next' = next + 1
      /\ Len(tokens') = Len(tokens)
      /\ \A k \in 1 .. Len(tokens) : k # next => tokens'[k] = tokens[k]
  BY VerbalizeKeepsShape, VerbalizeTurn DEF Verbalized
<1>2. Len(tokens) \in Nat /\ next \in 1 .. Len(tokens) + 1
  BY ListedShape DEF Verbalized, Daughters, Shaped
<1>3. PICK n \in Nat, c \in Int : n = next /\ c = Complete /\ n > 0 /\ c <= Len(tokens)
  <2>1. Complete \in Int /\ Complete <= Len(tokens)
    BY <1>2 DEF Complete
  <2>2. next \in Nat /\ next > 0
    BY <1>2
  <2> QED
    BY <2>1, <2>2
<1>4. Complete' = c /\ next' = n + 1
  BY <1>1, <1>3 DEF Complete
<1>5. ASSUME NEW k \in n + 1 .. c
      PROVE  /\ RightPlace(tokens'[k])
             /\ k - 1 \in n + 1 .. c => Gap(tokens'[k - 1].end, tokens'[k].start)
             /\ k = c => Gap(tokens'[k].end, p.start)
  <2>1. \A j \in n + 1 .. c : tokens'[j] = tokens[j]
    <3>1. \A j \in n + 1 .. c : j \in 1 .. Len(tokens) /\ j # n
      BY <1>2, <1>3
    <3> QED
      BY <1>1, <1>3, <3>1
  <2>2. k \in n .. c /\ (k - 1 \in n + 1 .. c => k - 1 \in n .. c)
    BY <1>3
  <2>3. /\ RightPlace(tokens[k])
        /\ k - 1 \in n .. c => Gap(tokens[k - 1].end, tokens[k].start)
        /\ k = c => Gap(tokens[k].end, p.start)
    BY <1>3, <2>2 DEF Row
  <2> QED
    BY <2>1, <2>2, <2>3
<1>6. Row(tokens', n + 1, c, p.start)
  BY <1>5 DEF Row
<1> QED
  BY <1>1, <1>4, <1>6

\* Every step of the normalizer keeps the invariant.
LEMMA PositionedKept == Positioned /\ [Normalize]_normalizer => Positioned'
<1> SUFFICES ASSUME Positioned, [Normalize]_normalizer PROVE Positioned'
  OBVIOUS
<1>1. Verbalized /\ Verbalized' /\ source \in Sources /\ Shape
  BY VerbalizedKept DEF Positioned, Verbalized
<1>2. ASSUME UNCHANGED source,
             ~again' => ~again /\ Placed(p') /\ Row(tokens', next', Complete', p'.start)
      PROVE  Positioned'
  <2>1. source' \in Sources
    BY <1>1, <1>2
  <2>2. ~again' => (Placed(p) /\ Row(tokens, next, Complete, p.start))'
    BY <1>2, SamePath
  <2> QED
    BY <1>1, <2>1, <2>2 DEF Positioned
<1>3. CASE Parse /\ UNCHANGED <<words, next>>
  <2>1. Parse /\ next = 1 /\ next' = 1
    BY <1>1, <1>3, ParsedOnce DEF Verbalized
  <2>2. /\ OpensToken \/ ClosesToken \/ KeepsTokens
        /\ UNCHANGED source /\ again' = (again \/ SecondReading)
    BY <1>1, <2>1, ParseStep
  <2>3. ASSUME ~again'
        PROVE  ~again /\ Placed(p') /\ Row(tokens', next', Complete', p'.start)
    <3>1. ~again
      BY <2>2, <2>3
    <3>2. Placed(p) /\ Row(tokens, 1, Complete, p.start)
      BY <2>1, <3>1 DEF Positioned
    <3>3. CASE OpensToken
      BY <1>1, <2>1, <2>2, <3>1, <3>2, <3>3, RowOpened
    <3>4. CASE ClosesToken
      BY <1>1, <2>1, <2>2, <3>1, <3>2, <3>4, RowClosed
    <3>5. CASE KeepsTokens
      BY <1>1, <2>1, <2>2, <2>3, <3>1, <3>2, <3>5, RowStays
    <3> QED
      BY <2>2, <3>3, <3>4, <3>5
  <2> QED
    BY <1>2, <2>2, <2>3
<1>4. CASE VerbalizeUtt
  <2>1. UNCHANGED <<source, again>>
    BY <1>4 DEF VerbalizeUtt
  <2>2. ~again => Placed(p') /\ Row(tokens', next', Complete', p'.start)
    BY <1>1, <1>4, RowTurns DEF Positioned
  <2> QED
    BY <1>2, <2>1, <2>2
<1>5. CASE UNCHANGED normalizer \/ (RulesFail /\ UNCHANGED <<words, next>>)
  <2>1. UNCHANGED <<source, p, open, tokens, next, again>>
    BY <1>5 DEF normalizer, parser, RulesFail
  <2>2. Complete' = Complete
    BY <2>1 DEF Complete
  <2> QED
    BY <1>2, <2>1, <2>2 DEF Positioned
<1> QED
  BY <1>3, <1>4, <1>5 DEF Normalize, TokenizeAndClassifyUtt

\* The invariant holds in the beginning.
LEMMA StartPositioned == Start => Positioned
<1> SUFFICES ASSUME Start PROVE Positioned
  OBVIOUS
<1>1. /\ tokens = <<>> /\ open = <<>> /\ next = 1 /\ source \in Sources
      /\ p = [state |-> 0, last |-> 0, i |-> "eps", name |-> <<>>, start |-> 0]
  BY StartShape
<1>2. Verbalized
  BY StartVerbalized
<1>3. Placed(p)
  <2>1. path \in Seq(ArcSet)
    BY <1>1, SourceAssumption DEF path, ArcSet
  <2>2. 0 \in 0 .. Len(path)
    BY <2>1
  <2>3. Behind(0) = 0
    BY <1>1, <2>2, InputRead
  <2>4. <<>> \in Seq(Bytes) /\ Len(<<>>) = 0
    OBVIOUS
  <2>5. p \in Place
    BY <1>1, <2>4 DEF Place
  <2> QED
    BY <1>1, <2>2, <2>3, <2>4, <2>5 DEF Placed
<1>4. Row(tokens, next, Complete, p.start)
  <2>1. Complete = 0
    BY <1>1, ShapedEmpty DEF Complete
  <2> QED
    BY <1>1, <2>1 DEF Row
<1> QED
  BY <1>1, <1>2, <1>3, <1>4 DEF Positioned

\* Where nothing is between two bytes but spaces, the stretch of the input is.
LEMMA SpacesBetween ==
    ASSUME NEW e \in Int, NEW s \in Int, Gap(e, s)
    PROVE  e < s /\ Spaces(SubSeq(Input, e + 2, s))
<1> DEFINE t == SubSeq(Input, e + 2, s)
<1>1. \A j \in e + 2 .. s : Input[j] \in {"sp"}
  BY DEF Gap
<1>2. t \in Seq({"sp"})
  BY <1>1, SubSeqProperties
<1> HIDE DEF t
<1>3. Spaces(t)
  BY <1>2 DEF Spaces
<1> QED
  BY <1>3 DEF Gap, t

\* The row says what PositionsRight asks of each closed token.
LEMMA RowEnough == Positioned => PositionsRight
<1> SUFFICES ASSUME Positioned, ~again, NEW k \in Closed
             PROVE  LET t == tokens[k] IN
                    /\ 0 <= t.start /\ t.end < Len(Input)
                    /\ SubSeq(Input, t.start + 1, t.end + 1) = t.text
                    /\ t.text # <<>> => t.text[1] # "sp" /\ Last(t.text) # "sp"
                    /\ k - 1 \in Closed => /\ tokens[k - 1].end < t.start
                                           /\ Spaces(SubSeq(Input, tokens[k - 1].end + 2, t.start))
  BY DEF PositionsRight
<1>1. Len(tokens) \in Nat /\ next \in 1 .. Len(tokens) + 1
  BY ListedShape DEF Positioned, Verbalized, Daughters, Shaped
<1>2. Closed = next .. Complete
  <2>1. CASE open = <<>>
    BY <1>1, <2>1 DEF Closed, Complete
  <2>2. CASE open # <<>>
    BY <1>1, <2>2 DEF Closed, Complete
  <2> QED
    BY <2>1, <2>2
<1>3. \A j \in Closed : RightPlace(tokens[j])
  BY <1>2 DEF Positioned, Row
<1>4. ASSUME k - 1 \in Closed
      PROVE  /\ tokens[k - 1].end < tokens[k].start
             /\ Spaces(SubSeq(Input, tokens[k - 1].end + 2, tokens[k].start))
  <2>1. Gap(tokens[k - 1].end, tokens[k].start)
    BY <1>2, <1>4 DEF Positioned, Row
  <2>2. tokens[k - 1].end \in Int /\ tokens[k].start \in Int
    BY <1>3, <1>4 DEF RightPlace
  <2> QED
    BY <2>1, <2>2, SpacesBetween
<1>5. 0 <= tokens[k].start
  BY <1>3 DEF RightPlace
<1> QED
  BY <1>3, <1>4, <1>5 DEF RightPlace

\* Wherever along the path the input is, and whatever the grammar spelled: the
\* indices of each token that is closed and has not been verbalized are the place of its
\* text, and only spaces are between one and the next.
THEOREM PositionsAreRight == Spec => []PositionsRight
<1>1. Start0 => Positioned
  BY StartPositioned, UttNormalizes
<1>2. Positioned /\ [Next]_vars => Positioned'
  BY PositionedKept, UttNormalizes
<1> QED
  BY <1>1, <1>2, RowEnough, PTL DEF Spec
-----------------------------------------------------------------------------
(* The listing from each line on, and what it has at its beginning.        *)

\* What is listed from each line on when t follows the n lines l, from the a-th on.
Lists(f, l, n, t, a) ==
  f = [k \in a .. n + 1 |-> IF k > n THEN t ELSE l[k] \o f[k + 1]]

\* There is such a listing: no line is the last for which there is none.
LEMMA ListsExist ==
    ASSUME NEW n \in Nat, NEW l, NEW t
    PROVE  \E f : Lists(f, l, n, t, 1)
<1> DEFINE B == {m \in 0 .. n : ~ \E f : Lists(f, l, n, t, n + 1 - m)}
<1> SUFFICES ASSUME ~ \E f : Lists(f, l, n, t, 1) PROVE FALSE
  OBVIOUS
<1>1. B \subseteq 0 .. n /\ B # {}
  <2>1. n \in 0 .. n /\ n + 1 - n = 1
    OBVIOUS
  <2> QED
    BY <2>1
<1>2. PICK m \in B : \A k \in B : m <= k
  BY <1>1, LeastNumber
<1>3. m \in 0 .. n /\ ~ \E f : Lists(f, l, n, t, n + 1 - m)
  BY <1>2
<1>4. CASE m = 0
  <2> DEFINE f == [k \in n + 1 .. n + 1 |-> t]
  <2>1. \A k \in n + 1 .. n + 1 : k > n
    OBVIOUS
  <2>2. f = [k \in n + 1 .. n + 1 |-> IF k > n THEN t ELSE l[k] \o f[k + 1]]
    BY <2>1
  <2>3. n + 1 - m = n + 1
    BY <1>4
  <2> QED
    BY <1>3, <2>2, <2>3 DEF Lists
<1>5. CASE m # 0
  <2>1. m - 1 \in 0 .. n /\ ~(m <= m - 1)
    BY <1>3, <1>5
  <2>2. m - 1 \notin B
    BY <1>2, <2>1
  <2>3. PICK a \in Nat : a = n + 1 - m /\ a \in 1 .. n /\ n + 1 - (m - 1) = a + 1
    BY <1>3, <2>1
  <2>4. PICK f : Lists(f, l, n, t, a + 1)
    BY <2>1, <2>2, <2>3
  <2> DEFINE g == [k \in a .. n + 1 |-> IF k = a THEN l[a] \o f[a + 1] ELSE f[k]]
             h == [k \in a .. n + 1 |-> IF k > n THEN t ELSE l[k] \o g[k + 1]]
  <2>5. ASSUME NEW k \in a .. n + 1 PROVE g[k] = h[k]
    <3>1. CASE k = a
      <4>1. a + 1 \in a .. n + 1 /\ a + 1 # a /\ ~(a > n)
        BY <2>3
      <4> QED
        BY <3>1, <4>1
    <3>2. CASE k # a
      <4>1. k \in a + 1 .. n + 1 /\ k + 1 # a
        BY <2>3, <3>2
      <4>2. f[k] = IF k > n THEN t ELSE l[k] \o f[k + 1]
        BY <2>4, <4>1 DEF Lists
      <4>3. ~(k > n) => k + 1 \in a .. n + 1
        BY <2>3
      <4> QED
        BY <3>2, <4>1, <4>2, <4>3
    <3> QED
      BY <3>1, <3>2
  <2>6. g = h
    BY <2>5
  <2>7. Lists(g, l, n, t, a)
    <3>1. g = [k \in a .. n + 1 |-> IF k > n THEN t ELSE l[k] \o g[k + 1]]
      BY <2>6
    <3> HIDE DEF g
    <3> QED
      BY <3>1 DEF Lists
  <2> QED
    BY <1>3, <2>3, <2>7
<1> QED
  BY <1>4, <1>5

\* A listing of sequences is a sequence from each line on.
LEMMA ListsListed ==
    ASSUME NEW n \in Nat, NEW l, NEW t, NEW f, Lists(f, l, n, t, 1),
           Listed(t), \A k \in 1 .. n : Listed(l[k])
    PROVE  /\ f[n + 1] = t
           /\ \A k \in 1 .. n : f[k] = l[k] \o f[k + 1]
           /\ \A k \in 1 .. n + 1 : Listed(f[k])
<1> DEFINE B == {m \in 0 .. n : ~Listed(f[n + 1 - m])}
<1>1. \A k \in 1 .. n + 1 : f[k] = IF k > n THEN t ELSE l[k] \o f[k + 1]
  BY DEF Lists
<1>2. f[n + 1] = t
  <2>1. n + 1 \in 1 .. n + 1 /\ n + 1 > n
    OBVIOUS
  <2> QED
    BY <1>1, <2>1
<1>3. ASSUME NEW k \in 1 .. n PROVE f[k] = l[k] \o f[k + 1]
  <2>1. k \in 1 .. n + 1 /\ ~(k > n)
    OBVIOUS
  <2> QED
    BY <1>1, <2>1
<1>4. B = {}
  <2> SUFFICES ASSUME B # {} PROVE FALSE
    OBVIOUS
  <2>1. PICK m \in B : \A k \in B : m <= k
    <3>1. B \subseteq 0 .. n
      OBVIOUS
    <3> QED
      BY <3>1, LeastNumber
  <2>2. m \in 0 .. n /\ ~Listed(f[n + 1 - m])
    BY <2>1
  <2>3. m # 0
    <3>1. n + 1 - 0 = n + 1
      OBVIOUS
    <3> QED
      BY <1>2, <2>2, <3>1
  <2>4. m - 1 \in 0 .. n /\ ~(m <= m - 1)
    BY <2>2, <2>3
  <2>5. PICK a \in Nat : a = n + 1 - m /\ a \in 1 .. n /\ n + 1 - (m - 1) = a + 1
    BY <2>2, <2>4
  <2>6. Listed(f[a + 1])
    BY <2>1, <2>4, <2>5
  <2>7. Listed(l[a] \o f[a + 1])
    BY <2>5, <2>6, ListedConcat
  <2> QED
    BY <1>3, <2>2, <2>5, <2>7
<1>5. ASSUME NEW k \in 1 .. n + 1 PROVE Listed(f[k])
  <2>1. n + 1 - k \in 0 .. n /\ n + 1 - (n + 1 - k) = k
    OBVIOUS
  <2> QED
    BY <1>4, <2>1
<1> QED
  BY <1>2, <1>3, <1>5

\* A sequence is what it has at each of its places.
LEMMA ListedIs ==
    ASSUME NEW s, Listed(s)
    PROVE  s = [k \in 1 .. Len(s) |-> s[k]]
<1>1. s \in Seq({s[k] : k \in DOMAIN s})
  BY DEF Listed
<1> HIDE DEF Listed
<1> QED
  BY <1>1

\* A stretch of a sequence.
LEMMA ListedStretch ==
    ASSUME NEW u, Listed(u), NEW c \in Int, NEW d \in Int, 1 <= c, d <= Len(u)
    PROVE  /\ Listed(SubSeq(u, c, d)) /\ Len(SubSeq(u, c, d)) = IF c <= d THEN d - c + 1 ELSE 0
           /\ \A k \in 1 .. d - c + 1 : SubSeq(u, c, d)[k] = u[c + k - 1]
<1>1. DOMAIN u = 1 .. Len(u) /\ Len(u) \in Nat
  BY ListedShape
<1>2. \A k \in c .. d : u[k] \in {u[j] : j \in DOMAIN u}
  BY <1>1
<1>3. /\ SubSeq(u, c, d) \in Seq({u[j] : j \in DOMAIN u})
      /\ Len(SubSeq(u, c, d)) = IF c <= d THEN d - c + 1 ELSE 0
      /\ \A k \in 1 .. d - c + 1 : SubSeq(u, c, d)[k] = u[c + k - 1]
  BY <1>2, SubSeqProperties
<1> QED
  BY <1>3, ListedSeq

\* What comes after the first a fields of a sequence.
LEMMA ListedRest ==
    ASSUME NEW u, Listed(u), NEW t, Listed(t), NEW a \in Nat, Len(u) = a + Len(t),
           \A k \in 1 .. Len(t) : u[a + k] = t[k]
    PROVE  SubSeq(u, a + 1, Len(u)) = t
<1>1. PICK b \in Nat : b = Len(t)
  BY ListedShape
<1>2. PICK c \in Int, d \in Int : c = a + 1 /\ d = Len(u) /\ d = a + b
  BY <1>1
<1>3. 1 <= c /\ d <= Len(u)
  BY <1>2
<1>4. PICK r : r = SubSeq(u, c, d)
  OBVIOUS
<1>5. /\ Listed(r) /\ Len(r) = IF c <= d THEN d - c + 1 ELSE 0
      /\ \A k \in 1 .. d - c + 1 : r[k] = u[c + k - 1]
  <2>1. /\ Listed(SubSeq(u, c, d)) /\ Len(SubSeq(u, c, d)) = IF c <= d THEN d - c + 1 ELSE 0
        /\ \A k \in 1 .. d - c + 1 : SubSeq(u, c, d)[k] = u[c + k - 1]
    BY <1>3, ListedStretch
  <2> QED
    BY <1>4, <2>1
<1>6. Len(r) = b /\ \A k \in 1 .. b : r[k] = u[a + k]
  <2>1. d - c + 1 = b /\ \A k \in 1 .. b : c + k - 1 = a + k
    BY <1>2
  <2>2. IF c <= d THEN TRUE ELSE b = 0
    BY <1>2
  <2> QED
    BY <1>5, <2>1, <2>2
<1>7. r = [k \in 1 .. b |-> r[k]] /\ t = [k \in 1 .. b |-> t[k]]
  BY <1>1, <1>5, <1>6, ListedIs
<1>8. \A k \in 1 .. b : r[k] = t[k]
  BY <1>1, <1>6
<1> QED
  BY <1>2, <1>4, <1>7, <1>8

\* A sequence of two.
LEMMA ListedTwo ==
    ASSUME NEW a, NEW b
    PROVE  Listed(<<a, b>>) /\ Len(<<a, b>>) = 2 /\ <<a, b>>[1] = a /\ <<a, b>>[2] = b
<1>1. <<a, b>> \in Seq({a, b})
  OBVIOUS
<1> QED
  BY <1>1, ListedSeq

\* A line of two fields, a third that may be empty, and what comes after it.
LineOf(a, b, n, r) == <<a, b>> \o n \o r

HasFields(s, a, b, n, r) ==
  /\ Listed(s) /\ s[1] = a /\ s[2] = b
  /\ n = <<>> => Len(s) = Len(r) + 2 /\ \A k \in 1 .. Len(r) : s[2 + k] = r[k]
  /\ \A e : n = <<e>> => /\ Len(s) = Len(r) + 3 /\ s[3] = e
                        /\ \A k \in 1 .. Len(r) : s[3 + k] = r[k]

\* u has the elements of s and then those of t.
Joined(u, s, t) ==
  /\ Listed(u) /\ Len(u) = Len(s) + Len(t)
  /\ \A k \in 1 .. Len(s) : u[k] = s[k]
  /\ \A k \in 1 .. Len(t) : u[Len(s) + k] = t[k]

\* So does s \o t.
LEMMA ConcatJoins ==
    ASSUME NEW s, Listed(s), NEW t, Listed(t)
    PROVE  Joined(s \o t, s, t)
BY ListedConcat DEF Joined

\* The elements of a line of two fields, a third that may be empty, and the rest.
LEMMA TwoJoined ==
    ASSUME NEW s, NEW q, NEW x, NEW n, NEW r, Listed(x), Len(x) = 2, Listed(n), Listed(r),
           Joined(q, x, n), Joined(s, q, r)
    PROVE  /\ Listed(s) /\ Len(s) = 2 + Len(n) + Len(r) /\ s[1] = x[1] /\ s[2] = x[2]
           /\ \A k \in 1 .. Len(n) : s[2 + k] = n[k]
           /\ \A k \in 1 .. Len(r) : s[2 + Len(n) + k] = r[k]
<1>1. /\ Listed(q) /\ Len(q) = 2 + Len(n)
      /\ \A k \in 1 .. 2 : q[k] = x[k]
      /\ \A k \in 1 .. Len(n) : q[2 + k] = n[k]
  BY DEF Joined
<1>2. /\ Listed(s) /\ Len(s) = 2 + Len(n) + Len(r)
      /\ \A k \in 1 .. 2 + Len(n) : s[k] = q[k]
      /\ \A k \in 1 .. Len(r) : s[2 + Len(n) + k] = r[k]
  BY <1>1 DEF Joined
<1>3. Len(n) \in Nat /\ Len(r) \in Nat
  BY ListedShape
<1>4. /\ 1 \in 1 .. 2 + Len(n) /\ 2 \in 1 .. 2 + Len(n)
      /\ \A k \in 1 .. Len(n) : 2 + k \in 1 .. 2 + Len(n)
  BY <1>3
<1> QED
  BY <1>1, <1>2, <1>4

\* The same for LineOf: without a third field the rest comes one field earlier.
LEMMA LineOfFields ==
    ASSUME NEW a, NEW b, NEW n, n = <<>> \/ \E e : n = <<e>>, NEW r, Listed(r)
    PROVE  HasFields(LineOf(a, b, n, r), a, b, n, r)
<1> DEFINE s == LineOf(a, b, n, r)
<1>1. Listed(n) /\ (n = <<>> => Len(n) = 0) /\ \A e : n = <<e>> => Len(n) = 1 /\ n[1] = e
  BY ShapedEmpty, ListedOne DEF Shaped
<1>2. Listed(<<a, b>>) /\ Len(<<a, b>>) = 2 /\ <<a, b>>[1] = a /\ <<a, b>>[2] = b
  BY ListedTwo
<1>3. Joined(<<a, b>> \o n, <<a, b>>, n) /\ Listed(<<a, b>> \o n)
  <2>1. Joined(<<a, b>> \o n, <<a, b>>, n)
    BY <1>1, <1>2, ConcatJoins
  <2> QED
    BY <2>1 DEF Joined
<1>4. Joined(s, <<a, b>> \o n, r)
  BY <1>3, ConcatJoins DEF LineOf
<1> HIDE DEF s
<1>6. /\ Listed(s) /\ Len(s) = 2 + Len(n) + Len(r) /\ s[1] = a /\ s[2] = b
      /\ \A k \in 1 .. Len(n) : s[2 + k] = n[k]
      /\ \A k \in 1 .. Len(r) : s[2 + Len(n) + k] = r[k]
  <2>1. PICK x, q : /\ x = <<a, b>> /\ Listed(x) /\ Len(x) = 2 /\ x[1] = a /\ x[2] = b
                    /\ Joined(q, x, n) /\ Joined(s, q, r)
    BY <1>2, <1>3, <1>4
  <2>2. Listed(n)
    BY <1>1
  <2>3. /\ Listed(s) /\ Len(s) = 2 + Len(n) + Len(r) /\ s[1] = x[1] /\ s[2] = x[2]
        /\ \A k \in 1 .. Len(n) : s[2 + k] = n[k]
        /\ \A k \in 1 .. Len(r) : s[2 + Len(n) + k] = r[k]
    BY <2>1, <2>2, TwoJoined
  <2> QED
    BY <2>1, <2>3
<1>5. Len(n) \in Nat /\ Len(r) \in Nat
  BY <1>1, ListedShape
<1>7. ASSUME n = <<>>
      PROVE  Len(s) = Len(r) + 2 /\ \A k \in 1 .. Len(r) : s[2 + k] = r[k]
  <2>1. Len(n) = 0
    BY <1>1, <1>7
  <2> QED
    BY <1>5, <1>6, <2>1
<1>8. ASSUME NEW e, n = <<e>>
      PROVE  Len(s) = Len(r) + 3 /\ s[3] = e /\ \A k \in 1 .. Len(r) : s[3 + k] = r[k]
  <2>1. Len(n) = 1 /\ n[1] = e /\ 1 \in 1 .. 1
    BY <1>1, <1>8
  <2>2. s[2 + 1] = e
    BY <1>6, <2>1
  <2>3. Len(s) = Len(r) + 3 /\ 2 + 1 = 3
    BY <1>5, <1>6, <2>1
  <2>4. ASSUME NEW k \in 1 .. Len(r) PROVE s[3 + k] = r[k]
    <3>1. 2 + Len(n) + k = 3 + k
      BY <1>5, <2>1
    <3> QED
      BY <1>6, <3>1
  <2> QED
    BY <2>2, <2>3, <2>4
<1> QED
  BY <1>6, <1>7, <1>8 DEF HasFields, s

\* The fields of a line of ShowLinks.
At(h, k)    == Field("indices", <<h.tokens[k].start, h.tokens[k].end>>)
Words(h, k) == Field("indices", <<Daughter(h.tokens[k].first), Daughter(h.tokens[k].last)>>)
NameOf(h, k) == h.tokens[k].name[1]
Punct(h, k)  == NameOf(h, k) \in sparrowhawk_punc

\* A token without a name is a field short.
LEMMA TokenLineIs ==
    ASSUME NEW h, NEW k
    PROVE  LET l == TokenLine(h, k) IN
           /\ Listed(l) /\ l[1] = Mark("Token:") /\ l[2] = Field("number", k - 1)
           /\ IF NameOf(h, k) = <<>> THEN Len(l) = 4 /\ l[3] = At(h, k) /\ l[4] = Words(h, k)
              ELSE /\ Len(l) = 5 /\ l[3] = Field("name", NameOf(h, k))
                   /\ l[4] = At(h, k) /\ l[5] = Words(h, k)
<1> DEFINE n == Text(NameOf(h, k))
           r == <<At(h, k), Words(h, k)>>
           l == TokenLine(h, k)
<1>1. l = LineOf(Mark("Token:"), Field("number", k - 1), n, r)
  BY DEF LineOf, TokenLine, At, Words, NameOf
<1>2. IF NameOf(h, k) = <<>> THEN n = <<>> ELSE n = <<Field("name", NameOf(h, k))>>
  BY DEF Text
<1>3. Listed(r) /\ Len(r) = 2 /\ r # <<>> /\ r[1] = At(h, k) /\ r[2] = Words(h, k)
  <2>1. r # <<>>
    OBVIOUS
  <2> QED
    BY <2>1, ListedTwo
<1> HIDE DEF n, r, l
<1>4. n = <<>> \/ \E e : n = <<e>>
  BY <1>2
<1>5. /\ Listed(l) /\ l[1] = Mark("Token:") /\ l[2] = Field("number", k - 1)
      /\ n = <<>> => /\ Len(l) = Len(r) + 2
                    /\ \A j \in 1 .. Len(r) : l[2 + j] = r[j]
      /\ \A e : n = <<e>> => /\ Len(l) = Len(r) + 3 /\ l[3] = e
                            /\ \A j \in 1 .. Len(r) : l[3 + j] = r[j]
  <2>1. HasFields(l, Mark("Token:"), Field("number", k - 1), n, r)
    BY <1>1, <1>3, <1>4, LineOfFields
  <2> QED
    BY <2>1 DEF HasFields
<1>6. 1 \in 1 .. 2 /\ 2 \in 1 .. 2
  OBVIOUS
<1>7. CASE NameOf(h, k) = <<>>
  <2>1. Len(l) = Len(r) + 2 /\ l[2 + 1] = r[1] /\ l[2 + 2] = r[2]
    BY <1>2, <1>3, <1>5, <1>6, <1>7
  <2>2. 2 + 1 = 3 /\ 2 + 2 = 4
    OBVIOUS
  <2> QED
    BY <1>3, <1>5, <1>7, <2>1, <2>2 DEF l
<1>8. CASE NameOf(h, k) # <<>>
  <2>1. Len(l) = Len(r) + 3 /\ l[3] = Field("name", NameOf(h, k)) /\ l[3 + 1] = r[1] /\ l[3 + 2] = r[2]
    BY <1>2, <1>3, <1>5, <1>6, <1>8
  <2>2. 3 + 1 = 4 /\ 3 + 2 = 5
    OBVIOUS
  <2> QED
    BY <1>3, <1>5, <1>8, <2>1, <2>2 DEF l
<1> QED
  BY <1>7, <1>8

\* A word without a spelling is a field short.
LEMMA WordLineIs ==
    ASSUME NEW h, NEW w
    PROVE  LET l == WordLine(h, w)
               v == h.words[w].spelling
           IN  /\ Listed(l) /\ l[1] = Mark("Word:") /\ Len(l) >= 3 /\ Len(l) \in Nat
               /\ v # <<>> => /\ Len(l) = 4 /\ l[3] = Field("name", v)
                             /\ l[4] = Field("number", h.words[w].parent)
<1> DEFINE v == h.words[w].spelling
           n == Text(v)
           r == <<Field("number", h.words[w].parent)>>
           l == WordLine(h, w)
<1>1. l = LineOf(Mark("Word:"), Field("number", w - 1), n, r)
  BY DEF LineOf, WordLine
<1>2. IF v = <<>> THEN n = <<>> ELSE n = <<Field("name", v)>>
  BY DEF Text
<1>3. Listed(r) /\ Len(r) = 1 /\ r # <<>> /\ r[1] = Field("number", h.words[w].parent)
  <2>1. r # <<>>
    OBVIOUS
  <2> QED
    BY <2>1, ListedOne
<1> HIDE DEF n, r, l, v
<1>4. n = <<>> \/ \E e : n = <<e>>
  BY <1>2
<1>5. /\ Listed(l) /\ l[1] = Mark("Word:")
      /\ n = <<>> => /\ Len(l) = Len(r) + 2
                    /\ \A j \in 1 .. Len(r) : l[2 + j] = r[j]
      /\ \A e : n = <<e>> => /\ Len(l) = Len(r) + 3 /\ l[3] = e
                            /\ \A j \in 1 .. Len(r) : l[3 + j] = r[j]
  <2>1. HasFields(l, Mark("Word:"), Field("number", w - 1), n, r)
    BY <1>1, <1>3, <1>4, LineOfFields
  <2> QED
    BY <2>1 DEF HasFields
<1>6. 1 \in 1 .. 1
  OBVIOUS
<1>7. CASE v = <<>>
  <2>1. Len(l) = 3
    BY <1>2, <1>3, <1>5, <1>7
  <2> QED
    BY <1>5, <1>7, <2>1 DEF l, v
<1>8. CASE v # <<>>
  <2>1. Len(l) = Len(r) + 3 /\ l[3] = Field("name", v) /\ l[3 + 1] = r[1]
    BY <1>2, <1>3, <1>5, <1>6, <1>8
  <2>2. 3 + 1 = 4 /\ Len(l) = 4
    BY <1>3, <2>1
  <2> QED
    BY <1>3, <1>5, <1>8, <2>1, <2>2 DEF l, v
<1> QED
  BY <1>7, <1>8

\* The listing from each word on.
LEMMA WordLinesAre ==
    ASSUME NEW h, Listed(h.words)
    PROVE  /\ WordLines(h)[Len(h.words) + 1] = <<>>
           /\ \A w \in 1 .. Len(h.words) : WordLines(h)[w] = WordLine(h, w) \o WordLines(h)[w + 1]
           /\ \A w \in 1 .. Len(h.words) + 1 : Listed(WordLines(h)[w])
<1>1. PICK n \in Nat : n = Len(h.words)
  BY ListedShape
<1> DEFINE l == [w \in 1 .. n |-> WordLine(h, w)]
           R(f) == [w \in 1 .. n + 1 |->
                      IF w > n THEN <<>> ELSE WordLine(h, w) \o f[w + 1]]
<1>2. \A w \in 1 .. n : Listed(l[w]) /\ l[w] = WordLine(h, w)
  BY WordLineIs
<1>3. Listed(<<>>)
  BY ShapedEmpty DEF Shaped
<1>4. ASSUME NEW f PROVE f = R(f) <=> Lists(f, l, n, <<>>, 1)
  <2>1. R(f) = [w \in 1 .. n + 1 |-> IF w > n THEN <<>> ELSE l[w] \o f[w + 1]]
    <3>1. \A w \in 1 .. n + 1 : w > n \/ l[w] = WordLine(h, w)
      BY <1>2
    <3> HIDE DEF l
    <3> QED
      BY <3>1
  <2> HIDE DEF R, l
  <2> QED
    BY <2>1 DEF Lists
<1> HIDE DEF l
<1>5. \E f : f = R(f)
  <2>1. \E f : Lists(f, l, n, <<>>, 1)
    BY ListsExist
  <2> HIDE DEF R
  <2> QED
    BY <1>4, <2>1
<1>6. WordLines(h) = CHOOSE f : f = R(f)
  BY <1>1 DEF WordLines
<1> HIDE DEF R
<1>7. Lists(WordLines(h), l, n, <<>>, 1)
  <2>1. WordLines(h) = R(WordLines(h))
    BY <1>5, <1>6
  <2> QED
    BY <1>4, <2>1
<1>8. /\ WordLines(h)[n + 1] = <<>>
      /\ \A w \in 1 .. n : WordLines(h)[w] = l[w] \o WordLines(h)[w + 1]
      /\ \A w \in 1 .. n + 1 : Listed(WordLines(h)[w])
  BY <1>2, <1>3, <1>7, ListsListed
<1> QED
  BY <1>1, <1>2, <1>8

\* The listing from each token on.
LEMMA TokenLinesAre ==
    ASSUME NEW h, Listed(h.tokens), Listed(h.words)
    PROVE  /\ TokenLines(h)[Len(h.tokens) + 1] = WordLines(h)[1]
           /\ \A k \in 1 .. Len(h.tokens) : TokenLines(h)[k] = TokenLine(h, k) \o TokenLines(h)[k + 1]
           /\ \A k \in 1 .. Len(h.tokens) + 1 : Listed(TokenLines(h)[k])
<1>1. PICK n \in Nat : n = Len(h.tokens)
  BY ListedShape
<1> DEFINE l == [k \in 1 .. n |-> TokenLine(h, k)]
           R(f) == [k \in 1 .. n + 1 |->
                      IF k > n THEN WordLines(h)[1] ELSE TokenLine(h, k) \o f[k + 1]]
<1>2. \A k \in 1 .. n : Listed(l[k]) /\ l[k] = TokenLine(h, k)
  BY TokenLineIs
<1>3. Listed(WordLines(h)[1])
  <2>1. 1 \in 1 .. Len(h.words) + 1
    BY ListedShape
  <2> QED
    BY <2>1, WordLinesAre
<1>4. ASSUME NEW f PROVE f = R(f) <=> Lists(f, l, n, WordLines(h)[1], 1)
  <2>1. R(f) = [k \in 1 .. n + 1 |-> IF k > n THEN WordLines(h)[1] ELSE l[k] \o f[k + 1]]
    <3>1. \A k \in 1 .. n + 1 : k > n \/ l[k] = TokenLine(h, k)
      BY <1>2
    <3> HIDE DEF l
    <3> QED
      BY <3>1
  <2> HIDE DEF R, l
  <2> QED
    BY <2>1 DEF Lists
<1> HIDE DEF l
<1>5. \E f : f = R(f)
  <2>1. \E f : Lists(f, l, n, WordLines(h)[1], 1)
    BY ListsExist
  <2> HIDE DEF R
  <2> QED
    BY <1>4, <2>1
<1>6. TokenLines(h) = CHOOSE f : f = R(f)
  BY <1>1 DEF TokenLines
<1> HIDE DEF R
<1>7. Lists(TokenLines(h), l, n, WordLines(h)[1], 1)
  <2>1. TokenLines(h) = R(TokenLines(h))
    BY <1>5, <1>6
  <2> QED
    BY <1>4, <2>1
<1>8. /\ TokenLines(h)[n + 1] = WordLines(h)[1]
      /\ \A k \in 1 .. n : TokenLines(h)[k] = l[k] \o TokenLines(h)[k + 1]
      /\ \A k \in 1 .. n + 1 : Listed(TokenLines(h)[k])
  BY <1>2, <1>3, <1>7, ListsListed
<1> QED
  BY <1>1, <1>2, <1>8

\* The stream is at a line's first field, or at its end.
AtLine(s) == Listed(s) /\ (s # <<>> => Len(s) >= 2 /\ s[1].is \in {"Token:", "Word:"})

\* A line, with what comes after it, is a beginning of a line again.
LEMMA LineJoined ==
    ASSUME NEW l, Listed(l), Len(l) >= 2, NEW r, Listed(r), l[1].is \in {"Token:", "Word:"},
           NEW s, s = l \o r
    PROVE  AtLine(s) /\ s # <<>> /\ Joined(s, l, r)
<1>1. Joined(s, l, r)
  <2>1. Joined(l \o r, l, r)
    BY ConcatJoins
  <2> QED
    BY <2>1
<1>2. Len(l) \in Nat /\ Len(r) \in Nat
  BY ListedShape
<1>3. Listed(s) /\ Len(s) >= 2 /\ s[1] = l[1]
  <2>1. 1 \in 1 .. Len(l)
    BY <1>2
  <2> QED
    BY <1>1, <1>2, <2>1 DEF Joined
<1>4. s # <<>>
  BY <1>3, ShapedEmpty
<1> QED
  BY <1>1, <1>3, <1>4 DEF AtLine

\* From each line on the stream begins with a line; it is not at its end before a word.
LEMMA LinesBegin ==
    ASSUME NEW h, Listed(h.tokens), Listed(h.words)
    PROVE  /\ \A w \in 1 .. Len(h.words) + 1 : AtLine(WordLines(h)[w])
           /\ \A w \in 1 .. Len(h.words) : WordLines(h)[w] # <<>>
           /\ \A k \in 1 .. Len(h.tokens) + 1 :
                AtLine(TokenLines(h)[k]) /\ (h.words # <<>> => TokenLines(h)[k] # <<>>)
<1>1. PICK m \in Nat, n \in Nat : m = Len(h.words) /\ n = Len(h.tokens)
  BY ListedShape
<1>2. ASSUME NEW w \in 1 .. m PROVE AtLine(WordLines(h)[w]) /\ WordLines(h)[w] # <<>>
  <2>1. PICK l, r : /\ l = WordLine(h, w) /\ r = WordLines(h)[w + 1] /\ WordLines(h)[w] = l \o r
                    /\ Listed(r) /\ Listed(l) /\ l[1] = Mark("Word:") /\ Len(l) >= 2
    <3>1. w + 1 \in 1 .. m + 1
      OBVIOUS
    <3>2. WordLines(h)[w] = WordLine(h, w) \o WordLines(h)[w + 1] /\ Listed(WordLines(h)[w + 1])
      BY <1>1, <3>1, WordLinesAre
    <3>3. /\ Listed(WordLine(h, w)) /\ WordLine(h, w)[1] = Mark("Word:")
          /\ Len(WordLine(h, w)) >= 3 /\ Len(WordLine(h, w)) \in Nat
      BY WordLineIs
    <3>4. Len(WordLine(h, w)) >= 2
      BY <3>3
    <3> QED
      BY <3>2, <3>3, <3>4
  <2>2. l[1].is \in {"Token:", "Word:"}
    BY <2>1 DEF Mark, Field
  <2> QED
    BY <2>1, <2>2, LineJoined
<1>3. AtLine(WordLines(h)[m + 1])
  <2>1. WordLines(h)[m + 1] = <<>>
    BY <1>1, WordLinesAre
  <2> QED
    BY <2>1, ShapedEmpty DEF AtLine, Shaped
<1>4. ASSUME NEW k \in 1 .. n PROVE AtLine(TokenLines(h)[k]) /\ TokenLines(h)[k] # <<>>
  <2>1. PICK l, r : /\ l = TokenLine(h, k) /\ r = TokenLines(h)[k + 1] /\ TokenLines(h)[k] = l \o r
                    /\ Listed(r) /\ Listed(l) /\ l[1] = Mark("Token:") /\ Len(l) >= 2
    <3>1. k + 1 \in 1 .. n + 1
      OBVIOUS
    <3>2. TokenLines(h)[k] = TokenLine(h, k) \o TokenLines(h)[k + 1] /\ Listed(TokenLines(h)[k + 1])
      BY <1>1, <3>1, TokenLinesAre
    <3>3. /\ Listed(TokenLine(h, k)) /\ TokenLine(h, k)[1] = Mark("Token:")
          /\ Len(TokenLine(h, k)) = 4 \/ Len(TokenLine(h, k)) = 5
      BY TokenLineIs
    <3>4. Len(TokenLine(h, k)) >= 2
      BY <3>3
    <3> QED
      BY <3>2, <3>3, <3>4
  <2>2. l[1].is \in {"Token:", "Word:"}
    BY <2>1 DEF Mark, Field
  <2> QED
    BY <2>1, <2>2, LineJoined
<1>5. AtLine(TokenLines(h)[n + 1]) /\ (h.words # <<>> => TokenLines(h)[n + 1] # <<>>)
  <2>1. TokenLines(h)[n + 1] = WordLines(h)[1]
    BY <1>1, TokenLinesAre
  <2>2. h.words # <<>> => m > 0
    BY <1>1, ListedShape
  <2>3. CASE m > 0
    <3>1. 1 \in 1 .. m
      BY <2>3
    <3> QED
      BY <1>2, <2>1, <3>1
  <2>4. CASE m = 0
    <3>1. m + 1 = 1
      BY <2>4
    <3> QED
      BY <1>3, <2>1, <2>2, <2>4, <3>1
  <2> QED
    BY <2>3, <2>4
<1>6. ASSUME NEW w \in 1 .. m + 1 PROVE AtLine(WordLines(h)[w])
  <2>1. w \in 1 .. m \/ w = m + 1
    OBVIOUS
  <2> QED
    BY <1>2, <1>3, <2>1
<1>7. ASSUME NEW k \in 1 .. n + 1
      PROVE  AtLine(TokenLines(h)[k]) /\ (h.words # <<>> => TokenLines(h)[k] # <<>>)
  <2>1. k \in 1 .. n \/ k = n + 1
    OBVIOUS
  <2> QED
    BY <1>4, <1>5, <2>1
<1> QED
  BY <1>1, <1>2, <1>6, <1>7

\* next_token while the stream is at line l, and r is what comes after it: the last
\* field of all is not read.
LEMMA NthOfLine ==
    ASSUME NEW l, Listed(l), NEW r, Listed(r), Joined(utt.ts, l, r), NEW j \in 1 .. Len(l)
    PROVE  Nth(j) = IF j < Len(l) \/ r # <<>> THEN l[j] ELSE Mark("empty")
<1>1. Len(l) \in Nat /\ Len(r) \in Nat /\ (r # <<>> <=> Len(r) > 0)
  BY ListedShape
<1>2. Len(utt.ts) = Len(l) + Len(r) /\ utt.ts[j] = l[j]
  BY DEF Joined
<1> QED
  BY <1>1, <1>2 DEF Nth

\* When a line is read, what is left is what comes after it.
LEMMA FromAfterLine ==
    ASSUME NEW l, Listed(l), NEW r, Listed(r), Joined(utt.ts, l, r)
    PROVE  From(Len(l) + 1) = r
<1>1. Len(l) \in Nat
  BY ListedShape
<1>2. /\ Listed(utt.ts) /\ Len(utt.ts) = Len(l) + Len(r)
      /\ \A k \in 1 .. Len(r) : utt.ts[Len(l) + k] = r[k]
  BY DEF Joined
<1> QED
  BY <1>1, <1>2, ListedRest DEF From

\* What ReadToken makes of a token's line.
ReadName == IF Unnamed THEN SemioticClassName ELSE Nth(3)
ReadAt   == IF Unnamed THEN 3 ELSE 4
Named(h, k) == IF NameOf(h, k) = <<>> THEN SemioticClassName ELSE Field("name", NameOf(h, k))

TokenLineRead(h, k) ==
  /\ Nth(1).is = "Token:" /\ Nth(2).v = k - 1
  /\ IsMark(ReadName) <=> Punct(h, k)
  /\ Punct(h, k) => ReadName.v = NameOf(h, k)
  /\ h.words # <<>> => ReadName = Named(h, k) /\ Indices(Nth(ReadAt + 1)) = Words(h, k)
  /\ From(ReadAt + 2) = TokenLines(h)[k + 1]

\* The fifth field tells whether the line has a name, but at the end of the listing: there
\* it is not read, and the indices are taken for the name.
LEMMA TokenRead ==
    ASSUME NEW h, Listed(h.tokens), Listed(h.words), NEW k \in 1 .. Len(h.tokens), utt.ts = TokenLines(h)[k]
    PROVE  TokenLineRead(h, k)
<1> DEFINE l == TokenLine(h, k)
           r == TokenLines(h)[k + 1]
<1>1. Len(h.tokens) \in Nat /\ k + 1 \in 1 .. Len(h.tokens) + 1
  BY ListedShape
<1>2. utt.ts = l \o r /\ Listed(r) /\ AtLine(r) /\ (h.words # <<>> => r # <<>>)
  BY <1>1, TokenLinesAre, LinesBegin
<1>3. /\ Listed(l) /\ l[1] = Mark("Token:") /\ l[2] = Field("number", k - 1)
      /\ IF NameOf(h, k) = <<>> THEN Len(l) = 4 /\ l[3] = At(h, k) /\ l[4] = Words(h, k)
         ELSE /\ Len(l) = 5 /\ l[3] = Field("name", NameOf(h, k))
              /\ l[4] = At(h, k) /\ l[5] = Words(h, k)
  BY TokenLineIs
<1>4. Joined(utt.ts, l, r)
  BY <1>2, <1>3, ConcatJoins
<1> HIDE DEF l, r
<1>5. \A j \in 1 .. Len(l) : Nth(j) = IF j < Len(l) \/ r # <<>> THEN l[j] ELSE Mark("empty")
  BY <1>2, <1>3, <1>4, NthOfLine
<1>6. From(Len(l) + 1) = r
  BY <1>2, <1>3, <1>4, FromAfterLine
<1>7. Nth(1) = Mark("Token:") /\ Nth(2) = Field("number", k - 1) /\ Nth(3) = l[3]
  <2>1. /\ 1 \in 1 .. Len(l) /\ 2 \in 1 .. Len(l) /\ 3 \in 1 .. Len(l)
        /\ 1 < Len(l) /\ 2 < Len(l) /\ 3 < Len(l)
    BY <1>3
  <2> QED
    BY <1>3, <1>5, <2>1
<1>8. Nth(1).is = "Token:" /\ Nth(2).v = k - 1
  BY <1>7 DEF Mark, Field
<1>9. At(h, k).is = "indices" /\ Words(h, k).is = "indices" /\ Mark("empty").is = "empty"
  BY DEF At, Words, Mark, Field
<1>10. CASE NameOf(h, k) = <<>> /\ r # <<>>
  <2>10. Len(l) = 4 /\ l[3] = At(h, k) /\ l[4] = Words(h, k)
    BY <1>3, <1>10
  <2>1. Nth(4) = Words(h, k)
    <3>1. 4 \in 1 .. Len(l)
      BY <2>10
    <3> QED
      BY <1>5, <1>10, <2>10, <3>1
  <2>2. Nth(5).is \in {"Token:", "Word:"}
    <3>1. Len(r) >= 2 /\ r[1].is \in {"Token:", "Word:"} /\ Len(r) \in Nat
      BY <1>2, <1>10, ListedShape DEF AtLine
    <3>2. Len(utt.ts) = 4 + Len(r) /\ utt.ts[4 + 1] = r[1]
      <4>1. 1 \in 1 .. Len(r) /\ Len(l) = 4
        BY <1>3, <1>10, <3>1
      <4> QED
        BY <1>4, <4>1 DEF Joined
    <3>3. 4 + 1 = 5 /\ 5 < Len(utt.ts)
      BY <3>1, <3>2
    <3> QED
      BY <3>1, <3>2, <3>3 DEF Nth
  <2>3. Unnamed
    BY <2>2 DEF Unnamed
  <2>4. From(5) = r
    <3>1. Len(l) + 1 = 5
      BY <2>10
    <3> QED
      BY <1>6, <3>1
  <2>5. ReadName = SemioticClassName /\ ReadAt = 3
    BY <2>3 DEF ReadName, ReadAt
  <2>6. ~IsMark(ReadName) /\ ~Punct(h, k)
    BY <1>10, <2>5, PunctuationAssumption DEF IsMark, Punct, SemioticClassName, Field, NameOf
  <2>7. Indices(Nth(4)) = Words(h, k)
    BY <1>9, <2>1 DEF Indices
  <2>8. Named(h, k) = SemioticClassName
    BY <1>10 DEF Named
  <2>9. ReadAt + 1 = 4 /\ ReadAt + 2 = 5
    BY <2>5
  <2> QED
    BY <1>8, <2>4, <2>5, <2>6, <2>7, <2>8, <2>9 DEF TokenLineRead, r
<1>11. CASE NameOf(h, k) = <<>> /\ r = <<>>
  <2>1. Len(utt.ts) = 4 /\ Listed(utt.ts) /\ h.words = <<>>
    <3>1. Len(r) = 0
      BY <1>11, ShapedEmpty
    <3> QED
      BY <1>2, <1>3, <1>4, <1>11, <3>1 DEF Joined
  <2>2. Nth(5) = Mark("empty") /\ ~Unnamed
    BY <1>9, <2>1 DEF Nth, Unnamed
  <2>3. From(6) = <<>>
    <3>1. 1 <= 6 /\ 4 <= Len(utt.ts) /\ 6 \in Int /\ 4 \in Int
      BY <2>1
    <3>2. Listed(SubSeq(utt.ts, 6, 4)) /\ Len(SubSeq(utt.ts, 6, 4)) = IF 6 <= 4 THEN 4 - 6 + 1 ELSE 0
      BY <2>1, <3>1, ListedStretch
    <3>3. SubSeq(utt.ts, 6, 4) = <<>>
      BY <3>2, ListedShape
    <3> QED
      BY <2>1, <3>3 DEF From
  <2>4. ReadName = At(h, k) /\ ReadAt = 4
    BY <1>3, <1>7, <1>11, <2>2 DEF ReadName, ReadAt
  <2>5. ~IsMark(ReadName) /\ ~Punct(h, k)
    BY <1>9, <1>11, <2>4, PunctuationAssumption DEF IsMark, Punct, NameOf
  <2>6. ReadAt + 2 = 6
    BY <2>4
  <2> QED
    BY <1>8, <1>11, <2>1, <2>3, <2>5, <2>6 DEF TokenLineRead, r
<1>12. CASE NameOf(h, k) # <<>>
  <2>10. Len(l) = 5 /\ l[3] = Field("name", NameOf(h, k)) /\ l[5] = Words(h, k)
    BY <1>3, <1>12
  <2>1. ~Unnamed
    <3>1. Nth(5) = Words(h, k) \/ Nth(5) = Mark("empty")
      <4>1. 5 \in 1 .. Len(l)
        BY <2>10
      <4> QED
        BY <1>5, <2>10, <4>1
    <3> QED
      BY <1>9, <3>1 DEF Unnamed
  <2>2. ReadName = Field("name", NameOf(h, k)) /\ ReadAt = 4
    BY <1>3, <1>7, <1>12, <2>1 DEF ReadName, ReadAt
  <2>3. ReadName.is = "name" /\ ReadName.v = NameOf(h, k)
    BY <2>2 DEF Field
  <2>4. IsMark(ReadName) <=> Punct(h, k)
    BY <2>3 DEF IsMark, Punct, NameOf
  <2>5. From(6) = r
    <3>1. Len(l) + 1 = 6
      BY <2>10
    <3> QED
      BY <1>6, <3>1
  <2>6. h.words # <<>> => Nth(5) = Words(h, k)
    <3>1. 5 \in 1 .. Len(l)
      BY <2>10
    <3> QED
      BY <1>2, <1>5, <2>10, <3>1
  <2>7. h.words # <<>> => Indices(Nth(5)) = Words(h, k)
    BY <1>9, <2>6 DEF Indices
  <2>8. ReadAt + 1 = 5 /\ ReadAt + 2 = 6
    BY <2>2
  <2>9. Named(h, k) = ReadName
    BY <1>12, <2>2 DEF Named
  <2> QED
    BY <1>8, <2>3, <2>4, <2>5, <2>7, <2>8, <2>9 DEF TokenLineRead, r
<1> QED
  BY <1>10, <1>11, <1>12

\* A word's parent as it is read.
ReadParent(h) == [w \in DOMAIN h.words |-> IF w = Len(h.words) THEN 0 ELSE h.words[w].parent]

\* A word's line: the last one's parent is not read.
LEMMA WordRead ==
    ASSUME NEW h, Listed(h.tokens), Listed(h.words), NEW w \in 1 .. Len(h.words),
           h.words[w].spelling # <<>>, utt.ts = WordLines(h)[w]
    PROVE  /\ Nth(1).is = "Word:" /\ Nth(3) = Field("name", h.words[w].spelling)
           /\ IF w = Len(h.words) THEN Nth(4).is = "empty" /\ WordLines(h)[w + 1] = <<>>
              ELSE /\ Nth(4).is = "number" /\ Nth(4).v = h.words[w].parent
                   /\ From(5) = WordLines(h)[w + 1]
<1> DEFINE l == WordLine(h, w)
           r == WordLines(h)[w + 1]
<1>1. Len(h.words) \in Nat /\ w + 1 \in 1 .. Len(h.words) + 1 /\ w \in DOMAIN h.words
  BY ListedShape
<1>2. utt.ts = l \o r /\ Listed(r)
  BY <1>1, WordLinesAre
<1>3. /\ Listed(l) /\ l[1] = Mark("Word:")
      /\ Len(l) = 4 /\ l[3] = Field("name", h.words[w].spelling)
      /\ l[4] = Field("number", h.words[w].parent)
  <2>1. h.words[w].spelling # <<>>
    OBVIOUS
  <2> QED
    BY <2>1, WordLineIs
<1>4. Joined(utt.ts, l, r)
  BY <1>2, <1>3, ConcatJoins
<1>5. w # Len(h.words) => r # <<>>
  <2>1. ASSUME w # Len(h.words) PROVE r # <<>>
    <3>1. w + 1 \in 1 .. Len(h.words)
      BY <1>1, <2>1
    <3> QED
      BY <3>1, LinesBegin
  <2> QED
    BY <2>1
<1>6. w = Len(h.words) => r = <<>>
  BY WordLinesAre
<1> HIDE DEF l, r
<1>70. Listed(l) /\ Listed(r)
  BY <1>2, <1>3
<1>7. \A j \in 1 .. Len(l) : Nth(j) = IF j < Len(l) \/ r # <<>> THEN l[j] ELSE Mark("empty")
  BY <1>4, <1>70, NthOfLine
<1>8. /\ Nth(1) = Mark("Word:") /\ Nth(3) = Field("name", h.words[w].spelling)
      /\ Nth(4) = IF r # <<>> THEN Field("number", h.words[w].parent) ELSE Mark("empty")
  <2>1. 1 \in 1 .. Len(l) /\ 3 \in 1 .. Len(l) /\ 4 \in 1 .. Len(l) /\ 1 < Len(l) /\ 3 < Len(l)
        /\ ~(4 < Len(l))
    BY <1>3
  <2> QED
    BY <1>3, <1>7, <2>1
<1>9. From(5) = r
  <2>1. From(Len(l) + 1) = r
    BY <1>4, <1>70, FromAfterLine
  <2>2. Len(l) + 1 = 5
    BY <1>3
  <2> QED
    BY <2>1, <2>2
<1>10. Nth(1).is = "Word:"
  BY <1>8 DEF Mark, Field
<1>11. CASE w = Len(h.words)
  <2>1. Nth(4).is = "empty"
    BY <1>6, <1>8, <1>11 DEF Mark, Field
  <2> QED
    BY <1>6, <1>8, <1>10, <1>11, <2>1 DEF r
<1>12. CASE w # Len(h.words)
  <2>1. Nth(4).is = "number" /\ Nth(4).v = h.words[w].parent
    BY <1>5, <1>8, <1>12 DEF Field
  <2> QED
    BY <1>8, <1>9, <1>10, <1>12, <2>1 DEF r
<1> QED
  BY <1>11, <1>12

-----------------------------------------------------------------------------
(* The relation Token when the lines before the k-th token's are read.     *)

ItemFields == {"id", "name", "w_start", "w_end", "prepunctuation", "punc"}

\* What an item has of its token.
IsItem(h, e, k) ==
  /\ DOMAIN e = ItemFields /\ e.id = k - 1 /\ ~Punct(h, k)
  /\ h.words # <<>> => /\ e.name = Named(h, k)
                     /\ e.w_start = Daughter(h.tokens[k].first)
                     /\ e.w_end = Daughter(h.tokens[k].last)

\* The items are those of the tokens that are not punctuation, in their order.
Items(h, T, k) ==
  /\ Listed(T)
  /\ \A i \in 1 .. Len(T) : T[i].id \in 0 .. k - 2 /\ IsItem(h, T[i], T[i].id + 1)
  /\ \A i, j \in 1 .. Len(T) : i < j => T[i].id < T[j].id
  /\ \A m \in 1 .. k - 1 : Punct(h, m) \/ \E i \in 1 .. Len(T) : T[i].id = m - 1

\* The marks b and then a are the names of the tokens from the f-th to the u-th.
InGap(h, b, a, f, u) ==
  /\ Listed(b) /\ Listed(a) /\ Len(b) + Len(a) = u - f + 1
  /\ \A m \in 1 .. Len(b) : b[m] = NameOf(h, f + m - 1)
  /\ \A m \in 1 .. Len(a) : a[m] = NameOf(h, f + Len(b) + m - 1)

Before(T, i)   == IF i = 0 THEN <<>> ELSE T[i].punc
After(T, q, i) == IF i = Len(T) THEN q ELSE T[i + 1].prepunctuation
Least(T, i)    == IF i = 0 THEN 1 ELSE T[i].id + 2
Most(T, k, i)  == IF i = Len(T) THEN k - 1 ELSE T[i + 1].id

\* Each mark is between the items it was between; q is pending.
Marks(h, T, q, k) ==
  \A i \in 0 .. Len(T) : InGap(h, Before(T, i), After(T, q, i), Least(T, i), Most(T, k, i))

\* Nothing is between two tokens that are next to each other.
LEMMA GapEmpty ==
    ASSUME NEW h, NEW f \in Int
    PROVE  InGap(h, <<>>, <<>>, f, f - 1)
BY ShapedEmpty DEF InGap, Shaped

\* One more mark is pending.
LEMMA GapAfter ==
    ASSUME NEW h, NEW b, NEW a, NEW f \in Int, NEW u \in Int, InGap(h, b, a, f, u)
    PROVE  InGap(h, b, Append(a, NameOf(h, u + 1)), f, u + 1)
<1>1. PICK l \in Nat, m \in Nat : l = Len(b) /\ m = Len(a) /\ l + m = u - f + 1
  BY ListedShape DEF InGap
<1>2. PICK c : c = Append(a, NameOf(h, u + 1))
  OBVIOUS
<1>3. /\ Listed(c) /\ Len(c) = m + 1 /\ c[m + 1] = NameOf(h, u + 1)
      /\ \A j \in 1 .. m : c[j] = a[j]
  BY <1>1, <1>2, ListedAppend DEF InGap
<1>4. ASSUME NEW j \in 1 .. m + 1 PROVE c[j] = NameOf(h, f + l + j - 1)
  <2>1. CASE j = m + 1
    <3>1. f + l + j - 1 = u + 1
      BY <1>1, <2>1
    <3> QED
      BY <1>3, <2>1, <3>1
  <2>2. CASE j # m + 1
    <3>1. j \in 1 .. m
      BY <2>2
    <3>2. a[j] = NameOf(h, f + l + j - 1)
      BY <1>1, <3>1 DEF InGap
    <3> QED
      BY <1>3, <3>1, <3>2
  <2> QED
    BY <2>1, <2>2
<1>5. l + (m + 1) = u + 1 - f + 1
  BY <1>1
<1>6. Listed(b) /\ \A j \in 1 .. l : b[j] = NameOf(h, f + j - 1)
  BY <1>1 DEF InGap
<1>7. InGap(h, b, c, f, u + 1)
  BY <1>1, <1>3, <1>4, <1>5, <1>6 DEF InGap
<1> QED
  BY <1>2, <1>7

\* One more mark is the last item's, while none is pending.
LEMMA GapBefore ==
    ASSUME NEW h, NEW b, NEW f \in Int, NEW u \in Int, InGap(h, b, <<>>, f, u)
    PROVE  InGap(h, Append(b, NameOf(h, u + 1)), <<>>, f, u + 1)
<1>1. PICK l \in Nat : l = Len(b) /\ l = u - f + 1
  BY ListedShape, ShapedEmpty DEF InGap
<1>2. PICK c : c = Append(b, NameOf(h, u + 1))
  OBVIOUS
<1>3. /\ Listed(c) /\ Len(c) = l + 1 /\ c[l + 1] = NameOf(h, u + 1)
      /\ \A j \in 1 .. l : c[j] = b[j]
  <2>1. Listed(b)
    BY DEF InGap
  <2>2. /\ Listed(c) /\ Len(c) = Len(b) + 1 /\ c[Len(b) + 1] = NameOf(h, u + 1)
        /\ \A j \in 1 .. Len(b) : c[j] = b[j]
    BY <1>2, <2>1, ListedAppend
  <2> QED
    BY <1>1, <2>2
<1>4. ASSUME NEW j \in 1 .. l + 1 PROVE c[j] = NameOf(h, f + j - 1)
  <2>1. CASE j = l + 1
    <3>1. f + j - 1 = u + 1
      BY <1>1, <2>1
    <3> QED
      BY <1>3, <2>1, <3>1
  <2>2. CASE j # l + 1
    <3>1. j \in 1 .. l
      BY <2>2
    <3>2. b[j] = NameOf(h, f + j - 1)
      BY <1>1, <3>1 DEF InGap
    <3> QED
      BY <1>3, <3>1, <3>2
  <2> QED
    BY <2>1, <2>2
<1>5. Listed(<<>>) /\ Len(<<>>) = 0 /\ l + 1 + 0 = u + 1 - f + 1
  BY <1>1, ShapedEmpty DEF Shaped
<1>7. InGap(h, c, <<>>, f, u + 1)
  BY <1>1, <1>3, <1>4, <1>5 DEF InGap
<1> QED
  BY <1>2, <1>7

\* Before the first line.
LEMMA NoItems == ASSUME NEW h PROVE Items(h, <<>>, 1) /\ Marks(h, <<>>, <<>>, 1)
<1>1. Len(<<>>) = 0 /\ Listed(<<>>)
  BY ShapedEmpty DEF Shaped
<1>2. Items(h, <<>>, 1)
  BY <1>1 DEF Items
<1>3. \A i \in 0 .. 0 : i = 0
  OBVIOUS
<1>4. InGap(h, <<>>, <<>>, 1, 1 - 1)
  <2>1. PICK f \in Int : f = 1
    OBVIOUS
  <2>2. InGap(h, <<>>, <<>>, f, f - 1)
    BY GapEmpty
  <2> QED
    BY <2>1, <2>2
<1>5. Marks(h, <<>>, <<>>, 1)
  BY <1>1, <1>3, <1>4 DEF Marks, Before, After, Least, Most
<1> QED
  BY <1>2, <1>5

\* AddToken: what was pending is the new item's.
LEMMA ItemAdded ==
    ASSUME NEW h, NEW T, NEW q, NEW k \in Nat, k >= 1, Items(h, T, k), Marks(h, T, q, k),
           NEW e, IsItem(h, e, k), e.prepunctuation = q, e.punc = <<>>
    PROVE  Items(h, Append(T, e), k + 1) /\ Marks(h, Append(T, e), <<>>, k + 1)
<1>1. PICK n \in Nat : n = Len(T)
  BY ListedShape DEF Items
<1>2. PICK U : U = Append(T, e)
  OBVIOUS
<1>3. Listed(U) /\ Len(U) = n + 1 /\ U[n + 1] = e /\ \A i \in 1 .. n : U[i] = T[i]
  BY <1>1, <1>2, ListedAppend DEF Items
<1>4. e.id = k - 1
  BY DEF IsItem
<1>5. \A i \in 1 .. n : T[i].id \in 0 .. k - 2 /\ IsItem(h, T[i], T[i].id + 1)
  BY <1>1 DEF Items
<1>6. Items(h, U, k + 1)
  <2>1. ASSUME NEW i \in 1 .. n + 1
        PROVE  U[i].id \in 0 .. k + 1 - 2 /\ IsItem(h, U[i], U[i].id + 1)
    <3>1. CASE i = n + 1
      <4>1. U[i] = e /\ e.id + 1 = k /\ e.id \in 0 .. k + 1 - 2
        BY <1>3, <1>4, <3>1
      <4> QED
        BY <4>1
    <3>2. CASE i # n + 1
      <4>1. i \in 1 .. n
        BY <3>2
      <4>2. U[i] = T[i] /\ T[i].id \in 0 .. k - 2 /\ IsItem(h, T[i], T[i].id + 1)
        BY <1>3, <1>5, <4>1
      <4>3. T[i].id \in 0 .. k + 1 - 2
        BY <4>2
      <4> QED
        BY <4>2, <4>3
    <3> QED
      BY <3>1, <3>2
  <2>2. ASSUME NEW i \in 1 .. n + 1, NEW j \in 1 .. n + 1, i < j
        PROVE  U[i].id < U[j].id
    <3>1. i \in 1 .. n /\ U[i] = T[i] /\ T[i].id \in 0 .. k - 2
      <4>1. i \in 1 .. n
        BY <2>2
      <4> QED
        BY <1>3, <1>5, <4>1
    <3>2. CASE j = n + 1
      <4>1. U[j].id = k - 1
        BY <1>3, <1>4, <3>2
      <4> QED
        BY <3>1, <4>1
    <3>3. CASE j # n + 1
      <4>1. j \in 1 .. n /\ U[j] = T[j]
        BY <1>3, <3>3
      <4>2. T[i].id < T[j].id
        BY <1>1, <2>2, <3>1, <4>1 DEF Items
      <4> QED
        BY <3>1, <4>1, <4>2
    <3> QED
      BY <3>2, <3>3
  <2>3. ASSUME NEW m \in 1 .. k + 1 - 1
        PROVE  Punct(h, m) \/ \E i \in 1 .. n + 1 : U[i].id = m - 1
    <3>1. CASE m = k
      <4>1. n + 1 \in 1 .. n + 1 /\ U[n + 1].id = m - 1
        BY <1>3, <1>4, <3>1
      <4> QED
        BY <4>1
    <3>2. CASE m # k
      <4>1. m \in 1 .. k - 1
        BY <3>2
      <4>2. Punct(h, m) \/ \E i \in 1 .. n : T[i].id = m - 1
        BY <1>1, <4>1 DEF Items
      <4>3. \A i \in 1 .. n : i \in 1 .. n + 1 /\ U[i] = T[i]
        BY <1>3
      <4> QED
        BY <4>2, <4>3
    <3> QED
      BY <3>1, <3>2
  <2> QED
    BY <1>3, <2>1, <2>2, <2>3 DEF Items
<1>7. ASSUME NEW i \in 0 .. n + 1
      PROVE  InGap(h, Before(U, i), After(U, <<>>, i), Least(U, i), Most(U, k + 1, i))
  <2>1. CASE i = n + 1
    <3>1. /\ Before(U, i) = <<>> /\ After(U, <<>>, i) = <<>>
          /\ Least(U, i) = k + 1 /\ Most(U, k + 1, i) = k + 1 - 1
      BY <1>3, <1>4, <2>1 DEF Before, After, Least, Most
    <3>2. PICK f \in Int : f = k + 1 /\ f - 1 = k + 1 - 1
      OBVIOUS
    <3>3. InGap(h, <<>>, <<>>, f, f - 1)
      BY GapEmpty
    <3> QED
      BY <3>1, <3>2, <3>3
  <2>2. CASE i # n + 1
    <3>1. i \in 0 .. n /\ i + 1 \in 1 .. n + 1
      BY <2>2
    <3>2. Before(U, i) = Before(T, i) /\ Least(U, i) = Least(T, i)
      <4>1. i = 0 \/ U[i] = T[i]
        BY <1>3, <3>1
      <4> QED
        BY <4>1 DEF Before, Least
    <3>3. After(U, <<>>, i) = After(T, q, i) /\ Most(U, k + 1, i) = Most(T, k, i)
      <4>1. CASE i = n
        <5>1. U[i + 1] = e
          BY <1>3, <4>1
        <5> QED
          BY <1>1, <1>3, <1>4, <2>2, <4>1, <5>1 DEF After, Most
      <4>2. CASE i # n
        <5>1. i + 1 \in 1 .. n
          BY <3>1, <4>2
        <5>2. U[i + 1] = T[i + 1]
          BY <1>3, <5>1
        <5> QED
          BY <1>1, <1>3, <2>2, <4>2, <5>2 DEF After, Most
      <4> QED
        BY <4>1, <4>2
    <3>4. InGap(h, Before(T, i), After(T, q, i), Least(T, i), Most(T, k, i))
      BY <1>1, <3>1 DEF Marks
    <3> QED
      BY <3>2, <3>3, <3>4
  <2> QED
    BY <2>1, <2>2
<1>8. Marks(h, U, <<>>, k + 1)
  BY <1>3, <1>7 DEF Marks
<1> QED
  BY <1>2, <1>6, <1>8

\* A mark is read: the items are what they were.
LEMMA MarkPassed ==
    ASSUME NEW h, NEW T, NEW k \in Nat, k >= 1, Items(h, T, k), Punct(h, k)
    PROVE  Items(h, T, k + 1)
<1>1. Listed(T) /\ \A i, j \in 1 .. Len(T) : i < j => T[i].id < T[j].id
  BY DEF Items
<1>2. ASSUME NEW i \in 1 .. Len(T)
      PROVE  T[i].id \in 0 .. k + 1 - 2 /\ IsItem(h, T[i], T[i].id + 1)
  <2>1. T[i].id \in 0 .. k - 2 /\ IsItem(h, T[i], T[i].id + 1)
    BY DEF Items
  <2> QED
    BY <2>1
<1>3. ASSUME NEW m \in 1 .. k + 1 - 1
      PROVE  Punct(h, m) \/ \E i \in 1 .. Len(T) : T[i].id = m - 1
  <2>1. m = k \/ m \in 1 .. k - 1
    OBVIOUS
  <2> QED
    BY <2>1 DEF Items
<1> QED
  BY <1>1, <1>2, <1>3 DEF Items

\* AddMark, where the mark is pending.
LEMMA MarkPending ==
    ASSUME NEW h, NEW T, NEW q, NEW k \in Nat, k >= 1, Items(h, T, k), Marks(h, T, q, k)
    PROVE  Marks(h, T, Append(q, NameOf(h, k)), k + 1)
<1>1. PICK n \in Nat : n = Len(T)
  BY ListedShape DEF Items
<1>2. PICK r : r = Append(q, NameOf(h, k))
  OBVIOUS
<1>3. ASSUME NEW i \in 0 .. n
      PROVE  InGap(h, Before(T, i), After(T, r, i), Least(T, i), Most(T, k + 1, i))
  <2>1. InGap(h, Before(T, i), After(T, q, i), Least(T, i), Most(T, k, i))
    BY <1>1 DEF Marks
  <2>2. CASE i = n
    <3>1. After(T, q, i) = q /\ Most(T, k, i) = k - 1 /\ After(T, r, i) = r /\ Most(T, k + 1, i) = k
      BY <1>1, <2>2 DEF After, Most
    <3>2. Least(T, i) \in Int
      <4>1. i # 0 => T[i].id \in Int
        BY <1>1 DEF Items
      <4> QED
        BY <4>1 DEF Least
    <3>3. PICK b, f, u : b = Before(T, i) /\ f = Least(T, i) /\ u = k - 1
      OBVIOUS
    <3>4. InGap(h, b, Append(q, NameOf(h, u + 1)), f, u + 1) /\ u + 1 = k
      <4>1. InGap(h, b, q, f, u)
        BY <2>1, <3>1, <3>3
      <4>2. f \in Int /\ u \in Int /\ u + 1 = k
        BY <3>2, <3>3
      <4> QED
        BY <4>1, <4>2, GapAfter
    <3> QED
      BY <1>2, <3>1, <3>3, <3>4
  <2>3. CASE i # n
    BY <1>1, <2>1, <2>3 DEF After, Most
  <2> QED
    BY <2>2, <2>3
<1>4. Marks(h, T, r, k + 1)
  BY <1>1, <1>3 DEF Marks
<1> QED
  BY <1>2, <1>4

\* u is s but for its n-th element.
Replaced(u, s, n, e) ==
  /\ Listed(u) /\ Len(u) = Len(s)
  /\ \A i \in 1 .. Len(s) : u[i] = IF i = n THEN e ELSE s[i]

\* That is what EXCEPT does.
LEMMA ExceptReplaces ==
    ASSUME NEW s, Listed(s), NEW n \in 1 .. Len(s), NEW e
    PROVE  Replaced([s EXCEPT ![n] = e], s, n, e)
BY ListedExcept DEF Replaced

\* AddMark, where it is punctuation of the last item.
LEMMA MarkGiven ==
    ASSUME NEW h, NEW T, NEW k \in Nat, k >= 1, Items(h, T, k), Marks(h, T, <<>>, k), Punct(h, k),
           NEW n \in Nat, n = Len(T), n > 0,
           NEW e, e = [T[n] EXCEPT !.punc = Append(T[n].punc, NameOf(h, k))]
    PROVE  Items(h, [T EXCEPT ![n] = e], k + 1) /\ Marks(h, [T EXCEPT ![n] = e], <<>>, k + 1)
<1>1. PICK U : U = [T EXCEPT ![n] = e]
  OBVIOUS
<1>2. n \in 1 .. Len(T) /\ Listed(T)
  BY DEF Items
<1>3. /\ Listed(U) /\ Len(U) = n
      /\ \A i \in 1 .. n : U[i] = IF i = n THEN e ELSE T[i]
  <2>1. Replaced(U, T, n, e)
    BY <1>1, <1>2, ExceptReplaces
  <2> QED
    BY <2>1 DEF Replaced
<1>4. /\ DOMAIN e = ItemFields /\ e.id = T[n].id /\ e.name = T[n].name
      /\ e.w_start = T[n].w_start /\ e.w_end = T[n].w_end
      /\ e.prepunctuation = T[n].prepunctuation /\ e.punc = Append(T[n].punc, NameOf(h, k))
  <2>1. DOMAIN T[n] = ItemFields
    BY <1>2 DEF Items, IsItem
  <2> QED
    BY <2>1 DEF ItemFields
<1>5. \A i \in 1 .. n : /\ DOMAIN U[i] = DOMAIN T[i] /\ U[i].id = T[i].id
                        /\ U[i].name = T[i].name /\ U[i].w_start = T[i].w_start
                        /\ U[i].w_end = T[i].w_end
                        /\ U[i].prepunctuation = T[i].prepunctuation
                        /\ i # n => U[i].punc = T[i].punc
  <2>1. DOMAIN T[n] = ItemFields
    BY <1>2 DEF Items, IsItem
  <2> QED
    BY <1>3, <1>4, <2>1
<1>6. Items(h, U, k)
  <2>1. ASSUME NEW i \in 1 .. n
        PROVE  U[i].id \in 0 .. k - 2 /\ IsItem(h, U[i], U[i].id + 1)
    <3>1. T[i].id \in 0 .. k - 2 /\ IsItem(h, T[i], T[i].id + 1)
      BY DEF Items
    <3> QED
      BY <1>5, <3>1 DEF IsItem
  <2>2. \A i, j \in 1 .. n : i < j => U[i].id < U[j].id
    BY <1>5 DEF Items
  <2>3. \A m \in 1 .. k - 1 : Punct(h, m) \/ \E i \in 1 .. n : U[i].id = m - 1
    BY <1>5 DEF Items
  <2> QED
    BY <1>3, <2>1, <2>2, <2>3 DEF Items
<1>7. Items(h, U, k + 1)
  BY <1>6, MarkPassed
<1>8. ASSUME NEW i \in 0 .. n
      PROVE  InGap(h, Before(U, i), After(U, <<>>, i), Least(U, i), Most(U, k + 1, i))
  <2>1. InGap(h, Before(T, i), After(T, <<>>, i), Least(T, i), Most(T, k, i))
    BY DEF Marks
  <2>2. Least(U, i) = Least(T, i)
    <3>1. i = 0 \/ U[i].id = T[i].id
      BY <1>5
    <3> QED
      BY <3>1 DEF Least
  <2>3. CASE i = n
    <3>1. /\ After(T, <<>>, i) = <<>> /\ Most(T, k, i) = k - 1
          /\ After(U, <<>>, i) = <<>> /\ Most(U, k + 1, i) = k
      BY <1>3, <2>3 DEF After, Most
    <3>2. Before(T, i) = T[n].punc /\ Before(U, i) = Append(T[n].punc, NameOf(h, k))
      <4>1. U[n] = e
        BY <1>2, <1>3
      <4> QED
        BY <1>4, <2>3, <4>1 DEF Before
    <3>3. Least(T, i) \in Int
      <4>1. T[n].id \in Int
        BY <1>2 DEF Items
      <4> QED
        BY <2>3, <4>1 DEF Least
    <3>4. PICK b, f, u : b = T[n].punc /\ f = Least(T, i) /\ u = k - 1
      OBVIOUS
    <3>5. InGap(h, Append(b, NameOf(h, u + 1)), <<>>, f, u + 1) /\ u + 1 = k
      <4>1. InGap(h, b, <<>>, f, u)
        BY <2>1, <3>1, <3>2, <3>4
      <4>2. f \in Int /\ u \in Int /\ u + 1 = k
        BY <3>3, <3>4
      <4> QED
        BY <4>1, <4>2, GapBefore
    <3> QED
      BY <2>2, <3>1, <3>2, <3>4, <3>5
  <2>4. CASE i # n
    <3>1. Before(U, i) = Before(T, i)
      <4>1. i = 0 \/ U[i].punc = T[i].punc
        BY <1>5, <2>4
      <4> QED
        BY <4>1 DEF Before
    <3>2. After(U, <<>>, i) = After(T, <<>>, i) /\ Most(U, k + 1, i) = Most(T, k, i)
      <4>1. i + 1 \in 1 .. n
        BY <2>4
      <4>2. U[i + 1].id = T[i + 1].id /\ U[i + 1].prepunctuation = T[i + 1].prepunctuation
        BY <1>5, <4>1
      <4> QED
        BY <1>3, <2>4, <4>2 DEF After, Most
    <3> QED
      BY <2>1, <2>2, <3>1, <3>2
  <2> QED
    BY <2>3, <2>4
<1>9. Marks(h, U, <<>>, k + 1)
  BY <1>3, <1>8 DEF Marks
<1> QED
  BY <1>1, <1>7, <1>9

-----------------------------------------------------------------------------
(* The relation Word when the lines before the w-th word's are read.       *)

\* The listing can be read: no word is a field short, and each has a token.
Regular(h) ==
  /\ Listed(h.tokens) /\ Listed(h.words)
  /\ \A w \in 1 .. Len(h.words) : /\ h.words[w].spelling # <<>>
                                  /\ h.words[w].parent \in 0 .. Len(h.tokens) - 1

\* The words that are read as words of a token that is kept, and their places.
SaidWords(h)   == {w \in DOMAIN h.words : ~Punct(h, ReadParent(h)[w] + 1)}
SaidUpTo(h, w) == {v \in SaidWords(h) : v <= w}
PlaceOf(h, w)  == Cardinality(SaidUpTo(h, w))

\* A word that is said has the next place.
LEMMA PlaceCounts ==
    ASSUME NEW h, Listed(h.words), NEW w \in 1 .. Len(h.words)
    PROVE  /\ PlaceOf(h, w - 1) \in Nat
           /\ PlaceOf(h, w) = PlaceOf(h, w - 1) + IF w \in SaidWords(h) THEN 1 ELSE 0
<1>1. PICK n \in Nat : n = Len(h.words) /\ DOMAIN h.words = 1 .. n
  BY ListedShape
<1>2. PICK S, D : S = SaidUpTo(h, w - 1) /\ D = SaidWords(h) /\ D \subseteq 1 .. n
  BY <1>1 DEF SaidWords
<1>3. IsFiniteSet(S)
  <2>1. IsFiniteSet(1 .. n) /\ S \in SUBSET (1 .. n)
    BY <1>2, FS_Interval DEF SaidUpTo
  <2> QED
    BY <2>1, FS_Subset
<1>4. PlaceOf(h, w - 1) = Cardinality(S) /\ Cardinality(S) \in Nat
  BY <1>2, <1>3, FS_CardinalityType DEF PlaceOf
<1>5. CASE w \in D
  <2>1. SaidUpTo(h, w) = S \cup {w} /\ w \notin S
    <3>1. \A v \in D : v <= w <=> v <= w - 1 \/ v = w
      BY <1>1, <1>2
    <3> QED
      BY <1>1, <1>2, <1>5, <3>1 DEF SaidUpTo
  <2>2. Cardinality(S \cup {w}) = Cardinality(S) + 1
    BY <1>3, <2>1, FS_AddElement
  <2> QED
    BY <1>2, <1>4, <1>5, <2>1, <2>2 DEF PlaceOf
<1>6. CASE w \notin D
  <2>1. SaidUpTo(h, w) = S
    <3>1. \A v \in D : v <= w <=> v <= w - 1
      BY <1>1, <1>2, <1>6
    <3> QED
      BY <1>2, <3>1 DEF SaidUpTo
  <2> QED
    BY <1>2, <1>4, <1>6, <2>1 DEF PlaceOf
<1> QED
  BY <1>5, <1>6

\* There are no places before the first word, and as many as words at the end.
LEMMA PlaceEnds ==
    ASSUME NEW h, Listed(h.words)
    PROVE  PlaceOf(h, 0) = 0 /\ PlaceOf(h, Len(h.words)) = Cardinality(SaidWords(h))
<1>1. PICK n \in Nat : n = Len(h.words) /\ DOMAIN h.words = 1 .. n
  BY ListedShape
<1>2. SaidWords(h) \subseteq 1 .. n
  BY <1>1 DEF SaidWords
<1>3. SaidUpTo(h, 0) = {} /\ SaidUpTo(h, n) = SaidWords(h)
  <2>1. \A v \in 1 .. n : ~(v <= 0) /\ v <= n
    OBVIOUS
  <2> QED
    BY <1>2, <2>1 DEF SaidUpTo
<1> QED
  BY <1>1, <1>3, FS_EmptySet DEF PlaceOf

\* Each word that is said is at its place, below the token that was read for it.
AtPlace(h, T, W, v) ==
  /\ PlaceOf(h, v) \in 1 .. Len(W)
  /\ LET word == W[PlaceOf(h, v)] IN
     /\ word.name = Field("name", h.words[v].spelling)
     /\ word.token \in 1 .. Len(T) /\ T[word.token].id = ReadParent(h)[v]

WordsPlaced(h, T, W, w) ==
  /\ Listed(W) /\ Len(W) = PlaceOf(h, w - 1)
  /\ \A v \in 1 .. w - 1 : v \in SaidWords(h) => AtPlace(h, T, W, v)

\* Before the first word's line.
LEMMA NoWords ==
    ASSUME NEW h, Listed(h.words), NEW T
    PROVE  WordsPlaced(h, T, <<>>, 1)
<1>1. Listed(<<>>) /\ Len(<<>>) = 0
  BY ShapedEmpty DEF Shaped
<1>2. PlaceOf(h, 1 - 1) = 0
  <2>1. 1 - 1 = 0
    OBVIOUS
  <2> QED
    BY <2>1, PlaceEnds
<1>3. \A v \in 1 .. 1 - 1 : FALSE
  OBVIOUS
<1> QED
  BY <1>1, <1>2, <1>3 DEF WordsPlaced

\* n is where the item with that id is, where there is one and only one.
Finds(T, id, n) ==
  \A i \in 1 .. Len(T) :
    T[i].id = id /\ (\A j \in 1 .. Len(T) : T[j].id = id => j = i) => n = i

\* A token's item is the only one with its id, if it is kept at all.
LEMMA ItemOf ==
    ASSUME NEW h, NEW T, NEW n \in Nat, Items(h, T, n + 1), NEW id, id + 1 \in 1 .. n,
           id \in Int
    PROVE  /\ ~Punct(h, id + 1) => \E i \in 1 .. Len(T) : T[i].id = id
           /\ Punct(h, id + 1) => ~ \E i \in 1 .. Len(T) : T[i].id = id
           /\ \A i, j \in 1 .. Len(T) : T[i].id = T[j].id => i = j
<1>1. Len(T) \in Nat
  BY ListedShape DEF Items
<1>2. ~Punct(h, id + 1) => \E i \in 1 .. Len(T) : T[i].id = id
  <2>1. \A m \in 1 .. n + 1 - 1 : Punct(h, m) \/ \E i \in 1 .. Len(T) : T[i].id = m - 1
    BY DEF Items
  <2>2. id + 1 \in 1 .. n + 1 - 1 /\ id + 1 - 1 = id
    OBVIOUS
  <2> QED
    BY <2>1, <2>2
<1>3. Punct(h, id + 1) => ~ \E i \in 1 .. Len(T) : T[i].id = id
  BY DEF Items, IsItem
<1>4. ASSUME NEW i \in 1 .. Len(T), NEW j \in 1 .. Len(T), T[i].id = T[j].id, i # j
      PROVE  FALSE
  <2>1. T[i].id \in Int /\ (i < j => T[i].id < T[j].id) /\ (j < i => T[j].id < T[i].id)
    BY DEF Items
  <2>2. i < j \/ j < i
    BY <1>4
  <2> QED
    BY <1>4, <2>1, <2>2
<1> QED
  BY <1>2, <1>3, <1>4

\* The token that is read for a word is one of the tokens.
LEMMA ParentRead ==
    ASSUME NEW h, Regular(h), NEW w \in 1 .. Len(h.words)
    PROVE  ReadParent(h)[w] + 1 \in 1 .. Len(h.tokens) /\ ReadParent(h)[w] \in Int
<1>1. w \in DOMAIN h.words /\ Len(h.tokens) \in Nat
  BY ListedShape DEF Regular
<1>2. ReadParent(h)[w] = IF w = Len(h.words) THEN 0 ELSE h.words[w].parent
  BY <1>1 DEF ReadParent
<1>3. h.words[w].parent \in 0 .. Len(h.tokens) - 1
  BY DEF Regular
<1> QED
  BY <1>1, <1>2, <1>3

\* utt_add_word_to_token: a word is added where it belongs, or is not said.
Added(h, T, W, w, V) ==
  IF w \in SaidWords(h)
  THEN \E i \in 1 .. Len(T) :
         /\ T[i].id = ReadParent(h)[w]
         /\ V = Append(W, [name |-> Field("name", h.words[w].spelling), token |-> i])
  ELSE V = W

\* The words before it stay at their places, and it gets its own.
LEMMA WordPlaced ==
    ASSUME NEW h, Regular(h), NEW w \in 1 .. Len(h.words), NEW T, NEW W, NEW V,
           WordsPlaced(h, T, W, w), Added(h, T, W, w, V)
    PROVE  WordsPlaced(h, T, V, w + 1)
<1>1. /\ PlaceOf(h, w - 1) \in Nat
      /\ PlaceOf(h, w) = PlaceOf(h, w - 1) + IF w \in SaidWords(h) THEN 1 ELSE 0
  BY PlaceCounts DEF Regular
<1>2. PICK n \in Nat : n = Len(W) /\ n = PlaceOf(h, w - 1)
  BY <1>1 DEF WordsPlaced
<1>3. Listed(W) /\ \A v \in 1 .. w - 1 : v \in SaidWords(h) => AtPlace(h, T, W, v)
  BY DEF WordsPlaced
<1>4. w + 1 - 1 = w /\ w \in Int /\ \A v \in 1 .. w : v = w \/ v \in 1 .. w - 1
  BY DEF Regular
<1>5. CASE w \in SaidWords(h)
  <2>1. PICK i, e :
          /\ i \in 1 .. Len(T)
          /\ T[i].id = ReadParent(h)[w]
          /\ e = [name |-> Field("name", h.words[w].spelling), token |-> i]
          /\ V = Append(W, e)
    BY <1>5 DEF Added
  <2>2. Listed(V) /\ Len(V) = n + 1 /\ V[n + 1] = e /\ \A k \in 1 .. n : V[k] = W[k]
    <3>1. /\ Listed(Append(W, e)) /\ Len(Append(W, e)) = Len(W) + 1
          /\ \A k \in 1 .. Len(W) : Append(W, e)[k] = W[k]
          /\ Append(W, e)[Len(W) + 1] = e
      BY <1>3, ListedAppend
    <3> QED
      BY <1>2, <2>1, <3>1
  <2>3. Len(V) = PlaceOf(h, w)
    BY <1>1, <1>2, <1>5, <2>2
  <2>4. AtPlace(h, T, V, w)
    <3>1. PlaceOf(h, w) = n + 1 /\ n + 1 \in 1 .. n + 1
      BY <1>1, <1>2, <1>5
    <3> QED
      BY <2>1, <2>2, <3>1 DEF AtPlace
  <2>5. ASSUME NEW v \in 1 .. w - 1, v \in SaidWords(h) PROVE AtPlace(h, T, V, v)
    <3>1. AtPlace(h, T, W, v)
      BY <1>3, <2>5
    <3>2. PlaceOf(h, v) \in 1 .. n
      BY <1>2, <3>1 DEF AtPlace
    <3>3. PlaceOf(h, v) \in 1 .. n + 1 /\ V[PlaceOf(h, v)] = W[PlaceOf(h, v)]
      BY <2>2, <3>2
    <3> QED
      BY <2>2, <3>1, <3>3 DEF AtPlace
  <2> QED
    BY <1>4, <2>2, <2>3, <2>4, <2>5 DEF WordsPlaced
<1>6. CASE w \notin SaidWords(h)
  <2>1. V = W /\ Len(W) = PlaceOf(h, w)
    BY <1>1, <1>2, <1>6 DEF Added
  <2> QED
    BY <1>3, <1>4, <1>6, <2>1 DEF WordsPlaced
<1> QED
  BY <1>5, <1>6

\* utt_add_word_to_token does add it there.
LEMMA WordAdded ==
    ASSUME NEW h, Regular(h), NEW w \in 1 .. Len(h.words), NEW T,
           Items(h, T, Len(h.tokens) + 1), NEW W,
           NEW id, id = ReadParent(h)[w],
           NEW name, name = Field("name", h.words[w].spelling), NEW n, Finds(T, id, n),
           NEW V, V = IF \E k \in DOMAIN T : T[k].id = id
                      THEN Append(W, [name |-> name, token |-> n]) ELSE W
    PROVE  Added(h, T, W, w, V)
<1>1. id + 1 \in 1 .. Len(h.tokens) /\ id \in Int
  BY ParentRead
<1>2. Len(h.tokens) \in Nat /\ Len(T) \in Nat /\ DOMAIN T = 1 .. Len(T)
  BY ListedShape DEF Regular, Items
<1>3. w \in SaidWords(h) <=> ~Punct(h, id + 1)
  <2>1. w \in DOMAIN h.words
    BY ListedShape DEF Regular
  <2> QED
    BY <2>1 DEF SaidWords
<1>4. /\ ~Punct(h, id + 1) => \E i \in 1 .. Len(T) : T[i].id = id
      /\ Punct(h, id + 1) => ~ \E i \in 1 .. Len(T) : T[i].id = id
      /\ \A i, j \in 1 .. Len(T) : T[i].id = T[j].id => i = j
  <2>1. PICK m \in Nat : m = Len(h.tokens)
    BY <1>2
  <2>2. Items(h, T, m + 1) /\ id + 1 \in 1 .. m
    BY <1>1, <2>1
  <2> QED
    BY ONLY <1>1, <2>2, ItemOf
<1>5. CASE w \in SaidWords(h)
  <2>1. PICK i \in 1 .. Len(T) : T[i].id = id
    BY <1>3, <1>4, <1>5
  <2>2. n = i
    BY <1>4, <2>1 DEF Finds
  <2> QED
    BY <1>2, <1>5, <2>1, <2>2 DEF Added
<1>6. CASE w \notin SaidWords(h)
  BY <1>2, <1>3, <1>4, <1>6 DEF Added
<1> QED
  BY <1>5, <1>6

-----------------------------------------------------------------------------
(* The utterance while the listing is read.                                *)

UttFields == {"at", "ts", "Token", "Word", "pending"}

\* The k-th token's line comes next.
AtToken(h, u, k) ==
  /\ u.at = "reading" /\ u.Word = <<>> /\ u.ts = TokenLines(h)[k]
  /\ Items(h, u.Token, k) /\ Marks(h, u.Token, u.pending, k)

\* All tokens are read, and the w-th word's line comes next.
AtWord(h, u, w) ==
  /\ u.at \in {"reading", "done"} /\ u.ts = WordLines(h)[w]
  /\ Items(h, u.Token, Len(h.tokens) + 1)
  /\ Marks(h, u.Token, u.pending, Len(h.tokens) + 1)
  /\ WordsPlaced(h, u.Token, u.Word, w)
  /\ u.at = "done" => w = Len(h.words) + 1

Read(h, u) ==
  \/ \E k \in 1 .. Len(h.tokens) : AtToken(h, u, k)
  \/ \E w \in 1 .. Len(h.words) + 1 : AtWord(h, u, w)

\* After the last token's line comes the first word's.
LEMMA TokenOrWord ==
    ASSUME NEW h, Regular(h), NEW u, NEW k \in 1 .. Len(h.tokens) + 1, AtToken(h, u, k)
    PROVE  Read(h, u)
<1>1. Len(h.tokens) \in Nat /\ Len(h.words) \in Nat
  BY ListedShape DEF Regular
<1>2. CASE k = Len(h.tokens) + 1
  <2>1. TokenLines(h)[k] = WordLines(h)[1]
    BY <1>2, TokenLinesAre DEF Regular
  <2>2. WordsPlaced(h, u.Token, u.Word, 1)
    BY NoWords DEF Regular, AtToken
  <2>3. AtWord(h, u, 1) /\ 1 \in 1 .. Len(h.words) + 1
    BY <1>1, <1>2, <2>1, <2>2 DEF AtToken, AtWord
  <2> QED
    BY <2>3 DEF Read
<1>3. CASE k # Len(h.tokens) + 1
  <2>1. k \in 1 .. Len(h.tokens)
    BY <1>1, <1>3
  <2> QED
    BY <2>1 DEF Read
<1> QED
  BY <1>2, <1>3

\* The listing is read from its first line.
LEMMA ListingBegins ==
    ASSUME NEW h, Regular(h), NEW u, u.at = "reading", u.Word = <<>>, u.Token = <<>>,
           u.pending = <<>>, u.ts = ShowLinks(h)
    PROVE  Read(h, u)
<1>1. 1 \in 1 .. Len(h.tokens) + 1
  BY ListedShape DEF Regular
<1>2. AtToken(h, u, 1)
  BY NoItems DEF AtToken, ShowLinks
<1> QED
  BY <1>1, <1>2, TokenOrWord

\* AddToken's item is the token's.
LEMMA NewItem ==
    ASSUME NEW h, NEW k, ~Punct(h, k), NEW name, NEW indices, NEW q,
           h.words # <<>> => name = Named(h, k) /\ indices = Words(h, k),
           NEW e, e = [id |-> k - 1, name |-> name, w_start |-> indices.v[1],
                       w_end |-> indices.v[2], prepunctuation |-> q, punc |-> <<>>]
    PROVE  IsItem(h, e, k) /\ e.prepunctuation = q /\ e.punc = <<>>
<1>1. DOMAIN e = ItemFields /\ e.id = k - 1 /\ e.name = name
  BY DEF ItemFields
<1>2. ASSUME h.words # <<>>
      PROVE  e.w_start = Daughter(h.tokens[k].first) /\ e.w_end = Daughter(h.tokens[k].last)
  <2>1. indices.v = <<Daughter(h.tokens[k].first), Daughter(h.tokens[k].last)>>
    BY <1>2 DEF Words, Field
  <2>2. indices.v[1] = Daughter(h.tokens[k].first) /\ indices.v[2] = Daughter(h.tokens[k].last)
    BY <2>1
  <2> QED
    BY <2>2
<1> QED
  BY <1>1, <1>2 DEF IsItem

\* A token's line is read, whether it is one of a mark or not.
LEMMA TokenStep ==
    ASSUME NEW h, Regular(h), NEW k \in 1 .. Len(h.tokens), AtToken(h, utt, k),
           DOMAIN utt = UttFields, ReadToken
    PROVE  AtToken(h, utt', k + 1) /\ DOMAIN utt' = UttFields
<1>1. TokenLineRead(h, k)
  BY TokenRead DEF Regular, AtToken
<1> DEFINE name == ReadName
           n    == ReadAt
           ts   == From(n + 2)
<1>2. /\ Nth(2).v = k - 1
      /\ IsMark(name) <=> Punct(h, k)
      /\ Punct(h, k) => name.v = NameOf(h, k)
      /\ h.words # <<>> => name = Named(h, k) /\ Indices(Nth(n + 1)) = Words(h, k)
      /\ ts = TokenLines(h)[k + 1]
  BY <1>1 DEF TokenLineRead
<1>3. utt' = [IF IsMark(name) THEN AddMark(name, Indices(Nth(n)))
              ELSE AddToken(Nth(2).v, name, Indices(Nth(n + 1))) EXCEPT !.ts = ts]
  BY DEF ReadToken, ReadName, ReadAt
<1> HIDE DEF name, n, ts
<1>4. utt.at = "reading" /\ utt.Word = <<>> /\ Items(h, utt.Token, k)
      /\ Marks(h, utt.Token, utt.pending, k)
  BY DEF AtToken
<1>5. k \in Nat /\ k >= 1
  BY DEF Regular
<1>6. CASE ~IsMark(name)
  <2>1. PICK e : e = [id |-> k - 1, name |-> name, w_start |-> Indices(Nth(n + 1)).v[1],
                      w_end |-> Indices(Nth(n + 1)).v[2],
                      prepunctuation |-> utt.pending, punc |-> <<>>]
    OBVIOUS
  <2>2. utt' = [[utt EXCEPT !.Token = Append(utt.Token, e), !.pending = <<>>] EXCEPT !.ts = ts]
    BY <1>2, <1>3, <1>6, <2>1 DEF AddToken
  <2>3. /\ DOMAIN utt' = UttFields /\ utt'.at = "reading" /\ utt'.Word = <<>> /\ utt'.ts = ts
        /\ utt'.Token = Append(utt.Token, e) /\ utt'.pending = <<>>
    BY <1>4, <2>2 DEF UttFields
  <2>4. IsItem(h, e, k) /\ e.prepunctuation = utt.pending /\ e.punc = <<>>
    BY <1>2, <1>6, <2>1, NewItem
  <2>5. Items(h, Append(utt.Token, e), k + 1) /\ Marks(h, Append(utt.Token, e), <<>>, k + 1)
    BY <1>4, <1>5, <2>4, ItemAdded
  <2> QED
    BY <1>2, <2>3, <2>5 DEF AtToken
<1>7. CASE IsMark(name) /\ Prepunctuation(Indices(Nth(n)))
  <2>1. utt' = [[utt EXCEPT !.pending = Append(utt.pending, NameOf(h, k))] EXCEPT !.ts = ts]
    BY <1>2, <1>3, <1>7 DEF AddMark
  <2>2. /\ DOMAIN utt' = UttFields /\ utt'.at = "reading" /\ utt'.Word = <<>> /\ utt'.ts = ts
        /\ utt'.Token = utt.Token /\ utt'.pending = Append(utt.pending, NameOf(h, k))
    BY <1>4, <2>1 DEF UttFields
  <2>3. Items(h, utt.Token, k + 1)
    BY <1>2, <1>4, <1>5, <1>7, MarkPassed
  <2>4. Marks(h, utt.Token, Append(utt.pending, NameOf(h, k)), k + 1)
    BY <1>4, <1>5, MarkPending
  <2> QED
    BY <1>2, <2>2, <2>3, <2>4 DEF AtToken
<1>8. CASE IsMark(name) /\ ~Prepunctuation(Indices(Nth(n)))
  <2>1. utt.Token # <<>> /\ utt.pending = <<>> /\ Punct(h, k)
    BY <1>2, <1>8 DEF Prepunctuation
  <2>2. PICK N \in Nat : N = Len(utt.Token) /\ N > 0
    BY <1>4, <2>1, ListedShape DEF Items
  <2>3. PICK e : e = [utt.Token[N] EXCEPT !.punc = Append(utt.Token[N].punc, NameOf(h, k))]
    OBVIOUS
  <2>4. utt' = [[utt EXCEPT !.Token = [utt.Token EXCEPT ![N] = e]] EXCEPT !.ts = ts]
    BY <1>2, <1>3, <1>8, <2>2, <2>3 DEF AddMark
  <2>5. /\ DOMAIN utt' = UttFields /\ utt'.at = "reading" /\ utt'.Word = <<>> /\ utt'.ts = ts
        /\ utt'.Token = [utt.Token EXCEPT ![N] = e] /\ utt'.pending = <<>>
    BY <1>4, <2>1, <2>4 DEF UttFields
  <2>6. Items(h, [utt.Token EXCEPT ![N] = e], k + 1) /\ Marks(h, [utt.Token EXCEPT ![N] = e], <<>>, k + 1)
    BY <1>4, <1>5, <2>1, <2>2, <2>3, MarkGiven
  <2> QED
    BY <1>2, <2>5, <2>6 DEF AtToken
<1> QED
  BY <1>6, <1>7, <1>8

\* A word's line is read.
LEMMA WordStep ==
    ASSUME NEW h, Regular(h), NEW w \in 1 .. Len(h.words), AtWord(h, utt, w),
           DOMAIN utt = UttFields, utt.at = "reading", ReadWord
    PROVE  AtWord(h, utt', w + 1) /\ DOMAIN utt' = UttFields
<1>1. /\ Nth(3) = Field("name", h.words[w].spelling)
      /\ IF w = Len(h.words) THEN Nth(4).is = "empty" /\ WordLines(h)[w + 1] = <<>>
         ELSE /\ Nth(4).is = "number" /\ Nth(4).v = h.words[w].parent
              /\ From(5) = WordLines(h)[w + 1]
  BY WordRead DEF Regular, AtWord
<1>2. ReadParent(h)[w] = IF w = Len(h.words) THEN 0 ELSE h.words[w].parent
  <2>1. w \in DOMAIN h.words
    BY ListedShape DEF Regular
  <2> QED
    BY <2>1 DEF ReadParent
<1>3. PICK id : id = ReadParent(h)[w]
  OBVIOUS
<1>4. utt' = [utt_add_word_to_token(Nth(3), id) EXCEPT !.ts = WordLines(h)[w + 1]]
  <2>1. CASE w = Len(h.words)
    <3>1. Nth(4).is = "empty" /\ Nth(4).is # "number" /\ id = 0 /\ WordLines(h)[w + 1] = <<>>
      BY <1>1, <1>2, <1>3, <2>1
    <3> QED
      BY <3>1 DEF ReadWord
  <2>2. CASE w # Len(h.words)
    <3>1. Nth(4).is = "number" /\ Nth(4).is # "empty" /\ Nth(4).v = id
          /\ From(5) = WordLines(h)[w + 1]
      BY <1>1, <1>2, <1>3, <2>2
    <3> QED
      BY <3>1 DEF ReadWord
  <2> QED
    BY <2>1, <2>2
<1>5. PICK V : V = IF \E k \in DOMAIN utt.Token : utt.Token[k].id = id
                   THEN Append(utt.Word,
                          [name |-> Nth(3), token |-> SelectInSeq(utt.Token, LAMBDA t : t.id = id)])
                   ELSE utt.Word
  OBVIOUS
<1>6. /\ DOMAIN utt' = UttFields /\ utt'.at = "reading" /\ utt'.ts = WordLines(h)[w + 1]
      /\ utt'.Token = utt.Token /\ utt'.pending = utt.pending /\ utt'.Word = V
  <2>1. CASE \E k \in DOMAIN utt.Token : utt.Token[k].id = id
    <3>1. utt' = [[utt EXCEPT !.Word = V] EXCEPT !.ts = WordLines(h)[w + 1]]
      BY <1>4, <1>5, <2>1 DEF utt_add_word_to_token
    <3> QED
      BY <3>1 DEF UttFields
  <2>2. CASE ~ \E k \in DOMAIN utt.Token : utt.Token[k].id = id
    <3>1. utt' = [utt EXCEPT !.ts = WordLines(h)[w + 1]] /\ V = utt.Word
      BY <1>4, <1>5, <2>2 DEF utt_add_word_to_token
    <3> QED
      BY <3>1 DEF UttFields
  <2> QED
    BY <2>1, <2>2
<1>7. Added(h, utt.Token, utt.Word, w, V)
  <2>1. Items(h, utt.Token, Len(h.tokens) + 1)
    BY DEF AtWord
  <2>2. PICK T, W, name : T = utt.Token /\ W = utt.Word /\ name = Nth(3)
    OBVIOUS
  <2>3. PICK n : n = SelectInSeq(T, LAMBDA t : t.id = id)
    OBVIOUS
  <2>4. Finds(T, id, n)
    <3> SUFFICES ASSUME NEW i \in 1 .. Len(T), T[i].id = id,
                        \A j \in 1 .. Len(T) : T[j].id = id => j = i
                 PROVE  n = i
      BY DEF Finds
    <3> DEFINE I == {j \in 1 .. Len(T) : T[j].id = id}
    <3>1. I = {i}
      OBVIOUS
    <3>2. Min({i}) = i
      <4>1. i <= i
        <5>1. Len(T) \in Nat
          BY <2>1, <2>2, ListedShape DEF Items
        <5> QED
          BY <5>1
      <4> QED
        BY <4>1 DEF Min
    <3>3. n = IF I # {} THEN Min(I) ELSE 0
      BY <2>3 DEF SelectInSeq
    <3> HIDE DEF I
    <3> QED
      BY <3>1, <3>2, <3>3
  <2>5. Items(h, T, Len(h.tokens) + 1) /\ name = Field("name", h.words[w].spelling)
    BY <1>1, <2>1, <2>2
  <2>6. V = IF \E k \in DOMAIN T : T[k].id = id
            THEN Append(W, [name |-> name, token |-> n]) ELSE W
    BY <1>5, <2>2, <2>3
  <2>7. Added(h, T, W, w, V)
    BY <1>3, <2>4, <2>5, <2>6, WordAdded
  <2> QED
    BY <2>2, <2>7
<1>8. WordsPlaced(h, utt.Token, V, w + 1)
  <2>1. WordsPlaced(h, utt.Token, utt.Word, w)
    BY DEF AtWord
  <2> QED
    BY <1>7, <2>1, WordPlaced
<1> QED
  BY <1>6, <1>8 DEF AtWord

\* A step reads the line that comes next, and all of it.
LEMMA ReadStep ==
    ASSUME NEW h, Regular(h), Read(h, utt), DOMAIN utt = UttFields,
           FT_Sparrowhawk_Normalize_Utt
    PROVE  Read(h, utt') /\ DOMAIN utt' = UttFields
<1>1. utt.at = "reading"
  BY DEF FT_Sparrowhawk_Normalize_Utt
<1>2. Len(h.tokens) \in Nat /\ Len(h.words) \in Nat
  BY ListedShape DEF Regular
<1>3. ASSUME NEW k \in 1 .. Len(h.tokens), AtToken(h, utt, k)
      PROVE  Read(h, utt') /\ DOMAIN utt' = UttFields
  <2>1. Nth(1).is = "Token:"
    <3>1. TokenLineRead(h, k)
      BY <1>3, TokenRead DEF Regular, AtToken
    <3> QED
      BY <3>1 DEF TokenLineRead
  <2>2. ReadToken
    BY <2>1 DEF FT_Sparrowhawk_Normalize_Utt, ReadWord
  <2>3. AtToken(h, utt', k + 1) /\ DOMAIN utt' = UttFields
    BY <1>3, <2>2, TokenStep
  <2>4. k + 1 \in 1 .. Len(h.tokens) + 1
    BY <1>2
  <2> QED
    BY <2>3, <2>4, TokenOrWord
<1>4. ASSUME NEW w \in 1 .. Len(h.words) + 1, AtWord(h, utt, w)
      PROVE  Read(h, utt') /\ DOMAIN utt' = UttFields
  <2>1. CASE w = Len(h.words) + 1
    <3>1. utt.ts = <<>>
      BY <1>4, <2>1, WordLinesAre DEF AtWord, Regular
    <3>2. Nth(1).is = "empty"
      <4>1. ~(1 < Len(utt.ts))
        BY <3>1, ShapedEmpty
      <4> QED
        BY <4>1 DEF Nth, Mark, Field
    <3>3. utt' = [utt EXCEPT !.at = "done"]
      BY <3>2 DEF FT_Sparrowhawk_Normalize_Utt, ReadToken, ReadWord
    <3>4. /\ DOMAIN utt' = UttFields /\ utt'.at = "done" /\ utt'.ts = utt.ts
          /\ utt'.Token = utt.Token /\ utt'.pending = utt.pending /\ utt'.Word = utt.Word
      BY <3>3 DEF UttFields
    <3>5. AtWord(h, utt', w)
      BY <1>4, <2>1, <3>4 DEF AtWord
    <3> QED
      BY <3>4, <3>5 DEF Read
  <2>2. CASE w # Len(h.words) + 1
    <3>1. w \in 1 .. Len(h.words) /\ w + 1 \in 1 .. Len(h.words) + 1
      BY <1>2, <2>2
    <3>2. Nth(1).is = "Word:"
      BY <1>4, <3>1, WordRead DEF Regular, AtWord
    <3>3. ReadWord
      BY <3>2 DEF FT_Sparrowhawk_Normalize_Utt, ReadToken
    <3>4. AtWord(h, utt', w + 1) /\ DOMAIN utt' = UttFields
      BY <1>1, <1>4, <3>1, <3>3, WordStep
    <3> QED
      BY <3>1, <3>4 DEF Read
  <2> QED
    BY <2>1, <2>2
<1> QED
  BY <1>3, <1>4 DEF Read
-----------------------------------------------------------------------------
\* The inductive invariant: with Verbalized, what the utterance has of a listing
\* that can be read.
Listing ==
  /\ DOMAIN utt = UttFields
  /\ utt.at = "normalizing" => utt.Token = <<>> /\ utt.Word = <<>> /\ utt.pending = <<>>
  /\ utt.at # "normalizing" =>
       /\ Normalized
       /\ pc # "parsed" => utt.at # "exited" /\ utt.ts = <<>>
       /\ pc = "parsed" /\ Aligned => Read(Utterance, utt)

\* The words have spellings, and the normalizer gave them their tokens.
LEMMA UtteranceRegular ==
    ASSUME Verbalized, Aligned
    PROVE  Regular(Utterance)
<1>1. Utterance.tokens = tokens /\ Utterance.words = words
  BY DEF Utterance
<1>2. /\ Listed(tokens) /\ Listed(words) /\ next \in 1 .. Len(tokens) + 1
      /\ \A w \in 1 .. Len(words) : Below(tokens, next, words, w)
  BY DEF Verbalized, Daughters, Shaped
<1>3. DOMAIN words = 1 .. Len(words) /\ Len(tokens) \in Nat
  BY <1>2, ListedShape
<1>4. ASSUME NEW w \in 1 .. Len(words)
      PROVE  words[w].spelling # <<>> /\ words[w].parent \in 0 .. Len(tokens) - 1
  <2>1. words[w].spelling # <<>>
    BY <1>3 DEF Aligned
  <2>2. words[w].parent \in 0 .. next - 2
    BY <1>2 DEF Below
  <2> QED
    BY <1>2, <1>3, <2>1, <2>2
<1> QED
  BY <1>1, <1>2, <1>4 DEF Regular

\* What is read changes the utterance's fields, and not which it has.
LEMMA FieldsKept ==
    ASSUME DOMAIN utt = UttFields, FT_Sparrowhawk_Normalize_Utt
    PROVE  DOMAIN utt' = UttFields /\ utt'.at # "normalizing"
<1>1. utt.at = "reading"
  BY DEF FT_Sparrowhawk_Normalize_Utt
<1>2. ASSUME NEW u, DOMAIN u = UttFields, u.at = "reading", NEW ts, utt' = [u EXCEPT !.ts = ts]
      PROVE  DOMAIN utt' = UttFields /\ utt'.at # "normalizing"
  BY <1>2 DEF UttFields
<1>3. CASE ReadToken
  <2> DEFINE name == IF Unnamed THEN SemioticClassName ELSE Nth(3)
             n    == IF Unnamed THEN 3 ELSE 4
             u    == IF IsMark(name) THEN AddMark(name, Indices(Nth(n)))
                     ELSE AddToken(Nth(2).v, name, Indices(Nth(n + 1)))
  <2>1. utt' = [u EXCEPT !.ts = From(n + 2)]
    BY <1>3 DEF ReadToken
  <2> HIDE DEF name, n
  <2>2. ASSUME NEW indices
        PROVE  LET v == AddMark(name, indices) IN DOMAIN v = UttFields /\ v.at = "reading"
    BY <1>1 DEF AddMark, UttFields
  <2>3. ASSUME NEW indices, NEW id
        PROVE  LET v == AddToken(id, name, indices) IN DOMAIN v = UttFields /\ v.at = "reading"
    BY <1>1 DEF AddToken, UttFields
  <2>4. DOMAIN u = UttFields /\ u.at = "reading"
    BY <2>2, <2>3
  <2> HIDE DEF u
  <2> QED
    BY <1>2, <2>1, <2>4
<1>4. CASE ReadWord
  <2>1. ASSUME NEW id
        PROVE  LET v == utt_add_word_to_token(Nth(3), id) IN
               DOMAIN v = UttFields /\ v.at = "reading"
    BY <1>1 DEF utt_add_word_to_token, UttFields
  <2>2. \/ \E id, ts : utt' = [utt_add_word_to_token(Nth(3), id) EXCEPT !.ts = ts]
        \/ utt' = [utt EXCEPT !.at = "exited"]
    BY <1>4 DEF ReadWord
  <2>3. CASE utt' = [utt EXCEPT !.at = "exited"]
    BY <2>3 DEF UttFields
  <2>4. CASE \E id, ts : utt' = [utt_add_word_to_token(Nth(3), id) EXCEPT !.ts = ts]
    <3>1. PICK id, ts : utt' = [utt_add_word_to_token(Nth(3), id) EXCEPT !.ts = ts]
      BY <2>4
    <3>2. PICK v : v = utt_add_word_to_token(Nth(3), id)
      OBVIOUS
    <3>3. DOMAIN v = UttFields /\ v.at = "reading"
      BY <2>1, <3>2
    <3> QED
      BY <1>2, <3>1, <3>2, <3>3
  <2> QED
    BY <2>2, <2>3, <2>4
<1>5. CASE utt' = [utt EXCEPT !.at = "done"]
  BY <1>5 DEF UttFields
<1> QED
  BY <1>3, <1>4, <1>5 DEF FT_Sparrowhawk_Normalize_Utt

\* Nothing is read in the beginning.
LEMMA StartListing == Start0 => Listing
BY DEF Start0, Listing, UttFields

\* Every step keeps it: the normalizer has ended when the listing begins.
LEMMA ListingKept == Verbalized /\ Listing /\ [Next]_vars => Listing'
<1> SUFFICES ASSUME Verbalized, Listing, [Next]_vars PROVE Listing'
  OBVIOUS
<1>1. CASE Normalize /\ UNCHANGED utt
  <2>1. utt.at = "normalizing"
    <3>1. ~Normalized
      <4>1. CASE TokenizeAndClassifyUtt
        <5>1. pc \notin {"parsed", "failed", "refused"}
          BY <4>1, ParsedOnce DEF TokenizeAndClassifyUtt, RulesFail, Parse, ConsumeLabel,
             ConsumeWhitespace, Dispatch, ParseFieldValue, ParseQuotedFieldValue
        <5> QED
          BY <5>1 DEF Normalized
      <4>2. CASE VerbalizeUtt
        <5>1. pc = "parsed" /\ next <= Len(tokens)
          BY <4>2 DEF VerbalizeUtt
        <5>2. next \in Int /\ Len(tokens) \in Int
          BY ListedShape DEF Verbalized, Daughters, Shaped
        <5> QED
          BY <5>1, <5>2 DEF Normalized
      <4> QED
        BY <1>1, <4>1, <4>2 DEF Normalize
    <3> QED
      BY <3>1 DEF Listing
  <2> QED
    BY <1>1, <2>1 DEF Listing
<1>2. CASE NormalizeAndShowLinks
  <2>1. /\ utt.at = "normalizing" /\ Normalized /\ UNCHANGED normalizer
        /\ utt' = [utt EXCEPT !.at = "reading",
                              !.ts = IF pc = "parsed" THEN ShowLinks(Utterance) ELSE <<>>]
    BY <1>2 DEF NormalizeAndShowLinks
  <2>2. /\ DOMAIN utt' = UttFields /\ utt'.at = "reading"
        /\ utt'.ts = IF pc = "parsed" THEN ShowLinks(Utterance) ELSE <<>>
        /\ utt'.Token = <<>> /\ utt'.pending = <<>> /\ utt'.Word = <<>>
    BY <2>1 DEF Listing, UttFields
  <2>3. /\ Normalized' /\ pc' = pc /\ (Aligned' <=> Aligned) /\ Utterance' = Utterance
    BY <2>1 DEF normalizer, parser, Normalized, Aligned, Utterance
  <2>4. ASSUME pc = "parsed", Aligned PROVE Read(Utterance, utt')
    <3>1. utt'.ts = ShowLinks(Utterance)
      BY <2>2, <2>4
    <3>2. Regular(Utterance)
      BY <2>4, UtteranceRegular
    <3> QED
      BY <2>2, <3>1, <3>2, ListingBegins
  <2> QED
    BY <2>2, <2>3, <2>4 DEF Listing
<1>3. CASE FT_Sparrowhawk_Normalize_Utt
  <2>1. utt.at = "reading" /\ UNCHANGED normalizer
    BY <1>3 DEF FT_Sparrowhawk_Normalize_Utt
  <2>2. /\ Normalized' /\ pc' = pc /\ (Aligned' <=> Aligned) /\ Utterance' = Utterance
    BY <2>1 DEF normalizer, parser, Normalized, Aligned, Utterance, Listing
  <2>3. DOMAIN utt' = UttFields /\ utt'.at # "normalizing"
    BY <1>3, FieldsKept DEF Listing
  <2>4. ASSUME pc # "parsed" PROVE utt'.at # "exited" /\ utt'.ts = <<>>
    <3>1. utt.ts = <<>> /\ ~(1 < Len(utt.ts))
      BY <2>1, <2>4, ShapedEmpty DEF Listing
    <3>2. Nth(1).is = "empty"
      BY <3>1 DEF Nth, Mark, Field
    <3>3. utt' = [utt EXCEPT !.at = "done"]
      BY <1>3, <3>2 DEF FT_Sparrowhawk_Normalize_Utt, ReadToken, ReadWord
    <3> QED
      BY <3>1, <3>3 DEF Listing, UttFields
  <2>5. ASSUME pc = "parsed", Aligned PROVE Read(Utterance, utt')
    <3>1. Read(Utterance, utt) /\ DOMAIN utt = UttFields
      BY <2>1, <2>5 DEF Listing
    <3>2. Regular(Utterance)
      BY <2>5, UtteranceRegular
    <3> QED
      BY <1>3, <3>1, <3>2, ReadStep
  <2> QED
    BY <2>2, <2>3, <2>4, <2>5 DEF Listing
<1>4. CASE UNCHANGED vars
  BY <1>4 DEF vars, normalizer, parser, Listing, Normalized, Aligned, Utterance
<1> QED
  BY <1>1, <1>2, <1>3, <1>4 DEF Next

-----------------------------------------------------------------------------
(* What it says of the relations.                                          *)

\* The names of the tokens from the f-th to the u-th.
Between(h, f, u) ==
  LET all == SubSeq(h.tokens, f, u) IN [m \in DOMAIN all |-> all[m].name[1]]

\* The length and the elements of Between.
LEMMA BetweenIs ==
    ASSUME NEW h, Listed(h.tokens), NEW f \in Int, NEW u \in Int,
           1 <= f, f <= u + 1, u <= Len(h.tokens)
    PROVE  /\ Listed(Between(h, f, u)) /\ Len(Between(h, f, u)) = u - f + 1
           /\ \A m \in 1 .. u - f + 1 : Between(h, f, u)[m] = NameOf(h, f + m - 1)
<1> DEFINE s == SubSeq(h.tokens, f, u)
<1>1. PICK n \in Nat : n = u - f + 1
  OBVIOUS
<1>2. Listed(s) /\ Len(s) = n /\ \A m \in 1 .. n : s[m] = h.tokens[f + m - 1]
  <2>1. /\ Listed(s) /\ Len(s) = IF f <= u THEN u - f + 1 ELSE 0
        /\ \A m \in 1 .. u - f + 1 : s[m] = h.tokens[f + m - 1]
    BY ListedStretch
  <2>2. IF f <= u THEN TRUE ELSE n = 0
    BY <1>1
  <2> QED
    BY <1>1, <2>1, <2>2
<1> HIDE DEF s
<1>3. DOMAIN s = 1 .. n
  BY <1>2, ListedShape
<1>4. Between(h, f, u) = [m \in 1 .. n |-> s[m].name[1]]
  BY <1>3 DEF Between, s
<1>5. PICK b : b = Between(h, f, u)
  OBVIOUS
<1>6. b = [m \in 1 .. n |-> s[m].name[1]]
  BY <1>4, <1>5
<1>7. Listed(b) /\ Len(b) = n
  <2>1. DOMAIN b = DOMAIN s /\ b = [j \in DOMAIN b |-> b[j]]
    BY <1>3, <1>6
  <2> QED
    BY <1>2, <2>1, ListedFunction
<1>8. \A m \in 1 .. n : b[m] = NameOf(h, f + m - 1)
  BY <1>2, <1>6 DEF NameOf
<1> QED
  BY <1>1, <1>5, <1>7, <1>8

\* What is between two items is, in order, what was between their tokens.
LEMMA GapNames ==
    ASSUME NEW h, Listed(h.tokens), NEW f \in Int, NEW u \in Int, 1 <= f, u <= Len(h.tokens),
           NEW b, NEW a, InGap(h, b, a, f, u)
    PROVE  b \o a = Between(h, f, u) /\ f <= u + 1
<1>1. PICK l \in Nat, m \in Nat : l = Len(b) /\ m = Len(a) /\ l + m = u - f + 1
  BY ListedShape DEF InGap
<1>2. f <= u + 1
  BY <1>1
<1>3. PICK s, t : s = b \o a /\ t = Between(h, f, u)
  OBVIOUS
<1>4. Listed(t) /\ Len(t) = l + m /\ \A j \in 1 .. l + m : t[j] = NameOf(h, f + j - 1)
  BY <1>1, <1>2, <1>3, BetweenIs
<1>5. Joined(s, b, a)
  BY <1>3, ConcatJoins DEF InGap
<1>6. ASSUME NEW j \in 1 .. l + m PROVE s[j] = NameOf(h, f + j - 1)
  <2>1. CASE j <= l
    <3>1. j \in 1 .. l
      BY <2>1
    <3>2. s[j] = b[j]
      BY <1>1, <1>5, <3>1 DEF Joined
    <3>3. b[j] = NameOf(h, f + j - 1)
      BY <1>1, <3>1 DEF InGap
    <3> QED
      BY <3>2, <3>3
  <2>2. CASE ~(j <= l)
    <3>1. PICK i \in 1 .. m : i = j - l
      BY <2>2
    <3>2. s[l + i] = a[i] /\ l + i = j
      BY <1>1, <1>5, <3>1 DEF Joined
    <3>3. a[i] = NameOf(h, f + l + i - 1) /\ f + l + i - 1 = f + j - 1
      BY <1>1, <3>1 DEF InGap
    <3> QED
      BY <3>2, <3>3
  <2> QED
    BY <2>1, <2>2
<1>7. Listed(s) /\ Len(s) = l + m
  BY <1>1, <1>5 DEF Joined
<1>8. s = [j \in 1 .. l + m |-> s[j]] /\ t = [j \in 1 .. l + m |-> t[j]]
  BY <1>4, <1>7, ListedIs
<1>9. s = t
  BY <1>4, <1>6, <1>8
<1> QED
  BY <1>2, <1>3, <1>9

\* The names up to a token are those up to a later one, as far as they go.
LEMMA BetweenPrefix ==
    ASSUME NEW h, Listed(h.tokens), NEW f \in Int, NEW u \in Int, NEW v \in Int,
           1 <= f, f <= u + 1, u <= v, v <= Len(h.tokens)
    PROVE  IsPrefix(Between(h, f, u), Between(h, f, v))
<1>1. PICK n \in Nat, m \in Nat : n = u - f + 1 /\ m = v - f + 1 /\ n <= m
  OBVIOUS
<1>2. PICK s, t : s = Between(h, f, u) /\ t = Between(h, f, v)
  OBVIOUS
<1>3. Listed(s) /\ Len(s) = n /\ \A j \in 1 .. n : s[j] = NameOf(h, f + j - 1)
  <2>1. u <= Len(h.tokens)
    BY ListedShape
  <2> QED
    BY <1>1, <1>2, <2>1, BetweenIs
<1>4. Listed(t) /\ Len(t) = m /\ \A j \in 1 .. m : t[j] = NameOf(h, f + j - 1)
  <2>1. f <= v + 1
    OBVIOUS
  <2> QED
    BY <1>1, <1>2, <2>1, BetweenIs
<1>5. PICK x, y : x = SubSeq(s, 1, n) /\ y = SubSeq(t, 1, n)
  OBVIOUS
<1>6. Listed(x) /\ Len(x) = n /\ \A j \in 1 .. n : x[j] = s[j]
  <2>1. 1 <= 1 /\ n <= Len(s) /\ 1 \in Int /\ n \in Int
    BY <1>3
  <2>2. /\ Listed(x) /\ Len(x) = IF 1 <= n THEN n - 1 + 1 ELSE 0
        /\ \A j \in 1 .. n - 1 + 1 : x[j] = s[1 + j - 1]
    BY <1>3, <1>5, <2>1, ListedStretch
  <2>3. n - 1 + 1 = n /\ (IF 1 <= n THEN TRUE ELSE n = 0) /\ \A j \in 1 .. n : 1 + j - 1 = j
    OBVIOUS
  <2> QED
    BY <2>2, <2>3
<1>7. Listed(y) /\ Len(y) = n /\ \A j \in 1 .. n : y[j] = t[j]
  <2>1. 1 <= 1 /\ n <= Len(t) /\ 1 \in Int /\ n \in Int
    BY <1>1, <1>4
  <2>2. /\ Listed(y) /\ Len(y) = IF 1 <= n THEN n - 1 + 1 ELSE 0
        /\ \A j \in 1 .. n - 1 + 1 : y[j] = t[1 + j - 1]
    BY <1>4, <1>5, <2>1, ListedStretch
  <2>3. n - 1 + 1 = n /\ (IF 1 <= n THEN TRUE ELSE n = 0) /\ \A j \in 1 .. n : 1 + j - 1 = j
    OBVIOUS
  <2> QED
    BY <2>2, <2>3
<1>8. \A j \in 1 .. n : x[j] = y[j]
  <2>1. \A j \in 1 .. n : j \in 1 .. m
    BY <1>1
  <2> QED
    BY <1>3, <1>4, <1>6, <1>7, <2>1
<1>9. x = [j \in 1 .. n |-> x[j]] /\ y = [j \in 1 .. n |-> y[j]]
  BY <1>6, <1>7, ListedIs
<1>10. x = y
  BY <1>8, <1>9
<1> QED
  BY <1>1, <1>2, <1>3, <1>4, <1>5, <1>10 DEF IsPrefix

\* Every gap is as it was, the last as far as it is read.
LEMMA MarksInPlace ==
    ASSUME NEW h, Listed(h.tokens), NEW T, NEW q, NEW k \in 1 .. Len(h.tokens) + 1,
           Items(h, T, k), Marks(h, T, q, k), NEW i \in 0 .. Len(T)
    PROVE  LET s == Before(T, i) \o After(T, q, i)
               all == Between(h, Least(T, i), Most(T, Len(h.tokens) + 1, i))
           IN  /\ IsPrefix(s, all)
               /\ i # Len(T) \/ k = Len(h.tokens) + 1 => s = all
<1>1. PICK n \in Nat, N \in Nat : n = Len(T) /\ N = Len(h.tokens)
  BY ListedShape DEF Items
<1>2. PICK f, u, v : f = Least(T, i) /\ u = Most(T, k, i) /\ v = Most(T, N + 1, i)
  OBVIOUS
<1>3. \A j \in 1 .. n : T[j].id \in 0 .. k - 2
  BY <1>1 DEF Items
<1>4. f \in Int /\ 1 <= f
  <2>1. CASE i = 0
    BY <1>2, <2>1 DEF Least
  <2>2. CASE i # 0
    <3>1. i \in 1 .. n
      BY <1>1, <2>2
    <3>2. T[i].id \in 0 .. k - 2 /\ f = T[i].id + 2
      BY <1>2, <1>3, <2>2, <3>1 DEF Least
    <3> QED
      BY <3>2
  <2> QED
    BY <2>1, <2>2
<1>5. u \in Int /\ v \in Int /\ u <= v /\ v <= N /\ (i # n \/ k = N + 1 => u = v)
  <2>1. CASE i = n
    <3>1. u = k - 1 /\ v = N + 1 - 1 /\ k \in 1 .. N + 1
      BY <1>1, <1>2, <2>1 DEF Most
    <3> QED
      BY <2>1, <3>1
  <2>2. CASE i # n
    <3>1. i + 1 \in 1 .. n
      BY <1>1, <2>2
    <3>2. T[i + 1].id \in 0 .. k - 2 /\ u = T[i + 1].id /\ v = T[i + 1].id /\ k \in 1 .. N + 1
      BY <1>1, <1>2, <1>3, <2>2, <3>1 DEF Most
    <3> QED
      BY <3>2
  <2> QED
    BY <2>1, <2>2
<1>6. PICK b, a : b = Before(T, i) /\ a = After(T, q, i)
  OBVIOUS
<1>7. InGap(h, b, a, f, u)
  BY <1>2, <1>6 DEF Marks
<1>8. b \o a = Between(h, f, u) /\ f <= u + 1
  <2>1. u <= Len(h.tokens)
    BY <1>1, <1>5
  <2> QED
    BY <1>4, <1>5, <1>7, <2>1, GapNames
<1>9. IsPrefix(Between(h, f, u), Between(h, f, v))
  <2>1. v <= Len(h.tokens)
    BY <1>1, <1>5
  <2> QED
    BY <1>4, <1>5, <1>8, <2>1, BetweenPrefix
<1>10. IsPrefix(b \o a, Between(h, f, v)) /\ (i # n \/ k = N + 1 => b \o a = Between(h, f, v))
  BY <1>5, <1>8, <1>9
<1> QED
  BY <1>1, <1>2, <1>6, <1>10

\* The items are those of the tokens that are kept, with their names.
LEMMA ItemsKept ==
    ASSUME NEW T, Listed(tokens), Items(Utterance, T, Len(tokens) + 1)
    PROVE  /\ {T[i].id + 1 : i \in DOMAIN T} = Kept
           /\ \A i, j \in DOMAIN T : i < j => T[i].id < T[j].id
           /\ words # <<>> => \A i \in DOMAIN T :
                LET name == tokens[T[i].id + 1].name[1] IN
                T[i].name = IF name = <<>> THEN SemioticClassName ELSE Field("name", name)
<1>1. PICK h : h = Utterance /\ h.tokens = tokens /\ h.words = words
  BY DEF Utterance
<1>2. PICK n \in Nat, N \in Nat : /\ n = Len(T) /\ DOMAIN T = 1 .. n
                                  /\ N = Len(tokens) /\ DOMAIN tokens = 1 .. N
  BY ListedShape DEF Items
<1>3. /\ \A i \in 1 .. n : T[i].id \in 0 .. N + 1 - 2 /\ IsItem(h, T[i], T[i].id + 1)
      /\ \A i, j \in 1 .. n : i < j => T[i].id < T[j].id
      /\ \A m \in 1 .. N + 1 - 1 : Punct(h, m) \/ \E i \in 1 .. n : T[i].id = m - 1
  BY <1>1, <1>2 DEF Items
<1>4. \A k : IsPunctuation(k) <=> Punct(h, k)
  BY <1>1 DEF IsPunctuation, Punct, NameOf
<1>5. ASSUME NEW i \in 1 .. n PROVE T[i].id + 1 \in Kept
  <2>1. T[i].id \in 0 .. N + 1 - 2 /\ ~Punct(h, T[i].id + 1)
    BY <1>3 DEF IsItem
  <2>2. T[i].id + 1 \in 1 .. N
    BY <2>1
  <2> QED
    BY <1>2, <1>4, <2>1, <2>2 DEF Kept
<1>6. ASSUME NEW k \in Kept PROVE \E i \in 1 .. n : T[i].id + 1 = k
  <2>1. k \in 1 .. N /\ ~Punct(h, k)
    BY <1>2, <1>4 DEF Kept
  <2>2. k \in 1 .. N + 1 - 1
    BY <2>1
  <2>3. PICK i \in 1 .. n : T[i].id = k - 1
    BY <1>3, <2>1, <2>2
  <2>4. T[i].id + 1 = k
    BY <2>1, <2>3
  <2> QED
    BY <2>4
<1>7. ASSUME words # <<>>, NEW i \in 1 .. n
      PROVE  LET name == tokens[T[i].id + 1].name[1] IN
             T[i].name = IF name = <<>> THEN SemioticClassName ELSE Field("name", name)
  BY <1>1, <1>3, <1>7 DEF IsItem, Named, NameOf
<1>8. {T[i].id + 1 : i \in 1 .. n} = Kept
  BY <1>5, <1>6
<1>9. \A i, j \in 1 .. n : i < j => T[i].id < T[j].id
  BY <1>3
<1> QED
  BY <1>2, <1>7, <1>8, <1>9

\* A word is among its token's daughters.
LEMMA WordInside ==
    ASSUME Verbalized, NEW w \in 1 .. Len(words)
    PROVE  LET t == tokens[words[w].parent + 1] IN
           w - 1 \in Daughter(t.first) .. Daughter(t.last)
<1> DEFINE k == words[w].parent + 1
<1>1. /\ words[w].parent \in 0 .. next - 2 /\ tokens[k].first # Unset
      /\ w - 1 \in tokens[k].first[1] .. tokens[k].last[1]
  BY DEF Verbalized, Daughters, Below
<1>2. next \in Int
  BY DEF Verbalized, Daughters
<1>3. k \in 1 .. next - 1
  BY <1>1, <1>2
<1>4. PICK a \in Nat, b \in Nat : tokens[k].first = <<a>> /\ tokens[k].last = <<b>>
  BY <1>1, <1>3 DEF Verbalized, Daughters, Stretch
<1>5. tokens[k].last # Unset
  BY <1>4 DEF Unset
<1> QED
  BY <1>1, <1>5 DEF Daughter

\* Every word that is said is below the token that was read for it.
LEMMA WordsSaid ==
    ASSUME Verbalized, NEW T, Items(Utterance, T, Len(tokens) + 1),
           utt.Token = T, WordsPlaced(Utterance, T, utt.Word, Len(words) + 1)
    PROVE  SaidBelow([w \in DOMAIN words |-> IF w = Len(words) THEN 0 ELSE words[w].parent])
<1>1. PICK h, parent : /\ h = Utterance /\ h.tokens = tokens /\ h.words = words
                       /\ parent = ReadParent(h)
  BY DEF Utterance
<1>2. PICK M \in Nat : M = Len(words) /\ DOMAIN words = 1 .. M /\ Listed(h.words)
  BY <1>1, ListedShape DEF Verbalized, Daughters
<1>3. parent = [w \in DOMAIN words |-> IF w = Len(words) THEN 0 ELSE words[w].parent]
  BY <1>1 DEF ReadParent
<1> DEFINE said    == {w \in DOMAIN words : ~IsPunctuation(parent[w] + 1)}
           Spot(w) == Cardinality({v \in said : v <= w})
<1>4. said = SaidWords(h)
  BY <1>1 DEF IsPunctuation, Punct, NameOf, SaidWords
<1>5. \A w : Spot(w) = PlaceOf(h, w)
  BY <1>4 DEF PlaceOf, SaidUpTo
<1> HIDE DEF said, Spot
<1>6. Len(utt.Word) = Cardinality(said)
  <2>1. Len(utt.Word) = PlaceOf(h, M + 1 - 1) /\ M + 1 - 1 = M
    BY <1>1, <1>2 DEF WordsPlaced
  <2> QED
    BY <1>1, <1>2, <1>4, <2>1, PlaceEnds
<1>7. ASSUME NEW w \in said
      PROVE  LET word == utt.Word[Spot(w)]
                 item == utt.Token[word.token]
             IN  /\ word.name = Field("name", words[w].spelling)
                 /\ item.id = parent[w]
                 /\ parent[w] = words[w].parent => w - 1 \in item.w_start .. item.w_end
  <2>1. w \in 1 .. M /\ w \in 1 .. M + 1 - 1 /\ w \in SaidWords(h)
    <3>1. w \in 1 .. M
      BY <1>2, <1>4 DEF said
    <3>2. M + 1 - 1 = M
      OBVIOUS
    <3> QED
      BY <1>4, <3>1, <3>2
  <2>2. AtPlace(h, T, utt.Word, w)
    BY <1>1, <1>2, <2>1 DEF WordsPlaced
  <2>3. PICK word, i : /\ word = utt.Word[Spot(w)] /\ i = word.token /\ i \in 1 .. Len(T)
                       /\ word.name = Field("name", words[w].spelling)
                       /\ T[i].id = parent[w]
    BY <1>1, <1>5, <2>2 DEF AtPlace
  <2>4. IsItem(h, T[i], T[i].id + 1)
    BY <1>1, <2>3 DEF Items
  <2>5. ASSUME parent[w] = words[w].parent PROVE w - 1 \in T[i].w_start .. T[i].w_end
    <3>1. words # <<>>
      BY <1>2, <2>1
    <3>2. /\ T[i].w_start = Daughter(tokens[words[w].parent + 1].first)
          /\ T[i].w_end = Daughter(tokens[words[w].parent + 1].last)
      BY <1>1, <2>3, <2>4, <2>5, <3>1 DEF IsItem
    <3>3. w \in 1 .. Len(words)
      BY <1>2, <2>1
    <3> QED
      BY <3>2, <3>3, WordInside
  <2> QED
    BY <2>3, <2>5
<1>8. SaidBelow(parent)
  BY <1>6, <1>7 DEF SaidBelow, said, Spot
<1> QED
  BY <1>3, <1>8

\* The process ends only for a word without a spelling.
LEMMA NeverExits ==
    ASSUME Listing, utt.at = "exited"
    PROVE  ~Aligned
<1>1. ~Read(Utterance, utt)
  BY DEF Read, AtToken, AtWord
<1> QED
  BY <1>1 DEF Listing

\* All of what is said of the words.
LEMMA ListingKeepsWords == Verbalized /\ Listing => TokensKeepTheirWords
<1> SUFFICES ASSUME Verbalized, Listing PROVE TokensKeepTheirWords
  OBVIOUS
<1>1. ASSUME utt.at = "done", pc = "parsed", Aligned
      PROVE  /\ Items(Utterance, utt.Token, Len(tokens) + 1)
             /\ WordsPlaced(Utterance, utt.Token, utt.Word, Len(words) + 1)
  <2>1. Read(Utterance, utt)
    BY <1>1 DEF Listing
  <2>2. PICK w : AtWord(Utterance, utt, w)
    BY <1>1, <2>1 DEF Read, AtToken
  <2> QED
    BY <1>1, <2>2 DEF AtWord, Utterance
<1>2. Listed(tokens)
  BY DEF Verbalized, Daughters, Shaped
<1> QED
  BY <1>1, <1>2, ItemsKept, WordsSaid, NeverExits DEF TokensKeepTheirWords

\* All of what is said of the marks.
LEMMA ListingKeepsMarks == Verbalized /\ Listing => MarksKeepTheirPlace
<1> SUFFICES ASSUME Verbalized, Listing, utt.at \in {"reading", "done"}, pc = "parsed", Aligned,
                    NEW i \in 0 .. Len(utt.Token)
             PROVE  LET before == IF i = 0 THEN <<>> ELSE utt.Token[i].punc
                        after  == IF i = Len(utt.Token) THEN utt.pending
                                  ELSE utt.Token[i + 1].prepunctuation
                    IN  IF i = Len(utt.Token) /\ utt.at = "reading"
                        THEN IsPrefix(before \o after, MarksBetween(i))
                        ELSE before \o after = MarksBetween(i)
  BY DEF MarksKeepTheirPlace
<1>1. PICK h, T, q : /\ h = Utterance /\ h.tokens = tokens
                     /\ T = utt.Token /\ q = utt.pending
  <2>1. Utterance.tokens = tokens
    BY DEF Utterance
  <2> QED
    BY <2>1
<1>2. Listed(tokens)
  BY DEF Verbalized, Daughters, Shaped
<1>3. PICK k \in 1 .. Len(tokens) + 1 : /\ Items(h, T, k) /\ Marks(h, T, q, k)
                                        /\ utt.at = "done" => k = Len(tokens) + 1
  <2>1. Read(h, utt)
    BY <1>1 DEF Listing
  <2>2. Len(tokens) + 1 \in 1 .. Len(tokens) + 1 /\ \A k \in 1 .. Len(tokens) : k \in 1 .. Len(tokens) + 1
    BY <1>2, ListedShape
  <2>3. CASE \E k \in 1 .. Len(h.tokens) : AtToken(h, utt, k)
    BY <1>1, <2>2, <2>3 DEF AtToken
  <2>4. CASE \E w \in 1 .. Len(h.words) + 1 : AtWord(h, utt, w)
    BY <1>1, <2>2, <2>4 DEF AtWord
  <2> QED
    BY <2>1, <2>3, <2>4 DEF Read
<1>4. PICK s, all : /\ s = Before(T, i) \o After(T, q, i)
                    /\ all = Between(h, Least(T, i), Most(T, Len(tokens) + 1, i))
  OBVIOUS
<1>5. IsPrefix(s, all) /\ (i # Len(T) \/ k = Len(tokens) + 1 => s = all)
  BY <1>1, <1>2, <1>3, <1>4, MarksInPlace
<1>6. all = MarksBetween(i)
  <2>1. Len(tokens) + 1 - 1 = Len(tokens)
    BY <1>2, ListedShape
  <2>2. PICK f, u : f = Least(T, i) /\ u = Most(T, Len(tokens) + 1, i)
    OBVIOUS
  <2>3. /\ f = IF i = 0 THEN 1 ELSE utt.Token[i].id + 2
        /\ u = IF i = Len(utt.Token) THEN Len(tokens) ELSE utt.Token[i + 1].id
    <3>1. f = IF i = 0 THEN 1 ELSE utt.Token[i].id + 2
      BY <1>1, <2>2 DEF Least
    <3>2. u = IF i = Len(T) THEN Len(tokens) + 1 - 1 ELSE T[i + 1].id
      BY <2>2 DEF Most
    <3> QED
      BY <1>1, <2>1, <3>1, <3>2
  <2>4. all = LET a == SubSeq(tokens, f, u) IN [m \in DOMAIN a |-> a[m].name[1]]
    BY <1>1, <1>4, <2>2 DEF Between
  <2>5. MarksBetween(i) = LET a == SubSeq(tokens, f, u) IN [m \in DOMAIN a |-> a[m].name[1]]
    BY <2>3 DEF MarksBetween
  <2> QED
    BY <2>4, <2>5
<1> QED
  BY <1>1, <1>3, <1>4, <1>5, <1>6 DEF Before, After

\* For every set of sources, of readings and of marks of punctuation the tokens that
\* are kept have, in order, the words that the listing gives them, and the process
\* ends only for a word without a spelling.
THEOREM WordsAreKept == Spec => []TokensKeepTheirWords
<1>1. Start0 => Verbalized /\ Listing
  BY StartVerbalized, UttNormalizes, StartListing
<1>2. Verbalized /\ Listing /\ [Next]_vars => (Verbalized /\ Listing)'
  BY VerbalizedKept, UttNormalizes, ListingKept
<1>3. Verbalized /\ Listing => TokensKeepTheirWords
  BY ListingKeepsWords
<1> QED
  BY <1>1, <1>2, <1>3, PTL DEF Spec

\* Every mark of punctuation stays between the tokens it was between, in its order.
THEOREM MarksAreKept == Spec => []MarksKeepTheirPlace
<1>1. Start0 => Verbalized /\ Listing
  BY StartVerbalized, UttNormalizes, StartListing
<1>2. Verbalized /\ Listing /\ [Next]_vars => (Verbalized /\ Listing)'
  BY VerbalizedKept, UttNormalizes, ListingKept
<1>3. Verbalized /\ Listing => MarksKeepTheirPlace
  BY ListingKeepsMarks
<1> QED
  BY <1>1, <1>2, <1>3, PTL DEF Spec
=============================================================================
