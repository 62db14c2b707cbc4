--------------------------- MODULE SparrowhawkUtt ---------------------------
(***************************************************************************)
(* Festival's Sparrowhawk module                                           *)
(* (festival/src/modules/Sparrowhawk/Sparrowhawk.cc): what the normalizer  *)
(* found comes back as a listing, a line for each token and each word,     *)
(* which is read as a stream of fields into the utterance's relations      *)
(* Token and Word.  An empty field is white space and is not read at all.  *)
(*                                                                         *)
(* A relation is the sequence of its items here.  That a name has a tab or *)
(* a new line in it is left out.                                           *)
(***************************************************************************)
EXTENDS Normalizer

CONSTANT sparrowhawk_punc  \* the names that are stretches of it

\* A class's name has letters; an empty name is in no listing, and not asked about.
ASSUME PunctuationAssumption ==
  <<>> \notin sparrowhawk_punc /\ <<"(Semiotic Class)">> \notin sparrowhawk_punc

VARIABLE utt  \* at: "normalizing", "reading", "done", or "exited" with the
              \* process; ts: the fields to read; Token, Word: the relations;
              \* pending: pending_prepunc, as the names it is made of

vars == <<normalizer, utt>>

Start0 ==
  Start /\ utt = [at |-> "normalizing", ts |-> <<>>, Token |-> <<>>,
                  Word |-> <<>>, pending |-> <<>>]
-----------------------------------------------------------------------------
(* ShowLinks, without the fields that are empty.                           *)

Field(is, v)   == [is |-> is, v |-> v]
Mark(is)       == Field(is, <<>>)
Text(v)        == IF v = <<>> THEN <<>> ELSE <<Field("name", v)>>
Daughter(d)    == IF d = Unset THEN 0 ELSE d[1]

\* u: the utterance's tokens and words.
TokenLine(u, k) ==
  LET t == u.tokens[k] IN
  <<Mark("Token:"), Field("number", k - 1)>> \o Text(t.name[1])
  \o <<Field("indices", <<t.start, t.end>>),
       Field("indices", <<Daughter(t.first), Daughter(t.last)>>)>>

WordLine(u, w) ==
  <<Mark("Word:"), Field("number", w - 1)>> \o Text(u.words[w].spelling)
  \o <<Field("number", u.words[w].parent)>>

\* The listing from each word on, and from each token on.
WordLines(u) ==
  LET from[w \in 1 .. Len(u.words) + 1] ==
        IF w > Len(u.words) THEN <<>> ELSE WordLine(u, w) \o from[w + 1]
  IN  from
TokenLines(u) ==
  LET from[k \in 1 .. Len(u.tokens) + 1] ==
        IF k > Len(u.tokens) THEN WordLines(u)[1] ELSE TokenLine(u, k) \o from[k + 1]
  IN  from
ShowLinks(u) == TokenLines(u)[1]

Utterance == [tokens |-> tokens, words |-> words]

\* That Normalize failed is not asked: the output is empty then.
NormalizeAndShowLinks ==
  /\ utt.at = "normalizing" /\ Normalized /\ UNCHANGED normalizer
  /\ utt' = [utt EXCEPT !.at = "reading",
                        !.ts = IF pc = "parsed" THEN ShowLinks(Utterance) ELSE <<>>]
-----------------------------------------------------------------------------
(* FT_Sparrowhawk_Normalize_Utt, a line at a time.                         *)

\* next_token, of what is left.  eof() looks whether anything comes after what
\* was read: the last field of all is taken for nothing.
Nth(n)  == IF n < Len(utt.ts) THEN utt.ts[n] ELSE Mark("empty")
From(n) == SubSeq(utt.ts, n, Len(utt.ts))

SemioticClassName == Field("name", <<"(Semiotic Class)">>)

\* The name was empty when the second pair of indices is not where it should
\* be, but another line.
Unnamed == Nth(5).is \in {"Token:", "Word:"}

\* Mutant: every mark is looked at alone.
NothingPending(indices) == utt.Token = <<>> \/ indices.v[1] < indices.v[2]

\* Prepunctuation of what comes, not punctuation of what was.
Prepunctuation(indices) ==
  utt.Token = <<>> \/ utt.pending # <<>> \/ indices.v[1] < indices.v[2]

AddToken(id, name, indices) ==
  [utt EXCEPT !.Token = Append(@, [id |-> id, name |-> name, w_start |-> indices.v[1],
                                   w_end |-> indices.v[2],
                                   prepunctuation |-> utt.pending, punc |-> <<>>]),
              !.pending = <<>>]

AddMark(name, indices) ==
  IF Prepunctuation(indices) THEN [utt EXCEPT !.pending = Append(@, name.v)]
  ELSE [utt EXCEPT !.Token[Len(utt.Token)].punc = Append(@, name.v)]

IsMark(name) == name.is = "name" /\ name.v \in sparrowhawk_punc

\* get_indices makes zeroes of nothing.
Indices(field) == IF field.is = "empty" THEN Field("indices", <<0, 0>>) ELSE field

ReadToken ==
  /\ Nth(1).is = "Token:"
  /\ LET name == IF Unnamed THEN SemioticClassName ELSE Nth(3)
         n    == IF Unnamed THEN 3 ELSE 4
         u    == IF IsMark(name) THEN AddMark(name, Indices(Nth(n)))
                 ELSE AddToken(Nth(2).v, name, Indices(Nth(n + 1)))
     IN  utt' = [u EXCEPT !.ts = From(n + 2)]

\* Mutant: a word goes below the last token.
AddBelowLast(name, id) ==
  IF utt.Token = <<>> THEN utt
  ELSE [utt EXCEPT !.Word = Append(@, [name |-> name, token |-> Len(utt.Token)])]

\* A word goes below the first token with that id, if there is one.
utt_add_word_to_token(name, id) ==
  IF \E k \in DOMAIN utt.Token : utt.Token[k].id = id
  THEN [utt EXCEPT !.Word = Append(@,
          [name |-> name, token |-> SelectInSeq(utt.Token, LAMBDA t : t.id = id)])]
  ELSE utt

\* Int() of what is no number ends the process; of nothing it is 0.
ReadWord ==
  /\ Nth(1).is = "Word:"
  /\ utt' = CASE Nth(4).is = "number" ->
                   [utt_add_word_to_token(Nth(3), Nth(4).v) EXCEPT !.ts = From(5)]
              [] Nth(4).is = "empty" ->
                   [utt_add_word_to_token(Nth(3), 0) EXCEPT !.ts = <<>>]
              [] OTHER -> [utt EXCEPT !.at = "exited"]

FT_Sparrowhawk_Normalize_Utt ==
  /\ utt.at = "reading" /\ UNCHANGED normalizer
  /\ \/ ReadToken
     \/ ReadWord
     \/ Nth(1).is = "empty" /\ utt' = [utt EXCEPT !.at = "done"]

Next == \/ Normalize /\ UNCHANGED utt
        \/ NormalizeAndShowLinks
        \/ FT_Sparrowhawk_Normalize_Utt

\* One thread runs to the end.
Spec == Start0 /\ [][Next]_vars /\ WF_vars(Next)
-----------------------------------------------------------------------------
IsPunctuation(k) == tokens[k].name[1] \in sparrowhawk_punc

Kept == {k \in DOMAIN tokens : ~IsPunctuation(k)}

\* Nothing is out of its column.
Aligned == \A w \in DOMAIN words : words[w].spelling # <<>>

\* Each word is below the token parent gives for it, in the words' order; those of
\* punctuation are not said.
SaidBelow(parent) ==
  LET said     == {w \in DOMAIN words : ~IsPunctuation(parent[w] + 1)}
      Place(w) == Cardinality({v \in said : v <= w})
  IN  /\ Len(utt.Word) = Cardinality(said)
      /\ \A w \in said :
           LET word == utt.Word[Place(w)]
               item == utt.Token[word.token]
           IN  /\ word.name = Field("name", words[w].spelling)
               /\ item.id = parent[w]
               /\ parent[w] = words[w].parent => w - 1 \in item.w_start .. item.w_end

(* The utterance has the tokens that are not named like punctuation, each  *)
(* with its name, and below each, in their order, the words that are its   *)
(* daughters in the listing; the words of the others are gone.  That holds *)
(* but for the last word, which goes to the first token or goes too.  The  *)
(* names are right unless nothing is said at all; the process ends only    *)
(* for a word without a spelling (FT_Sparrowhawk_Normalize_Utt,            *)
(* next_token and utt_add_word_to_token, against ShowLinks and AddWord).   *)
TokensKeepTheirWords ==
  /\ utt.at = "exited" => ~Aligned
  /\ utt.at = "done" /\ pc = "parsed" /\ Aligned =>
       /\ {utt.Token[i].id + 1 : i \in DOMAIN utt.Token} = Kept
       /\ \A i, j \in DOMAIN utt.Token : i < j => utt.Token[i].id < utt.Token[j].id
       /\ words # <<>> => \A i \in DOMAIN utt.Token :
            LET name == tokens[utt.Token[i].id + 1].name[1] IN
            utt.Token[i].name = IF name = <<>> THEN SemioticClassName
                                               ELSE Field("name", name)
       /\ SaidBelow([w \in DOMAIN words |-> IF w = Len(words) THEN 0 ELSE words[w].parent])

(* "First find the appropriate token", says utt_add_word_to_token          *)
(* (Sparrowhawk.cc:101): each word of a token that is kept is below it.    *)
AppropriateToken ==
  utt.at = "done" /\ pc = "parsed" /\ Aligned =>
    SaidBelow([w \in DOMAIN words |-> words[w].parent])

\* The marks that were read between the items i and i + 1 of Token.
MarksBetween(i) ==
  LET from == IF i = 0 THEN 1 ELSE utt.Token[i].id + 2
      upto == IF i = Len(utt.Token) THEN Len(tokens) ELSE utt.Token[i + 1].id
      all  == SubSeq(tokens, from, upto)
  IN  [m \in DOMAIN all |-> all[m].name[1]]

(* Every mark of punctuation stays between the tokens it was between, in   *)
(* its order, as punctuation of the one or prepunctuation of the other;    *)
(* what is still pending at the end is lost                                *)
(* (pending_prepunc in FT_Sparrowhawk_Normalize_Utt).                      *)
MarksKeepTheirPlace ==
  utt.at \in {"reading", "done"} /\ pc = "parsed" /\ Aligned =>
    \A i \in 0 .. Len(utt.Token) :
      LET before == IF i = 0 THEN <<>> ELSE utt.Token[i].punc
          after  == IF i = Len(utt.Token) THEN utt.pending
                    ELSE utt.Token[i + 1].prepunctuation
      IN  IF i = Len(utt.Token) /\ utt.at = "reading"
          THEN IsPrefix(before \o after, MarksBetween(i))
          ELSE before \o after = MarksBetween(i)

(* Every input becomes an utterance, or ends the process: a value is read  *)
(* again once at most, and every line of the listing is passed.            *)
NormalizeEnds == <>(utt.at \in {"done", "exited"})
=============================================================================
