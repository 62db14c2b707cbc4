----------------------------- MODULE Normalizer -----------------------------
(***************************************************************************)
(* Sparrowhawk's Normalizer::Normalize                                     *)
(* (sparrowhawk/src/lib/normalizer.cc, normalizer_utils.cc): when the      *)
(* tokens have been parsed, VerbalizeUtt turns each into words, with the   *)
(* verbalizer grammar where it takes one.  Tokens and words are counted    *)
(* from 0 in first, last and parent.                                       *)
(***************************************************************************)
EXTENDS ProtobufParser

CONSTANT Readings  \* what the verbalizer grammar may return, as words

ASSUME ReadingsAssumption == \A r \in Readings : r \in Seq(STRING)

VARIABLES words, next  \* the token VerbalizeUtt comes to next

normalizer == <<parser, words, next>>

Start == Init /\ words = <<>> /\ next = 1

Sil == <<"sil">>

\* u: the utterance's tokens and words; k: one of the tokens.  Each word in turn
\* is its last daughter, the first of all is its first.
AddAll(u, k, spellings) ==
  LET from == Len(u.words)
      t == [u.tokens[k] EXCEPT !.first = IF @ = Unset THEN Given(from) ELSE @,
                               !.last  = Given(from + Len(spellings) - 1)]
  IN  IF spellings = <<>> THEN u
      ELSE [tokens |-> [u.tokens EXCEPT ![k] = t],
            words  |-> u.words \o [j \in DOMAIN spellings |->
                         [parent |-> k - 1, id |-> "", spelling |-> spellings[j]]]]

AddWord(u, k, spelling) == AddAll(u, k, <<spelling>>)

AddWords(u, k, reading) ==
  AddAll(u, k, [j \in DOMAIN reading |->
                  IF reading[j] = "," THEN Sil ELSE <<reading[j]>>])

\* The grammar may have no reading.
NoReading == <<"no reading">>

\* Clear, then the name and the verbatim field.
Verbatim(t) == [NewToken EXCEPT !.name = t.name, !.verbatim = t.name]

\* Mutant: the token is cleared when it has its words.
RevertLate(u, k, reading) ==
  LET v == AddWords(u, k, reading) IN [v EXCEPT !.tokens[k] = Verbatim(@)]

\* Back off to verbatim reading.
Revert(u, k, reading) == AddWords([u EXCEPT !.tokens[k] = Verbatim(@)], k, reading)

Put(u) == tokens' = u.tokens /\ words' = u.words

\* The type's default is the first of the enumeration.
TypeOf(t) == IF t.type = Unset THEN "WORD" ELSE t.type[1][1]

Punctuation(u, k) ==
  /\ TypeOf(u.tokens[k]) = "PUNCT"
  /\ Put(IF /\ u.tokens[k].phrase_break = Given(<<"true">>)
            /\ words # <<>> => Last(words).id # "sil"
         THEN AddWord(u, k, Sil) ELSE u)

SemioticClass(u, k) ==
  /\ TypeOf(u.tokens[k]) = "SEMIOTIC_CLASS"
  /\ IF u.tokens[k].skip = Given(<<"true">>) THEN Put(u)
     ELSE \E first, second \in Readings \cup {NoReading} :
            Put(IF first # NoReading THEN AddWords(u, k, first)
                ELSE Revert(u, k, IF second = NoReading THEN <<>> ELSE second))

Word(u, k) ==
  /\ TypeOf(u.tokens[k]) = "WORD"
  /\ Put(IF u.tokens[k].wordid = Unset THEN u
         ELSE AddWord(u, k, u.tokens[k].wordid[1]))

VerbalizeUtt ==
  /\ pc = "parsed" /\ next <= Len(tokens) /\ next' = next + 1
  /\ LET u == [tokens |-> tokens, words |-> words] IN
     Punctuation(u, next) \/ SemioticClass(u, next) \/ Word(u, next)
  /\ UNCHANGED <<source, p, pc, open, label, value, quote, again>>

\* The input does not compile or the rules have no output for it: nothing is parsed.
RulesFail ==
  /\ pc = "label" /\ p.state = 0 /\ pc' = "refused"
  /\ UNCHANGED <<source, p, open, label, value, quote, tokens, again>>

TokenizeAndClassifyUtt == (RulesFail \/ Parse) /\ UNCHANGED <<words, next>>

Normalize == TokenizeAndClassifyUtt \/ VerbalizeUtt

Normalized == pc \in {"failed", "refused"} \/ (pc = "parsed" /\ next > Len(tokens))
-----------------------------------------------------------------------------
Closed == {k \in next .. Len(tokens) : k < Len(tokens) \/ open = <<>>}

(* A token's indices are the place of its text in the input, in bytes;     *)
(* tokens do not overlap, and nothing but spaces is between them, wherever *)
(* along the path the input is and however far the parser has read ahead   *)
(* (UpdateTokenIndices, NextState and PrevState).  A value that is read    *)
(* twice counts its input twice: that is excepted.                         *)
PositionsRight ==
  ~again => \A k \in Closed :
    LET t == tokens[k] IN
    /\ 0 <= t.start /\ t.end < Len(Input)
    /\ SubSeq(Input, t.start + 1, t.end + 1) = t.text
    /\ t.text # <<>> => t.text[1] # "sp" /\ Last(t.text) # "sp"
    /\ k - 1 \in Closed => /\ tokens[k - 1].end < t.start
                           /\ Spaces(SubSeq(Input, tokens[k - 1].end + 2, t.start))

(* What the grammar spelled is what the parser has read, with quotes and   *)
(* without, with spaces and without them, escaped, or after a second       *)
(* reading without the backslashes; what is not spelled like tokens, and   *)
(* means nothing, is refused                                               *)
(* (ParseMessage, ParseFieldValue, ParseQuotedFieldValue).                 *)
Reads(t, m) ==
  \A f \in DOMAIN m :
    m[f] # Unset \/ f \notin {"name", "type", "wordid"} => t[f] = m[f]
ReadsWhatIsMeant ==
  /\ pc = "failed" => source.meant = <<>>
  /\ pc = "parsed" => /\ Len(tokens) = Len(source.meant)
                      /\ \A k \in next .. Len(tokens) :
                           Reads(tokens[k], source.meant[k])

(* The tokens' daughters are stretches of the words, in the tokens' order, *)
(* and the words' parents say the same (AddWord, and Clear of a token that *)
(* is read verbatim).                                                      *)
DaughtersAgree ==
  /\ \A w \in DOMAIN words :
       LET t == tokens[words[w].parent + 1] IN
       t.first # Unset /\ w - 1 \in t.first[1] .. t.last[1]
  /\ \A k \in DOMAIN tokens : tokens[k].first # Unset =>
       \A w \in tokens[k].first[1] .. tokens[k].last[1] :
         words[w + 1].parent = k - 1
  /\ \A v, w \in DOMAIN words : v < w => words[v].parent <= words[w].parent
=============================================================================
