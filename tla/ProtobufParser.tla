--------------------------- MODULE ProtobufParser ---------------------------
(***************************************************************************)
(* Sparrowhawk's tokens (sparrowhawk/src/lib/protobuf_parser.cc): the      *)
(* classifier grammar turns the input into one path of arcs, whose output  *)
(* labels spell the tokens as a protocol buffer, and whose input labels    *)
(* are the input, somewhere along the path.  ParseTokensFromFST reads the  *)
(* output arc by arc, one arc ahead at times, and gathers the input it     *)
(* passes as the name and the place of each token.                         *)
(*                                                                         *)
(* A field's name and a value of an enumeration are one label each, and so *)
(* is a danda, which is three bytes; "x" stands for the other letters.     *)
(* Left out is FixLookahead, which the normalizer never asks for.          *)
(***************************************************************************)
EXTENDS Integers, Sequences, SequencesExt, FiniteSets

CONSTANT Sources  \* what the grammar may return: an input's tokens as they
                  \* are meant, and a path of arcs that spells them

VARIABLES source,  \* one of them
          p,       \* state_, last_state_, ilabel_, token_name_, token_start_
          pc,      \* the function that reads on, and why
          open,    \* the messages that are being parsed, each with the
                   \* labels it had so far; empty between tokens
          label, value, \* what ConsumeLabel and ParseFieldValue have read
          quote,   \* ParseQuotedFieldValue's locals
          tokens,
          again    \* whether a value was read a second time

parser == <<source, p, pc, open, label, value, quote, tokens, again>>

\* The fields of a message in the order of their numbers.
Fields == [tokens    |-> <<"name", "type", "wordid", "phrase_break", "skip",
                           "cardinal", "telephone", "verbatim">>,
           cardinal  |-> <<"integer", "morphosyntactic_features",
                           "preserve_order", "field_order">>,
           telephone |-> <<"number_part", "morphosyntactic_features",
                           "preserve_order", "field_order">>]
MessageFields == {"cardinal", "telephone"}
BoolFields    == {"phrase_break", "skip", "preserve_order"}
Repeated      == {"number_part"}
Types         == {"WORD", "PUNCT", "SEMIOTIC_CLASS"}
\* isalpha, or the underscore in the names.
Letters == {"tokens", "x", "true"} \cup Types
           \cup UNION {ToSet(Fields[is]) : is \in DOMAIN Fields}
Labels  == Letters \cup {".", "danda"}
           \cup {"eps", "sp", "{", "}", ":", "dquote", "backslash"}
Bytes   == {"a", "b", ".", "sp"}

ASSUME SourceAssumption ==
  \A s \in Sources : s.path \in Seq([i : Bytes \cup {"eps"}, o : Labels])

path == source.path

\* The input that has been passed after the first arcs of a path, and all of it.
Passed(arcs) ==
  LET upto[k \in 0 .. Len(arcs)] ==
        IF k = 0 THEN <<>>
        ELSE IF arcs[k].i = "eps" THEN upto[k - 1] ELSE Append(upto[k - 1], arcs[k].i)
  IN  upto
Input == Passed(path)[Len(path)]

\* A field is the sequence of its values, empty while it has none.  text is
\* token_name_ as it was for the token; the code forgets it where the grammar
\* gives a name.
Unset    == <<>>
Given(v) == <<v>>
NewMessage(is) == [f \in ToSet(Fields[is]) |-> Unset]
NewToken ==
  [f \in ToSet(Fields["tokens"]) \cup {"text", "start", "end", "first", "last"} |->
     IF f \in {"start", "end"} THEN 0 ELSE Unset]

NoQuote == [from |-> 0, raw |-> FALSE, slash |-> FALSE]

Init ==
  /\ source \in Sources
  /\ p = [state |-> 0, last |-> 0, i |-> "eps", name |-> <<>>, start |-> 0]
  /\ pc = "label" /\ open = <<>> /\ label = <<>> /\ value = <<>>
  /\ quote = NoQuote /\ tokens = <<>> /\ again = FALSE
-----------------------------------------------------------------------------
(* NextState and PrevState.  Spaces before a token are not part of it.     *)

AtEnd == p.state = Len(path)
Arc   == path[p.state + 1]

NextState ==
  LET q == [p EXCEPT !.state = @ + 1, !.last = p.state, !.i = Arc.i]
  IN  IF Arc.i = "eps" THEN q
      ELSE IF Arc.i = "sp" /\ p.name = <<>> THEN [q EXCEPT !.start = @ + 1]
      ELSE [q EXCEPT !.name = Append(@, Arc.i)]

\* Mutant: the input is not given back with the state.
PrevStateOnly(q) == [q EXCEPT !.state = q.last]

PrevState(q) ==
  LET r == [q EXCEPT !.state = q.last]
  IN  IF q.i = "eps" THEN r
      ELSE IF q.i = "sp" /\ q.name = <<>> THEN [r EXCEPT !.start = @ - 1]
      ELSE IF q.name # <<>> THEN [r EXCEPT !.name = Front(@)]
      ELSE r

\* LogError reads on to the end, of no consequence.
Fail == pc' = "failed" /\ UNCHANGED <<p, open, label, value, quote, tokens>>
-----------------------------------------------------------------------------
(* ConsumeLabel, then ConsumeWhitespace.                                   *)

EndsLabel(o) == ~(o = "eps" \/ o \in Letters \/ (o = "sp" /\ label = <<>>))

ConsumeLabel ==
  /\ pc = "label" /\ UNCHANGED <<source, open, value, quote, tokens>>
  /\ IF AtEnd THEN pc' = "after label" /\ UNCHANGED <<p, label>>
     ELSE LET o == Arc.o IN
          /\ pc' = IF EndsLabel(o) THEN "after label" ELSE "label"
          /\ label' = IF o \in Letters \/ (o = "}" /\ label = <<>>)
                      THEN Append(label, o) ELSE label
          /\ p' = IF EndsLabel(o) /\ label' = label /\ o \notin {":", "sp"}
                  THEN PrevState(NextState) ELSE NextState

ConsumeWhitespace ==
  /\ pc \in {"after label", "after field"}
  /\ UNCHANGED <<source, open, value, quote, tokens>>
  /\ IF ~AtEnd /\ Arc.o \in {"sp", "eps"}
     THEN p' = NextState /\ UNCHANGED <<pc, label>>
     ELSE /\ p' = IF AtEnd THEN p ELSE PrevState(NextState)
          /\ IF pc = "after label" THEN pc' = "dispatch" /\ UNCHANGED label
                                   ELSE pc' = "label" /\ label' = <<>>
-----------------------------------------------------------------------------
(* ParseTokensFromFST and ParseMessage, which takes fields up to a "}".    *)

\* The opening brace, or whatever there is.
ConsumeBrace == p' = IF AtEnd THEN p ELSE NextState

NextLabel == pc' = "label" /\ label' = <<>>

InMessage(is) == open # <<>> /\ Last(open).is = is
Message(is)   == [is |-> is, order |-> <<>>]
Noted         == [open EXCEPT ![Len(open)].order = Append(@, label[1])]

Parsed ==
  /\ open = <<>> /\ label = <<>>
  /\ pc' = "parsed" /\ UNCHANGED <<p, open, label, value, quote, tokens>>

OpenToken ==
  /\ open = <<>> /\ label = <<"tokens">> /\ ConsumeBrace
  /\ tokens' = Append(tokens, NewToken) /\ open' = <<Message("tokens")>>
  /\ NextLabel /\ UNCHANGED <<value, quote>>

\* A message that is there already is added to.
OpenMessage ==
  /\ InMessage("tokens") /\ \E f \in MessageFields :
       /\ label = <<f>> /\ open' = Append(Noted, Message(f))
       /\ tokens' = [tokens EXCEPT ![Len(tokens)][f] =
                       IF @ = Unset THEN Given(NewMessage(f)) ELSE @]
  /\ ConsumeBrace /\ NextLabel /\ UNCHANGED <<value, quote>>

\* A token itself has no preserve_order.
RecordFieldOrder(m, order) ==
  IF m.preserve_order = Given(<<"true">>) THEN [m EXCEPT !.field_order = @ \o order]
  ELSE m

CloseMessage ==
  /\ label = <<"}">> /\ \E f \in MessageFields :
       /\ InMessage(f)
       /\ tokens' = [tokens EXCEPT ![Len(tokens)][f][1] =
                       RecordFieldOrder(@, Last(open).order)]
  /\ pc' = "after field" /\ open' = Front(open) /\ label' = <<>>
  /\ UNCHANGED <<p, value, quote>>

\* char is signed on x86, so each byte is below 192: what is counted are bytes,
\* not letters.
UnicodeSize(name) == Len(name)

\* Where the next token starts.
NextPlace(start, name) == start + UnicodeSize(name)

Spaces(s) == \A k \in DOMAIN s : s[k] = "sp"

\* Without the spaces at its end; a name of spaces only stays.
Stripped(name) ==
  IF Spaces(name) THEN name
  ELSE SubSeq(name, 1, CHOOSE k \in DOMAIN name :
                         name[k] # "sp" /\ Spaces(SubSeq(name, k + 1, Len(name))))

UpdateTokenIndices(t) ==
  LET text == Stripped(p.name)
      u == [t EXCEPT !.text = text, !.start = p.start,
                     !.end = p.start + UnicodeSize(p.name)
                               - (Len(p.name) - Len(text)) - 1]
  IN  IF t.name # Unset THEN [u EXCEPT !.wordid = t.name]
      ELSE [u EXCEPT !.name = Given(text), !.type = Given(<<"SEMIOTIC_CLASS">>)]

CloseToken ==
  /\ InMessage("tokens") /\ label = <<"}">>
  /\ tokens' = Append(Front(tokens), UpdateTokenIndices(Last(tokens)))
  /\ p' = [p EXCEPT !.name = <<>>,
                    !.start = NextPlace(p.start, p.name)]
  /\ open' = <<>> /\ NextLabel /\ UNCHANGED <<value, quote>>

\* field_order is not for the grammar to give.
KnownFields == ToSet(Fields[Last(open).is]) \ {"field_order"}

OpenField ==
  /\ open # <<>> /\ \E f \in KnownFields \ MessageFields : label = <<f>>
  /\ pc' = "value" /\ value' = <<>> /\ open' = Noted
  /\ UNCHANGED <<p, label, quote, tokens>>

Action == \/ Parsed \/ OpenToken \/ OpenMessage \/ CloseMessage
          \/ CloseToken \/ OpenField

\* No label where one is needed, and one that nobody knows.
Unknown ==
  IF open = <<>> THEN label \notin {<<>>, <<"tokens">>}
  ELSE \A f \in KnownFields \cup {"}"} : label # <<f>>

Dispatch ==
  pc = "dispatch" /\ UNCHANGED source /\ (Action \/ (Unknown /\ Fail))
-----------------------------------------------------------------------------
(* ParseFieldValue and ParseQuotedFieldValue.                              *)

\* An enumeration keeps its value when it is given one it does not have.
Valid(f, v) == f = "type" => v \in {<<t>> : t \in Types}

Converted(f, v) == IF f \in BoolFields /\ v # <<"true">> THEN <<"false">> ELSE v

With(m, f, v) == [m EXCEPT ![f] = IF f \in Repeated THEN Append(@, v) ELSE Given(v)]

SetField(v) ==
  LET f == label[1]
      w == Converted(f, v)
      k == Len(tokens)
  IN  /\ tokens' = IF ~Valid(f, v) THEN tokens
                   ELSE IF InMessage("tokens") THEN [tokens EXCEPT ![k] = With(@, f, w)]
                   ELSE [tokens EXCEPT ![k][Last(open).is][1] = With(@, f, w)]
      /\ pc' = "after field"

ParseFieldValue ==
  /\ pc = "value" /\ UNCHANGED source
  /\ IF AtEnd THEN Fail
     ELSE LET o == Arc.o IN
          /\ p' = IF o = "}" THEN PrevState(NextState) ELSE NextState
          /\ UNCHANGED <<open, label>>
          /\ CASE o = "dquote" -> /\ quote' = [NoQuote EXCEPT !.from = p.state + 1]
                                  /\ pc' = "quoted" /\ UNCHANGED <<value, tokens>>
               [] o \in {"sp", "}"} -> SetField(value) /\ UNCHANGED <<value, quote>>
               [] OTHER -> /\ value' = IF o = "eps" THEN value ELSE Append(value, o)
                           /\ UNCHANGED <<pc, quote, tokens>>

\* Mutant: every backslash escapes what follows, a backslash too.
AnyEscape(o) == o = "backslash"

Escape(o) == o = "backslash" /\ ~quote.slash

\* Mutant: the second reading is like the first.
TryTheSame ==
  /\ pc' = pc /\ value' = <<>> /\ p' = [p EXCEPT !.state = quote.from]
  /\ quote' = [quote EXCEPT !.slash = FALSE]
  /\ UNCHANGED <<open, label, tokens>>

\* At the end of the path the value is read again, backslashes like letters.
TryAgain ==
  /\ pc' = pc /\ value' = <<>> /\ p' = [p EXCEPT !.state = quote.from]
  /\ quote' = [quote EXCEPT !.raw = TRUE, !.slash = FALSE]
  /\ UNCHANGED <<open, label, tokens>>

ParseQuotedFieldValue ==
  /\ pc = "quoted" /\ UNCHANGED source
  /\ IF AtEnd THEN IF quote.raw THEN Fail ELSE TryAgain
     ELSE LET o == Arc.o IN
          /\ p' = NextState /\ UNCHANGED <<open, label>>
          /\ CASE Escape(o) ->
                    /\ quote' = [quote EXCEPT !.slash = ~quote.raw]
                    /\ UNCHANGED <<pc, value, tokens>>
               [] o = "dquote" /\ ~quote.slash ->
                    SetField(value) /\ UNCHANGED <<value, quote>>
               [] o = "eps" -> UNCHANGED <<pc, value, quote, tokens>>
               [] OTHER ->
                    /\ value' = Append(value, o)
                    /\ quote' = [quote EXCEPT !.slash = FALSE]
                    /\ UNCHANGED <<pc, tokens>>

SecondReading == pc = "quoted" /\ AtEnd /\ ~quote.raw

Parse == /\ \/ ConsumeLabel \/ ConsumeWhitespace \/ Dispatch
            \/ ParseFieldValue \/ ParseQuotedFieldValue
         /\ again' = (again \/ SecondReading)
=============================================================================
