----------------------------- MODULE ClientRepl -----------------------------
(***************************************************************************)
(* festival_client and the interpreter that serves it: copy_to_server of   *)
(* festival/src/main/festival_client.cc sends a script byte by byte, finds *)
(* the ends of its expressions with an automaton of its own (new_state)    *)
(* and waits for an answer there; repl and the reader of                   *)
(* speech_tools/siod/slib.cc find the expressions in the bytes again,      *)
(* evaluate them and answer each (slib_server.cc).                         *)
(*                                                                         *)
(* An answer is LP, the value, and OK, or else ER; before it an expression *)
(* may send waveforms and values of its own.  How the files that follow WV *)
(* and LP are sent is FileTransfer's subject: each is one message here.    *)
(* "a" stands for every byte that is part of a symbol and nothing else.    *)
(***************************************************************************)
EXTENDS Naturals, Integers, Sequences

CONSTANTS Lines,    \* the lines a script is made of
          MaxLines, \* bound: lines in a script
          BufLen    \* bytes putc holds back (BUFSIZ)

Blank == {" ", "nl"}
Chars == Blank \cup {"a", "(", ")", "'", ";", "dquote", "backslash"}

ASSUME LinesAssumption ==
  Lines \subseteq Seq(Chars) /\ MaxLines \in Nat /\ BufLen \in Nat \ {0}

VARIABLES line,    \* what is still to be copied of the current line
          taken,   \* lines so far
          client,  \* "copy", "wait", "end" after the script, or "killed"
          state, bdepth,  \* of new_state
          buf,     \* what putc holds back
          net,     \* bytes on their way to the server
          up,      \* messages on their way to the client
          server,  \* "read", "eval", or "gone"
          rd       \* the reader: a place within an expression

vars == <<line, taken, client, state, bdepth, buf, net, up, server, rd>>

Top == [lex |-> "space", depth |-> 0, quoted |-> FALSE]

Init ==
  /\ line = <<>> /\ taken = 0 /\ client = "copy" /\ state = 0 /\ bdepth = 0
  /\ buf = <<>> /\ net = <<>> /\ up = <<>> /\ server = "read" /\ rd = Top
-----------------------------------------------------------------------------
(* new_state.  0: between expressions, 5: in one, 1: at the end of one;    *)
(* 3: comment; 4: string; 2, 6: after a backslash.                         *)

Opening(c) ==
  CASE c = "backslash" -> 2
    [] c = ";"         -> 3
    [] c = "dquote"    -> 4
    [] OTHER           -> 5

InString(c) ==
  CASE c = "backslash" -> 6
    [] c = "dquote"    -> 5
    [] OTHER           -> 4

new_state(s, d, c) ==
  CASE s = 0 -> IF c \in Blank THEN 0 ELSE Opening(c)
    [] s = 3 -> IF c = "nl" THEN 5 ELSE 3
    [] s = 4 -> InString(c)
    [] s = 6 -> 4
    [] s = 5 -> IF c \notin Blank THEN Opening(c) ELSE IF d = 0 THEN 1 ELSE 5
    [] OTHER -> 5

(* A ")" counts in state 5 only. *)
NewDepth(s, d, c) ==
  IF c = "(" /\ s \in {0, 5} THEN d + 1
  ELSE IF c = ")" /\ s = 5 THEN d - 1 ELSE d
-----------------------------------------------------------------------------
(* The client. *)

NextLine ==
  /\ client = "copy" /\ line = <<>> /\ taken < MaxLines
  /\ line' \in Lines /\ taken' = taken + 1
  /\ UNCHANGED <<client, state, bdepth, buf, net, up, server, rd>>

(* A server that is gone loses what it is sent, and SIGPIPE may kill the   *)
(* sender.                                                                 *)
Flush(bytes, next) ==
  /\ buf' = <<>>
  /\ IF server = "gone" THEN client' \in {next, "killed"} /\ UNCHANGED net
                        ELSE client' = next /\ net' = net \o bytes

copy_to_server ==
  /\ client = "copy" /\ line # <<>> /\ line' = Tail(line)
  /\ LET c == Head(line)
         s == new_state(state, bdepth, c)
     IN  /\ bdepth' = NewDepth(state, bdepth, c)
         /\ \/ s = 1 /\ state' = 0 /\ Flush(Append(buf, c), "wait")
            \/ /\ s # 1 /\ state' = s
               /\ IF Len(buf) + 1 = BufLen
                  THEN Flush(Append(buf, c), "copy")
                  ELSE buf' = Append(buf, c) /\ UNCHANGED <<client, net>>
  /\ UNCHANGED <<taken, up, server, rd>>

\* Mutant: an error does not end the waiting.
WaitsForOk(message) == message # "OK"

\* Mutant: a value ends it.
WaitsForValue(message) == message \notin {"OK", "ER", "LP"}

WaitsOn(message) == message \notin {"OK", "ER"}

(* WV and LP are followed by more. *)
accept ==
  /\ client = "wait" /\ up # <<>> /\ up' = Tail(up)
  /\ client' = IF WaitsOn(Head(up)) THEN "wait" ELSE "copy"
  /\ UNCHANGED <<line, taken, state, bdepth, buf, net, server, rd>>

(* The script may end anywhere, and exit flushes and closes. *)
finish ==
  /\ client = "copy" /\ Flush(buf, "end") /\ line' = <<>>
  /\ UNCHANGED <<taken, state, bdepth, up, server, rd>>

Client == NextLine \/ copy_to_server \/ accept \/ finish
-----------------------------------------------------------------------------
(* The reader: flush_ws (lex is "space" or "comment"), lreadr, lreadparen  *)
(* and lreadstring as one automaton.  quoted: a quote waits for its datum. *)

(* c ends the datum that is being read, on this level. *)
EndsDatum(r, c) ==
  \/ r.lex = "token" /\ c \notin {"a", "backslash"}
  \/ r.lex = "string" /\ c = "dquote"
  \/ r.lex = "space" /\ c = ")" /\ r.depth > 0 /\ ~r.quoted

(* The byte that ends a symbol is given back, unless it is a blank. *)
GivesBack(r, c) == r.lex = "token" /\ EndsDatum(r, c) /\ c \notin Blank

Unexpected(r, c) == r.lex = "space" /\ c = ")" /\ (r.depth = 0 \/ r.quoted)

Datum(r) == [r EXCEPT !.lex = "space", !.quoted = FALSE]

Closed(r, c) ==
  Datum(IF r.lex = "space" THEN [r EXCEPT !.depth = @ - 1] ELSE r)

Step(r, c) ==
  LET Lex(l) == [r EXCEPT !.lex = l] IN
  CASE r.lex = "comment" -> Lex(IF c = "nl" THEN "space" ELSE "comment")
    [] r.lex = "escape"  -> Lex("string")
    [] r.lex = "string"  -> Lex(IF c = "backslash" THEN "escape" ELSE "string")
    [] r.lex = "token"   -> r
    [] r.lex = "space"   ->
         CASE c \in Blank  -> r
           [] c = ";"      -> Lex("comment")
           [] c = "dquote" -> Lex("string")
           [] c = "'"      -> [r EXCEPT !.quoted = TRUE]
           [] c = "("      -> [r EXCEPT !.depth = @ + 1, !.quoted = FALSE]
           [] OTHER        -> Lex("token")

(* err: the client is told, and the reading begins anew. *)
Error == up' = Append(up, "ER") /\ rd' = Top /\ server' = "read"

Complete(r) == IF r.depth = 0 THEN rd' = Top /\ server' = "eval"
                              ELSE rd' = r /\ UNCHANGED server

NotAtTop == rd.depth > 0 \/ rd.quoted

read ==
  /\ server = "read" /\ net # <<>>
  /\ LET c == Head(net) IN
     /\ net' = IF GivesBack(rd, c) THEN net ELSE Tail(net)
     /\ \/ Unexpected(rd, c) /\ Error
        \/ EndsDatum(rd, c) /\ Complete(Closed(rd, c)) /\ UNCHANGED up
        \/ /\ ~EndsDatum(rd, c) /\ ~Unexpected(rd, c)
           /\ rd' = Step(rd, c) /\ UNCHANGED <<up, server>>
  /\ UNCHANGED <<line, taken, client, state, bdepth, buf>>

\* Mutant: the end of file does not end a string.
ReadEofNoString ==
  /\ server = "read" /\ net = <<>> /\ client \in {"end", "killed"}
  /\ \/ rd.lex = "token" /\ Complete(Datum(rd)) /\ UNCHANGED up
     \/ /\ rd.lex \in {"space", "comment"} /\ ~NotAtTop
        /\ server' = "gone" /\ UNCHANGED <<up, rd>>
     \/ /\ rd.lex = "escape" \/ (rd.lex \in {"space", "comment"} /\ NotAtTop)
        /\ Error
  /\ UNCHANGED <<line, taken, client, state, bdepth, buf, net>>

(* At the end of file a symbol and a string are complete, a list, a quote  *)
(* and a backslash in a string are errors.                                 *)
read_eof ==
  /\ server = "read" /\ net = <<>> /\ client \in {"end", "killed"}
  /\ \/ /\ rd.lex \in {"token", "string"}
        /\ Complete(Datum(rd)) /\ UNCHANGED up
     \/ /\ rd.lex \in {"space", "comment"} /\ ~NotAtTop
        /\ server' = "gone" /\ UNCHANGED <<up, rd>>
     \/ /\ rd.lex = "escape" \/ (rd.lex \in {"space", "comment"} /\ NotAtTop)
        /\ Error
  /\ UNCHANGED <<line, taken, client, state, bdepth, buf, net>>

\* Without a temporary file for the value there is only "OK".
Answers == {<<"LP", "OK">>, <<"OK">>, <<"ER">>}

(* The expression may send files, may end the server, and may have no      *)
(* client any more to answer to.                                           *)
eval ==
  /\ server = "eval"
  /\ \/ /\ \E sent \in {<<>>, <<"WV">>, <<"LP">>}, answer \in Answers :
              up' = up \o sent \o answer
        /\ server' = "read"
     \/ server' = "gone" /\ UNCHANGED up
  /\ UNCHANGED <<line, taken, client, state, bdepth, buf, net, rd>>

Server == read \/ read_eof \/ eval

Next == Client \/ Server

(* Both processes run; a script is a file, and has an end.                 *)
Spec == Init /\ [][Next]_vars /\ WF_vars(copy_to_server) /\ WF_vars(accept)
             /\ WF_vars(Server)
-----------------------------------------------------------------------------
(* The two automata over a line: where new_state is and how many ends it   *)
(* has found, where the reader is and how many answers follow.             *)

After(r, c) ==
  CASE Unexpected(r, c) -> Top
    [] EndsDatum(r, c)  -> IF Closed(r, c).depth = 0 THEN Top ELSE Closed(r, c)
    [] OTHER            -> Step(r, c)

Answered(r, c) ==
  IF Unexpected(r, c) \/ (EndsDatum(r, c) /\ Closed(r, c).depth = 0) THEN 1 ELSE 0

ReadOnce(q, c) ==
  [rd |-> After(q.rd, c), answers |-> q.answers + Answered(q.rd, c)]

ReadByte(q, c) ==
  IF GivesBack(q.rd, c) THEN ReadOnce(ReadOnce(q, c), c) ELSE ReadOnce(q, c)

SendByte(q, c) ==
  LET s == new_state(q.state, q.depth, c)
  IN  [state |-> IF s = 1 THEN 0 ELSE s, depth |-> NewDepth(q.state, q.depth, c),
       waits |-> IF s = 1 THEN q.waits + 1 ELSE q.waits]

BothAtTop == [sent |-> [state |-> 0, depth |-> 0, waits |-> 0],
              read |-> [rd |-> Top, answers |-> 0]]

Byte(q, c) == [sent |-> SendByte(q.sent, c), read |-> ReadByte(q.read, c)]

Course(l) ==
  LET at[k \in 0 .. Len(l)] ==
        IF k = 0 THEN BothAtTop ELSE Byte(at[k - 1], l[k])
  IN  at

(* Who stops to wait is answered for what was sent.                        *)
NoWaitInVain(before, q) ==
  q.sent.waits # before.sent.waits => q.read.answers >= q.sent.waits

(* The line leaves both as they were, with an answer for each wait.        *)
Even(q) ==
  /\ q.sent.state = 0 /\ q.sent.depth = 0 /\ q.read.rd = Top
  /\ q.read.answers = q.sent.waits

(* Scripts as people write them have such lines.  Others are easily made:  *)
(* two expressions on a line without white space, a comment and a blank    *)
(* line.                                                                   *)
ASSUME AgreementAssumption ==
  \A l \in Lines :
    /\ Even(Course(l)[Len(l)])
    /\ \A k \in 1 .. Len(l) : NoWaitInVain(Course(l)[k - 1], Course(l)[k])
-----------------------------------------------------------------------------
TypeOK ==
  /\ line \in Seq(Chars) /\ taken \in 0 .. MaxLines
  /\ client \in {"copy", "wait", "end", "killed"}
  /\ state \in {0, 2, 3, 4, 5, 6} /\ bdepth \in Int
  /\ buf \in Seq(Chars) /\ Len(buf) < BufLen /\ net \in Seq(Chars)
  /\ up \in Seq({"OK", "ER", "LP", "WV"}) /\ server \in {"read", "eval", "gone"}
  /\ rd \in [lex : {"space", "comment", "token", "string", "escape"},
             depth : Nat, quoted : BOOLEAN]

(* The two automata agree (new_state, and the reader of slib.cc): at the   *)
(* end of a line no answer is left over, which the next wait would take    *)
(* for its own.                                                            *)
InStep == client = "copy" /\ line = <<>> => up = <<>> /\ server # "eval"

(* Each wait of copy_to_server ends, unless the expression ends the server *)
(* (then read returns 0 and the client asks again for ever).               *)
WaitsEnd == client = "wait" ~> client # "wait" \/ server = "gone"

(* A server whose client is gone goes too (repl leaves at eof_val),        *)
(* wherever in an expression the script broke off.                         *)
ServerLeaves == client \in {"end", "killed"} ~> server = "gone"
=============================================================================
