-------------------------- MODULE ClientReplProofs --------------------------
(***************************************************************************)
(* Whatever the lines of the script are and wherever it ends: the reader's *)
(* depth never falls below zero, the client's buffer never fills, and both *)
(* automata stay within their states.  And when on each line by itself the *)
(* automata agree (AgreementAssumption), they stay in step for any number  *)
(* of lines, however the bytes are held back and the answers delayed.      *)
(***************************************************************************)
EXTENDS ClientRepl, SequenceTheorems, FiniteSetTheorems, WellFoundedInduction, TLAPS

States  == {0, 2, 3, 4, 5, 6}
Readers == [lex : {"space", "comment", "token", "string", "escape"},
            depth : Nat, quoted : BOOLEAN]
Messages == {"OK", "ER", "LP", "WV"}

\* The client's half of TypeOK, and what it shares with the server.
ClientTyped ==
  /\ line \in Seq(Chars) /\ taken \in 0 .. MaxLines
  /\ client \in {"copy", "wait", "end", "killed"}
  /\ state \in States /\ bdepth \in Int
  /\ buf \in Seq(Chars) /\ Len(buf) < BufLen

ServerTyped ==
  /\ up \in Seq(Messages) /\ server \in {"read", "eval", "gone"} /\ rd \in Readers
-----------------------------------------------------------------------------
\* new_state gives one of its states, and state 1 at the end of an expression.
LEMMA NewStateTypes ==
    ASSUME NEW s \in States, NEW d \in Int, NEW c \in Chars
    PROVE  /\ new_state(s, d, c) \in States \cup {1}
           /\ NewDepth(s, d, c) \in Int
<1>1. Opening(c) \in States /\ InString(c) \in States
  BY DEF Opening, InString, States
<1>2. new_state(s, d, c) \in States \cup {1}
  BY <1>1 DEF new_state, States
<1>3. NewDepth(s, d, c) \in Int
  BY DEF NewDepth
<1> QED
  BY <1>2, <1>3

\* What the reader makes of a byte is a place in an expression again: a list
\* is closed only where one was opened.
LEMMA ReaderTypes ==
    ASSUME NEW r \in Readers, NEW c \in Chars
    PROVE  /\ Step(r, c) \in Readers
           /\ Datum(r) \in Readers
           /\ EndsDatum(r, c) => Closed(r, c) \in Readers
<1>1. ASSUME NEW q \in Readers PROVE Datum(q) \in Readers
  BY <1>1 DEF Datum, Readers
<1>2. ASSUME EndsDatum(r, c) PROVE Closed(r, c) \in Readers
  <2>1. CASE r.lex = "space"
    <3>1. r.depth \in Nat /\ r.depth > 0
      BY <1>2, <2>1 DEF EndsDatum, Readers
    <3>2. [r EXCEPT !.depth = @ - 1] \in Readers
      BY <3>1 DEF Readers
    <3> QED
      BY <1>1, <2>1, <3>2 DEF Closed
  <2>2. CASE r.lex # "space"
    BY <1>1, <2>2 DEF Closed
  <2> QED
    BY <2>1, <2>2
<1>3. ASSUME NEW l \in {"space", "comment", "token", "string", "escape"}
      PROVE  [r EXCEPT !.lex = l] \in Readers
  BY DEF Readers
<1>4. /\ [r EXCEPT !.quoted = TRUE] \in Readers
      /\ [r EXCEPT !.depth = @ + 1, !.quoted = FALSE] \in Readers
  <2>1. r.depth + 1 \in Nat /\ TRUE \in BOOLEAN /\ FALSE \in BOOLEAN
    BY DEF Readers
  <2>2. [r EXCEPT !.quoted = TRUE] \in Readers
    BY <2>1 DEF Readers
  <2>3. PICK n \in Nat : n = r.depth + 1
    BY <2>1
  <2>4. [r EXCEPT !.depth = n, !.quoted = FALSE] \in Readers
    BY <2>1 DEF Readers
  <2> QED
    BY <2>2, <2>3, <2>4
<1>5. Step(r, c) \in Readers
  <2>1. r.lex \in {"space", "comment", "token", "string", "escape"}
    BY DEF Readers
  <2>2. CASE r.lex = "comment"
    BY <1>3, <2>2 DEF Step
  <2>3. CASE r.lex = "escape"
    BY <1>3, <2>3 DEF Step
  <2>4. CASE r.lex = "string"
    BY <1>3, <2>4 DEF Step
  <2>5. CASE r.lex = "token"
    BY <2>5 DEF Step
  <2>6. CASE r.lex = "space"
    BY <1>3, <1>4, <2>6 DEF Step
  <2> QED
    BY <2>1, <2>2, <2>3, <2>4, <2>5, <2>6
<1> QED
  BY <1>1, <1>2, <1>5

\* Flushing leaves an empty buffer and adds it to what is on its way.
LEMMA FlushTypes ==
    ASSUME NEW bytes \in Seq(Chars), NEW next \in {"copy", "wait", "end"},
           net \in Seq(Chars), Flush(bytes, next)
    PROVE  /\ buf' = <<>> /\ buf' \in Seq(Chars) /\ Len(buf') < BufLen
           /\ client' \in {"copy", "wait", "end", "killed"} /\ net' \in Seq(Chars)
<1>1. net \o bytes \in Seq(Chars) /\ <<>> \in Seq(Chars) /\ Len(<<>>) = 0
  BY ConcatProperties
<1>2. BufLen \in Nat /\ BufLen >= 1
  BY LinesAssumption
<1> QED
  <2>1. CASE server = "gone"
    BY <1>1, <1>2, <2>1 DEF Flush
  <2>2. CASE server # "gone"
    <3>1. buf' = <<>> /\ client' = next /\ net' = net \o bytes
      BY <2>2 DEF Flush
    <3>2. next \in {"copy", "wait", "end", "killed"}
      OBVIOUS
    <3> QED
      BY <1>1, <1>2, <3>1, <3>2
  <2> QED
    BY <2>1, <2>2

\* The client's steps keep its types.
LEMMA ClientKeeps ==
    ASSUME ClientTyped, net \in Seq(Chars), Client
    PROVE  ClientTyped' /\ net' \in Seq(Chars) /\ UNCHANGED <<server, rd>>
           /\ (up' = up \/ (up # <<>> /\ up' = Tail(up)))
<1>1. BufLen \in Nat /\ MaxLines \in Nat /\ Lines \subseteq Seq(Chars)
  BY LinesAssumption
<1>2. CASE NextLine
  <2>1. taken + 1 \in 0 .. MaxLines
    BY <1>1, <1>2 DEF NextLine, ClientTyped
  <2> QED
    BY <1>1, <1>2, <2>1 DEF NextLine, ClientTyped
<1>3. CASE copy_to_server
  <2>1. /\ line # <<>> /\ Head(line) \in Chars /\ line' = Tail(line) /\ Tail(line) \in Seq(Chars)
        /\ UNCHANGED <<taken, up, server, rd>>
    BY <1>3 DEF copy_to_server, ClientTyped
  <2>2. PICK c \in Chars, s \in States \cup {1}, d \in Int :
            c = Head(line) /\ s = new_state(state, bdepth, c) /\ d = NewDepth(state, bdepth, c)
    BY <2>1, NewStateTypes DEF ClientTyped
  <2>3. /\ bdepth' = d
        /\ \/ s = 1 /\ state' = 0 /\ Flush(Append(buf, c), "wait")
           \/ /\ s # 1 /\ state' = s
              /\ IF Len(buf) + 1 = BufLen
                 THEN Flush(Append(buf, c), "copy")
                 ELSE buf' = Append(buf, c) /\ UNCHANGED <<client, net>>
    BY <1>3, <2>2 DEF copy_to_server
  <2>4. /\ Append(buf, c) \in Seq(Chars) /\ Len(Append(buf, c)) = Len(buf) + 1
        /\ Len(buf) \in Nat /\ Len(buf) < BufLen
    BY <2>2 DEF ClientTyped
  <2>5. state' \in States
    BY <2>3 DEF States
  <2>6. /\ buf' \in Seq(Chars) /\ Len(buf') < BufLen
        /\ client' \in {"copy", "wait", "end", "killed"} /\ net' \in Seq(Chars)
    <3>1. CASE Flush(Append(buf, c), "wait")
      BY <2>4, <3>1, FlushTypes
    <3>2. CASE Flush(Append(buf, c), "copy")
      BY <2>4, <3>2, FlushTypes
    <3>3. CASE Len(buf) + 1 # BufLen /\ buf' = Append(buf, c) /\ UNCHANGED <<client, net>>
      BY <1>1, <2>4, <3>3 DEF ClientTyped
    <3> QED
      BY <2>3, <3>1, <3>2, <3>3
  <2> QED
    BY <2>1, <2>3, <2>5, <2>6 DEF ClientTyped
<1>4. CASE accept
  BY <1>4 DEF accept, ClientTyped
<1>5. CASE finish
  <2>1. /\ buf' \in Seq(Chars) /\ Len(buf') < BufLen
        /\ client' \in {"copy", "wait", "end", "killed"} /\ net' \in Seq(Chars)
    BY <1>5, FlushTypes DEF finish, ClientTyped
  <2> QED
    BY <1>5, <2>1 DEF finish, ClientTyped
<1> QED
  BY <1>2, <1>3, <1>4, <1>5 DEF Client

\* The server's steps keep its types.
LEMMA ServerKeeps ==
    ASSUME ServerTyped, net \in Seq(Chars), Server
    PROVE  ServerTyped' /\ net' \in Seq(Chars)
           /\ UNCHANGED <<line, taken, client, state, bdepth, buf>>
<1>1. Top \in Readers
  BY DEF Top, Readers
<1>2. Append(up, "ER") \in Seq(Messages)
  BY DEF ServerTyped, Messages
<1>3. ASSUME Error PROVE ServerTyped'
  BY <1>1, <1>2, <1>3 DEF Error, ServerTyped
<1>4. ASSUME NEW r \in Readers, Complete(r), UNCHANGED up PROVE ServerTyped'
  BY <1>1, <1>4 DEF Complete, ServerTyped
<1>5. CASE read
  <2>1. PICK c \in Chars :
            /\ c = Head(net)
            /\ net' = IF GivesBack(rd, c) THEN net ELSE Tail(net)
            /\ \/ Unexpected(rd, c) /\ Error
               \/ EndsDatum(rd, c) /\ Complete(Closed(rd, c)) /\ UNCHANGED up
               \/ /\ ~EndsDatum(rd, c) /\ ~Unexpected(rd, c)
                  /\ rd' = Step(rd, c) /\ UNCHANGED <<up, server>>
    <3>1. net # <<>> /\ Head(net) \in Chars
      BY <1>5 DEF read
    <3> QED
      BY <1>5, <3>1 DEF read
  <2>2. net' \in Seq(Chars)
    <3>1. net # <<>> /\ Tail(net) \in Seq(Chars)
      BY <1>5 DEF read
    <3> QED
      BY <2>1, <3>1
  <2>3. rd \in Readers
    BY DEF ServerTyped
  <2>4. CASE Unexpected(rd, c) /\ Error
    BY <1>3, <1>5, <2>2, <2>4 DEF read
  <2>5. CASE EndsDatum(rd, c) /\ Complete(Closed(rd, c)) /\ UNCHANGED up
    BY <1>4, <1>5, <2>2, <2>3, <2>5, ReaderTypes DEF read
  <2>6. CASE rd' = Step(rd, c) /\ UNCHANGED <<up, server>>
    <3>1. Step(rd, c) \in Readers
      BY <2>3, ReaderTypes
    <3> QED
      BY <1>5, <2>2, <2>6, <3>1 DEF read, ServerTyped
  <2> QED
    BY <2>1, <2>4, <2>5, <2>6
<1>6. CASE read_eof
  <2>1. /\ net' = net /\ UNCHANGED <<line, taken, client, state, bdepth, buf>>
        /\ \/ Complete(Datum(rd)) /\ UNCHANGED up
           \/ server' = "gone" /\ UNCHANGED <<up, rd>>
           \/ Error
    BY <1>6 DEF read_eof
  <2>2. Datum(rd) \in Readers
    <3>1. rd \in Readers /\ " " \in Chars
      BY DEF ServerTyped, Chars, Blank
    <3> QED
      BY <3>1, ReaderTypes
  <2>3. server' = "gone" /\ UNCHANGED <<up, rd>> => ServerTyped'
    BY DEF ServerTyped
  <2> QED
    BY <1>3, <1>4, <2>1, <2>2, <2>3
<1>7. CASE eval
  <2>1. ASSUME NEW sent \in {<<>>, <<"WV">>, <<"LP">>}, NEW answer \in Answers
        PROVE  up \o sent \o answer \in Seq(Messages)
    <3>1. <<>> \in Seq(Messages) /\ <<"WV">> \in Seq(Messages) /\ <<"LP">> \in Seq(Messages)
          /\ <<"LP", "OK">> \in Seq(Messages) /\ <<"OK">> \in Seq(Messages) /\ <<"ER">> \in Seq(Messages)
      BY DEF Messages
    <3>2. sent \in Seq(Messages) /\ answer \in Seq(Messages) /\ up \in Seq(Messages)
      BY <3>1 DEF Answers, ServerTyped
    <3>3. up \o sent \in Seq(Messages)
      BY <3>2, ConcatProperties
    <3> QED
      BY <3>2, <3>3, ConcatProperties
  <2> QED
    BY <1>7, <2>1 DEF eval, ServerTyped
<1> QED
  BY <1>5, <1>6, <1>7 DEF Server

\* Types of the two ends, for every set of lines, every number of them and
\* every size of the buffer.
THEOREM TypeCorrect == Spec => []TypeOK
<1>1. TypeOK <=> ClientTyped /\ ServerTyped /\ net \in Seq(Chars)
  BY DEF TypeOK, ClientTyped, ServerTyped, States, Readers, Messages
<1>2. Init => TypeOK
  <2> SUFFICES ASSUME Init PROVE TypeOK
    OBVIOUS
  <2>1. /\ BufLen \in Nat /\ BufLen >= 1 /\ MaxLines \in Nat
        /\ <<>> \in Seq(Chars) /\ <<>> \in Seq({"OK", "ER", "LP", "WV"}) /\ Len(<<>>) = 0
    BY LinesAssumption
  <2> QED
    BY <2>1 DEF Init, TypeOK, Top
<1>3. TypeOK /\ [Next]_vars => TypeOK'
  <2> SUFFICES ASSUME TypeOK, [Next]_vars PROVE TypeOK'
    OBVIOUS
  <2>1. ClientTyped /\ ServerTyped /\ net \in Seq(Chars)
    BY <1>1
  <2>2. ASSUME ClientTyped', ServerTyped', net' \in Seq(Chars) PROVE TypeOK'
    BY <2>2 DEF TypeOK, ClientTyped, ServerTyped, States, Readers, Messages
  <2>3. CASE Client
    <3>1. /\ ClientTyped' /\ net' \in Seq(Chars) /\ UNCHANGED <<server, rd>>
          /\ (up' = up \/ (up # <<>> /\ up' = Tail(up)))
      BY <2>1, <2>3, ClientKeeps
    <3>2. up' \in Seq(Messages)
      BY <2>1, <3>1 DEF ServerTyped
    <3> QED
      BY <2>1, <2>2, <3>1, <3>2 DEF ServerTyped
  <2>4. CASE Server
    <3>1. /\ ServerTyped' /\ net' \in Seq(Chars)
          /\ UNCHANGED <<line, taken, client, state, bdepth, buf>>
      BY <2>1, <2>4, ServerKeeps
    <3> QED
      BY <2>1, <2>2, <3>1 DEF ClientTyped
  <2>5. CASE UNCHANGED vars
    BY <2>1, <2>2, <2>5 DEF vars, ClientTyped, ServerTyped
  <2> QED
    BY <2>3, <2>4, <2>5 DEF Next
<1> QED
  BY <1>2, <1>3, PTL DEF Spec
-----------------------------------------------------------------------------
\* A set of numbers up to N has a least one.
LEMMA LeastNumber ==
    ASSUME NEW N \in Nat, NEW B, B \subseteq 0 .. N, B # {}
    PROVE  \E m \in B : \A k \in B : m <= k
<1> DEFINE T == {0 .. k : k \in B}
<1>1. T \subseteq FiniteSubsetsOf(0 .. N) /\ T # {}
  <2>1. ASSUME NEW k \in B PROVE 0 .. k \in FiniteSubsetsOf(0 .. N)
    <3>1. k \in 0 .. N /\ IsFiniteSet(0 .. k)
      BY FS_Interval
    <3> QED
      BY <3>1 DEF FiniteSubsetsOf
  <2> QED
    BY <2>1
<1> HIDE DEF T
<1>2. PICK x \in T : \A y \in T : ~(<<y, x>> \in StrictSubsetOrdering(0 .. N))
  BY <1>1, WFMin, FS_StrictSubsetOrderingWellFounded
<1>3. PICK m \in B : x = 0 .. m
  BY <1>2 DEF T
<1>4. ASSUME NEW k \in B, ~(m <= k) PROVE FALSE
  <2>1. k \in 0 .. N /\ m \in 0 .. N /\ 0 .. k \in T /\ k < m
    BY <1>4 DEF T
  <2>2. 0 .. k \subseteq 0 .. m /\ 0 .. k # 0 .. m
    <3>1. m \in 0 .. m /\ m \notin 0 .. k
      BY <2>1
    <3> QED
      BY <2>1, <3>1
  <2>3. <<0 .. k, 0 .. m>> \in StrictSubsetOrdering(0 .. N)
    BY <2>1, <2>2 DEF StrictSubsetOrdering
  <2> QED
    BY <1>2, <1>3, <2>1, <2>3
<1> QED
  BY <1>4
-----------------------------------------------------------------------------
(* The answers in up are the messages that end a wait.                     *)

Ends(m) == IF WaitsOn(m) THEN 0 ELSE 1

\* There are n answers in u.
Tally(t, u) ==
  /\ t \in [0 .. Len(u) -> Int] /\ t[0] = 0
  /\ \A k \in 1 .. Len(u) : t[k] = t[k - 1] + Ends(u[k])
  /\ \A j, k \in 0 .. Len(u) : j <= k => t[j] <= t[k]

Counted(u, n) == \E t : Tally(t, u) /\ t[Len(u)] = n

LEMMA CountEmpty == Counted(<<>>, 0)
<1> DEFINE t == [k \in 0 .. 0 |-> 0]
<1>1. Tally(t, <<>>) /\ t[Len(<<>>)] = 0
  BY DEF Tally
<1> QED
  BY <1>1 DEF Counted

LEMMA EndsType == ASSUME NEW m PROVE Ends(m) \in {0, 1}
BY DEF Ends

LEMMA CountAppend ==
    ASSUME NEW u \in Seq(Messages), NEW n \in Int, Counted(u, n), NEW m \in Messages
    PROVE  Counted(Append(u, m), n + Ends(m))
<1>1. PICK t : Tally(t, u) /\ t[Len(u)] = n
  BY DEF Counted
<1> DEFINE L == Len(u)
           v == Append(u, m)
           s == [k \in 0 .. L + 1 |-> IF k = L + 1 THEN n + Ends(m) ELSE t[k]]
<1>2. /\ L \in Nat /\ Len(v) = L + 1 /\ v[L + 1] = m
      /\ \A k \in 1 .. L : v[k] = u[k]
  OBVIOUS
<1>3. Ends(m) \in Int /\ Ends(m) >= 0
  BY EndsType
<1> HIDE DEF L, v
<1>4. L = Len(u)
  BY DEF L
<1>5. s \in [0 .. Len(v) -> Int] /\ s[0] = 0
  BY <1>1, <1>2, <1>3, <1>4 DEF Tally
<1>6. \A k \in 1 .. Len(v) : s[k] = s[k - 1] + Ends(v[k])
  <2>1. ASSUME NEW k \in 1 .. L PROVE s[k] = s[k - 1] + Ends(v[k])
    <3>1. k \in 0 .. L + 1 /\ k - 1 \in 0 .. L + 1 /\ k # L + 1 /\ k - 1 # L + 1
      BY <1>2
    <3> QED
      BY <1>1, <1>2, <1>4, <3>1 DEF Tally
  <2>2. s[L + 1] = s[L] + Ends(v[L + 1])
    BY <1>1, <1>2, <1>4
  <2>3. ASSUME NEW k \in 1 .. L + 1 PROVE s[k] = s[k - 1] + Ends(v[k])
    <3>1. CASE k \in 1 .. L
      BY <2>1, <3>1
    <3>2. CASE k = L + 1
      <4>1. k - 1 = L
        BY <1>2, <3>2
      <4> QED
        BY <2>2, <3>2, <4>1
    <3> QED
      BY <1>2, <3>1, <3>2
  <2> QED
    BY <1>2, <2>3
<1>7. \A j, k \in 0 .. Len(v) : j <= k => s[j] <= s[k]
  <2>1. \A j \in 0 .. L : t[j] <= n /\ t[j] \in Int
    BY <1>1, <1>2, <1>4 DEF Tally
  <2> QED
    BY <1>1, <1>2, <1>3, <1>4, <2>1 DEF Tally
<1>8. s[Len(v)] = n + Ends(m)
  BY <1>2
<1> QED
  BY <1>5, <1>6, <1>7, <1>8 DEF Counted, Tally, v

LEMMA CountTail ==
    ASSUME NEW u \in Seq(Messages), NEW n \in Int, Counted(u, n), u # <<>>
    PROVE  Counted(Tail(u), n - Ends(Head(u)))
<1>1. PICK t : Tally(t, u) /\ t[Len(u)] = n
  BY DEF Counted
<1> DEFINE L == Len(u)
           v == Tail(u)
           e == Ends(u[1])
           s == [k \in 0 .. L - 1 |-> t[k + 1] - e]
<1>2. /\ L \in Nat /\ L >= 1 /\ Len(v) = L - 1 /\ Head(u) = u[1]
      /\ \A k \in 1 .. L - 1 : v[k] = u[k + 1]
  OBVIOUS
<1>3. e \in Int
  BY EndsType
<1> HIDE DEF L, v, e
<1>4. L = Len(u) /\ e = Ends(u[1])
  BY DEF L, e
<1>5. t \in [0 .. L -> Int] /\ t[0] = 0 /\ t[1] = e
  <2>1. t[1] = t[1 - 1] + Ends(u[1]) /\ 1 - 1 = 0
    BY <1>1, <1>2, <1>4 DEF Tally
  <2> QED
    BY <1>1, <1>3, <1>4, <2>1 DEF Tally
<1>6. s \in [0 .. Len(v) -> Int] /\ s[0] = 0
  <2>1. s[0] = t[0 + 1] - e /\ 0 + 1 = 1
    BY <1>2
  <2>2. \A k \in 0 .. L - 1 : k + 1 \in 0 .. L /\ t[k + 1] - e \in Int
    BY <1>2, <1>3, <1>5
  <2> QED
    BY <1>2, <1>3, <1>5, <2>1, <2>2
<1>7. \A k \in 1 .. Len(v) : s[k] = s[k - 1] + Ends(v[k])
  <2>1. ASSUME NEW k \in 1 .. L - 1 PROVE s[k] = s[k - 1] + Ends(v[k])
    <3>1. t[k + 1] = t[k] + Ends(u[k + 1])
      <4>1. k + 1 \in 1 .. L /\ k + 1 - 1 = k
        BY <1>2
      <4> QED
        BY <1>1, <1>4, <4>1 DEF Tally
    <3>2. /\ s[k] = t[k + 1] - e /\ s[k - 1] = t[k] - e
      <4>1. k - 1 \in 0 .. L - 1 /\ k \in 0 .. L - 1 /\ k - 1 + 1 = k
        BY <1>2
      <4> QED
        BY <4>1
    <3>3. t[k] \in Int /\ t[k + 1] \in Int /\ Ends(u[k + 1]) \in Int
      BY <1>2, <1>5, EndsType
    <3>4. v[k] = u[k + 1]
      BY <1>2
    <3> QED
      BY <1>3, <3>1, <3>2, <3>3, <3>4
  <2> QED
    BY <1>2, <2>1
<1>8. \A j, k \in 0 .. Len(v) : j <= k => s[j] <= s[k]
  <2> SUFFICES ASSUME NEW j \in 0 .. L - 1, NEW k \in 0 .. L - 1, j <= k
               PROVE  s[j] <= s[k]
    BY <1>2
  <2>1. j + 1 \in 0 .. L /\ k + 1 \in 0 .. L /\ j + 1 <= k + 1
    BY <1>2
  <2>2. t[j + 1] <= t[k + 1]
    BY <1>1, <1>4, <2>1 DEF Tally
  <2>3. t[j + 1] \in Int /\ t[k + 1] \in Int
    BY <1>5, <2>1
  <2> QED
    BY <1>3, <2>2, <2>3
<1>9. s[Len(v)] = n - e
  <2>1. L - 1 \in 0 .. L - 1 /\ L - 1 + 1 = L
    BY <1>2
  <2> QED
    BY <1>1, <1>2, <1>4, <2>1
<1> QED
  BY <1>2, <1>4, <1>6, <1>7, <1>8, <1>9 DEF Counted, Tally, v

\* Answers are never fewer than none, and none only if the last message is none.
LEMMA CountBounds ==
    ASSUME NEW u \in Seq(Messages), NEW n \in Int, Counted(u, n)
    PROVE  /\ n >= 0
           /\ n = 0 /\ u # <<>> => WaitsOn(u[Len(u)])
           /\ n > 0 => u # <<>>
<1>1. PICK t : Tally(t, u) /\ t[Len(u)] = n
  BY DEF Counted
<1>2. Len(u) \in Nat
  OBVIOUS
<1>3. t[0] = 0 /\ t[0] <= t[Len(u)]
  BY <1>1, <1>2 DEF Tally
<1>4. n = 0 /\ u # <<>> => WaitsOn(u[Len(u)])
  <2> SUFFICES ASSUME n = 0, u # <<>> PROVE WaitsOn(u[Len(u)])
    OBVIOUS
  <2>1. Len(u) \in 1 .. Len(u) /\ Len(u) - 1 \in 0 .. Len(u) /\ 0 \in 0 .. Len(u)
    OBVIOUS
  <2>2. t[Len(u)] = t[Len(u) - 1] + Ends(u[Len(u)])
    BY <1>1, <2>1 DEF Tally
  <2>3. t[Len(u) - 1] \in Int /\ 0 <= t[Len(u) - 1]
    BY <1>1, <2>1 DEF Tally
  <2>4. Ends(u[Len(u)]) # 1
    BY <1>1, <2>2, <2>3
  <2> QED
    BY <2>4 DEF Ends
<1>5. n > 0 => u # <<>>
  BY <1>1, <1>3
<1> QED
  BY <1>1, <1>3, <1>4, <1>5
-----------------------------------------------------------------------------
Places == [rd : Readers, answers : Int]

\* A byte leads from a place of the reader to another, with one answer more, if any.
LEMMA OnceTypes ==
    ASSUME NEW q \in Places, NEW c \in Chars
    PROVE  /\ ReadOnce(q, c) \in Places
           /\ ReadOnce(q, c).answers = q.answers + Answered(q.rd, c)
           /\ ReadOnce(q, c).rd = After(q.rd, c)
           /\ Answered(q.rd, c) \in {0, 1}
<1>1. q.rd \in Readers /\ q.answers \in Int
  BY DEF Places
<1>2. Top \in Readers
  BY DEF Top, Readers
<1>3. After(q.rd, c) \in Readers
  <2>1. CASE Unexpected(q.rd, c)
    <3>1. ~EndsDatum(q.rd, c)
      BY <2>1 DEF Unexpected, EndsDatum
    <3> QED
      BY <1>2, <2>1, <3>1 DEF After
  <2>2. CASE ~Unexpected(q.rd, c) /\ EndsDatum(q.rd, c)
    BY <1>1, <1>2, <2>2, ReaderTypes DEF After
  <2>3. CASE ~Unexpected(q.rd, c) /\ ~EndsDatum(q.rd, c)
    BY <1>1, <2>3, ReaderTypes DEF After
  <2> QED
    BY <2>1, <2>2, <2>3
<1>4. Answered(q.rd, c) \in {0, 1}
  BY DEF Answered
<1>5. q.answers + Answered(q.rd, c) \in Int
  BY <1>1, <1>4
<1> QED
  BY <1>3, <1>4, <1>5 DEF ReadOnce, Places

LEMMA ByteTypes ==
    ASSUME NEW q \in Places, NEW c \in Chars
    PROVE  ReadByte(q, c) \in Places /\ q.answers <= ReadByte(q, c).answers
<1>1. q.answers \in Int
  BY DEF Places
<1>2. /\ ReadOnce(q, c) \in Places
      /\ q.answers <= ReadOnce(q, c).answers /\ ReadOnce(q, c).answers \in Int
  BY <1>1, OnceTypes DEF Places
<1>3. CASE ~GivesBack(q.rd, c)
  BY <1>2, <1>3 DEF ReadByte
<1>4. CASE GivesBack(q.rd, c)
  <2> DEFINE o == ReadOnce(q, c)
  <2>1. o \in Places /\ o.answers \in Int
    BY <1>2
  <2> HIDE DEF o
  <2>2. ReadOnce(o, c) \in Places /\ o.answers <= ReadOnce(o, c).answers
        /\ ReadOnce(o, c).answers \in Int
    BY <2>1, OnceTypes DEF Places
  <2>3. q.answers <= o.answers
    BY <1>2 DEF o
  <2>4. ReadByte(q, c) = ReadOnce(o, c)
    BY <1>4 DEF ReadByte, o
  <2> QED
    BY <1>1, <2>1, <2>2, <2>3, <2>4
<1> QED
  BY <1>3, <1>4

\* A byte is given back once: then the symbol is over.
LEMMA GivenBackOnce ==
    ASSUME NEW q \in Places, NEW c \in Chars, GivesBack(q.rd, c)
    PROVE  ReadByte(ReadOnce(q, c), c) = ReadByte(q, c)
<1>1. q.rd \in Readers /\ q.rd.lex = "token" /\ EndsDatum(q.rd, c) /\ ~Unexpected(q.rd, c)
  BY DEF GivesBack, Unexpected, Places
<1>2. Closed(q.rd, c).lex = "space" /\ Top.lex = "space"
  BY <1>1 DEF Closed, Datum, Readers, Top
<1>3. After(q.rd, c).lex = "space"
  BY <1>1, <1>2 DEF After
<1>4. ReadOnce(q, c).rd = After(q.rd, c)
  BY OnceTypes
<1>5. ~GivesBack(ReadOnce(q, c).rd, c)
  BY <1>3, <1>4 DEF GivesBack
<1> QED
  BY <1>5 DEF ReadByte

\* Counting from another number is all the same.
From(q, z) == [rd |-> q.rd, answers |-> q.answers + z]

LEMMA OnceShift ==
    ASSUME NEW q \in Places, NEW c \in Chars, NEW z \in Int
    PROVE  /\ From(q, z) \in Places /\ From(q, z).rd = q.rd
           /\ ReadOnce(From(q, z), c) = From(ReadOnce(q, c), z)
<1>1. q.rd \in Readers /\ q.answers \in Int /\ Answered(q.rd, c) \in {0, 1}
  BY OnceTypes DEF Places
<1>2. q.answers + z + Answered(q.rd, c) = q.answers + Answered(q.rd, c) + z
  BY <1>1
<1> QED
  BY <1>1, <1>2 DEF From, ReadOnce, Places

LEMMA ByteShift ==
    ASSUME NEW q \in Places, NEW c \in Chars, NEW z \in Int
    PROVE  ReadByte(From(q, z), c) = From(ReadByte(q, c), z)
<1>1. From(q, z) \in Places /\ From(q, z).rd = q.rd
  BY OnceShift
<1>2. ReadOnce(From(q, z), c) = From(ReadOnce(q, c), z)
  BY OnceShift
<1>3. CASE ~GivesBack(q.rd, c)
  BY <1>1, <1>2, <1>3 DEF ReadByte
<1>4. CASE GivesBack(q.rd, c)
  <2>1. ReadOnce(q, c) \in Places
    BY OnceTypes
  <2>2. ReadOnce(From(ReadOnce(q, c), z), c) = From(ReadOnce(ReadOnce(q, c), c), z)
    BY <2>1, OnceShift
  <2> QED
    BY <1>1, <1>2, <1>4, <2>2 DEF ReadByte
<1> QED
  BY <1>3, <1>4
-----------------------------------------------------------------------------
(* From q the bytes of b lead the reader to e.                             *)

Path(f, b) ==
  /\ f \in [0 .. Len(b) -> Places]
  /\ \A k \in 1 .. Len(b) : f[k] = ReadByte(f[k - 1], b[k])
  /\ \A k \in 0 .. Len(b) : f[k].answers <= f[Len(b)].answers

Leads(q, b, e) == \E f : Path(f, b) /\ f[0] = q /\ f[Len(b)] = e

LEMMA LeadsNowhere ==
    ASSUME NEW q \in Places
    PROVE  Leads(q, <<>>, q) /\ \A e : Leads(q, <<>>, e) => e = q
<1> DEFINE f == [k \in 0 .. 0 |-> q]
<1>1. q.answers \in Int
  BY DEF Places
<1>2. Path(f, <<>>) /\ f[0] = q /\ f[Len(<<>>)] = q
  BY <1>1 DEF Path
<1>3. Leads(q, <<>>, q)
  BY <1>2 DEF Leads
<1>4. \A e : Leads(q, <<>>, e) => e = q
  BY DEF Leads
<1> QED
  BY <1>3, <1>4

LEMMA LeadsBounds ==
    ASSUME NEW b \in Seq(Chars), NEW q, NEW e, Leads(q, b, e)
    PROVE  q \in Places /\ e \in Places /\ q.answers <= e.answers
BY DEF Leads, Path

LEMMA LeadsAppend ==
    ASSUME NEW b \in Seq(Chars), NEW q, NEW e, Leads(q, b, e), NEW c \in Chars
    PROVE  Leads(q, Append(b, c), ReadByte(e, c))
<1>1. PICK f : Path(f, b) /\ f[0] = q /\ f[Len(b)] = e
  BY DEF Leads
<1> DEFINE L == Len(b)
           v == Append(b, c)
           w == ReadByte(e, c)
           g == [k \in 0 .. L + 1 |-> IF k = L + 1 THEN w ELSE f[k]]
<1>2. /\ L \in Nat /\ Len(v) = L + 1 /\ v[L + 1] = c
      /\ \A k \in 1 .. L : v[k] = b[k]
  OBVIOUS
<1>3. /\ e \in Places /\ w \in Places /\ e.answers <= w.answers
      /\ e.answers \in Int /\ w.answers \in Int
  BY LeadsBounds, ByteTypes DEF Places
<1>4. L = Len(b) /\ w = ReadByte(e, c)
  OBVIOUS
<1> HIDE DEF L, v, w
<1>5. g \in [0 .. Len(v) -> Places]
  BY <1>1, <1>2, <1>3, <1>4 DEF Path
<1>6. ASSUME NEW k \in 1 .. L + 1 PROVE g[k] = ReadByte(g[k - 1], v[k])
  <2>1. CASE k \in 1 .. L
    <3>1. k \in 0 .. L + 1 /\ k - 1 \in 0 .. L + 1 /\ k # L + 1 /\ k - 1 # L + 1
      BY <1>2, <2>1
    <3> QED
      BY <1>1, <1>2, <1>4, <2>1, <3>1 DEF Path
  <2>2. CASE k = L + 1
    <3>1. k - 1 = L /\ L \in 0 .. L + 1 /\ L + 1 \in 0 .. L + 1 /\ L # L + 1
      BY <1>2, <2>2
    <3> QED
      BY <1>1, <1>2, <1>4, <2>2, <3>1
  <2> QED
    BY <1>2, <2>1, <2>2
<1>7. ASSUME NEW k \in 0 .. L + 1 PROVE g[k].answers <= g[L + 1].answers
  <2>1. CASE k = L + 1
    BY <1>2, <1>3, <2>1
  <2>2. CASE k # L + 1
    <3>1. k \in 0 .. L
      BY <1>2, <2>2
    <3>2. f[k].answers <= e.answers /\ f[k].answers \in Int
      BY <1>1, <1>4, <3>1 DEF Path, Places
    <3> QED
      BY <1>2, <1>3, <2>2, <3>1, <3>2
  <2> QED
    BY <2>1, <2>2
<1>8. Path(g, v)
  BY <1>2, <1>5, <1>6, <1>7 DEF Path
<1>9. g[0] = q /\ g[Len(v)] = w
  BY <1>1, <1>2
<1> QED
  BY <1>4, <1>8, <1>9 DEF Leads, v

LEMMA LeadsTail ==
    ASSUME NEW b \in Seq(Chars), NEW q, NEW e, Leads(q, b, e), b # <<>>
    PROVE  Leads(ReadByte(q, Head(b)), Tail(b), e)
<1>1. PICK f : Path(f, b) /\ f[0] = q /\ f[Len(b)] = e
  BY DEF Leads
<1> DEFINE L == Len(b)
           v == Tail(b)
           g == [k \in 0 .. L - 1 |-> f[k + 1]]
<1>2. /\ L \in Nat /\ L >= 1 /\ Len(v) = L - 1 /\ Head(b) = b[1]
      /\ \A k \in 1 .. L - 1 : v[k] = b[k + 1]
  OBVIOUS
<1>3. L = Len(b)
  OBVIOUS
<1> HIDE DEF L, v
<1>4. \A k \in 0 .. L - 1 : k + 1 \in 0 .. L /\ g[k] = f[k + 1]
  BY <1>2
<1>5. g \in [0 .. Len(v) -> Places]
  BY <1>1, <1>2, <1>3, <1>4 DEF Path
<1>6. ASSUME NEW k \in 1 .. L - 1 PROVE g[k] = ReadByte(g[k - 1], v[k])
  <2>1. k + 1 \in 1 .. L /\ k + 1 - 1 = k /\ k - 1 \in 0 .. L - 1 /\ k - 1 + 1 = k
        /\ k \in 0 .. L - 1
    BY <1>2
  <2>2. f[k + 1] = ReadByte(f[k], b[k + 1])
    BY <1>1, <1>3, <2>1 DEF Path
  <2>3. g[k] = f[k + 1] /\ g[k - 1] = f[k] /\ v[k] = b[k + 1]
    BY <1>2, <1>4, <2>1
  <2> QED
    BY <2>2, <2>3
<1>7. L - 1 \in 0 .. L - 1 /\ L - 1 + 1 = L /\ 0 \in 0 .. L - 1 /\ 0 + 1 = 1
  BY <1>2
<1>8. ASSUME NEW k \in 0 .. L - 1 PROVE g[k].answers <= g[L - 1].answers
  <2>1. f[k + 1].answers <= f[L].answers
    BY <1>1, <1>3, <1>4 DEF Path
  <2> QED
    BY <1>4, <1>7, <2>1
<1>9. Path(g, v)
  BY <1>2, <1>5, <1>6, <1>8 DEF Path
<1>10. g[0] = ReadByte(q, Head(b)) /\ g[Len(v)] = e
  <2>1. f[1] = ReadByte(f[1 - 1], b[1]) /\ 1 - 1 = 0
    BY <1>1, <1>2, <1>3 DEF Path
  <2>2. g[0] = f[1] /\ g[L - 1] = f[L]
    BY <1>4, <1>7
  <2> QED
    BY <1>1, <1>2, <1>3, <2>1, <2>2
<1> QED
  BY <1>9, <1>10 DEF Leads, v

\* What is given back is still to come.
LEMMA LeadsAgain ==
    ASSUME NEW b \in Seq(Chars), NEW q, NEW e, Leads(q, b, e), b # <<>>,
           GivesBack(q.rd, Head(b))
    PROVE  Leads(ReadOnce(q, Head(b)), b, e)
<1>1. PICK f : Path(f, b) /\ f[0] = q /\ f[Len(b)] = e
  BY DEF Leads
<1> DEFINE L == Len(b)
           o == ReadOnce(q, b[1])
           g == [k \in 0 .. L |-> IF k = 0 THEN o ELSE f[k]]
<1>2. L \in Nat /\ L >= 1 /\ L = Len(b) /\ Head(b) = b[1] /\ b[1] \in Chars
  OBVIOUS
<1>3. q \in Places /\ o \in Places /\ ReadByte(o, b[1]) = ReadByte(q, b[1])
  BY <1>2, LeadsBounds, OnceTypes, GivenBackOnce
<1>4. o.answers <= ReadByte(o, b[1]).answers
      /\ o.answers \in Int /\ ReadByte(o, b[1]).answers \in Int
  BY <1>2, <1>3, ByteTypes DEF Places
<1> HIDE DEF L, o
<1>5. f[1] = ReadByte(q, b[1]) /\ f[1].answers <= f[L].answers /\ f[L].answers \in Int
  <2>1. f[1] = ReadByte(f[1 - 1], b[1]) /\ 1 - 1 = 0 /\ 1 \in 0 .. L /\ L \in 0 .. L
    BY <1>1, <1>2 DEF Path
  <2>2. f[L] \in Places
    BY <1>1, <1>2, <2>1 DEF Path
  <2> QED
    BY <1>1, <1>2, <2>1, <2>2 DEF Path, Places
<1>6. g \in [0 .. L -> Places]
  BY <1>1, <1>2, <1>3 DEF Path
<1>7. ASSUME NEW k \in 1 .. L PROVE g[k] = ReadByte(g[k - 1], b[k])
  <2>1. CASE k = 1
    BY <1>2, <1>3, <1>5, <2>1
  <2>2. CASE k # 1
    <3>1. k \in 0 .. L /\ k - 1 \in 0 .. L /\ k # 0 /\ k - 1 # 0
      BY <1>2, <2>2
    <3> QED
      BY <1>1, <1>2, <3>1 DEF Path
  <2> QED
    BY <2>1, <2>2
<1>8. ASSUME NEW k \in 0 .. L PROVE g[k].answers <= g[L].answers
  <2>1. CASE k = 0
    BY <1>2, <1>3, <1>4, <1>5, <2>1
  <2>2. CASE k # 0
    BY <1>1, <1>2, <2>2 DEF Path
  <2> QED
    BY <2>1, <2>2
<1>9. Path(g, b)
  BY <1>2, <1>6, <1>7, <1>8 DEF Path
<1>10. g[0] = o /\ g[Len(b)] = e
  BY <1>1, <1>2
<1> QED
  BY <1>2, <1>9, <1>10 DEF Leads, o

LEMMA LeadsFrom ==
    ASSUME NEW b \in Seq(Chars), NEW q, NEW e, Leads(q, b, e), NEW z \in Int
    PROVE  Leads(From(q, z), b, From(e, z))
<1>1. PICK f : Path(f, b) /\ f[0] = q /\ f[Len(b)] = e
  BY DEF Leads
<1> DEFINE g == [k \in 0 .. Len(b) |-> From(f[k], z)]
<1>2. Len(b) \in Nat /\ \A k \in 1 .. Len(b) : b[k] \in Chars
  OBVIOUS
<1>3. ASSUME NEW k \in 0 .. Len(b)
      PROVE  /\ f[k] \in Places /\ g[k] = From(f[k], z) /\ g[k] \in Places
             /\ g[k].answers = f[k].answers + z /\ f[k].answers \in Int
  BY <1>1 DEF Path, Places, From
<1> HIDE DEF g
<1>4. ASSUME NEW k \in 1 .. Len(b) PROVE g[k] = ReadByte(g[k - 1], b[k])
  <2>1. k \in 0 .. Len(b) /\ k - 1 \in 0 .. Len(b) /\ f[k] = ReadByte(f[k - 1], b[k])
    BY <1>1, <1>2 DEF Path
  <2> QED
    BY <1>2, <1>3, <2>1, ByteShift
<1>5. ASSUME NEW k \in 0 .. Len(b) PROVE g[k].answers <= g[Len(b)].answers
  <2>1. f[k].answers <= f[Len(b)].answers /\ Len(b) \in 0 .. Len(b)
    BY <1>1, <1>2 DEF Path
  <2>2. /\ g[k].answers = f[k].answers + z /\ f[k].answers \in Int
        /\ g[Len(b)].answers = f[Len(b)].answers + z /\ f[Len(b)].answers \in Int
    BY <1>3, <2>1
  <2> QED
    BY <2>1, <2>2
<1>6. Path(g, b)
  BY <1>3, <1>4, <1>5 DEF Path, g
<1>7. g[0] = From(q, z) /\ g[Len(b)] = From(e, z)
  BY <1>1, <1>2, <1>3
<1> QED
  BY <1>6, <1>7 DEF Leads
-----------------------------------------------------------------------------
Senders == [state : States, depth : Int, waits : Int]
Points  == [sent : Senders, read : Places]

LEMMA PointTypes ==
    ASSUME NEW q \in Points, NEW c \in Chars
    PROVE  Byte(q, c) \in Points
<1>1. q.sent \in Senders /\ q.read \in Places
  BY DEF Points
<1>2. q.sent.state \in States /\ q.sent.depth \in Int /\ q.sent.waits \in Int
  BY <1>1 DEF Senders
<1>3. PICK s \in States \cup {1}, d \in Int :
          s = new_state(q.sent.state, q.sent.depth, c)
          /\ d = NewDepth(q.sent.state, q.sent.depth, c)
  BY <1>2, NewStateTypes
<1>4. SendByte(q.sent, c) = [state |-> IF s = 1 THEN 0 ELSE s, depth |-> d,
                             waits |-> IF s = 1 THEN q.sent.waits + 1 ELSE q.sent.waits]
  BY <1>3 DEF SendByte
<1>5. (IF s = 1 THEN 0 ELSE s) \in States
      /\ (IF s = 1 THEN q.sent.waits + 1 ELSE q.sent.waits) \in Int
  BY <1>2, <1>3 DEF States
<1>6. SendByte(q.sent, c) \in Senders
  BY <1>4, <1>5 DEF Senders
<1>7. ReadByte(q.read, c) \in Places
  BY <1>1, ByteTypes
<1> QED
  BY <1>6, <1>7 DEF Byte, Points

LEMMA TopTypes == BothAtTop \in Points
<1>1. Top \in Readers /\ 0 \in States /\ 0 \in Int
  BY DEF Top, Readers, States
<1> QED
  BY <1>1 DEF BothAtTop, Points, Senders, Places
-----------------------------------------------------------------------------
(* From q both automata go along l, no wait is in vain, and they are even  *)
(* at its end.                                                             *)

Journey(h, l) ==
  /\ h \in [0 .. Len(l) -> Points]
  /\ \A k \in 1 .. Len(l) : h[k] = Byte(h[k - 1], l[k]) /\ NoWaitInVain(h[k - 1], h[k])

Goes(q, l) == \E h : Journey(h, l) /\ h[0] = q /\ Even(h[Len(l)])

LEMMA GoesEnd ==
    ASSUME NEW q, Goes(q, <<>>)
    PROVE  Even(q)
BY DEF Goes

LEMMA GoesType ==
    ASSUME NEW l \in Seq(Chars), NEW q, Goes(q, l)
    PROVE  q \in Points
BY DEF Goes, Journey

LEMMA GoesTail ==
    ASSUME NEW l \in Seq(Chars), NEW q, Goes(q, l), l # <<>>
    PROVE  Goes(Byte(q, Head(l)), Tail(l)) /\ NoWaitInVain(q, Byte(q, Head(l)))
<1>1. PICK h : Journey(h, l) /\ h[0] = q /\ Even(h[Len(l)])
  BY DEF Goes
<1> DEFINE L == Len(l)
           v == Tail(l)
           g == [k \in 0 .. L - 1 |-> h[k + 1]]
<1>2. /\ L \in Nat /\ L >= 1 /\ Len(v) = L - 1 /\ Head(l) = l[1] /\ L = Len(l)
      /\ \A k \in 1 .. L - 1 : v[k] = l[k + 1]
  OBVIOUS
<1> HIDE DEF L, v
<1>3. \A k \in 0 .. L - 1 : k + 1 \in 0 .. L /\ g[k] = h[k + 1]
  BY <1>2
<1>4. g \in [0 .. Len(v) -> Points]
  BY <1>1, <1>2, <1>3 DEF Journey
<1>5. ASSUME NEW k \in 1 .. L - 1
      PROVE  g[k] = Byte(g[k - 1], v[k]) /\ NoWaitInVain(g[k - 1], g[k])
  <2>1. k + 1 \in 1 .. L /\ k + 1 - 1 = k /\ k - 1 \in 0 .. L - 1 /\ k - 1 + 1 = k
        /\ k \in 0 .. L - 1
    BY <1>2
  <2>2. h[k + 1] = Byte(h[k], l[k + 1]) /\ NoWaitInVain(h[k], h[k + 1])
    BY <1>1, <1>2, <2>1 DEF Journey
  <2>3. g[k] = h[k + 1] /\ g[k - 1] = h[k] /\ v[k] = l[k + 1]
    BY <1>2, <1>3, <2>1
  <2> QED
    BY <2>2, <2>3
<1>6. Journey(g, v)
  BY <1>2, <1>4, <1>5 DEF Journey
<1>7. h[1] = Byte(q, Head(l)) /\ NoWaitInVain(q, h[1])
  <2>1. h[1] = Byte(h[1 - 1], l[1]) /\ NoWaitInVain(h[1 - 1], h[1]) /\ 1 - 1 = 0
    BY <1>1, <1>2 DEF Journey
  <2> QED
    BY <1>1, <1>2, <2>1
<1>8. g[0] = h[1] /\ g[L - 1] = h[L]
  <2>1. 0 \in 0 .. L - 1 /\ 0 + 1 = 1 /\ L - 1 \in 0 .. L - 1 /\ L - 1 + 1 = L
    BY <1>2
  <2> QED
    BY <1>3, <2>1
<1> QED
  BY <1>1, <1>2, <1>6, <1>7, <1>8 DEF Goes, v

-----------------------------------------------------------------------------
(* Course is what its recursive definition says.                           *)

Follows(f, l, m) ==
  /\ f \in [0 .. m -> Points] /\ f[0] = BothAtTop
  /\ \A k \in 1 .. m : f[k] = Byte(f[k - 1], l[k])

LEMMA CourseExists ==
    ASSUME NEW l \in Seq(Chars)
    PROVE  \E f : Follows(f, l, Len(l))
<1> DEFINE L == Len(l)
           B == {m \in 0 .. L : ~ \E f : Follows(f, l, m)}
<1>1. L \in Nat /\ \A k \in 1 .. L : l[k] \in Chars
  OBVIOUS
<1> SUFFICES ASSUME ~ \E f : Follows(f, l, L) PROVE FALSE
  OBVIOUS
<1> HIDE DEF L
<1>2. B \subseteq 0 .. L /\ B # {}
  BY <1>1
<1>3. PICK m \in B : \A k \in B : m <= k
  BY <1>1, <1>2, LeastNumber
<1>4. m \in 0 .. L /\ ~ \E f : Follows(f, l, m)
  BY <1>3
<1>5. CASE m = 0
  <2> DEFINE f == [k \in 0 .. 0 |-> BothAtTop]
  <2>1. Follows(f, l, 0)
    BY TopTypes DEF Follows
  <2> QED
    BY <1>4, <1>5, <2>1
<1>6. CASE m # 0
  <2>1. m - 1 \in 0 .. L /\ m \in 1 .. L /\ ~(m <= m - 1)
    BY <1>1, <1>4, <1>6
  <2>2. m - 1 \notin B
    BY <1>3, <2>1
  <2>3. PICK f : Follows(f, l, m - 1)
    BY <2>1, <2>2
  <2> DEFINE w == Byte(f[m - 1], l[m])
             g == [k \in 0 .. m |-> IF k = m THEN w ELSE f[k]]
  <2>4. w \in Points
    <3>1. f[m - 1] \in Points /\ l[m] \in Chars
      BY <1>1, <2>1, <2>3 DEF Follows
    <3> QED
      BY <3>1, PointTypes
  <2>5. w = Byte(f[m - 1], l[m])
    OBVIOUS
  <2> HIDE DEF w
  <2>6. g \in [0 .. m -> Points] /\ g[0] = BothAtTop
    BY <2>1, <2>3, <2>4 DEF Follows
  <2>7. ASSUME NEW k \in 1 .. m PROVE g[k] = Byte(g[k - 1], l[k])
    <3>1. CASE k = m
      BY <2>1, <2>5, <3>1
    <3>2. CASE k # m
      <4>1. k \in 1 .. m - 1 /\ k \in 0 .. m /\ k - 1 \in 0 .. m /\ k - 1 # m
        BY <2>1, <3>2
      <4>2. f[k] = Byte(f[k - 1], l[k])
        BY <2>3, <4>1 DEF Follows
      <4> QED
        BY <3>2, <4>1, <4>2
    <3> QED
      BY <3>1, <3>2
  <2>8. Follows(g, l, m)
    BY <2>6, <2>7 DEF Follows
  <2> QED
    BY <1>4, <2>8
<1> QED
  BY <1>5, <1>6

LEMMA CourseValue ==
    ASSUME NEW l \in Seq(Chars)
    PROVE  Course(l) = [k \in 0 .. Len(l) |->
                          IF k = 0 THEN BothAtTop ELSE Byte(Course(l)[k - 1], l[k])]
<1> DEFINE R(f) == [k \in 0 .. Len(l) |->
                      IF k = 0 THEN BothAtTop ELSE Byte(f[k - 1], l[k])]
<1>1. PICK f : Follows(f, l, Len(l))
  BY CourseExists
<1>2. Len(l) \in Nat
  OBVIOUS
<1>3. f = R(f)
  <2>1. ASSUME NEW k \in 0 .. Len(l) PROVE f[k] = R(f)[k]
    <3>1. CASE k = 0
      BY <1>1, <3>1 DEF Follows
    <3>2. CASE k # 0
      <4>1. k \in 1 .. Len(l)
        BY <1>2, <3>2
      <4> QED
        BY <1>1, <3>2, <4>1 DEF Follows
    <3> QED
      BY <3>1, <3>2
  <2>2. f = [k \in 0 .. Len(l) |-> f[k]]
    BY <1>1 DEF Follows
  <2> QED
    BY <2>1, <2>2
<1>4. Course(l) = CHOOSE g : g = R(g)
  BY DEF Course
<1>5. Course(l) = R(Course(l))
  <2> HIDE DEF R
  <2> QED
    BY <1>3, <1>4
<1> QED
  BY <1>5
-----------------------------------------------------------------------------
LEMMA CourseTypes ==
    ASSUME NEW l \in Seq(Chars)
    PROVE  /\ Course(l) \in [0 .. Len(l) -> Points]
           /\ Course(l)[0] = BothAtTop
           /\ \A k \in 1 .. Len(l) : Course(l)[k] = Byte(Course(l)[k - 1], l[k])
<1> DEFINE L == Len(l)
           at == Course(l)
           B == {m \in 0 .. L : at[m] \notin Points}
<1>1. L \in Nat /\ L = Len(l) /\ \A k \in 1 .. L : l[k] \in Chars
  OBVIOUS
<1>2. at = [k \in 0 .. L |-> IF k = 0 THEN BothAtTop ELSE Byte(at[k - 1], l[k])]
  BY CourseValue
<1> HIDE DEF L, at
<1>3. at[0] = BothAtTop /\ \A k \in 1 .. L : at[k] = Byte(at[k - 1], l[k])
  <2>1. 0 \in 0 .. L /\ \A k \in 1 .. L : k \in 0 .. L /\ k # 0
    BY <1>1
  <2> DEFINE f == [k \in 0 .. L |-> IF k = 0 THEN BothAtTop ELSE Byte(at[k - 1], l[k])]
  <2>2. f[0] = BothAtTop /\ \A k \in 1 .. L : f[k] = Byte(at[k - 1], l[k])
    BY <2>1
  <2> HIDE DEF f
  <2>3. at = f
    BY <1>2 DEF f
  <2> QED
    BY <2>2, <2>3
<1>4. B = {}
  <2> SUFFICES ASSUME B # {} PROVE FALSE
    OBVIOUS
  <2>1. PICK m \in B : \A k \in B : m <= k
    <3>1. B \subseteq 0 .. L
      OBVIOUS
    <3> QED
      BY <1>1, <3>1, LeastNumber
  <2>2. m \in 0 .. L /\ at[m] \notin Points
    BY <2>1
  <2>3. m \in 1 .. L /\ m - 1 \in 0 .. L /\ ~(m <= m - 1)
    BY <1>1, <1>3, <2>2, TopTypes
  <2>4. at[m - 1] \in Points
    BY <2>1, <2>3
  <2> QED
    BY <1>1, <1>3, <2>2, <2>3, <2>4, PointTypes
<1>5. at \in [0 .. L -> Points]
  <2>1. at = [k \in 0 .. L |-> at[k]]
    <3> DEFINE f == [k \in 0 .. L |-> IF k = 0 THEN BothAtTop ELSE Byte(at[k - 1], l[k])]
    <3>1. f = [k \in 0 .. L |-> f[k]]
      OBVIOUS
    <3> HIDE DEF f
    <3>2. at = f
      BY <1>2 DEF f
    <3> QED
      BY <3>1, <3>2
  <2> QED
    BY <1>4, <2>1
<1> QED
  BY <1>1, <1>3, <1>5 DEF at

\* Each line leads both automata from the beginning to the beginning.
LEMMA LineGoes ==
    ASSUME NEW l \in Lines
    PROVE  Goes(BothAtTop, l)
<1>1. l \in Seq(Chars)
  BY LinesAssumption
<1>2. /\ Course(l) \in [0 .. Len(l) -> Points]
      /\ Course(l)[0] = BothAtTop
      /\ \A k \in 1 .. Len(l) : Course(l)[k] = Byte(Course(l)[k - 1], l[k])
  BY <1>1, CourseTypes
<1>3. /\ Even(Course(l)[Len(l)])
      /\ \A k \in 1 .. Len(l) : NoWaitInVain(Course(l)[k - 1], Course(l)[k])
  BY AgreementAssumption
<1>4. Journey(Course(l), l)
  BY <1>2, <1>3 DEF Journey
<1> QED
  BY <1>2, <1>3, <1>4 DEF Goes
-----------------------------------------------------------------------------
(* The bytes under way lead the reader to where it is when the client has  *)
(* sent so much, and the rest of the line leads both to its end; what the  *)
(* client has been answered, the answers under way and the one that is     *)
(* being made are those the reader has given so far.                       *)

Waiting == IF client = "wait" THEN 1 ELSE 0
Making  == IF server = "eval" THEN 1 ELSE 0

\* b is what the server will read, or would if it were not gone; q is where it
\* is, p where both are when b is read, n the number of answers in up.
Agree(b, q, p, n) ==
  /\ Leads(q, b, p.read) /\ Goes(p, line)
  /\ p.sent.state = state /\ p.sent.depth = bdepth
  /\ Counted(up, n)
  /\ server # "gone" => /\ b = net \o buf /\ q.rd = rd
                        /\ q.answers = p.sent.waits - Waiting + n + Making
  /\ server = "gone" => q.answers >= p.sent.waits - Waiting + n
  /\ client = "wait" => buf = <<>> /\ p.read.answers >= p.sent.waits

Agreement ==
  client \in {"copy", "wait"} =>
    \E b \in Seq(Chars), q \in Places, p \in Points, n \in Int : Agree(b, q, p, n)

\* What comes last is what ends a wait.
LastAnswers == up # <<>> => ~WaitsOn(up[Len(up)])

LEMMA AgreementSuffices ==
    ASSUME TypeOK, Agreement, LastAnswers
    PROVE  InStep
<1> SUFFICES ASSUME client = "copy", line = <<>> PROVE up = <<>> /\ server # "eval"
  BY DEF InStep
<1>1. PICK b \in Seq(Chars), q \in Places, p \in Points, n \in Int : Agree(b, q, p, n)
  BY DEF Agreement
<1>2. Leads(q, b, p.read) /\ Goes(p, <<>>) /\ Counted(up, n) /\ up \in Seq(Messages)
  BY <1>1 DEF Agree, TypeOK, Messages
<1>3. /\ p.read.answers = p.sent.waits /\ q.answers <= p.read.answers
      /\ q.answers \in Int /\ p.read.answers \in Int
  <2>1. Even(p)
    BY <1>2, GoesEnd
  <2> QED
    BY <1>2, <2>1, LeadsBounds DEF Even, Points, Places
<1>4. n >= 0 /\ (n = 0 /\ up # <<>> => WaitsOn(up[Len(up)]))
  BY <1>2, CountBounds
<1>5. q.answers >= p.sent.waits + n + Making /\ Making \in {0, 1}
  BY <1>1, <1>3, <1>4 DEF Agree, Waiting, Making
<1>6. n = 0 /\ Making = 0
  BY <1>3, <1>4, <1>5
<1> QED
  BY <1>4, <1>6 DEF LastAnswers, Making

\* Nobody waits for the other who waits: a client that waits while there is
\* nothing to read has its answer under way, or the server is gone.
NobodyWaitsInVain == client = "wait" /\ net = <<>> /\ server = "read" => up # <<>>

LEMMA AgreementFreesWaiters ==
    ASSUME TypeOK, Agreement
    PROVE  NobodyWaitsInVain
<1> SUFFICES ASSUME client = "wait", net = <<>>, server = "read" PROVE up # <<>>
  BY DEF NobodyWaitsInVain
<1>1. PICK b \in Seq(Chars), q \in Places, p \in Points, n \in Int : Agree(b, q, p, n)
  BY DEF Agreement
<1>2. /\ b = <<>> /\ Leads(q, <<>>, p.read) /\ Counted(up, n) /\ up \in Seq(Messages)
  <2>1. b = net \o buf /\ buf = <<>>
    BY <1>1 DEF Agree
  <2>2. <<>> \o <<>> = <<>>
    OBVIOUS
  <2> QED
    BY <1>1, <2>1, <2>2 DEF Agree, TypeOK, Messages
<1>3. p.read = q
  BY <1>2, LeadsNowhere
<1>4. p.read.answers >= p.sent.waits /\ q.answers = p.sent.waits - 1 + n
      /\ p.sent.waits \in Int /\ q.answers \in Int
  BY <1>1 DEF Agree, Waiting, Making, Points, Places, Senders
<1>5. n > 0
  BY <1>3, <1>4
<1> QED
  BY <1>2, <1>5, CountBounds
-----------------------------------------------------------------------------
\* Sequences that grow and shrink by one.
LEMMA ConcatEnds ==
    ASSUME NEW S, NEW s \in Seq(S), NEW t \in Seq(S), NEW c \in S
    PROVE  /\ s \o Append(t, c) = Append(s \o t, c)
           /\ s \o t \in Seq(S) /\ s \o <<>> = s
           /\ s # <<>> => /\ s \o t # <<>> /\ Head(s \o t) = Head(s)
                          /\ Tail(s \o t) = Tail(s) \o t
<1>1. s \o t \in Seq(S) /\ s \o <<>> = s
  BY ConcatProperties
<1>2. s \o Append(t, c) = Append(s \o t, c)
  OBVIOUS
<1>3. s # <<>> => s \o t # <<>> /\ Head(s \o t) = Head(s) /\ Tail(s \o t) = Tail(s) \o t
  OBVIOUS
<1> QED
  BY <1>1, <1>2, <1>3

\* The client takes the next line: both begin again from nothing.
LEMMA NextLineAgrees ==
    ASSUME TypeOK, Agreement, NextLine
    PROVE  Agreement'
<1>1. PICK b \in Seq(Chars), q \in Places, p \in Points, n \in Int : Agree(b, q, p, n)
  BY DEF Agreement, NextLine
<1>2. /\ client = "copy" /\ line = <<>> /\ line' \in Lines
      /\ UNCHANGED <<client, state, bdepth, buf, net, up, server, rd>>
  BY DEF NextLine
<1> DEFINE z == 0 - p.read.answers
<1>3. /\ p.sent.state = 0 /\ p.sent.depth = 0 /\ p.read.rd = Top
      /\ p.read.answers = p.sent.waits /\ z \in Int
      /\ p.read.answers \in Int /\ q.answers \in Int
  <2>1. Even(p)
    BY <1>1, <1>2, GoesEnd DEF Agree
  <2> QED
    BY <2>1 DEF Even, Points, Places
<1>4. From(p.read, z) = BothAtTop.read
  BY <1>3 DEF From, BothAtTop
<1>5. /\ From(q, z) \in Places /\ From(q, z).rd = q.rd
      /\ From(q, z).answers = q.answers - p.sent.waits
  BY <1>3 DEF From, Places
<1>6. Leads(From(q, z), b, BothAtTop.read)
  BY <1>1, <1>3, <1>4, LeadsFrom DEF Agree
<1> HIDE DEF z
<1>7. /\ BothAtTop \in Points /\ Goes(BothAtTop, line')
      /\ BothAtTop.sent.state = 0 /\ BothAtTop.sent.depth = 0 /\ BothAtTop.sent.waits = 0
  BY <1>2, TopTypes, LineGoes DEF BothAtTop
<1>8. Waiting = 0 /\ Waiting' = 0 /\ Making' = Making /\ Making \in {0, 1}
  BY <1>2 DEF Waiting, Making
<1>9. /\ server # "gone" => q.answers = p.sent.waits + n + Making
      /\ server = "gone" => q.answers >= p.sent.waits + n
  BY <1>1, <1>3, <1>8 DEF Agree
<1>10. Agree(b, From(q, z), BothAtTop, n)'
  <2>1. /\ server # "gone" => From(q, z).answers = 0 - 0 + n + Making
        /\ server = "gone" => From(q, z).answers >= 0 - 0 + n
    BY <1>3, <1>5, <1>8, <1>9
  <2> QED
    BY <1>1, <1>2, <1>3, <1>5, <1>6, <1>7, <1>8, <2>1 DEF Agree
<1> QED
  BY <1>5, <1>7, <1>10 DEF Agreement

\* A byte is put: the bytes lead one further, the line from one further.
LEMMA CopyAgrees ==
    ASSUME TypeOK, Agreement, copy_to_server
    PROVE  Agreement'
<1>1. PICK b \in Seq(Chars), q \in Places, p \in Points, n \in Int : Agree(b, q, p, n)
  BY DEF Agreement, copy_to_server
<1>2. /\ client = "copy" /\ line # <<>> /\ line' = Tail(line) /\ line \in Seq(Chars)
      /\ UNCHANGED <<taken, up, server, rd>>
  BY DEF copy_to_server, TypeOK
<1>3. PICK c \in Chars : c = Head(line)
  BY <1>2
<1> DEFINE s == new_state(state, bdepth, c)
           w == Byte(p, c)
<1>4. /\ bdepth' = NewDepth(state, bdepth, c)
      /\ \/ s = 1 /\ state' = 0 /\ Flush(Append(buf, c), "wait")
         \/ /\ s # 1 /\ state' = s
            /\ \/ Flush(Append(buf, c), "copy")
               \/ buf' = Append(buf, c) /\ UNCHANGED <<client, net>>
  BY <1>3 DEF copy_to_server
<1>5. Goes(w, line') /\ NoWaitInVain(p, w) /\ w \in Points
  BY <1>1, <1>2, <1>3, GoesTail, PointTypes DEF Agree
<1>6. Leads(q, Append(b, c), w.read)
  BY <1>1, LeadsAppend DEF Agree, Byte
<1>7. /\ w.sent.state = IF s = 1 THEN 0 ELSE s
      /\ w.sent.depth = bdepth'
      /\ w.sent.waits = IF s = 1 THEN p.sent.waits + 1 ELSE p.sent.waits
  BY <1>1, <1>4 DEF Agree, Byte, SendByte
<1> HIDE DEF s, w
<1>8. p.sent.waits \in Int /\ w.sent.waits \in Int /\ q.answers \in Int
  BY <1>5 DEF Points, Senders, Places
<1>9. net \in Seq(Chars) /\ buf \in Seq(Chars) /\ Append(buf, c) \in Seq(Chars)
  BY DEF TypeOK
<1>10. /\ client' = "wait" => s = 1 /\ buf' = <<>>
       /\ client' = "copy" => s # 1
       /\ state' = w.sent.state
       /\ server # "gone" => net' \o buf' = Append(net \o buf, c)
  <2>1. ASSUME NEW next, Flush(Append(buf, c), next)
        PROVE  /\ buf' = <<>> /\ client' \in {next, "killed"}
               /\ server # "gone" => net' \o buf' = Append(net \o buf, c)
    <3>1. buf' = <<>> /\ client' \in {next, "killed"}
      BY <2>1 DEF Flush
    <3>2. ASSUME server # "gone" PROVE net' \o buf' = Append(net \o buf, c)
      <4>1. net' = net \o Append(buf, c)
        BY <2>1, <3>2 DEF Flush
      <4>2. net \o Append(buf, c) \in Seq(Chars)
            /\ (net \o Append(buf, c)) \o <<>> = net \o Append(buf, c)
        BY <1>9, ConcatProperties
      <4> QED
        BY <1>9, <3>1, <4>1, <4>2, ConcatEnds
    <3> QED
      BY <3>1, <3>2
  <2>2. CASE s = 1
    BY <1>4, <1>7, <2>1, <2>2
  <2>3. CASE s # 1 /\ Flush(Append(buf, c), "copy")
    BY <1>4, <1>7, <2>1, <2>3
  <2>4. CASE s # 1 /\ buf' = Append(buf, c) /\ UNCHANGED <<client, net>>
    <3>1. net \o buf' = Append(net \o buf, c)
      BY <1>9, <2>4, ConcatEnds
    <3>2. client' = "copy" /\ net' = net /\ state' = s
      BY <1>2, <1>4, <2>4
    <3> QED
      BY <1>7, <2>4, <3>1, <3>2
  <2> QED
    BY <1>4, <2>2, <2>3, <2>4
<1>11. Append(b, c) \in Seq(Chars)
  OBVIOUS
<1>12. ASSUME client' \in {"copy", "wait"} PROVE Agree(Append(b, c), q, w, n)'
  <2>1. w.sent.waits - Waiting' = p.sent.waits - Waiting /\ Making' = Making
    BY <1>2, <1>7, <1>8, <1>10, <1>12 DEF Waiting, Making
  <2>2. server' # "gone" => /\ Append(b, c) = net' \o buf' /\ q.rd = rd'
                            /\ q.answers = w.sent.waits - Waiting' + n + Making'
    BY <1>1, <1>2, <1>10, <2>1 DEF Agree
  <2>3. server' = "gone" => q.answers >= w.sent.waits - Waiting' + n
    BY <1>1, <1>2, <2>1 DEF Agree
  <2>4. client' = "wait" => buf' = <<>> /\ w.read.answers >= w.sent.waits
    BY <1>5, <1>7, <1>8, <1>10 DEF NoWaitInVain
  <2>5. Counted(up', n)
    BY <1>1, <1>2 DEF Agree
  <2> QED
    BY <1>5, <1>6, <1>7, <1>10, <2>2, <2>3, <2>4, <2>5 DEF Agree
<1> QED
  BY <1>5, <1>11, <1>12 DEF Agreement

\* A message is taken: an answer ends the wait.
LEMMA AcceptAgrees ==
    ASSUME TypeOK, Agreement, accept
    PROVE  Agreement'
<1>1. PICK b \in Seq(Chars), q \in Places, p \in Points, n \in Int : Agree(b, q, p, n)
  BY DEF Agreement, accept
<1>2. /\ client = "wait" /\ up # <<>> /\ up' = Tail(up)
      /\ client' = IF WaitsOn(Head(up)) THEN "wait" ELSE "copy"
      /\ UNCHANGED <<line, taken, state, bdepth, buf, net, server, rd>>
      /\ up \in Seq(Messages)
  BY DEF accept, TypeOK, Messages
<1> DEFINE e == Ends(Head(up))
<1>3. Counted(up', n - e) /\ e \in {0, 1}
  BY <1>1, <1>2, CountTail, EndsType DEF Agree
<1>4. Waiting = 1 /\ Waiting' = 1 - e /\ Making' = Making /\ Making \in {0, 1}
  BY <1>2 DEF Ends, Waiting, Making
<1> HIDE DEF e
<1>5. PICK m \in Int : m = n - e
  BY <1>3
<1>6. p.sent.waits - Waiting' + m = p.sent.waits - Waiting + n
  <2>1. p.sent.waits \in Int /\ q.answers \in Int
    BY DEF Points, Senders, Places
  <2> QED
    BY <1>3, <1>4, <1>5, <2>1
<1>7. /\ server' # "gone" => q.answers = p.sent.waits - Waiting' + m + Making'
      /\ server' = "gone" => q.answers >= p.sent.waits - Waiting' + m
  BY <1>1, <1>2, <1>4, <1>6 DEF Agree
<1>8. Agree(b, q, p, m)'
  BY <1>1, <1>2, <1>3, <1>5, <1>7 DEF Agree
<1> QED
  BY <1>5, <1>8 DEF Agreement

\* The server reads a byte: the rest of the bytes lead on from where it is.
LEMMA ReadAgrees ==
    ASSUME TypeOK, Agreement, read
    PROVE  Agreement'
<1> SUFFICES ASSUME client \in {"copy", "wait"} PROVE Agreement'
  BY DEF Agreement, read
<1>1. PICK b \in Seq(Chars), q \in Places, p \in Points, n \in Int : Agree(b, q, p, n)
  BY DEF Agreement
<1>2. /\ server = "read" /\ net # <<>> /\ net \in Seq(Chars) /\ buf \in Seq(Chars)
      /\ UNCHANGED <<line, taken, client, state, bdepth, buf>>
      /\ up \in Seq(Messages) /\ rd \in Readers
  BY DEF read, TypeOK, Messages, Readers
<1>3. PICK c \in Chars : c = Head(net)
  BY <1>2
<1>4. /\ net' = IF GivesBack(rd, c) THEN net ELSE Tail(net)
      /\ \/ Unexpected(rd, c) /\ Error
         \/ EndsDatum(rd, c) /\ Complete(Closed(rd, c)) /\ UNCHANGED up
         \/ /\ ~EndsDatum(rd, c) /\ ~Unexpected(rd, c)
            /\ rd' = Step(rd, c) /\ UNCHANGED <<up, server>>
  BY <1>3 DEF read
<1>5. b = net \o buf /\ q.rd = rd /\ q.answers = p.sent.waits - Waiting + n + 0
  BY <1>1, <1>2 DEF Agree, Making
<1>6. b # <<>> /\ Head(b) = c /\ Tail(b) = Tail(net) \o buf
  BY <1>2, <1>3, <1>5, ConcatEnds
<1>7. ~(Unexpected(rd, c) /\ EndsDatum(rd, c))
  BY DEF Unexpected, EndsDatum
<1>8. /\ rd' = After(rd, c) /\ server' # "gone"
      /\ \E m \in Int : Counted(up', m) /\ m + Making' = n + Answered(rd, c)
  <2>1. CASE Unexpected(rd, c) /\ Error
    <3>1. up' = Append(up, "ER") /\ rd' = Top /\ server' = "read"
      BY <2>1 DEF Error
    <3>2. Ends("ER") = 1 /\ "ER" \in Messages
      BY DEF Ends, WaitsOn, Messages
    <3>3. Counted(up', n + 1)
      BY <1>1, <1>2, <3>1, <3>2, CountAppend DEF Agree
    <3>4. After(rd, c) = Top /\ Answered(rd, c) = 1
      BY <1>7, <2>1 DEF After, Answered
    <3>5. n + 1 \in Int /\ Making' = 0 /\ n + 1 + 0 = n + 1
      BY <3>1 DEF Making
    <3> QED
      BY <3>1, <3>3, <3>4, <3>5
  <2>2. CASE EndsDatum(rd, c) /\ Complete(Closed(rd, c)) /\ UNCHANGED up
    <3>1. Counted(up', n)
      BY <1>1, <2>2 DEF Agree
    <3>2. CASE Closed(rd, c).depth = 0
      <4>1. rd' = Top /\ server' = "eval" /\ Making' = 1
        BY <2>2, <3>2 DEF Complete, Making
      <4>2. After(rd, c) = Top /\ Answered(rd, c) = 1
        BY <1>7, <2>2, <3>2 DEF After, Answered
      <4> QED
        BY <3>1, <4>1, <4>2
    <3>3. CASE Closed(rd, c).depth # 0
      <4>1. rd' = Closed(rd, c) /\ server' = "read" /\ Making' = 0
        BY <1>2, <2>2, <3>3 DEF Complete, Making
      <4>2. After(rd, c) = Closed(rd, c) /\ Answered(rd, c) = 0
        BY <1>7, <2>2, <3>3 DEF After, Answered
      <4> QED
        BY <3>1, <4>1, <4>2
    <3> QED
      BY <3>2, <3>3
  <2>3. CASE ~EndsDatum(rd, c) /\ ~Unexpected(rd, c)
             /\ rd' = Step(rd, c) /\ UNCHANGED <<up, server>>
    <3>1. Counted(up', n) /\ server' = "read" /\ Making' = 0
      BY <1>1, <1>2, <2>3 DEF Agree, Making
    <3>2. After(rd, c) = Step(rd, c) /\ Answered(rd, c) = 0
      BY <2>3 DEF After, Answered
    <3> QED
      BY <2>3, <3>1, <3>2
  <2> QED
    BY <1>4, <2>1, <2>2, <2>3
<1>9. PICK m \in Int : Counted(up', m) /\ m + Making' = n + Answered(rd, c)
  BY <1>8
<1>10. PICK o \in Places : o = ReadOnce(q, c)
  BY OnceTypes
<1>11. o.rd = rd' /\ o.answers = p.sent.waits - Waiting' + m + Making'
  <2>1. o.rd = rd' /\ o.answers = q.answers + Answered(rd, c)
    BY <1>5, <1>8, <1>10, OnceTypes
  <2>2. /\ p.sent.waits \in Int /\ Answered(rd, c) \in Int /\ Waiting' = Waiting
        /\ Waiting \in {0, 1} /\ Making' \in {0, 1}
    BY <1>2 DEF Points, Senders, Answered, Waiting, Making
  <2>3. q.answers + Answered(rd, c) = p.sent.waits - Waiting + (n + Answered(rd, c))
    BY <1>5, <2>2
  <2>4. q.answers + Answered(rd, c) = p.sent.waits - Waiting + (m + Making')
    BY <1>9, <2>3
  <2> QED
    BY <2>1, <2>2, <2>4
<1>12. \E a \in Seq(Chars) : Leads(o, a, p.read) /\ a = net' \o buf'
  <2>1. CASE GivesBack(rd, c)
    <3>1. Leads(o, b, p.read)
      BY <1>1, <1>5, <1>6, <1>10, <2>1, LeadsAgain DEF Agree
    <3> QED
      BY <1>2, <1>4, <1>5, <2>1, <3>1
  <2>2. CASE ~GivesBack(rd, c)
    <3>1. ReadByte(q, c) = o
      BY <1>5, <1>10, <2>2 DEF ReadByte
    <3>2. Leads(o, Tail(b), p.read)
      BY <1>1, <1>6, <3>1, LeadsTail DEF Agree
    <3>3. Tail(b) \in Seq(Chars) /\ Tail(b) = net' \o buf'
      BY <1>2, <1>4, <1>6, <2>2
    <3> QED
      BY <3>2, <3>3
  <2> QED
    BY <2>1, <2>2
<1>13. PICK a \in Seq(Chars) : Leads(o, a, p.read) /\ a = net' \o buf'
  BY <1>12
<1>14. Agree(a, o, p, m)'
  BY <1>1, <1>2, <1>8, <1>9, <1>11, <1>13 DEF Agree
<1> QED
  BY <1>14 DEF Agreement

\* The server answers, or is gone without an answer.
LEMMA EvalAgrees ==
    ASSUME TypeOK, Agreement, eval
    PROVE  Agreement'
<1> SUFFICES ASSUME client \in {"copy", "wait"} PROVE Agreement'
  BY DEF Agreement, eval
<1>1. PICK b \in Seq(Chars), q \in Places, p \in Points, n \in Int : Agree(b, q, p, n)
  BY DEF Agreement
<1>2. /\ server = "eval" /\ up \in Seq(Messages)
      /\ UNCHANGED <<line, taken, client, state, bdepth, buf, net, rd>>
  BY DEF eval, TypeOK, Messages
<1>3. /\ b = net \o buf /\ q.rd = rd /\ q.answers = p.sent.waits - Waiting + n + 1
      /\ Waiting' = Waiting /\ Waiting \in {0, 1}
      /\ p.sent.waits \in Int /\ q.answers \in Int
  BY <1>1, <1>2 DEF Agree, Making, Waiting, Points, Senders, Places
<1>4. CASE server' = "gone" /\ UNCHANGED up
  <2>1. q.answers >= p.sent.waits - Waiting' + n
    BY <1>3
  <2>2. Agree(b, q, p, n)'
    BY <1>1, <1>2, <1>4, <2>1 DEF Agree
  <2> QED
    BY <2>2 DEF Agreement
<1>5. ASSUME NEW sent \in {<<>>, <<"WV">>, <<"LP">>}, NEW answer \in Answers,
             up' = up \o sent \o answer, server' = "read"
      PROVE  Agreement'
  <2>1. /\ Ends("OK") = 1 /\ Ends("ER") = 1 /\ Ends("LP") = 0 /\ Ends("WV") = 0
        /\ "OK" \in Messages /\ "ER" \in Messages
        /\ "LP" \in Messages /\ "WV" \in Messages
    BY DEF Ends, WaitsOn, Messages
  <2>2. Counted(up \o sent, n) /\ up \o sent \in Seq(Messages)
    <3>1. Counted(up, n) /\ n + 0 = n
      BY <1>1 DEF Agree
    <3>2. CASE sent = <<>>
      <4>1. up \o <<>> = up
        BY <1>2, ConcatProperties
      <4> QED
        BY <1>2, <3>1, <3>2, <4>1
    <3>3. ASSUME NEW m \in {"WV", "LP"}, sent = <<m>>
          PROVE  Counted(up \o sent, n) /\ up \o sent \in Seq(Messages)
      <4>1. m \in Messages /\ Ends(m) = 0
        BY <2>1
      <4>2. up \o sent = Append(up, m) /\ Append(up, m) \in Seq(Messages)
        BY <1>2, <3>3, <4>1
      <4> QED
        BY <1>2, <3>1, <4>1, <4>2, CountAppend
    <3> QED
      BY <3>2, <3>3
  <2> DEFINE v == up \o sent
  <2>3. Counted(v, n) /\ v \in Seq(Messages) /\ up' = v \o answer
    BY <1>5, <2>2
  <2> HIDE DEF v
  <2>4. Counted(up', n + 1)
    <3>1. ASSUME NEW m \in {"ER", "OK"}, answer = <<m>>
          PROVE  Counted(up', n + 1)
      <4>1. v \o answer = Append(v, m) /\ Ends(m) = 1 /\ m \in Messages
        BY <2>1, <2>3, <3>1
      <4> QED
        BY <2>1, <2>3, <4>1, CountAppend
    <3>2. CASE answer = <<"LP", "OK">>
      <4>1. v \o answer = Append(Append(v, "LP"), "OK") /\ Append(v, "LP") \in Seq(Messages)
        BY <2>1, <2>3, <3>2
      <4>2. Counted(Append(v, "LP"), n + 0) /\ n + 0 = n
        BY <2>1, <2>3, CountAppend
      <4>3. Counted(Append(Append(v, "LP"), "OK"), n + 1)
        BY <2>1, <4>1, <4>2, CountAppend
      <4> QED
        BY <2>3, <4>1, <4>3
    <3> QED
      BY <3>1, <3>2 DEF Answers
  <2>5. PICK m \in Int : m = n + 1
    OBVIOUS
  <2>6. Making' = 0 /\ q.answers = p.sent.waits - Waiting' + m + Making'
    <3>1. Making' = 0
      BY <1>5 DEF Making
    <3>2. q.answers = p.sent.waits - Waiting + m + 0
      <4>1. PICK x \in Int : x = p.sent.waits - Waiting
        BY <1>3
      <4>2. q.answers = x + n + 1
        BY <1>3, <4>1
      <4>3. q.answers = x + m + 0
        BY <2>5, <4>2
      <4> QED
        BY <4>1, <4>3
    <3> QED
      BY <1>3, <3>1, <3>2
  <2>7. Agree(b, q, p, m)'
    BY <1>1, <1>2, <1>3, <1>5, <2>4, <2>5, <2>6 DEF Agree
  <2> QED
    BY <2>7 DEF Agreement
<1> QED
  BY <1>4, <1>5 DEF eval

\* An error and an evaluation end with what ends a wait, and what is taken is
\* taken from the front.
LEMMA LastStays ==
    ASSUME TypeOK, LastAnswers, Next
    PROVE  LastAnswers'
<1>1. up \in Seq(Messages)
  BY DEF TypeOK, Messages
<1>2. ~WaitsOn("ER") /\ ~WaitsOn("OK")
  BY DEF WaitsOn
<1>3. CASE up' = up
  BY <1>3 DEF LastAnswers
<1>4. CASE up # <<>> /\ up' = Tail(up)
  <2>1. up' # <<>> => up'[Len(up')] = up[Len(up)]
    BY <1>1, <1>4
  <2> QED
    BY <1>4, <2>1 DEF LastAnswers
<1>5. CASE up' = Append(up, "ER")
  BY <1>1, <1>2, <1>5 DEF LastAnswers
<1>6. ASSUME NEW sent \in {<<>>, <<"WV">>, <<"LP">>}, NEW answer \in Answers,
             up' = up \o sent \o answer
      PROVE  LastAnswers'
  <2>1. sent \in Seq(Messages)
    <3>1. <<>> \in Seq(Messages) /\ <<"WV">> \in Seq(Messages) /\ <<"LP">> \in Seq(Messages)
      BY DEF Messages
    <3> QED
      BY <3>1
  <2>2. PICK v \in Seq(Messages) : v = up \o sent
    BY <1>1, <2>1, ConcatProperties
  <2>3. up'[Len(up')] \in {"ER", "OK"}
    <3>1. CASE answer = <<"ER">> \/ answer = <<"OK">>
      BY <1>6, <2>2, <3>1
    <3>2. CASE answer = <<"LP", "OK">>
      BY <1>6, <2>2, <3>2
    <3> QED
      BY <3>1, <3>2 DEF Answers
  <2> QED
    BY <1>2, <2>3 DEF LastAnswers
<1>7. \/ up' = up \/ (up # <<>> /\ up' = Tail(up)) \/ up' = Append(up, "ER")
      \/ \E sent \in {<<>>, <<"WV">>, <<"LP">>}, answer \in Answers :
           up' = up \o sent \o answer
  <2>1. CASE Client
    BY <2>1 DEF Client, NextLine, copy_to_server, accept, finish
  <2>2. CASE Server
    BY <2>2 DEF Server, read, read_eof, eval, Error
  <2> QED
    BY <2>1, <2>2 DEF Next
<1> QED
  BY <1>3, <1>4, <1>5, <1>6, <1>7

\* The accounts of answers, for every step.
LEMMA AgreementInvariant ==
    Spec => [](TypeOK /\ Agreement /\ LastAnswers)
<1>1. Init => Agreement /\ LastAnswers
  <2> SUFFICES ASSUME Init PROVE Agreement /\ LastAnswers
    OBVIOUS
  <2>1. /\ client = "copy" /\ line = <<>> /\ state = 0 /\ bdepth = 0 /\ buf = <<>>
        /\ net = <<>> /\ up = <<>> /\ server = "read" /\ rd = Top
    BY DEF Init
  <2> DEFINE p == BothAtTop
  <2>2. /\ p \in Points /\ p.read \in Places /\ p.sent.state = 0 /\ p.sent.depth = 0
        /\ p.sent.waits = 0 /\ p.read.rd = Top /\ p.read.answers = 0 /\ Even(p)
    BY TopTypes DEF BothAtTop, Points, Even
  <2> HIDE DEF p
  <2>3. Goes(p, <<>>)
    <3> DEFINE h == [k \in 0 .. 0 |-> p]
    <3>1. Journey(h, <<>>) /\ h[0] = p /\ Even(h[Len(<<>>)])
      BY <2>2 DEF Journey
    <3> QED
      BY <3>1 DEF Goes
  <2>4. <<>> \in Seq(Chars) /\ <<>> \o <<>> = <<>> /\ 0 - 0 + 0 + 0 = 0 /\ 0 \in Int
    OBVIOUS
  <2>5. Leads(p.read, <<>>, p.read) /\ Counted(<<>>, 0)
    BY <2>2, LeadsNowhere, CountEmpty
  <2>6. Waiting = 0 /\ Making = 0
    BY <2>1 DEF Waiting, Making
  <2>7. Agree(<<>>, p.read, p, 0)
    BY <2>1, <2>2, <2>3, <2>4, <2>5, <2>6 DEF Agree
  <2>8. Agreement
    BY <2>2, <2>4, <2>7 DEF Agreement
  <2> QED
    BY <2>1, <2>8 DEF LastAnswers
<1>2. TypeOK /\ Agreement /\ LastAnswers /\ [Next]_vars => Agreement' /\ LastAnswers'
  <2> SUFFICES ASSUME TypeOK, Agreement, LastAnswers, [Next]_vars
               PROVE  Agreement' /\ LastAnswers'
    OBVIOUS
  <2>1. CASE UNCHANGED vars
    BY <2>1 DEF vars, Agreement, Agree, Waiting, Making, LastAnswers
  <2>2. CASE Next
    <3>1. LastAnswers'
      BY <2>2, LastStays
    <3>2. CASE NextLine
      BY <3>1, <3>2, NextLineAgrees
    <3>3. CASE copy_to_server
      BY <3>1, <3>3, CopyAgrees
    <3>4. CASE accept
      BY <3>1, <3>4, AcceptAgrees
    <3>5. CASE finish
      <4>1. client' \in {"end", "killed"}
        BY <3>5 DEF finish, Flush
      <4> QED
        BY <3>1, <4>1 DEF Agreement
    <3>6. CASE read
      BY <3>1, <3>6, ReadAgrees
    <3>7. CASE read_eof
      BY <3>1, <3>7 DEF read_eof, Agreement
    <3>8. CASE eval
      BY <3>1, <3>8, EvalAgrees
    <3> QED
      BY <2>2, <3>2, <3>3, <3>4, <3>5, <3>6, <3>7, <3>8 DEF Next, Client, Server
  <2> QED
    BY <2>1, <2>2
<1>3. Spec => []TypeOK
  BY TypeCorrect
<1> QED
  BY <1>1, <1>2, <1>3, PTL DEF Spec

\* InStep, for every set of agreeing lines, every number of them and every size
\* of the buffer, wherever the script ends, whatever the expressions send and
\* whichever of them ends the server (new_state, and the reader of slib.cc).
THEOREM StaysInStep == Spec => []InStep
<1>1. TypeOK /\ Agreement /\ LastAnswers => InStep
  BY AgreementSuffices
<1> QED
  BY <1>1, AgreementInvariant, PTL

\* A client that waits is never waited for: when there is nothing left for the
\* server to read, an answer is under way (the waits of copy_to_server, against
\* repl and its errors).
THEOREM NobodyWaitsForBoth == Spec => []NobodyWaitsInVain
<1>1. TypeOK /\ Agreement => NobodyWaitsInVain
  BY AgreementFreesWaiters
<1> QED
  BY <1>1, AgreementInvariant, PTL
=============================================================================
