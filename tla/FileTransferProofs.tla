------------------------- MODULE FileTransferProofs -------------------------
(***************************************************************************)
(* For every key, every file that the stuffing can carry and every bound   *)
(* on the connection: the two scans agree, and the files that the receiver *)
(* closes are the files that were sent, whole and in order.                *)
(***************************************************************************)
EXTENDS FileTransfer, SequenceTheorems, TLAPS

Sent    == Bytes \cup {Marker}
Written == Bytes \cup {EofByte, Marker}

\* The receiver's state on its own, and what it makes of a byte.
States == [mode : {"ack", "file"}, k : 0..(KeyLen - 1),
           out : Seq(Written), got : Seq(Seq(Written))]

Now == [mode |-> mode, k |-> rk, out |-> outfd, got |-> received]

Held(s) == s.out \o SubSeq(Key, 1, s.k)

Reads(s, c, t) ==
    \/ s.mode = "ack" /\ c # Marker /\ t = s
    \/ /\ s.mode = "ack" /\ c = Marker
       /\ t = [mode |-> "file", k |-> 0, out |-> <<>>, got |-> s.got]
    \/ /\ s.mode = "file" /\ c = Key[s.k + 1] /\ s.k + 1 # KeyLen
       /\ t = [mode |-> "file", k |-> s.k + 1, out |-> s.out, got |-> s.got]
    \/ /\ s.mode = "file" /\ c = Key[s.k + 1] /\ s.k + 1 = KeyLen
       /\ t = [mode |-> "ack", k |-> 0, out |-> <<>>, got |-> Append(s.got, s.out)]
    \/ /\ s.mode = "file" /\ c # Key[s.k + 1] /\ c = X /\ s.k + 1 = KeyLen
       /\ t = [mode |-> "file", k |-> 0, out |-> Held(s), got |-> s.got]
    \/ /\ s.mode = "file" /\ c # Key[s.k + 1] /\ ~(c = X /\ s.k + 1 = KeyLen)
       /\ t = [mode |-> "file", k |-> 0, out |-> Held(s) \o <<c>>, got |-> s.got]

\* The states that the receiver goes through when it reads c.
Runs(w, c) ==
    /\ w \in [0..Len(c) -> States]
    /\ \A i \in 1..Len(c) : Reads(w[i - 1], c[i], w[i])

\* The closed files are the first of those that were sent.
Delivered(got) ==
    /\ Len(got) <= Len(files)
    /\ \A i \in 1..Len(got) : got[i] = files[i]

\* A file is what is written of it, the part of the key that is held back, and
\* the rest.
Parts(out, k, rest, file) ==
    /\ Len(out) + k + Len(rest) = Len(file)
    /\ \A i \in 1..Len(out) : out[i] = file[i]
    /\ \A i \in 1..k : Key[i] = file[Len(out) + i]
    /\ \A i \in 1..Len(rest) : rest[i] = file[Len(out) + k + i]

\* A receiver that has read everything is where the sender is.
Agrees(s) ==
    /\ Len(s.got) = turn - 1
    /\ smode = "announce" => s.mode = "ack"
    /\ smode = "send" => /\ s.mode = "file" /\ s.k = sk
                         /\ Parts(s.out, sk, infd, files[turn])

\* From where the receiver is, what is in the connection takes it through
\* states in which it has delivered what was sent, to where the sender is.
Course ==
    \E w : /\ Runs(w, chan) /\ w[0] = Now
           /\ \A i \in 0..Len(chan) : Delivered(w[i].got)
           /\ alive => Agrees(w[Len(chan)])

Typed ==
    /\ TypeOK /\ files \in Transfers
    /\ smode = "announce" => infd = <<>>
    /\ smode = "send" => turn <= Len(files)

IInv == Typed /\ Course

\* The files that the stuffing can carry.
Carried == \A fs \in Transfers : \A i \in 1..Len(fs) : Clean(fs[i])
-----------------------------------------------------------------------------
\* What the assumption on the key says, in the form it is used.
LEMMA KeyFacts ==
    /\ KeyLen \in Nat /\ KeyLen >= 2 /\ KeyLen - 1 \in Nat /\ 0 \in 0..(KeyLen - 1)
    /\ \A i \in 1..KeyLen : /\ Key[i] \in Bytes /\ Key[i] # X /\ Key[i] # Marker
                            /\ Key[i] = Key[KeyLen] => i = KeyLen
    /\ \A k \in 0..(KeyLen - 1) : /\ SubSeq(Key, 1, k) \in Seq(Bytes)
                                  /\ Len(SubSeq(Key, 1, k)) = k
                                  /\ \A i \in 1..k : SubSeq(Key, 1, k)[i] = Key[i]
                                  /\ k \in Nat /\ k + 1 \in 1..KeyLen
    /\ X \in Bytes /\ Marker \notin Bytes /\ X # Marker
<1>1. /\ KeyLen \in Nat /\ KeyLen >= 2 /\ KeyLen - 1 \in Nat /\ 0 \in 0..(KeyLen - 1)
      /\ \A i \in 1..KeyLen : Key[i] \in Bytes
      /\ X \in Bytes /\ Marker \notin Bytes
  BY KeyAssumption DEF KeyLen
<1>2. ASSUME NEW i \in 1..KeyLen
      PROVE  Key[i] # X /\ Key[i] # Marker /\ (Key[i] = Key[KeyLen] => i = KeyLen)
  BY <1>1, KeyAssumption
<1>3. ASSUME NEW k \in 0..(KeyLen - 1)
      PROVE  /\ SubSeq(Key, 1, k) \in Seq(Bytes) /\ Len(SubSeq(Key, 1, k)) = k
             /\ \A i \in 1..k : SubSeq(Key, 1, k)[i] = Key[i]
             /\ k \in Nat /\ k + 1 \in 1..KeyLen
  <2>1. k \in Nat /\ k + 1 \in 1..KeyLen /\ k \in Int /\ \A i \in 1..k : Key[i] \in Bytes
    BY <1>1
  <2>2. /\ SubSeq(Key, 1, k) \in Seq(Bytes)
        /\ Len(SubSeq(Key, 1, k)) = IF 1 <= k THEN k - 1 + 1 ELSE 0
        /\ \A i \in 1..(k - 1 + 1) : SubSeq(Key, 1, k)[i] = Key[1 + i - 1]
    BY <2>1, SubSeqProperties
  <2> QED
    BY <2>1, <2>2
<1> QED
  BY <1>1, <1>2, <1>3

\* What is held back is a sequence, as long as its two parts.
LEMMA HeldFacts ==
    ASSUME NEW s \in States
    PROVE  /\ Held(s) \in Seq(Written) /\ Len(Held(s)) = Len(s.out) + s.k
           /\ Len(s.out) \in Nat /\ s.k \in Nat /\ s.k + 1 \in 1..KeyLen
           /\ \A i \in 1..Len(s.out) : Held(s)[i] = s.out[i]
           /\ \A i \in 1..s.k : Held(s)[Len(s.out) + i] = Key[i]
<1> DEFINE p == SubSeq(Key, 1, s.k)
<1>1. /\ s.out \in Seq(Written) /\ s.k \in 0..(KeyLen - 1) /\ Len(s.out) \in Nat
      /\ p \in Seq(Bytes) /\ Len(p) = s.k /\ s.k \in Nat /\ s.k + 1 \in 1..KeyLen
      /\ \A i \in 1..s.k : p[i] = Key[i]
  BY KeyFacts DEF States
<1>2. p \in Seq(Written)
  BY <1>1, SeqMonotonic DEF Written
<1>3. Held(s) = s.out \o p
  BY DEF Held
<1> HIDE DEF p
<1>4. /\ Held(s) \in Seq(Written) /\ Len(Held(s)) = Len(s.out) + s.k
      /\ \A i \in 1..(Len(s.out) + s.k) :
            Held(s)[i] = IF i <= Len(s.out) THEN s.out[i] ELSE p[i - Len(s.out)]
  <2>1. s.out \in Seq(Written) /\ p \in Seq(Written) /\ Len(p) = s.k
    BY <1>1, <1>2
  <2>2. /\ s.out \o p \in Seq(Written) /\ Len(s.out \o p) = Len(s.out) + Len(p)
        /\ \A i \in 1..(Len(s.out) + Len(p)) :
              (s.out \o p)[i] = IF i <= Len(s.out) THEN s.out[i] ELSE p[i - Len(s.out)]
    BY <2>1, ConcatProperties
  <2> QED
    BY <1>3, <2>1, <2>2
<1>5. ASSUME NEW i \in 1..s.k PROVE Held(s)[Len(s.out) + i] = Key[i]
  <2>1. PICK n \in Nat, k \in Nat : n = Len(s.out) /\ k = s.k
    BY <1>1
  <2>2. i \in 1..k
    BY <2>1, <1>5
  <2>3. n + i \in 1..(n + k) /\ ~(n + i <= n) /\ (n + i) - n = i
    BY <2>2
  <2>4. Held(s)[n + i] = p[(n + i) - n]
    BY <1>4, <2>1, <2>3
  <2> QED
    BY <1>1, <2>1, <2>3, <2>4, <1>5
<1> QED
  BY <1>1, <1>4, <1>5

\* Reading leads from states to states, in one way.
LEMMA ReadsTypes ==
    ASSUME NEW s \in States, NEW c \in Sent, NEW t, Reads(s, c, t)
    PROVE  t \in States
<1>1. /\ Held(s) \in Seq(Written) /\ Held(s) \o <<c>> \in Seq(Written)
      /\ <<>> \in Seq(Written) /\ s.out \in Seq(Written)
      /\ s.got \in Seq(Seq(Written)) /\ Append(s.got, s.out) \in Seq(Seq(Written))
  <2>1. <<c>> \in Seq(Written)
    BY DEF Sent, Written
  <2> QED
    BY <2>1, HeldFacts, ConcatProperties DEF States
<1>2. 0 \in 0..(KeyLen - 1) /\ (s.k + 1 # KeyLen => s.k + 1 \in 0..(KeyLen - 1))
  BY KeyFacts, HeldFacts
<1>3. ASSUME NEW m \in {"ack", "file"}, NEW n \in 0..(KeyLen - 1),
             NEW o \in Seq(Written), NEW g \in Seq(Seq(Written))
      PROVE  [mode |-> m, k |-> n, out |-> o, got |-> g] \in States
  BY DEF States
<1>4. "ack" \in {"ack", "file"} /\ "file" \in {"ack", "file"}
  OBVIOUS
<1>5. CASE s.mode = "ack"
  BY <1>1, <1>2, <1>3, <1>4, <1>5 DEF Reads
<1>6. CASE s.mode = "file" /\ c = Key[s.k + 1]
  <2>1. \/ s.k + 1 # KeyLen /\ t = [mode |-> "file", k |-> s.k + 1, out |-> s.out, got |-> s.got]
        \/ s.k + 1 = KeyLen /\ t = [mode |-> "ack", k |-> 0, out |-> <<>>, got |-> Append(s.got, s.out)]
    BY <1>6 DEF Reads
  <2> QED
    BY <1>1, <1>2, <1>3, <1>4, <2>1
<1>7. CASE s.mode = "file" /\ c # Key[s.k + 1]
  <2>1. \/ t = [mode |-> "file", k |-> 0, out |-> Held(s), got |-> s.got]
        \/ t = [mode |-> "file", k |-> 0, out |-> Held(s) \o <<c>>, got |-> s.got]
    BY <1>7 DEF Reads
  <2> QED
    BY <1>1, <1>2, <1>3, <1>4, <2>1
<1> QED
  BY <1>5, <1>6, <1>7 DEF States

\* ... and a state and a byte have one next state.
LEMMA ReadsOneWay ==
    ASSUME NEW s, NEW c, NEW t, NEW u, Reads(s, c, t), Reads(s, c, u)
    PROVE  t = u
<1>1. CASE s.mode = "ack"
  <2>1. CASE c = Marker
    BY <1>1, <2>1 DEF Reads
  <2>2. CASE c # Marker
    BY <1>1, <2>2 DEF Reads
  <2> QED
    BY <2>1, <2>2
<1>2. CASE s.mode = "file" /\ c = Key[s.k + 1]
  <2>1. CASE s.k + 1 = KeyLen
    BY <1>2, <2>1 DEF Reads
  <2>2. CASE s.k + 1 # KeyLen
    BY <1>2, <2>2 DEF Reads
  <2> QED
    BY <2>1, <2>2
<1>3. CASE s.mode = "file" /\ c # Key[s.k + 1]
  <2>1. CASE c = X /\ s.k + 1 = KeyLen
    BY <1>3, <2>1 DEF Reads
  <2>2. CASE ~(c = X /\ s.k + 1 = KeyLen)
    BY <1>3, <2>2 DEF Reads
  <2> QED
    BY <2>1, <2>2
<1> QED
  BY <1>1, <1>2, <1>3 DEF Reads

\* What is read in two pieces is read in one.
LEMMA Extended ==
    ASSUME NEW c \in Seq(Sent), NEW d \in Seq(Sent), NEW w, NEW v,
           Runs(w, c), Runs(v, d), v[0] = w[Len(c)]
    PROVE  \E u : /\ Runs(u, c \o d) /\ u[0] = w[0] /\ u[Len(c \o d)] = v[Len(d)]
                  /\ \A i \in 0..Len(c \o d) : \/ \E j \in 0..Len(c) : u[i] = w[j]
                                               \/ \E j \in 0..Len(d) : u[i] = v[j]
<1> DEFINE n == Len(c)
           m == Len(d)
           u == [i \in 0..(n + m) |-> IF i <= n THEN w[i] ELSE v[i - n]]
<1>1. /\ n \in Nat /\ m \in Nat /\ Len(c \o d) = n + m
      /\ \A i \in 1..(n + m) : (c \o d)[i] = IF i <= n THEN c[i] ELSE d[i - n]
  BY ConcatProperties
<1>2. /\ w \in [0..n -> States] /\ \A i \in 1..n : Reads(w[i - 1], c[i], w[i])
      /\ v \in [0..m -> States] /\ \A i \in 1..m : Reads(v[i - 1], d[i], v[i])
  BY DEF Runs
<1> HIDE DEF n, m
<1>3. /\ \A i \in 0..n : i \in 0..(n + m) /\ u[i] = w[i]
      /\ \A i \in (n + 1)..(n + m) : i \in 0..(n + m) /\ i - n \in 1..m /\ u[i] = v[i - n]
      /\ 0 \in 0..n
  BY <1>1
<1>4. u \in [0..(n + m) -> States]
  BY <1>1, <1>2
<1> HIDE DEF u
<1>5. ASSUME NEW i \in 1..(n + m) PROVE Reads(u[i - 1], (c \o d)[i], u[i])
  <2>1. CASE i <= n
    <3>1. i \in 1..n /\ i - 1 \in 0..n /\ i \in 0..n
      BY <1>1, <2>1
    <3> QED
      BY <1>1, <1>2, <1>3, <2>1, <3>1
  <2>2. CASE i = n + 1
    <3>1. i - 1 = n /\ n \in 0..n /\ i - n = 1 /\ 1 \in 1..m /\ i \in (n + 1)..(n + m)
      BY <1>1, <2>2
    <3>2. u[i - 1] = v[0] /\ u[i] = v[1] /\ (c \o d)[i] = d[1]
      BY <1>1, <1>3, <2>2, <3>1 DEF n
    <3> QED
      BY <1>2, <3>1, <3>2
  <2>3. CASE i > n + 1
    <3>1. /\ i \in (n + 1)..(n + m) /\ i - 1 \in (n + 1)..(n + m) /\ i - n \in 1..m
          /\ (i - 1) - n = (i - n) - 1 /\ ~(i <= n)
      BY <1>1, <2>3
    <3>2. u[i - 1] = v[(i - n) - 1] /\ u[i] = v[i - n] /\ (c \o d)[i] = d[i - n]
      BY <1>1, <1>3, <3>1
    <3> QED
      BY <1>2, <3>1, <3>2
  <2> QED
    BY <1>1, <2>1, <2>2, <2>3
<1>6. u[0] = w[0]
  BY <1>3
<1>7. u[n + m] = v[m]
  <2>1. CASE m = 0
    <3>1. n + m = n /\ n \in 0..n
      BY <1>1, <2>1
    <3> QED
      BY <1>3, <2>1, <3>1 DEF n
  <2>2. CASE m # 0
    <3>1. n + m \in (n + 1)..(n + m) /\ (n + m) - n = m
      BY <1>1, <2>2
    <3> QED
      BY <1>3, <3>1
  <2> QED
    BY <2>1, <2>2
<1>8. ASSUME NEW i \in 0..(n + m)
      PROVE  (\E j \in 0..n : u[i] = w[j]) \/ (\E j \in 0..m : u[i] = v[j])
  <2>1. CASE i <= n
    <3>1. i \in 0..n
      BY <1>1, <2>1
    <3> QED
      BY <1>3, <3>1
  <2>2. CASE ~(i <= n)
    <3>1. i \in (n + 1)..(n + m) /\ i - n \in 0..m
      BY <1>1, <2>2
    <3> QED
      BY <1>3, <3>1
  <2> QED
    BY <2>1, <2>2
<1>9. Runs(u, c \o d)
  BY <1>1, <1>4, <1>5 DEF Runs
<1> QED
  BY <1>1, <1>6, <1>7, <1>8, <1>9 DEF n, m

\* What is left of a run after its first byte.
LEMMA Shortened ==
    ASSUME NEW c \in Seq(Sent), c # <<>>, NEW w, Runs(w, c)
    PROVE  \E u : /\ Runs(u, Tail(c)) /\ u[0] = w[1] /\ u[Len(Tail(c))] = w[Len(c)]
                  /\ \A i \in 0..Len(Tail(c)) : \E j \in 0..Len(c) : u[i] = w[j]
<1> DEFINE n == Len(c)
           u == [i \in 0..(n - 1) |-> w[i + 1]]
<1>1. /\ n \in Nat /\ n >= 1 /\ Len(Tail(c)) = n - 1 /\ n - 1 \in Nat
      /\ \A i \in 1..(n - 1) : Tail(c)[i] = c[i + 1]
  <2>1. n \in Nat \ {0}
    BY EmptySeq
  <2> QED
    BY <2>1, HeadTailProperties
<1>2. w \in [0..n -> States] /\ \A i \in 1..n : Reads(w[i - 1], c[i], w[i])
  BY DEF Runs
<1> HIDE DEF n
<1>3. \A i \in 0..(n - 1) : u[i] = w[i + 1] /\ i + 1 \in 0..n
  BY <1>1
<1>4. u \in [0..(n - 1) -> States]
  BY <1>1, <1>2
<1> HIDE DEF u
<1>5. ASSUME NEW i \in 1..(n - 1) PROVE Reads(u[i - 1], Tail(c)[i], u[i])
  <2>1. i + 1 \in 1..n /\ (i + 1) - 1 = i /\ i - 1 \in 0..(n - 1) /\ i \in 0..(n - 1) /\ (i - 1) + 1 = i
    BY <1>1
  <2>2. Reads(w[i], c[i + 1], w[i + 1])
    BY <1>2, <2>1
  <2> QED
    BY <1>1, <1>3, <2>1, <2>2
<1>6. 0 \in 0..(n - 1) /\ n - 1 \in 0..(n - 1) /\ (n - 1) + 1 = n /\ 0 + 1 = 1
  BY <1>1
<1>7. Runs(u, Tail(c))
  BY <1>1, <1>4, <1>5 DEF Runs
<1>8. u[0] = w[1] /\ u[n - 1] = w[n]
  BY <1>3, <1>6
<1> QED
  BY <1>1, <1>3, <1>7, <1>8 DEF n

-----------------------------------------------------------------------------
\* The sender's next byte: its place in the key and what it writes.
LEMMA ByteFacts ==
    ASSUME NEW k \in 0..(KeyLen - 1), NEW c \in Bytes
    PROVE  /\ Restart(Matched(k, c)) \in 0..(KeyLen - 1)
           /\ Stuffed(Matched(k, c), c) \in Seq(Sent)
           /\ \/ /\ c = Key[k + 1] /\ k + 1 = KeyLen
                 /\ Stuffed(Matched(k, c), c) = <<X, c>> /\ Restart(Matched(k, c)) = 0
              \/ /\ c = Key[k + 1] /\ k + 1 # KeyLen
                 /\ Stuffed(Matched(k, c), c) = <<c>> /\ Restart(Matched(k, c)) = k + 1
              \/ /\ c # Key[k + 1]
                 /\ Stuffed(Matched(k, c), c) = <<c>> /\ Restart(Matched(k, c)) = 0
<1>1. /\ KeyLen \in Nat /\ KeyLen >= 2 /\ k \in Nat /\ X \in Sent /\ c \in Sent
      /\ <<c>> \in Seq(Sent) /\ <<X, c>> \in Seq(Sent)
  <2>1. X \in Sent /\ c \in Sent /\ KeyLen \in Nat /\ KeyLen >= 2
    BY KeyFacts DEF Sent
  <2> QED
    BY <2>1
<1>2. CASE c = Key[k + 1] /\ k + 1 = KeyLen
  <2>1. Matched(k, c) = KeyLen
    BY <1>2 DEF Matched
  <2>2. Stuffed(Matched(k, c), c) = <<X, c>> /\ Restart(Matched(k, c)) = 0
    BY <2>1 DEF Stuffed, Restart
  <2> QED
    BY <1>1, <1>2, <2>2
<1>3. CASE c = Key[k + 1] /\ k + 1 # KeyLen
  <2>1. Matched(k, c) = k + 1
    BY <1>3 DEF Matched
  <2>2. Stuffed(Matched(k, c), c) = <<c>> /\ Restart(Matched(k, c)) = k + 1
    BY <1>3, <2>1 DEF Stuffed, Restart
  <2> QED
    BY <1>1, <1>3, <2>2
<1>4. CASE c # Key[k + 1]
  <2>1. Matched(k, c) = 0
    BY <1>4 DEF Matched
  <2>2. Stuffed(Matched(k, c), c) = <<c>> /\ Restart(Matched(k, c)) = 0
    BY <1>1, <2>1 DEF Stuffed, Restart
  <2> QED
    BY <1>1, <1>4, <2>2
<1> QED
  BY <1>2, <1>3, <1>4

\* The receiver's steps are what Reads says of the first byte.
LEMMA ReceiverReads ==
    ASSUME TypeOK, ReceiveAck \/ ReceiveKeyByte \/ DropFiller \/ ReceiveOther
    PROVE  /\ chan # <<>> /\ chan' = Tail(chan) /\ UNCHANGED sender
           /\ Now \in States /\ Head(chan) \in Sent /\ Reads(Now, Head(chan), Now')
<1>1. chan # <<>> /\ chan' = Tail(chan) /\ UNCHANGED sender
  BY DEF ReceiveAck, ReceiveKeyByte, DropFiller, ReceiveOther
<1>2. Now \in States /\ Head(chan) \in Sent
  <2>1. chan \in Seq(Sent) /\ Now \in States
    BY DEF TypeOK, Now, States, Sent, Written
  <2> QED
    BY <1>1, <2>1
<1>3. /\ Now.mode = mode /\ Now.k = rk /\ Now.out = outfd /\ Now.got = received
      /\ Now' = [mode |-> mode', k |-> rk', out |-> outfd', got |-> received']
      /\ Held(Now) = outfd \o SubSeq(Key, 1, rk)
  BY DEF Now, Held
<1>4. ASSUME ReceiveAck PROVE Reads(Now, Head(chan), Now')
  <2>1. /\ mode = "ack" /\ received' = received
        /\ Head(chan) = Marker => mode' = "file" /\ rk' = 0 /\ outfd' = <<>>
        /\ Head(chan) # Marker => mode' = mode /\ rk' = rk /\ outfd' = outfd
    BY <1>4 DEF ReceiveAck
  <2>2. Head(chan) # Marker => Now' = Now
    BY <2>1 DEF Now
  <2> QED
    BY <1>3, <2>1, <2>2 DEF Reads
<1>5. ASSUME ReceiveKeyByte PROVE Reads(Now, Head(chan), Now')
  <2>1. CASE rk + 1 = KeyLen
    BY <1>3, <1>5, <2>1 DEF ReceiveKeyByte, Reads
  <2>2. CASE rk + 1 # KeyLen
    BY <1>3, <1>5, <2>2 DEF ReceiveKeyByte, Reads
  <2> QED
    BY <2>1, <2>2
<1>6. ASSUME DropFiller PROVE Reads(Now, Head(chan), Now')
  <2>1. /\ mode = "file" /\ Head(chan) = X /\ rk + 1 = KeyLen /\ mode' = mode
        /\ outfd' = Held(Now) /\ rk' = 0 /\ received' = received
    BY <1>3, <1>6 DEF DropFiller
  <2>2. Head(chan) # Key[rk + 1]
    BY <2>1, KeyFacts
  <2> QED
    BY <1>3, <2>1, <2>2 DEF Reads
<1>7. ASSUME ReceiveOther PROVE Reads(Now, Head(chan), Now')
  <2>1. /\ mode = "file" /\ Head(chan) # Key[rk + 1] /\ ~(Head(chan) = X /\ rk + 1 = KeyLen)
        /\ mode' = mode /\ outfd' = Held(Now) \o <<Head(chan)>> /\ rk' = 0
        /\ received' = received
    BY <1>3, <1>7 DEF ReceiveOther
  <2> QED
    BY <1>3, <2>1 DEF Reads
<1> QED
  BY <1>1, <1>2, <1>4, <1>5, <1>6, <1>7

\* The state of the receiver in TypeOK is one of States.
LEMMA NowIsTyped ==
    /\ TypeOK => Now \in States /\ chan \in Seq(Sent)
    /\ Now' \in States => /\ mode' \in {"ack", "file"} /\ rk' \in 0..(KeyLen - 1)
                          /\ outfd' \in Seq(Written) /\ received' \in Seq(Seq(Written))
  BY DEF TypeOK, Now, States, Sent, Written

\* The types hold at the start, whatever the files are,
LEMMA InitTyped == Init => Typed
<1> SUFFICES ASSUME Init PROVE Typed
  OBVIOUS
<1>1. files \in Seq(Seq(Bytes)) /\ Len(files) \in Nat
  BY KeyAssumption DEF Init
<1> QED
  BY <1>1, KeyFacts DEF Init, Typed, TypeOK

\* ... and every step keeps them.
LEMMA NextTyped == Typed /\ [Next]_vars => Typed'
<1> SUFFICES ASSUME Typed, [Next]_vars PROVE Typed'
  OBVIOUS
<1>1. /\ TypeOK /\ files \in Transfers /\ files \in Seq(Seq(Bytes)) /\ Len(files) \in Nat
      /\ turn \in 1..(Len(files) + 1) /\ infd \in Seq(Bytes) /\ chan \in Seq(Sent)
      /\ sk \in 0..(KeyLen - 1) /\ smode \in {"announce", "send"}
      /\ smode = "announce" => infd = <<>>
      /\ smode = "send" => turn <= Len(files)
  BY DEF Typed, TypeOK, Sent
<1>2. ASSUME files' = files, UNCHANGED receiver, alive' \in BOOLEAN,
             turn' \in 1..(Len(files) + 1), smode' \in {"announce", "send"},
             infd' \in Seq(Bytes), sk' \in 0..(KeyLen - 1), chan' \in Seq(Sent),
             smode' = "announce" => infd' = <<>>, smode' = "send" => turn' <= Len(files)
      PROVE  Typed'
  BY <1>1, <1>2 DEF Typed, TypeOK, receiver, Sent
<1>3. ASSUME SendMarker PROVE Typed'
  <2>1. turn \in 1..Len(files) /\ files[turn] \in Seq(Bytes)
    BY <1>1, <1>3 DEF SendMarker
  <2>2. chan' \in Seq(Sent)
    BY <1>1, <1>3 DEF SendMarker, Sent
  <2> QED
    BY <1>1, <1>2, <1>3, <2>1, <2>2, KeyFacts DEF SendMarker, Typed, TypeOK
<1>4. ASSUME SendByte PROVE Typed'
  <2>1. smode = "send" /\ Head(infd) \in Bytes /\ Tail(infd) \in Seq(Bytes)
    BY <1>1, <1>4 DEF SendByte
  <2>2. sk' \in 0..(KeyLen - 1) /\ Stuffed(Matched(sk, Head(infd)), Head(infd)) \in Seq(Sent)
    BY <1>1, <1>4, <2>1, ByteFacts DEF SendByte
  <2>3. chan' \in Seq(Sent)
    BY <1>1, <1>4, <2>2, ConcatProperties DEF SendByte
  <2> QED
    BY <1>1, <1>2, <1>4, <2>1, <2>2, <2>3 DEF SendByte, Typed, TypeOK
<1>5. ASSUME SendKey PROVE Typed'
  <2>1. Key \in Seq(Sent)
    BY KeyAssumption, SeqMonotonic DEF Sent
  <2>2. chan' \in Seq(Sent)
    BY <1>1, <1>5, <2>1, ConcatProperties DEF SendKey
  <2>3. turn + 1 \in 1..(Len(files) + 1)
    BY <1>1, <1>5 DEF SendKey
  <2> QED
    BY <1>1, <1>2, <1>5, <2>2, <2>3 DEF SendKey, Typed, TypeOK
<1>6. ASSUME ServerDies PROVE Typed'
  BY <1>1, <1>2, <1>6 DEF ServerDies
<1>7. ASSUME Now' \in States, chan' \in Seq(Sent), UNCHANGED sender PROVE Typed'
  <2>1. /\ mode' \in {"ack", "file"} /\ rk' \in 0..(KeyLen - 1)
        /\ outfd' \in Seq(Written) /\ received' \in Seq(Seq(Written))
    BY <1>7, NowIsTyped
  <2> QED
    BY <1>1, <1>7, <2>1 DEF Typed, TypeOK, sender, Sent, Written
<1>8. ASSUME ReceiveAck \/ ReceiveKeyByte \/ DropFiller \/ ReceiveOther PROVE Typed'
  <2>1. /\ chan # <<>> /\ chan' = Tail(chan) /\ UNCHANGED sender
        /\ Now \in States /\ Head(chan) \in Sent /\ Reads(Now, Head(chan), Now')
    BY <1>1, <1>8, ReceiverReads
  <2>2. Now' \in States
    BY <2>1, ReadsTypes
  <2>3. chan' \in Seq(Sent)
    BY <1>1, <2>1
  <2> QED
    BY <1>7, <2>1, <2>2, <2>3
<1>9. ASSUME ReceiveEof PROVE Typed'
  <2>1. /\ UNCHANGED sender /\ chan' = chan /\ mode' = mode /\ received' = received
        /\ rk' = 0 /\ outfd' = outfd \o SubSeq(Key, 1, rk) \o <<EofByte>>
    BY <1>9 DEF ReceiveEof
  <2>2. /\ Now \in States /\ Held(Now) = outfd \o SubSeq(Key, 1, rk)
        /\ mode \in {"ack", "file"} /\ received \in Seq(Seq(Written))
    BY <1>1, NowIsTyped DEF Now, Held, TypeOK, Written
  <2>3. Held(Now) \in Seq(Written) /\ <<EofByte>> \in Seq(Written)
    <3>1. EofByte \in Written
      BY DEF Written
    <3>2. Held(Now) \in Seq(Written)
      BY <2>2, HeldFacts
    <3> QED
      BY <3>1, <3>2
  <2>4. outfd' \in Seq(Written)
    BY <2>1, <2>2, <2>3, ConcatProperties
  <2>5. Now' \in States
    BY <2>1, <2>2, <2>4, KeyFacts DEF Now, States
  <2> QED
    BY <1>1, <1>7, <2>1, <2>5
<1>10. CASE UNCHANGED vars
  BY <1>1, <1>2, <1>10 DEF vars, receiver, TypeOK
<1> QED
  BY <1>3, <1>4, <1>5, <1>6, <1>8, <1>9, <1>10 DEF Next, Sender, Receiver

-----------------------------------------------------------------------------
\* A function on 1..n is a sequence of length n.
LEMMA FunctionSeq ==
    ASSUME NEW S, NEW n \in Nat, NEW f \in [1..n -> S]
    PROVE  f \in Seq(S) /\ Len(f) = n
<1>1. f \in Seq(S)
  BY SeqDef
<1>2. Len(f) \in Nat /\ DOMAIN f = 1..Len(f) /\ DOMAIN f = 1..n
  BY <1>1, LenProperties
<1> QED
  BY <1>2

\* In a clean file the scan for the key meets no X that the receiver would
\* drop, and it is at its beginning when the file ends.
LEMMA CleanFacts ==
    ASSUME NEW file \in Seq(Bytes), Clean(file), NEW out \in Seq(Written),
           NEW k \in 0..(KeyLen - 1), NEW rest \in Seq(Bytes), Parts(out, k, rest, file)
    PROVE  /\ rest # <<>> /\ k + 1 = KeyLen => Head(rest) # X
           /\ rest = <<>> => k = 0
<1> DEFINE n == Len(out)
<1>1. /\ n \in Nat /\ k \in Nat /\ KeyLen \in Nat /\ KeyLen >= 2
      /\ Len(file) \in Nat /\ Len(rest) \in Nat /\ n + k + Len(rest) = Len(file)
      /\ \A i \in 1..k : Key[i] = file[n + i]
      /\ \A i \in 1..Len(rest) : rest[i] = file[n + k + i]
  BY KeyFacts DEF Parts
<1>2. /\ \A i \in 1..(Len(file) - KeyLen + 1) :
            SubSeq(file, i, i + KeyLen - 1) # Front(Key) \o <<X>>
      /\ \A j \in 1..(KeyLen - 1) : ~IsSuffix(SubSeq(Key, 1, j), file)
  BY DEF Clean, NoFiller, CleanEnd
<1> HIDE DEF n
<1>3. ASSUME rest # <<>>, k + 1 = KeyLen, Head(rest) = X PROVE FALSE
  <2> DEFINE a == SubSeq(file, n + 1, n + 1 + KeyLen - 1)
             b == Front(Key) \o <<X>>
  <2>1. Len(rest) >= 1 /\ rest[1] = X
    <3>1. Len(rest) \in Nat \ {0}
      BY <1>3, EmptySeq
    <3> QED
      BY <1>3, <3>1
  <2>2. /\ n + 1 \in 1..(Len(file) - KeyLen + 1) /\ n + KeyLen <= Len(file)
        /\ file[n + KeyLen] = X
    <3>1. 1 \in 1..Len(rest) /\ n + k + 1 = n + KeyLen
      BY <1>1, <1>3, <2>1
    <3>2. rest[1] = file[n + KeyLen]
      BY <1>1, <3>1
    <3>3. \A i, j, l, m, o \in Nat : j + 1 = l /\ i + j + m = o /\ m >= 1
                => i + 1 \in 1..(o - l + 1) /\ i + l <= o
      OBVIOUS
    <3> QED
      BY <1>1, <1>3, <2>1, <3>2, <3>3
  <2>3. /\ a \in Seq(Bytes) /\ Len(a) = KeyLen
        /\ \A i \in 1..KeyLen : a[i] = file[n + i]
    <3>1. PICK lo \in Int, hi \in Int : lo = n + 1 /\ hi = n + 1 + KeyLen - 1
      BY <1>1
    <3>2. /\ \A i \in lo..hi : i \in 1..Len(file)
          /\ lo <= hi /\ hi - lo + 1 = KeyLen /\ \A i \in 1..KeyLen : lo + i - 1 = n + i
      BY <1>1, <2>2, <3>1
    <3>3. \A i \in lo..hi : file[i] \in Bytes
      BY <3>2
    <3>4. /\ SubSeq(file, lo, hi) \in Seq(Bytes)
          /\ Len(SubSeq(file, lo, hi)) = IF lo <= hi THEN hi - lo + 1 ELSE 0
          /\ \A i \in 1..(hi - lo + 1) : SubSeq(file, lo, hi)[i] = file[lo + i - 1]
      BY <3>3, SubSeqProperties
    <3>5. a = SubSeq(file, lo, hi)
      BY <3>1
    <3> HIDE DEF a
    <3> QED
      BY <3>2, <3>4, <3>5
  <2>4. /\ b \in Seq(Bytes) /\ Len(b) = KeyLen
        /\ \A i \in 1..KeyLen : b[i] = IF i <= k THEN Key[i] ELSE X
    <3>1. Front(Key) = SubSeq(Key, 1, k)
      BY <1>1, <1>3 DEF Front, KeyLen
    <3>2. /\ SubSeq(Key, 1, k) \in Seq(Bytes) /\ Len(SubSeq(Key, 1, k)) = k
          /\ \A i \in 1..k : SubSeq(Key, 1, k)[i] = Key[i]
          /\ <<X>> \in Seq(Bytes) /\ Len(<<X>>) = 1 /\ <<X>>[1] = X
      BY KeyFacts
    <3>3. /\ SubSeq(Key, 1, k) \o <<X>> \in Seq(Bytes)
          /\ Len(SubSeq(Key, 1, k) \o <<X>>) = Len(SubSeq(Key, 1, k)) + Len(<<X>>)
          /\ \A i \in 1..(Len(SubSeq(Key, 1, k)) + Len(<<X>>)) :
                (SubSeq(Key, 1, k) \o <<X>>)[i] =
                    IF i <= Len(SubSeq(Key, 1, k)) THEN SubSeq(Key, 1, k)[i]
                    ELSE <<X>>[i - Len(SubSeq(Key, 1, k))]
      BY <3>2, ConcatProperties
    <3>4. \A i \in 1..KeyLen : (i <= k => i \in 1..k) /\ (~(i <= k) => i - k = 1)
      BY <1>1, <1>3
    <3> QED
      BY <1>1, <1>3, <3>1, <3>2, <3>3, <3>4
  <2> HIDE DEF a, b
  <2>5. \A i \in 1..KeyLen : a[i] = b[i]
    <3>1. ASSUME NEW i \in 1..KeyLen PROVE a[i] = b[i]
      <4>1. a[i] = file[n + i] /\ b[i] = IF i <= k THEN Key[i] ELSE X
        BY <2>3, <2>4
      <4>2. (i \in 1..k /\ i <= k) \/ (i = KeyLen /\ ~(i <= k))
        BY <1>1, <1>3
      <4> QED
        BY <1>1, <2>2, <4>1, <4>2
    <3> QED
      BY <3>1
  <2>6. a = b
    BY <2>3, <2>4, <2>5, SeqEqual
  <2>7. n + 1 + KeyLen - 1 = (n + 1) + KeyLen - 1
    OBVIOUS
  <2> QED
    BY <1>2, <2>2, <2>6, <2>7 DEF a, b
<1>4. ASSUME rest = <<>>, k # 0 PROVE FALSE
  <2> DEFINE p == SubSeq(Key, 1, k)
  <2>1. /\ p \in Seq(Bytes) /\ Len(p) = k /\ k \in 1..(KeyLen - 1) /\ n + k = Len(file)
        /\ \A i \in 1..k : p[i] = Key[i]
    <3>1. Len(rest) = 0
      BY <1>4
    <3> QED
      BY <1>1, <1>4, <3>1, KeyFacts
  <2> HIDE DEF p
  <2>2. /\ Reverse(p) = [i \in 1..k |-> p[(k - i) + 1]]
        /\ Reverse(file) = [i \in 1..Len(file) |-> file[(Len(file) - i) + 1]]
    BY <2>1 DEF Reverse
  <2>3. /\ Reverse(p) \in Seq(Bytes) /\ Len(Reverse(p)) = k
        /\ Reverse(file) \in Seq(Bytes) /\ Len(Reverse(file)) = Len(file)
    <3>1. \A i \in 1..k : (k - i) + 1 \in 1..k
      BY <1>1
    <3>2. \A i \in 1..Len(file) : (Len(file) - i) + 1 \in 1..Len(file)
      BY <1>1
    <3>3. /\ Reverse(p) \in [1..k -> Bytes]
          /\ Reverse(file) \in [1..Len(file) -> Bytes]
      BY <2>1, <2>2, <3>1, <3>2
    <3> QED
      BY <1>1, <3>3, FunctionSeq
  <2>4. \A i \in 1..k : Reverse(p)[i] = Reverse(file)[i]
    <3>1. ASSUME NEW i \in 1..k PROVE Reverse(p)[i] = Reverse(file)[i]
      <4>1. (k - i) + 1 \in 1..k /\ i \in 1..Len(file) /\ (Len(file) - i) + 1 = n + ((k - i) + 1)
        <5>1. PICK j \in Nat, l \in Nat, m \in Nat, q \in Nat :
                 j = Len(file) /\ l = k /\ m = n /\ q = i
          BY <1>1
        <5>2. q >= 1 /\ q <= l /\ m + l = j
          BY <2>1, <5>1
        <5>3. (l - q) + 1 \in 1..l /\ q \in 1..j /\ (j - q) + 1 = m + ((l - q) + 1)
          BY <5>2
        <5> QED
          BY <5>1, <5>3
      <4>2. Reverse(p)[i] = Key[(k - i) + 1] /\ Reverse(file)[i] = file[n + ((k - i) + 1)]
        BY <2>1, <2>2, <4>1
      <4> QED
        BY <1>1, <4>1, <4>2
    <3> QED
      BY <3>1
  <2>5. SubSeq(Reverse(p), 1, k) = SubSeq(Reverse(file), 1, k)
    <3>1. /\ 1 \in Int /\ k \in Int /\ \A i \in 1..k : Reverse(p)[i] \in Bytes
          /\ \A i \in 1..k : Reverse(file)[i] \in Bytes
      BY <1>1, <2>1, <2>3
    <3>2. /\ SubSeq(Reverse(p), 1, k) \in Seq(Bytes)
          /\ Len(SubSeq(Reverse(p), 1, k)) = IF 1 <= k THEN k - 1 + 1 ELSE 0
          /\ \A i \in 1..(k - 1 + 1) : SubSeq(Reverse(p), 1, k)[i] = Reverse(p)[1 + i - 1]
      BY <3>1, SubSeqProperties
    <3>3. /\ SubSeq(Reverse(file), 1, k) \in Seq(Bytes)
          /\ Len(SubSeq(Reverse(file), 1, k)) = IF 1 <= k THEN k - 1 + 1 ELSE 0
          /\ \A i \in 1..(k - 1 + 1) : SubSeq(Reverse(file), 1, k)[i] = Reverse(file)[1 + i - 1]
      BY <3>1, SubSeqProperties
    <3>4. \A i \in 1..k : SubSeq(Reverse(p), 1, k)[i] = SubSeq(Reverse(file), 1, k)[i]
      BY <1>1, <2>4, <3>2, <3>3
    <3>5. /\ Len(SubSeq(Reverse(p), 1, k)) = k /\ Len(SubSeq(Reverse(file), 1, k)) = k
      BY <1>1, <2>1, <3>2, <3>3
    <3> QED
      BY <3>2, <3>3, <3>4, <3>5, SeqEqual
  <2>6. IsSuffix(p, file)
    <3>1. Len(Reverse(p)) <= Len(Reverse(file))
      BY <1>1, <2>1, <2>3
    <3>2. SubSeq(Reverse(p), 1, Len(Reverse(p))) = SubSeq(Reverse(file), 1, Len(Reverse(p)))
      BY <2>3, <2>5
    <3> QED
      BY <3>1, <3>2 DEF IsSuffix, IsPrefix
  <2> QED
    BY <1>2, <2>1, <2>6 DEF p
<1> QED
  BY <1>3, <1>4

-----------------------------------------------------------------------------
\* A receiver that goes on to read the first byte stays on its course.
LEMMA ReceiverCourse ==
    ASSUME Typed, Course, ReceiveAck \/ ReceiveKeyByte \/ DropFiller \/ ReceiveOther
    PROVE  Course'
<1>1. /\ chan # <<>> /\ chan' = Tail(chan) /\ UNCHANGED sender /\ chan \in Seq(Sent)
      /\ Now \in States /\ Head(chan) \in Sent /\ Reads(Now, Head(chan), Now')
  BY ReceiverReads, NowIsTyped DEF Typed
<1>2. PICK w : /\ Runs(w, chan) /\ w[0] = Now
               /\ \A i \in 0..Len(chan) : Delivered(w[i].got)
               /\ alive => Agrees(w[Len(chan)])
  BY DEF Course
<1>3. 1 \in 1..Len(chan) /\ Head(chan) = chan[1]
  <2>1. Len(chan) \in Nat \ {0}
    BY <1>1, EmptySeq
  <2> QED
    BY <1>1, <2>1
<1>4. w[1] = Now'
  <2>1. Reads(w[1 - 1], chan[1], w[1])
    BY <1>2, <1>3 DEF Runs
  <2>2. Reads(Now, Head(chan), w[1])
    BY <1>2, <1>3, <2>1
  <2> QED
    BY <1>1, <2>2, ReadsOneWay
<1>5. PICK u : /\ Runs(u, Tail(chan)) /\ u[0] = w[1] /\ u[Len(Tail(chan))] = w[Len(chan)]
               /\ \A i \in 0..Len(Tail(chan)) : \E j \in 0..Len(chan) : u[i] = w[j]
  BY <1>1, <1>2, Shortened
<1>6. Runs(u, chan') /\ Runs(u, chan)' /\ u[0] = Now'
  BY <1>1, <1>4, <1>5 DEF Runs
<1>7. \A i \in 0..Len(chan') : Delivered(u[i].got)'
  <2>1. \A i \in 0..Len(Tail(chan)) : Delivered(u[i].got)
    BY <1>2, <1>5
  <2>2. chan' = Tail(chan) /\ files' = files
    BY <1>1 DEF sender
  <2> QED
    BY <2>1, <2>2 DEF Delivered
<1>8. alive' => Agrees(u[Len(chan)])'
  BY <1>1, <1>2, <1>5 DEF Agrees, sender
<1> QED
  BY <1>6, <1>7, <1>8 DEF Course

\* A sender that writes d stays on the course, if d takes a receiver that
\* agrees with it to where it then is.
LEMMA SenderCourse ==
    ASSUME Typed, Course, alive, NEW d \in Seq(Sent), chan' = chan \o d,
           UNCHANGED receiver, UNCHANGED files,
           \A s \in States : Agrees(s) /\ Delivered(s.got) =>
               \E v : /\ Runs(v, d) /\ v[0] = s /\ Agrees(v[Len(d)])'
                      /\ \A i \in 0..Len(d) : Delivered(v[i].got)
    PROVE  Course'
<1>1. Now \in States /\ chan \in Seq(Sent) /\ Len(chan) \in Nat /\ Now' = Now
  BY NowIsTyped DEF Typed, receiver, Now
<1>2. PICK w : /\ Runs(w, chan) /\ w[0] = Now
               /\ \A i \in 0..Len(chan) : Delivered(w[i].got)
               /\ Agrees(w[Len(chan)])
  BY DEF Course
<1>3. w[Len(chan)] \in States /\ Delivered(w[Len(chan)].got)
  <2>1. Len(chan) \in 0..Len(chan)
    BY <1>1
  <2> QED
    BY <1>2, <2>1 DEF Runs
<1>4. PICK v : /\ Runs(v, d) /\ v[0] = w[Len(chan)] /\ Agrees(v[Len(d)])'
               /\ \A i \in 0..Len(d) : Delivered(v[i].got)
  BY <1>2, <1>3
<1>5. PICK u : /\ Runs(u, chan \o d) /\ u[0] = w[0] /\ u[Len(chan \o d)] = v[Len(d)]
               /\ \A i \in 0..Len(chan \o d) : \/ \E j \in 0..Len(chan) : u[i] = w[j]
                                               \/ \E j \in 0..Len(d) : u[i] = v[j]
  <2>1. Runs(w, chan) /\ Runs(v, d) /\ v[0] = w[Len(chan)]
    BY <1>2, <1>4
  <2>2. chan \in Seq(Sent) /\ d \in Seq(Sent)
    BY <1>1
  <2> QED
    BY <2>1, <2>2, Extended
<1>6. Runs(u, chan)' /\ u[0] = Now'
  BY <1>1, <1>2, <1>5 DEF Runs
<1>7. \A i \in 0..Len(chan') : Delivered(u[i].got)'
  <2>1. \A i \in 0..Len(chan \o d) : Delivered(u[i].got)
    BY <1>2, <1>4, <1>5
  <2> QED
    BY <2>1 DEF Delivered
<1>8. Agrees(u[Len(chan)])'
  <2>1. u[Len(chan')] = v[Len(d)]
    BY <1>5
  <2> QED
    BY <1>4, <2>1 DEF Agrees
<1> QED
  BY <1>6, <1>7, <1>8 DEF Course

\* The marker opens a file for the receiver.
LEMMA SendMarkerCourse == ASSUME Typed, Course, SendMarker PROVE Course'
<1>1. /\ alive /\ smode = "announce" /\ turn \in 1..Len(files) /\ chan' = Append(chan, Marker)
      /\ smode' = "send" /\ infd' = files[turn] /\ sk' = 0
      /\ UNCHANGED <<files, turn, alive>> /\ UNCHANGED receiver
      /\ files[turn] \in Seq(Bytes) /\ chan \in Seq(Sent)
  BY DEF SendMarker, Typed, TypeOK, Sent
<1>2. PICK d \in Seq(Sent) : d = <<Marker>> /\ Len(d) = 1 /\ d[1] = Marker
  <2>1. Marker \in Sent
    BY DEF Sent
  <2>2. <<Marker>> \in Seq(Sent) /\ Len(<<Marker>>) = 1 /\ <<Marker>>[1] = Marker
    BY <2>1
  <2> QED
    BY <2>2
<1>3. chan' = chan \o d
  BY <1>1, <1>2
<1>4. ASSUME NEW s \in States, Agrees(s), Delivered(s.got)
      PROVE  \E v : /\ Runs(v, d) /\ v[0] = s /\ Agrees(v[Len(d)])'
                    /\ \A i \in 0..Len(d) : Delivered(v[i].got)
  <2> DEFINE t == [mode |-> "file", k |-> 0, out |-> <<>>, got |-> s.got]
             v == [i \in 0..1 |-> IF i = 0 THEN s ELSE t]
  <2>1. /\ t \in States /\ t.mode = "file" /\ t.k = 0 /\ t.out = <<>> /\ t.got = s.got
    BY KeyFacts DEF States
  <2>2. Reads(s, Marker, t)
    BY <1>1, <1>4 DEF Agrees, Reads
  <2> HIDE DEF t
  <2>3. v \in [0..1 -> States] /\ v[0] = s /\ v[1] = t
    BY <2>1
  <2> HIDE DEF v
  <2>4. Runs(v, d)
    <3>1. \A i \in 1..1 : i = 1 /\ i - 1 = 0
      OBVIOUS
    <3> QED
      BY <1>2, <2>2, <2>3, <3>1 DEF Runs
  <2>5. Parts(<<>>, 0, files[turn], files[turn])
    <3>1. Len(files[turn]) \in Nat /\ Len(<<>>) = 0
      BY <1>1
    <3> QED
      BY <3>1 DEF Parts
  <2>6. Agrees(t)'
    BY <1>1, <1>4, <2>1, <2>5 DEF Agrees
  <2>7. Agrees(v[Len(d)])'
    BY <1>2, <2>3, <2>6 DEF Agrees
  <2>8. \A i \in 0..Len(d) : Delivered(v[i].got)
    <3>1. \A i \in 0..1 : i = 0 \/ i = 1
      OBVIOUS
    <3> QED
      BY <1>2, <1>4, <2>1, <2>3, <3>1
  <2> QED
    BY <2>3, <2>4, <2>7, <2>8
<1>5. Typed /\ Course /\ alive /\ UNCHANGED receiver /\ UNCHANGED files
  BY <1>1
<1> QED
  BY <1>3, <1>4, <1>5, SenderCourse

\* The parts of a file when its next byte goes to the part of the key that is
\* held back, and when it is written after that part.
LEMMA PartsAdvance ==
    ASSUME NEW out \in Seq(Written), NEW k \in 0..(KeyLen - 1), NEW rest \in Seq(Bytes),
           NEW file \in Seq(Bytes), Parts(out, k, rest, file), rest # <<>>
    PROVE  /\ Head(rest) = Key[k + 1] => Parts(out, k + 1, Tail(rest), file)
           /\ \A o \in Seq(Written) :
                 /\ Len(o) = Len(out) + k + 1
                 /\ \A i \in 1..Len(out) : o[i] = out[i]
                 /\ \A i \in 1..k : o[Len(out) + i] = Key[i]
                 /\ o[Len(out) + k + 1] = Head(rest)
                 => Parts(o, 0, Tail(rest), file)
<1>1. PICK n \in Nat, m \in Nat, l \in Nat, h \in Nat :
          n = Len(out) /\ m = Len(rest) /\ l = Len(file) /\ h = k
  BY KeyFacts
<1>2. /\ n + h + m = l
      /\ \A i \in 1..n : out[i] = file[i]
      /\ \A i \in 1..h : Key[i] = file[n + i]
      /\ \A i \in 1..m : rest[i] = file[n + h + i]
  BY <1>1 DEF Parts
<1>3. /\ m >= 1 /\ Head(rest) = rest[1] /\ Len(Tail(rest)) = m - 1 /\ m - 1 \in Nat
      /\ \A i \in 1..(m - 1) : Tail(rest)[i] = rest[i + 1]
  <2>1. m \in Nat \ {0}
    BY <1>1, EmptySeq
  <2> QED
    BY <1>1, <2>1, HeadTailProperties
<1>4. Head(rest) = file[n + h + 1]
  <2>1. 1 \in 1..m
    BY <1>3
  <2> QED
    BY <1>2, <1>3, <2>1
<1>5. \A i \in 1..(m - 1) : Tail(rest)[i] = file[n + h + 1 + i]
  <2>1. ASSUME NEW i \in 1..(m - 1) PROVE Tail(rest)[i] = file[n + h + 1 + i]
    <3>1. i + 1 \in 1..m /\ n + h + (i + 1) = n + h + 1 + i
      BY <1>3
    <3>2. rest[i + 1] = file[n + h + (i + 1)]
      BY <1>2, <3>1
    <3> QED
      BY <1>3, <3>1, <3>2
  <2> QED
    BY <2>1
<1>6. ASSUME Head(rest) = Key[k + 1] PROVE Parts(out, k + 1, Tail(rest), file)
  <2>1. n + (h + 1) + (m - 1) = l
    BY <1>2, <1>3
  <2>2. \A i \in 1..(h + 1) : Key[i] = file[n + i]
    <3>1. \A i \in 1..(h + 1) : i \in 1..h \/ i = h + 1
      OBVIOUS
    <3>2. Key[h + 1] = file[n + (h + 1)]
      BY <1>1, <1>4, <1>6
    <3> QED
      BY <1>2, <3>1, <3>2
  <2>3. \A i \in 1..(m - 1) : Tail(rest)[i] = file[n + (h + 1) + i]
    <3>1. \A i \in 1..(m - 1) : n + (h + 1) + i = n + h + 1 + i
      OBVIOUS
    <3> QED
      BY <1>5, <3>1
  <2> QED
    BY <1>1, <1>2, <1>3, <2>1, <2>2, <2>3 DEF Parts
<1>7. ASSUME NEW o \in Seq(Written), Len(o) = n + h + 1,
             \A i \in 1..n : o[i] = out[i], \A i \in 1..h : o[n + i] = Key[i],
             o[n + h + 1] = Head(rest)
      PROVE  Parts(o, 0, Tail(rest), file)
  <2>1. (n + h + 1) + 0 + (m - 1) = l
    BY <1>2, <1>3
  <2>2. \A i \in 1..(n + h + 1) : o[i] = file[i]
    <3>1. ASSUME NEW i \in 1..(n + h + 1) PROVE o[i] = file[i]
      <4>1. CASE i <= n
        BY <1>2, <1>7, <4>1
      <4>2. CASE i > n /\ i <= n + h
        <5>1. i - n \in 1..h /\ n + (i - n) = i
          BY <4>2
        <5> QED
          BY <1>2, <1>7, <5>1
      <4>3. CASE i = n + h + 1
        BY <1>4, <1>7, <4>3
      <4>4. i <= n \/ (i > n /\ i <= n + h) \/ i = n + h + 1
        OBVIOUS
      <4> QED
        BY <4>1, <4>2, <4>3, <4>4
    <3> QED
      BY <3>1
  <2>3. \A i \in 1..(m - 1) : Tail(rest)[i] = file[(n + h + 1) + 0 + i]
    <3>1. \A i \in 1..(m - 1) : (n + h + 1) + 0 + i = n + h + 1 + i
      OBVIOUS
    <3> QED
      BY <1>5, <3>1
  <2>4. \A i \in 1..0 : FALSE
    OBVIOUS
  <2> QED
    BY <1>1, <1>3, <1>7, <2>1, <2>2, <2>3, <2>4 DEF Parts
<1> QED
  BY <1>1, <1>6, <1>7

\* The run over one byte.
LEMMA OneByte ==
    ASSUME NEW s \in States, NEW t \in States, NEW c \in Sent, Reads(s, c, t), t.got = s.got,
           Delivered(s.got)
    PROVE  \E v : /\ Runs(v, <<c>>) /\ v[0] = s /\ v[Len(<<c>>)] = t
                  /\ \A i \in 0..Len(<<c>>) : Delivered(v[i].got)
<1> DEFINE v == [i \in 0..1 |-> IF i = 0 THEN s ELSE t]
<1>1. v \in [0..1 -> States] /\ v[0] = s /\ v[1] = t
  OBVIOUS
<1> HIDE DEF v
<1>2. /\ Len(<<c>>) = 1 /\ <<c>>[1] = c
      /\ \A i \in 1..1 : i = 1 /\ i - 1 = 0
      /\ \A i \in 0..1 : i = 0 \/ i = 1
  OBVIOUS
<1>3. Runs(v, <<c>>)
  BY <1>1, <1>2 DEF Runs
<1>4. \A i \in 0..1 : Delivered(v[i].got)
  BY <1>1, <1>2
<1> QED
  BY <1>1, <1>2, <1>3, <1>4

\* A byte of the file, with or without an X before it.
LEMMA SendByteCourse ==
    ASSUME Typed, Carried, Course, SendByte
    PROVE  Course'
<1>1. /\ smode = "send" /\ infd \in Seq(Bytes) /\ infd # <<>> /\ sk \in 0..(KeyLen - 1)
      /\ alive /\ UNCHANGED <<files, turn, smode, alive>> /\ UNCHANGED receiver
      /\ turn \in 1..Len(files) /\ files[turn] \in Seq(Bytes) /\ Clean(files[turn])
      /\ infd' = Tail(infd) /\ KeyLen \in Nat /\ KeyLen >= 2
  <2>1. smode = "send" /\ turn \in 1..Len(files)
    BY DEF SendByte, Typed, TypeOK
  <2> QED
    BY <2>1, KeyFacts DEF SendByte, Typed, TypeOK, Carried
<1>2. PICK c \in Bytes : c = Head(infd)
  BY <1>1
<1>3. PICK d \in Seq(Sent), e \in 0..(KeyLen - 1) :
          /\ chan' = chan \o d /\ sk' = e /\ d = Stuffed(Matched(sk, c), c)
          /\ e = Restart(Matched(sk, c))
  BY <1>1, <1>2, ByteFacts DEF SendByte
<1>4. /\ \/ c = Key[sk + 1] /\ sk + 1 = KeyLen /\ d = <<X, c>> /\ e = 0
         \/ c = Key[sk + 1] /\ sk + 1 # KeyLen /\ d = <<c>> /\ e = sk + 1
         \/ c # Key[sk + 1] /\ d = <<c>> /\ e = 0
      /\ c \in Sent /\ X \in Sent
  BY <1>1, <1>3, ByteFacts, KeyFacts DEF Sent
<1>5. ASSUME NEW s \in States, Agrees(s), Delivered(s.got)
      PROVE  \E v : /\ Runs(v, d) /\ v[0] = s /\ Agrees(v[Len(d)])'
                    /\ \A i \in 0..Len(d) : Delivered(v[i].got)
  <2>1. /\ s.mode = "file" /\ s.k = sk /\ Parts(s.out, sk, infd, files[turn])
        /\ Len(s.got) = turn - 1 /\ s.out \in Seq(Written) /\ s.got \in Seq(Seq(Written))
    BY <1>1, <1>5 DEF Agrees, States
  <2>2. ~(c = X /\ sk + 1 = KeyLen)
    BY <1>1, <1>2, <2>1, CleanFacts
  <2>3. /\ Held(s) \in Seq(Written) /\ Len(Held(s)) = Len(s.out) + sk
        /\ Len(s.out) \in Nat /\ sk \in Nat
        /\ \A i \in 1..Len(s.out) : Held(s)[i] = s.out[i]
        /\ \A i \in 1..sk : Held(s)[Len(s.out) + i] = Key[i]
    BY <2>1, HeldFacts
  <2>4. ASSUME NEW t \in States, t.mode = "file", t.k = e, t.got = s.got,
               Parts(t.out, e, Tail(infd), files[turn])
        PROVE  Agrees(t)'
    BY <1>1, <1>3, <2>1, <2>4 DEF Agrees
  <2>5. ASSUME NEW o \in Seq(Written), Len(o) = Len(Held(s)),
               \A i \in 1..Len(Held(s)) : o[i] = Held(s)[i]
        PROVE  /\ o \o <<c>> \in Seq(Written)
               /\ Parts(o \o <<c>>, 0, Tail(infd), files[turn])
    <3>1. PICK n \in Nat, h \in Nat : n = Len(s.out) /\ h = sk
      BY <2>3
    <3>2. <<c>> \in Seq(Written) /\ Len(<<c>>) = 1 /\ <<c>>[1] = c
      <4>1. c \in Written
        BY DEF Written
      <4> QED
        BY <4>1
    <3>3. /\ o \o <<c>> \in Seq(Written) /\ Len(o \o <<c>>) = Len(o) + Len(<<c>>)
          /\ \A i \in 1..(Len(o) + Len(<<c>>)) :
                (o \o <<c>>)[i] = IF i <= Len(o) THEN o[i] ELSE <<c>>[i - Len(o)]
      BY <2>5, <3>2, ConcatProperties
    <3>4. /\ Len(o) = n + h /\ Len(o \o <<c>>) = n + h + 1
          /\ \A i \in 1..(n + h) : (o \o <<c>>)[i] = Held(s)[i]
          /\ (o \o <<c>>)[n + h + 1] = c
      <4>1. Len(o) = n + h
        BY <2>3, <2>5, <3>1
      <4>2. /\ \A i \in 1..(n + h) : i \in 1..(n + h + 1) /\ i <= n + h
            /\ n + h + 1 \in 1..(n + h + 1) /\ ~(n + h + 1 <= n + h) /\ (n + h + 1) - (n + h) = 1
        OBVIOUS
      <4> QED
        BY <2>3, <2>5, <3>1, <3>2, <3>3, <4>1, <4>2
    <3>5. /\ \A i \in 1..n : (o \o <<c>>)[i] = s.out[i]
          /\ \A i \in 1..h : (o \o <<c>>)[n + i] = Key[i]
      <4>1. (\A i \in 1..n : i \in 1..(n + h)) /\ (\A i \in 1..h : n + i \in 1..(n + h))
        OBVIOUS
      <4> QED
        BY <2>3, <3>1, <3>4, <4>1
    <3> QED
      <4>1. /\ Len(o \o <<c>>) = Len(s.out) + sk + 1
            /\ \A i \in 1..Len(s.out) : (o \o <<c>>)[i] = s.out[i]
            /\ \A i \in 1..sk : (o \o <<c>>)[Len(s.out) + i] = Key[i]
            /\ (o \o <<c>>)[Len(s.out) + sk + 1] = Head(infd)
        BY <1>2, <3>1, <3>4, <3>5
      <4>2. o \o <<c>> \in Seq(Written)
        BY <3>3
      <4>3. PICK q \in Seq(Written) : q = o \o <<c>>
        BY <4>2
      <4>4. Parts(q, 0, Tail(infd), files[turn])
        BY <1>1, <2>1, <4>1, <4>3, PartsAdvance
      <4> QED
        BY <4>3, <4>4
  <2>6. CASE c = Key[sk + 1] /\ sk + 1 # KeyLen
    <3>1. PICK t \in States : t = [mode |-> "file", k |-> e, out |-> s.out, got |-> s.got]
      BY <2>1 DEF States
    <3>2. d = <<c>> /\ e = sk + 1
      BY <1>4, <2>6
    <3>3. Reads(s, c, t) /\ t.got = s.got
      BY <2>1, <2>6, <3>1, <3>2 DEF Reads
    <3>4. Parts(s.out, sk + 1, Tail(infd), files[turn])
      BY <1>1, <1>2, <2>1, <2>6, PartsAdvance
    <3>5. Agrees(t)'
      BY <2>4, <3>1, <3>2, <3>4
    <3>6. PICK v : /\ Runs(v, <<c>>) /\ v[0] = s /\ v[Len(<<c>>)] = t
                   /\ \A i \in 0..Len(<<c>>) : Delivered(v[i].got)
      BY <1>4, <1>5, <3>3, OneByte
    <3> QED
      BY <3>2, <3>5, <3>6 DEF Agrees
  <2>7. CASE c # Key[sk + 1]
    <3>1. /\ Held(s) \o <<c>> \in Seq(Written)
          /\ Parts(Held(s) \o <<c>>, 0, Tail(infd), files[turn])
      BY <2>3, <2>5
    <3>2. d = <<c>> /\ e = 0
      BY <1>4, <2>7
    <3>3. PICK t \in States :
              t = [mode |-> "file", k |-> 0, out |-> Held(s) \o <<c>>, got |-> s.got]
      BY <2>1, <3>1, <3>2 DEF States
    <3>4. Reads(s, c, t) /\ t.got = s.got
      BY <2>1, <2>2, <2>7, <3>3 DEF Reads
    <3>5. Agrees(t)'
      BY <2>4, <3>1, <3>2, <3>3
    <3>6. PICK v : /\ Runs(v, <<c>>) /\ v[0] = s /\ v[Len(<<c>>)] = t
                   /\ \A i \in 0..Len(<<c>>) : Delivered(v[i].got)
      BY <1>4, <1>5, <3>4, OneByte
    <3> QED
      BY <3>2, <3>5, <3>6 DEF Agrees
  <2>8. CASE c = Key[sk + 1] /\ sk + 1 = KeyLen
    <3>1. d = <<X, c>> /\ e = 0 /\ d = <<X>> \o <<c>> /\ <<X>> \in Seq(Sent) /\ <<c>> \in Seq(Sent)
      BY <1>4, <2>8
    <3>2. c # Key[1] /\ c # X /\ X # Key[sk + 1] /\ 1 # KeyLen
      <4>1. 1 \in 1..KeyLen /\ KeyLen \in 1..KeyLen /\ 1 # KeyLen
        BY <1>1
      <4>2. Key[1] # Key[KeyLen] /\ Key[KeyLen] # X
        BY <4>1, KeyFacts
      <4> QED
        BY <2>8, <4>1, <4>2
    <3>3. PICK r \in States : r = [mode |-> "file", k |-> 0, out |-> Held(s), got |-> s.got]
      BY <2>1, <2>3, <3>1 DEF States
    <3>4. /\ Held(r) \in Seq(Written) /\ Len(Held(r)) = Len(Held(s))
          /\ \A i \in 1..Len(Held(s)) : Held(r)[i] = Held(s)[i]
      <4>1. r.out = Held(s) /\ r.k = 0
        BY <3>3
      <4> QED
        BY <4>1, HeldFacts
    <3>5. /\ Held(r) \o <<c>> \in Seq(Written)
          /\ Parts(Held(r) \o <<c>>, 0, Tail(infd), files[turn])
      BY <2>5, <3>4
    <3>6. PICK t \in States :
              t = [mode |-> "file", k |-> 0, out |-> Held(r) \o <<c>>, got |-> s.got]
      BY <2>1, <3>1, <3>5 DEF States
    <3>7. Reads(s, X, r) /\ r.got = s.got
      BY <2>1, <2>8, <3>2, <3>3 DEF Reads
    <3>8. Reads(r, c, t) /\ t.got = r.got
      <4>1. r.mode = "file" /\ r.k = 0 /\ r.got = s.got
        BY <3>3
      <4> QED
        BY <3>2, <3>6, <4>1 DEF Reads
    <3>9. Agrees(t)'
      BY <2>4, <3>1, <3>5, <3>6
    <3>10. PICK w : /\ Runs(w, <<X>>) /\ w[0] = s /\ w[Len(<<X>>)] = r
                    /\ \A i \in 0..Len(<<X>>) : Delivered(w[i].got)
      BY <1>4, <1>5, <3>7, OneByte
    <3>11. PICK v : /\ Runs(v, <<c>>) /\ v[0] = r /\ v[Len(<<c>>)] = t
                    /\ \A i \in 0..Len(<<c>>) : Delivered(v[i].got)
      BY <1>4, <1>5, <3>7, <3>8, OneByte
    <3>12. v[0] = w[Len(<<X>>)]
      BY <3>10, <3>11
    <3>13. PICK u : /\ Runs(u, <<X>> \o <<c>>) /\ u[0] = w[0]
                    /\ u[Len(<<X>> \o <<c>>)] = v[Len(<<c>>)]
                    /\ \A i \in 0..Len(<<X>> \o <<c>>) : \/ \E j \in 0..Len(<<X>>) : u[i] = w[j]
                                                         \/ \E j \in 0..Len(<<c>>) : u[i] = v[j]
      <4>1. PICK a \in Seq(Sent), b \in Seq(Sent) : a = <<X>> /\ b = <<c>>
        BY <3>1
      <4>2. Runs(w, a) /\ Runs(v, b) /\ v[0] = w[Len(a)]
        BY <3>10, <3>11, <3>12, <4>1
      <4>3. \E u : /\ Runs(u, a \o b) /\ u[0] = w[0] /\ u[Len(a \o b)] = v[Len(b)]
                   /\ \A i \in 0..Len(a \o b) : \/ \E j \in 0..Len(a) : u[i] = w[j]
                                                \/ \E j \in 0..Len(b) : u[i] = v[j]
        BY <4>2, Extended
      <4> QED
        BY <4>1, <4>3
    <3>14. \A i \in 0..Len(<<X>> \o <<c>>) : Delivered(u[i].got)
      BY <3>10, <3>11, <3>13
    <3>15. Runs(u, d) /\ u[0] = s /\ u[Len(d)] = t /\ \A i \in 0..Len(d) : Delivered(u[i].got)
      BY <3>1, <3>10, <3>11, <3>13, <3>14
    <3> QED
      BY <3>9, <3>15 DEF Agrees
  <2> QED
    BY <2>6, <2>7, <2>8
<1> QED
  BY <1>1, <1>3, <1>5, SenderCourse

\* The whole key, which closes the file for the receiver.
LEMMA SendKeyCourse ==
    ASSUME Typed, Carried, Course, SendKey
    PROVE  Course'
<1>1. /\ smode = "send" /\ infd = <<>> /\ sk \in 0..(KeyLen - 1) /\ alive
      /\ turn' = turn + 1 /\ smode' = "announce" /\ UNCHANGED <<files, infd, sk, alive>>
      /\ UNCHANGED receiver /\ chan' = chan \o Key
      /\ turn \in 1..Len(files) /\ files[turn] \in Seq(Bytes) /\ Clean(files[turn])
      /\ KeyLen \in Nat /\ KeyLen >= 2
  <2>1. smode = "send" /\ turn \in 1..Len(files)
    BY DEF SendKey, Typed, TypeOK
  <2> QED
    BY <2>1, KeyFacts DEF SendKey, Typed, TypeOK, Carried
<1>2. PICK d \in Seq(Sent) : d = Key /\ Len(d) = KeyLen /\ chan' = chan \o d
  BY <1>1, KeyAssumption, SeqMonotonic DEF Sent, KeyLen
<1>3. ASSUME NEW s \in States, Agrees(s), Delivered(s.got)
      PROVE  \E v : /\ Runs(v, d) /\ v[0] = s /\ Agrees(v[Len(d)])'
                    /\ \A i \in 0..Len(d) : Delivered(v[i].got)
  <2>1. /\ s.mode = "file" /\ s.k = sk /\ Parts(s.out, sk, <<>>, files[turn])
        /\ Len(s.got) = turn - 1 /\ s.out \in Seq(Written) /\ s.got \in Seq(Seq(Written))
    BY <1>1, <1>3 DEF Agrees, States
  <2>2. sk = 0
    <3>1. PICK rest \in Seq(Bytes) : rest = <<>>
      BY EmptySeq
    <3>2. Parts(s.out, sk, rest, files[turn])
      BY <2>1, <3>1
    <3> QED
      BY <1>1, <2>1, <3>1, <3>2, CleanFacts
  <2>3. s.out = files[turn]
    <3>1. Len(s.out) + 0 + 0 = Len(files[turn]) /\ \A i \in 1..Len(s.out) : s.out[i] = files[turn][i]
      BY <2>1, <2>2 DEF Parts
    <3>2. Len(s.out) = Len(files[turn]) /\ files[turn] \in Seq(Written)
      BY <1>1, <2>1, <3>1, SeqMonotonic DEF Written
    <3> QED
      BY <2>1, <3>1, <3>2, SeqEqual
  <2> DEFINE t == [mode |-> "ack", k |-> 0, out |-> <<>>, got |-> Append(s.got, s.out)]
             h(i) == [mode |-> "file", k |-> i, out |-> s.out, got |-> s.got]
             v == [i \in 0..KeyLen |-> IF i < KeyLen THEN h(i) ELSE t]
  <2>4. t \in States /\ t.mode = "ack" /\ t.got = Append(s.got, s.out)
    <3>1. Append(s.got, s.out) \in Seq(Seq(Written)) /\ <<>> \in Seq(Written)
      BY <2>1
    <3> QED
      BY <3>1, KeyFacts DEF States
  <2>5. \A i \in 0..(KeyLen - 1) : /\ h(i) \in States /\ h(i).mode = "file" /\ h(i).k = i
                                   /\ h(i).out = s.out /\ h(i).got = s.got
    BY <2>1 DEF States
  <2>6. /\ \A i \in 0..(KeyLen - 1) : i \in 0..KeyLen /\ v[i] = h(i)
        /\ v[KeyLen] = t /\ KeyLen \in 0..KeyLen
        /\ \A i \in 0..KeyLen : i = KeyLen \/ i \in 0..(KeyLen - 1)
    BY <1>1
  <2>7. v \in [0..KeyLen -> States]
    BY <1>1, <2>4, <2>5, <2>6
  <2>8. v[0] = s
    <3>1. v[0] = h(0) /\ 0 \in 0..(KeyLen - 1)
      BY <2>6, KeyFacts
    <3>2. s = [mode |-> s.mode, k |-> s.k, out |-> s.out, got |-> s.got]
      BY DEF States
    <3> QED
      BY <2>1, <2>2, <3>1, <3>2
  <2>9. ASSUME NEW i \in 1..KeyLen PROVE Reads(v[i - 1], d[i], v[i])
    <3>1. i - 1 \in 0..(KeyLen - 1) /\ (i - 1) + 1 = i /\ d[i] = Key[i]
      BY <1>1, <1>2
    <3>2. /\ v[i - 1].mode = "file" /\ v[i - 1].k = i - 1
          /\ v[i - 1].out = s.out /\ v[i - 1].got = s.got
      BY <2>5, <2>6, <3>1
    <3>3. CASE i = KeyLen
      BY <2>6, <3>1, <3>2, <3>3 DEF Reads
    <3>4. CASE i # KeyLen
      <4>1. v[i] = h(i)
        BY <1>1, <2>6, <3>4
      <4> QED
        BY <3>1, <3>2, <3>4, <4>1 DEF Reads
    <3> QED
      BY <3>3, <3>4
  <2> HIDE DEF v
  <2>10. Runs(v, d)
    BY <1>2, <2>7, <2>9 DEF Runs
  <2>11. Delivered(t.got) /\ Len(t.got) = turn' - 1
    <3>1. PICK n \in Nat : n = Len(s.got) /\ turn = n + 1
      BY <1>1, <2>1
    <3>2. /\ Len(Append(s.got, s.out)) = n + 1
          /\ \A i \in 1..n : Append(s.got, s.out)[i] = s.got[i]
          /\ Append(s.got, s.out)[n + 1] = s.out
      BY <2>1, <3>1
    <3>3. \A i \in 1..(n + 1) : i \in 1..n \/ i = n + 1
      OBVIOUS
    <3>4. n + 1 <= Len(files) /\ turn' - 1 = n + 1
      BY <1>1, <3>1
    <3> HIDE DEF t
    <3> QED
      BY <1>3, <2>3, <2>4, <3>1, <3>2, <3>3, <3>4 DEF Delivered
  <2>12. \A i \in 0..Len(d) : Delivered(v[i].got)
    <3>1. \A i \in 0..KeyLen : v[i] = t \/ v[i].got = s.got
      BY <2>5, <2>6
    <3> QED
      BY <1>2, <1>3, <2>11, <3>1
  <2>13. Agrees(v[Len(d)])'
    <3>1. v[Len(d)] = t
      BY <1>2, <2>6
    <3> QED
      BY <1>1, <2>4, <2>11, <3>1 DEF Agrees
  <2> QED
    BY <2>8, <2>10, <2>12, <2>13
<1> QED
  BY <1>1, <1>2, <1>3, SenderCourse

\* Reading after the end of the connection delivers nothing more.
LEMMA ReceiveEofCourse ==
    ASSUME Typed, Course, ReceiveEof, Typed'
    PROVE  Course'
<1>1. /\ chan = <<>> /\ chan' = <<>> /\ ~alive /\ UNCHANGED sender /\ received' = received
      /\ Len(<<>>) = 0 /\ Now' \in States /\ Now'.got = received
  BY NowIsTyped DEF ReceiveEof, sender, Typed, TypeOK, Now, States, Written
<1>2. Delivered(received)
  <2>1. PICK w : Runs(w, chan) /\ w[0] = Now /\ \A i \in 0..Len(chan) : Delivered(w[i].got)
    BY DEF Course
  <2>2. 0 \in 0..Len(chan) /\ Now.got = received
    BY <1>1 DEF Now
  <2> QED
    BY <2>1, <2>2
<1>3. PICK s \in States : s = Now' /\ s.got = received
  BY <1>1
<1> DEFINE v == [i \in 0..0 |-> s]
<1>4. v \in [0..0 -> States] /\ v[0] = s /\ \A i \in 0..0 : i = 0
  OBVIOUS
<1> HIDE DEF v
<1>5. Runs(v, <<>>)
  <2>1. \A i \in 1..0 : FALSE
    OBVIOUS
  <2> QED
    BY <1>1, <1>4, <2>1 DEF Runs
<1>6. Runs(v, chan)' /\ v[0] = Now' /\ ~alive'
  BY <1>1, <1>3, <1>4, <1>5 DEF Runs, sender
<1>7. \A i \in 0..Len(chan') : Delivered(v[i].got)'
  <2>1. \A i \in 0..Len(chan') : v[i].got = received
    BY <1>1, <1>3, <1>4
  <2>2. Delivered(received)'
    BY <1>1, <1>2 DEF Delivered, sender
  <2> QED
    BY <1>1, <2>1, <2>2 DEF Delivered
<1> QED
  BY <1>6, <1>7 DEF Course

\* The death of the server leaves everything on its course.
LEMMA IdleCourse ==
    ASSUME Course, UNCHANGED <<files, turn, smode, infd, sk, chan>>, UNCHANGED receiver,
           alive' => alive
    PROVE  Course'
<1>1. PICK w : /\ Runs(w, chan) /\ w[0] = Now
               /\ \A i \in 0..Len(chan) : Delivered(w[i].got)
               /\ alive => Agrees(w[Len(chan)])
  BY DEF Course
<1>2. Now' = Now /\ chan' = chan /\ files' = files
  BY DEF Now, receiver
<1>3. Runs(w, chan)' /\ w[0] = Now'
  BY <1>1, <1>2 DEF Runs
<1>4. \A i \in 0..Len(chan') : Delivered(w[i].got)'
  BY <1>1, <1>2 DEF Delivered
<1>5. alive' => Agrees(w[Len(chan)])'
  BY <1>1, <1>2 DEF Agrees
<1> QED
  BY <1>3, <1>4, <1>5 DEF Course

\* At the start nothing is under way.
LEMMA InitIInv == Init => IInv
<1> SUFFICES ASSUME Init PROVE IInv
  OBVIOUS
<1>1. Typed
  BY InitTyped
<1>2. Now \in States /\ chan = <<>> /\ Len(<<>>) = 0 /\ received = <<>>
  BY <1>1, NowIsTyped DEF Typed, Init
<1> DEFINE v == [i \in 0..0 |-> Now]
<1>3. v \in [0..0 -> States] /\ v[0] = Now /\ \A i \in 0..0 : i = 0
  BY <1>2
<1> HIDE DEF v
<1>4. Runs(v, chan)
  <2>1. \A i \in 1..0 : FALSE
    OBVIOUS
  <2> QED
    BY <1>2, <1>3, <2>1 DEF Runs
<1>5. \A i \in 0..Len(chan) : Delivered(v[i].got)
  <2>1. \A i \in 0..Len(chan) : v[i].got = <<>>
    BY <1>2, <1>3 DEF Now
  <2>2. Len(files) \in Nat /\ \A i \in 1..0 : FALSE
    BY <1>1 DEF Typed, TypeOK
  <2> QED
    BY <1>2, <2>1, <2>2 DEF Delivered
<1>6. Agrees(v[Len(chan)])
  <2>1. Now.mode = "ack" /\ Now.got = <<>>
    BY DEF Init, Now
  <2> QED
    BY <1>2, <1>3, <2>1 DEF Init, Agrees
<1> QED
  BY <1>1, <1>3, <1>4, <1>5, <1>6 DEF IInv, Course

\* Every step keeps the course, if the files can be carried.
LEMMA NextIInv == Carried /\ IInv /\ [Next]_vars => IInv'
<1> SUFFICES ASSUME Carried, IInv, [Next]_vars PROVE IInv'
  OBVIOUS
<1>1. Typed /\ Course /\ Typed'
  BY NextTyped DEF IInv
<1>2. CASE SendMarker
  BY <1>1, <1>2, SendMarkerCourse DEF IInv
<1>3. CASE SendByte
  BY <1>1, <1>3, SendByteCourse DEF IInv
<1>4. CASE SendKey
  BY <1>1, <1>4, SendKeyCourse DEF IInv
<1>5. CASE ServerDies
  <2>1. /\ UNCHANGED <<files, turn, smode, infd, sk, chan>> /\ UNCHANGED receiver
        /\ alive' => alive
    BY <1>5 DEF ServerDies
  <2> QED
    BY <1>1, <2>1, IdleCourse DEF IInv
<1>6. CASE ReceiveAck \/ ReceiveKeyByte \/ DropFiller \/ ReceiveOther
  BY <1>1, <1>6, ReceiverCourse DEF IInv
<1>7. CASE ReceiveEof
  BY <1>1, <1>7, ReceiveEofCourse DEF IInv
<1>8. CASE UNCHANGED vars
  <2>1. /\ UNCHANGED <<files, turn, smode, infd, sk, chan>> /\ UNCHANGED receiver
        /\ alive' => alive
    BY <1>8 DEF vars, receiver
  <2> QED
    BY <1>1, <2>1, IdleCourse DEF IInv
<1> QED
  BY <1>2, <1>3, <1>4, <1>5, <1>6, <1>7, <1>8 DEF Next, Sender, Receiver
-----------------------------------------------------------------------------
\* The types of both ends, whatever the files are: no scan runs beyond the key,
\* and no file is begun that there is not.
THEOREM TypeCorrect == Spec => []TypeOK
<1>1. Typed => TypeOK
  BY DEF Typed
<1> QED
  BY <1>1, InitTyped, NextTyped, PTL DEF Spec

\* The inductive invariant, for files that the stuffing can carry.
THEOREM Invariance == Carried => (Spec => []IInv)
<1> SUFFICES ASSUME Carried PROVE Spec => []IInv
  OBVIOUS
<1>1. IInv /\ [Next]_vars => IInv'
  BY NextIInv
<1> QED
  BY <1>1, InitIInv, PTL DEF Spec

\* A receiver with an empty connection is at the sender's place in the key and
\* has the sender's part of the file.
THEOREM ScansAlwaysAgree == Carried => (Spec => []ScansAgree)
<1> SUFFICES ASSUME Carried PROVE Spec => []ScansAgree
  OBVIOUS
<1>1. IInv => ScansAgree
  <2> SUFFICES ASSUME IInv, mode = "file", chan = <<>>, alive
               PROVE  /\ rk = sk
                      /\ outfd \o SubSeq(Key, 1, rk) \o infd = files[Len(received) + 1]
    BY DEF ScansAgree
  <2>1. PICK w : Runs(w, chan) /\ w[0] = Now /\ Agrees(w[Len(chan)])
    BY DEF IInv, Course
  <2>2. Len(chan) = 0 /\ Now.mode = "file" /\ Now.k = rk /\ Now.out = outfd /\ Now.got = received
    BY DEF Now
  <2>3. Agrees(Now)
    BY <2>1, <2>2
  <2>4. /\ smode = "send" /\ rk = sk /\ Parts(outfd, sk, infd, files[turn])
        /\ Len(received) + 1 = turn /\ turn \in 1..Len(files)
        /\ files[turn] \in Seq(Bytes) /\ infd \in Seq(Bytes) /\ Now \in States
    <3>1. smode = "send"
      BY <2>2, <2>3 DEF Agrees, IInv, Typed, TypeOK
    <3>2. rk = sk /\ Parts(outfd, sk, infd, files[turn]) /\ Len(received) = turn - 1
      BY <2>2, <2>3, <3>1 DEF Agrees
    <3>3. turn \in 1..Len(files) /\ infd \in Seq(Bytes) /\ Now \in States
      BY <3>1, NowIsTyped DEF IInv, Typed, TypeOK
    <3>4. files[turn] \in Seq(Bytes)
      BY <3>3 DEF IInv, Typed, TypeOK
    <3> QED
      BY <3>1, <3>2, <3>3, <3>4
  <2>5. PICK n \in Nat, h \in Nat, m \in Nat, l \in Nat :
            n = Len(outfd) /\ h = sk /\ m = Len(infd) /\ l = Len(files[turn])
    BY <2>2, <2>4, HeldFacts
  <2>6. PICK p \in Seq(Written) :
            /\ p = outfd \o SubSeq(Key, 1, rk) /\ Len(p) = n + h
            /\ \A i \in 1..n : p[i] = outfd[i]
            /\ \A i \in 1..h : p[n + i] = Key[i]
    <3>1. Held(Now) = outfd \o SubSeq(Key, 1, rk)
      BY <2>2 DEF Held
    <3>2. /\ Held(Now) \in Seq(Written) /\ Len(Held(Now)) = n + h
          /\ \A i \in 1..n : Held(Now)[i] = outfd[i]
          /\ \A i \in 1..h : Held(Now)[n + i] = Key[i]
      <4>1. /\ Held(Now) \in Seq(Written) /\ Len(Held(Now)) = Len(Now.out) + Now.k
            /\ \A i \in 1..Len(Now.out) : Held(Now)[i] = Now.out[i]
            /\ \A i \in 1..Now.k : Held(Now)[Len(Now.out) + i] = Key[i]
        BY <2>4, HeldFacts
      <4>2. Now.out = outfd /\ Len(Now.out) = n /\ Now.k = h
        BY <2>2, <2>4, <2>5
      <4> QED
        BY <4>1, <4>2
    <3> QED
      BY <3>1, <3>2
  <2>7. /\ n + h + m = l
        /\ \A i \in 1..n : outfd[i] = files[turn][i]
        /\ \A i \in 1..h : Key[i] = files[turn][n + i]
        /\ \A i \in 1..m : infd[i] = files[turn][n + h + i]
    BY <2>4, <2>5 DEF Parts
  <2>8. infd \in Seq(Written) /\ files[turn] \in Seq(Written)
    BY <2>4, SeqMonotonic DEF Written
  <2>9. /\ p \o infd \in Seq(Written) /\ Len(p \o infd) = Len(p) + Len(infd)
        /\ \A i \in 1..(Len(p) + Len(infd)) :
              (p \o infd)[i] = IF i <= Len(p) THEN p[i] ELSE infd[i - Len(p)]
    BY <2>8, ConcatProperties
  <2>10. ASSUME NEW i \in 1..l PROVE (p \o infd)[i] = files[turn][i]
    <3>1. CASE i <= n
      BY <2>5, <2>6, <2>7, <2>9, <3>1
    <3>2. CASE i > n /\ i <= n + h
      <4>1. i - n \in 1..h /\ n + (i - n) = i /\ i <= n + h
        BY <3>2
      <4>2. p[i] = Key[i - n] /\ Key[i - n] = files[turn][i]
        BY <2>6, <2>7, <4>1
      <4>3. (p \o infd)[i] = p[i]
        BY <2>5, <2>6, <2>7, <2>9, <3>2
      <4> QED
        BY <4>2, <4>3
    <3>3. CASE i > n + h
      <4>1. i - (n + h) \in 1..m /\ (n + h) + (i - (n + h)) = i /\ ~(i <= n + h)
        BY <2>7, <3>3
      <4>2. infd[i - (n + h)] = files[turn][i]
        BY <2>7, <4>1
      <4>3. (p \o infd)[i] = infd[i - (n + h)]
        BY <2>5, <2>6, <2>7, <2>9, <4>1
      <4> QED
        BY <4>2, <4>3
    <3>4. i <= n \/ (i > n /\ i <= n + h) \/ i > n + h
      BY <2>5
    <3> QED
      BY <3>1, <3>2, <3>3, <3>4
  <2>11. p \o infd = files[turn]
    <3>1. Len(p \o infd) = l
      BY <2>5, <2>6, <2>7, <2>9
    <3> QED
      BY <2>5, <2>8, <2>9, <2>10, <3>1, SeqEqual
  <2> QED
    BY <2>4, <2>6, <2>11
<1> QED
  BY <1>1, Invariance, PTL

\* The connection is a file copy: what the receiver closes is the next file
\* that was sent, whole, whatever the interleaving, the size of the connection
\* and the moment at which the server dies.
THEOREM CopyIsFaithful == Carried => (Spec => FaithfulCopy)
<1> SUFFICES ASSUME Carried PROVE Spec => FaithfulCopy
  OBVIOUS
<1>1. Init => Copies!Init
  BY DEF Init, Copies!Init
<1>2. IInv /\ IInv' /\ [Next]_vars => [Copies!Deliver]_<<files, received>>
  <2> SUFFICES ASSUME IInv, IInv', [Next]_vars
               PROVE  Copies!Deliver \/ UNCHANGED <<files, received>>
    OBVIOUS
  <2>1. files' = files
    BY DEF Next, Sender, Receiver, SendMarker, SendByte, SendKey, ServerDies, ReceiveAck,
           ReceiveKeyByte, DropFiller, ReceiveOther, ReceiveEof, sender, vars
  <2>2. received' = received \/ received' = Append(received, outfd)
    BY DEF Next, Sender, Receiver, SendMarker, SendByte, SendKey, ServerDies, ReceiveAck,
           ReceiveKeyByte, DropFiller, ReceiveOther, ReceiveEof, receiver, vars
  <2>3. CASE received' = Append(received, outfd)
    <3>1. Delivered(received)'
      <4>1. PICK w : /\ w[0] = Now' /\ \A i \in 0..Len(chan') : Delivered(w[i].got)'
        BY DEF IInv, Course
      <4>2. 0 \in 0..Len(chan') /\ Now'.got = received'
        BY NowIsTyped DEF Now, IInv, Typed, TypeOK
      <4> QED
        BY <4>1, <4>2 DEF Delivered
    <3>2. PICK n \in Nat : n = Len(received)
      BY DEF IInv, Typed, TypeOK
    <3>3. Len(received') = n + 1 /\ received'[n + 1] = outfd
      BY <2>3, <3>2 DEF IInv, Typed, TypeOK
    <3>4. n + 1 <= Len(files) /\ outfd = files[n + 1]
      <4>1. n + 1 \in 1..Len(received')
        BY <3>2, <3>3
      <4> QED
        BY <2>1, <3>1, <3>3, <4>1 DEF Delivered
    <3>5. Len(files) \in Nat
      BY DEF IInv, Typed, TypeOK
    <3>6. n < Len(files)
      BY <3>4, <3>5
    <3> QED
      BY <2>1, <2>3, <3>2, <3>4, <3>6 DEF Copies!Deliver
  <2> QED
    BY <2>1, <2>2, <2>3
<1> QED
  BY <1>1, <1>2, Invariance, PTL DEF Spec, FaithfulCopy
=============================================================================
