------------------------- MODULE AudioSpoolerProofs -------------------------
(***************************************************************************)
(* For every number of spoolers and waves and every length of the queue:   *)
(* Festival and the spooler agree on the confirmations that are due, waves *)
(* keep their order, and close leaves nothing behind.                      *)
(***************************************************************************)
EXTENDS AudioSpooler, Integers, SequenceTheorems, TLAPS

(* The fields of a spooler.                                                *)
Recs ==
  [pc : {"none", "start", "input", "process", "output", "tidy", "exiting", "gone",
         "shot"},
   in : BOOLEAN, out : BOOLEAN, down : Seq(Commands), cut : BOOLEAN, up : Nat,
   line : Commands, queue : Seq(Waves), kid : {"none", "playing", "done"},
   file : Waves \cup {Nil}, bye : BOOLEAN, eof : BOOLEAN, took : SUBSET Waves]

(* A wave comes after those that are queued and the one last taken out.    *)
Above(r, w) ==
  /\ \A k \in 1 .. Len(r.queue) : r.queue[k] < w
  /\ r.file # Nil => r.file < w

(* The wave last taken out, the queue, the line being processed and the    *)
(* command in the pipe are in order.                                       *)
Sorted(r) ==
  /\ \A j, k \in 1 .. Len(r.queue) : j < k => r.queue[j] < r.queue[k]
  /\ r.file # Nil => \A k \in 1 .. Len(r.queue) : r.file < r.queue[k]
  /\ r.line.op = "play" => Above(r, r.line.wave)
  /\ \A k \in 1 .. Len(r.down) : r.down[k].op = "play" =>
       /\ Above(r, r.down[k].wave)
       /\ r.line.op = "play" => r.line.wave < r.down[k].wave

(* Where a spooler can be with what.                                       *)
Placed(r) ==
  /\ Len(r.down) <= 1 /\ Len(r.queue) <= MaxQueue
  /\ r.in => r.out
  /\ r.bye => r.eof
  /\ r.pc = "process" => Len(r.queue) < MaxQueue /\ ~r.bye
  /\ r.line.op = "close" => r.pc = "process"
  /\ r.pc \in {"none", "gone", "shot"} => r.down = <<>>
  /\ r.pc \in {"tidy", "exiting", "gone", "shot"} => r.queue = <<>>
  /\ r.bye /\ r.pc \in {"exiting", "gone"} => r.kid # "playing"
  /\ r.pc \in {"none", "start"} => ~r.bye /\ r.took = {} /\ r.queue = <<>>

(* No wave is known to a spooler beyond w.                                 *)
UpTo(r, w) ==
  /\ \A k \in 1 .. Len(r.queue) : r.queue[k] <= w
  /\ r.file # Nil => r.file <= w
  /\ r.line.op = "play" => r.line.wave <= w
  /\ \A k \in 1 .. Len(r.down) : r.down[k].op = "play" => r.down[k].wave <= w
  /\ \A t \in r.took : t <= w

(* The file of a wave that was taken is there only while the wave is       *)
(* queued or played, unless no process could be had for it, as long as the *)
(* spooler has not died of Ctrl-C or of a pipe nobody reads.               *)
Kept(r, d, f) ==
  r.pc # "shot" /\ (r.bye \/ r.pc # "gone") => r.took \cap d \subseteq f \cup With(r)

Typed ==
  /\ mode \in BOOLEAN /\ cur \in 0 .. MaxStarts
  /\ pc \in {"lisp", "send", "write", "newline", "read", "closing", "killed"}
  /\ cmd \in Commands
  /\ waves \in 0 .. MaxWaves /\ disk \subseteq Waves /\ failed \subseteq Waves
  /\ sp \in [Spoolers -> Recs]

(* While a mode is on, or a command is under way, the pipes are open.      *)
Connected ==
  /\ pc \notin {"closing", "killed"} /\ (mode \/ pc \in {"send", "write", "newline", "read"}) =>
       cur \in Spoolers /\ sp[cur].in
  /\ pc = "closing" => cur \in Spoolers /\ ~sp[cur].in

(* Nothing is owed where a command may still be sent.                      *)
Counted ==
  cur > 0 /\ sp[cur].in =>
    /\ sp[cur].up + Owed(sp[cur]) <= 1
    /\ MaySend => sp[cur].up + Owed(sp[cur]) = 0

(* A wave that is to be sent is new to the spooler.                        *)
Fresh ==
  pc \in {"send", "write"} /\ cmd.op = "play" =>
    cmd.wave = waves /\ UpTo(sp[cur], waves - 1)

Sound(r, w, d, f) == Placed(r) /\ Sorted(r) /\ UpTo(r, w) /\ Kept(r, d, f)

IInv ==
  /\ Typed /\ Connected /\ Counted /\ Fresh
  /\ \A s \in Spoolers : Sound(sp[s], waves, disk, failed)
-----------------------------------------------------------------------------
(* What is assumed of the bounds.                                          *)
LEMMA Ranges ==
  /\ MaxStarts \in Nat /\ MaxWaves \in Nat /\ MaxQueue \in Nat \ {0}
  /\ Spoolers = 1 .. MaxStarts /\ Waves = 1 .. MaxWaves
  BY BoundsAssumption DEF Spoolers, Waves

(* The commands and the waves that are in them.                            *)
LEMMA CommandTypes ==
  /\ \A c \in {"", "method", "query", "shutup", "close"} :
       Op(c) \in Commands /\ Op(c).op = c
  /\ \A w \in Waves : Play(w) \in Commands /\ Play(w).op = "play" /\ Play(w).wave = w
  /\ \A c \in Commands : c.op = "play" => c.wave \in Waves
<1>1. \A c \in {"", "method", "query", "shutup", "close"} :
        Op(c) \in Commands /\ Op(c).op = c
  BY DEF Commands, Op
<1>2. \A w \in Waves : Play(w) \in Commands /\ Play(w).op = "play" /\ Play(w).wave = w
  BY DEF Commands, Play
<1>3. ASSUME NEW c \in Commands, c.op = "play" PROVE c.wave \in Waves
  <2>1. CASE \E o \in {"", "method", "query", "shutup", "close"} : c = Op(o)
    BY <1>1, <1>3, <2>1
  <2>2. CASE \E w \in Waves : c = Play(w)
    BY <1>2, <2>2
  <2> QED
    BY <2>1, <2>2 DEF Commands
<1> QED
  BY <1>1, <1>2, <1>3

(* What is owed is a number.                                               *)
LEMMA OwedType == ASSUME NEW r \in Recs PROVE Owed(r) \in Nat /\ r.up \in Nat
<1> DEFINE x == IF r.line.op = "close" \/ (r.bye /\ r.pc \in {"output", "input", "tidy"})
               THEN 1 ELSE 0
<1>1. Len(r.down) \in Nat /\ r.up \in Nat
  BY DEF Recs
<1>2. x \in Nat
  OBVIOUS
<1>3. Owed(r) = Len(r.down) + x
  BY DEF Owed
<1> HIDE DEF x
<1> QED
  BY <1>1, <1>2, <1>3

(* A spooler that has ended keeps all but its queue and its pipe.          *)
LEMMA DeadFields ==
  ASSUME NEW q \in Recs
  PROVE  LET r == Dead(q) IN
         /\ r \in Recs /\ r.pc = "gone" /\ r.queue = <<>> /\ r.down = <<>>
         /\ r.in = q.in /\ r.out = q.out /\ r.up = q.up /\ r.line = q.line
         /\ r.kid = q.kid /\ r.file = q.file /\ r.bye = q.bye /\ r.eof = q.eof
         /\ r.took = q.took /\ r.cut = FALSE
<1>1. <<>> \in Seq(Waves) /\ <<>> \in Seq(Commands)
  OBVIOUS
<1> QED
  BY <1>1 DEF Dead, Recs

(* What a step of a spooler has to keep.                                   *)
LEMMA SpoolerStep ==
  ASSUME IInv, NEW s \in Spoolers, NEW r \in Recs, sp' = [sp EXCEPT ![s] = r],
         UNCHANGED <<mode, cur, pc, cmd, waves>>,
         disk' \subseteq disk, failed \subseteq failed', failed' \subseteq Waves,
         Placed(r), Sorted(r), \A w \in Int : UpTo(sp[s], w) => UpTo(r, w),
         Kept(r, disk', failed'), r.in = sp[s].in,
         r.in => r.up + Owed(r) <= sp[s].up + Owed(sp[s])
  PROVE  IInv'
<1> USE Ranges
<1>1. Typed'
  BY DEF IInv, Typed
<1>2. sp \in [Spoolers -> Recs] /\ sp'[s] = r /\ \A t \in Spoolers : t # s => sp'[t] = sp[t]
  BY DEF IInv, Typed
<1>3. Connected'
  BY <1>2 DEF IInv, Connected
<1>4. \A t \in Spoolers : sp[t].up \in Nat /\ Owed(sp[t]) \in Nat
  BY <1>2, OwedType
<1>5. r.up \in Nat /\ Owed(r) \in Nat
  BY OwedType
<1>6. Counted'
  <2> SUFFICES ASSUME cur > 0, sp'[cur].in
               PROVE  /\ sp'[cur].up + Owed(sp'[cur]) <= 1
                      /\ MaySend => sp'[cur].up + Owed(sp'[cur]) = 0
    BY DEF Counted, MaySend
  <2>1. cur \in Spoolers
    BY DEF IInv, Typed
  <2>2. CASE cur = s
    BY <2>1, <2>2, <1>2, <1>4, <1>5 DEF IInv, Counted
  <2>3. CASE cur # s
    BY <2>1, <2>3, <1>2 DEF IInv, Counted
  <2> QED
    BY <2>2, <2>3
<1>7. waves \in Int /\ waves - 1 \in Int
  BY DEF IInv, Typed
<1>8. Fresh'
  <2> SUFFICES ASSUME pc \in {"send", "write"}, cmd.op = "play"
               PROVE  cmd.wave = waves /\ UpTo(sp'[cur], waves - 1)
    BY DEF Fresh
  <2>1. cmd.wave = waves /\ UpTo(sp[cur], waves - 1) /\ cur \in Spoolers
    BY DEF IInv, Fresh, Connected
  <2> QED
    BY <2>1, <1>2, <1>7
<1>9. ASSUME NEW t \in Spoolers PROVE Sound(sp'[t], waves, disk', failed')
  <2>1. CASE t = s
    BY <2>1, <1>2, <1>7 DEF IInv, Sound
  <2>2. CASE t # s
    <3>1. Sound(sp[t], waves, disk, failed)
      BY DEF IInv
    <3>2. Kept(sp[t], disk', failed')
      BY <3>1 DEF Sound, Kept
    <3> QED
      BY <3>1, <3>2, <2>2, <1>2 DEF Sound
  <2> QED
    BY <2>1, <2>2
<1> QED
  BY <1>1, <1>3, <1>6, <1>8, <1>9 DEF IInv

(* A step that changes little but the place: the queue, the line and the   *)
(* pipes stay.                                                             *)
LEMMA DeadStep ==
  ASSUME IInv, NEW s \in Spoolers, NEW q \in Recs,
         Spooler(s, Dead(q)), UNCHANGED <<disk, failed>>,
         q.in = sp[s].in, q.out = sp[s].out, q.file = sp[s].file, q.took = sp[s].took,
         q.bye = sp[s].bye, q.bye => q.eof,
         q.bye => q.kid # "playing" /\ Kept(q, disk, failed) /\ q.pc \notin {"gone", "shot"}
                  /\ q.queue = <<>>,
         q.line.op # "close", q.up = sp[s].up,
         \A w \in Int : UpTo(sp[s], w) => UpTo(q, w),
         q.line.op = "play" => Above(q, q.line.wave)
  PROVE  IInv'
<1> USE Ranges
<1> DEFINE r == Dead(q)
<1>1. /\ r \in Recs /\ r.pc = "gone" /\ r.queue = <<>> /\ r.down = <<>>
      /\ r.in = q.in /\ r.out = q.out /\ r.up = q.up /\ r.line = q.line
      /\ r.kid = q.kid /\ r.file = q.file /\ r.bye = q.bye /\ r.eof = q.eof
      /\ r.took = q.took
  BY DeadFields
<1>2. sp \in [Spoolers -> Recs] /\ sp[s] \in Recs
      /\ Placed(sp[s]) /\ Sorted(sp[s]) /\ failed \subseteq Waves
  BY DEF IInv, Typed, Sound
<1>3. Len(r.queue) = 0 /\ Len(r.down) = 0
  BY <1>1
<1>4. Placed(r)
  BY <1>1, <1>2, <1>3 DEF Placed
<1>5. Sorted(r)
  BY <1>1, <1>3 DEF Sorted, Above
<1>6. \A w \in Int : UpTo(sp[s], w) => UpTo(r, w)
  BY <1>1, <1>3 DEF UpTo
<1>7. Kept(r, disk, failed)
  BY <1>1, <1>3 DEF Kept, With
<1>8. Owed(r) = 0
  BY <1>1, <1>3 DEF Owed
<1>9. sp[s].up \in Nat /\ Owed(sp[s]) \in Nat
  BY <1>2, OwedType
<1>10. sp' = [sp EXCEPT ![s] = r] /\ UNCHANGED <<mode, cur, pc, cmd, waves>>
  BY DEF Spooler
<1>11. r.in => r.up + Owed(r) <= sp[s].up + Owed(sp[s])
  BY <1>1, <1>8, <1>9
<1> HIDE DEF r
<1> QED
  BY <1>1, <1>2, <1>4, <1>5, <1>6, <1>7, <1>10, <1>11, SpoolerStep

(* The spooler starts, or execvp fails.                                    *)
LEMMA StartIInv == ASSUME IInv, NEW s \in Spoolers, start(s) PROVE IInv'
<1> USE Ranges
<1>1. /\ sp[s] \in Recs /\ sp[s].pc = "start" /\ failed \subseteq Waves
      /\ UNCHANGED <<disk, failed>> /\ Sound(sp[s], waves, disk, failed)
  BY DEF start, IInv, Typed
<1>2. CASE Spooler(s, [sp[s] EXCEPT !.pc = "input"])
  <2>1. PICK r \in Recs : r = [sp[s] EXCEPT !.pc = "input"]
    BY <1>1 DEF Recs
  <2>2. Placed(r) /\ Sorted(r) /\ Kept(r, disk, failed) /\ r.in = sp[s].in
        /\ \A w \in Int : UpTo(sp[s], w) => UpTo(r, w)
    BY <1>1, <2>1 DEF Sound, Placed, Sorted, Above, Kept, With, UpTo, Recs
  <2>3. r.up + Owed(r) <= sp[s].up + Owed(sp[s])
    <3>1. r.up = sp[s].up /\ Owed(r) = Owed(sp[s]) /\ r.up \in Nat /\ Owed(r) \in Nat
      BY <1>1, <2>1, OwedType DEF Sound, Placed, Owed, Recs
    <3> QED
      BY <3>1
  <2> QED
    BY <1>1, <1>2, <2>1, <2>2, <2>3, SpoolerStep DEF Spooler
<1>3. CASE Spooler(s, Dead(sp[s]))
  BY <1>1, <1>3, DeadStep DEF Sound, Placed, Sorted
<1> QED
  BY <1>2, <1>3 DEF start

(* The spooler ends.                                                       *)
LEMMA ExitIInv == ASSUME IInv, NEW s \in Spoolers, exit(s) PROVE IInv'
<1> USE Ranges
<1>1. /\ sp[s] \in Recs /\ sp[s].pc = "exiting" /\ failed \subseteq Waves
      /\ UNCHANGED <<disk, failed>> /\ Sound(sp[s], waves, disk, failed)
      /\ Spooler(s, Dead(sp[s]))
  BY DEF exit, IInv, Typed
<1> QED
  BY <1>1, DeadStep DEF Sound, Placed, Sorted

(* What Owed counts, one case at a time.                                   *)
LEMMA OwedIs ==
  ASSUME NEW r \in Recs
  PROVE  /\ r.line.op = "close" \/ (r.bye /\ r.pc \in {"output", "input", "tidy"})
              => Owed(r) = Len(r.down) + 1
         /\ r.line.op # "close" /\ (r.bye => r.pc \notin {"output", "input", "tidy"})
              => Owed(r) = Len(r.down)
         /\ Len(r.down) \in Nat
<1> DEFINE due == r.line.op = "close" \/ (r.bye /\ r.pc \in {"output", "input", "tidy"})
           x == IF due THEN 1 ELSE 0
<1>1. Len(r.down) \in Nat
  BY DEF Recs
<1>2. (due => x = 1) /\ (~due => x = 0)
  OBVIOUS
<1>3. Owed(r) = Len(r.down) + x
  BY DEF Owed
<1>4. (due => Owed(r) = Len(r.down) + 1) /\ (~due => Owed(r) = Len(r.down))
  <2> HIDE DEF x, due
  <2> QED
    BY <1>1, <1>2, <1>3
<1> QED
  BY <1>1, <1>4

(* One confirmation more.                                                  *)
LEMMA UpFields ==
  ASSUME NEW q \in Recs
  PROVE  LET r == [q EXCEPT !.up = @ + 1] IN
         /\ r \in Recs /\ r.pc = q.pc /\ r.line = q.line /\ r.down = q.down
         /\ r.in = q.in /\ r.out = q.out /\ r.up = q.up + 1
         /\ r.queue = q.queue /\ r.kid = q.kid /\ r.file = q.file
         /\ r.bye = q.bye /\ r.eof = q.eof /\ r.took = q.took
<1>1. q.up + 1 \in Nat
  BY DEF Recs
<1> QED
  BY <1>1 DEF Recs

(* The pipe, when there is one command in it.                              *)
LEMMA OneElement ==
  ASSUME NEW S, NEW d \in Seq(S), d # <<>>, Len(d) <= 1
  PROVE  Len(d) = 1 /\ Head(d) = d[1] /\ Head(d) \in S /\ Tail(d) = <<>>
<1>1. Len(d) \in Nat /\ Len(d) # 0
  BY EmptySeq
<1>2. Len(d) = 1
  <2>1. \A n \in Nat : n # 0 /\ n <= 1 => n = 1
    OBVIOUS
  <2> QED
    BY <1>1, <2>1, Zenon
<1>3. Head(d) = d[1] /\ d[1] \in S
  BY <1>2
<1>4. Tail(d) \in Seq(S) /\ Len(Tail(d)) = 0
  BY <1>2
<1> QED
  BY <1>2, <1>3, <1>4, EmptySeq

(* A command is taken from the pipe, and confirmed unless it is close.     *)
LEMMA TakeIInv ==
  ASSUME IInv, NEW s \in Spoolers, sp[s].pc = "input", Listens(sp[s]), sp[s].down # <<>>,
         UNCHANGED <<disk, failed>>,
         Spooler(s, Answer([sp[s] EXCEPT !.pc = "process", !.line = Head(sp[s].down),
                                         !.down = Tail(sp[s].down), !.cut = FALSE,
                                         !.eof = sp[s].cut]))
  PROVE  IInv'
<1> USE Ranges
<1>1. sp[s] \in Recs /\ failed \subseteq Waves /\ Sound(sp[s], waves, disk, failed)
  BY DEF IInv, Typed
<1>2. /\ sp[s].down \in Seq(Commands) /\ Len(sp[s].down) = 1
      /\ Head(sp[s].down) = sp[s].down[1] /\ Head(sp[s].down) \in Commands
      /\ Tail(sp[s].down) = <<>>
  <2>1. sp[s].down \in Seq(Commands) /\ Len(sp[s].down) <= 1
    BY <1>1 DEF Sound, Placed, Recs
  <2> QED
    BY <2>1, OneElement
<1>3. ~sp[s].bye /\ Len(sp[s].queue) < MaxQueue
  BY <1>1 DEF Sound, Placed, Listens
<1>4. PICK q : q = [sp[s] EXCEPT !.pc = "process", !.line = Head(sp[s].down),
                                 !.down = Tail(sp[s].down), !.cut = FALSE,
                                 !.eof = sp[s].cut]
  OBVIOUS
<1>5. /\ q \in Recs /\ q.pc = "process" /\ q.line = sp[s].down[1] /\ q.down = <<>>
      /\ q.in = sp[s].in /\ q.out = sp[s].out /\ q.up = sp[s].up
      /\ q.queue = sp[s].queue /\ q.kid = sp[s].kid /\ q.file = sp[s].file
      /\ q.bye = sp[s].bye /\ q.took = sp[s].took
  <2> DEFINE l == Head(sp[s].down)
  <2>1. l \in Commands /\ Tail(sp[s].down) = <<>> /\ <<>> \in Seq(Commands)
    BY <1>2
  <2> HIDE DEF l
  <2>2. q = [sp[s] EXCEPT !.pc = "process", !.line = l, !.down = <<>>, !.cut = FALSE,
                          !.eof = sp[s].cut]
    BY <1>2, <1>4 DEF l
  <2>3. l = sp[s].down[1]
    BY <1>2 DEF l
  <2> QED
    BY <1>1, <2>1, <2>2, <2>3 DEF Recs
<1>6. Len(q.down) = 0
  BY <1>5
<1>7. Placed(q)
  BY <1>1, <1>3, <1>5, <1>6 DEF Sound, Placed
<1>8. Sorted(q)
  BY <1>1, <1>2, <1>5, <1>6 DEF Sound, Sorted, Above
<1>9. \A w \in Int : UpTo(sp[s], w) => UpTo(q, w)
  BY <1>2, <1>5, <1>6 DEF UpTo
<1>10. Kept(q, disk, failed)
  BY <1>1, <1>5 DEF Sound, Kept, With
<1>11. Owed(sp[s]) = 1 /\ sp[s].line.op # "close"
  BY <1>1, <1>2, <1>3, OwedIs DEF Sound, Placed
<1>12. sp[s].up \in Nat
  BY <1>1, OwedType
<1>13. CASE q.line.op = "close"
  <2>1. Owed(q) = 1
    BY <1>5, <1>6, <1>13, OwedIs
  <2>2. sp' = [sp EXCEPT ![s] = q] /\ UNCHANGED <<mode, cur, pc, cmd, waves>>
    BY <1>4, <1>13 DEF Spooler, Answer
  <2>3. q.up + Owed(q) <= sp[s].up + Owed(sp[s])
    BY <1>5, <1>11, <1>12, <2>1
  <2> QED
    BY <1>1, <1>5, <1>7, <1>8, <1>9, <1>10, <2>2, <2>3, SpoolerStep
<1>14. CASE q.line.op # "close" /\ q.out
  <2>1. PICK r : r = [q EXCEPT !.up = @ + 1]
    OBVIOUS
  <2>2. /\ r \in Recs /\ r.pc = q.pc /\ r.line = q.line /\ r.down = q.down
        /\ r.in = q.in /\ r.out = q.out /\ r.up = q.up + 1
        /\ r.queue = q.queue /\ r.kid = q.kid /\ r.file = q.file
        /\ r.bye = q.bye /\ r.eof = q.eof /\ r.took = q.took
    BY <1>5, <2>1, UpFields
  <2>3. Owed(r) = 0
    BY <1>3, <1>5, <1>6, <1>14, <2>2, OwedIs
  <2>4. Placed(r) /\ Sorted(r) /\ Kept(r, disk, failed)
    BY <1>7, <1>8, <1>10, <2>2 DEF Placed, Sorted, Above, Kept, With
  <2>5. \A w \in Int : UpTo(sp[s], w) => UpTo(r, w)
    BY <1>9, <2>2 DEF UpTo
  <2>6. sp' = [sp EXCEPT ![s] = r] /\ UNCHANGED <<mode, cur, pc, cmd, waves>>
    BY <1>4, <1>14, <2>1 DEF Spooler, Answer, Confirm
  <2>7. r.up + Owed(r) <= sp[s].up + Owed(sp[s])
    BY <1>5, <1>11, <1>12, <2>2, <2>3
  <2> QED
    BY <1>1, <1>5, <2>2, <2>4, <2>5, <2>6, <2>7, SpoolerStep
<1>15. CASE q.line.op # "close" /\ ~q.out
  <2>1. Spooler(s, Dead(q))
    BY <1>4, <1>15 DEF Answer, Confirm
  <2> QED
    BY <2>1, <1>3, <1>5, <1>8, <1>9, <1>15, DeadStep DEF Sorted
<1> QED
  BY <1>13, <1>14, <1>15

(* The end of file is read as an empty line, and confirmed.                *)
LEMMA EofIInv ==
  ASSUME IInv, NEW s \in Spoolers, sp[s].pc = "input", Listens(sp[s]),
         sp[s].down = <<>>, ~sp[s].in, UNCHANGED <<disk, failed>>,
         Spooler(s, Answer([sp[s] EXCEPT !.pc = "process", !.line = Blank, !.eof = TRUE]))
  PROVE  IInv'
<1> USE Ranges
<1>1. sp[s] \in Recs /\ failed \subseteq Waves /\ Sound(sp[s], waves, disk, failed)
  BY DEF IInv, Typed
<1>2. Blank \in Commands /\ Blank.op = ""
  BY CommandTypes DEF Blank
<1>3. ~sp[s].bye /\ Len(sp[s].queue) < MaxQueue
  BY <1>1 DEF Sound, Placed, Listens
<1>4. PICK q : q = [sp[s] EXCEPT !.pc = "process", !.line = Blank, !.eof = TRUE]
  OBVIOUS
<1>5. /\ q \in Recs /\ q.pc = "process" /\ q.line = Blank /\ q.down = <<>>
      /\ q.in = FALSE /\ q.out = sp[s].out /\ q.up = sp[s].up
      /\ q.queue = sp[s].queue /\ q.kid = sp[s].kid /\ q.file = sp[s].file
      /\ q.bye = sp[s].bye /\ q.eof = TRUE /\ q.took = sp[s].took
  BY <1>1, <1>2, <1>4 DEF Recs
<1>6. Len(q.down) = 0
  BY <1>5
<1>7. Placed(q)
  BY <1>1, <1>2, <1>3, <1>5, <1>6 DEF Sound, Placed
<1>8. Sorted(q)
  BY <1>1, <1>2, <1>5, <1>6 DEF Sound, Sorted, Above
<1>9. \A w \in Int : UpTo(sp[s], w) => UpTo(q, w)
  BY <1>2, <1>5, <1>6 DEF UpTo
<1>10. Kept(q, disk, failed)
  BY <1>1, <1>5 DEF Sound, Kept, With
<1>11. CASE q.out
  <2>1. PICK r : r = [q EXCEPT !.up = @ + 1]
    OBVIOUS
  <2>2. /\ r \in Recs /\ r.pc = q.pc /\ r.line = q.line /\ r.down = q.down
        /\ r.in = q.in /\ r.out = q.out /\ r.queue = q.queue /\ r.kid = q.kid
        /\ r.file = q.file /\ r.bye = q.bye /\ r.eof = q.eof /\ r.took = q.took
    BY <1>5, <2>1, UpFields
  <2>3. Placed(r) /\ Sorted(r) /\ Kept(r, disk, failed)
    BY <1>7, <1>8, <1>10, <2>2 DEF Placed, Sorted, Above, Kept, With
  <2>4. \A w \in Int : UpTo(sp[s], w) => UpTo(r, w)
    BY <1>9, <2>2 DEF UpTo
  <2>5. sp' = [sp EXCEPT ![s] = r] /\ UNCHANGED <<mode, cur, pc, cmd, waves>>
    BY <1>2, <1>4, <1>5, <1>11, <2>1 DEF Spooler, Answer, Confirm
  <2>6. r.in = sp[s].in /\ ~r.in
    BY <1>1, <1>5, <2>2 DEF Recs
  <2> QED
    BY <1>1, <2>2, <2>3, <2>4, <2>5, <2>6, SpoolerStep
<1>12. CASE ~q.out
  <2>1. Spooler(s, Dead(q))
    BY <1>2, <1>4, <1>5, <1>12 DEF Answer, Confirm
  <2>2. q.in = sp[s].in
    BY <1>1, <1>5 DEF Recs
  <2> QED
    BY <2>1, <2>2, <1>2, <1>3, <1>5, <1>9, DeadStep
<1> QED
  BY <1>11, <1>12

(* Nothing is read, a command is taken, or the end of file is found.       *)
LEMMA InputIInv == ASSUME IInv, NEW s \in Spoolers, check_new_input(s) PROVE IInv'
<1> USE Ranges
<1>1. /\ sp[s] \in Recs /\ sp[s].pc = "input" /\ failed \subseteq Waves
      /\ UNCHANGED <<disk, failed>> /\ Sound(sp[s], waves, disk, failed)
  BY DEF check_new_input, IInv, Typed
<1>2. CASE Spooler(s, [sp[s] EXCEPT !.pc = "output"])
  <2>1. PICK r \in Recs : r = [sp[s] EXCEPT !.pc = "output"]
    BY <1>1 DEF Recs
  <2>2. /\ r.pc = "output" /\ r.line = sp[s].line /\ r.down = sp[s].down
        /\ r.in = sp[s].in /\ r.out = sp[s].out /\ r.up = sp[s].up
        /\ r.queue = sp[s].queue /\ r.kid = sp[s].kid /\ r.file = sp[s].file
        /\ r.bye = sp[s].bye /\ r.eof = sp[s].eof /\ r.took = sp[s].took
    BY <1>1, <2>1 DEF Recs
  <2>3. Placed(r) /\ Sorted(r) /\ Kept(r, disk, failed)
        /\ \A w \in Int : UpTo(sp[s], w) => UpTo(r, w)
    BY <1>1, <2>2 DEF Sound, Placed, Sorted, Above, Kept, With, UpTo
  <2>4. Owed(r) = Owed(sp[s]) /\ Owed(r) \in Nat /\ r.up \in Nat
    BY <1>1, <2>2, OwedType DEF Owed
  <2>5. r.up + Owed(r) <= sp[s].up + Owed(sp[s])
    BY <2>2, <2>4
  <2>6. sp' = [sp EXCEPT ![s] = r] /\ UNCHANGED <<mode, cur, pc, cmd, waves>>
    BY <1>2, <2>1 DEF Spooler
  <2> QED
    BY <1>1, <2>1, <2>2, <2>3, <2>5, <2>6, SpoolerStep
<1> QED
  BY <1>1, <1>2, TakeIInv, EofIInv DEF check_new_input

(* A wave joins the queue.                                                 *)
LEMMA QueueIInv ==
  ASSUME IInv, NEW s \in Spoolers, sp[s].pc = "process", sp[s].line.op = "play",
         NEW q \in Recs, q = [sp[s] EXCEPT !.pc = "output", !.line = Blank],
         Spooler(s, [q EXCEPT !.queue = Append(@, sp[s].line.wave),
                              !.took = @ \cup {sp[s].line.wave}]),
         UNCHANGED <<disk, failed>>
  PROVE  IInv'
<1> USE Ranges
<1>1. sp[s] \in Recs /\ failed \subseteq Waves /\ Sound(sp[s], waves, disk, failed)
  BY DEF IInv, Typed
<1>2. Blank \in Commands /\ Blank.op = ""
  BY CommandTypes DEF Blank
<1>3. PICK w \in Waves : w = sp[s].line.wave
  BY <1>1, CommandTypes DEF Recs
<1>4. PICK r : r = [q EXCEPT !.queue = Append(@, w), !.took = @ \cup {w}]
  OBVIOUS
<1>5. sp[s].queue \in Seq(Waves) /\ Append(sp[s].queue, w) \in Seq(Waves)
      /\ sp[s].took \cup {w} \in SUBSET Waves
  BY <1>1 DEF Recs
<1>6. /\ r \in Recs /\ r.pc = "output" /\ r.line = Blank /\ r.down = sp[s].down
      /\ r.in = sp[s].in /\ r.out = sp[s].out /\ r.up = sp[s].up
      /\ r.queue = Append(sp[s].queue, w) /\ r.kid = sp[s].kid /\ r.file = sp[s].file
      /\ r.bye = sp[s].bye /\ r.eof = sp[s].eof /\ r.took = sp[s].took \cup {w}
  <2> DEFINE a == Append(sp[s].queue, w)
             t == sp[s].took \cup {w}
  <2>1. a \in Seq(Waves) /\ t \in SUBSET Waves
    BY <1>5
  <2>2. q.queue = sp[s].queue /\ q.took = sp[s].took
    BY <1>1 DEF Recs
  <2>3. r = [q EXCEPT !.queue = a, !.took = t]
    BY <1>4, <2>2
  <2> HIDE DEF a, t
  <2>4. /\ r \in Recs /\ r.pc = "output" /\ r.line = Blank /\ r.down = sp[s].down
        /\ r.in = sp[s].in /\ r.out = sp[s].out /\ r.up = sp[s].up
        /\ r.queue = a /\ r.kid = sp[s].kid /\ r.file = sp[s].file
        /\ r.bye = sp[s].bye /\ r.eof = sp[s].eof /\ r.took = t
    <3>1. sp[s] \in Recs
      BY <1>1
    <3>2. q \in Recs
      BY <3>1, <1>2 DEF Recs
    <3>3. r \in Recs
      BY <3>2, <2>1, <2>3 DEF Recs
    <3>4. /\ r.pc = q.pc /\ r.line = q.line /\ r.down = q.down /\ r.in = q.in
          /\ r.out = q.out /\ r.up = q.up /\ r.queue = a /\ r.kid = q.kid
          /\ r.file = q.file /\ r.bye = q.bye /\ r.eof = q.eof /\ r.took = t
      BY <3>2, <2>3 DEF Recs
    <3>5. /\ q.pc = "output" /\ q.line = Blank /\ q.down = sp[s].down
          /\ q.in = sp[s].in /\ q.out = sp[s].out /\ q.up = sp[s].up
          /\ q.kid = sp[s].kid /\ q.file = sp[s].file /\ q.bye = sp[s].bye
          /\ q.eof = sp[s].eof
      BY <3>1 DEF Recs
    <3> QED
      BY <3>3, <3>4, <3>5
  <2> QED
    BY <2>4 DEF a, t
<1>7. /\ Len(sp[s].queue) \in Nat /\ Len(r.queue) = Len(sp[s].queue) + 1
      /\ \A k \in 1 .. Len(sp[s].queue) : r.queue[k] = sp[s].queue[k]
      /\ r.queue[Len(sp[s].queue) + 1] = w
  BY <1>5, <1>6
<1>8. Placed(r)
  <2>1. Len(sp[s].queue) < MaxQueue /\ ~sp[s].bye
    BY <1>1 DEF Sound, Placed
  <2>2. Len(r.queue) <= MaxQueue
    BY <1>7, <2>1
  <2> QED
    BY <1>1, <1>2, <1>6, <2>1, <2>2 DEF Sound, Placed
<1>9. Above(sp[s], w)
  BY <1>1, <1>3 DEF Sound, Sorted
<1>10. ASSUME NEW k \in 1 .. Len(r.queue)
       PROVE  \/ k \in 1 .. Len(sp[s].queue) /\ r.queue[k] = sp[s].queue[k]
              \/ k = Len(sp[s].queue) + 1 /\ r.queue[k] = w
  <2>1. \A n \in Nat : k \in 1 .. (n + 1) => k \in 1 .. n \/ k = n + 1
    OBVIOUS
  <2>2. k \in 1 .. Len(sp[s].queue) \/ k = Len(sp[s].queue) + 1
    BY <1>7, <2>1
  <2>3. CASE k \in 1 .. Len(sp[s].queue)
    BY <1>7, <2>3
  <2>4. CASE k = Len(sp[s].queue) + 1
    BY <1>7, <2>4
  <2> QED
    BY <2>2, <2>3, <2>4
<1>11. Sorted(r)
  <2>1. ASSUME NEW j \in 1 .. Len(r.queue), NEW k \in 1 .. Len(r.queue), j < k
        PROVE  r.queue[j] < r.queue[k]
    <3>1. j \in 1 .. Len(sp[s].queue) /\ r.queue[j] = sp[s].queue[j]
      BY <1>7, <1>10, <2>1
    <3>2. CASE k \in 1 .. Len(sp[s].queue) /\ r.queue[k] = sp[s].queue[k]
      BY <1>1, <2>1, <3>1, <3>2 DEF Sound, Sorted
    <3>3. CASE r.queue[k] = w
      BY <1>9, <3>1, <3>3 DEF Above
    <3> QED
      BY <1>10, <3>2, <3>3
  <2>2. r.file # Nil => \A k \in 1 .. Len(r.queue) : r.file < r.queue[k]
    BY <1>1, <1>6, <1>9, <1>10 DEF Sound, Sorted, Above
  <2>3. \A k \in 1 .. Len(r.down) : r.down[k].op = "play" => Above(r, r.down[k].wave)
    BY <1>1, <1>3, <1>6, <1>10 DEF Sound, Sorted, Above
  <2> QED
    BY <1>2, <1>6, <2>1, <2>2, <2>3 DEF Sorted
<1>12. \A v \in Int : UpTo(sp[s], v) => UpTo(r, v)
  BY <1>2, <1>3, <1>6, <1>10 DEF UpTo
<1>13. Kept(r, disk, failed)
  <2>1. With(sp[s]) \cup {w} \subseteq With(r)
    <3>1. \A k \in 1 .. Len(sp[s].queue) : k \in 1 .. Len(r.queue)
      BY <1>7
    <3>2. Len(sp[s].queue) + 1 \in 1 .. Len(r.queue)
      BY <1>7
    <3> QED
      BY <1>6, <1>7, <3>1, <3>2 DEF With
  <2>2. sp[s].took \cap disk \subseteq failed \cup With(sp[s])
    BY <1>1 DEF Sound, Kept
  <2> QED
    BY <1>6, <2>1, <2>2 DEF Kept
<1>14. r.up + Owed(r) <= sp[s].up + Owed(sp[s])
  <2>1. Owed(r) = Len(sp[s].down) /\ Owed(sp[s]) = Len(sp[s].down)
        /\ Len(sp[s].down) \in Nat /\ sp[s].up \in Nat
    BY <1>1, <1>2, <1>6, OwedIs, OwedType DEF Sound, Placed
  <2> QED
    BY <1>6, <2>1
<1>15. sp' = [sp EXCEPT ![s] = r] /\ UNCHANGED <<mode, cur, pc, cmd, waves>>
  BY <1>3, <1>4 DEF Spooler
<1> QED
  BY <1>1, <1>6, <1>8, <1>11, <1>12, <1>13, <1>14, <1>15, SpoolerStep

(* A command that leaves the queue alone.                                  *)
LEMMA NoteIInv ==
  ASSUME IInv, NEW s \in Spoolers, sp[s].pc = "process", sp[s].line.op # "play",
         NEW b \in BOOLEAN, NEW e \in BOOLEAN,
         b <=> sp[s].line.op = "close", b => e,
         Spooler(s, [sp[s] EXCEPT !.pc = "output", !.line = Blank, !.bye = b, !.eof = e]),
         UNCHANGED <<disk, failed>>
  PROVE  IInv'
<1> USE Ranges
<1>1. sp[s] \in Recs /\ failed \subseteq Waves /\ Sound(sp[s], waves, disk, failed)
  BY DEF IInv, Typed
<1>2. Blank \in Commands /\ Blank.op = ""
  BY CommandTypes DEF Blank
<1>3. PICK r : r = [sp[s] EXCEPT !.pc = "output", !.line = Blank, !.bye = b, !.eof = e]
  OBVIOUS
<1>4. /\ r \in Recs /\ r.pc = "output" /\ r.line = Blank /\ r.down = sp[s].down
      /\ r.in = sp[s].in /\ r.out = sp[s].out /\ r.up = sp[s].up
      /\ r.queue = sp[s].queue /\ r.kid = sp[s].kid /\ r.file = sp[s].file
      /\ r.bye = b /\ r.eof = e /\ r.took = sp[s].took
  BY <1>1, <1>2, <1>3 DEF Recs
<1>5. Placed(r)
  BY <1>1, <1>2, <1>4 DEF Sound, Placed
<1>6. Sorted(r)
  BY <1>1, <1>2, <1>4 DEF Sound, Sorted, Above
<1>7. Kept(r, disk, failed)
  BY <1>1, <1>4 DEF Sound, Kept, With
<1>8. \A v \in Int : UpTo(sp[s], v) => UpTo(r, v)
  BY <1>2, <1>4 DEF UpTo
<1>9. r.up + Owed(r) <= sp[s].up + Owed(sp[s])
  <2>1. Owed(r) = Owed(sp[s])
    BY <1>1, <1>2, <1>4, OwedIs DEF Sound, Placed
  <2>2. Owed(r) \in Nat /\ r.up \in Nat
    BY <1>4, OwedType
  <2> QED
    BY <1>4, <2>1, <2>2
<1>10. sp' = [sp EXCEPT ![s] = r] /\ UNCHANGED <<mode, cur, pc, cmd, waves>>
  BY <1>3 DEF Spooler
<1> QED
  BY <1>1, <1>4, <1>5, <1>6, <1>7, <1>8, <1>9, <1>10, SpoolerStep

(* shutup kills the child and removes the files.                           *)
LEMMA ShutupIInv ==
  ASSUME IInv, NEW s \in Spoolers, sp[s].pc = "process", sp[s].line.op = "shutup",
         NEW q \in Recs, q = [sp[s] EXCEPT !.pc = "output", !.line = Blank],
         Spooler(s, Kill(q)), disk' = disk \ FilesOf(q), UNCHANGED failed
  PROVE  IInv'
<1> USE Ranges
<1>1. sp[s] \in Recs /\ failed \subseteq Waves /\ Sound(sp[s], waves, disk, failed)
  BY DEF IInv, Typed
<1>2. Blank \in Commands /\ Blank.op = ""
  BY CommandTypes DEF Blank
<1>3. /\ q.pc = "output" /\ q.line = Blank /\ q.down = sp[s].down
      /\ q.in = sp[s].in /\ q.out = sp[s].out /\ q.up = sp[s].up
      /\ q.queue = sp[s].queue /\ q.kid = sp[s].kid /\ q.file = sp[s].file
      /\ q.bye = sp[s].bye /\ q.eof = sp[s].eof /\ q.took = sp[s].took
  BY <1>1, <1>2 DEF Recs
<1>4. PICK r : r = Kill(q)
  OBVIOUS
<1>5. PICK k \in {"none", "done"} : k = IF q.kid = "playing" THEN "done" ELSE q.kid
  BY DEF Recs
<1>6. <<>> \in Seq(Waves)
  OBVIOUS
<1>7. /\ r \in Recs /\ r.pc = "output" /\ r.line = Blank /\ r.down = sp[s].down
      /\ r.in = sp[s].in /\ r.out = sp[s].out /\ r.up = sp[s].up
      /\ r.queue = <<>> /\ r.kid # "playing" /\ r.file = sp[s].file
      /\ r.bye = sp[s].bye /\ r.eof = sp[s].eof /\ r.took = sp[s].took
  <2>1. r = [q EXCEPT !.queue = <<>>, !.kid = k]
    BY <1>4, <1>5 DEF Kill
  <2>2. r \in Recs
    BY <2>1, <1>6 DEF Recs
  <2>3. /\ r.pc = q.pc /\ r.line = q.line /\ r.down = q.down /\ r.in = q.in
        /\ r.out = q.out /\ r.up = q.up /\ r.queue = <<>> /\ r.kid = k
        /\ r.file = q.file /\ r.bye = q.bye /\ r.eof = q.eof /\ r.took = q.took
    BY <2>1 DEF Recs
  <2>4. r.kid # "playing"
    BY <1>5, <2>3
  <2> QED
    BY <1>3, <2>2, <2>3, <2>4
<1>8. Len(r.queue) = 0
  BY <1>7
<1>9. Placed(r)
  <2>1. Len(r.queue) <= MaxQueue
    BY <1>8
  <2> QED
    BY <1>1, <1>2, <1>7, <2>1 DEF Sound, Placed
<1>10. \A n \in 1 .. Len(r.queue) : FALSE
  BY <1>8
<1>11. Sorted(r)
  BY <1>1, <1>2, <1>7, <1>10 DEF Sound, Sorted, Above
<1>12. Kept(r, disk', failed)
  <2>1. With(sp[s]) \subseteq FilesOf(q)
    BY <1>3 DEF With, FilesOf
  <2>2. sp[s].took \cap disk \subseteq failed \cup With(sp[s])
    BY <1>1 DEF Sound, Kept
  <2> QED
    BY <1>7, <2>1, <2>2 DEF Kept
<1>13. \A v \in Int : UpTo(sp[s], v) => UpTo(r, v)
  BY <1>2, <1>7, <1>10 DEF UpTo
<1>14. r.up + Owed(r) <= sp[s].up + Owed(sp[s])
  <2>1. Owed(r) = Len(sp[s].down) /\ Owed(sp[s]) = Len(sp[s].down)
        /\ Len(sp[s].down) \in Nat /\ sp[s].up \in Nat
    BY <1>1, <1>2, <1>7, OwedIs, OwedType DEF Sound, Placed
  <2> QED
    BY <1>7, <2>1
<1>15. sp' = [sp EXCEPT ![s] = r] /\ UNCHANGED <<mode, cur, pc, cmd, waves>>
  BY <1>4 DEF Spooler
<1> QED
  BY <1>1, <1>7, <1>9, <1>11, <1>12, <1>13, <1>14, <1>15, SpoolerStep

(* Each command keeps the invariant.                                       *)
LEMMA ProcessIInv == ASSUME IInv, NEW s \in Spoolers, process_command(s) PROVE IInv'
<1> DEFINE c == sp[s].line
           q == [sp[s] EXCEPT !.pc = "output", !.line = Blank]
<1>1. /\ sp[s] \in Recs /\ sp[s].pc = "process" /\ UNCHANGED failed
      /\ Sound(sp[s], waves, disk, failed)
  BY DEF process_command, IInv, Typed
<1>2. Blank \in Commands /\ ~sp[s].bye /\ sp[s].eof \in BOOLEAN
  BY <1>1, CommandTypes DEF Blank, Sound, Placed, Recs
<1>3. q \in Recs /\ q.bye = FALSE /\ q.eof = sp[s].eof
  BY <1>1, <1>2 DEF Recs
<1>4. CASE c.op = "play"
  BY <1>1, <1>3, <1>4, QueueIInv DEF process_command
<1>5. CASE c.op = "close"
  <2>1. Spooler(s, [q EXCEPT !.bye = TRUE, !.eof = TRUE]) /\ UNCHANGED disk
    BY <1>5 DEF process_command
  <2> QED
    BY <1>1, <1>5, <2>1, NoteIInv
<1>6. CASE c.op = ""
  <2>1. Spooler(s, [q EXCEPT !.eof = TRUE]) /\ UNCHANGED disk
    BY <1>6 DEF process_command
  <2>2. [q EXCEPT !.eof = TRUE] =
          [sp[s] EXCEPT !.pc = "output", !.line = Blank, !.bye = FALSE, !.eof = TRUE]
    BY <1>1, <1>2 DEF Recs
  <2> QED
    BY <1>1, <1>6, <2>1, <2>2, NoteIInv
<1>7. CASE c.op = "shutup"
  <2>1. Spooler(s, Kill(q)) /\ disk' = disk \ FilesOf(q)
    BY <1>7 DEF process_command
  <2> QED
    BY <1>1, <1>3, <1>7, <2>1, ShutupIInv
<1>8. CASE c.op \notin {"play", "close", "", "shutup"}
  <2>1. Spooler(s, q) /\ UNCHANGED disk
    BY <1>8 DEF process_command
  <2>2. q = [sp[s] EXCEPT !.pc = "output", !.line = Blank, !.bye = FALSE, !.eof = sp[s].eof]
    BY <1>1, <1>2 DEF Recs
  <2> QED
    BY <1>1, <1>2, <1>8, <2>1, <2>2, NoteIInv
<1> QED
  BY <1>4, <1>5, <1>6, <1>7, <1>8

(* No wave is taken out: the loop goes on, or the child is waited for.     *)
LEMMA LoopIInv ==
  ASSUME IInv, NEW s \in Spoolers, sp[s].pc = "output",
         Spooler(s, Looped(Reaped(sp[s]))), UNCHANGED <<disk, failed>>
  PROVE  IInv'
<1>1. sp[s] \in Recs /\ failed \subseteq Waves /\ Sound(sp[s], waves, disk, failed)
  BY DEF IInv, Typed
<1>2. PICK r : r = Looped(Reaped(sp[s]))
  OBVIOUS
<1>3. PICK k \in {"none", "playing"} : k = IF sp[s].kid = "done" THEN "none" ELSE sp[s].kid
  BY <1>1 DEF Recs
<1>4. PICK q \in Recs : q = [sp[s] EXCEPT !.kid = k]
  BY <1>1, <1>3 DEF Recs
<1>5. PICK l \in {"tidy", "input"} : l = IF q.eof /\ q.queue = <<>> THEN "tidy" ELSE "input"
  OBVIOUS
<1>6. r = [q EXCEPT !.pc = l]
  BY <1>2, <1>3, <1>4, <1>5 DEF Looped, Reaped
<1>7. /\ r \in Recs /\ r.pc = l /\ r.line = sp[s].line /\ r.down = sp[s].down
      /\ r.in = sp[s].in /\ r.out = sp[s].out /\ r.up = sp[s].up
      /\ r.queue = sp[s].queue /\ r.kid = k /\ r.file = sp[s].file
      /\ r.bye = sp[s].bye /\ r.eof = sp[s].eof /\ r.took = sp[s].took
  BY <1>1, <1>4, <1>6 DEF Recs
<1>8. l = "tidy" => r.queue = <<>>
  BY <1>4, <1>5, <1>6, <1>7
<1>9. Placed(r)
  BY <1>1, <1>7, <1>8 DEF Sound, Placed
<1>10. Sorted(r)
  BY <1>1, <1>7 DEF Sound, Sorted, Above
<1>11. Kept(r, disk, failed)
  <2>1. With(r) = With(sp[s])
    BY <1>1, <1>3, <1>7 DEF With
  <2> QED
    BY <1>1, <1>7, <2>1 DEF Sound, Kept
<1>12. \A v \in Int : UpTo(sp[s], v) => UpTo(r, v)
  BY <1>7 DEF UpTo
<1>13. r.up + Owed(r) <= sp[s].up + Owed(sp[s])
  <2>1. Owed(r) = Owed(sp[s])
    BY <1>1, <1>7, OwedIs
  <2>2. Owed(r) \in Nat /\ r.up \in Nat
    BY <1>7, OwedType
  <2> QED
    BY <1>7, <2>1, <2>2
<1>14. sp' = [sp EXCEPT ![s] = r] /\ UNCHANGED <<mode, cur, pc, cmd, waves>>
  BY <1>2 DEF Spooler
<1> QED
  BY <1>1, <1>7, <1>9, <1>10, <1>11, <1>12, <1>13, <1>14, SpoolerStep

(* The next wave is taken out of the queue, for a child or, when the fork  *)
(* fails, for nothing.                                                     *)
LEMMA NextWaveIInv ==
  ASSUME IInv, NEW s \in Spoolers, sp[s].pc = "output", sp[s].kid = "none",
         sp[s].queue # <<>>, NEW k \in {"none", "playing"},
         Spooler(s, Looped([sp[s] EXCEPT !.queue = Tail(@), !.kid = k,
                                         !.file = NextWave(sp[s])])),
         failed' = IF k = "none" THEN failed \cup {NextWave(sp[s])} ELSE failed,
         UNCHANGED disk
  PROVE  IInv'
<1>1. sp[s] \in Recs /\ failed \subseteq Waves /\ Sound(sp[s], waves, disk, failed)
  BY DEF IInv, Typed
<1>2. PICK w : w = NextWave(sp[s])
  OBVIOUS
<1>3. /\ sp[s].queue \in Seq(Waves) /\ Len(sp[s].queue) \in Nat /\ w = sp[s].queue[1]
      /\ w \in Waves /\ 1 \in 1 .. Len(sp[s].queue)
      /\ Tail(sp[s].queue) \in Seq(Waves)
      /\ Len(Tail(sp[s].queue)) = Len(sp[s].queue) - 1
      /\ \A j \in 1 .. Len(Tail(sp[s].queue)) : Tail(sp[s].queue)[j] = sp[s].queue[j + 1]
  <2>1. sp[s].queue \in Seq(Waves) /\ sp[s].queue # <<>>
    BY <1>1 DEF Recs
  <2>2. Len(sp[s].queue) \in Nat /\ Len(sp[s].queue) # 0
    BY <2>1, EmptySeq
  <2>3. w = sp[s].queue[1] /\ 1 \in 1 .. Len(sp[s].queue)
    BY <1>2, <2>1, <2>2 DEF NextWave
  <2>4. w \in Waves
    BY <2>1, <2>3
  <2> QED
    BY <2>1, <2>2, <2>3, <2>4
<1>4. PICK q \in Recs : q = [sp[s] EXCEPT !.queue = Tail(@), !.kid = k, !.file = w]
  BY <1>1, <1>3 DEF Recs
<1>5. PICK l \in {"tidy", "input"} : l = IF q.eof /\ q.queue = <<>> THEN "tidy" ELSE "input"
  OBVIOUS
<1>6. PICK r : r = [q EXCEPT !.pc = l]
  OBVIOUS
<1>7. /\ r \in Recs /\ r.pc = l /\ r.line = sp[s].line /\ r.down = sp[s].down
      /\ r.in = sp[s].in /\ r.out = sp[s].out /\ r.up = sp[s].up
      /\ r.queue = Tail(sp[s].queue) /\ r.kid = k /\ r.file = w
      /\ r.bye = sp[s].bye /\ r.eof = sp[s].eof /\ r.took = sp[s].took
  <2>1. /\ q.line = sp[s].line /\ q.down = sp[s].down
        /\ q.in = sp[s].in /\ q.out = sp[s].out /\ q.up = sp[s].up
        /\ q.queue = Tail(sp[s].queue) /\ q.kid = k /\ q.file = w
        /\ q.bye = sp[s].bye /\ q.eof = sp[s].eof /\ q.took = sp[s].took
    BY <1>1, <1>3, <1>4 DEF Recs
  <2>2. r \in Recs
    BY <1>6 DEF Recs
  <2>3. /\ r.pc = l /\ r.line = q.line /\ r.down = q.down /\ r.in = q.in
        /\ r.out = q.out /\ r.up = q.up /\ r.queue = q.queue /\ r.kid = q.kid
        /\ r.file = q.file /\ r.bye = q.bye /\ r.eof = q.eof /\ r.took = q.took
    BY <1>6 DEF Recs
  <2> QED
    BY <2>1, <2>2, <2>3
<1>8. l = "tidy" => r.queue = <<>>
  BY <1>4, <1>5, <1>7
<1>9. \A j \in 1 .. Len(r.queue) :
        j + 1 \in 1 .. Len(sp[s].queue) /\ j + 1 # 1 /\ r.queue[j] = sp[s].queue[j + 1]
  BY <1>3, <1>7
<1>10. Placed(r)
  <2>1. Len(sp[s].queue) <= MaxQueue
    BY <1>1 DEF Sound, Placed
  <2>2. Len(r.queue) <= MaxQueue
    BY <1>3, <1>7, <2>1, Ranges
  <2> QED
    BY <1>1, <1>7, <1>8, <2>2 DEF Sound, Placed
<1>11. \A j \in 1 .. Len(r.queue) : w < r.queue[j]
  <2> SUFFICES ASSUME NEW j \in 1 .. Len(r.queue) PROVE w < r.queue[j]
    OBVIOUS
  <2>1. j + 1 \in 1 .. Len(sp[s].queue) /\ 1 < j + 1 /\ r.queue[j] = sp[s].queue[j + 1]
    BY <1>9
  <2> QED
    BY <1>1, <1>3, <2>1 DEF Sound, Sorted
<1>12. \A i, j \in 1 .. Len(r.queue) : i < j => r.queue[i] < r.queue[j]
  <2> SUFFICES ASSUME NEW i \in 1 .. Len(r.queue), NEW j \in 1 .. Len(r.queue), i < j
               PROVE  r.queue[i] < r.queue[j]
    OBVIOUS
  <2>1. /\ i + 1 \in 1 .. Len(sp[s].queue) /\ j + 1 \in 1 .. Len(sp[s].queue) /\ i + 1 < j + 1
        /\ r.queue[i] = sp[s].queue[i + 1] /\ r.queue[j] = sp[s].queue[j + 1]
    BY <1>9
  <2> QED
    BY <1>1, <2>1 DEF Sound, Sorted
<1>13. ASSUME NEW v, Above(sp[s], v) PROVE Above(r, v)
  BY <1>3, <1>7, <1>9, <1>13 DEF Above
<1>14. Sorted(r)
  BY <1>1, <1>7, <1>11, <1>12, <1>13 DEF Sound, Sorted
<1>15. Kept(r, disk, failed')
  <2>1. \A x \in With(sp[s]) : \E j \in 1 .. Len(sp[s].queue) : x = sp[s].queue[j]
    BY DEF With
  <2>2. ASSUME NEW j \in 1 .. Len(sp[s].queue)
        PROVE  j = 1 \/ (j - 1 \in 1 .. Len(r.queue) /\ r.queue[j - 1] = sp[s].queue[j])
    BY <1>3, <1>7
  <2>3. With(sp[s]) \subseteq {w} \cup With(r)
    <3> SUFFICES ASSUME NEW x \in With(sp[s]) PROVE x = w \/ x \in With(r)
      OBVIOUS
    <3>1. PICK j \in 1 .. Len(sp[s].queue) : x = sp[s].queue[j]
      BY <2>1
    <3>2. CASE j = 1
      BY <1>3, <3>1, <3>2
    <3>3. CASE j - 1 \in 1 .. Len(r.queue) /\ r.queue[j - 1] = x
      BY <3>3 DEF With
    <3> QED
      BY <2>2, <3>1, <3>2, <3>3
  <2>4. w \in failed' \cup With(r) /\ failed \subseteq failed'
    BY <1>2, <1>7 DEF With
  <2>5. sp[s].took \cap disk \subseteq failed \cup With(sp[s])
    BY <1>1 DEF Sound, Kept
  <2> QED
    BY <1>7, <2>3, <2>4, <2>5 DEF Kept
<1>16. \A v \in Int : UpTo(sp[s], v) => UpTo(r, v)
  BY <1>3, <1>7, <1>9 DEF UpTo
<1>17. r.up + Owed(r) <= sp[s].up + Owed(sp[s])
  <2>1. Owed(r) = Owed(sp[s])
    BY <1>1, <1>7, OwedIs
  <2>2. Owed(r) \in Nat /\ r.up \in Nat
    BY <1>7, OwedType
  <2> QED
    BY <1>7, <2>1, <2>2
<1>18. sp' = [sp EXCEPT ![s] = r] /\ UNCHANGED <<mode, cur, pc, cmd, waves>>
  BY <1>2, <1>4, <1>5, <1>6 DEF Spooler, Looped
<1>19. failed \subseteq failed' /\ failed' \subseteq Waves
  BY <1>1, <1>2, <1>3
<1> QED
  BY <1>1, <1>7, <1>10, <1>14, <1>15, <1>16, <1>17, <1>18, <1>19, SpoolerStep

(* A child is waited for, or the next wave is taken from the queue.        *)
LEMMA OutputIInv == ASSUME IInv, NEW s \in Spoolers, check_new_output(s) PROVE IInv'
<1>1. sp[s].pc = "output" /\ UNCHANGED disk
  BY DEF check_new_output
<1>2. CASE Spooler(s, Looped(Reaped(sp[s]))) /\ UNCHANGED failed
  BY <1>1, <1>2, LoopIInv
<1>3. CASE /\ sp[s].kid = "none" /\ sp[s].queue # <<>>
           /\ Spooler(s, Looped([sp[s] EXCEPT !.queue = Tail(@), !.kid = "playing",
                                              !.file = NextWave(sp[s])]))
           /\ UNCHANGED failed
  BY <1>1, <1>3, NextWaveIInv
<1>4. CASE /\ sp[s].kid = "none" /\ sp[s].queue # <<>>
           /\ Spooler(s, Looped([sp[s] EXCEPT !.queue = Tail(@), !.file = NextWave(sp[s])]))
           /\ failed' = failed \cup {NextWave(sp[s])}
  <2>1. sp[s] \in Recs
    BY DEF IInv, Typed
  <2>2. [sp[s] EXCEPT !.queue = Tail(@), !.file = NextWave(sp[s])] =
          [sp[s] EXCEPT !.queue = Tail(@), !.kid = "none", !.file = NextWave(sp[s])]
    BY <1>4, <2>1 DEF Recs
  <2> QED
    BY <1>1, <1>4, <2>2, NextWaveIInv
<1> QED
  BY <1>2, <1>3, <1>4 DEF check_new_output

(* The last confirmation is the one that close is owed.                    *)
LEMMA TidyIInv == ASSUME IInv, NEW s \in Spoolers, tidy_up(s) PROVE IInv'
<1>1. /\ sp[s] \in Recs /\ sp[s].pc = "tidy" /\ failed \subseteq Waves
      /\ UNCHANGED <<disk, failed>> /\ Sound(sp[s], waves, disk, failed)
      /\ sp[s].bye => sp[s].kid # "playing"
  BY DEF tidy_up, Ready, IInv, Typed
<1>2. sp[s].line.op # "close" /\ sp[s].queue = <<>>
  BY <1>1 DEF Sound, Placed
<1>3. CASE sp[s].bye
  <2>1. PICK q \in Recs : q = [sp[s] EXCEPT !.pc = "exiting", !.kid = "none"]
    BY <1>1 DEF Recs
  <2>2. /\ q.pc = "exiting" /\ q.line = sp[s].line /\ q.down = sp[s].down
        /\ q.in = sp[s].in /\ q.out = sp[s].out /\ q.up = sp[s].up
        /\ q.queue = sp[s].queue /\ q.kid = "none" /\ q.file = sp[s].file
        /\ q.bye = sp[s].bye /\ q.eof = sp[s].eof /\ q.took = sp[s].took
    BY <1>1, <2>1 DEF Recs
  <2>3. Placed(q) /\ Sorted(q)
    BY <1>1, <1>2, <2>2 DEF Sound, Placed, Sorted, Above
  <2>4. Kept(q, disk, failed)
    <3>1. With(q) = With(sp[s])
      BY <1>1, <1>3, <2>2 DEF With
    <3> QED
      BY <1>1, <2>2, <3>1 DEF Sound, Kept
  <2>5. \A v \in Int : UpTo(sp[s], v) => UpTo(q, v)
    BY <2>2 DEF UpTo
  <2>6. Spooler(s, Confirm(q))
    <3>1. q = [[sp[s] EXCEPT !.pc = "exiting"] EXCEPT !.kid = "none"]
      BY <2>1
    <3> QED
      BY <1>1, <1>3, <2>2, <3>1 DEF tidy_up
  <2>7. CASE q.out
    <3>1. PICK r : r = [q EXCEPT !.up = @ + 1]
      OBVIOUS
    <3>2. /\ r \in Recs /\ r.pc = q.pc /\ r.line = q.line /\ r.down = q.down
          /\ r.in = q.in /\ r.out = q.out /\ r.up = q.up + 1
          /\ r.queue = q.queue /\ r.kid = q.kid /\ r.file = q.file
          /\ r.bye = q.bye /\ r.eof = q.eof /\ r.took = q.took
      BY <3>1, UpFields
    <3>3. Placed(r) /\ Sorted(r) /\ Kept(r, disk, failed)
      BY <2>3, <2>4, <3>2 DEF Placed, Sorted, Above, Kept, With
    <3>4. \A v \in Int : UpTo(sp[s], v) => UpTo(r, v)
      BY <2>5, <3>2 DEF UpTo
    <3>5. r.up + Owed(r) <= sp[s].up + Owed(sp[s])
      <4>1. /\ Owed(r) = Len(sp[s].down) /\ Owed(sp[s]) = Len(sp[s].down) + 1
            /\ Len(sp[s].down) \in Nat /\ sp[s].up \in Nat
        BY <1>1, <1>2, <1>3, <2>2, <3>2, OwedIs, OwedType
      <4> QED
        BY <2>2, <3>2, <4>1
    <3>6. sp' = [sp EXCEPT ![s] = r] /\ UNCHANGED <<mode, cur, pc, cmd, waves>>
      BY <2>6, <2>7, <3>1 DEF Spooler, Confirm
    <3> QED
      BY <1>1, <2>2, <3>2, <3>3, <3>4, <3>5, <3>6, SpoolerStep
  <2>8. CASE ~q.out
    <3>1. Spooler(s, Dead(q))
      BY <2>6, <2>8 DEF Confirm
    <3> QED
      BY <1>1, <1>2, <2>2, <2>3, <2>4, <2>5, <3>1, DeadStep DEF Placed, Sorted
  <2> QED
    BY <2>7, <2>8
<1>4. CASE ~sp[s].bye
  <2>1. PICK r \in Recs : r = [sp[s] EXCEPT !.pc = "exiting"]
    BY <1>1 DEF Recs
  <2>2. /\ r.pc = "exiting" /\ r.line = sp[s].line /\ r.down = sp[s].down
        /\ r.in = sp[s].in /\ r.out = sp[s].out /\ r.up = sp[s].up
        /\ r.queue = sp[s].queue /\ r.kid = sp[s].kid /\ r.file = sp[s].file
        /\ r.bye = sp[s].bye /\ r.eof = sp[s].eof /\ r.took = sp[s].took
    BY <1>1, <2>1 DEF Recs
  <2>3. Placed(r) /\ Sorted(r) /\ Kept(r, disk, failed)
    BY <1>1, <1>2, <1>4, <2>2 DEF Sound, Placed, Sorted, Above, Kept, With
  <2>4. \A v \in Int : UpTo(sp[s], v) => UpTo(r, v)
    BY <2>2 DEF UpTo
  <2>5. r.up + Owed(r) <= sp[s].up + Owed(sp[s])
    <3>1. Owed(r) = Owed(sp[s])
      BY <1>1, <1>2, <1>4, <2>2, OwedIs
    <3>2. Owed(r) \in Nat /\ r.up \in Nat
      BY OwedType
    <3> QED
      BY <2>2, <3>1, <3>2
  <2>6. sp' = [sp EXCEPT ![s] = r] /\ UNCHANGED <<mode, cur, pc, cmd, waves>>
    <3>1. ~[sp[s] EXCEPT !.pc = "exiting"].bye
      BY <1>1, <1>4 DEF Recs
    <3> QED
      BY <2>1, <3>1 DEF tidy_up, Spooler
  <2> QED
    BY <1>1, <2>2, <2>3, <2>4, <2>5, <2>6, SpoolerStep
<1> QED
  BY <1>3, <1>4

(* The child plays its wave to the end, whatever became of its parent.     *)
LEMMA ChildIInv == ASSUME IInv, NEW s \in Spoolers, load_play_file(s) PROVE IInv'
<1>1. /\ sp[s] \in Recs /\ sp[s].kid = "playing" /\ failed \subseteq Waves
      /\ disk' = disk \ {sp[s].file} /\ UNCHANGED failed
      /\ Sound(sp[s], waves, disk, failed)
  BY DEF load_play_file, IInv, Typed
<1>2. PICK r \in Recs : r = [sp[s] EXCEPT !.kid = "done"]
  BY <1>1 DEF Recs
<1>3. /\ r.pc = sp[s].pc /\ r.line = sp[s].line /\ r.down = sp[s].down
      /\ r.in = sp[s].in /\ r.out = sp[s].out /\ r.up = sp[s].up
      /\ r.queue = sp[s].queue /\ r.kid = "done" /\ r.file = sp[s].file
      /\ r.bye = sp[s].bye /\ r.eof = sp[s].eof /\ r.took = sp[s].took
  BY <1>1, <1>2 DEF Recs
<1>4. Placed(r) /\ Sorted(r)
  BY <1>1, <1>3 DEF Sound, Placed, Sorted, Above
<1>5. Kept(r, disk', failed)
  BY <1>1, <1>3 DEF Sound, Kept, With
<1>6. \A v \in Int : UpTo(sp[s], v) => UpTo(r, v)
  BY <1>3 DEF UpTo
<1>7. r.up + Owed(r) <= sp[s].up + Owed(sp[s])
  <2>1. Owed(r) = Owed(sp[s])
    BY <1>1, <1>3, OwedIs
  <2>2. Owed(r) \in Nat /\ r.up \in Nat
    BY OwedType
  <2> QED
    BY <1>3, <2>1, <2>2
<1>8. sp' = [sp EXCEPT ![s] = r] /\ UNCHANGED <<mode, cur, pc, cmd, waves>>
  BY <1>2 DEF load_play_file, Spooler
<1> QED
  BY <1>1, <1>3, <1>4, <1>5, <1>6, <1>7, <1>8, SpoolerStep
-----------------------------------------------------------------------------
(* A step of Festival that changes the spooler it talks to, if any.        *)
LEMMA FestivalStep ==
  ASSUME IInv, Typed', Connected', Counted', Fresh', UNCHANGED <<waves, disk, failed>>,
         NEW c \in Spoolers, \A s \in Spoolers : s # c => sp'[s] = sp[s],
         Placed(sp'[c]), Sorted(sp'[c]), UpTo(sp'[c], waves), Kept(sp'[c], disk, failed)
  PROVE  IInv'
<1>1. ASSUME NEW s \in Spoolers PROVE Sound(sp'[s], waves, disk, failed)
  <2>1. CASE s = c
    BY <2>1 DEF Sound
  <2>2. CASE s # c
    BY <2>2 DEF IInv
  <2> QED
    BY <2>1, <2>2
<1> QED
  BY <1>1 DEF IInv

(* A step of Festival that leaves the spoolers alone.                      *)
LEMMA QuietStep ==
  ASSUME IInv, Typed', Connected', Counted', Fresh', UNCHANGED <<waves, disk, failed, sp>>
  PROVE  IInv'
  BY DEF IInv

(* Festival finds the spooler alive or dead.                               *)
LEMMA SendIInv == ASSUME IInv, audsp_send PROVE IInv'
<1>1. Typed'
  BY CommandTypes DEF IInv, Typed, audsp_send, Blank
<1>2. Connected' /\ Counted'
  BY DEF IInv, Connected, Counted, MaySend, audsp_send
<1>3. Fresh'
  BY DEF IInv, Fresh, audsp_send
<1> QED
  BY <1>1, <1>2, <1>3, QuietStep DEF audsp_send

(* The command is all that is in the pipe, and owed an answer.             *)
LEMMA WriteIInv == ASSUME IInv, write PROVE IInv'
<1> USE Ranges
<1>1. /\ pc = "write" /\ cur \in Spoolers /\ sp[cur] \in Recs /\ sp[cur].in /\ cmd \in Commands
      /\ Sound(sp[cur], waves, disk, failed) /\ waves \in Nat
      /\ UNCHANGED <<mode, cur, cmd, waves, disk, failed>>
  BY DEF IInv, Typed, Connected, write
<1>2. CASE ~Alive(cur)
  <2>1. pc' = "killed" /\ UNCHANGED sp
    BY <1>1, <1>2 DEF write
  <2>2. Typed' /\ Connected' /\ Counted' /\ Fresh'
    BY <1>1, <2>1 DEF IInv, Typed, Connected, Counted, Fresh, MaySend
  <2> QED
    BY <1>1, <2>1, <2>2, QuietStep
<1>3. CASE Alive(cur)
  <2>1. /\ pc' = "newline"
        /\ sp' = [sp EXCEPT ![cur].down = Append(@, cmd), ![cur].cut = TRUE]
    BY <1>1, <1>3 DEF write
  <2>2. sp[cur].up + Owed(sp[cur]) = 0 /\ cur > 0
    BY <1>1 DEF IInv, Counted, MaySend
  <2>3. /\ sp[cur].up = 0 /\ Len(sp[cur].down) = 0 /\ sp[cur].line.op # "close"
        /\ sp[cur].bye => sp[cur].pc \notin {"output", "input", "tidy"}
    <3>1. sp[cur].up \in Nat /\ Owed(sp[cur]) \in Nat
      BY <1>1, OwedType
    <3>2. sp[cur].up = 0 /\ Owed(sp[cur]) = 0
      <4> HIDE DEF Owed
      <4>1. \A m, n \in Nat : m + n = 0 => m = 0 /\ n = 0
        OBVIOUS
      <4> QED
        BY <2>2, <3>1, <4>1
    <3> QED
      BY <1>1, <3>2, OwedIs
  <2>4. Append(sp[cur].down, cmd) = <<cmd>> /\ <<cmd>> \in Seq(Commands) /\ Len(<<cmd>>) = 1
        /\ <<cmd>>[1] = cmd
    <3>1. sp[cur].down \in Seq(Commands)
      BY <1>1 DEF Recs
    <3>2. sp[cur].down = <<>>
      BY <2>3, <3>1, EmptySeq
    <3> QED
      BY <1>1, <3>2
  <2>5. PICK r \in Recs : r = [sp[cur] EXCEPT !.down = <<cmd>>, !.cut = TRUE]
    <3>1. sp[cur] \in Recs /\ <<cmd>> \in Seq(Commands)
      BY <1>1, <2>4
    <3>2. [sp[cur] EXCEPT !.down = <<cmd>>, !.cut = TRUE] \in Recs
      BY <3>1 DEF Recs
    <3> QED
      BY <3>2
  <2>6. /\ r.pc = sp[cur].pc /\ r.line = sp[cur].line /\ r.down = <<cmd>>
        /\ r.in = sp[cur].in /\ r.out = sp[cur].out /\ r.up = 0
        /\ r.queue = sp[cur].queue /\ r.kid = sp[cur].kid /\ r.file = sp[cur].file
        /\ r.bye = sp[cur].bye /\ r.eof = sp[cur].eof /\ r.took = sp[cur].took
    <3>1. sp[cur] \in Recs
      BY <1>1
    <3>2. /\ r.pc = sp[cur].pc /\ r.line = sp[cur].line /\ r.down = <<cmd>>
          /\ r.in = sp[cur].in /\ r.out = sp[cur].out /\ r.up = sp[cur].up
          /\ r.queue = sp[cur].queue /\ r.kid = sp[cur].kid
      BY <3>1, <2>5 DEF Recs
    <3>3. /\ r.file = sp[cur].file /\ r.bye = sp[cur].bye
          /\ r.eof = sp[cur].eof /\ r.took = sp[cur].took
      BY <3>1, <2>5 DEF Recs
    <3> QED
      BY <2>3, <3>2, <3>3
  <2>7. sp' = [sp EXCEPT ![cur] = r]
    BY <1>1, <2>1, <2>4, <2>5 DEF IInv, Typed
  <2>8. sp'[cur] = r /\ \A s \in Spoolers : s # cur => sp'[s] = sp[s]
    BY <1>1, <2>7 DEF IInv, Typed
  <2>9. Placed(r)
    BY <1>1, <1>3, <2>4, <2>6 DEF Sound, Placed, Alive
  <2>10. cmd.op = "play" =>
           cmd.wave = waves /\ Above(sp[cur], waves)
           /\ (sp[cur].line.op = "play" => sp[cur].line.wave < waves)
    <3> SUFFICES ASSUME cmd.op = "play"
                 PROVE  /\ cmd.wave = waves /\ Above(sp[cur], waves)
                        /\ sp[cur].line.op = "play" => sp[cur].line.wave < waves
      OBVIOUS
    <3>1. cmd.wave = waves /\ UpTo(sp[cur], waves - 1)
      BY <1>1 DEF IInv, Fresh
    <3>2. sp[cur].queue \in Seq(Waves) /\ sp[cur].file \in Waves \cup {Nil}
          /\ (sp[cur].line.op = "play" => sp[cur].line.wave \in Waves)
      BY <1>1, CommandTypes DEF Recs
    <3>3. \A x \in Waves : x <= waves - 1 => x < waves
      BY <1>1
    <3>4. \A k \in 1 .. Len(sp[cur].queue) : sp[cur].queue[k] \in Waves
      BY <3>2
    <3> QED
      BY <3>1, <3>2, <3>3, <3>4 DEF UpTo, Above
  <2>11. Sorted(r)
    BY <1>1, <2>4, <2>6, <2>10 DEF Sound, Sorted, Above
  <2>12. UpTo(r, waves)
    BY <1>1, <2>4, <2>6, <2>10 DEF Sound, UpTo
  <2>13. Kept(r, disk, failed)
    BY <1>1, <2>6 DEF Sound, Kept, With
  <2>14. r.up + Owed(r) = 1
    <3>1. Owed(r) = Len(r.down) /\ Len(r.down) = 1
      BY <2>3, <2>4, <2>6, OwedIs
    <3> QED
      BY <2>6, <3>1
  <2>15. Typed'
    BY <1>1, <2>1, <2>7 DEF IInv, Typed
  <2>16. Connected'
    BY <1>1, <2>1, <2>6, <2>8 DEF Connected
  <2>17. Counted'
    <3>1. cur' = cur /\ pc' = "newline" /\ sp'[cur'].up + Owed(sp'[cur']) = 1
      BY <1>1, <2>1, <2>8, <2>14
    <3> QED
      BY <3>1 DEF Counted, MaySend
  <2>18. Fresh'
    BY <2>1 DEF Fresh
  <2> QED
    BY <1>1, <2>8, <2>9, <2>11, <2>12, <2>13, <2>15, <2>16, <2>17, <2>18, FestivalStep
<1> QED
  BY <1>2, <1>3

(* The end of the line arrives, or finds nobody to read it.                *)
LEMMA NewlineIInv == ASSUME IInv, newline PROVE IInv'
<1> USE Ranges
<1>1. /\ pc = "newline" /\ cur \in Spoolers /\ sp[cur] \in Recs /\ sp[cur].in
      /\ cur > 0 /\ Sound(sp[cur], waves, disk, failed)
      /\ UNCHANGED <<mode, cur, cmd, waves, disk, failed>>
  BY DEF IInv, Typed, Connected, newline
<1>2. CASE ~Alive(cur)
  <2>1. pc' = "killed" /\ UNCHANGED sp
    BY <1>1, <1>2 DEF newline
  <2>2. Typed' /\ Connected' /\ Counted' /\ Fresh'
    BY <1>1, <2>1 DEF IInv, Typed, Connected, Counted, Fresh, MaySend
  <2> QED
    BY <1>1, <2>1, <2>2, QuietStep
<1>3. CASE Alive(cur)
  <2>1. pc' = "read" /\ sp' = [sp EXCEPT ![cur].cut = FALSE]
    BY <1>1, <1>3 DEF newline
  <2>2. PICK r \in Recs : r = [sp[cur] EXCEPT !.cut = FALSE]
    BY <1>1 DEF Recs
  <2>3. /\ r.pc = sp[cur].pc /\ r.line = sp[cur].line /\ r.down = sp[cur].down
        /\ r.in = sp[cur].in /\ r.out = sp[cur].out /\ r.up = sp[cur].up
        /\ r.queue = sp[cur].queue /\ r.kid = sp[cur].kid /\ r.file = sp[cur].file
        /\ r.bye = sp[cur].bye /\ r.eof = sp[cur].eof /\ r.took = sp[cur].took
    BY <1>1, <2>2 DEF Recs
  <2>4. sp' = [sp EXCEPT ![cur] = r]
    BY <1>1, <2>1, <2>2 DEF IInv, Typed
  <2>5. sp'[cur] = r /\ \A s \in Spoolers : s # cur => sp'[s] = sp[s]
    BY <1>1, <2>4 DEF IInv, Typed
  <2>6. Placed(r) /\ Sorted(r) /\ UpTo(r, waves) /\ Kept(r, disk, failed)
    BY <1>1, <2>3 DEF Sound, Placed, Sorted, Above, UpTo, Kept, With
  <2>7. Typed'
    BY <1>1, <2>1, <2>4 DEF IInv, Typed
  <2>8. Connected'
    BY <1>1, <2>1, <2>3, <2>5 DEF Connected
  <2>9. Counted'
    <3>1. Owed(r) = Owed(sp[cur])
      BY <1>1, <2>3, OwedIs
    <3>2. sp[cur].up + Owed(sp[cur]) <= 1
      BY <1>1 DEF IInv, Counted
    <3> QED
      BY <1>1, <2>1, <2>3, <2>5, <3>1, <3>2 DEF Counted, MaySend
  <2>10. Fresh'
    BY <2>1 DEF Fresh
  <2> QED
    BY <1>1, <2>5, <2>6, <2>7, <2>8, <2>9, <2>10, FestivalStep
<1> QED
  BY <1>2, <1>3

(* The answer that was due is taken; a spooler that is gone owes none.     *)
LEMMA ReadIInv == ASSUME IInv, read PROVE IInv'
<1> USE Ranges
<1>1. /\ pc = "read" /\ pc' = "lisp" /\ cur \in Spoolers /\ sp[cur] \in Recs /\ sp[cur].in
      /\ cur > 0 /\ Sound(sp[cur], waves, disk, failed) /\ cmd' = Blank
      /\ UNCHANGED <<cur, waves, disk, failed>>
  BY DEF IInv, Typed, Connected, read
<1>2. mode' \in BOOLEAN /\ cmd' \in Commands
  BY CommandTypes DEF IInv, Typed, read, Blank
<1>3. sp[cur].up \in Nat /\ Owed(sp[cur]) \in Nat /\ sp[cur].up + Owed(sp[cur]) <= 1
  BY <1>1, OwedType DEF IInv, Counted
<1>4. CASE sp[cur].up > 0
  <2>1. sp' = [sp EXCEPT ![cur].up = @ - 1]
    BY <1>4 DEF read
  <2>2. sp[cur].up - 1 \in Nat
    BY <1>3, <1>4
  <2>3. PICK r \in Recs : r = [sp[cur] EXCEPT !.up = @ - 1]
    BY <1>1, <2>2 DEF Recs
  <2>4. /\ r.pc = sp[cur].pc /\ r.line = sp[cur].line /\ r.down = sp[cur].down
        /\ r.in = sp[cur].in /\ r.out = sp[cur].out /\ r.up = sp[cur].up - 1
        /\ r.queue = sp[cur].queue /\ r.kid = sp[cur].kid /\ r.file = sp[cur].file
        /\ r.bye = sp[cur].bye /\ r.eof = sp[cur].eof /\ r.took = sp[cur].took
    BY <1>1, <2>3 DEF Recs
  <2>5. sp' = [sp EXCEPT ![cur] = r]
    BY <1>1, <2>1, <2>3 DEF IInv, Typed
  <2>6. sp'[cur] = r /\ \A s \in Spoolers : s # cur => sp'[s] = sp[s]
    BY <1>1, <2>5 DEF IInv, Typed
  <2>7. Placed(r) /\ Sorted(r) /\ UpTo(r, waves) /\ Kept(r, disk, failed)
    BY <1>1, <2>4 DEF Sound, Placed, Sorted, Above, UpTo, Kept, With
  <2>8. r.up + Owed(r) = 0
    <3>1. Owed(r) = Owed(sp[cur])
      BY <1>1, <2>4, OwedIs
    <3>2. \A m, n \in Nat : m > 0 /\ m + n <= 1 => (m - 1) + n = 0
      OBVIOUS
    <3> QED
      BY <1>3, <1>4, <2>4, <3>1, <3>2
  <2>9. Typed'
    BY <1>1, <1>2, <2>5 DEF IInv, Typed
  <2>10. Connected'
    BY <1>1, <2>4, <2>6 DEF Connected
  <2>11. Counted'
    BY <1>1, <2>6, <2>8 DEF Counted
  <2>12. Fresh'
    BY <1>1 DEF Fresh
  <2> QED
    BY <1>1, <2>6, <2>7, <2>9, <2>10, <2>11, <2>12, FestivalStep
<1>5. CASE ~(sp[cur].up > 0)
  <2>1. UNCHANGED sp /\ sp[cur].pc \in {"none", "gone", "shot"}
    BY <1>5 DEF read, Alive
  <2>2. sp[cur].up + Owed(sp[cur]) = 0
    <3>1. sp[cur].up = 0
      BY <1>3, <1>5
    <3>2. Owed(sp[cur]) = Len(sp[cur].down) /\ sp[cur].down = <<>>
      BY <1>1, <2>1, OwedIs DEF Sound, Placed
    <3>3. Len(<<>>) = 0
      OBVIOUS
    <3> QED
      BY <3>1, <3>2, <3>3
  <2>3. Typed'
    BY <1>1, <1>2, <2>1 DEF IInv, Typed
  <2>4. Connected'
    BY <1>1, <2>1 DEF Connected
  <2>5. Counted'
    BY <1>1, <2>1, <2>2 DEF Counted
  <2>6. Fresh'
    BY <1>1 DEF Fresh
  <2> QED
    BY <1>1, <2>1, <2>3, <2>4, <2>5, <2>6, QuietStep
<1> QED
  BY <1>4, <1>5

(* A spooler that was not, or just, started: it has nothing and owes       *)
(* nothing.                                                                *)
LEMMA NewSpooler ==
  ASSUME NEW p \in {"none", "start"}, NEW b \in BOOLEAN, NEW r, NEW w, NEW d, NEW f,
         r = [NotStarted EXCEPT !.pc = p, !.in = b, !.out = b]
  PROVE  r \in Recs /\ r.in = b /\ Sound(r, w, d, f) /\ r.up + Owed(r) = 0
<1> USE Ranges
<1>1. Blank \in Commands /\ Blank.op = ""
  BY CommandTypes DEF Blank
<1>2. <<>> \in Seq(Waves) /\ <<>> \in Seq(Commands) /\ Len(<<>>) = 0
  OBVIOUS
<1>3. /\ r.pc = p /\ r.line = Blank /\ r.down = <<>> /\ r.in = b
      /\ r.out = b /\ r.up = 0 /\ r.queue = <<>> /\ r.kid = "none" /\ r.file = Nil
      /\ r.bye = FALSE /\ r.eof = FALSE /\ r.took = {}
  BY DEF NotStarted
<1>4. r \in Recs
  BY <1>1, <1>2 DEF NotStarted, Recs
<1>5. /\ Len(r.queue) = 0 /\ Len(r.down) = 0 /\ r.line.op = ""
      /\ \A k \in 1 .. Len(r.queue) : FALSE
      /\ \A k \in 1 .. Len(r.down) : FALSE
  <2>1. Len(r.queue) = 0 /\ Len(r.down) = 0
    BY <1>2, <1>3
  <2>2. r.line.op = ""
    BY <1>1, <1>3
  <2>3. \A k \in 1 .. 0 : FALSE
    OBVIOUS
  <2> QED
    BY <2>1, <2>2, <2>3
<1>6. Placed(r)
  <2>1. 0 <= 1 /\ 0 <= MaxQueue /\ 0 < MaxQueue
    OBVIOUS
  <2> QED
    BY <1>3, <1>5, <2>1 DEF Placed
<1>7. Sorted(r)
  BY <1>3, <1>5 DEF Sorted
<1>8. UpTo(r, w)
  BY <1>3, <1>5 DEF UpTo
<1>9. Kept(r, d, f)
  BY <1>3 DEF Kept
<1>10. Owed(r) = Len(r.down)
  BY <1>3, <1>4, <1>5, OwedIs
<1>11. r.up + Owed(r) = 0
  <2>1. r.up = 0 /\ Owed(r) = 0
    BY <1>3, <1>5, <1>10
  <2> QED
    BY <2>1
<1>12. Sound(r, w, d, f)
  BY <1>6, <1>7, <1>8, <1>9 DEF Sound
<1> QED
  BY <1>3, <1>4, <1>11, <1>12

(* A spooler is started with nothing in its pipes.                         *)
LEMMA AsyncIInv == ASSUME IInv, NEW options \in BOOLEAN, async(options) PROVE IInv'
<1> USE Ranges
<1>1. cur' = cur + 1 /\ cur' \in Spoolers /\ cur' > 0 /\ UNCHANGED <<waves, disk, failed>>
  BY DEF IInv, Typed, async
<1>2. Op("method") \in Commands /\ Op("method").op = "method"
  BY CommandTypes
<1>3. /\ pc' \in {"lisp", "send"} /\ cmd' \in Commands /\ mode' \in BOOLEAN
      /\ pc' = "send" => cmd'.op = "method"
  <2>1. CASE options
    BY <1>2, <2>1 DEF IInv, Typed, async
  <2>2. CASE ~options
    BY <2>2 DEF IInv, Typed, async
  <2> QED
    BY <2>1, <2>2
<1>4. PICK r : r = [NotStarted EXCEPT !.pc = "start", !.in = TRUE, !.out = TRUE]
  OBVIOUS
<1>5. r \in Recs /\ r.in /\ Sound(r, waves, disk, failed) /\ r.up + Owed(r) = 0
  BY <1>4, NewSpooler
<1>6. sp' = [sp EXCEPT ![cur'] = r]
  BY <1>1, <1>4 DEF async
<1>7. sp'[cur'] = r /\ \A s \in Spoolers : s # cur' => sp'[s] = sp[s]
  BY <1>1, <1>6 DEF IInv, Typed
<1>8. Typed'
  <2>1. sp' \in [Spoolers -> Recs]
    BY <1>5, <1>6 DEF IInv, Typed
  <2>2. cur' \in 0 .. MaxStarts
    BY <1>1
  <2> QED
    BY <1>1, <1>3, <2>1, <2>2 DEF IInv, Typed
<1>9. Connected'
  BY <1>1, <1>3, <1>5, <1>7 DEF Connected
<1>10. Counted'
  BY <1>5, <1>7 DEF Counted
<1>11. Fresh'
  BY <1>3 DEF Fresh
<1> QED
  BY <1>1, <1>5, <1>7, <1>8, <1>9, <1>10, <1>11, FestivalStep DEF Sound

(* A wave gets a number that no spooler knows.                             *)
LEMMA PlayIInv == ASSUME IInv, audsp_play_wave PROVE IInv'
<1> USE Ranges
<1>1. /\ pc = "lisp" /\ mode /\ waves' = waves + 1 /\ disk' = disk \cup {waves + 1}
      /\ pc' = "send" /\ cmd' = Play(waves + 1) /\ UNCHANGED <<mode, cur, failed, sp>>
      /\ waves \in Nat /\ waves + 1 \in Waves
  BY DEF IInv, Typed, audsp_play_wave, Send
<1>2. cmd' \in Commands /\ cmd'.wave = waves + 1
  BY <1>1, CommandTypes
<1>3. Typed'
  BY <1>1, <1>2 DEF IInv, Typed
<1>4. Connected' /\ Counted'
  BY <1>1 DEF IInv, Connected, Counted, MaySend
<1>5. cur \in Spoolers
  BY <1>1 DEF IInv, Connected
<1>6. Fresh'
  <2>1. UpTo(sp[cur], waves) /\ waves = (waves + 1) - 1
    BY <1>1, <1>5 DEF IInv, Sound
  <2> QED
    BY <1>1, <1>2, <2>1 DEF Fresh
<1>7. ASSUME NEW s \in Spoolers PROVE Sound(sp[s], waves + 1, disk', failed)
  <2>1. sp[s] \in Recs /\ Sound(sp[s], waves, disk, failed)
    BY DEF IInv, Typed
  <2>2. /\ sp[s].queue \in Seq(Waves) /\ sp[s].down \in Seq(Commands)
        /\ sp[s].took \subseteq Waves /\ sp[s].line \in Commands /\ sp[s].file \in Waves \cup {Nil}
    BY <2>1 DEF Recs
  <2>3. \A x \in Waves : x <= waves => x <= waves + 1 /\ x # waves + 1
    BY <1>1
  <2>4. UpTo(sp[s], waves + 1)
    <3>1. \A k \in 1 .. Len(sp[s].queue) : sp[s].queue[k] \in Waves
      BY <2>2
    <3>2. \A k \in 1 .. Len(sp[s].down) : sp[s].down[k] \in Commands
      BY <2>2
    <3>3. sp[s].line.op = "play" => sp[s].line.wave \in Waves
      BY <2>2, CommandTypes
    <3>4. \A k \in 1 .. Len(sp[s].down) :
             sp[s].down[k].op = "play" => sp[s].down[k].wave \in Waves
      BY <3>2, CommandTypes
    <3> QED
      BY <2>1, <2>2, <2>3, <3>1, <3>3, <3>4 DEF Sound, UpTo
  <2>5. Kept(sp[s], disk', failed)
    BY <1>1, <2>1, <2>2, <2>3 DEF Sound, Kept, UpTo
  <2> QED
    BY <2>1, <2>4, <2>5 DEF Sound
<1> QED
  BY <1>1, <1>3, <1>4, <1>6, <1>7 DEF IInv

(* shutup, close and query are handed to audsp_send.                       *)
LEMMA ModeIInv ==
  ASSUME IInv, NEW op \in {"shutup", "close", "query"}, audio_mode(op) PROVE IInv'
<1>1. /\ pc = "lisp" /\ mode /\ pc' = "send" /\ cmd' = Op(op)
      /\ UNCHANGED <<mode, cur, waves, disk, failed, sp>>
  BY DEF audio_mode, Send
<1>2. cmd' \in Commands /\ cmd'.op = op
  BY <1>1, CommandTypes
<1>3. Typed'
  BY <1>1, <1>2 DEF IInv, Typed
<1>4. Connected' /\ Counted' /\ Fresh'
  BY <1>1, <1>2 DEF IInv, Connected, Counted, Fresh, MaySend
<1> QED
  BY <1>1, <1>3, <1>4, QuietStep

(* Closing an end of a pipe.                                               *)
LEMMA CloseEndIInv ==
  ASSUME IInv, sync \/ pipe_close PROVE IInv'
<1> USE Ranges
<1>1. /\ cur \in Spoolers /\ sp[cur] \in Recs /\ Sound(sp[cur], waves, disk, failed)
      /\ UNCHANGED <<cur, cmd, waves, disk, failed>> /\ pc' \in {"closing", "lisp"}
      /\ mode' \in BOOLEAN /\ (pc' = "lisp" => mode' = FALSE)
  BY DEF IInv, Typed, Connected, sync, pipe_close
<1>2. PICK o \in BOOLEAN : sp' = [sp EXCEPT ![cur] = [sp[cur] EXCEPT !.in = FALSE, !.out = o]]
  <2>1. CASE sync
    <3>1. [sp[cur] EXCEPT !.in = FALSE] = [sp[cur] EXCEPT !.in = FALSE, !.out = sp[cur].out]
      BY <1>1 DEF Recs
    <3>2. sp[cur].out \in BOOLEAN
      BY <1>1 DEF Recs
    <3>3. sp' = [sp EXCEPT ![cur] = [sp[cur] EXCEPT !.in = FALSE]]
      BY <2>1, <1>1 DEF sync, IInv, Typed
    <3> QED
      BY <3>1, <3>2, <3>3
  <2>2. CASE pipe_close
    <3>1. sp[cur].in = FALSE
      BY <1>1, <2>2 DEF IInv, Connected, pipe_close, Recs
    <3>2. [sp[cur] EXCEPT !.out = FALSE] = [sp[cur] EXCEPT !.in = FALSE, !.out = FALSE]
      BY <1>1, <3>1 DEF Recs
    <3>3. sp' = [sp EXCEPT ![cur] = [sp[cur] EXCEPT !.out = FALSE]]
      BY <2>2, <1>1 DEF pipe_close, IInv, Typed
    <3> QED
      BY <3>2, <3>3
  <2> QED
    BY <2>1, <2>2
<1>3. PICK r \in Recs : r = [sp[cur] EXCEPT !.in = FALSE, !.out = o]
  BY <1>1 DEF Recs
<1>4. /\ r.pc = sp[cur].pc /\ r.line = sp[cur].line /\ r.down = sp[cur].down
      /\ r.in = FALSE /\ r.up = sp[cur].up
      /\ r.queue = sp[cur].queue /\ r.kid = sp[cur].kid /\ r.file = sp[cur].file
      /\ r.bye = sp[cur].bye /\ r.eof = sp[cur].eof /\ r.took = sp[cur].took
  BY <1>1, <1>3 DEF Recs
<1>5. sp'[cur] = r /\ \A s \in Spoolers : s # cur => sp'[s] = sp[s]
  BY <1>1, <1>2, <1>3 DEF IInv, Typed
<1>6. Placed(r) /\ Sorted(r) /\ UpTo(r, waves) /\ Kept(r, disk, failed)
  BY <1>1, <1>4 DEF Sound, Placed, Sorted, Above, UpTo, Kept, With
<1>7. Typed'
  BY <1>1, <1>2, <1>3 DEF IInv, Typed
<1>8. Connected' /\ Counted' /\ Fresh'
  BY <1>1, <1>4, <1>5 DEF Connected, Counted, Fresh, MaySend
<1> QED
  BY <1>1, <1>5, <1>6, <1>7, <1>8, FestivalStep

(* What Ctrl-C leaves of a spooler: it owes no more than before.           *)
LEMMA ShotSound ==
  ASSUME NEW r \in Recs, NEW w, NEW d, NEW f, Sound(r, w, d, f)
  PROVE  /\ Shot(r) \in Recs /\ Sound(Shot(r), w, d, f) /\ Shot(r).in = r.in
         /\ Shot(r).up + Owed(Shot(r)) <= r.up + Owed(r)
<1> USE Ranges
<1> DEFINE k == IF r.kid = "playing" THEN "done" ELSE r.kid
<1>1. <<>> \in Seq(Waves) /\ <<>> \in Seq(Commands) /\ Len(<<>>) = 0
  OBVIOUS
<1>2. Blank \in Commands /\ Blank.op = ""
  BY CommandTypes DEF Blank
<1>3. k \in {"none", "done"}
  BY DEF Recs
<1>4. r.up \in Nat /\ Owed(r) \in Nat /\ Len(r.down) \in Nat
  BY OwedType, OwedIs
<1>5. CASE r.pc \in {"none", "gone", "shot"}
  <2>1. PICK q : q = Kill(r)
    OBVIOUS
  <2>2. /\ q \in Recs /\ q.pc = r.pc /\ q.line = r.line /\ q.down = r.down
        /\ q.in = r.in /\ q.out = r.out /\ q.up = r.up /\ q.queue = <<>> /\ q.kid = k
        /\ q.file = r.file /\ q.bye = r.bye /\ q.eof = r.eof /\ q.took = r.took
    BY <1>1, <2>1 DEF Kill, Recs
  <2>3. r.queue = <<>>
    BY <1>5 DEF Sound, Placed
  <2>4. Placed(q) /\ Sorted(q) /\ UpTo(q, w)
    BY <1>3, <2>2, <2>3 DEF Sound, Placed, Sorted, Above, UpTo
  <2>5. Kept(q, d, f)
    BY <1>5, <2>2, <2>3 DEF Sound, Placed, Kept, With
  <2>6. Owed(q) = Owed(r)
    BY <1>5, <2>2, OwedIs
  <2>7. Shot(r) = q
    BY <1>5, <2>1 DEF Shot
  <2> QED
    BY <1>4, <2>2, <2>4, <2>5, <2>6, <2>7 DEF Sound
<1>6. CASE r.pc \notin {"none", "gone", "shot"}
  <2>1. PICK q : q = Shot(r)
    OBVIOUS
  <2>2. /\ q \in Recs /\ q.pc = "shot" /\ q.line = Blank /\ q.down = <<>>
        /\ q.in = r.in /\ q.out = r.out /\ q.up = r.up /\ q.queue = <<>> /\ q.kid = k
        /\ q.file = r.file /\ q.bye = r.bye /\ q.eof = r.eof /\ q.took = r.took
    BY <1>1, <1>2, <1>6, <2>1 DEF Shot, Kill, Dead, Recs
  <2>3. /\ Len(q.down) = 0 /\ Len(q.queue) = 0 /\ q.line.op = ""
        /\ \A j \in 1 .. Len(q.queue) : FALSE
        /\ \A j \in 1 .. Len(q.down) : FALSE
    <3>1. Len(q.down) = 0 /\ Len(q.queue) = 0 /\ q.line.op = ""
      BY <1>1, <1>2, <2>2
    <3>2. \A j \in 1 .. 0 : FALSE
      OBVIOUS
    <3> QED
      BY <3>1, <3>2
  <2>4. Placed(q)
    <3>1. (r.in => r.out) /\ (r.bye => r.eof)
      BY DEF Sound, Placed
    <3>2. 0 <= 1 /\ 0 <= MaxQueue
      OBVIOUS
    <3> QED
      BY <2>2, <2>3, <3>1, <3>2 DEF Placed
  <2>5. Sorted(q)
    BY <2>3 DEF Sorted
  <2>6. UpTo(q, w)
    <3>1. /\ r.file # Nil => r.file <= w
          /\ \A t \in r.took : t <= w
      BY DEF Sound, UpTo
    <3> QED
      BY <2>2, <2>3, <3>1 DEF UpTo
  <2>7. Kept(q, d, f)
    BY <2>2 DEF Kept
  <2>8. Owed(q) = 0
    BY <1>2, <2>2, <2>3, OwedIs
  <2> QED
    BY <1>4, <2>1, <2>2, <2>4, <2>5, <2>6, <2>7, <2>8 DEF Sound
<1> QED
  BY <1>5, <1>6

(* Ctrl-C: the mode is off, so nothing will be sent to this spooler.       *)
LEMMA InterruptIInv ==
  ASSUME IInv, NEW terminal \in BOOLEAN, err_ctrl_c(terminal) PROVE IInv'
<1> USE Ranges
<1>1. /\ pc' = "lisp" /\ mode' = FALSE /\ cmd' = Blank
      /\ UNCHANGED <<cur, waves, disk, failed>> /\ Blank \in Commands
      /\ sp \in [Spoolers -> Recs]
  BY CommandTypes DEF err_ctrl_c, IInv, Typed, Blank
<1>2. Connected' /\ Fresh' /\ ~MaySend'
  BY <1>1 DEF Connected, Fresh, MaySend
<1>3. CASE ~terminal
  <2>1. UNCHANGED sp
    BY <1>3 DEF err_ctrl_c
  <2>2. Typed' /\ Counted'
    BY <1>1, <1>2, <2>1 DEF IInv, Typed, Counted
  <2> QED
    BY <1>1, <1>2, <2>1, <2>2, QuietStep
<1>4. CASE terminal
  <2>1. sp' = [s \in Spoolers |-> Shot(sp[s])]
    BY <1>4 DEF err_ctrl_c
  <2>2. ASSUME NEW s \in Spoolers
        PROVE  /\ sp'[s] \in Recs /\ Sound(sp'[s], waves, disk, failed)
               /\ sp'[s].in = sp[s].in
               /\ sp'[s].up + Owed(sp'[s]) <= sp[s].up + Owed(sp[s])
    <3>1. sp[s] \in Recs /\ Sound(sp[s], waves, disk, failed)
      BY <1>1 DEF IInv
    <3>2. sp'[s] = Shot(sp[s])
      BY <2>1
    <3> QED
      BY <3>1, <3>2, ShotSound
  <2>3. Typed'
    <3>1. sp' \in [Spoolers -> Recs]
      BY <2>1, <2>2
    <3> QED
      BY <1>1, <3>1 DEF IInv, Typed
  <2>4. Counted'
    <3> SUFFICES ASSUME cur > 0, sp'[cur].in PROVE sp'[cur].up + Owed(sp'[cur]) <= 1
      BY <1>1, <1>2 DEF Counted
    <3>1. cur \in Spoolers
      BY DEF IInv, Typed
    <3>2. sp[cur].up + Owed(sp[cur]) <= 1
      BY <2>2, <3>1 DEF IInv, Counted
    <3>3. /\ sp[cur].up \in Nat /\ Owed(sp[cur]) \in Nat
          /\ sp'[cur].up \in Nat /\ Owed(sp'[cur]) \in Nat
      BY <1>1, <2>2, <3>1, OwedType
    <3> QED
      BY <2>2, <3>1, <3>2, <3>3
  <2> QED
    BY <1>1, <1>2, <2>2, <2>3, <2>4 DEF IInv
<1> QED
  BY <1>3, <1>4

(* The end of Festival closes its ends of the pipes.                       *)
LEMMA HangUpIInv == ASSUME IInv, NEW s \in Spoolers, HangUp(s) PROVE IInv'
<1> USE Ranges
<1>1. /\ pc = "killed" /\ pc' = "killed" /\ UNCHANGED <<mode, cur, cmd, waves, disk, failed>>
      /\ sp[s] \in Recs /\ Sound(sp[s], waves, disk, failed)
  BY DEF HangUp, IInv, Typed
<1>2. PICK r \in Recs : r = [sp[s] EXCEPT !.in = FALSE, !.out = FALSE]
  BY <1>1 DEF Recs
<1>3. /\ r.pc = sp[s].pc /\ r.line = sp[s].line /\ r.down = sp[s].down
      /\ r.in = FALSE /\ r.up = sp[s].up
      /\ r.queue = sp[s].queue /\ r.kid = sp[s].kid /\ r.file = sp[s].file
      /\ r.bye = sp[s].bye /\ r.eof = sp[s].eof /\ r.took = sp[s].took
  BY <1>1, <1>2 DEF Recs
<1>4. sp' = [sp EXCEPT ![s] = r]
  BY <1>2 DEF HangUp, IInv, Typed
<1>5. sp'[s] = r /\ \A t \in Spoolers : t # s => sp'[t] = sp[t]
  BY <1>4 DEF IInv, Typed
<1>6. Placed(r) /\ Sorted(r) /\ UpTo(r, waves) /\ Kept(r, disk, failed)
  BY <1>1, <1>3 DEF Sound, Placed, Sorted, Above, UpTo, Kept, With
<1>7. Typed'
  BY <1>1, <1>4 DEF IInv, Typed
<1>8. Connected' /\ Fresh'
  BY <1>1 DEF Connected, Fresh
<1>9. Counted'
  <2>1. cur > 0 => cur \in Spoolers
    BY DEF IInv, Typed
  <2>2. ~MaySend'
    BY <1>1 DEF MaySend
  <2> QED
    BY <1>1, <1>3, <1>5, <2>1, <2>2 DEF IInv, Counted
<1> QED
  BY <1>1, <1>5, <1>6, <1>7, <1>8, <1>9, FestivalStep

(* No spooler is there at the start.                                       *)
LEMMA InitIInv == Init => IInv
<1> SUFFICES ASSUME Init PROVE IInv
  OBVIOUS
<1> USE Ranges
<1>1. Blank \in Commands
  BY CommandTypes DEF Blank
<1>2. NotStarted = [NotStarted EXCEPT !.pc = "none", !.in = FALSE, !.out = FALSE]
  <2>1. NotStarted.pc = "none" /\ NotStarted.in = FALSE /\ NotStarted.out = FALSE
    BY DEF NotStarted
  <2> QED
    BY <2>1 DEF NotStarted
<1>3. NotStarted \in Recs /\ Sound(NotStarted, waves, disk, failed)
  BY <1>2, NewSpooler
<1>4. Typed
  <2>1. sp \in [Spoolers -> Recs]
    BY <1>3 DEF Init
  <2>2. cur \in 0 .. MaxStarts /\ waves \in 0 .. MaxWaves
    BY DEF Init
  <2> QED
    BY <1>1, <2>1, <2>2 DEF Init, Typed
<1>5. Connected /\ Counted /\ Fresh
  BY DEF Init, Connected, Counted, Fresh, MaySend
<1> QED
  BY <1>3, <1>4, <1>5 DEF Init, IInv

(* Every step keeps the invariant.                                         *)
LEMMA NextIInv == IInv /\ [Next]_vars => IInv'
<1> SUFFICES ASSUME IInv, [Next]_vars PROVE IInv'
  OBVIOUS
<1>1. CASE Festival
  BY <1>1, SendIInv, WriteIInv, NewlineIInv, ReadIInv, AsyncIInv, PlayIInv, ModeIInv,
     CloseEndIInv, InterruptIInv DEF Festival
<1>2. ASSUME NEW s \in Spoolers, Run(s) PROVE IInv'
  BY <1>2, StartIInv, InputIInv, ProcessIInv, OutputIInv, TidyIInv, ExitIInv DEF Run
<1>3. ASSUME NEW s \in Spoolers, load_play_file(s) PROVE IInv'
  BY <1>3, ChildIInv
<1>4. CASE UNCHANGED vars
  BY <1>4 DEF vars, IInv, Typed, Connected, Counted, Fresh, MaySend
<1>5. ASSUME NEW s \in Spoolers, HangUp(s) PROVE IInv'
  BY <1>5, HangUpIInv
<1> QED
  BY <1>1, <1>2, <1>3, <1>4, <1>5 DEF Next

(* The inductive invariant holds in every reachable state.                 *)
THEOREM Invariance == Spec => []IInv
  BY InitIInv, NextIInv, PTL DEF Spec

(* Type correctness: among others a pipe holds one command at most, and    *)
(* the queue is never longer than --maxqueue.                              *)
THEOREM TypeCorrect == Spec => []TypeOK
<1>1. IInv => TypeOK
  BY DEF IInv, Typed, Sound, Placed, Recs, TypeOK
<1> QED
  BY <1>1, Invariance, PTL

(* Every confirmation answers the command Festival waits for.              *)
THEOREM OneAnswer == Spec => []OneAnswerEach
<1>1. IInv => OneAnswerEach
  <2> SUFFICES ASSUME IInv, cur > 0, sp[cur].in
               PROVE  sp[cur].up + Owed(sp[cur]) <= 1 /\ (MaySend => sp[cur].up = 0)
    BY DEF OneAnswerEach
  <2>1. cur \in Spoolers
    BY Ranges DEF IInv, Typed
  <2>2. sp[cur].up \in Nat /\ Owed(sp[cur]) \in Nat
    BY <2>1, OwedType DEF IInv, Typed
  <2>3. /\ sp[cur].up + Owed(sp[cur]) <= 1
        /\ MaySend => sp[cur].up + Owed(sp[cur]) = 0
    BY DEF IInv, Counted
  <2>4. \A m, n \in Nat : m + n = 0 => m = 0
    OBVIOUS
  <2> QED
    BY <2>2, <2>3, <2>4
<1> QED
  BY <1>1, Invariance, PTL

(* When a spooler that was told to close is through, no child plays, and   *)
(* the files that are left are those no process could be had for.          *)
THEOREM CloseIsClean == Spec => []CloseDrains
<1>1. IInv => CloseDrains
  <2> SUFFICES ASSUME IInv, NEW s \in Spoolers, sp[s].bye, sp[s].pc \in {"exiting", "gone"}
               PROVE  sp[s].kid # "playing" /\ sp[s].took \cap disk \subseteq failed
    BY DEF CloseDrains
  <2>1. Placed(sp[s]) /\ Kept(sp[s], disk, failed)
    BY DEF IInv, Sound
  <2>2. sp[s].queue = <<>> /\ sp[s].kid # "playing"
    BY <2>1 DEF Placed
  <2>3. With(sp[s]) = {}
    <3>1. Len(sp[s].queue) = 0
      BY <2>2
    <3> QED
      BY <2>2, <3>1 DEF With
  <2> QED
    BY <2>1, <2>2, <2>3 DEF Kept
<1> QED
  BY <1>1, Invariance, PTL

(* Waves are queued in the order they were made, behind the one that was   *)
(* taken out last.                                                         *)
THEOREM WavesInOrder == Spec => []InOrder
<1>1. IInv => InOrder
  <2> SUFFICES ASSUME IInv, NEW s \in Spoolers
               PROVE  LET q == sp[s].queue IN
                      /\ \A j, k \in 1 .. Len(q) : j < k => q[j] < q[k]
                      /\ q # <<>> /\ sp[s].file # Nil => sp[s].file < q[1]
    BY DEF InOrder
  <2>1. Sorted(sp[s]) /\ sp[s].queue \in Seq(Waves)
    BY DEF IInv, Sound, Typed, Recs
  <2>2. sp[s].queue # <<>> => 1 \in 1 .. Len(sp[s].queue)
    BY <2>1, EmptySeq
  <2> QED
    BY <2>1, <2>2 DEF Sorted
<1> QED
  BY <1>1, Invariance, PTL
=============================================================================
