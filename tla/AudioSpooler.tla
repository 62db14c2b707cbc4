---------------------------- MODULE AudioSpooler ----------------------------
(***************************************************************************)
(* Festival and its audio spooler: audio_mode and audsp_send of            *)
(* festival/src/arch/festival/audspio.cc at one end of two pipes, the      *)
(* program audsp (festival/src/main/audsp.cc) at the other, and the child  *)
(* that audsp forks for each wave.                                         *)
(*                                                                         *)
(* A spooler is a process; Festival starts a new one with each change to   *)
(* the mode async, and an old one may still be running then.  A wave is    *)
(* the number of the temporary file it is saved to (audsp_num).  The       *)
(* options of the player are left out: "method" stands for all of the      *)
(* commands that set one.                                                  *)
(***************************************************************************)
EXTENDS Naturals, Sequences

CONSTANTS MaxStarts,  \* bound: spoolers started
          MaxWaves,   \* bound: waves played
          MaxQueue,   \* --maxqueue of audsp (5)
          Nil

ASSUME BoundsAssumption ==
  MaxStarts \in Nat /\ MaxWaves \in Nat /\ MaxQueue \in Nat \ {0}

VARIABLES mode,    \* audsp_mode
          cur,     \* audsp_pid and audfds: the last spooler started, or 0
          pc,      \* where Festival is
          cmd,     \* the command audsp_send is about
          waves,   \* audsp_num
          disk,    \* the temporary files that exist
          failed,  \* waves whose child could not be forked
          sp       \* the spoolers

vars == <<mode, cur, pc, cmd, waves, disk, failed, sp>>

Spoolers == 1 .. MaxStarts
Waves    == 1 .. MaxWaves

Op(c)    == [op |-> c, wave |-> Nil]
Play(w)  == [op |-> "play", wave |-> w]
Blank    == Op("")
Commands == {Op(c) : c \in {"", "method", "query", "shutup", "close"}}
            \cup {Play(w) : w \in Waves}

(* pc of a spooler: where in its main loop it is.  in, out: Festival has   *)
(* its ends of the pipes open; down, up: what is in them (up counts OKs).  *)
(* cut: what is in down has no new line yet.                               *)
(* kid: kids and child_pid; file: current_file; bye: pending_close; eof:   *)
(* no_more_input; took: every wave it was ever given.                      *)
NotStarted ==
  [pc |-> "none", in |-> FALSE, out |-> FALSE, down |-> <<>>, cut |-> FALSE, up |-> 0,
   line |-> Blank, queue |-> <<>>, kid |-> "none", file |-> Nil,
   bye |-> FALSE, eof |-> FALSE, took |-> {}]

Init ==
  /\ mode = FALSE /\ cur = 0 /\ pc = "lisp" /\ cmd = Blank
  /\ waves = 0 /\ disk = {} /\ failed = {}
  /\ sp = [s \in Spoolers |-> NotStarted]

Alive(s) == sp[s].pc \notin {"none", "gone", "shot"}

(* What dies with the process: its end of the pipes and its queue.         *)
Dead(r) == [r EXCEPT !.pc = "gone", !.queue = <<>>, !.down = <<>>, !.cut = FALSE]
-----------------------------------------------------------------------------
(* Festival.                                                               *)

(* audsp_send begins by asking whether the spooler has exited. *)
audsp_send ==
  /\ pc = "send"
  /\ IF Alive(cur) THEN pc' = "write" /\ UNCHANGED <<mode, cmd>>
                   ELSE pc' = "lisp" /\ mode' = FALSE /\ cmd' = Blank
  /\ UNCHANGED <<cur, waves, disk, failed, sp>>

Send(c) == pc' = "send" /\ cmd' = c /\ UNCHANGED <<mode, sp>>

(* Writing to a pipe nobody reads any more is the end of Festival: nothing *)
(* catches SIGPIPE.  The new line is written by itself.                    *)
write ==
  /\ pc = "write"
  /\ IF Alive(cur)
     THEN /\ pc' = "newline"
          /\ sp' = [sp EXCEPT ![cur].down = Append(@, cmd), ![cur].cut = TRUE]
     ELSE pc' = "killed" /\ UNCHANGED sp
  /\ UNCHANGED <<mode, cur, cmd, waves, disk, failed>>

newline ==
  /\ pc = "newline"
  /\ IF Alive(cur)
     THEN pc' = "read" /\ sp' = [sp EXCEPT ![cur].cut = FALSE]
     ELSE pc' = "killed" /\ UNCHANGED sp
  /\ UNCHANGED <<mode, cur, cmd, waves, disk, failed>>

(* The end of file is taken for a confirmation too. *)
read ==
  /\ pc = "read" /\ (sp[cur].up > 0 \/ ~Alive(cur))
  /\ sp' = IF sp[cur].up > 0 THEN [sp EXCEPT ![cur].up = @ - 1] ELSE sp
  /\ pc' = "lisp" /\ mode' = (mode \/ cmd.op = "method") /\ cmd' = Blank
  /\ UNCHANGED <<cur, waves, disk, failed>>

(* pipe_open, and the options if there are any.  Without a pipe or a       *)
(* process for it the mode stays off and nothing is started.               *)
async(options) ==
  /\ pc = "lisp" /\ ~mode /\ cur < MaxStarts
  /\ cur' = cur + 1
  /\ sp' = [sp EXCEPT ![cur + 1] =
              [NotStarted EXCEPT !.pc = "start", !.in = TRUE, !.out = TRUE]]
  /\ IF options THEN pc' = "send" /\ cmd' = Op("method") /\ UNCHANGED mode
                ELSE mode' = TRUE /\ UNCHANGED <<pc, cmd>>
  /\ UNCHANGED <<waves, disk, failed>>

audsp_play_wave ==
  /\ pc = "lisp" /\ mode /\ waves < MaxWaves
  /\ waves' = waves + 1 /\ disk' = disk \cup {waves + 1}
  /\ Send(Play(waves + 1))
  /\ UNCHANGED <<cur, failed>>

audio_mode(op) ==
  /\ pc = "lisp" /\ mode /\ Send(Op(op))
  /\ UNCHANGED <<cur, waves, disk, failed>>

(* pipe_close closes one pipe after the other. *)
sync ==
  /\ pc = "lisp" /\ mode
  /\ pc' = "closing" /\ sp' = [sp EXCEPT ![cur].in = FALSE]
  /\ UNCHANGED <<mode, cur, cmd, waves, disk, failed>>

pipe_close ==
  /\ pc = "closing"
  /\ pc' = "lisp" /\ mode' = FALSE /\ sp' = [sp EXCEPT ![cur].out = FALSE]
  /\ UNCHANGED <<cur, cmd, waves, disk, failed>>

(* From a terminal Ctrl-C goes to the spoolers and their children, too, and *)
(* they do not catch it: their files stay.                                 *)
Kill(r) == [r EXCEPT !.queue = <<>>,
                     !.kid = IF @ = "playing" THEN "done" ELSE @]

Shot(r) == Kill(IF r.pc \in {"none", "gone", "shot"} THEN r
                ELSE [Dead(r) EXCEPT !.pc = "shot", !.line = Blank])

\* Mutant: the mode stays on.
InterruptedOnly(terminal) ==
  /\ pc # "killed" /\ pc' = "lisp" /\ cmd' = Blank
  /\ sp' = IF terminal THEN [s \in Spoolers |-> Shot(sp[s])] ELSE sp
  /\ UNCHANGED <<mode, cur, waves, disk, failed>>

(* Ctrl-C leaves any call; the spooler, if it lives, is not asked again.   *)
err_ctrl_c(terminal) ==
  /\ pc # "killed" /\ pc' = "lisp" /\ mode' = FALSE /\ cmd' = Blank
  /\ sp' = IF terminal THEN [s \in Spoolers |-> Shot(sp[s])] ELSE sp
  /\ UNCHANGED <<cur, waves, disk, failed>>

(* When Festival has ended its ends of the pipes are closed as soon as no  *)
(* spooler that was started later has them.                                *)
HangUp(s) ==
  /\ pc = "killed" /\ sp[s].out
  /\ \A t \in s + 1 .. MaxStarts : ~Alive(t) /\ sp[t].kid # "playing"
  /\ sp' = [sp EXCEPT ![s].in = FALSE, ![s].out = FALSE]
  /\ UNCHANGED <<mode, cur, pc, cmd, waves, disk, failed>>

Festival ==
  \/ audsp_send \/ write \/ newline \/ read \/ sync \/ pipe_close \/ audsp_play_wave
  \/ \E options \in BOOLEAN : async(options)
  \/ \E op \in {"shutup", "close", "query"} : audio_mode(op)
  \/ \E terminal \in BOOLEAN : err_ctrl_c(terminal)
-----------------------------------------------------------------------------
(* The spooler.                                                            *)

Spooler(s, r) ==
  sp' = [sp EXCEPT ![s] = r] /\ UNCHANGED <<mode, cur, pc, cmd, waves>>

start(s) ==
  /\ sp[s].pc = "start"
  /\ \/ Spooler(s, [sp[s] EXCEPT !.pc = "input"])
     \/ Spooler(s, Dead(sp[s]))                \* execvp fails
  /\ UNCHANGED <<disk, failed>>

(* A confirmation nobody can read is the end of the spooler. *)
Confirm(r) == IF r.out THEN [r EXCEPT !.up = @ + 1] ELSE Dead(r)

\* Mutant: close is confirmed like any other command.
AnswerAtOnce(r) == Confirm(r)

(* close is confirmed by tidy_up. *)
Answer(r) == IF r.line.op = "close" THEN r ELSE Confirm(r)

Listens(r) == Len(r.queue) < MaxQueue /\ ~r.eof

(* With a line that has begun it waits for the rest of it. *)
check_new_input(s) ==
  LET r == sp[s] IN
  /\ r.pc = "input" /\ UNCHANGED <<disk, failed>>
  /\ \/ /\ ~Listens(r) \/ (r.down = <<>> /\ r.in)
        /\ Spooler(s, [r EXCEPT !.pc = "output"])
     \/ /\ Listens(r) /\ r.down # <<>> /\ (r.cut => ~r.in)
        /\ Spooler(s, Answer([r EXCEPT !.pc = "process", !.line = Head(r.down),
                                       !.down = Tail(r.down), !.cut = FALSE,
                                       !.eof = r.cut]))
     \/ /\ Listens(r) /\ r.down = <<>> /\ ~r.in
        /\ Spooler(s, Answer([r EXCEPT !.pc = "process", !.line = Blank,
                                       !.eof = TRUE]))

(* The files that shutup removes. *)
FilesOf(r) == {r.queue[k] : k \in 1 .. Len(r.queue)}
              \cup IF r.kid # "none" THEN {r.file} ELSE {}

process_command(s) ==
  LET c == sp[s].line
      r == [sp[s] EXCEPT !.pc = "output", !.line = Blank]
  IN  /\ sp[s].pc = "process" /\ UNCHANGED failed
      /\ CASE c.op = "play" -> Spooler(s, [r EXCEPT !.queue = Append(@, c.wave),
                                                    !.took = @ \cup {c.wave}])
           [] c.op = "close"  -> Spooler(s, [r EXCEPT !.bye = TRUE, !.eof = TRUE])
           [] c.op = ""       -> Spooler(s, [r EXCEPT !.eof = TRUE])
           [] c.op = "shutup" -> Spooler(s, Kill(r))
           [] OTHER           -> Spooler(s, r)
      /\ disk' = IF c.op = "shutup" THEN disk \ FilesOf(r) ELSE disk

(* sp_terminate *)
Looped(r) ==
  [r EXCEPT !.pc = IF r.eof /\ r.queue = <<>> THEN "tidy" ELSE "input"]

\* Mutant: the wave that was queued last is played first.
NextLast(r) == r.queue[Len(r.queue)]

NextWave(r) == Head(r.queue)

\* Mutant: kids is not counted down.
ReapedNot(r) == r

Reaped(r) == [r EXCEPT !.kid = IF @ = "done" THEN "none" ELSE @]

check_new_output(s) ==
  LET r == sp[s] IN
  /\ r.pc = "output" /\ UNCHANGED disk
  /\ \/ /\ r.kid # "none" \/ r.queue = <<>>
        /\ Spooler(s, Looped(Reaped(r))) /\ UNCHANGED failed
     \/ /\ r.kid = "none" /\ r.queue # <<>>
        /\ Spooler(s, Looped([r EXCEPT !.queue = Tail(@), !.kid = "playing",
                                       !.file = NextWave(r)]))
        /\ UNCHANGED failed
     \/ /\ r.kid = "none" /\ r.queue # <<>>       \* fork fails
        /\ Spooler(s, Looped([r EXCEPT !.queue = Tail(@), !.file = NextWave(r)]))
        /\ failed' = failed \cup {NextWave(r)}

\* Mutant: tidy_up does not wait for the last child.
ReadyAtOnce(r) == TRUE

(* Only a spooler that was told to close waits for the child. *)
Ready(r) == r.bye => r.kid # "playing"

tidy_up(s) ==
  LET r == [sp[s] EXCEPT !.pc = "exiting"] IN
  /\ sp[s].pc = "tidy" /\ Ready(r)
  /\ Spooler(s, IF r.bye THEN Confirm([r EXCEPT !.kid = "none"]) ELSE r)
  /\ UNCHANGED <<disk, failed>>

exit(s) ==
  /\ sp[s].pc = "exiting" /\ Spooler(s, Dead(sp[s]))
  /\ UNCHANGED <<disk, failed>>

(* The child: load_play_file removes the file when it has been played.     *)
load_play_file(s) ==
  /\ sp[s].kid = "playing"
  /\ Spooler(s, [sp[s] EXCEPT !.kid = "done"])
  /\ disk' = disk \ {sp[s].file} /\ UNCHANGED failed

Run(s) == \/ start(s) \/ check_new_input(s) \/ process_command(s)
          \/ check_new_output(s) \/ tidy_up(s) \/ exit(s)

Next == Festival \/ \E s \in Spoolers : Run(s) \/ load_play_file(s) \/ HangUp(s)

(* The spooler polls, a child plays to its end, and Festival goes on with  *)
(* the call it is in; whether another call is made is the user's affair.   *)
Fairness ==
  /\ WF_vars(audsp_send) /\ WF_vars(write) /\ WF_vars(newline) /\ WF_vars(read)
  /\ WF_vars(pipe_close)
  /\ \A s \in Spoolers : WF_vars(Run(s)) /\ WF_vars(load_play_file(s))

Spec     == Init /\ [][Next]_vars
FairSpec == Spec /\ Fairness
-----------------------------------------------------------------------------
TypeOK ==
  /\ mode \in BOOLEAN /\ cur \in 0 .. MaxStarts
  /\ pc \in {"lisp", "send", "write", "newline", "read", "closing", "killed"}
  /\ cmd \in Commands
  /\ waves \in 0 .. MaxWaves /\ disk \subseteq Waves /\ failed \subseteq Waves
  /\ \A s \in Spoolers :
       /\ sp[s].pc \in {"none", "start", "input", "process", "output", "tidy",
                        "exiting", "gone", "shot"}
       /\ sp[s].line \in Commands /\ sp[s].kid \in {"none", "playing", "done"}
       /\ sp[s].up \in Nat /\ Len(sp[s].down) <= 1
       /\ Len(sp[s].queue) <= MaxQueue

(* A confirmation answers the command that Festival waits for: there is    *)
(* never one too many, which the next call would take for its own, not     *)
(* even when Ctrl-C has left a read (audsp_mode in err_ctrl_c).            *)
Owed(r) ==
  Len(r.down) + IF r.line.op = "close" \/ (r.bye /\ r.pc \in {"output", "input", "tidy"})
                THEN 1 ELSE 0
MaySend == pc \in {"send", "write"} \/ (pc = "lisp" /\ mode)
OneAnswerEach ==
  cur > 0 /\ sp[cur].in =>
    /\ sp[cur].up + Owed(sp[cur]) <= 1
    /\ MaySend => sp[cur].up = 0

(* When close returns, every wave the spooler took has been played, thrown *)
(* away by shutup, or failed for want of a process, and none of the others *)
(* leaves its file behind.                                                 *)
CloseDrains ==
  \A s \in Spoolers : sp[s].bye /\ sp[s].pc \in {"exiting", "gone"} =>
    sp[s].kid # "playing" /\ sp[s].took \cap disk \subseteq failed

(* Waves are played in the order they were made, one at a time.            *)
InOrder ==
  \A s \in Spoolers :
    LET q == sp[s].queue IN
    /\ \A j, k \in 1 .. Len(q) : j < k => q[j] < q[k]
    /\ q # <<>> /\ sp[s].file # Nil => sp[s].file < q[1]

(* Festival is not stopped by a spooler that is still there: each call     *)
(* comes back, however long the queue is.                                  *)
CallsReturn ==
  pc \in {"send", "write", "newline", "read", "closing"} ~> pc \in {"lisp", "killed"}

(* A wave the spooler has taken does not stay with it for ever, unless     *)
(* Ctrl-C left a line without its end: read_a_line waits for that.         *)
With(r) == {r.queue[k] : k \in 1 .. Len(r.queue)}
           \cup IF r.kid = "playing" THEN {r.file} ELSE {}
Stuck(s) == sp[s].cut /\ ~(pc = "newline" /\ cur = s)
WavesLeave ==
  \A w \in Waves, s \in Spoolers :
    w \in With(sp[s]) ~> w \notin With(sp[s]) \/ Stuck(s)
=============================================================================
