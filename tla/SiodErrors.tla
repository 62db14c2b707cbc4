----------------------------- MODULE SiodErrors -----------------------------
(***************************************************************************)
(* Errors, throws, quitting and interrupts in the SIOD interpreter         *)
(* (speech_tools/siod), and who tidies up after them.  A non-local exit is *)
(* a longjmp.  est_errjmp points to the jmp_buf of the handler in force;   *)
(* unwind-protect (slib_core.cc) and text modes (Text/text_modes.cc) save  *)
(* the pointer, put their own in its place and restore it as they go on.   *)
(* catch_framep heads the chain of *catch frames.  Neither kind of exit    *)
(* knows of the other's pointer, so a throw out of an unwind-protect, or   *)
(* an error caught outside a *catch, leaves a pointer into a part of the C *)
(* stack that is no more.                                                  *)
(***************************************************************************)
EXTENDS Integers, Sequences

CONSTANTS
  Tags, NoTag,   \* tags of *catch and *throw
  Files, Nil,    \* cells of the list open_files, each with one file
  MaxDepth       \* bound: scopes inside one another

ASSUME DepthAssumption == MaxDepth \in Nat \ {0}
ASSUME TagAssumption   == NoTag \notin Tags
ASSUME FileAssumption  == Nil \notin Files

VARIABLES
  stack,              \* C frames that hold a jmp_buf, innermost last
  est_errjmp,         \* whose jmp_buf an error jumps to; 0: repl_driver's
  catch_framep,       \* the frame at the head of the chain; 0: NULL
  jump,               \* the exit on its way
  at,                 \* where in the chain lthrow looks
  open_files,         \* the list, newest first
  open,               \* files that are open
  siod_ctrl_c,
  nointerrupt,
  interrupt_differed,
  status              \* "running", "ended" or "wild"

pointers   == <<stack, est_errjmp, catch_framep>>
filing     == <<open_files, open>>
interrupts == <<siod_ctrl_c, nointerrupt, interrupt_differed>>
vars == <<pointers, jump, at, filing, interrupts, status>>

Gone == -1                        \* a frame that has been left
Refs == {Gone} \cup 0..MaxDepth

None     == [kind |-> "none", tag |-> NoTag]
Error    == [kind |-> "error", tag |-> NoTag]
Quit     == [kind |-> "quit", tag |-> NoTag]
Throw(t) == [kind |-> "throw", tag |-> t]

(* saved is a *catch's next frame, everybody else's local_errjmp.  "start" *)
(* and "after" are a text mode before and an unwind-protect or text mode   *)
(* after est_errjmp points to it.  buf is what a handler has done to its   *)
(* jmp_buf: nothing yet, set it, freed it as it ends or because it has     *)
(* caught an error; an unwind-protect that is "tidying" has yet to close   *)
(* files.  had is a history variable: the files that were open on entry.   *)
Frames == [kind : {"catch", "unwind", "start", "mode", "after"},
           tag : Tags \cup {NoTag}, saved : Refs,
           files : Files \cup {Nil}, had : SUBSET Files,
           buf : {"none", "unset", "set", "freed", "caught", "tidying"}]

Frame(kind, tag, saved) ==
  [kind |-> kind, tag |-> tag, saved |-> saved, files |-> Nil, had |-> {},
   buf |-> "none"]

After == Frame("after", NoTag, 0)

Handlers == {"unwind", "mode"}   \* an error may jump here
Catches  == {"catch"}

Init ==
  /\ stack = <<>> /\ est_errjmp = 0 /\ catch_framep = 0
  /\ jump = None /\ at = 0
  /\ open_files = <<>> /\ open = {}
  /\ siod_ctrl_c = FALSE /\ nointerrupt = 0 /\ interrupt_differed = 0
  /\ status = "running"
-----------------------------------------------------------------------------
Depth == Len(stack)
Top   == stack[Depth]
Still == status = "running" /\ jump = None

(* Between two statements of a handler nothing but Ctrl-C can happen.      *)
Midway(b) == Still /\ Depth > 0 /\ Top.buf = b
Calm      == Still /\ \A b \in {"unset", "freed", "caught", "tidying"} : ~Midway(b)

Outside(n)    == SubSeq(stack, 1, n - 1)
Becomes(n, f) == Append(Outside(n), f)

(* A pointer once the frames from n on are left.                           *)
Left(r, n) == IF r >= n THEN Gone ELSE r

Listed == {open_files[i] : i \in DOMAIN open_files}

(* Entering a scope and leaving it by its end.                             *)
Push(f) == Calm /\ Depth < MaxDepth /\ stack' = Append(stack, f)

Pop(kind) ==
  /\ Calm /\ Depth > 0 /\ Top.kind = kind
  /\ stack' = Outside(Depth)

EnterCatch(t) ==
  /\ Push(Frame("catch", t, catch_framep))
  /\ catch_framep' = Depth + 1
  /\ UNCHANGED <<est_errjmp, jump, at, filing, interrupts, status>>

\* Mutant: the head of the chain is not put back.
LeaveCatchLinked ==
  /\ Pop("catch")
  /\ catch_framep' = Left(catch_framep, Depth)
  /\ UNCHANGED <<est_errjmp, jump, at, filing, interrupts, status>>

LeaveCatch ==
  /\ Pop("catch")
  /\ catch_framep' = Top.saved
  /\ UNCHANGED <<est_errjmp, jump, at, filing, interrupts, status>>

EnterUnwindProtect ==
  /\ Push([Frame("unwind", NoTag, est_errjmp) EXCEPT
              !.files = IF open_files = <<>> THEN Nil ELSE Head(open_files),
              !.had   = open, !.buf = "unset"])
  /\ est_errjmp' = Depth + 1
  /\ UNCHANGED <<catch_framep, jump, at, filing, interrupts, status>>

Buffer(b) ==
  /\ stack' = Becomes(Depth, [Top EXCEPT !.buf = b])
  /\ UNCHANGED <<est_errjmp, catch_framep, jump, at, filing, interrupts, status>>

(* est_errjmp points to a new jmp_buf before setjmp has filled it, and to  *)
(* one that is freed before the old pointer is restored.                   *)
setjmp == Midway("unset") /\ Buffer("set")
wfree  == Calm /\ Depth > 0 /\ Top.buf = "set" /\ Buffer("freed")

\* Mutant: est_errjmp is restored only where an error was caught.
LeaveUnwindProtectInForce ==
  /\ Midway("freed") /\ Top.kind = "unwind"
  /\ stack' = Outside(Depth)
  /\ UNCHANGED <<est_errjmp, catch_framep, jump, at, filing, interrupts, status>>

LeaveUnwindProtect ==
  /\ Midway("freed") /\ Top.kind = "unwind"
  /\ stack' = Outside(Depth) /\ est_errjmp' = Top.saved
  /\ UNCHANGED <<catch_framep, jump, at, filing, interrupts, status>>

(* A text mode runs its init_func before it puts its handler in force, and *)
(* its exit_func when the handler is no longer in force.                   *)
EnterMode ==
  /\ Push(Frame("start", NoTag, est_errjmp))
  /\ UNCHANGED <<est_errjmp, catch_framep, jump, at, filing, interrupts, status>>

ModeBegins ==
  /\ Calm /\ Depth > 0 /\ Top.kind = "start"
  /\ stack' = Becomes(Depth, [Top EXCEPT !.kind = "mode", !.buf = "unset"])
  /\ est_errjmp' = Depth
  /\ UNCHANGED <<catch_framep, jump, at, filing, interrupts, status>>

ModeEnds ==
  /\ Midway("freed") /\ Top.kind = "mode"
  /\ stack' = Becomes(Depth, After)
  /\ est_errjmp' = Top.saved
  /\ UNCHANGED <<catch_framep, jump, at, filing, interrupts, status>>

LeaveAfter ==
  /\ Pop("after")
  /\ UNCHANGED <<est_errjmp, catch_framep, jump, at, filing, interrupts, status>>
-----------------------------------------------------------------------------
err ==
  /\ Calm
  /\ jump' = Error /\ nointerrupt' = 1
  /\ UNCHANGED <<pointers, at, filing, siod_ctrl_c, interrupt_differed, status>>

siod_quit ==
  /\ Calm
  /\ jump' = Quit /\ open_files' = <<>>
  /\ UNCHANGED <<pointers, at, open, interrupts, status>>

lthrow(t) ==
  /\ Calm
  /\ jump' = Throw(t) /\ at' = catch_framep
  /\ UNCHANGED <<pointers, filing, interrupts, status>>

(* A Ctrl-C may come anywhere.  During an error it is put off, and then    *)
(* forgotten.                                                              *)
handle_sigint ==
  /\ status = "running"
  /\ IF nointerrupt = 1
     THEN interrupt_differed' = 1 /\ UNCHANGED <<siod_ctrl_c, nointerrupt, jump, at>>
     ELSE /\ siod_ctrl_c' = TRUE /\ jump' = Error /\ nointerrupt' = 1 /\ at' = 0
          /\ UNCHANGED interrupt_differed
  /\ UNCHANGED <<pointers, filing, status>>
-----------------------------------------------------------------------------
(* Where the jumps land.  A jump into a frame that is gone or whose jmp_buf *)
(* is not set, or a look at one that is gone, may do anything.             *)
NotReady == est_errjmp > 0 /\ stack[est_errjmp].buf # "set"

GoWild ==
  /\ \/ jump.kind \in {"error", "quit"} /\ (est_errjmp = Gone \/ NotReady)
     \/ jump.kind = "throw" /\ at = Gone
  /\ status' = "wild"
  /\ UNCHANGED <<pointers, jump, at, filing, interrupts>>

siod_reset_prompt == interrupt_differed' = 0 /\ nointerrupt' = 0

\* Mutant: unwind-protect closes all open files.
CloseAll(end) ==
  open' = open \ Listed /\ open_files' = <<>>

(* Closes and unlists the files before the cell end; without that cell all *)
(* of them.                                                                *)
close_open_files_upto(end) ==
  \E k \in 0..Len(open_files) :
    /\ \A j \in 1..k : open_files[j] # end
    /\ k < Len(open_files) => open_files[k + 1] = end
    /\ open' = open \ {open_files[j] : j \in 1..k}
    /\ open_files' = SubSeq(open_files, k + 1, Len(open_files))

\* Mutant: a Ctrl-C is handled like an error.
ForwardNothing == UNCHANGED <<jump, nointerrupt>>

Forward ==
  IF siod_ctrl_c THEN jump' = Error /\ nointerrupt' = 1
                 ELSE UNCHANGED <<jump, nointerrupt>>

(* setjmp returns once more, and the jmp_buf is freed.                     *)
ErrorLands ==
  /\ jump.kind \in {"error", "quit"} /\ est_errjmp > 0 /\ ~NotReady
  /\ stack' = Becomes(est_errjmp, [stack[est_errjmp] EXCEPT !.buf = "caught"])
  /\ catch_framep' = Left(catch_framep, est_errjmp)
  /\ jump' = None
  /\ UNCHANGED <<est_errjmp, at, filing, interrupts, status>>

(* An unwind-protect listens to interrupts again before it closes files.   *)
UnwindProtectCatches ==
  /\ Midway("caught") /\ Top.kind = "unwind"
  /\ stack' = Becomes(Depth, [After EXCEPT !.files = Top.files, !.had = Top.had,
                                           !.buf = "tidying"])
  /\ est_errjmp' = Top.saved /\ siod_reset_prompt
  /\ UNCHANGED <<catch_framep, jump, at, filing, siod_ctrl_c, status>>

UnwindProtectTidies ==
  /\ Midway("tidying") /\ close_open_files_upto(Top.files)
  /\ stack' = Becomes(Depth, After)
  /\ Forward
  /\ UNCHANGED <<est_errjmp, catch_framep, at, siod_ctrl_c, interrupt_differed, status>>

(* A text mode neither closes files nor listens to interrupts again.       *)
ModeCatches ==
  /\ Midway("caught") /\ Top.kind = "mode"
  /\ stack' = Becomes(Depth, After)
  /\ est_errjmp' = Top.saved
  /\ Forward
  /\ UNCHANGED <<catch_framep, at, filing, siod_ctrl_c, interrupt_differed, status>>

(* repl_driver sets everything right again, but for est_errjmp.            *)
ReplCatches ==
  /\ jump.kind \in {"error", "quit"} /\ est_errjmp = 0
  /\ stack' = <<>> /\ catch_framep' = 0 /\ jump' = None
  /\ siod_reset_prompt /\ UNCHANGED <<est_errjmp, at>>
  /\ IF jump = Quit
     THEN status' = "ended" /\ UNCHANGED <<filing, siod_ctrl_c>>
     ELSE /\ close_open_files_upto(Nil) /\ siod_ctrl_c' = FALSE
          /\ UNCHANGED status

\* Mutant: the innermost *catch takes whatever is thrown.
CatchAny ==
  /\ jump.kind = "throw" /\ at > 0
  /\ stack' = Outside(at) /\ catch_framep' = stack[at].saved
  /\ est_errjmp' = Left(est_errjmp, at)
  /\ jump' = None /\ at' = 0
  /\ UNCHANGED <<filing, interrupts, status>>

CatchFound ==
  /\ jump.kind = "throw" /\ at > 0 /\ stack[at].tag = jump.tag
  /\ stack' = Outside(at) /\ catch_framep' = stack[at].saved
  /\ est_errjmp' = Left(est_errjmp, at)
  /\ jump' = None /\ at' = 0
  /\ UNCHANGED <<filing, interrupts, status>>

LookFurther ==
  /\ jump.kind = "throw" /\ at > 0 /\ stack[at].tag # jump.tag
  /\ at' = stack[at].saved
  /\ UNCHANGED <<pointers, jump, filing, interrupts, status>>

NoCatchFound ==
  /\ jump.kind = "throw" /\ at = 0
  /\ jump' = Error /\ nointerrupt' = 1
  /\ UNCHANGED <<pointers, at, filing, siod_ctrl_c, interrupt_differed, status>>

Land ==
  /\ status = "running"
  /\ \/ GoWild
     \/ ErrorLands \/ ReplCatches
     \/ CatchFound \/ LookFurther \/ NoCatchFound
-----------------------------------------------------------------------------
Remembered ==
  UNION {stack[i].had \cup {stack[i].files} : i \in DOMAIN stack}

(* A cell that an unwind-protect remembers is not taken for another file.  *)
fd_to_scheme_file(c) ==
  /\ Calm /\ c \notin open \cup Remembered
  /\ open' = open \cup {c} /\ open_files' = <<c>> \o open_files
  /\ UNCHANGED <<pointers, jump, at, interrupts, status>>

fclose_l(c) ==
  /\ Calm /\ c \in open
  /\ open' = open \ {c}
  /\ IF c \in Listed
     THEN \E i \in DOMAIN open_files :
            /\ open_files[i] = c
            /\ open_files' = SubSeq(open_files, 1, i - 1)
                             \o SubSeq(open_files, i + 1, Len(open_files))
     ELSE UNCHANGED open_files
  /\ UNCHANGED <<pointers, jump, at, interrupts, status>>

(* The collector closes what is neither listed nor held by the program.    *)
file_gc_free(c) ==
  /\ Calm /\ c \in open \ Listed
  /\ open' = open \ {c}
  /\ UNCHANGED <<pointers, jump, at, open_files, interrupts, status>>

(* The input is at its end.                                                *)
repl ==
  /\ Calm /\ Depth = 0
  /\ status' = "ended"
  /\ UNCHANGED <<pointers, jump, at, filing, interrupts>>

Next ==
  \/ \E t \in Tags : EnterCatch(t) \/ lthrow(t)
  \/ EnterUnwindProtect \/ EnterMode \/ ModeBegins \/ setjmp
  \/ LeaveCatch \/ wfree \/ LeaveUnwindProtect \/ ModeEnds \/ LeaveAfter
  \/ UnwindProtectCatches \/ UnwindProtectTidies \/ ModeCatches
  \/ err \/ siod_quit \/ handle_sigint \/ Land
  \/ \E c \in Files : fd_to_scheme_file(c) \/ fclose_l(c) \/ file_gc_free(c)
  \/ repl

Spec == Init /\ [][Next]_vars
-----------------------------------------------------------------------------
TypeOK ==
  /\ stack \in Seq(Frames) /\ Depth <= MaxDepth
  /\ est_errjmp \in Refs /\ catch_framep \in Refs /\ at \in Refs
  /\ jump \in {None, Error, Quit} \cup {Throw(t) : t \in Tags}
  /\ open_files \in Seq(Files) /\ open \subseteq Files
  /\ siod_ctrl_c \in BOOLEAN
  /\ nointerrupt \in 0..1 /\ interrupt_differed \in 0..1
  /\ status \in {"running", "ended", "wild"}

(* What a pointer of the frames up to n should be: the innermost of them   *)
(* of these kinds, or 0; unless it is left dangling.                       *)
InForce(r, n, kinds) ==
  r # Gone =>
    /\ r \in 0..n
    /\ r > 0 => stack[r].kind \in kinds
    /\ \A j \in 1..n : j > r => stack[j].kind \notin kinds

(* est_errjmp, and what every handler will restore it to, is the innermost *)
(* handler of its place or dangles, and likewise the chain of *catches: no *)
(* mix of ends, errors and throws makes a live frame that is not the       *)
(* innermost the target of a jump.                                         *)
PointersInForce ==
  /\ InForce(est_errjmp, Depth, Handlers)
  /\ InForce(catch_framep, Depth, Catches)
  /\ \A i \in DOMAIN stack :
       /\ stack[i].kind \in Catches => InForce(stack[i].saved, i - 1, Catches)
       /\ stack[i].kind \in Handlers \cup {"start"}
            => InForce(stack[i].saved, i - 1, Handlers)

(* As long as no frame that is gone is jumped to or looked at, errors,     *)
(* throws and quits do what nested scopes promise: each lands in the       *)
(* innermost scope that is for it.                                         *)
ScopeOf(f) ==
  [kind |-> CASE f.kind \in Handlers -> "handler"
              [] f.kind \in Catches  -> "catch"
              [] OTHER               -> "plain",
   tag |-> f.tag]

Seen(s) == [i \in DOMAIN s |-> ScopeOf(s[i])]

Promised == INSTANCE Unwinding WITH
  scopes <- Seen(stack),
  exit   <- jump,
  over   <- status = "ended"

JumpsLandRight ==
  Promised!Init /\ [][status' = "wild" \/ Promised!Next]_(Promised!vars)

(* Pointers are left dangling only by a throw that leaves a handler and by *)
(* an error caught outside a *catch, and only such pointers lead astray,   *)
(* or a Ctrl-C while est_errjmp points to a jmp_buf that is not set yet or *)
(* that is freed already: code that does neither is safe from all but that.*)
Dangling ==
  \/ Gone \in {est_errjmp, catch_framep}
  \/ \E i \in DOMAIN stack : stack[i].saved = Gone

Mixes ==
  \/ CatchFound /\ \E i \in DOMAIN stack : i > at /\ stack[i].kind \in Handlers
  \/ ErrorLands /\ \E i \in DOMAIN stack : i > est_errjmp /\ stack[i].kind \in Catches

OnlyMixingDangles ==
  [][/\ Dangling' => Dangling \/ Mixes
     /\ status' = "wild" => Dangling \/ (siod_ctrl_c /\ NotReady)]_vars

(* An unwind-protect that catches an error closes the files that were      *)
(* opened inside it, and no others, as long as the file it found at the    *)
(* head of the list is still there (and none was).                         *)
ClosesItsOwn ==
  [][UnwindProtectTidies =>
       (Top.files \in Listed \cup {Nil} =>
          open' = open \ (Listed \ Top.had))]_vars

(* A Ctrl-C comes through to the prompt: no handler goes on as if it were  *)
(* an error once it has tidied up, and no later error is taken for it.     *)
InterruptComesThrough ==
  siod_ctrl_c => jump = Error \/ Midway("caught") \/ Midway("tidying")
=============================================================================
