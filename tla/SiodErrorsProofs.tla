-------------------------- MODULE SiodErrorsProofs --------------------------
(***************************************************************************)
(* Proofs about SiodErrors, for any tags, files and depth of nesting.  The *)
(* inductive invariant is TypeOK, InPlace, PointersInForce and             *)
(* SearchOnCourse: the loop of lthrow has passed all frames above at that  *)
(* are on the stack.                                                       *)
(***************************************************************************)
EXTENDS SiodErrors, SequenceTheorems, TLAPS

(* The frames lthrow has passed do not catch the tag.                      *)
SearchOnCourse ==
  jump.kind = "throw" /\ at # Gone =>
    /\ at \in 0..Depth
    /\ at > 0 => stack[at].kind \in Catches
    /\ \A j \in DOMAIN stack :
         j > at /\ stack[j].kind \in Catches => stack[j].tag # jump.tag

(* Only *catch frames have a tag, every handler has a jmp_buf, and tidying *)
(* up is after the handler was in force.                                   *)
InPlace ==
  \A i \in DOMAIN stack :
    /\ stack[i].kind \in Catches <=> stack[i].tag \in Tags
    /\ stack[i].kind \in Handlers => stack[i].buf # "none"
    /\ stack[i].buf = "tidying" => stack[i].kind = "after"

IInv == TypeOK /\ InPlace /\ PointersInForce /\ SearchOnCourse

(* What stands on the stack below n is not touched by leaving what is      *)
(* above it.                                                               *)
LEMMA OutsideFacts ==
  ASSUME NEW s \in Seq(Frames), NEW n \in 1..Len(s)
  PROVE  /\ SubSeq(s, 1, n - 1) \in Seq(Frames)
         /\ Len(SubSeq(s, 1, n - 1)) = n - 1
         /\ \A i \in 1..(n - 1) : SubSeq(s, 1, n - 1)[i] = s[i]
OBVIOUS

LEMMA AppendFacts ==
  ASSUME NEW s \in Seq(Frames), NEW f \in Frames
  PROVE  /\ Append(s, f) \in Seq(Frames)
         /\ Len(Append(s, f)) = Len(s) + 1
         /\ \A i \in 1..Len(s) : Append(s, f)[i] = s[i]
         /\ Append(s, f)[Len(s) + 1] = f
OBVIOUS

LEMMA BecomesFacts ==
  ASSUME stack \in Seq(Frames), NEW n \in 1..Len(stack), NEW g \in Frames
  PROVE  /\ Becomes(n, g) \in Seq(Frames) /\ Len(Becomes(n, g)) = n
         /\ \A i \in 1..(n - 1) : Becomes(n, g)[i] = stack[i]
         /\ Becomes(n, g)[n] = g
<1>. DEFINE s == SubSeq(stack, 1, n - 1)
<1>1. /\ s \in Seq(Frames) /\ Len(s) = n - 1
      /\ \A i \in 1..(n - 1) : s[i] = stack[i]
  BY OutsideFacts
<1>2. Becomes(n, g) = Append(s, g)
  BY DEF Becomes, Outside
<1>. HIDE DEF s
<1>. QED  BY <1>1, <1>2, AppendFacts

LEMMA FrameTypes ==
  ASSUME NEW kind \in {"catch", "unwind", "start", "mode", "after"},
         NEW tag \in Tags \cup {NoTag}, NEW saved \in Refs
  PROVE  Frame(kind, tag, saved) \in Frames /\ Frame(kind, tag, saved).buf = "none"
BY DEF Frame, Frames

LEMMA Signals ==
  /\ None # Error /\ None # Quit /\ Quit # Error
  /\ None.kind = "none" /\ Error.kind = "error" /\ Quit.kind = "quit"
BY DEF None, Error, Quit

USE DEF Calm, Still, Midway, Depth, Top, Gone, Refs

LEMMA TypeInit == Init => IInv
<1>. SUFFICES ASSUME Init PROVE IInv
  OBVIOUS
<1>1. stack = <<>> /\ <<>> \in Seq(Frames) /\ Len(stack) = 0 /\ DOMAIN stack = {}
  BY DEF Init
<1>2. TypeOK
  <2>1. stack \in Seq(Frames) /\ open_files \in Seq(Files) /\ Depth <= MaxDepth
    BY <1>1, DepthAssumption DEF Init
  <2>2. 0 \in Refs /\ 0 \in 0..1 /\ FALSE \in BOOLEAN
    BY DepthAssumption
  <2>3. open \subseteq Files /\ jump = None
    BY DEF Init
  <2>. QED  BY <2>1, <2>2, <2>3 DEF Init, TypeOK
<1>3. InPlace /\ PointersInForce /\ SearchOnCourse
  BY <1>1 DEF Init, InPlace, PointersInForce, SearchOnCourse, InForce, None
<1>. QED  BY <1>2, <1>3 DEF IInv

-----------------------------------------------------------------------------
(* The steps of a running program, one lemma for each way the stack        *)
(* changes.                                                                *)
LEMMA PushStep ==
  ASSUME IInv, NEW f \in Frames, Push(f), f.kind \in Catches <=> f.tag \in Tags,
         f.kind \in Handlers => f.buf # "none", f.buf # "tidying",
         est_errjmp' = IF f.kind \in Handlers THEN Depth + 1 ELSE est_errjmp,
         catch_framep' = IF f.kind \in Catches THEN Depth + 1 ELSE catch_framep,
         f.kind \in Catches => f.saved = catch_framep,
         f.kind \in Handlers \cup {"start"} => f.saved = est_errjmp,
         UNCHANGED <<jump, at>>
  PROVE  /\ stack' \in Seq(Frames) /\ Len(stack') \in 0..MaxDepth
         /\ est_errjmp' \in Refs /\ catch_framep' \in Refs
         /\ InPlace' /\ PointersInForce' /\ SearchOnCourse'
<1>1. /\ stack' = Append(stack, f) /\ stack \in Seq(Frames) /\ Depth < MaxDepth
      /\ jump = None /\ Len(stack) \in Nat
  BY DEF Push, IInv, TypeOK
<1>2. /\ stack' \in Seq(Frames) /\ Len(stack') = Depth + 1
      /\ \A i \in 1..Depth : stack'[i] = stack[i]
      /\ stack'[Depth + 1] = f
  BY <1>1, AppendFacts
<1>3. /\ Len(stack') \in 0..MaxDepth
      /\ est_errjmp' \in Refs /\ catch_framep' \in Refs
  BY <1>1, <1>2, DepthAssumption DEF IInv, TypeOK
<1>4. InPlace'
  BY <1>1, <1>2 DEF IInv, InPlace
<1>5. SearchOnCourse'
  BY <1>1 DEF SearchOnCourse, None
<1>6. InForce(est_errjmp, Depth, Handlers)'
  BY <1>1, <1>2 DEF IInv, PointersInForce, InForce
<1>7. InForce(catch_framep, Depth, Catches)'
  BY <1>1, <1>2 DEF IInv, PointersInForce, InForce
<1>8. ASSUME NEW i \in DOMAIN stack'
      PROVE  /\ stack'[i].kind \in Catches => InForce(stack[i].saved, i - 1, Catches)'
             /\ stack'[i].kind \in Handlers \cup {"start"}
                  => InForce(stack[i].saved, i - 1, Handlers)'
  <2>1. CASE i = Depth + 1
    BY <2>1, <1>1, <1>2 DEF IInv, PointersInForce, InForce
  <2>2. CASE i \in 1..Depth
    BY <2>2, <1>1, <1>2 DEF IInv, PointersInForce, InForce
  <2>. QED  BY <1>1, <1>2, <2>1, <2>2
<1>9. PointersInForce'
  BY <1>6, <1>7, <1>8 DEF PointersInForce
<1>. QED  BY <1>2, <1>3, <1>4, <1>5, <1>9

LEMMA CutStep ==
  ASSUME IInv, NEW n \in DOMAIN stack, stack' = Outside(n),
         est_errjmp' \in Refs, catch_framep' \in Refs,
         InForce(est_errjmp', n - 1, Handlers), InForce(catch_framep', n - 1, Catches),
         jump' = None
  PROVE  /\ stack' \in Seq(Frames) /\ Len(stack') \in 0..MaxDepth
         /\ InPlace' /\ PointersInForce' /\ SearchOnCourse'
<1>1. /\ stack \in Seq(Frames) /\ Len(stack) \in Nat /\ Len(stack) <= MaxDepth
      /\ n \in 1..Len(stack)
  BY DEF IInv, TypeOK
<1>2. /\ stack' \in Seq(Frames) /\ Len(stack') = n - 1
      /\ \A i \in 1..(n - 1) : stack'[i] = stack[i]
  BY <1>1, OutsideFacts DEF Outside
<1>3. InPlace'
  <2>1. \A i \in DOMAIN stack' : i \in DOMAIN stack /\ stack'[i] = stack[i]
    BY <1>1, <1>2
  <2>. QED  BY <2>1 DEF IInv, InPlace
<1>4. SearchOnCourse'
  BY DEF SearchOnCourse, None
<1>5. InForce(est_errjmp, Depth, Handlers)' /\ InForce(catch_framep, Depth, Catches)'
  BY <1>1, <1>2 DEF InForce
<1>6. ASSUME NEW i \in DOMAIN stack'
      PROVE  /\ stack'[i].kind \in Catches => InForce(stack[i].saved, i - 1, Catches)'
             /\ stack'[i].kind \in Handlers \cup {"start"}
                  => InForce(stack[i].saved, i - 1, Handlers)'
  <2>1. i \in 1..(n - 1) /\ i \in DOMAIN stack /\ stack'[i] = stack[i]
    BY <1>1, <1>2
  <2>2. \A j \in 1..(i - 1) : stack'[j] = stack[j]
    BY <1>1, <1>2, <2>1
  <2>3. /\ stack[i].kind \in Catches => InForce(stack[i].saved, i - 1, Catches)
        /\ stack[i].kind \in Handlers \cup {"start"}
             => InForce(stack[i].saved, i - 1, Handlers)
    BY <2>1 DEF IInv, PointersInForce
  <2>. QED  BY <2>1, <2>2, <2>3 DEF InForce
<1>7. PointersInForce'
  BY <1>5, <1>6 DEF PointersInForce
<1>. QED  BY <1>1, <1>2, <1>3, <1>4, <1>7, DepthAssumption

LEMMA BecomeStep ==
  ASSUME IInv, NEW n \in DOMAIN stack, NEW g \in Frames, stack' = Becomes(n, g),
         g.kind \notin Catches, g.tag = NoTag,
         g.kind \in Handlers => g.buf # "none", g.buf = "tidying" => g.kind = "after",
         est_errjmp' \in Refs, catch_framep' \in Refs,
         g.kind \in Handlers => est_errjmp' = n,
         g.kind \notin Handlers => InForce(est_errjmp', n - 1, Handlers),
         g.kind \in Handlers \cup {"start"} => InForce(g.saved, n - 1, Handlers),
         InForce(catch_framep', n - 1, Catches),
         jump' \in {None, Error}
  PROVE  /\ stack' \in Seq(Frames) /\ Len(stack') \in 0..MaxDepth
         /\ InPlace' /\ PointersInForce' /\ SearchOnCourse'
<1>1. /\ stack \in Seq(Frames) /\ Len(stack) \in Nat /\ Len(stack) <= MaxDepth
      /\ n \in 1..Len(stack)
  BY DEF IInv, TypeOK
<1>2. /\ stack' \in Seq(Frames) /\ Len(stack') = n
      /\ \A i \in 1..(n - 1) : stack'[i] = stack[i]
      /\ stack'[n] = g
  BY <1>1, OutsideFacts, AppendFacts DEF Outside, Becomes
<1>3. InPlace'
  BY <1>1, <1>2, TagAssumption DEF IInv, InPlace
<1>4. SearchOnCourse'
  BY DEF SearchOnCourse, None, Error
<1>5. InForce(est_errjmp, Depth, Handlers)' /\ InForce(catch_framep, Depth, Catches)'
  BY <1>1, <1>2 DEF InForce
<1>6. ASSUME NEW i \in DOMAIN stack'
      PROVE  /\ stack'[i].kind \in Catches => InForce(stack[i].saved, i - 1, Catches)'
             /\ stack'[i].kind \in Handlers \cup {"start"}
                  => InForce(stack[i].saved, i - 1, Handlers)'
  <2>1. CASE i = n
    BY <2>1, <1>1, <1>2 DEF InForce
  <2>2. CASE i # n
    <3>1. i \in 1..(n - 1) /\ i \in DOMAIN stack /\ stack'[i] = stack[i]
      BY <1>1, <1>2, <2>2
    <3>2. \A j \in 1..(i - 1) : stack'[j] = stack[j]
      BY <1>1, <1>2, <3>1
    <3>3. /\ stack[i].kind \in Catches => InForce(stack[i].saved, i - 1, Catches)
          /\ stack[i].kind \in Handlers \cup {"start"}
               => InForce(stack[i].saved, i - 1, Handlers)
      BY <3>1 DEF IInv, PointersInForce
    <3>. QED  BY <3>1, <3>2, <3>3 DEF InForce
  <2>. QED  BY <2>1, <2>2
<1>7. PointersInForce'
  BY <1>5, <1>6 DEF PointersInForce
<1>. QED  BY <1>1, <1>2, <1>3, <1>4, <1>7, DepthAssumption

(* What a frame does to its jmp_buf changes no pointer.                    *)
LEMMA BufferStep ==
  ASSUME IInv, Depth > 0, NEW b \in {"set", "freed"}, Buffer(b), Top.buf \in {"unset", "set"}
  PROVE  IInv' /\ Seen(stack') = Seen(stack)
<1>1. /\ stack \in Seq(Frames) /\ Len(stack) \in Nat /\ Len(stack) <= MaxDepth
      /\ Depth \in 1..Len(stack) /\ stack' = Becomes(Depth, [Top EXCEPT !.buf = b])
      /\ UNCHANGED <<est_errjmp, catch_framep, jump, at, filing, interrupts, status>>
  BY DEF IInv, TypeOK, Buffer
<1>2. /\ [Top EXCEPT !.buf = b] \in Frames
      /\ [Top EXCEPT !.buf = b].kind = Top.kind /\ [Top EXCEPT !.buf = b].tag = Top.tag
      /\ [Top EXCEPT !.buf = b].saved = Top.saved /\ [Top EXCEPT !.buf = b].buf = b
  <2>1. Top \in Frames
    BY <1>1
  <2>. QED  BY <2>1 DEF Frames
<1>3. /\ stack' \in Seq(Frames) /\ Len(stack') = Len(stack)
      /\ \A i \in 1..(Depth - 1) : stack'[i] = stack[i]
      /\ stack'[Depth] = [Top EXCEPT !.buf = b]
  <2>. DEFINE g == [Top EXCEPT !.buf = b]
  <2>1. g \in Frames /\ stack' = Becomes(Depth, g)
    BY <1>1, <1>2
  <2>. HIDE DEF g
  <2>2. /\ stack' \in Seq(Frames) /\ Len(stack') = Len(stack)
        /\ \A i \in 1..(Depth - 1) : stack'[i] = stack[i]
        /\ stack'[Depth] = g
    <3>1. stack \in Seq(Frames) /\ Depth \in 1..Len(stack) /\ Depth = Len(stack)
      BY <1>1
    <3>2. /\ Becomes(Depth, g) \in Seq(Frames) /\ Len(Becomes(Depth, g)) = Depth
          /\ \A i \in 1..(Depth - 1) : Becomes(Depth, g)[i] = stack[i]
          /\ Becomes(Depth, g)[Depth] = g
      BY <2>1, <3>1, BecomesFacts
    <3>. QED  BY <2>1, <3>2, Zenon
  <2>. QED  BY <2>2 DEF g
<1>4. DOMAIN stack' = DOMAIN stack /\ DOMAIN stack = 1..Len(stack)
  BY <1>1, <1>3
<1>5. ASSUME NEW i \in DOMAIN stack
      PROVE  /\ stack'[i].kind = stack[i].kind /\ stack'[i].tag = stack[i].tag
             /\ stack'[i].saved = stack[i].saved
             /\ stack'[i].buf \in {stack[i].buf, "set", "freed"}
  <2>1. CASE i = Depth
    BY <1>2, <1>3, <2>1
  <2>2. CASE i # Depth
    BY <1>1, <1>3, <1>4, <2>2
  <2>. QED  BY <2>1, <2>2
<1>6. InPlace'
  BY <1>4, <1>5 DEF IInv, InPlace
<1>7. ASSUME NEW q, NEW n \in 0..Depth, NEW kinds, InForce(q, n, kinds)
      PROVE  /\ q # Gone => /\ q \in 0..n
                            /\ q > 0 => stack'[q].kind \in kinds
                            /\ \A j \in 1..n : j > q => stack'[j].kind \notin kinds
  BY <1>1, <1>4, <1>5, <1>7 DEF InForce
<1>8. InForce(est_errjmp, Depth, Handlers)' /\ InForce(catch_framep, Depth, Catches)'
  <2>1. InForce(est_errjmp, Depth, Handlers) /\ InForce(catch_framep, Depth, Catches)
    BY DEF IInv, PointersInForce
  <2>2. est_errjmp' = est_errjmp /\ catch_framep' = catch_framep /\ Depth \in 0..Depth
    BY <1>1
  <2>3. InForce(est_errjmp, Depth, Handlers)'
    BY <1>3, <1>7, <2>1, <2>2 DEF InForce
  <2>4. InForce(catch_framep, Depth, Catches)'
    BY <1>3, <1>7, <2>1, <2>2 DEF InForce
  <2>. QED  BY <2>3, <2>4
<1>9. ASSUME NEW i \in DOMAIN stack'
      PROVE  /\ stack'[i].kind \in Catches => InForce(stack[i].saved, i - 1, Catches)'
             /\ stack'[i].kind \in Handlers \cup {"start"}
                  => InForce(stack[i].saved, i - 1, Handlers)'
  <2>1. i \in DOMAIN stack /\ i - 1 \in 0..Depth
    BY <1>1, <1>4
  <2>2. /\ stack[i].kind \in Catches => InForce(stack[i].saved, i - 1, Catches)
        /\ stack[i].kind \in Handlers \cup {"start"}
             => InForce(stack[i].saved, i - 1, Handlers)
    BY <2>1 DEF IInv, PointersInForce
  <2>. QED  BY <1>5, <1>7, <2>1, <2>2 DEF InForce
<1>10. PointersInForce'
  BY <1>8, <1>9 DEF PointersInForce
<1>11. SearchOnCourse'
  <2>1. SearchOnCourse /\ jump' = jump /\ at' = at /\ Len(stack') = Len(stack)
    BY <1>1, <1>3 DEF IInv
  <2>2. \A i \in DOMAIN stack : /\ stack'[i].kind = stack[i].kind
                               /\ stack'[i].tag = stack[i].tag
    BY <1>5
  <2>. QED  BY <1>1, <1>4, <2>1, <2>2 DEF SearchOnCourse
<1>12. TypeOK'
  BY <1>1, <1>3 DEF IInv, TypeOK, filing, interrupts
<1>13. Seen(stack') = Seen(stack)
  <2>1. \A i \in DOMAIN stack : ScopeOf(stack'[i]) = ScopeOf(stack[i])
    BY <1>5 DEF ScopeOf
  <2>. QED  BY <1>4, <2>1 DEF Seen
<1>. QED  BY <1>6, <1>10, <1>11, <1>12, <1>13 DEF IInv

(* A pointer in force is in force further out when no frame of its kind is *)
(* left, and dangles or stands further out when one is.                    *)
LEMMA LeftInForce ==
  ASSUME NEW n \in DOMAIN stack, stack \in Seq(Frames), NEW kinds,
         NEW r \in Refs, InForce(r, Depth, kinds)
  PROVE  Left(r, n) \in Refs /\ InForce(Left(r, n), n - 1, kinds)
BY DEF InForce, Left

LEMMA KeepInForce ==
  ASSUME NEW kinds, stack \in Seq(Frames), NEW n \in DOMAIN stack,
         NEW r \in Refs, InForce(r, n, kinds), stack[n].kind \notin kinds
  PROVE  InForce(r, n - 1, kinds)
BY DEF InForce
-----------------------------------------------------------------------------
(* What an exit leaves behind is of its type as well.                      *)
Others ==
  /\ at \in Refs
  /\ jump \in {None, Error, Quit} \cup {Throw(t) : t \in Tags}
  /\ open_files \in Seq(Files) /\ open \subseteq Files
  /\ siod_ctrl_c \in BOOLEAN
  /\ nointerrupt \in 0..1 /\ interrupt_differed \in 0..1
  /\ status \in {"running", "ended", "wild"}

LEMMA Together ==
  ASSUME Others', stack' \in Seq(Frames), Len(stack') \in 0..MaxDepth,
         est_errjmp' \in Refs, catch_framep' \in Refs,
         InPlace', PointersInForce', SearchOnCourse'
  PROVE  IInv'
BY DepthAssumption DEF Others, IInv, TypeOK

LEMMA ListFacts ==
  ASSUME NEW s \in Seq(Files), NEW m \in 1..(Len(s) + 1), NEW n \in 0..Len(s)
  PROVE  SubSeq(s, m, Len(s)) \in Seq(Files) /\ SubSeq(s, 1, n) \in Seq(Files)
OBVIOUS

LEMMA UptoType ==
  ASSUME Others, NEW end, close_open_files_upto(end)
  PROVE  open_files' \in Seq(Files) /\ open' \subseteq Files
<1>1. PICK k \in 0..Len(open_files) :
        /\ open' = open \ {open_files[j] : j \in 1..k}
        /\ open_files' = SubSeq(open_files, k + 1, Len(open_files))
  BY DEF close_open_files_upto
<1>2. k + 1 \in 1..(Len(open_files) + 1) /\ k \in 0..Len(open_files)
  BY DEF Others
<1>. QED  BY <1>1, <1>2, ListFacts DEF Others

LEMMA ScopeSteps ==
  ASSUME IInv,
         \/ \E t \in Tags : EnterCatch(t)
         \/ LeaveCatch \/ EnterUnwindProtect \/ LeaveUnwindProtect
         \/ EnterMode \/ ModeBegins \/ ModeEnds \/ LeaveAfter
         \/ setjmp \/ wfree \/ UnwindProtectCatches \/ UnwindProtectTidies \/ ModeCatches
  PROVE  IInv'
<1>0. /\ stack \in Seq(Frames) /\ Len(stack) \in Nat /\ Len(stack) <= MaxDepth
      /\ DOMAIN stack = 1..Len(stack)
      /\ est_errjmp \in Refs /\ catch_framep \in Refs /\ Others
  BY DEF IInv, TypeOK, Others
<1>1. ASSUME NEW i \in DOMAIN stack
      PROVE  /\ stack[i] \in Frames /\ stack[i].saved \in Refs
             /\ stack[i].kind \in Catches => InForce(stack[i].saved, i - 1, Catches)
             /\ stack[i].kind \in Handlers \cup {"start"}
                  => InForce(stack[i].saved, i - 1, Handlers)
  <2>1. stack[i] \in Frames
    BY <1>0
  <2>2. stack[i].saved \in Refs
    BY <2>1 DEF Frames
  <2>. QED  BY <2>1, <2>2 DEF IInv, PointersInForce
<1>2. InForce(est_errjmp, Depth, Handlers) /\ InForce(catch_framep, Depth, Catches)
  BY DEF IInv, PointersInForce
<1>3. After \in Frames /\ After.kind = "after" /\ After.tag = NoTag /\ After.buf = "none"
  BY DepthAssumption, FrameTypes DEF After, Frame
<1>4. CASE \E t \in Tags : EnterCatch(t)
  <2>1. PICK t \in Tags : EnterCatch(t)
    BY <1>4
  <2>2. /\ Frame("catch", t, catch_framep) \in Frames
        /\ Frame("catch", t, catch_framep).kind = "catch"
        /\ Frame("catch", t, catch_framep).tag = t
        /\ Frame("catch", t, catch_framep).saved = catch_framep
        /\ Frame("catch", t, catch_framep).buf = "none"
    BY <1>0, FrameTypes DEF Frame
  <2>3. Push(Frame("catch", t, catch_framep)) /\ catch_framep' = Depth + 1
        /\ est_errjmp' = est_errjmp /\ UNCHANGED <<jump, at>>
    BY <2>1 DEF EnterCatch
  <2>4. Others'
    BY <1>0, <2>1 DEF Others, EnterCatch, filing, interrupts
  <2>. QED  BY <2>2, <2>3, <2>4, PushStep, Together DEF Catches, Handlers
<1>5. CASE EnterUnwindProtect
  <2>. DEFINE f == [Frame("unwind", NoTag, est_errjmp) EXCEPT
                      !.files = IF open_files = <<>> THEN Nil ELSE Head(open_files),
                      !.had   = open, !.buf = "unset"]
  <2>1. (IF open_files = <<>> THEN Nil ELSE Head(open_files)) \in Files \cup {Nil}
    BY <1>0 DEF Others
  <2>2. /\ f \in Frames /\ f.kind = "unwind" /\ f.tag = NoTag
        /\ f.saved = est_errjmp /\ f.buf = "unset"
    BY <1>0, <2>1 DEF Frame, Frames, Others
  <2>3. Push(f) /\ est_errjmp' = Depth + 1
        /\ catch_framep' = catch_framep /\ UNCHANGED <<jump, at>>
    BY <1>5 DEF EnterUnwindProtect
  <2>4. Others'
    BY <1>0, <1>5 DEF Others, EnterUnwindProtect, filing, interrupts
  <2>. HIDE DEF f
  <2>. QED  BY <2>2, <2>3, <2>4, PushStep, Together, TagAssumption DEF Catches, Handlers
<1>6. CASE EnterMode
  <2>1. /\ Frame("start", NoTag, est_errjmp) \in Frames
        /\ Frame("start", NoTag, est_errjmp).kind = "start"
        /\ Frame("start", NoTag, est_errjmp).tag = NoTag
        /\ Frame("start", NoTag, est_errjmp).saved = est_errjmp
        /\ Frame("start", NoTag, est_errjmp).buf = "none"
    BY <1>0, FrameTypes DEF Frame
  <2>2. Push(Frame("start", NoTag, est_errjmp)) /\ UNCHANGED <<est_errjmp, catch_framep, jump, at>>
    BY <1>6 DEF EnterMode
  <2>3. Others'
    BY <1>0, <1>6 DEF Others, EnterMode, filing, interrupts
  <2>. QED  BY <2>1, <2>2, <2>3, PushStep, Together, TagAssumption DEF Catches, Handlers
<1>7. CASE LeaveCatch
  <2>1. /\ Depth \in DOMAIN stack /\ stack[Depth].kind = "catch"
        /\ stack' = Outside(Depth) /\ jump' = None
        /\ est_errjmp' = est_errjmp /\ catch_framep' = stack[Depth].saved
    BY <1>0, <1>7 DEF LeaveCatch, Pop
  <2>2. InForce(est_errjmp', Depth - 1, Handlers) /\ est_errjmp' \in Refs
    BY <1>0, <1>2, <2>1, KeepInForce DEF Handlers
  <2>3. InForce(catch_framep', Depth - 1, Catches) /\ catch_framep' \in Refs
    BY <1>1, <2>1 DEF Catches
  <2>4. Others'
    BY <1>0, <1>7 DEF Others, LeaveCatch, filing, interrupts
  <2>. QED  BY <2>1, <2>2, <2>3, <2>4, CutStep, Together
<1>8. CASE LeaveUnwindProtect
  <2>1. /\ Depth \in DOMAIN stack /\ stack[Depth].kind = "unwind"
        /\ stack' = Outside(Depth) /\ jump' = None
        /\ est_errjmp' = stack[Depth].saved /\ catch_framep' = catch_framep
    BY <1>0, <1>8 DEF LeaveUnwindProtect, Pop
  <2>2. InForce(est_errjmp', Depth - 1, Handlers) /\ est_errjmp' \in Refs
    BY <1>1, <2>1 DEF Handlers
  <2>3. InForce(catch_framep', Depth - 1, Catches) /\ catch_framep' \in Refs
    BY <1>0, <1>2, <2>1, KeepInForce DEF Catches
  <2>4. Others'
    BY <1>0, <1>8 DEF Others, LeaveUnwindProtect, filing, interrupts
  <2>. QED  BY <2>1, <2>2, <2>3, <2>4, CutStep, Together
<1>9. CASE LeaveAfter
  <2>1. /\ Depth \in DOMAIN stack /\ stack[Depth].kind = "after"
        /\ stack' = Outside(Depth) /\ jump' = None
        /\ est_errjmp' = est_errjmp /\ catch_framep' = catch_framep
    BY <1>0, <1>9 DEF LeaveAfter, Pop
  <2>2. /\ InForce(est_errjmp', Depth - 1, Handlers) /\ est_errjmp' \in Refs
        /\ InForce(catch_framep', Depth - 1, Catches) /\ catch_framep' \in Refs
    BY <1>0, <1>2, <2>1, KeepInForce DEF Handlers, Catches
  <2>3. Others'
    BY <1>0, <1>9 DEF Others, LeaveAfter, filing, interrupts
  <2>. QED  BY <2>1, <2>2, <2>3, CutStep, Together
<1>10. CASE ModeBegins
  <2>. DEFINE g == [Top EXCEPT !.kind = "mode", !.buf = "unset"]
  <2>1. /\ Depth \in DOMAIN stack /\ stack[Depth].kind = "start"
        /\ stack' = Becomes(Depth, g) /\ jump' = None
        /\ est_errjmp' = Depth /\ catch_framep' = catch_framep
    BY <1>0, <1>10 DEF ModeBegins
  <2>2. stack[Depth].tag = NoTag
    BY <1>1, <2>1 DEF IInv, InPlace, Frames, Catches
  <2>3. g \in Frames /\ g.kind = "mode" /\ g.tag = NoTag /\ g.saved = stack[Depth].saved
        /\ g.buf = "unset"
    BY <1>1, <2>1, <2>2 DEF Frames
  <2>4. InForce(g.saved, Depth - 1, Handlers)
    BY <1>1, <2>1, <2>3
  <2>5. InForce(catch_framep', Depth - 1, Catches) /\ catch_framep' \in Refs
    BY <1>0, <1>2, <2>1, KeepInForce DEF Catches
  <2>6. Others'
    BY <1>0, <1>10 DEF Others, ModeBegins, filing, interrupts
  <2>7. est_errjmp' \in Refs
    BY <1>0, <2>1, DepthAssumption
  <2>. HIDE DEF g
  <2>. QED  BY <2>1, <2>3, <2>4, <2>5, <2>6, <2>7, BecomeStep, Together DEF Catches, Handlers
<1>11. CASE ModeEnds
  <2>1. /\ Depth \in DOMAIN stack /\ stack[Depth].kind = "mode"
        /\ stack' = Becomes(Depth, After) /\ jump' = None
        /\ est_errjmp' = stack[Depth].saved /\ catch_framep' = catch_framep
    BY <1>0, <1>11 DEF ModeEnds
  <2>2. InForce(est_errjmp', Depth - 1, Handlers) /\ est_errjmp' \in Refs
    BY <1>1, <2>1 DEF Handlers
  <2>3. InForce(catch_framep', Depth - 1, Catches) /\ catch_framep' \in Refs
    BY <1>0, <1>2, <2>1, KeepInForce DEF Catches
  <2>4. Others'
    BY <1>0, <1>11 DEF Others, ModeEnds, filing, interrupts
  <2>. QED  BY <1>3, <2>1, <2>2, <2>3, <2>4, BecomeStep, Together DEF Catches, Handlers
<1>12. CASE setjmp \/ wfree
  BY <1>12, BufferStep DEF setjmp, wfree
<1>13. CASE UnwindProtectCatches
  <2>. DEFINE g == [After EXCEPT !.files = Top.files, !.had = Top.had, !.buf = "tidying"]
  <2>1. /\ Depth \in DOMAIN stack /\ stack[Depth].kind = "unwind"
        /\ stack' = Becomes(Depth, g) /\ jump' = None
        /\ est_errjmp' = stack[Depth].saved /\ catch_framep' = catch_framep
    BY <1>0, <1>13 DEF UnwindProtectCatches
  <2>2. InForce(est_errjmp', Depth - 1, Handlers) /\ est_errjmp' \in Refs
    BY <1>1, <2>1 DEF Handlers
  <2>3. InForce(catch_framep', Depth - 1, Catches) /\ catch_framep' \in Refs
    BY <1>0, <1>2, <2>1, KeepInForce DEF Catches
  <2>4. Others'
    BY <1>0, <1>13 DEF Others, UnwindProtectCatches, siod_reset_prompt, filing
  <2>5. g \in Frames /\ g.kind = "after" /\ g.tag = NoTag
    <3>1. stack[Depth] \in Frames
      BY <1>1, <2>1
    <3>. QED  BY <1>3, <3>1 DEF Frames
  <2>. HIDE DEF g
  <2>. QED  BY <2>1, <2>2, <2>3, <2>4, <2>5, BecomeStep, Together DEF Catches, Handlers
<1>14. CASE UnwindProtectTidies
  <2>1. /\ Depth \in DOMAIN stack /\ stack[Depth].kind = "after"
        /\ stack' = Becomes(Depth, After) /\ jump' \in {None, Error}
        /\ est_errjmp' = est_errjmp /\ catch_framep' = catch_framep
    BY <1>0, <1>14 DEF UnwindProtectTidies, Forward, IInv, InPlace
  <2>2. /\ InForce(est_errjmp', Depth - 1, Handlers) /\ est_errjmp' \in Refs
        /\ InForce(catch_framep', Depth - 1, Catches) /\ catch_framep' \in Refs
    BY <1>0, <1>2, <2>1, KeepInForce DEF Handlers, Catches
  <2>3. Others'
    BY <1>0, <1>14, UptoType DEF Others, UnwindProtectTidies, Forward
  <2>. QED  BY <1>3, <2>1, <2>2, <2>3, BecomeStep, Together DEF Catches, Handlers
<1>15. CASE ModeCatches
  <2>1. /\ Depth \in DOMAIN stack /\ stack[Depth].kind = "mode"
        /\ stack' = Becomes(Depth, After) /\ jump' \in {None, Error}
        /\ est_errjmp' = stack[Depth].saved /\ catch_framep' = catch_framep
    BY <1>0, <1>15 DEF ModeCatches, Forward
  <2>2. InForce(est_errjmp', Depth - 1, Handlers) /\ est_errjmp' \in Refs
    BY <1>1, <2>1 DEF Handlers
  <2>3. InForce(catch_framep', Depth - 1, Catches) /\ catch_framep' \in Refs
    BY <1>0, <1>2, <2>1, KeepInForce DEF Catches
  <2>4. Others'
    BY <1>0, <1>15 DEF Others, ModeCatches, Forward, filing
  <2>. QED  BY <1>3, <2>1, <2>2, <2>3, <2>4, BecomeStep, Together DEF Catches, Handlers
<1>. QED  BY <1>4, <1>5, <1>6, <1>7, <1>8, <1>9, <1>10, <1>11, <1>12, <1>13, <1>14, <1>15

(* The steps that start an exit, or open and close files.                  *)
LEMMA SameStack ==
  ASSUME IInv, UNCHANGED pointers, Others', SearchOnCourse'
  PROVE  IInv'
<1>1. /\ stack' = stack /\ est_errjmp' = est_errjmp /\ catch_framep' = catch_framep
  BY DEF pointers
<1>. QED  BY <1>1 DEF IInv, TypeOK, Others, InPlace, PointersInForce, InForce

LEMMA ExitSteps ==
  ASSUME IInv,
         \/ err \/ siod_quit \/ handle_sigint \/ repl
         \/ \E t \in Tags : lthrow(t)
         \/ \E c \in Files : fd_to_scheme_file(c) \/ fclose_l(c) \/ file_gc_free(c)
  PROVE  IInv'
<1>0. /\ stack \in Seq(Frames) /\ Len(stack) \in Nat /\ Len(stack) <= MaxDepth
      /\ est_errjmp \in Refs /\ catch_framep \in Refs /\ Others
  BY DEF IInv, TypeOK, Others
<1>1. CASE err
  <2>1. Others'
    BY <1>0, <1>1 DEF err, Others, filing
  <2>. QED  BY <1>1, <2>1, SameStack DEF err, SearchOnCourse, Error
<1>2. CASE siod_quit
  <2>1. Others'
    <3>1. <<>> \in Seq(Files)
      OBVIOUS
    <3>. QED  BY <1>0, <1>2, <3>1 DEF siod_quit, Others, interrupts
  <2>. QED  BY <1>2, <2>1, SameStack DEF siod_quit, SearchOnCourse, Quit
<1>3. CASE handle_sigint
  <2>1. Others'
    <3>1. /\ jump' \in {jump, Error} /\ interrupt_differed' \in {1, interrupt_differed}
          /\ siod_ctrl_c' \in {TRUE, siod_ctrl_c} /\ nointerrupt' \in {1, nointerrupt}
          /\ at' \in {0, at} /\ UNCHANGED <<filing, status>>
      BY <1>3 DEF handle_sigint
    <3>2. jump' \in {None, Error, Quit} \cup {Throw(t) : t \in Tags}
      BY <1>0, <3>1 DEF Others
    <3>3. nointerrupt' \in 0..1 /\ interrupt_differed' \in 0..1
      <4>1. nointerrupt \in 0..1 /\ interrupt_differed \in 0..1
        BY <1>0 DEF Others
      <4>. QED  BY <3>1, <4>1
    <3>4. siod_ctrl_c' \in BOOLEAN
      BY <1>0, <3>1 DEF Others
    <3>5. at' \in Refs
      BY <1>0, <3>1, DepthAssumption DEF Others
    <3>. QED  BY <1>0, <3>1, <3>2, <3>3, <3>4, <3>5 DEF Others, filing
  <2>2. UNCHANGED pointers /\ (UNCHANGED <<jump, at>> \/ jump' = Error)
    BY <1>3 DEF handle_sigint
  <2>3. SearchOnCourse'
    BY <2>2, Signals DEF IInv, SearchOnCourse, pointers
  <2>. QED  BY <2>1, <2>2, <2>3, SameStack
<1>4. CASE repl
  <2>1. Others'
    BY <1>0, <1>4 DEF repl, Others, filing, interrupts
  <2>. QED  BY <1>4, <2>1, SameStack DEF repl, SearchOnCourse, None
<1>5. CASE \E t \in Tags : lthrow(t)
  <2>1. PICK t \in Tags : lthrow(t)
    BY <1>5
  <2>2. Others'
    BY <1>0, <2>1 DEF lthrow, Others, filing, interrupts
  <2>3. InForce(catch_framep, Depth, Catches)
    BY DEF IInv, PointersInForce
  <2>4. SearchOnCourse'
    BY <1>0, <2>1, <2>3 DEF lthrow, SearchOnCourse, Throw, InForce, pointers, Catches
  <2>. QED  BY <2>1, <2>2, <2>4, SameStack DEF lthrow
<1>6. ASSUME NEW c \in Files, fd_to_scheme_file(c) \/ fclose_l(c) \/ file_gc_free(c)
      PROVE  IInv'
  <2>1. /\ UNCHANGED <<pointers, jump, at, interrupts, status>> /\ jump = None
        /\ open' \subseteq Files
    BY <1>0, <1>6 DEF fd_to_scheme_file, fclose_l, file_gc_free, Others
  <2>2. open_files' \in Seq(Files)
    <3>1. CASE fd_to_scheme_file(c)
      BY <1>0, <3>1 DEF fd_to_scheme_file, Others
    <3>2. CASE file_gc_free(c)
      BY <1>0, <3>2 DEF file_gc_free, Others
    <3>3. CASE fclose_l(c)
      <4>1. CASE UNCHANGED open_files
        BY <1>0, <4>1 DEF Others
      <4>2. CASE ~UNCHANGED open_files
        <5>1. PICK i \in DOMAIN open_files :
                open_files' = SubSeq(open_files, 1, i - 1)
                              \o SubSeq(open_files, i + 1, Len(open_files))
          BY <3>3, <4>2 DEF fclose_l
        <5>2. i - 1 \in 0..Len(open_files) /\ i + 1 \in 1..(Len(open_files) + 1)
          BY <1>0 DEF Others
        <5>. QED  BY <1>0, <5>1, <5>2, ListFacts DEF Others
      <4>. QED  BY <4>1, <4>2
    <3>. QED  BY <1>6, <3>1, <3>2, <3>3
  <2>3. Others'
    BY <1>0, <2>1, <2>2 DEF Others, interrupts
  <2>. QED  BY <2>1, <2>3, SameStack DEF SearchOnCourse, None
<1>. QED  BY <1>1, <1>2, <1>3, <1>4, <1>5, <1>6

(* The places where exits land.                                            *)
LEMMA ErrorLandsKeeps ==
  ASSUME IInv, ErrorLands
  PROVE  IInv'
<1>. DEFINE n == est_errjmp
            g == [stack[n] EXCEPT !.buf = "caught"]
<1>1. /\ stack \in Seq(Frames) /\ Len(stack) \in Nat /\ Len(stack) <= MaxDepth
      /\ n \in Refs /\ catch_framep \in Refs /\ n > 0
      /\ InForce(n, Depth, Handlers) /\ InForce(catch_framep, Depth, Catches)
  BY DEF IInv, TypeOK, PointersInForce, ErrorLands
<1>2. n \in DOMAIN stack /\ stack[n].kind \in Handlers
  BY <1>1 DEF InForce
<1>3. stack[n] \in Frames
  BY <1>1, <1>2
<1>4. /\ g \in Frames /\ g.kind \in Handlers /\ g.tag = NoTag /\ g.buf = "caught"
      /\ g.saved = stack[n].saved
  <2>1. g \in Frames /\ g.kind = stack[n].kind /\ g.tag = stack[n].tag
        /\ g.buf = "caught" /\ g.saved = stack[n].saved
    BY <1>3 DEF Frames
  <2>2. stack[n].tag = NoTag
    BY <1>2, <1>3 DEF IInv, InPlace, Frames, Handlers, Catches
  <2>. QED  BY <1>2, <2>1, <2>2
<1>5. InForce(g.saved, n - 1, Handlers)
  BY <1>2, <1>4 DEF IInv, PointersInForce
<1>6. catch_framep' \in Refs /\ InForce(catch_framep', n - 1, Catches)
  BY <1>1, <1>2, LeftInForce DEF ErrorLands
<1>7. stack' = Becomes(n, g) /\ jump' = None /\ est_errjmp' = n
  BY DEF ErrorLands
<1>8. Others'
  BY DEF IInv, TypeOK, Others, ErrorLands, filing, interrupts
<1>. HIDE DEF n, g
<1>. QED  BY <1>1, <1>2, <1>4, <1>5, <1>6, <1>7, <1>8, BecomeStep, Together
          DEF Catches, Handlers

LEMMA LandSteps ==
  ASSUME IInv, Land
  PROVE  IInv'
<1>0. /\ stack \in Seq(Frames) /\ Len(stack) \in Nat /\ Len(stack) <= MaxDepth
      /\ est_errjmp \in Refs /\ catch_framep \in Refs /\ Others
      /\ SearchOnCourse
  BY DEF IInv, TypeOK, Others
<1>1. CASE GoWild
  <2>1. Others' /\ UNCHANGED <<pointers, jump, at>>
    BY <1>0, <1>1 DEF GoWild, Others, filing, interrupts
  <2>. QED  BY <1>0, <2>1, SameStack DEF SearchOnCourse, pointers
<1>2. CASE ErrorLands
  BY <1>2, ErrorLandsKeeps
<1>3. CASE ReplCatches
  <2>1. open_files' \in Seq(Files) /\ open' \subseteq Files
    BY <1>0, <1>3, UptoType DEF ReplCatches, Others, filing
  <2>2. Others'
    <3>1. /\ jump' = None /\ interrupt_differed' = 0 /\ nointerrupt' = 0 /\ at' = at
          /\ siod_ctrl_c' \in {FALSE, siod_ctrl_c} /\ status' \in {"ended", status}
      BY <1>3 DEF ReplCatches, siod_reset_prompt
    <3>2. nointerrupt' \in 0..1 /\ interrupt_differed' \in 0..1
      BY <3>1
    <3>3. siod_ctrl_c' \in BOOLEAN /\ status' \in {"running", "ended", "wild"}
      BY <1>0, <3>1 DEF Others
    <3>. QED  BY <1>0, <2>1, <3>1, <3>2, <3>3 DEF Others
  <2>3. /\ stack' = <<>> /\ <<>> \in Seq(Frames) /\ Len(stack') = 0
        /\ DOMAIN stack' = {}
        /\ est_errjmp' = 0 /\ catch_framep' = 0 /\ jump' = None
    BY <1>3 DEF ReplCatches
  <2>4. InPlace' /\ PointersInForce' /\ SearchOnCourse'
    BY <2>3, Signals DEF InPlace, PointersInForce, SearchOnCourse, InForce, None
  <2>. QED  BY <2>2, <2>3, <2>4, Together, DepthAssumption
<1>4. CASE CatchFound
  <2>1. /\ at \in DOMAIN stack /\ stack[at].kind \in Catches
    BY <1>0, <1>4 DEF CatchFound, SearchOnCourse
  <2>2. /\ stack[at].saved \in Refs /\ InForce(stack[at].saved, at - 1, Catches)
    <3>1. stack[at] \in Frames
      BY <1>0, <2>1
    <3>. QED  BY <2>1, <3>1 DEF Frames, IInv, PointersInForce
  <2>3. est_errjmp' \in Refs /\ InForce(est_errjmp', at - 1, Handlers)
    BY <1>0, <1>4, <2>1, LeftInForce DEF CatchFound, IInv, PointersInForce
  <2>4. stack' = Outside(at) /\ jump' = None /\ catch_framep' = stack[at].saved
    BY <1>4 DEF CatchFound
  <2>5. Others'
    BY <1>0, <1>4, DepthAssumption DEF CatchFound, Others, filing, interrupts
  <2>. QED  BY <2>1, <2>2, <2>3, <2>4, <2>5, CutStep, Together
<1>5. CASE LookFurther
  <2>1. /\ at \in DOMAIN stack /\ stack[at].kind \in Catches /\ stack[at].tag # jump.tag
        /\ at \in 1..Depth
        /\ \A j \in DOMAIN stack :
             j > at /\ stack[j].kind \in Catches => stack[j].tag # jump.tag
    BY <1>0, <1>5 DEF LookFurther, SearchOnCourse
  <2>2. /\ stack[at].saved \in Refs /\ InForce(stack[at].saved, at - 1, Catches)
    <3>1. stack[at] \in Frames
      BY <1>0, <2>1
    <3>. QED  BY <2>1, <3>1 DEF Frames, IInv, PointersInForce
  <2>3. at' = stack[at].saved /\ UNCHANGED <<pointers, jump>>
    BY <1>5 DEF LookFurther
  <2>4. SearchOnCourse'
    BY <1>0, <2>1, <2>2, <2>3 DEF SearchOnCourse, InForce, pointers
  <2>5. Others'
    BY <1>0, <1>5, <2>2 DEF LookFurther, Others, filing, interrupts
  <2>. QED  BY <2>3, <2>4, <2>5, SameStack
<1>6. CASE NoCatchFound
  <2>1. Others'
    BY <1>0, <1>6 DEF NoCatchFound, Others, filing
  <2>. QED  BY <1>6, <2>1, SameStack DEF NoCatchFound, SearchOnCourse, Error
<1>. QED  BY <1>1, <1>2, <1>3, <1>4, <1>5, <1>6 DEF Land

LEMMA InvStep == IInv /\ [Next]_vars => IInv'
<1>. SUFFICES ASSUME IInv, [Next]_vars PROVE IInv'
  OBVIOUS
<1>1. CASE UNCHANGED vars
  BY <1>1 DEF vars, pointers, filing, interrupts, IInv, TypeOK, InPlace,
     PointersInForce, SearchOnCourse, InForce
<1>2. CASE Next
  BY <1>2, ScopeSteps, ExitSteps, LandSteps DEF Next
<1>. QED  BY <1>1, <1>2

LEMMA Invariance == Spec => []IInv
BY TypeInit, InvStep, PTL DEF Spec
-----------------------------------------------------------------------------
(* Every pointer is a frame on the stack, 0 or known to dangle, whatever   *)
(* errors, throws, quits and interrupts come.                              *)
THEOREM TypeCorrect == Spec => []TypeOK
BY Invariance, PTL DEF IInv

(* The handler in force and the head of the chain of *catches, and what    *)
(* each scope will restore them to, are the innermost of their place or    *)
(* dangle: no jump goes to a live frame that is not the innermost.         *)
THEOREM PointersAreInForce == Spec => []PointersInForce
BY Invariance, PTL DEF IInv

(* An interrupt is an error all the way up to repl_driver, but for the     *)
(* handlers that tidy up on its way.                                       *)
THEOREM InterruptsComeThrough == Spec => []InterruptComesThrough
<1>1. Init => InterruptComesThrough
  BY DEF Init, InterruptComesThrough
<1>2. IInv /\ InterruptComesThrough /\ [Next]_vars => InterruptComesThrough'
  <2>. SUFFICES ASSUME IInv, InterruptComesThrough, [Next]_vars, siod_ctrl_c'
                PROVE  (jump = Error \/ Midway("caught") \/ Midway("tidying"))'
    BY DEF InterruptComesThrough
  <2>. USE DEF InterruptComesThrough
  <2>1. CASE UNCHANGED vars
    BY <2>1 DEF vars, pointers, interrupts
  <2>2. CASE \E t \in Tags : EnterCatch(t) \/ lthrow(t)
    BY <2>2, Signals DEF EnterCatch, lthrow, Push, interrupts
  <2>3. CASE EnterUnwindProtect \/ EnterMode \/ ModeBegins \/ LeaveCatch
             \/ LeaveUnwindProtect \/ ModeEnds \/ LeaveAfter
    BY <2>3, Signals DEF EnterUnwindProtect, EnterMode, ModeBegins, LeaveCatch,
       LeaveUnwindProtect, ModeEnds, LeaveAfter, Push, Pop, interrupts
  <2>4. CASE setjmp \/ wfree
    BY <2>4, Signals DEF setjmp, wfree, Buffer, interrupts
  <2>5. CASE err \/ siod_quit \/ repl
    BY <2>5, Signals DEF err, siod_quit, repl, interrupts
  <2>6. CASE handle_sigint
    BY <2>6, Signals DEF handle_sigint, pointers
  <2>7. CASE \E c \in Files : fd_to_scheme_file(c) \/ fclose_l(c) \/ file_gc_free(c)
    BY <2>7, Signals DEF fd_to_scheme_file, fclose_l, file_gc_free, interrupts
  <2>8. CASE GoWild \/ NoCatchFound
    BY <2>8, Signals DEF GoWild, NoCatchFound, interrupts
  <2>9. CASE LookFurther \/ CatchFound
    BY <2>9, Signals DEF LookFurther, CatchFound, interrupts
  <2>10. CASE ErrorLands /\ status = "running"
    <3>1. /\ stack \in Seq(Frames) /\ Len(stack) \in Nat /\ est_errjmp \in DOMAIN stack
          /\ [stack[est_errjmp] EXCEPT !.buf = "caught"] \in Frames
          /\ [stack[est_errjmp] EXCEPT !.buf = "caught"].buf = "caught"
      <4>1. stack \in Seq(Frames) /\ Len(stack) \in Nat /\ est_errjmp \in DOMAIN stack
        BY <2>10 DEF IInv, TypeOK, PointersInForce, InForce, ErrorLands
      <4>2. stack[est_errjmp] \in Frames
        BY <4>1
      <4>. QED  BY <4>1, <4>2 DEF Frames
    <3>2. Len(stack') = est_errjmp /\ stack'[est_errjmp].buf = "caught" /\ est_errjmp > 0
      BY <2>10, <3>1, OutsideFacts, AppendFacts DEF ErrorLands, Becomes, Outside
    <3>. QED  BY <2>10, <3>2 DEF ErrorLands
  <2>11. CASE UnwindProtectCatches
    <3>. DEFINE g == [After EXCEPT !.files = Top.files, !.had = Top.had, !.buf = "tidying"]
    <3>1. /\ stack \in Seq(Frames) /\ Len(stack) \in Nat /\ Depth \in DOMAIN stack
          /\ g \in Frames /\ g.buf = "tidying"
      <4>1. stack \in Seq(Frames) /\ Len(stack) \in Nat /\ Depth \in DOMAIN stack
        BY <2>11 DEF IInv, TypeOK, UnwindProtectCatches
      <4>2. stack[Depth] \in Frames /\ After \in Frames
        BY <4>1, FrameTypes, DepthAssumption DEF After
      <4>. QED  BY <4>1, <4>2 DEF Frames
    <3>2. stack' = Becomes(Depth, g) /\ jump' = None /\ status' = "running"
      BY <2>11 DEF UnwindProtectCatches
    <3>. HIDE DEF g
    <3>3. Len(stack') = Depth /\ stack'[Depth] = g /\ Depth > 0 /\ Depth \in Nat
      BY <3>1, <3>2, BecomesFacts
    <3>. QED  BY <3>1, <3>2, <3>3
  <2>12. CASE UnwindProtectTidies \/ ModeCatches
    BY <2>12 DEF UnwindProtectTidies, ModeCatches, Forward
  <2>13. CASE ReplCatches
    BY <2>13, Signals DEF ReplCatches
  <2>. QED
    BY <2>1, <2>2, <2>3, <2>4, <2>5, <2>6, <2>7, <2>8, <2>9, <2>10, <2>11, <2>12, <2>13
       DEF Next, Land
<1>. QED  BY <1>1, <1>2, Invariance, PTL DEF Spec
-----------------------------------------------------------------------------
(* What dangles has been left by a throw over a handler or an error over a *)
(* *catch, and nothing else leads a jump astray.                           *)
LEMMA DanglingPush ==
  ASSUME IInv, NEW f, Push(f), Dangling',
         f.saved \in {0, est_errjmp, catch_framep},
         est_errjmp' \in {est_errjmp, Depth + 1},
         catch_framep' \in {catch_framep, Depth + 1}
  PROVE  Dangling
BY DEF IInv, TypeOK, Push, Dangling

LEMMA DanglingCut ==
  ASSUME IInv, NEW n \in DOMAIN stack, stack' = Outside(n), Dangling',
         est_errjmp' \in {est_errjmp, stack[n].saved} \/ est_errjmp' # Gone,
         catch_framep' \in {catch_framep, stack[n].saved} \/ catch_framep' # Gone
  PROVE  Dangling
BY DEF IInv, TypeOK, Outside, Dangling

LEMMA DanglingBecome ==
  ASSUME IInv, NEW n \in DOMAIN stack, NEW g, stack' = Becomes(n, g), Dangling',
         g.saved \in {0, stack[n].saved},
         est_errjmp' \in {est_errjmp, stack[n].saved, n},
         catch_framep' = catch_framep \/ catch_framep' # Gone
  PROVE  Dangling
<1>1. /\ stack \in Seq(Frames) /\ Len(stack) \in Nat /\ n \in 1..Len(stack)
  BY DEF IInv, TypeOK
<1>2. /\ DOMAIN stack' = 1..n /\ \A i \in 1..(n - 1) : stack'[i] = stack[i]
      /\ stack'[n] = g
  BY <1>1 DEF Becomes, Outside
<1>. QED  BY <1>1, <1>2 DEF Dangling

(* If a frame is left that a pointer in force points to, it is of the      *)
(* pointer's kind.                                                         *)
LEMMA LeftOver ==
  ASSUME NEW n \in DOMAIN stack, NEW kinds, NEW r, InForce(r, Depth, kinds),
         Left(r, n) = Gone, r # Gone, stack[n].kind \notin kinds,
         stack \in Seq(Frames)
  PROVE  \E i \in DOMAIN stack : i > n /\ stack[i].kind \in kinds
<1>1. r \in 0..Depth /\ r >= n /\ stack[r].kind \in kinds /\ r # n
  BY DEF InForce, Left
<1>. QED  BY <1>1

LEMMA DanglingStep ==
  ASSUME IInv, Next, Dangling'
  PROVE  Dangling \/ Mixes
<1>0. /\ stack \in Seq(Frames) /\ Len(stack) \in Nat
      /\ est_errjmp \in Refs /\ catch_framep \in Refs
      /\ InForce(est_errjmp, Depth, Handlers) /\ InForce(catch_framep, Depth, Catches)
      /\ SearchOnCourse
  BY DEF IInv, TypeOK, PointersInForce
<1>1. CASE UNCHANGED pointers
  BY <1>1 DEF pointers, Dangling
<1>2. CASE \E t \in Tags : EnterCatch(t)
  BY <1>2, DanglingPush DEF EnterCatch, Frame
<1>3. CASE EnterUnwindProtect
  <2>1. PICK f : /\ Push(f) /\ f.saved = est_errjmp
                 /\ est_errjmp' = Depth + 1 /\ catch_framep' = catch_framep
    BY <1>3 DEF EnterUnwindProtect, Frame
  <2>. QED  BY <2>1, DanglingPush
<1>4. CASE EnterMode
  BY <1>4, DanglingPush DEF EnterMode, Frame
<1>5. CASE LeaveCatch \/ LeaveUnwindProtect \/ LeaveAfter
  <2>1. /\ Depth \in DOMAIN stack /\ stack' = Outside(Depth)
        /\ est_errjmp' \in {est_errjmp, stack[Depth].saved}
        /\ catch_framep' \in {catch_framep, stack[Depth].saved}
    BY <1>0, <1>5 DEF LeaveCatch, LeaveUnwindProtect, LeaveAfter, Pop
  <2>. QED  BY <2>1, DanglingCut
<1>6. CASE ModeBegins \/ setjmp \/ wfree
  <2>1. PICK g : /\ Depth \in DOMAIN stack /\ stack' = Becomes(Depth, g)
                 /\ g.saved = stack[Depth].saved
                 /\ est_errjmp' \in {est_errjmp, Depth}
                 /\ catch_framep' = catch_framep
    <3>1. Depth \in DOMAIN stack
      BY <1>0, <1>6 DEF ModeBegins, setjmp, wfree
    <3>2. stack[Depth] \in Frames
      BY <1>0, <3>1
    <3>3. /\ [Top EXCEPT !.kind = "mode", !.buf = "unset"].saved = stack[Depth].saved
          /\ \A b : [Top EXCEPT !.buf = b].saved = stack[Depth].saved
      BY <3>2 DEF Frames
    <3>. QED  BY <1>6, <3>1, <3>3 DEF ModeBegins, setjmp, wfree, Buffer
  <2>. QED  BY <2>1, DanglingBecome
<1>7. CASE ModeEnds \/ UnwindProtectCatches \/ UnwindProtectTidies \/ ModeCatches
  <2>1. PICK g : /\ Depth \in DOMAIN stack /\ stack' = Becomes(Depth, g)
                 /\ g.saved = 0
                 /\ est_errjmp' \in {est_errjmp, stack[Depth].saved}
                 /\ catch_framep' = catch_framep
    <3>1. Depth \in DOMAIN stack
      BY <1>0, <1>7 DEF ModeEnds, UnwindProtectCatches, UnwindProtectTidies, ModeCatches
    <3>2. /\ After.saved = 0
          /\ [After EXCEPT !.files = Top.files, !.had = Top.had, !.buf = "tidying"].saved = 0
      BY DEF After, Frame
    <3>. QED  BY <1>7, <3>1, <3>2
              DEF ModeEnds, UnwindProtectCatches, UnwindProtectTidies, ModeCatches
  <2>. QED  BY <2>1, DanglingBecome
<1>8. CASE ErrorLands
  <2>. DEFINE g == [stack[est_errjmp] EXCEPT !.buf = "caught"]
  <2>1. /\ est_errjmp \in DOMAIN stack /\ stack[est_errjmp].kind \notin Catches
        /\ stack' = Becomes(est_errjmp, g) /\ est_errjmp' = est_errjmp
        /\ catch_framep' = Left(catch_framep, est_errjmp)
    BY <1>0, <1>8 DEF ErrorLands, InForce, Handlers, Catches
  <2>2. stack[est_errjmp] \in Frames
    BY <1>0, <2>1
  <2>3. g.saved = stack[est_errjmp].saved
    BY <2>2 DEF Frames
  <2>. HIDE DEF g
  <2>4. /\ stack' = Becomes(est_errjmp, g) /\ g.saved \in {0, stack[est_errjmp].saved}
        /\ est_errjmp \in DOMAIN stack
    BY <2>1, <2>3
  <2>5. CASE catch_framep' # Gone \/ catch_framep = Gone
    <3>1. catch_framep' = Gone => catch_framep' = catch_framep
      BY <2>5
    <3>. QED  BY <2>1, <2>4, <3>1, DanglingBecome
  <2>6. CASE catch_framep' = Gone /\ catch_framep # Gone
    BY <1>0, <1>8, <2>1, <2>6, LeftOver DEF Mixes
  <2>. QED  BY <2>5, <2>6
<1>9. CASE CatchFound
  <2>1. /\ at \in DOMAIN stack /\ stack[at].kind \notin Handlers
        /\ stack' = Outside(at) /\ catch_framep' = stack[at].saved
        /\ est_errjmp' = Left(est_errjmp, at)
    BY <1>0, <1>9 DEF CatchFound, SearchOnCourse, Handlers, Catches
  <2>2. CASE est_errjmp' # Gone \/ est_errjmp = Gone
    <3>1. est_errjmp' = Gone => est_errjmp' = est_errjmp
      BY <2>2
    <3>. QED  BY <2>1, <3>1, DanglingCut
  <2>3. CASE est_errjmp' = Gone /\ est_errjmp # Gone
    BY <1>0, <1>9, <2>1, <2>3, LeftOver DEF Mixes
  <2>. QED  BY <2>2, <2>3
<1>10. CASE ReplCatches
  BY <1>10 DEF ReplCatches, Dangling
<1>. QED
  BY <1>1, <1>2, <1>3, <1>4, <1>5, <1>6, <1>7, <1>8, <1>9, <1>10
     DEF Next, Land, lthrow, err, siod_quit, handle_sigint, repl, GoWild, LookFurther,
         NoCatchFound, fd_to_scheme_file, fclose_l, file_gc_free

(* While lthrow searches, at is one of the pointers of the chain.          *)
SearchInChain ==
  jump.kind = "throw" =>
    at = catch_framep \/ \E i \in DOMAIN stack : at = stack[i].saved

LEMMA SearchStep == IInv /\ SearchInChain /\ [Next]_vars => SearchInChain'
<1>. SUFFICES ASSUME IInv, SearchInChain, [Next]_vars, jump'.kind = "throw"
              PROVE  at' = catch_framep' \/ \E i \in DOMAIN stack' : at' = stack'[i].saved
  BY DEF SearchInChain
<1>1. CASE UNCHANGED <<pointers, jump, at>>
  BY <1>1 DEF pointers, SearchInChain
<1>2. CASE \E t \in Tags : lthrow(t)
  BY <1>2 DEF lthrow, pointers
<1>3. CASE LookFurther
  BY <1>3 DEF LookFurther, pointers, IInv, SearchOnCourse
<1>4. CASE jump' \in {None, Error, Quit}
  BY <1>4, Signals
<1>5. CASE Next /\ ~LookFurther /\ ~(\E t \in Tags : lthrow(t))
  <2>1. jump' \in {None, Error, Quit} \/ UNCHANGED <<pointers, jump, at>>
    BY <1>5
       DEF Next, Land, EnterCatch, EnterUnwindProtect, EnterMode, ModeBegins, LeaveCatch,
           LeaveUnwindProtect, ModeEnds, LeaveAfter, Push, Pop, err, siod_quit,
           handle_sigint, GoWild, setjmp, wfree, Buffer, ErrorLands, UnwindProtectCatches,
           UnwindProtectTidies, ModeCatches, Forward, ReplCatches, CatchFound, NoCatchFound, fd_to_scheme_file, fclose_l,
           file_gc_free, repl
  <2>. QED  BY <1>1, <1>4, <2>1
<1>. QED  BY <1>1, <1>2, <1>3, <1>5 DEF vars

LEMMA SearchInvariance == Spec => []SearchInChain
<1>1. Init => SearchInChain
  BY Signals DEF Init, SearchInChain
<1>. QED  BY <1>1, SearchStep, Invariance, PTL DEF Spec

LEMMA OnlyLandingIsWild ==
  ASSUME Next, status' = "wild"
  PROVE  GoWild
BY DEF Next, Land, EnterCatch, lthrow, EnterUnwindProtect, EnterMode, ModeBegins, LeaveCatch,
       LeaveUnwindProtect, ModeEnds, LeaveAfter, Push, Pop, err, siod_quit,
       handle_sigint, setjmp, wfree, Buffer, ErrorLands, UnwindProtectCatches,
       UnwindProtectTidies, ModeCatches, ReplCatches, CatchFound, NoCatchFound, LookFurther, fd_to_scheme_file, fclose_l,
       file_gc_free, repl

(* A handler that is not the innermost frame has set its jmp_buf, and so   *)
(* has every handler when an exit starts, unless it is an interrupt.       *)
BuffersReady ==
  \A i \in DOMAIN stack :
    stack[i].kind \in Handlers /\ stack[i].buf # "set" =>
      i = Depth /\ (jump = None \/ (jump = Error /\ siod_ctrl_c))

LEMMA CalmIsReady ==
  ASSUME IInv, BuffersReady, Calm, NEW i \in DOMAIN stack, stack[i].kind \in Handlers
  PROVE  stack[i].buf = "set"
<1>. SUFFICES ASSUME stack[i].buf # "set" PROVE FALSE
  OBVIOUS
<1>1. stack \in Seq(Frames) /\ Len(stack) \in Nat /\ i = Depth /\ Depth > 0
  BY DEF IInv, TypeOK, BuffersReady
<1>2. stack[i] \in Frames
  BY <1>1
<1>3. stack[i].buf \in {"none", "unset", "freed", "caught", "tidying"}
  BY <1>2 DEF Frames
<1>4. stack[i].buf \notin {"none", "tidying"}
  BY DEF IInv, InPlace, Handlers
<1>. QED  BY <1>1, <1>3, <1>4

LEMMA ReadyCut ==
  ASSUME IInv, BuffersReady, NEW n \in DOMAIN stack, stack' = Outside(n)
  PROVE  BuffersReady'
<1>1. /\ stack \in Seq(Frames) /\ Len(stack) \in Nat /\ n \in 1..Len(stack)
  BY DEF IInv, TypeOK
<1>2. DOMAIN stack' = 1..(n - 1) /\ \A i \in 1..(n - 1) : stack'[i] = stack[i]
  BY <1>1, OutsideFacts DEF Outside
<1>. QED  BY <1>1, <1>2 DEF BuffersReady

LEMMA ReadyBecome ==
  ASSUME IInv, BuffersReady, NEW n \in DOMAIN stack, NEW g \in Frames,
         stack' = Becomes(n, g),
         g.kind \in Handlers /\ g.buf # "set" => jump' = None
  PROVE  BuffersReady'
<1>1. /\ stack \in Seq(Frames) /\ Len(stack) \in Nat /\ n \in 1..Len(stack)
  BY DEF IInv, TypeOK
<1>2. /\ DOMAIN stack' = 1..n /\ \A i \in 1..(n - 1) : stack'[i] = stack[i]
      /\ stack'[n] = g /\ Len(stack') = n
  BY <1>1, OutsideFacts, AppendFacts DEF Outside, Becomes
<1>. QED  BY <1>1, <1>2 DEF BuffersReady

LEMMA ReadyPush ==
  ASSUME IInv, BuffersReady, NEW f \in Frames, Push(f), jump' = None
  PROVE  BuffersReady'
<1>1. stack \in Seq(Frames) /\ Len(stack) \in Nat /\ stack' = Append(stack, f) /\ Calm
  BY DEF IInv, TypeOK, Push
<1>2. /\ DOMAIN stack' = 1..(Len(stack) + 1) /\ \A i \in 1..Len(stack) : stack'[i] = stack[i]
      /\ Len(stack') = Len(stack) + 1
  BY <1>1, AppendFacts
<1>3. \A i \in 1..Len(stack) : stack[i].kind \in Handlers => stack[i].buf = "set"
  BY <1>1, CalmIsReady
<1>. QED  BY <1>1, <1>2, <1>3 DEF BuffersReady

(* The frames that scopes and landings push or change are frames.          *)
LEMMA NewFrames ==
  ASSUME IInv
  PROVE  /\ After \in Frames /\ After.kind = "after"
         /\ \A t \in Tags : Frame("catch", t, catch_framep) \in Frames
         /\ Frame("start", NoTag, est_errjmp) \in Frames
         /\ [Frame("unwind", NoTag, est_errjmp) EXCEPT
               !.files = IF open_files = <<>> THEN Nil ELSE Head(open_files),
               !.had   = open, !.buf = "unset"] \in Frames
<1>1. /\ est_errjmp \in Refs /\ catch_framep \in Refs /\ open \subseteq Files
      /\ open_files \in Seq(Files)
  BY DEF IInv, TypeOK
<1>2. (IF open_files = <<>> THEN Nil ELSE Head(open_files)) \in Files \cup {Nil}
  BY <1>1
<1>3. After \in Frames /\ After.kind = "after"
  BY DepthAssumption DEF After, Frame, Frames
<1>4. /\ \A t \in Tags : Frame("catch", t, catch_framep) \in Frames
      /\ Frame("start", NoTag, est_errjmp) \in Frames
  BY <1>1 DEF Frame, Frames
<1>5. [Frame("unwind", NoTag, est_errjmp) EXCEPT
        !.files = IF open_files = <<>> THEN Nil ELSE Head(open_files),
        !.had   = open, !.buf = "unset"] \in Frames
  BY <1>1, <1>2 DEF Frame, Frames
<1>. QED  BY <1>3, <1>4, <1>5

LEMMA ChangedFrames ==
  ASSUME IInv, NEW i \in DOMAIN stack
  PROVE  /\ stack[i] \in Frames
         /\ \A b \in {"set", "freed", "caught"} :
              LET g == [stack[i] EXCEPT !.buf = b]
              IN  g \in Frames /\ g.kind = stack[i].kind /\ g.buf = b
                  /\ g.files = stack[i].files /\ g.had = stack[i].had
         /\ LET g == [stack[i] EXCEPT !.kind = "mode", !.buf = "unset"]
            IN  g \in Frames /\ g.kind = "mode" /\ g.buf = "unset"
         /\ LET g == [After EXCEPT !.files = stack[i].files, !.had = stack[i].had,
                                   !.buf = "tidying"]
            IN  g \in Frames /\ g.kind = "after" /\ g.buf = "tidying" /\ g.tag = NoTag
                /\ g.files = stack[i].files /\ g.had = stack[i].had
<1>1. stack[i] \in Frames
  BY DEF IInv, TypeOK
<1>2. ASSUME NEW b \in {"set", "freed", "caught"}
      PROVE  LET g == [stack[i] EXCEPT !.buf = b]
             IN  g \in Frames /\ g.kind = stack[i].kind /\ g.buf = b
                 /\ g.files = stack[i].files /\ g.had = stack[i].had
  BY <1>1 DEF Frames
<1>3. LET g == [stack[i] EXCEPT !.kind = "mode", !.buf = "unset"]
      IN  g \in Frames /\ g.kind = "mode" /\ g.buf = "unset"
  BY <1>1 DEF Frames
<1>4. LET g == [After EXCEPT !.files = stack[i].files, !.had = stack[i].had,
                             !.buf = "tidying"]
      IN  g \in Frames /\ g.kind = "after" /\ g.buf = "tidying" /\ g.tag = NoTag
          /\ g.files = stack[i].files /\ g.had = stack[i].had
  <2>1. stack[i].files \in Files \cup {Nil} /\ stack[i].had \in SUBSET Files
    BY <1>1 DEF Frames
  <2>2. After \in Frames /\ After.kind = "after" /\ After.tag = NoTag
    BY DepthAssumption DEF After, Frame, Frames
  <2>. QED  BY <2>1, <2>2 DEF Frames
<1>. QED  BY <1>1, <1>2, <1>3, <1>4

LEMMA ReadyStep == IInv /\ BuffersReady /\ [Next]_vars => BuffersReady'
<1>. SUFFICES ASSUME IInv, BuffersReady, [Next]_vars PROVE BuffersReady'
  OBVIOUS
<1>0. stack \in Seq(Frames) /\ Len(stack) \in Nat /\ DOMAIN stack = 1..Len(stack)
  BY DEF IInv, TypeOK
<1>1. CASE UNCHANGED <<stack, jump, siod_ctrl_c>>
  BY <1>1 DEF BuffersReady
<1>2. CASE Calm /\ UNCHANGED stack
  BY <1>0, <1>2, CalmIsReady DEF BuffersReady
<1>3. CASE \/ \E t \in Tags : EnterCatch(t)
           \/ EnterUnwindProtect \/ EnterMode
  BY <1>3, ReadyPush, NewFrames DEF EnterCatch, EnterUnwindProtect, EnterMode, Push
<1>4. CASE LeaveCatch \/ LeaveUnwindProtect \/ LeaveAfter
  <2>1. Depth \in DOMAIN stack /\ stack' = Outside(Depth)
    BY <1>0, <1>4 DEF LeaveCatch, LeaveUnwindProtect, LeaveAfter, Pop
  <2>. QED  BY <2>1, ReadyCut
<1>5. CASE ModeBegins \/ setjmp \/ wfree \/ UnwindProtectCatches
  <2>1. Depth \in DOMAIN stack /\ jump' = None
    BY <1>0, <1>5 DEF ModeBegins, setjmp, wfree, Buffer, UnwindProtectCatches
  <2>2. PICK g \in Frames : stack' = Becomes(Depth, g)
    BY <1>5, <2>1, ChangedFrames
       DEF ModeBegins, setjmp, wfree, Buffer, UnwindProtectCatches
  <2>. QED  BY <2>1, <2>2, ReadyBecome
<1>6. CASE ModeEnds \/ UnwindProtectTidies \/ ModeCatches
  <2>1. Depth \in DOMAIN stack /\ stack' = Becomes(Depth, After)
    BY <1>0, <1>6 DEF ModeEnds, UnwindProtectTidies, ModeCatches
  <2>. QED  BY <2>1, ReadyBecome, NewFrames DEF Handlers
<1>7. CASE err \/ siod_quit \/ \E t \in Tags : lthrow(t)
  BY <1>2, <1>7 DEF err, siod_quit, lthrow, pointers
<1>8. CASE handle_sigint
  <2>1. CASE nointerrupt = 1
    BY <1>1, <1>8, <2>1 DEF handle_sigint, pointers
  <2>2. CASE nointerrupt # 1
    BY <1>8, <2>2 DEF handle_sigint, pointers, BuffersReady
  <2>. QED  BY <2>1, <2>2
<1>9. CASE GoWild \/ LookFurther \/ repl
  BY <1>1, <1>9 DEF GoWild, LookFurther, repl, pointers, interrupts
<1>10. CASE ErrorLands
  <2>1. est_errjmp \in DOMAIN stack /\ jump' = None
    BY <1>0, <1>10 DEF ErrorLands, IInv, PointersInForce, InForce
  <2>2. PICK g \in Frames : stack' = Becomes(est_errjmp, g)
    BY <1>10, <2>1, ChangedFrames DEF ErrorLands
  <2>. QED  BY <2>1, <2>2, ReadyBecome
<1>11. CASE ReplCatches
  <2>1. DOMAIN stack' = {}
    BY <1>11 DEF ReplCatches
  <2>. QED  BY <2>1 DEF BuffersReady
<1>12. CASE CatchFound
  <2>1. at \in DOMAIN stack /\ stack' = Outside(at)
    BY <1>0, <1>12 DEF CatchFound, IInv, SearchOnCourse
  <2>. QED  BY <2>1, ReadyCut
<1>13. CASE NoCatchFound
  <2>1. jump # None /\ jump # Error /\ UNCHANGED stack
    BY <1>13, Signals DEF NoCatchFound, pointers
  <2>. QED  BY <2>1 DEF BuffersReady
<1>14. CASE \E c \in Files : fd_to_scheme_file(c) \/ fclose_l(c) \/ file_gc_free(c)
  BY <1>1, <1>14 DEF fd_to_scheme_file, fclose_l, file_gc_free, pointers, interrupts
<1>15. CASE UNCHANGED vars
  BY <1>1, <1>15 DEF vars, pointers, interrupts
<1>. QED
  BY <1>3, <1>4, <1>5, <1>6, <1>7, <1>8, <1>9, <1>10, <1>11, <1>12, <1>13, <1>14, <1>15
     DEF Next, Land

LEMMA ReadyInvariance == Spec => []BuffersReady
<1>1. Init => BuffersReady
  <2>. SUFFICES ASSUME Init PROVE DOMAIN stack = {}
    BY DEF BuffersReady
  <2>. QED  BY DEF Init
<1>. QED  BY <1>1, ReadyStep, Invariance, PTL DEF Spec

(* Code that neither throws out of an unwind-protect or a text mode nor    *)
(* has an error caught outside a *catch never jumps to a frame that is     *)
(* gone, and a pointer dangles only after such a step; only a Ctrl-C jumps *)
(* to a jmp_buf that is not set.                                           *)
THEOREM MixingAloneDangles == Spec => OnlyMixingDangles
<1>1. IInv /\ SearchInChain /\ BuffersReady /\ [Next]_vars =>
        [/\ Dangling' => Dangling \/ Mixes
         /\ status' = "wild" => Dangling \/ (siod_ctrl_c /\ NotReady)]_vars
  <2>. SUFFICES ASSUME IInv, SearchInChain, BuffersReady, Next
                PROVE  /\ Dangling' => Dangling \/ Mixes
                       /\ status' = "wild" => Dangling \/ (siod_ctrl_c /\ NotReady)
    OBVIOUS
  <2>1. Dangling' => Dangling \/ Mixes
    BY DanglingStep
  <2>2. ASSUME status' = "wild" PROVE Dangling \/ (siod_ctrl_c /\ NotReady)
    <3>1. CASE GoWild /\ est_errjmp = Gone
      BY <3>1 DEF Dangling
    <3>2. CASE GoWild /\ jump.kind = "throw" /\ at = Gone
      BY <3>2 DEF Dangling, SearchInChain
    <3>3. CASE GoWild /\ jump.kind \in {"error", "quit"} /\ NotReady
      <4>1. est_errjmp \in DOMAIN stack /\ stack[est_errjmp].kind \in Handlers
        BY <3>3 DEF NotReady, IInv, TypeOK, PointersInForce, InForce
      <4>2. stack[est_errjmp].buf # "set"
        BY <3>3 DEF NotReady
      <4>. QED  BY <3>3, <4>1, <4>2, Signals DEF BuffersReady
    <3>. QED  BY <2>2, <3>1, <3>2, <3>3, OnlyLandingIsWild DEF GoWild
  <2>. QED  BY <2>1, <2>2
<1>. QED
  BY <1>1, Invariance, SearchInvariance, ReadyInvariance, PTL DEF Spec, OnlyMixingDangles
-----------------------------------------------------------------------------
(* The scopes the abstract specification sees.                             *)
LEMMA SeenTypes ==
  ASSUME NEW s \in Seq(Frames)
  PROVE  /\ DOMAIN Seen(s) = DOMAIN s /\ Len(Seen(s)) = Len(s)
         /\ \A i \in DOMAIN s : Seen(s)[i] = ScopeOf(s[i])
<1>1. Seen(s) = [i \in 1..Len(s) |-> ScopeOf(s[i])]
  BY DEF Seen
<1>. QED  BY <1>1 DEF Seen

LEMMA SeenAppend ==
  ASSUME NEW s \in Seq(Frames), NEW f \in Frames
  PROVE  Seen(Append(s, f)) = Append(Seen(s), ScopeOf(f))
<1>1. /\ DOMAIN Append(s, f) = 1..(Len(s) + 1)
      /\ \A i \in 1..Len(s) : Append(s, f)[i] = s[i]
      /\ Append(s, f)[Len(s) + 1] = f
  BY AppendFacts
<1>2. Seen(s) = [i \in 1..Len(s) |-> ScopeOf(s[i])]
  BY DEF Seen
<1>. QED  BY <1>1, <1>2 DEF Seen

LEMMA SeenOutside ==
  ASSUME NEW s \in Seq(Frames), NEW n \in 1..Len(s)
  PROVE  Seen(SubSeq(s, 1, n - 1)) = SubSeq(Seen(s), 1, n - 1)
<1>1. /\ DOMAIN SubSeq(s, 1, n - 1) = 1..(n - 1)
      /\ \A i \in 1..(n - 1) : SubSeq(s, 1, n - 1)[i] = s[i]
  OBVIOUS
<1>2. Seen(s) = [i \in 1..Len(s) |-> ScopeOf(s[i])]
  BY DEF Seen
<1>. QED  BY <1>1, <1>2 DEF Seen

LEMMA SeenBecomes ==
  ASSUME IInv, NEW n \in DOMAIN stack, NEW g \in Frames
  PROVE  Seen(Becomes(n, g)) = Append(SubSeq(Seen(stack), 1, n - 1), ScopeOf(g))
<1>1. stack \in Seq(Frames) /\ n \in 1..Len(stack)
  BY DEF IInv, TypeOK
<1>. QED  BY <1>1, OutsideFacts, SeenAppend, SeenOutside DEF Becomes, Outside

LEMMA ScopeKinds ==
  ASSUME IInv, NEW i \in DOMAIN stack
  PROVE  /\ stack[i].kind \in Handlers => ScopeOf(stack[i]) = Promised!Handler
         /\ stack[i].kind \in Catches =>
              stack[i].tag \in Tags /\ ScopeOf(stack[i]) = Promised!Catcher(stack[i].tag)
         /\ stack[i].kind \notin Handlers => ScopeOf(stack[i]).kind # "handler"
         /\ stack[i].kind \notin Catches => ScopeOf(stack[i]).kind # "catch"
<1>1. stack[i] \in Frames
  BY DEF IInv, TypeOK
<1>2. stack[i].kind \in Catches <=> stack[i].tag \in Tags
  BY DEF IInv, InPlace
<1>3. stack[i].tag \in Tags \cup {NoTag}
  BY <1>1 DEF Frames
<1>. QED  BY <1>2, <1>3, TagAssumption
          DEF ScopeOf, Handlers, Catches, Promised!Handler, Promised!Catcher

LEMMA SameSignals ==
  /\ Promised!None = None /\ Promised!Error = Error /\ Promised!Quit = Quit
  /\ \A t : Promised!Throw(t) = Throw(t)
BY DEF Promised!None, Promised!Error, Promised!Quit, Promised!Throw,
       None, Error, Quit, Throw

(* Entering and leaving scopes.                                            *)
LEMMA ScopesRefine ==
  ASSUME IInv,
         \/ \E t \in Tags : EnterCatch(t)
         \/ LeaveCatch \/ EnterUnwindProtect \/ LeaveUnwindProtect
         \/ EnterMode \/ ModeBegins \/ ModeEnds \/ LeaveAfter
         \/ UnwindProtectCatches \/ UnwindProtectTidies \/ ModeCatches
  PROVE  Promised!Next
<1>0. /\ stack \in Seq(Frames) /\ Len(stack) \in Nat /\ DOMAIN stack = 1..Len(stack)
      /\ Len(Seen(stack)) = Len(stack) /\ DOMAIN Seen(stack) = DOMAIN stack
      /\ est_errjmp \in Refs /\ catch_framep \in Refs /\ Others
  BY SeenTypes DEF IInv, TypeOK, Others
<1>1. UNCHANGED status /\ jump' \in {None, Error} /\ Promised!Running
  <2>1. UNCHANGED status /\ jump' \in {None, Error} /\ status = "running" /\ jump = None
    BY DEF EnterCatch, EnterUnwindProtect, EnterMode, ModeBegins, LeaveCatch,
           LeaveUnwindProtect, ModeEnds, LeaveAfter, Push, Pop, UnwindProtectCatches,
           UnwindProtectTidies, ModeCatches, Forward
  <2>. QED  BY <2>1, SameSignals DEF Promised!Running
<1>2. ASSUME NEW f \in Frames, Push(f), UNCHANGED jump, ScopeOf(f) \in Promised!Scopes
      PROVE  Promised!Next
  <2>1. Seen(stack') = Append(Seen(stack), ScopeOf(f))
    BY <1>0, <1>2, SeenAppend DEF Push
  <2>2. Promised!Enter(ScopeOf(f))
    BY <1>1, <1>2, <2>1 DEF Promised!Enter, Seen
  <2>. QED  BY <1>2, <2>2 DEF Promised!Next
<1>3. ASSUME Depth > 0, stack' = Outside(Depth), UNCHANGED jump
      PROVE  Promised!Next
  <2>1. /\ Depth \in 1..Len(stack) /\ stack' = SubSeq(stack, 1, Depth - 1)
    BY <1>0, <1>3 DEF Outside
  <2>2. Seen(stack') = SubSeq(Seen(stack), 1, Len(Seen(stack)) - 1)
    BY <1>0, <2>1, SeenOutside
  <2>3. Seen(stack) # <<>>
    BY <1>0, <2>1
  <2>4. Promised!Leave
    BY <1>1, <1>3, <2>2, <2>3 DEF Promised!Leave, Promised!Outside, Seen
  <2>. QED  BY <2>4 DEF Promised!Next
<1>4. ASSUME NEW g \in Frames, Depth > 0, stack' = Becomes(Depth, g),
             ScopeOf(g) \in {Promised!Handler, Promised!Plain}
      PROVE  Promised!Next
  <2>1. Depth \in DOMAIN stack
    BY <1>0, <1>4
  <2>2. Seen(stack') = Append(SubSeq(Seen(stack), 1, Depth - 1), ScopeOf(g))
    BY <1>4, <2>1, SeenBecomes
  <2>3. Seen(stack) # <<>>
    BY <1>0, <2>1
  <2>4. Promised!Turn(ScopeOf(g))
    BY <1>0, <1>1, <2>2, <2>3, SameSignals DEF Promised!Turn, Promised!Outside, Seen
  <2>. QED  BY <1>4, <2>4 DEF Promised!Next
<1>5. CASE \E t \in Tags : EnterCatch(t)
  <2>1. PICK t \in Tags : EnterCatch(t)
    BY <1>5
  <2>2. Frame("catch", t, catch_framep) \in Frames
    BY <1>0, FrameTypes
  <2>3. ScopeOf(Frame("catch", t, catch_framep)) = Promised!Catcher(t)
    BY DEF ScopeOf, Frame, Handlers, Catches, Promised!Catcher
  <2>. QED  BY <1>2, <2>1, <2>2, <2>3 DEF EnterCatch, Promised!Scopes
<1>6. CASE EnterUnwindProtect
  <2>. DEFINE f == [Frame("unwind", NoTag, est_errjmp) EXCEPT
                      !.files = IF open_files = <<>> THEN Nil ELSE Head(open_files),
                      !.had   = open, !.buf = "unset"]
  <2>1. (IF open_files = <<>> THEN Nil ELSE Head(open_files)) \in Files \cup {Nil}
    BY <1>0 DEF Others
  <2>2. f \in Frames /\ f.kind = "unwind" /\ f.tag = NoTag
    BY <1>0, <2>1 DEF Frame, Frames, Others
  <2>3. Push(f) /\ UNCHANGED jump
    BY <1>6 DEF EnterUnwindProtect
  <2>. HIDE DEF f
  <2>4. ScopeOf(f) = Promised!Handler
    BY <2>2 DEF ScopeOf, Handlers, Catches, Promised!Handler
  <2>. QED  BY <1>2, <2>2, <2>3, <2>4 DEF Promised!Scopes
<1>7. CASE EnterMode
  <2>1. Frame("start", NoTag, est_errjmp) \in Frames
    BY <1>0, FrameTypes
  <2>2. ScopeOf(Frame("start", NoTag, est_errjmp)) = Promised!Plain
    BY DEF ScopeOf, Frame, Handlers, Catches, Promised!Plain
  <2>. QED  BY <1>2, <1>7, <2>1, <2>2 DEF EnterMode, Promised!Scopes
<1>8. CASE LeaveCatch \/ LeaveUnwindProtect \/ LeaveAfter
  BY <1>3, <1>8 DEF LeaveCatch, LeaveUnwindProtect, LeaveAfter, Pop
<1>9. CASE ModeBegins
  <2>. DEFINE g == [Top EXCEPT !.kind = "mode", !.buf = "unset"]
  <2>1. Depth \in DOMAIN stack /\ stack[Depth].kind = "start"
    BY <1>0, <1>9 DEF ModeBegins
  <2>2. stack[Depth] \in Frames /\ stack[Depth].tag = NoTag
    <3>1. stack[Depth] \in Frames
      BY <1>0, <2>1
    <3>. QED  BY <2>1, <3>1 DEF IInv, InPlace, Frames, Catches
  <2>3. g \in Frames /\ g.kind = "mode" /\ g.tag = NoTag
    BY <2>2 DEF Frames
  <2>4. stack' = Becomes(Depth, g) /\ Depth > 0
    BY <1>9 DEF ModeBegins
  <2>. HIDE DEF g
  <2>5. ScopeOf(g) = Promised!Handler
    BY <2>3 DEF ScopeOf, Handlers, Catches, Promised!Handler
  <2>. QED  BY <1>4, <2>3, <2>4, <2>5
<1>10. CASE ModeEnds \/ UnwindProtectTidies \/ ModeCatches
  <2>1. After \in Frames /\ ScopeOf(After) = Promised!Plain
    BY FrameTypes, DepthAssumption
       DEF After, Frame, ScopeOf, Handlers, Catches, Promised!Plain
  <2>. QED  BY <1>4, <1>10, <2>1 DEF ModeEnds, UnwindProtectTidies, ModeCatches
<1>11. CASE UnwindProtectCatches
  <2>. DEFINE g == [After EXCEPT !.files = Top.files, !.had = Top.had, !.buf = "tidying"]
  <2>1. stack' = Becomes(Depth, g) /\ Depth > 0 /\ Depth \in DOMAIN stack
    BY <1>0, <1>11 DEF UnwindProtectCatches
  <2>2. g \in Frames /\ g.kind = "after" /\ g.tag = NoTag
    BY <2>1, ChangedFrames
  <2>. HIDE DEF g
  <2>3. ScopeOf(g) = Promised!Plain
    BY <2>2 DEF ScopeOf, Handlers, Catches, Promised!Plain
  <2>. QED  BY <1>4, <2>1, <2>2, <2>3
<1>. QED  BY <1>5, <1>6, <1>7, <1>8, <1>9, <1>10, <1>11

(* Where exits land.                                                       *)
LEMMA SeenInnermost ==
  ASSUME IInv, NEW n \in DOMAIN stack, stack[n].kind \in Handlers,
         \A j \in DOMAIN stack : j > n => stack[j].kind \notin Handlers
  PROVE  Promised!Innermost(Promised!Handler, n)
<1>1. /\ stack \in Seq(Frames) /\ DOMAIN Seen(stack) = DOMAIN stack
      /\ \A i \in DOMAIN stack : Seen(stack)[i] = ScopeOf(stack[i])
      /\ DOMAIN stack = 1..Len(stack)
  BY SeenTypes DEF IInv, TypeOK
<1>2. Seen(stack)[n] = Promised!Handler
  BY <1>1, ScopeKinds
<1>3. ASSUME NEW j \in DOMAIN stack, j > n
      PROVE  Seen(stack)[j] # Promised!Handler
  BY <1>1, <1>3, ScopeKinds DEF Promised!Handler
<1>. QED  BY <1>1, <1>2, <1>3 DEF Promised!Innermost, Seen

LEMMA ErrorRefines ==
  ASSUME IInv, ErrorLands
  PROVE  Promised!Next
<1>. DEFINE n == est_errjmp
            g == [stack[n] EXCEPT !.buf = "caught"]
<1>1. /\ stack \in Seq(Frames) /\ DOMAIN stack = 1..Len(stack) /\ n \in Refs /\ n > 0
      /\ InForce(n, Depth, Handlers)
      /\ jump \in {None, Error, Quit} \cup {Throw(t) : t \in Tags}
  BY DEF IInv, TypeOK, PointersInForce, ErrorLands
<1>2. /\ n \in DOMAIN stack /\ stack[n].kind \in Handlers
      /\ \A j \in DOMAIN stack : j > n => stack[j].kind \notin Handlers
  BY <1>1 DEF InForce
<1>3. Promised!Innermost(Promised!Handler, n)
  BY <1>1, <1>2, SeenInnermost
<1>4. g \in Frames /\ ScopeOf(g) = Promised!Handler
  <2>1. stack[n] \in Frames
    BY <1>1, <1>2
  <2>2. g \in Frames /\ g.kind = stack[n].kind /\ g.tag = stack[n].tag
    BY <2>1 DEF Frames
  <2>3. ScopeOf(stack[n]) = Promised!Handler
    BY <1>2, ScopeKinds
  <2>. QED  BY <2>2, <2>3 DEF ScopeOf
<1>5. Seen(stack') = Append(SubSeq(Seen(stack), 1, n - 1), Promised!Handler)
  BY <1>2, <1>4, SeenBecomes DEF ErrorLands
<1>6. jump \in {Error, Quit} /\ jump' = None /\ UNCHANGED status
  BY <1>1, Signals DEF ErrorLands, Throw
<1>7. Promised!Handle(n)
  BY <1>3, <1>5, <1>6, SameSignals DEF Promised!Handle, Promised!Outside, Seen
<1>8. n \in DOMAIN Seen(stack)
  BY <1>1, <1>2, SeenTypes
<1>. QED  BY <1>7, <1>8 DEF Promised!Next, Seen

LEMMA ReplRefines ==
  ASSUME IInv, ReplCatches, status = "running"
  PROVE  Promised!Next
<1>1. /\ stack \in Seq(Frames) /\ DOMAIN stack = 1..Len(stack)
      /\ InForce(0, Depth, Handlers)
      /\ jump \in {None, Error, Quit} \cup {Throw(t) : t \in Tags}
  BY DEF IInv, TypeOK, PointersInForce, ReplCatches
<1>2. jump \in {Error, Quit}
  BY <1>1, Signals DEF ReplCatches, Throw
<1>3. \A j \in DOMAIN stack : stack[j].kind \notin Handlers
  BY <1>1 DEF InForce
<1>4. Promised!Nobody(Promised!Handler)
  <2>1. \A j \in DOMAIN stack : Seen(stack)[j] # Promised!Handler
    BY <1>1, <1>3, ScopeKinds, SeenTypes DEF Promised!Handler
  <2>. QED  BY <1>1, <2>1, SeenTypes DEF Promised!Nobody, Seen
<1>5. Seen(stack') = <<>>
  <2>1. stack' = <<>> /\ DOMAIN stack' = {}
    BY DEF ReplCatches
  <2>. QED  BY <2>1 DEF Seen
<1>6. jump' = None /\ ((status' = "ended") <=> (jump = Quit))
  BY DEF ReplCatches
<1>7. (status' = "ended") \in BOOLEAN /\ (jump = Quit) \in BOOLEAN
  OBVIOUS
<1>8. Promised!Prompt
  BY <1>2, <1>4, <1>5, <1>6, <1>7, SameSignals DEF Promised!Prompt, Seen
<1>. QED  BY <1>8 DEF Promised!Next

LEMMA CatchRefines ==
  ASSUME IInv, CatchFound
  PROVE  Promised!Next
<1>1. /\ stack \in Seq(Frames) /\ DOMAIN stack = 1..Len(stack)
      /\ jump \in {None, Error, Quit} \cup {Throw(t) : t \in Tags}
      /\ at \in DOMAIN stack /\ stack[at].kind \in Catches
      /\ stack[at].tag = jump.tag
      /\ \A j \in DOMAIN stack :
           j > at /\ stack[j].kind \in Catches => stack[j].tag # jump.tag
  BY DEF IInv, TypeOK, SearchOnCourse, CatchFound
<1>2. PICK t \in Tags : jump = Throw(t) /\ jump.tag = t
  BY <1>1, Signals DEF CatchFound, Throw
<1>3. /\ DOMAIN Seen(stack) = DOMAIN stack
      /\ \A i \in DOMAIN stack : Seen(stack)[i] = ScopeOf(stack[i])
  BY <1>1, SeenTypes
<1>4. Seen(stack)[at] = Promised!Catcher(t)
  BY <1>1, <1>2, <1>3, ScopeKinds
<1>5. ASSUME NEW j \in DOMAIN stack, j > at
      PROVE  Seen(stack)[j] # Promised!Catcher(t)
  <2>1. CASE stack[j].kind \in Catches
    BY <1>1, <1>2, <1>3, <1>5, <2>1, ScopeKinds DEF Promised!Catcher
  <2>2. CASE stack[j].kind \notin Catches
    BY <1>3, <2>2, ScopeKinds DEF Promised!Catcher
  <2>. QED  BY <2>1, <2>2
<1>6. Promised!Innermost(Promised!Catcher(t), at)
  BY <1>1, <1>3, <1>4, <1>5 DEF Promised!Innermost, Seen
<1>7. Seen(stack') = SubSeq(Seen(stack), 1, at - 1)
  BY <1>1, SeenOutside DEF CatchFound, Outside
<1>8. Promised!Catch(t, at)
  <2>1. jump' = None /\ status' = status
    BY DEF CatchFound
  <2>. QED  BY <1>2, <1>6, <1>7, <2>1, SameSignals
            DEF Promised!Catch, Promised!Outside, Seen
<1>. QED  BY <1>1, <1>3, <1>8 DEF Promised!Next, Seen

LEMMA NoCatchRefines ==
  ASSUME IInv, NoCatchFound
  PROVE  Promised!Next
<1>1. /\ stack \in Seq(Frames) /\ DOMAIN stack = 1..Len(stack)
      /\ jump \in {None, Error, Quit} \cup {Throw(t) : t \in Tags}
      /\ \A j \in DOMAIN stack :
           stack[j].kind \in Catches => stack[j].tag # jump.tag
  BY DEF IInv, TypeOK, SearchOnCourse, NoCatchFound
<1>2. PICK t \in Tags : jump = Throw(t) /\ jump.tag = t
  BY <1>1, Signals DEF NoCatchFound, Throw
<1>3. /\ DOMAIN Seen(stack) = DOMAIN stack
      /\ \A i \in DOMAIN stack : Seen(stack)[i] = ScopeOf(stack[i])
  BY <1>1, SeenTypes
<1>4. ASSUME NEW j \in DOMAIN stack
      PROVE  Seen(stack)[j] # Promised!Catcher(t)
  <2>1. CASE stack[j].kind \in Catches
    BY <1>1, <1>2, <1>3, <2>1, ScopeKinds DEF Promised!Catcher
  <2>2. CASE stack[j].kind \notin Catches
    BY <1>3, <2>2, ScopeKinds DEF Promised!Catcher
  <2>. QED  BY <2>1, <2>2
<1>5. Promised!Nobody(Promised!Catcher(t))
  BY <1>3, <1>4 DEF Promised!Nobody, Seen
<1>6. jump' = Error /\ stack' = stack /\ status' = status
  BY DEF NoCatchFound, pointers
<1>7. Promised!NoCatch(t)
  BY <1>2, <1>5, <1>6, SameSignals DEF Promised!NoCatch, Seen
<1>. QED  BY <1>7 DEF Promised!Next

(* The steps that start an exit or end the program, and those that the     *)
(* abstract specification does not see.                                    *)
LEMMA ExitsRefine ==
  ASSUME IInv, err \/ siod_quit \/ handle_sigint \/ repl \/ \E t \in Tags : lthrow(t)
  PROVE  [Promised!Next]_(Promised!vars)
<1>1. stack' = stack
  BY DEF err, siod_quit, handle_sigint, repl, lthrow, pointers
<1>2. CASE err \/ siod_quit \/ \E t \in Tags : lthrow(t)
  <2>1. PICK x \in {Error, Quit} \cup {Throw(t) : t \in Tags} :
          Calm /\ jump' = x /\ status' = status
    BY <1>2 DEF err, siod_quit, lthrow, interrupts
  <2>2. Promised!Start(x)
    BY <1>1, <2>1, SameSignals DEF Promised!Start, Promised!Running, Seen
  <2>3. x \in {Promised!Error, Promised!Quit} \cup {Promised!Throw(t) : t \in Tags}
    BY <2>1, SameSignals
  <2>. QED  BY <2>2, <2>3 DEF Promised!Next
<1>3. CASE handle_sigint
  <2>1. CASE jump' = jump
    BY <1>1, <1>3, <2>1 DEF handle_sigint, Promised!vars, Seen
  <2>2. CASE jump' # jump
    <3>1. jump' = Error /\ status = "running" /\ status' = status
      BY <1>3, <2>2 DEF handle_sigint
    <3>2. Promised!Interrupt
      BY <1>1, <3>1, SameSignals DEF Promised!Interrupt, Seen
    <3>. QED  BY <3>2 DEF Promised!Next
  <2>. QED  BY <2>1, <2>2
<1>4. CASE repl
  <2>1. Seen(stack) = <<>>
    <3>1. DOMAIN stack = {}
      BY <1>4 DEF repl, IInv, TypeOK
    <3>. QED  BY <3>1 DEF Seen
  <2>2. Promised!End
    BY <1>1, <1>4, <2>1, SameSignals DEF repl, Promised!End, Promised!Running, Seen
  <2>. QED  BY <2>2 DEF Promised!Next
<1>. QED  BY <1>2, <1>3, <1>4

LEMMA StepRefines ==
  IInv /\ [Next]_vars => [status' = "wild" \/ Promised!Next]_(Promised!vars)
<1>. SUFFICES ASSUME IInv, [Next]_vars, status' # "wild"
              PROVE  [Promised!Next]_(Promised!vars)
  OBVIOUS
<1>1. CASE UNCHANGED <<stack, jump, status>>
  BY <1>1 DEF Promised!vars, Seen
<1>2. CASE Land
  <2>1. CASE GoWild
    BY <2>1 DEF GoWild
  <2>2. CASE ErrorLands
    BY <2>2, ErrorRefines
  <2>3. CASE ReplCatches
    BY <1>2, <2>3, ReplRefines DEF Land
  <2>4. CASE CatchFound \/ NoCatchFound
    BY <2>4, CatchRefines, NoCatchRefines
  <2>5. CASE LookFurther
    BY <1>1, <2>5 DEF LookFurther, pointers
  <2>. QED  BY <1>2, <2>1, <2>2, <2>3, <2>4, <2>5 DEF Land
<1>3. CASE \E c \in Files : fd_to_scheme_file(c) \/ fclose_l(c) \/ file_gc_free(c)
  BY <1>1, <1>3 DEF fd_to_scheme_file, fclose_l, file_gc_free, pointers
<1>4. CASE UNCHANGED vars
  BY <1>1, <1>4 DEF vars, pointers
<1>5. CASE setjmp \/ wfree
  <2>1. Seen(stack') = Seen(stack)
    BY <1>5, BufferStep DEF setjmp, wfree
  <2>2. UNCHANGED <<jump, status>>
    BY <1>5 DEF setjmp, wfree, Buffer
  <2>. QED  BY <2>1, <2>2 DEF Promised!vars, Seen
<1>. QED  BY <1>2, <1>3, <1>4, <1>5, ScopesRefine, ExitsRefine DEF Next

(* Errors, throws and quits do what nested scopes promise, each landing in *)
(* the innermost scope that is for it, unless a frame that is gone is      *)
(* jumped to: the longjmps implement Unwinding.                            *)
THEOREM JumpsImplementScopes == Spec => JumpsLandRight
<1>1. Init => Promised!Init
  <2>. SUFFICES ASSUME Init PROVE Promised!Init
    OBVIOUS
  <2>1. stack = <<>> /\ DOMAIN stack = {}
    BY DEF Init
  <2>2. Seen(stack) = <<>>
    BY <2>1 DEF Seen
  <2>3. jump = Promised!None /\ status = "running"
    BY SameSignals DEF Init
  <2>. QED  BY <2>2, <2>3 DEF Promised!Init, Seen
<1>. QED  BY <1>1, StepRefines, Invariance, PTL DEF Spec, JumpsLandRight
-----------------------------------------------------------------------------
(* The list of open files names each once; for an unwind-protect it is cut *)
(* at the head it found: what comes before was opened since.               *)
ListInOrder ==
  /\ \A j, k \in DOMAIN open_files : open_files[j] = open_files[k] => j = k
  /\ \A j \in DOMAIN open_files : open_files[j] \in open

Cut(f, list) ==
  /\ \A j, k \in DOMAIN list : list[k] = f.files => (list[j] \in f.had <=> k <= j)
  /\ f.files = Nil => \A j \in DOMAIN list : list[j] \notin f.had

Remembers(f) == f.kind = "unwind" \/ f.buf = "tidying"

CutInPlace ==
  \A i \in DOMAIN stack : Remembers(stack[i]) => Cut(stack[i], open_files)

FInv == IInv /\ ListInOrder /\ CutInPlace

LEMMA SuffixFacts ==
  ASSUME NEW s \in Seq(Files), NEW k \in 0..Len(s)
  PROVE  /\ Len(SubSeq(s, k + 1, Len(s))) = Len(s) - k
         /\ \A j \in 1..(Len(s) - k) : SubSeq(s, k + 1, Len(s))[j] = s[j + k]
OBVIOUS

LEMMA RemoveFacts ==
  ASSUME NEW s \in Seq(Files), NEW i \in 1..Len(s), NEW t,
         t = SubSeq(s, 1, i - 1) \o SubSeq(s, i + 1, Len(s))
  PROVE  /\ DOMAIN t = 1..(Len(s) - 1)
         /\ \A j \in 1..(i - 1) : t[j] = s[j]
         /\ \A j \in i..(Len(s) - 1) : t[j] = s[j + 1]
<1>1. /\ SubSeq(s, 1, i - 1) \in Seq(Files) /\ Len(SubSeq(s, 1, i - 1)) = i - 1
      /\ \A j \in 1..(i - 1) : SubSeq(s, 1, i - 1)[j] = s[j]
  OBVIOUS
<1>2. /\ SubSeq(s, i + 1, Len(s)) \in Seq(Files)
      /\ Len(SubSeq(s, i + 1, Len(s))) = Len(s) - i
      /\ \A j \in 1..(Len(s) - i) : SubSeq(s, i + 1, Len(s))[j] = s[j + i]
  OBVIOUS
<1>. DEFINE a == SubSeq(s, 1, i - 1)
            b == SubSeq(s, i + 1, Len(s))
<1>. HIDE DEF a, b
<1>3. /\ t = a \o b /\ a \in Seq(Files) /\ b \in Seq(Files) /\ Len(s) \in Nat
      /\ Len(a) = i - 1 /\ Len(b) = Len(s) - i
  BY <1>1, <1>2 DEF a, b
<1>4. /\ \A j \in 1..(i - 1) : a[j] = s[j]
      /\ \A j \in 1..(Len(s) - i) : b[j] = s[j + i]
  BY <1>1, <1>2 DEF a, b
<1>5. /\ DOMAIN t = 1..(Len(a) + Len(b))
      /\ \A j \in 1..(Len(a) + Len(b)) : t[j] = IF j <= Len(a) THEN a[j] ELSE b[j - Len(a)]
  <2>1. /\ Len(a \o b) = Len(a) + Len(b) /\ a \o b \in Seq(Files)
        /\ \A j \in 1..(Len(a) + Len(b)) :
             (a \o b)[j] = IF j <= Len(a) THEN a[j] ELSE b[j - Len(a)]
    BY <1>3, ConcatProperties
  <2>2. /\ Len(t) = Len(a) + Len(b) /\ t \in Seq(Files)
        /\ \A j \in 1..(Len(a) + Len(b)) :
             t[j] = IF j <= Len(a) THEN a[j] ELSE b[j - Len(a)]
    BY <1>3, <2>1, Zenon
  <2>3. DOMAIN t = 1..Len(t)
    BY <2>2
  <2>. QED  BY <2>2, <2>3, Zenon
<1>6. Len(a) + Len(b) = Len(s) - 1
  BY <1>3
<1>7. ASSUME NEW j \in 1..(i - 1) PROVE t[j] = s[j]
  <2>1. j \in 1..(Len(a) + Len(b)) /\ j <= Len(a)
    BY <1>3
  <2>. QED  BY <1>4, <1>5, <2>1
<1>8. ASSUME NEW j \in i..(Len(s) - 1) PROVE t[j] = s[j + 1]
  <2>1. j - (i - 1) \in 1..(Len(s) - i) /\ j \in 1..(Len(a) + Len(b)) /\ ~(j <= Len(a))
    BY <1>3
  <2>2. t[j] = b[j - (i - 1)]
    BY <1>3, <1>5, <2>1
  <2>3. b[j - (i - 1)] = s[j - (i - 1) + i]
    BY <1>4, <2>1
  <2>4. j - (i - 1) + i = j + 1
    BY <1>3
  <2>. QED  BY <2>2, <2>3, <2>4
<1>. QED  BY <1>5, <1>6, <1>7, <1>8

(* A suffix is in order and cut where the list was.                        *)
LEMMA SuffixCut ==
  ASSUME IInv, ListInOrder, NEW end, close_open_files_upto(end)
  PROVE  /\ ListInOrder'
         /\ \A f : Cut(f, open_files) => Cut(f, open_files')
<1>1. open_files \in Seq(Files) /\ Len(open_files) \in Nat
  BY DEF IInv, TypeOK
<1>2. PICK k \in 0..Len(open_files) :
        /\ open' = open \ {open_files[j] : j \in 1..k}
        /\ open_files' = SubSeq(open_files, k + 1, Len(open_files))
  BY DEF close_open_files_upto
<1>3. /\ DOMAIN open_files' = 1..(Len(open_files) - k)
      /\ \A j \in 1..(Len(open_files) - k) :
           open_files'[j] = open_files[j + k] /\ j + k \in DOMAIN open_files
  BY <1>1, <1>2, SuffixFacts
<1>4. \A j, m \in DOMAIN open_files' : open_files'[j] = open_files'[m] => j = m
  BY <1>1, <1>2, <1>3 DEF ListInOrder
<1>5. ASSUME NEW j \in DOMAIN open_files'
      PROVE  open_files'[j] \in open'
  <2>1. open_files[j + k] \in open /\ j + k \in DOMAIN open_files
    BY <1>3 DEF ListInOrder
  <2>2. \A m \in 1..k : open_files[m] # open_files[j + k]
    BY <1>1, <1>2, <1>3 DEF ListInOrder
  <2>. QED  BY <1>2, <1>3, <2>1, <2>2
<1>6. ASSUME NEW f, Cut(f, open_files)
      PROVE  Cut(f, open_files')
  <2>1. ASSUME NEW j \in DOMAIN open_files', NEW m \in DOMAIN open_files',
               open_files'[m] = f.files
        PROVE  open_files'[j] \in f.had <=> m <= j
    <3>1. /\ open_files'[j] = open_files[j + k] /\ j + k \in DOMAIN open_files
          /\ open_files[m + k] = f.files /\ m + k \in DOMAIN open_files
          /\ j \in Int /\ m \in Int /\ k \in Int
      BY <1>3, <2>1
    <3>2. open_files[j + k] \in f.had <=> m + k <= j + k
      BY <1>6, <3>1 DEF Cut
    <3>. QED  BY <3>1, <3>2
  <2>2. f.files = Nil => \A j \in DOMAIN open_files' : open_files'[j] \notin f.had
    BY <1>3, <1>6 DEF Cut
  <2>. QED  BY <2>1, <2>2 DEF Cut
<1>. QED  BY <1>4, <1>5, <1>6 DEF ListInOrder

LEMMA CloseCut ==
  ASSUME IInv, ListInOrder, NEW c \in Files, fclose_l(c)
  PROVE  /\ ListInOrder'
         /\ \A f : Cut(f, open_files) => Cut(f, open_files')
<1>1. open_files \in Seq(Files) /\ Len(open_files) \in Nat /\ open' = open \ {c}
  BY DEF IInv, TypeOK, fclose_l
<1>2. CASE c \notin Listed
  BY <1>1, <1>2 DEF fclose_l, Listed, ListInOrder
<1>3. CASE c \in Listed
  <2>1. PICK i \in DOMAIN open_files :
          /\ open_files[i] = c
          /\ open_files' = SubSeq(open_files, 1, i - 1)
                           \o SubSeq(open_files, i + 1, Len(open_files))
    BY <1>3 DEF fclose_l
  <2>2. /\ DOMAIN open_files' = 1..(Len(open_files) - 1) /\ i \in 1..Len(open_files)
        /\ \A j \in 1..(i - 1) : open_files'[j] = open_files[j]
        /\ \A j \in i..(Len(open_files) - 1) : open_files'[j] = open_files[j + 1]
    <3>1. i \in 1..Len(open_files) /\ open_files \in Seq(Files)
      BY <1>1, <2>1
    <3>2. open_files' = SubSeq(open_files, 1, i - 1)
                        \o SubSeq(open_files, i + 1, Len(open_files))
      BY <2>1
    <3>. QED  BY <3>1, <3>2, RemoveFacts, Zenon
  <2>. DEFINE from(j) == IF j < i THEN j ELSE j + 1
  <2>3. ASSUME NEW j \in DOMAIN open_files'
        PROVE  /\ open_files'[j] = open_files[from(j)]
               /\ from(j) \in DOMAIN open_files /\ from(j) # i
    BY <1>1, <2>2
  <2>4. \A j, k \in DOMAIN open_files' :
          (from(j) = from(k) => j = k) /\ (from(k) <= from(j) <=> k <= j)
    BY <1>1, <2>2
  <2>. HIDE DEF from
  <2>5. \A j, k \in DOMAIN open_files' : open_files'[j] = open_files'[k] => j = k
    BY <2>3, <2>4 DEF ListInOrder
  <2>6. \A j \in DOMAIN open_files' : open_files'[j] \in open'
    BY <1>1, <2>1, <2>3 DEF ListInOrder
  <2>7. ASSUME NEW f, Cut(f, open_files)
        PROVE  Cut(f, open_files')
    BY <2>3, <2>4, <2>7 DEF Cut
  <2>. QED  BY <2>5, <2>6, <2>7 DEF ListInOrder
<1>. QED  BY <1>2, <1>3

LEMMA HeadCut ==
  ASSUME IInv, ListInOrder, NEW f,
         f.files = IF open_files = <<>> THEN Nil ELSE Head(open_files), f.had = open
  PROVE  Cut(f, open_files)
<1>1. open_files \in Seq(Files) /\ Len(open_files) \in Nat
  BY DEF IInv, TypeOK
<1>2. CASE open_files = <<>>
  BY <1>1, <1>2 DEF Cut
<1>3. CASE open_files # <<>>
  <2>1. f.files = open_files[1] /\ f.files \in Files /\ 1 \in DOMAIN open_files
    BY <1>1, <1>3
  <2>. QED  BY <1>1, <2>1, FileAssumption DEF Cut, ListInOrder
<1>. QED  BY <1>2, <1>3

(* A fresh file comes before the cells that are remembered.                *)
LEMMA OpenCut ==
  ASSUME FInv, NEW c \in Files, fd_to_scheme_file(c)
  PROVE  ListInOrder' /\ CutInPlace'
<1>1. /\ open_files \in Seq(Files) /\ Len(open_files) \in Nat /\ stack' = stack
      /\ c \notin open /\ c \notin Remembered /\ open' = open \cup {c}
      /\ open_files' = <<c>> \o open_files /\ ListInOrder /\ CutInPlace
  BY DEF FInv, IInv, TypeOK, fd_to_scheme_file, pointers
<1>2. /\ DOMAIN open_files' = 1..(Len(open_files) + 1) /\ open_files'[1] = c
      /\ \A j \in 2..(Len(open_files) + 1) :
           open_files'[j] = open_files[j - 1] /\ j - 1 \in DOMAIN open_files
  BY <1>1
<1>3. ListInOrder'
  BY <1>1, <1>2 DEF ListInOrder
<1>4. ASSUME NEW i \in DOMAIN stack, Remembers(stack[i])
      PROVE  Cut(stack[i], open_files')
  <2>1. c \notin stack[i].had /\ c # stack[i].files
    BY <1>1 DEF Remembered
  <2>2. Cut(stack[i], open_files)
    BY <1>1, <1>4 DEF CutInPlace
  <2>. QED  BY <1>1, <1>2, <2>1, <2>2 DEF Cut
<1>. QED  BY <1>1, <1>3, <1>4 DEF CutInPlace

LEMMA FilesInit == Init => FInv
<1>. SUFFICES ASSUME Init PROVE FInv
  OBVIOUS
<1>1. DOMAIN stack = {} /\ DOMAIN open_files = {}
  BY DEF Init
<1>. QED  BY <1>1, TypeInit DEF FInv, ListInOrder, CutInPlace

LEMMA FilesStep == FInv /\ [Next]_vars => FInv'
<1>. SUFFICES ASSUME FInv, [Next]_vars PROVE ListInOrder' /\ CutInPlace'
  BY InvStep DEF FInv
<1>0. /\ IInv /\ ListInOrder /\ CutInPlace
      /\ stack \in Seq(Frames) /\ DOMAIN stack = 1..Len(stack) /\ Len(stack) \in Nat
      /\ open_files \in Seq(Files)
      /\ open \subseteq Files
  BY DEF FInv, IInv, TypeOK
<1>1. ASSUME UNCHANGED filing
      PROVE  ListInOrder' /\ \A f : Cut(f, open_files) => Cut(f, open_files')
  BY <1>0, <1>1 DEF filing, ListInOrder
<1>2. ASSUME ListInOrder', \A f : Cut(f, open_files) => Cut(f, open_files'),
             UNCHANGED stack
      PROVE  ListInOrder' /\ CutInPlace'
  BY <1>0, <1>2 DEF CutInPlace
<1>3. ASSUME ListInOrder', \A f : Cut(f, open_files) => Cut(f, open_files'),
             NEW n \in DOMAIN stack, stack' = Outside(n)
      PROVE  ListInOrder' /\ CutInPlace'
  <2>1. /\ DOMAIN stack' = 1..(n - 1)
        /\ \A i \in 1..(n - 1) : stack'[i] = stack[i] /\ i \in DOMAIN stack
    BY <1>0, <1>3, OutsideFacts DEF Outside
  <2>. QED  BY <1>0, <1>3, <2>1 DEF CutInPlace
<1>4. ASSUME ListInOrder', \A f : Cut(f, open_files) => Cut(f, open_files'),
             NEW n \in DOMAIN stack, NEW g \in Frames, stack' = Becomes(n, g),
             Remembers(g) => Cut(g, open_files)
      PROVE  ListInOrder' /\ CutInPlace'
  <2>1. /\ DOMAIN stack' = 1..n /\ stack'[n] = g
        /\ \A i \in 1..(n - 1) : stack'[i] = stack[i] /\ i \in DOMAIN stack
    BY <1>0, <1>4, OutsideFacts, AppendFacts DEF Outside, Becomes
  <2>2. \A i \in DOMAIN stack' : i = n \/ i \in 1..(n - 1)
    BY <1>0, <2>1
  <2>. QED  BY <1>0, <1>4, <2>1, <2>2 DEF CutInPlace
<1>5. ASSUME NEW f \in Frames, Push(f), UNCHANGED filing,
             Remembers(f) => Cut(f, open_files)
      PROVE  ListInOrder' /\ CutInPlace'
  <2>1. /\ DOMAIN stack' = 1..(Len(stack) + 1) /\ stack'[Len(stack) + 1] = f
        /\ \A i \in 1..Len(stack) : stack'[i] = stack[i] /\ i \in DOMAIN stack
    BY <1>0, <1>5, AppendFacts DEF Push
  <2>2. \A i \in DOMAIN stack' : i = Len(stack) + 1 \/ i \in 1..Len(stack)
    BY <1>0, <2>1
  <2>3. open_files' = open_files
    BY <1>5 DEF filing
  <2>. QED  BY <1>0, <1>1, <1>5, <2>1, <2>2, <2>3 DEF CutInPlace
<1>6. After \in Frames /\ ~Remembers(After)
  <2>1. After \in Frames
    BY <1>0, NewFrames
  <2>2. ~Remembers(After)
    BY DEF After, Frame, Remembers
  <2>. QED  BY <2>1, <2>2
<1>7. CASE \/ \E t \in Tags : EnterCatch(t)
           \/ EnterMode
  <2>1. PICK f \in Frames : Push(f) /\ ~Remembers(f)
    BY <1>7, <1>0, NewFrames DEF EnterCatch, EnterMode, Frame, Remembers
  <2>. QED  BY <1>5, <1>7, <2>1 DEF EnterCatch, EnterMode
<1>8. CASE EnterUnwindProtect
  <2>. DEFINE h == IF open_files = <<>> THEN Nil ELSE Head(open_files)
              f == [Frame("unwind", NoTag, est_errjmp) EXCEPT
                      !.files = h, !.had = open, !.buf = "unset"]
  <2>1. h \in Files \cup {Nil}
    BY <1>0
  <2>2. f \in Frames /\ f.files = h /\ f.had = open
    BY <1>0, <2>1 DEF Frame, Frames, IInv, TypeOK
  <2>3. Push(f) /\ UNCHANGED filing
    BY <1>8 DEF EnterUnwindProtect
  <2>. HIDE DEF f
  <2>4. Cut(f, open_files)
    BY <1>0, <2>2, HeadCut
  <2>. QED  BY <1>5, <2>2, <2>3, <2>4
<1>9. CASE LeaveCatch \/ LeaveUnwindProtect \/ LeaveAfter
  <2>1. Depth \in DOMAIN stack /\ stack' = Outside(Depth) /\ UNCHANGED filing
    BY <1>0, <1>9 DEF LeaveCatch, LeaveUnwindProtect, LeaveAfter, Pop
  <2>. QED  BY <1>1, <1>3, <2>1
<1>10. CASE ModeBegins
  <2>. DEFINE g == [Top EXCEPT !.kind = "mode", !.buf = "unset"]
  <2>1. Depth \in DOMAIN stack /\ stack' = Becomes(Depth, g) /\ UNCHANGED filing
    BY <1>0, <1>10 DEF ModeBegins
  <2>2. g \in Frames /\ ~Remembers(g)
    BY <1>0, <2>1, ChangedFrames DEF Remembers
  <2>. HIDE DEF g
  <2>. QED  BY <1>1, <1>4, <2>1, <2>2
<1>11. CASE ModeEnds
  <2>1. Depth \in DOMAIN stack /\ stack' = Becomes(Depth, After) /\ UNCHANGED filing
    BY <1>0, <1>11 DEF ModeEnds
  <2>. QED  BY <1>1, <1>4, <1>6, <2>1
<1>12. ASSUME NEW n \in DOMAIN stack, NEW g \in Frames, stack' = Becomes(n, g),
              UNCHANGED filing, g.files = stack[n].files, g.had = stack[n].had,
              Remembers(g) => stack[n].kind = "unwind"
       PROVE  ListInOrder' /\ CutInPlace'
  <2>1. Remembers(g) => Cut(stack[n], open_files)
    BY <1>0, <1>12 DEF CutInPlace, Remembers
  <2>2. Remembers(g) => Cut(g, open_files)
    BY <1>12, <2>1 DEF Cut
  <2>. QED  BY <1>1, <1>4, <1>12, <2>2
<1>13. CASE setjmp \/ wfree
  <2>1. PICK b \in {"set", "freed"} : Buffer(b) /\ Depth \in DOMAIN stack
    BY <1>0, <1>13 DEF setjmp, wfree
  <2>. DEFINE g == [stack[Depth] EXCEPT !.buf = b]
  <2>2. /\ g \in Frames /\ g.kind = stack[Depth].kind /\ g.buf = b
        /\ g.files = stack[Depth].files /\ g.had = stack[Depth].had
    BY <1>0, <2>1, ChangedFrames
  <2>3. stack' = Becomes(Depth, g) /\ UNCHANGED filing
    BY <2>1 DEF Buffer
  <2>. HIDE DEF g
  <2>. QED  BY <1>12, <2>1, <2>2, <2>3 DEF Remembers
<1>14. CASE ErrorLands
  <2>. DEFINE g == [stack[est_errjmp] EXCEPT !.buf = "caught"]
  <2>1. est_errjmp \in DOMAIN stack
    BY <1>0, <1>14 DEF ErrorLands, IInv, PointersInForce, InForce
  <2>2. /\ g \in Frames /\ g.kind = stack[est_errjmp].kind /\ g.buf = "caught"
        /\ g.files = stack[est_errjmp].files /\ g.had = stack[est_errjmp].had
    BY <1>0, <2>1, ChangedFrames
  <2>3. stack' = Becomes(est_errjmp, g) /\ UNCHANGED filing
    BY <1>14 DEF ErrorLands
  <2>. HIDE DEF g
  <2>. QED  BY <1>12, <2>1, <2>2, <2>3 DEF Remembers
<1>15. CASE UnwindProtectCatches
  <2>. DEFINE g == [After EXCEPT !.files = Top.files, !.had = Top.had, !.buf = "tidying"]
  <2>1. /\ Depth \in DOMAIN stack /\ stack' = Becomes(Depth, g) /\ UNCHANGED filing
        /\ stack[Depth].kind = "unwind"
    BY <1>0, <1>15 DEF UnwindProtectCatches
  <2>2. g \in Frames /\ g.files = stack[Depth].files /\ g.had = stack[Depth].had
    BY <1>0, <2>1, ChangedFrames
  <2>. HIDE DEF g
  <2>. QED  BY <1>12, <2>1, <2>2
<1>16. CASE \/ err \/ handle_sigint \/ repl \/ GoWild \/ LookFurther \/ NoCatchFound
            \/ \E t \in Tags : lthrow(t)
  BY <1>1, <1>2, <1>16
     DEF err, handle_sigint, repl, GoWild, LookFurther, NoCatchFound, lthrow, pointers
<1>17. CASE siod_quit
  <2>1. DOMAIN open_files' = {} /\ UNCHANGED stack
    BY <1>17 DEF siod_quit, pointers
  <2>. QED  BY <2>1 DEF ListInOrder, CutInPlace, Cut
<1>18. CASE UnwindProtectTidies \/ ModeCatches
  <2>1. Depth \in DOMAIN stack /\ stack' = Becomes(Depth, After)
    BY <1>0, <1>18 DEF UnwindProtectTidies, ModeCatches
  <2>2. ListInOrder' /\ \A f : Cut(f, open_files) => Cut(f, open_files')
    BY <1>0, <1>1, <1>18, SuffixCut DEF UnwindProtectTidies, ModeCatches
  <2>. QED  BY <1>4, <1>6, <2>1, <2>2
<1>19. CASE ReplCatches
  <2>1. DOMAIN stack' = {}
    BY <1>19 DEF ReplCatches
  <2>2. ListInOrder'
    BY <1>0, <1>1, <1>19, SuffixCut DEF ReplCatches
  <2>. QED  BY <2>1, <2>2 DEF CutInPlace
<1>20. CASE CatchFound
  <2>1. at \in DOMAIN stack /\ stack' = Outside(at) /\ UNCHANGED filing
    BY <1>0, <1>20 DEF CatchFound, IInv, SearchOnCourse
  <2>. QED  BY <1>1, <1>3, <2>1
<1>21. ASSUME NEW c \in Files, fd_to_scheme_file(c) \/ fclose_l(c) \/ file_gc_free(c)
       PROVE  ListInOrder' /\ CutInPlace'
  <2>1. UNCHANGED stack
    BY <1>21 DEF fd_to_scheme_file, fclose_l, file_gc_free, pointers
  <2>2. CASE fd_to_scheme_file(c)
    BY <2>2, OpenCut
  <2>3. CASE fclose_l(c)
    BY <1>0, <1>2, <2>1, <2>3, CloseCut
  <2>4. CASE file_gc_free(c)
    <3>1. ListInOrder' /\ open_files' = open_files
      BY <1>0, <2>4 DEF file_gc_free, ListInOrder, Listed
    <3>. QED  BY <1>2, <2>1, <3>1
  <2>. QED  BY <1>21, <2>2, <2>3, <2>4
<1>22. CASE UNCHANGED vars
  BY <1>1, <1>2, <1>22 DEF vars, pointers
<1>. QED
  BY <1>7, <1>8, <1>9, <1>10, <1>11, <1>13, <1>14, <1>15, <1>16, <1>17, <1>18, <1>19,
     <1>20, <1>21, <1>22
     DEF Next, Land

(* An unwind-protect that catches an error closes exactly the listed files *)
(* that were opened inside it, as long as the file it found at the head of *)
(* the list is still listed.                                               *)
THEOREM ClosesExactly == Spec => ClosesItsOwn
<1>1. FInv /\ [Next]_vars =>
        [UnwindProtectTidies =>
           (Top.files \in Listed \cup {Nil} =>
              open' = open \ (Listed \ Top.had))]_vars
  <2>. SUFFICES ASSUME FInv, UnwindProtectTidies,
                       stack[Depth].files \in Listed \cup {Nil}
                PROVE  open' = open \ (Listed \ stack[Depth].had)
    OBVIOUS
  <2>. DEFINE f == stack[Depth]
  <2>1. /\ Depth \in DOMAIN stack /\ f.buf = "tidying"
        /\ open_files \in Seq(Files) /\ Len(open_files) \in Nat
        /\ DOMAIN open_files = 1..Len(open_files)
    BY DEF UnwindProtectTidies, FInv, IInv, TypeOK
  <2>2. Cut(f, open_files)
    BY <2>1 DEF FInv, CutInPlace, Remembers
  <2>3. close_open_files_upto(f.files)
    BY DEF UnwindProtectTidies
  <2>. HIDE DEF f
  <2>4. PICK k \in 0..Len(open_files) :
          /\ \A j \in 1..k : open_files[j] # f.files
          /\ k < Len(open_files) => open_files[k + 1] = f.files
          /\ open' = open \ {open_files[j] : j \in 1..k}
    BY <2>3 DEF close_open_files_upto
  <2>5. ASSUME NEW j \in DOMAIN open_files
        PROVE  open_files[j] \notin f.had <=> j \in 1..k
    <3>1. CASE k < Len(open_files)
      <4>1. k + 1 \in DOMAIN open_files /\ open_files[k + 1] = f.files
        BY <2>1, <2>4, <3>1
      <4>2. open_files[j] \in f.had <=> k + 1 <= j
        BY <2>2, <4>1 DEF Cut
      <4>. QED  BY <2>1, <4>2
    <3>2. CASE k = Len(open_files)
      <4>1. f.files \notin Listed
        BY <2>1, <2>4, <3>2 DEF Listed
      <4>2. f.files = Nil
        BY <4>1 DEF f
      <4>. QED  BY <2>1, <2>2, <3>2, <4>2 DEF Cut
    <3>3. k < Len(open_files) \/ k = Len(open_files)
      <4>1. Len(open_files) \in Nat
        BY <2>1
      <4>. QED  BY <4>1
    <3>. QED  BY <3>1, <3>2, <3>3
  <2>6. {open_files[j] : j \in 1..k} = Listed \ f.had
    BY <2>1, <2>4, <2>5 DEF Listed
  <2>. QED  BY <2>4, <2>6 DEF f
<1>. QED  BY <1>1, FilesInit, FilesStep, PTL DEF Spec, ClosesItsOwn
=============================================================================
