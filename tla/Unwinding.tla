------------------------------ MODULE Unwinding ------------------------------
(***************************************************************************)
(* What non-local exits promise a Lisp program, without the machinery:     *)
(* scopes nest; an error resumes in the innermost scope that handles       *)
(* errors, with everything inside it left, and at the prompt when there is *)
(* none; a throw leaves the innermost scope that catches its tag, and is   *)
(* an error when there is none.                                            *)
(***************************************************************************)
EXTENDS Naturals, Sequences

CONSTANTS Tags, NoTag

VARIABLES
  scopes,   \* the scopes entered and not left, innermost last
  exit,     \* the exit on its way
  over      \* has the program ended?

vars == <<scopes, exit, over>>

Catcher(t) == [kind |-> "catch", tag |-> t]
Handler    == [kind |-> "handler", tag |-> NoTag]
Plain      == [kind |-> "plain", tag |-> NoTag]
Scopes     == {Catcher(t) : t \in Tags} \cup {Handler, Plain}

None     == [kind |-> "none", tag |-> NoTag]
Error    == [kind |-> "error", tag |-> NoTag]
Quit     == [kind |-> "quit", tag |-> NoTag]
Throw(t) == [kind |-> "throw", tag |-> t]

Init == scopes = <<>> /\ exit = None /\ over = FALSE

Running == exit = None /\ ~over

Enter(k) == Running /\ scopes' = Append(scopes, k) /\ UNCHANGED <<exit, over>>

Outside(n) == SubSeq(scopes, 1, n - 1)

Leave ==
  /\ Running /\ scopes # <<>>
  /\ scopes' = Outside(Len(scopes))
  /\ UNCHANGED <<exit, over>>

(* A scope begins or ceases to handle errors.  It may send on what it has  *)
(* caught as it ceases.                                                    *)
Turn(k) ==
  /\ Running /\ scopes # <<>>
  /\ scopes' = Append(Outside(Len(scopes)), k)
  /\ exit' \in {None, Error} /\ UNCHANGED over

Start(x) == Running /\ exit' = x /\ UNCHANGED <<scopes, over>>

(* An interrupt takes the place of whatever is on its way.                 *)
Interrupt == ~over /\ exit' = Error /\ UNCHANGED <<scopes, over>>

Innermost(k, n) ==
  /\ n \in DOMAIN scopes /\ scopes[n] = k
  /\ \A j \in DOMAIN scopes : j > n => scopes[j] # k

Nobody(k) == \A n \in DOMAIN scopes : scopes[n] # k

Handle(n) ==
  /\ exit \in {Error, Quit} /\ Innermost(Handler, n)
  /\ scopes' = Append(Outside(n), Handler) /\ exit' = None
  /\ UNCHANGED over

Prompt ==
  /\ exit \in {Error, Quit} /\ Nobody(Handler)
  /\ scopes' = <<>> /\ exit' = None
  /\ over' = (exit = Quit)

Catch(t, n) ==
  /\ exit = Throw(t) /\ Innermost(Catcher(t), n)
  /\ scopes' = Outside(n) /\ exit' = None
  /\ UNCHANGED over

NoCatch(t) ==
  /\ exit = Throw(t) /\ Nobody(Catcher(t))
  /\ exit' = Error
  /\ UNCHANGED <<scopes, over>>

End == Running /\ scopes = <<>> /\ over' = TRUE /\ UNCHANGED <<scopes, exit>>

Next ==
  \/ \E k \in Scopes : Enter(k)
  \/ \E k \in {Handler, Plain} : Turn(k)
  \/ \E x \in {Error, Quit} \cup {Throw(t) : t \in Tags} : Start(x)
  \/ \E n \in DOMAIN scopes : Handle(n)
  \/ \E n \in DOMAIN scopes, t \in Tags : Catch(t, n)
  \/ \E t \in Tags : NoCatch(t)
  \/ Leave \/ Interrupt \/ Prompt \/ End
=============================================================================
