------------------------------ MODULE FsCalls ------------------------------
(***************************************************************************)
(* What the remote file system promises its callers, whatever queues,      *)
(* lanes, retries and reconnections lie between: a call is answered at     *)
(* most once; a call that changes the server does so at most once, before  *)
(* its answer, and is answered "ok" only if it did.                        *)
(***************************************************************************)
EXTENDS Naturals, Sequences

CONSTANTS Calls,     \* the calls made on the backend
          Changing   \* those that change a file or a name on the server

VARIABLES asked,     \* the calls made so far
          effects,   \* how often each call changed the server
          answers,   \* the "ok" flags each caller was given, in order
          alive      \* the backend exists

vars == <<asked, effects, answers, alive>>

Init == /\ asked = {} /\ alive = TRUE
        /\ effects = [c \in Calls |-> 0]
        /\ answers = [c \in Calls |-> <<>>]

Open == {c \in asked : answers[c] = <<>>}

Ask(c) == /\ c \in Calls \ asked /\ alive
          /\ asked' = asked \union {c}
          /\ UNCHANGED <<effects, answers, alive>>

\* Only a backend that was destroyed leaves a call to be carried out unheard.
Perform(c) == /\ c \in asked \intersect Changing
              /\ effects[c] = 0
              /\ c \in Open \/ ~alive
              /\ effects' = [effects EXCEPT ![c] = 1]
              /\ UNCHANGED <<asked, answers, alive>>

Succeed(c) == /\ c \in Open
              /\ c \in Changing => effects[c] = 1
              /\ answers' = [answers EXCEPT ![c] = <<TRUE>>]
              /\ UNCHANGED <<asked, effects, alive>>

\* The calls of S are told they failed: one of them, or all at a loss.
Fail(S) == answers' = [c \in Calls |-> IF c \in S THEN <<FALSE>> ELSE answers[c]]

FailSome == /\ \E S \in SUBSET Open : Fail(S)
            /\ UNCHANGED <<asked, effects, alive>>

Destroy == /\ alive /\ alive' = FALSE
           /\ \E S \in SUBSET Open : Fail(S)
           /\ UNCHANGED <<asked, effects>>

Next == FailSome \/ Destroy
        \/ \E c \in Calls : Ask(c) \/ Perform(c) \/ Succeed(c)

Spec == Init /\ [][Next]_vars
=============================================================================
