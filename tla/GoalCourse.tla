----------------------------- MODULE GoalCourse -----------------------------
(***************************************************************************)
(* What GoalAgent promises its user, whatever its two agents do.  Criteria *)
(* are taken one by one: each judgement either sends the target on, until  *)
(* the limit, or archives the criterion; what is archived is handed over   *)
(* once, to the criterion after it.  A goal that has ended stays as it is. *)
(* A target that is replaced is told nothing more, and the goal goes on.   *)
(***************************************************************************)
EXTENDS Integers

CONSTANTS Criteria, MaxIterations

VARIABLES
  status,
  index,      \* the criterion at hand
  criterion,  \* pending, active or archived
  iteration,  \* judgements of each that ended in "continue"
  sent,       \* what the target was told, of each
  attached    \* the target is the one it was

vars == <<status, index, criterion, iteration, sent, attached>>

Init ==
  /\ status = "Idle" /\ index = 1
  /\ criterion = [c \in 1 .. Criteria |-> IF c = 1 THEN "active" ELSE "pending"]
  /\ iteration = [c \in 1 .. Criteria |-> 0]
  /\ sent = [c \in 1 .. Criteria |-> 0]
  /\ attached = TRUE

\* The goal goes on, or finds that it has nobody left to ask.
GoesOn == status' \in {"Active", "Failed"}

Start ==
  /\ status = "Idle" /\ GoesOn
  /\ UNCHANGED <<index, criterion, iteration, sent, attached>>

\* One more prompt to the target about criterion c.
Told(c) == sent' = IF attached THEN [sent EXCEPT ![c] = @ + 1] ELSE sent

Judged == status = "Active" /\ criterion[index] = "active"

Continue ==
  /\ Judged
  /\ iteration' = [iteration EXCEPT ![index] = @ + 1]
  /\ IF iteration'[index] >= MaxIterations
     THEN status' = "Cancelled" /\ UNCHANGED sent
     ELSE GoesOn /\ Told(index)
  /\ UNCHANGED <<index, criterion, attached>>

\* The criterion after the one that is archived, in mid-step perhaps.
Pass(archived) ==
  /\ index < Criteria /\ index' = index + 1
  /\ criterion' = [archived EXCEPT ![index + 1] = "active"]
  /\ Told(index + 1) /\ GoesOn

Complete ==
  /\ Judged
  /\ LET archived == [criterion EXCEPT ![index] = "archived"] IN
     \/ /\ status' = IF index = Criteria THEN "Achieved" ELSE "Active"
        /\ criterion' = archived /\ UNCHANGED <<index, sent>>
     \/ Pass(archived)
  /\ UNCHANGED <<iteration, attached>>

HandOver ==
  /\ status = "Active" /\ criterion[index] = "archived" /\ Pass(criterion)
  /\ UNCHANGED <<iteration, attached>>

\* A stop, or the loss of an agent.
End ==
  /\ status = "Active" /\ status' \in {"Cancelled", "Failed"}
  /\ UNCHANGED <<index, criterion, iteration, sent, attached>>

\* The session is restarted.
Detach ==
  /\ status # "Idle" /\ attached /\ attached' = FALSE
  /\ UNCHANGED <<status, index, criterion, iteration, sent>>

Next == Start \/ Continue \/ Complete \/ HandOver \/ End \/ Detach

Spec == Init /\ [][Next]_vars
=============================================================================
