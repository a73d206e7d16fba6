----------------------------- MODULE GoalTurns -----------------------------
(***************************************************************************)
(* GoalAgent: a judge, an agent of its own, is asked after every turn of   *)
(* the target whether the criterion at hand is met; it tells the target to *)
(* continue, or closes the criterion and hands the target the next one.    *)
(* Both are AcpConnections: requests go to a process that answers them in  *)
(* order, one flag says that a turn is in flight, and prompts made before  *)
(* the session exists wait for it.                                         *)
(*                                                                         *)
(* A slot of the goal calls others, some through signals that a prompt to  *)
(* a dead process raises before sendPrompt returns, so the goal and its    *)
(* two connections are one record g and a slot is an operator on it.       *)
(* What is said is left out but for what a judge's answer parses as, and   *)
(* so are terminals and the transcript; of a permission, that the agent    *)
(* waits for it.                                                           *)
(***************************************************************************)
EXTENDS Integers, Sequences

CONSTANTS
  Criteria,       \* how many criteria the goal has
  MaxIterations,  \* the user's limit of judgements that end in "continue"
  MaxUserTurns    \* bound: prompts the user sends while the goal is there

ASSUME GoalAssumption ==
  /\ Criteria \in Nat \ {0} /\ MaxIterations \in Nat \ {0}
  /\ MaxUserTurns \in Nat

VARIABLES
  g,         \* the goal, its judge and its target
  known,     \* the judge's agent is in the registry
  userTurns  \* prompts the user has sent

vars == <<g, known, userTurns>>

Kinds == {"verdict", "correction", "authoring", "continue", "handoff", "user"}

\* A prompt the agent has not answered, and whether it sent prompt_end for it.
Prompt(kind) == [kind |-> kind, told |-> FALSE]

\* An AcpConnection just spawned, and the null one.
NewConnection ==
  [phase    |-> "starting",   \* no session yet; or ready; or refused, for good
   up       |-> TRUE,         \* the process has not exited
   inFlight |-> FALSE,        \* m_promptInFlight
   asking   |-> FALSE,        \* the agent waits for one of m_pendingPermissions
   owed     |-> <<>>,         \* the prompts in m_pending
   queued   |-> <<>>]         \* m_pendingPrompts
NoConnection == [NewConnection EXCEPT !.phase = "none", !.up = FALSE]

Statuses == {"Idle", "Active", "Achieved", "Cancelled", "Failed"}

NewGoal(target) ==
  [status    |-> "Idle",
   index     |-> 1,                                   \* m_currentCriterionIndex + 1
   criterion |-> [c \in 1 .. Criteria |-> IF c = 1 THEN "active" ELSE "pending"],
   iteration |-> [c \in 1 .. Criteria |-> 0],
   judging   |-> FALSE,                               \* m_awaitingJudgeResponse
   corrected |-> FALSE,                               \* m_correctionAttempted
   authoring |-> FALSE,                               \* m_awaitingAuthoring
   text      |-> "bad",       \* what m_judgeResponseBuffer parses as
   judge     |-> NoConnection,
   target    |-> target,
   \* observers
   sent      |-> [c \in 1 .. Criteria |-> 0],  \* prompts to the target about c
   twice     |-> FALSE]       \* one prompt of the judge has ended two turns

-----------------------------------------------------------------------------
(* Prompts.                                                                *)

\* sendPrompt.  To a dead process the turn begins and ends before it returns:
\* Dead says so, and the caller's next step is that of the end of the turn.
Dead(c) == c.phase = "ready" /\ ~c.up
Put(c, kind) ==
  IF c.phase # "ready" THEN [c EXCEPT !.queued = Append(@, kind)]
  ELSE IF c.up
  THEN [c EXCEPT !.inFlight = TRUE, !.owed = Append(@, Prompt(kind))]
  ELSE c

\* session/new is answered: the prompts that waited are sent.
Established(c) ==
  [c EXCEPT !.phase = "ready", !.queued = <<>>, !.inFlight = c.queued # <<>>,
            !.owed = [i \in DOMAIN c.queued |-> Prompt(c.queued[i])]]

Answerable(c) == c.phase = "ready" /\ c.up /\ c.owed # <<>>

\* The response to the oldest prompt, and a prompt_end notification for it.
Responded(c) == [c EXCEPT !.owed = Tail(@), !.inFlight = FALSE, !.asking = FALSE]
Notified(c) == [c EXCEPT !.owed[1].told = TRUE, !.inFlight = FALSE]

\* Every permission is answered "cancelled" before the turn is ended.
Exited(c) == [c EXCEPT !.up = FALSE, !.inFlight = FALSE, !.asking = FALSE]

\* handleRequestPermission, unless the policy answers it there and then.
Asks(c) == Answerable(c) /\ ~c.asking

-----------------------------------------------------------------------------
(* The goal.                                                               *)

\* Wrong variant: the judge stays wired to a goal that has ended.
LeavesJudge(s) == s
Drop(s) == [s EXCEPT !.judge = NoConnection]
Ended(s, how) == [s EXCEPT !.status = how]
GiveUp(s) == Drop(Ended(s, "Failed"))

Ask(s, kind) == [s EXCEPT !.judge = Put(@, kind)]

\* evaluateCurrentCriterion.  A dead judge answers nothing to the verdict's
\* prompt and nothing to the correction.
Evaluate(s) ==
  LET asks == [s EXCEPT !.judging = TRUE, !.corrected = FALSE, !.text = "bad"]
  IN IF s.judge.phase = "none" THEN Ended(s, "Failed")
     ELSE IF Dead(s.judge) THEN GiveUp([asks EXCEPT !.judging = FALSE, !.corrected = TRUE])
     ELSE Ask(asks, "verdict")

\* Wrong variant: the end of a turn is not skipped while the judge is asked.
AsksAgain(s) == IF s.status = "Active" THEN Evaluate(s) ELSE s
TargetEnded(s) ==
  IF s.status = "Active" /\ ~s.judging /\ ~s.authoring THEN Evaluate(s) ELSE s

\* The goal's own prompts to the target.
Tell(s, kind) ==
  LET told == [s EXCEPT !.sent[s.index] = @ + 1, !.target = Put(@, kind)]
  IN IF s.target.phase = "none" THEN s
     ELSE IF Dead(s.target) THEN TargetEnded(told) ELSE told

\* spawnJudgeForCriterion: the judge of before is dropped first.
Spawn(s) ==
  IF known THEN [s EXCEPT !.judge = NewConnection] ELSE GiveUp(s)

\* finalizeHandoff.
Handoff(s) ==
  Tell(Spawn([s EXCEPT !.index = @ + 1, !.criterion[s.index + 1] = "active",
                       !.authoring = FALSE]), "handoff")

\* Wrong variant: the last criterion is handed over like any other.
NoLast(s) ==
  Ask([s EXCEPT !.criterion[s.index] = "archived", !.authoring = TRUE], "authoring")
\* advanceToNextCriterion and beginAuthoringStep.
Advance(s) ==
  LET archived == [s EXCEPT !.criterion[s.index] = "archived"]
  IN IF s.index = Criteria THEN Drop(Ended(archived, "Achieved"))
     ELSE IF s.judge.phase = "none" \/ Dead(s.judge) THEN Handoff(archived)
     ELSE Ask([archived EXCEPT !.authoring = TRUE], "authoring")

\* Wrong variant: the limit is tested before the judgement is counted.
CountsLate(s) ==
  LET counted == [s EXCEPT !.iteration[s.index] = @ + 1]
  IN IF s.iteration[s.index] >= MaxIterations THEN Drop(Ended(counted, "Cancelled"))
     ELSE Tell(counted, "continue")
Continue(s) ==
  LET counted == [s EXCEPT !.iteration[s.index] = @ + 1]
  IN IF counted.iteration[s.index] >= MaxIterations
     THEN Drop(Ended(counted, "Cancelled"))
     ELSE Tell(counted, "continue")

\* Wrong variant: the judge is corrected until it answers well.
CorrectsOn(s) ==
  LET asks == [s EXCEPT !.judging = TRUE, !.corrected = TRUE, !.text = "bad"]
  IN IF s.judge.phase = "none" \/ Dead(s.judge) THEN GiveUp(asks) ELSE Ask(asks, "correction")
\* An answer that does not parse: the judge is corrected once.
Correct(s) ==
  LET asks == [s EXCEPT !.judging = TRUE, !.corrected = TRUE, !.text = "bad"]
  IN IF s.corrected \/ s.judge.phase = "none" THEN GiveUp(s)
     ELSE IF Dead(s.judge) THEN GiveUp([asks EXCEPT !.judging = FALSE])
     ELSE Ask(asks, "correction")

\* processJudgeResponse.
Answered(s) ==
  CASE s.text = "bad"      -> Correct(s)
    [] s.text = "continue" -> Continue(s)
    [] s.text = "complete" -> Advance(s)

\* promptEnded of the judge, to the slot that beginAuthoringStep left wired.
JudgeEnded(s) ==
  IF s.authoring THEN Handoff(s)
  ELSE IF s.judging THEN Answered([s EXCEPT !.judging = FALSE])
  ELSE s

-----------------------------------------------------------------------------
(* The user.                                                               *)

Init ==
  /\ \E phase \in {"starting", "ready"} :
       \/ g = NewGoal([NewConnection EXCEPT !.phase = phase])
       \/ phase = "ready" /\ g = NewGoal(Put([NewConnection EXCEPT !.phase = phase], "user"))
  /\ known \in BOOLEAN
  /\ userTurns = 0

\* start, and the user's message that is sent when it succeeds.
Start ==
  /\ g.status = "Idle" /\ g.target.phase # "none"
  /\ LET started == Spawn(g) IN
     IF started.status # "Idle" THEN g' = started
     ELSE LET active == Ended(started, "Active") IN
          g' = IF Dead(g.target) THEN TargetEnded(active)
               ELSE [active EXCEPT !.target = Put(@, "user")]
  /\ UNCHANGED <<known, userTurns>>

\* Another message of the user's, refused while a turn of the target is in flight.
\* One sent after a restart goes to a connection that the goal does not hear.
UserPrompts ==
  /\ g.status = "Active" /\ g.target.phase # "none" /\ ~g.target.inFlight
  /\ userTurns < MaxUserTurns
  /\ userTurns' = userTurns + 1
  /\ g' = LET said == [g EXCEPT !.target = Put(@, "user")] IN
          IF Dead(g.target) THEN TargetEnded(said) ELSE said
  /\ UNCHANGED known

\* The composer's Cancel and the goal row's Stop.
Stop ==
  /\ g.status = "Active"
  /\ g' = Drop(Ended(g, "Cancelled"))
  /\ UNCHANGED <<known, userTurns>>

AgentRemoved == known /\ known' = FALSE /\ UNCHANGED <<g, userTurns>>

-----------------------------------------------------------------------------
(* The judge.                                                              *)

JudgeReady ==
  /\ g.judge.phase = "starting" /\ g.judge.up
  /\ g' = [g EXCEPT !.judge = Established(@)]

\* The process never starts, or initialize or session/new is refused: the
\* connection reports an error that the goal does not hear.
JudgeRefuses ==
  /\ g.judge.phase = "starting" /\ g.judge.up
  /\ \E up \in BOOLEAN : g' = [g EXCEPT !.judge.phase = "refused", !.judge.up = up]

\* A chunk of the answer: the buffer may by now parse as anything.
JudgeSpeaks ==
  /\ Answerable(g.judge) /\ ~Head(g.judge.owed).told
  /\ g.judging /\ ~g.authoring
  /\ \E text \in {"bad", "continue", "complete"} : g' = [g EXCEPT !.text = text]

\* The response ends the turn that is in flight, whichever prompt it is of.
JudgeAnswers ==
  /\ Answerable(g.judge)
  /\ LET answered == [g EXCEPT
           !.judge = Responded(@),
           !.twice = @ \/ (g.judge.inFlight /\ Head(g.judge.owed).told)] IN
     g' = IF g.judge.inFlight THEN JudgeEnded(answered) ELSE answered

\* The judge's connection has no policy, and nobody is connected to
\* permissionRequested: what it asks for is never answered.
JudgeAsks == Asks(g.judge) /\ g' = [g EXCEPT !.judge.asking = TRUE]

\* A prompt_end notification ahead of the response.
JudgeNotifies ==
  /\ Answerable(g.judge) /\ g.judge.inFlight /\ ~Head(g.judge.owed).told
  /\ g' = JudgeEnded([g EXCEPT !.judge = Notified(@)])

\* The judge's process exits: its turn ends first, and the exit is reported if
\* that has not dropped the connection.
JudgeExits ==
  /\ g.judge.up
  /\ LET gone == [g EXCEPT !.judge = Exited(@)]
         after == IF g.judge.inFlight THEN JudgeEnded(gone) ELSE gone
     IN g' = IF after.status # "Active" \/ after.judge.phase = "none" \/ after.judge.up
             THEN after
             ELSE IF after.authoring THEN Handoff(after)
             ELSE Ended(after, "Failed")

-----------------------------------------------------------------------------
(* The target.                                                             *)

TargetReady ==
  /\ g.target.phase = "starting" /\ g.target.up
  /\ g' = [g EXCEPT !.target = Established(@)]

TargetRefuses ==
  /\ g.target.phase = "starting" /\ g.target.up
  /\ \E up \in BOOLEAN : g' = [g EXCEPT !.target.phase = "refused", !.target.up = up]

TargetAnswers ==
  /\ Answerable(g.target)
  /\ LET answered == [g EXCEPT !.target = Responded(@)] IN
     g' = IF g.target.inFlight THEN TargetEnded(answered) ELSE answered

TargetNotifies ==
  /\ Answerable(g.target) /\ g.target.inFlight /\ ~Head(g.target.owed).told
  /\ g' = TargetEnded([g EXCEPT !.target = Notified(@)])

TargetExits ==
  /\ g.target.up
  /\ LET gone == [g EXCEPT !.target = Exited(@)] IN
     g' = IF g.target.inFlight THEN TargetEnded(gone) ELSE gone

TargetAsks == Asks(g.target) /\ g' = [g EXCEPT !.target.asking = TRUE]

\* The user's answer, in the view.
PermissionAnswered ==
  /\ Answerable(g.target) /\ g.target.asking
  /\ g' = [g EXCEPT !.target.asking = FALSE]

\* restartSession gives the dock another connection and deletes the goal's target,
\* every slot of which it has disconnected: onTargetDestroyed is not called.
TargetReplaced ==
  /\ g.status # "Idle" /\ g.target.phase # "none"
  /\ g' = [g EXCEPT !.target = NoConnection]

-----------------------------------------------------------------------------
AgentActs ==
  /\ \/ JudgeReady \/ JudgeRefuses \/ TargetReady \/ TargetRefuses
     \/ ~g.judge.asking /\ JudgeAnswers
     \/ ~g.target.asking /\ TargetAnswers
  /\ UNCHANGED <<known, userTurns>>

\* An agent that asks for a permission may answer without it, and need not.
Other ==
  /\ \/ JudgeSpeaks \/ JudgeNotifies \/ JudgeExits \/ JudgeAsks
     \/ TargetNotifies \/ TargetExits \/ TargetReplaced
     \/ TargetAsks \/ PermissionAnswered
     \/ g.judge.asking /\ JudgeAnswers
     \/ g.target.asking /\ TargetAnswers
  /\ UNCHANGED <<known, userTurns>>

Next == Start \/ UserPrompts \/ Stop \/ AgentRemoved \/ AgentActs \/ Other

Spec == Init /\ [][Next]_vars

\* An agent that runs and waits for no permission answers: as long as one has
\* something to answer, some answer comes.  Nothing is assumed of the user.
FairSpec == Spec /\ WF_vars(AgentActs)

-----------------------------------------------------------------------------
(* Properties.                                                             *)

Connections ==
  [phase : {"none", "starting", "ready", "refused"}, up : BOOLEAN,
   inFlight : BOOLEAN, asking : BOOLEAN,
   owed : Seq([kind : Kinds, told : BOOLEAN]), queued : Seq(Kinds)]

\* Every field has its type: the index names a criterion even after the last
\* hand-off, and no iteration exceeds the user's limit.
TypeOK ==
  /\ g \in [status    : Statuses,
            index     : 1 .. Criteria,
            criterion : [1 .. Criteria -> {"pending", "active", "archived"}],
            iteration : [1 .. Criteria -> 0 .. MaxIterations],
            judging   : BOOLEAN, corrected : BOOLEAN, authoring : BOOLEAN,
            text      : {"bad", "continue", "complete"},
            judge     : Connections, target : Connections,
            sent      : [1 .. Criteria -> Nat],
            twice     : BOOLEAN]
  /\ known \in BOOLEAN /\ userTurns \in 0 .. MaxUserTurns

\* What the goal waits for from its judge.
Awaited ==
  IF g.authoring THEN "authoring" ELSE IF g.corrected THEN "correction" ELSE "verdict"

\* The goal's target has been replaced, and nothing will tell it so.
Orphaned == g.target.phase = "none"

\* An active goal always waits for someone who owes it something: the judge owes
\* the very prompt it awaits and nothing later, or it awaits nothing and the
\* target has a turn in flight, or one to come with its session.  Evaluation,
\* correction, authoring and hand-off, the exit of either process and the user's
\* own prompts never leave it with nobody to move; only a restart of the target
\* does, once the judge has been heard.
SomeoneMoves ==
  g.status = "Active" =>
    IF g.judging \/ g.authoring
    THEN /\ ~(g.judging /\ g.authoring)
         /\ \/ g.judge.phase \in {"starting", "refused"} /\ g.judge.queued = <<Awaited>>
            \/ /\ g.judge.phase = "ready" /\ g.judge.up /\ g.judge.inFlight
               /\ g.judge.owed # <<>> /\ g.judge.owed[Len(g.judge.owed)] = Prompt(Awaited)
    ELSE \/ g.target.inFlight /\ g.target.up /\ g.target.owed # <<>>
         \/ g.target.phase \in {"starting", "refused"} /\ g.target.queued # <<>>
         \/ Orphaned

\* The target is told once of every criterion after the first and once after
\* every judgement but the one that exhausts the limit, which ends the goal.  One
\* that has been replaced is told of nothing more, and of nothing twice.
ToldOnce ==
  /\ \A c \in 1 .. Criteria :
       LET handed == IF c > 1 /\ c <= g.index THEN 1 ELSE 0
           last   == IF g.iteration[c] = MaxIterations THEN 1 ELSE 0
           due    == handed + g.iteration[c] - last
       IN g.sent[c] <= due /\ (g.sent[c] = due \/ Orphaned)
  /\ \A c \in 1 .. Criteria : g.iteration[c] = MaxIterations =>
       g.status = "Cancelled" /\ c = g.index

\* A goal whose target is gone fails, as onTargetDestroyed means it to.
FailsWithTarget == g.status = "Active" => ~Orphaned

\* Criteria are met in order: those before the index are archived, those after
\* it pending, and all are archived exactly when the goal is achieved.
MetInOrder ==
  /\ \A c \in 1 .. Criteria :
       /\ c < g.index => g.criterion[c] = "archived"
       /\ c > g.index => g.criterion[c] = "pending"
  /\ g.status = "Achieved" <=> \A c \in 1 .. Criteria : g.criterion[c] = "archived"

\* The goal keeps to GoalCourse, whatever its judge and its target answer, end or
\* leave unanswered: no judgement is counted twice, none after the limit or once the
\* criterion is archived, what is archived is handed over once, and nothing that
\* comes after the end moves the goal, tells its target anything or ends it again.
Course == INSTANCE GoalCourse WITH
  status <- g.status, index <- g.index, criterion <- g.criterion,
  iteration <- g.iteration, sent <- g.sent, attached <- g.target.phase # "none"
CourseSpec == Course!Spec

\* An active goal ends: achieved, out of iterations, failed or stopped; unless
\* the judge or the target never gets a session or waits for a permission, or the
\* target has been replaced.
Sessionless(c) == c.phase = "refused" \/ (c.phase = "starting" /\ ~c.up)
Stuck(c) == Sessionless(c) \/ c.asking
GoalEnds ==
  g.status = "Active" ~>
    (g.status # "Active" \/ Stuck(g.judge) \/ Stuck(g.target) \/ Orphaned)

\* One turn of an agent ends once, whichever way it says so.
OneEndPerTurn == ~g.twice
=============================================================================
