-------------------------- MODULE GoalTurns_proofs --------------------------
(***************************************************************************)
(* Theorems about GoalTurns, for any number of criteria and any limits.    *)
(* A slot of the goal is an operator on the record g, and so are the       *)
(* facts: Settled holds of g between two events, and of what every slot    *)
(* leaves; Ready holds where a slot is about to ask or to tell somebody.   *)
(* Each operator takes Ready to Settled, and each action takes Settled to  *)
(* Settled by way of them.  A slot may leave a dead judge to an active     *)
(* goal: only the exit that is being handled does, and it ends the goal.   *)
(* Here says that the target has not been replaced; the facts about it     *)
(* that follow are bounds once it has.                                     *)
(* Last, GoalCourse is shown to be implemented.                            *)
(***************************************************************************)
EXTENDS GoalTurns, SequenceTheorems, TLAPS

-----------------------------------------------------------------------------
(* The invariant, of a goal s.                                             *)

Goals ==
  [status    : Statuses,
   index     : 1 .. Criteria,
   criterion : [1 .. Criteria -> {"pending", "active", "archived"}],
   iteration : [1 .. Criteria -> 0 .. MaxIterations],
   judging   : BOOLEAN, corrected : BOOLEAN, authoring : BOOLEAN,
   text      : {"bad", "continue", "complete"},
   judge     : Connections, target : Connections,
   sent      : [1 .. Criteria -> Nat],
   twice     : BOOLEAN]

\* A turn is in flight only with a prompt owed by a process that runs, and
\* prompts wait only for a session.
Sound(c) ==
  /\ c \in Connections
  /\ c.inFlight => c.phase = "ready" /\ c.up /\ c.owed # <<>>
  /\ c.queued # <<>> => c.phase \in {"starting", "refused"}
  /\ c.phase = "none" => ~c.up

\* The target is the one the goal was started with.
Here(s) == s.target.phase # "none"

\* ToldOnce, with d prompts about the criterion at hand still to be sent.
Matches(s, sent, due) == sent <= due /\ (sent = due \/ ~Here(s))
Counted(s, d) ==
  \A c \in 1 .. Criteria :
    Matches(s, s.sent[c] + (IF c = s.index THEN d ELSE 0),
            (IF c > 1 /\ c <= s.index THEN 1 ELSE 0) + s.iteration[c]
              - (IF s.iteration[c] = MaxIterations THEN 1 ELSE 0))

Within(s) ==
  \A c \in 1 .. Criteria :
    s.iteration[c] = MaxIterations => s.status = "Cancelled" /\ c = s.index

\* MetInOrder, by its last criterion.
Ordered(s) ==
  /\ \A c \in 1 .. Criteria :
       /\ c < s.index => s.criterion[c] = "archived"
       /\ c > s.index => s.criterion[c] = "pending"
  /\ IF s.status = "Achieved"
     THEN s.index = Criteria /\ s.criterion[Criteria] = "archived"
     ELSE s.criterion[Criteria] # "archived"

AwaitedOf(s) ==
  IF s.authoring THEN "authoring" ELSE IF s.corrected THEN "correction" ELSE "verdict"

\* SomeoneMoves, of an active goal.
JudgeMoves(s) ==
  /\ ~(s.judging /\ s.authoring)
  /\ \/ s.judge.phase \in {"starting", "refused"} /\ s.judge.queued = <<AwaitedOf(s)>>
     \/ /\ s.judge.phase = "ready" /\ s.judge.up /\ s.judge.inFlight
        /\ s.judge.owed # <<>> /\ s.judge.owed[Len(s.judge.owed)] = Prompt(AwaitedOf(s))
TargetMoves(s) ==
  \/ s.target.inFlight /\ s.target.up /\ s.target.owed # <<>>
  \/ s.target.phase \in {"starting", "refused"} /\ s.target.queued # <<>>
  \/ ~Here(s)
Moves(s) == IF s.judging \/ s.authoring THEN JudgeMoves(s) ELSE TargetMoves(s)

\* Where an active goal stands in its criterion.
Placed(s) ==
  IF s.authoring THEN s.index < Criteria /\ s.criterion[s.index] = "archived"
                      /\ s.judge.phase = "ready"
  ELSE s.criterion[s.index] = "active"

Books(s) ==
  s \in Goals /\ Sound(s.judge) /\ Sound(s.target) /\ Within(s) /\ Ordered(s)

\* The judge of an active goal that waits for nothing has no prompt queued.
Served(s) ==
  /\ s.judge.phase # "none"
  /\ s.judge.phase = "starting" => s.judge.up
  /\ (s.judge.phase # "ready" /\ ~s.judging /\ ~s.authoring) => s.judge.queued = <<>>

Settled(s) ==
  /\ Books(s) /\ Counted(s, 0)
  /\ s.judge.up => s.status = "Active"
  /\ s.status = "Active" =>
       /\ Served(s) /\ Placed(s)
       /\ IF Dead(s.judge) THEN ~s.judging /\ ~s.authoring ELSE Moves(s)
  /\ s.status = "Idle" =>
       /\ s.index = 1 /\ s.criterion[1] = "active" /\ s.judge = NoConnection
       /\ ~s.judging /\ ~s.authoring

Inv == Settled(g) /\ (g.status = "Active" => ~Dead(g.judge))
       /\ known \in BOOLEAN /\ userTurns \in 0 .. MaxUserTurns

\* An active goal that awaits nothing and owes its target d prompts.
Ready(s, d) ==
  /\ Books(s) /\ Counted(s, d) /\ Served(s)
  /\ s.status = "Active" /\ ~s.judging /\ ~s.authoring

\* A slot that took s to t has left a dead judge only where it found one.
Kept(s, t) == t.status = "Active" /\ Dead(t.judge) => Dead(s.judge)

-----------------------------------------------------------------------------
(* Connections.                                                            *)

LEMMA Connected ==
  /\ Sound(NewConnection) /\ Sound(NoConnection)
  /\ NewConnection.phase = "starting" /\ NewConnection.up /\ NewConnection.queued = <<>>
  /\ NoConnection.phase = "none" /\ ~NoConnection.up
<1>1. <<>> \in Seq([kind : Kinds, told : BOOLEAN]) /\ <<>> \in Seq(Kinds)
  BY EmptySeq
<1>2. NewConnection \in Connections /\ NoConnection \in Connections
  BY <1>1 DEF Connections, NewConnection, NoConnection
<1> QED
  BY <1>2 DEF Sound, NewConnection, NoConnection

LEMMA Sent ==
  ASSUME NEW c, Sound(c), NEW kind \in Kinds
  PROVE  /\ Sound(Put(c, kind)) \/ c.phase = "none"
         /\ Put(c, kind).phase = c.phase /\ Put(c, kind).up = c.up
         /\ c.phase # "ready" => Put(c, kind).queued = Append(c.queued, kind)
         /\ c.phase = "ready" /\ c.up =>
              /\ Put(c, kind).inFlight /\ Put(c, kind).owed # <<>>
              /\ Put(c, kind).owed[Len(Put(c, kind).owed)] = Prompt(kind)
<1>1. CASE c.phase # "ready"
  <2>1. Append(c.queued, kind) \in Seq(Kinds) /\ Append(c.queued, kind) # <<>>
    BY AppendProperties DEF Sound, Connections
  <2> QED
    BY <1>1, <2>1 DEF Sound, Connections, Put
<1>2. CASE c.phase = "ready" /\ c.up
  <2> DEFINE P == [kind : Kinds, told : BOOLEAN]
             o == Append(c.owed, Prompt(kind))
  <2>1. Prompt(kind) \in P /\ c.owed \in Seq(P)
    BY DEF Prompt, Sound, Connections
  <2>2. o \in Seq(P) /\ Len(o) = Len(c.owed) + 1 /\ o[Len(c.owed) + 1] = Prompt(kind)
        /\ o # <<>>
    BY <2>1, AppendProperties
  <2> HIDE DEF o
  <2>3. Put(c, kind) = [c EXCEPT !.inFlight = TRUE, !.owed = o]
    BY <1>2 DEF Put, o
  <2>4. /\ Put(c, kind) \in Connections
        /\ Put(c, kind).inFlight /\ Put(c, kind).owed = o
        /\ Put(c, kind).phase = c.phase /\ Put(c, kind).up = c.up
        /\ Put(c, kind).queued = c.queued
    BY <2>2, <2>3 DEF Sound, Connections
  <2> QED
    BY <1>2, <2>2, <2>4 DEF Sound
<1>3. CASE c.phase = "ready" /\ ~c.up
  BY <1>3 DEF Put
<1> QED
  BY <1>1, <1>2, <1>3


LEMMA Queued ==
  ASSUME NEW c, Sound(c), NEW kind \in Kinds, c.queued = <<>>, c.phase # "ready"
  PROVE  Put(c, kind).queued = <<kind>>
BY Sent, Append(<<>>, kind) = <<kind>>

-----------------------------------------------------------------------------
(* The slots.                                                              *)

\* A goal that ends keeps its books.
LEMMA Over ==
  ASSUME NEW s, Books(s), Counted(s, 0), s.status \in {"Idle", "Active"},
         NEW how \in {"Cancelled", "Failed"}
  PROVE  /\ Settled(Drop(Ended(s, how))) /\ Drop(Ended(s, how)).status = how
         /\ ~s.judge.up => Settled(Ended(s, how)) /\ Ended(s, how).status = how
<1>1. Sound(NoConnection) /\ NoConnection \in Connections /\ ~NoConnection.up
  BY Connected DEF Sound
<1> HIDE DEF NoConnection
<1>2. ASSUME NEW c, Sound(c), ~c.up
      PROVE  /\ Settled([s EXCEPT !.status = how, !.judge = c])
             /\ [s EXCEPT !.status = how, !.judge = c].status = how
  <2> DEFINE t == [s EXCEPT !.status = how, !.judge = c]
  <2>1. t \in Goals
    BY <1>2 DEF Books, Goals, Statuses, Sound
  <2>2. /\ t.status = how /\ t.judge = c /\ t.target = s.target
        /\ t.index = s.index /\ t.criterion = s.criterion /\ t.iteration = s.iteration
        /\ t.sent = s.sent
    BY DEF Books, Goals
  <2> HIDE DEF t
  <2>3. Within(t)
    BY <2>2 DEF Within, Books
  <2>4. Ordered(t)
    BY <2>2 DEF Ordered, Books
  <2>5. Counted(t, 0)
    BY <2>2 DEF Counted, Matches, Here
  <2>6. Books(t)
    BY <1>2, <2>1, <2>2, <2>3, <2>4 DEF Books
  <2> QED
    BY <1>2, <2>2, <2>5, <2>6 DEF Settled, t
<1>3. Drop(Ended(s, how)) = [s EXCEPT !.status = how, !.judge = NoConnection]
  BY DEF Drop, Ended, Books, Goals
<1>4. Ended(s, how) = [s EXCEPT !.status = how, !.judge = s.judge]
  BY DEF Ended, Books, Goals
<1> QED
  BY <1>1, <1>2, <1>3, <1>4 DEF Books

\* The judge is asked: the goal awaits it, and has told it so.
LEMMA Asked ==
  ASSUME NEW s, NEW kind \in Kinds, Books(s), Counted(s, 0), s.status = "Active",
         s.judge.phase # "none",
         s.judge.phase = "starting" => s.judge.up,
         s.judge.phase # "ready" => s.judge.queued = <<>>,
         ~Dead(s.judge),
         s.judging # s.authoring, kind = AwaitedOf(s), Placed(s)
  PROVE  Settled(Ask(s, kind)) /\ ~Dead(Ask(s, kind).judge)
<1> DEFINE t == Ask(s, kind)
           c == Put(s.judge, kind)
<1>1. Sound(c) /\ c.phase = s.judge.phase /\ c.up = s.judge.up
  BY Sent DEF Books
<1>2. t = [s EXCEPT !.judge = c]
  BY DEF Ask
<1>3. \/ c.phase # "ready" /\ c.queued = <<kind>>
      \/ c.phase = "ready" /\ c.up /\ c.inFlight /\ c.owed # <<>>
           /\ c.owed[Len(c.owed)] = Prompt(kind)
  BY <1>1, Sent, Queued DEF Books, Dead
<1> HIDE DEF c, t
<1>4. t \in Goals
  BY <1>1, <1>2 DEF Books, Goals, Sound
<1>5. /\ t.status = s.status /\ t.judge = c /\ t.target = s.target
      /\ t.index = s.index /\ t.criterion = s.criterion /\ t.iteration = s.iteration
      /\ t.sent = s.sent /\ t.judging = s.judging /\ t.authoring = s.authoring
      /\ t.corrected = s.corrected
  BY <1>2 DEF Books, Goals
<1>6. Within(t) /\ Counted(t, 0)
  BY <1>5 DEF Within, Counted, Matches, Here, Books
<1>7. Ordered(t)
  BY <1>5 DEF Ordered, Books
<1>8. Books(t)
  BY <1>1, <1>4, <1>5, <1>6, <1>7 DEF Books
<1>9. c.phase \in {"starting", "ready", "refused"}
  BY <1>1 DEF Sound, Connections
<1>10. JudgeMoves(t)
  <2>1. AwaitedOf(t) = kind
    BY <1>5 DEF AwaitedOf
  <2> QED
    BY <1>3, <1>5, <1>9, <2>1 DEF JudgeMoves, Books, Goals
<1>11. Served(t) /\ Placed(t) /\ ~Dead(t.judge)
  BY <1>1, <1>3, <1>5 DEF Served, Placed, Dead, Books, Goals
<1>12. Moves(t)
  BY <1>5, <1>10 DEF Moves, Books, Goals
<1> QED
  BY <1>5, <1>6, <1>8, <1>11, <1>12 DEF Settled, t

\* evaluateCurrentCriterion, of an active goal that waits for nobody.
LEMMA Evaluated ==
  ASSUME NEW s, Ready(s, 0), s.criterion[s.index] = "active"
  PROVE  Settled(Evaluate(s)) /\ Kept(s, Evaluate(s))
<1>1. s.judge.phase # "none"
  BY DEF Ready, Served
<1> DEFINE asks == [s EXCEPT !.judging = TRUE, !.corrected = FALSE, !.text = "bad"]
           ends == [asks EXCEPT !.judging = FALSE, !.corrected = TRUE]
<1>2. /\ asks \in Goals /\ asks.status = s.status /\ asks.judge = s.judge
      /\ asks.target = s.target /\ asks.index = s.index
      /\ asks.criterion = s.criterion /\ asks.iteration = s.iteration
      /\ asks.sent = s.sent /\ asks.judging /\ asks.authoring = s.authoring
      /\ ~asks.corrected
  BY DEF Ready, Books, Goals
<1>3. /\ ends \in Goals /\ ends.status = s.status /\ ends.judge = s.judge
      /\ ends.target = s.target /\ ends.index = s.index
      /\ ends.criterion = s.criterion /\ ends.iteration = s.iteration
      /\ ends.sent = s.sent
  BY <1>2 DEF Goals
<1>4. CASE Dead(s.judge)
  <2>1. Evaluate(s) = Drop(Ended(ends, "Failed"))
    BY <1>1, <1>4 DEF Evaluate, GiveUp
  <2> HIDE DEF ends
  <2>2. Books(ends) /\ Counted(ends, 0)
    BY <1>3 DEF Ready, Books, Within, Ordered, Counted, Matches, Here
  <2> QED
    BY <1>3, <2>1, <2>2, Over DEF Ready, Kept
<1>5. CASE ~Dead(s.judge)
  <2>1. Evaluate(s) = Ask(asks, "verdict")
    BY <1>1, <1>5 DEF Evaluate
  <2> HIDE DEF asks
  <2>2. Books(asks) /\ Counted(asks, 0)
    BY <1>2 DEF Ready, Books, Within, Ordered, Counted, Matches, Here
  <2>3. Placed(asks) /\ AwaitedOf(asks) = "verdict" /\ asks.judging # asks.authoring
    BY <1>2 DEF Placed, AwaitedOf, Ready, Books, Goals
  <2> QED
    BY <1>2, <1>5, <2>1, <2>2, <2>3, Asked DEF Ready, Served, Kinds, Kept
<1> QED
  BY <1>4, <1>5

\* The goal's own prompts settle what it owes its target.
LEMMA Told ==
  ASSUME NEW s, NEW kind \in Kinds, Books(s), Counted(s, 1),
         \/ Ready(s, 1) /\ s.criterion[s.index] = "active"
         \/ s.status = "Failed" /\ ~s.judge.up
  PROVE  Settled(Tell(s, kind)) /\ Kept(s, Tell(s, kind))
<1>0. CASE ~Here(s)
  <2>1. Tell(s, kind) = s
    BY <1>0 DEF Tell, Here
  <2>2. Counted(s, 0)
    <3> SUFFICES ASSUME NEW i \in 1 .. Criteria
                 PROVE  s.sent[i] + 0 <=
                          (IF i > 1 /\ i <= s.index THEN 1 ELSE 0) + s.iteration[i]
                            - (IF s.iteration[i] = MaxIterations THEN 1 ELSE 0)
      BY <1>0 DEF Counted, Matches
    <3>1. s.sent[i] \in Nat /\ s.iteration[i] \in Int /\ MaxIterations \in Int
      BY GoalAssumption DEF Books, Goals
    <3>2. s.sent[i] + (IF i = s.index THEN 1 ELSE 0) <=
            (IF i > 1 /\ i <= s.index THEN 1 ELSE 0) + s.iteration[i]
              - (IF s.iteration[i] = MaxIterations THEN 1 ELSE 0)
      BY DEF Counted, Matches
    <3> QED
      BY <3>1, <3>2
  <2>3. CASE s.status = "Failed" /\ ~s.judge.up
    BY <2>1, <2>2, <2>3 DEF Settled, Kept
  <2>4. CASE Ready(s, 1) /\ s.criterion[s.index] = "active"
    <3>1. Placed(s) /\ Moves(s) /\ Served(s)
      BY <1>0, <2>4 DEF Ready, Placed, Moves, TargetMoves
    <3> QED
      BY <2>1, <2>2, <2>4, <3>1 DEF Settled, Ready, Kept
  <2> QED
    BY <2>3, <2>4
<1> SUFFICES ASSUME Here(s)
             PROVE  Settled(Tell(s, kind)) /\ Kept(s, Tell(s, kind))
  BY <1>0
<1> DEFINE c == Put(s.target, kind)
           n == [s.sent EXCEPT ![s.index] = @ + 1]
           told == [s EXCEPT !.sent[s.index] = @ + 1, !.target = Put(@, kind)]
<1>1. /\ Sound(c) /\ c.phase = s.target.phase /\ c.up = s.target.up
      /\ c.phase # "ready" => c.queued = Append(s.target.queued, kind)
      /\ c.phase = "ready" /\ c.up => c.inFlight /\ c.owed # <<>>
  BY Sent DEF Books, Here
<1>2. n \in [1 .. Criteria -> Nat]
      /\ \A i \in 1 .. Criteria : n[i] = s.sent[i] + (IF i = s.index THEN 1 ELSE 0)
  <2>1. s.sent \in [1 .. Criteria -> Nat] /\ s.index \in 1 .. Criteria
    BY DEF Books, Goals
  <2>2. \A i \in 1 .. Criteria : s.sent[i] \in Nat
    BY <2>1
  <2>3. n = [i \in 1 .. Criteria |-> IF i = s.index THEN s.sent[i] + 1 ELSE s.sent[i]]
    BY <2>1
  <2>4. \A i \in 1 .. Criteria : n[i] = s.sent[i] + (IF i = s.index THEN 1 ELSE 0)
    <3> HIDE DEF n
    <3> TAKE i \in 1 .. Criteria
    <3>1. CASE i = s.index
      BY <2>3, <3>1
    <3>2. CASE i # s.index
      <4>1. n[i] = s.sent[i] /\ s.sent[i] \in Nat
        BY <2>2, <2>3, <3>2
      <4> QED
        BY <3>2, <4>1
    <3> QED
      BY <3>1, <3>2
  <2>5. \A i \in 1 .. Criteria : s.sent[i] + (IF i = s.index THEN 1 ELSE 0) \in Nat
    BY <2>2
  <2> HIDE DEF n
  <2>6. \A i \in 1 .. Criteria : n[i] \in Nat
    BY <2>4, <2>5
  <2> QED
    BY <2>3, <2>4, <2>6
<1>3. told = [s EXCEPT !.sent = n, !.target = c]
  BY DEF Books, Goals
<1>4. Append(s.target.queued, kind) # <<>>
  BY AppendProperties DEF Books, Sound, Connections
<1> HIDE DEF c, n, told
<1>5. /\ told \in Goals /\ told.status = s.status /\ told.judge = s.judge
      /\ told.target = c /\ told.index = s.index
      /\ told.criterion = s.criterion /\ told.iteration = s.iteration
      /\ told.sent = n /\ told.judging = s.judging /\ told.authoring = s.authoring
  BY <1>1, <1>2, <1>3 DEF Books, Goals, Sound
<1>6. Counted(told, 0)
  <2> SUFFICES ASSUME NEW i \in 1 .. Criteria
               PROVE  told.sent[i] + 0 =
                        (IF i > 1 /\ i <= s.index THEN 1 ELSE 0) + s.iteration[i]
                          - (IF s.iteration[i] = MaxIterations THEN 1 ELSE 0)
    BY <1>1, <1>5 DEF Counted, Matches, Here
  <2>1. s.sent[i] + (IF i = s.index THEN 1 ELSE 0) =
          (IF i > 1 /\ i <= s.index THEN 1 ELSE 0) + s.iteration[i]
            - (IF s.iteration[i] = MaxIterations THEN 1 ELSE 0)
    BY DEF Counted, Matches
  <2>2. told.sent[i] \in Nat
    BY <1>2, <1>5
  <2> QED
    BY <1>2, <1>5, <2>1, <2>2
<1>7. Books(told)
  BY <1>1, <1>5 DEF Books, Within, Ordered
<1>8. Tell(s, kind) = IF Dead(s.target) THEN TargetEnded(told) ELSE told
  BY DEF Tell, told, Here
<1>9. CASE s.status = "Failed" /\ ~s.judge.up
  <2>1. Tell(s, kind) = told
    BY <1>5, <1>8, <1>9 DEF TargetEnded
  <2> QED
    BY <1>5, <1>6, <1>7, <1>9, <2>1 DEF Settled, Kept
<1>10. CASE Ready(s, 1) /\ s.criterion[s.index] = "active"
  <2>1. Ready(told, 0) /\ told.criterion[told.index] = "active"
    BY <1>1, <1>5, <1>6, <1>7, <1>10 DEF Ready, Served
  <2>2. CASE Dead(s.target)
    <3>1. Tell(s, kind) = Evaluate(told)
      BY <1>8, <2>1, <2>2 DEF TargetEnded, Ready
    <3> QED
      BY <1>5, <2>1, <3>1, Evaluated DEF Kept
  <2>3. CASE ~Dead(s.target)
    <3>1. TargetMoves(told)
      <4>1. c.phase \in {"starting", "ready", "refused"}
        BY <1>1 DEF Sound, Connections
      <4> QED
        BY <1>1, <1>4, <1>5, <2>3, <4>1 DEF TargetMoves, Dead, Here
    <3>2. Placed(told) /\ Moves(told) /\ Served(told)
      BY <2>1, <3>1 DEF Placed, Moves, Ready
    <3> QED
      BY <1>5, <1>6, <1>7, <1>8, <2>1, <2>3, <3>2 DEF Settled, Ready, Kept
  <2> QED
    BY <2>2, <2>3
<1> QED
  BY <1>9, <1>10

\* finalizeHandoff, of an active goal whose criterion is archived.
LEMMA HandedOver ==
  ASSUME NEW s, Books(s), Counted(s, 0), Served(s), s.status = "Active", ~s.judging,
         s.index < Criteria, s.criterion[s.index] = "archived", known \in BOOLEAN
  PROVE  Settled(Handoff(s)) /\ (Handoff(s).status = "Active" => ~Dead(Handoff(s).judge))
<1> DEFINE i == s.index + 1
           m == [s.criterion EXCEPT ![i] = "active"]
           t == [s EXCEPT !.index = @ + 1, !.criterion[s.index + 1] = "active",
                          !.authoring = FALSE]
           spawned == [t EXCEPT !.judge = NewConnection]
           failed == [t EXCEPT !.status = "Failed", !.judge = NoConnection]
<1>1. /\ i \in 1 .. Criteria /\ i > 1
      /\ m \in [1 .. Criteria -> {"pending", "active", "archived"}]
      /\ \A c \in 1 .. Criteria : m[c] = IF c = i THEN "active" ELSE s.criterion[c]
  <2>1. /\ s.criterion \in [1 .. Criteria -> {"pending", "active", "archived"}]
        /\ s.index \in 1 .. Criteria
    BY DEF Books, Goals
  <2>2. i \in 1 .. Criteria /\ i > 1
    BY <2>1, GoalAssumption
  <2> QED
    BY <2>1, <2>2
<1>2. t = [s EXCEPT !.index = i, !.criterion = m, !.authoring = FALSE]
  BY DEF Books, Goals
<1>3. /\ i = s.index + 1 /\ s.index \in 1 .. Criteria
  BY DEF Books, Goals
<1> HIDE DEF i, m
<1>4. /\ t \in Goals /\ t.status = "Active" /\ t.judge = s.judge
      /\ t.target = s.target /\ t.index = i
      /\ t.criterion = m /\ t.iteration = s.iteration
      /\ t.sent = s.sent /\ ~t.judging /\ ~t.authoring
  BY <1>1, <1>2 DEF Books, Goals
<1> HIDE DEF t
<1>5. /\ \A c \in 1 .. Criteria : s.iteration[c] # MaxIterations
      /\ \A c \in 1 .. Criteria : /\ s.iteration[c] \in Nat /\ s.sent[c] \in Nat
  <2>1. s.iteration \in [1 .. Criteria -> 0 .. MaxIterations]
        /\ s.sent \in [1 .. Criteria -> Nat]
    BY DEF Books, Goals
  <2>2. s.status = "Active" /\ Within(s)
    BY DEF Books
  <2>3. \A c \in 1 .. Criteria : s.iteration[c] \in Nat
    BY <2>1, GoalAssumption
  <2> QED
    BY <2>1, <2>2, <2>3 DEF Within
<1>6. \A c \in 1 .. Criteria :
        /\ c < i => m[c] = "archived"
        /\ c > i => m[c] = "pending"
        /\ m[Criteria] # "archived"
  <2> SUFFICES ASSUME NEW c \in 1 .. Criteria
               PROVE  /\ c < i => m[c] = "archived"
                      /\ c > i => m[c] = "pending"
                      /\ m[Criteria] # "archived"
    OBVIOUS
  <2>1. Ordered(s) /\ s.status = "Active"
    BY DEF Books
  <2>2. c < i => c < s.index \/ c = s.index
    BY <1>3
  <2>3. c > i => c > s.index
    BY <1>3
  <2>4. Criteria \in 1 .. Criteria
    BY GoalAssumption
  <2> QED
    BY <1>1, <2>1, <2>2, <2>3, <2>4 DEF Ordered
<1>7. \A c \in 1 .. Criteria :
        Matches(s, s.sent[c] + (IF c = i THEN 1 ELSE 0),
                (IF c > 1 /\ c <= i THEN 1 ELSE 0) + s.iteration[c]
                  - (IF s.iteration[c] = MaxIterations THEN 1 ELSE 0))
  <2> SUFFICES ASSUME NEW c \in 1 .. Criteria
               PROVE  Matches(s, s.sent[c] + (IF c = i THEN 1 ELSE 0),
                              (IF c > 1 /\ c <= i THEN 1 ELSE 0) + s.iteration[c]
                                - (IF s.iteration[c] = MaxIterations THEN 1 ELSE 0))
    OBVIOUS
  <2>1. Matches(s, s.sent[c], (IF c > 1 /\ c <= s.index THEN 1 ELSE 0) + s.iteration[c])
    BY <1>5 DEF Counted, Matches
  <2> QED
    BY <1>1, <1>3, <1>5, <2>1 DEF Matches
<1>8. Handoff(s) = Tell(Spawn(t), "handoff")
  BY DEF Handoff, t
<1>9. Sound(s.target)
  BY DEF Books
<1>10. CASE known
  <2>1. Spawn(t) = spawned
    BY <1>10 DEF Spawn
  <2>2. /\ spawned \in Goals /\ spawned.status = "Active" /\ spawned.judge = NewConnection
        /\ spawned.target = s.target /\ spawned.index = i
        /\ spawned.criterion = m /\ spawned.iteration = s.iteration
        /\ spawned.sent = s.sent /\ ~spawned.judging /\ ~spawned.authoring
    <3>1. NewConnection \in Connections
      BY Connected DEF Sound
    <3> HIDE DEF NewConnection
    <3> QED
      BY <1>4, <3>1 DEF Goals
  <2> HIDE DEF spawned
  <2>3. Books(spawned)
    BY <1>5, <1>6, <1>9, <2>2, Connected, GoalAssumption DEF Books, Within, Ordered
  <2>4. Counted(spawned, 1)
    BY <1>7, <2>2 DEF Counted, Matches, Here
  <2>5. Ready(spawned, 1) /\ spawned.criterion[spawned.index] = "active"
    BY <1>1, <1>9, <2>2, <2>3, <2>4, Connected DEF Ready, Served
  <2> QED
    BY <1>8, <1>9, <2>1, <2>2, <2>3, <2>4, <2>5, Told, Connected DEF Kinds, Kept, Dead
<1>11. CASE ~known
  <2>1. Spawn(t) = failed
    BY <1>4, <1>11 DEF Spawn, GiveUp, Drop, Ended, Goals
  <2>2. /\ failed \in Goals /\ failed.status = "Failed" /\ failed.judge = NoConnection
        /\ failed.target = s.target /\ failed.index = i
        /\ failed.criterion = m /\ failed.iteration = s.iteration
        /\ failed.sent = s.sent
    <3>1. NoConnection \in Connections
      BY Connected DEF Sound
    <3> HIDE DEF NoConnection
    <3> QED
      BY <1>4, <3>1 DEF Goals, Statuses
  <2> HIDE DEF failed
  <2>3. Books(failed)
    BY <1>5, <1>6, <1>9, <2>2, Connected, GoalAssumption DEF Books, Within, Ordered
  <2>4. Counted(failed, 1)
    BY <1>7, <2>2 DEF Counted, Matches, Here
  <2> QED
    BY <1>8, <1>9, <2>1, <2>2, <2>3, <2>4, Told, Connected DEF Kinds, Kept, Dead
<1> QED
  BY <1>10, <1>11

\* An answer that does not parse, to a goal whose judge has a session.
LEMMA Corrected ==
  ASSUME NEW s, Ready(s, 0), s.criterion[s.index] = "active", s.judge.phase = "ready"
  PROVE  Settled(Correct(s)) /\ Kept(s, Correct(s))
<1> DEFINE asks == [s EXCEPT !.judging = TRUE, !.corrected = TRUE, !.text = "bad"]
           ends == [asks EXCEPT !.judging = FALSE]
<1>1. /\ asks \in Goals /\ asks.status = s.status /\ asks.judge = s.judge
      /\ asks.target = s.target /\ asks.index = s.index
      /\ asks.criterion = s.criterion /\ asks.iteration = s.iteration
      /\ asks.sent = s.sent /\ asks.judging /\ asks.authoring = s.authoring
      /\ asks.corrected
  BY DEF Ready, Books, Goals
<1>2. /\ ends \in Goals /\ ends.status = s.status /\ ends.judge = s.judge
      /\ ends.target = s.target /\ ends.index = s.index
      /\ ends.criterion = s.criterion /\ ends.iteration = s.iteration
      /\ ends.sent = s.sent
  BY <1>1 DEF Goals
<1>3. CASE s.corrected
  BY <1>3, Over DEF Correct, GiveUp, Ready, Kept
<1>4. CASE ~s.corrected /\ Dead(s.judge)
  <2>1. Correct(s) = Drop(Ended(ends, "Failed"))
    BY <1>4 DEF Correct, GiveUp
  <2> HIDE DEF ends
  <2>2. Books(ends) /\ Counted(ends, 0)
    BY <1>2 DEF Ready, Books, Within, Ordered, Counted, Matches, Here
  <2> QED
    BY <1>2, <2>1, <2>2, Over DEF Ready, Kept
<1>5. CASE ~s.corrected /\ ~Dead(s.judge)
  <2>1. Correct(s) = Ask(asks, "correction")
    BY <1>5 DEF Correct
  <2> HIDE DEF asks
  <2>2. Books(asks) /\ Counted(asks, 0)
    BY <1>1 DEF Ready, Books, Within, Ordered, Counted, Matches, Here
  <2>3. Placed(asks) /\ AwaitedOf(asks) = "correction" /\ asks.judging # asks.authoring
    BY <1>1 DEF Placed, AwaitedOf, Ready, Books, Goals
  <2> QED
    BY <1>1, <1>5, <2>1, <2>2, <2>3, Asked DEF Ready, Served, Kinds, Kept
<1> QED
  BY <1>3, <1>4, <1>5 DEF Ready, Books, Goals

\* No criterion of an active goal is at the limit.
LEMMA BelowLimit ==
  ASSUME NEW s, Ready(s, 0)
  PROVE  \A c \in 1 .. Criteria :
           /\ s.iteration[c] \in 0 .. MaxIterations /\ s.iteration[c] # MaxIterations
           /\ s.sent[c] \in Nat
           /\ Matches(s, s.sent[c],
                      (IF c > 1 /\ c <= s.index THEN 1 ELSE 0) + s.iteration[c])
<1>1. /\ s.iteration \in [1 .. Criteria -> 0 .. MaxIterations]
      /\ s.sent \in [1 .. Criteria -> Nat]
      /\ s.status = "Active" /\ Within(s)
  BY DEF Ready, Books, Goals
<1> TAKE c \in 1 .. Criteria
<1>2. /\ s.iteration[c] \in 0 .. MaxIterations /\ s.iteration[c] # MaxIterations
      /\ s.sent[c] \in Nat
  BY <1>1 DEF Within
<1>3. Matches(s, s.sent[c], (IF c > 1 /\ c <= s.index THEN 1 ELSE 0) + s.iteration[c])
  BY <1>2, GoalAssumption DEF Ready, Counted, Matches
<1> QED
  BY <1>2, <1>3

\* A judgement that ends in "continue".
LEMMA Continued ==
  ASSUME NEW s, Ready(s, 0), s.criterion[s.index] = "active"
  PROVE  Settled(Continue(s)) /\ Kept(s, Continue(s))
<1> DEFINE n == [s.iteration EXCEPT ![s.index] = @ + 1]
           counted == [s EXCEPT !.iteration[s.index] = @ + 1]
           over == [counted EXCEPT !.status = "Cancelled", !.judge = NoConnection]
<1>1. /\ s \in Goals /\ s.index \in 1 .. Criteria
      /\ s.iteration \in [1 .. Criteria -> 0 .. MaxIterations]
      /\ s.status = "Active" /\ Sound(s.judge) /\ Sound(s.target)
  BY DEF Ready, Books, Goals
<1>2. counted = [s EXCEPT !.iteration = n]
  BY <1>1 DEF Goals
<1>3. /\ DOMAIN n = 1 .. Criteria
      /\ n = [c \in 1 .. Criteria |-> n[c]]
      /\ n[s.index] = s.iteration[s.index] + 1
      /\ \A c \in 1 .. Criteria : c # s.index => n[c] = s.iteration[c]
  BY <1>1
<1> HIDE DEF n
<1>4. \A c \in 1 .. Criteria : n[c] \in 0 .. MaxIterations
  <2> TAKE c \in 1 .. Criteria
  <2>1. s.iteration[c] \in 0 .. MaxIterations /\ s.iteration[c] # MaxIterations
    BY BelowLimit
  <2>2. CASE c = s.index
    BY <1>3, <2>1, <2>2, GoalAssumption
  <2>3. CASE c # s.index
    BY <1>3, <2>1, <2>3
  <2> QED
    BY <2>2, <2>3
<1>5. n \in [1 .. Criteria -> 0 .. MaxIterations]
  BY <1>3, <1>4
<1>6. /\ counted \in Goals /\ counted.status = "Active" /\ counted.judge = s.judge
      /\ counted.target = s.target /\ counted.index = s.index
      /\ counted.criterion = s.criterion /\ counted.iteration = n
      /\ counted.sent = s.sent /\ counted.judging = s.judging
      /\ counted.authoring = s.authoring
  BY <1>1, <1>2, <1>5 DEF Goals
<1> HIDE DEF counted
<1>7. Continue(s) = IF n[s.index] >= MaxIterations THEN Drop(Ended(counted, "Cancelled"))
                    ELSE Tell(counted, "continue")
  BY <1>6 DEF Continue, counted
<1>8. \A c \in 1 .. Criteria : n[c] = MaxIterations => c = s.index
  BY <1>3, BelowLimit
<1>9. CASE n[s.index] >= MaxIterations
  <2>1. n[s.index] = MaxIterations
    BY <1>1, <1>4, <1>9, GoalAssumption
  <2>2. Continue(s) = over
    BY <1>6, <1>7, <1>9 DEF Drop, Ended, Goals
  <2>3. /\ over \in Goals /\ over.status = "Cancelled" /\ over.judge = NoConnection
        /\ over.target = s.target /\ over.index = s.index
        /\ over.criterion = s.criterion /\ over.iteration = n /\ over.sent = s.sent
    <3>1. NoConnection \in Connections
      BY Connected DEF Sound
    <3> HIDE DEF NoConnection
    <3> QED
      BY <1>6, <3>1 DEF Goals, Statuses
  <2> HIDE DEF over
  <2>4. Within(over) /\ Ordered(over)
    BY <1>1, <1>8, <2>3 DEF Ready, Books, Within, Ordered
  <2>5. Counted(over, 0)
    <3> SUFFICES ASSUME NEW c \in 1 .. Criteria
                 PROVE  Matches(s, s.sent[c],
                                (IF c > 1 /\ c <= s.index THEN 1 ELSE 0) + n[c]
                                  - (IF n[c] = MaxIterations THEN 1 ELSE 0))
      <4>1. \A c \in 1 .. Criteria :
              s.sent[c] + (IF c = s.index THEN 0 ELSE 0) = s.sent[c]
        BY BelowLimit
      <4> QED
        BY <2>3, <4>1 DEF Counted, Matches, Here
    <3>1. /\ s.iteration[c] \in 0 .. MaxIterations /\ s.iteration[c] # MaxIterations
          /\ s.sent[c] \in Nat
          /\ Matches(s, s.sent[c],
                     (IF c > 1 /\ c <= s.index THEN 1 ELSE 0) + s.iteration[c])
      BY BelowLimit
    <3>2. CASE c = s.index
      BY <1>3, <2>1, <3>1, <3>2, GoalAssumption DEF Matches
    <3>3. CASE c # s.index
      BY <1>3, <3>1, <3>3, GoalAssumption DEF Matches
    <3> QED
      BY <3>2, <3>3
  <2> QED
    BY <1>1, <2>2, <2>3, <2>4, <2>5, Connected DEF Settled, Books, Kept
<1>10. CASE ~(n[s.index] >= MaxIterations)
  <2>1. n[s.index] # MaxIterations
    BY <1>10, GoalAssumption
  <2>2. Books(counted)
    BY <1>1, <1>6, <1>8, <2>1 DEF Ready, Books, Within, Ordered
  <2>3. Counted(counted, 1)
    <3> SUFFICES ASSUME NEW c \in 1 .. Criteria
                 PROVE  Matches(s, s.sent[c] + (IF c = s.index THEN 1 ELSE 0),
                                (IF c > 1 /\ c <= s.index THEN 1 ELSE 0) + n[c]
                                  - (IF n[c] = MaxIterations THEN 1 ELSE 0))
      BY <1>6 DEF Counted, Matches, Here
    <3>1. /\ s.iteration[c] \in 0 .. MaxIterations /\ s.iteration[c] # MaxIterations
          /\ s.sent[c] \in Nat
          /\ Matches(s, s.sent[c],
                     (IF c > 1 /\ c <= s.index THEN 1 ELSE 0) + s.iteration[c])
      BY BelowLimit
    <3>2. CASE c = s.index
      <4>1. n[c] = s.iteration[c] + 1 /\ n[c] # MaxIterations
        BY <1>3, <2>1, <3>2
      <4>2. s.sent[c] <= (IF c > 1 /\ c <= s.index THEN 1 ELSE 0) + s.iteration[c]
            /\ (s.sent[c] = (IF c > 1 /\ c <= s.index THEN 1 ELSE 0) + s.iteration[c]
                \/ ~Here(s))
        BY <3>1 DEF Matches
      <4>3. s.sent[c] \in Nat /\ s.iteration[c] \in Nat
        BY <3>1, GoalAssumption
      <4> QED
        BY <3>2, <4>1, <4>2, <4>3 DEF Matches
    <3>3. CASE c # s.index
      BY <1>3, <3>1, <3>3, GoalAssumption DEF Matches
    <3> QED
      BY <3>2, <3>3
  <2>4. Ready(counted, 1) /\ counted.criterion[counted.index] = "active"
    BY <1>6, <2>2, <2>3 DEF Ready, Served
  <2> QED
    BY <1>1, <1>6, <1>7, <1>10, <2>2, <2>3, <2>4, Told DEF Kinds, Kept
<1> QED
  BY <1>9, <1>10

\* The judge says that the criterion is met.
LEMMA Advanced ==
  ASSUME NEW s, Ready(s, 0), s.criterion[s.index] = "active", s.judge.phase = "ready",
         known \in BOOLEAN
  PROVE  Settled(Advance(s)) /\ Kept(s, Advance(s))
<1> DEFINE m == [s.criterion EXCEPT ![s.index] = "archived"]
           t == [s EXCEPT !.criterion[s.index] = "archived"]
           asks == [t EXCEPT !.authoring = TRUE]
           done == [t EXCEPT !.status = "Achieved", !.judge = NoConnection]
<1>1. /\ s \in Goals /\ s.index \in 1 .. Criteria
      /\ s.criterion \in [1 .. Criteria -> {"pending", "active", "archived"}]
      /\ s.status = "Active" /\ Sound(s.judge) /\ Sound(s.target)
      /\ Ordered(s) /\ Criteria \in 1 .. Criteria
  BY GoalAssumption DEF Ready, Books, Goals
<1>2. t = [s EXCEPT !.criterion = m]
  BY <1>1 DEF Goals
<1>3. /\ m \in [1 .. Criteria -> {"pending", "active", "archived"}]
      /\ m[s.index] = "archived"
      /\ \A c \in 1 .. Criteria : c # s.index => m[c] = s.criterion[c]
  BY <1>1
<1> HIDE DEF m
<1>4. /\ t \in Goals /\ t.status = "Active" /\ t.judge = s.judge
      /\ t.target = s.target /\ t.index = s.index
      /\ t.criterion = m /\ t.iteration = s.iteration
      /\ t.sent = s.sent /\ ~t.judging /\ ~t.authoring
  BY <1>1, <1>2, <1>3 DEF Goals, Ready
<1> HIDE DEF t
<1>5. \A c \in 1 .. Criteria :
        /\ c < s.index => m[c] = "archived"
        /\ c > s.index => m[c] = "pending"
  BY <1>1, <1>3 DEF Ordered
<1>6. CASE s.index = Criteria
  <2>1. Advance(s) = done
    BY <1>4, <1>6 DEF Advance, Drop, Ended, Goals, t
  <2>2. /\ done \in Goals /\ done.status = "Achieved" /\ done.judge = NoConnection
        /\ done.target = s.target /\ done.index = s.index
        /\ done.criterion = m /\ done.iteration = s.iteration /\ done.sent = s.sent
    <3>1. NoConnection \in Connections
      BY Connected DEF Sound
    <3> HIDE DEF NoConnection
    <3> QED
      BY <1>4, <3>1 DEF Goals, Statuses
  <2> HIDE DEF done
  <2>3. Within(done) /\ Ordered(done)
    BY <1>3, <1>5, <1>6, <2>2, BelowLimit DEF Within, Ordered
  <2>4. Counted(done, 0)
    BY <2>2 DEF Ready, Counted, Matches, Here
  <2> QED
    BY <1>1, <2>1, <2>2, <2>3, <2>4, Connected DEF Settled, Books, Kept
<1>7. CASE s.index # Criteria
  <2>1. s.index < Criteria
    BY <1>1, <1>7, GoalAssumption
  <2>2. m[Criteria] # "archived"
    BY <1>1, <1>3, <1>7 DEF Ordered
  <2>3. Books(t) /\ Counted(t, 0) /\ Served(t)
    <3>1. Within(t) /\ Ordered(t)
      BY <1>4, <1>5, <2>2, BelowLimit DEF Within, Ordered
    <3>2. Counted(t, 0)
      BY <1>4 DEF Ready, Counted, Matches, Here
    <3> QED
      BY <1>1, <1>4, <3>1, <3>2 DEF Books, Ready, Served
  <2>4. CASE Dead(s.judge)
    <3>1. Advance(s) = Handoff(t)
      BY <1>7, <2>4 DEF Advance, t
    <3> QED
      BY <1>3, <1>4, <2>1, <2>3, <3>1, HandedOver DEF Kept
  <2>5. CASE ~Dead(s.judge)
    <3>1. Advance(s) = Ask(asks, "authoring")
      BY <1>7, <2>5 DEF Advance, t
    <3>2. /\ asks \in Goals /\ asks.status = "Active" /\ asks.judge = s.judge
          /\ asks.target = s.target /\ asks.index = s.index
          /\ asks.criterion = m /\ asks.iteration = s.iteration
          /\ asks.sent = s.sent /\ ~asks.judging /\ asks.authoring
      BY <1>4 DEF Goals
    <3> HIDE DEF asks
    <3>3. Books(asks) /\ Counted(asks, 0)
      BY <1>4, <2>3, <3>2 DEF Books, Within, Ordered, Counted, Matches, Here
    <3>4. Placed(asks) /\ AwaitedOf(asks) = "authoring" /\ asks.judging # asks.authoring
      BY <1>3, <2>1, <3>2 DEF Placed, AwaitedOf, Goals
    <3> QED
      BY <2>5, <3>1, <3>2, <3>3, <3>4, Asked DEF Ready, Served, Kinds, Kept
  <2> QED
    BY <2>4, <2>5
<1> QED
  BY <1>6, <1>7

\* A goal whose judge has just ended its turn.
Turned(s) ==
  /\ Books(s) /\ Counted(s, 0) /\ Served(s) /\ Placed(s)
  /\ s.status = "Active" /\ s.judge.phase = "ready" /\ ~(s.judging /\ s.authoring)
  /\ ~s.judging /\ ~s.authoring => TargetMoves(s)

\* promptEnded of the judge.
LEMMA JudgeHeard ==
  ASSUME NEW s, Turned(s), known \in BOOLEAN
  PROVE  Settled(JudgeEnded(s)) /\ Kept(s, JudgeEnded(s))
<1>1. CASE s.authoring
  BY <1>1, HandedOver DEF JudgeEnded, Turned, Placed, Kept
<1>2. CASE ~s.authoring /\ s.judging
  <2> DEFINE t == [s EXCEPT !.judging = FALSE]
  <2>1. /\ t \in Goals /\ t.status = "Active" /\ t.judge = s.judge
        /\ t.target = s.target /\ t.index = s.index
        /\ t.criterion = s.criterion /\ t.iteration = s.iteration
        /\ t.sent = s.sent /\ ~t.judging /\ t.authoring = s.authoring
    BY DEF Turned, Books, Goals
  <2>2. JudgeEnded(s) = Answered(t)
    BY <1>2 DEF JudgeEnded
  <2> HIDE DEF t
  <2>3. Ready(t, 0) /\ t.criterion[t.index] = "active" /\ t.judge.phase = "ready"
    <3>1. Books(t) /\ Counted(t, 0)
      BY <2>1 DEF Turned, Books, Within, Ordered, Counted, Matches, Here
    <3> QED
      BY <1>2, <2>1, <3>1 DEF Turned, Ready, Served, Placed
  <2>4. Kept(s, Answered(t)) <=> Kept(t, Answered(t))
    BY <2>1 DEF Kept
  <2>5. CASE t.text = "bad"
    BY <2>2, <2>3, <2>4, <2>5, Corrected DEF Answered
  <2>6. CASE t.text = "continue"
    BY <2>2, <2>3, <2>4, <2>6, Continued DEF Answered
  <2>7. CASE t.text = "complete"
    BY <2>2, <2>3, <2>4, <2>7, Advanced DEF Answered
  <2> QED
    BY <2>1, <2>5, <2>6, <2>7 DEF Goals
<1>3. CASE ~s.authoring /\ ~s.judging
  <2>1. JudgeEnded(s) = s
    BY <1>3 DEF JudgeEnded
  <2> QED
    BY <1>3, <2>1 DEF Turned, Settled, Moves, Kept
<1> QED
  BY <1>1, <1>2, <1>3 DEF Turned, Books, Goals

\* A goal to which the target's end of turn may come: nobody need owe it anything.
Heard(s) ==
  /\ Books(s) /\ Counted(s, 0)
  /\ s.judge.up => s.status = "Active"
  /\ s.status = "Active" =>
       /\ Served(s) /\ Placed(s) /\ ~Dead(s.judge)
       /\ s.judging \/ s.authoring => JudgeMoves(s)
  /\ s.status = "Idle" =>
       /\ s.index = 1 /\ s.criterion[1] = "active" /\ s.judge = NoConnection
       /\ ~s.judging /\ ~s.authoring

\* promptEnded of the target, wherever the goal stands.
LEMMA TargetHeard ==
  ASSUME NEW s, Heard(s)
  PROVE  Settled(TargetEnded(s)) /\ Kept(s, TargetEnded(s))
<1>1. CASE s.status = "Active" /\ ~s.judging /\ ~s.authoring
  <2>1. Ready(s, 0) /\ s.criterion[s.index] = "active"
    BY <1>1 DEF Heard, Ready, Placed
  <2> QED
    BY <1>1, <2>1, Evaluated DEF TargetEnded
<1>2. CASE ~(s.status = "Active" /\ ~s.judging /\ ~s.authoring)
  <2>1. TargetEnded(s) = s
    BY <1>2 DEF TargetEnded
  <2> QED
    BY <1>2, <2>1 DEF Heard, Settled, Moves, Kept
<1> QED
  BY <1>1, <1>2

\* What a target's connection becomes leaves the goal ready to hear of it, and
\* settled if that still moves a goal that waits for the target.
LEMMA TargetSwapped ==
  ASSUME NEW s, Heard(s), NEW c, Sound(c), c.phase = "none" \/ Here(s),
         NEW t, t = [s EXCEPT !.target = c]
  PROVE  /\ Heard(t)
         /\ t.status = s.status /\ t.judge = s.judge /\ t.target = c
         /\ (s.status = "Active" /\ ~s.judging /\ ~s.authoring => TargetMoves(t))
              => Settled(t)
<1>1. /\ t \in Goals /\ t.status = s.status /\ t.judge = s.judge /\ t.target = c
      /\ t.index = s.index /\ t.criterion = s.criterion /\ t.iteration = s.iteration
      /\ t.sent = s.sent /\ t.judging = s.judging /\ t.authoring = s.authoring
      /\ t.corrected = s.corrected
  BY DEF Heard, Books, Goals, Sound
<1>2. Books(t) /\ Counted(t, 0)
  BY <1>1 DEF Heard, Books, Within, Ordered, Counted, Matches, Here
<1>3. s.status = "Active" => Served(t) /\ Placed(t)
  BY <1>1 DEF Heard, Served, Placed
<1>4. JudgeMoves(s) => JudgeMoves(t)
  BY <1>1 DEF JudgeMoves, AwaitedOf
<1>5. Heard(t)
  <2> HIDE DEF NoConnection
  <2> QED
    BY <1>1, <1>2, <1>3, <1>4 DEF Heard
<1>6. (s.status = "Active" /\ ~s.judging /\ ~s.authoring => TargetMoves(t)) => Settled(t)
  <2> HIDE DEF NoConnection
  <2> QED
    BY <1>1, <1>5 DEF Heard, Settled, Moves
<1> QED
  BY <1>1, <1>5, <1>6

\* The judge of an active goal has ended its turn, or has none in flight.
LEMMA JudgeSwapped ==
  ASSUME NEW s, Settled(s), s.status = "Active", ~Dead(s.judge), s.judge.phase = "ready",
         NEW t \in Goals, Sound(t.judge), t.judge.phase = "ready", t.status = s.status,
         t.target = s.target, t.index = s.index, t.criterion = s.criterion,
         t.iteration = s.iteration, t.sent = s.sent, t.judging = s.judging,
         t.authoring = s.authoring
  PROVE  Turned(t)
<1>2. Books(t) /\ Counted(t, 0)
  BY DEF Settled, Books, Within, Ordered, Counted, Matches, Here
<1>3. Served(t) /\ Placed(t)
  BY DEF Settled, Served, Placed
<1>4. ~(s.judging /\ s.authoring) /\ (~s.judging /\ ~s.authoring => TargetMoves(t))
  BY DEF Settled, Moves, JudgeMoves, TargetMoves, Here
<1> QED
  BY <1>2, <1>3, <1>4 DEF Turned

-----------------------------------------------------------------------------
(* What happens to a connection.                                           *)

LEMMA Opened ==
  ASSUME NEW c, Sound(c), c.phase = "starting", c.up
  PROVE  /\ Sound(Established(c))
         /\ Established(c).phase = "ready" /\ Established(c).up
         /\ c.queued # <<>> =>
              /\ Established(c).inFlight /\ Established(c).owed # <<>>
              /\ Established(c).owed[Len(Established(c).owed)]
                   = Prompt(c.queued[Len(c.queued)])
<1> DEFINE P == [kind : Kinds, told : BOOLEAN]
           o == [i \in DOMAIN c.queued |-> Prompt(c.queued[i])]
           e == Established(c)
<1>1. c.queued \in Seq(Kinds) /\ c \in Connections
  BY DEF Sound, Connections
<1>2. o \in Seq(P) /\ Len(o) = Len(c.queued)
  <2>1. /\ Len(c.queued) \in Nat /\ DOMAIN c.queued = 1 .. Len(c.queued)
        /\ \A i \in 1 .. Len(c.queued) : c.queued[i] \in Kinds
    BY <1>1
  <2>2. \A i \in 1 .. Len(c.queued) : Prompt(c.queued[i]) \in P
    BY <2>1 DEF Prompt
  <2>3. o \in [1 .. Len(c.queued) -> P]
    BY <2>1, <2>2
  <2>4. o \in Seq(P)
    BY <2>1, <2>3, SeqDef
  <2> HIDE DEF o
  <2> QED
    BY <2>1, <2>3, <2>4
<1>3. c.queued # <<>> => Len(c.queued) \in DOMAIN c.queued /\ Len(c.queued) # 0
  BY <1>1
<1>4. c.queued # <<>> => o # <<>> /\ o[Len(o)] = Prompt(c.queued[Len(c.queued)])
  BY <1>2, <1>3
<1>5. <<>> \in Seq(Kinds)
  BY EmptySeq
<1>6. e = [c EXCEPT !.phase = "ready", !.queued = <<>>, !.inFlight = c.queued # <<>>,
                    !.owed = o]
  BY DEF Established
<1> HIDE DEF o, e
<1>7. /\ e \in Connections /\ e.phase = "ready" /\ e.up = c.up /\ e.queued = <<>>
      /\ e.inFlight = (c.queued # <<>>) /\ e.owed = o
  BY <1>1, <1>2, <1>5, <1>6 DEF Connections
<1>8. Sound(e)
  BY <1>4, <1>7 DEF Sound
<1> QED
  BY <1>4, <1>7, <1>8 DEF e

\* The end of a turn, by a response, by a notification or by the process's exit.
LEMMA Closed ==
  ASSUME NEW c, Sound(c)
  PROVE  /\ Answerable(c) => Sound(Responded(c)) /\ Responded(c).phase = "ready"
                             /\ Responded(c).up
         /\ Answerable(c) => Sound(Notified(c)) /\ Notified(c).phase = "ready"
                             /\ Notified(c).up
         /\ LET e == Exited(c) IN
             Sound(e) /\ e.phase = c.phase /\ ~e.up /\ e.queued = c.queued
<1> DEFINE P == [kind : Kinds, told : BOOLEAN]
           e == Exited(c)
<1>1. c \in Connections /\ c.owed \in Seq(P)
  BY DEF Sound, Connections
<1>2. ASSUME Answerable(c)
      PROVE  Sound(Responded(c)) /\ Responded(c).phase = "ready" /\ Responded(c).up
  <2>1. Tail(c.owed) \in Seq(P)
    BY <1>1, <1>2, HeadTailProperties DEF Answerable
  <2> QED
    BY <1>1, <1>2, <2>1 DEF Answerable, Responded, Sound, Connections
<1>3. ASSUME Answerable(c)
      PROVE  Sound(Notified(c)) /\ Notified(c).phase = "ready" /\ Notified(c).up
  <2> DEFINE o == [c.owed EXCEPT ![1].told = TRUE]
  <2>1. Len(c.owed) \in Nat /\ DOMAIN c.owed = 1 .. Len(c.owed) /\ Len(c.owed) # 0
    BY <1>1, <1>3, EmptySeq DEF Answerable
  <2>2. \A i \in 1 .. Len(c.owed) : c.owed[i] \in P
    <3> HIDE DEF P
    <3> QED
      BY <1>1, <2>1
  <2>3. [c.owed[1] EXCEPT !.told = TRUE] \in P
    <3>1. c.owed[1] \in P
      <4> HIDE DEF P
      <4> QED
        BY <2>1, <2>2
    <3>2. \A p \in P : [p EXCEPT !.told = TRUE] \in P
      OBVIOUS
    <3> HIDE DEF P
    <3> QED
      BY <3>1, <3>2
  <2>4. o \in [1 .. Len(c.owed) -> P]
    BY <1>1, <2>1, <2>2, <2>3
  <2>5. o \in Seq(P)
    <3> HIDE DEF o, P
    <3> QED
      BY <2>1, <2>4, SeqDef
  <2>6. Notified(c) = [c EXCEPT !.owed = o, !.inFlight = FALSE]
    BY <1>1 DEF Notified, Connections
  <2> HIDE DEF o
  <2> QED
    BY <1>1, <1>3, <2>5, <2>6 DEF Answerable, Sound, Connections
<1>4. Sound(e) /\ e.phase = c.phase /\ ~e.up /\ e.queued = c.queued
  BY <1>1 DEF Sound, Connections, Exited
<1> QED
  BY <1>2, <1>3, <1>4

\* A question for a permission, and its answer, leave the turn in flight.
LEMMA Permitted ==
  ASSUME NEW c, Sound(c), NEW b \in BOOLEAN
  PROVE  LET e == [c EXCEPT !.asking = b] IN
         /\ Sound(e) /\ e.phase = c.phase /\ e.up = c.up /\ e.inFlight = c.inFlight
         /\ e.owed = c.owed /\ e.queued = c.queued
BY DEF Sound, Connections

-----------------------------------------------------------------------------
(* The actions.                                                            *)

\* What the invariant says of g where it is used.
LEMMA InvHeard ==
  Inv => /\ Heard(g) /\ Settled(g) /\ known \in BOOLEAN
         /\ g \in Goals /\ Sound(g.judge) /\ Sound(g.target)
         /\ (g.status = "Active" => ~Dead(g.judge))
<1> HIDE DEF NoConnection
<1> QED
  BY DEF Inv, Heard, Settled, Moves, Books

\* What an action on g must show.
LEMMA Restored ==
  ASSUME Inv, known' \in BOOLEAN, userTurns' \in 0 .. MaxUserTurns, Settled(g'),
         g'.status = "Active" => ~Dead(g'.judge)
  PROVE  Inv'
BY DEF Inv, Settled, Books, Goals, Sound, Counted, Within, Ordered, Served, Placed, Moves,
       JudgeMoves, TargetMoves, AwaitedOf, Dead, Matches, Here

LEMMA StartKeeps == Inv /\ Start => Inv'
<1> SUFFICES ASSUME Inv, Start
             PROVE  Inv'
  OBVIOUS
<1> DEFINE active == [g EXCEPT !.judge = NewConnection, !.status = "Active"]
           said == [active EXCEPT !.target = Put(@, "user")]
<1>1. /\ Heard(g) /\ Settled(g) /\ g \in Goals /\ Sound(g.target) /\ Sound(g.judge)
      /\ g.status = "Idle" /\ g.target.phase # "none" /\ Books(g) /\ Counted(g, 0)
  BY InvHeard DEF Start, Settled
<1>2. known' \in BOOLEAN /\ userTurns' \in 0 .. MaxUserTurns
  BY DEF Start, Inv
<1>3. CASE ~known
  <2>1. Spawn(g) = Drop(Ended(g, "Failed"))
    BY <1>3 DEF Spawn, GiveUp
  <2>2. Settled(Drop(Ended(g, "Failed"))) /\ Drop(Ended(g, "Failed")).status = "Failed"
    BY <1>1, Over
  <2>3. g' = Drop(Ended(g, "Failed"))
    BY <2>1, <2>2 DEF Start
  <2> QED
    BY <1>2, <2>2, <2>3, Restored
<1>4. CASE known
  <2>1. /\ Sound(NewConnection) /\ NewConnection \in Connections
        /\ NewConnection.phase = "starting" /\ NewConnection.up
        /\ NewConnection.queued = <<>>
    BY Connected DEF Sound
  <2>2. Spawn(g) = [g EXCEPT !.judge = NewConnection] /\ Spawn(g).status = "Idle"
    BY <1>1, <1>4 DEF Spawn, Goals
  <2>3. Ended(Spawn(g), "Active") = active
    BY <2>2 DEF Ended
  <2>4. g' = IF Dead(g.target) THEN TargetEnded(active) ELSE said
    BY <2>2, <2>3 DEF Start
  <2> HIDE DEF NewConnection
  <2>5. /\ active \in Goals /\ active.status = "Active" /\ active.judge = NewConnection
        /\ active.target = g.target /\ active.index = g.index
        /\ active.criterion = g.criterion /\ active.iteration = g.iteration
        /\ active.sent = g.sent /\ active.judging = g.judging
        /\ active.authoring = g.authoring
    BY <1>1, <2>1 DEF Goals, Statuses
  <2> HIDE DEF active
  <2>6. /\ g.index = 1 /\ g.criterion[1] = "active" /\ ~g.judging /\ ~g.authoring
    BY <1>1 DEF Settled
  <2>7. Books(active) /\ Counted(active, 0)
    BY <1>1, <2>1, <2>5 DEF Books, Within, Ordered, Counted, Matches, Here
  <2>8. Served(active) /\ Placed(active) /\ ~Dead(active.judge)
    BY <1>1, <2>1, <2>5, <2>6 DEF Served, Placed, Dead
  <2>9. Heard(active)
    BY <2>5, <2>6, <2>7, <2>8 DEF Heard
  <2>10. CASE Dead(g.target)
    <3>1. Settled(g') /\ (g'.status = "Active" => ~Dead(g'.judge))
      BY <2>4, <2>8, <2>9, <2>10, TargetHeard DEF Kept
    <3> QED
      BY <1>2, <3>1, Restored
  <2>11. CASE ~Dead(g.target)
    <3> DEFINE c == Put(g.target, "user")
    <3>1. /\ Sound(c) /\ c.phase = g.target.phase /\ c.up = g.target.up
          /\ c.phase # "ready" => c.queued = Append(g.target.queued, "user")
          /\ c.phase = "ready" /\ c.up => c.inFlight /\ c.owed # <<>>
          /\ c.phase \in {"starting", "ready", "refused"}
      BY <1>1, Sent DEF Kinds, Sound, Connections
    <3>2. Append(g.target.queued, "user") # <<>>
      BY <1>1, AppendProperties DEF Sound, Connections
    <3>3. said = [active EXCEPT !.target = c]
      BY <2>5
    <3> HIDE DEF c, said
    <3>4. /\ Heard(said) /\ said.status = active.status /\ said.judge = active.judge
          /\ said.target = c
          /\ TargetMoves(said) => Settled(said)
      BY <1>1, <2>5, <2>9, <3>1, <3>3, TargetSwapped DEF Here
    <3>5. TargetMoves(said)
      BY <2>11, <3>1, <3>2, <3>4 DEF TargetMoves, Dead
    <3>6. Settled(g') /\ ~Dead(g'.judge)
      BY <2>4, <2>5, <2>8, <2>11, <3>4, <3>5
    <3> QED
      BY <1>2, <3>6, Restored
  <2> QED
    BY <2>10, <2>11
<1> QED
  BY <1>3, <1>4

LEMMA UserKeeps == Inv /\ UserPrompts => Inv'
<1> SUFFICES ASSUME Inv, UserPrompts
             PROVE  Inv'
  OBVIOUS
<1> DEFINE c == Put(g.target, "user")
           said == [g EXCEPT !.target = Put(@, "user")]
<1>1. /\ Heard(g) /\ g \in Goals /\ Sound(g.target) /\ ~Dead(g.judge)
      /\ g.status = "Active" /\ g.target.phase # "none"
  BY InvHeard DEF UserPrompts
<1>2. known' \in BOOLEAN /\ userTurns' \in 0 .. MaxUserTurns
  BY GoalAssumption DEF UserPrompts, Inv
<1>3. /\ Sound(c) /\ c.phase = g.target.phase /\ c.up = g.target.up
      /\ c.phase # "ready" => c.queued = Append(g.target.queued, "user")
      /\ c.phase = "ready" /\ c.up => c.inFlight /\ c.owed # <<>>
      /\ c.phase \in {"starting", "ready", "refused"}
  BY <1>1, Sent DEF Kinds, Sound, Connections
<1>4. Append(g.target.queued, "user") # <<>>
  BY <1>1, AppendProperties DEF Sound, Connections
<1>5. said = [g EXCEPT !.target = c]
  BY <1>1
<1>6. g' = IF Dead(g.target) THEN TargetEnded(said) ELSE said
  BY DEF UserPrompts
<1> HIDE DEF c, said
<1>7. /\ Heard(said) /\ said.status = g.status /\ said.judge = g.judge
      /\ said.target = c
      /\ TargetMoves(said) => Settled(said)
  BY <1>1, <1>3, <1>5, TargetSwapped DEF Here
<1>8. ~Dead(g.target) => TargetMoves(said)
  BY <1>3, <1>4, <1>7 DEF TargetMoves, Dead
<1>9. Settled(g') /\ (g'.status = "Active" => ~Dead(g'.judge))
  BY <1>1, <1>6, <1>7, <1>8, TargetHeard DEF Kept
<1> QED
  BY <1>2, <1>9, Restored

LEMMA StopKeeps == Inv /\ Stop => Inv'
<1> SUFFICES ASSUME Inv, Stop
             PROVE  Inv'
  OBVIOUS
<1>1. /\ Books(g) /\ Counted(g, 0) /\ g.status = "Active"
      /\ g' = Drop(Ended(g, "Cancelled"))
      /\ known' \in BOOLEAN /\ userTurns' \in 0 .. MaxUserTurns
  BY DEF Inv, Settled, Stop
<1>2. Settled(g') /\ g'.status = "Cancelled"
  BY <1>1, Over
<1> QED
  BY <1>1, <1>2, Restored

LEMMA RemovalKeeps == Inv /\ AgentRemoved => Inv'
<1> SUFFICES ASSUME Inv, AgentRemoved
             PROVE  Inv'
  OBVIOUS
<1>1. /\ g' = g /\ known' \in BOOLEAN /\ userTurns' \in 0 .. MaxUserTurns
      /\ Settled(g) /\ (g.status = "Active" => ~Dead(g.judge))
  BY DEF Inv, AgentRemoved
<1>2. Settled(g') /\ (g'.status = "Active" => ~Dead(g'.judge))
  BY <1>1
<1> QED
  BY <1>1, <1>2, Restored

\* What an action of an agent leaves of the other variables.
LEMMA Others ==
  ASSUME Inv, UNCHANGED <<known, userTurns>>
  PROVE  known' \in BOOLEAN /\ userTurns' \in 0 .. MaxUserTurns
BY DEF Inv

\* A judge that runs is that of an active goal; without a turn in flight it has
\* nothing of the goal's to answer.
LEMMA JudgeRuns ==
  ASSUME Inv, g.judge.up
  PROVE  /\ g.status = "Active" /\ ~Dead(g.judge) /\ Served(g) /\ Placed(g) /\ Moves(g)
         /\ g.judge.phase \in {"starting", "ready", "refused"}
         /\ g.judge.phase = "ready" /\ ~g.judge.inFlight => ~g.judging /\ ~g.authoring
<1>1. g.status = "Active" /\ ~Dead(g.judge) /\ Served(g) /\ Placed(g) /\ Moves(g)
  BY DEF Inv, Settled
<1>2. g.judge.phase \in {"starting", "ready", "refused"}
  BY <1>1, InvHeard DEF Served, Sound, Connections
<1>3. g.judge.phase = "ready" /\ ~g.judge.inFlight => ~g.judging /\ ~g.authoring
  BY <1>1 DEF Moves, JudgeMoves
<1> QED
  BY <1>1, <1>2, <1>3

\* A judge that is not ready becomes c, and still owes what it owed.
LEMMA JudgeChanged ==
  ASSUME Inv, g.judge.up, g.judge.phase = "starting",
         NEW c, Sound(c), c.phase \in {"ready", "refused"},
         c.phase = "ready" => c.up,
         c.phase = "refused" => c.queued = g.judge.queued,
         c.phase = "ready" /\ g.judge.queued # <<>> =>
           /\ c.inFlight /\ c.owed # <<>>
           /\ c.owed[Len(c.owed)] = Prompt(g.judge.queued[Len(g.judge.queued)]),
         NEW t, t = [g EXCEPT !.judge = c]
  PROVE  Settled(t) /\ ~Dead(t.judge)
<1>1. /\ g \in Goals /\ g.status = "Active" /\ Served(g) /\ Placed(g) /\ Moves(g)
      /\ Books(g) /\ Counted(g, 0)
  BY InvHeard, JudgeRuns DEF Heard
<1>2. /\ t \in Goals /\ t.status = g.status /\ t.judge = c /\ t.target = g.target
      /\ t.index = g.index /\ t.criterion = g.criterion /\ t.iteration = g.iteration
      /\ t.sent = g.sent /\ t.judging = g.judging /\ t.authoring = g.authoring
      /\ t.corrected = g.corrected
  BY <1>1 DEF Goals, Sound
<1>3. Books(t) /\ Counted(t, 0)
  BY <1>1, <1>2 DEF Books, Within, Ordered, Counted, Matches, Here
<1>4. ~g.authoring
  BY <1>1 DEF Placed
<1>5. Served(t) /\ Placed(t) /\ ~Dead(t.judge)
  BY <1>1, <1>2, <1>4 DEF Served, Placed, Dead
<1>6. Moves(t)
  <2>1. CASE g.judging
    <3>1. JudgeMoves(g) /\ g.judge.queued = <<AwaitedOf(g)>>
      BY <1>1, <2>1 DEF Moves, JudgeMoves
    <3>2. /\ g.judge.queued # <<>> /\ g.judge.queued[Len(g.judge.queued)] = AwaitedOf(g)
      BY <3>1
    <3>3. AwaitedOf(t) = AwaitedOf(g)
      BY <1>2 DEF AwaitedOf
    <3>4. JudgeMoves(t)
      BY <1>2, <1>4, <3>1, <3>2, <3>3 DEF JudgeMoves
    <3> QED
      BY <1>2, <2>1, <3>4 DEF Moves
  <2>2. CASE ~g.judging
    BY <1>1, <1>2, <1>4, <2>2 DEF Moves, TargetMoves, Here
  <2> QED
    BY <2>1, <2>2
<1> QED
  BY <1>2, <1>3, <1>5, <1>6, <1>1 DEF Settled

LEMMA JudgeReadyKeeps == Inv /\ JudgeReady /\ UNCHANGED <<known, userTurns>> => Inv'
<1> SUFFICES ASSUME Inv, JudgeReady, UNCHANGED <<known, userTurns>>
             PROVE  Inv'
  OBVIOUS
<1> DEFINE c == Established(g.judge)
<1>1. g.judge.phase = "starting" /\ g.judge.up /\ g' = [g EXCEPT !.judge = c]
  BY DEF JudgeReady
<1>2. /\ Sound(c) /\ c.phase = "ready" /\ c.up
      /\ g.judge.queued # <<>> =>
           /\ c.inFlight /\ c.owed # <<>>
           /\ c.owed[Len(c.owed)] = Prompt(g.judge.queued[Len(g.judge.queued)])
  BY <1>1, InvHeard, Opened
<1> HIDE DEF c
<1>3. Settled(g') /\ ~Dead(g'.judge)
  BY <1>1, <1>2, JudgeChanged
<1> QED
  BY <1>3, Others, Restored

LEMMA JudgeRefusesKeeps == Inv /\ JudgeRefuses /\ UNCHANGED <<known, userTurns>> => Inv'
<1> SUFFICES ASSUME Inv, JudgeRefuses, UNCHANGED <<known, userTurns>>
             PROVE  Inv'
  OBVIOUS
<1>1. PICK up \in BOOLEAN : g' = [g EXCEPT !.judge.phase = "refused", !.judge.up = up]
  BY DEF JudgeRefuses
<1> DEFINE c == [g.judge EXCEPT !.phase = "refused", !.up = up]
<1>2. /\ g.judge.phase = "starting" /\ g.judge.up /\ g \in Goals /\ Sound(g.judge)
  BY InvHeard DEF JudgeRefuses
<1>3. g' = [g EXCEPT !.judge = c]
  BY <1>1, <1>2 DEF Goals
<1>4. Sound(c) /\ c.phase = "refused" /\ c.queued = g.judge.queued
  BY <1>2 DEF Sound, Connections
<1> HIDE DEF c
<1>5. Settled(g') /\ ~Dead(g'.judge)
  BY <1>2, <1>3, <1>4, JudgeChanged
<1> QED
  BY <1>5, Others, Restored

LEMMA JudgeSpeaksKeeps == Inv /\ JudgeSpeaks /\ UNCHANGED <<known, userTurns>> => Inv'
<1> SUFFICES ASSUME Inv, JudgeSpeaks, UNCHANGED <<known, userTurns>>
             PROVE  Inv'
  OBVIOUS
<1>1. PICK text \in {"bad", "continue", "complete"} : g' = [g EXCEPT !.text = text]
  BY DEF JudgeSpeaks
<1>2. /\ Settled(g) /\ g \in Goals /\ g.status = "Active" /\ ~Dead(g.judge)
  BY InvHeard, JudgeRuns DEF JudgeSpeaks, Answerable
<1>3. /\ g' \in Goals /\ g'.status = g.status /\ g'.judge = g.judge
      /\ g'.target = g.target /\ g'.index = g.index /\ g'.criterion = g.criterion
      /\ g'.iteration = g.iteration /\ g'.sent = g.sent /\ g'.judging = g.judging
      /\ g'.authoring = g.authoring /\ g'.corrected = g.corrected
  BY <1>1, <1>2 DEF Goals
<1>4. Books(g') /\ Counted(g', 0)
  BY <1>2, <1>3 DEF Settled, Books, Within, Ordered, Counted, Matches, Here
<1>5. Served(g') /\ Placed(g') /\ Moves(g')
  BY <1>2, <1>3 DEF Settled, Served, Placed, Moves, JudgeMoves, TargetMoves, AwaitedOf, Here
<1>6. Settled(g') /\ ~Dead(g'.judge)
  BY <1>2, <1>3, <1>4, <1>5 DEF Settled
<1> QED
  BY <1>6, Others, Restored

\* A judge that asks for a permission still owes what it owed.
LEMMA JudgeAsksKeeps == Inv /\ JudgeAsks /\ UNCHANGED <<known, userTurns>> => Inv'
<1> SUFFICES ASSUME Inv, JudgeAsks, UNCHANGED <<known, userTurns>>
             PROVE  Inv'
  OBVIOUS
<1> DEFINE c == [g.judge EXCEPT !.asking = TRUE]
<1>1. /\ Settled(g) /\ g \in Goals /\ g.status = "Active" /\ ~Dead(g.judge)
      /\ Sound(g.judge)
  BY InvHeard, JudgeRuns DEF JudgeAsks, Asks, Answerable
<1>2. /\ Sound(c) /\ c.phase = g.judge.phase /\ c.up = g.judge.up
      /\ c.inFlight = g.judge.inFlight /\ c.owed = g.judge.owed
      /\ c.queued = g.judge.queued
  BY <1>1, Permitted
<1>3. g' = [g EXCEPT !.judge = c]
  BY <1>1 DEF JudgeAsks, Goals
<1> HIDE DEF c
<1>4. /\ g' \in Goals /\ g'.status = g.status /\ g'.judge = c
      /\ g'.target = g.target /\ g'.index = g.index /\ g'.criterion = g.criterion
      /\ g'.iteration = g.iteration /\ g'.sent = g.sent /\ g'.judging = g.judging
      /\ g'.authoring = g.authoring /\ g'.corrected = g.corrected
  BY <1>1, <1>2, <1>3 DEF Goals, Sound
<1>5. Books(g') /\ Counted(g', 0)
  BY <1>1, <1>2, <1>4 DEF Settled, Books, Within, Ordered, Counted, Matches, Here
<1>6. Served(g') /\ Placed(g') /\ ~Dead(g'.judge)
  BY <1>1, <1>2, <1>4 DEF Settled, Served, Placed, Dead
<1>7. Moves(g')
  BY <1>1, <1>2, <1>4 DEF Settled, Moves, JudgeMoves, TargetMoves, AwaitedOf, Here
<1>8. Settled(g') /\ ~Dead(g'.judge)
  BY <1>1, <1>4, <1>5, <1>6, <1>7 DEF Settled
<1> QED
  BY <1>8, Others, Restored

LEMMA JudgeAnswersKeeps == Inv /\ JudgeAnswers /\ UNCHANGED <<known, userTurns>> => Inv'
<1> SUFFICES ASSUME Inv, JudgeAnswers, UNCHANGED <<known, userTurns>>
             PROVE  Inv'
  OBVIOUS
<1> DEFINE c == Responded(g.judge)
           b == g.twice \/ (g.judge.inFlight /\ Head(g.judge.owed).told)
           answered == [g EXCEPT
             !.judge = Responded(@),
             !.twice = @ \/ (g.judge.inFlight /\ Head(g.judge.owed).told)]
<1>1. /\ Settled(g) /\ g \in Goals /\ Sound(g.judge) /\ known \in BOOLEAN
      /\ g.judge.phase = "ready" /\ g.judge.up /\ g.status = "Active" /\ ~Dead(g.judge)
      /\ Answerable(g.judge)
      /\ ~g.judge.inFlight => ~g.judging /\ ~g.authoring
  BY InvHeard, JudgeRuns DEF JudgeAnswers, Answerable
<1>2. Sound(c) /\ c.phase = "ready" /\ c.up
  BY <1>1, Closed
<1>3. b \in BOOLEAN
  <2>1. g.twice \in BOOLEAN
    BY <1>1 DEF Goals
  <2> QED
    BY <2>1, Zenon
<1>4. /\ answered \in Goals /\ answered.judge = c /\ answered.status = g.status
      /\ answered.target = g.target /\ answered.index = g.index /\ answered.criterion = g.criterion
      /\ answered.iteration = g.iteration /\ answered.sent = g.sent
      /\ answered.judging = g.judging /\ answered.authoring = g.authoring
  <2>1. answered = [g EXCEPT !.judge = c, !.twice = b]
    BY <1>1 DEF Goals
  <2>2. c \in Connections
    BY <1>2 DEF Sound
  <2> HIDE DEF c, b, answered
  <2> QED
    BY <1>1, <1>3, <2>1, <2>2 DEF Goals
<1>5. g' = IF g.judge.inFlight THEN JudgeEnded(answered) ELSE answered
  BY DEF JudgeAnswers
<1> HIDE DEF c, b, answered
<1>6. /\ Turned(answered) /\ answered.judge = c
      /\ answered.judging = g.judging /\ answered.authoring = g.authoring
  BY <1>1, <1>2, <1>4, JudgeSwapped
<1>7. Settled(JudgeEnded(answered)) /\ Kept(answered, JudgeEnded(answered))
  BY <1>1, <1>6, JudgeHeard
<1>8. ~g.judge.inFlight => JudgeEnded(answered) = answered
  BY <1>1, <1>6 DEF JudgeEnded
<1>9. g' = JudgeEnded(answered)
  BY <1>5, <1>8
<1>10. Settled(g') /\ (g'.status = "Active" => ~Dead(g'.judge))
  BY <1>2, <1>6, <1>7, <1>9 DEF Kept, Dead
<1> QED
  BY <1>10, Others, Restored

LEMMA JudgeNotifiesKeeps == Inv /\ JudgeNotifies /\ UNCHANGED <<known, userTurns>> => Inv'
<1> SUFFICES ASSUME Inv, JudgeNotifies, UNCHANGED <<known, userTurns>>
             PROVE  Inv'
  OBVIOUS
<1> DEFINE c == Notified(g.judge)
           t == [g EXCEPT !.judge = Notified(@)]
<1>1. /\ Settled(g) /\ g \in Goals /\ Sound(g.judge) /\ known \in BOOLEAN
      /\ g.judge.phase = "ready" /\ g.judge.up /\ g.status = "Active" /\ ~Dead(g.judge)
      /\ Answerable(g.judge) /\ g.twice \in BOOLEAN
  BY InvHeard, JudgeRuns DEF JudgeNotifies, Answerable, Goals
<1>2. Sound(c) /\ c.phase = "ready" /\ c.up
  BY <1>1, Closed
<1>3. g' = JudgeEnded(t)
  BY DEF JudgeNotifies
<1>4. /\ t \in Goals /\ t.judge = c /\ t.status = g.status
      /\ t.target = g.target /\ t.index = g.index /\ t.criterion = g.criterion
      /\ t.iteration = g.iteration /\ t.sent = g.sent
      /\ t.judging = g.judging /\ t.authoring = g.authoring
  <2>1. t = [g EXCEPT !.judge = c] /\ c \in Connections
    BY <1>1, <1>2 DEF Goals, Sound
  <2> HIDE DEF c, t
  <2> QED
    BY <1>1, <2>1 DEF Goals
<1> HIDE DEF c, t
<1>5. Turned(t)
  BY <1>1, <1>2, <1>4, JudgeSwapped
<1>6. Settled(g') /\ Kept(t, g')
  BY <1>1, <1>3, <1>5, JudgeHeard
<1>7. g'.status = "Active" => ~Dead(g'.judge)
  BY <1>2, <1>4, <1>6 DEF Kept, Dead
<1> QED
  BY <1>6, <1>7, Others, Restored

\* The judge's exit ends its turn, and then the goal unless that has replaced the
\* judge or ended it already.
LEMMA JudgeGone ==
  ASSUME Inv, JudgeExits
  PROVE  LET gone  == [g EXCEPT !.judge = Exited(@)]
             after == IF g.judge.inFlight THEN JudgeEnded(gone) ELSE gone
         IN /\ \/ g' = after
               \/ after.status = "Active" /\ ~after.authoring /\ g' = Ended(after, "Failed")
            /\ Settled(g') /\ (g'.status = "Active" => ~Dead(g'.judge))
<1> DEFINE c == Exited(g.judge)
           gone == [g EXCEPT !.judge = Exited(@)]
           after == IF g.judge.inFlight THEN JudgeEnded(gone) ELSE gone
<1>1. /\ Settled(g) /\ g \in Goals /\ Sound(g.judge) /\ known \in BOOLEAN
      /\ g.judge.up /\ g.status = "Active" /\ ~Dead(g.judge)
      /\ Books(g) /\ Counted(g, 0) /\ Placed(g) /\ g.twice \in BOOLEAN
      /\ g.judge.phase = "ready" /\ ~g.judge.inFlight => ~g.judging /\ ~g.authoring
  BY InvHeard, JudgeRuns DEF JudgeExits, Heard, Goals
<1>2. Sound(c) /\ c.phase = g.judge.phase /\ ~c.up
  BY <1>1, Closed
<1>3. /\ gone \in Goals /\ gone.judge = c /\ gone.status = g.status
      /\ gone.target = g.target /\ gone.index = g.index /\ gone.criterion = g.criterion
      /\ gone.iteration = g.iteration /\ gone.sent = g.sent
      /\ gone.judging = g.judging /\ gone.authoring = g.authoring
  <2>1. gone = [g EXCEPT !.judge = c] /\ c \in Connections
    BY <1>1, <1>2 DEF Goals, Sound
  <2> HIDE DEF c, gone
  <2> QED
    BY <1>1, <2>1 DEF Goals
<1>4. g' = IF after.status # "Active" \/ after.judge.phase = "none" \/ after.judge.up
           THEN after
           ELSE IF after.authoring THEN Handoff(after) ELSE Ended(after, "Failed")
  BY DEF JudgeExits
<1> HIDE DEF c, gone
<1> DEFINE Outcome ==
  /\ \/ g' = after
     \/ after.status = "Active" /\ ~after.authoring /\ g' = Ended(after, "Failed")
  /\ Settled(g') /\ (g'.status = "Active" => ~Dead(g'.judge))
<1>5. ASSUME g.judge.inFlight
      PROVE  Outcome
  <2>1. g.judge.phase = "ready"
    BY <1>1, <1>5 DEF Sound
  <2>2. Turned(gone)
    BY <1>1, <1>2, <1>3, <2>1, JudgeSwapped
  <2> HIDE DEF after
  <2>3. Settled(after)
    BY <1>1, <1>5, <2>2, JudgeHeard DEF after
  <2>4. CASE after.status # "Active" \/ after.judge.phase = "none" \/ after.judge.up
    <3>1. g' = after
      BY <1>4, <2>4
    <3>2. Settled(g') /\ (g'.status = "Active" => ~Dead(g'.judge))
      BY <2>3, <2>4, <3>1 DEF Dead
    <3> QED
      BY <3>1, <3>2
  <2>5. CASE ~(after.status # "Active" \/ after.judge.phase = "none" \/ after.judge.up)
    <3>1. ~after.authoring
      BY <2>3, <2>5 DEF Settled, Placed, Dead
    <3>2. g' = Ended(after, "Failed")
      BY <1>4, <2>5, <3>1
    <3>3. Settled(g') /\ g'.status = "Failed"
      BY <2>3, <2>5, <3>2, Over DEF Settled
    <3> QED
      BY <2>5, <3>1, <3>2, <3>3
  <2> QED
    BY <2>4, <2>5
<1>6. ASSUME ~g.judge.inFlight
      PROVE  Outcome
  <2>1. after = gone
    BY <1>6
  <2> HIDE DEF after
  <2>2. /\ gone \in Goals /\ gone.status = "Active" /\ gone.judge = c
        /\ gone.target = g.target /\ gone.index = g.index
        /\ gone.criterion = g.criterion /\ gone.iteration = g.iteration
        /\ gone.sent = g.sent /\ gone.authoring = g.authoring
    BY <1>1, <1>3
  <2>3. ~g.authoring /\ g.judge.phase # "none"
    BY <1>1, <1>6 DEF Placed, Sound
  <2>4. g' = Ended(gone, "Failed")
    BY <1>2, <1>4, <2>1, <2>2, <2>3
  <2>5. Books(gone) /\ Counted(gone, 0)
    BY <1>1, <1>2, <2>2 DEF Books, Within, Ordered, Counted, Matches, Here
  <2>6. Settled(g') /\ g'.status = "Failed"
    BY <1>2, <2>2, <2>4, <2>5, Over
  <2> QED
    BY <1>3, <2>1, <2>2, <2>3, <2>4, <2>6
<1> QED
  BY <1>5, <1>6 DEF gone

LEMMA JudgeExitsKeeps == Inv /\ JudgeExits /\ UNCHANGED <<known, userTurns>> => Inv'
BY JudgeGone, Others, Restored

\* What the target's end of turn leaves, and what any other change of it does.
LEMMA TargetKeeps ==
  ASSUME Inv, UNCHANGED <<known, userTurns>>,
         NEW c, Sound(c), c.phase = "none" \/ Here(g),
         NEW t, t = [g EXCEPT !.target = c],
         \/ g' = TargetEnded(t)
         \/ g' = t /\ (g.status = "Active" /\ ~g.judging /\ ~g.authoring => TargetMoves(t))
  PROVE  Inv'
<1>1. Heard(g) /\ (g.status = "Active" => ~Dead(g.judge))
  BY InvHeard
<1>2. /\ Heard(t) /\ t.status = g.status /\ t.judge = g.judge
      /\ (g.status = "Active" /\ ~g.judging /\ ~g.authoring => TargetMoves(t))
           => Settled(t)
  BY <1>1, TargetSwapped
<1>3. CASE g' = TargetEnded(t)
  <2>1. Settled(g') /\ Kept(t, g')
    BY <1>2, <1>3, TargetHeard
  <2>2. g'.status = "Active" => ~Dead(g'.judge)
    BY <1>2, <1>3, <2>1 DEF Kept, Heard, TargetEnded
  <2> QED
    BY <2>1, <2>2, Others, Restored
<1>4. CASE g' = t /\ Settled(t)
  BY <1>1, <1>2, <1>4, Others, Restored
<1> QED
  BY <1>2, <1>3, <1>4

LEMMA TargetActsKeep ==
  Inv /\ UNCHANGED <<known, userTurns>> /\ (TargetReady \/ TargetRefuses \/ TargetAnswers)
    => Inv'
<1> SUFFICES ASSUME Inv, UNCHANGED <<known, userTurns>>
             PROVE  TargetReady \/ TargetRefuses \/ TargetAnswers => Inv'
  OBVIOUS
<1>1. /\ g \in Goals /\ Sound(g.target) /\ Settled(g)
      /\ g.status = "Active" /\ ~g.judging /\ ~g.authoring => TargetMoves(g)
  <2>1. g.status = "Active" /\ ~g.judging /\ ~g.authoring => TargetMoves(g)
    BY InvHeard DEF Settled, Moves
  <2> QED
    BY <2>1, InvHeard
<1>2. ASSUME TargetReady
      PROVE  Inv'
  <2> DEFINE c == Established(g.target)
  <2>1. /\ g.target.phase = "starting" /\ g.target.up /\ g' = [g EXCEPT !.target = c]
    BY <1>2 DEF TargetReady
  <2>2. /\ Sound(c) /\ c.phase = "ready" /\ c.up
        /\ g.target.queued # <<>> => c.inFlight /\ c.owed # <<>>
    BY <1>1, <2>1, Opened
  <2> HIDE DEF c
  <2>3. g'.target = c
    BY <1>1, <2>1 DEF Goals
  <2>4. TargetMoves(g) => TargetMoves(g')
    BY <1>1, <2>1, <2>2, <2>3 DEF TargetMoves, Sound, Here
  <2> QED
    BY <1>1, <2>1, <2>2, <2>4, TargetKeeps DEF Here
<1>3. ASSUME TargetRefuses
      PROVE  Inv'
  <2>1. PICK up \in BOOLEAN : g' = [g EXCEPT !.target.phase = "refused", !.target.up = up]
    BY <1>3 DEF TargetRefuses
  <2> DEFINE c == [g.target EXCEPT !.phase = "refused", !.up = up]
  <2>2. /\ g.target.phase = "starting" /\ g.target.up
    BY <1>3 DEF TargetRefuses
  <2>3. g' = [g EXCEPT !.target = c]
    BY <1>1, <2>1 DEF Goals
  <2>4. Sound(c) /\ c.phase = "refused" /\ c.queued = g.target.queued
    BY <1>1, <2>2 DEF Sound, Connections
  <2> HIDE DEF c
  <2>5. g'.target = c
    BY <1>1, <2>3 DEF Goals
  <2>6. TargetMoves(g) => TargetMoves(g')
    BY <1>1, <2>2, <2>4, <2>5 DEF TargetMoves, Sound, Here
  <2> QED
    BY <1>1, <2>2, <2>3, <2>4, <2>6, TargetKeeps DEF Here
<1>4. ASSUME TargetAnswers
      PROVE  Inv'
  <2> DEFINE c == Responded(g.target)
             t == [g EXCEPT !.target = Responded(@)]
  <2>1. Answerable(g.target) /\ g' = IF g.target.inFlight THEN TargetEnded(t) ELSE t
    BY <1>4 DEF TargetAnswers
  <2>2. Sound(c) /\ c.phase = "ready" /\ Here(g)
    BY <1>1, <2>1, Closed DEF Answerable, Here
  <2>3. t = [g EXCEPT !.target = c]
    BY <1>1 DEF Goals
  <2>4. ~g.target.inFlight => ~TargetMoves(g)
    BY <2>1 DEF TargetMoves, Answerable, Here
  <2> HIDE DEF c, t
  <2>5. CASE g.target.inFlight
    BY <2>1, <2>2, <2>3, <2>5, TargetKeeps
  <2>6. CASE ~g.target.inFlight
    BY <1>1, <2>1, <2>2, <2>3, <2>4, <2>6, TargetKeeps
  <2> QED
    BY <2>5, <2>6
<1> QED
  BY <1>2, <1>3, <1>4

LEMMA TargetOthersKeep ==
  Inv /\ UNCHANGED <<known, userTurns>> /\ (TargetNotifies \/ TargetExits \/ TargetReplaced)
    => Inv'
<1> SUFFICES ASSUME Inv, UNCHANGED <<known, userTurns>>
             PROVE  TargetNotifies \/ TargetExits \/ TargetReplaced => Inv'
  OBVIOUS
<1>1. /\ g \in Goals /\ Sound(g.target)
      /\ g.status = "Active" /\ ~g.judging /\ ~g.authoring => TargetMoves(g)
  <2>1. g.status = "Active" /\ ~g.judging /\ ~g.authoring => TargetMoves(g)
    BY InvHeard DEF Settled, Moves
  <2> QED
    BY <2>1, InvHeard
<1>2. ASSUME TargetNotifies
      PROVE  Inv'
  <2> DEFINE c == Notified(g.target)
             t == [g EXCEPT !.target = Notified(@)]
  <2>1. Answerable(g.target) /\ g' = TargetEnded(t)
    BY <1>2 DEF TargetNotifies
  <2>2. Sound(c) /\ c.phase = "ready" /\ Here(g)
    BY <1>1, <2>1, Closed DEF Answerable, Here
  <2>3. t = [g EXCEPT !.target = c]
    BY <1>1 DEF Goals
  <2> HIDE DEF c, t
  <2> QED
    BY <2>1, <2>2, <2>3, TargetKeeps
<1>3. ASSUME TargetExits
      PROVE  Inv'
  <2> DEFINE c == Exited(g.target)
             t == [g EXCEPT !.target = Exited(@)]
  <2>1. g.target.up /\ g' = IF g.target.inFlight THEN TargetEnded(t) ELSE t
    BY <1>3 DEF TargetExits
  <2>2. Sound(c) /\ c.phase = g.target.phase /\ c.queued = g.target.queued
    BY <1>1, Closed
  <2>3. t = [g EXCEPT !.target = c]
    BY <1>1 DEF Goals
  <2> HIDE DEF c, t
  <2>4. t.target = c
    BY <1>1, <2>3 DEF Goals
  <2>5. Here(g)
    BY <1>1, <2>1 DEF Sound, Here
  <2>6. CASE g.target.inFlight
    BY <2>1, <2>2, <2>3, <2>5, <2>6, TargetKeeps
  <2>7. CASE ~g.target.inFlight
    <3>1. TargetMoves(g) => TargetMoves(t)
      BY <2>2, <2>4, <2>7 DEF TargetMoves, Here
    <3> QED
      BY <1>1, <2>1, <2>2, <2>3, <2>5, <2>7, <3>1, TargetKeeps
  <2> QED
    BY <2>6, <2>7
<1>4. ASSUME TargetReplaced
      PROVE  Inv'
  <2> DEFINE c == NoConnection
  <2>1. g' = [g EXCEPT !.target = c]
    BY <1>4 DEF TargetReplaced
  <2>2. Sound(c) /\ c.phase = "none"
    BY Connected
  <2> HIDE DEF c
  <2>3. g'.target = c
    BY <1>1, <2>1 DEF Goals
  <2>4. TargetMoves(g')
    BY <2>2, <2>3 DEF TargetMoves, Here
  <2> QED
    BY <2>1, <2>2, <2>4, TargetKeeps
<1> QED
  BY <1>2, <1>3, <1>4

\* A permission asked for, or answered, leaves the target's turn in flight.
LEMMA TargetPermissionsKeep ==
  Inv /\ UNCHANGED <<known, userTurns>> /\ (TargetAsks \/ PermissionAnswered) => Inv'
<1> SUFFICES ASSUME Inv, UNCHANGED <<known, userTurns>>, TargetAsks \/ PermissionAnswered
             PROVE  Inv'
  OBVIOUS
<1>1. PICK b \in BOOLEAN : g' = [g EXCEPT !.target.asking = b]
  BY DEF TargetAsks, PermissionAnswered
<1> DEFINE c == [g.target EXCEPT !.asking = b]
<1>2. /\ g \in Goals /\ Sound(g.target) /\ Settled(g) /\ Here(g)
      /\ g.status = "Active" => ~Dead(g.judge)
  BY InvHeard DEF TargetAsks, PermissionAnswered, Asks, Answerable, Here
<1>3. g' = [g EXCEPT !.target = c]
  BY <1>1, <1>2 DEF Goals
<1>4. /\ Sound(c) /\ c.phase = g.target.phase /\ c.up = g.target.up
      /\ c.inFlight = g.target.inFlight /\ c.owed = g.target.owed
      /\ c.queued = g.target.queued
  BY <1>2, Permitted
<1> HIDE DEF c
<1>5. g'.target = c
  BY <1>2, <1>3 DEF Goals
<1>6. g.status = "Active" /\ ~g.judging /\ ~g.authoring => TargetMoves(g')
  BY <1>2, <1>4, <1>5 DEF Settled, Moves, TargetMoves, Here
<1> QED
  BY <1>2, <1>3, <1>4, <1>6, TargetKeeps

-----------------------------------------------------------------------------
(* The invariant is inductive.                                             *)

LEMMA InitInv == Init => Inv
<1> SUFFICES ASSUME Init
             PROVE  Inv
  OBVIOUS
<1>2. Sound(NoConnection) /\ NoConnection \in Connections /\ ~NoConnection.up
  BY Connected DEF Sound
<1>3. PICK c : Sound(c) /\ g = NewGoal(c)
  <2>1. PICK phase \in {"starting", "ready"} :
          \/ g = NewGoal([NewConnection EXCEPT !.phase = phase])
          \/ phase = "ready" /\ g = NewGoal(Put([NewConnection EXCEPT !.phase = phase], "user"))
    BY DEF Init
  <2> DEFINE n == [NewConnection EXCEPT !.phase = phase]
  <2>2. NewConnection \in Connections
    BY Connected DEF Sound
  <2>3. Sound(n) /\ n.phase # "none"
    BY <2>2 DEF Sound, Connections, NewConnection
  <2> HIDE DEF n
  <2>4. Sound(Put(n, "user"))
    BY <2>3, Sent DEF Kinds
  <2> QED
    BY <2>1, <2>3, <2>4 DEF n
<1>4. c \in Connections
  BY <1>3 DEF Sound
<1> HIDE DEF NoConnection
<1>5. /\ g.status = "Idle" /\ g.index = 1 /\ g.judge = NoConnection /\ g.target = c
      /\ ~g.judging /\ ~g.authoring
      /\ g.criterion = [i \in 1 .. Criteria |-> IF i = 1 THEN "active" ELSE "pending"]
      /\ g.iteration = [i \in 1 .. Criteria |-> 0]
      /\ g.sent = [i \in 1 .. Criteria |-> 0]
  BY <1>3 DEF NewGoal
<1>6. g \in Goals
  <2>1. 1 \in 1 .. Criteria /\ 0 \in 0 .. MaxIterations
    BY GoalAssumption
  <2>2. /\ [i \in 1 .. Criteria |-> IF i = 1 THEN "active" ELSE "pending"]
              \in [1 .. Criteria -> {"pending", "active", "archived"}]
        /\ [i \in 1 .. Criteria |-> 0] \in [1 .. Criteria -> 0 .. MaxIterations]
        /\ [i \in 1 .. Criteria |-> 0] \in [1 .. Criteria -> Nat]
    BY <2>1
  <2> QED
    BY <1>2, <1>3, <1>4, <2>1, <2>2 DEF NewGoal, Goals, Statuses
<1>7. Within(g) /\ Ordered(g) /\ Counted(g, 0)
  <2>1. Within(g)
    BY <1>5, GoalAssumption DEF Within
  <2>2. Ordered(g)
    BY <1>5, GoalAssumption DEF Ordered
  <2>3. Counted(g, 0)
    BY <1>5, GoalAssumption DEF Counted, Matches
  <2> QED
    BY <2>1, <2>2, <2>3
<1>8. g.criterion[1] = "active"
  BY <1>5, GoalAssumption
<1>9. Settled(g)
  BY <1>2, <1>3, <1>5, <1>6, <1>7, <1>8 DEF Settled, Books
<1> QED
  BY <1>5, <1>9, GoalAssumption DEF Inv, Init

LEMMA InvHolds == Inv /\ [Next]_vars => Inv'
<1> SUFFICES ASSUME Inv, [Next]_vars
             PROVE  Inv'
  OBVIOUS
<1>1. CASE Start
  BY <1>1, StartKeeps
<1>2. CASE UserPrompts
  BY <1>2, UserKeeps
<1>3. CASE Stop
  BY <1>3, StopKeeps
<1>4. CASE AgentRemoved
  BY <1>4, RemovalKeeps
<1>5. CASE AgentActs
  BY <1>5, JudgeReadyKeeps, JudgeRefusesKeeps, JudgeAnswersKeeps, TargetActsKeep
  DEF AgentActs
<1>6. CASE Other
  BY <1>6, JudgeSpeaksKeeps, JudgeNotifiesKeeps, JudgeExitsKeeps, JudgeAsksKeeps,
     JudgeAnswersKeeps, TargetActsKeep, TargetOthersKeep, TargetPermissionsKeep
  DEF Other
<1>7. CASE UNCHANGED vars
  <2>1. g' = g /\ known' = known /\ userTurns' = userTurns
    BY <1>7 DEF vars
  <2>2. /\ Settled(g) /\ (g.status = "Active" => ~Dead(g.judge))
        /\ known \in BOOLEAN /\ userTurns \in 0 .. MaxUserTurns
    BY DEF Inv
  <2>3. Settled(g') /\ (g'.status = "Active" => ~Dead(g'.judge))
    BY <2>1, <2>2
  <2> QED
    BY <2>1, <2>2, <2>3, Restored
<1> QED
  BY <1>1, <1>2, <1>3, <1>4, <1>5, <1>6, <1>7 DEF Next

LEMMA Invariant == Spec => []Inv
BY InitInv, InvHolds, PTL DEF Spec

-----------------------------------------------------------------------------
(* What it implies.                                                        *)

LEMMA Typed == Inv => TypeOK
<1> SUFFICES ASSUME Inv
             PROVE  TypeOK
  OBVIOUS
<1>1. g \in Goals /\ known \in BOOLEAN /\ userTurns \in 0 .. MaxUserTurns
  BY InvHeard DEF Inv
<1> QED
  BY <1>1 DEF TypeOK, Goals

LEMMA Moving == Inv => SomeoneMoves
<1> SUFFICES ASSUME Inv, g.status = "Active"
             PROVE  IF g.judging \/ g.authoring THEN JudgeMoves(g) ELSE TargetMoves(g)
  BY DEF SomeoneMoves, JudgeMoves, TargetMoves, AwaitedOf, Awaited, Here, Orphaned
<1> QED
  BY DEF Inv, Settled, Moves

LEMMA Telling == Inv => ToldOnce
<1> SUFFICES ASSUME Inv
             PROVE  ToldOnce
  OBVIOUS
<1>1. /\ g \in Goals /\ Counted(g, 0) /\ Within(g)
  BY DEF Inv, Settled, Books
<1>2. g.sent \in [1 .. Criteria -> Nat]
  BY <1>1 DEF Goals
<1>3. \A c \in 1 .. Criteria :
        Matches(g, g.sent[c],
                (IF c > 1 /\ c <= g.index THEN 1 ELSE 0) + g.iteration[c]
                  - (IF g.iteration[c] = MaxIterations THEN 1 ELSE 0))
  <2> TAKE c \in 1 .. Criteria
  <2>1. g.sent[c] + (IF c = g.index THEN 0 ELSE 0) = g.sent[c]
    <3>1. g.sent[c] \in Nat
      BY <1>2
    <3>2. CASE c = g.index
      BY <3>1, <3>2
    <3>3. CASE c # g.index
      BY <3>1, <3>3
    <3> QED
      BY <3>2, <3>3
  <2> QED
    BY <1>1, <2>1 DEF Counted
<1> QED
  BY <1>1, <1>3 DEF ToldOnce, Within, Matches, Here, Orphaned

\* The last criterion is archived only if every one is.
LEMMA Meeting == Inv => MetInOrder
<1> SUFFICES ASSUME Inv
             PROVE  MetInOrder
  OBVIOUS
<1>1. Ordered(g) /\ g \in Goals /\ Criteria \in 1 .. Criteria
  BY GoalAssumption DEF Inv, Settled, Books
<1>2. CASE g.status = "Achieved"
  <2>1. \A c \in 1 .. Criteria : c < Criteria \/ c = Criteria
    BY GoalAssumption
  <2> QED
    BY <1>1, <1>2, <2>1 DEF Ordered, MetInOrder
<1>3. CASE g.status # "Achieved"
  BY <1>1, <1>3 DEF Ordered, MetInOrder
<1> QED
  BY <1>2, <1>3

-----------------------------------------------------------------------------
(* The theorems.                                                           *)

\* The types; the index names a criterion and no iteration exceeds the limit.
THEOREM GoalTyped == Spec => []TypeOK
BY Invariant, Typed, PTL

\* Whatever the agents do, an active goal always waits for somebody who owes it
\* the very answer it waits for; only one whose target has been replaced waits for
\* nobody, once its judge has been heard.
THEOREM GoalMoves == Spec => []SomeoneMoves
BY Invariant, Moving, PTL

\* The target is told of each criterion, and of each judgement, exactly once, and
\* at most once if a restart has replaced it.
THEOREM GoalTells == Spec => []ToldOnce
BY Invariant, Telling, PTL

\* Criteria are met in order, and the goal is achieved when the last one is.
THEOREM GoalInOrder == Spec => []MetInOrder
BY Invariant, Meeting, PTL

-----------------------------------------------------------------------------
(* The goal implements GoalCourse.  Only the accounts of a slot matter     *)
(* here, and they are the same whatever its connections do.                *)

\* A goal in mid-slot, of whose connections nothing is known but that the target
\* has a phase.
Phased(c) == "phase" \in DOMAIN c
Shaped(s) ==
  /\ Phased(s.target)
  /\ s = [status |-> s.status, index |-> s.index, criterion |-> s.criterion,
          iteration |-> s.iteration, judging |-> s.judging, corrected |-> s.corrected,
          authoring |-> s.authoring, text |-> s.text, judge |-> s.judge,
          target |-> s.target, sent |-> s.sent, twice |-> s.twice]

SameAccounts(s, t) ==
  t.index = s.index /\ t.criterion = s.criterion /\ t.iteration = s.iteration
  /\ t.sent = s.sent
Same(s, t) == SameAccounts(s, t) /\ Here(t) = Here(s)
Tells(s, c, t) ==
  t.sent = (IF Here(s) THEN [s.sent EXCEPT ![c] = @ + 1] ELSE s.sent) /\ Here(t) = Here(s)
Going(t) == t.status \in {"Active", "Failed"}

\* One step of the course from s to t, by its kind.  What is archived and not yet
\* handed over leaves the goal at work on the hand-off.
Continues(s, t) ==
  /\ s.criterion[s.index] = "active"
  /\ t.index = s.index /\ t.criterion = s.criterion
  /\ t.iteration = [s.iteration EXCEPT ![s.index] = @ + 1]
  /\ IF t.iteration[s.index] >= MaxIterations
     THEN t.status = "Cancelled" /\ t.sent = s.sent /\ Here(t) = Here(s)
     ELSE Going(t) /\ Tells(s, s.index, t)
Passes(s, archived, t) ==
  /\ s.index < Criteria /\ t.index = s.index + 1 /\ t.iteration = s.iteration
  /\ t.criterion = [archived EXCEPT ![s.index + 1] = "active"]
  /\ Tells(s, s.index + 1, t) /\ Going(t)
Archives(s, t) ==
  /\ s.criterion[s.index] = "active"
  /\ t.index = s.index /\ t.iteration = s.iteration /\ t.sent = s.sent /\ Here(t) = Here(s)
  /\ t.criterion = [s.criterion EXCEPT ![s.index] = "archived"]
  /\ t.status = IF s.index = Criteria THEN "Achieved" ELSE "Active"
  /\ t.status = "Active" => t.authoring
Completes(s, t) ==
  \/ Archives(s, t)
  \/ s.criterion[s.index] = "active"
     /\ Passes(s, [s.criterion EXCEPT ![s.index] = "archived"], t)
HandsOver(s, t) == s.criterion[s.index] = "archived" /\ Passes(s, s.criterion, t)
Stays(s, t) == Same(s, t) /\ t.status \in {"Active", "Cancelled", "Failed"}

Steps(s, t) == Stays(s, t) \/ Continues(s, t) \/ Completes(s, t) \/ HandsOver(s, t)

LEMMA GoalsShaped == \A s \in Goals : Shaped(s)
BY DEF Goals, Shaped, Phased, Connections

\* What happens to a connection leaves it there.
LEMMA StillThere ==
  ASSUME NEW c, Phased(c), NEW kind
  PROVE  /\ Phased(Put(c, kind)) /\ Put(c, kind).phase = c.phase
         /\ Phased(Established(c)) /\ Established(c).phase = "ready"
         /\ Phased(Responded(c)) /\ Responded(c).phase = c.phase
         /\ Phased(Notified(c)) /\ Notified(c).phase = c.phase
         /\ Phased(Exited(c)) /\ Exited(c).phase = c.phase
BY DEF Phased, Put, Established, Responded, Notified, Exited

\* Steps of goals with the same accounts.
LEMMA StepsOfSame ==
  ASSUME NEW r, NEW s, NEW t, Same(r, s), Steps(s, t)
  PROVE  Steps(r, t)
BY DEF Same, SameAccounts, Tells, Steps, Stays, Continues, Completes, Archives, HandsOver,
       Passes

\* What a goal awaits is not in its accounts.
LEMMA Awaiting ==
  ASSUME NEW s, Shaped(s), NEW b, NEW t,
         \/ t = [s EXCEPT !.judging = b] \/ t = [s EXCEPT !.corrected = b]
         \/ t = [s EXCEPT !.authoring = b] \/ t = [s EXCEPT !.text = b]
         \/ t = [s EXCEPT !.judge = b]
  PROVE  Shaped(t) /\ Same(s, t) /\ t.status = s.status /\ t.target = s.target
BY DEF Shaped, Same, SameAccounts, Here

\* A question to the judge, and its failure in mid-slot.
LEMMA Asking ==
  ASSUME NEW s, Shaped(s), NEW b
  PROVE  LET asks == [s EXCEPT !.judging = TRUE, !.corrected = b, !.text = "bad"]
             ends == [asks EXCEPT !.judging = FALSE]
             last == [asks EXCEPT !.judging = FALSE, !.corrected = TRUE]
         IN /\ Shaped(asks) /\ Same(s, asks) /\ asks.status = s.status
            /\ Shaped(ends) /\ Same(s, ends)
            /\ Shaped(last) /\ Same(s, last)
<1> DEFINE t == [s EXCEPT !.judging = TRUE]
           u == [t EXCEPT !.corrected = b]
           asks == [u EXCEPT !.text = "bad"]
           ends == [asks EXCEPT !.judging = FALSE]
           last == [ends EXCEPT !.corrected = TRUE]
<1>1. Shaped(t) /\ Same(s, t) /\ t.status = s.status
  BY Awaiting
<1>2. ASSUME Shaped(t)
      PROVE  Shaped(u) /\ Same(t, u) /\ u.status = t.status
  <2> HIDE DEF t
  <2> QED
    BY <1>2, Awaiting
<1>3. ASSUME Shaped(u)
      PROVE  Shaped(asks) /\ Same(u, asks) /\ asks.status = u.status
  <2> HIDE DEF u
  <2> QED
    BY <1>3, Awaiting
<1>4. ASSUME Shaped(asks)
      PROVE  Shaped(ends) /\ Same(asks, ends)
  <2> HIDE DEF asks
  <2> QED
    BY <1>4, Awaiting
<1>5. ASSUME Shaped(ends)
      PROVE  Shaped(last) /\ Same(ends, last)
  <2> HIDE DEF ends
  <2> QED
    BY <1>5, Awaiting
<1>6. /\ Shaped(asks) /\ Same(s, asks) /\ asks.status = s.status
      /\ Shaped(ends) /\ Same(s, ends) /\ Shaped(last) /\ Same(s, last)
  <2> HIDE DEF t, u, asks, ends, last
  <2> QED
    BY <1>1, <1>2, <1>3, <1>4, <1>5 DEF Same, SameAccounts
<1> QED
  BY <1>6

\* The parts of a slot that touch no account.
LEMMA Untouched ==
  ASSUME NEW s, Shaped(s), NEW how, NEW kind
  PROVE  /\ Shaped(Ended(s, how)) /\ Same(s, Ended(s, how)) /\ Ended(s, how).status = how
         /\ Shaped(Drop(Ended(s, how))) /\ Same(s, Drop(Ended(s, how)))
         /\ Drop(Ended(s, how)).status = how
         /\ Drop(Ended(s, how)).target = s.target
         /\ Shaped(Ask(s, kind)) /\ Same(s, Ask(s, kind)) /\ Ask(s, kind).status = s.status
         /\ Ask(s, kind).authoring = s.authoring
<1>1. /\ Shaped(Ended(s, how)) /\ Same(s, Ended(s, how)) /\ Ended(s, how).status = how
      /\ Ended(s, how).target = s.target
  BY DEF Shaped, Same, SameAccounts, Here, Ended
<1> DEFINE r == Ended(s, how)
<1>2. Drop(r) = [r EXCEPT !.judge = NoConnection]
  BY DEF Drop
<1>3. Ask(s, kind) = [s EXCEPT !.judge = Put(s.judge, kind)]
  BY DEF Ask
<1> HIDE DEF r
<1>4. Shaped(Drop(r)) /\ Same(r, Drop(r)) /\ Drop(r).status = r.status
      /\ Drop(r).target = r.target
  <2>1. Shaped(r)
    BY <1>1 DEF r
  <2> QED
    BY <1>2, <2>1, Awaiting
<1>5. /\ Shaped(Ask(s, kind)) /\ Same(s, Ask(s, kind)) /\ Ask(s, kind).status = s.status
      /\ Ask(s, kind).authoring = s.authoring
  BY <1>3, Awaiting
<1> QED
  BY <1>1, <1>4, <1>5 DEF Same, SameAccounts, r

LEMMA EvaluateStays ==
  ASSUME NEW s, Shaped(s), s.status = "Active"
  PROVE  Shaped(Evaluate(s)) /\ Same(s, Evaluate(s)) /\ Going(Evaluate(s))
<1> DEFINE asks == [s EXCEPT !.judging = TRUE, !.corrected = FALSE, !.text = "bad"]
           ends == [asks EXCEPT !.judging = FALSE, !.corrected = TRUE]
<1>1. /\ Shaped(asks) /\ Same(s, asks) /\ asks.status = "Active"
      /\ Shaped(ends) /\ Same(s, ends)
  BY Asking
<1>2. \/ Evaluate(s) = Ended(s, "Failed")
      \/ Evaluate(s) = Drop(Ended(ends, "Failed"))
      \/ Evaluate(s) = Ask(asks, "verdict")
  BY DEF Evaluate, GiveUp
<1> HIDE DEF asks, ends
<1>3. CASE Evaluate(s) = Ended(s, "Failed")
  BY <1>3, Untouched DEF Going
<1>4. CASE Evaluate(s) = Drop(Ended(ends, "Failed"))
  BY <1>1, <1>4, Untouched DEF Same, SameAccounts, Going
<1>5. CASE Evaluate(s) = Ask(asks, "verdict")
  BY <1>1, <1>5, Untouched DEF Same, SameAccounts, Going
<1> QED
  BY <1>2, <1>3, <1>4, <1>5

\* The end of a turn of the target's, active goal or not.
LEMMA TargetEndedStays ==
  ASSUME NEW s, Shaped(s)
  PROVE  /\ Shaped(TargetEnded(s)) /\ Same(s, TargetEnded(s))
         /\ \/ TargetEnded(s).status = s.status
            \/ s.status = "Active" /\ TargetEnded(s).status = "Failed"
<1>1. CASE s.status = "Active" /\ ~s.judging /\ ~s.authoring
  <2>1. TargetEnded(s) = Evaluate(s)
    BY <1>1 DEF TargetEnded
  <2> QED
    BY <1>1, <2>1, EvaluateStays DEF Going
<1>2. CASE ~(s.status = "Active" /\ ~s.judging /\ ~s.authoring)
  <2>1. TargetEnded(s) = s
    BY <1>2 DEF TargetEnded
  <2> QED
    BY <2>1 DEF Same, SameAccounts
<1> QED
  BY <1>1, <1>2

\* A prompt to the target counts once if it is there, though it may fail inside the
\* call.
LEMMA TellCounts ==
  ASSUME NEW s, Shaped(s), Going(s), NEW kind
  PROVE  LET t == Tell(s, kind) IN
         /\ Shaped(t) /\ Going(t)
         /\ t.index = s.index /\ t.criterion = s.criterion /\ t.iteration = s.iteration
         /\ Tells(s, s.index, t)
<1>1. CASE ~Here(s)
  BY <1>1 DEF Tell, Here, Tells
<1>2. CASE Here(s)
  <2> DEFINE c == Put(s.target, kind)
             n == [s.sent EXCEPT ![s.index] = @ + 1]
             told == [s EXCEPT !.sent[s.index] = @ + 1, !.target = Put(@, kind)]
  <2>1. told = [s EXCEPT !.sent = n, !.target = c]
    BY DEF Shaped
  <2>2. Phased(c) /\ c.phase = s.target.phase
    BY StillThere DEF Shaped
  <2> HIDE DEF c, n
  <2>3. /\ Shaped(told) /\ told.status = s.status /\ told.sent = n
        /\ told.index = s.index /\ told.criterion = s.criterion
        /\ told.iteration = s.iteration /\ Here(told) = Here(s)
    <3> HIDE DEF told
    <3> QED
      BY <2>1, <2>2 DEF Shaped, Here
  <2>4. Tell(s, kind) = IF Dead(s.target) THEN TargetEnded(told) ELSE told
    BY <1>2 DEF Tell, Here
  <2> HIDE DEF told
  <2>5. Tells(s, s.index, told) /\ Going(told)
    BY <1>2, <2>3 DEF Tells, Going, n
  <2>6. CASE Tell(s, kind) = told
    BY <2>3, <2>5, <2>6
  <2>7. CASE Tell(s, kind) = TargetEnded(told)
    <3> DEFINE t == TargetEnded(told)
    <3>1. Shaped(t) /\ Same(told, t) /\ Going(t)
      BY <2>3, <2>5, TargetEndedStays DEF Going
    <3> HIDE DEF t
    <3>2. Tells(s, s.index, t)
      BY <2>5, <3>1 DEF Tells, Same, SameAccounts
    <3> QED
      BY <2>3, <2>7, <3>1, <3>2 DEF Same, SameAccounts, t
  <2> QED
    BY <2>4, <2>6, <2>7
<1> QED
  BY <1>1, <1>2

LEMMA HandoffPasses ==
  ASSUME NEW s, Shaped(s), s.status = "Active", s.index < Criteria
  PROVE  Shaped(Handoff(s)) /\ Passes(s, s.criterion, Handoff(s))
<1> DEFINE i == s.index + 1
           m == [s.criterion EXCEPT ![i] = "active"]
           t == [s EXCEPT !.index = @ + 1, !.criterion[s.index + 1] = "active",
                          !.authoring = FALSE]
           r == Spawn(t)
           new == NewConnection
<1>1. t = [s EXCEPT !.index = i, !.criterion = m, !.authoring = FALSE]
  BY DEF Shaped
<1> HIDE DEF m
<1>2. /\ Shaped(t) /\ t.status = "Active" /\ t.index = i /\ t.criterion = m
      /\ t.iteration = s.iteration /\ t.sent = s.sent /\ t.target = s.target
  <2> HIDE DEF t, i
  <2> QED
    BY <1>1 DEF Shaped
<1>3. Handoff(s) = Tell(r, "handoff")
  BY DEF Handoff
<1> HIDE DEF t
<1>4. \/ r = [t EXCEPT !.judge = new]
      \/ r = Drop(Ended(t, "Failed"))
  BY DEF Spawn, GiveUp
<1>5. Drop(Ended(t, "Failed")).target = t.target
  BY <1>2, Untouched
<1> HIDE DEF r, new
<1>6. Shaped(r) /\ Same(t, r) /\ Going(r) /\ r.target = s.target
  <2>1. CASE r = [t EXCEPT !.judge = new]
    BY <1>2, <2>1 DEF Shaped, Same, SameAccounts, Here, Going
  <2>2. CASE r = Drop(Ended(t, "Failed"))
    BY <1>2, <1>5, <2>2, Untouched DEF Going
  <2> QED
    BY <1>4, <2>1, <2>2
<1> QED
  BY <1>2, <1>3, <1>6, TellCounts DEF Same, SameAccounts, Passes, Tells, Here, i, m

\* An answer that does not parse moves nothing.
LEMMA CorrectStays ==
  ASSUME NEW s, Shaped(s), s.status = "Active"
  PROVE  Shaped(Correct(s)) /\ Stays(s, Correct(s))
<1> DEFINE asks == [s EXCEPT !.judging = TRUE, !.corrected = TRUE, !.text = "bad"]
           ends == [asks EXCEPT !.judging = FALSE]
<1>1. /\ Shaped(asks) /\ Same(s, asks) /\ asks.status = "Active"
      /\ Shaped(ends) /\ Same(s, ends)
  BY Asking
<1>2. \/ Correct(s) = Drop(Ended(s, "Failed"))
      \/ Correct(s) = Drop(Ended(ends, "Failed"))
      \/ Correct(s) = Ask(asks, "correction")
  BY DEF Correct, GiveUp
<1> HIDE DEF asks, ends
<1> QED
  BY <1>1, <1>2, Untouched DEF Same, SameAccounts, Stays

LEMMA ContinueContinues ==
  ASSUME NEW s, Shaped(s), s.status = "Active", s.criterion[s.index] = "active"
  PROVE  Shaped(Continue(s)) /\ Continues(s, Continue(s))
<1> DEFINE n == [s.iteration EXCEPT ![s.index] = @ + 1]
           counted == [s EXCEPT !.iteration[s.index] = @ + 1]
<1>1. counted = [s EXCEPT !.iteration = n]
  BY DEF Shaped
<1>2. Continue(s) = IF counted.iteration[s.index] >= MaxIterations
                    THEN Drop(Ended(counted, "Cancelled"))
                    ELSE Tell(counted, "continue")
  BY DEF Continue
<1> HIDE DEF n, counted
<1>3. /\ Shaped(counted) /\ counted.status = "Active" /\ counted.index = s.index
      /\ counted.criterion = s.criterion /\ counted.iteration = n
      /\ counted.sent = s.sent /\ counted.target = s.target
  BY <1>1 DEF Shaped
<1>4. CASE n[s.index] >= MaxIterations
  <2>1. Continue(s) = Drop(Ended(counted, "Cancelled"))
    BY <1>2, <1>3, <1>4
  <2> DEFINE t == Continue(s)
  <2>2. /\ Shaped(t) /\ t.status = "Cancelled" /\ t.index = s.index
        /\ t.criterion = s.criterion /\ t.sent = s.sent /\ t.iteration = n
        /\ Here(t) = Here(s)
    BY <1>3, <2>1, Untouched DEF Same, SameAccounts, Here
  <2>3. t.iteration[s.index] >= MaxIterations
    BY <1>4, <2>2
  <2> HIDE DEF t
  <2> QED
    BY <2>2, <2>3 DEF Continues, n, t
<1>5. CASE ~(n[s.index] >= MaxIterations)
  <2>1. Continue(s) = Tell(counted, "continue")
    BY <1>2, <1>3, <1>5
  <2>2. Going(counted)
    BY <1>3 DEF Going
  <2> DEFINE t == Continue(s)
  <2>3. /\ Shaped(t) /\ Going(t) /\ t.index = s.index /\ t.criterion = s.criterion
        /\ t.iteration = n /\ Tells(s, s.index, t)
    BY <1>3, <2>1, <2>2, TellCounts DEF Tells, Here
  <2>4. ~(t.iteration[s.index] >= MaxIterations)
    BY <1>5, <2>3
  <2> HIDE DEF t
  <2> QED
    BY <2>3, <2>4 DEF Continues, n, t
<1> QED
  BY <1>4, <1>5

LEMMA AdvanceCompletes ==
  ASSUME NEW s, Shaped(s), s.status = "Active",
         s.criterion[s.index] = "active", s.index \in 1 .. Criteria
  PROVE  Shaped(Advance(s)) /\ Completes(s, Advance(s))
<1> DEFINE m == [s.criterion EXCEPT ![s.index] = "archived"]
           archived == [s EXCEPT !.criterion[s.index] = "archived"]
           asks == [archived EXCEPT !.authoring = TRUE]
<1>1. archived = [s EXCEPT !.criterion = m]
  BY DEF Shaped
<1>2. \/ s.index = Criteria /\ Advance(s) = Drop(Ended(archived, "Achieved"))
      \/ s.index # Criteria /\ Advance(s) = Handoff(archived)
      \/ s.index # Criteria /\ Advance(s) = Ask(asks, "authoring")
  BY DEF Advance
<1> HIDE DEF m, archived
<1>3. /\ Shaped(archived) /\ archived.status = "Active" /\ archived.index = s.index
      /\ archived.criterion = m /\ archived.iteration = s.iteration
      /\ archived.sent = s.sent /\ archived.target = s.target
  BY <1>1 DEF Shaped
<1>4. Shaped(asks) /\ Same(archived, asks) /\ asks.status = "Active"
  BY <1>3, Awaiting
<1>5. asks.authoring
  BY <1>3 DEF Shaped
<1> HIDE DEF asks
<1>6. CASE s.index = Criteria /\ Advance(s) = Drop(Ended(archived, "Achieved"))
  BY <1>3, <1>6, Untouched DEF Same, SameAccounts, Completes, Archives, Here, m
<1>7. CASE s.index # Criteria /\ Advance(s) = Handoff(archived)
  <2>1. s.index < Criteria
    BY <1>7, GoalAssumption
  <2>2. Shaped(Handoff(archived)) /\ Passes(archived, archived.criterion, Handoff(archived))
    BY <1>3, <2>1, HandoffPasses
  <2> QED
    BY <1>3, <1>7, <2>2 DEF Passes, Completes, Tells, Here, m
<1>8. CASE s.index # Criteria /\ Advance(s) = Ask(asks, "authoring")
  BY <1>3, <1>4, <1>5, <1>8, Untouched DEF Same, SameAccounts, Completes, Archives, Here, m
<1> QED
  BY <1>2, <1>6, <1>7, <1>8

\* A turn of the judge's ends, in an active goal: one step of the course.
LEMMA JudgeEndedSteps ==
  ASSUME Inv, g.status = "Active", NEW s, Shaped(s), s.status = "Active", Same(g, s),
         s.target = g.target, s.judging = g.judging, s.authoring = g.authoring,
         s.text = g.text
  PROVE  Shaped(JudgeEnded(s)) /\ Steps(s, JudgeEnded(s))
<1>1. /\ g \in Goals /\ s.index \in 1 .. Criteria
      /\ s.judging \in BOOLEAN /\ s.authoring \in BOOLEAN
      /\ s.text \in {"bad", "continue", "complete"}
      /\ Placed(g)
  BY InvHeard DEF Inv, Settled, Same, SameAccounts, Goals
<1>2. CASE s.authoring
  <2>1. s.index < Criteria /\ s.criterion[s.index] = "archived"
    BY <1>1, <1>2 DEF Placed, Same, SameAccounts
  <2> QED
    BY <1>1, <1>2, <2>1, HandoffPasses DEF JudgeEnded, Steps, HandsOver
<1>3. CASE ~s.authoring /\ s.judging
  <2> DEFINE t == [s EXCEPT !.judging = FALSE]
  <2>1. /\ Shaped(t) /\ Same(s, t) /\ t.status = "Active" /\ t.target = s.target
        /\ t.text = s.text
    <3>1. t.text = s.text
      BY <1>1 DEF Shaped
    <3> QED
      BY <1>1, <3>1, Awaiting
  <2>2. JudgeEnded(s) = Answered(t)
    BY <1>3 DEF JudgeEnded
  <2>3. t.text \in {"bad", "continue", "complete"}
    BY <1>1, <2>1
  <2> HIDE DEF t
  <2>4. t.criterion[t.index] = "active" /\ t.index \in 1 .. Criteria
    BY <1>1, <1>3, <2>1 DEF Placed, Same, SameAccounts
  <2>5. Shaped(Answered(t)) /\ Steps(t, Answered(t))
    <3>1. CASE t.text = "bad"
      BY <2>1, <3>1, CorrectStays DEF Answered, Steps
    <3>2. CASE t.text = "continue"
      BY <1>1, <2>1, <2>4, <3>2, ContinueContinues DEF Answered, Steps
    <3>3. CASE t.text = "complete"
      BY <1>1, <2>1, <2>4, <3>3, AdvanceCompletes DEF Answered, Steps
    <3> QED
      BY <2>3, <3>1, <3>2, <3>3
  <2> QED
    BY <2>1, <2>2, <2>5, StepsOfSame
<1>4. CASE ~s.authoring /\ ~s.judging
  BY <1>1, <1>4 DEF JudgeEnded, Steps, Stays, Same, SameAccounts
<1> QED
  BY <1>1, <1>2, <1>3, <1>4

\* What an event may do to the course.
OnCourse ==
  \/ Same(g, g') /\ g'.status = g.status
  \/ g.status = "Active" /\ Steps(g, g')
  \/ g.status = "Idle" /\ Same(g, g') /\ Going(g')
  \/ g.status # "Idle" /\ SameAccounts(g, g') /\ g'.status = g.status
     /\ Here(g) /\ ~Here(g')

LEMMA UserMoves ==
  ASSUME Inv, Start \/ UserPrompts \/ Stop \/ AgentRemoved
  PROVE  OnCourse
<1>1. Shaped(g)
  BY InvHeard, GoalsShaped
<1>2. CASE Start
  <2> DEFINE r == Spawn(g)
             active == Ended(r, "Active")
             c == Put(active.target, "user")
  <2>1. /\ g.status = "Idle"
        /\ g' = IF r.status # "Idle" THEN r
                ELSE IF Dead(g.target) THEN TargetEnded(active)
                     ELSE [active EXCEPT !.target = c]
    BY <1>2 DEF Start
  <2>2. \/ r = [g EXCEPT !.judge = NewConnection]
        \/ r = Drop(Ended(g, "Failed"))
    BY DEF Spawn, GiveUp
  <2> HIDE DEF r
  <2>3. Shaped(r) /\ Same(g, r) /\ r.status \in {"Idle", "Failed"}
    BY <1>1, <2>1, <2>2, Awaiting, Untouched
  <2>4. Shaped(active) /\ Same(r, active) /\ active.status = "Active"
    BY <2>3, Untouched
  <2>5. c.phase = active.target.phase
    BY <2>4, StillThere DEF Shaped
  <2> HIDE DEF active, c
  <2>6. [active EXCEPT !.target = c].status = "Active"
        /\ Same(active, [active EXCEPT !.target = c])
    BY <2>4, <2>5 DEF Shaped, Same, SameAccounts, Here
  <2>7. Same(active, TargetEnded(active)) /\ Going(TargetEnded(active))
    BY <2>4, TargetEndedStays DEF Going
  <2>8. Same(g, g') /\ Going(g')
    BY <2>1, <2>3, <2>4, <2>6, <2>7 DEF Same, SameAccounts, Going
  <2> QED
    BY <2>1, <2>8 DEF OnCourse
<1>3. CASE UserPrompts
  <2> DEFINE c == Put(g.target, "user")
             said == [g EXCEPT !.target = c]
  <2>1. g.status = "Active" /\ g' = IF Dead(g.target) THEN TargetEnded(said) ELSE said
    BY <1>3 DEF UserPrompts
  <2>2. Phased(c) /\ c.phase = g.target.phase
    BY <1>1, StillThere DEF Shaped
  <2> HIDE DEF c
  <2>3. Shaped(said) /\ Same(g, said) /\ said.status = "Active"
    BY <1>1, <2>1, <2>2 DEF Shaped, Same, SameAccounts, Here
  <2> HIDE DEF said
  <2>4. Same(g, g') /\ g'.status \in {"Active", "Failed"}
    BY <2>1, <2>3, TargetEndedStays DEF Same, SameAccounts
  <2> QED
    BY <2>1, <2>4 DEF OnCourse, Steps, Stays
<1>4. CASE Stop
  BY <1>1, <1>4, Untouched DEF Stop, OnCourse, Steps, Stays
<1>5. CASE AgentRemoved
  BY <1>5 DEF AgentRemoved, OnCourse, Same, SameAccounts
<1> QED
  BY <1>2, <1>3, <1>4, <1>5

\* What only changes a connection, or the text of an answer under way.
LEMMA ConnectionsMove ==
  ASSUME Inv, \/ JudgeReady \/ JudgeRefuses \/ JudgeSpeaks \/ JudgeAsks
              \/ TargetReady \/ TargetRefuses \/ TargetAsks \/ PermissionAnswered
  PROVE  OnCourse
<1>1. Shaped(g) /\ Phased(g.target)
  BY InvHeard, GoalsShaped DEF Shaped
<1>2. ASSUME NEW c, \/ g' = [g EXCEPT !.judge = c] \/ g' = [g EXCEPT !.text = c]
                    \/ g' = [g EXCEPT !.target = c] /\ (c.phase = "none") = ~Here(g)
      PROVE  OnCourse
  BY <1>1, <1>2 DEF Shaped, Same, SameAccounts, Here, OnCourse
<1>3. CASE JudgeReady
  <2>1. g' = [g EXCEPT !.judge = Established(g.judge)]
    BY <1>3 DEF JudgeReady
  <2> QED
    BY <1>2, <2>1
<1>4. CASE TargetReady
  <2> DEFINE c == Established(g.target)
  <2>1. g' = [g EXCEPT !.target = c] /\ Here(g)
    BY <1>4 DEF TargetReady, Here
  <2>2. c.phase = "ready"
    BY <1>1, StillThere
  <2> HIDE DEF c
  <2> QED
    BY <1>2, <2>1, <2>2
<1>5. CASE JudgeSpeaks
  BY <1>2, <1>5 DEF JudgeSpeaks
<1>6. CASE JudgeRefuses
  <2>1. PICK up \in BOOLEAN : g' = [g EXCEPT !.judge.phase = "refused", !.judge.up = up]
    BY <1>6 DEF JudgeRefuses
  <2> DEFINE c == [g.judge EXCEPT !.phase = "refused", !.up = up]
  <2>2. g' = [g EXCEPT !.judge = c]
    BY <1>1, <2>1 DEF Shaped
  <2> QED
    BY <1>2, <2>2
<1>7. CASE JudgeAsks
  <2> DEFINE c == [g.judge EXCEPT !.asking = TRUE]
  <2>1. g' = [g EXCEPT !.judge = c]
    BY <1>1, <1>7 DEF JudgeAsks, Shaped
  <2> QED
    BY <1>2, <2>1
<1>8. CASE TargetRefuses
  <2>1. PICK up \in BOOLEAN : g' = [g EXCEPT !.target.phase = "refused", !.target.up = up]
    BY <1>8 DEF TargetRefuses
  <2> DEFINE c == [g.target EXCEPT !.phase = "refused", !.up = up]
  <2>2. g' = [g EXCEPT !.target = c]
    BY <1>1, <2>1 DEF Shaped
  <2>3. c.phase = "refused" /\ Here(g)
    BY <1>1, <1>8 DEF TargetRefuses, Phased, Here
  <2> HIDE DEF c
  <2> QED
    BY <1>2, <2>2, <2>3
<1>9. CASE TargetAsks \/ PermissionAnswered
  <2>1. PICK b \in BOOLEAN : g' = [g EXCEPT !.target.asking = b]
    BY <1>9 DEF TargetAsks, PermissionAnswered
  <2> DEFINE c == [g.target EXCEPT !.asking = b]
  <2>2. g' = [g EXCEPT !.target = c]
    BY <1>1, <2>1 DEF Shaped
  <2>3. c.phase = g.target.phase
    BY <1>1 DEF Phased
  <2> HIDE DEF c
  <2> QED
    BY <1>2, <2>2, <2>3 DEF Here
<1> QED
  BY <1>3, <1>4, <1>5, <1>6, <1>7, <1>8, <1>9

LEMMA TargetMovesOn ==
  ASSUME Inv, TargetAnswers \/ TargetNotifies \/ TargetExits \/ TargetReplaced
  PROVE  OnCourse
<1>1. Shaped(g) /\ Phased(g.target)
  BY InvHeard, GoalsShaped DEF Shaped
<1>2. ASSUME NEW c, Phased(c), c.phase = g.target.phase,
             NEW s, s = [g EXCEPT !.target = c], g' = s \/ g' = TargetEnded(s)
      PROVE  OnCourse
  <2>1. Shaped(s) /\ Same(g, s) /\ s.status = g.status
    BY <1>1, <1>2 DEF Shaped, Same, SameAccounts, Here
  <2>2. /\ Same(g, g')
        /\ \/ g'.status = g.status
           \/ g.status = "Active" /\ g'.status = "Failed"
    <3>1. CASE g' = s
      BY <2>1, <3>1
    <3>2. CASE g' = TargetEnded(s)
      BY <2>1, <3>2, TargetEndedStays DEF Same, SameAccounts
    <3> QED
      BY <1>2, <3>1, <3>2
  <2> QED
    BY <2>2 DEF OnCourse, Steps, Stays
<1>3. CASE TargetAnswers
  <2> DEFINE c == Responded(g.target)
  <2>1. \/ g' = [g EXCEPT !.target = c]
        \/ g' = TargetEnded([g EXCEPT !.target = c])
    BY <1>3 DEF TargetAnswers
  <2>2. Phased(c) /\ c.phase = g.target.phase
    BY <1>1, StillThere
  <2> HIDE DEF c
  <2> QED
    BY <1>2, <2>1, <2>2
<1>4. CASE TargetNotifies
  <2> DEFINE c == Notified(g.target)
  <2>1. g' = TargetEnded([g EXCEPT !.target = c])
    BY <1>4 DEF TargetNotifies
  <2>2. Phased(c) /\ c.phase = g.target.phase
    BY <1>1, StillThere
  <2> HIDE DEF c
  <2> QED
    BY <1>2, <2>1, <2>2
<1>5. CASE TargetExits
  <2> DEFINE c == Exited(g.target)
  <2>1. \/ g' = [g EXCEPT !.target = c]
        \/ g' = TargetEnded([g EXCEPT !.target = c])
    BY <1>5 DEF TargetExits
  <2>2. Phased(c) /\ c.phase = g.target.phase
    BY <1>1, StillThere
  <2> HIDE DEF c
  <2> QED
    BY <1>2, <2>1, <2>2
<1>6. CASE TargetReplaced
  <2> DEFINE c == NoConnection
  <2>1. g' = [g EXCEPT !.target = c] /\ g.status # "Idle" /\ Here(g)
    BY <1>6 DEF TargetReplaced, Here
  <2>2. c.phase = "none"
    BY Connected
  <2> HIDE DEF c
  <2>3. SameAccounts(g, g') /\ g'.status = g.status /\ ~Here(g')
    BY <1>1, <2>1, <2>2 DEF Shaped, SameAccounts, Here
  <2> QED
    BY <2>1, <2>3 DEF OnCourse
<1> QED
  BY <1>3, <1>4, <1>5, <1>6

\* The judge's turn ends by its answer or a notification.
LEMMA JudgeMovesOn ==
  ASSUME Inv, JudgeAnswers \/ JudgeNotifies
  PROVE  OnCourse
<1>1. Shaped(g) /\ g.status = "Active"
  BY InvHeard, GoalsShaped, JudgeRuns DEF JudgeAnswers, JudgeNotifies, Answerable
<1>2. ASSUME NEW c, NEW b, NEW s, s = [g EXCEPT !.judge = c, !.twice = b],
             g' = s \/ g' = JudgeEnded(s)
      PROVE  OnCourse
  <2>1. /\ Shaped(s) /\ Same(g, s) /\ s.status = "Active" /\ s.target = g.target
        /\ s.judging = g.judging /\ s.authoring = g.authoring /\ s.text = g.text
    BY <1>1, <1>2 DEF Shaped, Same, SameAccounts, Here
  <2>2. Steps(s, JudgeEnded(s))
    BY <1>1, <2>1, JudgeEndedSteps
  <2> QED
    BY <1>1, <1>2, <2>1, <2>2, StepsOfSame DEF OnCourse
<1>3. CASE JudgeAnswers
  <2> DEFINE b == g.twice \/ (g.judge.inFlight /\ Head(g.judge.owed).told)
             answered == [g EXCEPT
               !.judge = Responded(@),
               !.twice = @ \/ (g.judge.inFlight /\ Head(g.judge.owed).told)]
  <2>1. g' = answered \/ g' = JudgeEnded(answered)
    BY <1>3 DEF JudgeAnswers
  <2>2. answered = [g EXCEPT !.judge = Responded(g.judge), !.twice = b]
    BY <1>1 DEF Shaped
  <2> HIDE DEF answered, b
  <2> QED
    BY <1>2, <2>1, <2>2
<1>4. CASE JudgeNotifies
  <2>1. g' = JudgeEnded([g EXCEPT !.judge = Notified(g.judge)])
    BY <1>4 DEF JudgeNotifies
  <2>2. [g EXCEPT !.judge = Notified(g.judge)]
          = [g EXCEPT !.judge = Notified(g.judge), !.twice = g.twice]
    BY <1>1 DEF Shaped
  <2> QED
    BY <1>2, <2>1, <2>2
<1> QED
  BY <1>3, <1>4

\* The judge's exit: the step its turn ends with, and perhaps the end of the goal.
LEMMA ExitMoves ==
  ASSUME Inv, JudgeExits
  PROVE  OnCourse
<1> DEFINE c == Exited(g.judge)
           gone == [g EXCEPT !.judge = Exited(@)]
           after == IF g.judge.inFlight THEN JudgeEnded(gone) ELSE gone
<1>1. Shaped(g) /\ g.status = "Active"
  BY InvHeard, GoalsShaped, JudgeRuns DEF JudgeExits
<1>2. \/ g' = after
      \/ after.status = "Active" /\ ~after.authoring /\ g' = Ended(after, "Failed")
  BY JudgeGone
<1>3. gone = [g EXCEPT !.judge = c]
  BY <1>1 DEF Shaped
<1> HIDE DEF c, gone
<1>4. /\ Shaped(gone) /\ Same(g, gone) /\ gone.status = "Active" /\ gone.target = g.target
      /\ gone.judging = g.judging /\ gone.authoring = g.authoring /\ gone.text = g.text
  BY <1>1, <1>3 DEF Shaped, Same, SameAccounts, Here
<1>5. Shaped(after) /\ Steps(g, after)
  <2>1. CASE g.judge.inFlight
    <3>1. Shaped(JudgeEnded(gone)) /\ Steps(gone, JudgeEnded(gone))
      BY <1>1, <1>4, JudgeEndedSteps
    <3> QED
      BY <1>4, <2>1, <3>1, StepsOfSame
  <2>2. CASE ~g.judge.inFlight
    BY <1>4, <2>2 DEF Steps, Stays
  <2> QED
    BY <2>1, <2>2
<1> HIDE DEF after
<1>6. ASSUME after.status = "Active", ~after.authoring, g' = Ended(after, "Failed")
      PROVE  Steps(g, g')
  <2>1. Same(after, g') /\ g'.status = "Failed"
    BY <1>5, <1>6, Untouched
  <2> QED
    BY <1>5, <1>6, <2>1
       DEF Steps, Stays, Same, SameAccounts, Tells, Continues, Completes, Archives,
           HandsOver, Passes, Going
<1> QED
  BY <1>1, <1>2, <1>5, <1>6 DEF OnCourse

LEMMA EveryStepOnCourse ==
  ASSUME Inv, [Next]_vars
  PROVE  OnCourse
<1>1. CASE Next
  BY <1>1, UserMoves, ConnectionsMove, TargetMovesOn, JudgeMovesOn, ExitMoves
     DEF Next, AgentActs, Other
<1>2. CASE UNCHANGED vars
  BY <1>2 DEF vars, OnCourse, Same, SameAccounts, Here
<1> QED
  BY <1>1, <1>2

LEMMA CourseInit == Init => Course!Init
<1> SUFFICES ASSUME Init
             PROVE  Course!Init
  OBVIOUS
<1>1. PICK c : g = NewGoal(c) /\ c.phase # "none"
  <2>1. PICK phase \in {"starting", "ready"} :
          \/ g = NewGoal([NewConnection EXCEPT !.phase = phase])
          \/ g = NewGoal(Put([NewConnection EXCEPT !.phase = phase], "user"))
    BY DEF Init
  <2> DEFINE n == [NewConnection EXCEPT !.phase = phase]
  <2>2. Phased(n) /\ n.phase # "none"
    BY DEF Phased, NewConnection
  <2> HIDE DEF n
  <2>3. Put(n, "user").phase # "none"
    BY <2>2, StillThere
  <2> QED
    BY <2>1, <2>2, <2>3 DEF n
<1> QED
  BY <1>1 DEF NewGoal, Course!Init

LEMMA CourseStep ==
  ASSUME OnCourse
  PROVE  [Course!Next]_(Course!vars)
<1>1. CASE Same(g, g') /\ g'.status = g.status
  BY <1>1 DEF Same, SameAccounts, Here, Course!vars
<1>2. CASE g.status = "Idle" /\ Same(g, g') /\ Going(g')
  BY <1>2 DEF Same, SameAccounts, Here, Going, Course!Next, Course!Start, Course!GoesOn
<1>3. CASE g.status = "Active" /\ Steps(g, g')
  <2>1. CASE Stays(g, g')
    <3>1. CASE g'.status = "Active"
      BY <1>3, <2>1, <3>1 DEF Stays, Same, SameAccounts, Here, Course!vars
    <3>2. CASE g'.status # "Active"
      BY <1>3, <2>1, <3>2 DEF Stays, Same, SameAccounts, Here, Course!Next, Course!End
    <3> QED
      BY <3>1, <3>2
  <2>2. CASE Continues(g, g')
    BY <1>3, <2>2
       DEF Continues, Tells, Here, Going, Course!Next, Course!Continue, Course!Judged,
           Course!GoesOn, Course!Told
  <2>3. CASE Completes(g, g')
    BY <1>3, <2>3 DEF Completes, Archives, Passes, Tells, Here, Going, Course!Next,
                      Course!Complete, Course!Judged, Course!Pass, Course!GoesOn, Course!Told
  <2>4. CASE HandsOver(g, g')
    BY <1>3, <2>4 DEF HandsOver, Passes, Tells, Here, Going, Course!Next,
                      Course!HandOver, Course!Pass, Course!GoesOn, Course!Told
  <2> QED
    BY <1>3, <2>1, <2>2, <2>3, <2>4 DEF Steps
<1>4. CASE /\ g.status # "Idle" /\ SameAccounts(g, g') /\ g'.status = g.status
           /\ Here(g) /\ ~Here(g')
  BY <1>4 DEF SameAccounts, Here, Course!Next, Course!Detach
<1> QED
  BY <1>1, <1>2, <1>3, <1>4 DEF OnCourse

\* Whatever its two agents do, a goal takes its criteria one by one, counts every
\* judgement once, hands over once what it archives, tells its target of each as long
\* as it is there, and is not moved by anything that comes after its end.
THEOREM CourseImplemented == Spec => CourseSpec
<1>1. Inv /\ [Next]_vars => [Course!Next]_(Course!vars)
  BY EveryStepOnCourse, CourseStep
<1> QED
  BY <1>1, CourseInit, Invariant, PTL DEF Spec, CourseSpec, Course!Spec
=============================================================================
