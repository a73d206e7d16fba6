------------------------- MODULE SshConnect_proofs -------------------------
(***************************************************************************)
(* Theorems about SshConnect, for every number of attempts.  They rest on  *)
(* one fact: a call of the worker emits a sequence of signals that either  *)
(* tells of no change of state, and then there was none, or tells last of  *)
(* the state the call leaves (Leads).  Each call has a lemma (Worked), the *)
(* steps collect them, and the theorems follow.                            *)
(***************************************************************************)
EXTENDS SshConnect, SequenceFacts

-----------------------------------------------------------------------------
(* Signals                                                                 *)

LEMMA TidingsType ==
  /\ \A s \in States : Changed(s) \in Tidings /\ Changed(s).what = "state"
                       /\ Changed(s).state = s
  /\ \A w \in {"hostKey", "connected", "authFailed", "lost"} :
        Event(w) \in Tidings /\ Event(w).what = w
BY DEF Changed, Event, Tidings

LEMMA ConcatTells ==
  ASSUME NEW p \in Seq(Tidings), NEW q \in Seq(Tidings), NEW s \in States
  PROVE  /\ Tells(q, s) => Tells(p \o q, s)
         /\ Quiet(q) /\ Tells(p, s) => Tells(p \o q, s)
         /\ Quiet(q) /\ Quiet(p) => Quiet(p \o q)
<1> DEFINE u == p \o q
<1>1. /\ Len(u) = Len(p) + Len(q) /\ Len(p) \in Nat /\ Len(q) \in Nat
      /\ DOMAIN p = 1 .. Len(p) /\ DOMAIN q = 1 .. Len(q) /\ DOMAIN u = 1 .. Len(u)
      /\ \A i \in 1 .. Len(p) + Len(q) : u[i] = IF i <= Len(p) THEN p[i] ELSE q[i - Len(p)]
  BY ConcatProperties, LenProperties
<1> HIDE DEF u
<1>2. ASSUME Tells(q, s) PROVE Tells(u, s)
  <2>1. PICK i \in 1 .. Len(q) :
          q[i] = Changed(s) /\ \A j \in 1 .. Len(q) : j > i => q[j].what # "state"
    BY <1>1, <1>2 DEF Tells
  <2>2. Len(p) + i \in 1 .. Len(u) /\ u[Len(p) + i] = Changed(s)
    BY <1>1, <2>1
  <2>3. ASSUME NEW j \in 1 .. Len(u), j > Len(p) + i PROVE u[j].what # "state"
    <3>1. j - Len(p) \in 1 .. Len(q) /\ j - Len(p) > i /\ u[j] = q[j - Len(p)]
      BY <1>1, <2>1, <2>3
    <3> QED
      BY <2>1, <3>1
  <2> QED
    BY <1>1, <2>2, <2>3 DEF Tells
<1>3. ASSUME Quiet(q), Tells(p, s) PROVE Tells(u, s)
  <2>1. PICK i \in 1 .. Len(p) :
          p[i] = Changed(s) /\ \A j \in 1 .. Len(p) : j > i => p[j].what # "state"
    BY <1>1, <1>3 DEF Tells
  <2>2. i \in 1 .. Len(u) /\ u[i] = Changed(s)
    BY <1>1, <2>1
  <2>3. ASSUME NEW j \in 1 .. Len(u), j > i PROVE u[j].what # "state"
    <3>1. CASE j <= Len(p)
      BY <1>1, <2>1, <2>3, <3>1
    <3>2. CASE ~(j <= Len(p))
      <4>1. j - Len(p) \in DOMAIN q /\ u[j] = q[j - Len(p)]
        BY <1>1, <3>2
      <4> QED
        BY <1>3, <4>1 DEF Quiet
    <3> QED
      BY <3>1, <3>2
  <2> QED
    BY <1>1, <2>2, <2>3 DEF Tells
<1>4. ASSUME Quiet(q), Quiet(p) PROVE Quiet(u)
  <2>1. SUFFICES ASSUME NEW j \in 1 .. Len(u) PROVE u[j].what # "state"
    BY <1>1 DEF Quiet
  <2>2. CASE j <= Len(p)
    BY <1>1, <1>4, <2>2 DEF Quiet
  <2>3. CASE ~(j <= Len(p))
    <3>1. j - Len(p) \in DOMAIN q /\ u[j] = q[j - Len(p)]
      BY <1>1, <2>3
    <3> QED
      BY <1>4, <3>1 DEF Quiet
  <2> QED
    BY <2>2, <2>3
<1> QED
  BY <1>2, <1>3, <1>4 DEF u

LEMMA TailTells ==
  ASSUME NEW p \in Seq(Tidings), p # <<>>, NEW s \in States
  PROVE  /\ Head(p) \in Tidings /\ Tail(p) \in Seq(Tidings)
         /\ Quiet(p) => Quiet(Tail(p)) /\ Head(p).what # "state"
         /\ Tells(p, s) => \/ Tells(Tail(p), s)
                           \/ Quiet(Tail(p)) /\ Head(p) = Changed(s)
<1> DEFINE t == Tail(p)
<1>1. /\ t \in Seq(Tidings) /\ Len(t) = Len(p) - 1 /\ Head(p) = p[1]
      /\ Len(p) \in Nat \ {0} /\ DOMAIN p = 1 .. Len(p) /\ DOMAIN t = 1 .. Len(p) - 1
      /\ Head(p) \in Tidings
      /\ \A j \in 1 .. Len(p) - 1 : t[j] = p[j + 1]
  BY HeadTailProperties, LenProperties, EmptySeq, ElementOfSeq
<1> HIDE DEF t
<1>2. ASSUME Quiet(p) PROVE Quiet(t) /\ Head(p).what # "state"
  <2>1. \A j \in 1 .. Len(p) : p[j].what # "state"
    BY <1>1, <1>2 DEF Quiet
  <2>2. 1 \in 1 .. Len(p) /\ \A j \in 1 .. Len(p) - 1 : j + 1 \in 1 .. Len(p)
    BY <1>1
  <2>3. \A j \in 1 .. Len(p) - 1 : t[j].what # "state"
    BY <1>1, <2>1, <2>2
  <2> QED
    BY <1>1, <2>1, <2>2, <2>3 DEF Quiet
<1>3. ASSUME Tells(p, s), ~Tells(t, s) PROVE Quiet(t) /\ Head(p) = Changed(s)
  <2>1. PICK i \in 1 .. Len(p) :
          p[i] = Changed(s) /\ \A j \in 1 .. Len(p) : j > i => p[j].what # "state"
    BY <1>1, <1>3 DEF Tells
  <2>2. i = 1
    <3>1. SUFFICES ASSUME i # 1 PROVE FALSE
      OBVIOUS
    <3>2. i - 1 \in 1 .. Len(p) - 1 /\ t[i - 1] = Changed(s)
      BY <1>1, <2>1, <3>1
    <3>3. \A j \in 1 .. Len(p) - 1 : j > i - 1 => t[j].what # "state"
      BY <1>1, <2>1
    <3> QED
      BY <1>1, <1>3, <3>2, <3>3 DEF Tells
  <2> QED
    BY <1>1, <2>1, <2>2 DEF Quiet
<1> QED
  BY <1>1, <1>2, <1>3 DEF t

-----------------------------------------------------------------------------
(* What the calls of the worker emit                                       *)

\* q takes whoever hears it from state s to state t.
Leads(q, s, t) ==
  q \in Seq(Tidings) /\ (Tells(q, t) \/ (Quiet(q) /\ t = s))

LEMMA LeadsConcat ==
  ASSUME NEW s \in States, NEW t \in States, NEW r \in States, NEW p, NEW q,
         Leads(p, s, t), Leads(q, t, r)
  PROVE  Leads(p \o q, s, r)
<1>1. p \in Seq(Tidings) /\ q \in Seq(Tidings) /\ p \o q \in Seq(Tidings)
  BY ConcatProperties DEF Leads
<1>2. CASE Tells(q, r)
  BY <1>1, <1>2, ConcatTells DEF Leads
<1>3. CASE Quiet(q) /\ r = t /\ Tells(p, t)
  BY <1>1, <1>3, ConcatTells DEF Leads
<1>4. CASE Quiet(q) /\ r = t /\ Quiet(p) /\ t = s
  BY <1>1, <1>4, ConcatTells DEF Leads
<1> QED
  BY <1>2, <1>3, <1>4 DEF Leads

LEMMA LeadsSmall ==
  ASSUME NEW s \in States, NEW t \in States
  PROVE  /\ Leads(<<>>, s, s)
         /\ Leads(<<Changed(t)>>, s, t)
         /\ Leads(<<Event("lost")>>, s, s)
         /\ Leads(<<Event("authFailed")>>, s, s)
         /\ Leads(<<Changed(t), Event("lost")>>, s, t)
<1>1. /\ Changed(t) \in Tidings /\ Changed(t).what = "state"
      /\ \A w \in {"lost", "authFailed"} : Event(w) \in Tidings /\ Event(w).what = w
  BY TidingsType
<1>2. Leads(<<>>, s, s)
  BY DEF Leads, Quiet
<1>3. Leads(<<Changed(t)>>, s, t)
  <2> DEFINE q == <<Changed(t)>>
  <2>1. q \in Seq(Tidings) /\ DOMAIN q = 1 .. 1 /\ q[1] = Changed(t)
    BY <1>1
  <2> HIDE DEF q
  <2>2. Tells(q, t)
    BY <2>1 DEF Tells
  <2> QED
    BY <2>1, <2>2 DEF Leads, q
<1>4. ASSUME NEW w \in {"lost", "authFailed"} PROVE Leads(<<Event(w)>>, s, s)
  <2> DEFINE q == <<Event(w)>>
  <2>1. q \in Seq(Tidings) /\ DOMAIN q = 1 .. 1 /\ q[1].what # "state"
    BY <1>1
  <2> HIDE DEF q
  <2>2. Quiet(q)
    BY <2>1 DEF Quiet
  <2> QED
    BY <2>1, <2>2 DEF Leads, q
<1>5. Leads(<<Changed(t), Event("lost")>>, s, t)
  <2> DEFINE q == <<Changed(t), Event("lost")>>
  <2>1. /\ q \in Seq(Tidings) /\ DOMAIN q = 1 .. 2
        /\ q[1] = Changed(t) /\ q[2].what # "state"
    BY <1>1
  <2> HIDE DEF q
  <2>2. Tells(q, t)
    BY <2>1 DEF Tells
  <2> QED
    BY <2>1, <2>2 DEF Leads, q
<1> QED
  BY <1>2, <1>3, <1>4, <1>5

LEMMA StagesType ==
  /\ Connecting \subseteq States /\ Timed \subseteq Connecting
  /\ "Ready" \in States /\ "Disconnected" \in States /\ "Idle" \in States
  /\ \A i \in 1 .. 5 : Stages[i] \in States
  /\ \A i \in 1 .. 4 : Stages[i] \in Connecting
  /\ Stages[1] = "ConnectingSocket" /\ Stages[5] = "Ready"
  /\ "Ready" \notin Connecting /\ "Disconnected" \notin Connecting
  /\ "Idle" \notin Connecting
BY DEF Connecting, States, Stages, Timed

LEMMA StageOfType ==
  ASSUME NEW s \in Connecting
  PROVE  StageOf(s) \in 1 .. 4 /\ Stages[StageOf(s)] = s
<1>1. \E i \in 1 .. 5 : Stages[i] = s
  BY DEF Stages, Connecting
<1>2. StageOf(s) \in 1 .. 5 /\ Stages[StageOf(s)] = s
  BY <1>1 DEF StageOf
<1>3. StageOf(s) # 5
  BY <1>2, StagesType
<1> QED
  BY <1>2, <1>3

\* The announcements between two stages end with the change to the second.
LEMMA BetweenLeads ==
  ASSUME NEW from \in 1 .. 4, NEW to \in from .. 5
  PROVE  Leads(Between(from, to), Stages[from], Stages[to])
<1> DEFINE c == <<1, 2, 3, 5, 6>>[to]
           a == Announced[from]
           b == Announced[to]
           q == Between(from, to)
<1>1. /\ a \in 1 .. 7 /\ b \in 1 .. 7 /\ c \in 1 .. b
      /\ from < to => a < c
      /\ from = to => a = b
  <2>1. from \in {1, 2, 3, 4} /\ to \in {1, 2, 3, 4, 5}
    OBVIOUS
  <2> QED
    BY <2>1 DEF Announced
<1>2. /\ \A k \in 1 .. 7 : Announcements[k] \in Tidings
      /\ Announcements[c] = Changed(Stages[to])
      /\ \A k \in 1 .. 7 : k > c /\ k <= b => Announcements[k].what # "state"
  <2>1. to \in {1, 2, 3, 4, 5}
    OBVIOUS
  <2>2. /\ \A i \in 1 .. 5 : Changed(Stages[i]) \in Tidings
        /\ Event("hostKey") \in Tidings /\ Event("hostKey").what # "state"
        /\ Event("connected") \in Tidings /\ Event("connected").what # "state"
    BY TidingsType, StagesType
  <2>3. /\ Announcements[1] = Changed(Stages[1]) /\ Announcements[2] = Changed(Stages[2])
        /\ Announcements[3] = Changed(Stages[3]) /\ Announcements[4] = Event("hostKey")
        /\ Announcements[5] = Changed(Stages[4]) /\ Announcements[6] = Changed(Stages[5])
        /\ Announcements[7] = Event("connected")
    BY DEF Announcements, Stages
  <2>4. \A k \in 1 .. 7 : k \in {1, 2, 3, 4, 5, 6, 7}
    OBVIOUS
  <2>5. \A k \in 1 .. 7 : Announcements[k] \in Tidings
    BY <2>2, <2>3, <2>4
  <2>6. Announcements[c] = Changed(Stages[to])
    BY <2>1, <2>3
  <2>7. ASSUME NEW k \in 1 .. 7, k > c, k <= b
        PROVE  Announcements[k].what # "state"
    <3>1. k \in {4, 7}
      BY <2>1, <2>4, <2>7 DEF Announced
    <3> QED
      BY <2>2, <2>3, <3>1
  <2> QED
    BY <2>5, <2>6, <2>7
<1>3. a \in Int /\ b \in Int /\ a + 1 \in Int
  BY <1>1
<1>4. \A k \in a + 1 .. b : Announcements[k] \in Tidings
  BY <1>1, <1>2
<1>5. /\ q \in Seq(Tidings) /\ Len(q) = IF a + 1 <= b THEN b - (a + 1) + 1 ELSE 0
      /\ \A i \in 1 .. b - (a + 1) + 1 : q[i] = Announcements[a + 1 + i - 1]
  BY <1>3, <1>4, SubSeqProperties DEF Between
<1> HIDE DEF a, b, c, q
<1>6. CASE from = to
  <2>1. Len(q) = 0
    BY <1>1, <1>3, <1>5, <1>6
  <2>2. q = <<>>
    BY <1>5, <2>1, EmptySeq
  <2> QED
    BY <1>6, <2>2, LeadsSmall, StagesType DEF q
<1>7. CASE from < to
  <2> DEFINE n == c - a
  <2>1. /\ Len(q) = b - a /\ DOMAIN q = 1 .. b - a /\ n \in 1 .. b - a
        /\ \A i \in 1 .. b - a : q[i] = Announcements[a + i] /\ a + i \in 1 .. 7
                                 /\ a + i <= b
    <3>1. /\ b - (a + 1) + 1 = b - a /\ a + 1 <= b /\ n \in 1 .. b - a
          /\ \A i \in 1 .. b - a : a + 1 + i - 1 = a + i /\ a + i \in 1 .. 7 /\ a + i <= b
      BY <1>1, <1>7
    <3>2. Len(q) = b - a
      BY <1>5, <3>1
    <3>3. DOMAIN q = 1 .. b - a
      BY <1>5, <3>2, LenProperties
    <3>4. ASSUME NEW i \in 1 .. b - a PROVE q[i] = Announcements[a + i]
      BY <1>5, <3>1, Zenon
    <3> QED
      BY <3>1, <3>2, <3>3, <3>4
  <2>2. q[n] = Changed(Stages[to])
    <3>1. a + n = c
      BY <1>1
    <3> QED
      BY <1>2, <2>1, <3>1
  <2>3. ASSUME NEW i \in 1 .. b - a, i > n PROVE q[i].what # "state"
    <3>1. a + i > c /\ a + i \in 1 .. 7 /\ a + i <= b
      BY <1>1, <2>1, <2>3
    <3> QED
      BY <1>2, <2>1, <3>1
  <2>4. Tells(q, Stages[to])
    BY <2>1, <2>2, <2>3 DEF Tells
  <2> QED
    BY <1>5, <2>4 DEF Leads, q
<1> QED
  BY <1>6, <1>7

-----------------------------------------------------------------------------
(* The calls of the worker                                                 *)

\* What every call of the worker does to the state it shares with the facade.
WorkerStep ==
  /\ state' \in States /\ lost' \in BOOLEAN /\ writes' \in BOOLEAN
  /\ lost' => state' = "Disconnected"
  /\ \E q : signals' = signals \o q /\ Leads(q, state, state')

\* The strengthening of TypeOK: only a session that is given up has two misses.
Typing == TypeOK /\ (state = "Ready" => misses < 2)

LEMMA LoseStep ==
  ASSUME TypeOK, NEW s \in States, NEW said, Leads(said, state, s), Lose(said)
  PROVE  WorkerStep /\ state' = "Disconnected"
<1> DEFINE q == <<Changed("Disconnected"), Event("lost")>>
<1>1. state \in States /\ "Disconnected" \in States
  BY StagesType DEF TypeOK
<1>2. Leads(q, s, "Disconnected")
  BY <1>1, LeadsSmall
<1>3. Leads(said \o q, state, "Disconnected")
  BY <1>1, <1>2, LeadsConcat
<1>4. /\ lost' = TRUE /\ state' = "Disconnected" /\ writes' = FALSE
      /\ signals' = signals \o (said \o q)
  BY DEF Lose, Emit
<1> QED
  BY <1>1, <1>3, <1>4 DEF WorkerStep

LEMMA SilentStep ==
  ASSUME TypeOK, UNCHANGED <<state, lost, signals>>, writes' \in BOOLEAN
  PROVE  WorkerStep
<1>1. /\ state \in States /\ lost \in BOOLEAN /\ signals \in Seq(Tidings)
      /\ lost => state = "Disconnected"
  BY DEF TypeOK
<1>2. signals' = signals \o <<>>
  BY <1>1, ConcatEmptySeq
<1> QED
  BY <1>1, <1>2, LeadsSmall DEF WorkerStep

LEMMA AdvanceStep ==
  ASSUME TypeOK, NEW from \in 1 .. 4, NEW said, NEW approved,
         Leads(said, state, Stages[from]), Advance(from, said, approved)
  PROVE  /\ WorkerStep /\ misses' \in 0 .. 2 /\ silent' \in Nat
         /\ state' = "Ready" => misses' = 0 /\ inbound' = FALSE
<1>1. PICK to \in from .. 5 :
        LET passed == said \o Between(from, to)
        IN  \/ to = 5 /\ EnterReady(passed)
            \/ /\ to \in 1 .. 4
               /\ state' = Stages[to] /\ Emit(passed)
               /\ lost' = FALSE /\ UNCHANGED <<writes, misses, silent>>
            \/ /\ to \in {1, 2, 4} /\ Lose(passed \o FailReason(to))
               /\ UNCHANGED <<misses, silent>>
  BY DEF Advance
<1> DEFINE passed == said \o Between(from, to)
<1>2. /\ state \in States /\ lost \in BOOLEAN /\ writes \in BOOLEAN
      /\ misses \in 0 .. 2 /\ silent \in Nat
      /\ Stages[from] \in States /\ Stages[to] \in States
  BY StagesType DEF TypeOK
<1>3. Leads(passed, state, Stages[to])
  BY <1>2, BetweenLeads, LeadsConcat
<1> HIDE DEF passed
<1>4. CASE to = 5 /\ EnterReady(passed)
  <2>1. /\ state' = "Ready" /\ signals' = signals \o passed /\ inbound' = FALSE
        /\ misses' = 0 /\ silent' = 0 /\ lost' = FALSE /\ writes' = writes
    BY <1>4 DEF EnterReady, ResetMisses, Emit
  <2>2. Leads(passed, state, state')
    BY <1>3, <1>4, <2>1, StagesType
  <2>3. state' \in States /\ writes' \in BOOLEAN /\ ~lost'
    BY <1>2, <2>1, StagesType
  <2>4. WorkerStep
    BY <2>1, <2>2, <2>3 DEF WorkerStep
  <2> QED
    BY <2>1, <2>4
<1>5. CASE /\ to \in 1 .. 4 /\ state' = Stages[to] /\ Emit(passed)
           /\ lost' = FALSE /\ UNCHANGED <<writes, misses, silent>>
  <2>1. state' # "Ready"
    BY <1>5, StagesType
  <2> QED
    BY <1>2, <1>3, <1>5, <2>1 DEF Emit, WorkerStep
<1>6. CASE /\ to \in {1, 2, 4} /\ Lose(passed \o FailReason(to))
           /\ UNCHANGED <<misses, silent>>
  <2>1. Leads(FailReason(to), Stages[to], Stages[to])
    BY <1>2, LeadsSmall DEF FailReason
  <2>2. Leads(passed \o FailReason(to), state, Stages[to])
    BY <1>2, <1>3, <2>1, LeadsConcat
  <2>3. WorkerStep /\ state' = "Disconnected"
    BY <1>2, <1>6, <2>2, LoseStep
  <2> QED
    BY <1>2, <1>6, <2>3
<1> QED
  BY <1>1, <1>4, <1>5, <1>6 DEF passed

\* What every call of the worker leaves behind.
Worked ==
  /\ WorkerStep
  /\ accepted' \in BOOLEAN /\ expired' \in BOOLEAN
  /\ maintenance' \in BOOLEAN /\ inbound' \in BOOLEAN
  /\ misses' \in 0 .. 2 /\ silent' \in Nat
  /\ state' = "Ready" => misses' < 2
  /\ ConnectIsTimed => ConnectIsTimed'

LEMMA StartConnectWorks ==
  ASSUME Typing, startConnect
  PROVE  Worked
<1> DEFINE said == IF state = "ConnectingSocket" THEN <<>>
                   ELSE <<Changed("ConnectingSocket")>>
<1>1. TypeOK /\ state \in States /\ "ConnectingSocket" \in States
      /\ inbound \in BOOLEAN /\ 1 \in 1 .. 4
  BY StagesType DEF Typing, TypeOK, States, Connecting
<1>2. Leads(said, state, Stages[1])
  BY <1>1, LeadsSmall, StagesType
<1>3. Advance(1, said, FALSE)
  BY Zenon DEF startConnect
<1> HIDE DEF said
<1>4. /\ WorkerStep /\ misses' \in 0 .. 2 /\ silent' \in Nat
      /\ state' = "Ready" => misses' = 0 /\ inbound' = FALSE
  BY <1>1, <1>2, <1>3, AdvanceStep, Zenon
<1>5. /\ maintenance' = TRUE /\ accepted' = FALSE /\ expired' = FALSE
      /\ state' # "Ready" => UNCHANGED inbound
  BY DEF startConnect, ArmTimer
<1>6. inbound' \in BOOLEAN
  BY <1>1, <1>4, <1>5
<1>7. ConnectIsTimed'
  BY <1>5 DEF ConnectIsTimed
<1>8. state' = "Ready" => misses' < 2
  BY <1>4
<1> QED
  BY <1>4, <1>5, <1>6, <1>7, <1>8 DEF Worked

\* A call that leaves the timer on only in the connect phase, from which it came.
LEMMA TimerWorks ==
  ASSUME Typing, TimerStays, state' \in Connecting => state \in Connecting
  PROVE  maintenance' \in BOOLEAN /\ (ConnectIsTimed => ConnectIsTimed')
BY DEF Typing, TypeOK, TimerStays, ConnectIsTimed

LEMMA FlushWorks ==
  ASSUME Typing, FlushOrLose
  PROVE  WorkerStep /\ state' \in {state, "Disconnected"}
<1>1. TypeOK /\ state \in States /\ writes \in BOOLEAN
  BY DEF Typing, TypeOK
<1>2. CASE writes' \in {FALSE, writes} /\ UNCHANGED <<state, lost, signals>>
  BY <1>1, <1>2, SilentStep
<1>3. CASE Lose(<<>>)
  BY <1>1, <1>3, LoseStep, LeadsSmall
<1> QED
  BY <1>2, <1>3 DEF FlushOrLose

\* From a stage of the connect phase, on to a later one.
LEMMA AdvanceWorks ==
  ASSUME Typing, state \in Connecting, NEW approved,
         Advance(StageOf(state), <<>>, approved)
  PROVE  /\ WorkerStep /\ misses' \in 0 .. 2 /\ silent' \in Nat
         /\ state' = "Ready" => misses' = 0 /\ inbound' = FALSE
<1>1. TypeOK /\ state \in States
  BY DEF Typing, TypeOK
<1>2. StageOf(state) \in 1 .. 4 /\ Leads(<<>>, state, Stages[StageOf(state)])
  BY <1>1, StageOfType, LeadsSmall
<1> QED
  BY <1>1, <1>2, AdvanceStep

LEMMA AcceptHostKeyWorks ==
  ASSUME Typing, acceptHostKey
  PROVE  Worked
<1>1. /\ accepted' = TRUE /\ expired' = FALSE /\ TimerStays
      /\ TypeOK /\ state \in States /\ lost \in BOOLEAN /\ writes \in BOOLEAN
      /\ inbound \in BOOLEAN /\ misses \in 0 .. 2 /\ silent \in Nat
      /\ state = "Ready" => misses < 2
  BY DEF acceptHostKey, Typing, TypeOK
<1>2. CASE state \in Connecting
  <2>1. Advance(StageOf(state), <<>>, TRUE) /\ (state' # "Ready" => UNCHANGED inbound)
    BY <1>2 DEF acceptHostKey
  <2>2. /\ WorkerStep /\ misses' \in 0 .. 2 /\ silent' \in Nat
        /\ state' = "Ready" => misses' = 0 /\ inbound' = FALSE
    BY <1>2, <2>1, AdvanceWorks
  <2>3. maintenance' \in BOOLEAN /\ (ConnectIsTimed => ConnectIsTimed')
    BY <1>1, <1>2, TimerWorks
  <2>4. inbound' \in BOOLEAN
    BY <1>1, <2>1, <2>2
  <2>5. state' = "Ready" => misses' < 2
    BY <2>2
  <2> QED
    BY <1>1, <2>2, <2>3, <2>4, <2>5 DEF Worked
<1>3. CASE state \notin Connecting
  <2>1. /\ UNCHANGED <<inbound, misses, silent>>
        /\ IF state = "Ready" THEN FlushOrLose
           ELSE UNCHANGED <<state, lost, writes, signals>>
    BY <1>3 DEF acceptHostKey
  <2>2. WorkerStep /\ state' \in {state, "Disconnected"}
    BY <1>1, <2>1, FlushWorks, SilentStep
  <2>3. maintenance' \in BOOLEAN /\ (ConnectIsTimed => ConnectIsTimed')
    BY <1>1, <1>3, <2>2, TimerWorks, StagesType
  <2>4. state' = "Ready" => misses' < 2
    BY <1>1, <2>1, <2>2
  <2> QED
    BY <1>1, <2>1, <2>2, <2>3, <2>4 DEF Worked
<1> QED
  BY <1>2, <1>3

LEMMA RejectHostKeyWorks ==
  ASSUME Typing, rejectHostKey
  PROVE  Worked
<1>1. /\ UNCHANGED <<accepted, expired, inbound, misses, silent>>
      /\ accepted \in BOOLEAN /\ expired \in BOOLEAN /\ inbound \in BOOLEAN
      /\ misses \in 0 .. 2 /\ silent \in Nat /\ maintenance \in BOOLEAN
      /\ state = "Ready" => misses < 2
      /\ TypeOK /\ state \in States /\ writes \in BOOLEAN
  BY DEF rejectHostKey, Typing, TypeOK
<1>2. CASE lost
  <2>1. UNCHANGED <<state, lost, maintenance, writes, signals>>
    BY <1>2 DEF rejectHostKey
  <2>2. WorkerStep
    BY <1>1, <2>1, SilentStep
  <2>3. ConnectIsTimed => ConnectIsTimed'
    BY <2>1 DEF ConnectIsTimed
  <2> QED
    BY <1>1, <2>1, <2>2, <2>3 DEF Worked
<1>3. CASE ~lost
  <2> DEFINE q == (IF state = "Disconnected" THEN <<>> ELSE <<Changed("Disconnected")>>)
                  \o <<Event("lost")>>
  <2>1. /\ lost' = TRUE /\ state' = "Disconnected" /\ maintenance' = FALSE
        /\ writes' = FALSE /\ signals' = signals \o q
    BY <1>3 DEF rejectHostKey, Emit
  <2>2. Leads(q, state, "Disconnected")
    BY <1>1, StagesType, LeadsSmall, LeadsConcat
  <2> HIDE DEF q
  <2>3. WorkerStep
    BY <2>1, <2>2, StagesType DEF WorkerStep
  <2>4. ConnectIsTimed' /\ state' # "Ready"
    BY <2>1, StagesType DEF ConnectIsTimed
  <2> QED
    BY <1>1, <2>1, <2>3, <2>4 DEF Worked
<1> QED
  BY <1>2, <1>3

LEMMA RequestDisconnectWorks ==
  ASSUME Typing, requestDisconnect
  PROVE  Worked
<1> DEFINE q == IF state = "Disconnected" THEN <<>> ELSE <<Changed("Disconnected")>>
<1>1. /\ UNCHANGED <<accepted, expired, inbound, misses, silent>>
      /\ accepted \in BOOLEAN /\ expired \in BOOLEAN /\ inbound \in BOOLEAN
      /\ misses \in 0 .. 2 /\ silent \in Nat /\ lost \in BOOLEAN /\ state \in States
      /\ state' = "Disconnected" /\ maintenance' = FALSE /\ writes' = FALSE
      /\ UNCHANGED lost /\ signals' = signals \o q
  BY DEF requestDisconnect, Emit, Typing, TypeOK
<1>2. Leads(q, state, "Disconnected")
  BY <1>1, StagesType, LeadsSmall
<1> HIDE DEF q
<1>3. WorkerStep
  BY <1>1, <1>2, StagesType DEF WorkerStep
<1>4. ConnectIsTimed' /\ state' # "Ready"
  BY <1>1, StagesType DEF ConnectIsTimed
<1> QED
  BY <1>1, <1>3, <1>4 DEF Worked

LEMMA MaintenanceTickWorks ==
  ASSUME Typing, onMaintenanceTick
  PROVE  Worked
<1>1. /\ UNCHANGED <<accepted, expired>> /\ maintenance = TRUE
      /\ accepted \in BOOLEAN /\ expired \in BOOLEAN /\ inbound \in BOOLEAN
      /\ misses \in 0 .. 2 /\ silent \in Nat /\ lost \in BOOLEAN /\ state \in States
      /\ writes \in BOOLEAN /\ TypeOK /\ (state = "Ready" => misses < 2)
  BY DEF onMaintenanceTick, Typing, TypeOK
<1>2. CASE /\ state \in Timed /\ expired /\ Lose(<<>>)
           /\ maintenance' = FALSE /\ UNCHANGED <<inbound, misses, silent>>
  <2>1. WorkerStep /\ state' = "Disconnected"
    BY <1>1, <1>2, LeadsSmall, LoseStep
  <2>2. ConnectIsTimed' /\ state' # "Ready"
    BY <2>1, StagesType DEF ConnectIsTimed
  <2> QED
    BY <1>1, <1>2, <2>1, <2>2 DEF Worked
<1>3. CASE /\ state = "ConnectingSocket" /\ Advance(1, <<>>, accepted) /\ TimerStays
           /\ state' # "Ready" => UNCHANGED inbound
  <2>0. state \in Connecting /\ state = Stages[1] /\ 1 \in 1 .. 4
    BY <1>3, StagesType DEF Connecting
  <2>1. Leads(<<>>, state, Stages[1]) /\ 1 \in 1 .. 4 /\ state \in Connecting
    BY <1>1, <2>0, LeadsSmall
  <2>2. /\ WorkerStep /\ misses' \in 0 .. 2 /\ silent' \in Nat
        /\ state' = "Ready" => misses' = 0 /\ inbound' = FALSE
    BY <1>1, <1>3, <2>1, AdvanceStep, Zenon
  <2>3. maintenance' \in BOOLEAN /\ (ConnectIsTimed => ConnectIsTimed')
    BY <1>3, <2>1, TimerWorks
  <2>4. inbound' \in BOOLEAN
    BY <1>1, <1>3, <2>2
  <2>5. state' = "Ready" => misses' < 2
    BY <2>2
  <2> QED
    BY <1>1, <2>2, <2>3, <2>4, <2>5 DEF Worked
<1>4. CASE /\ state \notin Connecting /\ maintenance' = FALSE
           /\ UNCHANGED <<state, lost, signals, pulse>>
  <2>1. /\ UNCHANGED <<state, lost, signals>> /\ writes' \in BOOLEAN
        /\ UNCHANGED <<inbound, misses, silent>>
    BY <1>1, <1>4 DEF pulse
  <2>2. WorkerStep
    BY <1>1, <2>1, SilentStep
  <2>3. ConnectIsTimed'
    BY <1>4 DEF ConnectIsTimed
  <2> QED
    BY <1>1, <1>4, <2>1, <2>2, <2>3 DEF Worked
<1> QED
  BY <1>2, <1>3, <1>4 DEF onMaintenanceTick

LEMMA ReadableWorks ==
  ASSUME Typing, onReadable
  PROVE  Worked
<1>1. /\ UNCHANGED <<accepted, expired>> /\ TimerStays
      /\ accepted \in BOOLEAN /\ expired \in BOOLEAN /\ inbound \in BOOLEAN
      /\ misses \in 0 .. 2 /\ silent \in Nat /\ state \in States
      /\ TypeOK /\ (state = "Ready" => misses < 2)
      /\ state \in Connecting \union {"Ready"}
  BY DEF onReadable, Typing, TypeOK
<1>2. CASE state \in Connecting
  <2>1. Advance(StageOf(state), <<>>, accepted) /\ (state' # "Ready" => inbound' = TRUE)
    BY <1>2 DEF onReadable
  <2>2. /\ WorkerStep /\ misses' \in 0 .. 2 /\ silent' \in Nat
        /\ state' = "Ready" => misses' = 0 /\ inbound' = FALSE
    BY <1>2, <2>1, AdvanceWorks
  <2>3. maintenance' \in BOOLEAN /\ (ConnectIsTimed => ConnectIsTimed')
    BY <1>1, <1>2, TimerWorks
  <2>4. inbound' \in BOOLEAN
    BY <2>1, <2>2
  <2>5. state' = "Ready" => misses' < 2
    BY <2>2
  <2> QED
    BY <1>1, <2>2, <2>3, <2>4, <2>5 DEF Worked
<1>3. CASE state \notin Connecting
  <2>1. inbound' = TRUE /\ silent' = 0 /\ FlushOrLose /\ UNCHANGED misses
    BY <1>3 DEF onReadable
  <2>2. WorkerStep /\ state' \in {state, "Disconnected"}
    BY <2>1, FlushWorks
  <2>3. maintenance' \in BOOLEAN /\ (ConnectIsTimed => ConnectIsTimed')
    BY <1>1, <1>3, <2>2, TimerWorks, StagesType
  <2>4. state' = "Ready" => misses' < 2
    BY <1>1, <1>3, <2>1
  <2> QED
    BY <1>1, <2>1, <2>2, <2>3, <2>4 DEF Worked
<1> QED
  BY <1>2, <1>3

LEMMA ReadyCallWorks ==
  ASSUME Typing, onWritable \/ requestWrite
  PROVE  Worked
<1>1. /\ UNCHANGED <<accepted, expired, misses, silent>> /\ TimerStays
      /\ accepted \in BOOLEAN /\ expired \in BOOLEAN /\ inbound \in BOOLEAN
      /\ misses \in 0 .. 2 /\ silent \in Nat /\ state \in States
      /\ TypeOK /\ misses < 2 /\ state = "Ready" /\ inbound' \in BOOLEAN
  BY DEF onWritable, requestWrite, Typing, TypeOK
<1>2. WorkerStep /\ state' \in {state, "Disconnected"}
  <2>1. CASE FlushOrLose
    BY <2>1, FlushWorks
  <2>2. CASE writes' \in BOOLEAN /\ UNCHANGED <<state, lost, signals>>
    BY <1>1, <2>2, SilentStep
  <2>3. CASE Lose(<<>>)
    BY <1>1, <2>3, LoseStep, LeadsSmall
  <2> QED
    BY <2>1, <2>2, <2>3 DEF onWritable, requestWrite
<1>3. maintenance' \in BOOLEAN /\ (ConnectIsTimed => ConnectIsTimed')
  BY <1>1, <1>2, TimerWorks, StagesType
<1> QED
  BY <1>1, <1>2, <1>3 DEF Worked

LEMMA KeepaliveTickWorks ==
  ASSUME Typing, onKeepaliveTick
  PROVE  Worked
<1>1. /\ UNCHANGED <<accepted, expired>> /\ TimerStays
      /\ accepted \in BOOLEAN /\ expired \in BOOLEAN
      /\ misses \in 0 .. 1 /\ silent \in Nat /\ state \in States /\ MaxSilent \in Nat
      /\ TypeOK /\ state = "Ready" /\ inbound' = FALSE /\ writes \in BOOLEAN
  BY BoundAssumption DEF onKeepaliveTick, Typing, TypeOK
<1>2. misses' = Missed /\ Missed \in 0 .. 2 /\ silent' \in Nat
  BY <1>1 DEF onKeepaliveTick, Missed
<1>3. CASE Missed < 2 /\ UNCHANGED <<state, lost, signals, writes>>
  <2>1. WorkerStep /\ state' = "Ready"
    BY <1>1, <1>3, SilentStep
  <2>2. maintenance' \in BOOLEAN /\ (ConnectIsTimed => ConnectIsTimed')
    BY <1>1, <2>1, TimerWorks, StagesType
  <2> QED
    BY <1>1, <1>2, <1>3, <2>1, <2>2 DEF Worked
<1>4. CASE Lose(<<>>)
  <2>1. WorkerStep /\ state' = "Disconnected"
    BY <1>1, <1>4, LoseStep, LeadsSmall
  <2>2. maintenance' \in BOOLEAN /\ (ConnectIsTimed => ConnectIsTimed')
    BY <1>1, <2>1, TimerWorks, StagesType
  <2> QED
    BY <1>1, <1>2, <2>1, <2>2 DEF Worked
<1> QED
  BY <1>3, <1>4 DEF onKeepaliveTick

LEMMA DeadlineWorks ==
  ASSUME Typing, DeadlinePasses
  PROVE  Worked
<1>1. /\ UNCHANGED <<state, lost, signals, accepted, maintenance, inbound, misses, silent>>
      /\ writes' = writes /\ writes \in BOOLEAN /\ expired' = TRUE
      /\ TypeOK /\ accepted \in BOOLEAN /\ maintenance \in BOOLEAN /\ inbound \in BOOLEAN
      /\ misses \in 0 .. 2 /\ silent \in Nat /\ (state = "Ready" => misses < 2)
  BY DEF DeadlinePasses, pulse, Typing, TypeOK
<1>2. WorkerStep
  BY <1>1, SilentStep
<1>3. ConnectIsTimed => ConnectIsTimed'
  BY <1>1 DEF ConnectIsTimed
<1> QED
  BY <1>1, <1>2, <1>3 DEF Worked

-----------------------------------------------------------------------------
(* Steps                                                                   *)

WorkerNext == Take \/ DeadlinePasses \/ onMaintenanceTick
              \/ onReadable \/ onWritable \/ requestWrite \/ onKeepaliveTick

LEMMA WorkerNextWorks ==
  ASSUME Typing, WorkerNext
  PROVE  Worked /\ UNCHANGED ui /\ posted' \in Seq(Orders)
<1>1. posted \in Seq(Orders)
  BY DEF Typing, TypeOK
<1>2. CASE Take
  <2>1. posted' \in Seq(Orders) /\ UNCHANGED ui
    BY <1>1, <1>2, HeadTailProperties DEF Take
  <2>2. startConnect \/ acceptHostKey \/ rejectHostKey \/ requestDisconnect
    BY <1>2 DEF Take
  <2> QED
    BY <2>1, <2>2, StartConnectWorks, AcceptHostKeyWorks, RejectHostKeyWorks,
       RequestDisconnectWorks
<1>3. CASE DeadlinePasses
  BY <1>1, <1>3, DeadlineWorks DEF DeadlinePasses
<1>4. CASE onMaintenanceTick
  BY <1>1, <1>4, MaintenanceTickWorks DEF onMaintenanceTick
<1>5. CASE onReadable
  BY <1>1, <1>5, ReadableWorks DEF onReadable
<1>6. CASE onWritable \/ requestWrite
  BY <1>1, <1>6, ReadyCallWorks DEF onWritable, requestWrite
<1>7. CASE onKeepaliveTick
  BY <1>1, <1>7, KeepaliveTickWorks DEF onKeepaliveTick
<1> QED
  BY <1>2, <1>3, <1>4, <1>5, <1>6, <1>7 DEF WorkerNext

Heard == /\ page' \in {"Progress", "HostKey", "Error"}
         /\ result' \in {"open", "accepted", "rejected"}
         /\ overall' \in BOOLEAN /\ handled' \in BOOLEAN /\ known' \in BOOLEAN
         /\ attempts' \in Nat /\ posted' \in Seq(Orders)

DialogNext == clickAccept \/ clickReject \/ onCancel \/ dismiss \/ onRetry
              \/ onOverallTimeout

LEMMA DialogNextHeard ==
  ASSUME Typing, DialogNext
  PROVE  Heard /\ UNCHANGED <<seen, signals, link, pulse>>
<1>1. /\ page \in {"Progress", "HostKey", "Error"}
      /\ result \in {"open", "accepted", "rejected"}
      /\ overall \in BOOLEAN /\ handled \in BOOLEAN /\ known \in BOOLEAN
      /\ attempts \in Nat /\ posted \in Seq(Orders)
      /\ \A order \in Orders : Append(posted, order) \in Seq(Orders)
  BY AppendProperties DEF Typing, TypeOK
<1>2. Orders = {"connect", "accept", "reject", "disconnect"}
  BY DEF Orders
<1>3. CASE clickAccept
  BY <1>1, <1>2, <1>3 DEF clickAccept, Show, Post, Heard, Dialog
<1>4. CASE clickReject
  BY <1>1, <1>2, <1>4 DEF clickReject, Close, Post, Heard, Dialog
<1>5. CASE onCancel
  BY <1>1, <1>2, <1>5 DEF onCancel, Close, Post, Heard, Dialog
<1>6. CASE dismiss
  BY <1>1, <1>6 DEF dismiss, Close, Heard, Dialog
<1>7. CASE onRetry
  <2>1. /\ page' = "Progress" /\ overall' = TRUE /\ handled' = FALSE
        /\ attempts' = attempts + 1 /\ posted' = Append(posted, "connect")
        /\ UNCHANGED <<result, known>> /\ Dialog
    BY <1>7 DEF onRetry, Show, StartTimer, Post
  <2>2. attempts' \in Nat
    BY <1>1, <2>1
  <2>3. posted' \in Seq(Orders)
    BY <1>1, <1>2, <2>1
  <2>4. Heard
    BY <1>1, <2>1, <2>2, <2>3 DEF Heard
  <2> QED
    BY <2>1, <2>4 DEF Dialog
<1>8. CASE onOverallTimeout
  BY <1>1, <1>2, <1>8 DEF onOverallTimeout, Show, Post, Heard, Dialog
<1> QED
  BY <1>3, <1>4, <1>5, <1>6, <1>7, <1>8 DEF DialogNext

LEMMA DeliverHeard ==
  ASSUME Typing, Deliver
  PROVE  /\ Heard /\ signals # <<>> /\ signals' = Tail(signals)
         /\ seen' = IF Head(signals).what = "state" THEN Head(signals).state ELSE seen
         /\ UNCHANGED <<link, pulse>>
<1>1. /\ page \in {"Progress", "HostKey", "Error"}
      /\ result \in {"open", "accepted", "rejected"}
      /\ overall \in BOOLEAN /\ handled \in BOOLEAN /\ known \in BOOLEAN
      /\ attempts \in Nat /\ posted \in Seq(Orders)
      /\ Append(posted, "accept") \in Seq(Orders)
  BY AppendProperties DEF Typing, TypeOK, Orders
<1>2. signals # <<>> /\ signals' = Tail(signals) /\ UNCHANGED <<attempts, link, pulse>>
  BY DEF Deliver
<1> DEFINE s == Head(signals)
<1>3. CASE /\ s.what = "state" /\ Follow(s.state)
           /\ UNCHANGED <<page, result, overall, handled, known, posted>>
  BY <1>1, <1>2, <1>3 DEF Follow, Heard
<1>4. CASE s.what = "hostKey" /\ handleHostKey
  BY <1>1, <1>2, <1>4 DEF handleHostKey, onHostKey, Show, Post, Heard
<1>5. CASE s.what = "connected" /\ onConnected
  BY <1>1, <1>2, <1>5 DEF onConnected, Close, Heard
<1>6. CASE s.what \in {"lost", "authFailed"} /\ onError
  BY <1>1, <1>2, <1>6 DEF onError, Show, Heard
<1>7. CASE /\ s.what \in {"connected", "lost", "authFailed"}
           /\ UNCHANGED <<page, result, overall, handled, known, seen, posted>>
  BY <1>1, <1>2, <1>7 DEF Heard
<1> QED
  BY <1>3, <1>4, <1>5, <1>6, <1>7 DEF Deliver

\* What a step that is no stutter does, as the theorems need it.
LEMMA NextIs ==
  Next => WorkerNext \/ DialogNext \/ Deliver
BY DEF Next, WorkerNext, DialogNext

LEMMA TypingInit == Init => Typing
<1> SUFFICES ASSUME Init PROVE Typing
  OBVIOUS
<1>1. posted \in Seq(Orders) /\ signals \in Seq(Tidings)
  BY DEF Init, Orders
<1>2. seen \in States /\ state \in States /\ state # "Ready"
  BY StagesType DEF Init
<1>3. attempts \in Nat /\ misses \in 0 .. 2 /\ silent \in Nat /\ known \in BOOLEAN
  BY DEF Init
<1>4. /\ page \in {"Progress", "HostKey", "Error"} /\ result \in {"open", "accepted", "rejected"}
      /\ overall \in BOOLEAN /\ handled \in BOOLEAN /\ lost \in BOOLEAN
      /\ accepted \in BOOLEAN /\ expired \in BOOLEAN /\ maintenance \in BOOLEAN
      /\ writes \in BOOLEAN /\ inbound \in BOOLEAN /\ ~lost
  BY DEF Init
<1> QED
  BY <1>1, <1>2, <1>3, <1>4 DEF Typing, TypeOK

LEMMA TypingStep == Typing /\ [Next]_vars => Typing'
<1> SUFFICES ASSUME Typing, [Next]_vars PROVE Typing'
  OBVIOUS
<1>1. /\ seen \in States /\ signals \in Seq(Tidings)
      /\ state \in States /\ lost \in BOOLEAN /\ accepted \in BOOLEAN
      /\ expired \in BOOLEAN /\ maintenance \in BOOLEAN
      /\ writes \in BOOLEAN /\ inbound \in BOOLEAN
      /\ misses \in 0 .. 2 /\ silent \in Nat /\ (state = "Ready" => misses < 2)
      /\ lost => state = "Disconnected"
  BY DEF Typing, TypeOK
<1>2. CASE WorkerNext
  <2>1. Worked /\ UNCHANGED ui /\ posted' \in Seq(Orders)
    BY <1>2, WorkerNextWorks
  <2>2. PICK q : signals' = signals \o q /\ q \in Seq(Tidings)
    BY <2>1 DEF Worked, WorkerStep, Leads
  <2>3. signals' \in Seq(Tidings)
    BY <1>1, <2>2, ConcatProperties
  <2>4. /\ page' \in {"Progress", "HostKey", "Error"}
        /\ result' \in {"open", "accepted", "rejected"}
        /\ overall' \in BOOLEAN /\ handled' \in BOOLEAN /\ known' \in BOOLEAN
        /\ attempts' \in Nat /\ seen' \in States
    BY <2>1 DEF ui, Typing, TypeOK
  <2> QED
    BY <2>1, <2>3, <2>4 DEF Worked, WorkerStep, Typing, TypeOK
<1>3. CASE DialogNext
  BY <1>1, <1>3, DialogNextHeard DEF Heard, link, pulse, Typing, TypeOK
<1>4. CASE Deliver
  <2>1. /\ Heard /\ signals # <<>> /\ signals' = Tail(signals)
        /\ seen' = IF Head(signals).what = "state" THEN Head(signals).state ELSE seen
        /\ UNCHANGED <<link, pulse>>
    BY <1>4, DeliverHeard
  <2>2. Head(signals) \in Tidings /\ Tail(signals) \in Seq(Tidings)
    BY <1>1, <2>1, HeadTailProperties
  <2>3. seen' \in States
    BY <1>1, <2>1, <2>2, StagesType DEF Tidings
  <2> QED
    BY <1>1, <2>1, <2>2, <2>3 DEF Heard, link, pulse, Typing, TypeOK
<1>5. CASE UNCHANGED vars
  BY <1>5 DEF vars, ui, link, pulse, Typing, TypeOK
<1> QED
  BY <1>2, <1>3, <1>4, <1>5, NextIs

LEMMA TypingHolds == Spec => []Typing
BY TypingInit, TypingStep, PTL DEF Spec

\* The types; a session that is Ready has at most one miss, which is why a third
\* is never counted.
THEOREM TypeCorrect == Spec => []TypeOK
<1>1. Typing => TypeOK
  BY DEF Typing
<1> QED
  BY <1>1, TypingHolds, PTL

LEMMA FollowsStep == Typing /\ FacadeFollows /\ [Next]_vars => FacadeFollows'
<1> SUFFICES ASSUME Typing, FacadeFollows, [Next]_vars
             PROVE  Tells(signals', state') \/ (seen' = state' /\ Quiet(signals'))
  BY DEF FacadeFollows, Tells, Quiet
<1>1. /\ signals \in Seq(Tidings) /\ state \in States /\ seen \in States
      /\ Leads(signals, seen, state)
  BY DEF Typing, TypeOK, FacadeFollows, Leads
<1>2. CASE WorkerNext
  <2>1. Worked /\ UNCHANGED ui
    BY <1>2, WorkerNextWorks
  <2>2. PICK q : signals' = signals \o q /\ Leads(q, state, state')
    BY <2>1 DEF Worked, WorkerStep
  <2>3. seen' = seen /\ state' \in States
    BY <2>1 DEF Worked, WorkerStep, ui
  <2>4. Leads(signals', seen, state')
    BY <1>1, <2>2, <2>3, LeadsConcat
  <2> QED
    BY <2>3, <2>4 DEF Leads
<1>3. CASE DialogNext
  <2>1. UNCHANGED <<seen, signals, state>>
    BY <1>3, DialogNextHeard DEF link
  <2> QED
    BY <1>1, <2>1 DEF Leads
<1>4. CASE Deliver
  <2>1. /\ signals # <<>> /\ signals' = Tail(signals) /\ state' = state
        /\ seen' = IF Head(signals).what = "state" THEN Head(signals).state ELSE seen
    BY <1>4, DeliverHeard DEF link
  <2>2. CASE Quiet(signals) /\ state = seen
    <3>1. Quiet(Tail(signals)) /\ Head(signals).what # "state"
      BY <1>1, <2>1, <2>2, TailTells
    <3> QED
      BY <2>1, <2>2, <3>1
  <2>3. CASE Tells(Tail(signals), state)
    BY <2>1, <2>3
  <2>4. CASE Quiet(Tail(signals)) /\ Head(signals) = Changed(state)
    BY <1>1, <2>1, <2>4, TidingsType
  <2> QED
    BY <1>1, <2>1, <2>2, <2>3, <2>4, TailTells DEF Leads
<1>5. CASE UNCHANGED vars
  BY <1>1, <1>5 DEF vars, ui, link, Leads
<1> QED
  BY <1>2, <1>3, <1>4, <1>5, NextIs

\* Once the signals on the way are delivered, the facade's state is the worker's.
THEOREM FacadeCorrect == Spec => []FacadeFollows
<1>1. Init => FacadeFollows
  BY DEF Init, FacadeFollows, Quiet
<1> QED
  BY <1>1, FollowsStep, TypingHolds, PTL DEF Spec

LEMMA TimedStep == Typing /\ ConnectIsTimed /\ [Next]_vars => ConnectIsTimed'
<1> SUFFICES ASSUME Typing, ConnectIsTimed, [Next]_vars PROVE ConnectIsTimed'
  OBVIOUS
<1>1. CASE WorkerNext
  BY <1>1, WorkerNextWorks DEF Worked
<1>2. CASE DialogNext \/ Deliver \/ UNCHANGED vars
  <2>1. UNCHANGED link
    BY <1>2, DialogNextHeard, DeliverHeard DEF vars
  <2> QED
    BY <2>1 DEF link, ConnectIsTimed
<1> QED
  BY <1>1, <1>2, NextIs

\* No connect phase, of whatever attempt, is left without the timer that ends it.
THEOREM TimedCorrect == Spec => []ConnectIsTimed
<1>1. Init => ConnectIsTimed
  BY StagesType DEF Init, ConnectIsTimed
<1> QED
  BY <1>1, TimedStep, TypingHolds, PTL DEF Spec

-----------------------------------------------------------------------------
(* The keepalive                                                           *)

\* A session with a miss on its account that has not been heard since the last
\* tick has been silent for as many ticks.
MissesAreSilence ==
  state = "Ready" /\ ~inbound => misses <= silent \/ (misses <= 2 /\ silent >= 2)

\* A call of the worker but the keepalive's tick: it begins a session without
\* misses, leaves no session, or leaves the misses of one it finds, and then either
\* it has heard the server or it leaves the account alone.
Spared ==
  \/ misses' = 0
  \/ misses' = misses /\ state' # "Ready"
  \/ /\ misses' = misses /\ state = "Ready"
     /\ inbound' \/ (inbound' = inbound /\ silent' = silent)

LEMMA AdvanceSpares ==
  ASSUME NEW from \in 1 .. 4, NEW said, NEW approved, Advance(from, said, approved)
  PROVE  Spared
<1>1. PICK to \in from .. 5 :
        \/ to = 5 /\ misses' = 0
        \/ to \in 1 .. 4 /\ state' = Stages[to] /\ UNCHANGED misses
        \/ state' = "Disconnected" /\ UNCHANGED misses
  BY DEF Advance, EnterReady, ResetMisses, Lose
<1> QED
  BY <1>1, StagesType DEF Spared

LEMMA WorkerSpares ==
  ASSUME Typing, WorkerNext
  PROVE  Spared \/ onKeepaliveTick
<1>1. state \in States /\ 1 \in 1 .. 4 /\ (state \in Connecting => StageOf(state) \in 1 .. 4)
  BY StageOfType DEF Typing, TypeOK
<1>2. ASSUME FlushOrLose \/ Lose(<<>>) \/ UNCHANGED state,
             UNCHANGED misses, inbound' \/ UNCHANGED <<inbound, silent>>
      PROVE  Spared
  BY <1>2 DEF Spared, FlushOrLose, Lose
<1>3. CASE Take
  <2>1. CASE startConnect
    BY <1>1, <2>1, AdvanceSpares DEF startConnect
  <2>2. CASE acceptHostKey
    <3>1. CASE state \in Connecting
      BY <1>1, <2>2, <3>1, AdvanceSpares DEF acceptHostKey
    <3>2. CASE state \notin Connecting
      <4>1. /\ UNCHANGED <<inbound, misses, silent>>
            /\ FlushOrLose \/ UNCHANGED state
        BY <2>2, <3>2 DEF acceptHostKey
      <4> QED
        BY <1>2, <4>1
    <3> QED
      BY <3>1, <3>2
  <2>3. CASE rejectHostKey \/ requestDisconnect
    BY <2>3 DEF rejectHostKey, requestDisconnect, Spared
  <2> QED
    BY <1>3, <2>1, <2>2, <2>3 DEF Take
<1>4. CASE DeadlinePasses
  BY <1>2, <1>4 DEF DeadlinePasses, pulse
<1>5. CASE onMaintenanceTick
  <2>1. CASE Lose(<<>>) /\ UNCHANGED <<inbound, misses, silent>>
    BY <1>2, <2>1
  <2>2. CASE Advance(1, <<>>, accepted)
    BY <1>1, <2>2, AdvanceSpares
  <2>3. CASE UNCHANGED <<state, lost, signals, pulse>>
    BY <1>2, <2>3 DEF pulse
  <2> QED
    BY <1>5, <2>1, <2>2, <2>3 DEF onMaintenanceTick
<1>6. CASE onReadable
  <2>1. CASE state \in Connecting
    BY <1>1, <1>6, <2>1, AdvanceSpares DEF onReadable
  <2>2. CASE state \notin Connecting
    <3>1. inbound' /\ FlushOrLose /\ UNCHANGED misses
      BY <1>6, <2>2 DEF onReadable
    <3> QED
      BY <1>2, <3>1
  <2> QED
    BY <2>1, <2>2
<1>7. CASE onWritable
  <2>1. inbound' /\ FlushOrLose /\ UNCHANGED misses
    BY <1>7 DEF onWritable
  <2> QED
    BY <1>2, <2>1
<1>8. CASE requestWrite
  <2>1. /\ UNCHANGED state \/ Lose(<<>>)
        /\ UNCHANGED <<inbound, misses, silent>>
    BY <1>8 DEF requestWrite
  <2> QED
    BY <1>2, <2>1
<1> QED
  BY <1>3, <1>4, <1>5, <1>6, <1>7, <1>8 DEF WorkerNext

\* A tick counts a miss where it counts a tick of silence.
LEMMA TickCounts ==
  ASSUME Typing, MaxSilent >= 2, MissesAreSilence, onKeepaliveTick
  PROVE  /\ MissesAreSilence'
         /\ misses' >= 2 => silent' >= 2
<1>1. /\ state = "Ready" /\ inbound \in BOOLEAN /\ silent \in Nat
      /\ misses \in 0 .. 1 /\ MaxSilent \in Nat
  BY BoundAssumption DEF Typing, TypeOK, onKeepaliveTick
<1>2. /\ misses' = IF inbound THEN 0 ELSE misses + 1
      /\ silent' = IF silent < MaxSilent THEN silent + 1 ELSE silent
  BY DEF onKeepaliveTick, Missed
<1>3. CASE inbound
  BY <1>1, <1>2, <1>3 DEF MissesAreSilence
<1>4. CASE ~inbound
  BY <1>1, <1>2, <1>4 DEF MissesAreSilence
<1> QED
  BY <1>1, <1>3, <1>4

LEMMA KeepaliveStep ==
  ASSUME MaxSilent >= 2, Typing, MissesAreSilence, [Next]_vars
  PROVE  /\ MissesAreSilence'
         /\ misses' >= 2 /\ misses' # misses => silent' >= 2
<1>1. /\ misses \in 0 .. 2 /\ silent \in Nat /\ inbound \in BOOLEAN
      /\ misses' \in 0 .. 2 /\ silent' \in Nat /\ inbound' \in BOOLEAN
  BY TypingStep DEF Typing, TypeOK
<1>2. CASE WorkerNext
  <2>1. CASE Spared
    BY <1>1, <2>1 DEF Spared, MissesAreSilence
  <2>2. CASE onKeepaliveTick
    BY <2>2, TickCounts
  <2> QED
    BY <1>2, <2>1, <2>2, WorkerSpares
<1>3. CASE DialogNext \/ Deliver \/ UNCHANGED vars
  <2>1. UNCHANGED <<link, pulse>>
    BY <1>3, DialogNextHeard, DeliverHeard DEF vars
  <2> QED
    BY <1>1, <2>1 DEF link, pulse, MissesAreSilence
<1> QED
  BY <1>2, <1>3, NextIs

\* The keepalive gives a connection up only after two ticks in which the server
\* was silent, whatever is written, retried or disconnected in between.
THEOREM SilenceCorrect == MaxSilent >= 2 /\ Spec => LostOnlyInSilence
<1> SUFFICES ASSUME MaxSilent >= 2 PROVE Spec => LostOnlyInSilence
  OBVIOUS
<1>1. Init => MissesAreSilence
  BY DEF Init, MissesAreSilence
<1>2. Typing /\ MissesAreSilence /\ [Next]_vars
        => MissesAreSilence' /\ [misses' >= 2 /\ misses' # misses => silent' >= 2]_vars
  BY KeepaliveStep
<1> QED
  BY <1>1, <1>2, TypingHolds, PTL DEF Spec, LostOnlyInSilence
=============================================================================
