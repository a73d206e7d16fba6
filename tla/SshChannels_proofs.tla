------------------------- MODULE SshChannels_proofs -------------------------
(***************************************************************************)
(* Theorems about SshChannels, for every set of ids and every cap.         *)
(***************************************************************************)
EXTENDS SshChannels, SequenceFacts

-----------------------------------------------------------------------------
(* Type correctness                                                        *)

LEMMA FrameType == \A c \in Calls : Frame(c) \in Frames
BY DEF Frame, Frames

LEMMA TodoType ==
  ASSUME todo \in Seq(Frames)
  PROVE  /\ todo # <<>> => Tail(todo) \in Seq(Frames) /\ Head(todo) \in Frames
         /\ PumpBody \in Seq(Frames)
         /\ AfterFinish \in Seq(Frames)
         /\ AfterCancel \in Seq(Frames)
BY FrameType, HeadTailProperties DEF PumpBody, AfterFinish, AfterCancel, Calls

LEMMA VisitType ==
  ASSUME todo \in Seq(Frames), todo # <<>>, NEW p, NEW i \in Nat
  PROVE  AfterVisit(p) \in Seq(Frames) /\ Proceed(i) \in Seq(Frames)
<1>1. Head(todo) \in Frames /\ Tail(todo) \in Seq(Frames)
  BY HeadTailProperties
<1>2. [Head(todo) EXCEPT !.left = @ \ {p}] \in Frames
  BY <1>1 DEF Frames
<1>3. [Head(todo) EXCEPT !.at = i] \in Frames
  BY <1>1 DEF Frames
<1> QED
  BY <1>1, <1>2, <1>3 DEF AfterVisit, Proceed

LEMMA Kinds == /\ Shorts \subseteq Execs /\ Longs \subseteq Execs
               /\ Longs \subseteq LongKind /\ Ptys \subseteq LongKind
               /\ LongKind \subseteq Ids /\ Execs \subseteq Ids /\ Ptys \subseteq Ids
               /\ Ids = Shorts \union LongKind
BY DEF Ids, LongKind, Execs

LEMMA HeadOfQueue ==
  ASSUME NEW S, NEW q \in Seq(S), q # <<>>
  PROVE  Head(q) \in S /\ Contains(q, Head(q))
<1>1. 1 \in 1 .. Len(q) /\ Head(q) = q[1]
  BY EmptySeq, LenProperties, HeadTailProperties
<1> QED
  BY <1>1, ElementOfSeq DEF Contains

LEMMA SignalType ==
  ASSUME answers \in [Ids -> Seq(Signals)], NEW id \in Ids, NEW signal \in Signals
  PROVE  /\ Append(answers[id], signal) \in Seq(Signals)
         /\ Told(id, signal) \in [Ids -> Seq(Signals)]
         /\ Ending(id) \in Signals
<1>1. Append(answers[id], signal) \in Seq(Signals)
  BY AppendProperties
<1> QED
  BY <1>1 DEF Told, Ending, Signals

\* Every step keeps every variable in its type.
LEMMA TypeStep == TypeOK /\ [Next]_vars => TypeOK'
<1> SUFFICES ASSUME TypeOK, [Next]_vars PROVE TypeOK'
  OBVIOUS
<1> USE DEF TypeOK
<1>a. /\ \A c \in Calls : Frame(c) \in Frames /\ <<Frame(c)>> \in Seq(Frames)
      /\ PumpBody \in Seq(Frames)
      /\ AfterFinish \in Seq(Frames)
      /\ AfterCancel \in Seq(Frames)
      /\ todo # <<>> => Tail(todo) \in Seq(Frames)
  BY FrameType, TodoType
<1>drop. ASSUME NEW S, DropAll(S), S \subseteq Ids
         PROVE  /\ phase' \in [Ids -> Phases] /\ answers' \in [Ids -> Seq(Signals)]
                /\ retry' \in [Ids -> {"none", "waiting", "due"}]
  <2>1. \A id \in Ids : Append(answers[id], Ending(id)) \in Seq(Signals)
    <3> TAKE id \in Ids
    <3>1. Ending(id) \in Signals
      BY DEF Ending, Signals
    <3> QED
      BY <3>1, SignalType
  <2> QED
    BY <1>drop, <2>1 DEF DropAll, Dropped, Phases
<1>lost. ASSUME EnterConnectionLost
         PROVE  /\ state' \in States /\ lost' \in BOOLEAN
                /\ phase' \in [Ids -> Phases] /\ answers' \in [Ids -> Seq(Signals)]
                /\ retry' \in [Ids -> {"none", "waiting", "due"}]
                /\ execOps' \in Seq(Execs) /\ shortQueue' \in Seq(Shorts)
                /\ longQueue' \in Seq(LongKind)
                /\ sftp' \in SUBSET Lanes /\ closing' \in SUBSET Ids
                /\ todo' \in Seq(Frames)
  BY <1>lost, <1>drop DEF EnterConnectionLost, ClearQueues, States
<1>lose. ASSUME Lose PROVE TypeOK'
  BY <1>lose, <1>lost DEF Lose
<1>finish. ASSUME NEW p \in Ptys, NEW h \in Seq(Signals), NEW o \in BOOLEAN,
                  NEW rest \in Seq(Frames), FinishChannel(p, h, o, rest)
           PROVE  TypeOK'
  <2>1. RemoveFirst(longQueue, p) \in Seq(LongKind)
    BY RemoveFirstType
  <2>2. AfterFinish \o rest \in Seq(Frames)
    BY <1>a, ConcatProperties
  <2>3. p \in Ids
    BY Kinds
  <2>4. Append(h, "closed") \in Seq(Signals)
    BY AppendProperties DEF Signals
  <2>5. /\ phase' \in [Ids -> Phases] /\ answers' \in [Ids -> Seq(Signals)]
        /\ retry' \in [Ids -> {"none", "waiting", "due"}]
    BY <1>finish, <2>3, <2>4 DEF FinishChannel, Phases
  <2>6. longQueue' \in Seq(LongKind) /\ todo' \in Seq(Frames)
    BY <1>finish, <2>1, <2>2 DEF FinishChannel
  <2> QED
    BY <1>finish, <2>3, <2>5, <2>6 DEF FinishChannel, CloseTransport
<1>1. CASE Event
  <2>1. CASE StartConnect
    BY <2>1, <1>lost DEF StartConnect, States
  <2>2. CASE RequestDisconnect
    <3>1. DropAll(Execs) /\ Execs \subseteq Ids
      BY <2>2, Kinds DEF RequestDisconnect
    <3>2. /\ phase' \in [Ids -> Phases] /\ answers' \in [Ids -> Seq(Signals)]
          /\ retry' \in [Ids -> {"none", "waiting", "due"}]
      BY <3>1, <1>drop
    <3>3. /\ state' \in States /\ lost' \in BOOLEAN /\ maintenance' \in BOOLEAN
          /\ sftp' \in SUBSET Lanes /\ closing' \in SUBSET Ids
          /\ todo' \in Seq(Frames)
      BY <2>2 DEF RequestDisconnect, States
    <3>4. /\ execOps' \in Seq(Execs) /\ shortQueue' \in Seq(Shorts)
          /\ longQueue' \in Seq(LongKind)
      BY <2>2 DEF RequestDisconnect, ClearQueues
    <3> QED
      BY <3>2, <3>3, <3>4
  <2>3. ASSUME NEW p \in Ptys, RequestOpenChannel(p) PROVE TypeOK'
    <3>1. /\ p \in Ids /\ p \in LongKind /\ <<Frame("pump")>> \in Seq(Frames)
          /\ Append(longQueue, p) \in Seq(LongKind)
      BY <1>a, Kinds, AppendProperties DEF Calls
    <3>2. phase' \in [Ids -> Phases] /\ answers' \in [Ids -> Seq(Signals)]
      <4>1. \/ phase' = [phase EXCEPT ![p] = "Gone"]
            \/ phase' = [phase EXCEPT ![p] = "Queued"]
        BY <2>3 DEF RequestOpenChannel
      <4>2. answers' = answers \/ answers' = Told(p, "openFailed")
        BY <2>3 DEF RequestOpenChannel
      <4>3. "openFailed" \in Signals
        BY DEF Signals
      <4>4. phase' \in [Ids -> Phases]
        BY <3>1, <4>1 DEF Phases
      <4>5. answers' \in [Ids -> Seq(Signals)]
        BY <3>1, <4>2, <4>3, SignalType
      <4> QED
        BY <4>4, <4>5
    <3>3. longQueue' \in Seq(LongKind) /\ todo' \in Seq(Frames)
      BY <2>3, <3>1 DEF RequestOpenChannel, Refused
    <3>4. /\ state' \in States /\ lost' \in BOOLEAN /\ maintenance' \in BOOLEAN
          /\ execOps' \in Seq(Execs) /\ shortQueue' \in Seq(Shorts)
          /\ retry' \in [Ids -> {"none", "waiting", "due"}]
          /\ sftp' \in SUBSET Lanes /\ closing' \in SUBSET Ids
      BY <2>3 DEF RequestOpenChannel
    <3> QED
      BY <3>2, <3>3, <3>4
  <2>4. ASSUME NEW p \in Ptys, RequestCloseChannel(p) PROVE TypeOK'
    <3>1. /\ HasTransport(p) \in BOOLEAN /\ <<>> \in Seq(Frames)
          /\ answers[p] \in Seq(Signals)
      BY Kinds DEF HasTransport
    <3> QED
      BY <2>4, <3>1, <1>finish DEF RequestCloseChannel
  <2>5. ASSUME NEW p \in Ptys, RequestWrite(p) PROVE TypeOK'
    BY <2>5, <1>a DEF RequestWrite, Start, Calls
  <2>6. ASSUME NEW x \in Execs, RequestExec(x) PROVE TypeOK'
    <3>1. x \in Ids
      BY Kinds
    <3>2. phase' \in [Ids -> Phases] /\ answers' \in [Ids -> Seq(Signals)]
      <4>1. \/ phase' = [phase EXCEPT ![x] = "Gone"]
            \/ phase' = [phase EXCEPT ![x] = "Queued"]
        BY <2>6 DEF RequestExec, JoinShort, JoinLong
      <4>2. answers' = answers \/ answers' = Told(x, "done")
        BY <2>6 DEF RequestExec, JoinShort, JoinLong
      <4>3. phase \in [Ids -> Phases] /\ answers \in [Ids -> Seq(Signals)]
        OBVIOUS
      <4>4. "done" \in Signals
        BY DEF Signals
      <4> HIDE DEF TypeOK
      <4> QED
        BY <3>1, <4>1, <4>2, <4>3, <4>4, SignalType DEF Phases
    <3>3. <<Frame("admit"), Frame("exec")>> \in Seq(Frames) /\ <<>> \in Seq(Frames)
      BY <1>a DEF Calls
    <3>4. todo' \in Seq(Frames)
      BY <2>6, <3>3 DEF RequestExec, JoinShort, JoinLong, Refused
    <3>5. execOps' \in Seq(Execs)
      <4>1. execOps' = execOps \/ execOps' = Append(execOps, x)
        BY <2>6 DEF RequestExec, JoinShort, JoinLong
      <4>2. execOps \in Seq(Execs)
        OBVIOUS
      <4> HIDE DEF TypeOK
      <4> QED
        BY <4>1, <4>2, AppendProperties
    <3>6. shortQueue' \in Seq(Shorts)
      <4>1. \/ shortQueue' = shortQueue
            \/ x \in Shorts /\ shortQueue' = Append(shortQueue, x)
        BY <2>6 DEF RequestExec, JoinShort, JoinLong
      <4>2. shortQueue \in Seq(Shorts)
        OBVIOUS
      <4> HIDE DEF TypeOK
      <4> QED
        BY <4>1, <4>2, AppendProperties
    <3>7. longQueue' \in Seq(LongKind)
      <4>1. \/ longQueue' = longQueue
            \/ x \in Longs /\ longQueue' = Append(longQueue, x)
        BY <2>6 DEF RequestExec, JoinShort, JoinLong
      <4>2. longQueue \in Seq(LongKind)
        OBVIOUS
      <4> HIDE DEF TypeOK
      <4> QED
        BY <4>1, <4>2, AppendProperties, Kinds
    <3>8. /\ state' \in States /\ lost' \in BOOLEAN /\ maintenance' \in BOOLEAN
          /\ retry' \in [Ids -> {"none", "waiting", "due"}]
          /\ sftp' \in SUBSET Lanes /\ closing' \in SUBSET Ids
      BY <2>6 DEF RequestExec, JoinShort, JoinLong
    <3> QED
      BY <3>2, <3>4, <3>5, <3>6, <3>7, <3>8
  <2>7. ASSUME NEW e \in Execs, RequestExecCancel(e) PROVE TypeOK'
    <3>1. /\ RemoveFirst(execOps, e) \in Seq(Execs)
          /\ RemoveFirst(shortQueue, e) \in Seq(Shorts)
          /\ RemoveFirst(longQueue, e) \in Seq(LongKind)
      BY RemoveFirstType
    <3> QED
      BY <2>7, <3>1, <1>a, Kinds
      DEF RequestExecCancel, CloseTransport, Phases
  <2>8. ASSUME NEW e \in Execs, RequestExecWrite(e) PROVE TypeOK'
    BY <2>8, <1>a DEF RequestExecWrite, Start, Calls
  <2>9. CASE RequestSftp \/ RequestSftpCancelBulk
    BY <2>9, <1>a DEF RequestSftp, RequestSftpCancelBulk, Start, Calls
  <2>10. CASE MaintenanceTick
    <3>1. <<Frame("setup"), Frame("exec"), Frame("tickEnd")>> \in Seq(Frames)
      BY <1>a DEF Calls
    <3> QED
      BY <2>10, <3>1, <1>a, <1>lose DEF MaintenanceTick, Calls
  <2>11. CASE KeepaliveLost \/ RejectHostKey
    BY <2>11, <1>lose DEF KeepaliveLost, RejectHostKey
  <2>12. CASE SocketActivity
    <3>1. <<Frame("pump"), Frame("sftp"), Frame("exec")>> \in Seq(Frames)
      BY <1>a DEF Calls
    <3> QED
      BY <2>12, <3>1 DEF SocketActivity, Start
  <2>13. CASE AcceptHostKey
    BY <2>13, <1>a DEF AcceptHostKey, Start, Calls
  <2> QED
    BY <1>1, <2>1, <2>2, <2>3, <2>4, <2>5, <2>6, <2>7, <2>8, <2>9, <2>10,
       <2>11, <2>12, <2>13 DEF Event
<1>2. CASE WorkerStep
  <2> SUFFICES ASSUME todo # <<>> PROVE TypeOK'
    BY <1>2 DEF WorkerStep, PumpReturns, PumpConnects, PumpLoses, PumpReady,
       AdmitShort, AdmitLong, AdmitDone, SetupStart, SetupDone, SetupAdvance,
       SetupBusy, SetupError, ReadStart, ReadDone, ReadEof, ReadError, FlushDone,
       WriteError, ExecAdvance, ExecBusy, ExecDone, ExecReturns, ServiceSftp,
       PumpCloses, ArmForCloses, TickEnd, ServesExec, Running
  <2>a. Tail(todo) \in Seq(Frames) /\ Head(todo) \in Frames
    BY TodoType
  <2>b. \A p : AfterVisit(p) \in Seq(Frames)
    BY VisitType
  <2>c. \A i \in Nat : Proceed(i) \in Seq(Frames)
    BY VisitType
  <2>1. CASE PumpReturns \/ PumpConnects \/ PumpReady
    <3>1. PumpBody \o Tail(todo) \in Seq(Frames)
      BY <1>a, <2>a, ConcatProperties
    <3> QED
      BY <2>1, <2>a, <3>1 DEF PumpReturns, PumpConnects, PumpReady, Return, States
  <2>2. CASE PumpLoses \/ WriteError
    BY <2>2, <1>lose DEF PumpLoses, WriteError
  <2>3. CASE AdmitShort
    BY <2>3, HeadTailProperties, Kinds
    DEF AdmitShort, ShortAdmissible, Promote, Phases
  <2>4. CASE AdmitLong
    BY <2>4, HeadTailProperties, Kinds
    DEF AdmitLong, LongAdmissible, Promote, Phases
  <2>5. CASE AdmitDone \/ SetupDone \/ ReadDone \/ FlushDone \/ ExecReturns
    BY <2>5, <2>a DEF AdmitDone, SetupDone, ReadDone, FlushDone, ExecReturns, Return
  <2>6. CASE SetupStart
    <3>1. [Frame("setupLoop") EXCEPT !.left = {p \in Ptys : phase[p] \in Known}] \in Frames
      BY DEF Frame, Frames, Calls
    <3> QED
      BY <2>6, <2>a, <3>1, ConcatProperties DEF SetupStart
  <2>7. CASE ReadStart
    <3>1. [Frame("readLoop") EXCEPT !.left = {p \in Ptys : phase[p] = "Open"}] \in Frames
      BY DEF Frame, Frames, Calls
    <3> QED
      BY <2>7, <2>a, <3>1, ConcatProperties DEF ReadStart
  <2>8. ASSUME NEW p \in Ptys, SetupAdvance(p) PROVE TypeOK'
    <3>1. p \in Ids /\ "opened" \in Signals
      BY Kinds DEF Signals
    <3>2. Told(p, "opened") \in [Ids -> Seq(Signals)]
      BY <3>1, SignalType
    <3>3. answers' \in [Ids -> Seq(Signals)]
      BY <2>8, <3>2 DEF SetupAdvance
    <3> QED
      BY <2>8, <2>b, <3>1, <3>3 DEF SetupAdvance, Onward, Phases
  <2>9. ASSUME NEW p \in Ptys, SetupBusy(p) PROVE TypeOK'
    BY <2>9, <2>b, Kinds DEF SetupBusy
  <2>10. ASSUME NEW p \in Ptys, SetupError(p) \/ ReadEof(p) PROVE TypeOK'
    <3>1. p \in Ids /\ "openFailed" \in Signals
      BY Kinds DEF Signals
    <3>2. answers[p] \in Seq(Signals) /\ Append(answers[p], "openFailed") \in Seq(Signals)
      BY <3>1, SignalType
    <3> QED
      BY <2>10, <2>b, <3>2, <1>finish DEF SetupError, ReadEof
  <2>11. ASSUME NEW p \in Ptys, ReadError(p) PROVE TypeOK'
    BY <2>11, <1>lose DEF ReadError
  <2>12. ASSUME NEW i \in 1 .. Len(execOps), ExecAdvance(i) PROVE TypeOK'
    <3>1. execOps[i] \in Ids
      BY ElementOfSeq, Kinds
    <3>2. Proceed(i + 1) \in Seq(Frames)
      BY <2>c
    <3>3. Onward(execOps[i]) \subseteq Phases
      BY <3>1 DEF Onward, Phases
    <3> QED
      BY <2>12, <3>1, <3>2, <3>3 DEF ExecAdvance
  <2>13. ASSUME NEW i \in 1 .. Len(execOps), ExecBusy(i) PROVE TypeOK'
    <3>1. execOps[i] \in Ids
      BY ElementOfSeq, Kinds
    <3>2. Proceed(i + 1) \in Seq(Frames)
      BY <2>c
    <3> QED
      BY <2>13, <3>1, <3>2 DEF ExecBusy
  <2>14. ASSUME NEW i \in 1 .. Len(execOps), ExecDone(i) PROVE TypeOK'
    <3>1. RemoveAt(execOps, i) \in Seq(Execs)
      BY RemoveAtShape
    <3>2. <<Frame("admit")>> \o Proceed(i) \in Seq(Frames)
      <4>1. <<Frame("admit")>> \in Seq(Frames) /\ Proceed(i) \in Seq(Frames)
        BY <1>a, <2>c DEF Calls
      <4> HIDE DEF TypeOK
      <4> QED
        BY <4>1, ConcatProperties
    <3>3. execOps[i] \in Ids
      BY ElementOfSeq, Kinds
    <3> QED
      <4>a. "done" \in Signals
        BY DEF Signals
      <4>b. Told(execOps[i], "done") \in [Ids -> Seq(Signals)]
        BY <4>a, <3>3, SignalType
      <4>1. closing' \in SUBSET Ids /\ answers' \in [Ids -> Seq(Signals)]
        BY <2>14, <3>3, <4>b DEF ExecDone, CloseTransport
      <4>2. /\ phase' \in [Ids -> Phases]
            /\ retry' \in [Ids -> {"none", "waiting", "due"}]
        BY <2>14, <3>3 DEF ExecDone, Phases
      <4>3. execOps' \in Seq(Execs) /\ todo' \in Seq(Frames)
        BY <2>14, <3>1, <3>2 DEF ExecDone
      <4>4. UNCHANGED <<state, lost, shortQueue, longQueue, sftp, maintenance>>
        BY <2>14 DEF ExecDone
      <4> QED
        BY <4>1, <4>2, <4>3, <4>4
  <2>15. CASE ServiceSftp \/ PumpCloses \/ ArmForCloses \/ TickEnd
    BY <2>15, <2>a DEF ServiceSftp, PumpCloses, ArmForCloses, TickEnd, Return
  <2> QED
    BY <1>2, <2>1, <2>2, <2>3, <2>4, <2>5, <2>6, <2>7, <2>8, <2>9, <2>10,
       <2>11, <2>12, <2>13, <2>14, <2>15 DEF WorkerStep
<1>3. ASSUME NEW id \in Ids, BackoffElapses(id) PROVE TypeOK'
  BY <1>3 DEF BackoffElapses
<1>4. CASE UNCHANGED vars
  BY <1>4 DEF vars
<1> QED
  BY <1>1, <1>2, <1>3, <1>4 DEF Next

LEMMA TypeCorrectInit == Init => TypeOK
<1> SUFFICES ASSUME Init PROVE TypeOK
  OBVIOUS
<1>1. /\ state \in States /\ lost \in BOOLEAN /\ maintenance \in BOOLEAN
      /\ sftp \in SUBSET Lanes /\ closing \in SUBSET Ids
  BY DEF Init, States
<1>2. /\ phase \in [Ids -> Phases] /\ answers \in [Ids -> Seq(Signals)]
      /\ retry \in [Ids -> {"none", "waiting", "due"}]
  BY DEF Init, Phases
<1>3. /\ execOps \in Seq(Execs) /\ shortQueue \in Seq(Shorts)
      /\ longQueue \in Seq(LongKind) /\ todo \in Seq(Frames)
  BY DEF Init
<1> QED
  BY <1>1, <1>2, <1>3 DEF TypeOK

\* Every variable of the worker keeps its type.
THEOREM TypeCorrect == Spec => []TypeOK
<1> QED
  BY TypeCorrectInit, TypeStep, PTL DEF Spec

-----------------------------------------------------------------------------
(* The queues                                                              *)

LEMMA EmptyQueue == IsInjective(<<>>) /\ \A x : ~Contains(<<>>, x)
BY DEF IsInjective, Contains

\* A step that neither queues, admits nor drops an opener.
LEMMA QuietQueues ==
  ASSUME QueuesMatchPhases, UNCHANGED <<execOps, shortQueue, longQueue>>,
         \A id \in Ids : /\ phase'[id] \in Known <=> phase[id] \in Known
                         /\ phase'[id] = "Queued" <=> phase[id] = "Queued"
  PROVE  QueuesMatchPhases'
BY Kinds DEF QueuesMatchPhases

LEMMA LosingQueues ==
  ASSUME TypeOK, NEW S, DropAll(S), Execs \subseteq S, S \subseteq Ids, ClearQueues
  PROVE  QueuesMatchPhases'
<1>1. \A e \in Execs : phase'[e] \notin Known
  BY Kinds DEF DropAll, Dropped, Known, Live
<1> QED
  BY <1>1, EmptyQueue, Kinds DEF QueuesMatchPhases, ClearQueues, Known

LEMMA FinishQueues ==
  ASSUME TypeOK, QueuesMatchPhases, NEW p \in Ptys, NEW h, NEW o, NEW rest,
         FinishChannel(p, h, o, rest)
  PROVE  QueuesMatchPhases'
<1>1. longQueue \in Seq(LongKind) /\ phase \in [Ids -> Phases]
  BY DEF TypeOK
<1>2. /\ IsInjective(RemoveFirst(longQueue, p))
      /\ \A x : Contains(RemoveFirst(longQueue, p), x) <=> Contains(longQueue, x) /\ x # p
  BY <1>1, DistinctRemoveFirst DEF QueuesMatchPhases
<1>3. \A id \in Ids : phase'[id] = IF id = p THEN "Gone" ELSE phase[id]
  BY <1>1, Kinds DEF FinishChannel
<1>4. \A e \in Execs : e # p
  BY IdAssumption
<1> QED
  BY <1>2, <1>3, <1>4, Kinds DEF FinishChannel, QueuesMatchPhases

LEMMA QueueStep == TypeOK /\ QueuesMatchPhases /\ [Next]_vars => QueuesMatchPhases'
<1> SUFFICES ASSUME TypeOK, QueuesMatchPhases, [Next]_vars PROVE QueuesMatchPhases'
  OBVIOUS
<1>t. /\ phase \in [Ids -> Phases] /\ execOps \in Seq(Execs)
      /\ shortQueue \in Seq(Shorts) /\ longQueue \in Seq(LongKind)
  BY DEF TypeOK
<1>q. ASSUME UNCHANGED <<phase, execOps, shortQueue, longQueue>>
      PROVE  QueuesMatchPhases'
  BY <1>q, QuietQueues
<1>lose. ASSUME EnterConnectionLost PROVE QueuesMatchPhases'
  BY <1>lose, LosingQueues, Kinds DEF EnterConnectionLost
<1>1. CASE Event
  <2>1. CASE StartConnect
    BY <2>1, <1>q, <1>lose DEF StartConnect
  <2>2. CASE RequestDisconnect
    BY <2>2, LosingQueues, Kinds DEF RequestDisconnect
  <2>3. ASSUME NEW p \in Ptys, RequestOpenChannel(p) PROVE QueuesMatchPhases'
    <3>1. ~Contains(longQueue, p) /\ p \in LongKind /\ p \in Ids
      BY <2>3, Kinds DEF RequestOpenChannel, QueuesMatchPhases
    <3>2. CASE Refused
      BY <2>3, <3>1, <3>2, <1>t, QuietQueues DEF RequestOpenChannel, Known, Live
    <3>3. CASE ~Refused
      <4>1. /\ IsInjective(Append(longQueue, p))
            /\ \A x : Contains(Append(longQueue, p), x) <=> Contains(longQueue, x) \/ x = p
        BY <3>1, <1>t, DistinctAppend DEF QueuesMatchPhases
      <4>2. \A id \in Ids : phase'[id] = IF id = p THEN "Queued" ELSE phase[id]
        BY <2>3, <3>1, <3>3, <1>t DEF RequestOpenChannel
      <4>3. \A e \in Execs : e # p
        BY IdAssumption
      <4>4. longQueue' = Append(longQueue, p) /\ UNCHANGED <<execOps, shortQueue>>
        BY <2>3, <3>3 DEF RequestOpenChannel
      <4> QED
        BY <4>1, <4>2, <4>3, <4>4, Kinds DEF QueuesMatchPhases
    <3> QED
      BY <3>2, <3>3
  <2>4. ASSUME NEW p \in Ptys, RequestCloseChannel(p) PROVE QueuesMatchPhases'
    BY <2>4, FinishQueues DEF RequestCloseChannel
  <2>5. ASSUME NEW p \in Ptys, RequestWrite(p) PROVE QueuesMatchPhases'
    BY <2>5, <1>q DEF RequestWrite
  <2>6. ASSUME NEW e \in Execs, RequestExec(e) PROVE QueuesMatchPhases'
    <3>1. /\ e \in Ids /\ ~Contains(execOps, e)
          /\ e \in Shorts => ~Contains(shortQueue, e)
          /\ e \in Longs => ~Contains(longQueue, e) /\ e \in LongKind
          /\ phase[e] = "None"
      BY <2>6, Kinds DEF RequestExec, JoinShort, JoinLong, QueuesMatchPhases, Known, Live
    <3>2. CASE Refused
      BY <2>6, <3>1, <3>2, <1>t, QuietQueues DEF RequestExec, JoinShort, JoinLong, Known, Live
    <3>3. CASE ~Refused
      <4>1. /\ IsInjective(Append(execOps, e))
            /\ \A x : Contains(Append(execOps, e), x) <=> Contains(execOps, x) \/ x = e
        BY <3>1, <1>t, DistinctAppend DEF QueuesMatchPhases
      <4>2. \A id \in Ids : phase'[id] = IF id = e THEN "Queued" ELSE phase[id]
        BY <2>6, <3>1, <3>3, <1>t DEF RequestExec, JoinShort, JoinLong
      <4>3. execOps' = Append(execOps, e)
        BY <2>6, <3>3 DEF RequestExec, JoinShort, JoinLong
      <4>4. CASE e \in Shorts
        <5>1. /\ IsInjective(Append(shortQueue, e))
              /\ \A x : Contains(Append(shortQueue, e), x) <=> Contains(shortQueue, x) \/ x = e
          BY <3>1, <4>4, <1>t, DistinctAppend DEF QueuesMatchPhases
        <5>2. /\ shortQueue' = Append(shortQueue, e) /\ longQueue' = longQueue
              /\ e \notin Longs /\ e \notin Ptys
          BY <2>6, <3>3, <4>4, IdAssumption DEF RequestExec, JoinShort, JoinLong
        <5> QED
          BY <3>1, <4>1, <4>2, <4>3, <4>4, <5>1, <5>2, Kinds
          DEF QueuesMatchPhases, Known
      <4>5. CASE e \in Longs
        <5>1. /\ IsInjective(Append(longQueue, e))
              /\ \A x : Contains(Append(longQueue, e), x) <=> Contains(longQueue, x) \/ x = e
          BY <3>1, <4>5, <1>t, DistinctAppend DEF QueuesMatchPhases
        <5>2. /\ longQueue' = Append(longQueue, e) /\ shortQueue' = shortQueue
              /\ e \notin Shorts /\ e \notin Ptys
          BY <2>6, <3>3, <4>5, IdAssumption DEF RequestExec, JoinShort, JoinLong
        <5> QED
          BY <3>1, <4>1, <4>2, <4>3, <4>5, <5>1, <5>2, Kinds
          DEF QueuesMatchPhases, Known
      <4> QED
        BY <4>4, <4>5 DEF Execs
    <3> QED
      BY <3>2, <3>3
  <2>7. ASSUME NEW e \in Execs, RequestExecCancel(e) PROVE QueuesMatchPhases'
    <3>1. /\ IsInjective(RemoveFirst(execOps, e)) /\ IsInjective(RemoveFirst(shortQueue, e))
          /\ IsInjective(RemoveFirst(longQueue, e))
          /\ \A x : /\ Contains(RemoveFirst(execOps, e), x) <=> Contains(execOps, x) /\ x # e
                    /\ Contains(RemoveFirst(shortQueue, e), x) <=> Contains(shortQueue, x) /\ x # e
                    /\ Contains(RemoveFirst(longQueue, e), x) <=> Contains(longQueue, x) /\ x # e
      BY <1>t, DistinctRemoveFirst DEF QueuesMatchPhases
    <3>2. \A id \in Ids : phase'[id] = IF id = e THEN "Cancelled" ELSE phase[id]
      BY <2>7, <1>t, Kinds DEF RequestExecCancel
    <3>3. /\ execOps' = RemoveFirst(execOps, e)
          /\ shortQueue' = RemoveFirst(shortQueue, e)
          /\ longQueue' = RemoveFirst(longQueue, e)
      BY <2>7 DEF RequestExecCancel
    <3>4. e \notin Ptys
      BY IdAssumption
    <3> QED
      BY <3>1, <3>2, <3>3, <3>4, Kinds DEF QueuesMatchPhases, Known, Live
  <2>8. ASSUME NEW e \in Execs, RequestExecWrite(e) PROVE QueuesMatchPhases'
    BY <2>8, <1>q DEF RequestExecWrite
  <2>9. CASE RequestSftp \/ RequestSftpCancelBulk
    BY <2>9, <1>q DEF RequestSftp, RequestSftpCancelBulk
  <2>10. CASE MaintenanceTick
    BY <2>10, <1>q, <1>lose DEF MaintenanceTick, Lose
  <2>11. CASE KeepaliveLost \/ RejectHostKey
    BY <2>11, <1>lose DEF KeepaliveLost, RejectHostKey, Lose
  <2>12. CASE SocketActivity \/ AcceptHostKey
    BY <2>12, <1>q DEF SocketActivity, AcceptHostKey
  <2> QED
    BY <1>1, <2>1, <2>2, <2>3, <2>4, <2>5, <2>6, <2>7, <2>8, <2>9, <2>10,
       <2>11, <2>12 DEF Event
<1>2. CASE WorkerStep
  <2>1. CASE PumpReturns \/ PumpConnects \/ PumpReady
    BY <2>1, <1>q DEF PumpReturns, PumpConnects, PumpReady
  <2>2. CASE PumpLoses \/ WriteError
    BY <2>2, <1>lose DEF PumpLoses, WriteError, Lose
  <2>3. CASE AdmitShort
    <3>1. /\ IsInjective(Tail(shortQueue)) /\ Head(shortQueue) \in Shorts
          /\ Contains(shortQueue, Head(shortQueue))
          /\ \A x : Contains(Tail(shortQueue), x) <=>
                     Contains(shortQueue, x) /\ x # Head(shortQueue)
      <4>1. shortQueue # <<>> /\ shortQueue \in Seq(Shorts) /\ IsInjective(shortQueue)
        BY <2>3, <1>t DEF AdmitShort, ShortAdmissible, QueuesMatchPhases
      <4> HIDE DEF TypeOK
      <4> QED
        BY <4>1, HeadOfQueue, DistinctTail
    <3>2. \A id \in Ids : phase'[id] = IF id = Head(shortQueue) THEN "Opening" ELSE phase[id]
      BY <2>3, <3>1, <1>t, Kinds DEF AdmitShort, Promote, QueuesMatchPhases
    <3>3. Head(shortQueue) \notin LongKind
      BY <3>1, IdAssumption DEF LongKind, Execs
    <3> QED
      BY <2>3, <3>1, <3>2, <3>3, Kinds
      DEF AdmitShort, QueuesMatchPhases, Known, Live
  <2>4. CASE AdmitLong
    <3>1. /\ IsInjective(Tail(longQueue)) /\ Head(longQueue) \in LongKind
          /\ Contains(longQueue, Head(longQueue))
          /\ \A x : Contains(Tail(longQueue), x) <=>
                     Contains(longQueue, x) /\ x # Head(longQueue)
      <4>1. longQueue # <<>> /\ longQueue \in Seq(LongKind) /\ IsInjective(longQueue)
        BY <2>4, <1>t DEF AdmitLong, LongAdmissible, QueuesMatchPhases
      <4> HIDE DEF TypeOK
      <4> QED
        BY <4>1, HeadOfQueue, DistinctTail
    <3>2. \A id \in Ids : phase'[id] = IF id = Head(longQueue) THEN "Opening" ELSE phase[id]
      BY <2>4, <3>1, <1>t, Kinds DEF AdmitLong, Promote, QueuesMatchPhases, LongKind
    <3>3. Head(longQueue) \notin Shorts
      BY <3>1, IdAssumption DEF LongKind, Execs
    <3> QED
      BY <2>4, <3>1, <3>2, <3>3, Kinds
      DEF AdmitLong, QueuesMatchPhases, Known, Live, LongKind
  <2>5. CASE AdmitDone \/ SetupDone \/ ReadDone \/ FlushDone \/ ExecReturns
             \/ SetupStart \/ ReadStart
    BY <2>5, <1>q DEF AdmitDone, SetupDone, ReadDone, FlushDone, ExecReturns,
                      SetupStart, ReadStart
  <2>6. ASSUME NEW p \in Ptys, SetupAdvance(p) PROVE QueuesMatchPhases'
    <3>1. /\ phase[p] \in {"Opening", "Setup"}
          /\ \E next \in {"Opening", "Setup", "Open"} : phase' = [phase EXCEPT ![p] = next]
          /\ UNCHANGED <<execOps, shortQueue, longQueue>>
      BY <2>6 DEF SetupAdvance, SettingUp, Onward
    <3> QED
      BY <3>1, <1>t, Kinds, QuietQueues DEF Known, Live
  <2>7. ASSUME NEW p \in Ptys, SetupBusy(p) PROVE QueuesMatchPhases'
    BY <2>7, <1>q DEF SetupBusy
  <2>8. ASSUME NEW p \in Ptys, SetupError(p) \/ ReadEof(p) PROVE QueuesMatchPhases'
    BY <2>8, FinishQueues DEF SetupError, ReadEof
  <2>9. ASSUME NEW p \in Ptys, ReadError(p) PROVE QueuesMatchPhases'
    BY <2>9, <1>lose DEF ReadError, Lose
  <2>10. ASSUME NEW i \in 1 .. Len(execOps), ExecAdvance(i) PROVE QueuesMatchPhases'
    <3>1. execOps[i] \in Execs /\ Contains(execOps, execOps[i])
      BY <1>t, ElementOfSeq DEF Contains
    <3>2. phase[execOps[i]] \in Live
      BY <2>10, <3>1 DEF ExecAdvance, IsNextOp, QueuesMatchPhases, Known
    <3>3. /\ \E next \in Live : phase' = [phase EXCEPT ![execOps[i]] = next]
          /\ UNCHANGED <<execOps, shortQueue, longQueue>>
      BY <2>10, <3>2 DEF ExecAdvance, Onward, Live
    <3> QED
      BY <3>1, <3>2, <3>3, <1>t, Kinds, QuietQueues DEF Known, Live
  <2>11. ASSUME NEW i \in 1 .. Len(execOps), ExecBusy(i) PROVE QueuesMatchPhases'
    BY <2>11, <1>q DEF ExecBusy
  <2>12. ASSUME NEW i \in 1 .. Len(execOps), ExecDone(i) PROVE QueuesMatchPhases'
    <3>1. execOps[i] \in Execs /\ Contains(execOps, execOps[i])
      BY <1>t, ElementOfSeq DEF Contains
    <3>2. phase[execOps[i]] \in Live
      BY <2>12, <3>1 DEF ExecDone, IsNextOp, QueuesMatchPhases, Known
    <3>3. /\ IsInjective(RemoveAt(execOps, i))
          /\ \A x : Contains(RemoveAt(execOps, i), x) <=> Contains(execOps, x) /\ x # execOps[i]
      BY <1>t, DistinctRemoveAt DEF QueuesMatchPhases
    <3>4. \A id \in Ids : phase'[id] = IF id = execOps[i] THEN "Gone" ELSE phase[id]
      BY <2>12, <3>1, <1>t, Kinds DEF ExecDone
    <3>5. execOps' = RemoveAt(execOps, i) /\ UNCHANGED <<shortQueue, longQueue>>
      BY <2>12 DEF ExecDone
    <3>6. \A p \in Ptys : p # execOps[i]
      BY <3>1, IdAssumption
    <3> QED
      BY <3>1, <3>2, <3>3, <3>4, <3>5, <3>6, Kinds
      DEF QueuesMatchPhases, Known, Live
  <2>13. CASE ServiceSftp \/ PumpCloses \/ ArmForCloses \/ TickEnd
    BY <2>13, <1>q DEF ServiceSftp, PumpCloses, ArmForCloses, TickEnd
  <2> QED
    BY <1>2, <2>1, <2>2, <2>3, <2>4, <2>5, <2>6, <2>7, <2>8, <2>9, <2>10,
       <2>11, <2>12, <2>13 DEF WorkerStep
<1>3. ASSUME NEW id \in Ids, BackoffElapses(id) PROVE QueuesMatchPhases'
  BY <1>3, <1>q DEF BackoffElapses
<1>4. CASE UNCHANGED vars
  BY <1>4, <1>q DEF vars
<1> QED
  BY <1>1, <1>2, <1>3, <1>4 DEF Next

LEMMA QueuesInit == Init => QueuesMatchPhases
BY EmptyQueue, Kinds DEF Init, QueuesMatchPhases, Known, Live

\* The queues and the phases never disagree, at any point of any handler.
THEOREM QueuesCorrect == Spec => []QueuesMatchPhases
<1>1. Init => TypeOK /\ QueuesMatchPhases
  BY TypeCorrectInit, QueuesInit
<1>2. TypeOK /\ QueuesMatchPhases /\ [Next]_vars => (TypeOK /\ QueuesMatchPhases)'
  BY TypeStep, QueueStep
<1> QED
  BY <1>1, <1>2, PTL DEF Spec

-----------------------------------------------------------------------------
(* What a loss leaves                                                      *)

\* What LossForgetsAll speaks of.
remains == <<state, phase, execOps, shortQueue, longQueue, sftp, closing>>

LEMMA LossEmpties == TypeOK /\ EnterConnectionLost => LossForgetsAll'
<1> SUFFICES ASSUME TypeOK, EnterConnectionLost PROVE LossForgetsAll'
  OBVIOUS
<1>1. \A id \in Ids : phase'[id] \notin Known
  BY DEF EnterConnectionLost, DropAll, Dropped, Known, Live
<1> QED
  BY <1>1 DEF EnterConnectionLost, ClearQueues, LossForgetsAll

LEMMA NothingLeft ==
  ASSUME LossForgetsAll, UNCHANGED <<lost, remains>>
  PROVE  LossForgetsAll'
BY DEF LossForgetsAll, remains

\* A request refused by a lost session adds nothing to it.
LEMMA RefusalAddsNothing ==
  ASSUME TypeOK, LossForgetsAll, lost, NEW id \in Ids,
         phase' = [phase EXCEPT ![id] = "Gone"],
         UNCHANGED <<state, lost, execOps, shortQueue, longQueue, sftp, closing>>
  PROVE  LossForgetsAll'
<1>1. \A i \in Ids : phase'[i] \notin Known
  BY DEF TypeOK, LossForgetsAll, Known, Live
<1> QED
  BY <1>1 DEF LossForgetsAll

LEMMA EventWhenLost ==
  ASSUME TypeOK, LossForgetsAll, lost, Event
  PROVE  LossForgetsAll'
<1>a. /\ state = "Disconnected" /\ Refused
      /\ \A id \in Ids : phase[id] \notin Known
  BY DEF LossForgetsAll, Refused
<1>1. CASE StartConnect
  BY <1>1, LossEmpties DEF StartConnect, LossForgetsAll
<1>2. CASE RequestDisconnect
  <2>1. \A id \in Ids : phase'[id] \notin Known
    BY <1>2, <1>a DEF RequestDisconnect, DropAll, Dropped, Known, Live
  <2> QED
    BY <1>2, <2>1 DEF RequestDisconnect, ClearQueues, LossForgetsAll
<1>3. ASSUME NEW p \in Ptys, RequestOpenChannel(p) \/ RequestCloseChannel(p) \/ RequestWrite(p)
      PROVE  LossForgetsAll'
  <2>1. p \in Ids
    BY Kinds
  <2>2. RequestOpenChannel(p)
    BY <1>3, <2>1, <1>a DEF RequestCloseChannel, RequestWrite
  <2> QED
    BY <2>1, <2>2, <1>a, RefusalAddsNothing DEF RequestOpenChannel
<1>4. ASSUME NEW e \in Execs, RequestExec(e) \/ RequestExecCancel(e) \/ RequestExecWrite(e)
      PROVE  LossForgetsAll'
  <2>1. e \in Ids
    BY Kinds
  <2>2. RequestExec(e)
    BY <1>4, <2>1, <1>a DEF RequestExecCancel, RequestExecWrite
  <2> QED
    BY <2>1, <2>2, <1>a, RefusalAddsNothing DEF RequestExec
<1>5. CASE RequestSftp \/ RequestSftpCancelBulk
  BY <1>5, <1>a, NothingLeft DEF RequestSftp, RequestSftpCancelBulk, remains
<1>6. CASE MaintenanceTick
  BY <1>6, <1>a, NothingLeft DEF MaintenanceTick, remains
<1>7. CASE KeepaliveLost \/ SocketActivity \/ AcceptHostKey \/ RejectHostKey
  BY <1>7, <1>a DEF KeepaliveLost, SocketActivity, AcceptHostKey, RejectHostKey
<1> QED
  BY <1>1, <1>2, <1>3, <1>4, <1>5, <1>6, <1>7 DEF Event

LEMMA WorkerWhenLost ==
  ASSUME TypeOK, LossForgetsAll, lost, WorkerStep
  PROVE  LossForgetsAll'
<1>a. /\ state = "Disconnected" /\ sftp = {} /\ closing = {}
      /\ execOps = <<>> /\ shortQueue = <<>> /\ longQueue = <<>>
      /\ \A id \in Ids : phase[id] \notin Known
  BY DEF LossForgetsAll
<1>1. CASE PumpReturns \/ PumpConnects \/ PumpLoses \/ PumpReady
  BY <1>1, <1>a, NothingLeft DEF PumpReturns, PumpConnects, PumpLoses, PumpReady, remains
<1>2. CASE AdmitShort \/ AdmitLong \/ AdmitDone
  BY <1>2, <1>a, NothingLeft
     DEF AdmitShort, AdmitLong, AdmitDone, ShortAdmissible, LongAdmissible, remains
<1>3. CASE SetupStart \/ SetupDone \/ ReadStart \/ ReadDone \/ FlushDone
  BY <1>3, NothingLeft DEF SetupStart, SetupDone, ReadStart, ReadDone, FlushDone, remains
<1>4. ASSUME NEW p \in Ptys, SetupAdvance(p) \/ SetupBusy(p) \/ SetupError(p)
      PROVE  FALSE
  <2>1. p \in Ids
    BY Kinds
  <2>2. phase[p] \in {"Opening", "Setup"}
    BY <1>4 DEF SetupAdvance, SetupBusy, SetupError, SettingUp
  <2> QED
    BY <2>1, <2>2, <1>a DEF Known, Live
<1>5. ASSUME NEW p \in Ptys, ReadEof(p) \/ ReadError(p) \/ phase[p] = "Open"
      PROVE  FALSE
  BY <1>5, <1>a, Kinds DEF ReadEof, ReadError, Known, Live
<1>6. CASE WriteError
  BY <1>6, <1>5 DEF WriteError
<1>7. ASSUME NEW i \in 1 .. Len(execOps), ExecAdvance(i) \/ ExecBusy(i) \/ ExecDone(i)
      PROVE  FALSE
  BY <1>7, <1>a DEF ExecAdvance, ExecBusy, ExecDone, ServesExec
<1>8. CASE ExecReturns \/ ArmForCloses
  BY <1>8, NothingLeft DEF ExecReturns, ArmForCloses, remains
<1>9. CASE ServiceSftp
  BY <1>9, <1>a, NothingLeft DEF ServiceSftp, remains
<1>10. CASE PumpCloses \/ TickEnd
  <2>1. closing' = {}
    BY <1>10, <1>a DEF PumpCloses, TickEnd
  <2> QED
    BY <1>10, <2>1, <1>a, NothingLeft DEF PumpCloses, TickEnd, remains
<1> QED
  BY <1>1, <1>2, <1>3, <1>4, <1>5, <1>6, <1>7, <1>8, <1>9, <1>10 DEF WorkerStep


\* Only enterConnectionLost sets m_lost.
LEMMA OnlyLossLoses == [Next]_vars /\ ~lost /\ lost' => EnterConnectionLost
<1> SUFFICES ASSUME [Next]_vars, ~lost, lost' PROVE EnterConnectionLost
  OBVIOUS
<1>1. CASE StartConnect \/ RequestDisconnect \/ MaintenanceTick \/ KeepaliveLost
           \/ SocketActivity \/ AcceptHostKey \/ RejectHostKey
  BY <1>1 DEF StartConnect, RequestDisconnect, MaintenanceTick, KeepaliveLost, SocketActivity,
              AcceptHostKey, RejectHostKey, Lose
<1>2. ASSUME NEW p \in Ptys, RequestOpenChannel(p) \/ RequestCloseChannel(p) \/ RequestWrite(p)
      PROVE  FALSE
  BY <1>2 DEF RequestOpenChannel, RequestCloseChannel, RequestWrite, FinishChannel
<1>3. ASSUME NEW e \in Execs, RequestExec(e) \/ RequestExecCancel(e) \/ RequestExecWrite(e)
      PROVE  FALSE
  BY <1>3 DEF RequestExec, RequestExecCancel, RequestExecWrite
<1>4. CASE RequestSftp \/ RequestSftpCancelBulk
  BY <1>4 DEF RequestSftp, RequestSftpCancelBulk
<1>5. CASE WorkerStep
  <2>1. CASE PumpReturns \/ PumpConnects \/ PumpLoses \/ PumpReady
             \/ AdmitShort \/ AdmitLong \/ AdmitDone \/ SetupStart \/ SetupDone
    BY <2>1 DEF PumpReturns, PumpConnects, PumpLoses, PumpReady, AdmitShort, AdmitLong,
                AdmitDone, SetupStart, SetupDone, Lose
  <2>2. CASE ReadStart \/ ReadDone \/ FlushDone \/ WriteError \/ ExecReturns
             \/ ServiceSftp \/ PumpCloses \/ ArmForCloses \/ TickEnd
    BY <2>2 DEF ReadStart, ReadDone, FlushDone, WriteError, ExecReturns, ServiceSftp,
                PumpCloses, ArmForCloses, TickEnd, Lose
  <2>3. ASSUME NEW p \in Ptys, SetupAdvance(p) \/ SetupBusy(p) \/ SetupError(p)
        PROVE  FALSE
    BY <2>3 DEF SetupAdvance, SetupBusy, SetupError, FinishChannel
  <2>4. ASSUME NEW p \in Ptys, ReadEof(p) \/ ReadError(p)
        PROVE  EnterConnectionLost
    BY <2>4 DEF ReadEof, ReadError, FinishChannel, Lose
  <2>5. ASSUME NEW i \in 1 .. Len(execOps), ExecAdvance(i) \/ ExecBusy(i) \/ ExecDone(i)
        PROVE  FALSE
    BY <2>5 DEF ExecAdvance, ExecBusy, ExecDone
  <2> QED
    BY <1>5, <2>1, <2>2, <2>3, <2>4, <2>5 DEF WorkerStep
<1>6. CASE \E id \in Ids : BackoffElapses(id)
  BY <1>6 DEF BackoffElapses
<1>7. CASE UNCHANGED vars
  BY <1>7 DEF vars
<1> QED
  BY <1>1, <1>2, <1>3, <1>4, <1>5, <1>6, <1>7 DEF Next, Event

LEMMA LossStep == TypeOK /\ LossForgetsAll /\ [Next]_vars => LossForgetsAll'
<1> SUFFICES ASSUME TypeOK, LossForgetsAll, [Next]_vars PROVE LossForgetsAll'
  OBVIOUS
<1>1. CASE ~lost'
  BY <1>1 DEF LossForgetsAll
<1>2. CASE ~lost /\ lost'
  BY <1>2, OnlyLossLoses, LossEmpties
<1>3. CASE lost
  <2>1. CASE Event
    BY <1>3, <2>1, EventWhenLost
  <2>2. CASE WorkerStep
    BY <1>3, <2>2, WorkerWhenLost
  <2>3. CASE UNCHANGED vars \/ \E id \in Ids : BackoffElapses(id)
    BY <2>3, NothingLeft DEF vars, BackoffElapses, remains
  <2> QED
    BY <2>1, <2>2, <2>3 DEF Next
<1> QED
  BY <1>1, <1>2, <1>3

\* Once m_lost is set nothing of the dead session is left, wherever in a handler
\* the loss struck and whatever is asked of the worker afterwards.
THEOREM LossCorrect == Spec => []LossForgetsAll
<1>1. Init => TypeOK /\ LossForgetsAll
  BY TypeCorrectInit DEF Init, LossForgetsAll
<1>2. TypeOK /\ LossForgetsAll /\ [Next]_vars => (TypeOK /\ LossForgetsAll)'
  BY TypeStep, LossStep
<1> QED
  BY <1>1, <1>2, PTL DEF Spec

-----------------------------------------------------------------------------
(* The pool of slots: the budget, the refinement of SlotPool and the       *)
(* admission of whoever may have a slot.  Each step of the worker does one *)
(* of five things to the phases (PhaseStep); the pool's step and the       *)
(* budget follow from which.                                               *)

-----------------------------------------------------------------------------
(* What a step may do to the phases                                        *)

PhasesKept ==
  \A id \in Ids : \/ phase'[id] = phase[id]
                  \/ phase[id] \in Live /\ phase'[id] \in Live

Asked(id) == phase[id] = "None" /\ phase' = [phase EXCEPT ![id] = "Queued"]

Turned(id) == phase[id] = "None" /\ phase' = [phase EXCEPT ![id] = "Gone"]

Granted(id) ==
  /\ phase[id] = "Queued"
  /\ liveDynamicCount < DynamicBudget
  /\ id \in LongKind => /\ liveLongLivedCount < MaxLong
                        /\ \A s \in Shorts : phase[s] # "Queued"
  /\ phase' = [phase EXCEPT ![id] = "Opening"]

Left(S) ==
  \A id \in Ids : IF id \in S
                  THEN phase[id] \in Known /\ phase'[id] \in {"Gone", "Cancelled"}
                  ELSE phase'[id] = phase[id]

PhaseChange ==
  \/ PhasesKept
  \/ \E id \in Ids : Asked(id) \/ Turned(id) \/ Granted(id)
  \/ \E S \in SUBSET Ids : Left(S)

\* Every step of the worker asks, refuses, grants, or lets a set of openers
\* leave; otherwise no opener enters or leaves the live phases.
LEMMA PhaseStep == TypeOK /\ QueuesMatchPhases /\ [Next]_vars => PhaseChange
<1> SUFFICES ASSUME TypeOK, QueuesMatchPhases, [Next]_vars PROVE PhaseChange
  OBVIOUS
<1>t. phase \in [Ids -> Phases] /\ execOps \in Seq(Execs)
      /\ shortQueue \in Seq(Shorts) /\ longQueue \in Seq(LongKind)
  BY DEF TypeOK
<1>same. ASSUME UNCHANGED phase PROVE PhaseChange
  BY <1>same DEF PhaseChange, PhasesKept
<1>drop. ASSUME NEW S \in SUBSET Ids, DropAll(S) PROVE PhaseChange
  <2>1. Left({id \in S : phase[id] \in Known})
    BY <1>drop, <1>t DEF DropAll, Dropped, Left
  <2> QED
    BY <2>1 DEF PhaseChange
<1>one. ASSUME NEW id \in Ids, phase[id] \in Known, NEW ph \in {"Gone", "Cancelled"},
               phase' = [phase EXCEPT ![id] = ph]
        PROVE  PhaseChange
  <2>1. Left({id})
    BY <1>one, <1>t DEF Left
  <2> QED
    BY <2>1 DEF PhaseChange
<1>live. ASSUME NEW id \in Ids, phase[id] \in Live, NEW ph \in Live,
                phase' = [phase EXCEPT ![id] = ph]
         PROVE  PhaseChange
  BY <1>live, <1>t DEF PhaseChange, PhasesKept
<1>finish. ASSUME NEW p \in Ptys, NEW h, NEW o, NEW rest, phase[p] \in Known,
                  FinishChannel(p, h, o, rest)
           PROVE  PhaseChange
  BY <1>finish, <1>one, Kinds DEF FinishChannel
<1>lose. ASSUME EnterConnectionLost PROVE PhaseChange
  BY <1>lose, <1>drop DEF EnterConnectionLost
<1>1. CASE Event
  <2>1. CASE StartConnect
    BY <2>1, <1>lose, <1>same DEF StartConnect
  <2>2. CASE RequestDisconnect
    BY <2>2, <1>drop, Kinds DEF RequestDisconnect
  <2>3. ASSUME NEW p \in Ptys, RequestOpenChannel(p) PROVE PhaseChange
    <3>1. p \in Ids /\ (Asked(p) \/ Turned(p))
      BY <2>3, Kinds DEF RequestOpenChannel, Asked, Turned
    <3> QED
      BY <3>1 DEF PhaseChange
  <2>4. ASSUME NEW e \in Execs, RequestExec(e) PROVE PhaseChange
    <3>1. e \in Ids /\ (Asked(e) \/ Turned(e))
      BY <2>4, Kinds DEF RequestExec, JoinShort, JoinLong, Asked, Turned
    <3> QED
      BY <3>1 DEF PhaseChange
  <2>5. ASSUME NEW p \in Ptys, RequestCloseChannel(p) PROVE PhaseChange
    BY <2>5, <1>finish DEF RequestCloseChannel
  <2>6. ASSUME NEW e \in Execs, RequestExecCancel(e) PROVE PhaseChange
    BY <2>6, <1>one, Kinds DEF RequestExecCancel
  <2>7. ASSUME NEW p \in Ptys, NEW e \in Execs, RequestWrite(p) \/ RequestExecWrite(e)
        PROVE PhaseChange
    BY <2>7, <1>same DEF RequestWrite, RequestExecWrite
  <2>8. CASE \/ \E p \in Ptys : RequestWrite(p)
             \/ \E e \in Execs : RequestExecWrite(e)
             \/ RequestSftp \/ RequestSftpCancelBulk \/ SocketActivity \/ AcceptHostKey
    BY <2>8, <1>same DEF RequestWrite, RequestExecWrite, RequestSftp,
       RequestSftpCancelBulk, SocketActivity, AcceptHostKey
  <2>9. CASE MaintenanceTick \/ KeepaliveLost \/ RejectHostKey
    BY <2>9, <1>same, <1>lose DEF MaintenanceTick, KeepaliveLost, RejectHostKey, Lose
  <2> QED
    BY <1>1, <2>1, <2>2, <2>3, <2>4, <2>5, <2>6, <2>8, <2>9 DEF Event
<1>2. CASE WorkerStep
  <2>1. CASE \/ PumpReturns \/ PumpConnects \/ PumpReady \/ AdmitDone \/ SetupDone
             \/ ReadDone \/ FlushDone \/ ExecReturns \/ SetupStart \/ ReadStart
             \/ ServiceSftp \/ PumpCloses \/ ArmForCloses \/ TickEnd
    BY <2>1, <1>same DEF PumpReturns, PumpConnects, PumpReady, AdmitDone, SetupDone,
       ReadDone, FlushDone, ExecReturns, SetupStart, ReadStart, ServiceSftp,
       PumpCloses, ArmForCloses, TickEnd
  <2>2. CASE PumpLoses \/ WriteError
    BY <2>2, <1>lose DEF PumpLoses, WriteError, Lose
  <2>3. CASE AdmitShort
    <3>1. shortQueue # <<>> /\ liveDynamicCount < DynamicBudget
          /\ Promote(Head(shortQueue))
      BY <2>3 DEF AdmitShort, ShortAdmissible
    <3>2. Head(shortQueue) \in Shorts /\ Contains(shortQueue, Head(shortQueue))
      BY <3>1, <1>t, HeadOfQueue
    <3>3. Head(shortQueue) \notin LongKind /\ Head(shortQueue) \in Ids
      BY <3>2, IdAssumption, Kinds DEF LongKind, Execs
    <3>4. phase[Head(shortQueue)] = "Queued"
      BY <3>2 DEF QueuesMatchPhases
    <3>5. Granted(Head(shortQueue))
      BY <3>1, <3>3, <3>4 DEF Granted, Promote
    <3> QED
      BY <3>3, <3>5 DEF PhaseChange
  <2>4. CASE AdmitLong
    <3>1. longQueue # <<>> /\ liveDynamicCount < DynamicBudget
          /\ liveLongLivedCount < MaxLong /\ Promote(Head(longQueue))
          /\ shortQueue = <<>>
      BY <2>4 DEF AdmitLong, LongAdmissible, ShortAdmissible
    <3>2. Head(longQueue) \in LongKind /\ Contains(longQueue, Head(longQueue))
      BY <3>1, <1>t, HeadOfQueue
    <3>3. phase[Head(longQueue)] = "Queued"
      BY <3>2 DEF QueuesMatchPhases, LongKind
    <3>4. \A s \in Shorts : phase[s] # "Queued"
      BY <3>1, EmptyQueue DEF QueuesMatchPhases
    <3>5. Granted(Head(longQueue))
      BY <3>1, <3>3, <3>4 DEF Granted, Promote
    <3> QED
      BY <3>2, <3>5, Kinds DEF PhaseChange
  <2>5. ASSUME NEW p \in Ptys, SetupAdvance(p) PROVE PhaseChange
    <3>1. phase[p] \in Live /\ \E next \in Live : phase' = [phase EXCEPT ![p] = next]
      BY <2>5 DEF SetupAdvance, SettingUp, Onward, Live
    <3> QED
      BY <3>1, <1>live, Kinds
  <2>6. ASSUME NEW p \in Ptys, SetupBusy(p) PROVE PhaseChange
    BY <2>6, <1>same DEF SetupBusy
  <2>7. ASSUME NEW p \in Ptys, SetupError(p) \/ ReadEof(p) PROVE PhaseChange
    <3>1. phase[p] \in Known
      BY <2>7 DEF SetupError, ReadEof, SettingUp, Known, Live
    <3> QED
      BY <2>7, <3>1, <1>finish DEF SetupError, ReadEof
  <2>8. ASSUME NEW p \in Ptys, ReadError(p) PROVE PhaseChange
    BY <2>8, <1>lose DEF ReadError, Lose
  <2>9. ASSUME NEW i \in 1 .. Len(execOps), ExecAdvance(i) \/ ExecBusy(i) \/ ExecDone(i)
        PROVE PhaseChange
    <3>1. execOps[i] \in Execs /\ Contains(execOps, execOps[i]) /\ execOps[i] \in Ids
      BY <1>t, ElementOfSeq, Kinds DEF Contains
    <3>2. phase[execOps[i]] \in Live /\ phase[execOps[i]] \in Known
      BY <2>9, <3>1 DEF ExecAdvance, ExecBusy, ExecDone, IsNextOp, QueuesMatchPhases, Known
    <3>3. CASE ExecAdvance(i)
      <4>1. \E next \in Live : phase' = [phase EXCEPT ![execOps[i]] = next]
        BY <3>2, <3>3 DEF ExecAdvance, Onward, Live
      <4> QED
        BY <4>1, <3>1, <3>2, <1>live
    <3>4. CASE ExecBusy(i)
      BY <3>4, <1>same DEF ExecBusy
    <3>5. CASE ExecDone(i)
      BY <3>5, <3>1, <3>2, <1>one DEF ExecDone
    <3> QED
      BY <2>9, <3>3, <3>4, <3>5
  <2> QED
    BY <1>2, <2>1, <2>2, <2>3, <2>4, <2>5, <2>6, <2>7, <2>8, <2>9 DEF WorkerStep
<1>3. ASSUME NEW id \in Ids, BackoffElapses(id) PROVE PhaseChange
  BY <1>3, <1>same DEF BackoffElapses
<1>4. CASE UNCHANGED vars
  BY <1>4, <1>same DEF vars
<1> QED
  BY <1>1, <1>2, <1>3, <1>4 DEF Next

-----------------------------------------------------------------------------
(* The budget                                                              *)

LEMMA FiniteIds == IsFiniteSet(Ids) /\ IsFiniteSet(LongKind)
BY IdAssumption, FS_Union DEF Ids, LongKind, Execs

LEMMA LanesFinite == IsFiniteSet(Lanes)
<1>1. Lanes = {"bulk"} \union {"meta"}
  BY DEF Lanes
<1>2. IsFiniteSet({"bulk"}) /\ IsFiniteSet({"meta"})
  BY FS_Singleton
<1> QED
  BY <1>1, <1>2, FS_Union

LEMMA BudgetsAreNat == DynamicBudget \in Nat /\ MaxLong \in Nat
<1>1. SftpReserved \in Nat
  BY CapAssumption, LanesFinite, FS_CardinalityType
<1> QED
  BY <1>1, CapAssumption DEF DynamicBudget, MaxLong

\* A step never takes a kind of opener over a bound it was within, unless it
\* grants a slot while there is room.
LEMMA LiveStep ==
  ASSUME NEW S, S \subseteq Ids, IsFiniteSet(S), NEW bound \in Nat,
         phase \in [Ids -> Phases], PhaseChange,
         Cardinality(LiveIn(S)) <= bound,
         \A id \in S : Granted(id) => Cardinality(LiveIn(S)) < bound
  PROVE  Cardinality(LiveIn(S)') <= bound
<1>1. IsFiniteSet(LiveIn(S)) /\ Cardinality(LiveIn(S)) \in Nat
  BY FS_Subset, FS_CardinalityType DEF LiveIn
<1>sub. ASSUME LiveIn(S)' \subseteq LiveIn(S) PROVE Cardinality(LiveIn(S)') <= bound
  BY <1>sub, <1>1, FS_Subset, FS_CardinalityType
<1>2. CASE PhasesKept \/ \E id \in Ids : Asked(id) \/ Turned(id)
  <2>1. LiveIn(S)' \subseteq LiveIn(S)
    BY <1>2 DEF PhasesKept, Asked, Turned, LiveIn, Live
  <2> QED
    BY <2>1, <1>sub
<1>3. CASE \E id \in Ids : Granted(id)
  <2> PICK id \in Ids : Granted(id)
    BY <1>3
  <2>1. CASE id \in S
    <3>1. LiveIn(S)' = LiveIn(S) \union {id}
      BY <2>1 DEF Granted, LiveIn, Live
    <3>2. Cardinality(LiveIn(S)) < bound
      BY <2>1
    <3>3. \/ Cardinality(LiveIn(S) \union {id}) = Cardinality(LiveIn(S))
          \/ Cardinality(LiveIn(S) \union {id}) = Cardinality(LiveIn(S)) + 1
      BY <1>1, FS_AddElement
    <3>4. Cardinality(LiveIn(S) \union {id}) <= bound
      <4> HIDE DEF LiveIn
      <4> QED
        BY <3>2, <3>3, <1>1
    <3> QED
      BY <3>1, <3>4
  <2>2. CASE id \notin S
    <3>1. LiveIn(S)' \subseteq LiveIn(S)
      BY <2>2 DEF Granted, LiveIn, Live
    <3> QED
      BY <3>1, <1>sub
  <2> QED
    BY <2>1, <2>2
<1>4. CASE \E T \in SUBSET Ids : Left(T)
  <2>1. LiveIn(S)' \subseteq LiveIn(S)
    BY <1>4 DEF Left, LiveIn, Live
  <2> QED
    BY <2>1, <1>sub
<1> QED
  BY <1>2, <1>3, <1>4 DEF PhaseChange

LEMMA BudgetStep ==
  TypeOK /\ QueuesMatchPhases /\ AdmittedWithin /\ [Next]_vars => AdmittedWithin'
<1> SUFFICES ASSUME TypeOK, QueuesMatchPhases, AdmittedWithin, [Next]_vars
             PROVE  AdmittedWithin'
  OBVIOUS
<1>1. PhaseChange /\ phase \in [Ids -> Phases]
  BY PhaseStep DEF TypeOK
<1>2. Cardinality(LiveIn(Ids)') <= DynamicBudget
  BY <1>1, LiveStep, FiniteIds, BudgetsAreNat
  DEF AdmittedWithin, Granted, liveDynamicCount
<1>3. Cardinality(LiveIn(LongKind)') <= MaxLong
  BY <1>1, LiveStep, FiniteIds, BudgetsAreNat, Kinds
  DEF AdmittedWithin, Granted, liveLongLivedCount
<1> QED
  BY <1>2, <1>3 DEF AdmittedWithin, liveDynamicCount, liveLongLivedCount,
                    DynamicBudget, MaxLong

LEMMA AdmissionWithin == Spec => []AdmittedWithin
<1>1. Init => TypeOK /\ QueuesMatchPhases /\ AdmittedWithin
  <2> SUFFICES ASSUME Init PROVE AdmittedWithin
    BY TypeCorrectInit, QueuesInit
  <2>1. LiveIn(Ids) = {} /\ LiveIn(LongKind) = {}
    BY Kinds DEF Init, LiveIn, Live
  <2> QED
    BY <2>1, FS_EmptySet, BudgetsAreNat
    DEF AdmittedWithin, liveDynamicCount, liveLongLivedCount
<1>2. TypeOK /\ QueuesMatchPhases /\ AdmittedWithin /\ [Next]_vars
        => (TypeOK /\ QueuesMatchPhases /\ AdmittedWithin)'
  BY TypeStep, QueueStep, BudgetStep
<1> QED
  BY <1>1, <1>2, PTL DEF Spec

\* Neither the dynamic budget nor the long-lived one is ever exceeded, nor the
\* server's cap by PTY, exec and SFTP channels together, whatever fails, closes, is
\* cancelled or reconnects half-way in a handler.
THEOREM BudgetCorrect == Spec => []BudgetRespected
<1>1. TypeOK /\ AdmittedWithin => BudgetRespected
  <2> SUFFICES ASSUME TypeOK, AdmittedWithin, ChannelCap > SftpReserved
               PROVE  unifiedLiveCount <= ChannelCap
    BY DEF UnifiedCap, BudgetRespected
  <2>1. /\ Cardinality(sftp) \in Nat /\ SftpReserved \in Nat
        /\ Cardinality(sftp) <= SftpReserved
    BY LanesFinite, FS_Subset, FS_CardinalityType, CapAssumption DEF TypeOK
  <2>2. liveDynamicCount \in Nat /\ liveDynamicCount <= ChannelCap - SftpReserved
    BY FiniteIds, FS_Subset, FS_CardinalityType
    DEF AdmittedWithin, DynamicBudget, liveDynamicCount, LiveIn
  <2> QED
    BY <2>1, <2>2, CapAssumption DEF unifiedLiveCount
<1> QED
  BY <1>1, TypeCorrect, AdmissionWithin, PTL

-----------------------------------------------------------------------------
(* The refinement of SlotPool                                              *)

LEMMA PoolOpeners == Pool!Openers = Ids
BY Kinds DEF Pool!Openers

LEMMA StandingIs ==
  \A id \in Ids :
    /\ standings[id] = "new" <=> phase[id] = "None"
    /\ standings[id] = "waiting" <=> phase[id] = "Queued"
    /\ standings[id] = "holding" <=> phase[id] \in Live
    /\ standings[id] \in {"new", "waiting", "holding", "left"}
BY DEF standings, Standing, Live

\* Openers holding a slot of the pool are those the worker counts as live.
LEMMA PoolHolds ==
  ASSUME NEW S, S \subseteq Ids
  PROVE  Pool!Holding(S) = LiveIn(S)
BY StandingIs DEF Pool!Holding, LiveIn

LEMMA PoolCardinality == \A S : Pool!Cardinality(S) = Cardinality(S)
BY DEF Pool!Cardinality, Cardinality

LEMMA PoolStep ==
  TypeOK /\ TypeOK' /\ PhaseChange => [Pool!Next]_standings
<1> SUFFICES ASSUME TypeOK, TypeOK', PhaseChange PROVE [Pool!Next]_standings
  OBVIOUS
<1>p. phase \in [Ids -> Phases] /\ phase' \in [Ids -> Phases]
  BY DEF TypeOK
<1>1. CASE PhasesKept
  <2>1. \A id \in Ids : Standing(id)' = Standing(id)
    BY <1>1 DEF PhasesKept, Standing, Live
  <2> QED
    BY <2>1 DEF standings
<1>2. ASSUME NEW id \in Ids, Asked(id) PROVE Pool!Next
  <2>1. standings[id] = "new"
    BY <1>2, StandingIs DEF Asked
  <2>2. \A x \in Ids : Standing(x)' = IF x = id THEN "waiting" ELSE Standing(x)
    BY <1>2, <1>p DEF Asked, Standing, Live
  <2>3. standings' = [standings EXCEPT ![id] = "waiting"]
    BY <2>2 DEF standings
  <2> QED
    BY <2>1, <2>3, PoolOpeners DEF Pool!Next, Pool!Ask
<1>3. ASSUME NEW id \in Ids, Turned(id) PROVE Pool!Next
  <2>1. standings[id] = "new"
    BY <1>3, StandingIs DEF Turned
  <2>2. \A x \in Ids : Standing(x)' = IF x = id THEN "left" ELSE Standing(x)
    BY <1>3, <1>p DEF Turned, Standing, Live
  <2>3. standings' = [standings EXCEPT ![id] = "left"]
    BY <2>2 DEF standings
  <2> QED
    BY <2>1, <2>3, PoolOpeners DEF Pool!Next, Pool!Refuse
<1>4. ASSUME NEW id \in Ids, Granted(id) PROVE Pool!Next
  <2>1. standings[id] = "waiting"
    BY <1>4, StandingIs DEF Granted
  <2>2. standings' = [standings EXCEPT ![id] = "holding"]
    BY <1>4, <1>p DEF Granted, standings, Standing, Live
  <2>3. Cardinality(Pool!Holding(Pool!Openers)) < DynamicBudget
    BY <1>4, PoolOpeners, PoolHolds DEF Granted, liveDynamicCount
  <2>4. id \in LongKind => /\ Cardinality(Pool!Holding(LongKind)) < MaxLong
                           /\ \A s \in Shorts : standings[s] # "waiting"
    BY <1>4, PoolHolds, StandingIs, Kinds DEF Granted, liveLongLivedCount
  <2>5. Pool!Grant(id)
    <3> HIDE DEF standings, Pool!Openers
    <3> QED
      BY <2>1, <2>2, <2>3, <2>4, PoolCardinality DEF Pool!Grant
  <2> QED
    BY <2>5, PoolOpeners DEF Pool!Next
<1>5. ASSUME NEW S \in SUBSET Ids, Left(S) PROVE Pool!Next
  <2>1. \A id \in S : standings[id] \in {"waiting", "holding"}
    BY <1>5, StandingIs DEF Left, Known
  <2>2. standings' = [id \in Ids |-> IF id \in S THEN "left" ELSE standings[id]]
    BY <1>5, <1>p DEF Left, standings, Standing, Live
  <2>3. Pool!Leave(S)
    BY <2>1, <2>2, PoolOpeners DEF Pool!Leave
  <2> QED
    BY <2>3, PoolOpeners DEF Pool!Next
<1> QED
  BY <1>1, <1>2, <1>3, <1>4, <1>5 DEF PhaseChange

\* The worker's admission implements the slot pool: a slot is granted only
\* within the budget, and to a long-lived opener only when no short one waits.
THEOREM PoolImplemented == Spec => PoolSpec
<1>1. Init => Pool!Init
  <2> SUFFICES ASSUME Init PROVE Pool!Init
    OBVIOUS
  <2>1. \A id \in Ids : Standing(id) = "new"
    <3>1. \A id \in Ids : phase[id] = "None"
      BY DEF Init
    <3> QED
      BY <3>1 DEF Standing, Live
  <2>2. standings = [id \in Ids |-> "new"]
    BY <2>1 DEF standings
  <2> QED
    BY <2>2, PoolOpeners DEF Pool!Init
<1>2. TypeOK /\ TypeOK' /\ QueuesMatchPhases /\ [Next]_vars => [Pool!Next]_standings
  BY PhaseStep, PoolStep
<1> QED
  BY <1>1, <1>2, TypeCorrect, QueuesCorrect, PTL DEF Spec, PoolSpec, Pool!Spec

-----------------------------------------------------------------------------
(* Answers                                                                 *)

\* What an opener has heard while the worker knows it, completed by its end.
LEMMA Endings ==
  ASSUME NEW id \in Ids
  PROVE  /\ Append(HeardSoFar(id), Ending(id)) \in EndsOf(id)
         /\ id \in Ptys => Append(Append(<<>>, "openFailed"), "closed") \in EndsOf(id)
         /\ id \in Ptys => Append(<<>>, "openFailed") \in EndsOf(id)
         /\ id \in Execs => Append(<<>>, "done") \in EndsOf(id)
<1>1. CASE id \in Ptys
  <2>1. id \notin Execs
    BY <1>1, IdAssumption
  <2>2. EndsOf(id) = {<<"openFailed">>, <<"openFailed", "closed">>, <<"closed">>,
                      <<"opened", "closed">>} /\ Ending(id) = "closed"
    BY <1>1 DEF EndsOf, Ending
  <2>3. HeardSoFar(id) = <<"opened">> \/ HeardSoFar(id) = <<>>
    BY DEF HeardSoFar
  <2>4. Append(<<>>, "openFailed") = <<"openFailed">> /\ Append(<<>>, "closed") = <<"closed">>
    OBVIOUS
  <2>5. /\ Append(<<"openFailed">>, "closed") = <<"openFailed", "closed">>
        /\ Append(<<"opened">>, "closed") = <<"opened", "closed">>
    BY AppendPair
  <2> QED
    BY <2>1, <2>2, <2>3, <2>4, <2>5
<1>2. CASE id \notin Ptys
  <2>1. Append(<<>>, "done") = <<"done">>
    OBVIOUS
  <2> QED
    BY <1>2, <2>1 DEF EndsOf, Ending, HeardSoFar
<1> QED
  BY <1>1, <1>2

LEMMA AnswerStep ==
  TypeOK /\ QueuesMatchPhases /\ AnsweredOnce /\ [Next]_vars => AnsweredOnce'
<1> SUFFICES ASSUME TypeOK, QueuesMatchPhases, AnsweredOnce, [Next]_vars
             PROVE  AnsweredOnce'
  OBVIOUS
<1>t. /\ phase \in [Ids -> Phases] /\ answers \in [Ids -> Seq(Signals)]
      /\ execOps \in Seq(Execs)
  BY DEF TypeOK
<1>disjoint. \A e \in Execs : e \notin Ptys
  BY IdAssumption
<1>heard. \A id \in Ids : phase[id] # "Gone" => answers[id] = HeardSoFar(id)
  BY DEF AnsweredOnce
<1>ends. \A id \in Ids : EndsOf(id)' = EndsOf(id)
  BY DEF EndsOf
<1>same. ASSUME UNCHANGED <<phase, answers>> PROVE AnsweredOnce'
  BY <1>same, <1>ends DEF AnsweredOnce, HeardSoFar
<1>drop. ASSUME NEW S \in SUBSET Ids, DropAll(S) PROVE AnsweredOnce'
  <2> SUFFICES ASSUME NEW id \in Ids
               PROVE  IF phase'[id] = "Gone" THEN answers'[id] \in EndsOf(id)
                                             ELSE answers'[id] = HeardSoFar(id)'
    BY <1>ends DEF AnsweredOnce
  <2>1. CASE id \in Dropped(S)
    <3>1. phase'[id] = "Gone" /\ answers'[id] = Append(answers[id], Ending(id))
      BY <1>drop, <2>1 DEF DropAll
    <3>2. phase[id] # "Gone"
      BY <2>1 DEF Dropped, Known, Live
    <3> QED
      BY <3>1, <3>2, <1>heard, Endings
  <2>2. CASE id \notin Dropped(S)
    <3>1. phase'[id] = phase[id] /\ answers'[id] = answers[id]
      BY <1>drop, <2>2 DEF DropAll
    <3> QED
      BY <3>1 DEF AnsweredOnce, HeardSoFar
  <2> QED
    BY <2>1, <2>2
<1>move. ASSUME NEW id \in Ids, phase[id] # "Gone", HeardSoFar(id) = <<>>,
                NEW ph, ph # "Gone", id \in Ptys => ph # "Open",
                phase' = [phase EXCEPT ![id] = ph], UNCHANGED answers
         PROVE  AnsweredOnce'
  <2>1. answers'[id] = <<>> /\ phase'[id] = ph /\ HeardSoFar(id)' = <<>>
    BY <1>move, <1>heard, <1>t DEF HeardSoFar
  <2>2. \A x \in Ids \ {id} : phase'[x] = phase[x]
    BY <1>move, <1>t
  <2> QED
    BY <1>move, <2>1, <2>2, <1>ends DEF AnsweredOnce, HeardSoFar
<1>one. ASSUME NEW id \in Ids, NEW end \in EndsOf(id),
               phase' = [phase EXCEPT ![id] = "Gone"],
               answers' = [answers EXCEPT ![id] = end]
        PROVE  AnsweredOnce'
  <2>1. answers'[id] = end /\ phase'[id] = "Gone"
    BY <1>one, <1>t
  <2>2. \A x \in Ids \ {id} : phase'[x] = phase[x] /\ answers'[x] = answers[x]
    BY <1>one, <1>t
  <2> QED
    BY <1>one, <2>1, <2>2, <1>ends DEF AnsweredOnce, HeardSoFar
<1>finish. ASSUME NEW p \in Ptys, NEW h, NEW o, NEW rest,
                  Append(h, "closed") \in EndsOf(p), FinishChannel(p, h, o, rest)
           PROVE  AnsweredOnce'
  BY <1>finish, <1>one, Kinds DEF FinishChannel
<1>lose. ASSUME EnterConnectionLost PROVE AnsweredOnce'
  BY <1>lose, <1>drop DEF EnterConnectionLost
<1>1. CASE Event
  <2>1. CASE StartConnect
    BY <2>1, <1>lose, <1>same DEF StartConnect
  <2>2. CASE RequestDisconnect
    BY <2>2, <1>drop, Kinds DEF RequestDisconnect
  <2>3. ASSUME NEW p \in Ptys, RequestOpenChannel(p) PROVE AnsweredOnce'
    <3>1. /\ p \in Ids /\ phase[p] = "None" /\ answers[p] = <<>>
          /\ HeardSoFar(p) = <<>> /\ Append(<<>>, "openFailed") \in EndsOf(p)
      BY <2>3, <1>heard, Kinds, Endings DEF RequestOpenChannel, HeardSoFar
    <3>2. CASE Refused
      <4>1. answers' = [answers EXCEPT ![p] = Append(<<>>, "openFailed")]
        BY <2>3, <3>1, <3>2 DEF RequestOpenChannel, Told
      <4> QED
        BY <2>3, <3>1, <3>2, <4>1, <1>one DEF RequestOpenChannel
    <3>3. CASE ~Refused
      BY <2>3, <3>1, <3>3, <1>move DEF RequestOpenChannel
    <3> QED
      BY <3>2, <3>3
  <2>4. ASSUME NEW e \in Execs, RequestExec(e) PROVE AnsweredOnce'
    <3>1. /\ e \in Ids /\ e \notin Ptys /\ phase[e] = "None" /\ answers[e] = <<>>
          /\ HeardSoFar(e) = <<>> /\ Append(<<>>, "done") \in EndsOf(e)
      BY <2>4, <1>heard, <1>disjoint, Kinds, Endings DEF RequestExec, HeardSoFar
    <3>2. CASE Refused
      <4>1. answers' = [answers EXCEPT ![e] = Append(<<>>, "done")]
        BY <2>4, <3>1, <3>2 DEF RequestExec, Told
      <4>2. phase' = [phase EXCEPT ![e] = "Gone"]
        BY <2>4, <3>2 DEF RequestExec
      <4> QED
        BY <3>1, <4>1, <4>2, <1>one
    <3>3. CASE ~Refused
      <4>1. phase' = [phase EXCEPT ![e] = "Queued"] /\ UNCHANGED answers
        BY <2>4, <3>3 DEF RequestExec
      <4> QED
        BY <3>1, <4>1, <1>move
    <3> QED
      BY <3>2, <3>3
  <2>5. ASSUME NEW p \in Ptys, RequestCloseChannel(p) PROVE AnsweredOnce'
    <3>1. p \in Ids /\ phase[p] # "Gone" /\ Ending(p) = "closed"
      BY <2>5, Kinds DEF RequestCloseChannel, Known, Live, Ending
    <3>2. Append(answers[p], "closed") \in EndsOf(p)
      BY <3>1, <1>heard, Endings
    <3> QED
      BY <2>5, <3>2, <1>finish DEF RequestCloseChannel
  <2>6. ASSUME NEW e \in Execs, RequestExecCancel(e) PROVE AnsweredOnce'
    <3>1. e \in Ids /\ e \notin Ptys /\ HeardSoFar(e) = <<>>
      BY <1>disjoint, Kinds DEF HeardSoFar
    <3> QED
      BY <2>6, <3>1, <1>move DEF RequestExecCancel, Known, Live
  <2>7. CASE \/ \E p \in Ptys : RequestWrite(p)
             \/ \E e \in Execs : RequestExecWrite(e)
             \/ RequestSftp \/ RequestSftpCancelBulk \/ SocketActivity \/ AcceptHostKey
    BY <2>7, <1>same DEF RequestWrite, RequestExecWrite, RequestSftp,
       RequestSftpCancelBulk, SocketActivity, AcceptHostKey
  <2>8. CASE MaintenanceTick \/ KeepaliveLost \/ RejectHostKey
    BY <2>8, <1>same, <1>lose DEF MaintenanceTick, KeepaliveLost, RejectHostKey, Lose
  <2> QED
    BY <1>1, <2>1, <2>2, <2>3, <2>4, <2>5, <2>6, <2>7, <2>8 DEF Event
<1>2. CASE WorkerStep
  <2>1. CASE \/ PumpReturns \/ PumpConnects \/ PumpReady \/ AdmitDone \/ SetupDone
             \/ ReadDone \/ FlushDone \/ ExecReturns \/ SetupStart \/ ReadStart
             \/ ServiceSftp \/ PumpCloses \/ ArmForCloses \/ TickEnd
    BY <2>1, <1>same DEF PumpReturns, PumpConnects, PumpReady, AdmitDone, SetupDone,
       ReadDone, FlushDone, ExecReturns, SetupStart, ReadStart, ServiceSftp,
       PumpCloses, ArmForCloses, TickEnd
  <2>2. CASE PumpLoses \/ WriteError \/ \E p \in Ptys : ReadError(p)
    BY <2>2, <1>lose DEF PumpLoses, WriteError, ReadError, Lose
  <2>3. CASE AdmitShort \/ AdmitLong
    <3>1. /\ \E id : phase' = [phase EXCEPT ![id] = IF @ = "Queued" THEN "Opening" ELSE @]
          /\ UNCHANGED answers
      BY <2>3 DEF AdmitShort, AdmitLong, Promote
    <3>2. \A id \in Ids : /\ phase'[id] = "Gone" <=> phase[id] = "Gone"
                          /\ phase'[id] = "Open" <=> phase[id] = "Open"
      BY <3>1, <1>t
    <3> QED
      BY <3>1, <3>2, <1>ends DEF AnsweredOnce, HeardSoFar
  <2>4. ASSUME NEW p \in Ptys, SetupAdvance(p) PROVE AnsweredOnce'
    <3>1. /\ p \in Ids /\ phase[p] \in {"Opening", "Setup"}
          /\ HeardSoFar(p) = <<>> /\ answers[p] = <<>>
      BY <2>4, <1>heard, Kinds DEF SetupAdvance, SettingUp, HeardSoFar
    <3>2. PICK next \in {"Opening", "Setup", "Open"} :
            /\ phase' = [phase EXCEPT ![p] = next]
            /\ answers' = IF next = "Open" THEN Told(p, "opened") ELSE answers
      BY <2>4, <3>1 DEF SetupAdvance, Onward
    <3>3. CASE next = "Open"
      <4>1. answers'[p] = <<"opened">> /\ phase'[p] = "Open"
        BY <3>1, <3>2, <3>3, <1>t DEF Told
      <4>2. \A x \in Ids \ {p} : phase'[x] = phase[x] /\ answers'[x] = answers[x]
        BY <3>2, <3>3, <1>t DEF Told
      <4> QED
        BY <4>1, <4>2, <1>ends DEF AnsweredOnce, HeardSoFar
    <3>4. CASE next # "Open"
      BY <3>1, <3>2, <3>4, <1>move
    <3> QED
      BY <3>3, <3>4
  <2>5. ASSUME NEW p \in Ptys, SetupBusy(p) PROVE AnsweredOnce'
    BY <2>5, <1>same DEF SetupBusy
  <2>6. ASSUME NEW p \in Ptys, SetupError(p) \/ ReadEof(p) PROVE AnsweredOnce'
    <3>1. CASE SetupError(p)
      <4>1. p \in Ids /\ answers[p] = <<>>
        BY <3>1, <1>heard, Kinds DEF SetupError, SettingUp, HeardSoFar
      <4>2. Append(Append(answers[p], "openFailed"), "closed") \in EndsOf(p)
        BY <4>1, Endings
      <4> QED
        BY <3>1, <4>2, <1>finish DEF SetupError
    <3>2. CASE ReadEof(p)
      <4>1. p \in Ids /\ phase[p] # "Gone" /\ Ending(p) = "closed"
        BY <3>2, Kinds DEF ReadEof, Ending
      <4>2. Append(answers[p], "closed") \in EndsOf(p)
        BY <4>1, <1>heard, Endings
      <4> QED
        BY <3>2, <4>2, <1>finish DEF ReadEof
    <3> QED
      BY <2>6, <3>1, <3>2
  <2>7. ASSUME NEW i \in 1 .. Len(execOps), ExecAdvance(i) \/ ExecBusy(i) \/ ExecDone(i)
        PROVE AnsweredOnce'
    <3>1. execOps[i] \in Ids /\ execOps[i] \in Execs /\ Contains(execOps, execOps[i])
      BY <1>t, ElementOfSeq, Kinds DEF Contains
    <3>2. phase[execOps[i]] # "Gone"
      BY <3>1 DEF QueuesMatchPhases, Known, Live
    <3>6. execOps[i] \notin Ptys /\ HeardSoFar(execOps[i]) = <<>>
      BY <3>1, <1>disjoint DEF HeardSoFar
    <3>3. CASE ExecAdvance(i)
      <4>1. /\ \E next : next # "Gone" /\ phase' = [phase EXCEPT ![execOps[i]] = next]
            /\ UNCHANGED answers
        BY <3>2, <3>3 DEF ExecAdvance, Onward
      <4> QED
        BY <4>1, <3>1, <3>2, <3>6, <1>move
    <3>4. CASE ExecBusy(i)
      BY <3>4, <1>same DEF ExecBusy
    <3>5. CASE ExecDone(i)
      <4>1. /\ phase' = [phase EXCEPT ![execOps[i]] = "Gone"]
            /\ answers' = [answers EXCEPT ![execOps[i]] = Append(<<>>, "done")]
        BY <3>5, <3>1, <3>2, <3>6, <1>heard DEF ExecDone, Told
      <4>2. Append(<<>>, "done") \in EndsOf(execOps[i])
        BY <3>1, Endings
      <4> QED
        BY <4>1, <4>2, <3>1, <1>one
    <3> QED
      BY <2>7, <3>3, <3>4, <3>5
  <2> QED
    BY <1>2, <2>1, <2>2, <2>3, <2>4, <2>5, <2>6, <2>7 DEF WorkerStep
<1>3. ASSUME NEW id \in Ids, BackoffElapses(id) PROVE AnsweredOnce'
  BY <1>3, <1>same DEF BackoffElapses
<1>4. CASE UNCHANGED vars
  BY <1>4, <1>same DEF vars
<1> QED
  BY <1>1, <1>2, <1>3, <1>4 DEF Next

\* Exactly one end is told of every opener, when it is dropped and only then; of
\* a terminal never both that it came up and that its set-up failed; of a command
\* the user cancelled nothing.
THEOREM AnswersCorrect == Spec => []AnsweredOnce
<1>1. Init => AnsweredOnce
  BY DEF Init, AnsweredOnce, HeardSoFar
<1>2. TypeOK /\ QueuesMatchPhases /\ AnsweredOnce /\ [Next]_vars => AnsweredOnce'
  BY AnswerStep
<1> QED
  BY <1>1, <1>2, TypeCorrect, QueuesCorrect, PTL DEF Spec

-----------------------------------------------------------------------------
(* No slot is left idle                                                    *)

\* An admission is among the calls of s.
Admits(s) == \E f \in Frames : Contains(s, f) /\ f.call \in {"pump", "admit"}

Admissible == ShortAdmissible \/ LongAdmissible

\* While an opener of a ready session may have a slot, the running handler is going
\* to run the admission, however many loops it is inside.
Conserving == state = "Ready" /\ Admissible => Admits(todo)

LEMMA AdmitsConcat ==
  ASSUME NEW s \in Seq(Frames), NEW t \in Seq(Frames)
  PROVE  Admits(s \o t) <=> Admits(s) \/ Admits(t)
BY ConcatContains DEF Admits

LEMMA AdmitsOne ==
  ASSUME NEW f \in Frames
  PROVE  <<f>> \in Seq(Frames) /\ (Admits(<<f>>) <=> f.call \in {"pump", "admit"})
<1>1. \A g : Contains(<<f>>, g) <=> g = f
  BY DEF Contains
<1> QED
  BY <1>1 DEF Admits

\* Of a handler that goes on: its first call returns, or is taken up again.
LEMMA AdmitsRest ==
  ASSUME todo \in Seq(Frames), todo # <<>>
  PROVE  /\ Tail(todo) \in Seq(Frames) /\ Head(todo) \in Frames
         /\ Admits(todo) <=> Head(todo).call \in {"pump", "admit"} \/ Admits(Tail(todo))
         /\ \A p, i : i \in Nat => /\ Admits(AfterVisit(p)) <=> Admits(todo)
                                   /\ Admits(Proceed(i)) <=> Admits(todo)
<1>1. /\ Tail(todo) \in Seq(Frames) /\ Head(todo) \in Frames
      /\ todo = <<Head(todo)>> \o Tail(todo)
  BY HeadTailProperties
<1>2. \A f \in Frames : Admits(<<f>> \o Tail(todo)) <=>
        f.call \in {"pump", "admit"} \/ Admits(Tail(todo))
  BY <1>1, AdmitsOne, AdmitsConcat
<1>3. \A p : /\ [Head(todo) EXCEPT !.left = @ \ {p}] \in Frames
             /\ [Head(todo) EXCEPT !.left = @ \ {p}].call = Head(todo).call
  BY <1>1 DEF Frames
<1>4. \A i \in Nat : /\ [Head(todo) EXCEPT !.at = i] \in Frames
                     /\ [Head(todo) EXCEPT !.at = i].call = Head(todo).call
  BY <1>1 DEF Frames
<1>5. Admits(todo) <=> Head(todo).call \in {"pump", "admit"} \/ Admits(Tail(todo))
  BY <1>1, <1>2
<1> QED
  BY <1>1, <1>2, <1>3, <1>4, <1>5 DEF AfterVisit, Proceed

LEMMA BodiesAdmit ==
  /\ Admits(PumpBody) /\ PumpBody \in Seq(Frames)
  /\ Admits(<<Frame("pump")>>)
  /\ Admits(<<Frame("pump"), Frame("sftp"), Frame("exec")>>)
  /\ Admits(<<Frame("admit"), Frame("exec")>>)
  /\ AfterFinish \in Seq(Frames)
  /\ ~lost /\ state = "Ready" => Admits(AfterFinish) /\ Admits(AfterCancel)
<1>1. /\ Frame("pump") \in Frames /\ Frame("pump").call = "pump"
      /\ Frame("admit") \in Frames /\ Frame("admit").call = "admit"
  BY FrameType DEF Frame, Calls
<1>2. ASSUME NEW s, NEW f \in Frames, f.call \in {"pump", "admit"}, Len(s) >= 1, s[1] = f,
             Len(s) \in Nat
      PROVE  Admits(s)
  BY <1>2 DEF Admits, Contains
<1>3. /\ Admits(PumpBody) /\ Admits(<<Frame("pump")>>)
      /\ Admits(<<Frame("pump"), Frame("sftp"), Frame("exec")>>)
      /\ Admits(<<Frame("admit"), Frame("exec")>>)
  BY <1>1, <1>2 DEF PumpBody
<1>4. ~lost /\ state = "Ready" => Admits(AfterFinish) /\ Admits(AfterCancel)
  BY <1>1, <1>2 DEF AfterFinish, AfterCancel
<1>5. PumpBody \in Seq(Frames) /\ AfterFinish \in Seq(Frames)
  BY FrameType DEF PumpBody, AfterFinish, Calls
<1> QED
  BY <1>3, <1>4, <1>5

\* A step that moves no opener and keeps the calls that admit.
LEMMA QuietConserves ==
  ASSUME Conserving, UNCHANGED <<state, shortQueue, longQueue>>,
         \A id \in Ids : phase'[id] \in Live <=> phase[id] \in Live,
         Admits(todo) => Admits(todo')
  PROVE  Conserving'
<1>1. LiveIn(Ids)' = LiveIn(Ids) /\ LiveIn(LongKind)' = LiveIn(LongKind)
  BY Kinds DEF LiveIn
<1>2. liveDynamicCount' = liveDynamicCount /\ liveLongLivedCount' = liveLongLivedCount
  BY <1>1 DEF liveDynamicCount, liveLongLivedCount
<1>3. Admissible' <=> Admissible
  BY <1>2 DEF Admissible, ShortAdmissible, LongAdmissible, DynamicBudget, MaxLong
<1> QED
  BY <1>3 DEF Conserving, Admits

LEMMA ConservingStep ==
  TypeOK /\ QueuesMatchPhases /\ LossForgetsAll /\ Conserving /\ [Next]_vars => Conserving'
<1> SUFFICES ASSUME TypeOK, QueuesMatchPhases, LossForgetsAll, Conserving, [Next]_vars
             PROVE  Conserving'
  OBVIOUS
<1>t. /\ phase \in [Ids -> Phases] /\ execOps \in Seq(Execs) /\ todo \in Seq(Frames)
      /\ lost => state = "Disconnected"
  BY DEF TypeOK, LossForgetsAll
<1>ready. ASSUME state' # "Ready" PROVE Conserving'
  BY <1>ready DEF Conserving
<1>will. ASSUME Admits(todo') PROVE Conserving'
  BY <1>will DEF Conserving, Admits
<1>none. ~Admits(<<>>)
  BY DEF Admits, Contains
<1>same. ASSUME UNCHANGED <<state, phase, shortQueue, longQueue>>,
                Admits(todo) => Admits(todo')
         PROVE  Conserving'
  BY <1>same, QuietConserves
<1>lose. ASSUME EnterConnectionLost PROVE Conserving'
  BY <1>lose, <1>ready DEF EnterConnectionLost
<1>finish. ASSUME NEW p \in Ptys, NEW h, NEW o, NEW rest \in Seq(Frames),
                  FinishChannel(p, h, o, rest)
           PROVE  Conserving'
  <2>1. state' = state /\ todo' = AfterFinish \o rest
    BY <1>finish DEF FinishChannel
  <2>2. CASE state = "Ready"
    <3>1. Admits(AfterFinish) /\ AfterFinish \in Seq(Frames)
      BY <1>t, <2>2, BodiesAdmit
    <3> QED
      BY <1>will, <2>1, <3>1, AdmitsConcat
  <2> QED
    BY <1>ready, <2>1, <2>2
<1>return. ASSUME todo # <<>>, Head(todo).call \notin {"pump", "admit"}, Return
           PROVE  Admits(todo) => Admits(todo')
  BY <1>return, <1>t, AdmitsRest DEF Return
<1>1. CASE Event
  <2>1. CASE StartConnect
    BY <2>1, <1>lose, <1>ready DEF StartConnect
  <2>2. CASE RequestDisconnect
    BY <2>2, <1>ready DEF RequestDisconnect
  <2>3. ASSUME NEW p \in Ptys, RequestOpenChannel(p) PROVE Conserving'
    <3>1. CASE Refused
      <4>1. state' = state /\ state # "Ready"
        BY <2>3, <3>1, <1>t DEF RequestOpenChannel, Refused
      <4> QED
        BY <4>1, <1>ready
    <3>2. CASE ~Refused
      BY <2>3, <3>2, <1>will, BodiesAdmit DEF RequestOpenChannel
    <3> QED
      BY <3>1, <3>2
  <2>4. ASSUME NEW e \in Execs, RequestExec(e) PROVE Conserving'
    <3>1. CASE state # "Ready"
      BY <2>4, <3>1, <1>ready DEF RequestExec
    <3>2. CASE state = "Ready"
      <4>1. todo' = <<Frame("admit"), Frame("exec")>>
        BY <2>4, <3>2, <1>t DEF RequestExec, Refused
      <4> QED
        BY <4>1, <1>will, BodiesAdmit
    <3> QED
      BY <3>1, <3>2
  <2>5. ASSUME NEW p \in Ptys, RequestCloseChannel(p) PROVE Conserving'
    <3>1. <<>> \in Seq(Frames)
      OBVIOUS
    <3> QED
      BY <2>5, <3>1, <1>finish DEF RequestCloseChannel
  <2>6. ASSUME NEW e \in Execs, RequestExecCancel(e) PROVE Conserving'
    <3>1. state' = state /\ todo' = AfterCancel
      BY <2>6 DEF RequestExecCancel
    <3> QED
      BY <3>1, <1>t, <1>ready, <1>will, BodiesAdmit
  <2>7. CASE \/ \E p \in Ptys : RequestWrite(p)
             \/ \E e \in Execs : RequestExecWrite(e)
             \/ RequestSftp \/ RequestSftpCancelBulk \/ SocketActivity \/ AcceptHostKey
    BY <2>7, <1>same, <1>none DEF RequestWrite, RequestExecWrite, RequestSftp,
       RequestSftpCancelBulk, SocketActivity, AcceptHostKey, Start, Idle
  <2>8. CASE MaintenanceTick \/ KeepaliveLost \/ RejectHostKey
    BY <2>8, <1>same, <1>lose, <1>none DEF MaintenanceTick, KeepaliveLost, RejectHostKey,
       Lose, Idle
  <2> QED
    BY <1>1, <2>1, <2>2, <2>3, <2>4, <2>5, <2>6, <2>7, <2>8 DEF Event
<1>2. CASE WorkerStep
  <2>1. CASE PumpConnects \/ PumpReady
    <3>1. todo' = PumpBody \o Tail(todo) /\ todo # <<>>
      BY <2>1 DEF PumpConnects, PumpReady, Running
    <3> QED
      BY <3>1, <1>t, <1>will, BodiesAdmit, AdmitsConcat, AdmitsRest
  <2>2. CASE PumpReturns
    BY <2>2, <1>ready DEF PumpReturns
  <2>3. CASE PumpLoses \/ WriteError \/ \E p \in Ptys : ReadError(p)
    BY <2>3, <1>lose DEF PumpLoses, WriteError, ReadError, Lose
  <2>4. CASE AdmitShort \/ AdmitLong
    <3>1. todo' = todo /\ todo # <<>> /\ Head(todo).call = "admit"
      BY <2>4 DEF AdmitShort, AdmitLong, Running
    <3> QED
      BY <3>1, <1>t, <1>will, AdmitsRest
  <2>5. CASE AdmitDone
    <3>1. ~Admissible /\ UNCHANGED <<state, phase, shortQueue, longQueue>>
      BY <2>5 DEF AdmitDone, Admissible
    <3>2. Admissible' <=> Admissible
      BY <3>1 DEF Admissible, ShortAdmissible, LongAdmissible, liveDynamicCount,
         liveLongLivedCount, LiveIn, DynamicBudget, MaxLong
    <3> QED
      BY <3>1, <3>2 DEF Conserving
  <2>6. CASE SetupStart \/ ReadStart
    <3>1. PICK f \in Frames : todo' = <<f>> \o Tail(todo)
      BY <2>6 DEF SetupStart, ReadStart, Frame, Frames, Calls
    <3>2. /\ todo # <<>> /\ Head(todo).call \notin {"pump", "admit"}
          /\ UNCHANGED <<state, phase, shortQueue, longQueue>>
      BY <2>6 DEF SetupStart, ReadStart, Running
    <3> QED
      BY <3>1, <3>2, <1>t, <1>same, AdmitsRest, AdmitsOne, AdmitsConcat
  <2>7. CASE SetupDone \/ ReadDone \/ FlushDone \/ ExecReturns
             \/ ServiceSftp \/ PumpCloses \/ ArmForCloses \/ TickEnd
    <3>1. /\ todo # <<>> /\ Head(todo).call \notin {"pump", "admit"} /\ Return
          /\ UNCHANGED <<state, phase, shortQueue, longQueue>>
      BY <2>7 DEF SetupDone, ReadDone, FlushDone, ExecReturns, ServiceSftp, PumpCloses,
         ArmForCloses, TickEnd, Running
    <3> QED
      BY <3>1, <1>return, <1>same
  <2>8. ASSUME NEW p \in Ptys, SetupAdvance(p) \/ SetupBusy(p) PROVE Conserving'
    <3>1. /\ todo # <<>> /\ todo' = AfterVisit(p) /\ p \in Ids
          /\ UNCHANGED <<state, shortQueue, longQueue>>
      BY <2>8, Kinds DEF SetupAdvance, SetupBusy, Running
    <3>2. \A id \in Ids : phase'[id] \in Live <=> phase[id] \in Live
      BY <2>8, <1>t, <3>1 DEF SetupAdvance, SetupBusy, SettingUp, Onward, Live
    <3>3. Admits(todo) => Admits(todo')
      BY <3>1, <1>t, AdmitsRest
    <3> QED
      BY <3>1, <3>2, <3>3, QuietConserves
  <2>9. ASSUME NEW p \in Ptys, SetupError(p) \/ ReadEof(p) PROVE Conserving'
    <3>1. AfterVisit(p) \in Seq(Frames)
      BY <2>9, <1>t, VisitType DEF SetupError, ReadEof, Running
    <3> QED
      BY <2>9, <3>1, <1>finish DEF SetupError, ReadEof
  <2>10. ASSUME NEW i \in 1 .. Len(execOps), ExecAdvance(i) \/ ExecBusy(i) \/ ExecDone(i)
         PROVE  Conserving'
    <3>1. /\ execOps[i] \in Execs /\ Contains(execOps, execOps[i]) /\ execOps[i] \in Ids
          /\ i \in Nat /\ i + 1 \in Nat /\ todo # <<>>
      BY <2>10, <1>t, ElementOfSeq, LenProperties, Kinds
         DEF Contains, ExecAdvance, ExecBusy, ExecDone, ServesExec, Running
    <3>2. phase[execOps[i]] \in Live
      BY <2>10, <3>1 DEF ExecAdvance, ExecBusy, ExecDone, IsNextOp, QueuesMatchPhases, Known
    <3>3. CASE ExecAdvance(i) \/ ExecBusy(i)
      <4>1. todo' = Proceed(i + 1) /\ UNCHANGED <<state, shortQueue, longQueue>>
        BY <3>3 DEF ExecAdvance, ExecBusy
      <4>2. \A id \in Ids : phase'[id] \in Live <=> phase[id] \in Live
        BY <3>1, <3>2, <3>3, <1>t DEF ExecAdvance, ExecBusy, Onward, Live
      <4>3. Admits(todo) => Admits(todo')
        BY <3>1, <4>1, <1>t, AdmitsRest
      <4> QED
        BY <4>1, <4>2, <4>3, QuietConserves
    <3>4. CASE ExecDone(i)
      <4>1. todo' = <<Frame("admit")>> \o Proceed(i)
        BY <3>4 DEF ExecDone
      <4>2. Frame("admit") \in Frames /\ Frame("admit").call = "admit"
        BY FrameType DEF Frame, Calls
      <4>3. Proceed(i) \in Seq(Frames)
        BY <3>1, <1>t, VisitType
      <4> QED
        BY <4>1, <4>2, <4>3, <1>will, AdmitsOne, AdmitsConcat
    <3> QED
      BY <2>10, <3>3, <3>4
  <2> QED
    BY <1>2, <2>1, <2>2, <2>3, <2>4, <2>5, <2>6, <2>7, <2>8, <2>9, <2>10 DEF WorkerStep
<1>3. ASSUME NEW id \in Ids, BackoffElapses(id) PROVE Conserving'
  BY <1>3, <1>same DEF BackoffElapses
<1>4. CASE UNCHANGED vars
  BY <1>4, <1>same DEF vars
<1> QED
  BY <1>1, <1>2, <1>3, <1>4 DEF Next

\* Between handlers of a ready session nobody waits beside a slot it may have: every
\* path that frees a slot, inside whatever loop, leads through the admission.
THEOREM ConservesWork == Spec => []WorkConserving
<1>1. Init => Conserving
  BY DEF Init, Conserving
<1>2. Conserving => WorkConserving
  BY DEF Conserving, WorkConserving, Idle, Admissible, Admits, Contains
<1> QED
  BY <1>1, <1>2, ConservingStep, TypeCorrect, QueuesCorrect, LossCorrect, PTL DEF Spec
=============================================================================
