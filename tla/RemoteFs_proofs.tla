-------------------------- MODULE RemoteFs_proofs --------------------------
(***************************************************************************)
(* Theorems about RemoteFs, for every set of calls and every bound.        *)
(***************************************************************************)
EXTENDS RemoteFs, SequenceFacts

-----------------------------------------------------------------------------
(* Type correctness                                                        *)

LEMMA CallKinds ==
  /\ Bulk \subseteq Calls /\ Meta \subseteq Calls /\ Reads \subseteq Calls
  /\ Streams \subseteq Calls /\ Writes \subseteq Calls /\ Stats \subseteq Calls
  /\ Dirs \subseteq Calls /\ Renames \subseteq Calls
BY DEF Calls, Bulk, Meta

LEMMA RequestType ==
  /\ \A c \in Calls : <<c, 0>> \in Reqs /\ Call(<<c, 0>>) = c
  /\ \A r \in Reqs : Call(r) \in Calls /\ Attempt(r) \in 0 .. MaxRetries
                     /\ r = <<Call(r), Attempt(r)>>
  /\ \A r \in Reqs : Attempt(r) < MaxRetries =>
        NextAttempt(r) \in Reqs /\ Call(NextAttempt(r)) = Call(r)
BY BoundAssumption DEF Reqs, Call, Attempt, NextAttempt

LEMMA MessageType ==
  /\ \A r \in Reqs : Order("start", r) \in OrderType /\ Order("cancel", r) \in OrderType
  /\ Order("connect", NoReq) \in OrderType /\ Order("disconnect", NoReq) \in OrderType
  /\ \A r \in Reqs, reason \in Reasons : Done(r, reason) \in SignalType
  /\ \A r \in Reqs : Signal("chunk", r) \in SignalType
  /\ Signal("lost", NoReq) \in SignalType
  /\ {"none", "notConnected", "disconnected", "sftpSession", "connectionLost",
      "permanent"} = Reasons
BY DEF Order, OrderType, Done, Signal, SignalType, Reasons

LEMMA FailedType ==
  ASSUME NEW ops \in Seq(Reqs), NEW reason \in Reasons
  PROVE  /\ Failed(ops, reason) \in Seq(SignalType)
         /\ Len(Failed(ops, reason)) = Len(ops)
         /\ \A i \in 1 .. Len(ops) : Failed(ops, reason)[i] = Done(ops[i], reason)
<1>1. DOMAIN ops = 1 .. Len(ops) /\ Len(ops) \in Nat /\ \A i \in 1 .. Len(ops) : ops[i] \in Reqs
  BY LenProperties, ElementOfSeq
<1>2. Failed(ops, reason) = [i \in 1 .. Len(ops) |-> Done(ops[i], reason)]
  BY <1>1 DEF Failed
<1>3. \A i \in 1 .. Len(ops) : Done(ops[i], reason) \in SignalType
  BY <1>1, MessageType
<1>4. [i \in 1 .. Len(ops) |-> Done(ops[i], reason)] \in Seq(SignalType)
  BY <1>1, <1>3, IsASeq
<1>5. Len([i \in 1 .. Len(ops) |-> Done(ops[i], reason)]) = Len(ops)
  BY <1>1, <1>4, LenProperties
<1> QED
  BY <1>2, <1>4, <1>5

LEMMA FailAllType ==
  ASSUME TypeOK, NEW reason \in Reasons
  PROVE  failAllSftp(reason) \in Seq(SignalType)
<1>1. queue["bulk"] \in Seq(Reqs) /\ queue["meta"] \in Seq(Reqs)
  BY DEF TypeOK, Lanes
<1>2. queue["bulk"] \o queue["meta"] \in Seq(Reqs)
  BY <1>1, ConcatProperties
<1> QED
  BY <1>2, FailedType DEF failAllSftp

\* The types in the three groups the actions touch.
UiType ==
  /\ asked \in Seq(Calls) /\ waiting \subseteq Reqs /\ backoff \subseteq Reqs
  /\ answers \in [Calls -> Seq(BOOLEAN)] /\ delivered \in [Streams -> Nat]
  /\ cancelled \subseteq Calls /\ alive \in BOOLEAN /\ ended \in BOOLEAN
  /\ connects \in 0 .. MaxConnects
WorkerType ==
  /\ state \in {"Idle", "Connecting", "Ready", "Disconnected"} /\ lost \in BOOLEAN
  /\ queue \in [Lanes -> Seq(Reqs)] /\ inited \subseteq Lanes
  /\ opened \subseteq Reqs /\ serving \in Lanes \union {"none"}
ServerType ==
  /\ handles \subseteq Reqs /\ chunks \in [Streams -> 0 .. MaxChunks]
  /\ performed \subseteq Reqs
PostedType == posted \in Seq(OrderType)
ResultsType == results \in Seq(SignalType)

LEMMA TypeGroups ==
  /\ TypeOK <=> UiType /\ PostedType /\ ResultsType /\ WorkerType /\ ServerType
  /\ TypeOK' <=> UiType' /\ PostedType' /\ ResultsType' /\ WorkerType' /\ ServerType'
BY DEF TypeOK, UiType, PostedType, ResultsType, WorkerType, ServerType

LEMMA CallbacksType ==
  ASSUME UiType, NEW S \in SUBSET Reqs, NEW reason, RunCallbacks(S, reason)
  PROVE  /\ waiting' \subseteq Reqs /\ backoff' \subseteq Reqs
         /\ answers' \in [Calls -> Seq(BOOLEAN)]
<1>1. waiting' \subseteq Reqs
  BY DEF RunCallbacks, UiType
<1>2. backoff' \subseteq Reqs
  BY RequestType DEF RunCallbacks, UiType, WillRetry
<1>3. \A c \in Calls : Append(answers[c], reason = "none") \in Seq(BOOLEAN)
  <2> TAKE c \in Calls
  <2>1. answers[c] \in Seq(BOOLEAN) /\ (reason = "none") \in BOOLEAN
    BY DEF UiType
  <2> QED
    BY <2>1, AppendProperties
<1>4. answers' \in [Calls -> Seq(BOOLEAN)]
  BY <1>3 DEF RunCallbacks, UiType
<1> QED
  BY <1>1, <1>2, <1>4

LEMMA PostType ==
  ASSUME PostedType, NEW o \in OrderType, Post(o)
  PROVE  PostedType'
BY AppendProperties DEF PostedType, Post

LEMMA EmitType ==
  ASSUME ResultsType, NEW s \in Seq(SignalType), Emit(s)
  PROVE  ResultsType'
BY ConcatProperties DEF ResultsType, Emit

\* The lane loop works on a request of its lane.
LEMMA OpType ==
  ASSUME WorkerType, Working
  PROVE  /\ serving \in Lanes /\ laneQueue \in Seq(Reqs)
         /\ Op \in Reqs /\ Tail(laneQueue) \in Seq(Reqs)
         /\ laneQueue # <<>>
<1>1. serving \in Lanes /\ laneQueue \in Seq(Reqs) /\ laneQueue # <<>>
  BY DEF WorkerType, Working, laneQueue
<1> QED
  BY <1>1, HeadTailProperties DEF Op

LEMMA EndOpType ==
  ASSUME WorkerType, ResultsType, handles \subseteq Reqs, Working,
         NEW reason \in Reasons, EndOp(reason)
  PROVE  /\ WorkerType' /\ ResultsType' /\ handles' \subseteq Reqs
         /\ chunks' = chunks
<1>1. serving \in Lanes /\ Op \in Reqs /\ Tail(queue[serving]) \in Seq(Reqs)
  BY OpType DEF laneQueue
<1>2. <<Done(Op, reason)>> \in Seq(SignalType)
  BY <1>1, MessageType
<1>3. ResultsType'
  BY <1>2, EmitType DEF EndOp
<1>4. queue' \in [Lanes -> Seq(Reqs)]
  BY <1>1 DEF EndOp, WorkerType
<1> QED
  BY <1>3, <1>4 DEF EndOp, WorkerType

LEMMA UiStep ==
  ASSUME TypeOK,
         \/ \E c \in Calls : Ask(c) \/ cancelReadAsync(c)
         \/ \E r \in Reqs : BackoffFires(r)
         \/ connectToHost \/ disconnectFromHost \/ Deliver \/ DestroyBackend
  PROVE  TypeOK'
<1> USE DEF ui, worker, server
<1>t. UiType /\ PostedType /\ ResultsType /\ WorkerType /\ ServerType
  BY TypeGroups
<1>o. /\ \A c \in Calls : Order("start", <<c, 0>>) \in OrderType
                         /\ Order("cancel", <<c, 0>>) \in OrderType
      /\ \A r \in Reqs : Order("start", r) \in OrderType
      /\ Order("connect", NoReq) \in OrderType /\ Order("disconnect", NoReq) \in OrderType
  BY MessageType, RequestType
<1>1. ASSUME NEW c \in Calls, Ask(c) PROVE TypeOK'
  <2>1. PostedType'
    BY <1>1, <1>t, <1>o, PostType DEF Ask, Issue
  <2>2. asked' \in Seq(Calls)
    BY <1>1, <1>t, AppendProperties DEF Ask, UiType
  <2> QED
    BY <1>1, <1>t, <2>1, <2>2, TypeGroups, RequestType
       DEF Ask, Issue, UiType, ResultsType, WorkerType, ServerType
<1>2. ASSUME NEW c \in Calls, cancelReadAsync(c) PROVE TypeOK'
  <2>1. PostedType'
    BY <1>2, <1>t, <1>o, PostType DEF cancelReadAsync
  <2> QED
    BY <1>2, <1>t, <2>1, TypeGroups
       DEF cancelReadAsync, UiType, ResultsType, WorkerType, ServerType
<1>3. ASSUME NEW r \in Reqs, BackoffFires(r) PROVE TypeOK'
  <2>1. PostedType'
    BY <1>3, <1>t, <1>o, PostType DEF BackoffFires, Issue
  <2> QED
    BY <1>3, <1>t, <2>1, TypeGroups
       DEF BackoffFires, Issue, UiType, ResultsType, WorkerType, ServerType
<1>4. CASE connectToHost
  <2>1. PostedType'
    BY <1>4, <1>t, <1>o, PostType DEF connectToHost
  <2>2. connects' \in 0 .. MaxConnects
    BY <1>4, <1>t, BoundAssumption DEF connectToHost, UiType
  <2> QED
    BY <1>4, <1>t, <2>1, <2>2, TypeGroups
       DEF connectToHost, UiType, ResultsType, WorkerType, ServerType
<1>5. CASE disconnectFromHost
  <2>1. PostedType'
    BY <1>5, <1>t, <1>o, PostType DEF disconnectFromHost
  <2> QED
    BY <1>5, <1>t, <2>1, TypeGroups
       DEF disconnectFromHost, UiType, ResultsType, WorkerType, ServerType
<1>6. CASE Deliver
  <2>1. results \in Seq(SignalType) /\ results # <<>>
    BY <1>6, <1>t DEF Deliver, ResultsType
  <2>2. Head(results) \in SignalType /\ Tail(results) \in Seq(SignalType)
    BY <2>1, HeadTailProperties
  <2>3. UiType'
    <3> DEFINE s == Head(results)
    <3>1. CASE onResult(s.req, s.reason)
      <4>1. Matching(s.req) \in SUBSET Reqs
        BY <1>t DEF Matching, UiType
      <4>2. /\ waiting' \subseteq Reqs /\ backoff' \subseteq Reqs
            /\ answers' \in [Calls -> Seq(BOOLEAN)]
        BY <1>t, <3>1, <4>1, CallbacksType DEF onResult
      <4> QED
        BY <1>6, <1>t, <3>1, <4>2 DEF UiType, Deliver, onResult
    <3>2. CASE onStreamChunk(s.req)
      <4>1. \A x \in Streams : delivered[x] + 1 \in Nat
        BY <1>t DEF UiType
      <4>2. delivered' \in [Streams -> Nat]
        BY <1>t, <3>2, <4>1 DEF UiType, onStreamChunk
      <4> QED
        BY <1>6, <1>t, <3>2, <4>2 DEF UiType, Deliver, onStreamChunk
    <3>3. CASE onConnectionLost
      <4>1. /\ waiting' \subseteq Reqs /\ backoff' \subseteq Reqs
            /\ answers' \in [Calls -> Seq(BOOLEAN)]
        BY <1>t, <3>3, CallbacksType DEF onConnectionLost, UiType
      <4> QED
        BY <1>6, <1>t, <3>3, <4>1 DEF UiType, Deliver, onConnectionLost
    <3> QED
      BY <1>6, <3>1, <3>2, <3>3 DEF Deliver
  <2> QED
    BY <1>6, <1>t, <2>2, <2>3, TypeGroups
       DEF Deliver, PostedType, ResultsType, WorkerType, ServerType
<1>7. CASE DestroyBackend
  <2>1. PostedType'
    BY <1>7, <1>t, <1>o, PostType DEF DestroyBackend
  <2>2. \A c \in Calls : Append(answers[c], FALSE) \in Seq(BOOLEAN)
    BY <1>t, AppendProperties DEF UiType
  <2>3. answers' \in [Calls -> Seq(BOOLEAN)]
    BY <1>7, <1>t, <2>2 DEF DestroyBackend, UiType
  <2>4. ResultsType'
    BY <1>7 DEF DestroyBackend, ResultsType
  <2> QED
    BY <1>7, <1>t, <2>1, <2>3, <2>4, TypeGroups
       DEF DestroyBackend, UiType, WorkerType, ServerType
<1> QED
  BY <1>1, <1>2, <1>3, <1>4, <1>5, <1>6, <1>7

LEMMA DropType ==
  ASSUME WorkerType, ServerType, DropSession
  PROVE  /\ state' \in {"Idle", "Connecting", "Ready", "Disconnected"}
         /\ queue' \in [Lanes -> Seq(Reqs)] /\ inited' = {} /\ opened' = {}
         /\ serving' = serving /\ ServerType'
BY DEF DropSession, WorkerType, ServerType

LEMMA WorkerStep ==
  ASSUME TypeOK, Take \/ BecomeReady \/ enterConnectionLost \/ onSocketActivity
  PROVE  TypeOK'
<1> USE DEF ui, worker, server
<1>t. UiType /\ PostedType /\ ResultsType /\ WorkerType /\ ServerType
  BY TypeGroups
<1>r. \A x \in {"notConnected", "disconnected", "connectionLost", "permanent"} :
        x \in Reasons /\ failAllSftp(x) \in Seq(SignalType)
  BY FailAllType, MessageType
<1>1. CASE Take
  <2> DEFINE o == Head(posted)
  <2>1. o \in OrderType /\ PostedType'
    BY <1>1, <1>t, HeadTailProperties DEF Take, PostedType
  <2>2. UiType'
    BY <1>1, <1>t DEF Take, UiType
  <2>3. ASSUME o.do = "start", enqueueSftpOp(o.req), o.req \in Reqs
        PROVE  ResultsType' /\ WorkerType' /\ ServerType'
    <3>1. CASE lost \/ state = "Disconnected"
      <4>1. Refuse(o.req) \in Seq(SignalType)
        BY <2>3, <1>r, MessageType DEF Refuse
      <4> QED
        BY <1>t, <2>3, <3>1, <4>1, EmitType DEF enqueueSftpOp, WorkerType, ServerType
    <3>2. CASE ~(lost \/ state = "Disconnected")
      <4>1. laneForKind(Call(o.req)) \in Lanes
        BY DEF laneForKind, Lanes
      <4>2. Join(laneForKind(Call(o.req)), o.req) \in Seq(Reqs)
        BY <1>t, <2>3, <4>1, AppendProperties DEF Join, WorkerType
      <4>3. queue' \in [Lanes -> Seq(Reqs)]
        BY <1>t, <2>3, <3>2, <4>1, <4>2 DEF enqueueSftpOp, WorkerType
      <4> QED
        BY <1>t, <2>3, <3>2, <4>3
           DEF enqueueSftpOp, WorkerType, ServerType, ServeIf, Lanes, ResultsType
    <3> QED
      BY <3>1, <3>2
  <2>4. ASSUME o.do = "cancel", requestSftpCancelBulk(o.req), o.req \in Reqs
        PROVE  ResultsType' /\ WorkerType' /\ ServerType'
    <3>1. CASE Contains(queue["bulk"], o.req)
      <4>1. <<Done(o.req, "permanent")>> \in Seq(SignalType)
        BY <2>4, <1>r, MessageType
      <4>2. RemoveFirst(queue["bulk"], o.req) \in Seq(Reqs)
        BY <1>t, RemoveFirstType DEF WorkerType, Lanes
      <4>3. queue' \in [Lanes -> Seq(Reqs)]
        BY <1>t, <2>4, <3>1, <4>2 DEF requestSftpCancelBulk, WorkerType
      <4>4. ResultsType'
        BY <1>t, <2>4, <3>1, <4>1, EmitType DEF requestSftpCancelBulk
      <4> QED
        BY <1>t, <2>4, <3>1, <4>3, <4>4
           DEF requestSftpCancelBulk, WorkerType, ServerType, ServeIf, Lanes
    <3>2. CASE ~Contains(queue["bulk"], o.req)
      BY <1>t, <2>4, <3>2 DEF requestSftpCancelBulk, WorkerType, ServerType, ResultsType
    <3> QED
      BY <3>1, <3>2
  <2>5. ASSUME startConnect
        PROVE  ResultsType' /\ WorkerType' /\ ServerType'
    BY <1>t, <2>5 DEF startConnect, WorkerType, ServerType, ResultsType
  <2>6. ASSUME requestDisconnect
        PROVE  ResultsType' /\ WorkerType' /\ ServerType'
    BY <1>t, <1>r, <2>6, DropType, EmitType DEF requestDisconnect, WorkerType
  <2>7. o.do \in {"start", "cancel"} => o.req \in Reqs
    BY <2>1 DEF OrderType
  <2> QED
    BY <1>1, <2>1, <2>2, <2>3, <2>4, <2>5, <2>6, <2>7, TypeGroups DEF Take
<1>2. CASE BecomeReady
  BY <1>2, <1>t, TypeGroups
     DEF BecomeReady, ServeIf, UiType, WorkerType, ServerType, PostedType, ResultsType, Lanes
<1>3. CASE enterConnectionLost
  <2>1. PICK reason \in {"connectionLost", "permanent"} :
           Emit(Append(failAllSftp(reason), Signal("lost", NoReq)))
    BY <1>3 DEF enterConnectionLost
  <2>2. Append(failAllSftp(reason), Signal("lost", NoReq)) \in Seq(SignalType)
    BY <1>r, MessageType, AppendProperties
  <2>3. ResultsType'
    BY <1>t, <2>1, <2>2, EmitType
  <2> QED
    BY <1>3, <1>t, <2>3, DropType, TypeGroups
       DEF enterConnectionLost, UiType, WorkerType, PostedType
<1>4. CASE onSocketActivity
  BY <1>4, <1>t, TypeGroups
     DEF onSocketActivity, ServeIf, UiType, WorkerType, ServerType, PostedType, ResultsType, Lanes
<1> QED
  BY <1>1, <1>2, <1>3, <1>4

LEMMA LaneStep ==
  ASSUME TypeOK, serviceSftp
  PROVE  TypeOK'
<1> USE DEF ui, worker, server
<1>t. UiType /\ PostedType /\ ResultsType /\ WorkerType /\ ServerType
  BY TypeGroups
<1>u. ui' = ui /\ posted' = posted
  BY DEF serviceSftp, LaneEmpty, InitLane, OpAgain, OpOpens, OpTransfers, OpStats, OpRenames
<1>v. UiType' /\ PostedType'
  BY <1>t, <1>u DEF UiType, PostedType
<1>l. LaneReturns => serving' \in Lanes \union {"none"}
  BY DEF LaneReturns, Lanes
<1>o. Working => Op \in Reqs
  BY <1>t, OpType
<1>e. ASSUME NEW reason \in {"none", "sftpSession", "permanent"}, Working, EndOp(reason)
      PROVE  WorkerType' /\ ResultsType' /\ handles' \subseteq Reqs /\ chunks' = chunks
  <2>1. reason \in Reasons
    BY MessageType
  <2> QED
    BY <1>t, <1>e, <2>1, EndOpType DEF ServerType
<1>p. /\ Working /\ Perform => performed' \subseteq Reqs
      /\ Working /\ MayPerform => performed' \subseteq Reqs
      /\ UNCHANGED performed => performed' \subseteq Reqs
  BY <1>t, <1>o DEF Perform, MayPerform, ServerType
<1>1. CASE LaneEmpty
  BY <1>1, <1>t, <1>v, <1>l, TypeGroups DEF LaneEmpty, WorkerType, ServerType, ResultsType
<1>2. CASE InitLane
  <2>1. CASE EndOp("sftpSession")
    BY <1>2, <2>1, <1>t, <1>e, <1>p, <1>v, TypeGroups DEF InitLane, ServerType
  <2>2. CASE ~EndOp("sftpSession")
    BY <1>2, <2>2, <1>t, <1>l, <1>v, OpType, TypeGroups
       DEF InitLane, WorkerType, ServerType, ResultsType
  <2> QED
    BY <2>1, <2>2
<1>3. CASE OpAgain
  BY <1>3, <1>t, <1>l, <1>p, <1>v, TypeGroups
     DEF OpAgain, OnHead, WorkerType, ServerType, ResultsType
<1>4. CASE OpOpens
  <2>1. CASE EndOp("permanent") /\ MayPerform
    BY <1>4, <2>1, <1>t, <1>e, <1>p, <1>v, TypeGroups DEF OpOpens, OnHead, ServerType
  <2>2. CASE ~(EndOp("permanent") /\ MayPerform)
    BY <1>4, <2>2, <1>t, <1>o, <1>p, <1>v, TypeGroups
       DEF OpOpens, OnHead, WorkerType, ServerType, ResultsType
  <2> QED
    BY <2>1, <2>2
<1>5. CASE OpTransfers
  <2>1. CASE EndOp("permanent") \/ EndOp("none")
    BY <1>5, <2>1, <1>t, <1>e, <1>p, <1>v, TypeGroups DEF OpTransfers, OnHead, ServerType
  <2>2. CASE ~(EndOp("permanent") \/ EndOp("none"))
    <3>1. <<Signal("chunk", Op)>> \in Seq(SignalType)
      BY <1>5, <1>o, MessageType DEF OpTransfers, OnHead
    <3>2. ResultsType'
      BY <1>5, <2>2, <1>t, <3>1, EmitType DEF OpTransfers
    <3>3. chunks' \in [Streams -> 0 .. MaxChunks]
      BY <1>5, <2>2, <1>t, BoundAssumption DEF OpTransfers, ServerType
    <3> QED
      BY <1>5, <2>2, <1>t, <3>2, <3>3, <1>p, <1>v, TypeGroups
         DEF OpTransfers, WorkerType, ServerType
  <2> QED
    BY <2>1, <2>2
<1>6. CASE OpStats
  BY <1>6, <1>t, <1>e, <1>p, <1>v, TypeGroups DEF OpStats, OnHead, ServerType
<1>7. CASE OpRenames
  BY <1>7, <1>t, <1>e, <1>p, <1>v, TypeGroups DEF OpRenames, OnHead, ServerType
<1> QED
  BY <1>1, <1>2, <1>3, <1>4, <1>5, <1>6, <1>7 DEF serviceSftp

\* The backend, the worker and the queues between them keep their types, through
\* every interleaving of the two threads.
THEOREM TypeCorrect == Spec => []TypeOK
<1>1. Init => TypeOK
  <2> SUFFICES ASSUME Init PROVE TypeOK
    OBVIOUS
  <2>0. <<>> \in Seq(Calls) /\ <<>> \in Seq(BOOLEAN) /\ <<>> \in Seq(Reqs)
    OBVIOUS
  <2>1. UiType
    <3>1. answers \in [Calls -> Seq(BOOLEAN)] /\ asked \in Seq(Calls)
      BY <2>0 DEF Init
    <3>2. delivered \in [Streams -> Nat] /\ connects \in 0 .. MaxConnects
      BY BoundAssumption DEF Init
    <3> QED
      BY <3>1, <3>2 DEF Init, UiType
  <2>2. PostedType /\ ResultsType
    BY DEF Init, PostedType, ResultsType
  <2>3. WorkerType
    <3>1. queue \in [Lanes -> Seq(Reqs)]
      BY <2>0 DEF Init
    <3> QED
      BY <3>1 DEF Init, WorkerType
  <2>4. ServerType
    BY BoundAssumption DEF Init, ServerType
  <2> QED
    BY <2>1, <2>2, <2>3, <2>4, TypeGroups
<1>2. TypeOK /\ [Next]_vars => TypeOK'
  <2> SUFFICES ASSUME TypeOK, [Next]_vars PROVE TypeOK'
    OBVIOUS
  <2>1. CASE UNCHANGED vars
    BY <2>1 DEF TypeOK, vars, ui, worker, server
  <2>2. CASE Next
    BY <2>2, UiStep, WorkerStep, LaneStep DEF Next
  <2> QED
    BY <2>1, <2>2
<1> QED
  BY <1>1, <1>2, PTL DEF Spec

-----------------------------------------------------------------------------
(* No callback runs twice                                                  *)

\* At any time a call has at most one attempt registered or backing off, none
\* before it is made, and none once it was answered.
Tokens == waiting \union backoff

OneToken ==
  /\ waiting \intersect backoff = {}
  /\ \A r, s \in Tokens : Call(r) = Call(s) => r = s
  /\ \A r \in Tokens : WasAsked(Call(r)) /\ answers[Call(r)] = <<>>
  /\ \A c \in Calls : ~WasAsked(c) => answers[c] = <<>>
  /\ AnsweredOnce

LEMMA AppendOne ==
  ASSUME NEW b \in BOOLEAN
  PROVE  Append(<<>>, b) # <<>> /\ Len(Append(<<>>, b)) = 1
<1>1. <<>> \in Seq(BOOLEAN) /\ Len(<<>>) = 0
  OBVIOUS
<1> QED
  BY <1>1, AppendProperties

\* Running the callbacks of S uses up their tokens.
LEMMA CallbacksUseTokens ==
  ASSUME TypeOK, OneToken, NEW S, S \subseteq waiting, NEW reason,
         RunCallbacks(S, reason), asked' = asked
  PROVE  OneToken'
<1> DEFINE told == {Call(r) : r \in {s \in S : ~WillRetry(s, reason)}}
           again == {s \in S : WillRetry(s, reason)}
<1>1. waiting \subseteq Reqs /\ backoff \subseteq Reqs /\ answers \in [Calls -> Seq(BOOLEAN)]
  BY DEF TypeOK
<1>2. /\ waiting' = waiting \ S
      /\ backoff' = backoff \union {NextAttempt(r) : r \in again}
      /\ answers' = [c \in Calls |->
             IF c \in told THEN Append(answers[c], reason = "none") ELSE answers[c]]
  BY DEF RunCallbacks
<1>3. \A r \in again : Call(NextAttempt(r)) = Call(r) /\ NextAttempt(r) \in Reqs
  BY <1>1, RequestType DEF WillRetry
<1>4. \A c \in told : c \in Calls /\ answers[c] = <<>> /\ WasAsked(c)
  BY <1>1, RequestType DEF OneToken, Tokens
<1>5. \A c \in Calls : WasAsked(c)' <=> WasAsked(c)
  BY DEF WasAsked
<1>6. \A c \in Calls : Len(answers'[c]) <= 1
  <2> TAKE c \in Calls
  <2>1. CASE c \in told
    BY <1>2, <1>4, <2>1, AppendOne
  <2>2. CASE c \notin told
    BY <1>2, <2>2 DEF OneToken, AnsweredOnce
  <2> QED
    BY <2>1, <2>2
<1>7. \A r \in Tokens' : \E s \in Tokens :
         /\ Call(s) = Call(r) /\ Call(r) \notin told
         /\ r = s \/ (s \in again /\ r = NextAttempt(s))
  <2> TAKE r \in Tokens'
  <2>1. CASE r \in {NextAttempt(s) : s \in again}
    <3>1. PICK s \in again : r = NextAttempt(s)
      BY <2>1
    <3>2. s \in Tokens /\ Call(s) = Call(r)
      BY <3>1, <1>3 DEF Tokens
    <3>3. Call(r) \notin told
      BY <3>1, <3>2 DEF OneToken, Tokens
    <3> QED
      BY <3>1, <3>2, <3>3
  <2>2. CASE r \notin {NextAttempt(s) : s \in again}
    <3>1. r \in Tokens /\ r \notin S
      BY <2>2, <1>2 DEF Tokens, OneToken
    <3>2. CASE Call(r) \in told
      <4>1. PICK s \in S : Call(r) = Call(s) /\ ~WillRetry(s, reason)
        BY <3>2
      <4>2. r = s
        BY <4>1, <3>1 DEF OneToken, Tokens
      <4> QED
        BY <4>1, <4>2, <3>1
    <3> QED
      BY <3>1, <3>2
  <2> QED
    BY <2>1, <2>2
<1>8. \A s \in again : s \notin Tokens' /\ NextAttempt(s) # s
  <2> TAKE s \in again
  <2>1. NextAttempt(s) # s
    BY <1>1, RequestType DEF NextAttempt, Call, Attempt, Reqs
  <2>2. s \notin (waiting \ S) /\ s \notin backoff
    BY DEF OneToken
  <2>3. ASSUME NEW t \in again, s = NextAttempt(t) PROVE FALSE
    <3>1. Call(t) = Call(s) /\ t \in Tokens /\ s \in Tokens
      BY <2>3, <1>3 DEF Tokens
    <3>2. t = s
      BY <3>1 DEF OneToken
    <3> QED
      BY <2>1, <2>3, <3>2
  <2> QED
    BY <1>2, <2>1, <2>2, <2>3 DEF Tokens
<1>9. waiting' \intersect backoff' = {}
  <2> SUFFICES ASSUME NEW r \in waiting', r \in backoff' PROVE FALSE
    OBVIOUS
  <2>1. r \in waiting /\ r \notin S /\ r \in Tokens
    BY <1>2 DEF Tokens
  <2>2. PICK s \in again : r = NextAttempt(s)
    BY <1>2, <2>1 DEF OneToken
  <2>3. s = r
    BY <2>1, <2>2, <1>3 DEF OneToken, Tokens
  <2> QED
    BY <2>1, <2>3
<1>10. \A r, s \in Tokens' : Call(r) = Call(s) => r = s
  <2> SUFFICES ASSUME NEW r \in Tokens', NEW s \in Tokens', Call(r) = Call(s)
               PROVE  r = s
    OBVIOUS
  <2>1. PICK u \in Tokens : Call(u) = Call(r) /\ (r = u \/ (u \in again /\ r = NextAttempt(u)))
    BY <1>7
  <2>2. PICK v \in Tokens : Call(v) = Call(s) /\ (s = v \/ (v \in again /\ s = NextAttempt(v)))
    BY <1>7
  <2>3. u = v
    BY <2>1, <2>2 DEF OneToken
  <2> QED
    BY <2>1, <2>2, <2>3, <1>8
<1>11. \A r \in Tokens' : WasAsked(Call(r))' /\ answers'[Call(r)] = <<>>
  <2> TAKE r \in Tokens'
  <2>1. PICK s \in Tokens : Call(s) = Call(r) /\ Call(r) \notin told
    BY <1>7
  <2>2. s \in Reqs /\ Call(s) \in Calls /\ WasAsked(Call(s)) /\ answers[Call(s)] = <<>>
    BY <1>1, RequestType DEF OneToken, Tokens
  <2> QED
    BY <1>2, <1>5, <2>1, <2>2
<1>12. \A c \in Calls : ~WasAsked(c)' => answers'[c] = <<>>
  BY <1>2, <1>4, <1>5 DEF OneToken
<1> QED
  BY <1>6, <1>9, <1>10, <1>11, <1>12 DEF OneToken, AnsweredOnce

LEMMA TokenStep == TypeOK /\ OneToken /\ [Next]_vars => OneToken'
<1> SUFFICES ASSUME TypeOK, OneToken, [Next]_vars PROVE OneToken'
  OBVIOUS
<1>1. /\ waiting \subseteq Reqs /\ backoff \subseteq Reqs
      /\ answers \in [Calls -> Seq(BOOLEAN)] /\ asked \in Seq(Calls)
  BY DEF TypeOK
<1>2. ASSUME NEW c \in Calls, Ask(c) PROVE OneToken'
  <2>1. /\ waiting' = waiting \union {<<c, 0>>} /\ backoff' = backoff
        /\ answers' = answers /\ asked' = Append(asked, c) /\ ~WasAsked(c)
    BY <1>2 DEF Ask, Issue
  <2>2. \A d \in Calls : WasAsked(d)' <=> (WasAsked(d) \/ d = c)
    BY <1>1, <2>1, AppendContains DEF WasAsked
  <2>3. \A r \in Tokens : Call(r) # c
    BY <2>1 DEF OneToken
  <2>4. Call(<<c, 0>>) = c /\ Tokens' = Tokens \union {<<c, 0>>} /\ <<c, 0>> \notin Tokens
    BY <2>1, <2>3, RequestType DEF Tokens
  <2>5. \A r \in Tokens : Call(r) \in Calls
    BY <1>1, RequestType DEF Tokens
  <2>6. waiting' \intersect backoff' = {}
    BY <2>1, <2>4 DEF OneToken, Tokens
  <2>7. \A r, s \in Tokens' : Call(r) = Call(s) => r = s
    BY <2>3, <2>4 DEF OneToken
  <2>8. \A r \in Tokens' : WasAsked(Call(r))' /\ answers'[Call(r)] = <<>>
    BY <2>1, <2>2, <2>4, <2>5 DEF OneToken
  <2> QED
    BY <2>1, <2>2, <2>6, <2>7, <2>8 DEF OneToken, AnsweredOnce
<1>3. ASSUME NEW r \in Reqs, BackoffFires(r) PROVE OneToken'
  <2>1. /\ r \in backoff /\ waiting' = waiting \union {r} /\ backoff' = backoff \ {r}
        /\ answers' = answers /\ asked' = asked
    BY <1>3 DEF BackoffFires, Issue
  <2>2. Tokens' = Tokens
    BY <2>1 DEF Tokens
  <2> QED
    BY <2>1, <2>2 DEF OneToken, AnsweredOnce, WasAsked
<1>4. ASSUME waiting' \subseteq waiting, backoff' \subseteq backoff,
             answers' = answers, asked' = asked
      PROVE  OneToken'
  <2>1. Tokens' \subseteq Tokens
    BY <1>4 DEF Tokens
  <2> QED
    BY <1>4, <2>1 DEF OneToken, AnsweredOnce, WasAsked
<1>5. CASE Deliver
  <2>1. asked' = asked
    BY <1>5 DEF Deliver
  <2>2. ASSUME NEW r, NEW reason, onResult(r, reason) PROVE OneToken'
    BY <2>1, <2>2, CallbacksUseTokens DEF onResult, Matching
  <2>3. ASSUME NEW r, onStreamChunk(r) PROVE OneToken'
    BY <2>1, <2>3, <1>4 DEF onStreamChunk
  <2>4. CASE onConnectionLost
    BY <2>1, <2>4, CallbacksUseTokens DEF onConnectionLost
  <2> QED
    BY <1>5, <2>2, <2>3, <2>4 DEF Deliver
<1>6. CASE DestroyBackend
  <2> DEFINE told == {c \in Calls : \E r \in waiting : Call(r) = c}
  <2>1. /\ Tokens' = {} /\ asked' = asked
        /\ answers' = [c \in Calls |-> IF c \in told THEN Append(answers[c], FALSE)
                                       ELSE answers[c]]
    BY <1>6 DEF DestroyBackend, Tokens
  <2>2. \A c \in told : answers[c] = <<>> /\ WasAsked(c)
    BY DEF OneToken, Tokens
  <2>3. \A c \in Calls : Len(answers'[c]) <= 1
    <3> TAKE c \in Calls
    <3>1. CASE c \in told
      BY <2>1, <2>2, <3>1, AppendOne
    <3>2. CASE c \notin told
      BY <2>1, <3>2 DEF OneToken, AnsweredOnce
    <3> QED
      BY <3>1, <3>2
  <2>4. waiting' = {}
    BY <1>6 DEF DestroyBackend
  <2>5. \A c \in Calls : ~WasAsked(c)' => answers'[c] = <<>>
    BY <2>1, <2>2 DEF OneToken, WasAsked
  <2> QED
    BY <2>1, <2>3, <2>4, <2>5 DEF OneToken, AnsweredOnce
<1>7. ASSUME NEW c \in Calls, cancelReadAsync(c) PROVE OneToken'
  BY <1>4, <1>7 DEF cancelReadAsync
<1>8. CASE connectToHost \/ disconnectFromHost
  BY <1>4, <1>8 DEF connectToHost, disconnectFromHost
<1>9. CASE ui' = ui
  BY <1>4, <1>9 DEF ui
<1>10. Take \/ BecomeReady \/ enterConnectionLost \/ onSocketActivity \/ serviceSftp
         => ui' = ui
  BY DEF Take, BecomeReady, enterConnectionLost, onSocketActivity, serviceSftp,
         LaneEmpty, InitLane, OpAgain, OpOpens, OpTransfers, OpStats, OpRenames
<1>11. UNCHANGED vars => ui' = ui
  BY DEF vars
<1> QED
  BY <1>2, <1>3, <1>5, <1>6, <1>7, <1>8, <1>9, <1>10, <1>11 DEF Next

\* Whatever is retried, lost, cancelled, refused or destroyed, and however the
\* two threads interleave, no callback is run twice.
THEOREM AnsweredOnceCorrect == Spec => []AnsweredOnce
<1>1. Init => OneToken
  BY DEF Init, OneToken, Tokens, AnsweredOnce, WasAsked, Contains
<1>2. OneToken => AnsweredOnce
  BY DEF OneToken
<1> QED
  BY <1>1, <1>2, TokenStep, TypeCorrect, PTL DEF Spec

-----------------------------------------------------------------------------
(* No callback is orphaned                                                 *)

Held(r) == Outstanding(r) \/ InResults(r)

\* Where a request can be held, one step at a time.
LEMMA HeldInPosted ==
  ASSUME TypeOK, NEW o \in OrderType, Post(o), queue' = queue, results' = results
  PROVE  /\ \A r \in Reqs : Held(r) => Held(r)'
         /\ \A r \in Reqs : o = Order("start", r) => Held(r)'
<1>1. \A x : Contains(posted', x) <=> Contains(posted, x) \/ x = o
  BY AppendContains DEF Post, TypeOK
<1> QED
  BY <1>1 DEF Held, Outstanding, InLane, InResults

LEMMA HeldInResults ==
  ASSUME TypeOK, NEW s \in Seq(SignalType), Emit(s)
  PROVE  /\ \A r : InResults(r) => InResults(r)'
         /\ \A r : \A reason \in Reasons : Contains(s, Done(r, reason)) => InResults(r)'
<1>1. \A x : Contains(results', x) <=> Contains(results, x) \/ Contains(s, x)
  BY ConcatContains DEF Emit, TypeOK
<1> QED
  BY <1>1 DEF InResults

LEMMA SingleContains == \A x : Contains(<<x>>, x)
<1> TAKE x
<1>1. 1 \in 1 .. Len(<<x>>) /\ <<x>>[1] = x
  OBVIOUS
<1> QED
  BY <1>1 DEF Contains

\* Failing a queue answers each of its requests.
LEMMA FailedHolds ==
  ASSUME NEW ops \in Seq(Reqs), NEW reason \in Reasons
  PROVE  \A r : Contains(ops, r) => Contains(Failed(ops, reason), Done(r, reason))
<1> TAKE r
<1>1. HAVE Contains(ops, r)
<1>2. PICK i \in 1 .. Len(ops) : ops[i] = r
  BY <1>1 DEF Contains
<1>3. i \in 1 .. Len(Failed(ops, reason)) /\ Failed(ops, reason)[i] = Done(r, reason)
  BY <1>2, FailedType
<1> QED
  BY <1>3 DEF Contains

LEMMA FailAllHolds ==
  ASSUME TypeOK, NEW reason \in Reasons
  PROVE  \A r : InLane(r) => Contains(failAllSftp(reason), Done(r, reason))
<1>1. queue["bulk"] \in Seq(Reqs) /\ queue["meta"] \in Seq(Reqs)
  BY DEF TypeOK, Lanes
<1>2. queue["bulk"] \o queue["meta"] \in Seq(Reqs)
  BY <1>1, ConcatProperties
<1>3. \A r : InLane(r) => Contains(queue["bulk"] \o queue["meta"], r)
  BY <1>1, ConcatContains DEF InLane, Lanes
<1> QED
  BY <1>2, <1>3, FailedHolds DEF failAllSftp

LEMMA EndOpHolds ==
  ASSUME TypeOK, Working, NEW reason \in Reasons, EndOp(reason), posted' = posted
  PROVE  \A r \in Reqs : Held(r) => Held(r)'
<1>1. /\ serving \in Lanes /\ laneQueue \in Seq(Reqs) /\ laneQueue # <<>>
      /\ laneQueue = queue[serving] /\ Op = Head(laneQueue) /\ Op \in Reqs
  BY TypeGroups, OpType DEF laneQueue, Op
<1>2. PICK x \in Reqs, l \in Lanes : x = Op /\ l = serving
  BY <1>1
<1>3. <<Done(x, reason)>> \in Seq(SignalType) /\ Emit(<<Done(x, reason)>>)
  BY <1>2, MessageType DEF EndOp
<1>4. /\ \A r : InResults(r) => InResults(r)'
      /\ InResults(x)'
  BY <1>3, HeldInResults, SingleContains
<1>5. queue'[l] = Tail(queue[l]) /\ \A k \in Lanes : k # l => queue'[k] = queue[k]
  BY <1>1, <1>2 DEF EndOp, TypeOK
<1>6. \A r : Contains(queue[l], r) => r = x \/ Contains(queue'[l], r)
  BY <1>1, <1>2, <1>5, TailContains
<1>7. \A r : InLane(r) => r = x \/ InLane(r)'
  BY <1>5, <1>6 DEF InLane
<1> QED
  BY <1>4, <1>7 DEF Held, Outstanding

LEMMA TakeHolds ==
  ASSUME TypeOK, Take
  PROVE  \A r \in Reqs : Held(r) => Held(r)'
<1> USE DEF worker, server
<1>0. posted \in Seq(OrderType) /\ posted # <<>> /\ Head(posted) \in OrderType
  BY HeadTailProperties DEF Take, TypeOK
<1>1. PICK o \in OrderType : o = Head(posted)
  BY <1>0
<1>2. \A x : Contains(posted, x) => x = o \/ Contains(posted', x)
  BY <1>0, <1>1, TailContains DEF Take
<1>3. ResultsType
  BY TypeGroups
<1>4. ASSUME o.do # "start", \A r \in Reqs : InLane(r) \/ InResults(r) =>
                                             InLane(r)' \/ InResults(r)'
      PROVE  \A r \in Reqs : Held(r) => Held(r)'
  <2>1. \A r \in Reqs : Order("start", r) # o
    BY <1>4 DEF Order
  <2> QED
    BY <1>2, <1>4, <2>1 DEF Held, Outstanding
<1>5. CASE o.do = "start" /\ enqueueSftpOp(o.req)
  <2>1. o.req \in Reqs /\ o = Order("start", o.req)
    BY <1>1, <1>5 DEF OrderType, Order
  <2>2. \A r \in Reqs : Order("start", r) = o => r = o.req
    BY DEF Order
  <2>3. CASE lost \/ state = "Disconnected"
    <3>1. Refuse(o.req) \in Seq(SignalType) /\ Refuse(o.req) = <<Done(o.req, "notConnected")>>
      BY <2>1, MessageType DEF Refuse
    <3>2. Emit(Refuse(o.req)) /\ queue' = queue
      BY <1>5, <2>3 DEF enqueueSftpOp
    <3>3. "notConnected" \in Reasons
      BY DEF Reasons
    <3>4. InResults(o.req)' /\ \A r : InResults(r) => InResults(r)'
      BY <3>1, <3>2, <3>3, HeldInResults, SingleContains
    <3> QED
      BY <1>2, <2>2, <3>2, <3>4 DEF Held, Outstanding, InLane
  <2>4. CASE ~(lost \/ state = "Disconnected")
    <3>1. PICK lane \in Lanes : lane = laneForKind(Call(o.req))
      BY DEF laneForKind, Lanes
    <3>2. queue' = [queue EXCEPT ![lane] = Append(queue[lane], o.req)] /\ results' = results
      BY <1>5, <2>4, <3>1 DEF enqueueSftpOp, Join
    <3>3. queue[lane] \in Seq(Reqs)
      BY <3>1 DEF TypeOK
    <3>4. queue'[lane] = Append(queue[lane], o.req)
          /\ \A l \in Lanes : l # lane => queue'[l] = queue[l]
      BY <3>1, <3>2 DEF TypeOK
    <3>5. PICK q \in Reqs : q = o.req
      BY <2>1
    <3>6. \A x : Contains(queue'[lane], x) <=> Contains(queue[lane], x) \/ x = q
      BY <3>3, <3>4, <3>5, AppendContains
    <3>7. InLane(q)'
      BY <3>1, <3>6 DEF InLane
    <3>8. ASSUME NEW r, InLane(r) PROVE InLane(r)'
      <4>1. PICK l \in Lanes : Contains(queue[l], r)
        BY <3>8 DEF InLane
      <4>2. Contains(queue'[l], r)
        BY <3>4, <3>6, <4>1
      <4> QED
        BY <4>2 DEF InLane
    <3> QED
      BY <1>2, <2>2, <3>2, <3>5, <3>7, <3>8 DEF Held, Outstanding, InResults
  <2> QED
    BY <2>3, <2>4
<1>6. CASE o.do = "cancel" /\ requestSftpCancelBulk(o.req)
  <2>0. o.req \in Reqs
    BY <1>1, <1>6 DEF OrderType
  <2>1. CASE Contains(queue["bulk"], o.req)
    <3>1. <<Done(o.req, "permanent")>> \in Seq(SignalType) /\ "permanent" \in Reasons
      BY <2>0, MessageType DEF Reasons
    <3>2. InResults(o.req)' /\ \A r : InResults(r) => InResults(r)'
      BY <1>6, <2>1, <3>1, HeldInResults, SingleContains DEF requestSftpCancelBulk
    <3>3. "bulk" \in Lanes /\ queue["bulk"] \in Seq(Reqs)
      BY DEF TypeOK, Lanes
    <3>4. /\ queue'["bulk"] = RemoveFirst(queue["bulk"], o.req)
          /\ \A l \in Lanes : l # "bulk" => queue'[l] = queue[l]
      BY <1>6, <2>1, <3>3 DEF requestSftpCancelBulk, TypeOK
    <3>5. \A r : InLane(r) => r = o.req \/ InLane(r)'
      BY <2>1, <3>3, <3>4, RemoveFirstContains DEF InLane
    <3> QED
      BY <1>4, <1>6, <3>2, <3>5
  <2>2. CASE ~Contains(queue["bulk"], o.req)
    BY <1>4, <1>6, <2>2 DEF requestSftpCancelBulk, InLane, InResults
  <2> QED
    BY <2>1, <2>2
<1>7. CASE o.do = "connect" /\ startConnect
  BY <1>4, <1>7 DEF startConnect, InLane, InResults
<1>8. CASE o.do = "disconnect" /\ requestDisconnect
  <2>1. "disconnected" \in Reasons
    BY DEF Reasons
  <2>2. failAllSftp("disconnected") \in Seq(SignalType)
    BY <2>1, FailAllType
  <2>3. \A r : InLane(r) \/ InResults(r) => InResults(r)'
    BY <1>8, <2>1, <2>2, HeldInResults, FailAllHolds DEF requestDisconnect
  <2> QED
    BY <1>4, <1>8, <2>3
<1> QED
  BY <1>1, <1>5, <1>6, <1>7, <1>8 DEF Take

LEMMA LossHolds ==
  ASSUME TypeOK, enterConnectionLost
  PROVE  \A r \in Reqs : Held(r) => Held(r)'
<1>1. PICK reason \in {"connectionLost", "permanent"} :
         Emit(Append(failAllSftp(reason), Signal("lost", NoReq)))
  BY DEF enterConnectionLost
<1>2. reason \in Reasons /\ failAllSftp(reason) \in Seq(SignalType)
  BY FailAllType DEF Reasons
<1>3. Signal("lost", NoReq) \in SignalType
  BY MessageType
<1>4. Append(failAllSftp(reason), Signal("lost", NoReq)) \in Seq(SignalType)
  BY <1>2, <1>3, AppendProperties
<1>5. \A r : InLane(r) => Contains(Append(failAllSftp(reason), Signal("lost", NoReq)),
                                   Done(r, reason))
  BY <1>2, <1>3, FailAllHolds, AppendContains
<1>6. \A r : InLane(r) \/ InResults(r) => InResults(r)'
  BY <1>1, <1>2, <1>4, <1>5, HeldInResults
<1>7. posted' = posted
  BY DEF enterConnectionLost
<1> QED
  BY <1>6, <1>7 DEF Held, Outstanding

LEMMA LaneHolds ==
  ASSUME TypeOK, serviceSftp
  PROVE  \A r \in Reqs : Held(r) => Held(r)'
<1>1. posted' = posted
  BY DEF serviceSftp, LaneEmpty, InitLane, OpAgain, OpOpens, OpTransfers, OpStats, OpRenames
<1>2. ASSUME NEW reason \in {"none", "sftpSession", "permanent"}, Working, EndOp(reason)
      PROVE  \A r \in Reqs : Held(r) => Held(r)'
  <2>1. reason \in Reasons
    BY DEF Reasons
  <2> QED
    BY <1>1, <1>2, <2>1, EndOpHolds
<1>3. CASE UNCHANGED <<queue, results>>
  BY <1>1, <1>3 DEF Held, Outstanding, InLane, InResults
<1>4. CASE OpTransfers /\ Emit(<<Signal("chunk", Op)>>) /\ queue' = queue
  <2>1. <<Signal("chunk", Op)>> \in Seq(SignalType)
    BY <1>4, TypeGroups, OpType, MessageType DEF OpTransfers, OnHead
  <2>2. \A r : InResults(r) => InResults(r)'
    BY <1>4, <2>1, HeldInResults
  <2> QED
    BY <1>1, <1>4, <2>2 DEF Held, Outstanding, InLane
<1> QED
  BY <1>2, <1>3, <1>4
     DEF serviceSftp, LaneEmpty, InitLane, OpAgain, OpOpens, OpTransfers, OpStats,
         OpRenames, OnHead

LEMMA NoOrphansStep == TypeOK /\ NoOrphans /\ [Next]_vars => NoOrphans'
<1> SUFFICES ASSUME TypeOK, NoOrphans, [Next]_vars PROVE NoOrphans'
  OBVIOUS
<1> USE DEF worker, server
<1>1. waiting \subseteq Reqs /\ \A r \in waiting : Held(r)
  BY DEF TypeOK, NoOrphans, Held
<1>2. ASSUME waiting' \subseteq waiting, \A r \in Reqs : Held(r) => Held(r)'
      PROVE  NoOrphans'
  BY <1>1, <1>2 DEF NoOrphans, Held
<1>3. ASSUME NEW r \in Reqs, Issue(r), queue' = queue, results' = results PROVE NoOrphans'
  <2>1. Order("start", r) \in OrderType
    BY MessageType
  <2>2. Held(r)' /\ \A x \in Reqs : Held(x) => Held(x)'
    BY <1>3, <2>1, HeldInPosted DEF Issue
  <2> QED
    BY <1>1, <1>3, <2>2 DEF Issue, NoOrphans, Held
<1>4. ASSUME NEW o \in OrderType, Post(o), queue' = queue, results' = results,
             waiting' \subseteq waiting
      PROVE  NoOrphans'
  BY <1>2, <1>4, HeldInPosted
<1>5. /\ \A c \in Calls : <<c, 0>> \in Reqs /\ Order("cancel", <<c, 0>>) \in OrderType
      /\ Order("connect", NoReq) \in OrderType /\ Order("disconnect", NoReq) \in OrderType
  BY MessageType, RequestType
<1>6. ASSUME NEW c \in Calls, Ask(c) PROVE NoOrphans'
  BY <1>3, <1>5, <1>6 DEF Ask
<1>7. ASSUME NEW c \in Calls, cancelReadAsync(c) PROVE NoOrphans'
  BY <1>4, <1>5, <1>7 DEF cancelReadAsync
<1>8. ASSUME NEW r \in Reqs, BackoffFires(r) PROVE NoOrphans'
  BY <1>3, <1>8 DEF BackoffFires
<1>9. CASE connectToHost \/ disconnectFromHost
  BY <1>4, <1>5, <1>9 DEF connectToHost, disconnectFromHost
<1>10. CASE DestroyBackend
  BY <1>10 DEF DestroyBackend, NoOrphans
<1>11. CASE Deliver
  <2> DEFINE s == Head(results)
  <2>1. results \in Seq(SignalType) /\ results # <<>>
    BY <1>11 DEF Deliver, TypeOK
  <2>2. \A x : Contains(results, x) => x = s \/ Contains(results', x)
    BY <1>11, <2>1, TailContains DEF Deliver
  <2>3. posted' = posted /\ queue' = queue
    BY <1>11 DEF Deliver
  <2>4. CASE onConnectionLost
    BY <2>4 DEF onConnectionLost, RunCallbacks, NoOrphans
  <2>5. CASE s.what = "done" /\ onResult(s.req, s.reason)
    <3>1. waiting' = waiting \ {s.req}
      BY <2>5 DEF onResult, RunCallbacks, Matching
    <3>2. \A r, reason : Done(r, reason) = s => r = s.req
      BY DEF Done
    <3>3. \A r \in waiting' : Held(r) => Held(r)'
      BY <2>2, <2>3, <3>1, <3>2 DEF Held, Outstanding, InLane, InResults
    <3> QED
      BY <1>1, <3>1, <3>3 DEF NoOrphans, Held
  <2>6. CASE s.what = "chunk" /\ onStreamChunk(s.req)
    <3>1. \A r, reason : Done(r, reason) # s
      BY <2>6 DEF Done
    <3>2. \A r \in Reqs : Held(r) => Held(r)'
      BY <2>2, <2>3, <3>1 DEF Held, Outstanding, InLane, InResults
    <3> QED
      BY <1>2, <2>6, <3>2 DEF onStreamChunk
  <2> QED
    BY <1>11, <2>4, <2>5, <2>6 DEF Deliver
<1>12. CASE Take \/ enterConnectionLost \/ serviceSftp
  <2>1. waiting' = waiting
    BY <1>12 DEF Take, enterConnectionLost, serviceSftp, LaneEmpty, InitLane, OpAgain,
                 OpOpens, OpTransfers, OpStats, OpRenames, ui
  <2> QED
    BY <1>2, <1>12, <2>1, TakeHolds, LossHolds, LaneHolds
<1>13. CASE BecomeReady \/ onSocketActivity \/ UNCHANGED vars
  BY <1>13 DEF BecomeReady, onSocketActivity, vars, ui, NoOrphans, Outstanding, InLane,
               InResults
<1> QED
  BY <1>6, <1>7, <1>8, <1>9, <1>10, <1>11, <1>12, <1>13 DEF Next

\* Whatever is cancelled, refused or lost on the worker's side, a callback the
\* backend holds still has its request under way or its result on the way back:
\* it will be run.
THEOREM NoOrphansCorrect == Spec => []NoOrphans
<1>1. Init => NoOrphans
  BY DEF Init, NoOrphans
<1> QED
  BY <1>1, NoOrphansStep, TypeCorrect, PTL DEF Spec
=============================================================================
