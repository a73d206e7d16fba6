--------------------------- MODULE FsOrder_proofs ---------------------------
(***************************************************************************)
(* Order and replay in RemoteFs.  A call that is not retried is posted     *)
(* once, as its attempt 0, and its request is in one place at a time; the  *)
(* places keep the order in which the calls were made.  From this follow   *)
(* the order of saves, the wholeness of streams and, for a connection that *)
(* is made once, the promise of FsCalls.                                   *)
(***************************************************************************)
EXTENDS RemoteFs_proofs

-----------------------------------------------------------------------------
(* Where a request is                                                      *)

\* The calls that are posted once, and their requests.
Plain == Streams \union Changing
Only(c) == <<c, 0>>
PlainReqs == {r \in Reqs : Call(r) \in Plain}

Earlier(c, d) == \E i, j \in DOMAIN asked : i < j /\ asked[i] = c /\ asked[j] = d

LaneOrder ==
  {rs \in Reqs \X Reqs : {rs[1], rs[2]} \subseteq PlainReqs => Earlier(Call(rs[1]), Call(rs[2]))}

StartOrder ==
  {os \in OrderType \X OrderType :
     os[1].do = "start" /\ os[2].do = "start" => <<os[1].req, os[2].req>> \in LaneOrder}

\* What the requests of plain calls are and where they may be.
Books ==
  /\ IsInjective(asked)
  /\ \A r \in Tokens \union performed \union opened : WasAsked(Call(r))
  /\ \A r \in Reqs : Held(r) => WasAsked(Call(r))
  /\ \A r \in Tokens \union performed \union opened : r \in PlainReqs => r = Only(Call(r))
  /\ \A r \in PlainReqs : Held(r) => r = Only(Call(r))
  /\ \A r \in backoff : Retries(Call(r))
  /\ \A lane \in Lanes, r \in Reqs : Contains(queue[lane], r) => lane = laneForKind(Call(r))

\* The places keep the order of the calls, and none holds a request twice.
Lines ==
  /\ OrderedBy(posted, StartOrder)
  /\ \A lane \in Lanes : OrderedBy(queue[lane], LaneOrder)
  /\ \A r, s \in Reqs :
       (/\ Contains(queue[laneForKind(Call(s))], r) /\ Contains(posted, Order("start", s)))
         => <<r, s>> \in LaneOrder
  /\ \A r \in PlainReqs : ~(Outstanding(r) /\ InResults(r))

Chunk(c) == Signal("chunk", Only(c))

ResultOrder ==
  {ss \in SignalType \X SignalType :
     ss[1].what = "done" /\ ss[2].what = "chunk" => ss[1].req # ss[2].req}

Flows ==
  /\ OrderedBy(results, ResultOrder)
  /\ \A c \in Streams :
       /\ Only(c) \in waiting => delivered[c] + Count(results, Chunk(c)) = chunks[c]
       /\ ~WasAsked(c) => delivered[c] = 0 /\ chunks[c] = 0 /\ ~Contains(results, Chunk(c))
       /\ answers[c] = <<TRUE>> => delivered[c] = chunks[c] /\ ~Outstanding(Only(c))

Hushed == \A c \in cancelled \intersect Streams :
  WasAsked(c) /\ \A r \in Tokens : Call(r) # c

FirstOrder ==
  {os \in OrderType \X OrderType :
     os[2].do = "connect" => os[1].do \notin {"connect", "disconnect"}}

\* A connection that is made once is lost at most once, for good.
Once ==
  /\ connects \in {0, 1} /\ (connects = 0 => state = "Idle" /\ ~lost)
  /\ OrderedBy(posted, FirstOrder)
  /\ connects = 0 => \A o \in OrderType :
       o.do \in {"connect", "disconnect"} => ~Contains(posted, o)
  /\ (state # "Idle" \/ lost \/ connects = 0) => ~Contains(posted, Order("connect", NoReq))
  /\ lost => \A r \in Reqs : ~InLane(r)
  /\ \A s \in SignalType : s.what = "lost" => (Contains(results, s) => lost)

Kept ==
  /\ \A r \in Reqs : Call(r) \in Changing /\ alive /\ ~lost /\ Outstanding(r) => r \in waiting
  /\ \A r \in opened : Call(r) \in Changing => r \in performed
  /\ \A r \in Reqs : Call(r) \in Changing /\ Contains(results, Done(r, "none")) => r \in performed
  /\ \A r \in performed : Call(r) \in Changing

-----------------------------------------------------------------------------
(* How requests move                                                       *)

\* A step of the backend posts no start, and hands on one result or drops all.
Says == \E o \in OrderType : o.do # "start" /\ posted' = Append(posted, o)
Hears == results # <<>> /\ results' = Tail(results) /\ posted' = posted

UiMove ==
  /\ \/ Says /\ results' \in {results, <<>>}
     \/ Hears
  /\ asked' = asked /\ waiting' \subseteq waiting
  /\ \A r \in backoff' : r \in backoff \/
       \E s \in waiting : Retries(Call(s)) /\ Call(r) = Call(s)
  /\ UNCHANGED <<worker, server>>

\* A step of the worker takes an order, or ends or serves the head of a lane.
Takes(o) == o \in OrderType /\ posted # <<>> /\ o = Head(posted) /\ posted' = Tail(posted)
TakesOther == \E o : Takes(o) /\ o.do # "start"

Refuses(r) ==
  /\ Takes(Order("start", r)) /\ queue' = queue
  /\ results' = Append(results, Done(r, "notConnected"))
Joins(r) ==
  /\ Takes(Order("start", r)) /\ results' = results /\ ~lost
  /\ queue' = [queue EXCEPT ![laneForKind(Call(r))] = Append(@, r)]
Cancels(r) ==
  /\ TakesOther /\ Contains(queue["bulk"], r)
  /\ queue' = [queue EXCEPT !["bulk"] = RemoveFirst(@, r)]
  /\ results' = Append(results, Done(r, "permanent"))
Clears ==
  /\ TakesOther \/ posted' = posted
  /\ queue' = [lane \in Lanes |-> <<>>]
  /\ \E said \in Seq(SignalType) :
       /\ results' = results \o said
       /\ \A s \in SignalType : Contains(said, s) =>
            \/ s = Signal("lost", NoReq)
            \/ \E r \in Reqs, reason \in Reasons \ {"none"} :
                 InLane(r) /\ s = Done(r, reason)
AtHead(lane, r) == queue[lane] # <<>> /\ r = Head(queue[lane])
Ends(lane, r, reason) ==
  /\ AtHead(lane, r) /\ posted' = posted
  /\ queue' = [queue EXCEPT ![lane] = Tail(@)]
  /\ results' = Append(results, Done(r, reason))
  /\ reason = "none" /\ Call(r) \in Changing => r \in opened \union performed'
Streamed(lane, r) ==
  /\ AtHead(lane, r) /\ Call(r) \in Streams /\ UNCHANGED <<posted, queue>>
  /\ results' = Append(results, Signal("chunk", r))
  /\ chunks' = [chunks EXCEPT ![Call(r)] = @ + 1]
Stays == (TakesOther \/ posted' = posted) /\ UNCHANGED <<queue, results>>

Placed ==
  \/ Clears \/ Stays
  \/ \E r \in Reqs : Refuses(r) \/ Joins(r) \/ Cancels(r)
  \/ \E lane \in Lanes, r \in Reqs, reason \in Reasons : Ends(lane, r, reason)
  \/ \E lane \in Lanes, r \in Reqs : Streamed(lane, r)

Heads == {r \in Reqs : \E lane \in Lanes : AtHead(lane, r)}

WorkMove ==
  /\ UNCHANGED ui /\ Placed
  /\ \A r \in opened' : r \in opened \/
       (r \in Heads /\ (Call(r) \in Changing => r \in performed'))
  /\ performed' = performed \/ \E r \in Heads :
       Call(r) \in Changing /\ performed' = performed \union {r}
  /\ chunks' = chunks \/ \E lane \in Lanes, r \in Reqs : Streamed(lane, r)

LEMMA EndOpMoves ==
  ASSUME TypeOK, Working, NEW reason \in Reasons, EndOp(reason),
         reason = "none" /\ Call(Op) \in Changing => Op \in opened \union performed'
  PROVE  /\ serving \in Lanes /\ Op \in Reqs /\ AtHead(serving, Op) /\ Op \in Heads
         /\ posted' = posted => Ends(serving, Op, reason)
         /\ opened' \subseteq opened /\ chunks' = chunks
<1>1. serving \in Lanes /\ Op \in Reqs /\ AtHead(serving, Op)
  BY OpType, TypeGroups DEF AtHead, laneQueue, Op
<1>2. Done(Op, reason) \in SignalType /\ results \in Seq(SignalType)
  BY <1>1, MessageType DEF TypeOK
<1>3. results' = Append(results, Done(Op, reason))
  BY <1>2, AppendIsConcat DEF EndOp, Emit
<1> QED
  BY <1>1, <1>3 DEF EndOp, Ends, Heads

LEMMA LaneMoves ==
  ASSUME TypeOK, serviceSftp
  PROVE  WorkMove
<1>u. ui' = ui /\ posted' = posted
  BY DEF serviceSftp, LaneEmpty, InitLane, OpAgain, OpOpens, OpTransfers, OpStats, OpRenames
<1>r. {"none", "sftpSession", "permanent"} \subseteq Reasons
  BY DEF Reasons
<1>o. Working => serving \in Lanes /\ Op \in Reqs /\ AtHead(serving, Op) /\ Op \in Heads
  BY OpType, TypeGroups DEF AtHead, laneQueue, Op, Heads
<1>e. ASSUME NEW reason \in {"none", "sftpSession", "permanent"}, Working, EndOp(reason),
             reason = "none" /\ Call(Op) \in Changing => Op \in opened \union performed'
      PROVE  Placed /\ opened' \subseteq opened /\ chunks' = chunks
  BY <1>u, <1>r, <1>e, EndOpMoves DEF Placed
<1>s. ASSUME UNCHANGED <<queue, results>> PROVE Placed
  BY <1>u, <1>s DEF Placed, Stays
<1>p. ASSUME Working, MayPerform \/ (Perform /\ Call(Op) \in Changing) \/ UNCHANGED performed
      PROVE  performed' = performed \/ \E r \in Heads :
               Call(r) \in Changing /\ performed' = performed \union {r}
  BY <1>o, <1>p DEF MayPerform, Perform
<1>1. CASE LaneEmpty
  BY <1>1, <1>u, <1>s DEF LaneEmpty, WorkMove, server
<1>2. CASE InitLane
  <2>1. CASE EndOp("sftpSession")
    BY <1>2, <2>1, <1>u, <1>e DEF InitLane, WorkMove
  <2>2. CASE ~EndOp("sftpSession")
    BY <1>2, <2>2, <1>u, <1>s DEF InitLane, WorkMove
  <2> QED
    BY <2>1, <2>2
<1>3. CASE OpAgain
  BY <1>3, <1>u, <1>s, <1>p DEF OpAgain, OnHead, WorkMove
<1>4. CASE OpOpens
  <2>1. CASE EndOp("permanent") /\ MayPerform
    BY <1>4, <2>1, <1>u, <1>e, <1>p DEF OpOpens, OnHead, WorkMove
  <2>2. CASE ~(EndOp("permanent") /\ MayPerform)
    <3>1. /\ Working /\ opened' = opened \union {Op}
          /\ IF Call(Op) \in Changing THEN Perform ELSE UNCHANGED performed
          /\ UNCHANGED <<results, queue, chunks>>
      BY <1>4, <2>2 DEF OpOpens, OnHead
    <3>2. Call(Op) \in Changing => Op \in performed'
      BY <3>1 DEF Perform
    <3> QED
      BY <1>u, <1>o, <1>s, <1>p, <3>1, <3>2 DEF WorkMove
  <2> QED
    BY <2>1, <2>2
<1>5. CASE OpTransfers
  <2>1. CASE EndOp("permanent") \/ EndOp("none")
    BY <1>5, <2>1, <1>u, <1>e DEF OpTransfers, OnHead, WorkMove
  <2>2. CASE ~(EndOp("permanent") \/ EndOp("none"))
    <3>1. /\ Working /\ Call(Op) \in Streams
          /\ chunks' = [chunks EXCEPT ![Call(Op)] = @ + 1]
          /\ Emit(<<Signal("chunk", Op)>>)
          /\ UNCHANGED <<queue, opened, performed>>
      BY <1>5, <2>2 DEF OpTransfers, OnHead
    <3>2. Signal("chunk", Op) \in SignalType /\ results \in Seq(SignalType)
      BY <1>o, <3>1, MessageType DEF TypeOK
    <3>3. Streamed(serving, Op)
      BY <1>u, <1>o, <3>1, <3>2, AppendIsConcat DEF Streamed, Emit
    <3> QED
      BY <1>u, <1>o, <3>1, <3>3 DEF WorkMove, Placed
  <2> QED
    BY <2>1, <2>2
<1>6. CASE OpStats
  <2>1. Call(Op) \notin Changing
    BY <1>6, KindsAssumption DEF OpStats, OnHead
  <2> QED
    BY <1>6, <2>1, <1>u, <1>e DEF OpStats, OnHead, WorkMove
<1>7. CASE OpRenames
  <2>1. CASE EndOp("none") /\ Perform
    <3>1. Working /\ Call(Op) \in Changing /\ Op \in performed' /\ EndOp("none")
      BY <1>7, <2>1 DEF OpRenames, OnHead, Changing, Perform
    <3>2. Placed /\ opened' \subseteq opened /\ chunks' = chunks
      BY <1>e, <3>1
    <3> QED
      BY <1>7, <2>1, <3>1, <3>2, <1>u, <1>p DEF OpRenames, WorkMove
  <2>2. CASE EndOp("permanent") /\ MayPerform
    BY <1>7, <2>2, <1>u, <1>e, <1>p DEF OpRenames, OnHead, WorkMove
  <2> QED
    BY <1>7, <2>1, <2>2 DEF OpRenames
<1> QED
  BY <1>1, <1>2, <1>3, <1>4, <1>5, <1>6, <1>7 DEF serviceSftp

\* What a lost or ended session says of the requests in its lanes.
LEMMA FailAllSays ==
  ASSUME TypeOK, NEW reason \in Reasons \ {"none"}
  PROVE  /\ failAllSftp(reason) \in Seq(SignalType)
         /\ \A s : Contains(failAllSftp(reason), s) =>
              \E r \in Reqs : InLane(r) /\ s = Done(r, reason)
<1> DEFINE ops == queue["bulk"] \o queue["meta"]
<1>1. queue["bulk"] \in Seq(Reqs) /\ queue["meta"] \in Seq(Reqs)
  BY DEF TypeOK, Lanes
<1>2. ops \in Seq(Reqs) /\ \A r : Contains(ops, r) => InLane(r)
  BY <1>1, ConcatProperties, ConcatContains DEF InLane, Lanes
<1>3. failAllSftp(reason) = Failed(ops, reason)
  BY DEF failAllSftp
<1> HIDE DEF ops
<1>4. /\ Failed(ops, reason) \in Seq(SignalType)
      /\ Len(Failed(ops, reason)) = Len(ops)
      /\ \A i \in 1 .. Len(ops) : Failed(ops, reason)[i] = Done(ops[i], reason)
  BY <1>2, FailedType
<1>5. ASSUME NEW s, Contains(Failed(ops, reason), s)
      PROVE  \E r \in Reqs : InLane(r) /\ s = Done(r, reason)
  <2>1. PICK i \in 1 .. Len(ops) : Done(ops[i], reason) = s
    BY <1>4, <1>5 DEF Contains
  <2>2. ops[i] \in Reqs /\ Contains(ops, ops[i])
    BY <1>2, <2>1, Positions
  <2> QED
    BY <1>2, <2>1, <2>2
<1> QED
  BY <1>3, <1>4, <1>5

LEMMA TakeMoves ==
  ASSUME TypeOK, Take
  PROVE  WorkMove
<1> USE DEF worker, server
<1>1. PICK o \in OrderType : Takes(o)
  BY HeadTailProperties DEF Take, Takes, TypeOK
<1>2. results \in Seq(SignalType) /\ o = Head(posted) /\ ui' = ui
  BY <1>1 DEF TypeOK, Takes, Take
<1>3. o.do # "start" => TakesOther
  BY <1>1 DEF TakesOther
<1>4. CASE o.do = "start" /\ enqueueSftpOp(o.req)
  <2>1. o.req \in Reqs /\ o = Order("start", o.req)
    BY <1>1, <1>4 DEF OrderType, Order
  <2>2. CASE lost \/ state = "Disconnected"
    <3>1. Done(o.req, "notConnected") \in SignalType
      BY <2>1, MessageType
    <3>2. results' = Append(results, Done(o.req, "notConnected"))
      BY <1>2, <1>4, <2>2, <3>1, AppendIsConcat DEF enqueueSftpOp, Emit, Refuse
    <3>3. Refuses(o.req)
      BY <1>1, <1>4, <2>1, <2>2, <3>2 DEF enqueueSftpOp, Refuses
    <3> QED
      BY <1>2, <1>4, <2>1, <2>2, <3>3 DEF enqueueSftpOp, WorkMove, Placed
  <2>3. CASE ~(lost \/ state = "Disconnected")
    <3>1. laneForKind(Call(o.req)) \in Lanes
      BY DEF laneForKind, Lanes
    <3>2. Joins(o.req)
      BY <1>1, <1>4, <2>1, <2>3, <3>1 DEF enqueueSftpOp, Joins, Join, TypeOK
    <3> QED
      BY <1>2, <1>4, <2>1, <2>3, <3>2 DEF enqueueSftpOp, WorkMove, Placed
  <2> QED
    BY <2>2, <2>3
<1>5. CASE o.do = "cancel" /\ requestSftpCancelBulk(o.req)
  <2>0. o.req \in Reqs
    BY <1>1, <1>5 DEF OrderType
  <2>1. CASE Contains(queue["bulk"], o.req)
    <3>1. Done(o.req, "permanent") \in SignalType
      BY <2>0, MessageType
    <3>2. results' = Append(results, Done(o.req, "permanent"))
      BY <1>2, <1>5, <2>1, <3>1, AppendIsConcat DEF requestSftpCancelBulk, Emit
    <3>3. Cancels(o.req)
      BY <1>3, <1>5, <2>1, <3>2 DEF requestSftpCancelBulk, Cancels
    <3> QED
      BY <1>2, <1>5, <2>0, <2>1, <3>3 DEF requestSftpCancelBulk, WorkMove, Placed
  <2>2. CASE ~Contains(queue["bulk"], o.req)
    BY <1>2, <1>3, <1>5, <2>2 DEF requestSftpCancelBulk, WorkMove, Placed, Stays
  <2> QED
    BY <2>1, <2>2
<1>6. CASE o.do = "connect" /\ startConnect
  BY <1>2, <1>3, <1>6 DEF startConnect, WorkMove, Placed, Stays
<1>7. CASE o.do = "disconnect" /\ requestDisconnect
  <2>1. "disconnected" \in Reasons \ {"none"}
    BY DEF Reasons
  <2>2. Clears
    BY <1>3, <1>7, <2>1, FailAllSays DEF requestDisconnect, DropSession, Emit, Clears
  <2> QED
    BY <1>2, <1>7, <2>2 DEF requestDisconnect, DropSession, WorkMove, Placed
<1> QED
  BY <1>1, <1>2, <1>4, <1>5, <1>6, <1>7 DEF Take

LEMMA LossMoves ==
  ASSUME TypeOK, enterConnectionLost
  PROVE  WorkMove
<1> DEFINE said(reason) == Append(failAllSftp(reason), Signal("lost", NoReq))
<1>1. PICK reason \in {"connectionLost", "permanent"} : Emit(said(reason))
  BY DEF enterConnectionLost
<1>2. reason \in Reasons \ {"none"} /\ Signal("lost", NoReq) \in SignalType
  BY MessageType DEF Reasons
<1>3. /\ failAllSftp(reason) \in Seq(SignalType)
      /\ \A s : Contains(failAllSftp(reason), s) =>
           \E r \in Reqs : InLane(r) /\ s = Done(r, reason)
  BY <1>2, FailAllSays
<1>4. /\ said(reason) \in Seq(SignalType)
      /\ \A s : Contains(said(reason), s) <=>
           Contains(failAllSftp(reason), s) \/ s = Signal("lost", NoReq)
  BY <1>2, <1>3, AppendProperties, AppendContains
<1>5. Clears
  <2>1. results' = results \o said(reason) /\ posted' = posted
        /\ queue' = [lane \in Lanes |-> <<>>]
    BY <1>1 DEF Emit, enterConnectionLost, DropSession
  <2> HIDE DEF said
  <2> QED
    BY <1>2, <1>3, <1>4, <2>1 DEF Clears
<1> QED
  BY <1>5 DEF enterConnectionLost, DropSession, WorkMove, Placed

LEMMA UiMoves ==
  ASSUME TypeOK,
         \/ \E c \in Calls : cancelReadAsync(c)
         \/ connectToHost \/ disconnectFromHost \/ Deliver \/ DestroyBackend
  PROVE  UiMove
<1>1. ASSUME NEW o \in OrderType, o.do # "start", Post(o)
      PROVE  Says
  BY <1>1 DEF Says, Post
<1>2. /\ \A c \in Calls : Order("cancel", <<c, 0>>) \in OrderType
      /\ Order("connect", NoReq) \in OrderType /\ Order("disconnect", NoReq) \in OrderType
      /\ \A do, r : Order(do, r).do = do
  BY MessageType, RequestType DEF Order
<1>3. ASSUME NEW c \in Calls, cancelReadAsync(c) PROVE UiMove
  <2>1. Says
    BY <1>1, <1>2, <1>3 DEF cancelReadAsync
  <2> QED
    BY <1>3, <2>1 DEF cancelReadAsync, UiMove
<1>4. CASE connectToHost \/ disconnectFromHost
  <2>1. Says
    BY <1>1, <1>2, <1>4 DEF connectToHost, disconnectFromHost
  <2> QED
    BY <1>4, <2>1 DEF connectToHost, disconnectFromHost, UiMove
<1>5. CASE DestroyBackend
  <2>1. Says
    BY <1>1, <1>2, <1>5 DEF DestroyBackend
  <2> QED
    BY <1>5, <2>1 DEF DestroyBackend, UiMove
<1>6. CASE Deliver
  <2>1. Hears /\ asked' = asked /\ UNCHANGED <<worker, server>>
    BY <1>6 DEF Deliver, Hears
  <2>2. ASSUME NEW S, NEW reason, S \subseteq waiting, RunCallbacks(S, reason)
        PROVE  /\ waiting' \subseteq waiting
               /\ \A r \in backoff' : r \in backoff \/
                    \E s \in waiting : Retries(Call(s)) /\ Call(r) = Call(s)
    <3>1. waiting' \subseteq waiting
      BY <2>2 DEF RunCallbacks
    <3>2. ASSUME NEW r \in backoff', r \notin backoff
          PROVE  \E s \in waiting : Retries(Call(s)) /\ Call(r) = Call(s)
      <4>1. PICK s \in S : WillRetry(s, reason) /\ r = NextAttempt(s)
        BY <2>2, <3>2 DEF RunCallbacks
      <4>2. s \in Reqs
        BY <2>2 DEF TypeOK
      <4> QED
        BY <2>2, <4>1, <4>2, RequestType DEF WillRetry
    <3> QED
      BY <3>1, <3>2
  <2>3. ASSUME NEW r, NEW reason, onResult(r, reason) PROVE UiMove
    BY <2>1, <2>2, <2>3 DEF onResult, Matching, UiMove
  <2>4. CASE onConnectionLost
    BY <2>1, <2>2, <2>4 DEF onConnectionLost, UiMove
  <2>5. ASSUME NEW r, onStreamChunk(r) PROVE UiMove
    BY <2>1, <2>5 DEF onStreamChunk, UiMove
  <2> QED
    BY <1>6, <2>3, <2>4, <2>5 DEF Deliver
<1> QED
  BY <1>3, <1>4, <1>5, <1>6

LEMMA Moves ==
  ASSUME TypeOK, [Next]_vars
  PROVE  \/ \E c \in Calls : Ask(c)
         \/ \E r \in Reqs : BackoffFires(r)
         \/ UiMove \/ WorkMove
<1>1. CASE BecomeReady \/ onSocketActivity \/ UNCHANGED vars
  BY <1>1 DEF BecomeReady, onSocketActivity, vars, ui, worker, server, WorkMove, Placed, Stays
<1> QED
  BY <1>1, UiMoves, TakeMoves, LossMoves, LaneMoves DEF Next

-----------------------------------------------------------------------------
(* Where a move leaves the requests                                        *)

LEMMA MessagesDiffer ==
  /\ \A r, s : Order("start", r) = Order("start", s) => r = s
  /\ \A do, r : Order(do, r).do = do /\ Order(do, r).req = r
  /\ \A r, s, a, b : Done(r, a) = Done(s, b) => r = s /\ a = b
  /\ \A r, a : Done(r, a).what = "done" /\ Done(r, a).req = r
  /\ \A w, r : Signal(w, r).what = w /\ Signal(w, r).req = r
  /\ \A r, s, a, w : w # "done" => Done(r, a) # Signal(w, s)
BY DEF Order, Done, Signal

LEMMA TakesLeaves ==
  ASSUME TypeOK, NEW o, Takes(o)
  PROVE  /\ Contains(posted, o)
         /\ \A x : Contains(posted', x) => Contains(posted, x)
         /\ \A R : OrderedBy(posted, R) =>
              OrderedBy(posted', R) /\ \A x : Contains(posted', x) => <<o, x>> \in R
<1>1. posted \in Seq(OrderType) /\ posted # <<>> /\ o = Head(posted) /\ posted' = Tail(posted)
  BY DEF TypeOK, Takes
<1>2. Contains(posted, o) /\ \A x : Contains(posted', x) => Contains(posted, x)
  BY <1>1, TailWithin
<1>3. ASSUME NEW R, OrderedBy(posted, R)
      PROVE  OrderedBy(posted', R) /\ \A x : Contains(posted', x) => <<o, x>> \in R
  BY <1>1, <1>3, OrderedTail
<1> QED
  BY <1>2, <1>3

\* A head is in its lane.
LEMMA HeadInLane ==
  ASSUME TypeOK, NEW lane \in Lanes, NEW r, AtHead(lane, r)
  PROVE  Contains(queue[lane], r) /\ InLane(r)
<1>1. queue[lane] \in Seq(Reqs) /\ queue[lane] # <<>> /\ r = Head(queue[lane])
  BY DEF TypeOK, AtHead
<1>2. Contains(queue[lane], r)
  BY <1>1, TailWithin
<1> QED
  BY <1>2 DEF InLane

\* The worker takes what was posted; what it says is of requests it had.
LEMMA PostedShrinks ==
  ASSUME TypeOK, WorkMove
  PROVE  \A x : Contains(posted', x) => Contains(posted, x)
BY TakesLeaves DEF WorkMove, Placed, Clears, Stays, Refuses, Joins, Cancels, Ends, Streamed,
   TakesOther

LEMMA QueueShrinks ==
  ASSUME TypeOK, WorkMove, NEW lane \in Lanes, NEW r, Contains(queue'[lane], r)
  PROVE  \/ Contains(queue[lane], r)
         \/ r \in Reqs /\ lane = laneForKind(Call(r)) /\ Joins(r)
<1>1. queue[lane] \in Seq(Reqs) /\ queue \in [Lanes -> Seq(Reqs)]
  BY DEF TypeOK
<1>2. CASE Clears
  BY <1>2 DEF Clears, Contains
<1>3. CASE Stays
  BY <1>3 DEF Stays
<1>4. ASSUME NEW q \in Reqs, Refuses(q) \/ Joins(q) \/ Cancels(q)
      PROVE  Contains(queue[lane], r) \/ (r = q /\ lane = laneForKind(Call(q)) /\ Joins(q))
  <2>1. CASE Refuses(q)
    BY <2>1 DEF Refuses
  <2>2. CASE Joins(q)
    <3>1. CASE lane = laneForKind(Call(q))
      <4>1. queue'[lane] = Append(queue[lane], q)
        BY <1>1, <2>2, <3>1 DEF Joins
      <4> QED
        BY <1>1, <2>2, <3>1, <4>1, AppendContains
    <3>2. CASE lane # laneForKind(Call(q))
      BY <1>1, <2>2, <3>2 DEF Joins
    <3> QED
      BY <3>1, <3>2
  <2>3. CASE Cancels(q)
    <3>1. CASE lane = "bulk"
      <4>1. queue'[lane] = RemoveFirst(queue[lane], q) /\ Contains(queue[lane], q)
        BY <1>1, <2>3, <3>1 DEF Cancels
      <4>2. OrderedBy(queue[lane], Reqs \X Reqs)
        BY <1>1, Positions DEF OrderedBy
      <4> QED
        BY <1>1, <4>1, <4>2, OrderedRemoveFirst
    <3>2. CASE lane # "bulk"
      BY <1>1, <2>3, <3>2 DEF Cancels
    <3> QED
      BY <3>1, <3>2
  <2> QED
    BY <1>4, <2>1, <2>2, <2>3
<1>5. ASSUME NEW l \in Lanes, NEW q \in Reqs, NEW reason \in Reasons, Ends(l, q, reason)
      PROVE  Contains(queue[lane], r)
  <2>1. CASE lane = l
    BY <1>1, <1>5, <2>1, TailWithin DEF Ends, AtHead
  <2>2. CASE lane # l
    BY <1>1, <1>5, <2>2 DEF Ends
  <2> QED
    BY <2>1, <2>2
<1>6. ASSUME NEW l \in Lanes, NEW q \in Reqs, Streamed(l, q) PROVE Contains(queue[lane], r)
  BY <1>6 DEF Streamed
<1> QED
  BY <1>2, <1>3, <1>4, <1>5, <1>6 DEF WorkMove, Placed

LEMMA ResultsGrow ==
  ASSUME TypeOK, WorkMove, NEW s \in SignalType, Contains(results', s)
  PROVE  \/ Contains(results, s)
         \/ \E r \in Reqs, reason \in Reasons : s = Done(r, reason) /\ Outstanding(r)
         \/ s = Signal("lost", NoReq)
         \/ \E lane \in Lanes, r \in Reqs : Streamed(lane, r) /\ s = Signal("chunk", r)
<1>1. results \in Seq(SignalType)
  BY DEF TypeOK
<1>2. ASSUME NEW e \in SignalType, results' = Append(results, e)
      PROVE  Contains(results, s) \/ s = e
  BY <1>1, <1>2, AppendContains
<1>3. CASE Clears
  <2>1. PICK said \in Seq(SignalType) :
          /\ results' = results \o said
          /\ \A x \in SignalType : Contains(said, x) =>
               \/ x = Signal("lost", NoReq)
               \/ \E r \in Reqs, reason \in Reasons \ {"none"} : InLane(r) /\ x = Done(r, reason)
    BY <1>3 DEF Clears
  <2>2. Contains(results, s) \/ Contains(said, s)
    BY <1>1, <2>1, ConcatContains
  <2> QED
    BY <2>1, <2>2 DEF Outstanding
<1>4. CASE Stays
  BY <1>4 DEF Stays
<1>5. ASSUME NEW r \in Reqs, Refuses(r) \/ Cancels(r)
      PROVE  Contains(results, s) \/
             \E reason \in Reasons : s = Done(r, reason) /\ Outstanding(r)
  <2>1. PICK reason \in Reasons : results' = Append(results, Done(r, reason))
    BY <1>5 DEF Refuses, Cancels, Reasons
  <2>2. Done(r, reason) \in SignalType
    BY MessageType
  <2>3. Outstanding(r)
    BY <1>5, TakesLeaves DEF Refuses, Cancels, Outstanding, InLane, Lanes
  <2> QED
    BY <1>2, <2>1, <2>2, <2>3
<1>6. ASSUME NEW r \in Reqs, Joins(r) PROVE Contains(results, s)
  BY <1>6 DEF Joins
<1>7. ASSUME NEW lane \in Lanes, NEW r \in Reqs, NEW reason \in Reasons, Ends(lane, r, reason)
      PROVE  Contains(results, s) \/ (s = Done(r, reason) /\ Outstanding(r))
  BY <1>2, <1>7, MessageType, HeadInLane DEF Ends, Outstanding
<1>8. ASSUME NEW lane \in Lanes, NEW r \in Reqs, Streamed(lane, r)
      PROVE  Contains(results, s) \/ s = Signal("chunk", r)
  BY <1>2, <1>8, MessageType DEF Streamed
<1> QED
  BY <1>3, <1>4, <1>5, <1>6, <1>7, <1>8 DEF WorkMove, Placed

LEMMA PlacesShrink ==
  ASSUME TypeOK, WorkMove, NEW r \in Reqs
  PROVE  /\ Outstanding(r)' => Outstanding(r)
         /\ InResults(r)' => InResults(r) \/ Outstanding(r)
         /\ Held(r)' => Held(r)
<1>1. ASSUME Outstanding(r)' PROVE Outstanding(r)
  <2>1. CASE Contains(posted', Order("start", r))
    BY <2>1, PostedShrinks DEF Outstanding
  <2>2. CASE \E lane \in Lanes : Contains(queue'[lane], r)
    <3>1. InLane(r) \/ Joins(r)
      BY <2>2, QueueShrinks DEF InLane
    <3> QED
      BY <3>1, TakesLeaves DEF Joins, Outstanding
  <2> QED
    BY <1>1, <2>1, <2>2 DEF Outstanding, InLane
<1>2. ASSUME InResults(r)' PROVE InResults(r) \/ Outstanding(r)
  <2>1. PICK reason \in Reasons : Contains(results', Done(r, reason))
    BY <1>2 DEF InResults
  <2> QED
    BY <2>1, ResultsGrow, MessageType, MessagesDiffer DEF InResults
<1> QED
  BY <1>1, <1>2 DEF Held

\* What a step of the backend leaves where.
LEMMA UiPlaces ==
  ASSUME TypeOK, UiMove
  PROVE  /\ queue' = queue /\ opened' = opened /\ performed' = performed /\ chunks' = chunks
         /\ \A r : Contains(posted', Order("start", r)) <=> Contains(posted, Order("start", r))
         /\ \A s : Contains(results', s) => Contains(results, s)
         /\ \A r : InLane(r)' <=> InLane(r)
         /\ \A r : Outstanding(r)' <=> Outstanding(r)
         /\ \A r : InResults(r)' => InResults(r)
         /\ \A r : Held(r)' => Held(r)
<1>1. posted \in Seq(OrderType) /\ results \in Seq(SignalType)
  BY DEF TypeOK
<1>2. \A r : Contains(posted', Order("start", r)) <=> Contains(posted, Order("start", r))
  <2>1. CASE Says
    <3>1. PICK o \in OrderType : o.do # "start" /\ posted' = Append(posted, o)
      BY <2>1 DEF Says
    <3>2. \A x : Contains(posted', x) <=> Contains(posted, x) \/ x = o
      BY <1>1, <3>1, AppendContains
    <3> QED
      BY <3>1, <3>2, MessagesDiffer
  <2>2. CASE Hears
    BY <2>2 DEF Hears
  <2> QED
    BY <2>1, <2>2 DEF UiMove
<1>3. \A s : Contains(results', s) => Contains(results, s)
  BY <1>1, TailWithin DEF UiMove, Hears, Contains
<1>4. queue' = queue /\ opened' = opened /\ performed' = performed /\ chunks' = chunks
  BY DEF UiMove, worker, server
<1> QED
  BY <1>2, <1>3, <1>4 DEF InLane, Outstanding, InResults, Held

-----------------------------------------------------------------------------
(* Each request is of a call that was made, and is its only one            *)

LEMMA PlainCalls ==
  /\ \A c \in Plain : ~Retries(c)
  /\ \A c \in Calls : Only(c) \in Reqs /\ Call(Only(c)) = c /\ Only(c) = <<c, 0>>
  /\ \A c \in Changing : c \notin Reads \union Streams
  /\ Writes \subseteq Changing /\ Changing \subseteq Plain /\ Streams \subseteq Plain
  /\ Plain \subseteq Calls
BY KindsAssumption, RequestType DEF Plain, Changing, Retries, Only, Meta, Calls, Bulk

LEMMA AskedGrows ==
  ASSUME TypeOK, NEW c \in Calls, Ask(c)
  PROVE  \A d : WasAsked(d)' <=> WasAsked(d) \/ d = c
<1>1. asked \in Seq(Calls) /\ asked' = Append(asked, c)
  BY DEF TypeOK, Ask
<1>2. \A d : Contains(asked', d) <=> Contains(asked, d) \/ d = c
  BY <1>1, AppendContains
<1> QED
  BY <1>2 DEF WasAsked

BooksIn(r) == WasAsked(Call(r)) /\ (r \in PlainReqs => r = Only(Call(r)))
Lanewise == \A lane \in Lanes, r \in Reqs : Contains(queue[lane], r) => lane = laneForKind(Call(r))

BooksParts ==
  /\ IsInjective(asked) /\ Lanewise /\ \A r \in backoff : Retries(Call(r))
  /\ \A r \in Tokens \union performed \union opened : BooksIn(r)
  /\ \A r \in Reqs : Held(r) => BooksIn(r)

LEMMA BooksShape == (Books <=> BooksParts) /\ (Books' <=> BooksParts')
BY DEF BooksParts, Books, BooksIn, PlainReqs, Lanewise

LEMMA BooksStep == TypeOK /\ OneToken /\ Books /\ [Next]_vars => Books'
<1> SUFFICES ASSUME TypeOK, OneToken, Books, [Next]_vars PROVE Books'
  OBVIOUS
<1>0. /\ IsInjective(asked) /\ Lanewise /\ \A r \in backoff : Retries(Call(r))
      /\ \A r \in Tokens \union performed \union opened : BooksIn(r)
      /\ \A r \in Reqs : Held(r) => BooksIn(r)
  BY BooksShape DEF BooksParts
<1>s. (/\ IsInjective(asked)' /\ Lanewise' /\ \A r \in backoff' : Retries(Call(r))
       /\ \A r \in Tokens' \union performed' \union opened' : BooksIn(r)'
       /\ \A r \in Reqs : Held(r)' => BooksIn(r)') => Books'
  BY BooksShape DEF BooksParts
<1>1. ASSUME asked' = asked PROVE \A r : BooksIn(r)' <=> BooksIn(r)
  BY <1>1 DEF BooksIn, WasAsked, PlainReqs
<1>2. ASSUME NEW c \in Calls, Ask(c) PROVE Books'
  <2>1. \A r : BooksIn(r) => BooksIn(r)'
    BY <1>2, AskedGrows DEF BooksIn, PlainReqs
  <2>2. BooksIn(Only(c))'
    BY <1>2, AskedGrows, PlainCalls DEF BooksIn
  <2>3. IsInjective(asked)'
    BY <1>0, <1>2, DistinctAppend DEF Ask, WasAsked, TypeOK
  <2>4. /\ Lanewise' /\ backoff' = backoff
        /\ \A r \in Tokens' \union performed' \union opened' :
             r \in Tokens \union performed \union opened \/ r = Only(c)
    BY <1>0, <1>2 DEF Ask, Issue, Tokens, Lanewise, worker, server, Only
  <2>5. \A r \in Reqs : Held(r)' => Held(r) \/ r = Only(c)
    <3>1. posted' = Append(posted, Order("start", Only(c))) /\ queue' = queue /\ results' = results
      BY <1>2 DEF Ask, Issue, Post, Only, worker
    <3>2. Order("start", Only(c)) \in OrderType /\ posted \in Seq(OrderType)
      BY PlainCalls, MessageType DEF TypeOK
    <3>3. \A x : Contains(posted', x) => Contains(posted, x) \/ x = Order("start", Only(c))
      BY <3>1, <3>2, AppendContains
    <3> QED
      BY <3>1, <3>3, MessagesDiffer DEF Held, Outstanding, InLane, InResults
  <2> QED
    BY <1>0, <1>s, <2>1, <2>2, <2>3, <2>4, <2>5
<1>3. ASSUME NEW r \in Reqs, BackoffFires(r) PROVE Books'
  <2>1. /\ asked' = asked /\ posted' = Append(posted, Order("start", r))
        /\ queue' = queue /\ results' = results /\ opened' = opened /\ performed' = performed
        /\ Tokens' = Tokens /\ r \in Tokens /\ backoff' \subseteq backoff
    BY <1>3 DEF BackoffFires, Issue, Post, Tokens, worker, server
  <2>2. Order("start", r) \in OrderType /\ posted \in Seq(OrderType)
    BY MessageType DEF TypeOK
  <2>3. \A x : Contains(posted', x) => Contains(posted, x) \/ x = Order("start", r)
    BY <2>1, <2>2, AppendContains
  <2>4. \A q \in Reqs : Held(q)' => Held(q) \/ q = r
    BY <2>1, <2>3, MessagesDiffer DEF Held, Outstanding, InLane, InResults
  <2>5. Lanewise' /\ IsInjective(asked)'
    BY <1>0, <2>1 DEF Lanewise
  <2> QED
    BY <1>0, <1>1, <1>s, <2>1, <2>4, <2>5
<1>4. CASE UiMove
  <2>1. /\ asked' = asked /\ waiting' \subseteq waiting /\ waiting \subseteq Reqs
        /\ \A r \in backoff' : r \in backoff \/
             \E s \in waiting : Retries(Call(s)) /\ Call(r) = Call(s)
    BY <1>4 DEF UiMove, TypeOK
  <2>2. ASSUME NEW r \in backoff', r \notin backoff
        PROVE  BooksIn(r)' /\ Retries(Call(r))
    <3>1. PICK s \in waiting : Retries(Call(s)) /\ Call(r) = Call(s)
      BY <2>1, <2>2
    <3>2. WasAsked(Call(r)) /\ Call(r) \notin Plain
      BY <1>0, <3>1, PlainCalls DEF BooksIn, Tokens
    <3> QED
      BY <1>1, <2>1, <3>1, <3>2 DEF BooksIn, PlainReqs
  <2>3. \A r \in Tokens' \union performed' \union opened' : BooksIn(r)'
    BY <1>0, <1>1, <1>4, <2>1, <2>2, UiPlaces DEF Tokens
  <2>4. \A r \in backoff' : Retries(Call(r))
    BY <1>0, <2>2
  <2>5. \A r \in Reqs : Held(r)' => BooksIn(r)'
    BY <1>0, <1>1, <1>4, <2>1, UiPlaces
  <2>6. Lanewise' /\ IsInjective(asked)'
    BY <1>0, <1>4, <2>1, UiPlaces DEF Lanewise
  <2> QED
    BY <1>s, <2>3, <2>4, <2>5, <2>6
<1>5. CASE WorkMove
  <2>1. asked' = asked /\ Tokens' = Tokens /\ backoff' = backoff
    BY <1>5 DEF WorkMove, ui, Tokens
  <2>2. \A r \in Heads : Held(r)
    BY HeadInLane DEF Heads, Held, Outstanding
  <2>3. \A r \in performed' \union opened' : r \in performed \union opened \union Heads
    BY <1>5 DEF WorkMove
  <2>4. \A r \in Tokens' \union performed' \union opened' : BooksIn(r)'
    BY <1>0, <1>1, <2>1, <2>2, <2>3 DEF Heads
  <2>5. \A r \in Reqs : Held(r)' => BooksIn(r)'
    BY <1>0, <1>1, <1>5, <2>1, PlacesShrink
  <2>6. Lanewise'
    BY <1>0, <1>5, QueueShrinks DEF Lanewise
  <2> QED
    BY <1>0, <1>s, <2>1, <2>4, <2>5, <2>6
<1> QED
  BY <1>2, <1>3, <1>4, <1>5, Moves

-----------------------------------------------------------------------------
(* The places keep the order of the calls                                  *)

\* A call is earlier than another in one way only, and stays so.
LEMMA EarlierOnce ==
  ASSUME TypeOK, Books
  PROVE  \A c, d : Earlier(c, d) => ~Earlier(d, c) /\ c # d
<1>1. DOMAIN asked = 1 .. Len(asked) /\ Len(asked) \in Nat
  BY Positions DEF TypeOK
<1>2. \A i, j \in 1 .. Len(asked) : asked[i] = asked[j] => i = j
  BY InjectiveSeq DEF Books, TypeOK
<1> QED
  BY <1>1, <1>2 DEF Earlier

LEMMA NoneTwice ==
  ASSUME TypeOK, Books, NEW r \in PlainReqs
  PROVE  <<r, r>> \notin LaneOrder
BY EarlierOnce DEF LaneOrder

LEMMA EarlierGrows ==
  ASSUME TypeOK, NEW c \in Calls, Ask(c)
  PROVE  /\ \A d, e : Earlier(d, e) => Earlier(d, e)'
         /\ \A d : WasAsked(d) => Earlier(d, c)'
         /\ \A d, e : Earlier(d, e)' /\ WasAsked(e) /\ ~WasAsked(c) => Earlier(d, e)
<1>1. /\ Len(asked) \in Nat /\ DOMAIN asked = 1 .. Len(asked)
      /\ DOMAIN asked' = 1 .. Len(asked) + 1
      /\ \A i \in 1 .. Len(asked) : asked'[i] = asked[i]
      /\ asked'[Len(asked) + 1] = c
  <2>1. asked \in Seq(Calls) /\ asked' = Append(asked, c)
    BY DEF TypeOK, Ask
  <2> QED
    BY <2>1, AppendShape
<1>2. \A d : WasAsked(d) <=> \E i \in 1 .. Len(asked) : asked[i] = d
  BY Positions DEF WasAsked, TypeOK
<1>3. ASSUME NEW d, WasAsked(d) PROVE Earlier(d, c)'
  <2>1. PICK i \in 1 .. Len(asked) : asked[i] = d
    BY <1>2, <1>3
  <2>2. i \in DOMAIN asked' /\ Len(asked) + 1 \in DOMAIN asked' /\ i < Len(asked) + 1
        /\ asked'[i] = d
    BY <1>1, <2>1
  <2> QED
    BY <1>1, <2>2 DEF Earlier
<1>4. ASSUME NEW d, NEW e, Earlier(d, e) PROVE Earlier(d, e)'
  BY <1>1, <1>4 DEF Earlier
<1>5. ASSUME NEW d, NEW e, Earlier(d, e)', WasAsked(e), ~WasAsked(c) PROVE Earlier(d, e)
  <2>1. PICK i, j \in DOMAIN asked' : i < j /\ asked'[i] = d /\ asked'[j] = e
    BY <1>5 DEF Earlier
  <2>2. e # c
    BY <1>5
  <2>3. j \in 1 .. Len(asked) /\ i \in 1 .. Len(asked)
    BY <1>1, <2>1, <2>2
  <2> QED
    BY <1>1, <2>1, <2>3 DEF Earlier
<1> QED
  BY <1>3, <1>4, <1>5

\* The order of the requests posted after one another, by their requests.
LEMMA StartsInOrder ==
  \A r, s \in Reqs :
    <<Order("start", r), Order("start", s)>> \in StartOrder <=> <<r, s>> \in LaneOrder
BY MessageType, MessagesDiffer DEF StartOrder

Meet ==
  \A r, s \in Reqs :
     (/\ Contains(queue[laneForKind(Call(s))], r) /\ Contains(posted, Order("start", s)))
       => <<r, s>> \in LaneOrder
OncePlaced == \A r \in PlainReqs : ~(Outstanding(r) /\ InResults(r))

LEMMA LinesAsk ==
  ASSUME TypeOK, Books, Lines, NEW c \in Calls, Ask(c)
  PROVE  Lines'
<1> DEFINE o == Order("start", Only(c))
<1>1. /\ posted \in Seq(OrderType) /\ o \in OrderType /\ Only(c) \in Reqs /\ Call(Only(c)) = c
      /\ \A lane \in Lanes : queue[lane] \in Seq(Reqs)
      /\ posted' = Append(posted, o) /\ queue' = queue /\ results' = results /\ ~WasAsked(c)
  BY PlainCalls, MessageType DEF TypeOK, Ask, Issue, Post, Only, worker
<1>2. PlainReqs' = PlainReqs /\ LaneOrder \subseteq LaneOrder' /\ StartOrder \subseteq StartOrder'
  BY EarlierGrows DEF LaneOrder, StartOrder, PlainReqs
<1>3. \A r \in Reqs : Held(r) => <<r, Only(c)>> \in LaneOrder'
  BY <1>1, EarlierGrows DEF Books, LaneOrder
<1>4. \A x : Contains(posted', x) <=> Contains(posted, x) \/ x = o
  BY <1>1, AppendContains
<1> HIDE DEF o
<1>5. OrderedBy(posted', StartOrder')
  <2>1. OrderedBy(posted, StartOrder')
    BY <1>1, <1>2, OrderedMore DEF Lines
  <2>2. ASSUME NEW x \in OrderType, Contains(posted, x) PROVE <<x, o>> \in StartOrder'
    <3>1. CASE x.do = "start"
      <4>1. x.req \in Reqs /\ x = Order("start", x.req)
        BY <3>1 DEF OrderType, Order
      <4>2. <<x.req, o.req>> \in LaneOrder'
        BY <2>2, <4>1, <1>3, MessagesDiffer DEF Held, Outstanding, o
      <4> QED
        BY <1>1, <4>2 DEF StartOrder
    <3>2. CASE x.do # "start"
      BY <1>1, <3>2 DEF StartOrder
    <3> QED
      BY <3>1, <3>2
  <2> QED
    BY <1>1, <2>1, <2>2, OrderedAppend
<1>6. ASSUME NEW lane \in Lanes PROVE OrderedBy(queue'[lane], LaneOrder')
  <2>1. \A x, y \in Reqs : <<x, y>> \in LaneOrder => <<x, y>> \in LaneOrder'
    BY <1>2
  <2>2. OrderedBy(queue[lane], LaneOrder) /\ queue[lane] \in Seq(Reqs)
    BY <1>1 DEF Lines
  <2>3. OrderedBy(queue[lane], LaneOrder')
    BY <2>1, <2>2, OrderedMore
  <2> QED
    BY <1>1, <2>3
<1>7. Meet'
  <2> SUFFICES ASSUME NEW r \in Reqs, NEW s \in Reqs,
                      Contains(queue[laneForKind(Call(s))], r), Contains(posted', Order("start", s))
               PROVE  <<r, s>> \in LaneOrder'
    BY <1>1 DEF Meet
  <2>1. Held(r)
    BY DEF Held, Outstanding, InLane, laneForKind, Lanes
  <2>2. CASE Contains(posted, Order("start", s))
    BY <1>2, <2>2 DEF Lines
  <2>3. CASE s = Only(c)
    BY <1>3, <2>1, <2>3
  <2> QED
    BY <1>4, <2>2, <2>3, MessagesDiffer DEF o
<1>8. OncePlaced'
  <2> SUFFICES ASSUME NEW r \in PlainReqs, Outstanding(r)', InResults(r)' PROVE FALSE
    BY <1>2 DEF OncePlaced
  <2>1. InResults(r) /\ r \in Reqs
    BY <1>1 DEF InResults, PlainReqs
  <2>2. r # Only(c)
    BY <1>1, <2>1 DEF Books, Held
  <2>3. Outstanding(r)
    BY <1>1, <1>4, <2>2, MessagesDiffer DEF Outstanding, InLane, o
  <2> QED
    BY <2>1, <2>3 DEF Lines
<1> QED
  BY <1>5, <1>6, <1>7, <1>8 DEF Lines, Meet, OncePlaced

\* A retry is not of a plain call: it may be posted whenever it likes.
LEMMA LinesBackoff ==
  ASSUME TypeOK, Books, Lines, NEW r \in Reqs, BackoffFires(r)
  PROVE  Lines'
<1> DEFINE o == Order("start", r)
<1>1. /\ posted \in Seq(OrderType) /\ o \in OrderType
      /\ posted' = Append(posted, o) /\ queue' = queue /\ results' = results /\ asked' = asked
      /\ r \notin PlainReqs
  BY PlainCalls, MessageType
     DEF TypeOK, BackoffFires, Issue, Post, worker, Books, PlainReqs
<1>2. PlainReqs' = PlainReqs /\ LaneOrder' = LaneOrder /\ StartOrder' = StartOrder
  BY <1>1 DEF LaneOrder, StartOrder, PlainReqs, Earlier
<1>3. \A q \in Reqs : <<q, r>> \in LaneOrder
  BY <1>1 DEF LaneOrder
<1>4. \A x : Contains(posted', x) <=> Contains(posted, x) \/ x = o
  BY <1>1, AppendContains
<1> HIDE DEF o
<1>5. OrderedBy(posted', StartOrder')
  <2>1. ASSUME NEW x \in OrderType PROVE <<x, o>> \in StartOrder
    <3>1. x.do = "start" => x.req \in Reqs
      BY DEF OrderType
    <3> QED
      BY <1>1, <1>3, <3>1, MessagesDiffer DEF StartOrder, o
  <2> QED
    BY <1>1, <1>2, <2>1, OrderedAppend DEF Lines
<1>6. Meet'
  BY <1>1, <1>2, <1>3, <1>4, MessagesDiffer DEF Meet, Lines, o
<1>7. OncePlaced'
  <2> SUFFICES ASSUME NEW q \in PlainReqs, Outstanding(q)', InResults(q)' PROVE FALSE
    BY <1>2 DEF OncePlaced
  <2>1. q # r /\ InResults(q)
    BY <1>1 DEF InResults
  <2>2. Outstanding(q)
    BY <1>1, <1>4, <2>1, MessagesDiffer DEF Outstanding, InLane, o
  <2> QED
    BY <2>1, <2>2 DEF Lines
<1> QED
  BY <1>1, <1>2, <1>5, <1>6, <1>7 DEF Lines, Meet, OncePlaced

LEMMA LinesUi ==
  ASSUME TypeOK, Lines, UiMove
  PROVE  Lines'
<1>1. posted \in Seq(OrderType) /\ asked' = asked /\ queue' = queue
  BY DEF TypeOK, UiMove, worker
<1>2. PlainReqs' = PlainReqs /\ LaneOrder' = LaneOrder /\ StartOrder' = StartOrder
  BY <1>1 DEF LaneOrder, StartOrder, PlainReqs, Earlier
<1>3. OrderedBy(posted', StartOrder)
  <2>1. CASE Says
    <3>1. PICK o \in OrderType : o.do # "start" /\ posted' = Append(posted, o)
      BY <2>1 DEF Says
    <3>2. \A x \in OrderType : <<x, o>> \in StartOrder
      BY <3>1 DEF StartOrder
    <3> QED
      BY <1>1, <3>1, <3>2, OrderedAppend DEF Lines
  <2>2. CASE Hears
    BY <2>2 DEF Hears, Lines
  <2> QED
    BY <2>1, <2>2 DEF UiMove
<1>4. OncePlaced'
  BY <1>2, UiPlaces DEF OncePlaced, Lines
<1>5. Meet'
  BY <1>1, <1>2, UiPlaces DEF Meet, Lines
<1> QED
  BY <1>1, <1>2, <1>3, <1>4, <1>5 DEF Lines, Meet, OncePlaced

LEMMA LinesWork ==
  ASSUME TypeOK, Books, Lines, WorkMove
  PROVE  Lines'
<1>1. /\ asked' = asked /\ posted \in Seq(OrderType)
      /\ queue \in [Lanes -> Seq(Reqs)] /\ \A lane \in Lanes : queue[lane] \in Seq(Reqs)
  BY DEF TypeOK, WorkMove, ui
<1>2. PlainReqs' = PlainReqs /\ LaneOrder' = LaneOrder /\ StartOrder' = StartOrder
  BY <1>1 DEF LaneOrder, StartOrder, PlainReqs, Earlier
<1>3. OrderedBy(posted', StartOrder)
  <2>1. posted' = posted \/ \E o : Takes(o)
    BY DEF WorkMove, Placed, Clears, Stays, Refuses, Joins, Cancels, Ends, Streamed, TakesOther
  <2> QED
    BY <2>1, TakesLeaves DEF Lines
<1>4. \A r, s \in Reqs : Contains(posted, Order("start", s))
        /\ Contains(queue[laneForKind(Call(s))], r) => <<r, s>> \in LaneOrder
  BY DEF Lines
<1>5. ASSUME NEW lane \in Lanes PROVE OrderedBy(queue'[lane], LaneOrder)
  <2>1. OrderedBy(queue[lane], LaneOrder)
    BY DEF Lines
  <2>2. CASE Clears
    BY <2>2 DEF Clears, OrderedBy
  <2>3. ASSUME NEW r \in Reqs, Joins(r) PROVE OrderedBy(queue'[lane], LaneOrder)
    <3>1. CASE lane = laneForKind(Call(r))
      <4>1. queue'[lane] = Append(queue[lane], r)
        BY <1>1, <2>3, <3>1 DEF Joins
      <4>2. \A q \in Reqs : Contains(queue[lane], q) => <<q, r>> \in LaneOrder
        BY <1>4, <2>3, <3>1, TakesLeaves DEF Joins
      <4> QED
        BY <1>1, <2>1, <4>1, <4>2, OrderedAppend
    <3>2. CASE lane # laneForKind(Call(r))
      BY <1>1, <2>1, <2>3, <3>2 DEF Joins
    <3> QED
      BY <3>1, <3>2
  <2>4. ASSUME NEW r \in Reqs, Cancels(r) PROVE OrderedBy(queue'[lane], LaneOrder)
    <3>1. CASE lane = "bulk"
      <4>1. queue'[lane] = RemoveFirst(queue[lane], r) /\ Contains(queue[lane], r)
        BY <1>1, <2>4, <3>1 DEF Cancels
      <4>2. OrderedBy(RemoveFirst(queue[lane], r), LaneOrder)
        BY <1>1, <2>1, <4>1, OrderedRemoveFirst
      <4> QED
        BY <4>1, <4>2
    <3>2. CASE lane # "bulk"
      BY <1>1, <2>1, <2>4, <3>2 DEF Cancels
    <3> QED
      BY <3>1, <3>2
  <2>5. ASSUME NEW l \in Lanes, NEW r \in Reqs, NEW reason \in Reasons, Ends(l, r, reason)
        PROVE  OrderedBy(queue'[lane], LaneOrder)
    <3>1. CASE lane = l
      <4>1. queue'[lane] = Tail(queue[lane]) /\ queue[lane] # <<>>
        BY <1>1, <2>5, <3>1 DEF Ends, AtHead
      <4> QED
        BY <1>1, <2>1, <4>1, OrderedTail
    <3>2. CASE lane # l
      BY <1>1, <2>1, <2>5, <3>2 DEF Ends
    <3> QED
      BY <3>1, <3>2
  <2> QED
    BY <2>1, <2>2, <2>3, <2>4, <2>5
       DEF WorkMove, Placed, Stays, Refuses, Streamed
<1>6. Meet'
  <2> SUFFICES ASSUME NEW r \in Reqs, NEW s \in Reqs,
                      Contains(queue'[laneForKind(Call(s))], r),
                      Contains(posted', Order("start", s))
               PROVE  <<r, s>> \in LaneOrder
    BY <1>2 DEF Meet
  <2>1. laneForKind(Call(s)) \in Lanes
    BY DEF laneForKind, Lanes
  <2>2. CASE Contains(queue[laneForKind(Call(s))], r)
    BY <1>4, <2>2, PostedShrinks
  <2>3. CASE Joins(r)
    <3>1. <<Order("start", r), Order("start", s)>> \in StartOrder
      BY <2>3, TakesLeaves DEF Joins, Lines
    <3> QED
      BY <3>1, StartsInOrder
  <2> QED
    BY <2>1, <2>2, <2>3, QueueShrinks
<1>7. OncePlaced'
  <2> SUFFICES ASSUME NEW r \in PlainReqs, Outstanding(r)', InResults(r)' PROVE FALSE
    BY <1>2 DEF OncePlaced
  <2>1. r \in Reqs /\ Outstanding(r) /\ <<r, r>> \notin LaneOrder
    BY PlacesShrink, NoneTwice DEF PlainReqs
  <2>2. ~InResults(r)
    BY <2>1 DEF Lines
  <2>3. PICK reason \in Reasons : Contains(results', Done(r, reason))
    BY DEF InResults
  <2>4. ~Contains(results, Done(r, reason))
    BY <2>2, <2>3 DEF InResults
  <2>5. ~(Contains(posted, Order("start", r)) /\ InLane(r))
    BY <1>4, <2>1 DEF InLane, Books
  <2>n. ~(Contains(posted', Order("start", r)) /\ InLane(r))
    BY <2>5, PostedShrinks
  <2>6. ASSUME NEW q \in SignalType, results' = Append(results, q) PROVE q = Done(r, reason)
    <3>1. results \in Seq(SignalType)
      BY DEF TypeOK
    <3> QED
      BY <2>3, <2>4, <2>6, <3>1, AppendContains
  <2>7. CASE Clears
    <3>1. queue' = [lane \in Lanes |-> <<>>]
      BY <2>7 DEF Clears
    <3>2. ~InLane(r)'
      BY <3>1 DEF InLane, Contains
    <3>3. Contains(posted', Order("start", r))
      BY <3>2 DEF Outstanding
    <3>4. InLane(r)
      <4>1. PICK said \in Seq(SignalType) :
              /\ results' = results \o said
              /\ \A x \in SignalType : Contains(said, x) =>
                   \/ x = Signal("lost", NoReq)
                   \/ \E y \in Reqs, z \in Reasons \ {"none"} : InLane(y) /\ x = Done(y, z)
        BY <2>7 DEF Clears
      <4>2. Contains(said, Done(r, reason)) /\ Done(r, reason) \in SignalType
        BY <2>1, <2>3, <2>4, <4>1, ConcatContains, MessageType DEF TypeOK
      <4> QED
        BY <4>1, <4>2, MessagesDiffer
    <3> QED
      BY <2>n, <3>3, <3>4
  <2>8. ASSUME NEW q \in Reqs, Refuses(q) PROVE FALSE
    <3>1. q = r
      BY <2>6, <2>8, MessageType, MessagesDiffer DEF Refuses, Reasons
    <3>2. ~Contains(posted', Order("start", r))
      BY <2>1, <2>8, <3>1, TakesLeaves, StartsInOrder DEF Refuses, Lines
    <3>3. InLane(r) /\ Contains(posted, Order("start", r))
      BY <2>8, <3>1, <3>2, TakesLeaves DEF Refuses, Outstanding, InLane
    <3> QED
      BY <2>5, <3>3
  <2>9. ASSUME NEW q \in Reqs, Cancels(q) PROVE FALSE
    <3>1. q = r
      BY <2>6, <2>9, MessageType, MessagesDiffer DEF Cancels, Reasons
    <3>2. "bulk" \in Lanes /\ Contains(queue["bulk"], r) /\ OrderedBy(queue["bulk"], LaneOrder)
      BY <2>9, <3>1 DEF Cancels, Lanes, Lines
    <3>3. queue'["bulk"] = RemoveFirst(queue["bulk"], r) /\ queue'["meta"] = queue["meta"]
      BY <1>1, <2>9, <3>1 DEF Cancels, Lanes
    <3>4. ~Contains(queue'["bulk"], r)
      BY <1>1, <2>1, <3>2, <3>3, OrderedRemoveFirst
    <3>5. ~InLane(r)'
      BY <2>1, <3>2, <3>3, <3>4 DEF InLane, Lanes, Books
    <3> QED
      BY <2>n, <3>2, <3>5 DEF Outstanding, InLane
  <2>10. ASSUME NEW lane \in Lanes, NEW q \in Reqs, NEW z \in Reasons, Ends(lane, q, z)
         PROVE  FALSE
    <3>1. q = r
      BY <2>6, <2>10, MessageType, MessagesDiffer DEF Ends
    <3>2. queue[lane] # <<>> /\ r = Head(queue[lane]) /\ queue'[lane] = Tail(queue[lane])
          /\ \A l \in Lanes : l # lane => queue'[l] = queue[l]
      BY <1>1, <2>10, <3>1 DEF Ends, AtHead
    <3>3. ~Contains(queue'[lane], r) /\ Contains(queue[lane], r)
      BY <1>1, <2>1, <3>2, OrderedTail, TailWithin DEF Lines
    <3>4. ~InLane(r)'
      BY <2>1, <3>2, <3>3 DEF InLane, Books
    <3> QED
      BY <2>n, <3>3, <3>4 DEF Outstanding, InLane
  <2>11. ASSUME NEW lane \in Lanes, NEW q \in Reqs, Streamed(lane, q) PROVE FALSE
    BY <2>6, <2>11, MessageType, MessagesDiffer DEF Streamed
  <2>12. ASSUME NEW q \in Reqs, Joins(q) PROVE FALSE
    BY <2>3, <2>4, <2>12 DEF Joins
  <2>13. CASE Stays
    BY <2>3, <2>4, <2>13 DEF Stays
  <2> QED
    BY <2>7, <2>8, <2>9, <2>10, <2>11, <2>12, <2>13 DEF WorkMove, Placed
<1> QED
  BY <1>2, <1>3, <1>5, <1>6, <1>7 DEF Lines, Meet, OncePlaced

LEMMA LinesStep == TypeOK /\ Books /\ Lines /\ [Next]_vars => Lines'
BY Moves, LinesAsk, LinesBackoff, LinesUi, LinesWork

-----------------------------------------------------------------------------
(* The places keep the order: what follows                                 *)

Orderly == TypeOK /\ OneToken /\ Books /\ Lines

LEMMA OrderlyHolds == Spec => []Orderly
<1>1. Init => OneToken /\ Books /\ Lines
  <2> SUFFICES ASSUME Init PROVE OneToken /\ Books /\ Lines
    OBVIOUS
  <2>1. /\ asked = <<>> /\ posted = <<>> /\ results = <<>> /\ Tokens = {} /\ performed = {}
        /\ opened = {} /\ backoff = {} /\ answers = [c \in Calls |-> <<>>]
        /\ queue = [lane \in Lanes |-> <<>>]
    BY DEF Init, Tokens
  <2>2. /\ \A x : ~Contains(<<>>, x)
        /\ \A R : OrderedBy(<<>>, R)
        /\ IsInjective(<<>>)
    BY DEF Contains, OrderedBy, IsInjective
  <2>3. \A r : ~InLane(r) /\ ~Outstanding(r) /\ ~InResults(r) /\ ~Held(r)
    BY <2>1, <2>2 DEF InLane, Outstanding, InResults, Held
  <2>4. OneToken
    BY <2>1 DEF OneToken, Tokens, AnsweredOnce
  <2>5. Books
    BY <2>1, <2>2, <2>3 DEF Books
  <2>6. Lines
    BY <2>1, <2>2, <2>3 DEF Lines
  <2> QED
    BY <2>4, <2>5, <2>6
<1> QED
  BY <1>1, TypeCorrect, TokenStep, BooksStep, LinesStep, PTL DEF Spec, Orderly

\* A cancelled stream has no token left: nothing that arrives is for it.
LEMMA HushedStep == Orderly /\ Hushed /\ [Next]_vars => Hushed'
<1> SUFFICES ASSUME Orderly, Hushed, [Next]_vars,
                    NEW c \in cancelled' \intersect Streams
             PROVE  WasAsked(c)' /\ \A r \in Tokens' : Call(r) # c
  BY DEF Hushed
<1>0. c \in Calls /\ ~Retries(c) /\ c \in Plain
  BY PlainCalls
<1>1. ASSUME c \in cancelled PROVE WasAsked(c) /\ \A r \in Tokens : Call(r) # c
  BY <1>1 DEF Hushed
<1>2. ASSUME cancelled' = cancelled, asked' = asked,
             \A r \in Tokens' : r \in Tokens \/ Retries(Call(r))
      PROVE  WasAsked(c)' /\ \A r \in Tokens' : Call(r) # c
  BY <1>0, <1>1, <1>2 DEF WasAsked
<1>3. ASSUME NEW d \in Calls, Ask(d) PROVE WasAsked(c)' /\ \A r \in Tokens' : Call(r) # c
  <2>1. cancelled' = cancelled /\ ~WasAsked(d) /\ Tokens' = Tokens \union {Only(d)}
    BY <1>3 DEF Ask, Issue, Tokens, Only
  <2>2. WasAsked(c) /\ \A r \in Tokens : Call(r) # c
    BY <1>1, <2>1
  <2> QED
    BY <1>3, <2>1, <2>2, AskedGrows, PlainCalls DEF Orderly
<1>4. ASSUME NEW r \in Reqs, BackoffFires(r)
      PROVE  WasAsked(c)' /\ \A q \in Tokens' : Call(q) # c
  BY <1>2, <1>4 DEF BackoffFires, Issue, Tokens
<1>5. ASSUME NEW d \in Calls, cancelReadAsync(d)
      PROVE  WasAsked(c)' /\ \A r \in Tokens' : Call(r) # c
  <2>1. /\ cancelled' = cancelled \union {d} /\ WasAsked(d) /\ asked' = asked
        /\ waiting' = waiting \ {Only(d)} /\ backoff' = backoff
    BY <1>5 DEF cancelReadAsync, Only
  <2>2. WasAsked(c) /\ WasAsked(c)'
    BY <1>1, <2>1 DEF WasAsked
  <2>3. ASSUME NEW r \in Tokens', Call(r) = c PROVE FALSE
    <3>1. r \in Tokens /\ r \in Reqs /\ r \notin backoff /\ r = Only(c)
      BY <1>0, <2>1, <2>3 DEF Tokens, Orderly, Books, TypeOK, PlainReqs
    <3>2. c # d /\ c \in cancelled
      BY <2>1, <2>3, <3>1 DEF Tokens
    <3> QED
      BY <1>1, <2>3, <3>1, <3>2
  <2> QED
    BY <2>2, <2>3
<1>6. CASE \/ connectToHost \/ disconnectFromHost \/ Deliver \/ DestroyBackend
  <2>1. cancelled' = cancelled
    BY <1>6 DEF connectToHost, disconnectFromHost, Deliver, DestroyBackend
  <2>2. UiMove
    BY <1>6, UiMoves DEF Orderly
  <2>3. \A r \in Tokens' : r \in Tokens \/ Retries(Call(r))
    BY <2>2 DEF UiMove, Tokens
  <2> QED
    BY <1>2, <2>1, <2>2, <2>3 DEF UiMove
<1>7. CASE Take \/ BecomeReady \/ enterConnectionLost \/ onSocketActivity \/ serviceSftp
           \/ UNCHANGED vars
  <2>1. ui' = ui
    BY <1>7 DEF Take, BecomeReady, enterConnectionLost, onSocketActivity, serviceSftp,
                LaneEmpty, InitLane, OpAgain, OpOpens, OpTransfers, OpStats, OpRenames, vars
  <2> QED
    BY <1>2, <2>1 DEF ui, Tokens
<1> QED
  BY <1>3, <1>4, <1>5, <1>6, <1>7 DEF Next

\* What is told concerns only calls that have a token.
LEMMA OnlyTokensAreTold ==
  ASSUME TypeOK, [Next]_vars, alive', NEW c \in Calls, \A r \in Tokens : Call(r) # c
  PROVE  answers'[c] = answers[c] /\ (c \in Streams => delivered'[c] = delivered[c])
<1>1. CASE Deliver
  <2>1. ASSUME NEW S, NEW reason, S \subseteq waiting, RunCallbacks(S, reason)
        PROVE  answers'[c] = answers[c]
    BY <2>1 DEF RunCallbacks, Tokens
  <2>2. ASSUME NEW r, NEW reason, onResult(r, reason)
        PROVE  answers'[c] = answers[c] /\ delivered' = delivered
    BY <2>1, <2>2 DEF onResult, Matching
  <2>3. ASSUME onConnectionLost PROVE answers'[c] = answers[c] /\ delivered' = delivered
    BY <2>1, <2>3 DEF onConnectionLost
  <2>4. ASSUME NEW r, onStreamChunk(r)
        PROVE  answers' = answers /\ (c \in Streams => delivered'[c] = delivered[c])
    BY <2>4 DEF onStreamChunk, Tokens, TypeOK
  <2> QED
    BY <1>1, <2>2, <2>3, <2>4 DEF Deliver
<1>2. CASE ~Deliver
  <2>1. answers' = answers /\ delivered' = delivered
    BY <1>2 DEF Next, vars, ui, Ask, cancelReadAsync, BackoffFires, connectToHost,
       disconnectFromHost, DestroyBackend, Take, BecomeReady, enterConnectionLost,
       onSocketActivity, serviceSftp, LaneEmpty, InitLane, OpAgain, OpOpens, OpTransfers,
       OpStats, OpRenames
  <2> QED
    BY <2>1
<1> QED
  BY <1>1, <1>2

\* A cancelled stream is silent: no chunk and no answer reaches the caller after
\* cancelReadAsync, whatever the worker still has under way for it.
THEOREM StreamSilencedCorrect == Spec => StreamSilenced
<1>1. Init => Hushed
  BY DEF Init, Hushed
<1>2. Orderly /\ Hushed /\ [Next]_vars =>
        [\A c \in cancelled \intersect Streams :
           alive' => delivered'[c] = delivered[c] /\ answers'[c] = answers[c]]_vars
  <2> SUFFICES ASSUME Orderly, Hushed, [Next]_vars,
                      NEW c \in cancelled \intersect Streams, alive'
               PROVE  delivered'[c] = delivered[c] /\ answers'[c] = answers[c]
    OBVIOUS
  <2>1. c \in Calls /\ \A r \in Tokens : Call(r) # c
    BY PlainCalls DEF Hushed
  <2> QED
    BY <2>1, OnlyTokensAreTold DEF Orderly
<1> QED
  BY <1>1, <1>2, HushedStep, OrderlyHolds, PTL DEF Spec, StreamSilenced

\* A save that was carried out leaves no earlier save to be carried out.
NoneOverwritten ==
  \A r \in performed, s \in Reqs :
    {Call(r), Call(s)} \subseteq Writes /\ Earlier(Call(s), Call(r)) => ~Outstanding(s)

LEMMA NoneOverwrittenStep ==
  Orderly /\ NoneOverwritten /\ [Next]_vars => NoneOverwritten'
<1> SUFFICES ASSUME Orderly, NoneOverwritten, [Next]_vars,
                    NEW r \in performed', NEW s \in Reqs,
                    {Call(r), Call(s)} \subseteq Writes, Earlier(Call(s), Call(r))',
                    Outstanding(s)'
             PROVE  FALSE
  BY DEF NoneOverwritten
<1>0. /\ s \in PlainReqs /\ Call(s) \in Calls /\ ~Retries(Call(s))
      /\ laneForKind(Call(s)) = "bulk" /\ laneForKind(Call(r)) = "bulk" /\ "bulk" \in Lanes
  BY PlainCalls DEF PlainReqs, laneForKind, Lanes, Bulk
<1>u. ASSUME asked' = asked PROVE Earlier(Call(s), Call(r))
  BY <1>u DEF Earlier
<1>1. ASSUME NEW c \in Calls, Ask(c) PROVE FALSE
  <2>1. r \in performed /\ WasAsked(Call(r)) /\ ~WasAsked(c)
    BY <1>1 DEF Ask, server, Orderly, Books
  <2>2. Earlier(Call(s), Call(r))
    BY <1>1, <2>1, EarlierGrows DEF Orderly
  <2>3. ~Outstanding(s)
    BY <2>1, <2>2 DEF NoneOverwritten
  <2>4. posted' = Append(posted, Order("start", Only(c))) /\ queue' = queue
        /\ Order("start", Only(c)) \in OrderType /\ posted \in Seq(OrderType)
    BY <1>1, PlainCalls, MessageType DEF Ask, Issue, Post, Only, worker, Orderly, TypeOK
  <2>5. s = Only(c)
    BY <2>3, <2>4, AppendContains, MessagesDiffer DEF Outstanding, InLane
  <2>6. Earlier(c, Call(r))
    BY <1>1, <2>2, <2>5, PlainCalls
  <2>7. WasAsked(c)
    BY <2>6, Positions DEF Earlier, WasAsked, Orderly, TypeOK
  <2> QED
    BY <2>1, <2>7
<1>2. ASSUME NEW q \in Reqs, BackoffFires(q) PROVE FALSE
  <2>1. /\ r \in performed /\ asked' = asked /\ queue' = queue
        /\ posted' = Append(posted, Order("start", q)) /\ q # s
        /\ Order("start", q) \in OrderType /\ posted \in Seq(OrderType)
    BY <1>0, <1>2, MessageType
       DEF BackoffFires, Issue, Post, worker, server, Orderly, TypeOK, Books
  <2>2. Outstanding(s)
    BY <2>1, AppendContains, MessagesDiffer DEF Outstanding, InLane
  <2> QED
    BY <1>u, <2>1, <2>2 DEF NoneOverwritten
<1>3. CASE UiMove
  BY <1>3, <1>u, UiPlaces DEF NoneOverwritten, Orderly, UiMove
<1>4. CASE WorkMove
  <2>1. Outstanding(s) /\ Earlier(Call(s), Call(r))
    BY <1>4, <1>u, PlacesShrink DEF Orderly, WorkMove, ui
  <2>2. CASE r \in performed
    BY <2>1, <2>2 DEF NoneOverwritten
  <2>3. CASE r \notin performed
    <3>1. PICK lane \in Lanes : AtHead(lane, r) /\ r \in Reqs
      BY <1>4, <2>3 DEF WorkMove, Heads
    <3>2. Contains(queue[lane], r) /\ lane = "bulk"
      BY <1>0, <3>1, HeadInLane DEF Orderly, Books
    <3>3. <<r, s>> \notin LaneOrder
      <4>1. r \in PlainReqs
        BY <3>1, PlainCalls DEF PlainReqs
      <4>2. ~Earlier(Call(r), Call(s))
        BY <2>1, EarlierOnce DEF Orderly
      <4> QED
        BY <1>0, <4>1, <4>2 DEF LaneOrder
    <3>4. ~Contains(posted, Order("start", s))
      BY <1>0, <3>1, <3>2, <3>3 DEF Orderly, Lines
    <3>5. Contains(queue["bulk"], s)
      BY <1>0, <2>1, <3>4 DEF Outstanding, InLane, Orderly, Books
    <3>6. /\ queue["bulk"] \in Seq(Reqs) /\ queue["bulk"] # <<>> /\ r = Head(queue["bulk"])
          /\ OrderedBy(queue["bulk"], LaneOrder)
      BY <1>0, <3>1, <3>2 DEF AtHead, Orderly, TypeOK, Lines
    <3>7. s = r
      BY <3>3, <3>5, <3>6, TailContains, OrderedTail
    <3> QED
      BY <2>1, <3>7, EarlierOnce DEF Orderly
  <2> QED
    BY <2>2, <2>3
<1> QED
  BY <1>1, <1>2, <1>3, <1>4, Moves DEF Orderly

LEMMA SomeEffect ==
  ASSUME NEW c, Effects(c) > 0
  PROVE  \E r \in performed : Call(r) = c
<1>1. SUFFICES ASSUME \A r \in performed : Call(r) # c PROVE FALSE
  OBVIOUS
<1>2. {r \in performed : Call(r) = c} = {}
  BY <1>1
<1> QED
  BY <1>2, FS_EmptySet DEF Effects

\* Saves are carried out in the order they were asked for, through every mix of
\* retried reads, cancels and reconnections: none can undo a later one.
THEOREM LastWriteWinsCorrect == Spec => []LastWriteWins
<1>1. Init => NoneOverwritten
  BY DEF Init, NoneOverwritten
<1>2. Orderly /\ NoneOverwritten => LastWriteWins
  <2> SUFFICES ASSUME Orderly, NoneOverwritten, NEW i \in DOMAIN asked, NEW j \in DOMAIN asked,
                      i < j, {asked[i], asked[j]} \subseteq Writes, Effects(asked[j]) > 0
               PROVE  ~Outstanding(<<asked[i], 0>>)
    BY DEF LastWriteWins
  <2>1. PICK r \in performed : Call(r) = asked[j]
    BY SomeEffect
  <2>2. asked[i] \in Calls
    BY PlainCalls
  <2>3. <<asked[i], 0>> \in Reqs /\ Call(<<asked[i], 0>>) = asked[i]
    BY <2>2, RequestType
  <2>4. Earlier(asked[i], asked[j])
    BY DEF Earlier
  <2> QED
    BY <2>1, <2>3, <2>4 DEF NoneOverwritten
<1> QED
  BY <1>1, <1>2, NoneOverwrittenStep, OrderlyHolds, PTL DEF Spec

-----------------------------------------------------------------------------
(* A stream that ended well is whole                                       *)

EndedWell(c) == answers[c] = <<TRUE>>

Flow(c) ==
  /\ Only(c) \in waiting => delivered[c] + Count(results, Chunk(c)) = chunks[c]
  /\ ~WasAsked(c) => delivered[c] = 0 /\ chunks[c] = 0 /\ ~Contains(results, Chunk(c))
  /\ EndedWell(c) => delivered[c] = chunks[c] /\ ~Outstanding(Only(c))

LEMMA FlowsShape ==
  /\ Flows <=> OrderedBy(results, ResultOrder) /\ \A c \in Streams : Flow(c)
  /\ Flows' <=> OrderedBy(results', ResultOrder) /\ \A c \in Streams : Flow(c)'
BY DEF Flows, Flow, EndedWell, ResultOrder, SignalType, Reqs, Calls, Bulk, Meta, Reasons

LEMMA EndedWellIs ==
  \A c : /\ answers'[c] = answers[c] => (EndedWell(c)' <=> EndedWell(c))
         /\ answers[c] = <<>> => ~EndedWell(c)
         /\ answers'[c] = Append(<<>>, FALSE) => ~EndedWell(c)'
<1>1. Append(<<>>, FALSE)[1] = FALSE
  <2>1. <<>> \in Seq(BOOLEAN) /\ Len(<<>>) = 0
    OBVIOUS
  <2> QED
    BY <2>1, AppendProperties
<1>2. <<TRUE>>[1] = TRUE /\ <<>> # <<TRUE>>
  OBVIOUS
<1>3. Append(<<>>, FALSE) # <<TRUE>>
  BY <1>1, <1>2
<1> QED
  BY <1>2, <1>3 DEF EndedWell

LEMMA ChunkType ==
  \A c \in Streams : c \in Calls /\ c \in Plain /\ ~Retries(c) /\ Only(c) \in PlainReqs
                     /\ Only(c) \in Reqs /\ Call(Only(c)) = c /\ Chunk(c) \in SignalType
BY PlainCalls, MessageType DEF Chunk, PlainReqs

LEMMA CountIs ==
  ASSUME TypeOK, NEW x
  PROVE  Count(results, x) \in Nat /\ (~Contains(results, x) => Count(results, x) = 0)
BY CountFinite, CountNone DEF TypeOK

\* The steps of the backend that tell nobody.
LEMMA FlowsQuiet ==
  ASSUME Orderly, Flows, [Next]_vars, ~DestroyBackend, ~Deliver, ~WorkMove
  PROVE  Flows'
<1>0. /\ OrderedBy(results, ResultOrder) /\ \A c \in Streams : Flow(c)
  BY FlowsShape
<1>1. ASSUME NEW d \in Calls, Ask(d) PROVE Flows'
  <2>1. /\ UNCHANGED <<results, delivered, chunks, answers, queue>> /\ ~WasAsked(d)
        /\ waiting' = waiting \union {Only(d)} /\ posted' = Append(posted, Order("start", Only(d)))
        /\ Order("start", Only(d)) \in OrderType /\ posted \in Seq(OrderType)
    BY <1>1, PlainCalls, MessageType
       DEF Ask, Issue, Post, Only, worker, server, Orderly, TypeOK
  <2>2. \A x : Contains(posted', x) <=> Contains(posted, x) \/ x = Order("start", Only(d))
    BY <2>1, AppendContains
  <2>3. \A e : WasAsked(e) => WasAsked(e)'
    BY <1>1, AskedGrows DEF Orderly
  <2> SUFFICES ASSUME NEW c \in Streams PROVE Flow(c)'
    BY <1>0, <2>1, FlowsShape
  <2>4. CASE c = d
    <3>1. delivered[c] = 0 /\ chunks[c] = 0 /\ Count(results, Chunk(c)) = 0
      BY <1>0, <2>1, <2>4, CountIs DEF EndedWell, Flow, Orderly
    <3>2. answers[c] = <<>> /\ WasAsked(c)'
      BY <1>1, <2>1, <2>4, AskedGrows DEF Orderly, OneToken
    <3> QED
      BY <2>1, <3>1, <3>2 DEF EndedWell, Flow, Chunk, Only
  <2>5. CASE c # d
    <3>1. Only(c) # Only(d)
      BY <2>5, ChunkType, PlainCalls
    <3>2. Outstanding(Only(c))' <=> Outstanding(Only(c))
      BY <2>1, <2>2, <3>1, MessagesDiffer DEF Outstanding, InLane
    <3>3. Flow(c) /\ Only(c)' = Only(c) /\ Chunk(c)' = Chunk(c)
      BY <1>0 DEF Only, Chunk
    <3> QED
      BY <2>1, <2>3, <3>1, <3>2, <3>3 DEF Flow, EndedWell
  <2> QED
    BY <2>4, <2>5
<1>2. ASSUME NEW r \in Reqs, BackoffFires(r) PROVE Flows'
  <2>1. /\ UNCHANGED <<results, delivered, chunks, answers, queue, asked>>
        /\ waiting' = waiting \union {r} /\ posted' = Append(posted, Order("start", r))
        /\ Order("start", r) \in OrderType /\ posted \in Seq(OrderType) /\ Retries(Call(r))
    BY <1>2, MessageType
       DEF BackoffFires, Issue, Post, worker, server, Orderly, TypeOK, Books
  <2>2. \A x : Contains(posted', x) <=> Contains(posted, x) \/ x = Order("start", r)
    BY <2>1, AppendContains
  <2> SUFFICES ASSUME NEW c \in Streams PROVE Flow(c)'
    BY <1>0, <2>1, FlowsShape
  <2>3. Only(c) # r
    BY <2>1, ChunkType
  <2>4. Outstanding(Only(c))' <=> Outstanding(Only(c))
    BY <2>1, <2>2, <2>3, MessagesDiffer DEF Outstanding, InLane
  <2> QED
    BY <1>0, <2>1, <2>3, <2>4 DEF EndedWell, Flow, WasAsked
<1>3. CASE (\E c \in Calls : cancelReadAsync(c)) \/ connectToHost \/ disconnectFromHost
  <2>1. /\ UNCHANGED <<results, delivered, chunks, answers, asked>> /\ waiting' \subseteq waiting
    BY <1>3 DEF cancelReadAsync, connectToHost, disconnectFromHost, server
  <2>2. \A r : Outstanding(r)' <=> Outstanding(r)
    BY <1>3, UiMoves, UiPlaces DEF Orderly
  <2> SUFFICES ASSUME NEW c \in Streams PROVE Flow(c)'
    BY <1>0, <2>1, FlowsShape
  <2> QED
    BY <1>0, <2>1, <2>2 DEF EndedWell, Flow, WasAsked
<1>4. (BecomeReady \/ onSocketActivity \/ UNCHANGED vars) => WorkMove
  BY DEF BecomeReady, onSocketActivity, vars, ui, worker, server, WorkMove, Placed, Stays
<1> QED
  BY <1>1, <1>2, <1>3, <1>4, TakeMoves, LossMoves, LaneMoves DEF Next, Orderly

LEMMA FlowsDestroy ==
  ASSUME Orderly, Flows, DestroyBackend
  PROVE  Flows'
<1>1. /\ results' = <<>> /\ waiting' = {} /\ delivered' = delivered /\ chunks' = chunks
      /\ asked' = asked /\ \A r : Outstanding(r)' <=> Outstanding(r)
  BY UiMoves, UiPlaces DEF Orderly, DestroyBackend, server
<1>2. OrderedBy(results', ResultOrder) /\ \A x : ~Contains(results', x)
  BY <1>1 DEF OrderedBy, Contains
<1>3. ASSUME NEW c \in Streams, EndedWell(c)' PROVE EndedWell(c)
  <2>1. CASE \E r \in waiting : Call(r) = c
    <3>1. c \in Calls /\ answers[c] = <<>>
      BY <2>1, ChunkType DEF Orderly, OneToken, Tokens
    <3>2. answers'[c] = Append(<<>>, FALSE)
      BY <2>1, <3>1 DEF DestroyBackend
    <3> QED
      BY <1>3, <3>2, EndedWellIs
  <2>2. CASE ~\E r \in waiting : Call(r) = c
    BY <1>3, <2>2, ChunkType, EndedWellIs DEF DestroyBackend
  <2> QED
    BY <2>1, <2>2
<1>4. \A c \in Streams : Flow(c)'
  BY <1>1, <1>2, <1>3, FlowsShape DEF EndedWell, Flow, WasAsked
<1> QED
  BY <1>2, <1>4, FlowsShape

\* What the worker adds to the results of a stream.
LEMMA ChunksMove ==
  ASSUME Orderly, WorkMove, NEW c \in Streams
  PROVE  \/ /\ chunks'[c] = chunks[c] /\ Count(results', Chunk(c)) = Count(results, Chunk(c))
            /\ Contains(results', Chunk(c)) => Contains(results, Chunk(c))
         \/ /\ chunks'[c] = chunks[c] + 1 /\ InLane(Only(c))
            /\ Count(results', Chunk(c)) = Count(results, Chunk(c)) + 1
<1>0. results \in Seq(SignalType) /\ chunks \in [Streams -> 0 .. MaxChunks] /\ TypeOK
  BY DEF Orderly, TypeOK
<1>1. ASSUME NEW e \in SignalType, results' = Append(results, e), chunks' = chunks, e # Chunk(c)
      PROVE  /\ chunks'[c] = chunks[c] /\ Count(results', Chunk(c)) = Count(results, Chunk(c))
             /\ Contains(results', Chunk(c)) => Contains(results, Chunk(c))
  BY <1>0, <1>1, CountAppend, AppendContains
<1>2. CASE \E lane \in Lanes, r \in Reqs : Streamed(lane, r)
  <2>1. PICK lane \in Lanes, r \in Reqs : Streamed(lane, r)
    BY <1>2
  <2>2. /\ Call(r) \in Streams /\ chunks' = [chunks EXCEPT ![Call(r)] = @ + 1]
        /\ results' = Append(results, Signal("chunk", r))
        /\ Signal("chunk", r) \in SignalType /\ InLane(r)
    BY <1>0, <2>1, MessageType, HeadInLane DEF Streamed
  <2>3. r = Only(Call(r))
    BY <2>2, ChunkType DEF Orderly, Books, Held, Outstanding, PlainReqs
  <2>4. CASE c = Call(r)
    BY <1>0, <2>2, <2>3, <2>4, CountAppend DEF Chunk
  <2>5. CASE c # Call(r)
    <3>1. chunks'[c] = chunks[c] /\ Signal("chunk", r) # Chunk(c)
      BY <1>0, <2>2, <2>5, ChunkType, MessagesDiffer DEF Chunk
    <3> QED
      BY <1>0, <2>2, <3>1, CountAppend, AppendContains
  <2> QED
    BY <2>4, <2>5
<1>3. CASE ~\E lane \in Lanes, r \in Reqs : Streamed(lane, r)
  <2>1. chunks' = chunks
    BY <1>3 DEF WorkMove
  <2>2. CASE Clears
    <3>1. PICK said \in Seq(SignalType) :
            /\ results' = results \o said
            /\ \A x \in SignalType : Contains(said, x) =>
                 \/ x = Signal("lost", NoReq)
                 \/ \E r \in Reqs, reason \in Reasons \ {"none"} : InLane(r) /\ x = Done(r, reason)
      BY <2>2 DEF Clears
    <3>2. ~Contains(said, Chunk(c))
      BY <3>1, ChunkType, MessagesDiffer DEF Chunk
    <3> QED
      BY <1>0, <2>1, <3>1, <3>2, CountConcat, ConcatContains
  <2>3. CASE \E r \in Reqs : Joins(r)
    BY <2>1, <2>3 DEF Joins
  <2>4. CASE Stays
    BY <2>1, <2>4 DEF Stays
  <2>5. CASE \E r \in Reqs, reason \in Reasons : results' = Append(results, Done(r, reason))
    <3>1. PICK r \in Reqs, reason \in Reasons : results' = Append(results, Done(r, reason))
      BY <2>5
    <3>2. Done(r, reason) \in SignalType /\ Done(r, reason) # Chunk(c)
      BY MessageType, MessagesDiffer DEF Chunk
    <3> QED
      BY <1>1, <2>1, <3>1, <3>2
  <2> QED
    BY <1>3, <2>2, <2>3, <2>4, <2>5 DEF WorkMove, Placed, Refuses, Cancels, Ends, Reasons
<1> QED
  BY <1>2, <1>3

LEMMA ResultsInOrder ==
  ASSUME Orderly, WorkMove, OrderedBy(results, ResultOrder)
  PROVE  OrderedBy(results', ResultOrder)
<1>0. results \in Seq(SignalType) /\ TypeOK
  BY DEF Orderly, TypeOK
<1>1. ASSUME NEW e \in SignalType, results' = Append(results, e), e.what # "chunk"
      PROVE  OrderedBy(results', ResultOrder)
  <2>1. \A x \in SignalType : <<x, e>> \in ResultOrder
    BY <1>1 DEF ResultOrder
  <2> QED
    BY <1>0, <1>1, <2>1, OrderedAppend
<1>2. CASE Clears
  <2>1. PICK said \in Seq(SignalType) :
          /\ results' = results \o said
          /\ \A x \in SignalType : Contains(said, x) =>
               \/ x = Signal("lost", NoReq)
               \/ \E r \in Reqs, reason \in Reasons \ {"none"} : InLane(r) /\ x = Done(r, reason)
    BY <1>2 DEF Clears
  <2>2. \A x, y \in SignalType : Contains(said, y) => <<x, y>> \in ResultOrder
    BY <2>1, MessagesDiffer DEF ResultOrder
  <2>3. OrderedBy(said, ResultOrder)
    <3>1. /\ DOMAIN said = 1 .. Len(said)
          /\ \A i \in 1 .. Len(said) : said[i] \in SignalType /\ Contains(said, said[i])
      BY <2>1, Positions
    <3> QED
      BY <2>2, <3>1 DEF OrderedBy
  <2> QED
    BY <1>0, <2>1, <2>2, <2>3, OrderedConcat
<1>3. ASSUME NEW lane \in Lanes, NEW r \in Reqs, Streamed(lane, r)
      PROVE  OrderedBy(results', ResultOrder)
  <2>1. /\ results' = Append(results, Signal("chunk", r)) /\ Signal("chunk", r) \in SignalType
        /\ Outstanding(r) /\ r \in PlainReqs
    BY <1>0, <1>3, MessageType, HeadInLane, PlainCalls
       DEF Streamed, Outstanding, PlainReqs
  <2>2. ASSUME NEW x \in SignalType, Contains(results, x)
        PROVE  <<x, Signal("chunk", r)>> \in ResultOrder
    <3>1. CASE x.what = "done" /\ x.req = r
      <4>1. x = Done(r, x.reason) /\ x.reason \in Reasons
        BY <3>1 DEF SignalType, Done
      <4> QED
        BY <2>1, <2>2, <4>1 DEF InResults, Orderly, Lines
    <3>2. CASE ~(x.what = "done" /\ x.req = r)
      BY <2>1, <3>2, MessagesDiffer DEF ResultOrder
    <3> QED
      BY <3>1, <3>2
  <2> QED
    BY <1>0, <2>1, <2>2, OrderedAppend
<1>4. CASE \E r \in Reqs, reason \in Reasons : results' = Append(results, Done(r, reason))
  BY <1>1, <1>4, MessageType, MessagesDiffer
<1>5. CASE results' = results
  BY <1>5
<1> QED
  BY <1>2, <1>3, <1>4, <1>5
     DEF WorkMove, Placed, Refuses, Joins, Cancels, Ends, Stays, Reasons

LEMMA FlowsWork ==
  ASSUME Orderly, Flows, WorkMove
  PROVE  Flows'
<1>0. OrderedBy(results, ResultOrder) /\ \A c \in Streams : Flow(c)
  BY FlowsShape
<1>1. UNCHANGED <<asked, waiting, delivered, answers>>
  BY DEF WorkMove, ui
<1>2. ASSUME NEW c \in Streams PROVE Flow(c)'
  <2>1. /\ Flow(c) /\ Only(c) \in Reqs /\ Call(Only(c)) = c /\ Chunk(c)' = Chunk(c)
        /\ Count(results, Chunk(c)) \in Nat
        /\ delivered[c] \in Nat /\ chunks[c] \in 0 .. MaxChunks
    BY <1>0, ChunkType, CountIs DEF Orderly, TypeOK, Chunk, Only
  <2>2. Outstanding(Only(c))' => Outstanding(Only(c))
    BY <2>1, PlacesShrink DEF Orderly
  <2>3. InLane(Only(c)) => WasAsked(c) /\ Outstanding(Only(c))
    BY <2>1 DEF Orderly, Books, Held, Outstanding
  <2>4. CASE /\ chunks'[c] = chunks[c] /\ Count(results', Chunk(c)) = Count(results, Chunk(c))
             /\ Contains(results', Chunk(c)) => Contains(results, Chunk(c))
    BY <1>1, <2>1, <2>2, <2>4 DEF EndedWell, Flow, WasAsked
  <2>5. CASE /\ chunks'[c] = chunks[c] + 1 /\ InLane(Only(c))
             /\ Count(results', Chunk(c)) = Count(results, Chunk(c)) + 1
    <3>1. Only(c)' = Only(c) /\ WasAsked(c) /\ WasAsked(c)' /\ ~EndedWell(c)
      BY <1>1, <2>1, <2>3, <2>5 DEF EndedWell, Flow, WasAsked, Only
    <3>2. Only(c) \in waiting' =>
            delivered'[c] + Count(results', Chunk(c)) = chunks'[c]
      BY <1>1, <2>1, <2>5 DEF Flow, EndedWell
    <3> QED
      BY <1>1, <2>1, <3>1, <3>2 DEF Flow, EndedWell
  <2> QED
    BY <2>4, <2>5, ChunksMove
<1> QED
  BY <1>0, <1>2, FlowsShape, ResultsInOrder

\* The results behind the first, and what the first means for a stream.
LEMMA HeardFirst ==
  ASSUME Orderly, Flows, Deliver, NEW c \in Streams
  PROVE  /\ OrderedBy(results', ResultOrder)
         /\ Count(results, Chunk(c)) = IF Head(results) = Chunk(c)
              THEN Count(results', Chunk(c)) + 1 ELSE Count(results', Chunk(c))
         /\ Count(results', Chunk(c)) \in Nat /\ Contains(results, Head(results))
         /\ Contains(results', Chunk(c)) => Contains(results, Chunk(c))
         /\ Head(results) \in SignalType
         /\ Head(results).what = "done" /\ Head(results).req = Only(c)
              => ~Contains(results', Chunk(c))
<1>1. results \in Seq(SignalType) /\ results # <<>> /\ results' = Tail(results)
  BY DEF Orderly, TypeOK, Deliver
<1>2. results' \in Seq(SignalType) /\ Head(results) \in SignalType
  BY <1>1, HeadTailProperties
<1>3. /\ OrderedBy(results', ResultOrder)
      /\ \A x : Contains(results', x) => Contains(results, x) /\ <<Head(results), x>> \in ResultOrder
  BY <1>1, OrderedTail DEF Flows
<1>4. Contains(results, Head(results))
  BY <1>1, TailWithin
<1>5. Count(results, Chunk(c)) = IF Head(results) = Chunk(c)
              THEN Count(results', Chunk(c)) + 1 ELSE Count(results', Chunk(c))
  BY <1>1, CountTail
<1>6. ASSUME Head(results).what = "done", Head(results).req = Only(c)
      PROVE  ~Contains(results', Chunk(c))
  <2> SUFFICES ASSUME Contains(results', Chunk(c)) PROVE FALSE
    OBVIOUS
  <2>1. <<Head(results), Chunk(c)>> \in ResultOrder
    BY <1>3
  <2>2. Chunk(c).what = "chunk" /\ Chunk(c).req = Only(c)
    BY MessagesDiffer DEF Chunk
  <2> QED
    BY <1>6, <2>1, <2>2 DEF ResultOrder
<1> QED
  BY <1>2, <1>3, <1>4, <1>5, <1>6, CountFinite

\* Callbacks that run with a failure, or for another call, make no stream end well.
LEMMA ToldWell ==
  ASSUME Orderly, NEW S, S \subseteq waiting, NEW reason, RunCallbacks(S, reason),
         NEW c \in Streams, EndedWell(c)'
  PROVE  EndedWell(c) \/ (reason = "none" /\ Only(c) \in S)
<1> DEFINE told == {Call(r) : r \in {s \in S : ~WillRetry(s, reason)}}
<1>1. c \in Calls
  BY ChunkType
<1>2. CASE c \in told
  <2>1. PICK r \in S : Call(r) = c
    BY <1>2
  <2>2. r \in Reqs /\ r = Only(c) /\ answers[c] = <<>>
    BY <2>1, ChunkType DEF Orderly, TypeOK, Tokens, OneToken, Books, PlainReqs
  <2>3. CASE reason # "none"
    <3>1. answers'[c] = Append(<<>>, FALSE)
      <4>1. (reason = "none") = FALSE
        BY <2>3
      <4> QED
        BY <1>1, <1>2, <2>2, <4>1 DEF RunCallbacks
    <3> QED
      BY <3>1, EndedWellIs
  <2>4. CASE reason = "none"
    BY <2>1, <2>2, <2>4
  <2> QED
    BY <2>3, <2>4
<1>3. CASE c \notin told
  BY <1>1, <1>3, EndedWellIs DEF RunCallbacks
<1> QED
  BY <1>2, <1>3

LEMMA FlowsDeliver ==
  ASSUME Orderly, Flows, Deliver
  PROVE  Flows'
<1>0. \A c \in Streams : Flow(c)
  BY FlowsShape
<1>1. UNCHANGED <<asked, chunks>> /\ \A r : Outstanding(r)' <=> Outstanding(r)
  BY UiMoves, UiPlaces DEF Orderly, Deliver, server
<1> DEFINE s == Head(results)
<1>2. ASSUME NEW c \in Streams PROVE Flow(c)'
  <2>0. /\ Flow(c) /\ Only(c) \in PlainReqs /\ Only(c) \in Reqs /\ Call(Only(c)) = c
        /\ Only(c)' = Only(c) /\ Chunk(c)' = Chunk(c) /\ WasAsked(c)' = WasAsked(c)
        /\ delivered \in [Streams -> Nat] /\ chunks[c] \in 0 .. MaxChunks
        /\ Count(results', Chunk(c)) \in Nat /\ s \in SignalType /\ Contains(results, s)
    BY <1>0, <1>1, ChunkType, HeardFirst DEF Orderly, TypeOK, Chunk, Only, WasAsked
  <2>1. CASE s.what = "done" /\ onResult(s.req, s.reason)
    <3>1. /\ delivered' = delivered /\ waiting' = waiting \ {s.req}
          /\ RunCallbacks(Matching(s.req), s.reason) /\ Matching(s.req) \subseteq waiting
      BY <2>1 DEF onResult, RunCallbacks, Matching
    <3>2. Count(results', Chunk(c)) = Count(results, Chunk(c))
      BY <2>1, HeardFirst, MessagesDiffer DEF Chunk
    <3>3. ASSUME EndedWell(c)'
          PROVE  delivered[c] = chunks[c] /\ ~Outstanding(Only(c))
      <4>1. CASE EndedWell(c)
        BY <2>0, <4>1 DEF Flow
      <4>2. CASE s.reason = "none" /\ Only(c) \in Matching(s.req)
        <5>1. s.req = Only(c) /\ Only(c) \in waiting /\ s = Done(Only(c), "none")
          BY <2>0, <2>1, <4>2 DEF Matching, SignalType, Done
        <5>2. InResults(Only(c))
          BY <2>0, <5>1 DEF InResults, Reasons
        <5>3. Count(results', Chunk(c)) = 0
          <6>1. ~Contains(results', Chunk(c)) /\ results' \in Seq(SignalType)
            BY <2>1, <5>1, HeardFirst, HeadTailProperties DEF Orderly, TypeOK, Deliver
          <6> QED
            BY <6>1, CountNone
        <5> QED
          BY <2>0, <3>2, <5>1, <5>2, <5>3 DEF Flow, Orderly, Lines
      <4> QED
        BY <3>1, <3>3, <4>1, <4>2, ToldWell
    <3>4. Only(c) \in waiting' =>
            delivered'[c] + Count(results', Chunk(c)) = chunks'[c]
      BY <1>1, <2>0, <3>1, <3>2 DEF Flow
    <3>5. ~WasAsked(c)' => delivered'[c] = 0 /\ chunks'[c] = 0 /\ ~Contains(results', Chunk(c))
      BY <1>1, <2>0, <3>1, HeardFirst DEF Flow
    <3> QED
      BY <1>1, <2>0, <3>1, <3>3, <3>4, <3>5 DEF Flow
  <2>2. CASE s.what = "lost" /\ onConnectionLost
    <3>1. /\ delivered' = delivered /\ waiting' = {} /\ RunCallbacks(waiting, "connectionLost")
      BY <2>2 DEF onConnectionLost, RunCallbacks
    <3>2. ASSUME EndedWell(c)' PROVE EndedWell(c)
      <4>1. PICK S, reason : S \subseteq waiting /\ reason # "none" /\ RunCallbacks(S, reason)
        BY <3>1
      <4>2. EndedWell(c) \/ (reason = "none" /\ Only(c) \in S)
        BY <3>2, <4>1, ToldWell
      <4> QED
        BY <4>1, <4>2
    <3>3. ~WasAsked(c)' => delivered'[c] = 0 /\ chunks'[c] = 0 /\ ~Contains(results', Chunk(c))
      BY <1>1, <2>0, <3>1, HeardFirst DEF Flow
    <3>4. EndedWell(c)' => delivered'[c] = chunks'[c] /\ ~Outstanding(Only(c))
      BY <1>1, <2>0, <3>1, <3>2 DEF Flow
    <3> QED
      BY <1>1, <2>0, <3>1, <3>3, <3>4 DEF Flow
  <2>3. CASE s.what = "chunk" /\ onStreamChunk(s.req)
    <3>1. waiting' = waiting /\ answers' = answers
      BY <2>3 DEF onStreamChunk
    <3>2. ASSUME s = Chunk(c), Only(c) \in waiting
          PROVE  /\ delivered'[c] = delivered[c] + 1 /\ WasAsked(c) /\ answers[c] = <<>>
                 /\ Count(results, Chunk(c)) = Count(results', Chunk(c)) + 1
      <4>1. s.req = Only(c)
        BY <3>2, MessagesDiffer DEF Chunk
      <4> QED
        BY <2>0, <2>3, <3>2, <4>1, HeardFirst DEF onStreamChunk, Orderly, OneToken, Tokens
    <3>3. ASSUME ~(s = Chunk(c) /\ Only(c) \in waiting)
          PROVE  delivered'[c] = delivered[c]
      <4>1. s.req \in waiting => Call(s.req) # c
        <5> SUFFICES ASSUME s.req \in waiting, Call(s.req) = c PROVE FALSE
          OBVIOUS
        <5>1. s.req = Only(c)
          BY <2>0 DEF Orderly, TypeOK, Books, Tokens, PlainReqs
        <5>2. s = Chunk(c)
          BY <2>0, <2>3, <5>1, PlainCalls DEF SignalType, Chunk, Signal
        <5> QED
          BY <3>3, <5>1, <5>2
      <4>2. delivered' = delivered \/ \E d : d # c /\
              delivered' = [delivered EXCEPT ![d] = delivered[d] + 1]
        BY <2>3, <4>1 DEF onStreamChunk
      <4> QED
        BY <2>0, <4>2
    <3>4. CASE s = Chunk(c) /\ Only(c) \in waiting
      <4>1. ~EndedWell(c) /\ ~EndedWell(c)'
        BY <3>1, <3>2, <3>4, EndedWellIs
      <4>2. Only(c) \in waiting' =>
              delivered'[c] + Count(results', Chunk(c)) = chunks'[c]
        BY <1>1, <2>0, <3>1, <3>2, <3>4 DEF Flow, EndedWell
      <4> QED
        BY <1>1, <2>0, <3>1, <3>2, <3>4, <4>1, <4>2 DEF Flow, EndedWell
    <3>5. CASE ~(s = Chunk(c) /\ Only(c) \in waiting)
      <4>1. Only(c) \in waiting => Count(results, Chunk(c)) = Count(results', Chunk(c))
        BY <3>5, HeardFirst
      <4>2. Contains(results', Chunk(c)) => Contains(results, Chunk(c))
        BY HeardFirst
      <4> QED
        BY <1>1, <2>0, <3>1, <3>3, <3>5, <4>1, <4>2 DEF Flow, EndedWell
    <3> QED
      BY <3>4, <3>5
  <2> QED
    BY <2>1, <2>2, <2>3 DEF Deliver
<1>3. OrderedBy(results', ResultOrder)
  <2>1. results \in Seq(SignalType) /\ results # <<>> /\ results' = Tail(results)
    BY DEF Orderly, TypeOK, Deliver
  <2> QED
    BY <2>1, OrderedTail DEF Flows
<1> QED
  BY <1>2, <1>3, FlowsShape

\* A stream that is answered "ok" gave its caller every chunk the worker read:
\* none is lost between the threads, none arrives after the answer.
THEOREM StreamIsWholeCorrect == Spec => []StreamIsWhole
<1>1. Init => Flows
  <2> SUFFICES ASSUME Init PROVE Flows
    OBVIOUS
  <2>1. /\ asked = <<>> /\ posted = <<>> /\ results = <<>> /\ waiting = {}
        /\ answers = [c \in Calls |-> <<>>] /\ delivered = [c \in Streams |-> 0]
        /\ chunks = [c \in Streams |-> 0]
    BY DEF Init
  <2>2. (\A x : ~Contains(<<>>, x)) /\ OrderedBy(<<>>, ResultOrder)
    BY DEF Contains, OrderedBy
  <2>3. \A c \in Streams : answers[c] = <<>> /\ answers[c] # <<TRUE>>
    BY <2>1, ChunkType
  <2> QED
    BY <2>1, <2>2, <2>3 DEF Flows
<1>2. Orderly /\ Flows /\ [Next]_vars => Flows'
  <2> SUFFICES ASSUME Orderly, Flows, [Next]_vars PROVE Flows'
    OBVIOUS
  <2> QED
    BY FlowsQuiet, FlowsDestroy, FlowsDeliver, FlowsWork
<1>3. Flows => StreamIsWhole
  BY DEF Flows, StreamIsWhole
<1> QED
  BY <1>1, <1>2, <1>3, OrderlyHolds, PTL DEF Spec

-----------------------------------------------------------------------------
(* A connection that is made once                                          *)

NoConnect == ~Contains(posted, Order("connect", NoReq))
LostSaid == Contains(results, Signal("lost", NoReq))

OnceParts ==
  /\ connects \in {0, 1} /\ (connects = 0 => state = "Idle" /\ ~lost)
  /\ OrderedBy(posted, FirstOrder)
  /\ connects = 0 => NoConnect /\ ~Contains(posted, Order("disconnect", NoReq))
  /\ state # "Idle" \/ lost => NoConnect
  /\ lost => \A r \in Reqs : ~InLane(r)
  /\ LostSaid => lost

LEMMA OrderFacts ==
  /\ Order("connect", NoReq) \in OrderType /\ Order("disconnect", NoReq) \in OrderType
  /\ Signal("lost", NoReq) \in SignalType
  /\ \A o \in OrderType : /\ o.do = "connect" => o = Order("connect", NoReq)
                          /\ o.do = "disconnect" => o = Order("disconnect", NoReq)
                          /\ o.do \in {"start", "cancel"} => o.req \in Reqs
  /\ \A s \in SignalType : s.what = "lost" => s = Signal("lost", NoReq)
  /\ \A do, r : Order(do, r).do = do
  /\ Signal("lost", NoReq).what = "lost"
BY MessageType DEF OrderType, Order, SignalType, Signal

LEMMA OnceShape == (Once <=> OnceParts) /\ (Once' <=> OnceParts')
<1>1. Once <=> OnceParts
  BY OrderFacts DEF Once, OnceParts, NoConnect, LostSaid
<1>2. Once' <=> OnceParts'
  BY OrderFacts DEF Once, OnceParts, NoConnect, LostSaid, FirstOrder, OrderType, SignalType,
     Reqs, Calls, Bulk, Meta, Reasons, NoReq
<1> QED
  BY <1>1, <1>2

\* The backend posts something other than a connect.
LEMMA OncePosts ==
  ASSUME TypeOK, OnceParts, NEW o \in OrderType, Post(o), o.do # "connect",
         o.do = "disconnect" => connects # 0,
         UNCHANGED <<connects, state, lost, queue>>, results' \in {results, <<>>}
  PROVE  OnceParts'
<1>1. posted \in Seq(OrderType) /\ posted' = Append(posted, o)
  BY DEF TypeOK, Post
<1>2. \A x : Contains(posted', x) <=> Contains(posted, x) \/ x = o
  BY <1>1, AppendContains
<1>3. OrderedBy(posted', FirstOrder)
  <2>1. \A x \in OrderType : <<x, o>> \in FirstOrder
    BY DEF FirstOrder
  <2> QED
    BY <1>1, <2>1, OrderedAppend DEF OnceParts
<1>4. NoConnect => NoConnect'
  BY <1>2, OrderFacts DEF NoConnect
<1>5. connects = 0 => ~Contains(posted', Order("disconnect", NoReq))
  BY <1>2, OrderFacts DEF OnceParts
<1>6. LostSaid' => LostSaid
  BY DEF LostSaid, Contains
<1> QED
  BY <1>3, <1>4, <1>5, <1>6 DEF OnceParts, InLane

LEMMA OnceUi ==
  ASSUME MaxConnects <= 1, TypeOK, OnceParts,
         \/ \E c \in Calls : Ask(c) \/ cancelReadAsync(c)
         \/ \E r \in Reqs : BackoffFires(r)
         \/ connectToHost \/ disconnectFromHost \/ Deliver \/ DestroyBackend
  PROVE  OnceParts' /\ lost' = lost
<1> USE DEF worker
<1>o. /\ \A c \in Calls : Order("start", <<c, 0>>) \in OrderType
                         /\ Order("cancel", <<c, 0>>) \in OrderType
      /\ \A r \in Reqs : Order("start", r) \in OrderType
  BY MessageType, RequestType
<1>1. ASSUME NEW c \in Calls, Ask(c) PROVE OnceParts' /\ lost' = lost
  BY <1>1, <1>o, OncePosts, OrderFacts DEF Ask, Issue
<1>2. ASSUME NEW c \in Calls, cancelReadAsync(c) PROVE OnceParts' /\ lost' = lost
  BY <1>2, <1>o, OncePosts, OrderFacts DEF cancelReadAsync
<1>3. ASSUME NEW r \in Reqs, BackoffFires(r) PROVE OnceParts' /\ lost' = lost
  BY <1>3, <1>o, OncePosts, OrderFacts DEF BackoffFires, Issue
<1>4. CASE disconnectFromHost
  <2>1. connects # 0
    BY <1>4 DEF disconnectFromHost, TypeOK
  <2> QED
    BY <1>4, <2>1, OncePosts, OrderFacts DEF disconnectFromHost
<1>5. CASE DestroyBackend
  <2>1. connects # 0
    BY <1>5 DEF DestroyBackend, TypeOK
  <2> QED
    BY <1>5, <2>1, OncePosts, OrderFacts DEF DestroyBackend
<1>6. CASE Deliver
  <2>1. results \in Seq(SignalType) /\ results # <<>> /\ results' = Tail(results)
    BY <1>6 DEF Deliver, TypeOK
  <2>2. LostSaid' => LostSaid
    BY <2>1, TailWithin DEF LostSaid
  <2>3. UNCHANGED <<connects, posted, state, lost, queue>>
    BY <1>6 DEF Deliver
  <2>4. \A r : InLane(r)' <=> InLane(r)
    BY <2>3 DEF InLane
  <2> QED
    BY <2>2, <2>3, <2>4 DEF OnceParts, NoConnect, FirstOrder, OrderedBy
<1>7. CASE connectToHost
  <2>1. connects = 0 /\ connects' = 1 /\ state = "Idle" /\ ~lost
    BY <1>7, BoundAssumption DEF connectToHost, OnceParts
  <2>2. /\ posted \in Seq(OrderType) /\ posted' = Append(posted, Order("connect", NoReq))
        /\ UNCHANGED <<results, state, lost, queue>>
    BY <1>7 DEF connectToHost, Post, TypeOK
  <2>3. \A x \in OrderType : Contains(posted, x) => <<x, Order("connect", NoReq)>> \in FirstOrder
    <3> SUFFICES ASSUME NEW x \in OrderType, Contains(posted, x)
                 PROVE  x.do \notin {"connect", "disconnect"}
      BY OrderFacts DEF FirstOrder
    <3> QED
      BY <2>1, OrderFacts DEF OnceParts, NoConnect
  <2>4. OrderedBy(posted', FirstOrder)
    BY <2>2, <2>3, OrderFacts, OrderedAppend DEF OnceParts
  <2> QED
    BY <2>1, <2>2, <2>4 DEF OnceParts, LostSaid
<1> QED
  BY <1>1, <1>2, <1>3, <1>4, <1>5, <1>6, <1>7

\* The worker says "lost" only when it is.
LEMMA LossIsSaid ==
  ASSUME TypeOK, Take \/ serviceSftp, LostSaid'
  PROVE  LostSaid
<1> DEFINE L == Signal("lost", NoReq)
<1>0. results \in Seq(SignalType)
  BY DEF TypeOK
<1>1. ASSUME NEW s \in Seq(SignalType), Emit(s), ~Contains(s, L) PROVE LostSaid
  BY <1>0, <1>1, ConcatContains DEF Emit, LostSaid
<1>2. ASSUME NEW e \in SignalType, e # L
      PROVE  <<e>> \in Seq(SignalType) /\ ~Contains(<<e>>, L)
  BY <1>2 DEF Contains
<1>3. /\ \A r \in Reqs, reason \in Reasons : Done(r, reason) \in SignalType /\ Done(r, reason) # L
      /\ \A r \in Reqs : Signal("chunk", r) \in SignalType /\ Signal("chunk", r) # L
  BY MessageType, MessagesDiffer
<1> HIDE DEF L
<1>4. ASSUME NEW r \in Reqs, NEW reason \in Reasons, Emit(<<Done(r, reason)>>) PROVE LostSaid
  BY <1>1, <1>2, <1>3, <1>4
<1>5. ASSUME NEW r \in Reqs, Emit(<<Signal("chunk", r)>>) PROVE LostSaid
  BY <1>1, <1>2, <1>3, <1>5
<1>6. CASE results' = results
  BY <1>6 DEF LostSaid
<1>7. CASE Take
  <2>1. PICK o \in OrderType : o = Head(posted)
    BY <1>7, HeadTailProperties DEF Take, TypeOK
  <2>2. ASSUME o.do = "start", enqueueSftpOp(o.req) PROVE LostSaid
    <3>1. o.req \in Reqs /\ "notConnected" \in Reasons
      BY <2>2, OrderFacts DEF Reasons
    <3> QED
      BY <1>4, <1>6, <2>2, <3>1 DEF enqueueSftpOp, Refuse
  <2>3. ASSUME o.do = "cancel", requestSftpCancelBulk(o.req) PROVE LostSaid
    <3>1. o.req \in Reqs /\ "permanent" \in Reasons
      BY <2>3, OrderFacts DEF Reasons
    <3> QED
      BY <1>4, <1>6, <2>3, <3>1 DEF requestSftpCancelBulk
  <2>4. ASSUME requestDisconnect PROVE LostSaid
    <3>1. "disconnected" \in Reasons \ {"none"}
      BY DEF Reasons
    <3>2. /\ failAllSftp("disconnected") \in Seq(SignalType)
          /\ ~Contains(failAllSftp("disconnected"), L)
      BY <1>3, <3>1, FailAllSays
    <3> QED
      BY <1>1, <2>4, <3>2 DEF requestDisconnect
  <2>5. ASSUME startConnect PROVE LostSaid
    BY <1>6, <2>5 DEF startConnect
  <2> QED
    BY <1>7, <2>1, <2>2, <2>3, <2>4, <2>5 DEF Take
<1>8. CASE serviceSftp
  <2>1. Working => Op \in Reqs
    BY OpType, TypeGroups
  <2>2. ASSUME NEW reason \in {"none", "sftpSession", "permanent"}, Working, EndOp(reason)
        PROVE  LostSaid
    <3>1. reason \in Reasons
      BY DEF Reasons
    <3> QED
      BY <1>4, <2>1, <2>2, <3>1 DEF EndOp
  <2> QED
    BY <1>5, <1>6, <1>8, <2>1, <2>2
       DEF serviceSftp, LaneEmpty, InitLane, OpAgain, OpOpens, OpTransfers, OpStats,
           OpRenames, OnHead
<1> QED
  BY <1>7, <1>8

LEMMA OnceWork ==
  ASSUME TypeOK, OnceParts,
         Take \/ BecomeReady \/ enterConnectionLost \/ onSocketActivity \/ serviceSftp
  PROVE  OnceParts' /\ (lost => lost')
<1>1. WorkMove
  BY TakeMoves, LossMoves, LaneMoves
     DEF BecomeReady, onSocketActivity, ui, server, WorkMove, Placed, Stays
<1>2. connects' = connects /\ \A x : Contains(posted', x) => Contains(posted, x)
  BY <1>1, PostedShrinks DEF WorkMove, ui
<1>3. OrderedBy(posted', FirstOrder)
  <2>1. posted' = posted \/ \E o : Takes(o)
    BY <1>1 DEF WorkMove, Placed, Clears, Stays, Refuses, Joins, Cancels, Ends, Streamed, TakesOther
  <2> QED
    BY <2>1, TakesLeaves DEF OnceParts
<1>4. ASSUME lost, NEW r \in Reqs PROVE ~InLane(r)'
  <2> SUFFICES ASSUME NEW lane \in Lanes, Contains(queue'[lane], r) PROVE FALSE
    BY DEF InLane
  <2>1. Contains(queue[lane], r)
    BY <1>1, <1>4, QueueShrinks DEF Joins
  <2> QED
    BY <1>4, <2>1 DEF OnceParts, InLane
<1>5. CASE Take
  <2>1. PICK o \in OrderType : Takes(o)
    BY <1>5, HeadTailProperties DEF Take, Takes, TypeOK
  <2>2. o = Head(posted) /\ Contains(posted, o)
        /\ \A x : Contains(posted', x) => <<o, x>> \in FirstOrder
    BY <2>1, TakesLeaves DEF Takes, OnceParts
  <2>3. LostSaid' => LostSaid
    BY <1>5, LossIsSaid
  <2>4. CASE o.do \in {"start", "cancel"}
    <3>1. state' = state /\ lost' = lost
      BY <1>5, <2>2, <2>4
         DEF Take, enqueueSftpOp, requestSftpCancelBulk, worker
    <3> QED
      BY <1>2, <1>3, <1>4, <2>3, <3>1 DEF OnceParts, NoConnect
  <2>5. CASE o.do \in {"connect", "disconnect"}
    <3>1. connects # 0 /\ NoConnect'
      <4>1. o \in {Order("connect", NoReq), Order("disconnect", NoReq)}
        BY <2>5, OrderFacts
      <4>2. connects # 0
        BY <2>2, <4>1 DEF OnceParts, NoConnect
      <4>3. NoConnect'
        BY <2>2, <2>5, OrderFacts DEF NoConnect, FirstOrder
      <4> QED
        BY <4>2, <4>3
    <3>2. CASE o.do = "connect" /\ startConnect
      <4>1. ~lost /\ ~lost'
        BY <2>2, <3>2, OrderFacts DEF OnceParts, NoConnect, startConnect
      <4> QED
        BY <1>2, <1>3, <2>3, <3>1, <4>1 DEF OnceParts
    <3>3. CASE o.do = "disconnect" /\ requestDisconnect
      <4>1. lost' = lost
        BY <3>3 DEF requestDisconnect
      <4> QED
        BY <1>2, <1>3, <1>4, <2>3, <3>1, <4>1 DEF OnceParts
    <3> QED
      BY <1>5, <2>2, <2>5, <3>2, <3>3 DEF Take
  <2>6. o.do \in {"start", "cancel"} \/ o.do \in {"connect", "disconnect"}
    BY DEF OrderType
  <2> QED
    BY <2>4, <2>5, <2>6
<1>6. CASE enterConnectionLost
  <2>1. /\ lost' /\ state \in {"Connecting", "Ready"} /\ posted' = posted
        /\ queue' = [lane \in Lanes |-> <<>>]
    BY <1>6 DEF enterConnectionLost, DropSession
  <2>2. connects # 0 /\ NoConnect'
    BY <2>1 DEF OnceParts, NoConnect
  <2>3. \A r : ~InLane(r)'
    BY <2>1 DEF InLane, Contains
  <2> QED
    BY <1>2, <1>3, <2>1, <2>2, <2>3 DEF OnceParts
<1>7. CASE BecomeReady
  <2>1. /\ lost' = lost /\ ~lost /\ state = "Connecting" /\ posted' = posted
        /\ results' = results
    BY <1>7 DEF BecomeReady
  <2> QED
    BY <1>2, <1>3, <2>1 DEF OnceParts, NoConnect, LostSaid
<1>8. CASE onSocketActivity
  <2>1. lost' = lost /\ state' = state /\ posted' = posted /\ results' = results
    BY <1>8 DEF onSocketActivity
  <2> QED
    BY <1>2, <1>3, <1>4, <2>1 DEF OnceParts, NoConnect, LostSaid
<1>9. CASE serviceSftp
  <2>1. lost' = lost /\ state' = state /\ posted' = posted
    BY <1>9 DEF serviceSftp, LaneEmpty, InitLane, OpAgain, OpOpens, OpTransfers, OpStats,
                OpRenames, EndOp
  <2>2. LostSaid' => LostSaid
    BY <1>9, LossIsSaid
  <2> QED
    BY <1>2, <1>3, <1>4, <2>1, <2>2 DEF OnceParts, NoConnect
<1> QED
  BY <1>5, <1>6, <1>7, <1>8, <1>9

LEMMA OnceStep ==
  ASSUME MaxConnects <= 1, TypeOK, OnceParts, [Next]_vars
  PROVE  OnceParts' /\ (lost => lost')
<1>1. CASE UNCHANGED vars
  BY <1>1 DEF vars, ui, worker, OnceParts, NoConnect, LostSaid, InLane, OrderedBy, FirstOrder
<1>2. CASE Next
  BY <1>2, OnceUi, OnceWork DEF Next
<1> QED
  BY <1>1, <1>2

-----------------------------------------------------------------------------
(* What changes the server is registered, and "ok" only if it was made     *)

LEMMA ChangingReqs ==
  \A r \in Reqs : Call(r) \in Changing =>
    r \in PlainReqs /\ ~Retries(Call(r)) /\ Call(r) \notin Reads \union Streams
BY PlainCalls DEF PlainReqs

Registered ==
  \A r \in Reqs : Call(r) \in Changing /\ alive /\ ~lost /\ Outstanding(r) => r \in waiting
OpenedDone == \A r \in opened : Call(r) \in Changing => r \in performed
OkDone ==
  \A r \in Reqs : Call(r) \in Changing /\ Contains(results, Done(r, "none")) => r \in performed
PerformsChanges == \A r \in performed : Call(r) \in Changing

LEMMA KeptShape ==
  /\ Kept <=> Registered /\ OpenedDone /\ OkDone /\ PerformsChanges
  /\ Kept' <=> Registered' /\ OpenedDone' /\ OkDone' /\ PerformsChanges'
BY DEF Kept, Registered, OpenedDone, OkDone, PerformsChanges

\* A call that changes the server and is under way is one its caller waits for.
LEMMA KeptUi ==
  ASSUME Orderly, OnceParts, Kept, [Next]_vars, ~WorkMove, lost => lost'
  PROVE  Registered'
<1> SUFFICES ASSUME NEW r \in Reqs, Call(r) \in Changing, alive', ~lost', Outstanding(r)'
             PROVE  r \in waiting'
  BY DEF Registered
<1>0. /\ r \in PlainReqs /\ Call(r) \notin Reads \union Streams /\ ~lost /\ TypeOK
      /\ posted \in Seq(OrderType)
  BY ChangingReqs DEF Orderly, TypeOK
<1>1. alive
  BY DEF Next, vars, ui, Ask, cancelReadAsync, BackoffFires, connectToHost, disconnectFromHost,
     Deliver, DestroyBackend, Take, BecomeReady, enterConnectionLost, onSocketActivity,
     serviceSftp, LaneEmpty, InitLane, OpAgain, OpOpens, OpTransfers, OpStats, OpRenames
<1>2. Outstanding(r) => r \in waiting
  BY <1>0, <1>1 DEF Kept
<1>3. ASSUME NEW q \in Reqs, Issue(q), queue' = queue PROVE r \in waiting'
  <2>1. posted' = Append(posted, Order("start", q)) /\ Order("start", q) \in OrderType
        /\ waiting' = waiting \union {q}
    BY <1>3, MessageType DEF Issue, Post
  <2>2. Outstanding(r) \/ r = q
    BY <1>0, <1>3, <2>1, AppendContains, MessagesDiffer DEF Outstanding, InLane
  <2> QED
    BY <1>2, <2>1, <2>2
<1>4. ASSUME NEW c \in Calls, Ask(c) PROVE r \in waiting'
  BY <1>3, <1>4, RequestType DEF Ask, worker
<1>5. ASSUME NEW q \in Reqs, BackoffFires(q) PROVE r \in waiting'
  BY <1>3, <1>5 DEF BackoffFires, worker
<1>6. ASSUME UiMove PROVE r \in waiting
  BY <1>2, <1>6, UiPlaces DEF Orderly
<1>7. ASSUME NEW c \in Calls, cancelReadAsync(c) PROVE r \in waiting'
  <2>1. waiting' = waiting \ {<<c, 0>>} /\ c \in Reads \union Streams
    BY <1>7 DEF cancelReadAsync
  <2>2. r # <<c, 0>>
    BY <1>0, <2>1, RequestType
  <2> QED
    BY <1>0, <1>6, <1>7, <2>1, <2>2, UiMoves
<1>8. CASE connectToHost \/ disconnectFromHost
  <2>1. waiting' = waiting
    BY <1>8 DEF connectToHost, disconnectFromHost
  <2> QED
    BY <1>0, <1>6, <1>8, <2>1, UiMoves
<1>9. CASE Deliver
  <2> DEFINE s == Head(results)
  <2>1. r \in waiting /\ Outstanding(r)
    BY <1>0, <1>6, <1>9, UiMoves, UiPlaces
  <2>2. results \in Seq(SignalType) /\ results # <<>>
    BY <1>9 DEF Deliver, Orderly, TypeOK
  <2>3. Contains(results, s) /\ s \in SignalType
    BY <2>2, TailWithin, HeadTailProperties
  <2> HIDE DEF s
  <2>4. s.what # "lost"
    BY <1>0, <2>3, OrderFacts DEF OnceParts, LostSaid
  <2>5. CASE s.what = "chunk" /\ onStreamChunk(s.req)
    BY <2>1, <2>5 DEF onStreamChunk
  <2>6. CASE s.what = "done" /\ onResult(s.req, s.reason)
    <3>1. waiting' = waiting \ ({s.req} \intersect waiting)
      BY <2>6 DEF onResult, RunCallbacks, Matching
    <3>2. s.req # r
      <4> SUFFICES ASSUME s.req = r PROVE FALSE
        OBVIOUS
      <4>1. s = Done(r, s.reason) /\ s.reason \in Reasons
        BY <2>3, <2>6 DEF SignalType, Done
      <4>2. InResults(r)
        BY <2>3, <4>1 DEF InResults
      <4> QED
        BY <1>0, <2>1, <4>2 DEF Orderly, Lines
    <3> QED
      BY <2>1, <3>1, <3>2
  <2> QED
    BY <1>9, <2>4, <2>5, <2>6 DEF Deliver, s
<1>10. ~DestroyBackend
  BY DEF DestroyBackend
<1>11. (BecomeReady \/ onSocketActivity \/ UNCHANGED vars) => WorkMove
  BY DEF BecomeReady, onSocketActivity, vars, ui, worker, server, WorkMove, Placed, Stays
<1> QED
  BY <1>0, <1>4, <1>5, <1>7, <1>8, <1>9, <1>10, <1>11, TakeMoves, LossMoves, LaneMoves DEF Next

LEMMA KeptStep ==
  ASSUME Orderly, OnceParts, Kept, [Next]_vars, lost => lost'
  PROVE  Kept'
<1>0. TypeOK /\ results \in Seq(SignalType)
  BY DEF Orderly, TypeOK
<1>1. CASE WorkMove
  <2>1. Registered'
    BY <1>0, <1>1, PlacesShrink DEF WorkMove, ui, Kept, Registered
  <2>2. performed \subseteq performed' /\ PerformsChanges'
    BY <1>1 DEF WorkMove, Kept, PerformsChanges
  <2>3. OpenedDone'
    BY <1>1, <2>2 DEF WorkMove, Kept, OpenedDone
  <2>4. ASSUME NEW r \in Reqs, Call(r) \in Changing, Contains(results', Done(r, "none")),
               ~Contains(results, Done(r, "none"))
        PROVE  r \in performed'
    <3> DEFINE d == Done(r, "none")
    <3>0. d \in SignalType /\ "none" \in Reasons
      BY MessageType DEF Reasons
    <3>1. ASSUME NEW e \in SignalType, results' = Append(results, e) PROVE e = d
      BY <1>0, <2>4, <3>1, AppendContains
    <3>2. ~Clears
      <4> SUFFICES ASSUME Clears PROVE FALSE
        OBVIOUS
      <4>1. PICK said \in Seq(SignalType) :
              /\ results' = results \o said
              /\ \A x \in SignalType : Contains(said, x) =>
                   \/ x = Signal("lost", NoReq)
                   \/ \E y \in Reqs, z \in Reasons \ {"none"} : InLane(y) /\ x = Done(y, z)
        BY DEF Clears
      <4>2. Contains(said, d)
        BY <1>0, <2>4, <4>1, ConcatContains
      <4> QED
        BY <3>0, <4>1, <4>2, MessagesDiffer
    <3>3. \A q \in Reqs : ~Refuses(q) /\ ~Cancels(q) /\ ~Joins(q)
      BY <2>4, <3>1, MessageType, MessagesDiffer DEF Refuses, Cancels, Joins, Reasons
    <3>4. ~Stays /\ \A lane \in Lanes, q \in Reqs : ~Streamed(lane, q)
      BY <2>4, <3>1, MessageType, MessagesDiffer DEF Stays, Streamed
    <3>5. PICK lane \in Lanes, q \in Reqs, reason \in Reasons : Ends(lane, q, reason)
      BY <1>1, <3>2, <3>3, <3>4 DEF WorkMove, Placed
    <3>6. q = r /\ reason = "none"
      BY <3>1, <3>5, MessageType, MessagesDiffer DEF Ends
    <3> QED
      BY <2>2, <2>4, <3>5, <3>6 DEF Ends, Kept
  <2>5. OkDone'
    BY <2>2, <2>4 DEF OkDone, Kept
  <2> QED
    BY <2>1, <2>2, <2>3, <2>5, KeptShape
<1>2. CASE ~WorkMove
  <2>1. Registered'
    BY <1>2, KeptUi
  <2>2. /\ opened' = opened /\ performed' = performed
        /\ \A s : Contains(results', s) => Contains(results, s)
    <3>1. CASE UiMove
      BY <1>0, <3>1, UiPlaces
    <3>2. CASE (\E c \in Calls : Ask(c)) \/ (\E r \in Reqs : BackoffFires(r))
      BY <3>2 DEF Ask, BackoffFires, worker, server
    <3> QED
      BY <1>0, <1>2, <3>1, <3>2, Moves
  <2>3. OpenedDone' /\ OkDone' /\ PerformsChanges'
    BY <2>2 DEF Kept, OpenedDone, OkDone, PerformsChanges
  <2> QED
    BY <2>1, <2>3, KeptShape
<1> QED
  BY <1>1, <1>2

-----------------------------------------------------------------------------
(* The promise is kept                                                     *)

\* What a caller hears: well, or not.
Well == <<TRUE>>
Ill == <<FALSE>>
Answer(reason) == IF reason = "none" THEN Well ELSE Ill

LEMMA OneFlag == \A x : Append(<<>>, x) = <<x>>
OBVIOUS

LEMMA AnswerIs ==
  ASSUME NEW s, s = <<>>, NEW reason
  PROVE  Append(s, reason = "none") = Answer(reason)
<1>1. reason = "none" => Append(s, reason = "none") = <<TRUE>>
  BY OneFlag, Zenon
<1>2. reason # "none" => Append(s, reason = "none") = <<FALSE>>
  BY OneFlag, Zenon
<1>3. /\ reason = "none" => Append(s, reason = "none") = Well
      /\ reason # "none" => Append(s, reason = "none") = Ill
  BY <1>1, <1>2, Zenon DEF Well, Ill
<1> QED
  BY <1>3 DEF Answer

EffectsMap == [c \in Calls |-> Effects(c)]
Asked == {c \in Calls : WasAsked(c)}

LEMMA ToSetIs ==
  ASSUME NEW s \in Seq(Calls)
  PROVE  ToSet(s) = {c \in Calls : Contains(s, c)}
BY DEF ToSet, Contains

LEMMA AskedIs ==
  ASSUME asked \in Seq(Calls), asked' \in Seq(Calls)
  PROVE  ToSet(asked) = Asked /\ ToSet(asked)' = Asked'
BY ToSetIs DEF Asked, WasAsked

\* The mapped state stays as it is.
LEMMA PromiseStutters ==
  asked' = asked /\ performed' = performed /\ answers' = answers /\ alive' = alive
    => UNCHANGED Promise!vars
BY DEF Promise!vars, Effects

LEMMA PromiseAsk ==
  ASSUME TypeOK, TypeOK', NEW c \in Calls, Ask(c)
  PROVE  Promise!Ask(c)
<1>1. /\ alive /\ alive' = alive /\ answers' = answers /\ ~WasAsked(c)
      /\ performed' = performed
  BY DEF Ask, server
<1>2. ToSet(asked) = Asked /\ ToSet(asked)' = Asked'
  BY AskedIs DEF TypeOK
<1>3. Asked' = Asked \union {c} /\ c \notin Asked
  BY <1>1, AskedGrows DEF Asked
<1>4. EffectsMap' = EffectsMap
  BY <1>1 DEF EffectsMap, Effects
<1> QED
  BY <1>1, <1>2, <1>3, <1>4 DEF Promise!Ask, EffectsMap

\* A caller that waits has no answer yet.
LEMMA WaitingIsOpen ==
  ASSUME Orderly, NEW r \in waiting
  PROVE  r \in Reqs /\ Call(r) \in Calls /\ Call(r) \in Asked /\ answers[Call(r)] = <<>>
BY RequestType DEF Orderly, OneToken, Tokens, TypeOK, Asked

\* A change that was made was made once.
LEMMA EffectsAre ==
  ASSUME Orderly, PerformsChanges
  PROVE  \A c \in Changing : Effects(c) = IF Only(c) \in performed THEN 1 ELSE 0
<1> SUFFICES ASSUME NEW c \in Changing
             PROVE  Effects(c) = IF Only(c) \in performed THEN 1 ELSE 0
  OBVIOUS
<1>1. \A r \in performed : Call(r) = c => r = Only(c)
  BY PlainCalls, ChangingReqs DEF PerformsChanges, Orderly, TypeOK, Books
<1>2. Call(Only(c)) = c
  BY PlainCalls
<1>3. CASE Only(c) \in performed
  <2>1. {r \in performed : Call(r) = c} = {Only(c)}
    BY <1>1, <1>2, <1>3
  <2> QED
    BY <1>3, <2>1, FS_Singleton DEF Effects
<1>4. CASE Only(c) \notin performed
  <2>1. {r \in performed : Call(r) = c} = {}
    BY <1>1, <1>4
  <2> QED
    BY <1>4, <2>1, FS_EmptySet DEF Effects
<1> QED
  BY <1>3, <1>4

LEMMA PromiseWork ==
  ASSUME Orderly, OnceParts, Kept, WorkMove, TypeOK'
  PROVE  [Promise!Next]_(Promise!vars)
<1>1. asked' = asked /\ answers' = answers /\ alive' = alive
  BY DEF WorkMove, ui
<1>2. CASE performed' = performed
  BY <1>1, <1>2, PromiseStutters
<1>3. ASSUME NEW r \in Heads, Call(r) \in Changing, performed' = performed \union {r},
             r \notin performed
      PROVE  Promise!Next
  <2> DEFINE c == Call(r)
  <2>0. /\ TypeOK /\ r \in Reqs /\ c \in Calls /\ r \in PlainReqs /\ PerformsChanges
        /\ asked \in Seq(Calls) /\ asked' \in Seq(Calls)
    BY <1>1, <1>3, RequestType, ChangingReqs DEF Heads, Orderly, TypeOK, Kept, PerformsChanges
  <2>1. InLane(r) /\ Outstanding(r) /\ ~lost
    BY <1>3, <2>0, HeadInLane DEF Heads, Outstanding, OnceParts, InLane
  <2>2. r = Only(c) /\ WasAsked(c)
    BY <2>0, <2>1 DEF Orderly, Books, Held
  <2>3. alive => answers[c] = <<>>
    BY <1>3, <2>0, <2>1, WaitingIsOpen DEF Kept
  <2>4. \A x \in performed : Call(x) # c
    BY <1>3, <2>0, <2>2, ChangingReqs DEF Orderly, TypeOK, Books
  <2>5. EffectsMap[c] = 0
    BY <1>3, <2>0, <2>2, EffectsAre DEF EffectsMap
  <2>6. EffectsMap' = [EffectsMap EXCEPT ![c] = 1]
    <3>1. {x \in performed' : Call(x) = c} = {r}
      BY <1>3, <2>4
    <3>2. \A d \in Calls \ {c} :
            {x \in performed' : Call(x) = d} = {x \in performed : Call(x) = d}
      BY <1>3
    <3>3. Effects(c)' = 1
      BY <3>1, FS_Singleton DEF Effects
    <3>4. \A d \in Calls \ {c} : Effects(d)' = Effects(d)
      BY <3>2 DEF Effects
    <3> QED
      BY <2>0, <3>3, <3>4 DEF EffectsMap
  <2>7. ToSet(asked) = Asked /\ ToSet(asked)' = Asked' /\ Asked' = Asked
    BY <1>1, <2>0, AskedIs DEF Asked, WasAsked
  <2>8. Promise!Perform(c)
    BY <1>1, <1>3, <2>0, <2>2, <2>3, <2>5, <2>6, <2>7
       DEF Promise!Perform, Promise!Open, EffectsMap, Asked
  <2> QED
    BY <2>0, <2>8 DEF Promise!Next
<1>4. ASSUME NEW r \in Heads, performed' = performed \union {r}, r \in performed
      PROVE  performed' = performed
  BY <1>4
<1> QED
  BY <1>2, <1>3, <1>4 DEF WorkMove

\* The callbacks of S tell the calls of S that do not go on.
Told(S, reason) == {Call(r) : r \in {s \in S : ~WillRetry(s, reason)}}

LEMMA CallbacksTell ==
  ASSUME Orderly, NEW S \in SUBSET waiting, NEW reason, RunCallbacks(S, reason)
  PROVE  /\ Told(S, reason) \subseteq Asked
         /\ \A c \in Told(S, reason) : answers[c] = <<>>
         /\ answers' = [c \in Calls |->
              IF c \in Told(S, reason) THEN Answer(reason) ELSE answers[c]]
<1>1. Told(S, reason) \subseteq Asked /\ \A c \in Told(S, reason) : answers[c] = <<>>
  BY WaitingIsOpen DEF Told
<1>2. answers' = [c \in Calls |->
        IF c \in Told(S, reason) THEN Append(answers[c], reason = "none") ELSE answers[c]]
  BY DEF RunCallbacks, Told
<1>3. \A c \in Told(S, reason) :
        Append(answers[c], reason = "none") = Answer(reason)
  BY <1>1, AnswerIs
<1> QED
  BY <1>1, <1>2, <1>3

\* Callers that are told of a failure.
LEMMA PromiseFails ==
  ASSUME Orderly, asked' = asked, performed' = performed, alive' = alive,
         NEW S \in SUBSET waiting, NEW reason, reason # "none", RunCallbacks(S, reason)
  PROVE  Promise!Next
<1>0. asked \in Seq(Calls) /\ asked' \in Seq(Calls)
  BY DEF Orderly, TypeOK
<1>1. ToSet(asked) = Asked /\ ToSet(asked)' = Asked' /\ Asked' = Asked
  BY <1>0, AskedIs DEF Asked, WasAsked
<1>2. Told(S, reason) \in SUBSET Promise!Open
  BY <1>1, CallbacksTell DEF Promise!Open
<1>3. Promise!Fail(Told(S, reason))
  <2>1. answers' = [c \in Calls |-> IF c \in Told(S, reason) THEN Ill ELSE answers[c]]
    BY CallbacksTell DEF Answer
  <2> QED
    BY <2>1, Zenon DEF Promise!Fail, Ill
<1>4. EffectsMap' = EffectsMap
  BY DEF EffectsMap, Effects
<1>5. Promise!FailSome
  BY <1>1, <1>2, <1>3, <1>4 DEF Promise!FailSome, EffectsMap
<1> QED
  BY <1>5 DEF Promise!Next

\* A caller that is told "ok".
LEMMA PromiseSucceeds ==
  ASSUME Orderly, PerformsChanges, OkDone, asked' = asked, performed' = performed,
         alive' = alive, NEW r \in waiting, Contains(results, Done(r, "none")),
         RunCallbacks({r}, "none")
  PROVE  Promise!Next
<1> DEFINE c == Call(r)
<1>0. asked \in Seq(Calls) /\ asked' \in Seq(Calls)
  BY DEF Orderly, TypeOK
<1>1. ToSet(asked) = Asked /\ ToSet(asked)' = Asked' /\ Asked' = Asked
  BY <1>0, AskedIs DEF Asked, WasAsked
<1>2. Told({r}, "none") = {c}
  BY DEF Told, WillRetry, isTransient
<1>3. r \in Reqs /\ c \in Calls /\ c \in Asked /\ answers[c] = <<>>
  BY WaitingIsOpen
<1>4. answers' = [answers EXCEPT ![c] = <<TRUE>>]
  <2>1. answers \in [Calls -> Seq(BOOLEAN)]
    BY DEF Orderly, TypeOK
  <2>2. answers' = [d \in Calls |-> IF d = c THEN Well ELSE answers[d]]
    <3>1. /\ Answer("none") = Well
          /\ answers' = [d \in Calls |->
               IF d \in Told({r}, "none") THEN Answer("none") ELSE answers[d]]
      BY CallbacksTell DEF Answer
    <3> QED
      BY <1>2, <3>1
  <2>3. answers' = [answers EXCEPT ![c] = Well]
    BY <1>3, <2>1, <2>2
  <2> QED
    BY <2>3, Zenon DEF Well
<1>5. c \in Changing => EffectsMap[c] = 1
  <2> SUFFICES ASSUME c \in Changing PROVE EffectsMap[c] = 1
    OBVIOUS
  <2>1. r \in performed
    BY <1>3 DEF OkDone
  <2>2. r = Only(c)
    BY <1>3, <2>1, ChangingReqs DEF Orderly, Books
  <2> QED
    BY <1>3, <2>1, <2>2, EffectsAre DEF EffectsMap
<1>6. EffectsMap' = EffectsMap
  BY DEF EffectsMap, Effects
<1>7. Promise!Succeed(c)
  BY <1>1, <1>3, <1>4, <1>5, <1>6 DEF Promise!Succeed, Promise!Open, EffectsMap
<1> QED
  BY <1>3, <1>7 DEF Promise!Next

LEMMA PromiseDeliver ==
  ASSUME Orderly, PerformsChanges, OkDone, Deliver
  PROVE  [Promise!Next]_(Promise!vars)
<1> DEFINE s == Head(results)
<1>0. /\ results \in Seq(SignalType) /\ results # <<>>
      /\ asked' = asked /\ performed' = performed /\ alive' = alive
  BY DEF Orderly, TypeOK, Deliver, server
<1>1. Contains(results, s) /\ s \in SignalType
  BY <1>0, TailWithin, HeadTailProperties
<1>2. \/ s.what = "done" /\ onResult(s.req, s.reason)
      \/ s.what = "chunk" /\ onStreamChunk(s.req)
      \/ s.what = "lost" /\ onConnectionLost
  BY DEF Deliver
<1> HIDE DEF s
<1>3. CASE s.what = "done" /\ onResult(s.req, s.reason)
  <2> DEFINE r == s.req
  <2>1. s = Done(r, s.reason) /\ RunCallbacks({r} \intersect waiting, s.reason)
    BY <1>1, <1>3 DEF SignalType, Done, onResult, Matching
  <2>2. CASE s.reason # "none"
    BY <1>0, <2>1, <2>2, PromiseFails
  <2>3. CASE s.reason = "none" /\ r \in waiting
    <3>1. {r} \intersect waiting = {r}
      BY <2>3
    <3> QED
      BY <1>0, <1>1, <2>1, <2>3, <3>1, PromiseSucceeds
  <2>4. CASE r \notin waiting
    <3>1. {r} \intersect waiting = {}
      BY <2>4
    <3>2. answers' = [c \in Calls |-> answers[c]]
      BY <2>1, <3>1 DEF RunCallbacks
    <3>3. answers' = answers
      BY <3>2 DEF Orderly, TypeOK
    <3> QED
      BY <1>0, <3>3, PromiseStutters
  <2> QED
    BY <2>2, <2>3, <2>4
<1>4. CASE onStreamChunk(s.req)
  BY <1>0, <1>4, PromiseStutters DEF onStreamChunk
<1>5. CASE onConnectionLost
  BY <1>0, <1>5, PromiseFails DEF onConnectionLost
<1> QED
  BY <1>2, <1>3, <1>4, <1>5

LEMMA PromiseDestroy ==
  ASSUME Orderly, DestroyBackend
  PROVE  Promise!Next
<1> DEFINE S == {Call(r) : r \in waiting}
<1>0. /\ asked \in Seq(Calls) /\ asked' \in Seq(Calls) /\ alive /\ alive' = FALSE
      /\ asked' = asked /\ performed' = performed
  BY DEF Orderly, TypeOK, DestroyBackend, server
<1>1. ToSet(asked) = Asked /\ ToSet(asked)' = Asked' /\ Asked' = Asked
  BY <1>0, AskedIs DEF Asked, WasAsked
<1>2. S \in SUBSET Promise!Open /\ \A c \in S : answers[c] = <<>>
  BY <1>1, WaitingIsOpen DEF Promise!Open
<1>3. answers' = [c \in Calls |-> IF c \in S THEN Append(answers[c], FALSE) ELSE answers[c]]
  BY DEF DestroyBackend
<1>4. \A c \in S : Append(answers[c], FALSE) = Ill
  BY <1>2, OneFlag, Zenon DEF Ill
<1>5. Promise!Fail(S)
  <2>1. answers' = [c \in Calls |-> IF c \in S THEN Ill ELSE answers[c]]
    BY <1>3, <1>4
  <2> QED
    BY <2>1, Zenon DEF Promise!Fail, Ill
<1>6. EffectsMap' = EffectsMap
  BY <1>0 DEF EffectsMap, Effects
<1>7. Promise!Destroy
  BY <1>0, <1>1, <1>2, <1>5, <1>6 DEF Promise!Destroy, EffectsMap
<1> QED
  BY <1>7 DEF Promise!Next

\* Every step is one of the promise or is not seen by the caller.
LEMMA PromiseStep ==
  ASSUME Orderly, TypeOK', OnceParts, Kept, [Next]_vars
  PROVE  [Promise!Next]_(Promise!vars)
<1>1. TypeOK /\ PerformsChanges /\ OkDone
  BY DEF Orderly, Kept, PerformsChanges, OkDone
<1>2. CASE WorkMove
  BY <1>2, PromiseWork
<1>3. ASSUME NEW c \in Calls, Ask(c) PROVE Promise!Next
  BY <1>1, <1>3, PromiseAsk DEF Promise!Next
<1>4. CASE \/ \E c \in Calls : cancelReadAsync(c)
           \/ \E r \in Reqs : BackoffFires(r)
           \/ connectToHost \/ disconnectFromHost
  BY <1>4, PromiseStutters
     DEF cancelReadAsync, BackoffFires, connectToHost, disconnectFromHost, server
<1>5. CASE UNCHANGED vars
  BY <1>5, PromiseStutters DEF vars, ui, server
<1>6. CASE BecomeReady \/ onSocketActivity
  BY <1>6, PromiseStutters DEF BecomeReady, onSocketActivity, ui, server
<1>7. Take \/ enterConnectionLost \/ serviceSftp => WorkMove
  BY <1>1, TakeMoves, LossMoves, LaneMoves
<1>8. CASE Deliver
  BY <1>1, <1>8, PromiseDeliver
<1>9. CASE DestroyBackend
  BY <1>9, PromiseDestroy
<1>10. CASE \E c \in Calls : Ask(c)
  BY <1>3, <1>10
<1> QED
  BY <1>2, <1>4, <1>5, <1>6, <1>7, <1>8, <1>9, <1>10 DEF Next

\* A connection that is made once keeps the promise of FsCalls: whatever is retried,
\* cancelled, lost or destroyed, a change is made at most once and never after its
\* caller was told of a failure, and "ok" is said only of a change that was made.
THEOREM FsPromiseCorrect == MaxConnects <= 1 /\ Spec => FsSpec
<1> SUFFICES ASSUME MaxConnects <= 1 PROVE Spec => FsSpec
  OBVIOUS
<1>1. Init => OnceParts /\ Kept /\ Promise!Init
  <2> SUFFICES ASSUME Init PROVE OnceParts /\ Kept /\ Promise!Init
    OBVIOUS
  <2>1. \A x : ~Contains(<<>>, x)
    BY DEF Contains
  <2>2. OnceParts
    BY <2>1 DEF Init, OnceParts, NoConnect, LostSaid, OrderedBy
  <2>3. Kept
    BY <2>1 DEF Init, Kept, Outstanding, InLane
  <2>4. ToSet(asked) = {} /\ \A c \in Calls : Effects(c) = 0
    <3>1. \A c \in Calls : {r \in performed : Call(r) = c} = {}
      BY DEF Init
    <3> QED
      BY <3>1, FS_EmptySet DEF Init, Effects, ToSet
  <2>5. Promise!Init
    BY <2>4 DEF Init, Promise!Init
  <2> QED
    BY <2>2, <2>3, <2>5
<1>2. Orderly /\ OnceParts /\ Kept /\ [Next]_vars => OnceParts' /\ Kept'
  BY OnceStep, KeptStep DEF Orderly
<1>3. Orderly /\ Orderly' /\ OnceParts /\ Kept /\ [Next]_vars => [Promise!Next]_(Promise!vars)
  BY PromiseStep DEF Orderly
<1> QED
  BY <1>1, <1>2, <1>3, OrderlyHolds, PTL DEF Spec, FsSpec, Promise!Spec
=============================================================================
