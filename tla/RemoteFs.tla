------------------------------ MODULE RemoteFs ------------------------------
(***************************************************************************)
(* The remote file system: RemoteFsBackend on the UI thread, the SFTP      *)
(* engine of SshSessionWorker on the worker thread, and the two queues of  *)
(* posted calls between them (queued invocations one way, queued result    *)
(* signals the other).  A call is a model value; each attempt at it is     *)
(* posted under a fresh reqId, <<call, attempt>> here.  A handler of       *)
(* either thread runs to completion: while the worker's lane loop runs     *)
(* (serving # "none") the worker takes nothing else.  The transport's      *)
(* answers are nondeterministic; what the server carried out is performed. *)
(***************************************************************************)
EXTENDS Integers, Sequences, FiniteSets, SequencesExt

CONSTANTS
  Reads,        \* readFileAsyncTracked calls
  Streams,      \* readFileStreamAsync calls
  Writes,       \* writeFileAsync calls
  Stats,        \* statAsync calls
  Dirs,         \* readdirAsync calls
  Renames,      \* renameAsync, mkdirAsync and unlinkAsync calls
  MaxRetries,   \* kMaxRetries
  MaxConnects,  \* bound: connectToHost calls on one connection
  MaxChunks     \* bound: chunks of a streamed file

Bulk == Reads \union Streams \union Writes
Meta == Stats \union Dirs \union Renames
Calls == Bulk \union Meta
Changing == Writes \union Renames       \* never replayed
Handled == Bulk \union Dirs             \* need an open handle
Reqs == Calls \X (0 .. MaxRetries)
Lanes == {"bulk", "meta"}

ASSUME BoundAssumption ==
  MaxRetries \in Nat /\ MaxConnects \in Nat /\ MaxChunks \in Nat

\* A call that is streamed or that changes the server is of no kind that is retried,
\* and none that changes the server is one that may be cancelled.
ASSUME KindsAssumption ==
  /\ Streams \intersect (Reads \union Writes \union Meta) = {}
  /\ Changing \intersect (Reads \union Stats \union Dirs) = {}

VARIABLES
  \* the backend, on the UI thread
  asked,      \* the calls made so far, in order (history)
  waiting,    \* keys of the callback maps
  backoff,    \* attempts a singleShot timer will post
  answers,    \* the "ok" flags each call's callback was given (history)
  delivered,  \* chunks each stream's chunk callback was given (history)
  cancelled,  \* reads given to cancelReadAsync (history)
  alive,      \* the backend, its context and its connection exist
  connects,   \* connectToHost calls so far
  ended,      \* the UI knows of the end of the attempt: Retry is offered
  \* between the threads
  posted,     \* invocations queued for the worker
  results,    \* signals queued for the UI thread
  \* the worker
  state, lost,  \* m_state (the connecting states merged), m_lost
  queue,      \* m_sftpBulkQueue and m_sftpMetaQueue
  inited,     \* m_sftpBulkInited, m_sftpMetaInited
  opened,     \* requests in phase Transfer: they hold a handleId
  serving,    \* the lane whose loop is running
  \* the transport and the server
  handles,    \* requests whose handleId still names an open handle
  chunks,     \* chunks read so far for each stream
  performed   \* requests that changed the server (history)

ui == <<asked, waiting, backoff, answers, delivered, cancelled, alive, connects, ended>>
worker == <<state, lost, queue, inited, opened, serving>>
server == <<handles, chunks, performed>>
vars == <<ui, posted, results, worker, server>>

Call(r) == r[1]
Attempt(r) == r[2]

\* Wrong variant: all requests go to one lane.
OneLane(c) == "bulk"
laneForKind(c) == IF c \in Bulk THEN "bulk" ELSE "meta"

\* The calls whose callback is wrapped with the retry.
Retries(c) == c \in Reads \union Stats \union Dirs

\* isTransientError() of the reasons a request fails for.
Reasons == {"none", "notConnected", "disconnected", "sftpSession", "connectionLost",
            "permanent"}
isTransient(reason) == reason \notin {"none", "permanent"}

Order(do, r) == [do |-> do, req |-> r]
Done(r, reason) == [what |-> "done", req |-> r, reason |-> reason]
Signal(what, r) == [what |-> what, req |-> r, reason |-> "none"]
NoReq == <<>>

Post(order) == posted' = Append(posted, order)
\* Wrong variant: signals overtake those already queued.
EmitFirst(signals) == results' = signals \o results
Emit(signals) == results' = results \o signals

WasAsked(c) == Contains(asked, c)

-----------------------------------------------------------------------------
(* The backend: calls and cancels                                          *)

\* ++m_nextReqId, register the callback, post the request.
Issue(r) == waiting' = waiting \union {r} /\ Post(Order("start", r))

Ask(c) ==
  /\ alive /\ ~WasAsked(c)
  /\ asked' = Append(asked, c)
  /\ Issue(<<c, 0>>)
  /\ UNCHANGED <<backoff, answers, delivered, cancelled, alive, connects, ended,
                 results, worker, server>>

BackoffFires(r) ==
  /\ alive /\ r \in backoff
  /\ backoff' = backoff \ {r}
  /\ Issue(r)
  /\ UNCHANGED <<asked, answers, delivered, cancelled, alive, connects, ended,
                 results, worker, server>>

\* The load timeout and the transfer's cancel: only the first reqId is known.
cancelReadAsync(c) ==
  /\ alive /\ c \in Reads \union Streams /\ WasAsked(c)
  /\ answers[c] = <<>> /\ c \notin cancelled
  /\ waiting' = waiting \ {<<c, 0>>}
  /\ Post(Order("cancel", <<c, 0>>))
  /\ cancelled' = cancelled \union {c}
  /\ UNCHANGED <<asked, backoff, answers, delivered, alive, connects, ended,
                 results, worker, server>>

\* The registry connects once; the dialog's Retry does again on its error page.
connectToHost ==
  /\ alive /\ connects < MaxConnects
  /\ connects = 0 \/ ended
  /\ connects' = connects + 1 /\ ended' = FALSE
  /\ Post(Order("connect", NoReq))
  /\ UNCHANGED <<asked, waiting, backoff, answers, delivered, cancelled, alive,
                 results, worker, server>>

\* The dialog's overall timeout or Cancel.
disconnectFromHost ==
  /\ alive /\ connects > 0 /\ ~ended
  /\ ended' = TRUE
  /\ Post(Order("disconnect", NoReq))
  /\ UNCHANGED <<asked, waiting, backoff, answers, delivered, cancelled, alive,
                 connects, results, worker, server>>

-----------------------------------------------------------------------------
(* The backend: results                                                    *)

\* Wrong variant: an attempt that fails is always followed by another.
RetriesForEver(r, reason) == Retries(Call(r)) /\ isTransient(reason)

\* Wrong variant: the wrapper is put around the mutating calls too.
WillReplay(r, reason) == Attempt(r) < MaxRetries /\ isTransient(reason)

\* The wrapped callback retries after a back-off; otherwise it tells the caller.
WillRetry(r, reason) ==
  /\ Retries(Call(r)) /\ Attempt(r) < MaxRetries /\ isTransient(reason)

NextAttempt(r) == <<Call(r), Attempt(r) + 1>>

\* The callbacks of the requests of S run with the same outcome.
RunCallbacks(S, reason) ==
  LET told == {Call(r) : r \in {s \in S : ~WillRetry(s, reason)}}
  IN  /\ waiting' = waiting \ S
      /\ backoff' = backoff \union {NextAttempt(r) : r \in {s \in S : WillRetry(s, reason)}}
      /\ answers' = [c \in Calls |->
            IF c \in told THEN Append(answers[c], reason = "none") ELSE answers[c]]

\* Wrong variant: a result is taken for a request already answered or cancelled.
AnyMatch(r) == {r}
Matching(r) == {r} \intersect waiting

onResult(r, reason) ==
  RunCallbacks(Matching(r), reason) /\ UNCHANGED <<delivered, ended>>

onStreamChunk(r) ==
  /\ delivered' = IF r \in waiting
                  THEN [delivered EXCEPT ![Call(r)] = @ + 1] ELSE delivered
  /\ UNCHANGED <<waiting, backoff, answers, ended>>

onConnectionLost ==
  /\ RunCallbacks(waiting, "connectionLost")
  /\ ended' = TRUE /\ UNCHANGED delivered

Deliver ==
  /\ alive /\ results # <<>>
  /\ LET s == Head(results)
     IN  \/ s.what = "done" /\ onResult(s.req, s.reason)
         \/ s.what = "chunk" /\ onStreamChunk(s.req)
         \/ s.what = "lost" /\ onConnectionLost
  /\ results' = Tail(results)
  /\ UNCHANGED <<asked, cancelled, alive, connects, posted, worker, server>>

\* The registry deletes the context, and with it the backend: the destructor
\* answers what the maps hold, the timers die with their context object.
DestroyBackend ==
  /\ alive /\ connects > 0
  /\ alive' = FALSE
  /\ answers' = [c \in Calls |-> IF \E r \in waiting : Call(r) = c
                                 THEN Append(answers[c], FALSE) ELSE answers[c]]
  /\ waiting' = {} /\ backoff' = {} /\ results' = <<>>
  /\ Post(Order("disconnect", NoReq))
  /\ UNCHANGED <<asked, delivered, cancelled, connects, ended, worker, server>>

-----------------------------------------------------------------------------
(* The worker: requests                                                    *)

Failed(ops, reason) == [i \in DOMAIN ops |-> Done(ops[i], reason)]

\* serviceSftp(): run both lane loops, meta first.
ServeIf(up) == serving' = IF up THEN "meta" ELSE "none"
Up == ~lost /\ state = "Ready"

\* Wrong variant: a request that comes too late is dropped.
DropRequest(r) == <<>>
Refuse(r) == <<Done(r, "notConnected")>>

\* Wrong variant: a request is put before those that wait.
JoinFirst(lane, r) == <<r>> \o queue[lane]
Join(lane, r) == Append(queue[lane], r)

enqueueSftpOp(r) ==
  LET lane == laneForKind(Call(r))
  IN  IF lost \/ state = "Disconnected"
      THEN /\ Emit(Refuse(r))
           /\ UNCHANGED <<worker, server>>
      ELSE /\ queue' = [queue EXCEPT ![lane] = Join(lane, r)]
           /\ ServeIf(Up)
           /\ UNCHANGED <<results, state, lost, inited, opened, server>>

BulkReqs == {r \in Reqs : Call(r) \in Bulk}

requestSftpCancelBulk(r) ==
  IF Contains(queue["bulk"], r)
  THEN /\ queue' = [queue EXCEPT !["bulk"] = RemoveFirst(@, r)]
       /\ Emit(<<Done(r, "permanent")>>)
       /\ handles' = handles \ BulkReqs
       /\ inited' = inited \ {"bulk"}
       /\ opened' = opened \ {r}
       /\ ServeIf(Up)
       /\ UNCHANGED <<state, lost, chunks, performed>>
  ELSE UNCHANGED <<results, worker, server>>

startConnect ==
  /\ state' = "Connecting" /\ lost' = FALSE /\ inited' = {}
  /\ UNCHANGED <<results, queue, opened, serving, server>>

\* Wrong variant: the metadata lane is forgotten.
FailBulkOnly(reason) == Failed(queue["bulk"], reason)
failAllSftp(reason) == Failed(queue["bulk"] \o queue["meta"], reason)

DropSession ==
  /\ state' = "Disconnected"
  /\ queue' = [lane \in Lanes |-> <<>>]
  /\ inited' = {} /\ opened' = {} /\ handles' = {}
  /\ UNCHANGED <<serving, chunks, performed>>

requestDisconnect ==
  DropSession /\ Emit(failAllSftp("disconnected")) /\ UNCHANGED lost

Take ==
  /\ serving = "none" /\ posted # <<>>
  /\ LET o == Head(posted)
     IN  \/ o.do = "start" /\ enqueueSftpOp(o.req)
         \/ o.do = "cancel" /\ requestSftpCancelBulk(o.req)
         \/ o.do = "connect" /\ startConnect
         \/ o.do = "disconnect" /\ requestDisconnect
  /\ posted' = Tail(posted)
  /\ UNCHANGED ui

\* The last step of advanceConnect; the socket edge goes on to serviceSftp,
\* the host key's answer does not.
BecomeReady ==
  /\ serving = "none" /\ ~lost /\ state = "Connecting"
  /\ state' = "Ready"
  /\ \E edge \in BOOLEAN : ServeIf(edge)
  /\ UNCHANGED <<ui, posted, results, lost, queue, inited, opened, server>>

enterConnectionLost ==
  /\ serving = "none" /\ ~lost /\ state \in {"Connecting", "Ready"}
  /\ lost' = TRUE /\ DropSession
  /\ LET reason == IF state = "Ready" THEN "connectionLost" ELSE "permanent"
     IN  Emit(Append(failAllSftp(reason), Signal("lost", NoReq)))
  /\ UNCHANGED <<ui, posted>>

onSocketActivity ==
  /\ serving = "none" /\ Up
  /\ ServeIf(TRUE)
  /\ UNCHANGED <<ui, posted, results, state, lost, queue, inited, opened, server>>

-----------------------------------------------------------------------------
(* The worker: the lane loops                                              *)

laneQueue == queue[serving]
Working == serving # "none" /\ laneQueue # <<>>
Op == Head(laneQueue)

\* The loop of this lane returns.
LaneReturns == serving' = IF serving = "meta" THEN "bulk" ELSE "none"

\* The head op ends with a signal; the loop goes on.
EndOp(reason) ==
  /\ queue' = [queue EXCEPT ![serving] = Tail(@)]
  /\ Emit(<<Done(Op, reason)>>)
  /\ opened' = opened \ {Op} /\ handles' = handles \ {Op}
  /\ UNCHANGED <<state, lost, inited, serving, chunks>>

LaneEmpty ==
  /\ serving # "none" /\ laneQueue = <<>>
  /\ LaneReturns
  /\ UNCHANGED <<ui, posted, results, state, lost, queue, inited, opened, server>>

\* ensureSftpLaneInited
InitLane ==
  /\ Working /\ serving \notin inited
  /\ UNCHANGED <<ui, posted, performed>>
  /\ \/ /\ LaneReturns                                      \* Step::Again
        /\ UNCHANGED <<results, state, lost, queue, inited, opened, handles, chunks>>
     \/ EndOp("sftpSession")                                \* Step::Error
     \/ /\ inited' = inited \union {serving}                \* Step::Ok
        /\ UNCHANGED <<results, state, lost, queue, opened, serving, handles, chunks>>

OnHead(kinds) == Working /\ serving \in inited /\ Call(Op) \in kinds

\* What the server does with a request that changes it is known only later.
Perform == performed' = performed \union {Op}
MayPerform == UNCHANGED performed \/ (Call(Op) \in Changing /\ Perform)

\* EAGAIN: the loop of this lane returns, the op stays its head.
OpAgain ==
  /\ OnHead(Calls) /\ (Op \in opened => Op \in handles)
  /\ LaneReturns /\ MayPerform
  /\ UNCHANGED <<ui, posted, results, state, lost, queue, inited, opened, handles, chunks>>

OpOpens ==
  /\ OnHead(Handled) /\ Op \notin opened
  /\ UNCHANGED <<ui, posted>>
  /\ \/ /\ opened' = opened \union {Op} /\ handles' = handles \union {Op}
        /\ IF Call(Op) \in Changing THEN Perform ELSE UNCHANGED performed
        /\ UNCHANGED <<results, state, lost, queue, inited, serving, chunks>>
     \/ EndOp("permanent") /\ MayPerform

\* A handle that is gone fails the op; otherwise the transport decides.
OpTransfers ==
  /\ OnHead(Handled) /\ Op \in opened
  /\ UNCHANGED <<ui, posted, performed>>
  /\ \/ EndOp("permanent")
     \/ Op \in handles /\ EndOp("none")
     \/ /\ Op \in handles /\ Call(Op) \in Streams /\ chunks[Call(Op)] < MaxChunks
        /\ chunks' = [chunks EXCEPT ![Call(Op)] = @ + 1]
        /\ Emit(<<Signal("chunk", Op)>>)
        /\ UNCHANGED <<state, lost, queue, inited, opened, serving, handles>>

\* A missing path is an answer, not an error.
OpStats == OnHead(Stats) /\ EndOp("none") /\ UNCHANGED <<ui, posted, performed>>

OpRenames ==
  /\ OnHead(Renames)
  /\ UNCHANGED <<ui, posted>>
  /\ \/ EndOp("none") /\ Perform
     \/ EndOp("permanent") /\ MayPerform

serviceSftp == LaneEmpty \/ InitLane \/ OpAgain \/ OpOpens \/ OpTransfers
               \/ OpStats \/ OpRenames

-----------------------------------------------------------------------------
(* Specification                                                           *)

Init ==
  /\ asked = <<>> /\ waiting = {} /\ backoff = {} /\ cancelled = {}
  /\ answers = [c \in Calls |-> <<>>] /\ delivered = [c \in Streams |-> 0]
  /\ alive = TRUE /\ connects = 0 /\ ended = FALSE
  /\ posted = <<>> /\ results = <<>>
  /\ state = "Idle" /\ lost = FALSE /\ queue = [lane \in Lanes |-> <<>>]
  /\ inited = {} /\ opened = {} /\ serving = "none"
  /\ handles = {} /\ chunks = [c \in Streams |-> 0] /\ performed = {}

Next ==
  \/ \E c \in Calls : Ask(c) \/ cancelReadAsync(c)
  \/ \E r \in Reqs : BackoffFires(r)
  \/ connectToHost \/ disconnectFromHost \/ Deliver \/ DestroyBackend
  \/ Take \/ BecomeReady \/ enterConnectionLost \/ onSocketActivity
  \/ serviceSftp

Spec == Init /\ [][Next]_vars

\* What the threads' event loops, the timers and the sockets guarantee: posted
\* calls (between any two handlers) and signals are delivered, a back-off ends, a
\* running handler ends, the
\* registry connects, the connect phase ends (by its deadline at the latest) and
\* the server's keepalive replies keep the socket readable.
Loops ==
  /\ SF_vars(Take) /\ WF_vars(Deliver) /\ WF_vars(serviceSftp)
  /\ WF_vars(connects = 0 /\ connectToHost)
  /\ WF_vars(onSocketActivity) /\ WF_vars(BecomeReady)
  /\ \A r \in Reqs : WF_vars(BackoffFires(r))

\* The server answers on the metadata lane; nothing is said of the bulk lane.
MetaAnswers == /\ serving = "meta" /\ serviceSftp
               /\ <<queue, inited, opened>>' # <<queue, inited, opened>>

FairSpec == Spec /\ Loops /\ SF_vars(MetaAnswers)

-----------------------------------------------------------------------------
(* Properties                                                              *)

OrderType == [do : {"start", "cancel"}, req : Reqs]
             \union [do : {"connect", "disconnect"}, req : {NoReq}]
SignalType == [what : {"done"}, req : Reqs, reason : Reasons]
              \union [what : {"chunk"}, req : Reqs, reason : {"none"}]
              \union [what : {"lost"}, req : {NoReq}, reason : {"none"}]

\* Types of the backend's, the worker's and the queues' state.
TypeOK ==
  /\ asked \in Seq(Calls) /\ waiting \subseteq Reqs /\ backoff \subseteq Reqs
  /\ answers \in [Calls -> Seq(BOOLEAN)] /\ delivered \in [Streams -> Nat]
  /\ cancelled \subseteq Calls /\ alive \in BOOLEAN /\ ended \in BOOLEAN
  /\ connects \in 0 .. MaxConnects
  /\ posted \in Seq(OrderType) /\ results \in Seq(SignalType)
  /\ state \in {"Idle", "Connecting", "Ready", "Disconnected"} /\ lost \in BOOLEAN
  /\ queue \in [Lanes -> Seq(Reqs)] /\ inited \subseteq Lanes
  /\ opened \subseteq Reqs /\ serving \in Lanes \union {"none"}
  /\ handles \subseteq Reqs /\ chunks \in [Streams -> 0 .. MaxChunks]
  /\ performed \subseteq Reqs

Effects(c) == Cardinality({r \in performed : Call(r) = c})

\* Each call is answered at most once; a change is made at most once, before the
\* answer, and an "ok" means it was made: what callers of the backend rely on.
Promise == INSTANCE FsCalls
  WITH asked <- ToSet(asked), effects <- [c \in Calls |-> Effects(c)]
FsSpec == Promise!Spec

InLane(r) == \E lane \in Lanes : Contains(queue[lane], r)
Outstanding(r) == Contains(posted, Order("start", r)) \/ InLane(r)
InResults(r) == \E reason \in Reasons : Contains(results, Done(r, reason))

\* A registered callback is never orphaned: its request is still on its way to
\* the worker, in a lane, or its result on the way back.
NoOrphans == \A r \in waiting : Outstanding(r) \/ InResults(r)

\* Once a save was carried out no earlier save is left to overwrite it.
LastWriteWins ==
  \A i, j \in DOMAIN asked :
    (i < j /\ {asked[i], asked[j]} \subseteq Writes /\ Effects(asked[j]) > 0)
      => ~Outstanding(<<asked[i], 0>>)

\* No callback runs twice, whatever is retried, lost, cancelled or destroyed.
AnsweredOnce == \A c \in Calls : Len(answers[c]) <= 1

\* A stream that ended well gave its caller every chunk that was read.
StreamIsWhole ==
  \A c \in Streams : answers[c] = <<TRUE>> => delivered[c] = chunks[c]

\* cancelReadAsync silences a stream: no chunk and no answer follows it.
StreamSilenced ==
  [][\A c \in cancelled \intersect Streams :
       alive' => delivered'[c] = delivered[c] /\ answers'[c] = answers[c]]_vars

\* A tree operation is answered however long the bulk lane is stuck.
MetaNeverWaitsForBulk ==
  \A c \in Meta : WasAsked(c) ~> (answers[c] # <<>> \/ ~alive)

\* When the session has ended every caller hears of it.
EndAnswersAll ==
  \A c \in Calls :
    (ended /\ WasAsked(c)) ~> (answers[c] # <<>> \/ c \in cancelled \/ ~alive)

\* RemoteFsBackend.cpp, cancelReadAsync: a late result "is silently discarded
\* rather than firing after the timeout".
CancelledStaysSilent ==
  [][\A c \in cancelled : alive' => answers'[c] = answers[c]]_vars

\* SshSessionWorker.cpp, requestSftpCancelBulk: "Any remaining ops in the bulk
\* queue can now proceed": an op under way still has its handle.
OthersKeepTheirHandle == opened \subseteq handles
=============================================================================
