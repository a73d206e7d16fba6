---------------------------- MODULE SshChannels ----------------------------
(***************************************************************************)
(* The channel multiplexer of one SSH session: SshSessionWorker's          *)
(* admission queues, channel set-up with busy back-off, the exec engine,   *)
(* the maintenance timer, and what loss, disconnect and reconnect do to    *)
(* them.  The worker lives on one thread, so a handler (a posted request,  *)
(* a socket edge, a timer tick) runs to completion; the calls it still has *)
(* to make are the frames of todo, and no other handler starts until todo  *)
(* is empty.  The transport's answers (EAGAIN, busy, error, EOF) are       *)
(* nondeterministic.  The four connecting states are one state here; they  *)
(* are told apart in SshConnect.                                           *)
(***************************************************************************)
EXTENDS Integers, Sequences, FiniteSets, SequencesExt

CONSTANTS
  Ptys,          \* logical ids of terminal channels (always long-lived)
  Shorts,        \* exec request ids of kind ShortLived
  Longs,         \* exec request ids of kind LongLived
  ChannelCap,    \* m_channelCap, channels the server lets a session have
  SftpReserved,  \* kSftpReserved
  MaxLongLived   \* kMaxLongLived

Execs == Shorts \union Longs
LongKind == Ptys \union Longs
Ids == Ptys \union Execs
Lanes == {"bulk", "meta"}

ASSUME IdAssumption ==
  /\ IsFiniteSet(Ptys) /\ IsFiniteSet(Shorts) /\ IsFiniteSet(Longs)
  /\ Ptys \intersect Execs = {} /\ Shorts \intersect Longs = {}

ASSUME CapAssumption ==
  /\ ChannelCap \in Nat \ {0}
  /\ SftpReserved = Cardinality(Lanes)
  /\ MaxLongLived \in Nat \ {0}

VARIABLES
  state,        \* m_state, the connecting states merged
  lost,         \* m_lost
  phase,        \* phase of each entry of m_channels and m_execOps; "None"
                \* before the request, "Gone"/"Cancelled" once removed
  execOps,      \* m_execOps, in request order
  shortQueue,   \* m_shortQueue
  longQueue,    \* m_longQueue
  retry,        \* nextRetryMs: 0, in the future or elapsed
  sftp,         \* the SFTP lanes that are initialised
  closing,      \* channels whose close handshake is still being flushed
  maintenance,  \* is the maintenance timer running?
  answers,      \* signals emitted for each id, in order (history)
  todo          \* the calls the running handler still has to make

vars == <<state, lost, phase, execOps, shortQueue, longQueue, retry, sftp,
          closing, maintenance, answers, todo>>

States == {"Idle", "Connecting", "Ready", "Disconnected"}
Phases == {"None", "Queued", "Opening", "Setup", "Open", "Gone", "Cancelled"}
Live == {"Opening", "Setup", "Open"}      \* counted against the budget
Known == {"Queued"} \union Live           \* still in m_channels / m_execOps
Signals == {"opened", "openFailed", "closed", "done"}
Calls == {"pump", "admit", "setup", "setupLoop", "read", "readLoop", "flush",
          "exec", "sftp", "closes", "arm", "tickEnd"}

-----------------------------------------------------------------------------
(* Counting and budgets                                                    *)

LiveIn(S) == {id \in S : phase[id] \in Live}
liveDynamicCount == Cardinality(LiveIn(Ids))
liveLongLivedCount == Cardinality(LiveIn(LongKind))
unifiedLiveCount == liveDynamicCount + Cardinality(sftp)

DynamicBudget ==
  IF ChannelCap > SftpReserved THEN ChannelCap - SftpReserved ELSE ChannelCap
\* Wrong variant: the long-lived budget is not a share of the dynamic one.
LongMayFillThePool == DynamicBudget

MaxLong ==
  IF DynamicBudget > MaxLongLived THEN MaxLongLived ELSE DynamicBudget

\* An opener that openChannel may be tried for now.
MayTry(id) == phase[id] = "Opening" => retry[id] # "waiting"

\* hasBackoffReady()
BackoffReady == \E id \in Ids : phase[id] = "Opening" /\ retry[id] = "due"

-----------------------------------------------------------------------------
(* The running handler                                                     *)

Frame(call) == [call |-> call, left |-> {}, at |-> 1]
Frames == [call : Calls, left : SUBSET Ptys, at : Nat]

Idle == todo = <<>>
Running(call) == todo # <<>> /\ Head(todo).call = call
Return == todo' = Tail(todo)
Start(frames) == Idle /\ todo' = frames

PumpBody == <<Frame("admit"), Frame("setup"), Frame("read"), Frame("flush"),
              Frame("exec"), Frame("closes")>>

\* Wrong variant: a slot is freed without re-running the admission.
FreesWithoutAdmitting == <<Frame("arm")>>

\* What finishChannel and requestExecCancel go on to call.
AfterFinish == IF ~lost /\ state = "Ready"
               THEN <<Frame("admit"), Frame("setup"), Frame("exec"), Frame("arm")>>
               ELSE <<Frame("arm")>>
AfterCancel == IF ~lost /\ state = "Ready"
               THEN <<Frame("admit"), Frame("arm")>>
               ELSE <<Frame("arm")>>

\* closeChannel: freed at once, or retained until pumpChannelCloses frees it.
HasTransport(id) == phase[id] \in {"Setup", "Open"}
CloseTransport(id, opened) ==
  closing' \in IF opened /\ state = "Ready"
               THEN {closing, closing \union {id}} ELSE {closing}

-----------------------------------------------------------------------------
(* Loss and disconnect                                                     *)

\* Wrong variant: an opener already answered is answered again.
StillOnTheBooks(S) == {id \in S : phase[id] # "None"}

Dropped(S) == {id \in S : phase[id] \in Known}

\* channelClosed ends a terminal, execDone a command.
Ending(id) == IF id \in Ptys THEN "closed" ELSE "done"
Told(id, signal) == [answers EXCEPT ![id] = Append(@, signal)]

\* The openers of S still known are dropped and answered.
DropAll(S) ==
  LET dropped == Dropped(S)
  IN  /\ phase' = [id \in Ids |-> IF id \in dropped THEN "Gone" ELSE phase[id]]
      /\ answers' = [id \in Ids |->
                       IF id \in dropped THEN Append(answers[id], Ending(id))
                                         ELSE answers[id]]
      /\ retry' = [id \in Ids |-> IF id \in dropped THEN "none" ELSE retry[id]]

\* Wrong variants: one of the sub-queues survives.
ClearAllButLong == execOps' = <<>> /\ shortQueue' = <<>> /\ UNCHANGED longQueue
ClearAllButShort == execOps' = <<>> /\ longQueue' = <<>> /\ UNCHANGED shortQueue

ClearQueues == execOps' = <<>> /\ shortQueue' = <<>> /\ longQueue' = <<>>

\* enterConnectionLost: every channel and op is answered and forgotten.
EnterConnectionLost ==
  /\ lost' = TRUE
  /\ state' = "Disconnected"
  /\ DropAll(Ids)
  /\ ClearQueues
  /\ sftp' = {} /\ closing' = {}
  /\ todo' = <<>>

Lose == EnterConnectionLost /\ maintenance' = FALSE

\* requestDisconnect: failAllExec answers the exec ops and empties both
\* sub-queues; the terminals are neither answered nor forgotten.
RequestDisconnect ==
  /\ Idle
  /\ state' = "Disconnected"
  /\ maintenance' = FALSE
  /\ DropAll(Execs)
  /\ ClearQueues
  /\ sftp' = {} /\ closing' = {}
  /\ UNCHANGED <<lost, todo>>

-----------------------------------------------------------------------------
(* Connecting                                                              *)

\* startConnect is called on a fresh session or from the dialog's Retry.  Its
\* trailing armMaintenanceTimer() runs even when the first poll loses.
StartConnect ==
  /\ Idle
  /\ state \in {"Idle", "Disconnected"}
  /\ \/ /\ state' = "Connecting"
        /\ lost' = FALSE
        /\ sftp' = {}
        /\ maintenance' = TRUE
        /\ UNCHANGED <<phase, execOps, shortQueue, longQueue, retry, closing,
                       answers, todo>>
     \/ EnterConnectionLost /\ maintenance' = TRUE

PumpReturns ==
  /\ Running("pump")
  /\ state # "Ready"
  /\ Return
  /\ UNCHANGED <<state, lost, phase, execOps, shortQueue, longQueue, retry,
                 sftp, closing, maintenance, answers>>

PumpConnects ==
  /\ Running("pump")
  /\ state = "Connecting"
  /\ state' = "Ready"
  /\ maintenance' = FALSE
  /\ todo' = PumpBody \o Tail(todo)
  /\ UNCHANGED <<lost, phase, execOps, shortQueue, longQueue, retry, sftp,
                 closing, answers>>

PumpLoses == Running("pump") /\ state = "Connecting" /\ Lose

PumpReady ==
  /\ Running("pump")
  /\ state = "Ready"
  /\ todo' = PumpBody \o Tail(todo)
  /\ UNCHANGED <<state, lost, phase, execOps, shortQueue, longQueue, retry,
                 sftp, closing, maintenance, answers>>

-----------------------------------------------------------------------------
(* Requests posted by the UI thread                                        *)

Refused == lost \/ state = "Disconnected"

RequestOpenChannel(p) ==
  /\ Idle
  /\ phase[p] = "None"
  /\ IF Refused
     THEN /\ phase' = [phase EXCEPT ![p] = "Gone"]
          /\ answers' = Told(p, "openFailed")
          /\ UNCHANGED <<longQueue, todo>>
     ELSE /\ phase' = [phase EXCEPT ![p] = "Queued"]
          /\ longQueue' = Append(longQueue, p)
          /\ todo' = <<Frame("pump")>>
          /\ UNCHANGED answers
  /\ UNCHANGED <<state, lost, execOps, shortQueue, retry, sftp, closing,
                 maintenance>>

\* Wrong variant: every command joins the short queue.
EveryKindIsShort(e) == Append(shortQueue, e)

JoinShort(e) == IF e \in Shorts THEN Append(shortQueue, e) ELSE shortQueue
JoinLong(e) == IF e \in Longs THEN Append(longQueue, e) ELSE longQueue

RequestExec(e) ==
  /\ Idle
  /\ phase[e] = "None"
  /\ IF Refused
     THEN /\ phase' = [phase EXCEPT ![e] = "Gone"]
          /\ answers' = Told(e, "done")
          /\ UNCHANGED <<execOps, shortQueue, longQueue, todo>>
     ELSE /\ phase' = [phase EXCEPT ![e] = "Queued"]
          /\ execOps' = Append(execOps, e)
          /\ shortQueue' = JoinShort(e)
          /\ longQueue' = JoinLong(e)
          /\ todo' = IF state = "Ready" THEN <<Frame("admit"), Frame("exec")>>
                                        ELSE <<>>
          /\ UNCHANGED answers
  /\ UNCHANGED <<state, lost, retry, sftp, closing, maintenance>>

\* finishChannel: forget the terminal, tell its end after the signals of heard,
\* and let others have its slot.
FinishChannel(p, heard, opened, rest) ==
  /\ CloseTransport(p, opened)
  /\ phase' = [phase EXCEPT ![p] = "Gone"]
  /\ retry' = [retry EXCEPT ![p] = "none"]
  /\ longQueue' = RemoveFirst(longQueue, p)
  /\ answers' = [answers EXCEPT ![p] = Append(heard, "closed")]
  /\ todo' = AfterFinish \o rest
  /\ UNCHANGED <<state, lost, execOps, shortQueue, sftp, maintenance>>

RequestCloseChannel(p) ==
  /\ Idle
  /\ phase[p] \in Known
  /\ FinishChannel(p, answers[p], HasTransport(p), <<>>)

RequestExecCancel(e) ==
  /\ Idle
  /\ phase[e] \in Known
  /\ CloseTransport(e, HasTransport(e))
  /\ phase' = [phase EXCEPT ![e] = "Cancelled"]
  /\ retry' = [retry EXCEPT ![e] = "none"]
  /\ execOps' = RemoveFirst(execOps, e)
  /\ shortQueue' = RemoveFirst(shortQueue, e)
  /\ longQueue' = RemoveFirst(longQueue, e)
  /\ todo' = AfterCancel
  /\ UNCHANGED <<state, lost, sftp, maintenance, answers>>

\* requestExecWrite, requestWrite and the requestSftp* slots reach the channels
\* only through serviceExec, flushPendingWrites and serviceSftp.
RequestExecWrite(e) ==
  /\ phase[e] \in Known
  /\ Start(<<Frame("exec")>>)
  /\ UNCHANGED <<state, lost, phase, execOps, shortQueue, longQueue, retry,
                 sftp, closing, maintenance, answers>>

RequestWrite(p) ==
  /\ phase[p] \in Known
  /\ ~lost
  /\ Start(<<Frame("flush")>>)
  /\ UNCHANGED <<state, lost, phase, execOps, shortQueue, longQueue, retry,
                 sftp, closing, maintenance, answers>>

RequestSftp ==
  /\ Start(<<Frame("sftp")>>)
  /\ UNCHANGED <<state, lost, phase, execOps, shortQueue, longQueue, retry,
                 sftp, closing, maintenance, answers>>

RequestSftpCancelBulk ==
  /\ Start(<<Frame("sftp")>>)
  /\ ~Refused
  /\ sftp' = sftp \ {"bulk"}
  /\ UNCHANGED <<state, lost, phase, execOps, shortQueue, longQueue, retry,
                 closing, maintenance, answers>>

-----------------------------------------------------------------------------
(* admitPending                                                            *)

\* Wrong variant: the share of the long-lived is not looked at.
LongIgnoresItsShare == longQueue # <<>> /\ liveDynamicCount < DynamicBudget

ShortAdmissible == shortQueue # <<>> /\ liveDynamicCount < DynamicBudget
LongAdmissible == /\ longQueue # <<>>
                  /\ liveDynamicCount < DynamicBudget
                  /\ liveLongLivedCount < MaxLong

Promote(id) ==
  phase' = [phase EXCEPT ![id] = IF @ = "Queued" THEN "Opening" ELSE @]

AdmitShort ==
  /\ Running("admit")
  /\ ShortAdmissible
  /\ Promote(Head(shortQueue))
  /\ shortQueue' = Tail(shortQueue)
  /\ UNCHANGED <<state, lost, execOps, longQueue, retry, sftp, closing,
                 maintenance, answers, todo>>

\* Wrong variant: the long queue does not wait for the short one.
AdmitLongAnyTime ==
  /\ Running("admit")
  /\ LongAdmissible
  /\ Promote(Head(longQueue))
  /\ longQueue' = Tail(longQueue)
  /\ UNCHANGED <<state, lost, execOps, shortQueue, retry, sftp, closing,
                 maintenance, answers, todo>>

AdmitLong ==
  /\ Running("admit")
  /\ ~ShortAdmissible
  /\ LongAdmissible
  /\ Promote(Head(longQueue))
  /\ longQueue' = Tail(longQueue)
  /\ UNCHANGED <<state, lost, execOps, shortQueue, retry, sftp, closing,
                 maintenance, answers, todo>>

AdmitDone ==
  /\ Running("admit")
  /\ ~ShortAdmissible
  /\ ~LongAdmissible
  /\ Return
  /\ UNCHANGED <<state, lost, phase, execOps, shortQueue, longQueue, retry,
                 sftp, closing, maintenance, answers>>

-----------------------------------------------------------------------------
(* advanceChannelSetup                                                     *)

\* The rest of the running loop once terminal p has been visited.
AfterVisit(p) == <<[Head(todo) EXCEPT !.left = @ \ {p}]>> \o Tail(todo)

SetupStart ==
  /\ Running("setup")
  /\ todo' = <<[Frame("setupLoop") EXCEPT !.left = {p \in Ptys : phase[p] \in Known}]>>
             \o Tail(todo)
  /\ UNCHANGED <<state, lost, phase, execOps, shortQueue, longQueue, retry,
                 sftp, closing, maintenance, answers>>

SettingUp == {p \in Head(todo).left : phase[p] \in {"Opening", "Setup"} /\ MayTry(p)}

\* How far openChannel, requestPty and execOrShell can take an opener at once.
Onward(id) == IF phase[id] = "Opening" THEN {"Opening", "Setup", "Open"}
              ELSE {phase[id], "Open"}

SetupAdvance(p) ==
  /\ Running("setupLoop")
  /\ p \in SettingUp
  /\ \E next \in Onward(p) :
       /\ phase' = [phase EXCEPT ![p] = next]
       /\ retry' = IF next = "Opening" THEN retry ELSE [retry EXCEPT ![p] = "none"]
       /\ answers' = IF next = "Open" THEN Told(p, "opened") ELSE answers
  /\ todo' = AfterVisit(p)
  /\ UNCHANGED <<state, lost, execOps, shortQueue, longQueue, sftp, closing,
                 maintenance>>

SetupBusy(p) ==
  /\ Running("setupLoop")
  /\ p \in SettingUp
  /\ phase[p] = "Opening"
  /\ retry' = [retry EXCEPT ![p] = "waiting"]
  /\ maintenance' = TRUE
  /\ todo' = AfterVisit(p)
  /\ UNCHANGED <<state, lost, phase, execOps, shortQueue, longQueue, sftp,
                 closing, answers>>

\* A set-up that fails is told twice: channelOpenFailed, then the channelClosed
\* of finishChannel.
SetupError(p) ==
  /\ Running("setupLoop")
  /\ p \in SettingUp
  /\ \E opened \in BOOLEAN :
       /\ HasTransport(p) => opened
       /\ FinishChannel(p, Append(answers[p], "openFailed"), opened, AfterVisit(p))

SetupDone ==
  /\ Running("setupLoop")
  /\ SettingUp = {}
  /\ Return
  /\ UNCHANGED <<state, lost, phase, execOps, shortQueue, longQueue, retry,
                 sftp, closing, maintenance, answers>>

-----------------------------------------------------------------------------
(* readSweep and flushPendingWrites                                        *)

ReadStart ==
  /\ Running("read")
  /\ todo' = <<[Frame("readLoop") EXCEPT !.left = {p \in Ptys : phase[p] = "Open"}]>>
             \o Tail(todo)
  /\ UNCHANGED <<state, lost, phase, execOps, shortQueue, longQueue, retry,
                 sftp, closing, maintenance, answers>>

ReadEof(p) ==
  /\ Running("readLoop")
  /\ p \in Head(todo).left
  /\ phase[p] = "Open"
  /\ FinishChannel(p, answers[p], TRUE, AfterVisit(p))

ReadError(p) ==
  /\ Running("readLoop")
  /\ p \in Head(todo).left
  /\ phase[p] = "Open"
  /\ Lose

ReadDone ==
  /\ Running("readLoop")
  /\ Return
  /\ UNCHANGED <<state, lost, phase, execOps, shortQueue, longQueue, retry,
                 sftp, closing, maintenance, answers>>

FlushDone ==
  /\ Running("flush")
  /\ Return
  /\ UNCHANGED <<state, lost, phase, execOps, shortQueue, longQueue, retry,
                 sftp, closing, maintenance, answers>>

WriteError ==
  /\ Running("flush")
  /\ \E p \in Ptys : phase[p] = "Open"
  /\ Lose

-----------------------------------------------------------------------------
(* serviceExec and advanceExecOp                                           *)

ServesExec == Running("exec") /\ state = "Ready"

\* The op the loop stops at next: those still queued or backing off are skipped.
IsNextOp(i) ==
  LET Visitable(j) == phase[execOps[j]] # "Queued" /\ MayTry(execOps[j])
  IN  /\ i \in Head(todo).at .. Len(execOps)
      /\ Visitable(i)
      /\ \A j \in Head(todo).at .. i - 1 : ~Visitable(j)

Proceed(i) == <<[Head(todo) EXCEPT !.at = i]>> \o Tail(todo)

ExecAdvance(i) ==
  /\ ServesExec
  /\ IsNextOp(i)
  /\ \E next \in Onward(execOps[i]) :
       /\ phase' = [phase EXCEPT ![execOps[i]] = next]
       /\ retry' = IF next = "Opening" THEN retry
                   ELSE [retry EXCEPT ![execOps[i]] = "none"]
  /\ todo' = Proceed(i + 1)
  /\ UNCHANGED <<state, lost, execOps, shortQueue, longQueue, sftp, closing,
                 maintenance, answers>>

ExecBusy(i) ==
  /\ ServesExec
  /\ IsNextOp(i)
  /\ phase[execOps[i]] = "Opening"
  /\ retry' = [retry EXCEPT ![execOps[i]] = "waiting"]
  /\ maintenance' = TRUE
  /\ todo' = Proceed(i + 1)
  /\ UNCHANGED <<state, lost, phase, execOps, shortQueue, longQueue, sftp,
                 closing, answers>>

\* execDone, for a finished command as for any error on its channel.
ExecDone(i) ==
  /\ ServesExec
  /\ IsNextOp(i)
  /\ \E opened \in BOOLEAN :
       /\ HasTransport(execOps[i]) => opened
       /\ CloseTransport(execOps[i], opened)
  /\ phase' = [phase EXCEPT ![execOps[i]] = "Gone"]
  /\ retry' = [retry EXCEPT ![execOps[i]] = "none"]
  /\ answers' = Told(execOps[i], "done")
  /\ execOps' = RemoveAt(execOps, i)
  /\ todo' = <<Frame("admit")>> \o Proceed(i)
  /\ UNCHANGED <<state, lost, shortQueue, longQueue, sftp, maintenance>>

ExecReturns ==
  /\ Running("exec")
  /\ state = "Ready" => \A i \in 1 .. Len(execOps) : ~IsNextOp(i)
  /\ Return
  /\ UNCHANGED <<state, lost, phase, execOps, shortQueue, longQueue, retry,
                 sftp, closing, maintenance, answers>>

-----------------------------------------------------------------------------
(* SFTP lanes, deferred closes and timers                                  *)

\* serviceSftp as the budget sees it: a lane with work is initialised.
ServiceSftp ==
  /\ Running("sftp")
  /\ sftp' \in IF state = "Ready" THEN {sftp \union S : S \in SUBSET Lanes} ELSE {sftp}
  /\ Return
  /\ UNCHANGED <<state, lost, phase, execOps, shortQueue, longQueue, retry,
                 closing, maintenance, answers>>

PumpCloses ==
  /\ Running("closes")
  /\ closing' \in SUBSET closing
  /\ maintenance' = (maintenance \/ closing' # {})
  /\ Return
  /\ UNCHANGED <<state, lost, phase, execOps, shortQueue, longQueue, retry,
                 sftp, answers>>

ArmForCloses ==
  /\ Running("arm")
  /\ maintenance' = (maintenance \/ (~lost /\ closing # {}))
  /\ Return
  /\ UNCHANGED <<state, lost, phase, execOps, shortQueue, longQueue, retry,
                 sftp, closing, answers>>

\* onMaintenanceTick, up to the calls it makes; the connect deadline may be up.
MaintenanceTick ==
  /\ Idle
  /\ maintenance
  /\ \/ /\ lost
        /\ maintenance' = FALSE
        /\ UNCHANGED <<state, lost, phase, execOps, shortQueue, longQueue,
                       retry, sftp, closing, answers, todo>>
     \/ ~lost /\ state = "Connecting" /\ Lose
     \/ /\ ~lost
        /\ state = "Connecting"
        /\ todo' = <<Frame("pump")>>
        /\ UNCHANGED <<state, lost, phase, execOps, shortQueue, longQueue,
                       retry, sftp, closing, maintenance, answers>>
     \/ /\ ~lost
        /\ state = "Ready"
        /\ todo' = IF BackoffReady
                   THEN <<Frame("setup"), Frame("exec"), Frame("tickEnd")>>
                   ELSE <<Frame("tickEnd")>>
        /\ UNCHANGED <<state, lost, phase, execOps, shortQueue, longQueue,
                       retry, sftp, closing, maintenance, answers>>

\* Its end: flush the closes, and stop the timer if nothing is left for it.
TickEnd ==
  /\ Running("tickEnd")
  /\ closing' \in SUBSET closing
  /\ maintenance' = (maintenance /\ (BackoffReady \/ closing' # {}))
  /\ Return
  /\ UNCHANGED <<state, lost, phase, execOps, shortQueue, longQueue, retry,
                 sftp, answers>>

\* onKeepaliveTick, when it finds the second miss or cannot send the probe.
KeepaliveLost == Idle /\ state = "Ready" /\ Lose

\* onSocketActivity: an edge of the read or the write notifier.
SocketActivity ==
  /\ state \in {"Connecting", "Ready"}
  /\ Start(<<Frame("pump"), Frame("sftp"), Frame("exec")>>)
  /\ UNCHANGED <<state, lost, phase, execOps, shortQueue, longQueue, retry,
                 sftp, closing, maintenance, answers>>

\* acceptHostKey, as far as the channels are concerned.
AcceptHostKey ==
  /\ state = "Connecting"
  /\ Start(<<Frame("pump")>>)
  /\ UNCHANGED <<state, lost, phase, execOps, shortQueue, longQueue, retry,
                 sftp, closing, maintenance, answers>>

\* The clock passes an opener's nextRetryMs.
BackoffElapses(id) ==
  /\ retry[id] = "waiting"
  /\ retry' = [retry EXCEPT ![id] = "due"]
  /\ UNCHANGED <<state, lost, phase, execOps, shortQueue, longQueue, sftp,
                 closing, maintenance, answers, todo>>

\* rejectHostKey
RejectHostKey == Idle /\ state = "Connecting" /\ Lose

-----------------------------------------------------------------------------
Init ==
  /\ state = "Idle" /\ lost = FALSE
  /\ phase = [id \in Ids |-> "None"]
  /\ execOps = <<>> /\ shortQueue = <<>> /\ longQueue = <<>>
  /\ retry = [id \in Ids |-> "none"]
  /\ sftp = {} /\ closing = {}
  /\ maintenance = FALSE
  /\ answers = [id \in Ids |-> <<>>]
  /\ todo = <<>>

\* What makes a handler start: the UI thread, the socket, the timers.
Event ==
  \/ StartConnect \/ RequestDisconnect
  \/ \E p \in Ptys : RequestOpenChannel(p) \/ RequestCloseChannel(p) \/ RequestWrite(p)
  \/ \E e \in Execs : RequestExec(e) \/ RequestExecCancel(e) \/ RequestExecWrite(e)
  \/ RequestSftp \/ RequestSftpCancelBulk
  \/ MaintenanceTick \/ KeepaliveLost \/ SocketActivity
  \/ AcceptHostKey \/ RejectHostKey

\* The worker thread inside a handler.
WorkerStep ==
  \/ PumpReturns \/ PumpConnects \/ PumpLoses \/ PumpReady
  \/ AdmitShort \/ AdmitLong \/ AdmitDone
  \/ SetupStart \/ SetupDone
  \/ \E p \in Ptys : SetupAdvance(p) \/ SetupBusy(p) \/ SetupError(p)
  \/ ReadStart \/ ReadDone
  \/ \E p \in Ptys : ReadEof(p) \/ ReadError(p)
  \/ FlushDone \/ WriteError
  \/ \E i \in 1 .. Len(execOps) : ExecAdvance(i) \/ ExecBusy(i) \/ ExecDone(i)
  \/ ExecReturns
  \/ ServiceSftp \/ PumpCloses \/ ArmForCloses \/ TickEnd

Next == Event \/ WorkerStep \/ \E id \in Ids : BackoffElapses(id)

Spec == Init /\ [][Next]_vars

ExecDoneOf(e) == \E i \in 1 .. Len(execOps) : execOps[i] = e /\ ExecDone(i)

\* A handler runs to its end; the event loop reaches a ready socket and a due
\* timer; the clock moves; a short-lived command ends.  Nothing is assumed of
\* terminals, of long-lived commands or of the user.
Fairness ==
  /\ WF_vars(WorkerStep)
  /\ SF_vars(SocketActivity)
  /\ WF_vars(MaintenanceTick)
  /\ \A id \in Ids : WF_vars(BackoffElapses(id))
  /\ \A e \in Shorts : SF_vars(ExecDoneOf(e))

FairSpec == Spec /\ Fairness

-----------------------------------------------------------------------------
(* Properties                                                              *)

TypeOK ==
  /\ state \in States
  /\ lost \in BOOLEAN /\ maintenance \in BOOLEAN
  /\ phase \in [Ids -> Phases]
  /\ execOps \in Seq(Execs) /\ shortQueue \in Seq(Shorts) /\ longQueue \in Seq(LongKind)
  /\ retry \in [Ids -> {"none", "waiting", "due"}]
  /\ sftp \in SUBSET Lanes /\ closing \in SUBSET Ids
  /\ answers \in [Ids -> Seq(Signals)]
  /\ todo \in Seq(Frames)

\* admitPending keeps the openers of all kinds within the dynamic budget and
\* the long-lived ones within theirs, whatever fails, closes or is re-admitted
\* while a handler is half-way; and with the SFTP reservation carved out, PTY,
\* exec and SFTP channels together never exceed what the server allows (FIX-2).
AdmittedWithin == liveDynamicCount <= DynamicBudget /\ liveLongLivedCount <= MaxLong
UnifiedCap == ChannelCap > SftpReserved => unifiedLiveCount <= ChannelCap
BudgetRespected == AdmittedWithin /\ UnifiedCap

\* m_execOps, the sub-queues and the phases tell the same story: an entry
\* stands for one opener, and no command the worker knows has lost its entry.
\* (A terminal may: see TerminalNeverDropped.)
QueuesMatchPhases ==
  /\ IsInjective(execOps) /\ IsInjective(shortQueue) /\ IsInjective(longQueue)
  /\ \A e \in Execs : Contains(execOps, e) <=> phase[e] \in Known
  /\ \A e \in Shorts : Contains(shortQueue, e) <=> phase[e] = "Queued"
  /\ \A e \in Longs : Contains(longQueue, e) <=> phase[e] = "Queued"
  /\ \A p \in Ptys : Contains(longQueue, p) => phase[p] = "Queued"

\* Exactly one end is told of an opener, when it is dropped and not before: an
\* execDone of a command, never of a cancelled one; of a terminal a channelClosed,
\* after channelOpened if it came up, after channelOpenFailed if its set-up failed
\* (never both), and channelOpenFailed alone if the request was refused.
EndsOf(id) ==
  IF id \in Ptys
  THEN {<<"openFailed">>, <<"openFailed", "closed">>, <<"closed">>, <<"opened", "closed">>}
  ELSE {<<"done">>}
HeardSoFar(id) == IF id \in Ptys /\ phase[id] = "Open" THEN <<"opened">> ELSE <<>>

AnsweredOnce ==
  \A id \in Ids : IF phase[id] = "Gone" THEN answers[id] \in EndsOf(id)
                                      ELSE answers[id] = HeardSoFar(id)

\* Between handlers of a ready session no opener waits beside a slot it may
\* have: every path that frees a slot re-runs the admission.
WorkConserving == Idle /\ state = "Ready" => ~ShortAdmissible /\ ~LongAdmissible

\* Once m_lost is set nothing of the dead session is left to be used (D8).
LossForgetsAll ==
  lost => /\ state = "Disconnected"
          /\ \A id \in Ids : phase[id] \notin Known
          /\ execOps = <<>> /\ shortQueue = <<>> /\ longQueue = <<>>
          /\ sftp = {} /\ closing = {}

\* The admission is a slot pool with priorities (see SlotPool).
Standing(id) ==
  CASE phase[id] = "None" -> "new"
    [] phase[id] = "Queued" -> "waiting"
    [] phase[id] \in Live -> "holding"
    [] OTHER -> "left"

standings == [id \in Ids |-> Standing(id)]

Pool == INSTANCE SlotPool
          WITH Short <- Shorts, Long <- LongKind, Budget <- DynamicBudget,
               MaxLong <- MaxLong, standing <- standings

PoolSpec == Pool!Spec

\* While the session stays up a short-lived command that waits is admitted,
\* answered or cancelled, even if no terminal and no agent ever ends.
ShortServed ==
  \A e \in Shorts :
    <>[](state = "Ready") => (phase[e] = "Queued" ~> phase[e] # "Queued")

\* SshSessionWorker.cpp:829: the timer stops "only when there is nothing left
\* to drive - neither a backoff retry nor an in-flight channel close".
BackoffDriven ==
  Idle /\ state = "Ready" /\ (\E id \in Ids : phase[id] = "Opening" /\ retry[id] # "none")
    => maintenance

\* SshSessionWorker.cpp:351: "Keep the maintenance timer armed while any
\* remain so the close flushes even if the socket goes quiet."
ClosesDriven == Idle /\ state = "Ready" /\ closing # {} => maintenance

\* SshSessionWorker.cpp:283: a queued terminal is "never dropped".
TerminalNeverDropped ==
  state = "Ready" =>
    \A p \in Ptys : phase[p] = "Queued" => Contains(longQueue, p)
=============================================================================
