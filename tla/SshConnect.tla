----------------------------- MODULE SshConnect -----------------------------
(***************************************************************************)
(* One connection while it is made and kept: SshConnectDialog and the      *)
(* SshConnection facade on the UI thread, the connect phase, its deadline  *)
(* and the keepalive of SshSessionWorker on the worker thread, and the two *)
(* queues of posted calls between them.  The transport's answers are       *)
(* nondeterministic.  Time is not counted: a deadline passes, a timer that *)
(* runs may fire; the worker may be held up for as long as a name lookup   *)
(* blocks.  Channels are SshChannels' and requests RemoteFs's.             *)
(***************************************************************************)
EXTENDS Integers, Sequences

CONSTANTS
  MaxAttempts,  \* bound: connectToHost calls, the dialog's Retry included
  MaxSilent     \* bound: keepalive ticks counted by the history variable

ASSUME BoundAssumption == MaxAttempts \in Nat /\ MaxSilent \in Nat

VARIABLES
  \* the dialog and the facade, on the UI thread
  page,       \* the dialog's page
  result,     \* "open" until the dialog is accepted or rejected
  overall,    \* m_overallTimer is running
  handled,    \* m_hostKeyHandled
  attempts,   \* connectToHost calls so far
  known,      \* m_hostKeyStore has the host's present key
  seen,       \* the facade's m_state
  \* between the threads
  posted,     \* invocations queued for the worker
  signals,    \* signals queued for the UI thread
  \* the worker
  state,      \* m_state
  lost,       \* m_lost
  accepted,   \* m_hostKeyAccepted
  expired,    \* m_connectDeadlineMs has passed
  maintenance,\* m_maintenanceTimer is running
  writes,     \* a channel's bytes wait for the socket: the write notifier is on
  inbound,    \* m_sawInboundSinceKeepalive
  misses,     \* m_keepaliveMissCount
  silent      \* keepalive ticks since the server was last heard (history)

ui == <<page, result, overall, handled, attempts, known, seen>>
link == <<state, lost, accepted, expired, maintenance>>
pulse == <<writes, inbound, misses, silent>>
vars == <<ui, posted, signals, link, pulse>>

Stages == <<"ConnectingSocket", "Handshaking", "AwaitingHostKey", "Authenticating",
            "Ready">>
Connecting == {"ConnectingSocket", "Handshaking", "AwaitingHostKey", "Authenticating"}
States == Connecting \union {"Idle", "Ready", "Disconnected"}

Changed(s) == [what |-> "state", state |-> s]
Event(what) == [what |-> what, state |-> "Idle"]

\* What the worker emits on its way through the stages, in order.
Announcements ==
  <<Changed("ConnectingSocket"), Changed("Handshaking"), Changed("AwaitingHostKey"),
    Event("hostKey"), Changed("Authenticating"), Changed("Ready"), Event("connected")>>

\* How many of them were emitted when a stage was entered.
Announced == <<1, 2, 4, 5, 7>>
Between(from, to) == SubSeq(Announcements, Announced[from] + 1, Announced[to])

-----------------------------------------------------------------------------
(* The dialog                                                              *)

Open == result = "open"
Post(order) == posted' = Append(posted, order)
Show(p) == page' = p
Close(how) == result' = how /\ overall' = FALSE

\* Every handler of the dialog leaves the worker alone.
Dialog == UNCHANGED <<seen, signals, link, pulse>>

clickAccept ==
  /\ Open /\ page = "HostKey"
  /\ Show("Progress") /\ overall' = TRUE
  /\ known' = TRUE /\ Post("accept")
  /\ UNCHANGED <<result, handled, attempts>> /\ Dialog

clickReject ==
  /\ Open /\ page = "HostKey"
  /\ Close("rejected") /\ Post("reject")
  /\ UNCHANGED <<page, handled, attempts, known>> /\ Dialog

onCancel ==
  /\ Open /\ page = "Progress"
  /\ Close("rejected") /\ Post("disconnect")
  /\ UNCHANGED <<page, handled, attempts, known>> /\ Dialog

\* The Close button of the error page, and the window's own close on any page.
dismiss ==
  /\ Open /\ Close("rejected")
  /\ UNCHANGED <<page, handled, attempts, known, posted>> /\ Dialog

\* Wrong variant: the second attempt is not timed.
RetryUntimed == UNCHANGED overall
StartTimer == overall' = TRUE

onRetry ==
  /\ Open /\ page = "Error" /\ attempts < MaxAttempts
  /\ Show("Progress") /\ StartTimer /\ handled' = FALSE
  /\ attempts' = attempts + 1 /\ Post("connect")
  /\ UNCHANGED <<result, known>> /\ Dialog

onOverallTimeout ==
  /\ Open /\ overall
  /\ overall' = FALSE /\ Show("Error") /\ Post("disconnect")
  /\ UNCHANGED <<result, handled, attempts, known>> /\ Dialog

-----------------------------------------------------------------------------
(* The facade: signals of the worker                                       *)

onConnected == /\ Close("accepted")
               /\ UNCHANGED <<page, handled, known, seen, posted>>

\* onConnectionLost and onAuthFailed show the error page.
onError == /\ Show("Error") /\ overall' = FALSE
           /\ UNCHANGED <<result, handled, known, seen, posted>>

onHostKey ==
  IF handled THEN UNCHANGED <<page, overall, handled>>
             ELSE Show("HostKey") /\ overall' = FALSE /\ handled' = TRUE

\* A key that is known and matches is accepted without the dialog.
handleHostKey ==
  /\ IF known THEN Post("accept") /\ UNCHANGED <<page, overall, handled>>
     ELSE /\ IF Open THEN onHostKey ELSE UNCHANGED <<page, overall, handled>>
          /\ UNCHANGED posted
  /\ UNCHANGED <<result, known, seen>>

\* Wrong variant: the facade keeps "Ready" until it is told "connected".
FollowsConnected(s) == seen' = IF s = "Ready" THEN seen ELSE s
Follow(s) == seen' = s

Deliver ==
  /\ signals # <<>> /\ signals' = Tail(signals)
  /\ LET s == Head(signals)
     IN  \/ /\ s.what = "state" /\ Follow(s.state)
            /\ UNCHANGED <<page, result, overall, handled, known, posted>>
         \/ s.what = "hostKey" /\ handleHostKey
         \/ s.what = "connected" /\ Open /\ onConnected
         \/ s.what \in {"lost", "authFailed"} /\ Open /\ onError
         \/ /\ s.what \in {"connected", "lost", "authFailed"} /\ ~Open
            /\ UNCHANGED <<page, result, overall, handled, known, seen, posted>>
  /\ UNCHANGED <<attempts, link, pulse>>

-----------------------------------------------------------------------------
(* The worker: the connect phase                                           *)

Emit(s) == signals' = signals \o s

\* enterConnectionLost() of a session that is not yet lost, after the signals of
\* said: the notifiers and timers go, the transport is closed.
Lose(said) ==
  /\ lost' = TRUE /\ state' = "Disconnected" /\ writes' = FALSE
  /\ Emit(said \o <<Changed("Disconnected"), Event("lost")>>)

\* Wrong variant: a session starts with the misses of the one before.
KeepMisses == UNCHANGED misses
ResetMisses == misses' = 0

EnterReady(said) ==
  /\ state' = "Ready" /\ Emit(said)
  /\ inbound' = FALSE /\ ResetMisses /\ silent' = 0
  /\ lost' = FALSE /\ UNCHANGED writes

FailReason(to) == IF to = 4 THEN <<Event("authFailed")>> ELSE <<>>

\* advanceConnect() from the stage of number from, after the signals of said: the
\* transport lets it come to a stage where it waits or fails, or to Ready.  The
\* host key is no barrier once the key is approved.  A session that connects is
\* not lost: startConnect has reset m_lost.
Advance(from, said, approved) ==
  \E to \in from .. 5 :
    LET passed == said \o Between(from, to)
    IN  /\ from <= 3 /\ to > 3 => approved
        /\ \/ to = 5 /\ EnterReady(passed)
           \/ /\ (to = 3 /\ ~approved) \/ to \in {1, 2, 4}
              /\ state' = Stages[to] /\ Emit(passed)
              /\ lost' = FALSE /\ UNCHANGED <<writes, misses, silent>>
           \/ /\ to \in {1, 2, 4} /\ Lose(passed \o FailReason(to))
              /\ UNCHANGED <<misses, silent>>

StageOf(s) == CHOOSE i \in 1 .. 5 : Stages[i] = s

\* Wrong variant: the timer is stopped at the host-key prompt.
TimerUntilKey == maintenance' = (maintenance /\ state' \in Connecting \ {"AwaitingHostKey"})

\* The timer outlives a call only in the connect phase.
TimerStays == maintenance' = (maintenance /\ state' \in Connecting)

\* Wrong variant: the timer is left to the notifiers once the socket is open.
ArmForSocket == maintenance' = (state' = "ConnectingSocket")
ArmTimer == maintenance' = TRUE

startConnect ==
  /\ Advance(1, IF state = "ConnectingSocket" THEN <<>> ELSE <<Changed("ConnectingSocket")>>,
             FALSE)
  /\ ArmTimer
  /\ accepted' = FALSE /\ expired' = FALSE
  /\ state' # "Ready" => UNCHANGED inbound

\* The bytes that wait are written, or wait on; or the socket fails.
FlushOrLose ==
  \/ writes' \in {FALSE, writes} /\ UNCHANGED <<state, lost, signals>>
  \/ Lose(<<>>)

acceptHostKey ==
  /\ accepted' = TRUE /\ expired' = FALSE
  /\ IF state \in Connecting
     THEN /\ Advance(StageOf(state), <<>>, TRUE)
          /\ state' # "Ready" => UNCHANGED inbound
     ELSE /\ UNCHANGED <<inbound, misses, silent>>
          /\ IF state = "Ready" THEN FlushOrLose
             ELSE UNCHANGED <<state, lost, writes, signals>>
  /\ TimerStays

\* enterConnectionLost() tells of the end once.
rejectHostKey ==
  /\ IF lost THEN UNCHANGED <<state, lost, maintenance, writes, signals>>
     ELSE /\ lost' = TRUE /\ state' = "Disconnected"
          /\ maintenance' = FALSE /\ writes' = FALSE
          /\ Emit((IF state = "Disconnected" THEN <<>> ELSE <<Changed("Disconnected")>>)
                  \o <<Event("lost")>>)
  /\ UNCHANGED <<accepted, expired, inbound, misses, silent>>

\* The UI hears only that the state changed.
requestDisconnect ==
  /\ state' = "Disconnected" /\ maintenance' = FALSE /\ writes' = FALSE
  /\ Emit(IF state = "Disconnected" THEN <<>> ELSE <<Changed("Disconnected")>>)
  /\ UNCHANGED <<lost, accepted, expired, inbound, misses, silent>>

Take ==
  /\ posted # <<>> /\ posted' = Tail(posted)
  /\ \/ Head(posted) = "connect" /\ startConnect
     \/ Head(posted) = "accept" /\ acceptHostKey
     \/ Head(posted) = "reject" /\ rejectHostKey
     \/ Head(posted) = "disconnect" /\ requestDisconnect
  /\ UNCHANGED ui

\* kConnectPhaseTimeoutMs after the attempt began or the key was accepted.
DeadlinePasses ==
  /\ state \in Connecting /\ ~expired /\ expired' = TRUE
  /\ UNCHANGED <<ui, posted, signals, state, lost, accepted, maintenance, pulse>>

\* The user's time at the host-key prompt is not the server's.
Timed == Connecting \ {"AwaitingHostKey"}

onMaintenanceTick ==
  /\ maintenance
  /\ \/ /\ state \in Timed /\ expired /\ Lose(<<>>)
        /\ maintenance' = FALSE /\ UNCHANGED <<inbound, misses, silent>>
     \/ /\ state = "ConnectingSocket" /\ ~expired
        /\ Advance(1, <<>>, accepted) /\ TimerStays
        /\ state' # "Ready" => UNCHANGED inbound
     \/ /\ state \notin Connecting                   \* lost, idle or ready
        /\ maintenance' = FALSE /\ UNCHANGED <<state, lost, signals, pulse>>
  /\ UNCHANGED <<ui, posted, accepted, expired>>

-----------------------------------------------------------------------------
(* The worker: the socket and the keepalive                                *)

\* The read notifier: the server was heard.
onReadable ==
  /\ state \in Connecting \union {"Ready"}
  /\ IF state \in Connecting
     THEN /\ Advance(StageOf(state), <<>>, accepted)
          /\ state' # "Ready" => inbound' = TRUE
     ELSE inbound' = TRUE /\ silent' = 0 /\ FlushOrLose /\ UNCHANGED misses
  /\ TimerStays
  /\ UNCHANGED <<ui, posted, accepted, expired>>

\* The write notifier runs the same handler: the server was not heard.
onWritable ==
  /\ state = "Ready" /\ writes
  /\ inbound' = TRUE /\ FlushOrLose /\ TimerStays
  /\ UNCHANGED <<ui, posted, accepted, expired, misses, silent>>

\* A terminal's input is written at once, or waits.
requestWrite ==
  /\ state = "Ready"
  /\ \/ writes' \in BOOLEAN /\ UNCHANGED <<state, lost, signals>>
     \/ Lose(<<>>)
  /\ TimerStays
  /\ UNCHANGED <<ui, posted, accepted, expired, inbound, misses, silent>>

\* Wrong variant: what was heard since the last tick does not count.
NeverHeard == misses + 1
Missed == IF inbound THEN 0 ELSE misses + 1

onKeepaliveTick ==
  /\ state = "Ready"
  /\ misses' = Missed /\ inbound' = FALSE
  /\ silent' = IF silent < MaxSilent THEN silent + 1 ELSE silent
  /\ \/ Missed < 2 /\ UNCHANGED <<state, lost, signals, writes>>   \* the probe is sent
     \/ Lose(<<>>)                                  \* two misses, or it cannot be sent
  /\ TimerStays
  /\ UNCHANGED <<ui, posted, accepted, expired>>

-----------------------------------------------------------------------------
(* Specification                                                           *)

\* The registry has posted the first attempt and the dialog is shown.
Init ==
  /\ page = "Progress" /\ result = "open" /\ overall = TRUE /\ handled = FALSE
  /\ attempts = 1 /\ known \in BOOLEAN /\ seen = "Idle"
  /\ posted = <<"connect">> /\ signals = <<>>
  /\ state = "Idle" /\ lost = FALSE /\ accepted = FALSE
  /\ expired = FALSE /\ maintenance = FALSE
  /\ writes = FALSE /\ inbound = FALSE /\ misses = 0 /\ silent = 0

Next ==
  \/ clickAccept \/ clickReject \/ onCancel \/ dismiss \/ onRetry
  \/ onOverallTimeout \/ Deliver
  \/ Take \/ DeadlinePasses \/ onMaintenanceTick
  \/ onReadable \/ onWritable \/ requestWrite \/ onKeepaliveTick

Spec == Init /\ [][Next]_vars

\* The UI thread's loop delivers, and its timer fires.
UiLoops == WF_vars(Deliver) /\ WF_vars(onOverallTimeout)

\* The worker's loop runs, its timer ticks, and time passes.
WorkerLoops == WF_vars(Take) /\ WF_vars(onMaintenanceTick) /\ WF_vars(DeadlinePasses)

FairSpec == Spec /\ UiLoops

-----------------------------------------------------------------------------
(* Properties                                                              *)

Orders == {"connect", "accept", "reject", "disconnect"}
Tidings == [what : {"state"}, state : States]
           \union [what : {"hostKey", "connected", "authFailed", "lost"}, state : {"Idle"}]

\* Types of the dialog's, the facade's and the worker's state; a lost session is
\* disconnected until the next attempt resets it.
TypeOK ==
  /\ page \in {"Progress", "HostKey", "Error"}
  /\ result \in {"open", "accepted", "rejected"}
  /\ overall \in BOOLEAN /\ handled \in BOOLEAN /\ known \in BOOLEAN
  /\ attempts \in Nat /\ seen \in States
  /\ posted \in Seq(Orders) /\ signals \in Seq(Tidings)
  /\ state \in States /\ lost \in BOOLEAN /\ accepted \in BOOLEAN
  /\ expired \in BOOLEAN /\ maintenance \in BOOLEAN
  /\ writes \in BOOLEAN /\ inbound \in BOOLEAN
  /\ misses \in 0 .. 2 /\ silent \in Nat
  /\ lost => state = "Disconnected"

\* The last change of state among the signals of q is to s; or there is none.
Tells(q, s) ==
  \E i \in DOMAIN q : q[i] = Changed(s) /\ \A j \in DOMAIN q : j > i => q[j].what # "state"
Quiet(q) == \A i \in DOMAIN q : q[i].what # "state"

\* The facade's state, from which the registry decides to reuse a connection, is
\* the worker's once the signals on the way are delivered.
FacadeFollows == Tells(signals, state) \/ (seen = state /\ Quiet(signals))

\* A connection in its connect phase is watched by the timer that enforces the
\* deadline, so a server that falls silent cannot hold it for ever.
ConnectIsTimed == state \in Connecting => maintenance

\* A connect phase ends, however the server behaves: in Ready, in a failure, or
\* with the user at the host-key prompt.
ConnectEnds == WorkerLoops => (state \in Timed ~> state \notin Timed)

\* The dialog does not stay on "Connecting" even if the worker thread stalls.
DialogNeverHangs ==
  (Open /\ page = "Progress") ~> (~Open \/ page # "Progress")

\* The keepalive gives a connection up only after two ticks without a byte from
\* the server: one that answers each probe is never lost to it.
LostOnlyInSilence == [][misses' >= 2 /\ misses' # misses => silent' >= 2]_vars

\* SshSessionWorker.cpp, setState: "A silent drop accrues miss=1 at 15 s, miss=2
\* at 30 s -> lost (~30 s)": a ready connection was heard some ticks ago.
SilenceDetected == state = "Ready" => silent < MaxSilent
=============================================================================
