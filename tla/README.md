# Verification of MyNotepadAI's asynchronous core

MyNotepadAI is a Qt text editor with a remote side (workspaces over SSH), a git
client and AI agents. Its own difficulty is not in the editing component, which is
vendored, but in the asynchronous machinery around it: one SSH session that
multiplexes terminals, commands and file transfers, calls that cross threads as
queued invocations and queued signals, retries, time-outs, cancels and reconnects; a
queue of transfers driven by callbacks; a queue of git commands with refreshes and
prompts around it; a goal that makes two agents take turns. This directory holds TLA+
models of that machinery, the configurations TLC checks them with, and theorems proved
with TLAPS.

1. [The system](#the-system)
2. [What is modelled](#what-is-modelled)
3. [Runs](#runs): properties, bounds, fairness
4. [What the runs found](#what-the-runs-found)
5. [Proofs](#proofs)
6. [What is not modelled](#what-is-not-modelled)
7. [Plan](#plan)

`PROJECT.json` lists the components, the runs, the hazards with their source lines,
the theorems, and the source lines each definition stands for.

## The system

### Remote sessions (`src/src/remote`)

| part | state it keeps | operations | talks to |
|---|---|---|---|
| `SshSessionWorker`, one per connection, on its own thread | `m_state`, `m_lost`, the deadline, three timers, `m_channels`, `m_execOps`, two admission queues, two SFTP lanes | posted requests, socket edges, timer ticks; each runs to completion | `ISshTransport` below, `SshConnection` above by queued signals |
| `Libssh2Transport` | sockets, sessions, handles, channels whose close is still being flushed | non-blocking calls answering ok, EAGAIN, busy or error | libssh2 |
| `SshConnection`, on the UI thread | a copy of the state that follows the worker's signals; the host-key store; channel proxies | `connectToHost`, `disconnectFromHost`, host-key answers, SFTP, exec and channel requests | posts to the worker, re-emits its signals |
| `SshConnectDialog` | page, overall timer, host-key flag | accept, reject, cancel, Retry | drives one connection, follows its signals |
| `RemoteFsBackend` | callback maps by request id, back-off timers | stat, list, read, stream, write, rename, mkdir, unlink, cancel | posts SFTP requests through the connection |
| `ExecutionContextRegistry`, `RemoteExecutionContext` | one context per profile; the collector of a command's output | connect, disconnect, exec | own the connection and the backend |
| `RemoteTransferManager` | a queue of transfers, two manifests, one cancel flag | download, upload, conflict answers, cancel | the backend, the exec context |
| `RemoteFileSystemModel`, `RemoteDirectoryWatcher` | a lazily listed tree; polled snapshots | expand, collapse, poll | the backend |
| `SshPtyProcess`, `RemoteGitProcessRunner`, `SshAcpProcessChannel` | one remote process each | start, write, kill | channels and exec requests of the connection |

Two threads share nothing: the UI thread posts invocations to the worker, which
takes them in order, and the worker's signals are queued for the UI thread, which
handles them in order. Everything hard comes from what is on its way in either queue
while the other side moves on, from the loops of the worker that call each other
half-way (a channel that closes inside the loop over channels re-runs the admission),
and from a session that may be lost, disconnected or retried at any of these points.

What makes these parts correct: the server's channel cap is respected and short
commands are not starved by terminals; every request and every callback is answered
once, over losses, retries and cancels; a save is never replayed, reordered or
half-streamed; the connect phase ends; the dialog follows; the keepalive finds a dead
server and spares a live one.

### Agents, git, editor (`src/src`, `src/src/git`, `src/src/ai`)

| part | state | what is hard |
|---|---|---|
| `AcpConnection` | JSON-RPC requests outstanding, the turn, permissions, terminals, prompts queued before the session exists | the agent exits, or is replaced, in the middle of any of these |
| `AcpAgentManager`, `AcpSessionModel`, `AcpHistoryStore` | sessions, transcripts, debounced writes on a history thread | a late write after a deletion; shutdown; restart of a session |
| `GoalAgent` | criteria, iteration, two awaiting flags | turns of the judge and of the target interleave; a judge that dies mid-turn |
| `GitController` and the two process runners | one operation at a time, a queue, a refresh flag, a pending repository switch | a failure clears what is queued behind it; refresh requests coalesce |
| AI generators | one HTTP stream, a token buffer | cancel against stream end |
| `FileWatcher`, `ScintillaNext` loading, `FolderSearchEngine` | watched paths; load state and time-out; generations of workers | replaced files; a late answer after the time-out; workers that outlive a search |
| stores, dialogs, docks, CSV, macros, mini apps | settings files, widgets | sequential, or presentation |

## What is modelled

Six components, each one module whose actions are the handlers of the code. Where two
threads meet, the queues between them are sequences; the answers of the transport, of
git and of the agents are nondeterministic. Time is not counted: a deadline passes, a
timer that runs may fire.

| module | component | abstract specification | theorems in |
|---|---|---|---|
| `SshChannels` | channels, admission, exec engine of the session worker | `SlotPool` | `SshChannels_proofs` |
| `RemoteFs` | file-system backend and SFTP lanes | `FsCalls` | `RemoteFs_proofs`, `FsOrder_proofs` |
| `SshConnect` | connect phase, dialog, facade, keepalive | | `SshConnect_proofs` |
| `RemoteTransfers` | the transfer manager and its conflict dialogs | `TransferQueue` | `RemoteTransfers_proofs` |
| `GitQueue` | the git controller, its runner and the tab that listens | `RepoChoice` | `GitQueue_proofs` |
| `GoalTurns` | the goal agent and its two ACP connections | `GoalCourse` | `GoalTurns_proofs` |

`MCSshChannels` and `MCRemoteFs` add the symmetry of an instance; the others need none
and are checked as they are.

### `SshChannels`: admission, channel set-up, exec engine

One module for the worker's channels. `phase` is the table of openers (`m_channels`
and `m_execOps` together), `execOps`, `shortQueue`, `longQueue` are the lists of the
code, `retry` is `nextRetryMs` seen as none, waiting or due, `closing` the transport's
unfinished closes, `maintenance` the timer.

A handler of the worker is a nest of calls that changes its own queues as it goes. Its
remaining calls are the frames of `todo`: a step is one iteration of one loop, and no
handler starts until `todo` is empty. `finishChannel` pushes the calls it makes before
the rest of the loop it interrupts, so the nested admission happens exactly where the
code makes it, and loss (`EnterConnectionLost`) drops the frames as the early
returns on `m_lost` do. `answers` keeps the signals emitted for each opener, in order
(history): a set-up that fails is told twice, by `channelOpenFailed` and then by the
`channelClosed` of `finishChannel`.

`SlotPool` is the abstract admission: openers ask, are granted a slot within the
budget and the long-lived share, and leave; a long-lived opener only if no short one
waits. `SshChannels` implements it under `Standing` (new, waiting, holding, left).

### `RemoteFs`: the file-system backend and the SFTP lanes

`RemoteFsBackend` on the UI thread (`waiting`, `backoff`), the queues `posted` and
`results`, and the worker's SFTP engine (`queue` per lane, `inited`, `opened`,
`serving`). A call is a model value and each attempt at it a fresh request
`<<call, attempt>>`, which is what a retry under a fresh reqId comes to. `Deliver`
handles one signal in the UI thread and `Take` one invocation in the worker; the lane
loop of the worker takes nothing until it ends. File content is a number of chunks;
`performed` and `handles` are what the server did and holds.

`FsCalls` is the abstract promise: a call is answered at most once; a call that changes
the server does so at most once, before its answer; "ok" only if it did. `RemoteFs`
implements it (`FsSpec`).

### `SshConnect`: connect phase, dialog, facade, keepalive

The stages of the worker, its deadline and timer, the host-key prompt, the queued
signals the facade follows (`seen`), the dialog (`page`, `result`, `overall`), Retry,
and the keepalive with the write notifier that also counts as activity (`writes`,
`inbound`, `misses`). `Advance` lets one call of the worker pass several stages, as
`driveConnect`'s loop does, and emits the announcements of those it passes. `silent`
counts the ticks since the server was last heard (history). `Init` is the moment the
registry has posted the first attempt and the dialog is shown; whether the host key is
known is left open. Each attempt starts with a session that is not lost: the reset of
`m_lost` in `startConnect` is in `Advance`, so a host key rejected after a loss disconnects,
stops the timer and is announced like the first.

### `RemoteTransfers`: the transfer manager

One record `m` holds the manager's fields under the code's names, the bag of callbacks
still to come and the transfer log's state. A method changes many fields and calls the
next one, so it is an operator from a record to the *set* of records it may leave;
`Answer` delivers any one callback under way, in any order. A callback names the transfer
it was made for, but does only what the code's callback does: it tests `m_cancelled` and
acts on the fields, whichever transfer they belong to by then. `crossed` (an observer)
remembers that this has happened, and each property says what it owes to it. All transfer
kinds are there: a single file, walks with and without `.gitignore`, the archive
short-cut with its fall-back to single reads, uploads with conflict scan and dialog and
with "Overwrite All", cancel by closing the log, a lost connection, a deleted backend
and a new manager. The conflict dialogs are a stack, each by the entries it asks about:
the signal that shows one calls every single-shot connection in turn, and a dialog runs
its own event loop in which the next may open on top.

`TransferQueue` is what the manager promises whoever asks: transfers are numbered as they
are asked for and end once each, in that order, on their own (the head, and after it
uploads that find nothing to send) or all that are open by a cancel or a loss. The
manager implements it (`QueueSpec`), `asked` being `Len(m.what)` and `done` what is no
longer in `m.queue`, and this property alone makes no exception for a late callback: it
may act on another transfer's manifest, but what it ends is the head.

### `GitQueue`: the git controller

One record `ctl` is the controller with its runner, one record `widget` the tab. A
handler of the controller enqueues, starts the next command and may be re-entered through
the signals it emits, so its methods are operators from records to records that call each
other as the code's do: `runNext` is `Drain` or `StartNext`, `onRunFinished` is
`Finishes`. A modal prompt suspends the handler inside the callback (`widget.prompt`),
with the queue busy and no process, while watchers and timers go on. Of what a command
prints only what the queue decides on is kept; of a status, whether the content has
changed since the process that read it was started (`reading`, `fresh`). A `rev-parse`
that succeeds and prints nothing (`ToplevelEmpty`) is followed by nothing at all, as in
the code: no repository, no error, no refresh.

`RepoChoice` is what the user is promised of the repository on show, with the queue behind
it left out: what is shown, what was selected last and whether all rests.

### `GoalTurns`: the goal agent

`GoalAgent` with its judge and its target, each an `AcpConnection` cut down to the life of
its prompts: the queue before a session exists, requests answered in order, the flag of
the turn in flight, failure and exit. A slot of the goal calls others, some through
signals that a prompt to a dead process raises before `sendPrompt` returns, so goal and
connections are one record `g` and a slot is an operator on it that takes the slots it
reaches inside itself: a prompt to a dead target (`Tell`) is its turn's end at once, and
so the next question to the judge. What the judge says is kept as what it parses as.

An agent may ask for a permission while it has a prompt to answer (`asking`). The user
answers the target's; nobody is connected to the judge's `permissionRequested`, and its
connection has no policy, so nothing ever answers the judge's. A restart of the session
(`TargetReplaced`) takes the goal's target away in silence: the manager disconnects every
slot of the old connection, the goal's `promptEnded` and `destroyed` among them, before it
deletes it. The goal keeps its status and its judge, a judgement still under way is
counted, and `Tell` finds a null target. The goal may start while a turn of the target is
in flight (`Init`).

`GoalCourse` is what the user is promised: criteria in order, each judgement counted once
and none after the limit, one hand-over each, nothing after the end. Its `attached` says
whether the target is still there to be told.

### How they meet

`SshChannels`, `RemoteFs` and `SshConnect` all contain the session's life (Idle,
connecting, Ready, Disconnected, lost): `SshConnect` in detail, the other two with the
connecting stages merged. Admission (`SshChannels`) and SFTP requests (`RemoteFs`) share
no state in the worker but the session and the reservation of two channels for the
lanes, which `SshChannels` keeps as `sftp`; so each is checked against every behaviour of
the session, not against each other.

`RemoteTransfers` is a caller of the backend: it assumes of every call what `FsCalls`
promises, one answer at most, and leaves open which and when, a destroyed backend that
answers nobody included. `GitQueue` runs its commands on an abstract runner: the local
process, or a remote exec that `SshChannels` admits; the two differ in how a time-out
ends, which is modelled. `GoalTurns` joins two connections and the goal in one module,
because their slots call each other synchronously.

## Runs

| run | instance | properties | states |
|---|---|---|---|
| `channels_pool` | 2 terminals, 2 short commands | `BudgetRespected` `WorkConserving` `AnsweredOnce` | 1.2 M |
| `channels_fair` | 1 terminal, 1 short, 1 long | `TypeOK` `QueuesMatchPhases` `LossForgetsAll` `PoolSpec` `ShortServed` | 0.27 M |
| `fs_promise` | a read, a save, a listing; 1 retry, 1 connect | `TypeOK` `FsSpec` | 1.2 M |
| `fs_streams` | a stream, two saves; 2 connects | `NoOrphans` `AnsweredOnce` `StreamIsWhole` `LastWriteWins` `StreamSilenced` | 1.6 M |
| `fs_live` | a save, a stat, a rename | `MetaNeverWaitsForBulk` `EndAnswersAll` | 0.2 M |
| `connect_dialog` | 2 attempts, 3 silent ticks | `TypeOK` `FacadeFollows` `ConnectIsTimed` `ConnectEnds` `DialogNeverHangs` `LostOnlyInSilence` | 69 k |
| `transfers` | 2 transfers of any kind, up to 2 files each, 1 close of the log, 1 break | `TypeOK` `OneAtATime` `CompletedIsWhole` `AskedBeforeOverwrite` `QueueSpec` `TransfersEnd` | 0.26 M |
| `git_queue` | a root and a submodule; 2 operations of 3 kinds, 1 outside change | `TypeOK` `NoLostWakeup` `OneRepository` `StaleIsRefreshed` `ShownSpec` `PanelCatchesUp` | 0.3 M |
| `goal` | 3 criteria, 2 iterations, 1 prompt of the user beside the first | `TypeOK` `SomeoneMoves` `ToldOnce` `CourseSpec` `GoalEnds` | 0.33 M |

Three more runs (`fs_handle`, `git_recovery`, `transfers_dialogs`) check one property
each that the code's own comments state and the code does not keep; see
[below](#what-the-runs-found).

What the properties ask:

- **Admission.** `BudgetRespected`: a nested admission never goes
  beyond the budget, the share or the server's cap. `WorkConserving`: after every
  handler of a ready session nobody waits beside a slot it may have, so every path
  that frees a slot re-runs the admission. `ShortServed`: while the session lasts, a
  short command that waits leaves the queue, even if no terminal ever ends.
  `QueuesMatchPhases`: the three lists and the table never disagree, at any point
  inside any handler. `LossForgetsAll`: nothing of a lost session is left, wherever in a
  handler it is lost. `AnsweredOnce`: an opener hears the signals of exactly one end, when
  it is dropped and not before (`closed`, after `opened` if it came up or after
  `openFailed` if its set-up failed; `openFailed` alone if it was refused; `done` of a
  command), and a cancelled command hears nothing.
- **Files.** `FsSpec`, `AnsweredOnce`, `NoOrphans` (a registered callback has its
  request under way or its result on the way back), `EndAnswersAll` (its live
  counterpart at the end of a session), `MetaNeverWaitsForBulk` (a stuck save does not
  hold back the tree), `LastWriteWins` (once a save was carried out no earlier save
  is left to overwrite it), `StreamIsWhole`, `StreamSilenced`.
- **Connecting.** `FacadeFollows` (the last tidings on the way tell the worker's
  state, or none are on the way and it is the facade's), `ConnectIsTimed`,
  `ConnectEnds`, `DialogNeverHangs`, `LostOnlyInSilence`.
- **Transfers.** `OneAtATime`: the active transfer gathers its files, or has exactly one
  call under way, or waits for an answer; never two chains over one index and never none.
  `CompletedIsWhole`: a transfer reported complete has given each file one verdict, over
  skips, failed opens and an archive that breaks half-way. `AskedBeforeOverwrite`: a file
  that exists is written over only after a dialog was accepted, or its listing failed.
  `QueueSpec`: transfers end once each and in order, up to the step that finds the queue
  empty (`transfers_dialogs`). `TransfersEnd`.
- **Git.** `NoLostWakeup`: one process at a time, and a busy queue has somebody who will
  call back. `OneRepository`: across a deferred switch no command of the old repository is
  left. `ShownSpec`: the repository on show only ever moves to the one selected last, so
  that a choice overtaken while it waits is never shown and at rest the last one is. `StaleIsRefreshed`: a status
  that does not show the content has a refresh coming, through one flag that stands for
  two things. `PanelCatchesUp` is its live counterpart; it leaves out a panel for which git
  has named no repository (`NothingFound`), which the code leaves as it is.
- **Goals.** `SomeoneMoves`: an active goal always waits for somebody who owes it the very
  prompt it awaits, over exits, corrections, hand-offs and the user's own turns; only a
  replaced target leaves nobody, once the judge has been heard. `ToldOnce`: the target
  hears each criterion and each judgement once, and after its replacement no more. `CourseSpec`: the
  goal goes through its criteria in order and an answer that comes after its end, the
  user's stop included, moves nothing and tells nobody. `GoalEnds`.

Every property of a passing run has a mutant in `PROJECT.json`: a definition replaced
by the wrong variant that stands just above it in its module ("Wrong variant"), which
makes the run fail.

### Bounds, and why they are enough

- The application's channel cap is 8 with 2 reserved, so the pool holds 6 slots, 5 of
  them open to long-lived openers. The instances use a cap of 4: 2 slots, 1 of them for
  long-lived openers. All that matters is which comparison binds: with two terminals and
  two commands each of the two budgets fills with somebody left waiting, which is every
  case the comparisons tell apart. The theorems cover every cap.
- An opener is used once; ids are not reused by the code either.
- `MaxRetries` is 1 for the code's 2: one retry already makes an old and a fresh
  reqId of one call coexist. `MaxConnects` 2 lets a loss of one attempt meet
  requests of the next. `MaxChunks` 1 separates a chunk from the end of its stream.
- `MaxAttempts` 2 lets signals of one attempt arrive in the next. `MaxSilent` only stops
  the counter of the history variable: 3 is one more than the two ticks the properties
  look at.
- Two transfers are the least in which a callback of one meets the other; two files the
  least in which an index moves on, is skipped, or is advanced twice. One close and one
  break fall at every point of either transfer. A directory has one level: a walk shares
  one counter over its listings whatever their depth.
- A root and one submodule give every order of a selection, a deferred switch and the
  return to the repository on show. Two operations let one wait behind the other, or fail
  with the other queued; one outside change falls before, inside or after every status.
  `Rename`, `Pull` and `FullDiff` are the kinds that differ for the queue: a mutation
  with follow-ups, one that may diverge, conflict or prompt, and a read with a second
  step. `git_recovery` adds `Push` and `Stage`.
- Three criteria are a first, a middle and a last one; two iterations a judgement that
  goes on and one that ends the goal. One prompt of the user beside the first, and a turn
  that may be in flight when the goal starts, let a turn that is not the goal's end while
  the judge is asked or while a hand-off waits.
- Members of one set are interchangeable, and symmetry is used in runs without liveness
  only.

`CHECK_DEADLOCK FALSE` is set for all but `SshChannels`: all calls made and answered, the
dialog closed and the session over, every transfer ended, no operation left to ask for,
or the goal over and the user's prompts used up, is an end state of the instance.
`SshChannels` is checked for deadlock.

### Fairness, and what justifies it

- `SshChannels` (`FairSpec`): weak on `WorkerStep` (a handler runs to its end), on the
  maintenance tick (a running `QTimer` fires) and on the clock; strong on the socket
  edge, which keeps recurring as the keepalive's replies arrive but is disabled while a
  handler runs, and on the end of each short command, which is what "short-lived"
  means. Nothing of terminals, long commands, or the user.
- `RemoteFs` (`Loops`): strong on `Take`, since the worker's loop returns to posted
  calls between handlers; weak on delivery, the running handler, back-off timers, the
  first connect, the end of the connect phase (which `ConnectEnds` shows) and the
  socket. `MetaAnswers` is strong: the server answers metadata requests. Nothing is
  assumed of the bulk lane, which is the point.
- `SshConnect`: `UiLoops` only (delivery, and the dialog's timer). The worker's loops are
  a premise inside `ConnectEnds`, so `DialogNeverHangs` is checked with a worker that
  may stall for ever, as it does in a blocking name lookup.
- `RemoteTransfers`: weak on `Answer`: while something is under way some callback comes,
  and no order or fairness among them is assumed. A user who never answers a conflict
  dialog is left out by the property (`unheard`).
- `GitQueue`: weak on `Finishes` (a process ends, or its time-out ends it) and on
  `TimerFires` (the debounce timer). Nothing makes the user answer a prompt.
- `GoalTurns`: weak on `AgentActs`: as long as some agent has something to answer (its
  session's request or a prompt), some answer comes. Notifications and exits are not
  assumed. Nothing is assumed of an agent that waits for a permission, nor that the user
  gives it: nobody hears the judge's, and the target's may stay unanswered. The property
  leaves out what then need not end: an agent that never gets a session or waits for a
  permission (`Stuck`), and a target that has been replaced (`Orphaned`).

## What the runs found

Three places where the code does not do what its own comment says. Each run gives a
trace; `PROJECT.json` quotes the lines.

| run | where | what happens |
|---|---|---|
| `fs_handle` | `SshSessionWorker.cpp:1029` | Cancelling a queued read closes the handle of the save at the head of the lane. |
| `git_recovery` | `GitTabWidget.cpp:986` | The push that waits for a recovery pull is released by the success of a command queued before the pull. |
| `transfers_dialogs` | `MainWindow.cpp:3114` | An upload without conflicts leaves its slot connected; at the next conflict two dialogs follow one another, and the second answer sends the files again over one index and one queue. |

More of the kind, stated as definitions of the modules and refuted by TLC outside the
suite (any small instance without fairness will do):

| definition | where | what happens |
|---|---|---|
| `BackoffDriven` | `SshSessionWorker.cpp:830` | A tick that lands before a retry is due stops the timer that would make it: the opener then waits for traffic. |
| `ClosesDriven` | `SshSessionWorker.cpp:891` | An exec that ends in the trailing `serviceExec` may leave its channel close pending with no timer to flush it. |
| `TerminalNeverDropped` | `SshSessionWorker.cpp:1673` | A terminal queued at a disconnect is in no queue after the reconnect and is never admitted. |
| `CancelledStaysSilent` | `RemoteFsBackend.cpp:120` | A read cancelled by its first reqId is answered through its retry's. |
| `SilenceDetected` (with `MaxSilent` 4) | `SshSessionWorker.cpp:885` | Write edges count as bytes heard, so a stuck write hides a dead server from the keepalive. |
| `TimeoutIsItsOwn` | `GitProcessRunner.cpp:300` | The mark of a local time-out lands in the buffer of the command its own callback started. |
| `FailsWithTarget` | `AcpAgentManager.cpp:254` | A restart removes the goal's own connections before the old target is deleted, so `onTargetDestroyed` (`GoalAgent.cpp:210-219`), which would fail the goal, never runs: the goal stays active with no target. |
| `OneEndPerTurn` | `AcpConnection.cpp:633` | An agent that sends `prompt_end` and the response ends two turns with one prompt. |

Seen while modelling:

- *Sessions.* At a cap of 2 or less the lanes are not counted against the budget;
  `requestDisconnect` leaves open terminals in the table; deleting the backend during a
  back-off answers nobody; a loss signal of one attempt that arrives after Retry fails the
  callbacks of requests posted since (which is why `fs_promise` and its theorem allow one
  connect: with two, the save it fails may still be carried out, and `FsSpec` does not
  hold).
- *Transfers.* A failed listing inside a walk is ignored in silence, and a failed conflict
  listing counts as no conflict; `.gitignore` rules arrive after the entries of their own
  directory were filtered; a cancel before the archive's answer leaves it on the server;
  one extracted file counts as success for all; a declined conflict dialog leaves the
  upload active until the log is closed; the log of a queued transfer, or of a new
  manager, is not connected to the cancel; callbacks that come after a cancel act on the
  next transfer.
- *Git.* Clearing the queue leaves diff requests unanswered, though
  `GitController.h:50-53` says they always are; `cancelCurrent` is called at teardown
  only; a local time-out is always reported as a cancel, and a remote one ends with the
  cancel's sentinel (`RemoteGitProcessRunner.cpp:131`), so the branch that would report a
  time-out is never taken for the command that ran out of time. A `rev-parse` that
  succeeds and names nothing leaves the panel at "Discovering" with no error
  (`GitController.cpp:651`).
- *Goals.* The goal hears the judge's exit but not its errors: a judge that fails to start
  or is refused a session leaves it active until the user stops it, and so does a judge that
  asks for a permission, to which nobody is connected (`GoalAgent.cpp:166-187`). After a
  restart a judgement under way is counted (`GoalAgent.cpp:336`) and told to nobody (`:346`). A dead target ends each turn inside
  the call that tells it something, so the judge is asked again at once, until the limit. A judge that exits
  mid-turn has its partial answer acted on first. If the judge's agent has left the
  registry at a hand-off the goal fails, and the hand-off is sent all the same.

## Proofs

`tlapm` checks them for every value of the constants that the modules' assumptions
allow: disjoint finite sets of openers of any size, any positive cap and share, two
lanes in the reservation; any calls of which those that are streamed or change the
server are not of a kind that is retried (`KindsAssumption`); any repositories with a
root among them; any number of criteria and iterations above zero; any non-empty finite
set of paths with any number of files; any bounds in `Nat`.

| module | theorems | argument |
|---|---|---|
| `SequenceFacts` | | `RemoveFirst`, `RemoveAt`, `Append`, `Tail` and concatenation: what they contain, that they keep a sequence injective or ordered by a relation, and how often a value occurs in them. |
| `SshChannels_proofs` | `TypeCorrect`, `QueuesCorrect`, `LossCorrect`, `BudgetCorrect`, `PoolImplemented`, `AnswersCorrect`, `ConservesWork` | `TypeOK` is inductive. `QueuesMatchPhases` is inductive with it: it is already as strong as the admission needs, because it says where an entry may *not* be (a queue entry is never a live opener), for each of the three lists separately. `LossForgetsAll` is inductive too: only `enterConnectionLost` sets `m_lost`, and in a lost worker every frame and every request is disabled, refused or without effect. One lemma, `PhaseStep`, sums every action up as a change of phases: refused, asked, promoted within budget, dropped, or none, with the signals that go with it. The budgets, the refinement and the answers follow from it and not from the twenty-odd actions again. It needs `QueuesMatchPhases`: the head of a queue is a waiting opener, hence a promotion adds exactly one. `ConservesWork` rests on `Conserving`: while an opener may have a slot, an admission is among the calls in `todo`. Every step that frees a slot or queues an opener puts one there, and the admission only leaves when nobody is admissible; `LossForgetsAll` shows that a lost worker, whose calls are dropped, is not ready. |
| `RemoteFs_proofs` | `TypeCorrect`, `AnsweredOnceCorrect`, `NoOrphansCorrect` | `AnsweredOnce` is not inductive. `OneToken` is: a call has at most one request that is registered or backing off, and none once it was answered; running a callback uses the token up or passes it to the next attempt. `NoOrphans` is inductive: each step that takes a request from one place (a posted order, a lane) puts it, or its result, in the next. |
| `FsOrder_proofs` | `StreamSilencedCorrect`, `LastWriteWinsCorrect`, `StreamIsWholeCorrect`, `FsPromiseCorrect` | Every step is first summed up as a move of requests between the queues (`Moves`). `Orderly` is inductive: requests belong to calls that were made, a call that is not retried is posted once as its attempt 0 (`Books`), and the posted orders and the lanes keep the order of the calls, no request being both outstanding and answered (`Lines`). Then: a cancelled stream has no token to be answered by (`Hushed`); what was carried out has nothing earlier outstanding (`NoneOverwritten`); chunks delivered and chunks among the results add up to the chunks read, and an end never precedes a chunk of its stream (`Flows`). The refinement of `FsCalls` needs in addition that a connection made at most once is lost for good (`Once`), and that a change under way is one its caller waits for and an "ok" on its way is of a change that was made (`Kept`). |
| `SshConnect_proofs` | `TypeCorrect`, `FacadeCorrect`, `TimedCorrect`, `SilenceCorrect` | `Typing` strengthens `TypeOK` by "a ready session has at most one miss", or a third could be counted. `FacadeFollows` rests on one fact about each call of the worker: what it emits either tells of no state and it changed none, or tells last of the state it leaves. `LostOnlyInSilence` needs that a session not heard since the last tick has been silent for as many ticks as it has misses (`MissesAreSilence`), and that no other call of the worker adds a miss (`Spared`); it is stated for a counter that reaches two, which is what the property compares with. `Next` is split into steps of the dialog, of delivery and of the worker, and the worker's into one lemma per call. |
| `RemoteTransfers_proofs` | `TransfersTyped`, `OneAtATimeCorrect`, `WholeCorrect`, `AskedCorrect`, `WreckedByLateCallback`, `QueueImplemented` | None of the properties is inductive; `Sane` is, together with the types, for as long as no late callback has acted. It says which stage the head of the queue is in, `Walking`, `Reading`, `Archiving`, `Scanning`, `Writing` or `Asking`, and for each stage which calls are under way for it, exactly: a walk has as many as its counter says, one for each folder that is not through (which is why the files found have no doubles), the others one. At each position of a manifest the files before it have had their one verdict and the others none (`Verdicts`), so that the end of the manifest is `CompletedIsWhole`; of each folder that holds a file of ours on the server the listing is under way, known or failed, until the conflicts are resolved (`Scanning`), and then the user has been heard (`Heard`). Transfers that have not begun have neither calls nor dialogs (`Untouched`), so whatever a callback leaves, the next transfer starts clean. Methods are sets of records, and the lemmas follow them: `...Leads` for a method that goes on, `...Good` for an action. The refinement of `TransferQueue` rests on another invariant, `Steady`: the queue holds the transfers after the last that has ended, in order, and only an active manager has one. Each method is shown to keep the queue or to end the head (`Moved`), whichever transfer called it, hence without `Sane` and without its exception. |
| `GitQueue_proofs` | `QueueTyped`, `QueueWakes`, `QueueIsOfOneRepository`, `QueueShowsTheLatest`, `QueueRefreshes`, `ShownImplemented` | A handler is a chain of methods, each a lemma about the record it is given and the record it returns, in one of two modes: at rest, or inside a call with the queue busy and no process. Every queued command is an order for the repository on show. The last selection is where the queue is heading (`Target`: the deferred switch, else the repository on show), which only a selection moves. A status read across a change leaves the timer or the flag behind (`Awaited`). The refinement of `RepoChoice` goes through the same cases: each action keeps the invariant and moves the repository on show only to the `Target` (`Moves`); before the first repository is found nothing has been selected (`Unfound`). |
| `GoalTurns_proofs` | `GoalTyped`, `GoalMoves`, `GoalTells`, `GoalInOrder`, `CourseImplemented` | Every slot is shown to take a goal that may be in the middle of a call (`Ready`) to one that waits for somebody (`Settled`), slot by slot, the ones that fail inside a call included; a goal whose target has been replaced is settled as well, once its judge has been heard. The accounts (`Books`, `Counted`, `Placed`) of what the target was sent, judged and handed are kept alongside. The refinement of `GoalCourse` is shown for the accounts alone: each slot takes a goal of whose connections nothing is assumed, but whether the target is there (`StillThere`), through at most one step of the course (`Steps`), and the invariant is needed only for what an answer finds: an active goal, and a criterion that is archived just when its hand-off is awaited. An exit is two slots, of which the second may only end the goal (`JudgeGone`). |

Only model-checked is liveness, which is beyond this prover: `ShortServed`,
`MetaNeverWaitsForBulk`, `EndAnswersAll`, `ConnectEnds`, `DialogNeverHangs`,
`TransfersEnd`, `PanelCatchesUp`, `GoalEnds`.

## What is not modelled

- Inside the six components: bytes of a channel (write buffer, stdin, its write
  notifier in `SshChannels`), the channel proxies on the UI thread, SFTP attributes and
  texts of errors (only whether `isTransientError` matches), the dialog's log. The
  `requestSftp*` requests appear in `SshChannels` only as a chance to open a lane. Sizes, progress figures and
  temporary names of transfers, and directories of more than one level. Git's merge and
  rebase runs (they have a runner of their own), a git process that fails to start, the
  `cat-file` batches and the cancel at teardown. An agent's terminals, file requests, modes
  and models, what a permission is about and a policy that answers it (only that an agent
  waits for one), the `prompt_start` notification, by which an agent may begin a turn
  nobody asked for, and the generator of goal drafts. Between the disconnect and the
  deletion of a restarted connection the goal still holds it and may send it a prompt
  nobody will hear of; the model takes both as one step.
- The transport: its answers are nondeterministic, except for deferred closes. libssh2
  is vendored.
- The synchronous overrides of `RemoteFsBackend` keep no state.
- Stores over a settings file, CSV, macros, dialogs, docks, previews: sequential, or
  presentation. Crash handling works on the process, outside a state machine.
- The components of the plan below, until they are written.

## Plan

Done: `SshChannels` with `SlotPool`, `RemoteFs` with `FsCalls`, `SshConnect`,
`RemoteTransfers` with `TransferQueue`, `GitQueue` with `RepoChoice`, `GoalTurns` with
`GoalCourse`. Left, in order of weight:

1. **`SshWorkspaces`**: the registry, contexts, docks and the restore of open
   workspaces over an abstract link that `SshConnect` should implement (idle, trying,
   asking for a host key, up, down; the facade lagging by queued signals). Properties:
   at most one live connection per profile; a dock is wired to the context in the
   registry; no dock waits for ever for a question nobody is shown. Hazards:
   `ExecutionContextRegistry.cpp:52`, `MainWindow.cpp:3586`.
2. **`AcpHistory`**: debounced writes and deletions on the history thread, shutdown and
   crash. Hazard: `AcpAgentManager.cpp:272`.
3. **`RemoteTree`**: the lazily listed model with the poll watcher. Hazard:
   `RemoteDirectoryWatcher.cpp:187`.
4. `FileWatch`, AI generation, folder search, scheduled tasks.

Proofs to add: the abstract link that `SshConnect` implements, and the invariants of the
modules above as they are written.
