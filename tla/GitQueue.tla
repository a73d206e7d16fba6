------------------------------ MODULE GitQueue ------------------------------
(***************************************************************************)
(* GitController: one queue of git commands, one process at a time, and    *)
(* the refreshes, repository switches and prompts that wait for the queue. *)
(*                                                                         *)
(* A handler of the controller enqueues, starts the next command and may   *)
(* be re-entered through the signals it emits, so the controller is one    *)
(* record ctl and a method is an operator from records to records.  The    *)
(* widget (GitTabWidget) reacts to the controller's signals inside the     *)
(* emitting handler; its prompts are modal: while one is open the handler  *)
(* is suspended, the queue is busy and no process runs.                    *)
(*                                                                         *)
(* What a command prints is left out, except what the queue decides on.    *)
(* Of a status it is kept whether the content has changed since the        *)
(* process that read it was started.                                       *)
(***************************************************************************)
EXTENDS Naturals, Sequences, FiniteSets

CONSTANTS
  Root,        \* the workspace's repository
  Subs,        \* its submodules
  UserOps,     \* the operations a user may ask for
  MaxAsks,     \* bound: operations and repository choices of the user
  MaxChanges   \* bound: changes made outside the controller

NoRepo == "none"

ASSUME ReposAreReal ==
  /\ NoRepo \notin {Root} \union Subs
  /\ Root \notin Subs
  /\ UserOps \subseteq {"Stage", "StashSwitch", "Create", "Rename",
                        "Pull", "Push", "Diff", "FullDiff"}
  /\ MaxAsks \in Nat /\ MaxChanges \in Nat

Repos == {Root} \union Subs

-----------------------------------------------------------------------------
(* The commands, and how the queue tells them apart.                       *)

RefreshKinds == <<"IgnoredDirs", "HeadSym", "HeadSha", "Remotes", "Refs", "Status">>

\* The commands that do not show the controller as Running.
QuietKinds == {RefreshKinds[i] : i \in DOMAIN RefreshKinds}
              \union {"Toplevel", "SubmodulesList"}

\* Success of one of these is reported by name and makes a refresh due.
MutatingKinds == {"Stage", "Stash", "Switch", "Create", "Rename", "Config", "Pull", "Push"}

\* A failure of one of these is kept from the user and from the queue ...
BestEffortKinds == {"HeadSym", "HeadSha", "IgnoredDirs", "NumstatUnstaged",
                    "NumstatStaged", "SubmoduleNumstat", "Config"}

\* ... and of one of these goes to whoever asked.
AnswerKinds == {"Diff", "DiffCached", "DiffWorktree"}

Kinds == QuietKinds \union MutatingKinds \union BestEffortKinds \union AnswerKinds

Op(kind, repo) == [kind |-> kind, repo |-> repo, recovery |-> FALSE]
Ops == [kind : Kinds \ {"Toplevel"}, repo : Repos, recovery : BOOLEAN]
       \union {Op("Toplevel", NoRepo)}

\* What the user's operation enqueues in repository r.
Asked(what, r) ==
  CASE what = "StashSwitch" -> <<Op("Stash", r), Op("Switch", r)>>
    [] what = "FullDiff"    -> <<Op("DiffCached", r)>>
    [] OTHER                -> <<Op(what, r)>>

-----------------------------------------------------------------------------
VARIABLES
  ctl,      \* the controller and its runner, see Controllers
  widget,   \* the tab that listens to it, see Widgets
  asks,     \* operations the user asked for so far
  changes   \* changes made outside so far

vars == <<ctl, widget, asks, changes>>

Controllers ==
  [repo      : Repos \union {NoRepo},     \* m_currentRepo
   listed    : SUBSET Repos,              \* m_repos
   busy      : BOOLEAN,                   \* m_busy
   current   : Ops,                       \* m_current
   queue     : Seq(Ops),                  \* m_queue
   state     : {"Discovering", "Refreshing", "Running", "Idle", "Error"},
   pending   : Repos \union {NoRepo},     \* m_pendingRepoSwitch
   scheduled : BOOLEAN,                   \* m_refreshScheduled
   timer     : BOOLEAN,                   \* m_refreshDebounce is active
   empty     : BOOLEAN,                   \* m_empty: no commit yet
   remote    : BOOLEAN,                   \* a RemoteGitProcessRunner runs the commands
   process   : BOOLEAN,                   \* the runner has a process
   marked    : BOOLEAN,                   \* __GIT_TIMEOUT__ is in its stderr
   \* observers
   refused   : BOOLEAN,                   \* run() found a process running
   wrongTimeout : BOOLEAN,                \* "timed out" said of another command
   reading   : BOOLEAN,                   \* no change since the process started
   fresh     : BOOLEAN,                   \* no change since the view was read
   view      : Repos \union {NoRepo},     \* the repository of the status on show
   failed    : BOOLEAN]                   \* an error was reported since the last change or
                                          \* since the last refresh began

Widgets ==
  [prompt        : {"none", "diverged", "rejected"},
   pushAfterPull : BOOLEAN,               \* m_pushAfterPull
   saved         : Repos,                 \* the lastRepo setting
   wanted        : Repos \union {NoRepo}] \* observer: the last repo selected

-----------------------------------------------------------------------------
(* The queue.                                                              *)

\* runNext with a command waiting.
StartNext(c) ==
  LET op == Head(c.queue) IN
  [c EXCEPT !.busy = TRUE, !.current = op, !.queue = Tail(@),
            !.state = IF op.kind \in QuietKinds THEN @ ELSE "Running",
            !.refused = @ \/ c.process,
            !.process = TRUE, !.marked = FALSE, !.reading = TRUE]

\* enqueue, once per command: the first one starts if nothing runs.
Enqueue(c, ops) ==
  LET waiting == [c EXCEPT !.queue = @ \o ops]
  IN  IF c.busy \/ ops = <<>> THEN waiting ELSE StartNext(waiting)

EnqueueFullRefresh(c) ==
  IF c.repo = NoRepo THEN c
  ELSE Enqueue([c EXCEPT !.state = "Refreshing", !.failed = FALSE],
               [i \in DOMAIN RefreshKinds |-> Op(RefreshKinds[i], c.repo)])

ApplySelectRepo(c, r) == EnqueueFullRefresh([c EXCEPT !.repo = r])

\* Wrong variant: a busy queue does not defer the switch.
SwitchAtOnce(c, r) ==
  IF r = c.repo THEN [c EXCEPT !.pending = NoRepo] ELSE ApplySelectRepo(c, r)

\* Wrong variant: coming back to the repository on show keeps the deferred switch.
KeepsTarget(c, r) ==
  CASE r = c.repo -> c
    [] r # c.repo /\ c.busy -> [c EXCEPT !.pending = r]
    [] OTHER -> ApplySelectRepo(c, r)

SelectRepo(c, r) ==
  CASE r = c.repo -> [c EXCEPT !.pending = NoRepo]
    [] r # c.repo /\ c.busy -> [c EXCEPT !.pending = r]
    [] OTHER -> ApplySelectRepo(c, r)

\* Wrong variant: a refresh asked while busy is dropped.
RefreshUnlessBusy(c) == IF c.busy THEN c ELSE EnqueueFullRefresh(c)

Refresh(c) ==
  CASE c.repo = NoRepo -> c
    [] c.repo # NoRepo /\ c.busy -> [c EXCEPT !.scheduled = TRUE]
    [] OTHER -> EnqueueFullRefresh(c)

\* Wrong variant: the flag is set and the timer not started.
FlagOnly(c) == [c EXCEPT !.scheduled = TRUE]

ScheduleDebouncedRefresh(c) ==
  IF c.scheduled THEN c ELSE [c EXCEPT !.scheduled = TRUE, !.timer = TRUE]

\* runNext with nothing waiting: a switch goes before a refresh.
Drain(c) ==
  LET idle == [c EXCEPT !.state = IF @ \in {"Running", "Refreshing"} THEN "Idle" ELSE @,
                        !.pending = NoRepo]
  IN  IF c.pending \notin {NoRepo, c.repo} THEN ApplySelectRepo(idle, c.pending)
      ELSE IF c.scheduled THEN Refresh([idle EXCEPT !.scheduled = FALSE])
      ELSE idle

RunNext(c) == IF c.queue # <<>> THEN StartNext(c) ELSE Drain(c)

\* Wrong variant: m_busy is not reset.
StaysBusy(c) == RunNext(c)

PopAndAdvance(c) == RunNext([c EXCEPT !.busy = FALSE])

-----------------------------------------------------------------------------
(* What a finished command does before the next one starts.  c is the      *)
(* controller as the callback finds it: the runner has no process.         *)

Called == [ctl EXCEPT !.process = FALSE]

\* setState(Error), errorOccurred, m_queue.clear() and the next command.
Report(c) ==
  PopAndAdvance([c EXCEPT !.state = "Error", !.queue = <<>>, !.failed = TRUE])

\* onReposUpdated: the combo box goes back to the saved repository.
Pick(listed) == IF widget.saved \in listed THEN widget.saved ELSE Root

\* A change of the content makes the view old; no error is known of it yet.
Changed(c) == [c EXCEPT !.reading = FALSE, !.fresh = FALSE, !.failed = FALSE]

ToplevelFound ==
  LET announced == SelectRepo([Called EXCEPT !.listed = {Root}], Pick({Root}))
      entered == [announced EXCEPT !.repo = IF @ = NoRepo THEN Root ELSE @]
  IN  EnqueueFullRefresh(Enqueue(entered, <<Op("SubmodulesList", Root)>>))

\* handleStatusDone and enqueueNumstatRefresh.
StatusShown ==
  LET shown == [Called EXCEPT !.view = ctl.current.repo, !.fresh = ctl.reading]
  IN  Enqueue(shown, <<Op("NumstatUnstaged", ctl.repo)>>
                     \o (IF ctl.empty THEN <<>> ELSE <<Op("NumstatStaged", ctl.repo)>>))

\* handleNumstatDone: the last of the pair probes the modified submodules.
LastNumstat == ctl.empty \/ ctl.current.kind = "NumstatStaged"

\* What the success of a branch operation may enqueue behind the queue.
FollowUps ==
  CASE ctl.current.kind = "Create" -> {<<>>, <<Op("Config", ctl.repo), Op("Config", ctl.repo)>>}
    [] ctl.current.kind = "Rename" -> {<<>>, <<Op("Push", ctl.repo), Op("Push", ctl.repo)>>}
    [] OTHER -> {<<>>}

\* onOpSucceeded: a push that waits for its pull follows the first success.
Recovery == IF widget.pushAfterPull
            THEN <<[Op("Push", ctl.repo) EXCEPT !.recovery = TRUE]>> ELSE <<>>

MutationDone(follow) ==
  ScheduleDebouncedRefresh(Enqueue(Changed(Called), follow \o Recovery))

-----------------------------------------------------------------------------
(* The constructor and initialize().                                       *)

Init ==
  /\ \E remote \in BOOLEAN, saved \in Repos :
       /\ ctl = [repo |-> NoRepo, listed |-> {}, busy |-> TRUE,
                 current |-> Op("Toplevel", NoRepo), queue |-> <<>>,
                 state |-> "Discovering", pending |-> NoRepo, scheduled |-> FALSE,
                 timer |-> FALSE, empty |-> FALSE, remote |-> remote, process |-> TRUE,
                 marked |-> FALSE, refused |-> FALSE, wrongTimeout |-> FALSE,
                 reading |-> TRUE, fresh |-> FALSE, view |-> NoRepo, failed |-> FALSE]
       /\ widget = [prompt |-> "none", pushAfterPull |-> FALSE, saved |-> saved,
                    wanted |-> NoRepo]
  /\ asks = 0
  /\ changes = 0

-----------------------------------------------------------------------------
(* The user and the world outside.                                         *)

\* A modal prompt keeps the user from everything else.
Free == asks < MaxAsks /\ widget.prompt = "none"

\* Wrong variant: an operation does not ask for a repository.
AskAnywhere == Free
MayAsk == Free /\ ctl.repo # NoRepo

\* A toolbar, menu or panel action.
Ask(what) ==
  /\ MayAsk
  /\ ctl' = Enqueue(ctl, Asked(what, ctl.repo))
  /\ asks' = asks + 1
  /\ UNCHANGED <<widget, changes>>

\* onRepoSelected.
UserSelects(r) ==
  /\ Free /\ r \in ctl.listed
  /\ ctl' = SelectRepo(ctl, r)
  /\ widget' = [widget EXCEPT !.saved = r, !.wanted = r]
  /\ asks' = asks + 1
  /\ UNCHANGED changes

\* The refresh button, or a merge or rebase that ended in its own runner.
RefreshAsked ==
  /\ asks < MaxAsks
  /\ ctl' = Refresh(ctl)
  /\ asks' = asks + 1
  /\ UNCHANGED <<widget, changes>>

\* The content changes outside and a watcher, set on the repository, sees it.
WatcherFires ==
  /\ changes < MaxChanges /\ ctl.repo # NoRepo
  /\ ctl' = ScheduleDebouncedRefresh(Changed(ctl))
  /\ changes' = changes + 1
  /\ UNCHANGED <<widget, asks>>

TimerFires ==
  /\ ctl.timer
  /\ ctl' = Refresh([ctl EXCEPT !.timer = FALSE, !.scheduled = FALSE])
  /\ UNCHANGED <<widget, asks, changes>>

-----------------------------------------------------------------------------
(* onRunFinished: the process ends and the runner calls back.              *)

Ends(kinds) == ctl.process /\ ~ctl.marked /\ ctl.current.kind \in kinds

Resume(c) ==
  /\ ctl' = PopAndAdvance(c)
  /\ UNCHANGED <<asks, changes>>

\* errorOccurred reaches onError, which gives the push after the pull up.
Reported(c) ==
  /\ ctl' = c
  /\ widget' = [widget EXCEPT !.pushAfterPull = FALSE]
  /\ UNCHANGED <<asks, changes>>

ToplevelOk ==
  /\ Ends({"Toplevel"})
  /\ Resume(ToplevelFound)
  /\ widget' = [widget EXCEPT !.wanted = Pick({Root})]

\* git succeeds and names nothing: the handler returns, and nothing follows.
ToplevelEmpty == Ends({"Toplevel"}) /\ Resume(Called) /\ UNCHANGED widget

ToplevelFails ==
  /\ Ends({"Toplevel"})
  /\ Reported(PopAndAdvance([Called EXCEPT !.repo = NoRepo, !.listed = {},
                                           !.state = "Error", !.failed = TRUE]))

SubmodulesOk ==
  /\ Ends({"SubmodulesList"})
  /\ \E found \in SUBSET Subs :
       LET listed == ctl.listed \union found IN
       /\ Resume(SelectRepo([Called EXCEPT !.listed = listed], Pick(listed)))
       /\ widget' = [widget EXCEPT !.wanted = Pick(listed)]

RefsOk ==
  /\ Ends({"Refs"})
  /\ \E empty \in BOOLEAN : Resume([Called EXCEPT !.empty = empty])
  /\ UNCHANGED widget

StatusOk == Ends({"Status"}) /\ Resume(StatusShown) /\ UNCHANGED widget

NumstatOk ==
  /\ Ends({"NumstatUnstaged", "NumstatStaged"})
  /\ \E probes \in {<<>>} \union (IF LastNumstat THEN {<<Op("SubmoduleNumstat", ctl.repo)>>}
                                                 ELSE {}) :
       Resume(Enqueue(Called, probes))
  /\ UNCHANGED widget

\* Nothing staged: the worktree's diff is asked for instead.
DiffCachedOk ==
  /\ Ends({"DiffCached"})
  /\ \E worktree \in {<<>>, <<Op("DiffWorktree", ctl.repo)>>} : Resume(Enqueue(Called, worktree))
  /\ UNCHANGED widget

MutationOk ==
  /\ Ends(MutatingKinds)
  /\ \E follow \in FollowUps : Resume(MutationDone(follow))
  /\ widget' = [widget EXCEPT !.pushAfterPull = FALSE]

\* What was read or asked for is handed over, or the failure is kept from the
\* queue, and the queue goes on.
GoesOn ==
  /\ Ends(BestEffortKinds \union AnswerKinds \union {"Remotes"})
  /\ Resume(Called)
  /\ UNCHANGED widget

\* The pull stops in a conflict: the tree has changed.
PullConflicts ==
  /\ Ends({"Pull"})
  /\ Resume(ScheduleDebouncedRefresh([Changed(Called) EXCEPT !.state = "Idle"]))
  /\ widget' = [widget EXCEPT !.pushAfterPull = FALSE]

\* The prompts open inside the handler, which goes on once they are answered.
PullDiverges ==
  /\ Ends({"Pull"})
  /\ ctl' = [Called EXCEPT !.state = "Idle"]
  /\ widget' = [widget EXCEPT !.prompt = "diverged", !.pushAfterPull = FALSE]
  /\ UNCHANGED <<asks, changes>>

PushRejected ==
  /\ Ends({"Push"})
  /\ ctl' = [Called EXCEPT !.state = "Idle"]
  /\ widget' = [widget EXCEPT !.prompt = "rejected"]
  /\ UNCHANGED <<asks, changes>>

Answer ==
  /\ widget.prompt # "none"
  /\ \E pull \in BOOLEAN :
       LET rejected == widget.prompt = "rejected"
           op == [Op("Pull", ctl.repo) EXCEPT !.recovery = rejected]
       IN  /\ Resume(IF pull THEN Enqueue(ctl, <<op>>) ELSE ctl)
           /\ widget' = [widget EXCEPT !.prompt = "none",
                                       !.pushAfterPull = @ \/ (pull /\ rejected)]

\* Every other failure clears the queue.
Fails ==
  /\ Ends(Kinds \ (BestEffortKinds \union AnswerKinds \union {"Toplevel"}))
  /\ Reported(Report(Called))

\* The runner's timer ends the command as a cancelled one.  The local runner
\* marks its buffer as timed out only after the callback has returned: what
\* the callback started carries the mark.
TimesOut ==
  /\ ctl.process
  /\ LET after == Report(Called)
     IN  Reported([after EXCEPT !.marked = after.process /\ ~ctl.remote])

\* The controller finds the mark, whatever the exit code.
MarkFound ==
  /\ ctl.process /\ ctl.marked
  /\ Reported(Report([Called EXCEPT !.wrongTimeout = TRUE]))

-----------------------------------------------------------------------------
Finishes ==
  \/ ToplevelOk \/ ToplevelEmpty \/ ToplevelFails \/ SubmodulesOk \/ RefsOk
  \/ StatusOk \/ NumstatOk \/ DiffCachedOk \/ MutationOk \/ GoesOn \/ PullConflicts \/ PullDiverges
  \/ PushRejected \/ Fails \/ TimesOut \/ MarkFound

Next ==
  \/ \E what \in UserOps : Ask(what)
  \/ \E r \in Repos : UserSelects(r)
  \/ RefreshAsked
  \/ WatcherFires
  \/ TimerFires
  \/ Finishes
  \/ Answer

Spec == Init /\ [][Next]_vars

\* A process ends or its timer ends it, and the event loop serves timers.
\* Nothing makes the user answer a prompt.
FairSpec == Spec /\ WF_vars(Finishes) /\ WF_vars(TimerFires)

-----------------------------------------------------------------------------
TypeOK ==
  /\ ctl \in Controllers
  /\ widget \in Widgets
  /\ asks \in 0..MaxAsks
  /\ changes \in 0..MaxChanges

(* One command at a time and none forgotten: run() never finds a process   *)
(* running ("Caller violation"), a busy queue has a process or a prompt    *)
(* that will call back, and nothing waits in a queue that is not busy.     *)
NoLostWakeup ==
  /\ ~ctl.refused
  /\ ctl.process <=> (ctl.busy /\ widget.prompt = "none")
  /\ ~ctl.busy => ctl.queue = <<>> /\ ctl.current.kind \in Kinds

(* No command is left over from another repository: what the panel gets    *)
(* from a finished command is of the repository it shows.                  *)
OneRepository ==
  ctl.current.kind # "Toplevel" =>
    \A op \in {ctl.queue[i] : i \in DOMAIN ctl.queue}
             \union (IF ctl.busy THEN {ctl.current} ELSE {}) : op.repo = ctl.repo

(* "Latest wins": once the queue has drained, the repository shown is the  *)
(* last one selected, and never one selected before it.                    *)
LatestRepoWins == ~ctl.busy /\ ctl.repo # NoRepo => ctl.repo = widget.wanted

\* The repository on show only ever moves to the one selected last, whatever is
\* chosen, fails, is asked or waits for an answer before the queue has drained.
Shown == INSTANCE RepoChoice WITH
  Repositories <- Repos, None <- NoRepo,
  shown <- ctl.repo, wanted <- widget.wanted, resting <- ~ctl.busy
ShownSpec == Shown!Spec

Fresh == ctl.fresh /\ ctl.view = ctl.repo

(* A status that does not show the repository's content has a refresh      *)
(* coming: the debounce timer, the flag a busy queue honours when it       *)
(* drains, a switch, a status that waits or one started since the change.  *)
(* The one excuse is an error reported since.                              *)
StatusComing ==
  \/ ctl.timer
  \/ ctl.busy /\ ctl.scheduled
  \/ ctl.busy /\ ctl.pending \notin {NoRepo, ctl.repo}
  \/ \E i \in DOMAIN ctl.queue : ctl.queue[i].kind = "Status"
  \/ ctl.process /\ ctl.current.kind = "Status" /\ ctl.reading
  \/ ctl.process /\ ctl.current.kind = "Toplevel"

StaleIsRefreshed == ctl.repo # NoRepo => Fresh \/ ctl.failed \/ StatusComing

(* A push that waits for a pull is given to the pull it waits for.  The    *)
(* widget takes the first success after the prompt for the pull's.         *)
FirstSuccessIsThePull ==
  [][widget.pushAfterPull /\ MutationOk => ctl.current.recovery /\ ctl.current.kind = "Pull"]_vars

(* Only a command that ran out of time is reported as timed out.           *)
TimeoutIsItsOwn == ~ctl.wrongTimeout

\* git named no repository: the panel is left at "Discovering" for good, with no
\* error.  It has nothing to show.
NothingFound == ~ctl.busy /\ ctl.repo = NoRepo /\ ctl.state = "Discovering"

(* Changes end, so the panel catches up, or an error or a prompt says why, *)
(* or there is no repository to show.                                      *)
PanelCatchesUp ==
  ~Fresh ~> (Fresh \/ ctl.failed \/ widget.prompt # "none" \/ NothingFound)
=============================================================================
