--------------------------- MODULE GitQueue_proofs ---------------------------
(***************************************************************************)
(* Theorems about GitQueue, for any repositories and any number of asks    *)
(* and changes.  The controller is seen in one of two modes: at rest,      *)
(* between two events (Rest), and inside the callback of a command that    *)
(* has ended, where it is busy without a process (InCall).  A prompt       *)
(* suspends it in the second.  PopAndAdvance leads back to the first, and  *)
(* Target, the repository the user will see, is moved by SelectRepo alone. *)
(* Each step is shown to keep the invariant and, with the same case split, *)
(* to be a step of RepoChoice (Moves).                                     *)
(***************************************************************************)
EXTENDS GitQueue, SequenceTheorems, TLAPS

-----------------------------------------------------------------------------
(* The invariant, of a controller c.                                       *)

\* Commands for repository r.
Orders(r) == {op \in Ops : op.kind # "Toplevel" /\ op.repo = r}

HasStatus(q) == \E i \in DOMAIN q : q[i].kind = "Status"

\* The repository that is on show once the queue has drained.
Target(c) == IF c.pending \in {NoRepo, c.repo} THEN c.repo ELSE c.pending

\* A view that is old has a refresh coming, or will when the queue drains.
Awaited(c) ==
  c.repo # NoRepo =>
    \/ c.fresh /\ c.view = c.repo
    \/ c.failed \/ c.timer
    \/ c.busy /\ c.scheduled
    \/ HasStatus(c.queue)

Core(c) ==
  /\ c \in Controllers /\ ~c.refused
  /\ c.queue \in Seq(Orders(c.repo))
  /\ c.repo = NoRepo => c.queue = <<>> /\ c.listed = {} /\ c.pending = NoRepo
  /\ ~c.reading => ~c.fresh

InCall(c) == Core(c) /\ Awaited(c) /\ c.busy /\ ~c.process

Still(c) ==
  /\ Core(c)
  /\ c.process = c.busy
  /\ ~c.busy => c.queue = <<>> /\ c.pending = NoRepo /\ (c.scheduled => c.timer)
  /\ c.busy => IF c.current.kind = "Toplevel" THEN c.repo = NoRepo
               ELSE c.current.repo = c.repo

\* The status that is being read will do, unless something has changed since.
Rest(c) ==
  Still(c) /\ (Awaited(c) \/ (c.busy /\ c.current.kind = "Status" /\ c.reading))

\* d has the repository of c, and will have it.
Stays(c, d) == d.repo = c.repo /\ d.pending = c.pending

Inv ==
  /\ IF widget.prompt = "none" THEN Rest(ctl)
     ELSE InCall(ctl) /\ ctl.current.kind # "Toplevel" /\ ctl.current.repo = ctl.repo
  /\ widget \in Widgets
  /\ ctl.repo # NoRepo => Target(ctl) = widget.wanted
  /\ asks \in 0 .. MaxAsks /\ changes \in 0 .. MaxChanges

\* What a step may do to the repository on show: it goes to the one selected last.
Moves ==
  /\ ctl'.repo \in {ctl.repo, widget'.wanted}
  /\ ctl'.repo # ctl.repo => ctl'.busy
  /\ widget'.wanted # widget.wanted =>
       widget'.wanted \in Repos /\ (~ctl.busy => ctl'.repo = widget'.wanted)
  /\ ctl'.repo = NoRepo => ctl.repo = NoRepo /\ widget'.wanted = widget.wanted

-----------------------------------------------------------------------------
(* Commands and queues.                                                    *)

LEMMA OrderedIs ==
  ASSUME NEW kind \in Kinds \ {"Toplevel"}, NEW r \in Repos, NEW b \in BOOLEAN
  PROVE  /\ Op(kind, r) \in Orders(r) /\ [Op(kind, r) EXCEPT !.recovery = b] \in Orders(r)
         /\ Op(kind, r).kind = kind
BY DEF Op, Orders, Ops

LEMMA QueueOps ==
  ASSUME NEW r, NEW q \in Seq(Orders(r))
  PROVE  q \in Seq(Ops)
<1>1. Orders(r) \subseteq Ops
  BY DEF Orders
<1> QED
  BY <1>1, SeqMonotonic

LEMMA ShortQueues ==
  ASSUME NEW S
  PROVE  /\ <<>> \in Seq(S)
         /\ \A a \in S : <<a>> \in Seq(S)
         /\ \A a, b \in S : <<a, b>> \in Seq(S)
BY EmptySeq

LEMMA Joined ==
  ASSUME NEW S, NEW p \in Seq(S), NEW q \in Seq(S)
  PROVE  /\ p \o q \in Seq(S)
         /\ HasStatus(p) \/ HasStatus(q) => HasStatus(p \o q)
         /\ q # <<>> => p \o q # <<>>
         /\ q = <<>> => p \o q = p
<1> DEFINE u == p \o q
<1>1. /\ u \in Seq(S) /\ Len(u) = Len(p) + Len(q) /\ Len(p) \in Nat /\ Len(q) \in Nat
      /\ DOMAIN p = 1 .. Len(p) /\ DOMAIN q = 1 .. Len(q) /\ DOMAIN u = 1 .. Len(u)
      /\ \A i \in 1 .. Len(p) + Len(q) : u[i] = IF i <= Len(p) THEN p[i] ELSE q[i - Len(p)]
  BY ConcatProperties, LenProperties
<1>2. q = <<>> => u = p
  BY ConcatEmptySeq
<1> HIDE DEF u
<1>3. ASSUME HasStatus(p) PROVE HasStatus(u)
  <2>1. PICK i \in 1 .. Len(p) : p[i].kind = "Status"
    BY <1>1, <1>3 DEF HasStatus
  <2>2. i \in 1 .. Len(u) /\ u[i] = p[i]
    BY <1>1
  <2> QED
    BY <1>1, <2>1, <2>2 DEF HasStatus
<1>4. ASSUME HasStatus(q) PROVE HasStatus(u)
  <2>1. PICK i \in 1 .. Len(q) : q[i].kind = "Status"
    BY <1>1, <1>4 DEF HasStatus
  <2>2. Len(p) + i \in 1 .. Len(u) /\ u[Len(p) + i] = q[i]
    BY <1>1
  <2> QED
    BY <1>1, <2>1, <2>2 DEF HasStatus
<1>5. q # <<>> => u # <<>>
  BY <1>1, EmptySeq
<1> QED
  BY <1>1, <1>2, <1>3, <1>4, <1>5 DEF u

LEMMA Taken ==
  ASSUME NEW S, NEW q \in Seq(S), q # <<>>
  PROVE  /\ Head(q) \in S /\ Tail(q) \in Seq(S)
         /\ HasStatus(q) => Head(q).kind = "Status" \/ HasStatus(Tail(q))
<1>1. /\ Head(q) \in S /\ Tail(q) \in Seq(S) /\ Len(Tail(q)) = Len(q) - 1
      /\ \A i \in 1 .. Len(Tail(q)) : Tail(q)[i] = q[i + 1]
      /\ Len(q) \in Nat /\ DOMAIN q = 1 .. Len(q) /\ DOMAIN Tail(q) = 1 .. Len(Tail(q))
      /\ Head(q) = q[1]
  BY HeadTailProperties, LenProperties
<1>2. ASSUME HasStatus(q), Head(q).kind # "Status"
      PROVE  HasStatus(Tail(q))
  <2>1. PICK i \in 1 .. Len(q) : q[i].kind = "Status"
    BY <1>1, <1>2 DEF HasStatus
  <2>2. i - 1 \in 1 .. Len(Tail(q)) /\ Tail(q)[i - 1] = q[i]
    BY <1>1, <1>2, <2>1
  <2> QED
    BY <1>1, <2>1, <2>2 DEF HasStatus
<1> QED
  BY <1>1, <1>2

\* A full refresh, of whatever repository.
LEMMA Refreshing ==
  ASSUME NEW r \in Repos
  PROVE  LET all == [i \in DOMAIN RefreshKinds |-> Op(RefreshKinds[i], r)] IN
         all \in Seq(Orders(r)) /\ all # <<>> /\ HasStatus(all)
<1> DEFINE all == [i \in DOMAIN RefreshKinds |-> Op(RefreshKinds[i], r)]
<1>1. /\ DOMAIN RefreshKinds = 1 .. 6
      /\ \A i \in 1 .. 6 : RefreshKinds[i] \in Kinds \ {"Toplevel"}
      /\ RefreshKinds[6] = "Status"
  BY DEF RefreshKinds, Kinds, QuietKinds
<1>2. all = [i \in 1 .. 6 |-> Op(RefreshKinds[i], r)]
  BY <1>1
<1>3. \A i \in 1 .. 6 : Op(RefreshKinds[i], r) \in Orders(r)
  BY <1>1, OrderedIs
<1>4. all \in [1 .. 6 -> Orders(r)] /\ DOMAIN all = 1 .. 6 /\ all[6].kind = "Status"
  <2>1. 6 \in 1 .. 6
    OBVIOUS
  <2>2. all[6] = Op("Status", r)
    BY <1>1, <1>2, <2>1
  <2>3. Op("Status", r).kind = "Status"
    BY DEF Op
  <2>4. all \in [1 .. 6 -> Orders(r)] /\ DOMAIN all = 1 .. 6
    BY <1>2, <1>3
  <2> HIDE DEF all
  <2> QED
    BY <2>2, <2>3, <2>4
<1> HIDE DEF all
<1>5. all \in Seq(Orders(r))
  BY <1>4, SeqDef
<1>6. HasStatus(all)
  <2>1. 6 \in DOMAIN all
    BY <1>4
  <2> QED
    BY <1>4, <2>1 DEF HasStatus
<1>7. all # <<>>
  BY <1>6 DEF HasStatus
<1> QED
  BY <1>5, <1>6, <1>7 DEF all

-----------------------------------------------------------------------------
(* The methods.                                                            *)

LEMMA RepoIs ==
  ASSUME NEW c, Core(c), c.repo # NoRepo
  PROVE  c.repo \in Repos
BY DEF Core, Controllers

LEMMA Started ==
  ASSUME NEW c, Core(c), c.queue # <<>>, ~c.process, Awaited(c)
  PROVE  Rest(StartNext(c)) /\ Stays(c, StartNext(c)) /\ StartNext(c).busy
<1> DEFINE h == Head(c.queue)
           q == Tail(c.queue)
           d == StartNext(c)
           s == IF h.kind \in QuietKinds THEN c.state ELSE "Running"
<1>1. /\ c \in Controllers /\ c.repo # NoRepo /\ ~c.refused /\ c.repo \in Repos
  BY RepoIs DEF Core
<1>2. /\ h \in Orders(c.repo) /\ q \in Seq(Orders(c.repo))
      /\ HasStatus(c.queue) => h.kind = "Status" \/ HasStatus(q)
  BY Taken DEF Core
<1>3. h \in Ops /\ h.kind # "Toplevel" /\ h.repo = c.repo /\ q \in Seq(Ops)
  BY <1>2, QueueOps DEF Orders
<1>4. d = [c EXCEPT !.busy = TRUE, !.current = h, !.queue = q, !.state = s,
                    !.refused = FALSE, !.process = TRUE, !.marked = FALSE, !.reading = TRUE]
  BY <1>1 DEF StartNext, Controllers
<1>5. s \in {"Discovering", "Refreshing", "Running", "Idle", "Error"}
  BY <1>1 DEF Controllers
<1> HIDE DEF h, q, s, d
<1>6. /\ d \in Controllers /\ d.busy /\ d.process /\ ~d.refused /\ d.reading
      /\ d.current = h /\ d.queue = q /\ d.repo = c.repo /\ d.pending = c.pending
      /\ d.fresh = c.fresh /\ d.view = c.view /\ d.failed = c.failed
      /\ d.timer = c.timer /\ d.scheduled = c.scheduled
  BY <1>1, <1>3, <1>4, <1>5 DEF Controllers
<1>7. Core(d)
  BY <1>1, <1>2, <1>6 DEF Core
<1>8. Still(d)
  BY <1>3, <1>6, <1>7 DEF Still
<1>9. Awaited(d) \/ d.current.kind = "Status"
  BY <1>1, <1>2, <1>6 DEF Awaited
<1> QED
  BY <1>6, <1>8, <1>9 DEF Rest, Stays, d

\* enqueue with a command running, or of nothing.
LEMMA Appended ==
  ASSUME NEW c, Core(c), c.repo \in Repos, NEW ops \in Seq(Orders(c.repo)),
         NEW d, d = [c EXCEPT !.queue = @ \o ops]
  PROVE  /\ Core(d) /\ Stays(c, d)
         /\ Awaited(c) \/ HasStatus(ops) => Awaited(d)
         /\ ops = <<>> => d.queue = c.queue
         /\ ops # <<>> => d.queue # <<>>
         /\ d.busy = c.busy /\ d.process = c.process /\ d.current = c.current
         /\ d.scheduled = c.scheduled /\ d.timer = c.timer /\ d.reading = c.reading
<1> DEFINE q == c.queue \o ops
<1>1. /\ q \in Seq(Orders(c.repo))
      /\ HasStatus(c.queue) \/ HasStatus(ops) => HasStatus(q)
      /\ ops # <<>> => q # <<>>
      /\ ops = <<>> => q = c.queue
  BY Joined DEF Core
<1>2. q \in Seq(Ops)
  BY <1>1, QueueOps
<1>3. d = [c EXCEPT !.queue = q] /\ c \in Controllers
  BY DEF Core, Controllers
<1> HIDE DEF q
<1>4. /\ d \in Controllers /\ d.refused = c.refused /\ d.queue = q /\ d.repo = c.repo
      /\ d.pending = c.pending /\ d.fresh = c.fresh /\ d.view = c.view
      /\ d.failed = c.failed /\ d.timer = c.timer /\ d.scheduled = c.scheduled
      /\ d.busy = c.busy /\ d.process = c.process /\ d.current = c.current
      /\ d.reading = c.reading /\ d.listed = c.listed
  BY <1>2, <1>3 DEF Controllers
<1>5. Core(d)
  BY <1>1, <1>4, ReposAreReal DEF Core, Repos
<1>6. Awaited(c) \/ HasStatus(ops) => Awaited(d)
  BY <1>1, <1>4 DEF Awaited
<1> QED
  BY <1>1, <1>4, <1>5, <1>6 DEF Stays

LEMMA Enqueued ==
  ASSUME NEW c, Core(c), c.repo \in Repos, NEW ops \in Seq(Orders(c.repo))
  PROVE  /\ Rest(c) => Rest(Enqueue(c, ops))
         /\ c.busy /\ ~c.process /\ (Awaited(c) \/ HasStatus(ops)) =>
              InCall(Enqueue(c, ops)) /\ Enqueue(c, ops).current = c.current
         /\ ~c.busy /\ ~c.process /\ ops # <<>> /\ (Awaited(c) \/ HasStatus(ops)) =>
              Rest(Enqueue(c, ops))
         /\ Stays(c, Enqueue(c, ops))
         /\ ops # <<>> => IF c.busy THEN Enqueue(c, ops).queue # <<>>
                          ELSE Enqueue(c, ops).busy
<1> DEFINE d == [c EXCEPT !.queue = @ \o ops]
<1>1. /\ Core(d) /\ Stays(c, d)
      /\ Awaited(c) \/ HasStatus(ops) => Awaited(d)
      /\ ops = <<>> => d.queue = c.queue
      /\ ops # <<>> => d.queue # <<>>
      /\ d.busy = c.busy /\ d.process = c.process /\ d.current = c.current
      /\ d.scheduled = c.scheduled /\ d.timer = c.timer /\ d.reading = c.reading
  BY Appended
<1>2. Enqueue(c, ops) = IF c.busy \/ ops = <<>> THEN d ELSE StartNext(d)
  BY DEF Enqueue
<1> HIDE DEF d
<1>3. CASE c.busy \/ ops = <<>>
  <2>1. Rest(c) => Rest(d)
    BY <1>1, <1>3 DEF Rest, Still, Stays
  <2>2. c.busy /\ ~c.process /\ (Awaited(c) \/ HasStatus(ops)) => InCall(d)
    BY <1>1 DEF InCall
  <2> QED
    BY <1>1, <1>2, <1>3, <2>1, <2>2
<1>4. CASE ~c.busy /\ ops # <<>>
  <2>1. ~c.process /\ (Awaited(c) \/ HasStatus(ops)) =>
          Rest(StartNext(d)) /\ Stays(d, StartNext(d))
    BY <1>1, <1>4, Started
  <2>2. Rest(c) => ~c.process /\ Awaited(c)
    BY <1>4 DEF Rest, Still
  <2>3. Stays(c, StartNext(d)) /\ StartNext(d).busy
    BY <1>1 DEF Stays, StartNext, Core, Controllers
  <2> QED
    BY <1>2, <1>4, <2>1, <2>2, <2>3
<1> QED
  BY <1>3, <1>4

\* enqueueFullRefresh, with no process running.
LEMMA Refreshed ==
  ASSUME NEW c, Core(c), c.repo \in Repos, ~c.process
  PROVE  /\ c.busy => InCall(EnqueueFullRefresh(c))
                       /\ EnqueueFullRefresh(c).current = c.current
                       /\ EnqueueFullRefresh(c).queue # <<>>
         /\ ~c.busy => Rest(EnqueueFullRefresh(c)) /\ EnqueueFullRefresh(c).busy
         /\ Stays(c, EnqueueFullRefresh(c))
<1> DEFINE d == [c EXCEPT !.state = "Refreshing", !.failed = FALSE]
           ops == [i \in DOMAIN RefreshKinds |-> Op(RefreshKinds[i], c.repo)]
<1>1. /\ d \in Controllers /\ d.refused = c.refused /\ d.queue = c.queue
      /\ d.repo = c.repo /\ d.pending = c.pending /\ d.fresh = c.fresh
      /\ d.busy = c.busy /\ d.process = c.process /\ d.current = c.current
      /\ d.reading = c.reading /\ d.listed = c.listed
  BY DEF Core, Controllers
<1>2. ops \in Seq(Orders(c.repo)) /\ ops # <<>> /\ HasStatus(ops)
  BY Refreshing
<1>3. EnqueueFullRefresh(c) = Enqueue(d, ops)
  BY ReposAreReal DEF EnqueueFullRefresh, Repos
<1> HIDE DEF d, ops
<1>4. Core(d) /\ d.repo \in Repos /\ ops \in Seq(Orders(d.repo))
  BY <1>1, <1>2 DEF Core
<1>5. /\ d.busy => InCall(Enqueue(d, ops)) /\ Enqueue(d, ops).current = d.current
                    /\ Enqueue(d, ops).queue # <<>>
      /\ ~d.busy => Rest(Enqueue(d, ops)) /\ Enqueue(d, ops).busy
      /\ Stays(d, Enqueue(d, ops))
  BY <1>1, <1>2, <1>4, Enqueued
<1> QED
  BY <1>1, <1>3, <1>5 DEF Stays

\* applySelectRepo, with nothing under way.
LEMMA Applied ==
  ASSUME NEW c, Core(c), c.queue = <<>>, ~c.busy, ~c.process, NEW r \in Repos,
         c.pending = NoRepo
  PROVE  /\ Rest(ApplySelectRepo(c, r))
         /\ ApplySelectRepo(c, r).repo = r /\ ApplySelectRepo(c, r).pending = NoRepo
         /\ ApplySelectRepo(c, r).busy
<1> DEFINE d == [c EXCEPT !.repo = r]
<1>1. /\ d \in Controllers /\ d.refused = c.refused /\ d.queue = c.queue
      /\ d.repo = r /\ d.pending = c.pending /\ d.fresh = c.fresh
      /\ d.busy = c.busy /\ d.process = c.process /\ d.reading = c.reading
  BY DEF Core, Controllers
<1>2. ApplySelectRepo(c, r) = EnqueueFullRefresh(d)
  BY DEF ApplySelectRepo
<1> HIDE DEF d
<1>3. <<>> \in Seq(Orders(r))
  BY EmptySeq
<1>4. Core(d) /\ d.repo \in Repos /\ ~d.process /\ ~d.busy
  BY <1>1, <1>3, ReposAreReal DEF Core, Repos
<1> QED
  BY <1>1, <1>2, <1>4, Refreshed DEF Stays

\* selectRepo: whatever was chosen before, r is what the user will see.
LEMMA Selected ==
  ASSUME NEW c, Core(c), c.repo \in Repos, NEW r \in Repos
  PROVE  /\ Rest(c) => Rest(SelectRepo(c, r))
         /\ InCall(c) => InCall(SelectRepo(c, r)) /\ SelectRepo(c, r).repo = c.repo
         /\ Rest(c) \/ InCall(c) => Target(SelectRepo(c, r)) = r
         /\ Rest(c) => /\ SelectRepo(c, r).repo = IF c.busy THEN c.repo ELSE r
                       /\ SelectRepo(c, r).repo # c.repo => SelectRepo(c, r).busy
<1>0. r # NoRepo /\ c.repo # NoRepo
  BY ReposAreReal DEF Repos
<1>1. ASSUME NEW p \in Repos \union {NoRepo}, c.busy \/ p = NoRepo
      PROVE  LET d == [c EXCEPT !.pending = p] IN
             /\ Rest(c) => Rest(d)
             /\ InCall(c) => InCall(d)
             /\ d.repo = c.repo /\ d.pending = p
  <2> DEFINE d == [c EXCEPT !.pending = p]
  <2>1. /\ d \in Controllers /\ d.refused = c.refused /\ d.queue = c.queue
        /\ d.repo = c.repo /\ d.pending = p /\ d.fresh = c.fresh /\ d.view = c.view
        /\ d.failed = c.failed /\ d.timer = c.timer /\ d.scheduled = c.scheduled
        /\ d.busy = c.busy /\ d.process = c.process /\ d.current = c.current
        /\ d.reading = c.reading
    BY DEF Core, Controllers
  <2> HIDE DEF d
  <2>2. Core(d)
    BY <1>0, <2>1 DEF Core
  <2>3. Awaited(c) => Awaited(d)
    BY <2>1 DEF Awaited
  <2>4. Rest(c) => Rest(d)
    BY <1>1, <2>1, <2>2, <2>3 DEF Rest, Still
  <2> QED
    BY <2>1, <2>2, <2>3, <2>4 DEF InCall, d
<1>2. CASE r = c.repo
  <2>1. SelectRepo(c, r) = [c EXCEPT !.pending = NoRepo]
    BY <1>2 DEF SelectRepo
  <2> QED
    BY <1>1, <1>2, <2>1 DEF Target
<1>3. CASE r # c.repo /\ c.busy
  <2>1. SelectRepo(c, r) = [c EXCEPT !.pending = r]
    BY <1>3 DEF SelectRepo
  <2> QED
    BY <1>0, <1>1, <1>3, <2>1 DEF Target
<1>4. CASE r # c.repo /\ ~c.busy
  <2>1. SelectRepo(c, r) = ApplySelectRepo(c, r)
    BY <1>4 DEF SelectRepo
  <2>2. ASSUME Rest(c)
        PROVE  /\ Rest(SelectRepo(c, r)) /\ Target(SelectRepo(c, r)) = r
               /\ SelectRepo(c, r).repo = r /\ SelectRepo(c, r).busy
    <3>1. c.queue = <<>> /\ c.pending = NoRepo /\ ~c.process
      BY <1>4, <2>2 DEF Rest, Still
    <3> QED
      BY <1>4, <2>1, <3>1, Applied DEF Target
  <2> QED
    BY <1>4, <2>2 DEF InCall
<1> QED
  BY <1>2, <1>3, <1>4

\* refresh, where no refresh need be coming.
LEMMA RefreshRests ==
  ASSUME NEW c, Still(c)
  PROVE  Rest(Refresh(c)) /\ Stays(c, Refresh(c))
<1>1. CASE c.repo = NoRepo
  BY <1>1 DEF Refresh, Rest, Awaited, Stays
<1>2. CASE c.repo # NoRepo /\ c.busy
  <2> DEFINE d == [c EXCEPT !.scheduled = TRUE]
  <2>1. Refresh(c) = d
    BY <1>2 DEF Refresh
  <2>2. /\ d \in Controllers /\ d.refused = c.refused /\ d.queue = c.queue
        /\ d.repo = c.repo /\ d.pending = c.pending /\ d.fresh = c.fresh
        /\ d.scheduled /\ d.busy = c.busy /\ d.process = c.process
        /\ d.current = c.current /\ d.reading = c.reading
    BY DEF Still, Core, Controllers
  <2> HIDE DEF d
  <2>3. Core(d)
    BY <1>2, <2>2 DEF Still, Core
  <2> QED
    BY <1>2, <2>1, <2>2, <2>3 DEF Rest, Still, Awaited, Stays
<1>3. CASE c.repo # NoRepo /\ ~c.busy
  <2>1. Refresh(c) = EnqueueFullRefresh(c) /\ ~c.process /\ Core(c)
    BY <1>3 DEF Refresh, Still
  <2> QED
    BY <1>3, <2>1, RepoIs, Refreshed
<1> QED
  BY <1>1, <1>2, <1>3

\* scheduleDebouncedRefresh.
LEMMA Debounced ==
  ASSUME NEW c, Core(c), c.repo # NoRepo, c.busy \/ (c.scheduled => c.timer),
         NEW d, d = ScheduleDebouncedRefresh(c)
  PROVE  /\ Core(d) /\ Awaited(d) /\ Stays(c, d)
         /\ d.busy = c.busy /\ d.process = c.process /\ d.current = c.current
         /\ d.queue = c.queue /\ d.reading = c.reading
         /\ c.busy \/ (d.scheduled => d.timer)
<1>1. CASE c.scheduled
  BY <1>1 DEF ScheduleDebouncedRefresh, Awaited, Stays
<1>2. CASE ~c.scheduled
  <2> DEFINE e == [c EXCEPT !.scheduled = TRUE, !.timer = TRUE]
  <2>1. d = e
    BY <1>2 DEF ScheduleDebouncedRefresh
  <2>2. /\ e \in Controllers /\ e.refused = c.refused /\ e.queue = c.queue
        /\ e.repo = c.repo /\ e.pending = c.pending /\ e.fresh = c.fresh
        /\ e.timer /\ e.busy = c.busy /\ e.process = c.process
        /\ e.current = c.current /\ e.reading = c.reading
    BY DEF Core, Controllers
  <2> HIDE DEF e
  <2>3. Core(d)
    BY <2>1, <2>2 DEF Core
  <2> QED
    BY <2>1, <2>2, <2>3 DEF Awaited, Stays
<1> QED
  BY <1>1, <1>2

\* popAndAdvance: the callback is over, and the next command runs or all rests.
LEMMA Popped ==
  ASSUME NEW c, InCall(c)
  PROVE  /\ Rest(PopAndAdvance(c))
         /\ Target(PopAndAdvance(c)) = Target(c)
         /\ PopAndAdvance(c).repo = NoRepo <=> c.repo = NoRepo
         /\ PopAndAdvance(c).repo \in {c.repo, Target(c)}
         /\ PopAndAdvance(c).repo # c.repo \/ c.queue # <<>> => PopAndAdvance(c).busy
<1> DEFINE d == [c EXCEPT !.busy = FALSE]
           idle == [d EXCEPT !.state = IF @ \in {"Running", "Refreshing"} THEN "Idle" ELSE @,
                             !.pending = NoRepo]
<1>1. Core(c) /\ Awaited(c) /\ c.busy /\ ~c.process /\ c \in Controllers
  BY DEF InCall, Core
<1>2. PopAndAdvance(c) = RunNext(d) /\ d.queue = c.queue /\ d.pending = c.pending
      /\ d.repo = c.repo /\ d.scheduled = c.scheduled
  BY <1>1 DEF PopAndAdvance, Controllers
<1>3. CASE c.queue # <<>>
  <2>1. StartNext(d) = StartNext(c)
    BY <1>1 DEF StartNext, Controllers
  <2>2. PopAndAdvance(c) = StartNext(c)
    BY <1>2, <1>3, <2>1 DEF RunNext
  <2> QED
    BY <1>1, <1>3, <2>2, Started DEF Stays, Target
<1>4. CASE c.queue = <<>>
  <2>1. PopAndAdvance(c) =
          IF c.pending \notin {NoRepo, c.repo} THEN ApplySelectRepo(idle, c.pending)
          ELSE IF c.scheduled THEN Refresh([idle EXCEPT !.scheduled = FALSE])
          ELSE idle
    BY <1>2, <1>4 DEF RunNext, Drain
  <2>2. /\ idle \in Controllers /\ idle.refused = c.refused /\ idle.queue = c.queue
        /\ idle.repo = c.repo /\ idle.pending = NoRepo /\ idle.fresh = c.fresh
        /\ idle.view = c.view /\ idle.failed = c.failed /\ idle.timer = c.timer
        /\ idle.scheduled = c.scheduled /\ ~idle.busy /\ idle.process = c.process
        /\ idle.reading = c.reading /\ idle.listed = c.listed
    <3> DEFINE s == IF d.state \in {"Running", "Refreshing"} THEN "Idle" ELSE d.state
    <3>1. /\ d \in Controllers /\ d.refused = c.refused /\ d.queue = c.queue
          /\ d.repo = c.repo /\ d.fresh = c.fresh /\ d.view = c.view
          /\ d.failed = c.failed /\ d.timer = c.timer /\ d.scheduled = c.scheduled
          /\ d.busy = FALSE /\ d.process = c.process /\ d.reading = c.reading
          /\ d.listed = c.listed
      BY <1>1 DEF Controllers
    <3>2. s \in {"Discovering", "Refreshing", "Running", "Idle", "Error"}
      BY <3>1 DEF Controllers
    <3>3. idle = [d EXCEPT !.state = s, !.pending = NoRepo]
      BY <3>1 DEF Controllers
    <3> HIDE DEF d, s, idle
    <3> QED
      BY <3>1, <3>2, <3>3 DEF Controllers
  <2> HIDE DEF d, idle
  <2>3. Core(idle)
    BY <1>1, <2>2 DEF Core
  <2>4. CASE c.pending \notin {NoRepo, c.repo}
    <3>1. c.pending \in Repos /\ c.repo # NoRepo
      BY <1>1, <2>4 DEF Core, Controllers
    <3>2. /\ Rest(PopAndAdvance(c)) /\ PopAndAdvance(c).busy
          /\ PopAndAdvance(c).repo = c.pending /\ PopAndAdvance(c).pending = NoRepo
      BY <1>1, <1>4, <2>1, <2>2, <2>3, <2>4, <3>1, Applied
    <3> QED
      BY <1>4, <2>4, <3>1, <3>2 DEF Target
  <2>5. CASE c.pending \in {NoRepo, c.repo} /\ c.scheduled
    <3> DEFINE e == [idle EXCEPT !.scheduled = FALSE]
    <3>1. PopAndAdvance(c) = Refresh(e)
      BY <2>1, <2>5
    <3>2. /\ e \in Controllers /\ e.refused = c.refused /\ e.queue = c.queue
          /\ e.repo = c.repo /\ e.pending = NoRepo /\ e.fresh = c.fresh
          /\ ~e.scheduled /\ ~e.busy /\ e.process = c.process
          /\ e.reading = c.reading /\ e.listed = c.listed
      BY <2>2 DEF Controllers
    <3> HIDE DEF e
    <3>3. Still(e)
      <4>1. e.process = e.busy
        BY <1>1, <3>2 DEF Controllers
      <4> QED
        BY <1>1, <1>4, <3>2, <4>1 DEF Still, Core
    <3>4. Rest(Refresh(e)) /\ Stays(e, Refresh(e))
      BY <3>3, RefreshRests
    <3> QED
      BY <1>4, <2>5, <3>1, <3>2, <3>4 DEF Stays, Target
  <2>6. CASE c.pending \in {NoRepo, c.repo} /\ ~c.scheduled
    <3>1. PopAndAdvance(c) = idle
      BY <2>1, <2>6
    <3>2. Awaited(idle)
      BY <1>1, <1>4, <2>2, <2>6 DEF Awaited
    <3>3. Rest(idle)
      <4>1. idle.process = idle.busy
        BY <1>1, <2>2 DEF Controllers
      <4> QED
        BY <1>1, <1>4, <2>2, <2>3, <2>6, <3>2, <4>1 DEF Rest, Still
    <3> QED
      BY <1>4, <2>2, <2>6, <3>1, <3>3 DEF Target
  <2> QED
    BY <2>4, <2>5, <2>6
<1> QED
  BY <1>3, <1>4

\* refresh inside a callback.
LEMMA RefreshCalled ==
  ASSUME NEW c, Core(c), c.busy, ~c.process
  PROVE  InCall(Refresh(c)) /\ Stays(c, Refresh(c)) /\ Refresh(c).current = c.current
<1>1. CASE c.repo = NoRepo
  BY <1>1 DEF Refresh, InCall, Awaited, Stays
<1>2. CASE c.repo # NoRepo
  <2> DEFINE d == [c EXCEPT !.scheduled = TRUE]
  <2>1. Refresh(c) = d
    BY <1>2 DEF Refresh
  <2>2. /\ d \in Controllers /\ d.refused = c.refused /\ d.queue = c.queue
        /\ d.repo = c.repo /\ d.pending = c.pending /\ d.fresh = c.fresh
        /\ d.scheduled /\ d.busy = c.busy /\ d.process = c.process
        /\ d.current = c.current /\ d.reading = c.reading
    BY DEF Core, Controllers
  <2> HIDE DEF d
  <2>3. Core(d)
    BY <1>2, <2>2 DEF Core
  <2> QED
    BY <2>1, <2>2, <2>3 DEF InCall, Awaited, Stays
<1> QED
  BY <1>1, <1>2

LEMMA ChangedIs ==
  ASSUME NEW c, Core(c), NEW d, d = Changed(c)
  PROVE  /\ Core(d) /\ Stays(c, d)
         /\ d.busy = c.busy /\ d.process = c.process /\ d.current = c.current
         /\ d.queue = c.queue /\ d.scheduled = c.scheduled /\ d.timer = c.timer
<1>1. /\ d \in Controllers /\ d.refused = c.refused /\ d.queue = c.queue
      /\ d.repo = c.repo /\ d.pending = c.pending /\ ~d.fresh /\ d.listed = c.listed
      /\ d.busy = c.busy /\ d.process = c.process /\ d.current = c.current
      /\ d.scheduled = c.scheduled /\ d.timer = c.timer
  BY DEF Core, Controllers, Changed
<1>2. Core(d)
  BY <1>1 DEF Core
<1> QED
  BY <1>1, <1>2 DEF Stays

\* A failure: the queue is cleared, and what waited for it is not.
LEMMA Reporting ==
  ASSUME NEW c, Core(c), c.busy, ~c.process
  PROVE  /\ Rest(Report(c)) /\ Target(Report(c)) = Target(c)
         /\ Report(c).repo = NoRepo <=> c.repo = NoRepo
         /\ Report(c).repo \in {c.repo, Target(c)}
         /\ Report(c).repo # c.repo => Report(c).busy
<1> DEFINE d == [c EXCEPT !.state = "Error", !.queue = <<>>, !.failed = TRUE]
<1>1. <<>> \in Seq(Ops) /\ <<>> \in Seq(Orders(c.repo))
  BY EmptySeq
<1>2. /\ d \in Controllers /\ d.refused = c.refused /\ d.queue = <<>>
      /\ d.repo = c.repo /\ d.pending = c.pending /\ d.fresh = c.fresh /\ d.failed
      /\ d.busy = c.busy /\ d.process = c.process /\ d.reading = c.reading
      /\ d.listed = c.listed
  BY <1>1 DEF Core, Controllers
<1>3. Report(c) = PopAndAdvance(d)
  BY DEF Report
<1> HIDE DEF d
<1>4. InCall(d)
  BY <1>1, <1>2 DEF Core, InCall, Awaited
<1> QED
  BY <1>2, <1>3, <1>4, Popped DEF Target

-----------------------------------------------------------------------------
(* Steps.                                                                  *)

\* What a step must show: the controller rests ...
LEMMA RestsAgain ==
  ASSUME Rest(ctl'), widget' \in Widgets, widget'.prompt = "none",
         ctl'.repo # NoRepo => Target(ctl') = widget'.wanted,
         asks' \in 0 .. MaxAsks, changes' \in 0 .. MaxChanges
  PROVE  Inv'
BY DEF Inv, Rest, Still, Core, Awaited, Target, HasStatus

\* ... or a prompt is open.
LEMMA PromptStays ==
  ASSUME InCall(ctl'), ctl'.current.kind # "Toplevel", ctl'.current.repo = ctl'.repo,
         widget' \in Widgets, widget'.prompt # "none",
         ctl'.repo # NoRepo => Target(ctl') = widget'.wanted,
         asks' \in 0 .. MaxAsks, changes' \in 0 .. MaxChanges
  PROVE  Inv'
BY DEF Inv, InCall, Core, Awaited, Target, HasStatus

\* Neither the repository on show nor the one selected moves.
LEMMA Unmoved ==
  ASSUME ctl'.repo = ctl.repo, widget'.wanted = widget.wanted
  PROVE  Moves
BY DEF Moves

\* The controller as the callback of a command that has ended finds it.
LEMMA CalledIs ==
  ASSUME Inv, ctl.process
  PROVE  /\ Core(Called) /\ Called.busy /\ ~Called.process /\ widget.prompt = "none"
         /\ Called.current = ctl.current /\ Called.repo = ctl.repo
         /\ Stays(ctl, Called) /\ Called.queue = ctl.queue /\ Called.listed = ctl.listed
         /\ Called.reading = ctl.reading /\ Called.scheduled = ctl.scheduled
         /\ Awaited(Called) \/ (ctl.current.kind = "Status" /\ ctl.reading)
         /\ ctl.current \in Ops /\ ctl.busy
         /\ IF ctl.current.kind = "Toplevel" THEN ctl.repo = NoRepo
            ELSE ctl.repo \in Repos /\ ctl.current.repo = ctl.repo
<1>1. /\ Rest(ctl) /\ widget.prompt = "none" /\ ctl \in Controllers /\ ctl.busy
      /\ ctl.current \in Ops
  BY DEF Inv, InCall, Rest, Still, Core, Controllers
<1> DEFINE d == Called
<1>2. /\ d \in Controllers /\ d.refused = ctl.refused /\ d.queue = ctl.queue
      /\ d.repo = ctl.repo /\ d.pending = ctl.pending /\ d.fresh = ctl.fresh
      /\ d.view = ctl.view /\ d.failed = ctl.failed /\ d.timer = ctl.timer
      /\ d.scheduled = ctl.scheduled /\ d.busy = ctl.busy /\ ~d.process
      /\ d.current = ctl.current /\ d.reading = ctl.reading /\ d.listed = ctl.listed
  BY <1>1 DEF Controllers, Called
<1> HIDE DEF d
<1>3. Core(d)
  BY <1>1, <1>2 DEF Rest, Still, Core
<1>4. Awaited(ctl) => Awaited(d)
  BY <1>2 DEF Awaited
<1>5. IF ctl.current.kind = "Toplevel" THEN ctl.repo = NoRepo
      ELSE ctl.repo \in Repos /\ ctl.current.repo = ctl.repo
  <2>1. IF ctl.current.kind = "Toplevel" THEN ctl.repo = NoRepo
        ELSE ctl.current.repo = ctl.repo
    BY <1>1 DEF Rest, Still
  <2>2. ctl.current.kind # "Toplevel" => ctl.current.repo \in Repos
    BY <1>1 DEF Ops, Op
  <2> QED
    BY <2>1, <2>2
<1> QED
  BY <1>1, <1>2, <1>3, <1>4, <1>5 DEF Rest, Stays, d

\* A command ends well: c is what its callback leaves.
LEMMA Resumed ==
  ASSUME Inv, NEW c, InCall(c), Resume(c), widget' \in Widgets, widget'.prompt = "none",
         c.repo # NoRepo => Target(c) = widget'.wanted,
         c.repo = ctl.repo, ctl.repo # NoRepo,
         widget'.wanted # widget.wanted => widget'.wanted \in Repos /\ ctl.busy
  PROVE  Inv' /\ Moves
<1>1. ctl' = PopAndAdvance(c) /\ asks' = asks /\ changes' = changes
  BY DEF Resume
<1>2. /\ Rest(ctl') /\ Target(ctl') = Target(c)
      /\ (ctl'.repo = NoRepo <=> c.repo = NoRepo)
      /\ ctl'.repo \in {c.repo, Target(c)} /\ (ctl'.repo # c.repo => ctl'.busy)
  BY <1>1, Popped
<1>3. asks' \in 0 .. MaxAsks /\ changes' \in 0 .. MaxChanges
  BY <1>1 DEF Inv
<1>4. Inv'
  BY <1>2, <1>3, RestsAgain
<1>5. Moves
  BY <1>2 DEF Moves
<1> QED
  BY <1>4, <1>5

LEMMA AskKeeps == ASSUME Inv, NEW what \in UserOps, Ask(what) PROVE Inv' /\ Moves
<1>1. /\ widget.prompt = "none" /\ ctl.repo # NoRepo /\ Rest(ctl) /\ widget \in Widgets
      /\ ctl' = Enqueue(ctl, Asked(what, ctl.repo)) /\ widget' = widget
      /\ changes' \in 0 .. MaxChanges
      /\ Target(ctl) = widget.wanted
  BY DEF Ask, MayAsk, Free, Inv
<1>2. Core(ctl) /\ ctl.repo \in Repos
  BY <1>1, RepoIs DEF Rest, Still
<1>3. asks' \in 0 .. MaxAsks
  BY ReposAreReal DEF Ask, MayAsk, Free, Inv
<1>4. Asked(what, ctl.repo) \in Seq(Orders(ctl.repo))
  <2>1. what \in {"Stage", "StashSwitch", "Create", "Rename", "Pull", "Push", "Diff",
                  "FullDiff"}
    BY ReposAreReal
  <2>2. CASE what = "StashSwitch"
    <3>1. Op("Stash", ctl.repo) \in Orders(ctl.repo) /\ Op("Switch", ctl.repo) \in Orders(ctl.repo)
      BY <1>2, OrderedIs DEF Kinds, MutatingKinds
    <3> QED
      BY <2>2, <3>1, ShortQueues DEF Asked
  <2>3. CASE what = "FullDiff"
    <3>1. Op("DiffCached", ctl.repo) \in Orders(ctl.repo)
      BY <1>2, OrderedIs DEF Kinds, AnswerKinds
    <3> QED
      BY <2>3, <3>1, ShortQueues DEF Asked
  <2>4. CASE what \in {"Stage", "Create", "Rename", "Pull", "Push", "Diff"}
    <3>1. Op(what, ctl.repo) \in Orders(ctl.repo)
      BY <1>2, <2>4, OrderedIs DEF Kinds, MutatingKinds, AnswerKinds
    <3> QED
      BY <2>4, <3>1, ShortQueues DEF Asked
  <2> QED
    BY <2>1, <2>2, <2>3, <2>4
<1>5. Rest(ctl') /\ Stays(ctl, ctl')
  BY <1>1, <1>2, <1>4, Enqueued
<1> QED
  BY <1>1, <1>3, <1>5, RestsAgain, Unmoved DEF Stays, Target

LEMMA SelectsKeeps == ASSUME Inv, NEW r \in Repos, UserSelects(r) PROVE Inv' /\ Moves
<1>1. /\ widget.prompt = "none" /\ Rest(ctl) /\ widget \in Widgets
      /\ ctl' = SelectRepo(ctl, r) /\ changes' \in 0 .. MaxChanges
      /\ widget' = [widget EXCEPT !.saved = r, !.wanted = r]
  BY DEF UserSelects, Free, Inv
<1>2. Core(ctl) /\ ctl.repo \in Repos
  BY <1>1, RepoIs DEF Rest, Still, Core, UserSelects
<1>3. asks' \in 0 .. MaxAsks
  BY ReposAreReal DEF UserSelects, Free, Inv
<1>4. /\ Rest(ctl') /\ Target(ctl') = r
      /\ ctl'.repo = IF ctl.busy THEN ctl.repo ELSE r
      /\ ctl'.repo # ctl.repo => ctl'.busy
  BY <1>1, <1>2, Selected
<1>5. widget' \in Widgets /\ widget'.prompt = "none" /\ widget'.wanted = r
  BY <1>1 DEF Widgets
<1>6. Inv'
  BY <1>1, <1>3, <1>4, <1>5, RestsAgain
<1>7. ctl'.repo # NoRepo
  BY <1>2, <1>4, ReposAreReal DEF Repos
<1>8. Moves
  BY <1>4, <1>5, <1>7 DEF Moves
<1> QED
  BY <1>6, <1>8

\* A step of the controller alone, in either mode.
LEMMA ControllerKeeps ==
  ASSUME Inv, widget' = widget, asks' \in 0 .. MaxAsks, changes' \in 0 .. MaxChanges,
         Stays(ctl, ctl'),
         widget.prompt = "none" => Rest(ctl'),
         widget.prompt # "none" => InCall(ctl') /\ ctl'.current = ctl.current
  PROVE  Inv' /\ Moves
<1>1. /\ widget' \in Widgets
      /\ ctl'.repo # NoRepo => Target(ctl') = widget'.wanted
  BY DEF Inv, Stays, Target
<1>2. Moves
  BY Unmoved DEF Stays
<1>3. CASE widget.prompt = "none"
  BY <1>1, <1>2, <1>3, RestsAgain
<1>4. CASE widget.prompt # "none"
  <2>1. ctl'.current.kind # "Toplevel" /\ ctl'.current.repo = ctl'.repo
    BY <1>4 DEF Inv, Stays
  <2> QED
    BY <1>1, <1>2, <1>4, <2>1, PromptStays
<1> QED
  BY <1>3, <1>4

\* What either mode says of the controller.
LEMMA ModeIs ==
  ASSUME Inv
  PROVE  /\ widget.prompt = "none" => Still(ctl)
         /\ widget.prompt # "none" => Core(ctl) /\ ctl.busy /\ ~ctl.process
         /\ asks \in 0 .. MaxAsks /\ changes \in 0 .. MaxChanges
BY DEF Inv, Rest, InCall

LEMMA RefreshAskedKeeps == ASSUME Inv, RefreshAsked PROVE Inv' /\ Moves
<1>1. /\ ctl' = Refresh(ctl) /\ widget' = widget
      /\ asks' \in 0 .. MaxAsks /\ changes' \in 0 .. MaxChanges
  BY ModeIs, ReposAreReal DEF RefreshAsked
<1>2. widget.prompt = "none" => Rest(ctl') /\ Stays(ctl, ctl')
  BY <1>1, ModeIs, RefreshRests
<1>3. widget.prompt # "none" => InCall(ctl') /\ Stays(ctl, ctl') /\ ctl'.current = ctl.current
  BY <1>1, ModeIs, RefreshCalled
<1> QED
  BY <1>1, <1>2, <1>3, ControllerKeeps

LEMMA TimerKeeps == ASSUME Inv, TimerFires PROVE Inv' /\ Moves
<1> DEFINE c == [ctl EXCEPT !.timer = FALSE, !.scheduled = FALSE]
<1>1. /\ ctl' = Refresh(c) /\ widget' = widget
      /\ asks' \in 0 .. MaxAsks /\ changes' \in 0 .. MaxChanges
  BY ModeIs DEF TimerFires
<1>2. Core(ctl)
  BY ModeIs DEF Still
<1>3. /\ c \in Controllers /\ c.refused = ctl.refused /\ c.queue = ctl.queue
      /\ c.repo = ctl.repo /\ c.pending = ctl.pending /\ c.fresh = ctl.fresh
      /\ ~c.scheduled /\ c.busy = ctl.busy /\ c.process = ctl.process
      /\ c.current = ctl.current /\ c.reading = ctl.reading /\ c.listed = ctl.listed
  BY <1>2 DEF Core, Controllers
<1> HIDE DEF c
<1>4. Core(c)
  BY <1>2, <1>3 DEF Core
<1>5. widget.prompt = "none" => Rest(ctl') /\ Stays(c, ctl')
  <2>1. Still(ctl) => Still(c)
    BY <1>3, <1>4 DEF Still
  <2> QED
    BY <1>1, <2>1, ModeIs, RefreshRests
<1>6. widget.prompt # "none" => InCall(ctl') /\ Stays(c, ctl') /\ ctl'.current = c.current
  BY <1>1, <1>3, <1>4, ModeIs, RefreshCalled
<1> QED
  BY <1>1, <1>3, <1>5, <1>6, ControllerKeeps DEF Stays

LEMMA WatcherKeeps == ASSUME Inv, WatcherFires PROVE Inv' /\ Moves
<1> DEFINE c == Changed(ctl)
           d == ScheduleDebouncedRefresh(c)
<1>1. /\ ctl' = d /\ widget' = widget /\ ctl.repo # NoRepo
      /\ asks' \in 0 .. MaxAsks /\ changes' \in 0 .. MaxChanges
  BY ModeIs, ReposAreReal DEF WatcherFires
<1>2. Core(ctl)
  BY ModeIs DEF Still
<1>3. /\ Core(c) /\ Stays(ctl, c)
      /\ c.busy = ctl.busy /\ c.process = ctl.process /\ c.current = ctl.current
      /\ c.queue = ctl.queue /\ c.scheduled = ctl.scheduled /\ c.timer = ctl.timer
  BY <1>2, ChangedIs
<1> HIDE DEF c
<1>4. c.busy \/ (c.scheduled => c.timer)
  BY <1>3, ModeIs DEF Still
<1>5. /\ Core(d) /\ Awaited(d) /\ Stays(c, d)
      /\ d.busy = c.busy /\ d.process = c.process /\ d.current = c.current
      /\ d.queue = c.queue /\ d.reading = c.reading
      /\ c.busy \/ (d.scheduled => d.timer)
  BY <1>1, <1>3, <1>4, Debounced DEF Stays
<1> HIDE DEF d
<1>6. Stays(ctl, d)
  BY <1>3, <1>5 DEF Stays
<1>7. widget.prompt = "none" => Rest(d)
  <2>1. Still(ctl) => Still(d)
    BY <1>3, <1>5, <1>6 DEF Still, Stays
  <2> QED
    BY <1>5, <2>1, ModeIs DEF Rest
<1>8. widget.prompt # "none" => InCall(d) /\ d.current = ctl.current
  BY <1>3, <1>5, ModeIs DEF InCall
<1> QED
  BY <1>1, <1>6, <1>7, <1>8, ControllerKeeps

LEMMA AnswerKeeps == ASSUME Inv, Answer PROVE Inv' /\ Moves
<1>1. /\ InCall(ctl) /\ Core(ctl) /\ ctl.busy /\ ~ctl.process /\ Awaited(ctl)
      /\ widget \in Widgets /\ (ctl.repo # NoRepo => Target(ctl) = widget.wanted)
      /\ ctl.repo \in Repos /\ ctl.repo # NoRepo
  <2>1. InCall(ctl) /\ ctl.current.kind # "Toplevel" /\ ctl.current.repo = ctl.repo
    BY DEF Answer, Inv
  <2>2. ctl.current \in Ops
    BY <2>1 DEF InCall, Core, Controllers
  <2>3. ctl.repo \in Repos
    BY <2>1, <2>2 DEF Ops, Op
  <2> QED
    BY <2>1, <2>3, ReposAreReal DEF Answer, Inv, InCall, Repos
<1> DEFINE rejected == widget.prompt = "rejected"
           op == [Op("Pull", ctl.repo) EXCEPT !.recovery = rejected]
<1>2. PICK pull \in BOOLEAN :
        /\ Resume(IF pull THEN Enqueue(ctl, <<op>>) ELSE ctl)
        /\ widget' = [widget EXCEPT !.prompt = "none",
                                    !.pushAfterPull = @ \/ (pull /\ rejected)]
  BY DEF Answer
<1>3. widget' \in Widgets /\ widget'.prompt = "none" /\ widget'.wanted = widget.wanted
  BY <1>1, <1>2 DEF Widgets
<1>4. CASE pull
  <2>1. op \in Orders(ctl.repo)
    BY <1>1, OrderedIs DEF Kinds, MutatingKinds
  <2> HIDE DEF op
  <2>2. <<op>> \in Seq(Orders(ctl.repo))
    BY <2>1, ShortQueues
  <2>3. InCall(Enqueue(ctl, <<op>>)) /\ Stays(ctl, Enqueue(ctl, <<op>>))
    BY <1>1, <2>2, Enqueued
  <2> QED
    BY <1>1, <1>2, <1>3, <1>4, <2>3, Resumed DEF Stays, Target
<1>5. CASE ~pull
  BY <1>1, <1>2, <1>3, <1>5, Resumed
<1> QED
  BY <1>4, <1>5

-----------------------------------------------------------------------------
(* The ends of a command.                                                  *)

\* A callback that changes nothing the queue depends on.
LEMMA Alike ==
  ASSUME NEW c, InCall(c), NEW d \in Controllers,
         d.refused = c.refused, d.queue = c.queue, d.repo = c.repo, d.pending = c.pending,
         d.reading = c.reading, d.fresh = c.fresh, d.view = c.view, d.failed = c.failed,
         d.timer = c.timer, d.scheduled = c.scheduled, d.busy = c.busy,
         d.process = c.process, d.repo = NoRepo => d.listed = {}
  PROVE  InCall(d) /\ Stays(c, d) /\ Target(d) = Target(c)
<1>1. Core(d)
  BY DEF InCall, Core
<1>2. Awaited(d)
  BY DEF InCall, Awaited
<1> QED
  BY <1>1, <1>2 DEF InCall, Stays, Target

\* A command that is neither the first nor a status ends.
LEMMA CommandEnds ==
  ASSUME Inv, ctl.process, ctl.current.kind \notin {"Toplevel", "Status"}
  PROVE  /\ InCall(Called) /\ Called \in Controllers /\ ctl.repo \in Repos
         /\ ctl.repo # NoRepo /\ Called.repo = ctl.repo /\ ctl.current.repo = ctl.repo
         /\ Called.current = ctl.current /\ ctl.busy
         /\ Target(Called) = widget.wanted /\ widget \in Widgets
         /\ widget.prompt = "none"
<1>1. ctl.repo # NoRepo
  BY CalledIs, ReposAreReal DEF Repos
<1>2. Target(Called) = widget.wanted
  BY <1>1, CalledIs DEF Inv, Stays, Target
<1> QED
  BY <1>1, <1>2, CalledIs DEF InCall, Core, Inv

LEMMA ToplevelOkKeeps == ASSUME Inv, ToplevelOk PROVE Inv' /\ Moves
<1> DEFINE a == [Called EXCEPT !.listed = {Root}]
           announced == [a EXCEPT !.pending = Root]
           entered == [announced EXCEPT !.repo = Root]
           ops == <<Op("SubmodulesList", Root)>>
<1>1. /\ ctl.process /\ ctl.current.kind = "Toplevel" /\ Resume(ToplevelFound)
      /\ widget' = [widget EXCEPT !.wanted = Pick({Root})]
  BY DEF ToplevelOk, Ends
<1>2. /\ Core(Called) /\ Called.busy /\ ~Called.process /\ Called.repo = NoRepo
      /\ Called \in Controllers /\ widget.prompt = "none"
  BY <1>1, CalledIs DEF Core
<1>3. Called.queue = <<>> /\ Called.pending = NoRepo
  BY <1>2 DEF Core
<1>4. Pick({Root}) = Root /\ Root \in Repos /\ Root # NoRepo
  BY ReposAreReal DEF Pick, Repos
<1>5. a \in Controllers /\ a.repo = NoRepo /\ a.busy
  BY <1>2, <1>4 DEF Controllers
<1>6. SelectRepo(a, Root) = announced
  BY <1>4, <1>5 DEF SelectRepo
<1>7. announced.repo = NoRepo
  BY <1>5 DEF Controllers
<1>8. ToplevelFound = EnqueueFullRefresh(Enqueue(entered, ops))
  <2>1. ToplevelFound =
          EnqueueFullRefresh(Enqueue([SelectRepo(a, Root) EXCEPT
            !.repo = IF @ = NoRepo THEN Root ELSE @], ops))
    BY <1>4 DEF ToplevelFound
  <2> HIDE DEF a, announced
  <2> QED
    BY <1>6, <1>7, <2>1
<1>9. /\ entered \in Controllers /\ entered.refused = Called.refused
      /\ entered.queue = <<>> /\ entered.repo = Root /\ entered.pending = Root
      /\ entered.fresh = Called.fresh /\ entered.reading = Called.reading
      /\ entered.busy /\ ~entered.process
  BY <1>2, <1>3, <1>4 DEF Controllers
<1> HIDE DEF a, announced, entered
<1>10. Core(entered)
  BY <1>2, <1>4, <1>9, EmptySeq DEF Core
<1>11. ops \in Seq(Orders(Root))
  BY <1>4, OrderedIs, ShortQueues DEF Kinds, QuietKinds
<1> HIDE DEF ops
<1> DEFINE e == [entered EXCEPT !.queue = @ \o ops]
<1>12. Enqueue(entered, ops) = e
  BY <1>9 DEF Enqueue
<1>13. Core(e) /\ Stays(entered, e) /\ e.busy /\ ~e.process
  BY <1>4, <1>9, <1>10, <1>11, Appended
<1> HIDE DEF e
<1>14. InCall(ToplevelFound) /\ Stays(e, ToplevelFound) /\ ToplevelFound.queue # <<>>
  BY <1>4, <1>8, <1>9, <1>12, <1>13, Refreshed DEF Stays
<1>15. Target(ToplevelFound) = Root
  BY <1>9, <1>13, <1>14 DEF Target, Stays
<1>16. widget' \in Widgets /\ widget'.prompt = "none" /\ widget'.wanted = Root
  BY <1>1, <1>2, <1>4 DEF Inv, Widgets
<1>17. ToplevelFound.repo = Root
  BY <1>9, <1>13, <1>14 DEF Stays
<1>18. ctl' = PopAndAdvance(ToplevelFound) /\ asks' = asks /\ changes' = changes
  BY <1>1 DEF Resume
<1>19. Rest(ctl') /\ Target(ctl') = Root /\ ctl'.repo = Root /\ ctl'.busy
  BY <1>14, <1>15, <1>17, <1>18, Popped
<1>20. Inv'
  <2>1. asks' \in 0 .. MaxAsks /\ changes' \in 0 .. MaxChanges
    BY <1>18 DEF Inv
  <2> QED
    BY <1>16, <1>19, <2>1, RestsAgain
<1>21. Moves
  BY <1>1, <1>4, <1>16, <1>19, CalledIs DEF Moves
<1> QED
  BY <1>20, <1>21

LEMMA ToplevelEmptyKeeps == ASSUME Inv, ToplevelEmpty PROVE Inv' /\ Moves
<1>1. /\ ctl.process /\ ctl.current.kind = "Toplevel" /\ Resume(Called)
      /\ UNCHANGED widget
  BY DEF ToplevelEmpty, Ends
<1>2. /\ Core(Called) /\ Called.busy /\ ~Called.process /\ Called.repo = NoRepo
      /\ Called \in Controllers /\ widget.prompt = "none"
  BY <1>1, CalledIs DEF Core
<1>3. InCall(Called)
  BY <1>2 DEF InCall, Awaited
<1>4. Rest(PopAndAdvance(Called)) /\ PopAndAdvance(Called).repo = NoRepo
  BY <1>2, <1>3, Popped
<1>5. /\ ctl' = PopAndAdvance(Called) /\ widget' = widget
      /\ asks' \in 0 .. MaxAsks /\ changes' \in 0 .. MaxChanges
  BY <1>1 DEF Resume, Inv
<1>6. widget' \in Widgets /\ widget'.prompt = "none" /\ widget'.wanted = widget.wanted
  BY <1>2, <1>5 DEF Inv
<1>7. ctl'.repo = ctl.repo
  BY <1>1, <1>4, <1>5, CalledIs
<1> QED
  BY <1>4, <1>5, <1>6, <1>7, RestsAgain, Unmoved

LEMMA ToplevelFailsKeeps == ASSUME Inv, ToplevelFails PROVE Inv' /\ Moves
<1> DEFINE c == [Called EXCEPT !.repo = NoRepo, !.listed = {}, !.state = "Error",
                               !.failed = TRUE]
<1>1. /\ ctl.process /\ ctl.current.kind = "Toplevel" /\ Reported(PopAndAdvance(c))
  BY DEF ToplevelFails, Ends
<1>2. /\ Core(Called) /\ Called.busy /\ ~Called.process /\ Called.repo = NoRepo
      /\ Called \in Controllers /\ widget.prompt = "none"
  BY <1>1, CalledIs DEF Core
<1>3. /\ c \in Controllers /\ c.refused = Called.refused /\ c.queue = Called.queue
      /\ c.repo = NoRepo /\ c.pending = Called.pending /\ c.fresh = Called.fresh
      /\ c.reading = Called.reading /\ c.busy /\ ~c.process /\ c.listed = {}
  BY <1>2 DEF Controllers
<1> HIDE DEF c
<1>4. InCall(c)
  BY <1>2, <1>3 DEF InCall, Core, Awaited
<1>5. Rest(PopAndAdvance(c)) /\ PopAndAdvance(c).repo = NoRepo
  BY <1>3, <1>4, Popped
<1>6. /\ ctl' = PopAndAdvance(c) /\ widget' = [widget EXCEPT !.pushAfterPull = FALSE]
      /\ asks' \in 0 .. MaxAsks /\ changes' \in 0 .. MaxChanges
  BY <1>1 DEF Reported, Inv
<1>7. widget' \in Widgets /\ widget'.prompt = "none" /\ widget'.wanted = widget.wanted
  BY <1>2, <1>6 DEF Inv, Widgets
<1>8. ctl'.repo = ctl.repo
  BY <1>1, <1>5, <1>6, CalledIs
<1> QED
  BY <1>5, <1>6, <1>7, <1>8, RestsAgain, Unmoved

LEMMA SubmodulesKeep == ASSUME Inv, SubmodulesOk PROVE Inv' /\ Moves
<1>1. PICK found \in SUBSET Subs :
        LET listed == ctl.listed \union found IN
        /\ Resume(SelectRepo([Called EXCEPT !.listed = listed], Pick(listed)))
        /\ widget' = [widget EXCEPT !.wanted = Pick(listed)]
  BY DEF SubmodulesOk
<1> DEFINE listed == ctl.listed \union found
           c == [Called EXCEPT !.listed = listed]
           r == Pick(listed)
<1>2. /\ InCall(Called) /\ Called \in Controllers /\ ctl.repo \in Repos
      /\ ctl.repo # NoRepo /\ Called.repo = ctl.repo
      /\ widget \in Widgets /\ widget.prompt = "none"
  BY CommandEnds DEF SubmodulesOk, Ends
<1>3. listed \subseteq Repos
  BY CalledIs, <1>2 DEF SubmodulesOk, Ends, Controllers, Repos
<1>4. r \in Repos
  BY <1>3 DEF Pick, Repos
<1>5. /\ c \in Controllers /\ c.refused = Called.refused /\ c.queue = Called.queue
      /\ c.repo = Called.repo /\ c.pending = Called.pending /\ c.reading = Called.reading
      /\ c.fresh = Called.fresh /\ c.view = Called.view /\ c.failed = Called.failed
      /\ c.timer = Called.timer /\ c.scheduled = Called.scheduled
      /\ c.busy = Called.busy /\ c.process = Called.process
  BY <1>2, <1>3 DEF Controllers
<1> HIDE DEF listed, c, r
<1>6. InCall(c)
  BY <1>2, <1>5, Alike
<1>7. /\ InCall(SelectRepo(c, r)) /\ Target(SelectRepo(c, r)) = r
      /\ SelectRepo(c, r).repo = ctl.repo
  BY <1>2, <1>4, <1>5, <1>6, Selected DEF InCall
<1>8. widget' = [widget EXCEPT !.wanted = r] /\ Resume(SelectRepo(c, r))
  BY <1>1 DEF listed, c, r
<1>9. widget' \in Widgets /\ widget'.prompt = "none" /\ widget'.wanted = r
  BY <1>2, <1>4, <1>8 DEF Widgets
<1>10. ctl.busy
  BY CommandEnds DEF SubmodulesOk, Ends
<1> QED
  BY <1>2, <1>4, <1>7, <1>8, <1>9, <1>10, Resumed

LEMMA RefsKeep == ASSUME Inv, RefsOk PROVE Inv' /\ Moves
<1>1. PICK empty \in BOOLEAN : Resume([Called EXCEPT !.empty = empty])
  BY DEF RefsOk
<1> DEFINE c == [Called EXCEPT !.empty = empty]
<1>2. /\ InCall(Called) /\ Called \in Controllers /\ ctl.repo # NoRepo
      /\ Called.repo = ctl.repo
      /\ Target(Called) = widget.wanted /\ widget \in Widgets /\ widget.prompt = "none"
      /\ widget' = widget
  BY CommandEnds DEF RefsOk, Ends
<1>3. /\ c \in Controllers /\ c.refused = Called.refused /\ c.queue = Called.queue
      /\ c.repo = Called.repo /\ c.pending = Called.pending /\ c.reading = Called.reading
      /\ c.fresh = Called.fresh /\ c.view = Called.view /\ c.failed = Called.failed
      /\ c.timer = Called.timer /\ c.scheduled = Called.scheduled
      /\ c.busy = Called.busy /\ c.process = Called.process
  BY <1>2 DEF Controllers
<1>4. Resume(c)
  BY <1>1
<1> HIDE DEF c
<1>5. InCall(c) /\ Target(c) = Target(Called)
  BY <1>2, <1>3, Alike
<1> QED
  BY <1>2, <1>3, <1>4, <1>5, Resumed

LEMMA StatusKeeps == ASSUME Inv, StatusOk PROVE Inv' /\ Moves
<1> DEFINE c == [Called EXCEPT !.view = ctl.current.repo, !.fresh = ctl.reading]
           ops == <<Op("NumstatUnstaged", ctl.repo)>>
                    \o (IF ctl.empty THEN <<>> ELSE <<Op("NumstatStaged", ctl.repo)>>)
<1>1. /\ ctl.process /\ ctl.current.kind = "Status" /\ Resume(StatusShown)
      /\ widget' = widget
  BY DEF StatusOk, Ends
<1>2. /\ Core(Called) /\ Called.busy /\ ~Called.process /\ Called \in Controllers
      /\ widget.prompt = "none" /\ ctl.repo \in Repos /\ ctl.current.repo = ctl.repo
      /\ Called.repo = ctl.repo /\ Called.reading = ctl.reading /\ Stays(ctl, Called)
      /\ Awaited(Called) \/ ctl.reading
  BY <1>1, CalledIs DEF Core
<1>3. StatusShown = Enqueue(c, ops)
  BY DEF StatusShown
<1>4. ops \in Seq(Orders(ctl.repo))
  <2>1. /\ Op("NumstatUnstaged", ctl.repo) \in Orders(ctl.repo)
        /\ Op("NumstatStaged", ctl.repo) \in Orders(ctl.repo)
    BY <1>2, OrderedIs DEF Kinds, BestEffortKinds
  <2>2. /\ <<Op("NumstatUnstaged", ctl.repo)>> \in Seq(Orders(ctl.repo))
        /\ <<Op("NumstatStaged", ctl.repo)>> \in Seq(Orders(ctl.repo))
        /\ <<>> \in Seq(Orders(ctl.repo))
    BY <2>1, ShortQueues
  <2>3. CASE ctl.empty
    BY <2>2, <2>3, Joined
  <2>4. CASE ~ctl.empty
    BY <2>2, <2>4, Joined
  <2> QED
    BY <2>3, <2>4
<1>5. Called.reading \in BOOLEAN
  BY <1>2 DEF Controllers
<1>6. /\ c \in Controllers /\ c.refused = Called.refused /\ c.queue = Called.queue
      /\ c.repo = Called.repo /\ c.pending = Called.pending /\ c.reading = Called.reading
      /\ c.fresh = Called.reading /\ c.view = Called.repo /\ c.failed = Called.failed
      /\ c.timer = Called.timer /\ c.scheduled = Called.scheduled
      /\ c.busy = Called.busy /\ c.process = Called.process /\ c.listed = Called.listed
  BY <1>2, <1>5 DEF Controllers
<1> HIDE DEF c, ops
<1>7. Core(c)
  BY <1>2, <1>6 DEF Core
<1>8. Awaited(c)
  <2>1. CASE Called.reading
    BY <1>6, <2>1 DEF Awaited
  <2>2. CASE ~Called.reading
    BY <1>2, <1>6, <2>2 DEF Awaited, Core
  <2> QED
    BY <2>1, <2>2
<1>9. InCall(StatusShown) /\ Stays(c, StatusShown)
  BY <1>2, <1>3, <1>4, <1>6, <1>7, <1>8, Enqueued
<1>10. ctl.repo # NoRepo
  BY <1>2, ReposAreReal DEF Repos
<1>11. /\ Target(StatusShown) = widget'.wanted /\ widget' \in Widgets /\ widget'.prompt = "none"
       /\ StatusShown.repo = ctl.repo
  BY <1>1, <1>2, <1>6, <1>9, <1>10 DEF Stays, Target, Inv
<1> QED
  BY <1>1, <1>9, <1>10, <1>11, Resumed

\* A callback that only enqueues.
LEMMA EnqueuesKeep ==
  ASSUME Inv, ctl.process, ctl.current.kind \notin {"Toplevel", "Status"},
         NEW ops \in Seq(Orders(ctl.repo)), Resume(Enqueue(Called, ops)), widget' = widget
  PROVE  Inv' /\ Moves
<1>1. /\ InCall(Called) /\ Core(Called) /\ Called.busy /\ ~Called.process /\ Awaited(Called)
      /\ ctl.repo \in Repos /\ ctl.repo # NoRepo /\ Called.repo = ctl.repo
      /\ Target(Called) = widget.wanted /\ widget \in Widgets /\ widget.prompt = "none"
  BY CommandEnds DEF InCall
<1>2. InCall(Enqueue(Called, ops)) /\ Stays(Called, Enqueue(Called, ops))
  BY <1>1, Enqueued
<1> QED
  BY <1>1, <1>2, Resumed DEF Stays, Target

LEMMA NumstatKeeps == ASSUME Inv, NumstatOk PROVE Inv' /\ Moves
<1>1. /\ ctl.process /\ ctl.current.kind \notin {"Toplevel", "Status"} /\ widget' = widget
  BY DEF NumstatOk, Ends
<1>2. PICK probes \in {<<>>} \union (IF LastNumstat
                                    THEN {<<Op("SubmoduleNumstat", ctl.repo)>>} ELSE {}) :
        Resume(Enqueue(Called, probes))
  BY DEF NumstatOk
<1>3. Op("SubmoduleNumstat", ctl.repo) \in Orders(ctl.repo)
  BY <1>1, CommandEnds, OrderedIs DEF Kinds, BestEffortKinds
<1>4. probes \in Seq(Orders(ctl.repo))
  BY <1>2, <1>3, ShortQueues
<1> QED
  BY <1>1, <1>2, <1>4, EnqueuesKeep

LEMMA DiffCachedKeeps == ASSUME Inv, DiffCachedOk PROVE Inv' /\ Moves
<1>1. /\ ctl.process /\ ctl.current.kind \notin {"Toplevel", "Status"} /\ widget' = widget
  BY DEF DiffCachedOk, Ends
<1>2. PICK worktree \in {<<>>, <<Op("DiffWorktree", ctl.repo)>>} :
        Resume(Enqueue(Called, worktree))
  BY DEF DiffCachedOk
<1>3. Op("DiffWorktree", ctl.repo) \in Orders(ctl.repo)
  BY <1>1, CommandEnds, OrderedIs DEF Kinds, AnswerKinds
<1>4. worktree \in Seq(Orders(ctl.repo))
  BY <1>2, <1>3, ShortQueues
<1> QED
  BY <1>1, <1>2, <1>4, EnqueuesKeep

LEMMA GoesOnKeeps == ASSUME Inv, GoesOn PROVE Inv' /\ Moves
<1>1. /\ ctl.process /\ ctl.current.kind \notin {"Toplevel", "Status"} /\ widget' = widget
      /\ Resume(Called)
  BY DEF GoesOn, Ends, BestEffortKinds, AnswerKinds
<1> QED
  BY <1>1, CommandEnds, Resumed

\* A success that changes the content: the refresh is due, whatever else follows.
LEMMA ChangesKeep ==
  ASSUME Inv, ctl.process, ctl.current.kind \notin {"Toplevel", "Status"},
         NEW c, Core(c), c.busy, ~c.process, c.repo = ctl.repo, Target(c) = Target(Called),
         Resume(ScheduleDebouncedRefresh(c)),
         widget' = [widget EXCEPT !.pushAfterPull = FALSE]
  PROVE  Inv' /\ Moves
<1> DEFINE d == ScheduleDebouncedRefresh(c)
<1>1. /\ ctl.repo # NoRepo /\ Target(Called) = widget.wanted
      /\ widget \in Widgets /\ widget.prompt = "none"
  BY CommandEnds
<1>2. /\ Core(d) /\ Awaited(d) /\ Stays(c, d) /\ d.busy = c.busy /\ d.process = c.process
  BY <1>1, Debounced
<1> HIDE DEF d
<1>3. InCall(d) /\ Target(d) = widget.wanted /\ d.repo = ctl.repo
  BY <1>1, <1>2 DEF InCall, Stays, Target
<1>4. widget' \in Widgets /\ widget'.prompt = "none" /\ widget'.wanted = widget.wanted
  BY <1>1 DEF Widgets
<1>5. Resume(d)
  BY DEF d
<1> QED
  BY <1>1, <1>3, <1>4, <1>5, Resumed

LEMMA MutationKeeps == ASSUME Inv, MutationOk PROVE Inv' /\ Moves
<1>1. /\ ctl.process /\ ctl.current.kind \notin {"Toplevel", "Status"}
      /\ widget' = [widget EXCEPT !.pushAfterPull = FALSE]
  BY DEF MutationOk, Ends, MutatingKinds
<1>2. PICK follow \in FollowUps : Resume(MutationDone(follow))
  BY DEF MutationOk
<1>3. /\ Core(Called) /\ Called.busy /\ ~Called.process /\ ctl.repo \in Repos
      /\ Called.repo = ctl.repo
  BY <1>1, CommandEnds DEF InCall
<1> DEFINE push == [Op("Push", ctl.repo) EXCEPT !.recovery = TRUE]
           ops == follow \o Recovery
           c == Changed(Called)
           d == [c EXCEPT !.queue = @ \o ops]
<1>4. ops \in Seq(Orders(ctl.repo))
  <2>1. /\ Op("Config", ctl.repo) \in Orders(ctl.repo) /\ Op("Push", ctl.repo) \in Orders(ctl.repo)
        /\ push \in Orders(ctl.repo)
    BY <1>3, OrderedIs DEF Kinds, MutatingKinds
  <2>2. /\ <<Op("Config", ctl.repo), Op("Config", ctl.repo)>> \in Seq(Orders(ctl.repo))
        /\ <<Op("Push", ctl.repo), Op("Push", ctl.repo)>> \in Seq(Orders(ctl.repo))
        /\ <<>> \in Seq(Orders(ctl.repo)) /\ <<push>> \in Seq(Orders(ctl.repo))
    BY <2>1, ShortQueues
  <2>3. follow \in Seq(Orders(ctl.repo))
    <3>1. CASE ctl.current.kind = "Create"
      BY <1>2, <2>2, <3>1 DEF FollowUps
    <3>2. CASE ctl.current.kind = "Rename"
      BY <1>2, <2>2, <3>2 DEF FollowUps
    <3>3. CASE ctl.current.kind \notin {"Create", "Rename"}
      BY <1>2, <2>2, <3>3 DEF FollowUps
    <3> QED
      BY <3>1, <3>2, <3>3
  <2>4. Recovery \in Seq(Orders(ctl.repo))
    BY <2>2 DEF Recovery
  <2> QED
    BY <2>3, <2>4, Joined
<1>5. /\ Core(c) /\ Stays(Called, c) /\ c.busy /\ ~c.process
  BY <1>3, ChangedIs
<1> HIDE DEF c, ops
<1>6. MutationDone(follow) = ScheduleDebouncedRefresh(d)
  BY <1>5 DEF MutationDone, Enqueue, c, ops
<1>7. Core(d) /\ Stays(c, d) /\ d.busy /\ ~d.process
  <2>1. c.repo \in Repos /\ ops \in Seq(Orders(c.repo))
    BY <1>3, <1>4, <1>5 DEF Stays
  <2>2. Core(d) /\ Stays(c, d) /\ d.busy = c.busy /\ d.process = c.process
    BY <1>5, <2>1, Appended
  <2> QED
    BY <1>5, <2>2
<1> HIDE DEF d
<1>8. d.repo = ctl.repo /\ Target(d) = Target(Called)
  BY <1>3, <1>5, <1>7 DEF Stays, Target
<1> QED
  BY <1>1, <1>2, <1>6, <1>7, <1>8, ChangesKeep

LEMMA PullConflictsKeep == ASSUME Inv, PullConflicts PROVE Inv' /\ Moves
<1> DEFINE c == Changed(Called)
           d == [c EXCEPT !.state = "Idle"]
<1>1. /\ ctl.process /\ ctl.current.kind \notin {"Toplevel", "Status"}
      /\ Resume(ScheduleDebouncedRefresh(d))
      /\ widget' = [widget EXCEPT !.pushAfterPull = FALSE]
  BY DEF PullConflicts, Ends
<1>2. /\ Core(Called) /\ Called.busy /\ ~Called.process /\ Called.repo = ctl.repo
  BY <1>1, CommandEnds DEF InCall
<1>3. /\ Core(c) /\ Stays(Called, c) /\ c.busy /\ ~c.process
  BY <1>2, ChangedIs
<1> HIDE DEF c
<1>4. /\ d \in Controllers /\ d.refused = c.refused /\ d.queue = c.queue
      /\ d.repo = c.repo /\ d.pending = c.pending /\ d.fresh = c.fresh
      /\ d.reading = c.reading /\ d.busy = c.busy /\ d.process = c.process
      /\ d.listed = c.listed
  BY <1>3 DEF Core, Controllers
<1> HIDE DEF d
<1>5. Core(d)
  BY <1>3, <1>4 DEF Core
<1>6. d.repo = ctl.repo /\ Target(d) = Target(Called)
  BY <1>2, <1>3, <1>4 DEF Stays, Target
<1> QED
  BY <1>1, <1>3, <1>4, <1>5, <1>6, ChangesKeep

\* A prompt opens inside the callback.
LEMMA PromptsKeep ==
  ASSUME Inv, PullDiverges \/ PushRejected
  PROVE  Inv' /\ Moves
<1> DEFINE c == [Called EXCEPT !.state = "Idle"]
<1>1. /\ ctl.process /\ ctl.current.kind \notin {"Toplevel", "Status"}
      /\ ctl' = c /\ asks' = asks /\ changes' = changes
  BY DEF PullDiverges, PushRejected, Ends
<1>2. /\ InCall(Called) /\ Called \in Controllers /\ ctl.repo \in Repos
      /\ ctl.repo # NoRepo /\ Called.repo = ctl.repo /\ ctl.current.repo = ctl.repo
      /\ Called.current = ctl.current
      /\ Target(Called) = widget.wanted /\ widget \in Widgets
  BY <1>1, CommandEnds
<1>3. /\ c \in Controllers /\ c.refused = Called.refused /\ c.queue = Called.queue
      /\ c.repo = Called.repo /\ c.pending = Called.pending /\ c.reading = Called.reading
      /\ c.fresh = Called.fresh /\ c.view = Called.view /\ c.failed = Called.failed
      /\ c.timer = Called.timer /\ c.scheduled = Called.scheduled
      /\ c.busy = Called.busy /\ c.process = Called.process /\ c.current = Called.current
  BY <1>2 DEF Controllers
<1> HIDE DEF c
<1>4. InCall(c) /\ Target(c) = Target(Called)
  BY <1>2, <1>3, Alike
<1>5. widget' \in Widgets /\ widget'.prompt # "none" /\ widget'.wanted = widget.wanted
  <2>1. CASE PullDiverges
    BY <1>2, <2>1 DEF PullDiverges, Widgets
  <2>2. CASE PushRejected
    BY <1>2, <2>2 DEF PushRejected, Widgets
  <2> QED
    BY <2>1, <2>2
<1>6. asks' \in 0 .. MaxAsks /\ changes' \in 0 .. MaxChanges
  BY <1>1 DEF Inv
<1> QED
  BY <1>1, <1>2, <1>3, <1>4, <1>5, <1>6, PromptStays, Unmoved

\* A command fails, times out or is taken for one that did.
LEMMA FailuresKeep ==
  ASSUME Inv, Fails \/ TimesOut \/ MarkFound
  PROVE  Inv' /\ Moves
<1>1. /\ ctl.process
      /\ widget' = [widget EXCEPT !.pushAfterPull = FALSE]
      /\ asks' \in 0 .. MaxAsks /\ changes' \in 0 .. MaxChanges
  BY DEF Fails, TimesOut, MarkFound, Ends, Reported, Inv
<1>2. /\ Core(Called) /\ Called.busy /\ ~Called.process /\ Stays(ctl, Called)
      /\ Called \in Controllers /\ widget.prompt = "none"
      /\ ctl.repo # NoRepo => Target(Called) = widget.wanted
      /\ Called.repo = ctl.repo
  BY <1>1, CalledIs DEF Core, Inv, Stays, Target
<1>3. widget' \in Widgets /\ widget'.prompt = "none" /\ widget'.wanted = widget.wanted
  BY <1>1, <1>2 DEF Inv, Widgets
<1>4. ASSUME NEW c, Rest(c), c.repo = NoRepo <=> ctl.repo = NoRepo, Target(c) = Target(Called),
             c.repo \in {ctl.repo, Target(c)}, c.repo # ctl.repo => c.busy, ctl' = c
      PROVE  Inv' /\ Moves
  <2>1. Inv'
    BY <1>1, <1>2, <1>3, <1>4, RestsAgain
  <2>2. Moves
    BY <1>2, <1>3, <1>4 DEF Moves
  <2> QED
    BY <2>1, <2>2
<1>5. CASE Fails
  <2>1. ctl' = Report(Called)
    BY <1>5 DEF Fails, Reported
  <2>2. /\ Rest(Report(Called)) /\ Target(Report(Called)) = Target(Called)
        /\ (Report(Called).repo = NoRepo <=> ctl.repo = NoRepo)
        /\ Report(Called).repo \in {ctl.repo, Target(Called)}
        /\ (Report(Called).repo # ctl.repo => Report(Called).busy)
    BY <1>2, Reporting DEF Stays
  <2> QED
    BY <1>4, <2>1, <2>2
<1>6. CASE TimesOut
  <2> DEFINE c == Report(Called)
             b == c.process /\ ~ctl.remote
             d == [c EXCEPT !.marked = b]
  <2>1. ctl' = d
    BY <1>6 DEF TimesOut, Reported
  <2>2. /\ Rest(c) /\ Target(c) = Target(Called)
        /\ (c.repo = NoRepo <=> ctl.repo = NoRepo)
        /\ c.repo \in {ctl.repo, Target(c)} /\ (c.repo # ctl.repo => c.busy)
    BY <1>2, Reporting DEF Stays
  <2>3. c \in Controllers
    BY <2>2 DEF Rest, Still, Core
  <2>4. b \in BOOLEAN
    BY Zenon
  <2> HIDE DEF b, c
  <2>5. /\ d \in Controllers /\ d.refused = c.refused /\ d.queue = c.queue
        /\ d.repo = c.repo /\ d.pending = c.pending /\ d.reading = c.reading
        /\ d.fresh = c.fresh /\ d.view = c.view /\ d.failed = c.failed
        /\ d.timer = c.timer /\ d.scheduled = c.scheduled
        /\ d.busy = c.busy /\ d.process = c.process /\ d.current = c.current
        /\ d.listed = c.listed
    BY <2>3, <2>4 DEF Controllers
  <2> HIDE DEF d
  <2>6. Core(d) /\ (Awaited(c) => Awaited(d))
    BY <2>2, <2>5 DEF Rest, Still, Core, Awaited
  <2>7. Rest(d) /\ Target(d) = Target(c)
    BY <2>2, <2>5, <2>6 DEF Rest, Still, Target
  <2> QED
    BY <1>4, <2>1, <2>2, <2>5, <2>7
<1>7. CASE MarkFound
  <2> DEFINE c == [Called EXCEPT !.wrongTimeout = TRUE]
  <2>1. ctl' = Report(c)
    BY <1>7 DEF MarkFound, Reported
  <2>2. /\ c \in Controllers /\ c.refused = Called.refused /\ c.queue = Called.queue
        /\ c.repo = Called.repo /\ c.pending = Called.pending /\ c.reading = Called.reading
        /\ c.fresh = Called.fresh /\ c.busy = Called.busy /\ c.process = Called.process
        /\ c.listed = Called.listed
    BY <1>2 DEF Controllers
  <2> HIDE DEF c
  <2>3. Core(c) /\ c.busy /\ ~c.process /\ Target(c) = Target(Called)
    BY <1>2, <2>2 DEF Core, Target
  <2>4. /\ Rest(Report(c)) /\ Target(Report(c)) = Target(c)
        /\ (Report(c).repo = NoRepo <=> c.repo = NoRepo)
        /\ Report(c).repo \in {c.repo, Target(c)}
        /\ (Report(c).repo # c.repo => Report(c).busy)
    BY <2>3, Reporting
  <2> QED
    BY <1>2, <1>4, <2>1, <2>2, <2>3, <2>4 DEF Stays
<1> QED
  BY <1>5, <1>6, <1>7

-----------------------------------------------------------------------------
(* The invariant is inductive.                                             *)

LEMMA InitInv == Init => Inv
<1> SUFFICES ASSUME Init
             PROVE  Inv
  OBVIOUS
<1>1. /\ ctl.repo = NoRepo /\ ctl.listed = {} /\ ctl.busy = TRUE
      /\ ctl.current = Op("Toplevel", NoRepo) /\ ctl.queue = <<>>
      /\ ctl.pending = NoRepo /\ ctl.process = TRUE /\ ctl.refused = FALSE
      /\ ctl.reading = TRUE
  BY DEF Init
<1>2. ctl \in Controllers
  <2>1. Op("Toplevel", NoRepo) \in Ops /\ <<>> \in Seq(Ops)
    BY EmptySeq DEF Ops
  <2> HIDE DEF Op, NoRepo
  <2> QED
    BY <2>1 DEF Init, Controllers
<1>3. widget \in Widgets /\ widget.prompt = "none"
  BY DEF Init, Widgets
<1>4. Core(ctl)
  BY <1>1, <1>2, EmptySeq DEF Core
<1>5. Rest(ctl)
  <2>1. ctl.current.kind = "Toplevel"
    BY <1>1 DEF Op
  <2>2. Still(ctl)
    BY <1>1, <1>4, <2>1 DEF Still
  <2> QED
    BY <1>1, <2>2 DEF Rest, Awaited
<1>6. asks \in 0 .. MaxAsks /\ changes \in 0 .. MaxChanges
  BY ReposAreReal DEF Init
<1> QED
  BY <1>1, <1>3, <1>5, <1>6 DEF Inv

LEMMA StepKeeps == ASSUME Inv, Next PROVE Inv' /\ Moves
<1>1. ASSUME NEW what \in UserOps, Ask(what) PROVE Inv' /\ Moves
  BY <1>1, AskKeeps
<1>2. ASSUME NEW r \in Repos, UserSelects(r) PROVE Inv' /\ Moves
  BY <1>2, SelectsKeeps
<1>3. CASE RefreshAsked
  BY <1>3, RefreshAskedKeeps
<1>4. CASE WatcherFires
  BY <1>4, WatcherKeeps
<1>5. CASE TimerFires
  BY <1>5, TimerKeeps
<1>6. CASE Finishes
  BY <1>6, ToplevelOkKeeps, ToplevelEmptyKeeps, ToplevelFailsKeeps, SubmodulesKeep, RefsKeep, StatusKeeps,
     NumstatKeeps, DiffCachedKeeps, MutationKeeps, GoesOnKeeps, PullConflictsKeep,
     PromptsKeep, FailuresKeep
  DEF Finishes
<1>7. CASE Answer
  BY <1>7, AnswerKeeps
<1> QED
  BY <1>1, <1>2, <1>3, <1>4, <1>5, <1>6, <1>7 DEF Next

LEMMA InvHolds == Inv /\ [Next]_vars => Inv'
<1>1. ASSUME Inv, UNCHANGED vars PROVE Inv'
  BY <1>1 DEF vars, Inv, Rest, Still, InCall, Core, Awaited, Target, HasStatus
<1> QED
  BY <1>1, StepKeeps

LEMMA Invariant == Spec => []Inv
BY InitInv, InvHolds, PTL DEF Spec

-----------------------------------------------------------------------------
(* What it implies.                                                        *)

LEMMA CoreHolds == Inv => Core(ctl)
BY DEF Inv, Rest, Still, InCall

LEMMA Typed == Inv => TypeOK
BY CoreHolds DEF Inv, Core, TypeOK

LEMMA Waking == Inv => NoLostWakeup
<1> SUFFICES ASSUME Inv
             PROVE  NoLostWakeup
  OBVIOUS
<1>1. ctl \in Controllers /\ ~ctl.refused /\ ctl.current \in Ops
  BY CoreHolds DEF Core, Controllers
<1>2. ctl.current.kind \in Kinds
  BY <1>1 DEF Ops, Op, Kinds, QuietKinds
<1>3. ctl.process <=> (ctl.busy /\ widget.prompt = "none")
  BY DEF Inv, Rest, Still, InCall
<1>4. ~ctl.busy => ctl.queue = <<>>
  BY DEF Inv, Rest, Still, InCall
<1> QED
  BY <1>1, <1>2, <1>3, <1>4 DEF NoLostWakeup

LEMMA Single == Inv => OneRepository
<1> SUFFICES ASSUME Inv, ctl.current.kind # "Toplevel"
             PROVE  /\ \A i \in DOMAIN ctl.queue : ctl.queue[i].repo = ctl.repo
                    /\ ctl.busy => ctl.current.repo = ctl.repo
  BY DEF OneRepository
<1>1. ctl.queue \in Seq(Orders(ctl.repo))
  BY CoreHolds DEF Core
<1>2. \A i \in DOMAIN ctl.queue : ctl.queue[i] \in Orders(ctl.repo)
  BY <1>1
<1>3. ctl.busy => ctl.current.repo = ctl.repo
  BY DEF Inv, Rest, Still
<1> QED
  BY <1>2, <1>3 DEF Orders

LEMMA Latest == Inv => LatestRepoWins
BY DEF Inv, Rest, Still, InCall, Target, LatestRepoWins

LEMMA Coming == Inv => StaleIsRefreshed
<1> SUFFICES ASSUME Inv, ctl.repo # NoRepo
             PROVE  Fresh \/ ctl.failed \/ StatusComing
  BY DEF StaleIsRefreshed
<1>1. Awaited(ctl) \/ (ctl.process /\ ctl.current.kind = "Status" /\ ctl.reading)
  BY DEF Inv, Rest, Still, InCall
<1> QED
  BY <1>1 DEF Awaited, HasStatus, Fresh, StatusComing

-----------------------------------------------------------------------------
(* The repository on show, and the ones selected.                          *)

\* Nothing is selected before a repository has been found.
Unfound == ctl.repo = NoRepo => widget.wanted = NoRepo

LEMMA UnfoundHolds ==
  /\ Init => Unfound
  /\ Inv /\ Unfound /\ [Next]_vars => Unfound'
<1>1. Init => Unfound
  BY DEF Init, Unfound
<1>2. ASSUME Inv, Unfound, Next PROVE Unfound'
  BY <1>2, StepKeeps DEF Moves, Unfound
<1>3. ASSUME Unfound, UNCHANGED vars PROVE Unfound'
  BY <1>3 DEF vars, Unfound
<1> QED
  BY <1>1, <1>2, <1>3

\* At rest the repository on show is the one selected last.
LEMMA RestShows == Inv /\ Unfound /\ ~ctl.busy => ctl.repo = widget.wanted
BY DEF Inv, Unfound, Rest, Still, InCall, Target

\* Every step is one of RepoChoice, or moves nothing of it.
LEMMA StepShows ==
  ASSUME Inv, Inv', Unfound, Unfound', [Next]_vars
  PROVE  [Shown!Next]_(Shown!vars)
<1>1. CASE Next
  <2>1. Moves
    BY <1>1, StepKeeps
  <2>2. ~ctl'.busy => ctl'.repo = widget'.wanted
    BY RestShows DEF Inv, Unfound, Rest, Still, InCall, Target
  <2>3. CASE widget'.wanted = widget.wanted
    <3>1. Shown!Work
      BY <2>1, <2>3 DEF Moves, Shown!Work
    <3> QED
      BY <2>1, <2>2, <3>1 DEF Moves, Shown!Next
  <2>4. CASE widget'.wanted # widget.wanted
    <3>1. widget'.wanted \in Repos /\ Shown!Choose(widget'.wanted)
      BY <2>1, <2>4 DEF Moves, Shown!Choose
    <3> QED
      BY <2>1, <2>2, <3>1 DEF Moves, Shown!Next
  <2> QED
    BY <2>3, <2>4
<1>2. CASE UNCHANGED vars
  BY <1>2 DEF vars, Shown!vars
<1> QED
  BY <1>1, <1>2

-----------------------------------------------------------------------------
(* The theorems.                                                           *)

\* The types of the controller, its queue and the tab that listens to it.
THEOREM QueueTyped == Spec => []TypeOK
BY Invariant, Typed, PTL

\* One command at a time, and nothing waits in a queue that nobody will serve.
THEOREM QueueWakes == Spec => []NoLostWakeup
BY Invariant, Waking, PTL

\* Every command queued or running is of the repository on show.
THEOREM QueueIsOfOneRepository == Spec => []OneRepository
BY Invariant, Single, PTL

\* Once the queue has drained the repository on show is the last one selected.
THEOREM QueueShowsTheLatest == Spec => []LatestRepoWins
BY Invariant, Latest, PTL

\* A view that is old has a refresh coming, or an error that says why not.
THEOREM QueueRefreshes == Spec => []StaleIsRefreshed
BY Invariant, Coming, PTL

\* The controller keeps to RepoChoice, whatever commands, prompts, failures and
\* choices it is in the middle of.
THEOREM ShownImplemented == Spec => ShownSpec
<1>1. Init => Shown!Init
  BY DEF Init, Shown!Init
<1>2. Spec => []Unfound
  BY Invariant, UnfoundHolds, PTL DEF Spec
<1>3. Inv /\ Inv' /\ Unfound /\ Unfound' /\ [Next]_vars => [Shown!Next]_(Shown!vars)
  BY StepShows
<1> QED
  BY <1>1, <1>2, <1>3, Invariant, PTL DEF Spec, ShownSpec, Shown!Spec

=============================================================================
