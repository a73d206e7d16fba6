--------------------------- MODULE RemoteTransfers ---------------------------
(***************************************************************************)
(* RemoteTransferManager: a queue of downloads and uploads, one active at  *)
(* a time, driven by the callbacks of the calls it has under way.          *)
(*                                                                         *)
(* A method of the manager changes many fields and calls the next method,  *)
(* so the manager is one record m and a method is an operator from a       *)
(* record to the set of records it may leave.  Every call under way names  *)
(* the transfer it was made for; its callback knows no more than the       *)
(* code's does: it tests m_cancelled and acts on the fields.               *)
(*                                                                         *)
(* A transfer names some Paths; a path is a file, or a directory with up   *)
(* to MaxFiles files, and its entries are <<transfer, path, index>>.       *)
(* Sizes, progress figures, .partial names, bytes and the tar command are  *)
(* left out, and so is the removal of the temporary archives.              *)
(***************************************************************************)
EXTENDS Integers, FiniteSets, SequencesExt, Bags

CONSTANTS
  MaxTransfers, \* bound: transfers the user asks for
  Paths,        \* what a transfer names
  MaxFiles,     \* bound: files below a path
  MaxCloses,    \* bound: times the transfer log is closed
  MaxBreaks     \* bound: lost connections, and new managers

\* Transfers are numbered in the order they are asked for.
Transfers == 1 .. MaxTransfers
Entries == Transfers \X Paths \X (1 .. MaxFiles)
Folders == Transfers \X Paths

\* downloadFile; downloadRecursive without and with .gitignore; uploadFiles and
\* uploadFolder with conflict detection and with "Overwrite All".
Walked == {"tree", "filtered"}
Sending == {"upload", "overwrite"}
TransferKinds == {"file"} \union Walked \union Sending

ASSUME BoundsAreReal ==
  /\ MaxTransfers \in Nat
  /\ Paths # {} /\ IsFiniteSet(Paths)
  /\ MaxFiles \in Nat \ {0} /\ MaxCloses \in Nat /\ MaxBreaks \in Nat

-----------------------------------------------------------------------------
VARIABLES
  m,        \* the manager, the calls it has under way and the transfer log
  there,    \* the paths whose files an upload finds on the server
  closes,   \* times the log was closed so far
  breaks    \* connections lost, backends destroyed and managers replaced

vars == <<m, there, closes, breaks>>

\* A call under way, what for and about which folder, entry or transfer: those that
\* gather what there is to do, and those that do it.
FolderKinds == {"parent", "find", "listing", "ignore", "scan"}
ArchiveKinds == {"probe", "tar", "stream", "extract"}
EntryKinds == {"read", "mkdir", "write"}
Calls == (FolderKinds \X Folders) \union (EntryKinds \X Entries)
         \union (ArchiveKinds \X {<<t>> : t \in Transfers})
NoRead == <<"none">>

\* A manager just made, for the backend of a connected workspace.
NewManager ==
  [backend   |-> TRUE,          \* m_backend is not null
   active    |-> FALSE, cancelled |-> FALSE,
   what      |-> <<>>,          \* the kinds of the transfers asked for so far
   queue     |-> <<>>,
   down      |-> <<>>, idx |-> 1,     \* m_downloadManifest, m_manifestIdx + 1
   up        |-> <<>>, uidx |-> 1,    \* m_uploadManifest, m_uploadIdx + 1
   left      |-> [t \in Transfers |-> 0],  \* pendingDirs, shared by a walk's callbacks
   scans     |-> 0,             \* m_pendingConflictDirs
   listed    |-> {},            \* the folders in m_remoteFileSets with files of ours
   skip      |-> {},            \* entries to skip, none if all are overridden
   created   |-> {},            \* m_createdDirs
   reading   |-> NoRead,        \* the call of m_currentReadReqId, if m_hasCurrentRead
   tar       |-> "unknown",     \* m_tarProbed, m_tarAvailable
   calls     |-> EmptyBag,      \* the callbacks still to come
   listeners |-> 0,             \* single-shot connections to uploadConflictsDetected
   dialogs   |-> <<>>,          \* the conflict dialogs being shown, the one on top first,
                                \* each by the entries it asks about
   log       |-> "none",        \* the log: none, live (closing it cancels) or idle
   \* observers
   ended     |-> [t \in Transfers |-> "no"],
   told      |-> [e \in Entries |-> 0],    \* verdicts the user was given of each entry
   blind     |-> {},            \* folders whose conflict listing failed
   answered  |-> FALSE,         \* a conflict dialog was accepted
   unheard   |-> FALSE,         \* conflicts were found and nobody accepted
   untold    |-> {},            \* entries of completed transfers without their one verdict
   crossed   |-> FALSE,         \* a callback acted for a transfer that is not the head
   wrecked   |-> FALSE]         \* removeFirst() or front() of an empty queue

-----------------------------------------------------------------------------
(* The queue.                                                              *)

Make(s, kind, subjects) ==
  [s EXCEPT !.calls = @ (+) SetToBag({<<kind, x>> : x \in subjects})]

\* progressUpdated: the dock brings up the log, connected to this manager.
Shown(s) == [s EXCEPT !.log = IF @ = "none" THEN "live" ELSE @]

\* What startNextTransfer resets.
Fresh(s) ==
  [s EXCEPT !.active = TRUE, !.cancelled = FALSE,
            !.down = <<>>, !.idx = 1, !.up = <<>>, !.uidx = 1,
            !.scans = 0, !.listed = {}, !.skip = {}, !.created = {},
            !.told = [e \in Entries |-> 0], !.blind = {},
            !.answered = FALSE, !.unheard = FALSE]

\* downloadNextFile with a file to read.
Read(s, e) == Shown(Make([s EXCEPT !.reading = <<"read", e>>], "read", {e}))

\* The entries a path turns out to hold.
Found(f, n) == [i \in 1 .. n |-> <<f[1], f[2], i>>]
FolderOf(e) == <<e[1], e[2]>>

\* buildUploadManifest finds sizes[p] files below p.  The order of the walk is the
\* file system's.
LocalManifest(t, sizes) == SetToSeq({e \in Entries : e[1] = t /\ e[3] <= sizes[e[2]]})

\* startUpload with something to send: detect the conflicts, or begin to send.
BeginUpload(s, t) ==
  LET manifests == {LocalManifest(t, sizes) : sizes \in [Paths -> 0 .. MaxFiles]} \ {<<>>}
      dirs(es) == {FolderOf(es[i]) : i \in DOMAIN es}
  IN {IF s.what[t] = "overwrite"
      THEN Shown(Make([s EXCEPT !.up = es], "mkdir", {es[1]}))
      ELSE Shown(Make([s EXCEPT !.up = es, !.scans = Cardinality(dirs(es))],
                      "scan", dirs(es))) : es \in manifests}

Begin(s) ==
  LET t == Head(s.queue)
      file == <<t, CHOOSE p \in Paths : TRUE, 1>>
  IN CASE s.what[t] = "file"    -> {Read([s EXCEPT !.down = <<file>>], file)}
       [] s.what[t] \in Walked  -> {Shown(Make([s EXCEPT !.left[t] = Cardinality(Paths)],
                                              "parent", {t} \X Paths))}
       [] s.what[t] \in Sending -> BeginUpload(s, t)

\* startNextTransfer: uploads that find nothing to send complete at once, and
\* without a backend every transfer fails at once.
End(s, ts, how) ==
  [s EXCEPT !.ended = [t \in Transfers |-> IF t \in ts THEN how ELSE @[t]]]
StartNext(s) ==
  IF s.queue = <<>> THEN {[s EXCEPT !.active = FALSE]}
  ELSE IF ~s.backend
  THEN {[End(Fresh(s), ToSet(s.queue), "failed") EXCEPT !.queue = <<>>, !.active = FALSE]}
  ELSE UNION {LET empty == ToSet(SubSeq(s.queue, 1, k))
                  next == [Fresh(End(s, empty, "completed")) EXCEPT
                             !.queue = SubSeq(@, k + 1, Len(@))]
              IN IF next.queue = <<>>
                 THEN {[Shown(next) EXCEPT !.active = FALSE, !.log = "idle"]}
                 ELSE Begin(next) :
              k \in {j \in 0 .. Len(s.queue) :
                      \A i \in 1 .. j : s.what[s.queue[i]] \in Sending}}

Pop(s, how) ==
  IF s.queue = <<>> THEN [s EXCEPT !.wrecked = TRUE]
  ELSE [End(s, {Head(s.queue)}, how) EXCEPT !.queue = Tail(@)]

\* The last file of a manifest is through.
Finish(s, manifest) ==
  LET verdicts(e) == IF e \in s.skip THEN 0 ELSE 1
      wrong == {e \in ToSet(manifest) : s.told[e] # verdicts(e)}
      over == [Pop(s, "completed") EXCEPT !.untold = @ \union wrong, !.log = "idle"]
  IN IF over.wrecked THEN {over} ELSE StartNext(over)

\* Wrong variant: the queue stops at a failure.
StopsHere(s) == {[Pop(s, "failed") EXCEPT !.active = FALSE]}
\* Wrong variant: the head that failed stays in the queue.
HeadStays(s) == StartNext([End(s, {Head(s.queue)}, "failed") EXCEPT !.active = FALSE])
\* The transfer is given up with an error.
GiveUp(s) ==
  LET over == [Pop(s, "failed") EXCEPT !.active = FALSE]
  IN IF over.wrecked THEN {over} ELSE StartNext(over)

Tell(s, e) == [s EXCEPT !.told[e] = @ + 1]

-----------------------------------------------------------------------------
(* Downloads.                                                              *)

\* Wrong variant: the last file is taken for the end.
LastIsEnd(s) ==
  IF s.cancelled THEN {s}
  ELSE IF s.idx >= Len(s.down) THEN Finish(s, s.down)
  ELSE {Read(s, s.down[s.idx])}
NextFile(s) ==
  IF s.cancelled THEN {s}
  ELSE IF ~s.backend THEN {[s EXCEPT !.active = FALSE]}
  ELSE IF s.idx > Len(s.down) THEN Finish(s, s.down)
  ELSE {Read(s, s.down[s.idx])}

CreateArchive(s, t) == {Shown(Make(s, "tar", {<<t>>}))}

DownloadViaArchive(s, t) ==
  CASE s.tar = "yes"     -> CreateArchive(s, t)
    [] s.tar = "no"      -> NextFile(s)
    [] s.tar = "unknown" -> {Make(s, "probe", {<<t>>})}

WalkDone(s, t) ==
  CASE s.down = <<>>    -> Finish(s, <<>>)
    [] Len(s.down) = 1  -> NextFile(s)
    [] Len(s.down) >= 2 -> DownloadViaArchive(s, t)

Gain(s, f, n) == [s EXCEPT !.down = @ \o Found(f, n)]

\* A callback of the walk of t is through, having added calls more.
Counted(s, t, more) ==
  LET next == [s EXCEPT !.left[t] = @ - 1 + more]
  IN IF next.left[t] = 0 THEN WalkDone(next, t) ELSE {next}

-----------------------------------------------------------------------------
(* Uploads.                                                                *)

\* uploadNextFile from a position of the manifest: past what is to be skipped,
\* and past files that doUpload cannot open, to a folder to make, a file to
\* write or the end.
UploadNext(s) ==
  LET skipped(i) == s.up[i] \in s.skip
      made(i) == FolderOf(s.up[i]) \in s.created
      passed(j) == {s.up[i] : i \in {k \in s.uidx .. j - 1 : ~skipped(k)}}
      at(j) == [s EXCEPT !.uidx = j,
                  !.told = [e \in Entries |-> IF e \in passed(j) THEN @[e] + 1 ELSE @[e]]]
      reach == {j \in s.uidx .. Len(s.up) + 1 :
                  \A i \in s.uidx .. j - 1 : skipped(i) \/ made(i)}
      from(j) == IF j > Len(s.up) THEN Finish(at(j), s.up)
                 ELSE {Shown(Make(at(j), IF made(j) THEN "write" ELSE "mkdir", {s.up[j]}))}
  IN IF s.cancelled THEN {s}
     ELSE IF ~s.backend THEN {[s EXCEPT !.active = FALSE]}
     ELSE IF s.uidx > Len(s.up) THEN Finish(s, s.up)
     ELSE UNION {from(j) : j \in {k \in reach : k > Len(s.up) \/ ~skipped(k)}}

\* doUpload: the file is written, or it cannot be read.
Upload(s, e) ==
  {Make(s, "write", {e})} \union UploadNext([Tell(s, e) EXCEPT !.uidx = @ + 1])

\* The files of ours that are on the server.
Conflicts(s) == {e \in ToSet(s.up) : FolderOf(e) \in s.listed}

\* The signal calls the first listener, which shows a dialog on top of any that
\* is still up.
ShowDialog(s) ==
  IF s.listeners = 0 THEN [s EXCEPT !.unheard = TRUE]
  ELSE [s EXCEPT !.listeners = @ - 1, !.dialogs = <<Conflicts(s)>> \o @]

\* Wrong variant: with no dialog to show the upload goes on.
GoesOnUnheard(s) ==
  IF Conflicts(s) = {} \/ s.listeners = 0 THEN UploadNext([s EXCEPT !.skip = {}, !.uidx = 1])
  ELSE {ShowDialog(s)}
\* All the listings are in: send, or have the dock ask about the conflicts.
Resolve(s) ==
  IF Conflicts(s) = {} THEN UploadNext([s EXCEPT !.skip = {}, !.uidx = 1])
  ELSE IF s.queue = <<>> THEN {[s EXCEPT !.wrecked = TRUE]}
  ELSE {ShowDialog(s)}

-----------------------------------------------------------------------------
(* The user.                                                               *)

Init ==
  /\ m = NewManager
  /\ there \in SUBSET Paths
  /\ closes = 0 /\ breaks = 0

\* A conflict dialog is modal: the main window and the log take no clicks.
Ask(kind) ==
  /\ m.dialogs = <<>> /\ Len(m.what) < MaxTransfers
  /\ LET s == [m EXCEPT !.what = Append(@, kind), !.queue = Append(@, Len(m.what) + 1),
                        !.listeners = IF kind = "upload" THEN @ + 1 ELSE @]
     IN m' \in IF s.active THEN {s} ELSE StartNext(s)
  /\ UNCHANGED <<there, closes, breaks>>

\* Wrong variant: the transfers behind the head are kept.
KeepsQueue(s, how) ==
  [End(s, {Head(s.queue)}, how) EXCEPT
     !.cancelled = TRUE, !.active = FALSE, !.queue = Tail(@), !.down = <<>>, !.up = <<>>]
\* What cancel() and onConnectionLost share.
Abandon(s, how) ==
  [End(s, ToSet(s.queue), how) EXCEPT
     !.cancelled = TRUE, !.active = FALSE, !.queue = <<>>, !.down = <<>>, !.up = <<>>]

\* cancelReadAsync drops the callback of the read it is given; a read that the
\* backend has posted again goes by another number.
WithoutRead(s) == [s EXCEPT !.calls = @ (-) SetToBag({s.reading}), !.reading = NoRead]

Cancelled(s) ==
  LET over == Abandon(s, "cancelled")
  IN IF s.reading = NoRead \/ ~s.backend THEN {over}
     ELSE {WithoutRead(over)} \union
          (IF s.reading[1] = "read" THEN {[over EXCEPT !.reading = NoRead]} ELSE {})

\* The log is closed: that of an active transfer cancels it.
CloseLog ==
  /\ m.dialogs = <<>> /\ m.log # "none" /\ closes < MaxCloses
  /\ closes' = closes + 1
  /\ LET s == [m EXCEPT !.log = "none"]
     IN m' \in IF m.log = "live" THEN Cancelled(s) ELSE {s}
  /\ UNCHANGED <<there, breaks>>

\* The head of the queue is the upload that the dialog on top asks about.
StillAsked(s) == s.queue # <<>> /\ \A e \in Head(s.dialogs) : e[1] = Head(s.queue)

\* The dialog on top is closed, and the signal that showed it goes on to the next
\* listener: every connection made by a queued upload asks, and is gone.
DialogGone(s) ==
  IF s.listeners > 0 THEN [s EXCEPT !.listeners = @ - 1]
  ELSE [s EXCEPT !.dialogs = Tail(@)]

\* resolveUploadConflicts with the entries to skip; none if all are overridden.
AcceptDialog ==
  /\ m.dialogs # <<>>
  /\ \E skip \in SUBSET Head(m.dialogs) :
       m' \in IF m.cancelled \/ m.queue = <<>> THEN {DialogGone(m)}
              ELSE UploadNext([DialogGone(m) EXCEPT
                     !.skip = skip, !.uidx = 1, !.answered = TRUE, !.unheard = FALSE,
                     !.crossed = @ \/ m.answered \/ ~StillAsked(m)])
  /\ UNCHANGED <<there, closes, breaks>>

DeclineDialog ==
  /\ m.dialogs # <<>>
  /\ m' = [DialogGone(m) EXCEPT
             !.unheard = @ \/ (m.listeners = 0 /\ StillAsked(m) /\ ~m.answered)]
  /\ UNCHANGED <<there, closes, breaks>>

-----------------------------------------------------------------------------
(* The callbacks.  One made for a transfer that has ended is told apart    *)
(* only by m_cancelled, which the next transfer resets.                    *)

Waiting(kind) == {c[2] : c \in {x \in BagToSet(m.calls) : x[1] = kind}}
Taken(kind, x) == [m EXCEPT !.calls = @ (-) SetToBag({<<kind, x>>})]
Acts(s, t) == [s EXCEPT !.crossed = @ \/ s.queue = <<>> \/ Head(s.queue) # t]

\* A call about x is answered: after a cancel its callback leaves dropped(s, x),
\* otherwise one of outcomes(s, x).
Callback(kind, dropped(_, _), outcomes(_, _)) ==
  /\ \E x \in Waiting(kind) :
       LET s == Taken(kind, x)
       IN m' \in IF s.cancelled THEN dropped(s, x) ELSE outcomes(Acts(s, x[1]), x)
  /\ UNCHANGED <<there, closes, breaks>>

Nothing(s, x) == {s}
OneLess(s, f) == {[s EXCEPT !.left[f[1]] = @ - 1]}

\* The parent of a path is listed: the path is not there, or is a file, or a
\* directory to walk.
AfterParent(s, f) ==
  Counted(s, f[1], 0) \union Counted(Gain(s, f, 1), f[1], 0) \union
  Counted(Make(s, IF s.what[f[1]] = "filtered" THEN "listing" ELSE "find", {f}), f[1], 1)
ParentListed == Callback("parent", OneLess, AfterParent)

\* find failed and the directory is listed instead, or it found n files.
AfterFind(s, f) ==
  {Make(s, "listing", {f})} \union
  UNION {Counted(Gain(s, f, n), f[1], 0) : n \in 0 .. MaxFiles}
FindDone == Callback("find", OneLess, AfterFind)

\* Wrong variant: the walk does not wait for the .gitignore.
IgnoreUncounted(s, f) ==
  Counted(s, f[1], 0) \union
  UNION {Counted(Gain(Make(s, "ignore", {f}), f, n), f[1], 0) : n \in 0 .. MaxFiles}
\* The directory is listed, or not; a .gitignore in it is read meanwhile.
AfterListing(s, f) ==
  Counted(s, f[1], 0) \union
  (UNION {Counted(Gain(s, f, n), f[1], 0) : n \in 0 .. MaxFiles}) \union
  (IF s.what[f[1]] = "filtered"
   THEN UNION {Counted(Gain(Make(s, "ignore", {f}), f, n), f[1], 1) : n \in 0 .. MaxFiles}
   ELSE {})
FolderListed == Callback("listing", OneLess, AfterListing)

AfterIgnore(s, f) == Counted(s, f[1], 0)
IgnoreRead == Callback("ignore", OneLess, AfterIgnore)

\* Whether the server has tar is asked once, and kept even after a cancel.
Probed(s) == {[s EXCEPT !.tar = "yes"], [s EXCEPT !.tar = "no"]}
KeepProbe(s, x) == Probed(s)
AfterProbe(s, x) == UNION {DownloadViaArchive(p, x[1]) : p \in Probed(s)}
TarProbed == Callback("probe", KeepProbe, AfterProbe)

\* No archive: file by file.  Else it is streamed, if a local file can be opened.
AfterArchive(s, x) ==
  NextFile(s) \union GiveUp(s) \union
  {Shown(Make([s EXCEPT !.reading = <<"stream", x>>], "stream", {x}))}
ArchiveCreated == Callback("tar", Nothing, AfterArchive)

ReadOver(s, x) == {[s EXCEPT !.reading = NoRead]}
AfterStream(s, x) ==
  LET over == [s EXCEPT !.reading = NoRead]
  IN GiveUp(over) \union
     IF s.down = <<>> THEN {[over EXCEPT !.wrecked = TRUE]}
     ELSE {Shown(Make(over, "extract", {x}))}
ArchiveStreamed == Callback("stream", ReadOver, AfterStream)

\* The local tar ends, after a cancel as well.  One extracted file makes it a
\* success; otherwise the files are read one by one.
AfterExtract(s, x) ==
  NextFile([s EXCEPT !.idx = 1]) \union
  IF s.down = <<>> THEN {}
  ELSE Finish([s EXCEPT !.told = [e \in Entries |->
                  IF e \in ToSet(s.down) THEN @[e] + 1 ELSE @[e]]], s.down)
ExtractDone == Callback("extract", AfterExtract, AfterExtract)

\* Read, or not: the user is told, and the next file is due.
AfterRead(s, e) == NextFile([Tell(s, e) EXCEPT !.reading = NoRead, !.idx = @ + 1])
FileDownloaded == Callback("read", ReadOver, AfterRead)

\* A listing that fails counts as a folder without files.
AfterScan(s, f) ==
  LET listed == [s EXCEPT !.scans = @ - 1,
                          !.listed = IF f[2] \in there THEN @ \union {f} ELSE @]
      failed == [s EXCEPT !.scans = @ - 1, !.blind = @ \union {f}]
  IN IF s.scans = 1 THEN Resolve(listed) \union Resolve(failed) ELSE {listed, failed}
ConflictsListed == Callback("scan", Nothing, AfterScan)

\* mkdir: that it failed is taken to mean that the folder is there.
KeepFolder(s, e) == {[s EXCEPT !.created = @ \union {FolderOf(e)}]}
AfterMkdir(s, e) == UNION {Upload(k, e) : k \in KeepFolder(s, e)}
FolderMade == Callback("mkdir", KeepFolder, AfterMkdir)

AfterWrite(s, e) == UploadNext([Tell(s, e) EXCEPT !.uidx = @ + 1])
FileUploaded == Callback("write", Nothing, AfterWrite)

-----------------------------------------------------------------------------
(* The connection.                                                         *)

\* onConnectionLost: the calls under way are still answered, with a failure.
LoseConnection ==
  /\ breaks < MaxBreaks /\ m.active
  /\ breaks' = breaks + 1
  /\ m' = Abandon(m, "lost")
  /\ UNCHANGED <<there, closes>>

\* The workspace's context is destroyed, with the backend and its callbacks.
LoseBackend ==
  /\ breaks < MaxBreaks /\ m.backend
  /\ breaks' = breaks + 1
  /\ LET s == [m EXCEPT !.backend = FALSE,
                 !.calls = SetToBag({<<"extract", x>> : x \in Waiting("extract")})]
     IN m' = IF s.active THEN Abandon(s, "lost") ELSE s
  /\ UNCHANGED <<there, closes>>

\* A new context connects and the dock makes a new manager.  A log that is up
\* stays connected to the old one.
NewBackend ==
  /\ ~m.backend
  /\ m' = [NewManager EXCEPT !.what = m.what, !.ended = m.ended,
                             !.log = IF m.log = "none" THEN "none" ELSE "idle"]
  /\ UNCHANGED <<there, closes, breaks>>

-----------------------------------------------------------------------------
Answer ==
  \/ ParentListed \/ FindDone \/ FolderListed \/ IgnoreRead
  \/ TarProbed \/ ArchiveCreated \/ ArchiveStreamed \/ ExtractDone
  \/ FileDownloaded \/ ConflictsListed \/ FolderMade \/ FileUploaded
  \/ AcceptDialog \/ DeclineDialog

Next ==
  /\ ~m.wrecked
  /\ \/ \E kind \in TransferKinds : Ask(kind)
     \/ CloseLog \/ Answer
     \/ LoseConnection \/ LoseBackend \/ NewBackend

Spec == Init /\ [][Next]_vars

\* The backend answers every call, an exec ends or times out, a local tar ends
\* and a modal dialog is answered: as long as something is under way, some
\* callback comes.
FairSpec == Spec /\ WF_vars(~m.wrecked /\ Answer)

-----------------------------------------------------------------------------
(* Properties.                                                             *)

\* Every field has its type, and an idle manager has an empty queue: a transfer
\* that is asked for while nothing runs is not left waiting.
TypeOK ==
  /\ {m.backend, m.active, m.cancelled, m.answered, m.unheard, m.crossed, m.wrecked}
       \subseteq BOOLEAN
  /\ m.queue \in Seq(Transfers) /\ m.down \in Seq(Entries) /\ m.up \in Seq(Entries)
  /\ m.idx \in Nat \ {0} /\ m.uidx \in Nat \ {0}
  /\ m.left \in [Transfers -> Int] /\ m.scans \in Int
  /\ m.listed \union m.blind \union m.created \subseteq Folders
  /\ m.skip \union m.untold \subseteq Entries /\ m.dialogs \in Seq(SUBSET Entries)
  /\ m.reading \in Calls \union {NoRead} /\ m.tar \in {"unknown", "yes", "no"}
  /\ IsABag(m.calls) /\ BagToSet(m.calls) \subseteq Calls
  /\ m.listeners \in Nat /\ m.log \in {"none", "live", "idle"}
  /\ m.ended \in [Transfers -> {"no", "completed", "failed", "cancelled", "lost"}]
  /\ m.told \in [Entries -> Nat]
  /\ m.wrecked \/ m.crossed \/ (m.active <=> m.queue # <<>>)
  /\ there \subseteq Paths /\ m.what \in Seq(TransferKinds)
  /\ closes \in 0 .. MaxCloses /\ breaks \in 0 .. MaxBreaks

\* The calls under way for transfer t: those that gather what there is to do,
\* and those that do it.
CallsOf(s, t) == {c \in BagToSet(s.calls) : c[2][1] = t}
Gathering(t) == {c \in CallsOf(m, t) : c[1] \in FolderKinds}
Driving(t) == {c \in CallsOf(m, t) : c[1] \notin FolderKinds}

\* One active transfer at a time, driven by one call at a time: unless a late
\* callback has acted for it, the head of the queue gathers its files, or has
\* exactly one call under way, or waits for the user's answer to its conflicts;
\* never two at once and never none.
OneAtATime ==
  (m.active /\ ~m.crossed /\ ~m.wrecked) =>
    LET t == Head(m.queue) IN
    IF Gathering(t) # {} THEN Driving(t) = {}
    ELSE IF Driving(t) # {}
    THEN \E c \in Driving(t) : Driving(t) = {c} /\ m.calls[c] = 1
    ELSE m.unheard \/ (m.dialogs # <<>> /\ StillAsked(m))

\* A transfer that is reported complete has given each of its files one verdict:
\* transferred or failed, and none at all if the user chose to skip it.
CompletedIsWhole == m.crossed \/ m.untold = {}

\* A file that exists on the server is written over by an upload with conflict
\* detection only if the listing of its folder failed, or the user has accepted
\* a conflict dialog and has not skipped it.
AskedBeforeOverwrite ==
  \A e \in Waiting("write") :
    (/\ m.active /\ ~m.crossed /\ e[1] = Head(m.queue)
     /\ m.what[e[1]] = "upload" /\ e[2] \in there) =>
      \/ FolderOf(e) \in m.blind
      \/ m.answered /\ e \notin m.skip

\* Transfers end once each, in the order they were asked for, even when a late
\* callback has taken one for another: it is then the head that ends.
Queue == INSTANCE TransferQueue WITH
           asked <- Len(m.what), done <- Len(m.what) - Len(m.queue), ended <- m.ended
QueueSpec == Queue!Spec

\* What is asked for ends: again and again every transfer asked for so far has
\* completed or failed, or was ended by the user or the connection; unless its
\* conflicts were accepted by nobody, or a late callback acted for another transfer.
TransfersEnd ==
  []<>((\A t \in DOMAIN m.what : m.ended[t] # "no") \/ m.unheard \/ m.crossed \/ m.wrecked)

\* The head of the queue is the transfer that runs, so ending it finds it there.
HeadIsRunning == ~m.wrecked
=============================================================================
