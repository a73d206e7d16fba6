----------------------- MODULE RemoteTransfers_proofs -----------------------
(***************************************************************************)
(* Theorems about RemoteTransfers, for any number of transfers, paths and  *)
(* files, and any number of cancels and breaks.                            *)
(*                                                                         *)
(* A method of the manager takes a record to a set of records, and so do   *)
(* the facts: whatever a method may leave has its type (Typed), and as     *)
(* long as no late callback has acted, what it leaves is Sane: the head of *)
(* the queue is in one of five stages (Walking, Reading, Archiving,        *)
(* Scanning, Writing) or its user is asked (Asking), and each stage knows  *)
(* the calls under way for it and the verdicts it has given.               *)
(*                                                                         *)
(* The queue itself needs no such excuse: the last section shows that it   *)
(* implements TransferQueue whichever transfer a late callback acts for.   *)
(***************************************************************************)
EXTENDS RemoteTransfers, SequenceFacts

-----------------------------------------------------------------------------
(* The invariant, of a manager s.                                          *)

CallBags == UNION {[D -> Nat \ {0}] : D \in SUBSET Calls}

Types ==
  [backend   |-> BOOLEAN, active |-> BOOLEAN, cancelled |-> BOOLEAN,
   what      |-> Seq(TransferKinds), queue |-> Seq(Transfers),
   down      |-> Seq(Entries), idx  |-> Nat \ {0},
   up        |-> Seq(Entries), uidx |-> Nat \ {0},
   left      |-> [Transfers -> Int], scans |-> Int,
   listed    |-> SUBSET Folders, skip |-> SUBSET Entries, created |-> SUBSET Folders,
   reading   |-> Calls \union {NoRead}, tar |-> {"unknown", "yes", "no"},
   calls     |-> CallBags,
   listeners |-> Nat, dialogs |-> Seq(SUBSET Entries),
   log       |-> {"none", "live", "idle"},
   ended     |-> [Transfers -> {"no", "completed", "failed", "cancelled", "lost"}],
   told      |-> [Entries -> Nat], blind |-> SUBSET Folders,
   answered  |-> BOOLEAN, unheard |-> BOOLEAN, untold |-> SUBSET Entries,
   crossed   |-> BOOLEAN, wrecked |-> BOOLEAN]

Fields == DOMAIN Types

Record(s) == DOMAIN s = Fields /\ s = [f \in Fields |-> s[f]]

\* Every transfer in the queue has been asked for.
Known(s) == \A i \in 1 .. Len(s.queue) : s.queue[i] <= Len(s.what)

Typed(s) == Record(s) /\ Known(s) /\ \A f \in Fields : s[f] \in Types[f]

\* u is s but for the fields F.
Changed(u, s, F) == Record(u) /\ \A f \in Fields \ F : u[f] = s[f]

\* A manifest of transfer t names each of its files once.
Manifest(es, t) ==
  /\ es \in Seq(Entries)
  /\ \A i \in 1 .. Len(es) : es[i][1] = t
  /\ \A i, j \in 1 .. Len(es) : es[i] = es[j] => i = j

\* The verdicts given of the first files of a manifest, and of no other.
Verdicts(s, es, n) ==
  \A i \in 1 .. Len(es) :
    s.told[es[i]] = IF i < n /\ es[i] \notin s.skip THEN 1 ELSE 0

\* No dialog asks about t.
Unasked(s, t) == \A i \in 1 .. Len(s.dialogs) : \A e \in s.dialogs[i] : e[1] # t

\* The walk: one call for each folder that is not through, and the files found are
\* those of the others; n callbacks are still to be counted.
Gathered(s, t, n) ==
  LET C == CallsOf(s, t) IN
  /\ IsFiniteSet(C) /\ s.left[t] = Cardinality(C) + n
  /\ \A c \in C : s.calls[c] = 1 /\ c[1] \in FolderKinds \ {"scan"}
  /\ \A c, d \in C : c[2] = d[2] => c = d
  /\ Manifest(s.down, t) /\ s.idx = 1 /\ s.skip = {} /\ \A e \in Entries : s.told[e] = 0
  /\ \A c \in C, i \in 1 .. Len(s.down) : c[1] # "ignore" => FolderOf(s.down[i]) # c[2]

Walking(s, t) == CallsOf(s, t) # {} /\ Gathered(s, t, 0)

\* One by one, with the next file due, and with one under way.
Downloading(s, t) ==
  /\ CallsOf(s, t) = {} /\ Manifest(s.down, t)
  /\ s.skip = {} /\ s.idx <= Len(s.down) + 1 /\ Verdicts(s, s.down, s.idx)

Reading(s, t) ==
  /\ Manifest(s.down, t) /\ s.skip = {} /\ Verdicts(s, s.down, s.idx)
  /\ s.idx <= Len(s.down) /\ CallsOf(s, t) = {<<"read", s.down[s.idx]>>}

Archiving(s, t) ==
  /\ Manifest(s.down, t) /\ s.idx = 1 /\ s.skip = {} /\ Verdicts(s, s.down, 1)
  /\ s.down # <<>>
  /\ \E kind \in ArchiveKinds : CallsOf(s, t) = {<<kind, <<t>>>>}

\* The conflict listings: of each folder that holds a file of ours on the server one is
\* under way, or its answer is known.
Scanning(s, t) ==
  LET C == CallsOf(s, t) IN
  /\ C # {} /\ IsFiniteSet(C) /\ s.scans = Cardinality(C)
  /\ \A c \in C : c[1] = "scan"
  /\ Manifest(s.up, t) /\ s.uidx = 1 /\ s.skip = {} /\ Verdicts(s, s.up, 1)
  /\ ~s.answered /\ Unasked(s, t)
  /\ \A i \in 1 .. Len(s.up) : s.up[i][2] \in there =>
       FolderOf(s.up[i]) \in s.listed \union s.blind \union {c[2] : c \in C}

Asking(s, t) ==
  /\ CallsOf(s, t) = {}
  /\ Manifest(s.up, t) /\ \A i \in 1 .. Len(s.up) : s.told[s.up[i]] = 0
  /\ ~s.answered /\ (s.unheard \/ (s.dialogs # <<>> /\ StillAsked(s)))

\* What an upload with conflict detection may write over.
Heard(s, t) ==
  s.what[t] = "upload" =>
    s.answered \/ \A i \in 1 .. Len(s.up) : s.up[i][2] \in there => FolderOf(s.up[i]) \in s.blind

\* Likewise an upload, with the next file due and with one under way.
Uploading(s, t) ==
  /\ CallsOf(s, t) = {} /\ Manifest(s.up, t)
  /\ s.uidx <= Len(s.up) + 1 /\ Verdicts(s, s.up, s.uidx)
  /\ Heard(s, t) /\ (s.answered \/ Unasked(s, t))

Writing(s, t) ==
  /\ Manifest(s.up, t) /\ Verdicts(s, s.up, s.uidx)
  /\ s.uidx <= Len(s.up) /\ s.up[s.uidx] \notin s.skip
  /\ \E kind \in {"mkdir", "write"} : CallsOf(s, t) = {<<kind, s.up[s.uidx]>>}
  /\ Heard(s, t) /\ (s.answered \/ Unasked(s, t))

\* The head of the queue, with no call under way twice.
Running(s, t) ==
  /\ \A c \in CallsOf(s, t) : s.calls[c] = 1
  /\ \/ (Walking(s, t) \/ Reading(s, t) \/ Archiving(s, t)) /\ Unasked(s, t)
     \/ Scanning(s, t) \/ Asking(s, t) \/ Writing(s, t)

Untouched(s, t) == CallsOf(s, t) = {} /\ Unasked(s, t)

\* Whatever runs.
Kept(s) ==
  /\ ~s.wrecked /\ s.untold = {} /\ (s.cancelled => s.down = <<>>)
  /\ \A i, j \in 1 .. Len(s.queue) : s.queue[i] = s.queue[j] => i = j
  /\ \A i \in 1 .. Len(s.dialogs) : s.dialogs[i] # {}
  /\ \A t \in Transfers : t > Len(s.what) => Untouched(s, t)

\* The queue from position n on has not begun.
Queued(s, n) == \A i \in n .. Len(s.queue) : Untouched(s, s.queue[i])

\* The head of the queue is t, and it may go on.
Busy(s, t) ==
  /\ Kept(s) /\ Queued(s, 2)
  /\ s.active /\ s.backend /\ ~s.cancelled
  /\ s.queue # <<>> /\ t = Head(s.queue)

Sane(s) ==
  /\ Kept(s)
  /\ s.active => s.queue # <<>>
  /\ s.queue # <<>> => Busy(s, Head(s.queue)) /\ Running(s, Head(s.queue))

Good(s) == Typed(s) /\ (s.crossed \/ Sane(s))

Inv == Good(m) /\ there \subseteq Paths /\ closes \in 0 .. MaxCloses /\ breaks \in 0 .. MaxBreaks

\* The next transfer may begin.
Between(s) == Kept(s) /\ Queued(s, 1)

\* Whatever a method leaves in U has its type, is crossed if it was, and is sane if p.
Leads(s, p, U) ==
  \A u \in U : Typed(u) /\ (s.crossed => u.crossed) /\ (p => Sane(u))

-----------------------------------------------------------------------------
(* The bag of calls.                                                       *)

LEMMA NoCalls == EmptyBag \in CallBags /\ BagToSet(EmptyBag) = {}
<1>1. EmptyBag \in [{} -> Nat \ {0}]
  BY DEF EmptyBag, SetToBag
<1> QED
  BY <1>1 DEF CallBags, BagToSet, EmptyBag, SetToBag

LEMMA BagOfSet ==
  ASSUME NEW S \in SUBSET Calls
  PROVE  SetToBag(S) \in CallBags /\ BagToSet(SetToBag(S)) = S
<1>1. SetToBag(S) \in [S -> Nat \ {0}]
  BY DEF SetToBag
<1> QED
  BY <1>1 DEF CallBags, BagToSet, SetToBag

LEMMA BagIsBag ==
  ASSUME NEW B \in CallBags
  PROVE  IsABag(B) /\ BagToSet(B) \subseteq Calls /\ \A c \in BagToSet(B) : B[c] \in Nat \ {0}
<1>1. PICK D \in SUBSET Calls : B \in [D -> Nat \ {0}]
  BY DEF CallBags
<1>2. {n \in Nat : n > 0} = Nat \ {0}
  OBVIOUS
<1> QED
  BY <1>1, <1>2 DEF IsABag, BagToSet

\* Calls made: one copy of each is added.
LEMMA MoreCalls ==
  ASSUME NEW B \in CallBags, NEW S \in SUBSET Calls
  PROVE  /\ B (+) SetToBag(S) \in CallBags
         /\ BagToSet(B (+) SetToBag(S)) = BagToSet(B) \union S
         /\ \A c \in BagToSet(B) \ S : (B (+) SetToBag(S))[c] = B[c]
         /\ \A c \in S \ BagToSet(B) : (B (+) SetToBag(S))[c] = 1
<1>1. PICK D \in SUBSET Calls : B \in [D -> Nat \ {0}]
  BY DEF CallBags
<1> DEFINE A == B (+) SetToBag(S)
<1>2. A = [c \in D \union S |-> (IF c \in D THEN B[c] ELSE 0) + (IF c \in S THEN 1 ELSE 0)]
  BY <1>1 DEF (+), SetToBag
<1>3. \A c \in D : B[c] \in Nat \ {0}
  BY <1>1
<1>4. \A c \in D \union S :
        (IF c \in D THEN B[c] ELSE 0) + (IF c \in S THEN 1 ELSE 0) \in Nat \ {0}
  BY <1>3
<1> HIDE DEF A
<1>5. A \in [D \union S -> Nat \ {0}]
  BY <1>2, <1>4
<1>6. A \in CallBags
  BY <1>5 DEF CallBags
<1>7. BagToSet(A) = BagToSet(B) \union S
  BY <1>1, <1>2 DEF BagToSet
<1>8. \A c \in BagToSet(B) \ S : A[c] = B[c]
  BY <1>1, <1>2, <1>3 DEF BagToSet
<1>9. \A c \in S \ BagToSet(B) : A[c] = 1
  BY <1>1, <1>2 DEF BagToSet
<1> QED
  BY <1>6, <1>7, <1>8, <1>9 DEF A

\* A call answered: one copy of it is gone.
LEMMA LessCalls ==
  ASSUME NEW B \in CallBags, NEW c
  PROVE  /\ B (-) SetToBag({c}) \in CallBags
         /\ BagToSet(B (-) SetToBag({c})) \subseteq BagToSet(B)
         /\ \A d \in BagToSet(B) \ {c} : /\ d \in BagToSet(B (-) SetToBag({c}))
                                         /\ (B (-) SetToBag({c}))[d] = B[d]
         /\ (c \in BagToSet(B) /\ B[c] = 1) => c \notin BagToSet(B (-) SetToBag({c}))
<1>1. PICK D \in SUBSET Calls : B \in [D -> Nat \ {0}]
  BY DEF CallBags
<1> DEFINE N == [d \in D |-> IF d \in {c} THEN B[d] - 1 ELSE B[d]]
           A == B (-) SetToBag({c})
<1>2. A = [d \in {e \in DOMAIN N : N[e] > 0} |-> N[d]]
  BY <1>1 DEF (-), SetToBag
<1>3. \A d \in D : B[d] \in Nat \ {0}
  BY <1>1
<1>4. /\ DOMAIN N = D
      /\ \A d \in D : N[d] \in Nat /\ (d # c => N[d] = B[d]) /\ (d = c => N[d] = B[d] - 1)
  BY <1>3
<1> HIDE DEF A, N
<1> DEFINE E == {e \in D : N[e] > 0}
<1>5. A \in [E -> Nat \ {0}] /\ E \in SUBSET Calls
  BY <1>2, <1>4
<1>6. A \in CallBags
  BY <1>5 DEF CallBags
<1>7. BagToSet(A) = E /\ BagToSet(B) = D
  BY <1>1, <1>5 DEF BagToSet
<1>8. \A d \in D \ {c} : d \in E /\ A[d] = B[d]
  BY <1>2, <1>3, <1>4
<1>9. (c \in D /\ B[c] = 1) => c \notin E
  BY <1>4
<1> QED
  BY <1>6, <1>7, <1>8, <1>9 DEF A

-----------------------------------------------------------------------------
(* Records.                                                                *)

LEMMA Names ==
  /\ "backend" \in Fields /\ "active" \in Fields /\ "cancelled" \in Fields
  /\ "what" \in Fields /\ "queue" \in Fields
  /\ "down" \in Fields /\ "idx" \in Fields /\ "up" \in Fields /\ "uidx" \in Fields
  /\ "left" \in Fields /\ "scans" \in Fields
  /\ "listed" \in Fields /\ "skip" \in Fields /\ "created" \in Fields
  /\ "reading" \in Fields /\ "tar" \in Fields /\ "calls" \in Fields
  /\ "listeners" \in Fields /\ "dialogs" \in Fields /\ "log" \in Fields
  /\ "ended" \in Fields /\ "told" \in Fields /\ "blind" \in Fields
  /\ "answered" \in Fields /\ "unheard" \in Fields /\ "untold" \in Fields
  /\ "crossed" \in Fields /\ "wrecked" \in Fields
BY DEF Fields, Types

LEMMA TypeOf ==
  /\ Types["backend"] = BOOLEAN /\ Types["active"] = BOOLEAN /\ Types["cancelled"] = BOOLEAN
  /\ Types["answered"] = BOOLEAN /\ Types["unheard"] = BOOLEAN
  /\ Types["crossed"] = BOOLEAN /\ Types["wrecked"] = BOOLEAN
  /\ Types["what"] = Seq(TransferKinds) /\ Types["queue"] = Seq(Transfers)
  /\ Types["down"] = Seq(Entries) /\ Types["idx"] = Nat \ {0}
  /\ Types["up"] = Seq(Entries) /\ Types["uidx"] = Nat \ {0}
  /\ Types["left"] = [Transfers -> Int] /\ Types["scans"] = Int
  /\ Types["listed"] = SUBSET Folders /\ Types["skip"] = SUBSET Entries
  /\ Types["created"] = SUBSET Folders /\ Types["blind"] = SUBSET Folders
  /\ Types["untold"] = SUBSET Entries
  /\ Types["reading"] = Calls \union {NoRead} /\ Types["tar"] = {"unknown", "yes", "no"}
  /\ Types["calls"] = CallBags
  /\ Types["listeners"] = Nat /\ Types["dialogs"] = Seq(SUBSET Entries)
  /\ Types["log"] = {"none", "live", "idle"}
  /\ Types["ended"] = [Transfers -> {"no", "completed", "failed", "cancelled", "lost"}]
  /\ Types["told"] = [Entries -> Nat]
BY DEF Types

LEMMA FieldTypes ==
  ASSUME NEW s, Typed(s)
  PROVE  /\ s.backend \in BOOLEAN /\ s.active \in BOOLEAN /\ s.cancelled \in BOOLEAN
         /\ s.answered \in BOOLEAN /\ s.unheard \in BOOLEAN
         /\ s.crossed \in BOOLEAN /\ s.wrecked \in BOOLEAN
         /\ s.what \in Seq(TransferKinds) /\ s.queue \in Seq(Transfers)
         /\ s.down \in Seq(Entries) /\ s.idx \in Nat \ {0}
         /\ s.up \in Seq(Entries) /\ s.uidx \in Nat \ {0}
         /\ s.left \in [Transfers -> Int] /\ s.scans \in Int
         /\ s.listed \in SUBSET Folders /\ s.skip \in SUBSET Entries
         /\ s.created \in SUBSET Folders /\ s.blind \in SUBSET Folders
         /\ s.untold \in SUBSET Entries
         /\ s.reading \in Calls \union {NoRead} /\ s.tar \in {"unknown", "yes", "no"}
         /\ s.calls \in CallBags
         /\ s.listeners \in Nat /\ s.dialogs \in Seq(SUBSET Entries)
         /\ s.log \in {"none", "live", "idle"}
         /\ s.ended \in [Transfers -> {"no", "completed", "failed", "cancelled", "lost"}]
         /\ s.told \in [Entries -> Nat]
<1>1. \A f \in Fields : s[f] \in Types[f]
  BY DEF Typed
<1>2. /\ s.backend \in BOOLEAN /\ s.active \in BOOLEAN /\ s.cancelled \in BOOLEAN
      /\ s.answered \in BOOLEAN /\ s.unheard \in BOOLEAN
      /\ s.crossed \in BOOLEAN /\ s.wrecked \in BOOLEAN
  BY <1>1, Names, TypeOf
<1>3. /\ s.what \in Seq(TransferKinds) /\ s.queue \in Seq(Transfers)
      /\ s.down \in Seq(Entries) /\ s.idx \in Nat \ {0}
      /\ s.up \in Seq(Entries) /\ s.uidx \in Nat \ {0}
      /\ s.left \in [Transfers -> Int] /\ s.scans \in Int
      /\ s.listeners \in Nat /\ s.dialogs \in Seq(SUBSET Entries)
  BY <1>1, Names, TypeOf
<1>4. /\ s.listed \in SUBSET Folders /\ s.skip \in SUBSET Entries
      /\ s.created \in SUBSET Folders /\ s.blind \in SUBSET Folders
      /\ s.untold \in SUBSET Entries /\ s.calls \in CallBags
  BY <1>1, Names, TypeOf
<1>5. /\ s.reading \in Calls \union {NoRead} /\ s.tar \in {"unknown", "yes", "no"}
      /\ s.log \in {"none", "live", "idle"}
  BY <1>1, Names, TypeOf
<1>6. /\ s.told \in [Entries -> Nat]
      /\ s.ended \in [Transfers -> {"no", "completed", "failed", "cancelled", "lost"}]
  BY <1>1, Names, TypeOf
<1> QED
  BY <1>2, <1>3, <1>4, <1>5, <1>6

LEMMA TypedBut ==
  ASSUME NEW s, Typed(s), NEW u, NEW F, Changed(u, s, F), \A f \in F : u[f] \in Types[f],
         "queue" \notin F, "what" \notin F
  PROVE  Typed(u)
<1>1. u.queue = s.queue /\ u.what = s.what
  BY Names DEF Changed
<1>2. Known(u)
  BY <1>1 DEF Typed, Known
<1>3. \A f \in Fields : u[f] \in Types[f]
  BY DEF Typed, Changed
<1> QED
  BY <1>2, <1>3 DEF Typed, Changed

LEMMA TypedQueue ==
  ASSUME NEW s, Typed(s), NEW u, NEW F, Changed(u, s, F), \A f \in F : u[f] \in Types[f], Known(u)
  PROVE  Typed(u)
BY DEF Typed, Changed

LEMMA FieldKnown ==
  ASSUME NEW s, Typed(s)
  PROVE  \A i \in 1 .. Len(s.queue) : s.queue[i] \in Transfers /\ s.queue[i] \in 1 .. Len(s.what)
<1>1. s.queue \in Seq(Transfers) /\ s.what \in Seq(TransferKinds)
  BY FieldTypes
<1>2. \A i \in 1 .. Len(s.queue) : s.queue[i] \in 1 .. MaxTransfers
  BY <1>1, ElementOfSeq DEF Transfers
<1>3. Len(s.what) \in Nat /\ \A i \in 1 .. Len(s.queue) : s.queue[i] <= Len(s.what)
  BY <1>1, LenProperties DEF Typed, Known
<1> QED
  BY <1>2, <1>3, BoundsAreReal DEF Transfers

-----------------------------------------------------------------------------
(* What the small steps of a method change.                                *)

LEMMA Made ==
  ASSUME NEW s, Typed(s), NEW kind, NEW X, {<<kind, x>> : x \in X} \subseteq Calls
  PROVE  LET u == Make(s, kind, X)
             S == {<<kind, x>> : x \in X}
         IN  /\ Typed(u) /\ Changed(u, s, {"calls"})
             /\ BagToSet(u.calls) = BagToSet(s.calls) \union S
             /\ \A c \in BagToSet(s.calls) \ S : u.calls[c] = s.calls[c]
             /\ \A c \in S \ BagToSet(s.calls) : u.calls[c] = 1
<1> DEFINE S == {<<kind, x>> : x \in X}
           B == s.calls (+) SetToBag(S)
           u == Make(s, kind, X)
<1>0. S \in SUBSET Calls
  OBVIOUS
<1>1. /\ B \in CallBags /\ BagToSet(B) = BagToSet(s.calls) \union S
      /\ \A c \in BagToSet(s.calls) \ S : B[c] = s.calls[c]
      /\ \A c \in S \ BagToSet(s.calls) : B[c] = 1
  <2> HIDE DEF S
  <2> QED
    BY <1>0, FieldTypes, MoreCalls
<1>2. u = [s EXCEPT !.calls = B]
  BY DEF Make
<1> HIDE DEF B, u
<1>3. Changed(u, s, {"calls"}) /\ u.calls = B
  BY <1>2, Names DEF Typed, Record, Changed
<1>4. Typed(u)
  BY <1>1, <1>3, TypedBut, TypeOf
<1> QED
  BY <1>1, <1>3, <1>4 DEF u

LEMMA LogShown ==
  ASSUME NEW s, Typed(s)
  PROVE  Typed(Shown(s)) /\ Changed(Shown(s), s, {"log"})
<1> DEFINE u == Shown(s)
<1>1. Changed(u, s, {"log"}) /\ u.log \in {"none", "live", "idle"}
  <2>1. u = [s EXCEPT !.log = IF s.log = "none" THEN "live" ELSE s.log]
    BY DEF Shown
  <2> HIDE DEF u
  <2> QED
    BY <2>1, Names, FieldTypes DEF Typed, Record, Changed
<1> QED
  BY <1>1, TypedBut, TypeOf

LEMMA Freshened ==
  ASSUME NEW s, Typed(s)
  PROVE  LET u == Fresh(s) IN
         /\ Typed(u)
         /\ Changed(u, s, {"active", "cancelled", "down", "idx", "up", "uidx", "scans", "listed",
                           "skip", "created", "told", "blind", "answered", "unheard"})
         /\ u.active = TRUE /\ u.cancelled = FALSE
         /\ u.down = <<>> /\ u.idx = 1 /\ u.up = <<>> /\ u.uidx = 1
         /\ u.skip = {} /\ u.told = [e \in Entries |-> 0]
         /\ u.answered = FALSE /\ u.unheard = FALSE
<1> DEFINE zero == [e \in Entries |-> 0]
           u == Fresh(s)
           F == {"active", "cancelled", "down", "idx", "up", "uidx", "scans", "listed",
                 "skip", "created", "told", "blind", "answered", "unheard"}
<1>1. zero \in [Entries -> Nat] /\ <<>> \in Seq(Entries)
  BY EmptySeq
<1> HIDE DEF zero
<1>2. u = [s EXCEPT !.active = TRUE, !.cancelled = FALSE,
            !.down = <<>>, !.idx = 1, !.up = <<>>, !.uidx = 1,
            !.scans = 0, !.listed = {}, !.skip = {}, !.created = {},
            !.told = zero, !.blind = {},
            !.answered = FALSE, !.unheard = FALSE]
  BY DEF Fresh, zero
<1> HIDE DEF u
<1>3. Record(u)
  BY <1>2 DEF Typed, Record
<1>4. ASSUME NEW f \in Fields \ F PROVE u[f] = s[f]
  BY <1>2 DEF Typed, Record
<1>5. /\ u.active = TRUE /\ u.cancelled = FALSE
      /\ u.down = <<>> /\ u.idx = 1 /\ u.up = <<>> /\ u.uidx = 1
      /\ u.scans = 0 /\ u.listed = {} /\ u.skip = {} /\ u.created = {}
      /\ u.told = zero /\ u.blind = {} /\ u.answered = FALSE /\ u.unheard = FALSE
  BY <1>2, Names DEF Typed, Record
<1>6. Changed(u, s, F)
  BY <1>3, <1>4 DEF Changed
<1>7. /\ u.down \in Types["down"] /\ u.idx \in Types["idx"] /\ u.told \in Types["told"]
      /\ u.up \in Types["up"] /\ u.uidx \in Types["uidx"]
  BY <1>1, <1>5, TypeOf
<1>8. /\ u.active \in Types["active"] /\ u.cancelled \in Types["cancelled"]
      /\ u.unheard \in Types["unheard"] /\ u.answered \in Types["answered"]
  BY <1>5, TypeOf
<1>9. /\ u.scans \in Types["scans"] /\ u.listed \in Types["listed"] /\ u.skip \in Types["skip"]
      /\ u.created \in Types["created"] /\ u.blind \in Types["blind"]
  BY <1>5, TypeOf
<1>10. Typed(u)
  BY <1>6, <1>7, <1>8, <1>9, TypedBut
<1> QED
  BY <1>5, <1>6, <1>10 DEF u, zero

LEMMA EndTyped ==
  ASSUME NEW s, Typed(s), NEW ts, NEW how \in {"completed", "failed", "cancelled", "lost"}
  PROVE  Typed(End(s, ts, how)) /\ Changed(End(s, ts, how), s, {"ended"})
<1> DEFINE u == End(s, ts, how)
           ended == [t \in Transfers |-> IF t \in ts THEN how ELSE s.ended[t]]
<1>1. ended \in [Transfers -> {"no", "completed", "failed", "cancelled", "lost"}]
  BY FieldTypes
<1>2. u = [s EXCEPT !.ended = ended]
  BY DEF End
<1> HIDE DEF u, ended
<1>3. Changed(u, s, {"ended"}) /\ u.ended = ended
  BY <1>2, Names DEF Typed, Record, Changed
<1>4. Typed(u)
  BY <1>1, <1>3, TypedBut, TypeOf
<1> QED
  BY <1>3, <1>4 DEF u

LEMMA ToldOne ==
  ASSUME NEW s, Typed(s), NEW e \in Entries
  PROVE  LET u == Tell(s, e) IN
         /\ Typed(u) /\ Changed(u, s, {"told"})
         /\ u.told[e] = s.told[e] + 1 /\ \A d \in Entries \ {e} : u.told[d] = s.told[d]
<1> DEFINE u == Tell(s, e)
           told == [s.told EXCEPT ![e] = @ + 1]
<1>1. /\ told \in [Entries -> Nat]
      /\ told[e] = s.told[e] + 1 /\ \A d \in Entries \ {e} : told[d] = s.told[d]
  BY FieldTypes
<1>2. u = [s EXCEPT !.told = told]
  BY DEF Tell
<1> HIDE DEF u, told
<1>3. Changed(u, s, {"told"}) /\ u.told = told
  BY <1>2, Names DEF Typed, Record, Changed
<1>4. Typed(u)
  BY <1>1, <1>3, TypedBut, TypeOf
<1> QED
  BY <1>1, <1>3, <1>4 DEF u

-----------------------------------------------------------------------------
(* Frames: the manager is busy with t whatever a step of t changes.        *)

LEMMA HeadOf ==
  ASSUME NEW s, Typed(s), NEW t, Busy(s, t)
  PROVE  /\ t \in Transfers /\ t \in 1 .. Len(s.what)
         /\ s.queue \in Seq(Transfers) /\ Len(s.queue) \in Nat \ {0} /\ t = s.queue[1]
         /\ \A i \in 2 .. Len(s.queue) : s.queue[i] # t
<1>1. s.queue \in Seq(Transfers) /\ s.queue # <<>> /\ t = Head(s.queue)
  BY FieldTypes DEF Busy
<1>2. Len(s.queue) \in Nat \ {0} /\ t = s.queue[1]
  BY <1>1, TailShape
<1>3. \A i, j \in 1 .. Len(s.queue) : s.queue[i] = s.queue[j] => i = j
  BY DEF Busy, Kept
<1> QED
  BY <1>1, <1>2, <1>3, FieldKnown

\* Nothing is changed but the affairs of t.
Aside(u, s, t) ==
  /\ u.queue = s.queue /\ u.what = s.what /\ u.untold = s.untold /\ u.dialogs = s.dialogs
  /\ u.active = s.active /\ u.backend = s.backend /\ u.cancelled = s.cancelled
  /\ u.wrecked = s.wrecked
  /\ \A c \in BagToSet(u.calls) : c \in BagToSet(s.calls) \/ c[2][1] = t

LEMMA StillBusy ==
  ASSUME NEW s, Typed(s), NEW t, Busy(s, t), NEW u, Aside(u, s, t)
  PROVE  Busy(u, t)
<1>1. \A r : r # t /\ Untouched(s, r) => Untouched(u, r)
  BY DEF Untouched, CallsOf, Unasked, Aside
<1>2. /\ t \in 1 .. Len(s.what) /\ \A i \in 2 .. Len(s.queue) : s.queue[i] # t
      /\ Len(s.what) \in Nat
  BY HeadOf, FieldTypes, LenProperties
<1>3. Queued(u, 2)
  BY <1>1, <1>2 DEF Busy, Queued, Aside
<1>4. \A r \in Transfers : r > Len(u.what) => Untouched(u, r)
  BY <1>1, <1>2 DEF Busy, Kept, Aside, Transfers
<1>5. Kept(u)
  BY <1>4 DEF Busy, Kept, Aside
<1> QED
  BY <1>3, <1>5 DEF Busy, Aside

\* What changes nothing of this kind.
LEMMA ChangedAside ==
  ASSUME NEW s, NEW u, NEW F, Changed(u, s, F), NEW t,
         {"queue", "what", "untold", "dialogs", "active", "backend", "cancelled",
          "wrecked"} \cap F = {},
         \A c \in BagToSet(u.calls) : c \in BagToSet(s.calls) \/ c[2][1] = t
  PROVE  Aside(u, s, t)
BY Names DEF Changed, Aside

LEMMA ChangedTwice ==
  ASSUME NEW s, NEW u, NEW v, NEW F, NEW G, Changed(u, s, F), Changed(v, u, G)
  PROVE  Changed(v, s, F \union G)
BY DEF Changed

LEMMA ChangedLess ==
  ASSUME NEW s, NEW u, NEW F, NEW G, Changed(u, s, F), F \subseteq G
  PROVE  Changed(u, s, G)
BY DEF Changed

LEMMA SameCalls ==
  ASSUME NEW s, NEW u, u.calls = s.calls
  PROVE  /\ \A t : CallsOf(u, t) = CallsOf(s, t)
         /\ \A t : \A c \in BagToSet(u.calls) : c \in BagToSet(s.calls) \/ c[2][1] = t
BY DEF CallsOf

LEMMA Runs ==
  ASSUME NEW s, NEW t, Busy(s, t), Running(s, t)
  PROVE  Sane(s)
BY DEF Sane, Busy

LEMMA CallTypes ==
  /\ \A kind \in FolderKinds, f \in Folders : <<kind, f>> \in Calls
  /\ \A kind \in EntryKinds, e \in Entries : <<kind, e>> \in Calls
  /\ \A kind \in ArchiveKinds, t \in Transfers : <<kind, <<t>>>> \in Calls
<1>1. \A kind \in FolderKinds, f \in Folders : <<kind, f>> \in FolderKinds \X Folders
  OBVIOUS
<1>2. \A kind \in EntryKinds, e \in Entries : <<kind, e>> \in EntryKinds \X Entries
  OBVIOUS
<1>3. \A kind \in ArchiveKinds, t \in Transfers :
        <<kind, <<t>>>> \in ArchiveKinds \X {<<r>> : r \in Transfers}
  OBVIOUS
<1> QED
  BY <1>1, <1>2, <1>3 DEF Calls

LEMMA Requested ==
  ASSUME NEW s, Typed(s), NEW kind, NEW X, {<<kind, x>> : x \in X} \subseteq Calls,
         NEW u, u = Make(s, kind, X) \/ u = Shown(Make(s, kind, X))
  PROVE  Typed(u) /\ Changed(u, s, {"calls", "log"})
<1> DEFINE v == Make(s, kind, X)
<1>1. Typed(v) /\ Changed(v, s, {"calls"})
  BY Made
<1> HIDE DEF v
<1>2. Typed(Shown(v)) /\ Changed(Shown(v), v, {"log"})
  BY <1>1, LogShown
<1> QED
  BY <1>1, <1>2 DEF Changed, v

\* Calls made for t, with none of them under way yet; the log may come up.
LEMMA Asked ==
  ASSUME NEW s, Typed(s), NEW kind, NEW X, {<<kind, x>> : x \in X} \subseteq Calls,
         NEW t, \A x \in X : x[1] = t, {<<kind, x>> : x \in X} \cap CallsOf(s, t) = {},
         NEW u, u = Make(s, kind, X) \/ u = Shown(Make(s, kind, X))
  PROVE  /\ Typed(u) /\ Changed(u, s, {"calls", "log"})
         /\ CallsOf(u, t) = CallsOf(s, t) \union {<<kind, x>> : x \in X}
         /\ \A c \in CallsOf(s, t) : u.calls[c] = s.calls[c]
         /\ \A x \in X : u.calls[<<kind, x>>] = 1
         /\ Busy(s, t) => Busy(u, t)
<1> DEFINE S == {<<kind, x>> : x \in X}
           v == Make(s, kind, X)
<1>1. /\ Typed(v) /\ Changed(v, s, {"calls"})
      /\ BagToSet(v.calls) = BagToSet(s.calls) \union S
      /\ \A c \in BagToSet(s.calls) \ S : v.calls[c] = s.calls[c]
      /\ \A c \in S \ BagToSet(s.calls) : v.calls[c] = 1
  BY Made
<1>2. Typed(u) /\ Changed(u, v, {"log"})
  <2>1. CASE u = v
    BY <1>1, <2>1 DEF Changed, Typed
  <2>2. CASE u = Shown(v)
    <3> HIDE DEF v
    <3> QED
      BY <1>1, <2>2, LogShown
  <2> QED
    BY <2>1, <2>2
<1>3. \A c \in S : c[2][1] = t
  OBVIOUS
<1> HIDE DEF v
<1>4. Changed(u, s, {"calls", "log"}) /\ u.calls = v.calls
  BY <1>1, <1>2, Names DEF Changed
<1> HIDE DEF S
<1>5. CallsOf(u, t) = CallsOf(s, t) \union S
  BY <1>1, <1>3, <1>4 DEF CallsOf
<1>6. \A c \in CallsOf(s, t) : u.calls[c] = s.calls[c]
  BY <1>1, <1>4 DEF CallsOf, S
<1>7. \A c \in S : u.calls[c] = 1
  BY <1>1, <1>3, <1>4 DEF CallsOf, S
<1>8. ASSUME Busy(s, t) PROVE Busy(u, t)
  <2>1. Aside(u, s, t)
    BY <1>1, <1>3, <1>4, ChangedAside
  <2> QED
    BY <1>8, <2>1, StillBusy
<1> QED
  BY <1>2, <1>4, <1>5, <1>6, <1>7, <1>8 DEF S

\* One call, the only one.
LEMMA AskedOne ==
  ASSUME NEW s, Typed(s), NEW kind, NEW x, <<kind, x>> \in Calls, NEW t, x[1] = t,
         NEW u, u = Make(s, kind, {x}) \/ u = Shown(Make(s, kind, {x}))
  PROVE  /\ Typed(u) /\ Changed(u, s, {"calls", "log"})
         /\ (CallsOf(s, t) = {} /\ Busy(s, t)) =>
              /\ Busy(u, t) /\ CallsOf(u, t) = {<<kind, x>>}
              /\ \A c \in CallsOf(u, t) : u.calls[c] = 1
<1>1. {<<kind, y>> : y \in {x}} = {<<kind, x>>}
  OBVIOUS
<1>2. Typed(u) /\ Changed(u, s, {"calls", "log"})
  BY <1>1, Requested
<1>3. ASSUME CallsOf(s, t) = {}, Busy(s, t)
      PROVE  /\ Busy(u, t) /\ CallsOf(u, t) = {<<kind, x>>}
             /\ \A c \in CallsOf(u, t) : u.calls[c] = 1
  <2>1. {x} # {} /\ (\A y \in {x} : y[1] = t) /\ {<<kind, y>> : y \in {x}} \cap CallsOf(s, t) = {}
    BY <1>3
  <2>2. /\ CallsOf(u, t) = CallsOf(s, t) \union {<<kind, y>> : y \in {x}}
        /\ \A y \in {x} : u.calls[<<kind, y>>] = 1
        /\ Busy(s, t) => Busy(u, t)
    BY <1>1, <2>1, Asked
  <2> QED
    BY <1>1, <1>3, <2>2
<1> QED
  BY <1>2, <1>3

-----------------------------------------------------------------------------
(* Manifests.                                                              *)

LEMMA Finite ==
  /\ IsFiniteSet(Entries) /\ IsFiniteSet(Folders) /\ IsFiniteSet(Paths)
  /\ Cardinality(Paths) \in Nat
<1>1. IsFiniteSet(Transfers) /\ IsFiniteSet(1 .. MaxFiles) /\ IsFiniteSet(Paths)
  BY BoundsAreReal, FS_Interval DEF Transfers
<1>2. IsFiniteSet(Folders)
  BY <1>1, FS_Product DEF Folders
<1>3. IsFiniteSet(Folders \X (1 .. MaxFiles))
  BY <1>1, <1>2, FS_Product
<1> DEFINE S == Folders \X (1 .. MaxFiles)
           g == [x \in S |-> <<x[1][1], x[1][2], x[2]>>]
<1>4. g \in Surjection(S, Entries)
  <2>1. \A x \in S : g[x] \in Entries
    BY DEF Folders, Entries
  <2>2. ASSUME NEW e \in Entries PROVE \E x \in S : g[x] = e
    <3>1. <<<<e[1], e[2]>>, e[3]>> \in S
      BY DEF Folders, Entries
    <3>2. g[<<<<e[1], e[2]>>, e[3]>>] = e
      BY <3>1 DEF Entries
    <3> QED
      BY <3>1, <3>2
  <2> QED
    BY <2>1, <2>2 DEF Surjection
<1>5. IsFiniteSet(Entries)
  <2> HIDE DEF S, g
  <2> QED
    BY <1>3, <1>4, FS_Surjection DEF S
<1> QED
  BY <1>1, <1>2, <1>5, FS_CardinalityType

\* What buildUploadManifest finds is a manifest.
LEMMA LocalFiles ==
  ASSUME NEW t, NEW sizes
  PROVE  Manifest(LocalManifest(t, sizes), t)
<1> DEFINE S == {e \in Entries : e[1] = t /\ e[3] <= sizes[e[2]]}
           n == Cardinality(S)
           es == LocalManifest(t, sizes)
<1>0. S \subseteq Entries /\ \A e \in S : e[1] = t
  OBVIOUS
<1>1. es = CHOOSE f \in [1 .. n -> S] : IsInjective(f)
  BY DEF LocalManifest, SetToSeq
<1> HIDE DEF S, n, es
<1>2. IsFiniteSet(S)
  BY <1>0, Finite, FS_Subset
<1>3. n \in Nat /\ ExistsBijection(1 .. n, S)
  BY <1>2, FS_CardinalityType DEF n
<1>4. PICK f \in [1 .. n -> S] : \A i, j \in 1 .. n : f[i] = f[j] => i = j
  BY <1>3 DEF ExistsBijection, Bijection, Injection, Surjection, IsInjective
<1>5. IsInjective(f)
  BY <1>4 DEF IsInjective
<1>6. es \in [1 .. n -> S] /\ IsInjective(es)
  BY <1>1, <1>5
<1>7. es \in Seq(Entries) /\ Len(es) = n
  BY <1>0, <1>3, <1>6
<1>8. \A i \in 1 .. n : es[i] \in S
  BY <1>6
<1>9. \A i, j \in 1 .. n : es[i] = es[j] => i = j
  BY <1>6 DEF IsInjective
<1> QED
  BY <1>0, <1>7, <1>8, <1>9 DEF Manifest, es

LEMMA ManifestFacts ==
  ASSUME NEW t, NEW es, Manifest(es, t)
  PROVE  /\ es \in Seq(Entries) /\ Len(es) \in Nat /\ (es # <<>> => Len(es) \in Nat \ {0})
         /\ (Len(es) = 0 => es = <<>>)
         /\ \A i \in 1 .. Len(es) :
              es[i] \in Entries /\ es[i][1] = t /\ FolderOf(es[i]) \in Folders
         /\ ToSet(es) = {es[i] : i \in 1 .. Len(es)}
<1>1. es \in Seq(Entries) /\ \A i \in 1 .. Len(es) : es[i][1] = t
  BY DEF Manifest
<1>2. Len(es) \in Nat /\ (es # <<>> => Len(es) \in Nat \ {0}) /\ DOMAIN es = 1 .. Len(es)
      /\ \A i \in 1 .. Len(es) : es[i] \in Entries
  BY <1>1, EmptySeq, LenProperties, ElementOfSeq
<1>3. \A e \in Entries : FolderOf(e) \in Folders
  BY DEF Entries, Folders, FolderOf
<1> QED
  BY <1>1, <1>2, <1>3 DEF ToSet

\* The files of a folder that is not in the manifest yet are added to it.
LEMMA FoundMore ==
  ASSUME NEW t, NEW es, Manifest(es, t), NEW f \in Folders, f[1] = t, NEW n \in 0 .. MaxFiles,
         \A i \in 1 .. Len(es) : FolderOf(es[i]) # f
  PROVE  /\ Manifest(es \o Found(f, n), t)
         /\ \A i \in 1 .. Len(es \o Found(f, n)) :
              \/ FolderOf((es \o Found(f, n))[i]) = f
              \/ \E j \in 1 .. Len(es) : (es \o Found(f, n))[i] = es[j]
<1> DEFINE more == Found(f, n)
           all == es \o more
<1>1. /\ n \in Nat
      /\ \A i \in 1 .. n : more[i] \in Entries /\ more[i][1] = t /\ FolderOf(more[i]) = f
      /\ \A i, j \in 1 .. n : more[i] = more[j] => i = j
  <2>1. n \in Nat /\ \A i \in 1 .. n : i \in 1 .. MaxFiles
    BY BoundsAreReal
  <2>2. f[1] \in Transfers /\ f[2] \in Paths /\ f = <<f[1], f[2]>>
    BY DEF Folders
  <2> QED
    BY <2>1, <2>2 DEF Found, Entries, FolderOf
<1> HIDE DEF more
<1>2. more \in Seq(Entries) /\ Len(more) = n
  <2>1. more = [i \in 1 .. n |-> <<f[1], f[2], i>>]
    BY DEF Found, more
  <2>2. \A i \in 1 .. n : more[i] \in Entries
    BY <1>1
  <2> QED
    BY <1>1, <2>1, <2>2
<1>3. /\ es \in Seq(Entries) /\ Len(es) \in Nat
      /\ \A i \in 1 .. Len(es) : es[i] \in Entries /\ es[i][1] = t /\ FolderOf(es[i]) # f
      /\ \A i, j \in 1 .. Len(es) : es[i] = es[j] => i = j
  BY ManifestFacts DEF Manifest
<1>4. /\ all \in Seq(Entries) /\ Len(all) = Len(es) + n
      /\ \A i \in 1 .. Len(es) + n :
           all[i] = IF i <= Len(es) THEN es[i] ELSE more[i - Len(es)]
  <2>1. /\ es \o more \in Seq(Entries) /\ Len(es \o more) = Len(es) + Len(more)
        /\ \A i \in 1 .. Len(es) + Len(more) :
             (es \o more)[i] = IF i <= Len(es) THEN es[i] ELSE more[i - Len(es)]
    <3>1. es \in Seq(Entries) /\ more \in Seq(Entries)
      BY <1>2, <1>3
    <3> QED
      BY <3>1, ConcatProperties
  <2> QED
    BY <1>2, <2>1
<1> HIDE DEF all
<1>5. \A i \in 1 .. Len(all) :
        /\ i <= Len(es) => i \in 1 .. Len(es) /\ all[i] = es[i]
        /\ ~(i <= Len(es)) => i - Len(es) \in 1 .. n /\ all[i] = more[i - Len(es)]
  BY <1>1, <1>3, <1>4
<1>6. \A i \in 1 .. Len(all) : all[i][1] = t
  BY <1>1, <1>3, <1>5
<1>7. ASSUME NEW i \in 1 .. Len(all), NEW j \in 1 .. Len(all), all[i] = all[j] PROVE i = j
  <2>1. CASE i <= Len(es) /\ j <= Len(es)
    BY <1>3, <1>5, <1>7, <2>1
  <2>2. CASE ~(i <= Len(es)) /\ ~(j <= Len(es))
    <3>1. i - Len(es) = j - Len(es)
      BY <1>1, <1>5, <1>7, <2>2
    <3> QED
      BY <3>1, <1>3, <1>4
  <2>3. CASE i <= Len(es) /\ ~(j <= Len(es))
    BY <1>1, <1>3, <1>5, <1>7, <2>3
  <2>4. CASE ~(i <= Len(es)) /\ j <= Len(es)
    BY <1>1, <1>3, <1>5, <1>7, <2>4
  <2> QED
    BY <2>1, <2>2, <2>3, <2>4
<1>8. \A i \in 1 .. Len(all) :
        FolderOf(all[i]) = f \/ \E j \in 1 .. Len(es) : all[i] = es[j]
  BY <1>1, <1>5
<1> QED
  BY <1>4, <1>6, <1>7, <1>8 DEF Manifest, all, more

\* As many calls as there are folders.
LEMMA OneCallEach ==
  ASSUME NEW kind, NEW X, IsFiniteSet(X)
  PROVE  /\ IsFiniteSet({<<kind, x>> : x \in X})
         /\ Cardinality({<<kind, x>> : x \in X}) = Cardinality(X)
<1> DEFINE T == {<<kind, x>> : x \in X}
           g == [x \in X |-> <<kind, x>>]
<1>1. g \in Bijection(X, T)
  BY DEF Bijection, Injection, Surjection, IsInjective
<1> HIDE DEF T, g
<1>2. ExistsBijection(X, T)
  BY <1>1 DEF ExistsBijection
<1>3. IsFiniteSet(T) /\ Cardinality(T) = Cardinality(X)
  BY <1>2, FS_Bijection
<1> QED
  BY <1>3 DEF T

\* The folders of a manifest.
DirsOf(es) == {FolderOf(es[i]) : i \in DOMAIN es}

LEMMA FoldersOf ==
  ASSUME NEW t, NEW es, Manifest(es, t), es # <<>>, t \in Transfers
  PROVE  /\ IsFiniteSet(DirsOf(es)) /\ Cardinality(DirsOf(es)) \in Nat
         /\ DirsOf(es) # {} /\ DirsOf(es) \subseteq Folders
         /\ \A f \in DirsOf(es) : f[1] = t
         /\ \A i \in 1 .. Len(es) : FolderOf(es[i]) \in DirsOf(es)
<1> DEFINE F == DirsOf(es)
<1>1. /\ DOMAIN es = 1 .. Len(es) /\ Len(es) \in Nat \ {0}
      /\ \A i \in 1 .. Len(es) : FolderOf(es[i]) \in Folders /\ FolderOf(es[i])[1] = t
  BY ManifestFacts, LenProperties DEF FolderOf
<1>2. F \subseteq Folders /\ F # {} /\ (\A f \in F : f[1] = t)
      /\ \A i \in 1 .. Len(es) : FolderOf(es[i]) \in F
  BY <1>1 DEF DirsOf
<1> HIDE DEF F
<1>3. IsFiniteSet(F) /\ Cardinality(F) \in Nat
  BY <1>2, Finite, FS_Subset, FS_CardinalityType
<1> QED
  BY <1>2, <1>3 DEF F

-----------------------------------------------------------------------------
(* Beginning a transfer.                                                   *)

\* The head of the queue is t, and nothing has happened for it.
Begun(s, t) ==
  /\ Busy(s, t) /\ Untouched(s, t)
  /\ s.down = <<>> /\ s.idx = 1 /\ s.uidx = 1 /\ s.skip = {} /\ ~s.answered
  /\ \A e \in Entries : s.told[e] = 0

LEMMA BeginsUpload ==
  ASSUME NEW s, Typed(s), NEW t \in Transfers
  PROVE  Leads(s, Begun(s, t), BeginUpload(s, t))
<1> SUFFICES ASSUME NEW u \in BeginUpload(s, t)
             PROVE  /\ Typed(u) /\ (s.crossed => u.crossed)
                    /\ Begun(s, t) => Sane(u)
  BY DEF Leads
<1>1. PICK sizes, es : /\ es = LocalManifest(t, sizes) /\ es # <<>>
                       /\ u = IF s.what[t] = "overwrite"
                              THEN Shown(Make([s EXCEPT !.up = es], "mkdir", {es[1]}))
                              ELSE Shown(Make([s EXCEPT !.up = es,
                                                        !.scans = Cardinality(DirsOf(es))],
                                              "scan", DirsOf(es)))
  BY DEF BeginUpload, DirsOf
<1>2. /\ Manifest(es, t) /\ es \in Seq(Entries) /\ Len(es) \in Nat \ {0}
      /\ \A i \in 1 .. Len(es) : es[i] \in Entries /\ es[i][1] = t
  BY <1>1, LocalFiles, ManifestFacts
<1>3. /\ IsFiniteSet(DirsOf(es)) /\ Cardinality(DirsOf(es)) \in Nat /\ DirsOf(es) # {}
      /\ DirsOf(es) \subseteq Folders /\ \A f \in DirsOf(es) : f[1] = t
      /\ \A i \in 1 .. Len(es) : FolderOf(es[i]) \in DirsOf(es)
  <2>1. Manifest(es, t) /\ es # <<>>
    BY <1>1, <1>2
  <2> QED
    BY <2>1, FoldersOf
<1>4. CASE s.what[t] = "overwrite"
  <2> DEFINE v == [s EXCEPT !.up = es]
  <2>1. Changed(v, s, {"up"}) /\ v.up = es
    BY Names DEF Typed, Record, Changed
  <2>3. u = Shown(Make(v, "mkdir", {es[1]}))
    BY <1>1, <1>4
  <2> HIDE DEF v
  <2>2. Typed(v)
    <3>1. v.up \in Types["up"]
      BY <1>2, <2>1, TypeOf
    <3> QED
      BY <2>1, <3>1, TypedBut
  <2>4. <<"mkdir", es[1]>> \in Calls /\ es[1][1] = t
    BY <1>2, CallTypes DEF EntryKinds
  <2>5. /\ Typed(u) /\ Changed(u, v, {"calls", "log"})
        /\ (CallsOf(v, t) = {} /\ Busy(v, t)) =>
              /\ Busy(u, t) /\ CallsOf(u, t) = {<<"mkdir", es[1]>>}
              /\ \A c \in CallsOf(u, t) : u.calls[c] = 1
    BY <2>2, <2>3, <2>4, AskedOne
  <2>6. ASSUME Begun(s, t) PROVE Sane(u)
    <3>1. v.calls = s.calls
      BY <2>1, Names DEF Changed
    <3>2. CallsOf(v, t) = {} /\ Busy(v, t)
      BY <2>1, <2>6, <3>1, SameCalls, ChangedAside, StillBusy DEF Begun, Untouched
    <3>3. /\ u.up = es /\ u.uidx = 1 /\ u.skip = {} /\ u.told = s.told /\ u.dialogs = s.dialogs
          /\ u.what = s.what
      BY <2>1, <2>5, <2>6, Names DEF Changed, Begun
    <3>4. Verdicts(u, u.up, u.uidx)
      BY <1>2, <2>6, <3>3 DEF Verdicts, Begun
    <3>5. Heard(u, t) /\ Unasked(u, t)
      BY <1>4, <2>6, <3>3 DEF Heard, Unasked, Begun, Untouched
    <3>6. Writing(u, t)
      BY <1>2, <2>5, <3>2, <3>3, <3>4, <3>5 DEF Writing
    <3> QED
      BY <2>5, <3>2, <3>6, Runs DEF Running
  <2> QED
    BY <2>1, <2>5, <2>6, Names DEF Changed
<1>5. CASE s.what[t] # "overwrite"
  <2> DEFINE n == Cardinality(DirsOf(es))
             D == DirsOf(es)
             v == [s EXCEPT !.up = es, !.scans = n]
             S == {<<"scan", f>> : f \in D}
  <2>1. Changed(v, s, {"up", "scans"}) /\ v.up = es /\ v.scans = n
    BY Names DEF Typed, Record, Changed
  <2>3. u = Shown(Make(v, "scan", D))
    BY <1>1, <1>5
  <2>4. IsFiniteSet(D) /\ n = Cardinality(D) /\ D # {} /\ D \subseteq Folders
        /\ (\A f \in D : f[1] = t) /\ \A i \in 1 .. Len(es) : FolderOf(es[i]) \in D
    BY <1>3
  <2> HIDE DEF v, D, n
  <2>2. Typed(v)
    <3>1. n \in Int
      BY <2>4, FS_CardinalityType
    <3>2. v.up \in Types["up"] /\ v.scans \in Types["scans"]
      BY <1>2, <2>1, <3>1, TypeOf
    <3> QED
      BY <2>1, <3>2, TypedBut
  <2>5. S \subseteq Calls
    BY <2>4, CallTypes DEF FolderKinds
  <2>6. ASSUME CallsOf(v, t) = {}
        PROVE  /\ CallsOf(u, t) = S /\ (\A c \in S : u.calls[c] = 1)
               /\ Busy(v, t) => Busy(u, t)
    <3>1. S \cap CallsOf(v, t) = {}
      BY <2>6
    <3>2. /\ CallsOf(u, t) = CallsOf(v, t) \union S
          /\ \A f \in D : u.calls[<<"scan", f>>] = 1
          /\ Busy(v, t) => Busy(u, t)
      BY <2>2, <2>3, <2>4, <2>5, <3>1, Asked
    <3> QED
      BY <2>6, <3>2
  <2>7. Typed(u) /\ Changed(u, v, {"calls", "log"})
    BY <2>2, <2>3, <2>5, Requested
  <2>8. ASSUME Begun(s, t) PROVE Sane(u)
    <3>1. v.calls = s.calls
      BY <2>1, Names DEF Changed
    <3>2. CallsOf(v, t) = {} /\ Busy(v, t)
      BY <2>1, <2>8, <3>1, SameCalls, ChangedAside, StillBusy DEF Begun, Untouched
    <3>3. /\ u.up = es /\ u.uidx = 1 /\ u.skip = {} /\ u.told = s.told /\ u.dialogs = s.dialogs
          /\ ~u.answered /\ u.scans = n
      BY <2>1, <2>7, <2>8, Names DEF Changed, Begun
    <3>4. Verdicts(u, u.up, 1) /\ Unasked(u, t)
      BY <1>2, <2>8, <3>3 DEF Verdicts, Unasked, Begun, Untouched
    <3>5. CallsOf(u, t) = S /\ Busy(u, t) /\ \A c \in S : u.calls[c] = 1
      BY <2>6, <3>2
    <3>6. S # {} /\ IsFiniteSet(S) /\ n = Cardinality(S) /\ \A c \in S : c[1] = "scan"
      <4>1. IsFiniteSet(S) /\ Cardinality(S) = Cardinality(D)
        BY <2>4, OneCallEach
      <4>2. S # {}
        <5>1. PICK f \in D : TRUE
          BY <2>4
        <5>2. <<"scan", f>> \in S
          BY <5>1
        <5> QED
          BY <5>2
      <4>3. \A c \in S : c[1] = "scan"
        OBVIOUS
      <4> HIDE DEF S
      <4> QED
        BY <2>4, <4>1, <4>2, <4>3
    <3>7. \A i \in 1 .. Len(es) : FolderOf(es[i]) \in {c[2] : c \in S}
      <4>1. \A f \in D : <<"scan", f>> \in S /\ <<"scan", f>>[2] = f
        OBVIOUS
      <4> QED
        BY <2>4, <4>1
    <3>8. Scanning(u, t)
      <4> HIDE DEF S
      <4> QED
        BY <1>2, <3>3, <3>4, <3>5, <3>6, <3>7 DEF Scanning
    <3> QED
      BY <3>5, <3>8, Runs DEF Running
  <2> QED
    BY <2>1, <2>7, <2>8, Names DEF Changed
<1> QED
  BY <1>4, <1>5

LEMMA Reads ==
  ASSUME NEW s, Typed(s), NEW e \in Entries, NEW t, t = e[1]
  PROVE  LET u == Read(s, e) IN
         /\ Typed(u) /\ Changed(u, s, {"reading", "calls", "log"})
         /\ (CallsOf(s, t) = {} /\ Busy(s, t)) =>
              /\ Busy(u, t) /\ CallsOf(u, t) = {<<"read", e>>}
              /\ \A c \in CallsOf(u, t) : u.calls[c] = 1
<1> DEFINE u == Read(s, e)
           v == [s EXCEPT !.reading = <<"read", e>>]
<1>1. <<"read", e>> \in Calls
  BY CallTypes DEF EntryKinds
<1>2. Changed(v, s, {"reading"}) /\ v.reading = <<"read", e>>
  BY Names DEF Typed, Record, Changed
<1>3. u = Shown(Make(v, "read", {e}))
  BY DEF Read
<1> HIDE DEF u, v
<1>4. Typed(v)
  <2>1. v.reading \in Types["reading"]
    BY <1>1, <1>2, TypeOf
  <2> QED
    BY <1>2, <2>1, TypedBut
<1>5. /\ Typed(u) /\ Changed(u, v, {"calls", "log"})
      /\ (CallsOf(v, t) = {} /\ Busy(v, t)) =>
           /\ Busy(u, t) /\ CallsOf(u, t) = {<<"read", e>>}
           /\ \A c \in CallsOf(u, t) : u.calls[c] = 1
  BY <1>1, <1>3, <1>4, AskedOne
<1>6. v.calls = s.calls
  BY <1>2, Names DEF Changed
<1>7. CallsOf(v, t) = CallsOf(s, t) /\ (Busy(s, t) => Busy(v, t))
  BY <1>2, <1>6, SameCalls, ChangedAside, StillBusy
<1>8. Changed(u, s, {"reading", "calls", "log"})
  BY <1>2, <1>5 DEF Changed
<1> QED
  BY <1>5, <1>7, <1>8 DEF u

LEMMA Begins ==
  ASSUME NEW s, Typed(s), s.queue # <<>>
  PROVE  Leads(s, Begun(s, Head(s.queue)), Begin(s))
<1> DEFINE t == Head(s.queue)
<1>1. t \in Transfers /\ t \in 1 .. Len(s.what) /\ s.what[t] \in TransferKinds
  <2>1. s.queue \in Seq(Transfers) /\ s.what \in Seq(TransferKinds)
    BY FieldTypes
  <2>2. Len(s.queue) \in Nat \ {0} /\ t = s.queue[1]
    BY <2>1, TailShape
  <2>3. t \in Transfers /\ t \in 1 .. Len(s.what)
    BY <2>2, FieldKnown
  <2> QED
    BY <2>1, <2>3, ElementOfSeq
<1> HIDE DEF t
<1>2. CASE s.what[t] = "file"
  <2> DEFINE file == <<t, CHOOSE p \in Paths : TRUE, 1>>
             es == <<file>>
             v == [s EXCEPT !.down = es]
             u == Read(v, file)
  <2>1. Begin(s) = {u}
    <3>1. s.what[t] \notin Walked /\ s.what[t] \notin Sending
      BY <1>2 DEF Walked, Sending
    <3> QED
      BY <1>2, <3>1 DEF Begin, t
  <2>2. file \in Entries /\ file[1] = t
    <3>1. (CHOOSE p \in Paths : TRUE) \in Paths /\ 1 \in 1 .. MaxFiles
      BY BoundsAreReal
    <3> QED
      BY <1>1, <3>1 DEF Entries
  <2> HIDE DEF file
  <2>3. /\ Manifest(es, t) /\ es \in Seq(Entries) /\ Len(es) = 1 /\ es[1] = file
    BY <2>2 DEF Manifest
  <2> HIDE DEF es
  <2>4. Changed(v, s, {"down"}) /\ v.down = es
    BY Names DEF Typed, Record, Changed
  <2> HIDE DEF v
  <2>5. Typed(v)
    <3>1. v.down \in Types["down"]
      BY <2>3, <2>4, TypeOf
    <3> QED
      BY <2>4, <3>1, TypedBut
  <2>6. /\ Typed(u) /\ Changed(u, v, {"reading", "calls", "log"})
        /\ (CallsOf(v, t) = {} /\ Busy(v, t)) =>
             /\ Busy(u, t) /\ CallsOf(u, t) = {<<"read", file>>}
             /\ \A c \in CallsOf(u, t) : u.calls[c] = 1
    BY <2>2, <2>5, Reads
  <2> HIDE DEF u
  <2>7. ASSUME Begun(s, t) PROVE Sane(u)
    <3>1. v.calls = s.calls
      BY <2>4, Names DEF Changed
    <3>2. CallsOf(v, t) = {} /\ Busy(v, t)
      BY <2>4, <2>7, <3>1, SameCalls, ChangedAside, StillBusy DEF Begun, Untouched
    <3>3. /\ u.down = es /\ u.idx = 1 /\ u.skip = {} /\ u.told = s.told
          /\ u.dialogs = s.dialogs
      BY <2>4, <2>6, <2>7, Names DEF Changed, Begun
    <3>4. Unasked(u, t)
      BY <2>7, <3>3 DEF Unasked, Begun, Untouched
    <3>5. Reading(u, t)
      <4>1. Verdicts(u, es, 1)
        BY <2>2, <2>3, <2>7, <3>3 DEF Verdicts, Begun
      <4>2. 1 <= Len(es) /\ CallsOf(u, t) = {<<"read", es[1]>>}
        BY <2>3, <2>6, <3>2
      <4> QED
        BY <2>3, <3>3, <4>1, <4>2 DEF Reading
    <3> QED
      BY <2>6, <3>2, <3>4, <3>5, Runs DEF Running
  <2>8. u.crossed = s.crossed
    BY <2>4, <2>6, Names DEF Changed
  <2> QED
    BY <2>1, <2>6, <2>7, <2>8 DEF Leads, t
<1>3. CASE s.what[t] \in Walked
  <2> DEFINE X == {t} \X Paths
             n == Cardinality(Paths)
             left == [s.left EXCEPT ![t] = n]
             v == [s EXCEPT !.left = left]
             u == Shown(Make(v, "parent", X))
             S == {<<"parent", x>> : x \in X}
  <2>1. Begin(s) = {u}
    <3>1. s.what[t] # "file" /\ s.what[t] \notin Sending
      BY <1>3 DEF Walked, Sending
    <3> QED
      BY <1>3, <3>1 DEF Begin, t
  <2>2. left \in [Transfers -> Int] /\ left[t] = n
    BY <1>1, Finite, FieldTypes
  <2> HIDE DEF left
  <2>3. Changed(v, s, {"left"}) /\ v.left = left
    BY Names DEF Typed, Record, Changed
  <2> HIDE DEF v
  <2>4. Typed(v)
    <3>1. v.left \in Types["left"]
      BY <2>2, <2>3, TypeOf
    <3> QED
      BY <2>3, <3>1, TypedBut
  <2>5. /\ X \subseteq Folders /\ (\A x \in X : x[1] = t) /\ X # {}
        /\ IsFiniteSet(X) /\ Cardinality(X) = n
    <3>1. X \subseteq Folders /\ \A x \in X : x[1] = t
      BY <1>1 DEF Folders
    <3>2. X # {}
      <4>1. PICK p \in Paths : TRUE
        BY BoundsAreReal
      <4>2. <<t, p>> \in X
        BY <4>1
      <4> QED
        BY <4>2
    <3> DEFINE g == [p \in Paths |-> <<t, p>>]
    <3>3. g \in Bijection(Paths, X)
      <4>1. g \in [Paths -> X] /\ \A p \in Paths : g[p] = <<t, p>>
        OBVIOUS
      <4>2. \A x \in X : \E p \in Paths : <<t, p>> = x
        OBVIOUS
      <4> HIDE DEF g, X
      <4>3. \A p, q \in Paths : g[p] = g[q] => p = q
        BY <4>1
      <4>4. \A x \in X : \E p \in Paths : g[p] = x
        BY <4>1, <4>2
      <4> QED
        BY <4>1, <4>3, <4>4 DEF Bijection, Injection, Surjection, IsInjective
    <3> HIDE DEF g, X
    <3>4. IsFiniteSet(X) /\ Cardinality(X) = n
      BY <3>3, Finite, FS_Bijection DEF ExistsBijection
    <3> QED
      BY <3>1, <3>2, <3>4
  <2> HIDE DEF X, n
  <2>6. S \subseteq Calls
    BY <2>5, CallTypes DEF FolderKinds
  <2>7. Typed(u) /\ Changed(u, v, {"calls", "log"})
    BY <2>4, <2>6, Requested
  <2>8. ASSUME CallsOf(v, t) = {}
        PROVE  /\ CallsOf(u, t) = S /\ (\A c \in S : u.calls[c] = 1)
               /\ Busy(v, t) => Busy(u, t)
    <3>1. S \cap CallsOf(v, t) = {}
      BY <2>8
    <3>2. /\ CallsOf(u, t) = CallsOf(v, t) \union S
          /\ \A x \in X : u.calls[<<"parent", x>>] = 1
          /\ Busy(v, t) => Busy(u, t)
      BY <2>4, <2>5, <2>6, <3>1, Asked
    <3> QED
      BY <2>8, <3>2
  <2>9. /\ S # {} /\ IsFiniteSet(S) /\ Cardinality(S) = n
        /\ \A c \in S : c[1] = "parent"
        /\ \A c, d \in S : c[2] = d[2] => c = d
    <3>1. IsFiniteSet(S) /\ Cardinality(S) = n
      BY <2>5, OneCallEach
    <3>2. S # {}
      <4>1. PICK x \in X : TRUE
        BY <2>5
      <4>2. <<"parent", x>> \in S
        BY <4>1
      <4> QED
        BY <4>2
    <3>3. \A c \in S : c[1] = "parent"
      OBVIOUS
    <3>4. \A c, d \in S : c[2] = d[2] => c = d
      OBVIOUS
    <3> HIDE DEF S
    <3> QED
      BY <3>1, <3>2, <3>3, <3>4
  <2> HIDE DEF u, S
  <2>10. ASSUME Begun(s, t) PROVE Sane(u)
    <3>1. v.calls = s.calls
      BY <2>3, Names DEF Changed
    <3>2. CallsOf(v, t) = {} /\ Busy(v, t)
      BY <2>3, <2>10, <3>1, SameCalls, ChangedAside, StillBusy DEF Begun, Untouched
    <3>3. /\ u.down = <<>> /\ u.idx = 1 /\ u.skip = {} /\ u.told = s.told
          /\ u.dialogs = s.dialogs /\ u.left[t] = n
      BY <2>2, <2>3, <2>7, <2>10, Names DEF Changed, Begun
    <3>4. /\ Manifest(u.down, t) /\ Unasked(u, t) /\ Len(u.down) = 0
          /\ \A e \in Entries : u.told[e] = 0
      BY <2>10, <3>3, EmptySeq DEF Manifest, Unasked, Begun, Untouched
    <3>5. CallsOf(u, t) = S /\ Busy(u, t) /\ \A c \in S : u.calls[c] = 1
      BY <2>8, <3>2
    <3>6. n \in Nat
      BY <2>9, FS_CardinalityType
    <3>7. Walking(u, t)
      BY <2>9, <3>3, <3>4, <3>5, <3>6 DEF Walking, Gathered, FolderKinds
    <3> QED
      BY <3>4, <3>5, <3>7, Runs DEF Running
  <2>11. u.crossed = s.crossed
    BY <2>3, <2>7, Names DEF Changed
  <2> QED
    BY <2>1, <2>7, <2>10, <2>11 DEF Leads, t
<1>4. CASE s.what[t] \in Sending
  <2>1. Begin(s) = BeginUpload(s, t)
    <3>1. s.what[t] # "file" /\ s.what[t] \notin Walked
      BY <1>4 DEF Sending, Walked
    <3> QED
      BY <1>4, <3>1 DEF Begin, t
  <2> QED
    BY <1>1, <2>1, BeginsUpload DEF t
<1> QED
  BY <1>1, <1>2, <1>3, <1>4 DEF TransferKinds

-----------------------------------------------------------------------------
(* Ending a transfer, and the next one.                                    *)

LEMMA StillKept ==
  ASSUME NEW s, Kept(s), NEW u, ~u.wrecked, u.untold = {}, u.cancelled => u.down = <<>>,
         u.what = s.what, u.dialogs = s.dialogs, BagToSet(u.calls) \subseteq BagToSet(s.calls),
         \A i, j \in 1 .. Len(u.queue) : u.queue[i] = u.queue[j] => i = j
  PROVE  Kept(u) /\ \A t : Untouched(s, t) => Untouched(u, t)
<1>1. \A t : Untouched(s, t) => Untouched(u, t)
  BY DEF Untouched, CallsOf, Unasked
<1> QED
  BY <1>1 DEF Kept

LEMMA Cut ==
  ASSUME NEW S, NEW q \in Seq(S), NEW k \in 0 .. Len(q)
  PROVE  LET r == SubSeq(q, k + 1, Len(q)) IN
         /\ r \in Seq(S) /\ Len(r) = Len(q) - k
         /\ \A i \in 1 .. Len(r) : i + k \in 1 .. Len(q) /\ r[i] = q[i + k]
<1> DEFINE r == SubSeq(q, k + 1, Len(q))
<1>1. Len(q) \in Nat /\ \A i \in k + 1 .. Len(q) : q[i] \in S
  BY LenProperties, ElementOfSeq
<1>2. /\ r \in Seq(S) /\ Len(r) = IF k + 1 <= Len(q) THEN Len(q) - (k + 1) + 1 ELSE 0
      /\ \A i \in 1 .. Len(q) - (k + 1) + 1 : r[i] = q[(k + 1) + i - 1]
  BY <1>1, SubSeqProperties
<1> HIDE DEF r
<1>3. \A i \in 1 .. Len(q) - k : (k + 1) + i - 1 = i + k /\ i + k \in 1 .. Len(q)
  BY <1>1
<1>4. Len(r) = Len(q) - k
  BY <1>1, <1>2
<1>5. ASSUME NEW i \in 1 .. Len(r) PROVE i + k \in 1 .. Len(q) /\ r[i] = q[i + k]
  <2>1. i \in 1 .. Len(q) - k /\ (k + 1) + i - 1 = i + k
    BY <1>3, <1>4
  <2>2. r[i] = q[(k + 1) + i - 1]
    BY <1>1, <1>2, <2>1
  <2> QED
    BY <1>3, <2>1, <2>2
<1> QED
  BY <1>2, <1>4, <1>5 DEF r

\* The transfers up to position k have ended, and the next one has all reset.
Passed(s, k) ==
  [Fresh(End(s, ToSet(SubSeq(s.queue, 1, k)), "completed")) EXCEPT
     !.queue = SubSeq(s.queue, k + 1, Len(s.queue))]

LEMMA Passes ==
  ASSUME NEW s, Typed(s), NEW k \in 0 .. Len(s.queue)
  PROVE  LET u == Passed(s, k) IN
         /\ Typed(u) /\ u.crossed = s.crossed /\ u.log = s.log
         /\ Between(s) => Between(u)
         /\ (Between(s) /\ s.backend /\ u.queue # <<>>) => Begun(u, Head(u.queue))
<1> DEFINE a == End(s, ToSet(SubSeq(s.queue, 1, k)), "completed")
           b == Fresh(a)
           q == SubSeq(s.queue, k + 1, Len(s.queue))
           u == [b EXCEPT !.queue = q]
           zero == [e \in Entries |-> 0]
<1>0. u = Passed(s, k)
  BY DEF Passed
<1>1. Typed(a) /\ Changed(a, s, {"ended"})
  BY EndTyped
<1> HIDE DEF a
<1>2. /\ Typed(b)
      /\ Changed(b, a, {"active", "cancelled", "down", "idx", "up", "uidx", "scans", "listed",
                        "skip", "created", "told", "blind", "answered", "unheard"})
      /\ b.active = TRUE /\ b.cancelled = FALSE
      /\ b.down = <<>> /\ b.idx = 1 /\ b.up = <<>> /\ b.uidx = 1
      /\ b.skip = {} /\ b.told = zero
      /\ b.answered = FALSE /\ b.unheard = FALSE
  BY <1>1, Freshened
<1> HIDE DEF b
<1>3. Changed(u, b, {"queue"}) /\ u.queue = q
  <2>1. Record(b)
    BY <1>2 DEF Typed
  <2> QED
    BY <2>1, Names DEF Record, Changed
<1>4. /\ u.what = s.what /\ u.dialogs = s.dialogs /\ u.calls = s.calls /\ u.untold = s.untold
      /\ u.backend = s.backend /\ u.crossed = s.crossed /\ u.wrecked = s.wrecked
      /\ u.log = s.log
  <2>1. /\ b.what = s.what /\ b.dialogs = s.dialogs /\ b.calls = s.calls
        /\ b.untold = s.untold /\ b.backend = s.backend /\ b.crossed = s.crossed
        /\ b.wrecked = s.wrecked /\ b.log = s.log
    BY <1>1, <1>2, Names DEF Changed
  <2> QED
    BY <1>3, <2>1, Names DEF Changed
<1>5. /\ u.active = TRUE /\ u.cancelled = FALSE /\ u.down = <<>> /\ u.idx = 1 /\ u.uidx = 1
      /\ u.skip = {} /\ u.told = zero /\ u.answered = FALSE
  BY <1>2, <1>3, Names DEF Changed
<1>6. /\ q \in Seq(Transfers) /\ Len(q) = Len(s.queue) - k
      /\ \A i \in 1 .. Len(q) : i + k \in 1 .. Len(s.queue) /\ q[i] = s.queue[i + k]
  BY FieldTypes, Cut
<1> HIDE DEF u, q, zero
<1>7. Typed(u)
  <2>1. Known(u)
    <3>1. \A i \in 1 .. Len(s.queue) : s.queue[i] <= Len(s.what)
      BY DEF Typed, Known
    <3> QED
      BY <1>3, <1>4, <1>6, <3>1 DEF Known
  <2>2. u.queue \in Types["queue"]
    BY <1>3, <1>6, TypeOf
  <2> QED
    BY <1>2, <1>3, <2>1, <2>2, TypedQueue
<1>8. ASSUME Between(s) PROVE Between(u)
  <2>1. \A i, j \in 1 .. Len(u.queue) : u.queue[i] = u.queue[j] => i = j
    BY <1>3, <1>6, <1>8 DEF Between, Kept
  <2>2. BagToSet(u.calls) \subseteq BagToSet(s.calls) /\ ~u.wrecked /\ u.untold = {}
    BY <1>4, <1>8 DEF Between, Kept
  <2>3. Kept(u) /\ \A t : Untouched(s, t) => Untouched(u, t)
    BY <1>4, <1>5, <1>8, <2>1, <2>2, StillKept DEF Between
  <2>4. Queued(u, 1)
    BY <1>3, <1>6, <1>8, <2>3 DEF Between, Queued
  <2> QED
    BY <2>3, <2>4 DEF Between
<1>9. ASSUME Between(s), s.backend, u.queue # <<>> PROVE Begun(u, Head(u.queue))
  <2> DEFINE t == Head(u.queue)
  <2>1. u.queue \in Seq(Transfers)
    BY <1>3, <1>6
  <2>2. t = u.queue[1] /\ Len(u.queue) \in Nat \ {0}
    BY <1>9, <2>1, TailShape
  <2> HIDE DEF t
  <2>3. Untouched(u, t) /\ Queued(u, 2)
    BY <1>8, <1>9, <2>2 DEF Between, Queued
  <2>4. Busy(u, t)
    BY <1>4, <1>5, <1>8, <1>9, <2>3 DEF Between, Busy, t
  <2>5. \A e \in Entries : u.told[e] = 0
    BY <1>5 DEF zero
  <2> QED
    BY <1>5, <2>3, <2>4, <2>5 DEF Begun, t
<1> QED
  BY <1>0, <1>4, <1>7, <1>8, <1>9

LEMMA Starts ==
  ASSUME NEW s, Typed(s)
  PROVE  Leads(s, Between(s), StartNext(s))
<1> SUFFICES ASSUME NEW u \in StartNext(s)
             PROVE  /\ Typed(u) /\ (s.crossed => u.crossed)
                    /\ Between(s) => Sane(u)
  BY DEF Leads
<1>1. CASE s.queue = <<>>
  <2>1. u = [s EXCEPT !.active = FALSE]
    BY <1>1 DEF StartNext
  <2>2. Changed(u, s, {"active"}) /\ u.active = FALSE
    BY <2>1, Names DEF Typed, Record, Changed
  <2>3. Typed(u)
    <3>1. u.active \in Types["active"]
      BY <2>2, TypeOf
    <3> QED
      BY <2>2, <3>1, TypedBut
  <2>4. /\ u.crossed = s.crossed /\ u.wrecked = s.wrecked /\ u.untold = s.untold
        /\ u.cancelled = s.cancelled /\ u.down = s.down /\ u.queue = s.queue
        /\ u.what = s.what /\ u.dialogs = s.dialogs /\ u.calls = s.calls
    BY <2>2, Names DEF Changed
  <2>5. ASSUME Between(s) PROVE Sane(u)
    <3>1. /\ Kept(s) /\ ~u.wrecked /\ u.untold = {} /\ (u.cancelled => u.down = <<>>)
          /\ \A i, j \in 1 .. Len(u.queue) : u.queue[i] = u.queue[j] => i = j
      BY <2>4, <2>5 DEF Between, Kept
    <3>2. Kept(u)
      BY <2>4, <3>1, StillKept
    <3> QED
      BY <1>1, <2>2, <2>4, <3>2 DEF Sane
  <2> QED
    BY <2>3, <2>4, <2>5
<1>2. CASE s.queue # <<>> /\ ~s.backend
  <2> DEFINE a == Fresh(s)
             b == End(a, ToSet(s.queue), "failed")
  <2>1. u = [b EXCEPT !.queue = <<>>, !.active = FALSE]
    BY <1>2 DEF StartNext
  <2>2. /\ Typed(a)
        /\ Changed(a, s, {"active", "cancelled", "down", "idx", "up", "uidx", "scans", "listed",
                          "skip", "created", "told", "blind", "answered", "unheard"})
        /\ a.cancelled = FALSE
    BY Freshened
  <2> HIDE DEF a
  <2>3. Typed(b) /\ Changed(b, a, {"ended"})
    BY <2>2, EndTyped
  <2> HIDE DEF b
  <2>4. Changed(u, b, {"queue", "active"}) /\ u.queue = <<>> /\ u.active = FALSE
    BY <2>1, <2>3, Names DEF Typed, Record, Changed
  <2>5. Typed(u)
    <3>0. <<>> \in Seq(Transfers)
      BY EmptySeq
    <3>1. u.queue \in Types["queue"] /\ u.active \in Types["active"]
      BY <2>4, <3>0, TypeOf
    <3>2. Known(u)
      BY <2>4, EmptySeq DEF Known
    <3> QED
      BY <2>3, <2>4, <3>1, <3>2, TypedQueue
  <2>6. /\ u.crossed = s.crossed /\ u.wrecked = s.wrecked /\ u.untold = s.untold
        /\ u.cancelled = FALSE
        /\ u.what = s.what /\ u.dialogs = s.dialogs /\ u.calls = s.calls
    BY <2>2, <2>3, <2>4, Names DEF Changed
  <2>7. ASSUME Between(s) PROVE Sane(u)
    <3>1. \A i, j \in 1 .. Len(u.queue) : u.queue[i] = u.queue[j] => i = j
      BY <2>4, EmptySeq
    <3>2. Kept(u)
      BY <2>6, <2>7, <3>1, StillKept DEF Between, Kept
    <3> QED
      BY <2>4, <3>2 DEF Sane
  <2> QED
    BY <2>5, <2>6, <2>7
<1>3. CASE s.queue # <<>> /\ s.backend
  <2>1. PICK k \in 0 .. Len(s.queue) :
          u \in LET next == [Fresh(End(s, ToSet(SubSeq(s.queue, 1, k)), "completed")) EXCEPT
                               !.queue = SubSeq(@, k + 1, Len(@))]
                IN IF next.queue = <<>>
                   THEN {[Shown(next) EXCEPT !.active = FALSE, !.log = "idle"]}
                   ELSE Begin(next)
    BY <1>3 DEF StartNext
  <2> DEFINE next == Passed(s, k)
  <2>2. u \in IF next.queue = <<>>
              THEN {[Shown(next) EXCEPT !.active = FALSE, !.log = "idle"]}
              ELSE Begin(next)
    <3> DEFINE a == End(s, ToSet(SubSeq(s.queue, 1, k)), "completed")
               b == Fresh(a)
    <3>1. Typed(a) /\ Changed(a, s, {"ended"})
      BY EndTyped
    <3> HIDE DEF a
    <3>2. Changed(b, a, {"active", "cancelled", "down", "idx", "up", "uidx", "scans", "listed",
                         "skip", "created", "told", "blind", "answered", "unheard"})
      BY <3>1, Freshened
    <3> HIDE DEF b
    <3>3. b.queue = s.queue
      BY <3>1, <3>2, Names DEF Changed
    <3>4. next = [b EXCEPT !.queue = SubSeq(@, k + 1, Len(@))]
      BY <3>3 DEF Passed, a, b
    <3> HIDE DEF next
    <3> QED
      BY <2>1, <3>4 DEF a, b
  <2>3. /\ Typed(next) /\ next.crossed = s.crossed
        /\ Between(s) => Between(next)
        /\ (Between(s) /\ s.backend /\ next.queue # <<>>) => Begun(next, Head(next.queue))
    BY Passes
  <2> HIDE DEF next
  <2>4. CASE next.queue # <<>>
    <3>1. Leads(next, Begun(next, Head(next.queue)), Begin(next)) /\ u \in Begin(next)
      BY <2>2, <2>3, <2>4, Begins
    <3> QED
      BY <1>3, <2>3, <2>4, <3>1 DEF Leads
  <2>5. CASE next.queue = <<>>
    <3> DEFINE v == Shown(next)
    <3>1. Typed(v) /\ Changed(v, next, {"log"})
      BY <2>3, LogShown
    <3>2. u = [v EXCEPT !.active = FALSE, !.log = "idle"]
      BY <2>2, <2>5
    <3> HIDE DEF v
    <3>3. Changed(u, v, {"active", "log"}) /\ u.active = FALSE /\ u.log = "idle"
      BY <3>1, <3>2, Names DEF Typed, Record, Changed
    <3>4. Typed(u)
      <4>1. u.active \in Types["active"] /\ u.log \in Types["log"]
        BY <3>3, TypeOf
      <4> QED
        BY <3>1, <3>3, <4>1, TypedBut
    <3>5. /\ u.crossed = next.crossed /\ u.wrecked = next.wrecked /\ u.untold = next.untold
          /\ u.cancelled = next.cancelled /\ u.down = next.down /\ u.queue = next.queue
          /\ u.what = next.what /\ u.dialogs = next.dialogs /\ u.calls = next.calls
      BY <3>1, <3>3, Names DEF Changed
    <3>6. ASSUME Between(s) PROVE Sane(u)
      <4>1. /\ Kept(next) /\ ~u.wrecked /\ u.untold = {} /\ (u.cancelled => u.down = <<>>)
            /\ \A i, j \in 1 .. Len(u.queue) : u.queue[i] = u.queue[j] => i = j
        BY <2>3, <3>5, <3>6 DEF Between, Kept
      <4>2. Kept(u)
        BY <3>5, <4>1, StillKept
      <4> QED
        BY <2>5, <3>3, <3>5, <4>2 DEF Sane
    <3> QED
      BY <2>3, <3>4, <3>5, <3>6
  <2> QED
    BY <2>4, <2>5
<1> QED
  BY <1>1, <1>2, <1>3

LEMMA Pops ==
  ASSUME NEW s, Typed(s), NEW how \in {"completed", "failed", "cancelled", "lost"}
  PROVE  LET u == Pop(s, how) IN
         /\ Typed(u) /\ u.crossed = s.crossed
         /\ u.untold = s.untold /\ u.skip = s.skip /\ u.told = s.told
         /\ \A t : Busy(s, t) => Between(u)
<1> DEFINE u == Pop(s, how)
<1>1. CASE s.queue = <<>>
  <2>1. u = [s EXCEPT !.wrecked = TRUE]
    BY <1>1 DEF Pop
  <2> HIDE DEF u
  <2>2. Changed(u, s, {"wrecked"}) /\ u.wrecked = TRUE
    BY <2>1, Names DEF Typed, Record, Changed
  <2>3. Typed(u)
    <3>1. u.wrecked \in Types["wrecked"]
      <4>1. Types["wrecked"] = BOOLEAN
        BY TypeOf
      <4> QED
        BY <2>2, <4>1
    <3> QED
      BY <2>2, <3>1, TypedBut
  <2>4. /\ u.crossed = s.crossed /\ u.untold = s.untold /\ u.skip = s.skip /\ u.told = s.told
        /\ \A t : ~Busy(s, t)
    BY <1>1, <2>2, Names DEF Changed, Busy
  <2> QED
    BY <2>3, <2>4 DEF u
<1>2. CASE s.queue # <<>>
  <2> DEFINE a == End(s, {Head(s.queue)}, how)
             q == Tail(s.queue)
  <2>1. Typed(a) /\ Changed(a, s, {"ended"})
    BY EndTyped
  <2>2. u = [a EXCEPT !.queue = q]
    <3>1. a.queue = s.queue
      BY <2>1, Names DEF Changed
    <3> QED
      BY <1>2, <3>1 DEF Pop
  <2> HIDE DEF a, u
  <2>3. Changed(u, a, {"queue"}) /\ u.queue = q
    BY <2>1, <2>2, Names DEF Typed, Record, Changed
  <2>4. /\ q \in Seq(Transfers) /\ Len(q) = Len(s.queue) - 1 /\ Len(s.queue) \in Nat \ {0}
        /\ \A i \in 1 .. Len(q) : i + 1 \in 2 .. Len(s.queue) /\ q[i] = s.queue[i + 1]
    <3>1. s.queue \in Seq(Transfers)
      BY FieldTypes
    <3>2. /\ q \in Seq(Transfers) /\ Len(q) = Len(s.queue) - 1 /\ Len(s.queue) \in Nat \ {0}
          /\ \A i \in 1 .. Len(q) : q[i] = s.queue[i + 1]
      BY <1>2, <3>1, HeadTailProperties, EmptySeq
    <3> HIDE DEF q
    <3> QED
      BY <3>2
  <2> HIDE DEF q
  <2>5. /\ u.what = s.what /\ u.dialogs = s.dialogs /\ u.calls = s.calls /\ u.untold = s.untold
        /\ u.crossed = s.crossed /\ u.wrecked = s.wrecked /\ u.cancelled = s.cancelled
        /\ u.down = s.down /\ u.skip = s.skip /\ u.told = s.told
    BY <2>1, <2>3, Names DEF Changed
  <2>6. Typed(u)
    <3>1. \A i \in 1 .. Len(s.queue) : s.queue[i] <= Len(s.what)
      BY DEF Typed, Known
    <3>2. Known(u)
      BY <2>3, <2>4, <2>5, <3>1 DEF Known
    <3>3. u.queue \in Types["queue"]
      BY <2>3, <2>4, TypeOf
    <3> QED
      BY <2>1, <2>3, <3>2, <3>3, TypedQueue
  <2>7. ASSUME NEW t, Busy(s, t) PROVE Between(u)
    <3>1. /\ Kept(s) /\ ~u.wrecked /\ u.untold = {} /\ (u.cancelled => u.down = <<>>)
      BY <2>5, <2>7 DEF Busy, Kept
    <3>2. \A i, j \in 1 .. Len(u.queue) : u.queue[i] = u.queue[j] => i = j
      <4>1. \A i, j \in 1 .. Len(s.queue) : s.queue[i] = s.queue[j] => i = j
        BY <3>1 DEF Kept
      <4>2. ASSUME NEW i \in 1 .. Len(q), NEW j \in 1 .. Len(q), q[i] = q[j] PROVE i = j
        <5>1. i + 1 \in 1 .. Len(s.queue) /\ j + 1 \in 1 .. Len(s.queue)
          BY <2>4
        <5>2. q[i] = s.queue[i + 1] /\ q[j] = s.queue[j + 1]
          BY <2>4
        <5>3. i + 1 = j + 1
          BY <4>1, <4>2, <5>1, <5>2
        <5> QED
          BY <2>4, <5>3
      <4> QED
        BY <2>3, <4>2
    <3>3. Kept(u) /\ \A r : Untouched(s, r) => Untouched(u, r)
      BY <2>5, <3>1, <3>2, StillKept
    <3>4. Queued(u, 1)
      BY <2>3, <2>4, <2>7, <3>3 DEF Busy, Queued
    <3> QED
      BY <3>3, <3>4 DEF Between
  <2> QED
    BY <2>5, <2>6, <2>7 DEF u
<1> QED
  BY <1>1, <1>2

\* What a transfer leaves when it is over.
LEMMA StillBetween ==
  ASSUME NEW s, Between(s), NEW u, NEW F, Changed(u, s, F), F \subseteq {"untold", "active", "log"},
         u.untold = {}
  PROVE  Between(u)
<1>1. /\ u.what = s.what /\ u.dialogs = s.dialogs /\ u.calls = s.calls /\ u.queue = s.queue
      /\ u.wrecked = s.wrecked /\ u.cancelled = s.cancelled /\ u.down = s.down
  BY Names DEF Changed
<1>2. /\ Kept(s) /\ ~u.wrecked /\ (u.cancelled => u.down = <<>>)
      /\ \A i, j \in 1 .. Len(u.queue) : u.queue[i] = u.queue[j] => i = j
  BY <1>1 DEF Between, Kept
<1>3. Kept(u) /\ \A r : Untouched(s, r) => Untouched(u, r)
  BY <1>1, <1>2, StillKept
<1> QED
  BY <1>1, <1>3 DEF Between, Queued

\* Every file of the manifest has its one verdict, or none if it was to be skipped.
Whole(s, es) == \A i \in 1 .. Len(es) : s.told[es[i]] = IF es[i] \in s.skip THEN 0 ELSE 1

LEMMA Finishes ==
  ASSUME NEW s, Typed(s), NEW es \in Seq(Entries), NEW t
  PROVE  Leads(s, Busy(s, t) /\ Whole(s, es), Finish(s, es))
<1> DEFINE verdicts(e) == IF e \in s.skip THEN 0 ELSE 1
           wrong == {e \in ToSet(es) : s.told[e] # verdicts(e)}
           a == Pop(s, "completed")
           v == [a EXCEPT !.untold = @ \union wrong, !.log = "idle"]
<1>1. Finish(s, es) = IF v.wrecked THEN {v} ELSE StartNext(v)
  BY DEF Finish
<1>2. wrong \subseteq Entries /\ (Whole(s, es) => wrong = {})
  <2>1. DOMAIN es = 1 .. Len(es) /\ \A i \in 1 .. Len(es) : es[i] \in Entries
    BY LenProperties, ElementOfSeq
  <2>2. ToSet(es) = {es[i] : i \in 1 .. Len(es)}
    BY <2>1 DEF ToSet
  <2> QED
    BY <2>1, <2>2 DEF Whole
<1> HIDE DEF wrong
<1>3. /\ Typed(a) /\ a.crossed = s.crossed /\ a.untold = s.untold
      /\ \A r : Busy(s, r) => Between(a)
  BY Pops
<1> HIDE DEF a
<1>4. Changed(v, a, {"untold", "log"}) /\ v.untold = s.untold \union wrong /\ v.log = "idle"
  BY <1>3, Names DEF Typed, Record, Changed
<1> HIDE DEF v
<1>5. Typed(v)
  <2>1. v.untold \in Types["untold"] /\ v.log \in Types["log"]
    BY <1>2, <1>4, FieldTypes, TypeOf
  <2> QED
    BY <1>3, <1>4, <2>1, TypedBut
<1>6. v.crossed = s.crossed
  BY <1>3, <1>4, Names DEF Changed
<1>7. ASSUME Busy(s, t), Whole(s, es) PROVE Between(v)
  <2>1. v.untold = {}
    BY <1>2, <1>4, <1>7 DEF Busy, Kept
  <2> QED
    BY <1>3, <1>4, <1>7, <2>1, StillBetween
<1>8. Leads(v, Between(v), StartNext(v))
  BY <1>5, Starts
<1>9. Between(v) => ~v.wrecked
  BY DEF Between, Kept
<1> QED
  BY <1>1, <1>5, <1>6, <1>7, <1>8, <1>9 DEF Leads

LEMMA GivesUp ==
  ASSUME NEW s, Typed(s), NEW t
  PROVE  Leads(s, Busy(s, t), GiveUp(s))
<1> DEFINE a == Pop(s, "failed")
           v == [a EXCEPT !.active = FALSE]
<1>1. GiveUp(s) = IF v.wrecked THEN {v} ELSE StartNext(v)
  BY DEF GiveUp
<1>3. /\ Typed(a) /\ a.crossed = s.crossed /\ a.untold = s.untold
      /\ \A r : Busy(s, r) => Between(a)
  BY Pops
<1> HIDE DEF a
<1>4. Changed(v, a, {"active"}) /\ v.active = FALSE
  BY <1>3, Names DEF Typed, Record, Changed
<1> HIDE DEF v
<1>5. Typed(v)
  <2>1. v.active \in Types["active"]
    BY <1>4, TypeOf
  <2> QED
    BY <1>3, <1>4, <2>1, TypedBut
<1>6. v.crossed = s.crossed /\ v.untold = s.untold
  BY <1>3, <1>4, Names DEF Changed
<1>7. ASSUME Busy(s, t) PROVE Between(v)
  <2>1. v.untold = {}
    BY <1>6, <1>7 DEF Busy, Kept
  <2> QED
    BY <1>3, <1>4, <1>7, <2>1, StillBetween
<1>8. Leads(v, Between(v), StartNext(v))
  BY <1>5, Starts
<1>9. Between(v) => ~v.wrecked
  BY DEF Between, Kept
<1> QED
  BY <1>1, <1>5, <1>6, <1>7, <1>8, <1>9 DEF Leads

-----------------------------------------------------------------------------
(* Downloads.                                                              *)

\* The next file may be read.
Ready(s, t) == Busy(s, t) /\ Downloading(s, t) /\ Unasked(s, t)

LEMMA NextFileLeads ==
  ASSUME NEW s, Typed(s), NEW t
  PROVE  Leads(s, Ready(s, t), NextFile(s))
<1> SUFFICES ASSUME NEW u \in NextFile(s)
             PROVE  /\ Typed(u) /\ (s.crossed => u.crossed)
                    /\ Ready(s, t) => Sane(u)
  BY DEF Leads
<1>1. CASE s.cancelled
  BY <1>1 DEF NextFile, Ready, Busy
<1>2. CASE ~s.cancelled /\ ~s.backend
  <2>1. u = [s EXCEPT !.active = FALSE]
    BY <1>2 DEF NextFile
  <2>2. Changed(u, s, {"active"}) /\ u.active = FALSE
    BY <2>1, Names DEF Typed, Record, Changed
  <2>3. Typed(u)
    <3>1. u.active \in Types["active"]
      BY <2>2, TypeOf
    <3> QED
      BY <2>2, <3>1, TypedBut
  <2> QED
    BY <1>2, <2>2, <2>3, Names DEF Changed, Ready, Busy
<1>3. CASE ~s.cancelled /\ s.backend /\ s.idx > Len(s.down)
  <2>1. u \in Finish(s, s.down)
    BY <1>3 DEF NextFile
  <2>2. Leads(s, Busy(s, t) /\ Whole(s, s.down), Finish(s, s.down))
    BY FieldTypes, Finishes
  <2>3. ASSUME Downloading(s, t) PROVE Whole(s, s.down)
    BY <1>3, <2>3, FieldTypes, LenProperties DEF Downloading, Verdicts, Whole
  <2> QED
    BY <2>1, <2>2, <2>3 DEF Leads, Ready
<1>4. CASE ~s.cancelled /\ s.backend /\ ~(s.idx > Len(s.down))
  <2> DEFINE e == s.down[s.idx]
  <2>1. u = Read(s, e)
    BY <1>4 DEF NextFile
  <2>2. s.idx \in 1 .. Len(s.down) /\ e \in Entries
    BY <1>4, FieldTypes, LenProperties, ElementOfSeq
  <2>3. /\ Typed(u) /\ Changed(u, s, {"reading", "calls", "log"})
        /\ (CallsOf(s, e[1]) = {} /\ Busy(s, e[1])) =>
             /\ Busy(u, e[1]) /\ CallsOf(u, e[1]) = {<<"read", e>>}
             /\ \A c \in CallsOf(u, e[1]) : u.calls[c] = 1
    BY <2>1, <2>2, Reads
  <2>4. ASSUME Busy(s, t), Downloading(s, t), Unasked(s, t) PROVE Sane(u)
    <3>1. e[1] = t
      BY <2>2, <2>4 DEF Downloading, Manifest
    <3>2. /\ u.down = s.down /\ u.idx = s.idx /\ u.skip = s.skip /\ u.told = s.told
          /\ u.dialogs = s.dialogs
      BY <2>3, Names DEF Changed
    <3>3. Busy(u, t) /\ CallsOf(u, t) = {<<"read", e>>} /\ \A c \in CallsOf(u, t) : u.calls[c] = 1
      BY <2>3, <2>4, <3>1 DEF Downloading
    <3>4. Reading(u, t)
      BY <2>2, <2>4, <3>2, <3>3 DEF Downloading, Reading, Verdicts
    <3>5. Unasked(u, t)
      BY <2>4, <3>2 DEF Unasked
    <3> QED
      BY <3>3, <3>4, <3>5, Runs DEF Running
  <2> QED
    BY <2>3, <2>4, Names DEF Changed, Ready
<1> QED
  BY <1>1, <1>2, <1>3, <1>4

\* One step of the archive.
LEMMA ArchiveCall ==
  ASSUME NEW s, Typed(s), NEW t \in Transfers, NEW kind \in ArchiveKinds,
         NEW u, u = Make(s, kind, {<<t>>}) \/ u = Shown(Make(s, kind, {<<t>>}))
  PROVE  /\ Typed(u) /\ (s.crossed => u.crossed)
         /\ (Ready(s, t) /\ s.idx = 1 /\ s.down # <<>>) => Sane(u)
<1> DEFINE x == <<t>>
<1>1. <<kind, x>> \in Calls /\ x[1] = t
  BY CallTypes
<1> HIDE DEF x
<1>2. /\ Typed(u) /\ Changed(u, s, {"calls", "log"})
      /\ (CallsOf(s, t) = {} /\ Busy(s, t)) =>
           /\ Busy(u, t) /\ CallsOf(u, t) = {<<kind, x>>}
           /\ \A c \in CallsOf(u, t) : u.calls[c] = 1
  BY <1>1, AskedOne DEF x
<1>3. ASSUME Ready(s, t), s.idx = 1, s.down # <<>> PROVE Sane(u)
  <2>1. /\ u.down = s.down /\ u.idx = s.idx /\ u.skip = s.skip /\ u.told = s.told
        /\ u.dialogs = s.dialogs
    BY <1>2, Names DEF Changed
  <2>2. Busy(u, t) /\ CallsOf(u, t) = {<<kind, x>>} /\ \A c \in CallsOf(u, t) : u.calls[c] = 1
    BY <1>2, <1>3 DEF Ready, Downloading
  <2>3. Verdicts(u, u.down, 1) /\ Unasked(u, t)
    BY <1>3, <2>1 DEF Ready, Downloading, Verdicts, Unasked
  <2>4. Archiving(u, t)
    BY <1>3, <2>1, <2>2, <2>3 DEF Ready, Downloading, Archiving, x
  <2> QED
    BY <2>2, <2>3, <2>4, Runs DEF Running
<1> QED
  BY <1>2, <1>3, Names DEF Changed

LEMMA ArchiveLeads ==
  ASSUME NEW s, Typed(s), NEW t \in Transfers
  PROVE  Leads(s, Ready(s, t) /\ s.idx = 1 /\ s.down # <<>>, DownloadViaArchive(s, t))
<1> SUFFICES ASSUME NEW u \in DownloadViaArchive(s, t)
             PROVE  /\ Typed(u) /\ (s.crossed => u.crossed)
                    /\ (Ready(s, t) /\ s.idx = 1 /\ s.down # <<>>) => Sane(u)
  BY DEF Leads
<1>1. s.tar \in {"unknown", "yes", "no"}
  BY FieldTypes
<1>2. ASSUME NEW kind \in ArchiveKinds,
             u = Make(s, kind, {<<t>>}) \/ u = Shown(Make(s, kind, {<<t>>}))
      PROVE  /\ Typed(u) /\ (s.crossed => u.crossed)
             /\ (Ready(s, t) /\ s.idx = 1 /\ s.down # <<>>) => Sane(u)
  BY <1>2, ArchiveCall
<1>3. CASE s.tar = "yes"
  BY <1>2, <1>3 DEF DownloadViaArchive, CreateArchive, ArchiveKinds
<1>4. CASE s.tar = "unknown"
  BY <1>2, <1>4 DEF DownloadViaArchive, ArchiveKinds
<1>5. CASE s.tar = "no"
  <2>1. u \in NextFile(s)
    BY <1>5 DEF DownloadViaArchive
  <2> QED
    BY <2>1, NextFileLeads DEF Leads
<1> QED
  BY <1>1, <1>3, <1>4, <1>5

LEMMA WalkDoneLeads ==
  ASSUME NEW s, Typed(s), NEW t \in Transfers
  PROVE  Leads(s, Ready(s, t) /\ s.idx = 1, WalkDone(s, t))
<1>1. s.down \in Seq(Entries) /\ Len(s.down) \in Nat /\ (Len(s.down) = 0 <=> s.down = <<>>)
  BY FieldTypes, LenProperties, EmptySeq
<1>2. CASE s.down = <<>>
  <2>1. WalkDone(s, t) = Finish(s, <<>>)
    BY <1>1, <1>2 DEF WalkDone
  <2>2. Leads(s, Busy(s, t) /\ Whole(s, <<>>), Finish(s, <<>>))
    BY <1>1, <1>2, Finishes
  <2>3. Whole(s, <<>>)
    BY <1>1, <1>2 DEF Whole
  <2> QED
    BY <2>1, <2>2, <2>3 DEF Leads, Ready
<1>3. CASE Len(s.down) = 1
  <2>1. WalkDone(s, t) = NextFile(s)
    BY <1>1, <1>3 DEF WalkDone
  <2> QED
    BY <2>1, NextFileLeads DEF Leads
<1>4. CASE Len(s.down) >= 2
  <2>1. WalkDone(s, t) = DownloadViaArchive(s, t) /\ s.down # <<>>
    BY <1>1, <1>4 DEF WalkDone
  <2> QED
    BY <2>1, ArchiveLeads DEF Leads
<1>5. s.down = <<>> \/ Len(s.down) = 1 \/ Len(s.down) >= 2
  <2> DEFINE n == Len(s.down)
  <2>1. n \in Nat /\ (n = 0 => s.down = <<>>)
    BY <1>1
  <2> HIDE DEF n
  <2>2. n = 0 \/ n = 1 \/ n >= 2
    BY <2>1
  <2> QED
    BY <2>1, <2>2 DEF n
<1> QED
  BY <1>2, <1>3, <1>4, <1>5

\* A callback that is being counted, and leaves as many calls as are counted for it.
LEMMA CountedLeads ==
  ASSUME NEW s, Typed(s), NEW t \in Transfers, NEW more \in {0, 1}
  PROVE  Leads(s, Busy(s, t) /\ Unasked(s, t) /\ Gathered(s, t, 1 - more), Counted(s, t, more))
<1> DEFINE left == [s.left EXCEPT ![t] = @ - 1 + more]
           v == [s EXCEPT !.left = left]
<1>1. Counted(s, t, more) = IF v.left[t] = 0 THEN WalkDone(v, t) ELSE {v}
  BY DEF Counted
<1>2. left \in [Transfers -> Int] /\ left[t] = s.left[t] - 1 + more /\ s.left[t] \in Int
  BY FieldTypes
<1> HIDE DEF left
<1>3. Changed(v, s, {"left"}) /\ v.left = left
  BY Names DEF Typed, Record, Changed
<1> HIDE DEF v
<1>4. Typed(v)
  <2>1. v.left \in Types["left"]
    BY <1>2, <1>3, TypeOf
  <2> QED
    BY <1>3, <2>1, TypedBut
<1>5. /\ v.calls = s.calls /\ v.down = s.down /\ v.idx = s.idx /\ v.skip = s.skip
      /\ v.told = s.told /\ v.dialogs = s.dialogs /\ v.crossed = s.crossed
  BY <1>3, Names DEF Changed
<1>6. ASSUME Busy(s, t), Unasked(s, t), Gathered(s, t, 1 - more)
      PROVE  Busy(v, t) /\ Unasked(v, t) /\ Gathered(v, t, 0)
  <2>1. Busy(v, t) /\ CallsOf(v, t) = CallsOf(s, t)
    BY <1>3, <1>5, <1>6, SameCalls, ChangedAside, StillBusy
  <2>2. Unasked(v, t)
    BY <1>5, <1>6 DEF Unasked
  <2>3. Cardinality(CallsOf(s, t)) \in Nat
    BY <1>6, FS_CardinalityType DEF Gathered
  <2>4. v.left[t] = Cardinality(CallsOf(v, t)) + 0
    BY <1>2, <1>3, <1>6, <2>1, <2>3 DEF Gathered
  <2>5. Gathered(v, t, 0)
    BY <1>5, <1>6, <2>1, <2>4 DEF Gathered, Verdicts
  <2> QED
    BY <2>1, <2>2, <2>5
<1>7. CASE v.left[t] # 0
  <2>1. ASSUME Busy(s, t), Unasked(s, t), Gathered(s, t, 1 - more) PROVE Sane(v)
    <3>1. Busy(v, t) /\ Unasked(v, t) /\ Gathered(v, t, 0)
      BY <1>6, <2>1
    <3>2. CallsOf(v, t) # {} /\ \A c \in CallsOf(v, t) : v.calls[c] = 1
      BY <1>7, <3>1, FS_EmptySet DEF Gathered
    <3> QED
      BY <3>1, <3>2, Runs DEF Walking, Running
  <2> QED
    BY <1>1, <1>4, <1>5, <1>7, <2>1 DEF Leads
<1>8. CASE v.left[t] = 0
  <2>1. ASSUME Busy(s, t), Unasked(s, t), Gathered(s, t, 1 - more)
        PROVE  Ready(v, t) /\ v.idx = 1
    <3>1. Busy(v, t) /\ Unasked(v, t) /\ Gathered(v, t, 0)
      BY <1>6, <2>1
    <3>2. CallsOf(v, t) = {}
      <4>1. Cardinality(CallsOf(v, t)) \in Nat
        BY <3>1, FS_CardinalityType DEF Gathered
      <4> QED
        BY <1>8, <3>1, <4>1, FS_EmptySet DEF Gathered
    <3>3. Len(v.down) \in Nat
      BY <1>4, FieldTypes, LenProperties
    <3>4. Verdicts(v, v.down, 1)
      BY <3>1, ManifestFacts DEF Gathered, Verdicts
    <3> QED
      BY <3>1, <3>2, <3>3, <3>4 DEF Ready, Downloading, Gathered
  <2>2. Leads(v, Ready(v, t) /\ v.idx = 1, WalkDone(v, t))
    BY <1>4, WalkDoneLeads
  <2> QED
    BY <1>1, <1>5, <1>8, <2>1, <2>2 DEF Leads
<1> QED
  BY <1>7, <1>8

-----------------------------------------------------------------------------
(* Uploads.                                                                *)

\* The manager has gone on to position j of the manifest, past what is to be skipped
\* and past files that cannot be opened.
GoneTo(s, j) ==
  [s EXCEPT !.uidx = j,
            !.told = [e \in Entries |->
              IF e \in {s.up[i] : i \in {k \in s.uidx .. j - 1 : s.up[k] \notin s.skip}}
              THEN @[e] + 1 ELSE @[e]]]

LEMMA GoesTo ==
  ASSUME NEW s, Typed(s), NEW j \in s.uidx .. Len(s.up) + 1, NEW t
  PROVE  LET u == GoneTo(s, j) IN
         /\ Typed(u) /\ Changed(u, s, {"uidx", "told"}) /\ u.uidx = j
         /\ (Busy(s, t) /\ Uploading(s, t)) => Busy(u, t) /\ Uploading(u, t)
<1> DEFINE passed == {s.up[i] : i \in {k \in s.uidx .. j - 1 : s.up[k] \notin s.skip}}
           told == [e \in Entries |-> IF e \in passed THEN s.told[e] + 1 ELSE s.told[e]]
           u == GoneTo(s, j)
<1>1. u = [s EXCEPT !.uidx = j, !.told = told]
  BY DEF GoneTo
<1>2. /\ s.told \in [Entries -> Nat] /\ s.uidx \in Nat \ {0} /\ Len(s.up) \in Nat
      /\ \A i \in 1 .. Len(s.up) : s.up[i] \in Entries
  BY FieldTypes, LenProperties, ElementOfSeq
<1>3. j \in Nat \ {0} /\ j <= Len(s.up) + 1
  BY <1>2
<1> HIDE DEF passed
<1>4. /\ told \in [Entries -> Nat]
      /\ \A e \in Entries : told[e] = IF e \in passed THEN s.told[e] + 1 ELSE s.told[e]
  BY <1>2
<1> HIDE DEF told, u
<1>5. Changed(u, s, {"uidx", "told"}) /\ u.uidx = j /\ u.told = told
  BY <1>1, Names DEF Typed, Record, Changed
<1>6. Typed(u)
  <2>1. u.uidx \in Types["uidx"] /\ u.told \in Types["told"]
    BY <1>3, <1>4, <1>5, TypeOf
  <2> QED
    BY <1>5, <2>1, TypedBut
<1>7. ASSUME Busy(s, t), Uploading(s, t) PROVE Busy(u, t) /\ Uploading(u, t)
  <2>1. /\ u.up = s.up /\ u.skip = s.skip /\ u.what = s.what /\ u.answered = s.answered
        /\ u.blind = s.blind /\ u.dialogs = s.dialogs /\ u.calls = s.calls
    BY <1>5, Names DEF Changed
  <2>2. Busy(u, t) /\ CallsOf(u, t) = CallsOf(s, t)
    BY <1>5, <1>7, <2>1, SameCalls, ChangedAside, StillBusy
  <2>3. \A i, k \in 1 .. Len(s.up) : s.up[i] = s.up[k] => i = k
    BY <1>7 DEF Uploading, Manifest
  <2>4. ASSUME NEW i \in 1 .. Len(s.up)
        PROVE  s.up[i] \in passed <=> i \in s.uidx .. j - 1 /\ s.up[i] \notin s.skip
    <3>1. ASSUME s.up[i] \in passed PROVE i \in s.uidx .. j - 1 /\ s.up[i] \notin s.skip
      <4>1. PICK k \in s.uidx .. j - 1 : s.up[k] \notin s.skip /\ s.up[k] = s.up[i]
        BY <3>1 DEF passed
      <4>2. k \in 1 .. Len(s.up)
        BY <1>2, <1>3
      <4> QED
        BY <2>3, <4>1, <4>2
    <3>2. ASSUME i \in s.uidx .. j - 1, s.up[i] \notin s.skip PROVE s.up[i] \in passed
      BY <3>2 DEF passed
    <3> QED
      BY <3>1, <3>2
  <2>5. ASSUME NEW i \in 1 .. Len(s.up)
        PROVE  told[s.up[i]] = IF i < j /\ s.up[i] \notin s.skip THEN 1 ELSE 0
    <3>1. s.told[s.up[i]] = IF i < s.uidx /\ s.up[i] \notin s.skip THEN 1 ELSE 0
      BY <1>7 DEF Uploading, Verdicts
    <3>2. told[s.up[i]] = IF s.up[i] \in passed THEN s.told[s.up[i]] + 1 ELSE s.told[s.up[i]]
      BY <1>2, <1>4
    <3>3. s.up[i] \in passed <=> i \in s.uidx .. j - 1 /\ s.up[i] \notin s.skip
      BY <2>4
    <3> QED
      BY <1>2, <1>3, <3>1, <3>2, <3>3
  <2>6. Verdicts(u, u.up, u.uidx)
    BY <1>5, <2>1, <2>5 DEF Verdicts
  <2>7. Heard(u, t) /\ (u.answered \/ Unasked(u, t))
    BY <1>7, <2>1 DEF Uploading, Heard, Unasked
  <2> QED
    BY <1>3, <1>5, <1>7, <2>1, <2>2, <2>6, <2>7 DEF Uploading
<1> QED
  BY <1>5, <1>6, <1>7 DEF u

\* A folder is made or a file written for the file that is due.
Due(s, e) == s.uidx <= Len(s.up) /\ e = s.up[s.uidx] /\ e \notin s.skip

LEMMA Sends ==
  ASSUME NEW s, Typed(s), NEW kind \in {"mkdir", "write"}, NEW e \in Entries, NEW t,
         NEW u, u = Make(s, kind, {e}) \/ u = Shown(Make(s, kind, {e}))
  PROVE  /\ Typed(u) /\ (s.crossed => u.crossed)
         /\ (Busy(s, t) /\ Uploading(s, t) /\ Due(s, e)) => Sane(u)
<1>1. s.uidx \in Nat \ {0} /\ Len(s.up) \in Nat
  BY FieldTypes, LenProperties
<1>2. <<kind, e>> \in Calls
  BY CallTypes DEF EntryKinds
<1>3. /\ Typed(u) /\ Changed(u, s, {"calls", "log"})
      /\ (CallsOf(s, e[1]) = {} /\ Busy(s, e[1])) =>
           /\ Busy(u, e[1]) /\ CallsOf(u, e[1]) = {<<kind, e>>}
           /\ \A c \in CallsOf(u, e[1]) : u.calls[c] = 1
  BY <1>2, AskedOne
<1>4. ASSUME Busy(s, t), Uploading(s, t), Due(s, e) PROVE Sane(u)
  <2>1. e[1] = t
    BY <1>1, <1>4 DEF Uploading, Manifest, Due
  <2>2. /\ u.up = s.up /\ u.skip = s.skip /\ u.what = s.what /\ u.answered = s.answered
        /\ u.blind = s.blind /\ u.dialogs = s.dialogs /\ u.uidx = s.uidx /\ u.told = s.told
    BY <1>3, Names DEF Changed
  <2>3. /\ Busy(u, t) /\ CallsOf(u, t) = {<<kind, e>>}
        /\ \A c \in CallsOf(u, t) : u.calls[c] = 1
    BY <1>3, <1>4, <2>1 DEF Uploading
  <2>4. Heard(u, t) /\ (u.answered \/ Unasked(u, t)) /\ Verdicts(u, u.up, u.uidx)
    BY <1>4, <2>2 DEF Uploading, Heard, Unasked, Verdicts
  <2>5. u.uidx <= Len(u.up) /\ u.up[u.uidx] = e /\ e \notin u.skip
    BY <1>4, <2>2 DEF Due
  <2>6. Writing(u, t)
    BY <1>4, <2>2, <2>3, <2>4, <2>5 DEF Uploading, Writing
  <2> QED
    BY <2>3, <2>6, Runs DEF Running
<1> QED
  BY <1>3, <1>4, Names DEF Changed

LEMMA UploadNextLeads ==
  ASSUME NEW s, Typed(s), NEW t
  PROVE  Leads(s, Busy(s, t) /\ Uploading(s, t), UploadNext(s))
<1> SUFFICES ASSUME NEW u \in UploadNext(s)
             PROVE  /\ Typed(u) /\ (s.crossed => u.crossed)
                    /\ (Busy(s, t) /\ Uploading(s, t)) => Sane(u)
  BY DEF Leads
<1>0. s.uidx \in Nat \ {0} /\ s.up \in Seq(Entries) /\ Len(s.up) \in Nat
  BY FieldTypes, LenProperties
<1>1. CASE s.cancelled
  BY <1>1 DEF UploadNext, Busy
<1>2. CASE ~s.cancelled /\ ~s.backend
  <2>1. u = [s EXCEPT !.active = FALSE]
    BY <1>2 DEF UploadNext
  <2>2. Changed(u, s, {"active"}) /\ u.active = FALSE
    BY <2>1, Names DEF Typed, Record, Changed
  <2>3. Typed(u)
    <3>1. u.active \in Types["active"]
      BY <2>2, TypeOf
    <3> QED
      BY <2>2, <3>1, TypedBut
  <2> QED
    BY <1>2, <2>2, <2>3, Names DEF Changed, Busy
<1>3. CASE ~s.cancelled /\ s.backend /\ s.uidx > Len(s.up)
  <2>1. u \in Finish(s, s.up)
    BY <1>3 DEF UploadNext
  <2>2. Leads(s, Busy(s, t) /\ Whole(s, s.up), Finish(s, s.up))
    BY <1>0, Finishes
  <2>3. ASSUME Uploading(s, t) PROVE Whole(s, s.up)
    BY <1>0, <1>3, <2>3 DEF Uploading, Verdicts, Whole
  <2> QED
    BY <2>1, <2>2, <2>3 DEF Leads
<1>4. CASE ~s.cancelled /\ s.backend /\ ~(s.uidx > Len(s.up))
  <2>1. PICK j \in s.uidx .. Len(s.up) + 1 :
          /\ j > Len(s.up) \/ s.up[j] \notin s.skip
          /\ u \in IF j > Len(s.up) THEN Finish(GoneTo(s, j), s.up)
                   ELSE {Shown(Make(GoneTo(s, j),
                               IF FolderOf(s.up[j]) \in s.created THEN "write" ELSE "mkdir",
                               {s.up[j]}))}
    BY <1>4 DEF UploadNext, GoneTo
  <2> DEFINE v == GoneTo(s, j)
  <2>2. /\ Typed(v) /\ Changed(v, s, {"uidx", "told"}) /\ v.uidx = j
        /\ (Busy(s, t) /\ Uploading(s, t)) => Busy(v, t) /\ Uploading(v, t)
    BY GoesTo
  <2>3. v.up = s.up /\ v.skip = s.skip /\ v.crossed = s.crossed
    BY <2>2, Names DEF Changed
  <2>4. CASE j > Len(s.up)
    <3>1. u \in Finish(v, v.up)
      BY <2>1, <2>3, <2>4
    <3> HIDE DEF v
    <3>2. Leads(v, Busy(v, t) /\ Whole(v, v.up), Finish(v, v.up))
      BY <1>0, <2>2, <2>3, Finishes
    <3>3. ASSUME Uploading(v, t) PROVE Whole(v, v.up)
      BY <1>0, <2>2, <2>3, <2>4, <3>3 DEF Uploading, Verdicts, Whole
    <3> QED
      BY <2>2, <2>3, <3>1, <3>2, <3>3 DEF Leads
  <2>5. CASE ~(j > Len(s.up))
    <3> DEFINE kind == IF FolderOf(s.up[j]) \in s.created THEN "write" ELSE "mkdir"
    <3>1. u = Shown(Make(v, kind, {v.up[j]})) /\ kind \in {"mkdir", "write"}
      BY <2>1, <2>3, <2>5
    <3> HIDE DEF v, kind
    <3>2. v.up[j] \in Entries /\ Due(v, v.up[j])
      BY <1>0, <2>1, <2>2, <2>3, <2>5, ElementOfSeq DEF Due
    <3>3. /\ Typed(u) /\ (v.crossed => u.crossed)
          /\ (Busy(v, t) /\ Uploading(v, t) /\ Due(v, v.up[j])) => Sane(u)
      <4>1. Typed(v) /\ kind \in {"mkdir", "write"}
        BY <2>2, <3>1
      <4>2. u = Make(v, kind, {v.up[j]}) \/ u = Shown(Make(v, kind, {v.up[j]}))
        BY <3>1
      <4> QED
        BY <3>2, <4>1, <4>2, Sends
    <3> QED
      BY <2>2, <2>3, <3>2, <3>3
  <2> QED
    BY <2>4, <2>5
<1> QED
  BY <1>1, <1>2, <1>3, <1>4

\* The file that is due has its verdict.
SentOne(s, e) == [Tell(s, e) EXCEPT !.uidx = @ + 1]

LEMMA SendsOne ==
  ASSUME NEW s, Typed(s), NEW e \in Entries, NEW t
  PROVE  LET u == SentOne(s, e) IN
         /\ Typed(u) /\ u.crossed = s.crossed
         /\ (Busy(s, t) /\ Uploading(s, t) /\ Due(s, e)) => Busy(u, t) /\ Uploading(u, t)
<1> DEFINE a == Tell(s, e)
           u == SentOne(s, e)
<1>1. /\ Typed(a) /\ Changed(a, s, {"told"})
      /\ a.told[e] = s.told[e] + 1 /\ \A d \in Entries \ {e} : a.told[d] = s.told[d]
  BY ToldOne
<1>2. u = [a EXCEPT !.uidx = s.uidx + 1]
  <2>1. a.uidx = s.uidx
    BY <1>1, Names DEF Changed
  <2> HIDE DEF a
  <2> QED
    BY <2>1 DEF SentOne, a
<1> HIDE DEF a, u
<1>3. Changed(u, a, {"uidx"}) /\ u.uidx = s.uidx + 1
  BY <1>1, <1>2, Names DEF Typed, Record, Changed
<1>4. s.uidx \in Nat \ {0} /\ Len(s.up) \in Nat /\ \A i \in 1 .. Len(s.up) : s.up[i] \in Entries
  BY FieldTypes, LenProperties, ElementOfSeq
<1>5. Typed(u)
  <2>1. u.uidx \in Types["uidx"]
    BY <1>3, <1>4, TypeOf
  <2> QED
    BY <1>1, <1>3, <2>1, TypedBut
<1>6. /\ u.crossed = s.crossed /\ u.told = a.told
      /\ u.up = s.up /\ u.skip = s.skip /\ u.what = s.what /\ u.answered = s.answered
      /\ u.blind = s.blind /\ u.dialogs = s.dialogs /\ u.calls = s.calls
  BY <1>1, <1>3, Names DEF Changed
<1>7. ASSUME Busy(s, t), Uploading(s, t), Due(s, e) PROVE Busy(u, t) /\ Uploading(u, t)
  <2>1. Changed(u, s, {"told", "uidx"})
    BY <1>1, <1>3 DEF Changed
  <2>2. Busy(u, t) /\ CallsOf(u, t) = CallsOf(s, t)
    BY <1>6, <1>7, <2>1, SameCalls, ChangedAside, StillBusy
  <2>3. \A i, k \in 1 .. Len(s.up) : s.up[i] = s.up[k] => i = k
    BY <1>7 DEF Uploading, Manifest
  <2>4. ASSUME NEW i \in 1 .. Len(s.up)
        PROVE  a.told[s.up[i]] = IF i < s.uidx + 1 /\ s.up[i] \notin s.skip THEN 1 ELSE 0
    <3>1. s.told[s.up[i]] = IF i < s.uidx /\ s.up[i] \notin s.skip THEN 1 ELSE 0
      BY <1>7 DEF Uploading, Verdicts
    <3>2. s.uidx \in 1 .. Len(s.up) /\ s.up[s.uidx] = e /\ e \notin s.skip
      BY <1>4, <1>7 DEF Due
    <3>3. CASE i = s.uidx
      BY <1>1, <1>4, <3>1, <3>2, <3>3
    <3>4. CASE i # s.uidx
      <4>1. s.up[i] \in Entries \ {e}
        BY <1>4, <2>3, <3>2, <3>4
      <4> QED
        BY <1>1, <1>4, <3>1, <3>4, <4>1
    <3> QED
      BY <3>3, <3>4
  <2>5. Verdicts(u, u.up, u.uidx)
    BY <1>3, <1>6, <2>4 DEF Verdicts
  <2>6. Heard(u, t) /\ (u.answered \/ Unasked(u, t)) /\ u.uidx <= Len(u.up) + 1
    BY <1>3, <1>4, <1>6, <1>7 DEF Uploading, Heard, Unasked, Due
  <2> QED
    BY <1>6, <1>7, <2>2, <2>5, <2>6 DEF Uploading
<1> QED
  BY <1>5, <1>6, <1>7 DEF u

LEMMA UploadLeads ==
  ASSUME NEW s, Typed(s), NEW e \in Entries, NEW t
  PROVE  Leads(s, Busy(s, t) /\ Uploading(s, t) /\ Due(s, e), Upload(s, e))
<1> SUFFICES ASSUME NEW u \in Upload(s, e)
             PROVE  /\ Typed(u) /\ (s.crossed => u.crossed)
                    /\ (Busy(s, t) /\ Uploading(s, t) /\ Due(s, e)) => Sane(u)
  BY DEF Leads
<1> DEFINE v == SentOne(s, e)
<1>1. u = Make(s, "write", {e}) \/ u \in UploadNext(v)
  BY DEF Upload, SentOne
<1>2. CASE u = Make(s, "write", {e})
  BY <1>2, Sends
<1>3. CASE u \in UploadNext(v)
  <2>1. /\ Typed(v) /\ v.crossed = s.crossed
        /\ (Busy(s, t) /\ Uploading(s, t) /\ Due(s, e)) => Busy(v, t) /\ Uploading(v, t)
    BY SendsOne
  <2> HIDE DEF v
  <2>2. Leads(v, Busy(v, t) /\ Uploading(v, t), UploadNext(v))
    BY <2>1, UploadNextLeads
  <2> QED
    BY <1>3, <2>1, <2>2 DEF Leads
<1> QED
  BY <1>1, <1>2, <1>3

\* All the listings of the upload t are in.
Listed(s, t) ==
  /\ Busy(s, t) /\ CallsOf(s, t) = {} /\ Unasked(s, t) /\ ~s.answered
  /\ Manifest(s.up, t) /\ \A i \in 1 .. Len(s.up) : s.told[s.up[i]] = 0
  /\ \A i \in 1 .. Len(s.up) : s.up[i][2] \in there => FolderOf(s.up[i]) \in s.listed \union s.blind

LEMMA ShowsDialog ==
  ASSUME NEW s, Typed(s), NEW t, Conflicts(s) # {}
  PROVE  LET u == ShowDialog(s) IN
         Typed(u) /\ u.crossed = s.crossed /\ (Listed(s, t) => Sane(u))
<1> DEFINE u == ShowDialog(s)
           C == Conflicts(s)
<1>1. s.up \in Seq(Entries) /\ DOMAIN s.up = 1 .. Len(s.up)
      /\ \A i \in 1 .. Len(s.up) : s.up[i] \in Entries
  BY FieldTypes, LenProperties, ElementOfSeq
<1>2. C \subseteq Entries /\ \A e \in C : \E i \in 1 .. Len(s.up) : e = s.up[i]
  BY <1>1 DEF Conflicts, ToSet
<1>3. CASE s.listeners = 0
  <2>1. u = [s EXCEPT !.unheard = TRUE]
    BY <1>3 DEF ShowDialog
  <2> HIDE DEF u
  <2>2. Changed(u, s, {"unheard"}) /\ u.unheard = TRUE
    BY <2>1, Names DEF Typed, Record, Changed
  <2>3. Typed(u)
    <3>1. u.unheard \in Types["unheard"]
      <4>1. Types["unheard"] = BOOLEAN
        BY TypeOf
      <4> QED
        BY <2>2, <4>1
    <3> QED
      BY <2>2, <3>1, TypedBut
  <2>4. /\ u.crossed = s.crossed /\ u.up = s.up /\ u.told = s.told /\ u.answered = s.answered
        /\ u.calls = s.calls
    BY <2>2, Names DEF Changed
  <2>5. ASSUME Listed(s, t) PROVE Sane(u)
    <3>1. Busy(u, t) /\ CallsOf(u, t) = {}
      BY <2>2, <2>4, <2>5, SameCalls, ChangedAside, StillBusy DEF Listed
    <3>2. Asking(u, t)
      BY <2>2, <2>4, <2>5, <3>1 DEF Listed, Asking
    <3> QED
      BY <3>1, <3>2, Runs DEF Running
  <2> QED
    BY <2>3, <2>4, <2>5 DEF u
<1>4. CASE s.listeners # 0
  <2> DEFINE one == <<C>>
             dialogs == one \o s.dialogs
             n == s.listeners - 1
  <2>1. u = [s EXCEPT !.listeners = n, !.dialogs = dialogs]
    BY <1>4 DEF ShowDialog
  <2>2. s.dialogs \in Seq(SUBSET Entries) /\ Len(s.dialogs) \in Nat /\ s.listeners \in Nat
    BY FieldTypes, LenProperties
  <2>3. one \in Seq(SUBSET Entries) /\ Len(one) = 1 /\ one[1] = C
    BY <1>2
  <2> HIDE DEF one
  <2>4. /\ dialogs \in Seq(SUBSET Entries) /\ Len(dialogs) = Len(one) + Len(s.dialogs)
        /\ \A i \in 1 .. Len(one) + Len(s.dialogs) :
             dialogs[i] = IF i <= Len(one) THEN one[i] ELSE s.dialogs[i - Len(one)]
    <3>1. one \in Seq(SUBSET Entries) /\ s.dialogs \in Seq(SUBSET Entries)
      BY <2>2, <2>3
    <3> QED
      BY <3>1, ConcatProperties
  <2> HIDE DEF u, dialogs, C
  <2>5. /\ Len(dialogs) = Len(s.dialogs) + 1 /\ dialogs[1] = C
        /\ \A i \in 1 .. Len(dialogs) :
             dialogs[i] = C \/ \E k \in 1 .. Len(s.dialogs) : dialogs[i] = s.dialogs[k]
    <3>1. ASSUME NEW i \in 1 .. Len(s.dialogs) + 1
          PROVE  dialogs[i] = C \/ \E k \in 1 .. Len(s.dialogs) : dialogs[i] = s.dialogs[k]
      <4>1. CASE i = 1
        BY <2>2, <2>3, <2>4, <4>1
      <4>2. CASE i # 1
        <5>1. i - 1 \in 1 .. Len(s.dialogs) /\ dialogs[i] = s.dialogs[i - 1]
          BY <2>2, <2>3, <2>4, <4>2
        <5> QED
          BY <5>1
      <4> QED
        BY <4>1, <4>2
    <3> QED
      BY <2>2, <2>3, <2>4, <3>1
  <2>6. Changed(u, s, {"listeners", "dialogs"}) /\ u.listeners = n /\ u.dialogs = dialogs
    BY <2>1, Names DEF Typed, Record, Changed
  <2>7. Typed(u)
    <3>1. u.listeners \in Types["listeners"] /\ u.dialogs \in Types["dialogs"]
      BY <1>4, <2>2, <2>4, <2>6, TypeOf
    <3> QED
      BY <2>6, <3>1, TypedBut
  <2>8. /\ u.crossed = s.crossed /\ u.up = s.up /\ u.told = s.told /\ u.answered = s.answered
        /\ u.calls = s.calls /\ u.queue = s.queue /\ u.what = s.what /\ u.untold = s.untold
        /\ u.active = s.active /\ u.backend = s.backend /\ u.cancelled = s.cancelled
        /\ u.wrecked = s.wrecked /\ u.down = s.down
    BY <2>6, Names DEF Changed
  <2>9. ASSUME Listed(s, t) PROVE Sane(u)
    <3>1. \A e \in C : e[1] = t
      BY <1>2, <2>9 DEF Listed, Manifest
    <3>2. ASSUME NEW r, r # t, Untouched(s, r) PROVE Untouched(u, r)
      <4>1. Unasked(u, r)
        <5> SUFFICES ASSUME NEW i \in 1 .. Len(dialogs) PROVE \A e \in dialogs[i] : e[1] # r
          BY <2>6 DEF Unasked
        <5> QED
          BY <2>5, <3>1, <3>2 DEF Untouched, Unasked
      <4> QED
        BY <2>8, <3>2, <4>1 DEF Untouched, CallsOf
    <3>3. /\ t \in 1 .. Len(s.what) /\ \A i \in 2 .. Len(s.queue) : s.queue[i] # t
          /\ Len(s.what) \in Nat
      BY <2>9, HeadOf, FieldTypes, LenProperties DEF Listed
    <3>4. Queued(u, 2)
      BY <2>8, <2>9, <3>2, <3>3 DEF Listed, Busy, Queued
    <3>5. \A r \in Transfers : r > Len(u.what) => Untouched(u, r)
      BY <2>8, <2>9, <3>2, <3>3 DEF Listed, Busy, Kept, Transfers
    <3>6. \A i \in 1 .. Len(u.dialogs) : u.dialogs[i] # {}
      <4>1. \A i \in 1 .. Len(s.dialogs) : s.dialogs[i] # {}
        BY <2>9 DEF Listed, Busy, Kept
      <4> QED
        BY <2>5, <2>6, <4>1 DEF C
    <3>7. Kept(u)
      BY <2>8, <2>9, <3>5, <3>6 DEF Listed, Busy, Kept
    <3>8. Busy(u, t)
      BY <2>8, <2>9, <3>4, <3>7 DEF Listed, Busy
    <3>9. u.dialogs # <<>> /\ StillAsked(u)
      <4>1. u.dialogs \in Seq(SUBSET Entries) /\ Len(u.dialogs) # 0
        BY <2>2, <2>4, <2>5, <2>6
      <4>2. u.dialogs # <<>>
        BY <4>1, EmptySeq
      <4>3. Head(u.dialogs) = C
        BY <2>5, <2>6, <4>1, <4>2, TailShape
      <4> QED
        BY <3>1, <3>8, <4>2, <4>3 DEF StillAsked, Busy
    <3>10. CallsOf(u, t) = {}
      BY <2>8, <2>9 DEF Listed, CallsOf
    <3>11. Asking(u, t)
      BY <2>8, <2>9, <3>9, <3>10 DEF Listed, Asking
    <3> QED
      BY <3>8, <3>10, <3>11, Runs DEF Running
  <2> QED
    BY <2>7, <2>8, <2>9 DEF u
<1> QED
  BY <1>3, <1>4

\* The upload begins to send.
LEMMA ResolveLeads ==
  ASSUME NEW s, Typed(s), NEW t
  PROVE  Leads(s, Listed(s, t), Resolve(s))
<1>1. CASE Conflicts(s) = {}
  <2> DEFINE v == [s EXCEPT !.skip = {}, !.uidx = 1]
  <2>1. Resolve(s) = UploadNext(v)
    BY <1>1 DEF Resolve
  <2>2. Changed(v, s, {"skip", "uidx"}) /\ v.skip = {} /\ v.uidx = 1
    BY Names DEF Typed, Record, Changed
  <2> HIDE DEF v
  <2>3. Typed(v)
    <3>1. v.skip \in Types["skip"] /\ v.uidx \in Types["uidx"]
      BY <2>2, TypeOf
    <3> QED
      BY <2>2, <3>1, TypedBut
  <2>4. /\ v.crossed = s.crossed /\ v.up = s.up /\ v.told = s.told /\ v.calls = s.calls
        /\ v.dialogs = s.dialogs /\ v.blind = s.blind
    BY <2>2, Names DEF Changed
  <2>5. ASSUME Listed(s, t) PROVE Busy(v, t) /\ Uploading(v, t)
    <3>1. Busy(v, t) /\ CallsOf(v, t) = {}
      BY <2>2, <2>4, <2>5, SameCalls, ChangedAside, StillBusy DEF Listed
    <3>2. Len(s.up) \in Nat /\ ToSet(s.up) = {s.up[i] : i \in 1 .. Len(s.up)}
      BY <2>5, ManifestFacts DEF Listed
    <3>3. \A i \in 1 .. Len(s.up) : FolderOf(s.up[i]) \notin s.listed
      BY <1>1, <3>2 DEF Conflicts
    <3>4. Heard(v, t)
      BY <2>4, <2>5, <3>3 DEF Listed, Heard
    <3>5. Verdicts(v, v.up, 1) /\ Unasked(v, t)
      BY <2>4, <2>5 DEF Listed, Verdicts, Unasked
    <3> QED
      BY <2>2, <2>4, <2>5, <3>1, <3>2, <3>4, <3>5 DEF Listed, Uploading
  <2>6. Leads(v, Busy(v, t) /\ Uploading(v, t), UploadNext(v))
    BY <2>3, UploadNextLeads
  <2> QED
    BY <2>1, <2>4, <2>5, <2>6 DEF Leads
<1>2. CASE Conflicts(s) # {} /\ s.queue = <<>>
  <2> DEFINE u == [s EXCEPT !.wrecked = TRUE]
  <2>1. Resolve(s) = {u}
    BY <1>2 DEF Resolve
  <2>2. Changed(u, s, {"wrecked"}) /\ u.wrecked = TRUE
    BY Names DEF Typed, Record, Changed
  <2> HIDE DEF u
  <2>3. Typed(u)
    <3>1. u.wrecked \in Types["wrecked"]
      <4>1. Types["wrecked"] = BOOLEAN
        BY TypeOf
      <4> QED
        BY <2>2, <4>1
    <3> QED
      BY <2>2, <3>1, TypedBut
  <2>4. u.crossed = s.crossed /\ ~Listed(s, t)
    BY <1>2, <2>2, Names DEF Changed, Listed, Busy
  <2> QED
    BY <2>1, <2>3, <2>4 DEF Leads
<1>3. CASE Conflicts(s) # {} /\ s.queue # <<>>
  <2>1. Resolve(s) = {ShowDialog(s)}
    BY <1>3 DEF Resolve
  <2>2. LET u == ShowDialog(s) IN
        Typed(u) /\ u.crossed = s.crossed /\ (Listed(s, t) => Sane(u))
    BY <1>3, ShowsDialog
  <2> QED
    BY <2>1, <2>2 DEF Leads
<1> QED
  BY <1>1, <1>2, <1>3

-----------------------------------------------------------------------------
(* The user and the connection.                                            *)

LEMMA Idle ==
  ASSUME NEW s, Kept(s), s.queue = <<>>, ~s.active
  PROVE  Sane(s)
BY DEF Sane

LEMMA IdleKept ==
  ASSUME NEW s, Kept(s), NEW u, u.queue = <<>>, u.active = FALSE, u.wrecked = s.wrecked,
         u.untold = s.untold, u.cancelled => u.down = <<>>, u.what = s.what,
         u.dialogs = s.dialogs, BagToSet(u.calls) \subseteq BagToSet(s.calls)
  PROVE  Sane(u)
<1>1. ~u.wrecked /\ u.untold = {}
  BY DEF Kept
<1>2. \A i, j \in 1 .. Len(u.queue) : u.queue[i] = u.queue[j] => i = j
  BY EmptySeq
<1>3. Kept(u)
  BY <1>1, <1>2, StillKept
<1> QED
  BY <1>3, Idle

\* What Sane does not look at.
LEMMA StillSane ==
  ASSUME NEW s, Sane(s), NEW u, NEW F, Changed(u, s, F), F \subseteq {"listeners", "log"}
  PROVE  Sane(u)
<1>1. /\ u.what = s.what /\ u.queue = s.queue /\ u.dialogs = s.dialogs /\ u.calls = s.calls
      /\ u.untold = s.untold /\ u.wrecked = s.wrecked /\ u.active = s.active
      /\ u.backend = s.backend /\ u.cancelled = s.cancelled
  BY Names DEF Changed
<1>2. /\ u.down = s.down /\ u.idx = s.idx /\ u.up = s.up /\ u.uidx = s.uidx /\ u.skip = s.skip
      /\ u.told = s.told /\ u.left = s.left /\ u.scans = s.scans /\ u.listed = s.listed
      /\ u.blind = s.blind /\ u.answered = s.answered /\ u.unheard = s.unheard
  BY Names DEF Changed
<1>3. \A t : CallsOf(u, t) = CallsOf(s, t)
  BY <1>1, SameCalls
<1>4. \A t : (Unasked(s, t) <=> Unasked(u, t)) /\ (Untouched(s, t) <=> Untouched(u, t))
  BY <1>1, <1>3 DEF Unasked, Untouched
<1>5. Kept(u)
  BY <1>1, <1>2, <1>4 DEF Sane, Kept
<1>6. CASE s.queue = <<>>
  BY <1>1, <1>5, <1>6 DEF Sane
<1>7. CASE s.queue # <<>>
  <2> DEFINE t == Head(s.queue)
  <2>1. Busy(s, t) /\ Running(s, t)
    BY <1>7 DEF Sane
  <2> HIDE DEF t
  <2>2. Busy(u, t)
    BY <1>1, <1>4, <1>5, <2>1 DEF Busy, Queued
  <2>3. \A es, n : Verdicts(s, es, n) <=> Verdicts(u, es, n)
    BY <1>2 DEF Verdicts
  <2>4. Heard(s, t) <=> Heard(u, t)
    BY <1>1, <1>2 DEF Heard
  <2>5. Gathered(s, t, 0) => Gathered(u, t, 0)
    BY <1>1, <1>2, <1>3, <2>3 DEF Gathered
  <2>6. (Walking(s, t) => Walking(u, t)) /\ (Reading(s, t) => Reading(u, t))
    BY <1>2, <1>3, <2>3, <2>5 DEF Walking, Reading
  <2>7. (Archiving(s, t) => Archiving(u, t)) /\ (Asking(s, t) => Asking(u, t))
    BY <1>1, <1>2, <1>3, <2>3 DEF Archiving, Asking, StillAsked
  <2>8. (Scanning(s, t) => Scanning(u, t)) /\ (Writing(s, t) => Writing(u, t))
    BY <1>1, <1>2, <1>3, <1>4, <2>3, <2>4 DEF Scanning, Writing
  <2>9. Running(u, t)
    BY <1>1, <1>3, <1>4, <2>1, <2>6, <2>7, <2>8 DEF Running
  <2> QED
    BY <2>2, <2>9, Runs
<1> QED
  BY <1>6, <1>7

LEMMA Abandons ==
  ASSUME NEW s, Typed(s), NEW how \in {"completed", "failed", "cancelled", "lost"}
  PROVE  LET u == Abandon(s, how) IN
         /\ Typed(u) /\ u.crossed = s.crossed /\ u.reading = s.reading
         /\ Kept(s) => Sane(u)
         /\ u.queue = <<>> /\ u.active = FALSE
<1> DEFINE a == End(s, ToSet(s.queue), how)
           u == Abandon(s, how)
           F == {"cancelled", "active", "queue", "down", "up"}
<1>1. Typed(a) /\ Changed(a, s, {"ended"})
  BY EndTyped
<1>2. u = [a EXCEPT !.cancelled = TRUE, !.active = FALSE, !.queue = <<>>,
                    !.down = <<>>, !.up = <<>>]
  BY DEF Abandon
<1> HIDE DEF a, u
<1>3. Record(u)
  BY <1>1, <1>2 DEF Typed, Record
<1>4. ASSUME NEW f \in Fields \ F PROVE u[f] = a[f]
  BY <1>1, <1>2 DEF Typed, Record
<1>5. /\ u.cancelled = TRUE /\ u.active = FALSE /\ u.queue = <<>> /\ u.down = <<>>
      /\ u.up = <<>>
  BY <1>1, <1>2, Names DEF Typed, Record
<1>6. Changed(u, a, F)
  BY <1>3, <1>4 DEF Changed
<1>7. Typed(u)
  <2>1. <<>> \in Seq(Transfers) /\ <<>> \in Seq(Entries)
    BY EmptySeq
  <2>2. /\ u.cancelled \in Types["cancelled"] /\ u.active \in Types["active"]
        /\ u.queue \in Types["queue"] /\ u.down \in Types["down"] /\ u.up \in Types["up"]
    <3>1. Types["cancelled"] = BOOLEAN /\ Types["active"] = BOOLEAN
      BY TypeOf
    <3>2. u.queue \in Types["queue"] /\ u.down \in Types["down"] /\ u.up \in Types["up"]
      BY <1>5, <2>1, TypeOf
    <3> QED
      BY <1>5, <3>1, <3>2
  <2>3. Known(u)
    BY <1>5, EmptySeq DEF Known
  <2> QED
    BY <1>1, <1>6, <2>2, <2>3, TypedQueue
<1>8. /\ u.what = s.what /\ u.dialogs = s.dialogs /\ u.calls = s.calls /\ u.untold = s.untold
      /\ u.crossed = s.crossed /\ u.wrecked = s.wrecked /\ u.reading = s.reading
  BY <1>1, <1>6, Names DEF Changed
<1>9. ASSUME Kept(s) PROVE Sane(u)
  BY <1>5, <1>8, <1>9, IdleKept
<1> QED
  BY <1>5, <1>7, <1>8, <1>9 DEF u

LEMMA SaneKept ==
  ASSUME NEW s, Sane(s)
  PROVE  Kept(s) /\ (~s.active => s.queue = <<>>) /\ (s.cancelled => s.queue = <<>>)
BY DEF Sane, Busy

LEMMA AskGood ==
  ASSUME Good(m), NEW kind \in TransferKinds, Ask(kind)
  PROVE  Good(m')
<1> DEFINE n == Len(m.what) + 1
           what == Append(m.what, kind)
           queue == Append(m.queue, n)
           listeners == IF kind = "upload" THEN m.listeners + 1 ELSE m.listeners
           s == [m EXCEPT !.what = what, !.queue = queue, !.listeners = listeners]
<1>1. m' \in IF s.active THEN {s} ELSE StartNext(s)
  BY DEF Ask
<1>2. Typed(m) /\ m.dialogs = <<>> /\ Len(m.what) < MaxTransfers
  BY DEF Good, Ask
<1>3. /\ m.what \in Seq(TransferKinds) /\ m.queue \in Seq(Transfers) /\ m.listeners \in Nat
      /\ Len(m.what) \in Nat /\ Len(m.queue) \in Nat
      /\ \A i \in 1 .. Len(m.queue) : m.queue[i] \in 1 .. Len(m.what)
  BY <1>2, FieldTypes, FieldKnown, LenProperties
<1>4. n \in Transfers /\ n \in Nat /\ listeners \in Nat
  BY <1>2, <1>3, BoundsAreReal DEF Transfers
<1>5. /\ what \in Seq(TransferKinds) /\ Len(what) = n
      /\ \A i \in 1 .. Len(m.what) : what[i] = m.what[i]
  BY <1>3, AppendProperties
<1>6. /\ queue \in Seq(Transfers) /\ Len(queue) = Len(m.queue) + 1
      /\ queue[Len(m.queue) + 1] = n
      /\ \A i \in 1 .. Len(m.queue) : queue[i] = m.queue[i]
  BY <1>3, <1>4, AppendProperties
<1> HIDE DEF n, what, queue, listeners, s
<1>7. /\ Changed(s, m, {"what", "queue", "listeners"})
      /\ s.what = what /\ s.queue = queue /\ s.listeners = listeners
  BY <1>2, Names DEF Typed, Record, Changed, s
<1>8. \A i \in 1 .. Len(queue) : queue[i] \in 1 .. n
  <2>1. ASSUME NEW i \in 1 .. Len(queue) PROVE queue[i] \in 1 .. n
    <3>1. CASE i \in 1 .. Len(m.queue)
      BY <1>3, <1>6, <3>1 DEF n
    <3>2. CASE i = Len(m.queue) + 1
      BY <1>3, <1>6, <3>2 DEF n
    <3> QED
      BY <1>3, <1>6, <3>1, <3>2
  <2> QED
    BY <2>1
<1>9. Typed(s)
  <2>1. /\ s.what \in Types["what"] /\ s.queue \in Types["queue"]
        /\ s.listeners \in Types["listeners"]
    BY <1>4, <1>5, <1>6, <1>7, TypeOf
  <2>2. Known(s)
    BY <1>4, <1>5, <1>7, <1>8 DEF Known
  <2> QED
    BY <1>2, <1>7, <2>1, <2>2, TypedQueue
<1>10. /\ s.dialogs = m.dialogs /\ s.calls = m.calls /\ s.untold = m.untold
       /\ s.wrecked = m.wrecked /\ s.active = m.active /\ s.backend = m.backend
       /\ s.cancelled = m.cancelled /\ s.crossed = m.crossed
  BY <1>7, Names DEF Changed
<1>11. /\ s.down = m.down /\ s.idx = m.idx /\ s.up = m.up /\ s.uidx = m.uidx /\ s.skip = m.skip
       /\ s.told = m.told /\ s.left = m.left /\ s.scans = m.scans /\ s.listed = m.listed
       /\ s.blind = m.blind /\ s.answered = m.answered /\ s.unheard = m.unheard
  BY <1>7, Names DEF Changed
<1>12. /\ \A t : CallsOf(s, t) = CallsOf(m, t)
       /\ \A t : (Unasked(m, t) <=> Unasked(s, t)) /\ (Untouched(m, t) <=> Untouched(s, t))
  BY <1>10, SameCalls DEF Unasked, Untouched
<1>13. ASSUME Sane(m) PROVE Kept(s) /\ Untouched(s, n)
  <2>1. Kept(m)
    BY <1>13 DEF Sane
  <2>2. \A r \in Transfers : r > Len(m.what) => Untouched(s, r)
    BY <1>12, <2>1 DEF Kept
  <2>3. Untouched(s, n) /\ \A r \in Transfers : r > Len(s.what) => Untouched(s, r)
    BY <1>3, <1>4, <1>5, <1>7, <2>2 DEF n, Transfers
  <2>4. ASSUME NEW i \in 1 .. Len(queue), NEW j \in 1 .. Len(queue), queue[i] = queue[j]
        PROVE  i = j
    <3>1. \A k, l \in 1 .. Len(m.queue) : m.queue[k] = m.queue[l] => k = l
      BY <2>1 DEF Kept
    <3>2. \A k \in 1 .. Len(m.queue) : queue[k] \in 1 .. n - 1
      <4>1. n - 1 = Len(m.what)
        BY <1>3 DEF n
      <4> QED
        BY <1>3, <1>6, <4>1
    <3>3. \A k \in 1 .. Len(m.queue) : queue[k] # queue[Len(m.queue) + 1]
      BY <1>4, <1>6, <3>2
    <3>4. CASE i \in 1 .. Len(m.queue) /\ j \in 1 .. Len(m.queue)
      BY <1>6, <2>4, <3>1, <3>4
    <3>5. CASE ~(i \in 1 .. Len(m.queue) /\ j \in 1 .. Len(m.queue))
      BY <1>3, <1>6, <2>4, <3>3, <3>5
    <3> QED
      BY <3>4, <3>5
  <2> QED
    BY <1>7, <1>10, <1>11, <2>1, <2>3, <2>4 DEF Kept
<1>14. CASE m.active
  <2>1. m' = s
    BY <1>1, <1>10, <1>14
  <2>2. ASSUME Sane(m) PROVE Sane(s)
    <3> DEFINE t == Head(m.queue)
    <3>1. m.queue # <<>> /\ Busy(m, t) /\ Running(m, t)
      BY <1>14, <2>2 DEF Sane
    <3> HIDE DEF t
    <3>2. /\ t = m.queue[1] /\ Len(m.queue) \in Nat \ {0} /\ t \in 1 .. Len(m.what)
      BY <1>2, <3>1, HeadOf
    <3>3. queue # <<>> /\ t = Head(queue)
      <4>1. queue # <<>>
        BY <1>3, <1>6, EmptySeq
      <4> QED
        BY <1>6, <3>2, <4>1, TailShape
    <3>4. Queued(s, 2)
      <4>1. ASSUME NEW i \in 2 .. Len(queue) PROVE Untouched(s, queue[i])
        <5>1. CASE i \in 2 .. Len(m.queue)
          BY <1>3, <1>6, <1>12, <3>1, <5>1 DEF Busy, Queued
        <5>2. CASE i = Len(m.queue) + 1
          BY <1>6, <1>13, <2>2, <5>2
        <5> QED
          BY <1>3, <1>6, <5>1, <5>2
      <4> QED
        BY <1>7, <4>1 DEF Queued
    <3>5. Busy(s, t)
      BY <1>7, <1>10, <1>13, <2>2, <3>1, <3>3, <3>4 DEF Busy
    <3>6. \A es, k : Verdicts(m, es, k) <=> Verdicts(s, es, k)
      BY <1>11 DEF Verdicts
    <3>7. Heard(m, t) <=> Heard(s, t)
      BY <1>5, <1>7, <1>11, <3>2 DEF Heard
    <3>8. Gathered(m, t, 0) => Gathered(s, t, 0)
      BY <1>10, <1>11, <1>12, <3>6 DEF Gathered
    <3>9. (Walking(m, t) => Walking(s, t)) /\ (Reading(m, t) => Reading(s, t))
      BY <1>11, <1>12, <3>6, <3>8 DEF Walking, Reading
    <3>10. (Archiving(m, t) => Archiving(s, t)) /\ (Asking(m, t) => Asking(s, t))
      BY <1>2, <1>10, <1>11, <1>12, <3>6 DEF Archiving, Asking
    <3>11. (Scanning(m, t) => Scanning(s, t)) /\ (Writing(m, t) => Writing(s, t))
      BY <1>10, <1>11, <1>12, <3>6, <3>7 DEF Scanning, Writing
    <3>12. Running(s, t)
      BY <1>10, <1>12, <3>1, <3>9, <3>10, <3>11 DEF Running
    <3> QED
      BY <3>5, <3>12, Runs
  <2> QED
    BY <1>9, <1>10, <2>1, <2>2 DEF Good
<1>15. CASE ~m.active
  <2>1. m' \in StartNext(s)
    BY <1>1, <1>10, <1>15
  <2>2. ASSUME Sane(m) PROVE Between(s)
    <3>1. m.queue = <<>>
      BY <1>15, <2>2, SaneKept
    <3>2. Len(m.queue) = 0
      BY <3>1, EmptySeq
    <3>3. Queued(s, 1)
      <4>1. Len(s.queue) = 1 /\ s.queue[1] = n
        BY <1>6, <1>7, <3>2
      <4> QED
        BY <1>13, <2>2, <4>1 DEF Queued
    <3> QED
      BY <1>13, <2>2, <3>3 DEF Between
  <2>3. Leads(s, Between(s), StartNext(s))
    BY <1>9, Starts
  <2> QED
    BY <1>10, <2>1, <2>2, <2>3 DEF Leads, Good
<1> QED
  BY <1>14, <1>15

LEMMA CloseLogGood ==
  ASSUME Good(m), CloseLog
  PROVE  Good(m')
<1> DEFINE s == [m EXCEPT !.log = "none"]
           a == Abandon(s, "cancelled")
<1>1. m' \in IF m.log = "live" THEN Cancelled(s) ELSE {s}
  BY DEF CloseLog
<1>2. Typed(m)
  BY DEF Good
<1>3. Changed(s, m, {"log"}) /\ s.log = "none"
  BY <1>2, Names DEF Typed, Record, Changed
<1> HIDE DEF s
<1>4. Typed(s)
  <2>1. s.log \in Types["log"]
    BY <1>3, TypeOf
  <2> QED
    BY <1>2, <1>3, <2>1, TypedBut
<1>5. s.crossed = m.crossed
  BY <1>3, Names DEF Changed
<1>6. Good(s)
  BY <1>3, <1>4, <1>5, StillSane DEF Good
<1>7. /\ Typed(a) /\ a.crossed = s.crossed /\ a.reading = s.reading
      /\ Kept(s) => Sane(a)
      /\ a.queue = <<>> /\ a.active = FALSE
  BY <1>4, Abandons
<1>8. Sane(s) => Kept(s)
  BY SaneKept
<1>9. Good(a)
  BY <1>6, <1>7, <1>8 DEF Good
<1>10. Cancelled(s) = IF s.reading = NoRead \/ ~s.backend THEN {a}
                      ELSE {WithoutRead(a)} \union
                           (IF s.reading[1] = "read" THEN {[a EXCEPT !.reading = NoRead]} ELSE {})
  BY DEF Cancelled
<1> HIDE DEF a
<1>11. Good(WithoutRead(a))
  <2> DEFINE u == WithoutRead(a)
             B == a.calls (-) SetToBag({a.reading})
  <2>1. u = [a EXCEPT !.calls = B, !.reading = NoRead]
    BY DEF WithoutRead
  <2>2. a.calls \in CallBags
    BY <1>7, FieldTypes
  <2>3. B \in CallBags /\ BagToSet(B) \subseteq BagToSet(a.calls)
    BY <2>2, LessCalls
  <2> HIDE DEF u, B
  <2>4. Changed(u, a, {"calls", "reading"}) /\ u.calls = B /\ u.reading = NoRead
    BY <1>7, <2>1, Names DEF Typed, Record, Changed
  <2>5. Typed(u)
    <3>1. u.calls \in Types["calls"] /\ u.reading \in Types["reading"]
      BY <2>3, <2>4, TypeOf
    <3> QED
      BY <1>7, <2>4, <3>1, TypedBut
  <2>6. /\ u.queue = a.queue /\ u.active = a.active /\ u.wrecked = a.wrecked
        /\ u.untold = a.untold /\ u.cancelled = a.cancelled /\ u.down = a.down
        /\ u.what = a.what /\ u.dialogs = a.dialogs /\ u.crossed = a.crossed
    BY <2>4, Names DEF Changed
  <2>7. ASSUME Sane(a) PROVE Sane(u)
    <3>1. Kept(a) /\ (u.cancelled => u.down = <<>>)
      BY <2>6, <2>7, SaneKept DEF Kept
    <3> QED
      BY <1>7, <2>3, <2>4, <2>6, <3>1, IdleKept
  <2> QED
    BY <1>9, <2>5, <2>6, <2>7 DEF Good, u
<1>12. Good([a EXCEPT !.reading = NoRead])
  <2> DEFINE u == [a EXCEPT !.reading = NoRead]
  <2>4. Changed(u, a, {"reading"}) /\ u.reading = NoRead
    BY <1>7, Names DEF Typed, Record, Changed
  <2> HIDE DEF u
  <2>5. Typed(u)
    <3>1. u.reading \in Types["reading"]
      BY <2>4, TypeOf
    <3> QED
      BY <1>7, <2>4, <3>1, TypedBut
  <2>6. /\ u.queue = a.queue /\ u.active = a.active /\ u.wrecked = a.wrecked
        /\ u.untold = a.untold /\ u.cancelled = a.cancelled /\ u.down = a.down
        /\ u.what = a.what /\ u.dialogs = a.dialogs /\ u.crossed = a.crossed
        /\ u.calls = a.calls
    BY <2>4, Names DEF Changed
  <2>7. ASSUME Sane(a) PROVE Sane(u)
    <3>1. Kept(a) /\ (u.cancelled => u.down = <<>>)
      BY <2>6, <2>7, SaneKept DEF Kept
    <3> QED
      BY <1>7, <2>6, <3>1, IdleKept
  <2> QED
    BY <1>9, <2>5, <2>6, <2>7 DEF Good, u
<1>13. \A u \in Cancelled(s) : Good(u)
  BY <1>9, <1>10, <1>11, <1>12
<1> QED
  BY <1>1, <1>6, <1>13

LEMMA LoseConnectionGood ==
  ASSUME Good(m), LoseConnection
  PROVE  Good(m')
<1>1. m' = Abandon(m, "lost") /\ Typed(m)
  BY DEF LoseConnection, Good
<1>2. /\ Typed(m') /\ m'.crossed = m.crossed
      /\ Kept(m) => Sane(m')
  BY <1>1, Abandons
<1>3. Sane(m) => Kept(m)
  BY SaneKept
<1> QED
  BY <1>2, <1>3 DEF Good

LEMMA WaitingTypes ==
  ASSUME Typed(m), NEW kind, NEW x \in Waiting(kind)
  PROVE  /\ <<kind, x>> \in BagToSet(m.calls) /\ <<kind, x>> \in Calls
         /\ kind \in FolderKinds \union ArchiveKinds \union EntryKinds
         /\ kind \in FolderKinds => x \in Folders
         /\ kind \in EntryKinds => x \in Entries
         /\ kind \in ArchiveKinds => x[1] \in Transfers /\ x = <<x[1]>>
         /\ x[1] \in Transfers
<1>1. PICK c \in BagToSet(m.calls) : c[1] = kind /\ c[2] = x
  BY DEF Waiting
<1>2. c \in Calls
  BY <1>1, FieldTypes, BagIsBag
<1>3. \/ c \in FolderKinds \X Folders \/ c \in EntryKinds \X Entries
      \/ c \in ArchiveKinds \X {<<t>> : t \in Transfers}
  BY <1>2 DEF Calls
<1>4. c = <<kind, x>>
  BY <1>1, <1>3
<1>5. \/ kind \in FolderKinds /\ x \in Folders
      \/ kind \in EntryKinds /\ x \in Entries
      \/ kind \in ArchiveKinds /\ x \in {<<t>> : t \in Transfers}
  BY <1>1, <1>3
<1>6. /\ kind \in FolderKinds => kind \notin EntryKinds /\ kind \notin ArchiveKinds
      /\ kind \in EntryKinds => kind \notin ArchiveKinds
  BY DEF FolderKinds, EntryKinds, ArchiveKinds
<1>7. x \in {<<t>> : t \in Transfers} => x[1] \in Transfers /\ x = <<x[1]>>
  OBVIOUS
<1>8. /\ x \in Folders => x[1] \in Transfers
      /\ x \in Entries => x[1] \in Transfers
  BY DEF Folders, Entries
<1> QED
  BY <1>1, <1>2, <1>4, <1>5, <1>6, <1>7, <1>8

LEMMA LoseBackendGood ==
  ASSUME Good(m), LoseBackend
  PROVE  Good(m')
<1> DEFINE S == {<<"extract", x>> : x \in Waiting("extract")}
           B == SetToBag(S)
           s == [m EXCEPT !.backend = FALSE, !.calls = B]
<1>1. m' = IF s.active THEN Abandon(s, "lost") ELSE s
  BY DEF LoseBackend
<1>2. Typed(m)
  BY DEF Good
<1>3. S \subseteq BagToSet(m.calls) /\ S \in SUBSET Calls
  BY <1>2, WaitingTypes
<1>4. B \in CallBags /\ BagToSet(B) = S
  <2> HIDE DEF S
  <2> QED
    BY <1>3, BagOfSet
<1> HIDE DEF S, B, s
<1>5. Changed(s, m, {"backend", "calls"}) /\ s.backend = FALSE /\ s.calls = B
  BY <1>2, Names DEF Typed, Record, Changed, s
<1>6. Typed(s)
  <2>1. s.backend \in Types["backend"] /\ s.calls \in Types["calls"]
    BY <1>4, <1>5, TypeOf
  <2> QED
    BY <1>2, <1>5, <2>1, TypedBut
<1>7. /\ s.queue = m.queue /\ s.active = m.active /\ s.wrecked = m.wrecked
      /\ s.untold = m.untold /\ s.cancelled = m.cancelled /\ s.down = m.down
      /\ s.what = m.what /\ s.dialogs = m.dialogs /\ s.crossed = m.crossed
  BY <1>5, Names DEF Changed
<1>8. ASSUME Sane(m) PROVE Kept(s)
  <2>1. /\ Kept(m) /\ ~s.wrecked /\ s.untold = {} /\ (s.cancelled => s.down = <<>>)
        /\ \A i, j \in 1 .. Len(s.queue) : s.queue[i] = s.queue[j] => i = j
    BY <1>7, <1>8, SaneKept DEF Kept
  <2> QED
    BY <1>3, <1>4, <1>5, <1>7, <2>1, StillKept
<1>9. CASE m.active
  <2>1. m' = Abandon(s, "lost")
    BY <1>1, <1>7, <1>9
  <2>2. /\ Typed(m') /\ m'.crossed = s.crossed
        /\ Kept(s) => Sane(m')
    BY <1>6, <2>1, Abandons
  <2> QED
    BY <1>7, <1>8, <2>2 DEF Good
<1>10. CASE ~m.active
  <2>1. m' = s
    BY <1>1, <1>7, <1>10
  <2>2. ASSUME Sane(m) PROVE Sane(s)
    <3>1. Kept(s) /\ s.queue = <<>>
      BY <1>7, <1>8, <1>10, <2>2, SaneKept
    <3> QED
      BY <1>7, <1>10, <3>1, Idle
  <2> QED
    BY <1>6, <1>7, <2>1, <2>2 DEF Good
<1> QED
  BY <1>9, <1>10

LEMMA NewGood ==
  LET u == NewManager IN
  /\ Typed(u) /\ u.crossed = FALSE /\ u.queue = <<>> /\ u.active = FALSE /\ u.wrecked = FALSE
  /\ u.untold = {} /\ u.dialogs = <<>> /\ u.calls = EmptyBag /\ u.cancelled = FALSE
  /\ u.what = <<>>
<1> DEFINE u == NewManager
           zero == [t \in Transfers |-> 0]
           no == [t \in Transfers |-> "no"]
           none == [e \in Entries |-> 0]
<1>1. Record(u)
  BY DEF Record, NewManager, Fields, Types
<1>2. /\ u.backend = TRUE /\ u.active = FALSE /\ u.cancelled = FALSE /\ u.what = <<>>
      /\ u.queue = <<>> /\ u.down = <<>> /\ u.idx = 1 /\ u.up = <<>> /\ u.uidx = 1
      /\ u.left = zero
  BY DEF NewManager
<1>3. /\ u.scans = 0 /\ u.listed = {} /\ u.skip = {} /\ u.created = {} /\ u.reading = NoRead
      /\ u.tar = "unknown" /\ u.calls = EmptyBag /\ u.listeners = 0 /\ u.dialogs = <<>>
      /\ u.log = "none"
  BY DEF NewManager
<1>4. /\ u.ended = no /\ u.told = none
      /\ u.blind = {} /\ u.answered = FALSE /\ u.unheard = FALSE /\ u.untold = {}
      /\ u.crossed = FALSE /\ u.wrecked = FALSE
  BY DEF NewManager
<1>5. /\ zero \in [Transfers -> Int] /\ none \in [Entries -> Nat]
      /\ no \in [Transfers -> {"no", "completed", "failed", "cancelled", "lost"}]
  OBVIOUS
<1>6. /\ <<>> \in Seq(Transfers) /\ <<>> \in Seq(TransferKinds) /\ <<>> \in Seq(Entries)
      /\ <<>> \in Seq(SUBSET Entries)
  BY EmptySeq
<1> HIDE DEF u, zero, no, none
<1>7. /\ u.backend \in Types["backend"] /\ u.active \in Types["active"]
      /\ u.cancelled \in Types["cancelled"] /\ u.what \in Types["what"]
      /\ u.queue \in Types["queue"]
      /\ u.down \in Types["down"] /\ u.idx \in Types["idx"]
      /\ u.up \in Types["up"] /\ u.uidx \in Types["uidx"] /\ u.left \in Types["left"]
  <2>1. /\ u.backend \in Types["backend"] /\ u.active \in Types["active"]
        /\ u.cancelled \in Types["cancelled"] /\ u.what \in Types["what"]
        /\ u.queue \in Types["queue"]
    <3>1. /\ Types["backend"] = BOOLEAN /\ Types["active"] = BOOLEAN
          /\ Types["cancelled"] = BOOLEAN
      BY TypeOf
    <3>2. u.what \in Types["what"] /\ u.queue \in Types["queue"]
      BY <1>2, <1>6, TypeOf
    <3> QED
      BY <1>2, <3>1, <3>2
  <2>2. /\ u.down \in Types["down"] /\ u.idx \in Types["idx"]
        /\ u.up \in Types["up"] /\ u.uidx \in Types["uidx"] /\ u.left \in Types["left"]
    BY <1>2, <1>5, <1>6, TypeOf
  <2> QED
    BY <2>1, <2>2
<1>8. /\ u.scans \in Types["scans"] /\ u.listed \in Types["listed"]
      /\ u.skip \in Types["skip"] /\ u.created \in Types["created"]
      /\ u.reading \in Types["reading"] /\ u.tar \in Types["tar"]
      /\ u.calls \in Types["calls"] /\ u.listeners \in Types["listeners"]
      /\ u.dialogs \in Types["dialogs"] /\ u.log \in Types["log"]
  <2>1. /\ u.scans \in Types["scans"] /\ u.listed \in Types["listed"]
        /\ u.skip \in Types["skip"] /\ u.created \in Types["created"]
        /\ u.reading \in Types["reading"]
    BY <1>3, TypeOf
  <2>2. /\ u.tar \in Types["tar"]
        /\ u.calls \in Types["calls"] /\ u.listeners \in Types["listeners"]
        /\ u.dialogs \in Types["dialogs"] /\ u.log \in Types["log"]
    BY <1>3, <1>6, NoCalls, TypeOf
  <2> QED
    BY <2>1, <2>2
<1>9. /\ u.ended \in Types["ended"] /\ u.told \in Types["told"]
      /\ u.blind \in Types["blind"] /\ u.answered \in Types["answered"]
      /\ u.unheard \in Types["unheard"] /\ u.untold \in Types["untold"]
      /\ u.crossed \in Types["crossed"] /\ u.wrecked \in Types["wrecked"]
  BY <1>4, <1>5, TypeOf
<1>10. Fields = {"backend", "active", "cancelled", "what", "queue", "down", "idx", "up", "uidx",
                 "left", "scans", "listed", "skip", "created", "reading", "tar", "calls",
                 "listeners", "dialogs", "log", "ended", "told", "blind", "answered", "unheard",
                 "untold", "crossed", "wrecked"}
  BY DEF Fields, Types
<1>11. \A f \in Fields : u[f] \in Types[f]
  BY <1>7, <1>8, <1>9, <1>10
<1>12. Known(u)
  BY <1>2, EmptySeq DEF Known
<1> QED
  BY <1>1, <1>2, <1>3, <1>4, <1>11, <1>12 DEF Typed, u

LEMMA NewBackendGood ==
  ASSUME Good(m), NewBackend
  PROVE  Good(m')
<1> DEFINE a == NewManager
           log == IF m.log = "none" THEN "none" ELSE "idle"
<1>1. m' = [a EXCEPT !.what = m.what, !.ended = m.ended, !.log = log]
  BY DEF NewBackend
<1>2. Typed(m)
  BY DEF Good
<1>3. /\ Typed(a) /\ a.crossed = FALSE /\ a.queue = <<>> /\ a.active = FALSE
      /\ a.wrecked = FALSE /\ a.untold = {} /\ a.dialogs = <<>> /\ a.calls = EmptyBag
      /\ a.cancelled = FALSE
  BY NewGood
<1> HIDE DEF a
<1>4. log \in {"none", "live", "idle"}
  OBVIOUS
<1> HIDE DEF log
<1>5. /\ Changed(m', a, {"what", "ended", "log"})
      /\ m'.what = m.what /\ m'.ended = m.ended /\ m'.log = log
  BY <1>1, <1>3, Names DEF Typed, Record, Changed
<1>6. /\ m'.queue = <<>> /\ m'.active = FALSE /\ m'.wrecked = FALSE /\ m'.untold = {}
      /\ m'.dialogs = <<>> /\ m'.calls = EmptyBag /\ m'.cancelled = FALSE
  BY <1>3, <1>5, Names DEF Changed
<1>7. Typed(m')
  <2>1. /\ m'.what \in Types["what"] /\ m'.ended \in Types["ended"] /\ m'.log \in Types["log"]
    BY <1>2, <1>4, <1>5, FieldTypes, TypeOf
  <2>2. Known(m')
    BY <1>6, EmptySeq DEF Known
  <2> QED
    BY <1>3, <1>5, <2>1, <2>2, TypedQueue
<1>8. \A t : Untouched(m', t)
  <2>1. Len(m'.dialogs) = 0
    BY <1>6, EmptySeq
  <2> QED
    BY <1>6, <2>1, NoCalls DEF Untouched, CallsOf, Unasked
<1>9. Kept(m')
  <2>1. Len(m'.dialogs) = 0 /\ Len(m'.queue) = 0
    BY <1>6, EmptySeq
  <2> QED
    BY <1>6, <1>8, <2>1 DEF Kept
<1>10. Sane(m')
  BY <1>6, <1>9, Idle
<1> QED
  BY <1>7, <1>10 DEF Good

-----------------------------------------------------------------------------
(* The conflict dialogs.                                                   *)

LEMMA DialogLeaves ==
  ASSUME NEW s, Typed(s), s.dialogs # <<>>
  PROVE  LET u == DialogGone(s) IN
         /\ Typed(u) /\ Changed(u, s, {"listeners", "dialogs"})
         /\ \A i \in 1 .. Len(u.dialogs) : \E j \in 1 .. Len(s.dialogs) : u.dialogs[i] = s.dialogs[j]
         /\ s.listeners # 0 => u.dialogs = s.dialogs
<1> DEFINE u == DialogGone(s)
           n == s.listeners - 1
           rest == Tail(s.dialogs)
<1>1. s.dialogs \in Seq(SUBSET Entries) /\ s.listeners \in Nat
  BY FieldTypes
<1>2. /\ rest \in Seq(SUBSET Entries) /\ Len(rest) = Len(s.dialogs) - 1
      /\ Len(s.dialogs) \in Nat /\ \A i \in 1 .. Len(s.dialogs) - 1 : rest[i] = s.dialogs[i + 1]
  BY <1>1, TailShape
<1> HIDE DEF u, rest
<1>3. CASE s.listeners > 0
  <2>1. u = [s EXCEPT !.listeners = n]
    BY <1>3 DEF u, DialogGone
  <2>2. Changed(u, s, {"listeners"}) /\ u.listeners = n
    BY <2>1, Names DEF Typed, Record, Changed
  <2>3. Typed(u)
    <3>1. u.listeners \in Types["listeners"]
      BY <1>1, <1>3, <2>2, TypeOf
    <3> QED
      BY <2>2, <3>1, TypedBut
  <2>4. u.dialogs = s.dialogs
    BY <2>2, Names DEF Changed
  <2>5. Changed(u, s, {"listeners", "dialogs"})
    BY <2>2 DEF Changed
  <2> QED
    BY <2>3, <2>4, <2>5 DEF u
<1>4. CASE ~(s.listeners > 0)
  <2>1. u = [s EXCEPT !.dialogs = rest]
    BY <1>4 DEF u, DialogGone, rest
  <2>2. Changed(u, s, {"dialogs"}) /\ u.dialogs = rest
    BY <2>1, Names DEF Typed, Record, Changed
  <2>3. Typed(u)
    <3>1. u.dialogs \in Types["dialogs"]
      BY <1>2, <2>2, TypeOf
    <3> QED
      BY <2>2, <3>1, TypedBut
  <2>4. \A i \in 1 .. Len(rest) : i + 1 \in 1 .. Len(s.dialogs) /\ rest[i] = s.dialogs[i + 1]
    BY <1>2
  <2>5. Changed(u, s, {"listeners", "dialogs"})
    BY <2>2 DEF Changed
  <2>6. s.listeners = 0
    BY <1>1, <1>4
  <2> QED
    BY <2>2, <2>3, <2>4, <2>5, <2>6 DEF u
<1> QED
  BY <1>3, <1>4

\* Fewer dialogs: what was kept is kept, and the head of the queue goes on.
LEMMA FewerDialogs ==
  ASSUME NEW s, NEW u, Changed(u, s, {"listeners", "dialogs"}),
         \A i \in 1 .. Len(u.dialogs) : \E j \in 1 .. Len(s.dialogs) : u.dialogs[i] = s.dialogs[j]
  PROVE  /\ Kept(s) => Kept(u)
         /\ \A t : Busy(s, t) => Busy(u, t)
         /\ \A t : Unasked(s, t) => Unasked(u, t)
         /\ \A t : CallsOf(u, t) = CallsOf(s, t)
<1>1. /\ u.what = s.what /\ u.queue = s.queue /\ u.calls = s.calls /\ u.untold = s.untold
      /\ u.wrecked = s.wrecked /\ u.active = s.active /\ u.backend = s.backend
      /\ u.cancelled = s.cancelled /\ u.down = s.down
  BY Names DEF Changed
<1>2. \A t : Unasked(s, t) => Unasked(u, t)
  BY DEF Unasked
<1>3. \A t : CallsOf(u, t) = CallsOf(s, t)
  BY <1>1, SameCalls
<1>4. \A t : Untouched(s, t) => Untouched(u, t)
  BY <1>2, <1>3 DEF Untouched
<1>5. ASSUME Kept(s) PROVE Kept(u)
  <2>1. \A i \in 1 .. Len(u.dialogs) : u.dialogs[i] # {}
    BY <1>5 DEF Kept
  <2> QED
    BY <1>1, <1>4, <1>5, <2>1 DEF Kept
<1>6. \A t : Busy(s, t) => Busy(u, t)
  BY <1>1, <1>4, <1>5 DEF Busy, Queued
<1> QED
  BY <1>2, <1>3, <1>5, <1>6

\* A dialog is up for the head of the queue, and none was accepted yet: it is asked.
LEMMA AskedNow ==
  ASSUME NEW s, Typed(s), Kept(s), s.dialogs # <<>>, StillAsked(s), NEW t, t = Head(s.queue),
         Running(s, t), ~s.answered
  PROVE  Asking(s, t)
<1>1. Head(s.dialogs) = s.dialogs[1] /\ Len(s.dialogs) \in Nat \ {0}
  BY FieldTypes, TailShape
<1>2. PICK e \in s.dialogs[1] : TRUE
  BY <1>1 DEF Kept
<1>3. e[1] = t
  BY <1>1, <1>2 DEF StillAsked
<1>4. ~Unasked(s, t)
  BY <1>1, <1>2, <1>3 DEF Unasked
<1> QED
  BY <1>4 DEF Running, Scanning, Writing

LEMMA AcceptDialogGood ==
  ASSUME Good(m), AcceptDialog
  PROVE  Good(m')
<1> DEFINE g == DialogGone(m)
           late == m.crossed \/ m.answered \/ ~StillAsked(m)
<1>1. Typed(m) /\ m.dialogs # <<>>
  BY DEF Good, AcceptDialog
<1>2. PICK skip \in SUBSET Head(m.dialogs) :
        m' \in IF m.cancelled \/ m.queue = <<>> THEN {g}
               ELSE UploadNext([g EXCEPT !.skip = skip, !.uidx = 1, !.answered = TRUE,
                                         !.unheard = FALSE,
                                         !.crossed = @ \/ m.answered \/ ~StillAsked(m)])
  BY DEF AcceptDialog
<1>3. /\ Typed(g) /\ Changed(g, m, {"listeners", "dialogs"})
      /\ \A i \in 1 .. Len(g.dialogs) : \E j \in 1 .. Len(m.dialogs) : g.dialogs[i] = m.dialogs[j]
  BY <1>1, DialogLeaves
<1> HIDE DEF g
<1>4. /\ Kept(m) => Kept(g)
      /\ \A t : Busy(m, t) => Busy(g, t)
      /\ \A t : CallsOf(g, t) = CallsOf(m, t)
  BY <1>3, FewerDialogs
<1>5. /\ g.crossed = m.crossed /\ g.queue = m.queue /\ g.active = m.active /\ g.up = m.up
      /\ g.told = m.told /\ g.calls = m.calls /\ g.cancelled = m.cancelled
  BY <1>3, Names DEF Changed
<1>6. m.crossed \in BOOLEAN /\ m.answered \in BOOLEAN
  BY <1>1, FieldTypes
<1>7. CASE m.cancelled \/ m.queue = <<>>
  <2>1. m' = g
    BY <1>2, <1>7
  <2>2. ASSUME Sane(m) PROVE Sane(g)
    <3>1. Kept(m) /\ m.queue = <<>> /\ ~m.active
      BY <1>7, <2>2, SaneKept DEF Sane
    <3> QED
      BY <1>4, <1>5, <3>1, Idle
  <2> QED
    BY <1>3, <1>5, <2>1, <2>2 DEF Good
<1>8. CASE ~(m.cancelled \/ m.queue = <<>>)
  <2> DEFINE v == [g EXCEPT !.skip = skip, !.uidx = 1, !.answered = TRUE, !.unheard = FALSE,
                            !.crossed = late]
  <2>1. m' \in UploadNext(v)
    <3>2. m' \in UploadNext([g EXCEPT !.skip = skip, !.uidx = 1, !.answered = TRUE,
                                      !.unheard = FALSE,
                                      !.crossed = g.crossed \/ m.answered \/ ~StillAsked(m)])
      BY <1>2, <1>8
    <3> QED
      BY <1>5, <3>2
  <2>2. late \in BOOLEAN /\ skip \in SUBSET Entries
    <3>1. Head(m.dialogs) \in SUBSET Entries
      BY <1>1, FieldTypes, TailShape, ElementOfSeq
    <3> QED
      BY <1>6, <3>1
  <2> HIDE DEF late
  <2>3. /\ Changed(v, g, {"skip", "uidx", "answered", "unheard", "crossed"})
        /\ v.uidx = 1 /\ v.answered = TRUE /\ v.unheard = FALSE
        /\ v.skip = skip /\ v.crossed = late
    BY <1>3, Names DEF Typed, Record, Changed
  <2> HIDE DEF v
  <2>4. Typed(v)
    <3>1. v.skip \in Types["skip"] /\ v.uidx \in Types["uidx"]
      BY <2>2, <2>3, TypeOf
    <3>2. v.answered \in Types["answered"] /\ v.unheard \in Types["unheard"]
      BY <2>3, TypeOf
    <3>3. v.crossed \in Types["crossed"]
      BY <2>2, <2>3, TypeOf
    <3> QED
      BY <1>3, <2>3, <3>1, <3>2, <3>3, TypedBut
  <2> DEFINE t == Head(m.queue)
  <2>5. /\ v.up = m.up /\ v.told = m.told /\ v.calls = m.calls
        /\ v.queue = g.queue /\ v.what = g.what /\ v.untold = g.untold /\ v.dialogs = g.dialogs
        /\ v.active = g.active /\ v.backend = g.backend /\ v.cancelled = g.cancelled
        /\ v.wrecked = g.wrecked /\ v.calls = g.calls
    BY <1>5, <2>3, Names DEF Changed
  <2>6. ASSUME ~late PROVE Busy(v, t) /\ Uploading(v, t)
    <3>1. Sane(m) /\ ~m.answered /\ StillAsked(m)
      BY <2>6 DEF late, Good
    <3>2. Kept(m) /\ Busy(m, t) /\ Running(m, t)
      BY <1>8, <3>1 DEF Sane
    <3>3. Asking(m, t)
      BY <1>1, <3>1, <3>2, AskedNow
    <3>4. Busy(g, t) /\ CallsOf(g, t) = {}
      BY <1>4, <3>2, <3>3 DEF Asking
    <3>5. Busy(v, t) /\ CallsOf(v, t) = {}
      <4>1. Aside(v, g, t)
        BY <2>5, SameCalls DEF Aside
      <4> QED
        BY <1>3, <2>5, <3>4, <4>1, StillBusy, SameCalls
    <3>6. Manifest(v.up, t) /\ \A i \in 1 .. Len(v.up) : v.told[v.up[i]] = 0
      BY <2>5, <3>3 DEF Asking
    <3>7. Verdicts(v, v.up, 1) /\ 1 <= Len(v.up) + 1
      BY <3>6, ManifestFacts DEF Verdicts
    <3> QED
      BY <2>3, <3>5, <3>6, <3>7 DEF Uploading, Heard
  <2>7. Leads(v, Busy(v, t) /\ Uploading(v, t), UploadNext(v))
    BY <2>4, UploadNextLeads
  <2> QED
    BY <2>1, <2>3, <2>6, <2>7 DEF Leads, Good
<1> QED
  BY <1>7, <1>8

LEMMA DeclineDialogGood ==
  ASSUME Good(m), DeclineDialog
  PROVE  Good(m')
<1> DEFINE g == DialogGone(m)
           unheard == m.unheard \/ (m.listeners = 0 /\ StillAsked(m) /\ ~m.answered)
<1>1. Typed(m) /\ m.dialogs # <<>>
  BY DEF Good, DeclineDialog
<1>2. /\ Typed(g) /\ Changed(g, m, {"listeners", "dialogs"})
      /\ \A i \in 1 .. Len(g.dialogs) : \E j \in 1 .. Len(m.dialogs) : g.dialogs[i] = m.dialogs[j]
      /\ m.listeners # 0 => g.dialogs = m.dialogs
  BY <1>1, DialogLeaves
<1>3. m' = [g EXCEPT !.unheard = unheard]
  <2>1. g.unheard = m.unheard
    BY <1>2, Names DEF Changed
  <2> HIDE DEF g
  <2> QED
    BY <2>1 DEF DeclineDialog, g
<1> HIDE DEF g
<1>4. /\ Kept(m) => Kept(g)
      /\ \A t : Busy(m, t) => Busy(g, t)
      /\ \A t : Unasked(m, t) => Unasked(g, t)
      /\ \A t : CallsOf(g, t) = CallsOf(m, t)
  BY <1>2, FewerDialogs
<1>5. unheard \in BOOLEAN
  BY <1>1, FieldTypes
<1> HIDE DEF unheard
<1>6. Changed(m', g, {"unheard"}) /\ m'.unheard = unheard
  BY <1>2, <1>3, Names DEF Typed, Record, Changed
<1>7. Typed(m')
  <2>1. m'.unheard \in Types["unheard"]
    BY <1>5, <1>6, TypeOf
  <2> QED
    BY <1>2, <1>6, <2>1, TypedBut
<1>8. Changed(m', m, {"listeners", "dialogs", "unheard"}) /\ m'.dialogs = g.dialogs
  BY <1>2, <1>6, Names DEF Changed
<1>9. /\ m'.down = m.down /\ m'.idx = m.idx /\ m'.up = m.up /\ m'.uidx = m.uidx
      /\ m'.skip = m.skip /\ m'.told = m.told /\ m'.left = m.left /\ m'.scans = m.scans
      /\ m'.listed = m.listed /\ m'.blind = m.blind /\ m'.answered = m.answered
      /\ m'.what = m.what /\ m'.queue = m.queue /\ m'.calls = m.calls
      /\ m'.active = m.active /\ m'.crossed = m.crossed
  BY <1>8, Names DEF Changed
<1>10. ASSUME Sane(m) PROVE Sane(m')
  <2>1. Kept(m) /\ Kept(g) /\ g.queue = m.queue /\ g.calls = m.calls /\ g.active = m.active
    BY <1>2, <1>4, <1>10, SaneKept, Names DEF Changed
  <2>2. CASE m.queue = <<>>
    <3>1. /\ m'.queue = <<>> /\ m'.active = FALSE
      BY <1>1, <1>9, <1>10, <2>2, FieldTypes DEF Sane
    <3>2. /\ m'.wrecked = g.wrecked /\ m'.untold = g.untold /\ m'.cancelled = g.cancelled
          /\ m'.down = g.down /\ m'.what = g.what /\ m'.dialogs = g.dialogs /\ m'.calls = g.calls
      BY <1>6, Names DEF Changed
    <3>3. m'.cancelled => m'.down = <<>>
      BY <2>1, <3>2 DEF Kept
    <3> QED
      BY <2>1, <3>1, <3>2, <3>3, IdleKept
  <2>3. CASE m.queue # <<>>
    <3> DEFINE t == Head(m.queue)
    <3>1. Busy(m, t) /\ Running(m, t)
      BY <1>10, <2>3 DEF Sane
    <3>2. Busy(g, t)
      BY <1>4, <3>1
    <3>3. Busy(m', t)
      <4>1. m'.calls = g.calls
        BY <2>1, <1>9
      <4> QED
        BY <1>2, <1>6, <3>2, <4>1, SameCalls, ChangedAside, StillBusy
    <3> HIDE DEF t
    <3>4. CallsOf(m', t) = CallsOf(m, t) /\ (Unasked(m, t) => Unasked(m', t))
      <4>1. CallsOf(m', t) = CallsOf(m, t)
        BY <1>9, SameCalls
      <4>2. Unasked(g, t) => Unasked(m', t)
        BY <1>8 DEF Unasked
      <4> QED
        BY <1>4, <4>1, <4>2
    <3>6. \A es, k : Verdicts(m, es, k) <=> Verdicts(m', es, k)
      BY <1>9 DEF Verdicts
    <3>7. Heard(m, t) <=> Heard(m', t)
      BY <1>9 DEF Heard
    <3>8. Gathered(m, t, 0) => Gathered(m', t, 0)
      BY <1>9, <3>4, <3>6 DEF Gathered
    <3>9. (Walking(m, t) => Walking(m', t)) /\ (Reading(m, t) => Reading(m', t))
      BY <1>9, <3>4, <3>6, <3>8 DEF Walking, Reading
    <3>10. Archiving(m, t) => Archiving(m', t)
      BY <1>9, <3>4, <3>6 DEF Archiving
    <3>11. (Scanning(m, t) => Scanning(m', t)) /\ (Writing(m, t) => Writing(m', t))
      BY <1>9, <3>4, <3>6, <3>7 DEF Scanning, Writing
    <3>12. ASSUME Asking(m, t) PROVE Asking(m', t)
      <4>1. ~m.answered /\ (m.unheard \/ StillAsked(m))
        BY <3>12 DEF Asking
      <4>2. CASE m.unheard \/ m.listeners = 0
        <5>1. m'.unheard
          BY <1>6, <4>1, <4>2 DEF unheard
        <5> QED
          BY <1>9, <3>4, <3>12, <5>1 DEF Asking
      <4>3. CASE ~m.unheard /\ m.listeners # 0
        <5>1. m'.dialogs = m.dialogs
          BY <1>2, <1>8, <4>3
        <5>2. m'.dialogs # <<>> /\ StillAsked(m')
          BY <1>1, <1>9, <4>1, <4>3, <5>1 DEF StillAsked
        <5> QED
          BY <1>9, <3>4, <3>12, <5>2 DEF Asking
      <4> QED
        BY <4>2, <4>3
    <3>13. Running(m', t)
      BY <1>9, <3>1, <3>4, <3>9, <3>10, <3>11, <3>12 DEF Running
    <3> QED
      BY <3>3, <3>13, Runs
  <2> QED
    BY <2>2, <2>3
<1> QED
  BY <1>7, <1>9, <1>10 DEF Good
-----------------------------------------------------------------------------
(* The callbacks.                                                          *)

LEMMA Either ==
  ASSUME NEW s, NEW p, NEW U, NEW V, Leads(s, p, U), Leads(s, p, V)
  PROVE  Leads(s, p, U \union V)
BY DEF Leads

\* What leads on from a later state leads on from an earlier one.
LEMMA Onward ==
  ASSUME NEW s, NEW p, NEW v, NEW q, NEW U, Leads(v, q, U), s.crossed => v.crossed, p => q
  PROVE  Leads(s, p, U)
BY DEF Leads

LEMMA TakenCall ==
  ASSUME Typed(m), NEW kind, NEW x
  PROVE  LET s == Taken(kind, x)
             c == <<kind, x>>
         IN  /\ Typed(s) /\ Changed(s, m, {"calls"})
             /\ BagToSet(s.calls) \subseteq BagToSet(m.calls)
             /\ \A d \in BagToSet(m.calls) \ {c} : d \in BagToSet(s.calls) /\ s.calls[d] = m.calls[d]
             /\ (c \in BagToSet(m.calls) /\ m.calls[c] = 1) => c \notin BagToSet(s.calls)
<1> DEFINE c == <<kind, x>>
           B == m.calls (-) SetToBag({c})
           s == Taken(kind, x)
<1>1. s = [m EXCEPT !.calls = B]
  BY DEF Taken
<1> HIDE DEF c
<1>2. /\ B \in CallBags /\ BagToSet(B) \subseteq BagToSet(m.calls)
      /\ \A d \in BagToSet(m.calls) \ {c} : d \in BagToSet(B) /\ B[d] = m.calls[d]
      /\ (c \in BagToSet(m.calls) /\ m.calls[c] = 1) => c \notin BagToSet(B)
  BY FieldTypes, LessCalls
<1> HIDE DEF B, s
<1>3. Changed(s, m, {"calls"}) /\ s.calls = B
  BY <1>1, Names DEF Typed, Record, Changed
<1>4. Typed(s)
  <2>1. s.calls \in Types["calls"]
    BY <1>2, <1>3, TypeOf
  <2> QED
    BY <1>3, <2>1, TypedBut
<1> QED
  BY <1>2, <1>3, <1>4 DEF s, c

\* After a cancel nothing runs, and a callback changes little.
LEMMA Dropped ==
  ASSUME Good(m), NEW kind, NEW x, NEW s, s = Taken(kind, x), s.cancelled,
         NEW u, Typed(u), NEW F, Changed(u, s, F),
         {"queue", "active", "wrecked", "untold", "cancelled", "down", "what", "dialogs",
          "calls", "crossed"} \cap F = {}
  PROVE  Good(u)
<1>1. Typed(m)
  BY DEF Good
<1>2. Changed(s, m, {"calls"}) /\ BagToSet(s.calls) \subseteq BagToSet(m.calls)
  BY <1>1, TakenCall
<1>3. /\ u.queue = m.queue /\ u.active = m.active /\ u.wrecked = m.wrecked
      /\ u.untold = m.untold /\ u.cancelled = m.cancelled /\ u.down = m.down
      /\ u.what = m.what /\ u.dialogs = m.dialogs /\ u.crossed = m.crossed
      /\ u.calls = s.calls /\ m.cancelled
  BY <1>2, Names DEF Changed
<1>4. ASSUME Sane(m) PROVE Sane(u)
  <2>1. Kept(m) /\ m.queue = <<>> /\ ~m.active
    BY <1>3, <1>4, SaneKept DEF Sane
  <2>2. u.active = FALSE /\ (u.cancelled => u.down = <<>>)
    BY <1>1, <1>3, <2>1, FieldTypes DEF Kept
  <2> QED
    BY <1>2, <1>3, <2>1, <2>2, IdleKept
<1> QED
  BY <1>3, <1>4 DEF Good

\* The call <<kind, x>> of the transfer that runs has been answered.
Answering(s, kind, x) ==
  LET t == x[1] IN
  /\ Busy(m, t) /\ Running(m, t) /\ Busy(s, t)
  /\ <<kind, x>> \in CallsOf(m, t) /\ CallsOf(s, t) = CallsOf(m, t) \ {<<kind, x>>}
  /\ \A d \in CallsOf(s, t) : s.calls[d] = m.calls[d]

LEMMA Answered ==
  ASSUME Good(m), NEW kind, NEW x \in Waiting(kind), ~Taken(kind, x).cancelled
  PROVE  LET s == Acts(Taken(kind, x), x[1]) IN
         /\ Typed(s) /\ Changed(s, m, {"calls", "crossed"})
         /\ ~s.crossed => Answering(s, kind, x)
<1> DEFINE a == Taken(kind, x)
           t == x[1]
           c == <<kind, x>>
           late == m.crossed \/ m.queue = <<>> \/ Head(m.queue) # t
           s == Acts(a, t)
<1>1. Typed(m) /\ c \in BagToSet(m.calls)
  BY WaitingTypes DEF Good
<1>2. /\ Typed(a) /\ Changed(a, m, {"calls"})
      /\ BagToSet(a.calls) \subseteq BagToSet(m.calls)
      /\ \A d \in BagToSet(m.calls) \ {c} : d \in BagToSet(a.calls) /\ a.calls[d] = m.calls[d]
      /\ m.calls[c] = 1 => c \notin BagToSet(a.calls)
  BY <1>1, TakenCall
<1> HIDE DEF a
<1>3. a.crossed = m.crossed /\ a.queue = m.queue /\ m.cancelled = a.cancelled
  BY <1>2, Names DEF Changed
<1>4. s = [a EXCEPT !.crossed = late]
  BY <1>3 DEF Acts
<1>5. late \in BOOLEAN
  BY <1>1, FieldTypes
<1> HIDE DEF late, s
<1>6. Changed(s, a, {"crossed"}) /\ s.crossed = late
  BY <1>2, <1>4, Names DEF Typed, Record, Changed
<1>7. Typed(s)
  <2>1. s.crossed \in Types["crossed"]
    BY <1>5, <1>6, TypeOf
  <2> QED
    BY <1>2, <1>6, <2>1, TypedBut
<1>8. Changed(s, m, {"calls", "crossed"}) /\ s.calls = a.calls
  BY <1>2, <1>6, Names DEF Changed
<1>9. ASSUME ~s.crossed PROVE Answering(s, kind, x)
  <2>1. Sane(m) /\ m.queue # <<>> /\ Head(m.queue) = t
    BY <1>6, <1>9 DEF late, Good
  <2>2. Busy(m, t) /\ Running(m, t)
    BY <2>1 DEF Sane
  <2>3. c \in CallsOf(m, t) /\ c[2][1] = t
    BY <1>1 DEF CallsOf
  <2>4. m.calls[c] = 1
    BY <2>2, <2>3 DEF Running
  <2> HIDE DEF c, t
  <2>5. CallsOf(s, t) = CallsOf(m, t) \ {c}
    BY <1>2, <1>8, <2>4 DEF CallsOf
  <2>6. \A d \in CallsOf(s, t) : s.calls[d] = m.calls[d]
    BY <1>2, <1>8, <2>4 DEF CallsOf
  <2>7. Busy(s, t)
    <3>1. \A d \in BagToSet(s.calls) : d \in BagToSet(m.calls) \/ d[2][1] = t
      BY <1>2, <1>8
    <3>2. Aside(s, m, t)
      BY <1>8, <3>1, ChangedAside
    <3> QED
      BY <1>1, <2>2, <3>2, StillBusy
  <2> QED
    BY <2>2, <2>3, <2>5, <2>6, <2>7 DEF Answering, c, t
<1> QED
  BY <1>7, <1>8, <1>9 DEF s, a, t

\* What an answered callback may leave is good.
LEMMA Outcome ==
  ASSUME NEW s, NEW U, Leads(s, ~s.crossed, U), m' \in U
  PROVE  Good(m')
BY DEF Leads, Good

-----------------------------------------------------------------------------
(* The walk.                                                               *)

WalkKinds == FolderKinds \ {"scan"}

\* The folder f has been answered, and is to be counted.
Through(s, f) ==
  /\ Busy(s, f[1]) /\ Unasked(s, f[1]) /\ Gathered(s, f[1], 1)
  /\ \A d \in CallsOf(s, f[1]) : d[2] # f

\* None of the files found is in f.
Unwalked(s, f) == \A i \in 1 .. Len(s.down) : FolderOf(s.down[i]) # f

LEMMA WalkAnswered ==
  ASSUME NEW kind \in WalkKinds, NEW f, NEW s, Changed(s, m, {"calls", "crossed"}),
         Answering(s, kind, f)
  PROVE  Through(s, f) /\ (kind # "ignore" => Unwalked(s, f))
<1> DEFINE t == f[1]
           c == <<kind, f>>
<1>1. /\ Busy(s, t) /\ Running(m, t)
      /\ c \in CallsOf(m, t) /\ CallsOf(s, t) = CallsOf(m, t) \ {c}
      /\ \A d \in CallsOf(s, t) : s.calls[d] = m.calls[d]
  BY DEF Answering
<1>2. /\ s.left = m.left /\ s.down = m.down /\ s.idx = m.idx /\ s.skip = m.skip
      /\ s.told = m.told /\ s.dialogs = m.dialogs
  BY Names DEF Changed
<1>3. c[1] = kind /\ c[2] = f
  OBVIOUS
<1> HIDE DEF c
<1>4. kind \in FolderKinds /\ kind # "scan" /\ kind \notin ArchiveKinds /\ kind # "read"
      /\ kind # "mkdir" /\ kind # "write"
  BY DEF WalkKinds, FolderKinds, ArchiveKinds
<1>5. Walking(m, t) /\ Unasked(m, t)
  <2>1. ~Scanning(m, t) /\ ~Asking(m, t) /\ ~Reading(m, t)
    BY <1>1, <1>3, <1>4 DEF Scanning, Asking, Reading
  <2>2. ~Archiving(m, t) /\ ~Writing(m, t)
    BY <1>1, <1>3, <1>4 DEF Archiving, Writing
  <2> QED
    BY <1>1, <2>1, <2>2 DEF Running
<1> HIDE DEF t
<1> DEFINE C == CallsOf(m, t)
           D == CallsOf(s, t)
<1>6. Gathered(m, t, 0)
  BY <1>5 DEF Walking
<1>7. /\ IsFiniteSet(C) /\ c \in C /\ D = C \ {c}
      /\ \A e \in C : m.calls[e] = 1 /\ e[1] \in FolderKinds \ {"scan"}
      /\ \A d, e \in C : d[2] = e[2] => d = e
      /\ m.left[t] = Cardinality(C) + 0
  BY <1>1, <1>6 DEF Gathered
<1>8. IsFiniteSet(D) /\ Cardinality(D) = Cardinality(C) - 1 /\ Cardinality(C) \in Nat
  <2> HIDE DEF C, D
  <2> QED
    BY <1>7, FS_RemoveElement, FS_CardinalityType
<1>9. s.left[t] = Cardinality(D) + 1
  BY <1>2, <1>7, <1>8
<1>10. \A e \in D : s.calls[e] = 1 /\ e[1] \in FolderKinds \ {"scan"}
  BY <1>1, <1>7
<1>11. Gathered(s, t, 1)
  BY <1>2, <1>6, <1>7, <1>8, <1>9, <1>10 DEF Gathered
<1>12. \A d \in D : d[2] # f
  BY <1>3, <1>7
<1>13. Unasked(s, t)
  BY <1>2, <1>5 DEF Unasked
<1>14. kind # "ignore" => Unwalked(s, f)
  BY <1>2, <1>3, <1>6, <1>7 DEF Gathered, Unwalked
<1> QED
  BY <1>1, <1>11, <1>12, <1>13, <1>14 DEF Through, t

\* The files of a folder that is not in the manifest yet.
LEMMA Gains ==
  ASSUME NEW s, Typed(s), NEW f \in Folders, NEW n \in 0 .. MaxFiles
  PROVE  LET u == Gain(s, f, n)
             t == f[1]
         IN  /\ Typed(u) /\ u.crossed = s.crossed
             /\ \A k : (/\ Busy(s, t) /\ Unasked(s, t) /\ Gathered(s, t, k) /\ Unwalked(s, f)
                       /\ \A c \in CallsOf(s, t) : c[1] # "ignore" => c[2] # f) =>
                  Busy(u, t) /\ Unasked(u, t) /\ Gathered(u, t, k)
<1> DEFINE t == f[1]
           down == s.down \o Found(f, n)
           u == Gain(s, f, n)
<1>1. down \in Seq(Entries)
  <2> DEFINE more == Found(f, n)
  <2>1. \A i \in 1 .. n : <<f[1], f[2], i>> \in Entries
    BY BoundsAreReal DEF Entries, Folders
  <2>2. n \in Nat
    BY BoundsAreReal
  <2>3. more \in Seq(Entries)
    BY <2>1, <2>2 DEF Found
  <2> HIDE DEF more
  <2>4. s.down \in Seq(Entries)
    BY FieldTypes
  <2>5. s.down \o more \in Seq(Entries)
    BY <2>3, <2>4, ConcatProperties
  <2> QED
    BY <2>5 DEF more
<1>2. u = [s EXCEPT !.down = down]
  BY DEF Gain
<1> HIDE DEF u, down
<1>3. Changed(u, s, {"down"}) /\ u.down = down
  BY <1>2, Names DEF Typed, Record, Changed
<1>4. Typed(u)
  <2>1. u.down \in Types["down"]
    BY <1>1, <1>3, TypeOf
  <2> QED
    BY <1>3, <2>1, TypedBut
<1>5. /\ u.crossed = s.crossed /\ u.calls = s.calls /\ u.left = s.left /\ u.idx = s.idx
      /\ u.skip = s.skip /\ u.told = s.told /\ u.dialogs = s.dialogs
  BY <1>3, Names DEF Changed
<1>6. ASSUME NEW k, Busy(s, t), Unasked(s, t), Gathered(s, t, k), Unwalked(s, f),
             \A c \in CallsOf(s, t) : c[1] # "ignore" => c[2] # f
      PROVE  Busy(u, t) /\ Unasked(u, t) /\ Gathered(u, t, k)
  <2>1. Busy(u, t) /\ CallsOf(u, t) = CallsOf(s, t)
    BY <1>3, <1>5, <1>6, SameCalls, ChangedAside, StillBusy
  <2>2. Unasked(u, t)
    BY <1>5, <1>6 DEF Unasked
  <2>3. Manifest(s.down, t) /\ \A i \in 1 .. Len(s.down) : FolderOf(s.down[i]) # f
    BY <1>6 DEF Gathered, Unwalked
  <2>4. /\ Manifest(down, t)
        /\ \A i \in 1 .. Len(down) :
             FolderOf(down[i]) = f \/ \E j \in 1 .. Len(s.down) : down[i] = s.down[j]
    <3> DEFINE es == s.down
    <3>1. Manifest(es, t) /\ f[1] = t /\ \A i \in 1 .. Len(es) : FolderOf(es[i]) # f
      BY <2>3
    <3> HIDE DEF es
    <3>2. /\ Manifest(es \o Found(f, n), t)
          /\ \A i \in 1 .. Len(es \o Found(f, n)) :
               \/ FolderOf((es \o Found(f, n))[i]) = f
               \/ \E j \in 1 .. Len(es) : (es \o Found(f, n))[i] = es[j]
      BY <3>1, FoundMore
    <3> QED
      BY <3>2 DEF down, es
  <2>5. ASSUME NEW c \in CallsOf(s, t), NEW i \in 1 .. Len(down), c[1] # "ignore"
        PROVE  FolderOf(down[i]) # c[2]
    <3>1. CASE FolderOf(down[i]) = f
      BY <1>6, <2>5, <3>1
    <3>2. CASE \E j \in 1 .. Len(s.down) : down[i] = s.down[j]
      BY <1>6, <2>5, <3>2 DEF Gathered
    <3> QED
      BY <2>4, <3>1, <3>2
  <2>6. Gathered(u, t, k)
    BY <1>3, <1>5, <1>6, <2>1, <2>4, <2>5 DEF Gathered
  <2> QED
    BY <2>1, <2>2, <2>6
<1> QED
  BY <1>4, <1>5, <1>6 DEF u

\* One more call about a folder that was answered.
LEMMA WalksOn ==
  ASSUME NEW s, Typed(s), NEW f \in Folders, NEW kind \in WalkKinds
  PROVE  LET u == Make(s, kind, {f})
             t == f[1]
         IN  /\ Typed(u) /\ u.crossed = s.crossed /\ u.down = s.down
             /\ (Through(s, f) /\ (kind # "ignore" => Unwalked(s, f))) =>
                  /\ Busy(u, t) /\ Unasked(u, t) /\ Gathered(u, t, 0)
                  /\ CallsOf(u, t) = CallsOf(s, t) \union {<<kind, f>>}
<1> DEFINE t == f[1]
           c == <<kind, f>>
           u == Make(s, kind, {f})
<1>1. c \in Calls /\ {<<kind, y>> : y \in {f}} = {c} /\ c[1] = kind /\ c[2] = f
  BY CallTypes DEF WalkKinds
<1>2. {<<kind, y>> : y \in {f}} \subseteq Calls
  BY <1>1
<1>3. Typed(u) /\ Changed(u, s, {"calls", "log"})
  BY <1>2, Requested
<1>4. /\ u.crossed = s.crossed /\ u.down = s.down /\ u.left = s.left /\ u.idx = s.idx
      /\ u.skip = s.skip /\ u.told = s.told /\ u.dialogs = s.dialogs
  BY <1>3, Names DEF Changed
<1>5. ASSUME Through(s, f), kind # "ignore" => Unwalked(s, f)
      PROVE  /\ Busy(u, t) /\ Unasked(u, t) /\ Gathered(u, t, 0)
             /\ CallsOf(u, t) = CallsOf(s, t) \union {c}
  <2> DEFINE C == CallsOf(s, t)
             D == CallsOf(u, t)
  <2>1. /\ Busy(s, t) /\ Unasked(s, t) /\ Gathered(s, t, 1)
        /\ \A d \in C : d[2] # f
    BY <1>5 DEF Through
  <2>2. c \notin C
    BY <1>1, <2>1
  <2>3. {<<kind, y>> : y \in {f}} \cap CallsOf(s, t) = {} /\ \A y \in {f} : y[1] = t
    BY <1>1, <2>2
  <2>4. /\ CallsOf(u, t) = CallsOf(s, t) \union {<<kind, y>> : y \in {f}}
        /\ \A d \in CallsOf(s, t) : u.calls[d] = s.calls[d]
        /\ \A y \in {f} : u.calls[<<kind, y>>] = 1
        /\ Busy(s, t) => Busy(u, t)
    BY <1>2, <2>3, Asked
  <2> HIDE DEF u
  <2>5. /\ D = C \union {c} /\ Busy(u, t)
        /\ \A d \in C : u.calls[d] = s.calls[d]
        /\ u.calls[c] = 1
    BY <1>1, <2>1, <2>4
  <2> HIDE DEF c, t
  <2>6. Unasked(u, t)
    BY <1>4, <2>1 DEF Unasked
  <2>7. /\ IsFiniteSet(C) /\ s.left[t] = Cardinality(C) + 1
        /\ \A d \in C : s.calls[d] = 1 /\ d[1] \in FolderKinds \ {"scan"}
        /\ \A d, e \in C : d[2] = e[2] => d = e
    BY <2>1 DEF Gathered
  <2>8. IsFiniteSet(D) /\ Cardinality(D) = Cardinality(C) + 1 /\ Cardinality(C) \in Nat
    <3> HIDE DEF C, D
    <3> QED
      BY <2>2, <2>5, <2>7, FS_AddElement, FS_CardinalityType
  <2>9. u.left[t] = Cardinality(D) + 0
    BY <1>4, <2>7, <2>8
  <2>10. \A d \in D : u.calls[d] = 1 /\ d[1] \in FolderKinds \ {"scan"}
    BY <1>1, <2>5, <2>7 DEF WalkKinds
  <2>11. \A d, e \in D : d[2] = e[2] => d = e
    BY <1>1, <2>1, <2>5, <2>7
  <2>12. ASSUME NEW d \in D, NEW i \in 1 .. Len(s.down), d[1] # "ignore"
         PROVE  FolderOf(s.down[i]) # d[2]
    <3>1. CASE d = c
      BY <1>1, <1>5, <2>12, <3>1 DEF Unwalked
    <3>2. CASE d \in C
      BY <2>1, <2>12, <3>2 DEF Gathered
    <3> QED
      BY <2>5, <3>1, <3>2
  <2>13. Gathered(u, t, 0)
    BY <1>4, <2>1, <2>8, <2>9, <2>10, <2>11, <2>12 DEF Gathered
  <2> QED
    BY <2>5, <2>6, <2>13
<1> QED
  BY <1>3, <1>4, <1>5 DEF u

\* The folder is counted as it is.
LEMMA CountsNone ==
  ASSUME NEW s, Typed(s), NEW f \in Folders
  PROVE  Leads(s, Through(s, f), Counted(s, f[1], 0))
<1>1. f[1] \in Transfers
  BY DEF Folders
<1>2. Leads(s, Busy(s, f[1]) /\ Unasked(s, f[1]) /\ Gathered(s, f[1], 1 - 0), Counted(s, f[1], 0))
  BY <1>1, CountedLeads
<1>3. Through(s, f) => Busy(s, f[1]) /\ Unasked(s, f[1]) /\ Gathered(s, f[1], 1 - 0)
  BY DEF Through
<1> QED
  BY <1>2, <1>3, Onward

\* The folder is counted with its files.
LEMMA CountsFiles ==
  ASSUME NEW s, Typed(s), NEW f \in Folders, NEW n \in 0 .. MaxFiles
  PROVE  Leads(s, Through(s, f) /\ Unwalked(s, f), Counted(Gain(s, f, n), f[1], 0))
<1> DEFINE u == Gain(s, f, n)
           t == f[1]
<1>1. t \in Transfers
  BY DEF Folders
<1>2. Typed(u) /\ u.crossed = s.crossed
  BY Gains
<1>3. ASSUME Through(s, f), Unwalked(s, f)
      PROVE  Busy(u, t) /\ Unasked(u, t) /\ Gathered(u, t, 1 - 0)
  <2>1. /\ Busy(s, t) /\ Unasked(s, t) /\ Gathered(s, t, 1)
        /\ \A c \in CallsOf(s, t) : c[1] # "ignore" => c[2] # f
    BY <1>3 DEF Through
  <2> QED
    BY <1>3, <2>1, Gains
<1> HIDE DEF u, t
<1>4. Leads(u, Busy(u, t) /\ Unasked(u, t) /\ Gathered(u, t, 1 - 0), Counted(u, t, 0))
  BY <1>1, <1>2, CountedLeads
<1>5. Leads(s, Through(s, f) /\ Unwalked(s, f), Counted(u, t, 0))
  BY <1>2, <1>3, <1>4, Onward
<1> QED
  BY <1>5 DEF u, t

\* The folder is looked at again.
LEMMA CountsCall ==
  ASSUME NEW s, Typed(s), NEW f \in Folders, NEW kind \in WalkKinds \ {"ignore"}
  PROVE  Leads(s, Through(s, f) /\ Unwalked(s, f), Counted(Make(s, kind, {f}), f[1], 1))
<1> DEFINE u == Make(s, kind, {f})
           t == f[1]
<1>1. t \in Transfers /\ kind \in WalkKinds
  BY DEF Folders
<1>2. Typed(u) /\ u.crossed = s.crossed
  BY <1>1, WalksOn
<1>3. ASSUME Through(s, f), Unwalked(s, f)
      PROVE  Busy(u, t) /\ Unasked(u, t) /\ Gathered(u, t, 1 - 1)
  BY <1>1, <1>3, WalksOn
<1> HIDE DEF u, t
<1>4. Leads(u, Busy(u, t) /\ Unasked(u, t) /\ Gathered(u, t, 1 - 1), Counted(u, t, 1))
  BY <1>1, <1>2, CountedLeads
<1>5. Leads(s, Through(s, f) /\ Unwalked(s, f), Counted(u, t, 1))
  BY <1>2, <1>3, <1>4, Onward
<1> QED
  BY <1>5 DEF u, t

\* The folder is counted with its files, and its .gitignore is read.
LEMMA CountsIgnore ==
  ASSUME NEW s, Typed(s), NEW f \in Folders, NEW n \in 0 .. MaxFiles
  PROVE  Leads(s, Through(s, f) /\ Unwalked(s, f),
               Counted(Gain(Make(s, "ignore", {f}), f, n), f[1], 1))
<1> DEFINE v == Make(s, "ignore", {f})
           u == Gain(v, f, n)
           t == f[1]
<1>1. t \in Transfers /\ "ignore" \in WalkKinds
  BY DEF Folders, WalkKinds, FolderKinds
<1>2. Typed(v) /\ v.crossed = s.crossed /\ v.down = s.down
  BY <1>1, WalksOn
<1>3. ASSUME Through(s, f), Unwalked(s, f)
      PROVE  /\ Busy(v, t) /\ Unasked(v, t) /\ Gathered(v, t, 0) /\ Unwalked(v, f)
             /\ \A c \in CallsOf(v, t) : c[1] # "ignore" => c[2] # f
  <2>1. /\ Busy(v, t) /\ Unasked(v, t) /\ Gathered(v, t, 0)
        /\ CallsOf(v, t) = CallsOf(s, t) \union {<<"ignore", f>>}
    BY <1>1, <1>3, WalksOn
  <2>2. Unwalked(v, f)
    BY <1>2, <1>3 DEF Unwalked
  <2> HIDE DEF v
  <2>3. \A c \in CallsOf(v, t) : c[1] # "ignore" => c[2] # f
    BY <1>3, <2>1 DEF Through
  <2> QED
    BY <2>1, <2>2, <2>3
<1> HIDE DEF v
<1>4. Typed(u) /\ u.crossed = v.crossed
  BY <1>2, Gains
<1>5. ASSUME Through(s, f), Unwalked(s, f)
      PROVE  Busy(u, t) /\ Unasked(u, t) /\ Gathered(u, t, 1 - 1)
  <2>1. Gathered(v, t, 1 - 1)
    BY <1>3, <1>5
  <2> QED
    BY <1>2, <1>3, <1>5, <2>1, Gains
<1> HIDE DEF u, t
<1>6. Leads(u, Busy(u, t) /\ Unasked(u, t) /\ Gathered(u, t, 1 - 1), Counted(u, t, 1))
  BY <1>1, <1>4, CountedLeads
<1>7. Leads(s, Through(s, f) /\ Unwalked(s, f), Counted(u, t, 1))
  BY <1>2, <1>4, <1>5, <1>6, Onward
<1> QED
  BY <1>7 DEF u, v, t

LEMMA CountedAway ==
  ASSUME Good(m), NEW kind \in WalkKinds, NEW f \in Waiting(kind), Taken(kind, f).cancelled,
         m' \in OneLess(Taken(kind, f), f)
  PROVE  Good(m')
<1> DEFINE s == Taken(kind, f)
           left == [s.left EXCEPT ![f[1]] = @ - 1]
<1>1. Typed(m)
  BY DEF Good
<1>2. Typed(s)
  BY <1>1, TakenCall
<1>3. m' = [s EXCEPT !.left = left]
  BY DEF OneLess
<1>4. f[1] \in Transfers
  BY <1>1, WaitingTypes
<1>5. s.cancelled
  OBVIOUS
<1> HIDE DEF s
<1>6. left \in [Transfers -> Int]
  BY <1>2, <1>4, FieldTypes
<1> HIDE DEF left
<1>7. Changed(m', s, {"left"}) /\ m'.left = left
  BY <1>2, <1>3, Names DEF Typed, Record, Changed
<1>8. Typed(m')
  <2>1. m'.left \in Types["left"]
    BY <1>6, <1>7, TypeOf
  <2> QED
    BY <1>2, <1>7, <2>1, TypedBut
<1> QED
  BY <1>5, <1>7, <1>8, Dropped DEF s

\* A callback of the walk acts.
LEMMA WalkActs ==
  ASSUME Good(m), NEW kind \in WalkKinds, NEW f \in Waiting(kind), ~Taken(kind, f).cancelled
  PROVE  LET s == Acts(Taken(kind, f), f[1]) IN
         /\ Typed(s) /\ f \in Folders
         /\ ~s.crossed => Through(s, f) /\ (kind # "ignore" => Unwalked(s, f))
<1> DEFINE s == Acts(Taken(kind, f), f[1])
<1>1. /\ Typed(s) /\ Changed(s, m, {"calls", "crossed"})
      /\ ~s.crossed => Answering(s, kind, f)
  BY Answered
<1>2. f \in Folders
  BY WaitingTypes DEF Good, WalkKinds
<1> HIDE DEF s
<1>3. ~s.crossed => Through(s, f) /\ (kind # "ignore" => Unwalked(s, f))
  BY <1>1, WalkAnswered
<1> QED
  BY <1>1, <1>2, <1>3 DEF s

LEMMA ParentListedGood ==
  ASSUME Good(m), ParentListed
  PROVE  Good(m')
<1>1. PICK f \in Waiting("parent") :
        m' \in IF Taken("parent", f).cancelled THEN OneLess(Taken("parent", f), f)
               ELSE AfterParent(Acts(Taken("parent", f), f[1]), f)
  BY DEF ParentListed, Callback
<1>2. "parent" \in WalkKinds /\ "find" \in WalkKinds \ {"ignore"}
      /\ "listing" \in WalkKinds \ {"ignore"}
  BY DEF WalkKinds, FolderKinds
<1>3. CASE Taken("parent", f).cancelled
  BY <1>1, <1>2, <1>3, CountedAway
<1>4. CASE ~Taken("parent", f).cancelled
  <2> DEFINE s == Acts(Taken("parent", f), f[1])
             again == IF s.what[f[1]] = "filtered" THEN "listing" ELSE "find"
  <2>1. /\ Typed(s) /\ f \in Folders
        /\ ~s.crossed => Through(s, f) /\ Unwalked(s, f)
    BY <1>2, <1>4, WalkActs
  <2>2. m' \in AfterParent(s, f)
    BY <1>1, <1>4
  <2> HIDE DEF s
  <2>3. Leads(s, ~s.crossed, Counted(s, f[1], 0))
    BY <2>1, CountsNone, Onward
  <2>4. Leads(s, ~s.crossed, Counted(Gain(s, f, 1), f[1], 0))
    <3>1. 1 \in 0 .. MaxFiles
      BY BoundsAreReal
    <3> QED
      BY <2>1, <3>1, CountsFiles, Onward
  <2>5. Leads(s, ~s.crossed, Counted(Make(s, again, {f}), f[1], 1))
    <3>1. again \in WalkKinds \ {"ignore"}
      BY <1>2
    <3> HIDE DEF again
    <3> QED
      BY <2>1, <3>1, CountsCall, Onward
  <2>6. m' \in Counted(s, f[1], 0) \union Counted(Gain(s, f, 1), f[1], 0)
               \union Counted(Make(s, again, {f}), f[1], 1)
    BY <2>2 DEF AfterParent
  <2> QED
    BY <2>3, <2>4, <2>5, <2>6, Outcome
<1> QED
  BY <1>3, <1>4

LEMMA FindDoneGood ==
  ASSUME Good(m), FindDone
  PROVE  Good(m')
<1>1. PICK f \in Waiting("find") :
        m' \in IF Taken("find", f).cancelled THEN OneLess(Taken("find", f), f)
               ELSE AfterFind(Acts(Taken("find", f), f[1]), f)
  BY DEF FindDone, Callback
<1>2. "find" \in WalkKinds /\ "listing" \in WalkKinds
  BY DEF WalkKinds, FolderKinds
<1>3. CASE Taken("find", f).cancelled
  BY <1>1, <1>2, <1>3, CountedAway
<1>4. CASE ~Taken("find", f).cancelled
  <2> DEFINE s == Acts(Taken("find", f), f[1])
             u == Make(s, "listing", {f})
             t == f[1]
  <2>1. /\ Typed(s) /\ f \in Folders
        /\ ~s.crossed => Through(s, f) /\ Unwalked(s, f)
    BY <1>2, <1>4, WalkActs
  <2>2. m' \in AfterFind(s, f)
    BY <1>1, <1>4
  <2> HIDE DEF s
  <2>3. ASSUME NEW n \in 0 .. MaxFiles PROVE Leads(s, ~s.crossed, Counted(Gain(s, f, n), f[1], 0))
    BY <2>1, CountsFiles, Onward
  <2>4. Typed(u) /\ u.crossed = s.crossed /\ (~s.crossed => Sane(u))
    <3>1. /\ Typed(u) /\ u.crossed = s.crossed
          /\ (Through(s, f) /\ Unwalked(s, f)) =>
               /\ Busy(u, t) /\ Unasked(u, t) /\ Gathered(u, t, 0)
               /\ CallsOf(u, t) = CallsOf(s, t) \union {<<"listing", f>>}
      BY <1>2, <2>1, WalksOn
    <3>2. ASSUME ~s.crossed PROVE Sane(u)
      <4>1. /\ Busy(u, t) /\ Unasked(u, t) /\ Gathered(u, t, 0)
            /\ CallsOf(u, t) = CallsOf(s, t) \union {<<"listing", f>>}
        BY <2>1, <3>1, <3>2
      <4> HIDE DEF u
      <4>2. CallsOf(u, t) # {} /\ \A c \in CallsOf(u, t) : u.calls[c] = 1
        BY <4>1 DEF Gathered
      <4> QED
        BY <4>1, <4>2, Runs DEF Running, Walking
    <3> QED
      BY <3>1, <3>2
  <2>5. m' = u \/ \E n \in 0 .. MaxFiles : m' \in Counted(Gain(s, f, n), f[1], 0)
    BY <2>2 DEF AfterFind
  <2> HIDE DEF u
  <2>6. CASE m' = u
    BY <2>4, <2>6 DEF Good
  <2>7. CASE \E n \in 0 .. MaxFiles : m' \in Counted(Gain(s, f, n), f[1], 0)
    BY <2>3, <2>7, Outcome
  <2> QED
    BY <2>5, <2>6, <2>7
<1> QED
  BY <1>3, <1>4

LEMMA FolderListedGood ==
  ASSUME Good(m), FolderListed
  PROVE  Good(m')
<1>1. PICK f \in Waiting("listing") :
        m' \in IF Taken("listing", f).cancelled THEN OneLess(Taken("listing", f), f)
               ELSE AfterListing(Acts(Taken("listing", f), f[1]), f)
  BY DEF FolderListed, Callback
<1>2. "listing" \in WalkKinds
  BY DEF WalkKinds, FolderKinds
<1>3. CASE Taken("listing", f).cancelled
  BY <1>1, <1>2, <1>3, CountedAway
<1>4. CASE ~Taken("listing", f).cancelled
  <2> DEFINE s == Acts(Taken("listing", f), f[1])
  <2>1. /\ Typed(s) /\ f \in Folders
        /\ ~s.crossed => Through(s, f) /\ Unwalked(s, f)
    BY <1>2, <1>4, WalkActs
  <2>2. m' \in AfterListing(s, f)
    BY <1>1, <1>4
  <2> HIDE DEF s
  <2>3. Leads(s, ~s.crossed, Counted(s, f[1], 0))
    BY <2>1, CountsNone, Onward
  <2>4. ASSUME NEW n \in 0 .. MaxFiles PROVE Leads(s, ~s.crossed, Counted(Gain(s, f, n), f[1], 0))
    BY <2>1, CountsFiles, Onward
  <2>5. ASSUME NEW n \in 0 .. MaxFiles
        PROVE  Leads(s, ~s.crossed, Counted(Gain(Make(s, "ignore", {f}), f, n), f[1], 1))
    BY <2>1, CountsIgnore, Onward
  <2>6. \/ m' \in Counted(s, f[1], 0)
        \/ \E n \in 0 .. MaxFiles : m' \in Counted(Gain(s, f, n), f[1], 0)
        \/ \E n \in 0 .. MaxFiles : m' \in Counted(Gain(Make(s, "ignore", {f}), f, n), f[1], 1)
    <3> DEFINE G == UNION {Counted(Gain(s, f, n), f[1], 0) : n \in 0 .. MaxFiles}
               B == UNION {Counted(Gain(Make(s, "ignore", {f}), f, n), f[1], 1) : n \in 0 .. MaxFiles}
    <3>1. AfterListing(s, f) =
            Counted(s, f[1], 0) \union G \union (IF s.what[f[1]] = "filtered" THEN B ELSE {})
      BY DEF AfterListing
    <3>2. \A u \in G : \E n \in 0 .. MaxFiles : u \in Counted(Gain(s, f, n), f[1], 0)
      OBVIOUS
    <3>3. \A u \in B :
            \E n \in 0 .. MaxFiles : u \in Counted(Gain(Make(s, "ignore", {f}), f, n), f[1], 1)
      OBVIOUS
    <3> HIDE DEF G, B
    <3>4. m' \in Counted(s, f[1], 0) \/ m' \in G \/ m' \in B
      BY <2>2, <3>1
    <3> QED
      BY <3>2, <3>3, <3>4
  <2> QED
    BY <2>3, <2>4, <2>5, <2>6, Outcome
<1> QED
  BY <1>3, <1>4

LEMMA IgnoreReadGood ==
  ASSUME Good(m), IgnoreRead
  PROVE  Good(m')
<1>1. PICK f \in Waiting("ignore") :
        m' \in IF Taken("ignore", f).cancelled THEN OneLess(Taken("ignore", f), f)
               ELSE AfterIgnore(Acts(Taken("ignore", f), f[1]), f)
  BY DEF IgnoreRead, Callback
<1>2. "ignore" \in WalkKinds
  BY DEF WalkKinds, FolderKinds
<1>3. CASE Taken("ignore", f).cancelled
  BY <1>1, <1>2, <1>3, CountedAway
<1>4. CASE ~Taken("ignore", f).cancelled
  <2> DEFINE s == Acts(Taken("ignore", f), f[1])
  <2>1. Typed(s) /\ f \in Folders /\ (~s.crossed => Through(s, f))
    BY <1>2, <1>4, WalkActs
  <2>2. m' \in Counted(s, f[1], 0)
    BY <1>1, <1>4 DEF AfterIgnore
  <2> HIDE DEF s
  <2>3. Leads(s, ~s.crossed, Counted(s, f[1], 0))
    BY <2>1, CountsNone, Onward
  <2> QED
    BY <2>2, <2>3, Outcome
<1> QED
  BY <1>3, <1>4

-----------------------------------------------------------------------------
(* The archive, and the files one by one.                                  *)

\* The only call of the archive is answered: file by file would do as well.
LEMMA ArchiveActs ==
  ASSUME Good(m), NEW kind \in ArchiveKinds, NEW x \in Waiting(kind), ~Taken(kind, x).cancelled
  PROVE  LET s == Acts(Taken(kind, x), x[1]) IN
         /\ Typed(s) /\ x[1] \in Transfers /\ x = <<x[1]>>
         /\ ~s.crossed => Ready(s, x[1]) /\ s.idx = 1 /\ s.down # <<>>
<1> DEFINE s == Acts(Taken(kind, x), x[1])
           t == x[1]
           c == <<kind, x>>
<1>1. /\ Typed(s) /\ Changed(s, m, {"calls", "crossed"})
      /\ ~s.crossed => Answering(s, kind, x)
  BY Answered
<1>2. t \in Transfers /\ x = <<t>>
  BY WaitingTypes DEF Good
<1> HIDE DEF s
<1>3. /\ s.down = m.down /\ s.idx = m.idx /\ s.skip = m.skip /\ s.told = m.told
      /\ s.dialogs = m.dialogs
  BY <1>1, Names DEF Changed
<1>4. ASSUME ~s.crossed PROVE Ready(s, t) /\ s.idx = 1 /\ s.down # <<>>
  <2>1. /\ Busy(s, t) /\ Running(m, t)
        /\ c \in CallsOf(m, t) /\ CallsOf(s, t) = CallsOf(m, t) \ {c}
    BY <1>1, <1>4 DEF Answering
  <2>2. c[1] = kind /\ kind \notin FolderKinds /\ kind # "scan" /\ kind # "read"
        /\ kind # "mkdir" /\ kind # "write"
    BY DEF FolderKinds, ArchiveKinds
  <2> HIDE DEF c, t
  <2>3. Archiving(m, t) /\ Unasked(m, t)
    <3>1. ~Scanning(m, t) /\ ~Asking(m, t) /\ ~Reading(m, t)
      BY <2>1, <2>2 DEF Scanning, Asking, Reading
    <3>2. ~Walking(m, t) /\ ~Writing(m, t)
      BY <2>1, <2>2 DEF Walking, Gathered, Writing
    <3> QED
      BY <2>1, <3>1, <3>2 DEF Running
  <2>4. CallsOf(s, t) = {}
    BY <2>1, <2>3 DEF Archiving
  <2>5. Unasked(s, t)
    BY <1>3, <2>3 DEF Unasked
  <2>6. Downloading(s, t) /\ s.idx = 1 /\ s.down # <<>>
    <3>1. Len(s.down) \in Nat
      BY <1>1, FieldTypes, LenProperties
    <3> QED
      BY <1>3, <2>3, <2>4, <3>1 DEF Archiving, Downloading, Verdicts
  <2> QED
    BY <2>1, <2>5, <2>6 DEF Ready
<1> QED
  BY <1>1, <1>2, <1>4 DEF s, t

\* What the state of a download does not look at.
LEMMA StillReady ==
  ASSUME NEW s, Typed(s), NEW u, NEW F, Changed(u, s, F), F \subseteq {"reading", "tar"}, NEW t,
         Ready(s, t)
  PROVE  Ready(u, t)
<1>1. /\ u.down = s.down /\ u.idx = s.idx /\ u.skip = s.skip /\ u.told = s.told
      /\ u.dialogs = s.dialogs /\ u.calls = s.calls
  BY Names DEF Changed
<1>2. Busy(u, t) /\ CallsOf(u, t) = CallsOf(s, t)
  BY <1>1, SameCalls, ChangedAside, StillBusy DEF Ready
<1>3. Unasked(u, t)
  BY <1>1 DEF Ready, Unasked
<1>4. Downloading(u, t)
  BY <1>1, <1>2 DEF Ready, Downloading, Verdicts
<1> QED
  BY <1>2, <1>3, <1>4 DEF Ready

LEMMA TarProbedGood ==
  ASSUME Good(m), TarProbed
  PROVE  Good(m')
<1>1. PICK x \in Waiting("probe") :
        m' \in IF Taken("probe", x).cancelled THEN KeepProbe(Taken("probe", x), x)
               ELSE AfterProbe(Acts(Taken("probe", x), x[1]), x)
  BY DEF TarProbed, Callback
<1>2. ASSUME NEW s, Typed(s), NEW p \in Probed(s)
      PROVE  Typed(p) /\ Changed(p, s, {"tar"})
  <2>1. PICK tar \in {"yes", "no"} : p = [s EXCEPT !.tar = tar]
    BY <1>2 DEF Probed
  <2>2. Changed(p, s, {"tar"}) /\ p.tar = tar
    BY <1>2, <2>1, Names DEF Typed, Record, Changed
  <2>3. p.tar \in Types["tar"]
    BY <2>2, TypeOf
  <2> QED
    BY <1>2, <2>2, <2>3, TypedBut
<1>3. CASE Taken("probe", x).cancelled
  <2> DEFINE s == Taken("probe", x)
  <2>1. Typed(s) /\ m' \in Probed(s) /\ s.cancelled
    BY <1>1, <1>3, TakenCall DEF Good, KeepProbe
  <2> HIDE DEF s
  <2>2. Typed(m') /\ Changed(m', s, {"tar"})
    BY <1>2, <2>1
  <2> QED
    BY <2>1, <2>2, Dropped DEF s
<1>4. CASE ~Taken("probe", x).cancelled
  <2> DEFINE s == Acts(Taken("probe", x), x[1])
             t == x[1]
  <2>1. /\ Typed(s) /\ t \in Transfers
        /\ ~s.crossed => Ready(s, t) /\ s.idx = 1 /\ s.down # <<>>
    <3>1. "probe" \in ArchiveKinds
      BY DEF ArchiveKinds
    <3> QED
      BY <1>4, <3>1, ArchiveActs
  <2>2. PICK p \in Probed(s) : m' \in DownloadViaArchive(p, t)
    BY <1>1, <1>4 DEF AfterProbe
  <2> HIDE DEF s, t
  <2>3. Typed(p) /\ Changed(p, s, {"tar"})
    BY <1>2, <2>1, <2>2
  <2>4. p.crossed = s.crossed /\ p.idx = s.idx /\ p.down = s.down
    BY <2>3, Names DEF Changed
  <2>5. ~s.crossed => Ready(p, t) /\ p.idx = 1 /\ p.down # <<>>
    BY <2>1, <2>3, <2>4, StillReady
  <2>6. Leads(p, Ready(p, t) /\ p.idx = 1 /\ p.down # <<>>, DownloadViaArchive(p, t))
    BY <2>1, <2>3, ArchiveLeads
  <2>7. Leads(s, ~s.crossed, DownloadViaArchive(p, t))
    BY <2>4, <2>5, <2>6, Onward
  <2> QED
    BY <2>2, <2>7, Outcome
<1> QED
  BY <1>3, <1>4

LEMMA ArchiveCreatedGood ==
  ASSUME Good(m), ArchiveCreated
  PROVE  Good(m')
<1>1. PICK x \in Waiting("tar") :
        m' \in IF Taken("tar", x).cancelled THEN Nothing(Taken("tar", x), x)
               ELSE AfterArchive(Acts(Taken("tar", x), x[1]), x)
  BY DEF ArchiveCreated, Callback
<1>2. CASE Taken("tar", x).cancelled
  <2> DEFINE s == Taken("tar", x)
  <2>1. Typed(s) /\ m' = s /\ s.cancelled
    BY <1>1, <1>2, TakenCall DEF Good, Nothing
  <2> HIDE DEF s
  <2>2. Changed(m', s, {})
    BY <2>1 DEF Changed, Typed
  <2> QED
    BY <2>1, <2>2, Dropped DEF s
<1>3. CASE ~Taken("tar", x).cancelled
  <2> DEFINE s == Acts(Taken("tar", x), x[1])
             t == x[1]
             v == [s EXCEPT !.reading = <<"stream", x>>]
             u == Shown(Make(v, "stream", {x}))
  <2>1. /\ Typed(s) /\ t \in Transfers /\ x = <<t>>
        /\ ~s.crossed => Ready(s, t) /\ s.idx = 1 /\ s.down # <<>>
    <3>1. "tar" \in ArchiveKinds
      BY DEF ArchiveKinds
    <3> QED
      BY <1>3, <3>1, ArchiveActs
  <2>2. m' \in AfterArchive(s, x)
    BY <1>1, <1>3
  <2> HIDE DEF s, t
  <2>3. Leads(s, ~s.crossed, NextFile(s))
    BY <2>1, NextFileLeads, Onward
  <2>4. Leads(s, ~s.crossed, GiveUp(s))
    <3>1. Leads(s, Busy(s, t), GiveUp(s))
      BY <2>1, GivesUp
    <3> QED
      BY <2>1, <3>1, Onward DEF Ready
  <2>5. <<"stream", x>> \in Calls
    <3>1. "stream" \in ArchiveKinds /\ x = <<t>> /\ t \in Transfers
      BY <2>1 DEF ArchiveKinds
    <3> QED
      BY <3>1, CallTypes
  <2>6. Changed(v, s, {"reading"}) /\ v.reading = <<"stream", x>>
    BY <2>1, Names DEF Typed, Record, Changed
  <2> HIDE DEF v
  <2>7. Typed(v)
    <3>1. v.reading \in Types["reading"]
      BY <2>5, <2>6, TypeOf
    <3> QED
      BY <2>1, <2>6, <3>1, TypedBut
  <2>8. v.crossed = s.crossed /\ v.idx = s.idx /\ v.down = s.down
    BY <2>6, Names DEF Changed
  <2>9. ~s.crossed => Ready(v, t) /\ v.idx = 1 /\ v.down # <<>>
    BY <2>1, <2>6, <2>8, StillReady
  <2>10. /\ Typed(u) /\ (v.crossed => u.crossed)
         /\ (Ready(v, t) /\ v.idx = 1 /\ v.down # <<>>) => Sane(u)
    <3>1. "stream" \in ArchiveKinds
      BY DEF ArchiveKinds
    <3>2. u = Shown(Make(v, "stream", {<<t>>}))
      BY <2>1
    <3> HIDE DEF u
    <3> QED
      BY <2>1, <2>7, <3>1, <3>2, ArchiveCall
  <2>11. m' \in NextFile(s) \/ m' \in GiveUp(s) \/ m' = u
    BY <2>2 DEF AfterArchive, v
  <2> HIDE DEF u
  <2>12. CASE m' = u
    BY <2>8, <2>9, <2>10, <2>12 DEF Good
  <2> QED
    BY <2>3, <2>4, <2>11, <2>12, Outcome
<1> QED
  BY <1>2, <1>3

\* The read that m_currentReadReqId names is over.
LEMMA ReadEnds ==
  ASSUME NEW s, Typed(s)
  PROVE  LET u == [s EXCEPT !.reading = NoRead] IN Typed(u) /\ Changed(u, s, {"reading"})
<1> DEFINE u == [s EXCEPT !.reading = NoRead]
<1>1. Changed(u, s, {"reading"}) /\ u.reading = NoRead
  BY Names DEF Typed, Record, Changed
<1> HIDE DEF u
<1>2. u.reading \in Types["reading"]
  BY <1>1, TypeOf
<1>3. Typed(u)
  BY <1>1, <1>2, TypedBut
<1> QED
  BY <1>1, <1>3 DEF u

LEMMA ReadDropped ==
  ASSUME Good(m), NEW kind, NEW x \in Waiting(kind), Taken(kind, x).cancelled,
         m' \in ReadOver(Taken(kind, x), x)
  PROVE  Good(m')
<1> DEFINE s == Taken(kind, x)
<1>1. Typed(s) /\ m' = [s EXCEPT !.reading = NoRead] /\ s.cancelled
  BY TakenCall DEF Good, ReadOver
<1> HIDE DEF s
<1>2. Typed(m') /\ Changed(m', s, {"reading"})
  BY <1>1, ReadEnds
<1> QED
  BY <1>1, <1>2, Dropped DEF s

LEMMA ArchiveStreamedGood ==
  ASSUME Good(m), ArchiveStreamed
  PROVE  Good(m')
<1>1. PICK x \in Waiting("stream") :
        m' \in IF Taken("stream", x).cancelled THEN ReadOver(Taken("stream", x), x)
               ELSE AfterStream(Acts(Taken("stream", x), x[1]), x)
  BY DEF ArchiveStreamed, Callback
<1>2. CASE Taken("stream", x).cancelled
  BY <1>1, <1>2, ReadDropped
<1>3. CASE ~Taken("stream", x).cancelled
  <2> DEFINE s == Acts(Taken("stream", x), x[1])
             t == x[1]
             v == [s EXCEPT !.reading = NoRead]
             u == Shown(Make(v, "extract", {x}))
             w == [v EXCEPT !.wrecked = TRUE]
  <2>1. /\ Typed(s) /\ t \in Transfers /\ x = <<t>>
        /\ ~s.crossed => Ready(s, t) /\ s.idx = 1 /\ s.down # <<>>
    <3>1. "stream" \in ArchiveKinds
      BY DEF ArchiveKinds
    <3> QED
      BY <1>3, <3>1, ArchiveActs
  <2>2. m' \in AfterStream(s, x)
    BY <1>1, <1>3
  <2> HIDE DEF s, t
  <2>3. Typed(v) /\ Changed(v, s, {"reading"})
    BY <2>1, ReadEnds
  <2>4. m' \in GiveUp(v) \/ (m' = w /\ s.down = <<>>) \/ m' = u
    BY <2>2 DEF AfterStream
  <2> HIDE DEF v
  <2>5. v.crossed = s.crossed /\ v.idx = s.idx /\ v.down = s.down
    BY <2>3, Names DEF Changed
  <2>6. ~s.crossed => Ready(v, t) /\ v.idx = 1 /\ v.down # <<>>
    BY <2>1, <2>3, <2>5, StillReady
  <2>7. Leads(s, ~s.crossed, GiveUp(v))
    <3>1. Leads(v, Busy(v, t), GiveUp(v))
      BY <2>3, GivesUp
    <3> QED
      BY <2>5, <2>6, <3>1, Onward DEF Ready
  <2>8. /\ Typed(u) /\ (v.crossed => u.crossed)
        /\ (Ready(v, t) /\ v.idx = 1 /\ v.down # <<>>) => Sane(u)
    <3>1. "extract" \in ArchiveKinds
      BY DEF ArchiveKinds
    <3>2. u = Shown(Make(v, "extract", {<<t>>}))
      BY <2>1
    <3> HIDE DEF u
    <3> QED
      BY <2>1, <2>3, <3>1, <3>2, ArchiveCall
  <2>9. Typed(w) /\ w.crossed = v.crossed
    <3>1. Changed(w, v, {"wrecked"}) /\ w.wrecked = TRUE
      BY <2>3, Names DEF Typed, Record, Changed
    <3> HIDE DEF w
    <3>2. w.wrecked \in Types["wrecked"]
      BY <3>1, TypeOf
    <3>3. w.crossed = v.crossed
      BY <3>1, Names DEF Changed
    <3>4. Typed(w)
      BY <2>3, <3>1, <3>2, TypedBut
    <3> QED
      BY <3>3, <3>4
  <2> HIDE DEF u, w
  <2>10. CASE m' = u
    BY <2>5, <2>6, <2>8, <2>10 DEF Good
  <2>11. CASE m' = w /\ s.down = <<>>
    <3>1. s.crossed
      BY <2>1, <2>11, FieldTypes
    <3> QED
      BY <2>5, <2>9, <2>11, <3>1 DEF Good
  <2> QED
    BY <2>4, <2>7, <2>10, <2>11, Outcome
<1> QED
  BY <1>2, <1>3

LEMMA ExtractLeads ==
  ASSUME NEW s, Typed(s), NEW x, NEW t
  PROVE  Leads(s, Ready(s, t) /\ s.idx = 1 /\ s.down # <<>>, AfterExtract(s, x))
<1> DEFINE told == [e \in Entries |-> IF e \in ToSet(s.down) THEN s.told[e] + 1 ELSE s.told[e]]
           v == [s EXCEPT !.idx = 1]
           w == [s EXCEPT !.told = told]
<1>1. /\ s.down \in Seq(Entries) /\ s.told \in [Entries -> Nat]
      /\ DOMAIN s.down = 1 .. Len(s.down) /\ \A i \in 1 .. Len(s.down) : s.down[i] \in Entries
  BY FieldTypes, LenProperties, ElementOfSeq
<1>2. AfterExtract(s, x) = NextFile(v) \union (IF s.down = <<>> THEN {} ELSE Finish(w, s.down))
  BY DEF AfterExtract
<1>3. /\ told \in [Entries -> Nat]
      /\ \A i \in 1 .. Len(s.down) : told[s.down[i]] = s.told[s.down[i]] + 1
  <2>1. ToSet(s.down) = {s.down[i] : i \in 1 .. Len(s.down)}
    BY <1>1 DEF ToSet
  <2>2. \A i \in 1 .. Len(s.down) : s.down[i] \in ToSet(s.down)
    BY <2>1
  <2> QED
    BY <1>1, <2>2
<1> HIDE DEF told
<1>4. Changed(v, s, {"idx"}) /\ v.idx = 1
  BY Names DEF Typed, Record, Changed
<1>5. Changed(w, s, {"told"}) /\ w.told = told
  BY Names DEF Typed, Record, Changed
<1> HIDE DEF v, w
<1>6. Typed(v) /\ v.crossed = s.crossed
  <2>1. v.idx \in Types["idx"]
    BY <1>4, TypeOf
  <2>2. v.crossed = s.crossed
    BY <1>4, Names DEF Changed
  <2> QED
    BY <1>4, <2>1, <2>2, TypedBut
<1>7. Typed(w)
  <2>1. w.told \in Types["told"]
    BY <1>3, <1>5, TypeOf
  <2> QED
    BY <1>5, <2>1, TypedBut
<1>8. w.crossed = s.crossed /\ w.skip = s.skip /\ w.calls = s.calls
  BY <1>5, Names DEF Changed
<1>9. Leads(s, Ready(s, t) /\ s.idx = 1 /\ s.down # <<>>, NextFile(v))
  <2>1. ASSUME Ready(s, t), s.idx = 1 PROVE Ready(v, t)
    <3>1. Changed(v, s, {})
      BY <1>4, <2>1 DEF Changed
    <3> QED
      BY <2>1, <3>1, StillReady
  <2>2. Leads(v, Ready(v, t), NextFile(v))
    BY <1>6, NextFileLeads
  <2> QED
    BY <1>6, <2>1, <2>2, Onward
<1>10. Leads(s, Ready(s, t) /\ s.idx = 1 /\ s.down # <<>>, Finish(w, s.down))
  <2>1. ASSUME Ready(s, t), s.idx = 1 PROVE Busy(w, t) /\ Whole(w, s.down)
    <3>1. Busy(w, t)
      BY <1>5, <1>8, <2>1, SameCalls, ChangedAside, StillBusy DEF Ready
    <3>2. \A i \in 1 .. Len(s.down) : s.told[s.down[i]] = 0 /\ s.down[i] \notin s.skip
      BY <2>1 DEF Ready, Downloading, Verdicts
    <3>3. \A i \in 1 .. Len(s.down) : w.told[s.down[i]] = 1 /\ s.down[i] \notin w.skip
      BY <1>3, <1>5, <1>8, <3>2
    <3> QED
      BY <3>1, <3>3 DEF Whole
  <2>2. Leads(w, Busy(w, t) /\ Whole(w, s.down), Finish(w, s.down))
    BY <1>1, <1>7, Finishes
  <2> QED
    BY <1>8, <2>1, <2>2, Onward
<1>11. Leads(s, Ready(s, t) /\ s.idx = 1 /\ s.down # <<>>,
             IF s.down = <<>> THEN {} ELSE Finish(w, s.down))
  <2>1. CASE s.down = <<>>
    BY <2>1 DEF Leads
  <2>2. CASE s.down # <<>>
    BY <1>10, <2>2
  <2> QED
    BY <2>1, <2>2
<1> QED
  BY <1>2, <1>9, <1>11, Either

LEMMA ExtractDoneGood ==
  ASSUME Good(m), ExtractDone
  PROVE  Good(m')
<1>1. PICK x \in Waiting("extract") :
        m' \in IF Taken("extract", x).cancelled THEN AfterExtract(Taken("extract", x), x)
               ELSE AfterExtract(Acts(Taken("extract", x), x[1]), x)
  BY DEF ExtractDone, Callback
<1>2. CASE Taken("extract", x).cancelled
  <2> DEFINE s == Taken("extract", x)
             v == [s EXCEPT !.idx = 1]
  <2>1. Typed(s) /\ Changed(s, m, {"calls"}) /\ m' \in AfterExtract(s, x) /\ s.cancelled
    BY <1>1, <1>2, TakenCall DEF Good
  <2> HIDE DEF s
  <2>2. s.crossed = m.crossed /\ s.down = m.down /\ m.cancelled
    BY <2>1, Names DEF Changed
  <2>3. CASE m.crossed
    <3>1. Leads(s, Ready(s, 0) /\ s.idx = 1 /\ s.down # <<>>, AfterExtract(s, x))
      BY <2>1, ExtractLeads
    <3> QED
      BY <2>1, <2>2, <2>3, <3>1 DEF Leads, Good
  <2>4. CASE ~m.crossed
    <3>1. s.down = <<>>
      BY <2>2, <2>4 DEF Good, Sane, Kept
    <3>2. Changed(v, s, {"idx"}) /\ v.idx = 1
      BY <2>1, Names DEF Typed, Record, Changed
    <3>3. m' \in NextFile(v)
      BY <2>1, <3>1 DEF AfterExtract
    <3> HIDE DEF v
    <3>4. v.cancelled
      BY <2>1, <3>2, Names DEF Changed
    <3>5. m' = v
      BY <3>3, <3>4 DEF NextFile
    <3>6. Typed(v)
      <4>1. v.idx \in Types["idx"]
        BY <3>2, TypeOf
      <4> QED
        BY <2>1, <3>2, <4>1, TypedBut
    <3> QED
      BY <2>1, <3>2, <3>5, <3>6, Dropped DEF s
  <2> QED
    BY <2>3, <2>4
<1>3. CASE ~Taken("extract", x).cancelled
  <2> DEFINE s == Acts(Taken("extract", x), x[1])
             t == x[1]
  <2>1. Typed(s) /\ (~s.crossed => Ready(s, t) /\ s.idx = 1 /\ s.down # <<>>)
    <3>1. "extract" \in ArchiveKinds
      BY DEF ArchiveKinds
    <3> QED
      BY <1>3, <3>1, ArchiveActs
  <2>2. m' \in AfterExtract(s, x)
    BY <1>1, <1>3
  <2> HIDE DEF s, t
  <2>3. Leads(s, Ready(s, t) /\ s.idx = 1 /\ s.down # <<>>, AfterExtract(s, x))
    BY <2>1, ExtractLeads
  <2> QED
    BY <2>1, <2>2, <2>3, Onward, Outcome
<1> QED
  BY <1>2, <1>3

LEMMA FileDownloadedGood ==
  ASSUME Good(m), FileDownloaded
  PROVE  Good(m')
<1>1. PICK e \in Waiting("read") :
        m' \in IF Taken("read", e).cancelled THEN ReadOver(Taken("read", e), e)
               ELSE AfterRead(Acts(Taken("read", e), e[1]), e)
  BY DEF FileDownloaded, Callback
<1>2. CASE Taken("read", e).cancelled
  BY <1>1, <1>2, ReadDropped
<1>3. CASE ~Taken("read", e).cancelled
  <2> DEFINE s == Acts(Taken("read", e), e[1])
             t == e[1]
             c == <<"read", e>>
             a == Tell(s, e)
             v == [a EXCEPT !.reading = NoRead, !.idx = s.idx + 1]
  <2>1. /\ Typed(s) /\ Changed(s, m, {"calls", "crossed"})
        /\ ~s.crossed => Answering(s, "read", e)
    BY <1>3, Answered
  <2>2. e \in Entries
    BY WaitingTypes DEF Good, EntryKinds
  <2>3. m' \in AfterRead(s, e)
    BY <1>1, <1>3
  <2> HIDE DEF s
  <2>4. /\ Typed(a) /\ Changed(a, s, {"told"})
        /\ a.told[e] = s.told[e] + 1 /\ \A d \in Entries \ {e} : a.told[d] = s.told[d]
    BY <2>1, <2>2, ToldOne
  <2>5. m' \in NextFile(v)
    <3>1. a.idx = s.idx
      BY <2>4, Names DEF Changed
    <3> HIDE DEF a
    <3> QED
      BY <2>3, <3>1 DEF AfterRead, a
  <2> HIDE DEF a
  <2>6. Changed(v, a, {"reading", "idx"}) /\ v.reading = NoRead /\ v.idx = s.idx + 1
    BY <2>4, Names DEF Typed, Record, Changed
  <2> HIDE DEF v
  <2>7. s.idx \in Nat \ {0} /\ Len(s.down) \in Nat
        /\ \A i \in 1 .. Len(s.down) : s.down[i] \in Entries
    BY <2>1, FieldTypes, LenProperties, ElementOfSeq
  <2>8. Typed(v)
    <3>1. v.reading \in Types["reading"] /\ v.idx \in Types["idx"]
      BY <2>6, <2>7, TypeOf
    <3> QED
      BY <2>4, <2>6, <3>1, TypedBut
  <2>9. /\ v.down = s.down /\ v.skip = s.skip /\ v.dialogs = s.dialogs /\ v.calls = s.calls
        /\ v.crossed = s.crossed /\ v.told = a.told
    BY <2>4, <2>6, Names DEF Changed
  <2>10. /\ s.down = m.down /\ s.skip = m.skip /\ s.told = m.told /\ s.idx = m.idx
         /\ s.dialogs = m.dialogs
    BY <2>1, Names DEF Changed
  <2>11. ASSUME ~s.crossed PROVE Ready(v, t)
    <3>1. /\ Busy(s, t) /\ Running(m, t)
          /\ c \in CallsOf(m, t) /\ CallsOf(s, t) = CallsOf(m, t) \ {c}
      BY <2>1, <2>11 DEF Answering
    <3>2. /\ c[1] = "read" /\ c[2] = e /\ "read" \notin FolderKinds
          /\ "read" \notin ArchiveKinds
      BY DEF FolderKinds, ArchiveKinds
    <3> HIDE DEF c, t
    <3>3. Reading(m, t) /\ Unasked(m, t)
      <4>1. ~Scanning(m, t) /\ ~Asking(m, t) /\ ~Archiving(m, t)
        BY <3>1, <3>2 DEF Scanning, Asking, Archiving
      <4>2. ~Walking(m, t) /\ ~Writing(m, t)
        BY <3>1, <3>2 DEF Walking, Gathered, Writing
      <4> QED
        BY <3>1, <4>1, <4>2 DEF Running
    <3>4. /\ Manifest(m.down, t) /\ m.skip = {} /\ Verdicts(m, m.down, m.idx)
          /\ m.idx <= Len(m.down) /\ CallsOf(m, t) = {<<"read", m.down[m.idx]>>}
      BY <3>3 DEF Reading
    <3>5. m.down[m.idx] = e /\ CallsOf(s, t) = {}
      BY <3>1, <3>2, <3>4
    <3>6. Busy(v, t) /\ CallsOf(v, t) = {}
      <4>1. Changed(v, s, {"told", "reading", "idx"})
        BY <2>4, <2>6 DEF Changed
      <4> QED
        BY <2>1, <2>9, <3>1, <3>5, <4>1, SameCalls, ChangedAside, StillBusy
    <3>7. ASSUME NEW i \in 1 .. Len(s.down)
          PROVE  a.told[s.down[i]] = IF i < s.idx + 1 /\ s.down[i] \notin s.skip THEN 1 ELSE 0
      <4>1. s.told[s.down[i]] = IF i < s.idx THEN 1 ELSE 0
        BY <2>10, <3>4 DEF Verdicts
      <4>2. s.idx \in 1 .. Len(s.down) /\ s.down[s.idx] = e /\ s.skip = {}
        BY <2>7, <2>10, <3>4, <3>5
      <4>3. CASE i = s.idx
        BY <2>4, <2>7, <4>1, <4>2, <4>3
      <4>4. CASE i # s.idx
        <5>1. s.down[i] # e
          BY <2>10, <3>4, <4>2, <4>4 DEF Manifest
        <5>2. s.down[i] \in Entries \ {e}
          BY <2>7, <5>1
        <5> QED
          BY <2>4, <2>7, <4>1, <4>2, <4>4, <5>2
      <4> QED
        BY <4>3, <4>4
    <3>8. Verdicts(v, v.down, v.idx)
      BY <2>6, <2>9, <3>7 DEF Verdicts
    <3>9. Unasked(v, t)
      BY <2>9, <2>10, <3>3 DEF Unasked
    <3>10. Downloading(v, t)
      BY <2>6, <2>7, <2>9, <2>10, <3>4, <3>6, <3>8 DEF Downloading
    <3> QED
      BY <3>6, <3>9, <3>10 DEF Ready
  <2>12. Leads(v, Ready(v, t), NextFile(v))
    BY <2>8, NextFileLeads
  <2>13. Leads(s, ~s.crossed, NextFile(v))
    BY <2>9, <2>11, <2>12, Onward
  <2> QED
    BY <2>5, <2>13, Outcome
<1> QED
  BY <1>2, <1>3

-----------------------------------------------------------------------------
(* The conflict listings, and the files of an upload.                      *)

\* A call that changes nothing after a cancel.
LEMMA NothingDropped ==
  ASSUME Good(m), NEW kind, NEW x, Taken(kind, x).cancelled, m' \in Nothing(Taken(kind, x), x)
  PROVE  Good(m')
<1> DEFINE s == Taken(kind, x)
<1>1. Typed(s) /\ m' = s /\ s.cancelled
  BY TakenCall DEF Good, Nothing
<1> HIDE DEF s
<1>2. Changed(m', s, {})
  BY <1>1 DEF Changed, Typed
<1> QED
  BY <1>1, <1>2, Dropped DEF s

\* A listing is in, and its folder is known: the upload waits for others, or is decided.
LEMMA ScanAnswered ==
  ASSUME NEW f \in Folders, NEW s, Typed(s), Changed(s, m, {"calls", "crossed"}),
         Answering(s, "scan", f), Typed(m),
         NEW v, Typed(v), Changed(v, s, {"scans", "listed", "blind"}), v.scans = s.scans - 1,
         s.listed \union s.blind \subseteq v.listed \union v.blind,
         f[2] \in there => f \in v.listed \union v.blind
  PROVE  (s.scans = 1 => Listed(v, f[1])) /\ (s.scans # 1 => Sane(v))
<1> DEFINE t == f[1]
           c == <<"scan", f>>
           C == CallsOf(m, t)
           D == CallsOf(v, t)
<1>1. /\ Busy(s, t) /\ Running(m, t) /\ c \in C /\ CallsOf(s, t) = C \ {c}
      /\ \A d \in CallsOf(s, t) : s.calls[d] = m.calls[d]
  BY DEF Answering
<1>2. /\ c[1] = "scan" /\ c[2] = f /\ "scan" \in FolderKinds /\ "scan" \notin ArchiveKinds
  BY DEF FolderKinds, ArchiveKinds
<1> HIDE DEF c
<1>3. /\ s.up = m.up /\ s.uidx = m.uidx /\ s.skip = m.skip /\ s.told = m.told
      /\ s.answered = m.answered /\ s.dialogs = m.dialogs /\ s.listed = m.listed
      /\ s.blind = m.blind /\ s.scans = m.scans
  BY Names DEF Changed
<1>4. /\ v.up = s.up /\ v.uidx = s.uidx /\ v.skip = s.skip /\ v.told = s.told
      /\ v.answered = s.answered /\ v.dialogs = s.dialogs /\ v.calls = s.calls
  BY Names DEF Changed
<1>5. Scanning(m, t)
  <2>1. ~Archiving(m, t) /\ ~Asking(m, t) /\ ~Reading(m, t)
    BY <1>1, <1>2 DEF Archiving, Asking, Reading
  <2>2. ~Walking(m, t) /\ ~Writing(m, t)
    BY <1>1, <1>2 DEF Walking, Gathered, Writing
  <2> QED
    BY <1>1, <2>1, <2>2 DEF Running
<1>6. Busy(v, t) /\ D = C \ {c}
  BY <1>1, <1>4, SameCalls, ChangedAside, StillBusy
<1> HIDE DEF t
<1>7. /\ IsFiniteSet(C) /\ m.scans = Cardinality(C) /\ \A d \in C : d[1] = "scan"
  BY <1>5 DEF Scanning
<1>8. /\ IsFiniteSet(D) /\ Cardinality(D) = Cardinality(C) - 1
      /\ Cardinality(D) \in Nat /\ Cardinality(C) \in Nat
      /\ Cardinality(D) = 0 <=> D = {}
  <2> HIDE DEF C, D
  <2>1. IsFiniteSet(D) /\ Cardinality(D) = Cardinality(C) - 1
    BY <1>1, <1>6, <1>7, FS_RemoveElement
  <2> QED
    BY <1>7, <2>1, FS_CardinalityType, FS_EmptySet
<1>9. /\ Manifest(v.up, t) /\ v.uidx = 1 /\ v.skip = {} /\ Verdicts(v, v.up, 1)
      /\ ~v.answered /\ Unasked(v, t)
  BY <1>3, <1>4, <1>5 DEF Scanning, Verdicts, Unasked
<1>10. ASSUME NEW i \in 1 .. Len(v.up), v.up[i][2] \in there
       PROVE  FolderOf(v.up[i]) \in v.listed \union v.blind \union {d[2] : d \in D}
  <2>1. FolderOf(v.up[i]) \in s.listed \union s.blind \union {d[2] : d \in C}
    BY <1>3, <1>4, <1>5, <1>10 DEF Scanning
  <2>2. CASE FolderOf(v.up[i]) = f
    <3>1. f[2] \in there
      BY <1>10, <2>2 DEF FolderOf
    <3> QED
      BY <2>2, <3>1
  <2>3. CASE FolderOf(v.up[i]) # f
    BY <1>2, <1>6, <2>1, <2>3
  <2> QED
    BY <2>2, <2>3
<1>11. ASSUME s.scans = 1 PROVE Listed(v, t)
  <2>1. D = {}
    BY <1>3, <1>7, <1>8, <1>11
  <2>2. \A i \in 1 .. Len(v.up) : v.told[v.up[i]] = 0
    BY <1>9 DEF Verdicts
  <2> QED
    BY <1>6, <1>9, <1>10, <2>1, <2>2 DEF Listed
<1>12. ASSUME s.scans # 1 PROVE Sane(v)
  <2>1. D # {} /\ v.scans = Cardinality(D)
    BY <1>3, <1>7, <1>8, <1>12
  <2>2. \A d \in D : d[1] = "scan" /\ v.calls[d] = 1
    BY <1>1, <1>4, <1>6, <1>7 DEF Running
  <2>3. Scanning(v, t)
    BY <1>8, <1>9, <1>10, <2>1, <2>2 DEF Scanning
  <2> QED
    BY <1>6, <2>2, <2>3, Runs DEF Running
<1> QED
  BY <1>11, <1>12 DEF t

LEMMA ConflictsListedGood ==
  ASSUME Good(m), ConflictsListed
  PROVE  Good(m')
<1>1. PICK f \in Waiting("scan") :
        m' \in IF Taken("scan", f).cancelled THEN Nothing(Taken("scan", f), f)
               ELSE AfterScan(Acts(Taken("scan", f), f[1]), f)
  BY DEF ConflictsListed, Callback
<1>2. CASE Taken("scan", f).cancelled
  BY <1>1, <1>2, NothingDropped
<1>3. CASE ~Taken("scan", f).cancelled
  <2> DEFINE s == Acts(Taken("scan", f), f[1])
             t == f[1]
             n == s.scans - 1
             more == IF f[2] \in there THEN s.listed \union {f} ELSE s.listed
             none == s.blind \union {f}
             a == [s EXCEPT !.scans = n, !.listed = more]
             b == [s EXCEPT !.scans = n, !.blind = none]
  <2>1. /\ Typed(s) /\ Changed(s, m, {"calls", "crossed"})
        /\ ~s.crossed => Answering(s, "scan", f)
    BY <1>3, Answered
  <2>2. f \in Folders /\ Typed(m)
    BY WaitingTypes DEF Good, FolderKinds
  <2>3. m' \in IF s.scans = 1 THEN Resolve(a) \union Resolve(b) ELSE {a, b}
    BY <1>1, <1>3 DEF AfterScan
  <2> HIDE DEF s
  <2>4. /\ s.scans \in Int /\ s.listed \in SUBSET Folders /\ s.blind \in SUBSET Folders
    BY <2>1, FieldTypes
  <2>5. n \in Int /\ more \in SUBSET Folders /\ none \in SUBSET Folders
    BY <2>2, <2>4
  <2> HIDE DEF n
  <2>6. ASSUME NEW v, Typed(v), Changed(v, s, {"scans", "listed", "blind"}), v.scans = n,
               s.listed \union s.blind \subseteq v.listed \union v.blind,
               f[2] \in there => f \in v.listed \union v.blind,
               m' \in (IF s.scans = 1 THEN Resolve(v) ELSE {v})
        PROVE  Good(m')
    <3>1. v.crossed = s.crossed
      BY <2>6, Names DEF Changed
    <3>2. ~s.crossed => (s.scans = 1 => Listed(v, t)) /\ (s.scans # 1 => Sane(v))
      <4>1. v.scans = s.scans - 1
        BY <2>6 DEF n
      <4> QED
        BY <2>1, <2>2, <2>6, <4>1, ScanAnswered
    <3>3. CASE s.scans = 1
      <4>1. Leads(v, Listed(v, t), Resolve(v))
        BY <2>6, ResolveLeads
      <4>2. Leads(s, ~s.crossed, Resolve(v))
        BY <3>1, <3>2, <3>3, <4>1, Onward
      <4> QED
        BY <2>6, <3>3, <4>2, Outcome
    <3>4. CASE s.scans # 1
      BY <2>6, <3>1, <3>2, <3>4 DEF Good
    <3> QED
      BY <3>3, <3>4
  <2>7. ASSUME m' \in (IF s.scans = 1 THEN Resolve(a) ELSE {a}) PROVE Good(m')
    <3>1. f[2] \in there => f \in more
      OBVIOUS
    <3>2. s.listed \subseteq more
      OBVIOUS
    <3> HIDE DEF more
    <3>3. Changed(a, s, {"scans", "listed"}) /\ a.scans = n /\ a.listed = more
      BY <2>1, Names DEF Typed, Record, Changed
    <3> HIDE DEF a
    <3>4. Typed(a)
      <4>1. a.scans \in Types["scans"] /\ a.listed \in Types["listed"]
        BY <2>5, <3>3, TypeOf
      <4> QED
        BY <2>1, <3>3, <4>1, TypedBut
    <3>5. Changed(a, s, {"scans", "listed", "blind"}) /\ a.blind = s.blind
      BY <3>3, Names DEF Changed
    <3> QED
      BY <2>6, <2>7, <3>1, <3>2, <3>3, <3>4, <3>5
  <2>8. ASSUME m' \in (IF s.scans = 1 THEN Resolve(b) ELSE {b}) PROVE Good(m')
    <3>1. f \in none /\ s.blind \subseteq none
      OBVIOUS
    <3> HIDE DEF none
    <3>3. Changed(b, s, {"scans", "blind"}) /\ b.scans = n /\ b.blind = none
      BY <2>1, Names DEF Typed, Record, Changed
    <3> HIDE DEF b
    <3>4. Typed(b)
      <4>1. b.scans \in Types["scans"] /\ b.blind \in Types["blind"]
        BY <2>5, <3>3, TypeOf
      <4> QED
        BY <2>1, <3>3, <4>1, TypedBut
    <3>5. Changed(b, s, {"scans", "listed", "blind"}) /\ b.listed = s.listed
      BY <3>3, Names DEF Changed
    <3> QED
      BY <2>6, <2>8, <3>1, <3>3, <3>4, <3>5
  <2> HIDE DEF a, b
  <2> QED
    BY <2>3, <2>7, <2>8
<1> QED
  BY <1>2, <1>3

\* The call for the file that is due is answered.
LEMMA SendActs ==
  ASSUME Good(m), NEW kind \in {"mkdir", "write"}, NEW e \in Waiting(kind), ~Taken(kind, e).cancelled
  PROVE  LET s == Acts(Taken(kind, e), e[1]) IN
         /\ Typed(s) /\ e \in Entries
         /\ ~s.crossed => Busy(s, e[1]) /\ Uploading(s, e[1]) /\ Due(s, e)
<1> DEFINE s == Acts(Taken(kind, e), e[1])
           t == e[1]
           c == <<kind, e>>
<1>1. /\ Typed(s) /\ Changed(s, m, {"calls", "crossed"})
      /\ ~s.crossed => Answering(s, kind, e)
  BY Answered
<1>2. e \in Entries
  BY WaitingTypes DEF Good, EntryKinds
<1> HIDE DEF s
<1>3. /\ s.up = m.up /\ s.uidx = m.uidx /\ s.skip = m.skip /\ s.told = m.told
      /\ s.dialogs = m.dialogs /\ s.answered = m.answered /\ s.blind = m.blind
      /\ s.what = m.what
  BY <1>1, Names DEF Changed
<1>4. ASSUME ~s.crossed PROVE Busy(s, t) /\ Uploading(s, t) /\ Due(s, e)
  <2>1. /\ Busy(s, t) /\ Running(m, t)
        /\ c \in CallsOf(m, t) /\ CallsOf(s, t) = CallsOf(m, t) \ {c}
    BY <1>1, <1>4 DEF Answering
  <2>2. /\ c[1] = kind /\ c[2] = e /\ kind \notin FolderKinds /\ kind # "scan"
        /\ kind # "read" /\ kind \notin ArchiveKinds
    BY DEF FolderKinds, ArchiveKinds
  <2> HIDE DEF c, t
  <2>3. Writing(m, t)
    <3>1. ~Scanning(m, t) /\ ~Asking(m, t) /\ ~Reading(m, t)
      BY <2>1, <2>2 DEF Scanning, Asking, Reading
    <3>2. ~Walking(m, t) /\ ~Archiving(m, t)
      BY <2>1, <2>2 DEF Walking, Gathered, Archiving
    <3> QED
      BY <2>1, <3>1, <3>2 DEF Running
  <2>4. PICK k \in {"mkdir", "write"} : CallsOf(m, t) = {<<k, m.up[m.uidx]>>}
    BY <2>3 DEF Writing
  <2>5. m.up[m.uidx] = e /\ CallsOf(s, t) = {}
    BY <2>1, <2>2, <2>4
  <2>6. Heard(s, t) /\ (s.answered \/ Unasked(s, t)) /\ Verdicts(s, s.up, s.uidx)
    BY <1>3, <2>3 DEF Writing, Heard, Unasked, Verdicts
  <2>7. Due(s, e)
    BY <1>3, <2>3, <2>5 DEF Writing, Due
  <2>8. s.uidx <= Len(s.up) + 1
    BY <1>1, <1>3, <2>3, FieldTypes, LenProperties DEF Writing
  <2>9. Uploading(s, t)
    BY <1>3, <2>3, <2>5, <2>6, <2>8 DEF Writing, Uploading
  <2> QED
    BY <2>1, <2>7, <2>9
<1> QED
  BY <1>1, <1>2, <1>4 DEF s, t

LEMMA FolderMadeGood ==
  ASSUME Good(m), FolderMade
  PROVE  Good(m')
<1>1. PICK e \in Waiting("mkdir") :
        m' \in IF Taken("mkdir", e).cancelled THEN KeepFolder(Taken("mkdir", e), e)
               ELSE AfterMkdir(Acts(Taken("mkdir", e), e[1]), e)
  BY DEF FolderMade, Callback
<1>2. e \in Entries
  BY WaitingTypes DEF Good, EntryKinds
<1>3. ASSUME NEW s, Typed(s), NEW k, k \in KeepFolder(s, e)
      PROVE  Typed(k) /\ Changed(k, s, {"created"})
  <2> DEFINE created == s.created \union {FolderOf(e)}
  <2>1. created \in SUBSET Folders
    BY <1>2, <1>3, FieldTypes DEF Entries, Folders, FolderOf
  <2>2. k = [s EXCEPT !.created = created]
    BY <1>3 DEF KeepFolder
  <2> HIDE DEF created
  <2>3. Changed(k, s, {"created"}) /\ k.created = created
    BY <1>3, <2>2, Names DEF Typed, Record, Changed
  <2>4. k.created \in Types["created"]
    BY <2>1, <2>3, TypeOf
  <2> QED
    BY <1>3, <2>3, <2>4, TypedBut
<1>4. CASE Taken("mkdir", e).cancelled
  <2> DEFINE s == Taken("mkdir", e)
  <2>1. Typed(s) /\ m' \in KeepFolder(s, e) /\ s.cancelled
    BY <1>1, <1>4, TakenCall DEF Good
  <2> HIDE DEF s
  <2>2. Typed(m') /\ Changed(m', s, {"created"})
    BY <1>3, <2>1
  <2> QED
    BY <2>1, <2>2, Dropped DEF s
<1>5. CASE ~Taken("mkdir", e).cancelled
  <2> DEFINE s == Acts(Taken("mkdir", e), e[1])
             t == e[1]
  <2>1. /\ Typed(s)
        /\ ~s.crossed => Busy(s, t) /\ Uploading(s, t) /\ Due(s, e)
    BY <1>5, SendActs
  <2>2. m' \in AfterMkdir(s, e)
    BY <1>1, <1>5
  <2> HIDE DEF s, t
  <2>3. PICK k \in KeepFolder(s, e) : m' \in Upload(k, e)
    BY <2>2 DEF AfterMkdir
  <2>4. Typed(k) /\ Changed(k, s, {"created"})
    BY <1>3, <2>1, <2>3
  <2>5. /\ k.up = s.up /\ k.uidx = s.uidx /\ k.skip = s.skip /\ k.told = s.told
        /\ k.dialogs = s.dialogs /\ k.answered = s.answered /\ k.blind = s.blind
        /\ k.what = s.what /\ k.calls = s.calls /\ k.crossed = s.crossed
    BY <2>4, Names DEF Changed
  <2>6. ASSUME ~s.crossed PROVE Busy(k, t) /\ Uploading(k, t) /\ Due(k, e)
    <3>1. Busy(s, t) /\ Uploading(s, t) /\ Due(s, e)
      BY <2>1, <2>6
    <3>2. Busy(k, t) /\ CallsOf(k, t) = CallsOf(s, t)
      BY <2>1, <2>4, <2>5, <3>1, SameCalls, ChangedAside, StillBusy
    <3>3. Heard(k, t) /\ (k.answered \/ Unasked(k, t)) /\ Verdicts(k, k.up, k.uidx)
      BY <2>5, <3>1 DEF Uploading, Heard, Unasked, Verdicts
    <3> QED
      BY <2>5, <3>1, <3>2, <3>3 DEF Uploading, Due
  <2>7. Leads(k, Busy(k, t) /\ Uploading(k, t) /\ Due(k, e), Upload(k, e))
    BY <1>2, <2>4, UploadLeads
  <2>8. Leads(s, ~s.crossed, Upload(k, e))
    BY <2>5, <2>6, <2>7, Onward
  <2> QED
    BY <2>3, <2>8, Outcome
<1> QED
  BY <1>4, <1>5

LEMMA FileUploadedGood ==
  ASSUME Good(m), FileUploaded
  PROVE  Good(m')
<1>1. PICK e \in Waiting("write") :
        m' \in IF Taken("write", e).cancelled THEN Nothing(Taken("write", e), e)
               ELSE AfterWrite(Acts(Taken("write", e), e[1]), e)
  BY DEF FileUploaded, Callback
<1>2. CASE Taken("write", e).cancelled
  BY <1>1, <1>2, NothingDropped
<1>3. CASE ~Taken("write", e).cancelled
  <2> DEFINE s == Acts(Taken("write", e), e[1])
             t == e[1]
             v == SentOne(s, e)
  <2>1. /\ Typed(s) /\ e \in Entries
        /\ ~s.crossed => Busy(s, t) /\ Uploading(s, t) /\ Due(s, e)
    BY <1>3, SendActs
  <2>2. m' \in UploadNext(v)
    BY <1>1, <1>3 DEF AfterWrite, SentOne
  <2> HIDE DEF s, t
  <2>3. /\ Typed(v) /\ v.crossed = s.crossed
        /\ (Busy(s, t) /\ Uploading(s, t) /\ Due(s, e)) => Busy(v, t) /\ Uploading(v, t)
    BY <2>1, SendsOne
  <2> HIDE DEF v
  <2>4. Leads(v, Busy(v, t) /\ Uploading(v, t), UploadNext(v))
    BY <2>3, UploadNextLeads
  <2>5. Leads(s, ~s.crossed, UploadNext(v))
    BY <2>1, <2>3, <2>4, Onward
  <2> QED
    BY <2>2, <2>5, Outcome
<1> QED
  BY <1>2, <1>3

-----------------------------------------------------------------------------
(* The theorems.                                                           *)

\* The lemmas say of m' what the invariant says of m, with the same there.
LEMMA StillThere ==
  ASSUME there' = there, Good(m')
  PROVE  Good(m)'
BY DEF Good, Sane, Kept, Queued, Untouched, Busy, Running, Walking, Gathered, Reading, Archiving,
       Scanning, Asking, Writing, Heard, Verdicts, Manifest, Unasked, CallsOf, StillAsked,
       Typed, Record, Known, FolderOf

LEMMA AnswerGood ==
  ASSUME Good(m), Answer
  PROVE  Good(m') /\ UNCHANGED <<there, closes, breaks>>
<1>1. UNCHANGED <<there, closes, breaks>>
  BY DEF Answer, ParentListed, FindDone, FolderListed, IgnoreRead, TarProbed, ArchiveCreated,
         ArchiveStreamed, ExtractDone, FileDownloaded, ConflictsListed, FolderMade, FileUploaded,
         AcceptDialog, DeclineDialog, Callback
<1>2. Good(m')
  BY ParentListedGood, FindDoneGood, FolderListedGood, IgnoreReadGood, TarProbedGood,
     ArchiveCreatedGood, ArchiveStreamedGood, ExtractDoneGood, FileDownloadedGood,
     ConflictsListedGood, FolderMadeGood, FileUploadedGood, AcceptDialogGood, DeclineDialogGood
     DEF Answer
<1> QED
  BY <1>1, <1>2

LEMMA InitInv == Init => Inv
<1> SUFFICES ASSUME Init PROVE Inv
  OBVIOUS
<1>1. /\ Typed(m) /\ m.queue = <<>> /\ m.active = FALSE
      /\ m.wrecked = FALSE /\ m.untold = {} /\ m.dialogs = <<>> /\ m.calls = EmptyBag
      /\ m.cancelled = FALSE
  BY NewGood DEF Init
<1>2. Len(m.dialogs) = 0 /\ Len(m.queue) = 0
  BY <1>1, EmptySeq
<1>3. \A t : Untouched(m, t)
  BY <1>1, <1>2, NoCalls DEF Untouched, CallsOf, Unasked
<1>4. Kept(m)
  BY <1>1, <1>2, <1>3 DEF Kept
<1>5. Good(m)
  BY <1>1, <1>4, Idle DEF Good
<1> QED
  BY <1>5, BoundsAreReal DEF Init, Inv

LEMMA StepInv == Inv /\ [Next]_vars => Inv'
<1> SUFFICES ASSUME Inv, [Next]_vars PROVE Inv'
  OBVIOUS
<1>1. Good(m)
  BY DEF Inv
<1>2. ASSUME NEW kind \in TransferKinds, Ask(kind)
      PROVE  Good(m') /\ UNCHANGED <<there, closes, breaks>>
  <2>1. Good(m')
    BY <1>1, <1>2, AskGood
  <2> QED
    BY <1>2, <2>1 DEF Ask
<1>3. CASE CloseLog
  <2>1. Good(m')
    BY <1>1, <1>3, CloseLogGood
  <2>2. there' = there /\ closes' \in 0 .. MaxCloses /\ breaks' = breaks
    BY <1>3, BoundsAreReal DEF CloseLog, Inv
  <2> QED
    BY <2>1, <2>2, StillThere DEF Inv
<1>4. CASE Answer
  BY <1>1, <1>4, AnswerGood, StillThere DEF Inv
<1>5. CASE LoseConnection \/ LoseBackend
  <2>1. Good(m')
    BY <1>1, <1>5, LoseConnectionGood, LoseBackendGood
  <2>2. there' = there /\ closes' = closes /\ breaks' \in 0 .. MaxBreaks
    BY <1>5, BoundsAreReal DEF LoseConnection, LoseBackend, Inv
  <2> QED
    BY <2>1, <2>2, StillThere DEF Inv
<1>6. CASE NewBackend
  <2>1. Good(m')
    BY <1>1, <1>6, NewBackendGood
  <2>2. UNCHANGED <<there, closes, breaks>>
    BY <1>6 DEF NewBackend
  <2> QED
    BY <2>1, <2>2, StillThere DEF Inv
<1>7. CASE UNCHANGED vars
  <2>1. m' = m /\ UNCHANGED <<there, closes, breaks>>
    BY <1>7 DEF vars
  <2>2. Good(m')
    BY <1>1, <2>1
  <2> QED
    BY <2>1, <2>2, StillThere DEF Inv
<1> QED
  BY <1>2, <1>3, <1>4, <1>5, <1>6, <1>7, StillThere DEF Next, Inv

LEMMA Invariant == Spec => []Inv
BY InitInv, StepInv, PTL DEF Spec

\* Every field keeps its type, and the manager is active exactly when its queue
\* is not empty, unless a late callback has acted.
THEOREM TransfersTyped == Spec => []TypeOK
<1>1. ASSUME Inv PROVE TypeOK
  <2>1. Typed(m)
    BY <1>1 DEF Inv, Good
  <2>2. /\ {m.backend, m.active, m.cancelled, m.answered, m.unheard, m.crossed, m.wrecked}
             \subseteq BOOLEAN
        /\ m.queue \in Seq(Transfers) /\ m.down \in Seq(Entries) /\ m.up \in Seq(Entries)
        /\ m.idx \in Nat \ {0} /\ m.uidx \in Nat \ {0}
        /\ m.left \in [Transfers -> Int] /\ m.scans \in Int
    BY <2>1, FieldTypes
  <2>3. /\ m.listed \union m.blind \union m.created \subseteq Folders
        /\ m.skip \union m.untold \subseteq Entries /\ m.dialogs \in Seq(SUBSET Entries)
        /\ m.reading \in Calls \union {NoRead} /\ m.tar \in {"unknown", "yes", "no"}
    BY <2>1, FieldTypes
  <2>4. /\ m.listeners \in Nat /\ m.log \in {"none", "live", "idle"}
        /\ m.ended \in [Transfers -> {"no", "completed", "failed", "cancelled", "lost"}]
        /\ m.told \in [Entries -> Nat] /\ m.what \in Seq(TransferKinds)
    BY <2>1, FieldTypes
  <2>5. IsABag(m.calls) /\ BagToSet(m.calls) \subseteq Calls
    BY <2>1, FieldTypes, BagIsBag
  <2>6. m.wrecked \/ m.crossed \/ (m.active <=> m.queue # <<>>)
    BY <1>1 DEF Inv, Good, Sane, Busy
  <2> QED
    BY <1>1, <2>2, <2>3, <2>4, <2>5, <2>6 DEF TypeOK, Inv
<1> QED
  BY <1>1, Invariant, PTL

LEMMA StagesOneAtATime == Inv => OneAtATime
<1> SUFFICES ASSUME Inv, m.active, ~m.crossed, NEW t, t = Head(m.queue)
             PROVE  IF Gathering(t) # {} THEN Driving(t) = {}
                    ELSE IF Driving(t) # {}
                    THEN \E c \in Driving(t) : Driving(t) = {c} /\ m.calls[c] = 1
                    ELSE m.unheard \/ (m.dialogs # <<>> /\ StillAsked(m))
  BY DEF OneAtATime
<1>1. Running(m, t)
  BY DEF Inv, Good, Sane
<1>2. \A k \in FolderKinds : k \notin ArchiveKinds /\ k \notin EntryKinds
  BY DEF FolderKinds, ArchiveKinds, EntryKinds
<1>3. CASE Walking(m, t) \/ Scanning(m, t)
  <2>1. CallsOf(m, t) # {} /\ \A c \in CallsOf(m, t) : c[1] \in FolderKinds
    BY <1>3 DEF Walking, Scanning, Gathered, FolderKinds
  <2> QED
    BY <2>1 DEF Gathering, Driving
<1>4. ASSUME NEW k \in ArchiveKinds \union EntryKinds, NEW x, CallsOf(m, t) = {<<k, x>>}
      PROVE  /\ Gathering(t) = {} /\ Driving(t) = {<<k, x>>} /\ m.calls[<<k, x>>] = 1
  <2>1. k \notin FolderKinds /\ m.calls[<<k, x>>] = 1
    BY <1>1, <1>2, <1>4 DEF Running
  <2> QED
    BY <1>4, <2>1 DEF Gathering, Driving
<1>5. CASE Reading(m, t) \/ Archiving(m, t) \/ Writing(m, t)
  <2>1. PICK k \in ArchiveKinds \union EntryKinds, x \in Entries \union {<<t>>} :
          CallsOf(m, t) = {<<k, x>>}
    <3>1. CASE Archiving(m, t)
      BY <3>1 DEF Archiving
    <3>2. CASE Reading(m, t)
      <4>1. m.down[m.idx] \in Entries
        <5>1. Typed(m)
          BY DEF Inv, Good
        <5> QED
          BY <3>2, <5>1, FieldTypes, ElementOfSeq, LenProperties DEF Reading
      <4> QED
        BY <3>2, <4>1 DEF Reading, EntryKinds
    <3>3. CASE Writing(m, t)
      <4>1. m.up[m.uidx] \in Entries
        <5>1. Typed(m)
          BY DEF Inv, Good
        <5> QED
          BY <3>3, <5>1, FieldTypes, ElementOfSeq, LenProperties DEF Writing
      <4> QED
        BY <3>3, <4>1 DEF Writing, EntryKinds
    <3> QED
      BY <1>5, <3>1, <3>2, <3>3
  <2> QED
    BY <1>4, <2>1
<1>6. CASE Asking(m, t)
  BY <1>6 DEF Asking, Gathering, Driving
<1> QED
  BY <1>1, <1>3, <1>5, <1>6 DEF Running

\* The head of the queue gathers its files, or has exactly one call under way,
\* or waits for its user, for any number of transfers, files and breaks.
THEOREM OneAtATimeCorrect == Spec => []OneAtATime
BY StagesOneAtATime, Invariant, PTL

\* A completed transfer has given each of its files its one verdict, unless a late
\* callback has acted for it.
THEOREM WholeCorrect == Spec => []CompletedIsWhole
<1>1. Inv => CompletedIsWhole
  BY DEF Inv, Good, Sane, Kept, CompletedIsWhole
<1> QED
  BY <1>1, Invariant, PTL

LEMMA HeardBeforeWrite == Inv => AskedBeforeOverwrite
<1> SUFFICES ASSUME Inv, NEW e \in Waiting("write"), m.active, ~m.crossed, e[1] = Head(m.queue),
                    m.what[e[1]] = "upload", e[2] \in there
             PROVE  FolderOf(e) \in m.blind \/ (m.answered /\ e \notin m.skip)
  BY DEF AskedBeforeOverwrite
<1> DEFINE t == e[1]
           c == <<"write", e>>
<1>1. Running(m, t)
  BY DEF Inv, Good, Sane
<1>2. c \in CallsOf(m, t)
  <2>1. PICK d \in BagToSet(m.calls) : d[1] = "write" /\ d[2] = e
    BY DEF Waiting
  <2>2. d \in Calls
    <3>1. Typed(m)
      BY DEF Inv, Good
    <3> QED
      BY <2>1, <3>1, FieldTypes, BagIsBag
  <2>3. d = c
    BY <2>1, <2>2 DEF Calls
  <2> QED
    BY <2>1, <2>3 DEF CallsOf
<1>3. Writing(m, t)
  <2>1. ~Walking(m, t) /\ ~Scanning(m, t)
    BY <1>2 DEF Walking, Scanning, Gathered, FolderKinds
  <2>2. ~Reading(m, t) /\ ~Archiving(m, t) /\ ~Asking(m, t)
    BY <1>2 DEF Reading, Archiving, Asking, ArchiveKinds
  <2> QED
    BY <1>1, <2>1, <2>2 DEF Running
<1>4. /\ e = m.up[m.uidx] /\ e \notin m.skip /\ m.uidx \in 1 .. Len(m.up)
  <2>1. m.uidx \in Nat \ {0} /\ Len(m.up) \in Nat
    <3>1. Typed(m)
      BY DEF Inv, Good
    <3> QED
      BY <3>1, FieldTypes, LenProperties
  <2>2. PICK k \in {"mkdir", "write"} : CallsOf(m, t) = {<<k, m.up[m.uidx]>>}
    BY <1>3 DEF Writing
  <2>3. e = m.up[m.uidx]
    BY <1>2, <2>2
  <2> QED
    BY <1>3, <2>1, <2>3 DEF Writing
<1>5. m.answered \/ FolderOf(e) \in m.blind
  BY <1>3, <1>4 DEF Writing, Heard
<1> QED
  BY <1>4, <1>5

\* An upload with conflict detection writes over a file on the server only if the
\* listing of its folder failed, or its user accepted a dialog and did not skip it.
THEOREM AskedCorrect == Spec => []AskedBeforeOverwrite
BY HeardBeforeWrite, Invariant, PTL

\* removeFirst() and front() meet an empty queue only after a callback of a transfer
\* that has ended took the next one, or none, for its own.
THEOREM WreckedByLateCallback == Spec => [](m.wrecked => m.crossed)
<1>1. Inv => (m.wrecked => m.crossed)
  BY DEF Inv, Good, Sane, Kept
<1> QED
  BY <1>1, Invariant, PTL

-----------------------------------------------------------------------------
(* The refinement of TransferQueue.  Here a late callback is no exception: *)
(* whatever it does, it is the head of the queue that it ends.             *)

Done(s) == Len(s.what) - Len(s.queue)

\* The queue holds the transfers that have not ended, in the order they were asked for.
Ordered(s) ==
  /\ Record(s) /\ s.queue \in Seq(Transfers) /\ s.what \in Seq(TransferKinds)
  /\ DOMAIN s.ended = Transfers /\ s.ended = [t \in Transfers |-> s.ended[t]]
  /\ Len(s.queue) <= Len(s.what)
  /\ \A i \in 1 .. Len(s.queue) : s.queue[i] = Done(s) + i

\* Between methods; without a backend nothing is queued.
Lined(s) == Ordered(s) /\ (s.queue # <<>> => s.backend)

Steady(s) ==
  Lined(s) /\ ~s.wrecked /\ (s.queue # <<>> => s.active) /\ (s.active => s.backend)

\* Nothing but the affairs of the transfer that runs is changed.
Alike(u, s) ==
  /\ Record(u) /\ u.what = s.what /\ u.queue = s.queue /\ u.ended = s.ended
  /\ u.active = s.active /\ u.backend = s.backend /\ u.wrecked = s.wrecked

\* Those up to the n-th have ended, the first of them in its own way.
Ends(u, s, n, first, rest) ==
  /\ u.what = s.what /\ Done(u) = n
  /\ u.ended = [t \in Transfers |->
                  IF t \in Done(s) + 1 .. n THEN IF t = Done(s) + 1 THEN first ELSE rest
                  ELSE s.ended[t]]

ByItself == {"completed", "failed"}

\* TransferQueue does not move, or a transfer has come to its own end; what has
\* broken goes no further.
Same(u, s) == u.what = s.what /\ Done(u) = Done(s) /\ u.ended = s.ended

Moved(u, s) ==
  /\ u.wrecked \/ Steady(u)
  /\ \/ Same(u, s)
     \/ \E n \in Done(s) + 1 .. Len(s.what), how \in ByItself : Ends(u, s, n, how, "completed")

\* Every record of U is one that s may have become.
Carries(s, U) == \A u \in U : Moved(u, s)

LEMMA Counts ==
  ASSUME NEW s, Ordered(s)
  PROVE  /\ Len(s.queue) \in Nat /\ Len(s.what) \in Nat /\ Done(s) \in 0 .. Len(s.what)
         /\ (s.queue = <<>> <=> Done(s) = Len(s.what))
         /\ \A i \in 1 .. Len(s.queue) : s.queue[i] \in Done(s) + 1 .. Len(s.what)
<1> DEFINE a == Len(s.queue)
           b == Len(s.what)
           d == Done(s)
<1>1. /\ a \in Nat /\ b \in Nat /\ a <= b /\ d = b - a
      /\ (s.queue = <<>> <=> a = 0) /\ \A i \in 1 .. a : s.queue[i] = d + i
  BY LenProperties, EmptySeq DEF Ordered, Done
<1> HIDE DEF a, b, d
<1>2. d \in 0 .. b /\ (a = 0 <=> d = b) /\ \A i \in 1 .. a : d + i \in d + 1 .. b
  BY <1>1
<1>3. (s.queue = <<>> <=> d = b) /\ \A i \in 1 .. a : s.queue[i] \in d + 1 .. b
  BY <1>1, <1>2
<1> QED
  BY <1>1, <1>2, <1>3 DEF a, b, d

LEMMA StillSteady ==
  ASSUME NEW s, NEW u, Alike(u, s)
  PROVE  /\ Done(u) = Done(s) /\ (Ordered(s) => Ordered(u)) /\ (Lined(s) => Lined(u))
         /\ (Steady(s) => Steady(u) /\ Moved(u, s))
<1>1. Done(u) = Done(s) /\ (Ordered(s) => Ordered(u))
  BY DEF Alike, Ordered, Done
<1>2. (Lined(s) => Lined(u)) /\ (Steady(s) => Steady(u))
  BY <1>1 DEF Alike, Lined, Steady
<1> QED
  BY <1>1, <1>2 DEF Moved, Same, Alike

\* What an unchanged queue carries on to.
LEMMA CarriedOn ==
  ASSUME NEW s, NEW v, Alike(v, s), NEW U, Carries(v, U)
  PROVE  Carries(s, U)
<1>1. Done(v) = Done(s) /\ v.what = s.what /\ v.ended = s.ended
  BY StillSteady DEF Alike
<1>2. ASSUME NEW u \in U PROVE Moved(u, s)
  <2>1. CASE Same(u, v)
    BY <1>1, <1>2, <2>1 DEF Carries, Moved, Same
  <2>2. ASSUME NEW n \in Done(v) + 1 .. Len(v.what), NEW how \in ByItself,
               Ends(u, v, n, how, "completed")
        PROVE  Moved(u, s)
    <3>1. n \in Done(s) + 1 .. Len(s.what)
      BY <1>1, <2>2
    <3>2. Ends(u, s, n, how, "completed")
      BY <1>1, <2>2 DEF Ends
    <3> QED
      BY <1>2, <3>1, <3>2 DEF Carries, Moved
  <2> QED
    BY <1>2, <2>1, <2>2 DEF Carries, Moved
<1> QED
  BY <1>2 DEF Carries

LEMMA AlikeAgain ==
  ASSUME NEW s, NEW v, NEW u, Alike(v, s), Alike(u, v)
  PROVE  Alike(u, s)
BY DEF Alike

LEMMA CarriesSelf ==
  ASSUME NEW s, Steady(s), NEW U, \A u \in U : Alike(u, s)
  PROVE  Carries(s, U)
BY StillSteady DEF Carries

LEMMA CarriesBoth ==
  ASSUME NEW s, NEW U, NEW V, Carries(s, U), Carries(s, V)
  PROVE  Carries(s, U \union V)
BY DEF Carries

\* The small steps of a method.
LEMMA SmallSteps ==
  ASSUME NEW s, Record(s)
  PROVE  /\ Alike(Shown(s), s) /\ \A kind, X : Alike(Make(s, kind, X), s)
         /\ \A e : Alike(Tell(s, e), s) /\ Alike(Acts(s, e), s) /\ Alike(Read(s, e), s)
         /\ \A f, n : Alike(Gain(s, f, n), s)
<1>1. ASSUME NEW kind, NEW X PROVE Alike(Make(s, kind, X), s)
  BY Names DEF Make, Alike, Record
<1>2. Alike(Shown(s), s)
  BY Names DEF Shown, Alike, Record
<1>3. ASSUME NEW e PROVE Alike(Tell(s, e), s) /\ Alike(Acts(s, e), s) /\ Alike(Read(s, e), s)
  <2>1. Alike(Tell(s, e), s)
    <3> DEFINE told == [s.told EXCEPT ![e] = @ + 1]
    <3>1. Tell(s, e) = [s EXCEPT !.told = told]
      BY DEF Tell
    <3> HIDE DEF told
    <3> QED
      BY <3>1, Names DEF Alike, Record
  <2>2. Alike(Acts(s, e), s)
    <3> DEFINE crossed == s.crossed \/ s.queue = <<>> \/ Head(s.queue) # e
    <3>1. Acts(s, e) = [s EXCEPT !.crossed = crossed]
      BY DEF Acts
    <3> HIDE DEF crossed
    <3> QED
      BY <3>1, Names DEF Alike, Record
  <2>3. Alike(Read(s, e), s)
    <3> DEFINE r == [s EXCEPT !.reading = <<"read", e>>]
               calls == r.calls (+) SetToBag({<<"read", x>> : x \in {e}})
               c == Make(r, "read", {e})
    <3>1. Alike(r, s)
      BY Names DEF Alike, Record
    <3>2. c = [r EXCEPT !.calls = calls]
      BY DEF Make
    <3>3. Read(s, e) = Shown(c)
      BY DEF Read
    <3> HIDE DEF r, calls, c
    <3>4. Alike(c, r)
      BY <3>1, <3>2, Names DEF Alike, Record
    <3>5. Alike(Shown(c), c)
      BY <3>4, Names DEF Shown, Alike, Record
    <3> QED
      BY <3>1, <3>3, <3>4, <3>5, AlikeAgain
  <2> QED
    BY <2>1, <2>2, <2>3
<1>4. ASSUME NEW f, NEW n PROVE Alike(Gain(s, f, n), s)
  <2> DEFINE down == s.down \o Found(f, n)
  <2>1. Gain(s, f, n) = [s EXCEPT !.down = down]
    BY DEF Gain
  <2> HIDE DEF down
  <2> QED
    BY <2>1, Names DEF Alike, Record
<1> QED
  BY <1>1, <1>2, <1>3, <1>4

LEMMA EndsMany ==
  ASSUME NEW s, Ordered(s), NEW ts, NEW how
  PROVE  LET u == End(s, ts, how) IN
         /\ Record(u) /\ u.what = s.what /\ u.queue = s.queue
         /\ u.active = s.active /\ u.backend = s.backend /\ u.wrecked = s.wrecked
         /\ u.ended = [t \in Transfers |-> IF t \in ts THEN how ELSE s.ended[t]]
<1> DEFINE e == s.ended
           ended == [t \in Transfers |-> IF t \in ts THEN how ELSE e[t]]
           u == End(s, ts, how)
<1>1. u = [s EXCEPT !.ended = ended]
  BY DEF End
<1> HIDE DEF ended, u, e
<1>2. /\ Record(u) /\ u.what = s.what /\ u.queue = s.queue
      /\ u.active = s.active /\ u.backend = s.backend /\ u.wrecked = s.wrecked /\ u.ended = ended
  BY <1>1, Names DEF Ordered, Record
<1> QED
  BY <1>2 DEF u, ended, e

LEMMA FreshAlike ==
  ASSUME NEW s, Record(s)
  PROVE  LET u == Fresh(s) IN
         /\ Record(u) /\ u.what = s.what /\ u.queue = s.queue /\ u.ended = s.ended
         /\ u.active = TRUE /\ u.backend = s.backend /\ u.wrecked = s.wrecked
<1> DEFINE zero == [e \in Entries |-> 0]
           u == Fresh(s)
<1>1. u = [s EXCEPT !.active = TRUE, !.cancelled = FALSE,
            !.down = <<>>, !.idx = 1, !.up = <<>>, !.uidx = 1,
            !.scans = 0, !.listed = {}, !.skip = {}, !.created = {},
            !.told = zero, !.blind = {},
            !.answered = FALSE, !.unheard = FALSE]
  BY DEF Fresh
<1> HIDE DEF zero, u
<1>2. Record(u)
  BY <1>1 DEF Record
<1>3. /\ u.what = s.what /\ u.queue = s.queue /\ u.ended = s.ended
      /\ u.active = TRUE /\ u.backend = s.backend /\ u.wrecked = s.wrecked
  BY <1>1, Names DEF Record
<1> QED
  BY <1>2, <1>3 DEF u

LEMMA BeginAlike ==
  ASSUME NEW s, Ordered(s), s.queue # <<>>
  PROVE  \A u \in Begin(s) : Alike(u, s)
<1> SUFFICES ASSUME NEW u \in Begin(s) PROVE Alike(u, s)
  OBVIOUS
<1> DEFINE t == Head(s.queue)
           file == <<t, CHOOSE p \in Paths : TRUE, 1>>
<1>1. Begin(s) = CASE s.what[t] = "file"    -> {Read([s EXCEPT !.down = <<file>>], file)}
                   [] s.what[t] \in Walked  ->
                        {Shown(Make([s EXCEPT !.left[t] = Cardinality(Paths)],
                                    "parent", {t} \X Paths))}
                   [] s.what[t] \in Sending -> BeginUpload(s, t)
  BY DEF Begin
<1>2. s.what[t] \in TransferKinds
  <2>1. t = s.queue[1] /\ 1 \in 1 .. Len(s.queue)
    BY TailShape DEF Ordered
  <2>2. t \in 1 .. Len(s.what)
    BY <2>1, Counts
  <2> QED
    BY <2>2, ElementOfSeq DEF Ordered
<1> HIDE DEF t, file
<1>3. s.what[t] = "file" \/ s.what[t] \in Walked \/ s.what[t] \in Sending
  BY <1>2 DEF TransferKinds
<1>4. Record(s)
  BY DEF Ordered
<1>5. CASE s.what[t] = "file"
  <2> DEFINE v == [s EXCEPT !.down = <<file>>]
  <2>1. u = Read(v, file)
    BY <1>1, <1>5 DEF Walked, Sending
  <2>2. Alike(v, s)
    BY <1>4, Names DEF Alike, Record
  <2> HIDE DEF v
  <2>3. Alike(Read(v, file), v)
    BY <2>2, SmallSteps DEF Alike
  <2> QED
    BY <2>1, <2>2, <2>3, AlikeAgain
<1>6. CASE s.what[t] \in Walked
  <2> DEFINE left == [s.left EXCEPT ![t] = Cardinality(Paths)]
             v == [s EXCEPT !.left = left]
             X == {t} \X Paths
             w == Make(v, "parent", X)
  <2>1. u = Shown(w)
    BY <1>1, <1>6 DEF Walked, Sending
  <2> HIDE DEF left
  <2>2. Alike(v, s)
    BY <1>4, Names DEF Alike, Record
  <2> HIDE DEF v, X
  <2>3. Alike(w, v)
    BY <2>2, SmallSteps DEF Alike
  <2> HIDE DEF w
  <2>4. Alike(Shown(w), w)
    BY <2>3, SmallSteps DEF Alike
  <2> QED
    BY <2>1, <2>2, <2>3, <2>4, AlikeAgain
<1>7. CASE s.what[t] \in Sending
  <2>1. u \in BeginUpload(s, t)
    BY <1>1, <1>7 DEF Walked, Sending
  <2>2. PICK es, dirs :
          u = IF s.what[t] = "overwrite"
              THEN Shown(Make([s EXCEPT !.up = es], "mkdir", {es[1]}))
              ELSE Shown(Make([s EXCEPT !.up = es, !.scans = Cardinality(dirs)], "scan", dirs))
    BY <2>1 DEF BeginUpload
  <2>3. ASSUME NEW v, NEW kind, NEW X, Alike(v, s), u = Shown(Make(v, kind, X))
        PROVE  Alike(u, s)
    <3> DEFINE w == Make(v, kind, X)
    <3>1. Alike(w, v)
      BY <2>3, SmallSteps DEF Alike
    <3> HIDE DEF w
    <3>2. Alike(Shown(w), w)
      BY <3>1, SmallSteps DEF Alike
    <3> QED
      BY <2>3, <3>1, <3>2, AlikeAgain DEF w
  <2>4. Alike([s EXCEPT !.up = es], s)
    BY <1>4, Names DEF Alike, Record
  <2>5. Alike([s EXCEPT !.up = es, !.scans = Cardinality(dirs)], s)
    BY <1>4, Names DEF Alike, Record
  <2> QED
    BY <2>2, <2>3, <2>4, <2>5
<1> QED
  BY <1>3, <1>5, <1>6, <1>7

\* The queue without its first k.
LEMMA Shortened ==
  ASSUME NEW s, Ordered(s), NEW k \in 0 .. Len(s.queue), NEW u, Record(u),
         u.what = s.what, u.queue = SubSeq(s.queue, k + 1, Len(s.queue)), NEW how,
         u.ended = [t \in Transfers |->
                      IF t \in Done(s) + 1 .. Done(s) + k THEN how ELSE s.ended[t]]
  PROVE  /\ Ordered(u) /\ Done(u) = Done(s) + k /\ Done(s) + k \in Done(s) .. Len(s.what)
         /\ Ends(u, s, Done(s) + k, how, how)
<1> DEFINE q == s.queue
           r == u.queue
           a == Len(q)
           b == Len(s.what)
           d == Done(s)
<1>1. q \in Seq(Transfers) /\ a \in Nat /\ b \in Nat /\ a <= b /\ d = b - a
      /\ \A i \in 1 .. a : q[i] = d + i
  BY Counts DEF Ordered, Done
<1>2. /\ r \in Seq(Transfers) /\ Len(r) = a - k
      /\ \A i \in 1 .. Len(r) : i + k \in 1 .. a /\ r[i] = q[i + k]
  <2>1. q \in Seq(Transfers) /\ k \in 0 .. Len(q) /\ r = SubSeq(q, k + 1, Len(q))
    BY <1>1
  <2> HIDE DEF q, r
  <2>2. r \in Seq(Transfers) /\ Len(r) = Len(q) - k
    BY <2>1, Cut
  <2>3. \A i \in 1 .. Len(r) : i + k \in 1 .. Len(q) /\ r[i] = q[i + k]
    BY <2>1, <2>2, Cut
  <2> QED
    BY <2>2, <2>3
<1>3. Done(u) = b - (a - k)
  BY <1>2 DEF Done
<1> HIDE DEF q, r, a, b, d
<1>4. b - (a - k) = d + k /\ d + k \in d .. b
  BY <1>1 DEF a, q
<1>5. \A i \in 1 .. Len(r) : r[i] = (d + k) + i
  BY <1>1, <1>2
<1>6. Ordered(u)
  <2>1. Len(r) <= b
    BY <1>1, <1>2 DEF a, q
  <2>2. DOMAIN u.ended = Transfers /\ u.ended = [t \in Transfers |-> u.ended[t]]
    OBVIOUS
  <2>3. s.what \in Seq(TransferKinds)
    BY DEF Ordered
  <2> QED
    BY <1>2, <1>3, <1>4, <1>5, <2>1, <2>2, <2>3 DEF Ordered, r, b
<1> QED
  BY <1>3, <1>4, <1>6 DEF Ends, b, d

LEMMA FirstOnes ==
  ASSUME NEW s, Ordered(s), NEW k \in 0 .. Len(s.queue)
  PROVE  ToSet(SubSeq(s.queue, 1, k)) = Done(s) + 1 .. Done(s) + k
<1> DEFINE q == s.queue
           r == SubSeq(q, 1, k)
           d == Done(s)
<1>1. q \in Seq(Transfers) /\ Len(q) \in Nat /\ d \in Int /\ \A i \in 1 .. Len(q) : q[i] = d + i
  <2>1. d \in 0 .. Len(s.what) /\ Len(s.what) \in Nat
    BY Counts
  <2>2. d \in Int
    BY <2>1
  <2>3. q \in Seq(Transfers) /\ \A i \in 1 .. Len(q) : q[i] = d + i
    BY DEF Ordered
  <2> HIDE DEF d, q
  <2> QED
    BY <2>2, <2>3, LenProperties
<1>2. k \in 0 .. Len(q)
  OBVIOUS
<1> HIDE DEF q, d
<1>3. r \in Seq(Transfers) /\ Len(r) = k /\ \A i \in 1 .. k : r[i] = q[i]
  <2>1. \A i \in 1 .. k : q[i] \in Transfers
    BY <1>1, <1>2, ElementOfSeq
  <2> QED
    BY <1>1, <1>2, <2>1, SubSeqProperties
<1> HIDE DEF r
<1>4. DOMAIN r = 1 .. k /\ \A i \in 1 .. k : r[i] = d + i
  <2>1. DOMAIN r = 1 .. Len(r)
    BY <1>3, LenProperties
  <2>2. \A i \in 1 .. k : i \in 1 .. Len(q)
    BY <1>1, <1>2
  <2> QED
    BY <1>1, <1>3, <2>1, <2>2
<1>5. ToSet(r) = {r[i] : i \in 1 .. k}
  BY <1>4 DEF ToSet
<1>6. ASSUME NEW t \in d + 1 .. d + k PROVE t \in ToSet(r)
  <2>1. t - d \in 1 .. k /\ d + (t - d) = t
    BY <1>1, <1>2
  <2> QED
    BY <1>4, <1>5, <2>1
<1>7. ASSUME NEW t \in ToSet(r) PROVE t \in d + 1 .. d + k
  <2>1. PICK i \in 1 .. k : t = d + i
    BY <1>4, <1>5
  <2> QED
    BY <1>1, <1>2, <2>1
<1> QED
  BY <1>6, <1>7 DEF q, r, d

LEMMA StartsMove ==
  ASSUME NEW s, Lined(s), ~s.wrecked, NEW u \in StartNext(s)
  PROVE  /\ Steady(u)
         /\ \E n \in Done(s) .. Len(s.what) : Ends(u, s, n, "completed", "completed")
<1>0. Ordered(s) /\ Record(s) /\ Done(s) \in 0 .. Len(s.what) /\ Len(s.what) \in Nat
  BY Counts DEF Lined, Ordered
<1>1. CASE s.queue = <<>>
  <2>1. u = [s EXCEPT !.active = FALSE]
    BY <1>1 DEF StartNext
  <2>2. /\ Record(u) /\ u.what = s.what /\ u.queue = s.queue /\ u.ended = s.ended
        /\ u.backend = s.backend /\ u.wrecked = s.wrecked /\ ~u.active
    BY <1>0, <2>1, Names DEF Record
  <2>3. Steady(u) /\ Done(u) = Done(s)
    BY <1>0, <1>1, <2>2 DEF Steady, Lined, Ordered, Done
  <2>4. Done(s) + 1 .. Done(s) = {}
    BY <1>0
  <2>5. Ends(u, s, Done(s), "completed", "completed")
    BY <1>0, <2>2, <2>3, <2>4 DEF Ends, Ordered
  <2> QED
    BY <1>0, <2>3, <2>5
<1>2. CASE s.queue # <<>>
  <2>0. s.backend
    BY <1>2 DEF Lined
  <2>1. PICK k \in 0 .. Len(s.queue) :
          u \in LET next == [Fresh(End(s, ToSet(SubSeq(s.queue, 1, k)), "completed")) EXCEPT
                               !.queue = SubSeq(@, k + 1, Len(@))]
                IN IF next.queue = <<>>
                   THEN {[Shown(next) EXCEPT !.active = FALSE, !.log = "idle"]}
                   ELSE Begin(next)
    BY <1>2, <2>0 DEF StartNext
  <2> DEFINE a == End(s, ToSet(SubSeq(s.queue, 1, k)), "completed")
             b == Fresh(a)
             next == [b EXCEPT !.queue = SubSeq(@, k + 1, Len(@))]
             d == Done(s)
  <2>2. u \in IF next.queue = <<>>
              THEN {[Shown(next) EXCEPT !.active = FALSE, !.log = "idle"]}
              ELSE Begin(next)
    BY <2>1
  <2>3. /\ Record(a) /\ a.what = s.what /\ a.queue = s.queue /\ a.backend = s.backend
        /\ a.wrecked = s.wrecked
        /\ a.ended = [t \in Transfers |-> IF t \in d + 1 .. d + k THEN "completed" ELSE s.ended[t]]
    <3>1. ToSet(SubSeq(s.queue, 1, k)) = d + 1 .. d + k
      BY <1>0, FirstOnes
    <3> QED
      BY <1>0, <3>1, EndsMany
  <2> HIDE DEF a
  <2>4. /\ Record(b) /\ b.what = s.what /\ b.queue = s.queue /\ b.ended = a.ended
        /\ b.active = TRUE /\ b.backend = s.backend /\ b.wrecked = s.wrecked
    BY <2>3, FreshAlike
  <2> HIDE DEF b
  <2>5. /\ Record(next) /\ next.what = s.what
        /\ next.queue = SubSeq(s.queue, k + 1, Len(s.queue)) /\ next.ended = a.ended
        /\ next.active = TRUE /\ next.backend = s.backend /\ next.wrecked = s.wrecked
    <3> DEFINE r == SubSeq(s.queue, k + 1, Len(s.queue))
    <3>1. next = [b EXCEPT !.queue = r]
      BY <2>4
    <3> HIDE DEF r, next
    <3> QED
      BY <2>4, <3>1, Names DEF Record, r
  <2> HIDE DEF next, d
  <2>6. /\ Ordered(next) /\ Done(next) = d + k /\ d + k \in d .. Len(s.what)
        /\ Ends(next, s, d + k, "completed", "completed")
    BY <1>0, <2>3, <2>5, Shortened DEF d
  <2>7. ASSUME Record(u), u.what = next.what, u.queue = next.queue, u.ended = next.ended,
               u.wrecked = s.wrecked, u.queue # <<>> => u.active, u.backend
        PROVE  Steady(u) /\ Ends(u, s, d + k, "completed", "completed")
    <3>1. Done(u) = Done(next)
      BY <2>7 DEF Done
    <3>2. Ordered(u)
      BY <2>6, <2>7, <3>1 DEF Ordered
    <3> QED
      BY <2>6, <2>7, <3>1, <3>2 DEF Steady, Lined, Ends
  <2>8. CASE next.queue # <<>>
    <3>1. Alike(u, next)
      BY <2>2, <2>6, <2>8, BeginAlike
    <3> QED
      BY <2>0, <2>5, <2>6, <2>7, <3>1 DEF Alike, d
  <2>9. CASE next.queue = <<>>
    <3> DEFINE v == Shown(next)
    <3>1. Alike(v, next)
      BY <2>5, SmallSteps
    <3>2. u = [v EXCEPT !.active = FALSE, !.log = "idle"]
      BY <2>2, <2>9
    <3> HIDE DEF v
    <3>3. /\ Record(u) /\ u.what = v.what /\ u.queue = v.queue /\ u.ended = v.ended
          /\ u.wrecked = v.wrecked /\ u.backend = v.backend
      BY <3>1, <3>2, Names DEF Alike, Record
    <3> QED
      BY <2>0, <2>5, <2>6, <2>7, <2>9, <3>1, <3>3 DEF Alike, d
  <2> QED
    BY <2>8, <2>9
<1> QED
  BY <1>1, <1>2

\* The head is over.
LEMMA PopMoves ==
  ASSUME NEW s, Lined(s), NEW how
  PROVE  LET u == Pop(s, how) IN
         /\ Record(u) /\ Lined(u)
         /\ s.queue = <<>> => u.wrecked /\ Same(u, s)
         /\ s.queue # <<>> => /\ u.wrecked = s.wrecked /\ Done(s) + 1 <= Len(s.what)
                              /\ Ends(u, s, Done(s) + 1, how, how)
<1>0. Ordered(s) /\ Record(s) /\ Done(s) \in 0 .. Len(s.what) /\ Len(s.what) \in Nat
  BY Counts DEF Lined, Ordered
<1> DEFINE u == Pop(s, how)
<1>1. CASE s.queue = <<>>
  <2>1. u = [s EXCEPT !.wrecked = TRUE]
    BY <1>1 DEF Pop
  <2> HIDE DEF u
  <2>2. /\ Record(u) /\ u.what = s.what /\ u.queue = s.queue /\ u.ended = s.ended
        /\ u.backend = s.backend /\ u.wrecked
    BY <1>0, <2>1, Names DEF Record
  <2>3. Lined(u) /\ Done(u) = Done(s)
    BY <1>0, <1>1, <2>2 DEF Lined, Ordered, Done
  <2> QED
    BY <1>1, <2>2, <2>3 DEF Same, u
<1>2. CASE s.queue # <<>>
  <2> DEFINE a == End(s, {Head(s.queue)}, how)
             q == Tail(s.queue)
             d == Done(s)
  <2>1. /\ Head(s.queue) = s.queue[1] /\ q = SubSeq(s.queue, 2, Len(s.queue))
        /\ Len(s.queue) \in Nat \ {0}
    BY <1>0, <1>2, TailShape DEF Ordered, Tail
  <2>2. {Head(s.queue)} = d + 1 .. d + 1
    <3>1. Head(s.queue) = d + 1
      BY <1>0, <2>1 DEF Ordered
    <3> QED
      BY <1>0, <3>1
  <2>3. /\ Record(a) /\ a.what = s.what /\ a.queue = s.queue
        /\ a.active = s.active /\ a.backend = s.backend /\ a.wrecked = s.wrecked
        /\ a.ended = [t \in Transfers |-> IF t \in d + 1 .. d + 1 THEN how ELSE s.ended[t]]
    BY <1>0, <2>2, EndsMany
  <2> HIDE DEF a
  <2>4. u = [a EXCEPT !.queue = q]
    BY <1>2, <2>3 DEF Pop, a
  <2> HIDE DEF u, q, d
  <2>5. /\ Record(u) /\ u.what = s.what /\ u.queue = q /\ u.ended = a.ended
        /\ u.backend = s.backend /\ u.wrecked = s.wrecked
    BY <2>3, <2>4, Names DEF Record
  <2>6. Ordered(u) /\ d + 1 \in d .. Len(s.what) /\ Ends(u, s, d + 1, how, how)
    <3>1. PICK k \in 0 .. Len(s.queue) : k = 1
      BY <2>1
    <3>2. u.queue = SubSeq(s.queue, k + 1, Len(s.queue))
      BY <2>1, <2>5, <3>1
    <3>3. u.ended = [t \in Transfers |->
                       IF t \in Done(s) + 1 .. Done(s) + k THEN how ELSE s.ended[t]]
      BY <2>3, <2>5, <3>1 DEF d
    <3>4. Record(u) /\ u.what = s.what
      BY <2>5
    <3>5. /\ Ordered(u) /\ Done(s) + k \in Done(s) .. Len(s.what)
          /\ Ends(u, s, Done(s) + k, how, how)
      <4>0. Ordered(s)
        BY <1>0
      <4>1. Ends(u, s, Done(s) + k, how, how)
        BY <4>0, <3>2, <3>3, <3>4, Shortened
      <4>2. Ordered(u) /\ Done(s) + k \in Done(s) .. Len(s.what)
        BY <4>0, <4>1, <3>2, <3>3, <3>4, Shortened
      <4> QED
        BY <4>1, <4>2
    <3> QED
      BY <3>1, <3>5 DEF d
  <2> QED
    BY <1>0, <1>2, <2>5, <2>6 DEF Lined, u, d
<1> QED
  BY <1>1, <1>2

\* The head is over, and the next ones begin.
LEMMA EndThenStart ==
  ASSUME NEW s, NEW v, NEW how \in ByItself, Ordered(s), Lined(v), ~v.wrecked, NEW u \in StartNext(v),
         Done(s) + 1 <= Len(s.what), Ends(v, s, Done(s) + 1, how, how)
  PROVE  Moved(u, s)
<1> DEFINE d == Done(s)
           b == Len(s.what)
<1>1. PICK n \in d + 1 .. b : Steady(u) /\ Ends(u, v, n, "completed", "completed")
  <2>1. Done(v) = d + 1 /\ v.what = s.what
    BY DEF Ends
  <2> QED
    BY <2>1, StartsMove
<1>2. d \in Int /\ n \in Int
  BY Counts
<1>3. Ends(u, s, n, how, "completed")
  <2>1. u.what = s.what /\ Done(u) = n
    BY <1>1 DEF Ends
  <2>2. /\ v.ended = [t \in Transfers |-> IF t \in d + 1 .. d + 1 THEN how ELSE s.ended[t]]
        /\ u.ended = [t \in Transfers |-> IF t \in d + 2 .. n THEN "completed" ELSE v.ended[t]]
    <3>1. Done(v) = d + 1 /\ (d + 1) + 1 = d + 2
      BY <1>2 DEF Ends
    <3>2. u.ended = [t \in Transfers |->
                       IF t \in d + 2 .. n THEN IF t = d + 2 THEN "completed" ELSE "completed"
                       ELSE v.ended[t]]
      BY <1>1, <3>1 DEF Ends
    <3>3. v.ended = [t \in Transfers |->
                       IF t \in d + 1 .. d + 1 THEN IF t = d + 1 THEN how ELSE how
                       ELSE s.ended[t]]
      BY DEF Ends
    <3> QED
      BY <3>2, <3>3
  <2> HIDE DEF d
  <2>3. \A t \in Transfers :
          (IF t \in d + 2 .. n THEN "completed"
           ELSE IF t \in d + 1 .. d + 1 THEN how ELSE s.ended[t])
          = (IF t \in d + 1 .. n THEN IF t = d + 1 THEN how ELSE "completed" ELSE s.ended[t])
    BY <1>1, <1>2 DEF Transfers
  <2> QED
    BY <2>1, <2>2, <2>3 DEF Ends, d
<1> QED
  BY <1>1, <1>3 DEF Moved

\* The head ends, and if the queue was not empty the next transfer begins.
LEMMA PopThenStart ==
  ASSUME NEW s, Steady(s), NEW how \in ByItself, NEW over, NEW u,
         Record(over), over.what = Pop(s, how).what, over.queue = Pop(s, how).queue,
         over.ended = Pop(s, how).ended, over.backend = Pop(s, how).backend,
         over.wrecked = Pop(s, how).wrecked,
         u \in IF over.wrecked THEN {over} ELSE StartNext(over)
  PROVE  Moved(u, s)
<1> DEFINE p == Pop(s, how)
<1>1. /\ Record(p) /\ Lined(p) /\ (s.queue = <<>> => p.wrecked /\ Same(p, s))
      /\ s.queue # <<>> => /\ p.wrecked = s.wrecked /\ Done(s) + 1 <= Len(s.what)
                           /\ Ends(p, s, Done(s) + 1, how, how)
  BY PopMoves DEF Steady
<1>2. /\ over.what = p.what /\ over.queue = p.queue /\ over.ended = p.ended
      /\ over.backend = p.backend /\ over.wrecked = p.wrecked
  OBVIOUS
<1> HIDE DEF p
<1>3. Done(over) = Done(p)
  BY <1>2 DEF Done
<1>4. Lined(over)
  BY <1>1, <1>2, <1>3 DEF Lined, Ordered
<1>5. CASE s.queue = <<>>
  BY <1>1, <1>2, <1>3, <1>5 DEF Moved, Same
<1>6. CASE s.queue # <<>>
  <2>1. /\ Done(s) + 1 <= Len(s.what) /\ Ends(over, s, Done(s) + 1, how, how)
        /\ ~over.wrecked
    BY <1>1, <1>2, <1>3, <1>6 DEF Ends, Steady
  <2>2. u \in StartNext(over) /\ Ordered(s)
    BY <2>1 DEF Steady, Lined
  <2> QED
    BY <1>4, <2>1, <2>2, EndThenStart
<1> QED
  BY <1>5, <1>6

LEMMA FinishMoves ==
  ASSUME NEW s, Steady(s), NEW manifest
  PROVE  Carries(s, Finish(s, manifest))
<1> DEFINE p == Pop(s, "completed")
           wrong == {e \in ToSet(manifest) : s.told[e] # IF e \in s.skip THEN 0 ELSE 1}
           untold == p.untold \union wrong
           over == [p EXCEPT !.untold = untold, !.log = "idle"]
<1> SUFFICES ASSUME NEW u \in Finish(s, manifest) PROVE Moved(u, s)
  BY DEF Carries
<1>1. u \in IF over.wrecked THEN {over} ELSE StartNext(over)
  BY DEF Finish
<1>2. Record(p)
  BY PopMoves DEF Steady
<1> HIDE DEF untold, p
<1>3. /\ Record(over) /\ over.what = p.what /\ over.queue = p.queue /\ over.ended = p.ended
      /\ over.backend = p.backend /\ over.wrecked = p.wrecked
  BY <1>2, Names DEF Record
<1> HIDE DEF over
<1> QED
  BY <1>1, <1>3, PopThenStart DEF ByItself, p

LEMMA GiveUpMoves ==
  ASSUME NEW s, Steady(s)
  PROVE  Carries(s, GiveUp(s))
<1> DEFINE p == Pop(s, "failed")
           over == [p EXCEPT !.active = FALSE]
<1> SUFFICES ASSUME NEW u \in GiveUp(s) PROVE Moved(u, s)
  BY DEF Carries
<1>1. u \in IF over.wrecked THEN {over} ELSE StartNext(over)
  BY DEF GiveUp
<1>2. Record(p)
  BY PopMoves DEF Steady
<1> HIDE DEF p
<1>3. /\ Record(over) /\ over.what = p.what /\ over.queue = p.queue /\ over.ended = p.ended
      /\ over.backend = p.backend /\ over.wrecked = p.wrecked
  BY <1>2, Names DEF Record
<1> HIDE DEF over
<1> QED
  BY <1>1, <1>3, PopThenStart DEF ByItself, p

LEMMA NoBackendMoves ==
  ASSUME NEW s, Steady(s), ~s.backend
  PROVE  Carries(s, {[s EXCEPT !.active = FALSE]})
<1> DEFINE u == [s EXCEPT !.active = FALSE]
<1>1. s.queue = <<>> /\ Record(s)
  BY DEF Steady, Lined, Ordered
<1>2. /\ Record(u) /\ u.what = s.what /\ u.queue = s.queue /\ u.ended = s.ended
      /\ u.wrecked = s.wrecked /\ ~u.active
  BY <1>1, Names DEF Record
<1> HIDE DEF u
<1>3. Done(u) = Done(s)
  BY <1>2 DEF Done
<1>4. Steady(u) /\ Same(u, s)
  BY <1>1, <1>2, <1>3 DEF Steady, Lined, Ordered, Same
<1> QED
  BY <1>4 DEF Carries, Moved, u

LEMMA SteadyAlike ==
  ASSUME NEW s, Steady(s)
  PROVE  Record(s) /\ Alike(s, s) /\ \A u : Alike(u, s) => Steady(u) /\ Carries(s, {u})
<1>1. Record(s)
  BY DEF Steady, Lined, Ordered
<1>2. Alike(s, s)
  BY <1>1 DEF Alike
<1> QED
  BY <1>1, <1>2, StillSteady DEF Carries

LEMMA NextFileMoves ==
  ASSUME NEW s, Steady(s)
  PROVE  Carries(s, NextFile(s))
<1>1. CASE s.cancelled
  BY <1>1, SteadyAlike DEF NextFile
<1>2. CASE ~s.cancelled /\ ~s.backend
  BY <1>2, NoBackendMoves DEF NextFile
<1>3. CASE ~s.cancelled /\ s.backend /\ s.idx > Len(s.down)
  BY <1>3, FinishMoves DEF NextFile
<1>4. CASE ~s.cancelled /\ s.backend /\ ~(s.idx > Len(s.down))
  <2>1. NextFile(s) = {Read(s, s.down[s.idx])}
    BY <1>4 DEF NextFile
  <2>2. Alike(Read(s, s.down[s.idx]), s)
    BY SteadyAlike, SmallSteps
  <2> QED
    BY <2>1, <2>2, SteadyAlike
<1> QED
  BY <1>1, <1>2, <1>3, <1>4

\* A call is made and the log shown.
LEMMA CallShown ==
  ASSUME NEW s, Record(s), NEW kind, NEW X
  PROVE  Alike(Shown(Make(s, kind, X)), s)
<1> DEFINE v == Make(s, kind, X)
<1>1. Alike(v, s)
  BY SmallSteps
<1> HIDE DEF v
<1>2. Alike(Shown(v), v)
  BY <1>1, SmallSteps DEF Alike
<1> QED
  BY <1>1, <1>2, AlikeAgain DEF v

LEMMA ArchiveMoves ==
  ASSUME NEW s, Steady(s), NEW t
  PROVE  Carries(s, CreateArchive(s, t)) /\ (s.tar \in {"unknown", "yes", "no"} =>
         Carries(s, DownloadViaArchive(s, t)))
<1> DEFINE X == {<<t>>}
           a == Shown(Make(s, "tar", X))
           b == Make(s, "probe", X)
<1>1. CreateArchive(s, t) = {a}
  BY DEF CreateArchive
<1>2. DownloadViaArchive(s, t) = CASE s.tar = "yes"     -> {a}
                                   [] s.tar = "no"      -> NextFile(s)
                                   [] s.tar = "unknown" -> {b}
  BY <1>1 DEF DownloadViaArchive
<1> HIDE DEF X
<1>3. Alike(a, s) /\ Alike(b, s)
  BY SteadyAlike, SmallSteps, CallShown
<1> HIDE DEF a, b
<1>4. Carries(s, {a}) /\ Carries(s, {b}) /\ Carries(s, NextFile(s))
  BY <1>3, SteadyAlike, NextFileMoves
<1> QED
  BY <1>1, <1>2, <1>4

LEMMA WalkDoneMoves ==
  ASSUME NEW s, Steady(s), NEW t, s.tar \in {"unknown", "yes", "no"}, s.down \in Seq(Entries)
  PROVE  Carries(s, WalkDone(s, t))
<1>1. Len(s.down) \in Nat
  BY LenProperties
<1>2. s.down = <<>> <=> Len(s.down) = 0
  BY EmptySeq
<1>3. Len(s.down) = 0 \/ Len(s.down) = 1 \/ Len(s.down) >= 2
  <2>1. \A n \in Nat : n = 0 \/ n = 1 \/ n >= 2
    OBVIOUS
  <2> QED
    BY <1>1, <2>1
<1> QED
  BY <1>2, <1>3, FinishMoves, NextFileMoves, ArchiveMoves DEF WalkDone

LEMMA UploadNextMoves ==
  ASSUME NEW s, Steady(s)
  PROVE  Carries(s, UploadNext(s))
<1>1. CASE s.cancelled
  BY <1>1, SteadyAlike DEF UploadNext
<1>2. CASE ~s.cancelled /\ ~s.backend
  BY <1>2, NoBackendMoves DEF UploadNext
<1>3. CASE ~s.cancelled /\ s.backend /\ s.uidx > Len(s.up)
  BY <1>3, FinishMoves DEF UploadNext
<1>4. CASE ~s.cancelled /\ s.backend /\ ~(s.uidx > Len(s.up))
  <2> SUFFICES ASSUME NEW u \in UploadNext(s) PROVE Moved(u, s)
    BY DEF Carries
  <2>1. PICK j, told, kind :
          u \in IF j > Len(s.up) THEN Finish([s EXCEPT !.uidx = j, !.told = told], s.up)
                ELSE {Shown(Make([s EXCEPT !.uidx = j, !.told = told], kind, {s.up[j]}))}
    BY <1>4 DEF UploadNext
  <2> DEFINE v == [s EXCEPT !.uidx = j, !.told = told]
             X == {s.up[j]}
  <2>2. Alike(v, s)
    BY SteadyAlike, Names DEF Alike, Record
  <2>3. u \in Finish(v, s.up) \/ u = Shown(Make(v, kind, X))
    BY <2>1
  <2> HIDE DEF v, X
  <2>4. Steady(v) /\ Record(v)
    BY <2>2, SteadyAlike
  <2>5. Alike(Shown(Make(v, kind, X)), s)
    BY <2>2, <2>4, CallShown, AlikeAgain
  <2>6. Carries(s, Finish(v, s.up))
    BY <2>2, <2>4, FinishMoves, CarriedOn
  <2> QED
    BY <2>3, <2>5, <2>6, StillSteady DEF Carries
<1> QED
  BY <1>1, <1>2, <1>3, <1>4

LEMMA UploadMoves ==
  ASSUME NEW s, Steady(s), NEW e
  PROVE  Carries(s, Upload(s, e))
<1> DEFINE X == {e}
           a == Make(s, "write", X)
           v == Tell(s, e)
           w == [v EXCEPT !.uidx = @ + 1]
           uidx == v.uidx + 1
<1>1. Upload(s, e) = {a} \union UploadNext(w)
  BY DEF Upload
<1>2. w = [v EXCEPT !.uidx = uidx]
  OBVIOUS
<1> HIDE DEF X, w, uidx, v
<1>3. Alike(a, s) /\ Alike(v, s)
  BY SteadyAlike, SmallSteps DEF v
<1>4. Alike(w, v)
  BY <1>2, <1>3, Names DEF Alike, Record
<1>5. Alike(w, s)
  BY <1>3, <1>4, AlikeAgain
<1> HIDE DEF a
<1>6. Carries(s, {a}) /\ Carries(s, UploadNext(w))
  BY <1>3, <1>5, SteadyAlike, UploadNextMoves, CarriedOn
<1> QED
  BY <1>1, <1>6, CarriesBoth

LEMMA ShowDialogAlike ==
  ASSUME NEW s, Record(s)
  PROVE  Alike(ShowDialog(s), s)
<1> DEFINE listeners == s.listeners - 1
           dialogs == <<Conflicts(s)>> \o s.dialogs
           u == ShowDialog(s)
<1>1. u = IF s.listeners = 0 THEN [s EXCEPT !.unheard = TRUE]
          ELSE [s EXCEPT !.listeners = listeners, !.dialogs = dialogs]
  BY DEF ShowDialog
<1> HIDE DEF listeners, dialogs, u
<1>2. Alike([s EXCEPT !.unheard = TRUE], s)
  BY Names DEF Alike, Record
<1>3. Alike([s EXCEPT !.listeners = listeners, !.dialogs = dialogs], s)
  BY Names DEF Alike, Record
<1> QED
  BY <1>1, <1>2, <1>3 DEF u

\* Wherever the manager breaks, the queue is as it was.
LEMMA WreckMoves ==
  ASSUME NEW s, Record(s)
  PROVE  Carries(s, {[s EXCEPT !.wrecked = TRUE]})
<1> DEFINE u == [s EXCEPT !.wrecked = TRUE]
<1>1. u.what = s.what /\ u.queue = s.queue /\ u.ended = s.ended /\ u.wrecked
  BY Names DEF Record
<1> HIDE DEF u
<1>2. Done(u) = Done(s)
  BY <1>1 DEF Done
<1> QED
  BY <1>1, <1>2 DEF Carries, Moved, Same, u

LEMMA ResolveMoves ==
  ASSUME NEW s, Steady(s)
  PROVE  Carries(s, Resolve(s))
<1> DEFINE v == [s EXCEPT !.skip = {}, !.uidx = 1]
<1>1. \/ Resolve(s) = UploadNext(v)
      \/ Resolve(s) = {[s EXCEPT !.wrecked = TRUE]}
      \/ Resolve(s) = {ShowDialog(s)}
  BY DEF Resolve
<1>2. Alike(v, s)
  BY SteadyAlike, Names DEF Alike, Record
<1> HIDE DEF v
<1>3. Carries(s, UploadNext(v))
  BY <1>2, SteadyAlike, UploadNextMoves, CarriedOn
<1>4. Carries(s, {ShowDialog(s)}) /\ Carries(s, {[s EXCEPT !.wrecked = TRUE]})
  BY SteadyAlike, ShowDialogAlike, WreckMoves
<1> QED
  BY <1>1, <1>3, <1>4

\* What a walk decides on.
Walkable(s) == s.down \in Seq(Entries) /\ s.tar \in {"unknown", "yes", "no"}

LEMMA CountedMoves ==
  ASSUME NEW s, Steady(s), Walkable(s), NEW t, NEW more
  PROVE  Carries(s, Counted(s, t, more))
<1> DEFINE left == [s.left EXCEPT ![t] = @ - 1 + more]
           v == [s EXCEPT !.left = left]
<1>1. Counted(s, t, more) = IF v.left[t] = 0 THEN WalkDone(v, t) ELSE {v}
  BY DEF Counted
<1> HIDE DEF left
<1>2. Alike(v, s) /\ v.down = s.down /\ v.tar = s.tar
  BY SteadyAlike, Names DEF Alike, Record
<1> HIDE DEF v
<1>3. Carries(s, WalkDone(v, t)) /\ Carries(s, {v})
  BY <1>2, SteadyAlike, WalkDoneMoves, CarriedOn DEF Walkable
<1> QED
  BY <1>1, <1>3

LEMMA WalkSteps ==
  ASSUME NEW s, Record(s), Walkable(s), NEW f \in Folders
  PROVE  /\ \A kind, X : Walkable(Make(s, kind, X))
         /\ \A n \in 0 .. MaxFiles : Walkable(Gain(s, f, n))
<1>1. ASSUME NEW kind, NEW X PROVE Walkable(Make(s, kind, X))
  <2> DEFINE calls == s.calls (+) SetToBag({<<kind, x>> : x \in X})
             u == Make(s, kind, X)
  <2>1. u = [s EXCEPT !.calls = calls]
    BY DEF Make
  <2> HIDE DEF calls, u
  <2>2. u.down = s.down /\ u.tar = s.tar
    BY <2>1, Names DEF Record
  <2> QED
    BY <2>2 DEF Walkable, u
<1>2. ASSUME NEW n \in 0 .. MaxFiles PROVE Walkable(Gain(s, f, n))
  <2> DEFINE more == Found(f, n)
             down == s.down \o more
             u == Gain(s, f, n)
  <2>1. \A i \in 1 .. n : <<f[1], f[2], i>> \in Entries
    BY BoundsAreReal DEF Entries, Folders
  <2>2. n \in Nat
    BY BoundsAreReal
  <2>3. more \in Seq(Entries)
    BY <2>1, <2>2 DEF Found
  <2> HIDE DEF more
  <2>4. down \in Seq(Entries)
    BY <2>3, ConcatProperties DEF Walkable
  <2>5. u = [s EXCEPT !.down = down]
    BY DEF Gain, more
  <2> HIDE DEF down, u
  <2>6. u.down = down /\ u.tar = s.tar
    BY <2>5, Names DEF Record
  <2> QED
    BY <2>4, <2>6 DEF Walkable, u
<1> QED
  BY <1>1, <1>2

LEMMA GainCounts ==
  ASSUME NEW s, Steady(s), Walkable(s), NEW f \in Folders, NEW n \in 0 .. MaxFiles, NEW more
  PROVE  Carries(s, Counted(Gain(s, f, n), f[1], more))
<1> DEFINE v == Gain(s, f, n)
<1>1. Alike(v, s) /\ Walkable(v)
  BY SteadyAlike, SmallSteps, WalkSteps
<1> HIDE DEF v
<1>2. Carries(v, Counted(v, f[1], more))
  BY <1>1, SteadyAlike, CountedMoves
<1> QED
  BY <1>1, <1>2, CarriedOn DEF v

LEMMA CallCounts ==
  ASSUME NEW s, Steady(s), Walkable(s), NEW f \in Folders, NEW kind, NEW more
  PROVE  /\ Carries(s, Counted(Make(s, kind, {f}), f[1], more))
         /\ \A n \in 0 .. MaxFiles : Carries(s, Counted(Gain(Make(s, kind, {f}), f, n), f[1], more))
<1> DEFINE X == {f}
           v == Make(s, kind, X)
<1> HIDE DEF X
<1>1. Alike(v, s) /\ Walkable(v)
  BY SteadyAlike, SmallSteps, WalkSteps
<1> HIDE DEF v
<1>2. Carries(v, Counted(v, f[1], more))
  BY <1>1, SteadyAlike, CountedMoves
<1>3. \A n \in 0 .. MaxFiles : Carries(v, Counted(Gain(v, f, n), f[1], more))
  BY <1>1, SteadyAlike, GainCounts
<1> QED
  BY <1>1, <1>2, <1>3, CarriedOn DEF v, X

LEMMA WalkMoves ==
  ASSUME NEW s, Steady(s), Walkable(s), NEW f \in Folders
  PROVE  /\ Carries(s, AfterParent(s, f)) /\ Carries(s, AfterFind(s, f))
         /\ Carries(s, AfterListing(s, f)) /\ Carries(s, AfterIgnore(s, f))
<1>0. 1 \in 0 .. MaxFiles
  BY BoundsAreReal
<1>1. Carries(s, Counted(s, f[1], 0))
  BY CountedMoves
<1>2. \A n \in 0 .. MaxFiles : Carries(s, Counted(Gain(s, f, n), f[1], 0))
  BY GainCounts
<1>3. Carries(s, UNION {Counted(Gain(s, f, n), f[1], 0) : n \in 0 .. MaxFiles})
  BY <1>2 DEF Carries
<1>4. Carries(s, AfterParent(s, f))
  <2> DEFINE A == Counted(s, f[1], 0)
             B == Counted(Gain(s, f, 1), f[1], 0)
             kind == IF s.what[f[1]] = "filtered" THEN "listing" ELSE "find"
             C == Counted(Make(s, kind, {f}), f[1], 1)
  <2>1. AfterParent(s, f) = (A \union B) \union C
    BY DEF AfterParent
  <2> HIDE DEF kind
  <2>2. Carries(s, C)
    BY CallCounts
  <2>3. Carries(s, B)
    BY <1>0, <1>2
  <2>4. Carries(s, A)
    BY <1>1
  <2> HIDE DEF A, B, C
  <2>5. Carries(s, A \union B)
    BY <2>3, <2>4, CarriesBoth
  <2> QED
    BY <2>1, <2>2, <2>5, CarriesBoth
<1>5. Carries(s, AfterFind(s, f))
  <2> DEFINE X == {f}
             a == Make(s, "listing", X)
             U == UNION {Counted(Gain(s, f, n), f[1], 0) : n \in 0 .. MaxFiles}
  <2>1. AfterFind(s, f) = {a} \union U
    BY DEF AfterFind
  <2> HIDE DEF X, U
  <2>2. Alike(a, s)
    BY SteadyAlike, SmallSteps
  <2> HIDE DEF a
  <2>3. Carries(s, {a}) /\ Carries(s, U)
    BY <1>3, <2>2, SteadyAlike DEF U
  <2> QED
    BY <2>1, <2>3, CarriesBoth
<1>6. Carries(s, AfterListing(s, f))
  <2> DEFINE A == Counted(s, f[1], 0)
             U == UNION {Counted(Gain(s, f, n), f[1], 0) : n \in 0 .. MaxFiles}
             V == UNION {Counted(Gain(Make(s, "ignore", {f}), f, n), f[1], 1) : n \in 0 .. MaxFiles}
  <2>1. AfterListing(s, f) = (A \union U) \union (IF s.what[f[1]] = "filtered" THEN V ELSE {})
    BY DEF AfterListing
  <2>2. Carries(s, V)
    <3>1. \A n \in 0 .. MaxFiles : Carries(s, Counted(Gain(Make(s, "ignore", {f}), f, n), f[1], 1))
      BY CallCounts
    <3> QED
      BY <3>1 DEF Carries
  <2>3. Carries(s, A) /\ Carries(s, U) /\ Carries(s, {})
    BY <1>1, <1>3 DEF Carries
  <2> HIDE DEF A, U, V
  <2>4. Carries(s, A \union U)
    BY <2>3, CarriesBoth
  <2> QED
    BY <2>1, <2>2, <2>3, <2>4, CarriesBoth
<1>7. Carries(s, AfterIgnore(s, f))
  BY <1>1 DEF AfterIgnore
<1> QED
  BY <1>4, <1>5, <1>6, <1>7

\* What a callback leaves after a cancel.
LEMMA DroppedMoves ==
  ASSUME NEW s, Steady(s), NEW x
  PROVE  /\ Carries(s, OneLess(s, x)) /\ Carries(s, KeepProbe(s, x)) /\ Carries(s, Nothing(s, x))
         /\ Carries(s, ReadOver(s, x)) /\ Carries(s, KeepFolder(s, x))
         /\ \A u \in Probed(s) \union ReadOver(s, x) \union KeepFolder(s, x) : Alike(u, s)
<1>0. Record(s) /\ Alike(s, s)
  BY SteadyAlike
<1>1. \A u \in OneLess(s, x) : Alike(u, s)
  <2> DEFINE left == [s.left EXCEPT ![x[1]] = @ - 1]
             u == [s EXCEPT !.left = left]
  <2>1. OneLess(s, x) = {u}
    BY DEF OneLess
  <2> HIDE DEF left
  <2>2. Alike(u, s)
    BY <1>0, Names DEF Alike, Record
  <2> QED
    BY <2>1, <2>2
<1>2. \A u \in Probed(s) : Alike(u, s)
  <2>1. Alike([s EXCEPT !.tar = "yes"], s) /\ Alike([s EXCEPT !.tar = "no"], s)
    BY <1>0, Names DEF Alike, Record
  <2> QED
    BY <2>1 DEF Probed
<1>3. \A u \in ReadOver(s, x) : Alike(u, s)
  <2>1. Alike([s EXCEPT !.reading = NoRead], s)
    BY <1>0, Names DEF Alike, Record
  <2> QED
    BY <2>1 DEF ReadOver
<1>4. \A u \in KeepFolder(s, x) : Alike(u, s)
  <2> DEFINE created == s.created \union {FolderOf(x)}
             u == [s EXCEPT !.created = created]
  <2>1. KeepFolder(s, x) = {u}
    BY DEF KeepFolder
  <2> HIDE DEF created
  <2>2. Alike(u, s)
    BY <1>0, Names DEF Alike, Record
  <2> QED
    BY <2>1, <2>2
<1>5. \A u \in Nothing(s, x) : Alike(u, s)
  BY <1>0 DEF Nothing
<1>6. Carries(s, OneLess(s, x)) /\ Carries(s, Nothing(s, x))
  BY <1>1, <1>5, CarriesSelf
<1>7. Carries(s, KeepProbe(s, x)) /\ Carries(s, ReadOver(s, x)) /\ Carries(s, KeepFolder(s, x))
  BY <1>2, <1>3, <1>4, CarriesSelf DEF KeepProbe
<1> QED
  BY <1>2, <1>3, <1>4, <1>6, <1>7

LEMMA ProbeMoves ==
  ASSUME NEW s, Steady(s), NEW x
  PROVE  Carries(s, AfterProbe(s, x))
<1> SUFFICES ASSUME NEW p \in Probed(s)
             PROVE  Carries(s, DownloadViaArchive(p, x[1]))
  BY DEF AfterProbe, Carries
<1>1. Alike(p, s)
  BY DroppedMoves
<1>2. p.tar \in {"unknown", "yes", "no"}
  BY SteadyAlike, Names DEF Probed, Record
<1>3. Carries(p, DownloadViaArchive(p, x[1]))
  BY <1>1, <1>2, SteadyAlike, ArchiveMoves
<1> QED
  BY <1>1, <1>3, CarriedOn

LEMMA TarMoves ==
  ASSUME NEW s, Steady(s), NEW x
  PROVE  Carries(s, AfterArchive(s, x))
<1> DEFINE r == [s EXCEPT !.reading = <<"stream", x>>]
           X == {x}
           a == Shown(Make(r, "stream", X))
           A == NextFile(s)
           B == GiveUp(s)
<1>1. AfterArchive(s, x) = (A \union B) \union {a}
  BY DEF AfterArchive
<1>2. Alike(r, s)
  BY SteadyAlike, Names DEF Alike, Record
<1> HIDE DEF r, X
<1>3. Alike(a, r)
  BY <1>2, CallShown DEF Alike
<1> HIDE DEF a
<1>4. Alike(a, s)
  BY <1>2, <1>3, AlikeAgain
<1>5. Carries(s, A) /\ Carries(s, B) /\ Carries(s, {a})
  BY <1>4, NextFileMoves, GiveUpMoves, SteadyAlike
<1> HIDE DEF A, B
<1>6. Carries(s, A \union B)
  BY <1>5, CarriesBoth
<1> QED
  BY <1>1, <1>5, <1>6, CarriesBoth

LEMMA StreamMoves ==
  ASSUME NEW s, Steady(s), NEW x
  PROVE  Carries(s, AfterStream(s, x))
<1> DEFINE over == [s EXCEPT !.reading = NoRead]
           X == {x}
           a == Shown(Make(over, "extract", X))
           A == GiveUp(over)
           W == {[over EXCEPT !.wrecked = TRUE]}
<1>1. AfterStream(s, x) = A \union W \/ AfterStream(s, x) = A \union {a}
  BY DEF AfterStream
<1>2. Alike(over, s)
  BY SteadyAlike, Names DEF Alike, Record
<1> HIDE DEF over, X
<1>3. Steady(over) /\ Record(over)
  BY <1>2, SteadyAlike
<1>4. Alike(a, over)
  BY <1>3, CallShown
<1> HIDE DEF a
<1>5. Carries(over, A) /\ Carries(over, {a}) /\ Carries(over, W)
  BY <1>3, <1>4, GiveUpMoves, SteadyAlike, WreckMoves
<1>6. Carries(s, A) /\ Carries(s, {a}) /\ Carries(s, W)
  BY <1>2, <1>5, CarriedOn
<1> HIDE DEF A, W
<1> QED
  BY <1>1, <1>6, CarriesBoth

LEMMA ExtractMoves ==
  ASSUME NEW s, Steady(s), NEW x
  PROVE  Carries(s, AfterExtract(s, x))
<1> DEFINE v == [s EXCEPT !.idx = 1]
           told == [e \in Entries |-> IF e \in ToSet(s.down) THEN s.told[e] + 1 ELSE s.told[e]]
           w == [s EXCEPT !.told = told]
           A == NextFile(v)
           B == Finish(w, s.down)
<1>1. AfterExtract(s, x) = A \union {} \/ AfterExtract(s, x) = A \union B
  BY DEF AfterExtract
<1> HIDE DEF told
<1>2. Alike(v, s) /\ Alike(w, s)
  BY SteadyAlike, Names DEF Alike, Record
<1> HIDE DEF v, w
<1>3. Carries(v, A) /\ Carries(w, B)
  BY <1>2, SteadyAlike, NextFileMoves, FinishMoves
<1>4. Carries(s, A) /\ Carries(s, B)
  BY <1>2, <1>3, CarriedOn
<1> HIDE DEF A, B
<1> QED
  BY <1>1, <1>4, CarriesBoth

LEMMA ReadMoves ==
  ASSUME NEW s, Steady(s), NEW e
  PROVE  Carries(s, AfterRead(s, e))
<1> DEFINE v == Tell(s, e)
           idx == v.idx + 1
           w == [v EXCEPT !.reading = NoRead, !.idx = @ + 1]
<1>1. AfterRead(s, e) = NextFile(w) /\ w = [v EXCEPT !.reading = NoRead, !.idx = idx]
  BY DEF AfterRead
<1>2. Alike(v, s)
  BY SteadyAlike, SmallSteps
<1> HIDE DEF v, w, idx
<1>3. Alike(w, s)
  BY <1>1, <1>2, Names DEF Alike, Record
<1>4. Carries(w, NextFile(w))
  BY <1>3, SteadyAlike, NextFileMoves
<1> QED
  BY <1>1, <1>3, <1>4, CarriedOn

LEMMA WriteMoves ==
  ASSUME NEW s, Steady(s), NEW e
  PROVE  Carries(s, AfterWrite(s, e)) /\ Carries(s, AfterMkdir(s, e))
<1>1. Carries(s, AfterWrite(s, e))
  <2> DEFINE v == Tell(s, e)
             uidx == v.uidx + 1
             w == [v EXCEPT !.uidx = @ + 1]
  <2>1. AfterWrite(s, e) = UploadNext(w) /\ w = [v EXCEPT !.uidx = uidx]
    BY DEF AfterWrite
  <2>2. Alike(v, s)
    BY SteadyAlike, SmallSteps
  <2> HIDE DEF v, w, uidx
  <2>3. Alike(w, s)
    BY <2>1, <2>2, Names DEF Alike, Record
  <2>4. Carries(w, UploadNext(w))
    BY <2>3, SteadyAlike, UploadNextMoves
  <2> QED
    BY <2>1, <2>3, <2>4, CarriedOn
<1>2. Carries(s, AfterMkdir(s, e))
  <2> SUFFICES ASSUME NEW k \in KeepFolder(s, e) PROVE Carries(s, Upload(k, e))
    BY DEF AfterMkdir, Carries
  <2>1. Alike(k, s)
    BY DroppedMoves
  <2>2. Carries(k, Upload(k, e))
    BY <2>1, SteadyAlike, UploadMoves
  <2> QED
    BY <2>1, <2>2, CarriedOn
<1> QED
  BY <1>1, <1>2

LEMMA ScanMoves ==
  ASSUME NEW s, Steady(s), NEW f
  PROVE  Carries(s, AfterScan(s, f))
<1> DEFINE scans == s.scans - 1
           more == IF f[2] \in there THEN s.listed \union {f} ELSE s.listed
           blind == s.blind \union {f}
           listed == [s EXCEPT !.scans = scans, !.listed = more]
           failed == [s EXCEPT !.scans = scans, !.blind = blind]
<1>1. AfterScan(s, f) = IF s.scans = 1 THEN Resolve(listed) \union Resolve(failed)
                        ELSE {listed} \union {failed}
  BY DEF AfterScan
<1> HIDE DEF scans, more, blind
<1>2. Alike(listed, s) /\ Alike(failed, s)
  BY SteadyAlike, Names DEF Alike, Record
<1> HIDE DEF listed, failed
<1>3. Carries(listed, Resolve(listed)) /\ Carries(failed, Resolve(failed))
  BY <1>2, SteadyAlike, ResolveMoves
<1>4. Carries(s, Resolve(listed)) /\ Carries(s, Resolve(failed))
  BY <1>2, <1>3, CarriedOn
<1>5. Carries(s, {listed}) /\ Carries(s, {failed})
  BY <1>2, SteadyAlike
<1> QED
  BY <1>1, <1>4, <1>5, CarriesBoth

\* A call is answered: its callback finds the queue as the call left it.
LEMMA AnswerFinds ==
  ASSUME Typed(m), Steady(m), NEW kind, NEW x
  PROVE  LET s == Taken(kind, x)
             a == Acts(s, x[1])
         IN /\ Alike(s, m) /\ Steady(s) /\ Alike(a, m) /\ Steady(a) /\ Walkable(a)
<1> DEFINE calls == m.calls (-) SetToBag({<<kind, x>>})
           s == Taken(kind, x)
           crossed == s.crossed \/ s.queue = <<>> \/ Head(s.queue) # x[1]
           a == Acts(s, x[1])
<1>1. s = [m EXCEPT !.calls = calls]
  BY DEF Taken
<1>3. a = [s EXCEPT !.crossed = crossed]
  BY DEF Acts
<1> HIDE DEF calls, s, crossed, a
<1>2. Alike(s, m) /\ s.down = m.down /\ s.tar = m.tar
  BY <1>1, SteadyAlike, Names DEF Alike, Record
<1>4. Alike(a, s) /\ a.down = s.down /\ a.tar = s.tar
  BY <1>2, <1>3, SteadyAlike, Names DEF Alike, Record
<1>5. Alike(a, m)
  BY <1>2, <1>4, AlikeAgain
<1>6. Walkable(a)
  BY <1>2, <1>4, FieldTypes DEF Walkable
<1> QED
  BY <1>2, <1>5, <1>6, SteadyAlike DEF a, s

LEMMA AnswerMoves ==
  ASSUME Typed(m), Steady(m), NEW kind, NEW x, NEW D, NEW O, m' \in D \union O,
         Carries(Taken(kind, x), D), Carries(Acts(Taken(kind, x), x[1]), O)
  PROVE  Moved(m', m)
<1> DEFINE s == Taken(kind, x)
           a == Acts(s, x[1])
<1>1. Alike(s, m) /\ Alike(a, m) /\ Carries(s, D) /\ Carries(a, O)
  BY AnswerFinds
<1> HIDE DEF s, a
<1>2. Carries(m, D) /\ Carries(m, O)
  BY <1>1, CarriedOn
<1> QED
  BY <1>2 DEF Carries

LEMMA CallbackMoves ==
  ASSUME Typed(m), Steady(m),
         \/ ParentListed \/ FindDone \/ FolderListed \/ IgnoreRead
         \/ TarProbed \/ ArchiveCreated \/ ArchiveStreamed \/ ExtractDone
         \/ FileDownloaded \/ ConflictsListed \/ FolderMade \/ FileUploaded
  PROVE  Moved(m', m)
<1>1. CASE ParentListed
  <2> DEFINE s(x) == Taken("parent", x)
             a(x) == Acts(s(x), x[1])
  <2>1. PICK x \in Waiting("parent") : m' \in OneLess(s(x), x) \union AfterParent(a(x), x)
    BY <1>1 DEF ParentListed, Callback
  <2>2. Steady(s(x)) /\ Steady(a(x)) /\ Walkable(a(x)) /\ x \in Folders
    BY AnswerFinds, WaitingTypes DEF FolderKinds
  <2> HIDE DEF s, a
  <2>3. Carries(s(x), OneLess(s(x), x)) /\ Carries(a(x), AfterParent(a(x), x))
    BY <2>2, DroppedMoves, WalkMoves
  <2> QED
    BY <2>1, <2>3, AnswerMoves DEF s, a
<1>2. CASE FindDone
  <2> DEFINE s(x) == Taken("find", x)
             a(x) == Acts(s(x), x[1])
  <2>1. PICK x \in Waiting("find") : m' \in OneLess(s(x), x) \union AfterFind(a(x), x)
    BY <1>2 DEF FindDone, Callback
  <2>2. Steady(s(x)) /\ Steady(a(x)) /\ Walkable(a(x)) /\ x \in Folders
    BY AnswerFinds, WaitingTypes DEF FolderKinds
  <2> HIDE DEF s, a
  <2>3. Carries(s(x), OneLess(s(x), x)) /\ Carries(a(x), AfterFind(a(x), x))
    BY <2>2, DroppedMoves, WalkMoves
  <2> QED
    BY <2>1, <2>3, AnswerMoves DEF s, a
<1>3. CASE FolderListed
  <2> DEFINE s(x) == Taken("listing", x)
             a(x) == Acts(s(x), x[1])
  <2>1. PICK x \in Waiting("listing") : m' \in OneLess(s(x), x) \union AfterListing(a(x), x)
    BY <1>3 DEF FolderListed, Callback
  <2>2. Steady(s(x)) /\ Steady(a(x)) /\ Walkable(a(x)) /\ x \in Folders
    BY AnswerFinds, WaitingTypes DEF FolderKinds
  <2> HIDE DEF s, a
  <2>3. Carries(s(x), OneLess(s(x), x)) /\ Carries(a(x), AfterListing(a(x), x))
    BY <2>2, DroppedMoves, WalkMoves
  <2> QED
    BY <2>1, <2>3, AnswerMoves DEF s, a
<1>4. CASE IgnoreRead
  <2> DEFINE s(x) == Taken("ignore", x)
             a(x) == Acts(s(x), x[1])
  <2>1. PICK x \in Waiting("ignore") : m' \in OneLess(s(x), x) \union AfterIgnore(a(x), x)
    BY <1>4 DEF IgnoreRead, Callback
  <2>2. Steady(s(x)) /\ Steady(a(x)) /\ Walkable(a(x)) /\ x \in Folders
    BY AnswerFinds, WaitingTypes DEF FolderKinds
  <2> HIDE DEF s, a
  <2>3. Carries(s(x), OneLess(s(x), x)) /\ Carries(a(x), AfterIgnore(a(x), x))
    BY <2>2, DroppedMoves, WalkMoves
  <2> QED
    BY <2>1, <2>3, AnswerMoves DEF s, a
<1>5. CASE TarProbed
  <2> DEFINE s(x) == Taken("probe", x)
             a(x) == Acts(s(x), x[1])
  <2>1. PICK x \in Waiting("probe") : m' \in KeepProbe(s(x), x) \union AfterProbe(a(x), x)
    BY <1>5 DEF TarProbed, Callback
  <2>2. Steady(s(x)) /\ Steady(a(x))
    BY AnswerFinds
  <2> HIDE DEF s, a
  <2>3. Carries(s(x), KeepProbe(s(x), x)) /\ Carries(a(x), AfterProbe(a(x), x))
    BY <2>2, DroppedMoves, ProbeMoves
  <2> QED
    BY <2>1, <2>3, AnswerMoves DEF s, a
<1>6. CASE ArchiveCreated
  <2> DEFINE s(x) == Taken("tar", x)
             a(x) == Acts(s(x), x[1])
  <2>1. PICK x \in Waiting("tar") : m' \in Nothing(s(x), x) \union AfterArchive(a(x), x)
    BY <1>6 DEF ArchiveCreated, Callback
  <2>2. Steady(s(x)) /\ Steady(a(x))
    BY AnswerFinds
  <2> HIDE DEF s, a
  <2>3. Carries(s(x), Nothing(s(x), x)) /\ Carries(a(x), AfterArchive(a(x), x))
    BY <2>2, DroppedMoves, TarMoves
  <2> QED
    BY <2>1, <2>3, AnswerMoves DEF s, a
<1>7. CASE ArchiveStreamed
  <2> DEFINE s(x) == Taken("stream", x)
             a(x) == Acts(s(x), x[1])
  <2>1. PICK x \in Waiting("stream") : m' \in ReadOver(s(x), x) \union AfterStream(a(x), x)
    BY <1>7 DEF ArchiveStreamed, Callback
  <2>2. Steady(s(x)) /\ Steady(a(x))
    BY AnswerFinds
  <2> HIDE DEF s, a
  <2>3. Carries(s(x), ReadOver(s(x), x)) /\ Carries(a(x), AfterStream(a(x), x))
    BY <2>2, DroppedMoves, StreamMoves
  <2> QED
    BY <2>1, <2>3, AnswerMoves DEF s, a
<1>8. CASE ExtractDone
  <2> DEFINE s(x) == Taken("extract", x)
             a(x) == Acts(s(x), x[1])
  <2>1. PICK x \in Waiting("extract") : m' \in AfterExtract(s(x), x) \union AfterExtract(a(x), x)
    BY <1>8 DEF ExtractDone, Callback
  <2>2. Steady(s(x)) /\ Steady(a(x))
    BY AnswerFinds
  <2> HIDE DEF s, a
  <2>3. Carries(s(x), AfterExtract(s(x), x)) /\ Carries(a(x), AfterExtract(a(x), x))
    BY <2>2, DroppedMoves, ExtractMoves
  <2> QED
    BY <2>1, <2>3, AnswerMoves DEF s, a
<1>9. CASE FileDownloaded
  <2> DEFINE s(x) == Taken("read", x)
             a(x) == Acts(s(x), x[1])
  <2>1. PICK x \in Waiting("read") : m' \in ReadOver(s(x), x) \union AfterRead(a(x), x)
    BY <1>9 DEF FileDownloaded, Callback
  <2>2. Steady(s(x)) /\ Steady(a(x))
    BY AnswerFinds
  <2> HIDE DEF s, a
  <2>3. Carries(s(x), ReadOver(s(x), x)) /\ Carries(a(x), AfterRead(a(x), x))
    BY <2>2, DroppedMoves, ReadMoves
  <2> QED
    BY <2>1, <2>3, AnswerMoves DEF s, a
<1>10. CASE ConflictsListed
  <2> DEFINE s(x) == Taken("scan", x)
             a(x) == Acts(s(x), x[1])
  <2>1. PICK x \in Waiting("scan") : m' \in Nothing(s(x), x) \union AfterScan(a(x), x)
    BY <1>10 DEF ConflictsListed, Callback
  <2>2. Steady(s(x)) /\ Steady(a(x))
    BY AnswerFinds
  <2> HIDE DEF s, a
  <2>3. Carries(s(x), Nothing(s(x), x)) /\ Carries(a(x), AfterScan(a(x), x))
    BY <2>2, DroppedMoves, ScanMoves
  <2> QED
    BY <2>1, <2>3, AnswerMoves DEF s, a
<1>11. CASE FolderMade
  <2> DEFINE s(x) == Taken("mkdir", x)
             a(x) == Acts(s(x), x[1])
  <2>1. PICK x \in Waiting("mkdir") : m' \in KeepFolder(s(x), x) \union AfterMkdir(a(x), x)
    BY <1>11 DEF FolderMade, Callback
  <2>2. Steady(s(x)) /\ Steady(a(x))
    BY AnswerFinds
  <2> HIDE DEF s, a
  <2>3. Carries(s(x), KeepFolder(s(x), x)) /\ Carries(a(x), AfterMkdir(a(x), x))
    BY <2>2, DroppedMoves, WriteMoves
  <2> QED
    BY <2>1, <2>3, AnswerMoves DEF s, a
<1>12. CASE FileUploaded
  <2> DEFINE s(x) == Taken("write", x)
             a(x) == Acts(s(x), x[1])
  <2>1. PICK x \in Waiting("write") : m' \in Nothing(s(x), x) \union AfterWrite(a(x), x)
    BY <1>12 DEF FileUploaded, Callback
  <2>2. Steady(s(x)) /\ Steady(a(x))
    BY AnswerFinds
  <2> HIDE DEF s, a
  <2>3. Carries(s(x), Nothing(s(x), x)) /\ Carries(a(x), AfterWrite(a(x), x))
    BY <2>2, DroppedMoves, WriteMoves
  <2> QED
    BY <2>1, <2>3, AnswerMoves DEF s, a
<1> QED
  BY <1>1, <1>2, <1>3, <1>4, <1>5, <1>6, <1>7, <1>8, <1>9, <1>10, <1>11, <1>12

LEMMA DialogMoves ==
  ASSUME Typed(m), Steady(m), AcceptDialog \/ DeclineDialog
  PROVE  Moved(m', m)
<1> DEFINE listeners == m.listeners - 1
           dialogs == Tail(m.dialogs)
           g == DialogGone(m)
<1>1. g = [m EXCEPT !.listeners = listeners] \/ g = [m EXCEPT !.dialogs = dialogs]
  BY DEF DialogGone
<1> HIDE DEF listeners, dialogs, g
<1>2. Alike(g, m)
  <2>1. Alike([m EXCEPT !.listeners = listeners], m) /\ Alike([m EXCEPT !.dialogs = dialogs], m)
    BY SteadyAlike, Names DEF Alike, Record
  <2> QED
    BY <1>1, <2>1
<1>3. CASE DeclineDialog
  <2> DEFINE unheard == g.unheard \/ (m.listeners = 0 /\ StillAsked(m) /\ ~m.answered)
             u == [g EXCEPT !.unheard = unheard]
  <2>1. m' = u
    BY <1>3 DEF DeclineDialog, g
  <2> HIDE DEF unheard
  <2>2. Alike(u, g)
    BY <1>2, Names DEF Alike, Record
  <2> HIDE DEF u
  <2>3. Alike(u, m)
    BY <1>2, <2>2, AlikeAgain
  <2> QED
    BY <2>1, <2>3, StillSteady
<1>4. CASE AcceptDialog
  <2>1. PICK skip \in SUBSET Head(m.dialogs) :
          m' \in IF m.cancelled \/ m.queue = <<>> THEN {g}
                ELSE UploadNext([g EXCEPT
                       !.skip = skip, !.uidx = 1, !.answered = TRUE, !.unheard = FALSE,
                       !.crossed = @ \/ m.answered \/ ~StillAsked(m)])
    BY <1>4 DEF AcceptDialog, g
  <2> DEFINE crossed == g.crossed \/ m.answered \/ ~StillAsked(m)
             v == [g EXCEPT !.skip = skip, !.uidx = 1, !.answered = TRUE, !.unheard = FALSE,
                            !.crossed = crossed]
  <2>2. m' = g \/ m' \in UploadNext(v)
    BY <2>1
  <2> HIDE DEF crossed
  <2>3. Alike(v, g)
    BY <1>2, Names DEF Alike, Record
  <2> HIDE DEF v
  <2>4. Alike(v, m)
    BY <1>2, <2>3, AlikeAgain
  <2>5. Carries(m, UploadNext(v))
    BY <2>4, SteadyAlike, UploadNextMoves, CarriedOn
  <2> QED
    BY <1>2, <2>2, <2>5, StillSteady DEF Carries
<1> QED
  BY <1>3, <1>4

\* All that are open end alike.
LEMMA AllOver ==
  ASSUME NEW s, Ordered(s), NEW how, NEW u, Record(u), u.what = s.what, u.queue = <<>>,
         u.ended = [t \in Transfers |-> IF t \in ToSet(s.queue) THEN how ELSE s.ended[t]]
  PROVE  Ordered(u) /\ Ends(u, s, Len(s.what), how, how)
<1> DEFINE q == s.queue
           a == Len(q)
           b == Len(s.what)
           d == Done(s)
<1>1. q \in Seq(Transfers) /\ a \in Nat /\ b \in Nat /\ d + a = b
  <2>1. q \in Seq(Transfers) /\ a \in Nat /\ b \in Nat /\ d = b - a
    BY Counts DEF Ordered, Done
  <2> HIDE DEF q, a, b, d
  <2> QED
    BY <2>1
<1>2. SubSeq(q, 1, a) = q /\ SubSeq(q, a + 1, a) = <<>>
  <2>1. q \in Seq(Transfers) /\ a = Len(q) /\ a \in Nat
    BY <1>1
  <2> HIDE DEF q, a
  <2> QED
    BY <2>1, SubSeqProperties
<1>3. PICK k \in 0 .. Len(s.queue) : k = a
  BY <1>1
<1>4. ToSet(q) = d + 1 .. d + k
  BY <1>2, <1>3, FirstOnes
<1>5. u.queue = SubSeq(s.queue, k + 1, Len(s.queue))
  BY <1>2, <1>3
<1>6. u.ended = [t \in Transfers |->
                   IF t \in Done(s) + 1 .. Done(s) + k THEN how ELSE s.ended[t]]
  BY <1>4
<1>7. Ends(u, s, Done(s) + k, how, how)
  BY <1>5, <1>6, Shortened
<1>8. Ordered(u)
  BY <1>5, <1>6, <1>7, Shortened
<1> QED
  BY <1>1, <1>3, <1>7, <1>8

LEMMA AbandonMoves ==
  ASSUME NEW s, Ordered(s), ~s.wrecked, NEW how, NEW u, Alike(u, Abandon(s, how))
  PROVE  Steady(u) /\ Ends(u, s, Len(s.what), how, how)
<1> DEFINE e == End(s, ToSet(s.queue), how)
           v == Abandon(s, how)
<1>1. v = [e EXCEPT !.cancelled = TRUE, !.active = FALSE, !.queue = <<>>, !.down = <<>>, !.up = <<>>]
  BY DEF Abandon
<1>2. /\ Record(e) /\ e.what = s.what /\ e.wrecked = s.wrecked
      /\ e.ended = [t \in Transfers |-> IF t \in ToSet(s.queue) THEN how ELSE s.ended[t]]
  BY EndsMany
<1> HIDE DEF e, v
<1>3. /\ Record(v) /\ v.what = e.what /\ v.wrecked = e.wrecked /\ v.ended = e.ended
      /\ v.queue = <<>> /\ ~v.active
  BY <1>1, <1>2, Names DEF Record
<1>4. /\ Record(u) /\ u.what = s.what /\ ~u.wrecked /\ u.ended = e.ended
      /\ u.queue = <<>> /\ ~u.active
  BY <1>2, <1>3 DEF Alike, v
<1>5. Ordered(u) /\ Ends(u, s, Len(s.what), how, how)
  BY <1>2, <1>4, AllOver
<1> QED
  BY <1>4, <1>5 DEF Steady, Lined

\* A transfer is asked for.
LEMMA AskedFor ==
  ASSUME Typed(m), Steady(m), NEW kind \in TransferKinds, Len(m.what) < MaxTransfers,
         NEW s, Record(s), s.what = Append(m.what, kind),
         s.queue = Append(m.queue, Len(m.what) + 1),
         s.ended = m.ended, s.active = m.active, s.backend = m.backend, s.wrecked = m.wrecked
  PROVE  /\ Ordered(s) /\ Len(s.what) = Len(m.what) + 1 /\ Done(s) = Done(m)
         /\ s.queue # <<>>
<1> DEFINE q == m.queue
           w == m.what
           a == Len(q)
           b == Len(w)
           d == Done(m)
           r == s.queue
<1>1. /\ q \in Seq(Transfers) /\ w \in Seq(TransferKinds) /\ a \in Nat /\ b \in Nat
      /\ a <= b /\ d = b - a /\ \A i \in 1 .. a : q[i] = d + i
  BY Counts DEF Steady, Lined, Ordered, Done
<1>2. b + 1 \in Transfers
  BY <1>1, BoundsAreReal DEF Transfers
<1>3. /\ r \in Seq(Transfers) /\ Len(r) = a + 1 /\ r[a + 1] = b + 1
      /\ \A i \in 1 .. a : r[i] = q[i]
  <2>1. q \in Seq(Transfers) /\ b + 1 \in Transfers /\ r = Append(q, b + 1)
    BY <1>1, <1>2
  <2> HIDE DEF q, r, b
  <2> QED
    BY <2>1, AppendProperties
<1>4. s.what \in Seq(TransferKinds) /\ Len(s.what) = b + 1
  <2>1. w \in Seq(TransferKinds) /\ s.what = Append(w, kind)
    BY <1>1
  <2> HIDE DEF w
  <2> QED
    BY <2>1, AppendProperties DEF b
<1>5. Done(s) = (b + 1) - (a + 1)
  BY <1>3, <1>4 DEF Done
<1>6. s.ended = m.ended /\ DOMAIN m.ended = Transfers /\ m.ended = [t \in Transfers |-> m.ended[t]]
  BY DEF Steady, Lined, Ordered
<1> HIDE DEF q, w, a, b, d, r
<1>7. (b + 1) - (a + 1) = d /\ a + 1 <= b + 1
  BY <1>1
<1>8. ASSUME NEW i \in 1 .. a + 1 PROVE r[i] = d + i
  <2>1. (i \in 1 .. a \/ i = a + 1) /\ d + (a + 1) = b + 1
    BY <1>1
  <2>2. CASE i \in 1 .. a
    BY <1>1, <1>3, <2>2
  <2>3. CASE i = a + 1
    BY <1>3, <2>1, <2>3
  <2> QED
    BY <2>1, <2>2, <2>3
<1>9. Ordered(s)
  BY <1>3, <1>4, <1>5, <1>6, <1>7, <1>8 DEF Ordered, r
<1>10. r # <<>>
  BY <1>1, <1>3, EmptySeq
<1> QED
  BY <1>4, <1>5, <1>7, <1>9, <1>10 DEF r, d, b, w

LEMMA AskMoves ==
  ASSUME Typed(m), Steady(m), NEW kind \in TransferKinds, Ask(kind)
  PROVE  /\ Steady(m') /\ Len(m.what) < MaxTransfers /\ Len(m'.what) = Len(m.what) + 1
         /\ \/ Done(m') = Done(m) /\ m'.ended = m.ended
            \/ /\ Done(m) = Len(m.what) /\ Done(m') = Len(m.what) + 1
               /\ \E how \in ByItself : m'.ended =
                    [t \in Transfers |-> IF t = Len(m.what) + 1 THEN how ELSE m.ended[t]]
<1> DEFINE b == Len(m.what)
           d == Done(m)
           what == Append(m.what, kind)
           queue == Append(m.queue, b + 1)
           listeners == IF kind = "upload" THEN m.listeners + 1 ELSE m.listeners
           s == [m EXCEPT !.what = what, !.queue = queue, !.listeners = listeners]
<1>1. b < MaxTransfers /\ m' \in IF s.active THEN {s} ELSE StartNext(s)
  BY DEF Ask
<1> HIDE DEF what, queue, listeners
<1>2. /\ Record(s) /\ s.what = what /\ s.queue = queue /\ s.ended = m.ended
      /\ s.active = m.active /\ s.backend = m.backend /\ s.wrecked = m.wrecked
  BY SteadyAlike, Names DEF Record
<1> HIDE DEF s, b, d
<1>3. Ordered(s) /\ Len(s.what) = b + 1 /\ Done(s) = d /\ s.queue # <<>>
  BY <1>1, <1>2, AskedFor DEF b, what, queue, d
<1>4. d \in 0 .. b /\ b \in Nat /\ (m.queue = <<>> <=> d = b) /\ ~m.wrecked /\ ~s.wrecked
  BY <1>2, Counts DEF Steady, Lined, b, d
<1>5. CASE m.active
  <2>1. m' = s
    BY <1>1, <1>2, <1>5
  <2>2. Steady(s)
    BY <1>2, <1>3, <1>4, <1>5 DEF Steady, Lined
  <2> QED
    BY <1>1, <1>2, <1>3, <2>1, <2>2 DEF b, d
<1>6. CASE ~m.active
  <2>1. d = b /\ m' \in StartNext(s)
    <3>1. m.queue = <<>>
      BY <1>6 DEF Steady
    <3> QED
      BY <1>1, <1>2, <1>4, <1>6, <3>1
  <2>2. ASSUME NEW n \in {b, b + 1}, NEW how \in ByItself, Ends(m', s, n, how, how), Steady(m')
        PROVE  /\ Steady(m') /\ Len(m.what) < MaxTransfers /\ Len(m'.what) = Len(m.what) + 1
               /\ \/ Done(m') = Done(m) /\ m'.ended = m.ended
                  \/ /\ Done(m) = Len(m.what) /\ Done(m') = Len(m.what) + 1
                     /\ \E h \in ByItself : m'.ended =
                          [t \in Transfers |-> IF t = Len(m.what) + 1 THEN h ELSE m.ended[t]]
    <3>1. m'.what = s.what /\ Done(m') = n
      BY <2>2 DEF Ends
    <3>2. CASE n = b
      <4>1. m'.ended = [t \in Transfers |-> IF t \in b + 1 .. b THEN how ELSE s.ended[t]]
        BY <1>3, <2>1, <2>2, <3>2 DEF Ends
      <4>2. b + 1 .. b = {}
        BY <1>4
      <4>3. m'.ended = m.ended
        BY <1>2, <1>3, <4>1, <4>2 DEF Ordered
      <4> QED
        BY <1>1, <1>3, <2>1, <2>2, <3>1, <3>2, <4>3 DEF b, d
    <3>3. CASE n = b + 1
      <4>1. m'.ended = [t \in Transfers |-> IF t \in b + 1 .. b + 1 THEN how ELSE m.ended[t]]
        BY <1>2, <1>3, <2>1, <2>2, <3>3 DEF Ends
      <4>2. b + 1 .. b + 1 = {b + 1}
        BY <1>4
      <4>3. m'.ended = [t \in Transfers |-> IF t = b + 1 THEN how ELSE m.ended[t]]
        BY <4>1, <4>2
      <4> QED
        BY <1>1, <1>3, <2>1, <2>2, <3>1, <3>3, <4>3 DEF b, d
    <3> QED
      BY <3>2, <3>3
  <2>3. CASE s.backend
    <3>1. Lined(s)
      BY <1>3, <2>3 DEF Lined
    <3>2. Steady(m') /\ \E n \in d .. b + 1 : Ends(m', s, n, "completed", "completed")
      BY <1>3, <1>4, <2>1, <3>1, StartsMove
    <3>3. d .. b + 1 = {b, b + 1}
      BY <1>4, <2>1
    <3> QED
      BY <2>2, <3>2, <3>3 DEF ByItself
  <2>4. CASE ~s.backend
    <3> DEFINE ts == ToSet(s.queue)
               f == Fresh(s)
               e == End(f, ts, "failed")
               u == [e EXCEPT !.queue = <<>>, !.active = FALSE]
    <3>1. m' = u
      BY <1>3, <2>1, <2>4 DEF StartNext
    <3>2. /\ Record(f) /\ f.what = s.what /\ f.queue = s.queue /\ f.ended = s.ended
          /\ f.backend = s.backend /\ f.wrecked = s.wrecked
      BY <1>2, FreshAlike
    <3> HIDE DEF f, ts
    <3>3. Ordered(f)
      BY <1>3, <3>2 DEF Ordered, Done
    <3>4. /\ Record(e) /\ e.what = s.what /\ e.wrecked = s.wrecked
          /\ e.ended = [t \in Transfers |-> IF t \in ts THEN "failed" ELSE s.ended[t]]
      BY <3>2, <3>3, EndsMany
    <3> HIDE DEF e
    <3>5. /\ Record(u) /\ u.what = s.what /\ u.queue = <<>> /\ ~u.wrecked /\ ~u.active
          /\ u.ended = [t \in Transfers |-> IF t \in ts THEN "failed" ELSE s.ended[t]]
      BY <1>4, <3>4, Names DEF Record
    <3> HIDE DEF u
    <3>6. Ordered(u) /\ Ends(u, s, Len(s.what), "failed", "failed")
      BY <1>3, <3>5, AllOver DEF ts
    <3>7. Steady(u)
      BY <3>5, <3>6 DEF Steady, Lined
    <3> QED
      BY <1>3, <2>2, <3>1, <3>6, <3>7 DEF ByItself
  <2> QED
    BY <2>3, <2>4
<1> QED
  BY <1>5, <1>6

\* The cancels and the losses.
LEMMA StopMoves ==
  ASSUME Steady(m), Typed(m), CloseLog \/ LoseConnection \/ LoseBackend
  PROVE  /\ Steady(m')
         /\ Same(m', m) \/ \E how \in {"cancelled", "lost"} : Ends(m', m, Len(m.what), how, how)
<1>0. Record(m) /\ Ordered(m) /\ ~m.wrecked /\ Alike(m, m)
  BY SteadyAlike DEF Steady, Lined
<1>1. CASE CloseLog
  <2> DEFINE s == [m EXCEPT !.log = "none"]
             over == Abandon(s, "cancelled")
  <2>1. Alike(s, m)
    BY <1>0, Names DEF Alike, Record
  <2>2. m' = s \/ m' \in Cancelled(s)
    BY <1>1 DEF CloseLog
  <2> HIDE DEF s
  <2>3. Ordered(s) /\ ~s.wrecked /\ Done(s) = Done(m) /\ s.what = m.what /\ s.ended = m.ended
    BY <1>0, <2>1, StillSteady DEF Alike
  <2>4. Record(over)
    <3> DEFINE e == End(s, ToSet(s.queue), "cancelled")
    <3>1. over = [e EXCEPT !.cancelled = TRUE, !.active = FALSE,
                           !.queue = <<>>, !.down = <<>>, !.up = <<>>]
      BY DEF Abandon
    <3>2. Record(e)
      BY <2>3, EndsMany
    <3> HIDE DEF e, over
    <3> QED
      BY <3>1, <3>2 DEF Record
  <2>5. CASE m' \in Cancelled(s)
    <3> DEFINE calls == over.calls (-) SetToBag({over.reading})
               v == [over EXCEPT !.calls = calls, !.reading = NoRead]
               w == [over EXCEPT !.reading = NoRead]
    <3>1. m' \in {over, v, w}
      BY <2>5 DEF Cancelled, WithoutRead
    <3> HIDE DEF over, calls
    <3>2. Alike(over, over) /\ Alike(v, over) /\ Alike(w, over)
      BY <2>4, Names DEF Alike, Record
    <3> HIDE DEF v, w
    <3>3. Alike(m', Abandon(s, "cancelled"))
      BY <3>1, <3>2 DEF over
    <3>4. Steady(m') /\ Ends(m', s, Len(s.what), "cancelled", "cancelled")
      BY <2>3, <3>3, AbandonMoves
    <3> QED
      BY <2>3, <3>4 DEF Ends
  <2> QED
    BY <2>1, <2>2, <2>5, StillSteady DEF Same, Alike
<1>2. ASSUME NEW s, Ordered(s), ~s.wrecked, Done(s) = Done(m), s.what = m.what,
             s.ended = m.ended, m' = Abandon(s, "lost")
      PROVE  Steady(m') /\ Ends(m', m, Len(m.what), "lost", "lost")
  <2> DEFINE e == End(s, ToSet(s.queue), "lost")
             over == Abandon(s, "lost")
  <2>1. over = [e EXCEPT !.cancelled = TRUE, !.active = FALSE,
                         !.queue = <<>>, !.down = <<>>, !.up = <<>>]
    BY DEF Abandon
  <2>2. Record(e)
    BY <1>2, EndsMany
  <2> HIDE DEF e, over
  <2>3. Record(over)
    BY <2>1, <2>2 DEF Record
  <2>4. Alike(m', Abandon(s, "lost"))
    BY <1>2, <2>3 DEF Alike, over
  <2>5. Steady(m') /\ Ends(m', s, Len(s.what), "lost", "lost")
    BY <1>2, <2>4, AbandonMoves
  <2> QED
    BY <1>2, <2>5 DEF Ends
<1>3. CASE LoseConnection
  BY <1>0, <1>2, <1>3 DEF LoseConnection
<1>4. CASE LoseBackend
  <2> DEFINE calls == SetToBag({<<"extract", x>> : x \in Waiting("extract")})
             s == [m EXCEPT !.backend = FALSE, !.calls = calls]
  <2>1. m' = IF s.active THEN Abandon(s, "lost") ELSE s
    BY <1>4 DEF LoseBackend
  <2> HIDE DEF calls
  <2>2. /\ Record(s) /\ s.what = m.what /\ s.queue = m.queue /\ s.ended = m.ended
        /\ s.active = m.active /\ s.wrecked = m.wrecked
    BY <1>0, Names DEF Record
  <2> HIDE DEF s
  <2>3. Done(s) = Done(m) /\ Ordered(s)
    BY <1>0, <2>2 DEF Ordered, Done
  <2>4. CASE ~m.active
    <3>1. m.queue = <<>>
      BY <2>4 DEF Steady
    <3>2. Steady(s)
      BY <1>0, <2>2, <2>3, <2>4, <3>1 DEF Steady, Lined
    <3> QED
      BY <2>1, <2>2, <2>3, <2>4, <3>2 DEF Same
  <2> QED
    BY <1>0, <1>2, <2>1, <2>2, <2>3, <2>4
<1> QED
  BY <1>1, <1>3, <1>4

LEMMA NewMoves ==
  ASSUME Steady(m), NewBackend
  PROVE  Steady(m') /\ Same(m', m)
<1> DEFINE n == NewManager
           log == IF m.log = "none" THEN "none" ELSE "idle"
           u == [n EXCEPT !.what = m.what, !.ended = m.ended, !.log = log]
<1>1. m.queue = <<>> /\ m' = u
  BY DEF Steady, Lined, NewBackend
<1>2. Record(n) /\ n.queue = <<>> /\ ~n.active /\ ~n.wrecked
  BY NewGood DEF Typed
<1> HIDE DEF n, log
<1>3. /\ Record(u) /\ u.what = m.what /\ u.ended = m.ended /\ u.queue = m.queue
      /\ ~u.active /\ ~u.wrecked
  BY <1>1, <1>2, Names DEF Record
<1> HIDE DEF u
<1>4. Ordered(u) /\ Done(u) = Done(m)
  BY <1>3 DEF Steady, Lined, Ordered, Done
<1> QED
  BY <1>1, <1>3, <1>4 DEF Steady, Lined, Same

LEMMA NewSteady == Steady(NewManager) /\ Done(NewManager) = 0 /\ NewManager.what = <<>>
                   /\ NewManager.ended = [t \in Transfers |-> "no"]
<1> DEFINE u == NewManager
<1>1. Record(u) /\ u.queue = <<>> /\ ~u.active /\ ~u.wrecked /\ u.what = <<>>
  BY NewGood DEF Typed
<1>2. u.ended = [t \in Transfers |-> "no"]
  BY DEF NewManager
<1> HIDE DEF u
<1>3. Done(u) = 0 /\ Len(u.queue) = 0 /\ Len(u.what) = 0
  BY <1>1, EmptySeq DEF Done
<1>4. <<>> \in Seq(Transfers) /\ <<>> \in Seq(TransferKinds)
  OBVIOUS
<1>5. Ordered(u)
  BY <1>1, <1>2, <1>3, <1>4 DEF Ordered
<1> QED
  BY <1>1, <1>2, <1>3, <1>5 DEF Steady, Lined, u

\* As long as nothing is broken the queue is in order, whatever a late callback did.
QueueInv == Inv /\ (m.wrecked \/ Steady(m))

LEMMA QueueSteps ==
  ASSUME Steady(m)
  PROVE  /\ Same(m', m) => UNCHANGED Queue!vars
         /\ \A n \in Done(m) + 1 .. Len(m.what), how \in ByItself :
              Ends(m', m, n, how, "completed") => Queue!Run
         /\ \A how \in {"cancelled", "lost"} :
              Ends(m', m, Len(m.what), how, how) => Queue!Stop \/ Same(m', m)
<1>0. Done(m) \in 0 .. Len(m.what) /\ Len(m.what) \in Nat
  BY Counts DEF Steady, Lined
<1>1. Same(m', m) => UNCHANGED Queue!vars
  BY DEF Same, Done, Queue!vars
<1>2. ASSUME NEW n, NEW first, NEW rest, Ends(m', m, n, first, rest)
      PROVE  Queue!EndUpTo(n, first, rest) /\ m'.what = m.what
  BY <1>2 DEF Ends, Queue!EndUpTo, Queue!Transfers, Transfers, Done
<1>3. ASSUME NEW n \in Done(m) + 1 .. Len(m.what), NEW how \in ByItself,
             Ends(m', m, n, how, "completed")
      PROVE  Queue!Run
  BY <1>2, <1>3 DEF Queue!Run, Queue!ByItself, ByItself, Done
<1>4. ASSUME NEW how \in {"cancelled", "lost"}, Ends(m', m, Len(m.what), how, how)
      PROVE  Queue!Stop \/ Same(m', m)
  <2>1. CASE Done(m) < Len(m.what)
    BY <1>2, <1>4, <2>1 DEF Queue!Stop, Queue!ByOthers, Done
  <2>2. CASE Done(m) = Len(m.what)
    <3> DEFINE b == Len(m.what)
    <3>1. Done(m') = b /\ m'.what = m.what
          /\ m'.ended = [t \in Transfers |-> IF t \in b + 1 .. b THEN how ELSE m.ended[t]]
      BY <1>4, <2>2 DEF Ends
    <3>2. b + 1 .. b = {}
      BY <1>0
    <3> HIDE DEF b
    <3> QED
      BY <2>2, <3>1, <3>2 DEF Same, Steady, Lined, Ordered, b
  <2> QED
    BY <1>0, <2>1, <2>2
<1> QED
  BY <1>1, <1>3, <1>4

LEMMA QueueStep == QueueInv /\ [Next]_vars => QueueInv' /\ [Queue!Next]_Queue!vars
<1> SUFFICES ASSUME QueueInv, [Next]_vars
             PROVE  QueueInv' /\ [Queue!Next]_Queue!vars
  OBVIOUS
<1>1. Inv'
  BY StepInv DEF QueueInv
<1>2. CASE UNCHANGED vars
  <2>1. m' = m
    BY <1>2 DEF vars
  <2> QED
    BY <1>1, <2>1 DEF QueueInv, Queue!vars
<1>3. CASE Next
  <2>0. Steady(m) /\ Typed(m)
    BY <1>3 DEF Next, QueueInv, Inv, Good
  <2>1. CASE Moved(m', m)
    BY <1>1, <2>0, <2>1, QueueSteps DEF Moved, QueueInv, Queue!Next
  <2>2. CASE CloseLog \/ LoseConnection \/ LoseBackend
    <3>1. Steady(m') /\ (Same(m', m)
            \/ \E how \in {"cancelled", "lost"} : Ends(m', m, Len(m.what), how, how))
      BY <2>0, <2>2, StopMoves
    <3> QED
      BY <1>1, <2>0, <3>1, QueueSteps DEF QueueInv, Queue!Next
  <2>3. CASE NewBackend
    BY <1>1, <2>0, <2>3, NewMoves, QueueSteps DEF QueueInv
  <2>4. ASSUME NEW kind \in TransferKinds, Ask(kind)
        PROVE  Queue!Ask /\ Steady(m')
    <3> DEFINE b == Len(m.what)
    <3>1. /\ Steady(m') /\ b < MaxTransfers /\ Len(m'.what) = b + 1
          /\ \/ Done(m') = Done(m) /\ m'.ended = m.ended
             \/ /\ Done(m) = b /\ Done(m') = b + 1
                /\ \E how \in ByItself : m'.ended =
                     [t \in Transfers |-> IF t = b + 1 THEN how ELSE m.ended[t]]
      BY <2>0, <2>4, AskMoves
    <3>2. CASE Done(m') = Done(m) /\ m'.ended = m.ended
      BY <3>1, <3>2 DEF Queue!Ask, Done
    <3>3. ASSUME NEW how \in ByItself, Done(m) = b, Done(m') = b + 1,
                 m'.ended = [t \in Transfers |-> IF t = b + 1 THEN how ELSE m.ended[t]]
          PROVE  Queue!Ask
      <4> DEFINE last == b + 1
      <4>1. b \in Nat /\ b + 1 .. last = {last}
        BY <2>0, Counts DEF Steady, Lined
      <4> HIDE DEF last
      <4>2. m'.ended = [t \in Transfers |->
                         IF t \in b + 1 .. last THEN IF t = b + 1 THEN how ELSE how ELSE m.ended[t]]
        BY <3>3, <4>1 DEF last
      <4>3. Queue!EndUpTo(b + 1, how, how)
        BY <3>3, <4>2 DEF Queue!EndUpTo, Queue!Transfers, Transfers, Done, last
      <4> QED
        BY <3>1, <3>3, <4>3 DEF Queue!Ask, Queue!ByItself, ByItself, Done
    <3> QED
      BY <3>1, <3>2, <3>3
  <2>5. CASE Answer
    <3>1. Moved(m', m)
      BY <2>0, <2>5, CallbackMoves, DialogMoves DEF Answer
    <3> QED
      BY <2>1, <3>1
  <2> QED
    BY <1>1, <1>3, <2>2, <2>3, <2>4, <2>5 DEF Next, QueueInv, Queue!Next
<1> QED
  BY <1>2, <1>3

\* Transfers end once each and in the order they were asked for, whatever a late
\* callback does, for any number of them.
THEOREM QueueImplemented == Spec => QueueSpec
<1>1. Init => QueueInv /\ Queue!Init
  <2> SUFFICES ASSUME Init PROVE QueueInv /\ Queue!Init
    OBVIOUS
  <2>1. m = NewManager
    BY DEF Init
  <2>2. QueueInv
    BY <2>1, InitInv, NewSteady DEF QueueInv
  <2>3. Len(m.what) = 0
    BY <2>1, NewSteady, EmptySeq
  <2> QED
    BY <2>1, <2>2, <2>3, NewSteady DEF Queue!Init, Queue!Transfers, Transfers, Done
<1>2. QueueInv /\ [Next]_vars => QueueInv' /\ [Queue!Next]_Queue!vars
  BY QueueStep
<1> QED
  BY <1>1, <1>2, PTL DEF Spec, QueueSpec, Queue!Spec
=============================================================================
