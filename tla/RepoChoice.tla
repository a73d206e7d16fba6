----------------------------- MODULE RepoChoice -----------------------------
(***************************************************************************)
(* What GitController promises whoever looks at it: the repository on show *)
(* only ever moves to the one selected last.  At rest a choice is shown at *)
(* once; at work it waits, and choices overtaken while they wait are never *)
(* shown.  A repository that comes on show is read.                        *)
(***************************************************************************)
CONSTANTS
  Repositories,
  None           \* on show until the first repository is found

VARIABLES
  shown,
  wanted,        \* the repository selected last
  resting        \* nothing runs and nothing waits

vars == <<shown, wanted, resting>>

Init == shown = None /\ wanted = None /\ ~resting

Choose(r) ==
  /\ wanted' = r
  /\ shown' \in (IF resting THEN {r} ELSE {shown, r})

Work ==
  /\ wanted' = wanted
  /\ shown' \in {shown, wanted}

Next ==
  /\ Work \/ \E r \in Repositories : Choose(r)
  /\ shown' # shown => ~resting'
  /\ resting' => shown' = wanted'

Spec == Init /\ [][Next]_vars
=============================================================================
