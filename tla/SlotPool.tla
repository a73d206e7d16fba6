------------------------------ MODULE SlotPool ------------------------------
(***************************************************************************)
(* What the channel admission of an SSH session promises, with no queue,   *)
(* no transport and no timer: openers wait, are granted a slot, and leave. *)
(* At most Budget slots are held at once, at most MaxLong of them by       *)
(* long-lived openers (so that a short-lived opener cannot be starved by   *)
(* terminals that never end), and a long-lived opener is granted a slot    *)
(* only while no short-lived one waits.  SshChannels implements it.        *)
(***************************************************************************)
EXTENDS Integers, FiniteSets

CONSTANTS
  Short,    \* openers that hold a slot for a moment (a git command)
  Long,     \* openers that may hold a slot for ever (a terminal, an agent)
  Budget,   \* slots in the pool
  MaxLong   \* slots long-lived openers may hold together

Openers == Short \union Long

VARIABLE standing   \* where each opener stands

PoolTypeOK == standing \in [Openers -> {"new", "waiting", "holding", "left"}]

Holding(S) == {o \in S : standing[o] = "holding"}

Init == standing = [o \in Openers |-> "new"]

Ask(o) ==
  /\ standing[o] = "new"
  /\ standing' = [standing EXCEPT ![o] = "waiting"]

Refuse(o) ==
  /\ standing[o] = "new"
  /\ standing' = [standing EXCEPT ![o] = "left"]

Grant(o) ==
  /\ standing[o] = "waiting"
  /\ Cardinality(Holding(Openers)) < Budget
  /\ o \in Long => /\ Cardinality(Holding(Long)) < MaxLong
                   /\ \A s \in Short : standing[s] # "waiting"
  /\ standing' = [standing EXCEPT ![o] = "holding"]

\* One opener leaves when it is served; all of them may when the session goes.
Leave(S) ==
  /\ \A o \in S : standing[o] \in {"waiting", "holding"}
  /\ standing' = [o \in Openers |-> IF o \in S THEN "left" ELSE standing[o]]

Next ==
  \/ \E o \in Openers : Ask(o) \/ Refuse(o) \/ Grant(o)
  \/ \E S \in SUBSET Openers : Leave(S)

Spec == Init /\ [][Next]_standing
=============================================================================
