---------------------------- MODULE TransferQueue ----------------------------
(***************************************************************************)
(* What RemoteTransferManager promises whoever asks for transfers.  Each   *)
(* ends once, and they end in the order they were asked for: on its own,   *)
(* completed or failed, perhaps with uploads behind it that have nothing   *)
(* to send; or with all that are open, by a cancel or a loss.              *)
(***************************************************************************)
EXTENDS Integers

CONSTANT MaxTransfers   \* bound: transfers the user asks for

VARIABLES
  asked,   \* transfers asked for, numbered in that order
  done,    \* of these, the first so many have ended
  ended    \* how each transfer has ended

vars == <<asked, done, ended>>

Transfers == 1 .. MaxTransfers
ByItself == {"completed", "failed"}
ByOthers == {"cancelled", "lost"}

Init == asked = 0 /\ done = 0 /\ ended = [t \in Transfers |-> "no"]

\* All up to the n-th end, the first of them in its own way.
EndUpTo(n, first, rest) ==
  /\ done' = n
  /\ ended' = [t \in Transfers |->
                 IF t \in done + 1 .. n THEN IF t = done + 1 THEN first ELSE rest ELSE ended[t]]

\* A transfer that is asked for while none is open may end at once.
Ask ==
  /\ asked < MaxTransfers /\ asked' = asked + 1
  /\ \/ UNCHANGED <<done, ended>>
     \/ done = asked /\ \E how \in ByItself : EndUpTo(asked + 1, how, how)

Run ==
  /\ \E n \in done + 1 .. asked, how \in ByItself : EndUpTo(n, how, "completed")
  /\ UNCHANGED asked

Stop ==
  /\ done < asked /\ \E how \in ByOthers : EndUpTo(asked, how, how)
  /\ UNCHANGED asked

Next == Ask \/ Run \/ Stop

Spec == Init /\ [][Next]_vars
=============================================================================
