----------------------------- MODULE Checkpoints -----------------------------
(***************************************************************************)
(* What a player is promised of its checkpoints: what is stored is always  *)
(* a state the player really was in, items and cursor of the same moment,  *)
(* and never an older one than was stored before.  A restart goes back to  *)
(* the stored state; a removed player leaves nothing behind.               *)
(***************************************************************************)
EXTENDS Integers, Sequences

VARIABLES past,   \* past[n]: the items shown at the player's n-th moment
          saved,  \* the stored moment and the items stored with it
          gone    \* the player was removed

promise == <<past, saved, gone>>

Nothing == [row |-> 0, items |-> 0]
At(n) == [row |-> n, items |-> past[n]]

Init == past = <<0>> /\ saved = [row |-> 1, items |-> 0] /\ gone = FALSE

Change ==
  /\ Len(past') = Len(past) + 1
  /\ SubSeq(past', 1, Len(past)) = past
  /\ UNCHANGED <<saved, gone>>

Save ==
  /\ ~gone
  /\ \E n \in saved.row + 1..Len(past) : saved' = At(n)
  /\ UNCHANGED <<past, gone>>

Restart ==
  /\ ~gone
  /\ past' = SubSeq(past, 1, saved.row)
  /\ UNCHANGED <<saved, gone>>

Remove ==
  /\ gone' = TRUE
  /\ saved' = Nothing
  /\ UNCHANGED past

Next == Change \/ Save \/ Restart \/ Remove

Spec == Init /\ [][Next]_promise
=============================================================================
