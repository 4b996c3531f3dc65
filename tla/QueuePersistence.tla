-------------------------- MODULE QueuePersistence --------------------------
(***************************************************************************)
(* The checkpoint writer of one player (queue_persistence.rs).  A player   *)
(* submits updates without waiting; they are merged into one pending       *)
(* update, and a worker task writes it, retries a failed write with what   *)
(* came meanwhile, and ends when the player is removed.  The removal is a  *)
(* request: it may be dropped, with its client or at a database error,     *)
(* wherever it waits.                                                      *)
(*                                                                         *)
(* A moment of the player is a number; the items shown at moment n are     *)
(* past[n], a number that grows when the queue changes.  The player's own  *)
(* handlers (BrowserPlayer) are reduced to these moments.                  *)
(***************************************************************************)
EXTENDS Integers, Sequences

CONSTANT MaxMoments   \* bound: on the moments a player goes through

ASSUME MomentsAssumption == MaxMoments \in Nat

VARIABLES
  past,     \* the player's moments since the stored one was restored
  disk,     \* the playback row and the queue items in the database
  gone,     \* the player's rows were deleted
  pending,  \* at most one update, what `Pending.update` holds
  stopped,  \* `Pending.stopped`
  wake,     \* the wake channel, of capacity one, holds a token
  worker,   \* where the worker task is
  writing,  \* the update the worker has taken
  removal,  \* where the removal of the player is
  open      \* some handle of the player is left, and with it the channel

queue == <<pending, stopped, wake>>
admin == <<removal, open>>
vars == <<past, disk, gone, queue, worker, writing, admin>>

Update == [queue: BOOLEAN, row: Nat, items: Nat]
Places == {"waiting", "taking", "writing", "retrying", "done"}

\* "stopping": out of the map, the writer not told yet; "waiting": for the
\* worker; "again": the rows went with a second removal, after a dropped one.
Removals == {"none", "stopping", "waiting", "dropped", "again"}

AtMostOne(updates) ==
  updates \subseteq Update /\ \A u, v \in updates : u = v

TypeOK ==
  /\ past \in Seq(Nat) /\ past # <<>>
  /\ disk \in [row: Nat, items: Nat]
  /\ gone \in BOOLEAN /\ stopped \in BOOLEAN /\ wake \in BOOLEAN
  /\ AtMostOne(pending) /\ AtMostOne(writing)
  /\ worker \in Places
  /\ removal \in Removals /\ open \in BOOLEAN

Init ==
  /\ past = <<0>>
  /\ disk = [row |-> 1, items |-> 0]
  /\ gone = FALSE /\ stopped = FALSE /\ wake = FALSE
  /\ pending = {} /\ writing = {}
  /\ worker = "waiting"
  /\ removal = "none" /\ open = TRUE

Now == Len(past)
Items == past[Now]

-----------------------------------------------------------------------------
\* Variant: the newer update wins, and a queue still to be saved is lost.
MergeKeepsNewer(older, newer) == newer

\* A newer cursor must not discard a queue replacement still to be saved.
Merge(older, newer) ==
  IF older.queue /\ ~newer.queue
  THEN [older EXCEPT !.row = newer.row]
  ELSE newer

\* Variant: a busy database lets a backlog build up.
Accumulated(older, newer) == older \cup newer

MergedInto(older, newer) ==
  IF older = {} THEN newer
  ELSE IF newer = {} THEN older
  ELSE {Merge(o, n) : o \in older, n \in newer}

\* Variant: the worker is not woken by an update merged into another.
SubmitWakesFirst(update) ==
  IF stopped THEN UNCHANGED <<pending, wake>>
  ELSE /\ pending' = MergedInto(pending, {update})
       /\ wake' = (wake \/ writing # {})

\* `submit`: a full wake channel already holds the wakeup.
Submit(update) ==
  IF stopped THEN UNCHANGED <<pending, wake>>
  ELSE /\ pending' = MergedInto(pending, {update})
       /\ wake' = TRUE

\* The player goes on, on any handle left: to a new cursor, or a new queue.
ChangePlayback ==
  /\ open /\ Now < MaxMoments
  /\ past' = Append(past, Items)
  /\ Submit([queue |-> FALSE, row |-> Now + 1, items |-> 0])
  /\ UNCHANGED <<disk, gone, stopped, worker, writing, admin>>

ChangeQueue ==
  /\ open /\ Now < MaxMoments
  /\ past' = Append(past, Items + 1)
  /\ Submit([queue |-> TRUE, row |-> Now + 1, items |-> Items + 1])
  /\ UNCHANGED <<disk, gone, stopped, worker, writing, admin>>

-----------------------------------------------------------------------------
(* The worker. *)

Wake ==
  /\ worker = "waiting" /\ wake
  /\ wake' = FALSE
  /\ worker' = "taking"
  /\ UNCHANGED <<past, disk, gone, pending, stopped, writing, admin>>

\* `recv` of a channel whose senders are gone, once it is empty.
WakesNoMore ==
  /\ worker = "waiting" /\ ~wake /\ ~open
  /\ worker' = "done"
  /\ UNCHANGED <<past, disk, gone, queue, writing, admin>>

Take ==
  /\ worker = "taking"
  /\ IF stopped THEN worker' = "done" /\ UNCHANGED <<pending, writing>>
     ELSE /\ worker' = IF pending = {} THEN "waiting" ELSE "writing"
          /\ writing' = pending
          /\ pending' = {}
  /\ UNCHANGED <<past, disk, gone, stopped, wake, admin>>

\* What the database holds once an update is written.
Stored(saved, u) ==
  [row |-> u.row, items |-> IF u.queue THEN u.items ELSE saved.items]

\* One statement, or one transaction when the items are rewritten.
WriteSucceeds ==
  /\ worker = "writing"
  /\ \E u \in writing : disk' = Stored(disk, u)
  /\ writing' = {}
  /\ worker' = "taking"
  /\ UNCHANGED <<past, gone, queue, admin>>

\* Without a handle left there is no second try.
AfterFailure == IF open THEN "retrying" ELSE "done"

\* Variant: the failed update goes in front of what came meanwhile.
RetryForgetsNewer ==
  /\ pending' = writing
  /\ writing' = {}
  /\ worker' = AfterFailure

\* Variant: the failed update is forgotten.
RetryForgetsFailed ==
  /\ pending' = pending
  /\ writing' = {}
  /\ worker' = AfterFailure

\* The latest state, with any unsaved queue, is written again a second later.
Retry ==
  /\ pending' = MergedInto(writing, pending)
  /\ writing' = {}
  /\ worker' = AfterFailure

WriteFails ==
  /\ worker = "writing"
  /\ IF stopped THEN worker' = "done" /\ writing' = {} /\ UNCHANGED pending
     ELSE Retry
  /\ UNCHANGED <<past, disk, gone, stopped, wake, admin>>

RetryTimer ==
  /\ worker = "retrying"
  /\ worker' = "taking"
  /\ UNCHANGED <<past, disk, gone, queue, writing, admin>>

-----------------------------------------------------------------------------
(* Removal and restart. *)

\* `remove`: the player leaves the map.
BeginRemoval ==
  /\ removal = "none"
  /\ removal' = "stopping"
  /\ UNCHANGED <<past, disk, gone, queue, worker, writing, open>>

\* Variant: a worker that waits is not told.
BeginStopSilently ==
  /\ removal = "stopping"
  /\ removal' = "waiting"
  /\ stopped' = TRUE
  /\ pending' = {}
  /\ UNCHANGED <<past, disk, gone, wake, worker, writing, open>>

\* `stop`: what is pending is dropped and the worker is told.
BeginStop ==
  /\ removal = "stopping"
  /\ removal' = "waiting"
  /\ stopped' = TRUE
  /\ pending' = {}
  /\ wake' = TRUE
  /\ UNCHANGED <<past, disk, gone, worker, writing, open>>

\* `stop` returns when the worker has; only then are the rows deleted.
MayDelete == removal = "waiting" /\ worker = "done"

NoRows == [row |-> 0, items |-> 0]

DeleteRows ==
  /\ ~gone /\ MayDelete
  /\ gone' = TRUE
  /\ disk' = NoRows
  /\ UNCHANGED <<past, queue, worker, writing, admin>>

\* The request ends where it waits: its client left, or the database failed.
DropRemoval ==
  /\ ~gone /\ removal \in {"stopping", "waiting"}
  /\ removal' = "dropped"
  /\ UNCHANGED <<past, disk, gone, queue, worker, writing, open>>

\* The last handle of a player out of the map goes, and the channel with it.
DropHandle ==
  /\ open /\ removal \in {"dropped", "again"}
  /\ open' = FALSE
  /\ UNCHANGED <<past, disk, gone, queue, worker, writing, removal>>

\* Asked for again, a removal finds the record and no player to stop.
RemoveAgain ==
  /\ ~gone /\ removal = "dropped"
  /\ removal' = "again"
  /\ gone' = TRUE
  /\ disk' = NoRows
  /\ UNCHANGED <<past, queue, worker, writing, open>>

\* The server stops at any time and comes back with what is stored, a player
\* included whose removal was dropped.
Restart ==
  /\ ~gone
  /\ past' = SubSeq(past, 1, disk.row)
  /\ pending' = {} /\ writing' = {}
  /\ stopped' = FALSE /\ wake' = FALSE
  /\ worker' = "waiting"
  /\ removal' = "none" /\ open' = TRUE
  /\ UNCHANGED <<disk, gone>>

Player == ChangePlayback \/ ChangeQueue
Worker == Wake \/ WakesNoMore \/ Take \/ WriteSucceeds \/ WriteFails
          \/ RetryTimer
Administration == BeginRemoval \/ BeginStop \/ DeleteRows \/ DropRemoval
                  \/ DropHandle \/ RemoveAgain

Next == Player \/ Worker \/ Administration \/ Restart

Spec == Init /\ [][Next]_vars

\* The runtime runs the worker, the database does not fail for ever, and a
\* removal goes on unless it is dropped, which nothing prevents.
Fairness ==
  /\ WF_vars(Wake \/ Take \/ RetryTimer)
  /\ WF_vars(WriteSucceeds \/ WriteFails)
  /\ SF_vars(WriteSucceeds)
  /\ WF_vars(BeginStop \/ DeleteRows)

FairSpec == Spec /\ Fairness
-----------------------------------------------------------------------------
(* What the writer promises. *)

\* The abstract promise: whatever is merged, fails, is retried or crashes,
\* the stored row and items are of one moment of the player, and only move on,
\* and a removal that waited for the writer leaves nothing behind.  Of a second
\* removal, which waits for nothing, only that the rows went once.
Promise == INSTANCE Checkpoints
             WITH saved <- IF removal = "again" THEN NoRows ELSE disk
KeepsPromise == Promise!Spec

\* Until the player is removed, the newest moment is stored, being written
\* or pending; what came meanwhile survives a failed write.
NothingForgotten ==
  ~stopped /\ ~gone =>
    CASE pending # {} -> \A u \in pending : u.row = Now
      [] pending = {} /\ writing # {} -> \A w \in writing : w.row = Now
      [] OTHER -> disk.row = Now

\* Written in their order, the update in hand and the pending one store the
\* items shown at their moment, and neither goes back: a cursor is never
\* stored on top of another queue than the one it was shown with.  Of what is
\* still in hand when a second removal deletes the rows this is not said.
Fits(saved, u) ==
  /\ u.row \in saved.row + 1..Now
  /\ Stored(saved, u).items = past[u.row]

ItemsNotOvertaken ==
  ~gone =>
    /\ \A w \in writing : Fits(disk, w)
    /\ \A u \in pending :
         /\ writing = {} => Fits(disk, u)
         /\ \A w \in writing : Fits(Stored(disk, w), u)

\* Unless the player is being removed or the server restarts, everything it
\* submitted is stored in the end, the last update before a pause included.
EveryChangeIsSaved ==
  \A n \in 1..MaxMoments :
    Now >= n ~> disk.row >= n \/ Now < n \/ removal # "none"

\* A removal waits for the writer and never for ever: it deletes the rows,
\* unless it is dropped, or the server restarts, before it could.
Underway == removal \in {"stopping", "waiting"} /\ ~gone

RemovalCompletes == Underway ~> gone \/ removal \in {"dropped", "none"}
=============================================================================
