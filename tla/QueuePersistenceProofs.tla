----------------------- MODULE QueuePersistenceProofs -----------------------
(***************************************************************************)
(* The checkpoint writer keeps its promise for every number of moments:    *)
(* merging two updates stores what writing one after the other would, so   *)
(* that whatever fails and is merged again, the database holds items and   *)
(* cursor of the same moment.                                              *)
(***************************************************************************)
EXTENDS QueuePersistence, SequenceTheorems, TLAPS

\* What is stored is a moment of the player; the writer is done once a removal
\* that waited for it has deleted the rows.
StoredIsPast ==
  /\ ~gone => disk.row \in 1..Now /\ disk.items = past[disk.row]
  /\ gone /\ removal # "again" => stopped /\ worker = "done" /\ disk = NoRows

RemovalFits ==
  /\ gone => removal \in {"waiting", "again"}
  /\ removal = "again" => gone
  /\ removal = "waiting" => stopped

WorkerHolds ==
  /\ worker = "writing" <=> writing # {}
  /\ stopped => pending = {}

USE DEF queue, admin

IInv == TypeOK /\ WorkerHolds /\ StoredIsPast /\ RemovalFits
        /\ NothingForgotten /\ ItemsNotOvertaken

\* Merging two updates is writing them one after the other.
THEOREM MergeIsBoth ==
  ASSUME NEW saved, NEW older \in Update, NEW newer \in Update
  PROVE  Stored(saved, Merge(older, newer))
           = Stored(Stored(saved, older), newer)
BY DEF Stored, Merge, Update

LEMMA Typed ==
  ASSUME TypeOK
  PROVE  /\ Now \in Nat /\ Now >= 1 /\ Items \in Nat
         /\ disk.row \in Nat /\ disk.items \in Nat
         /\ \A n \in 1..Now : past[n] \in Nat
<1>1. past \in Seq(Nat) /\ past # <<>> /\ disk \in [row: Nat, items: Nat]
  BY DEF TypeOK
<1>2. Len(past) \in Nat /\ Len(past) # 0
  BY <1>1, LenProperties, EmptySeq
<1>3. \A n \in 1..Len(past) : past[n] \in Nat
  BY <1>1, ElementOfSeq
<1> QED
  BY <1>1, <1>2, <1>3 DEF Now, Items

LEMMA InitInvariant == Init => IInv
<1> SUFFICES ASSUME Init PROVE IInv
  OBVIOUS
<1>1. past \in Seq(Nat) /\ past # <<>> /\ Len(past) = 1 /\ past[1] = 0
  BY DEF Init
<1>2. TypeOK
  BY <1>1 DEF Init, TypeOK, AtMostOne, Places, Removals
<1> QED
  BY <1>1, <1>2 DEF Init, IInv, WorkerHolds, StoredIsPast, RemovalFits,
                    NothingForgotten, ItemsNotOvertaken, Now

\* A new moment appended keeps the moments before it.
LEMMA Appended ==
  ASSUME TypeOK, NEW items \in Nat, past' = Append(past, items)
  PROVE  /\ past' \in Seq(Nat) /\ past' # <<>>
         /\ Now' = Now + 1 /\ Items' = items
         /\ \A n \in 1..Now : past'[n] = past[n]
<1>1. past \in Seq(Nat) /\ Len(past) \in Nat
  BY LenProperties DEF TypeOK
<1>2. /\ past' \in Seq(Nat) /\ Len(past') = Len(past) + 1
      /\ past'[Len(past) + 1] = items
      /\ \A n \in 1..Len(past) : past'[n] = past[n]
  BY <1>1, AppendProperties
<1>3. past' # <<>>
  BY <1>1, <1>2, EmptySeq
<1> QED
  BY <1>2, <1>3 DEF Now, Items

\* What held of the moments before it still holds.
LEMMA StillPast ==
  ASSUME IInv, ~gone, NEW items \in Nat, past' = Append(past, items),
         UNCHANGED <<disk, gone, stopped, worker, writing, admin>>
  PROVE  /\ StoredIsPast'
         /\ RemovalFits'
         /\ \A w \in writing : Fits(disk, w)'
<1>1. /\ Now \in Nat /\ Now' = Now + 1
      /\ \A n \in 1..Now : past'[n] = past[n]
  BY Appended, Typed DEF IInv
<1>2. disk.row \in Nat
  BY Typed DEF IInv
<1>3. StoredIsPast'
  <2>1. disk.row \in 1..Now /\ disk.items = past[disk.row]
    BY DEF IInv, StoredIsPast
  <2>2. disk.row \in 1..Now'
    BY <1>1, <2>1
  <2> QED
    BY <1>1, <2>1, <2>2 DEF StoredIsPast
<1>4. ASSUME NEW w \in writing PROVE Fits(disk, w)'
  <2>1. /\ w.row \in disk.row + 1..Now
        /\ Stored(disk, w).items = past[w.row]
    BY <1>4 DEF IInv, ItemsNotOvertaken, Fits
  <2>2. w.row \in 1..Now /\ w.row \in disk.row + 1..Now'
    BY <1>1, <1>2, <2>1
  <2> QED
    BY <1>1, <2>1, <2>2 DEF Fits, Stored
<1> QED
  BY <1>3, <1>4 DEF IInv, RemovalFits

\* The update that is pending after a submission: merged, or as submitted.
LEMMA SubmitStep ==
  ASSUME IInv, ~gone, NEW u \in Update, u.row = Now + 1,
         NEW items \in Nat, past' = Append(past, items),
         u.queue => u.items = items, ~u.queue => items = Items,
         Submit(u), UNCHANGED <<disk, gone, stopped, worker, writing, admin>>
  PROVE  IInv'
<1>1. /\ past' \in Seq(Nat) /\ past' # <<>> /\ Now \in Nat
      /\ Now' = Now + 1 /\ past'[Now + 1] = items
      /\ \A n \in 1..Now : past'[n] = past[n]
  BY Appended, Typed DEF IInv, Now, Items
<1>2. CASE stopped
  <2>1. pending = {} /\ pending' = {} /\ wake' = wake
    BY <1>2 DEF IInv, WorkerHolds, Submit
  <2>2. TypeOK'
    BY <1>1, <1>2, <2>1 DEF IInv, TypeOK
  <2>3. WorkerHolds' /\ NothingForgotten'
    BY <1>2, <2>1 DEF IInv, WorkerHolds, NothingForgotten
  <2>4. StoredIsPast' /\ RemovalFits' /\ ItemsNotOvertaken'
    BY <2>1, StillPast DEF ItemsNotOvertaken
  <2> QED
    BY <2>2, <2>3, <2>4 DEF IInv
<1>3. CASE ~stopped
  <2>1. PICK v \in Update :
          /\ pending' = {v} /\ wake' = TRUE
          /\ v.row = Now + 1
          /\ \A w \in writing : Fits(Stored(disk, w), v)'
          /\ writing = {} => Fits(disk, v)'
    <3>1. CASE pending = {}
      <4>1. pending' = {u} /\ wake' = TRUE
        BY <1>3, <3>1 DEF Submit, MergedInto
      <4>2. ASSUME NEW w \in writing PROVE Fits(Stored(disk, w), u)'
        <5>1. Fits(disk, w) /\ w \in Update /\ w.row = Now
          BY <1>3, <3>1, <4>2
             DEF IInv, ItemsNotOvertaken, TypeOK, AtMostOne, NothingForgotten
        <5>2. Stored(disk, w).row = Now /\ Stored(disk, w).items = Items
          BY <5>1 DEF Fits, Stored, Items
        <5> QED
          BY <1>1, <5>2 DEF Fits, Stored
      <4>3. ASSUME writing = {} PROVE Fits(disk, u)'
        <5>1. disk.row = Now /\ disk.items = Items
          BY <1>3, <3>1, <4>3, Typed
             DEF IInv, NothingForgotten, StoredIsPast, Items
        <5> QED
          BY <1>1, <5>1 DEF Fits, Stored
      <4> QED
        BY <4>1, <4>2, <4>3
    <3>2. CASE pending # {}
      <4>1. PICK o \in pending : o \in Update /\ pending = {o} /\ o.row = Now
        BY <1>3, <3>2 DEF IInv, TypeOK, AtMostOne, NothingForgotten
      <4>2. pending' = {Merge(o, u)} /\ wake' = TRUE
        BY <1>3, <4>1 DEF Submit, MergedInto
      <4>3. Merge(o, u) \in Update /\ Merge(o, u).row = Now + 1
        BY <4>1 DEF Merge, Update
      <4>4. ASSUME NEW saved, Fits(saved, o), saved.row \in Nat
            PROVE  /\ Merge(o, u).row \in saved.row + 1..Now'
                   /\ Stored(saved, Merge(o, u)).items = past'[Now + 1]
        <5>1. Stored(saved, o).items = Items
          BY <4>1, <4>4 DEF Fits, Items
        <5>2. Stored(saved, Merge(o, u)) = Stored(Stored(saved, o), u)
          BY <4>1, MergeIsBoth
        <5> QED
          BY <1>1, <4>1, <4>3, <4>4, <5>1, <5>2 DEF Fits, Stored
      <4>5. ASSUME NEW w \in writing PROVE Fits(Stored(disk, w), Merge(o, u))'
        <5>1. Fits(Stored(disk, w), o) /\ w \in Update
          BY <4>1 DEF IInv, ItemsNotOvertaken, TypeOK, AtMostOne
        <5>2. Stored(disk, w).row \in Nat
          BY <5>1 DEF Stored, Update
        <5> QED
          BY <4>3, <4>4, <5>1, <5>2 DEF Fits, Stored
      <4>6. ASSUME writing = {} PROVE Fits(disk, Merge(o, u))'
        <5>1. Fits(disk, o) /\ disk.row \in Nat
          BY <4>1, <4>6, Typed DEF IInv, ItemsNotOvertaken
        <5> QED
          BY <4>3, <4>4, <5>1 DEF Fits, Stored
      <4> QED
        BY <4>2, <4>3, <4>5, <4>6
    <3> QED
      BY <3>1, <3>2
  <2>2. TypeOK'
    BY <1>1, <2>1 DEF IInv, TypeOK, AtMostOne
  <2>3. WorkerHolds'
    BY <1>3 DEF IInv, WorkerHolds
  <2>4. NothingForgotten'
    BY <1>1, <2>1 DEF NothingForgotten
  <2>5. StoredIsPast' /\ RemovalFits' /\ ItemsNotOvertaken'
    BY <2>1, StillPast DEF ItemsNotOvertaken
  <2> QED
    BY <2>2, <2>3, <2>4, <2>5 DEF IInv
<1> QED
  BY <1>2, <1>3

-----------------------------------------------------------------------------
LEMMA PlayerStep ==
  ASSUME IInv, ~gone, Player
  PROVE  IInv'
<1>1. Now \in Nat /\ Items \in Nat /\ Now + 1 \in Nat /\ Items + 1 \in Nat
  BY Typed DEF IInv
<1>2. CASE ChangePlayback
  <2> DEFINE u == [queue |-> FALSE, row |-> Now + 1, items |-> 0]
  <2>1. u \in Update /\ u.row = Now + 1 /\ ~u.queue
    BY <1>1 DEF Update
  <2>2. Submit(u) /\ past' = Append(past, Items)
        /\ UNCHANGED <<disk, gone, stopped, worker, writing, admin>>
    BY <1>2 DEF ChangePlayback
  <2> HIDE DEF u
  <2> QED
    BY <1>1, <2>1, <2>2, SubmitStep
<1>3. CASE ChangeQueue
  <2> DEFINE u == [queue |-> TRUE, row |-> Now + 1, items |-> Items + 1]
  <2>1. u \in Update /\ u.row = Now + 1 /\ u.queue /\ u.items = Items + 1
    BY <1>1 DEF Update
  <2>2. Submit(u) /\ past' = Append(past, Items + 1)
        /\ UNCHANGED <<disk, gone, stopped, worker, writing, admin>>
    BY <1>3 DEF ChangeQueue
  <2> HIDE DEF u
  <2> QED
    BY <1>1, <2>1, <2>2, SubmitStep
<1> QED
  BY <1>2, <1>3 DEF Player

LEMMA TakeStep ==
  ASSUME IInv, ~gone, Take
  PROVE  IInv'
<1>1. writing = {} /\ ~gone
  BY DEF IInv, WorkerHolds, Take
<1>2. CASE stopped
  BY <1>1, <1>2
     DEF IInv, Take, TypeOK, Places, WorkerHolds, StoredIsPast, RemovalFits,
         NothingForgotten, ItemsNotOvertaken, Fits, Now
<1>3. CASE ~stopped
  <2>1. writing' = pending /\ pending' = {} /\ ~stopped'
        /\ worker' = (IF pending = {} THEN "waiting" ELSE "writing")
        /\ UNCHANGED <<past, disk, gone, wake, stopped, admin>>
    BY <1>3 DEF Take
  <2>2. TypeOK'
    BY <1>1, <1>3, <2>1 DEF IInv, TypeOK, AtMostOne, Places, Take
  <2>3. WorkerHolds' /\ StoredIsPast' /\ RemovalFits'
    BY <1>1, <2>1 DEF IInv, WorkerHolds, StoredIsPast, RemovalFits, Now
  <2>4. NothingForgotten'
    BY <1>1, <1>3, <2>1 DEF IInv, NothingForgotten, Now
  <2>5. ItemsNotOvertaken'
    BY <1>1, <2>1 DEF IInv, ItemsNotOvertaken, Fits, Now
  <2> QED
    BY <2>2, <2>3, <2>4, <2>5 DEF IInv
<1> QED
  BY <1>2, <1>3

\* What a write leaves in the database is a moment of the player.
LEMMA WriteStep ==
  ASSUME IInv, ~gone, WriteSucceeds
  PROVE  /\ IInv'
         /\ ~gone /\ disk'.row \in disk.row + 1..Now
         /\ disk' = [row |-> disk'.row, items |-> past[disk'.row]]
<1>1. PICK w \in writing :
        /\ w \in Update /\ writing = {w} /\ disk' = Stored(disk, w)
        /\ Fits(disk, w)
  BY DEF IInv, TypeOK, AtMostOne, ItemsNotOvertaken, WriteSucceeds
<1>2. /\ ~gone /\ writing' = {} /\ worker' = "taking"
      /\ UNCHANGED <<past, gone, queue, admin>>
  BY DEF IInv, StoredIsPast, WriteSucceeds
<1>3. disk.row \in Nat /\ disk.items \in Nat /\ Now \in Nat
  BY Typed DEF IInv
<1>4. /\ disk' \in [row: Nat, items: Nat]
      /\ disk'.row = w.row /\ w.row \in disk.row + 1..Now
      /\ disk' = [row |-> w.row, items |-> past[w.row]]
  BY <1>1, <1>3 DEF Fits, Stored, Update
<1>5. TypeOK'
  BY <1>2, <1>4 DEF IInv, TypeOK, AtMostOne, Places
<1>6. WorkerHolds' /\ StoredIsPast' /\ RemovalFits'
  BY <1>2, <1>3, <1>4 DEF IInv, WorkerHolds, StoredIsPast, RemovalFits, Now
<1>7. NothingForgotten'
  BY <1>1, <1>2, <1>4 DEF IInv, NothingForgotten, Now
<1>8. ItemsNotOvertaken'
  BY <1>1, <1>2 DEF IInv, ItemsNotOvertaken, Fits, Now
<1> QED
  BY <1>2, <1>4, <1>5, <1>6, <1>7, <1>8 DEF IInv

LEMMA FailStep ==
  ASSUME IInv, ~gone, WriteFails
  PROVE  IInv'
<1>1. PICK w \in writing : w \in Update /\ writing = {w} /\ Fits(disk, w)
  BY DEF IInv, WorkerHolds, TypeOK, AtMostOne, ItemsNotOvertaken, WriteFails
<1>2. /\ ~gone /\ writing' = {}
      /\ UNCHANGED <<past, disk, gone, stopped, wake, admin>>
  BY DEF IInv, StoredIsPast, WriteFails, Retry
<1>3. CASE stopped
  BY <1>2, <1>3
     DEF IInv, WriteFails, TypeOK, AtMostOne, Places, WorkerHolds,
         StoredIsPast, RemovalFits, NothingForgotten, ItemsNotOvertaken, Now
<1>4. CASE ~stopped
  <2>1. /\ worker' \in {"retrying", "done"}
        /\ pending' = MergedInto(writing, pending)
    BY <1>4 DEF WriteFails, Retry, AfterFailure
  <2>2. PICK v \in Update : pending' = {v} /\ v.row = Now /\ Fits(disk, v)
    <3>1. CASE pending = {}
      BY <1>1, <1>4, <2>1, <3>1 DEF MergedInto, IInv, NothingForgotten
    <3>2. CASE pending # {}
      <4>1. PICK u \in pending : u \in Update /\ pending = {u} /\ u.row = Now
                                 /\ Fits(Stored(disk, w), u)
        BY <1>1, <1>4, <3>2
           DEF IInv, TypeOK, AtMostOne, NothingForgotten, ItemsNotOvertaken
      <4>2. pending' = {Merge(w, u)}
        BY <1>1, <2>1, <4>1 DEF MergedInto
      <4>3. Merge(w, u) \in Update /\ Merge(w, u).row = Now
        BY <1>1, <4>1 DEF Merge, Update
      <4>4. Stored(disk, Merge(w, u)) = Stored(Stored(disk, w), u)
        BY <1>1, <4>1, MergeIsBoth
      <4>5. Now \in disk.row + 1..Now
        <5>1. disk.row \in Nat /\ Now \in Nat
          BY Typed DEF IInv
        <5>2. w.row \in disk.row + 1..Now
          BY <1>1 DEF Fits
        <5> QED
          BY <5>1, <5>2
      <4>6. Stored(disk, Merge(w, u)).items = past[Now]
        BY <4>1, <4>4 DEF Fits
      <4> QED
        BY <4>2, <4>3, <4>5, <4>6 DEF Fits
    <3> QED
      BY <3>1, <3>2
  <2>3. TypeOK'
    BY <1>2, <2>1, <2>2 DEF IInv, TypeOK, AtMostOne, Places
  <2>4. WorkerHolds' /\ StoredIsPast' /\ RemovalFits'
    BY <1>2, <1>4, <2>1 DEF IInv, WorkerHolds, StoredIsPast, RemovalFits, Now
  <2>5. NothingForgotten'
    BY <1>2, <2>2 DEF NothingForgotten, Now
  <2>6. ItemsNotOvertaken'
    BY <1>2, <2>2 DEF ItemsNotOvertaken, Fits, Now
  <2> QED
    BY <2>3, <2>4, <2>5, <2>6 DEF IInv
<1> QED
  BY <1>3, <1>4

\* A restart takes the player back to the moment that is stored.
LEMMA RestartStep ==
  ASSUME IInv, ~gone, Restart
  PROVE  IInv'
<1>1. /\ ~gone /\ disk.row \in 1..Now /\ disk.items = past[disk.row]
      /\ past \in Seq(Nat) /\ Now \in Nat
  BY Typed DEF IInv, StoredIsPast, Restart, TypeOK
<1>2. /\ past' = SubSeq(past, 1, disk.row)
      /\ pending' = {} /\ writing' = {} /\ stopped' = FALSE
      /\ wake' = FALSE
      /\ worker' = "waiting" /\ UNCHANGED <<disk, gone>>
      /\ removal' = "none" /\ open' = TRUE
  BY DEF Restart
<1>3. \A n \in 1..disk.row : past[n] \in Nat
  BY <1>1, Typed DEF IInv
<1>4. /\ past' \in Seq(Nat) /\ Len(past') = disk.row
      /\ past'[disk.row] = past[disk.row]
  <2>1. /\ SubSeq(past, 1, disk.row) \in Seq(Nat)
        /\ Len(SubSeq(past, 1, disk.row))
             = IF 1 <= disk.row THEN disk.row - 1 + 1 ELSE 0
        /\ \A i \in 1..disk.row - 1 + 1 :
             SubSeq(past, 1, disk.row)[i] = past[1 + i - 1]
    BY <1>1, <1>3, SubSeqProperties
  <2> QED
    BY <1>1, <1>2, <2>1
<1>5. past' # <<>>
  BY <1>1, <1>4, EmptySeq
<1>6. TypeOK'
  BY <1>2, <1>4, <1>5 DEF IInv, TypeOK, AtMostOne, Places, Removals
<1>7. WorkerHolds' /\ NothingForgotten' /\ ItemsNotOvertaken'
  BY <1>2, <1>4 DEF WorkerHolds, NothingForgotten, ItemsNotOvertaken, Now
<1>8. StoredIsPast' /\ RemovalFits'
  BY <1>1, <1>2, <1>4 DEF StoredIsPast, RemovalFits, Now
<1> QED
  BY <1>6, <1>7, <1>8 DEF IInv

\* The steps of a removal and of an idle worker write nothing.
LEMMA QuietStep ==
  ASSUME IInv, ~gone,
         Wake \/ WakesNoMore \/ RetryTimer \/ BeginRemoval \/ BeginStop
           \/ DropRemoval \/ DropHandle \/ UNCHANGED vars
  PROVE  IInv' /\ UNCHANGED <<past, disk, gone>> /\ removal' # "again"
<1> USE DEF IInv, TypeOK, AtMostOne, Places, Removals, WorkerHolds,
            StoredIsPast, RemovalFits, NothingForgotten, ItemsNotOvertaken,
            Fits, Now
<1>1. CASE Wake
  BY <1>1 DEF Wake
<1>2. CASE WakesNoMore \/ RetryTimer
  BY <1>2 DEF WakesNoMore, RetryTimer
<1>3. CASE BeginStop
  BY <1>3 DEF BeginStop
<1>4. CASE BeginRemoval
  BY <1>4 DEF BeginRemoval
<1>5. CASE DropRemoval
  BY <1>5 DEF DropRemoval
<1>6. CASE DropHandle
  BY <1>6 DEF DropHandle
<1>7. CASE UNCHANGED vars
  BY <1>7 DEF vars
<1> QED
  BY <1>1, <1>2, <1>3, <1>4, <1>5, <1>6, <1>7

LEMMA DeleteStep ==
  ASSUME IInv, ~gone, DeleteRows \/ RemoveAgain
  PROVE  IInv'
<1> USE DEF IInv, TypeOK, Removals, WorkerHolds, StoredIsPast, RemovalFits,
            NothingForgotten, ItemsNotOvertaken, NoRows
<1>1. /\ gone' /\ disk' = NoRows /\ removal' \in Removals
      /\ UNCHANGED <<past, queue, worker, writing, open>>
  BY DEF DeleteRows, RemoveAgain
<1>2. TypeOK' /\ WorkerHolds'
  BY <1>1
<1>3. StoredIsPast' /\ RemovalFits'
  <2>1. CASE DeleteRows
    <3>1. stopped' /\ worker' = "done" /\ removal' = "waiting"
      BY <2>1, <1>1 DEF DeleteRows, MayDelete
    <3> QED
      BY <1>1, <3>1
  <2>2. CASE RemoveAgain
    BY <1>1, <2>2 DEF RemoveAgain
  <2> QED
    BY <2>1, <2>2
<1> QED
  BY <1>1, <1>2, <1>3

\* Once the rows were deleted nothing brings the player back, and of what a
\* second removal left in hand only the type is said.
LEMMA GoneStep ==
  ASSUME IInv, gone, [Next]_vars
  PROVE  /\ IInv' /\ gone' /\ removal' = removal
         /\ removal # "again" => disk' = disk
<1> USE DEF IInv, TypeOK, AtMostOne, Places, Removals, WorkerHolds,
            StoredIsPast, RemovalFits, NothingForgotten, ItemsNotOvertaken
<1>1. ASSUME Player
      PROVE  /\ past' \in Seq(Nat) /\ past' # <<>> /\ pending' \in SUBSET Update
             /\ \A u, v \in pending' : u = v
             /\ wake' \in BOOLEAN /\ (stopped => pending' = {})
             /\ UNCHANGED <<disk, gone, stopped, worker, writing, admin>>
  <2> DEFINE playback == [queue |-> FALSE, row |-> Now + 1, items |-> 0]
             queued == [queue |-> TRUE, row |-> Now + 1, items |-> Items + 1]
  <2>1. /\ Now + 1 \in Nat /\ Items \in Nat /\ Items + 1 \in Nat
        /\ playback \in Update /\ queued \in Update
    BY Typed DEF Update
  <2>2. PICK items \in Nat, u \in Update :
          /\ past' = Append(past, items) /\ Submit(u)
          /\ UNCHANGED <<disk, gone, stopped, worker, writing, admin>>
    BY <1>1, <2>1 DEF Player, ChangePlayback, ChangeQueue
  <2>3. past' \in Seq(Nat) /\ past' # <<>>
    BY <2>2, Appended
  <2>4. ASSUME NEW o \in Update PROVE Merge(o, u) \in Update
    BY <2>2, <2>4 DEF Merge, Update
  <2> HIDE DEF playback, queued
  <2>5. /\ pending' \in SUBSET Update /\ \A v, w \in pending' : v = w
        /\ wake' \in BOOLEAN /\ (stopped => pending' = {})
    <3>1. CASE stopped
      BY <2>2, <3>1 DEF Submit
    <3>2. CASE ~stopped
      <4>1. wake' = TRUE /\ pending' = MergedInto(pending, {u})
        BY <2>2, <3>2 DEF Submit
      <4>2. CASE pending = {}
        BY <2>2, <3>2, <4>1, <4>2 DEF MergedInto
      <4>3. CASE pending # {}
        <5>1. PICK o \in Update : pending = {o}
          BY <4>3
        <5>2. pending' = {Merge(o, u)}
          BY <4>1, <5>1 DEF MergedInto
        <5> QED
          BY <2>4, <3>2, <4>1, <5>1, <5>2
      <4> QED
        BY <4>2, <4>3
    <3> QED
      BY <3>1, <3>2
  <2> QED
    BY <2>2, <2>3, <2>5
<1>2. CASE Player
  BY <1>1, <1>2
<1>3. CASE Wake \/ WakesNoMore \/ RetryTimer
  <2>1. CASE Wake
    BY <2>1 DEF Wake
  <2>2. CASE WakesNoMore
    BY <2>2 DEF WakesNoMore
  <2>3. CASE RetryTimer
    BY <2>3 DEF RetryTimer
  <2> QED
    BY <1>3, <2>1, <2>2, <2>3
<1>4. CASE Take
  BY <1>4 DEF Take
<1>5. CASE WriteSucceeds
  <2>1. PICK w \in writing : disk' = Stored(disk, w)
    BY <1>5 DEF WriteSucceeds
  <2>2. disk' \in [row: Nat, items: Nat]
    BY <2>1 DEF Stored, Update
  <2> QED
    BY <1>5, <2>2 DEF WriteSucceeds
<1>6. CASE WriteFails
  <2>1. /\ pending' \in SUBSET Update /\ \A u, v \in pending' : u = v
        /\ stopped => pending' = {}
    <3>1. \A o, n \in Update : Merge(o, n) \in Update
      BY DEF Merge, Update
    <3> QED
      BY <1>6, <3>1 DEF WriteFails, Retry, MergedInto
  <2>2. /\ writing' = {} /\ worker' \in {"retrying", "done"}
        /\ worker = "writing"
        /\ UNCHANGED <<past, disk, gone, stopped, wake, admin>>
    BY <1>6 DEF WriteFails, Retry, AfterFailure
  <2> QED
    BY <2>1, <2>2
<1>7. CASE DropHandle
  BY <1>7 DEF DropHandle
<1>8. CASE UNCHANGED vars
  BY <1>8 DEF vars
<1>9. ~(BeginRemoval \/ BeginStop \/ DeleteRows \/ DropRemoval \/ RemoveAgain
        \/ Restart)
  BY DEF BeginRemoval, BeginStop, DeleteRows, DropRemoval, RemoveAgain, Restart
<1> QED
  BY <1>2, <1>3, <1>4, <1>5, <1>6, <1>7, <1>8, <1>9
     DEF Next, Worker, Administration

LEMMA NextInvariant == IInv /\ [Next]_vars => IInv'
<1> SUFFICES ASSUME IInv, [Next]_vars PROVE IInv'
  OBVIOUS
<1>1. CASE gone
  BY <1>1, GoneStep
<1>2. CASE ~gone
  BY <1>2, PlayerStep, TakeStep, WriteStep, FailStep, RestartStep, QuietStep,
     DeleteStep DEF Next, Worker, Administration
<1> QED
  BY <1>1, <1>2

\* The invariant that every other theorem here rests on.
THEOREM InvariantHolds == Spec => []IInv
<1> QED
  BY InitInvariant, NextInvariant, PTL DEF Spec

\* No state of the writer is ill typed: at most one update is ever pending,
\* however long the database is busy.
THEOREM WriterTyped == Spec => []TypeOK
<1>1. IInv => TypeOK
  BY DEF IInv
<1> QED
  BY <1>1, InvariantHolds, PTL

\* `merge` and the retry of a failed write lose no submitted update.
THEOREM NothingIsForgotten == Spec => []NothingForgotten
<1>1. IInv => NothingForgotten
  BY DEF IInv
<1> QED
  BY <1>1, InvariantHolds, PTL

\* A cursor is never stored on top of items it was not shown with.
THEOREM ItemsAreNotOvertaken == Spec => []ItemsNotOvertaken
<1>1. IInv => ItemsNotOvertaken
  BY DEF IInv
<1> QED
  BY <1>1, InvariantHolds, PTL

-----------------------------------------------------------------------------
(* Every step of the writer is a step of Checkpoints, or a stutter. *)

LEMMA InitPromised == Init => Promise!Init
BY DEF Init, Promise!Init

LEMMA NextPromised == IInv /\ [Next]_vars => [Promise!Next]_Promise!promise
<1> SUFFICES ASSUME IInv, [Next]_vars
             PROVE  [Promise!Next]_Promise!promise
  OBVIOUS
<1> DEFINE stored == IF removal = "again" THEN NoRows ELSE disk
<1>1. ASSUME NEW items \in Nat, past' = Append(past, items),
             UNCHANGED <<disk, gone, removal>>
      PROVE  Promise!Change
  <2>1. past \in Seq(Nat) /\ Len(past) \in Nat
    BY LenProperties DEF IInv, TypeOK
  <2>2. Len(Append(past, items)) = Len(past) + 1
        /\ SubSeq(Append(past, items), 1, Len(past)) = past
    BY <2>1, AppendProperties
  <2> QED
    BY <1>1, <2>2 DEF Promise!Change
<1>2. Items \in Nat /\ Items + 1 \in Nat
  BY Typed DEF IInv
<1>3. CASE Player
  BY <1>1, <1>2, <1>3 DEF Player, ChangePlayback, ChangeQueue, Promise!Next
<1>4. ASSUME UNCHANGED <<past, gone, stored>>
      PROVE  UNCHANGED Promise!promise
  BY <1>4 DEF Promise!promise
<1>5. CASE gone /\ ~Player
  <2>1. UNCHANGED past
    BY <1>5 DEF Next, Worker, Administration, Wake, WakesNoMore, Take,
                WriteSucceeds, WriteFails, RetryTimer, BeginRemoval, BeginStop,
                DeleteRows, DropRemoval, DropHandle, RemoveAgain, Restart, vars
  <2>2. gone' /\ stored' = stored
    BY <1>5, GoneStep
  <2> QED
    BY <1>4, <1>5, <2>1, <2>2 DEF IInv, TypeOK
<1>6. CASE ~gone /\ ~Player
  <2>1. removal # "again"
    BY <1>6 DEF IInv, RemovalFits
  <2>2. CASE WriteSucceeds
    <3>1. /\ disk'.row \in disk.row + 1..Now
          /\ disk' = [row |-> disk'.row, items |-> past[disk'.row]]
      BY <1>6, <2>2, WriteStep
    <3>2. UNCHANGED <<past, gone, removal>>
      BY <2>2 DEF WriteSucceeds
    <3>3. Promise!Save
      BY <1>6, <2>1, <3>1, <3>2 DEF Promise!Save, Promise!At, Now
    <3> QED
      BY <3>3 DEF Promise!Next
  <2>3. CASE Restart
    BY <2>1, <2>3 DEF Restart, Promise!Restart, Promise!Next
  <2>4. CASE DeleteRows
    BY <2>1, <2>4
       DEF DeleteRows, Promise!Remove, Promise!Nothing, Promise!Next, NoRows
  <2>5. CASE RemoveAgain
    BY <2>5
       DEF RemoveAgain, Promise!Remove, Promise!Nothing, Promise!Next, NoRows
  <2>6. CASE Take \/ WriteFails
    BY <1>4, <2>6 DEF Take, WriteFails
  <2>7. CASE Wake \/ WakesNoMore \/ RetryTimer \/ BeginRemoval \/ BeginStop
             \/ DropRemoval \/ DropHandle \/ UNCHANGED vars
    BY <1>4, <1>6, <2>1, <2>7, QuietStep
  <2> QED
    BY <1>6, <2>2, <2>3, <2>4, <2>5, <2>6, <2>7
       DEF Next, Worker, Administration
<1> QED
  BY <1>3, <1>5, <1>6

\* The checkpoint writer implements Checkpoints.
THEOREM PromiseIsKept == Spec => KeepsPromise
<1> QED
  BY InitPromised, NextPromised, InvariantHolds, PTL
     DEF Spec, KeepsPromise, Promise!Spec
=============================================================================
