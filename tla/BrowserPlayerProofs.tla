------------------------- MODULE BrowserPlayerProofs -------------------------
(***************************************************************************)
(* The invariants of BrowserPlayer, for every set of tracks, commands and  *)
(* lookup results, and whatever the bounds.  The inductive invariant is    *)
(* that all state is well typed and that the queue is sound: QueueState's  *)
(* lemmas say which operators keep a queue sound, and the ones that need   *)
(* it idle find it so because their command cancelled the refill first.    *)
(* A second one, `Faithful`, is that checkpoints match the queue and that  *)
(* lookups carry revisions which acting on the queue leaves behind.  What  *)
(* a step may never do follows from both.                                  *)
(***************************************************************************)
EXTENDS BrowserPlayer, QueueStateProofs

IInv == TypeOK /\ Sound(TRUE, q)

CheckpointsTyped ==
  /\ submitted \in [playback: PlaybackRows, items: Seq(Item)]
  /\ unsent \in SUBSET [playback: PlaybackRows, items: Seq(Item)]
  /\ overtaken \in BOOLEAN

-----------------------------------------------------------------------------
LEMMA SoundMeans ==
  IInv => PositionInQueue /\ ResumesBehindLastItem /\ RefillHasSeed
BY DEF IInv, Sound, CursorInRange, ResumeAtEnd, SeedPresent,
       PositionInQueue, ResumesBehindLastItem, RefillHasSeed

LEMMA InitInvariant == Init => IInv
<1> SUFFICES ASSUME Init PROVE IInv
  OBVIOUS
<1>1. q = EmptyQueue /\ Sound(TRUE, q) /\ q \in QueueStates
  BY EmptyQueueSound DEF Init, Sound
<1>2. Playback(EmptyQueue) \in PlaybackRows /\ <<>> \in Seq(Item)
  BY <1>1, PlaybackTyped, EmptySeq
<1> QED
  BY <1>1, <1>2 DEF Init, IInv, TypeOK, Checkpoints, PlaybackRows

LEMMA TypedBefore == IInv => CheckpointsTyped
BY DEF IInv, TypeOK, CheckpointsTyped, Checkpoints, PlaybackRows

LEMMA QueueCheckpointTyped ==
  ASSUME NEW s, Sound(TRUE, s)
  PROVE  /\ Playback(s) \in PlaybackRows /\ s.queue \in Seq(Item)
         /\ QueueCheckpoint(s) \in [playback: PlaybackRows, items: Seq(Item)]
<1>1. Playback(s) \in PlaybackRows /\ s.queue \in Seq(Item)
  BY PlaybackTyped DEF Sound, QueueStates
<1> QED
  BY <1>1 DEF QueueCheckpoint

\* A checkpoint keeps what was submitted well typed.
LEMMA SubmittedTyped ==
  ASSUME IInv, NEW s, Sound(TRUE, s), SubmitQueue(s) \/ SubmitPlayback(s),
         UNCHANGED unsent
  PROVE  CheckpointsTyped'
<1>1. CheckpointsTyped
  BY TypedBefore
<1>2. /\ Playback(s) \in PlaybackRows /\ s.queue \in Seq(Item)
      /\ QueueCheckpoint(s) \in [playback: PlaybackRows, items: Seq(Item)]
  BY QueueCheckpointTyped
<1>3. submitted' \in [playback: PlaybackRows, items: Seq(Item)]
  BY <1>1, <1>2 DEF SubmitQueue, SubmitPlayback, CheckpointsTyped
<1>4. overtaken' \in BOOLEAN
  BY <1>1, Zenon DEF SubmitQueue, SubmitPlayback, CheckpointsTyped
<1> QED
  BY <1>1, <1>3, <1>4 DEF CheckpointsTyped

LEMMA UnsubmittedTyped ==
  ASSUME IInv, UNCHANGED <<submitted, unsent, overtaken>>
  PROVE  CheckpointsTyped'
BY TypedBefore DEF CheckpointsTyped

LEMMA VoidedTyped ==
  TypeOK => Voided(lookups) \in SUBSET [revision: Nat, void: BOOLEAN]
BY DEF TypeOK, Voided

\* What is left to show for a step: the parts one by one.
LEMMA Recombine ==
  ASSUME Sound(TRUE, q)', CheckpointsTyped',
         lookups' \in SUBSET [revision: Nat, void: BOOLEAN]
  PROVE  IInv'
BY DEF IInv, TypeOK, Sound, Checkpoints, CheckpointsTyped, PlaybackRows

LEMMA ExecuteStep ==
  ASSUME IInv, NEW command, NEW outcomes, \A s \in outcomes : Sound(TRUE, s),
         Execute(command, outcomes)
  PROVE  IInv'
<1>1. PICK s \in outcomes :
        /\ q' = s
        /\ SubmitQueue(s) \/ SubmitPlayback(s)
        /\ UNCHANGED unsent
  BY DEF Execute
<1>2. Sound(TRUE, s) /\ Sound(TRUE, q)'
  BY <1>1
<1>3. CheckpointsTyped'
  BY <1>1, <1>2, SubmittedTyped
<1>4. lookups' \in SUBSET [revision: Nat, void: BOOLEAN]
  <2>1. lookups \in SUBSET [revision: Nat, void: BOOLEAN]
        /\ Voided(lookups) \in SUBSET [revision: Nat, void: BOOLEAN]
    BY VoidedTyped DEF IInv, TypeOK
  <2>2. lookups' = lookups \/ lookups' = Voided(lookups)
    BY DEF Execute
  <2> QED
    BY <2>1, <2>2
<1> QED
  BY <1>2, <1>3, <1>4, Recombine

-----------------------------------------------------------------------------
(* The commands. *)

LEMMA FlagCommands ==
  ASSUME IInv, \/ Play \/ Pause \/ Stop \/ SeekOrSetVolume
               \/ \E mode \in Repeat : SetRepeat(mode)
  PROVE  IInv'
<1>1. Sound(TRUE, q)
  BY DEF IInv
<1>2. CASE Play
  <2>1. Sound(TRUE, [q EXCEPT !.status = "Playing"])
    BY <1>1, FlagsSound DEF Status
  <2> QED
    BY <1>2, <2>1, ExecuteStep DEF Play
<1>3. CASE Pause
  <2>1. Sound(TRUE, Prepared(q, "Pause"))
    BY <1>1, PreparedSound
  <2>2. Sound(TRUE, [Prepared(q, "Pause") EXCEPT !.status = "Paused"])
    BY <2>1, FlagsSound DEF Status
  <2> QED
    BY <1>3, <2>2, ExecuteStep DEF Pause
<1>4. CASE Stop
  <2>1. Sound(TRUE, Prepared(q, "Stop"))
    BY <1>1, PreparedSound
  <2>2. Sound(TRUE, [Prepared(q, "Stop") EXCEPT !.status = "Stopped"])
    BY <2>1, FlagsSound DEF Status
  <2> QED
    BY <1>4, <2>2, ExecuteStep DEF Stop
<1>5. ASSUME NEW mode \in Repeat, SetRepeat(mode) PROVE IInv'
  <2>1. Sound(TRUE, Prepared(q, "SetRepeat"))
    BY <1>1, PreparedSound
  <2>2. Sound(TRUE, [Prepared(q, "SetRepeat") EXCEPT !.repeat = mode])
    BY <2>1, FlagsSound
  <2> QED
    BY <1>5, <2>2, ExecuteStep DEF SetRepeat
<1>6. ASSUME NEW command \in {"Seek", "SetVolume"}, Execute(command, {q})
      PROVE  IInv'
  BY <1>1, <1>6, ExecuteStep
<1> QED
  BY <1>2, <1>3, <1>4, <1>5, <1>6 DEF SeekOrSetVolume

LEMMA MoveCommands ==
  ASSUME IInv, \/ NextTrack \/ Previous
               \/ \E enabled \in BOOLEAN : SetShuffle(enabled)
               \/ \E index \in 1..MaxLen : PlayQueueIndex(index)
  PROVE  IInv'
<1>1. Sound(TRUE, q)
  BY DEF IInv
<1>2. CASE NextTrack
  <2>1. \A s \in IF DefersNext THEN {q} ELSE Advance(q, FALSE) : Sound(TRUE, s)
    BY <1>1, AdvanceSound
  <2> QED
    BY <1>2, <2>1, ExecuteStep DEF NextTrack
<1>3. CASE Previous
  <2>1. \A s \in StepPrevious(q) : Sound(TRUE, s)
    BY <1>1, StepPreviousSound
  <2> QED
    BY <1>3, <2>1, ExecuteStep DEF Previous
<1>4. ASSUME NEW enabled \in BOOLEAN, SetShuffle(enabled) PROVE IInv'
  <2>1. Sound(TRUE, Prepared(q, "SetShuffle"))
    BY <1>1, PreparedSound
  <2>2. \A s \in ShuffleTo(Prepared(q, "SetShuffle"), enabled) : Sound(TRUE, s)
    BY <2>1, SetShuffleSound
  <2> QED
    BY <1>4, <2>2, ExecuteStep DEF SetShuffle
<1>5. ASSUME NEW index \in 1..MaxLen, PlayQueueIndex(index) PROVE IInv'
  <2>1. Sound(TRUE, Prepared(q, "PlayQueueIndex"))
    BY <1>1, PreparedSound
  <2>2. Sound(TRUE, PlayIndex(Prepared(q, "PlayQueueIndex"), index))
    BY <2>1, PlayIndexSound
  <2> QED
    BY <1>5, <2>2, ExecuteStep DEF PlayQueueIndex
<1> QED
  BY <1>2, <1>3, <1>4, <1>5

\* Every command that changes the queue's length cancels the refill first.
LEMMA PreparedForEdit ==
  ASSUME IInv, NEW command \in {"Clear", "PlayTracks", "PlayStream", "Enqueue",
                                "RemoveQueueItem", "MoveQueueItem"}
  PROVE  Sound(TRUE, Prepared(q, command)) /\ NoRefill(Prepared(q, command))
<1>1. Sound(TRUE, q) /\ command \in CancelsAutoplayRefill
  BY DEF IInv, CancelsAutoplayRefill
<1> QED
  BY <1>1, PreparedSound

LEMMA EditCommands ==
  ASSUME IInv,
         \/ \E index \in 1..MaxLen :
              \/ RemoveQueueItem(index)
              \/ \E to \in 1..MaxLen : MoveQueueItem(index, to)
         \/ \E batch \in Batches, next \in BOOLEAN : Enqueue(batch, next)
  PROVE  IInv'
<1>1. ASSUME NEW index \in 1..MaxLen, RemoveQueueItem(index) PROVE IInv'
  <2> DEFINE s == Prepared(q, "RemoveQueueItem")
  <2>0. index \in Nat
    BY CommandsAssumption
  <2>1. Sound(TRUE, s) /\ NoRefill(s) /\ index \in Nat
    BY <2>0, PreparedForEdit, Zenon
  <2>2. Sound(TRUE, RemoveItem(s, index))
    BY <2>1, RemoveSound
  <2> QED
    BY <1>1, <2>2, ExecuteStep DEF RemoveQueueItem
<1>2. ASSUME NEW index \in 1..MaxLen, NEW to \in 1..MaxLen,
             MoveQueueItem(index, to)
      PROVE  IInv'
  <2> DEFINE s == Prepared(q, "MoveQueueItem")
  <2>0. index \in Nat /\ to \in Nat
    BY CommandsAssumption
  <2>1. Sound(TRUE, s) /\ NoRefill(s)
    BY PreparedForEdit, Zenon
  <2>2. Sound(TRUE, MoveItem(s, index, to))
    BY <2>0, <2>1, MoveSound
  <2> QED
    BY <1>2, <2>2, ExecuteStep DEF MoveQueueItem
<1>3. ASSUME NEW batch \in Batches, NEW next \in BOOLEAN, Enqueue(batch, next)
      PROVE  IInv'
  <2> DEFINE s == Prepared(q, "Enqueue")
  <2>1. Sound(TRUE, s) /\ NoRefill(s)
    BY PreparedForEdit
  <2>2. batch \in Seq(Item)
    BY BrowserAssumption, CommandsAssumption, SeqMonotonic DEF Item
  <2>3. \A t \in EnqueueItems(s, batch, next) : Sound(TRUE, t)
    BY <2>1, <2>2, EnqueueSound
  <2> QED
    BY <1>3, <2>3, ExecuteStep DEF Enqueue
<1> QED
  BY <1>1, <1>2, <1>3

LEMMA ReplaceCommands ==
  ASSUME IInv, \/ Clear \/ RestoreClearedQueue \/ PlayStream
               \/ \E batch \in Batches, start \in 1..MaxLen :
                    PlayTracks(batch, start)
  PROVE  IInv'
<1>1. CASE Clear
  <2>1. Sound(TRUE, ClearQueue(Prepared(q, "Clear")))
    BY PreparedForEdit, ClearSound
  <2> QED
    BY <1>1, <2>1, ExecuteStep DEF Clear
<1>2. CASE RestoreClearedQueue
  <2>1. PICK old \in q.cleared :
          /\ q.queue = <<>>
          /\ Execute("RestoreClearedQueue",
                     {[q EXCEPT !.queue = old, !.cleared = {}]})
    BY <1>2 DEF RestoreClearedQueue
  <2>2. Sound(TRUE, [q EXCEPT !.queue = old, !.cleared = {}])
    BY <2>1, RestoreClearedSound DEF IInv
  <2> QED
    BY <2>1, <2>2, ExecuteStep
<1>3. CASE PlayStream
  <2>1. <<Radio>> \in Seq(Item) /\ 1 \in Nat
    BY DEF Item
  <2>2. Sound(TRUE, ReplaceQueue(Prepared(q, "PlayStream"), <<Radio>>, 1))
    BY <2>1, PreparedForEdit, ReplaceSound
  <2> QED
    BY <1>3, <2>2, ExecuteStep DEF PlayStream
<1>4. ASSUME NEW batch \in Batches, NEW start \in 1..MaxLen,
             PlayTracks(batch, start)
      PROVE  IInv'
  <2>1. batch \in Seq(Item) /\ start \in Nat
    BY BrowserAssumption, CommandsAssumption, SeqMonotonic DEF Item
  <2>2. Sound(TRUE, ReplaceQueue(Prepared(q, "PlayTracks"), batch, start))
    BY <2>1, PreparedForEdit, ReplaceSound
  <2> QED
    BY <1>4, <2>2, ExecuteStep DEF PlayTracks
<1> QED
  BY <1>1, <1>2, <1>3, <1>4

LEMMA CommandStep ==
  ASSUME IInv, Command
  PROVE  IInv'
<1>1. ASSUME NEW command \in {"PlayTracks", "Enqueue"}, ResolveFails(command)
      PROVE  IInv'
  <2>1. Sound(TRUE, q)'
    BY <1>1, PreparedForEdit DEF ResolveFails
  <2>2. CheckpointsTyped'
    BY <1>1, UnsubmittedTyped DEF ResolveFails
  <2>3. lookups' \in SUBSET [revision: Nat, void: BOOLEAN]
    BY <1>1, VoidedTyped DEF ResolveFails, IInv
  <2> QED
    BY <2>1, <2>2, <2>3, Recombine
<1> QED
  BY <1>1, FlagCommands, MoveCommands, EditCommands, ReplaceCommands DEF Command

-----------------------------------------------------------------------------
(* Everything that is not a command, and the invariant. *)

LEMMA RefillStep ==
  ASSUME IInv,
         \/ RequestAutoplayResume \/ BeginAutoplayRefill
         \/ \E items \in Found : FinishAutoplayRefill(items)
         \/ SubmitRefill \/ CancelAutoplayRefill \/ DropLookup
  PROVE  IInv'
<1>1. /\ Sound(TRUE, q) /\ q.revision \in Nat
      /\ lookups \in SUBSET [revision: Nat, void: BOOLEAN]
  BY DEF IInv, Sound, TypeOK, QueueStates
<1>u. UNCHANGED <<submitted, unsent, overtaken>> => CheckpointsTyped'
  BY UnsubmittedTyped
<1>2. CASE RequestAutoplayResume
  <2>1. Sound(TRUE, q)'
    BY <1>1, <1>2, RequestResumeSound DEF RequestAutoplayResume
  <2> QED
    BY <1>1, <1>u, <1>2, <2>1, Recombine DEF RequestAutoplayResume
<1>3. CASE BeginAutoplayRefill
  <2>1. Sound(TRUE, q)'
    BY <1>1, <1>3, BeginRefillSound DEF BeginAutoplayRefill
  <2>2. lookups' \in SUBSET [revision: Nat, void: BOOLEAN]
    BY <1>1, <1>3 DEF BeginAutoplayRefill
  <2> QED
    BY <1>u, <1>3, <2>1, <2>2, Recombine DEF BeginAutoplayRefill
<1>4. ASSUME NEW items \in Found, FinishAutoplayRefill(items) PROVE IInv'
  <2>1. PICK lookup \in lookups :
          /\ lookups' = lookups \ {lookup}
          /\ IF RefillIsCurrent(q, lookup.revision)
             THEN /\ q' = FinishRefill(q, items)
                  /\ unsent' = IF items = <<>> THEN unsent
                               ELSE {QueueCheckpoint(FinishRefill(q, items))}
             ELSE UNCHANGED <<q, unsent>>
          /\ UNCHANGED <<submitted, overtaken>>
    BY <1>4 DEF FinishAutoplayRefill
  <2>2. lookups' \in SUBSET [revision: Nat, void: BOOLEAN]
    BY <1>1, <2>1
  <2>3. CASE RefillIsCurrent(q, lookup.revision)
    <3>1. items \in Seq(Item)
      BY BrowserAssumption, CommandsAssumption, SeqMonotonic DEF Item
    <3>2. Sound(TRUE, FinishRefill(q, items))
      BY <1>1, <2>3, <3>1, FinishRefillSound DEF RefillIsCurrent
    <3>3. QueueCheckpoint(FinishRefill(q, items))
            \in [playback: PlaybackRows, items: Seq(Item)]
      BY <3>2, QueueCheckpointTyped
    <3>4. CheckpointsTyped'
      BY <2>1, <2>3, <3>3, TypedBefore DEF CheckpointsTyped
    <3>5. Sound(TRUE, q)'
      BY <2>1, <2>3, <3>2
    <3> QED
      BY <2>2, <3>4, <3>5, Recombine
  <2>4. CASE ~RefillIsCurrent(q, lookup.revision)
    <3>1. Sound(TRUE, q)'
      BY <1>1, <2>1, <2>4
    <3> QED
      BY <1>u, <2>1, <2>2, <2>4, <3>1, Recombine
  <2> QED
    BY <2>3, <2>4
<1>5. CASE SubmitRefill
  <2>1. PICK checkpoint \in unsent :
          /\ submitted' = checkpoint
          /\ unsent' = {}
          /\ UNCHANGED <<q, overtaken, lookups>>
    BY <1>5 DEF SubmitRefill
  <2>2. CheckpointsTyped'
    BY <2>1, TypedBefore DEF CheckpointsTyped
  <2>3. Sound(TRUE, q)'
    BY <1>1, <2>1
  <2> QED
    BY <1>1, <2>1, <2>2, <2>3, Recombine
<1>6. CASE CancelAutoplayRefill
  <2>1. Sound(TRUE, q)'
    BY <1>1, <1>6, CancelSound DEF CancelAutoplayRefill
  <2>2. lookups' \in SUBSET [revision: Nat, void: BOOLEAN]
    BY <1>6, VoidedTyped DEF CancelAutoplayRefill, IInv
  <2> QED
    BY <1>u, <1>6, <2>1, <2>2, Recombine DEF CancelAutoplayRefill
<1>7. CASE DropLookup
  <2>1. Sound(TRUE, q)'
    BY <1>1, <1>7 DEF DropLookup
  <2> QED
    BY <1>1, <1>u, <1>7, <2>1, Recombine DEF DropLookup
<1> QED
  BY <1>2, <1>3, <1>4, <1>5, <1>6, <1>7

LEMMA NextInvariant == IInv /\ [Next]_vars => IInv'
<1> SUFFICES ASSUME IInv, [Next]_vars PROVE IInv'
  OBVIOUS
<1>1. CASE Command
  BY <1>1, CommandStep
<1>2. CASE TrackEnds
  <2>1. PICK s \in TrackEnded(q) :
          q' = s /\ SubmitPlayback(s) /\ UNCHANGED unsent
    BY <1>2 DEF TrackEnds
  <2>2. Sound(TRUE, s) /\ Sound(TRUE, q)'
    BY <2>1, TrackEndedSound DEF IInv
  <2>3. CheckpointsTyped'
    BY <2>1, <2>2, SubmittedTyped
  <2> QED
    BY <1>2, <2>2, <2>3, Recombine DEF TrackEnds, IInv, TypeOK
<1>6. CASE ReportProgress
  <2>1. Sound(TRUE, q) /\ Sound(TRUE, q)'
    BY <1>6 DEF ReportProgress, IInv
  <2>2. CheckpointsTyped'
    BY <1>6, <2>1, SubmittedTyped DEF ReportProgress
  <2> QED
    BY <1>6, <2>1, <2>2, Recombine DEF ReportProgress, IInv, TypeOK
<1>3. CASE \/ RequestAutoplayResume \/ BeginAutoplayRefill
           \/ \E items \in Found : FinishAutoplayRefill(items)
           \/ SubmitRefill \/ CancelAutoplayRefill \/ DropLookup
  BY <1>3, RefillStep
<1>4. CASE Restart
  <2>1. submitted \in [playback: PlaybackRows, items: Seq(Item)]
    BY TypedBefore DEF CheckpointsTyped
  <2>2. /\ submitted.playback \in PlaybackRows /\ submitted.items \in Seq(Item)
        /\ submitted = [playback |-> submitted.playback,
                        items |-> submitted.items]
    BY <2>1
  <2>3. Sound(TRUE, Restored(submitted))
    BY <2>2, RestoredSound
  <2>4. Sound(TRUE, q)'
    BY <1>4, <2>3 DEF Restart
  <2>5. CheckpointsTyped' /\ lookups' = {}
    BY <1>4, TypedBefore DEF Restart, CheckpointsTyped
  <2> QED
    BY <2>4, <2>5, Recombine
<1>5. CASE UNCHANGED vars
  BY <1>5 DEF vars, IInv, TypeOK, Checkpoints,
              Sound, CursorInRange, ResumeAtEnd, SeedPresent
<1> QED
  BY <1>1, <1>2, <1>3, <1>4, <1>5, <1>6 DEF Next

-----------------------------------------------------------------------------
\* The invariant that every other theorem here rests on.
THEOREM InvariantHolds == Spec => []IInv
<1> QED
  BY InitInvariant, NextInvariant, PTL DEF Spec

\* The queue, the checkpoint and the lookups in flight keep their types.
THEOREM BrowserPlayerTyped == Spec => []TypeOK
<1>1. IInv => TypeOK
  BY DEF IInv
<1> QED
  BY <1>1, InvariantHolds, PTL

\* The cursor of players.rs `QueueState` never points outside its queue.
THEOREM CursorStaysInQueue == Spec => []PositionInQueue
<1> QED
  BY SoundMeans, InvariantHolds, PTL

\* `resume_refill_at`, the index at which `finish_autoplay_refill` resumes
\* playback, is the index just behind the queue for as long as it is set.
THEOREM RefillResumesAtTheEnd == Spec => []ResumesBehindLastItem
<1> QED
  BY SoundMeans, InvariantHolds, PTL

\* A refill is only ever reserved or announced for a queue with items.
THEOREM AnnouncedRefillHasSeed == Spec => []RefillHasSeed
<1> QED
  BY SoundMeans, InvariantHolds, PTL

-----------------------------------------------------------------------------
(* Checkpoints and lookups. *)

\* A restart from the checkpoint finds what is shown.
Matches(checkpoint, s) ==
  LET kept == checkpoint.playback
      shown == Playback(s)
  IN /\ checkpoint.items = s.queue
     /\ [kept EXCEPT !.status = "Paused"] = [shown EXCEPT !.status = "Paused"]
     /\ s.position # 0 => (kept.status = "Stopped" <=> shown.status = "Stopped")

\* What was submitted last, or has still to be, matches the queue; and what
\* was submitted last is a checkpoint of some one queue.
Mirrored ==
  ~overtaken =>
    /\ unsent = {} => Matches(submitted, q)
    /\ \A checkpoint \in unsent : Matches(checkpoint, q)
    /\ submitted.playback.position \in 0..Len(submitted.items)

\* A lookup carries the revision it began at, an older one once the listener
\* has acted since.
Stamped ==
  \A l \in lookups : /\ l.revision <= q.revision
                     /\ l.void => l.revision < q.revision

Faithful == Mirrored /\ Stamped

\* What a command may make of the queue.
Proper(command, s) ==
  /\ s.revision >= q.revision
  /\ command \in Invalidates => s.revision > q.revision
  /\ command \notin MutatesQueue => s.queue = q.queue

LEMMA OwnCheckpointMatches ==
  ASSUME NEW s
  PROVE  Matches(QueueCheckpoint(s), s)
BY DEF Matches, QueueCheckpoint

LEMMA MatchesSame ==
  ASSUME NEW c, NEW s, NEW t, Matches(c, s), SameToKeep(s, t)
  PROVE  Matches(c, t)
BY DEF Matches, SameToKeep, Playback

LEMMA StampsKept ==
  ASSUME IInv, IInv', Stamped, lookups' \subseteq lookups,
         q'.revision >= q.revision
  PROVE  Stamped'
<1>1. q.revision \in Nat /\ q'.revision \in Nat
      /\ \A l \in lookups : l.revision \in Nat
  BY DEF IInv, TypeOK, QueueStates
<1> QED
  BY <1>1 DEF Stamped

LEMMA StampsVoided ==
  ASSUME IInv, IInv', Stamped, lookups' = Voided(lookups),
         q'.revision > q.revision
  PROVE  Stamped'
<1>1. q.revision \in Nat /\ q'.revision \in Nat
      /\ \A l \in lookups : l.revision \in Nat
                            /\ [l EXCEPT !.void = TRUE].revision = l.revision
  BY DEF IInv, TypeOK, QueueStates
<1>2. ASSUME NEW k \in lookups' PROVE k.revision < q'.revision
  <2>1. PICK l \in lookups : k = [l EXCEPT !.void = TRUE]
    BY <1>2 DEF Voided
  <2> QED
    BY <1>1, <2>1 DEF Stamped
<1>3. \A k \in lookups' : k.revision \in Nat
  BY DEF IInv, TypeOK
<1> QED
  BY <1>1, <1>2, <1>3 DEF Stamped

\* A handler that submits what it made of the queue.
LEMMA SubmitMirrors ==
  ASSUME IInv, IInv', Mirrored, UNCHANGED unsent,
         \/ SubmitQueue(q')
         \/ SubmitPlayback(q') /\ q'.queue = q.queue
  PROVE  Mirrored'
<1> SUFFICES ASSUME ~overtaken' PROVE Mirrored'
  BY DEF Mirrored
<1>1. unsent = {} /\ unsent' = {}
  BY DEF SubmitQueue, SubmitPlayback
<1>2. q'.position \in 0..Len(q'.queue)
  BY DEF IInv, Sound, CursorInRange
<1>3. submitted' = QueueCheckpoint(q')
  <2>1. CASE SubmitQueue(q')
    BY <2>1 DEF SubmitQueue
  <2>2. CASE SubmitPlayback(q') /\ q'.queue = q.queue
    <3>1. ~overtaken
      BY <2>2 DEF SubmitPlayback
    <3>2. submitted.items = q.queue
      BY <1>1, <3>1 DEF Mirrored, Matches
    <3>3. submitted \in [playback: PlaybackRows, items: Seq(Item)]
      BY TypedBefore DEF CheckpointsTyped
    <3> QED
      BY <2>2, <3>2, <3>3 DEF SubmitPlayback, QueueCheckpoint
  <2> QED
    BY <2>1, <2>2
<1>4. Matches(submitted', q')
  BY <1>3, OwnCheckpointMatches
<1>5. submitted'.playback.position \in 0..Len(submitted'.items)
  BY <1>2, <1>3 DEF QueueCheckpoint, Playback
<1> QED
  BY <1>1, <1>4, <1>5 DEF Mirrored

\* One that changes only what no checkpoint keeps, and submits nothing.
LEMMA SilentMirrors ==
  ASSUME Mirrored, SameToKeep(q, q'), UNCHANGED <<submitted, unsent, overtaken>>
  PROVE  Mirrored'
<1>1. \A c : Matches(c, q) => Matches(c, q')
  BY MatchesSame
<1> QED
  BY <1>1 DEF Mirrored

LEMMA ExecuteFaithful ==
  ASSUME IInv, IInv', Faithful, NEW command, NEW outcomes,
         \A s \in outcomes : Proper(command, s),
         Execute(command, outcomes)
  PROVE  Faithful'
<1>1. /\ q' \in outcomes /\ UNCHANGED unsent
      /\ IF command \in MutatesQueue THEN SubmitQueue(q') ELSE SubmitPlayback(q')
      /\ lookups' = IF command \in Invalidates THEN Voided(lookups) ELSE lookups
  BY DEF Execute
<1>2. Proper(command, q')
  BY <1>1
<1>3. Mirrored'
  BY <1>1, <1>2, SubmitMirrors DEF Proper, Faithful
<1>4. Stamped'
  BY <1>1, <1>2, StampsKept, StampsVoided DEF Proper, Faithful
<1> QED
  BY <1>3, <1>4 DEF Faithful

LEMMA FlagsFaithful ==
  ASSUME IInv, IInv', Faithful,
         \/ Play \/ Pause \/ Stop \/ SeekOrSetVolume
         \/ \E mode \in Repeat : SetRepeat(mode)
  PROVE  Faithful'
<1>1. q \in QueueStates /\ q.revision \in Nat
  BY DEF IInv, TypeOK, QueueStates
<1>2. ASSUME NEW status, NEW mode
      PROVE  /\ [q EXCEPT !.status = status].queue = q.queue
             /\ [q EXCEPT !.status = status].revision = q.revision
  BY <1>1 DEF QueueStates
<1>3. CASE Play
  <2>1. Proper("Play", [q EXCEPT !.status = "Playing"])
    BY <1>1, <1>2 DEF Proper, Invalidates
  <2> QED
    BY <1>3, <2>1, ExecuteFaithful DEF Play
<1>4. ASSUME NEW command \in {"Pause", "Stop", "SetRepeat"}, NEW v,
             NEW s \in {[Prepared(q, command) EXCEPT !.status = v],
                        [Prepared(q, command) EXCEPT !.repeat = v]}
      PROVE  Proper(command, s)
  <2> DEFINE t == Prepared(q, command)
  <2>1. Follows(q, t) /\ t.revision > q.revision
    BY <1>1, PreparedCounts DEF CancelsAutoplayRefill
  <2>2. t \in QueueStates
    BY PreparedSound DEF IInv, Sound
  <2> HIDE DEF t
  <2>3. s.queue = t.queue /\ s.revision = t.revision
    BY <1>4, <2>2 DEF t, QueueStates
  <2> QED
    BY <2>1, <2>3 DEF Proper, Follows
<1>5. CASE Pause
  <2>1. Proper("Pause", [Prepared(q, "Pause") EXCEPT !.status = "Paused"])
    BY <1>4
  <2> QED
    BY <1>5, <2>1, ExecuteFaithful DEF Pause
<1>6. CASE Stop
  <2>1. Proper("Stop", [Prepared(q, "Stop") EXCEPT !.status = "Stopped"])
    BY <1>4
  <2> QED
    BY <1>6, <2>1, ExecuteFaithful DEF Stop
<1>7. ASSUME NEW mode \in Repeat, SetRepeat(mode) PROVE Faithful'
  <2>1. Proper("SetRepeat", [Prepared(q, "SetRepeat") EXCEPT !.repeat = mode])
    BY <1>4
  <2> QED
    BY <1>7, <2>1, ExecuteFaithful DEF SetRepeat
<1>8. ASSUME NEW command \in {"Seek", "SetVolume"}, Execute(command, {q})
      PROVE  Faithful'
  <2>1. Proper(command, q)
    BY <1>1 DEF Proper, Invalidates
  <2> QED
    BY <1>8, <2>1, ExecuteFaithful
<1> QED
  BY <1>3, <1>5, <1>6, <1>7, <1>8 DEF SeekOrSetVolume

LEMMA MovesFaithful ==
  ASSUME IInv, IInv', Faithful,
         \/ NextTrack \/ Previous
         \/ \E enabled \in BOOLEAN : SetShuffle(enabled)
         \/ \E index \in 1..MaxLen : PlayQueueIndex(index)
  PROVE  Faithful'
<1>1. Sound(TRUE, q) /\ q.revision \in Nat
  BY DEF IInv, TypeOK, QueueStates
<1>2. ASSUME NEW command \in {"Next", "Previous"}, NEW s, Follows(q, s)
      PROVE  Proper(command, s)
  BY <1>2 DEF Proper, Follows, Invalidates
<1>3. CASE NextTrack
  <2>1. /\ Follows(q, q)
        /\ \A s \in Advance(q, FALSE) : Follows(q, s)
    <3>1. Follows(q, q)
      BY <1>1 DEF Follows
    <3>2. ASSUME NEW s \in Advance(q, FALSE) PROVE Follows(q, s)
      BY <1>1, AdvanceFollows
    <3> QED
      BY <3>1, <3>2
  <2> QED
    BY <1>2, <1>3, <2>1, ExecuteFaithful DEF NextTrack
<1>4. CASE Previous
  BY <1>1, <1>2, <1>4, NavigationFollows, ExecuteFaithful DEF Previous
<1>5. ASSUME NEW command \in {"SetShuffle", "PlayQueueIndex"}, NEW s,
             Follows(Prepared(q, command), s)
      PROVE  Proper(command, s)
  <2>1. Follows(q, Prepared(q, command))
    BY <1>1, PreparedCounts DEF Sound
  <2>2. s.revision >= q.revision
    BY <1>1, <1>5, <2>1 DEF Follows
  <2> QED
    BY <1>5, <2>1, <2>2 DEF Proper, Follows, Invalidates
<1>6. ASSUME NEW enabled \in BOOLEAN, SetShuffle(enabled) PROVE Faithful'
  <2>1. Sound(TRUE, Prepared(q, "SetShuffle"))
    BY <1>1, PreparedSound
  <2> QED
    BY <1>5, <1>6, <2>1, NavigationFollows, ExecuteFaithful DEF SetShuffle
<1>7. ASSUME NEW index \in 1..MaxLen, PlayQueueIndex(index) PROVE Faithful'
  <2>1. Sound(TRUE, Prepared(q, "PlayQueueIndex"))
    BY <1>1, PreparedSound
  <2>2. Follows(Prepared(q, "PlayQueueIndex"),
                PlayIndex(Prepared(q, "PlayQueueIndex"), index))
    BY <2>1, NavigationFollows
  <2> QED
    BY <1>5, <1>7, <2>2, ExecuteFaithful DEF PlayQueueIndex
<1> QED
  BY <1>3, <1>4, <1>6, <1>7

LEMMA EditsFaithful ==
  ASSUME IInv, IInv', Faithful,
         \/ Clear \/ RestoreClearedQueue \/ PlayStream
         \/ \E index \in 1..MaxLen :
              \/ RemoveQueueItem(index)
              \/ \E to \in 1..MaxLen : MoveQueueItem(index, to)
         \/ \E batch \in Batches, start \in 1..MaxLen : PlayTracks(batch, start)
         \/ \E batch \in Batches, next \in BOOLEAN : Enqueue(batch, next)
  PROVE  Faithful'
<1>1. q \in QueueStates /\ q.revision \in Nat /\ Sound(TRUE, q)
  BY DEF IInv, TypeOK, QueueStates
<1>2. ASSUME NEW command \in MutatesQueue \ {"RestoreClearedQueue"}
      PROVE  /\ Prepared(q, command) \in QueueStates
             /\ \A s : s.revision = Prepared(q, command).revision
                         => Proper(command, s)
  <2>1. command \in CancelsAutoplayRefill
    BY <1>2 DEF MutatesQueue, CancelsAutoplayRefill
  <2>2. /\ Prepared(q, command).revision > q.revision
        /\ Prepared(q, command) \in QueueStates
    BY <1>1, <2>1, PreparedCounts, PreparedSound DEF Sound
  <2>3. Prepared(q, command).revision >= q.revision
    BY <1>1, <2>2 DEF QueueStates
  <2> QED
    BY <1>2, <2>2, <2>3 DEF Proper
<1>3. CASE Clear
  <2>1. Proper("Clear", ClearQueue(Prepared(q, "Clear")))
    BY <1>2, EditsKeepRevision DEF MutatesQueue
  <2> QED
    BY <1>3, <2>1, ExecuteFaithful DEF Clear
<1>4. CASE RestoreClearedQueue
  <2>1. PICK old \in q.cleared :
          Execute("RestoreClearedQueue",
                  {[q EXCEPT !.queue = old, !.cleared = {}]})
    BY <1>4 DEF RestoreClearedQueue
  <2>2. [q EXCEPT !.queue = old, !.cleared = {}].revision = q.revision
    BY <1>1 DEF QueueStates
  <2>3. Proper("RestoreClearedQueue", [q EXCEPT !.queue = old, !.cleared = {}])
    BY <1>1, <2>2 DEF Proper, Invalidates, MutatesQueue
  <2> QED
    BY <2>1, <2>3, ExecuteFaithful
<1>5. CASE PlayStream
  <2>1. Proper("PlayStream",
               ReplaceQueue(Prepared(q, "PlayStream"), <<Radio>>, 1))
    BY <1>2, EditsKeepRevision DEF MutatesQueue
  <2> QED
    BY <1>5, <2>1, ExecuteFaithful DEF PlayStream
<1>6. ASSUME NEW index \in 1..MaxLen, RemoveQueueItem(index) PROVE Faithful'
  <2>1. Proper("RemoveQueueItem",
               RemoveItem(Prepared(q, "RemoveQueueItem"), index))
    BY <1>2, EditsKeepRevision DEF MutatesQueue
  <2> QED
    BY <1>6, <2>1, ExecuteFaithful DEF RemoveQueueItem
<1>7. ASSUME NEW from \in 1..MaxLen, NEW to \in 1..MaxLen,
             MoveQueueItem(from, to)
      PROVE  Faithful'
  <2>1. Proper("MoveQueueItem",
               MoveItem(Prepared(q, "MoveQueueItem"), from, to))
    BY <1>2, EditsKeepRevision DEF MutatesQueue
  <2> QED
    BY <1>7, <2>1, ExecuteFaithful DEF MoveQueueItem
<1>8. ASSUME NEW batch \in Batches, NEW start \in 1..MaxLen,
             PlayTracks(batch, start)
      PROVE  Faithful'
  <2>1. Proper("PlayTracks",
               ReplaceQueue(Prepared(q, "PlayTracks"), batch, start))
    BY <1>2, EditsKeepRevision DEF MutatesQueue
  <2> QED
    BY <1>8, <2>1, ExecuteFaithful DEF PlayTracks
<1>9. ASSUME NEW batch \in Batches, NEW next \in BOOLEAN, Enqueue(batch, next)
      PROVE  Faithful'
  <2>1. Prepared(q, "Enqueue") \in QueueStates /\ "Enqueue" \in MutatesQueue
    BY <1>2 DEF MutatesQueue
  <2>2. ASSUME NEW s \in EnqueueItems(Prepared(q, "Enqueue"), batch, next)
        PROVE  s.revision = Prepared(q, "Enqueue").revision
    BY <2>1, EditsKeepRevision
  <2>3. \A s \in EnqueueItems(Prepared(q, "Enqueue"), batch, next) :
          Proper("Enqueue", s)
    BY <1>2, <2>1, <2>2
  <2> QED
    BY <1>9, <2>3, ExecuteFaithful DEF Enqueue
<1> QED
  BY <1>3, <1>4, <1>5, <1>6, <1>7, <1>8, <1>9

LEMMA CommandFaithful ==
  ASSUME IInv, IInv', Faithful, Command
  PROVE  Faithful'
<1>1. ASSUME NEW command \in {"PlayTracks", "Enqueue"}, ResolveFails(command)
      PROVE  Faithful'
  <2>1. q \in QueueStates /\ q' = Prepared(q, command)
    BY <1>1 DEF IInv, TypeOK, ResolveFails
  <2>2. SameToKeep(q, q') /\ q'.revision > q.revision
    BY <2>1, PreparedCounts DEF CancelsAutoplayRefill
  <2>3. Mirrored'
    BY <1>1, <2>2, SilentMirrors DEF Faithful, ResolveFails
  <2>4. Stamped'
    BY <1>1, <2>2, StampsVoided DEF Faithful, ResolveFails
  <2> QED
    BY <2>3, <2>4 DEF Faithful
<1> QED
  BY <1>1, FlagsFaithful, MovesFaithful, EditsFaithful DEF Command

LEMMA PlaybackFaithful ==
  ASSUME IInv, IInv', Faithful, TrackEnds \/ ReportProgress
  PROVE  Faithful'
<1>1. Sound(TRUE, q) /\ q.revision \in Nat
  BY DEF IInv, TypeOK, QueueStates
<1>2. Follows(q, q') /\ SubmitPlayback(q') /\ UNCHANGED <<unsent, lookups>>
  <2>1. CASE TrackEnds
    BY <1>1, <2>1, NavigationFollows DEF TrackEnds
  <2>2. CASE ReportProgress
    BY <1>1, <2>2 DEF ReportProgress, Follows
  <2> QED
    BY <2>1, <2>2
<1>3. Mirrored'
  BY <1>2, SubmitMirrors DEF Follows, Faithful
<1>4. Stamped'
  BY <1>2, StampsKept DEF Follows, Faithful
<1> QED
  BY <1>3, <1>4 DEF Faithful

\* A refill announces, reserves and cancels without changing what is kept;
\* when it appends, its checkpoint is of the queue it leaves.
LEMMA RefillFaithful ==
  ASSUME IInv, IInv', Faithful,
         \/ RequestAutoplayResume \/ BeginAutoplayRefill
         \/ \E items \in Found : FinishAutoplayRefill(items)
         \/ SubmitRefill \/ CancelAutoplayRefill \/ DropLookup
  PROVE  Faithful'
<1>1. q \in QueueStates /\ q.revision \in Nat /\ q' \in QueueStates
  BY DEF IInv, TypeOK, QueueStates
<1>2. CASE RequestAutoplayResume
  <2>1. SameToKeep(q, q') /\ q'.revision = q.revision
    BY <1>1, <1>2 DEF RequestAutoplayResume, RequestRefillResume, SameToKeep,
                      Playback, QueueStates
  <2>2. Mirrored'
    BY <1>2, <2>1, SilentMirrors DEF Faithful, RequestAutoplayResume
  <2>3. Stamped'
    BY <1>1, <1>2, <2>1, StampsKept DEF Faithful, RequestAutoplayResume
  <2> QED
    BY <2>2, <2>3 DEF Faithful
<1>3. CASE BeginAutoplayRefill
  <2>1. SameToKeep(q, q') /\ q'.revision = q.revision
    BY <1>1, <1>3 DEF BeginAutoplayRefill, BeginRefill, SameToKeep, Playback,
                      QueueStates
  <2>2. Mirrored'
    BY <1>3, <2>1, SilentMirrors DEF Faithful, BeginAutoplayRefill
  <2>3. Stamped'
    BY <1>1, <1>3, <2>1 DEF Stamped, BeginAutoplayRefill
  <2> QED
    BY <2>2, <2>3 DEF Faithful
<1>4. ASSUME NEW items \in Found, FinishAutoplayRefill(items) PROVE Faithful'
  <2>1. PICK lookup \in lookups :
          /\ lookups' = lookups \ {lookup}
          /\ IF RefillIsCurrent(q, lookup.revision)
             THEN /\ q' = FinishRefill(q, items)
                  /\ unsent' = IF items = <<>> THEN unsent
                               ELSE {QueueCheckpoint(FinishRefill(q, items))}
             ELSE UNCHANGED <<q, unsent>>
          /\ UNCHANGED <<submitted, overtaken>>
    BY <1>4 DEF FinishAutoplayRefill
  <2>2. FinishRefill(q, items).revision = q.revision
    BY <1>1 DEF FinishRefill, QueueStates
  <2>3. Stamped'
    BY <1>1, <2>1, <2>2, StampsKept DEF Faithful
  <2>4. CASE /\ RefillIsCurrent(q, lookup.revision) /\ items # <<>>
    <3>1. q' = FinishRefill(q, items) /\ unsent' = {QueueCheckpoint(q')}
      BY <2>1, <2>4
    <3>2. Matches(QueueCheckpoint(q'), q')
      BY OwnCheckpointMatches
    <3>3. Mirrored'
      BY <2>1, <3>1, <3>2 DEF Mirrored, Faithful
    <3> QED
      BY <2>3, <3>3 DEF Faithful
  <2>5. CASE /\ RefillIsCurrent(q, lookup.revision) /\ items = <<>>
    <3>1. q' = [q EXCEPT !.activity = "Exhausted"] /\ unsent' = unsent
      BY <2>1, <2>5 DEF FinishRefill
    <3>2. SameToKeep(q, q')
      BY <1>1, <3>1 DEF SameToKeep, Playback, QueueStates
    <3>3. Mirrored'
      BY <2>1, <3>1, <3>2, SilentMirrors DEF Faithful
    <3> QED
      BY <2>3, <3>3 DEF Faithful
  <2>6. CASE ~RefillIsCurrent(q, lookup.revision)
    <3>1. SameToKeep(q, q') /\ UNCHANGED <<submitted, unsent, overtaken>>
      BY <2>1, <2>6 DEF SameToKeep
    <3>2. Mirrored'
      BY <3>1, SilentMirrors DEF Faithful
    <3> QED
      BY <2>3, <3>2 DEF Faithful
  <2> QED
    BY <2>4, <2>5, <2>6
<1>5. CASE SubmitRefill
  <2>1. PICK checkpoint \in unsent :
          /\ submitted' = checkpoint /\ unsent' = {}
          /\ UNCHANGED <<q, overtaken, lookups>>
    BY <1>5 DEF SubmitRefill
  <2>2. q.position \in 0..Len(q.queue)
    BY DEF IInv, Sound, CursorInRange
  <2>3. ASSUME ~overtaken
        PROVE  Matches(checkpoint, q)
               /\ checkpoint.playback.position \in 0..Len(checkpoint.items)
    <3>1. Matches(checkpoint, q)
      BY <2>1, <2>3 DEF Faithful, Mirrored
    <3>2. checkpoint \in [playback: PlaybackRows, items: Seq(Item)]
      BY <2>1, TypedBefore DEF CheckpointsTyped
    <3>3. checkpoint.items = q.queue /\ checkpoint.playback.position = q.position
      BY <3>1, <3>2 DEF Matches, PlaybackRows, Playback
    <3> QED
      BY <2>2, <3>1, <3>3
  <2>4. Mirrored'
    BY <2>1, <2>3 DEF Mirrored, Matches
  <2>5. Stamped'
    BY <2>1 DEF Stamped, Faithful
  <2> QED
    BY <2>4, <2>5 DEF Faithful
<1>6. CASE CancelAutoplayRefill
  <2>1. SameToKeep(q, q') /\ q'.revision > q.revision
    BY <1>1, <1>6, CancelCounts DEF CancelAutoplayRefill
  <2>2. Mirrored'
    BY <1>6, <2>1, SilentMirrors DEF Faithful, CancelAutoplayRefill
  <2>3. Stamped'
    BY <1>6, <2>1, StampsVoided DEF Faithful, CancelAutoplayRefill
  <2> QED
    BY <2>2, <2>3 DEF Faithful
<1>7. CASE DropLookup
  BY <1>7 DEF DropLookup, Faithful, Mirrored, Stamped, Matches
<1> QED
  BY <1>2, <1>3, <1>4, <1>5, <1>6, <1>7

\* A checkpoint of some one queue is restored as it is, but paused.
LEMMA RestartFaithful ==
  ASSUME IInv, IInv', Faithful, Restart
  PROVE  Faithful'
<1>1. /\ q' = Restored(submitted) /\ unsent' = {} /\ lookups' = {}
      /\ UNCHANGED <<submitted, overtaken>>
  BY DEF Restart
<1>2. submitted \in [playback: PlaybackRows, items: Seq(Item)]
  BY TypedBefore DEF CheckpointsTyped
<1>3. ASSUME ~overtaken PROVE Matches(submitted, q')
  <2> DEFINE p == submitted.playback
             position == IF p.position \in 1..Len(submitted.items)
                         THEN p.position ELSE 0
             status == CASE p.status = "Playing" -> "Paused"
                         [] p.status = "Paused" /\ position = 0 -> "Stopped"
                         [] OTHER -> p.status
  <2>1. p.position \in 0..Len(submitted.items)
    BY <1>3 DEF Faithful, Mirrored
  <2>2. p \in PlaybackRows /\ Len(submitted.items) \in Nat
    BY <1>2
  <2>3. position = p.position
    BY <2>1, <2>2
  <2>4. q' = [EmptyQueue EXCEPT !.queue = submitted.items,
                !.position = position, !.status = status,
                !.repeat = p.repeat, !.shuffle = p.shuffle, !.order = p.order]
    BY <1>1 DEF Restored
  <2>5. EmptyQueue \in QueueStates
    BY EmptyQueueSound DEF Sound
  <2>6. position # 0 => (p.status = "Stopped" <=> status = "Stopped")
    <3>1. p.status \in Status
      BY <2>2 DEF PlaybackRows
    <3> QED
      BY <3>1 DEF Status
  <2> HIDE DEF position, status
  <2>7. /\ q'.queue = submitted.items /\ q'.position = position
        /\ q'.status = status
        /\ Playback(q') = [position |-> position, status |-> status,
                           repeat |-> p.repeat, shuffle |-> p.shuffle,
                           order |-> p.order]
    BY <2>4, <2>5 DEF QueueStates, Playback
  <2>8. [p EXCEPT !.status = "Paused"] = [Playback(q') EXCEPT !.status = "Paused"]
    BY <2>2, <2>3, <2>7 DEF PlaybackRows
  <2>9. Playback(q').status = status
    BY <2>7
  <2> QED
    BY <2>6, <2>7, <2>8, <2>9 DEF Matches
<1>4. Mirrored'
  BY <1>1, <1>3 DEF Mirrored, Faithful
<1>5. Stamped'
  BY <1>1 DEF Stamped
<1> QED
  BY <1>4, <1>5 DEF Faithful

LEMMA FaithfulStep == IInv /\ Faithful /\ [Next]_vars => Faithful'
<1> SUFFICES ASSUME IInv, Faithful, [Next]_vars PROVE Faithful'
  OBVIOUS
<1>1. IInv'
  BY NextInvariant
<1>2. CASE UNCHANGED vars
  BY <1>2 DEF vars, Faithful, Mirrored, Stamped, Matches
<1> QED
  BY <1>1, <1>2, CommandFaithful, PlaybackFaithful, RefillFaithful,
     RestartFaithful DEF Next

\* What the two theorems below rest on.
THEOREM FaithfulAlways == Spec => []Faithful
<1>1. Init => Faithful
  <2> SUFFICES ASSUME Init PROVE Faithful
    OBVIOUS
  <2>1. submitted = QueueCheckpoint(EmptyQueue) /\ q = EmptyQueue
    BY DEF Init, QueueCheckpoint, EmptyQueue
  <2>2. Matches(submitted, q)
    BY <2>1, OwnCheckpointMatches
  <2>3. submitted.playback.position \in 0..Len(submitted.items)
    BY <2>1, EmptySeq DEF QueueCheckpoint, Playback, EmptyQueue
  <2> QED
    BY <2>2, <2>3 DEF Init, Faithful, Mirrored, Stamped
<1> QED
  BY <1>1, FaithfulStep, InvariantHolds, PTL DEF Spec

\* Whatever is commanded, appended or cancelled, a restart finds what is shown
\* now, unless a refill's checkpoint was overtaken.
THEOREM NewestCheckpointIsCurrent == Spec => []CheckpointIsCurrent
<1>1. Faithful => CheckpointIsCurrent
  BY DEF Faithful, Mirrored, Matches, CheckpointIsCurrent
<1> QED
  BY <1>1, FaithfulAlways, PTL

\* The counter that every cancelling command raises is what makes a result
\* stale: none that the listener has voided is current again later.
THEOREM VoidResultsAreDropped == Spec => StaleResultIsDropped
<1>1. ASSUME IInv, Faithful, NEW items \in Found, FinishAutoplayRefill(items),
             \A l \in lookups : l.void
      PROVE  UNCHANGED q
  <2>1. PICK lookup \in lookups :
          RefillIsCurrent(q, lookup.revision) \/ UNCHANGED q
    BY <1>1 DEF FinishAutoplayRefill
  <2>2. lookup.revision < q.revision
    BY <1>1 DEF Faithful, Stamped
  <2>3. lookup.revision \in Nat /\ q.revision \in Nat
    BY <1>1 DEF IInv, TypeOK, QueueStates
  <2> QED
    BY <2>1, <2>2, <2>3 DEF RefillIsCurrent
<1>2. IInv /\ Faithful /\ [Next]_vars =>
        [\A items \in Found :
           FinishAutoplayRefill(items) /\ (\A l \in lookups : l.void)
             => UNCHANGED q]_vars
  BY <1>1
<1> QED
  BY <1>2, FaithfulAlways, InvariantHolds, PTL DEF Spec, StaleResultIsDropped

-----------------------------------------------------------------------------
(* What a step may never do. *)

\* Whatever else a listener does to the queue meanwhile, what plays goes on
\* playing when another item is removed, an item is moved or tracks are added.
THEOREM EditsKeepNowPlaying == Spec => EditKeepsNowPlaying
<1>1. ASSUME IInv PROVE
        /\ \A i, j \in 1..MaxLen : MoveQueueItem(i, j) => NowPlaying(q') = NowPlaying(q)
        /\ \A i \in 1..MaxLen \ {q.position} :
             RemoveQueueItem(i) => NowPlaying(q') = NowPlaying(q)
        /\ \A batch \in Batches, next \in BOOLEAN :
             Enqueue(batch, next) => NowPlaying(q') = NowPlaying(q)
  <2>1. q \in QueueStates /\ Sound(TRUE, q) /\ MaxLen \in Nat
    BY <1>1, CommandsAssumption DEF IInv, Sound
  <2>2. ASSUME NEW command
        PROVE  /\ Prepared(q, command) \in QueueStates
               /\ CursorInRange(Prepared(q, command))
               /\ Prepared(q, command).position = q.position
               /\ NowPlaying(Prepared(q, command)) = NowPlaying(q)
    <3>1. Sound(TRUE, Prepared(q, command))
      BY <2>1, PreparedSound
    <3>2. /\ Prepared(q, command).queue = q.queue
          /\ Prepared(q, command).position = q.position
      BY <2>1, PreparedPlaying
    <3> QED
      BY <3>1, <3>2 DEF Sound, NowPlaying
  <2>3. ASSUME NEW i \in 1..MaxLen, NEW j \in 1..MaxLen, MoveQueueItem(i, j)
        PROVE  NowPlaying(q') = NowPlaying(q)
    <3>1. q' = MoveItem(Prepared(q, "MoveQueueItem"), i, j) /\ i \in Nat /\ j \in Nat
      BY <2>1, <2>3 DEF MoveQueueItem, Execute
    <3> QED
      BY <2>2, <3>1, MoveKeepsPlaying
  <2>4. ASSUME NEW i \in 1..MaxLen \ {q.position}, RemoveQueueItem(i)
        PROVE  NowPlaying(q') = NowPlaying(q)
    <3>1. q' = RemoveItem(Prepared(q, "RemoveQueueItem"), i) /\ i \in Nat
      BY <2>1, <2>4 DEF RemoveQueueItem, Execute
    <3> QED
      BY <2>2, <3>1, RemoveKeepsPlaying
  <2>5. ASSUME NEW batch \in Batches, NEW next \in BOOLEAN, Enqueue(batch, next)
        PROVE  NowPlaying(q') = NowPlaying(q)
    <3>1. q' \in EnqueueItems(Prepared(q, "Enqueue"), batch, next)
      BY <2>5 DEF Enqueue, Execute
    <3>2. batch \in Seq(Item)
      BY CommandsAssumption, SeqMonotonic DEF Item
    <3> QED
      BY <2>2, <3>1, <3>2, EnqueueKeepsPlaying
  <2> QED
    BY <2>3, <2>4, <2>5
<1>2. IInv /\ [Next]_vars =>
        [NowPlaying(q') # NowPlaying(q) =>
           /\ \A i, j \in 1..MaxLen : ~MoveQueueItem(i, j)
           /\ \A i \in 1..MaxLen \ {q.position} : ~RemoveQueueItem(i)
           /\ \A batch \in Batches, next \in BOOLEAN : ~Enqueue(batch, next)]_vars
  BY <1>1
<1> QED
  BY <1>2, InvariantHolds, PTL DEF Spec, EditKeepsNowPlaying

\* A refill that playback waits for starts with the first track it found:
\* nothing has changed the queue's length since it was remembered where.
THEOREM RefillsStartAtFirstFound == Spec => RefillStartsAtFirstFound
<1>1. ASSUME IInv, NEW items \in Found \ {<<>>}, FinishAutoplayRefill(items),
             q.resumeAt # 0, q'.queue # q.queue
      PROVE  NowPlaying(q') = {items[1]}
  <2>1. /\ q \in QueueStates /\ q.queue \in Seq(Item) /\ Len(q.queue) \in Nat
        /\ q.resumeAt = Len(q.queue) + 1
    BY <1>1 DEF IInv, Sound, ResumeAtEnd, QueueStates
  <2>2. items \in Seq(Item) /\ items # <<>>
    BY BrowserAssumption, SeqMonotonic DEF Item
  <2>3. Len(items) \in Nat \ {0}
    BY <2>2, EmptySeq
  <2>4. q' = FinishRefill(q, items)
    BY <1>1 DEF FinishAutoplayRefill
  <2>5. q'.queue = q.queue \o items /\ q'.position = Len(q.queue) + 1
    BY <1>1, <2>1, <2>2, <2>4 DEF FinishRefill, QueueStates
  <2> DEFINE longer == q.queue \o items
             first == Len(q.queue) + 1
  <2>6. /\ Len(longer) = Len(q.queue) + Len(items)
        /\ \A i \in 1..Len(q.queue) + Len(items) : longer[i] =
             IF i <= Len(q.queue) THEN q.queue[i] ELSE items[i - Len(q.queue)]
    BY <2>1, <2>2, ConcatProperties
  <2>7. first \in 1..Len(q.queue) + Len(items) /\ ~(first <= Len(q.queue))
        /\ first - Len(q.queue) = 1
    BY <2>1, <2>3
  <2> HIDE DEF longer, first
  <2>8. longer[first] = items[1] /\ first \in 1..Len(longer)
    BY <2>6, <2>7
  <2> QED
    BY <2>5, <2>8 DEF NowPlaying, longer, first
<1>2. IInv /\ [Next]_vars =>
        [\A items \in Found \ {<<>>} :
           FinishAutoplayRefill(items) /\ q.resumeAt # 0 /\ q'.queue # q.queue
             => NowPlaying(q') = {items[1]}]_vars
  BY <1>1
<1> QED
  BY <1>2, InvariantHolds, PTL DEF Spec, RefillStartsAtFirstFound

\* Where the hint says the queue goes when the track ends, it goes.
THEOREM NextUpIsKept == Spec => NextUpIsHonoured
<1>1. ASSUME IInv, TrackEnds, PeekNextIndex(q) # 0
      PROVE  q'.position = PeekNextIndex(q)
  <2>1. Sound(TRUE, q) /\ q' \in TrackEnded(q)
    BY <1>1 DEF IInv, TrackEnds
  <2>2. CASE q.repeat = "One"
    <3>1. q' = q
      BY <2>1, <2>2 DEF TrackEnded
    <3>2. PeekNextIndex(q) = q.position
      BY <1>1, <2>2 DEF PeekNextIndex
    <3> QED
      BY <3>1, <3>2
  <2>3. CASE q.repeat # "One"
    <3>1. PICK t \in Advance(q, TRUE) :
            q' = IF t.status = "Stopped" /\ t.activity # "None"
                 THEN PreserveRefillResume(t) ELSE t
      BY <2>1, <2>3 DEF TrackEnded
    <3>2. t \in QueueStates /\ t.position = PeekNextIndex(q)
      BY <1>1, <2>1, <2>3, AdvanceGoesToPeek
    <3>3. PreserveRefillResume(t).position = t.position
      BY <3>2 DEF PreserveRefillResume, QueueStates
    <3> QED
      BY <3>1, <3>2, <3>3
  <2> QED
    BY <2>2, <2>3
<1>2. IInv /\ [Next]_vars =>
        [q'.position # PeekNextIndex(q) /\ PeekNextIndex(q) # 0 => ~TrackEnds]_vars
  BY <1>1
<1> QED
  BY <1>2, InvariantHolds, PTL DEF Spec, NextUpIsHonoured

\* With the play order in use, tracks put in next come before everything else
\* still to come.
LEMMA NextComesNext ==
  ASSUME NEW s \in QueueStates, CursorInRange(s), s.position # 0, OrderUsable(s),
         NEW items \in Seq(Item), items # <<>>, NEW t \in EnqueueItems(s, items, TRUE)
  PROVE  Upcoming(t) = items \o Upcoming(s)
<1> DEFINE len == Len(s.queue)
           at == s.position
           count == Len(items)
<1>1. /\ len \in Nat /\ count \in Nat /\ at \in 1..len /\ s.queue \in Seq(Item)
      /\ s.order \in Seq(Nat) /\ s.shuffle \in BOOLEAN
  BY LenProperties DEF CursorInRange, QueueStates
<1>2. t.position = at /\ t.queue = Spliced(s.queue, at, items, at) /\ t.shuffle = s.shuffle
      /\ (s.shuffle => t.order = SpliceOrder(s.order, at, count))
  <2> DEFINE u == [s EXCEPT !.queue = SubSeq(@, 1, s.position) \o items
                                        \o SubSeq(@, s.position + 1, Len(@))]
  <2>1. /\ u.position = at /\ u.queue = Spliced(s.queue, at, items, at)
        /\ u.shuffle = s.shuffle /\ u.order = s.order
    BY DEF QueueStates, Spliced
  <2>2. CASE ~s.shuffle
    BY <2>1, <2>2 DEF EnqueueItems
  <2>3. CASE s.shuffle
    <3>1. t = [u EXCEPT !.order = SpliceOrder(@, at, count)]
      BY <2>3 DEF EnqueueItems, OrderUsable
    <3>2. t.order = SpliceOrder(u.order, at, count) /\ t.position = u.position
          /\ t.queue = u.queue /\ t.shuffle = u.shuffle
      BY <3>1 DEF QueueStates
    <3> QED
      BY <2>1, <3>2
  <2> QED
    BY <1>1, <2>2, <2>3
<1>3. IsSpliced(Item, s.queue, at, items, at, t.queue)
  <2>1. at \in 0..len
    BY <1>1
  <2> QED
    BY <1>1, <1>2, <2>1, SplicedElements
<1> DEFINE new == t.queue
<1>4. /\ new \in Seq(Item) /\ Len(new) = len + count
      /\ \A i \in 1..at : new[i] = s.queue[i]
      /\ \A i \in 1..count : new[at + i] = items[i]
      /\ \A i \in 1..len - at : new[at + count + i] = s.queue[at + i]
  <2>1. Len(new) = at + count + (len - at)
    BY <1>3 DEF IsSpliced
  <2>2. Len(new) = len + count
    BY <1>1, <2>1
  <2> QED
    BY <1>3, <2>2 DEF IsSpliced
<1> DEFINE old == Upcoming(s)
           all == Upcoming(t)
<1>5. ASSUME old \in Seq(Item), all \in Seq(Item), Len(all) = count + Len(old),
             \A i \in 1..count : all[i] = items[i],
             \A i \in 1..Len(old) : all[count + i] = old[i]
      PROVE  all = items \o old
  BY <1>5, AppendedElements
<1>6. CASE ~s.shuffle
  <2>1. old = SubSeq(s.queue, at + 1, len) /\ all = SubSeq(new, at + 1, len + count)
    BY <1>2, <1>4, <1>6 DEF Upcoming
  <2>2. /\ old \in Seq(Item) /\ Len(old) = len - at
        /\ \A i \in 1..len - at : old[i] = s.queue[at + i]
    <3>1. at \in 0..len
      BY <1>1
    <3>2. IsRest(Item, s.queue, at, SubSeq(s.queue, at + 1, len))
      BY <1>1, <3>1, SuffixElements
    <3> QED
      BY <2>1, <3>2 DEF IsRest
  <2>3. /\ all \in Seq(Item) /\ Len(all) = len + count - at
        /\ \A i \in 1..len + count - at : all[i] = new[at + i]
    <3>1. at \in 0..Len(new)
      BY <1>1, <1>4
    <3> HIDE DEF all, new
    <3>2. IsRest(Item, new, at, SubSeq(new, at + 1, Len(new)))
      BY <1>4, <3>1, SuffixElements
    <3>3. Len(new) = len + count
      BY <1>4
    <3>4. IsRest(Item, new, at, all)
      BY <2>1, <3>2, <3>3
    <3>5. /\ all \in Seq(Item) /\ Len(all) = Len(new) - at
          /\ \A i \in 1..Len(new) - at : all[i] = new[at + i]
      BY <3>4 DEF IsRest
    <3>6. Len(new) - at = len + count - at
      BY <1>1, <3>3
    <3> HIDE DEF count
    <3> QED
      BY <3>5, <3>6
  <2> HIDE DEF old, all, new
  <2>4. ASSUME NEW i \in 1..count PROVE all[i] = items[i]
    <3>1. i \in 1..len + count - at
      BY <1>1
    <3> QED
      BY <1>4, <2>3, <3>1
  <2>5. ASSUME NEW i \in 1..len - at PROVE all[count + i] = old[i]
    <3> DEFINE j == count + i
    <3>1. j \in 1..len + count - at /\ at + j = at + count + i
      BY <1>1
    <3>2. all[j] = new[at + j]
      BY <2>3, <3>1
    <3>3. new[at + count + i] = s.queue[at + i]
      BY <1>4
    <3> QED
      BY <2>2, <3>1, <3>2, <3>3
  <2> QED
    <3>1. Len(all) = count + Len(old)
      BY <1>1, <2>2, <2>3
    <3>2. \A i \in 1..Len(old) : all[count + i] = old[i]
      BY <2>2, <2>5
    <3> HIDE DEF count
    <3> QED
      BY <1>5, <2>2, <2>3, <2>4, <3>1, <3>2 DEF old, all
<1>7. CASE s.shuffle
  <2> DEFINE order == s.order
             longer == t.order
             cursor == ShuffleCursor(order, at)
  <2>1. ShuffleOrderValid(order, len, at) /\ longer = SpliceOrder(order, at, count)
    BY <1>2, <1>7 DEF OrderUsable
  <2>2. cursor \in 1..len /\ Len(order) = len /\ \A i \in 1..len : order[i] \in 1..len
    BY <1>1, <2>1, CursorFound DEF ShuffleOrderValid
  <2>3. /\ longer \in Seq(Nat) /\ Len(longer) = len + count
        /\ ShuffleCursor(longer, at) = cursor
        /\ \A i \in 1..count : longer[cursor + i] = at + i
        /\ \A i \in 1..len - cursor :
             longer[cursor + count + i] = IF order[cursor + i] > at
                                          THEN order[cursor + i] + count
                                          ELSE order[cursor + i]
    <3>1. IsSplicedOrder(len, order, at, count, cursor, longer)
      BY <1>1, <2>1, SpliceFollows
    <3> HIDE DEF order, longer, cursor
    <3> QED
      BY <3>1 DEF IsSplicedOrder
  <2>4. /\ old = [i \in 1..len - cursor |-> s.queue[order[cursor + i]]]
        /\ all = [i \in 1..len + count - cursor |-> new[longer[cursor + i]]]
    BY <1>2, <1>7, <2>2, <2>3 DEF Upcoming
  <2> HIDE DEF order, longer, cursor, old, all, new
  <2>5. \A i \in 1..len - cursor : cursor + i \in 1..len /\ order[cursor + i] \in 1..len
    <3> TAKE i \in 1..len - cursor
    <3>1. cursor + i \in 1..len
      BY <1>1, <2>2
    <3> QED
      BY <2>2, <3>1
  <2>6. \A i \in 1..len - cursor : s.queue[order[cursor + i]] \in Item
    BY <1>1, <2>5, ElementOfSeq
  <2>7. old \in Seq(Item) /\ Len(old) = len - cursor
    <3>1. old \in [1..len - cursor -> Item] /\ len - cursor \in Nat
      BY <1>1, <2>2, <2>4, <2>6
    <3> QED
      BY <3>1, FunctionIsSeq
  <2>8. ASSUME NEW i \in 1..count
        PROVE  all[i] = items[i] /\ all[i] \in Item
    <3>1. i \in 1..len + count - cursor /\ items[i] \in Item
      BY <1>1, <2>2, ElementOfSeq
    <3>2. all[i] = new[longer[cursor + i]]
      BY <2>4, <3>1
    <3> QED
      BY <1>4, <2>3, <3>1, <3>2
  <2>9. ASSUME NEW i \in 1..len - cursor
        PROVE  all[count + i] = old[i] /\ all[count + i] \in Item
    <3> DEFINE k == order[cursor + i]
    <3>1. count + i \in 1..len + count - cursor /\ cursor + (count + i) = cursor + count + i
      BY <1>1, <2>2
    <3>2. all[count + i] = new[longer[cursor + count + i]]
      BY <2>4, <3>1
    <3>3. longer[cursor + count + i] = IF k > at THEN k + count ELSE k
      BY <2>3
    <3>4. k \in 1..len /\ old[i] = s.queue[k] /\ old[i] \in Item
      BY <2>4, <2>5, <2>6
    <3> HIDE DEF k
    <3>5. CASE k > at
      <4> DEFINE j == k - at
      <4>1. j \in 1..len - at /\ at + count + j = k + count /\ at + j = k
        BY <1>1, <3>4, <3>5
      <4> HIDE DEF j
      <4>2. new[at + count + j] = s.queue[at + j]
        BY <1>4, <4>1
      <4> QED
        BY <3>2, <3>3, <3>4, <3>5, <4>1, <4>2
    <3>6. CASE ~(k > at)
      <4>1. k \in 1..at
        BY <1>1, <3>4, <3>6
      <4>2. new[k] = s.queue[k]
        BY <1>4, <4>1
      <4> QED
        BY <3>2, <3>3, <3>4, <3>6, <4>2
    <3> QED
      BY <3>5, <3>6
  <2>10. all \in Seq(Item) /\ Len(all) = len + count - cursor
    <3>1. ASSUME NEW i \in 1..len + count - cursor PROVE all[i] \in Item
      <4>1. CASE i <= count
        <5>1. i \in 1..count
          BY <1>1, <2>2, <4>1
        <5> QED
          BY <2>8, <5>1
      <4>2. CASE ~(i <= count)
        <5> DEFINE j == i - count
        <5>1. j \in 1..len - cursor /\ count + j = i
          BY <1>1, <2>2, <4>2
        <5> HIDE DEF j
        <5>2. all[count + j] \in Item
          BY <2>9, <5>1
        <5> QED
          BY <5>1, <5>2
      <4> QED
        BY <4>1, <4>2
    <3>2. len + count - cursor \in Nat
      BY <1>1, <2>2
    <3>3. all \in [1..len + count - cursor -> Item]
      BY <2>4, <3>1
    <3> QED
      BY <3>2, <3>3, FunctionIsSeq
  <2> QED
    <3>1. Len(all) = count + Len(old)
      BY <1>1, <2>2, <2>7, <2>10
    <3>2. \A i \in 1..Len(old) : all[count + i] = old[i]
      BY <2>7, <2>9
    <3>3. \A i \in 1..count : all[i] = items[i]
      BY <2>8
    <3> HIDE DEF count
    <3> QED
      BY <1>5, <2>7, <2>10, <3>1, <3>2, <3>3 DEF old, all
<1> QED
  BY <1>1, <1>6, <1>7

\* "Play next" puts its tracks before everything else still to come and loses
\* nothing of it: in a shuffled queue the splice leaves the current item its
\* place in the order, and there is only one.
THEOREM PlayNextIsNext == Spec => PlayNextComesNext
<1>1. ASSUME IInv, NEW batch \in Batches, q.position # 0, q'.queue # q.queue,
             OrderUsable(q), Enqueue(batch, TRUE)
      PROVE  Upcoming(q') = batch \o Upcoming(q)
  <2> DEFINE u == Prepared(q, "Enqueue")
  <2>1. Sound(TRUE, q) /\ Sound(TRUE, u) /\ batch \in Seq(Item)
    BY <1>1, PreparedSound, CommandsAssumption, SeqMonotonic DEF IInv, Item
  <2>2. /\ u.queue = q.queue /\ u.position = q.position
        /\ u.order = q.order /\ u.shuffle = q.shuffle
    BY <2>1 DEF Prepared, CancelRefill, Sound, QueueStates
  <2>3. q' \in EnqueueItems(u, batch, TRUE)
    BY <1>1 DEF Enqueue, Execute
  <2>4. u \in QueueStates /\ CursorInRange(u) /\ u.position # 0
    BY <1>1, <2>1, <2>2 DEF Sound
  <2>5. OrderUsable(u) /\ Upcoming(u) = Upcoming(q)
    BY <1>1, <2>2 DEF OrderUsable, Upcoming
  <2> HIDE DEF u
  <2>6. batch # <<>>
    <3> SUFFICES ASSUME batch = <<>> PROVE FALSE
      OBVIOUS
    <3>1. q'.queue = u.queue \o <<>>
      BY <2>3, <2>4 DEF EnqueueItems, QueueStates
    <3>2. u.queue \in Seq(Item)
      BY <2>4 DEF QueueStates
    <3> QED
      BY <1>1, <2>2, <3>1, <3>2, ConcatEmptySeq
  <2> QED
    BY <2>1, <2>3, <2>4, <2>5, <2>6, NextComesNext
<1>2. IInv /\ [Next]_vars =>
        [\A batch \in Batches :
           /\ q.position # 0 /\ q'.queue # q.queue /\ OrderUsable(q)
           /\ Enqueue(batch, TRUE)
           => Upcoming(q') = batch \o Upcoming(q)]_vars
  BY <1>1
<1> QED
  BY <1>2, InvariantHolds, PTL DEF Spec, PlayNextComesNext
=============================================================================
