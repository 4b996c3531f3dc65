---------------------------- MODULE BrowserPlayer ----------------------------
(***************************************************************************)
(* A server-owned queue and everything that changes it: controllers'       *)
(* commands, the output tab reporting the end of a track, continuous play  *)
(* looking up and appending tracks in the background, the checkpoints the  *)
(* player submits, and a restart from the last of them.                    *)
(*                                                                         *)
(* The state mutex is held for the whole of a handler, so that each        *)
(* handler is one step.  A refill is not: between the step that begins a   *)
(* lookup and the one that delivers its result anything may happen, and so *)
(* it may between that step and the submission of the refill's checkpoint. *)
(***************************************************************************)
EXTENDS PlayerCommands, FiniteSets

CONSTANTS Commands,     \* the commands the controllers issue
          Found,        \* what a lookup may find
          MaxRevision   \* bound: on the counter of cancelled refills

ASSUME BrowserAssumption ==
  /\ Found \subseteq Seq(Track)
  /\ MaxRevision \in Nat

VARIABLES
  q,          \* the queue
  submitted,  \* the newest checkpoint: playback row and items, as merged
  unsent,     \* the checkpoint a refill has still to submit, at most one
  overtaken,  \* for the properties only: what was submitted may be older than
              \* what another handler submitted while a refill's was unsent
  lookups     \* refills in flight; `void` records, for the properties only,
              \* that the listener has acted since the lookup began

vars == <<q, submitted, unsent, overtaken, lookups>>

Checkpoints ==
  [playback: [position: Nat, status: Status, repeat: Repeat,
              shuffle: BOOLEAN, order: Seq(Nat)],
   items: Seq(Item)]

TypeOK ==
  /\ q \in QueueStates
  /\ submitted \in Checkpoints
  /\ unsent \in SUBSET Checkpoints
  /\ overtaken \in BOOLEAN
  /\ lookups \in SUBSET [revision: Nat, void: BOOLEAN]

Init ==
  /\ q = EmptyQueue
  /\ submitted = [playback |-> Playback(EmptyQueue), items |-> <<>>]
  /\ unsent = {} /\ overtaken = FALSE
  /\ lookups = {}

-----------------------------------------------------------------------------
\* A queue checkpoint rewrites the items, a playback checkpoint keeps them.
QueueCheckpoint(s) == [playback |-> Playback(s), items |-> s.queue]

SubmitQueue(s) ==
  /\ submitted' = QueueCheckpoint(s)
  /\ overtaken' = (unsent # {})

SubmitPlayback(s) ==
  /\ submitted' = [submitted EXCEPT !.playback = Playback(s)]
  /\ overtaken' = (overtaken \/ unsent # {})

\* The actions by which docs/continuous-play.md says a listener invalidates
\* pending work: stop, pause, replacing or editing the queue.
Invalidates == {"Stop", "Pause", "PlayTracks", "PlayStream", "Clear",
                "Enqueue", "RemoveQueueItem", "MoveQueueItem"}

Voided(l) == {[k EXCEPT !.void = TRUE] : k \in l}

Within(s) == Len(s.queue) <= MaxLen /\ s.revision <= MaxRevision

\* `execute`: the queue becomes one of the outcomes and is submitted.
Execute(command, outcomes) ==
  /\ command \in Commands
  /\ \E s \in outcomes :
       /\ Within(s)
       /\ q' = s
       /\ IF command \in MutatesQueue THEN SubmitQueue(s) ELSE SubmitPlayback(s)
  /\ lookups' = IF command \in Invalidates THEN Voided(lookups) ELSE lookups
  /\ UNCHANGED unsent

Play == Execute("Play", {[q EXCEPT !.status = "Playing"]})

Pause == Execute("Pause", {[Prepared(q, "Pause") EXCEPT !.status = "Paused"]})

Stop == Execute("Stop", {[Prepared(q, "Stop") EXCEPT !.status = "Stopped"]})

\* Next waits, without moving, for the refill that a listener already awaits.
DefersNext == q.resumeAt # 0
NextTrack == Execute("Next", IF DefersNext THEN {q} ELSE Advance(q, FALSE))

Previous == Execute("Previous", StepPrevious(q))

\* What they change, the time played and the volume, is not modelled.
SeekOrSetVolume == \E command \in {"Seek", "SetVolume"} : Execute(command, {q})

SetRepeat(mode) ==
  Execute("SetRepeat", {[Prepared(q, "SetRepeat") EXCEPT !.repeat = mode]})

SetShuffle(enabled) ==
  Execute("SetShuffle", ShuffleTo(Prepared(q, "SetShuffle"), enabled))

Clear == Execute("Clear", {ClearQueue(Prepared(q, "Clear"))})

RestoreClearedQueue ==
  /\ q.queue = <<>>
  /\ \E old \in q.cleared :
       Execute("RestoreClearedQueue",
               {[q EXCEPT !.queue = old, !.cleared = {}]})

PlayQueueIndex(index) ==
  Execute("PlayQueueIndex", {PlayIndex(Prepared(q, "PlayQueueIndex"), index)})

PlayTracks(batch, start) ==
  Execute("PlayTracks", {ReplaceQueue(Prepared(q, "PlayTracks"), batch, start)})

PlayStream ==
  Execute("PlayStream", {ReplaceQueue(Prepared(q, "PlayStream"), <<Radio>>, 1)})

Enqueue(batch, next) ==
  Execute("Enqueue", EnqueueItems(Prepared(q, "Enqueue"), batch, next))

RemoveQueueItem(index) ==
  Execute("RemoveQueueItem", {RemoveItem(Prepared(q, "RemoveQueueItem"), index)})

MoveQueueItem(from, to) ==
  Execute("MoveQueueItem", {MoveItem(Prepared(q, "MoveQueueItem"), from, to)})

\* The database fails to resolve the tracks: the command returns its error
\* with the refill cancelled and the undo gone, and nothing is submitted.
ResolveFails(command) ==
  /\ command \in Commands \cap {"PlayTracks", "Enqueue"}
  /\ Within(Prepared(q, command))
  /\ q' = Prepared(q, command)
  /\ lookups' = Voided(lookups)
  /\ UNCHANGED <<submitted, unsent, overtaken>>

Command ==
  \/ Play \/ Pause \/ Stop \/ NextTrack \/ Previous \/ SeekOrSetVolume
  \/ \E mode \in Repeat : SetRepeat(mode)
  \/ \E enabled \in BOOLEAN : SetShuffle(enabled)
  \/ Clear \/ RestoreClearedQueue \/ PlayStream
  \/ \E index \in 1..MaxLen :
       \/ PlayQueueIndex(index) \/ RemoveQueueItem(index)
       \/ \E to \in 1..MaxLen : MoveQueueItem(index, to)
  \/ \E batch \in Batches, start \in 1..MaxLen : PlayTracks(batch, start)
  \/ \E batch \in Batches, next \in BOOLEAN : Enqueue(batch, next)
  \/ \E command \in {"PlayTracks", "Enqueue"} : ResolveFails(command)

-----------------------------------------------------------------------------
\* The output tab reports that the current track is over.
TrackEnds ==
  /\ \E s \in TrackEnded(q) :
       /\ Within(s)
       /\ q' = s
       /\ SubmitPlayback(s)
  /\ UNCHANGED <<unsent, lookups>>

\* The output tab reports the time played, stored every ten seconds.
ReportProgress ==
  /\ SubmitPlayback(q)
  /\ UNCHANGED <<q, unsent, lookups>>

\* `next` with continuous play on, when the last track is the current one:
\* the request is remembered and the command itself is not executed.
RequestAutoplayResume ==
  /\ "Next" \in Commands
  /\ CanRequestRefillResume(q)
  /\ q' = RequestRefillResume(q)
  /\ UNCHANGED <<submitted, unsent, overtaken, lookups>>

\* The scheduler keeps at most one lookup per output.
BeginAutoplayRefill ==
  /\ lookups = {} /\ unsent = {}
  /\ CanBeginRefill(q)
  /\ q' = BeginRefill(q)
  /\ lookups' = {[revision |-> q.revision, void |-> FALSE]}
  /\ UNCHANGED <<submitted, unsent, overtaken>>

\* The checkpoint is made with the state mutex held and submitted without it.
FinishAutoplayRefill(items) ==
  \E lookup \in lookups :
    /\ lookups' = lookups \ {lookup}
    /\ IF RefillIsCurrent(q, lookup.revision)
       THEN /\ Within(FinishRefill(q, items))
            /\ q' = FinishRefill(q, items)
            /\ unsent' = IF items = <<>> THEN unsent
                         ELSE {QueueCheckpoint(FinishRefill(q, items))}
       ELSE UNCHANGED <<q, unsent>>
    /\ UNCHANGED <<submitted, overtaken>>

SubmitRefill ==
  \E checkpoint \in unsent :
    /\ submitted' = checkpoint
    /\ unsent' = {}
    /\ UNCHANGED <<q, overtaken, lookups>>

\* Continuous play was turned off, or the output joined a zone.
CancelAutoplayRefill ==
  /\ Within(CancelRefill(q))
  /\ q' = CancelRefill(q)
  /\ lookups' = Voided(lookups)
  /\ UNCHANGED <<submitted, unsent, overtaken>>

\* A lookup ends without a result: aborted, or its own check cancelled it.
DropLookup ==
  /\ lookups # {}
  /\ lookups' = {}
  /\ UNCHANGED <<q, submitted, unsent, overtaken>>

\* The server stops and comes back.  A checkpoint older than the newest was
\* the newest of an earlier state, so this one restart stands for all.
Restart ==
  /\ q' = Restored(submitted)
  /\ unsent' = {} /\ lookups' = {}
  /\ UNCHANGED <<submitted, overtaken>>

Next ==
  \/ Command
  \/ TrackEnds \/ ReportProgress
  \/ RequestAutoplayResume
  \/ BeginAutoplayRefill
  \/ \E items \in Found : FinishAutoplayRefill(items)
  \/ SubmitRefill
  \/ CancelAutoplayRefill
  \/ DropLookup
  \/ Restart

Spec == Init /\ [][Next]_vars
-----------------------------------------------------------------------------
(* What the player promises. *)

\* The cursor is unset or points at an item of the queue, whatever was
\* removed, moved, replaced, restored or appended.
PositionInQueue == q.position \in 0..Len(q.queue)

\* While a listener waits for a refill, playback is set to resume exactly
\* behind the last item: nothing has changed the queue's length meanwhile.
ResumesBehindLastItem ==
  q.resumeAt # 0 => q.resumeAt = Len(q.queue) + 1 /\ q.activity # "None"

\* A refill is only ever announced for a queue there is something in.
RefillHasSeed ==
  /\ q.activity # "None" => q.queue # <<>>
  /\ q.started => q.activity # "None"

\* Every handler submits what it changed: a restart from the newest
\* checkpoint finds the queue, the cursor and the modes now shown, paused
\* where they were playing (players.rs "restored paused").  A refill's
\* checkpoint that another one overtook is the exception, until the queue
\* changes again.
CheckpointIsCurrent ==
  LET kept == submitted.playback
      shown == Playback(q)
  IN unsent = {} /\ ~overtaken =>
     /\ submitted.items = q.queue
     /\ [kept EXCEPT !.status = "Paused"] = [shown EXCEPT !.status = "Paused"]
     /\ q.position # 0 => (kept.status = "Stopped" <=> shown.status = "Stopped")

\* A refill that playback waits for starts with the first track it found.
RefillStartsAtFirstFound ==
  [][\A items \in Found \ {<<>>} :
       FinishAutoplayRefill(items) /\ q.resumeAt # 0 /\ q'.queue # q.queue
         => NowPlaying(q') = {items[1]}]_vars

\* A result never reaches the queue once the listener has stopped, paused,
\* replaced or edited the queue, or turned continuous play off, since its
\* lookup began (docs/continuous-play.md "invalidate pending work").
StaleResultIsDropped ==
  [][\A items \in Found :
       FinishAutoplayRefill(items) /\ (\A l \in lookups : l.void)
         => UNCHANGED q]_vars

\* Editing around the current item leaves it playing: another item removed,
\* any item moved, or tracks added, and the cursor follows.
EditKeepsNowPlaying ==
  [][NowPlaying(q') # NowPlaying(q) =>
       /\ \A i, j \in 1..MaxLen : ~MoveQueueItem(i, j)
       /\ \A i \in 1..MaxLen \ {q.position} : ~RemoveQueueItem(i)
       /\ \A batch \in Batches, next \in BOOLEAN : ~Enqueue(batch, next)]_vars

\* The `next_up` hint a client prefetches on is where the queue goes.
NextUpIsHonoured ==
  [][q'.position # PeekNextIndex(q) /\ PeekNextIndex(q) # 0
       => ~TrackEnds]_vars

\* The items still to come in this pass, in play order.
Upcoming(s) ==
  LET cursor == ShuffleCursor(s.order, s.position)
  IN IF s.shuffle
     THEN [i \in 1..Len(s.order) - cursor |-> s.queue[s.order[cursor + i]]]
     ELSE SubSeq(s.queue, s.position + 1, Len(s.queue))

OrderUsable(s) ==
  s.shuffle => ShuffleOrderValid(s.order, Len(s.queue), s.position)

\* "Play next" puts its tracks before everything else still to come, and
\* loses nothing of it, with the play order in use.
PlayNextComesNext ==
  [][\A batch \in Batches :
       /\ q.position # 0 /\ q'.queue # q.queue /\ OrderUsable(q)
       /\ Enqueue(batch, TRUE)
       => Upcoming(q') = batch \o Upcoming(q)]_vars
=============================================================================
