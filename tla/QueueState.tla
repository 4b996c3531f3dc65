----------------------------- MODULE QueueState -----------------------------
(***************************************************************************)
(* The server-owned play queue that browser, zone and Snapcast players     *)
(* share (`QueueState` of players.rs and the functions that change it), as *)
(* operators on a record.  A player module keeps such a record in a        *)
(* variable and changes it only through these operators.                   *)
(*                                                                         *)
(* Positions count from 1, so that they index the TLA+ sequence; 0 is the  *)
(* `None` of the code.  An operator whose result depends on the shuffle    *)
(* seed (the wall clock) returns the set of the results it may have.       *)
(* Left out: elapsed time, duration and volume, which no decision here     *)
(* reads, and the metadata of an item.                                     *)
(***************************************************************************)
EXTENDS Integers, Sequences, SequencesExt

CONSTANTS Track,        \* library tracks, the items a lookup can be seeded with
          Radio,        \* an external stream: an item without a track id
          MinUpcoming   \* a refill starts below this many upcoming items

ASSUME QueueAssumption == Radio \notin Track /\ MinUpcoming \in Nat

Item == Track \cup {Radio}

Status == {"Stopped", "Playing", "Paused"}
Repeat == {"Off", "All", "One"}
\* The last three are announced by players that decode.
Activity == {"None", "Finding", "Exhausted", "Preparing", "Connecting", "Failed"}

(***************************************************************************)
(* cleared holds at most one queue, the one `RestoreClearedQueue` brings   *)
(* back; resumeAt is the first index a refill in progress will append.     *)
(***************************************************************************)
QueueStates ==
  [queue: Seq(Item), cleared: SUBSET Seq(Item), position: Nat,
   status: Status, repeat: Repeat, shuffle: BOOLEAN, order: Seq(Nat),
   activity: Activity, started: BOOLEAN, revision: Nat, resumeAt: Nat]

EmptyQueue ==
  [queue |-> <<>>, cleared |-> {}, position |-> 0,
   status |-> "Stopped", repeat |-> "Off", shuffle |-> FALSE, order |-> <<>>,
   activity |-> "None", started |-> FALSE, revision |-> 0, resumeAt |-> 0]

NowPlaying(s) ==
  IF s.position \in 1..Len(s.queue) THEN {s.queue[s.position]} ELSE {}

-----------------------------------------------------------------------------
(* What a checkpoint keeps, and what a restart makes of it. *)

Playback(s) ==
  [position |-> s.position, status |-> s.status, repeat |-> s.repeat,
   shuffle |-> s.shuffle, order |-> s.order]

Restored(checkpoint) ==
  LET p == checkpoint.playback
      position == IF p.position \in 1..Len(checkpoint.items)
                  THEN p.position ELSE 0
  IN [EmptyQueue EXCEPT
        !.queue = checkpoint.items,
        !.position = position,
        !.status = CASE p.status = "Playing" -> "Paused"
                     [] p.status = "Paused" /\ position = 0 -> "Stopped"
                     [] OTHER -> p.status,
        !.repeat = p.repeat,
        !.shuffle = p.shuffle,
        !.order = p.order]

-----------------------------------------------------------------------------
(* Shuffle: a play order is a permutation of the queue's indices. *)

ShuffleOrderValid(order, len, current) ==
  /\ Len(order) = len
  /\ \A i \in 1..len : order[i] \in 1..len
  /\ \A i, j \in 1..len : order[i] = order[j] => i = j
  /\ current \in 1..len

\* The whole range shuffled, led by the current item if there is one.
BuildShuffleOrder(len, first) ==
  {p \in SetToSeqs(1..len) : first \in 1..len => p[1] = first}

EnsureShuffleOrder(s) ==
  IF ShuffleOrderValid(s.order, Len(s.queue), s.position)
  THEN {s.order}
  ELSE BuildShuffleOrder(Len(s.queue), s.position)

ShuffleCursor(order, index) ==
  IF \E i \in 1..Len(order) : order[i] = index
  THEN CHOOSE i \in 1..Len(order) : order[i] = index
  ELSE 1

-----------------------------------------------------------------------------
(* The refill life cycle of continuous play. *)

\* Variant: the reservation of the cancelled refill stays taken.
CancelRefillKeepsStarted(s) ==
  [s EXCEPT !.revision = @ + 1, !.activity = "None", !.resumeAt = 0]

CancelRefill(s) ==
  [s EXCEPT !.revision = @ + 1, !.activity = "None",
            !.started = FALSE, !.resumeAt = 0]

SeedPosition(s) ==
  IF s.position # 0 THEN s.position
  ELSE IF s.resumeAt > 1 THEN s.resumeAt - 1 ELSE 0

CanBeginRefill(s) ==
  LET seed == SeedPosition(s)
  IN /\ ~s.started
     /\ s.repeat = "Off"
     /\ s.status = "Playing" \/ s.activity = "Finding"
     /\ seed \in 1..Len(s.queue)
     /\ s.queue[seed] \in Track
     /\ Len(s.queue) - seed < MinUpcoming

BeginRefill(s) == [s EXCEPT !.started = TRUE, !.activity = "Finding"]

CanRequestRefillResume(s) ==
  LET at == SeedPosition(s)
  IN /\ s.repeat = "Off"
     /\ at # 0 /\ at = Len(s.queue)
     /\ s.queue[at] \in Track
     /\ s.status = "Playing" \/ s.resumeAt # 0

RequestRefillResume(s) ==
  [s EXCEPT !.resumeAt = Len(s.queue) + 1, !.started = FALSE,
            !.activity = "Finding"]

\* Variant: off by one, the index of the last item.
PreserveResumeAtLast(s) == [s EXCEPT !.resumeAt = Len(s.queue)]

PreserveRefillResume(s) == [s EXCEPT !.resumeAt = Len(s.queue) + 1]

ClearExhaustionAfterAdvance(s, next) ==
  IF s.position # next /\ s.activity = "Exhausted" THEN CancelRefill(s) ELSE s

\* Variant: the revision is not compared.
AnyRefillIsCurrent(s, revision) == s.activity # "None"

\* The guard against results a listener's action has made stale.
RefillIsCurrent(s, revision) ==
  s.revision = revision /\ s.activity # "None"

FinishRefill(s, items) ==
  IF items = <<>> THEN [s EXCEPT !.activity = "Exhausted"]
  ELSE [s EXCEPT !.queue = @ \o items,
                 !.activity = "None",
                 !.started = FALSE,
                 !.resumeAt = 0,
                 !.position = IF s.resumeAt # 0 THEN s.resumeAt ELSE @,
                 !.status = IF s.resumeAt # 0 THEN "Playing" ELSE @]

-----------------------------------------------------------------------------
(* Moving through the queue. *)

\* The play order and the position an advance may choose; 0 is the end.
ChoicesAlong(s, order) ==
  LET len == Len(s.queue)
      cursor == ShuffleCursor(order, s.position)
  IN CASE cursor < len -> {<<order, order[cursor + 1]>>}
       [] cursor >= len /\ s.repeat = "All" ->
            {<<p, p[1]>> : p \in BuildShuffleOrder(len, 0)}
       [] OTHER -> {<<order, 0>>}

SequentialNext(s) ==
  CASE s.position < Len(s.queue) -> s.position + 1
    [] s.position >= Len(s.queue) /\ s.repeat = "All" -> 1
    [] OTHER -> 0

AdvanceChoices(s) ==
  IF s.shuffle THEN UNION {ChoicesAlong(s, o) : o \in EnsureShuffleOrder(s)}
  ELSE {<<s.order, SequentialNext(s)>>}

Landed(s, next, stopAtEnd) ==
  CASE next # 0 ->
         [ClearExhaustionAfterAdvance(s, next) EXCEPT !.position = next]
    [] next = 0 /\ stopAtEnd -> [s EXCEPT !.status = "Stopped"]
    [] OTHER -> s

Advance(s, stopAtEnd) ==
  IF s.position = 0 \/ s.queue = <<>> THEN {s}
  ELSE {Landed([s EXCEPT !.order = c[1]], c[2], stopAtEnd) :
          c \in AdvanceChoices(s)}

\* The end of a track: repeat-one replays it, otherwise the queue advances,
\* and a drained queue remembers where a pending refill has to start.
TrackEnded(s) ==
  IF s.repeat = "One" THEN {s}
  ELSE {IF t.status = "Stopped" /\ t.activity # "None"
        THEN PreserveRefillResume(t) ELSE t : t \in Advance(s, TRUE)}

\* Variant: predicts the old order's first item where a cycle ends.
PeekPredictsNextCycle(s) ==
  LET len == Len(s.queue)
      cursor == ShuffleCursor(s.order, s.position)
  IN IF s.position = 0 \/ len = 0 THEN 0
     ELSE CASE s.repeat = "One" -> s.position
            [] s.repeat # "One" /\ s.shuffle ->
                 IF ShuffleOrderValid(s.order, len, s.position)
                 THEN s.order[(cursor % len) + 1] ELSE 0
            [] s.repeat # "One" /\ ~s.shuffle -> SequentialNext(s)

\* The `next_up` hint: where an advance will go, or 0 if that is not known.
PeekNextIndex(s) ==
  LET len == Len(s.queue)
      cursor == ShuffleCursor(s.order, s.position)
  IN IF s.position = 0 \/ len = 0 THEN 0
     ELSE CASE s.repeat = "One" -> s.position
            [] s.repeat # "One" /\ s.shuffle ->
                 IF ShuffleOrderValid(s.order, len, s.position) /\ cursor < len
                 THEN s.order[cursor + 1] ELSE 0
            [] s.repeat # "One" /\ ~s.shuffle -> SequentialNext(s)

IndexBefore(s, order) ==
  LET cursor == ShuffleCursor(order, s.position)
  IN CASE cursor > 1 -> order[cursor - 1]
       [] cursor <= 1 /\ s.repeat = "All" -> order[Len(order)]
       [] OTHER -> s.position

StepPrevious(s) ==
  CASE s.position = 0 -> {s}
    [] s.position # 0 /\ s.shuffle ->
         {[s EXCEPT !.order = o, !.position = IndexBefore(s, o)] :
            o \in EnsureShuffleOrder(s)}
    [] s.position > 1 /\ ~s.shuffle -> {[s EXCEPT !.position = @ - 1]}
    [] s.position = 1 /\ ~s.shuffle /\ s.repeat = "All" ->
         {[s EXCEPT !.position = Len(s.queue)]}
    [] OTHER -> {s}

-----------------------------------------------------------------------------
(* Changing the queue. *)

ShuffleTo(s, enabled) ==
  IF enabled
  THEN {[s EXCEPT !.shuffle = TRUE, !.order = o] :
          o \in BuildShuffleOrder(Len(s.queue), s.position)}
  ELSE {[s EXCEPT !.shuffle = FALSE, !.order = <<>>]}

ClearQueue(s) ==
  [s EXCEPT !.cleared = {s.queue}, !.queue = <<>>, !.position = 0,
            !.status = "Stopped"]

PlayIndex(s, index) ==
  IF index \in 1..Len(s.queue)
  THEN [s EXCEPT !.position = index, !.status = "Playing"]
  ELSE s

\* PlayTracks and PlayStream: a start past the end plays the last item.
ReplaceQueue(s, items, start) ==
  [s EXCEPT !.queue = items,
            !.position = IF start <= Len(items) THEN start ELSE Len(items),
            !.status = IF items = <<>> THEN "Stopped" ELSE "Playing"]

\* Variant: the cursor is not clamped when the last item, playing, goes.
RemoveItemUnclamped(s, index) ==
  IF index \notin 1..Len(s.queue) THEN s
  ELSE [s EXCEPT !.queue = RemoveAt(@, index),
                 !.position = IF @ > index THEN @ - 1 ELSE @]

\* Variant: any other item removed shifts the cursor, set or not.
RemoveItemAlwaysShifts(s, index) ==
  IF index \notin 1..Len(s.queue) THEN s
  ELSE [s EXCEPT !.queue = RemoveAt(@, index),
                 !.position = IF @ # index THEN @ - 1 ELSE @]

RemoveItem(s, index) ==
  LET rest == RemoveAt(s.queue, index)
  IN IF index \notin 1..Len(s.queue) THEN s
     ELSE CASE s.position = index /\ rest = <<>> ->
                 [s EXCEPT !.queue = rest, !.position = 0, !.status = "Stopped"]
            [] s.position = index /\ rest # <<>> ->
                 [s EXCEPT !.queue = rest,
                           !.position = IF @ <= Len(rest) THEN @ ELSE Len(rest)]
            [] s.position > index ->
                 [s EXCEPT !.queue = rest, !.position = @ - 1]
            [] OTHER -> [s EXCEPT !.queue = rest]

\* Variant: the item moved onto does not make room.
ReindexOffByOne(pos, from, to) ==
  CASE pos = from -> to
    [] from < pos /\ pos < to -> pos - 1
    [] to <= pos /\ pos < from -> pos + 1
    [] OTHER -> pos

ReindexAfterMove(pos, from, to) ==
  CASE pos = from -> to
    [] from < pos /\ pos <= to -> pos - 1
    [] to <= pos /\ pos < from -> pos + 1
    [] OTHER -> pos

MoveItem(s, from, to) ==
  IF ~({from, to} \subseteq 1..Len(s.queue)) \/ from = to THEN s
  ELSE [s EXCEPT
          !.queue = InsertAt(RemoveAt(@, from), to, s.queue[from]),
          !.position = IF @ = 0 THEN 0 ELSE ReindexAfterMove(@, from, to)]

\* Variant: the indices behind the insertion are not shifted.
SpliceOrderUnshifted(order, current, count) ==
  LET cursor == ShuffleCursor(order, current)
  IN SubSeq(order, 1, cursor) \o [i \in 1..count |-> current + i]
       \o SubSeq(order, cursor + 1, Len(order))

\* The play order after `count` items went in behind `current`.
SpliceOrder(order, current, count) ==
  LET shifted == [i \in 1..Len(order) |->
                    IF order[i] > current THEN order[i] + count ELSE order[i]]
      cursor == ShuffleCursor(order, current)
      added == [i \in 1..count |-> current + i]
  IN SubSeq(shifted, 1, cursor) \o added
       \o SubSeq(shifted, cursor + 1, Len(order))

EnqueueItems(s, items, next) ==
  IF items = <<>> \/ ~next \/ s.position = 0
  THEN {[s EXCEPT !.queue = @ \o items]}
  ELSE LET grown == [s EXCEPT !.queue =
                       SubSeq(@, 1, s.position) \o items
                         \o SubSeq(@, s.position + 1, Len(@))]
       IN CASE ~s.shuffle -> {grown}
            [] s.shuffle
               /\ ShuffleOrderValid(s.order, Len(s.queue), s.position) ->
                 {[grown EXCEPT !.order =
                     SpliceOrder(@, s.position, Len(items))]}
            [] OTHER ->
                 {[grown EXCEPT !.order = o] :
                    o \in BuildShuffleOrder(Len(grown.queue), s.position)}

-----------------------------------------------------------------------------
(* How a command is classified, and what it does before its own effect. *)

\* Variant: removing an item rewrites only the playback row.
MutatesQueueButRemove == {"PlayTracks", "Enqueue", "Clear",
                          "RestoreClearedQueue", "MoveQueueItem", "PlayStream"}

MutatesQueue == {"PlayTracks", "Enqueue", "Clear", "RestoreClearedQueue",
                 "RemoveQueueItem", "MoveQueueItem", "PlayStream"}

\* Variant: adding tracks leaves the refill in flight.
CancelsButEnqueue ==
  {"SetRepeat", "SetShuffle", "Pause", "Stop", "Clear", "PlayQueueIndex",
   "PlayTracks", "RemoveQueueItem", "MoveQueueItem", "PlayStream"}

CancelsAutoplayRefill ==
  {"SetRepeat", "SetShuffle", "Pause", "Stop", "Clear", "PlayQueueIndex",
   "PlayTracks", "Enqueue", "RemoveQueueItem", "MoveQueueItem", "PlayStream"}

Prepared(s, command) ==
  LET t == IF command \in CancelsAutoplayRefill THEN CancelRefill(s) ELSE s
  IN IF command \in MutatesQueue \ {"Clear", "RestoreClearedQueue"}
     THEN [t EXCEPT !.cleared = {}] ELSE t

=============================================================================
