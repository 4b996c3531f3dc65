--------------------------- MODULE PlayerCommands ---------------------------
(***************************************************************************)
(* A listener's commands on a queue (`apply_to_queue_state` of players.rs) *)
(* as an operator, for the players that hold a queue among other state.    *)
(* Zones, Snapcast players and MPD players all run it.                     *)
(***************************************************************************)
EXTENDS QueueState

CONSTANTS Batches,      \* what PlayTracks may replace the queue with
          MaxLen        \* bound: items in the queue

ASSUME CommandsAssumption == Batches \subseteq Seq(Track) /\ MaxLen \in Nat

PlayerCommand ==
  {"Play", "Pause", "Stop", "Next", "Previous", "Seek", "SetVolume", "SetRepeat",
   "SetShuffle", "Clear", "RestoreClearedQueue", "PlayTracks", "Enqueue",
   "PlayQueueIndex", "RemoveQueueItem", "MoveQueueItem", "PlayStream"}

\* What a command may carry.
Arguments(command) ==
  CASE command = "PlayTracks" -> Batches
    [] command \in {"PlayQueueIndex", "RemoveQueueItem"} -> 1..MaxLen
    [] command = "MoveQueueItem" -> (1..MaxLen) \X (1..MaxLen)
    [] command = "Enqueue" -> Track \X BOOLEAN
    [] command = "SetShuffle" -> BOOLEAN
    [] command = "SetRepeat" -> Repeat
    [] OTHER -> {0}

Applied(s, command, arg) ==
  CASE command = "Play" -> {[s EXCEPT !.status = "Playing"]}
    [] command = "Pause" -> {[s EXCEPT !.status = "Paused"]}
    [] command = "Stop" -> {[s EXCEPT !.status = "Stopped"]}
    [] command = "Next" -> Advance(s, FALSE)
    [] command = "Previous" -> StepPrevious(s)
    [] command \in {"Seek", "SetVolume"} -> {s}
    [] command = "SetRepeat" -> {[s EXCEPT !.repeat = arg]}
    [] command = "SetShuffle" -> ShuffleTo(s, arg)
    [] command = "Clear" -> {ClearQueue(s)}
    [] command = "RestoreClearedQueue" ->
         {[s EXCEPT !.queue = old, !.cleared = {}] :
            old \in IF s.queue = <<>> THEN s.cleared ELSE {}}
    [] command = "PlayQueueIndex" -> {PlayIndex(s, arg)}
    [] command = "PlayTracks" -> {ReplaceQueue(s, arg, 1)}
    [] command = "PlayStream" -> {ReplaceQueue(s, <<Radio>>, 1)}
    [] command = "Enqueue" -> EnqueueItems(s, <<arg[1]>>, arg[2])
    [] command = "RemoveQueueItem" -> {RemoveItem(s, arg)}
    [] command = "MoveQueueItem" -> {MoveItem(s, arg[1], arg[2])}

\* The first half of every player's `execute`: Next waits for a refill that
\* was asked for, and what makes a lookup stale cancels it.  None where the
\* command is refused.
Outcomes(q, command, arg) ==
  IF command = "Next" /\ q.resumeAt # 0 THEN {q}
  ELSE Applied(Prepared(q, command), command, arg)

\* The refill's revision is only told apart by whether it is still current.
Uncounted(s) == [s EXCEPT !.revision = 0]
=============================================================================
