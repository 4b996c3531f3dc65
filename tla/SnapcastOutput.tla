--------------------------- MODULE SnapcastOutput ---------------------------
(***************************************************************************)
(* A Snapcast player (players.rs) and its FIFO writer thread (writer.rs).  *)
(*                                                                         *)
(* A command changes the queue under the state mutex (the first half of    *)
(* `execute`) and then tells the writer to be silent where that is called  *)
(* for and wakes the reconcile worker (the second half).  The worker loads *)
(* the current track and preloads the next one, with awaits in between at  *)
(* which everything may change; a new request makes it start again.  The   *)
(* writer plays, rolls into the preloaded track by itself, and reports; a  *)
(* control task applies its reports to the queue.                          *)
(*                                                                         *)
(* A writer generation is compared for equality only, so one that nothing  *)
(* refers to is used again; `fresh` stands for "the load revision has not  *)
(* been bumped since".  Left out: time played, volume, equalisation, and   *)
(* the pacing of the FIFO and its reopening.                               *)
(***************************************************************************)
EXTENDS PlayerCommands, FiniteSets

CONSTANTS Nothing,      \* the None of an optional item
          Generations,  \* names of writer loads
          Commands,     \* the commands a listener may send
          Found,        \* what a lookup for continuous play may find
          MaxCommands   \* bound: so many are sent

ASSUME SnapcastAssumption ==
  /\ Commands \subseteq PlayerCommand /\ Found \subseteq Seq(Track)
  /\ Nothing \notin Item \cup Generations
  /\ IsFiniteSet(Generations)
  /\ MaxCommands \in Nat

VARIABLES
  q,          \* the player's queue (QueueState)
  issued,     \* commands whose second half is still to come
  sent,       \* so many commands were sent
  lookup,     \* continuous play's lookup: "none", "current" or "stale"
  loaded,     \* `loaded`: what the player believes the writer has
  requested,  \* the reconcile worker's watch channel has a new value
  worker,     \* where the reconcile worker is, and what it has read
  channel,    \* messages to the writer thread
  writer,     \* the writer thread's own state
  events,     \* its reports to the control task, and what it plays then
  astray      \* history: a report about what is loaded was not followed

vars == <<q, issued, sent, lookup, loaded, requested, worker, channel, writer,
          events, astray>>
listener == <<issued, sent, lookup>>
output == <<writer, events>>

Optional == Item \cup {Nothing}
NoLoad == [item |-> Nothing, position |-> 0, gen |-> Nothing,
           fresh |-> FALSE, next |-> Nothing, ready |-> FALSE]
Idle == [at |-> "idle", item |-> Nothing, position |-> 0, next |-> Nothing,
         gen |-> Nothing, fresh |-> FALSE, cached |-> FALSE]
Silence == [item |-> Nothing, gen |-> Nothing, started |-> FALSE]

\* `restore`: what was playing comes back paused.
Init ==
  /\ q \in {Restored([items |-> batch,
                     playback |-> [Playback(EmptyQueue) EXCEPT
                                     !.position = 1, !.status = "Playing"]]) :
             batch \in Batches}
  /\ issued = {} /\ sent = 0 /\ lookup = "none"
  /\ loaded = NoLoad
  /\ requested = FALSE
  /\ worker = Idle
  /\ channel = <<>>
  /\ writer = [current |-> Silence, next |-> Nothing, playing |-> FALSE]
  /\ events = <<>>
  /\ astray = FALSE

ItemAt(s, position) ==
  IF position \in 1..Len(s.queue) THEN s.queue[position] ELSE Nothing

Current == ItemAt(q, q.position)

NextAlong(s, cursor) ==
  CASE cursor < Len(s.order) -> s.order[cursor + 1]
    [] cursor >= Len(s.order) /\ s.repeat = "All" -> s.order[1]
    [] OTHER -> 0

\* `next_index`, 0 where the queue ends.
NextIndex(s) ==
  IF s.position = 0 \/ s.queue = <<>> THEN 0
  ELSE CASE s.repeat = "One" -> s.position
         [] s.repeat # "One" /\ s.shuffle
            /\ ShuffleOrderValid(s.order, Len(s.queue), s.position) ->
              NextAlong(s, ShuffleCursor(s.order, s.position))
         [] OTHER -> SequentialNext(s)

\* What the worker preloads, and the writer rolls into: tracks only.
NextTrack(s) ==
  LET item == ItemAt(s, NextIndex(s))
  IN IF item \in Track THEN item ELSE Nothing

Send(messages) == channel' = channel \o messages
Stopping == <<[do |-> "Stop"]>>
Playing(on) == <<[do |-> "SetPlaying", on |-> on]>>

\* Generations that nothing refers to; one is left for every load there is to be
\* (a bound: so many may be in use at a time).
Unused ==
  {g \in Generations :
    /\ g \notin {loaded.gen, worker.gen, writer.current.gen}
    /\ \A i \in 1..Len(channel) :
         channel[i].do \in {"Load", "Preload", "ClearPreload"} => channel[i].gen # g
    /\ \A i \in 1..Len(events) : events[i].gen # g}
UnusedGeneration == CHOOSE g \in Unused : TRUE

-----------------------------------------------------------------------------
(* Commands: `execute`. *)

ApplyCommand(command) ==
  /\ sent < MaxCommands
  /\ command \in Commands \ issued
  /\ \E arg \in Arguments(command) : \E s \in Outcomes(q, command, arg) :
       /\ Len(s.queue) <= MaxLen
       /\ q' = Uncounted(s)
  /\ issued' = issued \cup {command}
  /\ sent' = sent + 1
  /\ lookup' = IF lookup = "current" /\ command \in CancelsAutoplayRefill
               THEN "stale" ELSE lookup
  /\ UNCHANGED <<loaded, requested, worker, channel, output>>

Reloads == {"Seek", "Next", "Previous", "PlayTracks", "PlayQueueIndex",
            "Stop", "Clear", "PlayStream"}
Silences == {"Stop", "Clear", "PlayStream"}

\* The second half: the load revision, the transport message, the request.
FinishCommand(command) ==
  LET stale == [loaded EXCEPT !.fresh = @ /\ command \notin Reloads]
      pausesRadio == command = "Pause" /\ loaded.item = Radio
  IN /\ command \in issued
     /\ issued' = issued \ {command}
     /\ CASE command \in Silences \/ pausesRadio ->
               Send(Stopping) /\ loaded' = NoLoad
          [] command = "Pause" /\ ~pausesRadio ->
               Send(Playing(FALSE)) /\ loaded' = stale
          [] OTHER -> loaded' = stale /\ UNCHANGED channel
     /\ q' = IF pausesRadio THEN [q EXCEPT !.activity = "None"] ELSE q
     /\ worker' = [worker EXCEPT !.fresh = @ /\ command \notin Reloads]
     /\ requested' = TRUE
     /\ UNCHANGED <<sent, lookup, output>>

Command == \E command \in Commands :
             ApplyCommand(command) \/ FinishCommand(command)

-----------------------------------------------------------------------------
(* Continuous play asks for a lookup, and its result comes in.             *)

BeginAutoplayRefill ==
  /\ Found # {} /\ lookup = "none"
  /\ CanBeginRefill(q)
  /\ q' = BeginRefill(q)
  /\ lookup' = "current"
  /\ UNCHANGED <<issued, sent, loaded, requested, worker, channel, output>>

\* The `queue_activity` that marks the lookup is the one audio preparation
\* uses as well.
FinishAutoplayRefill(items) ==
  /\ lookup # "none"
  /\ lookup' = "none"
  /\ IF lookup = "current" /\ q.activity # "None"
     THEN /\ Len(q.queue) + Len(items) <= MaxLen
          /\ q' = FinishRefill(q, items)
          /\ requested' = (requested \/ items # <<>>)
     ELSE UNCHANGED <<q, requested>>
  /\ UNCHANGED <<issued, sent, loaded, worker, channel, output>>

Refill == BeginAutoplayRefill \/ \E items \in Found : FinishAutoplayRefill(items)

-----------------------------------------------------------------------------
(* The reconcile worker: a step is what it does between two awaits, and   *)
(* `at` names the next one.  Only the locks order it with the others.      *)

At(step) == worker.at = step /\ UNCHANGED <<listener, requested, output>>
Then(step) == worker' = [worker EXCEPT !.at = step]
Done == worker' = Idle

\* A new request: it drops what it was doing and reads the queue anew.
Reconcile ==
  /\ requested
  /\ requested' = FALSE
  /\ worker' = [Idle EXCEPT
       !.at = CASE q.status = "Playing" /\ Current \in Track -> "compare"
                [] q.status = "Playing" /\ Current = Radio -> "radio"
                [] q.status = "Paused" -> "pause"
                [] OTHER -> "stop",
       !.item = Current, !.position = q.position, !.next = NextTrack(q),
       !.fresh = TRUE]
  /\ UNCHANGED <<q, listener, loaded, channel, output>>

ReconcileStop ==
  /\ At("stop")
  /\ Send(Stopping) /\ loaded' = NoLoad
  /\ Done /\ UNCHANGED q

ReconcilePause ==
  /\ At("pause")
  /\ Done
  /\ IF loaded.item = Radio
     THEN /\ Send(Stopping) /\ loaded' = NoLoad
          /\ q' = [q EXCEPT !.activity = "None"]
     ELSE Send(Playing(FALSE)) /\ UNCHANGED <<loaded, q>>

\* Variant: playback that was paused or stopped meanwhile is not noticed.
StillThere == q.position = worker.position /\ Current = worker.item

\* What the worker read is what the player still has to play.
StillWanted ==
  /\ q.status = "Playing"
  /\ q.position = worker.position
  /\ Current = worker.item

\* Variant: a track that took the place of the loaded one is not noticed.
LoadedInPlace ==
  loaded.position = worker.position /\ loaded.fresh /\ worker.fresh

AlreadyLoaded ==
  /\ loaded.item = worker.item
  /\ loaded.position = worker.position
  /\ loaded.fresh /\ worker.fresh

CompareLoaded ==
  /\ At("compare")
  /\ IF AlreadyLoaded /\ StillWanted
     THEN Send(Playing(TRUE)) /\ Then("preload")
     ELSE UNCHANGED channel /\ Then("replace")
  /\ UNCHANGED <<q, loaded>>

\* The preloaded stream is used unless the command was a seek or the time
\* played is not zero, which are not modelled.
ReplaceLoaded ==
  /\ At("replace")
  /\ \E cached \in {FALSE, loaded.ready /\ loaded.next = worker.item} :
       worker' = [worker EXCEPT !.at = "announce", !.cached = cached]
  /\ Send(Stopping) /\ loaded' = NoLoad
  /\ UNCHANGED q

AnnouncePreparation ==
  /\ At("announce")
  /\ q' = [q EXCEPT !.activity = "Preparing"]
  /\ Then("load")
  /\ UNCHANGED <<loaded, channel>>

\* The decoder cannot be started.
PreparationFails ==
  /\ At("load") /\ ~worker.cached
  /\ q' = IF q.status = "Playing" /\ q.position = worker.position /\ worker.fresh
          THEN [q EXCEPT !.status = "Stopped", !.activity = "Failed"] ELSE q
  /\ Done
  /\ UNCHANGED <<loaded, channel>>

LoadCurrent(g) ==
  /\ At("load") /\ g \in Unused
  /\ IF StillWanted /\ worker.fresh
     THEN /\ Send(<<[do |-> "Load", item |-> worker.item, gen |-> g]>>
                    \o Playing(TRUE))
          /\ loaded' = [NoLoad EXCEPT !.item = worker.item, !.gen = g,
                          !.position = worker.position, !.fresh = TRUE]
          /\ Then("preload")
     ELSE Done /\ UNCHANGED <<loaded, channel>>
  /\ UNCHANGED q

\* `preload`: what the worker read as the next track, unless it is there.
ClearPreload ==
  /\ At("preload")
  /\ IF loaded.next = worker.next /\ loaded.ready
     THEN Done /\ UNCHANGED <<loaded, channel>>
     ELSE /\ Send(<<[do |-> "ClearPreload", gen |-> loaded.gen]>>)
          /\ loaded' = [loaded EXCEPT !.next = worker.next, !.ready = FALSE]
          /\ worker' = IF worker.next = Nothing THEN Idle
                       ELSE [worker EXCEPT !.at = "preloading", !.gen = loaded.gen]
  /\ UNCHANGED q

PreloadNext ==
  /\ At("preloading")
  /\ IF /\ loaded.gen = worker.gen /\ loaded.next = worker.next
        /\ q.status = "Playing" /\ q.position = loaded.position
        /\ NextTrack(q) = worker.next
     THEN /\ Send(<<[do |-> "Preload", item |-> worker.next, gen |-> worker.gen]>>)
          /\ loaded' = [loaded EXCEPT !.ready = TRUE]
     ELSE UNCHANGED <<loaded, channel>>
  /\ Done /\ UNCHANGED q

PreloadFails ==
  /\ At("preloading")
  /\ Done /\ UNCHANGED <<q, loaded, channel>>

\* `reconcile_radio`; `ready` is its radio_queued.
ConnectRadio(g) ==
  /\ At("radio") /\ g \in Unused
  /\ CASE ~StillWanted -> Done /\ UNCHANGED <<q, loaded, channel>>
       [] StillWanted /\ loaded.item = Radio /\ loaded.ready
          /\ loaded.position = worker.position ->
            Send(Playing(TRUE)) /\ Done /\ UNCHANGED <<q, loaded>>
       [] OTHER ->
            /\ Send(Stopping)
            /\ loaded' = [NoLoad EXCEPT !.item = Radio, !.gen = g,
                            !.position = worker.position]
            /\ q' = [q EXCEPT !.activity = "Connecting"]
            /\ worker' = [worker EXCEPT !.at = "connect", !.gen = g]

StartRadio ==
  /\ At("connect")
  /\ IF loaded.gen = worker.gen /\ StillWanted
     THEN /\ Send(<<[do |-> "Load", item |-> Radio, gen |-> worker.gen]>>
                    \o Playing(TRUE))
          /\ loaded' = [loaded EXCEPT !.ready = TRUE]
     ELSE UNCHANGED <<loaded, channel>>
  /\ Done /\ UNCHANGED q

-----------------------------------------------------------------------------
(* The control task applies the writer's reports, with `loaded` and the    *)
(* queue locked.                                                           *)

\* Variant: a report of an earlier load is not told apart.
OfAnyLoad(gen) ==
  loaded.gen # Nothing /\ q.position = loaded.position /\ Current = loaded.item

\* The report is of what the player has loaded and shows.
OfThisLoad(gen) ==
  /\ gen = loaded.gen
  /\ q.position = loaded.position
  /\ Current = loaded.item

\* The worker may be cut short at any await, but not by a report.
Reported == UNCHANGED <<listener, worker>>

OnAdvanced(gen) ==
  LET next == NextIndex(q)
  IN /\ Reported /\ UNCHANGED channel
     /\ IF OfThisLoad(gen) /\ q.status = "Playing"
        THEN /\ q' = [ClearExhaustionAfterAdvance(q, next) EXCEPT !.position = next]
             /\ loaded' = [loaded EXCEPT !.item = ItemAt(q, next), !.position = next,
                             !.next = Nothing, !.ready = FALSE]
             /\ requested' = TRUE
        ELSE UNCHANGED <<q, loaded, requested>>

\* Nothing was preloaded: the worker is asked for the next track, if any.
OnDrained(gen) ==
  LET next == NextIndex(q)
      waits == q.activity # "None" /\ q.position = Len(q.queue)
  IN /\ Reported /\ UNCHANGED channel
     /\ IF OfThisLoad(gen) /\ q.status = "Playing"
        THEN /\ q' = IF next # 0 THEN [q EXCEPT !.position = next]
                     ELSE [(IF waits THEN PreserveRefillResume(q) ELSE q)
                             EXCEPT !.status = "Stopped"]
             /\ loaded' = NoLoad
             /\ requested' = (requested \/ next # 0)
        ELSE UNCHANGED <<q, loaded, requested>>

OnStreamStarted(gen) ==
  /\ Reported /\ UNCHANGED <<loaded, channel, requested>>
  /\ q' = IF /\ OfThisLoad(gen) /\ loaded.item # Nothing
             /\ q.status \in {"Playing", "Paused"}
          THEN [q EXCEPT !.activity = "None"] ELSE q

OnStreamFailed(gen) ==
  /\ UNCHANGED requested
  /\ IF OfThisLoad(gen) /\ loaded.item # Nothing /\ q.status = "Playing"
     THEN /\ Send(Stopping)
          /\ q' = [q EXCEPT !.status = "Stopped", !.activity = "Failed"]
          /\ loaded' = NoLoad
     ELSE UNCHANGED <<q, loaded, channel>>

\* The station is unknown, or its record cannot be read.
RadioFails ==
  /\ worker.at = "connect"
  /\ OnStreamFailed(worker.gen)
  /\ Done /\ UNCHANGED <<listener, output>>

HandleReport ==
  /\ events # <<>>
  /\ LET event == Head(events)
     IN CASE event.is = "Advanced" -> OnAdvanced(event.gen)
          [] event.is = "Drained" -> OnDrained(event.gen)
          [] event.is = "Started" -> OnStreamStarted(event.gen)
          [] event.is = "Failed" -> OnStreamFailed(event.gen) /\ Reported
  /\ events' = Tail(events)
  /\ UNCHANGED writer

-----------------------------------------------------------------------------
(* The writer thread.                                                      *)

\* What one message makes of the writer.
After(w, m) ==
  CASE m.do = "Load" ->
         [w EXCEPT !.current = [item |-> m.item, gen |-> m.gen, started |-> FALSE],
                   !.next = Nothing]
    [] m.do = "Preload" -> IF w.current.gen = m.gen /\ w.current.item \in Track
                           THEN [w EXCEPT !.next = m.item] ELSE w
    [] m.do = "ClearPreload" -> IF w.current.gen = m.gen /\ w.current.item \in Track
                                THEN [w EXCEPT !.next = Nothing] ELSE w
    [] m.do = "SetPlaying" -> [w EXCEPT !.playing = m.on]
    [] m.do = "Stop" -> [current |-> Silence, next |-> Nothing, playing |-> FALSE]

Report(is) == events' = Append(events, [is |-> is, gen |-> writer.current.gen,
                                        item |-> writer'.current.item])

TakeMessage ==
  /\ channel # <<>>
  /\ writer' = After(writer, Head(channel))
  /\ channel' = Tail(channel)
  /\ UNCHANGED <<q, listener, loaded, requested, worker, events>>

\* Between two chunks.
Writing ==
  /\ writer.playing /\ writer.current.item # Nothing
  /\ UNCHANGED <<q, listener, loaded, requested, worker, channel>>

WriteFirst ==
  /\ Writing /\ ~writer.current.started
  /\ writer' = [writer EXCEPT !.current.started = TRUE]
  /\ Report("Started")

\* The preloaded track goes on under the generation of the drained one.
RollsInto(w) ==
  [w EXCEPT !.current = [item |-> w.next, gen |-> w.current.gen, started |-> FALSE],
            !.next = Nothing]

TrackDrains ==
  /\ Writing /\ writer.current.item \in Track
  /\ IF writer.next # Nothing
     THEN writer' = RollsInto(writer) /\ Report("Advanced")
     ELSE writer' = [writer EXCEPT !.current = Silence] /\ Report("Drained")

\* A decoder fails, or a station ends.
StreamFails ==
  /\ Writing
  /\ writer' = [writer EXCEPT !.current = Silence]
  /\ Report("Failed")

Worker ==
  \/ Reconcile \/ ReconcileStop \/ ReconcilePause
  \/ CompareLoaded \/ ReplaceLoaded \/ AnnouncePreparation
  \/ PreparationFails \/ LoadCurrent(UnusedGeneration)
  \/ ClearPreload \/ PreloadNext \/ PreloadFails
  \/ ConnectRadio(UnusedGeneration) \/ StartRadio \/ RadioFails

WriterThread == TakeMessage \/ WriteFirst \/ TrackDrains \/ StreamFails

\* The player did not follow the writer: it ignored a report because playback
\* was not on, or the queue had changed since the next track was preloaded.
LosesTrack ==
  LET event == Head(events)
  IN /\ events # <<>> /\ events' = Tail(events)
     /\ event.gen = loaded.gen /\ event.is # "Started"
     /\ \/ q.status # "Playing" \/ ~OfThisLoad(event.gen)
        \/ loaded'.item # event.item

Tracked == astray' = (loaded'.gen = loaded.gen /\ (astray \/ LosesTrack))

Next ==
  \/ Command /\ Tracked
  \/ Refill /\ Tracked
  \/ Worker /\ Tracked
  \/ HandleReport /\ Tracked
  \/ WriterThread /\ Tracked

\* Handlers run to their end, the worker and the control task are polled,
\* and the writer thread takes its messages.
Fairness ==
  /\ \A command \in Commands : WF_vars(FinishCommand(command) /\ Tracked)
  /\ WF_vars(Worker /\ Tracked)
  /\ WF_vars(HandleReport /\ Tracked)
  /\ WF_vars(TakeMessage /\ Tracked)

Spec == Init /\ [][Next]_vars /\ Fairness
-----------------------------------------------------------------------------
(* What the player promises.                                               *)

TypeOK ==
  /\ q.queue \in Seq(Item) /\ q.position \in 0..Len(q.queue)
  /\ q.status \in Status /\ q.repeat \in Repeat
  /\ q.activity \in Activity
  /\ issued \subseteq Commands /\ sent \in 0..MaxCommands
  /\ lookup \in {"none", "current", "stale"}
  /\ loaded.item \in Optional /\ loaded.next \in Track \cup {Nothing}
  /\ loaded.gen \in Generations \cup {Nothing}
  /\ requested \in BOOLEAN
  /\ worker.at = "idle" <=> worker = Idle
  /\ writer.current.item \in Optional /\ writer.next \in Track \cup {Nothing}
  /\ writer.current.item = Nothing => writer.current = Silence

\* What the writer will do once it has taken its messages: the last one that
\* says whether to play, and the last one that says what.
Queued(kinds) == {i \in 1..Len(channel) : channel[i].do \in kinds}
LastOf(kinds) == {i \in Queued(kinds) : \A j \in Queued(kinds) : j <= i}
WillPlay ==
  \/ \E i \in LastOf({"SetPlaying", "Stop"}) :
       channel[i].do = "SetPlaying" /\ channel[i].on
  \/ Queued({"SetPlaying", "Stop"}) = {} /\ writer.playing
WillHold ==
  \/ \E i \in LastOf({"Load", "Stop"}) : channel[i].do = "Load"
  \/ Queued({"Load", "Stop"}) = {} /\ writer.current # Silence

\* Nobody is about to tell it anything else.
Quiet == issued = {} /\ ~requested /\ worker = Idle

\* Once Pause or Stop has returned the writer is silent or about to be,
\* whatever the reconcile worker is doing, until playback is resumed; a queue
\* that has lost its cursor is silent as soon as the worker is done.
SilentUnlessPlaying ==
  issued = {} /\ q.status # "Playing" /\ (q.position = 0 => Quiet)
    => ~WillPlay \/ ~WillHold

\* When nothing is under way, the track heard is the one at the cursor, unless
\* the player has lost track of what its writer plays: a preloaded track began
\* while the queue was edited, or playback was paused as a track ended.
Settled == Quiet /\ channel = <<>> /\ events = <<>>
Heard == writer.playing /\ writer.current.item = Current
HeardUnlessAstray ==
  Settled /\ q.status = "Playing" /\ Current # Nothing /\ ~astray => Heard

\* Whatever fails, is replaced or comes late, a player that shows Playing
\* gets to play what it shows, or says that it does not play.
PlaysInTheEnd ==
  q.status = "Playing" ~>
    (Heard \/ q.status # "Playing" \/ Current = Nothing \/ astray)
=============================================================================
