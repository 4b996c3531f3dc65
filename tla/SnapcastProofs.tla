--------------------------- MODULE SnapcastProofs ---------------------------
(***************************************************************************)
(* A Snapcast player, for any commands and any interleaving of them with   *)
(* the reconcile worker, the writer thread and its reports: its queue and  *)
(* what it believes of the writer stay well formed, it is silent once it   *)
(* does not show Playing, and once it is at rest it plays what it shows.   *)
(* The second needs to know which messages are on their way: a generation  *)
(* is loaded once, and what the writer reports of the present one, it      *)
(* reports of what it was last told to play.  The third needs in addition  *)
(* what the messages and reports under way make of the item played, and    *)
(* how far the worker has got with the item at the cursor.                 *)
(***************************************************************************)
EXTENDS SnapcastOutput, QueueStateProofs

-----------------------------------------------------------------------------
(* The queue. *)

\* Where other work is announced too, the activity is free.
LEMMA ActivitySound ==
  ASSUME NEW s, Sound(FALSE, s), NEW v \in Activity
  PROVE  /\ Sound(FALSE, [s EXCEPT !.activity = v])
         /\ Sound(FALSE, [s EXCEPT !.status = "Stopped", !.activity = v])
<1> DEFINE t == [s EXCEPT !.activity = v]
           u == [s EXCEPT !.status = "Stopped", !.activity = v]
<1>1. s \in QueueStates
  BY DEF Sound
<1>2. t \in QueueStates /\ u \in QueueStates
  BY <1>1 DEF QueueStates, Status
<1>3. /\ t.queue = s.queue /\ t.position = s.position /\ t.resumeAt = s.resumeAt
      /\ u.queue = s.queue /\ u.position = s.position /\ u.resumeAt = s.resumeAt
  BY <1>1 DEF QueueStates
<1> HIDE DEF t, u
<1>4. Sound(FALSE, t) /\ Sound(FALSE, u)
  BY <1>2, <1>3 DEF Sound, CursorInRange, ResumeAtEnd
<1> QED
  BY <1>4 DEF t, u

LEMMA NextInRange ==
  ASSUME NEW s, Sound(FALSE, s)
  PROVE  NextIndex(s) \in 0..Len(s.queue)
<1>1. /\ s \in QueueStates /\ s.position \in 0..Len(s.queue)
      /\ Len(s.queue) \in Nat /\ (s.queue # <<>> => Len(s.queue) > 0)
  BY DEF Sound, CursorInRange, QueueStates
<1>2. CASE s.position = 0 \/ s.queue = <<>>
  BY <1>1, <1>2 DEF NextIndex
<1>3. CASE ~(s.position = 0 \/ s.queue = <<>>)
  <2>1. SequentialNext(s) \in 0..Len(s.queue)
    <3>1. CASE s.position < Len(s.queue)
      BY <1>1, <3>1 DEF SequentialNext
    <3>2. CASE s.position >= Len(s.queue) /\ s.repeat = "All"
      BY <1>1, <1>3, <3>2 DEF SequentialNext
    <3>3. CASE s.position >= Len(s.queue) /\ s.repeat # "All"
      <4>1. SequentialNext(s) = 0
        BY <1>1, <3>3 DEF SequentialNext
      <4> QED
        BY <1>1, <4>1
    <3> QED
      BY <1>1, <3>1, <3>2, <3>3
  <2>2. ASSUME ShuffleOrderValid(s.order, Len(s.queue), s.position)
        PROVE  NextAlong(s, ShuffleCursor(s.order, s.position)) \in 0..Len(s.queue)
    <3> DEFINE cursor == ShuffleCursor(s.order, s.position)
    <3>1. /\ Len(s.order) = Len(s.queue) /\ cursor \in Nat \ {0}
          /\ \A i \in 1..Len(s.queue) : s.order[i] \in 1..Len(s.queue)
      BY <1>1, <2>2, CursorPositive DEF ShuffleOrderValid, QueueStates
    <3> SUFFICES NextAlong(s, cursor) \in 0..Len(s.queue)
      OBVIOUS
    <3> HIDE DEF cursor
    <3>2. CASE cursor < Len(s.order)
      <4>1. NextAlong(s, cursor) = s.order[cursor + 1]
        BY <1>1, <3>1, <3>2 DEF NextAlong
      <4>2. cursor + 1 \in 1..Len(s.queue)
        BY <1>1, <3>1, <3>2
      <4>3. s.order[cursor + 1] \in 1..Len(s.queue)
        BY <3>1, <4>2
      <4> QED
        BY <4>1, <4>3
    <3>3. CASE cursor >= Len(s.order) /\ s.repeat = "All"
      <4>1. NextAlong(s, cursor) = s.order[1]
        BY <1>1, <3>1, <3>3 DEF NextAlong
      <4>2. 1 \in 1..Len(s.queue)
        BY <1>1, <1>3
      <4> QED
        BY <3>1, <4>1, <4>2
    <3>4. CASE cursor >= Len(s.order) /\ s.repeat # "All"
      <4>1. NextAlong(s, cursor) = 0
        BY <1>1, <3>1, <3>4 DEF NextAlong
      <4> QED
        BY <1>1, <4>1
    <3> QED
      BY <1>1, <3>1, <3>2, <3>3, <3>4
  <2>3. NextIndex(s) \in {s.position, SequentialNext(s)}
        \/ /\ ShuffleOrderValid(s.order, Len(s.queue), s.position)
           /\ NextIndex(s) = NextAlong(s, ShuffleCursor(s.order, s.position))
    BY <1>3 DEF NextIndex
  <2> QED
    BY <1>1, <2>1, <2>2, <2>3
<1> QED
  BY <1>2, <1>3

LEMMA ItemAtTyped ==
  ASSUME NEW s \in QueueStates, NEW position
  PROVE  ItemAt(s, position) \in Optional
BY DEF ItemAt, Optional, QueueStates

\* The cursor goes on with the writer.
LEMMA AdvancedSound ==
  ASSUME NEW s, Sound(FALSE, s), NEW next \in 0..Len(s.queue)
  PROVE  LET t == [ClearExhaustionAfterAdvance(s, next) EXCEPT !.position = next]
         IN /\ Sound(FALSE, t)
            /\ t.queue = s.queue /\ t.status = s.status
            /\ t.activity \in {s.activity, "None"}
<1> DEFINE u == ClearExhaustionAfterAdvance(s, next)
           t == [u EXCEPT !.position = next]
<1>1. Sound(FALSE, u) /\ u \in QueueStates
  BY CancelSound DEF ClearExhaustionAfterAdvance, Sound
<1>2. s \in QueueStates
  BY DEF Sound
<1>3. /\ u.queue = s.queue /\ u.status = s.status
      /\ u.activity \in {s.activity, "None"}
  BY <1>2 DEF ClearExhaustionAfterAdvance, CancelRefill, QueueStates
<1> HIDE DEF u
<1>4. next \in 0..Len(u.queue)
  BY <1>3
<1>5. Sound(FALSE, t)
  BY <1>1, <1>4, FlagsSound
<1>6. /\ t.queue = u.queue /\ t.status = u.status /\ t.activity = u.activity
  BY <1>1 DEF QueueStates
<1> QED
  BY <1>3, <1>5, <1>6 DEF u

\* A command announces no work in a queue it leaves empty.
LEMMA CommandsAnnounceNothing ==
  ASSUME NEW s, Sound(FALSE, s), NEW command \in PlayerCommand,
         NEW arg \in Arguments(command), NEW t \in Outcomes(s, command, arg),
         t.queue = <<>>, t.activity # "None"
  PROVE  s.queue = <<>> /\ s.activity # "None"
<1>1. s \in QueueStates
  BY DEF Sound
<1> DEFINE u == Prepared(s, command)
<1>2. t = s \/ t \in Applied(u, command, arg)
  BY DEF Outcomes
<1>3. CASE t = s
  BY <1>3
<1>4. CASE t \in Applied(u, command, arg) /\ command \in CancelsAutoplayRefill
  <2>1. Sound(FALSE, u) /\ NoRefill(u)
    BY <1>4, PreparedSound
  <2> HIDE DEF u
  <2>2. u \in QueueStates /\ u.activity # "Exhausted" /\ u.activity = "None"
    BY <2>1 DEF Sound, NoRefill
  <2>3. t.activity = u.activity
    BY <1>4, <2>2, AppliedKeepsRefill
  <2> QED
    BY <2>2, <2>3
<1>5. CASE t \in Applied(u, command, arg) /\ command = "RestoreClearedQueue"
  <2>1. u = s
    BY <1>5 DEF Prepared, CancelsAutoplayRefill, MutatesQueue
  <2>2. s.queue = <<>> /\ \E old : t = [s EXCEPT !.queue = old, !.cleared = {}]
    BY <1>5, <2>1 DEF Applied
  <2> QED
    BY <1>1, <2>2 DEF QueueStates
<1>6. CASE /\ t \in Applied(u, command, arg)
           /\ command \in {"Play", "Next", "Previous", "Seek", "SetVolume"}
  <2>1. u = s
    BY <1>6 DEF Prepared, CancelsAutoplayRefill, MutatesQueue
  <2>2. t.queue = s.queue
    <3>1. command \in PlayerCommand \ MutatesQueue /\ t \in Applied(s, command, arg)
      BY <1>6, <2>1 DEF MutatesQueue
    <3> QED
      BY <3>1, NavigationKeepsQueue
  <2>3. t.activity # "None" => s.activity # "None"
    <3>1. CASE s.activity # "Exhausted"
      BY <1>1, <1>6, <2>1, <3>1, AppliedKeepsRefill
    <3> QED
      BY <3>1
  <2> QED
    BY <2>2, <2>3
<1>7. \/ command \in CancelsAutoplayRefill \/ command = "RestoreClearedQueue"
      \/ command \in {"Play", "Next", "Previous", "Seek", "SetVolume"}
  BY DEF PlayerCommand, CancelsAutoplayRefill
<1> QED
  BY <1>2, <1>3, <1>4, <1>5, <1>6, <1>7

-----------------------------------------------------------------------------
(* Typing. *)

Steps == {"idle", "compare", "radio", "pause", "stop", "replace", "announce", "load",
          "preload", "preloading", "connect"}
Named == Generations \cup {Nothing}
Following == Track \cup {Nothing}

Loads == [item : Optional, position : Nat, gen : Named, fresh : BOOLEAN,
          next : Following, ready : BOOLEAN]
Works == [at : Steps, item : Optional, position : Nat, next : Following, gen : Named,
          fresh : BOOLEAN, cached : BOOLEAN]
Messages ==
  [do : {"Load"}, item : Item, gen : Generations]
    \cup [do : {"Preload"}, item : Track, gen : Named]
    \cup [do : {"ClearPreload"}, gen : Named]
    \cup [do : {"SetPlaying"}, on : BOOLEAN] \cup [do : {"Stop"}]
Writers ==
  [current : [item : Optional, gen : Named, started : BOOLEAN],
   next : Following, playing : BOOLEAN]
Reports ==
  [is : {"Advanced", "Drained", "Started", "Failed"}, gen : Generations,
   item : Optional]

\* Work in an empty queue is work on nothing loaded.
QueueTyped ==
  /\ Sound(FALSE, q)
  /\ q.queue = <<>> /\ q.activity # "None" => loaded.gen = Nothing

ListenerTyped ==
  /\ issued \subseteq Commands /\ sent \in 0..MaxCommands
  /\ lookup \in {"none", "current", "stale"} /\ requested \in BOOLEAN

LoadTyped == loaded \in Loads /\ (loaded.gen = Nothing => loaded.item = Nothing)

WorkTyped(w) ==
  /\ w \in Works
  /\ w.at = "idle" => w = Idle
  /\ w.at \in {"compare", "replace", "announce", "load"} => w.item \in Track
  /\ w.at \in {"radio", "connect"} => w.item = Radio
  /\ w.at = "connect" => w.gen \in Generations
  /\ w.at = "preloading" => w.next \in Track

WorkerTyped ==
  /\ WorkTyped(worker)
  /\ worker.at \in {"announce", "load"} => loaded.gen = Nothing

WriterTyped ==
  /\ writer \in Writers
  /\ writer.current.item = Nothing => writer.current = Silence
  /\ writer.current.item # Nothing => writer.current.gen \in Generations
  /\ channel \in Seq(Messages) /\ events \in Seq(Reports)

Typed == QueueTyped /\ ListenerTyped /\ LoadTyped /\ WorkerTyped /\ WriterTyped

LEMMA TypedMeans == Typed => TypeOK
<1> SUFFICES ASSUME Typed PROVE TypeOK
  OBVIOUS
<1>1. /\ q.queue \in Seq(Item) /\ q.position \in 0..Len(q.queue)
      /\ q.status \in Status /\ q.repeat \in Repeat /\ q.activity \in Activity
  BY DEF Typed, QueueTyped, Sound, CursorInRange, QueueStates
<1>2. /\ loaded.item \in Optional /\ loaded.next \in Track \cup {Nothing}
      /\ loaded.gen \in Generations \cup {Nothing}
  BY DEF Typed, LoadTyped, Loads, Named, Following
<1>3. /\ writer.current.item \in Optional /\ writer.next \in Track \cup {Nothing}
      /\ writer.current.item = Nothing => writer.current = Silence
  BY DEF Typed, WriterTyped, Writers, Following
<1>4. worker.at = "idle" <=> worker = Idle
  BY DEF Typed, WorkerTyped, WorkTyped, Idle
<1>5. /\ issued \subseteq Commands /\ sent \in 0..MaxCommands
      /\ lookup \in {"none", "current", "stale"} /\ requested \in BOOLEAN
  BY DEF Typed, ListenerTyped
<1> QED
  BY <1>1, <1>2, <1>3, <1>4, <1>5 DEF TypeOK

\* Nothing is loaded, and nobody works.
LEMMA NothingTyped ==
  /\ NoLoad \in Loads /\ NoLoad.gen = Nothing /\ NoLoad.item = Nothing
  /\ Idle \in Works /\ WorkTyped(Idle) /\ Idle.at = "idle"
  /\ Silence \in [item : Optional, gen : Named, started : BOOLEAN]
  /\ Silence.item = Nothing /\ Silence.gen = Nothing
<1>1. NoLoad \in Loads /\ NoLoad.gen = Nothing /\ NoLoad.item = Nothing
  BY DEF NoLoad, Loads, Optional, Named, Following
<1>2. Idle \in Works /\ Idle.at = "idle"
  BY DEF Idle, Works, Steps, Optional, Named, Following
<1>3. /\ Silence \in [item : Optional, gen : Named, started : BOOLEAN]
      /\ Silence.item = Nothing /\ Silence.gen = Nothing
  BY DEF Silence, Optional, Named
<1> QED
  BY <1>1, <1>2, <1>3 DEF WorkTyped

LEMMA MessagesTyped ==
  /\ Stopping \in Seq(Messages)
  /\ \A on \in BOOLEAN : Playing(on) \in Seq(Messages)
  /\ \A item \in Item, g \in Generations :
       <<[do |-> "Load", item |-> item, gen |-> g]>> \o Playing(TRUE) \in Seq(Messages)
  /\ \A g \in Named : <<[do |-> "ClearPreload", gen |-> g]>> \in Seq(Messages)
  /\ \A item \in Track, g \in Named :
       <<[do |-> "Preload", item |-> item, gen |-> g]>> \in Seq(Messages)
<1>1. ASSUME NEW m \in Messages PROVE <<m>> \in Seq(Messages)
  BY <1>1
<1>2. [do |-> "Stop"] \in Messages
  BY DEF Messages
<1>3. ASSUME NEW on \in BOOLEAN PROVE [do |-> "SetPlaying", on |-> on] \in Messages
  BY DEF Messages
<1>4. ASSUME NEW item \in Item, NEW g \in Generations
      PROVE  [do |-> "Load", item |-> item, gen |-> g] \in Messages
  BY DEF Messages
<1>5. ASSUME NEW g \in Named PROVE [do |-> "ClearPreload", gen |-> g] \in Messages
  BY DEF Messages
<1>6. ASSUME NEW item \in Track, NEW g \in Named
      PROVE  [do |-> "Preload", item |-> item, gen |-> g] \in Messages
  BY DEF Messages
<1>7. \A on \in BOOLEAN : Playing(on) \in Seq(Messages)
  BY <1>1, <1>3 DEF Playing
<1>8. ASSUME NEW item \in Item, NEW g \in Generations
      PROVE  <<[do |-> "Load", item |-> item, gen |-> g]>> \o Playing(TRUE)
               \in Seq(Messages)
  <2>1. <<[do |-> "Load", item |-> item, gen |-> g]>> \in Seq(Messages)
    BY <1>1, <1>4
  <2> QED
    BY <1>7, <2>1, ConcatProperties
<1> QED
  BY <1>1, <1>2, <1>5, <1>6, <1>7, <1>8 DEF Stopping

LEMMA SendTyped ==
  ASSUME channel \in Seq(Messages), NEW messages \in Seq(Messages), Send(messages)
  PROVE  channel' \in Seq(Messages)
BY ConcatProperties DEF Send

LEMMA ThenTyped ==
  ASSUME worker \in Works, NEW step \in Steps, Then(step)
  PROVE  /\ worker' \in Works /\ worker'.at = step
         /\ worker'.item = worker.item /\ worker'.position = worker.position
         /\ worker'.next = worker.next /\ worker'.gen = worker.gen
         /\ worker'.fresh = worker.fresh /\ worker'.cached = worker.cached
BY DEF Then, Works

LEMMA DoneTyped == Done => WorkerTyped'
BY NothingTyped DEF Done, WorkerTyped

\* What is still wanted is in the queue.
LEMMA WantedIsThere ==
  ASSUME Typed, StillWanted, worker.item \in Item
  PROVE  q.queue # <<>>
<1>1. Current \in Item /\ Nothing \notin Item
  BY SnapcastAssumption DEF StillWanted
<1>2. q.position \in 1..Len(q.queue)
  BY <1>1 DEF Current, ItemAt
<1> QED
  BY <1>2

LEMMA AnnouncedTyped ==
  ASSUME Typed, NEW v \in Activity,
         q' = [q EXCEPT !.activity = v] \/ q' = [q EXCEPT !.status = "Stopped",
                                                          !.activity = v],
         v = "None" \/ loaded'.gen = Nothing \/ q.queue # <<>>
  PROVE  QueueTyped'
<1>1. q \in QueueStates /\ Sound(FALSE, q)
  BY DEF Typed, QueueTyped, Sound
<1>2. Sound(FALSE, q)'
  <2> DEFINE s == q
             t == q'
  <2>1. Sound(FALSE, s) /\ (t = [s EXCEPT !.activity = v]
                            \/ t = [s EXCEPT !.status = "Stopped", !.activity = v])
    BY <1>1
  <2> HIDE DEF s, t
  <2>2. /\ Sound(FALSE, [s EXCEPT !.activity = v])
        /\ Sound(FALSE, [s EXCEPT !.status = "Stopped", !.activity = v])
    BY <2>1, ActivitySound
  <2>3. Sound(FALSE, t)
    BY <2>1, <2>2
  <2> QED
    BY <2>3 DEF t
<1>3. q'.queue = q.queue /\ q'.activity = v
  BY <1>1 DEF QueueStates
<1> QED
  BY <1>2, <1>3 DEF QueueTyped

\* What leaves the queue leaves it well formed, unless it loads.
LEMMA QueueUntouched ==
  ASSUME Typed, q' = q,
         loaded'.gen \in {loaded.gen, Nothing} \/ q.queue # <<>>
  PROVE  QueueTyped'
BY DEF Typed, QueueTyped

LEMMA InitTyped == Init => Typed
<1> SUFFICES ASSUME Init PROVE Typed
  OBVIOUS
<1>1. PICK batch \in Batches :
        q = Restored([items |-> batch,
                      playback |-> [Playback(EmptyQueue) EXCEPT
                                      !.position = 1, !.status = "Playing"]])
  BY DEF Init
<1>2. Sound(FALSE, q)
  <2> DEFINE row == [Playback(EmptyQueue) EXCEPT !.position = 1, !.status = "Playing"]
  <2>1. batch \in Seq(Item)
    BY CommandsAssumption, SeqMonotonic DEF Item
  <2>2. row \in PlaybackRows
    BY EmptySeq DEF Playback, EmptyQueue, PlaybackRows, Status, Repeat
  <2>3. q = Restored([items |-> batch, playback |-> row])
    BY <1>1
  <2> HIDE DEF row
  <2>4. Sound(FALSE, Restored([playback |-> row, items |-> batch]))
    BY <2>1, <2>2, RestoredSound
  <2>5. [playback |-> row, items |-> batch] = [items |-> batch, playback |-> row]
    OBVIOUS
  <2> QED
    BY <2>3, <2>4, <2>5, Zenon
<1>3. loaded = NoLoad /\ worker = Idle /\ channel = <<>> /\ events = <<>>
      /\ writer = [current |-> Silence, next |-> Nothing, playing |-> FALSE]
  BY DEF Init
<1>4. QueueTyped /\ LoadTyped /\ WorkerTyped
  BY <1>2, <1>3, NothingTyped DEF QueueTyped, LoadTyped, WorkerTyped
<1>5. WriterTyped
  <2>1. writer.current = Silence /\ writer.next \in Following /\ writer.playing = FALSE
    BY <1>3 DEF Following
  <2>2. writer \in Writers
    BY <1>3, NothingTyped DEF Writers, Following
  <2> QED
    BY <1>3, <2>1, <2>2, NothingTyped DEF WriterTyped
<1>6. ListenerTyped
  <2>1. 0 \in 0..MaxCommands
    BY SnapcastAssumption
  <2> QED
    BY <2>1 DEF Init, ListenerTyped
<1> QED
  BY <1>4, <1>5, <1>6 DEF Typed

-----------------------------------------------------------------------------
(* Commands and continuous play. *)

LEMMA ApplyTyped ==
  ASSUME Typed, NEW command \in Commands, ApplyCommand(command)
  PROVE  Typed'
<1>0. UNCHANGED <<loaded, requested, worker, channel, writer, events>>
  BY DEF ApplyCommand, output
<1>1. PICK arg \in Arguments(command) : \E s \in Outcomes(q, command, arg) :
        q' = Uncounted(s)
  BY DEF ApplyCommand
<1>2. PICK s \in Outcomes(q, command, arg) : q' = Uncounted(s)
  BY <1>1
<1>3. QueueTyped'
  <2> DEFINE before == q
             after == Uncounted(s)
  <2>1. command \in PlayerCommand /\ Sound(FALSE, before)
        /\ s \in Outcomes(before, command, arg)
    BY SnapcastAssumption DEF Typed, QueueTyped
  <2> HIDE DEF before
  <2>2. Sound(FALSE, s)
    BY <2>1, OutcomesSound
  <2>3. Sound(FALSE, after) /\ after.queue = s.queue /\ after.activity = s.activity
    BY <2>2, UncountedSound DEF Sound, Uncounted, QueueStates
  <2>4. s.queue = <<>> /\ s.activity # "None" =>
          before.queue = <<>> /\ before.activity # "None"
    BY <2>1, CommandsAnnounceNothing
  <2>5. q' = after
    BY <1>2
  <2> HIDE DEF after
  <2> QED
    BY <1>0, <2>3, <2>4, <2>5 DEF before, Typed, QueueTyped
<1>4. ListenerTyped'
  <2>1. sent + 1 \in 0..MaxCommands
    BY SnapcastAssumption DEF Typed, ListenerTyped, ApplyCommand
  <2> QED
    BY <1>0, <2>1 DEF Typed, ListenerTyped, ApplyCommand
<1> QED
  BY <1>0, <1>3, <1>4
     DEF Typed, LoadTyped, WorkerTyped, WriterTyped

\* The second half of a command: its message, and what becomes stale.
LEMMA FinishSends ==
  ASSUME Typed, NEW command \in Commands, FinishCommand(command)
  PROVE  \/ /\ channel' = channel \o Stopping
            /\ loaded' = NoLoad
         \/ /\ channel' = channel \o Playing(FALSE)
            /\ loaded' = [loaded EXCEPT !.fresh = @ /\ command \notin Reloads]
         \/ /\ channel' = channel
            /\ loaded' = [loaded EXCEPT !.fresh = @ /\ command \notin Reloads]
            /\ command \notin Silences \cup {"Pause"}
<1>1. CASE command \in Silences \/ (command = "Pause" /\ loaded.item = Radio)
  BY <1>1 DEF FinishCommand, Send
<1>2. CASE command = "Pause" /\ loaded.item # Radio
  BY <1>2 DEF FinishCommand, Send, Silences
<1>3. CASE command \notin Silences \cup {"Pause"}
  BY <1>3 DEF FinishCommand
<1> QED
  BY <1>1, <1>2, <1>3

LEMMA FinishTyped ==
  ASSUME Typed, NEW command \in Commands, FinishCommand(command)
  PROVE  Typed'
<1>0. UNCHANGED <<sent, lookup, writer, events>>
  BY DEF FinishCommand, output
<1> DEFINE keeps == command \notin Reloads
<1>1. loaded' = NoLoad \/ loaded' = [loaded EXCEPT !.fresh = loaded.fresh /\ keeps]
  BY FinishSends
<1>2. worker' = [worker EXCEPT !.fresh = worker.fresh /\ keeps] /\ requested' = TRUE
      /\ issued' = issued \ {command}
  BY DEF FinishCommand
<1>3. q' = q \/ q' = [q EXCEPT !.activity = "None"]
  BY DEF FinishCommand
<1> HIDE DEF keeps
<1>4. LoadTyped' /\ loaded'.gen \in {loaded.gen, Nothing}
  <2>1. CASE loaded' = NoLoad
    BY <2>1, NothingTyped DEF LoadTyped
  <2>2. CASE loaded' = [loaded EXCEPT !.fresh = loaded.fresh /\ keeps]
    <3>1. loaded \in Loads /\ (loaded.fresh /\ keeps) \in BOOLEAN
      BY DEF Typed, LoadTyped
    <3>2. loaded' \in Loads /\ loaded'.gen = loaded.gen /\ loaded'.item = loaded.item
      BY <2>2, <3>1 DEF Loads
    <3> QED
      BY <3>2 DEF Typed, LoadTyped
  <2> QED
    BY <1>1, <2>1, <2>2
<1>5. WorkerTyped'
  <2> DEFINE fresh == worker.fresh /\ keeps
  <2>1. worker \in Works /\ fresh \in BOOLEAN
    BY DEF Typed, WorkerTyped, WorkTyped
  <2>2. worker' = [worker EXCEPT !.fresh = fresh] /\ (worker = Idle => ~fresh)
    BY <1>2 DEF Idle
  <2> HIDE DEF fresh
  <2>3. /\ worker' \in Works /\ worker'.at = worker.at /\ worker'.item = worker.item
        /\ worker'.gen = worker.gen /\ worker'.next = worker.next
    BY <2>1, <2>2 DEF Works
  <2>4. worker = Idle => worker' = Idle
    <3> SUFFICES ASSUME worker = Idle PROVE worker' = Idle
      OBVIOUS
    <3>1. worker.fresh = fresh
      BY <2>1, <2>2 DEF Idle
    <3>2. worker' = worker
      BY <2>1, <2>2, <3>1 DEF Works
    <3> QED
      BY <3>2
  <2> QED
    BY <1>4, <2>3, <2>4 DEF Typed, WorkerTyped, WorkTyped
<1>6. QueueTyped'
  <2>1. "None" \in Activity
    BY DEF Activity
  <2> QED
    BY <1>3, <1>4, <2>1, AnnouncedTyped, QueueUntouched
<1>7. channel' \in Seq(Messages)
  <2>1. \/ Send(Stopping) \/ Send(Playing(FALSE)) \/ channel' = channel
    BY FinishSends DEF Send
  <2>2. Stopping \in Seq(Messages) /\ Playing(FALSE) \in Seq(Messages)
        /\ channel \in Seq(Messages)
    BY MessagesTyped DEF Typed, WriterTyped
  <2> QED
    BY <2>1, <2>2, SendTyped
<1>8. WriterTyped'
  BY <1>0, <1>7 DEF Typed, WriterTyped
<1>9. ListenerTyped'
  BY <1>0, <1>2 DEF Typed, ListenerTyped
<1> QED
  BY <1>4, <1>5, <1>6, <1>8, <1>9 DEF Typed

LEMMA RefillTyped ==
  ASSUME Typed, Refill
  PROVE  Typed'
<1>0. UNCHANGED <<issued, sent, loaded, worker, channel, writer, events>>
  BY DEF Refill, BeginAutoplayRefill, FinishAutoplayRefill, output
<1> DEFINE s == q
<1>1. Sound(FALSE, s)
  BY DEF Typed, QueueTyped
<1>2. CASE BeginAutoplayRefill
  <2>1. CanBeginRefill(s) /\ q' = BeginRefill(s)
    BY <1>2 DEF BeginAutoplayRefill
  <2> HIDE DEF s
  <2>2. Sound(FALSE, BeginRefill(s))
    BY <1>1, <2>1, BeginRefillSound
  <2>3. BeginRefill(s).queue = s.queue /\ s.queue # <<>>
    BY <1>1, <2>1 DEF CanBeginRefill, BeginRefill, Sound, QueueStates
  <2>4. QueueTyped'
    BY <2>1, <2>2, <2>3 DEF QueueTyped
  <2> QED
    BY <1>0, <1>2, <2>4 DEF BeginAutoplayRefill, Typed, ListenerTyped, LoadTyped,
       WorkerTyped, WriterTyped
<1>3. ASSUME NEW items \in Found, FinishAutoplayRefill(items) PROVE Typed'
  <2>1. items \in Seq(Item)
    BY SnapcastAssumption, SeqMonotonic DEF Item
  <2>2. CASE lookup = "current" /\ s.activity # "None"
    <3>1. q' = FinishRefill(s, items)
      BY <1>3, <2>2 DEF FinishAutoplayRefill
    <3> DEFINE t == FinishRefill(s, items)
    <3>a. s.queue = <<>> => loaded.gen = Nothing
      BY <2>2 DEF Typed, QueueTyped
    <3> HIDE DEF s
    <3>2. Sound(FALSE, t)
      BY <1>1, <2>1, <2>2, FinishRefillSound
    <3>3. s \in QueueStates
      BY <1>1 DEF Sound
    <3>6. QueueTyped'
      <4>1. CASE items = <<>>
        <5>1. t.queue = s.queue
          BY <3>3, <4>1 DEF FinishRefill, QueueStates
        <5>2. Sound(FALSE, q') /\ q'.queue = s.queue
          BY <3>1, <3>2, <5>1
        <5> QED
          BY <1>0, <3>a, <5>2 DEF QueueTyped
      <4>2. CASE items # <<>>
        <5>1. t.activity = "None"
          BY <3>3, <4>2 DEF FinishRefill, QueueStates
        <5>2. Sound(FALSE, q') /\ q'.activity = "None"
          BY <3>1, <3>2, <5>1
        <5> QED
          BY <5>2 DEF QueueTyped
      <4> QED
        BY <4>1, <4>2
    <3>7. ListenerTyped'
      BY <1>0, <1>3 DEF FinishAutoplayRefill, Typed, ListenerTyped
    <3> QED
      BY <1>0, <3>6, <3>7 DEF Typed, LoadTyped, WorkerTyped, WriterTyped
  <2>3. CASE ~(lookup = "current" /\ s.activity # "None")
    <3>1. UNCHANGED <<q, requested>> /\ lookup' = "none"
      BY <1>3, <2>3 DEF FinishAutoplayRefill
    <3> QED
      BY <1>0, <3>1 DEF Typed, QueueTyped, ListenerTyped, LoadTyped, WorkerTyped,
         WriterTyped
  <2> QED
    BY <2>2, <2>3
<1> QED
  BY <1>2, <1>3 DEF Refill

-----------------------------------------------------------------------------
(* The reconcile worker. *)

LEMMA NextTrackTyped == ASSUME Typed PROVE NextTrack(q) \in Following
BY DEF NextTrack, Following

LEMMA ReconcileTyped ==
  ASSUME Typed, Reconcile
  PROVE  /\ Typed' /\ worker'.at \in {"compare", "radio", "pause", "stop"}
         /\ q.status # "Playing" => worker'.at \in {"pause", "stop"}
<1> DEFINE step == CASE q.status = "Playing" /\ Current \in Track -> "compare"
                     [] q.status = "Playing" /\ Current = Radio -> "radio"
                     [] q.status = "Paused" -> "pause"
                     [] OTHER -> "stop"
           idle == Idle
           now == [idle EXCEPT !.at = step, !.item = Current, !.position = q.position,
                               !.next = NextTrack(q), !.fresh = TRUE]
<1>1. /\ UNCHANGED <<q, listener, loaded, channel, output>> /\ requested' = FALSE
      /\ worker' = now
  BY DEF Reconcile
<1>2. /\ q \in QueueStates /\ q.position \in Nat /\ Current \in Optional
      /\ NextTrack(q) \in Following
  BY ItemAtTyped, NextTrackTyped DEF Typed, QueueTyped, Sound, QueueStates, Current
<1>3. /\ step \in {"compare", "radio", "pause", "stop"}
      /\ step = "compare" => Current \in Track
      /\ step = "radio" => Current = Radio
      /\ q.status # "Playing" => step \in {"pause", "stop"}
  <2>1. CASE q.status = "Playing" /\ Current \in Track
    BY <2>1, QueueAssumption
  <2>2. CASE q.status = "Playing" /\ Current = Radio
    BY <2>2, QueueAssumption
  <2>3. CASE q.status = "Paused"
    BY <2>3
  <2>4. CASE /\ ~(q.status = "Playing" /\ Current \in Track)
             /\ ~(q.status = "Playing" /\ Current = Radio) /\ q.status # "Paused"
    BY <2>4
  <2> QED
    BY <2>1, <2>2, <2>3, <2>4
<1>4. step \in Steps
  BY <1>3 DEF Steps
<1>5. idle \in Works
  BY NothingTyped
<1> HIDE DEF step, idle
<1>6. /\ now \in Works /\ now.at = step /\ now.item = Current
  BY <1>2, <1>4, <1>5 DEF Works
<1> HIDE DEF now
<1>7. WorkTyped(now)
  BY <1>3, <1>6 DEF WorkTyped
<1>8. WorkerTyped'
  BY <1>1, <1>3, <1>6, <1>7 DEF WorkerTyped
<1>9. Typed'
  BY <1>1, <1>8 DEF Typed, QueueTyped, ListenerTyped, LoadTyped, WriterTyped, listener,
     output
<1> QED
  BY <1>1, <1>3, <1>6, <1>9

\* Every other step of the worker leaves the listener and the writer alone.
LEMMA StepTyped ==
  ASSUME Typed, UNCHANGED <<listener, requested, output>>,
         QueueTyped', LoadTyped', WorkerTyped', channel' \in Seq(Messages)
  PROVE  Typed'
BY DEF Typed, ListenerTyped, WriterTyped, listener, output

\* The writer is told to stop, and nothing is loaded.
LEMMA StopTyped ==
  ASSUME Typed, UNCHANGED <<listener, requested, output>>,
         Send(Stopping), loaded' = NoLoad, WorkTyped(worker'),
         QueueTyped'
  PROVE  Typed'
<1>1. LoadTyped' /\ WorkerTyped'
  BY NothingTyped DEF LoadTyped, WorkerTyped
<1>2. channel' \in Seq(Messages)
  BY MessagesTyped, SendTyped DEF Typed, WriterTyped
<1> QED
  BY <1>1, <1>2, StepTyped

LEMMA StopOrPauseTyped ==
  ASSUME Typed, ReconcileStop \/ ReconcilePause
  PROVE  Typed'
<1>1. /\ UNCHANGED <<listener, requested, output>> /\ worker' = Idle
      /\ q' = q \/ q' = [q EXCEPT !.activity = "None"]
      /\ \/ Send(Stopping) /\ loaded' = NoLoad
         \/ Send(Playing(FALSE)) /\ UNCHANGED <<loaded, q>>
  BY DEF ReconcileStop, ReconcilePause, At, Done
<1>2. WorkTyped(worker') /\ WorkerTyped'
  BY <1>1, NothingTyped DEF WorkerTyped
<1>3. CASE Send(Stopping) /\ loaded' = NoLoad
  <2>1. QueueTyped'
    <3>1. loaded'.gen = Nothing /\ "None" \in Activity
      BY <1>3, NothingTyped DEF Activity
    <3> QED
      BY <1>1, <3>1, AnnouncedTyped, QueueUntouched
  <2> QED
    BY <1>1, <1>2, <1>3, <2>1, StopTyped
<1>4. CASE Send(Playing(FALSE)) /\ UNCHANGED <<loaded, q>>
  <2>1. channel' \in Seq(Messages)
    BY <1>4, MessagesTyped, SendTyped DEF Typed, WriterTyped
  <2>2. QueueTyped' /\ LoadTyped'
    BY <1>4 DEF Typed, QueueTyped, LoadTyped
  <2> QED
    BY <1>1, <1>2, <2>1, <2>2, StepTyped
<1> QED
  BY <1>1, <1>3, <1>4

LEMMA CompareTyped ==
  ASSUME Typed, CompareLoaded
  PROVE  Typed'
<1>1. /\ UNCHANGED <<listener, requested, output, q, loaded>> /\ worker.at = "compare"
      /\ \/ Send(Playing(TRUE)) /\ Then("preload")
         \/ UNCHANGED channel /\ Then("replace")
  BY DEF CompareLoaded, At
<1>2. channel' \in Seq(Messages)
  BY <1>1, MessagesTyped, SendTyped DEF Typed, WriterTyped
<1>3. WorkerTyped'
  <2>1. worker \in Works /\ worker.item \in Track
    BY <1>1 DEF Typed, WorkerTyped, WorkTyped
  <2>2. "preload" \in Steps /\ "replace" \in Steps
    BY DEF Steps
  <2>3. worker' \in Works /\ worker'.item \in Track /\ worker'.at \in {"preload", "replace"}
    BY <1>1, <2>1, <2>2, ThenTyped
  <2> QED
    BY <2>3 DEF WorkerTyped, WorkTyped
<1>4. QueueTyped' /\ LoadTyped'
  BY <1>1 DEF Typed, QueueTyped, LoadTyped
<1> QED
  BY <1>1, <1>2, <1>3, <1>4, StepTyped

LEMMA ReplaceTyped ==
  ASSUME Typed, ReplaceLoaded
  PROVE  Typed' /\ worker'.at = "announce"
<1>1. /\ UNCHANGED <<listener, requested, output, q>> /\ worker.at = "replace"
      /\ Send(Stopping) /\ loaded' = NoLoad
  BY DEF ReplaceLoaded, At
<1>2. PICK cached \in {FALSE, loaded.ready /\ loaded.next = worker.item} :
        worker' = [worker EXCEPT !.at = "announce", !.cached = cached]
  BY DEF ReplaceLoaded
<1>3. worker \in Works /\ worker.item \in Track /\ cached \in BOOLEAN
  BY <1>1 DEF Typed, WorkerTyped, WorkTyped
<1>4. "announce" \in Steps
  BY DEF Steps
<1>5. worker' \in Works /\ worker'.item \in Track /\ worker'.at = "announce"
  BY <1>2, <1>3, <1>4 DEF Works
<1>6. WorkTyped(worker')
  BY <1>5 DEF WorkTyped
<1>7. QueueTyped'
  BY <1>1, NothingTyped, QueueUntouched
<1> QED
  BY <1>1, <1>5, <1>6, <1>7, StopTyped

LEMMA AnnounceTyped ==
  ASSUME Typed, AnnouncePreparation
  PROVE  Typed'
<1>1. /\ UNCHANGED <<listener, requested, output, loaded, channel>>
      /\ worker.at = "announce" /\ Then("load")
      /\ q' = [q EXCEPT !.activity = "Preparing"]
  BY DEF AnnouncePreparation, At
<1>2. /\ worker \in Works /\ worker.item \in Track /\ loaded.gen = Nothing
      /\ "load" \in Steps /\ "Preparing" \in Activity
  BY <1>1 DEF Typed, WorkerTyped, WorkTyped, Steps, Activity
<1>3. worker' \in Works /\ worker'.item \in Track /\ worker'.at = "load"
  BY <1>1, <1>2, ThenTyped
<1>4. WorkerTyped'
  BY <1>1, <1>2, <1>3 DEF WorkerTyped, WorkTyped
<1>5. QueueTyped'
  BY <1>1, <1>2, AnnouncedTyped
<1>6. LoadTyped' /\ channel' \in Seq(Messages)
  BY <1>1 DEF Typed, LoadTyped, WriterTyped
<1> QED
  BY <1>1, <1>4, <1>5, <1>6, StepTyped

LEMMA PreparationFailsTyped ==
  ASSUME Typed, PreparationFails
  PROVE  Typed'
<1>1. /\ UNCHANGED <<listener, requested, output, loaded, channel>>
      /\ worker.at = "load" /\ Done
      /\ q' = q \/ q' = [q EXCEPT !.status = "Stopped", !.activity = "Failed"]
  BY DEF PreparationFails, At
<1>2. loaded.gen = Nothing /\ "Failed" \in Activity
  BY <1>1 DEF Typed, WorkerTyped, Activity
<1>3. QueueTyped'
  BY <1>1, <1>2, AnnouncedTyped, QueueUntouched
<1>4. LoadTyped' /\ channel' \in Seq(Messages)
  BY <1>1 DEF Typed, LoadTyped, WriterTyped
<1> QED
  BY <1>1, <1>3, <1>4, DoneTyped, StepTyped

LEMMA LoadCurrentTyped ==
  ASSUME Typed, NEW g, LoadCurrent(g)
  PROVE  Typed'
<1>1. /\ UNCHANGED <<listener, requested, output, q>>
      /\ worker.at = "load" /\ g \in Generations
  BY DEF LoadCurrent, At, Unused
<1>2. CASE StillWanted /\ worker.fresh
  <2> DEFINE load == NoLoad
             item == worker.item
             position == worker.position
  <2>1. /\ Send(<<[do |-> "Load", item |-> item, gen |-> g]>> \o Playing(TRUE))
        /\ loaded' = [load EXCEPT !.item = item, !.gen = g, !.position = position,
                                  !.fresh = TRUE]
        /\ Then("preload")
    BY <1>2 DEF LoadCurrent
  <2>2. /\ worker \in Works /\ item \in Item /\ item \in Optional /\ position \in Nat
        /\ load \in Loads /\ "preload" \in Steps
    BY <1>1, NothingTyped DEF Typed, WorkerTyped, WorkTyped, Works, Item, Optional, Steps
  <2>3. q.queue # <<>>
    BY <1>2, <2>2, WantedIsThere
  <2>4. g \in Named /\ g # Nothing
    BY <1>1, SnapcastAssumption DEF Named
  <2> HIDE DEF load, item, position
  <2>5. loaded' \in Loads /\ loaded'.gen = g
    BY <2>1, <2>2, <2>4 DEF Loads
  <2>6. channel' \in Seq(Messages)
    BY <1>1, <2>1, <2>2, MessagesTyped, SendTyped DEF Typed, WriterTyped
  <2>7. worker' \in Works /\ worker'.at = "preload"
    BY <2>1, <2>2, ThenTyped
  <2>8. LoadTyped' /\ WorkerTyped'
    BY <2>4, <2>5, <2>7 DEF LoadTyped, WorkerTyped, WorkTyped
  <2>9. QueueTyped'
    BY <1>1, <2>3, QueueUntouched
  <2> QED
    BY <1>1, <2>6, <2>8, <2>9, StepTyped
<1>3. CASE ~(StillWanted /\ worker.fresh)
  <2>1. Done /\ UNCHANGED <<loaded, channel>>
    BY <1>3 DEF LoadCurrent
  <2>2. QueueTyped' /\ LoadTyped' /\ channel' \in Seq(Messages)
    BY <1>1, <2>1 DEF Typed, QueueTyped, LoadTyped, WriterTyped
  <2> QED
    BY <1>1, <2>1, <2>2, DoneTyped, StepTyped
<1> QED
  BY <1>2, <1>3

LEMMA ClearPreloadTyped ==
  ASSUME Typed, ClearPreload
  PROVE  /\ Typed' /\ loaded'.gen = loaded.gen /\ loaded'.item = loaded.item
         /\ loaded'.position = loaded.position
         /\ worker'.at \in {"idle", "preloading"}
         /\ \/ channel' = channel
            \/ Send(<<[do |-> "ClearPreload", gen |-> loaded.gen]>>)
<1>1. UNCHANGED <<listener, requested, output, q>> /\ worker.at = "preload"
  BY DEF ClearPreload, At
<1>2. QueueTyped' \/ loaded'.gen # loaded.gen
  BY <1>1, QueueUntouched
<1>3. CASE loaded.next = worker.next /\ loaded.ready
  <2>1. Done /\ UNCHANGED <<loaded, channel>>
    BY <1>3 DEF ClearPreload
  <2>2. LoadTyped' /\ channel' \in Seq(Messages)
    BY <1>1, <2>1 DEF Typed, LoadTyped, WriterTyped
  <2>3. worker'.at = "idle"
    BY <2>1, NothingTyped DEF Done
  <2> QED
    BY <1>1, <1>2, <2>1, <2>2, <2>3, DoneTyped, StepTyped
<1>4. CASE ~(loaded.next = worker.next /\ loaded.ready)
  <2> DEFINE next == worker.next
             g == loaded.gen
             m == [do |-> "ClearPreload", gen |-> g]
  <2>1. /\ Send(<<m>>) /\ loaded' = [loaded EXCEPT !.next = next, !.ready = FALSE]
        /\ worker' = IF next = Nothing THEN Idle
                     ELSE [worker EXCEPT !.at = "preloading", !.gen = g]
    BY <1>4 DEF ClearPreload
  <2>2. /\ worker \in Works /\ next \in Following /\ g \in Named /\ loaded \in Loads
        /\ "preloading" \in Steps
    BY DEF Typed, WorkerTyped, WorkTyped, Works, LoadTyped, Loads, Steps
  <2>3. channel' \in Seq(Messages)
    BY <2>1, <2>2, MessagesTyped, SendTyped DEF Typed, WriterTyped
  <2> HIDE DEF next, g
  <2>4. /\ loaded' \in Loads /\ loaded'.gen = loaded.gen /\ loaded'.item = loaded.item
        /\ loaded'.position = loaded.position
    BY <2>1, <2>2 DEF Loads
  <2>5. LoadTyped'
    BY <2>4 DEF Typed, LoadTyped
  <2>6. WorkerTyped' /\ worker'.at \in {"idle", "preloading"}
    <3>1. CASE next = Nothing
      BY <2>1, <3>1, NothingTyped DEF WorkerTyped
    <3>2. CASE next # Nothing
      <4>1. worker' \in Works /\ worker'.at = "preloading" /\ worker'.next = next
        BY <2>1, <2>2, <3>2 DEF Works, next
      <4>2. next \in Track
        BY <2>2, <3>2 DEF Following
      <4> QED
        BY <4>1, <4>2 DEF WorkerTyped, WorkTyped
    <3> QED
      BY <3>1, <3>2
  <2> QED
    BY <1>1, <1>2, <2>1, <2>3, <2>4, <2>5, <2>6, StepTyped DEF g
<1> QED
  BY <1>3, <1>4

LEMMA PreloadNextTyped ==
  ASSUME Typed, PreloadNext \/ PreloadFails
  PROVE  /\ Typed' /\ loaded'.gen = loaded.gen /\ loaded'.item = loaded.item
         /\ loaded'.position = loaded.position /\ Done
         /\ \/ channel' = channel
            \/ Send(<<[do |-> "Preload", item |-> worker.next, gen |-> worker.gen]>>)
<1>1. /\ UNCHANGED <<listener, requested, output, q>> /\ worker.at = "preloading"
      /\ Done
      /\ \/ UNCHANGED <<loaded, channel>>
         \/ /\ Send(<<[do |-> "Preload", item |-> worker.next, gen |-> worker.gen]>>)
            /\ loaded' = [loaded EXCEPT !.ready = TRUE]
  BY DEF PreloadNext, PreloadFails, At
<1>2. /\ loaded \in Loads /\ worker.next \in Track /\ worker.gen \in Named
      /\ channel \in Seq(Messages)
  BY <1>1 DEF Typed, LoadTyped, WorkerTyped, WorkTyped, Works, WriterTyped
<1>3. channel' \in Seq(Messages)
  BY <1>1, <1>2, MessagesTyped, SendTyped
<1>4. /\ loaded' \in Loads /\ loaded'.gen = loaded.gen /\ loaded'.item = loaded.item
      /\ loaded'.position = loaded.position
  BY <1>1, <1>2 DEF Loads
<1>5. LoadTyped'
  BY <1>4 DEF Typed, LoadTyped
<1>6. QueueTyped'
  BY <1>1, <1>4, QueueUntouched
<1> QED
  BY <1>1, <1>3, <1>4, <1>5, <1>6, DoneTyped, StepTyped

LEMMA RadioTyped ==
  ASSUME Typed, NEW g, ConnectRadio(g)
  PROVE  Typed'
<1>1. /\ UNCHANGED <<listener, requested, output>>
      /\ worker.at = "radio" /\ g \in Generations
  BY DEF ConnectRadio, At, Unused
<1>2. CASE ~StillWanted
  <2>1. Done /\ UNCHANGED <<q, loaded, channel>>
    BY <1>2 DEF ConnectRadio
  <2>2. QueueTyped' /\ LoadTyped' /\ channel' \in Seq(Messages)
    BY <2>1 DEF Typed, QueueTyped, LoadTyped, WriterTyped
  <2> QED
    BY <1>1, <2>1, <2>2, DoneTyped, StepTyped
<1> DEFINE there == /\ StillWanted /\ loaded.item = Radio /\ loaded.ready
                    /\ loaded.position = worker.position
<1>3. CASE there
  <2>1. Send(Playing(TRUE)) /\ Done /\ UNCHANGED <<q, loaded>>
    BY <1>3 DEF ConnectRadio
  <2>2. QueueTyped' /\ LoadTyped' /\ channel' \in Seq(Messages)
    BY <2>1, MessagesTyped, SendTyped DEF Typed, QueueTyped, LoadTyped, WriterTyped
  <2> QED
    BY <1>1, <2>1, <2>2, DoneTyped, StepTyped
<1>4. CASE StillWanted /\ ~there
  <2> DEFINE load == NoLoad
             position == worker.position
             work == worker
  <2>1. /\ Send(Stopping) /\ q' = [q EXCEPT !.activity = "Connecting"]
        /\ loaded' = [load EXCEPT !.item = Radio, !.gen = g, !.position = position]
        /\ worker' = [work EXCEPT !.at = "connect", !.gen = g]
    BY <1>4 DEF ConnectRadio
  <2>2. /\ work \in Works /\ work.item = Radio /\ position \in Nat
        /\ load \in Loads /\ "connect" \in Steps /\ "Connecting" \in Activity
        /\ Radio \in Item /\ Radio \in Optional
    BY <1>1, NothingTyped
       DEF Typed, WorkerTyped, WorkTyped, Works, Item, Optional, Steps, Activity
  <2>3. q.queue # <<>>
    BY <1>4, <2>2, WantedIsThere
  <2>4. g \in Named /\ g # Nothing
    BY <1>1, SnapcastAssumption DEF Named
  <2>5. QueueTyped'
    BY <2>1, <2>2, <2>3, AnnouncedTyped
  <2>6. channel' \in Seq(Messages)
    BY <2>1, MessagesTyped, SendTyped DEF Typed, WriterTyped
  <2> HIDE DEF load, position, work
  <2>7. loaded' \in Loads /\ loaded'.gen = g
    BY <2>1, <2>2, <2>4 DEF Loads
  <2>8. worker' \in Works /\ worker'.at = "connect" /\ worker'.item = Radio
        /\ worker'.gen = g
    BY <2>1, <2>2, <2>4 DEF Works
  <2>9. LoadTyped' /\ WorkerTyped'
    BY <1>1, <2>4, <2>7, <2>8 DEF LoadTyped, WorkerTyped, WorkTyped
  <2> QED
    BY <1>1, <2>5, <2>6, <2>9, StepTyped
<1> QED
  BY <1>2, <1>3, <1>4

LEMMA StartRadioTyped ==
  ASSUME Typed, StartRadio
  PROVE  /\ Typed' /\ loaded'.gen = loaded.gen /\ Done
         /\ \/ channel' = channel
            \/ /\ loaded.gen = worker.gen /\ StillWanted
               /\ Send(<<[do |-> "Load", item |-> Radio, gen |-> worker.gen]>>
                         \o Playing(TRUE))
<1>1. /\ UNCHANGED <<listener, requested, output, q>> /\ worker.at = "connect" /\ Done
      /\ \/ UNCHANGED <<loaded, channel>>
         \/ /\ loaded.gen = worker.gen /\ StillWanted
            /\ Send(<<[do |-> "Load", item |-> Radio, gen |-> worker.gen]>>
                      \o Playing(TRUE))
            /\ loaded' = [loaded EXCEPT !.ready = TRUE]
  BY DEF StartRadio, At
<1>2. /\ loaded \in Loads /\ Radio \in Item /\ worker.gen \in Generations
      /\ channel \in Seq(Messages)
  BY <1>1 DEF Typed, LoadTyped, WorkerTyped, WorkTyped, WriterTyped, Item
<1>3. channel' \in Seq(Messages)
  BY <1>1, <1>2, MessagesTyped, SendTyped
<1>4. loaded' \in Loads /\ loaded'.gen = loaded.gen /\ loaded'.item = loaded.item
  BY <1>1, <1>2 DEF Loads
<1>5. LoadTyped'
  BY <1>4 DEF Typed, LoadTyped
<1>6. QueueTyped'
  BY <1>1, <1>4, QueueUntouched
<1> QED
  BY <1>1, <1>3, <1>4, <1>5, <1>6, DoneTyped, StepTyped

-----------------------------------------------------------------------------
(* Reports. *)

\* The queue whose load a report is of may show work, and not be empty.
LEMMA OfThisLoadShown ==
  ASSUME Typed, NEW g \in Generations, OfThisLoad(g)
  PROVE  loaded.gen = g /\ g # Nothing /\ (q.activity # "None" => q.queue # <<>>)
BY SnapcastAssumption DEF OfThisLoad, Typed, QueueTyped

LEMMA OnAdvancedTyped ==
  ASSUME Typed, NEW g \in Generations, OnAdvanced(g)
  PROVE  /\ QueueTyped' /\ LoadTyped' /\ requested' \in BOOLEAN
         /\ loaded'.gen = loaded.gen /\ q'.status = q.status
         /\ q' = q \/ q.status = "Playing"
<1> DEFINE s == q
           load == loaded
           next == NextIndex(s)
           t == [ClearExhaustionAfterAdvance(s, next) EXCEPT !.position = next]
<1>1. CASE OfThisLoad(g) /\ q.status = "Playing"
  <2>1. /\ q' = t /\ requested' = TRUE
        /\ loaded' = [load EXCEPT !.item = ItemAt(s, next), !.position = next,
                                  !.next = Nothing, !.ready = FALSE]
    BY <1>1 DEF OnAdvanced
  <2>2. /\ Sound(FALSE, s) /\ load \in Loads /\ load.gen # Nothing /\ s.status = "Playing"
        /\ s.activity # "None" => s.queue # <<>>
    BY <1>1, OfThisLoadShown DEF Typed, QueueTyped, LoadTyped
  <2>3. load = loaded /\ s = q
    OBVIOUS
  <2> HIDE DEF s, load
  <2>4. s \in QueueStates /\ next \in 0..Len(s.queue)
    BY <2>2, NextInRange DEF Sound
  <2>5. next \in Nat /\ ItemAt(s, next) \in Optional
    BY <2>4, ItemAtTyped DEF QueueStates
  <2> HIDE DEF next
  <2>6. /\ Sound(FALSE, t) /\ t.queue = s.queue /\ t.status = s.status
        /\ t.activity \in {s.activity, "None"}
    BY <2>2, <2>4, AdvancedSound
  <2> HIDE DEF t
  <2>7. QueueTyped'
    BY <2>1, <2>2, <2>6 DEF QueueTyped
  <2>8. loaded' \in Loads /\ loaded'.gen = load.gen
    BY <2>1, <2>2, <2>5 DEF Loads, Following
  <2> QED
    BY <2>1, <2>2, <2>3, <2>6, <2>7, <2>8 DEF LoadTyped
<1>2. CASE ~(OfThisLoad(g) /\ q.status = "Playing")
  BY <1>2 DEF OnAdvanced, Typed, QueueTyped, LoadTyped, ListenerTyped
<1> QED
  BY <1>1, <1>2

LEMMA OnDrainedTyped ==
  ASSUME Typed, NEW g \in Generations, OnDrained(g)
  PROVE  /\ QueueTyped' /\ LoadTyped' /\ requested' \in BOOLEAN
         /\ \/ q' = q /\ loaded' = loaded
            \/ loaded' = NoLoad /\ OfThisLoad(g) /\ q.status = "Playing"
<1> DEFINE s == q
           next == NextIndex(s)
           waits == s.activity # "None" /\ s.position = Len(s.queue)
           u == IF waits THEN PreserveRefillResume(s) ELSE s
           t == IF next # 0 THEN [s EXCEPT !.position = next]
                ELSE [u EXCEPT !.status = "Stopped"]
<1>1. CASE OfThisLoad(g) /\ q.status = "Playing"
  <2>1. /\ q' = t /\ loaded' = NoLoad /\ requested' = (requested \/ next # 0)
    BY <1>1 DEF OnDrained
  <2>2. Sound(FALSE, s) /\ (s.activity # "None" => s.queue # <<>>)
    BY <1>1, OfThisLoadShown DEF Typed, QueueTyped
  <2> HIDE DEF s
  <2>3. s \in QueueStates /\ next \in 0..Len(s.queue)
    BY <2>2, NextInRange DEF Sound
  <2> HIDE DEF next
  <2>4. Sound(FALSE, t)
    <3>1. CASE next # 0
      <4>1. Sound(FALSE, [s EXCEPT !.position = next])
        BY <2>2, <2>3, FlagsSound
      <4> QED
        BY <3>1, <4>1
    <3>2. CASE next = 0
      <4>1. Sound(FALSE, u)
        BY <2>2, PreserveSound
      <4> HIDE DEF u
      <4>2. "Stopped" \in Status
        BY DEF Status
      <4>3. Sound(FALSE, [u EXCEPT !.status = "Stopped"])
        BY <4>1, <4>2, FlagsSound
      <4> QED
        BY <3>2, <4>3
    <3> QED
      BY <3>1, <3>2
  <2> HIDE DEF t
  <2>5. QueueTyped' /\ LoadTyped'
    BY <2>1, <2>4, NothingTyped DEF QueueTyped, LoadTyped
  <2>6. requested' \in BOOLEAN
    BY <2>1
  <2> QED
    BY <1>1, <2>1, <2>5, <2>6
<1>2. CASE ~(OfThisLoad(g) /\ q.status = "Playing")
  BY <1>2 DEF OnDrained, Typed, QueueTyped, LoadTyped, ListenerTyped
<1> QED
  BY <1>1, <1>2

LEMMA OnStartedTyped ==
  ASSUME Typed, NEW g \in Generations, OnStreamStarted(g)
  PROVE  QueueTyped' /\ q'.status = q.status /\ q'.position = q.position
<1>1. q' = q \/ q' = [q EXCEPT !.activity = "None"]
  BY DEF OnStreamStarted
<1>2. loaded' = loaded /\ "None" \in Activity /\ q \in QueueStates
  BY DEF OnStreamStarted, Activity, Typed, QueueTyped, Sound
<1>3. QueueTyped'
  BY <1>1, <1>2, AnnouncedTyped, QueueUntouched
<1>4. q'.status = q.status /\ q'.position = q.position
  BY <1>1, <1>2 DEF QueueStates
<1> QED
  BY <1>3, <1>4

LEMMA OnFailedTyped ==
  ASSUME Typed, NEW g \in Generations, OnStreamFailed(g)
  PROVE  /\ QueueTyped' /\ LoadTyped' /\ channel' \in Seq(Messages)
         /\ requested' = requested
         /\ \/ UNCHANGED <<q, loaded, channel>>
            \/ Send(Stopping) /\ loaded' = NoLoad /\ q.status = "Playing"
<1>1. CASE OfThisLoad(g) /\ loaded.item # Nothing /\ q.status = "Playing"
  <2>1. /\ Send(Stopping) /\ loaded' = NoLoad /\ requested' = requested
        /\ q' = [q EXCEPT !.status = "Stopped", !.activity = "Failed"]
    BY <1>1 DEF OnStreamFailed
  <2>2. "Failed" \in Activity
    BY DEF Activity
  <2>3. QueueTyped' /\ LoadTyped'
    BY <2>1, <2>2, NothingTyped, AnnouncedTyped DEF LoadTyped
  <2>4. channel' \in Seq(Messages)
    BY <2>1, MessagesTyped, SendTyped DEF Typed, WriterTyped
  <2> QED
    BY <1>1, <2>1, <2>3, <2>4
<1>2. CASE ~(OfThisLoad(g) /\ loaded.item # Nothing /\ q.status = "Playing")
  <2>1. UNCHANGED <<q, loaded, channel, requested>>
    BY <1>2 DEF OnStreamFailed
  <2>2. QueueTyped' /\ LoadTyped' /\ channel' \in Seq(Messages)
    BY <2>1 DEF Typed, QueueTyped, LoadTyped, WriterTyped
  <2> QED
    BY <2>1, <2>2
<1> QED
  BY <1>1, <1>2

LEMMA RadioFailsTyped ==
  ASSUME Typed, RadioFails
  PROVE  /\ Typed' /\ Done
         /\ \/ UNCHANGED <<q, loaded, channel>>
            \/ Send(Stopping) /\ loaded' = NoLoad /\ q.status = "Playing"
<1>1. /\ UNCHANGED <<listener, output>> /\ Done /\ OnStreamFailed(worker.gen)
      /\ worker.gen \in Generations
  BY DEF RadioFails, Typed, WorkerTyped, WorkTyped
<1> QED
  BY <1>1, OnFailedTyped, DoneTyped, StepTyped

LEMMA ReportTyped ==
  ASSUME Typed, HandleReport
  PROVE  /\ Typed' /\ UNCHANGED <<issued, worker, writer>>
         /\ Head(events) \in Reports /\ events # <<>> /\ events' = Tail(events)
<1> DEFINE event == Head(events)
<1>1. /\ events \in Seq(Reports) /\ events # <<>> /\ events' = Tail(events)
      /\ writer' = writer
  BY DEF HandleReport, Typed, WriterTyped
<1>2. event \in Reports /\ events' \in Seq(Reports)
  BY <1>1, HeadTailProperties
<1>3. /\ event.gen \in Generations
      /\ event.is \in {"Advanced", "Drained", "Started", "Failed"}
  BY <1>2 DEF Reports
<1>4. /\ QueueTyped' /\ LoadTyped' /\ Reported /\ requested' \in BOOLEAN
      /\ channel' \in Seq(Messages) /\ loaded'.gen \in {loaded.gen, Nothing}
  <2>1. channel \in Seq(Messages) /\ requested \in BOOLEAN /\ LoadTyped
    BY DEF Typed, WriterTyped, ListenerTyped
  <2>2. CASE event.is = "Advanced"
    <3>1. OnAdvanced(event.gen)
      BY <2>2 DEF HandleReport
    <3>2. Reported /\ channel' = channel
      BY <3>1 DEF OnAdvanced
    <3> QED
      BY <1>3, <2>1, <3>1, <3>2, OnAdvancedTyped
  <2>3. CASE event.is = "Drained"
    <3>1. OnDrained(event.gen)
      BY <2>3 DEF HandleReport
    <3>2. Reported /\ channel' = channel
      BY <3>1 DEF OnDrained
    <3>3. loaded'.gen \in {loaded.gen, Nothing}
      BY <1>3, <3>1, OnDrainedTyped, NothingTyped
    <3> QED
      BY <1>3, <2>1, <3>1, <3>2, <3>3, OnDrainedTyped
  <2>4. CASE event.is = "Started"
    <3>1. OnStreamStarted(event.gen)
      BY <2>4 DEF HandleReport
    <3>2. Reported /\ UNCHANGED <<channel, loaded, requested>>
      BY <3>1 DEF OnStreamStarted
    <3>3. LoadTyped'
      BY <2>1, <3>2 DEF LoadTyped
    <3> QED
      BY <1>3, <2>1, <3>1, <3>2, <3>3, OnStartedTyped
  <2>5. CASE event.is = "Failed"
    <3>1. OnStreamFailed(event.gen) /\ Reported
      BY <2>5 DEF HandleReport
    <3>2. loaded'.gen \in {loaded.gen, Nothing}
      BY <1>3, <3>1, OnFailedTyped, NothingTyped
    <3> QED
      BY <1>3, <2>1, <3>1, <3>2, OnFailedTyped
  <2> QED
    BY <1>3, <2>2, <2>3, <2>4, <2>5
<1>5. ListenerTyped'
  BY <1>4 DEF Typed, ListenerTyped, Reported, listener
<1>6. WorkerTyped'
  BY <1>4, SnapcastAssumption DEF Typed, WorkerTyped, Reported
<1>7. WriterTyped'
  BY <1>1, <1>2, <1>4 DEF Typed, WriterTyped
<1> QED
  BY <1>1, <1>2, <1>4, <1>5, <1>6, <1>7 DEF Typed, Reported, listener

-----------------------------------------------------------------------------
(* The writer thread. *)

LEMMA AfterTyped ==
  ASSUME NEW w \in Writers, NEW m \in Messages,
         w.current.item = Nothing => w.current = Silence,
         w.current.item # Nothing => w.current.gen \in Generations
  PROVE  LET v == After(w, m)
         IN /\ v \in Writers
            /\ v.current.item = Nothing => v.current = Silence
            /\ v.current.item # Nothing => v.current.gen \in Generations
            /\ m.do \notin {"Load", "Stop"} => v.current = w.current
            /\ m.do = "Stop" => v.current = Silence
            /\ m.do = "Load" => v.current.gen = m.gen /\ v.current.item = m.item
            /\ m.do \notin {"SetPlaying", "Stop"} => v.playing = w.playing
            /\ m.do = "SetPlaying" => v.playing = m.on
            /\ m.do = "Stop" => v.playing = FALSE
<1> DEFINE v == After(w, m)
           goal == /\ v \in Writers
                   /\ v.current.item = Nothing => v.current = Silence
                   /\ v.current.item # Nothing => v.current.gen \in Generations
                   /\ m.do \notin {"Load", "Stop"} => v.current = w.current
                   /\ m.do = "Stop" => v.current = Silence
                   /\ m.do = "Load" => v.current.gen = m.gen /\ v.current.item = m.item
                   /\ m.do \notin {"SetPlaying", "Stop"} => v.playing = w.playing
                   /\ m.do = "SetPlaying" => v.playing = m.on
                   /\ m.do = "Stop" => v.playing = FALSE
<1> SUFFICES goal
  OBVIOUS
<1>1. CASE m.do = "Load"
  <2>1. m.item \in Item /\ m.gen \in Generations
    BY <1>1 DEF Messages
  <2> DEFINE load == [item |-> m.item, gen |-> m.gen, started |-> FALSE]
  <2>2. /\ load \in [item : Optional, gen : Named, started : BOOLEAN]
        /\ load.item = m.item /\ load.gen = m.gen
    BY <2>1 DEF Optional, Named
  <2>3. v = [w EXCEPT !.current = load, !.next = Nothing]
    BY <1>1 DEF After
  <2> HIDE DEF load, v
  <2>4. v \in Writers /\ v.current = load /\ v.playing = w.playing
    BY <2>2, <2>3 DEF Writers, Following
  <2> QED
    BY <1>1, <2>1, <2>2, <2>4, SnapcastAssumption
<1>2. CASE m.do \in {"Preload", "ClearPreload"}
  <2>1. m.do = "Preload" => m.item \in Following
    BY DEF Messages, Following
  <2>2. \/ v = w
        \/ \E next \in Following : v = [w EXCEPT !.next = next]
    <3>1. Nothing \in Following
      BY DEF Following
    <3>2. CASE m.do = "Preload"
      BY <2>1, <3>2 DEF After
    <3>3. CASE m.do = "ClearPreload"
      BY <3>1, <3>3 DEF After
    <3> QED
      BY <1>2, <3>2, <3>3
  <2> HIDE DEF v
  <2>3. v \in Writers /\ v.current = w.current /\ v.playing = w.playing
    BY <2>2 DEF Writers
  <2> QED
    BY <1>2, <2>3
<1>3. CASE m.do = "SetPlaying"
  <2>1. m.on \in BOOLEAN
    BY <1>3 DEF Messages
  <2>2. v = [w EXCEPT !.playing = m.on]
    BY <1>3 DEF After
  <2> HIDE DEF v
  <2>3. v \in Writers /\ v.current = w.current /\ v.playing = m.on
    BY <2>1, <2>2 DEF Writers
  <2> QED
    BY <1>3, <2>3
<1>4. CASE m.do = "Stop"
  <2>1. v = [current |-> Silence, next |-> Nothing, playing |-> FALSE]
    BY <1>4 DEF After
  <2> HIDE DEF v
  <2>2. v.current = Silence /\ v.playing = FALSE
    BY <2>1
  <2>3. v \in Writers
    BY <2>1, NothingTyped DEF Writers, Following
  <2> QED
    BY <1>4, <2>2, <2>3, NothingTyped
<1>5. m.do \in {"Load", "Preload", "ClearPreload", "SetPlaying", "Stop"}
  BY DEF Messages
<1> QED
  BY <1>1, <1>2, <1>3, <1>4, <1>5

LEMMA TakeTyped ==
  ASSUME Typed, TakeMessage
  PROVE  /\ Typed' /\ channel # <<>> /\ Head(channel) \in Messages
         /\ channel' = Tail(channel) /\ writer' = After(writer, Head(channel))
<1> DEFINE w == writer
           m == Head(channel)
<1>1. /\ channel # <<>> /\ channel' = Tail(channel) /\ writer' = After(w, m)
      /\ UNCHANGED <<q, listener, loaded, requested, worker, events>>
  BY DEF TakeMessage
<1>2. m \in Messages /\ channel' \in Seq(Messages)
  BY <1>1, HeadTailProperties DEF Typed, WriterTyped
<1>3. /\ w \in Writers
      /\ w.current.item = Nothing => w.current = Silence
      /\ w.current.item # Nothing => w.current.gen \in Generations
      /\ events \in Seq(Reports)
  BY DEF Typed, WriterTyped
<1>4. w = writer /\ m = Head(channel)
  OBVIOUS
<1> HIDE DEF w, m
<1>5. /\ writer' \in Writers
      /\ writer'.current.item = Nothing => writer'.current = Silence
      /\ writer'.current.item # Nothing => writer'.current.gen \in Generations
  BY <1>1, <1>2, <1>3, AfterTyped
<1>6. WriterTyped'
  BY <1>1, <1>2, <1>3, <1>5 DEF WriterTyped
<1>7. QueueTyped' /\ ListenerTyped' /\ LoadTyped' /\ WorkerTyped'
  BY <1>1 DEF Typed, QueueTyped, ListenerTyped, LoadTyped, WorkerTyped, listener
<1> QED
  BY <1>1, <1>2, <1>4, <1>6, <1>7 DEF Typed

\* What the writer does by itself: it reports of what it was playing, and goes
\* on with that, with the next track, or with nothing.
LEMMA WriterReports ==
  ASSUME Typed, WriteFirst \/ TrackDrains \/ StreamFails
  PROVE  /\ Typed'
         /\ UNCHANGED <<q, issued, loaded, requested, worker, channel>>
         /\ writer.current # Silence /\ writer'.playing = writer.playing
         /\ writer.current.gen \in Generations
         /\ \/ writer'.current.gen = writer.current.gen
            \/ writer'.current = Silence
         /\ \E report \in Reports :
              /\ events' = Append(events, report) /\ report.gen = writer.current.gen
              /\ report.is \in {"Drained", "Failed"} => writer'.current = Silence
              /\ report.item = writer'.current.item
              /\ report.is = "Started" => report.item = writer.current.item
              /\ report.is = "Advanced" => report.item \in Track
<1> DEFINE w == writer
           current == w.current
<1>1. /\ w.playing /\ current.item # Nothing
      /\ UNCHANGED <<q, listener, loaded, requested, worker, channel>>
  BY DEF WriteFirst, TrackDrains, StreamFails, Writing
<1>2. /\ w \in Writers /\ current.gen \in Generations
      /\ current \in [item : Optional, gen : Named, started : BOOLEAN]
  BY <1>1 DEF Typed, WriterTyped, Writers
<1> DEFINE first == [current EXCEPT !.started = TRUE]
           rolled == [item |-> w.next, gen |-> current.gen, started |-> FALSE]
<1>3. PICK is \in {"Started", "Advanced", "Drained", "Failed"} :
        /\ Report(is)
        /\ \/ w' = [w EXCEPT !.current = first] /\ is = "Started"
           \/ w.next # Nothing /\ w' = [w EXCEPT !.current = rolled, !.next = Nothing]
                /\ is = "Advanced"
           \/ w' = [w EXCEPT !.current = Silence] /\ is \in {"Drained", "Failed"}
  <2>1. CASE WriteFirst
    BY <2>1 DEF WriteFirst
  <2>2. CASE TrackDrains
    BY <2>2 DEF TrackDrains, RollsInto
  <2>3. CASE StreamFails
    BY <2>3 DEF StreamFails
  <2> QED
    BY <2>1, <2>2, <2>3
<1>4. /\ first \in [item : Optional, gen : Named, started : BOOLEAN]
      /\ first.item = current.item /\ first.gen = current.gen
  BY <1>2
<1>5. w.next # Nothing =>
        /\ rolled \in [item : Optional, gen : Named, started : BOOLEAN]
        /\ rolled.item \in Track /\ rolled.item # Nothing /\ rolled.gen = current.gen
  BY <1>2 DEF Writers, Following, Optional, Item, Named
<1>6. w = writer /\ current = writer.current /\ w' = writer'
  OBVIOUS
<1> HIDE DEF w, current, first, rolled
<1>7. /\ w' \in Writers /\ w'.playing = w.playing
      /\ \/ w'.current = first \/ (w.next # Nothing /\ w'.current = rolled)
         \/ w'.current = Silence
      /\ is \in {"Drained", "Failed"} => w'.current = Silence
      /\ is = "Started" => w'.current = first
      /\ is = "Advanced" => w.next # Nothing /\ w'.current = rolled
  BY <1>2, <1>3, <1>4, <1>5, NothingTyped DEF Writers, Following
<1>8. /\ w'.current.item = Nothing => w'.current = Silence
      /\ w'.current.item # Nothing => w'.current.gen \in Generations
      /\ w'.current.gen = current.gen \/ w'.current = Silence
  BY <1>1, <1>2, <1>4, <1>5, <1>7, NothingTyped
<1> DEFINE report == [is |-> is, gen |-> current.gen, item |-> w'.current.item]
<1>9. /\ report \in Reports /\ report.gen = current.gen /\ report.is = is
      /\ report.item = w'.current.item
  BY <1>2, <1>7 DEF Reports, Writers
<1>10. events' = Append(events, report)
  BY <1>3, <1>6 DEF Report
<1> HIDE DEF report
<1>11. events' \in Seq(Reports)
  <2>1. events \in Seq(Reports)
    BY DEF Typed, WriterTyped
  <2> QED
    BY <1>9, <1>10, <2>1, AppendProperties
<1>12. WriterTyped'
  BY <1>1, <1>6, <1>7, <1>8, <1>11 DEF Typed, WriterTyped
<1>13. QueueTyped' /\ ListenerTyped' /\ LoadTyped' /\ WorkerTyped'
  BY <1>1 DEF Typed, QueueTyped, ListenerTyped, LoadTyped, WorkerTyped, listener
<1>14. current # Silence
  BY <1>1, NothingTyped
<1>15. /\ report.is = "Started" => report.item = current.item
       /\ report.is = "Advanced" => report.item \in Track
  BY <1>4, <1>5, <1>7, <1>9
<1>16. Typed'
  BY <1>12, <1>13 DEF Typed
<1> QED
  BY <1>1, <1>2, <1>6, <1>7, <1>8, <1>9, <1>10, <1>14, <1>15, <1>16 DEF listener

LEMMA StepKeepsTyped ==
  ASSUME Typed, Next
  PROVE  Typed'
<1>1. CASE Command
  BY <1>1, ApplyTyped, FinishTyped DEF Command
<1>2. CASE Refill
  BY <1>2, RefillTyped
<1>3. CASE Worker
  <2>1. CASE Reconcile \/ ReconcileStop \/ ReconcilePause
    BY <2>1, ReconcileTyped, StopOrPauseTyped
  <2>2. CASE CompareLoaded \/ ReplaceLoaded \/ AnnouncePreparation
    BY <2>2, CompareTyped, ReplaceTyped, AnnounceTyped
  <2>3. CASE PreparationFails \/ LoadCurrent(UnusedGeneration)
    BY <2>3, PreparationFailsTyped, LoadCurrentTyped
  <2>4. CASE ClearPreload \/ PreloadNext \/ PreloadFails
    BY <2>4, ClearPreloadTyped, PreloadNextTyped
  <2>5. CASE ConnectRadio(UnusedGeneration) \/ StartRadio \/ RadioFails
    BY <2>5, RadioTyped, StartRadioTyped, RadioFailsTyped
  <2> QED
    BY <1>3, <2>1, <2>2, <2>3, <2>4, <2>5 DEF Worker
<1>4. CASE HandleReport
  BY <1>4, ReportTyped
<1>5. CASE WriterThread
  BY <1>5, TakeTyped, WriterReports DEF WriterThread
<1> QED
  BY <1>1, <1>2, <1>3, <1>4, <1>5 DEF Next

LEMMA StutterKeepsTyped ==
  ASSUME Typed, UNCHANGED vars
  PROVE  Typed'
BY DEF vars, Typed, QueueTyped, ListenerTyped, LoadTyped, WorkerTyped, WriterTyped

\* Every part of the player keeps its type, and the cursor stays in the queue,
\* under every interleaving of commands, lookups, worker, writer and reports.
THEOREM TypeCorrect == Spec => []TypeOK
<1>1. Typed /\ [Next]_vars => Typed'
  BY StepKeepsTyped, StutterKeepsTyped
<1> QED
  BY InitTyped, TypedMeans, <1>1, PTL DEF Spec

-----------------------------------------------------------------------------
(* What the messages on their way will make of the writer. *)

Marks == {"Load", "Stop"}
Transport == {"SetPlaying", "Stop"}
Among(c, kinds) == {i \in 1..Len(c) : c[i].do \in kinds}
LastIn(c, kinds) == {i \in Among(c, kinds) : \A j \in Among(c, kinds) : j <= i}
Plays(c, w) ==
  \/ \E i \in LastIn(c, Transport) : c[i].do = "SetPlaying" /\ c[i].on
  \/ Among(c, Transport) = {} /\ w.playing
Holds(c, w) ==
  \/ \E i \in LastIn(c, Marks) : c[i].do = "Load"
  \/ Among(c, Marks) = {} /\ w.current # Silence
Sounds(c, w) == Plays(c, w) /\ Holds(c, w)

LEMMA SoundsMeans == Sounds(channel, writer) <=> WillPlay /\ WillHold
BY DEF Sounds, Plays, Holds, LastIn, Among, Marks, Transport, WillPlay, WillHold, LastOf,
       Queued

\* A message sent is the last one.
LEMMA SentLast ==
  ASSUME NEW c \in Seq(Messages), NEW m \in Messages
  PROVE  LET d == c \o <<m>>
         IN /\ d \in Seq(Messages) /\ Len(d) = Len(c) + 1 /\ d[Len(c) + 1] = m
            /\ \A i \in 1..Len(c) : d[i] = c[i]
            /\ \A kinds : IF m.do \in kinds
                 THEN LastIn(d, kinds) = {Len(c) + 1} /\ Among(d, kinds) # {}
                 ELSE /\ LastIn(d, kinds) = LastIn(c, kinds)
                      /\ Among(d, kinds) = Among(c, kinds)
<1> DEFINE d == c \o <<m>>
           n == Len(c)
<1>1. n \in Nat
  OBVIOUS
<1>2. /\ d \in Seq(Messages) /\ Len(d) = n + 1 /\ d[n + 1] = m
      /\ \A i \in 1..n : d[i] = c[i]
  OBVIOUS
<1>3. c \in Seq(Messages) /\ n = Len(c)
  OBVIOUS
<1> SUFFICES ASSUME NEW kinds
             PROVE  IF m.do \in kinds
                    THEN LastIn(d, kinds) = {n + 1} /\ Among(d, kinds) # {}
                    ELSE /\ LastIn(d, kinds) = LastIn(c, kinds)
                         /\ Among(d, kinds) = Among(c, kinds)
  BY <1>2
<1> HIDE DEF d, n
<1>4. ASSUME m.do \in kinds
      PROVE  LastIn(d, kinds) = {n + 1} /\ Among(d, kinds) # {}
  <2>1. n + 1 \in Among(d, kinds) /\ \A j \in Among(d, kinds) : j \in 1..(n + 1)
    BY <1>1, <1>2, <1>4 DEF Among
  <2> QED
    BY <1>1, <2>1 DEF LastIn
<1>5. ASSUME m.do \notin kinds
      PROVE  LastIn(d, kinds) = LastIn(c, kinds) /\ Among(d, kinds) = Among(c, kinds)
  <2>1. ASSUME NEW i \in 1..(n + 1)
        PROVE  i \in Among(d, kinds) <=> i \in Among(c, kinds)
    <3>1. CASE i = n + 1
      BY <1>1, <1>2, <1>3, <1>5, <3>1 DEF Among
    <3>2. CASE i \in 1..n
      BY <1>1, <1>2, <1>3, <3>2 DEF Among
    <3> QED
      BY <1>1, <3>1, <3>2
  <2>2. Among(d, kinds) \subseteq 1..(n + 1) /\ Among(c, kinds) \subseteq 1..(n + 1)
    BY <1>1, <1>2, <1>3 DEF Among
  <2> QED
    BY <2>1, <2>2 DEF LastIn
<1> QED
  BY <1>4, <1>5

\* Stop and Pause silence whatever was on its way; the messages about the next
\* track change nothing of it.
LEMMA SentSounds ==
  ASSUME NEW c \in Seq(Messages), NEW m \in Messages, NEW w
  PROVE  /\ m.do = "Stop" => ~Sounds(c \o <<m>>, w)
         /\ m.do = "SetPlaying" /\ ~m.on => ~Sounds(c \o <<m>>, w)
         /\ m.do \in {"Preload", "ClearPreload"} =>
              (Sounds(c \o <<m>>, w) <=> Sounds(c, w))
<1> DEFINE d == c \o <<m>>
           n == Len(c)
<1>1. /\ Len(d) = n + 1 /\ d[n + 1] = m /\ \A i \in 1..n : d[i] = c[i]
      /\ n \in Nat
  BY SentLast
<1>2. \A kinds : IF m.do \in kinds
                 THEN LastIn(d, kinds) = {n + 1} /\ Among(d, kinds) # {}
                 ELSE /\ LastIn(d, kinds) = LastIn(c, kinds)
                      /\ Among(d, kinds) = Among(c, kinds)
  BY SentLast
<1>3. n = Len(c)
  OBVIOUS
<1> SUFFICES /\ m.do = "Stop" => ~Sounds(d, w)
             /\ m.do = "SetPlaying" /\ ~m.on => ~Sounds(d, w)
             /\ m.do \in {"Preload", "ClearPreload"} => (Sounds(d, w) <=> Sounds(c, w))
  OBVIOUS
<1> HIDE DEF d, n
<1>4. ASSUME m.do = "Stop" PROVE ~Sounds(d, w)
  <2>1. LastIn(d, Marks) = {n + 1} /\ Among(d, Marks) # {}
    BY <1>2, <1>4 DEF Marks
  <2> QED
    BY <1>1, <1>4, <2>1 DEF Sounds, Holds
<1>5. ASSUME m.do = "SetPlaying", ~m.on PROVE ~Sounds(d, w)
  <2>1. LastIn(d, Transport) = {n + 1} /\ Among(d, Transport) # {}
    BY <1>2, <1>5 DEF Transport
  <2> QED
    BY <1>1, <1>5, <2>1 DEF Sounds, Plays
<1>6. ASSUME m.do \in {"Preload", "ClearPreload"} PROVE Sounds(d, w) <=> Sounds(c, w)
  <2>1. LastIn(c, Transport) \subseteq 1..n /\ LastIn(c, Marks) \subseteq 1..n
    BY <1>3 DEF LastIn, Among
  <2>2. LastIn(d, Transport) = LastIn(c, Transport) /\ LastIn(d, Marks) = LastIn(c, Marks)
        /\ Among(d, Transport) = Among(c, Transport) /\ Among(d, Marks) = Among(c, Marks)
    BY <1>2, <1>6 DEF Transport, Marks
  <2> QED
    BY <1>1, <2>1, <2>2 DEF Sounds, Plays, Holds
<1> QED
  BY <1>4, <1>5, <1>6

\* Taking a message changes nothing of what is to be heard.
LEMMA TakenSounds ==
  ASSUME NEW c \in Seq(Messages), c # <<>>, NEW w \in Writers,
         w.current.item = Nothing => w.current = Silence,
         w.current.item # Nothing => w.current.gen \in Generations,
         Sounds(Tail(c), After(w, Head(c)))
  PROVE  Sounds(c, w)
<1> DEFINE m == Head(c)
           d == Tail(c)
           v == After(w, m)
           n == Len(d)
<1>1. /\ m \in Messages /\ d \in Seq(Messages) /\ n \in Nat
      /\ Len(c) = n + 1 /\ c[1] = m /\ \A i \in 1..n : d[i] = c[i + 1]
  OBVIOUS
<1>2. /\ m.do \notin {"Load", "Stop"} => v.current = w.current
      /\ m.do = "Stop" => v.current = Silence
      /\ m.do = "Load" => v.current.gen = m.gen /\ v.current.item = m.item
      /\ m.do \notin {"SetPlaying", "Stop"} => v.playing = w.playing
      /\ m.do = "SetPlaying" => v.playing = m.on
      /\ m.do = "Stop" => v.playing = FALSE
  BY <1>1, AfterTyped
<1>3. Sounds(d, v) /\ n = Len(d)
  OBVIOUS
<1> HIDE DEF m, d, v, n
<1>4. ASSUME NEW kinds
      PROVE  /\ \A i \in LastIn(d, kinds) : i \in 1..n /\ i + 1 \in LastIn(c, kinds)
             /\ Among(d, kinds) = {} => LastIn(c, kinds) = Among(c, kinds)
             /\ Among(d, kinds) = {} => Among(c, kinds) = IF m.do \in kinds THEN {1}
                                                          ELSE {}
  <2>1. ASSUME NEW i \in 1..n PROVE i \in Among(d, kinds) <=> i + 1 \in Among(c, kinds)
    BY <1>1, <1>3 DEF Among
  <2>2. Among(d, kinds) \subseteq 1..n /\ Among(c, kinds) \subseteq 1..(n + 1)
    BY <1>1, <1>3 DEF Among
  <2>3. ASSUME NEW i \in LastIn(d, kinds)
        PROVE  i \in 1..n /\ i + 1 \in LastIn(c, kinds)
    <3>1. /\ i \in 1..n /\ i + 1 \in Among(c, kinds)
          /\ \A j \in Among(d, kinds) : j <= i
      BY <2>1, <2>2 DEF LastIn
    <3>2. ASSUME NEW j \in Among(c, kinds) PROVE j <= i + 1
      <4>1. j = 1 \/ j - 1 \in 1..n
        BY <1>1, <2>2
      <4>2. CASE j = 1
        BY <3>1, <4>2
      <4>3. CASE j - 1 \in 1..n
        <5>1. j - 1 \in Among(d, kinds)
          BY <1>1, <2>1, <2>2, <4>3
        <5> QED
          BY <1>1, <2>2, <3>1, <5>1
      <4> QED
        BY <4>1, <4>2, <4>3
    <3> QED
      BY <3>1, <3>2 DEF LastIn
  <2>4. ASSUME Among(d, kinds) = {}
        PROVE  Among(c, kinds) = IF m.do \in kinds THEN {1} ELSE {}
    <3>1. ASSUME NEW j \in Among(c, kinds) PROVE j = 1
      <4>1. j = 1 \/ j - 1 \in 1..n
        BY <1>1, <2>2
      <4>2. j - 1 \in 1..n => (j - 1) + 1 = j
        BY <1>1, <2>2
      <4> QED
        BY <2>1, <2>4, <4>1, <4>2
    <3>2. 1 \in Among(c, kinds) <=> m.do \in kinds
      BY <1>1 DEF Among
    <3> QED
      BY <3>1, <3>2
  <2>5. ASSUME Among(d, kinds) = {} PROVE LastIn(c, kinds) = Among(c, kinds)
    BY <2>4, <2>5 DEF LastIn
  <2> QED
    BY <2>3, <2>4, <2>5
<1>5. Plays(c, w)
  <2>1. CASE \E i \in LastIn(d, Transport) : d[i].do = "SetPlaying" /\ d[i].on
    BY <1>1, <1>4, <2>1 DEF Plays
  <2>2. CASE Among(d, Transport) = {} /\ v.playing
    <3>1. CASE m.do \in Transport
      <4>1. 1 \in LastIn(c, Transport)
        BY <1>4, <2>2, <3>1
      <4>2. m.do = "SetPlaying" /\ m.on
        BY <1>2, <2>2, <3>1 DEF Transport
      <4> QED
        BY <1>1, <4>1, <4>2 DEF Plays
    <3>2. CASE m.do \notin Transport
      BY <1>2, <1>4, <2>2, <3>2 DEF Plays, Transport
    <3> QED
      BY <3>1, <3>2
  <2> QED
    BY <1>3, <2>1, <2>2 DEF Sounds, Plays
<1>6. Holds(c, w)
  <2>1. CASE \E i \in LastIn(d, Marks) : d[i].do = "Load"
    BY <1>1, <1>4, <2>1 DEF Holds
  <2>2. CASE Among(d, Marks) = {} /\ v.current # Silence
    <3>1. CASE m.do \in Marks
      <4>1. 1 \in LastIn(c, Marks)
        BY <1>4, <2>2, <3>1
      <4>2. m.do = "Load"
        BY <1>2, <2>2, <3>1 DEF Marks
      <4> QED
        BY <1>1, <4>1, <4>2 DEF Holds
    <3>2. CASE m.do \notin Marks
      BY <1>2, <1>4, <2>2, <3>2 DEF Holds, Marks
    <3> QED
      BY <3>1, <3>2
  <2> QED
    BY <1>3, <2>1, <2>2 DEF Sounds, Holds
<1> QED
  BY <1>5, <1>6 DEF Sounds

-----------------------------------------------------------------------------
(* Generations: what the writer has, and what it reports, of the present   *)
(* load, it has after everything else it was told to play.                 *)

Unmarked(c) == \A i \in 1..Len(c) : c[i].do \notin Marks

\* Nothing was played, reported or sent under the generation.
Unloaded(g, c, current, e) ==
  /\ current.gen # g
  /\ \A k \in 1..Len(e) : e[k].gen # g
  /\ \A i \in 1..Len(c) : c[i].do = "Load" => c[i].gen # g

\* For the present generation, the messages, what is played and the reports.
InOrder(g, c, current, e) ==
  /\ \A k \in 1..Len(e) : e[k].gen = g =>
       Unmarked(c) /\ (e[k].is \in {"Drained", "Failed"} => current = Silence)
  /\ g # Nothing /\ current.gen = g => Unmarked(c)
  /\ \A i, j \in 1..Len(c) :
       c[i].do = "Load" /\ c[i].gen = g /\ j > i => c[j].do \notin Marks

Orderly ==
  /\ InOrder(loaded.gen, channel, writer.current, events)
  /\ worker.at = "connect" => Unloaded(worker.gen, channel, writer.current, events)

LEMMA LoadHasGeneration ==
  ASSUME NEW m \in Messages, m.do = "Load"
  PROVE  m.gen \in Generations
BY DEF Messages

LEMMA NothingInOrder ==
  ASSUME NEW c \in Seq(Messages), NEW e \in Seq(Reports), NEW current
  PROVE  InOrder(Nothing, c, current, e)
<1>1. \A k \in 1..Len(e) : e[k].gen # Nothing
  <2>1. \A k \in 1..Len(e) : e[k] \in Reports
    OBVIOUS
  <2> QED
    BY <2>1, SnapcastAssumption DEF Reports
<1>2. \A i \in 1..Len(c) : c[i].do = "Load" => c[i].gen # Nothing
  <2>1. \A i \in 1..Len(c) : c[i] \in Messages
    OBVIOUS
  <2> QED
    BY <2>1, LoadHasGeneration, SnapcastAssumption
<1> QED
  BY <1>1, <1>2 DEF InOrder

LEMMA UnusedIsUnloaded ==
  ASSUME NEW g \in Unused
  PROVE  Unloaded(g, channel, writer.current, events)
BY DEF Unused, Unloaded

\* Sending.
LEMMA SentInOrder ==
  ASSUME NEW c \in Seq(Messages), NEW m \in Messages, NEW e, NEW current, NEW g
  PROVE  LET d == c \o <<m>>
         IN /\ InOrder(g, c, current, e) /\ m.do \notin Marks => InOrder(g, d, current, e)
            /\ Unloaded(g, c, current, e) /\ m.do # "Load" => Unloaded(g, d, current, e)
            /\ Unloaded(g, c, current, e) => InOrder(g, d, current, e)
<1> DEFINE d == c \o <<m>>
           n == Len(c)
<1>1. /\ d \in Seq(Messages) /\ Len(d) = n + 1 /\ d[n + 1] = m /\ n \in Nat
      /\ \A i \in 1..n : d[i] = c[i]
  BY SentLast
<1>2. n = Len(c)
  OBVIOUS
<1> SUFFICES /\ InOrder(g, c, current, e) /\ m.do \notin Marks => InOrder(g, d, current, e)
             /\ Unloaded(g, c, current, e) /\ m.do # "Load" => Unloaded(g, d, current, e)
             /\ Unloaded(g, c, current, e) => InOrder(g, d, current, e)
  OBVIOUS
<1> HIDE DEF d, n
<1>3. \A i \in 1..(n + 1) : i \in 1..n \/ i = n + 1
  BY <1>1
<1>4. ASSUME InOrder(g, c, current, e), m.do \notin Marks PROVE InOrder(g, d, current, e)
  <2>1. Unmarked(c) => Unmarked(d)
    BY <1>1, <1>2, <1>3, <1>4 DEF Unmarked
  <2>2. ASSUME NEW i \in 1..(n + 1), NEW j \in 1..(n + 1),
               d[i].do = "Load", d[i].gen = g, j > i
        PROVE  d[j].do \notin Marks
    <3>1. CASE j = n + 1
      BY <1>1, <1>4, <3>1
    <3>2. CASE j \in 1..n
      <4>1. i \in 1..n
        BY <1>1, <2>2, <3>2
      <4> QED
        BY <1>1, <1>2, <1>4, <2>2, <3>2, <4>1 DEF InOrder
    <3> QED
      BY <1>3, <3>1, <3>2
  <2> QED
    BY <1>1, <1>4, <2>1, <2>2 DEF InOrder
<1>5. ASSUME Unloaded(g, c, current, e), m.do # "Load" PROVE Unloaded(g, d, current, e)
  BY <1>1, <1>2, <1>3, <1>5 DEF Unloaded
<1>6. ASSUME Unloaded(g, c, current, e) PROVE InOrder(g, d, current, e)
  <2>1. ASSUME NEW i \in 1..(n + 1), NEW j \in 1..(n + 1),
               d[i].do = "Load", d[i].gen = g, j > i
        PROVE  FALSE
    <3>1. i \in 1..n
      BY <1>1, <2>1
    <3> QED
      BY <1>1, <1>2, <1>6, <2>1, <3>1 DEF Unloaded
  <2> QED
    BY <1>1, <1>6, <2>1 DEF InOrder, Unloaded
<1> QED
  BY <1>4, <1>5, <1>6

\* Taking a message.
LEMMA TakenInOrder ==
  ASSUME NEW c \in Seq(Messages), c # <<>>, NEW e, NEW g, NEW w \in Writers,
         w.current.item = Nothing => w.current = Silence,
         w.current.item # Nothing => w.current.gen \in Generations
  PROVE  LET current == After(w, Head(c)).current
         IN /\ InOrder(g, c, w.current, e) => InOrder(g, Tail(c), current, e)
            /\ g # Nothing /\ Unloaded(g, c, w.current, e) =>
                 Unloaded(g, Tail(c), current, e)
<1> DEFINE m == Head(c)
           d == Tail(c)
           current == After(w, m).current
           n == Len(d)
<1>1. /\ m \in Messages /\ d \in Seq(Messages) /\ n \in Nat
      /\ Len(c) = n + 1 /\ c[1] = m /\ \A i \in 1..n : d[i] = c[i + 1]
  OBVIOUS
<1>2. /\ m.do \notin {"Load", "Stop"} => current = w.current
      /\ m.do = "Stop" => current = Silence
      /\ m.do = "Load" => current.gen = m.gen
  BY <1>1, AfterTyped
<1>3. n = Len(d)
  OBVIOUS
<1> SUFFICES /\ InOrder(g, c, w.current, e) => InOrder(g, d, current, e)
             /\ g # Nothing /\ Unloaded(g, c, w.current, e) => Unloaded(g, d, current, e)
  OBVIOUS
<1> HIDE DEF m, d, current, n
<1>4. \A i \in 1..n : i + 1 \in 1..(n + 1)
  BY <1>1
<1>5. 1 \in 1..(n + 1) /\ \A i \in 1..n : i + 1 > 1
  BY <1>1
<1>6. Unmarked(c) => Unmarked(d) /\ m.do \notin Marks
  BY <1>1, <1>3, <1>4, <1>5 DEF Unmarked
<1>7. ASSUME InOrder(g, c, w.current, e) PROVE InOrder(g, d, current, e)
  <2>1. ASSUME NEW i \in 1..n, NEW j \in 1..n, d[i].do = "Load", d[i].gen = g, j > i
        PROVE  d[j].do \notin Marks
    <3>1. i + 1 \in 1..(n + 1) /\ j + 1 \in 1..(n + 1) /\ j + 1 > i + 1
      BY <1>4, <2>1
    <3> QED
      BY <1>1, <1>7, <2>1, <3>1 DEF InOrder
  <2>2. ASSUME g # Nothing, current.gen = g PROVE Unmarked(d)
    <3>1. CASE m.do = "Load"
      <4>1. c[1].do = "Load" /\ c[1].gen = g
        BY <1>1, <1>2, <2>2, <3>1
      <4>2. \A j \in 1..(n + 1) : j > 1 => c[j].do \notin Marks
        BY <1>1, <1>5, <1>7, <4>1 DEF InOrder
      <4> QED
        BY <1>1, <1>3, <1>4, <1>5, <4>2 DEF Unmarked
    <3>2. CASE m.do = "Stop"
      BY <1>2, <2>2, <3>2, NothingTyped
    <3>3. CASE m.do \notin {"Load", "Stop"}
      BY <1>2, <1>6, <1>7, <2>2, <3>3 DEF InOrder
    <3> QED
      BY <3>1, <3>2, <3>3
  <2>3. ASSUME NEW k \in 1..Len(e), e[k].gen = g
        PROVE  Unmarked(d) /\ (e[k].is \in {"Drained", "Failed"} => current = Silence)
    <3>1. Unmarked(c) /\ (e[k].is \in {"Drained", "Failed"} => w.current = Silence)
      BY <1>7, <2>3 DEF InOrder
    <3> QED
      BY <1>2, <1>6, <3>1 DEF Marks
  <2> QED
    BY <1>3, <2>1, <2>2, <2>3 DEF InOrder
<1>8. ASSUME g # Nothing, Unloaded(g, c, w.current, e) PROVE Unloaded(g, d, current, e)
  <2>1. current.gen # g
    BY <1>1, <1>2, <1>5, <1>8, NothingTyped DEF Unloaded
  <2>2. \A i \in 1..n : d[i].do = "Load" => d[i].gen # g
    BY <1>1, <1>4, <1>8 DEF Unloaded
  <2> QED
    BY <1>3, <1>8, <2>1, <2>2 DEF Unloaded
<1> QED
  BY <1>7, <1>8

\* Handling a report.
LEMMA HandledInOrder ==
  ASSUME NEW e \in Seq(Reports), e # <<>>, NEW c, NEW current, NEW g
  PROVE  /\ InOrder(g, c, current, e) => InOrder(g, c, current, Tail(e))
         /\ Unloaded(g, c, current, e) => Unloaded(g, c, current, Tail(e))
<1> DEFINE f == Tail(e)
           n == Len(f)
<1>1. n \in Nat /\ Len(e) = n + 1 /\ \A i \in 1..n : f[i] = e[i + 1]
  OBVIOUS
<1>2. n = Len(f)
  OBVIOUS
<1> SUFFICES /\ InOrder(g, c, current, e) => InOrder(g, c, current, f)
             /\ Unloaded(g, c, current, e) => Unloaded(g, c, current, f)
  OBVIOUS
<1> HIDE DEF f, n
<1>3. \A i \in 1..n : i + 1 \in 1..(n + 1)
  BY <1>1
<1> QED
  BY <1>1, <1>2, <1>3 DEF InOrder, Unloaded

\* Making one.
LEMMA ReportedInOrder ==
  ASSUME NEW e \in Seq(Reports), NEW report \in Reports, NEW c, NEW g,
         NEW current, NEW later,
         current # Silence, report.gen = current.gen,
         later.gen = current.gen \/ later = Silence,
         report.is \in {"Drained", "Failed"} => later = Silence
  PROVE  /\ g \in Named /\ InOrder(g, c, current, e) =>
              InOrder(g, c, later, Append(e, report))
         /\ g # Nothing /\ Unloaded(g, c, current, e) =>
              Unloaded(g, c, later, Append(e, report))
<1> DEFINE f == Append(e, report)
           n == Len(e)
<1>1. n \in Nat /\ Len(f) = n + 1 /\ f[n + 1] = report /\ \A i \in 1..n : f[i] = e[i]
  OBVIOUS
<1>2. n = Len(e)
  OBVIOUS
<1>3. report.gen # Nothing
  BY SnapcastAssumption DEF Reports
<1> SUFFICES /\ g \in Named /\ InOrder(g, c, current, e) => InOrder(g, c, later, f)
             /\ g # Nothing /\ Unloaded(g, c, current, e) => Unloaded(g, c, later, f)
  OBVIOUS
<1> HIDE DEF f, n
<1>4. \A i \in 1..(n + 1) : i \in 1..n \/ i = n + 1
  BY <1>1
<1>5. ASSUME InOrder(g, c, current, e) PROVE InOrder(g, c, later, f)
  <2>1. ASSUME NEW k \in 1..(n + 1), f[k].gen = g
        PROVE  Unmarked(c) /\ (f[k].is \in {"Drained", "Failed"} => later = Silence)
    <3>1. CASE k = n + 1
      BY <1>1, <1>3, <1>5, <2>1, <3>1 DEF InOrder
    <3>2. CASE k \in 1..n
      BY <1>1, <1>2, <1>5, <2>1, <3>2 DEF InOrder
    <3> QED
      BY <1>4, <3>1, <3>2
  <2>2. g # Nothing /\ later.gen = g => Unmarked(c)
    BY <1>5, NothingTyped DEF InOrder
  <2> QED
    BY <1>1, <1>5, <2>1, <2>2 DEF InOrder
<1>6. ASSUME g # Nothing, Unloaded(g, c, current, e) PROVE Unloaded(g, c, later, f)
  BY <1>1, <1>2, <1>4, <1>6, NothingTyped DEF Unloaded
<1> QED
  BY <1>5, <1>6

-----------------------------------------------------------------------------
(* Silence. *)

Silencing == {"Pause", "Stop", "Clear", "PlayStream"}

\* Somebody is about to silence the writer.
Hushing ==
  \/ issued \cap Silencing # {}
  \/ q.position = 0 /\ (requested \/ issued # {} \/ worker.at \in {"stop", "pause"})

SilentUnlessLoaded == loaded.gen = Nothing => ~Sounds(channel, writer)
SilentUnlessHushing == q.status # "Playing" /\ Sounds(channel, writer) => Hushing

Hushed == Orderly /\ SilentUnlessLoaded /\ SilentUnlessHushing

KeepsConnect ==
  worker'.at = "connect" => worker.at = "connect" /\ worker'.gen = worker.gen
KeepsReports == events' = events \/ (events # <<>> /\ events' = Tail(events))

LEMMA HushedMeans == Typed /\ Hushed => SilentUnlessPlaying
<1> SUFFICES ASSUME Typed, Hushed, issued = {}, q.status # "Playing",
                    q.position = 0 => Quiet, WillPlay, WillHold
             PROVE  FALSE
  BY DEF SilentUnlessPlaying
<1>1. Hushing
  BY SoundsMeans DEF Hushed, SilentUnlessHushing
<1>2. q.position = 0 /\ (requested \/ worker.at \in {"stop", "pause"})
  BY <1>1 DEF Hushing
<1> QED
  BY <1>2, NothingTyped DEF Quiet

LEMMA InitHushed == Init => Hushed
<1> SUFFICES ASSUME Init PROVE Hushed
  OBVIOUS
<1>1. /\ loaded.gen = Nothing /\ worker.at = "idle" /\ channel = <<>> /\ events = <<>>
      /\ writer.current = Silence
  BY NothingTyped DEF Init
<1>2. InOrder(Nothing, <<>>, Silence, <<>>)
  <2>1. <<>> \in Seq(Messages) /\ <<>> \in Seq(Reports)
    OBVIOUS
  <2> QED
    BY <2>1, NothingInOrder
<1>3. ~Holds(<<>>, writer)
  BY <1>1 DEF Holds, LastIn, Among
<1> QED
  BY <1>1, <1>2, <1>3 DEF Hushed, Orderly, SilentUnlessLoaded, SilentUnlessHushing, Sounds

\* Orders, as far as the steps that load nothing go.
LEMMA OrderKept ==
  ASSUME Typed, Orderly, Typed', writer'.current = writer.current,
         KeepsReports, KeepsConnect,
         \/ channel' = channel
         \/ \E m \in Messages : m.do # "Load" /\ channel' = channel \o <<m>>
              /\ (m.do \in Marks => loaded'.gen = Nothing),
         loaded'.gen \in {loaded.gen, Nothing}
  PROVE  Orderly'
<1> DEFINE c == channel
           e == events
           current == writer.current
           g == loaded.gen
           d == channel'
           f == events'
           h == worker.gen
<1>1. /\ c \in Seq(Messages) /\ d \in Seq(Messages) /\ e \in Seq(Reports)
      /\ f \in Seq(Reports) /\ writer'.current = current
      /\ \/ d = c
         \/ \E m \in Messages : m.do # "Load" /\ d = c \o <<m>>
              /\ (m.do \in Marks => loaded'.gen = Nothing)
      /\ f = e \/ (e # <<>> /\ f = Tail(e))
      /\ InOrder(g, c, current, e)
      /\ worker.at = "connect" => Unloaded(h, c, current, e)
      /\ loaded'.gen \in {g, Nothing}
  BY DEF Typed, WriterTyped, Orderly, KeepsReports
<1> HIDE DEF c, d, e, f, current, g, h
<1>2. loaded'.gen # Nothing => InOrder(g, d, current, e)
  <2>1. CASE d = c
    BY <1>1, <2>1
  <2>2. ASSUME NEW m \in Messages, m.do \notin Marks, d = c \o <<m>>
        PROVE  InOrder(g, d, current, e)
    BY <1>1, <2>2, SentInOrder
  <2> QED
    BY <1>1, <2>1, <2>2
<1>3. worker.at = "connect" => Unloaded(h, d, current, e)
  <2>1. CASE d = c
    BY <1>1, <2>1
  <2>2. ASSUME NEW m \in Messages, m.do # "Load", d = c \o <<m>>, worker.at = "connect"
        PROVE  Unloaded(h, d, current, e)
    BY <1>1, <2>2, SentInOrder
  <2> QED
    BY <1>1, <2>1, <2>2
<1>4. InOrder(loaded'.gen, d, current, f)
  <2>1. CASE loaded'.gen = Nothing
    BY <1>1, <2>1, NothingInOrder
  <2>2. CASE loaded'.gen # Nothing
    BY <1>1, <1>2, <2>2, HandledInOrder
  <2> QED
    BY <2>1, <2>2
<1>5. worker.at = "connect" => Unloaded(h, d, current, f)
  BY <1>1, <1>3, HandledInOrder
<1> QED
  BY <1>1, <1>4, <1>5 DEF Orderly, KeepsConnect, d, f, h

\* A step that starts nothing, takes no command back and leaves the worker about
\* to silence the writer if it was.
LEMMA HushKept ==
  ASSUME SilentUnlessLoaded, SilentUnlessHushing,
         Sounds(channel, writer)' => Sounds(channel, writer),
         loaded'.gen = loaded.gen,
         q'.status # "Playing" => q.status # "Playing" /\ q'.position = q.position,
         issued \subseteq issued', requested => requested',
         worker.at \in {"stop", "pause"} => worker'.at \in {"stop", "pause"}
  PROVE  SilentUnlessLoaded' /\ SilentUnlessHushing'
BY DEF SilentUnlessLoaded, SilentUnlessHushing, Hushing

\* The writer is told to stop.
LEMMA StopHushes ==
  ASSUME Typed, Hushed, Typed', Send(Stopping), loaded' = NoLoad, writer' = writer,
         KeepsReports, KeepsConnect
  PROVE  Hushed'
<1> DEFINE m == [do |-> "Stop"]
<1>1. m \in Messages /\ m.do = "Stop" /\ m.do # "Load"
  BY DEF Messages
<1>2. channel' = channel \o <<m>> /\ channel \in Seq(Messages)
  BY DEF Send, Stopping, Typed, WriterTyped
<1> HIDE DEF m
<1>3. loaded'.gen = Nothing
  BY NothingTyped
<1>4. Orderly'
  BY <1>1, <1>2, <1>3, OrderKept DEF Hushed
<1>5. ~Sounds(channel', writer)
  BY <1>1, <1>2, SentSounds
<1> QED
  BY <1>4, <1>5 DEF Hushed, SilentUnlessLoaded, SilentUnlessHushing

\* The writer is told to pause.
LEMMA PauseHushes ==
  ASSUME Typed, Hushed, Typed', Send(Playing(FALSE)), loaded'.gen = loaded.gen,
         writer' = writer, KeepsReports, KeepsConnect
  PROVE  Hushed'
<1> DEFINE m == [do |-> "SetPlaying", on |-> FALSE]
<1>1. m \in Messages /\ m.do = "SetPlaying" /\ ~m.on /\ m.do \notin Marks
  BY DEF Messages, Marks
<1>2. channel' = channel \o <<m>> /\ channel \in Seq(Messages)
  BY DEF Send, Playing, Typed, WriterTyped
<1> HIDE DEF m
<1>4. Orderly'
  BY <1>1, <1>2, OrderKept DEF Hushed, Marks
<1>5. ~Sounds(channel', writer)
  BY <1>1, <1>2, SentSounds
<1> QED
  BY <1>4, <1>5 DEF Hushed, SilentUnlessLoaded, SilentUnlessHushing

\* The writer is told something about the next track, or nothing.
LEMMA NextHushed ==
  ASSUME Typed, Hushed, Typed', writer' = writer, KeepsReports, KeepsConnect,
         loaded'.gen = loaded.gen,
         \/ channel' = channel
         \/ \E m \in Messages : m.do \in {"Preload", "ClearPreload"} /\ Send(<<m>>),
         q'.status # "Playing" => q.status # "Playing" /\ q'.position = q.position,
         issued \subseteq issued', requested => requested',
         worker.at \in {"stop", "pause"} => worker'.at \in {"stop", "pause"}
  PROVE  Hushed'
<1>1. channel \in Seq(Messages)
  BY DEF Typed, WriterTyped
<1>2. \/ channel' = channel
      \/ \E m \in Messages : m.do # "Load" /\ channel' = channel \o <<m>>
           /\ (m.do \in Marks => loaded'.gen = Nothing)
  BY DEF Send, Marks
<1>3. Orderly'
  BY <1>2, OrderKept DEF Hushed
<1>4. Sounds(channel, writer)' => Sounds(channel, writer)
  <2>1. ASSUME NEW m \in Messages, m.do \in {"Preload", "ClearPreload"},
               channel' = channel \o <<m>>
        PROVE  Sounds(channel', writer) <=> Sounds(channel, writer)
    BY <1>1, <2>1, SentSounds
  <2> QED
    BY <2>1 DEF Send
<1>5. SilentUnlessLoaded' /\ SilentUnlessHushing'
  BY <1>4, HushKept DEF Hushed
<1> QED
  BY <1>3, <1>5 DEF Hushed

\* No command stops playback and keeps a cursor, but those that silence.
LEMMA AppliedStops ==
  ASSUME NEW s, s \in QueueStates, s.position \in Nat,
         NEW command \in PlayerCommand \ Silencing,
         NEW arg \in Arguments(command), NEW t \in Applied(s, command, arg)
  PROVE  \/ t.status = "Playing" \/ t.position = 0
         \/ t.status = s.status /\ s.position # 0
<1> DEFINE Kept(u) == \/ u.status = "Playing" \/ u.position = 0
                      \/ u.status = s.status /\ s.position # 0
<1>0. Kept(s)
  OBVIOUS
<1>1. CASE command = "Play"
  BY <1>1 DEF Applied, QueueStates
<1>2. CASE command \in {"Seek", "SetVolume"}
  BY <1>0, <1>2 DEF Applied
<1>3. CASE command = "Next"
  <2>1. CASE s.position = 0 \/ s.queue = <<>>
    BY <1>0, <1>3, <2>1 DEF Applied, Advance
  <2>2. CASE ~(s.position = 0 \/ s.queue = <<>>)
    <3>1. PICK c \in AdvanceChoices(s) :
            t = Landed([s EXCEPT !.order = c[1]], c[2], FALSE)
      BY <1>3, <2>2 DEF Applied, Advance
    <3> DEFINE u == [s EXCEPT !.order = c[1]]
               w == ClearExhaustionAfterAdvance(u, c[2])
    <3>3. w.status = u.status /\ [w EXCEPT !.position = c[2]].status = w.status
      BY DEF ClearExhaustionAfterAdvance, CancelRefill, QueueStates
    <3>4. u.status = s.status
      BY DEF QueueStates
    <3>5. t.status = s.status
      BY <3>1, <3>3, <3>4 DEF Landed
    <3> QED
      BY <2>2, <3>5
  <2> QED
    BY <2>1, <2>2
<1>4. CASE command = "Previous"
  <2>1. /\ \A o, v : [s EXCEPT !.order = o, !.position = v].status = s.status
        /\ \A v : [s EXCEPT !.position = v].status = s.status
    BY DEF QueueStates
  <2>2. CASE s.position = 0
    <3>1. ~(s.position > 1) /\ s.position # 1
      BY <2>2
    <3>2. StepPrevious(s) = {s}
      BY <2>2, <3>1 DEF StepPrevious
    <3>3. t = s
      BY <1>4, <3>2 DEF Applied
    <3> QED
      BY <1>0, <3>3
  <2>3. CASE s.position # 0 /\ s.shuffle
    <3>1. t \in {[s EXCEPT !.order = o, !.position = IndexBefore(s, o)] :
                   o \in EnsureShuffleOrder(s)}
      BY <1>4, <2>3 DEF Applied, StepPrevious
    <3>2. \E o, v : t = [s EXCEPT !.order = o, !.position = v]
      BY <3>1
    <3> QED
      BY <2>1, <2>3, <3>2
  <2>4. CASE s.position # 0 /\ ~s.shuffle
    <3>1. t = s \/ \E v : t = [s EXCEPT !.position = v]
      BY <1>4, <2>4 DEF Applied, StepPrevious, QueueStates
    <3> QED
      BY <2>1, <2>4, <3>1
  <2> QED
    BY <2>2, <2>3, <2>4
<1>5. CASE command = "SetRepeat"
  BY <1>5 DEF Applied, QueueStates
<1>6. CASE command = "SetShuffle"
  <2>1. t.status = s.status /\ t.position = s.position
    BY <1>6 DEF Applied, ShuffleTo, QueueStates
  <2> QED
    BY <2>1
<1>7. CASE command = "RestoreClearedQueue"
  BY <1>7 DEF Applied, QueueStates
<1>8. CASE command = "PlayQueueIndex"
  BY <1>8 DEF Applied, PlayIndex, QueueStates
<1>9. CASE command = "PlayTracks"
  <2>1. t = ReplaceQueue(s, arg, 1) /\ arg \in Seq(Track)
    BY <1>9, CommandsAssumption DEF Applied, Arguments
  <2>2. arg # <<>> => t.status = "Playing"
    BY <2>1 DEF ReplaceQueue, QueueStates
  <2>3. arg = <<>> => t.position = 0
    BY <2>1 DEF ReplaceQueue, QueueStates
  <2> QED
    BY <2>2, <2>3
<1>10. CASE command = "Enqueue"
  <2>1. t.status = s.status /\ t.position = s.position
    BY <1>10 DEF Applied, EnqueueItems, QueueStates
  <2> QED
    BY <2>1
<1>11. CASE command = "RemoveQueueItem"
  <2>1. t = RemoveItem(s, arg) /\ arg \in Nat \ {0}
    BY <1>11, CommandsAssumption DEF Applied, Arguments
  <2> DEFINE rest == RemoveAt(s.queue, arg)
             last == IF s.position <= Len(rest) THEN s.position ELSE Len(rest)
  <2>2. /\ \A v : [s EXCEPT !.queue = rest, !.position = v].status = s.status
        /\ [s EXCEPT !.queue = rest].status = s.status
        /\ [s EXCEPT !.queue = rest].position = s.position
        /\ [s EXCEPT !.queue = rest, !.position = 0, !.status = "Stopped"].position = 0
    BY DEF QueueStates
  <2>3. CASE arg \notin 1..Len(s.queue)
    BY <1>0, <2>1, <2>3 DEF RemoveItem
  <2>4. CASE arg \in 1..Len(s.queue) /\ s.position = arg
    <3>1. CASE rest = <<>>
      BY <2>1, <2>2, <2>4, <3>1 DEF RemoveItem
    <3>2. CASE rest # <<>>
      <4>1. t = [s EXCEPT !.queue = rest, !.position = last]
        BY <2>1, <2>4, <3>2 DEF RemoveItem
      <4> QED
        BY <2>1, <2>2, <2>4, <4>1
    <3> QED
      BY <3>1, <3>2
  <2>5. CASE arg \in 1..Len(s.queue) /\ s.position > arg
    <3>1. t = [s EXCEPT !.queue = rest, !.position = s.position - 1]
      BY <2>1, <2>5 DEF RemoveItem
    <3>2. s.position # 0
      BY <2>1, <2>5
    <3> QED
      BY <2>2, <3>1, <3>2
  <2>6. CASE arg \in 1..Len(s.queue) /\ ~(s.position = arg \/ s.position > arg)
    <3>1. t = [s EXCEPT !.queue = rest]
      BY <2>1, <2>6 DEF RemoveItem
    <3> QED
      BY <2>2, <3>1
  <2> QED
    BY <2>3, <2>4, <2>5, <2>6
<1>12. CASE command = "MoveQueueItem"
  <2>1. t = MoveItem(s, arg[1], arg[2])
    BY <1>12 DEF Applied
  <2>2. t.status = s.status /\ (s.position = 0 => t.position = 0)
    BY <2>1 DEF MoveItem, QueueStates
  <2> QED
    BY <2>2
<1> QED
  BY <1>1, <1>2, <1>3, <1>4, <1>5, <1>6, <1>7, <1>8, <1>9, <1>10, <1>11, <1>12
     DEF PlayerCommand, Silencing

LEMMA OutcomeStops ==
  ASSUME NEW s, Sound(FALSE, s), NEW command \in PlayerCommand \ Silencing,
         NEW arg \in Arguments(command), NEW t \in Outcomes(s, command, arg)
  PROVE  \/ t.status = "Playing" \/ t.position = 0
         \/ t.status = s.status /\ s.position # 0
<1> DEFINE u == Prepared(s, command)
<1>1. s \in QueueStates
  BY DEF Sound
<1>2. u \in QueueStates /\ u.status = s.status /\ u.position = s.position
  BY <1>1, CancelTyped DEF Prepared, CancelRefill, QueueStates
<1>3. u.position \in Nat
  BY <1>1, <1>2 DEF Sound, CursorInRange, QueueStates
<1> HIDE DEF u
<1>4. CASE t = s
  BY <1>4
<1>5. CASE t \in Applied(u, command, arg)
  BY <1>2, <1>3, <1>5, AppliedStops
<1> QED
  BY <1>4, <1>5 DEF Outcomes, u

LEMMA ApplyHushed ==
  ASSUME Typed, Hushed, NEW command \in Commands, ApplyCommand(command)
  PROVE  Hushed'
<1>0. /\ UNCHANGED <<loaded, requested, worker, channel, writer, events>>
      /\ issued' = issued \cup {command}
  BY DEF ApplyCommand, output
<1>1. PICK arg \in Arguments(command) : \E t \in Outcomes(q, command, arg) :
        q' = Uncounted(t)
  BY DEF ApplyCommand
<1>2. PICK t \in Outcomes(q, command, arg) : q' = Uncounted(t)
  BY <1>1
<1>3. command \in Silencing \/ q'.status = "Playing" \/ q'.position = 0
      \/ (q'.status = q.status /\ q.position # 0)
  <2> DEFINE before == q
  <2>1. /\ command \in PlayerCommand /\ Sound(FALSE, before)
        /\ t \in Outcomes(before, command, arg) /\ before = q
    BY SnapcastAssumption DEF Typed, QueueTyped
  <2> HIDE DEF before
  <2>2. t \in QueueStates
    BY <2>1, OutcomesSound DEF Sound
  <2>3. q'.status = t.status /\ q'.position = t.position
    BY <1>2, <2>2 DEF Uncounted, QueueStates
  <2>4. command \notin Silencing => \/ t.status = "Playing" \/ t.position = 0
                                    \/ t.status = before.status /\ before.position # 0
    BY <2>1, OutcomeStops
  <2> QED
    BY <2>1, <2>3, <2>4
<1>4. Orderly' /\ SilentUnlessLoaded'
  BY <1>0 DEF Hushed, Orderly, SilentUnlessLoaded
<1>5. SilentUnlessHushing'
  BY <1>0, <1>3 DEF Hushed, SilentUnlessHushing, Hushing
<1> QED
  BY <1>4, <1>5 DEF Hushed

LEMMA FinishHushed ==
  ASSUME Typed, Hushed, NEW command \in Commands, FinishCommand(command)
  PROVE  Hushed'
<1>0. /\ UNCHANGED <<writer, events>> /\ requested' = TRUE /\ issued' = issued \ {command}
      /\ q' = q \/ q' = [q EXCEPT !.activity = "None"]
      /\ Typed'
  BY FinishTyped DEF FinishCommand, output
<1>1. KeepsConnect /\ KeepsReports
  <2>1. worker' = [worker EXCEPT !.fresh = worker.fresh /\ command \notin Reloads]
        /\ worker \in Works
    BY DEF FinishCommand, Typed, WorkerTyped, WorkTyped
  <2>2. worker'.at = worker.at /\ worker'.gen = worker.gen
    BY <2>1 DEF Works
  <2> QED
    BY <1>0, <2>2 DEF KeepsConnect, KeepsReports
<1>2. q'.status = q.status /\ q'.position = q.position
  BY <1>0 DEF Typed, QueueTyped, Sound, QueueStates
<1>3. loaded' = [loaded EXCEPT !.fresh = loaded.fresh /\ command \notin Reloads]
        => loaded'.gen = loaded.gen
  BY DEF Typed, LoadTyped, Loads
<1>4. CASE channel' = channel \o Stopping /\ loaded' = NoLoad
  BY <1>0, <1>1, <1>4, StopHushes DEF Send
<1>5. CASE /\ channel' = channel \o Playing(FALSE)
           /\ loaded' = [loaded EXCEPT !.fresh = @ /\ command \notin Reloads]
  BY <1>0, <1>1, <1>3, <1>5, PauseHushes DEF Send
<1>6. CASE /\ channel' = channel
           /\ loaded' = [loaded EXCEPT !.fresh = @ /\ command \notin Reloads]
           /\ command \notin Silences \cup {"Pause"}
  <2>1. Orderly'
    BY <1>0, <1>1, <1>3, <1>6, OrderKept DEF Hushed
  <2>2. SilentUnlessLoaded'
    BY <1>0, <1>3, <1>6 DEF Hushed, SilentUnlessLoaded
  <2>3. command \notin Silencing
    BY <1>6 DEF Silencing, Silences
  <2>4. SilentUnlessHushing'
    BY <1>0, <1>2, <1>6, <2>3 DEF Hushed, SilentUnlessHushing, Hushing
  <2> QED
    BY <2>1, <2>2, <2>4 DEF Hushed
<1> QED
  BY <1>4, <1>5, <1>6, FinishSends

LEMMA RefillHushed ==
  ASSUME Typed, Hushed, Refill
  PROVE  Hushed'
<1>0. /\ UNCHANGED <<issued, loaded, worker, channel, writer, events>>
      /\ requested => requested'
  BY DEF Refill, BeginAutoplayRefill, FinishAutoplayRefill, output
<1> DEFINE s == q
           t == q'
<1>1. s \in QueueStates
  BY DEF Typed, QueueTyped, Sound
<1>2. \/ t = BeginRefill(s) \/ t = s
      \/ \E items \in Found : t = FinishRefill(s, items)
  BY DEF Refill, BeginAutoplayRefill, FinishAutoplayRefill
<1>3. t = q' /\ s = q
  OBVIOUS
<1> HIDE DEF s, t
<1>4. t.status # "Playing" => s.status # "Playing" /\ t.position = s.position
  <2>1. CASE t = BeginRefill(s)
    BY <1>1, <2>1 DEF BeginRefill, QueueStates
  <2>2. CASE t = s
    BY <2>2
  <2>3. ASSUME NEW items \in Found, t = FinishRefill(s, items)
        PROVE  t.status # "Playing" => s.status # "Playing" /\ t.position = s.position
    <3>1. CASE items = <<>>
      BY <1>1, <2>3, <3>1 DEF FinishRefill, QueueStates
    <3>2. CASE items # <<>> /\ s.resumeAt = 0
      BY <1>1, <2>3, <3>2 DEF FinishRefill, QueueStates
    <3>3. CASE items # <<>> /\ s.resumeAt # 0
      BY <1>1, <2>3, <3>3 DEF FinishRefill, QueueStates
    <3> QED
      BY <3>1, <3>2, <3>3
  <2> QED
    BY <1>2, <2>1, <2>2, <2>3
<1>5. Typed' /\ KeepsConnect /\ KeepsReports
  BY <1>0, RefillTyped DEF KeepsConnect, KeepsReports
<1> QED
  BY <1>0, <1>3, <1>4, <1>5, NextHushed

\* The worker.
LEMMA DoneKeeps == Done => KeepsConnect
BY NothingTyped DEF Done, KeepsConnect

LEMMA ReconcileHushed ==
  ASSUME Typed, Hushed, Reconcile
  PROVE  Hushed'
<1>1. /\ UNCHANGED <<q, listener, loaded, channel, output>>
      /\ Typed' /\ worker'.at \in {"compare", "radio", "pause", "stop"}
      /\ q.status # "Playing" => worker'.at \in {"pause", "stop"}
  BY ReconcileTyped DEF Reconcile
<1>2. Orderly' /\ SilentUnlessLoaded'
  BY <1>1 DEF Hushed, Orderly, SilentUnlessLoaded, output
<1>3. SilentUnlessHushing'
  BY <1>1 DEF Hushed, SilentUnlessHushing, Hushing, listener, output
<1> QED
  BY <1>2, <1>3 DEF Hushed

LEMMA StopOrPauseHushed ==
  ASSUME Typed, Hushed, ReconcileStop \/ ReconcilePause
  PROVE  Hushed'
<1>1. /\ UNCHANGED output /\ Done /\ Typed'
      /\ \/ Send(Stopping) /\ loaded' = NoLoad
         \/ Send(Playing(FALSE)) /\ UNCHANGED loaded
  BY StopOrPauseTyped DEF ReconcileStop, ReconcilePause, At
<1>2. KeepsConnect /\ KeepsReports /\ writer' = writer
  BY <1>1, DoneKeeps DEF KeepsReports, output
<1> QED
  BY <1>1, <1>2, StopHushes, PauseHushes

LEMMA CompareHushed ==
  ASSUME Typed, Hushed, CompareLoaded
  PROVE  Hushed'
<1>1. /\ UNCHANGED <<listener, requested, output, q, loaded>> /\ worker.at = "compare"
      /\ worker \in Works /\ Typed'
      /\ \/ AlreadyLoaded /\ StillWanted /\ Send(Playing(TRUE)) /\ Then("preload")
         \/ UNCHANGED channel /\ Then("replace")
  BY CompareTyped DEF CompareLoaded, At, Typed, WorkerTyped, WorkTyped
<1>2. worker'.at \in {"preload", "replace"}
  BY <1>1, ThenTyped DEF Steps
<1>3. KeepsConnect /\ KeepsReports /\ writer' = writer
  BY <1>1, <1>2 DEF KeepsConnect, KeepsReports, output
<1>4. CASE AlreadyLoaded /\ StillWanted /\ Send(Playing(TRUE))
  <2> DEFINE m == [do |-> "SetPlaying", on |-> TRUE]
  <2>1. m \in Messages /\ m.do # "Load" /\ m.do \notin Marks
        /\ channel' = channel \o <<m>>
    BY <1>4 DEF Messages, Marks, Send, Playing
  <2> HIDE DEF m
  <2>2. Orderly'
    BY <1>1, <1>3, <2>1, OrderKept DEF Hushed
  <2>3. loaded.item \in Track /\ Nothing \notin Track
    BY <1>1, <1>4, SnapcastAssumption
       DEF AlreadyLoaded, Typed, WorkerTyped, WorkTyped, Item
  <2>4. SilentUnlessLoaded'
    BY <1>1, <2>3 DEF SilentUnlessLoaded, Typed, LoadTyped
  <2>5. SilentUnlessHushing'
    BY <1>1, <1>4 DEF SilentUnlessHushing, StillWanted
  <2> QED
    BY <2>2, <2>4, <2>5 DEF Hushed
<1>5. CASE UNCHANGED channel
  BY <1>1, <1>3, <1>5, NextHushed DEF listener
<1> QED
  BY <1>1, <1>4, <1>5

LEMMA ReplaceHushed ==
  ASSUME Typed, Hushed, ReplaceLoaded
  PROVE  Hushed'
<1>1. /\ UNCHANGED output /\ Send(Stopping) /\ loaded' = NoLoad
      /\ Typed' /\ worker'.at = "announce"
  BY ReplaceTyped DEF ReplaceLoaded, At
<1> QED
  BY <1>1, StopHushes DEF KeepsConnect, KeepsReports, output

LEMMA AnnounceHushed ==
  ASSUME Typed, Hushed, AnnouncePreparation
  PROVE  Hushed'
<1>1. /\ UNCHANGED <<listener, requested, output, loaded, channel>>
      /\ worker.at = "announce" /\ Then("load") /\ Typed' /\ worker \in Works
      /\ q' = [q EXCEPT !.activity = "Preparing"] /\ q \in QueueStates
  BY AnnounceTyped DEF AnnouncePreparation, At, Typed, WorkerTyped, WorkTyped, QueueTyped,
     Sound
<1>2. worker'.at = "load"
  BY <1>1, ThenTyped DEF Steps
<1>3. q'.status = q.status /\ q'.position = q.position
  BY <1>1 DEF QueueStates
<1> QED
  BY <1>1, <1>2, <1>3, NextHushed DEF KeepsConnect, KeepsReports, listener, output

LEMMA PreparationFailsHushed ==
  ASSUME Typed, Hushed, PreparationFails
  PROVE  Hushed'
<1>1. /\ UNCHANGED <<output, loaded, channel>> /\ worker.at = "load" /\ Done /\ Typed'
  BY PreparationFailsTyped DEF PreparationFails, At
<1>2. loaded.gen = Nothing /\ ~Sounds(channel, writer)
  BY <1>1 DEF Typed, WorkerTyped, Hushed, SilentUnlessLoaded
<1>3. Orderly'
  BY <1>1, DoneKeeps, OrderKept DEF Hushed, KeepsReports, output
<1>4. SilentUnlessLoaded' /\ SilentUnlessHushing'
  BY <1>1, <1>2 DEF SilentUnlessLoaded, SilentUnlessHushing, output
<1> QED
  BY <1>3, <1>4 DEF Hushed

\* A load under a generation of its own, and played.
LEMMA LoadHushed ==
  ASSUME Typed, Typed', NEW item \in Item, NEW g \in Generations,
         Unloaded(g, channel, writer.current, events),
         Send(<<[do |-> "Load", item |-> item, gen |-> g]>> \o Playing(TRUE)),
         loaded'.gen = g, worker'.at # "connect", UNCHANGED <<writer, events>>,
         q'.status = "Playing"
  PROVE  Hushed'
<1> DEFINE c == channel
           load == [do |-> "Load", item |-> item, gen |-> g]
           play == [do |-> "SetPlaying", on |-> TRUE]
           d == c \o <<load>>
<1>1. /\ c \in Seq(Messages) /\ load \in Messages /\ play \in Messages
      /\ play.do \notin Marks
  BY DEF Typed, WriterTyped, Messages, Marks
<1>2. channel' = c \o (<<load>> \o <<play>>)
  BY DEF Send, Playing
<1>3. Unloaded(g, c, writer.current, events) /\ c = channel
  OBVIOUS
<1> HIDE DEF c, load, play
<1>4. d \in Seq(Messages) /\ InOrder(g, d, writer.current, events)
  BY <1>1, <1>3, SentInOrder, SentLast
<1>5. channel' = d \o <<play>>
  BY <1>1, <1>2
<1> HIDE DEF d
<1>6. InOrder(g, channel', writer.current, events)
  BY <1>1, <1>4, <1>5, SentInOrder
<1>7. Orderly'
  BY <1>6 DEF Orderly
<1>8. SilentUnlessLoaded' /\ SilentUnlessHushing'
  BY SnapcastAssumption DEF SilentUnlessLoaded, SilentUnlessHushing
<1> QED
  BY <1>7, <1>8 DEF Hushed

LEMMA LoadCurrentHushed ==
  ASSUME Typed, Hushed, NEW g, LoadCurrent(g)
  PROVE  Hushed'
<1>1. /\ UNCHANGED <<listener, requested, output, q>> /\ Typed'
      /\ worker.at = "load" /\ g \in Unused /\ g \in Generations
      /\ worker \in Works /\ worker.item \in Item
  BY LoadCurrentTyped DEF LoadCurrent, At, Unused, Typed, WorkerTyped, WorkTyped, Item
<1>2. CASE StillWanted /\ worker.fresh
  <2> DEFINE load == NoLoad
             item == worker.item
             position == worker.position
  <2>1. /\ Send(<<[do |-> "Load", item |-> item, gen |-> g]>> \o Playing(TRUE))
        /\ loaded' = [load EXCEPT !.item = item, !.gen = g, !.position = position,
                                  !.fresh = TRUE]
        /\ Then("preload")
    BY <1>2 DEF LoadCurrent
  <2>2. load \in Loads /\ item \in Item
    BY <1>1, NothingTyped
  <2> HIDE DEF load, item, position
  <2>3. loaded'.gen = g
    BY <2>1, <2>2 DEF Loads
  <2>4. worker'.at = "preload"
    BY <1>1, <2>1, ThenTyped DEF Steps
  <2>5. q'.status = "Playing" /\ UNCHANGED <<writer, events>>
    BY <1>1, <1>2 DEF StillWanted, output
  <2>6. Unloaded(g, channel, writer.current, events)
    BY <1>1, UnusedIsUnloaded
  <2> QED
    BY <1>1, <2>1, <2>2, <2>3, <2>4, <2>5, <2>6, LoadHushed
<1>3. CASE ~(StillWanted /\ worker.fresh)
  <2>1. Done /\ UNCHANGED <<loaded, channel>>
    BY <1>3 DEF LoadCurrent
  <2> QED
    BY <1>1, <2>1, DoneKeeps, NextHushed DEF KeepsReports, listener, output
<1> QED
  BY <1>2, <1>3

LEMMA PreloadHushed ==
  ASSUME Typed, Hushed, ClearPreload \/ PreloadNext \/ PreloadFails
  PROVE  Hushed'
<1>1. /\ UNCHANGED <<listener, requested, output, q>> /\ Typed'
      /\ worker.at \in {"preload", "preloading"} /\ loaded'.gen = loaded.gen
  BY ClearPreloadTyped, PreloadNextTyped
     DEF ClearPreload, PreloadNext, PreloadFails, At
<1>2. worker'.at \in {"idle", "preloading"}
  BY ClearPreloadTyped, PreloadNextTyped, NothingTyped DEF Done
<1>3. \/ channel' = channel
      \/ \E m \in Messages : m.do \in {"Preload", "ClearPreload"} /\ Send(<<m>>)
  <2>1. CASE ClearPreload
    <3>1. [do |-> "ClearPreload", gen |-> loaded.gen] \in Messages
      BY DEF Typed, LoadTyped, Loads, Messages
    <3> QED
      BY <2>1, <3>1, ClearPreloadTyped
  <2>2. CASE PreloadNext \/ PreloadFails
    <3>1. [do |-> "Preload", item |-> worker.next, gen |-> worker.gen] \in Messages
      BY <2>2 DEF PreloadNext, PreloadFails, At, Typed, WorkerTyped, WorkTyped, Works,
         Messages
    <3> QED
      BY <2>2, <3>1, PreloadNextTyped
  <2> QED
    BY <2>1, <2>2
<1> QED
  BY <1>1, <1>2, <1>3, NextHushed DEF KeepsConnect, KeepsReports, listener, output

LEMMA RadioHushed ==
  ASSUME Typed, Hushed, NEW g, ConnectRadio(g)
  PROVE  Hushed'
<1>1. /\ UNCHANGED <<listener, requested, output>> /\ Typed'
      /\ worker.at = "radio" /\ g \in Unused /\ g \in Generations
      /\ worker \in Works
  BY RadioTyped DEF ConnectRadio, At, Unused, Typed, WorkerTyped, WorkTyped
<1> DEFINE there == /\ StillWanted /\ loaded.item = Radio /\ loaded.ready
                    /\ loaded.position = worker.position
<1>2. CASE ~StillWanted
  <2>1. Done /\ UNCHANGED <<q, loaded, channel>>
    BY <1>2 DEF ConnectRadio
  <2> QED
    BY <1>1, <2>1, DoneKeeps, NextHushed DEF KeepsReports, listener, output
<1>3. CASE there
  <2>1. Send(Playing(TRUE)) /\ Done /\ UNCHANGED <<q, loaded>>
    BY <1>3 DEF ConnectRadio
  <2> DEFINE m == [do |-> "SetPlaying", on |-> TRUE]
  <2>2. m \in Messages /\ m.do # "Load" /\ m.do \notin Marks
        /\ channel' = channel \o <<m>>
    BY <2>1 DEF Messages, Marks, Send, Playing
  <2> HIDE DEF m
  <2>3. Orderly'
    BY <1>1, <2>1, <2>2, DoneKeeps, OrderKept DEF Hushed, KeepsReports, output
  <2>4. loaded.item # Nothing
    BY <1>3, SnapcastAssumption DEF Item
  <2>5. SilentUnlessLoaded'
    BY <2>1, <2>4 DEF SilentUnlessLoaded, Typed, LoadTyped
  <2>6. SilentUnlessHushing'
    BY <1>3, <2>1 DEF SilentUnlessHushing, StillWanted
  <2> QED
    BY <2>3, <2>5, <2>6 DEF Hushed
<1>4. CASE StillWanted /\ ~there
  <2> DEFINE load == NoLoad
             position == worker.position
             work == worker
             m == [do |-> "Stop"]
  <2>1. /\ Send(Stopping)
        /\ loaded' = [load EXCEPT !.item = Radio, !.gen = g, !.position = position]
        /\ worker' = [work EXCEPT !.at = "connect", !.gen = g]
    BY <1>4 DEF ConnectRadio
  <2>2. load \in Loads /\ work \in Works
    BY <1>1, NothingTyped
  <2>3. /\ channel' = channel \o <<m>> /\ m \in Messages /\ m.do = "Stop"
        /\ channel \in Seq(Messages)
    BY <2>1 DEF Send, Stopping, Messages, Typed, WriterTyped
  <2> HIDE DEF load, position, work, m
  <2>4. loaded'.gen = g /\ worker'.gen = g
    BY <2>1, <2>2 DEF Loads, Works
  <2>5. Unloaded(g, channel, writer.current, events)
    BY <1>1, UnusedIsUnloaded
  <2>6. /\ InOrder(g, channel', writer.current, events)
        /\ Unloaded(g, channel', writer.current, events)
    BY <2>3, <2>5, SentInOrder
  <2>7. Orderly'
    BY <1>1, <2>4, <2>6 DEF Orderly, output
  <2>8. ~Sounds(channel, writer)'
    BY <1>1, <2>3, SentSounds DEF output
  <2> QED
    BY <2>7, <2>8 DEF Hushed, SilentUnlessLoaded, SilentUnlessHushing
<1> QED
  BY <1>2, <1>3, <1>4

LEMMA StartRadioHushed ==
  ASSUME Typed, Hushed, StartRadio
  PROVE  Hushed'
<1>1. /\ UNCHANGED <<listener, requested, output, q>> /\ Typed' /\ Done
      /\ worker.at = "connect" /\ loaded'.gen = loaded.gen
      /\ worker.gen \in Generations /\ Radio \in Item
  BY StartRadioTyped DEF StartRadio, At, Typed, WorkerTyped, WorkTyped, Item
<1>2. CASE channel' = channel
  BY <1>1, <1>2, DoneKeeps, NextHushed DEF KeepsReports, listener, output
<1>3. CASE /\ loaded.gen = worker.gen /\ StillWanted
           /\ Send(<<[do |-> "Load", item |-> Radio, gen |-> worker.gen]>>
                     \o Playing(TRUE))
  <2>1. Unloaded(worker.gen, channel, writer.current, events)
    BY <1>1 DEF Hushed, Orderly
  <2>2. worker'.at # "connect" /\ UNCHANGED <<writer, events>> /\ q'.status = "Playing"
    BY <1>1, <1>3, NothingTyped DEF Done, output, StillWanted
  <2> QED
    BY <1>1, <1>3, <2>1, <2>2, LoadHushed
<1> QED
  BY <1>2, <1>3, StartRadioTyped

LEMMA RadioFailsHushed ==
  ASSUME Typed, Hushed, RadioFails
  PROVE  Hushed'
<1>1. /\ UNCHANGED <<listener, output>> /\ Done /\ Typed' /\ requested' = requested
      /\ worker.at = "connect"
  BY RadioFailsTyped DEF RadioFails, OnStreamFailed
<1>2. KeepsConnect /\ KeepsReports /\ writer' = writer
  BY <1>1, DoneKeeps DEF KeepsReports, output
<1>3. CASE UNCHANGED <<q, loaded, channel>>
  BY <1>1, <1>2, <1>3, NextHushed DEF listener
<1>4. CASE Send(Stopping) /\ loaded' = NoLoad
  BY <1>1, <1>2, <1>4, StopHushes
<1> QED
  BY <1>3, <1>4, RadioFailsTyped

\* A report.
LEMMA ReportHushed ==
  ASSUME Typed, Hushed, HandleReport
  PROVE  Hushed'
<1> DEFINE event == Head(events)
<1>1. /\ Typed' /\ UNCHANGED <<issued, worker, writer>>
      /\ event \in Reports /\ events # <<>> /\ events' = Tail(events)
      /\ events \in Seq(Reports)
  BY ReportTyped DEF Typed, WriterTyped
<1>2. /\ event.gen \in Generations
      /\ event.is \in {"Advanced", "Drained", "Started", "Failed"}
  BY <1>1 DEF Reports
<1>3. KeepsConnect /\ KeepsReports
  BY <1>1 DEF KeepsConnect, KeepsReports
<1>4. CASE event.is = "Advanced"
  <2>1. OnAdvanced(event.gen)
    BY <1>4 DEF HandleReport
  <2>2. channel' = channel /\ loaded'.gen = loaded.gen /\ q'.status = q.status
        /\ (q' = q \/ q.status = "Playing") /\ (requested => requested')
    BY <1>2, <2>1, OnAdvancedTyped DEF OnAdvanced
  <2> QED
    BY <1>1, <1>3, <2>2, NextHushed
<1>5. CASE event.is = "Drained"
  <2>1. OnDrained(event.gen)
    BY <1>5 DEF HandleReport
  <2>2. channel' = channel /\ (requested => requested')
    BY <2>1 DEF OnDrained
  <2>3. CASE q' = q /\ loaded' = loaded
    BY <1>1, <1>3, <2>2, <2>3, NextHushed
  <2>4. CASE loaded' = NoLoad /\ OfThisLoad(event.gen) /\ q.status = "Playing"
    <3>1. event = events[1] /\ 1 \in 1..Len(events)
      BY <1>1
    <3>2. Unmarked(channel) /\ writer.current = Silence
      BY <1>5, <2>4, <3>1 DEF Hushed, Orderly, InOrder, OfThisLoad
    <3>3. ~Sounds(channel, writer)
      BY <3>2 DEF Sounds, Holds, LastIn, Among, Unmarked
    <3>4. Orderly'
      BY <1>1, <1>3, <2>2, <2>4, NothingTyped, OrderKept DEF Hushed
    <3>5. SilentUnlessLoaded' /\ SilentUnlessHushing'
      BY <1>1, <2>2, <3>3 DEF SilentUnlessLoaded, SilentUnlessHushing
    <3> QED
      BY <3>4, <3>5 DEF Hushed
  <2> QED
    BY <1>2, <2>1, <2>3, <2>4, OnDrainedTyped
<1>6. CASE event.is = "Started"
  <2>1. OnStreamStarted(event.gen)
    BY <1>6 DEF HandleReport
  <2>2. /\ UNCHANGED <<channel, loaded, requested>> /\ q'.status = q.status
        /\ q'.position = q.position
    BY <1>2, <2>1, OnStartedTyped DEF OnStreamStarted
  <2> QED
    BY <1>1, <1>3, <2>2, NextHushed
<1>7. CASE event.is = "Failed"
  <2>1. OnStreamFailed(event.gen)
    BY <1>7 DEF HandleReport
  <2>2. requested' = requested
    BY <2>1 DEF OnStreamFailed
  <2>3. CASE UNCHANGED <<q, loaded, channel>>
    BY <1>1, <1>3, <2>2, <2>3, NextHushed
  <2>4. CASE Send(Stopping) /\ loaded' = NoLoad
    BY <1>1, <1>3, <2>4, StopHushes
  <2> QED
    BY <1>2, <2>1, <2>3, <2>4, OnFailedTyped
<1> QED
  BY <1>2, <1>4, <1>5, <1>6, <1>7

\* The writer.
LEMMA TakeHushed ==
  ASSUME Typed, Hushed, TakeMessage
  PROVE  Hushed'
<1> DEFINE c == channel
           w == writer
           e == events
           g == loaded.gen
           h == worker.gen
<1>1. /\ UNCHANGED <<q, listener, loaded, requested, worker, events>> /\ Typed'
      /\ c # <<>> /\ channel' = Tail(c) /\ writer' = After(w, Head(c))
  BY TakeTyped DEF TakeMessage
<1>2. /\ c \in Seq(Messages) /\ w \in Writers
      /\ w.current.item = Nothing => w.current = Silence
      /\ w.current.item # Nothing => w.current.gen \in Generations
      /\ worker.at = "connect" => h # Nothing
      /\ InOrder(g, c, w.current, e)
      /\ worker.at = "connect" => Unloaded(h, c, w.current, e)
      /\ c = channel /\ w = writer /\ e = events /\ g = loaded.gen /\ h = worker.gen
  BY SnapcastAssumption DEF Typed, WriterTyped, WorkerTyped, WorkTyped, Hushed, Orderly
<1> HIDE DEF c, w, e, g, h
<1>3. /\ InOrder(g, channel', writer'.current, e)
      /\ worker.at = "connect" => Unloaded(h, channel', writer'.current, e)
  BY <1>1, <1>2, TakenInOrder
<1>4. Orderly'
  BY <1>1, <1>2, <1>3 DEF Orderly
<1>5. Sounds(channel', writer') => Sounds(c, w)
  BY <1>1, <1>2, TakenSounds
<1>6. SilentUnlessLoaded' /\ SilentUnlessHushing'
  BY <1>1, <1>2, <1>5, HushKept DEF Hushed, listener
<1> QED
  BY <1>4, <1>6 DEF Hushed

LEMMA WritingHushed ==
  ASSUME Typed, Hushed, WriteFirst \/ TrackDrains \/ StreamFails
  PROVE  Hushed'
<1> DEFINE c == channel
           current == writer.current
           later == writer'.current
           e == events
           g == loaded.gen
           h == worker.gen
<1>1. /\ Typed' /\ UNCHANGED <<q, issued, loaded, requested, worker, channel>>
      /\ current # Silence /\ writer'.playing = writer.playing
      /\ later.gen = current.gen \/ later = Silence
  BY WriterReports
<1>2. PICK report \in Reports :
        /\ events' = Append(e, report) /\ report.gen = current.gen
        /\ report.is \in {"Drained", "Failed"} => later = Silence
  BY WriterReports
<1>3. /\ e \in Seq(Reports) /\ g \in Named
      /\ worker.at = "connect" => h # Nothing
      /\ InOrder(g, c, current, e)
      /\ worker.at = "connect" => Unloaded(h, c, current, e)
  BY SnapcastAssumption
     DEF Typed, WriterTyped, WorkerTyped, WorkTyped, LoadTyped, Loads, Hushed, Orderly
<1>4. /\ c = channel /\ current = writer.current /\ later = writer'.current
      /\ e = events /\ g = loaded.gen /\ h = worker.gen
  OBVIOUS
<1> HIDE DEF c, current, later, e, g, h
<1>5. /\ InOrder(g, c, later, events')
      /\ worker.at = "connect" => Unloaded(h, c, later, events')
  BY <1>1, <1>2, <1>3, ReportedInOrder
<1>6. Orderly'
  BY <1>1, <1>4, <1>5 DEF Orderly
<1>7. Sounds(channel, writer)' => Sounds(channel, writer)
  BY <1>1, <1>4 DEF Sounds, Plays, Holds
<1>8. SilentUnlessLoaded' /\ SilentUnlessHushing'
  BY <1>1, <1>7, HushKept DEF Hushed
<1> QED
  BY <1>6, <1>8 DEF Hushed

LEMMA StepKeepsHushed ==
  ASSUME Typed, Hushed, Next
  PROVE  Hushed'
<1>1. CASE Command
  BY <1>1, ApplyHushed, FinishHushed DEF Command
<1>2. CASE Refill
  BY <1>2, RefillHushed
<1>3. CASE Worker
  <2>1. CASE Reconcile \/ ReconcileStop \/ ReconcilePause
    BY <2>1, ReconcileHushed, StopOrPauseHushed
  <2>2. CASE CompareLoaded \/ ReplaceLoaded \/ AnnouncePreparation
    BY <2>2, CompareHushed, ReplaceHushed, AnnounceHushed
  <2>3. CASE PreparationFails \/ LoadCurrent(UnusedGeneration)
    BY <2>3, PreparationFailsHushed, LoadCurrentHushed
  <2>4. CASE ClearPreload \/ PreloadNext \/ PreloadFails
    BY <2>4, PreloadHushed
  <2>5. CASE ConnectRadio(UnusedGeneration) \/ StartRadio \/ RadioFails
    BY <2>5, RadioHushed, StartRadioHushed, RadioFailsHushed
  <2> QED
    BY <1>3, <2>1, <2>2, <2>3, <2>4, <2>5 DEF Worker
<1>4. CASE HandleReport
  BY <1>4, ReportHushed
<1>5. CASE WriterThread
  BY <1>5, TakeHushed, WritingHushed DEF WriterThread
<1> QED
  BY <1>1, <1>2, <1>3, <1>4, <1>5 DEF Next

LEMMA StutterKeepsHushed ==
  ASSUME Hushed, UNCHANGED vars
  PROVE  Hushed'
BY DEF vars, listener, output, Hushed, Orderly, SilentUnlessLoaded, SilentUnlessHushing,
   Hushing

\* Once Pause or Stop has returned, the writer is silent or about to be,
\* whatever the worker was in the middle of and whatever reports are late.
THEOREM SilentOnceStopped == Spec => []SilentUnlessPlaying
<1>1. Init => Typed /\ Hushed
  BY InitTyped, InitHushed
<1>2. Typed /\ Hushed /\ [Next]_vars => (Typed /\ Hushed)'
  BY StepKeepsTyped, StutterKeepsTyped, StepKeepsHushed, StutterKeepsHushed
<1> QED
  BY <1>1, <1>2, HushedMeans, PTL DEF Spec

-----------------------------------------------------------------------------
(* What is heard. *)

\* What the reports under way say is played instead, and the last of them.
News(g, e) == {k \in 1..Len(e) : e[k].gen = g /\ e[k].is # "Started"}
Tells(item, g, e, heard) ==
  /\ News(g, e) = {} => heard = item
  /\ \A k \in News(g, e) : (\A j \in News(g, e) : j <= k) => e[k].item = heard

\* The load is on its way, or was made and everything since is reported.
Becomes(item, g, c, current, e) ==
  \/ \E i \in 1..Len(c) : c[i] = [do |-> "Load", item |-> item, gen |-> g]
  \/ /\ Unmarked(c)
     /\ current.item # Nothing => current.gen = g
     /\ Tells(item, g, e, current.item)

\* Sending.
LEMMA SentBecomes ==
  ASSUME NEW c \in Seq(Messages), NEW m \in Messages, NEW e, NEW current, NEW g, NEW item
  PROVE  /\ Becomes(item, g, c, current, e) /\ m.do \notin Marks =>
              Becomes(item, g, c \o <<m>>, current, e)
         /\ m = [do |-> "Load", item |-> item, gen |-> g] =>
              Becomes(item, g, c \o <<m>>, current, e)
<1> DEFINE d == c \o <<m>>
           n == Len(c)
<1>1. /\ Len(d) = n + 1 /\ d[n + 1] = m /\ n \in Nat
      /\ \A i \in 1..n : d[i] = c[i]
  BY SentLast
<1>2. n = Len(c)
  OBVIOUS
<1> SUFFICES /\ Becomes(item, g, c, current, e) /\ m.do \notin Marks =>
                  Becomes(item, g, d, current, e)
             /\ m = [do |-> "Load", item |-> item, gen |-> g] =>
                  Becomes(item, g, d, current, e)
  OBVIOUS
<1> HIDE DEF d, n
<1>3. \A i \in 1..(n + 1) : i \in 1..n \/ i = n + 1
  BY <1>1
<1>4. (\A i \in 1..n : i \in 1..(n + 1)) /\ n + 1 \in 1..(n + 1)
  BY <1>1
<1>5. Unmarked(c) /\ m.do \notin Marks => Unmarked(d)
  BY <1>1, <1>2, <1>3 DEF Unmarked
<1>6. ASSUME NEW i \in 1..n, c[i] = [do |-> "Load", item |-> item, gen |-> g]
      PROVE  Becomes(item, g, d, current, e)
  BY <1>1, <1>4, <1>6 DEF Becomes
<1>7. ASSUME Becomes(item, g, c, current, e), m.do \notin Marks
      PROVE  Becomes(item, g, d, current, e)
  <2>1. CASE \E i \in 1..Len(c) : c[i] = [do |-> "Load", item |-> item, gen |-> g]
    BY <1>2, <1>6, <2>1
  <2>2. CASE ~\E i \in 1..Len(c) : c[i] = [do |-> "Load", item |-> item, gen |-> g]
    BY <1>5, <1>7, <2>2 DEF Becomes
  <2> QED
    BY <2>1, <2>2
<1>8. ASSUME m = [do |-> "Load", item |-> item, gen |-> g]
      PROVE  Becomes(item, g, d, current, e)
  BY <1>1, <1>4, <1>8 DEF Becomes
<1> QED
  BY <1>7, <1>8

\* Where the load is on its way, nothing is reported of it.
LEMMA LoadUnreported ==
  ASSUME NEW g, NEW c, NEW current, NEW e, InOrder(g, c, current, e),
         NEW i \in 1..Len(c), c[i].do = "Load"
  PROVE  News(g, e) = {} /\ \A k \in 1..Len(e) : e[k].gen # g
<1>1. ~Unmarked(c)
  BY DEF Unmarked, Marks
<1> QED
  BY <1>1 DEF InOrder, News

\* Taking a message.
LEMMA TakenBecomes ==
  ASSUME NEW c \in Seq(Messages), c # <<>>, NEW e, NEW g, NEW item, NEW w \in Writers,
         w.current.item = Nothing => w.current = Silence,
         w.current.item # Nothing => w.current.gen \in Generations,
         InOrder(g, c, w.current, e), Becomes(item, g, c, w.current, e)
  PROVE  Becomes(item, g, Tail(c), After(w, Head(c)).current, e)
<1> DEFINE m == Head(c)
           d == Tail(c)
           current == After(w, m).current
           n == Len(d)
           load == [do |-> "Load", item |-> item, gen |-> g]
<1>1. /\ m \in Messages /\ d \in Seq(Messages) /\ n \in Nat
      /\ Len(c) = n + 1 /\ c[1] = m /\ \A i \in 1..n : d[i] = c[i + 1]
  OBVIOUS
<1>2. /\ m.do \notin {"Load", "Stop"} => current = w.current
      /\ m.do = "Load" => current.gen = m.gen /\ current.item = m.item
  BY <1>1, AfterTyped
<1>3. n = Len(d) /\ load = [do |-> "Load", item |-> item, gen |-> g]
      /\ load.do = "Load" /\ load.item = item /\ load.gen = g
  OBVIOUS
<1> SUFFICES Becomes(item, g, d, current, e)
  OBVIOUS
<1> HIDE DEF m, d, current, n, load
<1>4. \A i \in 1..n : i + 1 \in 1..(n + 1) /\ i + 1 > 1
  BY <1>1
<1>5. 1 \in 1..(n + 1) /\ \A i \in 1..(n + 1) : i = 1 \/ (i - 1 \in 1..n /\ (i - 1) + 1 = i)
  BY <1>1
<1>6. CASE m = load
  <2>1. c[1].do = "Load" /\ c[1].gen = g
    BY <1>1, <1>3, <1>6
  <2>2. \A j \in 1..(n + 1) : j > 1 => c[j].do \notin Marks
    BY <1>1, <1>5, <2>1 DEF InOrder
  <2>3. Unmarked(d)
    BY <1>1, <1>3, <1>4, <2>2 DEF Unmarked
  <2>4. News(g, e) = {}
    BY <1>1, <1>5, <2>1, LoadUnreported
  <2>5. current.gen = g /\ current.item = item
    BY <1>2, <1>3, <1>6
  <2> QED
    BY <2>3, <2>4, <2>5 DEF Becomes, Tells
<1>7. ASSUME NEW i \in 1..(n + 1), c[i] = load, m # load
      PROVE  Becomes(item, g, d, current, e)
  <2>1. i - 1 \in 1..n /\ d[i - 1] = load
    BY <1>1, <1>5, <1>7
  <2> QED
    BY <1>3, <2>1 DEF Becomes
<1>8. CASE /\ Unmarked(c) /\ (w.current.item # Nothing => w.current.gen = g)
           /\ Tells(item, g, e, w.current.item)
  <2>1. m.do \notin Marks /\ Unmarked(d)
    BY <1>1, <1>3, <1>4, <1>5, <1>8 DEF Unmarked
  <2>2. current = w.current
    BY <1>2, <2>1 DEF Marks
  <2> QED
    BY <1>8, <2>1, <2>2 DEF Becomes
<1> QED
  BY <1>1, <1>3, <1>6, <1>7, <1>8 DEF Becomes

\* Handling a report, and following it.
LEMMA HandledBecomes ==
  ASSUME NEW e \in Seq(Reports), e # <<>>, NEW c, NEW current, NEW g, NEW item, NEW later,
         InOrder(g, c, current, e), Becomes(item, g, c, current, e),
         IF 1 \in News(g, e) THEN later = Head(e).item ELSE later = item
  PROVE  Becomes(later, g, c, current, Tail(e))
<1> DEFINE f == Tail(e)
           n == Len(f)
           heard == current.item
<1>1. n \in Nat /\ Len(e) = n + 1 /\ Head(e) = e[1] /\ \A i \in 1..n : f[i] = e[i + 1]
  OBVIOUS
<1>2. n = Len(f) /\ heard = current.item
  OBVIOUS
<1> SUFFICES Becomes(later, g, c, current, f)
  OBVIOUS
<1> HIDE DEF f, n, heard
<1>3. CASE \E i \in 1..Len(c) : c[i] = [do |-> "Load", item |-> item, gen |-> g]
  <2>1. PICK i \in 1..Len(c) : c[i] = [do |-> "Load", item |-> item, gen |-> g]
    BY <1>3
  <2>2. c[i].do = "Load"
    BY <2>1
  <2>3. News(g, e) = {}
    BY <2>2, LoadUnreported
  <2> QED
    BY <1>3, <2>3 DEF Becomes
<1>4. CASE /\ Unmarked(c) /\ (current.item # Nothing => current.gen = g)
           /\ Tells(item, g, e, heard)
  <2>1. \A k \in 1..n : k \in News(g, f) <=> k + 1 \in News(g, e)
    BY <1>1, <1>2 DEF News
  <2>2. News(g, f) \subseteq 1..n /\ News(g, e) \subseteq 1..(n + 1)
    BY <1>1, <1>2 DEF News
  <2>3. \A j \in News(g, e) : j = 1 \/ (j - 1 \in News(g, f) /\ j - 1 \in Int)
    BY <1>1, <2>1, <2>2
  <2>4. ASSUME NEW k \in News(g, f), \A j \in News(g, f) : j <= k
        PROVE  f[k].item = heard
    <3>1. k \in 1..n /\ k + 1 \in News(g, e) /\ f[k] = e[k + 1]
      BY <1>1, <2>1, <2>2
    <3>2. \A j \in News(g, e) : j <= k + 1
      BY <1>1, <2>2, <2>3, <2>4, <3>1
    <3> QED
      BY <1>4, <3>1, <3>2 DEF Tells
  <2>5. ASSUME News(g, f) = {} PROVE heard = later
    <3>1. \A j \in News(g, e) : j = 1
      BY <2>3, <2>5
    <3>2. CASE 1 \in News(g, e)
      <4>1. e[1].item = heard
        BY <1>4, <3>1, <3>2 DEF Tells
      <4> QED
        BY <1>1, <3>2, <4>1
    <3>3. CASE 1 \notin News(g, e)
      <4>1. News(g, e) = {}
        BY <3>1, <3>3
      <4> QED
        BY <1>4, <3>3, <4>1 DEF Tells
    <3> QED
      BY <3>2, <3>3
  <2> QED
    BY <1>2, <1>4, <2>4, <2>5 DEF Becomes, Tells
<1> QED
  BY <1>2, <1>3, <1>4 DEF Becomes

\* Making one.
LEMMA ReportedBecomes ==
  ASSUME NEW e \in Seq(Reports), NEW report \in Reports, NEW c, NEW g, NEW item,
         NEW current, NEW later, InOrder(g, c, current, e), g # Nothing,
         Becomes(item, g, c, current, e),
         current.item # Nothing, report.gen = current.gen, report.item = later.item,
         later.item # Nothing => later.gen = current.gen,
         report.is = "Started" => later.item = current.item
  PROVE  Becomes(item, g, c, later, Append(e, report))
<1> DEFINE f == Append(e, report)
           n == Len(e)
<1>1. n \in Nat /\ Len(f) = n + 1 /\ f[n + 1] = report /\ \A i \in 1..n : f[i] = e[i]
  OBVIOUS
<1>2. n = Len(e)
  OBVIOUS
<1> SUFFICES Becomes(item, g, c, later, f)
  OBVIOUS
<1> HIDE DEF f, n
<1>3. CASE \E i \in 1..Len(c) : c[i] = [do |-> "Load", item |-> item, gen |-> g]
  BY <1>3 DEF Becomes
<1>4. CASE /\ Unmarked(c) /\ (current.item # Nothing => current.gen = g)
           /\ Tells(item, g, e, current.item)
  <2>1. /\ News(g, e) \subseteq 1..n /\ News(g, f) \subseteq 1..(n + 1)
        /\ \A k \in 1..n : k \in News(g, f) <=> k \in News(g, e)
    BY <1>1, <1>2 DEF News
  <2>2. CASE report.is = "Started"
    <3>1. n + 1 \notin News(g, f)
      BY <1>1, <2>2 DEF News
    <3>2. News(g, f) = News(g, e)
      <4>1. \A k \in 1..(n + 1) : k \in 1..n \/ k = n + 1
        BY <1>1
      <4>2. n + 1 \notin News(g, e) /\ \A k \in 1..n : k \in 1..(n + 1)
        BY <1>1, <2>1
      <4>3. \A k \in 1..(n + 1) : k \in News(g, f) <=> k \in News(g, e)
        BY <2>1, <3>1, <4>1, <4>2
      <4> QED
        BY <2>1, <4>2, <4>3
    <3>3. Tells(item, g, f, later.item)
      BY <1>1, <1>4, <2>1, <2>2, <3>2 DEF Tells
    <3> QED
      BY <1>4, <3>3 DEF Becomes
  <2>3. CASE report.is # "Started"
    <3>1. n + 1 \in News(g, f)
      BY <1>1, <1>4, <2>3 DEF News
    <3>2. ASSUME NEW k \in News(g, f), \A j \in News(g, f) : j <= k
          PROVE  f[k].item = later.item
      <4>1. k = n + 1
        BY <1>1, <2>1, <3>1, <3>2
      <4> QED
        BY <1>1, <4>1
    <3> QED
      BY <1>4, <3>1, <3>2 DEF Becomes, Tells
  <2> QED
    BY <2>2, <2>3
<1> QED
  BY <1>3, <1>4 DEF Becomes

-----------------------------------------------------------------------------
(* The player follows: what is loaded is what the writer is about to play. *)

\* A station that is announced to the player and not yet to the writer.
Unqueued == loaded.item = Radio /\ ~loaded.ready

Followed ==
  ~astray /\ loaded.gen # Nothing =>
    IF Unqueued THEN Unloaded(loaded.gen, channel, writer.current, events)
    ELSE Becomes(loaded.item, loaded.gen, channel, writer.current, events)

AdvancesToTracks ==
  \A k \in 1..Len(events) : events[k].is = "Advanced" => events[k].item \in Track

Preloading(w) == w.at \in {"preload", "preloading"}
WorksOnItsLoad ==
  /\ Preloading(worker) /\ ~astray /\ loaded.gen # Nothing => loaded.item \in Track
  /\ worker.at = "connect" /\ loaded.gen = worker.gen => loaded.item = Radio

Tuned == Followed /\ AdvancesToTracks /\ WorksOnItsLoad

LEMMA InitTuned == Init => Tuned
<1> SUFFICES ASSUME Init PROVE Tuned
  OBVIOUS
<1>1. loaded.gen = Nothing /\ worker.at = "idle" /\ events = <<>>
  BY NothingTyped DEF Init
<1> QED
  BY <1>1 DEF Tuned, Followed, AdvancesToTracks, WorksOnItsLoad, Preloading

LEMMA TrackedKeeps ==
  ASSUME Tracked, ~astray', loaded'.gen = loaded.gen
  PROVE  ~astray /\ ~LosesTrack
BY DEF Tracked

\* A step that loads nothing, and says nothing of what is to be played.
LEMMA TuneKept ==
  ASSUME Typed, Typed', Tuned, Tracked, writer' = writer, events' = events,
         KeepsConnect,
         Preloading(worker') => Preloading(worker) \/ loaded'.item \in Track,
         \/ loaded'.gen = Nothing
         \/ /\ loaded'.gen = loaded.gen /\ loaded'.item = loaded.item
            /\ loaded'.ready = loaded.ready \/ Preloading(worker)
            /\ \/ channel' = channel
               \/ \E m \in Messages : m.do \notin Marks /\ channel' = channel \o <<m>>
  PROVE  Tuned'
<1>1. AdvancesToTracks'
  BY DEF Tuned, AdvancesToTracks
<1>2. worker'.at = "connect" => worker'.gen # Nothing
  BY SnapcastAssumption DEF Typed, WorkerTyped, WorkTyped
<1>3. CASE loaded'.gen = Nothing
  BY <1>1, <1>2, <1>3 DEF Tuned, Followed, WorksOnItsLoad
<1>4. CASE /\ loaded'.gen = loaded.gen /\ loaded'.item = loaded.item
           /\ loaded'.ready = loaded.ready \/ Preloading(worker)
           /\ \/ channel' = channel
              \/ \E m \in Messages : m.do \notin Marks /\ channel' = channel \o <<m>>
  <2>1. WorksOnItsLoad'
    <3>1. ASSUME Preloading(worker'), ~astray', loaded'.gen # Nothing
          PROVE  loaded'.item \in Track
      <4>1. ~astray
        BY <1>4, <3>1, TrackedKeeps
      <4> QED
        BY <1>4, <3>1, <4>1 DEF Tuned, WorksOnItsLoad
    <3>2. ASSUME worker'.at = "connect", loaded'.gen = worker'.gen
          PROVE  loaded'.item = Radio
      BY <1>4, <3>2 DEF Tuned, WorksOnItsLoad, KeepsConnect
    <3> QED
      BY <3>1, <3>2 DEF WorksOnItsLoad
  <2>2. ASSUME ~astray', loaded'.gen # Nothing
        PROVE  IF Unqueued'
               THEN Unloaded(loaded.gen, channel', writer.current, events)
               ELSE Becomes(loaded.item, loaded.gen, channel', writer.current, events)
    <3> DEFINE c == channel
               e == events
               current == writer.current
               g == loaded.gen
               item == loaded.item
    <3>1. ~astray /\ loaded.gen # Nothing
      BY <1>4, <2>2, TrackedKeeps
    <3>2. Unqueued' <=> Unqueued
      <4>1. CASE loaded'.ready = loaded.ready
        BY <1>4, <4>1 DEF Unqueued
      <4>2. CASE Preloading(worker)
        <5>1. loaded.item \in Track
          BY <3>1, <4>2 DEF Tuned, WorksOnItsLoad
        <5> QED
          BY <1>4, <5>1, QueueAssumption DEF Unqueued
      <4> QED
        BY <1>4, <4>1, <4>2
    <3>3. /\ Unqueued => Unloaded(g, c, current, e)
          /\ ~Unqueued => Becomes(item, g, c, current, e)
          /\ c = channel /\ c \in Seq(Messages)
      BY <3>1 DEF Tuned, Followed, Typed, WriterTyped
    <3> SUFFICES /\ Unqueued => Unloaded(g, channel', current, e)
                 /\ ~Unqueued => Becomes(item, g, channel', current, e)
      BY <3>2
    <3> HIDE DEF c, e, current, g, item
    <3>4. CASE channel' = c
      BY <3>3, <3>4
    <3>5. ASSUME NEW m \in Messages, m.do \notin Marks, channel' = c \o <<m>>
          PROVE  /\ Unqueued => Unloaded(g, channel', current, e)
                 /\ ~Unqueued => Becomes(item, g, channel', current, e)
      <4>1. m.do # "Load"
        BY <3>5 DEF Marks
      <4> QED
        BY <3>3, <3>5, <4>1, SentInOrder, SentBecomes
    <3> QED
      BY <1>4, <3>3, <3>4, <3>5
  <2>3. Followed'
    BY <1>4, <2>2 DEF Followed
  <2> QED
    BY <1>1, <2>1, <2>3 DEF Tuned
<1> QED
  BY <1>3, <1>4

\* A load.
LEMMA LoadTuned ==
  ASSUME Typed, Tuned, NEW item \in Item, NEW g \in Generations,
         Send(<<[do |-> "Load", item |-> item, gen |-> g]>> \o Playing(TRUE)),
         loaded'.gen = g, loaded'.item = item, ~Unqueued',
         worker'.at # "connect", Preloading(worker') => item \in Track,
         UNCHANGED <<writer, events>>
  PROVE  Tuned'
<1> DEFINE c == channel
           e == events
           current == writer.current
           load == [do |-> "Load", item |-> item, gen |-> g]
           play == [do |-> "SetPlaying", on |-> TRUE]
           d == c \o <<load>>
<1>1. /\ c \in Seq(Messages) /\ load \in Messages /\ play \in Messages
      /\ play.do \notin Marks
  BY DEF Typed, WriterTyped, Messages, Marks
<1>2. channel' = c \o (<<load>> \o <<play>>)
  BY DEF Send, Playing
<1>3. load = [do |-> "Load", item |-> item, gen |-> g]
  OBVIOUS
<1>4. e = events /\ current = writer.current
  OBVIOUS
<1> HIDE DEF c, load, play, e, current
<1>5. d \in Seq(Messages) /\ Becomes(item, g, d, current, e)
  BY <1>1, <1>3, SentBecomes, SentLast
<1>6. channel' = d \o <<play>>
  BY <1>1, <1>2
<1> HIDE DEF d
<1>7. Becomes(item, g, channel', current, e)
  BY <1>1, <1>5, <1>6, SentBecomes
<1>8. Followed' /\ WorksOnItsLoad'
  BY <1>4, <1>7 DEF Followed, WorksOnItsLoad
<1> QED
  BY <1>8 DEF Tuned, AdvancesToTracks

LEMMA TakeTuned ==
  ASSUME Typed, Orderly, Tuned, TakeMessage, Tracked
  PROVE  Tuned'
<1> DEFINE c == channel
           w == writer
           e == events
           g == loaded.gen
           item == loaded.item
<1>1. /\ UNCHANGED <<q, listener, loaded, requested, worker, events>> /\ Typed'
      /\ c # <<>> /\ channel' = Tail(c) /\ writer' = After(w, Head(c))
  BY TakeTyped DEF TakeMessage
<1>2. /\ c \in Seq(Messages) /\ w \in Writers
      /\ w.current.item = Nothing => w.current = Silence
      /\ w.current.item # Nothing => w.current.gen \in Generations
      /\ InOrder(g, c, w.current, e)
      /\ c = channel /\ w = writer /\ e = events /\ g = loaded.gen /\ item = loaded.item
  BY DEF Typed, WriterTyped, Orderly
<1>3. AdvancesToTracks' /\ WorksOnItsLoad'
  BY <1>1, TrackedKeeps DEF Tuned, AdvancesToTracks, WorksOnItsLoad
<1>4. ASSUME ~astray', g # Nothing
      PROVE  IF Unqueued THEN Unloaded(g, channel', writer'.current, e)
             ELSE Becomes(item, g, channel', writer'.current, e)
  <2>1. /\ Unqueued => Unloaded(g, c, w.current, e)
        /\ ~Unqueued => Becomes(item, g, c, w.current, e)
    BY <1>1, <1>4, TrackedKeeps DEF Tuned, Followed
  <2> HIDE DEF c, w, e, g, item
  <2> QED
    BY <1>1, <1>2, <1>4, <2>1, TakenInOrder, TakenBecomes
<1>5. Followed'
  BY <1>1, <1>4 DEF Followed, Unqueued
<1> QED
  BY <1>3, <1>5 DEF Tuned

LEMMA WritingTuned ==
  ASSUME Typed, Orderly, Tuned, WriteFirst \/ TrackDrains \/ StreamFails, Tracked
  PROVE  Tuned'
<1> DEFINE c == channel
           current == writer.current
           later == writer'.current
           e == events
           g == loaded.gen
           item == loaded.item
<1>1. /\ Typed' /\ UNCHANGED <<loaded, worker, channel>>
      /\ current # Silence
      /\ later.gen = current.gen \/ later = Silence
  BY WriterReports
<1>2. PICK report \in Reports :
        /\ events' = Append(e, report) /\ report.gen = current.gen
        /\ report.is \in {"Drained", "Failed"} => later = Silence
        /\ report.item = later.item
        /\ report.is = "Started" => report.item = current.item
        /\ report.is = "Advanced" => report.item \in Track
  BY WriterReports
<1>3. /\ e \in Seq(Reports) /\ g \in Named
      /\ current.item = Nothing => current = Silence
      /\ InOrder(g, c, current, e)
  BY DEF Typed, WriterTyped, LoadTyped, Loads, Orderly
<1>4. /\ c = channel /\ current = writer.current /\ later = writer'.current
      /\ e = events /\ g = loaded.gen /\ item = loaded.item
  OBVIOUS
<1>5. WorksOnItsLoad'
  BY <1>1, TrackedKeeps DEF Tuned, WorksOnItsLoad
<1>6. AdvancesToTracks'
  <2>1. \A k \in 1..Len(e) : e[k].is = "Advanced" => e[k].item \in Track
    BY DEF Tuned, AdvancesToTracks
  <2> HIDE DEF e, later, current
  <2>2. /\ Len(events') = Len(e) + 1 /\ events'[Len(e) + 1] = report /\ Len(e) \in Nat
        /\ \A k \in 1..Len(e) : events'[k] = e[k]
    BY <1>2, <1>3
  <2>3. \A k \in 1..(Len(e) + 1) : k \in 1..Len(e) \/ k = Len(e) + 1
    BY <2>2
  <2> QED
    BY <1>2, <2>1, <2>2, <2>3 DEF AdvancesToTracks
<1>7. ASSUME ~astray', g # Nothing
      PROVE  IF Unqueued THEN Unloaded(g, c, later, events')
             ELSE Becomes(item, g, c, later, events')
  <2>1. /\ Unqueued => Unloaded(g, c, current, e)
        /\ ~Unqueued => Becomes(item, g, c, current, e)
    BY <1>1, <1>7, TrackedKeeps DEF Tuned, Followed
  <2> HIDE DEF c, current, later, e, g, item
  <2>2. later.item # Nothing => later.gen = current.gen
    BY <1>1, NothingTyped
  <2>3. Unqueued => Unloaded(g, c, later, events')
    BY <1>1, <1>2, <1>3, <1>7, <2>1, ReportedInOrder
  <2>4. ~Unqueued => Becomes(item, g, c, later, events')
    BY <1>1, <1>2, <1>3, <1>7, <2>1, <2>2, ReportedBecomes
  <2> QED
    BY <2>3, <2>4
<1>8. Followed'
  BY <1>1, <1>7 DEF Followed, Unqueued
<1> QED
  BY <1>5, <1>6, <1>8 DEF Tuned

\* A report: it is of another load, or it is followed.
LEMMA ReportTuned ==
  ASSUME Typed, Orderly, Tuned, HandleReport, Tracked
  PROVE  Tuned'
<1> DEFINE c == channel
           current == writer.current
           e == events
           event == Head(e)
           g == loaded.gen
           item == loaded.item
<1>1. /\ Typed' /\ UNCHANGED <<worker, writer>>
      /\ event \in Reports /\ e # <<>> /\ events' = Tail(e) /\ e \in Seq(Reports)
  BY ReportTyped DEF Typed, WriterTyped
<1>2. event.gen \in Generations /\ event.is \in {"Advanced", "Drained", "Started", "Failed"}
  BY <1>1 DEF Reports
<1>3. /\ channel' = c \/ loaded'.gen = Nothing
      /\ \/ loaded'.gen = Nothing
         \/ loaded' = loaded
         \/ event.is = "Advanced" /\ event.gen = g /\ loaded'.gen = g
  <2>1. CASE event.is = "Advanced"
    <3>1. OnAdvanced(event.gen)
      BY <2>1 DEF HandleReport
    <3>2. loaded'.gen = g
      BY <1>2, <3>1, OnAdvancedTyped
    <3> QED
      BY <2>1, <3>1, <3>2 DEF OnAdvanced, OfThisLoad
  <2>2. CASE event.is = "Drained"
    <3>1. OnDrained(event.gen)
      BY <2>2 DEF HandleReport
    <3> QED
      BY <1>2, <3>1, OnDrainedTyped, NothingTyped DEF OnDrained
  <2>3. CASE event.is = "Started"
    BY <2>3 DEF HandleReport, OnStreamStarted
  <2>4. CASE event.is = "Failed"
    <3>1. OnStreamFailed(event.gen)
      BY <2>4 DEF HandleReport
    <3> QED
      BY <1>2, <3>1, OnFailedTyped, NothingTyped
  <2> QED
    BY <1>2, <2>1, <2>2, <2>3, <2>4
<1>4. /\ event = e[1] /\ 1 \in 1..Len(e) /\ Len(e) = Len(Tail(e)) + 1
      /\ Len(Tail(e)) \in Nat /\ \A k \in 1..Len(Tail(e)) : Tail(e)[k] = e[k + 1]
  BY <1>1
<1>5. event.is = "Advanced" => event.item \in Track
  BY <1>4 DEF Tuned, AdvancesToTracks
<1>6. AdvancesToTracks'
  <2>1. \A k \in 1..Len(Tail(e)) : k + 1 \in 1..Len(e)
    BY <1>4
  <2> QED
    BY <1>1, <1>4, <2>1 DEF Tuned, AdvancesToTracks
<1>7. /\ InOrder(g, c, current, e)
      /\ worker.at = "connect" => worker.gen # event.gen
  BY <1>4 DEF Orderly, Unloaded
<1>8. worker.at = "connect" => worker.gen # Nothing
  BY SnapcastAssumption DEF Typed, WorkerTyped, WorkTyped
<1>9. CASE loaded'.gen = Nothing
  BY <1>1, <1>6, <1>8, <1>9 DEF Tuned, Followed, WorksOnItsLoad
<1>10. CASE loaded'.gen # Nothing
  <2>1. channel' = c /\ loaded'.gen = g /\ g # Nothing
    BY <1>3, <1>10
  <2>2. ASSUME ~astray'
        PROVE  /\ ~astray
               /\ event.gen = g /\ event.is # "Started" => loaded'.item = event.item
               /\ loaded' = loaded \/ loaded'.item \in Track
    <3>1. ~astray /\ ~LosesTrack
      BY <2>1, <2>2, TrackedKeeps
    <3>2. event.gen = g /\ event.is # "Started" => loaded'.item = event.item
      BY <1>1, <3>1 DEF LosesTrack
    <3> QED
      BY <1>3, <1>5, <1>10, <3>1, <3>2
  <2>3. WorksOnItsLoad'
    <3>1. ASSUME Preloading(worker), ~astray' PROVE loaded'.item \in Track
      BY <2>1, <2>2, <3>1 DEF Tuned, WorksOnItsLoad
    <3>2. ASSUME worker.at = "connect", loaded'.gen = worker.gen
          PROVE  loaded'.item = Radio
      <4>1. loaded' = loaded
        BY <1>3, <1>7, <1>10, <2>1, <3>2
      <4> QED
        BY <3>2, <4>1 DEF Tuned, WorksOnItsLoad
    <3> QED
      BY <1>1, <3>1, <3>2 DEF WorksOnItsLoad
  <2>4. ASSUME ~astray'
        PROVE  IF Unqueued' THEN Unloaded(g, c, current, Tail(e))
               ELSE Becomes(loaded'.item, g, c, current, Tail(e))
    <3>1. /\ Unqueued => Unloaded(g, c, current, e)
          /\ ~Unqueued => Becomes(item, g, c, current, e)
      BY <2>1, <2>2, <2>4 DEF Tuned, Followed
    <3>2. Unqueued => event.gen # g
      BY <1>4, <3>1 DEF Unloaded
    <3>3. 1 \in News(g, e) <=> event.gen = g /\ event.is # "Started"
      BY <1>4 DEF News
    <3>4. /\ Unqueued => Unqueued'
          /\ Unqueued' => Unqueued
          /\ IF 1 \in News(g, e) THEN loaded'.item = event.item ELSE loaded'.item = item
      <4>1. CASE loaded' = loaded
        BY <2>2, <2>4, <3>3, <4>1 DEF Unqueued
      <4>2. CASE loaded' # loaded
        <5>1. event.is = "Advanced" /\ event.gen = g /\ loaded'.item \in Track
          BY <1>3, <1>10, <2>2, <2>4, <4>2
        <5> QED
          BY <2>2, <2>4, <3>2, <3>3, <5>1, QueueAssumption DEF Unqueued
      <4> QED
        BY <4>1, <4>2
    <3>5. event = Head(e)
      OBVIOUS
    <3> DEFINE later == loaded'.item
    <3>6. IF 1 \in News(g, e) THEN later = event.item ELSE later = item
      BY <3>4
    <3> HIDE DEF c, current, e, event, g, item, later
    <3>7. CASE Unqueued
      BY <1>1, <3>1, <3>4, <3>7, HandledInOrder
    <3>8. CASE ~Unqueued
      <4>1. Becomes(later, g, c, current, Tail(e))
        BY <1>1, <1>7, <3>1, <3>5, <3>6, <3>8, HandledBecomes
      <4> QED
        BY <3>4, <3>8, <4>1 DEF later
    <3> QED
      BY <3>7, <3>8
  <2>5. Followed'
    BY <1>1, <2>1, <2>4 DEF Followed
  <2> QED
    BY <1>6, <2>3, <2>5 DEF Tuned
<1> QED
  BY <1>9, <1>10

LEMMA ListenerTuned ==
  ASSUME Typed, Typed', Tuned, Tracked, Command \/ Refill
  PROVE  Tuned'
<1>1. CASE UNCHANGED <<loaded, worker, channel, writer, events>>
  BY <1>1, TuneKept DEF KeepsConnect
<1>2. ASSUME NEW command \in Commands, FinishCommand(command)
      PROVE  Tuned'
  <2>1. UNCHANGED <<writer, events>>
    BY <1>2 DEF FinishCommand, output
  <2>2. worker'.at = worker.at /\ worker'.gen = worker.gen
    <3>1. /\ worker' = [worker EXCEPT !.fresh = worker.fresh /\ command \notin Reloads]
          /\ worker \in Works
      BY <1>2 DEF FinishCommand, Typed, WorkerTyped, WorkTyped
    <3> QED
      BY <3>1 DEF Works
  <2>3. CASE loaded' = NoLoad
    BY <2>1, <2>2, <2>3, NothingTyped, TuneKept DEF KeepsConnect, Preloading
  <2>4. CASE /\ loaded' = [loaded EXCEPT !.fresh = loaded.fresh /\ command \notin Reloads]
             /\ channel' = channel \/ channel' = channel \o Playing(FALSE)
    <3>1. /\ loaded'.gen = loaded.gen /\ loaded'.item = loaded.item
          /\ loaded'.ready = loaded.ready
      BY <2>4 DEF Typed, LoadTyped, Loads
    <3>2. \/ channel' = channel
          \/ \E m \in Messages : m.do \notin Marks /\ channel' = channel \o <<m>>
      BY <2>4 DEF Playing, Messages, Marks
    <3> QED
      BY <2>1, <2>2, <3>1, <3>2, TuneKept DEF KeepsConnect, Preloading
  <2> QED
    BY <1>2, <2>3, <2>4, FinishSends
<1> QED
  BY <1>1, <1>2
     DEF Command, ApplyCommand, Refill, BeginAutoplayRefill, FinishAutoplayRefill, output

\* The worker.
LEMMA ReconcileTuned ==
  ASSUME Typed, Typed', Tuned, Tracked, Reconcile \/ ReconcileStop \/ ReconcilePause
  PROVE  Tuned'
<1>1. CASE Reconcile
  <2>1. /\ UNCHANGED <<loaded, channel, writer, events>>
        /\ worker'.at \in {"compare", "radio", "pause", "stop"}
    BY <1>1, ReconcileTyped DEF Reconcile, output
  <2> QED
    BY <2>1, TuneKept DEF KeepsConnect, Preloading
<1>2. CASE ReconcileStop \/ ReconcilePause
  <2>1. /\ UNCHANGED <<writer, events>> /\ Done
        /\ \/ loaded' = NoLoad
           \/ Send(Playing(FALSE)) /\ UNCHANGED loaded
    BY <1>2 DEF ReconcileStop, ReconcilePause, At, output
  <2>2. KeepsConnect /\ ~Preloading(worker')
    BY <2>1, DoneKeeps, NothingTyped DEF Done, Preloading
  <2>3. Send(Playing(FALSE)) =>
          \E m \in Messages : m.do \notin Marks /\ channel' = channel \o <<m>>
    BY DEF Send, Playing, Messages, Marks
  <2> QED
    BY <2>1, <2>2, <2>3, NothingTyped, TuneKept
<1> QED
  BY <1>1, <1>2

LEMMA CompareTuned ==
  ASSUME Typed, Typed', Tuned, Tracked,
         CompareLoaded \/ ReplaceLoaded \/ AnnouncePreparation \/ PreparationFails
  PROVE  Tuned'
<1>0. worker \in Works /\ (worker.at = "compare" => worker.item \in Track)
  BY DEF Typed, WorkerTyped, WorkTyped
<1>1. CASE CompareLoaded
  <2>1. /\ UNCHANGED <<writer, events, loaded>> /\ worker.at = "compare"
        /\ \/ AlreadyLoaded /\ Send(Playing(TRUE)) /\ Then("preload")
           \/ UNCHANGED channel /\ Then("replace")
    BY <1>1 DEF CompareLoaded, At, output
  <2>2. \/ AlreadyLoaded /\ Send(Playing(TRUE)) /\ worker'.at = "preload"
        \/ UNCHANGED channel /\ worker'.at = "replace"
    BY <1>0, <2>1, ThenTyped DEF Steps
  <2>3. KeepsConnect /\ (Preloading(worker') => loaded'.item \in Track)
    BY <1>0, <2>1, <2>2 DEF KeepsConnect, Preloading, AlreadyLoaded
  <2>4. Send(Playing(TRUE)) =>
          \E m \in Messages : m.do \notin Marks /\ channel' = channel \o <<m>>
    BY DEF Send, Playing, Messages, Marks
  <2> QED
    BY <2>1, <2>2, <2>3, <2>4, TuneKept
<1>2. CASE ReplaceLoaded
  <2>1. UNCHANGED <<writer, events>> /\ loaded' = NoLoad /\ worker'.at = "announce"
    BY <1>2, ReplaceTyped DEF ReplaceLoaded, At, output
  <2> QED
    BY <2>1, NothingTyped, TuneKept DEF KeepsConnect, Preloading
<1>3. CASE AnnouncePreparation
  <2>1. UNCHANGED <<writer, events, loaded, channel>> /\ Then("load")
    BY <1>3 DEF AnnouncePreparation, At, output
  <2>2. worker'.at = "load"
    BY <1>0, <2>1, ThenTyped DEF Steps
  <2> QED
    BY <2>1, <2>2, TuneKept DEF KeepsConnect, Preloading
<1>4. CASE PreparationFails
  <2>1. UNCHANGED <<writer, events, loaded, channel>> /\ Done
    BY <1>4 DEF PreparationFails, At, output
  <2>2. KeepsConnect /\ ~Preloading(worker')
    BY <2>1, DoneKeeps, NothingTyped DEF Done, Preloading
  <2> QED
    BY <2>1, <2>2, TuneKept
<1> QED
  BY <1>1, <1>2, <1>3, <1>4

LEMMA LoadCurrentTuned ==
  ASSUME Typed, Typed', Tuned, Tracked, NEW g, LoadCurrent(g)
  PROVE  Tuned'
<1>1. /\ UNCHANGED <<writer, events>> /\ worker.at = "load" /\ g \in Generations
      /\ worker \in Works /\ worker.item \in Track /\ worker.item \in Item
  BY DEF LoadCurrent, At, Unused, Typed, WorkerTyped, WorkTyped, Item, output
<1>2. CASE StillWanted /\ worker.fresh
  <2> DEFINE load == NoLoad
             item == worker.item
             position == worker.position
  <2>1. /\ Send(<<[do |-> "Load", item |-> item, gen |-> g]>> \o Playing(TRUE))
        /\ loaded' = [load EXCEPT !.item = item, !.gen = g, !.position = position,
                                  !.fresh = TRUE]
        /\ Then("preload")
    BY <1>2 DEF LoadCurrent
  <2>2. load \in Loads /\ item \in Item /\ item \in Track
    BY <1>1, NothingTyped
  <2>3. worker'.at = "preload"
    BY <1>1, <2>1, ThenTyped DEF Steps
  <2> HIDE DEF load, item, position
  <2>4. loaded'.gen = g /\ loaded'.item = item
    BY <2>1, <2>2 DEF Loads
  <2>5. ~Unqueued'
    BY <2>2, <2>4, QueueAssumption DEF Unqueued
  <2> QED
    BY <1>1, <2>1, <2>2, <2>3, <2>4, <2>5, LoadTuned
<1>3. CASE ~(StillWanted /\ worker.fresh)
  <2>1. Done /\ UNCHANGED <<loaded, channel>>
    BY <1>3 DEF LoadCurrent
  <2>2. KeepsConnect /\ ~Preloading(worker')
    BY <2>1, DoneKeeps, NothingTyped DEF Done, Preloading
  <2> QED
    BY <1>1, <2>1, <2>2, TuneKept
<1> QED
  BY <1>2, <1>3

LEMMA PreloadTuned ==
  ASSUME Typed, Typed', Tuned, Tracked, ClearPreload \/ PreloadNext \/ PreloadFails
  PROVE  Tuned'
<1>1. /\ UNCHANGED <<writer, events>> /\ Preloading(worker)
      /\ loaded'.gen = loaded.gen /\ loaded'.item = loaded.item
  BY ClearPreloadTyped, PreloadNextTyped
     DEF ClearPreload, PreloadNext, PreloadFails, At, output, Preloading
<1>2. worker'.at \in {"idle", "preloading"}
  BY ClearPreloadTyped, PreloadNextTyped, NothingTyped DEF Done
<1>3. \/ channel' = channel
      \/ \E m \in Messages : m.do \notin Marks /\ channel' = channel \o <<m>>
  <2>1. CASE ClearPreload
    <3>1. [do |-> "ClearPreload", gen |-> loaded.gen] \in Messages
      BY DEF Typed, LoadTyped, Loads, Messages
    <3> QED
      BY <2>1, <3>1, ClearPreloadTyped DEF Send, Marks
  <2>2. CASE PreloadNext \/ PreloadFails
    <3>1. [do |-> "Preload", item |-> worker.next, gen |-> worker.gen] \in Messages
      BY <2>2 DEF PreloadNext, PreloadFails, At, Typed, WorkerTyped, WorkTyped, Works,
         Messages
    <3> QED
      BY <2>2, <3>1, PreloadNextTyped DEF Send, Marks
  <2> QED
    BY <2>1, <2>2
<1> QED
  BY <1>1, <1>2, <1>3, TuneKept DEF KeepsConnect, Preloading

LEMMA RadioTuned ==
  ASSUME Typed, Typed', Tuned, Tracked, NEW g, ConnectRadio(g)
  PROVE  Tuned'
<1>1. /\ UNCHANGED <<writer, events>> /\ g \in Unused /\ g \in Generations
      /\ worker \in Works
  BY DEF ConnectRadio, At, Unused, Typed, WorkerTyped, WorkTyped, output
<1> DEFINE there == /\ StillWanted /\ loaded.item = Radio /\ loaded.ready
                    /\ loaded.position = worker.position
<1>2. CASE ~StillWanted \/ there
  <2>1. /\ Done /\ UNCHANGED loaded
        /\ Send(Playing(TRUE)) \/ UNCHANGED channel
    <3>1. CASE ~StillWanted
      BY <3>1 DEF ConnectRadio
    <3>2. CASE there
      BY <3>2 DEF ConnectRadio
    <3> QED
      BY <1>2, <3>1, <3>2
  <2>2. KeepsConnect /\ ~Preloading(worker')
    BY <2>1, DoneKeeps, NothingTyped DEF Done, Preloading
  <2>3. Send(Playing(TRUE)) =>
          \E m \in Messages : m.do \notin Marks /\ channel' = channel \o <<m>>
    BY DEF Send, Playing, Messages, Marks
  <2> QED
    BY <1>1, <2>1, <2>2, <2>3, TuneKept
<1>3. CASE StillWanted /\ ~there
  <2> DEFINE load == NoLoad
             position == worker.position
             work == worker
             m == [do |-> "Stop"]
  <2>1. /\ Send(Stopping)
        /\ loaded' = [load EXCEPT !.item = Radio, !.gen = g, !.position = position]
        /\ worker' = [work EXCEPT !.at = "connect", !.gen = g]
    BY <1>3 DEF ConnectRadio
  <2>2. load \in Loads /\ load.ready = FALSE /\ work \in Works
    BY <1>1, NothingTyped DEF NoLoad
  <2>3. /\ channel' = channel \o <<m>> /\ m \in Messages /\ m.do = "Stop"
        /\ channel \in Seq(Messages)
    BY <2>1 DEF Send, Stopping, Messages, Typed, WriterTyped
  <2> HIDE DEF load, position, work, m
  <2>4. /\ loaded'.gen = g /\ loaded'.item = Radio /\ loaded'.ready = FALSE
        /\ worker'.at = "connect"
    BY <2>1, <2>2 DEF Loads, Works
  <2>5. Unloaded(g, channel', writer.current, events)
    BY <1>1, <2>3, UnusedIsUnloaded, SentInOrder
  <2>6. Followed' /\ WorksOnItsLoad' /\ AdvancesToTracks'
    BY <1>1, <2>4, <2>5
       DEF Followed, Unqueued, WorksOnItsLoad, Preloading, Tuned, AdvancesToTracks
  <2> QED
    BY <2>6 DEF Tuned
<1> QED
  BY <1>2, <1>3

LEMMA StartRadioTuned ==
  ASSUME Typed, Typed', Tuned, Tracked, StartRadio
  PROVE  Tuned'
<1>1. /\ UNCHANGED <<writer, events>> /\ Done /\ worker.at = "connect"
      /\ worker.gen \in Generations /\ Radio \in Item
  BY DEF StartRadio, At, Typed, WorkerTyped, WorkTyped, Item, output
<1>2. KeepsConnect /\ ~Preloading(worker') /\ worker'.at # "connect"
  BY <1>1, DoneKeeps, NothingTyped DEF Done, Preloading
<1>3. CASE UNCHANGED <<loaded, channel>>
  BY <1>1, <1>2, <1>3, TuneKept
<1>4. CASE /\ loaded.gen = worker.gen
           /\ Send(<<[do |-> "Load", item |-> Radio, gen |-> worker.gen]>>
                     \o Playing(TRUE))
           /\ loaded' = [loaded EXCEPT !.ready = TRUE]
  <2>1. loaded \in Loads /\ loaded.item = Radio
    BY <1>1, <1>4 DEF Typed, LoadTyped, Tuned, WorksOnItsLoad
  <2>2. loaded'.gen = worker.gen /\ loaded'.item = Radio /\ loaded'.ready
    BY <1>4, <2>1 DEF Loads
  <2> QED
    BY <1>1, <1>2, <1>4, <2>2, LoadTuned DEF Unqueued
<1> QED
  BY <1>3, <1>4 DEF StartRadio

LEMMA RadioFailsTuned ==
  ASSUME Typed, Typed', Tuned, Tracked, RadioFails
  PROVE  Tuned'
<1>1. UNCHANGED <<writer, events>> /\ Done
  BY DEF RadioFails, output
<1>2. KeepsConnect /\ ~Preloading(worker')
  BY <1>1, DoneKeeps, NothingTyped DEF Done, Preloading
<1> QED
  BY <1>1, <1>2, RadioFailsTyped, NothingTyped, TuneKept

LEMMA StepKeepsTuned ==
  ASSUME Typed, Orderly, Tuned, Next
  PROVE  Tuned'
<1>0. Typed' /\ Tracked
  BY StepKeepsTyped DEF Next
<1>1. CASE Command \/ Refill
  BY <1>0, <1>1, ListenerTuned
<1>2. CASE Worker
  <2>1. CASE Reconcile \/ ReconcileStop \/ ReconcilePause
    BY <1>0, <2>1, ReconcileTuned
  <2>2. CASE CompareLoaded \/ ReplaceLoaded \/ AnnouncePreparation \/ PreparationFails
    BY <1>0, <2>2, CompareTuned
  <2>3. CASE LoadCurrent(UnusedGeneration)
    BY <1>0, <2>3, LoadCurrentTuned
  <2>4. CASE ClearPreload \/ PreloadNext \/ PreloadFails
    BY <1>0, <2>4, PreloadTuned
  <2>5. CASE ConnectRadio(UnusedGeneration)
    BY <1>0, <2>5, RadioTuned
  <2>6. CASE StartRadio \/ RadioFails
    BY <1>0, <2>6, StartRadioTuned, RadioFailsTuned
  <2> QED
    BY <1>2, <2>1, <2>2, <2>3, <2>4, <2>5, <2>6 DEF Worker
<1>3. CASE HandleReport
  BY <1>0, <1>3, ReportTuned
<1>4. CASE WriterThread
  BY <1>0, <1>4, TakeTuned, WritingTuned DEF WriterThread
<1> QED
  BY <1>1, <1>2, <1>3, <1>4 DEF Next

LEMMA StutterKeepsTuned ==
  ASSUME Tuned, UNCHANGED vars
  PROVE  Tuned'
BY DEF vars, output, Tuned, Followed, Unqueued, AdvancesToTracks, WorksOnItsLoad

-----------------------------------------------------------------------------
(* The player and its worker agree on what is to be played. *)

\* Nobody is about to make the worker start again, and there is what to play.
Calm == issued = {} /\ ~requested /\ q.status = "Playing" /\ Current # Nothing

HasRead == worker.item = Current /\ worker.position = q.position
HasLoaded == loaded.gen # Nothing /\ loaded.item = Current /\ loaded.position = q.position

\* How far the worker has got, and what is done by then.
Agreed ==
  Calm =>
    /\ worker.at \notin {"stop", "pause"}
    /\ worker.at \in {"compare", "replace", "announce", "load"} => HasRead /\ worker.fresh
    /\ worker.at \in {"radio", "connect"} => HasRead
    /\ worker.at = "connect" => HasLoaded /\ loaded.gen = worker.gen
    /\ worker.at \in {"preload", "preloading", "idle"} =>
         HasLoaded /\ Plays(channel, writer)
    /\ Preloading(worker) => Current \in Track
    /\ worker.at = "idle" => ~Unqueued

LEMMA SentPlays ==
  ASSUME NEW c \in Seq(Messages), NEW m \in Messages, NEW w
  PROVE  /\ m.do \notin Transport /\ Plays(c, w) => Plays(c \o <<m>>, w)
         /\ m.do = "SetPlaying" /\ m.on => Plays(c \o <<m>>, w)
<1> DEFINE d == c \o <<m>>
           n == Len(c)
<1>1. /\ Len(d) = n + 1 /\ d[n + 1] = m /\ \A i \in 1..n : d[i] = c[i]
      /\ n \in Nat
  BY SentLast
<1>2. IF m.do \in Transport
      THEN LastIn(d, Transport) = {n + 1} /\ Among(d, Transport) # {}
      ELSE /\ LastIn(d, Transport) = LastIn(c, Transport)
           /\ Among(d, Transport) = Among(c, Transport)
  BY SentLast
<1>3. n = Len(c)
  OBVIOUS
<1> SUFFICES /\ m.do \notin Transport /\ Plays(c, w) => Plays(d, w)
             /\ m.do = "SetPlaying" /\ m.on => Plays(d, w)
  OBVIOUS
<1> HIDE DEF d, n
<1>4. LastIn(c, Transport) \subseteq 1..n
  BY <1>3 DEF LastIn, Among
<1>5. m.do \notin Transport /\ Plays(c, w) => Plays(d, w)
  BY <1>1, <1>2, <1>4 DEF Plays
<1>6. m.do = "SetPlaying" /\ m.on => Plays(d, w)
  BY <1>1, <1>2 DEF Plays, Transport
<1> QED
  BY <1>5, <1>6

LEMMA TakenPlays ==
  ASSUME NEW c \in Seq(Messages), c # <<>>, NEW w \in Writers,
         w.current.item = Nothing => w.current = Silence,
         w.current.item # Nothing => w.current.gen \in Generations,
         Plays(c, w)
  PROVE  Plays(Tail(c), After(w, Head(c)))
<1> DEFINE m == Head(c)
           d == Tail(c)
           v == After(w, m)
           n == Len(d)
<1>1. /\ m \in Messages /\ n \in Nat
      /\ Len(c) = n + 1 /\ c[1] = m /\ \A i \in 1..n : d[i] = c[i + 1]
  OBVIOUS
<1>2. /\ m.do \notin Transport => v.playing = w.playing
      /\ m.do = "SetPlaying" => v.playing = m.on
  BY <1>1, AfterTyped DEF Transport
<1>3. n = Len(d)
  OBVIOUS
<1> SUFFICES Plays(d, v)
  OBVIOUS
<1> HIDE DEF m, d, v, n
<1>4. /\ Among(d, Transport) \subseteq 1..n /\ Among(c, Transport) \subseteq 1..(n + 1)
      /\ \A i \in 1..n : i \in Among(d, Transport) <=> i + 1 \in Among(c, Transport)
  BY <1>1, <1>3 DEF Among
<1>5. /\ \A i \in 1..(n + 1) : i = 1 \/ (i - 1 \in 1..n /\ (i - 1) + 1 = i)
      /\ 1 \in 1..(n + 1)
  BY <1>1
<1>6. ASSUME NEW i \in LastIn(c, Transport), c[i].do = "SetPlaying", c[i].on
      PROVE  Plays(d, v)
  <2>1. /\ i \in Among(c, Transport) /\ i \in 1..(n + 1)
        /\ \A j \in Among(c, Transport) : j <= i
    BY <1>4 DEF LastIn
  <2>2. CASE i = 1
    <3>1. Among(d, Transport) = {}
      <4>1. ASSUME NEW j \in Among(d, Transport) PROVE FALSE
        <5>1. j \in 1..n /\ j + 1 <= 1
          BY <1>4, <2>1, <2>2
        <5> QED
          BY <1>1, <5>1
      <4> QED
        BY <4>1
    <3>2. v.playing
      BY <1>1, <1>2, <1>6, <2>2
    <3> QED
      BY <3>1, <3>2 DEF Plays
  <2>3. CASE i # 1
    <3> DEFINE k == i - 1
    <3>1. k \in 1..n /\ k + 1 = i
      BY <1>5, <2>1, <2>3
    <3> HIDE DEF k
    <3>2. ASSUME NEW j \in Among(d, Transport) PROVE j <= k
      <4>1. j \in 1..n /\ j + 1 <= i
        BY <1>4, <2>1
      <4> QED
        BY <1>1, <3>1, <4>1
    <3>3. k \in LastIn(d, Transport)
      BY <1>4, <2>1, <3>1, <3>2 DEF LastIn
    <3>4. d[k] = c[i]
      BY <1>1, <3>1
    <3> QED
      BY <1>6, <3>3, <3>4 DEF Plays
  <2> QED
    BY <2>2, <2>3
<1>7. ASSUME Among(c, Transport) = {}, w.playing
      PROVE  Plays(d, v)
  <2>1. m.do \notin Transport
    BY <1>1, <1>5, <1>7 DEF Among
  <2>2. Among(d, Transport) = {}
    BY <1>4, <1>7
  <2> QED
    BY <1>2, <1>7, <2>1, <2>2 DEF Plays
<1> QED
  BY <1>6, <1>7 DEF Plays

LEMMA InitAgreed == Init => Agreed
<1> SUFFICES ASSUME Init PROVE ~Calm
  BY DEF Agreed
<1>1. PICK batch \in Batches :
        q = Restored([items |-> batch,
                      playback |-> [Playback(EmptyQueue) EXCEPT
                                      !.position = 1, !.status = "Playing"]])
  BY DEF Init
<1> DEFINE row == [Playback(EmptyQueue) EXCEPT !.position = 1, !.status = "Playing"]
           checkpoint == [items |-> batch, playback |-> row]
<1>2. checkpoint.playback.status = "Playing" /\ q = Restored(checkpoint)
  BY <1>1 DEF Playback
<1> HIDE DEF row, checkpoint
<1>3. q.status = "Paused"
  BY <1>2 DEF Restored, EmptyQueue
<1> QED
  BY <1>3 DEF Calm

\* Where only what is announced changes, the same is to be played.
LEMMA AnnouncedSame ==
  ASSUME Typed, NEW v, q' = q \/ q' = [q EXCEPT !.activity = v]
  PROVE  Current' = Current /\ q'.position = q.position /\ q'.status = q.status
<1>1. q'.queue = q.queue /\ q'.position = q.position /\ q'.status = q.status
  BY DEF Typed, QueueTyped, Sound, QueueStates
<1> QED
  BY <1>1 DEF Current, ItemAt

\* What is not calm need not agree.
LEMMA RestlessAgreed ==
  ASSUME issued' # {} \/ requested' \/ q'.status # "Playing"
  PROVE  Agreed'
BY DEF Agreed, Calm

\* The worker stays where it is.
LEMMA AgreedKept ==
  ASSUME Agreed, issued' = issued, requested' = requested, worker' = worker,
         loaded' = loaded, NEW v, Typed, q' = q \/ q' = [q EXCEPT !.activity = v],
         Plays(channel, writer) => Plays(channel, writer)'
  PROVE  Agreed'
<1>1. Current' = Current /\ q'.position = q.position /\ q'.status = q.status
  BY AnnouncedSame
<1>2. /\ Calm' <=> Calm
      /\ HasRead' <=> HasRead
      /\ HasLoaded' <=> HasLoaded
      /\ Unqueued' <=> Unqueued
      /\ Preloading(worker)' <=> Preloading(worker)
  BY <1>1 DEF Calm, HasRead, HasLoaded, Unqueued, Preloading
<1> QED
  BY <1>1, <1>2 DEF Agreed

LEMMA ListenerAgreed ==
  ASSUME Typed, Agreed, Command \/ Refill
  PROVE  Agreed'
<1>1. CASE Command
  BY <1>1, RestlessAgreed DEF Command, ApplyCommand, FinishCommand
<1>2. CASE Refill
  <2>1. UNCHANGED <<issued, loaded, worker, channel, writer>>
    BY <1>2 DEF Refill, BeginAutoplayRefill, FinishAutoplayRefill, output
  <2>2. CASE BeginAutoplayRefill
    <3>1. requested' = requested /\ q' = BeginRefill(q)
      BY <2>2 DEF BeginAutoplayRefill
    <3>2. /\ q'.queue = q.queue /\ q'.position = q.position /\ q'.status = q.status
      BY <3>1 DEF BeginRefill, Typed, QueueTyped, Sound, QueueStates
    <3>3. Current' = Current
      BY <3>2 DEF Current, ItemAt
    <3> QED
      BY <2>1, <3>1, <3>2, <3>3
         DEF Agreed, Calm, HasRead, HasLoaded, Unqueued, Preloading
  <2>3. ASSUME NEW items \in Found, FinishAutoplayRefill(items)
        PROVE  Agreed'
    <3>1. CASE UNCHANGED <<q, requested>>
      BY <2>1, <3>1, AgreedKept
    <3>2. CASE q' = FinishRefill(q, items) /\ requested' = (requested \/ items # <<>>)
      <4>1. CASE items = <<>>
        <5>1. q' = [q EXCEPT !.activity = "Exhausted"] /\ requested' = requested
          BY <3>2, <4>1 DEF FinishRefill, Typed, ListenerTyped
        <5> QED
          BY <2>1, <5>1, AgreedKept
      <4>2. CASE items # <<>>
        BY <3>2, <4>2, RestlessAgreed
      <4> QED
        BY <4>1, <4>2
    <3> QED
      BY <2>3, <3>1, <3>2 DEF FinishAutoplayRefill
  <2> QED
    BY <1>2, <2>2, <2>3 DEF Refill
<1> QED
  BY <1>1, <1>2

\* The worker begins, and stops or pauses the writer.
LEMMA ReconcileAgreed ==
  ASSUME Typed, Agreed, Reconcile
  PROVE  Agreed'
<1> DEFINE at == CASE q.status = "Playing" /\ Current \in Track -> "compare"
                   [] q.status = "Playing" /\ Current = Radio -> "radio"
                   [] q.status = "Paused" -> "pause"
                   [] OTHER -> "stop"
<1>1. /\ worker' = [Idle EXCEPT !.at = at, !.item = Current, !.position = q.position,
                                !.next = NextTrack(q), !.fresh = TRUE]
      /\ UNCHANGED <<q, loaded>>
  BY DEF Reconcile
<1>2. Current \in Optional
  BY ItemAtTyped DEF Current, Typed, QueueTyped, Sound
<1>3. ASSUME Calm' PROVE at \in {"compare", "radio"}
  <2>1. q.status = "Playing" /\ (Current \in Track \/ Current = Radio)
    BY <1>1, <1>2, <1>3 DEF Calm, Optional, Item, Current
  <2> QED
    BY <2>1
<1> HIDE DEF at
<1>4. /\ worker'.at = at /\ worker'.item = Current /\ worker'.position = q.position
      /\ worker'.fresh = TRUE
  BY <1>1 DEF Idle
<1>5. Current' = Current
  BY <1>1 DEF Current
<1> QED
  BY <1>1, <1>3, <1>4, <1>5 DEF Agreed, HasRead, Preloading

LEMMA StopOrPauseAgreed ==
  ASSUME Typed, Agreed, ReconcileStop \/ ReconcilePause
  PROVE  Agreed'
<1>1. /\ UNCHANGED <<issued, requested>> /\ worker.at \in {"stop", "pause"}
      /\ q' = q \/ q' = [q EXCEPT !.activity = "None"]
  BY DEF ReconcileStop, ReconcilePause, At, listener
<1>2. Current' = Current /\ q'.position = q.position /\ q'.status = q.status
  BY <1>1, AnnouncedSame
<1>3. ~Calm'
  BY <1>1, <1>2 DEF Agreed, Calm
<1> QED
  BY <1>3 DEF Agreed

\* It finds the track loaded, or loads it.
LEMMA CompareAgreed ==
  ASSUME Typed, Agreed, CompareLoaded
  PROVE  Agreed'
<1>1. /\ UNCHANGED <<issued, requested, writer, q, loaded>> /\ worker.at = "compare"
      /\ worker \in Works /\ worker.item \in Track
      /\ IF AlreadyLoaded /\ StillWanted
         THEN Send(Playing(TRUE)) /\ Then("preload")
         ELSE UNCHANGED channel /\ Then("replace")
  BY DEF CompareLoaded, At, Typed, WorkerTyped, WorkTyped, listener, output
<1>2. Current' = Current /\ (Calm' <=> Calm)
  BY <1>1 DEF Calm, Current
<1>3. CASE AlreadyLoaded /\ StillWanted
  <2> DEFINE m == [do |-> "SetPlaying", on |-> TRUE]
  <2>1. /\ m \in Messages /\ m.do = "SetPlaying" /\ m.on /\ channel' = channel \o <<m>>
        /\ channel \in Seq(Messages)
    BY <1>1, <1>3 DEF Messages, Send, Playing, Typed, WriterTyped
  <2> HIDE DEF m
  <2>2. Plays(channel, writer)'
    BY <1>1, <2>1, SentPlays
  <2>3. worker'.at = "preload"
    BY <1>1, <1>3, ThenTyped DEF Steps
  <2>4. loaded.item # Nothing
    BY <1>1, <1>3, SnapcastAssumption DEF AlreadyLoaded, Item
  <2>5. HasLoaded' /\ Current' \in Track
    BY <1>1, <1>2, <1>3, <2>4
       DEF HasLoaded, AlreadyLoaded, StillWanted, Typed, LoadTyped
  <2> QED
    BY <2>2, <2>3, <2>5 DEF Agreed
<1>4. CASE ~(AlreadyLoaded /\ StillWanted)
  <2>1. /\ worker'.at = "replace" /\ worker'.item = worker.item
        /\ worker'.position = worker.position /\ worker'.fresh = worker.fresh
    BY <1>1, <1>4, ThenTyped DEF Steps
  <2> QED
    BY <1>1, <1>2, <2>1 DEF Agreed, HasRead, Preloading
<1> QED
  BY <1>3, <1>4

LEMMA ReplaceAgreed ==
  ASSUME Typed, Agreed, ReplaceLoaded
  PROVE  Agreed'
<1> DEFINE work == worker
<1>1. /\ UNCHANGED <<issued, requested, q>> /\ work.at = "replace" /\ work \in Works
      /\ work = worker
  BY DEF ReplaceLoaded, At, Typed, WorkerTyped, WorkTyped, listener
<1>2. PICK cached \in {FALSE, loaded.ready /\ loaded.next = worker.item} :
        worker' = [work EXCEPT !.at = "announce", !.cached = cached]
  BY DEF ReplaceLoaded
<1> HIDE DEF work
<1>3. /\ worker'.at = "announce" /\ worker'.item = worker.item
      /\ worker'.position = worker.position /\ worker'.fresh = worker.fresh
  BY <1>1, <1>2 DEF Works
<1>4. Current' = Current /\ (Calm' <=> Calm)
  BY <1>1 DEF Calm, Current
<1> QED
  BY <1>1, <1>3, <1>4 DEF Agreed, HasRead, Preloading

LEMMA AnnounceAgreed ==
  ASSUME Typed, Agreed, AnnouncePreparation
  PROVE  Agreed'
<1>1. /\ UNCHANGED <<issued, requested>> /\ worker.at = "announce"
      /\ q' = [q EXCEPT !.activity = "Preparing"]
      /\ Then("load") /\ worker \in Works
  BY DEF AnnouncePreparation, At, Typed, WorkerTyped, WorkTyped, listener
<1>2. /\ worker'.at = "load" /\ worker'.item = worker.item
      /\ worker'.position = worker.position /\ worker'.fresh = worker.fresh
  BY <1>1, ThenTyped DEF Steps
<1>3. Current' = Current /\ q'.position = q.position /\ q'.status = q.status
  BY <1>1, AnnouncedSame
<1>4. Calm' <=> Calm
  BY <1>1, <1>3 DEF Calm
<1> QED
  BY <1>2, <1>3, <1>4, <1>1 DEF Agreed, HasRead, Preloading

\* A calm player says that the decoder failed.
LEMMA PreparationFailsAgreed ==
  ASSUME Typed, Agreed, PreparationFails
  PROVE  Agreed'
<1> DEFINE fails == q.status = "Playing" /\ q.position = worker.position /\ worker.fresh
<1>1. /\ UNCHANGED <<issued, requested>> /\ worker.at = "load"
      /\ q' = IF fails THEN [q EXCEPT !.status = "Stopped", !.activity = "Failed"] ELSE q
  BY DEF PreparationFails, At, listener
<1>2. CASE fails
  <2>1. q'.status = "Stopped"
    BY <1>1, <1>2 DEF Typed, QueueTyped, Sound, QueueStates
  <2> QED
    BY <2>1, RestlessAgreed
<1>3. CASE ~fails
  <2>1. q' = q
    BY <1>1, <1>3
  <2>2. ~Calm
    BY <1>1, <1>3 DEF Agreed, HasRead, Calm
  <2>3. ~Calm'
    BY <1>1, <2>1, <2>2 DEF Calm, Current
  <2> QED
    BY <2>3 DEF Agreed
<1> QED
  BY <1>2, <1>3

LEMMA LoadCurrentAgreed ==
  ASSUME Typed, Agreed, NEW g, LoadCurrent(g)
  PROVE  Agreed'
<1>1. /\ UNCHANGED <<issued, requested, q, writer>> /\ worker.at = "load"
      /\ g \in Generations /\ worker \in Works /\ worker.item \in Track
      /\ worker.item \in Item
  BY DEF LoadCurrent, At, Unused, Typed, WorkerTyped, WorkTyped, Item, listener, output
<1>2. Current' = Current /\ (Calm' <=> Calm)
  BY <1>1 DEF Calm, Current
<1> SUFFICES ASSUME Calm PROVE Agreed'
  BY <1>2 DEF Agreed
<1>3. HasRead /\ worker.fresh /\ StillWanted
  BY <1>1 DEF Agreed, HasRead, StillWanted, Calm
<1> DEFINE load == NoLoad
           item == worker.item
           position == worker.position
           start == [do |-> "Load", item |-> item, gen |-> g]
           play == [do |-> "SetPlaying", on |-> TRUE]
<1>4. /\ channel' = channel \o (<<start>> \o <<play>>)
      /\ loaded' = [load EXCEPT !.item = item, !.gen = g, !.position = position,
                                !.fresh = TRUE]
      /\ Then("preload")
  BY <1>3 DEF LoadCurrent, Send, Playing
<1>5. worker'.at = "preload"
  BY <1>1, <1>4, ThenTyped DEF Steps
<1>6. /\ start \in Messages /\ play \in Messages /\ play.do = "SetPlaying" /\ play.on
      /\ channel \in Seq(Messages) /\ load \in Loads
  BY <1>1, NothingTyped DEF Messages, Typed, WriterTyped
<1>7. /\ item = Current' /\ position = q'.position /\ item \in Optional
      /\ position \in Nat /\ item \in Track /\ g # Nothing
  BY <1>1, <1>2, <1>3, SnapcastAssumption DEF HasRead, Works
<1> HIDE DEF load, item, position, start, play
<1>8. HasLoaded' /\ Current' \in Track
  BY <1>4, <1>6, <1>7 DEF HasLoaded, Loads
<1>9. Plays(channel', writer)
  <2>1. channel \o <<start>> \in Seq(Messages)
    BY <1>6
  <2>2. channel' = (channel \o <<start>>) \o <<play>>
    BY <1>4, <1>6
  <2> QED
    BY <1>6, <2>1, <2>2, SentPlays
<1> QED
  BY <1>1, <1>5, <1>8, <1>9 DEF Agreed

LEMMA PreloadAgreed ==
  ASSUME Typed, Agreed, ClearPreload \/ PreloadNext \/ PreloadFails
  PROVE  Agreed'
<1>1. /\ UNCHANGED <<issued, requested, q, writer>> /\ Preloading(worker)
      /\ loaded'.gen = loaded.gen /\ loaded'.item = loaded.item
      /\ loaded'.position = loaded.position
  BY ClearPreloadTyped, PreloadNextTyped
     DEF ClearPreload, PreloadNext, PreloadFails, At, listener, output, Preloading
<1>2. worker'.at \in {"idle", "preloading"}
  BY ClearPreloadTyped, PreloadNextTyped, NothingTyped DEF Done
<1>3. Plays(channel, writer) => Plays(channel, writer)'
  <2>1. channel \in Seq(Messages)
    BY DEF Typed, WriterTyped
  <2>2. CASE channel' = channel
    BY <1>1, <2>2
  <2>3. CASE Send(<<[do |-> "ClearPreload", gen |-> loaded.gen]>>)
    <3> DEFINE m == [do |-> "ClearPreload", gen |-> loaded.gen]
    <3>1. m \in Messages /\ m.do \notin Transport
      BY DEF Typed, LoadTyped, Loads, Messages, Transport
    <3>2. channel' = channel \o <<m>>
      BY <2>3 DEF Send
    <3> HIDE DEF m
    <3> QED
      BY <1>1, <2>1, <3>1, <3>2, SentPlays
  <2>4. CASE /\ PreloadNext \/ PreloadFails
             /\ Send(<<[do |-> "Preload", item |-> worker.next, gen |-> worker.gen]>>)
    <3> DEFINE m == [do |-> "Preload", item |-> worker.next, gen |-> worker.gen]
    <3>1. m \in Messages /\ m.do \notin Transport
      BY <2>4 DEF PreloadNext, PreloadFails, At, Typed, WorkerTyped, WorkTyped, Works,
         Messages, Transport
    <3>2. channel' = channel \o <<m>>
      BY <2>4 DEF Send
    <3> HIDE DEF m
    <3> QED
      BY <1>1, <2>1, <3>1, <3>2, SentPlays
  <2> QED
    BY <2>2, <2>3, <2>4, ClearPreloadTyped, PreloadNextTyped
<1>4. Current' = Current /\ (Calm' <=> Calm)
  BY <1>1 DEF Calm, Current
<1> SUFFICES ASSUME Calm PROVE Agreed'
  BY <1>4 DEF Agreed
<1>5. HasLoaded /\ Plays(channel, writer) /\ Current \in Track
  BY <1>1 DEF Agreed, Preloading
<1>6. HasLoaded' /\ Current' \in Track
  BY <1>1, <1>4, <1>5 DEF HasLoaded
<1>7. ~Unqueued'
  BY <1>6, QueueAssumption DEF HasLoaded, Unqueued
<1> QED
  BY <1>2, <1>3, <1>5, <1>6, <1>7 DEF Agreed

LEMMA RadioAgreed ==
  ASSUME Typed, Agreed, NEW g, ConnectRadio(g)
  PROVE  Agreed'
<1>1. /\ UNCHANGED <<issued, requested, writer>> /\ worker.at = "radio"
      /\ worker.item = Radio /\ g \in Generations /\ g # Nothing /\ worker \in Works
      /\ q' = q \/ q' = [q EXCEPT !.activity = "Connecting"]
  BY SnapcastAssumption
     DEF ConnectRadio, At, Unused, Typed, WorkerTyped, WorkTyped, listener, output
<1>2. Current' = Current /\ q'.position = q.position /\ q'.status = q.status
  BY <1>1, AnnouncedSame
<1>3. Calm' <=> Calm
  BY <1>1, <1>2 DEF Calm
<1> SUFFICES ASSUME Calm PROVE Agreed'
  BY <1>3 DEF Agreed
<1>4. HasRead /\ StillWanted
  BY <1>1 DEF Agreed, HasRead, StillWanted, Calm
<1> DEFINE there == /\ StillWanted /\ loaded.item = Radio /\ loaded.ready
                    /\ loaded.position = worker.position
<1>5. CASE there
  <2>1. Send(Playing(TRUE)) /\ Done /\ UNCHANGED loaded
    BY <1>5 DEF ConnectRadio
  <2> DEFINE m == [do |-> "SetPlaying", on |-> TRUE]
  <2>2. /\ m \in Messages /\ m.do = "SetPlaying" /\ m.on /\ channel' = channel \o <<m>>
        /\ channel \in Seq(Messages)
    BY <2>1 DEF Messages, Send, Playing, Typed, WriterTyped
  <2> HIDE DEF m
  <2>3. Plays(channel, writer)'
    BY <1>1, <2>2, SentPlays
  <2>4. loaded.item # Nothing
    BY <1>5, SnapcastAssumption DEF Item
  <2>5. HasLoaded' /\ ~Unqueued'
    BY <1>1, <1>2, <1>4, <1>5, <2>1, <2>4
       DEF HasLoaded, HasRead, Unqueued, Typed, LoadTyped
  <2>6. worker'.at = "idle"
    BY <2>1, NothingTyped DEF Done
  <2> QED
    BY <2>3, <2>5, <2>6 DEF Agreed, Preloading
<1>6. CASE ~there
  <2> DEFINE load == NoLoad
             position == worker.position
             work == worker
  <2>1. /\ loaded' = [load EXCEPT !.item = Radio, !.gen = g, !.position = position]
        /\ worker' = [work EXCEPT !.at = "connect", !.gen = g]
    BY <1>4, <1>6 DEF ConnectRadio
  <2>2. load \in Loads /\ work \in Works /\ position = worker.position /\ work = worker
    BY <1>1, NothingTyped
  <2> HIDE DEF load, position, work
  <2>3. /\ loaded'.gen = g /\ loaded'.item = Radio /\ loaded'.position = position
        /\ worker'.at = "connect" /\ worker'.gen = g /\ worker'.item = worker.item
        /\ worker'.position = worker.position
    BY <2>1, <2>2 DEF Loads, Works
  <2>4. HasLoaded' /\ HasRead'
    BY <1>1, <1>2, <1>4, <2>2, <2>3 DEF HasLoaded, HasRead
  <2> QED
    BY <2>3, <2>4 DEF Agreed, Preloading
<1> QED
  BY <1>5, <1>6

LEMMA StartRadioAgreed ==
  ASSUME Typed, Agreed, StartRadio
  PROVE  Agreed'
<1>1. /\ UNCHANGED <<issued, requested, q, writer>> /\ worker.at = "connect" /\ Done
      /\ worker.gen \in Generations /\ Radio \in Item
  BY DEF StartRadio, At, Typed, WorkerTyped, WorkTyped, Item, listener, output
<1>2. Current' = Current /\ (Calm' <=> Calm)
  BY <1>1 DEF Calm, Current
<1> SUFFICES ASSUME Calm PROVE Agreed'
  BY <1>2 DEF Agreed
<1>3. HasRead /\ HasLoaded /\ loaded.gen = worker.gen /\ StillWanted
  BY <1>1 DEF Agreed, HasRead, StillWanted, Calm
<1> DEFINE start == [do |-> "Load", item |-> Radio, gen |-> worker.gen]
           play == [do |-> "SetPlaying", on |-> TRUE]
<1>4. /\ channel' = channel \o (<<start>> \o <<play>>)
      /\ loaded' = [loaded EXCEPT !.ready = TRUE]
  BY <1>3 DEF StartRadio, Send, Playing
<1>5. /\ start \in Messages /\ play \in Messages /\ play.do = "SetPlaying" /\ play.on
      /\ channel \in Seq(Messages)
  BY <1>1 DEF Messages, Typed, WriterTyped
<1> HIDE DEF start, play
<1>6. /\ loaded'.gen = loaded.gen /\ loaded'.item = loaded.item
      /\ loaded'.position = loaded.position /\ loaded'.ready = TRUE
  BY <1>4 DEF Typed, LoadTyped, Loads
<1>7. HasLoaded' /\ ~Unqueued'
  BY <1>1, <1>2, <1>3, <1>6 DEF HasLoaded, Unqueued
<1>8. Plays(channel', writer)
  <2>1. channel \o <<start>> \in Seq(Messages)
    BY <1>5
  <2>2. channel' = (channel \o <<start>>) \o <<play>>
    BY <1>4, <1>5
  <2> QED
    BY <1>5, <2>1, <2>2, SentPlays
<1>9. worker'.at = "idle"
  BY <1>1, NothingTyped DEF Done
<1> QED
  BY <1>1, <1>7, <1>8, <1>9 DEF Agreed, Preloading

\* A calm player says that the stream failed.
LEMMA FailedAgreed ==
  ASSUME Typed, NEW g, OnStreamFailed(g), OfThisLoad(g), loaded.item # Nothing,
         q.status = "Playing"
  PROVE  Agreed'
<1>1. q' = [q EXCEPT !.status = "Stopped", !.activity = "Failed"]
  BY DEF OnStreamFailed
<1>2. q'.status = "Stopped"
  BY <1>1 DEF Typed, QueueTyped, Sound, QueueStates
<1> QED
  BY <1>2, RestlessAgreed

LEMMA RadioFailsAgreed ==
  ASSUME Typed, Agreed, RadioFails
  PROVE  Agreed'
<1>1. /\ UNCHANGED <<issued, requested>> /\ worker.at = "connect"
      /\ OnStreamFailed(worker.gen)
  BY DEF RadioFails, OnStreamFailed, listener
<1> DEFINE fails == /\ OfThisLoad(worker.gen) /\ loaded.item # Nothing
                    /\ q.status = "Playing"
<1>2. CASE fails
  BY <1>1, <1>2, FailedAgreed
<1>3. CASE ~fails
  <2>1. q' = q
    BY <1>1, <1>3 DEF OnStreamFailed
  <2>2. ~Calm
    BY <1>1, <1>3 DEF Agreed, HasLoaded, Calm, OfThisLoad
  <2>3. ~Calm'
    BY <1>1, <2>1, <2>2 DEF Calm, Current
  <2> QED
    BY <2>3 DEF Agreed
<1> QED
  BY <1>2, <1>3

LEMMA ReportAgreed ==
  ASSUME Typed, Agreed, HandleReport
  PROVE  Agreed'
<1> DEFINE event == Head(events)
<1>1. UNCHANGED <<issued, worker, writer>> /\ event \in Reports
  BY ReportTyped
<1>2. event.is \in {"Advanced", "Drained", "Started", "Failed"}
  BY <1>1 DEF Reports
<1>3. CASE event.is = "Advanced"
  <2>1. OnAdvanced(event.gen)
    BY <1>3 DEF HandleReport
  <2>2. CASE requested'
    BY <2>2, RestlessAgreed
  <2>3. CASE UNCHANGED <<q, loaded, requested, channel>>
    BY <1>1, <2>3, AgreedKept
  <2> QED
    BY <2>1, <2>2, <2>3 DEF OnAdvanced
<1>4. CASE event.is = "Drained"
  <2>1. OnDrained(event.gen)
    BY <1>4 DEF HandleReport
  <2>2. CASE OfThisLoad(event.gen) /\ q.status = "Playing"
    <3> DEFINE next == NextIndex(q)
               waits == q.activity # "None" /\ q.position = Len(q.queue)
               u == IF waits THEN PreserveRefillResume(q) ELSE q
    <3>1. /\ q' = IF next # 0 THEN [q EXCEPT !.position = next]
                  ELSE [u EXCEPT !.status = "Stopped"]
          /\ requested' = (requested \/ next # 0)
      BY <2>1, <2>2 DEF OnDrained
    <3>2. CASE next # 0
      BY <3>1, <3>2, RestlessAgreed
    <3>3. CASE next = 0
      <4>1. q' = [u EXCEPT !.status = "Stopped"]
        BY <3>1, <3>3
      <4>2. "status" \in DOMAIN u
        BY DEF PreserveRefillResume, Typed, QueueTyped, Sound, QueueStates
      <4> HIDE DEF u
      <4>3. q'.status = "Stopped"
        BY <4>1, <4>2
      <4> QED
        BY <4>3, RestlessAgreed
    <3> QED
      BY <3>2, <3>3
  <2>3. CASE ~(OfThisLoad(event.gen) /\ q.status = "Playing")
    <3>1. UNCHANGED <<q, loaded, requested, channel>>
      BY <2>1, <2>3 DEF OnDrained
    <3> QED
      BY <1>1, <3>1, AgreedKept
  <2> QED
    BY <2>2, <2>3
<1>5. CASE event.is = "Started"
  <2>1. /\ UNCHANGED <<loaded, channel, requested>>
        /\ q' = q \/ q' = [q EXCEPT !.activity = "None"]
    BY <1>5 DEF HandleReport, OnStreamStarted
  <2> QED
    BY <1>1, <2>1, AgreedKept
<1>6. CASE event.is = "Failed"
  <2>1. OnStreamFailed(event.gen)
    BY <1>6 DEF HandleReport
  <2>2. CASE OfThisLoad(event.gen) /\ loaded.item # Nothing /\ q.status = "Playing"
    BY <2>1, <2>2, FailedAgreed
  <2>3. CASE ~(OfThisLoad(event.gen) /\ loaded.item # Nothing /\ q.status = "Playing")
    <3>1. UNCHANGED <<q, loaded, requested, channel>>
      BY <2>1, <2>3 DEF OnStreamFailed
    <3> QED
      BY <1>1, <3>1, AgreedKept
  <2> QED
    BY <2>2, <2>3
<1> QED
  BY <1>2, <1>3, <1>4, <1>5, <1>6

LEMMA WriterAgreed ==
  ASSUME Typed, Agreed, WriterThread
  PROVE  Agreed'
<1>1. CASE TakeMessage
  <2> DEFINE c == channel
             w == writer
  <2>1. /\ UNCHANGED <<q, issued, loaded, requested, worker>>
        /\ c # <<>> /\ channel' = Tail(c) /\ writer' = After(w, Head(c))
    BY <1>1 DEF TakeMessage, listener
  <2>2. /\ c \in Seq(Messages) /\ w \in Writers
        /\ w.current.item = Nothing => w.current = Silence
        /\ w.current.item # Nothing => w.current.gen \in Generations
        /\ c = channel /\ w = writer
    BY DEF Typed, WriterTyped
  <2> HIDE DEF c, w
  <2>3. Plays(c, w) => Plays(channel', writer')
    BY <2>1, <2>2, TakenPlays
  <2> QED
    BY <2>1, <2>2, <2>3, AgreedKept
<1>2. CASE WriteFirst \/ TrackDrains \/ StreamFails
  <2>1. /\ UNCHANGED <<q, issued, loaded, requested, worker, channel>>
        /\ writer'.playing = writer.playing
    BY <1>2, WriterReports
  <2>2. Plays(channel, writer) => Plays(channel, writer)'
    BY <2>1 DEF Plays
  <2> QED
    BY <2>1, <2>2, AgreedKept
<1> QED
  BY <1>1, <1>2 DEF WriterThread

LEMMA StepKeepsAgreed ==
  ASSUME Typed, Agreed, Next
  PROVE  Agreed'
<1>1. CASE Command \/ Refill
  BY <1>1, ListenerAgreed
<1>2. CASE Worker
  <2>1. CASE Reconcile \/ ReconcileStop \/ ReconcilePause
    BY <2>1, ReconcileAgreed, StopOrPauseAgreed
  <2>2. CASE CompareLoaded \/ ReplaceLoaded \/ AnnouncePreparation
    BY <2>2, CompareAgreed, ReplaceAgreed, AnnounceAgreed
  <2>3. CASE PreparationFails \/ LoadCurrent(UnusedGeneration)
    BY <2>3, PreparationFailsAgreed, LoadCurrentAgreed
  <2>4. CASE ClearPreload \/ PreloadNext \/ PreloadFails
    BY <2>4, PreloadAgreed
  <2>5. CASE ConnectRadio(UnusedGeneration) \/ StartRadio \/ RadioFails
    BY <2>5, RadioAgreed, StartRadioAgreed, RadioFailsAgreed
  <2> QED
    BY <1>2, <2>1, <2>2, <2>3, <2>4, <2>5 DEF Worker
<1>3. CASE HandleReport
  BY <1>3, ReportAgreed
<1>4. CASE WriterThread
  BY <1>4, WriterAgreed
<1> QED
  BY <1>1, <1>2, <1>3, <1>4 DEF Next

LEMMA StutterKeepsAgreed ==
  ASSUME Agreed, UNCHANGED vars
  PROVE  Agreed'
BY DEF vars, listener, output, Agreed, Calm, HasRead, HasLoaded, Unqueued, Current,
   Preloading

LEMMA AgreedMeans ==
  ASSUME Typed, Tuned, Agreed
  PROVE  HeardUnlessAstray
<1> SUFFICES ASSUME Settled, q.status = "Playing", Current # Nothing, ~astray
             PROVE  Heard
  BY DEF HeardUnlessAstray
<1>1. /\ Calm /\ worker.at = "idle" /\ channel = <<>> /\ events = <<>>
  BY NothingTyped DEF Settled, Quiet, Calm
<1>2. HasLoaded /\ Plays(channel, writer) /\ ~Unqueued
  BY <1>1 DEF Agreed
<1>3. Becomes(Current, loaded.gen, <<>>, writer.current, <<>>)
  BY <1>1, <1>2 DEF HasLoaded, Tuned, Followed
<1>4. writer.current.item = Current
  <2>1. News(loaded.gen, <<>>) = {}
    BY DEF News
  <2> QED
    BY <1>3, <2>1 DEF Becomes, Tells
<1>5. writer.playing
  BY <1>1, <1>2 DEF Plays, LastIn, Among
<1> QED
  BY <1>4, <1>5 DEF Heard

\* A player at rest that shows Playing plays the item at its cursor, whatever
\* was replaced, failed or came late on the way, unless since its last load it
\* ignored a report of that load, or moved on to another item than the writer.
THEOREM HeardWhenSettled == Spec => []HeardUnlessAstray
<1>1. Init => Typed /\ Hushed /\ Tuned /\ Agreed
  BY InitTyped, InitHushed, InitTuned, InitAgreed
<1>2. Typed /\ Hushed /\ Tuned /\ Agreed /\ [Next]_vars
        => (Typed /\ Hushed /\ Tuned /\ Agreed)'
  BY StepKeepsTyped, StutterKeepsTyped, StepKeepsHushed, StutterKeepsHushed,
     StepKeepsTuned, StutterKeepsTuned, StepKeepsAgreed, StutterKeepsAgreed DEF Hushed
<1> QED
  BY <1>1, <1>2, AgreedMeans, PTL DEF Spec
=============================================================================
