---------------------------- MODULE MpdSyncProofs ----------------------------
(***************************************************************************)
(* The invariants of MpdSync, for every set of tracks, commands, lookup    *)
(* results and foreign queues, and whatever the bounds.  The inductive     *)
(* invariant is that both queues are sound, that the daemon, which knows   *)
(* nothing of continuous play, is idle, and the two invariants themselves: *)
(* neither can do without the other, since news is read with a version     *)
(* that vouches for the queue, and a version vouches for what was edited   *)
(* on both sides in step.                                                  *)
(***************************************************************************)
EXTENDS MpdSync, QueueStateProofs

Loops == [at : {"away", "arriving", "greeting", "watching"},
          on : {"this", "none", "former"}]

Typed ==
  /\ Sound(TRUE, q)
  /\ daemon \in [up : BOOLEAN, q : QueueStates]
  /\ Sound(TRUE, daemon.q) /\ NoRefill(daemon.q)
  /\ conn \in {"none", "live", "dead"} /\ (conn = "live" => daemon.up)
  /\ idle \in Loops
  /\ news \in BOOLEAN /\ lost \in BOOLEAN /\ seen \in BOOLEAN /\ borrowed \in BOOLEAN
  /\ seen => daemon.up
  /\ lookup \in {"none", "current", "stale"}
  /\ lookup = "current" => q.activity = "Finding"

IInv == Typed /\ VersionVouches /\ QuietMeansInStep

\* Both sides agree on the queue and the cursor.
InStep ==
  /\ daemon.q.queue = q.queue
  /\ daemon.q.position = q.position /\ daemon.q.status = q.status
  /\ daemon.q.position <= Len(q.queue)

\* What the daemon may be left with.
Playable(d) == Sound(TRUE, d) /\ NoRefill(d)

-----------------------------------------------------------------------------
LEMMA TypedMeans == Typed => TypeOK
<1> SUFFICES ASSUME Typed PROVE TypeOK
  OBVIOUS
<1>1. CopyTyped(q) /\ q.resumeAt \in {0, Len(q.queue) + 1}
  BY DEF Typed, Sound, QueueStates, CursorInRange, ResumeAtEnd, CopyTyped
<1>2. CopyTyped(daemon.q)
  BY DEF Typed, Sound, QueueStates, CursorInRange, CopyTyped
<1>3. /\ idle.at \in {"away", "arriving", "greeting", "watching"}
      /\ idle.on \in {"this", "none", "former"}
  BY DEF Typed, Loops
<1> QED
  BY <1>1, <1>2, <1>3 DEF Typed, TypeOK

\* Both queues agree and so do their cursors, or an edit was lost: then the
\* rest of the invariant follows.
LEMMA InStepSuffices ==
  ASSUME Typed', (lost \/ InStep)'
  PROVE  IInv'
  BY DEF IInv, VersionVouches, QuietMeansInStep, InStep, SameCursor

-----------------------------------------------------------------------------
(* What is done to a queue. *)

\* A copy of the daemon that is loaded, told where to play or obeys a command.
LEMMA LoadedPlayable ==
  ASSUME NEW d, Playable(d), NEW items \in Seq(Item)
  PROVE  Playable(Loaded(d, items)) /\ Loaded(d, items).queue = items
<1> DEFINE t == Loaded(d, items)
<1>1. d \in QueueStates /\ 0 \in 0..Len(items) /\ "Stopped" \in Status
  BY LenProperties DEF Playable, Sound, Status
<1>2. t = [d EXCEPT !.queue = items, !.position = 0, !.status = "Stopped"]
  BY DEF Loaded
<1>3. Sound(TRUE, [d EXCEPT !.queue = items, !.position = 0, !.status = "Stopped"])
  BY <1>1, EditSound DEF Playable
<1>4. NoRefill(t) /\ t.queue = items
  BY <1>1, <1>2 DEF Playable, NoRefill, QueueStates
<1> QED
  BY <1>2, <1>3, <1>4 DEF Playable

LEMMA PlayedPlayable ==
  ASSUME NEW d, Playable(d), NEW index \in Nat
  PROVE  Playable(PlayIndex(d, index)) /\ PlayIndex(d, index).queue = d.queue
<1>1. d \in QueueStates
  BY DEF Playable, Sound
<1>2. NoRefill(PlayIndex(d, index)) /\ PlayIndex(d, index).queue = d.queue
  BY <1>1 DEF Playable, PlayIndex, NoRefill, QueueStates
<1>3. Sound(TRUE, PlayIndex(d, index))
  BY PlayIndexSound DEF Playable
<1> QED
  BY <1>2, <1>3 DEF Playable

LEMMA AppliedPlayable ==
  ASSUME NEW d, Playable(d), NEW command \in PlayerCommand,
         NEW arg \in Arguments(command), NEW t \in Applied(d, command, arg)
  PROVE  Playable(t)
<1>1. Sound(TRUE, t)
  BY AppliedSound DEF Playable
<1>2. t.activity = d.activity /\ t.started = d.started /\ t.resumeAt = d.resumeAt
  BY AppliedKeepsRefill DEF Playable, NoRefill, Sound
<1> QED
  BY <1>1, <1>2 DEF Playable, NoRefill

LEMMA FlagsPlayable ==
  ASSUME NEW d, Playable(d)
  PROVE  /\ \A v \in Status : /\ Playable([d EXCEPT !.status = v])
                              /\ [d EXCEPT !.status = v].queue = d.queue
         /\ d.queue # <<>> =>
              /\ Playable([d EXCEPT !.status = "Playing", !.position = 1])
              /\ [d EXCEPT !.status = "Playing", !.position = 1].queue = d.queue
<1>1. d \in QueueStates /\ Sound(TRUE, d) /\ NoRefill(d)
  BY DEF Playable, Sound
<1>2. ASSUME NEW v \in Status
      PROVE  Playable([d EXCEPT !.status = v]) /\ [d EXCEPT !.status = v].queue = d.queue
  <2>1. Sound(TRUE, [d EXCEPT !.status = v])
    BY <1>1, FlagsSound
  <2>2. NoRefill([d EXCEPT !.status = v]) /\ [d EXCEPT !.status = v].queue = d.queue
    BY <1>1 DEF NoRefill, QueueStates
  <2> QED
    BY <2>1, <2>2 DEF Playable
<1>3. ASSUME d.queue # <<>>
      PROVE  /\ Playable([d EXCEPT !.status = "Playing", !.position = 1])
             /\ [d EXCEPT !.status = "Playing", !.position = 1].queue = d.queue
  <2> DEFINE u == [d EXCEPT !.status = "Playing"]
             t == [d EXCEPT !.status = "Playing", !.position = 1]
  <2>1. Playable(u) /\ u.queue = d.queue
    BY <1>2 DEF Status
  <2>2. t = [u EXCEPT !.position = 1] /\ t.queue = d.queue /\ NoRefill(t)
    BY <1>1 DEF QueueStates, NoRefill
  <2>3. 1 \in 0..Len(d.queue)
    BY <1>1, <1>3 DEF QueueStates
  <2> HIDE DEF u, t
  <2>4. Sound(TRUE, t)
    BY <2>1, <2>2, <2>3, FlagsSound DEF Playable
  <2>5. Playable(t) /\ t.queue = d.queue
    BY <2>2, <2>4 DEF Playable
  <2> QED
    BY <2>5 DEF t
<1> QED
  BY <1>2, <1>3

LEMMA ReassertedPlayable ==
  ASSUME Typed, NEW s, Sound(TRUE, s)
  PROVE  Playable(Reasserted(s)) /\ Reasserted(s).queue = s.queue
<1> DEFINE loaded == Loaded(daemon.q, s.queue)
<1>0. s.queue \in Seq(Item) /\ Playable(daemon.q)
  BY DEF Typed, Playable, Sound, QueueStates
<1>1. Playable(loaded) /\ loaded.queue = s.queue
  BY <1>0, LoadedPlayable
<1>2. s.position \in Nat
  BY DEF Sound, QueueStates
<1> HIDE DEF loaded
<1>3. Playable(PlayIndex(loaded, s.position))
      /\ PlayIndex(loaded, s.position).queue = s.queue
  BY <1>1, <1>2, PlayedPlayable
<1> QED
  BY <1>1, <1>3 DEF Reasserted, loaded

\* The cursor taken over from a daemon, and what is kept of the queue.
LEMMA CursorTaken ==
  ASSUME NEW s, Sound(TRUE, s), NEW d, Sound(TRUE, d)
  PROVE  LET t == Uncounted(CursorApplied(s, d))
         IN /\ Sound(TRUE, t)
            /\ t.queue = s.queue /\ t.status = d.status
            /\ d.position <= Len(s.queue) => t.position = d.position
            /\ s.activity = "Finding" => t.activity = "Finding"
<1> DEFINE drained == d.status = "Stopped" /\ s.activity # "None"
                        /\ s.position # 0 /\ s.position = Len(s.queue)
           next == IF d.position <= Len(s.queue) THEN d.position ELSE 0
           t == IF drained THEN PreserveRefillResume(s) ELSE s
           u == IF d.status # "Stopped" THEN ClearExhaustionAfterAdvance(t, next) ELSE t
           v == [u EXCEPT !.status = d.status, !.position = next,
                          !.repeat = d.repeat, !.shuffle = d.shuffle]
<1>1. /\ s \in QueueStates /\ d \in QueueStates /\ Len(s.queue) \in Nat
      /\ next \in 0..Len(s.queue)
  BY DEF Sound, QueueStates
<1>2. Sound(TRUE, t) /\ t \in QueueStates /\ t.queue = s.queue /\ t.activity = s.activity
  <2>1. CASE drained
    <3>1. s.queue # <<>>
      BY <1>1, <2>1 DEF QueueStates
    <3>2. Sound(TRUE, PreserveRefillResume(s))
      BY <2>1, <3>1, PreserveSound
    <3>3. PreserveRefillResume(s).queue = s.queue
          /\ PreserveRefillResume(s).activity = s.activity
      BY <1>1 DEF PreserveRefillResume, QueueStates
    <3> QED
      BY <2>1, <3>2, <3>3 DEF Sound
  <2>2. CASE ~drained
    BY <1>1, <2>2
  <2> QED
    BY <2>1, <2>2
<1> HIDE DEF t, drained, next
<1>3. /\ Sound(TRUE, u) /\ u \in QueueStates /\ u.queue = s.queue
      /\ s.activity = "Finding" => u.activity = "Finding"
  <2>1. Sound(TRUE, CancelRefill(t)) /\ CancelRefill(t).queue = s.queue
    BY <1>2, CancelSound DEF CancelRefill, QueueStates
  <2>2. u = t \/ (u = CancelRefill(t) /\ t.activity = "Exhausted")
    BY DEF ClearExhaustionAfterAdvance
  <2> QED
    BY <1>2, <2>1, <2>2 DEF Sound
<1> HIDE DEF u
<1>4. v \in QueueStates
  <2>1. next \in Nat
    BY <1>1
  <2>2. d.status \in Status /\ d.repeat \in Repeat /\ d.shuffle \in BOOLEAN
    BY <1>1 DEF QueueStates
  <2> QED
    BY <1>3, <2>1, <2>2 DEF QueueStates
<1>5. /\ v.queue = u.queue /\ v.position = next /\ v.status = d.status
      /\ v.resumeAt = u.resumeAt /\ v.activity = u.activity
      /\ v.started = u.started
  BY <1>3 DEF QueueStates
<1>6. v = CursorApplied(s, d)
  BY Zenon DEF CursorApplied, t, u, next, drained
<1> HIDE DEF v
<1>7. Sound(TRUE, v)
  BY <1>1, <1>3, <1>4, <1>5, SoundIfKept
<1> DEFINE w == Uncounted(v)
<1>8. /\ Sound(TRUE, w)
      /\ w.queue = v.queue /\ w.position = v.position /\ w.status = v.status
      /\ w.activity = v.activity
  BY <1>4, <1>7, UncountedSound DEF Uncounted, QueueStates
<1>9. d.position <= Len(s.queue) => next = d.position
  BY DEF next
<1> HIDE DEF w
<1>10. /\ Sound(TRUE, w)
       /\ w.queue = s.queue /\ w.status = d.status
       /\ d.position <= Len(s.queue) => w.position = d.position
       /\ s.activity = "Finding" => w.activity = "Finding"
  BY <1>3, <1>5, <1>8, <1>9
<1> QED
  BY <1>6, <1>10 DEF w

-----------------------------------------------------------------------------
(* Commands, on either side. *)

LEMMA AdvancePlayable ==
  ASSUME NEW d, Playable(d), NEW stop, NEW t \in Advance(d, stop)
  PROVE  Playable(t) /\ t.queue = d.queue
<1>1. Sound(TRUE, d) /\ d \in QueueStates /\ NoRefill(d) /\ d.activity # "Exhausted"
  BY DEF Playable, Sound, NoRefill
<1>2. Sound(TRUE, t)
  BY <1>1, AdvanceSound
<1>3. t.activity = d.activity /\ t.started = d.started /\ t.resumeAt = d.resumeAt
  BY <1>1, AdvanceKeepsRefill
<1>4. t.queue = d.queue
  BY <1>1, AdvanceFollows DEF Follows
<1> QED
  BY <1>1, <1>2, <1>3, <1>4 DEF Playable, NoRefill

\* What the daemon does with a command: unless it runs the very same operation
\* on its copy, the queue stays as it is, or is the server's.
LEMMA ObeyedCases ==
  ASSUME Typed, NEW s, NEW command \in PlayerCommand,
         NEW arg \in Arguments(command), NEW d \in Obeyed(s, command, arg)
  PROVE  \/ command \notin MutatesQueue /\ d \in {daemon.q} \cup Advance(daemon.q, TRUE)
         \/ command = "Play" /\ s.position <= Len(daemon.q.queue)
              /\ d = PlayIndex(daemon.q, s.position)
         \/ command = "Play" /\ daemon.q.queue # <<>>
              /\ \/ d = [daemon.q EXCEPT !.status = "Playing"]
                 \/ d = [daemon.q EXCEPT !.status = "Playing", !.position = 1]
         \/ command = "Pause" /\ d = [daemon.q EXCEPT !.status = "Paused"]
         \/ command = "RestoreClearedQueue" /\ d = Loaded(daemon.q, s.queue)
         \/ command # "RestoreClearedQueue" /\ d \in Applied(daemon.q, command, arg)
<1>1. CASE Deferred(command)
  <2>1. d = daemon.q /\ command = "Next"
    BY <1>1 DEF Obeyed, Deferred, Resumes
  <2> QED
    BY <2>1 DEF MutatesQueue
<1>2. CASE Resumes(command) /\ s.position # 0
  <2>1. command = "Play"
    BY <1>2 DEF Resumes
  <2>2. d \in (IF s.position <= Len(daemon.q.queue)
               THEN {PlayIndex(daemon.q, s.position)} ELSE {})
    BY <1>2, <2>1 DEF Obeyed, Deferred, Resumes
  <2> QED
    BY <2>1, <2>2
<1>3. CASE command = "Play" /\ ~(restored /\ s.position # 0)
  <2>1. d = IF daemon.q.queue = <<>> THEN daemon.q
            ELSE [daemon.q EXCEPT !.status = "Playing",
                                  !.position = IF @ = 0 THEN 1 ELSE @]
    BY <1>3 DEF Obeyed, Deferred, Resumes
  <2>2. CASE daemon.q.queue = <<>>
    BY <1>3, <2>1, <2>2 DEF MutatesQueue
  <2>3. CASE daemon.q.queue # <<>> /\ daemon.q.position = 0
    BY <1>3, <2>1, <2>3
  <2>4. CASE daemon.q.queue # <<>> /\ daemon.q.position # 0
    <3>1. daemon.q \in QueueStates
      BY DEF Typed
    <3>2. d = [daemon.q EXCEPT !.status = "Playing"]
      BY <2>1, <2>4, <3>1 DEF QueueStates
    <3> QED
      BY <1>3, <2>4, <3>2
  <2> QED
    BY <2>2, <2>3, <2>4
<1>4. CASE command = "Pause"
  <2>1. d = IF daemon.q.status = "Playing"
            THEN [daemon.q EXCEPT !.status = "Paused"] ELSE daemon.q
    BY <1>4 DEF Obeyed, Deferred, Resumes
  <2> QED
    BY <1>4, <2>1 DEF MutatesQueue
<1>5. CASE command = "RestoreClearedQueue"
  BY <1>5 DEF Obeyed, Deferred, Resumes
<1>6. CASE command \in {"Next", "Previous"} /\ ~Deferred(command)
  <2>1. /\ command = "Next" => d \in Advance(daemon.q, TRUE)
        /\ command = "Previous" => d \in StepPrevious(daemon.q)
    BY <1>6 DEF Obeyed, Resumes
  <2>2. command = "Previous" => d \in Applied(daemon.q, command, arg)
    BY <2>1 DEF Applied
  <2> QED
    BY <1>6, <2>1, <2>2 DEF MutatesQueue
<1>7. CASE command \in {"PlayQueueIndex", "RemoveQueueItem", "MoveQueueItem"}
  BY <1>7 DEF Obeyed, Deferred, Resumes
<1>8. CASE command \notin {"Play", "Pause", "RestoreClearedQueue", "Next", "Previous",
                           "PlayQueueIndex", "RemoveQueueItem", "MoveQueueItem"}
  BY <1>8 DEF Obeyed, Deferred, Resumes
<1> QED
  BY <1>1, <1>2, <1>3, <1>4, <1>5, <1>6, <1>7, <1>8 DEF Resumes

LEMMA ObeyedPlayable ==
  ASSUME Typed, NEW s, Sound(TRUE, s), NEW command \in PlayerCommand,
         NEW arg \in Arguments(command), NEW d \in Obeyed(s, command, arg)
  PROVE  /\ Playable(d)
         /\ command \notin MutatesQueue => d.queue = daemon.q.queue
         /\ command = "RestoreClearedQueue" => d.queue = s.queue
         /\ command \in MutatesQueue \ {"RestoreClearedQueue"} =>
              d \in Applied(daemon.q, command, arg)
<1>1. /\ Playable(daemon.q) /\ s.position \in Nat /\ s.queue \in Seq(Item)
      /\ "Playing" \in Status /\ "Paused" \in Status
  BY DEF Typed, Playable, Sound, QueueStates, Status
<1>2. CASE command \notin MutatesQueue /\ d \in {daemon.q} \cup Advance(daemon.q, TRUE)
  BY <1>1, <1>2, AdvancePlayable DEF MutatesQueue
<1>3. CASE command = "Play" /\ d = PlayIndex(daemon.q, s.position)
  BY <1>1, <1>3, PlayedPlayable DEF MutatesQueue
<1>4. CASE command = "Play" /\ daemon.q.queue # <<>>
              /\ \/ d = [daemon.q EXCEPT !.status = "Playing"]
                 \/ d = [daemon.q EXCEPT !.status = "Playing", !.position = 1]
  <2>1. /\ Playable([daemon.q EXCEPT !.status = "Playing"])
        /\ [daemon.q EXCEPT !.status = "Playing"].queue = daemon.q.queue
    BY <1>1, FlagsPlayable
  <2>2. /\ Playable([daemon.q EXCEPT !.status = "Playing", !.position = 1])
        /\ [daemon.q EXCEPT !.status = "Playing", !.position = 1].queue = daemon.q.queue
    BY <1>1, <1>4, FlagsPlayable
  <2>3. command \notin MutatesQueue \cup {"RestoreClearedQueue"}
    BY <1>4 DEF MutatesQueue
  <2>4. Playable(d) /\ d.queue = daemon.q.queue
    BY <1>4, <2>1, <2>2
  <2> QED
    BY <2>3, <2>4
<1>5. CASE command = "Pause" /\ d = [daemon.q EXCEPT !.status = "Paused"]
  BY <1>1, <1>5, FlagsPlayable DEF MutatesQueue
<1>6. CASE command = "RestoreClearedQueue" /\ d = Loaded(daemon.q, s.queue)
  BY <1>1, <1>6, LoadedPlayable DEF MutatesQueue
<1>7. CASE command # "RestoreClearedQueue" /\ d \in Applied(daemon.q, command, arg)
  <2>1. Playable(d)
    BY <1>1, <1>7, AppliedPlayable
  <2>2. ASSUME command \notin MutatesQueue PROVE d.queue = daemon.q.queue
    <3> DEFINE copy == daemon.q
    <3>1. command \in PlayerCommand \ MutatesQueue /\ Sound(TRUE, copy)
          /\ d \in Applied(copy, command, arg)
      BY <1>7, <2>2 DEF Typed
    <3> HIDE DEF copy
    <3>2. d.queue = copy.queue
      BY <3>1, NavigationKeepsQueue
    <3> QED
      BY <3>2 DEF copy
  <2> QED
    BY <1>7, <2>1, <2>2
<1> QED
  BY <1>2, <1>3, <1>4, <1>5, <1>6, <1>7, ObeyedCases

\* The server's half: sound, and a lookup that is still current stays so.
LEMMA EditedSound ==
  ASSUME Typed, NEW command \in PlayerCommand, NEW arg \in Arguments(command),
         NEW s \in Edited(command, arg)
  PROVE  /\ Sound(TRUE, s)
         /\ command \notin MutatesQueue => s.queue = q.queue
         /\ q.activity = "Finding" /\ command \notin CancelsAutoplayRefill =>
              s.activity = "Finding"
         /\ Deferred(command) => s = q
<1>1. Sound(TRUE, q) /\ q \in QueueStates
  BY DEF Typed, Sound
<1>2. CASE command \in MutatesQueue
  <2>1. s \in Outcomes(q, command, arg) /\ ~Deferred(command)
    BY <1>2 DEF Edited, Deferred, MutatesQueue
  <2>2. Sound(TRUE, s)
    BY <1>1, <2>1, OutcomesSound
  <2>3. command \notin CancelsAutoplayRefill /\ q.activity = "Finding" =>
          s.activity = "Finding"
    <3> SUFFICES ASSUME command \notin CancelsAutoplayRefill, q.activity = "Finding"
                 PROVE  s.activity = "Finding"
      OBVIOUS
    <3>1. command \in {"RestoreClearedQueue"}
      BY <1>2 DEF CancelsAutoplayRefill, MutatesQueue
    <3>2. Prepared(q, command) = q
      BY <3>1 DEF Prepared, CancelsAutoplayRefill, MutatesQueue
    <3>3. s \in Applied(q, command, arg)
      BY <2>1, <3>1, <3>2 DEF Outcomes
    <3> QED
      BY <1>1, <3>3, AppliedKeepsRefill DEF Sound
  <2> QED
    BY <1>2, <2>1, <2>2, <2>3
<1>3. CASE command \notin MutatesQueue /\ ~Deferred(command)
  <2>1. s = Prepared(q, command)
    BY <1>3 DEF Edited
  <2>2. Sound(TRUE, s)
    BY <1>1, <2>1, PreparedSound
  <2>3. s.queue = q.queue
    BY <1>1, <1>3, <2>1 DEF Prepared, CancelRefill, QueueStates
  <2>4. command \notin CancelsAutoplayRefill => s = q
    BY <1>3, <2>1 DEF Prepared
  <2> QED
    BY <1>3, <2>2, <2>3, <2>4
<1>4. CASE command \notin MutatesQueue /\ Deferred(command)
  BY <1>1, <1>4 DEF Edited
<1> QED
  BY <1>2, <1>3, <1>4

\* Two copies in step stay in step where the daemon's version tells nothing.
LEMMA CopiesAgree ==
  ASSUME Typed, daemon.q.queue = q.queue,
         NEW command \in PlayerCommand, NEW arg \in Arguments(command),
         NEW s \in Edited(command, arg), NEW d \in Obeyed(s, command, arg),
         d.queue = daemon.q.queue
  PROVE  s.queue = d.queue
<1>1. Sound(TRUE, s) /\ (command \notin MutatesQueue => s.queue = q.queue)
  BY EditedSound
<1>2. /\ command = "RestoreClearedQueue" => d.queue = s.queue
      /\ command \in MutatesQueue \ {"RestoreClearedQueue"} =>
              d \in Applied(daemon.q, command, arg)
  BY <1>1, ObeyedPlayable
<1>3. CASE command \in MutatesQueue \ {"RestoreClearedQueue"}
  <2> DEFINE t == Prepared(q, command)
  <2>1. Sound(TRUE, t) /\ t.queue = q.queue
    BY PreparedSound DEF Typed, Sound, Prepared, CancelRefill, QueueStates
  <2>2. s \in Applied(t, command, arg)
    BY <1>3 DEF Edited, Outcomes, MutatesQueue
  <2> DEFINE copy == daemon.q
  <2>3. /\ copy \in QueueStates /\ CursorInRange(copy) /\ t \in QueueStates
        /\ t.queue = copy.queue /\ d.queue = copy.queue
        /\ d \in Applied(copy, command, arg)
    BY <1>2, <1>3, <2>1 DEF Typed, Sound
  <2> HIDE DEF t, copy
  <2> QED
    BY <1>3, <2>2, <2>3, EditsAgree
<1> QED
  BY <1>1, <1>2, <1>3

-----------------------------------------------------------------------------
(* Talking to the daemon. *)

\* After the answer has been read, both sides are in step, unless the version
\* vouched for something it should not have.
LEMMA SucceedsStep ==
  ASSUME Typed, VersionVouches,
         NEW s, Sound(TRUE, s), NEW d, Playable(d),
         daemon.q.queue = q.queue /\ d.queue = daemon.q.queue => s.queue = d.queue,
         Succeeds(s, d)
  PROVE  /\ Sound(TRUE, q)' /\ (s.activity = "Finding" => q'.activity = "Finding")
         /\ daemon' \in [up : BOOLEAN, q : QueueStates]
         /\ Playable(daemon'.q) /\ daemon'.up
         /\ conn' = "live" /\ seen' = TRUE /\ borrowed' = FALSE
         /\ news' \in BOOLEAN /\ lost' \in BOOLEAN
         /\ (lost \/ InStep)'
<1>0. PICK taken \in TakenForNoted(d) :
        /\ daemon' = [daemon EXCEPT !.q = Reconciled(s, d, taken)]
        /\ q' = Uncounted(CursorApplied(s, Reconciled(s, d, taken)))
        /\ lost' = (taken /\ (lost \/ borrowed))
  BY DEF Succeeds
<1>a. taken \in BOOLEAN
  BY DEF TakenForNoted, Typed
<1> DEFINE after == Reconciled(s, d, taken)
<1>1. Playable(after) /\ after \in QueueStates /\ CursorInRange(after)
  BY ReassertedPlayable DEF Reconciled, Playable, Sound
<1>2. /\ conn' = "live" /\ seen' = TRUE /\ borrowed' = FALSE
      /\ lost' \in BOOLEAN /\ news' \in BOOLEAN
  BY <1>0, <1>a DEF Succeeds, News, Noted, Typed
<1>3. daemon.up
  BY DEF Succeeds, Reaches, Typed
<1>4. daemon' = [daemon EXCEPT !.q = after]
  BY <1>0
<1>5. q' = Uncounted(CursorApplied(s, after))
  BY <1>0
<1>6. lost' \/ after.queue = s.queue
  <2>1. CASE taken /\ d.queue # s.queue /\ ~lost /\ ~borrowed
    <3>1. d.queue = daemon.q.queue /\ seen
      BY <2>1 DEF TakenForNoted, Typed
    <3>2. daemon.q.queue = q.queue
      BY <1>3, <2>1, <3>1 DEF VersionVouches
    <3> QED
      BY <2>1, <3>1, <3>2
  <2>2. CASE taken /\ (lost \/ borrowed)
    BY <1>0, <2>2
  <2>3. CASE ~taken \/ d.queue = s.queue
    BY <2>3, ReassertedPlayable DEF Reconciled
  <2> QED
    BY <1>a, <2>1, <2>2, <2>3
<1> HIDE DEF after
<1>7. /\ daemon' \in [up : BOOLEAN, q : QueueStates]
      /\ daemon'.q = after /\ daemon'.up
  BY <1>1, <1>3, <1>4 DEF Typed
<1>8. Sound(TRUE, after)
  BY <1>1 DEF Playable
<1>9. /\ Sound(TRUE, q') /\ q'.queue = s.queue /\ q'.status = after.status
      /\ after.position <= Len(s.queue) => q'.position = after.position
      /\ s.activity = "Finding" => q'.activity = "Finding"
  BY <1>5, <1>8, CursorTaken
<1>10. lost' \/ InStep'
  <2>1. after.position <= Len(after.queue)
    BY <1>1 DEF CursorInRange, QueueStates
  <2> QED
    BY <1>6, <1>7, <1>9, <2>1 DEF InStep
<1> QED
  BY <1>1, <1>2, <1>7, <1>9, <1>10

\* When the connection breaks, whatever the daemon was left with is news, or
\* nothing happened to it; and a version that still vouches, vouches for the
\* queue it vouched for.
LEMMA BreaksStep ==
  ASSUME Typed, NEW halves, \A d \in halves : Playable(d), NEW left,
         Breaks(halves, left)
  PROVE  /\ daemon' \in [up : BOOLEAN, q : QueueStates]
         /\ Playable(daemon'.q) /\ daemon'.up = daemon.up
         /\ conn' \in {"none", "live", "dead"} /\ (conn' = "live" => daemon.up)
         /\ news' \in BOOLEAN /\ seen' \in BOOLEAN
         /\ seen' => daemon.up /\ (borrowed \/ (seen /\ daemon'.q.queue = daemon.q.queue))
         /\ borrowed' = borrowed /\ (daemon' = daemon \/ news' \/ idle.on # "this")
<1>0. daemon \in [up : BOOLEAN, q : QueueStates] /\ Playable(daemon.q)
  BY DEF Typed, Playable
<1>1. CASE ~Reaches /\ UNCHANGED <<daemon, news, version, faults>>
           /\ conn' = IF left THEN conn ELSE "none"
  <2>1. /\ daemon' = daemon /\ news' = news /\ seen' = seen /\ borrowed' = borrowed
        /\ conn' \in {conn, "none"}
    BY <1>1 DEF version
  <2> QED
    BY <1>0, <2>1 DEF Typed
<1>2. CASE /\ Reaches
           /\ \E d \in halves :
                daemon' = [daemon EXCEPT !.q = d] /\ seen' \in TakenForNoted(d)
           /\ News /\ UNCHANGED borrowed
           /\ conn' = IF left THEN "dead" ELSE "none"
  <2>1. PICK d \in halves :
          daemon' = [daemon EXCEPT !.q = d] /\ seen' \in TakenForNoted(d)
    BY <1>2
  <2>2. d \in QueueStates /\ Playable(d)
    BY DEF Playable, Sound
  <2>3. /\ daemon' \in [up : BOOLEAN, q : QueueStates]
        /\ daemon'.q = d /\ daemon'.up = daemon.up
    BY <1>0, <2>1, <2>2
  <2>4. news' \in BOOLEAN /\ (daemon' = daemon \/ news' \/ idle.on # "this")
    BY <1>2 DEF News, Typed
  <2>5. seen' \in BOOLEAN /\ (seen' => borrowed \/ (seen /\ d.queue = daemon.q.queue))
    BY <2>1 DEF TakenForNoted, Typed
  <2>6. conn' \in {"none", "dead"} /\ daemon.up /\ borrowed' = borrowed
    BY <1>2 DEF Reaches, Typed
  <2> QED
    BY <2>2, <2>3, <2>4, <2>5, <2>6
<1> QED
  BY <1>1, <1>2 DEF Breaks

LEMMA ReadsStep ==
  ASSUME Typed, VersionVouches, Reads
  PROVE  /\ Sound(TRUE, q)' /\ (q.activity = "Finding" => q'.activity = "Finding")
         /\ daemon' \in [up : BOOLEAN, q : QueueStates]
         /\ Playable(daemon'.q) /\ daemon'.up
         /\ conn' = "live" /\ seen' = TRUE /\ borrowed' = FALSE
         /\ news' \in BOOLEAN /\ lost' \in BOOLEAN
         /\ (lost \/ InStep)'
<1>1. Sound(TRUE, q) /\ Playable(daemon.q)
  BY DEF Typed, Playable
<1>2. Succeeds(q, daemon.q)
  BY DEF Reads
<1> DEFINE copy == daemon.q
<1>3. /\ Playable(copy) /\ Succeeds(q, copy)
      /\ daemon.q.queue = q.queue /\ copy.queue = daemon.q.queue => q.queue = copy.queue
  BY <1>1, <1>2
<1> HIDE DEF copy
<1> QED
  BY <1>1, <1>3, SucceedsStep

LEMMA ReadBreaksStep ==
  ASSUME Typed, NEW left, ReadBreaks(left)
  PROVE  /\ UNCHANGED <<q, lost>>
         /\ daemon' \in [up : BOOLEAN, q : QueueStates]
         /\ Playable(daemon'.q) /\ daemon'.up = daemon.up
         /\ conn' \in {"none", "live", "dead"} /\ (conn' = "live" => daemon.up)
         /\ news' \in BOOLEAN /\ seen' \in BOOLEAN
         /\ seen' => daemon.up /\ (borrowed \/ (seen /\ daemon'.q.queue = daemon.q.queue))
         /\ borrowed' = borrowed /\ (daemon' = daemon \/ news' \/ idle.on # "this")
<1> DEFINE halves == Halfway(Reconciled(q, daemon.q, seen))
<1>1. Playable(daemon.q) /\ Playable(Reasserted(q)) /\ <<>> \in Seq(Item)
  BY ReassertedPlayable, EmptySeq DEF Typed, Playable
<1>2. Playable(Loaded(daemon.q, <<>>))
  BY <1>1, LoadedPlayable
<1>3. \A d \in halves : Playable(d)
  BY <1>1, <1>2 DEF Halfway, Reconciled
<1>4. Breaks(halves, left) /\ UNCHANGED <<q, lost>>
  BY DEF ReadBreaks
<1> HIDE DEF halves
<1> QED
  BY <1>3, <1>4, BreaksStep

\* A broken step keeps the invariant if nobody is told that all is well.
LEMMA BrokenSuffices ==
  ASSUME IInv, Typed', daemon' = daemon \/ news' \/ idle.on # "this",
         borrowed' = borrowed,
         seen' => daemon.up /\ (borrowed \/ (seen /\ daemon'.q.queue = daemon.q.queue)),
         lost' \/ (~lost /\ q'.queue = q.queue),
         \/ ~online' \/ idle'.at # "watching" \/ lost'
         \/ q' = q /\ idle' = idle /\ online' = online
              /\ (news => news' \/ idle.on # "this")
  PROVE  IInv'
<1>1. VersionVouches'
  BY DEF IInv, VersionVouches
<1>2. QuietMeansInStep'
  BY DEF IInv, QuietMeansInStep, SameCursor
<1> QED
  BY <1>1, <1>2 DEF IInv

-----------------------------------------------------------------------------
(* One step per action. *)

LEMMA InitInvariant == Init => IInv
<1> SUFFICES ASSUME Init PROVE IInv
  OBVIOUS
<1>1. ASSUME NEW batch \in Batches, NEW position \in Nat
      PROVE  LET s == Saved(batch, position)
             IN Playable(s) /\ s.queue = batch /\ s \in QueueStates
  <2> DEFINE row == [Playback(EmptyQueue) EXCEPT !.position = position,
                                                 !.status = "Paused"]
  <2>1. batch \in Seq(Item)
    BY CommandsAssumption, SeqMonotonic DEF Item
  <2>2. row \in PlaybackRows
    BY EmptySeq DEF Playback, EmptyQueue, PlaybackRows, Status, Repeat
  <2> HIDE DEF row
  <2>3. Sound(TRUE, Restored([playback |-> row, items |-> batch]))
    BY <2>1, <2>2, RestoredSound
  <2>4. Saved(batch, position) = Restored([playback |-> row, items |-> batch])
    <3>1. [playback |-> row, items |-> batch] = [items |-> batch, playback |-> row]
      OBVIOUS
    <3> QED
      BY <3>1, Zenon DEF Saved, row
  <2>5. /\ NoRefill(Restored([playback |-> row, items |-> batch]))
        /\ Restored([playback |-> row, items |-> batch]).queue = batch
    BY DEF Restored, NoRefill, EmptyQueue
  <2> QED
    BY <2>3, <2>4, <2>5 DEF Playable, Sound
<1>2. Playable(EmptyQueue) /\ EmptyQueue \in QueueStates
  BY EmptyQueueSound DEF Playable, Sound
<1>3. CASE RestoreSaved
  <2>1. PICK batch \in Batches, up \in BOOLEAN :
          /\ q = Saved(batch, Len(batch))
          /\ seen = up /\ conn = (IF up THEN "live" ELSE "none")
          /\ daemon = [up |-> up, q |-> IF up THEN Loaded(EmptyQueue, batch)
                                        ELSE EmptyQueue]
    BY <1>3 DEF RestoreSaved
  <2>2. batch \in Seq(Item) /\ Len(batch) \in Nat
    BY CommandsAssumption, SeqMonotonic, LenProperties DEF Item
  <2>3. Playable(q) /\ q.queue = batch
    BY <1>1, <2>1, <2>2
  <2>4. Playable(Loaded(EmptyQueue, batch)) /\ Loaded(EmptyQueue, batch).queue = batch
    BY <1>2, <2>2, LoadedPlayable
  <2>5. Playable(daemon.q) /\ daemon.up = up /\ (up => daemon.q.queue = batch)
    BY <1>2, <2>1, <2>4
  <2>6. daemon \in [up : BOOLEAN, q : QueueStates]
    BY <1>2, <2>1, <2>4 DEF Playable, Sound
  <2>7. Typed
    BY <2>1, <2>3, <2>5, <2>6 DEF Init, Typed, Loops, Playable
  <2> QED
    BY <2>1, <2>3, <2>5, <2>7 DEF Init, IInv, VersionVouches, QuietMeansInStep
<1>4. CASE AdoptDaemon
  <2>1. PICK batch \in Batches :
          /\ q = [Saved(batch, 1) EXCEPT !.status = "Playing"]
          /\ seen = TRUE /\ conn = "live"
          /\ daemon = [up |-> TRUE, q |-> q]
    BY <1>4 DEF AdoptDaemon
  <2>2. Playable(Saved(batch, 1))
    BY <1>1
  <2>3. Playable(q)
    BY <2>1, <2>2, FlagsPlayable DEF Status
  <2>4. daemon \in [up : BOOLEAN, q : QueueStates] /\ daemon.q = q /\ daemon.up
    BY <2>1, <2>3 DEF Playable, Sound
  <2>5. Typed
    BY <2>1, <2>3, <2>4 DEF Init, Typed, Loops, Playable
  <2> QED
    BY <2>4, <2>5 DEF Init, IInv, VersionVouches, QuietMeansInStep
<1> QED
  BY <1>3, <1>4 DEF Init

LEMMA ExecuteStep ==
  ASSUME IInv, NEW command \in Commands, Execute(command)
  PROVE  IInv'
<1>1. PICK arg \in Arguments(command) : \E s \in Edited(command, arg) :
                                          Carried(s, command, arg)
  BY DEF Execute
<1>2. PICK s \in Edited(command, arg) : Carried(s, command, arg)
  BY <1>1
<1>3. command \in PlayerCommand /\ Typed /\ VersionVouches
  BY MpdAssumption DEF IInv
<1>4. /\ Sound(TRUE, s)
      /\ q.activity = "Finding" /\ command \notin CancelsAutoplayRefill =>
              s.activity = "Finding"
      /\ Deferred(command) => s = q
  BY <1>3, EditedSound
<1>5. /\ lookup' \in {"none", "current", "stale"}
      /\ lookup' = "current" => lookup = "current" /\ s.activity = "Finding"
  BY <1>3, <1>4 DEF Execute, Typed
<1>6. UNCHANGED idle
  BY DEF Execute
<1>7. CASE \E d \in Obeyed(s, command, arg) : Succeeds(s, d)
  <2>1. PICK d \in Obeyed(s, command, arg) : Succeeds(s, d)
    BY <1>7
  <2>2. Playable(d)
    BY <1>3, <1>4, ObeyedPlayable
  <2>3. daemon.q.queue = q.queue /\ d.queue = daemon.q.queue => s.queue = d.queue
    BY <1>3, CopiesAgree
  <2>4. /\ Sound(TRUE, q)' /\ (s.activity = "Finding" => q'.activity = "Finding")
        /\ daemon' \in [up : BOOLEAN, q : QueueStates]
        /\ Playable(daemon'.q) /\ daemon'.up
        /\ conn' = "live" /\ seen' = TRUE /\ borrowed' = FALSE
        /\ news' \in BOOLEAN /\ lost' \in BOOLEAN
        /\ (lost \/ InStep)'
    BY <1>3, <1>4, <2>1, <2>2, <2>3, SucceedsStep
  <2>5. Typed'
    BY <1>3, <1>5, <1>6, <2>4 DEF Typed, Playable
  <2> QED
    BY <2>4, <2>5, InStepSuffices
<1>8. CASE /\ \/ Breaks({daemon.q, Loaded(daemon.q, <<>>)} \cup Obeyed(s, command, arg), FALSE)
              \/ Reaches /\ conn' = "none" /\ UNCHANGED <<daemon, news, version, faults>>
           /\ q' = Uncounted(s) /\ online' = FALSE
           /\ lost' = (lost \/ s.queue # q.queue)
  <2> DEFINE halves == {daemon.q, Loaded(daemon.q, <<>>)} \cup Obeyed(s, command, arg)
  <2>1. /\ daemon' \in [up : BOOLEAN, q : QueueStates]
        /\ Playable(daemon'.q) /\ daemon'.up = daemon.up
        /\ conn' \in {"none", "live", "dead"} /\ (conn' = "live" => daemon.up)
        /\ news' \in BOOLEAN /\ seen' \in BOOLEAN
        /\ seen' => daemon.up /\ (borrowed \/ (seen /\ daemon'.q.queue = daemon.q.queue))
        /\ borrowed' = borrowed /\ (daemon' = daemon \/ news' \/ idle.on # "this")
    <3>1. CASE Breaks(halves, FALSE)
      <4>1. Playable(daemon.q) /\ Playable(Loaded(daemon.q, <<>>))
        BY <1>3, EmptySeq, LoadedPlayable DEF Typed, Playable
      <4>2. \A d \in halves : Playable(d)
        BY <1>3, <1>4, <4>1, ObeyedPlayable
      <4> HIDE DEF halves
      <4> QED
        BY <1>3, <3>1, <4>2, BreaksStep
    <3>2. CASE Reaches /\ conn' = "none" /\ UNCHANGED <<daemon, news, version, faults>>
      <4>1. daemon' = daemon /\ news' = news /\ seen' = seen /\ borrowed' = borrowed
        BY <3>2 DEF version
      <4> QED
        BY <1>3, <3>2, <4>1 DEF Typed, Playable
    <3> QED
      BY <1>8, <3>1, <3>2
  <2>2. /\ Sound(TRUE, Uncounted(s)) /\ Uncounted(s).queue = s.queue
        /\ Uncounted(s).activity = s.activity
    BY <1>4, UncountedSound DEF Uncounted, Sound, QueueStates
  <2>3. Sound(TRUE, q)' /\ q'.queue = s.queue /\ q'.activity = s.activity
    BY <1>8, <2>2
  <2>4. lost' \in BOOLEAN /\ (lost' \/ (~lost /\ q'.queue = q.queue))
    BY <1>3, <1>8, <2>3 DEF Typed
  <2>5. Typed'
    BY <1>3, <1>5, <1>6, <2>1, <2>3, <2>4 DEF Typed, Playable
  <2>6. ~online'
    BY <1>8
  <2> QED
    BY <2>1, <2>4, <2>5, <2>6, BrokenSuffices
<1> QED
  BY <1>2, <1>7, <1>8 DEF Carried

LEMMA BeginStep == IInv /\ BeginAutoplayRefill => IInv'
<1> SUFFICES ASSUME IInv, BeginAutoplayRefill PROVE IInv'
  OBVIOUS
<1>1. /\ Sound(TRUE, BeginRefill(q))
      /\ BeginRefill(q).queue = q.queue /\ BeginRefill(q).position = q.position
      /\ BeginRefill(q).status = q.status /\ BeginRefill(q).activity = "Finding"
  BY BeginRefillSound DEF BeginAutoplayRefill, IInv, Typed, BeginRefill, Sound,
                          QueueStates
<1>2. /\ Sound(TRUE, q)' /\ q'.queue = q.queue /\ q'.position = q.position
      /\ q'.status = q.status /\ q'.activity = "Finding"
  BY <1>1 DEF BeginAutoplayRefill
<1>3. /\ UNCHANGED <<online, conn, idle, seen, borrowed, daemon, news, lost>>
      /\ lookup' = "current"
  BY DEF BeginAutoplayRefill, version
<1> QED
  BY <1>2, <1>3 DEF IInv, Typed, VersionVouches, QuietMeansInStep, SameCursor

\* The daemon's queue with the tracks found, played from where the refill
\* resumes.
LEMMA ExtendedPlayable ==
  ASSUME Typed, NEW items \in Seq(Item), NEW d \in Extended(items)
  PROVE  Playable(d) /\ d.queue = daemon.q.queue \o items
<1> DEFINE copy == daemon.q
           longer == copy.queue \o items
           grown == [copy EXCEPT !.queue = longer]
<1>1. Playable(copy) /\ copy \in QueueStates /\ NoRefill(copy) /\ Sound(TRUE, copy)
      /\ copy.position \in 0..Len(copy.queue) /\ copy.queue \in Seq(Item)
  BY DEF Typed, Playable, Sound, CursorInRange, QueueStates
<1>2. d = grown \/ \E from \in Nat : d = PlayIndex(grown, from)
  <2>1. Len(grown.queue) \in Nat
    BY <1>1 DEF QueueStates
  <2> QED
    BY <2>1 DEF Extended
<1>3. /\ longer \in Seq(Item) /\ copy.position \in 0..Len(longer)
      /\ 0 \in 0..Len(longer) /\ "Stopped" \in Status
  BY <1>1, ConcatProperties DEF Status
<1> HIDE DEF copy, longer
<1>4. Sound(TRUE, grown)
  BY <1>1, <1>3, EditSound
<1>5. Playable(grown) /\ grown.queue = longer
  BY <1>1, <1>4 DEF Playable, NoRefill, QueueStates
<1> HIDE DEF grown
<1>6. Playable(d) /\ d.queue = longer
  BY <1>2, <1>5, PlayedPlayable
<1> QED
  BY <1>6 DEF copy, longer

LEMMA FinishStep == IInv /\ FinishAutoplayRefill => IInv'
<1> SUFFICES ASSUME IInv, FinishAutoplayRefill PROVE IInv'
  OBVIOUS
<1>1. Typed /\ VersionVouches /\ lookup' = "none" /\ UNCHANGED <<online, idle>>
  BY DEF IInv, FinishAutoplayRefill
<1>2. CASE DropsResult
  BY <1>1, <1>2 DEF DropsResult, version, IInv, Typed, VersionVouches, QuietMeansInStep,
     SameCursor
<1>3. ASSUME NEW items \in Found, AddsFound(items) PROVE IInv'
  <2> DEFINE s == FinishRefill(q, items)
  <2>1. items \in Seq(Item) /\ q.activity # "None" /\ Sound(TRUE, q) /\ q \in QueueStates
    BY <1>1, <1>3, MpdAssumption, SeqMonotonic DEF AddsFound, Typed, Item, Sound
  <2>2. Sound(TRUE, s)
    BY <2>1, FinishRefillSound
  <2>3. CASE items = <<>> /\ q' = s /\ UNCHANGED <<conn, version, daemon, news, lost, faults>>
    <3>1. s.queue = q.queue /\ s.position = q.position /\ s.status = q.status
      BY <2>1, <2>3 DEF FinishRefill, QueueStates
    <3>2. Sound(TRUE, q)' /\ q'.queue = q.queue /\ q'.position = q.position
          /\ q'.status = q.status
      BY <2>2, <2>3, <3>1
    <3>3. UNCHANGED <<conn, seen, borrowed, daemon, news, lost>>
      BY <2>3 DEF version
    <3> HIDE DEF s
    <3> QED
      BY <1>1, <3>2, <3>3 DEF IInv, Typed, VersionVouches, QuietMeansInStep, SameCursor
  <2>4. CASE /\ items # <<>> /\ Reaches /\ conn' = "live"
             /\ \E d \in Extended(items) :
                  daemon' = [daemon EXCEPT !.q = d] /\ q' = Uncounted(CursorApplied(s, d))
             /\ News /\ Noted /\ lost' = (lost \/ ~seen \/ borrowed)
    <3>1. PICK d \in Extended(items) :
            daemon' = [daemon EXCEPT !.q = d] /\ q' = Uncounted(CursorApplied(s, d))
      BY <2>4
    <3>2. Playable(d) /\ d.queue = daemon.q.queue \o items
      BY <1>1, <2>1, ExtendedPlayable
    <3>3. daemon.up /\ daemon \in [up : BOOLEAN, q : QueueStates]
      BY <1>1, <2>4 DEF Reaches, Typed
    <3>4. d \in QueueStates /\ Sound(TRUE, d) /\ d.position <= Len(d.queue)
      <4>1. Sound(TRUE, d) /\ d \in QueueStates
        BY <3>2 DEF Playable, Sound
      <4>2. Len(d.queue) \in Nat
        BY <4>1, LenProperties DEF QueueStates
      <4>3. d.position \in 0..Len(d.queue)
        BY <3>2 DEF Playable, Sound, CursorInRange
      <4>4. d.position <= Len(d.queue)
        BY <4>2, <4>3
      <4> QED
        BY <4>1, <4>4
    <3>5. daemon' \in [up : BOOLEAN, q : QueueStates] /\ daemon'.up /\ daemon'.q = d
      BY <3>1, <3>3, <3>4
    <3>6. s.queue = q.queue \o items
      BY <2>1, <2>4 DEF FinishRefill, QueueStates
    <3> HIDE DEF s
    <3>7. /\ Sound(TRUE, q)' /\ q'.queue = s.queue /\ q'.status = d.status
          /\ d.position <= Len(s.queue) => q'.position = d.position
      BY <2>2, <3>1, <3>4, CursorTaken
    <3>8. lost' \in BOOLEAN /\ news' \in BOOLEAN
      BY <1>1, <2>4 DEF Typed, News
    <3>9. Typed'
      BY <1>1, <2>4, <3>2, <3>5, <3>7, <3>8 DEF Typed, Playable, Noted
    <3>10. lost' \/ daemon.q.queue = q.queue
      BY <1>1, <2>4, <3>3 DEF VersionVouches, Typed
    <3>11. (lost \/ InStep)'
      BY <3>2, <3>4, <3>5, <3>6, <3>7, <3>10 DEF InStep
    <3> QED
      BY <3>9, <3>11, InStepSuffices
  <2>5. CASE /\ items # <<>> /\ q' = s /\ lost' = TRUE
             /\ \/ Breaks({daemon.q} \cup Extended(items), TRUE)
                \/ /\ Reaches /\ conn' = "live"
                   /\ daemon' = [daemon EXCEPT !.q.queue = @ \o items] /\ News
                   /\ seen' \in TakenForNoted(daemon'.q) /\ UNCHANGED borrowed
    <3> HIDE DEF s
    <3>1. Sound(TRUE, q)' /\ lost'
      BY <2>2, <2>5
    <3>2. CASE Breaks({daemon.q} \cup Extended(items), TRUE)
      <4> DEFINE halves == {daemon.q} \cup Extended(items)
      <4>1. \A d \in halves : Playable(d)
        BY <1>1, <2>1, ExtendedPlayable DEF Typed, Playable
      <4> HIDE DEF halves
      <4>2. /\ daemon' \in [up : BOOLEAN, q : QueueStates]
            /\ Playable(daemon'.q) /\ daemon'.up = daemon.up
            /\ conn' \in {"none", "live", "dead"} /\ (conn' = "live" => daemon.up)
            /\ news' \in BOOLEAN /\ seen' \in BOOLEAN
            /\ seen' => daemon.up /\ (borrowed \/ (seen /\ daemon'.q.queue = daemon.q.queue))
            /\ borrowed' = borrowed /\ (daemon' = daemon \/ news' \/ idle.on # "this")
        BY <1>1, <3>2, <4>1, BreaksStep DEF halves
      <4>3. Typed'
        BY <1>1, <3>1, <2>5, <4>2 DEF Typed, Playable
      <4> QED
        BY <3>1, <4>3, InStepSuffices
    <3>3. CASE /\ Reaches /\ conn' = "live"
               /\ daemon' = [daemon EXCEPT !.q.queue = @ \o items] /\ News
               /\ seen' \in TakenForNoted(daemon'.q) /\ UNCHANGED borrowed
      <4> DEFINE copy == daemon.q
                 longer == copy.queue \o items
                 grown == [copy EXCEPT !.queue = longer]
      <4>1. copy \in QueueStates /\ NoRefill(copy) /\ Sound(TRUE, copy)
            /\ copy.position \in 0..Len(copy.queue) /\ copy.queue \in Seq(Item)
            /\ daemon.up /\ daemon \in [up : BOOLEAN, q : QueueStates]
        BY <1>1, <3>3 DEF Typed, Sound, CursorInRange, QueueStates, Reaches
      <4>2. /\ longer \in Seq(Item) /\ copy.position \in 0..Len(longer)
            /\ 0 \in 0..Len(longer) /\ "Stopped" \in Status
        BY <2>1, <4>1, ConcatProperties DEF Status
      <4>3. daemon' = [daemon EXCEPT !.q = grown]
        BY <3>3, <4>1 DEF QueueStates
      <4> HIDE DEF copy, longer
      <4>4. Sound(TRUE, grown)
        BY <4>1, <4>2, EditSound
      <4>5. NoRefill(grown)
        BY <4>1 DEF NoRefill, QueueStates
      <4> HIDE DEF grown
      <4>6. daemon' \in [up : BOOLEAN, q : QueueStates] /\ daemon'.q = grown /\ daemon'.up
        BY <4>1, <4>3, <4>4 DEF Sound
      <4>7. news' \in BOOLEAN /\ seen' \in BOOLEAN /\ borrowed' \in BOOLEAN
        BY <1>1, <3>3 DEF News, TakenForNoted, Typed
      <4>8. Typed'
        BY <1>1, <3>1, <3>3, <2>5, <4>4, <4>5, <4>6, <4>7 DEF Typed
      <4> QED
        BY <3>1, <4>8, InStepSuffices
    <3> QED
      BY <2>5, <3>2, <3>3
  <2> QED
    BY <1>3, <2>3, <2>4, <2>5 DEF AddsFound
<1> QED
  BY <1>2, <1>3 DEF FinishAutoplayRefill

\* Whoever looks: the answer puts both in step, or there was none.
LEMMA LookStep ==
  ASSUME IInv, UNCHANGED lookup,
         idle' \in Loops,
         \/ Reads
         \/ \E left : ReadBreaks(left) /\ \/ ~online' \/ idle'.at # "watching"
                                          \/ UNCHANGED <<idle, online>>
  PROVE  IInv'
<1>1. Typed /\ VersionVouches
  BY DEF IInv
<1>2. CASE Reads
  <2>1. /\ Sound(TRUE, q)' /\ (q.activity = "Finding" => q'.activity = "Finding")
        /\ daemon' \in [up : BOOLEAN, q : QueueStates]
        /\ Playable(daemon'.q) /\ daemon'.up
        /\ conn' = "live" /\ seen' = TRUE /\ borrowed' = FALSE
        /\ news' \in BOOLEAN /\ lost' \in BOOLEAN
        /\ (lost \/ InStep)'
    BY <1>1, <1>2, ReadsStep
  <2>2. Typed'
    BY <1>1, <2>1 DEF Typed, Playable
  <2> QED
    BY <2>1, <2>2, InStepSuffices
<1>3. ASSUME NEW left, ReadBreaks(left), \/ ~online' \/ idle'.at # "watching"
                                         \/ UNCHANGED <<idle, online>>
      PROVE  IInv'
  <2>1. /\ UNCHANGED <<q, lost>>
        /\ daemon' \in [up : BOOLEAN, q : QueueStates]
        /\ Playable(daemon'.q) /\ daemon'.up = daemon.up
        /\ conn' \in {"none", "live", "dead"} /\ (conn' = "live" => daemon.up)
        /\ news' \in BOOLEAN /\ seen' \in BOOLEAN
        /\ seen' => daemon.up /\ (borrowed \/ (seen /\ daemon'.q.queue = daemon.q.queue))
        /\ borrowed' = borrowed /\ (daemon' = daemon \/ news' \/ idle.on # "this")
    BY <1>1, <1>3, ReadBreaksStep
  <2>2. news => news' \/ idle.on # "this"
    BY <1>3 DEF ReadBreaks, Breaks, News
  <2>3. Typed' /\ lost \in BOOLEAN
    BY <1>1, <2>1 DEF Typed, Playable
  <2> QED
    BY <1>3, <2>1, <2>2, <2>3, BrokenSuffices
<1> QED
  BY <1>2, <1>3

LEMMA StateStep == IInv /\ State => IInv'
<1> SUFFICES ASSUME IInv, State PROVE IInv'
  OBVIOUS
<1>1. UNCHANGED <<idle, lookup>> /\ idle \in Loops
  BY DEF State, IInv, Typed
<1>2. Reads \/ (ReadBreaks(FALSE) /\ ~online')
  BY DEF State
<1> QED
  BY <1>1, <1>2, LookStep

LEMMA PollStep == IInv /\ Poll => IInv'
<1> SUFFICES ASSUME IInv, Poll PROVE IInv'
  OBVIOUS
<1>1. UNCHANGED <<idle, lookup, online>>
      /\ idle \in Loops
  BY DEF Poll, IInv, Typed
<1>2. Reads \/ ReadBreaks(TRUE)
  BY DEF Poll
<1> QED
  BY <1>1, <1>2, LookStep

LEMMA GreetStep == IInv /\ Greet => IInv'
<1> SUFFICES ASSUME IInv, Greet PROVE IInv'
  OBVIOUS
<1>1. UNCHANGED lookup
      /\ idle' \in Loops
  BY DEF Greet, IInv, Typed, Loops
<1>2. Reads \/ (ReadBreaks(FALSE) /\ ~online')
  BY DEF Greet
<1> QED
  BY <1>1, <1>2, LookStep

LEMMA ArriveStep == IInv /\ Arrive => IInv'
<1> SUFFICES ASSUME IInv, Arrive PROVE IInv'
  OBVIOUS
<1>1. /\ Typed /\ VersionVouches
      /\ UNCHANGED <<q, lookup>> /\ idle' = [idle EXCEPT !.at = "greeting"]
  BY DEF IInv, Arrive
<1>2. idle' \in Loops
      /\ idle'.at = "greeting"
  BY <1>1 DEF Typed, Loops
<1>3. /\ Playable(Reasserted(q)) /\ Reasserted(q).queue = q.queue
      /\ Playable(daemon.q) /\ <<>> \in Seq(Item) /\ daemon \in [up : BOOLEAN, q : QueueStates]
  BY <1>1, ReassertedPlayable, EmptySeq DEF Typed, Playable
<1>4. CASE /\ Reaches /\ conn' = "live"
           /\ daemon' = [daemon EXCEPT !.q = Reasserted(q)] /\ News
           /\ Noted /\ lost' = FALSE
  <2>1. Reasserted(q) \in QueueStates
    BY <1>3 DEF Playable, Sound
  <2>2. daemon' \in [up : BOOLEAN, q : QueueStates] /\ daemon'.q = Reasserted(q)
    BY <1>3, <1>4, <2>1
  <2>3. daemon'.up
    BY <1>1, <1>3, <1>4 DEF Reaches, Typed
  <2>4. news' \in BOOLEAN
    BY <1>1, <1>4 DEF News, Typed
  <2>5. Typed'
    BY <1>1, <1>2, <1>3, <1>4, <2>2, <2>3, <2>4 DEF Typed, Playable, Noted
  <2> QED
    BY <1>1, <1>2, <1>3, <2>2, <2>5 DEF IInv, VersionVouches, QuietMeansInStep
<1>5. CASE Breaks({daemon.q, Loaded(daemon.q, <<>>), Reasserted(q)}, TRUE) /\ UNCHANGED lost
  <2> DEFINE halves == {daemon.q, Loaded(daemon.q, <<>>), Reasserted(q)}
  <2>1. \A d \in halves : Playable(d)
    BY <1>3, LoadedPlayable
  <2>2. Breaks(halves, TRUE)
    BY <1>5
  <2> HIDE DEF halves
  <2>3. /\ daemon' \in [up : BOOLEAN, q : QueueStates]
        /\ Playable(daemon'.q) /\ daemon'.up = daemon.up
        /\ conn' \in {"none", "live", "dead"} /\ (conn' = "live" => daemon.up)
        /\ news' \in BOOLEAN /\ seen' \in BOOLEAN
        /\ seen' => daemon.up /\ (borrowed \/ (seen /\ daemon'.q.queue = daemon.q.queue))
        /\ borrowed' = borrowed /\ (daemon' = daemon \/ news' \/ idle.on # "this")
    BY <1>1, <2>1, <2>2, BreaksStep
  <2>4. Typed' /\ lost \in BOOLEAN
    BY <1>1, <1>2, <1>5, <2>3 DEF Typed, Playable
  <2>5. lost' \/ (~lost /\ q'.queue = q.queue)
    BY <1>1, <1>5, <2>4
  <2>6. idle'.at # "watching"
    BY <1>2
  <2> QED
    BY <2>3, <2>4, <2>5, <2>6, BrokenSuffices
<1> QED
  BY <1>4, <1>5 DEF Arrive

LEMMA HearStep == IInv /\ Hear => IInv'
<1> SUFFICES ASSUME IInv, Hear PROVE IInv'
  OBVIOUS
<1>1. Typed /\ VersionVouches /\ UNCHANGED lookup
  BY DEF IInv, Hear
<1> DEFINE after == Reconciled(q, daemon.q, seen)
<1>2. CASE /\ Reaches /\ conn' = "live"
           /\ daemon' = [daemon EXCEPT !.q = after]
           /\ q' = Uncounted(CursorApplied(q, after))
           /\ news' = (after # daemon.q)
           /\ Noted /\ lost' = (seen /\ (lost \/ borrowed))
           /\ UNCHANGED <<idle, online>>
  <2>1. Playable(after) /\ after \in QueueStates /\ CursorInRange(after)
    BY <1>1, ReassertedPlayable DEF Reconciled, Playable, Sound, Typed
  <2>2. daemon.up /\ daemon \in [up : BOOLEAN, q : QueueStates]
    BY <1>1, <1>2 DEF Reaches, Typed
  <2>3. lost' \/ after.queue = q.queue
    <3>1. CASE seen /\ ~lost /\ ~borrowed
      BY <1>1, <2>2, <3>1, ReassertedPlayable DEF VersionVouches, Reconciled
    <3>2. CASE seen /\ (lost \/ borrowed)
      BY <1>2, <3>2
    <3>3. CASE ~seen
      BY <1>1, <3>3, ReassertedPlayable DEF Reconciled, Typed
    <3> QED
      BY <1>1, <3>1, <3>2, <3>3 DEF Typed
  <2>4. news' \in BOOLEAN /\ lost' \in BOOLEAN
    BY <1>1, <1>2 DEF Typed
  <2> HIDE DEF after
  <2>5. daemon' \in [up : BOOLEAN, q : QueueStates] /\ daemon'.q = after /\ daemon'.up
    BY <1>2, <2>1, <2>2
  <2>6. Sound(TRUE, q) /\ Sound(TRUE, after)
    BY <1>1, <2>1 DEF Typed, Playable
  <2>7. /\ Sound(TRUE, q') /\ q'.queue = q.queue /\ q'.status = after.status
        /\ after.position <= Len(q.queue) => q'.position = after.position
        /\ q.activity = "Finding" => q'.activity = "Finding"
    BY <1>2, <2>6, CursorTaken
  <2>8. Typed'
    BY <1>1, <1>2, <2>1, <2>4, <2>5, <2>7 DEF Typed, Playable, Noted
  <2>9. (lost \/ InStep)'
    <3>1. after.position <= Len(after.queue)
      BY <2>1 DEF CursorInRange, QueueStates
    <3> QED
      BY <2>3, <2>5, <2>7, <3>1 DEF InStep
  <2> QED
    BY <2>8, <2>9, InStepSuffices
<1>3. CASE ReadBreaks(TRUE) /\ idle' = [at |-> "away", on |-> "none"] /\ online' = FALSE
  <2>1. idle' \in Loops
        /\ ~online'
    BY <1>3 DEF Loops
  <2> HIDE DEF after
  <2> QED
    BY <1>1, <1>3, <2>1, LookStep
<1> QED
  BY <1>2, <1>3 DEF Hear

LEMMA LoopSteps ==
  IInv /\ (Connect \/ HangUp \/ Rebind \/ LeaveFormer) => IInv'
<1> SUFFICES ASSUME IInv, Connect \/ HangUp \/ Rebind \/ LeaveFormer PROVE IInv'
  OBVIOUS
<1>1. ASSUME UNCHANGED <<q, conn, version, daemon, lookup, lost>>, news' \in BOOLEAN,
             idle' \in Loops, idle'.at # "watching"
      PROVE  IInv'
  BY <1>1 DEF version, IInv, Typed, VersionVouches, QuietMeansInStep
<1>2. CASE Connect
  BY <1>1, <1>2 DEF Connect, Loops
<1>3. CASE HangUp
  <2>1. idle' \in Loops /\ idle'.at = "away"
    BY <1>3 DEF HangUp, IInv, Typed, Loops
  <2> QED
    BY <1>1, <1>3, <2>1 DEF HangUp, IInv, Typed
<1>4. CASE LeaveFormer
  <2>1. idle' \in Loops /\ idle'.at = "away"
    BY <1>4 DEF LeaveFormer, Loops
  <2> QED
    BY <1>1, <1>4, <2>1 DEF LeaveFormer, IInv, Typed
<1>5. CASE Rebind
  <2>1. Playable(EmptyQueue) /\ EmptyQueue \in QueueStates
    BY EmptyQueueSound DEF Playable, Sound
  <2>2. daemon' \in [up : BOOLEAN, q : QueueStates] /\ daemon'.q = EmptyQueue
        /\ daemon'.up
    BY <1>5, <2>1 DEF Rebind
  <2>3. idle' \in Loops /\ idle'.on # "this"
    BY <1>5 DEF Rebind, IInv, Typed, Loops
  <2>4. /\ seen' \in BOOLEAN /\ borrowed' = TRUE /\ conn' = "none" /\ news' = FALSE
        /\ UNCHANGED <<q, lookup, lost>>
    BY <1>5 DEF Rebind
  <2>5. Typed'
    BY <2>1, <2>2, <2>3, <2>4 DEF IInv, Typed, Playable
  <2> QED
    BY <2>3, <2>4, <2>5 DEF IInv, VersionVouches, QuietMeansInStep
<1> QED
  BY <1>2, <1>3, <1>4, <1>5

\* What the daemon and the network do by themselves: the queue the version
\* vouches for stays, and the idle loop has news or no connection.
LEMMA OutsideSteps ==
  IInv /\ (TrackOver \/ EditedElsewhere \/ TagsArrive \/ Crash \/ Restart \/ TimeOut)
    => IInv'
<1> SUFFICES ASSUME IInv, \/ TrackOver \/ EditedElsewhere \/ TagsArrive
                          \/ Crash \/ Restart \/ TimeOut
             PROVE  IInv'
  OBVIOUS
<1>1. /\ Typed /\ Playable(daemon.q) /\ daemon \in [up : BOOLEAN, q : QueueStates]
      /\ lost \in BOOLEAN
  BY DEF IInv, Typed, Playable
<1>2. ASSUME Moves, NEW d, Playable(d), daemon' = [daemon EXCEPT !.q = d],
             seen' \in BOOLEAN,
             seen' => borrowed \/ (seen /\ d.queue = daemon.q.queue)
      PROVE  IInv'
  <2>1. d \in QueueStates
    BY <1>2 DEF Playable, Sound
  <2>2. /\ daemon' \in [up : BOOLEAN, q : QueueStates]
        /\ daemon'.q = d /\ daemon'.up = daemon.up /\ daemon.up
    BY <1>1, <1>2, <2>1 DEF Moves
  <2>3. UNCHANGED <<q, online, lookup, lost, conn, idle, borrowed>>
    BY <1>2 DEF Moves, Outside
  <2>4. /\ news' \in BOOLEAN /\ (daemon' = daemon \/ news' \/ idle.on # "this")
        /\ news => news' \/ idle.on # "this"
    BY <1>1, <1>2 DEF Moves, News, Typed
  <2>6. Typed'
    BY <1>1, <1>2, <2>2, <2>3, <2>4 DEF Typed, Playable
  <2>7. lost' \/ (~lost /\ q'.queue = q.queue)
    BY <1>1, <2>3
  <2> QED
    BY <1>2, <2>2, <2>3, <2>4, <2>6, <2>7, BrokenSuffices
<1>3. CASE TrackOver
  <2>1. PICK d \in Advance(daemon.q, TRUE) : daemon' = [daemon EXCEPT !.q = d]
    BY <1>3 DEF TrackOver
  <2>2. Playable(d) /\ d.queue = daemon.q.queue
    BY <1>1, AdvancePlayable
  <2> QED
    BY <1>1, <1>2, <1>3, <2>1, <2>2 DEF TrackOver, Typed
<1>4. CASE EditedElsewhere
  <2>1. PICK queue \in Foreign : daemon' = [daemon EXCEPT !.q = Loaded(@, queue)]
    BY <1>4 DEF EditedElsewhere
  <2>2. Playable(Loaded(daemon.q, queue))
    BY <1>1, MpdAssumption, LoadedPlayable
  <2>3. daemon' = [daemon EXCEPT !.q = Loaded(daemon.q, queue)]
    BY <1>1, <2>1
  <2> QED
    BY <1>2, <1>4, <2>2, <2>3 DEF EditedElsewhere, NextVersion
<1>5. CASE TagsArrive
  <2>1. /\ daemon.up /\ news' = (idle.on = "this") /\ seen' \in BOOLEAN
        /\ seen' => borrowed
        /\ UNCHANGED <<q, online, lookup, lost, daemon, conn, idle, borrowed>>
    BY <1>5 DEF TagsArrive, Outside, NextVersion
  <2>2. Typed'
    BY <1>1, <2>1 DEF Typed
  <2> QED
    BY <2>1, <2>2 DEF IInv, VersionVouches, QuietMeansInStep
<1>6. CASE Crash
  <2>1. Playable(EmptyQueue) /\ EmptyQueue \in QueueStates
    BY EmptyQueueSound DEF Playable, Sound
  <2>2. daemon' \in [up : BOOLEAN, q : QueueStates] /\ daemon'.q = EmptyQueue
        /\ ~daemon'.up
    BY <1>6, <2>1 DEF Crash
  <2>3. idle' \in Loops /\ idle'.on # "this"
    BY <1>1, <1>6 DEF Crash, Typed, Loops
  <2>4. conn' \in {"none", "dead"} /\ seen' = FALSE /\ borrowed' = TRUE /\ news' = FALSE
        /\ UNCHANGED <<q, online, lookup, lost>>
    BY <1>1, <1>6 DEF Crash, Outside, Typed
  <2>5. Typed'
    BY <1>1, <2>1, <2>2, <2>3, <2>4 DEF Typed, Playable
  <2> QED
    BY <2>3, <2>4, <2>5 DEF IInv, VersionVouches, QuietMeansInStep
<1>7. CASE Restart
  <2>1. /\ daemon' \in [up : BOOLEAN, q : QueueStates]
        /\ daemon'.q = daemon.q /\ daemon'.up /\ seen' \in BOOLEAN
        /\ seen' => borrowed
    BY <1>1, <1>7 DEF Restart, NextVersion, Typed
  <2>2. UNCHANGED <<q, online, lookup, lost, conn, idle, borrowed, news>>
    BY <1>7 DEF Restart, Outside
  <2>3. Typed'
    BY <1>1, <2>1, <2>2 DEF Typed
  <2> QED
    BY <2>1, <2>2, <2>3 DEF IInv, VersionVouches, QuietMeansInStep, SameCursor
<1>8. CASE TimeOut
  <2>1. /\ conn' = "dead"
        /\ UNCHANGED <<q, online, lookup, lost, idle, seen, borrowed, daemon, news>>
    BY <1>8 DEF TimeOut, Outside, version
  <2> QED
    BY <1>1, <2>1 DEF IInv, Typed, VersionVouches, QuietMeansInStep, SameCursor
<1> QED
  BY <1>3, <1>4, <1>5, <1>6, <1>7, <1>8

LEMMA NextInvariant == IInv /\ [Next]_vars => IInv'
<1> SUFFICES ASSUME IInv, [Next]_vars PROVE IInv'
  OBVIOUS
<1>1. CASE UNCHANGED vars
  BY <1>1 DEF vars, IInv, Typed, VersionVouches, QuietMeansInStep, SameCursor
<1>2. CASE \E command \in Commands : Execute(command)
  BY <1>2, ExecuteStep
<1>3. CASE BeginAutoplayRefill \/ FinishAutoplayRefill
  BY <1>3, BeginStep, FinishStep
<1>4. CASE State \/ Poll \/ Arrive \/ Greet \/ Hear
  BY <1>4, StateStep, PollStep, ArriveStep, GreetStep, HearStep
<1>5. CASE Connect \/ HangUp \/ Rebind \/ LeaveFormer
  BY <1>5, LoopSteps
<1>6. CASE TrackOver \/ EditedElsewhere \/ TagsArrive \/ Crash \/ Restart \/ TimeOut
  BY <1>6, OutsideSteps
<1> QED
  BY <1>1, <1>2, <1>3, <1>4, <1>5, <1>6 DEF Next

-----------------------------------------------------------------------------
(* The theorems. *)

LEMMA Invariant == Spec => []IInv
<1> QED
  BY InitInvariant, NextInvariant, PTL DEF Spec

\* Both copies of the queue have a cursor in range, whatever the daemon was
\* left with by a broken connection or another client; a command connection
\* that is alive leads to a daemon that runs; and a refill resumes just behind
\* the last item, also where a daemon that ran dry asked for it.
THEOREM TypeCorrect == Spec => []TypeOK
<1>1. IInv => TypeOK
  BY TypedMeans DEF IInv
<1> QED
  BY <1>1, Invariant, PTL

\* A version noted of the daemon as it runs vouches for its queue: where a reader
\* skips the comparison because the version is that one, the queues are the same,
\* unless an edit was lost with its connection, a refill noted the version of a
\* queue it did not compare, or the version of a daemon new to the server was
\* taken for the one noted of another.
THEOREM VersionsVouch == Spec => []VersionVouches
<1>1. IInv => VersionVouches
  BY DEF IInv
<1> QED
  BY <1>1, Invariant, PTL

\* While the idle loop waits on the player's own daemon, of which a rebind may
\* have left it in ignorance, and has nothing to hear, the queue, the cursor and
\* the status an online player shows are the daemon's, with those exceptions.
THEOREM QuietInStep == Spec => []QuietMeansInStep
<1>1. IInv => QuietMeansInStep
  BY DEF IInv
<1> QED
  BY <1>1, Invariant, PTL

\* A request for the state, a poll, the look after connecting and the reading of
\* news leave a daemon alone that has the server's queue, on whatever ground the
\* comparison was made or skipped, and also if the connection breaks on the way.
\* The load on connecting is not among them: it restarts what plays.
THEOREM LooksAreHarmless == Spec => LooksDisturbNothing
<1>1. ASSUME IInv, State \/ Poll \/ Greet \/ Hear, daemon.q.queue = q.queue
      PROVE  daemon'.q = daemon.q
  <2>1. daemon \in [up : BOOLEAN, q : QueueStates]
    BY <1>1 DEF IInv, Typed
  <2>2. \A taken : Reconciled(q, daemon.q, taken) = daemon.q
    BY <1>1 DEF Reconciled
  <2>3. \/ Reads \/ ReadBreaks(TRUE) \/ ReadBreaks(FALSE)
        \/ daemon' = [daemon EXCEPT !.q = Reconciled(q, daemon.q, seen)]
    BY <1>1 DEF State, Poll, Greet, Hear
  <2>4. ASSUME NEW left, ReadBreaks(left) PROVE daemon'.q = daemon.q
    <3>1. Breaks({daemon.q}, left)
      BY <2>2, <2>4 DEF ReadBreaks, Halfway
    <3> QED
      BY <2>1, <3>1 DEF Breaks
  <2> QED
    BY <2>1, <2>2, <2>3, <2>4 DEF Reads, Succeeds
<1>2. IInv /\ [Next]_vars =>
        [(State \/ Poll \/ Greet \/ Hear) /\ daemon.q.queue = q.queue
           => daemon'.q = daemon.q]_vars
  BY <1>1
<1> QED
  BY <1>2, Invariant, PTL DEF Spec, LooksDisturbNothing
=============================================================================
