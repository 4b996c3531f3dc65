------------------------------- MODULE Autoplay -------------------------------
(***************************************************************************)
(* Continuous play (`autoplay_loop` of main.rs): every second the loop     *)
(* spawns one job per output that has none, and a job looks up and appends *)
(* tracks when its output's queue runs short.  Meanwhile the setting is    *)
(* switched on and off, players join and leave a zone, the listener acts,  *)
(* jobs fail, and the client that switches continuous play off goes away.  *)
(*                                                                         *)
(* An output's queue is reduced to what the loop tells apart.  Instead of  *)
(* the revision its refill began at, a job has a flag, `current`, which    *)
(* every cancellation of the output clears.                                *)
(***************************************************************************)
EXTENDS Naturals

CONSTANTS Player, Zone,   \* the outputs; players move into and out of the zone
          Slow,           \* outputs whose jobs may hang for ever
          Client,         \* the requests to the setting's endpoint in progress
          ReadsMayFail,   \* whether the database may fail to read the setting
          MaxToggles,     \* bound: how often the setting is switched
          MaxActs         \* bound: how often listeners act and players move

ASSUME AutoplayAssumption ==
  /\ Player \cap Zone = {} /\ \A y, z \in Zone : y = z
  /\ Slow \subseteq Player \cup Zone
  /\ ReadsMayFail \in BOOLEAN
  /\ MaxToggles \in Nat /\ MaxActs \in Nat

Output == Player \cup Zone

VARIABLES
  enabled,    \* the stored setting
  toCancel,   \* per client, the outputs its request has still to cancel
  lost,       \* for the properties only: a request was aborted
  member,     \* players recorded as members of a zone
  moving,     \* per player, what `set_zone` does next
  q,          \* per output, its queue
  job,        \* per output, the job in flight
  pass,       \* the loop's pass over the outputs
  wasEnabled, \* what the loop read last
  asking,     \* outputs whose `next` request has read the setting as on
  toggles, acts

vars == <<enabled, toCancel, lost, member, moving, q, job, pass,
          wasEnabled, asking, toggles, acts>>

(***************************************************************************)
(* few: fewer tracks than the threshold are to come, behind a library      *)
(* track and with repeat off; awaited: playback resumes with the refill.   *)
(***************************************************************************)
Queues == [playing: BOOLEAN, few: BOOLEAN, awaited: BOOLEAN,
           activity: {"None", "Finding", "Exhausted"}, started: BOOLEAN]

Phases == {"none", "spawned", "looking", "allowed", "approved", "rejected",
           "done"}
Jobs == [phase: Phases, current: BOOLEAN]
NoJob == [phase |-> "none", current |-> FALSE]

Waiting == [mode |-> "waiting", todo |-> {}]

TypeOK ==
  /\ enabled \in BOOLEAN /\ wasEnabled \in BOOLEAN
  /\ toCancel \in [Client -> SUBSET Output]
  /\ lost \in BOOLEAN
  /\ member \in SUBSET Player
  /\ moving \in [Player -> {"no", "player", "zone", "record"}]
  /\ q \in [Output -> Queues]
  /\ job \in [Output -> Jobs]
  /\ pass \in [mode: {"waiting", "scheduling", "cancelling"},
               todo: SUBSET Output]
  /\ pass.mode = "waiting" => pass.todo = {}
  /\ asking \in SUBSET Output
  /\ toggles \in 0..MaxToggles /\ acts \in 0..MaxActs

\* The server has started: the setting, the members and the queues are those
\* of its database, what was playing is paused.
Init ==
  /\ enabled \in BOOLEAN /\ wasEnabled = TRUE
  /\ toCancel = [c \in Client |-> {}] /\ lost = FALSE
  /\ member \in SUBSET Player /\ moving = [p \in Player |-> "no"]
  /\ q \in [Output -> {s \in Queues : /\ ~s.playing /\ ~s.awaited /\ ~s.started
                                      /\ s.activity = "None"}]
  /\ job = [o \in Output |-> NoJob]
  /\ pass = Waiting
  /\ asking = {}
  /\ toggles = 0 /\ acts = 0

-----------------------------------------------------------------------------
(* The refill life cycle of one output. *)

Cancelled(s) ==
  [s EXCEPT !.activity = "None", !.started = FALSE, !.awaited = FALSE]

\* `cancel_autoplay_refill`, with which an output may also change its queue.
CancelLeaving(o, s) ==
  /\ q' = [q EXCEPT ![o] = Cancelled(s)]
  /\ job' = [job EXCEPT ![o].current = FALSE]

Cancel(o) == CancelLeaving(o, q[o])

CanBegin(s) ==
  /\ ~s.started
  /\ s.few
  /\ s.playing \/ s.activity = "Finding"

\* If the tracks added are too few, `Advances` makes the queue short again.
\* Variant: the reservation stays taken.
AppendedKeepsStarted(s) ==
  [s EXCEPT !.playing = @ \/ s.awaited, !.few = FALSE, !.awaited = FALSE,
            !.activity = "None"]

Appended(s) ==
  [s EXCEPT !.playing = @ \/ s.awaited, !.few = FALSE, !.awaited = FALSE,
            !.activity = "None", !.started = FALSE]

-----------------------------------------------------------------------------
(* The loop.  Jobs are reaped between passes only. *)

\* `bool_setting`: a setting that cannot be read has its default value, on.
SettingRead == {enabled} \cup {on \in {TRUE} : ReadsMayFail}

Tick ==
  /\ pass.mode = "waiting"
  /\ \E on \in SettingRead :
       /\ pass' = CASE on -> [mode |-> "scheduling", todo |-> Output \ member]
                    [] ~on /\ wasEnabled ->
                         [mode |-> "cancelling", todo |-> Output]
                    [] OTHER -> Waiting
       /\ wasEnabled' = on
  /\ UNCHANGED <<enabled, toCancel, lost, member, moving, q, job, asking,
                 toggles, acts>>

\* At most one job per output: one in flight is left alone.
Schedule(o) ==
  /\ pass.mode = "scheduling" /\ o \in pass.todo
  /\ pass' = [pass EXCEPT !.todo = @ \ {o}]
  /\ job' = IF job[o].phase = "none"
            THEN [job EXCEPT ![o].phase = "spawned"] ELSE job
  /\ UNCHANGED <<enabled, toCancel, lost, member, moving, q, wasEnabled,
                 asking, toggles, acts>>

LoopCancels(o) ==
  /\ pass.mode = "cancelling" /\ o \in pass.todo
  /\ pass' = [pass EXCEPT !.todo = @ \ {o}]
  /\ Cancel(o)
  /\ UNCHANGED <<enabled, toCancel, lost, member, moving, wasEnabled, asking,
                 toggles, acts>>

\* Variant: does not wait for every output to have had its turn.
EndPassEarly ==
  /\ pass.mode # "waiting"
  /\ pass' = [pass EXCEPT !.mode = "waiting"]
  /\ job' = IF pass.mode = "cancelling" THEN [o \in Output |-> NoJob] ELSE job
  /\ UNCHANGED <<enabled, toCancel, lost, member, moving, q, wasEnabled,
                 asking, toggles, acts>>

\* A cancelling pass aborts the jobs, wherever each of them waits.
EndPass ==
  /\ pass.mode # "waiting" /\ pass.todo = {}
  /\ pass' = Waiting
  /\ job' = IF pass.mode = "cancelling" THEN [o \in Output |-> NoJob] ELSE job
  /\ UNCHANGED <<enabled, toCancel, lost, member, moving, q, wasEnabled,
                 asking, toggles, acts>>

Reap(o) ==
  /\ pass.mode = "waiting" /\ job[o].phase = "done"
  /\ job' = [job EXCEPT ![o] = NoJob]
  /\ UNCHANGED <<enabled, toCancel, lost, member, moving, q, pass,
                 wasEnabled, asking, toggles, acts>>

Loop == Tick \/ EndPass
        \/ \E o \in Output : Schedule(o) \/ LoopCancels(o) \/ Reap(o)

-----------------------------------------------------------------------------
(* A job. *)

unchangedByJob == <<enabled, toCancel, lost, member, moving, pass, wasEnabled,
                    asking, toggles, acts>>

JobGoes(o, from, to) ==
  /\ job[o].phase = from
  /\ job' = [job EXCEPT ![o].phase = to]
  /\ UNCHANGED unchangedByJob

\* The player's state cannot be refreshed: its daemon is out of reach.
JobGivesUp(o) ==
  /\ o \in Player
  /\ JobGoes(o, "spawned", "done")
  /\ UNCHANGED q

JobBegins(o) ==
  /\ job[o].phase = "spawned"
  /\ IF CanBegin(q[o])
     THEN /\ q' = [q EXCEPT ![o].started = TRUE, ![o].activity = "Finding"]
          /\ job' = [job EXCEPT ![o] = [phase |-> "looking", current |-> TRUE]]
     ELSE /\ job' = [job EXCEPT ![o].phase = "done"]
          /\ UNCHANGED q
  /\ UNCHANGED unchangedByJob

\* Variant: what is looked up while the setting is on is added regardless.
JobTrustsSwitch(o) == JobGoes(o, "looking", "allowed") /\ UNCHANGED q

\* The lookup is over: the job reads the setting, then its player's record.
JobReadsSwitch(o) ==
  /\ \E on \in SettingRead :
       JobGoes(o, "looking", IF on THEN "allowed" ELSE "rejected")
  /\ UNCHANGED q

JobReadsRecord(o) ==
  /\ JobGoes(o, "allowed", IF o \in member THEN "rejected" ELSE "approved")
  /\ UNCHANGED q

\* Variant: a rejected job leaves the reservation to its successor.
JobJustEnds(o) == JobGoes(o, "rejected", "done") /\ UNCHANGED q

JobCancels(o) ==
  /\ job[o].phase = "rejected"
  /\ q' = [q EXCEPT ![o] = Cancelled(@)]
  /\ job' = [job EXCEPT ![o] = [phase |-> "done", current |-> FALSE]]
  /\ UNCHANGED unchangedByJob

IsCurrent(o) == job[o].current /\ q[o].activity # "None"

\* The outcomes of `finish_autoplay_refill`: too late, nothing found, added.
JobIsStale(o) ==
  /\ ~IsCurrent(o)
  /\ JobGoes(o, "approved", "done")
  /\ UNCHANGED q

JobFindsNothing(o) ==
  /\ IsCurrent(o)
  /\ JobGoes(o, "approved", "done")
  /\ q' = [q EXCEPT ![o].activity = "Exhausted"]

JobAppends(o) ==
  /\ IsCurrent(o)
  /\ \E ending \in {"done"} \cup (IF o \in Player THEN {"rejected"} ELSE {}) :
       JobGoes(o, "approved", ending)  \* a daemon may fail once they are added
  /\ q' = [q EXCEPT ![o] = Appended(@)]

\* The tracks cannot be resolved.
JobFails(o) == JobGoes(o, "approved", "rejected") /\ UNCHANGED q

Job(o) ==
  \/ JobGivesUp(o) \/ JobBegins(o)
  \/ JobReadsSwitch(o) \/ JobReadsRecord(o) \/ JobCancels(o)
  \/ JobIsStale(o) \/ JobFindsNothing(o) \/ JobAppends(o) \/ JobFails(o)

-----------------------------------------------------------------------------
(* The setting's endpoint, `set_autoplay`. *)

SwitchOn(c) ==
  /\ toggles < MaxToggles /\ toggles' = toggles + 1
  /\ toCancel[c] = {}
  /\ enabled' = TRUE
  /\ UNCHANGED <<toCancel, lost, member, moving, q, job, pass,
                 wasEnabled, asking, acts>>

SwitchOff(c) ==
  /\ toggles < MaxToggles /\ toggles' = toggles + 1
  /\ toCancel[c] = {}
  /\ enabled' = FALSE
  /\ toCancel' = [toCancel EXCEPT ![c] = Output]
  /\ UNCHANGED <<lost, member, moving, q, job, pass, wasEnabled, asking, acts>>

RequestCancels(c, o) ==
  /\ o \in toCancel[c]
  /\ toCancel' = [toCancel EXCEPT ![c] = @ \ {o}]
  /\ Cancel(o)
  /\ UNCHANGED <<enabled, lost, member, moving, pass, wasEnabled, asking,
                 toggles, acts>>

\* The client disconnects: the rest of its request is never executed.
RequestAborted(c) ==
  /\ toCancel[c] # {}
  /\ lost' = TRUE
  /\ toCancel' = [toCancel EXCEPT ![c] = {}]
  /\ UNCHANGED <<enabled, member, moving, q, job, pass, wasEnabled,
                 asking, toggles, acts>>

Setting(c) ==
  \/ SwitchOn(c) \/ SwitchOff(c) \/ RequestAborted(c)
  \/ \E o \in Output : RequestCancels(c, o)

-----------------------------------------------------------------------------
(* `set_zone`: cancel the player, cancel its zone, then write the record.  *)

Move(p, from, to) ==
  /\ moving[p] = from
  /\ moving' = [moving EXCEPT ![p] = to]
  /\ UNCHANGED <<enabled, toCancel, lost, pass, wasEnabled, asking, toggles>>

StartMove(p) ==
  /\ acts < MaxActs /\ acts' = acts + 1
  /\ Move(p, "no", "player")
  /\ UNCHANGED <<member, q, job>>

CancelPlayer(p) ==
  /\ Move(p, "player", "zone")
  /\ Cancel(p)
  /\ UNCHANGED <<member, acts>>

CancelZone(p) ==
  /\ Move(p, "zone", "record")
  /\ q' = [o \in Output |-> IF o \in Zone THEN Cancelled(q[o]) ELSE q[o]]
  /\ job' = [o \in Output |-> [job[o] EXCEPT !.current = @ /\ o \notin Zone]]
  /\ UNCHANGED <<member, acts>>

WriteRecord(p) ==
  /\ Move(p, "record", "no")
  /\ member' = IF p \in member THEN member \ {p} ELSE member \cup {p}
  /\ UNCHANGED <<q, job, acts>>

ChangeZone(p) ==
  StartMove(p) \/ CancelPlayer(p) \/ CancelZone(p) \/ WriteRecord(p)

-----------------------------------------------------------------------------
(* Playback and its listener. *)

unchangedByQueue == <<enabled, toCancel, lost, member, moving, pass,
                      wasEnabled, toggles>>

\* The current track ends, or is skipped, with another one behind it.
Advances(o) ==
  /\ q[o].playing
  /\ \E fewLeft \in {TRUE, q[o].few} :
       IF q[o].activity = "Exhausted"
       THEN CancelLeaving(o, [q[o] EXCEPT !.few = fewLeft])
       ELSE /\ q' = [q EXCEPT ![o].few = fewLeft]
            /\ UNCHANGED job
  /\ UNCHANGED <<asking, acts>> /\ UNCHANGED unchangedByQueue

\* The last track ends: a refill still being looked up will resume playback.
Drains(o) ==
  /\ q[o].playing /\ q[o].few
  /\ q' = [q EXCEPT ![o].playing = FALSE,
                    ![o].awaited = @ \/ q[o].activity # "None"]
  /\ UNCHANGED <<job, asking, acts>> /\ UNCHANGED unchangedByQueue

\* `next` at the last track: the handler reads the setting, then asks.
AsksNext(o) ==
  /\ acts < MaxActs /\ acts' = acts + 1
  /\ TRUE \in SettingRead
  /\ asking' = asking \cup {o}
  /\ UNCHANGED <<q, job>> /\ UNCHANGED unchangedByQueue

RequestResume(o) ==
  /\ o \in asking /\ asking' = asking \ {o}
  /\ IF q[o].few /\ (q[o].playing \/ q[o].awaited)
     THEN q' = [q EXCEPT ![o].awaited = TRUE, ![o].started = FALSE,
                         ![o].activity = "Finding"]
     ELSE UNCHANGED q
  /\ UNCHANGED <<job, acts>> /\ UNCHANGED unchangedByQueue

\* A command of CancelsAutoplayRefill, whatever else it does to the queue.
Edits(o) ==
  /\ acts < MaxActs /\ acts' = acts + 1
  /\ \E playing, fewLeft \in BOOLEAN :
       CancelLeaving(o, [q[o] EXCEPT !.playing = playing, !.few = fewLeft])
  /\ UNCHANGED asking /\ UNCHANGED unchangedByQueue

\* Play, or Previous: the refill goes on.
Plays(o) ==
  /\ \E fewLeft \in BOOLEAN :
       q' = [q EXCEPT ![o].playing = TRUE, ![o].few = fewLeft]
  /\ UNCHANGED <<job, asking, acts>> /\ UNCHANGED unchangedByQueue

Playback(o) == Advances(o) \/ Drains(o) \/ AsksNext(o) \/ RequestResume(o)
               \/ Edits(o) \/ Plays(o)

Next ==
  \/ Loop
  \/ \E o \in Output : Job(o) \/ Playback(o)
  \/ \E c \in Client : Setting(c)
  \/ \E p \in Player : ChangeZone(p)

Spec == Init /\ [][Next]_vars

(***************************************************************************)
(* The loop's tasks are run by the tokio runtime and its timer ticks; the  *)
(* branch that reaps jobs is chosen by `select!` at random, hence strong   *)
(* fairness.  Outside Slow, lookups time out, a daemon is in reach again   *)
(* and again, and a job does not fail for ever.                            *)
(***************************************************************************)
Fairness ==
  /\ WF_vars(Tick) /\ WF_vars(EndPass)
  /\ \A o \in Output :
       /\ WF_vars(Schedule(o)) /\ WF_vars(LoopCancels(o)) /\ SF_vars(Reap(o))
       /\ \A c \in Client : WF_vars(RequestCancels(c, o))
  /\ \A o \in Output \ Slow :
       /\ SF_vars(JobBegins(o))
       /\ WF_vars(JobReadsSwitch(o)) /\ WF_vars(JobReadsRecord(o))
       /\ WF_vars(JobCancels(o)) /\ WF_vars(JobIsStale(o))
       /\ SF_vars(JobFindsNothing(o) \/ JobAppends(o))

FairSpec == Spec /\ Fairness
-----------------------------------------------------------------------------
(* What continuous play promises. *)

\* "Turning the switch off stops future additions" (docs/continuous-play.md):
\* with the setting off, tracks are only added to an output whose turn to be
\* cancelled is still to come, in the request that switched it off or, should
\* that have been aborted, in the loop's next pass.  This needs a setting that
\* can be read.
NothingAddedOnceOff ==
  [][\A o \in Output :
       JobAppends(o) /\ ~enabled /\ ~ReadsMayFail
         => \/ \E c \in Client : o \in toCancel[c]
            \/ lost /\ (wasEnabled \/ pass.mode = "cancelling")]_vars

\* While the setting stays on, a queue is reserved for a refill only as long
\* as a job is there that fills it, finds nothing, or gives the queue back.
ReservationHasJob ==
  \A o \in Output :
    enabled /\ toggles = 0 /\ q[o].started /\ q[o].activity = "Finding"
      => job[o].phase \in {"looking", "allowed", "approved", "rejected"}

\* The queue of an output on its own is near its end, and music is playing
\* or to resume.
RunsShort(o) ==
  q[o].few /\ (q[o].playing \/ q[o].awaited) /\ enabled /\ o \notin member

\* "when autoplay is on and a playing queue nears its end, append similar
\* tracks so the music keeps going" (main.rs): a queue that runs short is
\* filled, unless nothing is found, it drains first, or the listener's, the
\* zone's or the setting's turn ends the need.  It does not depend on the
\* jobs of other outputs: "Lookups run independently, so a slow output cannot
\* delay another" (docs/continuous-play.md).
RefillComes ==
  \A o \in Output \ Slow :
    RunsShort(o) ~> (~RunsShort(o) \/ q[o].activity = "Exhausted")
=============================================================================
