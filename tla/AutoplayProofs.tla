---------------------------- MODULE AutoplayProofs ----------------------------
(***************************************************************************)
(* Type correctness of Autoplay, and that nothing is added once continuous *)
(* play is off, for any outputs, any requests and any number of switches.  *)
(***************************************************************************)
EXTENDS Autoplay, TLAPS

(***************************************************************************)
(* The job that may append knows what the setting was when it asked.  Two  *)
(* facts carry the property from there to the append: the request that     *)
(* switched the setting off since still has the output to cancel, or was   *)
(* aborted; and there are jobs only before the loop's cancelling pass ends.*)
(***************************************************************************)
AllowedIsOwed ==
  \A o \in Output :
    /\ job[o].phase \in {"allowed", "approved"}
    /\ job[o].current
    /\ ~enabled /\ ~ReadsMayFail
    => lost \/ \E c \in Client : o \in toCancel[c]

JobsBeforePassEnds ==
  /\ pass.mode = "scheduling" => wasEnabled
  /\ \A o \in Output :
       job[o].phase # "none" => wasEnabled \/ pass.mode = "cancelling"

IInv == TypeOK /\ AllowedIsOwed /\ JobsBeforePassEnds

-----------------------------------------------------------------------------
(* Cancelling an output keeps the types, frees its job and no other.  *)
LEMMA CancelTypes ==
  ASSUME TypeOK, NEW o \in Output, NEW s \in Queues, CancelLeaving(o, s)
  PROVE  /\ q' \in [Output -> Queues] /\ job' \in [Output -> Jobs]
         /\ ~job'[o].current
         /\ \A p \in Output : job'[p].phase = job[p].phase
         /\ \A p \in Output \ {o} : job'[p] = job[p]
<1>1. Cancelled(s) \in Queues
  BY DEF Cancelled, Queues
<1>2. job \in [Output -> Jobs] /\ q \in [Output -> Queues]
  BY DEF TypeOK
<1>3. job' = [job EXCEPT ![o].current = FALSE]
  BY DEF CancelLeaving
<1>4. q' = [q EXCEPT ![o] = Cancelled(s)]
  BY DEF CancelLeaving
<1>5. q' \in [Output -> Queues]
  BY <1>1, <1>2, <1>4
<1>6. job' \in [Output -> Jobs]
  BY <1>2, <1>3 DEF Jobs
<1> QED
  BY <1>2, <1>3, <1>5, <1>6 DEF Jobs

\* A step of a job's phase alone.
LEMMA PhaseTypes ==
  ASSUME TypeOK, NEW o \in Output, NEW to \in Phases,
         job' = [job EXCEPT ![o].phase = to]
  PROVE  /\ job' \in [Output -> Jobs]
         /\ job'[o].phase = to /\ job'[o].current = job[o].current
         /\ \A p \in Output \ {o} : job'[p] = job[p]
<1>1. job \in [Output -> Jobs]
  BY DEF TypeOK
<1>2. job[o] \in Jobs
  BY <1>1
<1>3. [job[o] EXCEPT !.phase = to] \in Jobs
  BY <1>2 DEF Jobs
<1>4. job' \in [Output -> Jobs]
  BY <1>1, <1>3
<1> QED
  BY <1>1, <1>2, <1>4 DEF Jobs

-----------------------------------------------------------------------------
LEMMA InitInvariant == Init => IInv
<1> SUFFICES ASSUME Init PROVE IInv
  OBVIOUS
<1>1. NoJob \in Jobs
  BY DEF NoJob, Jobs, Phases
<1>2. job = [o \in Output |-> NoJob]
  BY DEF Init
<1>3. TypeOK
  <2>1. q \in [Output -> Queues]
    BY DEF Init
  <2>2. job \in [Output -> Jobs]
    BY <1>1, <1>2
  <2>3. toggles \in 0..MaxToggles /\ acts \in 0..MaxActs
    BY AutoplayAssumption DEF Init
  <2>4. pass \in [mode: {"waiting", "scheduling", "cancelling"},
                  todo: SUBSET Output]
    BY DEF Init, Waiting
  <2>5. moving \in [Player -> {"no", "player", "zone", "record"}]
    BY DEF Init
  <2>6. toCancel \in [Client -> SUBSET Output]
    BY DEF Init
  <2> QED
    BY <2>1, <2>2, <2>3, <2>4, <2>5, <2>6 DEF TypeOK, Init, Waiting
<1>4. AllowedIsOwed
  BY <1>2 DEF AllowedIsOwed, NoJob
<1>5. JobsBeforePassEnds
  BY <1>2 DEF JobsBeforePassEnds, NoJob, Init, Waiting
<1> QED
  BY <1>3, <1>4, <1>5 DEF IInv

-----------------------------------------------------------------------------
(* The loop. *)
LEMMA LoopInvariant == IInv /\ Loop => IInv'
<1> SUFFICES ASSUME IInv, Loop PROVE IInv'
  OBVIOUS
<1> USE DEF IInv
<1>1. CASE Tick
  <2>1. PICK on \in SettingRead :
          /\ pass' = CASE on ->
                            [mode |-> "scheduling", todo |-> Output \ member]
                       [] ~on /\ wasEnabled ->
                            [mode |-> "cancelling", todo |-> Output]
                       [] OTHER -> Waiting
          /\ wasEnabled' = on
    BY <1>1 DEF Tick
  <2>2. on \in BOOLEAN
    BY DEF SettingRead, TypeOK
  <2>3. job' = job
    BY <1>1 DEF Tick
  <2>4. /\ pass' \in [mode: {"waiting", "scheduling", "cancelling"},
                      todo: SUBSET Output]
        /\ pass'.mode = "waiting" => pass'.todo = {}
    BY <2>1, <2>2 DEF Waiting, TypeOK, Output
  <2>5. TypeOK'
    BY <1>1, <2>1, <2>2, <2>4 DEF TypeOK, Tick
  <2>6. AllowedIsOwed'
    BY <1>1 DEF Tick, AllowedIsOwed
  <2>7. CASE on
    BY <2>1, <2>2, <2>5, <2>6, <2>7 DEF JobsBeforePassEnds
  <2>8. CASE ~on /\ wasEnabled
    BY <2>1, <2>2, <2>5, <2>6, <2>8 DEF JobsBeforePassEnds
  <2>9. CASE ~on /\ ~wasEnabled
    <3>1. pass.mode = "waiting" /\ pass'.mode = "waiting"
      BY <1>1, <2>1, <2>9 DEF Tick, Waiting
    <3>2. \A o \in Output : job[o].phase = "none"
      BY <2>9, <3>1 DEF JobsBeforePassEnds
    <3> QED
      BY <2>3, <2>5, <2>6, <3>1, <3>2 DEF JobsBeforePassEnds
  <2> QED
    BY <2>2, <2>7, <2>8, <2>9 DEF TypeOK
<1>2. CASE EndPass
  <2>1. NoJob \in Jobs
    BY DEF NoJob, Jobs, Phases
  <2>2. job' \in [Output -> Jobs]
    BY <1>2, <2>1 DEF EndPass, TypeOK
  <2>3. \A o \in Output : job'[o] = job[o] \/ job'[o] = NoJob
    BY <1>2 DEF EndPass
  <2>4. pass' = Waiting /\ Waiting.mode = "waiting" /\ Waiting.todo = {}
    BY <1>2 DEF EndPass, Waiting
  <2>5. pass' \in [mode: {"waiting", "scheduling", "cancelling"},
                   todo: SUBSET Output]
    BY <2>4 DEF Waiting
  <2>6. TypeOK'
    BY <1>2, <2>2, <2>4, <2>5 DEF EndPass, TypeOK
  <2>7. AllowedIsOwed'
    BY <1>2, <2>3 DEF EndPass, AllowedIsOwed, NoJob
  <2>8. CASE pass.mode = "cancelling"
    BY <1>2, <2>4, <2>6, <2>7, <2>8 DEF EndPass, JobsBeforePassEnds, NoJob
  <2>9. CASE pass.mode # "cancelling"
    <3>1. wasEnabled /\ wasEnabled' = wasEnabled
      BY <1>2, <2>9 DEF EndPass, JobsBeforePassEnds, TypeOK
    <3> QED
      BY <2>4, <2>6, <2>7, <3>1 DEF JobsBeforePassEnds
  <2> QED
    BY <2>8, <2>9
<1>3. ASSUME NEW o \in Output, Schedule(o) PROVE IInv'
  <2>1. "spawned" \in Phases
    BY DEF Phases
  <2>2. /\ job' \in [Output -> Jobs]
        /\ \A p \in Output : job'[p] = job[p] \/ job'[p].phase = "spawned"
    <3>1. CASE job[o].phase = "none"
      <4>1. job' = [job EXCEPT ![o].phase = "spawned"]
        BY <1>3, <3>1 DEF Schedule
      <4> QED
        BY <2>1, <4>1, PhaseTypes
    <3>2. CASE job[o].phase # "none"
      BY <1>3, <3>2 DEF Schedule, TypeOK
    <3> QED
      BY <3>1, <3>2
  <2>3. /\ pass' \in [mode: {"waiting", "scheduling", "cancelling"},
                      todo: SUBSET Output]
        /\ pass'.mode = "scheduling" /\ pass.mode = "scheduling"
    BY <1>3 DEF Schedule, TypeOK
  <2>4. TypeOK'
    BY <1>3, <2>2, <2>3 DEF Schedule, TypeOK
  <2>5. AllowedIsOwed'
    BY <1>3, <2>2 DEF Schedule, AllowedIsOwed
  <2>6. JobsBeforePassEnds'
    BY <1>3, <2>3 DEF Schedule, JobsBeforePassEnds
  <2> QED
    BY <2>4, <2>5, <2>6
<1>4. ASSUME NEW o \in Output, LoopCancels(o) PROVE IInv'
  <2>1. q[o] \in Queues /\ CancelLeaving(o, q[o])
    BY <1>4 DEF LoopCancels, Cancel, TypeOK
  <2>2. /\ q' \in [Output -> Queues] /\ job' \in [Output -> Jobs]
        /\ ~job'[o].current
        /\ \A p \in Output : job'[p].phase = job[p].phase
        /\ \A p \in Output \ {o} : job'[p] = job[p]
    BY <2>1, CancelTypes
  <2>3. /\ pass' \in [mode: {"waiting", "scheduling", "cancelling"},
                      todo: SUBSET Output]
        /\ pass'.mode = "cancelling" /\ pass.mode = "cancelling"
    BY <1>4 DEF LoopCancels, TypeOK
  <2>4. TypeOK'
    BY <1>4, <2>2, <2>3 DEF LoopCancels, TypeOK
  <2>5. AllowedIsOwed'
    BY <1>4, <2>2 DEF LoopCancels, AllowedIsOwed
  <2>6. JobsBeforePassEnds'
    BY <1>4, <2>3 DEF LoopCancels, JobsBeforePassEnds
  <2> QED
    BY <2>4, <2>5, <2>6
<1>5. ASSUME NEW o \in Output, Reap(o) PROVE IInv'
  <2>1. NoJob \in Jobs
    BY DEF NoJob, Jobs, Phases
  <2>2. job' \in [Output -> Jobs]
    BY <1>5, <2>1 DEF Reap, TypeOK
  <2>3. \A p \in Output : job'[p] = job[p] \/ job'[p] = NoJob
    BY <1>5 DEF Reap, TypeOK
  <2>4. TypeOK'
    BY <1>5, <2>2 DEF Reap, TypeOK
  <2>5. AllowedIsOwed'
    BY <1>5, <2>3 DEF Reap, AllowedIsOwed, NoJob
  <2>6. JobsBeforePassEnds'
    BY <1>5, <2>3 DEF Reap, JobsBeforePassEnds, NoJob
  <2> QED
    BY <2>4, <2>5, <2>6
<1> QED
  BY <1>1, <1>2, <1>3, <1>4, <1>5 DEF Loop

-----------------------------------------------------------------------------
(* A job: it moves on by itself, and whoever allows it sees the setting on. *)
LEMMA JobMoves ==
  ASSUME IInv, NEW o \in Output, NEW from \in Phases, NEW to \in Phases,
         JobGoes(o, from, to), q' \in [Output -> Queues],
         from # "none",
         to \in {"allowed", "approved"} =>
           from \in {"allowed", "approved"} \/ enabled \/ ReadsMayFail
  PROVE  IInv'
<1> USE DEF IInv
<1>1. job' = [job EXCEPT ![o].phase = to] /\ job[o].phase = from
  BY DEF JobGoes
<1>2. /\ job' \in [Output -> Jobs]
      /\ job'[o].phase = to /\ job'[o].current = job[o].current
      /\ \A p \in Output \ {o} : job'[p] = job[p]
  BY <1>1, PhaseTypes
<1>3. UNCHANGED unchangedByJob
  BY DEF JobGoes
<1>4. TypeOK'
  BY <1>2, <1>3 DEF TypeOK, unchangedByJob
<1>5. AllowedIsOwed'
  BY <1>1, <1>2, <1>3 DEF AllowedIsOwed, unchangedByJob
<1>6. JobsBeforePassEnds'
  BY <1>1, <1>2, <1>3 DEF JobsBeforePassEnds, unchangedByJob
<1> QED
  BY <1>4, <1>5, <1>6

LEMMA JobInvariant ==
  ASSUME IInv, NEW o \in Output, Job(o)
  PROVE  IInv'
<1> USE DEF IInv
<1>a. /\ q \in [Output -> Queues] /\ job \in [Output -> Jobs]
      /\ q[o] \in Queues /\ job[o] \in Jobs
  BY DEF TypeOK
<1>b. {"spawned", "looking", "allowed", "approved", "rejected", "done"}
        \subseteq Phases
  BY DEF Phases
<1>1. CASE JobGivesUp(o)
  <2>1. JobGoes(o, "spawned", "done") /\ q' \in [Output -> Queues]
    BY <1>a, <1>1 DEF JobGivesUp
  <2> QED
    BY <1>b, <2>1, JobMoves
<1>2. CASE JobBegins(o)
  <2>1. CASE CanBegin(q[o])
    <3>1. q' \in [Output -> Queues]
      <4>1. q' = [q EXCEPT ![o] =
                    [q[o] EXCEPT !.started = TRUE, !.activity = "Finding"]]
        BY <1>a, <1>2, <2>1 DEF JobBegins
      <4>2. [q[o] EXCEPT !.started = TRUE, !.activity = "Finding"] \in Queues
        BY <1>a DEF Queues
      <4> QED
        BY <1>a, <4>1, <4>2
    <3>2. [phase |-> "looking", current |-> TRUE] \in Jobs
      BY <1>b DEF Jobs
    <3>3. job' \in [Output -> Jobs]
      BY <1>a, <1>2, <2>1, <3>2 DEF JobBegins
    <3>4. \A p \in Output : job'[p] = job[p] \/ job'[p].phase = "looking"
      BY <1>a, <1>2, <2>1 DEF JobBegins
    <3>5. job[o].phase # "none" /\ UNCHANGED unchangedByJob
      BY <1>2 DEF JobBegins
    <3>6. \A p \in Output : job'[p].phase # "none" => job[p].phase # "none"
      BY <1>a, <1>2, <2>1, <3>5 DEF JobBegins
    <3>7. TypeOK'
      BY <3>1, <3>3, <3>5 DEF TypeOK, unchangedByJob
    <3>8. AllowedIsOwed'
      BY <3>4, <3>5 DEF AllowedIsOwed, unchangedByJob
    <3>9. JobsBeforePassEnds'
      BY <3>5, <3>6 DEF JobsBeforePassEnds, unchangedByJob
    <3> QED
      BY <3>7, <3>8, <3>9
  <2>2. CASE ~CanBegin(q[o])
    <3>1. JobGoes(o, "spawned", "done") /\ q' \in [Output -> Queues]
      BY <1>a, <1>2, <2>2 DEF JobBegins, JobGoes
    <3> QED
      BY <1>b, <3>1, JobMoves
  <2> QED
    BY <2>1, <2>2
<1>3. CASE JobReadsSwitch(o)
  <2>1. PICK on \in SettingRead :
          JobGoes(o, "looking", IF on THEN "allowed" ELSE "rejected")
    BY <1>3 DEF JobReadsSwitch
  <2>2. q' \in [Output -> Queues]
    BY <1>a, <1>3 DEF JobReadsSwitch
  <2>3. CASE on
    <3>1. JobGoes(o, "looking", "allowed")
      BY <2>1, <2>3
    <3>2. enabled \/ ReadsMayFail
      BY <2>3 DEF SettingRead
    <3> QED
      BY <1>b, <2>2, <3>1, <3>2, JobMoves
  <2>4. CASE ~on
    <3>1. JobGoes(o, "looking", "rejected")
      BY <2>1, <2>4
    <3> QED
      BY <1>b, <2>2, <3>1, JobMoves
  <2> QED
    BY <2>3, <2>4
<1>4. CASE JobReadsRecord(o)
  <2>1. PICK to \in {"rejected", "approved"} : JobGoes(o, "allowed", to)
    BY <1>4 DEF JobReadsRecord
  <2>2. q' \in [Output -> Queues]
    BY <1>a, <1>4 DEF JobReadsRecord
  <2>3. to \in Phases
    BY <1>b, <2>1
  <2> QED
    BY <1>b, <2>1, <2>2, <2>3, JobMoves
<1>5. CASE JobCancels(o)
  <2>1. Cancelled(q[o]) \in Queues
    BY <1>a DEF Cancelled, Queues
  <2>2. q' \in [Output -> Queues]
    BY <1>a, <1>5, <2>1 DEF JobCancels
  <2>3. [phase |-> "done", current |-> FALSE] \in Jobs
    BY <1>b DEF Jobs
  <2>4. job' \in [Output -> Jobs]
    BY <1>a, <1>5, <2>3 DEF JobCancels
  <2>5. \A p \in Output : job'[p] = job[p] \/ job'[p].phase = "done"
    BY <1>a, <1>5 DEF JobCancels
  <2>6. job[o].phase # "none" /\ UNCHANGED unchangedByJob
    BY <1>5 DEF JobCancels
  <2>7. \A p \in Output : job'[p].phase # "none" => job[p].phase # "none"
    BY <1>a, <1>5, <2>6 DEF JobCancels
  <2>8. TypeOK'
    BY <2>2, <2>4, <2>6 DEF TypeOK, unchangedByJob
  <2>9. AllowedIsOwed'
    BY <2>5, <2>6 DEF AllowedIsOwed, unchangedByJob
  <2>10. JobsBeforePassEnds'
    BY <2>6, <2>7 DEF JobsBeforePassEnds, unchangedByJob
  <2> QED
    BY <2>8, <2>9, <2>10
<1>6. CASE JobIsStale(o)
  <2>1. JobGoes(o, "approved", "done") /\ q' \in [Output -> Queues]
    BY <1>a, <1>6 DEF JobIsStale
  <2> QED
    BY <1>b, <2>1, JobMoves
<1>7. CASE JobFindsNothing(o)
  <2>1. q' = [q EXCEPT ![o] = [q[o] EXCEPT !.activity = "Exhausted"]]
    BY <1>a, <1>7 DEF JobFindsNothing
  <2>2. [q[o] EXCEPT !.activity = "Exhausted"] \in Queues
    BY <1>a DEF Queues
  <2>3. JobGoes(o, "approved", "done") /\ q' \in [Output -> Queues]
    BY <1>a, <1>7, <2>1, <2>2 DEF JobFindsNothing
  <2> QED
    BY <1>b, <2>3, JobMoves
<1>8. CASE JobAppends(o)
  <2>1. Appended(q[o]) \in Queues
    BY <1>a DEF Appended, Queues
  <2>2. q' \in [Output -> Queues]
    BY <1>a, <1>8, <2>1 DEF JobAppends
  <2>3. PICK ending \in {"done", "rejected"} : JobGoes(o, "approved", ending)
    BY <1>8 DEF JobAppends
  <2>4. ending \in Phases
    BY <1>b, <2>3
  <2> QED
    BY <1>b, <2>2, <2>3, <2>4, JobMoves
<1>9. CASE JobFails(o)
  <2>1. JobGoes(o, "approved", "rejected") /\ q' \in [Output -> Queues]
    BY <1>a, <1>9 DEF JobFails
  <2> QED
    BY <1>b, <2>1, JobMoves
<1> QED
  BY <1>1, <1>2, <1>3, <1>4, <1>5, <1>6, <1>7, <1>8, <1>9 DEF Job

-----------------------------------------------------------------------------
(* The setting's endpoint: switching off owes every output. *)
LEMMA SettingInvariant ==
  ASSUME IInv, NEW c \in Client, Setting(c)
  PROVE  IInv'
<1> USE DEF IInv
<1>1. CASE SwitchOn(c)
  <2>1. TypeOK'
    BY <1>1, AutoplayAssumption DEF SwitchOn, TypeOK
  <2>2. AllowedIsOwed'
    BY <1>1 DEF SwitchOn, AllowedIsOwed
  <2>3. JobsBeforePassEnds'
    BY <1>1 DEF SwitchOn, JobsBeforePassEnds
  <2> QED
    BY <2>1, <2>2, <2>3
<1>2. CASE SwitchOff(c)
  <2>1. toCancel' \in [Client -> SUBSET Output] /\ toCancel'[c] = Output
    BY <1>2 DEF SwitchOff, TypeOK
  <2>2. toggles' \in 0..MaxToggles
    BY <1>2, AutoplayAssumption DEF SwitchOff, TypeOK
  <2>3. enabled' \in BOOLEAN
    BY <1>2 DEF SwitchOff
  <2>4. TypeOK'
    BY <1>2, <2>1, <2>2, <2>3 DEF SwitchOff, TypeOK
  <2>5. AllowedIsOwed'
    BY <2>1 DEF AllowedIsOwed
  <2>6. JobsBeforePassEnds'
    BY <1>2 DEF SwitchOff, JobsBeforePassEnds
  <2> QED
    BY <2>4, <2>5, <2>6
<1>3. CASE RequestAborted(c)
  <2>1. TypeOK'
    BY <1>3 DEF RequestAborted, TypeOK
  <2>2. AllowedIsOwed'
    BY <1>3 DEF RequestAborted, AllowedIsOwed
  <2>3. JobsBeforePassEnds'
    BY <1>3 DEF RequestAborted, JobsBeforePassEnds
  <2> QED
    BY <2>1, <2>2, <2>3
<1>4. ASSUME NEW o \in Output, RequestCancels(c, o) PROVE IInv'
  <2>1. q[o] \in Queues /\ CancelLeaving(o, q[o])
    BY <1>4 DEF RequestCancels, Cancel, TypeOK
  <2>2. /\ q' \in [Output -> Queues] /\ job' \in [Output -> Jobs]
        /\ ~job'[o].current
        /\ \A p \in Output : job'[p].phase = job[p].phase
        /\ \A p \in Output \ {o} : job'[p] = job[p]
    BY <2>1, CancelTypes
  <2>3. /\ toCancel' \in [Client -> SUBSET Output]
        /\ \A d \in Client : toCancel[d] \ {o} \subseteq toCancel'[d]
    BY <1>4 DEF RequestCancels, TypeOK
  <2>4. TypeOK'
    BY <1>4, <2>2, <2>3 DEF RequestCancels, TypeOK
  <2>5. AllowedIsOwed'
    <3> SUFFICES ASSUME NEW p \in Output,
                        job'[p].phase \in {"allowed", "approved"},
                        job'[p].current, ~enabled', ~ReadsMayFail
                 PROVE  lost' \/ \E d \in Client : p \in toCancel'[d]
      BY DEF AllowedIsOwed
    <3>1. p # o /\ job[p] = job'[p]
      BY <2>2
    <3>2. lost \/ \E d \in Client : p \in toCancel[d]
      BY <1>4, <3>1 DEF RequestCancels, AllowedIsOwed
    <3> QED
      BY <1>4, <2>3, <3>1, <3>2 DEF RequestCancels
  <2>6. JobsBeforePassEnds'
    BY <1>4, <2>2 DEF RequestCancels, JobsBeforePassEnds
  <2> QED
    BY <2>4, <2>5, <2>6
<1> QED
  BY <1>1, <1>2, <1>3, <1>4 DEF Setting

-----------------------------------------------------------------------------
(* Moves between zones, and playback: they cancel outputs, allow no job.    *)

\* Steps that leave the loop and the setting alone, and no job freer.
LEMMA BystanderInvariant ==
  ASSUME IInv,
         UNCHANGED <<enabled, toCancel, lost, pass, wasEnabled, toggles>>,
         member' \in SUBSET Player,
         moving' \in [Player -> {"no", "player", "zone", "record"}],
         asking' \in SUBSET Output, acts' \in 0..MaxActs,
         q' \in [Output -> Queues], job' \in [Output -> Jobs],
         \A o \in Output : /\ job'[o].phase = job[o].phase
                           /\ job'[o].current => job[o].current
  PROVE  IInv'
<1> USE DEF IInv
<1>1. TypeOK'
  BY DEF TypeOK
<1>2. AllowedIsOwed'
  BY DEF AllowedIsOwed
<1>3. JobsBeforePassEnds'
  BY DEF JobsBeforePassEnds
<1> QED
  BY <1>1, <1>2, <1>3

LEMMA CancelFreesNone ==
  ASSUME TypeOK, NEW o \in Output, NEW s \in Queues, CancelLeaving(o, s)
  PROVE  /\ q' \in [Output -> Queues] /\ job' \in [Output -> Jobs]
         /\ \A p \in Output : /\ job'[p].phase = job[p].phase
                              /\ job'[p].current => job[p].current
<1>1. /\ q' \in [Output -> Queues]
      /\ job' \in [Output -> Jobs]
      /\ ~job'[o].current
      /\ \A p \in Output : job'[p].phase = job[p].phase
      /\ \A p \in Output \ {o} : job'[p] = job[p]
  BY CancelTypes, Zenon
<1>2. \A p \in Output : job'[p].current => job[p].current
  <2> SUFFICES ASSUME NEW p \in Output, job'[p].current
               PROVE  job[p].current
    OBVIOUS
  <2>1. p # o
    BY <1>1
  <2>2. job'[p] = job[p]
    BY <1>1, <2>1
  <2> QED
    BY <2>2
<1> QED
  BY <1>1, <1>2

LEMMA ChangeZoneInvariant ==
  ASSUME IInv, NEW p \in Player, ChangeZone(p)
  PROVE  IInv'
<1> USE DEF IInv
<1>a. /\ moving \in [Player -> {"no", "player", "zone", "record"}]
      /\ q \in [Output -> Queues] /\ job \in [Output -> Jobs]
      /\ member \in SUBSET Player /\ acts \in 0..MaxActs
      /\ asking \in SUBSET Output /\ p \in Output
  BY DEF TypeOK, Output
<1>1. CASE StartMove(p)
  <2>1. acts' \in 0..MaxActs
    BY <1>a, <1>1, AutoplayAssumption DEF StartMove
  <2>2. moving' \in [Player -> {"no", "player", "zone", "record"}]
    BY <1>a, <1>1 DEF StartMove, Move
  <2> QED
    BY <1>a, <1>1, <2>1, <2>2, BystanderInvariant DEF StartMove, Move
<1>2. CASE CancelPlayer(p)
  <2>1. q[p] \in Queues /\ CancelLeaving(p, q[p])
    BY <1>a, <1>2 DEF CancelPlayer, Cancel
  <2>2. /\ q' \in [Output -> Queues] /\ job' \in [Output -> Jobs]
        /\ \A o \in Output : /\ job'[o].phase = job[o].phase
                             /\ job'[o].current => job[o].current
    BY <1>a, <2>1, CancelFreesNone
  <2>3. moving' \in [Player -> {"no", "player", "zone", "record"}]
    BY <1>a, <1>2 DEF CancelPlayer, Move
  <2> QED
    BY <1>a, <1>2, <2>2, <2>3, BystanderInvariant DEF CancelPlayer, Move
<1>3. CASE CancelZone(p)
  <2>1. \A o \in Output : Cancelled(q[o]) \in Queues
    BY <1>a DEF Cancelled, Queues
  <2>2. q' \in [Output -> Queues]
    BY <1>a, <1>3, <2>1 DEF CancelZone
  <2>3. \A o \in Output :
          [job[o] EXCEPT !.current = @ /\ o \notin Zone] \in Jobs
    BY <1>a DEF Jobs
  <2>4. job' \in [Output -> Jobs]
    BY <1>3, <2>3 DEF CancelZone
  <2>5. \A o \in Output : /\ job'[o].phase = job[o].phase
                          /\ job'[o].current => job[o].current
    BY <1>a, <1>3 DEF CancelZone, Jobs
  <2>6. moving' \in [Player -> {"no", "player", "zone", "record"}]
    BY <1>a, <1>3 DEF CancelZone, Move
  <2> QED
    BY <1>a, <1>3, <2>2, <2>4, <2>5, <2>6, BystanderInvariant
    DEF CancelZone, Move
<1>4. CASE WriteRecord(p)
  <2>1. moving' \in [Player -> {"no", "player", "zone", "record"}]
    BY <1>a, <1>4 DEF WriteRecord, Move
  <2>2. member' \in SUBSET Player
    BY <1>a, <1>4 DEF WriteRecord
  <2> QED
    BY <1>a, <1>4, <2>1, <2>2, BystanderInvariant DEF WriteRecord, Move
<1> QED
  BY <1>1, <1>2, <1>3, <1>4 DEF ChangeZone

LEMMA PlaybackInvariant ==
  ASSUME IInv, NEW o \in Output, Playback(o)
  PROVE  IInv'
<1> USE DEF IInv
<1>a. /\ moving \in [Player -> {"no", "player", "zone", "record"}]
      /\ q \in [Output -> Queues] /\ job \in [Output -> Jobs]
      /\ member \in SUBSET Player /\ acts \in 0..MaxActs
      /\ asking \in SUBSET Output /\ q[o] \in Queues
  BY DEF TypeOK
<1>1. CASE Advances(o)
  <2>1. PICK fewLeft \in {TRUE, q[o].few} :
          IF q[o].activity = "Exhausted"
          THEN CancelLeaving(o, [q[o] EXCEPT !.few = fewLeft])
          ELSE /\ q' = [q EXCEPT ![o].few = fewLeft]
               /\ UNCHANGED job
    BY <1>1 DEF Advances
  <2>2. [q[o] EXCEPT !.few = fewLeft] \in Queues
    BY <1>a DEF Queues
  <2>3. /\ q' \in [Output -> Queues] /\ job' \in [Output -> Jobs]
        /\ \A p \in Output : /\ job'[p].phase = job[p].phase
                             /\ job'[p].current => job[p].current
    <3>1. CASE q[o].activity = "Exhausted"
      BY <2>1, <2>2, <3>1, CancelFreesNone
    <3>2. CASE q[o].activity # "Exhausted"
      BY <1>a, <2>1, <2>2, <3>2
    <3> QED
      BY <3>1, <3>2
  <2> QED
    BY <1>a, <1>1, <2>3, BystanderInvariant DEF Advances, unchangedByQueue
<1>2. CASE Drains(o)
  <2>1. [q[o] EXCEPT !.playing = FALSE,
                     !.awaited = @ \/ q[o].activity # "None"] \in Queues
    BY <1>a DEF Queues
  <2>2. q' \in [Output -> Queues]
    BY <1>a, <1>2, <2>1 DEF Drains
  <2> QED
    BY <1>a, <1>2, <2>2, BystanderInvariant DEF Drains, unchangedByQueue
<1>3. CASE AsksNext(o)
  <2>1. acts' \in 0..MaxActs
    BY <1>a, <1>3, AutoplayAssumption DEF AsksNext
  <2>2. asking' \in SUBSET Output
    BY <1>a, <1>3 DEF AsksNext
  <2> QED
    BY <1>a, <1>3, <2>1, <2>2, BystanderInvariant
    DEF AsksNext, unchangedByQueue
<1>4. CASE RequestResume(o)
  <2>1. [q[o] EXCEPT !.awaited = TRUE, !.started = FALSE,
                     !.activity = "Finding"] \in Queues
    BY <1>a DEF Queues
  <2>2. q' \in [Output -> Queues]
    BY <1>a, <1>4, <2>1 DEF RequestResume
  <2>3. asking' \in SUBSET Output
    BY <1>a, <1>4 DEF RequestResume
  <2> QED
    BY <1>a, <1>4, <2>2, <2>3, BystanderInvariant
    DEF RequestResume, unchangedByQueue
<1>5. CASE Edits(o)
  <2>1. PICK playing, fewLeft \in BOOLEAN :
          CancelLeaving(o, [q[o] EXCEPT !.playing = playing, !.few = fewLeft])
    BY <1>5 DEF Edits
  <2>2. [q[o] EXCEPT !.playing = playing, !.few = fewLeft] \in Queues
    BY <1>a DEF Queues
  <2>3. /\ q' \in [Output -> Queues] /\ job' \in [Output -> Jobs]
        /\ \A p \in Output : /\ job'[p].phase = job[p].phase
                             /\ job'[p].current => job[p].current
    BY <2>1, <2>2, CancelFreesNone
  <2>4. acts' \in 0..MaxActs
    BY <1>a, <1>5, AutoplayAssumption DEF Edits
  <2> QED
    BY <1>a, <1>5, <2>3, <2>4, BystanderInvariant DEF Edits, unchangedByQueue
<1>6. CASE Plays(o)
  <2>1. PICK fewLeft \in BOOLEAN :
          q' = [q EXCEPT ![o].playing = TRUE, ![o].few = fewLeft]
    BY <1>6 DEF Plays
  <2>2. [q[o] EXCEPT !.playing = TRUE, !.few = fewLeft] \in Queues
    BY <1>a DEF Queues
  <2>3. q' \in [Output -> Queues]
    BY <1>a, <2>1, <2>2
  <2> QED
    BY <1>a, <1>6, <2>3, BystanderInvariant DEF Plays, unchangedByQueue
<1> QED
  BY <1>1, <1>2, <1>3, <1>4, <1>5, <1>6 DEF Playback

-----------------------------------------------------------------------------
LEMMA StepInvariant == IInv /\ [Next]_vars => IInv'
<1> SUFFICES ASSUME IInv, [Next]_vars PROVE IInv'
  OBVIOUS
<1>1. CASE Loop
  BY <1>1, LoopInvariant
<1>2. ASSUME NEW o \in Output, Job(o) PROVE IInv'
  BY <1>2, JobInvariant
<1>3. ASSUME NEW o \in Output, Playback(o) PROVE IInv'
  BY <1>3, PlaybackInvariant
<1>4. ASSUME NEW c \in Client, Setting(c) PROVE IInv'
  BY <1>4, SettingInvariant
<1>5. ASSUME NEW p \in Player, ChangeZone(p) PROVE IInv'
  BY <1>5, ChangeZoneInvariant
<1>6. CASE UNCHANGED vars
  BY <1>6 DEF vars, IInv, TypeOK, AllowedIsOwed, JobsBeforePassEnds
<1> QED
  BY <1>1, <1>2, <1>3, <1>4, <1>5, <1>6 DEF Next

LEMMA Invariant == Spec => []IInv
<1>1. Init => IInv
  BY InitInvariant
<1>2. IInv /\ [Next]_vars => IInv'
  BY StepInvariant
<1> QED
  BY <1>1, <1>2, PTL DEF Spec

\* The state of the loop, its jobs, the requests and the queues stays well
\* typed, and the loop never waits with outputs left from its last pass.
THEOREM TypeCorrect == Spec => []TypeOK
<1>1. IInv => TypeOK
  BY DEF IInv
<1> QED
  BY <1>1, Invariant, PTL

\* Once the request that switches continuous play off has had an output's
\* turn, nothing is added to that output until the setting is on again; if
\* the request is aborted, the loop's next pass sees to it.
THEOREM SwitchIsObeyed == Spec => NothingAddedOnceOff
<1>1. ASSUME IInv, NEW o \in Output, JobAppends(o), ~enabled,
             ~ReadsMayFail
      PROVE  \/ \E c \in Client : o \in toCancel[c]
             \/ lost /\ (wasEnabled \/ pass.mode = "cancelling")
  <2>1. job[o].phase = "approved" /\ job[o].current
    BY <1>1 DEF JobAppends, JobGoes, IsCurrent
  <2>2. lost \/ \E c \in Client : o \in toCancel[c]
    BY <1>1, <2>1 DEF IInv, AllowedIsOwed
  <2>3. wasEnabled \/ pass.mode = "cancelling"
    BY <1>1, <2>1 DEF IInv, JobsBeforePassEnds
  <2> QED
    BY <2>2, <2>3
<1>2. IInv /\ [Next]_vars =>
        [\A o \in Output :
           JobAppends(o) /\ ~enabled /\ ~ReadsMayFail
             => \/ \E c \in Client : o \in toCancel[c]
                \/ lost /\ (wasEnabled \/ pass.mode = "cancelling")]_vars
  BY <1>1
<1> QED
  BY <1>2, Invariant, PTL DEF Spec, NothingAddedOnceOff

-----------------------------------------------------------------------------
(* Reservations. *)

Reserved(o) == q[o].started /\ q[o].activity = "Finding"

\* A reserved queue has a job, whose result counts.
Searched(o) ==
  Reserved(o) => /\ job[o].phase \in {"looking", "allowed", "approved", "rejected"}
                 /\ job[o].current

\* While the setting has always been on, the loop has not been cancelling.
Attended ==
  enabled /\ toggles = 0 => /\ wasEnabled /\ pass.mode # "cancelling"
                            /\ \A o \in Output : Searched(o)

\* Cancelling an output leaves it without a reservation, and the others alone.
LEMMA CancelEndsReservation ==
  ASSUME TypeOK, NEW o \in Output, NEW s, CancelLeaving(o, s),
         NEW p \in Output, Searched(p)
  PROVE  Searched(p)'
<1>1. q \in [Output -> Queues] /\ job \in [Output -> Jobs]
  BY DEF TypeOK
<1>2. CASE p = o
  <2>1. q'[o] = Cancelled(s)
    BY <1>1 DEF CancelLeaving
  <2> QED
    BY <1>2, <2>1 DEF Searched, Reserved, Cancelled
<1>3. CASE p # o
  <2>1. q'[p] = q[p] /\ job'[p] = job[p]
    BY <1>1, <1>3 DEF CancelLeaving
  <2> QED
    BY <2>1 DEF Searched, Reserved
<1> QED
  BY <1>2, <1>3

\* A reservation is new only where a job begins to look, and is kept
\* elsewhere only with its job.
LEMMA ReservationKept ==
  ASSUME TypeOK, NEW p \in Output, Searched(p),
         Reserved(p)' => Reserved(p), job'[p] = job[p]
  PROVE  Searched(p)'
BY DEF Searched

LEMMA LoopAttends ==
  ASSUME TypeOK, Loop, enabled, toggles = 0, Attended
  PROVE  Attended'
<1>1. /\ wasEnabled /\ pass.mode # "cancelling" /\ toggles' = 0 /\ enabled'
      /\ \A o \in Output : Searched(o)
  BY DEF Attended, Loop, Tick, EndPass, Schedule, LoopCancels, Reap
<1>t. q \in [Output -> Queues] /\ job \in [Output -> Jobs]
  BY DEF TypeOK
<1>2. CASE Tick
  <2>1. SettingRead \subseteq {TRUE}
    BY DEF SettingRead
  <2>2. PICK on \in {TRUE} :
          /\ pass' = CASE on ->
                            [mode |-> "scheduling", todo |-> Output \ member]
                       [] ~on /\ wasEnabled ->
                            [mode |-> "cancelling", todo |-> Output]
                       [] OTHER -> Waiting
          /\ wasEnabled' = on
    BY <1>2, <2>1, Zenon DEF Tick
  <2>3. on = TRUE
    OBVIOUS
  <2>4. pass' = [mode |-> "scheduling", todo |-> Output \ member]
    BY <2>2, <2>3
  <2>5. pass'.mode # "cancelling" /\ wasEnabled'
    BY <2>2, <2>3, <2>4
  <2> QED
    BY <1>1, <1>2, <2>5 DEF Attended, Tick, Searched, Reserved
<1>3. CASE EndPass
  <2>1. q' = q /\ job' = job
    BY <1>1, <1>3 DEF EndPass
  <2>2. pass'.mode # "cancelling"
    BY <1>3 DEF EndPass, Waiting
  <2>3. wasEnabled'
    BY <1>1, <1>3 DEF EndPass
  <2>4. \A o \in Output : Searched(o)'
    BY <1>1, <2>1 DEF Searched, Reserved
  <2> QED
    BY <2>2, <2>3, <2>4 DEF Attended
<1>4. ASSUME NEW o \in Output, Schedule(o) PROVE Attended'
  <2>1. q' = q /\ pass'.mode = pass.mode /\ wasEnabled' = wasEnabled
    BY <1>4 DEF Schedule, TypeOK
  <2>2. ASSUME NEW p \in Output PROVE Searched(p)'
    <3>1. CASE job'[p] = job[p]
      BY <1>1, <2>1, <3>1 DEF Searched, Reserved
    <3>2. CASE job'[p] # job[p]
      <4>1. job[p].phase = "none"
        BY <1>4, <1>t, <3>2 DEF Schedule
      <4> QED
        BY <1>1, <2>1, <4>1 DEF Searched, Reserved
    <3> QED
      BY <3>1, <3>2
  <2> QED
    BY <1>1, <2>1, <2>2 DEF Attended
<1>5. ASSUME NEW o \in Output, LoopCancels(o) PROVE Attended'
  BY <1>1, <1>5 DEF LoopCancels
<1>6. ASSUME NEW o \in Output, Reap(o) PROVE Attended'
  <2>1. q' = q /\ pass' = pass /\ wasEnabled' = wasEnabled
    BY <1>6 DEF Reap
  <2>2. ASSUME NEW p \in Output PROVE Searched(p)'
    <3>1. CASE job'[p] = job[p]
      BY <1>1, <2>1, <3>1 DEF Searched, Reserved
    <3>2. CASE job'[p] # job[p]
      <4>1. job[p].phase = "done"
        BY <1>6, <1>t, <3>2 DEF Reap
      <4> QED
        BY <1>1, <2>1, <4>1 DEF Searched, Reserved
    <3> QED
      BY <3>1, <3>2
  <2> QED
    BY <1>1, <2>1, <2>2 DEF Attended
<1> QED
  BY <1>2, <1>3, <1>4, <1>5, <1>6 DEF Loop

LEMMA JobAttends ==
  ASSUME TypeOK, NEW o \in Output, Job(o), NEW p \in Output,
         \A r \in Output : Searched(r)
  PROVE  Searched(p)'
<1>t. /\ q \in [Output -> Queues] /\ job \in [Output -> Jobs]
      /\ q[o] \in Queues /\ job[o] \in Jobs
  BY DEF TypeOK
<1>o. /\ Job(o) => \A r \in Output \ {o} : q'[r] = q[r] /\ job'[r] = job[r]
  BY <1>t DEF Job, JobGivesUp, JobBegins, JobReadsSwitch, JobReadsRecord,
     JobCancels, JobIsStale, JobFindsNothing, JobAppends, JobFails, JobGoes
<1>1. CASE p # o
  <2>1. q'[p] = q[p] /\ job'[p] = job[p]
    BY <1>o, <1>1
  <2> QED
    BY <2>1 DEF Searched, Reserved
<1>2. CASE p = o
  <2> USE <1>2
  <2>1. CASE JobGivesUp(o)
    <3>1. q' = q /\ job[o].phase = "spawned"
      BY <2>1 DEF JobGivesUp, JobGoes
    <3> QED
      BY <3>1 DEF Searched, Reserved
  <2>2. CASE JobBegins(o)
    <3>1. CASE CanBegin(q[o])
      <4>1. job'[o] = [phase |-> "looking", current |-> TRUE]
        BY <1>t, <2>2, <3>1 DEF JobBegins
      <4> QED
        BY <4>1 DEF Searched
    <3>2. CASE ~CanBegin(q[o])
      <4>1. q' = q /\ job[o].phase = "spawned"
        BY <2>2, <3>2 DEF JobBegins
      <4> QED
        BY <4>1 DEF Searched, Reserved
    <3> QED
      BY <3>1, <3>2
  <2>3. CASE JobReadsSwitch(o) \/ JobReadsRecord(o) \/ JobFails(o)
    <3>1. /\ q' = q
          /\ \E from, to \in {"looking", "allowed", "approved", "rejected"} :
               JobGoes(o, from, to)
      BY <2>3 DEF JobReadsSwitch, JobReadsRecord, JobFails
    <3>2. /\ job'[o].phase \in {"looking", "allowed", "approved", "rejected"}
          /\ job'[o].current = job[o].current
      BY <1>t, <3>1 DEF JobGoes, Jobs
    <3> QED
      BY <3>1, <3>2 DEF Searched, Reserved
  <2>4. CASE JobCancels(o)
    <3>1. q'[o] = Cancelled(q[o])
      BY <1>t, <2>4 DEF JobCancels
    <3> QED
      BY <3>1 DEF Searched, Reserved, Cancelled
  <2>5. CASE JobIsStale(o)
    <3>1. q' = q /\ (~job[o].current \/ q[o].activity = "None")
      BY <2>5 DEF JobIsStale, IsCurrent
    <3> QED
      BY <3>1 DEF Searched, Reserved
  <2>6. CASE JobFindsNothing(o)
    <3>1. q'[o].activity = "Exhausted"
      BY <1>t, <2>6 DEF JobFindsNothing, Queues
    <3> QED
      BY <3>1 DEF Searched, Reserved
  <2>7. CASE JobAppends(o)
    <3>1. q'[o] = Appended(q[o])
      BY <1>t, <2>7 DEF JobAppends
    <3>2. ~q'[o].started
      BY <1>t, <3>1 DEF Appended, Queues
    <3> QED
      BY <3>2 DEF Searched, Reserved
  <2> QED
    BY <2>1, <2>2, <2>3, <2>4, <2>5, <2>6, <2>7 DEF Job
<1> QED
  BY <1>1, <1>2

LEMMA PlaybackAttends ==
  ASSUME TypeOK, NEW o \in Output, Playback(o), NEW p \in Output,
         \A r \in Output : Searched(r)
  PROVE  Searched(p)'
<1>t. /\ q \in [Output -> Queues] /\ job \in [Output -> Jobs]
      /\ q[o] \in Queues
  BY DEF TypeOK
<1>1. ASSUME NEW s \in Queues, q' = [q EXCEPT ![o] = s], job' = job,
             s.started /\ s.activity = "Finding" => Reserved(o)
      PROVE  Searched(p)'
  <2>1. Reserved(p)' => Reserved(p)
    BY <1>t, <1>1 DEF Reserved
  <2> QED
    BY <1>1, <2>1 DEF Searched
<1>2. CASE Advances(o)
  <2>1. PICK fewLeft \in {TRUE, q[o].few} :
          IF q[o].activity = "Exhausted"
          THEN CancelLeaving(o, [q[o] EXCEPT !.few = fewLeft])
          ELSE /\ q' = [q EXCEPT ![o].few = fewLeft]
               /\ UNCHANGED job
    BY <1>2 DEF Advances
  <2>2. [q[o] EXCEPT !.few = fewLeft] \in Queues
    BY <1>t DEF Queues
  <2>3. CASE q[o].activity = "Exhausted"
    BY <2>1, <2>3, CancelEndsReservation
  <2>4. CASE q[o].activity # "Exhausted"
    <3> DEFINE s == [q[o] EXCEPT !.few = fewLeft]
    <3>1. s \in Queues /\ s.started = q[o].started /\ s.activity = q[o].activity
      BY <1>t, <2>2 DEF Queues
    <3>2. q' = [q EXCEPT ![o] = s] /\ job' = job
      BY <2>1, <2>4
    <3> HIDE DEF s
    <3> QED
      BY <1>1, <3>1, <3>2 DEF Reserved
  <2> QED
    BY <2>3, <2>4
<1>3. CASE Drains(o)
  <2> DEFINE s == [q[o] EXCEPT !.playing = FALSE,
                     !.awaited = q[o].awaited \/ q[o].activity # "None"]
  <2>1. s \in Queues /\ s.started = q[o].started /\ s.activity = q[o].activity
    BY <1>t DEF Queues
  <2>2. q' = [q EXCEPT ![o] = s] /\ job' = job
    BY <1>3 DEF Drains
  <2> HIDE DEF s
  <2> QED
    BY <1>1, <2>1, <2>2 DEF Reserved
<1>4. CASE AsksNext(o)
  BY <1>4 DEF AsksNext, Searched, Reserved
<1>5. CASE RequestResume(o)
  <2>1. CASE q' = q
    BY <1>5, <2>1 DEF RequestResume, Searched, Reserved
  <2>2. CASE q' # q
    <3> DEFINE s == [q[o] EXCEPT !.awaited = TRUE, !.started = FALSE,
                                 !.activity = "Finding"]
    <3>1. s \in Queues /\ ~s.started
      BY <1>t DEF Queues
    <3>2. q' = [q EXCEPT ![o] = s] /\ job' = job
      BY <1>5, <2>2 DEF RequestResume
    <3> HIDE DEF s
    <3> QED
      BY <1>1, <3>1, <3>2
  <2> QED
    BY <2>1, <2>2
<1>6. CASE Edits(o)
  <2>1. PICK playing, fewLeft \in BOOLEAN :
          CancelLeaving(o, [q[o] EXCEPT !.playing = playing, !.few = fewLeft])
    BY <1>6 DEF Edits
  <2> QED
    BY <2>1, CancelEndsReservation
<1>7. CASE Plays(o)
  <2>1. PICK fewLeft \in BOOLEAN :
          q' = [q EXCEPT ![o].playing = TRUE, ![o].few = fewLeft]
    BY <1>7 DEF Plays
  <2> DEFINE s == [q[o] EXCEPT !.playing = TRUE, !.few = fewLeft]
  <2>2. s \in Queues /\ s.started = q[o].started /\ s.activity = q[o].activity
    BY <1>t DEF Queues
  <2>3. q' = [q EXCEPT ![o] = s] /\ job' = job
    BY <1>7, <2>1 DEF Plays
  <2> HIDE DEF s
  <2> QED
    BY <1>1, <2>2, <2>3 DEF Reserved
<1> QED
  BY <1>2, <1>3, <1>4, <1>5, <1>6, <1>7 DEF Playback

LEMMA ChangeZoneAttends ==
  ASSUME TypeOK, NEW r \in Player, ChangeZone(r), NEW p \in Output,
         \A o \in Output : Searched(o)
  PROVE  Searched(p)'
<1>t. q \in [Output -> Queues] /\ job \in [Output -> Jobs] /\ r \in Output
  BY DEF TypeOK, Output
<1>1. CASE StartMove(r) \/ WriteRecord(r)
  BY <1>1 DEF StartMove, WriteRecord, Searched, Reserved
<1>2. CASE CancelPlayer(r)
  BY <1>2, <1>t, CancelEndsReservation DEF CancelPlayer, Cancel
<1>3. CASE CancelZone(r)
  <2>1. CASE p \in Zone
    <3>1. q'[p] = Cancelled(q[p])
      BY <1>3, <2>1 DEF CancelZone
    <3> QED
      BY <3>1 DEF Searched, Reserved, Cancelled
  <2>2. CASE p \notin Zone
    <3>1. q'[p] = q[p]
      BY <1>3, <2>2 DEF CancelZone
    <3>2. job'[p].phase = job[p].phase /\ (job[p].current => job'[p].current)
      BY <1>t, <1>3, <2>2 DEF CancelZone, Jobs
    <3> QED
      BY <3>1, <3>2 DEF Searched, Reserved
  <2> QED
    BY <2>1, <2>2
<1> QED
  BY <1>1, <1>2, <1>3 DEF ChangeZone

LEMMA AttendedStep == TypeOK /\ Attended /\ [Next]_vars => Attended'
<1> SUFFICES ASSUME TypeOK, Attended, [Next]_vars, enabled', toggles' = 0
             PROVE  Attended'
  BY DEF Attended
<1>1. ASSUME NEW c \in Client, Setting(c), toggles' # toggles PROVE FALSE
  <2>1. toggles' = toggles + 1
    BY <1>1 DEF Setting, SwitchOn, SwitchOff, RequestAborted, RequestCancels
  <2>2. toggles \in Nat
    BY AutoplayAssumption DEF TypeOK
  <2> QED
    BY <2>1, <2>2
<1>2. enabled /\ toggles = 0
  <2>1. CASE Loop
    BY <2>1 DEF Loop, Tick, EndPass, Schedule, LoopCancels, Reap
  <2>2. ASSUME NEW o \in Output, Job(o) PROVE enabled /\ toggles = 0
    BY <2>2 DEF Job, JobGivesUp, JobBegins, JobReadsSwitch, JobReadsRecord,
       JobCancels, JobIsStale, JobFindsNothing, JobAppends, JobFails, JobGoes,
       unchangedByJob
  <2>3. ASSUME NEW o \in Output, Playback(o) PROVE enabled /\ toggles = 0
    BY <2>3 DEF Playback, Advances, Drains, AsksNext, RequestResume, Edits,
       Plays, unchangedByQueue
  <2>4. ASSUME NEW c \in Client, Setting(c) PROVE enabled /\ toggles = 0
    <3>1. toggles' = toggles
      BY <1>1, <2>4
    <3>2. toggles \in Nat /\ toggles + 1 # toggles
      BY AutoplayAssumption DEF TypeOK
    <3>3. enabled' = enabled
      BY <2>4, <3>1, <3>2 DEF Setting, SwitchOn, SwitchOff, RequestAborted,
         RequestCancels
    <3> QED
      BY <3>1, <3>3
  <2>5. ASSUME NEW r \in Player, ChangeZone(r) PROVE enabled /\ toggles = 0
    BY <2>5 DEF ChangeZone, StartMove, CancelPlayer, CancelZone, WriteRecord,
       Move
  <2> QED
    BY <2>1, <2>2, <2>3, <2>4, <2>5 DEF Next, vars
<1>3. /\ wasEnabled /\ pass.mode # "cancelling"
      /\ \A o \in Output : Searched(o)
  BY <1>2 DEF Attended
<1>4. CASE Loop
  BY <1>2, <1>4, LoopAttends
<1>5. ASSUME NEW o \in Output, Job(o) PROVE Attended'
  <2>1. \A p \in Output : Searched(p)'
    BY <1>3, <1>5, JobAttends
  <2>2. pass' = pass /\ wasEnabled' = wasEnabled
    BY <1>5 DEF Job, JobGivesUp, JobBegins, JobReadsSwitch, JobReadsRecord,
       JobCancels, JobIsStale, JobFindsNothing, JobAppends, JobFails, JobGoes,
       unchangedByJob
  <2> QED
    BY <1>3, <2>1, <2>2 DEF Attended
<1>6. ASSUME NEW o \in Output, Playback(o) PROVE Attended'
  <2>1. \A p \in Output : Searched(p)'
    BY <1>3, <1>6, PlaybackAttends
  <2>2. pass' = pass /\ wasEnabled' = wasEnabled
    BY <1>6 DEF Playback, Advances, Drains, AsksNext, RequestResume, Edits,
       Plays, unchangedByQueue
  <2> QED
    BY <1>3, <2>1, <2>2 DEF Attended
<1>7. ASSUME NEW c \in Client, Setting(c) PROVE Attended'
  <2>1. pass' = pass /\ wasEnabled' = wasEnabled
    BY <1>7 DEF Setting, SwitchOn, SwitchOff, RequestAborted, RequestCancels
  <2>2. ASSUME NEW p \in Output PROVE Searched(p)'
    <3>1. CASE q' = q /\ job' = job
      BY <1>3, <3>1 DEF Searched, Reserved
    <3>2. ASSUME NEW o \in Output, RequestCancels(c, o) PROVE Searched(p)'
      BY <1>3, <3>2, CancelEndsReservation DEF RequestCancels, Cancel
    <3> QED
      BY <1>7, <3>1, <3>2 DEF Setting, SwitchOn, SwitchOff, RequestAborted
  <2> QED
    BY <1>3, <2>1, <2>2 DEF Attended
<1>8. ASSUME NEW r \in Player, ChangeZone(r) PROVE Attended'
  <2>1. \A p \in Output : Searched(p)'
    BY <1>3, <1>8, ChangeZoneAttends
  <2>2. pass' = pass /\ wasEnabled' = wasEnabled
    BY <1>8 DEF ChangeZone, StartMove, CancelPlayer, CancelZone, WriteRecord,
       Move
  <2> QED
    BY <1>3, <2>1, <2>2 DEF Attended
<1>9. CASE UNCHANGED vars
  BY <1>9 DEF vars, Attended, Searched, Reserved
<1> QED
  BY <1>4, <1>5, <1>6, <1>7, <1>8, <1>9 DEF Next

\* However lookups, listeners, zones and the loop interleave, a queue stays
\* reserved for a refill only while a job is there to give it back.
THEOREM ReservationsAreAttended == Spec => []ReservationHasJob
<1>1. Init => Attended
  BY DEF Init, Attended, Searched, Reserved, Waiting
<1>2. Attended => ReservationHasJob
  BY DEF Attended, Searched, Reserved, ReservationHasJob
<1> QED
  BY <1>1, <1>2, AttendedStep, TypeCorrect, PTL DEF Spec
=============================================================================
