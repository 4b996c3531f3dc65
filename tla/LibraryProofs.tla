---------------------------- MODULE LibraryProofs -----------------------------
(***************************************************************************)
(* Theorems about Library, for any sources, requests and bounds: every     *)
(* process works on a library of the right shape, no save is lost, and a   *)
(* track or a review goes only when its file was edited or the scan has    *)
(* noted that it could not list it.                                        *)
(***************************************************************************)
EXTENDS Library, TLAPS

USE LibraryAssumption

\* What processes begin with.
LEMMA BeginningsTyped ==
  /\ NoLibrary \in Library /\ Idle \in Job
  /\ \A task \in Task : Begun(task) \in Job /\ Opened(task) \in Job
<1>1. 0 \in Version
  BY SMT DEF Version
<1>2. Plain \in Grouping
  BY DEF Plain, Grouping
<1>3. NoLibrary \in Library
  BY <1>1, <1>2 DEF NoLibrary, Library
<1>4. Idle \in Job
  BY <1>3 DEF Idle, Job, Task
<1>5. ASSUME NEW task \in Task PROVE Begun(task) \in Job /\ Opened(task) \in Job
  BY <1>3, <1>5 DEF Begun, Opened, Idle, Job, Task
<1> QED
  BY <1>3, <1>4, <1>5

\* A scan takes a track over, reads it, or keeps it: the result is a library.
LEMMA TracksTyped ==
  ASSUME NEW made \in Library, NEW prior \in Library, NEW s \in Sources,
         disk \in [Sources -> Version]
  PROVE  /\ BuildTrack(made, prior, s) \in Library
         /\ PriorSourceLibrary(made, prior, s) \in Library
<1>1. Plain \in Grouping
  BY DEF Plain, Grouping
<1>2. /\ made.file \in [Sources -> Version] /\ prior.file \in [Sources -> Version]
      /\ made.grouped \in [Sources -> Grouping]
      /\ prior.grouped \in [Sources -> Grouping]
      /\ made.approved \subseteq Sources /\ prior.approved \subseteq Sources
  BY DEF Library
<1>3. BuildTrack(made, prior, s) \in Library
  BY <1>1, <1>2 DEF BuildTrack, Library
<1>4. PriorSourceLibrary(made, prior, s) \in Library
  BY <1>2 DEF PriorSourceLibrary, Library
<1> QED
  BY <1>3, <1>4

\* Regrouping and reviewing leave a library.
LEMMA RegroupTyped ==
  ASSUME NEW lib \in Library, NEW tracks, NEW artists \in BOOLEAN
  PROVE  Regroup(lib, tracks, artists) \in Library
<1> DEFINE group(s) == IF lib.file[s] = 0 THEN Plain
                       ELSE [enriched |-> <<s, lib.file[s]>> \in tracks,
                             renamed |-> artists]
<1>1. ASSUME NEW s \in Sources PROVE group(s) \in Grouping
  <2>1. (<<s, lib.file[s]>> \in tracks) \in BOOLEAN
    OBVIOUS
  <2> QED
    BY <2>1 DEF Plain, Grouping
<1> HIDE DEF group
<1>2. [s \in Sources |-> group(s)] \in [Sources -> Grouping]
  BY <1>1
<1>3. [lib EXCEPT !.grouped = [s \in Sources |-> group(s)]] \in Library
  BY <1>2 DEF Library
<1> QED
  BY <1>3 DEF Regroup, group

LEMMA ApproveTyped ==
  ASSUME NEW lib \in Library, NEW s \in Sources
  PROVE  Approve(lib, s) \in Library
BY DEF Approve, Library

-----------------------------------------------------------------------------
(* Types. *)

\* Every step of every process keeps the stored library and the jobs typed,
\* and whoever scans holds the rescan lock.
LEMMA TypeStep == TypeOK /\ [Next]_vars => TypeOK'
<1> SUFFICES ASSUME TypeOK, [Next]_vars PROVE TypeOK'
  OBVIOUS
<1> USE DEF Process
<1>t. /\ disk \in [Sources -> Version] /\ offline \subseteq Sources
      /\ library \in Library
      /\ identified \subseteq Track /\ resolved \subseteq identified
      /\ merged \in BOOLEAN /\ pending \in BOOLEAN
      /\ lock \in Process \cup {Nobody} /\ job \in [Process -> Job]
      /\ cache \in [remembered : BOOLEAN, token : BOOLEAN]
      /\ bounds \in [edits : 0 .. MaxEdits, requests : 0 .. MaxRequests,
                     faults : 0 .. MaxFaults]
  BY DEF TypeOK
<1>j. \A p \in Process : /\ job[p].targets \subseteq identified
                         /\ job[p].task \in Scans => lock = p
  BY DEF TypeOK
<1>b. /\ Idle \in Job /\ \A task \in Task : Begun(task) \in Job /\ Opened(task) \in Job
      /\ NoLibrary \in Library
  BY BeginningsTyped
<1>e. /\ Idle.targets = {} /\ Idle.task = "none"
      /\ \A task \in Task : /\ Begun(task).targets = {} /\ Begun(task).task = task
                            /\ Opened(task).targets = {} /\ Opened(task).task = task
  BY DEF Idle, Begun, Opened
<1>c. ASSUME NEW what \in {"edits", "requests", "faults"}, NEW max,
             Counted(what, max),
             what = "edits" => max = MaxEdits,
             what = "requests" => max = MaxRequests,
             what = "faults" => max = MaxFaults
      PROVE  bounds' \in [edits : 0 .. MaxEdits, requests : 0 .. MaxRequests,
                          faults : 0 .. MaxFaults]
  BY <1>c, <1>t DEF Counted
<1>w. Written => cache' \in [remembered : BOOLEAN, token : BOOLEAN]
  BY DEF Written
<1>s. {"regroup", "review", "enrich", "none", "scan", "forced scan", "change"} \subseteq Task
  BY DEF Task, Scans
<1>1. ASSUME NEW p \in Process, ReadRevision(p) PROVE TypeOK'
  BY <1>1, <1>t, <1>j, <1>b, <1>e, <1>s DEF ReadRevision, TypeOK, outside, tables, Scans
<1>2. ASSUME NEW p \in Process, LoadLibrary(p) PROVE TypeOK'
  <2>1. PICK made \in
       CASE job[p].task \in Scans -> {NoLibrary}
         [] job[p].task = "regroup" -> {Regroup(library, resolved, merged)}
         [] OTHER -> {Approve(library, s) : s \in {t \in Sources : library.file[t] # 0}} :
       job' = [job EXCEPT ![p].at = "loaded", ![p].seen = library, ![p].made = made,
                          ![p].left = IF job[p].task \in Scans THEN Sources ELSE {}]
    BY <1>2 DEF LoadLibrary
  <2>2. made \in Library
    BY <2>1, <1>b, <1>t, RegroupTyped, ApproveTyped
  <2> DEFINE left == IF job[p].task \in Scans THEN Sources ELSE {}
             next == [job[p] EXCEPT !.at = "loaded", !.seen = library, !.made = made,
                                    !.left = left]
  <2>5. left \subseteq Sources /\ job[p] \in Job
    BY <1>t
  <2> HIDE DEF left
  <2>6. next \in Job /\ next.task = job[p].task /\ next.targets = job[p].targets
    BY <2>2, <2>5, <1>t DEF Job
  <2>7. job' = [job EXCEPT ![p] = next]
    BY <2>1, <1>t DEF left, Job
  <2> HIDE DEF next
  <2>3. job' \in [Process -> Job]
    BY <2>6, <2>7, <1>t
  <2>4. \A q \in Process : job'[q].task = job[q].task /\ job'[q].targets = job[q].targets
    BY <2>6, <2>7, <1>t
  <2> QED
    BY <1>2, <1>t, <1>j, <2>3, <2>4 DEF LoadLibrary, TypeOK, outside, tables
<1>3. ASSUME NEW p \in Process, NothingToReview(p) PROVE TypeOK'
  BY <1>3, <1>t, <1>j, <1>b, <1>e DEF NothingToReview, TypeOK, outside, tables, Scans
<1>4. ASSUME NEW p \in Process, NEW s \in Sources,
             ScanSource(p, s) \/ ListingFails(p, s)
      PROVE  TypeOK'
  <2>1. job[p].made \in Library /\ job[p].seen \in Library
    BY <1>t DEF Job
  <2>2. PICK made \in Library, missed \in SUBSET Sources :
          Scanned(p, s, made, missed)
    <3>1. job[p].missed \cup {s} \subseteq Sources /\ job[p].missed \subseteq Sources
      BY <1>t DEF Job
    <3>2. /\ BuildTrack(job[p].made, job[p].seen, s) \in Library
          /\ PriorSourceLibrary(job[p].made, job[p].seen, s) \in Library
      BY <2>1, <1>t, TracksTyped
    <3> QED
      BY <1>4, <2>1, <3>1, <3>2 DEF ScanSource, ListingFails
  <2> DEFINE next == [job[p] EXCEPT !.left = @ \ {s}, !.made = made, !.missed = missed]
  <2>3. job' = [job EXCEPT ![p] = next]
    BY <2>2, <1>t DEF Scanned, Job
  <2>7. job[p] \in Job
    BY <1>t
  <2>8. job[p].left \ {s} \subseteq Sources
    BY <2>7 DEF Job
  <2>6. next \in Job /\ next.task = job[p].task /\ next.targets = job[p].targets
    BY <2>2, <2>7, <2>8 DEF Job
  <2> HIDE DEF next
  <2>4. job' \in [Process -> Job]
    BY <2>3, <2>6, <1>t
  <2>5. \A q \in Process : job'[q].task = job[q].task /\ job'[q].targets = job[q].targets
    BY <2>3, <2>6, <1>t
  <2>9. bounds' \in [edits : 0 .. MaxEdits, requests : 0 .. MaxRequests,
                     faults : 0 .. MaxFaults]
    BY <1>4, <1>c, <1>t DEF ScanSource, ListingFails
  <2> QED
    BY <2>2, <1>t, <1>j, <2>4, <2>5, <2>9 DEF Scanned, TypeOK, outside, tables
<1>5. ASSUME NEW p \in Process, Save(p) PROVE TypeOK'
  <2> DEFINE next == Afterwards(p)
  <2>1. next \in Job /\ next.targets = {} /\ next.task \notin Scans
    BY <1>b, <1>e, <1>s DEF Afterwards, Scans
  <2> HIDE DEF next
  <2>2. SaveLibraryAtRevision(p, next)
    BY <1>5 DEF Save, next
  <2>3. /\ library' \in Library
        /\ cache' \in [remembered : BOOLEAN, token : BOOLEAN]
    BY <2>2, <1>t, <1>w DEF SaveLibraryAtRevision, Job
  <2>5. \A q \in Process : job'[q] \in {next, job[q], [job[q] EXCEPT !.fresh = FALSE]}
                            /\ (q = p => job'[q] = next)
    BY <2>2, <1>t DEF SaveLibraryAtRevision
  <2>9. \A q \in Process : [job[q] EXCEPT !.fresh = FALSE] \in Job
    <3>1. ASSUME NEW q \in Process PROVE [job[q] EXCEPT !.fresh = FALSE] \in Job
      <4>1. job[q] \in Job
        BY <1>t
      <4> QED
        BY <4>1 DEF Job
    <3> QED
      BY <3>1
  <2>10. DOMAIN job' = Process /\ job' = [q \in Process |-> job'[q]]
    BY <2>2, <1>t DEF SaveLibraryAtRevision
  <2>4. job' \in [Process -> Job]
    BY <2>1, <2>5, <2>9, <2>10, <1>t
  <2>11. \A q \in Process : q # p =>
           job'[q].task = job[q].task /\ job'[q].targets = job[q].targets
    BY <2>2, <1>t DEF SaveLibraryAtRevision, Job
  <2>6. \A q \in Process : job'[q].targets \subseteq identified
    BY <2>1, <2>5, <2>11, <1>j
  <2>7. \A q \in Process : job'[q].task \in Scans => lock' = q
    BY <2>1, <2>5, <2>11, <1>j, <1>5 DEF Save
  <2>8. lock' \in Process \cup {Nobody} /\ pending' \in BOOLEAN
    BY <1>5, <1>t DEF Save
  <2> QED
    BY <1>5, <1>t, <2>3, <2>4, <2>6, <2>7, <2>8 DEF Save, TypeOK, outside, tables
<1>6. ASSUME NEW p \in Process, Fails(p) PROVE TypeOK'
  <2>1. PICK next \in {Begun("regroup"), Idle} : job' = [job EXCEPT ![p] = next]
    BY <1>6 DEF Fails
  <2>2. next \in Job /\ next.targets = {} /\ next.task \notin Scans
    BY <1>b, <1>e, <1>s DEF Scans
  <2>3. job' \in [Process -> Job]
    BY <2>1, <2>2, <1>t
  <2>4. \A q \in Process : /\ job'[q].targets \subseteq identified
                           /\ job'[q].task \in Scans => lock' = q
    BY <2>1, <2>2, <1>6, <1>j, <1>t DEF Fails
  <2> QED
    BY <1>6, <1>c, <1>t, <2>3, <2>4 DEF Fails, TypeOK, outside, tables
<1>7. ASSUME Discover PROVE TypeOK'
  BY <1>7, <1>t, <1>j, <1>b, <1>e, <1>s
     DEF Discover, Start, TakeLock, TypeOK, outside, tables, Scans
<1>8. ASSUME NEW r \in Requests, ScanOnChange(r) PROVE TypeOK'
  BY <1>8, <1>c, <1>t, <1>j, <1>b, <1>e, <1>s
     DEF ScanOnChange, Start, TakeLock, TypeOK, outside, tables, Scans
<1>9. ASSUME NEW r \in Requests, Rescan(r) PROVE TypeOK'
  <2>1. PICK task \in {"scan", "forced scan"} : Start(r, task)
    BY <1>9 DEF Rescan
  <2> QED
    BY <1>9, <2>1, <1>c, <1>t, <1>j, <1>b, <1>e, <1>s
       DEF Rescan, Start, TakeLock, TypeOK, outside, tables, Scans
<1>10. ASSUME NEW r \in Requests, Review(r) PROVE TypeOK'
  BY <1>10, <1>c, <1>t, <1>j, <1>b, <1>e, <1>s
     DEF Review, Start, TypeOK, outside, tables, Scans
<1>11. ASSUME NEW r \in Requests, MergeArtists(r) PROVE TypeOK'
  <2>1. merged' \in BOOLEAN
    BY <1>11 DEF MergeArtists
  <2> QED
    BY <1>11, <2>1, <1>c, <1>w, <1>t, <1>j, <1>b, <1>e, <1>s
       DEF MergeArtists, TypeOK, outside, Scans
<1>12. ASSUME NEW at \in {"polled", "empty", "answered"}, NEW targets,
              targets \subseteq identified,
              job' = [job EXCEPT !["worker"] = WorkerAt(at, targets)],
              lock' = lock, identified' = identified
       PROVE  /\ job' \in [Process -> Job]
              /\ \A q \in Process : /\ job'[q].targets \subseteq identified'
                                    /\ job'[q].task \in Scans => lock' = q
  <2>1. WorkerAt(at, targets) \in Job
    BY <1>12, <1>t, <1>b, <1>s DEF WorkerAt, Idle, Job
  <2>2. WorkerAt(at, targets).targets = targets /\ WorkerAt(at, targets).task = "enrich"
    BY DEF WorkerAt, Idle
  <2> QED
    BY <1>12, <2>1, <2>2, <1>t, <1>j DEF Scans
<1>13. ASSUME Poll PROVE TypeOK'
  <2>1. /\ job' = [job EXCEPT !["worker"] = WorkerAt("polled", {})]
        /\ lock' = lock /\ identified' = identified
    BY <1>13 DEF Poll, tables
  <2>2. /\ job' \in [Process -> Job]
        /\ \A q \in Process : /\ job'[q].targets \subseteq identified'
                              /\ job'[q].task \in Scans => lock' = q
    <3> DEFINE targets == {}
    <3>1. targets \subseteq identified
      OBVIOUS
    <3>2. job' = [job EXCEPT !["worker"] = WorkerAt("polled", targets)]
      BY <2>1
    <3> HIDE DEF targets
    <3> QED
      BY <2>1, <3>1, <3>2, <1>12
  <2> QED
    BY <1>13, <2>2, <1>t DEF Poll, TypeOK, outside, tables
<1>14. ASSUME NothingQueued, cache' \in [remembered : BOOLEAN, token : BOOLEAN]
       PROVE  TypeOK'
  BY <1>14, <1>t, <1>j, <1>b, <1>e, <1>s
     DEF NothingQueued, TypeOK, outside, tables, Scans
<1>15. ASSUME PollRemembered PROVE TypeOK'
  BY <1>14, <1>15, <1>t DEF PollRemembered
<1>16. ASSUME Query PROVE TypeOK'
  <2>1. PICK at \in {"empty", "answered"} :
          job' = [job EXCEPT !["worker"] = WorkerAt(at, Queue)]
    BY <1>16 DEF Query
  <2>2. Queue \subseteq identified /\ lock' = lock /\ identified' = identified
    BY <1>16 DEF Queue, Query, tables
  <2>3. /\ job' \in [Process -> Job]
        /\ \A q \in Process : /\ job'[q].targets \subseteq identified'
                              /\ job'[q].task \in Scans => lock' = q
    BY <2>1, <2>2, <1>12
  <2> QED
    BY <1>16, <2>3, <1>t DEF Query, TypeOK, outside, tables
<1>17. ASSUME Remember PROVE TypeOK'
  <2>1. cache' \in [remembered : BOOLEAN, token : BOOLEAN]
    BY <1>17, <1>t DEF Remember
  <2> QED
    BY <1>14, <1>17, <2>1 DEF Remember
<1>18. ASSUME NEW t \in Track, Enrich(t) PROVE TypeOK'
  <2>1. job' \in [Process -> Job]
    BY <1>18, <1>t DEF Enrich, Job
  <2>2. \A q \in Process : /\ job'[q].task = job[q].task
                           /\ job'[q].targets \subseteq job[q].targets
    BY <1>18, <1>t DEF Enrich, Job
  <2>3. resolved' \subseteq identified
    BY <1>18, <1>t, <1>j DEF Enrich
  <2>4. cache' \in [remembered : BOOLEAN, token : BOOLEAN]
    BY <1>18, <1>t, <1>w DEF Enrich
  <2>5. bounds' \in [edits : 0 .. MaxEdits, requests : 0 .. MaxRequests,
                     faults : 0 .. MaxFaults]
    BY <1>18, <1>t, <1>c DEF Enrich
  <2> QED
    BY <1>18, <1>t, <1>j, <2>1, <2>2, <2>3, <2>4, <2>5 DEF Enrich, TypeOK, outside
<1>19. ASSUME PassEnds PROVE TypeOK'
  BY <1>19, <1>t, <1>j, <1>b, <1>e DEF PassEnds, TypeOK, outside, tables, Scans
<1>20. ASSUME NEW s \in Sources, Identify(s) PROVE TypeOK'
  <2>1. library.file[s] \in Version /\ library.file[s] # 0
    BY <1>20, <1>t DEF Identify, Library
  <2>2. <<s, library.file[s]>> \in Track
    BY <2>1 DEF Track, Version
  <2> QED
    BY <1>20, <2>2, <1>w, <1>t, <1>j DEF Identify, TypeOK, outside
<1>21. ASSUME NEW s \in Sources, Edit(s) PROVE TypeOK'
  <2>1. bounds.edits \in 0 .. MaxEdits /\ bounds.edits < MaxEdits
    BY <1>21, <1>t DEF Edit, Counted
  <2>2. {0, bounds.edits + 2} \subseteq Version
    BY <2>1 DEF Version
  <2>3. disk' \in [Sources -> Version]
    BY <1>21, <2>2, <1>t DEF Edit
  <2> QED
    BY <1>21, <2>3, <1>c, <1>t, <1>j DEF Edit, TypeOK, tables
<1>22. ASSUME NEW s \in Sources, GoOffline(s) PROVE TypeOK'
  BY <1>22, <1>c, <1>t, <1>j DEF GoOffline, TypeOK, tables
<1>23. ASSUME NEW s \in Sources, ComeBack(s) PROVE TypeOK'
  BY <1>23, <1>t, <1>j DEF ComeBack, TypeOK, tables
<1>24. ASSUME Restart PROVE TypeOK'
  BY <1>24, <1>c, <1>t, <1>b, <1>e, <1>s DEF Restart, TypeOK, tables, Scans
<1>25. CASE UNCHANGED vars
  BY <1>25, <1>t, <1>j DEF vars, TypeOK
<1> QED
  BY <1>1, <1>2, <1>3, <1>4, <1>5, <1>6, <1>7, <1>8, <1>9, <1>10, <1>11, <1>13,
     <1>15, <1>16, <1>17, <1>18, <1>19, <1>20, <1>21, <1>22, <1>23, <1>24, <1>25
     DEF Next, Rewrite, Faults, WorkerSteps

\* The stored library, the files, the jobs' drafts and the queue cache keep
\* their types, whatever runs at once and wherever it fails.
THEOREM LibraryTyped == Spec => []TypeOK
<1>1. Init => TypeOK
  <2> SUFFICES ASSUME Init PROVE TypeOK
    OBVIOUS
  <2>1. /\ Idle \in Job /\ Begun("regroup") \in Job /\ NoLibrary \in Library
        /\ Idle.targets = {} /\ Begun("regroup").targets = {}
        /\ Idle.task = "none" /\ Begun("regroup").task = "regroup"
    BY BeginningsTyped DEF Task, Idle, Begun
  <2>2. {0, 1} \subseteq Version /\ {MaxEdits, MaxRequests, MaxFaults} \subseteq Nat
    BY DEF Version
  <2>3. bounds \in [edits : 0 .. MaxEdits, requests : 0 .. MaxRequests,
                    faults : 0 .. MaxFaults]
    BY <2>2 DEF Init
  <2> QED
    BY <2>1, <2>2, <2>3 DEF Init, TypeOK, Scans
<1> QED
  BY <1>1, TypeStep, PTL DEF Spec

-----------------------------------------------------------------------------
(* No save is lost.                                                        *)

\* What a process has read, it has read of the library stored now, unless a
\* save has come in between and cleared its flag.
Reads == \A p \in Process :
           job[p].fresh /\ job[p].at = "loaded" => job[p].seen = library

\* Only a save replaces the library: by what was made of the library stored.
LEMMA SaveReplacesWhatWasRead ==
  ASSUME TypeOK, Reads, NEW p \in Process, Save(p), library' # library
  PROVE  /\ job[p].at = "loaded" /\ job'[p] # job[p] /\ job[p].seen = library
         /\ library' = job[p].made /\ job[p].left = {}
<1>1. job \in [Process -> Job]
  BY DEF TypeOK
<1>2. /\ job[p].at = "loaded" /\ job[p].left = {}
      /\ SaveLibraryAtRevision(p, Afterwards(p))
  BY DEF Save
<1>3. job[p].fresh /\ library' = job[p].made /\ job'[p] = Afterwards(p)
  BY <1>1, <1>2 DEF SaveLibraryAtRevision
<1>4. Afterwards(p).at # "loaded"
  BY DEF Afterwards, Begun, Idle
<1> QED
  BY <1>2, <1>3, <1>4 DEF Reads

\* All other steps leave the library alone.
LEMMA OnlySavesReplace ==
  [Next]_vars /\ library' # library => \E p \in Process : Save(p)
<1> SUFFICES ASSUME Next, library' # library PROVE \E p \in Process : Save(p)
  BY DEF vars
<1>1. ASSUME NEW p \in Process, Rewrite(p) PROVE Save(p)
  BY <1>1 DEF Rewrite, ReadRevision, LoadLibrary, NothingToReview, ScanSource,
              Scanned
<1>2. ASSUME NEW p \in Process PROVE ~Faults(p)
  BY DEF Faults, Fails, ListingFails, Scanned
<1>3. ~Discover
  BY DEF Discover
<1>4. ASSUME NEW r \in Requests
      PROVE  ~(ScanOnChange(r) \/ Rescan(r) \/ Review(r) \/ MergeArtists(r))
  BY DEF ScanOnChange, Rescan, Review, MergeArtists
<1>5. ~WorkerSteps
  BY DEF WorkerSteps, Poll, PollRemembered, NothingQueued, Query, Remember, Enrich,
         PassEnds
<1>6. ASSUME NEW s \in Sources
      PROVE  ~(Identify(s) \/ Edit(s) \/ GoOffline(s) \/ ComeBack(s))
  BY DEF Identify, Edit, GoOffline, ComeBack
<1>7. ~Restart
  BY DEF Restart
<1> QED
  BY <1>1, <1>2, <1>3, <1>4, <1>5, <1>6, <1>7 DEF Next

\* What a step may make of a process's job: it is not (or no longer) about to
\* save, it is as it was, it has just read the library, or has scanned a source.
HasScanned(q, s) == ScanSource(q, s) \/ ListingFails(q, s)

LEMMA JobSteps ==
  ASSUME TypeOK, [Next]_vars, NEW q \in Process
  PROVE  \/ job'[q].at # "loaded"
         \/ /\ job'[q].at = job[q].at /\ job'[q].seen = job[q].seen
            /\ job'[q].made = job[q].made /\ job'[q].left = job[q].left
            /\ job'[q].missed = job[q].missed
            /\ job'[q].fresh => job[q].fresh
         \/ LoadLibrary(q)
         \/ \E s \in Sources : HasScanned(q, s)
<1> DEFINE Same == /\ job'[q].at = job[q].at /\ job'[q].seen = job[q].seen
                   /\ job'[q].made = job[q].made /\ job'[q].left = job[q].left
                   /\ job'[q].missed = job[q].missed
                   /\ job'[q].fresh => job[q].fresh
           Goal == \/ job'[q].at # "loaded" \/ Same \/ LoadLibrary(q)
                   \/ \E s \in Sources : HasScanned(q, s)
<1>1. job \in [Process -> Job]
  BY DEF TypeOK
<1>2. /\ Idle.at # "loaded"
      /\ \A task : Begun(task).at # "loaded" /\ Opened(task).at # "loaded"
  BY DEF Idle, Begun, Opened
<1>3. \A at, targets : WorkerAt(at, targets).at = at
  BY DEF WorkerAt, Idle
<1>4. ASSUME job' = job PROVE Goal
  BY <1>4
<1>5. ASSUME NEW p \in Process, NEW next, next.at # "loaded",
             job' = [job EXCEPT ![p] = next]
      PROVE  Goal
  BY <1>1, <1>5
<1>6. ASSUME NEW p \in Process, Rewrite(p) PROVE Goal
  <2>1. CASE ReadRevision(p)
    BY <2>1, <1>2, <1>5 DEF ReadRevision
  <2>2. CASE LoadLibrary(p)
    <3>1. CASE q = p
      BY <2>2, <3>1
    <3>2. CASE q # p
      <4>1. job'[q] = job[q]
        BY <2>2, <3>2, <1>1 DEF LoadLibrary
      <4> QED
        BY <4>1
    <3> QED
      BY <3>1, <3>2
  <2>3. CASE NothingToReview(p)
    BY <2>3, <1>2, <1>5 DEF NothingToReview
  <2>4. CASE \E s \in Sources : ScanSource(p, s)
    BY <2>4, <1>1 DEF HasScanned, ScanSource, Scanned
  <2>5. CASE Save(p)
    <3>1. Afterwards(p).at # "loaded" /\ SaveLibraryAtRevision(p, Afterwards(p))
      BY <2>5, <1>2 DEF Save, Afterwards
    <3>2. CASE q = p
      BY <3>1, <3>2, <1>1 DEF SaveLibraryAtRevision
    <3>3. CASE q # p
      <4>1. job'[q] \in {job[q], [job[q] EXCEPT !.fresh = FALSE]} /\ job[q] \in Job
        BY <3>1, <3>3, <1>1 DEF SaveLibraryAtRevision
      <4> QED
        BY <4>1 DEF Job
    <3> QED
      BY <3>2, <3>3
  <2> QED
    BY <1>6, <2>1, <2>2, <2>3, <2>4, <2>5 DEF Rewrite
<1>7. ASSUME NEW p \in Process, Faults(p) PROVE Goal
  <2>1. CASE Fails(p)
    BY <2>1, <1>2, <1>5 DEF Fails
  <2>2. CASE \E s \in Sources : ListingFails(p, s)
    BY <2>2, <1>1 DEF HasScanned, ListingFails, Scanned
  <2> QED
    BY <1>7, <2>1, <2>2 DEF Faults
<1>8. ASSUME NEW p \in Process, NEW task, Start(p, task) PROVE Goal
  BY <1>8, <1>2, <1>5 DEF Start
<1>9. "discovery" \in Process /\ "worker" \in Process /\ Requests \subseteq Process
  BY DEF Process
<1>10. CASE Discover
  BY <1>8, <1>9, <1>10 DEF Discover
<1>11. ASSUME NEW r \in Requests,
              ScanOnChange(r) \/ Rescan(r) \/ Review(r) \/ MergeArtists(r)
       PROVE  Goal
  <2>1. CASE MergeArtists(r)
    BY <2>1, <1>2, <1>5, <1>9 DEF MergeArtists
  <2>2. CASE ScanOnChange(r) \/ Rescan(r) \/ Review(r)
    BY <2>2, <1>8, <1>9 DEF ScanOnChange, Rescan, Review
  <2> QED
    BY <1>11, <2>1, <2>2
<1>12. CASE WorkerSteps
  <2>1. ASSUME NothingQueued PROVE Goal
    BY <2>1, <1>2, <1>5, <1>9 DEF NothingQueued
  <2>2. ASSUME NEW t \in Track, Enrich(t) PROVE Goal
    <3>1. job["worker"] \in Job /\ job["worker"].at = "answered"
      BY <2>2, <1>1, <1>9 DEF Enrich
    <3>2. [job["worker"] EXCEPT !.targets = @ \ {t}].at # "loaded"
      BY <3>1 DEF Job
    <3>3. job' = [job EXCEPT !["worker"] = [job["worker"] EXCEPT !.targets = @ \ {t}]]
      BY <2>2 DEF Enrich
    <3> QED
      BY <3>2, <3>3, <1>5, <1>9
  <2>3. CASE Poll \/ Query \/ PassEnds
    BY <2>3, <1>2, <1>3, <1>5, <1>9 DEF Poll, Query, PassEnds
  <2>4. CASE PollRemembered \/ Remember
    BY <2>1, <2>4 DEF PollRemembered, Remember
  <2> QED
    BY <1>12, <2>2, <2>3, <2>4 DEF WorkerSteps
<1>13. ASSUME NEW s \in Sources, Identify(s) \/ Edit(s) \/ GoOffline(s) \/ ComeBack(s)
       PROVE  Goal
  BY <1>4, <1>13 DEF Identify, Edit, GoOffline, ComeBack
<1>14. CASE Restart
  BY <1>2, <1>14 DEF Restart
<1>15. CASE UNCHANGED vars
  BY <1>4, <1>15 DEF vars
<1> QED
  BY <1>6, <1>7, <1>10, <1>11, <1>12, <1>13, <1>14, <1>15 DEF Next

LEMMA ReadsStep == TypeOK /\ Reads /\ [Next]_vars => Reads'
<1> SUFFICES ASSUME TypeOK, Reads, [Next]_vars, NEW q \in Process,
                    job'[q].fresh, job'[q].at = "loaded"
             PROVE  job'[q].seen = library'
  BY DEF Reads, Process
<1>1. job \in [Process -> Job]
  BY DEF TypeOK
<1>2. CASE library' # library
  <2>1. PICK p \in Process : Save(p)
    BY <1>2, OnlySavesReplace
  <2>2. SaveLibraryAtRevision(p, Afterwards(p))
    BY <2>1 DEF Save
  <2>3. Afterwards(p).at # "loaded"
    BY DEF Afterwards, Begun, Idle
  <2>4. q # p /\ job'[q] = [job[q] EXCEPT !.fresh = FALSE]
    BY <1>1, <1>2, <2>2, <2>3 DEF SaveLibraryAtRevision
  <2>5. job[q] \in Job
    BY <1>1
  <2> QED
    BY <2>4, <2>5 DEF Job
<1>3. CASE library' = library
  <2>1. CASE LoadLibrary(q)
    BY <1>1, <1>3, <2>1 DEF LoadLibrary, Job
  <2>2. CASE \E s \in Sources : HasScanned(q, s)
    <3>1. PICK s \in Sources : HasScanned(q, s)
      BY <2>2
    <3>2. PICK made, missed : Scanned(q, s, made, missed)
      BY <3>1 DEF HasScanned, ScanSource, ListingFails
    <3>3. /\ job[q].at = "loaded"
          /\ job' = [job EXCEPT ![q].left = @ \ {s}, ![q].made = made,
                                ![q].missed = missed]
      BY <3>2 DEF Scanned
    <3>4. job[q] \in Job
      BY <1>1
    <3>5. /\ job'[q].seen = job[q].seen /\ job'[q].fresh = job[q].fresh
          /\ job[q].at = "loaded"
      BY <3>3, <3>4, <1>1 DEF Job
    <3> QED
      BY <1>3, <3>5 DEF Reads
  <2> QED
    BY <1>3, <2>1, <2>2, JobSteps DEF Reads
<1> QED
  BY <1>2, <1>3

\* Whatever scans, reviews, merges and enriches at once: a save replaces the
\* library it was made from, and no other.
THEOREM NoSaveIsLost == Spec => NoLostUpdate
<1>1. Init => Reads
  BY DEF Init, Reads, Begun, Idle, Process
<1>2. ASSUME TypeOK, Reads, [Next]_vars, library' # library
      PROVE  \E p \in Process : /\ job[p].at = "loaded" /\ job'[p] # job[p]
                                /\ job[p].seen = library
  BY <1>2, OnlySavesReplace, SaveReplacesWhatWasRead
<1>3. TypeOK /\ Reads /\ [Next]_vars =>
        [library' # library =>
           \E p \in Process : /\ job[p].at = "loaded" /\ job'[p] # job[p]
                              /\ job[p].seen = library]_vars
  BY <1>2
<1> QED
  BY <1>1, <1>3, ReadsStep, LibraryTyped, PTL DEF Spec, NoLostUpdate

-----------------------------------------------------------------------------
(* Nothing goes without cause.                                             *)

\* Versions are numbered on, and only a track that is there is reviewed.
Sane(lib) == \A s \in Sources : /\ lib.file[s] =< bounds.edits + 1
                                /\ s \in lib.approved => lib.file[s] # 0

\* What a job has changed or dropped so far, it had cause to, or has noted it.
Kept(p) == \A s \in Sources \ (job[p].left \cup job[p].missed) :
  \/ job[p].seen.file[s] # 0 /\ job[p].made.file[s] # job[p].seen.file[s]
  \/ s \in job[p].seen.approved \ job[p].made.approved
  => disk[s] # job[p].seen.file[s]

Accounted ==
  /\ Sane(library)
  /\ \A s \in Sources : disk[s] =< bounds.edits + 1
  /\ \A p \in Process : job[p].at = "loaded" =>
       /\ Sane(job[p].seen) /\ Sane(job[p].made)
       /\ job[p].made.approved \cap job[p].left = {}
       /\ Kept(p)

\* The files change by edits alone, and an edit never brings a version back.
LEMMA EditsGoOn ==
  ASSUME TypeOK, [Next]_vars, NEW s \in Sources
  PROVE  /\ bounds.edits \in Nat /\ bounds'.edits \in Nat
         /\ bounds.edits =< bounds'.edits
         /\ \/ disk'[s] = disk[s]
            \/ disk'[s] = 0
            \/ disk'[s] = bounds.edits + 2 /\ bounds'.edits = bounds.edits + 1
<1>1. TypeOK'
  BY TypeStep
<1>2. /\ disk \in [Sources -> Version]
      /\ bounds \in [edits : 0 .. MaxEdits, requests : 0 .. MaxRequests,
                     faults : 0 .. MaxFaults]
      /\ bounds' \in [edits : 0 .. MaxEdits, requests : 0 .. MaxRequests,
                      faults : 0 .. MaxFaults]
  BY <1>1 DEF TypeOK
<1>3. bounds.edits \in Nat /\ bounds'.edits \in Nat
  BY <1>2
<1>4. ASSUME NEW what \in {"requests", "faults"}, NEW max, Counted(what, max)
      PROVE  bounds'.edits = bounds.edits
  BY <1>2, <1>4 DEF Counted
<1>5. CASE \E t \in Sources : Edit(t)
  <2>1. PICK t \in Sources : Edit(t)
    BY <1>5
  <2>2. bounds'.edits = bounds.edits + 1
    BY <2>1, <1>2 DEF Edit, Counted
  <2>3. PICK v \in {0, bounds.edits + 2} : disk' = [disk EXCEPT ![t] = v]
    BY <2>1 DEF Edit
  <2> QED
    BY <2>2, <2>3, <1>2, <1>3
<1>6. CASE ~\E t \in Sources : Edit(t)
  <2>1. disk' = disk /\ bounds'.edits = bounds.edits
    <3>1. ASSUME NEW p \in Process, Rewrite(p) \/ Faults(p)
          PROVE  disk' = disk /\ bounds'.edits = bounds.edits
      BY <3>1, <1>4 DEF Rewrite, ReadRevision, LoadLibrary, NothingToReview,
         ScanSource, Scanned, Save, Faults, Fails, ListingFails, outside
    <3>2. ASSUME Discover PROVE disk' = disk /\ bounds'.edits = bounds.edits
      BY <3>2 DEF Discover, outside
    <3>3. ASSUME NEW r \in Requests,
                 ScanOnChange(r) \/ Rescan(r) \/ Review(r) \/ MergeArtists(r)
          PROVE  disk' = disk /\ bounds'.edits = bounds.edits
      BY <3>3, <1>4 DEF ScanOnChange, Rescan, Review, MergeArtists, outside
    <3>4. ASSUME WorkerSteps PROVE disk' = disk /\ bounds'.edits = bounds.edits
      BY <3>4, <1>4 DEF WorkerSteps, Poll, PollRemembered, NothingQueued, Query,
         Remember, Enrich, PassEnds, outside
    <3>5. ASSUME NEW t \in Sources, Identify(t) \/ GoOffline(t) \/ ComeBack(t)
          PROVE  disk' = disk /\ bounds'.edits = bounds.edits
      BY <3>5, <1>4 DEF Identify, GoOffline, ComeBack, outside
    <3>6. ASSUME Restart PROVE disk' = disk /\ bounds'.edits = bounds.edits
      BY <3>6, <1>4 DEF Restart
    <3>7. CASE UNCHANGED vars
      BY <3>7 DEF vars
    <3> QED
      BY <1>6, <3>1, <3>2, <3>3, <3>4, <3>5, <3>6, <3>7 DEF Next
  <2>2. disk'[s] = disk[s]
    BY <2>1
  <2>3. bounds.edits =< bounds'.edits
    BY <2>1, <1>3
  <2> QED
    BY <2>2, <2>3, <1>3
<1> QED
  BY <1>5, <1>6

\* A library read or made before an edit stays one of numbered versions.
LEMMA SaneStays ==
  ASSUME TypeOK, [Next]_vars, NEW lib \in Library, Sane(lib)
  PROVE  \A s \in Sources : /\ lib.file[s] =< bounds'.edits + 1
                            /\ s \in lib.approved => lib.file[s] # 0
<1> SUFFICES ASSUME NEW s \in Sources
             PROVE  /\ lib.file[s] =< bounds'.edits + 1
                    /\ s \in lib.approved => lib.file[s] # 0
  OBVIOUS
<1>1. lib.file[s] \in Int
  BY DEF Library, Version
<1>2. lib.file[s] =< bounds.edits + 1 /\ (s \in lib.approved => lib.file[s] # 0)
  BY DEF Sane
<1>3. /\ bounds.edits \in Nat /\ bounds'.edits \in Nat
      /\ bounds.edits =< bounds'.edits
  BY EditsGoOn
<1>4. lib.file[s] =< bounds'.edits + 1
  BY <1>1, <1>2, <1>3
<1> QED
  BY <1>2, <1>4

\* What a job had cause to change, no edit makes it wrong to change.
LEMMA KeptStays ==
  ASSUME TypeOK, [Next]_vars, NEW p \in Process, Sane(job[p].seen), Kept(p),
         NEW s \in Sources \ (job[p].left \cup job[p].missed),
         \/ job[p].seen.file[s] # 0 /\ job[p].made.file[s] # job[p].seen.file[s]
         \/ s \in job[p].seen.approved \ job[p].made.approved
  PROVE  disk'[s] # job[p].seen.file[s]
<1>1. job[p].seen.file[s] \in Int
  BY DEF TypeOK, Job, Library, Version
<1>2. job[p].seen.file[s] # 0 /\ job[p].seen.file[s] =< bounds.edits + 1
  BY DEF Sane
<1>3. disk[s] # job[p].seen.file[s]
  BY DEF Kept
<1>4. /\ bounds.edits \in Nat
      /\ \/ disk'[s] = disk[s]
         \/ disk'[s] = 0
         \/ disk'[s] = bounds.edits + 2
  BY EditsGoOn
<1>5. CASE disk'[s] = bounds.edits + 2
  BY <1>1, <1>2, <1>4, <1>5
<1> QED
  BY <1>2, <1>3, <1>4, <1>5

LEMMA AccountedStep == TypeOK /\ Accounted /\ [Next]_vars => Accounted'
<1> SUFFICES ASSUME TypeOK, Accounted, [Next]_vars PROVE Accounted'
  OBVIOUS
<1>1. /\ job \in [Process -> Job] /\ library \in Library
      /\ disk \in [Sources -> Version]
  BY DEF TypeOK
<1>2. Sane(library)'
  <2>1. CASE library' = library
    BY <1>1, <2>1, SaneStays DEF Accounted, Sane
  <2>2. CASE library' # library
    <3>1. PICK p \in Process : Save(p)
      BY <2>2, OnlySavesReplace
    <3>2. job[p].at = "loaded" /\ library' = job[p].made
      BY <2>2, <3>1 DEF Save, SaveLibraryAtRevision
    <3>3. Sane(job[p].made) /\ job[p].made \in Library
      BY <1>1, <3>2 DEF Accounted, Job
    <3> QED
      BY <3>2, <3>3, SaneStays DEF Sane
  <2> QED
    BY <2>1, <2>2
<1>3. \A s \in Sources : disk'[s] =< bounds'.edits + 1
  <2> SUFFICES ASSUME NEW s \in Sources PROVE disk'[s] =< bounds'.edits + 1
    OBVIOUS
  <2>1. disk[s] \in Int /\ disk[s] =< bounds.edits + 1
    BY <1>1 DEF Accounted, Version
  <2>2. /\ bounds.edits \in Nat /\ bounds'.edits \in Nat
        /\ bounds.edits =< bounds'.edits
        /\ \/ disk'[s] = disk[s]
           \/ disk'[s] = 0
           \/ disk'[s] = bounds.edits + 2 /\ bounds'.edits = bounds.edits + 1
    BY EditsGoOn
  <2> QED
    BY <2>1, <2>2
<1>4. ASSUME NEW q \in Process, job'[q].at = "loaded"
      PROVE  /\ Sane(job[q].seen)' /\ Sane(job[q].made)'
             /\ job'[q].made.approved \cap job'[q].left = {}
             /\ Kept(q)'
  <2>1. CASE /\ job'[q].at = job[q].at /\ job'[q].seen = job[q].seen
             /\ job'[q].made = job[q].made /\ job'[q].left = job[q].left
             /\ job'[q].missed = job[q].missed
    <3>1. /\ Sane(job[q].seen) /\ Sane(job[q].made) /\ Kept(q)
          /\ job[q].made.approved \cap job[q].left = {}
          /\ job[q].seen \in Library /\ job[q].made \in Library
      BY <1>1, <1>4, <2>1 DEF Accounted, Job
    <3>2. Sane(job[q].seen)' /\ Sane(job[q].made)'
      BY <2>1, <3>1, SaneStays DEF Sane
    <3>3. Kept(q)'
      BY <2>1, <3>1, KeptStays DEF Kept
    <3> QED
      BY <2>1, <3>1, <3>2, <3>3
  <2>2. CASE LoadLibrary(q)
    <3>1. PICK made \in
       CASE job[q].task \in Scans -> {NoLibrary}
         [] job[q].task = "regroup" -> {Regroup(library, resolved, merged)}
         [] OTHER -> {Approve(library, s) : s \in {t \in Sources : library.file[t] # 0}} :
       job' = [job EXCEPT ![q].at = "loaded", ![q].seen = library, ![q].made = made,
                          ![q].left = IF job[q].task \in Scans THEN Sources ELSE {}]
      BY <2>2 DEF LoadLibrary
    <3>2. /\ job'[q].seen = library /\ job'[q].made = made
          /\ job'[q].left = IF job[q].task \in Scans THEN Sources ELSE {}
      BY <3>1, <1>1 DEF Job
    <3>3. UNCHANGED <<disk, library, bounds>> /\ Sane(library)
      BY <2>2 DEF LoadLibrary, outside, Accounted
    <3>4. CASE job[q].task \in Scans
      <4>1. made = NoLibrary /\ job'[q].left = Sources
        BY <3>1, <3>2, <3>4 DEF Scans
      <4>2. /\ NoLibrary.approved = {}
            /\ \A s \in Sources : NoLibrary.file[s] = 0
        BY DEF NoLibrary
      <4>3. bounds.edits \in Nat
        <5>1. bounds.edits \in 0 .. MaxEdits
          BY DEF TypeOK
        <5> QED
          BY <5>1
      <4>4. Sane(job[q].made)'
        BY <3>2, <3>3, <4>1, <4>2, <4>3 DEF Sane
      <4> QED
        BY <3>2, <3>3, <4>1, <4>2, <4>4 DEF Sane, Kept
    <3>5. CASE job[q].task \notin Scans
      <4>1. /\ made.file = library.file
            /\ made.approved = library.approved
               \/ \E s \in {t \in Sources : library.file[t] # 0} :
                    made.approved = library.approved \cup {s}
        <5>1. CASE job[q].task = "regroup"
          BY <3>1, <3>5, <5>1, <1>1 DEF Regroup, Library
        <5>2. CASE job[q].task # "regroup"
          BY <3>1, <3>5, <5>2, <1>1 DEF Approve, Library
        <5> QED
          BY <5>1, <5>2
      <4>2. job'[q].left = {}
        BY <3>2, <3>5
      <4>3. Sane(job[q].made)' /\ Sane(job[q].seen)'
        BY <3>2, <3>3, <4>1 DEF Sane
      <4>4. Kept(q)'
        BY <3>2, <3>3, <4>1 DEF Kept
      <4> QED
        BY <4>2, <4>3, <4>4
    <3> QED
      BY <3>4, <3>5
  <2>3. ASSUME NEW s \in Sources, HasScanned(q, s)
        PROVE  /\ Sane(job[q].seen)' /\ Sane(job[q].made)'
               /\ job'[q].made.approved \cap job'[q].left = {}
               /\ Kept(q)'
    <3> DEFINE seen == job[q].seen
               old == job[q].made
               new == job'[q].made
    <3>1. /\ Sane(seen) /\ Sane(old) /\ Kept(q)
          /\ old.approved \cap job[q].left = {}
          /\ seen \in Library /\ old \in Library
      BY <1>1, <2>3 DEF Accounted, Job, HasScanned, ScanSource, ListingFails, Scanned
    <3>2. /\ job'[q].seen = seen /\ job'[q].left = job[q].left \ {s}
          /\ \/ /\ new = IF s \in offline THEN PriorSourceLibrary(old, seen, s)
                         ELSE BuildTrack(old, seen, s)
                /\ job'[q].missed = job[q].missed
             \/ new = old /\ job'[q].missed = job[q].missed \cup {s}
      BY <1>1, <2>3 DEF HasScanned, ScanSource, ListingFails, Scanned, Job
    <3>3. /\ UNCHANGED <<disk, library>> /\ s \in job[q].left
          /\ bounds'.edits = bounds.edits /\ bounds.edits \in Nat
      <4>1. /\ bounds \in [edits : 0 .. MaxEdits, requests : 0 .. MaxRequests,
                           faults : 0 .. MaxFaults]
        BY DEF TypeOK
      <4> QED
        BY <2>3, <4>1 DEF HasScanned, ScanSource, ListingFails, Scanned, Counted,
           outside
    <3>4. /\ \A t \in Sources \ {s} : new.file[t] = old.file[t]
          /\ new.file[s] \in {seen.file[s], disk[s], old.file[s]}
          /\ new.approved \ {s} = old.approved \ {s}
          /\ s \in new.approved => s \in seen.approved \cup old.approved
          /\ s \notin job'[q].missed =>
               /\ new.file[s] # seen.file[s] => disk[s] # seen.file[s]
               /\ s \in seen.approved \ new.approved => disk[s] # seen.file[s]
      BY <1>1, <3>1, <3>2 DEF PriorSourceLibrary, BuildTrack, Library
    <3>5. s \in new.approved => s \in seen.approved /\ new.file[s] = seen.file[s]
      BY <1>1, <3>1, <3>2, <3>3 DEF PriorSourceLibrary, BuildTrack, Library
    <3> HIDE DEF seen, old, new
    <3>6. Sane(job[q].seen)'
      BY <3>1, <3>2, <3>3 DEF Sane
    <3>7. Sane(job[q].made)'
      <4>1. \A t \in Sources : disk[t] =< bounds.edits + 1
        BY DEF Accounted
      <4>2. ASSUME NEW t \in Sources
            PROVE  /\ new.file[t] =< bounds.edits + 1
                   /\ t \in new.approved => new.file[t] # 0
        BY <3>1, <3>4, <3>5, <4>1, <4>2 DEF Sane
      <4> QED
        BY <3>3, <4>2 DEF Sane, new
    <3>8. new.approved \cap (job[q].left \ {s}) = {}
      BY <3>1, <3>4
    <3>9. ASSUME NEW t \in Sources \ ((job[q].left \ {s}) \cup job'[q].missed),
                 \/ seen.file[t] # 0 /\ new.file[t] # seen.file[t]
                 \/ t \in seen.approved \ new.approved
          PROVE  disk[t] # seen.file[t]
      <4>1. CASE t = s
        BY <3>4, <3>9, <4>1
      <4>2. CASE t # s
        <5>1. \/ seen.file[t] # 0 /\ old.file[t] # seen.file[t]
              \/ t \in seen.approved \ old.approved
          BY <3>4, <3>9, <4>2
        <5>2. t \in Sources \ (job[q].left \cup job[q].missed)
          BY <3>2, <3>9, <4>2
        <5> QED
          BY <3>1, <5>1, <5>2 DEF Kept, seen, old
      <4> QED
        BY <4>1, <4>2
    <3>10. Kept(q)'
      BY <3>2, <3>3, <3>9 DEF Kept, new
    <3> QED
      BY <3>2, <3>6, <3>7, <3>8, <3>10 DEF new
  <2> QED
    BY <1>4, <2>1, <2>2, <2>3, JobSteps
<1> QED
  BY <1>2, <1>3, <1>4 DEF Accounted, Process

\* A source out of reach, a scan that overlaps a review, an edit in the middle
\* of a scan: a track or a review goes only when its file was edited, or when
\* the scan that drops it has noted that it could not list its directory.
THEOREM NothingGoesWithoutCause == Spec => NothingGoesUnexplained
<1>1. Init => Reads
  BY DEF Init, Reads, Begun, Idle, Process
<1>2. Init => Accounted
  <2> SUFFICES ASSUME Init PROVE Accounted
    OBVIOUS
  <2>1. \A p \in Process : job[p].at # "loaded"
    BY DEF Init, Begun, Idle, Process
  <2>2. bounds.edits = 0 /\ \A s \in Sources : disk[s] = 1
    BY DEF Init
  <2>3. Sane(library)
    BY <2>2 DEF Init, Sane, NoLibrary
  <2> QED
    BY <2>1, <2>2, <2>3 DEF Accounted
<1>3. ASSUME TypeOK, Reads, Accounted, [Next]_vars, NEW s \in Sources,
             \/ library.file[s] # 0 /\ library'.file[s] # library.file[s]
             \/ s \in library.approved \ library'.approved
      PROVE  \/ disk[s] # library.file[s]
             \/ \E p \in Process : /\ job[p].at = "loaded" /\ job'[p] # job[p]
                                   /\ s \in job[p].missed
  <2>1. library' # library
    BY <1>3
  <2>2. PICK p \in Process : Save(p)
    BY <1>3, <2>1, OnlySavesReplace
  <2>3. /\ job[p].at = "loaded" /\ job[p].seen = library
        /\ library' = job[p].made /\ job[p].left = {} /\ job'[p] # job[p]
    BY <1>3, <2>1, <2>2, SaveReplacesWhatWasRead
  <2>4. Kept(p)
    BY <1>3, <2>3 DEF Accounted
  <2> QED
    BY <1>3, <2>3, <2>4 DEF Kept
<1>4. TypeOK /\ Reads /\ Accounted /\ [Next]_vars =>
        [\A s \in Sources :
           \/ library.file[s] # 0 /\ library'.file[s] # library.file[s]
           \/ s \in library.approved \ library'.approved
           => \/ disk[s] # library.file[s]
              \/ \E p \in Process : /\ job[p].at = "loaded" /\ job'[p] # job[p]
                                    /\ s \in job[p].missed]_vars
  BY <1>3
<1> QED
  BY <1>1, <1>2, <1>4, ReadsStep, AccountedStep, LibraryTyped, PTL
     DEF Spec, NothingGoesUnexplained

-----------------------------------------------------------------------------
(* The worker's queue.                                                     *)

\* A token unspent stands for an answer that nothing was committed after.
Vouched ==
  /\ cache.token /\ job["worker"].at = "empty" => Queue = {}
  /\ cache.remembered => Queue = {}

LEMMA VouchedStep == TypeOK /\ Vouched /\ [Next]_vars => Vouched'
<1> SUFFICES ASSUME TypeOK, Vouched, [Next]_vars PROVE Vouched'
  OBVIOUS
<1>1. /\ job \in [Process -> Job] /\ "worker" \in Process
      /\ cache \in [remembered : BOOLEAN, token : BOOLEAN]
  BY DEF TypeOK, Process
<1>2. /\ \A task : Begun(task).at = "begun" /\ Opened(task).at = "revised"
      /\ Idle.at = "idle" /\ \A at, targets : WorkerAt(at, targets).at = at
  BY DEF Begun, Opened, Idle, WorkerAt
<1>3. ASSUME Written PROVE Vouched'
  BY <1>3 DEF Written, Vouched
<1>4. ASSUME cache' = cache, UNCHANGED <<identified, resolved>>,
             job'["worker"].at = "empty" => job["worker"].at = "empty"
      PROVE  Vouched'
  BY <1>4 DEF Vouched, Queue
<1>5. ASSUME NEW p \in Process, NEW next, next.at # "empty",
             job' = [job EXCEPT ![p] = next]
      PROVE  job'["worker"].at = "empty" => job["worker"].at = "empty"
  BY <1>1, <1>5
<1>6. ASSUME NEW p \in Process, Rewrite(p) PROVE Vouched'
  <2>1. CASE ReadRevision(p) \/ NothingToReview(p)
    BY <2>1, <1>2, <1>4, <1>5 DEF ReadRevision, NothingToReview, tables
  <2>2. CASE LoadLibrary(p) \/ \E s \in Sources : ScanSource(p, s)
    <3>1. cache' = cache /\ UNCHANGED <<identified, resolved>>
      BY <2>2 DEF LoadLibrary, ScanSource, Scanned, tables
    <3>2. job'["worker"].at = "empty" => job["worker"].at = "empty"
      <4>1. CASE LoadLibrary(p)
        BY <4>1, <1>1 DEF LoadLibrary, Job
      <4>2. CASE \E s \in Sources : ScanSource(p, s)
        BY <4>2, <1>1 DEF ScanSource, Scanned, Job
      <4> QED
        BY <2>2, <4>1, <4>2
    <3> QED
      BY <3>1, <3>2, <1>4
  <2>3. CASE Save(p)
    <3>1. /\ SaveLibraryAtRevision(p, Afterwards(p)) /\ Afterwards(p).at # "empty"
          /\ UNCHANGED <<identified, resolved>>
      BY <2>3, <1>2 DEF Save, tables, Afterwards
    <3>2. CASE Written
      BY <3>2, <1>3
    <3>3. CASE ~Written
      BY <3>1, <3>3, <1>4, <1>5 DEF SaveLibraryAtRevision
    <3> QED
      BY <3>2, <3>3
  <2> QED
    BY <1>6, <2>1, <2>2, <2>3 DEF Rewrite
<1>7. ASSUME NEW p \in Process, Faults(p) PROVE Vouched'
  <2>1. CASE Fails(p)
    BY <2>1, <1>2, <1>4, <1>5 DEF Fails, tables
  <2>2. CASE \E s \in Sources : ListingFails(p, s)
    <3>1. job'["worker"].at = "empty" => job["worker"].at = "empty"
      BY <2>2, <1>1 DEF ListingFails, Scanned, Job
    <3> QED
      BY <2>2, <3>1, <1>4 DEF ListingFails, Scanned, tables
  <2> QED
    BY <1>7, <2>1, <2>2 DEF Faults
<1>8. Requests \subseteq Process /\ "discovery" \in Process
  BY DEF Process
<1>9. ASSUME NEW p \in Process, NEW task, Start(p, task), cache' = cache,
             UNCHANGED tables
      PROVE  Vouched'
  BY <1>9, <1>2, <1>4, <1>5 DEF Start, tables
<1>10. ASSUME Discover PROVE Vouched'
  BY <1>8, <1>9, <1>10 DEF Discover
<1>11. ASSUME NEW r \in Requests,
              ScanOnChange(r) \/ Rescan(r) \/ Review(r) \/ MergeArtists(r)
       PROVE  Vouched'
  BY <1>3, <1>8, <1>9, <1>11 DEF ScanOnChange, Rescan, Review, MergeArtists
<1>12. ASSUME Poll PROVE Vouched'
  <2>1. job'["worker"].at # "empty"
    BY <1>1, <1>2, <1>12 DEF Poll
  <2>2. cache'.remembered = FALSE
    BY <1>1, <1>12 DEF Poll
  <2> QED
    BY <2>1, <2>2 DEF Vouched
<1>13. ASSUME NothingQueued PROVE job'["worker"].at # "empty" /\ Queue' = Queue
  BY <1>1, <1>2, <1>13 DEF NothingQueued, tables, Queue
<1>14. ASSUME PollRemembered PROVE Vouched'
  BY <1>13, <1>14 DEF PollRemembered, Vouched
<1>15. ASSUME Query PROVE Vouched'
  <2>1. job'["worker"].at = "empty" => Queue = {}
    BY <1>1, <1>2, <1>15 DEF Query
  <2>2. Queue' = Queue /\ cache' = cache
    BY <1>15 DEF Query, tables, Queue
  <2> QED
    BY <2>1, <2>2 DEF Vouched
<1>16. ASSUME Remember PROVE Vouched'
  <2>1. /\ job["worker"].at = "empty" /\ job'["worker"].at # "empty"
        /\ cache' = [remembered |-> cache.token, token |-> FALSE] /\ Queue' = Queue
    BY <1>13, <1>16 DEF Remember
  <2> QED
    BY <2>1 DEF Vouched
<1>17. ASSUME NEW t \in Track, Enrich(t) PROVE Vouched'
  <2>1. CASE Written
    BY <2>1, <1>3
  <2>2. CASE ~Written
    <3>1. cache' = cache /\ UNCHANGED <<identified, resolved>>
      BY <1>17, <2>2 DEF Enrich
    <3>2. job'["worker"].at = "empty" => job["worker"].at = "empty"
      <4>1. job' = [job EXCEPT !["worker"] = [job["worker"] EXCEPT !.targets = @ \ {t}]]
        BY <1>17 DEF Enrich
      <4>2. [job["worker"] EXCEPT !.targets = @ \ {t}].at = job["worker"].at
        BY <1>1 DEF Job
      <4>3. job["worker"].at = "answered"
        BY <1>17 DEF Enrich
      <4> QED
        BY <1>5, <4>1, <4>2, <4>3, <1>1
    <3> QED
      BY <3>1, <3>2, <1>4
  <2> QED
    BY <2>1, <2>2
<1>18. ASSUME PassEnds PROVE Vouched'
  BY <1>18, <1>1, <1>2, <1>4, <1>5 DEF PassEnds, tables
<1>19. ASSUME NEW s \in Sources, Identify(s) PROVE Vouched'
  BY <1>3, <1>19 DEF Identify
<1>20. ASSUME NEW s \in Sources, Edit(s) \/ GoOffline(s) \/ ComeBack(s) PROVE Vouched'
  BY <1>4, <1>20 DEF Edit, GoOffline, ComeBack, tables
<1>21. ASSUME Restart PROVE Vouched'
  <2>1. cache' = [remembered |-> FALSE, token |-> FALSE]
    BY <1>21 DEF Restart
  <2> QED
    BY <2>1 DEF Vouched
<1>22. CASE UNCHANGED vars
  BY <1>4, <1>22 DEF vars
<1> QED
  BY <1>6, <1>7, <1>10, <1>11, <1>12, <1>14, <1>15, <1>16, <1>17, <1>18, <1>19,
     <1>20, <1>21, <1>22 DEF Next, WorkerSteps

\* However the fingerprint worker, saves and the query interleave, the worker
\* does not sleep on a queue that has something in it.
THEOREM EmptyIsEmpty == Spec => []RememberedMeansEmpty
<1>1. Init => Vouched
  BY DEF Init, Vouched
<1>2. Vouched => RememberedMeansEmpty
  BY DEF Vouched, RememberedMeansEmpty
<1> QED
  BY <1>1, <1>2, VouchedStep, LibraryTyped, PTL DEF Spec
=============================================================================
