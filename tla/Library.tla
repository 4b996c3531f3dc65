------------------------------ MODULE Library -------------------------------
(***************************************************************************)
(* The stored library and those that rewrite it (main.rs, and the storage  *)
(* crate): scans, on a timer, on a change of the watched directory or on   *)
(* request; the regrouping that puts enrichment and merged artists over    *)
(* what a scan derived from the files; the review of a track's tags; and   *)
(* the worker that asks MusicBrainz about identified tracks.               *)
(*                                                                         *)
(* Each of them reads the library's revision, then the library in several  *)
(* queries, works for a while, and replaces the whole library in one       *)
(* transaction that fails when the revision has moved on.  Only scans hold *)
(* the rescan lock.                                                        *)
(*                                                                         *)
(* A source has one file, whose versions are numbered, 0 when there is     *)
(* none; a version stands for a track's identity.  A revision, and         *)
(* SQLite's data version, are only ever compared with a later reading, so  *)
(* each is a flag that a commit clears.  A directory that cannot be listed *)
(* is a fault of its own; a file's tags can always be read.  Left out:     *)
(* artwork, which is written back under the same revision check,           *)
(* favourites, the text search and the waiting time before a fruitless     *)
(* lookup is repeated.                                                     *)
(***************************************************************************)
EXTENDS Integers, FiniteSets

CONSTANTS Sources,     \* a set of numbers, in the order of their provider ids
          PathOf,      \* the path of each source's file, relative to its root
          Requests,    \* concurrent requests of listeners
          Nobody,
          MaxEdits,    \* bound: changes of the files
          MaxRequests, \* bound: requests
          MaxFaults    \* bound: lookups and queries that fail, sources that
                       \* go out of reach, directories that cannot be
                       \* listed, restarts of the server

Process == {"discovery", "worker"} \cup Requests

ASSUME LibraryAssumption ==
  /\ IsFiniteSet(Sources) /\ Sources \subseteq Nat
  /\ PathOf \in [Sources -> Nat]
  /\ Nobody \notin Process
  /\ {MaxEdits, MaxRequests, MaxFaults} \subseteq Nat

VARIABLES
  disk,        \* the version of every source's file
  offline,     \* the sources out of reach
  library,     \* the stored library
  identified,  \* the tracks whose recording is known
  resolved,    \* the tracks MusicBrainz has described
  merged,      \* whether the listener has merged the artists
  lock,        \* who holds the rescan lock
  job,         \* what every process is doing
  pending,     \* the worker's grouping_pending
  cache,       \* the worker's empty queue: remembered, and the token it holds
  bounds       \* how often what has happened

vars == <<disk, offline, library, identified, resolved, merged, lock, job,
          pending, cache, bounds>>
outside == <<disk, offline>>
tables == <<identified, resolved, merged>>

Version == 0 .. MaxEdits + 1
Track == Sources \X (1 .. MaxEdits + 1)
Plain == [enriched |-> FALSE, renamed |-> FALSE]
Grouping == [enriched : BOOLEAN, renamed : BOOLEAN]
\* The tracks, how each is grouped, and the reviewed observations.
Library == [file : [Sources -> Version], grouped : [Sources -> Grouping],
            approved : SUBSET Sources]
NoLibrary == [file |-> [s \in Sources |-> 0],
              grouped |-> [s \in Sources |-> Plain], approved |-> {}]

Scans == {"scan", "forced scan", "change"}

\* `fresh`: the revision it has read is still the library's.  `missed`: whose
\* directory the scan could not list, which becomes one of its scan issues.
Idle == [task |-> "none", at |-> "idle", fresh |-> FALSE, seen |-> NoLibrary,
         made |-> NoLibrary, left |-> {}, missed |-> {}, targets |-> {}]
Begun(task) == [Idle EXCEPT !.task = task, !.at = "begun"]
\* With the revision read, which nothing can come in front of.
Opened(task) == [Begun(task) EXCEPT !.at = "revised", !.fresh = TRUE]

Task == Scans \cup {"none", "regroup", "review", "enrich"}
Job == [task : Task,
        at : {"idle", "begun", "revised", "loaded", "polled", "empty", "answered"},
        fresh : BOOLEAN, seen : Library, made : Library,
        left : SUBSET Sources, missed : SUBSET Sources, targets : SUBSET Track]

TypeOK ==
  /\ disk \in [Sources -> Version] /\ offline \subseteq Sources
  /\ library \in Library
  /\ identified \subseteq Track /\ resolved \subseteq identified
  /\ merged \in BOOLEAN /\ pending \in BOOLEAN
  /\ lock \in Process \cup {Nobody}
  /\ job \in [Process -> Job]
  /\ \A p \in Process :
       /\ job[p].targets \subseteq identified
       /\ job[p].task \in Scans => lock = p
  /\ cache \in [remembered : BOOLEAN, token : BOOLEAN]
  /\ bounds \in [edits : 0 .. MaxEdits, requests : 0 .. MaxRequests,
                 faults : 0 .. MaxFaults]

\* The server has just started on a new database: discovery republishes, then
\* scans.
Init ==
  /\ disk = [s \in Sources |-> 1] /\ offline = {}
  /\ library = NoLibrary /\ identified = {} /\ resolved = {} /\ merged = FALSE
  /\ lock = Nobody
  /\ job = [p \in Process |-> IF p = "discovery" THEN Begun("regroup")
                                                  ELSE Idle]
  /\ pending = FALSE
  /\ cache = [remembered |-> FALSE, token |-> FALSE]
  /\ bounds = [edits |-> 0, requests |-> 0, faults |-> 0]

Counted(what, max) ==
  bounds[what] < max /\ bounds' = [bounds EXCEPT ![what] = @ + 1]

\* Every commit moves SQLite's data version on.
Written == cache' = [remembered |-> FALSE, token |-> FALSE]
-----------------------------------------------------------------------------
(* What is made of a library.                                              *)

\* A file the prior library has is taken over as it is there, else its tags
\* are read.
BuildTrack(made, prior, s) ==
  LET same == disk[s] = prior.file[s] IN
  [file |-> [made.file EXCEPT ![s] = disk[s]],
   grouped |-> [made.grouped EXCEPT ![s] =
                  IF same THEN prior.grouped[s] ELSE Plain],
   approved |-> made.approved \cup (IF same THEN prior.approved \cap {s} ELSE {})]

\* What a source that cannot be scanned keeps.
PriorSourceLibrary(made, prior, s) ==
  [file |-> [made.file EXCEPT ![s] = prior.file[s]],
   grouped |-> [made.grouped EXCEPT ![s] = prior.grouped[s]],
   approved |-> made.approved \cup (prior.approved \cap {s})]

\* Enrichment and merged artists go over what the files say.
Regroup(lib, resolvedTracks, mergedArtists) ==
  [lib EXCEPT !.grouped = [s \in Sources |->
     IF lib.file[s] = 0 THEN Plain
     ELSE [enriched |-> <<s, lib.file[s]>> \in resolvedTracks,
           renamed |-> mergedArtists]]]

Approve(lib, s) == [lib EXCEPT !.approved = @ \cup {s}]

\* What changes are told by: of the tracks with one path, the last one's file
\* and review; an empty set where there is no track.
Fingerprint(lib, path) ==
  LET there == {s \in Sources : PathOf[s] = path /\ lib.file[s] # 0}
  IN {<<lib.file[s], s \in lib.approved>> :
        s \in {t \in there : \A u \in there : u <= t}}

HasChanges(stored, scanned) ==
  \E s \in Sources : Fingerprint(stored, PathOf[s]) # Fingerprint(scanned, PathOf[s])
-----------------------------------------------------------------------------
(* The steps of every rewrite.                                             *)

\* The revision comes first.
ReadRevision(p) ==
  /\ job[p].at = "begun" /\ job' = [job EXCEPT ![p] = Opened("regroup")]
  /\ UNCHANGED <<outside, library, tables, lock, pending, cache, bounds>>

\* Everything else comes after it, in several queries, between which a save
\* moves the revision on.  A regrouping and a review then have all they need.
LoadLibrary(p) ==
  /\ job[p].at = "revised"
  /\ \E made \in
       CASE job[p].task \in Scans -> {NoLibrary}
         [] job[p].task = "regroup" -> {Regroup(library, resolved, merged)}
         [] OTHER -> {Approve(library, s) : s \in {t \in Sources : library.file[t] # 0}} :
       job' = [job EXCEPT ![p].at = "loaded", ![p].seen = library, ![p].made = made,
                          ![p].left = IF job[p].task \in Scans THEN Sources ELSE {}]
  /\ UNCHANGED <<outside, library, tables, lock, pending, cache, bounds>>

\* Reviewing a track that is not there is refused.
NothingToReview(p) ==
  /\ job[p].at = "revised" /\ job[p].task = "review"
  /\ library.file = NoLibrary.file
  /\ job' = [job EXCEPT ![p] = Idle]
  /\ UNCHANGED <<outside, library, tables, lock, pending, cache, bounds>>

\* What a scan makes of its next source, and the issues it notes.
Scanned(p, s, made, missed) ==
  /\ job[p].at = "loaded" /\ s \in job[p].left
  /\ \A t \in job[p].left : s <= t
  /\ job' = [job EXCEPT ![p].left = @ \ {s}, ![p].made = made, ![p].missed = missed]
  /\ UNCHANGED <<outside, library, tables, lock, pending, cache>>

\* Variant: a source out of reach contributes nothing.
ScanSourceOrNothing(p, s) ==
  /\ Scanned(p, s, IF s \in offline THEN job[p].made
                   ELSE BuildTrack(job[p].made, job[p].seen, s), job[p].missed)
  /\ UNCHANGED bounds

\* A scan looks at one source after the other; one that cannot be reached at
\* all, or whose root cannot be read, keeps what it had.
ScanSource(p, s) ==
  /\ Scanned(p, s, IF s \in offline THEN PriorSourceLibrary(job[p].made, job[p].seen, s)
                   ELSE BuildTrack(job[p].made, job[p].seen, s), job[p].missed)
  /\ UNCHANGED bounds

\* A directory that cannot be listed, on a share even the root, does not fail
\* the scan: it contributes nothing, and an issue is noted.
ListingFails(p, s) ==
  /\ Counted("faults", MaxFaults) /\ s \notin offline
  /\ Scanned(p, s, job[p].made, job[p].missed \cup {s})

\* What the code compares before it writes: a scan the library as it is now,
\* a regrouping the one it has read.  The others always write.  (A duration
\* newly learnt, needs_backfill, is no case of its own: a file of known size
\* that is taken over keeps its track's, one that is read is another track.)
Differs(p) ==
  CASE job[p].task \in {"scan", "change"} -> HasChanges(library, job[p].made)
    [] job[p].task = "regroup" -> job[p].made # job[p].seen
    [] OTHER -> TRUE

Succeeds(p) == Differs(p) => job[p].fresh

\* Variant: the save does not look at the revision.
SaveLibraryAnyhow(p, next) ==
  IF Differs(p)
  THEN /\ library' = job[p].made
       /\ job' = [q \in Process |->
                    IF q = p THEN next ELSE [job[q] EXCEPT !.fresh = FALSE]]
       /\ Written
  ELSE job' = [job EXCEPT ![p] = next] /\ UNCHANGED <<library, cache>>

\* save_library_at_revision: all of the library, if the revision is the one read.
SaveLibraryAtRevision(p, next) ==
  IF Differs(p) /\ job[p].fresh
  THEN /\ library' = job[p].made
       /\ job' = [q \in Process |->
                    IF q = p THEN next ELSE [job[q] EXCEPT !.fresh = FALSE]]
       /\ Written
  ELSE job' = [job EXCEPT ![p] = next] /\ UNCHANGED <<library, cache>>

\* Variant: discovery regroups only when its scan has saved something.
AfterwardsIfSaved(p) ==
  IF /\ p # "worker" /\ job[p].task \notin {"change", "regroup"}
     /\ Differs(p) /\ job[p].fresh
  THEN Begun("regroup") ELSE Idle

\* What follows: discovery regroups after every scan, a request when it has
\* saved, and the watcher does not.
Afterwards(p) ==
  IF \/ p = "discovery" /\ job[p].task = "scan"
     \/ /\ p \in Requests /\ job[p].task \notin {"change", "regroup"}
        /\ Differs(p) /\ job[p].fresh
  THEN Begun("regroup") ELSE Idle

\* A request's scan keeps the lock while it regroups.
Save(p) ==
  /\ job[p].at = "loaded" /\ job[p].left = {}
  /\ SaveLibraryAtRevision(p, Afterwards(p))
  /\ lock' = IF lock = p /\ ~(p \in Requests /\ Afterwards(p) # Idle) THEN Nobody
                                                               ELSE lock
  /\ pending' = (pending /\ ~(p = "worker" /\ Succeeds(p)))
  /\ UNCHANGED <<outside, tables, bounds>>

\* The database fails in one of its queries: only discovery goes on.
Fails(p) ==
  /\ Counted("faults", MaxFaults)
  /\ job[p].at \in {"revised", "loaded"}
  /\ job' = [job EXCEPT ![p] = IF p = "discovery" /\ @.task = "scan"
                               THEN Begun("regroup") ELSE Idle]
  /\ lock' = IF lock = p THEN Nobody ELSE lock
  /\ UNCHANGED <<outside, library, tables, pending, cache>>
-----------------------------------------------------------------------------
(* Who rewrites the library.                                               *)

Start(p, task) == job[p] = Idle /\ job' = [job EXCEPT ![p] = Opened(task)]

\* Variant: scans do not exclude each other.
TakeNoLock(p) == lock' = p

TakeLock(p) == lock = Nobody /\ lock' = p

\* The timer of library_discovery_loop.
Discover ==
  /\ Start("discovery", "scan") /\ TakeLock("discovery")
  /\ UNCHANGED <<outside, library, tables, pending, cache, bounds>>

\* The watcher of a directory has noticed a change, or a source was added:
\* these scans are not followed by a regrouping.  (That of an SMB share is:
\* it does what discovery's timer does.)
ScanOnChange(r) ==
  /\ Counted("requests", MaxRequests)
  /\ Start(r, "change") /\ TakeLock(r)
  /\ UNCHANGED <<outside, library, tables, pending, cache>>

\* rescan_library, forced or not.
Rescan(r) ==
  /\ Counted("requests", MaxRequests)
  /\ TakeLock(r) /\ (Start(r, "scan") \/ Start(r, "forced scan"))
  /\ UNCHANGED <<outside, library, tables, pending, cache>>

\* update_track_metadata_field_review.
Review(r) ==
  /\ Counted("requests", MaxRequests)
  /\ Start(r, "review")
  /\ UNCHANGED <<outside, library, tables, lock, pending, cache>>

\* merge_artists and unmerge_artists: the alias is stored, the library follows.
MergeArtists(r) ==
  /\ Counted("requests", MaxRequests)
  /\ job[r] = Idle /\ job' = [job EXCEPT ![r] = Begun("regroup")]
  /\ merged' = ~merged /\ Written
  /\ UNCHANGED <<outside, library, identified, resolved, lock, pending>>
-----------------------------------------------------------------------------
(* The MusicBrainz worker, and the fingerprint worker that feeds it.       *)

Queue == identified \ resolved
WorkerAt(at, targets) ==
  [Idle EXCEPT !.task = "enrich", !.at = at, !.targets = targets]

\* The fingerprint worker has found out which recording a track is.
Identify(s) ==
  /\ library.file[s] # 0 /\ <<s, library.file[s]>> \notin identified
  /\ identified' = identified \cup {<<s, library.file[s]>>} /\ Written
  /\ UNCHANGED <<outside, library, resolved, merged, lock, job, pending, bounds>>

\* Nothing to do: enrichment found before is applied.
NothingQueued ==
  /\ job' = [job EXCEPT !["worker"] = IF pending THEN Begun("regroup") ELSE Idle]
  /\ UNCHANGED <<outside, library, tables, lock, pending, bounds>>

\* poll_empty takes the token before it queries.
Poll ==
  /\ job["worker"] = Idle /\ ~cache.remembered
  /\ cache' = [cache EXCEPT !.token = TRUE]
  /\ job' = [job EXCEPT !["worker"] = WorkerAt("polled", {})]
  /\ UNCHANGED <<outside, library, tables, lock, pending, bounds>>

PollRemembered ==
  job["worker"] = Idle /\ cache.remembered /\ pending /\ NothingQueued
  /\ UNCHANGED cache

Query ==
  /\ job["worker"].at = "polled"
  /\ job' = [job EXCEPT !["worker"] =
               WorkerAt(IF Queue = {} THEN "empty" ELSE "answered", Queue)]
  /\ UNCHANGED <<outside, library, tables, lock, pending, cache, bounds>>

\* Variant: what the data version is by now is taken for the token.
RememberNow ==
  /\ job["worker"].at = "empty" /\ NothingQueued
  /\ cache' = [remembered |-> TRUE, token |-> FALSE]

\* An empty answer is remembered under the token.
Remember ==
  /\ job["worker"].at = "empty" /\ NothingQueued
  /\ cache' = [remembered |-> cache.token, token |-> FALSE]

\* MusicBrainz describes one track, or cannot be reached.
Enrich(t) ==
  /\ job["worker"].at = "answered" /\ t \in job["worker"].targets
  /\ job' = [job EXCEPT !["worker"].targets = @ \ {t}]
  /\ \/ /\ resolved' = resolved \cup {t} /\ Written
        /\ UNCHANGED bounds
     \/ Counted("faults", MaxFaults) /\ UNCHANGED <<resolved, cache>>
  /\ UNCHANGED <<outside, library, identified, merged, lock, pending>>

\* A pass that had targets leaves a regrouping to do.
PassEnds ==
  /\ job["worker"] = WorkerAt("answered", {})
  /\ job' = [job EXCEPT !["worker"] = Idle] /\ pending' = TRUE
  /\ UNCHANGED <<outside, library, tables, lock, cache, bounds>>
-----------------------------------------------------------------------------
(* What happens to the files and to the server.                            *)

\* A file is written, or removed.
Edit(s) ==
  /\ Counted("edits", MaxEdits)
  /\ \E v \in {0, bounds.edits + 2} : v # disk[s] /\ disk' = [disk EXCEPT ![s] = v]
  /\ UNCHANGED <<offline, library, tables, lock, job, pending, cache>>

GoOffline(s) ==
  /\ Counted("faults", MaxFaults)
  /\ s \notin offline /\ offline' = offline \cup {s}
  /\ UNCHANGED <<disk, library, tables, lock, job, pending, cache>>

ComeBack(s) ==
  /\ s \in offline /\ offline' = offline \ {s}
  /\ UNCHANGED <<disk, library, tables, lock, job, pending, cache, bounds>>

\* A restart ends every job and forgets what was only in memory.
Restart ==
  /\ Counted("faults", MaxFaults)
  /\ lock' = Nobody /\ pending' = FALSE
  /\ job' = [p \in Process |-> IF p = "discovery" THEN Begun("regroup") ELSE Idle]
  /\ cache' = [remembered |-> FALSE, token |-> FALSE]
  /\ UNCHANGED <<disk, offline, library, tables>>

Rewrite(p) ==
  \/ ReadRevision(p) \/ LoadLibrary(p)
  \/ NothingToReview(p) \/ (\E s \in Sources : ScanSource(p, s)) \/ Save(p)

Faults(p) == Fails(p) \/ \E s \in Sources : ListingFails(p, s)

WorkerSteps == Poll \/ PollRemembered \/ Query \/ Remember
               \/ (\E t \in Track : Enrich(t)) \/ PassEnds

Next ==
  \/ \E p \in Process : Rewrite(p) \/ Faults(p)
  \/ Discover
  \/ \E r \in Requests : ScanOnChange(r) \/ Rescan(r) \/ Review(r) \/ MergeArtists(r)
  \/ WorkerSteps
  \/ \E s \in Sources : Identify(s) \/ Edit(s) \/ GoOffline(s) \/ ComeBack(s)
  \/ Restart

Spec == Init /\ [][Next]_vars

\* Processes go on, discovery's timer fires, and sources come back; nobody has
\* to edit, ask or identify anything.
FairSpec ==
  /\ Spec
  /\ \A p \in Process : WF_vars(Rewrite(p))
  /\ WF_vars(Discover) /\ WF_vars(WorkerSteps)
  /\ \A s \in Sources : WF_vars(ComeBack(s))
-----------------------------------------------------------------------------
(* Properties.                                                             *)

\* A save replaces exactly the library it was made from, read in several
\* queries and a long while before: nothing saved in between is lost
\* (save_library_at_revision, and the order of every caller's reads).
NoLostUpdate ==
  [][library' # library =>
       \E p \in Process : /\ job[p].at = "loaded" /\ job'[p] # job[p]
                          /\ job[p].seen = library]_vars

\* A track changes or goes, and a listener's review of it is lost, only when
\* its file is no longer the one that was scanned, or when the scan that saves
\* has noted that it could not list the file's directory (scan_errors): not
\* because its source was out of reach, nor because another rewrite came in
\* between, which its job would not show.
NothingGoesUnexplained ==
  [][\A s \in Sources :
       \/ library.file[s] # 0 /\ library'.file[s] # library.file[s]
       \/ s \in library.approved \ library'.approved
       => \/ disk[s] # library.file[s]
          \/ \E p \in Process : /\ job[p].at = "loaded" /\ job'[p] # job[p]
                                /\ s \in job[p].missed]_vars

\* While the worker's empty queue is remembered, the queue is empty: a track
\* identified during the query is not overlooked (poll_empty, QueueCache).
RememberedMeansEmpty == cache.remembered => Queue = {}

UpToDate(s) ==
  /\ library.file[s] = disk[s]
  /\ disk[s] # 0 => library.grouped[s] =
       [enriched |-> <<s, disk[s]>> \in resolved, renamed |-> merged]

\* Once nobody edits or asks any more, the library shows the files there are,
\* with everything MusicBrainz knows of them and with artists merged or not as
\* the listener asked last, whatever rewrites failed on the way.
CatchesUp == <>[](Queue = {} /\ \A s \in Sources : UpToDate(s))

\* A later scan finds every file that was added, changed or removed.
FilesAreFound == <>[](library.file = disk)
=============================================================================
