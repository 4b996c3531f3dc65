---------------------------- MODULE ZonesProofs -----------------------------
(***************************************************************************)
(* Zones, for any players, any commands and any number of requests: the    *)
(* queues stay sound whoever is followed and whatever overtakes a          *)
(* snapshot.  However requests overlapped and were cut short, an election  *)
(* that runs alone and elects leaves the zone with the member it should    *)
(* follow.  What was read of a member before a command moved the cursor    *)
(* never moves it back while the zone waits for that command's effect.     *)
(***************************************************************************)
EXTENDS Zones, QueueStateProofs

Steps == {"idle", "delete", "read", "record", "announce", "apply", "follow"}

-----------------------------------------------------------------------------
(* Typing. *)

Cursors == {c \in [q : QueueStates, elapsed : 0..MaxElapsed] : Sound(TRUE, c.q)}
Elected == Decoded \cup {Nobody}
Rows == [at : Steps, who : Player \cup {Nobody}, seen : Cursors \cup {Nobody},
         admin : BOOLEAN]
Feeds == [of : Elected, seen : Cursors \cup {Nobody}]

Proper(now) ==
  /\ now \in Rows
  /\ now.at \in {"record", "announce", "apply", "follow"} => now.who \in Elected
  /\ now.at = "apply" => now.seen \in Cursors

RequestsTyped ==
  /\ request \in [Requests -> Rows]
  /\ \A r \in Requests : Proper(request[r])

RegistryTyped ==
  /\ members \subseteq Player /\ live \subseteq Player
  /\ elected \in Elected /\ source \in Elected
  /\ task \in [Feeders -> Feeds]

CursorsTyped ==
  /\ zone \in Cursors /\ member \in [Decoded -> Cursors]
  /\ called = Nobody \/ called \subseteq Decoded
  /\ driving = [command |-> driving.command, arg |-> driving.arg,
                 left |-> driving.left, moves |-> driving.moves]
  /\ driving.left \subseteq Decoded
  /\ driving.left # {} => /\ driving.command \in Commands
                          /\ driving.arg \in Arguments(driving.command)
  /\ driving.moves \in BOOLEAN

Typed == RequestsTyped /\ RegistryTyped /\ CursorsTyped /\ stale \subseteq Holders

LEMMA ElapsedBound == MaxElapsed \in Nat /\ 0 \in 0..MaxElapsed
<1>1. MaxElapsed \in Nat
  BY ZonesAssumption
<1> QED
  BY <1>1

LEMMA SnapshotsAreNotNobody == Nobody \notin Cursors
<1> SUFFICES ASSUME Nobody \in Cursors PROVE FALSE
  OBVIOUS
<1>1. Nobody \in [q : QueueStates, elapsed : 0..MaxElapsed]
  BY DEF Cursors
<1>2. 0..MaxElapsed \subseteq Nat
  BY ElapsedBound
<1>3. Nobody \in [q : QueueStates, elapsed : Nat]
  BY <1>1, <1>2
<1> QED
  BY <1>3, ZonesAssumption

LEMMA IdleRow == Proper(Idle) /\ Idle.at = "idle" /\ Idle.who = Nobody
  BY DEF Proper, Idle, Rows, Steps

LEMMA NoTaskFeeds == NoTask \in Feeds /\ NoTask.of = Nobody /\ NoTask.seen = Nobody
  BY DEF NoTask, Feeds, Elected

\* One request goes on.
LEMMA RequestGoesOn ==
  ASSUME RequestsTyped, NEW r \in Requests, NEW now, Proper(now),
         request' = [request EXCEPT ![r] = now]
  PROVE  RequestsTyped'
<1>1. \A s \in Requests : request'[s] = IF s = r THEN now ELSE request[s]
  BY DEF RequestsTyped
<1>2. now \in Rows
  BY DEF Proper
<1>3. request' \in [Requests -> Rows]
  BY <1>2 DEF RequestsTyped
<1> QED
  BY <1>1, <1>3 DEF RequestsTyped, Proper

LEMMA RequestIsOver ==
  ASSUME RequestsTyped, NEW r \in Requests, request' = [request EXCEPT ![r] = Idle]
  PROVE  RequestsTyped'
  BY RequestGoesOn, IdleRow

\* What a request gets to be by one step.
LEMMA RowAfter ==
  ASSUME NEW at \in Steps, NEW who \in Player \cup {Nobody},
         NEW seen \in Cursors \cup {Nobody}, NEW admin \in BOOLEAN,
         at \in {"record", "announce", "apply", "follow"} => who \in Elected,
         at = "apply" => seen \in Cursors,
         NEW now, now = [at |-> at, who |-> who, seen |-> seen, admin |-> admin]
  PROVE  Proper(now) /\ now.at = at /\ now.who = who /\ now.seen = seen
<1>1. now.at = at /\ now.who = who /\ now.seen = seen
  OBVIOUS
<1>2. now \in Rows
  BY DEF Rows
<1> QED
  BY <1>1, <1>2 DEF Proper

LEMMA RowFields ==
  ASSUME NEW row \in Rows
  PROVE  /\ row = [at |-> row.at, who |-> row.who, seen |-> row.seen,
                   admin |-> row.admin]
         /\ row.at \in Steps /\ row.who \in Player \cup {Nobody}
         /\ row.seen \in Cursors \cup {Nobody} /\ row.admin \in BOOLEAN
  BY DEF Rows

LEMMA RowWith ==
  ASSUME NEW row \in Rows, NEW at, NEW seen, NEW j,
         j = [row EXCEPT !.at = at, !.seen = seen]
  PROVE  j = [at |-> at, who |-> row.who, seen |-> seen, admin |-> row.admin]
<1>1. row = [at |-> row.at, who |-> row.who, seen |-> row.seen, admin |-> row.admin]
  BY RowFields
<1>2. j.at = at /\ j.who = row.who /\ j.seen = seen /\ j.admin = row.admin
  BY <1>1
<1>3. j = [at |-> j.at, who |-> j.who, seen |-> j.seen, admin |-> j.admin]
  BY <1>1
<1> QED
  BY <1>2, <1>3

\* Only the step of a request changes.
LEMMA RequestStep ==
  ASSUME RequestsTyped, NEW r \in Requests, NEW at \in Steps, at # "apply",
         at \in {"record", "announce", "follow"} => request[r].who \in Elected,
         request' = [request EXCEPT ![r].at = at]
  PROVE  /\ RequestsTyped'
         /\ request'[r].at = at /\ request'[r].who = request[r].who
         /\ request'[r].seen = request[r].seen
         /\ \A s \in Requests \ {r} : request'[s] = request[s]
<1> DEFINE row == request[r]
           now == [at |-> at, who |-> row.who, seen |-> row.seen, admin |-> row.admin]
<1>1. row \in Rows /\ (at \in {"record", "announce", "apply", "follow"} => row.who \in Elected)
  BY DEF RequestsTyped
<1>2. request' = [request EXCEPT ![r] = [row EXCEPT !.at = at]]
  OBVIOUS
<1> HIDE DEF row
<1>3. [row EXCEPT !.at = at] = now
  BY <1>1, RowFields
<1>4. Proper(now) /\ now.at = at /\ now.who = row.who /\ now.seen = row.seen
  BY <1>1, RowFields, RowAfter
<1> HIDE DEF now
<1>5. RequestsTyped'
  BY <1>2, <1>3, <1>4, RequestGoesOn
<1>6. request'[r] = now /\ \A s \in Requests \ {r} : request'[s] = request[s]
  BY <1>2, <1>3 DEF RequestsTyped
<1> QED
  BY <1>4, <1>5, <1>6 DEF row

LEMMA TypedMeans == Typed => TypeOK
<1> SUFFICES ASSUME Typed PROVE TypeOK
  OBVIOUS
<1>1. ASSUME NEW c \in Cursors PROVE CursorTyped(c)
  BY <1>1 DEF Cursors, Sound, QueueStates, CursorInRange, CursorTyped
<1>2. CursorTyped(zone) /\ \A p \in Decoded : CursorTyped(member[p])
  BY <1>1 DEF Typed, CursorsTyped
<1>3. /\ members \subseteq Player /\ live \subseteq Player
      /\ {source, elected} \cup {task[f].of : f \in Feeders} \subseteq Elected
      /\ driving.left \subseteq Decoded
  BY DEF Typed, RegistryTyped, CursorsTyped, Feeds
<1>4. \A r \in Requests : request[r].who \in Player \cup {Nobody}
  BY DEF Typed, RequestsTyped, Rows
<1> QED
  BY <1>2, <1>3, <1>4 DEF TypeOK, Elected, Typed

LEMMA CommandedTyped ==
  ASSUME NEW c \in Cursors, NEW command \in PlayerCommand,
         NEW arg \in Arguments(command), NEW d \in Commanded(c, command, arg)
  PROVE  d \in Cursors
<1>1. Sound(TRUE, c.q) /\ c.elapsed \in 0..MaxElapsed /\ 0 \in 0..MaxElapsed
  BY ElapsedBound DEF Cursors
<1>2. CASE Outcomes(c.q, command, arg) = {}
  BY <1>2 DEF Commanded
<1>3. CASE Outcomes(c.q, command, arg) # {}
  <2>1. PICK s \in Outcomes(c.q, command, arg) :
          d = [q |-> Uncounted(s),
               elapsed |-> IF Rewinds(command, c.q, s) THEN 0 ELSE c.elapsed]
    BY <1>3 DEF Commanded
  <2> DEFINE before == c.q
  <2>2. Sound(TRUE, before) /\ s \in Outcomes(before, command, arg)
    BY <1>1
  <2> HIDE DEF before
  <2>3. Sound(TRUE, s)
    BY <2>2, OutcomesSound
  <2>4. Sound(TRUE, Uncounted(s)) /\ Uncounted(s) \in QueueStates
    BY <2>3, UncountedSound DEF Sound
  <2> QED
    BY <1>1, <2>1, <2>4 DEF Cursors
<1> QED
  BY <1>2, <1>3

\* What is taken over from a member that fits.
LEMMA AppliedCursorTyped ==
  ASSUME Typed, NEW p, NEW seen \in Cursors, NEW holder,
         ApplyMemberCursor(p, seen, holder)
  PROVE  zone' \in Cursors
<1>1. CASE zone' = zone
  BY <1>1 DEF Typed, CursorsTyped
<1>2. CASE /\ Fits(seen)
           /\ zone' = [q |-> [zone.q EXCEPT !.status = seen.q.status,
                                            !.position = seen.q.position],
                       elapsed |-> seen.elapsed]
  <2> DEFINE s == zone.q
             u == [s EXCEPT !.status = seen.q.status]
             t == [s EXCEPT !.status = seen.q.status, !.position = seen.q.position]
  <2>1. /\ Sound(TRUE, s) /\ s \in QueueStates
        /\ seen.q.status \in Status /\ seen.q.position \in 0..Len(s.queue)
    <3>1. seen.q \in QueueStates /\ CursorInRange(seen.q) /\ seen.q.queue = s.queue
      BY <1>2 DEF Cursors, Sound, Fits
    <3> QED
      BY <3>1 DEF Typed, CursorsTyped, Cursors, CursorInRange, QueueStates
  <2> HIDE DEF s
  <2>2. Sound(TRUE, u)
    BY <2>1, FlagsSound
  <2>3. u.queue = s.queue /\ t = [u EXCEPT !.position = seen.q.position]
    BY <2>1 DEF QueueStates
  <2> HIDE DEF u
  <2>4. Sound(TRUE, t)
    BY <2>1, <2>2, <2>3, FlagsSound
  <2>5. t \in QueueStates /\ seen.elapsed \in 0..MaxElapsed
    BY <2>4 DEF Sound, Cursors
  <2>6. zone' = [q |-> t, elapsed |-> seen.elapsed]
    BY <1>2 DEF s
  <2> HIDE DEF t
  <2> QED
    BY <2>4, <2>5, <2>6 DEF Cursors
<1> QED
  BY <1>1, <1>2 DEF ApplyMemberCursor

LEMMA BestTyped == Best \in Elected
<1> DEFINE able == members \cap live \cap Decoded
           preferred == able \cap Snapcasts
<1>1. CASE able = {}
  BY <1>1 DEF Best, Elected
<1>2. CASE preferred # {}
  <2>1. (CHOOSE p \in preferred : TRUE) \in preferred
    BY <1>2
  <2> QED
    BY <1>2, <2>1 DEF Best, Elected
<1>3. CASE able # {} /\ preferred = {}
  <2>1. (CHOOSE p \in able : TRUE) \in able
    BY <1>3
  <2> QED
    BY <1>3, <2>1 DEF Best, Elected
<1> QED
  BY <1>1, <1>2, <1>3

LEMMA InitTyped == Init => Typed
<1> SUFFICES ASSUME Init PROVE Typed
  OBVIOUS
<1>1. ASSUME NEW batch \in Batches PROVE Paused(batch) \in Cursors
  <2> DEFINE row == [Playback(EmptyQueue) EXCEPT !.position = 1, !.status = "Paused"]
  <2>1. batch \in Seq(Item)
    BY CommandsAssumption, SeqMonotonic DEF Item
  <2>2. row \in PlaybackRows
    BY EmptySeq DEF Playback, EmptyQueue, PlaybackRows, Status, Repeat
  <2> HIDE DEF row
  <2>3. Sound(TRUE, Restored([playback |-> row, items |-> batch]))
    BY <2>1, <2>2, RestoredSound
  <2>4. Paused(batch) = [q |-> Restored([playback |-> row, items |-> batch]),
                         elapsed |-> 0]
    <3>1. [playback |-> row, items |-> batch] = [items |-> batch, playback |-> row]
      OBVIOUS
    <3> QED
      BY <3>1, Zenon DEF Paused, row
  <2> HIDE DEF row
  <2> DEFINE q == Restored([playback |-> row, items |-> batch])
  <2>5. Sound(TRUE, q) /\ q \in QueueStates /\ 0 \in 0..MaxElapsed
    BY <2>3, ElapsedBound DEF Sound
  <2>6. Paused(batch) = [q |-> q, elapsed |-> 0]
    BY <2>4
  <2> HIDE DEF q
  <2>7. [q |-> q, elapsed |-> 0] \in Cursors
    BY <2>5 DEF Cursors
  <2> QED
    BY <2>6, <2>7
<1>2. CursorsTyped
  BY <1>1 DEF Init, CursorsTyped, Driven
<1>3. RequestsTyped
  BY IdleRow DEF Init, RequestsTyped, Proper
<1>4. RegistryTyped
  BY NoTaskFeeds DEF Init, RegistryTyped, Elected
<1> QED
  BY <1>2, <1>3, <1>4 DEF Typed, Init

\* Who holds a snapshot goes on holding it, unless it was the one that acted.
LEMMA HoldersAfter ==
  ASSUME stale \subseteq Holders, NEW h, stale' \subseteq stale \ {h},
         \A r \in Requests \ {h} : request[r].at = "apply" => request'[r].at = "apply",
         \A f \in Feeders \ {h} : task[f].seen # Nobody => task'[f].seen # Nobody
  PROVE  stale' \subseteq Holders'
  BY DEF Holders

LEMMA RequestTyped ==
  ASSUME Typed, NEW r \in Requests,
         \/ \E p \in Player : SetZone(r, p) \/ RemovePlayer(r, p)
         \/ Abort(r)
  PROVE  Typed'
<1>1. CursorsTyped'
  BY DEF SetZone, RemovePlayer, Abort, zoneState, players, Typed, CursorsTyped
<1>2. CASE \E p \in Player : SetZone(r, p)
  <2>1. request' = [request EXCEPT ![r].at = "read"] /\ "read" \in Steps
        /\ request[r] = Idle
    BY <1>2 DEF SetZone, Goes, Steps
  <2>2. /\ RequestsTyped' /\ \A s \in Requests \ {r} : request'[s] = request[s]
    BY <2>1, RequestStep DEF Typed
  <2>3. UNCHANGED <<elected, task, stale, source>> /\ request[r].at # "apply"
    BY <1>2, IdleRow DEF SetZone, zoneState
  <2>4. stale' \subseteq Holders'
    BY <2>2, <2>3 DEF Typed, Holders
  <2>5. RegistryTyped'
    BY <1>2, <2>3 DEF SetZone, Typed, RegistryTyped
  <2> QED
    BY <1>1, <2>2, <2>4, <2>5 DEF Typed
<1>3. ASSUME NEW p \in Player, RemovePlayer(r, p) PROVE Typed'
  <2> DEFINE now == [at |-> "delete", who |-> p, seen |-> Nobody, admin |-> TRUE]
  <2>1. Proper(now)
    BY DEF Proper, Rows, Steps
  <2> HIDE DEF now
  <2>2. request' = [request EXCEPT ![r] = now] /\ request[r].at # "apply"
    BY <1>3, IdleRow DEF RemovePlayer, now
  <2>3. RequestsTyped'
    BY <2>1, <2>2, RequestGoesOn DEF Typed
  <2>4. UNCHANGED <<elected, task, stale, source>>
    BY <1>3 DEF RemovePlayer, zoneState
  <2>5. stale' \subseteq Holders'
    BY <2>2, <2>4 DEF Typed, Holders, RequestsTyped
  <2>6. RegistryTyped'
    BY <1>3, <2>4 DEF RemovePlayer, Typed, RegistryTyped
  <2> QED
    BY <1>1, <2>3, <2>5, <2>6 DEF Typed
<1>4. CASE Abort(r)
  <2>1. request' = [request EXCEPT ![r] = Idle]
        /\ UNCHANGED <<members, live, elected, source>>
    BY <1>4 DEF Abort, zoneState
  <2>2. RequestsTyped'
    BY <2>1, RequestIsOver DEF Typed
  <2>3. CASE UNCHANGED task /\ stale' = stale \ {r}
    <3>1. stale' \subseteq Holders'
      BY <2>1, <2>3 DEF Typed, Holders, RequestsTyped
    <3> QED
      BY <1>1, <2>1, <2>2, <2>3, <3>1 DEF Typed, RegistryTyped
  <2>4. CASE /\ request[r].at = "follow"
             /\ task' = [task EXCEPT !["stray"] = NewTask(r)]
             /\ stale' = stale \ {"stray"}
    <3>1. NewTask(r) \in Feeds
      BY <2>4 DEF Typed, RequestsTyped, Proper, NewTask, Feeds
    <3>2. RegistryTyped'
      BY <2>1, <2>4, <3>1 DEF Typed, RegistryTyped
    <3>3. \A s \in Requests : request[s].at = "apply" => request'[s].at = "apply"
      BY <2>1, <2>4 DEF Typed, RequestsTyped
    <3>4. \A f \in Feeders \ {"stray"} : task'[f] = task[f]
      BY <2>4 DEF Typed, RegistryTyped
    <3>5. stale' \subseteq Holders'
      BY <2>4, <3>3, <3>4, HoldersAfter DEF Typed
    <3> QED
      BY <1>1, <2>2, <3>2, <3>5 DEF Typed
  <2> QED
    BY <1>4, <2>3, <2>4 DEF Abort
<1> QED
  BY <1>2, <1>3, <1>4

LEMMA ElectionTyped ==
  ASSUME Typed, NEW r \in Requests, Election(r)
  PROVE  Typed'
<1>1. CASE DeletePlayer(r)
  <2>1. request' = [request EXCEPT ![r].at = "read"] /\ "read" \in Steps
        /\ request[r].at = "delete" /\ UNCHANGED <<elected, task, stale, source>>
    BY <1>1 DEF DeletePlayer, Goes, Steps, zoneState
  <2>2. RequestsTyped' /\ \A s \in Requests \ {r} : request'[s] = request[s]
    BY <2>1, RequestStep DEF Typed
  <2>3. stale' \subseteq Holders'
    BY <2>1, <2>2 DEF Typed, Holders
  <2>4. RegistryTyped'
    BY <1>1, <2>1 DEF DeletePlayer, Typed, RegistryTyped
  <2>5. CursorsTyped'
    BY <1>1 DEF DeletePlayer, zoneState, players, Typed, CursorsTyped
  <2> QED
    BY <2>2, <2>3, <2>4, <2>5 DEF Typed
<1>2. CASE ReadMembers(r)
  <2>1. Best \in Elected /\ Best \in Player \cup {Nobody}
    BY BestTyped DEF Elected, Player
  <2>2. request' = [request EXCEPT ![r].at = "record", ![r].who = Best]
        /\ request[r].at = "read"
    BY <1>2 DEF ReadMembers
  <2>3. RequestsTyped'
    BY <2>1, <2>2 DEF Typed, RequestsTyped, Rows, Proper, Steps
  <2>4. \A s \in Requests \ {r} : request'[s] = request[s]
    BY <2>2 DEF Typed, RequestsTyped
  <2>5. UNCHANGED <<members, live, elected, task, stale, source>>
    BY <1>2 DEF ReadMembers, zoneState
  <2>6. stale' \subseteq Holders'
    BY <2>2, <2>4, <2>5 DEF Typed, Holders
  <2>7. CursorsTyped'
    BY <1>2 DEF ReadMembers, zoneState, players, Typed, CursorsTyped
  <2>8. RegistryTyped'
    BY <2>5 DEF Typed, RegistryTyped
  <2> QED
    BY <2>3, <2>6, <2>7, <2>8 DEF Typed
<1>3. CASE RecordSource(r)
  <2>1. /\ request[r].at = "record" /\ request[r].who \in Elected
        /\ UNCHANGED <<members, live, source>>
    BY <1>3 DEF RecordSource, RecordUnless, zoneState, Typed, RequestsTyped, Proper
  <2>2. CursorsTyped'
    BY <1>3 DEF RecordSource, RecordUnless, zoneState, players, Typed, CursorsTyped
  <2>3. CASE /\ request' = [request EXCEPT ![r] = Idle]
             /\ UNCHANGED <<elected, task, stale>>
    <3>1. RequestsTyped'
      BY <2>3, RequestIsOver DEF Typed
    <3>2. stale' \subseteq Holders'
      BY <2>1, <2>3 DEF Typed, Holders, RequestsTyped
    <3>3. RegistryTyped'
      BY <2>1, <2>3 DEF Typed, RegistryTyped
    <3> QED
      BY <2>2, <3>1, <3>2, <3>3 DEF Typed
  <2>4. CASE /\ elected' = request[r].who
             /\ task' = [task EXCEPT !["entry"] = NoTask]
             /\ stale' = stale \ {"entry"}
             /\ request' = [request EXCEPT ![r].at = "announce"]
    <3>1. "announce" \in Steps
      BY DEF Steps
    <3>2. RequestsTyped' /\ \A s \in Requests \ {r} : request'[s] = request[s]
      BY <2>1, <2>4, <3>1, RequestStep DEF Typed
    <3>3. RegistryTyped'
      BY <2>1, <2>4, NoTaskFeeds DEF Typed, RegistryTyped
    <3>4. \A f \in Feeders \ {"entry"} : task'[f] = task[f]
      BY <2>4 DEF Typed, RegistryTyped
    <3>5. \A s \in Requests : request[s].at = "apply" => request'[s].at = "apply"
      BY <2>1, <3>2
    <3>6. stale' \subseteq Holders'
      BY <2>4, <3>4, <3>5, HoldersAfter DEF Typed
    <3> QED
      BY <2>2, <3>2, <3>3, <3>6 DEF Typed
  <2> QED
    BY <1>3, <2>3, <2>4 DEF RecordSource, RecordUnless, Goes
<1>4. CASE AnnounceSource(r)
  <2> DEFINE best == request[r].who
  <2>1. /\ best \in Elected /\ source' = best /\ request[r].at = "announce"
        /\ stale' \in {stale, {}} /\ request[r] \in Rows
        /\ UNCHANGED <<members, live, elected, task>>
    BY <1>4 DEF AnnounceSource, Typed, RequestsTyped, Proper
  <2>2. RegistryTyped'
    BY <2>1 DEF Typed, RegistryTyped
  <2>3. CursorsTyped'
    BY <1>4 DEF AnnounceSource, players, Typed, CursorsTyped
  <2>4. CASE request' = [request EXCEPT ![r] = Idle]
    <3>1. RequestsTyped'
      BY <2>4, RequestIsOver DEF Typed
    <3>2. stale' \subseteq Holders'
      BY <2>1, <2>4 DEF Typed, Holders, RequestsTyped
    <3> QED
      BY <2>2, <2>3, <3>1, <3>2 DEF Typed
  <2>5. CASE /\ best # Nobody
             /\ request' = [request EXCEPT ![r] =
                  [@ EXCEPT !.at = "apply", !.seen = member[best]]]
    <3> DEFINE row == request[r]
               seen == member[best]
               now == [at |-> "apply", who |-> best, seen |-> seen, admin |-> row.admin]
    <3>1. seen \in Cursors /\ best \in Player \cup {Nobody} /\ best \in Elected
      BY <2>1, <2>5 DEF Typed, CursorsTyped, Elected, Player
    <3>2. row \in Rows /\ "apply" \in Steps /\ row.who = best
      BY <2>1 DEF Steps
    <3>3. request' = [request EXCEPT ![r] = [row EXCEPT !.at = "apply", !.seen = seen]]
      BY <2>5
    <3> HIDE DEF row, seen, best
    <3> DEFINE j == [row EXCEPT !.at = "apply", !.seen = seen]
    <3>b. row \in Rows /\ j = [row EXCEPT !.at = "apply", !.seen = seen]
      BY <3>2
    <3> HIDE DEF j
    <3>c. j = [at |-> "apply", who |-> row.who, seen |-> seen, admin |-> row.admin]
      BY <3>b, RowWith
    <3>4. j = now
      BY <3>2, <3>c
    <3> USE DEF j
    <3>5. Proper(now) /\ now.at = "apply"
      BY <3>1, <3>2, RowFields, RowAfter
    <3> HIDE DEF now
    <3>6. RequestsTyped'
      BY <3>3, <3>4, <3>5, RequestGoesOn DEF Typed
    <3>7. \A s \in Requests : request[s].at = "apply" => request'[s].at = "apply"
      BY <3>3, <3>4, <3>5 DEF Typed, RequestsTyped
    <3>8. stale' \subseteq Holders'
      BY <2>1, <3>7 DEF Typed, Holders
    <3> QED
      BY <2>2, <2>3, <3>6, <3>8 DEF Typed
  <2>6. request' = [request EXCEPT ![r] =
          IF best = Nobody THEN Idle
          ELSE [@ EXCEPT !.at = "apply", !.seen = member[best]]]
    BY <1>4 DEF AnnounceSource
  <2> HIDE DEF best
  <2> QED
    BY <2>4, <2>5, <2>6
<1>5. CASE ApplyFirst(r)
  <2>1. /\ request[r].at = "apply" /\ request[r].seen \in Cursors
        /\ request[r].who \in Elected /\ request[r] \in Rows
        /\ request[r].who \in Player \cup {Nobody}
        /\ UNCHANGED <<members, live, elected, task, source, players>>
    BY <1>5 DEF ApplyFirst, Typed, RequestsTyped, Proper, Rows
  <2>2. zone' \in Cursors
    BY <1>5, <2>1, AppliedCursorTyped DEF ApplyFirst
  <2> DEFINE row == request[r]
             now == [at |-> "follow", who |-> row.who, seen |-> Nobody,
                     admin |-> row.admin]
  <2>3. row \in Rows /\ row.who \in Elected /\ "follow" \in Steps
    BY <2>1 DEF Steps
  <2>4. request' = [request EXCEPT ![r] = [row EXCEPT !.at = "follow", !.seen = Nobody]]
    BY <1>5 DEF ApplyFirst
  <2> HIDE DEF row
  <2> DEFINE j == [row EXCEPT !.at = "follow", !.seen = Nobody]
  <2>b. row \in Rows /\ j = [row EXCEPT !.at = "follow", !.seen = Nobody]
    BY <2>3
  <2> HIDE DEF j
  <2>5. j = now
    BY <2>b, RowWith
  <2> USE DEF j
  <2>6. Proper(now)
    BY <2>3, RowFields, RowAfter
  <2> HIDE DEF now
  <2>7. RequestsTyped'
    BY <2>4, <2>5, <2>6, RequestGoesOn DEF Typed
  <2>8. \A s \in Requests \ {r} : request'[s] = request[s]
    BY <2>4, <2>5 DEF Typed, RequestsTyped
  <2>9. stale' \subseteq stale \ {r}
    BY <1>5 DEF ApplyFirst, ApplyMemberCursor
  <2>10. stale' \subseteq Holders'
    BY <2>1, <2>8, <2>9, HoldersAfter DEF Typed
  <2>11. CursorsTyped' /\ RegistryTyped'
    BY <2>1, <2>2 DEF players, Typed, RegistryTyped, CursorsTyped
  <2> QED
    BY <2>7, <2>10, <2>11 DEF Typed
<1>6. CASE Follow(r)
  <2>1. /\ request[r].at = "follow" /\ NewTask(r) \in Feeds
        /\ task' = [task EXCEPT !["entry"] = NewTask(r)]
        /\ stale' = stale \ {"entry"}
        /\ request' = [request EXCEPT ![r] = Idle]
        /\ UNCHANGED <<members, live, elected, source>>
    BY <1>6 DEF Follow, Typed, RequestsTyped, Proper, NewTask, Feeds, zoneState
  <2>2. RequestsTyped'
    BY <2>1, RequestIsOver DEF Typed
  <2>3. RegistryTyped'
    BY <2>1 DEF Typed, RegistryTyped
  <2>4. \A f \in Feeders \ {"entry"} : task'[f] = task[f]
    BY <2>1 DEF Typed, RegistryTyped
  <2>5. \A s \in Requests : request[s].at = "apply" => request'[s].at = "apply"
    BY <2>1 DEF Typed, RequestsTyped
  <2>6. stale' \subseteq Holders'
    BY <2>1, <2>4, <2>5, HoldersAfter DEF Typed
  <2>7. CursorsTyped'
    BY <1>6 DEF Follow, zoneState, players, Typed, CursorsTyped
  <2> QED
    BY <2>2, <2>3, <2>6, <2>7 DEF Typed
<1> QED
  BY <1>1, <1>2, <1>3, <1>4, <1>5, <1>6 DEF Election

LEMMA FeedingTyped ==
  ASSUME Typed, NEW f \in Feeders, TakeSnapshot(f) \/ FeedSnapshot(f)
  PROVE  Typed'
<1>1. /\ UNCHANGED <<members, live, request, elected, source, member, called, driving>>
      /\ task[f] \in Feeds /\ task[f].of \in Decoded
      /\ task[f].seen \in Cursors \cup {Nobody}
  BY DEF TakeSnapshot, FeedSnapshot, Feeding, players, Typed, RegistryTyped, Feeds,
         Elected
<1>2. ASSUME NEW seen \in Cursors \cup {Nobody}, task' = [task EXCEPT ![f].seen = seen]
      PROVE  /\ RegistryTyped' /\ task'[f].seen = seen
             /\ \A g \in Feeders \ {f} : task'[g] = task[g]
  <2> DEFINE now == [of |-> task[f].of, seen |-> seen]
  <2>0. task[f] = [of |-> task[f].of, seen |-> task[f].seen]
    BY <1>1 DEF Feeds
  <2>a. [task[f] EXCEPT !.seen = seen] = now
    BY <2>0
  <2>1. task' = [task EXCEPT ![f] = now]
    BY <1>2, <2>a
  <2>2. now \in Feeds /\ now.seen = seen
    BY <1>1 DEF Feeds, Elected
  <2> HIDE DEF now
  <2> QED
    BY <1>1, <2>1, <2>2 DEF Typed, RegistryTyped
<1>3. CASE TakeSnapshot(f)
  <2> DEFINE seen == member[task[f].of]
  <2>1. seen \in Cursors /\ task' = [task EXCEPT ![f].seen = seen] /\ zone' = zone
        /\ stale' \subseteq stale \cup {f}
    BY <1>1, <1>3 DEF TakeSnapshot, Typed, CursorsTyped
  <2> HIDE DEF seen
  <2>2. /\ RegistryTyped' /\ task'[f].seen = seen
        /\ \A g \in Feeders \ {f} : task'[g] = task[g]
    BY <1>2, <2>1
  <2>3. task'[f].seen # Nobody
    BY <2>1, <2>2, SnapshotsAreNotNobody
  <2>4. stale' \subseteq Holders'
    BY <1>1, <2>1, <2>2, <2>3 DEF Typed, Holders
  <2> QED
    BY <1>1, <2>1, <2>2, <2>4 DEF Typed, RequestsTyped, CursorsTyped
<1>4. CASE FeedSnapshot(f)
  <2>1. /\ task[f].seen \in Cursors /\ task' = [task EXCEPT ![f].seen = Nobody]
        /\ stale' \subseteq stale \ {f}
    BY <1>1, <1>4 DEF FeedSnapshot, ApplyMemberCursor
  <2>2. zone' \in Cursors
    BY <1>4, <2>1, AppliedCursorTyped DEF FeedSnapshot
  <2>3. RegistryTyped' /\ \A g \in Feeders \ {f} : task'[g] = task[g]
    BY <1>2, <2>1
  <2>4. stale' \subseteq Holders'
    BY <1>1, <2>1, <2>3, HoldersAfter DEF Typed
  <2> QED
    BY <1>1, <2>2, <2>3, <2>4 DEF Typed, RequestsTyped, CursorsTyped
<1> QED
  BY <1>3, <1>4

LEMMA CommandTyped ==
  ASSUME Typed, NEW command \in Commands, Execute(command)
  PROVE  Typed'
<1>1. /\ UNCHANGED <<members, live, request, elected, task, source, member>>
      /\ called' = Nobody /\ called \subseteq Decoded
  BY DEF Execute, registry, Typed, CursorsTyped
<1>2. RequestsTyped' /\ RegistryTyped' /\ Holders' = Holders
  BY <1>1 DEF Typed, RequestsTyped, RegistryTyped, Holders
<1>3. CASE UNCHANGED <<fence, zone, driving, stale>>
  BY <1>1, <1>2, <1>3 DEF Typed, CursorsTyped
<1>4. ASSUME NEW arg \in Arguments(command), NEW c \in Commanded(zone, command, arg),
             NEW moves \in BOOLEAN, zone' = c, stale' \subseteq stale \cup Holders,
             driving' = IF called = {} THEN Driven
                        ELSE [command |-> command, arg |-> arg, left |-> called,
                              moves |-> moves]
      PROVE  Typed'
  <2>1. command \in PlayerCommand /\ zone \in Cursors
    BY ZonesAssumption DEF Typed, CursorsTyped
  <2>2. zone' \in Cursors
    BY <1>4, <2>1, CommandedTyped
  <2>3. CursorsTyped'
    <3>1. CASE called = {}
      BY <1>1, <1>4, <2>2, <3>1 DEF Typed, CursorsTyped, Driven
    <3>2. CASE called # {}
      BY <1>1, <1>4, <2>2, <3>2 DEF Typed, CursorsTyped
    <3> QED
      BY <3>1, <3>2
  <2>4. stale' \subseteq Holders'
    BY <1>2, <1>4 DEF Typed
  <2> QED
    BY <1>2, <2>3, <2>4 DEF Typed
<1>5. CASE \E arg \in Arguments(command) : \E c \in Commanded(zone, command, arg) :
             LET moves == source # Nobody /\ Moves(command, zone, c)
             IN /\ zone' = c
                /\ driving' = IF called = {} THEN Driven
                              ELSE [command |-> command, arg |-> arg, left |-> called,
                                    moves |-> moves]
                /\ stale' = IF moves THEN stale \cup Holders ELSE stale
  <2>a. PICK arg \in Arguments(command) : \E c \in Commanded(zone, command, arg) :
             LET moves == source # Nobody /\ Moves(command, zone, c)
             IN /\ zone' = c
                /\ driving' = IF called = {} THEN Driven
                              ELSE [command |-> command, arg |-> arg, left |-> called,
                                    moves |-> moves]
                /\ stale' = IF moves THEN stale \cup Holders ELSE stale
    BY <1>5
  <2>1. PICK c \in Commanded(zone, command, arg) :
             LET moves == source # Nobody /\ Moves(command, zone, c)
             IN /\ zone' = c
                /\ driving' = IF called = {} THEN Driven
                              ELSE [command |-> command, arg |-> arg, left |-> called,
                                    moves |-> moves]
                /\ stale' = IF moves THEN stale \cup Holders ELSE stale
    BY <2>a
  <2> DEFINE moves == source # Nobody /\ Moves(command, zone, c)
  <2>2. moves \in BOOLEAN /\ zone' = c /\ stale' \subseteq stale \cup Holders
        /\ driving' = IF called = {} THEN Driven
                      ELSE [command |-> command, arg |-> arg, left |-> called,
                            moves |-> moves]
    BY <2>1
  <2> HIDE DEF moves
  <2> QED
    BY <1>4, <2>2
<1> QED
  BY <1>3, <1>5 DEF Execute

LEMMA PlayersTyped ==
  ASSUME Typed, Call \/ OutputEnds
                \/ \E p \in Decoded : DriveMember(p) \/ Ticks(p) \/ Advances(p)
  PROVE  Typed'
<1>1. UNCHANGED <<registry, source, stale>>
  BY DEF Call, OutputEnds, DriveMember, Ticks, Advances, PlaysOn, zoneState
<1>2. RequestsTyped' /\ RegistryTyped' /\ stale' \subseteq Holders'
  BY <1>1 DEF registry, Typed, RequestsTyped, RegistryTyped, Holders
<1>3. CASE Call
  <2>1. CursorsTyped'
    BY <1>3 DEF Call, zoneState, Typed, CursorsTyped
  <2> QED
    BY <1>2, <2>1 DEF Typed
<1>5. CASE OutputEnds
  <2>1. PICK s \in TrackEnded(zone.q) : zone' = [q |-> s, elapsed |-> 0]
    BY <1>5 DEF OutputEnds
  <2>2. Sound(TRUE, zone.q) /\ 0 \in 0..MaxElapsed
    BY ElapsedBound DEF Typed, CursorsTyped, Cursors
  <2> DEFINE before == zone.q
  <2>3. Sound(TRUE, before) /\ s \in TrackEnded(before)
    BY <2>2
  <2> HIDE DEF before
  <2>4. Sound(TRUE, s) /\ s \in QueueStates
    BY <2>3, TrackEndedSound DEF Sound
  <2>5. zone' \in Cursors
    BY <2>1, <2>2, <2>4 DEF Cursors
  <2>6. CursorsTyped'
    BY <1>5, <2>5 DEF OutputEnds, players, Typed, CursorsTyped
  <2> QED
    BY <1>2, <2>6 DEF Typed
<1>6. ASSUME NEW p \in Decoded, NEW c \in Cursors, member' = [member EXCEPT ![p] = c],
             UNCHANGED <<zone, called>>,
             driving' \in {driving, Driven, [driving EXCEPT !.left = @ \ {p}]}
      PROVE  Typed'
  <2>a. CASE driving' = Driven
    <3>1. CursorsTyped'
      BY <1>6, <2>a DEF Typed, CursorsTyped, Driven
    <3> QED
      BY <1>2, <3>1 DEF Typed
  <2> SUFFICES ASSUME driving' \in {driving, [driving EXCEPT !.left = @ \ {p}]}
               PROVE  Typed'
    BY <1>6, <2>a
  <2>1. /\ driving' = [command |-> driving.command, arg |-> driving.arg,
                       left |-> driving'.left, moves |-> driving.moves]
        /\ driving'.left \subseteq driving.left
    BY <1>6 DEF Typed, CursorsTyped
  <2>2. /\ driving'.command = driving.command /\ driving'.arg = driving.arg
        /\ driving'.moves = driving.moves
    BY <2>1
  <2>3. CursorsTyped'
    BY <1>6, <2>1, <2>2 DEF Typed, CursorsTyped
  <2> QED
    BY <1>2, <2>3 DEF Typed
<1>7. ASSUME NEW p \in Decoded, DriveMember(p) PROVE Typed'
  <2>1. PICK c \in Commanded(member[p], driving.command, driving.arg) \cup {member[p]} :
          member' = [member EXCEPT ![p] = c]
    BY <1>7 DEF DriveMember
  <2>2. /\ driving.command \in PlayerCommand
        /\ driving.arg \in Arguments(driving.command) /\ member[p] \in Cursors
    BY <1>7, ZonesAssumption DEF DriveMember, Typed, CursorsTyped
  <2> DEFINE command == driving.command
             arg == driving.arg
             before == member[p]
  <2>3. /\ command \in PlayerCommand /\ arg \in Arguments(command)
        /\ before \in Cursors /\ c \in Commanded(before, command, arg) \cup {before}
    BY <2>2
  <2> HIDE DEF command, arg, before
  <2>4. c \in Cursors
    BY <2>3, CommandedTyped
  <2>5. UNCHANGED <<zone, called>> 
        /\ driving' \in {Driven, [driving EXCEPT !.left = @ \ {p}]}
    BY <1>7 DEF DriveMember, zoneState
  <2> QED
    BY <1>6, <2>1, <2>4, <2>5
<1>8. ASSUME NEW p \in Decoded, Ticks(p) PROVE Typed'
  <2> DEFINE c == [member[p] EXCEPT !.elapsed = @ + 1]
  <2>1. member[p] \in Cursors /\ member[p].elapsed < MaxElapsed
    BY <1>8 DEF Ticks, Typed, CursorsTyped
  <2>2. member[p].elapsed + 1 \in 0..MaxElapsed
    <3>1. member[p].elapsed \in 0..MaxElapsed
      BY <2>1 DEF Cursors
    <3> QED
      BY <2>1, <3>1, ElapsedBound
  <2>3. c \in Cursors
    BY <2>1, <2>2 DEF Cursors
  <2>4. member' = [member EXCEPT ![p] = c]
    BY <1>8 DEF Ticks
  <2> HIDE DEF c
  <2>5. UNCHANGED <<zone, called, driving>>
    BY <1>8 DEF Ticks, PlaysOn, zoneState
  <2> QED
    BY <1>6, <2>3, <2>4, <2>5
<1>9. ASSUME NEW p \in Decoded, Advances(p) PROVE Typed'
  <2>1. PICK s \in Advance(member[p].q, TRUE) :
          member' = [member EXCEPT ![p] = [q |-> s, elapsed |-> 0]]
    BY <1>9 DEF Advances
  <2> DEFINE before == member[p].q
             c == [q |-> s, elapsed |-> 0]
  <2>2. Sound(TRUE, before) /\ s \in Advance(before, TRUE) /\ 0 \in 0..MaxElapsed
    BY <2>1, ElapsedBound DEF Typed, CursorsTyped, Cursors
  <2>3. member' = [member EXCEPT ![p] = c]
    BY <2>1
  <2> HIDE DEF before
  <2>4. Sound(TRUE, s) /\ s \in QueueStates
    BY <2>2, AdvanceSound DEF Sound
  <2>5. c \in Cursors
    BY <2>2, <2>4 DEF Cursors
  <2> HIDE DEF c
  <2>6. UNCHANGED <<zone, called, driving>>
    BY <1>9 DEF Advances, PlaysOn, zoneState
  <2> QED
    BY <1>6, <2>3, <2>5, <2>6
<1> QED
  BY <1>3, <1>5, <1>7, <1>8, <1>9

LEMMA TypedStep == Typed /\ [Next]_vars => Typed'
<1> SUFFICES ASSUME Typed, [Next]_vars PROVE Typed'
  OBVIOUS
<1>1. CASE UNCHANGED vars
  BY <1>1 DEF vars, Typed, RequestsTyped, RegistryTyped, CursorsTyped, Holders
<1> QED
  BY <1>1, RequestTyped, ElectionTyped, FeedingTyped, CommandTyped, PlayersTyped
     DEF Next, Administration

\* Everybody's cursor stays in its queue, the zone's also where it takes over a
\* member's, from a snapshot of any age; the registry names players that can
\* play, and nothing counts as a stale snapshot that nobody
\* holds.
THEOREM TypeCorrect == Spec => []TypeOK
<1>1. Init => Typed
  BY InitTyped
<1>2. Typed /\ [Next]_vars => Typed'
  BY TypedStep
<1>3. Typed => TypeOK
  BY TypedMeans
<1> QED
  BY <1>1, <1>2, <1>3, PTL DEF Spec

-----------------------------------------------------------------------------
(* Elections. *)

\* No request goes on beside another one, or what one that did has left behind
\* does not matter any more.
Lone == settled = "alone" \/ ~crossed

Busy(r) == request[r] # Idle

\* What an election under way has recorded and announced, nothing follows
\* another member meanwhile; and between elections a task that feeds the zone
\* is of the member that the entry names and the zone listens to.
Recorded ==
  /\ Lone => \A r \in Requests :
       /\ \A s \in Requests : Busy(r) /\ Busy(s) => r = s
       /\ request[r].at \in {"announce", "apply", "follow"} =>
            elected = request[r].who /\ task["entry"].of = Nobody
       /\ request[r].at \in {"apply", "follow"} => source = request[r].who
  /\ ~crossed /\ task["entry"].of # Nobody =>
       task["entry"].of = elected /\ source = elected

\* An election that runs alone goes by the membership there is.
Chosen ==
  /\ settled = "alone" => \A r \in Requests :
       request[r].at \in {"record", "announce", "apply", "follow"} =>
         request[r].who = Best
  /\ settled = "yes" => \A r \in Requests : ~Busy(r)

Orderly == Recorded /\ Chosen /\ BestIsFollowed

LEMMA InitOrderly == Init => Orderly
<1> SUFFICES ASSUME Init PROVE Orderly
  OBVIOUS
<1>1. Best = Nobody
  BY DEF Init, Best
<1>2. \A r \in Requests : ~Busy(r) /\ request[r].at = "idle"
  BY IdleRow DEF Init, Busy
<1>3. task["entry"].of = Nobody
  BY NoTaskFeeds DEF Init, Feeders
<1> QED
  BY <1>1, <1>2, <1>3 DEF Init, Orderly, Recorded, Chosen, BestIsFollowed

\* What leaves the elections alone.
LEMMA BystanderOrderly ==
  ASSUME Orderly,
         UNCHANGED <<members, live, source, settled, crossed, request, elected>>,
         task'["entry"].of = task["entry"].of
  PROVE  Orderly'
<1>1. Best' = Best
  BY DEF Best
<1> QED
  BY <1>1 DEF Orderly, Lone, Busy, Recorded, Chosen, BestIsFollowed

LEMMA FeedingOrderly ==
  ASSUME Typed, Orderly, NEW f \in Feeders, TakeSnapshot(f) \/ FeedSnapshot(f)
  PROVE  Orderly'
<1>1. UNCHANGED <<members, live, source, settled, crossed, request, elected>>
  BY DEF TakeSnapshot, FeedSnapshot, Feeding, order
<1>a. \E seen : task' = [task EXCEPT ![f].seen = seen]
  BY DEF TakeSnapshot, FeedSnapshot
<1>b. task[f] \in Feeds /\ task = [g \in Feeders |-> task[g]] /\ "entry" \in Feeders
  BY DEF Typed, RegistryTyped, Feeders
<1>c. PICK seen : task' = [task EXCEPT ![f].seen = seen]
  BY <1>a
<1>d. [task[f] EXCEPT !.seen = seen].of = task[f].of
  BY <1>b DEF Feeds
<1>2. task'["entry"].of = task["entry"].of
  BY <1>b, <1>c, <1>d
<1> QED
  BY <1>1, <1>2, BystanderOrderly

LEMMA CommandOrderly ==
  ASSUME Orderly,
         \/ Call \/ \E command \in Commands : Execute(command)
         \/ OutputEnds
         \/ \E p \in Decoded : DriveMember(p) \/ Ticks(p) \/ Advances(p)
  PROVE  Orderly'
<1>1. UNCHANGED <<registry, source, order>>
  BY DEF Call, Execute, OutputEnds, DriveMember, Ticks, Advances, PlaysOn, zoneState
<1> QED
  BY <1>1, BystanderOrderly DEF registry, order

-----------------------------------------------------------------------------
(* The steps of a request.                                                 *)

LEMMA BusyAt == \A r \in Requests : request[r].at # "idle" => Busy(r)
  BY IdleRow DEF Busy

LEMMA RequestStarts ==
  ASSUME Typed, Orderly, NEW r \in Requests,
         \E p \in Player : SetZone(r, p) \/ RemovePlayer(r, p)
  PROVE  Orderly'
<1>1. /\ request[r] = Idle /\ Starts /\ UNCHANGED <<elected, task, source>>
  BY DEF SetZone, RemovePlayer, zoneState
<1>2. /\ \A s \in Requests \ {r} : request'[s] = request[s]
      /\ request'[r].at \in {"read", "delete"}
  <2>1. CASE \E p \in Player : SetZone(r, p)
    <3>1. request' = [request EXCEPT ![r].at = "read"] /\ "read" \in Steps
      BY <2>1 DEF SetZone, Goes, Steps
    <3> QED
      BY <3>1, RequestStep DEF Typed
  <2>2. CASE \E p \in Player : RemovePlayer(r, p)
    BY <2>2 DEF RemovePlayer, Typed, RequestsTyped
  <2> QED
    BY <2>1, <2>2
<1>3. CASE \A s \in Requests : request[s] = Idle
  <2>1. settled' = "alone" /\ crossed' = crossed
    BY <1>1, <1>3 DEF Starts
  <2>2. \A s \in Requests \ {r} : request'[s] = Idle /\ request'[s].at = "idle"
    BY <1>2, <1>3, IdleRow
  <2>3. Recorded'
    BY <1>1, <1>2, <2>1, <2>2 DEF Orderly, Recorded, Busy
  <2>4. Chosen' /\ BestIsFollowed'
    BY <1>2, <2>1, <2>2 DEF Chosen, BestIsFollowed
  <2> QED
    BY <2>3, <2>4 DEF Orderly
<1>4. CASE ~\A s \in Requests : request[s] = Idle
  BY <1>1, <1>4 DEF Starts, Orderly, Lone, Recorded, Chosen, BestIsFollowed
<1> QED
  BY <1>3, <1>4

\* A request that goes on: what it has to leave as it is, and what it has to see to.
LEMMA GoesOnOrderly ==
  ASSUME Typed, Orderly, NEW r \in Requests, request[r].at # "idle",
         UNCHANGED <<settled, crossed, live>>, Best' = Best \/ settled # "alone",
         \A s \in Requests \ {r} : request'[s] = request[s],
         settled = "alone" /\ request'[r].at \in {"record", "announce", "apply", "follow"}
           => request'[r].who = Best',
         Lone /\ request'[r].at \in {"announce", "apply", "follow"}
           => elected' = request'[r].who /\ task'["entry"].of = Nobody,
         Lone /\ request'[r].at \in {"apply", "follow"} => source' = request'[r].who,
         ~crossed /\ task'["entry"].of # Nobody
           => task'["entry"].of = elected' /\ source' = elected'
  PROVE  Orderly'
<1>1. Busy(r) /\ settled # "yes" /\ Lone' = Lone
  BY BusyAt DEF Orderly, Chosen, Lone
<1>2. Lone => \A s \in Requests \ {r} : ~Busy(s) /\ ~Busy(s)' /\ request'[s].at = "idle"
  BY <1>1, IdleRow DEF Orderly, Recorded, Busy
<1>3. Recorded'
  BY <1>1, <1>2 DEF Recorded
<1>4. settled = "alone" => Lone
  BY DEF Lone
<1>5. Chosen'
  BY <1>1, <1>2, <1>4 DEF Chosen
<1>6. BestIsFollowed'
  BY <1>1 DEF BestIsFollowed
<1> QED
  BY <1>3, <1>5, <1>6 DEF Orderly

\* A request that is over: an election that was alone has come to its end.
LEMMA EndsOrderly ==
  ASSUME Typed, Orderly, NEW r \in Requests, request[r].at # "idle",
         request' = [request EXCEPT ![r] = Idle],
         UNCHANGED <<members, live>>,
         Ends \/ EndsAtOnce,
         ~crossed' /\ task'["entry"].of # Nobody
           => task'["entry"].of = elected' /\ source' = elected',
         Lone /\ settled' = "yes" => /\ elected' = Best /\ task'["entry"].of = Best
                                     /\ Best # Nobody => source' = Best
  PROVE  Orderly'
<1>1. Busy(r) /\ settled # "yes" /\ Best' = Best
  BY BusyAt DEF Orderly, Chosen, Best
<1>2. request'[r] = Idle /\ \A s \in Requests \ {r} : request'[s] = request[s]
  BY DEF Typed, RequestsTyped
<1>4. CASE Lone
  <2>1. \A s \in Requests : ~Busy(s)' /\ request'[s].at = "idle"
    BY <1>1, <1>2, <1>4, IdleRow DEF Orderly, Recorded, Busy
  <2>2. Recorded'
    BY <2>1 DEF Recorded
  <2>3. Chosen'
    BY <2>1 DEF Chosen
  <2>4. BestIsFollowed'
    BY <1>1, <1>4 DEF BestIsFollowed
  <2> QED
    BY <2>2, <2>3, <2>4 DEF Orderly
<1>5. CASE ~Lone
  <2>1. settled' # "yes" /\ settled' # "alone" /\ crossed' = crossed /\ crossed
    BY <1>1, <1>5 DEF Ends, EndsAtOnce, order, Lone
  <2> QED
    BY <2>1 DEF Orderly, Recorded, Chosen, BestIsFollowed, Lone
<1> QED
  BY <1>4, <1>5

LEMMA ElectionOrderly ==
  ASSUME Typed, Orderly, NEW r \in Requests, Election(r)
  PROVE  Orderly'
<1>1. CASE DeletePlayer(r)
  <2>1. /\ request[r].at = "delete" /\ UNCHANGED <<live, elected, task, source>>
        /\ request' = [request EXCEPT ![r].at = "read"] /\ "read" \in Steps
        /\ UNCHANGED <<settled, crossed>>
    BY <1>1 DEF DeletePlayer, Goes, zoneState, order, Steps
  <2>2. /\ \A s \in Requests \ {r} : request'[s] = request[s]
        /\ request'[r].at = "read"
    BY <2>1, RequestStep DEF Typed
  <2>3. CASE Lone
    <3>1. \A s \in Requests \ {r} : ~Busy(s) /\ ~Busy(s)' /\ request'[s].at = "idle"
      BY <2>1, <2>2, <2>3, BusyAt, IdleRow DEF Orderly, Recorded, Busy
    <3>2. Recorded'
      BY <2>1, <2>2, <3>1 DEF Orderly, Recorded
    <3>3. settled' # "yes"
      BY <2>1, BusyAt DEF Orderly, Chosen
    <3> QED
      BY <2>2, <3>1, <3>2, <3>3 DEF Orderly, Chosen, BestIsFollowed
  <2>4. CASE ~Lone
    <3>1. settled' # "yes" /\ settled' # "alone" /\ crossed'
      BY <2>1, <2>4, BusyAt DEF Orderly, Chosen, Lone
    <3> QED
      BY <3>1 DEF Orderly, Recorded, Chosen, BestIsFollowed, Lone
  <2> QED
    BY <2>3, <2>4
<1>2. CASE ReadMembers(r)
  <2>1. /\ request[r].at = "read"
        /\ UNCHANGED <<members, live, elected, task, source, settled, crossed>>
        /\ request' = [request EXCEPT ![r].at = "record", ![r].who = Best]
    BY <1>2 DEF ReadMembers, zoneState, order
  <2>2. Best' = Best
    BY <2>1 DEF Best
  <2>3. /\ \A s \in Requests \ {r} : request'[s] = request[s]
        /\ request'[r].at = "record" /\ request'[r].who = Best
    BY <2>1 DEF Typed, RequestsTyped, Rows
  <2>4. ~crossed /\ task'["entry"].of # Nobody
          => task'["entry"].of = elected' /\ source' = elected'
    BY <2>1 DEF Orderly, Recorded
  <2> QED
    BY <2>1, <2>2, <2>3, <2>4, GoesOnOrderly
<1>3. CASE RecordSource(r)
  <2> DEFINE best == request[r].who
             same == /\ elected = best
                     /\ (task["entry"].of # Nobody) = (best # Nobody)
  <2>1. /\ request[r].at = "record" /\ UNCHANGED <<members, live, source>>
        /\ IF same
           THEN /\ request' = [request EXCEPT ![r] = Idle]
                /\ EndsAtOnce
                /\ UNCHANGED <<elected, task>>
           ELSE /\ elected' = best
                /\ task' = [task EXCEPT !["entry"] = NoTask]
                /\ Goes(r, "announce")
                /\ UNCHANGED order
    BY <1>3 DEF RecordSource, RecordUnless, zoneState
  <2>2. Best' = Best /\ (settled = "alone" => best = Best) /\ best \in Elected
    BY <2>1 DEF Orderly, Chosen, Best, Typed, RequestsTyped, Proper
  <2>3. CASE same
    <3>1. /\ request' = [request EXCEPT ![r] = Idle] /\ EndsAtOnce
          /\ UNCHANGED <<elected, task, source>>
      BY <2>1, <2>3
    <3>2. ~crossed' /\ task'["entry"].of # Nobody
            => task'["entry"].of = elected' /\ source' = elected'
      BY <3>1 DEF EndsAtOnce, Orderly, Recorded
    <3>3. settled' = "yes" => settled = "alone" /\ ~crossed
      <4>1. settled # "yes"
        BY <2>1, BusyAt DEF Orderly, Chosen
      <4> QED
        BY <3>1, <4>1 DEF EndsAtOnce
    <3>4. /\ elected = best
          /\ task["entry"].of # Nobody => best # Nobody
          /\ best # Nobody => task["entry"].of # Nobody
      BY <2>3
    <3>5. settled' = "yes" => /\ elected' = Best /\ task'["entry"].of = Best
                              /\ Best # Nobody => source' = Best
      BY <2>2, <3>1, <3>3, <3>4 DEF Orderly, Recorded
    <3> QED
      BY <2>1, <3>1, <3>2, <3>5, EndsOrderly
  <2>4. CASE ~same
    <3>1. /\ elected' = best /\ task' = [task EXCEPT !["entry"] = NoTask]
          /\ request' = [request EXCEPT ![r].at = "announce"]
          /\ "announce" \in Steps /\ UNCHANGED <<settled, crossed>>
      BY <2>1, <2>4 DEF Goes, order, Steps
    <3>2. /\ \A s \in Requests \ {r} : request'[s] = request[s]
          /\ request'[r].at = "announce" /\ request'[r].who = best
      BY <2>1, <2>2, <3>1, RequestStep DEF Typed
    <3>3. task'["entry"].of = Nobody
      BY <3>1, NoTaskFeeds DEF Typed, RegistryTyped, Feeders
    <3> HIDE DEF best
    <3> QED
      BY <2>1, <2>2, <3>1, <3>2, <3>3, GoesOnOrderly
  <2> QED
    BY <2>3, <2>4
<1>4. CASE AnnounceSource(r)
  <2> DEFINE best == request[r].who
  <2>1. /\ request[r].at = "announce"
        /\ UNCHANGED <<members, live, elected, task>>
        /\ source' = best
        /\ request' = [request EXCEPT ![r] =
             IF best = Nobody THEN Idle
             ELSE [@ EXCEPT !.at = "apply", !.seen = member[best]]]
        /\ IF best = Nobody THEN Ends ELSE UNCHANGED order
    BY <1>4 DEF AnnounceSource
  <2>2. /\ Best' = Best /\ (settled = "alone" => best = Best)
        /\ Lone => elected = best /\ task["entry"].of = Nobody
    BY <2>1 DEF Orderly, Chosen, Recorded, Best
  <2>3. CASE best = Nobody
    <3>1. request' = [request EXCEPT ![r] = Idle] /\ Ends
      BY <2>1, <2>3
    <3>2. ~crossed' => Lone
      BY <3>1 DEF Ends, order, Lone
    <3>3. settled' = "yes" => settled = "alone"
      <4>1. settled # "yes"
        BY <2>1, BusyAt DEF Orderly, Chosen
      <4> QED
        BY <3>1, <4>1 DEF Ends, order
    <3>4. ~crossed' /\ task'["entry"].of # Nobody
            => task'["entry"].of = elected' /\ source' = elected'
      BY <2>1, <2>2, <3>2
    <3>5. Lone /\ settled' = "yes" => /\ elected' = Best /\ task'["entry"].of = Best
                                      /\ Best # Nobody => source' = Best
      BY <2>1, <2>2, <2>3, <3>3
    <3> QED
      BY <2>1, <3>1, <3>4, <3>5, EndsOrderly
  <2>4. CASE best # Nobody
    <3>1. request' = [request EXCEPT ![r] =
                        [@ EXCEPT !.at = "apply", !.seen = member[best]]]
          /\ UNCHANGED <<settled, crossed>> /\ request[r] \in Rows
      BY <2>1, <2>4 DEF order, Typed, RequestsTyped
    <3>2. \A s \in Requests \ {r} : request'[s] = request[s]
      BY <3>1 DEF Typed, RequestsTyped
    <3>3. request'[r].at = "apply" /\ request'[r].who = best
      <4> DEFINE row == request[r]
                 seen == member[best]
                 j == [row EXCEPT !.at = "apply", !.seen = seen]
      <4>1. row \in Rows /\ request'[r] = j
        BY <3>1 DEF Typed, RequestsTyped
      <4>2. j = [row EXCEPT !.at = "apply", !.seen = seen]
        OBVIOUS
      <4> HIDE DEF row, seen, j
      <4>3. j = [at |-> "apply", who |-> row.who, seen |-> seen, admin |-> row.admin]
        BY <4>1, <4>2, RowWith
      <4>4. j.at = "apply" /\ j.who = row.who
        BY <4>3
      <4> QED
        BY <4>1, <4>4 DEF row
    <3> HIDE DEF best
    <3> QED
      BY <2>1, <2>2, <3>1, <3>2, <3>3, GoesOnOrderly DEF Lone
  <2> QED
    BY <2>3, <2>4
<1>5. CASE ApplyFirst(r)
  <2>1. /\ request[r].at = "apply" /\ request[r] \in Rows
        /\ UNCHANGED <<members, live, elected, task, source, settled, crossed>>
        /\ request' = [request EXCEPT ![r] = [@ EXCEPT !.at = "follow", !.seen = Nobody]]
    BY <1>5 DEF ApplyFirst, order, Typed, RequestsTyped
  <2>2. Best' = Best
    BY <2>1 DEF Best
  <2>3. /\ \A s \in Requests \ {r} : request'[s] = request[s]
        /\ request'[r].at = "follow" /\ request'[r].who = request[r].who
    <3> DEFINE row == request[r]
               j == [row EXCEPT !.at = "follow", !.seen = Nobody]
    <3>1. row \in Rows /\ request'[r] = j /\ \A s \in Requests \ {r} : request'[s] = request[s]
      BY <2>1 DEF Typed, RequestsTyped
    <3>2. j = [row EXCEPT !.at = "follow", !.seen = Nobody]
      OBVIOUS
    <3> HIDE DEF row, j
    <3>3. j = [at |-> "follow", who |-> row.who, seen |-> Nobody, admin |-> row.admin]
      BY <3>1, <3>2, RowWith
    <3>4. j.at = "follow" /\ j.who = row.who
      BY <3>3
    <3> QED
      BY <3>1, <3>4 DEF row
  <2>4. /\ settled = "alone" => request[r].who = Best
        /\ Lone => /\ elected = request[r].who /\ task["entry"].of = Nobody
                   /\ source = request[r].who
        /\ ~crossed /\ task["entry"].of # Nobody
             => task["entry"].of = elected /\ source = elected
    BY <2>1 DEF Orderly, Chosen, Recorded
  <2> QED
    BY <2>1, <2>2, <2>3, <2>4, GoesOnOrderly
<1>6. CASE Follow(r)
  <2>1. /\ request[r].at = "follow"
        /\ UNCHANGED <<members, live, source, elected>>
        /\ task' = [task EXCEPT !["entry"] = NewTask(r)]
        /\ request' = [request EXCEPT ![r] = Idle]
        /\ Ends
    BY <1>6 DEF Follow, zoneState
  <2>2. /\ settled = "alone" => request[r].who = Best
        /\ Lone => elected = request[r].who /\ source = request[r].who
    BY <2>1 DEF Orderly, Chosen, Recorded
  <2>3. task'["entry"].of = request[r].who
    BY <2>1 DEF Typed, RegistryTyped, Feeders, NewTask
  <2>4. ~crossed' => Lone
    BY <2>1 DEF Ends, order, Lone
  <2>5. settled' = "yes" => settled = "alone"
    <3>1. settled # "yes"
      BY <2>1, BusyAt DEF Orderly, Chosen
    <3> QED
      BY <2>1, <3>1 DEF Ends, order
  <2>6. ~crossed' /\ task'["entry"].of # Nobody
          => task'["entry"].of = elected' /\ source' = elected'
    BY <2>1, <2>2, <2>3, <2>4
  <2>7. Lone /\ settled' = "yes" => /\ elected' = Best /\ task'["entry"].of = Best
                                    /\ Best # Nobody => source' = Best
    BY <2>1, <2>2, <2>3, <2>5
  <2> QED
    BY <2>1, <2>6, <2>7, EndsOrderly
<1> QED
  BY <1>1, <1>2, <1>3, <1>4, <1>5, <1>6 DEF Election

LEMMA AbortOrderly ==
  ASSUME Typed, Orderly, NEW r \in Requests, Abort(r)
  PROVE  Orderly'
<1>1. /\ request' = [request EXCEPT ![r] = Idle] /\ settled' = "no"
      /\ UNCHANGED <<elected, source, crossed>>
      /\ task'["entry"].of = task["entry"].of
  BY DEF Abort, zoneState, Typed, RegistryTyped, Feeders
<1>2. /\ request'[r] = Idle /\ request'[r].at = "idle"
      /\ \A s \in Requests \ {r} : request'[s] = request[s]
  BY <1>1, IdleRow DEF Typed, RequestsTyped
<1>3. Recorded'
  BY <1>1, <1>2 DEF Orderly, Recorded, Lone, Busy
<1> QED
  BY <1>1, <1>3 DEF Orderly, Chosen, BestIsFollowed

LEMMA OrderlyStep == Typed /\ Orderly /\ [Next]_vars => Orderly'
<1> SUFFICES ASSUME Typed, Orderly, [Next]_vars PROVE Orderly'
  OBVIOUS
<1>1. CASE UNCHANGED vars
  BY <1>1, BystanderOrderly DEF vars
<1> QED
  BY <1>1, FeedingOrderly, CommandOrderly, RequestStarts, ElectionOrderly,
     AbortOrderly DEF Next, Administration

\* However membership requests overlapped and were cut short before, an election
\* that runs alone and to its end, and after an overlap finds somebody else to
\* elect, leaves the registry, the zone and the task that feeds it agreed on the
\* member there should be.
THEOREM ElectedIsFollowed == Spec => []BestIsFollowed
<1> DEFINE Inv == Typed /\ Orderly
<1>1. Init => Inv
  BY InitTyped, InitOrderly
<1>2. Inv /\ [Next]_vars => Inv'
  BY TypedStep, OrderlyStep
<1>3. Inv => BestIsFollowed
  BY DEF Orderly
<1> QED
  BY <1>1, <1>2, <1>3, PTL DEF Spec

-----------------------------------------------------------------------------
(* Snapshots. *)

Steady(s, t) == t.status = s.status /\ t.position = s.position

LEMMA PreparedSteady ==
  ASSUME NEW s \in QueueStates, NEW command
  PROVE  Steady(s, Prepared(s, command)) /\ Prepared(s, command) \in QueueStates
<1> DEFINE u == CancelRefill(s)
<1>1. Steady(s, u) /\ u \in QueueStates
  BY CancelTyped DEF QueueStates, CancelRefill, Steady
<1> HIDE DEF u
<1>2. /\ Steady(s, [u EXCEPT !.cleared = {}]) /\ [u EXCEPT !.cleared = {}] \in QueueStates
      /\ Steady(s, [s EXCEPT !.cleared = {}]) /\ [s EXCEPT !.cleared = {}] \in QueueStates
  BY <1>1 DEF QueueStates, Steady
<1>3. Steady(s, s)
  BY DEF Steady
<1>4. Prepared(s, command) \in {s, u, [s EXCEPT !.cleared = {}], [u EXCEPT !.cleared = {}]}
  BY DEF Prepared, u
<1> QED
  BY <1>1, <1>2, <1>3, <1>4

\* What says nothing about where to play leaves the cursor where it is.
LEMMA OthersKeepCursor ==
  ASSUME NEW s \in QueueStates,
         NEW command \in {"SetVolume", "SetRepeat", "SetShuffle", "Enqueue"},
         NEW arg, NEW t \in Applied(s, command, arg)
  PROVE  Steady(s, t)
<1>1. CASE command = "SetVolume"
  BY <1>1 DEF Applied, Steady
<1>2. CASE command = "SetRepeat"
  BY <1>2 DEF Applied, Steady, QueueStates
<1>3. CASE command = "SetShuffle"
  <2>1. \A b, o : Steady(s, [s EXCEPT !.shuffle = b, !.order = o])
    BY DEF QueueStates, Steady
  <2>2. PICK b, o : t = [s EXCEPT !.shuffle = b, !.order = o]
    BY <1>3 DEF Applied, ShuffleTo
  <2> QED
    BY <2>1, <2>2
<1>4. CASE command = "Enqueue"
  BY <1>4 DEF Applied, EnqueueItems, Steady, QueueStates
<1> QED
  BY <1>1, <1>2, <1>3, <1>4

\* So a command that moves the cursor of a zone that follows a member raises the
\* fence.
LEMMA MovingRaisesFence ==
  ASSUME NEW c \in Cursors, NEW command \in PlayerCommand,
         NEW arg \in Arguments(command), NEW d \in Commanded(c, command, arg),
         Moves(command, c, d)
  PROVE  command \in MovesCursor
<1> SUFFICES ASSUME command \notin MovesCursor PROVE FALSE
  OBVIOUS
<1>1. command \in {"SetVolume", "SetRepeat", "SetShuffle", "Enqueue"}
  BY DEF PlayerCommand, MovesCursor, Moves
<1> DEFINE s == c.q
<1>2. s \in QueueStates
  BY DEF Cursors
<1>3. c.q.status # d.q.status \/ c.q.position # d.q.position
  BY DEF Moves
<1>4. PICK t \in Outcomes(s, command, arg) : d.q = Uncounted(t)
  BY <1>3 DEF Commanded
<1>5. ~Steady(s, d.q)
  BY <1>3 DEF Steady
<1> HIDE DEF s
<1> DEFINE u == Prepared(s, command)
<1>6. u \in QueueStates /\ Steady(s, u)
  BY <1>2, PreparedSteady
<1>7. t \in Applied(u, command, arg)
  BY <1>1, <1>4 DEF Outcomes
<1> HIDE DEF u
<1>8. Steady(u, t)
  BY <1>1, <1>6, <1>7, OthersKeepCursor
<1>9. Steady(t, Uncounted(t))
  BY DEF Steady, Uncounted
<1> QED
  BY <1>4, <1>5, <1>6, <1>8, <1>9 DEF Steady

LEMMA CursorsAreNotNobody == \A c \in Cursors : Cursor(c) # Nobody
<1> SUFFICES ASSUME NEW c \in Cursors PROVE Cursor(c) # Nobody
  OBVIOUS
<1>1. /\ c.q.status \in Status /\ c.q.position \in Nat
      /\ c.elapsed \in 0..MaxElapsed
  BY DEF Cursors, QueueStates
<1>2. c.elapsed \in Nat
  BY <1>1, ElapsedBound
<1>3. Cursor(c) \in [status : Status, position : Nat, elapsed : Nat]
  BY <1>1, <1>2 DEF Cursor
<1> QED
  BY <1>3, ZonesAssumption

\* A snapshot that has got stale is still to be applied, and the zone waits for
\* the effect of what made it stale: the fence it has is not lifted before.
Fenced == driving.moves \/ stale # {} => fence # Nobody

LEMMA InitFenced == Init => Fenced
  BY DEF Init, Fenced, Driven

\* Once the fence is lifted nothing counts as stale, and nobody is being driven.
LEMMA AppliedFenced ==
  ASSUME Fenced, Sync, UNCHANGED driving,
         NEW p, NEW seen, NEW holder, ApplyMemberCursor(p, seen, holder)
  PROVE  Fenced'
<1>1. ~driving.moves
  BY DEF Sync, Driven
<1> QED
  BY <1>1 DEF ApplyMemberCursor, Fenced

LEMMA RequestFenced ==
  ASSUME Fenced, NEW r \in Requests,
         \/ \E p \in Player : SetZone(r, p) \/ RemovePlayer(r, p)
         \/ Election(r) \/ Abort(r)
  PROVE  Fenced'
<1>1. CASE AnnounceSource(r)
  <2>1. ~driving.moves /\ UNCHANGED driving
    BY <1>1 DEF AnnounceSource, Sync, Driven, players
  <2> QED
    BY <1>1, <2>1 DEF AnnounceSource, Fenced
<1>2. CASE ApplyFirst(r)
  BY <1>2, AppliedFenced DEF ApplyFirst, players
<1>3. ASSUME UNCHANGED <<fence, driving>>, stale' \subseteq stale
      PROVE  Fenced'
  BY <1>3 DEF Fenced
<1>4. CASE \E p \in Player : SetZone(r, p) \/ RemovePlayer(r, p)
  BY <1>3, <1>4 DEF SetZone, RemovePlayer, zoneState, players
<1>5. CASE DeletePlayer(r) \/ ReadMembers(r) \/ RecordSource(r) \/ Follow(r) \/ Abort(r)
  BY <1>3, <1>5 DEF DeletePlayer, ReadMembers, RecordSource, RecordUnless, Follow,
     Abort, zoneState, players
<1> QED
  BY <1>1, <1>2, <1>4, <1>5 DEF Election

LEMMA FeedingFenced ==
  ASSUME Fenced, NEW f \in Feeders, TakeSnapshot(f) \/ FeedSnapshot(f)
  PROVE  Fenced'
<1>1. CASE TakeSnapshot(f)
  BY <1>1 DEF TakeSnapshot, Feeding, players, Fenced
<1>2. CASE FeedSnapshot(f)
  BY <1>2, AppliedFenced DEF FeedSnapshot, Feeding, players
<1> QED
  BY <1>1, <1>2

LEMMA CommandFenced ==
  ASSUME Typed, Fenced, NEW command \in Commands, Execute(command)
  PROVE  Fenced'
<1>1. CASE UNCHANGED <<fence, zone, driving, stale>>
  BY <1>1 DEF Fenced
<1>2. CASE \E arg \in Arguments(command) : \E c \in Commanded(zone, command, arg) :
             LET moves == source # Nobody /\ Moves(command, zone, c)
             IN /\ fence' = IF source # Nobody /\ command \in MovesCursor
                            THEN Cursor(c) ELSE fence
                /\ driving' = IF called = {} THEN Driven
                              ELSE [command |-> command, arg |-> arg, left |-> called,
                                    moves |-> moves]
                /\ stale' = IF moves THEN stale \cup Holders ELSE stale
  <2>1. PICK arg \in Arguments(command) : \E c \in Commanded(zone, command, arg) :
             LET moves == source # Nobody /\ Moves(command, zone, c)
             IN /\ fence' = IF source # Nobody /\ command \in MovesCursor
                            THEN Cursor(c) ELSE fence
                /\ driving' = IF called = {} THEN Driven
                              ELSE [command |-> command, arg |-> arg, left |-> called,
                                    moves |-> moves]
                /\ stale' = IF moves THEN stale \cup Holders ELSE stale
    BY <1>2
  <2>2. PICK c \in Commanded(zone, command, arg) :
             LET moves == source # Nobody /\ Moves(command, zone, c)
             IN /\ fence' = IF source # Nobody /\ command \in MovesCursor
                            THEN Cursor(c) ELSE fence
                /\ driving' = IF called = {} THEN Driven
                              ELSE [command |-> command, arg |-> arg, left |-> called,
                                    moves |-> moves]
                /\ stale' = IF moves THEN stale \cup Holders ELSE stale
    BY <2>1
  <2> DEFINE moves == source # Nobody /\ Moves(command, zone, c)
  <2>3. command \in PlayerCommand /\ zone \in Cursors /\ c \in Cursors
    BY ZonesAssumption, CommandedTyped DEF Typed, CursorsTyped
  <2>4. moves \/ fence # Nobody => fence' # Nobody
    BY <2>2, <2>3, MovingRaisesFence, CursorsAreNotNobody
  <2>5. driving' \in {Driven, [command |-> command, arg |-> arg, left |-> called,
                               moves |-> moves]}
        /\ stale' = IF moves THEN stale \cup Holders ELSE stale
    BY <2>2
  <2>6. moves \in BOOLEAN
    OBVIOUS
  <2> HIDE DEF moves
  <2>7. driving'.moves => moves
    BY <2>5, <2>6 DEF Driven
  <2> QED
    BY <2>4, <2>5, <2>7 DEF Fenced
<1> QED
  BY <1>1, <1>2 DEF Execute

LEMMA PlayersFenced ==
  ASSUME Typed, Fenced, Call \/ OutputEnds
                \/ \E p \in Decoded : DriveMember(p) \/ Ticks(p) \/ Advances(p)
  PROVE  Fenced'
<1>1. UNCHANGED <<fence, stale>>
  BY DEF Call, OutputEnds, DriveMember, Ticks, Advances, PlaysOn, zoneState
<1>2. driving'.moves => driving.moves
  <2>1. ASSUME NEW p \in Decoded, DriveMember(p) PROVE driving'.moves => driving.moves
    BY <2>1 DEF DriveMember, Driven, Typed, CursorsTyped
  <2>2. CASE driving' = driving
    BY <2>2
  <2> QED
    BY <2>1, <2>2 DEF Call, OutputEnds, Ticks, Advances, PlaysOn, players
<1> QED
  BY <1>1, <1>2 DEF Fenced

LEMMA FencedStep == Typed /\ Fenced /\ [Next]_vars => Fenced'
<1> SUFFICES ASSUME Typed, Fenced, [Next]_vars PROVE Fenced'
  OBVIOUS
<1>1. CASE UNCHANGED vars
  BY <1>1 DEF vars, Fenced
<1> QED
  BY <1>1, RequestFenced, FeedingFenced, CommandFenced, PlayersFenced
     DEF Next, Administration

\* What fits a raised fence is where the fence is.
LEMMA AppliedAtFence ==
  ASSUME Typed, NEW p, NEW seen, NEW holder, ApplyMemberCursor(p, seen, holder),
         fence # Nobody
  PROVE  \/ zone'.q.status = zone.q.status /\ zone'.q.position = zone.q.position
         \/ zone'.q.status = fence.status /\ zone'.q.position = fence.position
<1>1. CASE zone' = zone
  BY <1>1
<1>2. CASE /\ fence = Cursor(seen)
           /\ zone' = [q |-> [zone.q EXCEPT !.status = seen.q.status,
                                            !.position = seen.q.position],
                       elapsed |-> seen.elapsed]
  <2> DEFINE s == zone.q
             t == [s EXCEPT !.status = seen.q.status, !.position = seen.q.position]
  <2>1. s \in QueueStates /\ zone'.q = t
    BY <1>2 DEF Typed, CursorsTyped, Cursors
  <2> HIDE DEF s
  <2>2. t.status = seen.q.status /\ t.position = seen.q.position
    BY <2>1 DEF QueueStates
  <2>3. fence.status = seen.q.status /\ fence.position = seen.q.position
    BY <1>2 DEF Cursor
  <2> QED
    BY <2>1, <2>2, <2>3
<1> QED
  BY <1>1, <1>2 DEF ApplyMemberCursor

\* What was read of the member before a command moved the zone's cursor never
\* takes the zone back, whichever request or task applies it and when, until the
\* zone has met the cursor the command left: `apply_member_cursor` accepts it only
\* where that is.
THEOREM SnapshotsNeverRollBack == Spec => NoRollback
<1> DEFINE Inv == Typed /\ Fenced
<1>1. Init => Inv
  BY InitTyped, InitFenced
<1>2. Inv /\ [Next]_vars => Inv'
  BY TypedStep, FencedStep
<1>3. Inv /\ [Next]_vars =>
        [(\/ \E f \in stale : f \in Feeders /\ FeedSnapshot(f)
          \/ \E r \in stale : r \in Requests /\ ApplyFirst(r))
         => \/ zone'.q.status = zone.q.status /\ zone'.q.position = zone.q.position
            \/ /\ fence # Nobody
               /\ zone'.q.status = fence.status
               /\ zone'.q.position = fence.position]_vars
  <2> SUFFICES ASSUME Inv,
                      \/ \E f \in stale : f \in Feeders /\ FeedSnapshot(f)
                      \/ \E r \in stale : r \in Requests /\ ApplyFirst(r)
               PROVE  \/ /\ zone'.q.status = zone.q.status
                         /\ zone'.q.position = zone.q.position
                      \/ /\ fence # Nobody
                         /\ zone'.q.status = fence.status
                         /\ zone'.q.position = fence.position
    OBVIOUS
  <2>1. fence # Nobody
    BY DEF Fenced
  <2>2. \E p, seen, holder : ApplyMemberCursor(p, seen, holder)
    BY DEF FeedSnapshot, ApplyFirst
  <2> QED
    BY <2>1, <2>2, AppliedAtFence
<1> QED
  BY <1>1, <1>2, <1>3, PTL DEF Spec, NoRollback
=============================================================================
