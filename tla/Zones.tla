------------------------------- MODULE Zones --------------------------------
(***************************************************************************)
(* A zone and the players in it (PlayerManager and ZonePlayer of           *)
(* players.rs): who is in the zone, which member's cursor the zone takes   *)
(* over, and how a command reaches the zone's queue and its members.       *)
(*                                                                         *)
(* Membership changes are requests of several steps, an election among     *)
(* them.  They take no lock and may overlap, and a client that goes away   *)
(* cuts its request short at any step.  The zone's `sync` mutex covers a   *)
(* command from its effect on the zone's own queue to the last member      *)
(* driven (`driving`), and what else needs it waits; members play on all   *)
(* the while.  The task that feeds the zone takes a snapshot of the        *)
(* elected member first and has it applied later.                          *)
(*                                                                         *)
(* A browser in the zone shows the zone's own queue and has no cursor.     *)
(* Time played is a small number.  Left out: volume, continuous play       *)
(* (module Autoplay), the zone's own Snapcast stream.                      *)
(***************************************************************************)
EXTENDS PlayerCommands, FiniteSets

CONSTANTS Nobody,
          Snapcasts, Mpds, Browsers,  \* the players there are
          Requests,     \* requests to change a membership
          Commands,     \* commands a listener may send to the zone
          MaxElapsed,   \* bound: time played
          MaxSteps      \* bound: changes of a membership, requests cut short,
                        \* commands and members' own steps, together

\* The tasks that may feed a zone: the one the registry's entry has, and one whose
\* request was cut short before the entry got it (bound: one, the last).
Feeders == {"entry", "stray"}

Decoded == Snapcasts \cup Mpds
Player == Decoded \cup Browsers

ASSUME ZonesAssumption ==
  /\ Nobody \notin Player /\ Feeders \cap Requests = {}
  /\ IsFiniteSet(Player) /\ Snapcasts \cap Mpds = {}
  /\ Commands \subseteq PlayerCommand
  /\ {MaxElapsed, MaxSteps} \subseteq Nat
  /\ Nobody \notin [status : Status, position : Nat, elapsed : Nat]  \* cursors
  /\ Nobody \notin [q : QueueStates, elapsed : Nat]                  \* snapshots

VARIABLES
  members,  \* the players whose record names the zone
  live,     \* the players with a runtime
  request,  \* how far each request is, and whether it holds `administration`
  elected,  \* the registry's entry: the elected member
  task,     \* every feeder: whose snapshots it takes, and the one it holds
  source,   \* the member whose cursor the zone accepts
  fence,    \* the cursor the zone waits for
  zone,     \* the zone's queue and time played
  member,   \* the same of every decoded player
  called,   \* the members a command that waits for `sync` has read
  driving,  \* the command under way, who has yet to be driven, and (history)
            \* whether it moved the cursor of a zone that follows a member
  steps,    \* how many of the steps that are bounded there were
  settled,  \* history: "yes" when the last election ran alone and to its end,
            \* "alone" while one does, and "no" otherwise
  crossed,  \* history: requests have overlapped, and none has run alone since
            \* and elected anew
  stale     \* history: who holds a snapshot from before a command whose
            \* effect the zone waits for

vars == <<members, live, request, elected, task, source, fence, zone, member,
          called, driving, steps, settled, crossed, stale>>
registry == <<members, live, request, elected, task>>
zoneState == <<source, fence, zone>>
players == <<member, called, driving>>
order == <<settled, crossed>>

Idle == [at |-> "idle", who |-> Nobody, seen |-> Nobody, admin |-> FALSE]
NoTask == [of |-> Nobody, seen |-> Nobody]
Driven == [command |-> "none", arg |-> 0, left |-> {}, moves |-> FALSE]

Paused(batch) ==
  [q |-> Restored([items |-> batch,
                   playback |-> [Playback(EmptyQueue) EXCEPT
                                   !.position = 1, !.status = "Paused"]]),
   elapsed |-> 0]

\* The players were restored, and no member is elected yet.
Init ==
  /\ members = {} /\ live = Player
  /\ request = [r \in Requests |-> Idle]
  /\ elected = Nobody /\ task = [f \in Feeders |-> NoTask]
  /\ source = Nobody /\ fence = Nobody
  /\ \E batch \in Batches :
       /\ zone = Paused(batch)
       /\ member = [p \in Decoded |-> Paused(batch)]
  /\ called = Nobody /\ driving = Driven
  /\ steps = 0
  /\ settled = "yes" /\ crossed = FALSE /\ stale = {}

Counted == steps < MaxSteps /\ steps' = steps + 1

\* The zone's `sync` mutex is free.
Sync == driving = Driven

-----------------------------------------------------------------------------
(* Cursors. *)

\* The command starts an item, or the item, from its beginning.
Rewinds(command, s, t) ==
  \/ command \in {"Stop", "Previous", "Seek", "Clear", "PlayQueueIndex",
                  "PlayTracks", "PlayStream"}
  \/ command \in {"Next", "RemoveQueueItem"}
     /\ (s.position # t.position \/ s.repeat = "All")

\* What a command makes of a queue; nothing where it is refused.
Commanded(c, command, arg) ==
  {[q |-> Uncounted(s), elapsed |-> IF Rewinds(command, c.q, s) THEN 0 ELSE c.elapsed] :
     s \in Outcomes(c.q, command, arg)}

Cursor(c) == [status |-> c.q.status, position |-> c.q.position,
              elapsed |-> c.elapsed]

\* Variant: a command that starts or halts playback raises no fence.
MovesButPlayAndPause ==
  {"Stop", "Next", "Previous", "Seek", "Clear", "RestoreClearedQueue",
   "PlayQueueIndex", "PlayTracks", "PlayStream"}

MovesCursor ==
  {"Play", "Pause", "Stop", "Next", "Previous", "Seek", "Clear",
   "RestoreClearedQueue", "PlayQueueIndex", "PlayTracks", "PlayStream"}

\* Variant: the last position counts as outside the queue.
FitsBefore(c) == c.q.queue = zone.q.queue /\ c.q.position < Len(zone.q.queue)

Fits(c) == c.q.queue = zone.q.queue /\ c.q.position <= Len(zone.q.queue)

\* `apply_member_cursor`, with a snapshot of p's queue that `holder` had.  Once
\* the zone has met its fence, or has none, no snapshot counts as stale.
ApplyMemberCursor(p, seen, holder) ==
  IF source = p /\ Fits(seen) /\ fence \in {Nobody, Cursor(seen)}
  THEN /\ fence' = Nobody /\ stale' = {}
       /\ zone' = [q |-> [zone.q EXCEPT !.status = seen.q.status,
                                        !.position = seen.q.position],
                   elapsed |-> seen.elapsed]
  ELSE stale' = stale \ {holder} /\ UNCHANGED <<fence, zone>>

-----------------------------------------------------------------------------
(* Membership and elections.                                               *)

Starts ==
  IF \A r \in Requests : request[r] = Idle THEN settled' = "alone" /\ UNCHANGED crossed
  ELSE settled' = "no" /\ crossed' = TRUE

\* An election that finds nothing to do decides nothing after an overlap.
EndsAtOnce ==
  /\ settled' = CASE settled # "alone" -> settled
                  [] settled = "alone" /\ crossed -> "no"
                  [] OTHER -> "yes"
  /\ UNCHANGED crossed

Ends == IF settled = "alone" THEN settled' = "yes" /\ crossed' = FALSE
        ELSE UNCHANGED order

Goes(r, step) == request' = [request EXCEPT ![r].at = step]

\* `set_zone` of a player that has a record: that is written, then the zone elects.
SetZone(r, p) ==
  /\ request[r] = Idle /\ p \in live \cup members
  /\ Counted
  /\ members' = IF p \in members THEN members \ {p} ELSE members \cup {p}
  /\ Goes(r, "read")
  /\ Starts
  /\ UNCHANGED <<live, elected, task, zoneState, players, stale>>

\* `remove`, one at a time: the runtime goes first, then the record, then the
\* zone elects.
RemovePlayer(r, p) ==
  /\ request[r] = Idle /\ p \in members
  /\ \A s \in Requests : ~request[s].admin
  /\ Counted
  /\ live' = live \ {p}
  /\ request' = [request EXCEPT ![r] = 
       [at |-> "delete", who |-> p, seen |-> Nobody, admin |-> TRUE]]
  /\ Starts
  /\ UNCHANGED <<members, elected, task, zoneState, players, stale>>

DeletePlayer(r) ==
  /\ request[r].at = "delete"
  /\ members' = members \ {request[r].who}
  /\ Goes(r, "read")
  /\ UNCHANGED <<live, elected, task, zoneState, players, steps, order, stale>>

\* A Snapcast player before an MPD player, and never a browser.
Best ==
  LET able == members \cap live \cap Decoded
  IN CASE able = {} -> Nobody
       [] able \cap Snapcasts # {} -> CHOOSE p \in able \cap Snapcasts : TRUE
       [] OTHER -> CHOOSE p \in able : TRUE

ReadMembers(r) ==
  /\ request[r].at = "read"
  /\ request' = [request EXCEPT ![r].at = "record", ![r].who = Best]
  /\ UNCHANGED <<members, live, players, elected, task, zoneState, steps, order, stale>>

RecordUnless(r, same) ==
  /\ request[r].at = "record"
  /\ IF same
     THEN /\ request' = [request EXCEPT ![r] = Idle]
          /\ EndsAtOnce
          /\ UNCHANGED <<elected, task, stale>>
     ELSE /\ elected' = request[r].who
          /\ task' = [task EXCEPT !["entry"] = NoTask] /\ stale' = stale \ {"entry"}
          /\ Goes(r, "announce")
          /\ UNCHANGED order
  /\ UNCHANGED <<members, live, players, zoneState, steps>>

\* Variant: a source without its task counts as followed.
RecordSourceByName(r) == RecordUnless(r, elected = request[r].who)

\* The election is over before it began, or the old task is aborted.
RecordSource(r) ==
  LET best == request[r].who
  IN RecordUnless(r, elected = best
                       /\ (task["entry"].of # Nobody) = (best # Nobody))

\* `set_cursor_source`, and the first look at the new source.
AnnounceSource(r) ==
  LET best == request[r].who
  IN /\ request[r].at = "announce" /\ Sync
     /\ source' = best
     /\ IF source = best THEN UNCHANGED <<fence, stale>>
        ELSE fence' = Nobody /\ stale' = {}
     /\ request' = [request EXCEPT ![r] =
          IF best = Nobody THEN Idle
          ELSE [@ EXCEPT !.at = "apply", !.seen = member[best]]]
     /\ IF best = Nobody THEN Ends ELSE UNCHANGED order
     /\ UNCHANGED <<members, live, players, elected, task, zone, steps>>

ApplyFirst(r) ==
  /\ request[r].at = "apply" /\ Sync
  /\ ApplyMemberCursor(request[r].who, request[r].seen, r)
  /\ request' = [request EXCEPT ![r] = [@ EXCEPT !.at = "follow", !.seen = Nobody]]
  /\ UNCHANGED <<members, live, players, elected, task, source, steps, order>>

NewTask(r) == [of |-> request[r].who, seen |-> Nobody]

\* The new task replaces the one the entry has by now.
Follow(r) ==
  /\ request[r].at = "follow"
  /\ task' = [task EXCEPT !["entry"] = NewTask(r)] /\ stale' = stale \ {"entry"}
  /\ request' = [request EXCEPT ![r] = Idle]
  /\ Ends
  /\ UNCHANGED <<members, live, players, elected, zoneState, steps>>

\* The client is gone, and its request with it; a task begun already goes on.
Abort(r) ==
  /\ request[r] # Idle
  /\ Counted
  /\ request' = [request EXCEPT ![r] = Idle]
  /\ settled' = "no"
  /\ \/ UNCHANGED task /\ stale' = stale \ {r}
     \/ /\ request[r].at = "follow"
        /\ task' = [task EXCEPT !["stray"] = NewTask(r)]
        /\ stale' = stale \ {"stray"}
  /\ UNCHANGED <<members, live, players, elected, zoneState, crossed>>

Election(r) ==
  DeletePlayer(r) \/ ReadMembers(r) \/ RecordSource(r) \/ AnnounceSource(r)
    \/ ApplyFirst(r) \/ Follow(r)

Administration ==
  \E r \in Requests :
    (\E p \in Player : SetZone(r, p) \/ RemovePlayer(r, p)) \/ Election(r) \/ Abort(r)

-----------------------------------------------------------------------------
(* The task that feeds the zone: on a broadcast of the member, and every   *)
(* second.                                                                 *)

Feeding(f) ==
  /\ task[f].of # Nobody
  /\ UNCHANGED <<members, live, request, elected, source, players, steps, order>>

TakeSnapshot(f) ==
  /\ Feeding(f) /\ task[f].seen = Nobody
  /\ task' = [task EXCEPT ![f].seen = member[task[f].of]]
  /\ stale' = IF driving.moves /\ task[f].of \in driving.left
              THEN stale \cup {f} ELSE stale
  /\ UNCHANGED <<fence, zone>>

FeedSnapshot(f) ==
  /\ Feeding(f) /\ task[f].seen # Nobody /\ Sync
  /\ ApplyMemberCursor(task[f].of, task[f].seen, f)
  /\ task' = [task EXCEPT ![f].seen = Nobody]

-----------------------------------------------------------------------------
(* Commands.                                                               *)

\* `command_zone` reads who the members are.
Call ==
  /\ called = Nobody
  /\ Counted
  /\ called' = members \cap live \cap Decoded
  /\ UNCHANGED <<registry, zoneState, member, driving, order, stale>>

\* The command says where to play; what removes or moves an item takes the cursor
\* along with the item that plays.
Moves(command, c, d) ==
  /\ command \notin {"RemoveQueueItem", "MoveQueueItem"}
  /\ c.q.status # d.q.status \/ c.q.position # d.q.position

\* Who holds a snapshot.
Holders == {r \in Requests : request[r].at = "apply"}
             \cup {f \in Feeders : task[f].seen # Nobody}

\* The first half of `execute`; a command that is refused is over.
Execute(command) ==
  /\ Sync /\ called # Nobody /\ called' = Nobody
  /\ \E arg \in Arguments(command) :
       \/ /\ Commanded(zone, command, arg) = {}
          /\ UNCHANGED <<fence, zone, driving, stale>>
       \/ \E c \in Commanded(zone, command, arg) :
            LET moves == source # Nobody /\ Moves(command, zone, c)
            IN /\ Len(c.q.queue) <= MaxLen
               /\ zone' = c
               /\ fence' = IF source # Nobody /\ command \in MovesCursor
                           THEN Cursor(c) ELSE fence
               /\ driving' = IF called = {} THEN Driven
                             ELSE [command |-> command, arg |-> arg, left |-> called,
                                   moves |-> moves]
               /\ stale' = IF moves THEN stale \cup Holders ELSE stale
  /\ UNCHANGED <<registry, source, member, steps, order>>

\* A member may also fail, or refuse; that is logged and no more.  After the last
\* one `sync` is free.
DriveMember(p) ==
  /\ p \in driving.left
  /\ driving' = IF driving.left = {p} THEN Driven
                ELSE [driving EXCEPT !.left = @ \ {p}]
  /\ \E c \in Commanded(member[p], driving.command, driving.arg) \cup {member[p]} :
       member' = [member EXCEPT ![p] = c]
  /\ UNCHANGED <<registry, zoneState, called, steps, order, stale>>

\* A browser that renders the zone, member or not, has come to the end of its
\* track; with a source, that is not its business.
OutputEnds ==
  /\ Sync /\ source = Nobody
  /\ zone.q.status = "Playing"
  /\ Counted
  /\ \E s \in TrackEnded(zone.q) : zone' = [q |-> s, elapsed |-> 0]
  /\ UNCHANGED <<registry, source, fence, players, order, stale>>

-----------------------------------------------------------------------------
(* The members' own progress.                                              *)

PlaysOn(p) ==
  /\ member[p].q.status = "Playing"
  /\ Counted
  /\ UNCHANGED <<registry, zoneState, called, driving, order, stale>>

Ticks(p) ==
  /\ PlaysOn(p) /\ member[p].elapsed < MaxElapsed
  /\ member' = [member EXCEPT ![p].elapsed = @ + 1]

Advances(p) ==
  /\ PlaysOn(p)
  /\ \E s \in Advance(member[p].q, TRUE) :
       member' = [member EXCEPT ![p] = [q |-> s, elapsed |-> 0]]

Next ==
  \/ Administration
  \/ \E f \in Feeders : TakeSnapshot(f) \/ FeedSnapshot(f)
  \/ Call \/ \E command \in Commands : Execute(command)
  \/ \E p \in Decoded : DriveMember(p) \/ Ticks(p) \/ Advances(p)
  \/ OutputEnds

\* Requests run on unless they are cut short, a command drives its members,
\* and the task the entry has is polled.
Fairness ==
  /\ \A r \in Requests : WF_vars(Election(r))
  /\ WF_vars(\E p \in Decoded : DriveMember(p))
  /\ WF_vars(TakeSnapshot("entry")) /\ WF_vars(FeedSnapshot("entry"))

Spec == Init /\ [][Next]_vars /\ Fairness
-----------------------------------------------------------------------------
(* What a zone promises.                                                   *)

CursorTyped(c) ==
  /\ c.q.queue \in Seq(Item) /\ c.q.position \in 0..Len(c.q.queue)
  /\ c.elapsed \in 0..MaxElapsed

TypeOK ==
  /\ members \subseteq Player /\ live \subseteq Player
  /\ \A r \in Requests : request[r].who \in Player \cup {Nobody}
  /\ {source, elected} \cup {task[f].of : f \in Feeders} \subseteq Decoded \cup {Nobody}
  /\ CursorTyped(zone) /\ \A p \in Decoded : CursorTyped(member[p])
  /\ driving.left \subseteq Decoded
  /\ stale \subseteq Holders

\* However requests overlapped and were cut short before: once an election has
\* run alone and to its end, the registry names the member it should, the zone
\* listens to it, and a task feeds it.  After an overlap that takes an election
\* that elects anew; one that finds nothing to do leaves what the overlap left.
\* (Where there is nobody to elect, the zone may go on with its last source: an
\* earlier election was cut short before it told the zone.)
BestIsFollowed ==
  settled = "yes" => /\ elected = Best /\ task["entry"].of = Best
                     /\ Best # Nobody => source = Best

\* What was read of the member before a command moved the zone's cursor never
\* moves it back, whoever applies it and when, until the zone has met the cursor
\* it waits for or listens to another member: at most it takes the zone to where
\* the command put it, if items were removed since.
NoRollback ==
  [][(\/ \E f \in stale : f \in Feeders /\ FeedSnapshot(f)
      \/ \E r \in stale : r \in Requests /\ ApplyFirst(r))
     => \/ zone'.q.status = zone.q.status /\ zone'.q.position = zone.q.position
        \/ /\ fence # Nobody
           /\ zone'.q.status = fence.status /\ zone'.q.position = fence.position]_vars

Shows(p) ==
  zone.q.status = member[p].q.status /\ zone.q.position = member[p].q.position

\* A zone that holds the queue of the member it should listen to gets to show that
\* member's cursor, unless it waits for the effect of a command.
Heeds(p) == settled = "yes" /\ Best = p /\ zone.q.queue = member[p].q.queue
MemberIsShown ==
  \A p \in Decoded : Heeds(p) ~> (Shows(p) \/ ~Heeds(p) \/ fence # Nobody)

\* The same of a zone that waits.
FenceIsLifted == \A p \in Decoded : Heeds(p) ~> (Shows(p) \/ ~Heeds(p))
=============================================================================
