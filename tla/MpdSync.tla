------------------------------- MODULE MpdSync ------------------------------
(***************************************************************************)
(* A player whose sound comes from an MPD daemon (MpdPlayer of             *)
(* players.rs).  The queue is the server's; the daemon gets a copy, which  *)
(* other clients may edit, and moves through it on its own; the server     *)
(* takes over its cursor.  Two connections lead to the daemon: commands    *)
(* open theirs when they need it and may find it dead later, the idle loop *)
(* waits on the other for the daemon's news.                               *)
(*                                                                         *)
(* Every operation holds `sync` from end to end, so that it is one step; a *)
(* connection that breaks in the middle of one has carried some of it.  A  *)
(* reader compares the queues only when the daemon's playlist version is   *)
(* not the one it noted last.  The numbers are left out: a daemon counts   *)
(* on and never comes back to a number noted of it, but one that has       *)
(* started anew, or another, may come to any.                              *)
(*                                                                         *)
(* The daemon is modelled by how the code uses it.  Left out: time played, *)
(* volume, passwords.                                                      *)
(***************************************************************************)
EXTENDS PlayerCommands, FiniteSets

CONSTANTS Commands,     \* commands a listener may send
          Found,        \* what a lookup for continuous play may find
          Foreign,      \* queues other clients may leave the daemon with
          MaxCommands,  \* bound: commands
          MaxFaults,    \* bound: what goes wrong
          MaxMoves      \* bound: what the daemon does by itself

ASSUME MpdAssumption ==
  /\ Commands \subseteq PlayerCommand
  /\ Found \subseteq Seq(Track) /\ Foreign \subseteq Seq(Item)
  /\ {MaxCommands, MaxFaults, MaxMoves} \subseteq Nat

VARIABLES
  q,         \* the server's queue
  restored,  \* the next Play resumes at the restored cursor
  online,    \* what the server says of the daemon
  conn,      \* the command connection: "none", "live" or "dead"
  idle,      \* the idle loop: where it is, and what its connection leads to
  seen,      \* the playlist version noted last is the daemon's
  borrowed,  \* it was noted of another daemon, or before this one started
  daemon,    \* whether it runs, its queue and cursor
  news,      \* it has news for the idle loop
  lookup,    \* continuous play's lookup: "none", "current" or "stale"
  lost,      \* history: an edit was lost on the way, or the version noted is
             \* of a queue that nobody compared
  sent,      \* commands so far
  faults, moves

vars == <<q, restored, online, conn, idle, seen, borrowed, daemon, news, lookup,
          lost, sent, faults, moves>>
bounds == <<sent, moves>>
version == <<seen, borrowed>>

Saved(batch, position) ==
  Restored([items |-> batch, playback |-> [Playback(EmptyQueue) EXCEPT
                                      !.position = position, !.status = "Paused"]])
Loaded(s, queue) == [s EXCEPT !.queue = queue, !.position = 0, !.status = "Stopped"]

\* `restore`: a saved queue is pushed if the daemon answers, and without one
\* the daemon's own is adopted.
RestoreSaved ==
  \E batch \in Batches, up \in BOOLEAN :
    /\ q = Saved(batch, Len(batch)) /\ restored = TRUE
    /\ online = up /\ seen = up /\ conn = (IF up THEN "live" ELSE "none")
    /\ daemon = [up |-> up, q |-> IF up THEN Loaded(EmptyQueue, batch) ELSE EmptyQueue]

AdoptDaemon ==
  \E batch \in Batches :
    /\ q = [Saved(batch, 1) EXCEPT !.status = "Playing"] /\ restored = FALSE
    /\ online = TRUE /\ seen = TRUE /\ conn = "live"
    /\ daemon = [up |-> TRUE, q |-> q]

Init ==
  /\ RestoreSaved \/ AdoptDaemon
  /\ idle = [at |-> "away", on |-> "none"]
  /\ borrowed = FALSE /\ news = FALSE /\ lookup = "none" /\ lost = FALSE
  /\ sent = 0 /\ faults = 0 /\ moves = 0

-----------------------------------------------------------------------------
(* Talking to the daemon. *)

\* `ensure_connected`: a connection that was left is taken for a live one.
Reaches == conn = "live" \/ (conn = "none" /\ daemon.up)

\* `reassert`: load the queue, and play on where the server was.
Reasserted(s) ==
  LET loaded == Loaded(daemon.q, s.queue)
  IN IF s.status = "Playing" /\ s.position # 0 THEN PlayIndex(loaded, s.position)
     ELSE loaded

\* Whether the version of a daemon that has d by now is the one noted.
TakenForNoted(d) ==
  CASE d.queue = daemon.q.queue -> {seen}
    [] d.queue # daemon.q.queue /\ borrowed -> BOOLEAN
    [] OTHER -> {FALSE}

\* Variant: a new version alone makes the server push its queue.
ReloadedOnSight(s, d, taken) == IF taken THEN d ELSE Reasserted(s)

\* Variant: the server's own edits need no comparison.
ReconciledUnlessSeen(s, d, taken) ==
  IF taken \/ seen \/ d.queue = s.queue THEN d ELSE Reasserted(s)

\* `read_reconciled_status`, after commands that left the daemon with d.
Reconciled(s, d, taken) ==
  IF taken \/ d.queue = s.queue THEN d ELSE Reasserted(s)

\* Variant: the cursor of a daemon at rest is not taken over.
CursorAppliedInMotion(s, d) ==
  IF d.status = "Stopped" THEN [s EXCEPT !.status = d.status]
  ELSE [s EXCEPT !.status = d.status, !.position = d.position]

CursorApplied(s, d) ==
  LET drained == d.status = "Stopped" /\ s.activity # "None"
                   /\ s.position # 0 /\ s.position = Len(s.queue)
      next == IF d.position <= Len(s.queue) THEN d.position ELSE 0
      t == IF drained THEN PreserveRefillResume(s) ELSE s
      u == IF d.status # "Stopped" THEN ClearExhaustionAfterAdvance(t, next) ELSE t
  IN [u EXCEPT !.status = d.status, !.position = next,
               !.repeat = d.repeat, !.shuffle = d.shuffle]

Fault == faults < MaxFaults /\ faults' = faults + 1

\* What changes is news for a loop connected to the daemon, and for no other.
News == news' = (idle.on = "this" /\ (news \/ daemon' # daemon))

\* A version is noted, whosever queue it is of.
Noted == seen' = TRUE /\ borrowed' = FALSE

\* The commands arrive and left the daemon with d; its queue is compared with
\* that of s unless its version is taken for the one noted, and the answer's
\* cursor is applied to s.
Succeeds(s, d) ==
  /\ Reaches /\ conn' = "live"
  /\ \E taken \in TakenForNoted(d) :
       LET after == Reconciled(s, d, taken)
       IN /\ daemon' = [daemon EXCEPT !.q = after]
          /\ q' = Uncounted(CursorApplied(s, after))
          /\ lost' = (taken /\ (lost \/ borrowed))
  /\ News /\ Noted
  /\ UNCHANGED faults

\* They do not, or some of them do, and the connection is dropped or left.
Breaks(halves, left) ==
  \/ /\ ~Reaches
     /\ conn' = IF left THEN conn ELSE "none"
     /\ UNCHANGED <<daemon, news, version, faults>>
  \/ /\ Reaches /\ Fault
     /\ \E d \in halves :
          daemon' = [daemon EXCEPT !.q = d] /\ seen' \in TakenForNoted(d)
     /\ News /\ UNCHANGED borrowed
     /\ conn' = IF left THEN "dead" ELSE "none"

\* What every reader does: the queue if it changed, and the cursor.
Reads == Succeeds(q, daemon.q)

\* A connection that breaks while the queue is loaded leaves it emptied.
Halfway(d) == IF d = daemon.q THEN {d} ELSE {daemon.q, Loaded(daemon.q, <<>>), d}
ReadBreaks(left) ==
  /\ Breaks(Halfway(Reconciled(q, daemon.q, seen)), left)
  /\ UNCHANGED <<q, lost>>

-----------------------------------------------------------------------------
(* Commands: `execute`. *)

Resumes(command) == command = "Play" /\ restored
Deferred(command) == command = "Next" /\ q.resumeAt # 0

\* The half of a command that concerns the server's queue.
Edited(command, arg) ==
  IF command \in MutatesQueue THEN Outcomes(q, command, arg)
  ELSE IF Deferred(command) THEN {q} ELSE {Prepared(q, command)}

\* The half that concerns the daemon, s being the server's queue by now; none
\* where the daemon refuses.
Obeyed(s, command, arg) ==
  LET d == daemon.q
  IN CASE Deferred(command) -> {d}
       [] Resumes(command) /\ s.position # 0 ->
            IF s.position <= Len(d.queue) THEN {PlayIndex(d, s.position)} ELSE {}
       [] command = "Play" /\ ~(restored /\ s.position # 0) ->
            {IF d.queue = <<>> THEN d
             ELSE [d EXCEPT !.status = "Playing",
                            !.position = IF @ = 0 THEN 1 ELSE @]}
       [] command = "Pause" ->
            {IF d.status = "Playing" THEN [d EXCEPT !.status = "Paused"] ELSE d}
       [] command = "RestoreClearedQueue" -> {Loaded(d, s.queue)}
       [] command \in {"Next", "Previous"} /\ ~Deferred(command) ->
            IF d.status = "Stopped" THEN {}
            ELSE IF command = "Next" THEN Advance(d, TRUE) ELSE StepPrevious(d)
       [] command \in {"PlayQueueIndex", "RemoveQueueItem"} ->
            IF arg <= Len(d.queue) THEN Applied(d, command, arg) ELSE {}
       [] command = "MoveQueueItem" ->
            IF {arg[1], arg[2]} \subseteq 1..Len(d.queue)
            THEN Applied(d, command, arg) ELSE {}
       [] OTHER -> Applied(d, command, arg)

Starts == {"Play", "PlayQueueIndex", "PlayTracks", "PlayStream", "Next", "Previous"}

\* The daemon obeys, in part if the connection breaks; or it refuses, which
\* drops the connection just as well.
Carried(s, command, arg) ==
  LET obeyed == Obeyed(s, command, arg)
  IN \/ /\ \E d \in obeyed : Succeeds(s, d)
        /\ online' = TRUE
        /\ restored' = (restored /\ command \notin Starts)
     \/ /\ \/ Breaks({daemon.q, Loaded(daemon.q, <<>>)} \cup obeyed, FALSE)
           \/ /\ Reaches /\ obeyed = {} /\ conn' = "none"
              /\ UNCHANGED <<daemon, news, version, faults>>
        /\ q' = Uncounted(s)
        /\ online' = FALSE
        /\ lost' = (lost \/ s.queue # q.queue)
        /\ UNCHANGED restored

Execute(command) ==
  /\ sent < MaxCommands /\ sent' = sent + 1
  /\ \E arg \in Arguments(command) : \E s \in Edited(command, arg) :
       Len(s.queue) <= MaxLen /\ Carried(s, command, arg)
  /\ lookup' = IF lookup = "current" /\ ~Deferred(command)
                  /\ command \in CancelsAutoplayRefill
               THEN "stale" ELSE lookup
  /\ UNCHANGED <<idle, moves>>

-----------------------------------------------------------------------------
(* Continuous play. *)

BeginAutoplayRefill ==
  /\ Found # {} /\ lookup = "none" /\ CanBeginRefill(q)
  /\ q' = BeginRefill(q)
  /\ lookup' = "current"
  /\ UNCHANGED <<restored, online, conn, idle, version, daemon, news, lost, faults,
                 bounds>>

DropsResult ==
  lookup = "stale" /\ UNCHANGED <<q, conn, version, daemon, news, lost, faults>>

\* What the daemon makes of the tracks found; none where it refuses.
Extended(items) ==
  LET grown == [daemon.q EXCEPT !.queue = @ \o items]
      from == CASE q.resumeAt # 0 -> q.resumeAt
                [] q.resumeAt = 0 /\ q.status = "Playing" /\ grown.status = "Stopped" ->
                     Len(q.queue) + 1
                [] OTHER -> 0
  IN CASE from = 0 -> {grown}
       [] from \in 1..Len(grown.queue) -> {PlayIndex(grown, from)}
       [] OTHER -> {}

\* The queue is not compared here, and its version is taken down.
AddsFound(items) ==
  LET s == FinishRefill(q, items)
      extended == Extended(items)
  IN /\ lookup = "current" /\ Len(s.queue) <= MaxLen
     /\ \/ /\ items = <<>> /\ q' = s
           /\ UNCHANGED <<conn, version, daemon, news, lost, faults>>
        \/ /\ items # <<>> /\ Reaches /\ conn' = "live"
           /\ \E d \in extended :
                daemon' = [daemon EXCEPT !.q = d] /\ q' = Uncounted(CursorApplied(s, d))
           /\ News /\ Noted /\ lost' = (lost \/ ~seen \/ borrowed)
           /\ UNCHANGED faults
        \/ /\ items # <<>> /\ q' = s /\ lost' = TRUE
           /\ \/ Breaks({daemon.q} \cup extended, TRUE)
              \/ /\ Reaches /\ extended = {} /\ conn' = "live"
                 /\ daemon' = [daemon EXCEPT !.q.queue = @ \o items] /\ News
                 /\ seen' \in TakenForNoted(daemon'.q)
                 /\ UNCHANGED <<borrowed, faults>>

FinishAutoplayRefill ==
  /\ lookup # "none" /\ lookup' = "none"
  /\ DropsResult \/ \E items \in Found : AddsFound(items)
  /\ UNCHANGED <<restored, online, idle, bounds>>

-----------------------------------------------------------------------------
(* Who looks at the daemon, and when. *)

\* Variant: a connection found dead is left for the next one to find.
StateLeavesConnection ==
  /\ \/ Reads /\ online' = TRUE
     \/ ReadBreaks(TRUE) /\ online' = FALSE
  /\ UNCHANGED <<restored, idle, lookup, bounds>>

\* A controller, or continuous play, asks for the state.
State ==
  /\ \/ Reads /\ online' = TRUE
     \/ ReadBreaks(FALSE) /\ online' = FALSE
  /\ UNCHANGED <<restored, idle, lookup, bounds>>

Poll ==
  /\ online /\ q.status = "Playing"
  /\ Reads \/ ReadBreaks(TRUE)
  /\ UNCHANGED <<restored, online, idle, lookup, bounds>>

\* The idle loop connects, pushes the queue, looks, and waits for news.
Connect ==
  /\ idle.at = "away" /\ daemon.up
  /\ idle' = [at |-> "arriving", on |-> "this"]
  /\ online' = TRUE /\ news' = FALSE
  /\ UNCHANGED <<q, restored, conn, version, daemon, lookup, lost, faults, bounds>>

Arrive ==
  /\ idle.at = "arriving" /\ idle' = [idle EXCEPT !.at = "greeting"]
  /\ \/ /\ Reaches /\ conn' = "live"
        /\ daemon' = [daemon EXCEPT !.q = Reasserted(q)] /\ News
        /\ Noted /\ lost' = FALSE
        /\ UNCHANGED faults
     \/ Breaks({daemon.q, Loaded(daemon.q, <<>>), Reasserted(q)}, TRUE) /\ UNCHANGED lost
  /\ UNCHANGED <<q, restored, online, lookup, bounds>>

Greet ==
  /\ idle.at = "greeting" /\ idle' = [idle EXCEPT !.at = "watching"]
  /\ \/ Reads /\ online' = TRUE
     \/ ReadBreaks(FALSE) /\ online' = FALSE
  /\ UNCHANGED <<restored, lookup, bounds>>

\* Reading the news uses the other connection; if that fails, both begin anew.
Hear ==
  /\ idle.at = "watching" /\ idle.on = "this" /\ news
  /\ \/ /\ Reaches /\ conn' = "live"
        /\ LET after == Reconciled(q, daemon.q, seen)
           IN /\ daemon' = [daemon EXCEPT !.q = after]
              /\ q' = Uncounted(CursorApplied(q, after))
              /\ news' = (after # daemon.q)
        /\ Noted /\ lost' = (seen /\ (lost \/ borrowed))
        /\ UNCHANGED <<faults, idle, online>>
     \/ /\ ReadBreaks(TRUE)
        /\ idle' = [at |-> "away", on |-> "none"] /\ online' = FALSE
  /\ UNCHANGED <<restored, lookup, bounds>>

HangUp ==
  /\ idle.at = "watching" /\ idle.on = "none"
  /\ idle' = [idle EXCEPT !.at = "away"] /\ online' = FALSE
  /\ UNCHANGED <<q, restored, conn, version, daemon, news, lookup, lost, faults, bounds>>

\* `rebind`: the player gets another daemon.  Only a loop that listens at that
\* moment is told; any other goes on with the connection it has.
Rebind ==
  /\ Fault
  /\ conn' = "none" /\ online' = FALSE
  /\ seen' \in BOOLEAN /\ borrowed' = TRUE
  /\ \/ /\ idle.at \in {"away", "watching"}
        /\ idle' = [at |-> "away", on |-> "none"]
     \/ idle.at # "away" /\ idle' = [idle EXCEPT !.on = "former"]
  /\ daemon' = [up |-> TRUE, q |-> EmptyQueue] /\ news' = FALSE
  /\ UNCHANGED <<q, restored, lookup, lost, bounds>>

\* The former daemon has news or goes away: the loop finds out.
LeaveFormer ==
  /\ idle.at = "watching" /\ idle.on = "former"
  /\ idle' = [at |-> "away", on |-> "none"] /\ online' \in {online, FALSE}
  /\ UNCHANGED <<q, restored, conn, version, daemon, news, lookup, lost, faults, bounds>>

-----------------------------------------------------------------------------
(* The daemon, its other clients, and the network. *)

Outside == UNCHANGED <<q, restored, online, lookup, lost, sent>>
Moves ==
  /\ Outside /\ UNCHANGED <<conn, idle, borrowed, faults>>
  /\ daemon.up /\ moves < MaxMoves /\ moves' = moves + 1
  /\ News

TrackOver ==
  /\ daemon.q.status = "Playing"
  /\ \E d \in Advance(daemon.q, TRUE) : daemon' = [daemon EXCEPT !.q = d]
  /\ UNCHANGED seen
  /\ Moves

\* The daemon counts on.
NextVersion == seen' \in (IF borrowed THEN BOOLEAN ELSE {FALSE})

EditedElsewhere ==
  /\ \E queue \in Foreign : daemon' = [daemon EXCEPT !.q = Loaded(@, queue)]
  /\ NextVersion
  /\ Moves

\* A stream's tags arrive: the version is new, the queue is not.
TagsArrive ==
  /\ daemon.q.status = "Playing" /\ NextVersion
  /\ daemon.up /\ moves < MaxMoves /\ moves' = moves + 1
  /\ news' = (idle.on = "this")
  /\ Outside /\ UNCHANGED <<daemon, conn, idle, borrowed, faults>>

Crash ==
  /\ daemon.up /\ Fault /\ daemon' = [up |-> FALSE, q |-> EmptyQueue]
  /\ conn' = IF conn = "live" THEN "dead" ELSE conn
  /\ idle' = [idle EXCEPT !.on = IF @ = "this" THEN "none" ELSE @]
  /\ seen' = FALSE /\ borrowed' = TRUE /\ news' = FALSE
  /\ Outside /\ UNCHANGED moves

\* It counts from the start.
Restart ==
  /\ ~daemon.up /\ daemon' = [daemon EXCEPT !.up = TRUE]
  /\ NextVersion
  /\ Outside /\ UNCHANGED <<conn, idle, borrowed, news, faults, moves>>

\* A silent command connection is closed by the daemon, or cut.
TimeOut ==
  /\ conn = "live" /\ Fault /\ conn' = "dead"
  /\ Outside /\ UNCHANGED <<idle, version, daemon, news, moves>>

Next ==
  \/ \E command \in Commands : Execute(command)
  \/ BeginAutoplayRefill \/ FinishAutoplayRefill
  \/ State \/ Poll \/ Connect \/ Arrive \/ Greet \/ Hear \/ HangUp
  \/ Rebind \/ LeaveFormer
  \/ TrackOver \/ EditedElsewhere \/ TagsArrive \/ Crash \/ Restart \/ TimeOut

\* The idle loop and the poll run on; a daemon need not come back, and a former
\* one need not say anything.
Spec == /\ Init /\ [][Next]_vars
        /\ WF_vars(Poll) /\ WF_vars(Connect) /\ WF_vars(Arrive)
        /\ WF_vars(Greet) /\ WF_vars(Hear) /\ WF_vars(HangUp)

\* Somebody asks for the state over and over: the loop of continuous play while
\* that is on, or a controller that is open.
SpecAsked == Spec /\ WF_vars(State)
-----------------------------------------------------------------------------
(* What holds of the server's copy and the daemon's. *)

CopyTyped(s) ==
  s.queue \in Seq(Item) /\ s.position \in 0..Len(s.queue) /\ s.status \in Status

TypeOK ==
  /\ CopyTyped(q) /\ CopyTyped(daemon.q)
  /\ conn \in {"none", "live", "dead"} /\ (conn = "live" => daemon.up)
  /\ idle.at \in {"away", "arriving", "greeting", "watching"}
  /\ idle.on \in {"this", "none", "former"}
  /\ lookup \in {"none", "current", "stale"}
  /\ q.resumeAt \in {0, Len(q.queue) + 1}

\* A version noted of the daemon as it runs vouches for its queue, and there are
\* three exceptions and no more: an edit was lost with its connection; a refill
\* noted the version of a queue another client had just edited; a reader took
\* the version of a daemon new to it for the one noted.
VersionVouches ==
  daemon.up /\ seen /\ ~borrowed /\ ~lost => daemon.q.queue = q.queue

SameCursor ==
  /\ q.status = daemon.q.status
  /\ q.position = IF daemon.q.position <= Len(q.queue) THEN daemon.q.position ELSE 0

\* While the idle loop waits on the player's daemon and has nothing to hear, an
\* online player shows what its daemon does, with the same three exceptions.
QuietMeansInStep ==
  idle.at = "watching" /\ idle.on = "this" /\ online /\ ~news /\ ~lost =>
    daemon.q.queue = q.queue /\ SameCursor

\* A look at a daemon whose queue is the server's does not disturb it: what
\* plays is not restarted because the version is new.  (What the idle loop does
\* on connecting is no look: it loads the queue whatever is there.)
LooksDisturbNothing ==
  [][(State \/ Poll \/ Greet \/ Hear) /\ daemon.q.queue = q.queue
       => daemon'.q = daemon.q]_vars

\* While somebody asks, a daemon that runs is found again and its cursor shown
\* in the end, whatever crashed, timed out, was edited or given another daemon
\* before; and it has the server's queue by then, with the same exceptions.
FollowsDaemon ==
  daemon.up ~> \/ ~daemon.up
               \/ SameCursor /\ (daemon.q.queue = q.queue \/ lost)

\* Until a listener acts, a restored cursor is kept for the first Play.
RestoredCursorIsKept == restored /\ sent = 0 => q.position # 0
=============================================================================
