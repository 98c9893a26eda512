---------------------------- MODULE CreatureWalk ----------------------------
(***************************************************************************)
(* The walk of one player (src/src/creature.cpp): a list of steps and a    *)
(* chain of scheduler events, each of which takes a step and schedules the *)
(* next.  eventWalk is the id of the event that is due, 0 for none; while  *)
(* it is set no other event is added.  An event that was stopped too late  *)
(* still runs, and onWalk cannot tell it from the one that is due.         *)
(*                                                                         *)
(* A task of the game thread is one step; time is whether the creature is  *)
(* still resting from its last step (getWalkDelay() > 0).                  *)
(***************************************************************************)
EXTENDS Scheduler

CONSTANT MaxPath    \* bound on the length of a path

\* Ids do not come round in the models of a walk: that is for Scheduler.
ASSUME WalkAssumption == MaxPath \in Nat /\ MaxEvents < IdModulus

VARIABLES
    walk,   \* the creature, see Walk
    ran,    \* how many of the dispatched tasks have run
    stale   \* history: the tasks that ran although their event was stopped

walkVars == <<walk, ran, stale>>
allVars == <<vars, walkVars>>

Walk ==
    [event : 0 .. IdModulus - 1,    \* eventWalk
     path : 0 .. MaxPath,           \* length of listWalkDir
     cancel : BOOLEAN,              \* cancelNextWalk
     speedy : BOOLEAN,              \* getStepSpeed() > 0
     resting : BOOLEAN]             \* getWalkDelay() > 0

WalkTypeOK ==
    /\ TypeOK
    /\ walk \in Walk
    /\ ran \in 0 .. Len(dispatched)
    /\ stale \subseteq 1 .. added

WalkInit ==
    /\ Init
    /\ walk = [event |-> 0, path |-> 0, cancel |-> FALSE, speedy |-> TRUE, resting |-> FALSE]
    /\ ran = 0
    /\ stale = {}

-----------------------------------------------------------------------------
(* A task works on the creature and on what it asks of the scheduler: the  *)
(* record s joins the fields of walk and the handlers posted so far.       *)

Started == [walk |-> walk, added |-> added, posts |-> <<>>, stopped |-> stopped]

StopEventWalk(s) ==
    IF s.walk.event = 0 THEN s
    ELSE [s EXCEPT !.posts = Append(@, [op |-> "stop", id |-> s.walk.event]),
                   !.stopped = @ \cup {s.walk.event},
                   !.walk.event = 0]

Schedule(s) ==
    [s EXCEPT !.added = @ + 1,
              !.posts = Append(@, [op |-> "add", task |-> s.added + 1]),
              !.walk.event = EventId(s.added + 1)]

\* Faulty: an event is added although one is due.
MayAdd_Always(s) == s.walk.speedy
MayAdd(s) == s.walk.speedy /\ s.walk.event = 0

\* addEventWalk(false)
AddEventWalk(s) ==
    LET c == [s EXCEPT !.walk.cancel = FALSE]
    IN IF MayAdd(c) THEN Schedule(c) ELSE c

(* The outcomes of internalMoveCreature; a teleport under the new tile     *)
(* stops the walk from within the move.                                    *)
Outcome == [move : {"ok", "teleport"}] \cup
           [move : {"fail"},
            fix : 0 .. MaxPath,     \* the path found by tryToFixAutoWalk, 0 for none
            again : {"ok", "teleport", "fail"}]

Moved(s, move) ==
    CASE move = "ok" -> [s EXCEPT !.walk.resting = TRUE]
      [] move = "teleport" -> StopEventWalk([s EXCEPT !.walk.resting = TRUE])
      [] move = "fail" -> s

\* A failed move: the player looks for a way round, or loses six steps.
Repaired(s, o) ==
    IF s.walk.path > 0 /\ o.fix > 0
    THEN Moved([s EXCEPT !.walk.path = o.fix - 1], o.again)
    ELSE [s EXCEPT !.walk.path = IF @ > 6 THEN @ - 6 ELSE 0]

TakeStep(s, o) ==
    IF s.walk.path = 0 THEN StopEventWalk(s)
    ELSE LET t == [s EXCEPT !.walk.path = @ - 1]
         IN IF o.move = "fail" THEN Repaired(t, o) ELSE Moved(t, o.move)

Cancelled(s) ==
    IF s.walk.cancel THEN [s EXCEPT !.walk.path = 0, !.walk.cancel = FALSE] ELSE s

Requeue(s) ==
    IF s.walk.event = 0 THEN s ELSE AddEventWalk([s EXCEPT !.walk.event = 0])

OnWalk(s, o) == Requeue(Cancelled(IF s.walk.resting THEN s ELSE TakeStep(s, o)))

\* addEventWalk(true): the first step is taken at once.
AddEventWalkFirst(s, o) ==
    LET c == [s EXCEPT !.walk.cancel = FALSE]
    IN IF ~ MayAdd(c) THEN c
       ELSE Schedule(IF c.walk.resting THEN c ELSE OnWalk(c, o))

-----------------------------------------------------------------------------
(* The tasks of the game thread.                                           *)

Finish(s) ==
    /\ s.added <= MaxEvents
    /\ walk' = s.walk
    /\ added' = s.added
    /\ queue' = queue \o s.posts
    /\ stopped' = s.stopped
    /\ UNCHANGED <<state, eventIdTimerMap, armed, inHand, ioStopped, dispatched, deleted>>

\* Game::checkCreatureWalk, run by the dispatcher in the order of arrival.
CheckCreatureWalk(o) ==
    /\ ran < Len(dispatched)
    /\ Finish(OnWalk(Started, o))
    /\ ran' = ran + 1
    /\ stale' = stale \cup {t \in {dispatched[ran + 1]} : EventId(t) \in stopped}

\* Game::playerMove and Game::playerAutoWalk.
StartAutoWalk(n, o) ==
    /\ LET s == [Started EXCEPT !.walk.path = n]
       IN Finish(IF n = 1 THEN AddEventWalkFirst(s, o) ELSE AddEventWalk(s))
    /\ UNCHANGED <<ran, stale>>

\* Game::playerStopAutoWalk
StopWalk ==
    /\ Finish([Started EXCEPT !.walk.cancel = TRUE])
    /\ UNCHANGED <<ran, stale>>

\* Creature::setSpeed, for a paralysis and its end.
Halted(s) == [StopEventWalk(s) EXCEPT !.walk.cancel = TRUE]
SetSpeed(speedy) ==
    /\ LET s == [Started EXCEPT !.walk.speedy = speedy]
       IN Finish(IF ~ speedy THEN Halted(s)
                 ELSE IF ~ walk.speedy /\ walk.path > 0 THEN AddEventWalk(s) ELSE s)
    /\ UNCHANGED <<ran, stale>>

\* onCreatureMove with teleport, by a spell or a script.
Teleport ==
    /\ Finish(StopEventWalk([Started EXCEPT !.walk.resting = TRUE]))
    /\ UNCHANGED <<ran, stale>>

Rested ==
    /\ walk.resting
    /\ walk' = [walk EXCEPT !.resting = FALSE]
    /\ UNCHANGED <<vars, ran, stale>>

GameTask ==
    \/ \E o \in Outcome : CheckCreatureWalk(o)
    \/ \E n \in 1 .. MaxPath, o \in Outcome : StartAutoWalk(n, o)
    \/ StopWalk
    \/ \E b \in BOOLEAN : SetSpeed(b)
    \/ Teleport

WalkNext ==
    \/ GameTask
    \/ Rested
    \/ (ThreadMain \/ \E t \in Event : Expire(t)) /\ UNCHANGED walkVars

WalkSpec == WalkInit /\ [][WalkNext]_allVars

-----------------------------------------------------------------------------
(* Properties.                                                             *)

Pending == {t \in 1 .. added :
                /\ t \notin deleted
                /\ \A i \in 1 .. ran : dispatched[i] # t}
Live == {t \in Pending : EventId(t) \notin stopped}

(***************************************************************************)
(* A creature has one chain of events, however calls, repairs of the path, *)
(* teleports and changes of speed follow each other.  Only an event that   *)
(* was stopped too late and ran all the same can start a second one, which *)
(* then keeps going next to the first.                                     *)
(***************************************************************************)
OneChain == Cardinality(Live) <= 1 + Cardinality(stale)
=============================================================================
