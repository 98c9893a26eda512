------------------------------- MODULE Decay -------------------------------
(***************************************************************************)
(* How items decay (startDecay, checkDecay and cleanup of                  *)
(* src/src/game.cpp, setID and canDecay of src/src/item.cpp).              *)
(*                                                                         *)
(* A decaying item waits in one of four buckets, of which checkDecay looks *)
(* into the next one every EVENT_DECAYINTERVAL; every entry of a bucket    *)
(* holds a reference.  An item is not taken out when it is transformed,    *)
(* removed or put off: the check finds out.                                *)
(*                                                                         *)
(* Durations are in milliseconds.  Items change their type in place.       *)
(***************************************************************************)
EXTENDS Integers

CONSTANTS
    Item,           \* the Item objects
    Kind,           \* the types of items
    DecayTime,      \* of each kind, decayTime in seconds; 0 does not decay
    DecayTo,        \* decayTo: another kind, Nothing to be removed, Never
    StopTime,       \* the kinds that keep the time left (stopTime)
    Becomes,        \* into which kinds scripts and equipping transform a kind
    MaxItemEvents,  \* bound: what scripts and players do with the items
    Nothing, Never

ASSUME DecayAssumption ==
    /\ DecayTime \in [Kind -> Nat] /\ MaxItemEvents \in Nat
    /\ Kind # {} /\ Nothing # Never /\ {Nothing, Never} \cap Kind = {}
    /\ DecayTo \in [Kind -> Kind \cup {Nothing, Never}]
    /\ StopTime \subseteq Kind /\ Becomes \in [Kind -> SUBSET Kind]
    \* As in data/items/items.xml: the kinds that keep the time left are those of
    \* things that are put out or taken off while they decay.
    /\ \A k \in Kind : DecayTo[k] \in Kind => k \notin StopTime /\ DecayTo[k] \notin StopTime
    /\ \A k \in Kind : DecayTime[k] = 0 /\ DecayTo[k] # Never => Becomes[k] \cap StopTime = {}

EventDecayInterval == 250
EventDecayBuckets == 4
Cycle == EventDecayInterval * EventDecayBuckets
Bucket == 0 .. EventDecayBuckets - 1

VARIABLES
    items,          \* the items: kind, state, duration, references
    decayItems,     \* the buckets, how often each item is in each
    toDecayItems,
    toReleaseItems,
    lastBucket,
    remaining,      \* history: the time an item has left by the clock
    twice,          \* history: items that were entered a second time
    itemEvents      \* bound

decayVars == <<items, decayItems, toDecayItems, toReleaseItems, lastBucket, remaining, twice, itemEvents>>

NoEntries == [i \in Item |-> 0]
NewItem(k) == [where |-> "world", kind |-> k, decaying |-> FALSE, refs |-> 1,
               duration |-> 1000 * DecayTime[k], timed |-> DecayTime[k] # 0]
AKind == CHOOSE k \in Kind : TRUE
NoItem == [NewItem(AKind) EXCEPT !.where = "none", !.refs = 0]

DecayInit ==
    /\ items = [i \in Item |-> NoItem]
    /\ decayItems = [n \in Bucket |-> NoEntries]
    /\ toDecayItems = NoEntries /\ toReleaseItems = NoEntries
    /\ lastBucket = 0
    /\ remaining = NoEntries /\ twice = {}
    /\ itemEvents = 0

\* An item and what the lists have of it.
Card(i) ==
    [it |-> items[i], bucket |-> [n \in Bucket |-> decayItems[n][i]], wait |-> toDecayItems[i],
     rel |-> toReleaseItems[i], left |-> remaining[i], twice |-> i \in twice]
WriteCards(cards) ==
    /\ items' = [i \in Item |-> cards[i].it]
    /\ decayItems' = [n \in Bucket |-> [i \in Item |-> cards[i].bucket[n]]]
    /\ toDecayItems' = [i \in Item |-> cards[i].wait]
    /\ toReleaseItems' = [i \in Item |-> cards[i].rel]
    /\ remaining' = [i \in Item |-> cards[i].left]
    /\ twice' = {i \in Item : cards[i].twice}

Entries(x) == x.wait + x.bucket[0] + x.bucket[1] + x.bucket[2] + x.bucket[3]

-----------------------------------------------------------------------------
CanDecay(x) == x.it.where = "world" /\ DecayTo[x.it.kind] # Never /\ DecayTime[x.it.kind] # 0

\* Item::setID: what a new kind means for the state and the duration.
SetID(x, k) ==
    LET new == 1000 * DecayTime[k]
        reset == new > 0 /\ (x.it.kind \notin StopTime \/ ~x.it.timed)
        ended == new = 0 /\ k \notin StopTime /\ DecayTo[k] = Never
    IN IF reset THEN [x EXCEPT !.it = [@ EXCEPT !.kind = k, !.decaying = FALSE, !.duration = new, !.timed = TRUE],
                               !.left = new]
       ELSE IF ended THEN [x EXCEPT !.it = [@ EXCEPT !.kind = k, !.decaying = FALSE, !.duration = 0, !.timed = FALSE]]
       ELSE [x EXCEPT !.it.kind = k]

\* The part of startDecay that enters the item.
Enter(x) ==
    LET entered == [x EXCEPT !.it = [x.it EXCEPT !.decaying = TRUE, !.refs = @ + 1], !.wait = @ + 1]
    IN IF Entries(x) = 0 THEN [entered EXCEPT !.left = x.it.duration]
       ELSE [entered EXCEPT !.twice = TRUE]

RemoveItem(x) == [x EXCEPT !.it.where = "removed", !.rel = @ + 1]

\* internalDecayItem
InternalDecayItem(x) ==
    LET to == DecayTo[x.it.kind]
        new == SetID(x, to)
    IN IF to = Nothing THEN RemoveItem(x)
       ELSE IF CanDecay(new) /\ ~new.it.decaying THEN Enter(new) ELSE new

StartDecay(x) ==
    IF ~CanDecay(x) \/ x.it.decaying THEN x
    ELSE IF x.it.duration > 0 THEN Enter(x) ELSE InternalDecayItem(x)

\* Game::cleanup: references are given up, and what waits is put into a bucket.
CleanupItem(x, last) ==
    LET place == IF x.it.duration >= Cycle THEN last
                 ELSE (last + 1 + x.it.duration \div 1000) % EventDecayBuckets
        refs == x.it.refs - x.rel
    IN [x EXCEPT !.it = IF @.where # "none" /\ refs = 0 THEN NoItem ELSE [@ EXCEPT !.refs = refs],
                 !.bucket = [n \in Bucket |-> @[n] + IF n = place THEN x.wait ELSE 0],
                 !.wait = 0, !.rel = 0,
                 !.left = IF refs = 0 THEN 0 ELSE @,
                 !.twice = @ /\ Entries(x) # 0]

-----------------------------------------------------------------------------
\* What checkDecay takes from the duration of an item.
\* Faulty: one interval, though a bucket is seen once in a cycle.
DecreaseTime_Interval(d) == IF d < EventDecayInterval THEN d ELSE EventDecayInterval
DecreaseTime(d) == IF d < Cycle THEN d ELSE Cycle

\* One entry of the current bucket.
CheckEntry(x, n) ==
    LET taken == [x EXCEPT !.bucket[n] = @ - 1]
        duration == x.it.duration - DecreaseTime(x.it.duration)
        decreased == [taken EXCEPT !.it.duration = duration]
        newBucket == (n + (duration + EventDecayInterval \div 2) \div 1000) % EventDecayBuckets
    IN IF ~CanDecay(x) THEN [taken EXCEPT !.it.decaying = FALSE, !.rel = @ + 1]
       ELSE IF duration >= Cycle THEN [x EXCEPT !.it.duration = duration]
       ELSE IF duration <= 0 \/ newBucket = n
            THEN [InternalDecayItem(decreased) EXCEPT !.rel = @ + 1]
       ELSE [decreased EXCEPT !.bucket[newBucket] = @ + 1]

\* The entries that an item has in it: two at most, see Transform.
CheckEntries(x, n) ==
    IF x.bucket[n] = 0 THEN x
    ELSE IF x.bucket[n] = 1 THEN CheckEntry(x, n)
    ELSE CheckEntry(CheckEntry(x, n), n)

Later(x) == IF Entries(x) = 0 THEN x ELSE [x EXCEPT !.left = @ - EventDecayInterval]

CheckDecay ==
    LET n == (lastBucket + 1) % EventDecayBuckets
    IN /\ lastBucket' = n
       /\ WriteCards([i \in Item |-> CleanupItem(CheckEntries(Later(Card(i)), n), n)])
       /\ UNCHANGED itemEvents

\* cleanup after a check of the creatures
CleanupStep ==
    /\ \E i \in Item : toDecayItems[i] + toReleaseItems[i] > 0
    /\ WriteCards([i \in Item |-> CleanupItem(Card(i), lastBucket)])
    /\ UNCHANGED <<lastBucket, itemEvents>>

\* What scripts and players do: an item is created, transformed, started, or both,
\* as equipping does, or removed.
ItemEvent(i, x) ==
    /\ itemEvents < MaxItemEvents /\ itemEvents' = itemEvents + 1
    /\ WriteCards([j \in Item |-> IF j = i THEN x ELSE Card(j)])
    /\ UNCHANGED lastBucket

Create(i, k) ==
    /\ items[i].where = "none"
    /\ ItemEvent(i, StartDecay([Card(i) EXCEPT !.it = NewItem(k)]))
\* Bound: an item that has two entries is left alone.
Transform(i, k, start) ==
    /\ items[i].where = "world" /\ k \in Becomes[items[i].kind]
    /\ Entries(Card(i)) < 2
    /\ ItemEvent(i, IF start THEN StartDecay(SetID(Card(i), k)) ELSE SetID(Card(i), k))
TakeAway(i) ==
    /\ items[i].where = "world"
    /\ ItemEvent(i, RemoveItem(Card(i)))

DecayNext ==
    \/ CheckDecay
    \/ CleanupStep
    \/ \E i \in Item :
        \/ \E k \in Kind : Create(i, k) \/ \E start \in BOOLEAN : Transform(i, k, start)
        \/ TakeAway(i)

DecaySpec == DecayInit /\ [][DecayNext]_decayVars

-----------------------------------------------------------------------------
DecayTypeOK ==
    /\ \A i \in Item : items[i].where \in {"none", "world", "removed"} /\ items[i].kind \in Kind
    /\ decayItems \in [Bucket -> [Item -> 0 .. 2]]
    /\ toDecayItems \in [Item -> 0 .. 2] /\ toReleaseItems \in [Item -> 0 .. 3]
    /\ lastBucket \in Bucket /\ twice \subseteq Item

\* An item is deleted exactly when neither its place nor an entry of a bucket nor
\* one of the lists of cleanup refers to it.
ItemRefsExact ==
    \A i \in Item :
        items[i].refs = (IF items[i].where = "world" THEN 1 ELSE 0)
                        + Entries(Card(i)) + toReleaseItems[i]

\* Items decay, and in time.  One that is marked as decaying is in a bucket, or
\* about to be.  The duration of one that waits there, which is written once in a
\* cycle, is right to a cycle, so that no item decays a second early or late.  The
\* exception are items that were entered a second time, for which time passes twice
\* as fast, as long as they are in a bucket.
DecayInTime ==
    \A i \in {j \in Item : CanDecay(Card(j))} :
        /\ items[i].decaying => Entries(Card(i)) > 0
        /\ i \notin twice /\ Entries(Card(i)) = 1 =>
              LET ahead == items[i].duration - remaining[i]
              IN EventDecayInterval - Cycle <= ahead /\ ahead <= Cycle
=============================================================================
