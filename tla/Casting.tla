------------------------------- MODULE Casting -------------------------------
(***************************************************************************)
(* Live casts (src/src/viewer.h, viewer.cpp and the spectators' side of    *)
(* protocolgame.cpp).                                                      *)
(*                                                                         *)
(* A player whose script says so lets others watch: clients without a      *)
(* character, and players, whose character leaves the world meanwhile and  *)
(* comes back afterwards ("telescope").  A spectator's protocol has the    *)
(* watched player as its own and counts a reference to it; the player's    *)
(* Viewer has the spectators' protocols.  A cast ends by the script, when  *)
(* the client goes or when another one takes over; then each telescope is  *)
(* sent home by a task that runs later.                                    *)
(*                                                                         *)
(* Objects are players in memory; a character has several in the course of *)
(* time.  Left out are what GameSession has (the last message of a closed  *)
(* connection, logins that a script refuses), a second request of a client *)
(* before its first one is done, and what spectators write.                *)
(***************************************************************************)
EXTENDS Base, Integers, SequencesExt, FiniteSetsExt

CONSTANTS
    Client,         \* the protocols
    Character,      \* the names of players
    Object,         \* as many players as are made in a behaviour: 1 .. n
    MaxQueue,       \* bound: batches of tasks in the queue when something happens
    MaxOdd          \* bound: deaths and spies

ASSUME CastingAssumption ==
    /\ None \notin Client \cup Character \cup Object
    /\ Object \subseteq Nat /\ IsFiniteSet(Client)

VARIABLE c

NoPlayer == [name |-> None, status |-> "none", refs |-> 0, owner |-> None,
             broadcast |-> FALSE, spectators |-> {}]

CastingInit ==
    c = [conn |-> [p \in Client |-> "new"],
         player |-> [p \in Client |-> None],
         spectator |-> [p \in Client |-> FALSE],        \* m_spectator
         spy |-> [p \in Client |-> FALSE],
         home |-> [p \in Client |-> None],              \* twatchername
         eventConnect |-> [p \in Client |-> None],
         obj |-> [o \in Object |-> NoPlayer],
         liveCasts |-> {},
         cleaned |-> {},    \* players the world has let go of
         tasks |-> <<>>,    \* of the dispatcher: sets of tasks that one loop has added
         odd |-> 0,
         strayed |-> {},    \* history: clients that moved on though they were sent home
         stranded |-> {}]   \* history: clients that could not be sent home

-----------------------------------------------------------------------------
(* Functions of the code, from a state to the next.                        *)

ATaskOf(op, p) == [op |-> op, by |-> p]
IsQueued(h, op, p) == \E i \in DOMAIN h.tasks : ATaskOf(op, p) \in h.tasks[i]
Queue(h, batch) == IF batch = {} THEN h ELSE [h EXCEPT !.tasks = Append(@, batch)]

InTheWorld(h) == {o \in Object : h.obj[o].status = "placed"}
HasClient(h, o) == h.obj[o].owner # None
Plays(h, p) == h.player[p] # None /\ ~h.spectator[p]

Counted(x, n) ==
    IF x.refs + n = 0 THEN [NoPlayer EXCEPT !.status = "deleted"] ELSE [x EXCEPT !.refs = @ + n]
CountRef(h, o, n) == [h EXCEPT !.obj[o] = Counted(@, n)]

\* A loop that disconnects some clients and sends others home.
Dismiss(h, closed, telescopes) ==
    LET open == {p \in closed : h.conn[p] = "open"}
    IN Queue([h EXCEPT !.conn = [p \in Client |-> IF p \in open THEN "closed" ELSE @[p]]],
             {ATaskOf("release", p) : p \in open} \cup {ATaskOf("back", p) : p \in telescopes})
CloseOne(h, p) == Dismiss(h, {p}, {})

\* liveCasts has the player of the owner of the Viewer.
Caster(h, o) == IF HasClient(h, o) THEN {h.player[h.obj[o].owner]} ELSE {}
InsertCaster(h, o) == [h EXCEPT !.liveCasts = @ \cup Caster(h, o)]
RemoveCaster(h, o) == [h EXCEPT !.liveCasts = @ \ Caster(h, o)]

\* Viewer::clear: telescopes are sent home, the others are disconnected.
Clear(h, o, full) ==
    LET watching == h.obj[o].spectators
        telescopes == {p \in watching : h.home[p] # None}
        told == Dismiss(h, watching \ telescopes, telescopes)
        ended == [told.obj[o] EXCEPT !.spectators = {}, !.broadcast = IF full THEN FALSE ELSE @]
    IN RemoveCaster([told EXCEPT !.obj[o] = ended], o)

TakeOut(h, o) == [h EXCEPT !.obj[o].status = IF @ = "placed" THEN "removed" ELSE @]

MayMake(h) == \E o \in Object : h.obj[o].status = "none"
NewObject(h, p, name) ==
    LET o == CHOOSE i \in Object : h.obj[i].status = "none"
    IN [h EXCEPT !.player[p] = o,
                 !.obj[o] = [NoPlayer EXCEPT !.name = name, !.status = "loaded", !.refs = 1, !.owner = p]]

\* The reference of the world stands for those of the map and the check list.
PlaceObject(h, o) == [CountRef(h, o, 1) EXCEPT !.obj[o].status = "placed"]

SendSpectatorAppear(h, p, o) ==
    [CountRef(h, o, 1) EXCEPT !.player[p] = o, !.obj[o].spectators = @ \cup {p}]

RemoveSpectator(h, o, p) == [h EXCEPT !.obj[o].spectators = @ \ {p}]

LogoutOf(h, p) ==
    IF h.spectator[p] THEN CloseOne(h, p)
    ELSE IF h.player[p] = None THEN h
    ELSE TakeOut(CloseOne(Clear(h, h.player[p], TRUE), p), h.player[p])

KickOut(h, o) == IF HasClient(h, o) THEN LogoutOf(h, h.obj[o].owner) ELSE TakeOut(h, o)

\* Faulty: spies are forgotten, whose player need not cast.
Leave_WithoutSpies(h, p) ==
    LET o == h.player[p]
    IN IF h.spectator[p] THEN IF h.obj[o].broadcast THEN RemoveSpectator(h, o, p) ELSE h
       ELSE LET ended == IF h.obj[o].broadcast THEN Clear(h, o, TRUE) ELSE h
            IN [ended EXCEPT !.obj[o].owner = IF @ = p THEN None ELSE @]
Leave(h, p) ==
    LET o == h.player[p]
        ends == h.obj[o].broadcast \/ h.spy[p]
    IN IF h.spectator[p] THEN IF ends THEN RemoveSpectator(h, o, p) ELSE h
       ELSE LET ended == IF ends THEN Clear(h, o, TRUE) ELSE h
            IN [ended EXCEPT !.obj[o].owner = IF @ = p THEN None ELSE @]

ReleaseTask(h, p) ==
    IF h.player[p] = None THEN h
    ELSE CountRef([Leave(h, p) EXCEPT !.player[p] = None], h.player[p], -1)

-----------------------------------------------------------------------------
(* Logins.                                                                 *)

LoginNew(h, p, name) ==
    LET made == NewObject(h, p, name)
    IN /\ MayMake(h)
       /\ \/ c' = CloseOne(made, p)
          \/ c' = PlaceObject(made, made.player[p])

ConnectTo(h, p, o) == [CountRef(h, o, 1) EXCEPT !.player[p] = o, !.obj[o].owner = p]

LoginOther(h, p, o) ==
    c' = IF HasClient(h, o) THEN [CloseOne(h, h.obj[o].owner) EXCEPT !.eventConnect[p] = o]
         ELSE ConnectTo(h, p, o)

LoginAs(p, name) ==
    LET found == {o \in InTheWorld(c) : c.obj[o].name = name}
        h == [c EXCEPT !.conn[p] = "open"]
    IN /\ c.conn[p] = "new"
       /\ IF found = {} THEN LoginNew(h, p, name) ELSE \E o \in found : LoginOther(h, p, o)

\* ProtocolGame::connect, a second later
ConnectLate(p) ==
    LET o == c.eventConnect[p]
        h == [c EXCEPT !.eventConnect[p] = None]
    IN /\ o # None
       /\ c' = IF o \notin InTheWorld(c) \/ HasClient(c, o) THEN CloseOne(h, p)
               ELSE IF c.conn[p] = "closed" THEN h
               ELSE ConnectTo(h, p, o)

\* canWatch: a ban, a password or the limit may refuse as well.
MayWatch(h, p, o) == o \in InTheWorld(h) /\ HasClient(h, o) /\ (h.obj[o].broadcast \/ h.spy[p])

SpectatorLogin(p, o) ==
    LET h == [c EXCEPT !.conn[p] = "open"]
    IN /\ c.conn[p] = "new"
       /\ \/ c' = CloseOne(h, p)
          \/ MayWatch(h, p, o) /\ c' = SendSpectatorAppear([h EXCEPT !.spectator[p] = TRUE], p, o)

-----------------------------------------------------------------------------
(* Telescopes.                                                             *)

TelescopeStart(h, p, o) ==
    LET own == h.player[p]
        left == TakeOut([Clear(h, own, TRUE) EXCEPT !.home[p] = h.obj[own].name], own)
    IN SendSpectatorAppear([CountRef(left, own, -1) EXCEPT !.spectator[p] = TRUE], p, o)

\* The flag of a spy is set before the cast is found fit to be watched.
TelescopeGo(p, o, adminSpy) ==
    LET h == [c EXCEPT !.spy[p] = adminSpy, !.odd = IF adminSpy THEN @ + 1 ELSE @]
    IN /\ h.odd <= MaxOdd
       /\ Plays(c, p) /\ c.player[p] \in InTheWorld(c) /\ o \in InTheWorld(c) \ {c.player[p]}
       /\ \/ c' = h
          \/ MayWatch(h, p, o) /\ c' = TelescopeStart(h, p, o)

\* One at a time; the client is a spectator when the message is parsed.
ParseNavigation(p) ==
    /\ c.conn[p] = "open" /\ c.spectator[p] /\ c.player[p] \in InTheWorld(c)
    /\ ~IsQueued(c, "navigate", p)
    /\ c' = Queue(c, {ATaskOf("navigate", p)})

CastNavigation(h, p, o) ==
    LET left == CountRef(RemoveSpectator(h, h.player[p], p), h.player[p], -1)
        late == ~h.spectator[p] \/ IsQueued(h, "back", p)
    IN [SendSpectatorAppear(left, p, o) EXCEPT !.strayed = IF late THEN @ \cup {p} ELSE @,
                                               !.stranded = @ \ {p}]

Navigate(h, p) ==
    LET casts == {o \in h.liveCasts : MayWatch(h, p, o)}
    IN \/ c' = h
       \/ /\ h.player[p] \in InTheWorld(h) /\ ~h.spy[p] /\ Cardinality(casts) > 1
          /\ \E o \in casts \ {h.player[p]} : c' = CastNavigation(h, p, o)

IsHome(h, p) == \E o \in InTheWorld(h) : h.obj[o].name = h.home[p]

\* A new player for the old protocol, which is a spectator until the end:
\* a script that refuses the login only closes the connection.
Returns(h, p) ==
    LET made == [CountRef(NewObject(h, p, h.home[p]), h.player[p], -1) EXCEPT !.home[p] = None]
        here == PlaceObject(made, made.player[p])
        AtHome(k) == [k EXCEPT !.spectator[p] = FALSE, !.spy[p] = FALSE]
    IN /\ MayMake(h)
       /\ \/ c' = CloseOne(made, p)
          \/ c' = AtHome(here)
          \/ c' = AtHome(KickOut(here, made.player[p]))

TelescopeBack(h, p) ==
    IF IsHome(h, p) THEN c' = [h EXCEPT !.stranded = @ \cup {p}]
    ELSE IF h.player[p] = None THEN c' = h
    ELSE Returns(h, p)

RunTask ==
    /\ c.tasks # <<>>
    /\ \E t \in Head(c.tasks) :
        LET rest == Head(c.tasks) \ {t}
            h == [c EXCEPT !.tasks = IF rest = {} THEN Tail(@) ELSE [@ EXCEPT ![1] = rest]]
        IN \/ t.op = "release" /\ c' = ReleaseTask(h, t.by)
           \/ t.op = "navigate" /\ Navigate(h, t.by)
           \/ t.op = "back" /\ TelescopeBack(h, t.by)

-----------------------------------------------------------------------------
(* What clients, scripts and the world do.                                 *)

CloseAny(p) == c.conn[p] = "open" /\ c' = CloseOne(c, p)

LogsOut(p) == Plays(c, p) /\ c.conn[p] = "open" /\ c' = LogoutOf(c, p)

\* A script's setCast: a new password and the end of the cast clear the list,
\* then some may be kicked or banned.
SetCast(o, broadcast, password) ==
    LET cleared == IF password \/ (~broadcast /\ c.obj[o].broadcast) THEN Clear(c, o, FALSE) ELSE c
    IN /\ o \in InTheWorld(c)
       /\ \E kicked \in SUBSET {p \in cleared.obj[o].spectators : ~c.spy[p]} :
            LET set == [Dismiss(cleared, kicked, {}) EXCEPT !.obj[o].broadcast = broadcast]
            IN c' = IF broadcast THEN InsertCaster(set, o) ELSE set

\* A script, a silent client or the shutdown
IsKicked(o) == o \in InTheWorld(c) /\ c' = KickOut(c, o)
DiesThere(o) == o \in InTheWorld(c) /\ c.odd < MaxOdd /\ c' = [TakeOut(c, o) EXCEPT !.odd = @ + 1]

\* The round of Game::checkCreatures that lets go of those who were removed.
CleanupRound ==
    LET gone == {o \in Object : c.obj[o].status = "removed"} \ c.cleaned
    IN /\ gone # {}
       /\ c' = [c EXCEPT !.cleaned = @ \cup gone,
                         !.obj = [o \in Object |-> IF o \in gone THEN Counted(@[o], -1) ELSE @[o]]]

Happens ==
    \/ CleanupRound
    \/ \E p \in Client :
        \/ CloseAny(p) \/ ConnectLate(p) \/ ParseNavigation(p) \/ LogsOut(p)
        \/ \E name \in Character : LoginAs(p, name)
        \/ \E o \in Object : SpectatorLogin(p, o) \/ \E adminSpy \in BOOLEAN : TelescopeGo(p, o, adminSpy)
    \/ \E o \in Object :
        \/ IsKicked(o) \/ DiesThere(o)
        \/ \E broadcast, password \in BOOLEAN : SetCast(o, broadcast, password)

\* The queue is short, and what follows once a client has strayed is left out.
CastingNext == c.strayed = {} /\ (RunTask \/ (Len(c.tasks) < MaxQueue /\ Happens))

CastingSpec == CastingInit /\ [][CastingNext]_c

-----------------------------------------------------------------------------
(* Properties.                                                             *)

\* One reference for each protocol that plays or watches, and one of the world.
CastRefsExact ==
    \A o \in Object :
        LET protocols == {p \in Client : c.player[p] = o}
            world == c.obj[o].status \in {"placed", "removed"} /\ o \notin c.cleaned
        IN /\ c.obj[o].refs = Cardinality(protocols) + (IF world THEN 1 ELSE 0)
           /\ c.obj[o].status \in {"none", "deleted"} <=> c.obj[o].refs = 0

\* liveCasts holds plain pointers: they are to players that exist and cast.
CastsAreLive == \A o \in c.liveCasts : c.obj[o].status # "deleted" /\ c.obj[o].broadcast

\* Who is on a player's list watches that player, and who watches with an open
\* connection is on the list or about to be sent home.
WatchersAgree ==
    \A p \in Client \ c.strayed :
        /\ \A o \in Object : p \in c.obj[o].spectators => c.spectator[p] /\ c.player[p] = o
        /\ c.spectator[p] /\ c.player[p] # None /\ c.conn[p] = "open" /\ p \notin c.stranded =>
             p \in c.obj[c.player[p]].spectators \/ IsQueued(c, "back", p)

\* The players that are watched, the protocols that watch and the list of casts
\* fit together, whatever ends a cast or a watch: logouts, kicks, deaths,
\* takeovers, changes of the password, a telescope that returns.  Two exceptions
\* are in the code: a client sent home that has asked for another cast meanwhile
\* gets both (`strayed`), and one whose character is back in the world by another
\* client stays where it is, on nobody's list (`stranded`).
CastsAgree == CastRefsExact /\ CastsAreLive /\ WatchersAgree
=============================================================================
