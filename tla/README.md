# Verification of the game server

TLA+ specifications of the server in `src/src` (The Forgotten Server 1.2 with
protocol 8.60, C++), model-checked with TLC on small instances and, for the
parts every other part stands on, proved with TLAPS for all instances.

Every module is a translation of the C++ code. `PROJECT.json` maps each
definition to the lines it stands for, lists the runs, the faulty variants that
show each property can fail, the hazards of the code and the theorems.

    tlc -config Dispatcher.cfg Dispatcher.tla      # one model-checking run
    tlapm DispatcherProofs.tla                     # one module of proofs

## 1. The system

The server is a few threads around one *game thread*:

                       peers
                         |  TCP
       network thread: Connection, ServicePort, Signals
                         |  addTask                      addTask
                         v                                  |
       game thread: Dispatcher  <----------------  database thread:
         Game, Player, ProtocolGame, ...           DatabaseTasks
             |  addEvent, stopEvent    ^  addTask         ^
             v                         |                  | addTask
       scheduler thread: Scheduler ----+    (from the game thread)

All of the game's state belongs to the game thread, which runs one task at a
time. The other threads hand it work. So there are two kinds of difficulty:

- *between threads*: wake-ups, completions that are already queued when they
  are cancelled, closes and shutdowns that overtake one another;
- *between tasks*: a task remembers an event id, a partner, a client or an item,
  and other tasks run before it is used.

Scripts (Lua) are called from most handlers and may refuse what is asked. In the
modules such a refusal is a choice that may always be taken.

### Inventory

| Component | State it keeps | Hard behaviour | What makes it correct | Modules |
|---|---|---|---|---|
| Dispatcher (`tasks.cpp`) | thread state, task list, the batch being run | notify after unlock; tasks that add tasks; spurious wake-ups | no lost wake-up, order, shutdown ends | `Dispatcher`, `SerialExecutor`, `DispatcherProofs` |
| DatabaseTasks (`databasetasks.cpp`) | thread state, list of queries | two threads run queries in shutdown; state read without the lock | each query run once, order up to one, shutdown ends | `DatabaseTasks`, `DatabaseTasksProofs` |
| Scheduler (`scheduler.cpp`) | timers by id, last id, posted handlers | a stop races an expiry; ids wrap | one owner of each task, no event lost | `Scheduler`, `WorldProofs` |
| Creature walk (`creature.cpp`) | eventWalk, path, flags | an event stopped too late still runs | one chain of events | `CreatureWalk`, `WorldProofs` |
| Connection (`connection.cpp`) | queue, outstanding read and write, two timers, socket | handlers queued behind a close, slow peers, rate limit | flush before close, one release, no stalled queue | `Connection`, `ConnectionProofs` |
| Waiting list (`waitlist.cpp`) | two lists with sizes, timeouts | retries in any order, unsigned time | one place each, room for those ahead | `WaitingList`, `GameSessionProofs` |
| Game sessions (`protocolgame.cpp`, `game.cpp`, `player.cpp`, `viewer.h`), Output messages (`outputmessage.cpp`) | protocol's player, player's client, reference counts, check and release lists, autosend list and its timer | a takeover waits a second while everything else goes on | exact counts, one player in the world, clients are served | `GameSession`, `GameSessionProofs` |
| Casting and spectators (`viewer.cpp`, `protocolgame.cpp`) | owner and spectators of each cast, who watches whom, references | casts end while tasks for their spectators are queued | what watches is watched; exact counts | `Casting`, `DealingsProofs` |
| Trade (`game.cpp`, `player.cpp`, `container.cpp`) | state, partner and item of each player, tradeItems | the offered item stays in the world; a third player | offers stand, trades are pairs, a transfer is a swap | `Trade`, `DealingsProofs` |
| Party (`party.cpp`) | leader, members, invitations, shared experience | logouts and invitations across | both records agree, experience shared when due | `Party`, `DealingsProofs` |
| Market (`iomarket.cpp`, `game.cpp`) | offers, accounts in memory and in the database | the expiry reads in another thread | gold and goods conserved | `Market`, `TownProofs` |
| Database, Saving of players, Map (saving of houses) (`database.cpp`, `iologindata.cpp`, `iomapserialize.cpp`) | transaction, open statements | lost connections, failures, crashes between statements | all or nothing of a save | `Storage`, `TownProofs` |
| Houses and beds (`house.cpp`, `bed.cpp`) | owner, lists, sleepers, transfer document | sold, slept in and edited meanwhile | who is inside may be, beds and sleepers agree | `Houses`, `TownProofs` |
| Chat and guilds (`chat.cpp`, `guild.cpp`) | users of channels, members online | a channel is looked up by what the player no longer is in | no dangling pointer, windows agree | `Chat`, `TownProofs` |
| Client views (`tile.cpp`, `protocolgame.cpp`) | what each client shows of each tile | indices that differ from client to client | pictures are exact | `ClientView` |
| Items and cylinders (`game.cpp`, `player.cpp`, `container.cpp`, `tile.cpp`) | who holds what, cached weights | merges, splits, exchanges, refusals half-way | conserved, weights exact | `Items` (and the tree of items in `Trade`) |
| Open containers (`player.cpp`) | the windows of each player | bags moved by others, bags in bags | every window in reach | `OpenContainers`, `WorldProofs` |
| Decay (`game.cpp`) | four buckets, references | items that change in a bucket | in time, counts exact | `Decay`, `WorldProofs` |
| Creatures, Monsters (`creature.cpp`, `monster.cpp`, `game.cpp`) | check lists, targets, masters, references | removed, asleep or summoned meanwhile | no dangling pointer, nobody sleeps on | `Monsters`, `MonstersProofs` |
| Spawns (`spawn.cpp`) | spawned monsters, the check event | monsters that stray, die or are convinced | places are filled again | `Spawns`, `WorldProofs` |

Not modelled, each with its reason in `PROJECT.json`: service ports, the server's
lifecycle, the login and status protocols, money and shops, combat and conditions,
attacks of players, raids, scripting, the statistics thread, codecs and the
loading of data. Most of these are sequential code whose steps are formulas, scripts
or data; the lifecycle and the attacks are those worth adding (section 6).

## 2. The modules

Common to all: a critical section under a lock, a handler under a lock, or a
task of the game thread is *one* action, because nothing else can see it half
done. What the code does outside its locks is an action of its own. Variables
have the names of the code. Variables called *history* in a comment are not in
the code. Definitions with a suffix (`DoSignal_AfterPush`) and the comment
"Faulty" are used nowhere in a specification: each is a plausible bug, and put
in the place of the definition it is named after it makes a run fail.

### Dispatcher and SerialExecutor

`AddTask` is the locked part of `addTask` and `NotifyOne` its `notify_one` after
the unlock; the threads in between are `signalling`. `Shutdown` notifies under
the lock and so is one action. `threadMain` is `TestState` (without the lock),
`Wait`, `TakeBatch` (the swap of the two vectors), then for each task
`SkipExpired` or `BeginTask`/`EndTask`. Between the last two the running task may
itself call everything. `std::condition_variable` may wake spuriously.

`SerialExecutor` is what the rest of the server relies on: tasks are performed
one at a time, in the order they were handed over. `Dispatcher` implements it
with `pending <- tmpTaskList \o taskList`.

### DatabaseTasks

The same shape, with three differences that matter. The loop takes one query at
a time. `addTask` notifies only if it found the list empty. `shutdown` holds the
lock while it runs the rest of the list on its own thread (`BeginShutdown`,
`FlushOne`, `EndFlush`), next to the query the database thread may have in hand,
and notifies after it has unlocked (`NotifyShutdown`). The thread tests the state
outside the lock and waits without a predicate.

### Scheduler

A queue of handlers posted to the `io_context`, in order; the scheduler thread
runs the head. A timer that expires puts its completion into that queue, a timer
that is cancelled puts the aborted completion there. So a cancellation that
arrives behind an expiry is without effect. `RunAdd`, `RunStop`, `RunShutdown`,
`RunDelete` and `RunExpired` are the lambdas of `addEvent`, `stopEvent`,
`shutdown` and the two outcomes of a completion. The hand-over to the dispatcher
is a step apart (`HandOver`), since `shutdown` may come between the test of the
state and it. Event ids are call numbers modulo `IdModulus`.

### CreatureWalk

EXTENDS `Scheduler`: the same timers and handlers, with a creature as their only
user. A task of the game thread is a function of a record that joins the walk
with the calls it makes to the scheduler; `Finish` commits it. `OnWalk` is
`Creature::onWalk` with the player's reactions: a step, the repair of a blocked
path, cancellation, and the next event.

### Connection

One connection as a record: flags, message queue, outstanding write and read, two
timers. `Close`, `CloseSocket`, `StartRead`, `InternalSend` and `SendTo` are
the functions of the class, as functions from such a record to the next, so that
a handler is their composition as in the code. `ReadCompletes`, `WriteCompletes`
and `TimerExpires` are the peer and the clock.

### WaitingList

`ClientLogin` is the whole call with `cleanupList` and has four outcomes: let in
at once, let in from a place, wait longer, get a place. The unsigned difference
in `cleanupList` is modelled by what it does (`Stays`). So are the sizes of
`std::list`, which `libstdc++` counts separately from the nodes: a client
of the priority list is erased through the other one.

### GameSession

The clients of one character. The record `g` is the state of the game thread with
its task queue; connections are `new`, `open`, `closed` (close has run, the
object lives until its last write) or `gone`. A player object is named after the
protocol that made it. `Refs` is `incrementReferenceCounter` and
`decrementReferenceCounter`. `Login` finds a player in the world or makes one,
`TakesOver` disconnects the present client and leaves an event that calls
`Connect` a second later. `autosend` and `sendAlls` are the output pool's list of
protocols and the events that will serve it. `CheckCreatures` is a round of `Game::checkCreatures`
with the ping timeout and the cleanup at its end.

### Trade

Players on a street, items on tiles, in containers and in inventories. Requests,
acceptances and closes are those of `game.cpp`. The actions `MoveItem`,
`TransformItem` and `Walk` stand for everybody else's doings, and contain the
notifications by which `Player` closes the trades a change concerns (`OnRemove`,
`OnAdd`, `OnUpdate`). A change closes all the trades it concerns at once: trades are
pairs, so the order in which the code goes through the players makes no difference.
`Above` is the chain of cylinders that `getTopParent` and `isHoldingItem` follow, as
the least set closed under "the container it is in". Weight is abstracted to a
refusal that may always come (`AcceptFails`). Room is modelled as in
`internalAddItem` (`HasRoom`), which tests, and `queryDestination`
(`Destinations`), which the moves use.

### Party

The party objects with leader, members and invitations, and of each player the party
and the parties that invited him. `Disband`, `LeaveParty`, `PassLeadership`,
`Revoke` and the others are functions from both records to the next, composed as in
`party.cpp`. Shared experience is a cached flag that is refreshed by some calls;
walking and the passing of time change its conditions, which the property says.

### Casting

A client's protocol either plays a character or is a spectator of another's player
object; `spy` and `home` are for who watches from a telescope and is to be sent
back. Tasks for the dispatcher are a queue, since casts end while spectators are on
their way. A player object counts the references of its protocol, of the world and
of its spectators. Excluded are a second request of a client before its first is
done, and a spectator of itself; a behaviour ends after a stray, a state of which
the code takes no account.

### Market

Offers, accounts that are loaded and accounts in the database, inboxes. Creating,
accepting and cancelling an offer are whole handlers. The check for offers that have run
out (`CheckExpiredOffers`) is read by the database thread (`RunSelect` takes what it read
along) and settled by the dispatcher later (`ProcessExpiredOffers`).

### Storage

A save is a transaction of statements on the game thread. Each statement may
fail, and the connection may be lost and taken up again by the client library,
which undoes what was not committed and begins no new transaction. `Crash` may
come anywhere. *Torn* are the records that were being saved when a connection
was lost, of which the code promises nothing.

### Houses, Chat

Owner, lists, sleepers, kicks and transfer documents of houses; users, invitations and
windows of channels, members of guilds. Both are records that name players
without references, so that each call that removes a player, or changes what he
may do, must go through all of them.

### ClientView

Tiles as the code stores them (ground, top items, creatures, down items), and of each
watcher what his client shows, from what it is sent. The index of a thing is
computed for each watcher from what he can see (`Shown`), before a removal
and after an addition, as in `tile.cpp`. *Blurred* is a client's picture
that is too short since a creature faded from a tile with more things than are shown.

### Items

`internalMoveItem`, `internalAddItem`, `internalRemoveItem` with the queries of
players, containers and tiles: where it goes, whether it may and how much fits.
Cached weights are a field of their own that `UpdateWeight` changes by differences.
The only module with a RECURSIVE operator (the true weight of a tree).

### OpenContainers, Decay, Monsters, Spawns

`OpenContainers` has the windows of each player and whatever moves a bag or its
player. `Decay` has the four buckets, one of which is looked at each interval;
each item is a card, with its entries in the lists, as no item looks at another. An
item that is entered a second time is *twice* until it has no entry left, and outside of
the promise. `Monsters` has
check lists, targets, masters and every reference, with the checks as whole
rounds over a creature; *dazed* are the monsters that overlook somebody because of
what `monster.cpp:837` does. `Spawns` has the places and the check event; a spawn is
*neglected* when it has lost a monster without being told, and strays are counted under
the number 0. A loop over the players, the windows or the places of a spawn is one
step for all of them, where what it does to one does not touch another; for `checkSpawn`,
which ends when enough places are filled, the step says which places the loop has seen.

### Sums

`MCWorld`, `MCDealings` and `MCAccounts` put several modules into one run. Their parts
share no state in these models, so each behaviour is one of one part, which
the variable `part` chooses at the start; the states of the run are those of the
parts side by side, not their product. `Accounts` is what `MCAccounts` checks, and `World`
says what is promised of several parts of `MCWorld`; both are modules of their own so that proofs can
reach them (`MCWorld` includes `Items`, which has a RECURSIVE operator). The
parts that do interact are composed in one module: a walk with its scheduler, a session with the output pool, houses
with beds, chat with guilds and parties, the market with its accounts.

## 3. What the runs check

"States" are distinct states. Every run explores its instance completely. For
each property of a passing run `PROJECT.json` names a faulty variant of a
definition with which TLC finds the property violated in the same run.

| Run | Instance | States | What it shows |
|---|---|---|---|
| `dispatcher` | 2 producers, 3 tasks (1 timed), shutdown | 9 048 | no wake-up lost, implements the serial executor, each task queued before shutdown is handled, shutdown ends the thread |
| `database_tasks` | 2 callers, 3 queries, shutdown | 3 917 | no wake-up lost, each query run exactly once, only one can be overtaken and only in shutdown |
| `database_tasks_shutdown` | 1 caller, 1 query | | *violated*: the thread may never end, see findings |
| `scheduler` | 4 events, ids modulo 3 | 184 762 | one owner of each task, events run, stopped events are over |
| `connection` | 3 messages | 33 741 | queue and write agree, one release, flush before close, the socket closes, silent peers go |
| `connection_stalled_peer` | 1 message, a peer that owes nothing | | *violated*: the socket may stay open |
| `waiting_list` | 4 players (2 premium), room for 2 | 13 296 | one place each, room for those ahead, premium clients get in |
| `waiting_list_expiry` | 4 players, room for 1 | | *violated*: places outlive their timeout |
| `game_session_stalled_peer` | 2 clients | | *violated*: a released protocol may keep a player |
| `dealings` | 3 players; a bag and 2 stacks; 2 parties; 3 clients of 2 characters that cast | 471 047 | trades are pairs, offers are exact and stand, a transfer is a swap; parties and players agree; casts, spectators and references agree |
| `accounts` | 3 clients of a character; 2 traders; 2 players to save; 2 tiles; 2 houses; channels and guilds | 455 995 | exact reference counts, one player in the world, clients are served; gold and goods conserved; saves whole; pictures exact; houses and channels agree with the players |
| `world` | a walk of 4 events; a monster, its summon, 2 players; a spawn of 2; an item that decays; items in 2 containers; 2 players with 2 bags | 487 025 | one chain of events; exact references, no dangling pointer, nobody forgotten; decay in time; items conserved, weights exact; windows in reach |

### The properties that matter most

- `NoLostWakeup` (both threads), `ImplementsExecutor`, `RunOnce`, `OneOvertaken`:
  what everybody who hands over work relies on. The notification comes after the
  unlock and only from the one who found the queue empty, so it depends on all
  the others.
- `OneOwner`: the scheduler passes raw pointers through handlers, timers and the
  dispatcher. Each is at exactly one place, through expiry, cancellation, reuse
  of an id and shutdown.
- `OneChain`: `eventWalk` is checked before a new event is added, and cleared by
  whichever event runs. At most one second chain for each event that ran although it
  was stopped.
- `FlushedBeforeClose`, `SocketCloses`: the polite close of a connection and the
  timers.
- `RefsExact`, `OneInWorld`, `ClientsAreServed`: the three owners of a player object
  and the takeover of a character by a second client.
- `TradesAgree`, `OfferStands`, `TransferIsSwap`: what is on offer, with everything
  inside it, stays as it was shown until the trade is over, whoever moves or changes
  things, and then the two change hands. The last has an exception, which is in the
  code: `internalAddItem` tests the room as if a stack could join another one, the move
  has `FLAG_IGNOREAUTOSTACK`, and the result of the second move is dropped
  (`game.cpp:2490`). So whoever gives an item for a stack with a full inventory may
  get nothing.
- `PartiesAgree`, `CastsAgree`, `HousesAgree`, `ChannelsAgree`: what is written down on
  both sides of a relation says the same, though the sides change in different
  calls.
- `SavesAreWhole`, `MarketConserves`, `ItemsConserved`: nothing comes of nothing, and
  no half record.
- `ReferencesExact`, `PointersAreLive`, `NobodyIsForgotten`, `OpenInReach`,
  `PicturesAreExact`: whoever holds a pointer, a window, a picture or a place is told.

Several of these have exceptions for what the code really does. They are history
variables or disjuncts with a name and a comment where they are set: *dazed* (a
monster overlooks a player, `monster.cpp:837`), *strays* and *stranded* places of a
spawn, items entered *twice* in the buckets, *torn* records, *blurred* pictures,
*estranged* windows and *kept* members (channels of parties and guilds), *late*
transfers and *outsiders* in houses, an expired offer that was accepted in part
in between. The comment of each property says what it leaves out.

### Bounds

- *Tasks, queries, messages*: three of each give a batch with a predecessor and a
  successor, a queue that becomes empty and fills again, and one element more than
  the writers of the queue. Each is handed over once, so that histories can tell
  losses, repetitions and order.
- *Two producers* (and the running task as a third): one between its unlock and its
  notification while another finds the queue non-empty.
- *Scheduler*: four events with ids modulo 3 give id 0, a reused id while its first
  event is pending and one that is free. For walks the modulus exceeds
  the number of events: reuse of ids (after 2^32 events) is the subject of
  `scheduler`, not of `CreatureWalk`.
- *Paths up to two steps*: a walk with an event before, between and after steps.
- *Waiting list*: room for two and two premium players and two others: all
  positions ahead of and behind one another occur. The timeout of two and a clock
  up to three let a place reach, hit and outlive its timeout. `SizeModulus` 6 lets
  sizes wrap as they do at 2^64.
- *Sessions*: one client that plays, one that takes over and one that does so
  meanwhile; one task of a kind for each client at a time.
- *Trade*: three players, because the third one is who requests, moves and changes
  while two trade; a bag that holds one item and one slot, so that full inventories
  occur; four positions, so that partner and item can be out of reach
  independently; one change of an item, since one closes the trade. Bags in bags
  are left to the proof.
- *Party*: two parties and three players, one of whom is invited by the other party
  while he is in the first; one change of level or health.
- *Casting*: two batches of tasks in the queue when something happens, and one odd
  event (a death or a spy).
- *Market*: amounts and gold of two, so that an offer can be accepted in part;
  *storage*: two parts of a record, two tries, one lost connection, one failed statement.
- *Client views*: three things shown at most, of five; one tile at the edge of the view.
- *Monsters*: six happenings between the checks, enough for a summon to be made,
  convinced and killed; *decay*: five changes of an item of five kinds,
  which is left alone while it has two entries; *items*: two
  containers of two places, stacks of two, one addition.

### Fairness

Safety properties need none. Liveness is checked under weak fairness of

- the loop of each thread, of a notification that is owed and of a shutdown
  that has begun: the machine runs its threads, and no lock is held for ever;
- timers: time passes;
- for `connection`, writes complete, that is the peer reads. Where this is not
  assumed (`connection_stalled_peer`) the property fails. Nothing is ever owed by
  the peer's *sending*;
- for `waiting_list`, clients retry and players leave some time. Without them a full
  server stays full.

Spurious wake-ups, calls, closes, stops and logins are never owed. Deadlock is
checked where the system always has something to do (`waiting_list_expiry`,
`waiting_list`); elsewhere a state in which all threads have exited, all connections
are gone, or the bounds of a part are used up, is an end and not an error.

### Findings

1. `database_tasks_shutdown`: `threadMain` (`databasetasks.cpp:37`) tests the state
   before it takes the lock and waits without a predicate. A shutdown in between is
   missed, and main's `join` does not return.
2. `connection_stalled_peer`: `close` returns early when the connection is already
   closed (`connection.cpp:72`), so after a close without force a write timeout does
   not close the socket. With a peer that stops reading nothing else does.
3. `waiting_list_expiry`: `timeout - time` is unsigned (`waitlist.cpp:49`), so a
   place is dropped only in the very millisecond of its timeout.
4. `game_session_stalled_peer`: `ProtocolGame::connect` takes a live `Connection`
   object to mean that the protocol is not released (`protocolgame.cpp:215`). The
   object lives on until its last message is written; the released protocol
   then gets the player and keeps it.

## 4. What is proved

For every value of the constants that satisfies the named assumptions of the modules.
No proof step is left out; the provers are Z3, Zenon and LS4. Each module of proofs
has the same shape: lemmas that say what each helper of the model does to the parts of
the invariant, one lemma for each action, and the theorem.

**`DispatcherProofs`** (`TaskAssumption`).
- `TypeCorrect`; `WakeupCorrect`: `NoLostWakeup`, inductive by itself.
- `FifoCorrect`: the tasks queued are the tasks handled, then the batch, then the list,
  in order. It needs `BatchUsedUp`: outside the loop over a batch there is none, as
  otherwise the swap would throw tasks away.
- `Refinement`: each step is a `Submit`, a `Perform` or a stutter of `SerialExecutor`.

**`DatabaseTasksProofs`** (`QueryAssumption`).
- `TypeCorrect`; `WakeupCorrect`: as above, where a running flush also counts as a promise.
- `NothingLost` and `RunOnceCorrect`, from `QueryInv`: each query that was accepted is in
  the list, in the hands of the thread or executed (`Accounted`), and in only one of these
  places, once (`Apart`). `RunOnce` alone is not inductive: without the second part a
  query could be in the list twice.
- `OneOvertakenCorrect`, from `OrderInv`: what is executed, then the list, is the order of
  arrival but for one *straggler*, which is the query in the hands of the thread while
  the flush runs and is gone from the list for good.

**`ConnectionProofs`** (no assumption).
- `TypeCorrect`, `NoStallCorrect`, `ReleasedOnceCorrect`, from `ConnectionInv`. For
  "released at most once" it must say how often exactly: `released` is 1 if the connection
  is closed and has a protocol, else 0.
- `FlushedCorrect`, an action property: it needs that the queue of a connection that has
  never been accepted is *unused*.

**`WorldProofs`** (the assumption on the two bounds of the scheduler; for walks, that
ids do not come round while one is modelled; `OpenContainersAssumption`,
`SpawnsAssumption`; `DecayAssumption`, of which the last two conjuncts say which kinds
keep their time in `data/items/items.xml`: none that another kind decays into or that
decays into another).
- `TypeCorrect`; `OneOwnerCorrect`, from `SchedulerInv`: each handler is posted once
  (`OnceEach`), the places an event may be in are apart (`Apart`), an event that was not
  made is nowhere and one that is not over is somewhere (`Nowhere`, `Somewhere`), and an
  id has one event that waits, the one in the map (`OneWaitPerId`, `WaitsAreInMap`).
  With ids that wrap the last two are what keeps two timers of one id apart.
- `WalkImplementsScheduler`: each step of a walk is a step of the scheduler or a stutter.
  One lemma for each helper says what a task of the game thread has done so far: nothing
  (`Calm`), stopped the event that is due (`Halting`) or added the next (`Adding`), and
  never two of these. So the invariant of the scheduler holds of a walk too.
- `WalkTypeCorrect`; `OneChainCorrect`, from `WalkInv`: the events that are pending, were
  not stopped and are not the one in `eventWalk` are no more than the stopped
  ones that ran (`Odd` against `stale`). `OneChain` alone is not inductive: if the event
  that is due were not told from the others, each step of the walk could leave one more
  behind. That a stale one counts once rests on `Apart` and `OnceEach` of the scheduler.
- `OpenInReachCorrect`, from `OpenInv`, which is `OpenInReach` with the types of the
  books: it is inductive by itself, for chains of bags of any length. As in `Trade`,
  `Around` is reasoned about as the least set it is defined as. A move is right because a bag which somebody has open is
  with its holder or on a square, so that whoever has it open, or something inside it, is
  among those that are told (`OwnersAreTold`), and for the others nothing has changed
  (`AroundFrame`).
- `SpawnRefsCorrect`, `PlacesAreChecked`, from `SpawnsInv`: a monster has at most one entry
  in the map and as many references as its life and that entry account for; when no
  check is due all entries are alive, and unless there was a neglect they are at least as
  many as places. If none of them is a stray, a missing place then means, by the
  pigeonhole principle, that another has two.
- `ItemRefsCorrect`, `DecayInTimeCorrect`, from `DecayInv`, which says of each item: its
  references are its place, its entries and what is to be released (`Sound`); what is
  marked as decaying has an entry or has decayed to its end (`Marked`); and the duration
  of an item with one entry is behind the clock by 250 ms for every interval since its
  last look, up to the 750 ms by which the choice of its bucket rounds (`Settled`, `Near`).
  `DecayInTime` alone is not inductive, as it does not say where in the cycle the bucket
  is. It holds for all times and kinds that the assumption allows, where the run has five.

- `ReferencesCorrect`, `NobodyForgottenCorrect`: the properties of `World`, from those of its
  parts and of `MonstersProofs`, for behaviours in which the steps of the parts interleave.

**`MonstersProofs`** (`MonstersAssumption`: players and monsters are finitely many, and
`None` is none of them).
- `CreatureRefsCorrect`, `PointersCorrect`, `AwakeCorrect`, `MonstersTypeCorrect`, from
  `MonstersInv`, which says that the books are `Sane`. Every creature is `Fit`: it has as many
  references as holders, and only in the world does it have targets, a check, or a master,
  who is in the world too. Every monster is `Dutiful`: whom it attacks and follows is in the
  world and in sight; unless it is *dazed*, it has every player it sees among its targets,
  and it is checked when it has something to do (targets, a master, or to die). A living
  summon is `Led`, by a master. And what is to be released is listed once and is out of the
  world (`RelOk`). None of the properties is inductive alone. That a pointer is cleared when
  its creature goes rests on the monsters that are told, which are those in sight; that a
  monster which falls asleep misses nobody rests on its targets; and that the references
  stay exact rests on no list outliving its owner.
- Calls run inside calls, and between the first and the last of them the books are wrong in
  a known way. `Fit(b, c, k)` allows `k` references more than holders, as between the two
  halves of a removal from a list; `Half(b, m, e)` is what a monster still is before it
  has been told that `e` comes, moves or goes. A loop that tells monsters has the invariant that
  those it has told are `Dutiful` and the others `Half`.
- A loop over a set is a fold, a recursive function on the sets that are left. `LoopEnds` gives
  its rule: what holds of the empty set and is kept by each round holds of the whole. Its
  proof takes a smallest set of which it does not hold (`LeastNat`, from the
  well-foundedness of the naturals), so that no theorem of induction with an operator
  for a parameter is needed.

**`GameSessionProofs`** (`None \notin Protocol`; `WaitingListAssumption`: the players are
finitely many, and fewer than a size can count).
- `TypeCorrect`, `RefsExactCorrect`, `OneInWorldCorrect`, `ClientsAreServedCorrect`, from
  `SessionInv`, two layers: the objects, with the number of references that each phase of
  an object's life has, and the queue of tasks, which says of each task what is still true
  when it runs (for how many clients a connect is pending, which object a release
  concerns); then that each client is served. The references cannot be counted without
  the queue, since a task that is queued is what will drop one.
- `OnePlaceCorrect`, from `WaitingInv`: the guids of the two lists are apart, none is of
  a client on the map or of one that may always log in, and the sizes add up modulo their
  width, which is more than there are places. That neither size alone is right does not
  matter for the sum: `ModPlus` lets one be changed after the other.
- `RoomForThoseAheadCorrect`, an action property of the same invariant. What a list is
  after `cleanupList` is described by a map from its places to those it had before
  (`Rest`), strictly increasing and onto the places that stay; the maps of the two lists
  make one of the queue (`RestTogether`), and so who is ahead of a client and stays has
  one of the places before its own. `CleanupList` is a recursive function in the model,
  and what it returns is shown for the first n entries by a least counterexample
  (`LeastNat`), the one form of induction over data the provers accept here.

**`TownProofs`** (`HousesAssumption`, `ChatAssumption`, `StorageAssumption`, `NullAssumption`;
`MarketAssumption`: finitely many traders, prices and amounts above 0).
- `HousesCorrect`: within one call the houses disagree for a moment, so the invariant
  is `AgreesBut(h, P, Q)`, houses that agree but for those being changed; the
  handlers pass it on from helper to helper and end with nothing excepted.
- `ChannelsCorrect`, from `RoomsAgree`: users of a channel are in the game, members of
  guilds know their guild, private channels have one owner, windows and users agree, and
  the channel of a player's present party or guild is the one he hears.
- `TypeCorrect`; `SavesAreWholeCorrect`, from `StorageInv`: the program and the database
  agree on the transaction unless the save is torn (`TransactionAgrees`), a save that
  has begun has one (`SaveHasTransaction`), and what was reported is not newer than what
  is there (`ReportedIsPast`).
- `MarketTypeCorrect`, `NoDebtsCorrect`, `NothingFromNothingCorrect`, and
  `MarketConservesCorrect`, which states the last of the whole run's specification, from
  `MarketInv`: offers are finitely many and one of a kind, ids are not given out twice
  (`OffersOK`), and what a query has found of an offer is true of it as long as it is in the
  table, but for its amount (`FoundOK`). So an offer that was found is settled for what it
  holds unless it was accepted in part since, which is the exception that `NothingIsMade`
  makes. The totals are sums over functions: which element a sum takes first does not
  matter (`SumAnyFirst`), and so one account or one offer can be changed, added and taken
  away (`SumChange`, `TiedWith`, `TiedWithout`). Settling a result is a loop over the
  offers in it, with the rule `LoopEnds` as in `MonstersProofs`: after each offer the
  accounts have got what was tied up in those done so far (`SettledParts`).

**`DealingsProofs`** (`PartyAssumption`, `NoPartyAssumption`, `TradeAssumption`, `CastingAssumption`).
- `PartiesCorrect`, from `BooksAgree`: members name their party and it them, nobody twice,
  no party with only its leader and no invitation; invitations are on both sides.
- `TradesCorrect`, `OffersStand`, `SwapsCorrect`, from `TradeInv`: both sides of a trade
  agree (`Paired`, also that a player who was only asked has no item on offer, without
  which a transfer could offer a third item), offers are exact, in reach and apart
  (`Dealt`), nothing lies inside itself (`Acyclic`) and nothing is fuller than it can be
  (`RoomKept`). The tree of items is reasoned about with `AboveLeast`, the rule of
  induction that comes from the definition of `Above` as a least set: what lies above an
  item is a chain (`AboveChain`) with one end (`RootEffect`), and a move changes it for
  what lies inside the moved item only (`AboveFrame`). `SwapsCorrect` is the argument
  that the test of the room before the transfer still holds after the first half of
  it: either the place that was found is as it was, or it was inside the item that went, and
  then the container which that item has left has room (`RoomIsLeft`).
- `CastsCorrect`, from `CastInv`: while no client has strayed the state is `Good`. An object
  counts one reference for each client whose player it is and one for the world (`Exact`);
  a client that owns an object plays it, one that waits has no player, one that is on an
  object's list watches it (`ObjectAgrees`, `ClientAgrees`, `Listed`); and a client has
  at most one task that sends it home (`OnceQueued`), as the second would find it playing.
  A client that changes its player is between two good states for a while: `Within`
  (off the list, the reference still counted), `Without` (the reference given up),
  then it gets another player or none. `AllBut` excepts one client from `Watches`, the
  telescope whose task runs.

**Only model-checked**, and why:
- all liveness properties: they need fairness and `ENABLED`, which is outside of the
  provers' reach here;
- `PictureExact`, which counts by filters over sequences: the operators of the community
  modules for them are recursive functions of which a proof needs induction over data;
- `WeightsExact` and `MoveConserves`: `Items` has a RECURSIVE operator;
- the bounds of counters in type invariants of `Trade` (a sum over all items).

## 5. What is not modelled

- The contents of messages, encryption, checksums and compression; coding of packets.
- Formulas: damage, experience, speed, prices. Where a step depends on one it is a choice.
- Lua scripts, other than that they may refuse and may move things.
- `GameSession`: several characters, loading from the database. Whether a logout is
  allowed is a choice.
- `CreatureWalk`: followers, monsters (`Monster::getNextStep` resets `eventWalk`
  in its own way) and the action on arrival.
- `Trade`: merging stacks by moves, exchanging an item for the one in the slot, house
  documents, floors, throw range.
- `Houses`: rents, doors, guilds on lists, items sent to a depot. `Chat`: what is said,
  mutes, bans, wars. `Market`: premium, statistics, history. `Monsters`: friends,
  conditions, summons of players, spells, NPCs. `Storage`: loading, statements outside
  of transactions.
- The memory model of the machine. `threadState` is atomic; everything else that
  threads share is under a lock, except where a finding says so.

Seen while reading and outside of what the modules cover:

- `database.cpp:232`: a failed BEGIN is not noticed by all callers.
- `iologindata.cpp:842`: a depot that was not opened in the session is not saved.
- `game.cpp:1213`: the surplus of a stack that fits in part can vanish;
  `game.cpp:1441`: change in coins by floating point.
- `game.cpp:2394`: a trade may be accepted before the counter-offer is shown.
- `outputmessage.cpp:60`: two chains of `sendAll` after the list empties and fills.
- Raids erase an event that does not repeat while they iterate; `payHouses` saves a
  copy of a player that was loaded meanwhile; `wakeUp(nullptr)` of a bed likewise.
- `protocolgame.cpp:3252` to 3285: the telescope's return reads the name of an object
  after the last reference to it was dropped. `protocolgame.cpp:244` to 251 and `trySleep`
  are dead code. A player's `Viewer` is never deleted.
- `setGuild` to a guild without ranks leaves the player's address in the old guild.
- A monster that dies in an arena keeps its damage map; attack chains grow
  while `useWeapon` fails (`player.cpp:3314`).

## 6. Plan

Modules to come:

1. **Server lifecycle**: main, loader, signals and the `shutdown` of each thread,
   composed of the abstract forms of the three threads. Property: every join returns.
   The wait at `otserv.cpp:90` and finding 1 are its exceptions.
2. **Attack chains** on top of `Scheduler`, as `CreatureWalk` is.
3. **Money**: `removeMoney` and `addMoney` as functions against the sum of coins.
4. **House transfer documents in a trade**: `Houses` composed with `Trade`, whose item on
   offer the document is.
