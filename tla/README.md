# Verification of the game server

TLA+ models of the server in `src/src`, the TLC configurations that check them
on small instances, and theorems checked by TLAPS. Paths below are relative to
`src/src/` of the repository.

Contents: [the system](#the-system) · [inventory](#inventory) ·
[modules](#modules) · [runs, bounds and fairness](#runs-bounds-and-fairness) ·
[what the checks found](#what-the-checks-found) · [proofs](#proofs) ·
[only model-checked](#only-model-checked) · [not modelled](#not-modelled) ·
[plan](#plan)

## The system

The server is one process with these threads:

| thread | code | what it runs |
|---|---|---|
| main | `otserv.cpp` | starts the others, waits for `mainLoader`, then runs the io context of the network until the shutdown and joins them |
| game ("dispatcher") | `tasks.cpp` | all game logic, one task at a time |
| scheduler | `scheduler.cpp` | timers; an expired one is handed to the dispatcher |
| database | `databasetasks.cpp` | queries nobody waits for; their callbacks go to the dispatcher |
| network | `connection.cpp`, `server.cpp` | completion handlers of sockets and their timers, on the main thread; packets become dispatcher tasks |

So game state needs no locks: everything that changes it is a task of the
dispatcher. What can go wrong lies in two places: at the edges, where threads
hand work to each other (a lost wakeup, a task run twice, a cancellation that
comes too late, a shutdown in the wrong order), and inside the game thread, in
what is true *between* tasks: identifiers of events, pointers to players and
items, references counted by hand, all kept across tasks while other tasks run.

```
 clients -- Connection --(addTask)--> Dispatcher <--(addTask)-- Scheduler
               ^  Protocol::release       |  ^                     ^
               |  is a task               |  | callbacks           | addEvent, stopEvent
               +---- send, close ---------+  |                     | are posted handlers
                                          |  DatabaseTasks --+     |
                     Game, Player, Creature, trades ---------|-----+
                                          |                  v
                                          +--- savePlayer -> Database (databaseLock)
```

## Inventory

For each component: the state it keeps, its operations, whom it meets, what is
hard about it and what makes it correct. Modelled components first.

**Dispatcher** (`tasks.cpp`, `tasks.h`, `thread_holder_base.h`; driven by
`otserv.cpp`, `signals.cpp`, `Game::setGameState`, `Game::shutdown`).
State: `threadState`, the shared `taskList` under `taskLock`, the batch
`tmpTaskList`. Operations: `addTask`, `threadMain`, `shutdown`, `stop`.
Hard: `addTask` notifies after it has unlocked and only when the list was
empty; the state is an atomic outside the lock; tasks call `addTask`, `stop`
and `shutdown` themselves; a task may expire. Correct when no task is lost,
repeated or reordered, when it never sleeps with work to do, and when a
shutdown runs what was accepted and then ends the thread.

**DatabaseTasks** (`databasetasks.cpp`). State: its list, its state, and a
second taker of tasks: `flush()` on the game thread, called by every save and
by the shutdown. Hard: two takers; the state is read before the lock is taken;
callbacks go to a dispatcher that may be stopping. Correct when each query
runs once, is overtaken only while somebody holds it, and is not lost.

**Database and saving** (`database.cpp`, `iologindata.cpp`). State: the
connection handle, `retryQueries`, the recursive `databaseLock`,
`DBTransaction`. Operations: `executeQuery` with reconnection,
`beginTransaction`, `commit`, `rollback`, `savePlayer`, the three attempts of
`Player::onRemoveCreature`. Hard: a lost connection or a crash at every
statement, a lost answer to COMMIT. Correct when what is stored is one whole
version of the player and what was reported as saved stays saved.

**Scheduler** (`scheduler.cpp`). State: `eventIdTimerMap`, `lastEventId`.
`addEvent`, `stopEvent` and `shutdown` only post a handler; a timer may expire
before its cancellation is run. Correct when each task has one owner that runs
or deletes it, and a cancellation in time is final.

**Walking** (`creature.cpp`, `player.cpp`, `game.cpp`). State:
`listWalkDir`, `eventWalk`, `cancelNextWalk`, `walkTask`, `walkTaskEvent`,
health. A chain of scheduler events. Hard: `stopEvent` is only a request;
teleports, speed changes and deaths in the middle. Correct when the creature
is never left rooted by a stale identifier and walks on one chain.

**Connection** (`connection.cpp`, `protocol.h`, `outputmessage.h`). State: the
message queue, one read, one write, two timers, `closed`, the protocol. Hard:
two threads close and send while completions are queued. Correct when there
is one write at a time, in order, one release, and every wait has a timer.

**Game sessions** (`protocolgame.cpp`, `player.cpp`, `game.cpp`). State:
`ProtocolGame::player`, `eventConnect`, `Player::client`, `isConnecting`,
reference counters, the check list, `ToReleaseCreatures`. Hard: several
clients log the same character in, with a second between the kick and the
take-over. Correct when one session plays the character, references are exact
and nobody waits for ever.

**Trade** (`game.cpp`, `player.cpp`, `container.cpp`). State: `tradeState`,
`tradePartner`, `tradeItem` of each player, `Game::tradeItems`. Hard: the
offers lie in the world and can be moved, filled, used up and destroyed by
anybody while the trade is open; the messages of two clients are late.
Correct when both sides agree on the trade, offers do not overlap or change,
and a completed trade moves both.

**Automatic sending** (`outputmessage.cpp`). State: the list of buffered
protocols, the pending `sendAll` events, an output buffer per protocol. Hard:
a protocol enters and leaves the list while an event is pending, full buffers
are sent in between. Correct when packets are sent in the order written and
nothing that is buffered waits without an event.

**Service ports and connect throttle** (`server.cpp`). State: the acceptor of
each port, its pending accept, events to open it again, what is counted per
address. Hard: failures and the shutdown come from three threads. Correct when
a port has exactly one way to its next accept, never listens after its stop,
and refuses clients for a burst only.

**Login wait list** (`protocolgame.cpp:27-105`). State: the list, the iterator
`priorityEnd`. Hard: the iterator is kept across changes of the list. Correct
when who waits keeps his place.

**Market** (`iomarket.cpp`, `game.cpp:5016-5455`). State: a table of offers,
money and wares of players in memory and in the database. Hard: the owner of an
offer is online or not; the search for expired offers is answered later than it
is asked. Correct when gold and wares are conserved.

**Parties and chat channels** (`party.cpp`, `chat.cpp`). State: `Player::party`
and the lists of a party, invitations on both sides, users and invitations of
channels. Hard: leaving, disbanding and logging out call each other in the
middle of changes. Correct when both sides of every relation agree.

**Item moves** (`game.cpp`, `player.cpp`, `container.cpp`, `tile.cpp`). State:
lists of items, parents, cached weights. Hard: a move merges, splits, exchanges
and falls back to another place, each step may fail. Correct when nothing is
made or lost and every cached weight is right.

**Decay** (`game.cpp:4517-4591`). State: four buckets, the items to be added and
released. Hard: an item that is moved, loaded or changed while it decays.
Correct when it decays in its time and is freed exactly when nobody holds it.

**Creature life** (`creature.cpp`, `monster.cpp`, `spawn.cpp`). State: references
counted by hand, pointers that are not counted, check lists, masters and
summons, target and friend lists. Hard: creatures removed from within their own
notices. Correct when no pointer outlives its creature and whoever should think
is in a check list.

**Client view and windows** (`protocolgame.cpp`, `tile.cpp`, `player.cpp`). State:
the client's copy of the map, the creatures it knows, the containers it shows.
Hard: every change is sent as a difference, by a place in a stack the client
counts otherwise. Correct when the copy is what a full description would say.

**Conditions and worn items** (`condition.cpp`, `movement.cpp`, `player.cpp`).
State: the list of conditions, variable speed, skills and suppressions, the
slots enabled. Hard: effects are added and taken away again by whoever comes
later, after the item has changed its type. Correct when what is in force is
what is worn and suffered.

**Houses and rent** (`house.cpp`, `bed.cpp`, `iomapserialize.cpp`). State:
owners, lists, beds and who sleeps there, the transfer document, warnings; all
in memory and in the database. Hard: a restart falls back to what was saved,
and not all is saved at once. Correct when nobody stays where he may not be.

**Storing things** (`iologindata.cpp`, `mailbox.cpp`). State: inventories, depots
and inbox as objects and as rows. Hard: rows are numbered, the numbers of
containers must survive; players who are not online receive mail. Correct when
what is loaded is what was stored.

**Fights** (`game.cpp`, `creature.cpp`, `player.cpp`). State: health and mana,
`damageMap`, `lastHitCreatureId`, skulls, attacked players, unjustified kills.
Hard: summons act for masters who may be gone. Correct when what is credited is
what was lost, a death is credited once and marks end with the fight.

Left out: the login and status protocols, NPCs and shops, guilds, item tables,
the Lua engine and its scripts, raids, bans, loading and cryptography, see
[not modelled](#not-modelled). `PROJECT.json` lists every component.

The hazards of the code, each at its line and with the properties that would
catch it, are in `PROJECT.json` under `hazards`.

## Modules

Every handler is one action: the game thread runs a task to its end, and a
critical section under a lock is not interrupted by another one. A model takes
such a unit apart exactly where the code lets other threads in.

| module | models | checked in | theorems in |
|---|---|---|---|
| `SerialExecutor` | what the dispatcher promises: a queue, `Submit`, `Execute` | `MCTaskDispatcher` | `TaskDispatcher_proofs` |
| `TaskDispatcher` | the dispatcher, the main thread, start-up and shutdown | `MCTaskDispatcher` | `TaskDispatcher_proofs` |
| `DatabaseTasks` | asynchronous queries, flush, shutdown | `MCDatabase` | `MCDatabase_proofs` |
| `PlayerSave` | the database connection, transactions, `savePlayer` | `MCDatabase` | `MCDatabase_proofs` |
| `GameSession` | the sessions of one character | `MCDatabase` | `MCDatabase_proofs` |
| `ItemStore` | what of a player is stored and loaded, mail | `MCDatabase` | |
| `Connection` | one connection | `MCConnection` | `MCConnection_proofs` |
| `AutoSend` | output buffers and `sendAll` | `MCConnection` | `MCConnection_proofs` |
| `Services` | listening ports, throttle | `MCConnection` | `MCConnection_proofs` |
| `WaitList` | the login wait list | `MCConnection` | |
| `TaskScheduler` | timers | `MCConnection` | `MCConnection_proofs` |
| `CreatureWalk` | a walking player; extends `TaskScheduler` | `MCCreatures` | `MCCreatures_proofs` |
| `CreatureLife` | players, monsters, summons, a spawn | `MCCreatures` | |
| `Trade` | trades between players | `MCTrade` | `MCTrade_proofs` |
| `Market` | offers of the market | `MCTrade` | `MCTrade_proofs` |
| `Party` | parties and chat channels | `MCParty` | `MCParty_proofs` |
| `Fights` | blows, credit, skulls | `MCParty` | `MCParty_proofs` |
| `ItemMove` | moving items, money, weights | `MCItemMove` | |
| `Decay` | decay of items | `MCItemMove` | |
| `ClientView` | the client's copy of the map | `MCClientView` | |
| `Windows` | the client's container windows | `MCClientView` | `MCClientView_proofs` |
| `Effects` | conditions and worn items | `MCPlayer` | |
| `Houses` | a house, its guests and beds | `MCParty` | `MCParty_proofs` |
| `Rent` | rent letters | alone | |
| `Nesting` | what things lie in; used by `Trade` and `Windows` | | |
| `CollectionFacts` | lemmas about sums, sets, sequences and nesting | | itself |

The `MC` modules compose what belongs together. They instantiate the component
modules over one set of variables and choose in the initial state, in `part`
(`scene`, `venue`), which of them a behaviour is about; the others keep still. A
property of a part says so in its hypothesis. A definition whose name ends in
`Mutant` is a plausible mistake in the operator that follows it; it is part of
no specification, and serves to show that a property can fail.

**TaskDispatcher.** `AddTask(t)` is the critical section of `addTask`;
`Notify(t)` is the `notify_one` after it, a step of its own, and until it is
made the thread is in `signalling`. `Loop` and `SwapAfterWait` are the two
critical sections of `threadMain`; the wait can end without a notification
(`SpuriousWakeup`). `RunTask` takes the next task of the batch and runs its
body: `RunLoad` is `mainLoader` with its error returns, `RunSignal` the signal
handler (or script) that calls `setGameState(SHUTDOWN)`: its body adds the closing
task (`SetShutdown`) and calls `g_dispatcher.stop()` only at its end, a step of its own
(`Stop`), and until then other threads get tasks accepted behind the closing one.
`RunClose` is the lambda
that calls `Game::shutdown`, `RunTerminate` the lambda of
`Dispatcher::shutdown`; `RunWork` is any other task, and `ExpireTask` deletes
an expired one. `MainWait` ... `OfflineShutdown` follow `startServer`.
`accepted` and `done` are history variables. `stop()` writes `CLOSING` over
whatever is there, as the code does.

**DatabaseTasks.** The two takers share `Pop`, `RunQuery` and `Post`, for
`threadMain` and `flush()` pop under the lock, run the query and hand its
callback over in the same way; `pc` tells where each of them is. `threadMain`
tests the state first ("test") and locks afterwards ("lock"), which is what the
finding below is about. `Save` begins a `saveGameState`, the closing lambda in
the queue of the dispatcher begins the shutdown.

**PlayerSave.** A statement of `savePlayer` is an action; each can work, lose
the connection or be refused. `working` is what the open transaction sees,
`stored` what is committed. The tables are abstracted to "row", "items" and
"storage", the content of each to the version it was written from. `Crash` may
come between any two statements. An implementation may refuse the release of a
lock that is not held or count wrongly from then on: `Unlock` allows both, and
remembers the second in `miscounted`.

**TaskScheduler.** `posted` holds the handlers posted to the io context, which
runs them in order (`RunInsert`, `RunCancel`, `RunShutdown`). A timer goes from `armed`
to `expired` (`Expire`) or `aborted`, and its completion handler (`WaitDone`)
hands the task to the dispatcher or deletes it. Event identifiers are distinct:
the wrap of the 32-bit counter is out of reach of a check.

**CreatureWalk.** The member functions are operators from a record of the
creature's state (`Now`) to another, so that a handler can call several as the
code does; the record's `posts` are what they post to the scheduler. The world
is the outcome of a step (`Outcome`): refused, made, onto a teleport, onto a
tile that takes the speed. Lethal blows queue an `executeDeath`, and healing
before it is run is possible, as in the code.

**Connection.** Written the same way: `Close`, `Send`, `InternalSend`,
`StartRead`, ... are operators from a connection to a connection, and actions
are critical sections under `connectionLock`. A timer may be running again
while the handler of its last expiry is queued. `TimerExpires` and
`OperationFails` are the environment's.

**GameSession.** Each client opens at most one session (`Protocols`), of one
character; a `Player` object is named after the protocol that created it.
`Closing` dispatches `release`; `RunConnect` is the delayed `connect`. A
closed connection is kept alive by its handlers until it expires. The wait list
and all other checks are one nondeterministic refusal. `barred` says that the
player may not log out at the moment, for the tile he stands on or a script that
refuses it; `BarOrUnbar` changes it at any time. `allowClones` is off and
`replaceKickOnLogin` on, their defaults.

**Trade.** An item lies in a slot of a player, in a bag or on the one tile;
a player stands by it ("here"), elsewhere ("away") or is offline. The
operators `ClosedBy...` say whose trade a move, a removal, an addition, an
update or a walk closes: they translate the chain of notifications from the
cylinder over its spectators to `Player::checkTradeState`, with its gaps (the
search below a container skips what lies directly in it; tiles and slots tell
nobody of an addition). `shown` and `agreed` are history: the contents of an
offer when the windows showed it, and the pair of offers a client clicked
"accept" for. Assumptions: a client offers "accept" only once its window shows
both offers, and its messages arrive in order; a slot takes any item or bags
only; whole items are moved; only empty bags are destroyed. `Above` is the walk up
the parents, written as the least set closed under it, not as a recursion, so
that it can be proved about.

**AutoSend.** `bufferedProtocols` and the pending events (`chains`) are separate
state, as in the code, where `addProtocolToAutosend` starts a chain only for the
first member and `sendAll` continues it while there is one. So two chains can
run side by side, which is harmless. What a client's last 10 ms have buffered
is lost at its release, as in the code.

**Services.** A port has at most one of: a pending accept, a completed accept
whose handler waits, an event to open it again. The handlers of
`ServicePort::onAccept` and `openAcceptor` with their failures are actions, so is
the death timer of `ServiceManager::stop`. `ConnectBlock` is the throttle, in
steps of 250 ms; it counts all clients together, as `server.cpp:143` does. An
event that the dispatcher already holds when the manager stops opens the port
again: `StoppedIsClosed` excepts it by name (`late`).

**WaitList.** `clientLogin` is one action with all its returns. `priorityEnd` is a
position that becomes arbitrary (`stale`) once `erase` or `emplace` has
invalidated the iterator.

**Market.** Requests are actions on the game thread. The search for expired
offers is asked (`CheckExpiredOffers`), answered by the database thread
(`AnswerQuery`) and processed later (`ProcessExpiredOffers`) with the amounts of
the answer. What is refunded beyond what the offers still held is counted in
`stale`, a history variable: gold and wares are conserved up to it. Queries
succeed.

**Party.** The calls of a handler are operators from a state to the next, in the
order of the code; a party is known by its address, which may be used again.
Channels are public, private or a party's; a player that logs out or is taken
over leaves them as `Game::removePlayer` and `ProtocolGame::login` say.

**Fights.** `Blow` is `combatChangeHealth` with mana shield, script and the limit
of the health left; a lethal blow puts an `executeDeath` into the queue, and the
victim may leave, or be healed, before it runs. `credited` is history.

**ItemMove.** Holders answer `queryDestination`, `queryAdd`, `queryMaxCount` and
`queryRemove`, and change by `addThing`, `updateThing` and `removeThing`;
`internalMoveItem` is built from them. Two runs of the code put a stack in a
second place or over another one (`misplaced`, described below): they are steps of
the model like the others, the properties are about the states before them, and
the model stops there.

**Decay.** Time is counted in eighths of a second; a round of `checkDecay` takes
two. An item in no list that still says `DECAYING_TRUE` never decays; one that
is listed twice decays twice as fast. Both happen in the code and are described
below; the property is about items with one entry.

**CreatureLife.** Places lie on a line, a creature sees what is at most `View`
away. Counted pointers are sums over the state, so that a counter can be wrong.
`Game::removeCreature`, `executeDeath`, `onCreatureAppear` and the notices they
send to all spectators are whole actions.

**ClientView.** The client is modelled by what each packet means to it. A tile may
hold more things than a client shows (`MAX_STACKPOS`) and creatures the player
cannot see; `getClientIndexOfCreature` and its like are operators, and the
invariant compares the copy with the full description after every step. What the
code gets wrong is a step as well, and a history variable names what it spoiled
until the next description: `torn` the tiles, `dropped` the creatures that an
uninitialised word (`Garbage`) told the client to forget, or that were in view when
it had to forget one of those.

**Windows.** `openContainers` holds plain pointers; `autoCloseContainers` and
`onSendContainer` close what goes out of reach. Pages of large containers are
modelled, browse fields and stacks are left out. The loop of
`Player::postAddNotification` over all containers out of reach is one call with
all of them: closing a window moves nothing, so the order does not matter.
`SendAdd` tells the windows in their order and keeps an item it looked up for one
for those after it, as the loop does; `misled` are the windows that were told of
the wrong thing, until they are in step again.

**ItemStore.** `saveItems` numbers the rows breadth first and `loadItems` puts
them together again by number; both are recursive functions here. Depots are
stored only for a player whose `lastDepotId` is set. The mailbox loads, changes
and stores players who are not online.

**Effects.** Worn items and conditions add to the same counters. Equipping may
change the type of an item, which equips it again. Types form a table of the
cases the data have (`EquipTo`, `DeEquipTo`, `DecayTo`). A haste or a paralysis
whose time is over stays in the list until `executeConditions` comes (`over`):
`getCondition` finds it, `hasCondition` does not, so that one of the other kind
does not end it (`met`). Suppression by items is left out: it exists for drunkenness
and damage only (`items.cpp:1218`), no condition this module asks about.

**Houses.** What is stored at once (the owner) and what with the map (lists,
beds) are separate parts of `stored`, and a crash falls back to them.

**Rent.** One house, one owner, days that pass, a server that may start several
times a day.

## Runs, bounds and fairness

| run | instance | what it shows |
|---|---|---|
| `dispatcher` | 2 threads, 5 tasks | no task is lost, repeated or reordered, no wakeup lost; the executor is implemented; the thread ends |
| `database` | 3 queries; 3 versions, 6 failures; 3 sessions; 2 bags, a coin | queries run once; stored is a whole version; one session plays, references are exact; what is loaded was stored; queries run, logins are answered |
| `connection` | 3 messages, 2 packets; 2 clients, 3 writes; 2 ports, 3 failures; 5 logins, 2 places; 3 events | order, one write, one release; ports, places and timers are kept; connections end, buffers are sent, ports listen, timers run |
| `trade` | 3 players, a bag and a coin; 2 merchants, 2 offers | trades are mutual and as shown; the market conserves gold and wares |
| `party` | 3 players, 2 parties, 2 private channels; 2 fighters and a summon; 2 people, a bed for two | lists agree on both sides; credit is loss; marks end with the fight; bed, sleepers and guests agree |
| `items` | 2 bags, 3 objects, stacks of 2; 5 types of decaying items | nothing is made or lost, weights agree; items decay in time |
| `creatures` | 3 events, 2 steps, 1 death; a player, 2 monsters, 3 places, 3 acts | one chain of steps; no dangling pointer, exact references, nobody left asleep |
| `client_view` | 2 tiles, 4 shown things, 2 other creatures; 3 bags, a coin, 2 windows | the copy is exact, known creatures agree and windows agree, but for what the code spoils (below) |
| `player` | 2 items, 2 slots, 9 types | effects are those worn and suffered |
| `connection_stalled` | 1 message, 1 packet | *violation:* a closed socket stays open when the peer stalls |
| `session_released` | 2 sessions | *violation:* a released protocol holds a player |
| `rent_letter` | 5 days, 2 warnings (7 in the code) | *violation:* three starts on one day take a house before the day its second letter named |

A passing run takes between twenty seconds and three and a half minutes.

**Bounds.** They bound the inputs (tasks, messages, events, failures), not the
interleavings. *Dispatcher:* both threads can be between unlock and notify
while the list is not empty, and five tasks leave room for the loader, the
signal, the two tasks of a shutdown and one that comes behind the last of them;
with four, a dispatcher that accepts tasks after the shutdown goes unnoticed.
*Queries:* one in each taker's hands and one in the list. *Saving:* six
failures use up the three attempts of a save and disturb the next; three
versions tell a mixture from a whole. *Sessions:* one that plays and two that
replace it. *Things:* a bag in a bag with something in it, so that numbers of
rows and parents differ. *Connection:* one message being written, one queued,
one sent while the connection closes; the first packet makes the protocol, the
second is parsed by it. *Ports:* one that fails while the other stops. *Wait
list:* two places and three ordinary players, one premium, one of the staff:
somebody waits behind, and somebody comes in before. *Events:* one being
inserted, one armed, one expired; for a walk, a step, the next step and the
action behind them. *Trade:* a third player who comes between two, and a bag
with something that can go into and out of it. *Market:* two offers, so that one
is accepted in part while the answer to a search that names both waits, and two
answers, so that the same offer is refunded only once. *Party:* three players
make a party that survives a leave and one that does not; two addresses. *Items:*
a stack that is full, one that is not, and a place for a remainder. *Creatures:* a
summon can lose its master, a target its attacker, with one creature that
watches. *House:* an owner and one who is invited and not, two halves whose
sleepers differ if one is forgotten; several beds are left to the theorem. *View:* one more thing on a tile than is shown;
the uninitialised word may name one of the creatures. *Windows:* two on one bag, with
pages of one and of two things.

**Symmetry** is used where members of a set are interchangeable (players and
merchants of the trade, players of a party, plain things and unseen creatures of
the view), in runs that check safety only.

**Deadlock** is checked where the modelled part goes on or says when it has
ended (`Ended`); the connection, creature, item and player instances do stop,
when their inputs are used up.

**Fairness.** Threads that were started are scheduled: `ThreadMain` and
`GameGoesOn` are weakly fair, a caller of `addTask` reaches its `notify_one`,
posted handlers and expired timers are run (`SchedFairness`, `AutoFairness`,
`ServicesFairness`, `SessionFairness` name exactly those steps: the handler of a
completed accept, the event that opens a port again, a task in a queue, the
delayed `connect`). Nothing is assumed of those who are free: that tasks arrive,
that players act, that clients send or read, that a wait wakes by itself.
`TimedSpec` of `Connection` says that time passes and handlers run; only with
`PeerReads` does a peer read, and the difference between the two is what
`connection_stalled` is about.

**Exceptions that the properties state.** `NothingLeftBehind` and
`EventuallyDone` exclude the shutdown by `startServer` of a server that failed
to load, which does not call `stop()` and deletes what is behind its last task.
`ServerEnds` separates the two kinds of shutdown: a script that shuts the
server down in the very batch of that last task puts `CLOSING` over
`TERMINATED` (`thread_holder_base.h:23`); and it is about a main thread that
already waits, because `startServer` waits without a predicate (`otserv.cpp:282`)
and a loader that were faster than the main thread would notify nobody.
`SessionsEnd` excludes a player some session is connecting to (`isConnecting` is
not reset when that session ends first) and one whose logout is refused at that
time, by the tile he stands on or by a script (`player.cpp:839`): he leaves once nothing
refuses it for good. `PortsKept` excepts the re-opening that
was queued before the stop. `InSync`, `KnownAgree` and `WindowsInSync` except the tiles, creatures
and windows that `torn`, `dropped` and `misled` name, `ConditionsAgree` what has
`met`; each is set where the code goes wrong, as described in the next section,
and cleared when the damage is repaired.

## What the checks found

With runs of their own:

1. **A forced close after a graceful one is ignored** (`connection.cpp:48`, run
   `connection_stalled`). The comment at line 62 says that the socket will be
   closed by the destructor or by `onWriteOperation`; with a peer that does not
   read, neither comes, and the write timeout's `close(FORCE_CLOSE)` returns at
   once.
2. **A released protocol can take a player over** (`protocolgame.cpp:231`, run
   `session_released`). The guard against it tests whether the connection has
   been destroyed; it may be closed, with its `release` already run, and kept
   alive by a pending write.
3. **A house is taken before the day its letter names** (`house.cpp:676`, run
   `rent_letter`). `payHouses` runs at every start of the server and counts a
   warning each time.

Seen while modelling, and stated in the models as the code has it:

*Threads and connections.* `DatabaseTasks::threadMain` tests its state before it
takes the lock and waits without a second look, so it can sleep through its
shutdown (`databasetasks.cpp:19`). `DBTransaction::begin` sets its state before
`beginTransaction`, so that a refused START TRANSACTION is rolled back and
`databaseLock` released twice (`database.h:197`). Outside of a transaction a
statement whose answer is lost is sent again and applied twice
(`database.cpp:70`). `isConnecting` may stay set for ever (`protocolgame.cpp:207`).
The connection of a failed accept stays in `ConnectionManager` until
`closeAll`. A premium player inserted at the front of the wait list gets the
result 0 and is let into a full world while his entry stays. Identifiers of events
wrap after 2^32 (`scheduler.cpp:11`), out of reach of a check.

*Trade and market.* A trade can be one-sided: the tests before the swap may count on
merging stacks, the moves do not merge, and the result of the second move is
not looked at (`game.cpp:2784`). A refund of an expired offer uses the amount of
an old answer (`iomarket.cpp:113`; `stale`). A crash after the insertion of an
offer and before the next save of its owner doubles what it holds.

*Parties.* A player who leaves a party stays a user of its channel:
`setParty(nullptr)` comes before `sendClosePrivate`, which then finds no channel to
remove him from (`party.cpp:97`).

*Items.* A part of a stack that is moved onto a full equal stack is not split off:
the stack itself is put there while its rest stays where it was
(`game.cpp:1191`), and one object lies in two places. Coins that are added to the
slot of a full stack of them are put over it, and the stack is lost
(`game.cpp:1310`, `player.cpp:2688`). `ItemsAreKept` and `WeightsAgree` are about
the states before either. A bag may get one item too many, and an item that is merged into
another is not released. Dousing and lighting a thing within a second lists it twice,
and it decays twice as fast; `decayItems->remove(item)` in `internalRemoveItem` is
never effective and knows only the first bucket; an item whose decay step fails
stays `DECAYING_TRUE` in no list; rests below 875 ms decay at once.

*Storing.* Conditions of a player who is loaded but not placed lie in
`storedConditionList` (`iologindata.cpp:235`) and are moved on his appearance
(`player.cpp:1024`), while `savePlayer` writes `conditions`
(`iologindata.cpp:595`): mail, house transfers, rent, the market and beds erase
the conditions of players who are not online. The mailbox ignores the result of
`savePlayer` (`mailbox.cpp:70`). Depots are stored only if `lastDepotId` is not -1,
an int16, so that depot 65535 counts as none; depot numbers from 100 on are read
as numbers of rows.

*Creatures and the client.* `releaseFollowers` and `removeFollowers` both
decrement when a script removes the walker (`creature.cpp:791`). Hiding on an
over-full tile is not followed by a full update. `updateKnownCreature` sends an
uninitialised `removedKnown` for a creature the client knows (`protocolgame.cpp:2387`),
so that the client may forget one the server takes for known; and it is sent also for a
creature the player cannot see (`player.h:707`), whose place on the tile is another
thing's at the client, which is overwritten (`protocolgame.cpp:2376`). After "move up"
two windows can show one container; closing it closes both for the client and
one for the server, and `sendAddContainerItem` keeps the item it looked up for a later
page for the windows that follow, so that one on the first page is told of the wrong
thing (`player.cpp:925`).

*Houses and beds.* Answering the dialog of a bed from afar teleports onto the
bed, even after the house was lost; sleeping in two beds within 50 ms leaves
one occupied and unregistered; a transfer document outlives a change of owner;
`transferToDepot` ignores a failing save; rent is charged twice if the server
crashes before the map is saved.

*Conditions and fights.* Haste that is cast when a paralysis is over but not yet
executed does not end it, nor the other way round (`hasCondition` looks at the end time,
`creature.cpp:1165`); if the paralysis is cast again before it is executed, its
time is prolonged, and both last (`condition.cpp:1578`). `removeConditionSuppressions` takes a suppression away
that two items give; a refresh of `ConditionAttributes` loses `disableDefense`; a
failing `HealthChange` script leaves a positive damage, so that the blow heals;
`mostDamageUnjustified` is never true since `removeAttacked` runs before;
`damageMap` is not cleared when an arena revives.

## Proofs

The theorems hold for all values of the constants that the named assumptions
admit. `CollectionFacts` holds what several of them need and the libraries do not
say: sums over finite sets as the community modules define them (they do not
depend on the order of counting, change by as much as one summand does, and
split), which elements a sequence holds, once or at all, and how things lie in one
another: what lies above an item (`Nesting`) holds its parent and the parents of all
it holds, a forest has one place above each thing, and what a moved branch
changes above the things in it and leaves above all others. Induction over finite
sets is used as "a non-empty set of counterexamples has a least member"
(`LeastNatural`, `LeastSubset`), for an induction theorem with an operator parameter
cannot be instantiated.

| theorem | module | states | assumptions |
|---|---|---|---|
| `ConservationHolds`, `NoWakeupIsLost`, `OrderlyShutdown` | `TaskDispatcher_proofs` | `Conservation`, `NoLostWakeup`, `NothingLeftBehind` | a non-empty set of threads, `MaxTasks` positive |
| `ImplementsExecutor` | `TaskDispatcher_proofs` | the refinement `ExecutorSpec` | the same |
| `QueriesAreRunOnce`, `CallbacksAreKept` | `MCDatabase_proofs` | `QueriesRunOnce`, `CallbacksFollow` | `MaxTasks` positive |
| `SavesStayWhole` | `MCDatabase_proofs` | `SavesAreWhole` | bounds are natural numbers |
| `SessionsAreKept` | `MCDatabase_proofs` | `SessionsKept` | `NoOne` is no protocol |
| `MessagesStayInOrder` | `MCConnection_proofs` | `MessagesInOrder` | bounds are natural numbers |
| `PortsStayKept` | `MCConnection_proofs` | `PortsKept` | `Gaps` are natural numbers |
| `TimersStayOwned` | `MCConnection_proofs` | `TimersAreOwned` | `MaxEvents` is one |
| `PlayersStayMobile` | `MCCreatures_proofs` | `PlayersWalk` | bounds are natural, a path has a step |
| `FightsStayFair`, `DamageIsCredited` | `MCParty_proofs` | `FightsAgree`, the action property `CreditIsLoss` | masters are fighters, blows are natural numbers |
| `HousesStayKept` | `MCParty_proofs` | `HousesAgree` | the partner of a half's partner is the half, `Nobody` is no person |
| `PartiesStayAgreed`, `ChannelsStayClean` | `MCParty_proofs` | `PartiesAgree`, `ChannelsAreClean` | `None` is no player and no party, finitely many addresses |
| `OffersStayAgreed`, `NobodyIsSurprised` | `MCTrade_proofs` | `OffersAgree`, `NoSurprise` | finitely many items; bags are items, stacks are not bags; items and players are no places |
| `WindowsStayInSync` | `MCClientView_proofs` | `WindowsAgree` | finitely many things, none of them a place; tiles are integers, windows natural numbers |
| `MarketStaysKept` | `MCTrade_proofs` | `MarketKept` | merchants are finitely many, prices and bounds natural numbers |

**Dispatcher.** *Conservation* (`accepted = done \o tmpTaskList \o taskList`) is not
inductive alone: swapping the lists keeps the order only if the private list is
empty. `ListInv` adds that (`Quiet`: outside of the batch loop `tmpTaskList` is
empty) and the types. Two lemmas on sequences carry the rest: `AppendRight` for a
critical section that adds a task, `TailLeft` for a task that is taken. The same
two give the refinement, with `queue <- tmpTaskList \o taskList`: an addition is a
`Submit`, a task taken an `Execute`, and everything else, the swap included,
leaves the concatenation alone. *NoLostWakeup* is inductive with the types: a list
that stops being empty does so in an `AddTask`, which puts its thread into
`signalling`, or in the dispatcher's own step, when it does not sleep; and a
`Notify` wakes it. *NothingLeftBehind* needs the order of a shutdown. `StageInv`
says which stage the server is in: open, with neither of the final tasks queued;
closing, with the task of `Game::shutdown` last in the list; closing, with the
terminate task last; or over, with nothing left. A step of one stage that accepts
work leads to a later one only when nothing can come behind the final task, which
is why `CLOSING` has to be set after the first and before the second of them.

**Queries.** `QueryInv` adds to the properties: which phases of the game thread go
with which state (`Stages`); the list holds consecutive identifiers, those issued
last (`Contiguous`), so that whatever is smaller has been taken; who holds a query
and who is about to post it (`Hands`); those taken are run, or in the hands of a
taker that runs them, and as many as there were (`Taken`), hence none twice; after
a flush the list is empty, because nobody but the flushing thread adds to it
(`FlushedIsEmpty`); and there is one closing task, behind which no callback comes
before the state changes (`OneClose`).

**Saving.** `SaveInv` relates the phase of a save to the transaction and to
`retryQueries` (`Phases`), counts `databaseLock` with what a refused start may have
released twice (`LockCount`), and says for each statement which tables of the open
transaction already hold the new version (`Written`). A commit then stores a whole
version, a crash or a lost connection falls back to the one before, and
`StoredVersion` keeps the reported one at or below it.

**Sessions.** `SessionInv`: a protocol and its player name each other (`Mutual`), one
object is online, a protocol with its login still queued has no player (`Logins`),
and the reference counter of each object is the sum of those who hold it (`Life`:
session, map, check list, release list), with an object deleted exactly at zero.

**Connection.** The properties of a connection are inductive together with "who
lost a message is closed". Each member function gets a lemma that says which
fields it changes (`CloseEffect`, `SendEffect`, ...), each handler one that it keeps
the invariant. For the buffers `BufferedInOrder` is inductive as it stands: sent
and buffered packets together are those written.

**Ports.** `PortInv` says what a port may be in each state of the manager; `HeldPort`
names the three ways to its next accept, one at a time. `BlockInv` bounds the
attempts counted by those made since the block ended.

**Timers.** `Owners` counts, for one event, the places that own it (the posted insert,
the armed, expired and aborted timers, the dispatcher's inbox, run, deleted):
always one if the identifier was given out, none otherwise. What was stopped in
time is aborted or deleted.

**Walking.** `WalkInv`. The member functions of a creature are operators on records,
and what they have posted is not yet in the queue, so the argument is made for
records first: `Good` (types, posts name the new events and cancel only stopped
ones, one waiting action) holds of the current state and is kept by each member
function (`Keeps`), with two ways of counting chains: `Chained` allows for the
remembered step, `Loose` does not. The steps in flight that were not stopped
(`FreeSteps`), except the remembered one, are at most as many as those that were
stopped too late (`LateSteps`): so a second chain exists only after a late
cancellation. `Moving` says that the remembered event of a living creature is in
flight.

**Fights.** `FightsInv` says that marks (a white skull, attacked players, the lock)
come only with the infight condition of a player in the world, that summons in the
world have masters in it, and types. `DamageIsCredited` follows from what a blow
does to a target: `IsTarget` is kept by the shield, the script and the limit, and
the credit is summed up over the summons' masters.

**Houses.** The two properties are inductive with types and with `WholeBeds` of what
is stored: both halves of a stored bed have one sleeper, because a bed is stored in
one transaction, so a restart finds whole beds whatever was saved last.
`WakeUpFrees` says that beds are freed whole, and with everybody who is registered
for a half of them.

**Parties and channels.** The handlers call operators that take a state and return the
next one, so `PartyInv` is a predicate of such a state: its shape (`IsState`), both
sides of every membership and invitation (`Related`), no invitations for who is in
a formed party (`Formed`), and the answer about sharing current (`Current`). Each
operator gets a lemma that says what it changes (`Left`, `Ended`, `AllTaken`, ...) and
one that the invariant holds afterwards. Two operators are folds: disbanding frees
the members one by one (`ExpelsAll`), and clearing takes back the invitations in any
order (`ClearsAll`); for both, what is reached after a part of the list or set is
written down in closed form, and the least part for which it fails is empty.
Joining and logging out pass through states that are not in the invariant
(a member who still holds invitations), which `TakenKeeps` allows for one player.
`ChatInv` adds to the property who may own a channel; the operations of a party never
touch one, since the party is forgotten before its channel is closed.

**Trade.** What lies above an item is defined in `Nesting` as a least set of bags
(`BagsOver`), so that it can be reasoned about without induction: a set that holds
the parent and is closed under taking parents holds all of it. `TradeInv` says
first that the places form a tree (`Tree`: no item lies in itself) in which nothing
is over-full (`Fits`). An operation moves one branch of it to a place outside of the
branch (`Grafted`); what lies above the items of the branch changes in one way
only, everything else stays. The trades are then: partners name each other
(`Mutual`), the offers of two trades are apart from each other (`Disjoint`), each is
the top of a branch that was not touched since it was shown (`AsShown`, `AsAgreed`)
and is in reach of its owner (`InReach`), references count who holds an
item (`Counted`), and the stage of each partner goes with that of the other and with
the clicks under way (`Stages`, `Clicks`). The central lemma is that an operation on
an item whose trade it does not close is one on a branch apart from every
offer, because whatever lies in, holds or is an offer is found by `CloseFor`. For
`NoSurprise` a trade that is carried out must not stop after the first of its two
moves: the room that was tested for the second offer, unless it is a stack, is
still there afterwards, since the first offer goes to the other player, whose
places are none of those tested; or, if it was room within the first offer, there
is room where that offer lay (`RoomStays`).

**Windows.** `WindowsAgree` is not inductive: whether a message to the client keeps a
page right depends on where the page begins, and whether what is open stays in
reach on what lies in what. `Sound` adds four things. Things lie in a forest
(`Placed`). A bag lists what has it for a parent, each once (`Listed`), so that the
slot a thing is taken from is its own. Pages begin at a multiple of their size
within the list, or at its start (`Leafed`), which is why a page that becomes empty
has a page before it to turn back to. What is open is within reach (`Open`), and
what is shown is the page of the list (`Synced`), but for the windows of a set: those
that are `misled`, and with them, in the middle of a move, those the code tells of
the wrong thing (`Wronged`). A move is a removal and an
addition with the thing nowhere in between, where `Open` does not hold: each half
keeps the rest (`Steady`: `RemoveThingKeeps`, `AddThingKeeps`), from one lemma for
each message that the client's page stays the page of the changed list
(`AddShows`, `RemoveShows`, `UpdateShows`), and the notifications restore `Open`: bags
outside of the moved branch have the holder they had, those inside have that of
the place it went to (`HolderAfter`), and are closed if it is out of reach
(`PostRemoveKeeps`). The player's own requests change one window
(`OneWindow`). Of the sizes of the bags, which `MCClientView` fixes, only that they
are positive is used (`SizeIs`).

**Market.** All gold is in a purse, an account, an offer or paid as a fee. The sums
over ids and owners are reduced to one over the merchants and one over the offers
(`CountedByOffers`); a request moves out of the one what it moves into the other
(`Moves`, `DealKeeps`), a request of one merchant changes one summand. Identifiers
are given out once (`Numbered`), so an offer that was changed or removed is not
taken for another one, and an answer is about rows that existed: what it gives
back beyond what the offer still held is exactly what `stale` counts.

## Only model-checked

- Liveness (`EventuallyDone`, `QueriesRun`, `ConnectionsClose`, ...): ENABLED and
  proofs under fairness are beyond the installed prover.
- `PlacesKept`: the wait list is filtered with `SelectSeq`, of which the prover knows
  nothing without an induction over sequences.
- `ThingsAreStored`: what the recursive functions over
  containers compute needs induction over data.
- `EffectsAgree`: `Effects` holds RECURSIVE operators.
- `ItemsAreKept`, `WeightsAgree`, `ItemsDecay`,
  `CreaturesAreHeld`, `CreaturesThink`, `InSync`, `KnownAgree`: their
  modules change the state by folds of operators over sets of players, watchers
  or rows.

## Not modelled

- Packets, encryption, item and monster data, map files, migrations, the status and
  the login protocol: data without control state, or a single request and answer.
  They are the larger half of the code, together with the Lua bindings (a fifth
  of it): the map covers a sixth of the lines, which are those that keep state
  across tasks.
- Lua: a script appears as the choice of outcomes an event has (an event may
  refuse, a task may do any work).
- Combat formulas, path search, spectator lists, experience: algorithms on data.
- NPCs and shops, guilds, raids, quests, bans: read-only tables or Lua.
- Exceptions thrown by asio when an operation is started; allocation failures.
- Of the modelled components: see the notes in `PROJECT.json`. The larger gaps are
  the guild channels, the store inbox and the limits of depots, floors and the
  spectator cache, the despawn of monsters by walking back, a script that takes a
  summon's master, doors, partly moved stacks in a trade, failing queries of the
  market.

## Plan

The models are as wide as they will get; what is left is to prove more.

1. `ThingsAreStored`: numbers of rows are distinct and parents come before children.
2. `CreaturesAreHeld`: counters as sums, with `CollectionFacts`.
3. `EffectsAgree`: needs `Effects` without RECURSIVE operators.
