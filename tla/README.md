# Verification of the LRU cache

This directory holds TLA+ specifications of the repository's cache core, of its
lock-free queue, of the asynchronous cache built from the two, of the terminal
simulator and of the web server with its dashboard, the configurations that
model-check them with TLC, and proofs that TLAPS checks. Paths below are
relative to the repository. Definitions keep the names of the C++ code wherever
TLA+ allows it.

## 1. The system

| Component | State | Operations | Talks to |
|---|---|---|---|
| **Cache core** `lru_cache` (`include/lru_cache.h`, `src/lru_cache.cpp`) | node pool, LRU list (`head_`, `tail_`, `prev`, `next`), free list (`free_head_`, threaded through `next`), open-addressing table, `size_`, three counters | `put`, `get`, `remove`, `clear`, `display`, `size`, `hits`, `misses`, `evictions`, `hit_ratio` | called by everything below; no threads of its own |
| **Queue** `spsc_queue` (`include/spsc_queue.h`) | `buffer_` of `capacity + 1` slots, atomic `head_` and `tail_` | `push` (one producer), `pop` (one consumer) | the two threads share memory under release/acquire |
| **Asynchronous cache** `async_cache` (`include/async_cache.h`) | an `lru_cache` owned by a worker thread, `inbox_`, `outbox_`, relaxed `running_` | `async_put`, `async_get`, `poll_response`, destructor; `worker_loop` | client and worker exchange requests and responses through two queues |
| **Terminal simulator** (`src/main.cpp`) | an `lru_cache`, the registry from numbers to the strings typed | the eight entries of the menu | calls the cache core; reads standard input |
| **Web server** (`src/web_server.cpp`) | an `lru_cache` and a registry, one request at a time | `/api/put`, `get`, `remove`, `reset`, `batch`, `state` | the dashboard, over HTTP |
| **Dashboard** (`public/app.js`) | last state received, log, a shadow cache for simulations, a replay position and timer | requests, batch simulation, stepping, autoplay, boot screen | the web server, with requests that may overlap |
| **Benchmarks, tests** (`benchmarks/`, `tests/`) | – | – | clients of the cache core and of the asynchronous cache |
| **Vendored** `include/httplib.h` | – | – | included by no source file |

### What is hard, and what makes each part correct

*Cache core.* One node is in several structures at once (pool, one of two
lists, table), and every call updates them one after the other. Entries move
in the table when others are removed (backward shifting, with slots compared
in a circle), `put` finds its slot before an eviction may invalidate it, freed
nodes keep old keys, and two search loops have no exit but the one the
structure guarantees. It is correct if

- it behaves like a list of at most `capacity_` entries in order of use;
- the pool is always partitioned into the LRU list and the free list, both
  directions of the LRU list agree, and the table points exactly to its nodes;
- the table is dense: a probe for a stored key cannot stop early.

*Queue.* Each side decides on a possibly old copy of the other side's index;
the items themselves are plain memory. It is correct if the threads never race
on a slot, items come out once and in order, and a stale index only delays a
call and never makes it lie.

*Asynchronous cache.* The worker can spin on a full outbox, the client on a
full inbox, and the destructor waits for the worker while nobody reads
responses. The stop flag is not ordered with the requests. It is correct if
answers are those of a sequential cache in the order of the requests, none is
lost before the end, and the destructor always returns.

*Simulator, server, dashboard.* Numbers stand for strings through a registry in
which different strings can meet; the input loops must survive the end of
input. The server serves one connection at a time and waits for it, to send and
to take the response, without a timeout. In the dashboard a handler awaits one answer or two, and meanwhile the
user, the playback's timer and other handlers act on the same few variables;
requests overtake each other; the log judges an operation by hit counts seen
before and after it; a simulation predicts the server with a second
implementation of LRU. They are correct if

- shown keys lead back to entries and no two entries show the same key;
- whoever sends a request is answered;
- the log tells the truth, the screen shows the server's cache, a playback stays
  inside its history and ends, and leaving it keeps the capacity.

`PROJECT.json` lists each hazard at its line, with the property that covers it
or a note why none does.

## 2. The modules

| Module | Models | Relation |
|---|---|---|
| `LruCache` | the class `lru_cache` | – |
| `LruEntries` | what an LRU cache promises, as operators: a sequence of entries in order of use | – |
| `AbstractLru` | the same as a state machine, one step per call | over `LruEntries` |
| `LruRefinement` | `display(cache)` as refinement mapping | `LruCache` implements `AbstractLru` |
| `LruCacheProofs` | lemmas about pool and table; theorems about `LruCache` and `LruRefinement` | proofs |
| `BasicLemmas` | induction, loops and parts of sequences, for the other proofs | proofs |
| `SpscQueue` | the class `spsc_queue`, access by access | – |
| `Channel`, `AbstractQueue` | what a queue promises its two threads | – |
| `SpscRefinement` | the slots between two indices as refinement mapping | `SpscQueue` implements `AbstractQueue` |
| `SpscProofs` | theorems about `SpscQueue` and `SpscRefinement` | proofs |
| `AsyncCache` | the class `async_cache` and its client threads | composes two `Channel`s and the operators of `LruCache` |
| `AsyncCacheProofs` | theorems about `AsyncCache`, from those about `LruCache` | proofs |
| `AsyncBenchmark` | the client of `benchmark_async_cache.cpp` | restricts the client of `AsyncCache` |
| `StringCache` | what `main.cpp` and `web_server.cpp` share: a cache of changing capacity, the registry | over `LruEntries`, which `LruCache` implements |
| `StringCacheProofs` | lemmas about `StringCache` and the handlers of `WebApi` | proofs |
| `Cli` | `main.cpp`: menu, handlers, end of input | extends `StringCache` |
| `CliProofs` | theorems about `Cli` | proofs |
| `WebApi` | the `/api` handlers of `web_server.cpp`, as operators from a server to its successors and answers | extends `StringCache` |
| `WebServer` | the accept loop, its backlog and its clients | extends `WebApi` |
| `WebServerProofs` | theorems about `WebServer` | proofs |
| `Simulation` | how `runSimulation` draws operations and judges them | extends `WebApi` |
| `Dashboard` | `app.js`: handlers, playback, timer, boot screen | composes `Simulation` with the handlers of `WebApi` |
| `DashboardUsers` | three users whose calls overlap: any, a busy and an orderly one | extends `Dashboard` |
| `DashboardProofs` | theorems about `Dashboard` and `DashboardUsers`, for any user and for a busy, an orderly and a patient one | proofs |
| `MC*` | constants for TLC | extend the above |

### Cache core

An object is a record `c` with the fields of the class. Each member function,
private ones included, is an operator from objects to objects and is composed
as in the code: `evict_lru` is `EraseSlot` at the tail's slot, then
`unlink_node`, then `free_node`, then the count. Each public call is one
action, since the class has no internal concurrency. Search loops are the
first slot at which their exit test holds (`FirstSlot`); the loop of backward
shifting is a function iterated `TableSize` times (`ShiftStep`, `EraseSlot`),
which is enough because it stops at an empty slot and the table has one.
`hash` is an arbitrary function into the slots: every collision pattern is a
possible one, and nothing proved depends on Wang's mixing. `SizeMod` is the
modulus of `size_t`. `hit_ratio` (floating point) and text layout are left out.

### Queue

Only one thread stores to each index, so the n-th store stores
`n % capacity_`; the model keeps n. Of each index it keeps the number of
`stores` and the last one `visible` to the other thread, which is what a load
there returns; `TailArrives` and `HeadArrives` make later stores visible, in
their order, at any time. `synced` is the last store a thread has *acquired*:
the accesses to `buffer_` before that store happen before what the thread does
next. Weakening the loads (`acquire_Relaxed`) leaves `visible` as it is and
`synced` behind, and `NoDataRace` fails, as it must. `push` and `pop` are three
steps each: load of the other index, access to the slot, release store.
`SpscRefinement` maps the slots between two stores to the abstract queue.

### Asynchronous cache

Client and worker are two state machines with a `pc`. A channel keeps pushed
items that are not visible yet (`sent`), the ones that can be popped
(`ready`), and the pops the producer has not seen (`freed`). `SpscQueue` is
shown to implement exactly this, so `AsyncCache` need not repeat indices. A
worker step is one access to shared memory together with what the worker then
does to its own cache. Spinning changes nothing, and so it is the absence of a
step; TLC's deadlock check then finds "everyone waits for everyone". `log` and
`received` record what was sent and polled.

### Terminal simulator

A handler is one action from the choice in the menu to the next menu; the lines
it reads are its parameters. `Number` is `to_uint64`'s conversion (a number
read by `std::stoull`, or a hash), under which different strings may meet;
`Register` is its entry in the registry, which `get` and `remove` make before
they look the key up, found or not. `main.cpp` only calls an `lru_cache` and
never looks inside, so the cache is here what `LruRefines` says every `lru_cache`
implements: its capacity and its entries in order of use (`LruEntries`), with
counters modulo `CounterMod`. `Display` prints the entries through `from_uint64`. When the input ends the menu exits and a handler gives
up on an empty line, while `read_capacity` asks for ever: there the model is
stuck, and so deadlock is not checked. `typed` records the strings last put for
each number.

### Web server

`Handled(s, request)` is the set of pairs of a next server and an answer: a set,
because C++ leaves the order of the two conversions in `put(to_uint64(key),
to_uint64(val))` open and both write the registry. The answer holds the JSON of
the cache, one per token of a batch, and beside it the `effects`, which the
server does not send: what really happened to the key, against which the
dashboard's log is measured. A token that the server does not understand
(`"none"`: no comma, an unknown letter, a put without a value) changes nothing and
has its JSON all the same. A capacity that is no positive `int` counts as 10
(`ResetCapacity`): `std::stoi` throws above `INT_MAX`.

`WebServer` adds the loop: `accept` takes the oldest of at most `Backlog` waiting
connections, `recv` waits for its client to send or close (`recv_fails`), `handle`
is the work on the request, and the loop of `send` then waits until the client, or
the system's buffer for it, has taken the response (`Receive`, `send_ends`) or the
connection breaks (`recv_fails` again). A handled client that has hung up still
had its effect. A request arrives in one piece; GETs of files and the 404 answer
change nothing.

### Dashboard

`calls` holds the requests under way, each with the locals its handler keeps
over the await. A handler is cut where it awaits: `executeOp` and
`Returns` are `reqApi` before and after; `executeOp`, `Captured`, `Simulated` are the
three parts of `runSimulation`; `exitSim`, `Exited` and `Returns` those of an exit. The server
takes calls in any order (`Handle`), since a browser uses several connections,
and answers arrive in any order. `calls` keeps the answers in the order in which
the server gave them, so that users to whom they come in that order can be
described too (`InOrder`). A call may fail before or after it is handled
(`Fail`), or fail for the page and reach the server later (`Strays`). The Enter
key calls `executeOp` whenever the boot screen is hidden, and so the model allows
it during a playback. `Tick` is the timer, which runs whatever the page shows.
Everything random in a simulation is a choice; the probabilities are left out,
the cases they exclude are not (`DrawnTypes`, `Types`, `KeysFor`).

## 3. The runs

| Run | Bounds | Shows |
|---|---|---|
| `lru_structure` | 3 nodes, 8 slots, 4 keys whose probe sequences collide and wrap around | `TypeOK`, `PoolPartition`, `OneSlotPerNode`, `Dense`, `NodeReuse` |
| `lru_refinement` | 2 nodes, 4 slots, 4 keys, 2 values, counters modulo 3 | `ImplementsLru` |
| `spsc_memory` | capacity 2, 7 items of 3 values | `TypeOK`, `NoDataRace`, `ImplementsChannel`, `AllDelivered` |
| `async_clients` | queues of 1, cache of 1, 2 keys, 4 requests, polls and destructor at any time | `TypeOK`, `NoAnswerLost`, `ShutdownTerminates` |
| `async_benchmark` | queues of 2, 3 warm-up PUTs, 5 GETs | `BenchmarkEnds` |
| `async_flush` | queues of 1, 2 requests | refutes `PutsFlushed` (see section 5) |
| `cli_registry` | 4 strings for 3 numbers, capacities 1 and 2 | `TypeOK`, `ShownStringsReach` |
| `cli_originals` | the same | refutes `DisplaysOriginals` (see section 5) |
| `web_server` | 3 clients, backlog 1, 7 requests, 3 strings for 2 numbers, capacities 10 and 1 | `TypeOK`, `ShownKeysReach`, `Served` |
| `dashboard` | a boot and 3 calls in any overlap, simulations of 1 operation, 1 key, the first capacity and 1; failures and late requests; three users | `TypeOK`, `AutoPlayEnds` (any user), `ExitKeepsCapacity` (a busy one), `ScreenIsServer` (an orderly one) |
| `dashboard_patient` | a boot and 3 calls one after the other, simulations of 3 operations, 3 keys, capacities 1 and 2 | `HitMissTruth`, `PlaybackTruth`, `ShadowFollows` |
| `dashboard_reboot` | as `dashboard` | refutes `NormalModeUnderneath` (see section 5) |

*Why the bounds are enough.* The cache core's runs have no depth bound: all
reachable objects are visited. Three nodes is the least number with a node that
is neither head nor tail, eight slots leave room for clusters that wrap and
clusters that do not, and one key more than nodes makes every state of a full
cache evict; the refinement run needs values and counters, for which two nodes
suffice. The boundary where head, tail and victim are one node is met in
`async_clients`, whose cache has one entry; a cache of one entry in
`dashboard_patient` agrees with the dashboard's own LRU (`ShadowFollows`).
Seven items take three slots around the ring twice. In `async_clients` two GETs
fill outbox and worker, a third the inbox, and a fourth request spins; a cache
of one entry evicts at every change of key, and a `PUT` stores its own number so
that no two values are equal. `async_benchmark` runs at the limit: with one
GET more it really stops, for both threads then wait for room. In `MCCli` two
spellings of one number occur as keys and as values, and three keys evict at
either capacity; its state space is finite without a bound. In
`MCWebServer` one client is served, one waits and a third finds the backlog
full; `Backlog` is 3 in the code, and only whether it is full matters. In
`dashboard` four calls are a boot, two simulations that overlap and an exit (or
an operation); the histories of the two mix, and the timer finds a history
shorter than its index. An exit needs three calls of the four (boot, simulation,
exit), which leaves one to get between its two: if the busy user may boot there,
`ExitKeepsCapacity` fails within these bounds, in which the server has the
capacity it starts with, the boot's, or one that an exit asks for. The patient run's simulations are as long as it takes for
a third operation of one kind to be redrawn, and three keys evict at capacity 1
and 2. `CounterMod` is larger than the number of GETs that fit, so that hits do
not wrap there. Deadlock is not checked in the dashboard's runs: `MaxCalls`
ends the user's calls.

*Fairness.* Safety runs assume none. `AllDelivered` assumes that both threads
keep running and call again after a failure, as every loop around `push` and
`pop` in `async_cache.h` does, and that a store becomes visible in finite time,
which the C++ standard asks of implementations. `ShutdownTerminates` assumes the
latter, a running worker and a `join` that returns when the thread has ended;
clients need not send, poll or destroy. `BenchmarkEnds` adds that the
benchmark's own thread runs. `Served` assumes that the loop runs, that every client in the end sends or
closes, and that it in the end takes its response or closes: without either it is
false, for neither `recv` nor `send` has a timeout. The loop's weak fairness is
written with its enabling condition (`LoopEnabled`), which TLC evaluates faster
than `ENABLED`. `AutoPlayEnds` assumes that `setInterval` keeps firing, and is
about playbacks that are not stepped back, or started again, for ever.

*The users of the dashboard.* `Next` has any user, any order of answers, failures
and late requests. What the page promises beyond `TypeOK` and `AutoPlayEnds` it
keeps only for users who do less. `UsersSpec` (`DashboardUsers`) has three users,
one of whom, `user`, acts throughout a behaviour, and `PatientSpec` a fourth:

| User | What he does | The network | Holds |
|---|---|---|---|
| any | anything at any time | any order of answers, failures, late requests | `TypeOK`, `AutoPlayEnds` |
| busy | operations and simulations at any time, but no boot during an exit and no exit during a boot; looks only at where a playback begins, since stepping through it calls nothing | any order of answers; a call that fails is lost | `ExitKeepsCapacity` |
| orderly | anything at any time, but stops the playback before a reboot | answers in the order in which the server gave them, no failures | `ScreenIsServer` |
| patient | waits until nothing is under way, uses the buttons that are shown, stops the playback before a reboot | no failures | `HitMissTruth`, `PlaybackTruth`, `ShadowFollows` |

What is left out really breaks the property: a boot between the two calls of an exit has
its capacity overwritten; answers that overtake each other, a lost answer or a
timer that goes on after a reboot leave an old state on the screen; with calls that overlap, failures
or operations during a playback, HIT and MISS are told from other hits than those the
server had, and with calls that overlap a simulation no longer knows the server's
state. The strings of the patient run have one spelling each: a simulated value
that spells a typed key differently would rename it in the JSON, which the shadow
does not see.

## 4. The proofs

Eight modules hold theorems. `BasicLemmas` is shared: induction, least elements,
loop invariants, parts of sequences. The library's induction theorems take a
predicate as an operator, which the provers cannot instantiate; here induction is
stated for a *set* that holds 0 and successors, and proved from the pigeonhole
principle (`FS_PigeonHole`). What a recursive function computes is then proved
with the set of the numbers for which the claim holds.

### Cache core

For every capacity, every set of keys and values with a zero, every hash
function and every counter width:

- `TypeCorrect`: `Spec => []TypeOK`;
- `PoolIsPartitioned`: `Spec => []PoolPartition`;
- `NodesHaveOneSlot`: `Spec => []OneSlotPerNode`;
- `TableIsDense`: `Spec => []Dense`;
- `NodesAreReused`: `Spec => NodeReuse`;
- `LruRefines`: `Spec => ImplementsLru`, the abstract cache that simulator,
  server and dashboard are built on.

*Assumptions.* `CapacityAssumption` (the constructor rejects 0),
`TableSizeAssumption` (the table has `next_power_of_two(2 * Capacity)` slots, as
the constructor computes it) and `DataAssumption`. TLC evaluates all of them.
That the loop of `next_power_of_two` ends at no less than its argument, so that
at least half of the table is always empty, is proved (`TableIsLargeEnough`).

*Argument.* The invariants are inductive only together:
`IInv == TypeOK /\ PoolPartition /\ OneSlotPerNode /\ Dense`. Types need the
partition because `allocate_node` and `evict_lru` index the pool without a check;
the partition needs unique slots because `EraseSlot` empties one slot and must
thereby take the node out of the table altogether; uniqueness needs the
partition because a freshly allocated node must not be in the table yet; and
density needs all of them, since it is about the keys of nodes that keep their
place in the table. The lemmas follow the code:

- *Pool*: what `link_node`, `unlink_node`, `promote`,
  `allocate_node` and `free_node` do to a pair of lists (`PoolOf`), with explicit
  new lists.
- *Table*: an empty slot exists (pigeonhole: more slots than nodes,
  one slot per node), so that the search loops end; a loop invariant of
  `EraseSlot` by induction over its iterations. The circle of slots is cut open at
  an empty slot, so that probe sequences become intervals of positions; while the
  gap travels, every cluster is dense but for the gap, and a node is moved into it
  exactly when its probe sequence passes it (`Closing`). The loop ends because the
  travelling index reaches the empty slot within `TableSize` steps, and then the
  gap is in no probe sequence.
- *Calls*: one lemma per public call says what it does to list,
  table and nodes. The invariant, `NodeReuse` and the refinement all follow from
  it: a node changes its key only where `put` takes over the evicted tail.
- *Refinement*: `display` shows the entries of the nodes along the
  LRU list (`DisplayIs`, `ShownIs`). By `Dense` and uniqueness `find_node` finds a
  key exactly if it is shown, at its position (`FoundEntry`, `NoEntry`), and each
  call changes the list as the abstract one changes the entries: `PutImplements`,
  `GetImplements`, `RemoveImplements`.

### Queue

For every capacity, every set of items and every number of pushes:

- `TypeCorrect`: `Spec => []TypeOK`;
- `RaceFree`: `Spec => []NoDataRace`;
- `Refinement`: `Spec => ImplementsChannel`, the abstract queue that
  `AsyncCache` is built on.

*Assumptions.* `QueueCapacityAssumption` (the constructor rejects 0),
`ItemsAssumption` (`T{}` is an item) and `MaxPushesAssumption` (the bound of the
model is a number, any number). TLC evaluates all of them.

*Argument.* `IInv == TypeOK /\ NoDataRace /\ InFlight /\ ItemsInPlace`. The
numbers of the items in the queue, seen or not by the other side, lie in a
window of at most `capacity_` numbers (`TypeOK`), in which different numbers
have different slots (`SameIndex`, from division with remainder). `InFlight` says
that a call which passed its test still has its room or its item when it gets
to its slot, since the other thread can only add to it; `ItemsInPlace` that the
item in hand is the one in the slot until the index is stored. With the spare
slot, "looks full" and "looks empty" mean what they should for any index seen
(`SeesFullMeans`, `SeesEmptyMeans`). The refinement then follows the windows: a
store makes one longer at its end or shorter at its start, an arriving store
moves the front of one to the end of the other, and the write of a push is a
stuttering step because its slot is in none of them (`WindowAppend`,
`WindowTail`, `WindowSplit`, `WindowSpared`).

### Asynchronous cache

For every size of the queues and of the cache, any number of requests and any
delay of stores:

- `TypeCorrect`: `Spec => []TypeOK`;
- `NoAnswerIsLost`: `Spec => []NoAnswerLost`;
- `AnyClientIsAnswered`: both hold under `AnySpec` too, whose client sends any
  requests, not only the numbered ones of the runs.

*Assumptions.* `CacheAssumption` and `ClientAssumption` (positive sizes, the keys and
values that `LruCache` is given, numbers for the bounds of the runs). The
theorems about the cache core come in through an instance of `LruCacheProofs`.

*Argument.* `IInv` splits `log` into the requests the worker has taken and those
in the inbox, visible or not, and says that as long as the stop flag has not
been seen, answers received, answers in the outbox and the one in the worker's
hand make up exactly what a cache that runs the taken requests one by one
(`Executed`) answers, and that the worker's cache is the one it ends with. Each
step of a channel moves an item from one end of one of these sequences to
another; the store of `running_` only adds the case that the flag is visible.

### Terminal simulator

For all strings, numberings and sets of capacities:

- `TypeCorrect`: `Spec => []TypeOK`;
- `ShownStringsAreReached`: `Spec => []ShownStringsReach`.

*Assumptions.* `StringsAssumption` (`to_uint64` is a function to the naturals and
`std::to_string` has a preimage under it) and `CliAssumption`.

*Argument.* `IInv == TypeOK /\ Remembered`: the registry is faithful (each number
is kept with a string that stands for it), knows every number in the cache, and
every entry has the value that was put last for its key. The lemmas of
`StringCacheProofs` say which entries an operation leaves (`PutIs`, `GetIs`,
`RemoveIs`) and that registering a string keeps a faithful registry faithful and
only adds to what it knows (`RegisterIs`); legibility follows (`LegibleIs`).

### Web server

For all strings, requests, clients, orders of the two conversions in `put` and
lengths of batches:

- `TypeCorrect`: `Spec => []TypeOK`, in which the capacity is the default one or
  one that a reset asked for, and a positive `int`;
- `ShownKeysAreReached`: `Spec => []ShownKeysReach`.

*Assumptions.* `StringsAssumption`, and `ClientsAssumption`, which says what the
clients may send: anything of the form of a request (`Request`).

*Argument.* A well-formed server has a positive `int` as capacity, a well-formed
cache and a faithful registry that knows the cache (`Servers`). Every operation leads from
such a server to such servers only (`ApplyIs`), a batch by induction over its
length (`RunsDefined`, `RunsIs`), and so every request does (`HandledIs`). `CacheInv`
adds where the capacity comes from (`ResetsAreAskedFor`). About the loop,
`LoopInv` says that a connection is in one place: in the backlog, once, or being
served, or not open.

### Dashboard

For all strings, keys and lengths of simulations, requests of the user and
capacities of the boot screen, and any number of calls:

- `TypeCorrect`: `Spec => []TypeOK`, for any user, calls that overlap, overtake
  each other, fail and come late;
- `ExitKeeps`: `UsersSpec => ExitKeepsCapacity`, about the busy user;
- `ScreenIsTrue`: `UsersSpec => []ScreenIsServer`, about the orderly one;
- for the patient user (`PatientSpec`): `HitMissIsTrue`: `[]HitMissTruth`,
  `ShadowIsTrue`: `[]ShadowFollows`, `PlaybackIsTrue`: `[]PlaybackTruth`.

*Assumptions.* `StringsAssumption`; `PossibleKeysAssumption` (there is a key to
draw, and `possibleKeys` are different numbers); `DashboardAssumption` (`reqApi`
sends no empty key or value, lengths are naturals). Two facts are hypotheses of
the theorems that need them, and TLC evaluates both on the run's constants:

- `CountersSuffice` (`HitMissIsTrue`, `PlaybackIsTrue`): the counters, of 2^64 in
  the code, do not wrap within `MaxCalls` calls, of which one counts at most as
  many hits as the longest simulation has operations. The dashboard compares hits
  before and after with `>`.
- `OneSpelling` (`ShadowIsTrue`, `PlaybackIsTrue`): no two strings the page uses are
  one number. `to_uint64` reads `7` and `07` alike and the registry shows the
  one typed last, so a simulated value can rename a key on the screen. The page
  compares strings: its shadow would then miss a key that the server has.

*Argument, any user* (`IInv`). Whatever the overlap, every call under way fits
its handler (`CallsFit`): the server understands its request, and its answer has
a state for each thing asked, which `Simulated` relies on when it pairs operations
with states; and a simulation's call is there only when `simHistory` has its
first entry. What the loop of `runSimulation` draws is well-formed by induction
over its iterations (`GeneratedIs`).

*Argument, a busy user.* `BInv` says of every call under way what it does to the
capacity (`Keeping`): the answer to the first call of an exit names the
server's, its second call asks for it. This is kept while the capacity stays, and the
capacity changes only when a boot is handled, when no exit is under way
(`Apart`). The order of `calls` does not matter, so the argument is about the set
of them.

*Argument, an orderly user.* Here the order matters. `OInv` says that the newest
answer under way that will be rendered is the server's state (`Shown`), and that when
none is to come, the screen is, unless a playback or the boot screen is shown.
The server's handling puts its answer at the end (`ShownAnswer`); a call that is
taken from the middle was not to be rendered yet, and one that is rendered is the
oldest (`ShownRemove`), so that if none is left it was the newest as well
(`NewestLeft`). An exit and a boot end with a call that is rendered, and so make
up for the playback that they leave (`Awaited`).

*Argument, a patient user.* Three layers, each on top of the one before:

- `PInv`: at most one call is under way, what it asks is what its task asks for
  (`Proper`: the reset of an exit asks for the server's own capacity), a timer
  plays only inside a simulation, and no call is under way in a playback or
  below the boot screen.
- `HInv`: after *k* calls the server has counted at most *k* times the length of
  the longest simulation in hits (`Done` leaves out the one that has asked and not
  been handled), and an operation remembers the hits the server has (`ToldOf`), so that
  one more hit is seen as one more.
- `SInv`: before its batch is handled, a simulation knows the server's state and
  its shadow has followed the operations drawn (`FollowedBy`); the dashboard's
  LRU, on strings, mirrors the entries of the cache operation by operation
  (`Mirrors`), so that after the batch the shadow is that of the last state and
  each step is judged by the states around it as the server took it
  (`JudgedTruly`).

### Only model-checked

Every invariant, safety property and refinement that a run checks is a theorem.
What is left to TLC is liveness under fairness: `AllDelivered`,
`ShutdownTerminates`, `BenchmarkEnds`, `Served`, `AutoPlayEnds`. The proof system
has no rules for `ENABLED`, on which fairness rests. The three violated
properties of section 5 are counterexamples and have nothing to prove.

## 5. What disagrees with the documentation

- `async_cache.h:103` says that the drain flushes pending PUTs. `running_` is
  stored and loaded with `memory_order_relaxed`, so the worker may see it turn
  false before it sees the last `tail_` stores, find the inbox empty and end
  (`async_flush`). The worker's cache is destroyed right afterwards, so that no
  caller can observe the loss; a release store and an acquire load would make
  the comment true. On x86 hardware the stores arrive in order.
- `main.cpp:211` says that the display shows the original strings. The registry
  keeps one string per number, the one typed last in any place, so an entry put
  as `01 = 1` is displayed as `1 = 1` (`cli_originals`). What does hold is
  `ShownStringsReach`.
- `app.js:465` says that the boot screen resets to normal mode underneath.
  `showBootScreen` clears `inSimulation`, but a simulation whose answer is still
  awaited sets it again below the boot screen (`dashboard_reboot`, whose shortest
  trace this is), and the timer of a playback is left running, where `exitSim`
  stops it: it goes on rendering simulated states below the boot screen and after
  the boot. What does hold is `AutoPlayEnds`.
- `README.md:124` says the worker is locked to core 0; `async_cache.h:127`
  chooses the last core. Affinity has no state to model.

## 6. Not modelled

- `hit_ratio`, text layout, time measurement, core affinity, pauses and padding:
  they do not change the state that any property is about.
- Capacities above 2^31 - 1, for which the `int32_t` links of the constructor
  would wrap: no caller in the repository comes near.
- `include/httplib.h`: third-party, and unused.
- Markup, animation and the wording of the dashboard's log; `misses`,
  `evictions` and the ratio in the JSON.
- HTTP framing, URL encoding and the files the server hands out. `recv` is called
  once with 4095 bytes: a request is modelled as arriving whole.
- Memory: any `int` is granted as a capacity of `/api/reset`, of which a large one
  would throw `bad_alloc`.
- In `Dashboard`, requests for the state that reach the server late (nobody
  notices), and for the busy user late requests at all: his failed calls are lost.
- `lru_cache::get_json_state`, which `web_server.cpp` calls and `lru_cache.h` does
  not declare (`CMakeLists.txt` does not build the server), is external: it is
  modelled as `display` with a formatter, from what the dashboard reads.
- `benchmark_lru_cache.cpp`, a sequential loop over the cache core.

## 7. Plan

Done: 1. `LruCache`, its abstraction, and the proofs of its structure and of the
refinement; 2. `SpscQueue`, with its safety and its refinement proved;
3. `AsyncCache`, with its answers proved, and `AsyncBenchmark`; 4. `StringCache`
and `Cli`, with what is shown proved; 5. `WebApi` and `WebServer`, the same;
6. `Simulation` and `Dashboard`, with types for any user, the capacity and the
screen for users whose calls overlap, and what a patient user is told proved.
Next:

7. the safety side of liveness: for `Served` and `ShutdownTerminates` a measure
   that every step of loop and worker lowers, as an action property that can be
   proved, so that only the fairness argument itself stays with TLC;
8. `AbstractLru` in place of `LruEntries` under `StringCache` as a refinement of
   its own, should the server ever run the real object next to its registry;
9. what HIT and MISS mean for calls that overlap: which answers the log gets
wrong, and that it recovers with the first call that is alone.
