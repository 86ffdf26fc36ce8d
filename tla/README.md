# TLA+ models of the ACPLT/KS connection manager and its helpers

This directory holds TLA+ models of the code under `src/acplt/trunk`, with the
TLC configurations that check them. The most important part is
`ks/src/connectionmgr.cpp`. All paths below are relative to `src/acplt/trunk`.

## 1. Inventory

### Components and their state

| Component | Source | State | Operations |
|---|---|---|---|
| Intrusive doubly linked list node `_PltDLinkedListNode` | `ks/src/connectionmgr.cpp` 61-90 | `_prev`, `_next` of every slot and of three sentinel heads | `addBefore`, `addAfter`, `remove` |
| Connection manager `KssConnectionManager`, dense build | `connectionmgr.cpp` 94-697 | `_connections[fd]` slots (`_connection`, `_last_io_mode`, `_best_before`, `_fd`), `_readable_fdset`, `_writeable_fdset`, the timeout list `_active_connections`, the list `_serviceable_connections`, `_connection_count`, `_serviceable_count`, `_io_errors`, `_io_rx_errors`, `_io_tx_errors` | constructor, destructor, `trackCnxIoMode`, `getFdSets`, `getEarliestTimeout(Span)`, `processTimeout`, `processConnections`, `getNextServiceableConnection`, `reactivateConnection`, `addConnection`, `removeConnection`, `resetConnection`, `lookupConnection` |
| Hash-table index (`PLT_CNXMGR_USE_HT`) | `connectionmgr.cpp` 122-139, 517-531, 550-597, 622-662 | buckets `_hash_table[i]` with `_overflow_table`, `_used`, `_size`; the free list `_free_entries` | the same methods, with the slot found through the hash |
| Connection `KssConnection` | not under `src/` (`ks/connection.h`) | its fd, io mode, state, timeout, auto-destroy flag, back reference to its manager | `send`, `receive`, `reset`, `getIoMode`, `getState`, `shutdown`, `thisIsMyConnectionManager` |
| Priority queue `PltPriorityQueue<T>` | `plt/include/plt/priorityqueue_impl.h` | `a_elems[0..a_capacity)`, `a_size`, `a_capacity`, `a_growsize` | `add`, `removeFirst`, `remove`, `locate`, `grow`, `downheap` |
| Variable sorter `KscSorter`, `KscSorterBucket` | `ks/src/sorter.cpp` | a hash table from (server, AV module) to buckets of variables | `sortVars`, `removeFirst`, `removeMatchingBucket`, bucket `add`, `getSortedVars` |
| XDR helpers | `ks/include/ks/xdr.h` | no state of their own: the caller's pointer `*pp` and the objects the factories put on the heap | the `xdr_<class>` stub of `KS_IMPL_XDR_C` (`XDR_FREE`/`XDR_ENCODE`/`XDR_DECODE`), the `xdrNew` factories of `KS_IMPL_XDRNEW`/`KS_IMPL_XDRCTOR` and of `KS_BEGIN_IMPL_XDRUNION`/`KS_XDR_MAP`/`KS_END_IMPL_XDRUNION` |
| `KscHostEnt`, `tclient.cpp` | `ks/include/ks/hostent.h`, `ks/examples/tclient.cpp` | an address array; nothing | copy and accessors; includes only |

### How the parts interact

The server's main loop owns one manager. It registers connections
(`addConnection`). Each poll cycle it takes the fd sets (`getFdSets`) and the
time to the earliest deadline (`getEarliestTimeoutSpan`) and blocks in
`select()`. If `select()` timed out it calls `processTimeout`. Otherwise it calls
`processConnections` with the fds `select()` left in the sets. Then it takes the
connections that need service one by one (`getNextServiceableConnection`),
runs the RPC layer on each, and hands each back (`reactivateConnection`).

The manager never interprets a connection's state. All it sees is the io mode a
connection returns from `send()`, `receive()`, `reset()` and `getIoMode()`.
`trackCnxIoMode` turns that mode into fd-set bits and list membership:

- `READABLE` and `WRITEABLE` set the fd-set bits.
- `ATTENTION` moves the slot to the serviceable list.
- `NEED_TIMEOUT` links the slot into the deadline-sorted timeout list.
- The `HAD_*ERROR` flags are counted.
- When `WRITEABLE` has just been switched on, the manager calls `send()` again at
  once (the "fast write") and tracks that result recursively.

`DEAD` from `send()` or `receive()` inside `processConnections` destroys an
auto-destroyable connection and resets any other connection.

The priority queue, the sorter and the XDR macros do not interact with the
manager. They are separate utilities of the same library.

### What is hard

The manager is single threaded, so there are no data races. The hard parts are:

- **Order of calls inside one method.** A loop over fds, or over the timeout
  list, calls out to a connection. That call can remove or relink the slot
  that the loop visits next, or one that it visits later.
- **The mode protocol.** Most bits are acted on only when they change.
  `ATTENTION` is acted on every time. A long sequence of legal modes can
  therefore leave the lists, the counters and the fd sets disagreeing with
  the slots.
- **Reuse of fds and slots.** A slot freed by `removeConnection` keeps its stale
  `_last_io_mode` and `_best_before`.
- **Time.** Deadlines are `now + timeout`. `processTimeout` relies on the list
  being sorted.
- **Allocation failure** in the hash-table build, the priority queue, the
  sorter and the XDR factories, where a decode may also fail halfway.

### Properties that make each component correct

- Timeout list: it is sorted by deadline. Every connection that needs a
  timeout is on it. A due item leaves it or gets a new deadline.
- Fd sets: they mirror the last modes of the registered slots.
- Lists: they contain only registered slots. The spec wants the serviceable
  list FIFO and its count equal to its length. The code has neither, but the
  count never falls below the length.
- Counts and back references: `_connection_count` is exact. A connection's
  back reference is set exactly while it is registered. No slot holds a
  deleted connection.
- `processConnections`: it never calls through an empty slot. A DEAD
  connection is never left unhandled.
- The fast write: its recursion is bounded.
- Hash index: it is a partial map from fd to slot, with no slot given to two
  fds. The free list and the buckets together partition the slots. It never
  writes outside an overflow table.
- Priority queue: it keeps the heap order. The multiset of elements is
  preserved. `removeFirst` returns the minimum. `remove(x)` finds an x that
  is there. No access falls outside `a_elems`.
- Sorter: every selected variable lands in exactly one bucket, the bucket of
  its key. A variable that could not be placed is reported by `sortVars`
  returning false.
- XDR stubs: a decode either hands the caller a fully decoded object or
  returns false having allocated nothing. `XDR_FREE` releases the object and
  clears the pointer.

## 2. Modules

### `ConnectionManager.tla`: the dense-table manager

**State.** One variable per member of the class:

| Variable | Models |
|---|---|
| `conn`, `lastMode`, `bestBefore` | `_connection`, `_last_io_mode`, `_best_before` per fd |
| `active` | `_active_connections` |
| `serv` | `_serviceable_connections` |
| `rdSet`, `wrSet` | the two fd sets |
| `cnxCount`, `servCount` | the two counters |
| `errs` | the three error counters |

Connection-side state that the manager changes:

| Variable | Models |
|---|---|
| `mgrOf` | the back reference set by `thisIsMyConnectionManager` |
| `deleted` | connections that were shut down and deleted |
| `overrun` | a fast write nested deeper than one `send()` |

Environment:

| Variable | Models |
|---|---|
| `now` | the clock |
| `pc` | the loop in progress |

The lists are sequences of fds, head first. `Unlink` is `_PltDLinkedListNode::remove()`.

**Helpers.** `TrackCnxIoMode` is `trackCnxIoMode` as a function from state to
state, so a method that calls it several times composes the calls in code
order. `TimeoutInsert` keeps the backward walk of lines 224-232, including the
start node read before `item.remove()`. The fast write consumes the result of
the next `send()` from its argument `fws`. A fast write that would need a second
nested `send()` sets `overrun`.

**Actions.** Every public method is one action, and it is enabled only while no
loop runs: `AddConnection`, `RemoveConnection`, `ResetConnection`,
`GetNextServiceable`, `Reactivate`.

`processConnections` and `processTimeout` call out to a connection once per fd.
Each of them therefore starts a loop (`ProcessConnections`, `ProcessTimeout`).
Each iteration is a step (`IoStep`, `TimeoutStep`) that nothing else can
interleave with:

- `IoStep` handles the lowest remaining fd, writables first. An empty slot there
  is the null dereference of line 394 or 433, and it ends the process
  (`pc = "crashed"`).
- `TimeoutStep` reads the next node before it handles the current one, as the
  code does.
- `Tick` advances the clock between calls.

**Inputs.** What a connection returns is chosen with `\E` from constant sets:

- `IoModes` for `send()`, `receive()` and `getIoMode()`.
- `ResetModes` for `reset()`.

A connection is registered alive, so `getIoMode()` at registration never says
`DEAD`. Whether a connection is dead at `reactivateConnection` is read from the
`DEAD` bit of its `getIoMode()`.

`MC_ConnectionManager.tla` instantiates the model:

- **Connections.** Three. `c1` and `c3` share fd 0. This gives duplicate
  registration and slot reuse. `c1` and `c3` are auto-destroyable (TCP server
  connections). `c2` is not.
- **Table.** Two slots.
- **Timeouts.** `c1` 2, `c2` 1, `c3` 1. So an auto-destroyable connection and
  a connection that is not both come due, and a later insertion can sort in
  front of an earlier one.
- **Clock.** `MaxTime = 1`.
- **Counters.** `MaxErrors = 1`, `MaxServCount = 3`. These caps are guards on
  every step (`Commit`).

The modes are dormant, readable, writable, readable with timeout, attention and
dead. In the core run, no mode is both readable and writable. That assumption
is dropped where it matters (`MC_NullDeref.cfg`).

**Fairness.** The two loops have weak fairness. The manager makes no blocking
call inside them, so once a loop has started it runs to its end. The caller's
own actions have no fairness, because the caller decides what to call.

### `PriorityQueue.tla` and `PriorityQueueSpec.tla`: `PltPriorityQueue<T>`

**State.** `elems` is `a_elems` as a function on `0..a_capacity-1`, so
`a_capacity` is the size of its domain. `size` is `a_size`. `ok` is what the
last `add`/`remove` returned, and `taken` is what the last `removeFirst`
returned. `call` is the last method with its argument. `memErr` records an
access outside `a_elems`.

**Helpers.** The index arithmetic is `size_t` modulo `2^W`: `LeftChild`,
`RightChild` and `Parent`. `Grow` is `grow()`: it copies `a_size` elements, and
every other cell of the new `T[]` holds any value of `Fresh`. The cells are
uninitialized, so for a built-in `T` they may hold any value. `Upheap` and
`Sift` (the loop of `downheap`) are `RECURSIVE` operators. `Locate` is
`locate()`, including its `if (rfound)` test. `Sift` returns the set of
outcomes of `downheap`. The one read that can leave the array is
`a_elems[lc]`. This happens when `last_parent` has wrapped because `a_size`
dropped to 0. `Astray` models what follows such a read. The value read is
undefined. Either `v` or that value is written into the in-bounds cell
`a_elems[k]`, and every later write of the loop falls past the array.
`memErr` records the stray read. The garbage left in the stale cell is what
the next wrapped `downheap` reads.

**Actions.** `Add(x)`, `RemoveFirst` and `Remove(x)`, for x in `Vals`. The
constructor's first `grow()` may fail, so `Init` has an empty array as well as
one of capacity `GrowSize`. A failing `grow()` in `add` is the disjunct that
returns false. `Ops` restricts which methods the caller uses.

**Abstract spec.** `PriorityQueueSpec` is a bag `contents` with the same `ok`,
`taken` and `call`. It takes two parameters: `Pick(b)`, the set of elements
`removeFirst` may return, and `Exact`, whether `remove(x)` may fail on a
present x. `PriorityQueue` instantiates it twice, with the bag of
`elems[0..size-1]` as `contents`:

- `Strict` (`Pick <- LeastOf`, `Exact <- TRUE`): a priority queue.
- `Loose` (`Pick <- MemberOf`, `Exact <- FALSE`): a container that never loses
  or invents an element.

**Bounds.** `W = 8` stands for the width of `size_t`. It is wide enough that
`0 - 1` wraps to a large index instead of -1, as it does in the code. Values
are `{1,2,3}`, so there are duplicates and ties. `GrowSize = 2` with `MaxCap =
6` (4 in the memory run) makes `add` grow twice and then fail.

### `HashIndex.tla` and `FdIndex.tla`: the `PLT_CNXMGR_USE_HT` index

**State.**

| Variable | Models |
|---|---|
| `free` | `_free_entries`, head first (a LIFO) |
| `tab[b]` | the used part of `_hash_table[b]._overflow_table`, as slot numbers |
| `size[b]` | `_size` |
| `alloc[b]` | the number of entries the table really owns |
| `slotFd`, `bound` | each slot's `_fd`, and the slots given to a connection |

`memErr` records a store past an overflow table.

**Actions.** Each action is the hash-table part of a method.

- `AddConnection(fd)`: the duplicate scan, the growth by `Step`, and taking the
  head of the free list (`Claim`). In the growth, `_size` is raised before
  `new`, and `new` fails when `AllocMayFail` holds.
- `RemoveConnection(fd)`: the scan, the `memmove` (`RemoveAt`), and pushing the
  slot back on the free list.
- `Lookup(fd)` is `getConnectionItem`.

Once `memErr` holds the behaviour is undefined. The model then only stutters
(`Halted`), and `call` stays as it was so that the crash is a stutter of the
abstract spec too.

**Abstract spec.** `FdIndex` is a partial map `reg` from fds to slots and a set
of free slots. `add` fails on a duplicate, when no slot is free, or when memory
runs out. `HashIndex` instantiates it (`Abs`) with `reg <- Reg` (each fd in a
table mapped to its slot) and `free <- ToSet(free)`.

`MC_HashIndex.tla` sets `GetHash(fd) == fd`. Fds `{1,3,9,4}` and three slots
give a table of 6 buckets with mask 5. So 1, 3 and 9 share bucket 1, and 4 is
alone in bucket 4. The code grows tables by 8. `Step = 2` scales that down,
so a bucket's table grows twice within three slots.

### `Sorter.tla`: `KscSorter` and `KscSorterBucket`

**What it models.** A sorter sorts the variables of a package and of all its
sub-packages into buckets, one per key (av module, server).

- **State.** `table` is the sorter's hash table, a function from the keys
  present to each bucket's list of variables. `valid` is the result of
  `sortVars`. `cur` is the bucket the caller holds. `out` counts the
  variables `getSortedVars` has handed out, per key. `failed` records whether
  an allocation failed. It is a history variable, not a program variable.
- **`Sort`.** `sortVars` calls nothing that could interleave with it, so the
  whole call, the constructor's, is one step. `Sort` picks its result from
  `SortVars(Root)`, the set of outcomes that mutually recursive operators
  compute:
  - the variable loop, `SortVar` and `SortVarList`, with `findAvModule`;
  - a sub-sorter per sub-package, `SubLoop`, which calls `SortVars`
    recursively;
  - the merge of its buckets in any hash order, `Drain` and `MergeBucket`,
    with `KscSorterBucket::add(hbucket)` as `MoveVars`.
- **Allocation failure.** Every allocation is a nondeterministic success or
  failure when `AllocMayFail` holds: the iterators, `new KscSorterBucket`,
  `table.add` and a list node.
- **Caller actions.** `RemoveFirst`, `RemoveMatchingBucket(k)` and
  `GetSortedVars`, whose array allocation may fail. The caller takes a new
  bucket only after emptying the one it holds.
- **Code not under `src/`.** The constructor and `KscSorterBucket::add(var)`
  are in `sorter.h`. They are modelled from their use: validity is the
  result of `sortVars`, and `add(var)` appends to the list and may fail.

**Reference.** `Expected(k, v)` counts the occurrences of `v` in the tree
that are selected and whose key is `k`. Its av module is found by
`NearestAvm`, which is written independently of `FindAvModule`. `Held(k, v)`
counts `v` under `k` in the table, in the caller's bucket and among the
variables handed out.

**Bounds.** `MC_Sorter.tla` uses three packages, Root, P1 and P2. P2 is a
sub-package of P1, and P1 of Root. There are six variables (one of them
clean with `DirtyOnly`), two servers and two av modules, placed so that:
- every branch of `findAvModule` is taken;
- a sub-package bucket of two variables is merged into an existing bucket;
- another bucket is entered as it is;
- a grandchild's bucket is merged through P1.

### `XdrStub.tla`: the XDR glue of `xdr.h`

**State.** `pp[s]` is the caller's pointer handed to stub `s`: `"plain"` for
a class using `KS_IMPL_XDRNEW`, `"union"` for a union base using
`KS_BEGIN_IMPL_XDRUNION`. `heap` maps each object on the heap to `"decoded"`
or `"partial"` (its constructor decode or its common part failed). `ret` is
the `bool_t` the last call returned, and `call` is the last call.

**Factories.** `NewDecoded` is `new C(xdrs, ok)` with `KS_IMPL_XDRCTOR`'s
constructor: `new` may return 0 (`AllocMayFail`), and the decode may fail.
`DropIfFailed` is the `if (!ok && p) { delete p; p = 0; }` that both
`KS_XDR_MAP` and `KS_IMPL_XDRNEW` expand to. `UnionNew` adds the union's
own paths: `xdr_enum` may fail, a typecode may have no `KS_XDR_MAP` case
(`Codes \ Mapped`), and `DecodeCommon` may fail after the variant decoded
(`CommonMayFail`: the inline `xdrDecodeCommon` returns true, and a base class
may override it).

**Actions.** `XdrDecode(s)`, `XdrEncode(s)` and `XdrFree(s)` are the three
cases of the stub's switch. `XdrFree` is the code as written: a null pointer
is "deleted" and `TRUE` returned, and a live object falls through into the
encode case. The encoder may fail, so encoding a live object returns either
result. `OwnerDelete(s)` is the C++ owner releasing a decoded object itself
(`delete p; p = 0`). The model's caller decodes only into a null pointer, the
RPC layer's convention.

**Bounds.** Three heap cells, one more than the two pointers can hold, so
that a fresh cell is always there and cells are reused. Two typecodes, one
mapped and one not. Every failure is enabled.

## 3. Runs

| Run | Cfg | Expect | What it shows |
|---|---|---|---|
| `cm_core` | `MC_ConnectionManager.cfg` | pass (297,772 states, about 70 s) | see below |
| `cm_nullderef` | `MC_NullDeref.cfg` | violation | An fd that is both readable and writable dies in the writing loop, and its connection is deleted. The reading loop then calls `receive()` through the empty slot. |
| `cm_stale_deadline` | `MC_StaleDeadline.cfg` | violation | `reset(true)` of a timed-out connection returns a mode that still has `NEED_TIMEOUT`. The slot keeps its expired deadline. |
| `cm_dead_orphan` | `MC_DeadOrphan.cfg` | violation | The fast-write `send()` returns `DEAD`. Nothing handles it, and the connection stays registered but unwatched. |
| `pq_strict` | `PQ_Strict.cfg` | pass | With only `add` and `removeFirst`, the heap stays ordered. `Locate` finds exactly the present elements. The queue implements the `Strict` priority queue, and `removeFirst` returns a minimum. This holds across a constructor whose `grow()` failed (capacity 0), a failed `grow()` in `add`, and the wrapped `last_parent` of a `removeFirst` that empties the queue, including the garbage that wrap leaves in stale cells. |
| `pq_bag` | `PQ_Bag.cfg` | pass | With `remove` as well, the queue still never loses or invents an element (`Loose`). |
| `pq_heap_remove` | `PQ_HeapRemove.cfg` | violation | `remove()` moves the last element into the hole and only sifts it down (line 280). After adding 1,2,1,2,3,1 and removing 3, a 1 sits under a 2. On such a heap `locate()` prunes the subtree that holds an element (line 131), so a later `remove(1)` can return false with a 1 in the queue. |
| `hx_core` | `HX_Core.cfg` | pass | Adds and removes of colliding fds, through two growths that may each fail, keep the slots partitioned (`IndexWellFormed`). Lookups are exact, and the index implements `FdIndex`: a failed add reports false and changes nothing. This holds up to the store past a table that `HX_Overflow.cfg` shows (below). |
| `sorter_core` | `MC_Sorter.cfg` | pass | With every allocation able to fail, no variable is put under a key other than its own, handed out twice, or invented (`NothingMisplaced`). When no allocation fails, the sorter is valid and every selected variable is sorted and handed out (`CompleteUnlessFailed`). |
| `sorter_lost_vars` | `Sorter_LostVars.cfg` | violation | `sortVars` reports success after losing variables (line 247). The sub-sorter's buckets for v3 and v6 fail to merge and are dropped. The merge of the next bucket succeeds and sets `ok` back to true. |
| `xdr_core` | `XDR_Core.cfg` | pass | Over any sequence of decodes, encodes, frees and owner deletes on a plain and a union pointer, with every allocation and decode able to fail, the heap holds exactly the objects the pointers hold (`NoLeak`), and every held object is fully decoded (`HeldAreDecoded`). |
| `xdr_free_leak` | `XDR_FreeLeak.cfg` | violation | `xdr_<class>(XDR_FREE)` on a decoded object neither deletes it nor clears the pointer (`FreeReleases`). The test at line 143 is inverted and the case falls through into `XDR_ENCODE`. |

Two more configurations reproduce out-of-bounds accesses. They are kept beside
the runs, but `PROJECT.json` does not list them, so the project's check does not
run them:

- `PQ_MemorySafe.cfg` (`PriorityQueue`, invariant `MemorySafe`):
  `removeFirst` on a one-element queue calls `downheap` with size 0.
  `last_parent` wraps (line 193), and the loop reads past `a_elems`.
- `HX_Overflow.cfg` (`MC_HashIndex`, invariant `MemorySafe`): `_size += 8`
  comes before `new` (line 570). After a failed growth, the next add to that
  bucket stores past the table, or through a null one.

The `cm_core` run covers every sequence of caller operations, poll cycles and
timeouts up to the bounds. It checks these properties:

- `TimeoutListSorted`: the timeout list stays sorted.
- `PollSetsMirrorModes`: the fd sets equal the readable and writable bits of
  the registered slots' last modes. This depends on `addConnection` resetting
  the stale mode of a reused slot.
- `ListedAreRegistered`: only registered slots are on a list.
- `ConnectionCountExact`: `_connection_count` is exact.
- `BackRefsConsistent`: back references are consistent, and no slot holds a
  deleted connection.
- `FastwriteBounded`: the fast write never nests more than once. The nested
  call always finds `WRITEABLE` in `_last_io_mode`, so the open question of the
  spec (section 9) is settled: the recursion depth is one.
- `ServCountCoversList`: `_serviceable_count`, which `processConnections`
  returns as the number of connections waiting, is never below the length of
  the serviceable list. A caller that calls `getNextServiceableConnection`
  that many times serves every waiting connection, and the decrement never
  wraps. The count does drift upwards. `trackCnxIoMode` counts every
  `ATTENTION` report, also for a slot already listed, and `removeConnection`
  unlinks a listed slot without a decrement.

Each property of `cm_core` has a mutant in `PROJECT.json`. The mutant is a
plausible bug of the code that TLC catches. The mutants are defined in the
module just before the definition they replace.

**Why the bounds are enough.** Two slots are the smallest table that can hold
two list entries, which sorting, order and reuse all need. Three connections
on two fds make an fd shared. One clock tick makes a deadline come due, while
a later registration can still sort in front of an earlier one. The counter
caps are above the largest values the violating traces need.

## 4. Not modelled, and the plan

Not modelled yet:

- The destructor, which leaves the back references of connections that are not
  auto-destroyable dangling.
- The read-only `getFdSets`, `getEarliestTimeout(Span)` and `lookupConnection`.
- Return values to the caller. For example, `reactivateConnection` returns
  `true` after deleting the connection.
- A connection's own mode after the untracked `reset(false)` in
  `reactivateConnection`.
- The hash-table index composed with the manager's lists and fd sets.
  `HashIndex` checks the index alone. The manager's side of each method is
  the same in both builds, and `ConnectionManager` checks it over the dense
  table.
- Whether a connection that reports `ATTENTION|NEED_TIMEOUT` must stay on
  the timeout list. `ATTENTION` unlinks it (line 209), and it is not put back
  while `NEED_TIMEOUT` stays set (line 214). The spec does not say which is
  meant, so no run states it. `cm_core` explores the behaviour, and it is
  listed as a hazard.
- The `PLT_SYSTEM_NT` loops of `processConnections` over `fd_array`.
- The order in which serviceable connections are handed out. The code is
  last in, first out, because a slot is linked after the list head and taken
  from the head. The spec (sections 4.3 and 8) says first in, first out.
  `ConnectionManager` models the code's order, but no run states an order.
- Liveness. With the weak fairness of `Spec`, both loops return to the
  caller: `pc # Idle ~> pc = Idle` held when checked once at `cm_core`'s
  bounds. That check needs over ten minutes, so no run states it.
- In `xdr.h`: the class declarations and `KS_DECL_XDRUNION` (declarations
  only), the `PLT_ASSERT` that the object's `xdrTypeCode()` matches the
  decoded typecode (a debug check on the user's `KS_XDR_MAP` lines), and the
  `default` case of the stub's switch (`x_op` has only three values). A
  decode into a pointer that still holds an object overwrites it (line 153).
  The callers are not under `src/`, and the model's caller keeps the RPC
  convention of decoding into a null pointer, so this overwrite is listed as
  a hazard and not checked.

`KscHostEnt` (`hostent.h`) holds an array of addresses copied from a
`struct hostent`. Its copy constructor and assignment copy the array, and its
accessors read it. The one function that fills it, `copy_ips`, is not under
`src/`. There is no state machine or failure path to check. `tclient.cpp`
under `src/` consists only of `#include` lines.

The plan, most important first:

1. **Done:** `ConnectionManager`, `PriorityQueue` (with its refinement of
   `PriorityQueueSpec`), `HashIndex` (with its refinement of `FdIndex`),
   `Sorter` and `XdrStub`.
2. **`ConnectionManager`.** Add the destructor, a caller with a per-connection
   state and the return values of `reactivateConnection`/`removeConnection`.
   Add liveness: both loops terminate, and every due connection is eventually
   handled under a fair main loop.
3. **`XdrStub`.** A caller that reuses its pointer after `xdr_free`, which
   makes the leak of line 143 meet the overwrite of line 153.
