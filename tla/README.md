# A TLA+ verification project for inac

inac is a C library (`src/*.c`, `include/libinac/*.h`) of building blocks for
low-latency programs: memory pools, containers, a shared-memory ring buffer
(ULLC), shared-memory flags and counters, process supervision, cron, timers,
logging, files, network, strings. The code that is hard to get right is the
code in which several processes touch one piece of shared memory without a
common lock, and the code in which a long sequence of legal calls shapes a data
structure. This project models those parts in TLA+, checks them with TLC on
small instances, and proves the central properties with TLAPS for every value
of the parameters.

Paths below are paths of the repository (`src/ullc.c` and so on).
`PROJECT.json` lists the components, the runs, the line of code each definition
stands for, the hazards the properties are aimed at, and for every property a
small change of the code that the property detects.

## 1. The system

### 1.1 Components that carry the logic

| Component | State | Operations | Interacts with | What is hard | What makes it correct |
|---|---|---|---|---|---|
| ULLC ring, `src/ullc.c` | ring header (magic, cursor, next_ptr, overrun mode), tables of consumer and producer cursors, slots, all in shared memory | open and initialise, join, claim, commit, get, seek, leave, reset, overrun switch | shared memory, semaphores; used by hash table statistics and the monitors | many processes, no lock, crash of any of them at any instruction | nobody reads an item that is not committed; a cursor has one owner; an item is intact until its slot is claimed again; claims return; every item can be read |
| ULLC signalling, `src/ullc.c` | System V semaphore, one identifier per context | create, set value, release, wait, remove | kernel | wake-ups lost between `get` and `wait`, removal by one context of a set the others use | no wake-up is lost |
| IPC flags, `src/ipc.c` | flag word, lock word, a reference counter per flag, in shared memory | set, unset, clear, dump, is_set, wait | shared memory, timers | a lock that does not exclude, a swap whose arguments are two loads, death inside a call | a flag is on exactly while it has references; calls and waits return |
| IPC counter, `src/ipc.c` | one 64-bit word in shared memory | increment, decrement, set, get | shared memory | three separate accesses per call | an undisturbed call is exact and says so |
| Hash table, `src/hashtable.c` | buckets, each an array of nodes that grows; entry count; iterators | set, get, remove, clear, foreach, iterate | memory pool | long call sequences: removed nodes keep their key and are used again, buckets grow under an iterator | get agrees with the map the calls describe; iteration meets each entry once |
| Memory pools, `src/memory.c` | chain of chunks, a front and a back position in each; reference count in the first word of a shared segment | dalloc, nalloc, ralloc, reset, clear, shrink, merge, open and close of shared memory | every other component | allocation from both ends; open and close by several processes; crash of a holder | live allocations never overlap; a segment lives as long as someone has it open |
| Processes and state machines, `src/process.c`, `include/libinac/fsm.h` | records with a state, a process id and an exit code, recycled through a table | new, start, stop, reset, get_exit_code, free; the cron's callbacks | kernel, cron, hash table | the child ends by itself between any two calls; events that do not fit the state; forks that fail, waits that are interrupted | a record hands out the exit code of its own child and no other; a start that waits leaves no child behind |
| Lists, `src/list.c` | doubly linked nodes, recycled nodes | insert at both ends, remove, concat, sort, resize, foreach, find | memory pool | long call sequences, recycling | both directions list the same nodes; a node is in the list or free, never both |
| Cron and timers, `src/cron.c`, `src/timer.c` | jobs with next times, the wheel | parse, add, run, advance | clock | clock jumps, catch-up | a job runs once per due minute |
| Logging, `src/log.c` | rules, buffer of each rule | write, flush, reopen | files | buffer at its limit | no message is lost or cut |
| Library start and stop, `src/lib.c` | init counter, clean-up handlers, options | init, exit, options | all | repeated and nested calls | initialised exactly once |
| Configuration files, `src/conffile.c` | sections and keys | read, get | hash table, lists | uniqueness across sections | what was read is found |
| File cursor, `src/file_cursor.c` | window over a file | map, move, read, write | mapped files | window borders | a read returns what was written |

The remaining parts have no protocol of their own: errors (`src/error.c`,
encoding of return codes in a thread-local word), files, directories and mapped
files, network, strings, clocks and stopwatch, console, compression, hash
functions, CPU information, the LuaJIT adapter, the test and benchmark runners,
portability headers, the tools under `tools/` and the vendored code under
`contribs/`. They pass through to the operating system or to third-party code,
or are pure functions on bytes.

### 1.2 Module for each part

| Module | Models | Run modules and proofs |
|---|---|---|
| `Ullc` | the ring | `MCUllc`, `UllcProofs` |
| `Broadcast` | what the ring promises its readers (abstract); `Ullc` implements it | checked from `Ullc` |
| `UllcSignal` | the semaphore of the ring | `UllcSignalProofs` (runs on the module itself) |
| `IpcFlags` | flags, and waiting with a timer event | `MCIpcFlags`, `IpcProofs` |
| `IpcCounter` | counters | `IpcProofs` (runs on the module itself) |
| `SharedMemory` | the named segment under the ring, the flags and the counters: open, size, count, close | `MCSharedMemory`, `SharedMemoryProofs` |
| `Mempool` | memory pools on the heap | `MCMempool`, `MempoolProofs` |
| `Hashtable` | hash table and iterator | `MCHashtable`, `HashtableProofs` |
| `List` | linked lists with recycled nodes | `MCList`, `ListProofs` |
| `Process` | supervised child processes and their state machine | `MCProcess`, `ProcessProofs` |

`SharedMemory` ends where `Ullc`, `IpcFlags` and `IpcCounter` begin: a process
that is attached there is one that may take steps here. `Ullc` starts from a
segment that exists and has its size.

## 2. How the modules correspond to the code

**Grain.** In the modules about shared memory a step is one access of the code
to a shared word, because another process can run between any two. Where two
accesses are joined, a comment at the action says why nobody can tell. In
`SharedMemory` a step is one system call or one access to the count. In
`Hashtable`, `Process`, `Mempool` and `List`, which one caller uses without a
lock, a step is a whole call.
Atomic operations follow `include/libinac/portable.h`: `INC` and `DEC` return
the old value and `SWAP` is a compare-and-swap that returns the old value. What
a call reads into locals is kept in variables of the same name, since the
interesting failures come from locals that are out of date.

**Ullc.** `magic`, `version`, `semkey`, `cursor`, `next_ptr`, `overrun_enabled` and
`alive_producers` are the ring header; `c_alive`, `c_cursor`, `p_alive` the
cursor tables; `item` the slots, whose content is reduced to the position it
was written for. `version` stands for all parameters the opener compares.
`pc` says where each process is in which call. `Open`, `InitMagic`, the six
actions of `InitFields` and `Compare` are `__ina_ullc_ring_create`: each word is
stored in a step of its own and in the order of the code, the magic number first
and the semaphore key last. Only the five parameters that are compared together are
one step (`InitParams`), because an opener gets on only when all five are there.
`SeekPos` is what consumers ask `ina_ullc_consumer_set_pos` for, which takes
positions below -1 as they are. `POffset` follows the pointer arithmetic in
`ina_ullc_producer_new`, which tries entries 0, 1, 3, 6 and so on.
`ProducerClaim`, `ClaimTest`, `ClaimScan` are the loop of
`ina_ullc_producer_claim` with its locals; `ProducerWrite` is the application
(external). `ConsumerGet`, `ConsumerGetIdx`, `ConsumerGetInc` are the three
accesses of `ina_ullc_consumer_get`. A crash of a process is the behaviour in
which it takes no further step; nothing in a safety property depends on it
going on. Not modelled: `ina_ullc_producer_reset`, `ina_ullc_get_ring_info`,
`ina_ullc_wait`.

**UllcSignal.** The ring is reduced to the number of committed items and the
number each consumer has read; `commit` and `get` are single steps here, because
`Ullc` has their insides. The kernel's part is external and modelled from its
use: `semget` with the ring's key, `SETVAL`, `semop` with `SEM_UNDO` (the
adjustment is kept in `undo`), `IPC_RMID`, and the end of a process
(`ProcessExit`), at which the kernel applies the adjustment (`ExitAdjust`): it takes
the tokens of a producer back and gives those of a consumer. `split` and `ended` are
history variables: a new set was made while a producer still holds the identifier of
the removed one; a producer's process ended attached, and no producer has set the
value since. A context that opened the ring before its key was stored has a private
set and is not among the processes of this module.

**Broadcast.** The abstract specification of the ring for its readers: a number
of published items and the next item of each reader; a reader is handed
published items one by one, and does not stop while there are more. `Ullc` maps
to it by its cursors (`IsBroadcast`): what is published is what the ring's cursor
says, and a reader's next item follows from its cursor. It speaks of positions;
that the item found at a position is the right one is `ItemIntact`.

**IpcFlags.** `l`, `v`, `c_ref` are the lock word, the flag word (as the set of
flags that are on) and the counters. `EnterLock` is one round of
`while (0 == SWAP(l, 0, 1))`. `SwapLoad`, `SwapLoad2` and `Swap` are one
`INA_ATOMIC_SWAP(v, v, v | mask)`: two loads for the arguments, and a swap whose
outcome nobody looks at. `RefLoad` and `RefStore` are the plain `++` and `--`.
`Die` ends a process inside a call. Writers call without end. `callers` and `due`
are history variables: the writers that have called, and the counters the calls of
the only caller asked for. A waiter has a timer (`src/timer.c`) with one event:
`WaitArm` makes it (`TimerEventNew`) or returns the error, `WaitTimer` asks for it
(`TimerNextEvent`), and a return frees it (`TimerEventFree`). `TimeOut` is the clock
that reaches the time of the event (external).

**IpcCounter.** `c` is the word, `Load`, `Load2`, `CounterSwap` and
`Reload` the accesses of increment, decrement and set. `alone` is a history variable: the
processes since whose first load nobody else changed the word. `UINT64_MOD` is
2^64 in the code and a parameter here.

**Hashtable.** A node is its key bytes and its data pointer; a bucket is an
array of nodes with `cnt` used and `max` allocated. The scans are translated
with their three peculiarities: they end at a node whose first key word is zero
(`Reached`), they compare the length of the key asked for (`Match`), and `set`
looks at removed nodes while `get` and `remove` do not (`InUse`). `set` on a
full bucket grows it before it looks for the key. `Clear` resets the counts and
leaves keys and data. The iterator is a bucket, the array its pointer points
into and the node in it; `IterWild` is the step in which the code would follow a
pointer into an array that was replaced, and stops the model's iterator. `map`,
`clean` and `seen` are history variables. The hash function is a parameter.

**SharedMemory.** One name, the segments that were made under it one after the
other, and processes: owners create with `O_CREAT | O_EXCL` (`cf` is `excl`),
guests only open. `use` says what the name is for: a producer of a ring whose
exclusive open failed opens again with `O_CREAT` alone (`OpenAgain`,
`ullc.c:152`), the creator of flags or a counter gives up. `Truncate`, `Map`,
`Inc` are the steps of `__ina_shm_open` after `shm_open`, the first two of which
may fail and then unlink the name (`Undo`); `Dec` and `Unlink` are
`__ina_shm_close`. `Fault` is the kernel's signal to a process that touches a
segment which has no size (external), `Die` a process that is killed at any
point. `lost`, `crashed`, `orderly` and `deaths` are history variables.

**Mempool.** A chunk has its `size`, `pos` (the first free byte) and `end` (the
first byte taken from the back); a pool is its first chunk, `child` links the
chain and `current` is where the pool allocates. Blocks keep the size the caller
asked for, since `ralloc` is told that size and rounds it again. `DallocFits`
walks down the chain from `current`, `DallocGrows` adds a chunk at its end,
`NallocGrows` puts one below `current` whatever is there. `ralloc` is four
actions for its four outcomes, and works on the first chunk, as the code does.
`RallocSpills` is the outcome in which the block does not fit: the code makes a chunk
and all the same returns the memory at the front of the first chunk and moves the
front past it, over blocks from the back or past the end of the chunk; pool and
blocks stay in use, as in `tests/test_mempool.c`. `Shrink` leaves the caller its
blocks: they lie in memory that is rewound, or, when nothing was taken from the back
of the first chunk, in memory that is freed. `Write` is the caller, who may write to
a block it has at any time. `blocks`, `dirty` (the bytes that are not zero) and what
calls left behind are history variables: `stale` (rewound and not filled), `mixed` (a
block may be cut from bytes of another one), `dropped` (chunks lost and not freed),
`torn` (first chunk freed by a shrink) and `outside` (the caller had memory past the
end of a chunk, or freed memory). Not followed: calls on a torn pool, whose descriptor
is gone, and what a write outside a chunk changes there.
`ina_mempool_info` only reads.

**List.** `head`, `count`, `first_free` (the stack of recycled nodes),
`max_recyclable` and `mp` are the fields of a list; `next`, `prev` and `data`
those of a node, and `home` the pool it lies in. The prev of the first node is
the last one, which insertion at the end, removal and `concat` use. `MergeSort`
is the recursion of `__ina_mergesort`, as a function of how many nodes there are and
where they begin; `Merge` counts how many of the first `k` nodes come from the first
half, one for each call of `__ina_merge`; `Nexts` and `Prevs` are the links they
leave. `Resize` copies the nodes to a new pool and frees the old one,
with the nodes other lists have there. `seq`, `skewed`, `rebuilt` and `fault`
are history variables. `fault` says what the program did to its memory, and the model
takes every step that gets it there: `InsertEnds` and `ConcatEnds` are the calls that
follow a null pointer, because sort or resize left the first node without prev or
because the list gave its pool away, and end the program (`null`); `Recycled` fills
the array of recycled nodes from index 1 on, so that the last entry lies past the
array, where it is kept as stored or hits something (`outside`); a list may be left
with nodes in a freed pool (`freed`). A program with a fault is not followed further.
Neither is a list after `ina_list_insert_head` put a node before its first one, which
leaves the head where it was (`skewed`), other than to its being freed.

**Process.** One thread calls the functions of `process.c` on the records of a
context, and the children it forked end when they like. `desc`, `state`, `pid`,
`exit_code`, `last_rc` are the fields of `ina_process_t`; of the descriptor only
`INA_PROCESS_CF_WAIT` matters. `OnStart`, `OnStop` and `OnReset` are the
transition table, whose error transitions do nothing and change the state all
the same; an action sets the state the table says after the handler has run, as
`fsm.h` does. A start is the three actions for a state that does not fit, a fork
that fails and a fork that succeeds; with `INA_PROCESS_CF_WAIT` the return of
`waitpid` is a step of its own, so that the child can run in between.
`WaitInterrupted` is `waitpid` failing because a signal handler returned: `lib.c`
installs its handlers without `SA_RESTART`, and the code does not look at the
result. `get_exit_code` is four actions for the answers of `kill` and `waitpid`.
`Targets` follows the kernel's rule for process id 0, which a record without a
child has: all children of the process group. The kernel's table (`status`,
`code`) is external. `mine`, `misfit`, `interrupted` and `astray` are history
variables that say which calls a record saw; the properties are stated for the
records they leave out. Process ids are never used twice in the model (the
kernel goes through its whole range before it does). Not modelled:
`ina_process_ctx_free`, `ina_process_exec` and `exec_and_wait` (which are `new`,
`start` and `get_exit_code` in a row), `ina_process_should_be_running` and the
process statistics, which only read, and the Windows branch.

## 3. Runs

Every run finishes within three minutes.

| Run | Instance | Shows |
|---|---|---|
| `ullc_reset` | 1 producer, 2 consumers for 1 cursor, 1 item, seeks to any position from -2 on, from an empty segment, with `ina_ullc_reset_ring` at any time | `TypeOK`, `CursorExclusive`, `AttachedInitialised` |
| `ullc_producers` | 2 producers, 1 consumer, 2 slots, 3 items; all come and leave, the consumer seeks, overrun is switched | `CommitWindow`, `NeverAhead` |
| `ullc_streaming` | 1 producer, 2 consumers, 3 slots, 7 items, both overrun modes, fairness | `ItemIntact`, `RingMonotone`, `ClaimReturns`, `IsBroadcast` |
| `ullc_signal` | 2 producers and 1 consumer that come, go and end without freeing their context, 3 items, 3 semaphore sets, fairness | `TypeOK`, `WakeUpPending`, `ItemsRead` |
| `ipc_flags` | 2 writers that call without end and may die, one about both of 2 flags and one about the second, 1 waiter, fairness | `TypeOK`, `RefExact` and `ReferencedIsOn` as long as one writer has called, `CallsReturn`, `WaitReturns` |
| `ipc_counter` | 2 processes, 2 calls each, a word of three values | `CounterTypeOK`, `UndisturbedExact` |
| `hashtable` | 3 keys, 2 of which collide, 2 values, buckets that grow from 0 to 2 to 4 nodes, an iterator | `TypeOK`, `LookupAgrees`, `EntriesExact`, `IterComplete` |
| `process` | 2 records, 2 children, 2 exit codes, calls in any order | `TypeOK`, `ExitCodeExact`, `ExitCodeGenuine`, `WaitedGone` |
| `ullc_overrun` (violation) | 1 producer, 1 consumer, 2 slots | `NoOverrun` fails |
| `shared_memory` | 2 owners and 2 guests, 3 segments, 1 death; the calls may fail | `TypeOK`, `RefExact`, `NameKept`, `NoLeak` |
| `mempool` | a dynamic and a fixed pool of 4 bytes, requests of 1 and 3 bytes, 3 chunks, 2 blocks in use | `TypeOK`, `BlocksApart`, `FreshZero`, `ChunksHeld` |
| `list` | 2 lists over 4 nodes, 2 data, up to 2 recycled nodes | `WalkAgrees`, `BackLinks`, `NodesApart` |

**Why the bounds are enough.** Two slots and three items (seven and three in
the streaming run) make the producer come round to every slot again, which is
the only thing that a longer run repeats; `ullc_reset`, which is about opening, needs
one item to have positions that an initialisation takes back; two consumers are the smallest number
that can compete for a cursor, and one cursor for two consumers is the smallest
table that is full. Two producers meet in every pair of steps of `commit`.
Two calls of the counter for each of two processes and three counter values let a
word wrap at both ends and let a value come back to what it was between two loads;
the writers of the flags are not bounded in their calls, only in the references the
sole one gives a flag. Two
flags give the loops over the flags a first and a last round, and the initial
flags may differ, so that one call finds them with different counts.
A bucket that may hold four nodes with an increment of two grows twice, once
while it has removed nodes. Two children let a record have a present child and
a forgotten one, or two records have one each; the two exit codes differ, so a
code of the wrong child shows. Three segments let a process that is late unlink
the name of a second one while a third is made; two owners are the smallest
number that compete for a name, and the second guest is the one the first one's
release can harm. A pool of four bytes in chunks of two or more fills after two
requests, so chains grow, are reset and grow again; the third chunk is the one the
dynamic pool makes, be it for an allocation or for a reallocation that does not fit,
or the one that takes the place of a merged pool; two blocks at a time are
what it takes to overlap, and rounding leaves bytes no one asked for. Four nodes
make a list long enough for both halves of a sort to have an inner node, or two
lists of two that are joined while one has a recycled node; of two recycled nodes one
is kept inside the array and one past it. The theorems of section 4 remove the bounds for the
safety properties they state.

**Symmetry** is used for the consumers in `ullc_reset`, the records in `process`,
the owners and the guests in `shared_memory`, and the lists and the nodes in
`list`, which check invariants only; no constant of those runs tells two of them
apart. In `hashtable` it is used for the two values, which no property names.

**Deadlock** is checked in the runs of `Ullc`, `Hashtable` and `Process`. It is off where
the bound on calls, chunks or segments ends every behaviour (`IpcCounter`,
`Mempool`, `SharedMemory`), in `List`, where a program stops that follows a null
pointer, in `IpcFlags`, where all writers may be dead, and in `UllcSignal`, in which a
consumer may really wait for ever when nobody commits.

**Fairness.** Weak fairness of the steps of a call that a process is in: the
scheduler runs every live process. Nothing makes a process start a call, with
the exception of a consumer's `get`, because the loops around it poll
(`tools/ullc_monitor.c`, `tests/test_ullc.c`). A writer that died takes no step
and is not assumed to; nor is a writer assumed to stop calling, unless a property
says so. The clock of a timer reaches the time of the event. `SWait` has strong fairness: the kernel
does not pass over a waiter for ever when tokens keep coming. In the streaming
run the producer too keeps claiming until the bound on items is reached, which
gives the consumers something to catch up with; neither property needs it to go
on. No fairness is assumed of joins, seeks, leaves or of a commit of
`UllcSignal`.

### Where the code disagrees with its documentation or tests

* `ullc_overrun`: `ullc.h:224` says "Disable overrun. Producers wait for slow
  consumers." `ina_ullc_producer_claim` compares the largest consumer position
  with its own, both modulo the number of slots, and goes on while a slow
  consumer still has the slot to read.

Met while modelling, modelled where a module covers the code, and not the
subject of a run:

* `ullc.c:180`: the entry of a producer in the table is reached by advancing the
  pointer by the running index each round; from the third producer on it lies
  past the table.
* `ullc.c:190`: a semaphore that cannot be created frees the context and the
  call still returns success.
* `ullc.c:250`: `alive_producers` is decremented and never incremented, so the
  last producer never clears the magic number, which `ullc.c:249` announces as
  "Force re-initialization on last producers". `RingMonotoneHolds` rests on it
  (`RingUp`): a ring that all producers left goes on where it was.
* `ullc.c:418`: `ina_ullc_consumer_set_pos` takes a position below -1 as it is; on an
  empty ring the test of `get` then passes. `NeverAhead` and `ItemIntact` are proved
  for seeks to -1 and to positions of the ring.
* `ullc.c:524`: the semaphore key is stored after everything an opener compares and is
  not compared itself. An opener in between has key 0, `IPC_PRIVATE`, and a semaphore
  nobody else knows. `AttachedInitialised` bounds the window.
* `ullc.c:390`: the assertion in `ina_ullc_consumer_free` reads the alive word
  after it was given up, when another consumer may have taken it.
* `ullc.c:513`: a consumer that opens the segment first initialises it, while
  `ullc.h:89` leaves that to the producer.
* `ullc.c:595`, `:596`, `:609`: one release wakes one consumer of several; the
  kernel takes back the tokens of a producer process that ends; every context
  that is freed removes the semaphore set.
* `ipc.c:49`: `__INA_ENTER_LOCK` runs its loop while the swap returns 0, which is
  what it returns when it took the lock. The lock is entered by whoever finds the
  word set and does not exclude: with two writers at the same time, a flag and
  its counter can stay out of step for ever. `RefExact` is therefore stated as
  long as one writer has called. Nor is it fair: a writer that finds the word 0 each
  time it looks sets it for others and is passed by them for ever, so `CallsReturn`
  promises a call at the lock its return only once the others stop calling.
* `ipc.c:335`: an increment that another process disturbs is lost and the call
  still returns a value.
* `hashtable.c:522`, `:523`, `:502`: a key whose first word is zero is not found
  again and hides what follows; a key that is a prefix of a stored key matches it.
* `hashtable.c:489`: a removed key that is set again is found by the key its node
  kept, and the branch that stores the data does not count it, so the count falls
  behind the entries. `EntriesExact` says the half that holds.
* `hashtable.c:638`, `:643`: the iterator notices a change only when the entry
  count differs, and keeps its node pointer when the bucket grows.
* `hashtable.c:424`: freeing a table with statistics clears the entry after its own.
* `process.c:69`: an event that does not fit changes the state. A start of a
  running process makes it startable, the next one forks a second child.
* `process.c:691`: `ina_process_get_exit_code` on a record that has no child
  (never started, reset, or its fork failed) calls `waitpid(0, ...)`, reaps any
  child that has ended and takes its code; the record that child belongs to
  never gets it.
* `process.c:711`: a failed fork leaves the state RUNNING.
* `process.c:722`: when `chdir` fails, the forked child returns from
  `ina_process_start` into the program of its parent.
* `process.c:747`: a `waitpid` that is interrupted reads as exit code 0 of a
  child that still runs, while `process.h:136` says "Execute and wait until
  process ends."
* `process.c:762`: `kill(...) != ESRCH` is always true, since `kill` returns -1;
  stop sends `SIGTERM` and waits neither for the child nor `stop_wait_time_ms`.
* `process.c:144`: the cron's stop forgets the process id of a child that may
  still run; it stays a zombie until someone asks a record without a child. The
  two callbacks are not registered with a cron anywhere in the library.
* `memory.c:258`: `ina_mempool_shrink` frees the first chunk, the pool itself,
  first, and reads it in the next round (`torn`); when something was taken from the
  back of that chunk it frees nothing and rewinds every chunk under the caller's
  blocks (`mixed`).
* `memory.c:289`, `:310`: reset and clear rewind the front only, and clear wipes
  the blocks that were allocated from the back while they stay allocated.
* `memory.c:230`: a pool that is merged into another loses its own children.
* `memory.c:419`: `nalloc` after a reset puts a new chunk in the place of the
  children the pool has; they are lost to the pool until the process ends.
* `memory.c:456`: raising the alignment between `dalloc` and `ralloc` makes
  `ralloc` take a block for the last one that is not (`mixed`).
* `memory.c:484`, `:522`: when the first chunk is full, `ralloc` on a dynamic pool
  makes a chunk and still returns the memory at the front of the first one, which is
  too small, and moves the front past its end; later blocks may overlap those from
  the back.
* `memory.c:556`: a guest that opens a segment before its owner gave it a size,
  and a producer whose second open makes a segment without size, end by `SIGBUS`
  at line 585.
* `memory.c:619`: the name that is removed may refer to another segment by then;
  a guest that opened and left before the owner had counted itself sees the
  count go to 0 and removes the name of a segment the owner goes on to use.
* `list.c:144`: the stack of recycled nodes starts at index 1, so its last entry
  lies one past the array of `list.c:206` (`outside`).
* `list.c:250`: `ina_list_tail` returns the first node.
* `list.c:261`: `ina_list_insert_head` on a non-empty list leaves the list's head
  where it was; the node is counted and never met.
* `list.c:62`, `:183`: sort and resize leave the prev of the first node null, and
  the next insertion at the end (`list.c:283`) or join (`list.c:369`) follows it and
  ends the program.
* `list.c:375`: `concat` moves the pool of the source and leaves its recycled nodes
  on its stack: they lie in memory that goes when the destination is freed.

## 4. Proofs

All theorems are checked by TLAPS to the last leaf. The only assumptions are the
named `ASSUME`s on the constants, which TLC evaluates in the runs.

* `UllcProofs`, for any number of producers, consumers, slots and cursors, over
  a ring that has been initialised (`Spec`): `TypeCorrect`, `CommitWindowHolds`,
  `NeverAheadHolds`, `CursorExclusiveHolds`, `ItemIntactHolds`,
  `RingMonotoneHolds`. The inductive invariant is
  `TypeOK /\ RingUp /\ PositionInv /\ SlotsHoldLastRound`. `NeverAhead` is not
  inductive by itself: a `get` that passed its test moves the cursor two steps
  later (`ConsumerChecked` says what the test established and that it stays
  true, because committed positions only grow and a cursor has one owner), and
  a consumer that joins an empty ring has cursor -1 for one step
  (`CursorsSettle`). `CommitWindow` counts the producers between the two
  increments, so its proof goes through the cardinality of that set.
  `ItemIntact` needs that the slots hold the last round of items
  (`SlotsHoldLastRound`), a fact about `k % Slots` for every position.
  `NeverAheadHolds` and `ItemIntactHolds` assume `SeeksForward`: consumers seek to -1
  or to positions of the ring. The others hold for any seek.
  `ItemIntact` and the second half of `RingMonotone` are for one producer, the
  number the design allows.
  Over a segment that starts empty and is reset at any time (`SpecReset`):
  `TypeCorrectReset`, `CursorExclusiveReset`, `AttachedInitialisedHolds`; their
  conjunction is inductive, since an initialisation leaves the cursor tables alone,
  nobody passes the test of the parameters before they are stored, and who stores
  them goes on to store the semaphore key.
  With everyone attached from the start and overrun on or off (`SpecStreaming`):
  `StreamingItems`, and `BroadcastSafe`, the initial condition and step relation of
  `Broadcast` under the mapping of `IsBroadcast`. The increments of the cursors are
  the steps that map to steps of `Broadcast`; `NeverAhead` and `ConsumerChecked`
  give that a position is handed out after its commit, `CursorExclusive` that
  nobody else moves it.
* `UllcSignalProofs`, for any number of producers: `TypeCorrect` (with any number
  of consumers), and `WakeUpPendingHolds` for a ring with one consumer
  (`SoleConsumer`; with two, one release wakes one of them, see above) while no
  producer's process has ended attached since the last SETVAL. The invariant adds that identifiers that are held are ones that were made
  (`HandlesKnown`) and that every producer past `semget` holds the set there is
  unless a second one was made next to the first (`ProducersAgree`).
* `IpcProofs`. For any number of flags and writers: `TypeCorrect`;
  `RefExactHolds` and `ReferencedIsOnHolds` as long as one writer has called
  (two at the same time break them, see above). The invariant `SoleInv` says for
  every label of the call how far the counters have got towards `due`
  (`CountsTrackCalls`), which flag the word is allowed to be out of step on
  (`FlagsTrackCounts`), and that the locals are what the shared words hold
  (`LocalsCurrent`). For counters, with any number of processes and any width of
  the word: `CounterTypeCorrect` and `UndisturbedExactHolds`, from
  `UndisturbedInv`, which follows the locals of a process nobody has disturbed.
  The module extends both components, whose names are therefore distinct.
* `HashtableProofs`, for any set of keys, hash function, number of buckets and
  growth: `TypeCorrect`, and `LookupAgreesHolds` for keys of full length whose
  first word is not zero (`FixedKeys`; without it the property fails, see above).
  The invariant `StoreInv` says that a node's key hashes to its bucket
  (`Placed`), that no two used nodes of a bucket have one key, removed ones
  included (`Distinct`), that what a node holds is what the map says (`Stored`)
  and that a key of the map has a node (`Found`).
  `EntriesExactHolds`, for the same keys: taking a node to its key is a bijection of
  the nodes with data to the keys of the map, so both have one cardinality, and no
  step takes the count above it (`CountBelow`). `IterCompleteHolds`, for any keys:
  as long as nothing changed since the reset, the nodes returned are those before
  the iterator's position, each once (`IterInv`).
* `MempoolProofs`, for any number of pools, chunks and blocks and any sizes,
  alignments and requests: `TypeCorrect`, `ChunksHeldHolds`, `BlocksApartHolds`,
  `FreshZeroHolds`. `Down` is a recursive function; that it exists, and that the chain
  it walks is the least set that holds the first chunk and the child of every chunk in
  it, is proved by induction over sets of naturals and a pigeonhole argument
  (`DownSteps`, `ChainLeast`, `ChainClosed`). Everything else about chains follows
  from that. `ChunkInv` adds to `ChunksHeld` that no chunk has two parents, that the
  first chunk of a pool has none, and that chunks not made yet are not linked: then two
  chains never meet, every chain ends, and a chunk linked in by growth or merge changes
  one chain only. `BlocksInv` adds to `BlocksApart` that a block on a chain belongs to
  the pool of that chain and that a chunk has one pool, also when it was dropped
  (`Owned`), so a new block can only meet blocks of its own pool, and that no block is
  empty, without which a block that shrinks in place could leave one behind its new
  end. Front and back are kept apart only while the front has not passed the back,
  which a reallocation that does not fit may make it do in the first chunk of a
  dynamic pool; since the front grows over what was there, blocks from the front stay
  apart among themselves also then. `FreshInv` is `FreshZero` for the pools that are
  not torn, with the addition that a chunk not made yet has no dirty byte; it needs
  `BlocksInv`, because the caller may write to a block at any time and the block must
  then lie outside what is handed out next, and `TornOutside`, that a torn pool means
  memory outside.
* `ListProofs`, for any number of lists, nodes and data: `WalkAgreesHolds`,
  `BackLinksHolds`, `NodesApartHolds`, and `SortTurnsEqualsRound`, what
  `ina_list_sort` does to any sequence of nodes. The walk and the sort are recursive
  functions, so the module first proves an induction principle for naturals as
  lemmas about sets (`Least`, `Induction`). The three properties are one invariant,
  `ListInv`: while no fault has happened there is one sequence of nodes for
  each list (`Shape`) that begins at its head and follows next to null (`Path`), holds
  what the calls put there (`Holds`), is followed back by prev (`Back`), and no node is
  in two sequences, twice in one, or in one and on a stack (`Apart`). The sequences
  are existentially quantified, so that a step is proved by naming the sequences after
  it: one node appended, taken out, two sequences joined, one rearranged, one copied or
  dropped; `WalkIsPath` then shows that the walk is that sequence, whatever the number of
  nodes. None of the three properties is inductive alone: an insertion at the end
  writes through prev (`BackLinks`), which only leaves the other lists as they are
  because nodes are apart; a removed node that was met twice would be on the stack and
  in the list; and a node on a stack counts as apart only while its pool is there,
  since `concat` leaves recycled nodes behind whose pool another list may free. The
  three say nothing of a program after a fault, and nothing of a skewed list.
  For the sort, `MergeCounts` and `SortRuns` show that the two recursive functions
  exist, `MergeRanks` that merging two runs which are in order, the second behind the
  first, gives one in order, where of two nodes with the same data the one that was
  behind comes first. So the sort is correct and not stable: it turns equal nodes
  round. `InOrderIs` adds that numbers have one ascending arrangement, so the data of
  the list are what `seq` says.
* `ProcessProofs`, for any number of records, children and exit codes:
  `TypeCorrect`, `ExitCodeExactHolds`, `ExitCodeGenuineHolds`,
  `WaitedGoneHolds`. The invariant `ProcessInv` adds to the properties that a
  start that waits has a child (`WaitingHasChild`), that a process id is one the
  record forked (`ChildKnown`), that no two records have one child (`ChildOwn`:
  otherwise one would reap the child of the other) and that a startable record
  with fitting events has none (`FreshHasNone`: otherwise a fork would bury a code).
  The proof groups the calls by what they do to the children: quiet ones,
  the ones that clear a record, forks, and the ones that reap.
* `SharedMemoryProofs`, for any number of owners, guests, segments and deaths:
  `TypeCorrect`, `RefExactHolds`, `NameKeptHolds`, `NoLeakHolds`. `RefExact` needs
  that a process past `shm_open` has a segment (`HasSegment`), and bounds the count
  from below, so that it never passes zero; its proof follows the set of counted
  processes through the steps that add and remove one. For the name, `NameInv` says
  that a segment with a size and a name has an exclusive owner that has not left yet
  unless a process died on it (`OwnerThere`, which gives `NoLeak`), and that as long
  as releases are in order there is one owner, the name is that of its segment, and
  nobody else is about to remove it (`OwnerNamed`, which gives `NameKept`). The
  last part uses `RefExact`: a guest that leaves while the owner is counted cannot
  see the count at zero.

**Model-checked only:** the liveness properties `ClaimReturns`, `ItemsRead`,
`CallsReturn`, `WaitReturns` and the liveness part of `IsBroadcast` (fairness and
`ENABLED` are outside the prover's reach), and the violation. Every invariant and
every action property that a run checks is also a theorem.

## 5. Plan

Order: what several processes share first, then what long call sequences shape.

1. Done: `Ullc`, `UllcSignal`, `IpcFlags`, `IpcCounter`, `Hashtable`, `Process`,
   `SharedMemory`, `Mempool` and `List` with their proofs; the abstract
   specification `Broadcast`, its refinement proved in its safety part.
2. Proofs next: action properties of the modules that only have invariants.
3. Components that remain: `Cron` (due times and catch-up after clock jumps,
   checked against a reference definition over bounded clocks, with the timers as
   its source of events), `Log` (buffer at its limit, reopen on flush), `Lib` (init
   and exit), `Conffile`, `FileCursor`.

The number of runs stays small: when a new component brings a run, runs that ask
related questions of one module are joined.

## 6. What is not modelled and why

The components of 1.1 that the plan names under 3 are not modelled yet. The bulk
of the repository is vendored (`contribs/`: LuaJIT, miniz, LZ4, the timer wheel),
so the modelled lines are a small share of all lines of C and about an eighth of
the lines in `src/*.c`. The remaining
parts are left out for good: they pass calls on to the operating system
(`file.c`, `dir.c`, `mmap.c`, `net.c`, `cio.c`, `time_os.c`), adapt vendored code
(`compression.c`, `ljit.c`, `hash.c`, `contribs/`), work on bytes without state
(`string.c`, `error.c`, `util.c`), or are developer tools (`test.c`, `bench.c`,
`tools/`). Of the modelled components these parts are missing: the Windows
branches; allocation failure; the failure of system calls other than the ones a
module names; wrap-around of the ring's 64-bit positions; memory orders weaker
than sequential consistency (the code uses full-barrier builtins for its atomic
operations and `volatile` for the rest; the plain accesses of the flags' counters
are modelled as separate loads and stores).
