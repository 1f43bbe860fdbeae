# TLA+ models of FerriteDB

FerriteDB is a small local database: a map from string keys to JSON values,
kept in memory, made durable by a write-ahead log (WAL), optionally constrained
by a schema, and served to SDK clients over a Unix socket by a sidecar process.
The crate also holds a page-based storage engine (pager, slotted pages, buffer
pool, B+Tree) that the database does not use yet, and the command-line tool
copies, exports, imports and migrates database directories.

This directory models all of these. The database and its log are modelled at
the granularity of system calls, under process kills, I/O errors and power
cuts; so are the pager and the file commands. The buffer pool and the sidecar
are modelled with their threads and locks, the B+Tree page by page beside a
reader, the SDK clients over the connection that the sidecar is shown to
provide. TLC checks small instances of everything; TLAPS proves the central
safety properties of each component for every instance.

## Inventory

All paths are relative to `src/`; the core is `crates/ferrite-core/src/`.

| component | state | operations | what makes it correct |
| --- | --- | --- | --- |
| **Database**, `lib.rs` | per handle: the map, the next transaction id, the poisoned flag, the schema, the lock; on disk: `format.json`, `schema.json`, `data.wal`, a staging log | `open*`, `transaction` (`put`, `delete`), `checkpoint`, `verify`, drop | an acknowledged transaction survives; no transaction is ever visible in part; the directory can always be reopened; memory and log agree |
| **WAL**, `wal.rs` | the file and its length | `create`, `open`, `begin`, `put`, `delete`, `commit`, `Recovery::read` | recovery returns the committed transactions in commit order and accepts every log the database writes |
| **Schema validation**, `lib.rs:385-463` | none (pure) | `validate_schema`, `validate_all` | a write is accepted exactly when its result keeps the rules |
| **Pager**, `pager.rs` | header (page count, free-list head, WAL sequence), pages | `create`, `open`, `alloc`, `free`, `read`, `write_page`, `write`, `record_wal_commit`, `sync_header` | a page is allocated once; the free list ends and is disjoint from pages in use, also after a crash |
| **Buffer pool**, `buffer_pool.rs` | frames (page, pins, dirty, LSN, lock), page table, free list, replacer, flushed LSN, one mutex | `fetch_page`, `fetch_page_mut`, `new_page`, `unpin_page`, `flush_*`, `delete_page`, guard drops | no update is lost; no page reaches the disk before its log record; nobody deadlocks; no frame leaks |
| **Replacers**, `buffer_pool.rs:108-280` | reference bits and a hand, or access histories | `victim`, `pin`, `unpin`, `record_access`, `remove` | a victim is unpinned and found whenever one exists |
| **Slotted page and records**, `slotted_page.rs` | slot directory, free space; home and overflow pages | `insert`, `delete`, `compact`; `put_record`, `get_record`, `delete_record` | records never overlap; an id keeps its record; a page of a record is freed once |
| **B+Tree**, `btree.rs` | nodes in pages, a root page id | `insert`, `get`, `delete`, `scan`, `first`, `last`, `verify_integrity` | an ordered map; balanced; leaves linked in order; a failed call changes the map wholly or not at all |
| **Sidecar server**, `crates/ferrite-cli/src/main.rs:123-414` | worker count, per connection the negotiated capabilities, the database mutex | `serve`, `handle`, `negotiate`, `dispatch` | one answer per request, in order; nothing before the handshake; a bounded number of workers, and they come back |
| **File commands**, `main.rs:416-792` | staging directories and files | `backup`, `restore`, `export`, `import`, `migrate` | a destination appears complete or not at all and replaces nothing; the source is untouched; an export imports again |
| **SDKs**, `sdk/python`, `sdk/typescript` | next request id, the socket, pending requests | `_request`, `request`, `receive`, `rejectAll` | a caller gets the answer to its own request, or an error, and gets it some time |
| **Benchmarks**, `bench_metrics.rs`, `workload.rs`, `bin/ferrite_bench.rs` | measurements | | not part of the system's behaviour |

How they interact. A client writes JSON lines to the socket; the sidecar's
worker of that connection parses one, takes the mutex around the one
`Database`, and answers. So the database never runs two calls at once; its hard
behaviours come from what happens between two of its system calls: the process
is killed, a call fails, another process waits for the lock, the machine loses
power. The commands run in processes of their own and meet the database, and
one another, through lock files and names in a directory. In the page engine
the B+Tree calls the buffer pool, which calls the pager and asks a replacer for
victims; records go to the pager directly. The buffer pool is the one component
whose threads share memory under several locks (a manager mutex and a lock per
frame). The clients share one ordered stream between asynchronous callers.

`PROJECT.json` lists under "hazards" what is hard to test, at its line.

## Modules

| module | content |
| --- | --- |
| `WalFile` | the log file: records, frame sizes, appending, the recovery scan, what a power cut leaves |
| `WalDatabase` | the database: its processes, files and faults, and the properties |
| `DurableMap`, `WalDatabaseRefinement` | what a directory promises, without files, and how `WalDatabase` maps to it |
| `WalDatabaseInv` | the inductive invariants of the database, in six layers |
| `WalDatabaseProofs` | lemmas on the log, the proofs of the six layers and of the refinement |
| `Sums` | the running totals of a list of sizes |
| `PageStore` | what the page layers promise: pages with one writer or many readers |
| `Pager`, `PagerProofs` | the page file with its header and free list; its proofs |
| `BufferPool`, `BufferPoolProofs` | threads, the manager's mutex, frame locks, pins, eviction, flushing; its proofs |
| `Replacer`, `ClockReplacer`, `LruKReplacer` | what the pool relies on a replacer for, and the two replacers; that they give it is proved in `BufferPoolProofs` |
| `SlotDirectory`, `SlottedPage` | what a page of records promises, and the page, byte by byte |
| `RecordStore` | `put_record`, `get_record`, `delete_record` over the pager |
| `RecordProofs` | proofs about pages and records |
| `OrderedMap`, `BTree`, `BTreeReaders`, `BTreeProofs`, `BTreeMapProofs` | what the tree promises, the tree, and `get` in threads beside the writer; proofs about its shape, about what its pages hold and about `verify_integrity` |
| `Wire` | what one connection to the sidecar promises |
| `Sidecar` | accept loop, workers, handshake, lock, answers |
| `FileOps` | backup, restore, export, import and migrate as steps on a directory |
| `JsonlTransfer` | validation, and the lines of an export and the batches of an import |
| `FileOpsProofs` | proofs about the commands, validation and transfers |
| `PythonClient`, `TypeScriptClient` | the SDK clients over `Wire` |
| `SidecarProofs` | proofs about the sidecar and the clients |
| `MC*` | constants and symmetry for TLC. `MCReplacers`, `MCRecords`, `MCCommands` and `MCClients` put two or three components beside each other, and so do `MCStorage` (the B+Tree, the replacers, the pool's mutex) and `MCConnections` (the sidecar, the clients): which of them runs is chosen in the initial state, so each keeps its own state space |

Four abstract specifications carry the composition: `BufferPool` and `Pager`
implement `PageStore`, which is what the B+Tree assumes of its pages;
`ClockReplacer` and `LruKReplacer` implement `Replacer`, whose "some unpinned
frame, if there is one" is the victim the pool takes; `Sidecar` implements
`Wire` on each connection, and the client modules extend `Wire`; `WalDatabase`
implements `DurableMap`, which is what the sidecar's store and the versions of
`FileOps` stand for.

### The log (`WalFile`)

A record is one frame: `BEGIN`, `COMMIT`, or `WRITE` with an operation (a put,
or a delete when the value is `Absent`). Keys and values are abstract; of the
encoding the model keeps the number of bytes of a frame, since the 64 MiB limit
is behaviour, and whether the last frame of the file is complete (`torn`),
which stands for the length and checksum tests of `Recovery::read`.

`Recovery::read` is a loop over frames. Its state between two frames is a
`Scan` record (map of the committed transactions, pending transactions and
their writes, ids seen, cursor); `Accepts` is the loop's error tests and
`Advance` its update. A `File` keeps the scan state reached after each of its
frames (`replay`) beside the frames, so "what recovery finds in the first n
frames" is `f.replay[n + 1]` and needs no recursion. `Shape` says that `replay`
is the scan of `recs`; it is part of the proved invariant.

### The database (`WalDatabase`)

A process may hold one handle. `pc[p]` names the system call it does next:

- opening: `format`, `formatNew`, `formatWritten`, `schema`, `wal`, `walNew`,
  `walWritten`, `recover`, `persist`, `schemaNew`, `schemaWritten`
  (`open_inner`, with `write_new_synced` and `Wal::create` split into create,
  write, sync);
- `ready`: the handle is idle;
- a transaction: `begin`, `write`, `sync` (`transaction`,
  `write_wal_transaction`, `Wal::commit`);
- a checkpoint: `ckptNew`, `ckpt`, `chunk`, `rename`, `renamed`.

`lock`, `format`, `schemaFile`, `wal` and `staging` are the directory;
`data`, `nextId`, `poisoned` and `schema` the handle; `ops`, `done`, `newWal`,
`left` and `ckptId` the locals of the running call. `undo` and `dirty` record
which directory entries are not yet synced, so that a power cut can take them
back. `promised` is a history variable: the maps that the next open may
legitimately find.

Faults are a constant: `kill` (a process dies between any two system calls or
inside a frame), `io` (any system call fails; the error path of the code runs),
`power` (everyone dies and anything unsynced may be lost).

`DurableMap` is the abstract specification: clients open, submit, are
acknowledged, become uncertain, leave; the promised maps change accordingly.
`ImplementsDurableMap` is the refinement under `WalDatabaseRefinement`: a
handle's view is `data`, a transaction is submitted while its records are being
written, a poisoned idle handle is "uncertain".

### The pager (`Pager`)

`header` and `page` are the file, `cached` the three header fields that `Pager`
keeps in memory, `call`, `target` and `buffer` the locals of a call. `pc` names
the next write or sync: `zero` (the new page of `alloc`), `link` (the next
pointer that `free` writes), `header`, `buffer` (a `PageMut` that is not
flushed), `write`, `sync`, and `failed` (an error on its way to the caller).
The order of these steps, and that memory changes before the file does
(`pager.rs:128`), is the code's. A page is its first word, which is the link
of a free page, and the rest.

`owned` is what the client holds (handed out by `alloc`, not given back),
`marks` the WAL sequence numbers that a reopened file may show, `synced` the
file as of the last `sync_all`; these are history variables. The fault class of
a run is chosen in `Init`: none, kills and I/O errors, or power cuts. A failed
write leaves the old bytes, the new ones, or the new first word with torn bytes
behind it; a power cut leaves each page and the header as they are or as they
were at the last sync. A call that fails leaves memory ahead of the file, which
the model keeps: the next call works with it.

### The buffer pool (`BufferPool`)

Threads make one call at a time. `pc[t]` follows the code between its
synchronisation points: `idle`; `evict` and `fill` (in `find_available_frame`
and its callers, the mutex held while waiting for a frame's `RwLock`);
`pinned` (the mutex released, `page_lsn` not yet read); `lock` (waiting for the
page's bytes); `guard` (a `PageRefGuard` or `PageMutGuard` lives); `release`
(`Drop` has unpinned the page, the lock field is not dropped yet); `flush`
(the mutex held, `todo` the frames left). A critical section of the mutex that
waits for nothing is one step.

`lost` is a history variable, the frames that a failed `pager.read` left in no
list. `page`, `pins`, `dirty`, `lsn`, `bytes` are the fields of `Frame`; `table`,
`free`, `evictable`, `flushed` those of `BufferPoolInner`; `disk` stands for the
pager as an array of pages. `mark` is what a `PageMutGuard` remembers. A page's
bytes are a value and the highest LSN stamped on it, so that the WAL rule can
speak of the contents and not of the bookkeeping. `evictable` abstracts the
replacer, which picks any of its frames; `Replacer` states just that.
CLOCK's loop over two rounds is one step: candidate `i` is taken when it is
unpinned and either unreferenced or met for the second time. LRU-K keeps k
times per frame; the history variable `accesses` keeps them all.

`PageStore` is the abstract specification: a page changes only under the one
writer that has it open, starts zeroed, and is not released while it is open.
`ImplementsPageStore` maps a page to its frame's bytes if it is cached and to
the disk otherwise, and an open page to a thread in `guard`.

A client marks each change with the LSN of its log record, or with 0 when it
only goes through `deref_mut`; it deletes and fetches only pages it was given.
Stamping with an LSN and holding several guards at once are the client's
business; two threads with a guard each show the blocking that one thread with
two guards would.

### Slotted pages and records (`SlottedPage`, `RecordStore`)

`SlottedPage` is one page as an array of cells. A cell remembers which byte of
which payload was copied into it, so that an overlap, a compaction that moves
bytes over others, or an offset that is off by one shows as the wrong bytes in
a slot. `insert`, `delete` and `compact` are translated with their arithmetic
(saturating subtraction included), `Validates` is the test a page must pass
when it is parsed. It implements `SlotDirectory`: slots with payloads, the
lowest tombstone reused first, `NoSpace` only when there really is no space.

`RecordStore` has pages that hold an inline record, a chunk, a descriptor, a
tombstone or nothing that parses. `put_record` is one pager call per step
(`alloc`, `write`), its clean-up after an error is `undo`, `delete_record`
frees the overflow pages one by one and then writes the tombstone. A call of
the pager may fail, with or without effect, and the process may die between
any two.

### The B+Tree (`BTree`, `BTreeReaders`)

Nodes are records with entries, or keys and children, the sibling and parent
pointers of the page header, and a length in bytes; a rebuild that does not fit
its page leaves `Overrun`. A call holds a few pages at a time, and `run[w]` has
its local variables; a step of the model is what the code does between two
moments at which it holds no page that matters. So a split is: write the left
and the new right node, fix the next leaf's back pointer, adopt the moved
children one by one, then insert the separator above; a deletion walks down,
removes, and repairs upwards by taking over, sharing or merging. At each step
the pool may refuse a page (`MayFail`), and the call ends there.

`OrderedMap` says that a call takes effect at one moment, or, if it fails, at
one moment or not at all. The map that the tree represents is the chain of
leaves. `BTreeReaders` adds threads in `get`: a reader holds one page (the page
is pinned) and lets go of it before it asks for the next one, so a split may
happen in between.

### The sidecar (`Wire`, `Sidecar`)

`link` is the connection as the accept loop sees it; `inbox` and `outbox` are
the two directions of the stream, `outbox` bounded by the socket's buffer;
`worker[c]` is the thread of the connection, with the request in work; `active`
the shared counter; `lock` and `poisoned` the mutex around the database. A
worker's pc is `spawn`, `read`, `lock`, `dispatch`, `reply`, `ended` (its
stream closed, `ConnectionWorker` not yet dropped). `negotiated` gates the
methods. Clients send without waiting, read when they like, and hang up.

`Wire` is one connection as its client may rely on it: what waits is answered
one by one in order, until the connection closes.

### The commands (`FileOps`, `JsonlTransfer`)

`dir` has the entries of one parent directory: for each name absent, or three
files whose contents are a version (`Torn` while half-written), the process
that built it and whether it was synced. A command goes through `open` (lock
and snapshot of the source), `stage`, `copy` file by file, `manifest`,
`verify`, `write` or `build`, `publish` (the rename that replaces nothing) and
`sync` of the parent; `migrate` publishes its backup first. Beside it run a
writer that opens the source under its lock, another command, a stranger that
creates names, kills, I/O errors and a power cut that takes unsynced names back.

`JsonlTransfer` is the content of a transfer: documents as functions from
fields to values, `validate_schema` and `validate_all`, the limits of a
transaction, an export in key order, and the import in batches.

### The clients (`PythonClient`, `TypeScriptClient`)

Both extend `Wire`. A Python caller writes a request and takes the next line as
its answer (ids are not compared): `current` and `pc` per caller, `waiter` for
asyncio's rule that one task at a time waits in `readline`, `timedOut` for a
socket file that refuses to be read after a timeout. The TypeScript client
keeps a map `pending` from ids to promises, which an answer, a failed write, a
socket error or the exit of the sidecar settles; `settled` and `resolvedBy`
count how.

## Runs

| run | instance | what it shows |
| --- | --- | --- |
| `wal_kill_io` | 2 processes, 2 keys, 2 values of different size, 1 schema, transaction ids to 4, kills and I/O errors, fairness; 383,464 states | types; every reopen finds a promised map and succeeds; handle and log agree; a checkpoint never grows the log; contents change only at a commit; refinement of `DurableMap`; every call returns |
| `wal_power` | 2 processes, 2 schemas, power cuts; 441,305 states | promises, reopening, and that only an I/O error poisons a handle, when unsynced data are lost |
| `wal_checkpoint_retry` | kills | finds the stale staging file (below) |
| `pool_store` | 2 threads, 2 frames, 3 pages, a hook, I/O errors; 551,366 states | refinement of `PageStore`; every frame is in exactly one place, but for those that failed reads lost; guards keep their page; the WAL rule |
| `pager` | 3 pages, no faults / kills and I/O errors / power cuts; 2,297,449 states | the free list is sound in memory and in the file; the WAL marker survives; refinement of `PageStore` |
| `pager_drop` | one page, no faults | finds the buffer that a drop discards (below) |
| `records` | a page of 9 bytes; records over 5 pages with failing and killed puts; 107,859 states | every page built parses again; slots keep their payloads and `NoSpace` is true; no page of a record is freed twice or reused |
| `storage` | the B+Tree with 5 keys, 11 pages, 2 entries per leaf, depth 3, one writer alone that may fail, or one that inserts beside a reader; or CLOCK or LRU-K with 3 frames, k = 2, 6 accesses; or the pool with 2 threads, 1 frame, 2 pages, no hook, writers first; fairness; 301,299 states | until a call fails the tree verifies between calls, parents agree, no page leaks and reads agree with the map; each call is atomic, also the one that fails; a victim whenever a frame is unpinned, CLOCK passes no frame over for ever, LRU-K takes the victim that the whole history demands; the mutex is always released when flushes and writers do not overlap |
| `btree_first` | 3 keys, 7 pages, 1 entry per leaf, 1 key per inner node | finds a tree with keys for which `last` answers nothing (below) |
| `btree_mixed` | 3 keys, 7 pages, values of two sizes | finds a split whose half does not fit its page (below) |
| `connections` | the sidecar with 3 clients, 2 workers, 2 requests each, a socket buffer of one answer, spawn failures and panics; or a client with 5 requests: TypeScript, Python with one caller and timeouts, or async Python with two tasks and cancellations; fairness; 278,293 states | the count of workers is exact; each connection is a `Wire`; every slot comes back; each call gets its own answer or an error, each promise is settled once by its own answer, calls return |
| `commands` | 2 command processes, a writer, a stranger, kills, I/O errors, a power cut; or an export and import of up to 3 transactions; 1,406,270 states | a destination is whole or absent; what was reported done stays; nothing is replaced; validation is exact; a round trip gives the same database |

### Bounds

*Database.* `MAX_TRANSACTION_OPERATIONS = 2` with a transaction of three
operations, so the operation limit is met and a checkpoint of two keys fills a
chunk; `MAX_WAL_BYTES` (159, or 98 in `wal_checkpoint_retry`) holds two to four
transactions, so that the log fills and only a checkpoint makes room;
`MAX_TRANSACTION_BYTES = 6` is just enough for the two-key transaction;
`MaxTxId = 4` stands for `u64::MAX` and is reached. Two processes are enough for
one to find what the other left, and a killed process may come back under its
own pid. Processes are interchangeable, which is the symmetry used; it is not
used with liveness.

*Pager.* Three pages make a free list of every shape that a fourth would only
lengthen; one marker value beside 0 separates old from new.

*Pool.* Three pages over two frames make every fetch a possible eviction of a
page another thread just left; an LSN of 0 or 1 separates synced from unsynced;
two threads are enough for each pair of steps to race. Threads, frames and
pages are interchangeable. `pool_store` switches deadlock checking off: the
code can block for good, see below. `WritersFirst` (readers queue behind a
waiting writer, as the standard library's lock does on Linux) is on in
`storage`, where it makes blocking more likely, and off in `pool_store`,
where it would only remove behaviours.

*Replacers.* With three frames the hand can pass over one referenced and one
pinned frame; six accesses with k = 2 forget the oldest of a frame and leave
another with fewer than k.

*Records.* The page's header is one byte and a slot one byte, so nine bytes
hold up to four payloads and a compaction moves payloads over each other. A
record is inline (1) or takes two chunks (4 bytes, chunks of 2), so two large
records and their home pages need more than the five pages there are.

*B+Tree.* Lengths are in units of about 340 bytes: a page is 12, a key 3 (1 KiB,
the limit of the code), a value 1. Two entries fill a leaf and two keys an inner
node, so five keys reach depth three, and splits and merges cascade to the
root. `new_page` returns the least free page; which one is the pager's
business. `AloneWrites` and `SharedWrites` are the entries that are inserted
without and beside a reader. `btree_first` has keys of 6 (2 KiB), so that an
entry fills a leaf and a key an inner node; `btree_mixed` has values of 1 and 7,
and an entry with the larger one just fills a page. After a call that failed the
thread makes no other: the code lets its caller go on with a tree that was split
half-way, of which only `ImplementsMap` says something.

*Sidecar.* Three clients for two workers: the limit is met. `Sends` gives each
client its requests: one behaves, one sends a bad handshake, garbled and
oversized lines, one only connects. A request carries its place as its id.

*Commands.* Two processes may run any two of: copy, export, import and migrate
from one source to one destination, and copies that share a name. The writer
commits up to version 2. Documents of `JsonlTransfer` have a primary key, two
unique fields, and no object at all; schemas have two collections, too many
unique fields, and a stored form too long to be read; batches hold two
operations.

*Clients.* Five requests, of which two have answers over asyncio's line limit.

Every run with deadlock checking off has bounded inputs (ids, requests, keys)
or threads that may really block or stop; the others may not deadlock.

### Fairness

`FairSpec` of the database assumes weak fairness of the steps of a call that
has begun: the code is single-threaded inside a call and never waits for another
process (the lock is tried, not awaited), so a scheduled process reaches its
next system call. No fairness is assumed of opens, of new transactions, or of
faults: an I/O error is not a way to make progress. The pool's `Fairness`
assumes that a thread inside a call goes on and that a guard is dropped some
time; `Quiet` restricts flushes to moments without a writer, the use the code
supports. For CLOCK (`ReplacersFairness`) victims are asked for again and again.
The sidecar's `Fairness` assumes that its threads are scheduled and that
clients read what they are sent: there is a read timeout and no write timeout
(`main.rs:369`), so a client that stops reading keeps its worker for ever.
`SdkFairness` assumes that the server answers, that callers of the async
Python client run, and that the event loop of Node turns. A run with several
parts states the fairness of each; that of a part at rest, whose steps are
disabled, asks nothing. A client
connects once and makes a bounded number of calls, so `SlotsComeBack` and
`PromisesSettle` ask for a moment at which no worker lives and no promise is
pending: each connection and each promise has then come to its end.

### Findings

`checkpoint` names its staging file after the process id only and
creates it with `create_new`. If a process is killed between staging and rename
(the boundary `checkpoint-after-staging-sync` that the tests kill at) the file
stays; a later process with the same pid, which is the rule for a container's
main process, gets `AlreadyExists` from every checkpoint. The crash test passes
because its retry is a new process with another pid.
`CheckpointCanBeRetried` is violated in `wal_checkpoint_retry`.

The comment at `pager.rs:191-193` says of the buffer that `Pager::write` returns
that it "is automatically flushed on drop". `PageMut` (`pager.rs:322`) has no
`Drop`: without `flush` the changes are gone. `DropFlushes` is violated in
`pager_drop`; the other pager run has the code's behaviour (`DropBuffer`).

`first` and `last` are documented as the smallest and the largest key of the
tree (`btree.rs:710`, `btree.rs:723`). They look in the outermost leaf only
(`btree.rs:711`, `btree.rs:724`) and answer nothing when it is empty. That takes
a leaf that is not merged, one that is an only child (`btree.rs:1005`): with
keys over 2 KiB, of the 4 KiB allowed, `split_internal` leaves an inner node with
no key and one child. A delete that is refused a page before it rebalances leaves
such a leaf too. `OuterKeysAgree` is violated in `btree_first`.

`btree.rs:5` promises "variable-length keys to variable-length values", and the
limits are 4 KiB and 64 KiB (`btree.rs:56-59`). `split_leaf` cuts in the middle
of the number of entries (`btree.rs:783`), so a half may weigh more than a page,
and `rebuild` writes it without a check: payloads over the slots, or a panic. A
single value over a page is accepted too (`btree.rs:747`). Merging internal
nodes takes room for the separator for granted (`btree.rs:1140`,
`btree.rs:1281`). `NeverOverrun` is violated in `btree_mixed`.

### Limits of the code met while modelling

What follows is behaviour on which the documents are silent, or which they name,
so these are not findings; the properties say where they stop.

- Recovery refuses a log whose last frame is incomplete (`wal.rs:121`), on
  purpose: `SurvivorsReopen` excepts torn logs. Reopening does not sync the
  directory or the log, so a kill between rename and `sync_dir`, followed by
  acknowledged transactions and then a power cut, can lose them; the models
  state what holds for each fault on its own (`docs/THREAT_MODEL.md:30`
  excludes power cuts).
- A flush waits for a frame's `RwLock` with the manager's mutex held
  (`buffer_pool.rs:436`), and a guard gives the `RwLock` back only after its
  `Drop` has had the mutex: flushing a dirty page while a writer's guard on it
  lives blocks both, and then everybody. `MutexIsReleased` holds under `Quiet`.
- A failed `pager.read` on a miss returns without giving the frame back
  (`buffer_pool.rs:768`). The failed read puts the frame into `lost`, and
  `FramesAccounted` says that no other is lost: a failed `alloc`, a refused
  eviction or a deleted page keeps its frame in a list.
- An error in `alloc` or `free` leaves the pager's memory ahead of the file
  (`pager.rs:128`): the page in hand leaks, the free list stays sound.
- `delete_record` frees the overflow pages before the slot is gone
  (`slotted_page.rs:377`): a record whose deletion was interrupted names free
  pages. `StoredRecordsRead` is checked with interrupted puts and whole deletes.
- After a call of the B+Tree has failed half-way, between writing the halves of
  a split and its separator for one, `verify_integrity` fails on the tree, and a
  page of it may be unreachable. `IntegrityVerifies`, `ParentsAgree` and
  `ReadsAnswer` speak of the time until a call fails; what the failed call itself
  may do to the map is in `ImplementsMap`.
- Two writers of a B+Tree, or a reader beside a merge, are not protected
  (`btree.rs:1172`). `ReadsAnswer` says what a get may answer beside inserts,
  not beside merges: what its key had at some moment of the call, or nothing
  when a split was under way, though the key was there throughout.
- An import whose batch is over the byte limit fails although each record is
  within it (`main.rs:775`), and a schema can be stored that is too long to be
  read again (`lib.rs:170`); such an import or database is refused, never
  changed, and `RoundTrip` speaks of the imports that end well. A field that a schema declares unique twice makes every document
  that has it violate itself (`lib.rs:446`).
- The async Python client gives a line to whichever task reads next and stops
  at lines over 64 KiB (`client.py:332-334`): `EachGetsItsOwn` says for it only
  that no answer is given twice; a task may get the answer of another.
- A TypeScript promise stays pending when the server answers with the id null,
  or when the stream ends without an error event (`index.ts:104`):
  `PromisesSettle` excepts these two.

## Proofs

The theorems hold for all values of the constants that satisfy the named
assumptions (`WalConstants`, `DatabaseConstants`, `PagerConstants`,
`PoolConstants`, `PageStates`, `SidecarConstants`, `FileOpsConstants`,
`FileOpsNames`, `JsonlConstants`, `ClientConstants`, `ReplacerConstants`,
`PageConstants`, `RecordConstants`, `BTreeConstants`): any number of keys, documents, processes, pages, slots,
records, frames, threads, tasks, clients, paths and requests, any sizes and
limits, any faults.

| theorem | statement |
| --- | --- |
| `TypeCorrect` (database) | `Spec => []TypeOK` |
| `HandlesAgree` | `Spec => []HandleAgreesWithLog` |
| `ContentsChangeAtomically` | `Spec => ContentsChangeOnlyAtCommit` |
| `SoundInvariance` | `Spec => []SoundInv`: recovery meets no error in any prefix of any log |
| `PromisesKept` | `SupportedFaults => (Spec => []ReopenFindsPromisedMap)` |
| `LogsReopen` | `SupportedFaults => (Spec => []SurvivorsReopen)` |
| `ImplementsMap` | `SupportedFaults => (Spec => ImplementsDurableMap)` |
| `OnlyIoErrorsPoison` | `Spec => []PoisonedOnlyByIoError` |
| `CheckpointsShrink` | `Spec => []CheckpointNeverGrowsLog` |
| `FreeListIsSound` | `Spec => []FreeListSound` |
| `MarkerSurvives` | `Spec => []MarkSurvives` |
| `ImplementsStore` (pager) | `Spec => ImplementsPageStore` |
| `FramesAreAccounted` | `Spec => []FramesAccounted` |
| `GuardsKeep` | `Spec => []GuardsKeepTheirPage` |
| `LogComesFirst` | `Spec => []WalRule` |
| `ImplementsStore` (pool) | `Spec => ImplementsPageStore` |
| `BothAreReplacers` | `ReplacersSpec => ImplementsReplacer` |
| `VictimHasGreatestDistance` | `ReplacersSpec => VictimIsLruK` |
| `PagesParse` | `MCSpec => []ParsesAgain` |
| `PageIsDirectory` | `MCSpec => ImplementsDirectory` |
| `RecordsRead` | `DeletesFinish => (MCSpec => []StoredRecordsRead)` |
| `PointersAgreeUnlessOverrun` | `OneWriter => (ReaderSpec /\ []NeverOverrun => []ParentsAgree)` |
| `NothingOverruns` | `OneWriter /\ EntriesAlike => (ReaderSpec => []NeverOverrun)` |
| `KeysStayInOrder` | `OneWriter => (ReaderSpec /\ []NeverOverrun => []Ordered)` |
| `ImplementsOrderedMap` | `OneWriter => (ReaderSpec /\ []NeverOverrun => ImplementsMap)` |
| `ReadsComeFromTheMap` | `OneWriter => (ReaderSpec /\ []NeverOverrun => []ReadsAnswer)` |
| `IntegrityHolds` | `OneWriter => (ReaderSpec /\ []NeverOverrun => []IntegrityVerifies)` |
| `SlotsAreAccounted` | `Spec => []SlotsAccounted` |
| `EachConnectionIsAWire` | `Spec => ImplementsWire` |
| `DestinationsAreWhole` | `Spec => []DestinationIsWhole` |
| `WhatIsDoneIsKept` | `Spec => []DoneIsKept` |
| `NothingIsReplaced` | `Spec => NothingReplaced` |
| `ImportRebuilds` | `MCSpec => []RoundTrip` |
| `ValidatesExactly` | `FieldsDeclaredOnce => (MCSpec => []ValidationIsExact)` |
| `PromisesGetTheirAnswer` | `SdkSpec => []EachPromiseItsAnswer` |
| `ClientsGetTheirOwn` | `SdkSpec => []EachGetsItsOwn` |

### The database

The invariants are layered; each layer is inductive given the ones before.

1. `TypeInv`: types, `Shape` of every log (the kept scan is the scan of the
   frames), only the lock holder is active, an id in use has a successor, the
   files a call works on exist. The type of ids needs the "has a successor"
   part; the type of scans needs `Shape`.
2. `AgreementInv`: per program counter, how the handle relates to the log. A
   half-written transaction is pending with exactly the operations written so
   far and its id is above all others; a staging log holds exactly the entries
   not in `left`. `HandleAgreesWithLog` is its `ready` case, and the COMMIT and
   rename steps of `ContentsChangeOnlyAtCommit` follow from its `write` and
   `rename` cases.
3. `SoundInv`: every frame of every log is accepted by the scan state before
   it. The BEGIN case needs layer 2 (the id is fresh), the WRITE and COMMIT
   cases need the pending entry.
4. `PromiseInv`: a name is only unsynced inside the call that gave it, a
   staging log is synced before it is renamed, and every map a crash may leave
   is promised.
5. `MetadataInv`: `format.json` is complete and its name durable before there is
   a log; what a handle takes for the schema is what `schema.json` says; every
   map a crash may leave suits the stored schema. The last needs that the
   unsynced frames change nothing outside of a commit (`TailChangesNothing`),
   since `schema.json` is checked against the whole log and not against what a
   power cut leaves of it. With layer 3 it gives `SurvivorsReopen`.

The refinement `ImplementsDurableMap` needs layers 1, 2 and 4, and that a handle
is healthy until a transaction or a rename begins (`HealthInv`). One lemma per
kind of call says which step of `DurableMap` its last system call is; all others
stutter, and `OnlyItsOwn` says that nobody else's view moves.

`StepIsLocal`, `StepNeedsLock` and `OthersAreClosed` carry each proof from the
active process to all processes: a step changes the variables of one process
only, and every other one is closed. `SupportedFaults` is "kills and I/O
errors" or "power cuts alone".

Layer 6 is about sizes. The totals that `transaction` adds
up are a recursive function; that it exists is proved by taking the least
beginning that would have none (`TotalsExist`), and then its equation can be
used.

- `RoomInv`: at `begin` there is room for the whole transaction, at `write` for
  the records still to come (`BytesAfter`) and the COMMIT; each record takes its
  part of it. So the limit refuses no record of an accepted transaction, and
  without I/O errors no idle handle is poisoned (`OnlyIoErrorsPoison`). That a
  log which replaces another can be read again (`StagingIsWhole`) is needed for
  the handle a checkpoint leaves.
- `LogsAreLongEnough`: in every prefix of every log, the log is at least as long
  as its entries packed into some `c` full transactions. A COMMIT may add as many
  entries as the pending transaction has writes, so the invariant also speaks of
  the entry that is pending; only the latest one can still be committed, since a
  transaction that was cut off is never continued.
- `StagingIsPacked`: the log a checkpoint writes has exactly the length of the
  entries staged so far in transactions that are full but for the last.
- Fewer chunks than the log had transactions then gives
  `CheckpointNeverGrowsLog`. Bytes are counted as the cardinality of sets of
  pairs (an entry, one of its bytes), so that unions and differences of sets of
  entries need no induction of their own.

### The pager

`Inv` is types, what `pc` says of the running call and its page (`CallInv`), and
when memory and file agree (`HeaderInv`: at a sync, and always without faults).
`MarkInv` adds that memory's marker is one that may be shown, which makes
`MarkSurvives` inductive.

`ListInv` is about the free list, in memory and in the file. A list is a chain:
an injective sequence of pages that avoids some set, each linking to the next.
Four lemmas about chains over arbitrary functions carry it: a change outside a
chain leaves it one, its tail is a chain, a page put in front of it makes one,
and a chain that skips its first page is one. The list in memory and the list in
the file differ by the page in hand (`Reserved`), between the write of a link
and that of the header; that page is on neither list when it is overwritten,
which is what a crash at that moment needs. That a list has room for one page
more follows from the pigeonhole principle, the list being injective into the
pages. The refinement has one lemma per kind of abstract step.

### The buffer pool

`TypeOK` is types and the shape of the WAL hook's state. The other invariants stand
on it, each needing the ones before. `ThreadInv`: what each thread has in hand
at its `pc`, and that only one is inside the mutex. `PlaceInv`, with `TableInv`,
`FreeInv` and `MutexInv`: the page table and the frames name each other, and
every frame is in one place (free, with the replacer, pinned, or in the hand of
the thread inside the mutex), hence `FramesAccounted`. `PinInv`: the pin count
of a frame is the number of threads that use it, and a frame in use keeps the
page it was pinned for, which gives `GuardsKeepTheirPage`. `LockInv`: a frame
has one writer or only readers. `RecordInv` and `MarkInv`: a change is on record
in the frame's LSN, in the mark of the guard that made it, or in a log already
synced; a write-back happens only to a frame without a writer, so its LSN covers
all it holds, and `WalRule` follows. The pins are counted with cardinalities of
the sets of threads that use a frame, one lemma for a thread that joins, one for
a thread that leaves. That the free list, which is injective, holds every frame
at the start is the pigeonhole principle.

The refinement needs `StoredInv` too: a frame that is not marked dirty agrees
with the disk unless the guard that changed it is still open. It is why a clean
victim may be dropped without a write. There is one lemma per kind of abstract
step, and one for the steps that stutter.

### The replacers

`PolicyStep` maps each step of the policy that runs to one of `Replacer`. For
CLOCK, the frames the hand passes have their flag cleared, so the second round
meets every frame with its flag down (`SecondRoundMeets`): a search that finds
nothing has met only pinned frames. For LRU-K, `LruInv` says that the times of
accesses are distinct and below the clock (`AccessTimes`) and that the history
of a frame is the end of its record, up to `k` times (`HistoryIsEnd`); the front
of a full history is then the k-th access from the back (`FrontIsKthBack`), so
the frame selected is the one the definition prefers, and there is one whenever
a frame is unpinned.

### Slotted pages and records

`PageInv` has two halves. `Layout`: the directory ends before the payloads, a
live slot's payload is within them and not empty, two of them never overlap,
and together they are no longer than what lies behind `freeEnd`. `Shows`:
each live slot holds some payload, byte for byte; it holds only one, since a
payload is not empty and its first byte names it (`OnePayload`), so that `Get`
has one choice. `CompactedPage` is what the rest stands on: compacted payloads
lie end to end below the running totals of their sizes (`PackedRanges`), each
cell of the new page belongs to at most one of them, and it has the byte that
was in that payload before. An insertion writes below all payloads
(`PlacedPayload`). Free space is counted twice in the code, from the end of the
directory to the first payload and as what a compaction would leave; the sum of
the sizes relates both to the room of `SlotDirectory`, which gives `NoSpace`
its meaning. `AddedSizes`, `SumOfAppended` and `SumOfReplaced` say how a sum
changes; the sums exist as those of the database do.

For records, `StoreInv` gives every page one owner: it is free, in the hand of
the call that runs (`InHand`), or in the `Extent` of one record, its home page
and its overflow pages (`HandsApart`, `RecordsApart`). `PutWritten` says that the
chunks in hand are the first pieces of the payload, in order, so that the
descriptor, once written, names all of them; `Intact` says the same of a record
that is stored. A step that stores and deletes nothing only moves pages between
the hand and the free list (`QuietStep`), and one that writes outside a record's
extent leaves it as it was (`RecordStays`). That a record which is intact reads
back is arithmetic: the pieces begin where the one before ends (`PieceEnds`), so
their concatenation is the record (`PiecesJoin`); what the loop of
`decode_overflow` computes is found by the least piece at which it could differ
(`OutAfterIs`). A record in deletion has lost its chunks but is not read until
the delete returns: the theorem assumes `DeletesFinish`, for a delete that stops
half-way leaves a descriptor of free pages, see "Limits of the code" above.

### The B+Tree

The results hold for one writer (`OneWriter`; two are not protected, see the
limits above) beside any number of readers, which write no page, for entries of
any sizes, and for every run in which no rebuild is given more than a page holds
(`NeverOverrun`). The code does not keep the last for entries of mixed sizes, as
`btree_mixed` shows; where all keys have one length and all values one, it does
(`NothingOverruns`). They speak of the time until a call fails. In the middle
of a call the tree is not the one the pages show, so `Inv` says which tree they
stand for, given how far the call is (`TreeOf`). A page that is merged away is
out of it before it is freed (`Live`, `Kids`), the new half of a split is in it
before it has a parent (`Loose`), the next root is its top before `root` says so
(`Top`), and the parent pointers that `set_parent_pointer` has still to write
are owed (`Due`). With these the pages are a `Tree`: each has one parent, whose
child it is and whom its pointer names unless that is owed, and some assignment
of heights falls by one from parent to child and is 0 at the leaves (`Ground`),
so that there is no cycle and every leaf is equally deep.
`Local` adds what the call relies on at its `pc`: that `page` and `right` are
neighbours under `parent` at `slot`, that what is promoted is beside `page` or
just below it. Each action has a lemma that says which tree comes of its step;
those that write no pointer share `PlainMove`, those that merge `MergeStep`,
those that shift a child `ShiftStep`.

Between two calls nothing is loose or owed, and `ParentsAgree` is what `Tree`
says, but for `Below[root]`, which is a recursive function on a tree of unknown
depth. By the heights, each set of pages that is closed under a recursion from
the children has a page at which to stop: the function exists
(`DownwardExists`), and a live page that is not below the root would have a
highest one (`AllBelowTop`).

That no rebuild is given more than fits is a fact about sizes, and `NothingOverruns`
proves it for one case, `EntriesAlike`: keys have one length, values one, and a
page takes at least one entry or key. What a node takes then depends on how many
it has (`LeafTakes`, `InternalTakes`), so a split by number is one by size.
`Roomed` says that every page fits (`AllWhole`) and that the node being
rebalanced, from the underflow that called for it to the merge, has room for one
more (`RoomForOne`): it was below a third of the page, or empty. `merge_leaf` and
`merge_internal` do not look at sizes. They are right because a leaf that could
not share has a sibling of at most one entry, since the room for one was there;
and because an internal node is merged only with a sibling without keys, so that
the separator is all that is added. With entries of mixed sizes neither holds.

What the pages hold is the subject of `Ordered`, which `BTreeProofs` defines at
its end and `BTreeMapProofs` shows to be kept: each live page has bounds, `lo` and `hi`, between which its keys lie, and each child has
the bounds that the node above gives it, `from` and `upto` (`Fenced`). The
leaves are a row: each is sorted, and the next one begins where it ends (`Row`).
Inside a call the two kinds of bounds differ in one place, which `Sight` names:
after a split the node above still gives the left half the bounds of both
(`Splits`), between sharing and `set_separator` it has the old separator
(`Shifted`), and a page merged away lies, for the node above, where its left
neighbour already ends. A descent is at a page whose bounds enclose its key
(`Seek`), hence at the right leaf, hence an insert puts its entry where it
belongs. Each action has a lemma that says how the bounds move and what becomes
of `Book`, the set of all entries: an insert and a delete change it at the key of
the call (`Puts`), every other step leaves it (`Goes`).

The chain from the first leaf, a recursive function on the pages, exists because
the row is ordered by its bounds (`GatherExists`), and lists `Book` in the order
of the keys (`RowListed`). A sequence that is sorted by key determines a map
(`Charts`), so `ImplementsMap` follows: `StepMaps` says which step of `OrderedMap`
each action is, and `Tells` that a call is marked as done exactly from the step
that changed the map.

`ReadsAnswer` has two halves. Between calls (`Resting`) every walk down by the
separators exists and ends at the leaf whose bounds enclose the key, and what is
listed from that leaf on is what `Contents` lists from the key on
(`RestReads`). Beside a writer that inserts, `Guided` is inductive: no page is
freed or changes its type below a reader, whose descent is at the page for its
key or, when a node was split after the reader had read the one above, somewhere
to the left of it, where it can only miss the key; then `NoValue` is among the
answers it may give. What `get` reads in the leaf is what the key has now.

`IntegrityVerifies` adds what `verify_integrity` finds by walking the tree and
the chain. `DepthOf` and `KeysBelow` are recursive functions on pages; they exist
since heights fall, and at a node that is between its bounds the one is its
height (`DepthVerifies`) and the other the number of entries between the bounds
(`KeysCounted`), for these add up along the separators. What `Ordered` does not
say is that the leaves are linked backwards too. `Backed` does: each leaf of the
row points to the one before it, but for the leaf after a new or a merged one,
between the step that writes the pair and `set_prev_leaf`. Only four actions
touch a neighbour (`SplitLeaf`, `MergeLeaves`, `ShareLeaves`, `FixNext`); all
others are `Untouched`: what is a leaf after them was one before, with the same
neighbours. `FixNext` asks which call is under way to know which leaf is to be
pointed to, so `Aims` says that a merge belongs to a delete and a promotion from
`next` to an insert. Since a leaf that begins where another ends has no other
leaf before it (`OneBefore`), the pointer written is the right one.

### The sidecar and the clients

`SlotsAreAccounted` counts the live workers through every way a thread ends;
the limit holds because one accept is under way at a time and the count is
raised before the thread is born. `EachConnectionIsAWire` follows each
connection through the steps of all: another worker's step leaves `Waiting(c)`,
the answers and the link of `c` alone, and its own maps to a step of `Wire` or a
stutter, given that a worker has a request in hand exactly at the pcs where its
answer is due, and that a closed link stays so (`ClientInv`).
`PromisesGetTheirAnswer` needs that an id not yet given has no promise
(`FreshIsUnknown`): a promise leaves `pending` in the step that settles it, and
no later call can put its id back.

The Python client compares no ids, so `ClientsGetTheirOwn` rests on where the
ids are. For `AsyncFerriteDB` every id given is in one place: in a request that
waits, in an answer not read, or already with a caller (`TasksApart`); a task
that reads takes its answer out of the stream, so no answer goes to two calls,
whichever task gets it. For `FerriteDB` it is stronger (`OnlyItsOwn`): until a
read times out nothing is on the wire but the request of the call that runs or
its answer, and after a timeout the socket file is not read again.

### The commands

`IInv` has five parts for each command. `LockedInv`: from the opening on the
source is what it was when it was locked, since only the holder of its lock
writes to it and `publish` replaces nothing. `BuildInv`: so each file copied is
a part of that moment, and the copy is all of it when no file is left.
`PublishedInv` carries this to what the command has published, whose job and
snapshot change no more; `KeptInv` says which published names a power cut may
still take back, and that a backup is synced before the migrated copy is
published; `JobInv` says which command is where. Every step but a power cut
leaves the entries that exist in place (`DirectoryStep`), so a command that does
not move keeps its invariant (`RestingKeeps`), and each action needs a lemma for
its own process only. `FileOpsNames` assumes that the writer does not work on
the destinations: once published, a database is its user's to change.

The lines of an export come from a recursive function on the keys. That it
exists is shown first, by the last key from which it would not (`WritesExist`);
then from any key on the first line is that of the next key that is present
(`NextLine`). `ImportInv` says how far an import is: the lines that are left are
those from some key on, and what is committed with the batch on top is the data
below that key (`AtKey`), or the schema's line is still to come
(`AtSchemaLine`). A batch that is full and committed leaves the claim as it was,
so the batch size does not matter. For validation it is shown that the table of
`validate_all` is injective exactly when any two documents of a collection
differ in each unique field that both have (`TableTellsApart`,
`ApartFillsTable`). The second half needs `FieldsDeclaredOnce`: where a schema
declares a field twice the code refuses each document that has it (see the
limits above), and validation is stricter than the rules.

### Left to TLC

Liveness (`CallsReturn`, `MutexIsReleased`, `SlotsComeBack`,
`UnusedFrameIsTaken`): TLAPS has no fairness reasoning here.
`CheckpointCanBeRetried` is a finding: the code does not keep it.

## Plan

1. The B+Tree over `BufferPool` with a bounded number of frames, so that
   "no frame" is a consequence and not a choice; two readers.
2. A weaker assumption than `EntriesAlike` for `NothingOverruns`: which mixtures
   of sizes a split by number still serves; and the B+Tree after a failed call.

## Not modelled

- The benchmark and workload code: sequential measurement, no state of the
  database.
- Starting, awaiting and terminating the sidecar process in the SDKs, and the
  conversion of types there.
- JSON parsing and formatting, serde's nesting limit, key syntax, symlink and
  file-type checks, permissions, and the wording of errors. A request with an
  unknown `v` is answered like any other that is refused.
- `unpin_page` as a call of its own: it is public, and an unpin more than there
  were pins makes a frame evictable under a live guard. The models use it as
  the guards do. `delete_page` and `free` of a page that is not allocated, for
  the same reason, are not among the clients' calls.
- Statistics counters of the pool.

The status of each component is in `PROJECT.json`.
