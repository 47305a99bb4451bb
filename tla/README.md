# A TLA+ verification of ShaunDB

ShaunDB is a key-value store: an LSM tree whose memtables are sharded over worker
threads, a compactor that writes full memtables to disk through io_uring, a ring-shaped
write-ahead log, an LRU cache per worker, a Redis front end over libevent, and the
beginnings of a Raft layer. This directory models the storage engine down to the bytes of
its records, the libraries it stands on (logging, hashes, CRC, files) and the network side.
Paths below are relative to the repository root.

## The system

| Part | State | Operations | Interacts with | Correct means |
| --- | --- | --- | --- | --- |
| `DB` (`exportdb.cpp`) | `global_number_` | Set, Get, Delete, Snapshot, Init | any number of client threads call it, without a lock; log first, then `SharedMemtable` | one number per logged write; log order and memtable order agree |
| `WalWriter`, `WalLog` | `current_log_size_`, file position, file | AddRecord, SeekBegin, Init | called by client threads; file survives a restart | bounded file; a record lives until the ring comes round |
| `SharedMemtable`, `TaskWorker` | two task vectors, `memtable_`, `readonly_memtable_vec_`, `remove_N_`, `preRemove_N_` | addTask, Notify, the loop of `Run`, the destructor | clients push; the worker's own thread executes; a CompWorker bumps `remove_N_` | no task lost, doubled, overtaken or left lying; a table stays in memory until its view is there |
| `Memtable` | B-tree set of records, bloom filter, size | Set, Get, Delete | owned by one worker, then shared read-only with a CompWorker | last write wins; a delete is reported |
| `kLRUCache` | cold list, hot list, map, two usage counters | get, set, setEraseRecord | owned by one worker | get answers with the last set; counters equal list sizes |
| `Compactor`, `CompWorker` | round-robin index; per thread two vectors, an io_uring, the in-flight map | AddReadOnlyTable, the loop of `Run`: flush, level merge, completions | takes tables from workers; pushes views; tells workers to drop | every table flushed once, in order; the flush ends |
| `SSTableManager` | per number the SSTables by level | newSSTable, newCompactionSSTable | called by CompWorkers | the slot asked for exists |
| `MemTableViewManager`, `MemTable_view` | per number the views, a mutex, `isCompaction_` | PushTableView, PushTableMergeView, getRequest | CompWorkers push; workers read | views in level order; the lock is given back |
| record formats (`key_format.cpp`, `comp.cpp`), Bloom filter | none of their own | encode, decode, format a log record, compare; insert, test | Memtable, CompWorker and views agree on the bytes | what was set is read back, from memory and from the file |
| hashes, CRC, append file (`src/util`) | position, partial results; a write buffer | hash, extend, add, append, flush | Bloom filter, sharding, log record, tests | every byte once, in order, none outside |
| logging (`src/base/log`) | per thread a logger with two buffers; one log thread | AddLogger, LogMent, the two loops, Stop | every thread | every line written once, in order; Stop returns |
| network (`src/net`) | map from descriptor to connection; timers with `running_` and an event | accept, read, write, event callback, connect, close; Run, Stop, Reset | libevent callbacks; the kernel reuses descriptors | a callback finds its own connection; nothing is leaked; a stopped timer is silent |
| Redis front end (`src/server`) | one request buffer for all connections | read, parse, check, dispatch, reply | the read callback; calls `DB` | a reply belongs to its request |
| Raft (`src/raft`) | term, role, vote counts on a fiber's stack | election timer, vote request, its handler | gRPC threads and fibers | terms come from elections (unfinished code) |

Hard here are: condition variables used without the mutex, counters shared without one,
vectors swapped between threads, completions out of order, a log written by racing
threads and continued after a restart, long call sequences on the cache, descriptors that
are closed twice, requests cut by TCP, and offsets computed from one size and used for
another. `hazards` in `PROJECT.json` lists each at its line with the properties aimed at
it.

## Modules

**TaskWorker** is one worker with its clients, one or more CompWorkers as far as they
touch it, and the destructor. A step is what a thread does between two accesses to state
another thread writes. `wpc` walks through the loop of `TaskWorker::Run`: `Loop`,
`Check` (the unlocked `empty()`), `Block`, `Swap`, one `Handle` per task, `EndHandle`,
`Count`, `Erase`, `Advance` (the three separate reads of `remove_N_`), `Clear`, `Rotate`,
`Retire`. `Publish` and `PushRemoveReadonlyMemtableContext` are the load and the store of
`remove_N_++`. The vectors and counters have the names of the code without the trailing
underscore; `submitted` and `handled` are history.

**TableLifecycle** is the abstract promise: per memtable number, tables are sealed,
published and dropped in order, and dropped only after being published. Both TaskWorker
and FlushPipeline are shown to implement it.

**FlushPipeline** composes the parts a table passes through: rotation, round robin, the
CompWorkers' vectors and rings, `SSTableManager`, the view manager and the entry of the
level merge. Out-of-range accesses, null dereferences and failed assertions end the
process and `status` says which. What the operating system decides (`open`, `fstat`,
`mmap`) and what the bytes of a file decide is a choice over the ends the code has:
`ViewInit` ends in a wrong level when the level is wrong, and otherwise in any of
`InitEnds`. For the bytes that the code writes there is one end, the null pointer of
`memtable_view.cpp:135` (`records_view` shows it from the bytes); the run also lets the
assertion of line 162 fail and lets `Init` return, so that its properties hold whichever of
the ends a change of the format leaves. The assumption `ViewAssumption` keeps the null
pointer among them.

**WriteAheadLog** is `DB::Set`/`DB::Delete` down to the bytes of the file, with `+=`
split into load and store and with the process killed at any point. Each file cell names
the record it belongs to, so "overwritten" is visible.

**KLRUCache** is the cache with its real list surgery: nodes with identities, key
pointers that can dangle, counters that wrap around. Nodes enter a list at its front only,
so a list is the set of its nodes and its back the node with the smallest identity. A call
runs from `pc = "idle"` through the turns of its eviction loops. `disturbed` remembers that
a key was set again or hit in the hot list: either leaves a second node of the key behind,
and the properties speak of what comes before.

**ReadPath** is what a worker's tasks do to memtable, read-only tables and cache,
including each run of a Get's callback. Here the cache is the map it is meant to be.

**KeyFormat** has the functions of `key_format.cpp` as operators on sequences of bytes:
fixed-width integers, varints, log records, common prefixes. **Records** is one memtable
number at the level of bytes: `Set`, `Delete` and `WriteTable` build records, the Bloom
filter and the SSTable file; `MemtableGet` and `ViewGet` read them. `ViewInit` is
`MemTable_view::Init` as it is, with what it ends in: the limit of the seed (line 133), the
null pointer it leads to, and the comparison of the number of rows with the number in the
header (line 162). `ViewRows` is its loop over the rows. `InOrder` lists the records as the
btree_set does, by the number of records that come before each. The hash values of a key
are the parameter `Hashes`; the numbers that requests carry are the parameter `Numbers`.
`HasRoom` says of one write that its number takes the width that `SetRecord` leaves for it.

**HashReads** keeps of FarmHash and CityHash the choice of the path, the loops and the
address of every fetch: a function of the source is an operator that returns the places
it reads. **Crc32** uses that a CRC is linear: a `uint32_t` is the set of terms it is the
sum of, and a table lookup adds to the power of a term. **XXHash64** is the streaming
interface with bytes named by their place. **AppendFile** is the buffered file, with an
`Init` that may fail and may be called again over an open descriptor.

**LogThread** has a logger per thread with its two buffers, the log thread with both its
loops (`isSync` or not), threads that end, and `Stop`. `Increments` says whether a line is
counted in `sumWrites_`: the code never does (`{0}`); with `{0, 1}` the sweeps that depend
on the count become reachable too, and the properties hold for them as well.

**RedisProtocol** is the parser and `check` over bytes; a `string_view` is a place and a
length, so that it can reach outside a request. `Number` is `std::from_chars`: a sign,
digits, and 0 when there is no number or it leaves the range of an int. `Turn` is one turn
of the loop; as many turns as there are bytes tell whether it ends. **RedisServer** puts it
behind the read callback, the one buffer of all connections and a TCP stream that cuts and
joins. A view that begins or ends outside the buffer, a scan without end and the
`begin()` of an empty deque (`server.cpp:63`, after a lone `*1`) are ends of the process of
their own.

**NetServer** has connections with identities, the map by descriptor, a kernel that hands
out the lowest free descriptor, and active connections, whose `socket` or
`bufferevent_socket_new` may fail (`RunWithoutSocket`). **EventTimers** has both timer
classes; a callback may stop, reset or destroy its own timer. Both run on the loop's
thread; the tests that call them from a second one (`active_conn_test.cpp:40`,
`repeated_timer_test.cpp:39`) race with the loop on an unlocked map and inside libevent,
which is left out.

**Raft** has every read and store of `node_term_` as a step of its own: a vote request is
compared (`Handle`), refused with a second read (`Refuse`) or compared again
(`CompareAgain`). Detached fibers use locals of a fiber that has ended; the model lets the
memory be intact or ends the process.

`MC*` modules give small instances; `*Proofs` modules hold the theorems. MCEngine,
MCServices, MCBase and MCBytes each join modules that share no state: an initial state
names the part whose steps a behaviour takes, so that one run checks several components
and its states are the sum of theirs.

## Runs

Passing:

| Run | Instance | Shows |
| --- | --- | --- |
| `task_worker` | 2 clients, 2 keys, 1 CompWorker, table of 1 record, 3 tasks | tasks in order, erase only after flush and in range, TableLifecycle; a queued task is served unless the worker has already decided to sleep with nobody left to notify; a sleeping worker can be joined |
| `flush_pipeline` | 2 numbers, 2 tables each, 1 CompWorker, level limit 1, every end of `Init` | each table in one place and in its slot, always readable, TableLifecycle, every table handed over is written or the process has ended |
| `engine` | log: 1 client, records of 1 and 2, threshold 7, 8 records, 2 restarts; tables: 2 keys, 2 values, 4 writes, 2 rotations; cache: 3 keys, room for 2 cold and 1 hot record, each set up to twice, 4 gets | the file stays below threshold plus one record and a record survives one round; every Get is answered, once or twice, and the tables answer from the newest one with the key; until a cached key is set again or hit in the hot list, the cache's answers, counters, map and lists agree in every turn of the loops |
| `services` | Redis: 2 connections, 8 requests, 3 sent, 1 cut read; Raft: 3 nodes, terms from 0 or 1, 2 campaigns | whole commands parsed as sent; replies show no foreign bytes unless a bulk string was cut; no term without a campaign |
| `base` | 2 descriptors, 3 connections, 2 Connectioners; a timer of either class, 2 runs; 2 logging threads, 2 lines each, both modes, threshold 3 | a callback finds its connection, keeps its socket, hang-ups free it; timers fire as asked; lines are written once and in order; Stop returns; what it leaves unwritten |
| `bytes` | keys of 1, 2 and 128 bytes, values of 1 and 128, numbers 0 and 128, 3 writes, 2 levels; hash lengths to 1000; CRC lengths to 70 at 4 alignments; streams to 140 in pieces to 70; 3 appends of up to 12 around a buffer of 8 | memtable and file hold what was written; a log record names one request; prefixes are longest; hashes and CRC use every byte once, in order; appends reach the file in order |

Violations, each a disagreement between the code and something the repository says about
it (quotes and lines under `findings`):

| Run | Shows |
| --- | --- |
| `task_worker_lost_wakeup` | a notification between the emptiness test and `cond_.wait` is lost and the task stays queued |
| `records_number_width` | with the values and numbers of `memtable_test.cpp`, from number 128 on Get does not return what was set |
| `records_view` | `MemTable_view::Init` builds a view of no file |
| `wal_numbers` | two clients of `DB::Set` log two records with one number |
| `read_path_last_write` | of two Sets of a key in one memtable the first is read |
| `redis_set_refused` | a complete SET is refused by `check` |

Four further configurations report a violation when TLC is run on them:

| Configuration | Module | The code does | The repository says |
| --- | --- | --- | --- |
| `FlushPipelineOrder` | FlushPipeline | two writes that complete in the other order give a view the wrong level (`compactor.cpp:178`) | `assert(cur_lev == cur_level_)` (`memtable_view.cpp:130`) |
| `WriteAheadLogRace` | MCWriteAheadLog | two threads past the threshold test: the second seek overwrites the record just written (`wal_writer.cpp:39`) | writing continues from the start of the file (`doc/kvengine_design_cn.md:162`) |
| `KLRUCacheTest` | MCKLRUCache | a hit in the hot list leaves an empty node that later answers a get (`klrucache.cpp:65`) | `ASSERT_EQ(v, iter.second)` (`klrucache_test.cpp:101`) |
| `ReadPathCache` | MCReadPath | a stale cache entry replaces the memtable's answer (`shared_memtable.cpp:82`) | the memtable comes first (`doc/kvengine_design_cn.md:6`) |

Other disagreements are part of the models and show in the statements of their
properties or in the value of a `status`.

- FlushPipeline: a table can lose its third owner before
  `assert(memtable_.use_count() == 3)` (`use_count`); with two CompWorkers `newSSTable` may
  be asked for a slot that is not there (`sstable_vec`); a level merge without views reads
  element 0 of an empty vector (`merge`).
- WriteAheadLog: the file passes its capacity by up to a record (`FileBounded` is the true
  bound); after a restart the log is overwritten from its start (`KeptUntilRestart` says how
  far the guarantee goes).
- ReadPath and Records: `Delete` stores
  `StatusCode::kDelete` where `Get` looks for `kTypeDeletion` (`memtable.cpp:153`), so a
  deletion reads as an empty value; a Get may be answered twice (`GetIsAnswered`).
- Records and KeyFormat: the CRC of a log record is computed before its fields are filled
  (`key_format.cpp:85`); `kFlagLogEnd` ends at its first NUL (`wal_writer.hpp:37`); the
  key count of a file is written as its width (`compactor.cpp:266`), so that a reader that
  got there would fail `assert(all_key_size == memMapView_.size())`, and from 128 keys on a
  blank byte stands between the filter's size and the filter (`FileReadsBack` speaks of
  smaller tables). `SetContext(key, value)` leaves `number` uninitialised
  (`request.hpp:32`).
- KLRUCache: `Init` leaves the usage counters uninitialised (`InitialUsage`).
- LogThread: `sumWrites_` is never incremented, so that nothing is written before Stop
  (`logthread.cpp:110`); the synchronous loop writes the wrong buffer of an ended thread
  (`logthread.cpp:216`); after a `pop_back` the sweep may index past the end (line 115);
  `sumWrites_ = 0` resets the pointer, not the counter (`logger.hpp:135`), and the next
  line dereferences null.
- RedisServer: the end of an array header is looked for from the start of the buffer, so
  that the scan may go back and never end (`redis_protocol.cpp:90`); `Server::Init` never
  calls `db_.Init`, so that a SET or GET that got past `check` would end in a null pointer;
  a GET would reply with the key (`server.cpp:87`).
- NetServer: `CloseConn` leaves `isRunning_` set and the descriptor is closed again by the
  destructors; `getConn` makes a null entry for an active connection.
- EventTimers: a RepeatedTimer stopped in its own callback is armed again; a SingleTimer
  cannot be reset in its own.
- Raft: a request with the receiver's own term falls off the end of a function that must
  return a value (`raft_service.cpp:36`); no vote is ever granted; a late store may lower a
  term although `raft_node.hpp:93` asserts that it grows; the clock multiplies seconds,
  10^6 and microseconds (`raft_node.hpp:52`).

*Bounds.* `MaxTasks`, `MaxTables`, `MaxRecords`, `MaxRestarts`, `MaxRotations`, `MaxSets`,
`MaxGets`, `MaxLines`, `MaxRequests`, `MaxCuts`, `MaxConns`, `MaxFd`, `MaxRuns`,
`MaxCampaigns`, `MaxOps`, `MaxLevel`, `MaxAppends` and `MaxOpens` bound how long a run is,
`MaxLen`, `MaxBytes`, `MaxTotal`, `MaxPiece` and `MaxSize` how long an input is.

- Three tasks with tables of one record give two rotations, a flush of the first during
  the second, and tasks queued during every phase of the loop. Two tables per number are
  enough for a batch of two in one ring and for the level limit to be passed. Eight
  records of total size above the threshold wrap the log. Two rotations give two read-only
  tables to search.
- Two sets of each of three keys and four gets let the cache evict from both lists, demote
  and go on past the calls after which the code goes wrong (`KLRUCacheTest`, and the second
  set of a key listed under `hazards`). The numbers 0 and 128 with values of 1 and 128
  bytes give `bytes` records whose number has the width left for it, is wider and is
  narrower.
- Keys and values of 128 bytes have sizes of two bytes, the others of one. The string hashes
  have no case that begins above 1000 bytes: the largest threshold is 512 and the loops
  have blocks of at most 256. A CRC of 70 bytes passes through all loops at every
  alignment; 140 bytes fill the buffer of XXHash64 four times.
- Two descriptors and three connections force reuse; two lines fill either buffer of a
  logger; one cut is enough to leave a view pointing into an older request.

Deadlock checking is off: with bounded calls every run may stop.

*Fairness.* The worker, a client that has pushed but not yet notified, and a destructor
that has begun are scheduled (weak fairness); nobody must call in, no wake-up is spurious
on demand, and a flush may take for ever. In `flush_pipeline` CompWorker threads run
(their wait times out after two seconds), submitted writes complete, a rotation that has
begun ends, and a worker comes to its erase loop. The number of tables is bounded there,
which hides one hazard: completions are examined only when there is nothing to flush, so
the property speaks of the write and not of the view. In
`base` the log thread runs, and its wait ends after a second whether or not it is
notified. In `base` the event loop reports a hang-up that stays (epoll is level triggered).

*Mutants.* Every property of a passing run has a mutant: a plausible slip in one mapped
definition (a missing clear, a swapped difference, an unreset index) that TLC must catch
with it.

## Proofs

All for arbitrary constants, from the ASSUMEs of the component modules. Every inductive
invariant was checked with TLC on small instances before it was proved.

*TaskWorkerProofs.* `TypeCorrect` is by induction on its own. `OrderCorrect`
(`[]TasksInOrder`, any number of clients) needs `QueueShape`: `handle_vec` is empty
outside the handling pass and fully handled when it is cleared; without it `Swap` and
`Clear` could lose tasks. `EraseCorrect` (`[]ErasedOnlyAfterFlush`) and
`EraseRangeCorrect` (`[]EraseInRange`) assume a single CompWorker, the default of
`DBConfig`, and use `RemoveInv`: it relates the counters at every point between the three
reads of `remove_N_`. The key fact is that between `Erase` and `Advance` at most
`preRemove_N + size` tables are gone and `preRemove_N + size <= remove_N <= published`. A
late `Advance` may skip increments, which keeps tables too long and never drops one too
early. `LifecycleRefined` shows with the same invariant that every step is a step of
TableLifecycle or a stutter.

*FlushPipelineProofs.* For any numbers of memtables and CompWorkers: `TypeCorrect`,
`OnceCorrect` (`[]FlushedOnce`), `ReadableCorrect` (`[]AlwaysReadable`) and
`LifecycleRefined` (`KeepsTableLifecycle`). They share `FlushInv`. Its `Levels` says that
read-only vector and views of a number are in level order and overlap or meet, `remove_N_`
being the number of views. `Pending`, `Apart`, `Distinct` and `NoneLost` say that what has
been handed over and has no view is at one place of one stage of one CompWorker. They are
inductive only with `BatchOnly`: the second vector is empty outside a batch, or the swap
would lose what is in it. The proof goes stage by stage: each step of the path takes a
table out of one stage and puts it in the next. `InOrderCorrect` (`[]FlushedInOrder`)
assumes `task_workers_n = 1` (`dbconfig.hpp:38`), for with two CompWorkers it is false
(`sstable_vec`, under Runs). `OrderInv` says that both vectors are in level order, the one
being serialised before the other, and hold just the tables without an SSTable.

*WriteAheadLogProofs.* `TypeCorrect`, and `BoundCorrect` (`[]FileBounded`) for one client:
`RingInv` says how far the file position may be ahead of the count (at most one record,
the one a wrap forgets) at every point of AddRecord. A restart moves the position to 0
and keeps the bound. `KeptCorrect`
(`[]KeptUntilRestart`) for one client rests on `KeptInv`. `CountInv` is the other side of
`RingInv`: no more bytes are counted than the position has passed, so a wrap never comes
early. `RoundInv` then places every record: one of this round lies where the bytes before
it say and is intact; one of an earlier round is still ahead of the position, or so many
bytes have been written since that the property no longer speaks of it. All of it holds
until the first restart only, as the property does.

*ReadPathProofs.* `AnswersCorrect` (`[]GetIsAnswered`) follows the context of a Get through
its four stages: `InStep` says that an answer comes with one or two calls of the callback
and no answer with none. `LookupCorrect` (`[]LookupIsOfNewestTable`) rests on
`TablesInv`: each table holds for each key one of the writes made while it was the
memtable (the first, `KeepsFirst`), and each key ever written has a decisive write; `Rotate`
moves the memtable's part of it to the new read-only table.

*UtilProofs.* About LogThread: `LinesCorrect` (`[]LinesInOrder`) and `StopCorrect`
(`[]StopWritesAll`) for any threads and numbers of lines. `Loggers` says that no logger is listed twice, so
that no buffer is written twice; `OtherEmpty` that only the logger the log thread is in
has lines in the buffer it swapped out, so that the next swap keeps their order;
`RemovedDrained` and `PassedDrained` what a sweep and the two final passes leave behind.
About KLRUCache: `AnswerCorrect` (`[]AnswerIsLastSet`) and `ConsistentCorrect`
(`[]CacheIsConsistent`) for any keys, values, capacities and calls, of a cache that is
`WellConstructed`: counters that start from 0, as the two-argument constructor makes them,
and two capacities above 0. With capacity 0 every loop condition is true and the loops run
past an empty list. `CacheInv` says, until a key is `disturbed`, that each cached key has
one node and the map names it (`OneNodePerKey`), that each counter is the weight of its
list, and that both lists together stay within the sum of the limits, although inside a
loop one of them is over its own (`UsageIsWeight`); without the sum a counter could wrap.
A hit, a demotion and an eviction move or take out one node (`MoveKeeps`, `PopKeeps`), so
that no counter wraps around, no loop comes to an empty list and no pointer dangles
(`NothingUndefined`).

*NetProofs.* `TimersCorrect` (`[]TimersFireAsAsked`) for any timers: an event in the queue
belongs to a running timer or to a repeated one stopped in its own callback, and the calls
of a single timer with the pending one are no more than its runs. `CallbacksCorrect`
(`[]AcceptedFindsItself`) and `SocketsCorrect` (`[]AcceptedKeepsItsSocket`) for any
descriptors, Connections and Connectioners: `EntryNamesItself` says that an entry of the
map is under its Connection's own descriptor, and `HoldsActive` that Connectioners hold
active Connections only; without it a Connectioner's close could be that of an accepted
Connection.
`TermsCorrect` (`[]TermsAreEarned`) for any set of nodes, any bounds and any
set of initial terms that has a greatest member. Loads and stores of `node_term_` are not
one step, so `TermInv` also bounds the terms a handler or a fiber has loaded and not yet
stored and the terms carried by requests and replies; a late store of an old term can then
lower a term and never lift it past the campaigns begun.

The theorems about the Redis front end are for any buffer, clients, requests and cuts of
the stream. The parser's loop is a recursive function, so they need induction over data.
The library's induction theorems take operators, but an induction over a set of numbers can
be stated without one: `Upward` has the set of the numbers that have the property, from the
least element of its complement, and `Iteration` shows with it that a recursion over
`0..n` has a solution. `OwnBytesCorrect` (`[]NoForeignBytes`): `GoodViews` says that every
view the loop adds is the word Error, lies in the bytes read or is the text of a bulk
string; the last reaches further only if the read ends inside it. `CommandsParsed`
(`[]ParsedAsSent`): `Layout` places every bulk string of a command in its encoding
(`EncodeFacts`, by induction over the arguments); `Walk` follows the loop over them, four
turns for each, whatever stands behind the command in the buffer; `CommandTexts` reads the
arguments off the views. The invariant is `RedisTypes`: above all, every path leaves the
offset at the front of the buffer.

*BytesProofs.* `AppendsCorrect` (`[]AppendsInOrder`) for every buffer size.
`PiecesComplete` shows that what an Append writes and keeps are buffer and data whichever
way it takes, `WrittenBefore` that write leaves what is before the offset; both need that
the offset is inside the file and that the buffer is never full between calls.
`HashCorrect` (`[]HashOfBytesInOrder`) for every input and every way to cut it: `XXInv`
says that lanes and buffer together are the stream, the lanes have whole blocks and the
buffer less than one; `DigestIsBuffer` that hash() uses the buffer up. `CrcCorrect`
(`[]CrcOfBytesInOrder`) for every length and alignment: `CrcInv` says that in the word
loops the bytes read so far are shared out between the four partial results, the i-th of
which is the CRC of its bytes as if the data ended `16 - 4i` bytes before the read
position (`Dealt`). A stride keeps that, the rotation keeps it four bytes further on, and
each fold of `Combine` brings one partial result to where the next one stands. `HashReadsCorrect` (`[]HashReadsTheKey`) for every length of the key and
every build: each of the functions reads the interval of the key, no more and no less.
`TilesJoin` joins pieces of one width to one interval, `ReadsBlocks` does a loop and what
it leaves over, and a lemma per path puts the intervals of that path together. The
invariant is only that the length is a number and that SSE4.2 brings SSE4.1 with it,
without which a function of a namespace would not be there.

*RecordsProofs.* For all keys and values shorter than 2^32 bytes (`KeyAssumption`; the
formats keep sizes in a uint32_t), all numbers of requests below 2^32, any filter size and
any hash values.
`LogNamesRequestCorrect` (`[]LogNamesRequest`): `SetIsLaidOut` and `DeleteIsLaidOut` say
where the fields of a log record stand. A Set's sizes are four bytes each, which determine
them. A Delete's are decimal digits of variable width in front of the key, so that a text
could be cut in two ways; `LongerKey` shows that a longer key never has the shorter record
(`DigitsGrow`), so that there is one cut. `GetCorrect` (`[]GetReadsBack`) has no condition
on the widths: the statement itself asks for the very bytes of a value where the number has
room (`HasRoom`) and for its length in any case, which is what the layout gives
(`records_number_width`, under Runs, is why it cannot be more). `Encode32`, `Encode64`,
`Decode32` and `End64` are the round trip of a varint, `HeadsWritten` and `HeadsRead` that of
a record's fields; `SetReadExact` and `SetReadSome` are a record read back with and without
room, for each `Overwrite` keeps what it does not overlap. `SetKeeps` and `InsertKeeps` show
that a bit once set stays set. The invariant `MemInv` relates map, filter and history
(`Stored`): each record reads as one of the writes of its key, and each written key has a
record and matches. `PrefixCorrect` (`[]PrefixIsLongest`) reads the rows off the same
invariant: `InOrderLists` shows that the places of the records are all taken, so that the
rows are every record once and in ascending order (`StoredRows`), and `SharedIsLongest`
that the neighbours' common bytes are those of all. `FileCorrect` (`[]FileReadsBack`) is
about the writer: the file has the level, the filter and the rows where its format says.
It says nothing of `MemTable_view::Init`, which does not get to them. `HeaderRead` takes
the header field by field, each where the one before it ends; `ViewRowsAt` unfolds the loop
over the rows, whose recursion has a solution because it only goes forward; `FlattenLines`
says where the rows stand in the file and `RowsCut`, from the last row back to the first,
that the loop cuts out just these; `FewRows` bounds their number by that of the keys. The
invariant `FileInv` adds to `MemInv` that the file of each level reads as its table
(`IsTable`), which a flush takes over from `Stored`.

Only model-checked: liveness (a queued task is served, a table is written, Stop returns,
hang-ups free a connection), which the prover does not reach.

## Not modelled

- Configuration parsing and the read-only file: read once, no state.
- Results of io_uring completions: the code does not look at them. A file of an earlier
  process is opened without `O_TRUNC` (`sstable.cpp:38`).
- A failing `open` of the log file: `WalLog::Init` warns and goes on.
- The level merge from its row loop on, and `PushTableMergeView`: the merge needs two views,
  and no view gets built. Its loop drops what the longer view has left, keeps the older row
  of a key and fills the new filter through an iterator that has moved on
  (`compactor.cpp:414`). `getRequest` finds no view for the same reason; with one it would
  return with its mutex locked (`memtable_view_manager.cpp:68`).
- Second threads that run a Connectioner or a timer beside the loop, as two tests do.
- What lies behind the NUL that ends a string: a field that is read past the end of its
  record reads zeros.
- Snapshots (the worker ignores them) and recovery (`recovery.cpp` is empty).
- The mixing steps of the hashes and the contents of the CRC tables: what is modelled is
  which bytes go in and in which order. FarmHash's self-test is not compiled.
- Formatting of log lines and rolling of log files; `WalLog::ReadLog`, which only tests
  call.
- Utilities without behaviour of their own (time stamps, random numbers, noncopyable),
  vendored code and tests.

## Plan

1. WriteAheadLog composed with TaskWorker: log order against memtable order, once there is
   a recovery that depends on it.
2. MemTableViewManager with its mutex, once views can be built.
