# OmegaDrive: a verification development

TLA+ models of OmegaDrive (`src/omega`), the TLC runs that check them on small
instances, and theorems proved with TLAPS. Line numbers refer to the files
under `src/omega/src/` unless a path is given.

## 1. The system

One process. Every CPU core runs its own single-threaded tokio runtime that
accepts RESP connections on a shared port (main.rs:262-335). All of them share
one `DashMap` keyspace, one vector store and, with `--hdd`, one channel to a
persistence thread. A further thread serves WebSocket subscribers.

| Component | State it keeps | Operations | Talks to |
|---|---|---|---|
| **Gateway**: `handle_connection` (main.rs:341-609) | per connection: read and write buffers, tokens of the lite tier. Shared: `db: DashMap<Vec<u8>, NeuralValue>` | SET GET MSET MGET DEL EXISTS HMSET HGETALL VADD VSEARCH FLUSHDB, and PING SELECT INFO ZADD, which keep nothing | stores into `db` and the vector store, then calls `broadcast_update`, then `tx.send` to the persistence thread; replies without waiting for either |
| **FlatHash** (hash_engine.rs) | the packed bytes of one hash | serialize, merge, write_hgetall_resp | called by the gateway and the replay |
| **Cipher** (inference.rs) | key stream tables | forward_cascade / reconstruct_cascade (ChaCha20 + XOR), forward_raw (XOR) | called by the gateway and the replay |
| **RESP parser** (resp.rs) | none | parse_command_fast, parse_bulk_str, parse_int | gateway (network bytes) and replay (file bytes) |
| **Neural persistence controller**, NPC (persistence_neural.rs:195-338) | `batch_buffer`, statistics, the weights of a 20-8-1 network | drain the channel, decide, write_all + sync_all with retries, learn | reads the channel, appends to `omegadrive.aof` |
| **Boot-time replay** (main.rs:178-247) | none | parse the file, apply every command | fills `db` and the vector store before the workers start |
| **Vector store** (vector_store.rs) | shards behind read-write locks: keys, bits, floats, block signatures; an atomic `write_counter` | add, len, clear, search_reranked, search | called by VADD, VSEARCH, FLUSHDB and the replay |
| **Accelerator** (accelerator.rs) | TOPIC_REGISTRY: one tokio broadcast channel per key; per connection a bounded pipe, a pusher task, a reader task, a forwarder task per topic | broadcast_update, subscribe | called by SET and MSET; sends to WebSocket clients |
| **OmegaEngine** (lib.rs) | index, table_index, next_pool_idx of a Python extension | register_cell, set, remove, clear ... | Python callers, under the GIL; the server does not use it |
| WebSocket demasking (ws_opt.rs), telemetry (telemetry.rs), licence tiers, CUDA kernel, video_db.rs, benchmarks | see section 8 | | |

### What is hard here

* *Between locks.* A command is not atomic. SET is insert, broadcast, send;
  HMSET reads under one guard and inserts under another; FLUSHDB clears shard by
  shard; VSEARCH takes every shard's lock three times and keeps indices in
  between. Workers interleave at all these points.
* *A stream cut anywhere.* A read ends in the middle of a command; the header of
  an MSET parses before its arguments are there; what cannot be parsed looks
  like what is not yet complete, and an argument no command reads may look like
  the next command.
* *Order.* Memory, topics and log each see the writes of a key in an order of
  their own.
* *Failing disk.* A failed write or fsync is retried by writing the WHOLE batch
  again behind whatever the first attempt left; nothing is truncated.
* *Crashes.* The file's tail may be missing or cut inside a record, and the
  restarted process appends behind it; the replay recognises a cut record only by
  failing to read it, so that it may misread one.
* *Bounded queues.* A topic's ring overwrites; a connection's pipe makes its
  forwarders wait for each other.
* *Liveness.* The persistence thread commits only when a stochastic network
  says so, and every commit makes the network less inclined to the next one.
* *Bytes.* Log records, packed hashes, enciphered blocks and cells are written by
  one function and read by another, at boundaries both must agree on.

### What makes each component correct

* Gateway: at rest memory, log and topics agree on a key; no command is left
  half done or unlogged.
* NPC: nothing is lost, repeated or reordered between channel and file; what was
  committed is covered by an fsync and stays; writing a batch again does no harm.
* Replay: gives back what the committed commands asked for, nothing older, and
  nothing that was never asked for; all keys as of one moment. (In the code, only
  of a file with no cut record that it misreads: section 7.)
* Server: a restart gives back what clients saw once it was committed, and all
  of it is committed in the end. (In the code, also only while the network has
  not unlearned to commit.)
* Vector store: no index is used after its shard changed under it; scores belong
  to keys; a vector is missing from an answer for a reason only; the shards stay
  even; FLUSHDB is final.
* Accelerator: order, no silent gaps, no cut subscriptions, everything the ring
  keeps arrives.
* OmegaEngine: no two cells share a slot, a table lists what it holds, and it
  arrives at the caller as it is.
* Formats: what was written reads back, whatever bytes it holds; a record cut
  short does no harm beyond itself. (In the code, only if its arguments hold no
  `*` and nothing behind it completes it.)
* Connection: what is executed is what was sent, in order and once, however the
  stream is cut; each command is answered and no answer is held back; the lite
  tier keeps its rate. (In the code, up to the first argument that its command
  does not read and that begins with `*`.)

The hazards behind these, each at its line, are the list "hazards" of
`PROJECT.json`.

## 2. Modules

| Module | Models | State and actions against the code |
|---|---|---|
| `Keyspace` | NeuralValue, PersistenceCommand, `FlatHash::merge`, the effect of one replayed command, what GET/MGET/HGETALL answer | no state. `ApplyKv`, `ApplyVecs` are the arms of the replay loop; `HmSetOver` is main.rs:520-532; a string carries the cipher it was stored with |
| `Gateway` | the command handlers of all workers | `db`, `vecs`, `topic` (last payload broadcast), `chan`; per worker `pc`, `cmd`, `rest` and what it read (`merged`). An action is what happens under one lock: `InsertPair`, `PublishPair`, `SendPair`, `Remove`, `ReadHash`, `InsertHash`, `ClearShard`, ... |
| `PersistenceNeural` | the NPC's loop, the file, crashes, the replay of a file | `chan`, `batch`, `npc` (the place in the loop), `file`, `synced`. Actions `Drain`, `Drained`, `Commit`/`Wait` (the network's two answers; `drive` is its inclination, `prob` its odds in this turn), `WriteAll`/`WriteFails`, `SyncOk`/`SyncFails`, `Crash`; the operator `Replay` |
| `DurableLog` | what the thread promises, without file, batches and retries | `pending`, `settled`, `kept`; `Accept`, `Settle`, `Restart`. PersistenceNeural implements it: pending is the batch and the channel, settled is what was committed, kept is the part of the file an fsync covered |
| `Bytes` | what the formats share: parts joined to a buffer, a u32 in four bytes, big and little endian | no state |
| `Resp` | the bytes of a logged command: `to_resp`, `parse_command_fast`, and the scan of the replay | no state; a byte is its number. `ParseInt` wraps at `IntLimit` |
| `LogBytes` | the entries of PersistenceNeural's file as those bytes | EXTENDS PersistenceNeural and Resp |
| `FlatHashBytes` | the packed buffer of a hash: `serialize`, `merge`, `deserialize_into_resp` | EXTENDS Gateway, whose hashes are functions from fields to values |
| `Cipher` | the blocks of a string: routing, padding, XOR, cascade, and what the GPU kernel does differently | no state; router and ChaCha20 are parameters |
| `OmegaDrive` | the server with `--hdd`: Gateway's workers and PersistenceNeural's thread joined by `chan`, crash and replay of both | EXTENDS Gateway, `P == INSTANCE PersistenceNeural`; what a worker sends is appended to `sent`; `CrashAndReplay` loads `db` and `vecs` from `P!Replay(file')` |
| `Connection` | the loop of handle_connection around the commands: read buffer, parser, limiter, write buffer | `wire` (the socket), `buf`, `pos`, `wbuf`, `tokens`, `lastRefill`, `pc`; `executed` and `replies` are lines of `stream`, what the client sent. `Read`, `Charge`, `Sleep`, `Execute`, `Skip`, `Break`, `Flush`, `Drain` are the pieces of main.rs:357-608 |
| `VectorStore` | add with its block signatures, quantize, len, clear, search_reranked with its pruning | `store`, `blocks`, `counter`; per worker the step of its call and the candidates it holds. An action is one critical section or one access to the counter; `HeapOf` is the scan of one shard, block by block |
| `Accelerator` | registry, rings, forwarders, pipes, pushers | `published`, `pos`, `pipe`, `delivered`, the state of each task. An action is what a task does between two awaits |
| `OmegaEngine` | the cell index of the Python extension and the formats a table leaves it in | `index`, `table_index`, `next_pool_idx`; `RegisterCell`, `SetCell`, `RegisterBatch` (which may fail half way), `Remove`, `Clear` are the methods of lib.rs:55-110, one at a time under the GIL; `Export` chains get_table_data, pack_cells_to_bytes, batch_decode_to_blob and pack_columnar_data_blobs |
| `GatewayProofs` (Gateway, Cipher and FlatHashBytes), `PersistenceNeuralProofs` (the log, its refinement, what a replay gives back, and the bytes of LogBytes), `VectorStoreProofs`, `ConnectionProofs`, `AcceleratorProofs`, `OmegaEngineProofs`, `OmegaDriveProofs` (the two joined) | theorems about the modules they are named for | |
| `Induction` | induction and primitive recursion over sets of numbers and over sequences, elements and slices of sequences, what stands where in a buffer of joined parts: what the proofs share | |
| `MC*` | the instances TLC checks | |

The composition of the modules: OmegaDrive joins Gateway and PersistenceNeural;
MCGateway checks Gateway, FlatHashBytes and Cipher together, MCPersistenceNeural
PersistenceNeural, Resp and LogBytes.

History variables (`given`, `unlisted`, `logKv`, `lastRec`, `sent`, `committed`, `boot`, `atStart`,
`doomed`, `gone`, `calm`, `skipped`, `start`, `missed`) record what the properties refer
to; no guard of a modelled step reads them, except that `Len(sent)` bounds
`Enqueue`. Definitions marked "mutant of" are plausible bugs; no specification
uses them, they show that the properties can fail.

### Abstractions

* A value, a field and a key are model values. Ciphers: only which one was used.
  Keys that are not UTF-8 are those outside `Utf8Key` (main.rs:476 skips them).
  MSET with such a key stores it but neither broadcasts nor logs it.
* A parsed command of the gateway never names an empty value. Its hashes are
  functions from fields to values; their packed bytes are in `FlatHashBytes`, for
  HMSETs of up to `MaxPairs` pairs, fields repeated or not.
* The policy network is `drive`, how inclined it is to commit, and `Odds`, the
  probability it answers for that and for the `Load` it is shown (the 20 numbers of
  its state: queues, times). Either answer may come at any time, the commit only if
  its odds in this turn are above 0. `update_weights` multiplies the reward by
  (action - probability), and every reward is negative: a commit lowers `drive` by
  its size and the time it took (`AfterCommit`), a wait raises it by the length of
  the queue times the odds (`AfterWait`), both rounded as f32 rounds (`Grain`). The
  numbers of the state are never negative, so that a step of learning moves the sum
  under the sigmoid the same way for every load; hence `Odds` grows with `drive`
  under each load, and below some inclination it is 0 under all of them
  (`PolicyAssumption`). It may be 0 under one load and not under another. Which
  weights are moved is left out. A simulation of the network in f32, with the
  weights and the generator of the source and a batch committed per decision,
  reaches odds of 0 at a thousand commands a second, and after one commit of about
  100 000 records.
* The file is a sequence of entries: whole records, and records that a failed write
  or a crash cut short. Of a cut record the replay finds nothing, and it finds what
  was written behind it ("torn"); or it misreads it ("misread"), in one of two ways.
  The `eats` records behind it may supply the line end of the argument that was cut,
  so that they are taken for part of it. And the part of a value that is left may
  hold commands, which the scan executes, since it tries every byte that is a `*`
  (main.rs:188-238). A misread says what is executed at its place, before (`alone`)
  and after (`joined`) the records it eats are there. Which misreads a record has
  depends on its bytes: the runs take some (`Misreads`), the theorems any.
  `LogBytes` derives from the bytes where a cut record is torn: wherever no
  argument holds a `*` and nothing behind it completes it.
* `fsync` covers the file as it is; without it a crash keeps any prefix.
* A vector is a key and a few integers for floats; its bits are their signs, its
  score is the dot product cut at the largest i32. All searches ask for one
  query. Vectors have exactly `Dim` floats.
* A connection's bytes are lines, and a line that has arrived in part has not
  arrived: parser and skipping treat both alike. A request is a sequence of
  places, one for each of its lines: what the task makes of the stream if it comes
  to stand there. The line does not begin with `*` ("inline": it is skipped); or
  parse_command_fast reads a command of so many lines there ("whole"), or its header
  only ("batch": MSET, MGET), or never reads one ("bad"). A command's own arguments
  are never places where the task stands; those it does not read are: of an unknown
  command (`KEYS *`), of ZADD behind its key, of PING, the odd one of an MSET. What
  such a line begins may run on into later requests. Time is counted in units of the
  limiter's income; a token costs `Cost` of them, so that fractions of a token
  occur.
* In `Resp` a float is digits, text is bytes below 128, and the arms of the parser
  for commands the log never holds are left out.
* `MaxByte` in OmegaEngine is the 255 a length byte can say; the two length fields
  of four bytes are written in full. spec_idx is only handed through.
* A topic's payload is its number; the acknowledgement is number 0.

## 3. Runs

| Run | Asks | Instance | Result |
|---|---|---|---|
| `gateway` | do memory, log and topics agree at rest, whatever the interleaving; do hashes and strings read back from their bytes? | 2 workers, 3 keys in 2 shards (one not UTF-8), 2 values, 2 fields, 4 commands; HMSETs of 3 pairs; values of up to 5 bits in blocks of 2 | holds, about 190 000 states |
| `gateway_cipher` | is what one command stores readable by the others (README.md:9)? | SET, MSET, GET, MGET | violated: section 7 |
| `persistence` | what do failing disks and crashes do to the log; does the thread implement DurableLog; do the bytes of the log read back, whole records and cut ones? | 5 records in 3 spellings, 2 between starts, 2 faults, 1 crash, a SET that may be misread | holds, about 3.1 million states |
| `system` | does a restart give back what clients saw; is it reached? | 2 workers with a key each, 3 commands, 2 loads, 1 fault, 1 crash, a SET that may be misread in two ways | holds, about 410 000 states |
| `system_starved` | does a growing backlog get committed (persistence_neural.rs:330)? | the same, no fault, no crash | violated: section 7 |
| `system_shared` | does a restart give back what clients saw, with one key for both workers (README.md:73)? | 2 commands, no fault, no crash | violated: section 7 |
| `connection` | what becomes of pipelined requests, cut anywhere, on the lite tier? | 3 requests of 7 kinds, bucket of one token, 3 units of time awake | holds, about 1.4 million states |
| `vectors` | what do VADD and FLUSHDB do to a VSEARCH under way? | 2 workers, 4 vectors, 2 shards, blocks of 2, k = 1, 1 search, 1 FLUSHDB | holds, about 890 000 states |
| `vectors_recall` | is recall 100 % (README.md:65)? | 1 worker, 5 vectors, 4 shards, k = 1 | violated: section 7 |
| `topics` | order, gaps and arrival of updates and acknowledgements | 1 connection, 2 topics, ring of 2, pipe of 1, 3 messages a topic | holds, about 105 000 states |
| `topics_leak` | do the tasks of a closed connection end (accelerator.rs:68)? | 1 connection, 1 topic | violated: section 7 |
| `engine` | do slots, tables and the bytes of a table agree, failed batches included? | 2 tables, 3 pairs of names (one too long for its length byte), 3 slots, batches of 2, cells of 7 bytes | holds, about 770 000 states |

### What the properties say

* `MemoryMatchesLog`: on every key that one worker's clients write, and that no
  command is changing, `db` is what a replay of everything sent would give.
  `TopicMatchesMemory` says it of the last broadcast. With several writers of a
  key that is false (section 7), and `MemoryIsSomeLastWrite` is what remains:
  memory holds all of what some worker's last logged command asked for.
* `NothingDropped`: sent = committed, then batch, then channel.
  `CommittedIsDurable`: the committed records are in the synced part of the
  file, in order. `DurablePrefixKept`: no step changes that part.
  `KeyspaceMatchesCommitted`: outside a commit, replaying the file is the same
  as applying the committed records to what the last start found, whatever
  retries left in the file. `VectorsKept`: the replay gives each key at least the
  vectors the committed records add, and exactly those until a write or an fsync
  has failed (a second copy of a batch adds them again). `RecoveryIsFresh`: whenever
  the process or machine dies, each string and field comes back no older than the
  last commit and as the log once had it. `RecoveryIsAPrefix`: all of them as of one
  moment, unless the batch is being written a second time. These four say nothing
  of a file that holds a cut record the replay misreads (`CutsRecognised`): behind
  one, records that were committed may be lost and commands that nobody sent
  executed. Such files occur in the run, and the histories may pass through them.
* `ImplementsDurableLog`: the thread behaves, to whoever sends it commands, as
  `DurableLog` does.
* `WholeRecordsReadBack`: two whole records beside each other in the file are read
  as those two, whatever their bytes: line ends, `*`, a record inside a value.
  `PlainCutsAreSkipped`: where no argument of the records holds a `*`, nothing is
  executed of a cut record and what stands behind it is found, unless what follows
  happens to end the argument that was cut; then the value of a SET takes in bytes
  of the next record, which is lost, and nothing more. The other arguments are
  excepted where they are completed so. It says nothing of arguments with a `*`:
  there the replay may execute a part of them.
* `PackedHashesReadBack`: every hash in memory reads back from its packed form,
  fields repeated or not, and after any further HMSET, and HGETALL announces as
  many entries as it sends.
* `CipherReadsBack`, an assumption of MCGateway that TLC evaluates: the round trips
  of section 5 on all values of up to 5 bits, and a value the GPU path garbles.
* `RestartKeepsKeyspace`: when workers are idle and all is committed, a restart
  brings back what is in memory. `DurableUnlessStarved`: that is reached for
  good once the commands end, unless the network is asked again and again and from
  some moment on answers odds of 0 each time, with records waiting. Both except a
  file with a misread, as above.
* `NoPanic`, `ScoresBelongToKeys`, `MissingForAReason`: of a search that no
  FLUSHDB overlaps. `MissingForAReason` is what the two-phase search does
  guarantee: a vector that was stored at the start and is missing was outdone by
  k answers, crowded out of its shard by k vectors as near, or in a block the
  scan passed over with k vectors of the shard at hand. `BlocksCurrent`: every
  block is signed with the vectors it holds now. `ShardsBalanced`: until the first
  FLUSHDB the counter deals evenly. `ClearedStaysCleared`: what FLUSHDB found never
  comes back.
* `ExecutedInOrder`: no line is executed twice and the task never goes back. The
  commands executed are the requests sent that can be executed (`Answerable`: all
  with a header, up to the first that never parses), in order, and none is passed
  over, whatever the cuts and the headers parsed again; this up to the first line
  that its command does not read and that begins with `*` (`StrayBy`). Behind it
  only the first sentence is left: what stands there may be executed as a command
  nobody sent, and may swallow requests.
  `EachAnsweredOnce`: replies follow the commands one to one, and none is held
  back while the task waits for input. `RateBound`: cost of what was executed
  <= burst + 2 * time. The 2 is real: with 1 TLC finds a counterexample, because
  `last_refill` is the time before the sleep, so sleeping earns tokens.
  `EveryRequestAnswered`: each `Answerable` request gets its answer while the client
  stays; those behind a stray line or a command that never parses may wait for ever.
* `NoSilentGap`: messages of a topic arrive in order, once, none from before the
  subscription, and every number passed over is one the receiver was told it
  lagged behind. `NoSubscriptionCut`: neither
  lag nor a full pipe ends a forwarder while its client is there.
  `EveryMessageArrives`: each message arrives, or lagged, or the client left.
  `EverySubscriptionAcknowledged`: so does the acknowledgement of each
  subscription, though forwarders compete with it for the pipe.
* `SlotsNotShared`: no two cells have a slot the engine dealt out itself (a caller
  of `set` may name any slot it likes). `TableListsItsCells`: what a table lists is
  in the index, and what is in the index is listed unless set or a batch that
  failed stored it. `TablesArrive`: a table read through the four formats arrives
  name by name and value by value, values cut to their cell.

### Bounds, and why they are enough

* `gateway`: two workers make every race of two handlers; four commands let a
  command run between the halves of another and a third follow. Two shards let
  FLUSHDB be half way. MSET writes one key twice and two keys once.
* `persistence`: two records make a batch of two, two batches of one and every
  split of a batch by a failing write; two faults give a failed write followed
  by a failed fsync of the same batch (a batch on file up to three times); after
  the crash two more records are written behind the torn tail. `MaxSent` counts
  records between starts, so there are up to four in all. Every ordered pair of
  records, a cut one in front included, comes to stand side by side. A SET that is
  cut may be one whose value holds a FLUSHDB, which is executed until the record
  behind it is there and eaten; `Grain` is so large that the odds never change, since
  learning is the subject of `system`. `IntLimit` = 32:
  lengths of 32 and more wrap, and no record of the file reaches that, as none
  reaches 2^32 in the code; values are as long as it takes to be cut at each line
  end of the next record, empty, hold a line end, or are a record.
* `engine`: three slots give a slot named by `set` below, at and above the counter;
  a batch of two fails after none or one of its pairs, or names one pair twice;
  cells of 7 bytes hold two of a value, so that one is cut.
* `system`: three commands, so that one is under way while another is committed
  and a third waits. Of the four inclinations to commit the two upper ones
  have odds under both loads, the third under one of them, the lowest none; a commit
  of one record takes one step down or two, by the time it took, and a wait of two
  records goes one up. A cut SET is skipped, eats the record behind it, or has its
  value executed.
* `connection`: three requests give every pair of neighbours and one request
  behind an interrupted one. The seven are ZADD with a member it does not read,
  `KEYS *`, a request with an unread argument that is a command, one whose unread
  argument begins a command that ends in the next request, an MSET, a command with
  too few arguments and an inline one: each line the task can come to stand at,
  and requests that are swallowed whole or in part. A request of two or three lines
  is cut in every way there is; a write buffer of more than one reply overflows; after three units of time
  and the sleeps every branch of the limiter has been taken, fractions included.
* `vectors`: with two shards and k = 1 the shards hold more than the candidates
  they pass on; distances and scores disagree (`x3` has the best score and the
  worst distance) and tie (`x1`, `x4`). Where a FLUSHDB upset the counter a shard
  has three vectors in two blocks, and the scan prunes. `MinPool` = 2 stands for
  the 1000 of line 280, so that a shard holds more than its share. A search reads only, so one at a time
  meets everything another could do to it.
* `topics`: three messages overrun a ring of two, a pipe of one makes two
  forwarders and the acknowledgement compete. The real ring keeps 10 000
  messages, which tokio rounds up to 16 384, and the real pipe 1 024: nothing in
  the code depends on the numbers.

`CHECK_DEADLOCK FALSE` stands where the bounds themselves stop the model
(gateway, vectors, topics, connection). In the persistence, system and engine
runs deadlock is checked: the thread always has a step, and an engine can always
be cleared.

## 4. Fairness

`SystemLiveSpec`: weak fairness of every worker's current command, of opening
the file, draining, writing and syncing: each is a thread the kernel runs, and
none of these steps waits for another thread. `Commit`, which is enabled only
while its odds are above 0, has strong fairness: the network is asked again and
again while the batch is not empty, waiting never lowers its inclination (every
reward of a wait raises it or leaves it), and its answer compares the odds with a
number from an xorshift generator that passes through every value
(persistence_neural.rs:109-116, 148-152), so that a number below odds that come
again and again is drawn in the end. Nothing is assumed of odds of 0, nor of which
load is shown.
`WriteFails` and `SyncFails` are bounded by `MaxFaults`: the disk works in the
end. Nobody has to send a command, and nothing has to crash.

`AcceleratorLiveSpec`: the runtime polls tasks that are ready (weak fairness);
tokio's bounded channel wakes waiting senders in order, so that a sender that
waits gets a place if places keep being freed (strong fairness of `Ack` and
`Forward`). `Push` is weakly fair: a client reads its socket or closes it, so that a
socket that is open takes data in the end. Clients owe nothing else, and publishers
nothing at all.

`ConnectionLiveSpec`: the runtime polls the task when it can go on (weak fairness
of `TaskStep`), and time passes (`Tick`). A read, a write to an open socket and
the end of a sleep are all that it waits for. The client owes nothing.

## 5. Proofs

All theorems hold for every value of the constants that the assumption of the
module allows: `GatewayAssumption` (workloads consist of parsed commands, every
key has a shard), `PersistenceAssumption` and `PolicyAssumption` (records are
logged commands, misreads are of any form, bounds are naturals, odds grow with the
inclination and are 0 at its lowest), `ConnectionAssumption` (a client sends all
the lines its command reads, a token costs something, the bucket holds at least
one), `VectorAssumption` (at least one shard,
blocks of at least one vector, k >= 1), `AcceleratorAssumption`,
`EngineAssumption`, `CipherAssumption` (XOR undoes itself), `RespAssumption` and
`LogBytesAssumption` (keys and fields are text; lengths and numbers of arguments are
below `IntLimit`, 2^32 in the code, since they were parsed as u32 when the client sent
them; a vector and a hash have an element at least). TLC evaluates each of
them on the instances of section 3, and checked each inductive invariant as an
invariant of a run before it was proved.

| Module | Theorem | Property |
|---|---|---|
| `GatewayProofs` | `GatewayTypeCorrect` | `GatewayTypeOK` |
| | `MemoryIsSomeLastWriteCorrect` | `MemoryIsSomeLastWrite` |
| | `MemoryMatchesLogCorrect` | `MemoryMatchesLog` |
| | `TopicMatchesMemoryCorrect` | `TopicMatchesMemory` |
| | `CascadeRoundTrip`, `RawRoundTrip` | `CascadeReadsBack`, `RawReadsBack` of Cipher |
| | `PackedHashesCorrect` | `PackedHashesReadBack` |
| `PersistenceNeuralProofs` | `PersistenceTypeCorrect` | `PersistenceTypeOK` |
| | `PersistenceDropsNothing` | `NothingDropped` |
| | `PersistenceIsDurable` | `CommittedIsDurable` |
| | `PersistenceKeepsPrefix` | `DurablePrefixKept` |
| | `PersistenceRefinesLog` | `ImplementsDurableLog` |
| | `RecoveryMatchesKeyspace` | `KeyspaceMatchesCommitted` |
| | `RecoveryMatchesVectors` | `VectorsKept` |
| | `RecoveryFreshCorrect` | `RecoveryIsFresh` |
| | `RecoveryPrefixCorrect` | `RecoveryIsAPrefix` |
| | `WholeRecordsCorrect` | `WholeRecordsReadBack` |
| | `WholeFileCorrect` | `FileReplays`: a file in which nothing was cut is read as all its records |
| | `CutRecordsCorrect` | `PlainCutsAreSkipped` |
| `OmegaDriveProofs` | `RestartCorrect` | `RestartKeepsKeyspace` |
| | `SystemMemoryMatchesLog` | `MemoryMatchesLog` |
| `VectorStoreProofs` | `VectorTypeCorrect` | `VectorTypeOK` |
| | `BlocksCurrentCorrect` | `BlocksCurrent` |
| | `ShardsBalancedCorrect` | `ShardsBalanced` |
| | `ClearedStaysClearedCorrect` | `ClearedStaysCleared` |
| | `NoPanicCorrect` | `NoPanic` |
| | `ScoresBelongToKeysCorrect` | `ScoresBelongToKeys` |
| | `MissingForAReasonCorrect` | `MissingForAReason` |
| `ConnectionProofs` | `ConnectionTypeCorrect` | `ConnectionTypeOK` |
| | `ConnectionExecutesInOrder` | `ExecutedInOrder` |
| | `ConnectionAnswersEachOnce` | `EachAnsweredOnce` |
| | `ConnectionRateBounded` | `RateBound` |
| `AcceleratorProofs` | `AcceleratorTypeCorrect` | `AcceleratorTypeOK` |
| | `NoSilentGapCorrect` | `NoSilentGap` |
| | `NoSubscriptionCutCorrect` | `NoSubscriptionCut` |
| `OmegaEngineProofs` | `EngineTypeCorrect` | `EngineTypeOK` |
| | `EngineSharesNoSlot` | `SlotsNotShared` |
| | `TableListsCorrect` | `TableListsItsCells` |
| | `TablesArriveCorrect` | `TablesArrive` |

### Induction over data

The library states induction with an operator for the predicate, which none of the
provers here instantiates. `Induction` states it for sets: a set of numbers that
holds 0 and every successor is `Nat` (`SetInduction`, from the well-foundedness of
`<` on `Nat`), up to a bound (`IntervalInduction`), and for sets of sequences
(`SequenceInduction`). A recursion is a function there as well: `Folded(step, a, s)`
runs a step, itself a function, over a sequence; that such a recursion exists and is
the only one (`StepsExist`, `StepsUnique`, `RecursionUnique`) gives `FoldedEmpty` and
`FoldedAppend`, by which all proofs about replays and scans go.

### Gateway

`Control` ties the step of a worker to its command. `MemoryIsSomeLastWrite` speaks
of keys at rest only, and says nothing of a record that is due but not sent; so
`MemoryAt` says it, of every key, with `Owed`: the record a worker is about to send
if it has stored already, else the last it sent. Sending then changes nothing
(`SendMemory`), and the four steps that store make memory what the worker owes.
The other two need that nobody else writes the key (`Alone`). `LogAt` says how far
memory is ahead in the middle of a command: by the `Pending` record
(`ReplayOfKey`: what a record does to one key), and for HMSET that the hash
computed under the first guard is still the one to insert under the second, which
is where two writers would lose a field.

For the cipher, `PlaceInBlock` is the arithmetic of a place in its block, and
`BlocksJoin` says that padded blocks joined and cut at the value's length are the
value. That the GPU needs all blocks routed alike is a condition inside
`RawReadsBack`.

`PackedHashesReadBack` holds of every state, because it holds of every list of pairs.
Where each pair stands in the buffer is `PartsAt`; `PackedReadsBack` follows the
reader's loop from pair to pair (`EntryStep`) and shows that it ends with the list.
What such a list means, the last of several values of a field, is `Final`, and merging
two lists is merging their meanings (`BothMean`). The hypothesis `SpellingsFit` says
that the packed lengths and the number of pairs fit in their four bytes: longer ones
are cut by the code (`as u32`).

### The log

`CommittedIsDurable` is not inductive: when an fsync succeeds one must know that the
batch it commits is in the file behind everything synced before, and that the batch
is what comes next in the log. `DurableInv` adds both: `Accounted` (NothingDropped
index by index), `BatchWritten` (while an fsync is pending the file ends with the
batch, behind `synced` and `boot`), and `boot`, `synced` within the file. Each
action then preserves it: `FileGrows` (writes only append), `SurvivorKeeps` (a crash
keeps what was synced; it also empties the log's history, so the claim starts anew),
`DurableSyncOk` (the one step that commits), and `DurableKept` for the others.
`DurablePrefixKept` follows from the same invariant.

The refinement: every step but three leaves the abstract variables as they are or
moves a record from channel to batch, which is the same concatenation (`MoveHead`);
`Enqueue` is `Accept`, `Crash` is `Restart` (`SurvivorKeeps`), `SyncOk` is `Settle` of
the whole batch. That the batch is not empty then, and stands at the end of the file,
is `BatchAtHand` with `DurableInv`.

### What a replay gives back

The four theorems have no hypothesis but the assumptions of the module; that the
file at hand holds no cut record that the replay misreads is a condition inside the
properties (`CutsRecognised`), and a history may pass through files that do. So the
invariant must hold of every file, and it speaks of `Skim`, the replay that passes
over every cut record: a fold of `SkimEntry` over the file, so that a longer file is
skimmed by skimming what was added (`SkimAppend`, `SkimWritten`, `SkimCut`,
`SkimFurther`). `SkimIsReplay`: of a file that holds no misread the real replay,
which counts the records it was told to pass over, makes the same. A file without a
misread has none in its first part either (`PrefixRecognised`), hence the replay
that the process started with was skimmed too (`BootFound`).

The heart is why writing a batch again does no harm to the keyspace. Seen from one
key, any sequence of records leaves the value alone, replaces it, or merges one hash
into it (`EffectsKnown`, by induction over the sequence). Each of these done twice
is as done once (`MergeAgain`, `TwiceIsOnce`), and a part of the batch followed by
the whole is the whole (`PartThenWhole`). Of the vectors of a key, any sequence adds
some or decides how many there are (`VecEffects`), so that more at the beginning are
never fewer at the end (`VecsMonotone`) and a part of the batch in front of the whole
takes none away (`PartTakesNone`); that is all that can be said after a retry, and
`VectorsKept` says it.

`RecoveryInv` holds `DurableInv` and, with `SettledKv` and `SettledVecs` for what the
committed records make of what the process found when it started: the undisturbed
part of the file (`Base`) skims to `SettledKv`; so does the whole file outside a
commit; with the batch applied both are equal while a write is due, and after the
write the file is the batch applied to `SettledKv` (`FoundKv`). The same is said of
the vectors as long as nothing has failed (`FoundVecs`), and that there are at least
as many ever after (`KeptVecs`). `FreshKv` says of every prefix a crash may leave,
and of every string and field on its own, that it is as of some part of the batch:
this is inductive where a statement of all keys at once is not, because a crash in a
retry does leave keys as of different moments. `RecoveryIsAPrefix` follows where the
batch was written once.

### The bytes of the log

`WholeRecordsCorrect` and `WholeFileCorrect` assume nothing of the bytes of a value.
`DecimalDigits`: `Decimal` writes at least one digit and the value they stand for is the
number; `IntReads`: a number below `IntLimit` is read back where no digit follows. From
there up: `NumberedReads` (a line of sign, number and line end), `BulkReads` (one
argument, by its length, whatever it holds), `BulksRead` (the loop over the arguments),
`CommandReads` (a command and where it ends). A command that is `Loggable` announces as
many arguments as its arm of the parser reads; every record of the log is
(`RecordLoggable`, one lemma for each of the five). `NextReads` is one turn of the
replay's scan, and `FileReadsBack` follows the scan over a file of such commands, each at
its place (`PartsAt`). That only records of `Record` come to the file is the invariant
`OnlyRecords`.

`CutRecordsCorrect` is about what a crash or a full disk leaves of a record, with any
other record written behind it. As the property says, it speaks of records without "*"
in their arguments (with one, the scan may find a command there); such a record has one "*", its first byte (`StarFirst`). Nothing is
read at its place: a line cut short is not read (`NumberedCut`, since what follows the
cut is a "*" or the end, no digit and no line end), nor an argument (`BulkCut`), nor the
loop over them (`BulksCut`), so that the command fails (`CutFails`), unless it was cut
inside an argument whose line end what follows happens to supply. The scan passes over
the rest of it byte by byte, since none is a "*" (`Reached` says how far it has come),
and reads what was written behind it (`CutSkipped`), or nothing (`CutAlone`). In the
case excepted, where the argument is the value of a SET, what the replay reads is
itself a SET, with as many bytes of what follows as the value lost: what stands before
a value depends on its length only (`SetText`). The next record is lost, and the one
behind it is read (`ValueEats`).

### The server as a whole

`OmegaDriveProofs` proves about the composition with what is proved of its parts:
`PP` is an instance of `PersistenceNeuralProofs` with OmegaDrive's variables, so that its
lemmas are cited (`ThreadInit`, `ThreadAccepts`, `ThreadSteps`, `ThreadRestarts`) and not
proved again. OmegaDrive does not use the constants `Record` and `MaxSent`, which bound
what the thread is sent when it is alone; `PP` takes the empty set and 0 for them, and
the lemmas cited speak of any record. `SystemAssumption` is the thread's assumptions on the
rest of the constants.

`SystemInv` is `LogInv` of the workers, `RecoveryInv` of the thread, and what joins them:
the keyspace that the records the workers logged make (`logKv`) is the one that the
records the thread accepted make of what it found at boot (`LogKv`). A step of a worker
sends one record, by which both grow alike, or none (`WorkerSends`); a step of the thread
changes neither; after a crash both are the replay of the file, and so is memory. Then
memory is `logKv` on every key (`LogAt`, workers idle), `logKv` is `LogKv`, and `LogKv` is
what a replay now gives when everything sent is committed (`LogRecovered`).

`RestartCorrect` has one hypothesis: every key has one worker whose clients write it
(`OneWriter`); without it memory and log differ and `system_shared` shows how. What is
said of files with a misread is a condition of the property. `SystemMemoryMatchesLog`
needs no hypothesis, since `MemoryMatchesLog` speaks of the keys with one writer and
compares memory with the log as the replays read it; on a restart the broadcasts are
forgotten, so `LogAt` leaves out what relates topic to memory for every key from then
on (its parameter `told`). The bytes of the log do not come up here: `PP` takes any
`Spelling`, `FloatText` and `IntLimit` that meet the assumptions.

### Vector store

`Sound` adds to the types that cursors are shards and blocks are current.
`RebuildKeepsCurrent`: a push signs the block it lands in anew and no other. `DealtEvenly`
says of each shard what it holds and is about to be given: its `Share` of the counter;
`NextShare` is the arithmetic of one more. `ClearInv`: a vector is added once and is
in one place of its way (`AddedOnce`), and a FLUSHDB leaves none it found in the shards
behind its cursor (`DoomedGone`).

A search holds no lock between its phases. `CalmInv` is why it may: as long as no
FLUSHDB runs the shards only grow, the indices it keeps stay inside them and point at
the same vectors. The moment a FLUSHDB begins the search is no longer `calm`, and the
theorems say nothing of it, as the properties do.

`MissingForAReason` is the long one. The scan of a shard is a fold over its blocks, in
an order that is a permutation (`OrderOnto`), and of a block over its vectors.
`OfferKeeps`: a vector once in the heap, or left out of it, stays in it or is outdone by
TopK others that are nearer or as near; blocks' spans are disjoint and cover the shard
(`SpansApart`, `SpansCover`), so that each vector is offered once or its block was passed
over (`ScanBlockKeeps`, `HeapOfKeeps`). `FoundSearch` carries this through the phases:
counted, scanned, ranked, answered. That TopK candidates of a shard are TopK vectors
is `OnePlace` and an injection (`CountThrough`); that indices kept from one phase are
read in the next while other workers add is `ReasonKept` and `FoundKept`.

### Connection

`TypeInv` adds to the types that every line is one of a request that was sent
and that a command is at hand while one is charged or executed. `EachAnsweredOnce`
is inductive on top of it. `RateBound` is not: `RateInv` says that what was spent
and what is in the bucket never exceed the burst, what was earned up to
`last_refill` and what was slept, at most the time there was; while the task
sleeps its sleep is still to come, and the bound is tighter by that much.

`ExecutedInOrder` says nothing of what is still to come; `OrderInv` does. The rest of
the buffer and what is on the wire make one sequence, `Rest`. Reading and draining do
not change it (`ReadLines`, `DrainLines`), passing over lines takes its first
(`PassLines`), sending appends a whole request (`SendLines`), hanging up cuts its end
(`CutLines`). Its lines follow each other as they were sent (`Consecutive`). The line
the task comes to next is `NextLine`, and everything before it is done with
(`DoneBefore`): what was executed lies before it, every request in front of it that
has an answer was executed, and, as long as no stray line lies at or before it, it is
a line that the client meant it to come to (`Meant`: the first of a request, or one
its command does not read, with nothing in front that never parses). A stray line
stays behind (`StrayLater`), and from then on only the order is left to show.

A step passes over one line or over the lines of a command (`OrderPass`, for
`OrderSkip` and `OrderExecute`). The next line is a later one (`LaterLine`); if
nothing stray came before, the lines passed are of one request, so that the next is
another of its lines or the header behind it (`NextOfLine`) and no header lies
between (`NoHeaderBetween`): nothing to be executed was passed over. A batch that is
not complete leaves `pos` where it is, so the same header is parsed again and nothing
was done with it yet. A request that is sent adds stray lines only behind everything
there was (`SendStray`).

### Accelerator

A forwarder ends because its pusher did, the pusher because a write failed or the
reader ended, the reader because the socket is closed: `TasksOf` is that chain, and
`NoSubscriptionCut` follows. `NoSilentGap` speaks of what was delivered; `GapInv` says it of
the stream of what was delivered and what is in the pipe, and of how far the forwarder
has come: every number since the subscription that it took from the ring is in the
stream, or is the one in its hand, or was counted as missed. A lag moves it forward over
numbers that all become missed (`MoreLost`); a pusher that ends cuts the stream at a
place that leaves a stream without gaps (`PartGapless`).

### OmegaEngine

`SlotInv` adds that every slot in the index lies below the counter; a batch then gives
its cells slots beyond all others, one each (`BatchSlots`: a pair named twice takes the
later). `TableInv`: each method that stores a cell lists its pair or is one of those
`unlisted` remembers; `remove` takes out every listing of the pair (`OnlyHolds`, by
induction over the list), not only the first, which matters because a cell registered
twice is listed twice.

`TablesArrive` joins four formats. A pool entry gives back the cell that was packed
(`CellDecoded`), the cells of a table come in the order of its list (`CellsFound`), and
the two buffers of names and values are read by one loop with a cursor in each:
`WalkStep` moves both cursors over one cell, `ColumnsUnpacked` follows the loop to the
end. The hypothesis `LengthsFit` says that a cell is below 4 GiB.

### Only model-checked

* Liveness: `EveryRequestAnswered`, `EveryMessageArrives`,
  `EverySubscriptionAcknowledged`, `DurableUnlessStarved`. The prover does not reason
  about ENABLED, on which weak and strong fairness rest.

## 6. Plan

Done, in this order: Keyspace, Gateway, PersistenceNeural, OmegaDrive,
VectorStore, Accelerator, PersistenceNeuralProofs, Connection, ConnectionProofs,
the block signatures of VectorStore, the policy network, DurableLog and its
refinement, OmegaEngine, Resp and LogBytes, FlatHashBytes, Cipher, GatewayProofs,
AcceleratorProofs, Induction, what a replay gives back, VectorStoreProofs, the
order of a connection's commands, the gaps of a subscription, the tables of the
engine, OmegaDriveProofs, Bytes, the packed hashes, the bytes of a table, the bytes of
the log, records cut short. Left, by importance:

1. The arms of the parser for commands that are not logged, and Connection's
   lines as bytes of `Resp`.
2. Back-pressure: a client that sends and never reads fills the socket, and its
   task waits in write_all (main.rs:605, 608).

## 7. Where the code and its documents disagree

Each is a run that TLC ends with a counterexample.

* `gateway_cipher`. MSET enciphers with forward_raw, SET with forward_cascade;
  GET undoes the cascade and MGET the XOR. GET after MSET answers bytes nobody
  stored. README.md:9 promises a drop-in Redis.
* `system_starved`. Every reward is negative. A commit of the backlog lowers the odds
  of the next, a wait raises them in proportion to what they are, and from odds of
  0 nothing raises them: the thread waits for ever with a disk that works, until
  the process is restarted. The comment at persistence_neural.rs:330 says that the
  penalty "encourages committing when backlog increases".
* `system_shared`. A worker stores under the shard's lock and sends later: two
  SETs of one key may be logged in the other order, and the restart brings back
  the value that was overwritten, with no fault of the disk. README.md:73.
* `vectors_recall`. `r / shards` is rounded down and the candidates are chosen by
  Hamming distance: five vectors in four shards lose the best score.
  README.md:65 promises 100 % recall (its R = max(1000, N/100) is
  max(1000, N/500) in vector_store.rs:280).
* `topics_leak`. The pusher ends when all senders of its pipe are gone or a send
  fails; the forwarders hold senders and end when the pipe refuses. When a
  client goes and its topics stay silent neither happens. accelerator.rs:68 says
  the task closes quietly, "Zero memory leak".

Also seen in the models, without a run of their own:

* A failed fsync makes the NPC write the batch again, and VADD appends: the replay
  stores the vectors twice (of histories with a failure `VectorsKept` says only that
  none is missing; README.md:73 says the replay reconstructs the vector indices).
* The bound of a block counts two for each bit on which its majority differs from
  the query, and the minority not at all; a block of one vector is signed with all
  ones, because 1 * 7 / 10 is 0. So the block with the nearest vector may be left
  out, where vector_store.rs:283 speaks of the local top R candidates.
* With a GPU, MSET's value of 64 KiB and more has each block enciphered by an
  expert of its own and keeps the first one's number; MGET garbles the blocks that
  were routed to another (inference.rs:246, airdb_kernel.cu:60-66; `ForwardGpu`).
* Behind a line that begins with `*` and never parses a connection executes nothing
  any more (`Break`). That is a malformed command (`SET` without a value, a key that
  is not UTF-8), but also an argument that the command before it did not read: after
  `KEYS *` or `ZADD k 1 *x` the client waits for ever, and if such an argument is
  itself a command, that is executed (main.rs:362, 600; `StrayBy`).
* VSEARCH with k = 0 panics (the model has k >= 1).
* Two HMSETs of different fields may lose one of them (Gateway's `ReadHash` and
  `InsertHash`).
* A FLUSHDB between the phases of a VSEARCH makes it panic or pair a new key with
  an old score (`RerankPanics`, `KeysPanic`: NoPanic and ScoresBelongToKeys hold
  for searches that no FLUSHDB overlaps).
* An update may reach a subscriber before its acknowledgement (`Subscribe`,
  `Forward`, `Ack`).
* A crash during a retry may bring keys back as of different moments.
* A record cut short is not always skipped. If it was cut inside an argument and what
  follows has a line end exactly where that argument should have had one, it is
  completed by it. In the value of a SET that is 2, 6, 11 ... bytes before its end:
  the key then holds bytes nobody stored and the next record is lost. And if the part
  that is left of a value holds a whole command, such as `*1\r\n$7\r\nFLUSHDB\r\n`,
  the scan executes it (main.rs:188-238, resp.rs:167-171). Both are misreads of
  `PersistenceNeural`, and the properties about a replay except files with one:
  without that condition TLC finds each of `KeyspaceMatchesCommitted`, `VectorsKept`,
  `RecoveryIsFresh`, `RecoveryIsAPrefix`, `RestartKeepsKeyspace` and
  `DurableUnlessStarved` violated.
* OmegaEngine's length byte says 255 for a longer name but the whole name is
  written: what follows is misread (`TablesArrive` excepts such names).

## 8. Not modelled

* The arithmetic of the policy network beyond `drive`, of the cipher's router and
  of the floating-point scores (integers here). `McnnModel::load` reads a file,
  checks its signature and picks a number of workers once, before anything runs.
* The CUDA kernels but for what they do to blocks (`Cipher`). The feature is
  compiled by default; which device runs is chosen with `--device`.
* telemetry.rs prints `db.len()`; it has no state of its own.
* ws_opt.rs is a stateless XOR loop that nothing calls; tungstenite demasks what
  the accelerator reads.
* video_db.rs is declared in no crate root, so no build contains it.
* The load of `omegadrive.dump` (main.rs:164-176): nothing in the repository
  writes that file.
* The benchmarks under `src/bin`, omega_vector_bench and omega_ws_bench are
  drivers: they send and measure, and assert nothing of the server.
* PING, SELECT, INFO, EXISTS, ZADD (which answers without storing anything),
  SAVE, BGSAVE and unknown commands change nothing and are not in `Gateway`;
  VSEARCH is in `VectorStore`.
