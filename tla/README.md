# TLA+ models of the RedisShake sync engine

This directory holds TLA+ models of the `sync` mode of RedisShake
(`src/unnamed/part_000`, package `run`). Each model says which source lines
it translates (see `PROJECT.json`, key `map`). The configuration record
(`src/src/redis-shake/configure/configure.go`) has no operations. Module
`Configuration` gives its type, and the fields the engine reads appear as
CONSTANTS drawn from it.

## 1. Inventory

### Components and their state

| Component | Code | State | Operations |
|---|---|---|---|
| Engine dispatcher | `CmdSync.Main`, `GetDetailedInfo` (61-129) | `syncChan` (cap = #sources), `SourceParallel` workers, a `WaitGroup`, the `dbSyncers` slice | pick target round-robin, enqueue nodes, worker: build syncer, `go ds.sync()`, wait `waitFull`, `wg.Done`; `wg.Wait`, close; report info |
| Syncer lifecycle | `dbSyncer.sync` (200-251) | `base.Status` (process-wide), `waitFull` channel | handshake → RDB phase → close `waitFull` → incremental phase |
| Classic handshake | `sendSyncCmd` (253-267) | link, announced size | wait for a non-zero size, log keepalives |
| PSync link | `sendPSyncCmd` (269-353), `pSyncPipeCopy` (355-387) | connection `c`, `br/bw`, `runid`, `offset`, `nread`, bounded pipe, `targetOffset` | PSYNC ? -1; wait size; copy `nsize` RDB bytes into the pipe; copy the stream; ACK goroutine at 1 Hz (0 before `waitFull`, `offset+nread` after); reopen loop (sleep 1 s, reconnect, auth, port, `PSYNC runid offset`) |
| RDB restorer pool | `syncRDBFile` (389-464) | loader channel, `Parallel` restorers each with its own connection and `lastdb`, counters `rbytes`, `nentry`, `ignore`, `wait` | per record: db filter, SELECT, key or slot filter, RESTORE; progress log at 1 Hz until `wait` closes |
| Command parser | `syncCommand` parser goroutine (562-651) | `lastdb`, `bypass`, `nbypass` | decode; SELECT/OPINFO/key-filter decisions; translate SELECT under `target.db`; push to `sendBuf` |
| Sender | sender goroutine (653-692), `addDelayChan` (707-728) | `sendBuf` (cap `SenderCount`), `noFlushCount`, `sendId`, `delayChannel` | `Send`, counters, sample a delayNode, `Flush` when the batch is over `SenderCount` or `sendBuf` is empty |
| Receiver | receiver goroutine (513-560) | `recvId`, the held `node` | `Receive`, `recvId++`; with metric on: panic on an error reply, match node id against `recvId`, panic if behind |
| FakeOffsetProbe | goroutine in `syncCommand` (474-511) | `srcConn`, `sourceOffset` | every 10 s: query the offset, reconnect on EOF or net error, `ParseInt` into `sourceOffset` |
| Stats logger | (694-705) | last stats snapshot | log deltas each second (logging only) |

### How the components interact

There are no mutexes. Goroutines share state in three ways. They pass
values over channels: `syncChan`, `waitFull`, the RDB loader channel,
`sendBuf` and `delayChannel`. They read and write atomic counters:
`sendId`, `recvId`, `nread` and the stats counters. They also share one
target connection, which the sender writes and the receiver reads. The
source link is a byte pipe. The reopen loop swaps the TCP connection under
that pipe, and the parser does not see the swap. `base.Status` is a plain
global string that every syncer writes.

### What is hard

- **Interleavings.** The parser, sender and receiver run concurrently with
  the target. In the delay-node protocol, the sender queues the node for
  command k after it has `Send`-buffered the command. The receiver matches
  that node against reply ids.
- **Sticky parser state.** `lastdb` and `bypass` stand for the target
  connection's db and the source's current db.
- **Failure and retry.** A source connection can drop during the stream.
  The link then resumes at `offset += nread` and must neither lose nor
  duplicate bytes.
- **Global state across syncers.** Every syncer writes `base.Status`. The
  `dbSyncers` slice is filled in while other code reads it.
- **Bounds.** Several limits matter: the `sendBuf` capacity, the flush batch,
  a full `delayChannel`, and sampling bands that depend on free space.

### Properties that make each component correct

- **Pipeline.** The target applies exactly the filtered source writes, in
  source order, each in its destination db, and eventually all of them
  (spec P1, P3, P4). No redundant SELECT is sent (P5). The receiver's id
  check never fires. A target error is fatal (spec 4.7).
- **PSync link.** The bytes delivered to the parser equal the source's
  stream from the initial offset, even across reopens (P7). The resume
  offset is never behind the bytes delivered. ACKs carry 0 before
  `waitFull` and a non-decreasing offset after it.
- **Restorers.** Each record is consumed exactly once. A record is restored
  iff it passes the filters (P4), and it is restored into its destination
  db. `nentry` and `ignore` count what was restored and what was ignored.
  `waitFull` closes only after every restorer has finished.
- **Syncer / engine.** `waitFull` closes exactly once, and no command is
  forwarded before it closes (P3). `Main` eventually returns from
  `wg.Wait`. The status string reflects the syncers' states.
  `GetDetailedInfo` never reads a nil syncer.
- **FakeOffsetProbe.** `sourceOffset` only ever holds an offset the source
  reported. On a parse error the code overwrites it with 0 (line 500). This
  is listed as a hazard but not modelled (section 5).

The hazards (`PROJECT.json`, key `hazards`) list each of these at the line
where it bites.

## 2. Plan

| # | Module | Models | Status |
|---|---|---|---|
| 1 | `ReplicaStream` | abstract spec: filtered, ordered, db-routed delivery of the source's writes | done |
| 2 | `CommandPipeline` (+`MCCommandPipeline`) | parser, sendBuf, sender, addDelayChan, flush, target, receiver; refines `ReplicaStream` | done (target network errors to add) |
| 3 | `PSyncLink` | RDB copy, pipe copy, ACK goroutine, source drops and master timeouts, reopen loop, PSYNC CONTINUE, `targetOffset`; stream integrity (P7) stated as `StreamIntact` | done |
| 4 | `RdbRestore` (+`MCRdbRestore`) | loader, `Parallel` restorers with per-connection `lastdb`, filters, counters, `wait` | done |
| 5 | `Syncer` | composes the handshake, `RdbRestore` and the hand-over to `CommandPipeline` through `waitFull` (P3) | not planned (see section 5) |
| 10 | `Handshake` | `sendSyncCmd` and `sendPSyncCmd` up to the announced size; size-0 keepalive liveness | done |
| 6 | `Engine` | `Main`'s dispatch workers, `WaitGroup`, `base.Status` across syncers, `GetDetailedInfo` | done |
| 7 | `FakeOffsetProbe` | ticker, reconnect, `ParseInt` into `sourceOffset` | not planned (see section 5) |
| 8 | `SampleDue` check | the sampling rule against the spec 4.8 table over the real thresholds (`SamplingFollowsTable` in `MCCommandPipeline`) | done |
| 9 | `Configuration` | the type of `conf.Options`, the core's assumptions on it, and the MC records | done |

## 3. Modules

### Configuration

`Configuration` is the type of `conf.Options` (configure.go 5-67): all 55
fields with their Go types. `string` becomes `STRING`, `int` and
`time.Duration` become `Int`, `uint`, `uint32` and `uint64` become `Nat`,
and `[]string` becomes `Seq(STRING)`. `ZeroOptions` is `var Options
Configuration` (line 69), every field at its Go zero value. `Loaded(set)`
stands for the loader (not in this repository): it assigns the fields of
`set` and leaves the others at zero. The core reads twelve fields into its
control: `Parallel`, `SourceParallel`, `TargetDB`, the two filters, `Psync`,
`Metric`, the three `Sender` fields and the two address lists. The other
fields reach only logging, the profilers, authentication, the heartbeat,
the sock file, the RDB codec or the other commands. `CoreAssumptions(c)`
states the ranges the modules assume:
- `parallel`, `source.parallel` and `sender.count` are at least 1;
- `target.db` is at least -1;
- both address lists are non-empty.

The loader that would enforce these ranges is not in this repository.
`RdbRestore` takes its `Options` from this type. `MCCommandPipeline` and
`MCEngine` build the record a run's constants come from with `Loaded`, and ASSUME
`CoreAssumptions` of it. A cfg with, say, `SourceParallel = 0` is
rejected before checking starts.

### ReplicaStream

This is what the incremental phase promises, written from spec 4.5, P1, P4
and P5. The variable `srcLog` holds the commands the source has emitted.
The variable `delivered` holds the writes applied on the target. `Emit`
lets the source send any command. The source selects a db before its first
write, as a Redis master does after a full sync. `Deliver` applies the next
element of `Expected(srcLog)`. That element is the next SET whose source db
is accepted and whose key matches the prefix filter, mapped to `Dest(db)`:
the override db if one is set, otherwise the source db. `Deliver` is weakly
fair.

### CommandPipeline

This models one syncer's incremental phase (`syncCommand`). Each variable
is the code's variable of the same name, or is described next to its
declaration. The actions are:

- `ParseCommand`: one parser loop iteration (575-650), including the
  SELECT translation under `target.db`. `Dropped` is the filter at 595-634.
- `PushSendBuf`: `ds.sendBuf <- ...`, which blocks when the channel is full.
  The decoded command waits in `pending`.
- `SenderSend`: `c.Send` buffers the command in `wbuf`, and the counters are
  incremented.
- `AddDelayChan`: `addDelayChan` with its non-blocking push.
- `SenderFlush`: the flush test. The `cachedSize > SenderSize` disjunct is
  dropped because `cachedSize` is never increased (spec 9).
- `Receive`: one receiver iteration. Its two `log.Panicf` branches set
  `fatal`, and after that no action is enabled.
- `TargetApply`: the environment. The target applies the head of `wire` in
  order, tracks its selected db `tdb`, and replies `ok`, or `err` when
  `TargetErr` is set.

Data is abstracted. Keys are two model values: `user1` matches the
configured prefix and `order1` does not. `KeyPrefixes` gives the outcome of
`strings.HasPrefix`. There are two dbs. The verbs are `ping`, `opinfo`,
`select` and `set`, where `set` stands for every verb the command registry
knows key positions for.

**Fairness.** The parser's push, the sender, the receiver and the target
are weakly fair: Go's scheduler runs every runnable goroutine, and a Redis
server serves the commands it has read. Decoding is not fair, because the
source may stay silent.

**Deadlock.** The runs set `CHECK_DEADLOCK FALSE`. The system stops in two
ways: the source has nothing more to send and the pipeline has drained (all
goroutines block on I/O), or a goroutine panicked, which ends the process.
A pipeline that is stuck with writes undelivered is caught by the liveness
part of `ForwardSpec` instead.

### PSyncLink

This models the copy goroutine that `sendPSyncCmd` starts after the
FULLRESYNC reply (302-351), `pSyncPipeCopy` with its ACK goroutine
(355-387), and the two steps of `sync()` that consume the pipe (243-249).
The handshake before the goroutine starts is the initial state. The
FULLRESYNC offset is 0, and `rdbsize = NSize`.

The environment is a Redis master, the network and the clock:

- `MasterSendRdb` and `MasterPush` put bytes on the current connection.
  An RDB byte i is `RdbByte(i)`, and the stream byte at offset o is
  `CmdByte(o)`.
- `MasterWrite` produces stream bytes into the backlog.
- `LinkDrop` breaks the connection and loses what is in flight. It is
  bounded by `MaxDrops`.
- `Tick` is one second. It lets the ACK goroutine owe an ACK.
  `MasterTimeoutDrop` is replicationCron dropping a replica that has been
  silent for `MasterTimeout` seconds.
- A new connection leaves the master in `handshake` until `PSYNC runid
  offset` arrives. The master continues if `mOff - offset <= Backlog`, and
  refuses otherwise.

The copy goroutine has a program counter `pc`:

- `CopyRdb` is one `Iocopy` chunk of RDB bytes. `CopyRdbBroken` is its read
  error, which is fatal.
- `StartPipeCopy` enters `pSyncPipeCopy`: `nread = 0` and a new ACK
  goroutine starts.
- `PipeCopyRead` is one `br.Read`, `Write` and `nread.Add`.
- `PipeCopyEnd` is the read error: `offset += n`, `targetOffset.Set`, and
  status `reopen`.
- `Reopen` is a successful `OpenNetConnSoft`, which sets status `incr`.
- `Resume` is AuthPassword, the listening port and `SendPSyncContinue`.
  `ResumeBroken` is a read error during those calls, which is fatal.
- `AckSend` is the ACK goroutine's once-a-second `SendPSyncAck`. It sends 0
  before `waitFull` and `offset + nread` after.

`ReadPipe` is the pipe's reader: the RDB loader, which reads only RDB
bytes before `waitFull`, and then the parser. `CloseWaitFull` is
`base.Status = "incr"; close(ds.waitFull)`, once the whole RDB has been
read.

**Fairness.** The master's output, the copy goroutine, the reopen loop,
the ACK goroutine and the pipe's reader are weakly fair. The reopen loop
retries every second for ever, so a master that is reachable again is
eventually reached. Failures, master writes and the clock are not fair.

### RdbRestore

This models `syncRDBFile` (389-464). `LoaderPush` and `LoaderClose` are
the RDB loader. It fills a channel of capacity `RDBPipeSize` with the
entries of `Records` in file order, then closes it. `Pool`, the restorer
ids up to `opts.Parallel`, stands for `wg.Add(Parallel)` and the loop that
starts the restorers. Ids above it stay `"none"`. Each restorer is a
program counter, `rpc[r]`, over four actions:

- `OpenConn`: a new target connection, on db 0, with `lastdb = 0`.
- `Receive`: one iteration of `for e := range pipe`.
- `Apply`: the loop body, as one step. It runs AcceptDB, the counters,
  the SELECT rule `SelectFor` and the filter chain `KeyPasses`, then
  RESTOREs the entry into the db the connection has selected, `conndb[r]`.
- `RestorerExit`: the range loop ends, which is `wg.Done`.

`WaitClose` is the goroutine that closes `wait` after `wg.Wait`.
`ProgressDone` is the progress loop returning. An entry is a db and a
key. Keys are model values; `KeyPrefixes` and `KeySlot` stand for
`strings.HasPrefix` and `utils.KeyToSlot`. `Parallel`, `TargetDB`,
`FilterKey` and `FilterSlot` are read from `opts`. Init picks it from the
constant set `Options` of `Configuration` records, and no action changes
it, so one run covers several configurations. `filter.slot` is a list of
strings. The code parses each one with `strconv.Atoi`, ignoring the
error, and the constant `Atoi` gives that result. The properties compare the
target with `ExpectedSet`, which is written from spec 4.4 through
`SpecAdmits` and not through the code's `KeyPasses`. All goroutines are
weakly fair.

### Handshake

This models `sync()`'s choice of handshake (207-214) and both handshakes
up to their return. `psync` is picked in Init and stays fixed.
- **Classic** (`sendSyncCmd`, 253-267): `OpenSyncConn`, then
  `SyncReadSize`.
- **Psync** (`sendPSyncCmd`, 269-298): `OpenPSyncConn` (the connection and
  the listening port), `PSyncFullsync` (the `+FULLRESYNC` reply sets
  `targetOffset`), then `PSyncReadSize`.

Both loops share `ReadSize`: take one value from the wait channel, keep
waiting on 0, return on anything else. The `time.After` case of the select
only logs, so it is left out. The master and `utils`' reader goroutine are
the environment. `MasterKeepalive` puts a 0 on the channel, bounded by
`MaxKeepalives`. `MasterAnnounce` puts the snapshot size. The handshaker
is weakly fair. So is the announcement, because the master eventually
finishes preparing its snapshot.

### Engine

This models `CmdSync.Main` (70-127) and `GetDetailedInfo` (61-67). `Enqueue`
is one iteration of the source loop. It picks a target round-robin (the
picker is in `utils`, so it is written from spec 4.1) and sends the node on
`syncChan`, whose capacity is the number of sources. `Spawn` is `wg.Add`
and the loop that starts the `SourceParallel` workers. Each worker runs
three actions:

- `WorkerRecv`: receive a node, build the syncer, store it in
  `cmd.dbSyncers`, and start `sync()`.
- `WorkerDone`: `waitFull` has closed, so call `wg.Done()` and loop.
- `WorkerExit`: the channel is closed and drained.

`MainWaitDone` is `wg.Wait()` returning and `close(syncChan)`. A syncer is
reduced to its three writes of the shared `base.Status` in `sync()` (207,
243, 246) and to closing `waitFull`. `RdbRestore` and `PSyncLink` model
what happens between those writes. `GetDetailedInfo` is called by the
info endpoint, which is outside this repository, while syncers run. It is
added to `Next` only in `SpecWithInfo`. Every goroutine is weakly fair,
and so is each syncer's full sync; `RestoreTerminates` and
`AllDelivered` check that the full sync ends.

## 4. Runs

| Run | Config | Expect | Shows |
|---|---|---|---|
| `pipeline_override` | `MCCommandPipeline.cfg`: target.db = 1, filter.db = {0}, filter.key = {"user:"}, 5 source commands, SenderCount = 1, delay channel cap 3 | pass (115k states) | `ForwardSpec`: the pipeline refines `ReplicaStream`, including eventual delivery. `SelectCoalesced`: the override SELECT is sent at most once per change. `DelayNodeNotBehind`: the receiver's id check never panics. `SamplingFollowsTable`: `SampleDue`, instantiated with the code's thresholds 4096/1024/128 and moduli 10/100/1000, samples exactly the send ids the table of spec 4.8 selects, for ids 1..2000 at both sides of every band edge (a constant check, evaluated once). |
| `pipeline_ping_bypassed` | filter.db = {0} | violation | a PING after `SELECT 1` is dropped, against spec 4.5 |
| `pipeline_error_reply_no_metric` | metric = false, the target may reject | violation | an error reply is skipped and forwarding continues, against spec 4.7 |
| `psync_stream` | `MCPSyncLink.cfg`: 2 RDB bytes, 3 stream bytes, 1 failure, backlog 1, timeout 2 s | pass (4.8k states) | `StreamIntact` (P7): the pipe carries the RDB followed by the stream from offset 0, with no loss or repeat across a reopen. `AckNeverAhead`: the master's acked offset never exceeds the stream bytes read. |
| `psync_resume_live` | `MCPSyncLinkLive.cfg`: 2 failures, backlog 3, no timeout | pass (972 states) | `AllDelivered`: once the master has written its stream, all of it reaches the parser unless the process panicked |
| `psync_status_during_full` | `MCPSyncLinkStatus.cfg` | violation | a reconnect while the RDB is still being restored publishes status `incr` before `waitFull`, against spec 4.10 |
| `psync_no_ack_during_rdb` | `MCPSyncLinkSnapshotAck.cfg`: no failures, timeout 2 s | violation | the master times the replica out during the RDB copy, because no ACK goroutine runs before `pSyncPipeCopy`, against spec 4.3 |
| `restore_key_filter` | `MCRdbRestore.cfg`: 4 entries in dbs 0, 1 and 2, filter.db = {0,1}, channel cap 1; three configurations: parallel = 2 with no override and filter.key = ["user:", "admin:"], parallel = 2 with target.db = 1 and filter.slot = ["3"], parallel = 1 with no filter | pass (489 states) | `RestoredInDest`: every RESTORE lands in its entry's db, despite per-connection `lastdb`. `RestoreComplete`: when `syncRDBFile` returns, the target holds exactly the admitted entries. `RestoreTerminates`: it returns. |
| `restore_counters` | `MCRdbRestoreCounters.cfg` | violation | an entry the key filter rejects is counted in `nentry` and not in `ignore`, against spec 4.4 |
| `engine_dispatch` | `Engine.cfg` (module `MCEngine`): 3 sources, 2 targets, SourceParallel = 2 | pass (248 states) | `FullSyncsBounded`: at most SourceParallel full syncs at once. `MainWaitsForAll`: Main passes `wg.Wait` only after every `waitFull` has closed. `AllSynced`: every syncer reaches incr and Main reaches `select{}`. |
| `engine_info_nil` | `EngineInfo.cfg`: 2 sources, 1 worker | violation | `GetDetailedInfo` dereferences the nil entry of a source that is not yet dispatched |
| `handshake_empty_snapshot` | `HandshakeEmpty.cfg`: psync on and off, one keepalive, sizes 0 and 2 | violation (29 states) | `EmptySnapshotHandedOver`: after the source announces size 0, the handshake waits for ever, because 0 is also what a keepalive puts on the wait channel. Spec 8 scenario 1 expects snapshotDone at once. |

**Bounds.** Five source commands are enough for every interesting sequence:
a SELECT of an accepted db and of a filtered db, a matching and a
non-matching SET, PING and OPINFO, with a second SELECT so that lastdb
coalescing and sticky bypass both occur. `SenderCount = 1` makes the
parser block on a full `sendBuf` and makes both flush conditions happen.
The sampling bands are scaled to a delay channel of capacity 3, with bands
3/2/1 and moduli 2/4/8. Like the code's 10/100/1000, each modulus divides
the next, so an id sampled in a band is also sampled in every higher band.
With that scaling the 1:1 band and the reduced bands occur, and the
receiver holds a node for a later reply. The drop on a full channel is not
reached: at free = 0 only a send id divisible by 8 is sampled, and the run
has at most 5 sends. The hazards list records this at line 721. The thresholds 4096/1024/128 are
out of reach of any enumerable state space, so `SamplingFollowsTable`
checks the rule at those thresholds on its own: `MCCommandPipeline`
instantiates `CommandPipeline` a second time as `CodeSampling`, with the
code's bands and moduli, and compares its `SampleDue` with the band table
of spec 4.8 for ids 1..2000 (two multiples of 1000) and free space 0, 127,
128, 1023, 1024, 4095, 4096 and 65535.

For `PSyncLink`, two RDB bytes make the RDB copy take more than one step,
so a failure or timeout can fall inside it. Pipe and link capacities of 1
make the copy goroutine block on the pipe while the master has finished
its bulk transfer, which is the situation of the timeout finding. One
failure with three stream bytes lets a drop fall before, between and after
stream bytes, with bytes lost in flight. A backlog of 1 makes the master
refuse some resumes. The liveness run allows two failures, so the reopen
loop runs twice.

For `RdbRestore`, two restorers make the entries split between
connections, and the third configuration runs one restorer alone. Entries in db 1 then db 0 make one connection SELECT away
and back. Both prefixes and a non-matching key are present, and db 2 is
filtered out. A channel of capacity 1 makes the loader block.

For `Engine`, three sources on two workers make a worker take a second
node, make both workers wait at once, and make the round-robin wrap
around. Two sources on one worker, in `EngineInfo.cfg`, leave a source
undispatched while the first syncer runs.

For `Handshake`, one keepalive before the announcement makes the loop take
its `0` branch before the size arrives. The sizes 0 and 2 give an empty
and a non-empty snapshot, and both values of `psync` are checked.

**Mutants.** Each property of the passing runs is broken by a plausible bug:

- a flush that does not reset `noFlushCount` breaks `TypeOK`;
- a write-through `Send` (no buffering before the delay node is queued)
  breaks `DelayNodeNotBehind`;
- a parser that never updates `lastdb` breaks `SelectCoalesced`;
- a parser that compares the source's db instead of `target.db` with
  `lastdb` breaks `ForwardSpec`;
- a `SampleDue` that enters each band only above its threshold (`>` for
  `>=`) breaks `SamplingFollowsTable` at free = 4096.
- an RDB loop that stops one chunk late breaks `TypeOK`;
- a `PipeCopyEnd` that forgets `offset += n` breaks `StreamIntact`, because
  the resume replays bytes already delivered;
- an `nread` kept across connections breaks `AckNeverAhead`;
- a reopen that skips `SendPSyncContinue` breaks `AllDelivered`.
- a loader that ignores the channel's capacity breaks `TypeOK`;
- a restorer that SELECTs without updating `lastdb` breaks `RestoredInDest`;
- `wg.Add(Parallel - 1)` breaks `RestoreComplete`, and `wg.Add(Parallel + 1)`
  breaks `RestoreTerminates`.
- `wg.Add(n + 1)` breaks `TypeOK`, and `wg.Add(n - 1)` breaks
  `MainWaitsForAll`;
- a worker that does not wait for `waitFull` breaks `FullSyncsBounded`;
- a worker that leaves its loop after one syncer breaks `AllSynced`.

**A question the spec leaves open.** Without `target.db`, the parser
re-emits every accepted SELECT verbatim (649), so `SELECT 0` reaches a
target connection that is already on db 0. Spec scenario 2 expects no
`SELECT 0`, but the spec's 4.5 table says to re-emit verbatim. No run takes
a side. `SelectCoalesced` is checked only under the override.

## 5. Not modelled (yet)

- The stats logger and progress logging.
- The heartbeat controller.
- Metrics.
- The RESP and RDB codecs, and the `utils` helpers. Their source is not in
  this repository, so they are atomic steps or the environment.
- The on-disk sock-file pipe. It is a byte-preserving buffer and adds no
  control of its own.
- Configurations outside `CoreAssumptions`. With `parallel = 0`,
  `wg.Add(0)` starts no restorer. `wait` closes at once, and `waitFull`
  closes with nothing restored. With `source.parallel = 0`, `Main` waits
  in `wg.Wait` for ever. An empty target list makes
  `PickTargetRoundRobin(0)` divide by zero. A `target.db` below -1, or at
  or above 2^32, is truncated by `uint32(...)`, and the coalescing test
  then never holds; TLC's 32-bit integers cannot hold that wrap. A
  non-numeric `filter.slot` entry parses to slot 0. The hazards list
  records each of these at its line.
- `sender.size`. `cachedSize` is declared at line 655 and reset at line 686, but never incremented, so
  `cachedSize > SenderSize` never holds. `SenderFlush` follows the code,
  and spec 9 already records this as an open question.
- `FakeOffsetProbe`. It is one goroutine with a 10 s ticker. It reconnects
  on error and parses the offset into `ds.sourceOffset`, which is used only
  for lag reporting. Nothing waits on it, and each branch of its loop is a
  single sequential step. TLC would find no interleaving in it, and a unit
  test reaches the 0 overwrite on a parse error.
- The hand-over from `Handshake` to `PSyncLink`. `PSyncLink` starts in the
  state that `Handshake`'s non-zero branch returns (`NSize >= 1`). That is
  also what rules out the division by `nsize` in the progress logger.
- The sequence of `base.Status` across syncers. With two sources it goes
  `incr -> waitfull` when the second syncer starts. Spec 9 already asks
  for per-syncer status, so no run checks it.
- A composed `Syncer` module. `sync()` runs the handshake, `syncRDBFile`,
  `close(ds.waitFull)` and `syncCommand` one after another in one
  goroutine (lines 207-251), so P3 (no command forwarded before
  snapshot-done) holds by that sequence as soon as `syncRDBFile` returns
  only after every restorer has applied its entries. `RestoreComplete`
  checks that part, and `MainWaitsForAll` checks the `Main` side of
  `waitFull`. Composing the three modules would multiply their state
  spaces and add only the sequence.
- Target network errors in `CommandPipeline`. A failed `Send` or `Flush`
  panics at once. A failed `Receive` takes the same `err != nil` branch as
  an error reply. With `metric = false`, that branch is skipped, and
  `pipeline_error_reply_no_metric` already shows this.
