# Redis 3.0 in TLA+

Specifications of the core of the Redis 3.0 sources in `src/redis-3.0` (an
annotated copy of Redis 3.0 with Redis Cluster): the cluster, Sentinel,
replication, persistence, and the transactions and blocking commands of one
server; the TLC configurations that check them on small instances, and TLAPS
proofs of results that hold of every instance. Line numbers without a file are
lines of the source file the paragraph or table is about (`cluster.c` for the
modules named `Cluster...`).

    tlc -workers 2 -config ElectionSafety.cfg MCElection
    tlapm ClusterElectionProofs.tla

## 1. What the system is made of

Redis is one process with one thread that executes commands (`ae.c`,
`networking.c`, `redis.c`), helped by forked children (`rdb.c`, `aof.c`) and by
background threads for `fsync` and `close` (`bio.c`). Concurrency is therefore
mostly *between* processes: the nodes of a cluster, a master and its slaves,
sentinels, the parent and its child. A handler runs to its end; between two
handlers anything may happen.

| Component | State | Operations | Hard behaviour | What makes it correct | Module |
|---|---|---|---|---|---|
| **Failover election and slot ownership** (`cluster.c`) | `currentEpoch`, `lastVoteEpoch`, `configEpoch` of every known node, `slots[]`, `slaveof`, `failover_auth_*`, `mf_*`, `nodes.conf` | `clusterHandleSlaveFailover`, `clusterSendFailoverAuthIfNeeded`, the header, PING/PONG, AUTH, ACK and UPDATE branches of `clusterProcessPacket`, `clusterUpdateSlotsConfigWith`, `clusterHandleConfigEpochCollision`, `clusterLoadConfig` | two candidates, late packets, restart between vote and save, nodes that hear claims in different orders | one winner per epoch, epochs not reused, announced configuration survives a crash, all nodes agree on the owner at last | `ClusterElection` |
| **Failure detector** (`cluster.c`) | PFAIL and FAIL flags, `fail_reports`, `size`, `nodes.conf` | `clusterCron` (ping timeout), `clusterProcessGossipSection`, `markNodeAsFailingIfNeeded`, `clearNodeFailureIfNeeded`, `clusterUpdateState`, the FAIL branch of `clusterProcessPacket` | partitions, lost FAIL messages, reports that expire, a restart | FAIL only with a majority, a dead node is FAIL everywhere at last, a healthy one nowhere | `ClusterFailure` |
| Manual failover (`cluster.c`) | `mf_end`, `mf_slave`, `mf_master_offset`, `mf_can_start`, `clients_paused` | `CLUSTER FAILOVER [FORCE]`, MFSTART, `clusterHandleManualFailover`, `manualFailoverCheckTimeout` | the master's pause against the slave's wait, two timeouts | no write is lost by a graceful failover | FORCE only, in `ClusterElection` |
| Slot assignment, resharding, redirection (`cluster.c`, `redis-trib.rb`) | `slots[]`, `migrating_slots_to`, `importing_slots_from`, keys | ADDSLOTS, DELSLOTS, SETSLOT, MIGRATE, RESTORE, ASKING, `getNodeByQuery`, `verifyClusterConfigWithData` | SETSLOT NODE raises an epoch without agreement, MIGRATE fails halfway, clients follow stale tables | a key is served by one node, no acknowledged write is lost, a client's redirections end | `ClusterSlots`, `KeyStore` |
| Membership (`cluster.c`) | `nodes`, `nodes_black_list`, handshake nodes | MEET, `clusterStartHandshake`, FORGET, RESET, `nodeUpdateAddressIfNeeded` | gossip brings back a node just forgotten, handshake timeouts | a forgotten node stays away for the time of the blacklist | planned |
| Replica migration (`cluster.c`) | `slaveof`, counts of working slaves | `clusterHandleSlaveMigration` | several slaves decide at once | no master loses its last slave to it | planned |
| **Replication** (`replication.c`) | `repl_state`, `slaves`, backlog, offsets, run id | SYNC, PSYNC, WAIT, SLAVEOF, `replicationCron`, `replicationFeedSlaves`, `updateSlavesWaitingBgsave` | reconnection, a backlog that wraps, a slave that joins a running BGSAVE, chains | what a slave has and what is under way to it make its master's data; an offset is a place in the stream; WAIT counts who has the write | `Replication` |
| **Sentinel** (`sentinel.c`) | instances, `current_epoch`, `config_epoch`, leader and its epoch, `failover_state`, configuration file | `sentinelHandleRedisInstance`, `sentinelVoteLeader`, `sentinelFailoverStateMachine`, hello messages | several sentinels, a timeout in each state, restarts, crossed reconfigurations | one vote and one leader per epoch, one master in the end | `Sentinel` |
| **AOF** (`aof.c`, `bio.c`) | `aof_buf`, rewrite buffer, child, fsync jobs | `feedAppendOnlyFile`, `flushAppendOnlyFile`, `rewriteAppendOnlyFileBackground`, `backgroundRewriteDoneHandler` | an end at any step, a postponed `fsync`, short writes, a failing child | the file replays to a prefix of the commands and has what was acknowledged in the turns of the event loop that are over | `Persistence` |
| **RDB** (`rdb.c`) | child, dirty counters | SAVE, BGSAVE, `backgroundSaveDoneHandler` | writes during the fork, two kinds of children | what `dirty` does not count is saved | `Persistence`; the transfer in `Replication` |
| Hash table and SCAN (`dict.c`) | two tables, `rehashidx`, iterators | add, delete, `dictRehash`, `dictScan` | resize between two SCAN calls | SCAN returns every element that stays | planned |
| **Transactions** (`multi.c`) | queue, watched keys, flags | MULTI, EXEC, DISCARD, WATCH, `touchWatchedKey`, `propagate` | a key expires, is flushed or is popped for a blocked client between WATCH and EXEC; MULTI in the stream | EXEC runs only if no watched key changed; the stream replays to the same data | `Server` |
| **Blocking operations** (`blocked.c`, `t_list.c`) | blocked clients, `ready_keys` | BLPOP, BRPOPLPUSH, `handleClientsBlockedOnLists` | a push served inside another, a target of the wrong type, timeouts | first come first served, nobody waits on a list | `Server` |
| Expiry and eviction (`db.c`, `redis.c`) | `expires`, LRU clock | `expireIfNeeded`, `activeExpireCycle`, `freeMemoryIfNeeded` | a DEL of an expired key in the middle of a command | the stream has the DEL before what depends on it | expiry on a master in `Server` |
| Event loop, data types, pub/sub, scripting, configuration, tools, `deps/` | | | sequential code, I/O, formatting, third-party code | | not modelled |

Nodes of a cluster interact only by packets on the cluster bus. Every packet
carries a header (`clusterBuildMessageHdr`: epochs, slots, role, master), PING
and PONG also carry gossip about a few nodes. The detector hands its result to
the election through the FAIL flag; the election hands its result to everyone
through the slots and `configEpoch` in the headers. A reshard changes slots
beside the election: redis-trib gives each node commands, the new owner takes a
new `configEpoch` by itself, and headers and UPDATE do the rest. Clients of a
slot see all of it through -MOVED and -ASK.

Inside a server every write ends in `call` and `propagate`, which feed the AOF
(`Persistence`) and the slaves (`Replication`); `Server` checks that this stream
replays to the server's data. A sentinel works on servers from outside, by INFO,
SLAVEOF and hello messages; what SLAVEOF does to a server's data is in
`Replication`.

## 2. Modules

| Module | Contents |
|---|---|
| `ClusterElection` | the election, slot ownership, epochs, restarts; properties; the inductive invariant |
| `MCElection` | constants of its instances (shard A with up to three nodes, B and C with one) |
| `ClusterElectionProofs` | the theorems about `ClusterElection`: types, votes, winners, epochs, `nodes.conf` |
| `ClusterFailure` | the failure detector, restarts; properties |
| `MCFailure` | constants of its instances |
| `ClusterFailureProofs` | the theorems about `ClusterFailure` |
| `KeyStore` | abstract specification: what clients are promised of their keys |
| `ClusterSlots` | a slot that moves between masters, with clients, redis-trib, MIGRATE and heartbeats; shown to implement `KeyStore` |
| `MCSlots` | constants of its instances |
| `ClusterSlotsProofs` | the theorems about `ClusterSlots`: types; of one move, the data, the redirections, `KeyStore` |
| `Sentinel`, `MCSentinel` | one monitored master: votes, failover, configuration; its instances |
| `SentinelProofs` | the theorems about `Sentinel`: types, votes, leaders; its configuration file |
| `Replication`, `MCReplication` | masters, slaves and slaves of slaves; a star and a chain |
| `ReplicationProofs` | the theorems about `Replication` |
| `DurableLog` | abstract specification: what a server that may go down promises of its writes |
| `Persistence`, `MCPersistence` | the AOF and the snapshots of one server; shown to implement `DurableLog` |
| `PersistenceProofs` | the theorems about `Persistence`: the file, the disk, the snapshot, `DurableLog` |
| `Induction` | induction over the numbers, in a form the provers can use |
| `Server`, `MCServer` | transactions, blocking commands, expiry and the stream of one server; its clients |
| `ServerProofs` | the theorems about `Server` |

Operators whose comment says *mutant* are wrong versions of the definition that
follows them, with a bug somebody could write. No specification uses them; each
shows that the property it is kept for would notice such a bug.

### ClusterElection

The variables have the names of the fields of `clusterState` and `clusterNode`.
`configEpoch[n][r]` and `slots[n][s]` are *n's table*: what `n` believes of
`r` and of a shard. `disk[n]` is `nodes.conf`. `votes`, `forgotten`, `acks`,
`asked` and `wins` are history that no action reads.

| Action | Code |
|---|---|
| `ScheduleElection`, `RequestVotes`, `Promote`, `ElectionTimeout` | the parts of `clusterHandleSlaveFailover` (3570-3858): a new attempt, the request once the delay is over, the take-over, the timeout |
| `ManualFailover`, `ManualTimeout` | `CLUSTER FAILOVER FORCE`, `manualFailoverCheckTimeout` |
| `GrantVote`, `DenyVote` | header handling in `clusterProcessPacket`, then `clusterSendFailoverAuthIfNeeded` (3303-3452) |
| `VoteDelayOver` | `voted_time` becomes older than two timeouts (3399) |
| `HandleAck` | the FAILOVER_AUTH_ACK branch (2588-2609) |
| `Heartbeat` | a PING or PONG: header, role change (2328-2386), slot claims (`clusterUpdateSlotsConfigWith`), UPDATE reply (2464-2495), epoch collision |
| `HandleUpdate` | the UPDATE branch (2631-2668) |
| `FlagFail`, `ClearFail` | what the detector decides, in one step for all nodes |
| `SaveConfig`, `Restart` | a save for another reason; `clusterInit` with `clusterLoadConfig` |

Which changes reach the disk matters here and is followed exactly:
`PersistIfDirty` saves when a handler asked for it (a new `configEpoch`, slot or
role), and not when only `currentEpoch` rose or a vote was granted. A handler and
the save of `clusterBeforeSleep` are one step. Packets queued by the handler
leave only after that, because they are written by the event loop.

Abstractions:

- A *shard* stands for all slots that are served together. Slots do not move
  between shards. `Size(n)`, the number of shards with an owner in the table of
  `n`, is `server.cluster->size`.
- A heartbeat is read with the state its sender has at that moment. AUTH_REQUEST,
  AUTH_ACK and UPDATE are kept in flight, in no order, and may stay there for
  ever; a duplicate of a message in flight is not represented, since the bus
  runs over TCP.
- The FAIL flag is one set for all nodes. `ClusterFailure` follows it node by
  node. Any node of `Fallible` may be flagged and cleared at any moment.
- A voter looks up the requester's role and master in its slot table: it takes
  the owner of the requester's shard as its master. Link state, data age and rank
  only decide *when* a slave tries, and a slave may try at any moment.
- Time is the freedom of when things happen. A timeout may come at any moment.

### ClusterFailure

`flags[n][r]` is `"ok"`, `"pfail"` or `"fail"`; `fail_reports[n][r]` are the
senders of the reports `n` holds on `r`; `size[n]` is `server.cluster->size`,
1 after a restart. `isolated` is the environment: nodes nobody hears, cut off or
dead. `suspected` and `marks` are history.

| Action | Code |
|---|---|
| `PingTimeout` | `clusterCron`, 4316-4340 |
| `ReportFailing`, `ReportReachable` | `clusterProcessGossipSection` with `clusterNodeAddFailureReport`, `clusterNodeDelFailureReport` and `markNodeAsFailingIfNeeded` |
| `ExpireReport` | `clusterNodeCleanupFailureReports` |
| `ReceiveFail` | the FAIL branch of `clusterProcessPacket`, 2517-2547 |
| `Pong` | a PONG clears PFAIL, `clearNodeFailureIfNeeded` clears FAIL |
| `UpdateState` | `clusterUpdateState` counts the masters |
| `Break`, `Reconnect` | links that are lost (with what was on them) and made again |
| `SaveConfig`, `Restart` | as above |

PFAIL asks for no save, FAIL and its clearing do. Time is abstracted in three
places. A report expires only when its sender no longer renews it
(`REDIS_CLUSTER_FAIL_REPORT_VALIDITY_MULT` timeouts against gossip that
mentions each failing node more often). `long` says whether
`REDIS_CLUSTER_FAIL_UNDO_TIME_MULT` timeouts have passed. A process does not
find a PONG overdue before it has counted the masters (the timeout is longer
than the two seconds of `REDIS_CLUSTER_WRITABLE_DELAY`, as it is by default).

### ClusterSlots

One slot and its keys. `slots[n]`, `migrating[n]` and `importing[n]` are the
slot's entries in `server.cluster` of node `n`; `db[n]` is what `n` stores.
`step`, `batch` and `left` say where redis-trib is in `move_slot`. `migrate` is
the MIGRATE the source waits in, one at a time, since it blocks the process
(`Blocked`): no command and no packet is handled there meanwhile.

| Action | Code |
|---|---|
| `Send` | a client's command, to any node (external) |
| `Redirect`, `Execute` | `processCommand` (`redis.c` 2786-2979) by the answer of `getNodeByQuery` (`Route`, 6519-6677) |
| `CheckCluster` | `check_cluster` in `redis-trib.rb` 326-377, before each reshard |
| `SetImporting`, `SetMigrating`, `GetKeysInSlot` | CLUSTER SETSLOT and GETKEYSINSLOT (5153-5190, 5384-5414), in the order of `move_slot` |
| `Migrate`, `MigrateReply`, `MigrateError` | `migrateCommand` (6247-6441): sent, answered, failed with the one retry |
| `Restore`, `LateRestore` | `restoreCommand` on the target (5912-5977), with its sender waiting or gone |
| `SetNode` | CLUSTER SETSLOT NODE on one node after the other, any order (5211-5267) |
| `Die` | redis-trib is killed at any step; the MIGRATE under way goes on |
| `Heartbeat`, `HoldUp`, `ReadHeldUp` | a PING or PONG, read with the sender's state of the moment or with an older one |
| `ReadUpdate` | the UPDATE branch (2631-2661) |

`KeyStore` is a table `val`, and for each client the command it waits for and
the reply of its last GET. A client sends a command, and later one step takes
effect for it: a GET copies the entry into the reply, a SET or DEL changes the
entry of its own key to its own value. `ActsAsOneStore` says two things of the
cluster. It implements `KeyStore`, with `val` read as `last` (the value of the
last command that was run) and `request` as the command each client waits for
(`Waiting`), wherever it was redirected: every request is run once, for the
client that made it, and every GET returns what was written last. And what the
nodes have of a key, all copies together, is that last value and nothing else:
the history alone would not notice a key that is lost and never read. While
MIGRATE is between RESTORE and the DEL at the source two nodes have the key,
with the same value as long as nobody can write to either.

Abstractions:

- One slot. Every node serves others, so nobody turns into a slave for want of
  slots, and the cluster state is ok throughout. Failovers are left to
  `ClusterElection`.
- Keys do not expire; MIGRATE is used as redis-trib does, without COPY or REPLACE.
- redis-trib looks at the cluster in one step (`CheckCluster`) and takes all the
  keys of the slot for one batch, not ten at a time. It stops at an error
  reply, which raises in the Ruby client library.
- A client sends ASKING and its command together, as one request. A node that
  runs the command without looking at ASKING loses the flag (`resetClient`);
  so does the request when it is redirected again.
- At most one heartbeat of each pair of nodes in `Slow` is held up at a time.
  UPDATE messages are held up freely.

### Sentinel

One monitored master with its instances. `addr[s]`, `config_epoch[s]`,
`slaves[s]` and `failover[s]` are sentinel `s`'s entry of the master, `vote[s]`
its `leader` and `leader_epoch`, `seen[s][r]` what `r` last reported of its own.
`disk[s]` is the configuration file, `role` what the instances really are.
`votes` and `leads` are history.

| Action | Code (`sentinel.c`) |
|---|---|
| `SDown` | `sentinelCheckSubjectivelyDown` |
| `Ask`, `AskDown`, `Answer`, `Forget` | `sentinelAskMasterStateToOtherSentinels`, the reply of `sentinelCommand` with `sentinelVoteLeader`, `sentinelReceiveIsMasterDownReply`, the expiry of what was told |
| `StartFailover`, `ForceFailover` | `sentinelStartFailoverIfNeeded` with the objective-down test, SENTINEL FAILOVER |
| `WaitStart`, `SelectSlave`, `SendSlaveOfNoOne`, `PromotionTimeout`, `ReconfNextSlave`, `DetectEnd` | the states of `sentinelFailoverStateMachine` |
| `InfoMaster`, `InfoSlave`, `Promoted`, `ConvertToSlave` | `sentinelRefreshInstanceInfo` |
| `Hello` | `sentinelProcessHelloMessage`, with the switch of the master's address |
| `SlaveOf` | the instance executes what `sentinelSendSlaveOf` sent |
| `Restart` | `sentinelHandleConfiguration` reads what `sentinelFlushConfig` wrote |
| `Crash`, `Recover` | an instance dies, or comes back as what it was |

Abstractions: time is the freedom of when things happen; one query per link
whose answer is read at once or lost, and one SLAVEOF per link; a hello message is
read with its sender's state of the moment; the sentinels know each other; INFO
shows the instance as it is; a sentinel corrects an instance only when no newer
configuration is on its way (`UpToDate`: it waits four hello periods, in which one
arrives); the SLAVEOFs of the failover timeout (4700-4725) are left out, because
they are only queued, and the same turn of the timer switches to the promoted
slave, whose `sentinelResetMaster` frees the links with what is queued on them;
SENTINEL FAILOVER comes in epoch 0; parallel-syncs is 1. TILT, RESET,
SET, REMOVE and the scripts are left out.

### Replication

`data[n]` is the sequence of writes with their databases, `offset`, `backlog`
and `slaveseldb` the master side of `n`, `client[m][s]` the slave's client at
its master with its state and buffer, `upstream[s]` the slave's `server.master`
or `cached_master`. `misplaced` and `astray` are history: the slaves whose
offset is not their place in the stream, and those that may differ from their
master, each entered where the code makes it so (see below).

| Action | Code (`replication.c`) |
|---|---|
| `Write`, `Deliver` | a command of a client or of the master: `call`, `replicationFeedSlaves`, the backlog (139-319) |
| `Continue`, `FullResync`, `NotServed` | `syncWithMaster` with `masterTryPartialResynchronization` (447-565) and `syncCommand` (570-745) of the master |
| `BgSave`, `BgSaveDone`, `LoadRdb` | the BGSAVE of a user, `updateSlavesWaitingBgsave` (977-1059), `readSyncBulkPayload` (1126-1320) |
| `Ack`, `WaitEnds` | REPLCONF ACK (823), `waitCommand` and `processClientsWaitingReplicas` |
| `Drop`, `LoseMaster` | `replicationCron` and `freeClient` on the master's side, `replicationCacheMaster` and `replicationHandleMasterDisconnection` on the slave's |
| `SlaveOf`, `SlaveOfNoOne` | `replicationSetMaster`, `replicationUnsetMaster` |
| `FreeBacklog`, `Restart` | the end of repl-backlog-ttl; a new process with a new run id that loads `dump.rdb` |

Abstractions: the handshake is one step; an output buffer and its socket are one
queue; an item of the stream has length 1; no server uses an AOF; PING and
GETACK are left out of the stream; acknowledgements are sent only while somebody
waits for them.

### Persistence

`file` is appendonly.aof with the number of its items that are on the disk,
`aof_child` and `rdb_child` what the children write. The fields of `redisServer`
keep their names. `replies` are the writes whose reply is in a client's output
buffer. `acked` and `turn` are history: writes whose reply has left, and the writes
executed in this turn of the event loop.

| Action | Code (`aof.c` unless named) |
|---|---|
| `Execute` | `processCommand` refuses after an error (`redis.c` 2865), else `call` and `feedAppendOnlyFile`; a transaction is MULTI, its commands, EXEC |
| `BeforeSleep`, `Tick` | `beforeSleep`, which ends the turn, and the second that passes where everysec asks for it: `flushAppendOnlyFile` with every outcome of `write` and `ftruncate` |
| `SendReplies` | `sendReplyToClient` (`networking.c` 1096-1220): some of the replies leave, in the turn of their command or in a later one |
| `BioFsync` | `bioProcessBackgroundJobs` |
| `BgRewriteAof`, `ScheduledRewrite` | BGREWRITEAOF, `serverCron` |
| `RewriteDone`, `RewriteFailed` | `backgroundRewriteDoneHandler` |
| `StartAppendOnly`, `StopAppendOnly` | CONFIG SET appendonly |
| `Save`, `BgSave`, `BgSaveDone` | `rdb.c` |
| `Exit`, `PowerLoss`, `Shutdown` | the end of the process, of the machine, `prepareForShutdown`; then `loadDataFromDisk` after redis-check-aof has mended the file |

Abstractions: what a rewrite puts in place is one item; a power loss cuts the file
between items; a rename is durable at once; children do not outlive the server;
no-appendfsync-on-rewrite is off; a write to a closed descriptor fails.

A reply does not wait for the flush. `prepareClientToWrite` (`networking.c` 231)
installs the write handler of a client only when nothing is pending for it; a
client that has output pending has its handler installed already, and
`aeProcessEvents` (`ae.c` 576-600) calls it right after the read handler that
executed the client's next commands. These are answered before `beforeSleep`
writes and synchronizes the file, whatever the comment at `aof.c` 323 says, and a
process or machine that ends in between loses writes that were acknowledged. So
`SendReplies` may come at any time, and no property says that every acknowledged
write is found. What holds is said of the turns that are over: `Answered` is
`acked` without `turn`, the writes that were answered and whose turn has ended.
`PersistencePipeline` (below) shows the loss with appendfsync always.

`DurableLog` says in a page what all this is for: the writes are a log, and
whatever ends, a restart finds a beginning of it, with what the configuration
promises. In the mapping (`Durable`) the log is `data`, the answered writes are
`Answered`, and the mode is computed from `conf`, `aof_state` and `aof_fsync`. Where
a restart will read `dump.rdb` ("snapshot"), it finds no less than the last save;
where it will read an AOF that is written ("append"), a beginning; with `always`
("synced") all that was answered in turns that are over. While the AOF of a server configured with one is
off, or waits for its first rewrite ("idle"), nothing is promised, not even a
beginning: `PersistenceLeftover` below shows why.

### Server

One step is one command, or one whole transaction, with everything that follows
from it before the thread returns to the event loop. It is worked out on a record
of the state (`Now`), passed through one operator per function, and stored at
the end (`Store`). `copy` is what a slave has that executes the stream: it
queues after MULTI, and expires nothing by itself; instead of the queue, `copy`
holds the data the queue will give at EXEC. `watched`, `arrived`, `served` and
`renamed` are history; `arrived` has the pairs of blocked clients of which the
first was blocked before the second. Clients send what the parser accepts
(`Form`); `Command` is such a form with the element that is pushed.

The loops of the code are recursive functions: over the queue of a transaction
(`Executed`), over the keys of a BLPOP up to the first that exists (`LookUp`), and
over the keys that were signaled (`HandleBlocked`). The last has `MaxTurns` turns,
which is not a bound on behaviours: `ServerProofs` shows that every serving ends
within them.

| Operator or action | Code |
|---|---|
| `Touch`, `Delete`, `Expire`, `SignalReady`, `BlockFor`, `Unblock` | `touchWatchedKey`, `dbDelete`, `expireIfNeeded`, `signalListAsReady`, `blockForKeys`, `unblockClientWaitingData` |
| `Lpush`, `Blpop`, `Brpoplpush`, `SetKey`, `Del`, `ExpireKey`, `Flush`, `Rename` | the command of that name (`t_list.c`, `db.c`) |
| `ServeClient`, `ServeNext`, `HandleBlocked` | `serveClientBlockedOnList`, `handleClientsBlockedOnLists` (`t_list.c` 1319-1503) |
| `Execute`, `QueueCommand`, `Refuse` | the ends of `processCommand` (`redis.c`): run it, queue it, or an error that flags the transaction |
| `Multi`, `Discard`, `ExecAborted`, `Exec`, `Watch`, `Unwatch` | `multi.c` |
| `Timeout`, `Disconnect` | `clientsCronHandleTimeout`, `freeClient` |
| `TtlPasses`, `ActiveExpire` | the clock, `activeExpireCycleTryExpire` |

Abstractions: one database; a master that is not a slave of another; time stands
still within a step (the code asks for it at every lookup outside of Lua, `db.c`
1577, so that a key may expire between two commands of an EXEC or two lookups of
one command; the DEL it propagates then comes before the command that found the
key gone, as in the model, only later in the step); an element is a number, all different; a value that is not a list is `Str`; a command
pushes one element and DEL takes one key; an argument error is an error like any
other (`Refuse`). BRPOP and RPOPLPUSH are BLPOP and BRPOPLPUSH at the other end
and without blocking. EVAL, MOVE, SORT STORE and RESTORE, which also write
lists, are left out.

## 3. What is checked

Safety is checked under every interleaving; for liveness the fairness is part of
`FairSpec` in the modules of the cluster and of `Spec` in `Sentinel`,
`Replication` and `Persistence` (`Server` has none). The configurations of the
election, the detector, Sentinel, replication and persistence say
`CHECK_DEADLOCK FALSE`: with a bounded number of epochs, restarts, writes and
faults a system at rest has nothing left to do, and in the program nothing but
the clock would move. Those of `MCSlots` and `MCServer` check deadlock too; what
keeps them alive are heartbeats and commands, so it says little.

### Election (`MCElection`)

| Configuration | Instance | Properties | What it shows |
|---|---|---|---|
| `ElectionSafety` | A1 dead with slaves A2 and A3, masters B1 and C1, epoch 4 free; A2 or B1 restarts once | `TypeOK`, `TwoWinnersNeedAGap`, `VotingInvariant`, `DoubleVoteWasForgotten`, `CurrentEpochIsHighest`, `NoEpochReuse`, `RestartKeepsConfig` | two slaves race in one epoch, in every order, and a candidate or a voter dies anywhere in between; the saves are where they must be, but for the vote; the invariant of the proof holds |
| `ElectionConverge` | A1, A2, B1 all linked; A2 gets CLUSTER FAILOVER FORCE; two attempts, epochs up to 4; fair | `OwnersConverge` | heartbeats and UPDATE lead to one slot table, in whatever order they are read |
| `ElectionFresh` | four nodes, every `configEpoch` 0, fair | `EpochsBecomeDistinct` | collisions are resolved within a few epochs |

### Failure detector (`MCFailure`)

| Configuration | Instance | Properties | What it shows |
|---|---|---|---|
| `FailureDetected` | three masters, one slave; M3 cut off once; one restart of any node; fair | `TypeOK`, `FailIsBacked`, `DownIsDetected`, `SuspicionEnds` | detection and recovery, whatever happens to FAIL messages; no flag without the voices for it, over a restart too |

### A slot that moves (`MCSlots`)

| Configuration | Instance | Properties | What it shows |
|---|---|---|---|
| `SlotsOneStore` | S gives the slot to T, O looks on; two clients with GET, SET and DEL on one key, with two values; a heartbeat of S to T may be late; redis-trib may die anywhere | `AskedNodeServes`, `ActsAsOneStore` | the cluster is one table to its clients at every point of a move, finished or broken off, however stale the nodes' tables are: each request takes effect once, and no copy is lost or comes back |
| `SlotsErrors` | the same move, T and O with one configEpoch; one client with SET and DEL; two MIGRATE failures; fair | `KeysKept`, `RequestsAreServed` | neither timeout, retry, a late RESTORE nor a collision of T with O loses a write; redirections end (a collision of S does: `SlotsSourceCollision`) |

`ActsAsOneStore` does not hold once MIGRATE may fail, and the model says why: the
target keeps the copy it stored while the source, which read an error (6437),
goes on serving the key. If the key is deleted there, the copy at the target is
all that is left when the slot moves, and a deleted key is back. `KeysKept` is
what remains: the last value written is still somewhere.

### Sentinel (`MCSentinel`)

| Configuration | Instance | Properties | What it shows |
|---|---|---|---|
| `SentinelVotes` | three sentinels, quorum 2, two of them candidates, the third may restart and lose answers; the master dies; epochs up to 2 | `VotesOnce`, `TwoLeadersNeedAGap` | votes survive a restart; two leaders of one epoch exist only where the votes that were counted are those of another epoch |
| `SentinelFailover` | two sentinels, three instances; the leader has yet to learn the slaves; the master and a slave crash once and come back; a forced failover; fair | `TypeOK`, `AnnouncedIsSaved`, `Converges` | the failover, the old master that comes back and crossed reconfigurations end with one master that everybody agrees on; what a leader announces is in its file at every point |

### Replication (`MCReplication`)

| Configuration | Instance | Properties | What it shows |
|---|---|---|---|
| `Replication` | a master with two slaves, or a chain of three; a backlog of one command; two writes in two databases; one of: a broken link, a failed BGSAVE, a BGSAVE of a user, a restart, SLAVEOF; fair | `TypeOK`, `InStepOrAstray`, `CachedInStep`, `OffsetIsPlace`, `WaitCountsHolders`, `Converges` | snapshot, buffers, SELECTs and backlog fit together without gap or overlap wherever the link breaks; what leads a slave astray is on the list below and nothing else |

### Persistence (`MCPersistence`)

| Configuration | Instance | Properties | What it shows |
|---|---|---|---|
| `Persistence` | appendonly on or off, appendfsync always or everysec, three writes in two databases, alone or in a transaction, answered before the flush of their turn; any two of: a write or child that fails, CONFIG SET, SAVE or BGSAVE, BGREWRITEAOF, the end of the process or of the machine, SHUTDOWN; fair | `TypeOK`, `RestartFindsPrefix`, `NothingMissing`, `AckedInFile`, `UncountedIsSaved`, `WaitEnds`, `ActsAsDurableLog` | whatever is interrupted, the file replays to a prefix, and to all that was acknowledged in turns that are over as far as appendfsync promises it; a server without an AOF comes back with its last snapshot or more; that is `DurableLog` |
| `PersistenceResume` | one failed write and one rewrite, everysec | `WritesResume`, violated | see below |

### One server (`MCServer`)

| Configuration | Instance | Properties | What it shows |
|---|---|---|---|
| `Server` | three clients, two keys: one with WATCH and MULTI over LPUSH, GET, BRPOPLPUSH and DEL, one with BLPOP on both keys, LPUSH, SET and EXPIRE, one with BRPOPLPUSH, BLPOP, RENAME and FLUSHDB | `TypeOK`, `WatchedUnchanged`, `StreamReplays`, `NobodyWaitsInVain`, `ServedInOrder` | every way a key changes reaches those who watch it; commands, DELs of expired keys, MULTI/EXEC and pops of served clients come in an order that replays; nobody is forgotten or overtaken |

### Bounds

- `MaxEpoch` bounds `currentEpoch`. The first epochs are 1, 2 and 3 (one for each
  shard), so 4 leaves one epoch to fight over when there are three shards, and two
  successive elections when there are two. A double vote, a double win and an epoch
  used twice need one epoch; an old acknowledgement and a stale promotion need two.
  `ElectionFresh` needs one epoch for each collision and has twice as many.
- `MaxRestarts` and `Restartable`: one restart separates a vote, a request or a
  promotion from its save. In `ElectionSafety` the candidate A2 and the voter B1
  stand for the others, whose roles are the same.
- `Fallible` and `Forcible` choose who may be flagged and who may get the command;
  `Linked` leaves out the links of a dead master, and in `ElectionSafety` those
  between the slaves and between the voters. They only remove behaviours.
- `Breakable`, `Suspects`: M3 is in trouble, at most `MaxBreaks` times, and any
  one node restarts while it is.
- `Slow`, `Ops`, `MaxErrors`, `MayDie`: one late heartbeat of the old owner to the
  new one is the packet that could take the slot back. Two errors allow a retry that
  fails too. `SlotsErrors` has no GET, since it does not look at replies, and two
  values so that an old copy differs from the new one. One key is enough: no step
  relates the keys of a slot but the emptiness tests of GETKEYSINSLOT and SETSLOT.
  `Reshards` is one move, in `SlotsLostKey` a second one of the same slot.
- Epochs need no bound in `ClusterSlots`: only a SETSLOT NODE and a collision
  raise one, and collisions end.
- `Sentinel`: with three sentinels and quorum 2 two candidates need each other's or
  the third one's vote; `Promotable = {}` stops each failover after the election,
  which is all `SentinelVotes` asks about. Two sentinels and one epoch are enough
  for a failover and its correction by one that did not lead it. `Newcomer` is the
  leader: had the other one to learn the slaves, only the reconfiguration timeout,
  which `Slow` leaves out, would reach a slave that lost its SLAVEOF. `Crashable`,
  `Restartable`, `Lossy`, `Noticing`, `Forcible` and `Slow` only remove behaviours.
- `Replication`: with a backlog of one command, offsets fall out of it at once; two
  writes in different databases need a SELECT between them. One fault at a time
  (`MaxFaults`): the departures below show that they matter one by one already.
- `Persistence`: two events allow a failing write during a rewrite, a rewrite that
  fails and is scheduled again, a crash after either. Three writes fill buffer,
  difference and file at once. `RepliesLeaveAtOnce` constrains the
  run to behaviours in which replies leave right behind their command, before the
  flush, which is the hardest case: `replies`, `turn` and `acked` are in no guard but
  that of `SendReplies`, and the properties ask for more the more was acknowledged.
  So a behaviour in which replies leave later, as they mostly do, violates one of them
  only if the same behaviour with the replies sent at once does. `PersistenceResume`
  and the other configurations have no such constraint, and neither have the proofs.
- `Server`: two elements are two pushes of one transaction, so that two blocked
  clients can be served from one key, and a BRPOPLPUSH served from one key makes
  the other one ready. `Commands`, `Watching` and `InMulti` choose what each client
  may send.
- Symmetry is used in `SentinelVotes` over the two candidates and in `SlotsOneStore`
  over clients and values, which nothing orders. Shards have different epochs and nodes ordered names.

### Fairness

`Heartbeat` and `HandleUpdate` are weakly fair: `clusterCron` pings every
connected node at least every half timeout, and the event loop reads every
readable socket. Elections, restarts, votes and failures carry no fairness:
`OwnersConverge` speaks of behaviours where elections stop.
In `ClusterFailure`, `PingTimeout`, `Pong`, `UpdateState` and `ReportFailing`
are weakly fair: the first three follow from `clusterCron` and the clock; a
report is repeated because the gossip section picks nodes at random on every
packet, so that a failing node is mentioned to everybody again and again.
Nothing is assumed of FAIL messages: they may never arrive.
In `ClusterSlots` redis-trib goes on (`MoveSlot`), a MIGRATE is answered
(`Restore`, `MigrateReply`; the timeout guards the source against anything else)
and a client follows the redirections it gets. Heartbeats carry no fairness:
`RequestsAreServed` holds without them, because whoever is behind redirects to
the source or to the target.

In `Sentinel` each state of the failover goes on and INFO and hello messages are
sent for as long as a sentinel runs (`sentinelTimer`, every 100 ms); instances in
`Recoverable` come back; votes carry no fairness (`Converges` speaks of
behaviours in which failovers end by themselves, MaxEpoch bounding them). In
`Replication` what is on a connection arrives, children end and
`replicationCron` connects once a second. In `Persistence` the event loop turns,
time passes, and children and the fsync thread end their work.

### Where the code departs from its comments

Each of these configurations checks one property that restates a comment, and
TLC finds it violated. Only `PersistenceResume` is one of the runs that
`PROJECT.json` lists; the others are kept beside them, one counterexample each,
to be run by hand: `tlc -config X.cfg M`, with `M` the `MC` module of that part.

| Configuration | Property | What happens |
|---|---|---|
| `ElectionStaleAck` | `WinBackedByMajority` (1972) | an acknowledgement of the previous election arrives after the counter was reset (3690) and before the new request; the check at 2600 compares it with the old `failover_auth_epoch` and counts it |
| `ElectionTwoWinners` | `OneWinnerPerEpoch` (1971) | `lastVoteEpoch` (3447) asks for no save; a master restarts after its vote and votes again. A2 wins with A1 and B1, A3 with B1 and C1 |
| `ElectionOldEpoch` | `PromotionTopsMaster` (3835) | the `failover_auth_*` fields survive a promotion; a second forced failover inside `auth_timeout` promotes the node at once with its old epoch |
| `ElectionSubReplica` | `SlavesFollowOwner` (1936) | a slave hears of its master's demotion first, clears the slots (2355), and does not recognise the later claim as its master's slots (1908) |
| `FailureFewMasters` | `MajorityOfMasters` (1339) | a restarted master has `size` 1 for two seconds and PFAIL flags from `nodes.conf`; one report is enough for it to declare FAIL |
| `SlotsLostKey` | `KeysKept` (6406: "no key is ever lost") | S gives the slot to T, T takes epoch 4; T gives it to O, which has not heard of 4 and so keeps 3 (5246); T, not told yet, still claims the slot with 4 in a heartbeat; O accepts it (1891) and deletes the key it was sent (1961) |
| `SlotsSourceCollision` | `KeysKept` | T has the highest configEpoch, 3, and keeps it when it is told first that the slot is its own (5246); S, which shares epoch 2 with O, resolves the collision meanwhile and takes 4 (2018); S, not told yet, claims the slot with 4; T accepts it and deletes the keys, those just written too |
| `SentinelOneLeader` | `OneLeaderPerEpoch` (`sentinel.c` 4100: "the majorify of the Sentinels we know that reported the same instance as leader for the same epoch") | `sentinelGetLeader` counts the votes of `current_epoch` (4132), and takes part in the epoch of the failover; when a newer epoch was heard in between, the two differ and two sentinels lead in one epoch |
| `ReplicationWait` | `WaitMeansProcessed` (`replication.c` 2347) | WAIT counts a slave whose offset is not its place in the stream (see below) |
| `PersistenceResume` | `WritesResume` (`redis.c` 1710: "we have a buffer to flush as well and clear the AOF error in case of success") | a rewrite that ends takes the buffer into the new file (`aof.c` 1792) and leaves the error; an empty buffer is never flushed (367), and writes are refused (`redis.c` 2868) for good |
| `PersistencePipeline` | `WrittenBeforeReply` (`aof.c` 323: "we are required to write the AOF before replying") | with appendfsync always, a client that pipelines and has output pending is answered by the write handler in the poll that executes its command, before `beforeSleep` writes the file |
| `PersistenceReply` | `WrittenByTurnEnd` (the same comment, with the writes of the current turn left out) | a flush that is postponed for two seconds (387) does not hold back the replies; SHUTDOWN (`redis.c` 3027) syncs the file but not the buffer |
| `PersistenceSync` | `SyncedAtLast` | everysec asks for an fsync only when something is written (367): after the last write of a burst none comes |
| `PersistenceLeftover` | `AppendsAfterRewrite` (`aof.c` 312: "now wait for the rerwite to be complete in order to append data on disk") | CONFIG SET appendonly no goes on when its flush fails, and leaves the rest in `aof_buf`; after CONFIG SET appendonly yes `flushAppendOnlyFile` writes it to the file at once, whatever `aof_state` is. When a BGREWRITEAOF ended in between, the file has those writes already (with no AOF open the buffer is kept, 1752), and a restart executes them twice |
| `ServerRename` | `ReadyKeysAreServed` (`t_list.c` 1125) | RENAME brings a list to a key on which clients are blocked; it does not signal, and neither does a later push, because the key exists |

Slaves go astray in `Replication` by: an offset announced with +FULLRESYNC that
is not that of the snapshot sent (554, 696, 706); a PSYNC to a slave that was
resynchronized itself (1234) and so gave its offsets a new meaning; a BGSAVE
killed by a signal, whose exit code is 0 (`rdb.c` 1892), so that the old
`dump.rdb` is sent; a fork that fails (1046), after which the slaves wait for
ever; SLAVEOF, which resets the offset under the same run id (1848, 1867).

Met on the way and not checked by a run: a slave's READONLY error does not flag
the transaction (`redis.c` 2900), and EXEC runs commands queued before SLAVEOF;
clients blocked when a master becomes a slave are served from the master's
stream and pop locally; a full resync touches only watched keys that exist
(`replication.c` 1232), and a key that expires is not noticed by WATCH at all;
`stopAppendOnly` (`aof.c` 268) may reap the BGSAVE child, done or not, whose pid
then stays;
`startAppendOnly` that fails (302) leaves a closed descriptor in `aof_fd`; the
rename of a rewritten AOF (1744) comes before the fsync of the difference (1772).

## 4. What is proved

For every set of nodes and shards, any epochs, links and number of restarts,
under `ConstantsAssumption` (finite sets, well-typed functions, `None` not a node).

**`ClusterElectionProofs`**

- `TypeCorrect`: `TypeOK`.
- `VotingCorrect`: `VotingInvariant`, which is inductive together with `TypeOK`.
  `TwoWinnersNeedAGap` speaks of winners only; to follow it over a step one must
  know what the counter of a candidate stands for. `EpochOrder` and
  `VotesRemembered` say that a voter's `lastVoteEpoch` covers every vote it did
  not lose, hence `VotedOnce`. `AcksAreVotes` ties each acknowledgement, in flight
  or counted, to a vote. `AcksDistinct` says that one vote gives one
  acknowledgement, hence `AcksCounted`: `failover_auth_count` is the number of
  *different* acknowledgements, although the code compares no senders (2603).
  The last two hold while no vote was forgotten.
- `DoubleVotesAreForgotten`: from `VotedOnce`.
- `TwoWinnersNeedOneOfTheGaps`: two winners of one epoch, without a forgotten
  vote, a stale acknowledgement, a quorum of too few masters or two voters of one
  shard, would have two majorities of the shards; they meet in a shard, whose one
  voter voted once. The counting is by the lemmas on finite sets.

The gaps are real: `ElectionTwoWinners` shows the forgotten votes and
`ElectionStaleAck` the stale acknowledgement. Read the other way around, the
theorem lists everything that must be closed for the comment at line 1971 to
be true. The rest is about epochs and restarts:

- `EpochsCovered`: `CurrentEpochIsHighest`, which is inductive: the bound on
  what a node knows needs the bound on what packets bring, and that one the
  first line of `clusterProcessPacket`, which raises `currentEpoch` before
  anything else is read. After a restart it holds because `clusterLoadConfig`
  takes the largest epoch in the file, although `currentEpoch` is not always saved.
- `ElectionsTopConfigs`: `ElectionTopsKnownConfigs`, an action property: each
  request for votes uses an epoch above every configuration the candidate knows.
  It does not say that the *winner's* epoch is (`ElectionOldEpoch`).
- `EpochsAreNotReused`: `NoEpochReuse`. Inductive is `AskedIsSaved`: the epoch of
  every election is in the candidate's `nodes.conf`, and the file is never ahead
  of the node, so that a new attempt, at `currentEpoch + 1`, has a new epoch.
- `RestartsKeepConfigs`: `RestartKeepsConfig`, because the file and the node's
  table agree after every handler (`ConfigIsSaved`). Nothing of the kind holds of
  `lastVoteEpoch`, which is why votes can be forgotten. Nor does it say that a
  new master's `configEpoch` is what others have for it: from its days as a slave
  they may know its old master's epoch under its name.

**`ClusterFailureProofs`**

- `TypeCorrect`: `TypeOK`.
- `FailAlwaysBacked`: `FailIsBacked`, by `BackedInvariant`, which adds that flags
  in memory and on disk were raised once (`FlagsWereRaised`) and that reports
  come from masters that flagged the node (`ReportsWereTrue`). Without these the
  voices that `markNodeAsFailingIfNeeded` counts would say nothing about
  anybody's observation. Most actions only take flags, reports and messages
  away; they share the lemma `HarmlessStep`.

**`ClusterSlotsProofs`**

Under `SlotsAssumption` (finitely many nodes, well-typed constants, a list of
moves between different nodes), for any nodes, keys, values and clients:

- `TypesHold`: `TypeOK`, whatever the moves. Beyond types it says that the slot
  always has an owner in every table, and that the key of a MIGRATE under way is
  at the source: this is what makes the retry send something, and it needs that
  the blocked source neither runs commands nor loses the slot, and that
  redis-trib does not go on to the next move.

The other theorems are about one move of the slot from its owner (`SingleMove`),
where no node with a greater name starts with the source's `configEpoch`
(`SourceKeepsEpoch`). They hold whenever redis-trib dies, however old a heartbeat
or UPDATE is when it is read, and however many MIGRATE fail (any `MaxErrors`, any
`Slow`, where the runs have two errors and one late packet):

- `KeysAreKept`: `KeysKept`.
- `AskedNodesServe`: `AskedNodeServes`.
- `ReadsFindTheLastWrite`, an action property: a command that is run finds the
  last value written to its key. The one exception is a key that was deleted: the
  target may have an old copy, from a MIGRATE that timed out.
- `SourceOnlyGives`: once the source redirects for the keys that it lacks, no step
  gives it back a key or the slot.
- `MoveImplementsStore`: `ActsAsOneStore`, if no connection of MIGRATE fails.

None of the hypotheses can go: `SlotsLostKey` has two moves, `SlotsSourceCollision`
a node that shares the source's epoch and has the greater name, and with
`MaxErrors = 1` the copy of a deleted key comes back. Who reads the theorems
backwards has the conditions of a safe reshard: distinct epochs (which `redis-trib
create` gives out, and a failover keeps apart but for collisions), the new owner
known everywhere before the slot moves on, and a look at both ends after an error.

The inductive invariant is `MoveInv`, with `TypeOK` (theorem `MoveInvHolds`). Its
argument is the order of `move_slot`:

- `MarksInv`: nobody but the two ends owns the slot, in any table, and the source
  is marked only when the target is (`AskableInv`, hence `AskedNodeServes`).
  `StageInv` ties the marks to the stage of redis-trib and of MIGRATE.
- `HandedInv` and `ClaimInv`: no table and no packet names the target as owner
  before the source is empty. `AskInv` says the same of one key and a client that
  was sent to ask for it. They are inductive since `Lasts` holds of every step
  (`SourceOnlyGives`): an importing slot takes a key only with ASKING, and RESTORE
  goes to the target only.
- `EpochInv` and `PacketEpochInv`: the source's epoch never changes and every node
  knows it, and the target takes the slot with one that is not smaller. Without
  them an old claim of the source could take the slot back and delete its keys at
  the target (`clusterUpdateSlotsConfigWith`, 1891, compares with a strict `<`).
  `SourceKeepsEpoch` is used for the initial state only: whoever takes a new epoch
  later takes a higher one than the source's.
- `DataInv`: the last value of a key is at the source if it has the key, and at the
  target if not. A RESTORE that is late finds the key at the target and is refused
  with BUSYKEY (`Accepts`), or it finds none there, and then the source has the key
  or it was deleted.

`StartInv` (nothing at the target before the source redirects) is added for the
reads; `StoreInv` (no key at both ends but the one that MIGRATE has just stored,
while the source is blocked, and no deleted key anywhere) for `KeyStore`. With it
what the nodes have of a key is the last value written to it (`TableInv`), the
second half of `ActsAsOneStore`; for the first half, a request that is sent is a
`Send` of the store, `Execute` is the `Get` or `Put` of the client that waits, and
every other step leaves its variables alone.

**`SentinelProofs`**

Under `SentinelAssumption` (finite sets, `Quorum` positive):

- `TypeCorrect`: `TypeOK`.
- `VotesOnceCorrect`: `VotesOnce`. Inductive with it are that a sentinel's
  `leader_epoch` covers every vote it gave, in memory and on disk, and that what
  is in memory was given: the vote is on the disk before the answer leaves.
- `TwoLeadersNeedAGapCorrect`: `TwoLeadersNeedAGap`. What others reported (`seen`)
  are votes they gave, so two unforced leaders whose counts were of their own
  epoch have two majorities of votes of that epoch, which meet in a sentinel
  that voted once. As in the cluster, the counting is by lemmas on finite sets,
  and the gap is real (`SentinelOneLeader`).
- `AnnouncedIsSavedCorrect`: `AnnouncedIsSaved`, inductive with `TypeOK`. A step
  either ends with a save, or changes neither the file nor what is announced:
  only a failover in `reconf_slaves` announces another master than `addr`, and
  every step into or out of that state, but for a restart, is saved.

**`ReplicationProofs`**

For every set of servers and databases, every topology and backlog size, under
`ReplicationAssumption`. The inductive invariant is `Inv`:
`TypeOK`, `LinkInv` and `StreamInv`. It covers every action, restarts and SLAVEOF
included.

- `ReplicationTypeCorrect`: `TypeOK`.
- `AttachedInStep`: `InStepOrAstray`. That the items under way make the slave's
  data its master's is not inductive by itself: the next write comes without a
  SELECT when the master has assumed its database before. `Leads` therefore also
  says that the end of the buffer selects `slaveseldb`, unless the master has
  forgotten it (`replication.c` 737) and sends a SELECT first. The clients that
  wait for a BGSAVE to start have SELECTs only (`StartInv`), so that they fit the
  snapshot whenever it is taken.
- `AnnouncedOffset`: `OffsetIsPlace`.
- `ContinuedInStep`: `CachedInStep`. A PSYNC sends the end of the *backlog*, while
  the slave lost a *buffer*: `Ends` says that the two end in the same items, as
  far as both go back. It has to say so item by item: "if the buffer is in the
  backlog, the backlog ends with it" is lost when the slave reads one item and
  the buffer gets short enough. `CachedInv` follows the slave while it is not
  attached: whatever the backlog can still give it leads to the master's data.
- `CountedSlavesStore`: `WaitCountsHolders`. `Brings` says that whoever reads up to
  the offset that is waited for stores the write by then; it is needed of the
  buffers and of what a cached slave would be sent, because a slave may
  disconnect before it has read the write and acknowledge it after a PSYNC.
  The proof found that the property needs `~renumbered`: SLAVEOF and SLAVEOF NO
  ONE start the server's offsets again (`replication.c` 1820-1850, 2332-2345)
  and leave a client blocked in WAIT with the old one.

**`PersistenceProofs`**

For every set of databases and policy, any number of writes, events and rewrites,
under `PersistenceAssumption` alone. The inductive invariant is again `Inv`
(theorem `Invariance`), `TypeOK` and four parts:

- `FileInv`: the items of the file and the buffer, and those of a rewrite's child
  and its difference, come to `data`, outside a transaction and with
  `aof_selected_db` selected. The database is what makes it inductive, as above.
- `AckInv`: the writes of the turns that are over and that were answered or wait to
  be (`Settled`) are in the file, or a flush waits or has failed. That it speaks of
  the replies that wait makes it inductive: they may leave at any moment.
- `DiskInv`: with `always` `Settled` is on the disk, and so is what the turn wrote
  when nothing is left in the buffer, since the turn may end then. It also
  constrains a server that does *not* append: its buffer is empty and its file
  all synced, since a restart with `appendonly yes` goes back to that file.
- `SaveInv`: `dump.rdb` has all but the last `dirty` writes; the child of a BGSAVE
  has a beginning of `data`, short of it by `dirty - dirty_before_bgsave` writes
  (`backgroundSaveDoneHandler`).

From it `TypeCorrect`, `PrefixFound` (`RestartFindsPrefix`), `AllThere`
(`NothingMissing`), `AckedFound` (`AckedInFile`), `AckedSynced` (`AckedOnDisk`)
and `SavedUncounted` (`UncountedIsSaved`). `AckedFound` and `AckedSynced` speak of
`Answered`, of replies that left whenever they liked, but of writes whose turn is
over; without that they are false (`PersistencePipeline`). The lemmas on sequences of items come
first: what items come to is decided one by one (`ReplayedNext`), and for one
sequence after another (`ReplayedOn`); a longer file holds more (`LogGrows`,
`HeldGrows`); cutting a file where redis-check-aof does, before a MULTI without
EXEC, loses nothing that was executed (`CutFacts`, `MendedFacts`).

`DurableLog` is the sum of this (`ImplementsLog`: `ActsAsDurableLog`
for all constants; `AckedOnDisk` follows from it as far as a crash can show it, and is
proved but not run by itself). A command is `Write`, a reply that leaves or the end of a turn `Answer`, CONFIG SET and
the end of a rewrite `Configure`, a snapshot `Save`. The four ends are one lemma
(`StartCrashes`): a new process is `Crash` if what is left of the file holds a
beginning of `data`, with `always` all of `Answered`. `LeftCrashes` shows that of every
cut behind the synchronized part, `BeforeSleepAnswers` of a server that exits because
it cannot write. For a server without an AOF `Inv` is too weak: `SnapInv` (theorem
`SnapshotIsPrefix`) adds that `dump.rdb` is a beginning of `data` and of what a saving
child writes, so no save, and no child that `stopAppendOnly` finds, goes back.

Two things came out of the attempt. `stopAppendOnly` waits with `wait3`, and a saving
child reaped there may have renamed its file: the model now has both. And the first
version of `DurableLog`, which promised a beginning in the mode "idle" too, is not
implemented; the step that could not be proved is `PersistenceLeftover`.

**`ServerProofs`**

For every set of clients and keys and whatever commands the clients may send,
under `ServerAssumption` (finite sets; `None` and `Str` are no lists). One action
is a whole command or transaction and the serving that follows, so the work is
within the step: the state record is followed through every operator.

- `Good` is what holds of it at any time: its types, who is blocked where,
  `Signaled` (a list on which somebody is blocked came by RENAME or its key is in
  `ready_keys`), `Watchful` (a watched key is intact or its client is flagged),
  `InStep` (the slave's data are the server's; inside a MULTI those its queue will
  give) and `Ordered`. Nobody is served between commands, so `Fit` adds that no
  list is empty, that a client in MULTI is not blocked and that no key is signaled
  twice. There is a lemma for every command (`LpushFit` to `RenameFit`), for one of
  a transaction (`ExecOneGood`) and, by induction, for all of them (`ExecutedGood`).
- While clients are served a key may hold an empty list, because the key is deleted
  only when the code is done with it; the stream has deleted it already. `Hollow`
  allows that for the first of `ready_keys` alone, and `InStep` compares with what
  the data show. `ServeClientGood` follows `serveClientBlockedOnList` with the pop
  it undoes when the destination has the wrong type.
- The loops end: `Weight`, twice the number of blocked clients plus the keys in
  `ready_keys`, falls with every turn (`ServeNextGood`), although a served
  BRPOPLPUSH may signal one more key. So `HandleBlocked` leaves no key
  (`HandleBlockedGood`), and with that `Signaled` becomes `NobodyWaitsInVain`.
- Between steps two properties are not inductive. For `WatchedUnchanged`, `Intact`
  adds that a client that watched a key without expiry is flagged once the key has
  one: otherwise it could expire unseen. For `ServedInOrder`, `InLine` says that the
  lists of blocked clients are in the order of `arrived`. They rest on
  `expireGenericCommand`, which touches the key, and on `blockForKeys`, which
  appends.

From `Inv` (`Invariance`) follow `TypeCorrect`, `WatchedStay` (`WatchedUnchanged`),
`StreamFaithful` (`StreamReplays`), `NobodyForgotten` (`NobodyWaitsInVain`) and
`FirstComeFirstServed` (`ServedInOrder`).

What the loops of `Server`, and the items of `Replication` and `Persistence`, come
to are recursive functions. The library's induction theorems take an operator as
parameter; `Induction` proves induction for a *set* of numbers from
well-foundedness, and that form a proof can use: each lemma about them names the
set of lengths it holds for. The invariants were checked by TLC, as invariants of
the runs' instances, before they were proved.

Only model-checked: the liveness properties (liveness under fairness is beyond the
prover), and of `ClusterSlots` what lists of several moves do.

## 5. What is not modelled, and what could come next

1. `ClusterSlots`, the rest: SETSLOT STABLE and `redis-trib fix`, ADDSLOTS and
   DELSLOTS with `verifyClusterConfigWithData`, commands on two keys (-TRYAGAIN);
   a failover of the source during the move.
2. Cluster membership (MEET, FORGET, RESET) and replica migration.
3. The manual failover handshake: clients paused, offsets, MFSTART, both timeouts.
4. Sentinel: discovery and removal of sentinels, TILT, RESET, scripts.
5. Replication: timeouts in the handshake, min-slaves-to-write, keys that expire
   on slaves, and a slave's blocked clients (one would compose it with `Server`).
6. SCAN and incremental rehashing (`dict.c`).
7. An abstract specification of slot ownership and `ClusterElection` shown to
   implement it where the gaps are closed.

Not planned: data types, encodings, scripting, publish and subscribe, parsing and
formatting, the command line tools and `deps/`. They are sequential, or I/O, or
not this project's code.
