------------------------------ MODULE Replication ------------------------------
(***************************************************************************)
(* Asynchronous replication (replication.c, with the parts of networking.c *)
(* and rdb.c it needs): a master feeds its replication stream to its       *)
(* slaves and to a backlog; a slave that attaches gets a snapshot and the  *)
(* stream since, or, when it was attached before, what it missed of the    *)
(* stream (PSYNC); slaves may have slaves.                                 *)
(*                                                                         *)
(* What a server stores is the sequence of the writes it executed, each    *)
(* with the database it went to.  An item of the stream is one command and *)
(* has length 1.  The output buffer of a slave's client and the connection *)
(* behind it are one queue; the handshake up to the reply to PSYNC is one  *)
(* step.  No server uses an append only file.                              *)
(***************************************************************************)
EXTENDS Naturals, Sequences, FiniteSets, SequencesExt

CONSTANTS
    Node,           \* the servers
    DB,             \* the databases
    DefaultDB,      \* the one a new client has selected
    None,           \* the null pointer, and the file that is not there
    Topologies,     \* the slaveof directives the servers may start with, None for none
    BacklogSize,    \* repl-backlog-size
    Orders,         \* bound: the <<slave, master>> SLAVEOF commands that may come
    MaxWrites,      \* bound: writes of clients
    Faults,         \* bound: what may happen: a broken connection ("break"), a BGSAVE
                    \* that fails ("bgsave") or that a user starts ("save"), SLAVEOF
                    \* ("slaveof"), a process that restarts ("restart")
    Operated,       \* bound: the servers that restart or get a BGSAVE from a user
    MaxFaults       \* bound: how often anything of this happens

Log      == Seq(DB \X Nat)     \* writes, each with the database it went to
Item     == [op : {"select"}, arg : DB] \cup [op : {"set"}, arg : Nat]
Upstream == [runid : Nat, off : Nat, db : DB]
Client   == [state : {"wait_start", "wait_end", "send_bulk", "online"}, buf : Seq(Item),
             ack : Nat, file : Log \cup {None}]

ASSUME ReplicationAssumption ==
    /\ IsFiniteSet(Node)
    /\ DefaultDB \in DB
    /\ None \notin Node \cup DB \cup Log \cup Seq(Item) \cup Upstream \cup Client
    /\ Topologies \subseteq [Node -> Node \cup {None}]
    /\ BacklogSize \in Nat \ {0}
    /\ Orders \subseteq Node \X (Node \cup {None})
    /\ MaxWrites \in Nat
    /\ Faults \subseteq {"break", "bgsave", "save", "slaveof", "restart"}
    /\ Operated \subseteq Node
    /\ MaxFaults \in Nat

VARIABLES
    data,        \* what each server stores
    rdb,         \* its dump.rdb, or None
    child,       \* what its BGSAVE child saves, or None
    runid,       \* server.runid
    masterhost,  \* server.masterhost, or None
    repl_state,  \* "none", "connect", "transfer", "connected"
    upstream,    \* runid, offset and selected database of server.master, of
                 \* server.cached_master ("connect") or of the one to come ("transfer")
    offset,      \* server.master_repl_offset
    backlog,     \* the last items of the stream, or None
    slaveseldb,  \* server.slaveseldb, or None
    client,      \* client[m][s]: the client of slave s at m, or None
    waiting,     \* the client blocked in WAIT, or None
    runs, writes, faults,   \* counters
    \* History variables: no action reads them.
    misplaced,   \* the slaves whose offset is not their place in the stream
    astray,      \* the slaves that may not store what their master stores
    renumbered   \* the server of the client in WAIT started its offsets again since

counters == <<runs, writes, faults>>
history  == <<misplaced, astray>>
blocked  == <<waiting, renumbered>>
disk     == <<rdb, child>>
stream   == <<offset, backlog, slaveseldb, client>>
link     == <<runid, masterhost, repl_state, upstream>>
vars == <<data, disk, link, stream, blocked, counters, history>>

\* Mutant of StateAs: a master connects too.
StateAsSlave(host) == "connect"
\* repl_state of a server that starts with that masterhost.
StateAs(host) == IF host = None THEN "none" ELSE "connect"

Select(d) == [op |-> "select", arg |-> d]
Set(w)    == [op |-> "set", arg |-> w]
-----------------------------------------------------------------------------
(* The stream. *)

\* What a server that stores acc.log, with acc.db selected, becomes by one item.
Execute(acc, i) == IF i.op = "select" THEN [acc EXCEPT !.db = i.arg]
                   ELSE [acc EXCEPT !.log = Append(@, <<acc.db, i.arg>>)]

\* What each prefix of items makes of a server that stores log and reads them with
\* db selected.
Played(items, log, db) ==
    LET played[k \in 0..Len(items)] == IF k = 0 THEN [log |-> log, db |-> db]
                                       ELSE Execute(played[k-1], items[k])
    IN  played

\* What all the items make of it.
Play(items, log, db) == Played(items, log, db)[Len(items)]

\* Mutant of Bytes: a SELECT is not counted.
BytesOfWrites(items) == Len(SelectSeq(items, LAMBDA i : i.op = "set"))
\* What items add to the offset.
Bytes(items) == Len(items)

\* Mutant of Kept: the backlog is full when the oldest item is still asked for.
KeptOldest(items) == IF Len(items) <= BacklogSize THEN items
                     ELSE SubSeq(items, 1, BacklogSize)
\* feedReplicationBacklog: the oldest items make room.
Kept(items) == IF Len(items) <= BacklogSize THEN items
               ELSE SubSeq(items, Len(items) - BacklogSize + 1, Len(items))

Slaves(m)  == {s \in Node : client[m][s] # None}
FirstByte(m) == offset[m] - Len(backlog[m]) + 1

\* replicationFeedSlaves: the write w to database d enters the stream of m, whose
\* clients are cl.  A slave that waits for its BGSAVE to start gets the SELECT and
\* not the write.
Feed(m, d, w, cl) ==
    LET select == IF slaveseldb[m] = d THEN <<>> ELSE <<Select(d)>>
        items  == select \o <<Set(w)>>
        fed(c) == IF c = None THEN None
                  ELSE [c EXCEPT !.buf = @ \o IF c.state = "wait_start" THEN select
                                                                        ELSE items]
    IN  IF backlog[m] = None /\ Slaves(m) = {}
          THEN client' = cl /\ UNCHANGED <<offset, backlog, slaveseldb>>
          ELSE /\ offset' = [offset EXCEPT ![m] = @ + Bytes(items)]
               /\ backlog' = [backlog EXCEPT ![m] = Kept(@ \o items)]
               /\ slaveseldb' = [slaveseldb EXCEPT ![m] = d]
               /\ client' = [cl EXCEPT ![m] = [s \in Node |-> fed(cl[m][s])]]

\* A client writes to a master and waits for its slaves (WAIT), unless another does.
Write(m, d) ==
    LET write == <<d, writes + 1>>
    IN  /\ masterhost[m] = None
        /\ writes < MaxWrites
        /\ writes' = writes + 1
        /\ data' = [data EXCEPT ![m] = Append(@, write)]
        /\ Feed(m, d, writes + 1, client)
        /\ waiting' = IF waiting = None THEN [at |-> m, entry |-> write, off |-> offset'[m]]
                                        ELSE waiting
        /\ renumbered' = (waiting # None /\ renumbered)
        /\ UNCHANGED <<disk, link, runs, faults, history>>

\* Mutant of Acked: one item too early.
AckedEarly(m, off) ==
    {s \in Slaves(m) : client[m][s].state = "online" /\ client[m][s].ack + 1 >= off}
\* replicationCountAcksByOffset: the slaves WAIT counts.
Acked(m, off) == {s \in Slaves(m) : client[m][s].state = "online" /\ client[m][s].ack >= off}

\* waitCommand and processClientsWaitingReplicas: the reply, as enough slaves have
\* acknowledged the offset or the timeout has passed.
WaitEnds ==
    /\ waiting # None
    /\ waiting' = None
    /\ renumbered' = FALSE
    /\ UNCHANGED <<data, disk, link, stream, counters, history>>
-----------------------------------------------------------------------------
(* A slave attaches. *)

Fault(kind) == /\ kind \in Faults /\ faults < MaxFaults
               /\ faults' = faults + 1

\* Mutant of Serves: a slave serves no one.
ServesAsMaster(m) == masterhost[m] = None
\* The master does not refuse; a slave whose own link is down does.
Serves(m) == masterhost[m] = None \/ repl_state[m] = "connected"

\* The slave asks for synchronization.
Asks(s) == masterhost[s] # None /\ repl_state[s] = "connect"

\* masterTryPartialResynchronization: the backlog of m goes back to where the slave
\* with upstream u stopped.
CanContinue(m, u) ==
    /\ u # None
    /\ u.runid = runid[m]
    /\ backlog[m] # None
    /\ u.off + 1 >= FirstByte(m)
    /\ u.off + 1 <= FirstByte(m) + Len(backlog[m])

\* addReplyReplicationBacklog.
Missed(m, u) == SubSeq(backlog[m], u.off + 1 - FirstByte(m) + 1, Len(backlog[m]))

NewClient(state, buf) == [state |-> state, buf |-> buf, ack |-> 0, file |-> None]

\* PSYNC is accepted, the slave resurrects its cached master.
Continue(s) ==
    LET m == masterhost[s]
    IN  /\ Asks(s) /\ Serves(m) /\ CanContinue(m, upstream[s])
        /\ client' = [client EXCEPT ![m][s] = NewClient("online", Missed(m, upstream[s]))]
        /\ repl_state' = [repl_state EXCEPT ![s] = "connected"]
        /\ astray' = astray \cup ({s} \cap misplaced)
        /\ UNCHANGED <<data, disk, runid, masterhost, upstream, offset, backlog, slaveseldb,
                       blocked, counters, misplaced>>

\* PSYNC is refused, its reply is lost, or BGSAVE cannot be started: the slave
\* discards its cached master, tries SYNC on the same connection and gives up.
NotServed(s) ==
    LET m == masterhost[s]
    IN  /\ Asks(s)
        /\ upstream[s] # None
        /\ IF Serves(m) THEN Fault("break") ELSE UNCHANGED faults
        /\ upstream' = [upstream EXCEPT ![s] = None]
        /\ UNCHANGED <<data, disk, runid, masterhost, repl_state, stream, blocked, runs,
                       writes, history>>

\* Mutant of Attached: the buffer is not copied.
AttachedEmpty(m) ==
    {NewClient(IF child[m] = None \/ \E t \in Slaves(m) : client[m][t].state = "wait_end"
                 THEN "wait_end" ELSE "wait_start", <<>>)}
\* The client syncCommand makes of a slave that needs a snapshot: it waits for the
\* end of a BGSAVE that starts now, or that some slave waits for already, whose
\* buffer it copies, or else for the start of the next.
Attached(m) ==
    LET waiters == {t \in Slaves(m) : client[m][t].state = "wait_end"}
    IN  IF child[m] = None THEN {NewClient("wait_end", <<>>)}
        ELSE IF waiters = {} THEN {NewClient("wait_start", <<>>)}
        ELSE {NewClient("wait_end", client[m][t].buf) : t \in waiters}

\* Every client with the buffer of c waits for the same BGSAVE.
Lost(m, c) == \E t \in Slaves(m) \cap astray : client[m][t].state = "wait_end"
                                               /\ client[m][t].buf = c.buf

\* A full resynchronization: +FULLRESYNC names the offset of the stream as it is
\* now, whatever the BGSAVE.
FullResync(s) ==
    LET m     == masterhost[s]
        first == backlog[m] = None
        off   == IF first THEN offset[m] + 1 ELSE offset[m]
    IN  /\ Asks(s) /\ Serves(m) /\ ~CanContinue(m, upstream[s])
        /\ \E c \in Attached(m) :
              /\ client' = [client EXCEPT ![m][s] = c]
              /\ misplaced' = IF off + Len(c.buf) # off THEN misplaced \cup {s}
                                                        ELSE misplaced \ {s}
              /\ astray' = IF child[m] # None /\ Lost(m, c) THEN astray \cup {s}
                                                            ELSE astray \ {s}
        /\ child' = IF child[m] = None THEN [child EXCEPT ![m] = data[m]] ELSE child
        /\ IF first /\ Slaves(m) = {}
             THEN /\ offset' = [offset EXCEPT ![m] = @ + 1]
                  /\ backlog' = [backlog EXCEPT ![m] = <<>>]
             ELSE UNCHANGED <<offset, backlog>>
        /\ slaveseldb' = [slaveseldb EXCEPT ![m] = None]
        /\ upstream' = [upstream EXCEPT ![s] =
                           [runid |-> runid[m], off |-> off, db |-> DefaultDB]]
        /\ repl_state' = [repl_state EXCEPT ![s] = "transfer"]
        /\ UNCHANGED <<data, rdb, runid, masterhost, blocked, counters>>
-----------------------------------------------------------------------------
(* The snapshot. *)

\* BGSAVE, from a client or from serverCron.
BgSave(m) ==
    /\ m \in Operated
    /\ child[m] = None
    /\ Fault("save")
    /\ child' = [child EXCEPT ![m] = data[m]]
    /\ UNCHANGED <<data, rdb, link, stream, blocked, runs, writes, history>>

\* backgroundSaveDoneHandler and updateSlavesWaitingBgsave: the child succeeded, or
\* failed, or was killed, which has exit code 0 too.  The slaves that waited for it
\* get dump.rdb; for those that wait for the next BGSAVE it is started, and if it
\* cannot be they wait all the same.
BgSaveDone(m, how, forked) ==
    LET in(state) == {s \in Slaves(m) : client[m][s].state = state}
        next      == in("wait_start")
        file      == IF how = "ok" THEN child[m] ELSE rdb[m]
        sent      == how # "failed" /\ file # None
    IN  /\ child[m] # None
        /\ ~forked => next # {}
        /\ IF how # "ok" \/ ~forked THEN Fault("bgsave") ELSE UNCHANGED faults
        /\ rdb' = [rdb EXCEPT ![m] = file]
        /\ child' = [child EXCEPT ![m] = IF next # {} /\ forked THEN data[m] ELSE None]
        /\ client' = [client EXCEPT ![m] = [s \in Node |->
              CASE s \in next            -> [@[s] EXCEPT !.state = "wait_end"]
                [] s \in in("wait_end")  -> IF sent THEN [@[s] EXCEPT !.state = "send_bulk",
                                                                      !.file = file]
                                                    ELSE None
                [] OTHER                 -> @[s]]]
        /\ misplaced' = (misplaced \ next) \cup
              {s \in next : upstream[s].off + Len(client[m][s].buf) # offset[m]}
        /\ astray' = astray \cup (IF forked THEN {} ELSE next)
                            \cup (IF sent /\ file # child[m] THEN in("wait_end") ELSE {})
        /\ UNCHANGED <<data, link, offset, backlog, slaveseldb, blocked, runs, writes>>

\* sendBulkToSlave and readSyncBulkPayload: the slave replaces what it stores by the
\* snapshot.  It keeps its own backlog, to which former slaves of its may come back.
LoadRdb(s) ==
    LET m == masterhost[s]
    IN  /\ repl_state[s] = "transfer"
        /\ client[m][s] # None
        /\ client[m][s].state = "send_bulk"
        /\ data' = [data EXCEPT ![s] = client[m][s].file]
        /\ rdb' = [rdb EXCEPT ![s] = client[m][s].file]
        /\ client' = [client EXCEPT ![m][s] = [@ EXCEPT !.state = "online", !.file = None]]
        /\ repl_state' = [repl_state EXCEPT ![s] = "connected"]
        /\ astray' = astray \cup (IF data' = data THEN {}
                                  ELSE {t \in Node : CanContinue(s, upstream[t])})
        /\ UNCHANGED <<child, runid, masterhost, upstream, offset, backlog, slaveseldb,
                       blocked, counters, misplaced>>
-----------------------------------------------------------------------------
(* The slave reads the stream. *)

\* readQueryFromClient for the client of the master; what the slave executes enters
\* its own stream.
Deliver(s) ==
    LET m    == masterhost[s]
        c    == client[m][s]
        u    == upstream[s]
        item == Head(c.buf)
        rest == [client EXCEPT ![m][s].buf = Tail(@)]
    IN  /\ repl_state[s] = "connected"
        /\ c # None
        /\ c.buf # <<>>
        /\ upstream' = [upstream EXCEPT ![s] = [u EXCEPT
              !.off = @ + 1, !.db = IF item.op = "select" THEN item.arg ELSE @]]
        /\ IF item.op = "select"
             THEN client' = rest /\ UNCHANGED <<data, offset, backlog, slaveseldb>>
             ELSE /\ data' = [data EXCEPT ![s] = Append(@, <<u.db, item.arg>>)]
                  /\ Feed(s, u.db, item.arg, rest)
        /\ UNCHANGED <<disk, runid, masterhost, repl_state, blocked, counters, history>>

\* replicationSendAck, REPLCONF ACK; only WAIT reads the acknowledged offset.
Ack(s) ==
    LET m == masterhost[s]
    IN  /\ waiting # None
        /\ repl_state[s] = "connected"
        /\ client[m][s] # None
        /\ upstream[s].off > client[m][s].ack
        /\ client' = [client EXCEPT ![m][s].ack = upstream[s].off]
        /\ UNCHANGED <<data, disk, link, offset, backlog, slaveseldb, blocked, counters,
                       history>>
-----------------------------------------------------------------------------
(* Connections and servers fail, roles change. *)

\* The master frees the client of a slave: repl-timeout, the limit of the output
\* buffer, a broken connection.
Drop(m, s) ==
    /\ client[m][s] # None
    /\ Fault("break")
    /\ client' = [client EXCEPT ![m][s] = None]
    /\ UNCHANGED <<data, disk, link, offset, backlog, slaveseldb, blocked, runs, writes,
                   history>>

\* The slave finds its connection closed: it caches the master
\* (replicationCacheMaster) and disconnects its own slaves, or gives up the transfer.
LoseMaster(s) ==
    /\ repl_state[s] \in {"transfer", "connected"}
    /\ client[masterhost[s]][s] = None
    /\ repl_state' = [repl_state EXCEPT ![s] = "connect"]
    /\ IF repl_state[s] = "connected"
         THEN /\ client' = [client EXCEPT ![s] = [t \in Node |-> None]]
              /\ UNCHANGED upstream
         ELSE /\ upstream' = [upstream EXCEPT ![s] = None]
              /\ UNCHANGED client
    /\ UNCHANGED <<data, disk, runid, masterhost, offset, backlog, slaveseldb, blocked,
                   counters, history>>

\* The clients once n has closed its connections to its master and its slaves.
Alone(n, slaves) ==
    [m \in Node |-> IF m = n THEN [s \in Node |-> IF s \in slaves THEN client[m][s] ELSE None]
                    ELSE [client[m] EXCEPT ![n] = None]]

\* The former slaves of n that ask to continue from offset off or a later one.
Beyond(n, off) == {t \in Node \ {n} : /\ upstream[t] # None
                                      /\ upstream[t].runid = runid[n]
                                      /\ upstream[t].off >= off}

\* SLAVEOF of another master (replicationSetMaster): the offset starts again at 0,
\* under the same runid.
SlaveOf(n, m) ==
    /\ <<n, m>> \in Orders /\ m # None
    /\ masterhost[n] # m
    /\ Fault("slaveof")
    /\ masterhost' = [masterhost EXCEPT ![n] = m]
    /\ repl_state' = [repl_state EXCEPT ![n] = "connect"]
    /\ upstream' = [upstream EXCEPT ![n] = None]
    /\ client' = Alone(n, {})
    /\ backlog' = [backlog EXCEPT ![n] = None]
    /\ offset' = [offset EXCEPT ![n] = 0]
    /\ astray' = astray \cup Beyond(n, 1)
    /\ renumbered' = (renumbered \/ (waiting # None /\ waiting.at = n))
    /\ UNCHANGED <<data, disk, runid, slaveseldb, waiting, runs, writes, misplaced>>

\* SLAVEOF NO ONE (replicationUnsetMaster): a server without slaves goes on from
\* the offset it reached in the stream of its master.
SlaveOfNoOne(n) ==
    LET adopts == repl_state[n] = "connected" /\ Slaves(n) = {}
    IN  /\ <<n, None>> \in Orders
        /\ masterhost[n] # None
        /\ Fault("slaveof")
        /\ masterhost' = [masterhost EXCEPT ![n] = None]
        /\ repl_state' = [repl_state EXCEPT ![n] = "none"]
        /\ upstream' = [upstream EXCEPT ![n] = None]
        /\ client' = Alone(n, Slaves(n))
        /\ IF adopts THEN /\ offset' = [offset EXCEPT ![n] = upstream[n].off]
                          /\ backlog' = [backlog EXCEPT ![n] = None]
                          /\ astray' = astray \cup Beyond(n, upstream[n].off + 1)
                     ELSE UNCHANGED <<offset, backlog, astray>>
        /\ UNCHANGED <<data, disk, runid, slaveseldb, blocked, runs, writes, misplaced>>

\* The process of n restarts, with its dump.rdb and its configuration.
Restart(n) ==
    /\ n \in Operated
    /\ Fault("restart")
    /\ runs' = runs + 1
    /\ runid' = [runid EXCEPT ![n] = runs + 1]
    /\ data' = [data EXCEPT ![n] = IF rdb[n] = None THEN <<>> ELSE rdb[n]]
    /\ child' = [child EXCEPT ![n] = None]
    /\ repl_state' = [repl_state EXCEPT ![n] = StateAs(masterhost[n])]
    /\ upstream' = [upstream EXCEPT ![n] = None]
    /\ offset' = [offset EXCEPT ![n] = 0]
    /\ backlog' = [backlog EXCEPT ![n] = None]
    /\ slaveseldb' = [slaveseldb EXCEPT ![n] = None]
    /\ client' = Alone(n, {})
    /\ IF waiting # None /\ waiting.at = n THEN waiting' = None /\ renumbered' = FALSE
                                           ELSE UNCHANGED blocked
    /\ UNCHANGED <<rdb, masterhost, writes, history>>

\* replicationCron: a server without slaves for repl-backlog-ttl frees its backlog.
FreeBacklog(n) ==
    /\ backlog[n] # None
    /\ Slaves(n) = {}
    /\ backlog' = [backlog EXCEPT ![n] = None]
    /\ UNCHANGED <<data, disk, link, offset, slaveseldb, client, blocked, counters, history>>
-----------------------------------------------------------------------------
Init ==
    /\ data = [n \in Node |-> <<>>]
    /\ rdb = [n \in Node |-> None]
    /\ child = [n \in Node |-> None]
    /\ runid = CHOOSE id \in [Node -> 1..Cardinality(Node)] :
                  \A m, n \in Node : id[m] = id[n] => m = n
    /\ masterhost \in Topologies
    /\ repl_state = [n \in Node |-> StateAs(masterhost[n])]
    /\ upstream = [n \in Node |-> None]
    /\ offset = [n \in Node |-> 0]
    /\ backlog = [n \in Node |-> None]
    /\ slaveseldb = [n \in Node |-> None]
    /\ client = [m \in Node |-> [s \in Node |-> None]]
    /\ waiting = None
    /\ runs = Cardinality(Node)
    /\ writes = 0
    /\ faults = 0
    /\ misplaced = {}
    /\ astray = {}
    /\ renumbered = FALSE

Next ==
    \/ \E m \in Node, d \in DB : Write(m, d)
    \/ WaitEnds
    \/ \E n \in Node :
          \/ Continue(n) \/ NotServed(n) \/ FullResync(n) \/ LoadRdb(n) \/ Deliver(n)
          \/ Ack(n) \/ LoseMaster(n) \/ SlaveOfNoOne(n) \/ Restart(n) \/ FreeBacklog(n)
          \/ BgSave(n)
    \/ \E n \in Node, how \in {"ok", "failed", "killed"}, forked \in BOOLEAN :
          BgSaveDone(n, how, forked)
    \/ \E m, s \in Node : Drop(m, s) \/ SlaveOf(s, m)

\* What is on a connection arrives, a child ends, replicationCron connects once a
\* second.
Fairness ==
    /\ \A n \in Node :
          /\ WF_vars(Continue(n)) /\ WF_vars(FullResync(n)) /\ WF_vars(LoadRdb(n))
          /\ WF_vars(Deliver(n)) /\ WF_vars(LoseMaster(n))
          /\ WF_vars(\E how \in {"ok", "failed", "killed"}, forked \in BOOLEAN :
                        BgSaveDone(n, how, forked))

Spec == Init /\ [][Next]_vars /\ Fairness
-----------------------------------------------------------------------------
(* Properties. *)

\* Every variable has its type (redisServer and redisClient, redis.h).
TypeOK ==
    /\ data \in [Node -> Log]
    /\ rdb \in [Node -> Log \cup {None}]
    /\ child \in [Node -> Log \cup {None}]
    /\ runid \in [Node -> Nat]
    /\ masterhost \in [Node -> Node \cup {None}]
    /\ repl_state \in [Node -> {"none", "connect", "transfer", "connected"}]
    /\ \A n \in Node : repl_state[n] = "none" <=> masterhost[n] = None
    /\ upstream \in [Node -> Upstream \cup {None}]
    /\ offset \in [Node -> Nat]
    /\ backlog \in [Node -> Seq(Item) \cup {None}]
    /\ slaveseldb \in [Node -> DB \cup {None}]
    /\ client \in [Node -> [Node -> Client \cup {None}]]
    /\ waiting \in [at : Node, entry : DB \X Nat, off : Nat] \cup {None}
    /\ runs \in Nat /\ writes \in Nat /\ faults \in Nat
    /\ misplaced \in SUBSET Node
    /\ astray \in SUBSET Node
    /\ renumbered \in BOOLEAN

\* What slave s of m will store once it has read what is under way to it.
Future(m, s) ==
    LET c == client[m][s]
    IN  CASE c.state = "online"    -> Play(c.buf, data[s], upstream[s].db).log
          [] c.state = "send_bulk" -> Play(c.buf, c.file, DefaultDB).log
          [] c.state = "wait_end"  -> Play(c.buf, child[m], DefaultDB).log

\* A slave that is attached to its master and reads all that is under way to it
\* then stores what the master stores: the snapshot, the buffer filled since, the
\* SELECTs in it and the backlog fit together without gap or overlap.
SlavesInStep ==
    \A m \in Node : \A s \in Slaves(m) :
       client[m][s].state # "wait_start" => Future(m, s) = data[m]

\* The only ways out of step: a BGSAVE that was killed or could not be started, a
\* PSYNC from an offset that +FULLRESYNC announced wrong, and a PSYNC to a server
\* that gave a new meaning to its offsets.
InStepOrAstray ==
    \A m \in Node : \A s \in Slaves(m) \ astray :
       client[m][s].state # "wait_start" => Future(m, s) = data[m]

\* A PSYNC that will be accepted puts the slave back in step: the backlog from its
\* offset on is what it missed, under the database it has selected.
CachedInStep ==
    \A s \in Node \ (misplaced \cup astray) :
       Asks(s) /\ CanContinue(masterhost[s], upstream[s])
          => Play(Missed(masterhost[s], upstream[s]), data[s], upstream[s].db).log
                = data[masterhost[s]]

\* The offset a slave announces is its place in the stream of its master.
OffsetIsPlace ==
    \A m \in Node : \A s \in Slaves(m) \ (misplaced \cup astray) :
       client[m][s].state # "wait_start"
          => upstream[s].off + Len(client[m][s].buf) = offset[m]

\* Every slave that WAIT counts stores the write (waitCommand), as long as the server
\* does not become a slave of another: it forgets its offsets then and keeps the
\* client blocked.
WaitCountsHolders ==
    waiting # None /\ ~renumbered =>
       \A s \in Acked(waiting.at, waiting.off) \ (misplaced \cup astray) :
          waiting.entry \in ToSet(data[s])

\* WAIT is for replicas to acknowledge the processing of the write (comment of
\* waitCommand), so every one it counts has processed it.
WaitMeansProcessed ==
    waiting # None =>
       \A s \in Acked(waiting.at, waiting.off) : waiting.entry \in ToSet(data[s])

Agree == \A s \in Node : masterhost[s] # None => data[s] = data[masterhost[s]]

\* When faults end, every slave comes to store what its master stores, unless one
\* went astray.
Converges == <>(misplaced \cup astray # {}) \/ <>[]Agree
================================================================================
