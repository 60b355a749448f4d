------------------------------ MODULE ClusterElection ------------------------------
(***************************************************************************)
(* The failover election of Redis Cluster (cluster.c): a slave whose       *)
(* master is in FAIL state raises currentEpoch, asks every node for a      *)
(* vote, and takes over its master's slots once a majority of the masters  *)
(* acknowledged.  The module follows the epochs, the votes, the slot       *)
(* ownership that heartbeats and UPDATE messages propagate, and what       *)
(* nodes.conf keeps over a restart.                                        *)
(*                                                                         *)
(* A shard stands for the set of slots its nodes serve together; slots     *)
(* never move between shards here.  A handler that schedules a save        *)
(* (clusterDoBeforeSleep) and the save that clusterBeforeSleep then makes  *)
(* are one step: what the handler queued on a link leaves only after it.   *)
(***************************************************************************)
EXTENDS Naturals, FiniteSets

CONSTANTS
    Node,        \* the nodes of the cluster
    Shard,       \* the sets of slots that are served together
    ShardOf,     \* the shard of each node, [Node -> Shard]
    FirstMaster, \* the node that serves each shard at first, [Shard -> Node]
    FirstEpoch,  \* the configEpoch it does so with, [Shard -> Nat]
    NameRank,    \* the order of the node names (memcmp), [Node -> Nat]
    Linked,      \* the pairs <<r, n>> such that r has a link to n
    None,        \* the null pointer
    Fallible,    \* bound: the nodes that may be flagged FAIL
    Forcible,    \* bound: the slaves that may get a CLUSTER FAILOVER FORCE
    Restartable, \* bound: the nodes whose process may restart
    MaxEpoch,    \* bound: no node raises currentEpoch beyond it
    MaxRestarts  \* bound: how many times nodes restart

ASSUME ConstantsAssumption ==
    /\ IsFiniteSet(Shard)
    /\ ShardOf \in [Node -> Shard]
    /\ FirstMaster \in [Shard -> Node]
    /\ \A s \in Shard : ShardOf[FirstMaster[s]] = s
    /\ FirstEpoch \in [Shard -> Nat]
    /\ \A s \in Shard : FirstEpoch[s] <= MaxEpoch
    /\ NameRank \in [Node -> Nat]
    /\ None \notin Node
    /\ Linked \subseteq Node \X Node
    /\ Fallible \subseteq Node
    /\ Forcible \subseteq Node
    /\ Restartable \subseteq Node
    /\ MaxEpoch \in Nat
    /\ MaxRestarts \in Nat

VARIABLES
    currentEpoch,        \* server.cluster->currentEpoch of each node
    lastVoteEpoch,       \* server.cluster->lastVoteEpoch
    configEpoch,         \* configEpoch[n][r]: node->configEpoch of r in n's table
    slots,               \* slots[n][s]: owner of the slots of s in n's table
    slaveof,             \* myself->slaveof, None for a master
    fail,                \* the nodes flagged REDIS_NODE_FAIL
    votedRecently,       \* the masters whose voted_time is less than 2 timeouts ago
    auth,                \* the election a slave runs: idle, waiting its delay, asked
    failover_auth_epoch,
    failover_auth_count,
    manual,              \* mf_end # 0 and mf_can_start
    disk,                \* what nodes.conf holds
    msgs,                \* AUTH_REQUEST, AUTH_ACK and UPDATE messages in flight
    restarts,            \* restarts so far
    \* History variables: no action reads them.
    votes,               \* the votes granted, [voter, for, epoch]
    forgotten,           \* the votes a restart wiped from lastVoteEpoch
    acks,                \* the acknowledgements failover_auth_count stands for
    asked,               \* the elections started, <<candidate, epoch>>
    wins                 \* the elections won, [node, epoch, quorum, acks]

nodeVars == <<currentEpoch, lastVoteEpoch, configEpoch, slots, slaveof,
              votedRecently>>
authVars == <<auth, failover_auth_epoch, failover_auth_count, manual, acks>>
history  == <<votes, forgotten, asked, wins>>
vars == <<nodeVars, authVars, fail, disk, msgs, restarts, history>>

Larger(a, b) == IF a >= b THEN a ELSE b

IsMaster(n) == slaveof[n] = None
IsVoter(n)  == IsMaster(n) /\ slots[n][ShardOf[n]] = n

\* server.cluster->size: the masters n knows to serve slots, failing or not; a
\* shard whose master was demoted and has no new owner yet counts for nothing.
Size(n) == Cardinality({s \in Shard : slots[n][s] # None})

\* needed_quorum.
NeededQuorum(n) == (Size(n) \div 2) + 1

\* The node whose slots and configEpoch the header of n announces.
Announced(n) == IF IsMaster(n) THEN n ELSE slaveof[n]
Claims(n)    == slots[n][ShardOf[n]] = Announced(n)

\* clusterBuildMessageHdr: what every packet of n carries.
Header(n) == [from  |-> n,
              epoch |-> currentEpoch[n],
              cfg   |-> configEpoch[n][Announced(n)]]

\* clusterSendMessage on node->link; without a link nothing is sent.
Sent(m) == IF <<m.from, m.to>> \in Linked THEN {m} ELSE {}

\* Mutants of Persist: a nodes.conf that lacks lastVoteEpoch, that keeps the old
\* currentEpoch, that keeps the old configEpochs.
PersistNoVote(n) ==
    disk' = [disk EXCEPT ![n] = [currentEpoch |-> currentEpoch'[n],
                                 configEpoch  |-> configEpoch'[n],
                                 slots        |-> slots'[n],
                                 slaveof      |-> slaveof'[n]]]
PersistOldEpoch(n) ==
    disk' = [disk EXCEPT ![n] = [currentEpoch  |-> @.currentEpoch,
                                 lastVoteEpoch |-> lastVoteEpoch'[n],
                                 configEpoch   |-> configEpoch'[n],
                                 slots         |-> slots'[n],
                                 slaveof       |-> slaveof'[n]]]
PersistOldConfigs(n) ==
    disk' = [disk EXCEPT ![n] = [currentEpoch  |-> currentEpoch'[n],
                                 lastVoteEpoch |-> lastVoteEpoch'[n],
                                 configEpoch   |-> @.configEpoch,
                                 slots         |-> slots'[n],
                                 slaveof       |-> slaveof'[n]]]

\* nodes.conf as clusterSaveConfig writes it at the end of the step.
Persist(n) ==
    disk' = [disk EXCEPT ![n] = [currentEpoch  |-> currentEpoch'[n],
                                 lastVoteEpoch |-> lastVoteEpoch'[n],
                                 configEpoch   |-> configEpoch'[n],
                                 slots         |-> slots'[n],
                                 slaveof       |-> slaveof'[n]]]

\* Handlers ask for a save when they change a configEpoch, a slot or a role;
\* a raised currentEpoch and a granted vote ask for none.
PersistIfDirty(n) ==
    IF \/ configEpoch'[n] # configEpoch[n]
       \/ slots'[n] # slots[n]
       \/ slaveof'[n] # slaveof[n]
    THEN Persist(n)
    ELSE UNCHANGED disk

\* Mutant of HeardEpoch: currentEpoch stays behind the cluster's.
DeafToEpochs(n, hdr) == currentEpoch[n]

\* The first thing clusterProcessPacket does with a known sender's header.
HeardEpoch(n, hdr) == Larger(currentEpoch[n], hdr.epoch)

HeardConfigEpoch(n, hdr) ==
    [configEpoch[n] EXCEPT ![hdr.from] = Larger(@, hdr.cfg)]

\* Mutant of Rebinds: a slot nobody is known to serve stays unbound.
RebindsBound(n, s, owner, e, known) ==
    /\ slots[n][s] \notin {owner, None}
    /\ known[slots[n][s]] < e

\* clusterUpdateSlotsConfigWith: owner claims the slots of s with epoch e, and
\* n knows the epochs in known.
Rebinds(n, s, owner, e, known) ==
    /\ slots[n][s] # owner
    /\ slots[n][s] # None => known[slots[n][s]] < e

\* The slots n loses were its own, or those of its master: it replicates owner.
Switches(n, s) == slots[n][s] = Announced(n)

------------------------------------------------------------------------------
(* A slave's election: clusterHandleSlaveFailover, run by clusterCron and by
   clusterBeforeSleep. *)

\* The conditions every call checks first.  (How old the data may be decides
\* whether a slave tries at all, so a slave may always stay idle.)
CanFailover(c) ==
    /\ ~IsMaster(c)
    /\ slaveof[c] \in fail \/ manual[c]
    /\ Claims(c)

\* Mutant of ScheduleElection: the count of the last attempt is kept.
ScheduleKeepingCount(c) ==
    /\ CanFailover(c)
    /\ auth[c] = "idle"
    /\ auth' = [auth EXCEPT ![c] = "waiting"]
    /\ acks' = [acks EXCEPT ![c] = {}]
    /\ UNCHANGED <<nodeVars, fail, failover_auth_epoch, failover_auth_count, manual,
                   disk, msgs, restarts, history>>

\* auth_age > auth_retry_time: a new attempt, after a delay.
ScheduleElection(c) ==
    /\ CanFailover(c)
    /\ auth[c] = "idle"
    /\ auth' = [auth EXCEPT ![c] = "waiting"]
    /\ failover_auth_count' = [failover_auth_count EXCEPT ![c] = 0]
    /\ acks' = [acks EXCEPT ![c] = {}]
    /\ UNCHANGED <<nodeVars, fail, failover_auth_epoch, manual, disk, msgs, restarts,
                   history>>

\* The masters c can reach.  The request goes to every node; to one that c
\* does not know as a master it only brings the epoch, as a heartbeat does.
MastersOf(c) == {n \in Node : <<c, n>> \in Linked /\ slots[c][ShardOf[n]] = n}

\* The delay is over: raise the epoch, ask for the votes.
RequestVotes(c) ==
    /\ CanFailover(c)
    /\ auth[c] = "waiting"
    /\ currentEpoch[c] < MaxEpoch
    /\ currentEpoch' = [currentEpoch EXCEPT ![c] = @ + 1]
    /\ failover_auth_epoch' = [failover_auth_epoch EXCEPT ![c] = currentEpoch[c] + 1]
    /\ auth' = [auth EXCEPT ![c] = "asked"]
    /\ msgs' = msgs \cup
         {[type |-> "REQUEST", from |-> c, to |-> n,
           epoch |-> currentEpoch[c] + 1, cfg |-> configEpoch[c][slaveof[c]],
           force |-> manual[c]] : n \in MastersOf(c)}
    /\ asked' = asked \cup {<<c, currentEpoch[c] + 1>>}
    /\ UNCHANGED <<lastVoteEpoch, configEpoch, slots, slaveof, fail, votedRecently,
                   failover_auth_count, manual, acks, restarts, votes, forgotten,
                   wins>>
    /\ Persist(c)

\* The quorum is reached: take the master's slots over and save at once.  The
\* failover_auth_* fields stay as they are.
Promote(c) ==
    /\ CanFailover(c)
    /\ auth[c] = "asked"
    /\ failover_auth_count[c] >= NeededQuorum(c)
    /\ slaveof' = [slaveof EXCEPT ![c] = None]
    /\ slots' = [slots EXCEPT ![c][ShardOf[c]] = c]
    /\ configEpoch' = [configEpoch EXCEPT ![c][c] = failover_auth_epoch[c]]
    /\ manual' = [manual EXCEPT ![c] = FALSE]
    /\ wins' = wins \cup
         {[node |-> c, epoch |-> failover_auth_epoch[c], quorum |-> NeededQuorum(c),
           acks |-> acks[c]]}
    /\ UNCHANGED <<currentEpoch, lastVoteEpoch, fail, votedRecently, auth,
                   failover_auth_epoch, failover_auth_count, acks, msgs, restarts,
                   votes, forgotten, asked>>
    /\ Persist(c)

\* auth_age > auth_timeout, then auth_retry_time: nothing but the clock moves.
ElectionTimeout(c) ==
    /\ auth[c] # "idle"
    /\ auth' = [auth EXCEPT ![c] = "idle"]
    /\ UNCHANGED <<nodeVars, fail, failover_auth_epoch, failover_auth_count, manual, acks,
                   disk, msgs, restarts, history>>

\* CLUSTER FAILOVER FORCE on a slave.
ManualFailover(c) ==
    /\ ~IsMaster(c)
    /\ c \in Forcible /\ ~manual[c]
    /\ manual' = [manual EXCEPT ![c] = TRUE]
    /\ UNCHANGED <<nodeVars, fail, auth, failover_auth_epoch, failover_auth_count, acks,
                   disk, msgs, restarts, history>>

\* manualFailoverCheckTimeout.
ManualTimeout(c) ==
    /\ manual[c]
    /\ manual' = [manual EXCEPT ![c] = FALSE]
    /\ UNCHANGED <<nodeVars, fail, auth, failover_auth_epoch, failover_auth_count, acks,
                   disk, msgs, restarts, history>>

------------------------------------------------------------------------------
(* A master's vote: clusterProcessPacket of a FAILOVER_AUTH_REQUEST, then
   clusterSendFailoverAuthIfNeeded. *)

\* Mutant of Votable: lastVoteEpoch is not looked at.
VotableTwice(v, m) ==
    LET owner == slots[v][ShardOf[m.from]] IN
    /\ IsVoter(v)
    /\ m.epoch >= currentEpoch[v]
    /\ owner \notin {None, m.from}
    /\ owner \in fail \ {v} \/ m.force
    /\ owner \notin votedRecently[v]
    /\ HeardConfigEpoch(v, m)[owner] <= m.cfg

\* The requester's role and master are read off the voter's slot table.
Votable(v, m) ==
    LET owner == slots[v][ShardOf[m.from]] IN
    /\ IsVoter(v)
    /\ m.epoch >= currentEpoch[v]
    /\ lastVoteEpoch[v] # m.epoch
    /\ owner \notin {None, m.from}
    /\ owner \in fail \ {v} \/ m.force
    /\ owner \notin votedRecently[v]
    /\ HeardConfigEpoch(v, m)[owner] <= m.cfg

HandleRequest(m) ==
    /\ m \in msgs /\ m.type = "REQUEST"
    /\ currentEpoch' = [currentEpoch EXCEPT ![m.to] = HeardEpoch(m.to, m)]
    /\ configEpoch' = [configEpoch EXCEPT ![m.to] = HeardConfigEpoch(m.to, m)]
    /\ UNCHANGED <<slots, slaveof, fail, authVars, restarts, forgotten, asked, wins>>

\* The vote is granted: the acknowledgement is queued, lastVoteEpoch is set.
GrantVote(m) ==
    LET v == m.to IN
    /\ HandleRequest(m)
    /\ Votable(v, m)
    /\ lastVoteEpoch' = [lastVoteEpoch EXCEPT ![v] = m.epoch]
    /\ votedRecently' = [votedRecently EXCEPT ![v] = @ \cup {slots[v][ShardOf[m.from]]}]
    /\ msgs' = (msgs \ {m}) \cup
         Sent([type |-> "ACK", from |-> v, to |-> m.from, epoch |-> m.epoch,
               cfg |-> configEpoch[v][v]])
    /\ votes' = votes \cup {[voter |-> v, for |-> m.from, epoch |-> m.epoch]}
    /\ PersistIfDirty(v)

DenyVote(m) ==
    /\ HandleRequest(m)
    /\ ~Votable(m.to, m)
    /\ msgs' = msgs \ {m}
    /\ UNCHANGED <<lastVoteEpoch, votedRecently, votes>>
    /\ PersistIfDirty(m.to)

\* node->slaveof->voted_time gets older than two timeouts.
VoteDelayOver(v, r) ==
    /\ r \in votedRecently[v]
    /\ votedRecently' = [votedRecently EXCEPT ![v] = @ \ {r}]
    /\ UNCHANGED <<currentEpoch, lastVoteEpoch, configEpoch, slots, slaveof, fail,
                   authVars, disk, msgs, restarts, history>>

\* clusterProcessPacket of a FAILOVER_AUTH_ACK: counted when the sender serves
\* slots and its epoch is not older than the last election; nothing else is
\* compared, so it is counted before the next request is sent, too.
HandleAck(m) ==
    LET c == m.to
        counts == /\ slots[c][ShardOf[m.from]] = m.from
                  /\ m.epoch >= failover_auth_epoch[c]
    IN
    /\ m \in msgs /\ m.type = "ACK"
    /\ currentEpoch' = [currentEpoch EXCEPT ![c] = HeardEpoch(c, m)]
    /\ configEpoch' = [configEpoch EXCEPT ![c] = HeardConfigEpoch(c, m)]
    /\ failover_auth_count' =
         [failover_auth_count EXCEPT ![c] = IF counts THEN @ + 1 ELSE @]
    /\ acks' = [acks EXCEPT ![c] = IF counts THEN @ \cup {m} ELSE @]
    /\ msgs' = msgs \ {m}
    /\ UNCHANGED <<lastVoteEpoch, slots, slaveof, fail, votedRecently, auth,
                   failover_auth_epoch, manual, restarts, history>>
    /\ PersistIfDirty(c)

------------------------------------------------------------------------------
(* Propagation: PING and PONG packets, UPDATE messages. *)

\* The sender's role: a sender that turned slave loses its slots in n's table.
HeardSlots(r, n) ==
    LET s == ShardOf[r] IN
    CASE ~IsMaster(r) /\ slots[n][s] = r -> None
      [] /\ IsMaster(r) /\ Claims(r)
         /\ Rebinds(n, s, r, Header(r).cfg, HeardConfigEpoch(n, Header(r))) -> r
      [] OTHER -> slots[n][s]

\* clusterHandleConfigEpochCollision: two masters with the same configEpoch, and
\* the other one has the greater name.
Collides(r, n) ==
    /\ IsMaster(r)
    /\ slaveof'[n] = None
    /\ configEpoch[r][r] = configEpoch[n][n]
    /\ HeardConfigEpoch(n, Header(r))[r] = configEpoch[n][n]
    /\ NameRank[r] > NameRank[n]

\* Mutant of RaiseEpochs: the raised currentEpoch does not become the configEpoch.
RaiseCurrentOnly(r, n) ==
    LET known == HeardConfigEpoch(n, Header(r))
        epoch == HeardEpoch(n, Header(r))
    IN  /\ Collides(r, n) => epoch < MaxEpoch
        /\ currentEpoch' = [currentEpoch EXCEPT ![n] = IF Collides(r, n) THEN epoch + 1
                                                                      ELSE epoch]
        /\ configEpoch' = [configEpoch EXCEPT ![n] = known]

\* The epochs of n after the header of r: a collision takes the next one.
RaiseEpochs(r, n) ==
    LET known == HeardConfigEpoch(n, Header(r))
        epoch == HeardEpoch(n, Header(r))
    IN  \/ /\ ~Collides(r, n)
           /\ currentEpoch' = [currentEpoch EXCEPT ![n] = epoch]
           /\ configEpoch' = [configEpoch EXCEPT ![n] = known]
        \/ /\ Collides(r, n)
           /\ epoch < MaxEpoch
           /\ currentEpoch' = [currentEpoch EXCEPT ![n] = epoch + 1]
           /\ configEpoch' = [configEpoch EXCEPT ![n] = [known EXCEPT ![n] = epoch + 1]]

\* n reads a PING or a PONG of r.  A slave that answers is no longer failing
\* (clearNodeFailureIfNeeded).
Heartbeat(r, n) ==
    LET s     == ShardOf[r]
        hdr   == Header(r)
        known == HeardConfigEpoch(n, hdr)
        taken == HeardSlots(r, n) = r /\ slots[n][s] # r
        moves == taken /\ Switches(n, s)
        stale == /\ Claims(r)
                 /\ slots[n][s] \notin {r, None, Announced(r)}
                 /\ known[slots[n][s]] > hdr.cfg
    IN
    /\ <<r, n>> \in Linked /\ r # n
    /\ slots' = [slots EXCEPT ![n][s] = HeardSlots(r, n)]
    /\ slaveof' = [slaveof EXCEPT ![n] = IF moves THEN r ELSE @]
    /\ manual' = [manual EXCEPT ![n] = IF moves THEN FALSE ELSE @]
    /\ RaiseEpochs(r, n)
    /\ msgs' = IF stale
               THEN msgs \cup Sent([type |-> "UPDATE", from |-> n, to |-> r,
                                    epoch |-> HeardEpoch(n, hdr),
                                    cfg |-> known[Announced(n)],
                                    owner |-> slots[n][s],
                                    ownerEpoch |-> known[slots[n][s]]])
               ELSE msgs
    /\ fail' = IF IsMaster(r) THEN fail ELSE fail \ {r}
    /\ UNCHANGED <<lastVoteEpoch, votedRecently, auth, failover_auth_epoch,
                   failover_auth_count, acks, restarts, history>>
    /\ PersistIfDirty(n)

\* clusterProcessPacket of an UPDATE: ignored unless it raises the owner's epoch;
\* the owner is a master from then on, even when n itself is meant.
HandleUpdate(m) ==
    LET n     == m.to
        s     == ShardOf[m.owner]
        heard == HeardConfigEpoch(n, m)
        news  == heard[m.owner] < m.ownerEpoch
        known == [heard EXCEPT ![m.owner] = Larger(@, m.ownerEpoch)]
        taken == news /\ m.owner # n /\ Rebinds(n, s, m.owner, m.ownerEpoch, known)
        moves == taken /\ Switches(n, s)
    IN
    /\ m \in msgs /\ m.type = "UPDATE"
    /\ currentEpoch' = [currentEpoch EXCEPT ![n] = HeardEpoch(n, m)]
    /\ configEpoch' = [configEpoch EXCEPT ![n] = known]
    /\ slots' = [slots EXCEPT ![n][s] = IF taken THEN m.owner ELSE @]
    /\ slaveof' = [slaveof EXCEPT ![n] = CASE moves -> m.owner
                                             [] news /\ m.owner = n -> None
                                             [] OTHER -> @]
    /\ manual' = [manual EXCEPT ![n] = IF moves THEN FALSE ELSE @]
    /\ msgs' = msgs \ {m}
    /\ UNCHANGED <<lastVoteEpoch, fail, votedRecently, auth, failover_auth_epoch,
                   failover_auth_count, acks, restarts, history>>
    /\ PersistIfDirty(n)

------------------------------------------------------------------------------
(* Failure detection and restarts. *)

\* A majority agrees that r fails: markNodeAsFailingIfNeeded, and the FAIL
\* message it broadcasts.  Only the flag of a node that serves slots and has
\* slaves changes what an election may do.
FlagFail(r) ==
    /\ r \in Fallible \ fail
    /\ IsVoter(r)
    /\ \E c \in Node : slaveof[c] = r
    /\ fail' = fail \cup {r}
    /\ UNCHANGED <<nodeVars, authVars, disk, msgs, restarts, history>>

\* clearNodeFailureIfNeeded: r serves slots, answers again, and nobody took over
\* for some time.
ClearFail(r) ==
    /\ r \in fail
    /\ fail' = fail \ {r}
    /\ UNCHANGED <<nodeVars, authVars, disk, msgs, restarts, history>>

\* A save for a reason of its own: CLUSTER SAVECONFIG, a flag that changed, a
\* node that joined.  It matters only while a restart may follow.
SaveConfig(n) ==
    /\ n \in Restartable /\ restarts < MaxRestarts
    /\ UNCHANGED <<nodeVars, authVars, fail, msgs, restarts, history>>
    /\ Persist(n)

\* The process dies and starts again: clusterInit and clusterLoadConfig.  Its
\* links break, so what was on its way to it is lost.
Restart(n) ==
    /\ n \in Restartable /\ restarts < MaxRestarts
    /\ restarts' = restarts + 1
    /\ LET d == disk[n]
           reached == {d.configEpoch[r] : r \in Node} \cup {d.currentEpoch}
       IN \E e \in reached : /\ \A x \in reached : x <= e
                             /\ currentEpoch' = [currentEpoch EXCEPT ![n] = e]
    /\ lastVoteEpoch' = [lastVoteEpoch EXCEPT ![n] = disk[n].lastVoteEpoch]
    /\ configEpoch' = [configEpoch EXCEPT ![n] = disk[n].configEpoch]
    /\ slots' = [slots EXCEPT ![n] = disk[n].slots]
    /\ slaveof' = [slaveof EXCEPT ![n] = disk[n].slaveof]
    /\ votedRecently' = [votedRecently EXCEPT ![n] = {}]
    /\ auth' = [auth EXCEPT ![n] = "idle"]
    /\ failover_auth_epoch' = [failover_auth_epoch EXCEPT ![n] = 0]
    /\ failover_auth_count' = [failover_auth_count EXCEPT ![n] = 0]
    /\ manual' = [manual EXCEPT ![n] = FALSE]
    /\ acks' = [acks EXCEPT ![n] = {}]
    /\ msgs' = {m \in msgs : m.to # n}
    /\ forgotten' = forgotten \cup
         {w \in votes : w.voter = n /\ w.epoch > disk[n].lastVoteEpoch}
    /\ UNCHANGED <<fail, disk, votes, asked, wins>>

------------------------------------------------------------------------------

\* A cluster at rest: every node knows the masters, their slots and epochs.
FirstConfig(n) ==
    [r \in Node |-> IF r # n \/ r = FirstMaster[ShardOf[r]]
                    THEN FirstEpoch[ShardOf[r]] ELSE 0]
FirstSlaveof(n) ==
    IF n = FirstMaster[ShardOf[n]] THEN None ELSE FirstMaster[ShardOf[n]]

InitAt(highest) ==
    /\ currentEpoch = [n \in Node |-> highest]
    /\ lastVoteEpoch = [n \in Node |-> 0]
    /\ configEpoch = [n \in Node |-> FirstConfig(n)]
    /\ slots = [n \in Node |-> FirstMaster]
    /\ slaveof = [n \in Node |-> FirstSlaveof(n)]
    /\ fail = {}
    /\ votedRecently = [n \in Node |-> {}]
    /\ auth = [n \in Node |-> "idle"]
    /\ failover_auth_epoch = [n \in Node |-> 0]
    /\ failover_auth_count = [n \in Node |-> 0]
    /\ manual = [n \in Node |-> FALSE]
    /\ disk = [n \in Node |-> [currentEpoch |-> highest, lastVoteEpoch |-> 0,
                               configEpoch |-> FirstConfig(n), slots |-> FirstMaster,
                               slaveof |-> FirstSlaveof(n)]]
    /\ msgs = {}
    /\ restarts = 0
    /\ votes = {}
    /\ forgotten = {}
    /\ acks = [n \in Node |-> {}]
    /\ asked = {}
    /\ wins = {}

Init == \E highest \in {FirstEpoch[s] : s \in Shard} :
            /\ \A s \in Shard : FirstEpoch[s] <= highest
            /\ InitAt(highest)

Next ==
    \/ \E c \in Node : \/ ScheduleElection(c)
                       \/ RequestVotes(c)
                       \/ Promote(c)
                       \/ ElectionTimeout(c)
                       \/ ManualFailover(c)
                       \/ ManualTimeout(c)
                       \/ FlagFail(c)
                       \/ ClearFail(c)
                       \/ SaveConfig(c)
                       \/ Restart(c)
    \/ \E m \in msgs : \/ GrantVote(m)
                       \/ DenyVote(m)
                       \/ HandleAck(m)
                       \/ HandleUpdate(m)
    \/ \E n, r \in Node : \/ VoteDelayOver(n, r)
                          \/ Heartbeat(r, n)

Spec == Init /\ [][Next]_vars

\* Heartbeats keep flowing over the links and what arrives is read.
Fairness ==
    /\ \A l \in Linked : l[1] # l[2] => WF_vars(Heartbeat(l[1], l[2]))
    /\ \A n \in Node : WF_vars(\E m \in msgs : m.to = n /\ HandleUpdate(m))

FairSpec == Spec /\ Fairness

------------------------------------------------------------------------------
(* Properties. *)

Request == [type : {"REQUEST"}, from : Node, to : Node, epoch : Nat, cfg : Nat,
            force : BOOLEAN]
Ack     == [type : {"ACK"}, from : Node, to : Node, epoch : Nat, cfg : Nat]
Update  == [type : {"UPDATE"}, from : Node, to : Node, epoch : Nat, cfg : Nat,
            owner : Node, ownerEpoch : Nat]
Vote    == [voter : Node, for : Node, epoch : Nat]
Win     == [node : Node, epoch : Nat, quorum : Nat, acks : SUBSET Ack]
Config  == [currentEpoch : Nat, lastVoteEpoch : Nat, configEpoch : [Node -> Nat],
            slots : [Shard -> Node \cup {None}], slaveof : Node \cup {None}]

\* The types of the state (clusterState, clusterNode, nodes.conf, packets).
TypeOK ==
    /\ currentEpoch \in [Node -> Nat]
    /\ lastVoteEpoch \in [Node -> Nat]
    /\ configEpoch \in [Node -> [Node -> Nat]]
    /\ slots \in [Node -> [Shard -> Node \cup {None}]]
    /\ slaveof \in [Node -> Node \cup {None}]
    /\ fail \in SUBSET Node
    /\ votedRecently \in [Node -> SUBSET Node]
    /\ auth \in [Node -> {"idle", "waiting", "asked"}]
    /\ failover_auth_epoch \in [Node -> Nat]
    /\ failover_auth_count \in [Node -> Nat]
    /\ manual \in [Node -> BOOLEAN]
    /\ disk \in [Node -> Config]
    /\ msgs \in SUBSET (Request \cup Ack \cup Update)
    /\ restarts \in Nat
    /\ votes \in SUBSET Vote
    /\ forgotten \in SUBSET Vote
    /\ acks \in [Node -> SUBSET Ack]
    /\ asked \in SUBSET (Node \X Nat)
    /\ wins \in SUBSET Win

\* A win that counts an acknowledgement of an earlier election.
CountsStaleAck(w) == \E m \in w.acks : m.epoch # w.epoch

\* A win of a node that did not count some shard as served: two such quorums
\* need not meet.
CountsFewMasters(w) == 2 * w.quorum <= Cardinality(Shard)

\* Two nodes voted in epoch e as the master of the same shard.
SplitShard(e) ==
    \E u, w \in votes : /\ u.epoch = e /\ w.epoch = e
                        /\ u.voter # w.voter
                        /\ ShardOf[u.voter] = ShardOf[w.voter]

\* Two slaves win the same epoch only if a restart wiped a vote, or one of them
\* counted an acknowledgement of an earlier election or too few masters, or two
\* nodes voted as the master of one shard.  (What needed_quorum gives in
\* clusterHandleSlaveFailover.)
TwoWinnersNeedAGap ==
    \A v, w \in wins :
        v.epoch = w.epoch /\ v.node # w.node =>
            \/ forgotten # {}
            \/ CountsStaleAck(v) \/ CountsStaleAck(w)
            \/ CountsFewMasters(v) \/ CountsFewMasters(w)
            \/ SplitShard(v.epoch)

\* A master that votes twice in one epoch lost a vote in a restart
\* (lastVoteEpoch in clusterSendFailoverAuthIfNeeded).
DoubleVoteWasForgotten ==
    \A u, w \in votes :
        u.voter = w.voter /\ u.epoch = w.epoch /\ u.for # w.for =>
            u \in forgotten \/ w \in forgotten

\* A candidate never asks twice with one epoch, not even after a restart: the
\* raised currentEpoch is on disk before the request leaves
\* (CLUSTER_TODO_SAVE_CONFIG in clusterHandleSlaveFailover).
NoEpochReuse ==
    [][\A c \in Node :
         auth[c] = "waiting" /\ auth'[c] = "asked" =>
             <<c, failover_auth_epoch'[c]>> \notin asked]_vars

\* What a node told the cluster outlives a crash: it comes back with the role, the
\* slots and the configEpochs it announced, though maybe not with the currentEpoch
\* or the last vote (clusterSaveConfigOrDie before the PONG of a promotion).
RestartKeepsConfig ==
    [][restarts' # restarts => UNCHANGED <<configEpoch, slots, slaveof>>]_vars

\* currentEpoch is never below an epoch the node knows, nor the epoch of a packet
\* below those it brings, whatever a restart forgot (currentEpoch in
\* clusterProcessPacket, clusterLoadConfig and clusterHandleConfigEpochCollision).
CurrentEpochIsHighest ==
    /\ \A n, r \in Node : configEpoch[n][r] <= currentEpoch[n]
    /\ \A n \in Node : failover_auth_epoch[n] <= currentEpoch[n]
    /\ \A m \in msgs : /\ m.cfg <= m.epoch
                       /\ m.type = "UPDATE" => m.ownerEpoch <= m.epoch

\* An election is held in an epoch above every configEpoch the candidate knows,
\* so that a winner's claim beats them (clusterHandleSlaveFailover).
ElectionTopsKnownConfigs ==
    [][\A c \in Node :
         auth[c] = "waiting" /\ auth'[c] = "asked" =>
             \A r \in Node : configEpoch[c][r] < failover_auth_epoch'[c]]_vars

\* Once no election runs any more, nodes that exchange heartbeats agree for good
\* on who serves the slots (UPDATE messages and clusterUpdateSlotsConfigWith).
Connected(n, r) == <<n, r>> \in Linked /\ <<r, n>> \in Linked
OwnersConverge ==
    <>[](\A c \in Node : auth[c] = "idle") =>
        <>[](\A n, r \in Node : Connected(n, r) => slots[n] = slots[r])

\* Masters that start with one and the same configEpoch end up with different
\* ones (clusterHandleConfigEpochCollision; tests/cluster/tests/00-base.tcl:62
\* "After the join, every node gets a different config epoch").
EpochsBecomeDistinct ==
    <>[](\A n, r \in Node :
           n # r /\ IsMaster(n) /\ IsMaster(r) => configEpoch[n][n] # configEpoch[r][r])

------------------------------------------------------------------------------
(* The inductive invariant behind TwoWinnersNeedAGap. *)

\* The vote an acknowledgement reports, and every acknowledgement there is.
VoteOf(m) == [voter |-> m.from, for |-> m.to, epoch |-> m.epoch]
AckPool == {m \in msgs : m.type = "ACK"}
           \cup (UNION {acks[c] : c \in Node}) \cup (UNION {w.acks : w \in wins})

EpochOrder ==
    \A n \in Node : /\ lastVoteEpoch[n] <= currentEpoch[n]
                    /\ disk[n].lastVoteEpoch <= disk[n].currentEpoch
VotesRemembered ==
    \A w \in votes \ forgotten : w.epoch <= lastVoteEpoch[w.voter]
VotedOnce ==
    \A u, w \in votes \ forgotten :
        u.voter = w.voter /\ u.epoch = w.epoch => u = w
AcksAreVotes ==
    /\ \A m \in AckPool : VoteOf(m) \in votes
    /\ \A c \in Node : \A m \in acks[c] : m.to = c
    /\ \A w \in wins : \A m \in w.acks : m.to = w.node
AcksDistinct ==
    \A m, k \in AckPool : m.from = k.from /\ m.epoch = k.epoch => m = k
AcksCounted ==
    /\ \A c \in Node : /\ IsFiniteSet(acks[c])
                       /\ failover_auth_count[c] = Cardinality(acks[c])
                       /\ acks[c] \cap msgs = {}
    /\ \A w \in wins : /\ IsFiniteSet(w.acks)
                       /\ Cardinality(w.acks) >= w.quorum

\* Votes are remembered and cast once, every acknowledgement reports one, and
\* while no vote was forgotten the count a slave compares with the quorum is the
\* number of distinct acknowledgements (clusterSendFailoverAuthIfNeeded and the
\* FAILOVER_AUTH_ACK branch of clusterProcessPacket).
VotingInvariant ==
    /\ EpochOrder
    /\ VotesRemembered
    /\ VotedOnce
    /\ AcksAreVotes
    /\ forgotten = {} => AcksDistinct /\ AcksCounted

------------------------------------------------------------------------------
(* What the comments say, and the code does not do. *)

\* cluster.c:1971 "It is not possible that different slaves get the same config
\* epoch during a failover election": what the comment says.
OneWinnerPerEpoch ==
    \A v, w \in wins : v.epoch = w.epoch => v.node = w.node

\* cluster.c:1972 "because the slaves need to get voted by a majority": a winner
\* has the votes of a majority in the epoch it won.
WinBackedByMajority ==
    \A w \in wins :
        2 * Cardinality({m.from : m \in {a \in w.acks : a.epoch = w.epoch}})
            > Cardinality(Shard)

\* cluster.c:3835: at a promotion "the configEpoch of this node is now the
\* greatest of the cluster": at least greater than that of the master replaced.
PromotionTopsMaster ==
    [][\A c \in Node :
         slaveof[c] # None /\ slaveof'[c] = None /\ restarts' = restarts =>
             configEpoch'[c][c] > configEpoch[c][slaveof[c]]]_vars

\* cluster.c:1936 "We are a slave and our master is left without slots. We need
\* to replicate to the new slots owner": a slave ends up with the owner.
SlavesFollowOwner ==
    <>[](\A n \in Node :
           (\E r \in Node : r # n /\ Connected(n, r)) /\ ~IsMaster(n) =>
               slots[n][ShardOf[n]] = slaveof[n])
==============================================================================
