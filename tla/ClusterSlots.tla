---------------------------- MODULE ClusterSlots ----------------------------
(***************************************************************************)
(* A hash slot moves from one master to another while clients use its      *)
(* keys: redis-trib marks the slot importing and migrating (CLUSTER        *)
(* SETSLOT), sends the keys one by one (MIGRATE, which blocks the source   *)
(* and runs RESTORE-ASKING on the target) and assigns the slot on every    *)
(* node; clients follow -MOVED and -ASK; heartbeats and UPDATE messages    *)
(* carry each node's claim with its configEpoch.                           *)
(*                                                                         *)
(* The module follows one slot.  Every node is a master that serves other  *)
(* slots too, which stand still: it never becomes a slave for want of      *)
(* slots (clusterUpdateSlotsConfigWith) and the cluster state stays ok.    *)
(***************************************************************************)
EXTENDS Naturals, Sequences, FiniteSets

CONSTANTS
    Node,        \* the masters
    Key,         \* the keys of the slot
    Value,       \* what a key may hold
    Client,
    None,        \* a null pointer, an absent key, no request
    FirstOwner,  \* the node that serves the slot at first
    FirstEpoch,  \* the configEpoch of each node at first, [Node -> Nat]
    NameRank,    \* the order of the node names (memcmp), [Node -> Nat]
    Reshards,    \* the moves redis-trib is asked for, in order: [from, to]
    MayDie,      \* whether redis-trib may be killed
    Slow,        \* bound: the pairs <<r, n>> such that one packet of r to n may be late
    Ops,         \* bound: the commands clients send, of get, set and del
    MaxErrors    \* bound: how many times a MIGRATE connection fails

\* What a client asks for, and where it has sent that.
Command == {cmd \in [op : Ops, key : Key, value : Value \cup {None}] :
                cmd.op = "set" <=> cmd.value # None}
Request == [cmd : Command, node : Node, asking : BOOLEAN]

ASSUME SlotsAssumption ==
    /\ IsFiniteSet(Node)
    /\ None \notin Node \cup Value \cup Command \cup Request
    /\ FirstOwner \in Node
    /\ FirstEpoch \in [Node -> Nat]
    /\ NameRank \in [Node -> Nat]
    /\ Reshards \in Seq([from : Node, to : Node])
    /\ Reshards # <<>>
    /\ \A i \in 1..Len(Reshards) : Reshards[i].from # Reshards[i].to
    /\ MayDie \in BOOLEAN
    /\ Slow \subseteq Node \X Node
    /\ Ops \subseteq {"get", "set", "del"}
    /\ MaxErrors \in Nat

VARIABLES
    slots,        \* server.cluster->slots[slot]: the owner in each node's table
    migrating,    \* server.cluster->migrating_slots_to[slot]
    importing,    \* server.cluster->importing_slots_from[slot]
    currentEpoch, \* server.cluster->currentEpoch
    configEpoch,  \* configEpoch[n][r]: node->configEpoch of r in n's table
    db,           \* db[n][k]: the value of k in n's database
    packets,      \* heartbeats held up and UPDATE messages, in flight
    migrate,      \* the MIGRATE that blocks the source
    late,         \* RESTORE-ASKING commands whose sender gave up waiting
    errors,       \* connection failures so far
    step,         \* where redis-trib is
    reshard,      \* the move it is making, an index of Reshards
    batch,        \* the keys it still has to MIGRATE
    left,         \* the nodes it still has to tell the new owner
    request,      \* the command each client waits for
    reply,        \* what each client's GET returned, until it sends the next command
    last          \* history variable: the last value written to each key

tables   == <<slots, migrating, importing>>
epochs   == <<currentEpoch, configEpoch>>
transfer == <<migrate, late, errors>>
tool     == <<step, reshard, batch, left>>
clients  == <<request, reply, last>>
vars == <<tables, epochs, db, packets, transfer, tool, clients>>

Source == Reshards[reshard].from
Target == Reshards[reshard].to

Held(n) == {k \in Key : db[n][k] # None}

\* The one thread of the source waits in MIGRATE and does nothing else.
Blocked(n) == migrate.phase # "idle" /\ n = Source

Larger(a, b) == IF a >= b THEN a ELSE b

------------------------------------------------------------------------------
(* Clients. *)

\* Mutant of Route: a key that is missing at the source is served there.
RouteWithoutAsk(n, k, asking) ==
    IF importing[n] # None /\ asking THEN [node |-> n, ask |-> FALSE]
    ELSE [node |-> slots[n], ask |-> FALSE]

\* Mutant of Route: the importing node does not look at ASKING.
RouteIgnoringAsking(n, k, asking) ==
    IF slots[n] = n /\ migrating[n] # None /\ db[n][k] = None
    THEN [node |-> migrating[n], ask |-> TRUE]
    ELSE [node |-> slots[n], ask |-> FALSE]

\* getNodeByQuery for a command on one key: the node to go to, and how.
Route(n, k, asking) ==
    LET mine == slots[n] = n /\ migrating[n] # None IN
    CASE mine /\ db[n][k] = None                   -> [node |-> migrating[n], ask |-> TRUE]
      [] ~mine /\ importing[n] # None /\ asking    -> [node |-> n, ask |-> FALSE]
      [] OTHER                                     -> [node |-> slots[n], ask |-> FALSE]

\* A client sends a command to a node it picks.
Send(c) ==
    /\ request[c] = None
    /\ \E cmd \in Command, n \in Node :
          request' = [request EXCEPT ![c] = [cmd |-> cmd, node |-> n, asking |-> FALSE]]
    /\ reply' = [reply EXCEPT ![c] = None]
    /\ UNCHANGED <<tables, epochs, db, packets, transfer, tool, last>>

RouteOf(c) == Route(request[c].node, request[c].cmd.key, request[c].asking)

\* processCommand answers -MOVED or -ASK; the client goes there, after an ASK with
\* the ASKING command first.
Redirect(c) ==
    /\ request[c] # None
    /\ ~Blocked(request[c].node)
    /\ RouteOf(c).node # request[c].node
    /\ request' = [request EXCEPT ![c].node = RouteOf(c).node,
                                  ![c].asking = RouteOf(c).ask]
    /\ UNCHANGED <<tables, epochs, db, packets, transfer, tool, reply, last>>

\* processCommand runs the command.
Execute(c) ==
    /\ request[c] # None
    /\ ~Blocked(request[c].node)
    /\ RouteOf(c).node = request[c].node
    /\ LET n == request[c].node
           cmd == request[c].cmd
       IN  \/ /\ cmd.op = "get"
              /\ reply' = [reply EXCEPT ![c] = db[n][cmd.key]]
              /\ UNCHANGED <<db, last>>
           \/ /\ cmd.op # "get"
              /\ db' = [db EXCEPT ![n][cmd.key] = cmd.value]
              /\ last' = [last EXCEPT ![cmd.key] = cmd.value]
              /\ UNCHANGED reply
    /\ request' = [request EXCEPT ![c] = None]
    /\ UNCHANGED <<tables, epochs, packets, transfer, tool>>

------------------------------------------------------------------------------
(* redis-trib: move_slot for each of Reshards.  An error reply raises in the *)
(* Ruby client and ends the tool; it may also be killed.                     *)

\* Mutant of CheckCluster: move_slot starts with the source.
CheckThenMigrating ==
    /\ step = "check"
    /\ \A n \in Node : /\ slots[n] = Source
                       /\ migrating[n] = None /\ importing[n] = None
    /\ step' = "migrate"
    /\ UNCHANGED <<tables, epochs, db, packets, transfer, reshard, batch, left, clients>>

\* check_cluster: the nodes agree and no slot is open.
CheckCluster ==
    /\ step = "check"
    /\ \A n \in Node : /\ slots[n] = Source
                       /\ migrating[n] = None /\ importing[n] = None
    /\ step' = "import"
    /\ UNCHANGED <<tables, epochs, db, packets, transfer, reshard, batch, left, clients>>

\* CLUSTER SETSLOT IMPORTING on the target, refused by the owner.
SetImporting ==
    /\ step = "import"
    /\ IF slots[Target] = Target
       THEN step' = "failed" /\ UNCHANGED importing
       ELSE /\ importing' = [importing EXCEPT ![Target] = Source]
            /\ step' = "migrate"
    /\ UNCHANGED <<slots, migrating, epochs, db, packets, transfer, reshard, batch, left,
                   clients>>

\* CLUSTER SETSLOT MIGRATING on the source, refused unless it is the owner.
SetMigrating ==
    /\ step = "migrate"
    /\ IF slots[Source] # Source
       THEN step' = "failed" /\ UNCHANGED migrating
       ELSE /\ migrating' = [migrating EXCEPT ![Source] = Target]
            /\ step' = "move"
    /\ UNCHANGED <<slots, importing, epochs, db, packets, transfer, reshard, batch, left,
                   clients>>

\* CLUSTER GETKEYSINSLOT on the source: no keys left ends the loop.
GetKeysInSlot ==
    /\ step = "move" /\ batch = {} /\ ~Blocked(Source)
    /\ \/ /\ Held(Source) # {}
          /\ batch' = Held(Source)
          /\ UNCHANGED <<step, left>>
       \/ /\ Held(Source) = {}
          /\ step' = "assign"
          /\ left' = Node
          /\ UNCHANGED batch
    /\ UNCHANGED <<tables, epochs, db, packets, transfer, reshard, clients>>

\* MIGRATE reaches the source: a key that is gone is no error (NOKEY); otherwise
\* the source sends RESTORE-ASKING and waits.
Migrate(k) ==
    /\ step = "move" /\ k \in batch /\ ~Blocked(Source)
    /\ \/ /\ db[Source][k] = None
          /\ batch' = batch \ {k}
          /\ UNCHANGED migrate
       \/ /\ db[Source][k] # None
          /\ migrate' = [phase |-> "sent", key |-> k, retried |-> FALSE]
          /\ UNCHANGED batch
    /\ UNCHANGED <<tables, epochs, db, packets, late, errors, step, reshard, left, clients>>

\* Mutant of Accepts: RESTORE replaces a key that exists.
AcceptsReplacing(n, k) == Route(n, k, TRUE).node = n

\* The target runs RESTORE-ASKING without REPLACE: refused with -MOVED or with
\* -BUSYKEY.
Accepts(n, k) == Route(n, k, TRUE).node = n /\ db[n][k] = None

Restore ==
    /\ migrate.phase = "sent"
    /\ LET k == migrate.key IN
       \/ /\ Accepts(Target, k)
          /\ db' = [db EXCEPT ![Target][k] = db[Source][k]]
          /\ migrate' = [migrate EXCEPT !.phase = "stored"]
       \/ /\ ~Accepts(Target, k)
          /\ migrate' = [migrate EXCEPT !.phase = "refused"]
          /\ UNCHANGED db
    /\ UNCHANGED <<tables, epochs, packets, late, errors, tool, clients>>

NoMigrate == [phase |-> "idle", key |-> None, retried |-> FALSE]

\* The source reads +OK and deletes the key, or reads an error and keeps it.
MigrateReply ==
    /\ \/ /\ migrate.phase = "stored"
          /\ db' = [db EXCEPT ![Source][migrate.key] = None]
          /\ batch' = batch \ {migrate.key}
          /\ UNCHANGED step
       \/ /\ migrate.phase = "refused"
          /\ step' = "failed"
          /\ UNCHANGED <<db, batch>>
    /\ migrate' = NoMigrate
    /\ UNCHANGED <<tables, epochs, packets, late, errors, reshard, left, clients>>

\* The connection fails before the reply: the RESTORE is lost or still on its way.
\* A timeout ends the MIGRATE with -IOERR; any other error is retried once.
MigrateError ==
    /\ migrate.phase # "idle"
    /\ errors < MaxErrors
    /\ errors' = errors + 1
    /\ \/ UNCHANGED late
       \/ /\ migrate.phase = "sent"
          /\ late' = late \cup {[to |-> Target, key |-> migrate.key,
                                 value |-> db[Source][migrate.key]]}
    /\ \/ /\ migrate' = NoMigrate
          /\ step' = "failed"
       \/ /\ ~migrate.retried
          /\ migrate' = [migrate EXCEPT !.phase = "sent", !.retried = TRUE]
          /\ UNCHANGED step
    /\ UNCHANGED <<tables, epochs, db, packets, reshard, batch, left, clients>>

\* A RESTORE-ASKING whose sender has gone.
LateRestore(m) ==
    /\ m \in late /\ ~Blocked(m.to)
    /\ late' = late \ {m}
    /\ db' = IF Accepts(m.to, m.key) THEN [db EXCEPT ![m.to][m.key] = m.value] ELSE db
    /\ UNCHANGED <<tables, epochs, packets, migrate, errors, tool, clients>>

\* clusterGetMaxEpoch
IsMaxEpoch(n, e) ==
    /\ e >= currentEpoch[n]
    /\ \A r \in Node : e >= configEpoch[n][r]

\* The new epoch of an importing node that is assigned the slot, unless it
\* already has the highest epoch it knows of.
BumpEpoch(n) ==
    IF configEpoch[n][n] # 0 /\ IsMaxEpoch(n, configEpoch[n][n])
    THEN UNCHANGED epochs
    ELSE /\ currentEpoch' = [currentEpoch EXCEPT ![n] = @ + 1]
         /\ configEpoch' = [configEpoch EXCEPT ![n][n] = currentEpoch[n] + 1]

\* CLUSTER SETSLOT NODE target on node n, refused by an owner that holds keys.
Refuses(n) == slots[n] = n /\ n # Target /\ Held(n) # {}

\* Every node has been told: the next move, if there is one.
NextMove ==
    IF reshard < Len(Reshards)
    THEN step' = "check" /\ reshard' = reshard + 1
    ELSE step' = "done" /\ UNCHANGED reshard

Assign(n) ==
    /\ slots' = [slots EXCEPT ![n] = Target]
    /\ migrating' = [migrating EXCEPT ![n] = IF Held(n) = {} THEN None ELSE @]
    /\ IF n = Target /\ importing[n] # None
       THEN BumpEpoch(n) /\ importing' = [importing EXCEPT ![n] = None]
       ELSE UNCHANGED <<epochs, importing>>

SetNode(n) ==
    /\ step = "assign" /\ n \in left
    /\ left' = left \ {n}
    /\ IF Refuses(n)
       THEN step' = "failed" /\ UNCHANGED <<tables, epochs, reshard>>
       ELSE /\ Assign(n)
            /\ IF left = {n} THEN NextMove ELSE UNCHANGED <<step, reshard>>
    /\ UNCHANGED <<db, packets, transfer, batch, clients>>

\* The tool is killed; a MIGRATE it has begun goes on.
Die ==
    /\ MayDie
    /\ step \notin {"done", "failed"}
    /\ step' = "failed"
    /\ UNCHANGED <<tables, epochs, db, packets, transfer, reshard, batch, left, clients>>

------------------------------------------------------------------------------
(* Heartbeats and UPDATE messages. *)

\* What r says of itself in the header of a PING or a PONG to n.
Ping(r, n) == [type |-> "PING", from |-> r, to |-> n, epoch |-> currentEpoch[r],
               cfg |-> configEpoch[r][r], claims |-> slots[r] = r]

\* The configEpochs n knows after the header of a packet.
Heard(n, m) == [configEpoch[n] EXCEPT ![m.from] = Larger(@, m.cfg)]

\* clusterUpdateSlotsConfigWith: owner claims the slot with epoch e.  The keys of
\* a slot that n loses are deleted.
Rebinds(n, owner, e, known) ==
    /\ slots[n] # owner
    /\ importing[n] = None
    /\ known[slots[n]] < e

Rebind(n, owner) ==
    /\ slots' = [slots EXCEPT ![n] = owner]
    /\ db' = IF slots[n] = n THEN [db EXCEPT ![n] = [k \in Key |-> None]] ELSE db

\* clusterHandleConfigEpochCollision, at the node with the smaller name.
Collides(n, m, known) ==
    /\ m.cfg = known[n]
    /\ known[m.from] = known[n]
    /\ NameRank[m.from] > NameRank[n]

\* n reads a PING or a PONG; an outdated claim is answered with an UPDATE about
\* the owner n knows.  The packets in flight are then rest and that UPDATE.
ReadHeader(n, m, rest) ==
    LET known == Heard(n, m)
        epoch == Larger(currentEpoch[n], m.epoch)
        takes == m.claims /\ Rebinds(n, m.from, m.cfg, known)
        stale == m.claims /\ ~takes /\ slots[n] # m.from /\ known[slots[n]] > m.cfg
    IN
    /\ IF takes THEN Rebind(n, m.from) ELSE UNCHANGED <<slots, db>>
    /\ IF Collides(n, m, known)
       THEN /\ currentEpoch' = [currentEpoch EXCEPT ![n] = epoch + 1]
            /\ configEpoch' = [configEpoch EXCEPT ![n] = [known EXCEPT ![n] = epoch + 1]]
       ELSE /\ currentEpoch' = [currentEpoch EXCEPT ![n] = epoch]
            /\ configEpoch' = [configEpoch EXCEPT ![n] = known]
    /\ packets' = rest \cup
         IF stale THEN {[type |-> "UPDATE", to |-> m.from, owner |-> slots[n],
                         ownerEpoch |-> known[slots[n]], from |-> n,
                         epoch |-> epoch, cfg |-> known[n]]}
                  ELSE {}
    /\ UNCHANGED <<migrating, importing, transfer, tool, clients>>

\* A heartbeat of r that n reads at once, or that is held up.
Heartbeat(r, n) ==
    /\ r # n /\ ~Blocked(r) /\ ~Blocked(n)
    /\ ReadHeader(n, Ping(r, n), packets)

HoldUp(r, n) ==
    /\ r # n /\ <<r, n>> \in Slow /\ ~Blocked(r)
    /\ \A m \in packets : m.type = "PING" => <<m.from, m.to>> # <<r, n>>
    /\ packets' = packets \cup {Ping(r, n)}
    /\ UNCHANGED <<tables, epochs, db, transfer, tool, clients>>

ReadHeldUp(m) ==
    /\ m \in packets /\ m.type = "PING" /\ ~Blocked(m.to)
    /\ ReadHeader(m.to, m, packets \ {m})

\* An UPDATE is ignored unless it raises the epoch of the owner it names.
ReadUpdate(m) ==
    LET n     == m.to
        heard == Heard(n, m)
        news  == heard[m.owner] < m.ownerEpoch
        known == [heard EXCEPT ![m.owner] = Larger(@, m.ownerEpoch)]
    IN
    /\ m \in packets /\ m.type = "UPDATE" /\ ~Blocked(n)
    /\ IF news /\ m.owner # n /\ Rebinds(n, m.owner, m.ownerEpoch, known)
       THEN Rebind(n, m.owner)
       ELSE UNCHANGED <<slots, db>>
    /\ currentEpoch' = [currentEpoch EXCEPT ![n] = Larger(@, m.epoch)]
    /\ configEpoch' = [configEpoch EXCEPT ![n] = known]
    /\ packets' = packets \ {m}
    /\ UNCHANGED <<migrating, importing, transfer, tool, clients>>

------------------------------------------------------------------------------

Highest(e) == (\E n \in Node : FirstEpoch[n] = e) /\ \A n \in Node : FirstEpoch[n] <= e

\* A cluster at rest: the nodes agree on the owner and know each other's epochs.
Init ==
    /\ slots = [n \in Node |-> FirstOwner]
    /\ migrating = [n \in Node |-> None]
    /\ importing = [n \in Node |-> None]
    /\ \E e \in {FirstEpoch[n] : n \in Node} :
          Highest(e) /\ currentEpoch = [n \in Node |-> e]
    /\ configEpoch = [n \in Node |-> FirstEpoch]
    /\ last \in [Key -> Value \cup {None}]
    /\ db = [n \in Node |-> IF n = FirstOwner THEN last ELSE [k \in Key |-> None]]
    /\ packets = {}
    /\ migrate = NoMigrate
    /\ late = {}
    /\ errors = 0
    /\ step = "check"
    /\ reshard = 1
    /\ batch = {}
    /\ left = {}
    /\ request = [c \in Client |-> None]
    /\ reply = [c \in Client |-> None]

MoveSlot == \/ CheckCluster \/ SetImporting \/ SetMigrating \/ GetKeysInSlot
            \/ \E k \in Key : Migrate(k)
            \/ \E n \in Node : SetNode(n)

Next ==
    \/ \E c \in Client : Send(c) \/ Redirect(c) \/ Execute(c)
    \/ MoveSlot
    \/ Restore \/ MigrateReply \/ MigrateError
    \/ \E m \in late : LateRestore(m)
    \/ Die
    \/ \E n, r \in Node : Heartbeat(r, n) \/ HoldUp(r, n)
    \/ \E m \in packets : ReadHeldUp(m) \/ ReadUpdate(m)

Spec == Init /\ [][Next]_vars

\* redis-trib and MIGRATE go on, clients follow the redirections.
Fairness ==
    /\ WF_vars(MoveSlot) /\ WF_vars(Restore \/ MigrateReply)
    /\ \A c \in Client : WF_vars(Redirect(c) \/ Execute(c))

FairSpec == Spec /\ Fairness

------------------------------------------------------------------------------
(* Properties. *)

Node0 == Node \cup {None}
Packet == [type : {"PING"}, from : Node, to : Node, epoch : Nat, cfg : Nat,
           claims : BOOLEAN]
          \cup [type : {"UPDATE"}, from : Node, to : Node, epoch : Nat, cfg : Nat,
                owner : Node, ownerEpoch : Nat]

\* The types of the state (clusterState, clusterNode, the database, packets).
TypeOK ==
    /\ slots \in [Node -> Node]
    /\ migrating \in [Node -> Node0]
    /\ importing \in [Node -> Node0]
    /\ currentEpoch \in [Node -> Nat]
    /\ configEpoch \in [Node -> [Node -> Nat]]
    /\ db \in [Node -> [Key -> Value \cup {None}]]
    /\ packets \in SUBSET Packet
    /\ migrate \in [phase : {"idle", "sent", "stored", "refused"},
                    key : Key \cup {None}, retried : BOOLEAN]
    /\ migrate.phase # "idle" => /\ migrate.key \in Held(Source)
                                 /\ step \in {"move", "failed"}
    /\ late \in SUBSET [to : Node, key : Key, value : Value]
    /\ errors \in Nat
    /\ step \in {"check", "import", "migrate", "move", "assign", "done", "failed"}
    /\ reshard \in 1..Len(Reshards)
    /\ batch \in SUBSET Key
    /\ left \in SUBSET Node
    /\ request \in [Client -> Request \cup {None}]
    /\ reply \in [Client -> Value \cup {None}]
    /\ last \in [Key -> Value \cup {None}]

\* The command each client waits for, wherever it was sent.
Waiting == [c \in Client |-> IF request[c] = None THEN None ELSE request[c].cmd]

Store == INSTANCE KeyStore WITH val <- last, request <- Waiting

\* What the nodes together have of a key.
Copies(k) == {db[n][k] : n \in Node} \ {None}

\* Through the whole move, with clients redirected at any point and heartbeats late,
\* the nodes act as one table: a command takes effect once, a GET that is served
\* returns what the last write to its key left, and that is also all the nodes have of
\* it: no write is lost, no old copy comes back (getNodeByQuery, SETSLOT, MIGRATE).
ActsAsOneStore == Store!Spec /\ [](\A k \in Key : Copies(k) = {last[k]} \ {None})

\* An acknowledged write is not lost: some node has the last value of each key,
\* also when MIGRATE fails (migrateCommand deletes the key only after +OK).
KeysKept == \A k \in Key : last[k] # None => \E n \in Node : db[n][k] = last[k]

\* A node answers -ASK only with a node that will serve the command: one that
\* imports the slot or owns it (the order of move_slot in redis-trib.rb).
AskedNodeServes ==
    \A n \in Node : slots[n] = n /\ migrating[n] # None =>
        LET t == migrating[n] IN importing[t] # None \/ slots[t] = t

\* A client that follows the redirections is served in the end.
RequestsAreServed == \A c \in Client : request[c] # None ~> request[c] = None
==============================================================================
