------------------------- MODULE ClusterSlotsProofs -------------------------
(***************************************************************************)
(* What holds of ClusterSlots for every cluster.  TypeOK, for any list of  *)
(* moves.  For one move of the slot from its owner, whatever fails on the  *)
(* way (MoveInv is the inductive invariant): no key is lost, a node that   *)
(* was named by -ASK serves, a command finds the last write.  When no      *)
(* connection of MIGRATE fails the nodes implement KeyStore.               *)
(***************************************************************************)
EXTENDS ClusterSlots, SequenceTheorems, TLAPS

\* The parts of TypeOK that most actions leave alone together.
TablesOK == /\ slots \in [Node -> Node]
            /\ migrating \in [Node -> Node0]
            /\ importing \in [Node -> Node0]
EpochsOK == /\ currentEpoch \in [Node -> Nat]
            /\ configEpoch \in [Node -> [Node -> Nat]]
DbOK == db \in [Node -> [Key -> Value \cup {None}]]
WaitOK == migrate.phase # "idle" => /\ migrate.key \in Held(Source)
                                    /\ step \in {"move", "failed"}
TransferOK == /\ migrate \in [phase : {"idle", "sent", "stored", "refused"},
                              key : Key \cup {None}, retried : BOOLEAN]
              /\ late \in SUBSET [to : Node, key : Key, value : Value]
              /\ errors \in Nat
ToolOK == /\ step \in {"check", "import", "migrate", "move", "assign", "done", "failed"}
          /\ reshard \in 1..Len(Reshards)
          /\ batch \in SUBSET Key
          /\ left \in SUBSET Node
ClientsOK == /\ request \in [Client -> Request \cup {None}]
             /\ reply \in [Client -> Value \cup {None}]
             /\ last \in [Key -> Value \cup {None}]
PacketsOK == packets \in SUBSET Packet

LEMMA TypeParts ==
    TypeOK <=> /\ TablesOK /\ EpochsOK /\ DbOK /\ WaitOK
               /\ TransferOK /\ ToolOK /\ ClientsOK /\ PacketsOK
BY DEF TypeOK, TablesOK, EpochsOK, DbOK, WaitOK, TransferOK, ToolOK, ClientsOK, PacketsOK

LEMMA TypePartsPrime ==
    TypeOK' <=> /\ TablesOK' /\ EpochsOK' /\ DbOK' /\ WaitOK'
                /\ TransferOK' /\ ToolOK' /\ ClientsOK' /\ PacketsOK'
BY DEF TypeOK, TablesOK, EpochsOK, DbOK, WaitOK, TransferOK, ToolOK, ClientsOK, PacketsOK

\* What each part depends on.
LEMMA Untouched ==
    /\ TablesOK /\ UNCHANGED tables => TablesOK'
    /\ EpochsOK /\ UNCHANGED epochs => EpochsOK'
    /\ DbOK /\ UNCHANGED db => DbOK'
    /\ WaitOK /\ UNCHANGED <<migrate, db, reshard, step>> => WaitOK'
    /\ TransferOK /\ UNCHANGED transfer => TransferOK'
    /\ ToolOK /\ UNCHANGED tool => ToolOK'
    /\ ClientsOK /\ UNCHANGED clients => ClientsOK'
    /\ PacketsOK /\ UNCHANGED packets => PacketsOK'
BY DEF TablesOK, tables, EpochsOK, epochs, DbOK, WaitOK, Held, Source, TransferOK, transfer,
       ToolOK, tool, ClientsOK, clients, PacketsOK

\* The two ends of a move are two nodes.
LEMMA MoveEnds ==
    ASSUME ToolOK
    PROVE  Source \in Node /\ Target \in Node /\ Source # Target
<1>1. reshard \in 1..Len(Reshards)
  BY DEF ToolOK
<1>2. Reshards[reshard] \in [from : Node, to : Node]
  <2>1. Reshards \in Seq([from : Node, to : Node])
    BY SlotsAssumption
  <2> QED BY <1>1, <2>1, ElementOfSeq
<1>3. Reshards[reshard].from # Reshards[reshard].to
  BY <1>1, SlotsAssumption
<1> QED BY <1>2, <1>3 DEF Source, Target

\* Every command is sent somewhere.
LEMMA RouteType ==
    ASSUME TablesOK, NEW n \in Node, NEW k, NEW asking
    PROVE  Route(n, k, asking) \in [node : Node, ask : BOOLEAN]
BY DEF TablesOK, Route, Node0

\* A request that is waited for is a record.
LEMMA RequestType ==
    ASSUME ClientsOK, NEW c \in Client, request[c] # None
    PROVE  /\ request[c] \in Request
           /\ request[c].node \in Node
           /\ request[c].cmd.key \in Key
           /\ request[c].cmd.value \in Value \cup {None}
BY DEF ClientsOK, Command, Request

\* Clients.
LEMMA ClientTypes ==
    ASSUME TypeOK, NEW c \in Client, Send(c) \/ Redirect(c) \/ Execute(c)
    PROVE  TypeOK'
<1>1. CASE Send(c)
  <2>1. ClientsOK'
    BY <1>1, TypeParts DEF Send, ClientsOK, Request
  <2> QED BY <1>1, <2>1, TypeParts, TypePartsPrime, Untouched DEF Send, transfer, tool
<1>2. CASE Redirect(c)
  <2>1. RouteOf(c) \in [node : Node, ask : BOOLEAN]
    BY <1>2, TypeParts, RequestType, RouteType DEF Redirect, RouteOf
  <2>2. ClientsOK'
    BY <1>2, <2>1, TypeParts, RequestType DEF Redirect, ClientsOK, Request
  <2> QED BY <1>2, <2>2, TypeParts, TypePartsPrime, Untouched DEF Redirect, transfer, tool
<1>3. CASE Execute(c)
  <2> DEFINE n == request[c].node
             cmd == request[c].cmd
  <2>1. n \in Node /\ cmd.key \in Key /\ cmd.value \in Value \cup {None} /\ ~Blocked(n)
    BY <1>3, TypeParts, RequestType DEF Execute
  <2>2. /\ request' = [request EXCEPT ![c] = None]
        /\ UNCHANGED <<tables, epochs, packets, transfer, tool>>
    BY <1>3 DEF Execute
  <2>3. CASE /\ reply' = [reply EXCEPT ![c] = db[n][cmd.key]]
             /\ UNCHANGED <<db, last>>
    <3>1. db[n][cmd.key] \in Value \cup {None}
      BY <2>1, TypeParts DEF DbOK
    <3>2. ClientsOK'
      BY <2>2, <2>3, <3>1, TypeParts DEF ClientsOK
    <3> QED BY <2>2, <2>3, <3>2, TypeParts, TypePartsPrime, Untouched DEF transfer, tool
  <2>4. CASE /\ db' = [db EXCEPT ![n][cmd.key] = cmd.value]
             /\ last' = [last EXCEPT ![cmd.key] = cmd.value]
             /\ UNCHANGED reply
    <3> HIDE DEF n, cmd
    <3>1. ClientsOK'
      BY <2>1, <2>2, <2>4, TypeParts DEF ClientsOK
    <3>2. DbOK'
      BY <2>1, <2>4, TypeParts DEF DbOK
    <3>3. WaitOK'
      BY <2>1, <2>2, <2>4, TypeParts DEF WaitOK, Held, Source, Blocked, DbOK, transfer, tool
    <3> QED BY <2>2, <3>1, <3>2, <3>3, TypeParts, TypePartsPrime, Untouched
  <2> QED BY <1>3, <2>3, <2>4 DEF Execute
<1> QED BY <1>1, <1>2, <1>3

\* redis-trib, up to the assignment of the slot.
LEMMA MoveTypes ==
    ASSUME TypeOK, CheckCluster \/ SetImporting \/ SetMigrating \/ GetKeysInSlot
                   \/ (\E k \in Key : Migrate(k)) \/ Die
    PROVE  TypeOK'
<1> USE TypeParts, TypePartsPrime, Untouched, MoveEnds
<1>1. CASE CheckCluster
  <2>1. ToolOK' /\ WaitOK'
    BY <1>1 DEF CheckCluster, ToolOK, WaitOK, Held, Source, transfer
  <2> QED BY <1>1, <2>1 DEF CheckCluster
<1>2. CASE SetImporting
  <2>1. TablesOK' /\ ToolOK' /\ WaitOK'
    BY <1>2 DEF SetImporting, TablesOK, Node0, ToolOK, WaitOK, Held, Source, transfer
  <2> QED BY <1>2, <2>1 DEF SetImporting
<1>3. CASE SetMigrating
  <2>1. TablesOK' /\ ToolOK' /\ WaitOK'
    BY <1>3 DEF SetMigrating, TablesOK, Node0, ToolOK, WaitOK, Held, Source, transfer
  <2> QED BY <1>3, <2>1 DEF SetMigrating
<1>4. CASE GetKeysInSlot
  <2>1. migrate.phase = "idle"
    BY <1>4 DEF GetKeysInSlot, Blocked
  <2>2. ToolOK' /\ WaitOK'
    BY <1>4, <2>1 DEF GetKeysInSlot, ToolOK, WaitOK, Held, transfer
  <2> QED BY <1>4, <2>2 DEF GetKeysInSlot
<1>5. ASSUME NEW k \in Key, Migrate(k)
      PROVE  TypeOK'
  <2>1. CASE batch' = batch \ {k} /\ UNCHANGED migrate
    <3>1. ToolOK' /\ WaitOK'
      BY <1>5, <2>1 DEF Migrate, ToolOK, WaitOK, Held, Source
    <3> QED BY <1>5, <2>1, <3>1 DEF Migrate, transfer
  <2>2. CASE /\ db[Source][k] # None
             /\ migrate' = [phase |-> "sent", key |-> k, retried |-> FALSE]
             /\ UNCHANGED batch
    <3>1. TransferOK' /\ WaitOK'
      BY <1>5, <2>2 DEF Migrate, TransferOK, WaitOK, Held, Source
    <3> QED BY <1>5, <2>2, <3>1 DEF Migrate, tool
  <2> QED BY <1>5, <2>1, <2>2 DEF Migrate
<1>6. CASE Die
  <2>1. ToolOK' /\ WaitOK'
    BY <1>6 DEF Die, ToolOK, WaitOK, Held, Source, transfer
  <2> QED BY <1>6, <2>1 DEF Die
<1> QED BY <1>1, <1>2, <1>3, <1>4, <1>5, <1>6

\* The key that a MIGRATE is about, and its value.
LEMMA WaitTypes ==
    ASSUME TypeOK, migrate.phase # "idle"
    PROVE  /\ migrate.key \in Key
           /\ db[Source][migrate.key] \in Value
           /\ step \in {"move", "failed"}
BY TypeParts, MoveEnds DEF WaitOK, Held, DbOK

\* MIGRATE and RESTORE-ASKING.
LEMMA TransferTypes ==
    ASSUME TypeOK, Restore \/ MigrateReply \/ MigrateError \/ (\E m \in late : LateRestore(m))
    PROVE  TypeOK'
<1> USE TypeParts, TypePartsPrime, Untouched, MoveEnds, WaitTypes
<1>1. CASE Restore
  <2>1. TransferOK'
    BY <1>1 DEF Restore, TransferOK
  <2>2. DbOK' /\ WaitOK'
    BY <1>1 DEF Restore, DbOK, WaitOK, TransferOK, Held, Source, tool
  <2> QED BY <1>1, <2>1, <2>2 DEF Restore
<1>2. CASE MigrateReply
  <2>1. TransferOK' /\ WaitOK'
    BY <1>2 DEF MigrateReply, NoMigrate, TransferOK, WaitOK
  <2>2. DbOK'
    BY <1>2 DEF MigrateReply, DbOK
  <2>3. ToolOK'
    BY <1>2 DEF MigrateReply, ToolOK
  <2> QED BY <1>2, <2>1, <2>2, <2>3 DEF MigrateReply
<1>3. CASE MigrateError
  <2>1. late' \in SUBSET [to : Node, key : Key, value : Value] /\ errors' \in Nat
    BY <1>3 DEF MigrateError, TransferOK
  <2>2. CASE migrate' = NoMigrate /\ step' = "failed"
    <3>1. ToolOK' /\ TransferOK' /\ WaitOK'
      BY <1>3, <2>1, <2>2 DEF MigrateError, NoMigrate, ToolOK, TransferOK, WaitOK
    <3> QED BY <1>3, <3>1 DEF MigrateError
  <2>3. CASE /\ migrate' = [migrate EXCEPT !.phase = "sent", !.retried = TRUE]
             /\ UNCHANGED step
    <3>1. TransferOK'
      BY <1>3, <2>1, <2>3 DEF TransferOK
    <3>2. ToolOK' /\ WaitOK'
      BY <1>3, <2>3 DEF MigrateError, ToolOK, TransferOK, WaitOK, Held, Source
    <3> QED BY <1>3, <3>1, <3>2 DEF MigrateError
  <2> QED BY <1>3, <2>2, <2>3 DEF MigrateError
<1>4. ASSUME NEW m \in late, LateRestore(m)
      PROVE  TypeOK'
  <2>1. m.to \in Node /\ m.key \in Key /\ m.value \in Value /\ ~Blocked(m.to)
    BY <1>4 DEF TransferOK, LateRestore
  <2>2. DbOK' /\ TransferOK'
    BY <1>4, <2>1 DEF LateRestore, DbOK, TransferOK
  <2>3. WaitOK'
    BY <1>4, <2>1 DEF LateRestore, WaitOK, Held, Source, Blocked, DbOK, tool
  <2> QED BY <1>4, <2>2, <2>3 DEF LateRestore
<1> QED BY <1>1, <1>2, <1>3, <1>4

\* The assignment of the slot.
LEMMA SetNodeTypes ==
    ASSUME TypeOK, NEW n \in Node, SetNode(n)
    PROVE  TypeOK'
<1> USE TypeParts, TypePartsPrime, Untouched, MoveEnds
<1>1. migrate.phase = "idle" /\ UNCHANGED <<db, packets, transfer, batch, clients>>
  BY WaitTypes DEF SetNode
<1>2. TransferOK' /\ DbOK' /\ PacketsOK' /\ ClientsOK' /\ WaitOK'
  BY <1>1 DEF WaitOK, transfer
<1>3. left' \in SUBSET Node /\ batch' \in SUBSET Key
  BY <1>1 DEF SetNode, ToolOK
<1>4. CASE step' = "failed" /\ UNCHANGED <<tables, epochs, reshard>>
  <2>1. ToolOK'
    BY <1>3, <1>4 DEF ToolOK
  <2> QED BY <1>2, <1>4, <2>1
<1>5. CASE /\ Assign(n)
           /\ IF left = {n} THEN NextMove ELSE UNCHANGED <<step, reshard>>
  <2>1. TablesOK'
    BY <1>5 DEF Assign, TablesOK, Node0, tables
  <2>2. EpochsOK'
    <3>1. CASE UNCHANGED epochs
      BY <3>1
    <3>2. CASE /\ currentEpoch' = [currentEpoch EXCEPT ![n] = @ + 1]
               /\ configEpoch' = [configEpoch EXCEPT ![n][n] = currentEpoch[n] + 1]
      BY <3>2 DEF EpochsOK
    <3> QED BY <1>5, <3>1, <3>2 DEF Assign, BumpEpoch, epochs
  <2>3. Len(Reshards) \in Nat
    BY SlotsAssumption, LenProperties
  <2>4. ToolOK'
    BY <1>3, <1>5, <2>3 DEF NextMove, ToolOK
  <2> QED BY <1>2, <2>1, <2>2, <2>4
<1> QED BY <1>4, <1>5 DEF SetNode

\* The owner a claim leaves in the table of n, and what is left of its keys.
LEMMA RebindTypes ==
    ASSUME TypeOK, NEW n \in Node, NEW owner \in Node, ~Blocked(n),
           Rebind(n, owner) \/ UNCHANGED <<slots, db>>, UNCHANGED <<migrate, reshard, step>>
    PROVE  slots' \in [Node -> Node] /\ DbOK' /\ WaitOK'
<1>1. CASE UNCHANGED <<slots, db>>
  BY <1>1, TypeParts, Untouched DEF TablesOK
<1>2. CASE Rebind(n, owner)
  <2>1. slots' \in [Node -> Node]
    BY <1>2, TypeParts DEF Rebind, TablesOK
  <2>2. DbOK'
    BY <1>2, TypeParts DEF Rebind, DbOK
  <2>3. WaitOK'
    BY <1>2, TypeParts, MoveEnds DEF Rebind, WaitOK, Held, Source, Blocked, DbOK
  <2> QED BY <2>1, <2>2, <2>3
<1> QED BY <1>1, <1>2

\* What the header of a packet adds to the epochs.
LEMMA HeardType ==
    ASSUME EpochsOK, NEW n \in Node, NEW m, m.from \in Node, m.cfg \in Nat
    PROVE  Heard(n, m) \in [Node -> Nat]
BY DEF EpochsOK, Heard, Larger

\* A PING or a PONG.
LEMMA HeaderTypes ==
    ASSUME TypeOK, NEW n \in Node, ~Blocked(n), NEW rest \in SUBSET Packet,
           NEW m \in Packet, m.type = "PING", ReadHeader(n, m, rest)
    PROVE  TypeOK'
<1> DEFINE known == Heard(n, m)
           epoch == Larger(currentEpoch[n], m.epoch)
           takes == m.claims /\ Rebinds(n, m.from, m.cfg, known)
           stale == m.claims /\ ~takes /\ slots[n] # m.from /\ known[slots[n]] > m.cfg
           update == [type |-> "UPDATE", to |-> m.from, owner |-> slots[n],
                      ownerEpoch |-> known[slots[n]], from |-> n,
                      epoch |-> epoch, cfg |-> known[n]]
<1>1. m.from \in Node /\ m.epoch \in Nat /\ m.cfg \in Nat
  BY DEF Packet
<1>2. /\ UNCHANGED <<migrating, importing, transfer, tool, clients>>
      /\ packets' = rest \cup (IF stale THEN {update} ELSE {})
      /\ Rebind(n, m.from) \/ UNCHANGED <<slots, db>>
  BY DEF ReadHeader
<1>3. \/ /\ currentEpoch' = [currentEpoch EXCEPT ![n] = epoch + 1]
         /\ configEpoch' = [configEpoch EXCEPT ![n] = [known EXCEPT ![n] = epoch + 1]]
      \/ /\ currentEpoch' = [currentEpoch EXCEPT ![n] = epoch]
         /\ configEpoch' = [configEpoch EXCEPT ![n] = known]
  BY DEF ReadHeader
<1>4. known \in [Node -> Nat] /\ epoch \in Nat
  BY <1>1, HeardType, TypeParts DEF EpochsOK, Larger
<1>5. slots[n] \in Node
  BY TypeParts DEF TablesOK
<1>6. slots' \in [Node -> Node] /\ DbOK' /\ WaitOK'
  BY <1>1, <1>2, RebindTypes DEF transfer, tool
<1> HIDE DEF known, epoch, takes, stale
<1>7. update \in Packet
  BY <1>1, <1>4, <1>5 DEF Packet
<1>8. PacketsOK'
  <2> HIDE DEF update
  <2> QED BY <1>2, <1>7 DEF PacketsOK
<1>9. EpochsOK'
  BY <1>3, <1>4, TypeParts DEF EpochsOK
<1> QED BY <1>2, <1>6, <1>8, <1>9, TypeParts, TypePartsPrime, Untouched DEF TablesOK

\* An UPDATE.
LEMMA UpdateTypes ==
    ASSUME TypeOK, NEW m \in packets, ReadUpdate(m)
    PROVE  TypeOK'
<1> DEFINE n     == m.to
           heard == Heard(n, m)
           known == [heard EXCEPT ![m.owner] = Larger(@, m.ownerEpoch)]
<1>1. /\ n \in Node /\ m.from \in Node /\ m.owner \in Node
      /\ m.epoch \in Nat /\ m.cfg \in Nat /\ m.ownerEpoch \in Nat
  BY TypeParts DEF ReadUpdate, PacketsOK, Packet
<1>2. /\ UNCHANGED <<migrating, importing, transfer, tool, clients>>
      /\ packets' = packets \ {m}
      /\ Rebind(n, m.owner) \/ UNCHANGED <<slots, db>>
      /\ ~Blocked(n)
      /\ currentEpoch' = [currentEpoch EXCEPT ![n] = Larger(@, m.epoch)]
      /\ configEpoch' = [configEpoch EXCEPT ![n] = known]
  BY DEF ReadUpdate
<1>3. heard \in [Node -> Nat]
  BY <1>1, HeardType, TypeParts
<1> HIDE DEF n, heard
<1>4. known \in [Node -> Nat]
  BY <1>1, <1>3 DEF Larger
<1>5. slots' \in [Node -> Node] /\ DbOK' /\ WaitOK'
  BY <1>1, <1>2, RebindTypes DEF transfer, tool
<1>6. EpochsOK'
  <2> HIDE DEF known
  <2> QED BY <1>1, <1>2, <1>4, TypeParts DEF EpochsOK, Larger
<1>7. PacketsOK'
  BY <1>2, TypeParts DEF PacketsOK
<1> QED BY <1>2, <1>5, <1>6, <1>7, TypeParts, TypePartsPrime, Untouched DEF TablesOK

\* Heartbeats, at once or late.
LEMMA PacketTypes ==
    ASSUME TypeOK, \/ \E n, r \in Node : Heartbeat(r, n) \/ HoldUp(r, n)
                   \/ \E m \in packets : ReadHeldUp(m) \/ ReadUpdate(m)
    PROVE  TypeOK'
<1>1. \A n, r \in Node : Ping(r, n) \in Packet /\ Ping(r, n).type = "PING"
  BY TypeParts DEF EpochsOK, TablesOK, Ping, Packet
<1>2. ASSUME NEW n \in Node, NEW r \in Node, Heartbeat(r, n)
      PROVE  TypeOK'
  BY <1>1, <1>2, HeaderTypes, TypeParts DEF Heartbeat, PacketsOK
<1>3. ASSUME NEW n \in Node, NEW r \in Node, HoldUp(r, n)
      PROVE  TypeOK'
  <2>1. PacketsOK'
    BY <1>1, <1>3, TypeParts DEF HoldUp, PacketsOK
  <2> QED BY <1>3, <2>1, TypeParts, TypePartsPrime, Untouched DEF HoldUp, transfer, tool
<1>4. ASSUME NEW m \in packets, ReadHeldUp(m)
      PROVE  TypeOK'
  <2>1. m \in Packet /\ m.to \in Node /\ packets \ {m} \in SUBSET Packet
    BY TypeParts DEF PacketsOK, Packet
  <2> QED BY <1>4, <2>1, HeaderTypes DEF ReadHeldUp
<1> QED BY <1>2, <1>3, <1>4, UpdateTypes

\* TypeOK, for any nodes, keys, clients and any list of moves: a slot always has
\* an owner in every table, and while MIGRATE waits the source still holds the key
\* (getNodeByQuery, SETSLOT, migrateCommand, clusterProcessPacket).
THEOREM TypesHold == Spec => []TypeOK
<1>1. Init => TypeOK
  <2> SUFFICES ASSUME Init
               PROVE  TypeOK
    OBVIOUS
  <2>1. TablesOK /\ EpochsOK /\ PacketsOK
    BY SlotsAssumption DEF Init, TablesOK, Node0, EpochsOK, PacketsOK
  <2>2. DbOK /\ ClientsOK
    BY SlotsAssumption DEF Init, DbOK, ClientsOK
  <2>3. WaitOK /\ TransferOK
    BY DEF Init, NoMigrate, WaitOK, TransferOK
  <2>4. 1 \in 1..Len(Reshards)
    <3>1. Len(Reshards) \in Nat /\ Len(Reshards) # 0
      BY SlotsAssumption, LenProperties, EmptySeq
    <3> QED BY <3>1
  <2>5. ToolOK
    BY <2>4 DEF Init, ToolOK
  <2> QED BY <2>1, <2>2, <2>3, <2>5, TypeParts
<1>2. TypeOK /\ [Next]_vars => TypeOK'
  <2> SUFFICES ASSUME TypeOK, [Next]_vars
               PROVE  TypeOK'
    OBVIOUS
  <2>1. CASE UNCHANGED vars
    BY <2>1, TypeParts, TypePartsPrime, Untouched DEF vars, transfer, tool
  <2>2. CASE Next
    BY <2>2, ClientTypes, MoveTypes, TransferTypes, SetNodeTypes, PacketTypes
       DEF Next, MoveSlot
  <2> QED BY <2>1, <2>2
<1> QED BY <1>1, <1>2, PTL DEF Spec

------------------------------------------------------------------------------
(* One move, from the owner of the slot: no key is lost.                      *)

\* The two ends of the move.
Old == FirstOwner
New == Reshards[1].to

\* The slot makes one move, from the node that serves it.
SingleMove == Len(Reshards) = 1 /\ Reshards[1].from = FirstOwner

\* No node that shares the configEpoch of the source has a greater name: when they
\* collide it is not the source that takes a new epoch.
SourceKeepsEpoch ==
    \A n \in Node : FirstEpoch[n] = FirstEpoch[Old] => NameRank[n] <= NameRank[Old]

\* The source does not serve, nor accept, a key that it lacks.
Begun == slots[Old] # Old \/ migrating[Old] # None

\* It has no key left.
Emptied == Begun /\ Held(Old) = {}

\* Who may own, give and take the slot.
OwnersInv == \A n \in Node : slots[n] \in {Old, New}
OpenInv == \A n \in Node : /\ migrating[n] # None => n = Old /\ migrating[n] = New
                           /\ importing[n] # None => n = New
AskableInv == migrating[Old] # None => importing[New] # None \/ slots[New] = New
MarksInv == OwnersInv /\ OpenInv /\ AskableInv

\* How far redis-trib and MIGRATE are.
StageInv ==
    /\ step \in {"migrate", "move"} \/ (step = "assign" /\ New \in left) => importing[New] # None
    /\ step = "move" \/ migrate.phase # "idle" => Begun
    /\ step = "assign" => Emptied

\* Nobody calls the target the owner before the source is empty.
HandedInv == \A n \in Node : slots[n] = New => Emptied

\* The source lacks the key that a client was told to ask for.
AskInv == \A c \in Client : request[c] # None /\ request[c].asking =>
              Begun /\ db[Old][request[c].cmd.key] = None

\* Nor does a packet.
Claim(m) == /\ m.from # m.to
            /\ m.type = "PING" /\ m.claims => m.from \in {Old, New}
                                              /\ (m.from = New => Emptied)
            /\ m.type = "UPDATE" => m.owner # m.to /\ m.owner \in {Old, New}
                                    /\ (m.owner = New => Emptied)
ClaimInv == \A m \in packets : Claim(m)

\* The source does not give way to node n, should n claim the epoch e.
Yields(n, e) == e = FirstEpoch[Old] => NameRank[n] <= NameRank[Old]

\* The epoch of the source never changes and everybody knows it; the target takes
\* the slot with one that is not smaller.
EpochInv ==
    /\ \A n \in Node : /\ currentEpoch[n] >= FirstEpoch[Old]
                       /\ configEpoch[n][Old] = FirstEpoch[Old]
                       /\ Yields(n, configEpoch[n][n])
    /\ slots[New] = New => configEpoch[New][New] >= FirstEpoch[Old]

PacketEpoch(m) == /\ Yields(m.from, m.cfg)
                  /\ m.from = Old => m.cfg = FirstEpoch[Old]
                  /\ m.type = "UPDATE" /\ m.owner = Old => m.ownerEpoch = FirstEpoch[Old]
PacketEpochInv == \A m \in packets : PacketEpoch(m)

\* Where the last value of a key is.
ElsewhereInv == \A n \in Node \ {Old, New} : \A k \in Key : db[n][k] = None
OldDataInv == \A k \in Key : db[Old][k] # None => db[Old][k] = last[k]
NewDataInv == \A k \in Key : db[Old][k] = None /\ last[k] # None => db[New][k] = last[k]
CopyInv == migrate.phase = "stored" => db[New][migrate.key] = db[Old][migrate.key]
LateInv == \A m \in late : m.to = New
DataInv == ElsewhereInv /\ OldDataInv /\ NewDataInv /\ CopyInv /\ LateInv

MoveInv == /\ MarksInv /\ StageInv /\ HandedInv /\ AskInv /\ ClaimInv
           /\ EpochInv /\ PacketEpochInv /\ DataInv

\* The two ends are those of redis-trib's move.
LEMMA Ends ==
    ASSUME SingleMove, ToolOK
    PROVE  /\ Source = Old /\ Target = New
           /\ Old \in Node /\ New \in Node /\ Old # New
           /\ reshard = 1
<1>1. reshard = 1
  BY DEF ToolOK, SingleMove
<1> QED BY <1>1, MoveEnds DEF Source, Target, SingleMove, Old, New

\* FirstEpoch is a table of numbers.
LEMMA EpochNat == FirstEpoch[Old] \in Nat /\ \A n \in Node : NameRank[n] \in Nat
BY SlotsAssumption DEF Old

\* What every step keeps: once the source asks, it goes on asking for each key that
\* it lacks.
Lasts == /\ Begun => Begun'
         /\ \A k \in Key : Begun /\ db[Old][k] = None => db'[Old][k] = None

LEMMA EmptiedLasts == Lasts /\ Emptied => Emptied'
BY DEF Lasts, Emptied, Held

\* What each part depends on, of a step that Lasts.
LEMMA Kept ==
    ASSUME Lasts
    PROVE  /\ MarksInv /\ UNCHANGED tables => MarksInv'
           /\ StageInv /\ UNCHANGED <<importing, migrate, step, left>> => StageInv'
           /\ HandedInv /\ UNCHANGED slots => HandedInv'
           /\ ClaimInv /\ packets' \subseteq packets => ClaimInv'
           /\ EpochInv /\ UNCHANGED <<slots, epochs>> => EpochInv'
           /\ PacketEpochInv /\ packets' \subseteq packets => PacketEpochInv'
           /\ DataInv /\ UNCHANGED <<db, last, migrate, late>> => DataInv'
<1>1. MarksInv /\ UNCHANGED tables => MarksInv'
  BY DEF tables, MarksInv, OwnersInv, OpenInv, AskableInv
<1>2. StageInv /\ UNCHANGED <<importing, migrate, step, left>> => StageInv'
  BY EmptiedLasts DEF StageInv, Lasts
<1>3. HandedInv /\ UNCHANGED slots => HandedInv'
  BY EmptiedLasts DEF HandedInv
<1>4. ClaimInv /\ packets' \subseteq packets => ClaimInv'
  BY EmptiedLasts DEF ClaimInv, Claim
<1>5. EpochInv /\ UNCHANGED <<slots, epochs>> => EpochInv'
  BY DEF EpochInv, epochs
<1>6. PacketEpochInv /\ packets' \subseteq packets => PacketEpochInv'
  BY DEF PacketEpochInv, PacketEpoch
<1>7. DataInv /\ UNCHANGED <<db, last, migrate, late>> => DataInv'
  BY DEF DataInv, ElsewhereInv, OldDataInv, NewDataInv, CopyInv, LateInv
<1> QED BY <1>1, <1>2, <1>3, <1>4, <1>5, <1>6, <1>7

\* The clients that wait, when none is told where to go.
LEMMA KeptAsking ==
    ASSUME Lasts, ClientsOK, AskInv,
           \A c \in Client : request'[c] \in {request[c], None}
    PROVE  AskInv'
<1> SUFFICES ASSUME NEW c \in Client, request'[c] # None, request'[c].asking
             PROVE  (Begun /\ db[Old][request[c].cmd.key] = None)'
  BY DEF AskInv
<1>1. request'[c] = request[c] /\ request[c] # None /\ request[c].asking
  OBVIOUS
<1>2. request[c].cmd.key \in Key
  BY <1>1, RequestType
<1> QED BY <1>1, <1>2 DEF Lasts, AskInv

\* A step that moves no mark and no key Lasts.
LEMMA IdleLasts == UNCHANGED <<slots, migrating, db>> => Lasts
BY DEF Lasts, Begun

\* Where a command is run: at the source while it holds the key or the move has not
\* begun, at the target when the source lacks the key.
LEMMA Served ==
    ASSUME SingleMove, TypeOK, MoveInv, NEW n \in Node, NEW k \in Key, NEW asking \in BOOLEAN,
           asking => Begun /\ db[Old][k] = None,
           Route(n, k, asking).node = n
    PROVE  \/ n = Old /\ (~Begun \/ db[Old][k] # None)
           \/ n = New /\ Begun /\ db[Old][k] = None
<1> USE TypeParts, Ends
<1>1. slots[n] \in {Old, New} /\ (slots[n] = New => Emptied)
  BY DEF MoveInv, MarksInv, OwnersInv, HandedInv
<1>2. /\ migrating[n] # None => n = Old /\ migrating[n] = New
      /\ importing[n] # None => n = New
  BY DEF MoveInv, MarksInv, OpenInv
<1>3. Emptied => Begun /\ db[Old][k] = None
  BY DEF Emptied, Held
<1>4. CASE slots[n] = n /\ migrating[n] # None /\ db[n][k] = None
  BY <1>2, <1>4 DEF Route
<1>5. CASE ~(slots[n] = n /\ migrating[n] # None) /\ importing[n] # None /\ asking
  BY <1>2, <1>5
<1>6. CASE /\ ~(slots[n] = n /\ migrating[n] # None /\ db[n][k] = None)
           /\ ~(~(slots[n] = n /\ migrating[n] # None) /\ importing[n] # None /\ asking)
  <2>1. slots[n] = n
    BY <1>6 DEF Route
  <2> QED BY <1>1, <1>3, <1>6, <2>1 DEF Begun
<1> QED BY <1>4, <1>5, <1>6

\* A client's command is run there.
LEMMA ExecutedAt ==
    ASSUME SingleMove, TypeOK, MoveInv, NEW c \in Client, Execute(c)
    PROVE  LET n == request[c].node
               k == request[c].cmd.key
           IN \/ n = Old /\ (~Begun \/ db[Old][k] # None)
              \/ n = New /\ Begun /\ db[Old][k] = None
<1> DEFINE n == request[c].node
           k == request[c].cmd.key
<1>1. request[c] # None /\ Route(n, k, request[c].asking).node = n
  BY DEF Execute, RouteOf
<1>2. n \in Node /\ k \in Key /\ request[c].asking \in BOOLEAN
  BY <1>1, RequestType, TypeParts DEF Request
<1>3. request[c].asking => Begun /\ db[Old][k] = None
  BY <1>1 DEF MoveInv, AskInv
<1> HIDE DEF n, k
<1>4. \/ n = Old /\ (~Begun \/ db[Old][k] # None)
      \/ n = New /\ Begun /\ db[Old][k] = None
  BY <1>1, <1>2, <1>3, Served
<1> QED BY <1>4 DEF n, k

\* A command changes one key, where it is served.
LEMMA WriteKeeps ==
    ASSUME SingleMove, TypeOK, MoveInv, NEW n \in Node, NEW k \in Key,
           NEW v \in Value \cup {None}, ~Blocked(n),
           \/ n = Old /\ (~Begun \/ db[Old][k] # None)
           \/ n = New /\ Begun /\ db[Old][k] = None,
           db' = [db EXCEPT ![n][k] = v], last' = [last EXCEPT ![k] = v],
           UNCHANGED <<tables, transfer>>
    PROVE  Lasts /\ DataInv'
<1> USE TypeParts, Ends
<1>1. /\ \A r \in Node, j \in Key : db'[r][j] = IF r = n /\ j = k THEN v ELSE db[r][j]
      /\ \A j \in Key : last'[j] = IF j = k THEN v ELSE last[j]
  BY DEF DbOK, ClientsOK
<1>2. Lasts
  BY <1>1 DEF Lasts, Begun, tables
<1>3. ElsewhereInv' /\ LateInv'
  BY <1>1 DEF MoveInv, DataInv, ElsewhereInv, LateInv, transfer
<1>4. OldDataInv' /\ NewDataInv'
  BY <1>1 DEF MoveInv, DataInv, OldDataInv, NewDataInv
<1>5. CopyInv'
  <2> SUFFICES ASSUME migrate.phase = "stored"
               PROVE  db'[New][migrate.key] = db'[Old][migrate.key]
    BY DEF CopyInv, transfer
  <2>1. n = New /\ db[Old][k] = None
    BY DEF Blocked
  <2>2. migrate.key \in Key /\ db[Old][migrate.key] # None
    BY WaitTypes, SlotsAssumption
  <2> QED BY <1>1, <2>1, <2>2 DEF MoveInv, DataInv, CopyInv
<1> QED BY <1>2, <1>3, <1>4, <1>5 DEF DataInv

\* Clients.
LEMMA ClientMoves ==
    ASSUME SingleMove, TypeOK, MoveInv, NEW c \in Client, Send(c) \/ Redirect(c) \/ Execute(c)
    PROVE  Lasts /\ MoveInv'
<1> USE TypeParts, Ends
<1>1. CASE Send(c) \/ Redirect(c)
  <2>1. UNCHANGED <<tables, epochs, db, packets, transfer, tool, last>>
    BY <1>1 DEF Send, Redirect
  <2>2. Lasts
    BY <2>1, IdleLasts DEF tables
  <2>3. CASE Send(c)
    <3>1. \A d \in Client : request'[d] = request[d] \/ request'[d].asking = FALSE
      BY <2>3 DEF Send, ClientsOK
    <3>2. AskInv'
      BY <2>1, <2>2, <3>1, RequestType DEF MoveInv, AskInv, Lasts
    <3> QED BY <2>1, <2>2, <3>2, Kept DEF MoveInv, tables, transfer, tool
  <2>4. CASE Redirect(c)
    <3> DEFINE n == request[c].node
               k == request[c].cmd.key
               a == request[c].asking
    <3>1. request[c] # None /\ n \in Node /\ k \in Key
      BY <2>4, RequestType DEF Redirect
    <3>2. /\ \A d \in Client : d # c => request'[d] = request[d]
          /\ request'[c].cmd.key = k
          /\ request'[c].asking = RouteOf(c).ask
      BY <2>4, <3>1, RequestType DEF Redirect, ClientsOK
    <3>3. RouteOf(c).ask => slots[n] = n /\ migrating[n] # None /\ db[n][k] = None
      BY DEF RouteOf, Route
    <3> HIDE DEF n, k, a
    <3>4. RouteOf(c).ask => Begun /\ db[Old][k] = None
      BY <3>1, <3>3 DEF MoveInv, MarksInv, OpenInv, Begun
    <3>5. AskInv'
      BY <2>1, <3>2, <3>4 DEF MoveInv, AskInv, Begun, tables
    <3> QED BY <2>1, <2>2, <3>5, Kept DEF MoveInv, tables, transfer, tool
  <2> QED BY <1>1, <2>3, <2>4
<1>2. CASE Execute(c)
  <2> DEFINE n == request[c].node
             k == request[c].cmd.key
             v == request[c].cmd.value
  <2>1. n \in Node /\ k \in Key /\ v \in Value \cup {None} /\ ~Blocked(n)
    BY <1>2, RequestType DEF Execute
  <2>2. /\ request' = [request EXCEPT ![c] = None]
        /\ UNCHANGED <<tables, epochs, packets, transfer, tool>>
    BY <1>2 DEF Execute
  <2>3. \/ UNCHANGED <<db, last>>
        \/ db' = [db EXCEPT ![n][k] = v] /\ last' = [last EXCEPT ![k] = v]
    BY <1>2 DEF Execute
  <2>4. \/ n = Old /\ (~Begun \/ db[Old][k] # None)
        \/ n = New /\ Begun /\ db[Old][k] = None
    BY <1>2, ExecutedAt
  <2> HIDE DEF n, k, v
  <2>5. Lasts /\ DataInv'
    <3>1. CASE UNCHANGED <<db, last>>
      <4>1. Lasts
        BY <2>2, <3>1, IdleLasts DEF tables
      <4> QED BY <2>2, <3>1, <4>1, Kept DEF MoveInv, transfer
    <3>2. CASE db' = [db EXCEPT ![n][k] = v] /\ last' = [last EXCEPT ![k] = v]
      BY <2>1, <2>2, <2>4, <3>2, WriteKeeps
    <3> QED BY <2>3, <3>1, <3>2
  <2>6. \A d \in Client : request'[d] \in {request[d], None}
    BY <2>2 DEF ClientsOK
  <2>7. AskInv'
    BY <2>5, <2>6, KeptAsking DEF MoveInv
  <2> QED BY <2>2, <2>5, <2>7, Kept DEF MoveInv, tables, transfer, tool
<1> QED BY <1>1, <1>2

\* redis-trib, up to the assignment of the slot.
LEMMA MoveMoves ==
    ASSUME SingleMove, TypeOK, MoveInv,
           CheckCluster \/ SetImporting \/ SetMigrating \/ GetKeysInSlot
               \/ (\E k \in Key : Migrate(k)) \/ Die
    PROVE  Lasts /\ MoveInv'
<1> USE TypeParts, Ends
<1>1. /\ UNCHANGED <<slots, epochs, db, packets, late, last, request>>
      /\ \A c \in Client : request'[c] \in {request[c], None}
  BY DEF CheckCluster, SetImporting, SetMigrating, GetKeysInSlot, Migrate, Die, tables, transfer,
         clients
<1>2. CASE CheckCluster \/ Die
  <2>1. UNCHANGED <<tables, transfer>> /\ step' \in {"import", "failed"}
    BY <1>2 DEF CheckCluster, Die
  <2>2. Lasts
    BY <1>1, <2>1, IdleLasts DEF tables
  <2>3. StageInv'
    BY <2>1, <2>2 DEF MoveInv, StageInv, Lasts, transfer
  <2> QED BY <1>1, <2>1, <2>2, <2>3, Kept, KeptAsking DEF MoveInv, transfer
<1>3. CASE SetImporting
  <2>1. UNCHANGED <<migrating, transfer, left>> /\ step = "import"
    BY <1>3 DEF SetImporting
  <2>2. \/ step' = "failed" /\ UNCHANGED importing
        \/ step' = "migrate" /\ importing' = [importing EXCEPT ![New] = Old]
    BY <1>3 DEF SetImporting
  <2>3. Lasts
    BY <1>1, <2>1, IdleLasts
  <2>4. Old # None
    BY SlotsAssumption
  <2>5. MarksInv' /\ StageInv'
    BY <1>1, <2>1, <2>2, <2>3, <2>4
       DEF TablesOK, MoveInv, MarksInv, OwnersInv, OpenInv, AskableInv, StageInv, Lasts, transfer
  <2> QED BY <1>1, <2>1, <2>3, <2>5, Kept, KeptAsking DEF MoveInv, transfer
<1>4. CASE SetMigrating
  <2>1. UNCHANGED <<importing, transfer, left>> /\ step = "migrate"
    BY <1>4 DEF SetMigrating
  <2>2. \/ step' = "failed" /\ UNCHANGED migrating
        \/ step' = "move" /\ migrating' = [migrating EXCEPT ![Old] = New]
    BY <1>4 DEF SetMigrating
  <2>3. New # None
    BY SlotsAssumption
  <2>4. Lasts
    BY <1>1, <2>2, <2>3 DEF TablesOK, Lasts, Begun
  <2>5. MarksInv'
    BY <1>1, <2>1, <2>2
       DEF TablesOK, MoveInv, MarksInv, OwnersInv, OpenInv, AskableInv, StageInv
  <2>6. StageInv'
    BY <2>1, <2>2, <2>3, <2>4 DEF TablesOK, MoveInv, StageInv, Lasts, Begun, transfer
  <2> QED BY <1>1, <2>1, <2>4, <2>5, <2>6, Kept, KeptAsking DEF MoveInv, transfer
<1>5. CASE GetKeysInSlot
  <2>1. UNCHANGED <<tables, transfer>> /\ step = "move"
    BY <1>5 DEF GetKeysInSlot
  <2>2. UNCHANGED <<step, left>> \/ (Held(Old) = {} /\ step' = "assign")
    BY <1>5 DEF GetKeysInSlot
  <2>3. Lasts
    BY <1>1, <2>1, IdleLasts DEF tables
  <2>4. StageInv'
    BY <2>1, <2>2, <2>3, EmptiedLasts DEF MoveInv, StageInv, Lasts, Emptied, tables, transfer
  <2> QED BY <1>1, <2>1, <2>3, <2>4, Kept, KeptAsking DEF MoveInv, transfer
<1>6. ASSUME NEW k \in Key, Migrate(k)
      PROVE  Lasts /\ MoveInv'
  <2>1. /\ UNCHANGED <<tables, left, step>> /\ step = "move"
        /\ migrate' = migrate \/ migrate'.phase = "sent"
    BY <1>6 DEF Migrate
  <2>2. Lasts
    BY <1>1, <2>1, IdleLasts DEF tables
  <2>3. StageInv'
    BY <2>1, <2>2 DEF MoveInv, StageInv, Lasts, tables
  <2>4. DataInv'
    BY <1>1, <2>1 DEF MoveInv, DataInv, ElsewhereInv, OldDataInv, NewDataInv, CopyInv, LateInv
  <2> QED BY <1>1, <2>1, <2>2, <2>3, <2>4, Kept, KeptAsking DEF MoveInv
<1> QED BY <1>2, <1>3, <1>4, <1>5, <1>6

\* A key is stored at the target if the target lacks it, so no value that counts is
\* overwritten.
LEMMA StoreKeeps ==
    ASSUME SingleMove, TypeOK, MoveInv, NEW k \in Key, NEW v,
           db[New][k] = None, db' = [db EXCEPT ![New][k] = v], UNCHANGED <<slots, migrating, last>>
    PROVE  Lasts /\ ElsewhereInv' /\ OldDataInv' /\ NewDataInv'
<1> USE TypeParts, Ends
<1>1. \A r \in Node, j \in Key :
          db'[r][j] = IF r = New /\ j = k THEN v ELSE db[r][j]
  BY DEF DbOK
<1>2. Lasts
  BY <1>1 DEF Lasts, Begun
<1>3. ElsewhereInv' /\ OldDataInv' /\ NewDataInv'
  BY <1>1 DEF MoveInv, DataInv, ElsewhereInv, OldDataInv, NewDataInv
<1> QED BY <1>2, <1>3

\* MIGRATE and RESTORE-ASKING.
LEMMA TransferMoves ==
    ASSUME SingleMove, TypeOK, MoveInv,
           Restore \/ MigrateReply \/ MigrateError \/ (\E m \in late : LateRestore(m))
    PROVE  Lasts /\ MoveInv'
<1> USE TypeParts, Ends
<1>1. /\ UNCHANGED <<tables, epochs, packets, last, request, left>>
      /\ \A c \in Client : request'[c] \in {request[c], None}
  BY DEF Restore, MigrateReply, MigrateError, LateRestore, tool, clients
<1>2. migrate.phase # "idle" =>
          migrate.key \in Key /\ db[Old][migrate.key] # None /\ Begun /\ step \in {"move", "failed"}
  BY WaitTypes, SlotsAssumption DEF MoveInv, StageInv
<1>3. CASE Restore
  <2>1. migrate.phase = "sent" /\ UNCHANGED <<late, step>>
    BY <1>3 DEF Restore, tool
  <2>2. CASE /\ Accepts(Target, migrate.key)
             /\ db' = [db EXCEPT ![Target][migrate.key] = db[Source][migrate.key]]
             /\ migrate' = [migrate EXCEPT !.phase = "stored"]
    <3>1. Lasts /\ ElsewhereInv' /\ OldDataInv' /\ NewDataInv'
      BY <1>1, <1>2, <2>1, <2>2, StoreKeeps DEF Accepts, tables
    <3>2. migrate'.key = migrate.key
      BY <2>2 DEF TransferOK
    <3>3. CopyInv'
      BY <1>2, <2>1, <2>2, <3>2 DEF CopyInv, DbOK
    <3>4. DataInv' /\ StageInv'
      BY <1>1, <1>2, <2>1, <3>1, <3>3, EmptiedLasts
         DEF MoveInv, DataInv, LateInv, StageInv, Lasts, tables
    <3> QED BY <1>1, <3>1, <3>4, Kept, KeptAsking DEF MoveInv, tables
  <2>3. CASE migrate' = [migrate EXCEPT !.phase = "refused"] /\ UNCHANGED db
    <3>1. Lasts
      BY <1>1, <2>3, IdleLasts DEF tables
    <3>2. migrate'.phase = "refused"
      BY <2>3 DEF TransferOK
    <3>3. DataInv'
      BY <1>1, <2>1, <2>3, <3>2
         DEF MoveInv, DataInv, ElsewhereInv, OldDataInv, NewDataInv, CopyInv, LateInv
    <3>4. StageInv'
      BY <1>1, <1>2, <2>1, <3>1, EmptiedLasts DEF MoveInv, StageInv, Lasts, tables
    <3> QED BY <1>1, <3>1, <3>3, <3>4, Kept, KeptAsking DEF MoveInv, tables
  <2> QED BY <1>3, <2>2, <2>3 DEF Restore
<1>4. CASE MigrateReply
  <2>1. migrate.phase # "idle" /\ migrate'.phase = "idle" /\ UNCHANGED late
    BY <1>4 DEF MigrateReply, NoMigrate
  <2>2. CASE /\ migrate.phase = "stored"
             /\ db' = [db EXCEPT ![Source][migrate.key] = None]
             /\ UNCHANGED step
    <3>1. \A r \in Node, j \in Key :
              db'[r][j] = IF r = Old /\ j = migrate.key THEN None ELSE db[r][j]
      BY <1>2, <2>1, <2>2 DEF DbOK
    <3>2. Lasts
      BY <1>1, <3>1 DEF Lasts, Begun, tables
    <3>3. ElsewhereInv' /\ OldDataInv' /\ CopyInv' /\ LateInv'
      BY <1>1, <2>1, <3>1 DEF MoveInv, DataInv, ElsewhereInv, OldDataInv, CopyInv, LateInv
    <3>4. NewDataInv'
      BY <1>1, <1>2, <2>1, <2>2, <3>1 DEF MoveInv, DataInv, OldDataInv, NewDataInv, CopyInv
    <3>5. StageInv'
      BY <1>1, <1>2, <2>1, <2>2, <3>2, EmptiedLasts DEF MoveInv, StageInv, Lasts, tables
    <3> QED BY <1>1, <3>2, <3>3, <3>4, <3>5, Kept, KeptAsking DEF MoveInv, DataInv, tables
  <2>3. CASE step' = "failed" /\ UNCHANGED db
    <3>1. Lasts
      BY <1>1, <2>3, IdleLasts DEF tables
    <3>2. DataInv'
      BY <1>1, <2>1, <2>3
         DEF MoveInv, DataInv, ElsewhereInv, OldDataInv, NewDataInv, CopyInv, LateInv
    <3>3. StageInv'
      BY <2>1, <2>3 DEF StageInv
    <3> QED BY <1>1, <3>1, <3>2, <3>3, Kept, KeptAsking DEF MoveInv, tables
  <2> QED BY <1>4, <2>2, <2>3 DEF MigrateReply
<1>5. CASE MigrateError
  <2>1. /\ migrate.phase # "idle" /\ UNCHANGED db
        /\ \A m \in late' : m \in late \/ m.to = New
    BY <1>5 DEF MigrateError
  <2>2. migrate'.phase # "stored" /\ (step' = "failed" \/ UNCHANGED step)
    <3>1. CASE migrate' = NoMigrate /\ step' = "failed"
      BY <3>1 DEF NoMigrate
    <3>2. CASE /\ migrate' = [migrate EXCEPT !.phase = "sent", !.retried = TRUE]
               /\ UNCHANGED step
      <4>1. migrate'.phase = "sent"
        BY <3>2 DEF TransferOK
      <4> QED BY <3>2, <4>1
    <3> QED BY <1>5, <3>1, <3>2 DEF MigrateError
  <2>3. Lasts
    BY <1>1, <2>1, IdleLasts DEF tables
  <2>4. DataInv'
    BY <1>1, <2>1, <2>2
       DEF MoveInv, DataInv, ElsewhereInv, OldDataInv, NewDataInv, CopyInv, LateInv
  <2>5. StageInv'
    BY <1>1, <1>2, <2>1, <2>2, <2>3, EmptiedLasts DEF MoveInv, StageInv, Lasts, tables
  <2> QED BY <1>1, <2>3, <2>4, <2>5, Kept, KeptAsking DEF MoveInv, tables
<1>6. ASSUME NEW m \in late, LateRestore(m)
      PROVE  Lasts /\ MoveInv'
  <2>1. m.to = New /\ m.key \in Key /\ late' \subseteq late /\ UNCHANGED <<migrate, step>>
    BY <1>6 DEF MoveInv, DataInv, LateInv, LateRestore, TransferOK, tool
  <2>2. CASE /\ Accepts(m.to, m.key)
             /\ db' = [db EXCEPT ![m.to][m.key] = m.value]
    <3>1. db[New][m.key] = None
      BY <2>1, <2>2 DEF Accepts
    <3>2. Lasts /\ ElsewhereInv' /\ OldDataInv' /\ NewDataInv'
      BY <1>1, <2>1, <2>2, <3>1, StoreKeeps DEF tables
    <3>3. CopyInv'
      <4> SUFFICES ASSUME migrate.phase = "stored"
                   PROVE  db'[New][migrate.key] = db'[Old][migrate.key]
        BY <2>1 DEF CopyInv
      <4>1. migrate.key # m.key
        BY <1>2, <3>1 DEF MoveInv, DataInv, CopyInv
      <4> QED BY <1>2, <2>1, <2>2, <4>1 DEF MoveInv, DataInv, CopyInv, DbOK
    <3>4. DataInv'
      BY <2>1, <3>2, <3>3 DEF MoveInv, DataInv, LateInv
    <3>5. StageInv'
      BY <1>1, <2>1, <3>2, Kept DEF MoveInv, tables
    <3> QED BY <1>1, <3>2, <3>4, <3>5, Kept, KeptAsking DEF MoveInv, tables
  <2>3. CASE UNCHANGED db
    <3>1. Lasts
      BY <1>1, <2>3, IdleLasts DEF tables
    <3>2. DataInv'
      BY <1>1, <2>1, <2>3
         DEF MoveInv, DataInv, ElsewhereInv, OldDataInv, NewDataInv, CopyInv, LateInv
    <3>3. StageInv'
      BY <1>1, <2>1, <3>1, Kept DEF MoveInv, tables
    <3> QED BY <1>1, <3>1, <3>2, <3>3, Kept, KeptAsking DEF MoveInv, tables
  <2> QED BY <1>6, <2>2, <2>3 DEF LateRestore
<1> QED BY <1>3, <1>4, <1>5, <1>6

\* The assignment of the slot: redis-trib gets there when the source is empty, and the
\* target takes an epoch that is not below the source's.
LEMMA SetNodeMoves ==
    ASSUME SingleMove, TypeOK, MoveInv, NEW n \in Node, SetNode(n)
    PROVE  Lasts /\ MoveInv'
<1> USE TypeParts, Ends
<1>1. /\ step = "assign" /\ n \in left /\ left' = left \ {n}
      /\ UNCHANGED <<db, packets, migrate, late, last, request>>
      /\ \A c \in Client : request'[c] \in {request[c], None}
  BY DEF SetNode, transfer, clients
<1>2. Emptied /\ Begun /\ \A k \in Key : db[Old][k] = None
  BY <1>1 DEF MoveInv, StageInv, Emptied, Held
<1>3. migrate.phase = "idle"
  BY <1>1, WaitTypes
<1>4. CASE step' = "failed" /\ UNCHANGED <<tables, epochs>>
  <2>1. Lasts
    BY <1>1, <1>4, IdleLasts DEF tables
  <2>2. StageInv'
    BY <1>1, <1>3, <1>4 DEF StageInv
  <2> QED BY <1>1, <1>4, <2>1, <2>2, Kept, KeptAsking DEF MoveInv, tables
<1>5. CASE /\ Assign(n)
           /\ step' \in {"assign", "done"}
  <2>1. /\ slots' = [slots EXCEPT ![n] = New]
        /\ migrating' = [migrating EXCEPT ![n] = IF Held(n) = {} THEN None ELSE @]
    BY <1>5 DEF Assign
  <2>2. \/ n = New /\ BumpEpoch(n) /\ importing' = [importing EXCEPT ![n] = None]
        \/ (n # New \/ importing[n] = None) /\ UNCHANGED <<epochs, importing>>
    BY <1>5 DEF Assign
  <2>3. /\ \A r \in Node : slots'[r] = IF r = n THEN New ELSE slots[r]
        /\ \A r \in Node : migrating'[r] \in {migrating[r], None}
        /\ \A r \in Node \ {n} : migrating'[r] = migrating[r] /\ importing'[r] = importing[r]
        /\ \A r \in Node : importing'[r] \in {importing[r], None}
    BY <2>1, <2>2 DEF TablesOK
  <2>4. Lasts
    BY <1>1, <1>2, <2>3 DEF Lasts, Begun
  <2>5. MarksInv'
    <3>1. OwnersInv'
      BY <2>3 DEF MoveInv, MarksInv, OwnersInv
    <3>2. OpenInv'
      BY <2>3 DEF MoveInv, MarksInv, OpenInv
    <3>3. AskableInv'
      BY <2>3 DEF MoveInv, MarksInv, AskableInv
    <3> QED BY <3>1, <3>2, <3>3 DEF MarksInv
  <2>6. HandedInv' /\ StageInv'
    BY <1>1, <1>2, <1>3, <1>5, <2>3, <2>4, EmptiedLasts DEF MoveInv, StageInv, HandedInv, Lasts
  <2>7. EpochInv'
    <3>1. EpochsOK /\ EpochInv /\ FirstEpoch[Old] \in Nat
      BY EpochNat DEF MoveInv
    <3>2. n = New => importing[n] # None
      BY <1>1 DEF MoveInv, StageInv
    <3>3. CASE n # New
      BY <2>2, <2>3, <3>1, <3>3 DEF EpochInv, epochs
    <3>4. CASE n = New /\ UNCHANGED epochs /\ IsMaxEpoch(n, configEpoch[n][n])
      <4>1. configEpoch[New][New] >= FirstEpoch[Old]
        BY <3>1, <3>4 DEF IsMaxEpoch, EpochInv
      <4> QED BY <3>1, <3>4, <4>1 DEF EpochInv, epochs
    <3>5. CASE /\ n = New
               /\ currentEpoch' = [currentEpoch EXCEPT ![n] = @ + 1]
               /\ configEpoch' = [configEpoch EXCEPT ![n][n] = currentEpoch[n] + 1]
      <4>1. currentEpoch[n] + 1 \in Nat /\ currentEpoch[n] + 1 > FirstEpoch[Old]
        BY <3>1 DEF EpochInv, EpochsOK
      <4>2. \A r \in Node : /\ currentEpoch'[r] >= FirstEpoch[Old]
                            /\ configEpoch'[r][Old] = FirstEpoch[Old]
        BY <3>1, <3>5, <4>1 DEF EpochInv, EpochsOK
      <4>3. /\ configEpoch'[New][New] = currentEpoch[n] + 1
            /\ \A r \in Node \ {New} : configEpoch'[r][r] = configEpoch[r][r]
        BY <3>1, <3>5 DEF EpochsOK
      <4>4. \A r \in Node : Yields(r, configEpoch'[r][r])
        BY <3>1, <4>1, <4>3 DEF EpochInv, Yields
      <4> QED BY <3>1, <4>1, <4>2, <4>3, <4>4 DEF EpochInv
    <3> QED BY <2>2, <3>2, <3>3, <3>4, <3>5 DEF BumpEpoch
  <2> QED BY <1>1, <2>4, <2>5, <2>6, <2>7, Kept, KeptAsking DEF MoveInv
<1>6. reshard = Len(Reshards)
  BY DEF SingleMove
<1> QED BY <1>1, <1>4, <1>5, <1>6 DEF SetNode, NextMove

\* A claim takes the slot from the source when the source is empty, and never from the
\* target: no key is deleted.
LEMMA RebindMoves ==
    ASSUME SingleMove, TypeOK, MoveInv, NEW n \in Node, NEW owner \in {Old, New},
           NEW e \in Nat, NEW known \in [Node -> Nat], owner # n, owner = New => Emptied,
           owner = Old => e = FirstEpoch[Old], known[n] = configEpoch[n][n],
           \/ Rebinds(n, owner, e, known) /\ Rebind(n, owner)
           \/ UNCHANGED <<slots, db>>,
           UNCHANGED <<migrating, importing>>
    PROVE  Lasts /\ UNCHANGED db /\ slots'[New] = slots[New] /\ MarksInv' /\ HandedInv'
<1> USE TypeParts, Ends
<1>1. CASE UNCHANGED <<slots, db>>
  <2>1. Lasts
    BY <1>1, IdleLasts
  <2> QED BY <1>1, <2>1, Kept DEF MoveInv, tables
<1>2. CASE Rebinds(n, owner, e, known) /\ Rebind(n, owner)
  <2>1. slots[n] \in {Old, New} /\ (slots[n] = New => Emptied) /\ slots[n] # owner
    BY <1>2 DEF Rebinds, MoveInv, MarksInv, OwnersInv, HandedInv
  <2>2. n # New
    <3> SUFFICES ASSUME n = New
                 PROVE  FALSE
      OBVIOUS
    <3>1. slots[New] = New /\ e = FirstEpoch[Old]
      BY <2>1
    <3>2. configEpoch[New][New] >= FirstEpoch[Old]
      BY <3>1 DEF MoveInv, EpochInv
    <3>3. known[New] < e /\ known[New] = configEpoch[New][New]
      BY <1>2, <3>1 DEF Rebinds
    <3> QED BY <3>1, <3>2, <3>3, EpochNat
  <2>3. Emptied
    BY <2>1
  <2>4. UNCHANGED db
    <3>1. CASE slots[n] = n
      <4>1. n = Old /\ db' = [db EXCEPT ![Old] = [k \in Key |-> None]]
        BY <1>2, <2>1, <2>2, <3>1 DEF Rebind
      <4>2. \A k \in Key : db[Old][k] = None
        BY <2>3 DEF Emptied, Held
      <4>3. db[Old] = [k \in Key |-> None]
        BY <4>2 DEF DbOK
      <4> QED BY <4>1, <4>3 DEF DbOK
    <3> QED BY <1>2, <3>1 DEF Rebind
  <2>5. \A r \in Node : slots'[r] = IF r = n THEN owner ELSE slots[r]
    BY <1>2 DEF Rebind, TablesOK
  <2>6. Lasts
    BY <2>1, <2>4, <2>5 DEF Lasts, Begun
  <2>7. MarksInv'
    BY <2>2, <2>5 DEF MoveInv, MarksInv, OwnersInv, OpenInv, AskableInv
  <2>8. HandedInv'
    BY <2>3, <2>6, EmptiedLasts DEF HandedInv
  <2> QED BY <2>2, <2>4, <2>5, <2>6, <2>7, <2>8
<1> QED BY <1>1, <1>2

\* The header of a packet raises no epoch of the reader or of the source.
LEMMA HeardKeeps ==
    ASSUME SingleMove, TypeOK, EpochInv, NEW n \in Node, NEW m, m.from \in Node, m.cfg \in Nat,
           m.from # n, m.from = Old => m.cfg = FirstEpoch[Old]
    PROVE  /\ Heard(n, m) \in [Node -> Nat]
           /\ Heard(n, m)[n] = configEpoch[n][n]
           /\ Heard(n, m)[Old] = FirstEpoch[Old]
<1> USE TypeParts, Ends, EpochNat
<1>1. Heard(n, m) \in [Node -> Nat]
  BY HeardType
<1>2. \A r \in Node : r # m.from => Heard(n, m)[r] = configEpoch[n][r]
  BY DEF EpochsOK, Heard
<1>3. Heard(n, m)[m.from] = Larger(configEpoch[n][m.from], m.cfg)
  BY DEF EpochsOK, Heard
<1>4. configEpoch[n][Old] = FirstEpoch[Old]
  BY DEF EpochInv
<1>5. Heard(n, m)[Old] = FirstEpoch[Old]
  BY <1>2, <1>3, <1>4 DEF Larger
<1> QED BY <1>1, <1>2, <1>5

\* The parts that neither a mark nor an epoch nor a packet is in.
LEMMA PacketFrame ==
    ASSUME TypeOK, MoveInv, Lasts, UNCHANGED <<db, importing, transfer, tool, clients>>
    PROVE  StageInv' /\ AskInv' /\ DataInv'
<1>1. UNCHANGED <<importing, migrate, late, step, left, request, last, db>>
  BY DEF transfer, tool, clients
<1>2. StageInv' /\ DataInv'
  BY <1>1, Kept DEF MoveInv
<1>3. AskInv'
  BY <1>1, KeptAsking, TypeParts DEF MoveInv
<1> QED BY <1>2, <1>3

\* A PING or a PONG.
LEMMA HeaderMoves ==
    ASSUME SingleMove, TypeOK, MoveInv, NEW n \in Node,
           NEW rest \in SUBSET packets, NEW m \in Packet, m.type = "PING",
           m.to = n, Claim(m), PacketEpoch(m), ReadHeader(n, m, rest)
    PROVE  Lasts /\ MoveInv' /\ UNCHANGED <<db, transfer, clients>>
<1> USE TypeParts, Ends, EpochNat
<1> DEFINE known == Heard(n, m)
           epoch == Larger(currentEpoch[n], m.epoch)
           takes == m.claims /\ Rebinds(n, m.from, m.cfg, known)
           stale == m.claims /\ ~takes /\ slots[n] # m.from /\ known[slots[n]] > m.cfg
           update == [type |-> "UPDATE", to |-> m.from, owner |-> slots[n],
                      ownerEpoch |-> known[slots[n]], from |-> n,
                      epoch |-> epoch, cfg |-> known[n]]
<1>1. m.from \in Node /\ m.epoch \in Nat /\ m.cfg \in Nat /\ m.from # n
  BY DEF Packet, Claim
<1>2. /\ UNCHANGED <<migrating, importing, transfer, tool, clients>>
      /\ packets' = rest \cup (IF stale THEN {update} ELSE {})
      /\ IF takes THEN Rebind(n, m.from) ELSE UNCHANGED <<slots, db>>
  BY DEF ReadHeader
<1>3. \/ /\ Collides(n, m, known)
         /\ currentEpoch' = [currentEpoch EXCEPT ![n] = epoch + 1]
         /\ configEpoch' = [configEpoch EXCEPT ![n] = [known EXCEPT ![n] = epoch + 1]]
      \/ /\ currentEpoch' = [currentEpoch EXCEPT ![n] = epoch]
         /\ configEpoch' = [configEpoch EXCEPT ![n] = known]
  BY DEF ReadHeader
<1>4. /\ known \in [Node -> Nat]
      /\ known[n] = configEpoch[n][n]
      /\ known[Old] = FirstEpoch[Old]
  BY <1>1, HeardKeeps DEF MoveInv, PacketEpoch
<1>5. epoch \in Nat /\ epoch >= FirstEpoch[Old]
  BY <1>1 DEF Larger, EpochsOK, MoveInv, EpochInv
<1>6. Yields(n, known[n])
  BY <1>4 DEF MoveInv, EpochInv
<1>7. slots[n] \in {Old, New} /\ (slots[n] = New => Emptied)
  BY DEF MoveInv, MarksInv, OwnersInv, HandedInv
<1>8. stale => Claim(update) /\ PacketEpoch(update)
  <2>1. n = Old => known[n] = FirstEpoch[Old]
    BY <1>4
  <2>2. stale => slots[n] # m.from
    OBVIOUS
  <2> HIDE DEF known, epoch, takes, stale
  <2> QED BY <1>1, <1>4, <1>6, <1>7, <2>1, <2>2 DEF Claim, PacketEpoch
<1>9. Lasts /\ UNCHANGED db /\ slots'[New] = slots[New] /\ MarksInv' /\ HandedInv'
  <2>1. CASE takes
    <3>1. m.from \in {Old, New} /\ (m.from = New => Emptied)
      BY <2>1 DEF Claim
    <3>2. m.from = Old => m.cfg = FirstEpoch[Old]
      BY DEF PacketEpoch
    <3>3. Rebinds(n, m.from, m.cfg, known) /\ Rebind(n, m.from)
      BY <1>2, <2>1
    <3> HIDE DEF known, takes
    <3> QED BY <1>1, <1>2, <1>4, <3>1, <3>2, <3>3, RebindMoves
  <2>2. CASE ~takes
    <3>1. UNCHANGED <<slots, db, migrating, importing>>
      BY <1>2, <2>2
    <3>2. Lasts
      BY <3>1, IdleLasts
    <3> QED BY <3>1, <3>2, Kept DEF MoveInv, tables
  <2> QED BY <2>1, <2>2
<1>10. Collides(n, m, known) => n # Old
  <2> SUFFICES ASSUME Collides(n, m, known), n = Old
               PROVE  FALSE
    OBVIOUS
  <2>1. m.cfg = FirstEpoch[Old] /\ NameRank[m.from] > NameRank[Old]
    BY <1>4 DEF Collides
  <2>2. NameRank[m.from] <= NameRank[Old]
    BY <2>1 DEF PacketEpoch, Yields
  <2> QED BY <1>1, <2>1, <2>2
<1> HIDE DEF known, epoch, takes, stale, update
<1>11. EpochInv'
  <2>1. PICK mine \in Nat : /\ mine = known[n] \/ (n # Old /\ mine > FirstEpoch[Old])
                            /\ \A r \in Node : configEpoch'[n][r] = IF r = n THEN mine ELSE known[r]
                            /\ \A r \in Node \ {n} : configEpoch'[r] = configEpoch[r]
    <3>1. CASE /\ Collides(n, m, known)
               /\ configEpoch' = [configEpoch EXCEPT ![n] = [known EXCEPT ![n] = epoch + 1]]
      <4>1. epoch + 1 \in Nat /\ epoch + 1 > FirstEpoch[Old]
        BY <1>5
      <4> QED BY <1>4, <1>10, <3>1, <4>1 DEF EpochsOK
    <3>2. CASE configEpoch' = [configEpoch EXCEPT ![n] = known]
      BY <1>4, <3>2 DEF EpochsOK
    <3> QED BY <1>3, <3>1, <3>2
  <2>2. \A r \in Node : currentEpoch'[r] >= FirstEpoch[Old]
    BY <1>3, <1>5 DEF EpochsOK, MoveInv, EpochInv
  <2>3. \A r \in Node : configEpoch'[r][Old] = FirstEpoch[Old]
    BY <1>4, <2>1 DEF MoveInv, EpochInv
  <2>4. \A r \in Node : Yields(r, configEpoch'[r][r])
    BY <1>6, <2>1 DEF MoveInv, EpochInv, Yields
  <2>5. configEpoch'[New][New] >= configEpoch[New][New] \/ configEpoch'[New][New] >= FirstEpoch[Old]
    BY <1>4, <2>1 DEF EpochsOK
  <2>6. slots'[New] = New => configEpoch'[New][New] >= FirstEpoch[Old]
    <3> SUFFICES ASSUME slots[New] = New
                 PROVE  configEpoch'[New][New] >= FirstEpoch[Old]
      BY <1>9
    <3>1. CASE n = New
      BY <1>4, <2>1, <3>1 DEF MoveInv, EpochInv
    <3>2. CASE n # New
      BY <2>1, <3>2 DEF MoveInv, EpochInv
    <3> QED BY <3>1, <3>2
  <2> QED BY <2>2, <2>3, <2>4, <2>6 DEF EpochInv
<1>12. ClaimInv' /\ PacketEpochInv'
  <2>1. \A p \in packets' : p \in packets \/ (stale /\ p = update)
    BY <1>2
  <2>2. \A p \in packets' : Claim(p) /\ PacketEpoch(p)
    BY <1>8, <2>1 DEF MoveInv, ClaimInv, PacketEpochInv
  <2> QED BY <1>9, <2>2, EmptiedLasts DEF ClaimInv, Claim, PacketEpochInv, PacketEpoch
<1> QED BY <1>2, <1>9, <1>11, <1>12, PacketFrame DEF MoveInv

\* An UPDATE.
LEMMA UpdateMoves ==
    ASSUME SingleMove, TypeOK, MoveInv, NEW m \in packets, ReadUpdate(m)
    PROVE  Lasts /\ MoveInv' /\ UNCHANGED <<db, transfer, clients>>
<1> USE TypeParts, Ends, EpochNat
<1> DEFINE n     == m.to
           heard == Heard(n, m)
           known == [heard EXCEPT ![m.owner] = Larger(@, m.ownerEpoch)]
<1>1. /\ n \in Node /\ m.from \in Node /\ m.owner \in Node
      /\ m.epoch \in Nat /\ m.cfg \in Nat /\ m.ownerEpoch \in Nat
  BY DEF ReadUpdate, PacketsOK, Packet
<1>2. m.type = "UPDATE" /\ Claim(m) /\ PacketEpoch(m)
  BY DEF ReadUpdate, MoveInv, ClaimInv, PacketEpochInv
<1>3. /\ UNCHANGED <<migrating, importing, transfer, tool, clients>>
      /\ packets' \subseteq packets
      /\ \/ Rebinds(n, m.owner, m.ownerEpoch, known) /\ Rebind(n, m.owner)
         \/ UNCHANGED <<slots, db>>
      /\ currentEpoch' = [currentEpoch EXCEPT ![n] = Larger(@, m.epoch)]
      /\ configEpoch' = [configEpoch EXCEPT ![n] = known]
  BY DEF ReadUpdate
<1>4. /\ heard \in [Node -> Nat]
      /\ heard[n] = configEpoch[n][n]
      /\ heard[Old] = FirstEpoch[Old]
  BY <1>1, <1>2, HeardKeeps DEF MoveInv, Claim, PacketEpoch
<1>5. m.owner # n /\ m.owner \in {Old, New} /\ (m.owner = New => Emptied)
  BY <1>2 DEF Claim
<1>6. m.owner = Old => m.ownerEpoch = FirstEpoch[Old]
  BY <1>2 DEF PacketEpoch
<1> HIDE DEF n, heard
<1>7. /\ known \in [Node -> Nat]
      /\ known[n] = configEpoch[n][n]
      /\ known[Old] = FirstEpoch[Old]
  BY <1>1, <1>4, <1>5, <1>6 DEF Larger
<1> HIDE DEF known
<1>8. Lasts /\ UNCHANGED db /\ slots'[New] = slots[New] /\ MarksInv' /\ HandedInv'
  BY <1>1, <1>3, <1>5, <1>6, <1>7, RebindMoves
<1>9. EpochInv'
  <2>1. /\ \A r \in Node : configEpoch'[r][r] = configEpoch[r][r]
        /\ \A r \in Node : configEpoch'[r][Old] = FirstEpoch[Old]
    BY <1>1, <1>3, <1>7 DEF EpochsOK, MoveInv, EpochInv
  <2>2. \A r \in Node : currentEpoch'[r] >= FirstEpoch[Old]
    BY <1>1, <1>3 DEF EpochsOK, Larger, MoveInv, EpochInv
  <2> QED BY <1>8, <2>1, <2>2 DEF MoveInv, EpochInv
<1>10. ClaimInv' /\ PacketEpochInv'
  BY <1>3, <1>8, Kept DEF MoveInv
<1> QED BY <1>3, <1>8, <1>9, <1>10, PacketFrame DEF MoveInv

\* Heartbeats, at once or late.
LEMMA PacketMoves ==
    ASSUME SingleMove, TypeOK, MoveInv,
           \/ \E n, r \in Node : Heartbeat(r, n) \/ HoldUp(r, n)
           \/ \E m \in packets : ReadHeldUp(m) \/ ReadUpdate(m)
    PROVE  Lasts /\ MoveInv' /\ UNCHANGED <<db, transfer, clients>>
<1> USE TypeParts, Ends
<1>1. ASSUME NEW n \in Node, NEW r \in Node, r # n
      PROVE  /\ Ping(r, n) \in Packet /\ Ping(r, n).type = "PING" /\ Ping(r, n).to = n
             /\ Claim(Ping(r, n)) /\ PacketEpoch(Ping(r, n))
  <2>1. slots[r] \in {Old, New} /\ (slots[r] = New => Emptied)
    BY DEF MoveInv, MarksInv, OwnersInv, HandedInv
  <2>2. Yields(r, configEpoch[r][r]) /\ (r = Old => configEpoch[r][r] = FirstEpoch[Old])
    BY DEF MoveInv, EpochInv
  <2>3. Ping(r, n) \in Packet
    BY DEF EpochsOK, TablesOK, Ping, Packet
  <2> QED BY <1>1, <2>1, <2>2, <2>3 DEF Ping, Claim, PacketEpoch
<1>2. ASSUME NEW n \in Node, NEW r \in Node, Heartbeat(r, n)
      PROVE  Lasts /\ MoveInv' /\ UNCHANGED <<db, transfer, clients>>
  <2>1. r # n /\ ReadHeader(n, Ping(r, n), packets)
    BY <1>2 DEF Heartbeat
  <2> QED BY <1>1, <2>1, HeaderMoves
<1>3. ASSUME NEW n \in Node, NEW r \in Node, HoldUp(r, n)
      PROVE  Lasts /\ MoveInv' /\ UNCHANGED <<db, transfer, clients>>
  <2>1. /\ r # n /\ packets' = packets \cup {Ping(r, n)}
        /\ UNCHANGED <<tables, epochs, db, transfer, tool, clients>>
    BY <1>3 DEF HoldUp
  <2>2. Lasts
    BY <2>1, IdleLasts DEF tables
  <2>3. ClaimInv' /\ PacketEpochInv'
    <3>1. \A p \in packets' : Claim(p) /\ PacketEpoch(p)
      BY <1>1, <2>1 DEF MoveInv, ClaimInv, PacketEpochInv
    <3> QED BY <2>2, <3>1, EmptiedLasts DEF ClaimInv, Claim, PacketEpochInv, PacketEpoch
  <2>4. MarksInv' /\ HandedInv' /\ EpochInv'
    BY <2>1, <2>2, Kept DEF MoveInv, tables, epochs
  <2> QED BY <2>1, <2>2, <2>3, <2>4, PacketFrame DEF MoveInv, tables
<1>4. ASSUME NEW m \in packets, ReadHeldUp(m)
      PROVE  Lasts /\ MoveInv' /\ UNCHANGED <<db, transfer, clients>>
  <2>1. m \in Packet /\ m.to \in Node /\ packets \ {m} \in SUBSET packets
    BY DEF PacketsOK, Packet
  <2>2. m.type = "PING" /\ ReadHeader(m.to, m, packets \ {m})
    BY <1>4 DEF ReadHeldUp
  <2>3. Claim(m) /\ PacketEpoch(m)
    BY DEF MoveInv, ClaimInv, PacketEpochInv
  <2> QED BY <2>1, <2>2, <2>3, HeaderMoves
<1> QED BY <1>2, <1>3, <1>4, UpdateMoves

\* At first the source has every key and everybody knows its epoch.
LEMMA MoveInit ==
    ASSUME SingleMove, SourceKeepsEpoch, TypeOK, Init
    PROVE  MoveInv
<1> USE TypeParts, Ends, EpochNat
<1>1. MarksInv /\ HandedInv
  BY DEF Init, MarksInv, OwnersInv, OpenInv, AskableInv, HandedInv, Old
<1>2. StageInv /\ AskInv /\ ClaimInv /\ PacketEpochInv
  BY DEF Init, NoMigrate, StageInv, AskInv, ClaimInv, PacketEpochInv
<1>3. EpochInv
  <2>1. \A n \in Node : currentEpoch[n] >= FirstEpoch[Old]
    BY DEF Init, Highest
  <2>2. \A n, r \in Node : configEpoch[n][r] = FirstEpoch[r]
    BY DEF Init
  <2>3. \A n \in Node : Yields(n, configEpoch[n][n])
    BY <2>2 DEF SourceKeepsEpoch, Yields
  <2>4. slots[New] # New
    BY DEF Init, Old
  <2> QED BY <2>1, <2>2, <2>3, <2>4 DEF EpochInv
<1>4. DataInv
  <2>1. \A n \in Node, k \in Key : db[n][k] = IF n = Old THEN last[k] ELSE None
    BY DEF Init, Old
  <2>2. migrate.phase = "idle" /\ late = {}
    BY DEF Init, NoMigrate
  <2> QED BY <2>1, <2>2 DEF DataInv, ElsewhereInv, OldDataInv, NewDataInv, CopyInv, LateInv
<1> QED BY <1>1, <1>2, <1>3, <1>4 DEF MoveInv

LEMMA MoveNext ==
    ASSUME SingleMove, TypeOK, MoveInv, [Next]_vars
    PROVE  Lasts /\ MoveInv'
<1>1. CASE UNCHANGED vars
  <2>1. UNCHANGED <<tables, epochs, db, packets, migrate, late, step, left, request, last>>
    BY <1>1 DEF vars, transfer, tool, clients
  <2>2. Lasts
    BY <2>1, IdleLasts DEF tables
  <2> QED BY <2>1, <2>2, Kept, KeptAsking, TypeParts DEF MoveInv, tables
<1>2. CASE Next
  BY <1>2, ClientMoves, MoveMoves, TransferMoves, SetNodeMoves, PacketMoves DEF Next, MoveSlot
<1> QED BY <1>1, <1>2

\* The move goes its way whatever fails: MIGRATE connections, redis-trib, heartbeats.
THEOREM MoveInvHolds ==
    ASSUME SingleMove, SourceKeepsEpoch
    PROVE  Spec => []MoveInv
<1>1. Init /\ TypeOK => MoveInv
  BY MoveInit
<1>2. TypeOK /\ MoveInv /\ [Next]_vars => MoveInv'
  BY MoveNext
<1> QED BY <1>1, <1>2, TypesHold, PTL DEF Spec

\* Once the source asks for the keys that it lacks, it never serves one again: no step
\* gives it a key or the slot back (getNodeByQuery, RESTORE, clusterUpdateSlotsConfigWith).
THEOREM SourceOnlyGives ==
    ASSUME SingleMove, SourceKeepsEpoch
    PROVE  Spec => [][Lasts]_vars
<1>1. TypeOK /\ MoveInv /\ [Next]_vars => [Lasts]_vars
  BY MoveNext
<1> QED BY <1>1, TypesHold, MoveInvHolds, PTL DEF Spec

\* KeysKept: one move from the owner of the slot loses no acknowledged write, for any
\* nodes, keys and clients, whatever MIGRATE fails, redis-trib dies or heartbeats are
\* late (migrateCommand, CLUSTER SETSLOT, clusterUpdateSlotsConfigWith).
THEOREM KeysAreKept ==
    ASSUME SingleMove, SourceKeepsEpoch
    PROVE  Spec => []KeysKept
<1>1. TypeOK /\ MoveInv => KeysKept
  BY TypeParts, Ends DEF MoveInv, DataInv, OldDataInv, NewDataInv, KeysKept
<1> QED BY <1>1, TypesHold, MoveInvHolds, PTL

\* AskedNodeServes: an -ASK of the source names a node that serves the command until
\* the source itself is told the new owner (getNodeByQuery, the order of move_slot).
THEOREM AskedNodesServe ==
    ASSUME SingleMove, SourceKeepsEpoch
    PROVE  Spec => []AskedNodeServes
<1>1. TypeOK /\ MoveInv => AskedNodeServes
  BY TypeParts, Ends DEF MoveInv, MarksInv, OpenInv, AskableInv, AskedNodeServes
<1> QED BY <1>1, TypesHold, MoveInvHolds, PTL

\* Before the source asks, no key has been sent.
StartInv == ~Begun => late = {} /\ \A k \in Key : db[New][k] = None

LEMMA StartNext ==
    ASSUME SingleMove, TypeOK, MoveInv, StartInv, [Next]_vars
    PROVE  StartInv'
<1> USE TypeParts, Ends
<1>1. Lasts
  BY MoveNext
<1>2. SUFFICES ASSUME ~Begun
               PROVE  late' = {} /\ \A k \in Key : db'[New][k] = None
  BY <1>1 DEF StartInv, Lasts
<1>3. late = {} /\ \A k \in Key : db[New][k] = None
  BY <1>2 DEF StartInv
<1>4. ASSUME UNCHANGED <<db, late>>
      PROVE  late' = {} /\ \A k \in Key : db'[New][k] = None
  BY <1>3, <1>4
<1>5. ASSUME NEW c \in Client, Send(c) \/ Redirect(c)
      PROVE  UNCHANGED <<db, late>>
  BY <1>5 DEF Send, Redirect, transfer
<1>6. ASSUME NEW c \in Client, Execute(c)
      PROVE  late' = {} /\ \A k \in Key : db'[New][k] = None
  <2>1. UNCHANGED late
    BY <1>6 DEF Execute, transfer
  <2>2. UNCHANGED db \/ db' = [db EXCEPT ![Old][request[c].cmd.key] = request[c].cmd.value]
    BY <1>2, <1>6, ExecutedAt DEF Execute
  <2>3. \A k \in Key : db'[New][k] = db[New][k]
    BY <2>2 DEF DbOK
  <2> QED BY <1>3, <2>1, <2>3
<1>7. MoveSlot \/ Die \/ UNCHANGED vars => UNCHANGED <<db, late>>
  BY DEF MoveSlot, CheckCluster, SetImporting, SetMigrating, GetKeysInSlot, Migrate, SetNode, Die,
         vars, transfer
<1>8. ~(Restore \/ MigrateReply \/ MigrateError)
  BY <1>2 DEF Restore, MigrateReply, MigrateError, MoveInv, StageInv
<1>9. ~\E m \in late : LateRestore(m)
  BY <1>3
<1>10. (\/ \E n, r \in Node : Heartbeat(r, n) \/ HoldUp(r, n)
        \/ \E m \in packets : ReadHeldUp(m) \/ ReadUpdate(m)) => UNCHANGED <<db, late>>
  BY PacketMoves DEF transfer
<1> QED BY <1>4, <1>5, <1>6, <1>7, <1>8, <1>9, <1>10 DEF Next

\* The target gets no key before the source redirects the clients for those that it
\* lacks: move_slot sends SETSLOT MIGRATING before the first MIGRATE.
THEOREM StartInvHolds ==
    ASSUME SingleMove, SourceKeepsEpoch
    PROVE  Spec => []StartInv
<1>1. TypeOK /\ Init => StartInv
  BY TypeParts, Ends DEF Init, Old, StartInv
<1>2. TypeOK /\ MoveInv /\ StartInv /\ [Next]_vars => StartInv'
  BY StartNext
<1> QED BY <1>1, <1>2, TypesHold, MoveInvHolds, PTL DEF Spec

\* A command that is run, GET too, finds the last value written to its key; only of a
\* key that was deleted since may the target have an old one.
FindsLast(c) ==
    LET v == db[request[c].node][request[c].cmd.key]
        w == last[request[c].cmd.key]
    IN v = w \/ (w = None /\ request[c].node = New)

LEMMA ExecuteFinds ==
    ASSUME SingleMove, TypeOK, MoveInv, StartInv, NEW c \in Client, Execute(c)
    PROVE  FindsLast(c)
<1> USE TypeParts, Ends
<1> DEFINE n == request[c].node
           k == request[c].cmd.key
<1>1. n \in Node /\ k \in Key
  BY RequestType DEF Execute
<1>2. \/ n = Old /\ (~Begun \/ db[Old][k] # None)
      \/ n = New /\ Begun /\ db[Old][k] = None
  BY ExecutedAt
<1> HIDE DEF n, k
<1>3. n = Old => db[n][k] = last[k]
  BY <1>1, <1>2 DEF MoveInv, DataInv, OldDataInv, NewDataInv, StartInv
<1>4. n = New => db[n][k] = last[k] \/ last[k] = None
  BY <1>1, <1>2 DEF MoveInv, DataInv, NewDataInv
<1>5. db[n][k] = last[k] \/ (last[k] = None /\ n = New)
  BY <1>2, <1>3, <1>4
<1> QED BY <1>5 DEF FindsLast, n, k

\* A client reads the last write, whatever MIGRATE fails, redis-trib dies or heartbeats
\* are late (getNodeByQuery with ASKING, migrateCommand, clusterUpdateSlotsConfigWith).
THEOREM ReadsFindTheLastWrite ==
    ASSUME SingleMove, SourceKeepsEpoch
    PROVE  Spec => [][\A c \in Client : Execute(c) => FindsLast(c)]_vars
<1>1. TypeOK /\ MoveInv /\ StartInv => [\A c \in Client : Execute(c) => FindsLast(c)]_vars
  BY ExecuteFinds
<1> QED BY <1>1, TypesHold, MoveInvHolds, StartInvHolds, PTL DEF Spec

------------------------------------------------------------------------------
(* And when no MIGRATE connection fails the nodes act as one table.           *)

\* No key is at both ends but the one MIGRATE has just copied, and a deleted key is
\* nowhere.
OneCopy(k) == /\ last[k] = None => db[New][k] = None
              /\ db[Old][k] # None /\ db[New][k] # None
                    => migrate.phase = "stored" /\ migrate.key = k
StoreInv == /\ late = {} /\ errors = 0
            /\ \A k \in Key : OneCopy(k)

\* A step that changes no key.
LEMMA StoreKept ==
    ASSUME StoreInv, Lasts, UNCHANGED <<db, last, late, errors>>,
           migrate' = migrate \/ migrate.phase # "stored"
    PROVE  StoreInv'
BY DEF StoreInv, OneCopy, Lasts

\* A command.
LEMMA ClientStore ==
    ASSUME SingleMove, TypeOK, MoveInv, StartInv, StoreInv,
           NEW c \in Client, Send(c) \/ Redirect(c) \/ Execute(c)
    PROVE  StoreInv'
<1> USE TypeParts, Ends
<1>1. Lasts
  BY ClientMoves
<1>2. UNCHANGED <<tables, transfer>>
  BY DEF Send, Redirect, Execute
<1>3. CASE UNCHANGED <<db, last>>
  BY <1>1, <1>2, <1>3, StoreKept DEF transfer
<1>4. CASE Execute(c) /\ request[c].cmd.op # "get"
  <2> DEFINE n == request[c].node
             k == request[c].cmd.key
             v == request[c].cmd.value
  <2>1. n \in Node /\ k \in Key /\ v \in Value \cup {None} /\ ~Blocked(n)
    BY <1>4, RequestType DEF Execute
  <2>2. db' = [db EXCEPT ![n][k] = v] /\ last' = [last EXCEPT ![k] = v]
    BY <1>4 DEF Execute
  <2>3. \/ n = Old /\ (~Begun \/ db[Old][k] # None)
        \/ n = New /\ Begun /\ db[Old][k] = None
    BY <1>4, ExecutedAt
  <2> HIDE DEF n, k, v
  <2>4. /\ \A r \in Node, j \in Key : db'[r][j] = IF r = n /\ j = k THEN v ELSE db[r][j]
        /\ \A j \in Key : last'[j] = IF j = k THEN v ELSE last[j]
    BY <2>1, <2>2 DEF DbOK, ClientsOK
  <2>5. UNCHANGED <<migrate, late, errors>>
    BY <1>2 DEF transfer
  <2>6. n = Old => db[New][k] = None
    BY <2>1, <2>3 DEF StartInv, StoreInv, OneCopy, Blocked
  <2>7. ASSUME NEW j \in Key
        PROVE  OneCopy(j)'
    BY <2>1, <2>3, <2>4, <2>5, <2>6 DEF StoreInv, OneCopy
  <2> QED BY <2>5, <2>7 DEF StoreInv
<1> QED BY <1>3, <1>4 DEF Send, Redirect, Execute

\* A key goes over: a copy, then no original.
LEMMA TransferStore ==
    ASSUME SingleMove, TypeOK, MoveInv, StoreInv, MaxErrors = 0,
           Restore \/ MigrateReply \/ MigrateError \/ (\E m \in late : LateRestore(m))
    PROVE  StoreInv'
<1> USE TypeParts, Ends
<1>1. Lasts
  BY TransferMoves
<1>2. Restore \/ MigrateReply
  BY DEF StoreInv, MigrateError
<1>3. UNCHANGED <<tables, last, late, errors>> /\ (Begun' <=> Begun)
  BY <1>2 DEF Restore, MigrateReply, clients, tables, Begun
<1>4. /\ migrate.phase # "idle" /\ migrate.key \in Key /\ Begun
      /\ db[Old][migrate.key] # None /\ last[migrate.key] # None
  <2>1. migrate.phase # "idle"
    BY <1>2 DEF Restore, MigrateReply
  <2>2. migrate.key \in Key /\ db[Old][migrate.key] # None
    BY <2>1, WaitTypes, SlotsAssumption
  <2> QED BY <2>1, <2>2 DEF MoveInv, StageInv, DataInv, OldDataInv
<1>5. CASE migrate.phase # "stored" /\ UNCHANGED db
  BY <1>1, <1>3, <1>5, StoreKept
<1>6. CASE /\ migrate.phase = "sent"
           /\ db' = [db EXCEPT ![New][migrate.key] = db[Old][migrate.key]]
           /\ migrate' = [migrate EXCEPT !.phase = "stored"]
  <2>1. \A r \in Node, j \in Key :
            db'[r][j] = IF r = New /\ j = migrate.key THEN db[Old][j] ELSE db[r][j]
    BY <1>4, <1>6 DEF DbOK
  <2>2. migrate'.phase = "stored" /\ migrate'.key = migrate.key
    BY <1>6 DEF TransferOK
  <2>3. ASSUME NEW j \in Key
        PROVE  OneCopy(j)'
    BY <1>3, <1>4, <1>6, <2>1, <2>2 DEF StoreInv, OneCopy
  <2> QED BY <1>3, <2>3 DEF StoreInv
<1>7. CASE /\ migrate.phase = "stored"
           /\ db' = [db EXCEPT ![Old][migrate.key] = None]
  <2>1. \A r \in Node, j \in Key :
            db'[r][j] = IF r = Old /\ j = migrate.key THEN None ELSE db[r][j]
    BY <1>4, <1>7 DEF DbOK
  <2>2. ASSUME NEW j \in Key
        PROVE  OneCopy(j)'
    BY <1>3, <1>4, <2>1, <2>2 DEF StoreInv, OneCopy
  <2> QED BY <1>3, <2>2 DEF StoreInv
<1> QED BY <1>2, <1>5, <1>6, <1>7 DEF Restore, MigrateReply

\* The rest: redis-trib and packets change no key.
LEMMA ToolStore ==
    ASSUME SingleMove, TypeOK, MoveInv, StoreInv,
           \/ CheckCluster \/ SetImporting \/ SetMigrating \/ GetKeysInSlot
           \/ (\E k \in Key : Migrate(k)) \/ Die
           \/ \E n \in Node : SetNode(n)
           \/ \E n, r \in Node : Heartbeat(r, n) \/ HoldUp(r, n)
           \/ \E m \in packets : ReadHeldUp(m) \/ ReadUpdate(m)
    PROVE  StoreInv'
<1> USE TypeParts, Ends
<1>1. Lasts
  BY MoveMoves, SetNodeMoves, PacketMoves
<1>2. CASE \/ CheckCluster \/ SetImporting \/ SetMigrating \/ GetKeysInSlot \/ Die
           \/ \E n \in Node : SetNode(n)
  <2>1. UNCHANGED <<db, transfer, clients>>
    BY <1>2 DEF CheckCluster, SetImporting, SetMigrating, GetKeysInSlot, Die, SetNode
  <2> QED BY <1>1, <2>1, StoreKept DEF transfer, clients
<1>3. ASSUME NEW k \in Key, Migrate(k)
      PROVE  StoreInv'
  <2>1. UNCHANGED <<db, late, errors, last>> /\ migrate.phase = "idle"
    BY <1>3 DEF Migrate, Blocked, clients
  <2> QED BY <1>1, <2>1, StoreKept
<1>4. CASE \/ \E n, r \in Node : Heartbeat(r, n) \/ HoldUp(r, n)
           \/ \E m \in packets : ReadHeldUp(m) \/ ReadUpdate(m)
  <2>1. UNCHANGED <<db, transfer, clients>>
    BY <1>4, PacketMoves
  <2> QED BY <1>1, <2>1, StoreKept DEF transfer, clients
<1> QED BY <1>2, <1>3, <1>4

\* Whatever a node has of a key is its last value, and some node has it.
LEMMA CopiesAreLast ==
    ASSUME SingleMove, TypeOK, MoveInv, StoreInv, NEW k \in Key
    PROVE  Copies(k) = {last[k]} \ {None}
<1> USE TypeParts, Ends
<1>1. \A n \in Node : db[n][k] \in {None, last[k]}
  <2>1. \A n \in Node \ {Old, New} : db[n][k] = None
    BY DEF MoveInv, DataInv, ElsewhereInv
  <2>2. db[Old][k] \in {None, last[k]}
    BY DEF MoveInv, DataInv, OldDataInv
  <2>3. db[New][k] \in {None, last[k]}
    <3>1. CASE db[Old][k] = None
      BY <3>1 DEF MoveInv, DataInv, NewDataInv, StoreInv, OneCopy
    <3>2. CASE db[Old][k] # None
      BY <2>2, <3>2 DEF MoveInv, DataInv, CopyInv, StoreInv, OneCopy
    <3> QED BY <3>1, <3>2
  <2> QED BY <2>1, <2>2, <2>3
<1>2. last[k] # None => \E n \in Node : db[n][k] = last[k]
  BY DEF MoveInv, DataInv, OldDataInv, NewDataInv
<1> QED BY <1>1, <1>2 DEF Copies

\* With no MIGRATE connection failing no key is at both ends, but the one that was just
\* stored while the source waits, and a deleted key is at neither (migrateCommand).
THEOREM StoreInvHolds ==
    ASSUME SingleMove, SourceKeepsEpoch, MaxErrors = 0
    PROVE  Spec => []StoreInv
<1>1. TypeOK /\ Init => StoreInv
  <2> SUFFICES ASSUME TypeOK, Init
               PROVE  StoreInv
    OBVIOUS
  <2>1. \A k \in Key : db[New][k] = None
    BY TypeParts, Ends DEF Init, Old
  <2> QED BY <2>1 DEF Init, StoreInv, OneCopy
<1>2. TypeOK /\ MoveInv /\ StartInv /\ StoreInv /\ [Next]_vars => StoreInv'
  <2> SUFFICES ASSUME TypeOK, MoveInv, StartInv, StoreInv, [Next]_vars
               PROVE  StoreInv'
    OBVIOUS
  <2>1. CASE UNCHANGED vars
    <3>1. Lasts
      BY MoveNext
    <3> QED BY <2>1, <3>1, StoreKept DEF vars, transfer, clients
  <2>2. CASE Next
    BY <2>2, ClientStore, TransferStore, ToolStore DEF Next, MoveSlot
  <2> QED BY <2>1, <2>2
<1> QED BY <1>1, <1>2, TypesHold, MoveInvHolds, StartInvHolds, PTL DEF Spec

\* What a GET finds is the last value of the key, also of a deleted one.
LEMMA ServedIsLast ==
    ASSUME SingleMove, TypeOK, MoveInv, StartInv, StoreInv, NEW c \in Client, Execute(c)
    PROVE  db[request[c].node][request[c].cmd.key] = last[request[c].cmd.key]
<1>1. request[c].cmd.key \in Key
  BY RequestType, TypeParts DEF Execute
<1>2. FindsLast(c)
  BY ExecuteFinds
<1> QED BY <1>1, <1>2 DEF FindsLast, StoreInv, OneCopy

\* What a client waits for changes with its own commands only.
LEMMA WaitingType ==
    ASSUME ClientsOK, NEW c \in Client
    PROVE  /\ Waiting[c] = IF request[c] = None THEN None ELSE request[c].cmd
           /\ request[c] # None => Waiting[c] \in Command /\ Waiting[c] # None
BY RequestType, SlotsAssumption DEF Waiting, Request

\* Redis-trib, MIGRATE and the packets leave the clients alone, and a redirected
\* client waits for the same command.
LEMMA OnlyCommands ==
    ASSUME TablesOK, ClientsOK, [Next]_vars
    PROVE  \/ UNCHANGED <<last, Waiting, reply>>
           \/ \E c \in Client : Send(c) \/ Execute(c)
<1>1. ASSUME NEW c \in Client, Redirect(c)
      PROVE  UNCHANGED <<last, Waiting, reply>>
  <2>1. UNCHANGED <<last, reply>> /\ request[c] # None
    BY <1>1 DEF Redirect
  <2>2. \A d \in Client \ {c} : request'[d] = request[d]
    BY <1>1 DEF Redirect, ClientsOK
  <2>3. request'[c] \in Request /\ request'[c].cmd = request[c].cmd
    <3> DEFINE route == RouteOf(c)
    <3>1. request' = [request EXCEPT ![c].node = route.node, ![c].asking = route.ask]
      BY <1>1 DEF Redirect
    <3>2. request[c] \in Request
      BY <2>1, RequestType
    <3> HIDE DEF route
    <3>3. request'[c] = [request[c] EXCEPT !.node = route.node, !.asking = route.ask]
      BY <3>1 DEF ClientsOK
    <3>4. route \in [node : Node, ask : BOOLEAN]
      BY <2>1, RequestType, RouteType DEF route, RouteOf
    <3> QED BY <3>2, <3>3, <3>4 DEF Request
  <2> QED BY <2>1, <2>2, <2>3, SlotsAssumption DEF Waiting
<1>2. MoveSlot \/ Die => UNCHANGED clients
  BY DEF MoveSlot, CheckCluster, SetImporting, SetMigrating, GetKeysInSlot, Migrate, SetNode, Die
<1>3. Restore \/ MigrateReply \/ MigrateError \/ (\E m \in late : LateRestore(m))
          => UNCHANGED clients
  BY DEF Restore, MigrateReply, MigrateError, LateRestore
<1>4. ASSUME NEW n \in Node, NEW r \in Node, Heartbeat(r, n) \/ HoldUp(r, n)
      PROVE  UNCHANGED clients
  BY <1>4 DEF Heartbeat, HoldUp, ReadHeader
<1>5. ASSUME NEW m \in packets, ReadHeldUp(m) \/ ReadUpdate(m)
      PROVE  UNCHANGED clients
  BY <1>5 DEF ReadHeldUp, ReadUpdate, ReadHeader
<1>6. UNCHANGED clients => UNCHANGED <<last, Waiting, reply>>
  BY DEF clients, Waiting
<1>7. UNCHANGED vars => UNCHANGED clients
  BY DEF vars
<1> QED BY <1>1, <1>2, <1>3, <1>4, <1>5, <1>6, <1>7 DEF Next

\* A command is sent.
LEMMA SendIsAbstract ==
    ASSUME ClientsOK, NEW c \in Client, Send(c)
    PROVE  Store!Send(c)
<1>1. PICK cmd \in Command, n \in Node :
          request' = [request EXCEPT ![c] = [cmd |-> cmd, node |-> n, asking |-> FALSE]]
  BY DEF Send
<1>2. request[c] = None /\ reply' = [reply EXCEPT ![c] = None] /\ UNCHANGED last
  BY DEF Send
<1>3. [cmd |-> cmd, node |-> n, asking |-> FALSE] # None
  <2>1. [cmd |-> cmd, node |-> n, asking |-> FALSE] \in Request
    BY DEF Request
  <2> QED BY <2>1, SlotsAssumption
<1>4. Waiting' = [Waiting EXCEPT ![c] = cmd]
  BY <1>1, <1>3 DEF Waiting, ClientsOK
<1>5. cmd \in Store!Command
  BY SlotsAssumption DEF Command, Store!Command
<1>6. Waiting[c] = None
  BY <1>2 DEF Waiting
<1> QED BY <1>2, <1>4, <1>5, <1>6 DEF Store!Send

\* A command is run: it takes effect once and finds what the last one left.
LEMMA ExecuteIsAbstract ==
    ASSUME SingleMove, TypeOK, MoveInv, StartInv, StoreInv, NEW c \in Client, Execute(c)
    PROVE  Store!Get(c) \/ Store!Put(c)
<1> DEFINE k == request[c].cmd.key
           v == request[c].cmd.value
           n == request[c].node
<1>1. request[c] # None /\ request' = [request EXCEPT ![c] = None]
  BY DEF Execute
<1>2. Waiting[c] = request[c].cmd /\ Waiting[c] # None
  BY <1>1, WaitingType, TypeParts
<1>3. Waiting' = [Waiting EXCEPT ![c] = None]
  BY <1>1, TypeParts DEF Waiting, ClientsOK
<1>4. \/ request[c].cmd.op = "get" /\ reply' = [reply EXCEPT ![c] = db[n][k]] /\ UNCHANGED last
      \/ request[c].cmd.op # "get" /\ last' = [last EXCEPT ![k] = v] /\ UNCHANGED reply
  BY DEF Execute
<1>5. db[n][k] = last[k]
  BY ServedIsLast
<1>6. CASE /\ request[c].cmd.op = "get"
           /\ reply' = [reply EXCEPT ![c] = db[n][k]] /\ UNCHANGED last
  BY <1>2, <1>3, <1>5, <1>6 DEF Store!Get
<1>7. CASE /\ request[c].cmd.op # "get"
           /\ last' = [last EXCEPT ![k] = v] /\ UNCHANGED reply
  BY <1>2, <1>3, <1>7 DEF Store!Put
<1> QED BY <1>4, <1>6, <1>7

\* ActsAsOneStore: with no MIGRATE connection failing, one move from the owner of the
\* slot is not seen by the clients, for any nodes, keys, clients and late heartbeats,
\* also when redis-trib dies: the nodes implement KeyStore, a single table on which each
\* command of a client takes effect once, and hold nothing else (getNodeByQuery,
\* processCommand, migrateCommand, CLUSTER SETSLOT, clusterUpdateSlotsConfigWith).
THEOREM MoveImplementsStore ==
    ASSUME SingleMove, SourceKeepsEpoch, MaxErrors = 0
    PROVE  Spec => ActsAsOneStore
<1>1. TypeOK /\ MoveInv /\ StoreInv => \A k \in Key : Copies(k) = {last[k]} \ {None}
  BY CopiesAreLast
<1>2. Init => Store!Init
  BY DEF Init, Waiting, Store!Init
<1>3. TypeOK /\ MoveInv /\ StartInv /\ StoreInv /\ [Next]_vars
      => [Store!Next]_<<last, Waiting, reply>>
  <2> SUFFICES ASSUME TypeOK, MoveInv, StartInv, StoreInv, [Next]_vars
               PROVE  [Store!Next]_<<last, Waiting, reply>>
    OBVIOUS
  <2>1. CASE UNCHANGED <<last, Waiting, reply>>
    BY <2>1
  <2>2. ASSUME NEW c \in Client, Send(c) \/ Execute(c)
        PROVE  Store!Next
    BY <2>2, SendIsAbstract, ExecuteIsAbstract, TypeParts DEF Store!Next
  <2> QED BY <2>1, <2>2, OnlyCommands, TypeParts
<1> QED BY <1>1, <1>2, <1>3, TypesHold, MoveInvHolds, StartInvHolds, StoreInvHolds, PTL
        DEF Spec, ActsAsOneStore, Store!Spec
=============================================================================
