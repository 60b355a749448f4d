------------------------ MODULE ClusterElectionProofs ------------------------
(***************************************************************************)
(* TypeOK and TwoWinnersNeedAGap hold of ClusterElection for every cluster *)
(* with finitely many shards.                                              *)
(***************************************************************************)
EXTENDS ClusterElection, FiniteSetTheorems, TLAPS

------------------------------------------------------------------------------
(* Types. *)

\* What a node reads in a packet's header stays a natural number: HeardEpoch and
\* HeardConfigEpoch, the first lines of clusterProcessPacket.
LEMMA HeardTypes ==
    ASSUME TypeOK, NEW n \in Node, NEW hdr,
           hdr.from \in Node, hdr.epoch \in Nat, hdr.cfg \in Nat
    PROVE  /\ HeardEpoch(n, hdr) \in Nat
           /\ HeardEpoch(n, hdr) >= currentEpoch[n]
           /\ HeardConfigEpoch(n, hdr) \in [Node -> Nat]
<1>1. currentEpoch[n] \in Nat /\ configEpoch[n] \in [Node -> Nat]
  BY DEF TypeOK
<1> QED BY <1>1 DEF HeardEpoch, HeardConfigEpoch, Larger

\* The header a node sends has the types clusterBuildMessageHdr gives it.
LEMMA HeaderTypes ==
    ASSUME TypeOK, NEW n \in Node
    PROVE  /\ Announced(n) \in Node
           /\ Header(n).from = n /\ Header(n).epoch \in Nat /\ Header(n).cfg \in Nat
<1>1. Announced(n) \in Node
  BY DEF TypeOK, Announced, IsMaster
<1>2. currentEpoch[n] \in Nat /\ configEpoch[n][Announced(n)] \in Nat
  BY <1>1 DEF TypeOK
<1> QED BY <1>1, <1>2 DEF Header

\* The messages of the cluster bus have a kind that tells their fields.
LEMMA MessageTypes ==
    ASSUME TypeOK, NEW m \in msgs
    PROVE  /\ m.from \in Node /\ m.to \in Node /\ m.epoch \in Nat /\ m.cfg \in Nat
           /\ m.type = "ACK" => m \in Ack
           /\ m.type = "UPDATE" => m.owner \in Node /\ m.ownerEpoch \in Nat
BY DEF TypeOK, Request, Ack, Update

\* nodes.conf is written from well-typed state.
LEMMA PersistTypes ==
    ASSUME TypeOK, NEW n \in Node,
           currentEpoch' \in [Node -> Nat], lastVoteEpoch' \in [Node -> Nat],
           configEpoch' \in [Node -> [Node -> Nat]],
           slots' \in [Node -> [Shard -> Node \cup {None}]],
           slaveof' \in [Node -> Node \cup {None}],
           Persist(n) \/ PersistIfDirty(n) \/ UNCHANGED disk
    PROVE  disk' \in [Node -> Config]
<1>1. disk \in [Node -> Config]
  BY DEF TypeOK
<1>2. [currentEpoch |-> currentEpoch'[n], lastVoteEpoch |-> lastVoteEpoch'[n],
       configEpoch |-> configEpoch'[n], slots |-> slots'[n],
       slaveof |-> slaveof'[n]] \in Config
  BY DEF Config
<1> QED BY <1>1, <1>2 DEF Persist, PersistIfDirty

\* The cluster at rest, as the nodes know it after the join, is well typed.
LEMMA InitTypes == Init => TypeOK
<1> SUFFICES ASSUME NEW highest \in {FirstEpoch[s] : s \in Shard}, InitAt(highest)
             PROVE  TypeOK
  BY DEF Init
<1>1. highest \in Nat
  BY ConstantsAssumption
<1>2. ASSUME NEW n \in Node
      PROVE  /\ FirstConfig(n) \in [Node -> Nat]
             /\ FirstSlaveof(n) \in Node \cup {None}
  BY ConstantsAssumption DEF FirstConfig, FirstSlaveof
<1>3. FirstMaster \in [Shard -> Node \cup {None}]
  BY ConstantsAssumption
<1>4. disk \in [Node -> Config]
  BY <1>1, <1>2, <1>3 DEF InitAt, Config
<1> QED BY <1>1, <1>2, <1>3, <1>4 DEF InitAt, TypeOK

\* Every action keeps the types.
LEMMA NextTypes == TypeOK /\ [Next]_vars => TypeOK'
<1> SUFFICES ASSUME TypeOK, [Next]_vars
             PROVE  TypeOK'
  OBVIOUS
<1> USE DEF nodeVars, authVars, history
<1>1. ASSUME NEW c \in Node, ScheduleElection(c)
      PROVE  TypeOK'
  BY <1>1 DEF ScheduleElection, TypeOK
<1>2. ASSUME NEW c \in Node, RequestVotes(c)
      PROVE  TypeOK'
  <2>1. currentEpoch[c] \in Nat /\ slaveof[c] \in Node /\ manual[c] \in BOOLEAN
    BY <1>2 DEF RequestVotes, CanFailover, IsMaster, TypeOK
  <2>2. currentEpoch' \in [Node -> Nat] /\ failover_auth_epoch' \in [Node -> Nat]
    BY <1>2, <2>1 DEF RequestVotes, TypeOK
  <2>3. {[type |-> "REQUEST", from |-> c, to |-> n, epoch |-> currentEpoch[c] + 1,
          cfg |-> configEpoch[c][slaveof[c]], force |-> manual[c]] :
            n \in MastersOf(c)} \subseteq Request
    <3>1. configEpoch[c][slaveof[c]] \in Nat
      BY <2>1 DEF TypeOK
    <3>2. ASSUME NEW n \in Node
          PROVE  [type |-> "REQUEST", from |-> c, to |-> n,
                  epoch |-> currentEpoch[c] + 1, cfg |-> configEpoch[c][slaveof[c]],
                  force |-> manual[c]] \in Request
      BY <2>1, <3>1 DEF Request
    <3> QED BY <3>2 DEF MastersOf
  <2>4. msgs' \in SUBSET (Request \cup Ack \cup Update)
    BY <1>2, <2>3 DEF RequestVotes, TypeOK
  <2>5. disk' \in [Node -> Config]
    BY <1>2, <2>2, PersistTypes DEF RequestVotes, TypeOK
  <2>6. asked' \in SUBSET (Node \X Nat)
    BY <1>2, <2>1 DEF RequestVotes, TypeOK
  <2>7. auth' \in [Node -> {"idle", "waiting", "asked"}]
    BY <1>2 DEF RequestVotes, TypeOK
  <2> QED BY <1>2, <2>2, <2>4, <2>5, <2>6, <2>7 DEF RequestVotes, TypeOK
<1>3. ASSUME NEW c \in Node, Promote(c)
      PROVE  TypeOK'
  <2>1. /\ slaveof' \in [Node -> Node \cup {None}]
        /\ slots' \in [Node -> [Shard -> Node \cup {None}]]
        /\ configEpoch' \in [Node -> [Node -> Nat]]
        /\ manual' \in [Node -> BOOLEAN]
    BY <1>3, ConstantsAssumption DEF Promote, TypeOK
  <2>2. wins' \in SUBSET Win
    <3>1. Size(c) \in Nat /\ NeededQuorum(c) \in Nat
      <4>1. IsFiniteSet({s \in Shard : slots[c][s] # None})
        BY ConstantsAssumption, FS_Subset
      <4>2. Size(c) \in Nat
        BY <4>1, FS_CardinalityType DEF Size
      <4> QED BY <4>2 DEF NeededQuorum
    <3> QED BY <1>3, <3>1 DEF Promote, TypeOK, Win
  <2>3. disk' \in [Node -> Config]
    BY <1>3, <2>1, PersistTypes DEF Promote, TypeOK
  <2> QED BY <1>3, <2>1, <2>2, <2>3 DEF Promote, TypeOK
<1>4. ASSUME NEW c \in Node, ElectionTimeout(c)
      PROVE  TypeOK'
  BY <1>4 DEF ElectionTimeout, TypeOK
<1>5. ASSUME NEW c \in Node, ManualFailover(c) \/ ManualTimeout(c)
      PROVE  TypeOK'
  BY <1>5 DEF ManualFailover, ManualTimeout, TypeOK
<1>6. ASSUME NEW r \in Node, FlagFail(r) \/ ClearFail(r)
      PROVE  TypeOK'
  BY <1>6 DEF FlagFail, ClearFail, TypeOK
<1>7. ASSUME NEW n \in Node, SaveConfig(n)
      PROVE  TypeOK'
  <2>1. disk' \in [Node -> Config]
    BY <1>7, PersistTypes DEF SaveConfig, TypeOK
  <2> QED BY <1>7, <2>1 DEF SaveConfig, TypeOK
<1>8. ASSUME NEW n \in Node, Restart(n)
      PROVE  TypeOK'
  <2>1. disk[n] \in Config
    BY DEF TypeOK
  <2>2. currentEpoch' \in [Node -> Nat]
    BY <1>8, <2>1 DEF Restart, TypeOK, Config
  <2>3. /\ lastVoteEpoch' \in [Node -> Nat]
        /\ configEpoch' \in [Node -> [Node -> Nat]]
        /\ slots' \in [Node -> [Shard -> Node \cup {None}]]
        /\ slaveof' \in [Node -> Node \cup {None}]
    BY <1>8, <2>1 DEF Restart, TypeOK, Config
  <2>4. /\ votedRecently' \in [Node -> SUBSET Node]
        /\ auth' \in [Node -> {"idle", "waiting", "asked"}]
        /\ failover_auth_epoch' \in [Node -> Nat]
        /\ failover_auth_count' \in [Node -> Nat]
        /\ manual' \in [Node -> BOOLEAN]
        /\ acks' \in [Node -> SUBSET Ack]
        /\ restarts' \in Nat
    BY <1>8 DEF Restart, TypeOK
  <2>5. forgotten' \in SUBSET Vote /\ msgs' \in SUBSET (Request \cup Ack \cup Update)
    BY <1>8 DEF Restart, TypeOK
  <2> QED BY <1>8, <2>2, <2>3, <2>4, <2>5 DEF Restart, TypeOK
<1>9. ASSUME NEW m \in msgs, HandleRequest(m), GrantVote(m) \/ DenyVote(m)
      PROVE  TypeOK'
  <2>1. m.from \in Node /\ m.to \in Node /\ m.epoch \in Nat /\ m.cfg \in Nat
    BY MessageTypes
  <2>2. /\ currentEpoch' \in [Node -> Nat]
        /\ configEpoch' \in [Node -> [Node -> Nat]]
    BY <1>9, <2>1, HeardTypes DEF HandleRequest, TypeOK
  <2>3. CASE GrantVote(m)
    <3>1. /\ lastVoteEpoch' \in [Node -> Nat]
          /\ votedRecently' \in [Node -> SUBSET Node]
      <4>1. slots[m.to][ShardOf[m.from]] \in Node
        <5>1. slots[m.to][ShardOf[m.from]] \in Node \cup {None}
          BY <2>1, ConstantsAssumption DEF TypeOK
        <5>2. slots[m.to][ShardOf[m.from]] # None
          BY <2>3, Zenon DEF GrantVote, Votable
        <5> QED BY <5>1, <5>2
      <4> QED BY <2>1, <2>3, <4>1 DEF GrantVote, TypeOK
    <3>2. votes' \in SUBSET Vote
      BY <2>1, <2>3 DEF GrantVote, TypeOK, Vote
    <3>3. msgs' \in SUBSET (Request \cup Ack \cup Update)
      BY <2>1, <2>3 DEF GrantVote, TypeOK, Sent, Ack
    <3>4. disk' \in [Node -> Config]
      <4>1. PersistIfDirty(m.to)
        BY <2>3 DEF GrantVote
      <4>2. /\ slots' \in [Node -> [Shard -> Node \cup {None}]]
            /\ slaveof' \in [Node -> Node \cup {None}]
        BY <1>9 DEF HandleRequest, TypeOK
      <4> QED BY <2>1, <2>2, <3>1, <4>1, <4>2, PersistTypes
    <3> QED BY <1>9, <2>2, <3>1, <3>2, <3>3, <3>4 DEF HandleRequest, TypeOK
  <2>4. CASE DenyVote(m)
    <3>1. disk' \in [Node -> Config]
      <4>1. PersistIfDirty(m.to) /\ lastVoteEpoch' \in [Node -> Nat]
        BY <2>4 DEF DenyVote, TypeOK
      <4>2. /\ slots' \in [Node -> [Shard -> Node \cup {None}]]
            /\ slaveof' \in [Node -> Node \cup {None}]
        BY <1>9 DEF HandleRequest, TypeOK
      <4> QED BY <2>1, <2>2, <4>1, <4>2, PersistTypes
    <3> QED BY <1>9, <2>2, <2>4, <3>1 DEF DenyVote, HandleRequest, TypeOK
  <2> QED BY <1>9, <2>3, <2>4
<1>10. ASSUME NEW m \in msgs, HandleAck(m)
       PROVE  TypeOK'
  <2>1. /\ m.from \in Node /\ m.to \in Node /\ m.epoch \in Nat /\ m.cfg \in Nat
        /\ m \in Ack
    BY <1>10, MessageTypes DEF HandleAck
  <2>2. /\ currentEpoch' \in [Node -> Nat]
        /\ configEpoch' \in [Node -> [Node -> Nat]]
    BY <1>10, <2>1, HeardTypes DEF HandleAck, TypeOK
  <2>3. /\ failover_auth_count' \in [Node -> Nat]
        /\ acks' \in [Node -> SUBSET Ack]
    BY <1>10, <2>1 DEF HandleAck, TypeOK
  <2>4. disk' \in [Node -> Config]
    BY <1>10, <2>1, <2>2, PersistTypes DEF HandleAck, TypeOK
  <2> QED BY <1>10, <2>2, <2>3, <2>4 DEF HandleAck, TypeOK
<1>11. ASSUME NEW m \in msgs, HandleUpdate(m)
       PROVE  TypeOK'
  <2>1. /\ m.from \in Node /\ m.to \in Node /\ m.epoch \in Nat /\ m.cfg \in Nat
        /\ m.owner \in Node /\ m.ownerEpoch \in Nat
    BY <1>11, MessageTypes DEF HandleUpdate
  <2>2. /\ HeardEpoch(m.to, m) \in Nat
        /\ HeardConfigEpoch(m.to, m) \in [Node -> Nat]
    BY <2>1, HeardTypes
  <2>3. /\ currentEpoch' \in [Node -> Nat]
        /\ configEpoch' \in [Node -> [Node -> Nat]]
    BY <1>11, <2>1, <2>2 DEF HandleUpdate, TypeOK, Larger
  <2>4. /\ slots' \in [Node -> [Shard -> Node \cup {None}]]
        /\ slaveof' \in [Node -> Node \cup {None}]
        /\ manual' \in [Node -> BOOLEAN]
    <3>1. PICK taken, moves, named \in BOOLEAN :
            /\ slots' = [slots EXCEPT ![m.to][ShardOf[m.owner]] =
                           IF taken THEN m.owner ELSE @]
            /\ slaveof' = [slaveof EXCEPT ![m.to] = CASE moves -> m.owner
                                                      [] named -> None
                                                      [] OTHER -> @]
            /\ manual' = [manual EXCEPT ![m.to] = IF moves THEN FALSE ELSE @]
      BY <1>11, Zenon DEF HandleUpdate
    <3>2. slots' \in [Node -> [Shard -> Node \cup {None}]]
      <4>1. /\ slots[m.to] \in [Shard -> Node \cup {None}]
            /\ ShardOf[m.owner] \in Shard
        BY <2>1, ConstantsAssumption DEF TypeOK
      <4>2. slots'[m.to] \in [Shard -> Node \cup {None}]
        BY <2>1, <3>1, <4>1 DEF TypeOK
      <4> QED BY <2>1, <3>1, <4>2 DEF TypeOK
    <3>3. slaveof' \in [Node -> Node \cup {None}] /\ manual' \in [Node -> BOOLEAN]
      BY <2>1, <3>1 DEF TypeOK
    <3> QED BY <3>2, <3>3
  <2>5. disk' \in [Node -> Config]
    BY <1>11, <2>1, <2>3, <2>4, PersistTypes DEF HandleUpdate, TypeOK
  <2> QED BY <1>11, <2>3, <2>4, <2>5 DEF HandleUpdate, TypeOK
<1>12. ASSUME NEW v \in Node, NEW r \in Node, VoteDelayOver(v, r)
       PROVE  TypeOK'
  BY <1>12 DEF VoteDelayOver, TypeOK
<1>13. ASSUME NEW n \in Node, NEW r \in Node, Heartbeat(r, n)
       PROVE  TypeOK'
  <2> DEFINE known == HeardConfigEpoch(n, Header(r))
             epoch == HeardEpoch(n, Header(r))
  <2>1. known \in [Node -> Nat] /\ epoch \in Nat
    BY HeaderTypes, HeardTypes
  <2>2. HeardSlots(r, n) \in Node \cup {None}
    BY ConstantsAssumption DEF HeardSlots, TypeOK
  <2>3. /\ slots' \in [Node -> [Shard -> Node \cup {None}]]
        /\ slaveof' \in [Node -> Node \cup {None}]
        /\ manual' \in [Node -> BOOLEAN]
        /\ fail' \in SUBSET Node
    BY <1>13, <2>2 DEF Heartbeat, TypeOK
  <2>4. /\ currentEpoch' \in [Node -> Nat]
        /\ configEpoch' \in [Node -> [Node -> Nat]]
    <3>1. RaiseEpochs(r, n)
      BY <1>13 DEF Heartbeat
    <3>2. PICK e, k : /\ e \in {epoch, epoch + 1}
                      /\ k \in {known, [known EXCEPT ![n] = epoch + 1]}
                      /\ currentEpoch' = [currentEpoch EXCEPT ![n] = e]
                      /\ configEpoch' = [configEpoch EXCEPT ![n] = k]
      BY <3>1 DEF RaiseEpochs
    <3>3. e \in Nat /\ k \in [Node -> Nat]
      BY <2>1, <3>2
    <3> QED BY <3>2, <3>3 DEF TypeOK
  <2>5. msgs' \in SUBSET (Request \cup Ack \cup Update)
    <3>1. Announced(n) \in Node
      BY HeaderTypes
    <3>2. slots[n][ShardOf[r]] \in Node \cup {None}
      BY ConstantsAssumption DEF TypeOK
    <3>3. CASE slots[n][ShardOf[r]] = None
      BY <1>13, <3>3 DEF Heartbeat, TypeOK
    <3>4. CASE slots[n][ShardOf[r]] # None
      <4>1. [type |-> "UPDATE", from |-> n, to |-> r, epoch |-> epoch,
             cfg |-> known[Announced(n)], owner |-> slots[n][ShardOf[r]],
             ownerEpoch |-> known[slots[n][ShardOf[r]]]] \in Update
        BY <2>1, <3>1, <3>2, <3>4 DEF Update
      <4> QED BY <1>13, <4>1 DEF Heartbeat, TypeOK, Sent
    <3> QED BY <3>3, <3>4
  <2>6. disk' \in [Node -> Config]
    BY <1>13, <2>3, <2>4, PersistTypes DEF Heartbeat, TypeOK
  <2> QED BY <1>13, <2>3, <2>4, <2>5, <2>6 DEF Heartbeat, TypeOK
<1>14. CASE UNCHANGED vars
  BY <1>14 DEF vars, TypeOK
<1> QED
  BY <1>1, <1>2, <1>3, <1>4, <1>5, <1>6, <1>7, <1>8, <1>9, <1>10, <1>11, <1>12,
     <1>13, <1>14 DEF Next, GrantVote, DenyVote

\* Every reachable state is well typed (cluster.c keeps the fields of clusterState,
\* clusterNode and nodes.conf within the types cluster.h declares).
THEOREM TypeCorrect == Spec => []TypeOK
<1>1. Init => TypeOK
  BY InitTypes
<1>2. TypeOK /\ [Next]_vars => TypeOK'
  BY NextTypes
<1> QED BY <1>1, <1>2, PTL DEF Spec

------------------------------------------------------------------------------
(* Votes and acknowledgements. *)

\* nodes.conf never holds a vote for an epoch above its currentEpoch: both
\* numbers are written on one line by clusterSaveConfig.
LEMMA PersistOrder ==
    ASSUME TypeOK, EpochOrder, NEW n \in Node,
           \A k \in Node : lastVoteEpoch'[k] <= currentEpoch'[k],
           Persist(n) \/ PersistIfDirty(n) \/ UNCHANGED disk
    PROVE  EpochOrder'
<1>1. \A k \in Node : disk[k].lastVoteEpoch <= disk[k].currentEpoch
  BY DEF EpochOrder
<1>2. disk \in [Node -> Config]
  BY DEF TypeOK
<1>3. CASE UNCHANGED disk
  BY <1>1, <1>3 DEF EpochOrder
<1>4. CASE Persist(n)
  BY <1>1, <1>2, <1>4 DEF EpochOrder, Persist
<1> QED BY <1>3, <1>4 DEF PersistIfDirty

\* A step that touches no vote and adds no acknowledgement.
LEMMA QuietStep ==
    ASSUME TypeOK, VotingInvariant, EpochOrder',
           UNCHANGED <<lastVoteEpoch, votes, forgotten, acks, wins,
                       failover_auth_count>>,
           \A m \in msgs' : m.type = "ACK" => m \in msgs
    PROVE  VotingInvariant'
<1>1. AckPool' \subseteq AckPool
  BY DEF AckPool
<1>2. VotesRemembered' /\ VotedOnce'
  BY DEF VotingInvariant, VotesRemembered, VotedOnce
<1>3. AcksAreVotes'
  BY <1>1 DEF VotingInvariant, AcksAreVotes, VoteOf
<1>4. ASSUME forgotten' = {}
      PROVE  AcksDistinct' /\ AcksCounted'
  <2>1. AcksDistinct /\ AcksCounted
    BY <1>4 DEF VotingInvariant
  <2>2. AcksDistinct'
    BY <1>1, <2>1 DEF AcksDistinct
  <2>3. ASSUME NEW c \in Node
        PROVE  acks'[c] \cap msgs' = {}
    <3>1. acks[c] \subseteq Ack /\ acks[c] \cap msgs = {}
      BY <2>1 DEF TypeOK, AcksCounted
    <3> QED BY <3>1 DEF Ack
  <2> QED BY <2>1, <2>2, <2>3 DEF AcksCounted
<1> QED BY <1>2, <1>3, <1>4 DEF VotingInvariant

\* Before the first election nobody voted.
LEMMA VotingInit == Init => VotingInvariant
<1> SUFFICES ASSUME NEW highest \in {FirstEpoch[s] : s \in Shard}, InitAt(highest)
             PROVE  VotingInvariant
  BY DEF Init
<1>1. highest \in Nat
  BY ConstantsAssumption
<1>2. EpochOrder
  BY <1>1 DEF InitAt, EpochOrder
<1>3. AckPool = {}
  BY DEF InitAt, AckPool
<1>4. VotesRemembered /\ VotedOnce /\ AcksAreVotes /\ AcksDistinct
  BY <1>3 DEF InitAt, VotesRemembered, VotedOnce, AcksAreVotes, AcksDistinct
<1>5. AcksCounted
  BY FS_EmptySet DEF InitAt, AcksCounted
<1> QED BY <1>2, <1>4, <1>5 DEF VotingInvariant

\* clusterSendFailoverAuthIfNeeded: a vote is given in a later epoch than every
\* vote the master remembers.
LEMMA VotingGrant ==
    ASSUME TypeOK, VotingInvariant, NEW m \in msgs, GrantVote(m)
    PROVE  VotingInvariant'
<1> DEFINE v == m.to
           e == m.epoch
           vote == [voter |-> v, for |-> m.from, epoch |-> e]
           ack == [type |-> "ACK", from |-> v, to |-> m.from, epoch |-> e,
                   cfg |-> configEpoch[v][v]]
<1>1. m.from \in Node /\ v \in Node /\ e \in Nat /\ m.cfg \in Nat
  BY MessageTypes
<1>2. /\ HandleRequest(m) /\ e >= currentEpoch[v] /\ lastVoteEpoch[v] # e
      /\ lastVoteEpoch' = [lastVoteEpoch EXCEPT ![v] = e]
      /\ msgs' = (msgs \ {m}) \cup Sent(ack)
      /\ votes' = votes \cup {vote}
      /\ PersistIfDirty(v)
  BY DEF GrantVote, Votable
<1>3. /\ lastVoteEpoch \in [Node -> Nat] /\ currentEpoch \in [Node -> Nat]
      /\ votes \subseteq Vote
  BY DEF TypeOK
<1>4. \A k \in Node : lastVoteEpoch[k] <= currentEpoch[k]
  BY DEF VotingInvariant, EpochOrder
<1>5. lastVoteEpoch[v] < e
  BY <1>1, <1>2, <1>3, <1>4
<1>6. UNCHANGED <<forgotten, acks, wins, failover_auth_count>>
  BY <1>2 DEF HandleRequest, authVars
<1>7. EpochOrder'
  <2>1. currentEpoch' = [currentEpoch EXCEPT ![v] = Larger(@, e)]
    BY <1>2 DEF HandleRequest, HeardEpoch
  <2>2. \A k \in Node : lastVoteEpoch'[k] <= currentEpoch'[k]
    BY <1>1, <1>2, <1>3, <1>4, <2>1 DEF Larger
  <2> QED BY <1>1, <1>2, <2>2, PersistOrder DEF VotingInvariant
<1>8. \A w \in votes \ forgotten : w.voter = v => w.epoch < e
  BY <1>1, <1>3, <1>5 DEF VotingInvariant, VotesRemembered, Vote
<1>9. VotesRemembered'
  <2> SUFFICES ASSUME NEW w \in votes' \ forgotten'
               PROVE  w.epoch <= lastVoteEpoch'[w.voter]
    BY DEF VotesRemembered
  <2>1. CASE w = vote
    BY <1>1, <1>2, <1>3, <2>1
  <2>2. CASE w # vote
    <3>1. w \in votes \ forgotten /\ w.voter \in Node /\ w.epoch \in Nat
      BY <1>2, <1>3, <1>6, <2>2 DEF Vote
    <3>2. w.epoch <= lastVoteEpoch[w.voter]
      BY <3>1 DEF VotingInvariant, VotesRemembered
    <3> QED BY <1>1, <1>2, <1>3, <1>5, <3>1, <3>2
  <2> QED BY <2>1, <2>2
<1>10. VotedOnce'
  <2> SUFFICES ASSUME NEW u \in votes' \ forgotten', NEW w \in votes' \ forgotten',
                      u.voter = w.voter, u.epoch = w.epoch
               PROVE  u = w
    BY DEF VotedOnce
  <2>1. CASE u = vote /\ w = vote
    BY <2>1
  <2>2. CASE u # vote /\ w # vote
    BY <1>2, <1>6, <2>2 DEF VotingInvariant, VotedOnce
  <2>3. CASE u = vote /\ w # vote
    BY <1>1, <1>2, <1>6, <1>8, <2>3
  <2>4. CASE u # vote /\ w = vote
    BY <1>1, <1>2, <1>6, <1>8, <2>4
  <2> QED BY <2>1, <2>2, <2>3, <2>4
<1>11. AckPool' \subseteq AckPool \cup {ack}
  BY <1>2, <1>6 DEF AckPool, Sent
<1>12. AcksAreVotes'
  <2>1. VoteOf(ack) = vote
    BY DEF VoteOf
  <2> QED BY <1>2, <1>6, <1>11, <2>1 DEF VotingInvariant, AcksAreVotes, VoteOf
<1>13. ASSUME forgotten' = {}
       PROVE  AcksDistinct' /\ AcksCounted'
  <2>1. forgotten = {} /\ AcksDistinct /\ AcksCounted
    BY <1>6, <1>13 DEF VotingInvariant
  <2>2. ASSUME NEW k \in AckPool
        PROVE  ~(k.from = v /\ k.epoch = e)
    <3>1. VoteOf(k) \in votes \ forgotten
      BY <2>1 DEF VotingInvariant, AcksAreVotes
    <3>2. VoteOf(k).voter = k.from /\ VoteOf(k).epoch = k.epoch
      BY DEF VoteOf
    <3> QED BY <1>1, <1>8, <3>1, <3>2
  <2>3. AcksDistinct'
    BY <1>11, <2>1, <2>2 DEF AcksDistinct
  <2>4. ASSUME NEW c \in Node
        PROVE  ack \notin acks[c]
    BY <2>2 DEF AckPool
  <2>5. AcksCounted'
    BY <1>2, <1>6, <2>1, <2>4 DEF AcksCounted, Sent
  <2> QED BY <2>3, <2>5
<1> QED BY <1>7, <1>9, <1>10, <1>12, <1>13 DEF VotingInvariant

\* The FAILOVER_AUTH_ACK branch of clusterProcessPacket: the counter grows with
\* the set of the acknowledgements it stands for.
LEMMA VotingAck ==
    ASSUME TypeOK, VotingInvariant, NEW m \in msgs, HandleAck(m)
    PROVE  VotingInvariant'
<1> DEFINE c == m.to
<1>1. m.from \in Node /\ c \in Node /\ m.epoch \in Nat /\ m.cfg \in Nat /\ m.type = "ACK"
  BY MessageTypes DEF HandleAck
<1>2. PICK counts \in BOOLEAN :
        /\ failover_auth_count' =
             [failover_auth_count EXCEPT ![c] = IF counts THEN @ + 1 ELSE @]
        /\ acks' = [acks EXCEPT ![c] = IF counts THEN @ \cup {m} ELSE @]
  BY Zenon DEF HandleAck
<1>3. /\ msgs' = msgs \ {m}
      /\ UNCHANGED <<lastVoteEpoch, votes, forgotten, wins>>
      /\ currentEpoch' = [currentEpoch EXCEPT ![c] = Larger(@, m.epoch)]
      /\ PersistIfDirty(c)
  BY DEF HandleAck, history, HeardEpoch
<1>4. EpochOrder'
  <2>1. \A k \in Node : lastVoteEpoch'[k] <= currentEpoch'[k]
    BY <1>1, <1>3 DEF VotingInvariant, EpochOrder, TypeOK, Larger
  <2> QED BY <1>1, <1>3, <2>1, PersistOrder DEF VotingInvariant
<1>5. VotesRemembered' /\ VotedOnce'
  BY <1>3 DEF VotingInvariant, VotesRemembered, VotedOnce
<1>6. ASSUME NEW k \in Node
      PROVE  acks'[k] \subseteq acks[k] \cup (IF k = c THEN {m} ELSE {})
  BY <1>2, <1>6 DEF TypeOK
<1>7. m \in AckPool
  BY <1>1 DEF AckPool
<1>8. AckPool' \subseteq AckPool
  BY <1>3, <1>6, <1>7 DEF AckPool
<1>9. AcksAreVotes'
  <2>1. \A a \in AckPool' : VoteOf(a)' \in votes'
    BY <1>3, <1>8 DEF VotingInvariant, AcksAreVotes, VoteOf
  <2>2. \A k \in Node : \A a \in acks'[k] : a.to = k
    BY <1>6 DEF VotingInvariant, AcksAreVotes
  <2> QED BY <1>3, <2>1, <2>2 DEF VotingInvariant, AcksAreVotes
<1>10. ASSUME forgotten' = {}
       PROVE  AcksDistinct' /\ AcksCounted'
  <2>1. AcksDistinct /\ AcksCounted
    BY <1>3, <1>10 DEF VotingInvariant
  <2>2. AcksDistinct'
    BY <1>8, <2>1 DEF AcksDistinct
  <2>3. ASSUME NEW k \in Node
        PROVE  /\ IsFiniteSet(acks'[k])
               /\ failover_auth_count'[k] = Cardinality(acks'[k])
               /\ acks'[k] \cap msgs' = {}
    <3>1. /\ IsFiniteSet(acks[k]) /\ acks[k] \cap msgs = {}
          /\ failover_auth_count[k] = Cardinality(acks[k])
      BY <2>1 DEF AcksCounted
    <3>2. CASE k = c /\ counts
      <4>1. acks'[k] = acks[k] \cup {m} /\ m \notin acks[k]
        BY <1>2, <3>1, <3>2 DEF TypeOK
      <4>2. /\ IsFiniteSet(acks[k] \cup {m})
            /\ Cardinality(acks[k] \cup {m}) = Cardinality(acks[k]) + 1
        BY <3>1, <4>1, FS_AddElement
      <4>3. failover_auth_count'[k] = failover_auth_count[k] + 1
        BY <1>2, <3>2 DEF TypeOK
      <4> QED BY <1>3, <3>1, <4>1, <4>2, <4>3
    <3>3. CASE ~(k = c /\ counts)
      <4>1. acks'[k] = acks[k] /\ failover_auth_count'[k] = failover_auth_count[k]
        BY <1>2, <3>3 DEF TypeOK
      <4> QED BY <1>3, <3>1, <4>1
    <3> QED BY <3>2, <3>3
  <2> QED BY <1>3, <2>1, <2>2, <2>3 DEF AcksCounted
<1> QED BY <1>4, <1>5, <1>9, <1>10 DEF VotingInvariant

\* clusterHandleSlaveFailover, a new attempt: the count starts again from zero.
LEMMA VotingSchedule ==
    ASSUME TypeOK, VotingInvariant, NEW c \in Node, ScheduleElection(c)
    PROVE  VotingInvariant'
<1>1. /\ UNCHANGED <<currentEpoch, lastVoteEpoch, disk, msgs, votes, forgotten, wins>>
      /\ failover_auth_count' = [failover_auth_count EXCEPT ![c] = 0]
      /\ acks' = [acks EXCEPT ![c] = {}]
  BY DEF ScheduleElection, nodeVars, history
<1>2. EpochOrder' /\ VotesRemembered' /\ VotedOnce'
  BY <1>1 DEF VotingInvariant, EpochOrder, VotesRemembered, VotedOnce
<1>3. \A k \in Node : acks'[k] = IF k = c THEN {} ELSE acks[k]
  BY <1>1 DEF TypeOK
<1>4. AckPool' \subseteq AckPool
  BY <1>1, <1>3 DEF AckPool
<1>5. AcksAreVotes'
  <2>1. \A a \in AckPool' : VoteOf(a)' \in votes'
    BY <1>1, <1>4 DEF VotingInvariant, AcksAreVotes, VoteOf
  <2>2. \A k \in Node : \A a \in acks'[k] : a.to = k
    BY <1>3 DEF VotingInvariant, AcksAreVotes
  <2> QED BY <1>1, <2>1, <2>2 DEF VotingInvariant, AcksAreVotes
<1>6. ASSUME forgotten' = {}
      PROVE  AcksDistinct' /\ AcksCounted'
  <2>1. AcksDistinct /\ AcksCounted
    BY <1>1, <1>6 DEF VotingInvariant
  <2>2. AcksDistinct'
    BY <1>4, <2>1 DEF AcksDistinct
  <2>3. \A k \in Node : failover_auth_count'[k] =
                          IF k = c THEN 0 ELSE failover_auth_count[k]
    BY <1>1 DEF TypeOK
  <2>4. AcksCounted'
    BY <1>1, <1>3, <2>1, <2>3, FS_EmptySet DEF AcksCounted
  <2> QED BY <2>2, <2>4
<1> QED BY <1>2, <1>5, <1>6 DEF VotingInvariant

\* clusterHandleSlaveFailover, the promotion: the winner's acknowledgements are
\* those the counter it compared with the quorum stands for.
LEMMA VotingPromote ==
    ASSUME TypeOK, VotingInvariant, NEW c \in Node, Promote(c)
    PROVE  VotingInvariant'
<1> DEFINE win == [node |-> c, epoch |-> failover_auth_epoch[c],
                 quorum |-> NeededQuorum(c), acks |-> acks[c]]
<1>1. /\ UNCHANGED <<currentEpoch, lastVoteEpoch, msgs, votes, forgotten, acks,
                     failover_auth_count>>
      /\ failover_auth_count[c] >= NeededQuorum(c)
      /\ wins' = wins \cup {win}
      /\ Persist(c)
  BY DEF Promote
<1>2. EpochOrder'
  <2>1. \A k \in Node : lastVoteEpoch'[k] <= currentEpoch'[k]
    BY <1>1 DEF VotingInvariant, EpochOrder
  <2> QED BY <1>1, <2>1, PersistOrder DEF VotingInvariant
<1>3. VotesRemembered' /\ VotedOnce'
  BY <1>1 DEF VotingInvariant, VotesRemembered, VotedOnce
<1>4. AckPool' \subseteq AckPool
  <2>1. acks[c] \in {acks[k] : k \in Node}
    OBVIOUS
  <2>2. acks[c] \subseteq AckPool
    BY <2>1, Zenon DEF AckPool
  <2>3. UNION {w.acks : w \in wins} \subseteq AckPool
    BY Zenon DEF AckPool
  <2>4. ASSUME NEW w \in wins'
        PROVE  w.acks \subseteq AckPool
    <3>1. CASE w = win
      BY <2>2, <3>1
    <3>2. CASE w # win
      BY <1>1, <2>3, <3>2
    <3> QED BY <3>1, <3>2
  <2>5. UNION {w.acks : w \in wins'} \subseteq AckPool
    BY <2>4
  <2>6. AckPool' = {m \in msgs : m.type = "ACK"}
                   \cup (UNION {acks[k] : k \in Node})
                   \cup (UNION {w.acks : w \in wins'})
    BY <1>1 DEF AckPool
  <2> QED BY <2>5, <2>6, Zenon DEF AckPool
<1>5. AcksAreVotes'
  <2>1. \A a \in AckPool' : VoteOf(a)' \in votes'
    BY <1>1, <1>4 DEF VotingInvariant, AcksAreVotes, VoteOf
  <2>2. \A w \in wins' : \A a \in w.acks : a.to = w.node
    BY <1>1 DEF VotingInvariant, AcksAreVotes
  <2> QED BY <1>1, <2>1, <2>2 DEF VotingInvariant, AcksAreVotes
<1>6. ASSUME forgotten' = {}
      PROVE  AcksDistinct' /\ AcksCounted'
  <2>1. AcksDistinct /\ AcksCounted
    BY <1>1, <1>6 DEF VotingInvariant
  <2>2. AcksDistinct'
    BY <1>4, <2>1 DEF AcksDistinct
  <2>3. AcksCounted'
    BY <1>1, <2>1 DEF AcksCounted
  <2> QED BY <2>2, <2>3
<1> QED BY <1>2, <1>3, <1>5, <1>6 DEF VotingInvariant

\* clusterLoadConfig: the votes nodes.conf does not cover are the forgotten ones,
\* the acknowledgements counted so far are gone.
LEMMA VotingRestart ==
    ASSUME TypeOK, VotingInvariant, NEW n \in Node, Restart(n)
    PROVE  VotingInvariant'
<1> DEFINE d == disk[n]
<1>1. d.lastVoteEpoch \in Nat /\ d.currentEpoch \in Nat /\ d.lastVoteEpoch <= d.currentEpoch
  BY DEF TypeOK, Config, VotingInvariant, EpochOrder
<1>2. /\ UNCHANGED <<disk, votes, wins>>
      /\ lastVoteEpoch' = [lastVoteEpoch EXCEPT ![n] = d.lastVoteEpoch]
      /\ failover_auth_count' = [failover_auth_count EXCEPT ![n] = 0]
      /\ acks' = [acks EXCEPT ![n] = {}]
      /\ msgs' \subseteq msgs
      /\ forgotten' = forgotten \cup
           {w \in votes : w.voter = n /\ w.epoch > d.lastVoteEpoch}
  BY DEF Restart
<1>3. EpochOrder'
  <2> DEFINE reached == {d.configEpoch[r] : r \in Node} \cup {d.currentEpoch}
  <2>1. PICK e \in reached : /\ \A x \in reached : x <= e
                             /\ currentEpoch' = [currentEpoch EXCEPT ![n] = e]
    BY DEF Restart
  <2>2. d.currentEpoch <= e /\ e \in Nat
    BY <2>1 DEF TypeOK, Config
  <2>3. \A k \in Node : lastVoteEpoch'[k] <= currentEpoch'[k]
    BY <1>1, <1>2, <2>1, <2>2 DEF VotingInvariant, EpochOrder, TypeOK
  <2> QED BY <1>2, <2>3 DEF VotingInvariant, EpochOrder
<1>4. VotesRemembered'
  <2> SUFFICES ASSUME NEW w \in votes' \ forgotten'
               PROVE  w.epoch <= lastVoteEpoch'[w.voter]
    BY DEF VotesRemembered
  <2>1. w \in votes \ forgotten /\ w.voter \in Node /\ w.epoch \in Nat
    BY <1>2 DEF TypeOK, Vote
  <2>2. w.epoch <= lastVoteEpoch[w.voter]
    BY <2>1 DEF VotingInvariant, VotesRemembered
  <2>3. CASE w.voter = n
    BY <1>1, <1>2, <2>1, <2>3 DEF TypeOK
  <2>4. CASE w.voter # n
    BY <1>2, <2>1, <2>2, <2>4 DEF TypeOK
  <2> QED BY <2>3, <2>4
<1>5. VotedOnce'
  BY <1>2 DEF VotingInvariant, VotedOnce
<1>6. \A k \in Node : acks'[k] = IF k = n THEN {} ELSE acks[k]
  BY <1>2 DEF TypeOK
<1>7. AckPool' \subseteq AckPool
  BY <1>2, <1>6 DEF AckPool
<1>8. AcksAreVotes'
  <2>1. \A a \in AckPool' : VoteOf(a)' \in votes'
    BY <1>2, <1>7 DEF VotingInvariant, AcksAreVotes, VoteOf
  <2>2. \A k \in Node : \A a \in acks'[k] : a.to = k
    BY <1>6 DEF VotingInvariant, AcksAreVotes
  <2> QED BY <1>2, <2>1, <2>2 DEF VotingInvariant, AcksAreVotes
<1>9. ASSUME forgotten' = {}
      PROVE  AcksDistinct' /\ AcksCounted'
  <2>1. AcksDistinct /\ AcksCounted
    BY <1>2, <1>9 DEF VotingInvariant
  <2>2. AcksDistinct'
    BY <1>7, <2>1 DEF AcksDistinct
  <2>3. \A k \in Node : failover_auth_count'[k] =
                          IF k = n THEN 0 ELSE failover_auth_count[k]
    BY <1>2 DEF TypeOK
  <2>4. AcksCounted'
    BY <1>2, <1>6, <2>1, <2>3, FS_EmptySet DEF AcksCounted
  <2> QED BY <2>2, <2>4
<1> QED BY <1>3, <1>4, <1>5, <1>8, <1>9 DEF VotingInvariant

\* Every action keeps the invariant on votes and acknowledgements.
LEMMA VotingNext == TypeOK /\ VotingInvariant /\ [Next]_vars => VotingInvariant'
<1> SUFFICES ASSUME TypeOK, VotingInvariant, [Next]_vars
             PROVE  VotingInvariant'
  OBVIOUS
<1> USE DEF nodeVars, authVars, history
<1>0. /\ EpochOrder /\ currentEpoch \in [Node -> Nat] /\ lastVoteEpoch \in [Node -> Nat]
      /\ \A k \in Node : lastVoteEpoch[k] <= currentEpoch[k]
  BY DEF VotingInvariant, EpochOrder, TypeOK
<1>1. ASSUME NEW c \in Node, RequestVotes(c)
      PROVE  VotingInvariant'
  <2>1. EpochOrder'
    <3>1. \A k \in Node : lastVoteEpoch'[k] <= currentEpoch'[k]
      BY <1>0, <1>1 DEF RequestVotes
    <3> QED BY <1>0, <1>1, <3>1, PersistOrder DEF RequestVotes
  <2>2. \A m \in msgs' : m.type = "ACK" => m \in msgs
    BY <1>1 DEF RequestVotes
  <2> QED BY <1>1, <2>1, <2>2, QuietStep DEF RequestVotes
<1>2. ASSUME NEW c \in Node,
             \/ ElectionTimeout(c) \/ ManualFailover(c) \/ ManualTimeout(c)
             \/ FlagFail(c) \/ ClearFail(c) \/ SaveConfig(c)
      PROVE  VotingInvariant'
  <2>1. /\ UNCHANGED <<currentEpoch, lastVoteEpoch, votes, forgotten, acks, wins,
                       failover_auth_count, msgs>>
        /\ Persist(c) \/ UNCHANGED disk
    BY <1>2 DEF ElectionTimeout, ManualFailover, ManualTimeout, FlagFail, ClearFail,
                SaveConfig
  <2>2. EpochOrder'
    BY <1>0, <2>1, PersistOrder
  <2> QED BY <2>1, <2>2, QuietStep
<1>3. ASSUME NEW m \in msgs, DenyVote(m)
      PROVE  VotingInvariant'
  <2>1. m.to \in Node /\ m.epoch \in Nat
    BY MessageTypes
  <2>2. /\ UNCHANGED <<lastVoteEpoch, votes, forgotten, acks, wins, failover_auth_count>>
        /\ msgs' \subseteq msgs
        /\ currentEpoch' = [currentEpoch EXCEPT ![m.to] = Larger(@, m.epoch)]
        /\ PersistIfDirty(m.to)
    BY <1>3 DEF DenyVote, HandleRequest, HeardEpoch
  <2>3. \A k \in Node : lastVoteEpoch'[k] <= currentEpoch'[k]
    BY <1>0, <2>1, <2>2 DEF Larger
  <2>4. EpochOrder'
    BY <1>0, <2>1, <2>2, <2>3, PersistOrder
  <2> QED BY <2>2, <2>4, QuietStep
<1>4. ASSUME NEW m \in msgs, HandleUpdate(m)
      PROVE  VotingInvariant'
  <2>1. m.to \in Node /\ m.epoch \in Nat
    BY MessageTypes
  <2>2. /\ UNCHANGED <<lastVoteEpoch, votes, forgotten, acks, wins, failover_auth_count>>
        /\ msgs' \subseteq msgs
        /\ currentEpoch' = [currentEpoch EXCEPT ![m.to] = Larger(@, m.epoch)]
        /\ PersistIfDirty(m.to)
    BY <1>4 DEF HandleUpdate, HeardEpoch
  <2>3. \A k \in Node : lastVoteEpoch'[k] <= currentEpoch'[k]
    BY <1>0, <2>1, <2>2 DEF Larger
  <2>4. EpochOrder'
    BY <1>0, <2>1, <2>2, <2>3, PersistOrder
  <2> QED BY <2>2, <2>4, QuietStep
<1>5. ASSUME NEW v \in Node, NEW r \in Node, VoteDelayOver(v, r)
      PROVE  VotingInvariant'
  <2>1. UNCHANGED <<currentEpoch, lastVoteEpoch, votes, forgotten, acks, wins,
                    failover_auth_count, msgs, disk>>
    BY <1>5 DEF VoteDelayOver
  <2>2. EpochOrder'
    BY <1>0, <2>1, PersistOrder
  <2> QED BY <2>1, <2>2, QuietStep
<1>6. ASSUME NEW n \in Node, NEW r \in Node, Heartbeat(r, n)
      PROVE  VotingInvariant'
  <2>1. /\ UNCHANGED <<lastVoteEpoch, votes, forgotten, acks, wins, failover_auth_count>>
        /\ PersistIfDirty(n)
        /\ RaiseEpochs(r, n)
    BY <1>6 DEF Heartbeat
  <2>2. \A m \in msgs' : m.type = "ACK" => m \in msgs
    BY <1>6 DEF Heartbeat, Sent
  <2>3. HeardEpoch(n, Header(r)) \in Nat /\ HeardEpoch(n, Header(r)) >= currentEpoch[n]
    BY HeaderTypes, HeardTypes
  <2>4. PICK e : /\ e \in Nat /\ e >= currentEpoch[n]
                 /\ currentEpoch' = [currentEpoch EXCEPT ![n] = e]
    BY <1>0, <2>1, <2>3 DEF RaiseEpochs
  <2>5. \A k \in Node : lastVoteEpoch'[k] <= currentEpoch'[k]
    BY <1>0, <2>1, <2>4
  <2>6. EpochOrder'
    BY <1>0, <2>1, <2>5, PersistOrder
  <2> QED BY <2>1, <2>2, <2>6, QuietStep
<1>7. CASE UNCHANGED vars
  BY <1>7 DEF vars, VotingInvariant, EpochOrder, VotesRemembered, VotedOnce, AcksAreVotes,
              AcksDistinct, AcksCounted, AckPool, VoteOf
<1> QED
  BY <1>1, <1>2, <1>3, <1>4, <1>5, <1>6, <1>7, VotingAck, VotingGrant, VotingSchedule,
     VotingPromote, VotingRestart DEF Next

\* Votes are cast once, every acknowledgement is a vote, and the counter stands
\* for distinct acknowledgements (clusterSendFailoverAuthIfNeeded and the
\* FAILOVER_AUTH_ACK branch of clusterProcessPacket), for every cluster.
THEOREM VotingCorrect == Spec => []VotingInvariant
<1>1. Init => VotingInvariant
  BY VotingInit
<1>2. TypeOK /\ VotingInvariant /\ [Next]_vars => VotingInvariant'
  BY VotingNext
<1> QED BY <1>1, <1>2, TypeCorrect, PTL DEF Spec

------------------------------------------------------------------------------
(* What the invariant gives. *)

\* A double vote needs a vote that a restart wiped.
LEMMA VotedOnceSuffices == VotingInvariant => DoubleVoteWasForgotten
BY DEF VotingInvariant, VotedOnce, DoubleVoteWasForgotten

\* A master that votes twice in an epoch forgot a vote in a restart, in every
\* cluster and after any number of elections (clusterSendFailoverAuthIfNeeded).
THEOREM DoubleVotesAreForgotten == Spec => []DoubleVoteWasForgotten
BY VotingCorrect, VotedOnceSuffices, PTL

\* Two sets of acknowledgements of a majority each, of one epoch and for two
\* candidates, hold two masters of the same shard.
LEMMA MajoritiesMeet ==
    ASSUME TypeOK, VotingInvariant, forgotten = {},
           NEW v \in wins, NEW w \in wins, v.epoch = w.epoch, v.node # w.node,
           ~CountsStaleAck(v), ~CountsStaleAck(w),
           ~CountsFewMasters(v), ~CountsFewMasters(w)
    PROVE  SplitShard(v.epoch)
<1> DEFINE U == v.acks \cup w.acks
           f == [m \in U |-> ShardOf[m.from]]
<1>1. /\ IsFiniteSet(v.acks) /\ Cardinality(v.acks) >= v.quorum
      /\ IsFiniteSet(w.acks) /\ Cardinality(w.acks) >= w.quorum
      /\ AcksDistinct
  BY DEF VotingInvariant, AcksCounted
<1>2. v.acks \cap w.acks = {}
  BY DEF VotingInvariant, AcksAreVotes
<1>3. U \subseteq AckPool
  BY DEF AckPool
<1>4. U \subseteq Ack
  BY DEF TypeOK, Win
<1>5. \A m \in U : m.epoch = v.epoch
  BY DEF CountsStaleAck
<1>6. IsFiniteSet(Shard) /\ Cardinality(Shard) \in Nat
  BY ConstantsAssumption, FS_CardinalityType
<1>7. IsFiniteSet(U) /\ Cardinality(Shard) < Cardinality(U)
  <2>1. /\ IsFiniteSet(U)
        /\ Cardinality(U) = Cardinality(v.acks) + Cardinality(w.acks)
                            - Cardinality(v.acks \cap w.acks)
    BY <1>1, FS_Union
  <2>2. /\ Cardinality(v.acks \cap w.acks) = 0
        /\ Cardinality(v.acks) \in Nat /\ Cardinality(w.acks) \in Nat
    BY <1>1, <1>2, FS_EmptySet, FS_CardinalityType
  <2>3. /\ v.quorum \in Nat /\ 2 * v.quorum > Cardinality(Shard)
        /\ w.quorum \in Nat /\ 2 * w.quorum > Cardinality(Shard)
    BY <1>6 DEF TypeOK, Win, CountsFewMasters
  <2> QED BY <1>1, <1>6, <2>1, <2>2, <2>3
<1>8. f \in [U -> Shard]
  BY <1>4, ConstantsAssumption DEF Ack
<1>9. \E m, k \in U : m # k /\ f[m] = f[k]
  <2> HIDE DEF U, f
  <2> QED BY <1>6, <1>7, <1>8, FS_PigeonHole
<1>10. PICK m, k \in U : m # k /\ ShardOf[m.from] = ShardOf[k.from]
  BY <1>9
<1>11. m.from # k.from
  BY <1>1, <1>3, <1>5, <1>10 DEF AcksDistinct
<1>12. VoteOf(m) \in votes /\ VoteOf(k) \in votes
  BY <1>3, <1>10 DEF VotingInvariant, AcksAreVotes
<1> QED BY <1>5, <1>10, <1>11, <1>12 DEF SplitShard, VoteOf

\* The winners of one epoch are one node unless a restart wiped a vote, a stale
\* acknowledgement was counted or a shard voted as two masters: the quorum of
\* clusterHandleSlaveFailover, for any number of shards.
THEOREM TwoWinnersNeedOneOfTheGaps == Spec => []TwoWinnersNeedAGap
<1>1. TypeOK /\ VotingInvariant => TwoWinnersNeedAGap
  BY MajoritiesMeet DEF TwoWinnersNeedAGap
<1> QED BY <1>1, TypeCorrect, VotingCorrect, PTL

-----------------------------------------------------------------------------
(***************************************************************************)
(* currentEpoch stays above every epoch a node of ClusterElection knows,   *)
(* and so every election is held above the configurations known to it;     *)
(* nodes.conf keeps the epochs a node asked for votes with, and what its   *)
(* packets announce.                                                       *)
(***************************************************************************)

\* A packet's header brings no configEpoch above its epoch, and what is heard of
\* it keeps currentEpoch highest (the first lines of clusterProcessPacket).
LEMMA HeardHighest ==
    ASSUME TypeOK, CurrentEpochIsHighest, NEW n \in Node, NEW hdr,
           hdr.from \in Node, hdr.epoch \in Nat, hdr.cfg \in Nat, hdr.cfg <= hdr.epoch
    PROVE  /\ HeardEpoch(n, hdr) \in Nat
           /\ hdr.epoch <= HeardEpoch(n, hdr)
           /\ currentEpoch[n] <= HeardEpoch(n, hdr)
           /\ HeardConfigEpoch(n, hdr) \in [Node -> Nat]
           /\ \A r \in Node : HeardConfigEpoch(n, hdr)[r] <= HeardEpoch(n, hdr)
<1>1. /\ currentEpoch[n] \in Nat /\ configEpoch[n] \in [Node -> Nat]
      /\ \A r \in Node : configEpoch[n][r] <= currentEpoch[n]
  BY DEF TypeOK, CurrentEpochIsHighest
<1> QED BY <1>1 DEF HeardEpoch, HeardConfigEpoch, Larger

\* The header of clusterBuildMessageHdr is such a header.
LEMMA HeaderHighest ==
    ASSUME TypeOK, CurrentEpochIsHighest, NEW n \in Node
    PROVE  Header(n).cfg <= Header(n).epoch
BY HeaderTypes DEF CurrentEpochIsHighest, Header

\* A step that moves one node from one well-ordered pair of epochs to another,
\* and adds only messages that are in order.
LEMMA OrderedStep ==
    ASSUME TypeOK, CurrentEpochIsHighest, NEW n \in Node, NEW e \in Nat,
           NEW known \in [Node -> Nat],
           currentEpoch' = [currentEpoch EXCEPT ![n] = e],
           configEpoch' = [configEpoch EXCEPT ![n] = known],
           \A r \in Node : known[r] <= e,
           \A c \in Node : failover_auth_epoch'[c] <= currentEpoch'[c],
           \A m \in msgs' \ msgs : /\ m.cfg <= m.epoch
                                   /\ m.type = "UPDATE" => m.ownerEpoch <= m.epoch
    PROVE  CurrentEpochIsHighest'
<1>1. \A c, r \in Node : configEpoch'[c][r] <= currentEpoch'[c]
  BY DEF TypeOK, CurrentEpochIsHighest
<1> QED BY <1>1 DEF CurrentEpochIsHighest

\* A node that only heard of epochs keeps the order, its election included.
LEMMA HeardStep ==
    ASSUME TypeOK, CurrentEpochIsHighest, NEW n \in Node, NEW e \in Nat,
           NEW known \in [Node -> Nat],
           currentEpoch[n] <= e,
           currentEpoch' = [currentEpoch EXCEPT ![n] = e],
           configEpoch' = [configEpoch EXCEPT ![n] = known],
           \A r \in Node : known[r] <= e,
           UNCHANGED failover_auth_epoch,
           \A m \in msgs' \ msgs : /\ m.cfg <= m.epoch
                                   /\ m.type = "UPDATE" => m.ownerEpoch <= m.epoch
    PROVE  CurrentEpochIsHighest'
<1>1. \A c \in Node : failover_auth_epoch'[c] <= currentEpoch'[c]
  BY DEF TypeOK, CurrentEpochIsHighest
<1> QED BY <1>1, OrderedStep

\* Every message carries its sender's epochs.
LEMMA MessageHighest ==
    ASSUME TypeOK, CurrentEpochIsHighest, NEW m \in msgs
    PROVE  /\ m.from \in Node /\ m.to \in Node /\ m.epoch \in Nat /\ m.cfg \in Nat
           /\ m.cfg <= m.epoch
           /\ HeardEpoch(m.to, m) \in Nat
           /\ m.epoch <= HeardEpoch(m.to, m)
           /\ currentEpoch[m.to] <= HeardEpoch(m.to, m)
           /\ HeardConfigEpoch(m.to, m) \in [Node -> Nat]
           /\ \A r \in Node : HeardConfigEpoch(m.to, m)[r] <= HeardEpoch(m.to, m)
<1>1. /\ m.from \in Node /\ m.to \in Node /\ m.epoch \in Nat /\ m.cfg \in Nat
      /\ m.cfg <= m.epoch
  BY MessageTypes DEF CurrentEpochIsHighest
<1> QED BY <1>1, HeardHighest

\* clusterHandleSlaveFailover: an attempt, a promotion.
LEMMA HighestCandidate ==
    ASSUME TypeOK, CurrentEpochIsHighest, NEW c \in Node,
           RequestVotes(c) \/ Promote(c)
    PROVE  CurrentEpochIsHighest'
<1>0. /\ currentEpoch[c] \in Nat /\ configEpoch[c] \in [Node -> Nat]
      /\ failover_auth_epoch[c] \in Nat
      /\ \A r \in Node : configEpoch[c][r] <= currentEpoch[c]
      /\ failover_auth_epoch[c] <= currentEpoch[c]
  BY DEF TypeOK, CurrentEpochIsHighest
<1>1. CASE RequestVotes(c)
  <2>1. /\ currentEpoch' = [currentEpoch EXCEPT ![c] = currentEpoch[c] + 1]
        /\ UNCHANGED configEpoch
        /\ failover_auth_epoch' = [failover_auth_epoch EXCEPT ![c] = currentEpoch[c] + 1]
        /\ slaveof[c] \in Node
    BY <1>1 DEF RequestVotes, CanFailover, IsMaster, TypeOK
  <2>2. \A a, r \in Node : configEpoch'[a][r] <= currentEpoch'[a]
    BY <1>0, <2>1 DEF TypeOK, CurrentEpochIsHighest
  <2>3. \A a \in Node : failover_auth_epoch'[a] <= currentEpoch'[a]
    BY <1>0, <2>1 DEF TypeOK, CurrentEpochIsHighest
  <2>4. ASSUME NEW m \in msgs' \ msgs
        PROVE  /\ m.cfg <= m.epoch
               /\ m.type = "UPDATE" => m.ownerEpoch <= m.epoch
    <3>1. PICK n \in MastersOf(c) :
            m = [type |-> "REQUEST", from |-> c, to |-> n, epoch |-> currentEpoch[c] + 1,
                 cfg |-> configEpoch[c][slaveof[c]], force |-> manual[c]]
      BY <1>1, <2>4 DEF RequestVotes
    <3>2. configEpoch[c][slaveof[c]] \in Nat /\ configEpoch[c][slaveof[c]] <= currentEpoch[c]
      BY <1>0, <2>1
    <3> QED BY <1>0, <3>1, <3>2
  <2> QED BY <2>2, <2>3, <2>4 DEF CurrentEpochIsHighest
<1>2. CASE Promote(c)
  <2>1. /\ configEpoch' = [configEpoch EXCEPT ![c][c] = failover_auth_epoch[c]]
        /\ UNCHANGED <<currentEpoch, failover_auth_epoch, msgs>>
    BY <1>2 DEF Promote
  <2>2. \A a, r \in Node : configEpoch'[a][r] <= currentEpoch'[a]
    BY <1>0, <2>1 DEF TypeOK, CurrentEpochIsHighest
  <2> QED BY <2>1, <2>2 DEF CurrentEpochIsHighest
<1> QED BY <1>1, <1>2

\* clusterProcessPacket of a request or an acknowledgement: the acknowledgement
\* is sent only when the request's epoch is the voter's, too.
LEMMA HighestVote ==
    ASSUME TypeOK, CurrentEpochIsHighest, NEW m \in msgs,
           GrantVote(m) \/ DenyVote(m) \/ HandleAck(m)
    PROVE  CurrentEpochIsHighest'
<1> DEFINE n == m.to
           e == HeardEpoch(n, m)
           known == HeardConfigEpoch(n, m)
<1>1. /\ n \in Node /\ e \in Nat /\ known \in [Node -> Nat]
      /\ currentEpoch[n] <= e /\ \A r \in Node : known[r] <= e
  BY MessageHighest
<1>2. /\ currentEpoch' = [currentEpoch EXCEPT ![n] = e]
      /\ configEpoch' = [configEpoch EXCEPT ![n] = known]
      /\ UNCHANGED failover_auth_epoch
  BY DEF GrantVote, DenyVote, HandleAck, HandleRequest, authVars
<1>3. ASSUME NEW k \in msgs' \ msgs
      PROVE  k.cfg <= k.epoch /\ (k.type = "UPDATE" => k.ownerEpoch <= k.epoch)
  <2>1. CASE GrantVote(m)
    <3>1. k = [type |-> "ACK", from |-> n, to |-> m.from, epoch |-> m.epoch,
               cfg |-> configEpoch[n][n]]
      BY <2>1, <1>3 DEF GrantVote, Sent
    <3>2. m.epoch >= currentEpoch[n] /\ m.epoch \in Nat
      BY <2>1, MessageHighest DEF GrantVote, Votable
    <3>3. /\ currentEpoch[n] \in Nat /\ configEpoch[n][n] \in Nat
          /\ configEpoch[n][n] <= currentEpoch[n]
      BY <1>1 DEF TypeOK, CurrentEpochIsHighest
    <3>4. configEpoch[n][n] <= m.epoch
      BY <3>2, <3>3
    <3> QED BY <3>1, <3>4
  <2>2. CASE DenyVote(m) \/ HandleAck(m)
    BY <2>2, <1>3 DEF DenyVote, HandleAck
  <2> QED BY <2>1, <2>2
<1> QED
  <2> HIDE DEF n, e, known
  <2> QED BY <1>1, <1>2, <1>3, HeardStep

\* A PING or PONG: a collision takes the next epoch, an UPDATE reports an epoch
\* the node knows.
LEMMA HighestHeartbeat ==
    ASSUME TypeOK, CurrentEpochIsHighest, NEW r \in Node, NEW n \in Node,
           Heartbeat(r, n)
    PROVE  CurrentEpochIsHighest'
<1> DEFINE hdr == Header(r)
           e == HeardEpoch(n, hdr)
           known == HeardConfigEpoch(n, hdr)
           update == [type |-> "UPDATE", from |-> n, to |-> r, epoch |-> e,
                      cfg |-> known[Announced(n)], owner |-> slots[n][ShardOf[r]],
                      ownerEpoch |-> known[slots[n][ShardOf[r]]]]
<1>1. /\ e \in Nat /\ known \in [Node -> Nat]
      /\ currentEpoch[n] <= e /\ \A a \in Node : known[a] <= e
  <2>1. /\ hdr.from \in Node /\ hdr.epoch \in Nat /\ hdr.cfg \in Nat
        /\ hdr.cfg <= hdr.epoch
    BY HeaderTypes, HeaderHighest
  <2> HIDE DEF hdr
  <2> QED BY <2>1, HeardHighest
<1>2. UNCHANGED failover_auth_epoch /\ RaiseEpochs(r, n)
  BY DEF Heartbeat
<1>3. ASSUME NEW k \in msgs' \ msgs
      PROVE  k.cfg <= k.epoch /\ (k.type = "UPDATE" => k.ownerEpoch <= k.epoch)
  <2>1. k \in Sent(update) /\ slots[n][ShardOf[r]] # None
    BY <1>3 DEF Heartbeat
  <2>2. k = update
    <3> HIDE DEF update
    <3> QED BY <2>1 DEF Sent
  <2>3. Announced(n) \in Node /\ slots[n][ShardOf[r]] \in Node
    BY <2>1, HeaderTypes, ConstantsAssumption DEF TypeOK
  <2>4. known[Announced(n)] <= e /\ known[slots[n][ShardOf[r]]] <= e
    BY <1>1, <2>3
  <2> HIDE DEF e, known
  <2> QED BY <2>2, <2>4
<1>4. CASE /\ currentEpoch' = [currentEpoch EXCEPT ![n] = e]
           /\ configEpoch' = [configEpoch EXCEPT ![n] = known]
  <2> HIDE DEF e, known
  <2> QED BY <1>1, <1>2, <1>3, <1>4, HeardStep
<1>5. CASE /\ currentEpoch' = [currentEpoch EXCEPT ![n] = e + 1]
           /\ configEpoch' = [configEpoch EXCEPT ![n] = [known EXCEPT ![n] = e + 1]]
  <2> DEFINE next == [known EXCEPT ![n] = e + 1]
  <2> HIDE DEF e, known
  <2>1. /\ e + 1 \in Nat /\ next \in [Node -> Nat]
        /\ currentEpoch[n] <= e + 1 /\ \A a \in Node : next[a] <= e + 1
    <3>1. currentEpoch[n] \in Nat
      BY DEF TypeOK
    <3> QED BY <1>1, <3>1
  <2>2. configEpoch' = [configEpoch EXCEPT ![n] = next]
    BY <1>5
  <2> HIDE DEF next
  <2> QED BY <1>2, <1>3, <1>5, <2>1, <2>2, HeardStep
<1> QED BY <1>2, <1>4, <1>5 DEF RaiseEpochs

\* An UPDATE raises one epoch, to one its sender had.
LEMMA HighestUpdate ==
    ASSUME TypeOK, CurrentEpochIsHighest, NEW m \in msgs, HandleUpdate(m)
    PROVE  CurrentEpochIsHighest'
<1> DEFINE n == m.to
           e == HeardEpoch(n, m)
           heard == HeardConfigEpoch(n, m)
           known == [heard EXCEPT ![m.owner] = Larger(@, m.ownerEpoch)]
<1>1. /\ n \in Node /\ e \in Nat /\ heard \in [Node -> Nat]
      /\ currentEpoch[n] <= e /\ m.epoch <= e /\ m.epoch \in Nat
      /\ \A r \in Node : heard[r] <= e
  BY MessageHighest
<1>2. /\ m.owner \in Node /\ m.ownerEpoch \in Nat /\ m.ownerEpoch <= m.epoch
  BY MessageTypes DEF HandleUpdate, CurrentEpochIsHighest
<1>3. known \in [Node -> Nat] /\ \A r \in Node : known[r] <= e
  <2> HIDE DEF e, heard
  <2>1. m.ownerEpoch <= e
    BY <1>1, <1>2
  <2> QED BY <1>1, <1>2, <2>1 DEF Larger
<1>4. /\ currentEpoch' = [currentEpoch EXCEPT ![n] = e]
      /\ configEpoch' = [configEpoch EXCEPT ![n] = known]
      /\ UNCHANGED failover_auth_epoch
      /\ msgs' = msgs \ {m}
  BY DEF HandleUpdate
<1>5. \A k \in msgs' \ msgs : k.cfg <= k.epoch /\ (k.type = "UPDATE" => k.ownerEpoch <= k.epoch)
  BY <1>4
<1> HIDE DEF n, e, known
<1> QED BY <1>1, <1>3, <1>4, <1>5, HeardStep

\* clusterLoadConfig takes the largest epoch of the file for currentEpoch.
LEMMA HighestRestart ==
    ASSUME TypeOK, CurrentEpochIsHighest, NEW n \in Node, Restart(n)
    PROVE  CurrentEpochIsHighest'
<1> DEFINE reached == {disk[n].configEpoch[r] : r \in Node} \cup {disk[n].currentEpoch}
<1>1. disk[n].configEpoch \in [Node -> Nat] /\ disk[n].currentEpoch \in Nat
  BY DEF TypeOK, Config
<1>2. PICK e \in reached : /\ \A x \in reached : x <= e
                           /\ currentEpoch' = [currentEpoch EXCEPT ![n] = e]
  BY DEF Restart
<1>3. e \in Nat /\ \A r \in Node : disk[n].configEpoch[r] <= e
  BY <1>1, <1>2
<1>4. /\ configEpoch' = [configEpoch EXCEPT ![n] = disk[n].configEpoch]
      /\ failover_auth_epoch' = [failover_auth_epoch EXCEPT ![n] = 0]
      /\ msgs' \subseteq msgs
  BY DEF Restart
<1>5. \A c \in Node : failover_auth_epoch'[c] <= currentEpoch'[c]
  BY <1>2, <1>3, <1>4 DEF TypeOK, CurrentEpochIsHighest
<1>6. \A k \in msgs' \ msgs : k.cfg <= k.epoch /\ (k.type = "UPDATE" => k.ownerEpoch <= k.epoch)
  BY <1>4
<1> QED BY <1>1, <1>2, <1>3, <1>4, <1>5, <1>6, OrderedStep

\* Every action keeps currentEpoch highest.
LEMMA HighestNext ==
    TypeOK /\ CurrentEpochIsHighest /\ [Next]_vars => CurrentEpochIsHighest'
<1> SUFFICES ASSUME TypeOK, CurrentEpochIsHighest, [Next]_vars
             PROVE  CurrentEpochIsHighest'
  OBVIOUS
<1>1. ASSUME UNCHANGED <<currentEpoch, configEpoch, failover_auth_epoch, msgs>>
      PROVE  CurrentEpochIsHighest'
  BY <1>1 DEF CurrentEpochIsHighest
<1>2. ASSUME NEW c \in Node,
             \/ ScheduleElection(c) \/ ElectionTimeout(c) \/ ManualFailover(c)
             \/ ManualTimeout(c) \/ FlagFail(c) \/ ClearFail(c) \/ SaveConfig(c)
      PROVE  CurrentEpochIsHighest'
  <2>1. UNCHANGED <<currentEpoch, configEpoch, failover_auth_epoch, msgs>>
    BY <1>2 DEF ScheduleElection, ElectionTimeout, ManualFailover, ManualTimeout,
                FlagFail, ClearFail, SaveConfig, nodeVars, authVars
  <2> QED BY <2>1, <1>1
<1>3. ASSUME NEW v \in Node, NEW r \in Node, VoteDelayOver(v, r)
      PROVE  CurrentEpochIsHighest'
  <2>1. UNCHANGED <<currentEpoch, configEpoch, failover_auth_epoch, msgs>>
    BY <1>3 DEF VoteDelayOver, authVars
  <2> QED BY <2>1, <1>1
<1>4. CASE UNCHANGED vars
  BY <1>1, <1>4 DEF vars, nodeVars, authVars
<1> QED
  BY <1>2, <1>3, <1>4, HighestCandidate, HighestVote, HighestHeartbeat, HighestUpdate,
     HighestRestart DEF Next

\* In every cluster, over restarts, currentEpoch is never below an epoch the node
\* knows, and no packet brings an epoch above its own (clusterProcessPacket,
\* clusterLoadConfig).
THEOREM EpochsCovered == Spec => []CurrentEpochIsHighest
<1>1. Init => CurrentEpochIsHighest
  <2> SUFFICES ASSUME NEW highest \in {FirstEpoch[s] : s \in Shard}, InitAt(highest),
                      \A s \in Shard : FirstEpoch[s] <= highest
               PROVE  CurrentEpochIsHighest
    BY DEF Init
  <2>1. highest \in Nat
    BY ConstantsAssumption
  <2>2. \A n, r \in Node : FirstConfig(n)[r] <= highest
    BY <2>1, ConstantsAssumption DEF FirstConfig
  <2> QED BY <2>1, <2>2 DEF InitAt, CurrentEpochIsHighest
<1>2. TypeOK /\ CurrentEpochIsHighest /\ [Next]_vars => CurrentEpochIsHighest'
  BY HighestNext
<1> QED BY <1>1, <1>2, TypeCorrect, PTL DEF Spec

\* Only an attempt asks for votes (clusterHandleSlaveFailover).
LEMMA OnlyRequestVotesAsks ==
    ASSUME TypeOK, [Next]_vars, NEW c \in Node,
           auth[c] = "waiting", auth'[c] = "asked"
    PROVE  RequestVotes(c)
<1>1. ~UNCHANGED auth /\ auth \in [Node -> {"idle", "waiting", "asked"}]
  BY DEF TypeOK
<1>2. ASSUME NEW d \in Node,
             ScheduleElection(d) \/ ElectionTimeout(d) \/ Restart(d)
      PROVE  auth'[c] # "asked"
  BY <1>1, <1>2 DEF ScheduleElection, ElectionTimeout, Restart
<1>3. ASSUME NEW d \in Node,
             \/ Promote(d) \/ ManualFailover(d) \/ ManualTimeout(d)
             \/ FlagFail(d) \/ ClearFail(d) \/ SaveConfig(d)
      PROVE  UNCHANGED auth
  BY <1>3 DEF Promote, ManualFailover, ManualTimeout, FlagFail, ClearFail,
              SaveConfig, authVars
<1>4. ASSUME NEW m \in msgs, GrantVote(m) \/ DenyVote(m) \/ HandleAck(m) \/ HandleUpdate(m)
      PROVE  UNCHANGED auth
  BY <1>4 DEF GrantVote, DenyVote, HandleRequest, HandleAck, HandleUpdate, authVars
<1>5. ASSUME NEW n \in Node, NEW k \in Node, VoteDelayOver(n, k) \/ Heartbeat(k, n)
      PROVE  UNCHANGED auth
  BY <1>5 DEF VoteDelayOver, Heartbeat, authVars
<1>6. ASSUME NEW d \in Node, RequestVotes(d)
      PROVE  d = c
  BY <1>1, <1>6 DEF RequestVotes
<1>7. ~UNCHANGED vars
  BY <1>1 DEF vars, authVars
<1> QED BY <1>1, <1>2, <1>3, <1>4, <1>5, <1>6, <1>7 DEF Next

\* In every cluster a slave asks for votes in an epoch above every configEpoch it
\* knows (clusterHandleSlaveFailover).
THEOREM ElectionsTopConfigs == Spec => ElectionTopsKnownConfigs
<1> DEFINE Tops == \A c \in Node :
                     auth[c] = "waiting" /\ auth'[c] = "asked" =>
                         \A r \in Node : configEpoch[c][r] < failover_auth_epoch'[c]
<1>1. ASSUME TypeOK, CurrentEpochIsHighest, [Next]_vars
      PROVE  [Tops]_vars
  <2> SUFFICES ASSUME NEW c \in Node, auth[c] = "waiting", auth'[c] = "asked",
                      NEW r \in Node
               PROVE  configEpoch[c][r] < failover_auth_epoch'[c]
    OBVIOUS
  <2>1. RequestVotes(c)
    BY <1>1, OnlyRequestVotesAsks
  <2>2. /\ currentEpoch[c] \in Nat /\ configEpoch[c][r] \in Nat
        /\ configEpoch[c][r] <= currentEpoch[c]
    BY <1>1 DEF TypeOK, CurrentEpochIsHighest
  <2>3. failover_auth_epoch'[c] = currentEpoch[c] + 1
    BY <1>1, <2>1 DEF RequestVotes, TypeOK
  <2> QED BY <2>2, <2>3
<1> QED
  BY <1>1, TypeCorrect, EpochsCovered, PTL DEF Spec, ElectionTopsKnownConfigs
------------------------------------------------------------------------------

(* No epoch is asked with twice. *)

\* The epoch of every election is in the candidate's nodes.conf, which is never
\* ahead of what the node knows (CLUSTER_TODO_SAVE_CONFIG at a request).
AskedIsSaved ==
    /\ \A a \in asked : a[2] <= disk[a[1]].currentEpoch
    /\ \A n \in Node : disk[n].currentEpoch <= currentEpoch[n]

\* A step of n that raises its epoch, with or without a save, and starts no
\* election.
LEMMA SavedStep ==
    ASSUME TypeOK, AskedIsSaved, NEW n \in Node, NEW e \in Nat,
           disk[n].currentEpoch <= e,
           currentEpoch' = [currentEpoch EXCEPT ![n] = e],
           disk' = disk \/ Persist(n),
           asked' = asked
    PROVE  AskedIsSaved'
<1>1. /\ currentEpoch'[n] = e
      /\ \A c \in Node \ {n} : currentEpoch'[c] = currentEpoch[c]
  BY DEF TypeOK
<1>2. CASE disk' = disk
  BY <1>1, <1>2 DEF AskedIsSaved
<1>3. CASE Persist(n)
  <2>1. /\ disk'[n].currentEpoch = e
        /\ \A c \in Node \ {n} : disk'[c] = disk[c]
    BY <1>1, <1>3 DEF Persist, TypeOK
  <2>2. ASSUME NEW a \in asked
        PROVE  a[2] <= disk'[a[1]].currentEpoch
    <3>1. /\ a[1] \in Node /\ a[2] \in Nat /\ disk[n].currentEpoch \in Nat
          /\ a[2] <= disk[a[1]].currentEpoch
      BY DEF TypeOK, Config, AskedIsSaved
    <3> QED BY <2>1, <3>1
  <2> QED BY <1>1, <2>1, <2>2 DEF AskedIsSaved
<1> QED BY <1>2, <1>3

\* The epochs of a node and of its file are numbers in order.
LEMMA FileBehind ==
    ASSUME TypeOK, AskedIsSaved, NEW n \in Node
    PROVE  /\ currentEpoch[n] \in Nat /\ disk[n].currentEpoch \in Nat
           /\ disk[n].currentEpoch <= currentEpoch[n]
BY DEF TypeOK, Config, AskedIsSaved

\* An election is saved with its epoch before the requests leave.
LEMMA SavedRequest ==
    ASSUME TypeOK, AskedIsSaved, NEW c \in Node, RequestVotes(c)
    PROVE  AskedIsSaved'
<1> DEFINE e == currentEpoch[c] + 1
<1>1. /\ currentEpoch'[c] = e
      /\ \A n \in Node \ {c} : currentEpoch'[n] = currentEpoch[n]
      /\ asked' = asked \cup {<<c, e>>}
  BY DEF RequestVotes, TypeOK
<1>2. /\ disk'[c].currentEpoch = e
      /\ \A n \in Node \ {c} : disk'[n] = disk[n]
  BY <1>1 DEF RequestVotes, Persist, TypeOK
<1>3. e \in Nat /\ disk[c].currentEpoch \in Nat /\ disk[c].currentEpoch <= e
  BY FileBehind
<1>4. ASSUME NEW a \in asked'
      PROVE  a[2] <= disk'[a[1]].currentEpoch
  <2>1. CASE a \in asked
    <3>1. /\ a[1] \in Node /\ a[2] \in Nat
          /\ a[2] <= disk[a[1]].currentEpoch
      BY <2>1 DEF TypeOK, AskedIsSaved
    <3> HIDE DEF e
    <3> QED BY <1>2, <1>3, <3>1
  <2>2. CASE a = <<c, e>>
    <3> HIDE DEF e
    <3> QED BY <1>2, <1>3, <2>2
  <2> QED BY <1>1, <2>1, <2>2
<1>5. \A n \in Node : disk'[n].currentEpoch <= currentEpoch'[n]
  <2> HIDE DEF e
  <2> QED BY <1>1, <1>2, <1>3 DEF AskedIsSaved
<1> QED BY <1>4, <1>5 DEF AskedIsSaved

\* A packet raises the epoch of the node that reads it.
LEMMA SavedPacket ==
    ASSUME TypeOK, CurrentEpochIsHighest, AskedIsSaved, NEW m \in msgs,
           GrantVote(m) \/ DenyVote(m) \/ HandleAck(m) \/ HandleUpdate(m)
    PROVE  AskedIsSaved'
<1> DEFINE e == HeardEpoch(m.to, m)
<1>1. m.to \in Node /\ e \in Nat /\ currentEpoch[m.to] <= e
  BY MessageHighest
<1>2. /\ currentEpoch' = [currentEpoch EXCEPT ![m.to] = e]
      /\ disk' = disk \/ Persist(m.to)
      /\ asked' = asked
  BY DEF GrantVote, DenyVote, HandleAck, HandleUpdate, HandleRequest, PersistIfDirty,
         history
<1>3. disk[m.to].currentEpoch <= e
  <2> HIDE DEF e
  <2> QED BY <1>1, FileBehind
<1> HIDE DEF e
<1> QED BY <1>1, <1>2, <1>3, SavedStep

\* So does a PING or PONG, and one more when two masters collide.
LEMMA SavedHeartbeat ==
    ASSUME TypeOK, CurrentEpochIsHighest, AskedIsSaved, NEW r \in Node, NEW n \in Node,
           Heartbeat(r, n)
    PROVE  AskedIsSaved'
<1> DEFINE e == HeardEpoch(n, Header(r))
<1>1. e \in Nat /\ currentEpoch[n] <= e
  <2>1. /\ Header(r).from \in Node /\ Header(r).epoch \in Nat /\ Header(r).cfg \in Nat
        /\ Header(r).cfg <= Header(r).epoch
    BY HeaderTypes, HeaderHighest
  <2> QED BY <2>1, HeardHighest
<1>2. /\ disk' = disk \/ Persist(n)
      /\ asked' = asked
  BY DEF Heartbeat, PersistIfDirty, history
<1>3. PICK x \in {e, e + 1} : currentEpoch' = [currentEpoch EXCEPT ![n] = x]
  BY DEF Heartbeat, RaiseEpochs
<1>4. x \in Nat /\ disk[n].currentEpoch <= x
  <2> HIDE DEF e
  <2> QED BY <1>1, <1>3, FileBehind
<1> QED BY <1>2, <1>3, <1>4, SavedStep

\* A node that starts again takes an epoch that is not below the file's.
LEMMA SavedRestart ==
    ASSUME TypeOK, AskedIsSaved, NEW n \in Node, Restart(n)
    PROVE  AskedIsSaved'
<1> DEFINE reached == {disk[n].configEpoch[r] : r \in Node} \cup {disk[n].currentEpoch}
<1>1. disk[n].configEpoch \in [Node -> Nat] /\ disk[n].currentEpoch \in Nat
  BY DEF TypeOK, Config
<1>2. PICK e \in reached : /\ \A x \in reached : x <= e
                           /\ currentEpoch' = [currentEpoch EXCEPT ![n] = e]
  BY DEF Restart
<1>3. e \in Nat /\ disk[n].currentEpoch <= e
  BY <1>1, <1>2
<1>4. disk' = disk /\ asked' = asked
  BY DEF Restart
<1> QED BY <1>2, <1>3, <1>4, SavedStep

\* Every action keeps the epochs of elections saved.
LEMMA SavedNext ==
    TypeOK /\ CurrentEpochIsHighest /\ AskedIsSaved /\ [Next]_vars => AskedIsSaved'
<1> SUFFICES ASSUME TypeOK, CurrentEpochIsHighest, AskedIsSaved, [Next]_vars
             PROVE  AskedIsSaved'
  OBVIOUS
<1>1. ASSUME UNCHANGED <<currentEpoch, disk, asked>>
      PROVE  AskedIsSaved'
  BY <1>1 DEF AskedIsSaved
<1>2. ASSUME NEW c \in Node, Promote(c) \/ SaveConfig(c)
      PROVE  AskedIsSaved'
  <2>1. UNCHANGED <<currentEpoch, asked>> /\ Persist(c)
    BY <1>2 DEF Promote, SaveConfig, nodeVars, history
  <2>2. currentEpoch' = [currentEpoch EXCEPT ![c] = currentEpoch[c]]
    BY <2>1 DEF TypeOK
  <2> QED BY <2>1, <2>2, FileBehind, SavedStep
<1>3. ASSUME NEW c \in Node,
             \/ ScheduleElection(c) \/ ElectionTimeout(c) \/ ManualFailover(c)
             \/ ManualTimeout(c) \/ FlagFail(c) \/ ClearFail(c)
      PROVE  AskedIsSaved'
  <2>1. UNCHANGED <<currentEpoch, disk, asked>>
    BY <1>3 DEF ScheduleElection, ElectionTimeout, ManualFailover, ManualTimeout,
                FlagFail, ClearFail, nodeVars, history
  <2> QED BY <2>1, <1>1
<1>4. ASSUME NEW v \in Node, NEW r \in Node, VoteDelayOver(v, r)
      PROVE  AskedIsSaved'
  <2>1. UNCHANGED <<currentEpoch, disk, asked>>
    BY <1>4 DEF VoteDelayOver, history
  <2> QED BY <2>1, <1>1
<1>5. CASE UNCHANGED vars
  BY <1>1, <1>5 DEF vars, nodeVars, history
<1> QED
  BY <1>2, <1>3, <1>4, <1>5, SavedRequest, SavedPacket, SavedHeartbeat, SavedRestart
  DEF Next

\* In every cluster, over restarts, a slave never asks for votes twice with one
\* epoch (CLUSTER_TODO_SAVE_CONFIG in clusterHandleSlaveFailover).
THEOREM EpochsAreNotReused == Spec => NoEpochReuse
<1> DEFINE Fresh == \A c \in Node :
                      auth[c] = "waiting" /\ auth'[c] = "asked" =>
                          <<c, failover_auth_epoch'[c]>> \notin asked
<1>1. Init => AskedIsSaved
  BY DEF Init, InitAt, AskedIsSaved
<1>2. TypeOK /\ CurrentEpochIsHighest /\ AskedIsSaved /\ [Next]_vars => AskedIsSaved'
  BY SavedNext
<1>3. ASSUME TypeOK, AskedIsSaved, [Next]_vars
      PROVE  [Fresh]_vars
  <2> SUFFICES ASSUME NEW c \in Node, auth[c] = "waiting", auth'[c] = "asked",
                      <<c, failover_auth_epoch'[c]>> \in asked
               PROVE  FALSE
    OBVIOUS
  <2>1. failover_auth_epoch'[c] = currentEpoch[c] + 1
    BY <1>3, OnlyRequestVotesAsks DEF RequestVotes, TypeOK
  <2>2. failover_auth_epoch'[c] <= disk[c].currentEpoch
    BY <1>3 DEF AskedIsSaved
  <2> QED BY <1>3, <2>1, <2>2, FileBehind
<1> QED
  BY <1>1, <1>2, <1>3, TypeCorrect, EpochsCovered, PTL DEF Spec, NoEpochReuse

-------------------------------------------------------------------------------
(* What a node announces outlives its process. *)

\* nodes.conf holds the table of the node (clusterSaveConfig at the end of every
\* handler that changes it).
ConfigIsSaved ==
    \A n \in Node : /\ disk[n].configEpoch = configEpoch[n]
                    /\ disk[n].slots = slots[n]
                    /\ disk[n].slaveof = slaveof[n]

\* A step that changes the table of n only, and saves it if it does.
LEMMA DirtyStep ==
    ASSUME TypeOK, ConfigIsSaved, NEW n \in Node,
           \A r \in Node \ {n} : /\ configEpoch'[r] = configEpoch[r]
                                 /\ slots'[r] = slots[r]
                                 /\ slaveof'[r] = slaveof[r],
           Persist(n) \/ PersistIfDirty(n)
    PROVE  ConfigIsSaved'
<1>1. CASE Persist(n)
  <2>1. /\ disk'[n].configEpoch = configEpoch'[n]
        /\ disk'[n].slots = slots'[n]
        /\ disk'[n].slaveof = slaveof'[n]
        /\ \A r \in Node \ {n} : disk'[r] = disk[r]
    BY <1>1 DEF Persist, TypeOK
  <2> QED BY <2>1 DEF ConfigIsSaved
<1>2. CASE UNCHANGED disk /\ PersistIfDirty(n) /\ ~Persist(n)
  <2>1. /\ configEpoch'[n] = configEpoch[n]
        /\ slots'[n] = slots[n]
        /\ slaveof'[n] = slaveof[n]
    BY <1>2 DEF PersistIfDirty
  <2> QED BY <1>2, <2>1 DEF ConfigIsSaved
<1> QED BY <1>1, <1>2 DEF PersistIfDirty

\* Every action leaves the table of a node in its file.
LEMMA ConfigNext == TypeOK /\ ConfigIsSaved /\ [Next]_vars => ConfigIsSaved'
<1> SUFFICES ASSUME TypeOK, ConfigIsSaved, [Next]_vars
             PROVE  ConfigIsSaved'
  OBVIOUS
<1>1. ASSUME UNCHANGED <<configEpoch, slots, slaveof, disk>>
      PROVE  ConfigIsSaved'
  BY <1>1 DEF ConfigIsSaved
<1>2. ASSUME NEW c \in Node, RequestVotes(c) \/ Promote(c) \/ SaveConfig(c)
      PROVE  ConfigIsSaved'
  <2>1. /\ \A r \in Node \ {c} : /\ configEpoch'[r] = configEpoch[r]
                                 /\ slots'[r] = slots[r]
                                 /\ slaveof'[r] = slaveof[r]
        /\ Persist(c)
    BY <1>2 DEF RequestVotes, Promote, SaveConfig, nodeVars, TypeOK
  <2> QED BY <2>1, DirtyStep
<1>3. ASSUME NEW m \in msgs,
             GrantVote(m) \/ DenyVote(m) \/ HandleAck(m) \/ HandleUpdate(m)
      PROVE  ConfigIsSaved'
  <2>1. m.to \in Node
    BY MessageTypes
  <2>2. /\ \A r \in Node \ {m.to} : /\ configEpoch'[r] = configEpoch[r]
                                    /\ slots'[r] = slots[r]
                                    /\ slaveof'[r] = slaveof[r]
        /\ PersistIfDirty(m.to)
    BY <1>3 DEF GrantVote, DenyVote, HandleAck, HandleUpdate, HandleRequest, TypeOK
  <2> QED BY <2>1, <2>2, DirtyStep
<1>4. ASSUME NEW r \in Node, NEW n \in Node, Heartbeat(r, n)
      PROVE  ConfigIsSaved'
  <2>1. /\ \A q \in Node \ {n} : configEpoch'[q] = configEpoch[q]
        /\ \A q \in Node \ {n} : slots'[q] = slots[q] /\ slaveof'[q] = slaveof[q]
        /\ PersistIfDirty(n)
    BY <1>4 DEF Heartbeat, RaiseEpochs, TypeOK
  <2> QED BY <2>1, DirtyStep
<1>5. ASSUME NEW n \in Node, Restart(n)
      PROVE  ConfigIsSaved'
  BY <1>5 DEF Restart, ConfigIsSaved, TypeOK
<1>6. ASSUME NEW c \in Node,
             \/ ScheduleElection(c) \/ ElectionTimeout(c) \/ ManualFailover(c)
             \/ ManualTimeout(c) \/ FlagFail(c) \/ ClearFail(c)
      PROVE  ConfigIsSaved'
  <2>1. UNCHANGED <<configEpoch, slots, slaveof, disk>>
    BY <1>6 DEF ScheduleElection, ElectionTimeout, ManualFailover, ManualTimeout,
                FlagFail, ClearFail, nodeVars
  <2> QED BY <2>1, <1>1
<1>7. ASSUME NEW v \in Node, NEW r \in Node, VoteDelayOver(v, r)
      PROVE  ConfigIsSaved'
  BY <1>1, <1>7 DEF VoteDelayOver
<1>8. CASE UNCHANGED vars
  BY <1>1, <1>8 DEF vars, nodeVars
<1> QED BY <1>2, <1>3, <1>4, <1>5, <1>6, <1>7, <1>8 DEF Next

\* In every cluster a node that restarts announces the role, the slots and the
\* configEpoch it announced before (clusterSaveConfig, clusterLoadConfig).
THEOREM RestartsKeepConfigs == Spec => RestartKeepsConfig
<1> DEFINE Keeps == restarts' # restarts => UNCHANGED <<configEpoch, slots, slaveof>>
<1>1. Init => ConfigIsSaved
  BY DEF Init, InitAt, ConfigIsSaved
<1>2. TypeOK /\ ConfigIsSaved /\ [Next]_vars => ConfigIsSaved'
  BY ConfigNext
<1>3. ASSUME TypeOK, ConfigIsSaved, [Next]_vars
      PROVE  [Keeps]_vars
  <2> SUFFICES ASSUME restarts' # restarts
               PROVE  UNCHANGED <<configEpoch, slots, slaveof>>
    OBVIOUS
  <2>1. PICK n \in Node : Restart(n)
    <3>1. ASSUME NEW c \in Node,
                 \/ ScheduleElection(c) \/ RequestVotes(c) \/ Promote(c)
                 \/ ElectionTimeout(c) \/ ManualFailover(c) \/ ManualTimeout(c)
                 \/ FlagFail(c) \/ ClearFail(c) \/ SaveConfig(c)
          PROVE  FALSE
      BY <3>1 DEF ScheduleElection, RequestVotes, Promote, ElectionTimeout,
                  ManualFailover, ManualTimeout, FlagFail, ClearFail, SaveConfig
    <3>2. ASSUME NEW m \in msgs,
                 GrantVote(m) \/ DenyVote(m) \/ HandleAck(m) \/ HandleUpdate(m)
          PROVE  FALSE
      BY <3>2 DEF GrantVote, DenyVote, HandleRequest, HandleAck, HandleUpdate
    <3>3. ASSUME NEW a \in Node, NEW r \in Node, VoteDelayOver(a, r) \/ Heartbeat(r, a)
          PROVE  FALSE
      BY <3>3 DEF VoteDelayOver, Heartbeat
    <3>4. ~UNCHANGED vars
      BY DEF vars
    <3> QED BY <1>3, <3>1, <3>2, <3>3, <3>4 DEF Next
  <2>2. /\ configEpoch' = configEpoch
        /\ slots' = slots
        /\ slaveof' = slaveof
    BY <1>3, <2>1 DEF Restart, ConfigIsSaved, TypeOK
  <2> QED BY <2>2
<1> QED
  BY <1>1, <1>2, <1>3, TypeCorrect, PTL DEF Spec, RestartKeepsConfig
==============================================================================
