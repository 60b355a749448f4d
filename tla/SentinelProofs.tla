---------------------------- MODULE SentinelProofs ----------------------------
(***************************************************************************)
(* For every set of sentinels and instances: Sentinel keeps its types, a   *)
(* sentinel votes once per epoch over restarts, and two sentinels lead the *)
(* failover of one epoch only after SENTINEL FAILOVER or a late count; and *)
(* the master a sentinel announces is the one its configuration file       *)
(* names, over restarts and in the middle of a failover.                   *)
(***************************************************************************)
EXTENDS Sentinel, FiniteSetTheorems, TLAPS

\* The memory a file is written from is well typed.
LEMMA FlushType ==
    ASSUME NEW s \in Sentinel, TypeOK, Flush(s),
           addr' \in [Sentinel -> Instance], config_epoch' \in [Sentinel -> Nat],
           current_epoch' \in [Sentinel -> Nat], vote' \in [Sentinel -> Vote],
           slaves' \in [Sentinel -> SUBSET Instance],
           failover'[s].state = "reconf_slaves" => failover'[s].promoted \in Instance
    PROVE  disk' \in [Sentinel -> File]
<1>1. MasterAddr(failover'[s], addr'[s]) \in Instance
  BY DEF MasterAddr
<1>2. vote'[s].epoch \in Nat
  BY DEF Vote
<1> QED BY <1>1, <1>2 DEF Flush, Saved, File, TypeOK

\* A vote is well typed.
LEMMA VoteType ==
    ASSUME NEW s \in Sentinel, NEW cur \in Nat, NEW req \in Nat, NEW who \in Sentinel,
           TypeOK, VoteLeader(s, cur, req, who)
    PROVE  /\ current_epoch' \in [Sentinel -> Nat]
           /\ vote' \in [Sentinel -> Vote]
           /\ votes' \in SUBSET [by : Sentinel, for : Sentinel, epoch : Nat]
<1>1. Larger(cur, req) \in Nat
  BY DEF Larger
<1>2. VoteOf(s, cur, req, who) \in Vote
  BY DEF VoteOf, Vote, TypeOK
<1> QED BY <1>1, <1>2 DEF VoteLeader, TypeOK

\* The new master and the tables around it are well typed.
LEMMA ChangeType ==
    ASSUME NEW s \in Sentinel, NEW new \in Instance, TypeOK, ChangeMaster(s, new)
    PROVE  /\ addr' \in [Sentinel -> Instance]
           /\ slaves' \in [Sentinel -> SUBSET Instance]
           /\ sdown' \in [Sentinel -> SUBSET Instance]
           /\ reconf' \in [Sentinel -> [Instance -> {"none", "sent", "inprog", "done"}]]
           /\ failover' = [failover EXCEPT ![s] = Idle]
           /\ vote' \in [Sentinel -> Vote]
<1>1. /\ addr' \in [Sentinel -> Instance]
      /\ slaves' \in [Sentinel -> SUBSET Instance]
      /\ sdown' \in [Sentinel -> SUBSET Instance]
  BY DEF ChangeMaster, TypeOK
<1>2. reconf' \in [Sentinel -> [Instance -> {"none", "sent", "inprog", "done"}]]
  BY DEF ChangeMaster, TypeOK
<1>3. vote' \in [Sentinel -> Vote]
  <2>1. vote \in [Sentinel -> Vote] /\ vote[s] \in Vote
    BY DEF TypeOK
  <2>2. [vote[s] EXCEPT !.leader = None] \in Vote
    BY <2>1 DEF Vote
  <2>3. vote' = [vote EXCEPT ![s] = [vote[s] EXCEPT !.leader = None]]
    BY DEF ChangeMaster
  <2> QED BY <2>1, <2>2, <2>3
<1> QED BY <1>1, <1>2, <1>3 DEF ChangeMaster

\* A failover that ends or never began.
LEMMA IdleType ==
    Idle \in [state : State, epoch : Nat, forced : BOOLEAN, promoted : Instance \cup {None}]
    /\ Idle.state = "none"
BY DEF Idle, State

\* The queries on the links of s are well typed.
LEMMA AskedType ==
    ASSUME NEW s \in Sentinel, NEW epoch \in Nat, TypeOK
    PROVE  Asked(s, epoch) \in [Sentinel -> Query \cup {None}]
BY DEF Asked, TypeOK, Query

\* An order on its way is well typed.
LEMMA SendType ==
    ASSUME NEW s \in Sentinel, NEW i \in Instance, NEW m \in Instance \cup {None},
           TypeOK, Send(s, i, m)
    PROVE  order' \in [Sentinel -> [Instance -> [master : Instance \cup {None}] \cup {None}]]
<1>1. [master |-> m] \in [master : Instance \cup {None}] \cup {None}
  OBVIOUS
<1>2. order' = [order EXCEPT ![s][i] = [master |-> m]]
  BY DEF Send
<1> QED BY <1>1, <1>2 DEF TypeOK

\* The next state of a failover.
LEMMA StateType ==
    ASSUME NEW f \in [state : State, epoch : Nat, forced : BOOLEAN,
                      promoted : Instance \cup {None}],
           NEW st \in State, NEW p \in Instance \cup {None}
    PROVE  /\ [f EXCEPT !.state = st] \in [state : State, epoch : Nat, forced : BOOLEAN,
                                           promoted : Instance \cup {None}]
           /\ [f EXCEPT !.state = st].promoted = f.promoted
           /\ [f EXCEPT !.state = st, !.promoted = p] \in
                 [state : State, epoch : Nat, forced : BOOLEAN,
                  promoted : Instance \cup {None}]
           /\ [f EXCEPT !.state = st, !.promoted = p].promoted = p
OBVIOUS

\* The failover of s moves on.
LEMMA FailoverType ==
    ASSUME NEW s \in Sentinel, NEW g, TypeOK, failover' = [failover EXCEPT ![s] = g],
           g \in [state : State, epoch : Nat, forced : BOOLEAN,
                  promoted : Instance \cup {None}],
           g.state \in {"send_slaveof_noone", "wait_promotion", "reconf_slaves"}
             => g.promoted \in Instance
    PROVE  /\ failover' \in [Sentinel -> [state : State, epoch : Nat, forced : BOOLEAN,
                                          promoted : Instance \cup {None}]]
           /\ \A q \in Sentinel :
                 failover'[q].state \in {"send_slaveof_noone", "wait_promotion",
                                         "reconf_slaves"}
                   => failover'[q].promoted \in Instance
BY DEF TypeOK

\* A count leaves well-typed votes, failovers and elections won.
LEMMA CountType ==
    ASSUME NEW s \in Sentinel, NEW cur \in Nat, NEW fav \in Favourites(s, cur),
           NEW late \in BOOLEAN, NEW fo, TypeOK, Count(s, cur, fo, fav, late),
           fo \in [state : State, epoch : Nat, forced : BOOLEAN,
                   promoted : Instance \cup {None}],
           fo.state = "wait_start"
    PROVE  /\ current_epoch' \in [Sentinel -> Nat]
           /\ vote' \in [Sentinel -> Vote]
           /\ votes' \in SUBSET [by : Sentinel, for : Sentinel, epoch : Nat]
           /\ leads' \in SUBSET [by : Sentinel, epoch : Nat, forced : BOOLEAN,
                                 counted : Nat, quorum : SUBSET Sentinel]
           /\ failover' \in [Sentinel -> [state : State, epoch : Nat, forced : BOOLEAN,
                                          promoted : Instance \cup {None}]]
           /\ \A q \in Sentinel \ {s} : failover'[q] = failover[q]
           /\ failover'[s].state \in {"none", "wait_start", "select_slave"}
<1> DEFINE own == VoteOf(s, cur, fo.epoch, fav)
           won == Wins(s, s, cur, fo.epoch, own)
<1>1. fav \in Sentinel
  BY DEF Favourites
<1>2. VoteLeader(s, cur, fo.epoch, fav)
  BY DEF Count
<1>3. /\ current_epoch' \in [Sentinel -> Nat]
      /\ vote' \in [Sentinel -> Vote]
      /\ votes' \in SUBSET [by : Sentinel, for : Sentinel, epoch : Nat]
  BY <1>1, <1>2, VoteType
<1>4. Votes(s, s, cur, fo.epoch, own) \in SUBSET Sentinel
  BY DEF Votes, VotesFor, Others
<1>5. won \in BOOLEAN
  BY DEF Wins
<1>6. leads' \in SUBSET [by : Sentinel, epoch : Nat, forced : BOOLEAN,
                         counted : Nat, quorum : SUBSET Sentinel]
  <2> DEFINE l == [by |-> s, epoch |-> fo.epoch, forced |-> ~won, counted |-> cur,
                   quorum |-> Votes(s, s, cur, fo.epoch, own)]
  <2>1. l \in [by : Sentinel, epoch : Nat, forced : BOOLEAN, counted : Nat,
               quorum : SUBSET Sentinel]
    BY <1>4, <1>5
  <2>2. leads' = leads \cup (IF won \/ fo.forced THEN {l} ELSE {})
    BY DEF Count
  <2> QED BY <2>1, <2>2 DEF TypeOK
<1>7. /\ failover' \in [Sentinel -> [state : State, epoch : Nat, forced : BOOLEAN,
                                     promoted : Instance \cup {None}]]
      /\ \A q \in Sentinel \ {s} : failover'[q] = failover[q]
      /\ failover'[s].state \in {"none", "wait_start", "select_slave"}
  <2>1. \/ failover' = [failover EXCEPT ![s] = [fo EXCEPT !.state = "select_slave"]]
        \/ failover' = [failover EXCEPT ![s] = Idle]
        \/ failover' = [failover EXCEPT ![s] = fo]
    BY DEF Count
  <2>2. [fo EXCEPT !.state = "select_slave"] \in
           [state : State, epoch : Nat, forced : BOOLEAN, promoted : Instance \cup {None}]
    BY DEF State
  <2>3. PICK g \in [state : State, epoch : Nat, forced : BOOLEAN,
                    promoted : Instance \cup {None}] :
           /\ failover' = [failover EXCEPT ![s] = g]
           /\ g.state \in {"none", "wait_start", "select_slave"}
    <3>1. [fo EXCEPT !.state = "select_slave"].state = "select_slave"
      OBVIOUS
    <3> QED BY <2>1, <2>2, <3>1, IdleType
  <2> QED BY <2>3 DEF TypeOK
<1> QED BY <1>3, <1>6, <1>7

\* Every step keeps the types.
LEMMA NextTypes == TypeOK /\ [Next]_vars => TypeOK'
<1> SUFFICES ASSUME TypeOK, [Next]_vars
             PROVE  TypeOK'
  OBVIOUS
<1> USE SentinelAssumption
<1>1. ASSUME NEW s \in Sentinel, StartFailover(s)
      PROVE  TypeOK'
  <2> DEFINE epoch == current_epoch[s] + 1
             fo    == [Idle EXCEPT !.state = "wait_start", !.epoch = epoch]
  <2>1. epoch \in Nat
    BY DEF TypeOK
  <2>2. fo \in [state : State, epoch : Nat, forced : BOOLEAN,
               promoted : Instance \cup {None}] /\ fo.state = "wait_start"
    BY <2>1 DEF Idle, State
  <2>3. PICK fav \in Favourites(s, epoch) : Count(s, epoch, fo, fav, FALSE)
    BY <1>1 DEF StartFailover
  <2>4. /\ current_epoch' \in [Sentinel -> Nat]
        /\ vote' \in [Sentinel -> Vote]
        /\ votes' \in SUBSET [by : Sentinel, for : Sentinel, epoch : Nat]
        /\ leads' \in SUBSET [by : Sentinel, epoch : Nat, forced : BOOLEAN,
                              counted : Nat, quorum : SUBSET Sentinel]
        /\ failover' \in [Sentinel -> [state : State, epoch : Nat, forced : BOOLEAN,
                                       promoted : Instance \cup {None}]]
        /\ \A q \in Sentinel \ {s} : failover'[q] = failover[q]
        /\ failover'[s].state \in {"none", "wait_start", "select_slave"}
    <3> HIDE DEF epoch, fo
    <3> QED BY <2>1, <2>2, <2>3, CountType
  <2>5. link' \in [Sentinel -> [Sentinel -> Query \cup {None}]]
    BY <1>1, <2>1, AskedType DEF StartFailover, TypeOK
  <2>6. UNCHANGED <<tables, views, order, instances, restarted>>
    BY <1>1 DEF StartFailover
  <2>7. disk' \in [Sentinel -> File]
    <3>1. CASE Flush(s)
      BY <2>4, <2>6, <3>1, FlushType DEF TypeOK, tables
    <3>2. CASE UNCHANGED disk
      BY <3>2 DEF TypeOK
    <3> QED BY <1>1, <3>1, <3>2 DEF StartFailover
  <2> QED BY <2>4, <2>5, <2>6, <2>7 DEF TypeOK, tables, views, instances
<1>2. ASSUME NEW s \in Sentinel, WaitStart(s)
      PROVE  TypeOK'
  <2> DEFINE cur == current_epoch[s]
             fo  == failover[s]
  <2>1. cur \in Nat
    BY DEF TypeOK
  <2>2. fo \in [state : State, epoch : Nat, forced : BOOLEAN,
               promoted : Instance \cup {None}] /\ fo.state = "wait_start"
    BY <1>2 DEF WaitStart, TypeOK
  <2>3. PICK fav \in Favourites(s, cur), late \in BOOLEAN : Count(s, cur, fo, fav, late)
    BY <1>2 DEF WaitStart
  <2>4. /\ current_epoch' \in [Sentinel -> Nat]
        /\ vote' \in [Sentinel -> Vote]
        /\ votes' \in SUBSET [by : Sentinel, for : Sentinel, epoch : Nat]
        /\ leads' \in SUBSET [by : Sentinel, epoch : Nat, forced : BOOLEAN,
                              counted : Nat, quorum : SUBSET Sentinel]
        /\ failover' \in [Sentinel -> [state : State, epoch : Nat, forced : BOOLEAN,
                                       promoted : Instance \cup {None}]]
        /\ \A q \in Sentinel \ {s} : failover'[q] = failover[q]
        /\ failover'[s].state \in {"none", "wait_start", "select_slave"}
    <3> HIDE DEF cur, fo
    <3> QED BY <2>1, <2>2, <2>3, CountType
  <2>5. UNCHANGED <<tables, views, link, order, instances, restarted>>
    BY <1>2 DEF WaitStart
  <2>6. disk' \in [Sentinel -> File]
    <3>1. CASE Flush(s)
      BY <2>4, <2>5, <3>1, FlushType DEF TypeOK, tables
    <3>2. CASE UNCHANGED disk
      BY <3>2 DEF TypeOK
    <3> QED BY <1>2, <3>1, <3>2 DEF WaitStart
  <2> QED BY <2>4, <2>5, <2>6 DEF TypeOK, tables, views, instances
<1>3. ASSUME NEW s \in Sentinel, ForceFailover(s)
      PROVE  TypeOK'
  BY <1>3 DEF ForceFailover, TypeOK, tables, views, instances, State
<1>4. ASSUME NEW s \in Sentinel, SelectSlave(s)
      PROVE  TypeOK'
  <2>1. UNCHANGED <<tables, election, views, disk, link, order, instances, restarted>>
    BY <1>4 DEF SelectSlave
  <2>2. PICK g \in [state : State, epoch : Nat, forced : BOOLEAN,
                    promoted : Instance \cup {None}] :
           /\ failover' = [failover EXCEPT ![s] = g]
           /\ g.state # "none" => g.promoted \in Instance
    <3>1. CASE Abort(s)
      BY <3>1, IdleType DEF Abort
    <3>2. CASE \E i \in Selectable(s) :
                 failover' = [failover EXCEPT ![s].state = "send_slaveof_noone",
                                              ![s].promoted = i]
      <4>1. PICK i \in Selectable(s) :
               failover' = [failover EXCEPT ![s].state = "send_slaveof_noone",
                                            ![s].promoted = i]
        BY <3>2
      <4>2. i \in Instance
        BY DEF Selectable, TypeOK
      <4> DEFINE g == [failover[s] EXCEPT !.state = "send_slaveof_noone", !.promoted = i]
      <4>3. failover' = [failover EXCEPT ![s] = g]
        BY <4>1 DEF TypeOK
      <4>4. g \in [state : State, epoch : Nat, forced : BOOLEAN,
                   promoted : Instance \cup {None}] /\ g.promoted = i
        <5>1. failover[s] \in [state : State, epoch : Nat, forced : BOOLEAN,
                               promoted : Instance \cup {None}]
          BY DEF TypeOK
        <5>2. "send_slaveof_noone" \in State
          BY DEF State
        <5> QED BY <4>2, <5>1, <5>2, StateType
      <4> QED BY <4>2, <4>3, <4>4
    <3> QED BY <1>4, <3>1, <3>2 DEF SelectSlave
  <2> QED BY <2>1, <2>2, FailoverType DEF TypeOK, tables, election, views, instances
<1>5. ASSUME NEW s \in Sentinel, SendSlaveOfNoOne(s)
      PROVE  TypeOK'
  <2>1. UNCHANGED <<tables, election, views, disk, link, instances, restarted>>
    BY <1>5 DEF SendSlaveOfNoOne
  <2>2. failover[s].promoted \in Instance
    BY <1>5 DEF SendSlaveOfNoOne, TypeOK
  <2>3. CASE Send(s, failover[s].promoted, None)
             /\ failover' = [failover EXCEPT ![s].state = "wait_promotion"]
    <3> DEFINE g == [failover[s] EXCEPT !.state = "wait_promotion"]
    <3>1. g \in [state : State, epoch : Nat, forced : BOOLEAN,
                 promoted : Instance \cup {None}] /\ g.promoted \in Instance
      <4>1. failover[s] \in [state : State, epoch : Nat, forced : BOOLEAN,
                             promoted : Instance \cup {None}]
        BY DEF TypeOK
      <4>2. "wait_promotion" \in State
        BY DEF State
      <4> QED BY <2>2, <4>1, <4>2, StateType
    <3>2. failover' = [failover EXCEPT ![s] = g]
      BY <2>3
    <3>3. order' \in [Sentinel -> [Instance -> [master : Instance \cup {None}] \cup {None}]]
      BY <2>2, <2>3, SendType
    <3> QED
      BY <2>1, <3>1, <3>2, <3>3, FailoverType DEF TypeOK, tables, election, views, instances
  <2>4. CASE Abort(s) /\ UNCHANGED order
    BY <2>1, <2>4, IdleType, FailoverType DEF Abort, TypeOK, tables, election, views, instances
  <2> QED BY <1>5, <2>3, <2>4 DEF SendSlaveOfNoOne
<1>6. ASSUME NEW s \in Sentinel, PromotionTimeout(s)
      PROVE  TypeOK'
  BY <1>6, IdleType DEF PromotionTimeout, Abort, TypeOK, tables, election, views, instances
<1>7. ASSUME NEW s \in Sentinel, DetectEnd(s)
      PROVE  TypeOK'
  <2>1. failover[s].promoted \in Instance
    BY <1>7 DEF DetectEnd, TypeOK
  <2>2. ChangeMaster(s, failover[s].promoted)
    BY <1>7 DEF DetectEnd
  <2>3. /\ addr' \in [Sentinel -> Instance]
        /\ slaves' \in [Sentinel -> SUBSET Instance]
        /\ sdown' \in [Sentinel -> SUBSET Instance]
        /\ reconf' \in [Sentinel -> [Instance -> {"none", "sent", "inprog", "done"}]]
        /\ failover' = [failover EXCEPT ![s] = Idle]
        /\ vote' \in [Sentinel -> Vote]
    BY <2>1, <2>2, ChangeType
  <2>4. /\ UNCHANGED <<config_epoch, current_epoch, votes, leads, views, link, order,
                       instances, restarted>>
        /\ Flush(s)
    BY <1>7 DEF DetectEnd
  <2>5. order' \in [Sentinel -> [Instance -> [master : Instance \cup {None}] \cup {None}]]
    BY <2>4 DEF TypeOK
  <2>6. failover'[s].state = "none"
    BY <2>3, IdleType DEF TypeOK
  <2>7. disk' \in [Sentinel -> File]
    BY <2>3, <2>4, <2>6, FlushType DEF TypeOK
  <2> QED BY <2>3, <2>4, <2>5, <2>7, IdleType DEF TypeOK, views, instances
<1>8. ASSUME NEW s \in Sentinel, InfoMaster(s)
      PROVE  TypeOK'
  BY <1>8 DEF InfoMaster, TypeOK, election, views, instances
<1>9. ASSUME NEW s \in Sentinel, Ask(s)
      PROVE  TypeOK'
  BY <1>9, AskedType DEF Ask, TypeOK, tables, election, views, instances
<1>10. ASSUME NEW s \in Sentinel, Restart(s)
       PROVE  TypeOK'
  <2>1. /\ disk[s].config_epoch \in Nat /\ disk[s].current_epoch \in Nat
        /\ disk[s].addr \in Instance /\ disk[s].slaves \in SUBSET Instance
        /\ disk[s].leader_epoch \in Nat
    BY DEF TypeOK, File
  <2>2. /\ current_epoch' \in [Sentinel -> Nat]
        /\ config_epoch' \in [Sentinel -> Nat]
        /\ addr' \in [Sentinel -> Instance]
        /\ slaves' \in [Sentinel -> SUBSET Instance]
    BY <1>10, <2>1 DEF Restart, TypeOK
  <2>3. /\ vote' \in [Sentinel -> Vote]
        /\ seen' \in [Sentinel -> [Sentinel -> Vote]]
    BY <1>10, <2>1 DEF Restart, TypeOK, Vote, NoVote
  <2>4. /\ sdown' \in [Sentinel -> SUBSET Instance]
        /\ masterDown' \in [Sentinel -> SUBSET Sentinel]
        /\ restarted' \in SUBSET Sentinel
        /\ failover' = [failover EXCEPT ![s] = Idle]
    BY <1>10 DEF Restart, TypeOK
  <2>5. /\ reconf' \in [Sentinel -> [Instance -> {"none", "sent", "inprog", "done"}]]
        /\ order' \in [Sentinel -> [Instance -> [master : Instance \cup {None}] \cup {None}]]
        /\ link' \in [Sentinel -> [Sentinel -> Query \cup {None}]]
    BY <1>10 DEF Restart, TypeOK
  <2>6. UNCHANGED <<disk, instances, votes, leads>>
    BY <1>10 DEF Restart
  <2> QED BY <2>2, <2>3, <2>4, <2>5, <2>6, IdleType DEF TypeOK, instances
<1>11. ASSUME NEW s \in Sentinel, NEW r \in Sentinel, AskDown(s, r) \/ Forget(s, r)
       PROVE  TypeOK'
  <2>1. NoVote \in Vote
    BY DEF NoVote, Vote
  <2>2. CASE AskDown(s, r)
    BY <2>2 DEF AskDown, Heard, TypeOK, tables, election, instances
  <2>3. CASE Forget(s, r)
    <3>1. seen' \in [Sentinel -> [Sentinel -> Vote]]
      BY <2>1, <2>3 DEF Forget, TypeOK
    <3> QED BY <2>3, <3>1 DEF Forget, TypeOK, tables, election, instances
  <2> QED BY <1>11, <2>2, <2>3
<1>12. ASSUME NEW s \in Sentinel, NEW r \in Sentinel, Answer(s, r)
       PROVE  TypeOK'
  <2>1. link[s][r] \in Query
    BY <1>12 DEF Answer, TypeOK
  <2>2. link[s][r].epoch \in Nat /\ current_epoch[r] \in Nat
    BY <2>1 DEF Query, TypeOK
  <2>3. /\ current_epoch' \in [Sentinel -> Nat]
        /\ vote' \in [Sentinel -> Vote]
        /\ votes' \in SUBSET [by : Sentinel, for : Sentinel, epoch : Nat]
    <3>1. CASE VoteLeader(r, current_epoch[r], link[s][r].epoch, s)
      BY <2>2, <3>1, VoteType
    <3>2. CASE UNCHANGED <<current_epoch, vote, votes>>
      BY <3>2 DEF TypeOK
    <3> QED BY <1>12, <3>1, <3>2 DEF Answer
  <2>4. /\ UNCHANGED <<tables, failover, leads, order, instances, restarted>>
        /\ link' = [link EXCEPT ![s][r] = None]
    BY <1>12 DEF Answer
  <2>5. /\ masterDown' \in [Sentinel -> SUBSET Sentinel]
        /\ seen' \in [Sentinel -> [Sentinel -> Vote]]
    <3>1. CASE UNCHANGED views
      BY <3>1 DEF TypeOK, views
    <3>2. CASE /\ Heard(s, r, link[s][r].addr)
               /\ seen' = [seen EXCEPT ![s][r] = vote'[r]] \/ seen' = seen
      <4>1. vote'[r] \in Vote
        BY <2>3
      <4>2. seen' \in [Sentinel -> [Sentinel -> Vote]]
        <5> DEFINE v == vote'[r]
        <5>1. v \in Vote
          BY <4>1
        <5>2. seen \in [Sentinel -> [Sentinel -> Vote]]
          BY DEF TypeOK
        <5>3. seen' = [seen EXCEPT ![s][r] = v] \/ seen' = seen
          BY <3>2
        <5> HIDE DEF v
        <5> QED BY <5>1, <5>2, <5>3
      <4> QED BY <3>2, <4>2 DEF Heard, TypeOK
    <3> QED BY <1>12, <3>1, <3>2 DEF Answer
  <2>6. disk' \in [Sentinel -> File]
    <3>1. CASE Flush(r)
      BY <2>3, <2>4, <3>1, FlushType DEF TypeOK, tables
    <3>2. CASE UNCHANGED disk
      BY <3>2 DEF TypeOK
    <3> QED BY <1>12, <3>1, <3>2 DEF Answer
  <2> QED BY <2>3, <2>4, <2>5, <2>6 DEF TypeOK, tables, instances
<1>13. ASSUME NEW s \in Sentinel, NEW r \in Sentinel, Hello(s, r)
       PROVE  TypeOK'
  <2>1. current_epoch[r] \in Nat /\ config_epoch[r] \in Nat /\ Announced(r) \in Instance
        /\ Announced(s) \in Instance /\ vote[s].epoch \in Nat
    BY DEF TypeOK, Announced, MasterAddr, Vote
  <2>2. current_epoch' \in [Sentinel -> Nat] /\ config_epoch' \in [Sentinel -> Nat]
    BY <1>13, <2>1 DEF Hello, TypeOK, Larger
  <2>3. UNCHANGED <<votes, leads, views, link, order, instances, restarted>>
    BY <1>13 DEF Hello
  <2>4. CASE ChangeMaster(s, Announced(r)) /\ Flush(s)
    <3>1. /\ addr' \in [Sentinel -> Instance]
          /\ slaves' \in [Sentinel -> SUBSET Instance]
          /\ sdown' \in [Sentinel -> SUBSET Instance]
          /\ reconf' \in [Sentinel -> [Instance -> {"none", "sent", "inprog", "done"}]]
          /\ failover' = [failover EXCEPT ![s] = Idle]
          /\ vote' \in [Sentinel -> Vote]
      BY <2>1, <2>4, ChangeType
    <3>2. failover'[s].state = "none"
      BY <3>1, IdleType DEF TypeOK
    <3>3. disk' \in [Sentinel -> File]
      BY <2>2, <2>4, <3>1, <3>2, FlushType
    <3> QED BY <2>2, <2>3, <3>1, <3>3, IdleType DEF TypeOK, views, instances
  <2>5. CASE /\ UNCHANGED <<addr, slaves, sdown, reconf, failover, vote>>
             /\ \/ disk' = [disk EXCEPT ![s] = Saved(Announced(s), config_epoch[s],
                                       current_epoch[r], vote[s].epoch, slaves[s])]
                \/ UNCHANGED disk
    <3>1. Saved(Announced(s), config_epoch[s], current_epoch[r], vote[s].epoch, slaves[s])
             \in File
      BY <2>1 DEF Saved, File, TypeOK
    <3>2. disk' \in [Sentinel -> File]
      <4> DEFINE f == Saved(Announced(s), config_epoch[s], current_epoch[r], vote[s].epoch,
                            slaves[s])
      <4>1. f \in File
        BY <3>1
      <4>2. disk' = [disk EXCEPT ![s] = f] \/ disk' = disk
        BY <2>5
      <4>3. disk \in [Sentinel -> File]
        BY DEF TypeOK
      <4> HIDE DEF f
      <4> QED BY <4>1, <4>2, <4>3
    <3> QED BY <2>2, <2>3, <2>5, <3>2 DEF TypeOK, views, instances
  <2> QED BY <1>13, <2>4, <2>5 DEF Hello
<1>14. ASSUME NEW s \in Sentinel, NEW i \in Instance, SDown(s, i) \/ ReconfNextSlave(s, i)
       PROVE  TypeOK'
  <2>1. CASE SDown(s, i)
    BY <2>1 DEF SDown, TypeOK, election, views, instances
  <2>2. CASE ReconfNextSlave(s, i)
    <3>1. failover[s].promoted \in Instance
      BY <2>2 DEF ReconfNextSlave, TypeOK
    <3>2. order' \in [Sentinel -> [Instance -> [master : Instance \cup {None}] \cup {None}]]
      BY <2>2, <3>1, SendType DEF ReconfNextSlave
    <3>3. reconf' \in [Sentinel -> [Instance -> {"none", "sent", "inprog", "done"}]]
      BY <2>2 DEF ReconfNextSlave, TypeOK
    <3> QED
      BY <2>2, <3>2, <3>3 DEF ReconfNextSlave, TypeOK, election, views, instances
  <2> QED BY <1>14, <2>1, <2>2
<1>15. ASSUME NEW s \in Sentinel, NEW i \in Instance, Promoted(s, i)
       PROVE  TypeOK'
  <2>1. config_epoch' \in [Sentinel -> Nat]
    BY <1>15 DEF Promoted, TypeOK
  <2> DEFINE g == [failover[s] EXCEPT !.state = "reconf_slaves"]
  <2>2. failover[s].promoted \in Instance
    BY <1>15 DEF Promoted, TypeOK
  <2>3. g \in [state : State, epoch : Nat, forced : BOOLEAN,
               promoted : Instance \cup {None}] /\ g.promoted \in Instance
    <3>1. failover[s] \in [state : State, epoch : Nat, forced : BOOLEAN,
                           promoted : Instance \cup {None}]
      BY DEF TypeOK
    <3>2. "reconf_slaves" \in State
      BY DEF State
    <3> QED BY <2>2, <3>1, <3>2, StateType
  <2>4. failover' = [failover EXCEPT ![s] = g]
    BY <1>15 DEF Promoted
  <2>5. /\ failover' \in [Sentinel -> [state : State, epoch : Nat, forced : BOOLEAN,
                                       promoted : Instance \cup {None}]]
        /\ \A q \in Sentinel :
              failover'[q].state \in {"send_slaveof_noone", "wait_promotion",
                                      "reconf_slaves"}
                => failover'[q].promoted \in Instance
    <3> HIDE DEF g
    <3> QED BY <2>3, <2>4, FailoverType
  <2>6. /\ UNCHANGED <<addr, slaves, sdown, reconf, election, views, link, order, instances,
                       restarted>>
        /\ Flush(s)
    BY <1>15 DEF Promoted
  <2>7. disk' \in [Sentinel -> File]
    BY <2>1, <2>5, <2>6, FlushType DEF TypeOK, election
  <2> QED BY <2>1, <2>5, <2>6, <2>7 DEF TypeOK, election, views, instances
<1>16. ASSUME NEW s \in Sentinel, NEW i \in Instance, ConvertToSlave(s, i) \/ SlaveOf(s, i)
       PROVE  TypeOK'
  <2>1. CASE ConvertToSlave(s, i)
    <3>1. order' \in [Sentinel -> [Instance -> [master : Instance \cup {None}] \cup {None}]]
      BY <2>1, SendType DEF ConvertToSlave, TypeOK
    <3> QED BY <2>1, <3>1 DEF ConvertToSlave, TypeOK, tables, election, views, instances
  <2>2. CASE SlaveOf(s, i)
    <3>1. order[s][i].master \in Instance \cup {None}
      BY <2>2 DEF SlaveOf, TypeOK
    <3>2. /\ role' \in [Instance -> Instance \cup {None}]
          /\ order' \in [Sentinel -> [Instance -> [master : Instance \cup {None}] \cup {None}]]
      BY <2>2, <3>1 DEF SlaveOf, TypeOK
    <3> QED BY <2>2, <3>2 DEF SlaveOf, TypeOK, tables, election, views
  <2> QED BY <1>16, <2>1, <2>2
<1>17. ASSUME NEW s \in Sentinel, NEW i \in Instance, InfoSlave(s, i)
       PROVE  TypeOK'
  <2>1. AfterInfo(s, i) \subseteq {"none", "sent", "inprog", "done"}
    BY DEF AfterInfo, TypeOK
  <2>2. reconf' \in [Sentinel -> [Instance -> {"none", "sent", "inprog", "done"}]]
    BY <1>17, <2>1 DEF InfoSlave, TypeOK
  <2>3. order' \in [Sentinel -> [Instance -> [master : Instance \cup {None}] \cup {None}]]
    <3>1. CASE Send(s, i, addr[s])
      BY <3>1, SendType DEF TypeOK
    <3>2. CASE UNCHANGED order
      BY <3>2 DEF TypeOK
    <3> QED BY <1>17, <3>1, <3>2 DEF InfoSlave
  <2>4. UNCHANGED <<config_epoch, addr, slaves, sdown, election, views, failover, disk,
                    link, instances, restarted>>
    BY <1>17 DEF InfoSlave
  <2> QED BY <2>2, <2>3, <2>4 DEF TypeOK, election, views, instances
<1>18. ASSUME NEW i \in Instance, Crash(i) \/ Recover(i)
       PROVE  TypeOK'
  <2>1. order' \in [Sentinel -> [Instance -> [master : Instance \cup {None}] \cup {None}]]
    <3>1. ASSUME NEW s \in Sentinel
          PROVE  [order[s] EXCEPT ![i] = None]
                    \in [Instance -> [master : Instance \cup {None}] \cup {None}]
      BY DEF TypeOK
    <3>2. CASE Crash(i)
      BY <3>1, <3>2 DEF Crash
    <3>3. CASE Recover(i)
      BY <3>3 DEF Recover, TypeOK
    <3> QED BY <1>18, <3>2, <3>3
  <2> QED BY <1>18, <2>1 DEF Crash, Recover, TypeOK, tables, election, views
<1>19. CASE UNCHANGED vars
  BY <1>19 DEF vars, TypeOK, tables, election, views, instances
<1> QED
  BY <1>1, <1>2, <1>3, <1>4, <1>5, <1>6, <1>7, <1>8, <1>9, <1>10, <1>11, <1>12, <1>13,
     <1>14, <1>15, <1>16, <1>17, <1>18, <1>19 DEF Next

\* Every reachable state is well typed (sentinelState and sentinelRedisInstance).
THEOREM TypeCorrect == Spec => []TypeOK
<1>1. Init => TypeOK
  BY SentinelAssumption
  DEF Init, FirstSlaves, TypeOK, Idle, NoVote, Saved, File, Vote, State
<1>2. TypeOK /\ [Next]_vars => TypeOK'
  BY NextTypes
<1> QED BY <1>1, <1>2, PTL DEF Spec

-------------------------------------------------------------------------------
(* One vote per epoch. *)

\* What the votes given have to do with the vote a sentinel remembers, in memory
\* and in its file: none is of a later epoch, and that of the same epoch is it,
\* unless a restart or a change of master forgot whom it was for.
Remembered ==
    /\ \A v \in votes : /\ v.epoch <= vote[v.by].epoch
                        /\ v.epoch = vote[v.by].epoch => vote[v.by].leader \in {v.for, None}
    /\ \A s \in Sentinel : disk[s].leader_epoch = vote[s].epoch

\* A vote that is known of was given.
Given(s, v) == v.leader # None => [by |-> s, for |-> v.leader, epoch |-> v.epoch] \in votes
AllGiven == /\ \A s \in Sentinel : Given(s, vote[s])
            /\ \A s, r \in Sentinel : Given(r, seen[s][r])

\* Who leads without being told to has a majority; if the count was of the epoch of
\* the failover, these are votes of that epoch for it.
Backed(l) ==
    ~l.forced =>
       /\ Cardinality(l.quorum) >= (Cardinality(Sentinel) \div 2) + 1
       /\ l.counted = l.epoch =>
             \A r \in l.quorum : [by |-> r, for |-> l.by, epoch |-> l.epoch] \in votes
AllBacked == \A l \in leads : Backed(l)

VotingInvariant == Remembered /\ VotesOnce /\ AllGiven /\ AllBacked

\* A vote, with the save that follows it, keeps the ballots in order.
LEMMA VoteKeeps ==
    ASSUME NEW s \in Sentinel, NEW cur \in Nat, NEW req \in Nat, NEW who \in Sentinel,
           TypeOK, Remembered, VotesOnce, \A q \in Sentinel : Given(q, vote[q]),
           VoteLeader(s, cur, req, who),
           \A q \in Sentinel : disk'[q].leader_epoch = vote'[q].epoch
    PROVE  /\ Remembered' /\ VotesOnce'
           /\ \A q \in Sentinel : Given(q, vote[q])'
           /\ votes \subseteq votes'
           /\ vote'[s] = VoteOf(s, cur, req, who)
<1>1. /\ vote \in [Sentinel -> Vote]
      /\ votes \in SUBSET [by : Sentinel, for : Sentinel, epoch : Nat]
  BY DEF TypeOK
<1>2. CASE Grants(s, cur, req)
  <2> DEFINE new == [by |-> s, for |-> who, epoch |-> req]
  <2>1. /\ vote' = [vote EXCEPT ![s] = [leader |-> who, epoch |-> req]]
        /\ votes' = votes \cup {new}
        /\ vote[s].epoch < req
    BY <1>2 DEF VoteLeader, VoteOf, Grants
  <2>2. /\ vote'[s].leader = who /\ vote'[s].epoch = req
        /\ \A q \in Sentinel \ {s} : vote'[q] = vote[q]
    BY <1>1, <2>1
  <2>3. \A v \in votes : v.by = s => v.epoch < req
    BY <1>1, <2>1 DEF Remembered, Vote
  <2>4. Remembered'
    BY <1>1, <2>1, <2>2, <2>3 DEF Remembered
  <2>5. VotesOnce'
    BY <1>1, <2>1, <2>3 DEF VotesOnce
  <2>6. \A q \in Sentinel : Given(q, vote[q])'
    BY <2>1, <2>2 DEF Given
  <2> QED BY <1>1, <1>2, <2>1, <2>4, <2>5, <2>6 DEF VoteOf
<1>3. CASE ~Grants(s, cur, req)
  <2>1. vote' = vote /\ votes' = votes
    BY <1>1, <1>3 DEF VoteLeader, VoteOf
  <2> QED BY <1>3, <2>1 DEF Remembered, VotesOnce, Given, VoteOf
<1> QED BY <1>2, <1>3

\* What others voted stays given, and who leads stays backed.
LEMMA StillGiven ==
    ASSUME votes \subseteq votes', AllGiven, AllBacked
    PROVE  /\ seen' = seen => \A s, r \in Sentinel : Given(r, seen[s][r])'
           /\ \A l \in leads : Backed(l)'
BY DEF AllGiven, AllBacked, Given, Backed

\* The file of the sentinel that saves holds the epoch of its vote, the others' are
\* untouched.
LEMMA FlushEpoch ==
    ASSUME NEW s \in Sentinel, TypeOK, Flush(s)
    PROVE  /\ disk'[s].leader_epoch = vote'[s].epoch
           /\ \A q \in Sentinel \ {s} : disk'[q] = disk[q]
BY DEF Flush, Saved, TypeOK

\* The files hold the epochs of the votes after a vote that is saved when given.
LEMMA VoteSaved ==
    ASSUME NEW s \in Sentinel, NEW cur, NEW req, NEW who, TypeOK, Remembered,
           VoteLeader(s, cur, req, who),
           Flush(s) \/ (~Grants(s, cur, req) /\ disk' = disk)
    PROVE  \A q \in Sentinel : disk'[q].leader_epoch = vote'[q].epoch
<1>1. \A q \in Sentinel \ {s} : vote'[q] = vote[q]
  BY DEF VoteLeader, TypeOK
<1>2. CASE Flush(s)
  BY <1>1, <1>2, FlushEpoch DEF Remembered
<1>3. CASE ~Grants(s, cur, req) /\ disk' = disk
  <2>1. vote' = vote
    BY <1>3 DEF VoteLeader, VoteOf, TypeOK
  <2> QED BY <1>3, <2>1 DEF Remembered
<1> QED BY <1>2, <1>3

\* Who a count makes leader is backed by its votes.
LEMMA CountKeeps ==
    ASSUME NEW s \in Sentinel, NEW fo, NEW cur \in Nat, NEW fav \in Favourites(s, cur),
           NEW late \in BOOLEAN, fo.epoch \in Nat, TypeOK, VotingInvariant, Count(s, cur, fo, fav, late), seen' = seen,
           Flush(s) \/ (~Grants(s, cur, fo.epoch) /\ disk' = disk)
    PROVE  VotingInvariant'
<1> DEFINE own == VoteOf(s, cur, fo.epoch, fav)
           won == Wins(s, s, cur, fo.epoch, own)
           quorum == Votes(s, s, cur, fo.epoch, own)
           l == [by |-> s, epoch |-> fo.epoch, forced |-> ~won, counted |-> cur,
                 quorum |-> quorum]
<1>1. fav \in Sentinel
  BY DEF Favourites
<1>2. VoteLeader(s, cur, fo.epoch, fav)
  BY DEF Count
<1>3. \A q \in Sentinel : disk'[q].leader_epoch = vote'[q].epoch
  BY <1>2, VoteSaved DEF VotingInvariant
<1>4. /\ Remembered' /\ VotesOnce'
      /\ \A q \in Sentinel : Given(q, vote[q])'
      /\ votes \subseteq votes'
      /\ vote'[s] = own
  BY <1>1, <1>2, <1>3, VoteKeeps DEF VotingInvariant, AllGiven
<1>5. /\ \A q, r \in Sentinel : Given(r, seen[q][r])'
      /\ \A m \in leads : Backed(m)'
  BY <1>4, StillGiven DEF VotingInvariant
<1>6. leads' = leads \cup (IF won \/ fo.forced THEN {l} ELSE {})
  BY DEF Count
<1>7. ASSUME NEW m, m = l
      PROVE  Backed(m)'
  <2>0. m.by = s /\ m.epoch = fo.epoch /\ m.forced = ~won /\ m.counted = cur
        /\ m.quorum = quorum
    BY <1>7
  <2> SUFFICES ASSUME won
               PROVE  /\ Cardinality(quorum) >= (Cardinality(Sentinel) \div 2) + 1
                      /\ cur = fo.epoch =>
                            \A r \in quorum : [by |-> r, for |-> s, epoch |-> fo.epoch] \in votes'
    <3> HIDE DEF won, quorum, l
    <3> QED BY <2>0 DEF Backed
  <2>1. Cardinality(quorum) >= (Cardinality(Sentinel) \div 2) + 1
    BY DEF Wins
  <2>2. ASSUME cur = fo.epoch, NEW r \in quorum
        PROVE  [by |-> r, for |-> s, epoch |-> fo.epoch] \in votes'
    <3>1. CASE r \in VotesFor(s, s, cur)
      <4>1. r \in Sentinel /\ seen[s][r] = [leader |-> s, epoch |-> cur]
        BY <3>1 DEF VotesFor, Others
      <4>2. s # None
        BY SentinelAssumption
      <4> QED BY <1>4, <2>2, <4>1, <4>2 DEF VotingInvariant, AllGiven, Given
    <3>2. CASE r = s /\ own = [leader |-> s, epoch |-> fo.epoch]
      <4>1. vote'[s].leader = s /\ vote'[s].epoch = fo.epoch
        BY <1>4, <3>2
      <4>2. s # None
        BY SentinelAssumption
      <4> QED BY <1>4, <3>2, <4>1, <4>2 DEF Given
    <3> QED BY <2>2, <3>1, <3>2 DEF Votes
  <2> QED BY <2>1, <2>2
<1>8. AllBacked'
  <2> SUFFICES ASSUME NEW m \in leads'
               PROVE  Backed(m)'
    BY DEF AllBacked
  <2>1. m \in leads \/ m = l
    BY <1>6
  <2> QED BY <1>5, <1>7, <2>1
<1>9. AllGiven'
  BY <1>4, <1>5 DEF AllGiven
<1> QED BY <1>4, <1>8, <1>9 DEF VotingInvariant

\* A step that gives no vote, wins no election and at most forgets whom a vote was
\* for keeps the invariant.
LEMMA ForgetKeeps ==
    ASSUME TypeOK, VotingInvariant, UNCHANGED <<votes, leads>>,
           \A q, r \in Sentinel : seen'[q][r] = seen[q][r] \/ seen'[q][r].leader = None,
           \A q \in Sentinel : /\ vote'[q].epoch = vote[q].epoch
                               /\ vote'[q].leader \in {vote[q].leader, None}
                               /\ disk'[q].leader_epoch = vote[q].epoch
    PROVE  VotingInvariant'
<1>1. votes \in SUBSET [by : Sentinel, for : Sentinel, epoch : Nat]
  BY DEF TypeOK
<1>2. Remembered'
  BY <1>1 DEF VotingInvariant, Remembered
<1>3. VotesOnce' /\ AllBacked'
  BY DEF VotingInvariant, VotesOnce, AllBacked, Backed
<1>4. AllGiven'
  <2>1. \A q \in Sentinel : Given(q, vote[q])'
    BY DEF VotingInvariant, AllGiven, Given
  <2>2. \A q, r \in Sentinel : Given(r, seen[q][r])'
    BY DEF VotingInvariant, AllGiven, Given
  <2> QED BY <2>1, <2>2 DEF AllGiven
<1> QED BY <1>2, <1>3, <1>4 DEF VotingInvariant

\* So does a step that touches no ballot and at most saves the present ones.
LEMMA SaveKeeps ==
    ASSUME TypeOK, VotingInvariant, UNCHANGED <<votes, leads, seen, vote>>,
           disk' = disk \/ \E s \in Sentinel : Flush(s)
    PROVE  VotingInvariant'
<1>1. \A q \in Sentinel : disk'[q].leader_epoch = vote[q].epoch
  <2>1. CASE disk' = disk
    BY <2>1 DEF VotingInvariant, Remembered
  <2>2. ASSUME NEW s \in Sentinel, Flush(s)
        PROVE  \A q \in Sentinel : disk'[q].leader_epoch = vote[q].epoch
    BY <2>2, FlushEpoch DEF VotingInvariant, Remembered
  <2> QED BY <2>1, <2>2
<1> QED BY <1>1, ForgetKeeps

\* The change of master forgets whom s voted for.
LEMMA ChangeKeeps ==
    ASSUME NEW s \in Sentinel, NEW new, TypeOK, VotingInvariant,
           UNCHANGED <<votes, leads, seen>>, ChangeMaster(s, new), Flush(s)
    PROVE  VotingInvariant'
<1>1. \A q \in Sentinel : /\ vote'[q].epoch = vote[q].epoch
                          /\ vote'[q].leader \in {vote[q].leader, None}
  BY DEF ChangeMaster, TypeOK, Vote
<1>2. \A q \in Sentinel : disk'[q].leader_epoch = vote[q].epoch
  BY <1>1, FlushEpoch DEF VotingInvariant, Remembered
<1> QED BY <1>1, <1>2, ForgetKeeps

\* Every step keeps it.
LEMMA NextKeeps == TypeOK /\ VotingInvariant /\ [Next]_vars => VotingInvariant'
<1> SUFFICES ASSUME TypeOK, VotingInvariant, [Next]_vars
             PROVE  VotingInvariant'
  OBVIOUS
<1>1. CASE UNCHANGED vars
  BY <1>1, SaveKeeps DEF vars, election, views
<1>2. ASSUME NEW s \in Sentinel, StartFailover(s)
      PROVE  VotingInvariant'
  <2> DEFINE epoch == current_epoch[s] + 1
             fo    == [Idle EXCEPT !.state = "wait_start", !.epoch = epoch]
  <2>1. epoch \in Nat
    BY DEF TypeOK
  <2>2. fo.epoch = epoch
    BY DEF Idle
  <2>3. PICK fav \in Favourites(s, epoch) : Count(s, epoch, fo, fav, FALSE)
    BY <1>2 DEF StartFailover
  <2>4. seen' = seen
    BY <1>2 DEF StartFailover, views
  <2>5. Flush(s) \/ (~Grants(s, epoch, fo.epoch) /\ disk' = disk)
    BY <1>2, <2>2 DEF StartFailover
  <2> HIDE DEF epoch, fo
  <2> QED BY <2>1, <2>2, <2>3, <2>4, <2>5, CountKeeps
<1>3. ASSUME NEW s \in Sentinel, WaitStart(s)
      PROVE  VotingInvariant'
  <2>1. current_epoch[s] \in Nat /\ failover[s].epoch \in Nat
    BY DEF TypeOK
  <2>2. PICK fav \in Favourites(s, current_epoch[s]), late \in BOOLEAN :
           Count(s, current_epoch[s], failover[s], fav, late)
    BY <1>3 DEF WaitStart
  <2>3. /\ seen' = seen
        /\ Flush(s) \/ (~Grants(s, current_epoch[s], failover[s].epoch) /\ disk' = disk)
    BY <1>3 DEF WaitStart, views
  <2> QED BY <2>1, <2>2, <2>3, CountKeeps
<1>4. ASSUME NEW s \in Sentinel, NEW r \in Sentinel, Answer(s, r)
      PROVE  VotingInvariant'
  <2> DEFINE m   == link[s][r]
             cur == current_epoch[r]
  <2>1. m \in Query /\ cur \in Nat /\ m.epoch \in Nat
    BY <1>4 DEF Answer, TypeOK, Query
  <2>2. leads' = leads
    BY <1>4 DEF Answer
  <2>3. CASE m.addr # addr[r]
    <3>1. UNCHANGED <<vote, votes, seen, disk>>
      BY <1>4, <2>3 DEF Answer, views
    <3> QED BY <2>2, <3>1, SaveKeeps
  <2>4. CASE m.addr = addr[r]
    <3>1. VoteLeader(r, cur, m.epoch, s)
      BY <1>4, <2>4 DEF Answer
    <3>2. Flush(r) \/ (~Grants(r, cur, m.epoch) /\ disk' = disk)
      BY <1>4, <2>4 DEF Answer
    <3>3. \A q \in Sentinel : disk'[q].leader_epoch = vote'[q].epoch
      BY <3>1, <3>2, VoteSaved DEF VotingInvariant
    <3> HIDE DEF cur, m
    <3>4. /\ Remembered' /\ VotesOnce'
          /\ \A q \in Sentinel : Given(q, vote[q])'
          /\ votes \subseteq votes'
      BY <2>1, <3>1, <3>3, VoteKeeps DEF VotingInvariant, AllGiven
    <3>5. seen' = seen \/ seen' = [seen EXCEPT ![s][r] = vote'[r]]
      BY <1>4 DEF Answer, views
    <3>6. \A q, p \in Sentinel : seen'[q][p] = seen[q][p] \/ (p = r /\ seen'[q][p] = vote'[r])
      <4>1. seen \in [Sentinel -> [Sentinel -> Vote]]
        BY DEF TypeOK
      <4> QED BY <3>5, <4>1
    <3>7. \A q, p \in Sentinel : Given(p, seen[q][p])'
      <4> SUFFICES ASSUME NEW q \in Sentinel, NEW p \in Sentinel
                   PROVE  Given(p, seen[q][p])'
        OBVIOUS
      <4>1. CASE seen'[q][p] = seen[q][p]
        BY <3>4, <4>1 DEF VotingInvariant, AllGiven, Given
      <4>2. CASE p = r /\ seen'[q][p] = vote'[r]
        BY <3>4, <4>2 DEF Given
      <4> QED BY <3>6, <4>1, <4>2
    <3>8. AllBacked'
      BY <2>2, <3>4, StillGiven DEF VotingInvariant, AllBacked
    <3>9. AllGiven'
      BY <3>4, <3>7 DEF AllGiven
    <3> QED BY <3>4, <3>8, <3>9 DEF VotingInvariant
  <2> QED BY <2>3, <2>4
<1>5. ASSUME NEW s \in Sentinel, Restart(s)
      PROVE  VotingInvariant'
  <2>1. UNCHANGED <<disk, votes, leads>>
    BY <1>5 DEF Restart
  <2>2. \A q, r \in Sentinel : seen'[q][r] = seen[q][r] \/ seen'[q][r].leader = None
    BY <1>5 DEF Restart, NoVote, TypeOK
  <2>3. vote' = [vote EXCEPT ![s] = [leader |-> None, epoch |-> disk[s].leader_epoch]]
    BY <1>5 DEF Restart
  <2>4. \A q \in Sentinel : /\ vote'[q].epoch = vote[q].epoch
                            /\ vote'[q].leader \in {vote[q].leader, None}
                            /\ disk[q].leader_epoch = vote[q].epoch
    BY <2>3 DEF TypeOK, VotingInvariant, Remembered
  <2> QED BY <2>1, <2>2, <2>4, ForgetKeeps
<1>6. ASSUME NEW s \in Sentinel, NEW r \in Sentinel, Forget(s, r)
      PROVE  VotingInvariant'
  <2>1. UNCHANGED <<disk, votes, leads, vote>>
    BY <1>6 DEF Forget, election
  <2>2. \A q, p \in Sentinel : seen'[q][p] = seen[q][p] \/ seen'[q][p].leader = None
    BY <1>6 DEF Forget, NoVote, TypeOK
  <2> QED BY <2>1, <2>2, ForgetKeeps DEF VotingInvariant, Remembered
<1>7. ASSUME NEW s \in Sentinel, DetectEnd(s)
      PROVE  VotingInvariant'
  <2>1. /\ UNCHANGED <<votes, leads, seen>>
        /\ ChangeMaster(s, failover[s].promoted) /\ Flush(s)
    BY <1>7 DEF DetectEnd, views
  <2> QED BY <2>1, ChangeKeeps
<1>8. ASSUME NEW s \in Sentinel, NEW r \in Sentinel, Hello(s, r)
      PROVE  VotingInvariant'
  <2> DEFINE newConfig == config_epoch[r] > config_epoch[s]
             newAddr   == newConfig /\ Announced(r) # addr[s]
             newEpoch  == current_epoch[r] > current_epoch[s]
  <2>1. UNCHANGED <<votes, leads, seen>>
    BY <1>8 DEF Hello, views
  <2>2. CASE newAddr
    <3>1. ChangeMaster(s, Announced(r)) /\ Flush(s)
      BY <1>8, <2>2 DEF Hello
    <3> QED BY <2>1, <3>1, ChangeKeeps
  <2>3. CASE ~newAddr
    <3>1. vote' = vote
      BY <1>8, <2>3 DEF Hello
    <3>2. \/ disk' = disk
          \/ disk' = [disk EXCEPT ![s] =
                         Saved(Announced(s), config_epoch[s], current_epoch[r],
                               vote[s].epoch, slaves[s])]
      BY <1>8, <2>3 DEF Hello
    <3>3. disk \in [Sentinel -> File] /\ \A q \in Sentinel : disk[q].leader_epoch = vote[q].epoch
      BY DEF TypeOK, VotingInvariant, Remembered
    <3>4. \A q \in Sentinel : disk'[q].leader_epoch = vote[q].epoch
      BY <3>2, <3>3 DEF Saved
    <3> QED BY <2>1, <3>1, <3>4, ForgetKeeps
  <2> QED BY <2>2, <2>3
<1>9. ASSUME NEW s \in Sentinel, NEW i \in Instance, Promoted(s, i)
      PROVE  VotingInvariant'
  <2>1. UNCHANGED <<votes, leads, seen, vote>> /\ Flush(s)
    BY <1>9 DEF Promoted, election, views
  <2> QED BY <2>1, SaveKeeps
<1>10. ASSUME NEW s \in Sentinel,
              \/ ForceFailover(s) \/ SelectSlave(s) \/ SendSlaveOfNoOne(s)
              \/ PromotionTimeout(s) \/ InfoMaster(s) \/ Ask(s)
       PROVE  VotingInvariant'
  <2>1. UNCHANGED <<votes, leads, seen, vote, disk>>
    BY <1>10 DEF ForceFailover, SelectSlave, SendSlaveOfNoOne, PromotionTimeout,
                 InfoMaster, Ask, election, views
  <2> QED BY <2>1, SaveKeeps
<1>11. ASSUME NEW s \in Sentinel, NEW r \in Sentinel, AskDown(s, r)
       PROVE  VotingInvariant'
  <2>1. UNCHANGED <<votes, leads, seen, vote, disk>>
    BY <1>11 DEF AskDown, election
  <2> QED BY <2>1, SaveKeeps
<1>12. ASSUME NEW s \in Sentinel, NEW i \in Instance,
              \/ SDown(s, i) \/ ReconfNextSlave(s, i) \/ ConvertToSlave(s, i)
              \/ InfoSlave(s, i) \/ SlaveOf(s, i)
       PROVE  VotingInvariant'
  <2>1. UNCHANGED <<votes, leads, seen, vote, disk>>
    BY <1>12 DEF SDown, ReconfNextSlave, ConvertToSlave, InfoSlave, SlaveOf, election, views
  <2> QED BY <2>1, SaveKeeps
<1>13. ASSUME NEW i \in Instance, Crash(i) \/ Recover(i)
       PROVE  VotingInvariant'
  <2>1. UNCHANGED <<votes, leads, seen, vote, disk>>
    BY <1>13 DEF Crash, Recover, election, views
  <2> QED BY <2>1, SaveKeeps
<1> QED BY <1>1, <1>2, <1>3, <1>4, <1>5, <1>6, <1>7, <1>8, <1>9, <1>10, <1>11, <1>12,
          <1>13 DEF Next

\* In every reachable state the ballots are in order.
LEMMA VotingInvariantHolds == Spec => []VotingInvariant
<1>1. Init => VotingInvariant
  BY DEF Init, VotingInvariant, Remembered, VotesOnce, AllGiven, AllBacked, Given, NoVote,
         Saved
<1>2. TypeOK /\ VotingInvariant /\ [Next]_vars => VotingInvariant'
  BY NextKeeps
<1> QED BY <1>1, <1>2, TypeCorrect, PTL DEF Spec

\* A sentinel votes once per epoch, whatever restarts in between
\* (sentinelVoteLeader, sentinelFlushConfig).
THEOREM VotesOnceCorrect == Spec => []VotesOnce
<1>1. VotingInvariant => VotesOnce
  BY DEF VotingInvariant
<1> QED BY <1>1, VotingInvariantHolds, PTL

\* Two majorities of the sentinels share one.
LEMMA QuorumsMeet ==
    ASSUME NEW S \in SUBSET Sentinel, NEW T \in SUBSET Sentinel,
           Cardinality(S) >= (Cardinality(Sentinel) \div 2) + 1,
           Cardinality(T) >= (Cardinality(Sentinel) \div 2) + 1
    PROVE  \E r \in Sentinel : r \in S /\ r \in T
<1>1. IsFiniteSet(Sentinel) /\ IsFiniteSet(S) /\ IsFiniteSet(T)
  BY SentinelAssumption, FS_Subset
<1>2. /\ Cardinality(Sentinel) \in Nat
      /\ Cardinality(S) \in Nat /\ Cardinality(T) \in Nat
  BY <1>1, FS_CardinalityType
<1>3. Cardinality(S) + Cardinality(T) > Cardinality(Sentinel)
  BY <1>2
<1>4. S \cap T # {}
  BY <1>1, <1>3, FS_MajoritiesIntersect
<1> QED BY <1>4

\* An epoch has two leaders only if one was forced or counted the votes of another
\* epoch: the votes of two majorities would include two of one sentinel
\* (sentinelGetLeader, sentinelFailoverWaitStart).
THEOREM TwoLeadersNeedAGapCorrect == Spec => []TwoLeadersNeedAGap
<1>1. TypeOK /\ VotingInvariant => TwoLeadersNeedAGap
  <2> SUFFICES ASSUME TypeOK, VotingInvariant, NEW l \in leads, NEW m \in leads,
                      l.epoch = m.epoch, l.by # m.by,
                      ~l.forced, l.counted = l.epoch, ~m.forced, m.counted = m.epoch
               PROVE  FALSE
    BY DEF TwoLeadersNeedAGap
  <2>1. Backed(l) /\ Backed(m)
    BY DEF VotingInvariant, AllBacked
  <2>2. l.quorum \in SUBSET Sentinel /\ m.quorum \in SUBSET Sentinel
    BY DEF TypeOK
  <2>3. PICK r \in Sentinel : r \in l.quorum /\ r \in m.quorum
    BY <2>1, <2>2, QuorumsMeet DEF Backed
  <2>4. /\ [by |-> r, for |-> l.by, epoch |-> l.epoch] \in votes
        /\ [by |-> r, for |-> m.by, epoch |-> m.epoch] \in votes
    BY <2>1, <2>3 DEF Backed
  <2> QED BY <2>4 DEF VotingInvariant, VotesOnce
<1> QED BY <1>1, TypeCorrect, VotingInvariantHolds, PTL
------------------------------------------------------------------------------
(* The configuration file. *)

\* A step that neither saves nor changes what is announced.
LEMMA NothingToSave ==
    ASSUME AnnouncedIsSaved, disk' = disk,
           \A q \in Sentinel : MasterAddr(failover'[q], addr'[q])
                                  = MasterAddr(failover[q], addr[q])
    PROVE  AnnouncedIsSaved'
BY DEF AnnouncedIsSaved, Announced

\* A step of s that ends with a save.
LEMMA SavedAtTheEnd ==
    ASSUME NEW s \in Sentinel, TypeOK, AnnouncedIsSaved, Flush(s),
           \A q \in Sentinel \ {s} : /\ failover'[q] = failover[q]
                                     /\ addr'[q] = addr[q]
    PROVE  AnnouncedIsSaved'
<1>1. disk'[s].addr = MasterAddr(failover'[s], addr'[s])
  BY DEF Flush, Saved, TypeOK
<1>2. \A q \in Sentinel \ {s} : disk'[q] = disk[q]
  BY DEF Flush, TypeOK
<1> QED BY <1>1, <1>2 DEF AnnouncedIsSaved, Announced

\* A step of s whose failover does not reconfigure slaves, before or after, and
\* that saves or not.
LEMMA NotReconfiguring ==
    ASSUME NEW s \in Sentinel, NEW g, TypeOK, AnnouncedIsSaved,
           failover[s].state # "reconf_slaves", g.state # "reconf_slaves",
           failover' = [failover EXCEPT ![s] = g], addr' = addr,
           Flush(s) \/ disk' = disk
    PROVE  AnnouncedIsSaved'
<1>1. failover'[s] = g /\ \A q \in Sentinel \ {s} : failover'[q] = failover[q]
  BY DEF TypeOK
<1>2. CASE Flush(s)
  BY <1>1, <1>2, SavedAtTheEnd
<1>3. CASE disk' = disk
  <2>1. \A q \in Sentinel : MasterAddr(failover'[q], addr'[q])
                               = MasterAddr(failover[q], addr[q])
    BY <1>1 DEF MasterAddr
  <2> QED BY <1>3, <2>1, NothingToSave
<1> QED BY <1>2, <1>3

\* A step that touches neither the failovers nor the addresses, and that saves at
\* most what s announces.
LEMMA SameMaster ==
    ASSUME NEW s \in Sentinel, TypeOK, AnnouncedIsSaved,
           failover' = failover, addr' = addr, Flush(s) \/ disk' = disk
    PROVE  AnnouncedIsSaved'
<1>1. CASE Flush(s)
  BY <1>1, SavedAtTheEnd
<1>2. CASE disk' = disk
  BY <1>2, NothingToSave
<1> QED BY <1>1, <1>2

\* The turn of a failover that counts votes: it goes on waiting, is led or aborted.
LEMMA CountStep ==
    ASSUME NEW s \in Sentinel, NEW cur, NEW fo, NEW fav, NEW late,
           TypeOK, AnnouncedIsSaved, Count(s, cur, fo, fav, late),
           fo.state = "wait_start", failover[s].state \in {"none", "wait_start"},
           DOMAIN fo = {"state", "epoch", "forced", "promoted"},
           addr' = addr, Flush(s) \/ disk' = disk
    PROVE  AnnouncedIsSaved'
<1>1. PICK g \in {[fo EXCEPT !.state = "select_slave"], Idle, fo} :
         failover' = [failover EXCEPT ![s] = g]
  BY DEF Count
<1>2. [fo EXCEPT !.state = "select_slave"].state = "select_slave"
  OBVIOUS
<1>3. g.state # "reconf_slaves"
  BY <1>1, <1>2, IdleType
<1> QED BY <1>1, <1>3, NotReconfiguring

\* The file names the master that is announced, after every step.
LEMMA NextSaves == TypeOK /\ AnnouncedIsSaved /\ [Next]_vars => AnnouncedIsSaved'
<1> SUFFICES ASSUME TypeOK, AnnouncedIsSaved, [Next]_vars
             PROVE  AnnouncedIsSaved'
  OBVIOUS
<1>1. CASE UNCHANGED vars
  BY <1>1, NothingToSave DEF vars, tables
<1>2. ASSUME NEW s \in Sentinel, StartFailover(s)
      PROVE  AnnouncedIsSaved'
  <2> DEFINE epoch == current_epoch[s] + 1
             fo    == [Idle EXCEPT !.state = "wait_start", !.epoch = epoch]
  <2>1. PICK fav \in Favourites(s, epoch) : Count(s, epoch, fo, fav, FALSE)
    BY <1>2 DEF StartFailover
  <2>2. fo.state = "wait_start" /\ DOMAIN fo = {"state", "epoch", "forced", "promoted"}
    BY DEF Idle
  <2>3. /\ failover[s].state = "none"
        /\ addr' = addr
        /\ Flush(s) \/ disk' = disk
    BY <1>2 DEF StartFailover, tables
  <2> HIDE DEF fo, epoch
  <2> QED BY <2>1, <2>2, <2>3, CountStep
<1>3. ASSUME NEW s \in Sentinel, WaitStart(s)
      PROVE  AnnouncedIsSaved'
  <2> DEFINE cur == current_epoch[s]
             fo  == failover[s]
  <2>1. PICK fav \in Favourites(s, cur), late \in BOOLEAN : Count(s, cur, fo, fav, late)
    BY <1>3 DEF WaitStart
  <2>2. fo.state = "wait_start" /\ DOMAIN fo = {"state", "epoch", "forced", "promoted"}
    BY <1>3 DEF WaitStart, TypeOK
  <2>3. addr' = addr /\ (Flush(s) \/ disk' = disk)
    BY <1>3 DEF WaitStart, tables
  <2> QED BY <2>1, <2>2, <2>3, CountStep
<1>4. ASSUME NEW s \in Sentinel, ForceFailover(s)
      PROVE  AnnouncedIsSaved'
  <2> DEFINE g == [state |-> "wait_start", epoch |-> current_epoch[s] + 1,
                   forced |-> TRUE, promoted |-> None]
  <2>1. failover' = [failover EXCEPT ![s] = g] /\ failover[s].state = "none"
    BY <1>4 DEF ForceFailover
  <2>2. addr' = addr /\ disk' = disk
    BY <1>4 DEF ForceFailover, tables
  <2> QED BY <2>1, <2>2, NotReconfiguring
<1>5. ASSUME NEW s \in Sentinel, SelectSlave(s)
      PROVE  AnnouncedIsSaved'
  <2>1. /\ failover[s].state = "select_slave"
        /\ addr' = addr /\ disk' = disk
    BY <1>5 DEF SelectSlave, tables
  <2>2. CASE Abort(s)
    BY <2>1, <2>2, IdleType, NotReconfiguring DEF Abort
  <2>3. ASSUME NEW i \in Instance,
               failover' = [failover EXCEPT ![s].state = "send_slaveof_noone",
                                            ![s].promoted = i]
        PROVE  AnnouncedIsSaved'
    <3>1. failover'[s].state = "send_slaveof_noone"
      BY <2>3 DEF TypeOK
    <3>2. failover' = [failover EXCEPT ![s] = failover'[s]]
      BY <2>3 DEF TypeOK
    <3> QED BY <2>1, <3>1, <3>2, NotReconfiguring
  <2>4. Selectable(s) \subseteq Instance
    BY DEF Selectable, TypeOK
  <2> QED BY <1>5, <2>2, <2>3, <2>4 DEF SelectSlave
<1>6. ASSUME NEW s \in Sentinel, SendSlaveOfNoOne(s)
      PROVE  AnnouncedIsSaved'
  <2>1. /\ failover[s].state = "send_slaveof_noone"
        /\ addr' = addr /\ disk' = disk
    BY <1>6 DEF SendSlaveOfNoOne, tables
  <2>2. CASE Abort(s)
    BY <2>1, <2>2, IdleType, NotReconfiguring DEF Abort
  <2>3. CASE failover' = [failover EXCEPT ![s].state = "wait_promotion"]
    <3>1. failover'[s].state = "wait_promotion"
      BY <2>3 DEF TypeOK
    <3>2. failover' = [failover EXCEPT ![s] = failover'[s]]
      BY <2>3 DEF TypeOK
    <3> QED BY <2>1, <3>1, <3>2, NotReconfiguring
  <2> QED BY <1>6, <2>2, <2>3 DEF SendSlaveOfNoOne
<1>7. ASSUME NEW s \in Sentinel, PromotionTimeout(s)
      PROVE  AnnouncedIsSaved'
  <2>1. /\ failover[s].state = "wait_promotion"
        /\ failover' = [failover EXCEPT ![s] = Idle]
        /\ addr' = addr /\ disk' = disk
    BY <1>7 DEF PromotionTimeout, Abort, tables
  <2> QED BY <2>1, IdleType, NotReconfiguring
<1>8. ASSUME NEW s \in Sentinel, DetectEnd(s)
      PROVE  AnnouncedIsSaved'
  <2>1. Flush(s) /\ ChangeMaster(s, failover[s].promoted)
    BY <1>8 DEF DetectEnd
  <2> QED BY <2>1, SavedAtTheEnd DEF ChangeMaster, TypeOK
<1>9. ASSUME NEW s \in Sentinel, Restart(s)
      PROVE  AnnouncedIsSaved'
  <2>1. /\ failover' = [failover EXCEPT ![s] = Idle]
        /\ addr' = [addr EXCEPT ![s] = disk[s].addr]
        /\ disk' = disk
    BY <1>9 DEF Restart
  <2>2. MasterAddr(failover'[s], addr'[s]) = disk[s].addr
    BY <2>1, IdleType DEF MasterAddr, TypeOK
  <2>3. \A q \in Sentinel \ {s} : failover'[q] = failover[q] /\ addr'[q] = addr[q]
    BY <2>1 DEF TypeOK
  <2> QED BY <2>1, <2>2, <2>3 DEF AnnouncedIsSaved, Announced
<1>10. ASSUME NEW s \in Sentinel, NEW r \in Sentinel, Answer(s, r)
       PROVE  AnnouncedIsSaved'
  <2>1. failover' = failover /\ addr' = addr
    BY <1>10 DEF Answer, tables
  <2>2. Flush(r) \/ disk' = disk
    BY <1>10 DEF Answer
  <2> QED BY <2>1, <2>2, SameMaster
<1>11. ASSUME NEW s \in Sentinel, NEW r \in Sentinel, Hello(s, r)
       PROVE  AnnouncedIsSaved'
  <2> DEFINE newEpoch  == current_epoch[r] > current_epoch[s]
             newConfig == config_epoch[r] > config_epoch[s]
             newAddr   == newConfig /\ Announced(r) # addr[s]
  <2>1. CASE newAddr
    <3>1. Flush(s) /\ ChangeMaster(s, Announced(r))
      BY <1>11, <2>1 DEF Hello
    <3> QED BY <3>1, SavedAtTheEnd DEF ChangeMaster, TypeOK
  <2>2. CASE ~newAddr
    <3>1. addr' = addr /\ failover' = failover
      BY <1>11, <2>2 DEF Hello
    <3>2. CASE disk' = disk
      BY <3>1, <3>2, NothingToSave
    <3>3. CASE disk' = [disk EXCEPT ![s] =
                          Saved(Announced(s), config_epoch[s], current_epoch[r],
                                vote[s].epoch, slaves[s])]
      <4>1. disk'[s].addr = Announced(s) /\ \A q \in Sentinel \ {s} : disk'[q] = disk[q]
        BY <3>3 DEF Saved, TypeOK
      <4> QED BY <3>1, <4>1 DEF AnnouncedIsSaved, Announced
    <3> QED BY <1>11, <2>2, <3>2, <3>3 DEF Hello
  <2> QED BY <2>1, <2>2
<1>12. ASSUME NEW s \in Sentinel, NEW i \in Instance, Promoted(s, i)
       PROVE  AnnouncedIsSaved'
  <2>1. /\ Flush(s) /\ addr' = addr
        /\ \A q \in Sentinel \ {s} : failover'[q] = failover[q]
    BY <1>12 DEF Promoted, TypeOK
  <2> QED BY <2>1, SavedAtTheEnd
<1>13. ASSUME NEW s \in Sentinel,
              \/ InfoMaster(s) \/ Ask(s)
              \/ \E r \in Sentinel : AskDown(s, r) \/ Forget(s, r)
              \/ \E i \in Instance : \/ SDown(s, i) \/ ReconfNextSlave(s, i)
                                     \/ ConvertToSlave(s, i) \/ InfoSlave(s, i)
                                     \/ SlaveOf(s, i)
       PROVE  AnnouncedIsSaved'
  <2>1. failover' = failover /\ addr' = addr /\ disk' = disk
    BY <1>13 DEF InfoMaster, Ask, AskDown, Forget, SDown, ReconfNextSlave, ConvertToSlave,
                 InfoSlave, SlaveOf, tables
  <2> QED BY <2>1, NothingToSave
<1>14. ASSUME NEW i \in Instance, Crash(i) \/ Recover(i)
       PROVE  AnnouncedIsSaved'
  <2>1. failover' = failover /\ addr' = addr /\ disk' = disk
    BY <1>14 DEF Crash, Recover, tables
  <2> QED BY <2>1, NothingToSave
<1> QED BY <1>1, <1>2, <1>3, <1>4, <1>5, <1>6, <1>7, <1>8, <1>9, <1>10, <1>11, <1>12,
           <1>13, <1>14 DEF Next

\* For every set of sentinels and instances: the master a sentinel announces is the
\* one in its configuration file, so that a leader that restarts in the middle of a
\* failover comes back with the master it told the others of (sentinelFlushConfig).
THEOREM AnnouncedIsSavedCorrect == Spec => []AnnouncedIsSaved
<1>1. Init => AnnouncedIsSaved
  BY DEF Init, AnnouncedIsSaved, Announced, MasterAddr, Idle, Saved
<1>2. TypeOK /\ AnnouncedIsSaved /\ [Next]_vars => AnnouncedIsSaved'
  BY NextSaves
<1> QED BY <1>1, <1>2, TypeCorrect, PTL DEF Spec
==============================================================================
