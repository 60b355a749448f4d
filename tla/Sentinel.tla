------------------------------- MODULE Sentinel -------------------------------
(***************************************************************************)
(* Redis Sentinel (sentinel.c) for one monitored master: subjective and    *)
(* objective down, the vote for a leader, the failover the leader drives   *)
(* over the instances with SLAVEOF, the hello messages that spread its     *)
(* outcome, and the configuration file a restart reads back.               *)
(*                                                                         *)
(* Time is left out: a period, a timeout or a random delay ends whenever   *)
(* it likes.  The sentinels know each other from the start.  At most one   *)
(* is-master-down-by-addr query is on the link to each other sentinel; its *)
(* answer is read at once or lost.  At most one SLAVEOF is on the link to  *)
(* each instance.  parallel-syncs has its default, 1.                      *)
(***************************************************************************)
EXTENDS Naturals, FiniteSets

CONSTANTS
    Sentinel,     \* the sentinels (their run ids)
    Instance,     \* the Redis servers (their addresses)
    FirstMaster,  \* the one every sentinel monitors at first
    Promotable,   \* the instances whose slave-priority is not 0
    Quorum,       \* master->quorum
    None,         \* the null pointer
    Crashable,    \* bound: the instances that may crash, once each
    Recoverable,  \* bound: the crashed instances that come back
    Candidate,    \* bound: the sentinels that start failovers
    Forcible,     \* bound: the sentinels that may get SENTINEL FAILOVER, in epoch 0
    Restartable,  \* bound: the sentinels that may restart, once each
    Noticing,     \* bound: the sentinels that may notice that an instance is down
    Newcomer,     \* the sentinels whose file names the master and no slave at first
    Lossy,        \* bound: the sentinels whose answers may be lost
    Slow,         \* bound: whether reconfiguring the slaves may take long: 8 s and
                  \* more, or failover-timeout and more
    MaxEpoch      \* bound: no failover starts beyond this epoch

ASSUME SentinelAssumption ==
    /\ IsFiniteSet(Sentinel) /\ IsFiniteSet(Instance)
    /\ FirstMaster \in Instance /\ Promotable \subseteq Instance
    /\ Quorum \in Nat \ {0}
    /\ None \notin Sentinel \cup Instance
    /\ Crashable \subseteq Instance /\ Recoverable \subseteq Crashable
    /\ Candidate \subseteq Sentinel /\ Forcible \subseteq Sentinel
    /\ Restartable \subseteq Sentinel /\ Lossy \subseteq Sentinel
    /\ Noticing \subseteq Sentinel /\ Newcomer \subseteq Sentinel
    /\ Slow \in BOOLEAN
    /\ MaxEpoch \in Nat

VARIABLES
    current_epoch,  \* sentinel.current_epoch of each sentinel
    config_epoch,   \* master->config_epoch
    addr,           \* master->addr
    slaves,         \* master->slaves
    sdown,          \* the instances flagged SRI_S_DOWN
    masterDown,     \* the other sentinels flagged SRI_MASTER_DOWN
    vote,           \* master->leader and leader_epoch
    seen,           \* seen[s][r]: leader and leader_epoch of r in s's table
    failover,       \* failover_state, failover_epoch, SRI_FORCE_FAILOVER, promoted_slave
    reconf,         \* SRI_RECONF_SENT, _INPROG, _DONE of each slave
    disk,           \* the configuration file
    link,           \* link[s][r]: the query of s on its link to r
    order,          \* order[s][i]: the SLAVEOF of s on its link to i
    up,             \* the instances that run
    crashed,        \* the instances that crashed before
    restarted,      \* the sentinels that restarted before
    role,           \* the master each instance replicates, None for a master
    \* History variables: no action reads them.
    votes,          \* the votes given, [by, for, epoch]
    leads           \* the elections won, [by, epoch, forced, counted, quorum]

tables    == <<config_epoch, addr, slaves, sdown, reconf>>
election  == <<current_epoch, vote, votes, leads>>
views     == <<masterDown, seen>>
instances == <<up, crashed, role>>
vars == <<tables, election, views, failover, disk, link, order, instances, restarted>>

Idle      == [state |-> "none", epoch |-> 0, forced |-> FALSE, promoted |-> None]
NoVote    == [leader |-> None, epoch |-> 0]
Others(s) == Sentinel \ {s}

\* sentinelGetCurrentMasterAddress: during the reconfiguration of the slaves the
\* promoted one already counts as the master.
MasterAddr(fo, a) == IF fo.state = "reconf_slaves" THEN fo.promoted ELSE a

ODown(s) == /\ addr[s] \in sdown[s]
            /\ Cardinality(masterDown[s]) + 1 >= Quorum

\* sentinelMasterLooksSane; what INFO reports of the master is up to date.
LooksSane(s) == /\ addr[s] \notin sdown[s]
                /\ addr[s] \in up
                /\ role[addr[s]] = None

\* The links of s after it asked every sentinel it can for a vote.
Asked(s, epoch) ==
    [r \in Sentinel |-> IF r # s /\ link[s][r] = None
                          THEN [addr |-> addr[s], epoch |-> epoch] ELSE link[s][r]]
-----------------------------------------------------------------------------
(* The configuration file. *)

\* What sentinelFlushConfig writes of the memory it is given.
Saved(a, config, current, leader_epoch, known) ==
    [addr |-> a, config_epoch |-> config, current_epoch |-> current,
     leader_epoch |-> leader_epoch, slaves |-> known]

\* Mutants of Flush: leader-epoch is not written; the address is master->addr.
FlushNoLeaderEpoch(s) ==
    disk' = [disk EXCEPT ![s] =
                Saved(MasterAddr(failover'[s], addr'[s]), config_epoch'[s],
                      current_epoch'[s], @.leader_epoch, slaves'[s])]
FlushOldAddr(s) ==
    disk' = [disk EXCEPT ![s] = Saved(addr'[s], config_epoch'[s],
                                      current_epoch'[s], vote'[s].epoch, slaves'[s])]
\* sentinelFlushConfig at the end of a step of s.
Flush(s) ==
    disk' = [disk EXCEPT ![s] =
                Saved(MasterAddr(failover'[s], addr'[s]), config_epoch'[s],
                      current_epoch'[s], vote'[s].epoch, slaves'[s])]

\* The process of s restarts: it reads the file back (sentinelHandleConfiguration)
\* and nothing else; its links break.
Restart(s) ==
    /\ s \in Restartable \ restarted
    /\ restarted' = restarted \cup {s}
    /\ LET file == disk[s]
       IN  /\ current_epoch' = [current_epoch EXCEPT ![s] =
                 IF file.config_epoch > file.current_epoch
                   THEN file.config_epoch ELSE file.current_epoch]
           /\ config_epoch' = [config_epoch EXCEPT ![s] = file.config_epoch]
           /\ addr' = [addr EXCEPT ![s] = file.addr]
           /\ slaves' = [slaves EXCEPT ![s] = file.slaves]
           /\ vote' = [vote EXCEPT ![s] = [leader |-> None, epoch |-> file.leader_epoch]]
    /\ sdown' = [sdown EXCEPT ![s] = {}]
    /\ masterDown' = [masterDown EXCEPT ![s] = {}]
    /\ seen' = [seen EXCEPT ![s] = [r \in Sentinel |-> NoVote]]
    /\ failover' = [failover EXCEPT ![s] = Idle]
    /\ reconf' = [reconf EXCEPT ![s] = [i \in Instance |-> "none"]]
    /\ order' = [order EXCEPT ![s] = [i \in Instance |-> None]]
    /\ link' = [q \in Sentinel |-> [r \in Sentinel |-> IF s \in {q, r} THEN None
                                                                      ELSE link[q][r]]]
    /\ UNCHANGED <<disk, instances, votes, leads>>

\* Mutant of ChangeMaster: the old master is forgotten.
ChangeAndForget(s, new) ==
    /\ addr' = [addr EXCEPT ![s] = new]
    /\ slaves' = [slaves EXCEPT ![s] = @ \ {new}]
    /\ sdown' = [sdown EXCEPT ![s] = {}]
    /\ reconf' = [reconf EXCEPT ![s] = [i \in Instance |-> "none"]]
    /\ failover' = [failover EXCEPT ![s] = Idle]
    /\ vote' = [vote EXCEPT ![s].leader = None]
\* sentinelResetMasterAndChangeAddress, without its flush: the old master becomes
\* a slave, every slave is created anew, what the other sentinels said is kept.
ChangeMaster(s, new) ==
    /\ addr' = [addr EXCEPT ![s] = new]
    /\ slaves' = [slaves EXCEPT ![s] = (@ \cup {addr[s]}) \ {new}]
    /\ sdown' = [sdown EXCEPT ![s] = {}]
    /\ reconf' = [reconf EXCEPT ![s] = [i \in Instance |-> "none"]]
    /\ failover' = [failover EXCEPT ![s] = Idle]
    /\ vote' = [vote EXCEPT ![s].leader = None]
-----------------------------------------------------------------------------
(* Down detection. *)

\* sentinelCheckSubjectivelyDown: no reply to PING, or a master that has reported
\* the slave role for long.
LooksDown(s, i) == i \notin up \/ (i = addr[s] /\ role[i] # None)

SDown(s, i) ==
    /\ s \in Noticing
    /\ i \in slaves[s] \cup {addr[s]}
    /\ sdown' = [sdown EXCEPT ![s] = IF LooksDown(s, i) THEN @ \cup {i} ELSE @ \ {i}]
    /\ sdown' # sdown
    /\ UNCHANGED <<config_epoch, addr, slaves, reconf, election, views, failover,
                   disk, link, order, instances, restarted>>

\* The answer of r about the address a: whether it takes that master for down.
IsDown(r, a) == a = addr[r] /\ addr[r] \in sdown[r]
Heard(s, r, a) == masterDown' = [masterDown EXCEPT ![s] = IF IsDown(r, a) THEN @ \cup {r}
                                                                        ELSE @ \ {r}]

\* sentinelAskMasterStateToOtherSentinels while s runs no failover: the query has
\* no run id and leaves no trace at r, so its answer is there at once.  Only the
\* sentinels that may start a failover read the answers.
AskDown(s, r) ==
    /\ s \in Candidate /\ r # s
    /\ addr[s] \in sdown[s]
    /\ failover[s].state = "none"
    /\ Heard(s, r, addr[s])
    /\ masterDown' # masterDown
    /\ UNCHANGED <<tables, election, seen, failover, disk, link, order, instances,
                   restarted>>

\* The same during a failover: the query asks for a vote as well, in the
\* current_epoch, whichever epoch the failover has.
Ask(s) ==
    /\ addr[s] \in sdown[s]
    /\ failover[s].state # "none"
    /\ link' = [link EXCEPT ![s] = Asked(s, current_epoch[s])]
    /\ link' # link
    /\ UNCHANGED <<tables, election, views, failover, disk, order, instances, restarted>>
-----------------------------------------------------------------------------
(* The vote. *)

Larger(a, b) == IF a >= b THEN a ELSE b

\* Mutant of Grants: a sentinel votes again in the epoch it has voted in.
GrantsAgain(s, cur, req) == vote[s].epoch <= req /\ cur <= req
\* sentinelVoteLeader: s, whose current_epoch is cur, is asked to vote for who in
\* epoch req; its vote after that.
Grants(s, cur, req) == vote[s].epoch < req /\ cur <= req

VoteOf(s, cur, req, who) ==
    IF Grants(s, cur, req) THEN [leader |-> who, epoch |-> req] ELSE vote[s]

VoteLeader(s, cur, req, who) ==
    /\ current_epoch' = [current_epoch EXCEPT ![s] = Larger(cur, req)]
    /\ vote' = [vote EXCEPT ![s] = VoteOf(s, cur, req, who)]
    /\ votes' = votes \cup (IF Grants(s, cur, req)
                              THEN {[by |-> s, for |-> who, epoch |-> req]} ELSE {})

\* SENTINEL is-master-down-by-addr at r, from s: r answers, and votes if it
\* monitors that address.  s reads the answer (sentinelReceiveIsMasterDownReply)
\* unless it is lost.
Answer(s, r) ==
    LET m    == link[s][r]
        cur  == current_epoch[r]
        same == m.addr = addr[r]
    IN  /\ m # None
        /\ IF same THEN VoteLeader(r, cur, m.epoch, s)
                   ELSE UNCHANGED <<current_epoch, vote, votes>>
        /\ link' = [link EXCEPT ![s][r] = None]
        /\ UNCHANGED <<tables, failover, leads, order, instances, restarted>>
        /\ IF same /\ (m.epoch > cur \/ Grants(r, cur, m.epoch))
             THEN Flush(r) ELSE UNCHANGED disk
        /\ \/ r \in Lossy /\ UNCHANGED views
           \/ /\ Heard(s, r, m.addr)
              /\ seen' = IF same /\ vote'[r].leader # None
                           THEN [seen EXCEPT ![s][r] = vote'[r]] ELSE seen

\* The master of s is not down any more and it asks no one: after five periods
\* what r answered is dropped.
Forget(s, r) ==
    /\ addr[s] \notin sdown[s]
    /\ r \in masterDown[s] \/ seen[s][r].leader # None
    /\ masterDown' = [masterDown EXCEPT ![s] = @ \ {r}]
    /\ seen' = [seen EXCEPT ![s][r] = NoVote]
    /\ UNCHANGED <<tables, election, failover, disk, link, order, instances, restarted>>
-----------------------------------------------------------------------------
(* The election, sentinelGetLeader. *)

\* Mutant of VotesFor: an answer of an earlier epoch counts.
VotesForEver(s, c, cur) == {r \in Others(s) : seen[s][r].leader = c}
\* The votes for c that s knows of, in its current_epoch cur.
VotesFor(s, c, cur) ==
    {r \in Others(s) : seen[s][r] = [leader |-> c, epoch |-> cur]}

\* The candidates ahead in those votes, s if nobody has one: s votes for one.
Favourites(s, cur) ==
    LET voted == {c \in Sentinel : VotesFor(s, c, cur) # {}}
    IN  IF voted = {} THEN {s}
        ELSE {c \in voted : \A d \in voted : Cardinality(VotesFor(s, d, cur))
                                              <= Cardinality(VotesFor(s, c, cur))}

\* The votes for c, with the own vote of s if it is of the epoch asked for.
Votes(s, c, cur, epoch, own) ==
    VotesFor(s, c, cur) \cup (IF own = [leader |-> c, epoch |-> epoch] THEN {s} ELSE {})

\* The winner has the votes of a majority, and of Quorum sentinels.
Wins(s, c, cur, epoch, own) ==
    LET n == Cardinality(Votes(s, c, cur, epoch, own))
    IN  n >= (Cardinality(Sentinel) \div 2) + 1 /\ n >= Quorum

\* One turn of sentinelFailoverWaitStart: s votes, counts, and leads the failover
\* of that epoch if it won or was told to (SRI_FORCE_FAILOVER); otherwise it goes
\* on waiting or, when the election timed out, aborts.
Count(s, cur, fo, fav, late) ==
    LET own == VoteOf(s, cur, fo.epoch, fav)
        won == Wins(s, s, cur, fo.epoch, own)
    IN  /\ VoteLeader(s, cur, fo.epoch, fav)
        /\ leads' = leads \cup
              (IF won \/ fo.forced
                 THEN {[by |-> s, epoch |-> fo.epoch, forced |-> ~won, counted |-> cur,
                        quorum |-> Votes(s, s, cur, fo.epoch, own)]}
                 ELSE {})
        /\ IF won \/ fo.forced
             THEN failover' = [failover EXCEPT ![s] = [fo EXCEPT !.state = "select_slave"]]
             ELSE failover' = [failover EXCEPT ![s] = IF late THEN Idle ELSE fo]

\* sentinelStartFailoverIfNeeded, and what the same turn of the timer does: s asks
\* for the votes and counts a first time.  The delay of twice failover-timeout
\* since the last attempt has passed.
StartFailover(s) ==
    LET epoch == current_epoch[s] + 1
        fo    == [Idle EXCEPT !.state = "wait_start", !.epoch = epoch]
    IN  /\ s \in Candidate
        /\ failover[s].state = "none"
        /\ ODown(s)
        /\ epoch <= MaxEpoch
        /\ \E fav \in Favourites(s, epoch) : Count(s, epoch, fo, fav, FALSE)
        /\ link' = [link EXCEPT ![s] = Asked(s, epoch)]
        /\ UNCHANGED <<tables, views, order, instances, restarted>>
        /\ IF Grants(s, epoch, epoch) THEN Flush(s) ELSE UNCHANGED disk

WaitStart(s) ==
    LET cur == current_epoch[s]
        fo  == failover[s]
    IN  /\ fo.state = "wait_start"
        /\ \E fav \in Favourites(s, cur), late \in BOOLEAN : Count(s, cur, fo, fav, late)
        /\ UNCHANGED <<tables, views, link, order, instances, restarted>>
        /\ IF Grants(s, cur, fo.epoch) THEN Flush(s) ELSE UNCHANGED disk

\* The slaves sentinelSelectSlave can choose from; priority, offset and run id
\* decide among them.
Selectable(s) == (slaves[s] \ sdown[s]) \cap up \cap Promotable

\* SENTINEL FAILOVER.
ForceFailover(s) ==
    /\ s \in Forcible
    /\ failover[s].state = "none"
    /\ Selectable(s) # {}
    /\ current_epoch[s] = 0
    /\ current_epoch' = [current_epoch EXCEPT ![s] = @ + 1]
    /\ failover' = [failover EXCEPT ![s] =
          [state |-> "wait_start", epoch |-> current_epoch[s] + 1,
           forced |-> TRUE, promoted |-> None]]
    /\ UNCHANGED <<tables, vote, votes, leads, views, disk, link, order, instances,
                   restarted>>
-----------------------------------------------------------------------------
(* The failover, run by its leader. *)

\* Mutant of Abort: the state is kept.
AbortKeepingState(s) == failover' = [failover EXCEPT ![s].promoted = None]
\* sentinelAbortFailover.
Abort(s) == failover' = [failover EXCEPT ![s] = Idle]

\* sentinelFailoverSelectSlave.
SelectSlave(s) ==
    /\ failover[s].state = "select_slave"
    /\ IF Selectable(s) = {}
         THEN Abort(s)
         ELSE \E i \in Selectable(s) :
                failover' = [failover EXCEPT ![s].state = "send_slaveof_noone",
                                             ![s].promoted = i]
    /\ UNCHANGED <<tables, election, views, disk, link, order, instances, restarted>>

\* sentinelSendSlaveOf: the order that i be a slave of master (NO ONE: None).
Send(s, i, master) ==
    /\ i \in up
    /\ order[s][i] = None
    /\ order' = [order EXCEPT ![s][i] = [master |-> master]]

\* sentinelFailoverSendSlaveOfNoOne; the promoted slave may stay disconnected until
\* the failover is given up.
SendSlaveOfNoOne(s) ==
    /\ failover[s].state = "send_slaveof_noone"
    /\ \/ /\ Send(s, failover[s].promoted, None)
          /\ failover' = [failover EXCEPT ![s].state = "wait_promotion"]
       \/ /\ failover[s].promoted \notin up
          /\ Abort(s)
          /\ UNCHANGED order
    /\ UNCHANGED <<tables, election, views, disk, link, instances, restarted>>

\* sentinelFailoverWaitPromotion, timed out.
PromotionTimeout(s) ==
    /\ failover[s].state = "wait_promotion"
    /\ Abort(s)
    /\ UNCHANGED <<tables, election, views, disk, link, order, instances, restarted>>

\* The SRI_RECONF_ flags an INFO of slave i leaves: it follows the promoted slave
\* now, and perhaps its link to it is up already.
AfterInfo(s, i) ==
    LET follows == role[i] = failover[s].promoted
        synced  == IF role[i] \in up THEN {"inprog", "done"} ELSE {"inprog"}
    IN  CASE reconf[s][i] = "sent" /\ follows -> synced
          [] reconf[s][i] = "inprog"          -> synced
          [] OTHER                            -> {reconf[s][i]}

\* sentinelFailoverReconfNextSlave: one slave at a time.
ReconfNextSlave(s, i) ==
    /\ failover[s].state = "reconf_slaves"
    /\ \A j \in slaves[s] : reconf[s][j] \notin {"sent", "inprog"}
    /\ i \in slaves[s] \ {failover[s].promoted}
    /\ reconf[s][i] = "none"
    /\ Send(s, i, failover[s].promoted)
    /\ reconf' = [reconf EXCEPT ![s][i] = "sent"]
    /\ UNCHANGED <<config_epoch, addr, slaves, sdown, election, views, failover, disk,
                   link, instances, restarted>>

\* sentinelFailoverDetectEnd and sentinelFailoverSwitchToPromotedSlave, in one turn
\* of the timer: every slave in reach is reconfigured, or failover-timeout passed.
\* The last SLAVEOFs do not leave: sentinelResetMaster frees the links on which they
\* were queued before the event loop writes to them.
Reconfigured(s) == \A i \in slaves[s] \ {failover[s].promoted} :
                      reconf[s][i] = "done" \/ i \in sdown[s]

DetectEnd(s) ==
    /\ failover[s].state = "reconf_slaves"
    /\ failover[s].promoted \notin sdown[s]
    /\ ~Slow => Reconfigured(s)
    /\ ChangeMaster(s, failover[s].promoted)
    /\ UNCHANGED <<config_epoch, current_epoch, votes, leads, views, link, order,
                   instances, restarted>>
    /\ Flush(s)
-----------------------------------------------------------------------------
(* INFO, sentinelRefreshInstanceInfo. *)

\* The INFO of the master lists its slaves.
InfoMaster(s) ==
    /\ addr[s] \in up
    /\ slaves' = [slaves EXCEPT ![s] = @ \cup {i \in up : role[i] = addr[s]}]
    /\ slaves' # slaves
    /\ UNCHANGED <<config_epoch, addr, sdown, reconf, election, views, failover, disk,
                   link, order, instances, restarted>>

\* s waits for hello messages with news before it corrects an instance (four hello
\* periods, failover-timeout): by then a leader that waits for its promotion has
\* had its INFO, and the hello of a newer configuration has come.
UpToDate(s, i) ==
    \A r \in Sentinel :
       /\ config_epoch[r] <= config_epoch[s]
       /\ ~(failover[r].state = "wait_promotion" /\ failover[r].promoted = i)

\* A slave reports that it is a master: the promotion the leader waits for (it is
\* not checked which slave it is), or a master to turn into a slave, were it the
\* one the leader has just promoted.
Promoted(s, i) ==
    /\ i \in slaves[s] \cap up
    /\ role[i] = None
    /\ failover[s].state = "wait_promotion"
    /\ config_epoch' = [config_epoch EXCEPT ![s] = failover[s].epoch]
    /\ failover' = [failover EXCEPT ![s].state = "reconf_slaves"]
    /\ UNCHANGED <<addr, slaves, sdown, reconf, election, views, link, order, instances,
                   restarted>>
    /\ Flush(s)

ConvertToSlave(s, i) ==
    /\ i \in slaves[s] \ sdown[s]
    /\ role[i] = None
    /\ failover[s].state # "wait_promotion"
    /\ failover[s].state = "reconf_slaves" => Slow
    /\ LooksSane(s) /\ UpToDate(s, i)
    /\ Send(s, i, addr[s])
    /\ UNCHANGED <<tables, election, views, failover, disk, link, instances, restarted>>

\* A slave reports which master it has: perhaps the wrong one for long enough
\* (fix), perhaps the promoted one at last.
InfoSlave(s, i) ==
    /\ i \in slaves[s] \cap up
    /\ role[i] # None
    /\ \E next \in AfterInfo(s, i) : reconf' = [reconf EXCEPT ![s][i] = next]
    /\ \E fix \in BOOLEAN :
          IF fix THEN role[i] # addr[s] /\ i \notin sdown[s] /\ LooksSane(s)
                      /\ UpToDate(s, i) /\ Send(s, i, addr[s])
                 ELSE UNCHANGED order
    /\ <<reconf, order>>' # <<reconf, order>>
    /\ UNCHANGED <<config_epoch, addr, slaves, sdown, election, views, failover, disk,
                   link, instances, restarted>>
-----------------------------------------------------------------------------
(* Hello messages. *)

Announced(s) == MasterAddr(failover[s], addr[s])

\* sentinelProcessHelloMessage: what r publishes on an instance both watch
\* (sentinelSendHello) reaches s.  A new config_epoch for the
\* address s has already is not saved.
Hello(s, r) ==
    LET newEpoch  == current_epoch[r] > current_epoch[s]
        newConfig == config_epoch[r] > config_epoch[s]
        newAddr   == newConfig /\ Announced(r) # addr[s]
    IN  /\ r # s
        /\ newEpoch \/ newConfig
        /\ up \cap (slaves[s] \cup {addr[s]}) \cap (slaves[r] \cup {addr[r]}) # {}
        /\ current_epoch' = [current_epoch EXCEPT ![s] = Larger(@, current_epoch[r])]
        /\ config_epoch' = [config_epoch EXCEPT ![s] = Larger(@, config_epoch[r])]
        /\ IF newAddr THEN ChangeMaster(s, Announced(r))
                      ELSE UNCHANGED <<addr, slaves, sdown, reconf, failover, vote>>
        /\ UNCHANGED <<votes, leads, views, link, order, instances, restarted>>
        /\ CASE newAddr -> Flush(s)
             [] newEpoch /\ ~newAddr ->
                  disk' = [disk EXCEPT ![s] =
                             Saved(Announced(s), config_epoch[s], current_epoch[r],
                                   vote[s].epoch, slaves[s])]
             [] OTHER -> UNCHANGED disk
-----------------------------------------------------------------------------
(* The instances. *)

\* slaveofCommand, then CONFIG REWRITE; nothing stops an instance from becoming a
\* slave of itself.
SlaveOf(s, i) ==
    /\ i \in up
    /\ order[s][i] # None
    /\ role' = [role EXCEPT ![i] = order[s][i].master]
    /\ order' = [order EXCEPT ![s][i] = None]
    /\ UNCHANGED <<tables, election, views, failover, disk, link, up, crashed, restarted>>

Crash(i) ==
    /\ i \in up \cap (Crashable \ crashed)
    /\ up' = up \ {i}
    /\ crashed' = crashed \cup {i}
    /\ order' = [s \in Sentinel |-> [order[s] EXCEPT ![i] = None]]
    /\ UNCHANGED <<tables, election, views, failover, disk, link, role, restarted>>

Recover(i) ==
    /\ i \in Recoverable \ up
    /\ up' = up \cup {i}
    /\ UNCHANGED <<tables, election, views, failover, disk, link, order, crashed, role,
                   restarted>>
-----------------------------------------------------------------------------
\* The known-slave lines of the first configuration file.
FirstSlaves(s) == IF s \in Newcomer THEN {} ELSE Instance \ {FirstMaster}

Init ==
    /\ current_epoch = [s \in Sentinel |-> 0]
    /\ config_epoch = [s \in Sentinel |-> 0]
    /\ addr = [s \in Sentinel |-> FirstMaster]
    /\ slaves = [s \in Sentinel |-> FirstSlaves(s)]
    /\ sdown = [s \in Sentinel |-> {}]
    /\ masterDown = [s \in Sentinel |-> {}]
    /\ vote = [s \in Sentinel |-> NoVote]
    /\ seen = [s \in Sentinel |-> [r \in Sentinel |-> NoVote]]
    /\ failover = [s \in Sentinel |-> Idle]
    /\ reconf = [s \in Sentinel |-> [i \in Instance |-> "none"]]
    /\ disk = [s \in Sentinel |-> Saved(FirstMaster, 0, 0, 0, FirstSlaves(s))]
    /\ link = [s \in Sentinel |-> [r \in Sentinel |-> None]]
    /\ order = [s \in Sentinel |-> [i \in Instance |-> None]]
    /\ up = Instance
    /\ crashed = {}
    /\ restarted = {}
    /\ role = [i \in Instance |-> IF i = FirstMaster THEN None ELSE FirstMaster]
    /\ votes = {}
    /\ leads = {}

Next ==
    \/ \E s \in Sentinel :
          \/ StartFailover(s) \/ ForceFailover(s) \/ WaitStart(s)
          \/ SelectSlave(s) \/ SendSlaveOfNoOne(s) \/ PromotionTimeout(s)
          \/ DetectEnd(s) \/ InfoMaster(s) \/ Ask(s) \/ Restart(s)
    \/ \E s, r \in Sentinel : AskDown(s, r) \/ Answer(s, r) \/ Forget(s, r) \/ Hello(s, r)
    \/ \E s \in Sentinel, i \in Instance :
          \/ SDown(s, i) \/ ReconfNextSlave(s, i) \/ Promoted(s, i)
          \/ ConvertToSlave(s, i) \/ InfoSlave(s, i) \/ SlaveOf(s, i)
    \/ \E i \in Instance : Crash(i) \/ Recover(i)

\* The timer runs every 100 ms, PING, INFO and hello messages are sent for as long
\* as a sentinel runs, what is on a link to a live process arrives, and the
\* instances in Recoverable are started again.
Fairness ==
    /\ \A s \in Sentinel :
          /\ WF_vars(WaitStart(s)) /\ WF_vars(SelectSlave(s)) /\ WF_vars(SendSlaveOfNoOne(s))
          /\ WF_vars(PromotionTimeout(s)) /\ WF_vars(DetectEnd(s)) /\ WF_vars(InfoMaster(s))
    /\ \A s, r \in Sentinel : WF_vars(Hello(s, r))
    /\ \A s \in Sentinel, i \in Instance :
          /\ WF_vars(SDown(s, i)) /\ WF_vars(ReconfNextSlave(s, i)) /\ WF_vars(Promoted(s, i))
          /\ WF_vars(ConvertToSlave(s, i)) /\ WF_vars(InfoSlave(s, i)) /\ WF_vars(SlaveOf(s, i))
    /\ \A i \in Recoverable : WF_vars(Recover(i))

Spec == Init /\ [][Next]_vars /\ Fairness
-----------------------------------------------------------------------------
(* Properties. *)

State == {"none", "wait_start", "select_slave", "send_slaveof_noone", "wait_promotion",
          "reconf_slaves"}
Vote  == [leader : Sentinel \cup {None}, epoch : Nat]
Query == [addr : Instance, epoch : Nat]
File  == [addr : Instance, config_epoch : Nat, current_epoch : Nat, leader_epoch : Nat,
          slaves : SUBSET Instance]

\* Every variable has its type (sentinelRedisInstance and sentinelState, sentinel.c),
\* and a failover that chose a slave has one to promote.
TypeOK ==
    /\ current_epoch \in [Sentinel -> Nat]
    /\ config_epoch \in [Sentinel -> Nat]
    /\ addr \in [Sentinel -> Instance]
    /\ slaves \in [Sentinel -> SUBSET Instance]
    /\ sdown \in [Sentinel -> SUBSET Instance]
    /\ masterDown \in [Sentinel -> SUBSET Sentinel]
    /\ vote \in [Sentinel -> Vote]
    /\ seen \in [Sentinel -> [Sentinel -> Vote]]
    /\ failover \in [Sentinel -> [state : State, epoch : Nat, forced : BOOLEAN,
                                  promoted : Instance \cup {None}]]
    /\ \A s \in Sentinel : failover[s].state \in {"send_slaveof_noone", "wait_promotion",
                                                  "reconf_slaves"}
                             => failover[s].promoted \in Instance
    /\ reconf \in [Sentinel -> [Instance -> {"none", "sent", "inprog", "done"}]]
    /\ disk \in [Sentinel -> File]
    /\ link \in [Sentinel -> [Sentinel -> Query \cup {None}]]
    /\ order \in [Sentinel -> [Instance -> [master : Instance \cup {None}] \cup {None}]]
    /\ up \in SUBSET Instance
    /\ crashed \in SUBSET Instance
    /\ restarted \in SUBSET Sentinel
    /\ role \in [Instance -> Instance \cup {None}]
    /\ votes \in SUBSET [by : Sentinel, for : Sentinel, epoch : Nat]
    /\ leads \in SUBSET [by : Sentinel, epoch : Nat, forced : BOOLEAN, counted : Nat,
                         quorum : SUBSET Sentinel]

\* A sentinel votes for one leader per epoch, over restarts too: sentinelVoteLeader
\* writes leader-epoch before its answer leaves, and the answer after a restart
\* names no leader for the epoch it does not remember the vote of.
VotesOnce ==
    \A v, w \in votes : v.by = w.by /\ v.epoch = w.epoch => v = w

\* Two sentinels lead the failover of the same epoch only if one was told to by
\* SENTINEL FAILOVER, or counted the votes of another epoch than that of its
\* failover: sentinelGetLeader counts those of sentinel.current_epoch.
TwoLeadersNeedAGap ==
    \A l, m \in leads :
       l.epoch = m.epoch /\ l.by # m.by
          => \E x \in {l, m} : x.forced \/ x.counted # x.epoch

\* The master a sentinel announces is the one its configuration file names, so
\* that the restart of a leader after the promotion does not bring the old master
\* back (sentinelGetCurrentMasterAddress, sentinelFlushConfig).
AnnouncedIsSaved == \A s \in Sentinel : disk[s].addr = Announced(s)

\* To be a leader for a given epoch takes the majority of the votes of the same
\* epoch (comment of sentinelGetLeader), so an epoch has one leader.
OneLeaderPerEpoch ==
    \A l, m \in leads : l.epoch = m.epoch /\ ~l.forced /\ ~m.forced => l.by = m.by

\* The sentinels agree on the configuration, and every instance that runs is in
\* the role it gives it.
Settled ==
    \E m \in Instance :
       /\ \A s, r \in Sentinel : Announced(s) = m /\ config_epoch[s] = config_epoch[r]
       /\ \A s \in Sentinel : failover[s].state = "none"
       /\ m \in up => \A i \in up : role[i] = IF i = m THEN None ELSE m

TwoLeaders == \E l, m \in leads : l.epoch = m.epoch /\ l.by # m.by

\* Once instances stop failing and no two failovers had the same epoch, the
\* sentinels and the instances settle: hello messages spread the configuration
\* of the last failover, and SLAVEOF puts the instances in their roles.
Converges == <>TwoLeaders \/ <>[]Settled
==============================================================================
