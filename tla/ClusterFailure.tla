------------------------------ MODULE ClusterFailure ------------------------------
(***************************************************************************)
(* The failure detector of Redis Cluster (cluster.c).  A node whose PING   *)
(* is not answered within cluster-node-timeout is flagged PFAIL; packets   *)
(* carry the flags to the other nodes, which collect the reports of the    *)
(* masters; a node that sees PFAIL itself and holds the reports of a       *)
(* majority sets FAIL and broadcasts it; a PONG clears the flags again.    *)
(*                                                                         *)
(* Roles and slots do not change here (ClusterElection follows them).      *)
(* Time is left out: a report may be dropped as too old only when its      *)
(* sender no longer renews it, every other delay may pass at any moment.   *)
(***************************************************************************)
EXTENDS Naturals, FiniteSets

CONSTANTS
    Node,         \* the nodes of the cluster
    Serving,      \* the masters that serve slots
    Empty,        \* the masters without slots
    Breakable,    \* bound: the nodes that may lose their links
    Suspects,     \* bound: the nodes whose PONG may be overdue
    MaxBreaks,    \* bound: how often a node loses its links
    MaxRestarts   \* bound: how often a process restarts

ASSUME ConstantsAssumption ==
    /\ IsFiniteSet(Node)
    /\ Serving \subseteq Node /\ Empty \subseteq Node \ Serving
    /\ Breakable \subseteq Node /\ Suspects \subseteq Node
    /\ MaxBreaks \in Nat /\ MaxRestarts \in Nat

VARIABLES
    isolated,     \* the nodes nobody hears: partitioned or dead
    flags,        \* flags[n][r]: REDIS_NODE_PFAIL and FAIL of r in n's table
    fail_reports, \* fail_reports[n][r]: the senders of the reports n holds on r
    size,         \* server.cluster->size
    saved,        \* the flags nodes.conf of each node holds
    msgs,         \* FAIL messages in flight
    breaks,       \* links lost so far
    restarts,     \* restarts so far
    \* History variables: no action reads them.
    suspected,    \* the pairs <<n, r>> such that n once flagged r
    marks         \* the PFAIL to FAIL transitions, [by, about, voices, size]

vars == <<isolated, flags, fail_reports, size, saved, msgs, breaks, restarts,
          suspected, marks>>

Master == Serving \cup Empty

\* Packets flow between n and r.
Hears(n, r) == n # r /\ isolated \cap {n, r} = {}

\* A save rewrites all of nodes.conf.
SaveFlags(n) == saved' = [saved EXCEPT ![n] = flags'[n]]

------------------------------------------------------------------------------

\* Mutant of PingTimeout: PFAIL is set beside FAIL.
PingTimeoutTwice(n, r) ==
    /\ n # r /\ ~Hears(n, r) /\ r \in Suspects
    /\ size[n] = Cardinality(Serving)
    /\ flags[n][r] # "pfail"
    /\ flags' = [flags EXCEPT ![n][r] = IF @ = "ok" THEN "pfail" ELSE "pfail, fail"]
    /\ suspected' = suspected \cup {<<n, r>>}
    /\ UNCHANGED <<isolated, fail_reports, size, saved, msgs, breaks, restarts, marks>>

\* clusterCron: the PONG of r is overdue.  No save is asked for.  (A process that
\* just started has counted the masters before cluster-node-timeout, 15 seconds
\* by default, can pass.)
PingTimeout(n, r) ==
    /\ n # r /\ ~Hears(n, r) /\ r \in Suspects
    /\ size[n] = Cardinality(Serving)
    /\ flags[n][r] = "ok"
    /\ flags' = [flags EXCEPT ![n][r] = "pfail"]
    /\ suspected' = suspected \cup {<<n, r>>}
    /\ UNCHANGED <<isolated, fail_reports, size, saved, msgs, breaks, restarts, marks>>

\* The voices for the failure of r that n counts: the masters' reports, and its
\* own if it is a master.
Voices(n, r, reports) == reports \cup (Master \cap {n})

\* Mutant of Failing: half of the masters is enough.
FailingByHalf(n, r, reports) ==
    /\ flags[n][r] = "pfail"
    /\ Cardinality(Voices(n, r, reports)) >= size[n] \div 2

\* markNodeAsFailingIfNeeded: n itself flags r PFAIL and a majority reports it.
Failing(n, r, reports) ==
    /\ flags[n][r] = "pfail"
    /\ Cardinality(Voices(n, r, reports)) >= (size[n] \div 2) + 1

\* A master tells everybody it has a link to; a slave tells nobody.
FailMessages(n, r) ==
    IF n \in Master
    THEN {[to |-> k, about |-> r] : k \in {k \in Node : Hears(n, k)}}
    ELSE {}

\* Mutant of Reported: a node flagged FAIL is no longer reported.
ReportedAsPfail(k, r) == flags[k][r] = "pfail"

\* The flags of r in the gossip section k sends.
Reported(k, r) == flags[k][r] # "ok"

\* clusterProcessGossipSection, a master k reports r as failing.
ReportFailing(k, n, r) ==
    LET reports == fail_reports[n][r] \cup {k} IN
    /\ Hears(k, n) /\ k \in Master /\ r \notin {k, n}
    /\ Reported(k, r)
    /\ fail_reports' = [fail_reports EXCEPT ![n][r] = reports]
    /\ \/ /\ ~Failing(n, r, reports)
          /\ UNCHANGED <<flags, saved, msgs, marks>>
       \/ /\ Failing(n, r, reports)
          /\ flags' = [flags EXCEPT ![n][r] = "fail"]
          /\ msgs' = msgs \cup FailMessages(n, r)
          /\ marks' = marks \cup {[by |-> n, about |-> r, size |-> size[n],
                                   voices |-> Voices(n, r, reports)]}
          /\ SaveFlags(n)
    /\ UNCHANGED <<isolated, size, breaks, restarts, suspected>>

\* clusterProcessGossipSection, a master k reports r as reachable.
ReportReachable(k, n, r) ==
    /\ Hears(k, n) /\ k \in Master /\ r \notin {k, n}
    /\ ~Reported(k, r) /\ k \in fail_reports[n][r]
    /\ fail_reports' = [fail_reports EXCEPT ![n][r] = @ \ {k}]
    /\ UNCHANGED <<isolated, flags, size, saved, msgs, breaks, restarts, suspected,
                   marks>>

\* clusterNodeCleanupFailureReports: the report of k is too old.  A sender that
\* still flags r and is heard renews it in time.
ExpireReport(k, n, r) ==
    /\ k \in fail_reports[n][r]
    /\ ~Hears(k, n) \/ ~Reported(k, r)
    /\ fail_reports' = [fail_reports EXCEPT ![n][r] = @ \ {k}]
    /\ UNCHANGED <<isolated, flags, size, saved, msgs, breaks, restarts, suspected,
                   marks>>

\* clusterProcessPacket of a FAIL message.
ReceiveFail(m) ==
    /\ m \in msgs
    /\ m.to \notin isolated
    /\ msgs' = msgs \ {m}
    /\ IF flags[m.to][m.about] # "fail" /\ m.about # m.to
       THEN /\ flags' = [flags EXCEPT ![m.to][m.about] = "fail"]
            /\ suspected' = suspected \cup {<<m.to, m.about>>}
            /\ SaveFlags(m.to)
       ELSE UNCHANGED <<flags, suspected, saved>>
    /\ UNCHANGED <<isolated, fail_reports, size, breaks, restarts, marks>>

\* Mutant of Pong: a master that serves slots stays failing.
PongOfOthers(n, r, long) ==
    /\ Hears(n, r)
    /\ \/ flags[n][r] = "pfail"
       \/ flags[n][r] = "fail" /\ r \notin Serving
    /\ flags' = [flags EXCEPT ![n][r] = "ok"]
    /\ SaveFlags(n)
    /\ UNCHANGED <<isolated, fail_reports, size, msgs, breaks, restarts, suspected, marks>>

\* clusterProcessPacket of a PONG of r: PFAIL is cleared, FAIL by
\* clearNodeFailureIfNeeded, for a master that serves slots only once
\* cluster-node-timeout * 2 have passed (long).
Pong(n, r, long) ==
    /\ Hears(n, r)
    /\ \/ flags[n][r] = "pfail"
       \/ flags[n][r] = "fail" /\ (r \in Serving => long)
    /\ flags' = [flags EXCEPT ![n][r] = "ok"]
    /\ SaveFlags(n)
    /\ UNCHANGED <<isolated, fail_reports, size, msgs, breaks, restarts, suspected, marks>>

------------------------------------------------------------------------------

\* n loses its links: what was on its way to it is lost.
Break(n) ==
    /\ n \in Breakable \ isolated /\ breaks < MaxBreaks
    /\ isolated' = isolated \cup {n}
    /\ breaks' = breaks + 1
    /\ msgs' = {m \in msgs : m.to # n}
    /\ UNCHANGED <<flags, fail_reports, size, saved, restarts, suspected, marks>>

\* clusterCron connects to n again.
Reconnect(n) ==
    /\ n \in isolated
    /\ isolated' = isolated \ {n}
    /\ UNCHANGED <<flags, fail_reports, size, saved, msgs, breaks, restarts, suspected,
                   marks>>

\* A save asked for by something else.
SaveConfig(n) ==
    /\ restarts < MaxRestarts
    /\ saved[n] # flags[n]
    /\ UNCHANGED <<isolated, flags, fail_reports, size, msgs, breaks, restarts, suspected,
                   marks>>
    /\ SaveFlags(n)

\* clusterInit and clusterLoadConfig: the flags are those of nodes.conf, the
\* reports are gone, and size is 1.
Restart(n) ==
    /\ restarts < MaxRestarts
    /\ restarts' = restarts + 1
    /\ flags' = [flags EXCEPT ![n] = saved[n]]
    /\ fail_reports' = [fail_reports EXCEPT ![n] = [r \in Node |-> {}]]
    /\ size' = [size EXCEPT ![n] = 1]
    /\ msgs' = {m \in msgs : m.to # n}
    /\ UNCHANGED <<isolated, saved, breaks, suspected, marks>>

\* clusterUpdateState counts the masters; a master that just started does so
\* only after REDIS_CLUSTER_WRITABLE_DELAY.
UpdateState(n) ==
    /\ size[n] # Cardinality(Serving)
    /\ size' = [size EXCEPT ![n] = Cardinality(Serving)]
    /\ UNCHANGED <<isolated, flags, fail_reports, saved, msgs, breaks, restarts, suspected,
                   marks>>

------------------------------------------------------------------------------

Init ==
    /\ isolated = {}
    /\ flags = [n \in Node |-> [r \in Node |-> "ok"]]
    /\ fail_reports = [n \in Node |-> [r \in Node |-> {}]]
    /\ size = [n \in Node |-> Cardinality(Serving)]
    /\ saved = flags
    /\ msgs = {}
    /\ breaks = 0
    /\ restarts = 0
    /\ suspected = {}
    /\ marks = {}

Next ==
    \/ \E n \in Node : \/ Break(n)
                       \/ Reconnect(n)
                       \/ SaveConfig(n)
                       \/ Restart(n)
                       \/ UpdateState(n)
    \/ \E n, r \in Node : \/ PingTimeout(n, r)
                          \/ \E long \in BOOLEAN : Pong(n, r, long)
    \/ \E k, n, r \in Node : \/ ReportFailing(k, n, r)
                             \/ ReportReachable(k, n, r)
                             \/ ExpireReport(k, n, r)
    \/ \E m \in msgs : ReceiveFail(m)

Spec == Init /\ [][Next]_vars

\* clusterCron pings every node, packets mention every node, and time passes.
\* Nothing is assumed of the FAIL messages.
Fairness ==
    /\ \A n \in Node : WF_vars(UpdateState(n))
    /\ \A n, r \in Node : WF_vars(PingTimeout(n, r)) /\ WF_vars(Pong(n, r, TRUE))
    /\ \A k, n, r \in Node : WF_vars(ReportFailing(k, n, r))

FairSpec == Spec /\ Fairness

------------------------------------------------------------------------------
(* Properties. *)

Flag == {"ok", "pfail", "fail"}

\* The types of the state (clusterNode flags and fail_reports, nodes.conf); PFAIL
\* and FAIL are never set together.
TypeOK ==
    /\ isolated \in SUBSET Node
    /\ flags \in [Node -> [Node -> Flag]]
    /\ fail_reports \in [Node -> [Node -> SUBSET Node]]
    /\ size \in [Node -> Nat]
    /\ saved \in [Node -> [Node -> Flag]]
    /\ msgs \in SUBSET [to : Node, about : Node]
    /\ breaks \in Nat /\ restarts \in Nat
    /\ suspected \in SUBSET (Node \X Node)
    /\ marks \in SUBSET [by : Node, about : Node, voices : SUBSET Node, size : Nat]

\* A node is flagged FAIL anywhere, in memory, on disk or in a message, only
\* after some node counted masters that each flagged it, as many as the quorum of
\* the size that node had (markNodeAsFailingIfNeeded, clusterSendFail).
Alleged(r) == \/ \E n \in Node : flags[n][r] = "fail" \/ saved[n][r] = "fail"
              \/ \E m \in msgs : m.about = r
FailIsBacked ==
    \A r \in Node : Alleged(r) =>
        \E k \in marks : /\ k.about = r
                         /\ k.voices \subseteq {n \in Master : <<n, r>> \in suspected}
                         /\ 2 * Cardinality(k.voices) > k.size

\* A node that stays cut off is flagged FAIL by every node in the end, whatever
\* becomes of the FAIL messages, if the others stay connected and a majority of
\* the serving masters is among them (cluster.c:1367 "eventually the FAIL state
\* will propagate to all the cluster").
DownIsDetected ==
    \A r \in Node :
        2 * Cardinality(Serving \ {r}) > Cardinality(Serving) =>
            (<>[](isolated = {r}) => <>[](\A n \in Node \ {r} : flags[n][r] = "fail"))

\* Once all links are up for good, nobody suspects anybody
\* (clearNodeFailureIfNeeded; cluster.c:1371 "the FAIL flag will be cleared after
\* some time").
SuspicionEnds ==
    <>[](isolated = {}) => <>[](\A n, r \in Node : flags[n][r] = "ok")

\* cluster.c:1339 "Enough means that the majority of the masters signaled the
\* node is down recently": what the comment says.
MajorityOfMasters ==
    \A k \in marks : 2 * Cardinality(k.voices \cap Serving) > Cardinality(Serving)
==============================================================================
