------------------------ MODULE ClusterFailureProofs ------------------------
(***************************************************************************)
(* TypeOK and FailIsBacked hold of ClusterFailure for every cluster.       *)
(***************************************************************************)
EXTENDS ClusterFailure, FiniteSetTheorems, TLAPS

\* server.cluster->size is a natural number: it counts the masters.
LEMMA SizeType == Cardinality(Serving) \in Nat
BY ConstantsAssumption, FS_Subset, FS_CardinalityType

\* The voices counted for the failure of r: the reports, and n itself.
LEMMA VoicesTypes ==
    ASSUME TypeOK, NEW n \in Node, NEW r \in Node, NEW k \in Node
    PROVE  /\ Voices(n, r, fail_reports[n][r] \cup {k}) \in SUBSET Node
           /\ fail_reports[n][r] \cup {k} \in SUBSET Node
BY DEF TypeOK, Voices

\* Every action keeps the types.
LEMMA NextTypes == TypeOK /\ [Next]_vars => TypeOK'
<1> SUFFICES ASSUME TypeOK, [Next]_vars
             PROVE  TypeOK'
  OBVIOUS
<1> USE DEF Flag
<1>1. ASSUME NEW n \in Node, NEW r \in Node, PingTimeout(n, r)
      PROVE  TypeOK'
  BY <1>1 DEF PingTimeout, TypeOK
<1>2. ASSUME NEW k \in Node, NEW n \in Node, NEW r \in Node, ReportFailing(k, n, r)
      PROVE  TypeOK'
  <2> DEFINE reports == fail_reports[n][r] \cup {k}
  <2>1. reports \in SUBSET Node /\ Voices(n, r, reports) \in SUBSET Node
    BY VoicesTypes
  <2>2. /\ fail_reports' = [fail_reports EXCEPT ![n][r] = reports]
        /\ UNCHANGED <<isolated, size, breaks, restarts, suspected>>
    BY <1>2 DEF ReportFailing
  <2>3. fail_reports' \in [Node -> [Node -> SUBSET Node]]
    BY <2>1, <2>2 DEF TypeOK
  <2>4. CASE UNCHANGED <<flags, saved, msgs, marks>>
    BY <2>2, <2>3, <2>4 DEF TypeOK
  <2>5. CASE /\ flags' = [flags EXCEPT ![n][r] = "fail"]
             /\ msgs' = msgs \cup FailMessages(n, r)
             /\ marks' = marks \cup {[by |-> n, about |-> r, size |-> size[n],
                                      voices |-> Voices(n, r, reports)]}
             /\ SaveFlags(n)
    <3>1. flags' \in [Node -> [Node -> Flag]]
      BY <2>5 DEF TypeOK
    <3>2. saved' \in [Node -> [Node -> Flag]]
      BY <2>5, <3>1 DEF TypeOK, SaveFlags
    <3>3. msgs' \in SUBSET [to : Node, about : Node]
      BY <2>5 DEF TypeOK, FailMessages
    <3>4. marks' \in SUBSET [by : Node, about : Node, voices : SUBSET Node, size : Nat]
      <4>1. size[n] \in Nat
        BY DEF TypeOK
      <4>2. [by |-> n, about |-> r, size |-> size[n], voices |-> Voices(n, r, reports)]
              \in [by : Node, about : Node, voices : SUBSET Node, size : Nat]
        <5> HIDE DEF reports
        <5> QED BY <2>1, <4>1
      <4> QED BY <2>5, <4>2 DEF TypeOK
    <3> QED BY <2>2, <2>3, <3>1, <3>2, <3>3, <3>4 DEF TypeOK
  <2> QED BY <1>2, <2>4, <2>5 DEF ReportFailing
<1>3. ASSUME NEW k \in Node, NEW n \in Node, NEW r \in Node,
             ReportReachable(k, n, r) \/ ExpireReport(k, n, r)
      PROVE  TypeOK'
  <2>1. /\ fail_reports' = [fail_reports EXCEPT ![n][r] = @ \ {k}]
        /\ UNCHANGED <<isolated, flags, size, saved, msgs, breaks, restarts, suspected,
                       marks>>
    BY <1>3 DEF ReportReachable, ExpireReport
  <2>2. fail_reports' \in [Node -> [Node -> SUBSET Node]]
    BY <2>1 DEF TypeOK
  <2> QED BY <2>1, <2>2 DEF TypeOK
<1>4. ASSUME NEW m \in msgs, ReceiveFail(m)
      PROVE  TypeOK'
  <2>1. m.to \in Node /\ m.about \in Node
    BY DEF TypeOK
  <2>2. /\ flags' \in [Node -> [Node -> Flag]]
        /\ suspected' \in SUBSET (Node \X Node)
    <3>1. CASE flags[m.to][m.about] # "fail" /\ m.about # m.to
      <4>1. /\ flags' = [flags EXCEPT ![m.to][m.about] = "fail"]
            /\ suspected' = suspected \cup {<<m.to, m.about>>}
        BY <1>4, <3>1 DEF ReceiveFail
      <4>2. flags' \in [Node -> [Node -> Flag]]
        BY <2>1, <4>1 DEF TypeOK
      <4>3. suspected' \in SUBSET (Node \X Node)
        BY <2>1, <4>1 DEF TypeOK
      <4> QED BY <4>2, <4>3
    <3>2. CASE ~(flags[m.to][m.about] # "fail" /\ m.about # m.to)
      BY <1>4, <3>2 DEF ReceiveFail, TypeOK
    <3> QED BY <3>1, <3>2
  <2>3. saved' \in [Node -> [Node -> Flag]]
    BY <1>4, <2>1, <2>2 DEF ReceiveFail, TypeOK, SaveFlags
  <2> QED BY <1>4, <2>2, <2>3 DEF ReceiveFail, TypeOK
<1>5. ASSUME NEW n \in Node, NEW r \in Node, NEW long \in BOOLEAN, Pong(n, r, long)
      PROVE  TypeOK'
  <2>1. /\ flags' = [flags EXCEPT ![n][r] = "ok"]
        /\ SaveFlags(n)
        /\ UNCHANGED <<isolated, fail_reports, size, msgs, breaks, restarts, suspected,
                       marks>>
    BY <1>5 DEF Pong
  <2>2. flags' \in [Node -> [Node -> Flag]]
    BY <2>1 DEF TypeOK
  <2>3. saved' \in [Node -> [Node -> Flag]]
    BY <2>1, <2>2 DEF TypeOK, SaveFlags
  <2> QED BY <2>1, <2>2, <2>3 DEF TypeOK
<1>6. ASSUME NEW n \in Node, Break(n) \/ Reconnect(n)
      PROVE  TypeOK'
  <2>1. /\ isolated' \in SUBSET Node /\ breaks' \in Nat
        /\ msgs' \in SUBSET [to : Node, about : Node]
    BY <1>6 DEF Break, Reconnect, TypeOK
  <2>2. UNCHANGED <<flags, fail_reports, size, saved, restarts, suspected, marks>>
    BY <1>6 DEF Break, Reconnect
  <2> QED BY <2>1, <2>2 DEF TypeOK
<1>10. ASSUME NEW n \in Node, SaveConfig(n)
       PROVE  TypeOK'
  <2>1. /\ UNCHANGED <<isolated, flags, fail_reports, size, msgs, breaks, restarts,
                       suspected, marks>>
        /\ SaveFlags(n)
    BY <1>10 DEF SaveConfig
  <2>2. saved' \in [Node -> [Node -> Flag]]
    BY <2>1 DEF TypeOK, SaveFlags
  <2> QED BY <2>1, <2>2 DEF TypeOK
<1>7. ASSUME NEW n \in Node, Restart(n)
      PROVE  TypeOK'
  BY <1>7 DEF Restart, TypeOK
<1>8. ASSUME NEW n \in Node, UpdateState(n)
      PROVE  TypeOK'
  BY <1>8, SizeType DEF UpdateState, TypeOK
<1>9. CASE UNCHANGED vars
  BY <1>9 DEF vars, TypeOK
<1> QED
  BY <1>1, <1>2, <1>3, <1>4, <1>5, <1>6, <1>7, <1>8, <1>9, <1>10 DEF Next

\* Every reachable state is well typed (the flags and fail_reports of clusterNode,
\* server.cluster->size, the flags in nodes.conf).
THEOREM TypeCorrect == Spec => []TypeOK
<1>1. Init => TypeOK
  BY SizeType DEF Init, TypeOK, Flag
<1>2. TypeOK /\ [Next]_vars => TypeOK'
  BY NextTypes
<1> QED BY <1>1, <1>2, PTL DEF Spec

------------------------------------------------------------------------------
(* Where a FAIL flag comes from. *)

\* A flag somebody holds in memory or on disk was raised by that node once, and
\* so was the flag a report is about.
FlagsWereRaised ==
    \A n, r \in Node :
        flags[n][r] # "ok" \/ saved[n][r] # "ok" => <<n, r>> \in suspected
ReportsWereTrue ==
    \A n, r \in Node :
        fail_reports[n][r] \subseteq {k \in Master : <<k, r>> \in suspected}

\* The inductive invariant: FailIsBacked does not tell what a report is worth.
BackedInvariant == FlagsWereRaised /\ ReportsWereTrue /\ FailIsBacked

\* A step that raises no flag, adds no report and alleges no new failure.
LEMMA HarmlessStep ==
    ASSUME BackedInvariant,
           UNCHANGED <<suspected, marks>>,
           \A n, r \in Node : fail_reports'[n][r] \subseteq fail_reports[n][r],
           \A n, r \in Node : /\ flags'[n][r] \in {"ok", flags[n][r], saved[n][r]}
                              /\ saved'[n][r] \in {"ok", flags[n][r], saved[n][r]},
           msgs' \subseteq msgs
    PROVE  BackedInvariant'
<1>1. FlagsWereRaised'
  BY DEF BackedInvariant, FlagsWereRaised
<1>2. ReportsWereTrue'
  BY DEF BackedInvariant, ReportsWereTrue, Master
<1>3. \A r \in Node : Alleged(r)' => Alleged(r)
  BY DEF Alleged
<1>4. FailIsBacked'
  BY <1>3 DEF BackedInvariant, FailIsBacked, Master
<1> QED BY <1>1, <1>2, <1>4 DEF BackedInvariant

\* markNodeAsFailingIfNeeded sets FAIL only when the voices it counts reach the
\* quorum of its own size.
LEMMA BackedReport ==
    ASSUME TypeOK, BackedInvariant, NEW k \in Node, NEW n \in Node, NEW r \in Node,
           ReportFailing(k, n, r)
    PROVE  BackedInvariant'
<1> DEFINE reports == fail_reports[n][r] \cup {k}
           voices == Voices(n, r, reports)
           mark == [by |-> n, about |-> r, size |-> size[n], voices |-> voices]
<1>1. /\ k \in Master /\ flags[k][r] # "ok"
      /\ fail_reports' = [fail_reports EXCEPT ![n][r] = reports]
      /\ UNCHANGED suspected
  BY DEF ReportFailing, Reported
<1>2. <<k, r>> \in suspected
  BY <1>1 DEF BackedInvariant, FlagsWereRaised
<1>3. reports \subseteq {j \in Master : <<j, r>> \in suspected}
  BY <1>1, <1>2 DEF BackedInvariant, ReportsWereTrue
<1>4. ReportsWereTrue'
  <2> SUFFICES ASSUME NEW a \in Node, NEW b \in Node
               PROVE  fail_reports'[a][b] \subseteq {j \in Master : <<j, b>> \in suspected'}
    BY DEF ReportsWereTrue
  <2>1. CASE a = n /\ b = r
    BY <1>1, <1>3, <2>1 DEF TypeOK
  <2>2. CASE ~(a = n /\ b = r)
    BY <1>1, <2>2 DEF TypeOK, BackedInvariant, ReportsWereTrue
  <2> QED BY <2>1, <2>2
<1>5. CASE UNCHANGED <<flags, saved, msgs, marks>>
  <2>1. FlagsWereRaised'
    BY <1>1, <1>5 DEF BackedInvariant, FlagsWereRaised
  <2>2. FailIsBacked'
    BY <1>1, <1>5 DEF BackedInvariant, FailIsBacked, Alleged, Master
  <2> QED BY <1>4, <2>1, <2>2 DEF BackedInvariant
<1>6. CASE /\ Failing(n, r, reports)
           /\ flags' = [flags EXCEPT ![n][r] = "fail"]
           /\ msgs' = msgs \cup FailMessages(n, r)
           /\ marks' = marks \cup {mark}
           /\ SaveFlags(n)
  <2>1. flags[n][r] = "pfail" /\ <<n, r>> \in suspected
    BY <1>6 DEF Failing, BackedInvariant, FlagsWereRaised
  <2>2. \A a, b \in Node : flags'[a][b] = IF a = n /\ b = r THEN "fail" ELSE flags[a][b]
    BY <1>6 DEF TypeOK
  <2>3. \A a, b \in Node : saved'[a][b] = IF a = n THEN flags'[a][b] ELSE saved[a][b]
    BY <1>6 DEF TypeOK, SaveFlags
  <2>4. FlagsWereRaised'
    BY <1>1, <2>1, <2>2, <2>3 DEF BackedInvariant, FlagsWereRaised
  <2>5. voices \subseteq {j \in Master : <<j, r>> \in suspected}
    BY <1>3, <2>1 DEF Voices
  <2>6. 2 * Cardinality(voices) > size[n]
    <3>1. Cardinality(voices) >= (size[n] \div 2) + 1
      BY <1>6 DEF Failing
    <3>2. size[n] \in Nat
      BY DEF TypeOK
    <3>3. IsFiniteSet(voices)
      BY VoicesTypes, ConstantsAssumption, FS_Subset
    <3>4. Cardinality(voices) \in Nat
      BY <3>3, FS_CardinalityType
    <3> QED BY <3>1, <3>2, <3>4
  <2>7. FailIsBacked'
    <3> SUFFICES ASSUME NEW b \in Node, Alleged(b)'
                 PROVE  \E j \in marks' :
                          /\ j.about = b
                          /\ j.voices \subseteq {a \in Master : <<a, b>> \in suspected'}
                          /\ 2 * Cardinality(j.voices) > j.size
      BY DEF FailIsBacked, Master
    <3>1. CASE b = r
      <4> HIDE DEF voices
      <4>1. /\ mark \in marks' /\ mark.about = b
            /\ mark.voices \subseteq {a \in Master : <<a, b>> \in suspected'}
            /\ 2 * Cardinality(mark.voices) > mark.size
        BY <1>1, <1>6, <2>5, <2>6, <3>1
      <4> QED BY <4>1
    <3>2. CASE b # r
      <4>1. Alleged(b)
        BY <1>6, <2>2, <2>3, <3>2 DEF Alleged, FailMessages
      <4> QED BY <1>1, <1>6, <4>1 DEF BackedInvariant, FailIsBacked, Master
    <3> QED BY <3>1, <3>2
  <2> QED BY <1>4, <2>4, <2>7 DEF BackedInvariant
<1> QED BY <1>5, <1>6 DEF ReportFailing

\* A FAIL message sets a flag the sender's mark already accounts for.
LEMMA BackedReceive ==
    ASSUME TypeOK, BackedInvariant, NEW m \in msgs, ReceiveFail(m)
    PROVE  BackedInvariant'
<1> DEFINE n == m.to
           r == m.about
<1>1. n \in Node /\ r \in Node
  BY DEF TypeOK
<1>2. Alleged(r)
  BY DEF Alleged
<1>3. msgs' \subseteq msgs /\ UNCHANGED <<fail_reports, marks>>
  BY DEF ReceiveFail
<1>4. CASE flags[n][r] # "fail" /\ r # n
  <2>1. /\ flags' = [flags EXCEPT ![n][r] = "fail"]
        /\ suspected' = suspected \cup {<<n, r>>}
        /\ SaveFlags(n)
    BY <1>4 DEF ReceiveFail
  <2>2. \A a, b \in Node : flags'[a][b] = IF a = n /\ b = r THEN "fail" ELSE flags[a][b]
    BY <1>1, <2>1 DEF TypeOK
  <2>3. \A a, b \in Node : saved'[a][b] = IF a = n THEN flags'[a][b] ELSE saved[a][b]
    BY <1>1, <2>1 DEF TypeOK, SaveFlags
  <2>4. FlagsWereRaised'
    BY <1>1, <2>1, <2>2, <2>3 DEF BackedInvariant, FlagsWereRaised
  <2>5. ReportsWereTrue'
    BY <1>3, <2>1 DEF BackedInvariant, ReportsWereTrue, Master
  <2>6. \A b \in Node : Alleged(b)' => Alleged(b)
    BY <1>2, <1>3, <2>2, <2>3 DEF Alleged
  <2>7. FailIsBacked'
    BY <1>3, <2>1, <2>6 DEF BackedInvariant, FailIsBacked, Master
  <2> QED BY <2>4, <2>5, <2>7 DEF BackedInvariant
<1>5. CASE ~(flags[n][r] # "fail" /\ r # n)
  <2>1. UNCHANGED <<flags, suspected, saved>>
    BY <1>5 DEF ReceiveFail
  <2> QED BY <1>3, <2>1, HarmlessStep
<1> QED BY <1>4, <1>5

\* Every action keeps the invariant.
LEMMA BackedNext == TypeOK /\ BackedInvariant /\ [Next]_vars => BackedInvariant'
<1> SUFFICES ASSUME TypeOK, BackedInvariant, [Next]_vars
             PROVE  BackedInvariant'
  OBVIOUS
<1>1. ASSUME NEW n \in Node, NEW r \in Node, PingTimeout(n, r)
      PROVE  BackedInvariant'
  <2>1. /\ flags' = [flags EXCEPT ![n][r] = "pfail"]
        /\ suspected' = suspected \cup {<<n, r>>}
        /\ UNCHANGED <<fail_reports, saved, msgs, marks>>
    BY <1>1 DEF PingTimeout
  <2>2. \A a, b \in Node : flags'[a][b] = IF a = n /\ b = r THEN "pfail" ELSE flags[a][b]
    BY <2>1 DEF TypeOK
  <2>3. FlagsWereRaised'
    BY <2>1, <2>2 DEF BackedInvariant, FlagsWereRaised
  <2>4. ReportsWereTrue'
    BY <2>1 DEF BackedInvariant, ReportsWereTrue, Master
  <2>5. \A b \in Node : Alleged(b)' => Alleged(b)
    BY <2>1, <2>2 DEF Alleged
  <2>6. FailIsBacked'
    BY <2>1, <2>5 DEF BackedInvariant, FailIsBacked, Master
  <2> QED BY <2>3, <2>4, <2>6 DEF BackedInvariant
<1>2. ASSUME NEW k \in Node, NEW n \in Node, NEW r \in Node,
             ReportReachable(k, n, r) \/ ExpireReport(k, n, r)
      PROVE  BackedInvariant'
  <2>1. /\ fail_reports' = [fail_reports EXCEPT ![n][r] = @ \ {k}]
        /\ UNCHANGED <<flags, saved, msgs, suspected, marks>>
    BY <1>2 DEF ReportReachable, ExpireReport
  <2>2. \A a, b \in Node : fail_reports'[a][b] \subseteq fail_reports[a][b]
    BY <2>1 DEF TypeOK
  <2> QED BY <2>1, <2>2, HarmlessStep
<1>3. ASSUME NEW n \in Node, NEW r \in Node, NEW long \in BOOLEAN, Pong(n, r, long)
      PROVE  BackedInvariant'
  <2>1. /\ flags' = [flags EXCEPT ![n][r] = "ok"]
        /\ saved' = [saved EXCEPT ![n] = flags'[n]]
        /\ UNCHANGED <<fail_reports, msgs, suspected, marks>>
    BY <1>3 DEF Pong, SaveFlags
  <2>2. \A a, b \in Node : /\ flags'[a][b] \in {"ok", flags[a][b]}
                           /\ saved'[a][b] \in {"ok", flags[a][b], saved[a][b]}
    BY <2>1 DEF TypeOK
  <2> QED BY <2>1, <2>2, HarmlessStep
<1>4. ASSUME NEW n \in Node,
             Break(n) \/ Reconnect(n) \/ UpdateState(n) \/ SaveConfig(n)
      PROVE  BackedInvariant'
  <2>1. /\ UNCHANGED <<flags, fail_reports, suspected, marks>>
        /\ msgs' \subseteq msgs
        /\ SaveFlags(n) \/ UNCHANGED saved
    BY <1>4 DEF Break, Reconnect, UpdateState, SaveConfig
  <2>2. \A a, b \in Node : saved'[a][b] \in {flags[a][b], saved[a][b]}
    BY <2>1 DEF TypeOK, SaveFlags
  <2> QED BY <2>1, <2>2, HarmlessStep
<1>5. ASSUME NEW n \in Node, Restart(n)
      PROVE  BackedInvariant'
  <2>1. /\ flags' = [flags EXCEPT ![n] = saved[n]]
        /\ fail_reports' = [fail_reports EXCEPT ![n] = [r \in Node |-> {}]]
        /\ UNCHANGED <<saved, suspected, marks>>
        /\ msgs' \subseteq msgs
    BY <1>5 DEF Restart
  <2>2. \A a, b \in Node : /\ flags'[a][b] \in {flags[a][b], saved[a][b]}
                           /\ fail_reports'[a][b] \subseteq fail_reports[a][b]
    BY <2>1 DEF TypeOK
  <2> QED BY <2>1, <2>2, HarmlessStep
<1>6. CASE UNCHANGED vars
  <2>1. UNCHANGED <<flags, saved, fail_reports, msgs, suspected, marks>>
    BY <1>6 DEF vars
  <2> QED BY <2>1, HarmlessStep
<1> QED
  BY <1>1, <1>2, <1>3, <1>4, <1>5, <1>6, BackedReport, BackedReceive DEF Next

\* In every cluster, after any partitions and restarts, a FAIL flag goes back to a
\* node that counted enough masters for its size, each of which had flagged the
\* failed node (markNodeAsFailingIfNeeded).
THEOREM FailAlwaysBacked == Spec => []FailIsBacked
<1>1. Init => BackedInvariant
  BY DEF Init, BackedInvariant, FlagsWereRaised, ReportsWereTrue, FailIsBacked, Alleged
<1>2. TypeOK /\ BackedInvariant /\ [Next]_vars => BackedInvariant'
  BY BackedNext
<1>3. BackedInvariant => FailIsBacked
  BY DEF BackedInvariant
<1> QED BY <1>1, <1>2, <1>3, TypeCorrect, PTL DEF Spec
==============================================================================
