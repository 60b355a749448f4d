--------------------------- MODULE PersistenceProofs ---------------------------
(***************************************************************************)
(* Proofs about Persistence: wherever a server dies, its file replays to a *)
(* beginning of what it executed, with what was acknowledged in turns of   *)
(* the event loop that are over as its policy promises, for any databases, *)
(* any number of writes and events; it implements DurableLog.              *)
(*                                                                         *)
(* What a sequence of items means is a recursive function over it, so the  *)
(* lemmas about it are inductions over the number of items; everything     *)
(* about the server follows from them by its actions.                      *)
(***************************************************************************)
EXTENDS Persistence, Induction, SequenceTheorems, TLAPS

(* Sequences of items and what a reader makes of them. *)

Content == Item \cup Whole
\* A reader of a file, and one that has read nothing.
Reader  == [log : Log, db : DB, multi : BOOLEAN]
Nobody  == [log |-> <<>>, db |-> 0, multi |-> FALSE]

\* What all the items make of an empty server.
After(items) == Replayed(items)[Len(items)]

\* The recursive function is what its definition says: it exists, by induction on how
\* many items it goes through.
LEMMA ReplayedDef ==
    ASSUME NEW items \in Seq(Content)
    PROVE  Replayed(items) =
             [k \in 0..Len(items) |-> IF k = 0 THEN Nobody
                                      ELSE Replay(Replayed(items)[k-1], items[k])]
  <1> DEFINE start == Nobody
             IsReplay(p, n) == p = [k \in 0..n |-> IF k = 0 THEN start
                                                   ELSE Replay(p[k-1], items[k])]
             T == {n \in Nat : \E p : IsReplay(p, n)}
  <1> HIDE DEF start
  <1>1. 0 \in T
    <2> DEFINE p == [k \in 0..0 |-> start]
    <2>1. IsReplay(p, 0)
      OBVIOUS
    <2> QED BY <2>1
  <1>2. ASSUME NEW n \in Nat, n \in T
        PROVE  n + 1 \in T
    <2>1. PICK p : IsReplay(p, n)
      BY <1>2
    <2> DEFINE q == [k \in 0..n+1 |-> IF k <= n THEN p[k] ELSE Replay(p[n], items[n+1])]
    <2>2. \A k \in 0..n : q[k] = p[k]
      OBVIOUS
    <2>3. IsReplay(q, n + 1)
      <3>1. ASSUME NEW k \in 0..n+1
            PROVE  q[k] = IF k = 0 THEN start ELSE Replay(q[k-1], items[k])
        <4>1. CASE k = n + 1
          <5>1. q[k] = Replay(p[n], items[n+1]) /\ k - 1 = n /\ k # 0
            BY <4>1
          <5>2. q[k-1] = p[k-1]
            BY <2>2, <5>1
          <5> QED BY <4>1, <5>1, <5>2
        <4>2. CASE k = 0
          BY <2>1, <2>2, <4>2
        <4>3. CASE k \in 1..n
          <5>1. q[k] = p[k] /\ q[k-1] = p[k-1] /\ k # 0
            BY <2>2, <4>3
          <5>2. p[k] = Replay(p[k-1], items[k])
            BY <2>1, <4>3
          <5> QED BY <5>1, <5>2
        <4> QED BY <4>1, <4>2, <4>3
      <3> HIDE DEF q
      <3>2. q = [k \in 0..n+1 |-> q[k]]
        BY DEF q
      <3> QED BY <3>1, <3>2
    <2> HIDE DEF q, IsReplay
    <2>4. n + 1 \in Nat /\ \E r : IsReplay(r, n + 1)
      BY <2>3
    <2> QED BY <2>4
  <1>3. Len(items) \in T
    <2>1. Len(items) \in Nat
      BY LenProperties
    <2> HIDE DEF T
    <2> QED BY <1>1, <1>2, <2>1, NatInductionSet
  <1>4. \E p : IsReplay(p, Len(items))
    BY <1>3
  <1> QED BY <1>4 DEF Replayed, start, Nobody

\* Before the first item, and from one to the next.
LEMMA ReplayedNext ==
    ASSUME NEW items \in Seq(Content)
    PROVE  /\ Replayed(items)[0] = Nobody
           /\ \A k \in 1..Len(items) :
                 Replayed(items)[k] = Replay(Replayed(items)[k-1], items[k])
  <1> DEFINE p == Replayed(items)
  <1>1. p = [k \in 0..Len(items) |-> IF k = 0 THEN Nobody ELSE Replay(p[k-1], items[k])]
    BY ReplayedDef
  <1>2. Len(items) \in Nat
    BY LenProperties
  <1> HIDE DEF p
  <1>3. p[0] = Nobody
    BY <1>1, <1>2
  <1>4. ASSUME NEW k \in 1..Len(items)
        PROVE  p[k] = Replay(p[k-1], items[k])
    BY <1>1, <1>2
  <1> QED BY <1>3, <1>4 DEF p

\* A set of numbers with a bound has a maximum.
LEMMA MaxExists ==
    ASSUME NEW S, S \subseteq Nat, S # {}, NEW b \in Nat, \A x \in S : x <= b
    PROVE  Max(S) \in S /\ \A x \in S : x <= Max(S)
  <1> DEFINE T == {c \in Nat : \A x \in S : x <= c}
  <1>1. PICK c \in T : \A d \in T : c <= d
    BY LeastElement
  <1>2. c \in S
    <2> SUFFICES ASSUME c \notin S PROVE FALSE
      OBVIOUS
    <2>1. \A x \in S : x \in Nat /\ x <= c /\ x # c
      BY <1>1
    <2>4. PICK y \in S : y \in Nat /\ y <= c /\ y # c
      BY <2>1
    <2>5. c \in Nat /\ c - 1 \in Nat
      BY <2>4
    <2>6. ASSUME NEW x \in S
          PROVE  x <= c - 1
      BY <2>1, <2>5
    <2>2. c - 1 \in Nat /\ \A x \in S : x <= c - 1
      BY <2>5, <2>6
    <2>3. c - 1 \in T
      BY <2>2
    <2> QED BY <1>1, <2>2, <2>3
  <1>3. \E x \in S : \A y \in S : x >= y
    BY <1>1, <1>2
  <1>4. Max(S) \in S /\ \A y \in S : Max(S) >= y
    BY <1>3 DEF Max
  <1> QED BY <1>4

\* The databases of some writes have a last one.
LEMMA LastDatabase ==
    ASSUME NEW log \in Log, log # <<>>
    PROVE  Max({w[1] : w \in ToSet(log)}) \in DB
  <1> DEFINE S == {w[1] : w \in ToSet(log)}
             T == {n \in Nat : n <= Len(log) => \E b \in Nat : \A i \in 1..n : log[i][1] <= b}
  <1>1. Len(log) \in Nat /\ Len(log) # 0 /\ DOMAIN log = 1..Len(log)
    BY LenProperties, EmptySeq DEF Log
  <1>2. \A i \in 1..Len(log) : log[i] \in DB \X Nat /\ log[i][1] \in DB /\ log[i][1] \in Nat
    <2> SUFFICES ASSUME NEW i \in 1..Len(log)
                 PROVE  log[i] \in DB \X Nat /\ log[i][1] \in DB /\ log[i][1] \in Nat
      OBVIOUS
    <2>1. log[i] \in DB \X Nat
      BY ElementOfSeq DEF Log
    <2>2. log[i][1] \in DB
      BY <2>1
    <2> QED BY <2>1, <2>2, PersistenceAssumption DEF PersistenceAssumption
  <1>3. 0 \in T
    OBVIOUS
  <1>4. ASSUME NEW n \in Nat, n \in T
        PROVE  n + 1 \in T
    <2> SUFFICES ASSUME n + 1 <= Len(log)
                 PROVE  \E b \in Nat : \A i \in 1..(n+1) : log[i][1] <= b
      OBVIOUS
    <2>1. PICK b \in Nat : \A i \in 1..n : log[i][1] <= b
      BY <1>1, <1>4
    <2>2. log[n+1][1] \in Nat
      BY <1>1, <1>2
    <2>3. PICK c \in Nat : b <= c /\ log[n+1][1] <= c
      <3>1. PICK x \in Nat : x = log[n+1][1]
        BY <2>2
      <3>2. b + x \in Nat /\ b <= b + x /\ x <= b + x
        OBVIOUS
      <3> QED BY <3>1, <3>2
    <2>4. \A i \in 1..(n+1) : log[i][1] <= c
      BY <1>1, <1>2, <2>1, <2>2, <2>3
    <2> QED BY <2>4
  <1>5. Len(log) \in T
    <2> HIDE DEF T
    <2> QED BY <1>1, <1>3, <1>4, NatInductionSet
  <1>6. PICK b \in Nat : \A i \in 1..Len(log) : log[i][1] <= b
    BY <1>1, <1>5
  <1>7. S = {log[i][1] : i \in 1..Len(log)}
    BY <1>1 DEF ToSet
  <1> HIDE DEF S
  <1>8. S \subseteq Nat /\ S \subseteq DB /\ \A x \in S : x <= b
    BY <1>2, <1>6, <1>7
  <1>9. S # {}
    <2>1. 1 \in 1..Len(log)
      BY <1>1
    <2> QED BY <1>7, <2>1
  <1>10. Max(S) \in S
    BY <1>8, <1>9, MaxExists
  <1> QED BY <1>8, <1>10 DEF S

\* A command leads from writes and a database to writes and a database.
LEMMA ReplayType ==
    ASSUME NEW acc \in Reader, NEW i \in Content
    PROVE  Replay(acc, i) \in Reader
  <1>1. acc.log \in Log /\ acc.db \in DB /\ acc.multi \in BOOLEAN
    BY DEF Reader
  <1>2. CASE i.op = "select"
    <2>1. i.arg \in DB /\ Replay(acc, i) = [acc EXCEPT !.db = i.arg]
      BY <1>2 DEF Content, Item, Whole, Replay
    <2> QED BY <2>1 DEF Reader
  <1>3. CASE i.op = "set"
    <2>1. i.arg \in Nat /\ Replay(acc, i) = [acc EXCEPT !.log = Append(acc.log, <<acc.db, i.arg>>)]
      BY <1>3 DEF Content, Item, Whole, Replay
    <2>2. Append(acc.log, <<acc.db, i.arg>>) \in Log
      BY <1>1, <2>1 DEF Log
    <2> QED BY <2>1, <2>2 DEF Reader
  <1>4. CASE i.op = "all"
    <2>1. i.arg \in Log /\ i.arg # <<>>
      BY <1>4 DEF Content, Item, Whole
    <2> DEFINE d == Max({w[1] : w \in ToSet(i.arg)})
    <2>2. d \in DB
      BY <2>1, LastDatabase
    <2>3. Replay(acc, i) = [acc EXCEPT !.log = i.arg, !.db = d]
      BY <1>4 DEF Replay
    <2> HIDE DEF d
    <2> QED BY <2>1, <2>2, <2>3 DEF Reader
  <1>5. CASE i.op \notin {"select", "set", "all"}
    <2>1. Replay(acc, i) = [acc EXCEPT !.multi = i.op = "multi"]
      BY <1>5 DEF Replay
    <2> QED BY <2>1 DEF Reader
  <1> QED BY <1>2, <1>3, <1>4, <1>5

\* A reader has writes and a database all along.
LEMMA ReplayedType ==
    ASSUME NEW items \in Seq(Content)
    PROVE  \A k \in 0..Len(items) : Replayed(items)[k] \in Reader
  <1> DEFINE p == Replayed(items)
             T == {n \in Nat : n <= Len(items) => p[n] \in Reader}
  <1>1. Len(items) \in Nat
    BY LenProperties
  <1>2. p[0] = Nobody /\ \A k \in 1..Len(items) : p[k] = Replay(p[k-1], items[k])
    BY ReplayedNext
  <1> HIDE DEF p
  <1>3. 0 \in T
    <2>1. Nobody \in Reader
      BY PersistenceAssumption, EmptySeq DEF Nobody, Reader, Log, PersistenceAssumption
    <2> QED BY <1>2, <2>1
  <1>4. ASSUME NEW n \in Nat, n \in T
        PROVE  n + 1 \in T
    <2> SUFFICES ASSUME n + 1 <= Len(items)
                 PROVE  p[n+1] \in Reader
      OBVIOUS
    <2>1. n + 1 \in 1..Len(items) /\ (n + 1) - 1 = n /\ n <= Len(items)
      BY <1>1
    <2>2. items[n+1] \in Content
      BY <2>1, ElementOfSeq
    <2>3. p[n+1] = Replay(p[(n+1)-1], items[n+1])
      BY <1>2, <2>1
    <2> QED BY <1>4, <2>1, <2>2, <2>3, ReplayType
  <1>5. \A n \in Nat : n \in T
    <2> HIDE DEF T
    <2> QED BY <1>3, <1>4, NatInductionSet
  <1>6. ASSUME NEW k \in 0..Len(items)
        PROVE  p[k] \in Reader
    BY <1>1, <1>5
  <1> QED BY <1>6 DEF p

\* Two sequences that begin alike are replayed alike.
LEMMA ReplayedAlike ==
    ASSUME NEW a \in Seq(Content), NEW b \in Seq(Content), NEW n \in Nat,
           n <= Len(a), n <= Len(b), \A i \in 1..n : a[i] = b[i]
    PROVE  \A k \in 0..n : Replayed(a)[k] = Replayed(b)[k]
  <1> DEFINE p == Replayed(a)
             q == Replayed(b)
             T == {k \in Nat : k <= n => p[k] = q[k]}
  <1>1. Len(a) \in Nat /\ Len(b) \in Nat
    BY LenProperties
  <1>2. p[0] = Nobody /\ \A k \in 1..Len(a) : p[k] = Replay(p[k-1], a[k])
    BY ReplayedNext
  <1>3. q[0] = Nobody /\ \A k \in 1..Len(b) : q[k] = Replay(q[k-1], b[k])
    BY ReplayedNext
  <1> HIDE DEF p, q
  <1>4. 0 \in T
    BY <1>2, <1>3
  <1>5. ASSUME NEW k \in Nat, k \in T
        PROVE  k + 1 \in T
    <2> SUFFICES ASSUME k + 1 <= n
                 PROVE  p[k+1] = q[k+1]
      OBVIOUS
    <2>1. /\ k + 1 \in 1..Len(a) /\ k + 1 \in 1..Len(b) /\ k + 1 \in 1..n
          /\ (k + 1) - 1 = k /\ k <= n
      BY <1>1
    <2>2. p[k+1] = Replay(p[k], a[k+1]) /\ q[k+1] = Replay(q[k], b[k+1])
      BY <1>2, <1>3, <2>1
    <2>3. p[k] = q[k] /\ a[k+1] = b[k+1]
      BY <1>5, <2>1
    <2> QED BY <2>2, <2>3
  <1>6. \A k \in Nat : k \in T
    <2> HIDE DEF T
    <2> QED BY <1>4, <1>5, NatInductionSet
  <1>7. ASSUME NEW k \in 0..n
        PROVE  p[k] = q[k]
    BY <1>6
  <1> QED BY <1>7 DEF p, q

-----------------------------------------------------------------------------
(* Where a torn file is cut, and what is left of it. *)

\* A rewritten part comes first.
RewrittenFirst(items) == \A i \in 2..Len(items) : items[i].op # "all"

\* A reader that got all has the writes of log, is in no transaction, and has selected
\* the database that the next command goes to without a SELECT.
Complete(r, log, sel) == r.log = log /\ ~r.multi /\ (sel # None => r.db = sel)

\* Where redis-check-aof cuts when the first k items are there.
Cut(items, k) == Max({j \in 0..k : ~Replayed(items)[j].multi})

\* A prefix is as long and has the elements.
LEMMA PrefixElements ==
    ASSUME NEW s \in Log, NEW t \in Log
    PROVE  IsPrefix(s, t) <=> Len(s) <= Len(t) /\ \A i \in 1..Len(s) : s[i] = t[i]
  <1>1. Len(s) \in Nat /\ Len(t) \in Nat
    BY LenProperties DEF Log
  <1>2. SubSeq(s, 1, Len(s)) = s
    BY SubSeqFull DEF Log
  <1>3. ASSUME Len(s) <= Len(t)
        PROVE  /\ SubSeq(t, 1, Len(s)) \in Log /\ Len(SubSeq(t, 1, Len(s))) = Len(s)
               /\ \A i \in 1..Len(s) : SubSeq(t, 1, Len(s))[i] = t[i]
    <2>1. \A i \in 1..Len(s) : t[i] \in DB \X Nat
      BY <1>1, <1>3, ElementOfSeq DEF Log
    <2> DEFINE u == SubSeq(t, 1, Len(s))
    <2>2. /\ u \in Seq(DB \X Nat) /\ Len(u) = IF 1 <= Len(s) THEN Len(s) - 1 + 1 ELSE 0
          /\ \A i \in 1..Len(s) - 1 + 1 : u[i] = t[1 + i - 1]
      BY <1>1, <2>1, SubSeqProperties
    <2> HIDE DEF u
    <2>3. Len(u) = Len(s) /\ \A i \in 1..Len(s) : u[i] = t[i]
      BY <1>1, <2>2
    <2> QED BY <2>2, <2>3 DEF u, Log
  <1>4. ASSUME Len(s) <= Len(t)
        PROVE  SubSeq(t, 1, Len(s)) = s <=> \A i \in 1..Len(s) : s[i] = t[i]
    <2>1. PICK u \in Log : u = SubSeq(t, 1, Len(s))
      BY <1>3, <1>4
    <2>2. Len(u) = Len(s) /\ \A i \in 1..Len(s) : u[i] = t[i]
      BY <1>3, <1>4, <2>1
    <2>3. u = s <=> \A i \in 1..Len(s) : u[i] = s[i]
      BY <2>2, SeqEqual DEF Log
    <2> QED BY <2>1, <2>2, <2>3
  <1> QED BY <1>2, <1>4 DEF IsPrefix

\* Of itself and of anything.
LEMMA PrefixSelf == ASSUME NEW s \in Log PROVE IsPrefix(s, s) /\ IsPrefix(<<>>, s)
  <1>1. Len(s) \in Nat /\ <<>> \in Log /\ Len(<<>>) = 0
    BY LenProperties, EmptySeq DEF Log
  <1> QED BY <1>1, PrefixElements

\* And so on.
LEMMA PrefixTrans ==
    ASSUME NEW s \in Log, NEW t \in Log, NEW u \in Log, IsPrefix(s, t), IsPrefix(t, u)
    PROVE  IsPrefix(s, u)
  <1>1. Len(s) \in Nat /\ Len(t) \in Nat /\ Len(u) \in Nat
    BY LenProperties DEF Log
  <1>2. /\ Len(s) <= Len(t) /\ \A i \in 1..Len(s) : s[i] = t[i]
        /\ Len(t) <= Len(u) /\ \A i \in 1..Len(t) : t[i] = u[i]
    BY PrefixElements
  <1>3. Len(s) <= Len(u) /\ \A i \in 1..Len(s) : s[i] = u[i]
    BY <1>1, <1>2
  <1> QED BY <1>3, PrefixElements

\* What is in a prefix is in the whole.
LEMMA PrefixSet ==
    ASSUME NEW s \in Log, NEW t \in Log, IsPrefix(s, t)
    PROVE  ToSet(s) \subseteq ToSet(t)
  <1>1. Len(s) \in Nat /\ Len(t) \in Nat /\ DOMAIN s = 1..Len(s) /\ DOMAIN t = 1..Len(t)
    BY LenProperties DEF Log
  <1>2. Len(s) <= Len(t) /\ \A i \in 1..Len(s) : s[i] = t[i]
    BY PrefixElements
  <1>3. ASSUME NEW i \in 1..Len(s) PROVE i \in 1..Len(t) /\ s[i] = t[i]
    BY <1>1, <1>2
  <1> QED BY <1>1, <1>3 DEF ToSet

\* Writes behind others.
LEMMA PrefixConcat ==
    ASSUME NEW s \in Log, NEW t \in Log
    PROVE  IsPrefix(s, s \o t) /\ s \o t \in Log
  <1> PICK v : v = s \o t
    OBVIOUS
  <1>1. Len(s) \in Nat /\ Len(t) \in Nat
    BY LenProperties DEF Log
  <1>2. /\ v \in Log /\ Len(v) = Len(s) + Len(t)
        /\ \A i \in 1..Len(s) + Len(t) : v[i] = IF i <= Len(s) THEN s[i] ELSE t[i - Len(s)]
    BY ConcatProperties DEF Log
  <1>3. Len(s) <= Len(v) /\ \A i \in 1..Len(s) : s[i] = v[i]
    BY <1>1, <1>2
  <1>4. IsPrefix(s, v)
    BY <1>2, <1>3, PrefixElements
  <1> QED BY <1>2, <1>4

\* One write behind others.
LEMMA PrefixAppend ==
    ASSUME NEW s \in Log, NEW e \in DB \X Nat
    PROVE  IsPrefix(s, Append(s, e)) /\ Append(s, e) \in Log
  <1>0. <<e>> \in Seq(DB \X Nat)
    OBVIOUS
  <1> PICK t \in Log : t = <<e>>
    BY <1>0 DEF Log
  <1>1. Append(s, e) = s \o t
    BY AppendIsConcat DEF Log
  <1> QED BY <1>1, PrefixConcat

\* A reader stores more and more.
LEMMA LogGrows ==
    ASSUME NEW items \in Seq(Content), RewrittenFirst(items),
           NEW k \in 0..Len(items), NEW j \in 0..k
    PROVE  IsPrefix(Replayed(items)[j].log, Replayed(items)[k].log)
  <1> DEFINE p == Replayed(items)
             T == {n \in Nat : j + n <= Len(items) => IsPrefix(p[j].log, p[j+n].log)}
  <1>1. Len(items) \in Nat
    BY LenProperties
  <1>2. p[0] = Nobody /\ \A n \in 1..Len(items) : p[n] = Replay(p[n-1], items[n])
    BY ReplayedNext
  <1>3. \A n \in 0..Len(items) : p[n] \in Reader /\ p[n].log \in Log /\ p[n].db \in DB
    BY ReplayedType DEF Reader
  <1> HIDE DEF p
  <1>4. CASE j = 0
    <2>1. p[j].log = <<>> /\ p[k].log \in Log
      BY <1>1, <1>2, <1>3, <1>4 DEF Nobody
    <2> QED BY <2>1, PrefixSelf DEF p
  <1>5. CASE j # 0
    <2>1. 0 \in T
      <3>1. j \in 0..Len(items) /\ j + 0 = j
        BY <1>1
      <3>2. IsPrefix(p[j].log, p[j].log)
        BY <1>3, <3>1, PrefixSelf
      <3> QED BY <3>1, <3>2
    <2>2. ASSUME NEW n \in Nat, n \in T
          PROVE  n + 1 \in T
      <3> SUFFICES ASSUME j + (n + 1) <= Len(items)
                   PROVE  IsPrefix(p[j].log, p[j+(n+1)].log)
        OBVIOUS
      <3> DEFINE m == j + n
      <3>1. /\ m \in 0..Len(items) /\ m + 1 \in 1..Len(items) /\ m + 1 \in 2..Len(items)
            /\ (m + 1) - 1 = m /\ j + (n + 1) = m + 1 /\ j \in 0..Len(items)
            /\ m + 1 \in 0..Len(items)
        BY <1>1, <1>5
      <3> HIDE DEF m
      <3>2. p[m+1] = Replay(p[m], items[m+1])
        BY <1>2, <3>1
      <3>3. items[m+1] \in Content /\ items[m+1].op # "all"
        BY <3>1, ElementOfSeq DEF RewrittenFirst
      <3>4. items[m+1].op = "set" => items[m+1].arg \in Nat
        BY <3>3 DEF Content, Item, Whole
      <3>6. IsPrefix(p[m].log, p[m+1].log)
        <4>1. CASE items[m+1].op = "set"
          <5>1. p[m+1].log = Append(p[m].log, <<p[m].db, items[m+1].arg>>)
            BY <1>3, <3>1, <3>2, <4>1 DEF Replay, Reader
          <5>2. p[m].log \in Log /\ p[m].db \in DB /\ items[m+1].arg \in Nat
            BY <1>3, <3>1, <3>4, <4>1
          <5>3. PICK e \in DB \X Nat : e = <<p[m].db, items[m+1].arg>>
            BY <5>2
          <5> QED BY <5>1, <5>2, <5>3, PrefixAppend
        <4>2. CASE items[m+1].op # "set"
          <5>1. p[m+1].log = p[m].log
            BY <1>3, <3>1, <3>2, <3>3, <4>2 DEF Replay, Reader
          <5> QED BY <1>3, <3>1, <5>1, PrefixSelf
        <4> QED BY <4>1, <4>2
      <3>7. IsPrefix(p[j].log, p[m].log)
        BY <2>2, <3>1 DEF m
      <3>8. PICK a \in Log, b \in Log, c \in Log :
               a = p[j].log /\ b = p[m].log /\ c = p[m+1].log
        BY <1>3, <3>1
      <3>9. IsPrefix(a, c)
        BY <3>6, <3>7, <3>8, PrefixTrans
      <3> QED BY <3>1, <3>8, <3>9
    <2>3. k - j \in T
      <3> HIDE DEF T
      <3> QED BY <1>1, <2>1, <2>2, NatInductionSet
    <2>4. j + (k - j) = k /\ k <= Len(items)
      BY <1>1
    <2> QED BY <2>3, <2>4 DEF p
  <1> QED BY <1>4, <1>5

\* What redis-check-aof leaves of the first k items and what that holds.
LEMMA CutFacts ==
    ASSUME NEW items \in Seq(Content), NEW k \in 0..Len(items)
    PROVE  /\ Cut(items, k) \in 0..k /\ ~Replayed(items)[Cut(items, k)].multi
           /\ \A j \in 0..k : ~Replayed(items)[j].multi => j <= Cut(items, k)
           /\ Mended(SubSeq(items, 1, k)) = SubSeq(items, 1, Cut(items, k))
           /\ Loaded(Mended(SubSeq(items, 1, k))) = Replayed(items)[Cut(items, k)].log
  <1> DEFINE p == Replayed(items)
             S == {j \in 0..k : ~p[j].multi}
             c == Cut(items, k)
  <1>1. Len(items) \in Nat /\ k \in Nat /\ k <= Len(items)
    BY LenProperties
  <1>2. 0 \in S
    <2>1. p[0] = Nobody
      BY ReplayedNext
    <2> HIDE DEF p
    <2> QED BY <1>1, <2>1 DEF Nobody
  <1>3. c \in S /\ \A j \in S : j <= c
    <2>1. S \subseteq Nat /\ S # {} /\ \A j \in S : j <= k
      BY <1>1, <1>2
    <2> HIDE DEF S
    <2>2. Max(S) \in S /\ \A j \in S : j <= Max(S)
      BY <1>1, <2>1, MaxExists
    <2> QED BY <2>2 DEF c, Cut, S, p
  <1>4. ASSUME NEW n \in 0..Len(items)
        PROVE  /\ SubSeq(items, 1, n) \in Seq(Content) /\ Len(SubSeq(items, 1, n)) = n
               /\ \A i \in 0..n : Replayed(SubSeq(items, 1, n))[i] = p[i]
    <2> DEFINE u == SubSeq(items, 1, n)
    <2>1. \A i \in 1..n : items[i] \in Content
      BY <1>1, ElementOfSeq
    <2>2. /\ u \in Seq(Content) /\ Len(u) = IF 1 <= n THEN n - 1 + 1 ELSE 0
          /\ \A i \in 1..n - 1 + 1 : u[i] = items[1 + i - 1]
      BY <1>1, <2>1, SubSeqProperties
    <2> HIDE DEF u
    <2>3. Len(u) = n /\ \A i \in 1..n : u[i] = items[i]
      BY <1>1, <2>2
    <2>4. \A i \in 0..n : Replayed(u)[i] = Replayed(items)[i]
      BY <1>1, <2>2, <2>3, ReplayedAlike
    <2> QED BY <2>2, <2>3, <2>4 DEF u
  <1>5. Mended(SubSeq(items, 1, k)) = SubSeq(items, 1, c)
    <2> DEFINE u == SubSeq(items, 1, k)
    <2>1. {j \in 0..Len(u) : ~Replayed(u)[j].multi} = S
      BY <1>4
    <2>2. Mended(u) = SubSeq(u, 1, c)
      BY <2>1 DEF Mended, Cut
    <2>3. SubSeq(u, 1, c) = SubSeq(items, 1, c)
      <3>1. c \in 0..k /\ c \in 0..Len(items)
        BY <1>1, <1>3
      <3>2. Len(u) = k /\ u \in Seq(Content) /\ \A i \in 1..k : u[i] = items[i]
        <4>1. \A i \in 1..k : items[i] \in Content
          BY <1>1, ElementOfSeq
        <4>2. \A i \in 1..k - 1 + 1 : u[i] = items[1 + i - 1]
          BY <1>1, <4>1, SubSeqProperties
        <4> QED BY <1>1, <1>4, <4>2
      <3> HIDE DEF u, c
      <3>3. \A i \in 1..c : u[i] \in Content /\ u[i] = items[i] /\ items[i] \in Content
        BY <1>1, <3>1, <3>2, ElementOfSeq
      <3>4. /\ SubSeq(u, 1, c) \in Seq(Content)
            /\ Len(SubSeq(u, 1, c)) = IF 1 <= c THEN c - 1 + 1 ELSE 0
            /\ \A i \in 1..c - 1 + 1 : SubSeq(u, 1, c)[i] = u[1 + i - 1]
        BY <3>1, <3>3, SubSeqProperties
      <3>5. /\ SubSeq(items, 1, c) \in Seq(Content)
            /\ Len(SubSeq(items, 1, c)) = IF 1 <= c THEN c - 1 + 1 ELSE 0
            /\ \A i \in 1..c - 1 + 1 : SubSeq(items, 1, c)[i] = items[1 + i - 1]
        BY <3>1, <3>3, SubSeqProperties
      <3>6. PICK v \in Seq(Content) : v = SubSeq(u, 1, c)
        BY <3>4
      <3>7. PICK w \in Seq(Content) : w = SubSeq(items, 1, c)
        BY <3>5
      <3>8. Len(v) = c /\ Len(w) = c /\ \A i \in 1..c : v[i] = w[i]
        BY <1>1, <3>1, <3>3, <3>4, <3>5, <3>6, <3>7
      <3>9. v = w
        BY <3>8, SeqEqual
      <3> QED BY <3>6, <3>7, <3>9
    <2> QED BY <2>2, <2>3
  <1>6. Loaded(SubSeq(items, 1, c)) = p[c].log
    <2>1. c \in 0..Len(items)
      BY <1>1, <1>3
    <2> HIDE DEF c, p
    <2> QED BY <1>4, <2>1 DEF Loaded
  <1> QED BY <1>3, <1>5, <1>6

-----------------------------------------------------------------------------
(* Commands behind a file. *)

\* Items that follow others: a reader goes on where it is.
LEMMA ReplayedOn ==
    ASSUME NEW a \in Seq(Content), NEW b \in Seq(Content)
    PROVE  /\ a \o b \in Seq(Content) /\ Len(a \o b) = Len(a) + Len(b)
           /\ \A k \in 0..Len(a) : Replayed(a \o b)[k] = Replayed(a)[k]
           /\ Replayed(a \o b)[Len(a)] = After(a)
           /\ \A j \in 1..Len(b) : Replayed(a \o b)[Len(a) + j] =
                                     Replay(Replayed(a \o b)[Len(a) + (j - 1)], b[j])
           /\ After(a \o b) = Replayed(a \o b)[Len(a) + Len(b)]
  <1> DEFINE c == a \o b
             p == Replayed(c)
  <1>1. Len(a) \in Nat /\ Len(b) \in Nat
    BY LenProperties
  <1>2. /\ c \in Seq(Content) /\ Len(c) = Len(a) + Len(b)
        /\ \A i \in 1..Len(a) + Len(b) : c[i] = IF i <= Len(a) THEN a[i] ELSE b[i - Len(a)]
    BY ConcatProperties
  <1> HIDE DEF c
  <1>3. \A k \in 0..Len(a) : p[k] = Replayed(a)[k]
    <2>1. \A i \in 1..Len(a) : c[i] = a[i]
      BY <1>1, <1>2
    <2>2. Len(a) <= Len(c)
      BY <1>1, <1>2
    <2>3. \A k \in 0..Len(a) : Replayed(c)[k] = Replayed(a)[k]
      <3>1. Len(a) <= Len(a)
        BY <1>1
      <3>2. \A k \in 0..Len(a) : Replayed(a)[k] = Replayed(c)[k]
        BY <1>1, <1>2, <2>1, <2>2, <3>1, ReplayedAlike
      <3> QED BY <3>2
    <2> QED BY <2>3
  <1>4. p[Len(a)] = After(a)
    BY <1>1, <1>3 DEF After
  <1>5. ASSUME NEW j \in 1..Len(b)
        PROVE  p[Len(a) + j] = Replay(p[Len(a) + (j - 1)], b[j])
    <2>1. \A k \in 1..Len(c) : p[k] = Replay(p[k-1], c[k])
      BY <1>2, ReplayedNext
    <2> HIDE DEF p
    <2>2. /\ Len(a) + j \in 1..Len(c) /\ (Len(a) + j) - 1 = Len(a) + (j - 1)
          /\ c[Len(a) + j] = b[j]
      <3>1. /\ Len(a) + j \in 1..Len(a) + Len(b) /\ (Len(a) + j) - 1 = Len(a) + (j - 1)
            /\ (Len(a) + j) - Len(a) = j /\ ~(Len(a) + j <= Len(a))
        BY <1>1
      <3>2. c[Len(a) + j] = b[(Len(a) + j) - Len(a)]
        BY <1>2, <3>1
      <3> QED BY <1>2, <3>1, <3>2
    <2> QED BY <2>1, <2>2
  <1>6. After(c) = p[Len(a) + Len(b)]
    BY <1>2 DEF After
  <1> QED BY <1>2, <1>3, <1>4, <1>5, <1>6 DEF c

\* What a reader has after a sequence of items is typed.
LEMMA AfterType ==
    ASSUME NEW a \in Seq(Content)
    PROVE  /\ After(a) \in Reader /\ After(a).log \in Log /\ After(a).db \in DB
           /\ After(a).multi \in BOOLEAN
           /\ Loaded(a) = After(a).log
  <1>1. Len(a) \in 0..Len(a)
    BY LenProperties
  <1>2. After(a) \in Reader
    BY <1>1, ReplayedType DEF After
  <1> QED BY <1>2 DEF Reader, After, Loaded

\* An empty file is an empty server.
LEMMA AfterEmpty == After(<<>>) = Nobody /\ <<>> \in Seq(Content)
  <1>1. <<>> \in Seq(Content) /\ Len(<<>>) = 0
    BY EmptySeq
  <1> QED BY <1>1, ReplayedNext DEF After

\* The commands the server feeds are items.
LEMMA ItemTypes ==
    /\ Item \subseteq Content /\ Whole \subseteq Content
    /\ \A s \in Seq(Item) : s \in Seq(Content)
    /\ \A d \in DB : Select(d) \in Item
    /\ \A w \in Nat : Set(w) \in Item
    /\ [op |-> "multi"] \in Item /\ [op |-> "exec"] \in Item
  <1>1. Item \subseteq Content /\ Whole \subseteq Content
    BY DEF Content
  <1>2. \A s \in Seq(Item) : s \in Seq(Content)
    BY <1>1, SeqMonotonic
  <1>3. \A d \in DB : Select(d) \in Item
    BY DEF Select, Item
  <1>4. \A w \in Nat : Set(w) \in Item
    BY DEF Set, Item
  <1>5. [op |-> "multi"] \in Item /\ [op |-> "exec"] \in Item
    BY DEF Item
  <1> QED BY <1>1, <1>2, <1>3, <1>4, <1>5

\* SELECT when the database is another one.
LEMMA Selected ==
    ASSUME NEW a \in Seq(Content), NEW log \in Log, NEW sel \in DB \cup {None}, NEW d \in DB,
           Complete(After(a), log, sel)
    PROVE  LET s == IF sel = d THEN <<>> ELSE <<Select(d)>>
           IN  /\ s \in Seq(Item)
               /\ a \o s \in Seq(Content)
               /\ After(a \o s) = [log |-> log, db |-> d, multi |-> FALSE]
  <1> PICK r \in Reader : r = After(a)
    BY AfterType
  <1>1. r.log = log /\ ~r.multi /\ (sel # None => r.db = sel)
    BY DEF Complete
  <1>2. None \notin DB
    BY PersistenceAssumption DEF PersistenceAssumption
  <1>3. CASE sel = d
    <2>1. <<>> \in Seq(Item) /\ a \o <<>> = a
      BY EmptySeq, ConcatEmptySeq
    <2>2. r = [log |-> log, db |-> d, multi |-> FALSE]
      BY <1>1, <1>2, <1>3 DEF Reader
    <2> QED BY <1>3, <2>1, <2>2
  <1>4. CASE sel # d
    <2>0. PICK i \in Item : i = Select(d)
      BY ItemTypes
    <2>1. PICK s \in Seq(Item) : s = <<i>>
      <3>1. <<i>> \in Seq(Item)
        OBVIOUS
      <3> QED BY <3>1
    <2>2. Len(s) = 1 /\ s[1] = Select(d) /\ s \in Seq(Content) /\ Len(a) \in Nat
      BY <2>0, <2>1, ItemTypes, LenProperties
    <2> DEFINE p == Replayed(a \o s)
    <2>3. /\ a \o s \in Seq(Content) /\ p[Len(a)] = r
          /\ \A j \in 1..Len(s) : p[Len(a) + j] = Replay(p[Len(a) + (j - 1)], s[j])
          /\ After(a \o s) = p[Len(a) + Len(s)]
      BY <2>2, ReplayedOn
    <2> HIDE DEF p
    <2>4. p[Len(a) + 1] = Replay(p[Len(a) + (1 - 1)], s[1])
      BY <2>2, <2>3
    <2>5. After(a \o s) = Replay(r, Select(d))
      BY <2>2, <2>3, <2>4
    <2>6. Replay(r, Select(d)) = [r EXCEPT !.db = d]
      BY DEF Replay, Select
    <2>7. [r EXCEPT !.db = d] = [log |-> log, db |-> d, multi |-> FALSE]
      <3>1. r = [log |-> r.log, db |-> r.db, multi |-> r.multi]
        BY DEF Reader
      <3>2. r.multi = FALSE
        BY <1>1 DEF Reader
      <3>3. r = [log |-> log, db |-> r.db, multi |-> FALSE]
        BY <1>1, <3>1, <3>2
      <3>4. ASSUME NEW m, NEW b, NEW x, x = [log |-> log, db |-> b, multi |-> m]
            PROVE  [x EXCEPT !.db = d] = [log |-> log, db |-> d, multi |-> m]
        BY <3>4
      <3> QED BY <3>3, <3>4
    <2> QED BY <1>4, <2>0, <2>1, <2>3, <2>5, <2>6, <2>7
  <1> QED BY <1>3, <1>4

\* A write of a reader that has its database selected.
LEMMA Stored ==
    ASSUME NEW log \in Log, NEW d \in DB, NEW w \in Nat
    PROVE  /\ Append(log, <<d, w>>) \in Log
           /\ Replay([log |-> log, db |-> d, multi |-> FALSE], Set(w))
                = [log |-> Append(log, <<d, w>>), db |-> d, multi |-> FALSE]
           /\ Replay([log |-> log, db |-> d, multi |-> TRUE], Set(w))
                = [log |-> Append(log, <<d, w>>), db |-> d, multi |-> TRUE]
  <1>1. <<d, w>> \in DB \X Nat
    OBVIOUS
  <1>2. PICK l \in Log : l = Append(log, <<d, w>>)
    BY <1>1, PrefixAppend
  <1>3. ASSUME NEW m, NEW r, r = [log |-> log, db |-> d, multi |-> m]
        PROVE  Replay(r, Set(w)) = [log |-> l, db |-> d, multi |-> m]
    <2>1. Replay(r, Set(w)) = [r EXCEPT !.log = Append(r.log, <<r.db, w>>)]
      BY DEF Replay, Set
    <2>2. r.log = log /\ r.db = d
      BY <1>3
    <2>3. [r EXCEPT !.log = l] = [log |-> l, db |-> d, multi |-> m]
      BY <1>3
    <2> QED BY <1>2, <2>1, <2>2, <2>3
  <1> QED BY <1>2, <1>3

\* MULTI and EXEC.
LEMMA Began ==
    ASSUME NEW log, NEW d
    PROVE  /\ Replay([log |-> log, db |-> d, multi |-> FALSE], [op |-> "multi"])
                = [log |-> log, db |-> d, multi |-> TRUE]
           /\ Replay([log |-> log, db |-> d, multi |-> TRUE], [op |-> "exec"])
                = [log |-> log, db |-> d, multi |-> FALSE]
  BY DEF Replay

\* One command.
LEMMA FedOne ==
    ASSUME NEW a \in Seq(Content), NEW log \in Log, NEW d \in DB, NEW w \in Nat,
           After(a) = [log |-> log, db |-> d, multi |-> FALSE]
    PROVE  LET s == [i \in 1..1 |-> Set(w + i)]
           IN  /\ s \in Seq(Item)
               /\ After(a \o s) = [log |-> log \o [i \in 1..1 |-> <<d, w + i>>], db |-> d,
                                   multi |-> FALSE]
  <1>1. PICK s \in Seq(Item) : s = [i \in 1..1 |-> Set(w + i)]
    <2>1. PICK i1 \in Item : i1 = Set(w + 1)
      <3>1. w + 1 \in Nat
        OBVIOUS
      <3> QED BY <3>1, ItemTypes
    <2>2. <<i1>> \in Seq(Item) /\ <<i1>> = [i \in 1..1 |-> Set(w + i)]
      BY <2>1
    <2> QED BY <2>2
  <1>2. Len(s) = 1 /\ s[1] = Set(w + 1) /\ s \in Seq(Content) /\ Len(a) \in Nat
    BY <1>1, ItemTypes, LenProperties
  <1> DEFINE p == Replayed(a \o s)
  <1>3. /\ p[Len(a)] = After(a)
        /\ \A j \in 1..Len(s) : p[Len(a) + j] = Replay(p[Len(a) + (j - 1)], s[j])
        /\ After(a \o s) = p[Len(a) + Len(s)]
    BY <1>2, ReplayedOn
  <1> HIDE DEF p
  <1>4. p[Len(a) + 1] = Replay(p[Len(a) + (1 - 1)], s[1])
    BY <1>2, <1>3
  <1>5. After(a \o s) = Replay(After(a), Set(w + 1))
    BY <1>2, <1>3, <1>4
  <1>6. After(a \o s) = [log |-> Append(log, <<d, w + 1>>), db |-> d, multi |-> FALSE]
    <2>0. w + 1 \in Nat
      OBVIOUS
    <2>1. PICK v \in Nat : v = w + 1
      BY <2>0
    <2>2. Replay([log |-> log, db |-> d, multi |-> FALSE], Set(v))
            = [log |-> Append(log, <<d, v>>), db |-> d, multi |-> FALSE]
      BY Stored
    <2> QED BY <1>5, <2>1, <2>2
  <1>7. Append(log, <<d, w + 1>>) = log \o [i \in 1..1 |-> <<d, w + i>>]
    <2>0. w + 1 \in Nat
      OBVIOUS
    <2>1. PICK e \in DB \X Nat : e = <<d, w + 1>>
      BY <2>0
    <2>2. Append(log, e) = log \o <<e>>
      BY AppendIsConcat DEF Log
    <2>3. <<e>> = [i \in 1..1 |-> <<d, w + i>>]
      BY <2>1
    <2> QED BY <2>1, <2>2, <2>3
  <1> QED BY <1>1, <1>6, <1>7

\* The commands of a client as they are fed.
Command(n, w) ==
    LET sets == [i \in 1..n |-> Set(w + i)]
    IN  IF n = 1 THEN sets ELSE <<[op |-> "multi"]>> \o sets \o <<[op |-> "exec"]>>

\* A server between two commands, what it has executed and its database.
Idle(log, d) == [log |-> log, db |-> d, multi |-> FALSE]

\* The writes of a client.
Writes(d, n, w) == [i \in 1..n |-> <<d, w + i>>]

\* A transaction of two.
LEMMA FedTwo ==
    ASSUME NEW a \in Seq(Content), NEW log \in Log, NEW d \in DB, NEW w \in Nat,
           After(a) = Idle(log, d)
    PROVE  /\ Command(2, w) \in Seq(Item)
           /\ After(a \o Command(2, w)) = Idle(log \o Writes(d, 2, w), d)
  <1> DEFINE x == [i \in 1..2 |-> Set(w + i)]
             t == <<[op |-> "multi"]>> \o x
  <1>0. x \in Seq(Item) /\ Len(x) = 2 /\ x[1] = Set(w + 1) /\ x[2] = Set(w + 2)
    <2>1. \A i \in 1..2 : Set(w + i) \in Item
      BY ItemTypes
    <2> QED BY <2>1
  <1>1. /\ <<[op |-> "multi"]>> \in Seq(Item) /\ Len(<<[op |-> "multi"]>>) = 1
        /\ <<[op |-> "exec"]>> \in Seq(Item) /\ Len(<<[op |-> "exec"]>>) = 1
    BY ItemTypes
  <1> HIDE DEF x
  <1>2. /\ t \in Seq(Item) /\ Len(t) = 3
        /\ t[1] = [op |-> "multi"] /\ t[2] = Set(w + 1) /\ t[3] = Set(w + 2)
    <2>1. /\ t \in Seq(Item) /\ Len(t) = Len(<<[op |-> "multi"]>>) + Len(x)
          /\ \A i \in 1..Len(<<[op |-> "multi"]>>) + Len(x) :
               t[i] = IF i <= Len(<<[op |-> "multi"]>>) THEN <<[op |-> "multi"]>>[i]
                      ELSE x[i - Len(<<[op |-> "multi"]>>)]
      BY <1>0, <1>1, ConcatProperties
    <2> HIDE DEF t
    <2>2. \A i \in 1..3 : t[i] = IF i <= 1 THEN <<[op |-> "multi"]>>[i] ELSE x[i - 1]
      BY <1>0, <1>1, <2>1
    <2> QED BY <1>0, <1>1, <2>1, <2>2
  <1> HIDE DEF t
  <1>3. PICK s \in Seq(Item) : s = t \o <<[op |-> "exec"]>>
    <2>1. t \in Seq(Item) /\ <<[op |-> "exec"]>> \in Seq(Item)
      BY <1>1, <1>2
    <2>2. t \o <<[op |-> "exec"]>> \in Seq(Item)
      BY <2>1, ConcatProperties, Zenon
    <2> QED BY <2>2
  <1>4. /\ Len(s) = 4 /\ s[1] = [op |-> "multi"] /\ s[2] = Set(w + 1) /\ s[3] = Set(w + 2)
        /\ s[4] = [op |-> "exec"]
    <2>0. PICK e \in Seq(Item) : e = <<[op |-> "exec"]>> /\ Len(e) = 1 /\ e[1] = [op |-> "exec"]
      BY <1>1
    <2>1. /\ Len(t \o e) = Len(t) + Len(e)
          /\ \A i \in 1..Len(t) + Len(e) :
               (t \o e)[i] = IF i <= Len(t) THEN t[i] ELSE e[i - Len(t)]
      <3>1. t \in Seq(Item) /\ e \in Seq(Item)
        BY <1>2, <2>0
      <3> QED BY <3>1, ConcatProperties, Zenon
    <2>2. s = t \o e
      BY <1>3, <2>0
    <2>3. Len(s) = 4 /\ \A i \in 1..4 : s[i] = IF i <= 3 THEN t[i] ELSE e[i - 3]
      BY <1>2, <2>0, <2>1, <2>2
    <2> QED BY <1>2, <2>0, <2>3
  <1>5. s \in Seq(Content) /\ Len(a) \in Nat
    BY ItemTypes, LenProperties
  <1> DEFINE p == Replayed(a \o s)
             n == Len(a)
  <1>6. /\ p[n] = After(a)
        /\ \A j \in 1..Len(s) : p[n + j] = Replay(p[n + (j - 1)], s[j])
        /\ After(a \o s) = p[n + Len(s)]
    BY <1>5, ReplayedOn
  <1> HIDE DEF p, n
  <1>7. n \in Nat /\ n + (1 - 1) = n
    BY <1>5 DEF n
  <1>8. /\ p[n+1] = Replay(p[n], s[1]) /\ p[n+2] = Replay(p[n+1], s[2])
        /\ p[n+3] = Replay(p[n+2], s[3]) /\ p[n+4] = Replay(p[n+3], s[4])
    <2>1. 2 - 1 = 1 /\ 3 - 1 = 2 /\ 4 - 1 = 3 /\ 1 - 1 = 0
      OBVIOUS
    <2>2. 1 \in 1..Len(s) /\ 2 \in 1..Len(s) /\ 3 \in 1..Len(s) /\ 4 \in 1..Len(s)
      BY <1>4
    <2>3. p[n+1] = Replay(p[n+(1-1)], s[1]) /\ p[n+2] = Replay(p[n+(2-1)], s[2])
      BY <1>6, <2>2
    <2>4. p[n+3] = Replay(p[n+(3-1)], s[3]) /\ p[n+4] = Replay(p[n+(4-1)], s[4])
      BY <1>6, <2>2
    <2> QED BY <1>7, <2>1, <2>3, <2>4
  <1>17. PICK w1 \in Nat, w2 \in Nat : w1 = w + 1 /\ w2 = w + 2
    <2>1. w + 1 \in Nat /\ w + 2 \in Nat
      OBVIOUS
    <2> QED BY <2>1
  <1>9. PICK l1 \in Log : l1 = Append(log, <<d, w + 1>>)
    BY <1>17, Stored
  <1>10. PICK l2 \in Log : l2 = Append(l1, <<d, w + 2>>)
    BY <1>17, Stored
  <1>18. s[2] = Set(w1) /\ s[3] = Set(w2) /\ l1 = Append(log, <<d, w1>>) /\ l2 = Append(l1, <<d, w2>>)
    BY <1>4, <1>17, <1>9, <1>10
  <1>11. p[n+1] = [log |-> log, db |-> d, multi |-> TRUE]
    BY <1>4, <1>6, <1>8, Began DEF Idle
  <1>12. p[n+2] = [log |-> l1, db |-> d, multi |-> TRUE]
    <2>1. Replay([log |-> log, db |-> d, multi |-> TRUE], Set(w1))
            = [log |-> Append(log, <<d, w1>>), db |-> d, multi |-> TRUE]
      BY Stored
    <2> QED BY <1>8, <1>18, <1>11, <2>1
  <1>13. p[n+3] = [log |-> l2, db |-> d, multi |-> TRUE]
    <2>1. Replay([log |-> l1, db |-> d, multi |-> TRUE], Set(w2))
            = [log |-> Append(l1, <<d, w2>>), db |-> d, multi |-> TRUE]
      BY Stored
    <2> QED BY <1>8, <1>18, <1>12, <2>1
  <1>14. p[n+4] = [log |-> l2, db |-> d, multi |-> FALSE]
    BY <1>4, <1>8, <1>13, Began
  <1>15. l2 = log \o [i \in 1..2 |-> <<d, w + i>>]
    <2>0. \A i \in 1..2 : <<d, w + i>> \in DB \X Nat
      OBVIOUS
    <2>10. PICK e1 \in DB \X Nat, e2 \in DB \X Nat : e1 = <<d, w + 1>> /\ e2 = <<d, w + 2>>
      BY <2>0
    <2>1. PICK v \in Log : v = [i \in 1..2 |-> <<d, w + i>>]
      <3>1. <<e1, e2>> \in Log
        BY DEF Log
      <3>2. <<e1, e2>> = [i \in 1..2 |-> <<d, w + i>>]
        BY <2>10
      <3> QED BY <3>1, <3>2
    <2>2. Len(v) = 2 /\ v[1] = <<d, w + 1>> /\ v[2] = <<d, w + 2>> /\ Len(log) \in Nat
      BY <2>1, LenProperties DEF Log
    <2>3. PICK u \in Log : u = log \o v
      BY PrefixConcat
    <2>4. /\ Len(u) = Len(log) + 2
          /\ \A i \in 1..Len(log) + 2 : u[i] = IF i <= Len(log) THEN log[i] ELSE v[i - Len(log)]
      <3>1. log \in Seq(DB \X Nat) /\ v \in Seq(DB \X Nat)
        BY DEF Log
      <3>2. /\ Len(u) = Len(log) + Len(v)
            /\ \A i \in 1..Len(log) + Len(v) : u[i] = IF i <= Len(log) THEN log[i]
                                                       ELSE v[i - Len(log)]
        BY <2>3, <3>1, ConcatProperties
      <3> QED BY <2>2, <3>2
    <2>5. /\ Len(l1) = Len(log) + 1
          /\ \A i \in 1..Len(log) + 1 : l1[i] = IF i <= Len(log) THEN log[i] ELSE <<d, w + 1>>
      <3>0. w + 1 \in Nat
        OBVIOUS
      <3>1. PICK e \in DB \X Nat : e = <<d, w + 1>>
        BY <3>0
      <3>2. log \in Seq(DB \X Nat) /\ l1 = Append(log, e)
        BY <1>9, <3>1 DEF Log
      <3>3. /\ Len(l1) = Len(log) + 1 /\ l1[Len(log) + 1] = e
            /\ \A i \in 1..Len(log) : l1[i] = log[i]
        BY <3>2, AppendProperties
      <3>4. ASSUME NEW i \in 1..Len(log) + 1
            PROVE  l1[i] = IF i <= Len(log) THEN log[i] ELSE e
        <4>1. i \in 1..Len(log) \/ i = Len(log) + 1
          BY <2>2
        <4>2. CASE i \in 1..Len(log)
          <5>1. i <= Len(log) /\ l1[i] = log[i]
            BY <2>2, <3>3, <4>2
          <5> QED BY <5>1
        <4>3. CASE i = Len(log) + 1
          <5>1. ~(i <= Len(log)) /\ l1[i] = e
            BY <2>2, <3>3, <4>3
          <5> QED BY <5>1
        <4> QED BY <4>1, <4>2, <4>3, Zenon
      <3> QED BY <3>1, <3>3, <3>4
    <2>6. /\ Len(l2) = Len(l1) + 1
          /\ \A i \in 1..Len(l1) + 1 : l2[i] = IF i <= Len(l1) THEN l1[i] ELSE <<d, w + 2>>
      <3>0. w + 2 \in Nat
        OBVIOUS
      <3>1. PICK e \in DB \X Nat : e = <<d, w + 2>>
        BY <3>0
      <3>2. Len(l1) \in Nat
        BY <2>2, <2>5
      <3>3. l1 \in Seq(DB \X Nat) /\ l2 = Append(l1, e)
        BY <1>10, <3>1 DEF Log
      <3>4. /\ Len(l2) = Len(l1) + 1 /\ l2[Len(l1) + 1] = e
            /\ \A i \in 1..Len(l1) : l2[i] = l1[i]
        BY <3>3, AppendProperties
      <3>5. ASSUME NEW i \in 1..Len(l1) + 1
            PROVE  l2[i] = IF i <= Len(l1) THEN l1[i] ELSE e
        <4>1. CASE i \in 1..Len(l1)
          BY <3>2, <3>4, <4>1
        <4>2. CASE i = Len(l1) + 1
          BY <3>2, <3>4, <4>2
        <4> QED BY <3>2, <4>1, <4>2
      <3> QED BY <3>1, <3>4, <3>5
    <2>7. Len(l2) = Len(u)
      BY <2>2, <2>4, <2>5, <2>6
    <2>8. ASSUME NEW i \in 1..Len(l2)
          PROVE  l2[i] = u[i]
      <3>1. CASE i <= Len(log)
        <4>1. i \in 1..Len(log) + 2 /\ i \in 1..Len(log) + 1
          BY <2>2, <2>5, <2>6, <3>1
        <4>2. u[i] = log[i]
          BY <2>4, <3>1, <4>1
        <4>3. l1[i] = log[i]
          BY <2>5, <3>1, <4>1
        <4>4. i \in 1..Len(l1) + 1 /\ i <= Len(l1)
          BY <2>2, <2>5, <3>1, <4>1
        <4>5. l2[i] = l1[i]
          BY <2>6, <4>4
        <4> QED BY <4>2, <4>3, <4>5
      <3>2. CASE i = Len(log) + 1
        <4>1. i - Len(log) = 1 /\ i \in 1..Len(log) + 2 /\ i \in 1..Len(log) + 1 /\ ~(i <= Len(log))
          BY <2>2, <3>2
        <4>2. u[i] = <<d, w + 1>>
          BY <2>2, <2>4, <4>1
        <4>3. l2[i] = l1[i] /\ l1[i] = <<d, w + 1>>
          BY <2>2, <2>5, <2>6, <3>2, <4>1
        <4> QED BY <4>2, <4>3
      <3>3. CASE i = Len(log) + 2
        <4>1. i - Len(log) = 2 /\ i \in 1..Len(log) + 2 /\ ~(i <= Len(log)) /\ ~(i <= Len(l1))
          BY <2>2, <2>5, <3>3
        <4>2. u[i] = <<d, w + 2>>
          BY <2>2, <2>4, <4>1
        <4>3. l2[i] = <<d, w + 2>>
          BY <2>2, <2>5, <2>6, <4>1
        <4> QED BY <4>2, <4>3
      <3> QED BY <2>2, <2>5, <2>6, <3>1, <3>2, <3>3
    <2>9. l2 = u
      BY <2>7, <2>8, SeqEqual DEF Log
    <2> QED BY <2>1, <2>3, <2>9
  <1>16. After(a \o s) = [log |-> l2, db |-> d, multi |-> FALSE]
    BY <1>4, <1>6, <1>14
  <1>19. s = Command(2, w)
    BY <1>3 DEF t, x, Command
  <1>20. After(a \o s) = Idle(log \o Writes(d, 2, w), d)
    BY <1>15, <1>16 DEF Idle, Writes
  <1> QED BY <1>19, <1>20

-----------------------------------------------------------------------------
(* What a restart finds. *)

\* What a restart finds when the first k of the items are in the file.
Held(items, k) == Replayed(items)[Cut(items, k)].log

\* Mended, then read: no more than what the items up to the cut hold.
LEMMA HeldType ==
    ASSUME NEW items \in Seq(Content), NEW k \in 0..Len(items)
    PROVE  /\ Held(items, k) \in Log /\ Cut(items, k) \in 0..Len(items)
           /\ Loaded(Mended(SubSeq(items, 1, k))) = Held(items, k)
  <1>1. Len(items) \in Nat
    BY LenProperties
  <1>2. /\ Cut(items, k) \in 0..k
        /\ Loaded(Mended(SubSeq(items, 1, k))) = Replayed(items)[Cut(items, k)].log
    BY CutFacts
  <1>3. Cut(items, k) \in 0..Len(items)
    BY <1>1, <1>2
  <1>4. Replayed(items)[Cut(items, k)] \in Reader
    BY <1>3, ReplayedType
  <1> QED BY <1>2, <1>3, <1>4 DEF Held, Reader

\* More items hold more.
LEMMA HeldGrows ==
    ASSUME NEW items \in Seq(Content), RewrittenFirst(items),
           NEW k \in 0..Len(items), NEW j \in 0..k
    PROVE  IsPrefix(Held(items, j), Held(items, k))
  <1>1. Len(items) \in Nat
    BY LenProperties
  <1>2. j \in 0..Len(items)
    BY <1>1
  <1> DEFINE a == Cut(items, j)
             b == Cut(items, k)
  <1>3. a \in 0..j /\ ~Replayed(items)[a].multi
    BY <1>2, CutFacts
  <1>4. b \in 0..k /\ \A i \in 0..k : ~Replayed(items)[i].multi => i <= b
    BY CutFacts
  <1> HIDE DEF a, b
  <1>5. a \in 0..b /\ b \in 0..Len(items)
    BY <1>1, <1>3, <1>4
  <1>6. IsPrefix(Replayed(items)[a].log, Replayed(items)[b].log)
    BY <1>5, LogGrows
  <1> QED BY <1>6 DEF Held, a, b

\* What is behind does not change what is found.
LEMMA HeldAlike ==
    ASSUME NEW a \in Seq(Content), NEW b \in Seq(Content), NEW n \in Nat,
           n <= Len(a), n <= Len(b), \A i \in 1..n : a[i] = b[i]
    PROVE  \A k \in 0..n : Held(a, k) = Held(b, k) /\ Cut(a, k) = Cut(b, k)
  <1> SUFFICES ASSUME NEW k \in 0..n
               PROVE  Held(a, k) = Held(b, k) /\ Cut(a, k) = Cut(b, k)
    OBVIOUS
  <1>1. \A j \in 0..n : Replayed(a)[j] = Replayed(b)[j]
    BY ReplayedAlike
  <1>2. {j \in 0..k : ~Replayed(a)[j].multi} = {j \in 0..k : ~Replayed(b)[j].multi}
    BY <1>1
  <1>3. Cut(a, k) = Cut(b, k)
    BY <1>2 DEF Cut
  <1>4. Cut(a, k) \in 0..k
    <2>1. k \in 0..Len(a)
      BY LenProperties
    <2> QED BY <2>1, CutFacts
  <1>5. Cut(a, k) \in 0..n
    BY <1>4
  <1> QED BY <1>1, <1>3, <1>5 DEF Held

\* What is in front of others is found as if it were alone.
LEMMA HeldBefore ==
    ASSUME NEW a \in Seq(Content), NEW b \in Seq(Content)
    PROVE  \A k \in 0..Len(a) : Held(a \o b, k) = Held(a, k)
  <1> PICK c : c = a \o b
    OBVIOUS
  <1>1. Len(a) \in Nat /\ Len(b) \in Nat /\ Len(a) <= Len(a)
    BY LenProperties
  <1>2. /\ c \in Seq(Content) /\ Len(c) = Len(a) + Len(b)
        /\ \A i \in 1..Len(a) + Len(b) : c[i] = IF i <= Len(a) THEN a[i] ELSE b[i - Len(a)]
    BY ConcatProperties
  <1>3. Len(a) <= Len(c) /\ \A i \in 1..Len(a) : c[i] = a[i]
    BY <1>1, <1>2
  <1> QED BY <1>1, <1>2, <1>3, HeldAlike

\* Outside of a transaction nothing is cut.
LEMMA HeldAll ==
    ASSUME NEW a \in Seq(Content), ~After(a).multi
    PROVE  Held(a, Len(a)) = After(a).log /\ Cut(a, Len(a)) = Len(a)
  <1>1. Len(a) \in 0..Len(a) /\ Len(a) \in Nat
    BY LenProperties
  <1>2. Cut(a, Len(a)) \in 0..Len(a)
    BY <1>1, CutFacts
  <1>3. Len(a) <= Cut(a, Len(a))
    BY <1>1, CutFacts DEF After
  <1>4. Cut(a, Len(a)) = Len(a)
    BY <1>1, <1>2, <1>3
  <1> QED BY <1>4 DEF Held, After

\* What is found is a beginning of what the items, and others behind them, come to.
LEMMA HeldOfAll ==
    ASSUME NEW a \in Seq(Content), NEW b \in Seq(Content), RewrittenFirst(a \o b),
           NEW k \in 0..Len(a)
    PROVE  IsPrefix(Held(a, k), After(a \o b).log)
  <1> PICK c \in Seq(Content) : c = a \o b
    BY ReplayedOn
  <1>1. Len(a) \in Nat /\ Len(b) \in Nat /\ Len(c) = Len(a) + Len(b)
    BY LenProperties, ReplayedOn
  <1>2. Held(a, k) = Held(c, k)
    BY HeldBefore
  <1>3. k \in 0..Len(c) /\ Len(c) \in 0..Len(c)
    BY <1>1
  <1>4. Cut(c, k) \in 0..Len(c)
    BY <1>3, HeldType
  <1>5. IsPrefix(Replayed(c)[Cut(c, k)].log, Replayed(c)[Len(c)].log)
    BY <1>3, <1>4, LogGrows
  <1> QED BY <1>2, <1>5 DEF Held, After

\* The first k of the items.
LEMMA FirstItems ==
    ASSUME NEW items \in Seq(Content), NEW k \in 0..Len(items)
    PROVE  LET u == SubSeq(items, 1, k)
           IN  /\ u \in Seq(Content) /\ Len(u) = k
               /\ \A i \in 1..k : u[i] = items[i]
               /\ RewrittenFirst(items) => RewrittenFirst(u)
               /\ \A j \in 0..k : Held(u, j) = Held(items, j) /\ Cut(u, j) = Cut(items, j)
               /\ After(u) = Replayed(items)[k]
  <1> PICK u : u = SubSeq(items, 1, k)
    OBVIOUS
  <1>1. Len(items) \in Nat /\ k \in Nat /\ k <= Len(items) /\ k <= k
    BY LenProperties
  <1>2. \A i \in 1..k : items[i] \in Content
    BY <1>1, ElementOfSeq
  <1>3. /\ u \in Seq(Content) /\ Len(u) = IF 1 <= k THEN k - 1 + 1 ELSE 0
        /\ \A i \in 1..k - 1 + 1 : u[i] = items[1 + i - 1]
    BY <1>1, <1>2, SubSeqProperties
  <1>4. Len(u) = k /\ \A i \in 1..k : u[i] = items[i]
    BY <1>1, <1>3
  <1>5. ASSUME RewrittenFirst(items)
        PROVE  RewrittenFirst(u)
    BY <1>1, <1>4, <1>5 DEF RewrittenFirst
  <1>6. \A j \in 0..k : Held(u, j) = Held(items, j) /\ Cut(u, j) = Cut(items, j)
    BY <1>1, <1>3, <1>4, HeldAlike
  <1>7. After(u) = Replayed(items)[k]
    <2>1. \A j \in 0..k : Replayed(u)[j] = Replayed(items)[j]
      BY <1>1, <1>3, <1>4, ReplayedAlike
    <2> QED BY <1>1, <1>4, <2>1 DEF After
  <1> QED BY <1>3, <1>4, <1>5, <1>6, <1>7

\* What redis-check-aof leaves.
LEMMA MendedFacts ==
    ASSUME NEW items \in Seq(Content)
    PROVE  LET left == Mended(items)
           IN  /\ left \in Seq(Content) /\ Len(left) <= Len(items)
               /\ RewrittenFirst(items) => RewrittenFirst(left)
               /\ ~After(left).multi
               /\ Loaded(left) = After(left).log
               /\ Loaded(left) = Held(items, Len(items))
               /\ \A j \in 0..Len(left) : Held(left, j) = Held(items, j)
               /\ \A j \in Len(left)..Len(items) : Held(items, j) = Loaded(left)
               /\ Held(left, Len(left)) = Loaded(left)
  <1> DEFINE n == Len(items)
             c == Cut(items, n)
  <1>1. n \in Nat /\ n \in 0..n
    BY LenProperties
  <1>2. /\ c \in 0..n /\ ~Replayed(items)[c].multi
        /\ \A j \in 0..n : ~Replayed(items)[j].multi => j <= c
        /\ Mended(SubSeq(items, 1, n)) = SubSeq(items, 1, c)
        /\ Loaded(Mended(SubSeq(items, 1, n))) = Replayed(items)[c].log
    BY <1>1, CutFacts
  <1>3. SubSeq(items, 1, n) = items
    BY SubSeqFull
  <1> PICK left : left = Mended(items)
    OBVIOUS
  <1> HIDE DEF n, c
  <1>4. left = SubSeq(items, 1, c) /\ Loaded(left) = Held(items, n)
    BY <1>2, <1>3 DEF Held, c
  <1>5. /\ left \in Seq(Content) /\ Len(left) = c
        /\ RewrittenFirst(items) => RewrittenFirst(left)
        /\ \A j \in 0..c : Held(left, j) = Held(items, j)
        /\ After(left) = Replayed(items)[c]
    BY <1>2, <1>4, FirstItems DEF n
  <1>6. ~After(left).multi /\ Loaded(left) = After(left).log
    BY <1>2, <1>3, <1>5
  <1>7. ASSUME NEW j \in c..n
        PROVE  Held(items, j) = Loaded(left)
    <2>1. j \in 0..n /\ j \in Nat /\ c \in 0..j /\ c \in Nat
      BY <1>1, <1>2
    <2>2. Cut(items, j) \in 0..j /\ ~Replayed(items)[Cut(items, j)].multi
      BY <2>1, CutFacts DEF n
    <2>3. c <= Cut(items, j)
      BY <1>2, <2>1, CutFacts DEF n
    <2>4. Cut(items, j) \in 0..n
      BY <1>1, <2>1, <2>2
    <2>5. Cut(items, j) = c
      BY <1>1, <1>2, <2>1, <2>2, <2>3, <2>4
    <2> QED BY <1>2, <1>3, <2>5 DEF Held
  <1>8. Held(left, c) = Loaded(left)
    <2>1. c \in 0..c /\ c \in c..n
      BY <1>1, <1>2
    <2> QED BY <1>5, <1>7, <2>1
  <1>9. c <= n
    BY <1>1, <1>2
  <1> QED BY <1>4, <1>5, <1>6, <1>7, <1>8, <1>9 DEF n

\* The smaller of two numbers.
LEMMA MinPair ==
    ASSUME NEW a \in Nat, NEW b \in Nat
    PROVE  Min({a, b}) = IF a <= b THEN a ELSE b
  <1> DEFINE S == {a, b}
             m == IF a <= b THEN a ELSE b
  <1>1. m \in S /\ \A y \in S : m <= y
    OBVIOUS
  <1>2. Min(S) \in S /\ \A y \in S : Min(S) <= y
    BY <1>1 DEF Min
  <1> HIDE DEF m
  <1>3. Min(S) \in Nat /\ m \in Nat /\ Min(S) <= m /\ m <= Min(S)
    BY <1>1, <1>2
  <1>4. Min(S) = m
    BY <1>3
  <1> QED BY <1>4 DEF m

\* With the SELECT in front.
Fed(sel, d, n, w) == (IF sel = d THEN <<>> ELSE <<Select(d)>>) \o Command(n, w)

\* A command is not nothing.
LEMMA CommandType ==
    ASSUME NEW n \in 1..2, NEW w \in Nat
    PROVE  Command(n, w) \in Seq(Item) /\ Command(n, w) # <<>>
  <1>1. PICK x \in Item, y \in Item, m \in Item, e \in Item :
           /\ x = Set(w + 1) /\ y = Set(w + 2)
           /\ m = [op |-> "multi"] /\ e = [op |-> "exec"]
    <2>1. w + 1 \in Nat /\ w + 2 \in Nat
      OBVIOUS
    <2>2. Set(w + 1) \in Item /\ Set(w + 2) \in Item
      BY <2>1, ItemTypes
    <2> QED BY <2>2, ItemTypes
  <1>2. <<x>> \in Seq(Item) /\ <<x>> # <<>> /\ <<x>> = [i \in 1..1 |-> Set(w + i)]
    BY <1>1
  <1>3. <<x, y>> \in Seq(Item) /\ <<x, y>> = [i \in 1..2 |-> Set(w + i)]
    BY <1>1
  <1>4. <<m>> \in Seq(Item) /\ <<e>> \in Seq(Item) /\ <<e>> # <<>>
    OBVIOUS
  <1>5. PICK u \in Seq(Item) : u = <<m>> \o <<x, y>>
    BY <1>3, <1>4, ConcatProperties
  <1>6. u \o <<e>> \in Seq(Item) /\ u \o <<e>> # <<>>
    BY <1>4, ConcatProperties, ConcatEqualIffEmpty
  <1>7. CASE n = 1
    BY <1>2, <1>7 DEF Command
  <1>8. CASE n = 2
    BY <1>1, <1>3, <1>5, <1>6, <1>8 DEF Command
  <1> QED BY <1>7, <1>8

\* With the SELECT it may need.
LEMMA SelectType ==
    ASSUME NEW sel, NEW d \in DB
    PROVE  (IF sel = d THEN <<>> ELSE <<Select(d)>>) \in Seq(Item)
  <1>1. PICK i \in Item : i = Select(d)
    BY ItemTypes
  <1>2. <<i>> \in Seq(Item) /\ <<>> \in Seq(Item)
    OBVIOUS
  <1> QED BY <1>1, <1>2

\* Both together.
LEMMA FedType ==
    ASSUME NEW sel, NEW d \in DB, NEW n \in 1..2, NEW w \in Nat
    PROVE  Fed(sel, d, n, w) \in Seq(Item) /\ Fed(sel, d, n, w) # <<>>
  <1>1. PICK s \in Seq(Item) : s = IF sel = d THEN <<>> ELSE <<Select(d)>>
    BY SelectType
  <1>2. PICK c \in Seq(Item) : c = Command(n, w) /\ c # <<>>
    BY CommandType
  <1>3. s \o c \in Seq(Item) /\ s \o c # <<>>
    BY <1>2, ConcatProperties, ConcatEqualIffEmpty
  <1> QED BY <1>1, <1>2, <1>3 DEF Fed

\* The writes of a command.
LEMMA WritesType ==
    ASSUME NEW d \in DB, NEW n \in 1..2, NEW w \in Nat
    PROVE  /\ [i \in 1..n |-> <<d, w + i>>] \in Log
           /\ Len([i \in 1..n |-> <<d, w + i>>]) = n
           /\ ToSet([i \in 1..n |-> <<d, w + i>>]) = {<<d, w + i>> : i \in 1..n}
  <1> DEFINE v == [i \in 1..n |-> <<d, w + i>>]
  <1>1. \A i \in 1..n : <<d, w + i>> \in DB \X Nat
    OBVIOUS
  <1>2. v \in Seq(DB \X Nat) /\ Len(v) = n
    BY <1>1
  <1>3. ToSet(v) = {<<d, w + i>> : i \in 1..n}
    BY DEF ToSet
  <1> QED BY <1>2, <1>3 DEF Log

\* After the commands the items hold what they held and the writes.
LEMMA FedComplete ==
    ASSUME NEW a \in Seq(Content), NEW log \in Log, NEW sel \in DB \cup {None}, NEW d \in DB,
           NEW n \in 1..2, NEW w \in Nat, Complete(After(a), log, sel)
    PROVE  Complete(After(a \o Fed(sel, d, n, w)), log \o [i \in 1..n |-> <<d, w + i>>], d)
  <1>1. PICK s \in Seq(Item) : s = IF sel = d THEN <<>> ELSE <<Select(d)>>
    BY Selected
  <1>2. PICK b \in Seq(Content) : b = a \o s
    BY <1>1, Selected
  <1>3. After(b) = [log |-> log, db |-> d, multi |-> FALSE]
    BY <1>1, <1>2, Selected
  <1>4. PICK c : c = Command(n, w)
    OBVIOUS
  <1>5. /\ c \in Seq(Item)
        /\ After(b \o c) = [log |-> log \o [i \in 1..n |-> <<d, w + i>>], db |-> d,
                            multi |-> FALSE]
    <2>1. CASE n = 1
      <3>1. c = [i \in 1..1 |-> Set(w + i)]
        BY <1>4, <2>1 DEF Command
      <3>2. [i \in 1..n |-> <<d, w + i>>] = [i \in 1..1 |-> <<d, w + i>>]
        BY <2>1
      <3>3. /\ [i \in 1..1 |-> Set(w + i)] \in Seq(Item)
            /\ After(b \o [i \in 1..1 |-> Set(w + i)])
                 = [log |-> log \o [i \in 1..1 |-> <<d, w + i>>], db |-> d, multi |-> FALSE]
        BY <1>3, FedOne
      <3> QED BY <3>1, <3>2, <3>3
    <2>2. CASE n = 2
      <3>1. c = Command(2, w)
        BY <1>4, <2>2
      <3>2. After(b) = Idle(log, d)
        BY <1>3 DEF Idle
      <3>3. c \in Seq(Item) /\ After(b \o c) = Idle(log \o Writes(d, 2, w), d)
        <4>1. /\ Command(2, w) \in Seq(Item)
              /\ After(b \o Command(2, w)) = Idle(log \o Writes(d, 2, w), d)
          BY <3>2, FedTwo
        <4> QED BY <3>1, <4>1
      <3>4. After(b \o c)
              = [log |-> log \o [i \in 1..2 |-> <<d, w + i>>], db |-> d, multi |-> FALSE]
        BY <3>3 DEF Idle, Writes
      <3> QED BY <2>2, <3>3, <3>4
    <2>3. n = 1 \/ n = 2
      OBVIOUS
    <2> QED BY <2>1, <2>2, <2>3, Zenon
  <1>6. b \o c = a \o Fed(sel, d, n, w)
    <2>1. s \in Seq(Content) /\ c \in Seq(Content)
      BY <1>5, ItemTypes
    <2>2. (a \o s) \o c = a \o (s \o c)
      BY <2>1, ConcatAssociative
    <2> QED BY <1>1, <1>2, <1>4, <2>2 DEF Fed
  <1>7. PICK r : r = After(b \o c)
    OBVIOUS
  <1>8. /\ r.log = log \o [i \in 1..n |-> <<d, w + i>>] /\ r.db = d /\ r.multi = FALSE
    BY <1>5, <1>7
  <1> QED BY <1>6, <1>7, <1>8 DEF Complete

\* What a rewrite writes.
LEMMA RewrittenFacts ==
    ASSUME NEW log \in Log
    PROVE  /\ Rewritten(log) \in Seq(Content) /\ Len(Rewritten(log)) \in 0..1
           /\ Complete(After(Rewritten(log)), log, None)
  <1>1. CASE log = <<>>
    <2>1. Rewritten(log) = <<>> /\ Len(<<>>) = 0
      BY <1>1, EmptySeq DEF Rewritten
    <2>2. Nobody.log = <<>> /\ Nobody.multi = FALSE
      BY DEF Nobody
    <2>3. Complete(After(<<>>), log, None)
      BY <1>1, <2>2, AfterEmpty DEF Complete
    <2> QED BY <2>1, <2>3, AfterEmpty
  <1>2. CASE log # <<>>
    <2>1. PICK i \in Content : i = [op |-> "all", arg |-> log]
      BY <1>2 DEF Content, Whole
    <2>2. PICK s \in Seq(Content) : s = <<i>>
      <3>1. <<i>> \in Seq(Content)
        OBVIOUS
      <3> QED BY <3>1
    <2>3. Rewritten(log) = s /\ Len(s) = 1 /\ s[1] = i
      BY <1>2, <2>1, <2>2 DEF Rewritten
    <2>4. Replayed(s)[0] = Nobody /\ Replayed(s)[1] = Replay(Replayed(s)[1-1], s[1])
      <3>1. 1 \in 1..Len(s)
        BY <2>3
      <3> QED BY <3>1, ReplayedNext
    <2>5. After(s) = Replay(Nobody, i)
      BY <2>3, <2>4 DEF After
    <2> DEFINE m == Max({w[1] : w \in ToSet(i.arg)})
    <2>6. Replay(Nobody, i) = [Nobody EXCEPT !.log = i.arg, !.db = m]
      BY <2>1 DEF Replay
    <2> HIDE DEF m
    <2>7. After(s).log = log /\ After(s).multi = FALSE
      BY <2>1, <2>5, <2>6 DEF Nobody
    <2> QED BY <2>3, <2>7 DEF Complete
  <1> QED BY <1>1, <1>2

\* Commands behind a file whose rewritten part comes first.
LEMMA FirstKept ==
    ASSUME NEW a \in Seq(Content), NEW b \in Seq(Item), RewrittenFirst(a)
    PROVE  RewrittenFirst(a \o b) /\ a \o b \in Seq(Content)
  <1> PICK c : c = a \o b
    OBVIOUS
  <1>1. Len(a) \in Nat /\ Len(b) \in Nat /\ b \in Seq(Content)
    BY LenProperties, ItemTypes
  <1>2. /\ c \in Seq(Content) /\ Len(c) = Len(a) + Len(b)
        /\ \A i \in 1..Len(a) + Len(b) : c[i] = IF i <= Len(a) THEN a[i] ELSE b[i - Len(a)]
    BY <1>1, ConcatProperties
  <1>3. ASSUME NEW i \in 2..Len(c)
        PROVE  c[i].op # "all"
    <2>1. CASE i <= Len(a)
      <3>1. c[i] = a[i] /\ i \in 2..Len(a)
        BY <1>1, <1>2, <2>1
      <3> QED BY <3>1 DEF RewrittenFirst
    <2>2. CASE ~(i <= Len(a))
      <3>1. c[i] = b[i - Len(a)] /\ i - Len(a) \in 1..Len(b)
        BY <1>1, <1>2, <2>2
      <3>2. b[i - Len(a)] \in Item
        BY <3>1, ElementOfSeq
      <3> QED BY <3>1, <3>2 DEF Item
    <2> QED BY <2>1, <2>2
  <1> QED BY <1>2, <1>3 DEF RewrittenFirst

\* One item has nothing in front of it.
LEMMA FirstShort ==
    ASSUME NEW a \in Seq(Content), Len(a) \in 0..1
    PROVE  RewrittenFirst(a)
  BY DEF RewrittenFirst

-----------------------------------------------------------------------------
(* The outcomes of a flush. *)

\* The items that are in the file, if there is one.
Disk == IF file = None THEN <<>> ELSE file.items

\* An outcome o in which k items went from the buffer to the file.
Moved(o, k) ==
    /\ o.items = Disk \o SubSeq(aof_buf, 1, k)
    /\ o.buf = SubSeq(aof_buf, k + 1, Len(aof_buf))
    /\ o.size = aof_current_size + k
    /\ o.status \in {"ok", "err"}
    /\ o.postponed \in {"no", "now", "late"}
    /\ o.due \in BOOLEAN
    /\ o.fsyncs = fsyncs \/ (o.fsyncs = <<"aof">> /\ aof_fd = "open")
    /\ o.synced = Flushed.synced \/ o.synced = Len(o.items)

\* What the policy and the errors say of it.
Promised(o, k) ==
    /\ k > 0 => aof_fd = "open"
    /\ o.failed => o.synced = Flushed.synced /\ o.status = "err" /\ aof_buf # <<>>
    /\ o.postponed = "no" /\ o.status = "ok" => k = Len(aof_buf)
    /\ ~o.failed /\ aof_fsync = "always" =>
          k = Len(aof_buf) /\ (aof_buf = <<>> \/ o.synced = Len(o.items))

\* The file that there is, as sequences.
LEMMA DiskType ==
    ASSUME TypeOK
    PROVE  /\ Disk \in Seq(Content) /\ aof_buf \in Seq(Content)
           /\ Len(Disk) \in Nat /\ Len(aof_buf) \in Nat
           /\ Contents.items = Disk /\ Flushed.items = Disk
           /\ Contents.synced \in Nat /\ Contents.synced <= Len(Disk)
           /\ Flushed.synced = Contents.synced
  <1>1. CASE file = None
    <2>1. /\ Disk = <<>> /\ Contents.items = <<>> /\ Flushed.items = <<>>
          /\ Contents.synced = 0 /\ Flushed.synced = 0
      BY <1>1 DEF Disk, Contents, Flushed
    <2>2. <<>> \in Seq(Content) /\ Len(<<>>) = 0
      BY EmptySeq
    <2>3. aof_buf \in Seq(Content) /\ Len(aof_buf) \in Nat
      BY ItemTypes, LenProperties DEF TypeOK
    <2> QED BY <2>1, <2>2, <2>3
  <1>2. CASE file # None
    <2>1. /\ Disk = file.items /\ Contents.items = file.items /\ Flushed.items = file.items
          /\ Contents.synced = file.synced /\ Flushed.synced = file.synced
      BY <1>2 DEF Disk, Contents, Flushed
    <2>2. file \in File /\ file.synced <= Len(file.items)
      BY <1>2 DEF TypeOK
    <2>3. file.items \in Seq(Content) /\ file.synced \in Nat
      BY <2>2 DEF File, Content
    <2>4. aof_buf \in Seq(Content) /\ Len(aof_buf) \in Nat /\ Len(file.items) \in Nat
      BY <2>3, ItemTypes, LenProperties DEF TypeOK
    <2> QED BY <2>1, <2>2, <2>3, <2>4
  <1> QED BY <1>1, <1>2

\* Moving k items from the buffer to the file.
LEMMA SplitBuffer ==
    ASSUME TypeOK, NEW k \in 0..Len(aof_buf)
    PROVE  /\ SubSeq(aof_buf, 1, k) \in Seq(Item) /\ Len(SubSeq(aof_buf, 1, k)) = k
           /\ SubSeq(aof_buf, k + 1, Len(aof_buf)) \in Seq(Item)
           /\ (Disk \o SubSeq(aof_buf, 1, k)) \o SubSeq(aof_buf, k + 1, Len(aof_buf))
                = Disk \o aof_buf
           /\ k = Len(aof_buf) => SubSeq(aof_buf, k + 1, Len(aof_buf)) = <<>>
           /\ Disk \o SubSeq(aof_buf, 1, k) \in Seq(Content)
           /\ Len(Disk \o SubSeq(aof_buf, 1, k)) = Len(Disk) + k
  <1> DEFINE n == Len(aof_buf)
  <1>1. n \in Nat /\ k \in Nat /\ k <= n /\ aof_buf \in Seq(Item)
    BY LenProperties DEF TypeOK
  <1>2. \A i \in 1..n : aof_buf[i] \in Item
    BY <1>1, ElementOfSeq
  <1> HIDE DEF n
  <1>3. SubSeq(aof_buf, 1, k) \in Seq(Item) /\ Len(SubSeq(aof_buf, 1, k)) = k
    <2>1. \A i \in 1..k : aof_buf[i] \in Item
      BY <1>1, <1>2
    <2>2. /\ SubSeq(aof_buf, 1, k) \in Seq(Item)
          /\ Len(SubSeq(aof_buf, 1, k)) = IF 1 <= k THEN k - 1 + 1 ELSE 0
      BY <1>1, <2>1, SubSeqProperties
    <2> QED BY <1>1, <2>2
  <1>4. SubSeq(aof_buf, k + 1, n) \in Seq(Item)
    <2>1. \A i \in (k + 1)..n : aof_buf[i] \in Item
      BY <1>1, <1>2
    <2>2. k + 1 \in Int /\ n \in Int
      BY <1>1
    <2> QED BY <2>1, <2>2, SubSeqProperties
  <1>5. SubSeq(aof_buf, 1, k) \o SubSeq(aof_buf, k + 1, n) = aof_buf
    <2>1. 1 \in 1..Len(aof_buf) + 1 /\ k \in (1 - 1)..Len(aof_buf) /\ n \in k..Len(aof_buf)
      BY <1>1 DEF n
    <2>2. SubSeq(aof_buf, 1, k) \o SubSeq(aof_buf, k + 1, n) = SubSeq(aof_buf, 1, n)
      BY <1>1, <2>1, ConcatAdjacentSubSeq
    <2>3. SubSeq(aof_buf, 1, n) = aof_buf
      BY <1>1, SubSeqFull DEF n
    <2> QED BY <2>2, <2>3
  <1>6. k = n => SubSeq(aof_buf, k + 1, n) = <<>>
    <2>1. n + 1 \in Int /\ n \in Int /\ n < n + 1
      BY <1>1
    <2> QED BY <2>1, SubSeqEmpty
  <1>7. Disk \in Seq(Content)
    BY DiskType
  <1>8. SubSeq(aof_buf, 1, k) \in Seq(Content) /\ SubSeq(aof_buf, k + 1, n) \in Seq(Content)
    BY <1>3, <1>4, ItemTypes
  <1>9. (Disk \o SubSeq(aof_buf, 1, k)) \o SubSeq(aof_buf, k + 1, n) = Disk \o aof_buf
    <2>1. PICK x \in Seq(Content), y \in Seq(Content) :
             x = SubSeq(aof_buf, 1, k) /\ y = SubSeq(aof_buf, k + 1, n)
      BY <1>8
    <2>2. PICK z \in Seq(Content) : z = Disk
      BY <1>7
    <2>3. (z \o x) \o y = z \o (x \o y)
      BY ConcatAssociative
    <2> QED BY <1>5, <2>1, <2>2, <2>3
  <1>10. /\ Disk \o SubSeq(aof_buf, 1, k) \in Seq(Content)
         /\ Len(Disk \o SubSeq(aof_buf, 1, k)) = Len(Disk) + k
    BY <1>3, <1>7, <1>8, ConcatProperties
  <1> QED BY <1>3, <1>4, <1>6, <1>9, <1>10 DEF n

\* The outcomes of a flush: some first items of the buffer are moved to the file.
LEMMA FlushFacts ==
    ASSUME TypeOK, NEW force, NEW o \in Flushes(force)
    PROVE  \E k \in 0..Len(aof_buf) : Moved(o, k) /\ Promised(o, k)
  <1> DEFINE n == Len(aof_buf)
  <1>1. /\ n \in Nat /\ aof_buf \in Seq(Item) /\ Disk \in Seq(Content) /\ Flushed.items = Disk
        /\ aof_current_size \in Nat
    BY DiskType DEF TypeOK
  <1>2. /\ Flushed.buf = aof_buf /\ Flushed.size = aof_current_size
        /\ Flushed.status = aof_last_write_status /\ Flushed.failed = FALSE
        /\ Flushed.postponed = aof_flush_postponed_start /\ Flushed.due = due
        /\ Flushed.fsyncs = fsyncs
    BY DEF Flushed
  <1>3. /\ aof_last_write_status \in {"ok", "err"} /\ due \in BOOLEAN
        /\ aof_flush_postponed_start \in {"no", "now", "late"}
    BY DEF TypeOK
  <1> HIDE DEF n
  <1>4. 0 \in 0..n /\ SubSeq(aof_buf, 1, 0) = <<>> /\ SubSeq(aof_buf, 0 + 1, n) = aof_buf
    <2>1. SubSeq(aof_buf, 1, 0) = <<>>
      BY SubSeqEmpty
    <2>2. SubSeq(aof_buf, 1, n) = aof_buf
      BY <1>1, SubSeqFull DEF n
    <2> QED BY <1>1, <2>1, <2>2
  <1>5. Disk \o <<>> = Disk
    BY <1>1, ConcatEmptySeq
  <1>6. CASE aof_buf = <<>>
    <2>1. o = Flushed /\ n = 0
      BY <1>6, EmptySeq DEF Flushes, n
    <2>4. /\ o.items = Disk /\ o.buf = aof_buf /\ o.size = aof_current_size
           /\ o.status = aof_last_write_status /\ o.postponed = aof_flush_postponed_start
           /\ o.due = due /\ o.fsyncs = fsyncs /\ o.synced = Flushed.synced
      BY <1>1, <1>2, <2>1
    <2>2. Moved(o, 0)
      BY <1>1, <1>3, <1>4, <1>5, <2>4 DEF Moved, n
    <2>3. Promised(o, 0)
      BY <1>2, <1>6, <2>1 DEF Promised, n
    <2> QED BY <1>4, <2>2, <2>3 DEF n
  <1>7. CASE o = [Flushed EXCEPT !.postponed = "now"] /\ aof_fsync = "everysec"
    <2>1. /\ o.items = Disk /\ o.buf = aof_buf /\ o.size = aof_current_size
          /\ o.status = aof_last_write_status /\ o.failed = FALSE /\ o.postponed = "now"
          /\ o.due = due /\ o.fsyncs = fsyncs /\ o.synced = Flushed.synced
      BY <1>1, <1>2, <1>7 DEF Flushed
    <2>2. Moved(o, 0)
      BY <1>1, <1>3, <1>4, <1>5, <2>1 DEF Moved, n
    <2>3. Promised(o, 0)
      BY <1>7, <2>1 DEF Promised
    <2> QED BY <1>4, <2>2, <2>3 DEF n
  <1>8. ASSUME NEW k \in 0..n, o = Failed(k), k > 0 => aof_fd = "open", aof_buf # <<>>
        PROVE  \E j \in 0..Len(aof_buf) : Moved(o, j) /\ Promised(o, j)
    <2>1. /\ o.items = Disk \o SubSeq(aof_buf, 1, k) /\ o.buf = SubSeq(aof_buf, k + 1, n)
          /\ o.size = aof_current_size + k
          /\ o.status = "err" /\ o.failed = TRUE /\ o.postponed = "no"
          /\ o.due = due /\ o.fsyncs = fsyncs /\ o.synced = Flushed.synced
      BY <1>1, <1>2, <1>8 DEF Failed, Flushed, n
    <2>2. Moved(o, k)
      BY <1>3, <2>1 DEF Moved, n
    <2>3. Promised(o, k)
      BY <1>8, <2>1 DEF Promised
    <2> QED BY <2>2, <2>3 DEF n
  <1>9. CASE o = Written /\ aof_fd = "open"
    <2>1. n \in 0..n /\ SubSeq(aof_buf, 1, n) = aof_buf /\ SubSeq(aof_buf, n + 1, n) = <<>>
      <3>1. n + 1 \in Int /\ n \in Int /\ n < n + 1
        BY <1>1
      <3> QED BY <1>1, <3>1, SubSeqFull, SubSeqEmpty DEF n
    <2>2. /\ o.items = Disk \o aof_buf /\ o.buf = <<>>
          /\ o.size = aof_current_size + n
          /\ o.status = "ok" /\ o.failed = FALSE /\ o.postponed = "no"
          /\ o.due \in BOOLEAN /\ (o.fsyncs = fsyncs \/ o.fsyncs = <<"aof">>)
      BY <1>1, <1>2, <1>3, <1>9 DEF Written, Flushed, n
    <2>3. o.synced = IF aof_fsync = "always" THEN Len(o.items) ELSE Flushed.synced
      BY <1>1, <1>9 DEF Written, Flushed
    <2>4. Moved(o, n)
      BY <1>9, <2>1, <2>2, <2>3 DEF Moved, n
    <2>5. Promised(o, n)
      BY <1>9, <2>2, <2>3 DEF Promised, n
    <2> QED BY <2>1, <2>4, <2>5 DEF n
  <1>10. CASE aof_buf # <<>>
    <2>1. \/ o = [Flushed EXCEPT !.postponed = "now"] /\ aof_fsync = "everysec"
          \/ o = Failed(0)
          \/ o = Written /\ aof_fd = "open"
          \/ \E k \in 0..Len(aof_buf) - 1 : o = Failed(k) /\ aof_fd = "open"
      BY <1>10 DEF Flushes
    <2>2. CASE o = Failed(0)
      BY <1>4, <1>8, <1>10, <2>2
    <2>3. ASSUME NEW k \in 0..Len(aof_buf) - 1, o = Failed(k), aof_fd = "open"
          PROVE  \E j \in 0..Len(aof_buf) : Moved(o, j) /\ Promised(o, j)
      <3>1. k \in 0..n
        BY <1>1 DEF n
      <3> QED BY <1>8, <1>10, <2>3, <3>1
    <2> QED BY <1>7, <1>9, <2>1, <2>2, <2>3
  <1> QED BY <1>6, <1>10

-----------------------------------------------------------------------------
(* The inductive invariant.  The properties are about the file; what keeps them true is *)
(* also in the buffers, in the child that rewrites, in the server that does not append  *)
(* at the moment, and in what the saving child will leave.                              *)

\* The items of the file and of the buffer, or those the child writes with the
\* difference, come to all the server has, outside of any transaction, at the database
\* that aof_selected_db says: the next command can follow without SELECT.
FileInv ==
    /\ file # None => RewrittenFirst(file.items)
    /\ aof_state = "on" => Complete(After(file.items \o aof_buf), data, aof_selected_db)
    /\ aof_state # "off" /\ aof_child # None
          => Complete(After(Rewritten(aof_child) \o aof_rewrite_buf), data, aof_selected_db)
    /\ aof_state = "off" => aof_rewrite_buf = <<>> /\ aof_selected_db = None

\* The writes of the turns that are over, whose reply has left or may leave at any time.
Settled == (acked \cup replies) \ turn

\* Only executed writes are answered; a flush that neither waited nor failed has written
\* those of the turns before.
AckInv ==
    /\ acked \cup replies \cup turn \subseteq ToSet(data)
    /\ /\ aof_state = "on"
       /\ aof_flush_postponed_start = "no" /\ aof_last_write_status = "ok"
       => Settled \subseteq ToSet(Held(file.items, Len(file.items)))

\* With appendfsync always: a server that does not append has nothing buffered and a file
\* that is all on the disk, one that does has on the disk what may have been answered,
\* and what this turn wrote when nothing waits in the buffer.
DiskInv ==
    aof_fsync = "always" =>
       /\ aof_state # "on" => aof_buf = <<>>
       /\ aof_state # "on" /\ conf = "on" /\ file # None => file.synced = Len(file.items)
       /\ aof_state = "on" => Settled \subseteq ToSet(Held(file.items, file.synced))
       /\ aof_state = "on" /\ aof_buf = <<>>
             => turn \subseteq ToSet(Held(file.items, file.synced))

\* A snapshot that is not there is one of nothing.
Saved(snapshot) == IF snapshot = None THEN <<>> ELSE snapshot

\* The writes since the last save are the last dirty ones; what the child saves is a
\* beginning of the data, and those behind it are what dirty will be after it.
SaveInv ==
    /\ dirty <= Len(data)
    /\ IsPrefix(SubSeq(data, 1, Len(data) - dirty), Saved(rdb))
    /\ rdb_child \notin {None, Lost} =>
          /\ dirty_before_bgsave <= dirty
          /\ IsPrefix(rdb_child, data)
          /\ Len(rdb_child) + dirty = Len(data) + dirty_before_bgsave

Inv == TypeOK /\ FileInv /\ AckInv /\ DiskInv /\ SaveInv

\* What the constants are.
LEMMA NoneFacts ==
    /\ None \notin DB /\ None \notin Log /\ None \notin File
    /\ Lost # None /\ Lost \notin Log
    /\ \A f \in File : f # None
    /\ Configs \subseteq {"on", "off"} /\ Policies \subseteq {"always", "everysec", "no"}
    /\ MaxEvents \in Nat /\ MaxWrites \in Nat
  BY PersistenceAssumption DEF PersistenceAssumption

\* A file is not the absence of one.
LEMMA FileType ==
    ASSUME NEW items \in Seq(Content), NEW n \in Nat
    PROVE  /\ [items |-> items, synced |-> n] \in File
           /\ [items |-> items, synced |-> n] # None
  BY NoneFacts DEF File, Content

\* A snapshot has writes.
LEMMA SavedType ==
    ASSUME NEW snapshot \in Log \cup {None}
    PROVE  Saved(snapshot) \in Log
  <1>1. <<>> \in Log
    BY EmptySeq DEF Log
  <1> QED BY <1>1 DEF Saved

\* Nothing that is not counted, or all of it in the snapshot.
LEMMA CountedAll ==
    ASSUME NEW log \in Log, NEW saved \in Log
    PROVE  /\ Len(log) <= Len(log) /\ Len(log) \in Nat
           /\ IsPrefix(SubSeq(log, 1, Len(log) - Len(log)), saved)
           /\ 0 <= Len(log) /\ IsPrefix(SubSeq(log, 1, Len(log) - 0), log)
  <1>1. Len(log) \in Nat
    BY LenProperties DEF Log
  <1>2. Len(log) - Len(log) = 0 /\ Len(log) - 0 = Len(log)
    BY <1>1
  <1>3. SubSeq(log, 1, 0) = <<>>
    BY SubSeqEmpty
  <1>4. SubSeq(log, 1, Len(log)) = log
    BY SubSeqFull DEF Log
  <1>5. SubSeq(log, 1, Len(log) - Len(log)) = <<>> /\ SubSeq(log, 1, Len(log) - 0) = log
    BY <1>2, <1>3, <1>4
  <1>6. IsPrefix(<<>>, saved) /\ IsPrefix(log, log)
    BY PrefixSelf
  <1>7. Len(log) <= Len(log) /\ 0 <= Len(log)
    BY <1>1
  <1> QED BY <1>1, <1>5, <1>6, <1>7

\* A new process.
LEMMA StartTypes ==
    ASSUME TypeOK, NEW items \in Seq(Content), NEW onDisk \in 0..Len(items),
           NEW snapshot \in Log \cup {None},
           Start(items, onDisk, snapshot), events' \in 0..MaxEvents
    PROVE  TypeOK'
  <1> DEFINE left == Mended(items)
             s == Min({onDisk, Len(left)})
  <1>1. left \in Seq(Content) /\ Len(left) \in Nat /\ Loaded(left) \in Log
    <2>1. left \in Seq(Content)
      BY MendedFacts
    <2> QED BY <2>1, AfterType, LenProperties
  <1>2. onDisk \in Nat /\ Len(items) \in Nat /\ onDisk <= Len(items)
    BY LenProperties
  <1>3. s \in Nat /\ s <= Len(left)
    <2> HIDE DEF left
    <2> QED BY <1>1, <1>2, MinPair
  <1>4. Saved(snapshot) \in Log
    BY SavedType
  <1>5. conf \in {"on", "off"} /\ conf' = conf /\ aof_state' = conf /\ writes' = writes
    BY NoneFacts DEF TypeOK, Start, config
  <1>6. /\ aof_buf' = <<>> /\ aof_rewrite_buf' = <<>> /\ fsyncs' = <<>>
        /\ aof_selected_db' = None /\ aof_child' = None /\ rdb_child' = None
        /\ aof_last_write_status' = "ok" /\ aof_flush_postponed_start' = "no"
        /\ due' = FALSE /\ aof_rewrite_scheduled' = FALSE /\ lastbgsave_status' = "ok"
        /\ dirty_before_bgsave' = 0 /\ rdb' = snapshot /\ replies' = {} /\ turn' = {}
        /\ acked' \subseteq acked /\ aof_fsync' = aof_fsync
    BY DEF Start, config
  <1>7. /\ <<>> \in Seq(Item) /\ <<>> \in Seq({"aof", "former"}) /\ ToSet(<<>>) = {}
    <2>1. <<>> \in Seq(Item) /\ <<>> \in Seq({"aof", "former"})
      OBVIOUS
    <2> QED BY <2>1 DEF ToSet
  <1> HIDE DEF left, s
  <1>8. CASE conf = "on"
    <2>1. /\ data' = Loaded(left) /\ file' = [items |-> left, synced |-> s]
          /\ aof_fd' = "open" /\ aof_current_size' = Len(left) /\ dirty' = Len(data')
      BY <1>8 DEF Start, left, s
    <2>2. data' \in Log /\ dirty' \in Nat /\ aof_current_size' \in Nat
      BY <1>1, <2>1, LenProperties DEF Log
    <2>3. file' \in File /\ file' # None /\ file'.synced <= Len(file'.items)
          /\ aof_current_size' = Len(file'.items)
      BY <1>1, <1>3, <2>1, FileType
    <2> QED BY <1>5, <1>6, <1>7, <1>8, <2>1, <2>2, <2>3 DEF TypeOK
  <1>9. CASE conf = "off"
    <2>1. /\ data' = Saved(snapshot) /\ dirty' = 0
          /\ file' = IF file = None THEN None ELSE [items |-> items, synced |-> onDisk]
          /\ aof_fd' = "none" /\ aof_current_size' = 0
      BY <1>9 DEF Start, Saved
    <2>2. file' \in File \cup {None} /\ (file' # None => file'.synced <= Len(file'.items))
      BY <1>2, <2>1, FileType
    <2> QED BY <1>4, <1>5, <1>6, <1>7, <1>9, <2>1, <2>2 DEF TypeOK
  <1> QED BY <1>5, <1>8, <1>9

\* A new process finds what the invariant promises of the old one.
LEMMA StartKeeps ==
    ASSUME Inv, NEW items \in Seq(Content), RewrittenFirst(items), NEW onDisk \in 0..Len(items),
           NEW snapshot \in Log \cup {None},
           Start(items, onDisk, snapshot), events' \in 0..MaxEvents,
           aof_fsync = "always" /\ conf = "on"
             => Settled \subseteq ToSet(Held(items, onDisk)) \/ onDisk = Len(items)
    PROVE  Inv'
  <1>0. TypeOK
    BY DEF Inv
  <1>1. TypeOK'
    BY <1>0, StartTypes
  <1> DEFINE left == Mended(items)
             s == Min({onDisk, Len(left)})
             all == Loaded(left)
  <1>2. /\ left \in Seq(Content) /\ Len(left) <= Len(items)
        /\ RewrittenFirst(left)
        /\ ~After(left).multi
        /\ all = After(left).log /\ all = Held(items, Len(items))
        /\ \A j \in 0..Len(left) : Held(left, j) = Held(items, j)
        /\ \A j \in Len(left)..Len(items) : Held(items, j) = all
        /\ Held(left, Len(left)) = all
    BY MendedFacts
  <1>3. all \in Log /\ Len(left) \in Nat /\ Len(items) \in Nat
    BY <1>2, AfterType, LenProperties
  <1>4. onDisk \in Nat /\ onDisk <= Len(items)
    BY <1>3
  <1>5. conf \in {"on", "off"} /\ conf' = conf /\ aof_state' = conf /\ aof_fsync' = aof_fsync
    BY <1>0, NoneFacts DEF TypeOK, Start, config
  <1>6. /\ aof_buf' = <<>> /\ aof_rewrite_buf' = <<>> /\ aof_selected_db' = None
        /\ aof_child' = None /\ rdb_child' = None /\ rdb' = snapshot
        /\ replies' = {} /\ turn' = {} /\ acked' = (acked \ turn) \cap ToSet(data')
    BY DEF Start
  <1>7. Saved(snapshot) \in Log /\ Settled' = acked' /\ acked' \subseteq Settled
    BY <1>6, SavedType DEF Settled
  <1> HIDE DEF left, s, all
  <1>8. CASE conf = "on"
    <2>1. /\ data' = all /\ dirty' = Len(data') /\ file' = [items |-> left, synced |-> s]
      BY <1>8 DEF Start, left, s, all
    <2>2. file'.items = left /\ file'.synced = s
      BY <2>1
    <2>3. left \o <<>> = left
      BY <1>2, ConcatEmptySeq
    <2>4. FileInv'
      <3>1. Complete(After(left), all, None)
        BY <1>2 DEF Complete
      <3> QED BY <1>2, <1>5, <1>6, <1>8, <2>1, <2>2, <2>3, <3>1 DEF FileInv
    <2>5. AckInv'
      BY <1>2, <1>6, <1>7, <2>1, <2>2 DEF AckInv
    <2>6. DiskInv'
      <3> SUFFICES ASSUME aof_fsync = "always"
                   PROVE  acked' \subseteq ToSet(Held(left, s))
        BY <1>5, <1>6, <1>7, <1>8, <2>2 DEF DiskInv
      <3>1. CASE onDisk <= Len(left)
        <4>1. s = onDisk /\ onDisk \in 0..Len(left)
          BY <1>3, <1>4, <3>1, MinPair DEF s
        <4>2. Held(left, s) = Held(items, onDisk)
          BY <1>2, <4>1
        <4>3. CASE Settled \subseteq ToSet(Held(items, onDisk))
          BY <1>7, <4>2, <4>3
        <4>4. CASE onDisk = Len(items)
          <5>1. Held(left, s) = all
            BY <1>2, <4>2, <4>4
          <5> QED BY <1>6, <2>1, <5>1
        <4> QED BY <1>8, <4>3, <4>4
      <3>2. CASE ~(onDisk <= Len(left))
        <4>1. s = Len(left)
          BY <1>3, <1>4, <3>2, MinPair DEF s
        <4> QED BY <1>2, <1>6, <2>1, <4>1
      <3> QED BY <3>1, <3>2
    <2>7. SaveInv'
      <3>1. /\ Len(all) <= Len(all) /\ IsPrefix(SubSeq(all, 1, Len(all) - Len(all)), Saved(snapshot))
        BY <1>3, <1>7, CountedAll
      <3>2. dirty' = Len(all) /\ data' = all /\ rdb' = snapshot /\ rdb_child' = None
        BY <1>6, <2>1
      <3> QED BY <3>1, <3>2 DEF SaveInv, Saved
    <2> QED BY <1>1, <2>4, <2>5, <2>6, <2>7 DEF Inv
  <1>9. CASE conf = "off"
    <2>1. /\ data' = Saved(snapshot) /\ dirty' = 0
          /\ file' = IF file = None THEN None ELSE [items |-> items, synced |-> onDisk]
      BY <1>9 DEF Start, Saved
    <2>2. file' # None => file'.items = items
      BY <2>1
    <2>3. FileInv'
      BY <1>5, <1>6, <1>9, <2>2 DEF FileInv
    <2>4. AckInv'
      BY <1>5, <1>6, <1>9 DEF AckInv
    <2>5. DiskInv'
      BY <1>5, <1>6, <1>9 DEF DiskInv
    <2>6. SaveInv'
      <3>1. PICK log \in Log : log = Saved(snapshot)
        BY <1>7
      <3>2. 0 <= Len(log) /\ IsPrefix(SubSeq(log, 1, Len(log) - 0), log)
        BY CountedAll
      <3>3. dirty' = 0 /\ data' = log /\ Saved(rdb)' = log /\ rdb_child' = None
        BY <1>6, <2>1, <3>1 DEF Saved
      <3> QED BY <3>2, <3>3 DEF SaveInv
    <2> QED BY <1>1, <2>3, <2>4, <2>5, <2>6 DEF Inv
  <1> QED BY <1>5, <1>8, <1>9

\* The first state.
LEMMA InitInv == Init => Inv
  <1> SUFFICES ASSUME Init PROVE Inv
    OBVIOUS
  <1>1. /\ <<>> \in Seq(Item) /\ <<>> \in Seq({"aof", "former"}) /\ ToSet(<<>>) = {}
        /\ <<>> \in Log /\ <<>> \in Seq(Content) /\ Len(<<>>) = 0
    <2>1. /\ <<>> \in Seq(Item) /\ <<>> \in Seq({"aof", "former"})
          /\ <<>> \in Log /\ <<>> \in Seq(Content) /\ Len(<<>>) = 0
      BY EmptySeq DEF Log
    <2> QED BY <2>1 DEF ToSet
  <1>2. /\ [items |-> <<>>, synced |-> 0] \in File
        /\ [items |-> <<>>, synced |-> 0] # None
    BY <1>1, FileType
  <1>3. conf \in {"on", "off"} /\ aof_state = conf /\ (conf = "on" <=> file # None)
    BY <1>2, NoneFacts DEF Init
  <1>4. TypeOK
    <2>1. /\ data \in Log /\ aof_fsync \in Policies /\ conf \in Configs
          /\ aof_state \in {"off", "on", "wait"}
      BY <1>1, <1>3 DEF Init
    <2>2. /\ file \in File \cup {None}
          /\ file # None => file.synced <= Len(file.items)
          /\ aof_fd \in {"none", "open", "stale"}
          /\ aof_state # "off" => aof_fd = "open" /\ file # None
          /\ aof_fd # "none" => file # None
          /\ aof_current_size \in Nat
          /\ aof_state = "on" => aof_current_size = Len(file.items)
      <3>1. CASE conf = "on"
        BY <1>1, <1>2, <1>3, <3>1 DEF Init
      <3>2. CASE conf = "off"
        BY <1>1, <1>2, <1>3, <3>2 DEF Init
      <3> QED BY <1>3, <3>1, <3>2
    <2>3. /\ aof_buf \in Seq(Item) /\ aof_selected_db \in DB \cup {None}
          /\ aof_last_write_status \in {"ok", "err"}
          /\ aof_flush_postponed_start \in {"no", "now", "late"}
          /\ due \in BOOLEAN /\ fsyncs \in Seq({"aof", "former"})
          /\ "aof" \in ToSet(fsyncs) => file # None
      BY <1>1 DEF Init
    <2>4. /\ aof_child \in Log \cup {None} /\ aof_rewrite_buf \in Seq(Item)
          /\ aof_child = None => aof_rewrite_buf = <<>>
          /\ aof_rewrite_scheduled \in BOOLEAN
      BY <1>1 DEF Init
    <2>5. /\ rdb \in Log \cup {None} /\ rdb_child \in Log \cup {None, Lost}
          /\ dirty \in Nat /\ dirty_before_bgsave \in Nat
          /\ lastbgsave_status \in {"ok", "err"}
          /\ replies \cup turn \cup acked \subseteq DB \X (1..writes)
      BY DEF Init
    <2>6. writes \in 0..MaxWrites /\ events \in 0..MaxEvents
      BY NoneFacts DEF Init
    <2> QED BY <2>1, <2>2, <2>3, <2>4, <2>5, <2>6 DEF TypeOK
  <1>5. file # None => file.items = <<>> /\ file.synced = 0
    BY <1>2 DEF Init
  <1>6. data = <<>> /\ aof_buf = <<>> /\ aof_child = None /\ aof_rewrite_buf = <<>>
        /\ aof_selected_db = None /\ rdb_child = None /\ rdb = None /\ dirty = 0
        /\ acked = {} /\ replies = {} /\ turn = {} /\ Settled = {}
    BY DEF Init, Settled
  <1>7. FileInv
    <2>1. RewrittenFirst(<<>>)
      BY <1>1 DEF RewrittenFirst
    <2>2. <<>> \o <<>> = <<>>
      BY <1>1, ConcatEmptySeq
    <2>3. Complete(After(<<>>), <<>>, None)
      <3>1. Nobody.log = <<>> /\ Nobody.multi = FALSE
        BY DEF Nobody
      <3> QED BY <3>1, AfterEmpty DEF Complete
    <2> QED BY <1>3, <1>5, <1>6, <2>1, <2>2, <2>3 DEF FileInv
  <1>8. AckInv
    BY <1>6 DEF AckInv
  <1>9. DiskInv
    BY <1>1, <1>5, <1>6 DEF DiskInv
  <1>10. SaveInv
    <2>1. 0 <= Len(<<>>) /\ IsPrefix(SubSeq(<<>>, 1, Len(<<>>) - 0), <<>>)
      BY <1>1, CountedAll
    <2>2. Saved(rdb) = <<>>
      BY <1>6 DEF Saved
    <2> QED BY <1>6, <2>1, <2>2 DEF SaveInv
  <1> QED BY <1>4, <1>7, <1>8, <1>9, <1>10 DEF Inv

-----------------------------------------------------------------------------
(* Every action keeps the invariant. *)

\* What a part of the invariant depends on.
LEMMA FileKept ==
    ASSUME FileInv, UNCHANGED <<file, aof_state, aof_buf, data, aof_selected_db, aof_child,
                                aof_rewrite_buf>>
    PROVE  FileInv'
  BY DEF FileInv

\* The same for the acknowledged writes.
LEMMA AckKept ==
    ASSUME AckInv, UNCHANGED <<acked, replies, turn, data, aof_state, file,
                               aof_flush_postponed_start, aof_last_write_status>>
    PROVE  AckInv'
  BY DEF AckInv, Settled

\* The same for the disk.
LEMMA DiskKept ==
    ASSUME DiskInv, UNCHANGED <<aof_fsync, conf, aof_state, aof_buf, file, acked, replies,
                                turn>>
    PROVE  DiskInv'
  BY DEF DiskInv, Settled

\* The same for the snapshots.
LEMMA SaveKept ==
    ASSUME SaveInv, UNCHANGED <<data, dirty, dirty_before_bgsave, rdb, rdb_child>>
    PROVE  SaveInv'
  BY DEF SaveInv, Saved

\* Nothing happens.
LEMMA StutterInv == ASSUME Inv, UNCHANGED vars PROVE Inv'
  <1> USE DEF vars, config, output, rewrite, saving, ends
  <1>0. TypeOK /\ FileInv /\ AckInv /\ DiskInv /\ SaveInv
    BY DEF Inv
  <1>1. TypeOK'
    BY <1>0 DEF TypeOK
  <1>2. FileInv'
    BY <1>0, FileKept
  <1>3. AckInv'
    BY <1>0, AckKept
  <1>4. DiskInv'
    BY <1>0, DiskKept
  <1>5. SaveInv'
    BY <1>0, SaveKept
  <1> QED BY <1>1, <1>2, <1>3, <1>4, <1>5 DEF Inv

\* Events are counted up to their bound.
LEMMA EventType ==
    ASSUME TypeOK, NEW kind, Event(kind) PROVE events' \in 0..MaxEvents
  <1>1. events \in 0..MaxEvents /\ events < MaxEvents /\ events' = events + 1
    BY DEF TypeOK, Event
  <1> QED BY <1>1, NoneFacts

\* Time passes.
LEMMA TickInv == ASSUME Inv, Tick PROVE Inv'
  <1> USE DEF config, rewrite, saving, ends
  <1>0. TypeOK /\ FileInv /\ AckInv /\ DiskInv /\ SaveInv
    BY DEF Inv
  <1>1. TypeOK'
    BY <1>0 DEF TypeOK, Tick
  <1>2. FileInv'
    BY <1>0, FileKept DEF Tick
  <1>3. AckInv'
    <2>1. \/ aof_flush_postponed_start' = aof_flush_postponed_start
          \/ aof_flush_postponed_start' = "late"
      BY DEF Tick
    <2>2. UNCHANGED <<acked, replies, turn, data, aof_state, file, aof_last_write_status>>
      BY DEF Tick
    <2> QED BY <1>0, <2>1, <2>2 DEF AckInv, Settled
  <1>4. DiskInv'
    BY <1>0, DiskKept DEF Tick
  <1>5. SaveInv'
    BY <1>0, SaveKept DEF Tick
  <1> QED BY <1>1, <1>2, <1>3, <1>4, <1>5 DEF Inv

\* The thread synchronizes the file: more of it is on the disk.
LEMMA BioFsyncInv == ASSUME Inv, BioFsync PROVE Inv'
  <1> USE DEF config, rewrite, saving, ends
  <1>0. TypeOK /\ FileInv /\ AckInv /\ DiskInv /\ SaveInv
    BY DEF Inv
  <1>1. fsyncs \in Seq({"aof", "former"}) /\ fsyncs # <<>>
    BY <1>0 DEF TypeOK, BioFsync
  <1>2. /\ Head(fsyncs) \in {"aof", "former"} /\ fsyncs' \in Seq({"aof", "former"})
        /\ ToSet(fsyncs') \subseteq ToSet(fsyncs)
        /\ Head(fsyncs) \in ToSet(fsyncs)
    <2>1. /\ Head(fsyncs) \in {"aof", "former"} /\ Tail(fsyncs) \in Seq({"aof", "former"})
          /\ Len(Tail(fsyncs)) = Len(fsyncs) - 1
          /\ \A i \in 1..Len(Tail(fsyncs)) : Tail(fsyncs)[i] = fsyncs[i + 1]
      BY <1>1, HeadTailProperties
    <2>2. PICK t \in Seq({"aof", "former"}) : t = Tail(fsyncs)
      BY <2>1
    <2>3. /\ Len(fsyncs) \in Nat /\ Len(fsyncs) # 0 /\ DOMAIN fsyncs = 1..Len(fsyncs)
          /\ DOMAIN t = 1..Len(t) /\ Len(t) \in Nat
      BY <1>1, EmptySeq, LenProperties
    <2>4. ASSUME NEW i \in 1..Len(t) PROVE t[i] = fsyncs[i+1] /\ i + 1 \in 1..Len(fsyncs)
      BY <2>1, <2>2, <2>3
    <2>5. ToSet(t) \subseteq ToSet(fsyncs)
      BY <2>3, <2>4 DEF ToSet
    <2>6. Head(fsyncs) = fsyncs[1] /\ 1 \in 1..Len(fsyncs)
      BY <2>3
    <2>7. Head(fsyncs) \in ToSet(fsyncs)
      BY <2>3, <2>6 DEF ToSet
    <2> QED BY <2>1, <2>2, <2>5, <2>7 DEF BioFsync
  <1>3. CASE Head(fsyncs) # "aof"
    <2>1. file' = file
      BY <1>3 DEF BioFsync
    <2>2. TypeOK'
      <3>1. /\ fsyncs' \in Seq({"aof", "former"})
            /\ "aof" \in ToSet(fsyncs') => file' # None
        BY <1>0, <1>2, <2>1 DEF TypeOK
      <3>2. UNCHANGED <<data, aof_fsync, conf, file, aof_state, aof_fd, aof_current_size, aof_buf,
                        aof_last_write_status, aof_flush_postponed_start, due, aof_selected_db,
                        rewrite, saving, ends>>
        BY <2>1 DEF BioFsync
      <3> QED BY <1>0, <3>1, <3>2 DEF TypeOK
    <2>3. FileInv'
      BY <1>0, <2>1, FileKept DEF BioFsync
    <2>4. AckInv'
      BY <1>0, <2>1, AckKept DEF BioFsync
    <2>5. DiskInv'
      BY <1>0, <2>1, DiskKept DEF BioFsync
    <2>6. SaveInv'
      BY <1>0, SaveKept DEF BioFsync
    <2> QED BY <2>2, <2>3, <2>4, <2>5, <2>6 DEF Inv
  <1>4. CASE Head(fsyncs) = "aof"
    <2>1. file' = [file EXCEPT !.synced = Len(file.items)] /\ file # None
      BY <1>0, <1>2, <1>4 DEF BioFsync, TypeOK
    <2>2. file \in File /\ file.items \in Seq(Content) /\ file.synced \in Nat
          /\ file.synced <= Len(file.items)
      BY <1>0, <2>1 DEF TypeOK, File, Content
    <2>3. Len(file.items) \in Nat
      BY <2>2, LenProperties
    <2>4. file'.items = file.items /\ file'.synced = Len(file.items) /\ file' \in File
      BY <2>1, <2>2, <2>3 DEF File
    <2>5. file' # None
      BY <2>4, NoneFacts
    <2>6. TypeOK'
      BY <1>0, <1>2, <2>1, <2>3, <2>4, <2>5 DEF TypeOK, BioFsync
    <2>7. FileInv'
      BY <1>0, <2>1, <2>4, <2>5 DEF FileInv, BioFsync
    <2>8. UNCHANGED <<Settled, acked, replies, turn, data, aof_state, aof_fsync, conf, aof_buf,
                       aof_flush_postponed_start, aof_last_write_status>>
      BY DEF BioFsync, Settled
    <2>9. AckInv'
      BY <1>0, <2>4, <2>8 DEF AckInv
    <2>10. DiskInv'
      <3>1. PICK a \in Log, b \in Log : /\ a = Held(file.items, file.synced)
                                        /\ b = Held(file.items, Len(file.items))
        <4>1. file.synced \in 0..Len(file.items) /\ Len(file.items) \in 0..Len(file.items)
          BY <2>2, <2>3
        <4> QED BY <2>2, <4>1, HeldType
      <3>2. ToSet(a) \subseteq ToSet(b)
        <4>1. Len(file.items) \in 0..Len(file.items) /\ file.synced \in 0..Len(file.items)
          BY <2>2, <2>3
        <4>2. RewrittenFirst(file.items)
          BY <1>0, <2>1 DEF FileInv
        <4>3. IsPrefix(a, b)
          BY <2>2, <3>1, <4>1, <4>2, HeldGrows
        <4> QED BY <4>3, PrefixSet
      <3> QED BY <1>0, <2>1, <2>4, <2>8, <3>1, <3>2 DEF DiskInv
    <2>11. SaveInv'
      BY <1>0, SaveKept DEF BioFsync
    <2> QED BY <2>6, <2>7, <2>9, <2>10, <2>11 DEF Inv
  <1> QED BY <1>3, <1>4

\* A forked child has all there is, and so far there is no difference.
LEMMA ForkFile ==
    ASSUME TypeOK, FileInv, Fork, aof_child = None,
           aof_state' \in {aof_state, "wait"}, aof_state = "off" => aof_state' = "wait",
           UNCHANGED <<data, aof_buf, aof_rewrite_buf>>,
           aof_state = "on" => aof_state' = "on" /\ file' = file,
           file' # None => RewrittenFirst(file'.items)
    PROVE  FileInv'
  <1>1. aof_child' = data /\ aof_selected_db' = None /\ data \in Log /\ aof_rewrite_buf = <<>>
    BY DEF Fork, TypeOK
  <1>2. Complete(After(Rewritten(data)), data, None) /\ Rewritten(data) \in Seq(Content)
    BY <1>1, RewrittenFacts
  <1>3. Rewritten(data) \o <<>> = Rewritten(data)
    BY <1>2, ConcatEmptySeq
  <1>4. ASSUME aof_state' = "on"
        PROVE  Complete(After(file'.items \o aof_buf'), data', None)
    <2>1. aof_state = "on" /\ file' = file /\ aof_buf' = aof_buf /\ data' = data
      BY <1>4
    <2> QED BY <2>1 DEF FileInv, Complete
  <1>5. aof_state' # "off"
    BY DEF TypeOK
  <1> QED BY <1>1, <1>2, <1>3, <1>4, <1>5 DEF FileInv

\* What belongs to the rewriting child has its type whatever starts it: the rest of a
\* step may touch the file and how the server appends to it (rewriteAppendOnlyFileBackground).
LEMMA ChildType ==
    ASSUME TypeOK,
           aof_child' \in Log \cup {None}, aof_child' = None => aof_child = None,
           aof_rewrite_buf' = aof_rewrite_buf, aof_rewrite_scheduled' \in BOOLEAN,
           aof_selected_db' \in DB \cup {None}
    PROVE  /\ aof_rewrite_buf' \in Seq(Item)
           /\ aof_child' = None => aof_rewrite_buf' = <<>>
           /\ aof_child' \in Log \cup {None} /\ aof_rewrite_scheduled' \in BOOLEAN
           /\ aof_selected_db' \in DB \cup {None}
  BY DEF TypeOK

\* And so it has after a fork.
LEMMA ForkType ==
    ASSUME TypeOK, Fork
    PROVE  /\ aof_child' \in Log \cup {None} /\ (aof_child' = None => aof_child = None)
           /\ aof_rewrite_scheduled' \in BOOLEAN /\ aof_selected_db' \in DB \cup {None}
  <1>1. data \in Log /\ aof_child' = data
    BY DEF TypeOK, Fork
  <1>2. data # None
    BY <1>1, NoneFacts
  <1>3. aof_rewrite_scheduled' = FALSE /\ aof_selected_db' = None
    BY DEF Fork
  <1> QED BY <1>1, <1>2, <1>3

\* BGREWRITEAOF.
LEMMA BgRewriteAofInv == ASSUME Inv, BgRewriteAof PROVE Inv'
  <1> USE DEF config, output, saving, ends
  <1>0. TypeOK /\ FileInv /\ AckInv /\ DiskInv /\ SaveInv
    BY DEF Inv
  <1>1. events' \in 0..MaxEvents
    BY <1>0, EventType DEF BgRewriteAof
  <1>2. TypeOK'
    <2>1. /\ aof_child' \in Log \cup {None} /\ (aof_child' = None => aof_child = None)
          /\ aof_rewrite_scheduled' \in BOOLEAN /\ aof_selected_db' \in DB \cup {None}
      <3>1. CASE rdb_child = None
        BY <1>0, <3>1, ForkType DEF BgRewriteAof
      <3>2. CASE rdb_child # None
        BY <1>0, <3>2 DEF TypeOK, BgRewriteAof
      <3> QED BY <3>1, <3>2
    <2>2. /\ UNCHANGED <<data, config, aof_state, file, aof_fd, aof_current_size, output>>
          /\ UNCHANGED <<aof_rewrite_buf, saving, replies, turn, acked, writes>>
      BY DEF BgRewriteAof
    <2>3. /\ aof_rewrite_buf' \in Seq(Item)
          /\ aof_child' = None => aof_rewrite_buf' = <<>>
      BY <1>0, <2>1, <2>2, ChildType
    <2> QED BY <1>0, <1>1, <2>1, <2>2, <2>3 DEF TypeOK
  <1>3. FileInv'
    <2>1. CASE rdb_child = None
      <3>1. CASE aof_state = "off"
        \* The child of a server that appends nothing.
        <4>1. UNCHANGED <<data, file, aof_state, aof_rewrite_buf, aof_buf>>
          BY DEF BgRewriteAof
        <4>2. aof_selected_db' = None
          BY <2>1 DEF BgRewriteAof, Fork
        <4> QED BY <1>0, <3>1, <4>1, <4>2 DEF FileInv
      <3>2. CASE aof_state # "off"
        BY <1>0, <2>1, <3>2, ForkFile DEF BgRewriteAof, FileInv
      <3> QED BY <3>1, <3>2
    <2>2. CASE rdb_child # None
      BY <1>0, <2>2, FileKept DEF BgRewriteAof
    <2> QED BY <2>1, <2>2
  <1>4. AckInv'
    BY <1>0, AckKept DEF BgRewriteAof
  <1>5. DiskInv'
    BY <1>0, DiskKept DEF BgRewriteAof
  <1>6. SaveInv'
    BY <1>0, SaveKept DEF BgRewriteAof
  <1> QED BY <1>2, <1>3, <1>4, <1>5, <1>6 DEF Inv

\* The rewrite that was put off.
LEMMA ScheduledRewriteInv == ASSUME Inv, ScheduledRewrite PROVE Inv'
  <1> USE DEF config, output, saving, ends
  <1>0. TypeOK /\ FileInv /\ AckInv /\ DiskInv /\ SaveInv
    BY DEF Inv
  <1>2. TypeOK'
    <2>1. /\ aof_child' \in Log \cup {None} /\ (aof_child' = None => aof_child = None)
          /\ aof_rewrite_scheduled' \in BOOLEAN /\ aof_selected_db' \in DB \cup {None}
      BY <1>0, ForkType DEF ScheduledRewrite
    <2>2. /\ UNCHANGED <<data, config, aof_state, file, aof_fd, aof_current_size, output>>
          /\ UNCHANGED <<aof_rewrite_buf, saving, ends>>
      BY DEF ScheduledRewrite
    <2>3. /\ aof_rewrite_buf' \in Seq(Item)
          /\ aof_child' = None => aof_rewrite_buf' = <<>>
      BY <1>0, <2>1, <2>2, ChildType
    <2> QED BY <1>0, <2>1, <2>2, <2>3 DEF TypeOK
  <1>3. FileInv'
    <2>1. CASE aof_state = "off"
      <3>1. UNCHANGED <<data, file, aof_state, aof_rewrite_buf, aof_buf>>
        BY DEF ScheduledRewrite
      <3>2. aof_selected_db' = None
        BY DEF ScheduledRewrite, Fork
      <3> QED BY <1>0, <2>1, <3>1, <3>2 DEF FileInv
    <2>2. CASE aof_state # "off"
      BY <1>0, <2>2, ForkFile DEF ScheduledRewrite, FileInv
    <2> QED BY <2>1, <2>2
  <1>4. AckInv'
    BY <1>0, AckKept DEF ScheduledRewrite
  <1>5. DiskInv'
    BY <1>0, DiskKept DEF ScheduledRewrite
  <1>6. SaveInv'
    BY <1>0, SaveKept DEF ScheduledRewrite
  <1> QED BY <1>2, <1>3, <1>4, <1>5, <1>6 DEF Inv

\* The rewriting child fails.
LEMMA RewriteFailedInv == ASSUME Inv, RewriteFailed PROVE Inv'
  <1> USE DEF config, output, saving, ends
  <1>0. TypeOK /\ FileInv /\ AckInv /\ DiskInv /\ SaveInv
    BY DEF Inv
  <1>1. events' \in 0..MaxEvents /\ <<>> \in Seq(Item)
    <2>1. <<>> \in Seq(Item)
      OBVIOUS
    <2> QED BY <1>0, <2>1, EventType DEF RewriteFailed
  <1>2. TypeOK'
    <2>1. aof_rewrite_scheduled' \in BOOLEAN
      BY <1>0 DEF TypeOK, RewriteFailed
    <2> QED BY <1>0, <1>1, <2>1 DEF TypeOK, RewriteFailed
  <1>3. FileInv'
    BY <1>0 DEF FileInv, RewriteFailed
  <1>4. AckInv'
    BY <1>0, AckKept DEF RewriteFailed
  <1>5. DiskInv'
    BY <1>0, DiskKept DEF RewriteFailed
  <1>6. SaveInv'
    BY <1>0, SaveKept DEF RewriteFailed
  <1> QED BY <1>2, <1>3, <1>4, <1>5, <1>6 DEF Inv

\* The beginning of writes stays when others follow.
LEMMA SubSeqBefore ==
    ASSUME NEW a \in Log, NEW b \in Log, NEW m \in 0..Len(a)
    PROVE  SubSeq(a \o b, 1, m) = SubSeq(a, 1, m)
  <1>1. a \in Seq(DB \X Nat) /\ b \in Seq(DB \X Nat) /\ Len(a) \in Nat
    BY LenProperties DEF Log
  <1>2. CASE m = 0
    <2>1. SubSeq(a \o b, 1, 0) = <<>> /\ SubSeq(a, 1, 0) = <<>>
      BY SubSeqEmpty
    <2> QED BY <1>2, <2>1
  <1>3. CASE m # 0
    <2>1. m \in 1..Len(a) /\ 1 \in 1..Len(a)
      BY <1>1, <1>3
    <2> QED BY <1>1, <2>1, SubSeqOfConcat1
  <1> QED BY <1>2, <1>3

\* A buffer with a command is not empty.
LEMMA FedSome ==
    ASSUME NEW sel, NEW d \in DB, NEW n \in 1..2, NEW w \in Nat, NEW b \in Seq(Item)
    PROVE  b \o Fed(sel, d, n, w) \in Seq(Item) /\ b \o Fed(sel, d, n, w) # <<>>
  <1>1. Fed(sel, d, n, w) \in Seq(Item) /\ Fed(sel, d, n, w) # <<>>
    BY FedType
  <1> QED BY <1>1, ConcatProperties, ConcatEqualIffEmpty

\* A client's command.
LEMMA ExecuteInv == ASSUME Inv, NEW d \in DB, NEW n \in 1..2, Execute(d, n) PROVE Inv'
  <1> USE DEF config
  <1>0. TypeOK /\ FileInv /\ AckInv /\ DiskInv /\ SaveInv
    BY DEF Inv
  <1> DEFINE w == writes
             v == [i \in 1..n |-> <<d, w + i>>]
             fed == Fed(aof_selected_db, d, n, w)
  <1>1. w \in Nat /\ writes' \in 0..MaxWrites
    BY <1>0, NoneFacts DEF TypeOK, Execute
  <1>2. v \in Log /\ Len(v) = n /\ ToSet(v) = {<<d, w + i>> : i \in 1..n}
    BY <1>1, WritesType
  <1>3. /\ data' = data \o v /\ dirty' = dirty + n
        /\ replies' = replies \cup ToSet(v) /\ turn' = turn \cup ToSet(v)
        /\ writes' = w + n
    BY <1>2 DEF Execute
  <1>4. fed \in Seq(Item) /\ aof_buf \o fed \in Seq(Item) /\ aof_buf \o fed # <<>>
        /\ aof_rewrite_buf \o fed \in Seq(Item)
    BY <1>0, <1>1, FedType, FedSome DEF TypeOK
  <1>5. \/ aof_state = "off" /\ UNCHANGED <<aof_buf, aof_rewrite_buf, aof_selected_db>>
        \/ /\ aof_state # "off" /\ aof_selected_db' = d
           /\ aof_buf' = IF aof_state = "on" THEN aof_buf \o fed ELSE aof_buf
           /\ aof_rewrite_buf' = IF aof_child # None THEN aof_rewrite_buf \o fed
                                                     ELSE aof_rewrite_buf
    BY DEF Execute, Feed, Fed, Command
  <1>6. UNCHANGED <<aof_fsync, conf, aof_state, file, aof_fd, aof_current_size,
                    aof_last_write_status, aof_flush_postponed_start, due, fsyncs,
                    aof_child, aof_rewrite_scheduled, rdb, rdb_child,
                    dirty_before_bgsave, lastbgsave_status, acked, events>>
    BY DEF Execute
  <1> HIDE DEF v, fed, w
  <1>7. /\ data \in Log /\ data' \in Log /\ IsPrefix(data, data')
        /\ Len(data) \in Nat /\ Len(data') = Len(data) + n
        /\ ToSet(v) \subseteq ToSet(data') /\ ToSet(data) \subseteq ToSet(data')
    <2>1. data \in Log
      BY <1>0 DEF TypeOK
    <2> PICK t \in Log : t = data \o v
      BY <1>2, <2>1, PrefixConcat
    <2>2. IsPrefix(data, t)
      BY <1>2, <2>1, PrefixConcat
    <2>3. Len(data) \in Nat /\ Len(t) = Len(data) + n
          /\ \A i \in 1..Len(data) + n : t[i] = IF i <= Len(data) THEN data[i]
                                                ELSE v[i - Len(data)]
      BY <1>2, <2>1, ConcatProperties, LenProperties DEF Log
    <2>4. DOMAIN t = 1..Len(t) /\ DOMAIN v = 1..n
      BY <1>2, LenProperties DEF Log
    <2>5. ASSUME NEW i \in 1..n
          PROVE  Len(data) + i \in 1..Len(t) /\ t[Len(data) + i] = v[i]
      <3>1. /\ Len(data) + i \in 1..Len(data) + n /\ ~(Len(data) + i <= Len(data))
            /\ (Len(data) + i) - Len(data) = i
        BY <2>3
      <3> QED BY <2>3, <3>1
    <2>6. ToSet(v) \subseteq ToSet(t)
      BY <2>4, <2>5 DEF ToSet
    <2>7. ToSet(data) \subseteq ToSet(t)
      BY <2>1, <2>2, PrefixSet
    <2> QED BY <1>3, <2>1, <2>2, <2>3, <2>6, <2>7
  <1>8. TypeOK'
    <2>1. dirty' \in Nat
      BY <1>0, <1>3 DEF TypeOK
    <2>2. ToSet(v) \subseteq DB \X (1..writes')
      <3>1. ASSUME NEW i \in 1..n
            PROVE  w + i \in 1..writes'
        BY <1>1, <1>3
      <3> QED BY <1>2, <3>1
    <2>3. replies' \cup turn' \cup acked' \subseteq DB \X (1..writes')
      <3>1. 1..w \subseteq 1..writes'
        BY <1>1, <1>3
      <3>2. replies \cup turn \cup acked \subseteq DB \X (1..w)
        BY <1>0 DEF TypeOK, w
      <3> QED BY <1>3, <1>6, <2>2, <3>1, <3>2
    <2>4. /\ aof_buf' \in Seq(Item) /\ aof_rewrite_buf' \in Seq(Item)
          /\ aof_selected_db' \in DB \cup {None}
          /\ aof_child = None => aof_rewrite_buf' = <<>>
      BY <1>0, <1>4, <1>5 DEF TypeOK
    <2> QED BY <1>0, <1>1, <1>6, <1>7, <2>1, <2>3, <2>4 DEF TypeOK
  <1>9. FileInv'
    <2>1. ASSUME NEW a \in Seq(Content), NEW b \in Seq(Item),
                 Complete(After(a \o b), data, aof_selected_db)
          PROVE  Complete(After(a \o (b \o fed)), data', d)
      <3>1. PICK c \in Seq(Content) : c = a \o b
        BY ItemTypes, ConcatProperties
      <3>2. aof_selected_db \in DB \cup {None}
        BY <1>0 DEF TypeOK
      <3>3. Complete(After(c \o fed), data', d)
        BY <1>1, <1>3, <1>7, <2>1, <3>1, <3>2, FedComplete DEF fed, v
      <3>4. c \o fed = a \o (b \o fed)
        <4>1. b \in Seq(Content) /\ fed \in Seq(Content)
          BY <1>4, ItemTypes
        <4> QED BY <3>1, <4>1, ConcatAssociative
      <3> QED BY <3>3, <3>4
    <2>2. CASE aof_state = "off"
      BY <1>0, <1>5, <1>6, <2>2 DEF FileInv
    <2>3. CASE aof_state # "off"
      <3>1. aof_state = "on" => Complete(After(file.items \o aof_buf'), data', d)
        <4> SUFFICES ASSUME aof_state = "on"
                     PROVE  Complete(After(file.items \o aof_buf'), data', d)
          OBVIOUS
        <4>1. file.items \in Seq(Content) /\ aof_buf \in Seq(Item)
          BY <1>0 DEF TypeOK, File, Content
        <4>2. Complete(After(file.items \o aof_buf), data, aof_selected_db)
          BY <1>0 DEF FileInv
        <4>3. aof_buf' = aof_buf \o fed
          BY <1>5
        <4> QED BY <2>1, <4>1, <4>2, <4>3
      <3>2. aof_child # None => Complete(After(Rewritten(aof_child) \o aof_rewrite_buf'), data', d)
        <4> SUFFICES ASSUME aof_child # None
                     PROVE  Complete(After(Rewritten(aof_child) \o aof_rewrite_buf'), data', d)
          OBVIOUS
        <4>1. aof_child \in Log /\ aof_rewrite_buf \in Seq(Item)
          BY <1>0 DEF TypeOK
        <4>2. Rewritten(aof_child) \in Seq(Content)
          BY <4>1, RewrittenFacts
        <4>3. Complete(After(Rewritten(aof_child) \o aof_rewrite_buf), data, aof_selected_db)
          BY <1>0, <2>3 DEF FileInv
        <4>4. aof_rewrite_buf' = aof_rewrite_buf \o fed
          BY <1>5, <2>3
        <4> QED BY <2>1, <4>1, <4>2, <4>3, <4>4
      <3>3. aof_selected_db' = d
        BY <1>5, <2>3
      <3> QED BY <1>0, <1>6, <2>3, <3>1, <3>2, <3>3 DEF FileInv
    <2> QED BY <2>2, <2>3
  <1>10. Settled' \subseteq Settled
    BY <1>3, <1>6 DEF Settled
  <1>11. AckInv'
    BY <1>0, <1>3, <1>6, <1>7, <1>10 DEF AckInv
  <1>12. DiskInv'
    <2>1. aof_state # "on" => aof_buf' = aof_buf
      BY <1>5
    <2>2. aof_state = "on" => aof_buf' # <<>>
      BY <1>4, <1>5
    <2> QED BY <1>0, <1>6, <1>10, <2>1, <2>2 DEF DiskInv
  <1>13. SaveInv'
    <2>1. dirty \in Nat /\ dirty <= Len(data) /\ dirty_before_bgsave \in Nat
      BY <1>0 DEF TypeOK, SaveInv
    <2>2. dirty' <= Len(data') /\ Len(data') - dirty' = Len(data) - dirty
          /\ Len(data) - dirty \in 0..Len(data)
      BY <1>3, <1>7, <2>1
    <2>3. SubSeq(data', 1, Len(data') - dirty') = SubSeq(data, 1, Len(data) - dirty)
      BY <1>2, <1>3, <1>7, <2>2, SubSeqBefore
    <2>4. IsPrefix(SubSeq(data', 1, Len(data') - dirty'), Saved(rdb)')
      BY <1>0, <1>6, <2>3 DEF SaveInv, Saved
    <2>5. ASSUME rdb_child \notin {None, Lost}
          PROVE  /\ dirty_before_bgsave <= dirty'
                 /\ IsPrefix(rdb_child, data')
                 /\ Len(rdb_child) + dirty' = Len(data') + dirty_before_bgsave
      <3>1. /\ dirty_before_bgsave <= dirty /\ IsPrefix(rdb_child, data)
            /\ Len(rdb_child) + dirty = Len(data) + dirty_before_bgsave
            /\ rdb_child \in Log
        BY <1>0, <2>5 DEF SaveInv, TypeOK
      <3>2. Len(rdb_child) \in Nat
        BY <3>1, LenProperties DEF Log
      <3>3. IsPrefix(rdb_child, data')
        BY <1>7, <3>1, PrefixTrans
      <3>4. dirty_before_bgsave <= dirty'
        BY <1>3, <2>1, <3>1
      <3>5. Len(rdb_child) + dirty' = Len(data') + dirty_before_bgsave
        <4>1. dirty' = dirty + n
          BY <1>3
        <4> QED BY <1>7, <2>1, <3>1, <3>2, <4>1
      <3> QED BY <3>3, <3>4, <3>5
    <2> QED BY <1>6, <2>2, <2>4, <2>5 DEF SaveInv
  <1> QED BY <1>8, <1>9, <1>11, <1>12, <1>13 DEF Inv

\* SAVE.
LEMMA SaveActionInv == ASSUME Inv, Save PROVE Inv'
  <1> USE DEF config, output, rewrite
  <1>0. TypeOK /\ FileInv /\ AckInv /\ DiskInv /\ SaveInv
    BY DEF Inv
  <1>1. events' \in 0..MaxEvents /\ data \in Log
    BY <1>0, EventType DEF Save, TypeOK
  <1>2. TypeOK'
    BY <1>0, <1>1 DEF TypeOK, Save
  <1>3. FileInv'
    BY <1>0, FileKept DEF Save
  <1>4. AckInv'
    BY <1>0, AckKept DEF Save
  <1>5. DiskInv'
    BY <1>0, DiskKept DEF Save
  <1>6. SaveInv'
    <2>1. 0 <= Len(data) /\ IsPrefix(SubSeq(data, 1, Len(data) - 0), data)
      BY <1>1, CountedAll
    <2>2. data' = data /\ dirty' = 0 /\ rdb' = data /\ rdb_child' = None
      BY DEF Save
    <2>3. Saved(rdb)' = data
      BY <1>1, <2>2, NoneFacts DEF Saved
    <2> QED BY <2>1, <2>2, <2>3 DEF SaveInv
  <1> QED BY <1>2, <1>3, <1>4, <1>5, <1>6 DEF Inv

\* BGSAVE.
LEMMA BgSaveInv == ASSUME Inv, BgSave PROVE Inv'
  <1> USE DEF config, output, rewrite
  <1>0. TypeOK /\ FileInv /\ AckInv /\ DiskInv /\ SaveInv
    BY DEF Inv
  <1>1. events' \in 0..MaxEvents /\ data \in Log /\ dirty \in Nat
    BY <1>0, EventType DEF BgSave, TypeOK
  <1>2. TypeOK'
    BY <1>0, <1>1 DEF TypeOK, BgSave
  <1>3. FileInv'
    BY <1>0, FileKept DEF BgSave
  <1>4. AckInv'
    BY <1>0, AckKept DEF BgSave
  <1>5. DiskInv'
    BY <1>0, DiskKept DEF BgSave
  <1>6. SaveInv'
    <2>1. IsPrefix(data, data) /\ Len(data) \in Nat
      BY <1>1, PrefixSelf, LenProperties DEF Log
    <2>2. UNCHANGED <<data, dirty, rdb>> /\ rdb_child' = data /\ dirty_before_bgsave' = dirty
      BY DEF BgSave
    <2> QED BY <1>0, <1>1, <2>1, <2>2 DEF SaveInv, Saved
  <1> QED BY <1>2, <1>3, <1>4, <1>5, <1>6 DEF Inv

\* The saving child has ended: what came after it was forked is not saved.
LEMMA BgSaveDoneInv == ASSUME Inv, NEW ok \in BOOLEAN, BgSaveDone(ok) PROVE Inv'
  <1> USE DEF config, output, rewrite
  <1>0. TypeOK /\ FileInv /\ AckInv /\ DiskInv /\ SaveInv
    BY DEF Inv
  <1>1. /\ events' \in 0..MaxEvents /\ data \in Log /\ rdb_child \in Log
        /\ rdb_child \notin {None, Lost} /\ dirty \in Nat /\ dirty_before_bgsave \in Nat
    BY <1>0, EventType DEF BgSaveDone, TypeOK
  <1>2. /\ dirty <= Len(data) /\ dirty_before_bgsave <= dirty /\ IsPrefix(rdb_child, data)
        /\ Len(rdb_child) + dirty = Len(data) + dirty_before_bgsave
        /\ Len(data) \in Nat /\ Len(rdb_child) \in Nat
    BY <1>0, <1>1, LenProperties DEF SaveInv, Log
  <1>3. CASE ok
    <2>1. /\ rdb' = rdb_child /\ dirty' = dirty - dirty_before_bgsave
          /\ lastbgsave_status' = "ok" /\ rdb_child' = None /\ data' = data
      BY <1>3 DEF BgSaveDone
    <2>2. dirty' \in Nat /\ dirty' <= Len(data) /\ Len(data) - dirty' = Len(rdb_child)
      BY <1>1, <1>2, <2>1
    <2>3. TypeOK'
      BY <1>0, <1>1, <2>1, <2>2 DEF TypeOK, BgSaveDone
    <2>4. SaveInv'
      <3>1. SubSeq(data, 1, Len(rdb_child)) = rdb_child
        <4>1. SubSeq(rdb_child, 1, Len(rdb_child)) = SubSeq(data, 1, Len(rdb_child))
          BY <1>2 DEF IsPrefix
        <4> QED BY <1>1, <4>1, SubSeqFull DEF Log
      <3>2. IsPrefix(rdb_child, rdb_child)
        BY <1>1, PrefixSelf
      <3>3. Saved(rdb)' = rdb_child
        BY <1>1, <2>1 DEF Saved
      <3>4. IsPrefix(SubSeq(data', 1, Len(data') - dirty'), Saved(rdb)')
        BY <2>1, <2>2, <3>1, <3>2, <3>3
      <3> QED BY <2>1, <2>2, <3>4 DEF SaveInv
    <2>5. FileInv'
      BY <1>0, FileKept DEF BgSaveDone
    <2>6. AckInv'
      BY <1>0, AckKept DEF BgSaveDone
    <2>7. DiskInv'
      BY <1>0, DiskKept DEF BgSaveDone
    <2> QED BY <2>3, <2>4, <2>5, <2>6, <2>7 DEF Inv
  <1>4. CASE ~ok
    <2>1. UNCHANGED <<rdb, dirty, data>> /\ rdb_child' = None /\ lastbgsave_status' = "err"
      BY <1>4 DEF BgSaveDone
    <2>3. TypeOK'
      BY <1>0, <1>1, <2>1 DEF TypeOK, BgSaveDone
    <2>4. SaveInv'
      BY <1>0, <2>1 DEF SaveInv, Saved
    <2>5. FileInv'
      BY <1>0, FileKept DEF BgSaveDone
    <2>6. AckInv'
      BY <1>0, AckKept DEF BgSaveDone
    <2>7. DiskInv'
      BY <1>0, DiskKept DEF BgSaveDone
    <2> QED BY <2>3, <2>4, <2>5, <2>6, <2>7 DEF Inv
  <1> QED BY <1>3, <1>4

\* What is in the file begins with what a rewrite put there.
LEMMA DiskFirst == ASSUME FileInv PROVE RewrittenFirst(Disk)
  <1>1. RewrittenFirst(<<>>)
    BY EmptySeq DEF RewrittenFirst
  <1> QED BY <1>1 DEF FileInv, Disk

\* With appendfsync always, what was acknowledged is on the disk, or nothing more than
\* what is on the disk was ever written.
LEMMA SyncedOrAll ==
    ASSUME Inv, aof_fsync = "always", conf = "on"
    PROVE  \/ Settled \subseteq ToSet(Held(Disk, Contents.synced))
           \/ Contents.synced = Len(Disk)
  <1>0. TypeOK /\ DiskInv
    BY DEF Inv
  <1>1. CASE file = None
    <2>1. Contents.synced = 0 /\ Disk = <<>>
      BY <1>1 DEF Contents, Disk
    <2> QED BY <2>1, EmptySeq
  <1>2. CASE file # None
    <2>1. Contents.synced = file.synced /\ Disk = file.items
      BY <1>2 DEF Contents, Disk
    <2> QED BY <1>0, <1>2, <2>1 DEF DiskInv
  <1> QED BY <1>1, <1>2

\* The process dies.
LEMMA ExitInv == ASSUME Inv, Exit PROVE Inv'
  <1>0. TypeOK /\ FileInv
    BY DEF Inv
  <1>1. events' \in 0..MaxEvents /\ rdb \in Log \cup {None}
    BY <1>0, EventType DEF Exit, TypeOK
  <1>2. /\ Disk \in Seq(Content) /\ Contents.items = Disk
        /\ Contents.synced \in 0..Len(Disk)
    BY <1>0, DiskType
  <1>3. Start(Disk, Contents.synced, rdb)
    BY <1>2 DEF Exit
  <1>4. RewrittenFirst(Disk)
    BY <1>0, DiskFirst
  <1>5. aof_fsync = "always" /\ conf = "on"
          => Settled \subseteq ToSet(Held(Disk, Contents.synced)) \/ Contents.synced = Len(Disk)
    BY SyncedOrAll
  <1> QED BY <1>1, <1>2, <1>3, <1>4, <1>5, StartKeeps

\* The machine dies.
LEMMA PowerLossInv == ASSUME Inv, PowerLoss PROVE Inv'
  <1>0. TypeOK /\ FileInv
    BY DEF Inv
  <1>1. events' \in 0..MaxEvents /\ rdb \in Log \cup {None}
    BY <1>0, EventType DEF PowerLoss, TypeOK
  <1>2. /\ Disk \in Seq(Content) /\ Contents.items = Disk /\ Len(Disk) \in Nat
        /\ Contents.synced \in Nat
    BY <1>0, DiskType
  <1>3. PICK k \in Contents.synced..Len(Contents.items) :
           Start(SubSeq(Contents.items, 1, k), k, rdb)
    BY DEF PowerLoss
  <1>4. k \in 0..Len(Disk) /\ k \in 0..k
    BY <1>2
  <1>5. PICK u \in Seq(Content) : u = SubSeq(Disk, 1, k) /\ Len(u) = k /\ RewrittenFirst(u)
    <2>1. RewrittenFirst(Disk)
      BY <1>0, DiskFirst
    <2> QED BY <1>2, <1>4, <2>1, FirstItems
  <1>6. Start(u, k, rdb)
    BY <1>2, <1>3, <1>5
  <1> QED BY <1>1, <1>4, <1>5, <1>6, StartKeeps

\* SHUTDOWN.
LEMMA ShutdownInv == ASSUME Inv, NEW save \in BOOLEAN, Shutdown(save) PROVE Inv'
  <1>0. TypeOK /\ FileInv
    BY DEF Inv
  <1>1. events' \in 0..MaxEvents
    BY <1>0, EventType DEF Shutdown
  <1>2. /\ Disk \in Seq(Content) /\ Contents.items = Disk /\ Len(Disk) \in Nat
        /\ Contents.synced \in 0..Len(Disk)
    BY <1>0, DiskType
  <1>3. PICK snapshot \in Log \cup {None} : snapshot = IF save THEN data ELSE rdb
    BY <1>0 DEF TypeOK
  <1>4. PICK n \in 0..Len(Disk) :
           n = IF aof_state = "off" THEN Contents.synced ELSE Len(Disk)
    <2>1. Len(Disk) \in 0..Len(Disk)
      BY <1>2
    <2> QED BY <1>2, <2>1
  <1>5. Start(Disk, n, snapshot)
    BY <1>2, <1>3, <1>4 DEF Shutdown
  <1>6. aof_fsync = "always" /\ conf = "on"
          => Settled \subseteq ToSet(Held(Disk, n)) \/ n = Len(Disk)
    BY <1>4, SyncedOrAll
  <1>7. RewrittenFirst(Disk)
    BY <1>0, DiskFirst
  <1> QED BY <1>1, <1>2, <1>5, <1>6, <1>7, StartKeeps

\* CONFIG SET appendonly yes.
LEMMA StartAppendOnlyInv == ASSUME Inv, StartAppendOnly PROVE Inv'
  <1> USE DEF config, saving
  <1>0. TypeOK /\ FileInv /\ AckInv /\ DiskInv /\ SaveInv
    BY DEF Inv
  <1>1. /\ events' \in 0..MaxEvents /\ aof_state = "off" /\ due' = FALSE
        /\ UNCHANGED <<data, config, aof_current_size, aof_buf, aof_last_write_status,
                       aof_flush_postponed_start, fsyncs, aof_rewrite_buf, saving,
                       replies, turn, acked, writes>>
    BY <1>0, EventType DEF StartAppendOnly
  <1>2. /\ file' \in File /\ file' # None /\ file'.synced <= Len(file'.items)
        /\ RewrittenFirst(file'.items)
        /\ file = None \/ file' = file
        /\ file = None => file'.synced = Len(file'.items)
    <2>1. CASE file = None
      <3>1. file' = [items |-> <<>>, synced |-> 0]
        BY <2>1 DEF StartAppendOnly
      <3>2. <<>> \in Seq(Content) /\ Len(<<>>) = 0 /\ RewrittenFirst(<<>>)
        BY EmptySeq DEF RewrittenFirst
      <3>3. file'.items = <<>> /\ file'.synced = 0
        BY <3>1
      <3>4. file' \in File /\ file' # None
        BY <3>1, <3>2, FileType
      <3> QED BY <2>1, <3>2, <3>3, <3>4
    <2>2. CASE file # None
      <3>1. file' = file
        BY <2>2 DEF StartAppendOnly
      <3> QED BY <1>0, <2>2, <3>1 DEF TypeOK, FileInv
    <2> QED BY <2>1, <2>2
  <1>3. AckInv' /\ DiskInv'
    <2>1. aof_state' # "on"
      BY <1>1 DEF StartAppendOnly
    <2> QED BY <1>0, <1>1, <1>2, <2>1 DEF AckInv, DiskInv
  <1>4. SaveInv'
    BY <1>0, <1>1, SaveKept
  <1>5. CASE aof_child = None
    <2>1. Fork /\ aof_state' = "wait" /\ aof_fd' = "open"
      BY <1>5 DEF StartAppendOnly
    <2>2. TypeOK'
      <3>1. /\ aof_child' \in Log \cup {None} /\ (aof_child' = None => aof_child = None)
            /\ aof_rewrite_scheduled' \in BOOLEAN /\ aof_selected_db' \in DB \cup {None}
        BY <1>0, <2>1, ForkType
      <3>2. aof_rewrite_buf' \in Seq(Item) /\ (aof_child' = None => aof_rewrite_buf' = <<>>)
        BY <1>0, <1>1, <3>1, ChildType
      <3> QED BY <1>0, <1>1, <1>2, <2>1, <3>1, <3>2 DEF TypeOK
    <2>3. FileInv'
      BY <1>0, <1>1, <1>2, <1>5, <2>1, ForkFile
    <2> QED BY <1>3, <1>4, <2>2, <2>3 DEF Inv
  <1>6. CASE aof_child # None
    <2>1. /\ aof_fd' = "stale"
          /\ UNCHANGED <<aof_state, aof_child, aof_rewrite_scheduled, aof_selected_db>>
      BY <1>6 DEF StartAppendOnly
    <2>2. TypeOK'
      <3>1. /\ aof_child' \in Log \cup {None} /\ aof_rewrite_scheduled' \in BOOLEAN
            /\ aof_selected_db' \in DB \cup {None}
            /\ aof_rewrite_buf' \in Seq(Item) /\ (aof_child' = None => aof_rewrite_buf' = <<>>)
        BY <1>0, <1>1, <2>1 DEF TypeOK
      <3>2. aof_state' = "off"
        BY <1>1, <2>1
      <3>3. aof_fd' \in {"none", "open", "stale"} /\ due' \in BOOLEAN
        BY <1>1, <2>1
      <3> QED BY <1>0, <1>1, <1>2, <3>1, <3>2, <3>3 DEF TypeOK
    <2>3. FileInv'
      BY <1>0, <1>1, <1>2, <2>1 DEF FileInv
    <2> QED BY <1>3, <1>4, <2>2, <2>3 DEF Inv
  <1> QED BY <1>5, <1>6

\* The jobs of a file that was closed.
LEMMA FormerFacts ==
    ASSUME NEW jobs \in Seq({"aof", "former"})
    PROVE  Former(jobs) \in Seq({"aof", "former"}) /\ "aof" \notin ToSet(Former(jobs))
  <1>1. Len(jobs) \in Nat /\ DOMAIN jobs = 1..Len(jobs)
    BY LenProperties
  <1>2. Former(jobs) = [i \in 1..Len(jobs) |-> "former"]
    BY <1>1 DEF Former
  <1>3. Former(jobs) \in Seq({"aof", "former"})
    BY <1>1, <1>2
  <1>4. "aof" \notin ToSet(Former(jobs))
    BY <1>2 DEF ToSet
  <1> QED BY <1>3, <1>4

\* The saving child may be reaped with the rewriting one, its snapshot in place or not.
LEMMA StopFinds ==
    ASSUME StopAppendOnly
    PROVE  \/ rdb' = rdb /\ rdb_child' \in {rdb_child, Lost}
           \/ rdb_child \notin {None, Lost} /\ rdb' = rdb_child /\ rdb_child' = Lost
  <1> DEFINE both == IF aof_child # None /\ rdb_child \notin {None, Lost}
                       THEN {rdb, rdb_child} \X {Lost} ELSE {}
  <1>1. PICK found \in {<<rdb, rdb_child>>} \cup both :
           rdb' = found[1] /\ rdb_child' = found[2]
    BY DEF StopAppendOnly
  <1>2. CASE found = <<rdb, rdb_child>>
    BY <1>1, <1>2
  <1>3. CASE found \in both
    <2>1. rdb_child \notin {None, Lost} /\ found \in {rdb, rdb_child} \X {Lost}
      BY <1>3
    <2>2. found[1] \in {rdb, rdb_child} /\ found[2] = Lost
      BY <2>1
    <2> QED BY <1>1, <2>1, <2>2
  <1> QED BY <1>1, <1>2, <1>3

\* A saving child has at least what the last save counts.
LEMMA ChildSaves ==
    ASSUME TypeOK, SaveInv, rdb_child \notin {None, Lost}
    PROVE  /\ rdb_child \in Log /\ Saved(rdb_child) = rdb_child
           /\ IsPrefix(SubSeq(data, 1, Len(data) - dirty), rdb_child)
  <1>1. /\ rdb_child \in Log /\ data \in Log /\ dirty \in Nat
        /\ dirty_before_bgsave \in Nat /\ dirty <= Len(data)
        /\ IsPrefix(rdb_child, data) /\ Len(rdb_child) + dirty = Len(data) + dirty_before_bgsave
    BY DEF TypeOK, SaveInv
  <1>2. Len(rdb_child) \in Nat /\ Len(data) \in Nat
    BY <1>1, LenProperties DEF Log
  <1> DEFINE n == Len(data) - dirty
  <1>3. n \in 0..Len(rdb_child) /\ Len(rdb_child) <= Len(data)
    <2>1. Len(rdb_child) <= Len(data)
      BY <1>1, PrefixElements
    <2> QED BY <1>1, <1>2, <2>1
  <1>4. \A i \in 1..Len(rdb_child) : rdb_child[i] = data[i]
    BY <1>1, PrefixElements
  <1> HIDE DEF n
  <1>5. PICK t : t = SubSeq(data, 1, n)
    OBVIOUS
  <1>6. /\ t \in Log /\ Len(t) = n /\ \A i \in 1..n : t[i] = data[i]
    <2>1. \A i \in 1..n : data[i] \in DB \X Nat
      BY <1>1, <1>2, <1>3, ElementOfSeq DEF Log
    <2>2. n \in Nat
      BY <1>2, <1>3
    <2>3. /\ t \in Seq(DB \X Nat) /\ Len(t) = IF 1 <= n THEN n - 1 + 1 ELSE 0
          /\ \A i \in 1..n - 1 + 1 : t[i] = data[1 + i - 1]
      BY <1>5, <2>1, <2>2, SubSeqProperties
    <2> QED BY <2>2, <2>3 DEF Log
  <1>7. Len(t) <= Len(rdb_child) /\ \A i \in 1..Len(t) : t[i] = rdb_child[i]
    BY <1>2, <1>3, <1>4, <1>6
  <1>8. IsPrefix(t, rdb_child)
    BY <1>1, <1>6, <1>7, PrefixElements
  <1> QED BY <1>1, <1>5, <1>8 DEF n, Saved

\* CONFIG SET appendonly no.
LEMMA StopAppendOnlyInv == ASSUME Inv, StopAppendOnly PROVE Inv'
  <1> USE DEF config
  <1>0. TypeOK /\ FileInv /\ AckInv /\ DiskInv /\ SaveInv
    BY DEF Inv
  <1>1. PICK o \in Flushes(TRUE) :
          /\ ~(o.failed /\ aof_fsync = "always")
          /\ events' = events + 1
          /\ file' = [items |-> o.items, synced |-> Len(o.items)]
          /\ aof_current_size' = o.size
          /\ aof_buf' = o.buf
          /\ aof_last_write_status' = o.status
          /\ aof_flush_postponed_start' = o.postponed
          /\ due' = o.due
          /\ fsyncs' = Former(o.fsyncs)
    BY DEF StopAppendOnly
  <1>2. /\ aof_fd' = "none" /\ aof_selected_db' = None /\ aof_state' = "off"
        /\ aof_child' = None /\ aof_rewrite_buf' = <<>>
        /\ UNCHANGED <<data, config, aof_rewrite_scheduled, dirty, dirty_before_bgsave,
                       lastbgsave_status, replies, turn, acked, writes>>
    BY DEF StopAppendOnly
  <1>3. PICK k \in 0..Len(aof_buf) : Moved(o, k) /\ Promised(o, k)
    BY <1>0, FlushFacts
  <1>4. /\ Len(Disk) \in Nat /\ Len(aof_buf) \in Nat /\ k \in Nat /\ Disk \in Seq(Content)
        /\ aof_current_size \in Nat
    BY <1>0, DiskType DEF TypeOK
  <1>5. /\ SubSeq(aof_buf, 1, k) \in Seq(Item)
        /\ SubSeq(aof_buf, k + 1, Len(aof_buf)) \in Seq(Item)
        /\ k = Len(aof_buf) => SubSeq(aof_buf, k + 1, Len(aof_buf)) = <<>>
        /\ Disk \o SubSeq(aof_buf, 1, k) \in Seq(Content)
    BY <1>0, SplitBuffer
  <1>6. /\ o.items \in Seq(Content) /\ o.buf \in Seq(Item) /\ o.size \in Nat
        /\ o.status \in {"ok", "err"} /\ o.postponed \in {"no", "now", "late"}
        /\ o.due \in BOOLEAN /\ RewrittenFirst(o.items)
    <2>1. RewrittenFirst(Disk)
      BY <1>0, DiskFirst
    <2>2. RewrittenFirst(Disk \o SubSeq(aof_buf, 1, k))
      BY <1>4, <1>5, <2>1, FirstKept
    <2>3. /\ o.items = Disk \o SubSeq(aof_buf, 1, k)
          /\ o.buf = SubSeq(aof_buf, k + 1, Len(aof_buf))
          /\ o.size = aof_current_size + k
          /\ o.status \in {"ok", "err"} /\ o.postponed \in {"no", "now", "late"}
          /\ o.due \in BOOLEAN
      BY <1>3 DEF Moved
    <2>4. o.items \in Seq(Content) /\ o.buf \in Seq(Item)
      BY <1>5, <2>3
    <2>5. o.size \in Nat
      BY <1>4, <2>3
    <2>6. RewrittenFirst(o.items)
      BY <2>2, <2>3
    <2> QED BY <2>3, <2>4, <2>5, <2>6
  <1>7. /\ file' \in File /\ file' # None /\ file'.items = o.items
        /\ file'.synced = Len(o.items) /\ file'.synced <= Len(file'.items)
    <2>1. Len(o.items) \in Nat
      BY <1>6, LenProperties
    <2> QED BY <1>1, <1>6, <2>1, FileType
  <1>8. fsyncs' \in Seq({"aof", "former"})
    <2>1. o.fsyncs \in Seq({"aof", "former"})
      <3>1. <<"aof">> \in Seq({"aof", "former"})
        OBVIOUS
      <3> QED BY <1>0, <1>3, <3>1 DEF Moved, TypeOK
    <2> QED BY <1>1, <2>1, FormerFacts
  <1>9. TypeOK'
    <2>1. events' \in 0..MaxEvents
      BY <1>0, <1>1, NoneFacts DEF TypeOK, StopAppendOnly
    <2>2. /\ <<>> \in Seq(Item)
          /\ rdb_child' \in Log \cup {None, Lost} /\ rdb' \in Log \cup {None}
      <3>1. <<>> \in Seq(Item)
        OBVIOUS
      <3>2. rdb_child \in Log \cup {None, Lost} /\ rdb \in Log \cup {None}
        BY <1>0 DEF TypeOK
      <3> QED BY <3>1, <3>2, StopFinds
    <2>3. /\ aof_current_size' \in Nat /\ aof_buf' \in Seq(Item) /\ due' \in BOOLEAN
          /\ aof_last_write_status' \in {"ok", "err"}
          /\ aof_flush_postponed_start' \in {"no", "now", "late"}
      BY <1>1, <1>6
    <2> QED BY <1>0, <1>2, <1>7, <1>8, <2>1, <2>2, <2>3 DEF TypeOK
  <1>10. FileInv'
    BY <1>2, <1>6, <1>7 DEF FileInv
  <1>11. AckInv'
    BY <1>0, <1>2 DEF AckInv
  <1>12. DiskInv'
    <2>1. aof_fsync = "always" => aof_buf' = <<>>
      BY <1>1, <1>3, <1>5 DEF Moved, Promised
    <2> QED BY <1>2, <1>7, <2>1 DEF DiskInv
  <1>13. SaveInv'
    <2>1. CASE rdb' = rdb /\ rdb_child' \in {rdb_child, Lost}
      BY <1>0, <1>2, <2>1 DEF SaveInv, Saved
    <2>2. CASE rdb_child \notin {None, Lost} /\ rdb' = rdb_child /\ rdb_child' = Lost
      <3>1. Saved(rdb)' = rdb_child /\ IsPrefix(SubSeq(data, 1, Len(data) - dirty), rdb_child)
        BY <1>0, <2>2, ChildSaves DEF Saved
      <3> QED BY <1>0, <1>2, <2>2, <3>1 DEF SaveInv
    <2> QED BY <2>1, <2>2, StopFinds
  <1> QED BY <1>9, <1>10, <1>11, <1>12, <1>13 DEF Inv

\* The file that holds everything has it for a restart too.
LEMMA AllHeld ==
    ASSUME NEW a \in Seq(Content), NEW log, NEW sel, Complete(After(a), log, sel)
    PROVE  Held(a, Len(a)) = log /\ a \o <<>> = a
  <1>1. ~After(a).multi /\ After(a).log = log
    BY DEF Complete
  <1>2. Held(a, Len(a)) = After(a).log
    BY <1>1, HeldAll
  <1> QED BY <1>1, <1>2, ConcatEmptySeq

\* The rewritten file takes the place of the old one.
LEMMA RewriteDoneInv == ASSUME Inv, RewriteDone PROVE Inv'
  <1> USE DEF config, saving, ends
  <1>0. TypeOK /\ FileInv /\ AckInv /\ DiskInv /\ SaveInv
    BY DEF Inv
  <1> DEFINE new  == Rewritten(aof_child) \o aof_rewrite_buf
             used == aof_fd # "none"
             s == IF used /\ aof_fsync = "always" THEN Len(new) ELSE Len(Rewritten(aof_child))
  <1>1. aof_child \in Log /\ aof_rewrite_buf \in Seq(Item) /\ aof_child # None
    BY <1>0 DEF TypeOK, RewriteDone
  <1>2. /\ Rewritten(aof_child) \in Seq(Content) /\ aof_rewrite_buf \in Seq(Content)
        /\ Len(Rewritten(aof_child)) \in 0..1
    BY <1>1, RewrittenFacts, ItemTypes
  <1>3. /\ new \in Seq(Content) /\ RewrittenFirst(new)
        /\ Len(new) = Len(Rewritten(aof_child)) + Len(aof_rewrite_buf)
    BY <1>1, <1>2, FirstShort, FirstKept, ConcatProperties
  <1>4. Len(new) \in Nat /\ s \in Nat /\ s <= Len(new)
    <2>1. Len(aof_rewrite_buf) \in Nat
      BY <1>2, LenProperties
    <2> HIDE DEF new
    <2> QED BY <1>2, <1>3, <2>1
  <1>5. /\ file' = [items |-> new, synced |-> s]
        /\ fsyncs' = Former(fsyncs) \o (IF used /\ aof_fsync = "everysec" THEN <<"aof">>
                                                                          ELSE <<>>)
        /\ aof_fd' = IF used THEN "open" ELSE "none"
        /\ aof_selected_db' = IF used THEN None ELSE aof_selected_db
        /\ aof_current_size' = IF used THEN Len(new) ELSE aof_current_size
        /\ aof_buf' = IF used THEN <<>> ELSE aof_buf
        /\ aof_state' = IF aof_state = "wait" THEN "on" ELSE aof_state
        /\ aof_child' = None
        /\ aof_rewrite_buf' = <<>>
        /\ UNCHANGED <<data, config, aof_last_write_status, aof_flush_postponed_start,
                       due, aof_rewrite_scheduled, saving, ends>>
    BY DEF RewriteDone
  <1>6. aof_state # "off" => used
    BY <1>0 DEF TypeOK
  <1>7. ASSUME aof_state # "off"
        PROVE  Complete(After(new), data, None) /\ Held(new, Len(new)) = data
    <2>1. Complete(After(new), data, aof_selected_db)
      BY <1>0, <1>1, <1>7 DEF FileInv
    <2>2. Held(new, Len(new)) = data
      BY <1>3, <2>1, AllHeld
    <2> QED BY <2>1, <2>2 DEF Complete
  <1>8. new \o <<>> = new
    BY <1>3, ConcatEmptySeq
  <1>9. /\ file' \in File /\ file' # None /\ file'.items = new /\ file'.synced = s
    <2> HIDE DEF new, s
    <2> QED BY <1>3, <1>4, <1>5, FileType
  <1>10. <<>> \in Seq(Item) /\ <<>> \in Seq({"aof", "former"}) /\ <<"aof">> \in Seq({"aof", "former"})
    OBVIOUS
  <1>11. fsyncs' \in Seq({"aof", "former"})
    <2>1. fsyncs \in Seq({"aof", "former"})
      BY <1>0 DEF TypeOK
    <2>2. Former(fsyncs) \in Seq({"aof", "former"})
      BY <2>1, FormerFacts
    <2>3. (IF used /\ aof_fsync = "everysec" THEN <<"aof">> ELSE <<>>) \in Seq({"aof", "former"})
      BY <1>10
    <2> QED BY <1>5, <2>2, <2>3, ConcatProperties
  <1>12. aof_state = "off" => s = Len(new)
    <2>1. aof_state = "off" => aof_rewrite_buf = <<>>
      BY <1>0 DEF FileInv
    <2>2. Rewritten(aof_child) \o <<>> = Rewritten(aof_child)
      BY <1>2, ConcatEmptySeq
    <2>3. aof_state = "off" => new = Rewritten(aof_child)
      BY <2>1, <2>2
    <2> QED BY <2>3
  <1> HIDE DEF new, s, used
  <1>13. TypeOK'
    <2>1. /\ aof_fd' \in {"none", "open", "stale"}
          /\ aof_state' \in {"off", "on", "wait"}
          /\ aof_state' # "off" => aof_fd' = "open"
          /\ aof_state' = "on" => aof_current_size' = Len(file'.items)
          /\ aof_current_size' \in Nat
      BY <1>0, <1>4, <1>5, <1>6, <1>9 DEF TypeOK
    <2>2. aof_buf' \in Seq(Item) /\ aof_selected_db' \in DB \cup {None}
      BY <1>0, <1>5, <1>10 DEF TypeOK
    <2> QED BY <1>0, <1>4, <1>5, <1>9, <1>10, <1>11, <2>1, <2>2 DEF TypeOK
  <1>14. FileInv'
    <2>1. CASE aof_state = "off"
      BY <1>0, <1>3, <1>5, <1>9, <2>1 DEF FileInv
    <2>2. CASE aof_state # "off"
      <3>1. aof_buf' = <<>> /\ aof_selected_db' = None /\ aof_child' = None /\ data' = data
        BY <1>5, <1>6, <2>2
      <3>2. aof_state' # "off"
        BY <1>5, <2>2
      <3> QED BY <1>3, <1>7, <1>8, <1>9, <2>2, <3>1, <3>2 DEF FileInv
    <2> QED BY <2>1, <2>2
  <1>15. /\ Settled \subseteq ToSet(data) /\ turn \subseteq ToSet(data)
         /\ acked' \cup replies' \cup turn' \subseteq ToSet(data')
         /\ Settled' = Settled /\ turn' = turn
    BY <1>0, <1>5 DEF AckInv, Settled
  <1>16. AckInv'
    <2>1. aof_state' = "on" => aof_state # "off"
      BY <1>5
    <2> QED BY <1>5, <1>7, <1>9, <1>15, <2>1 DEF AckInv
  <1>17. DiskInv'
    <2> SUFFICES ASSUME aof_fsync = "always"
                 PROVE  /\ aof_state' # "on" => aof_buf' = <<>> /\ s = Len(new)
                        /\ aof_state' = "on" => /\ Settled \subseteq ToSet(Held(new, s))
                                                /\ turn \subseteq ToSet(Held(new, s))
      BY <1>5, <1>9, <1>15 DEF DiskInv
    <2>1. CASE aof_state = "off"
      BY <1>0, <1>5, <1>12, <2>1 DEF DiskInv
    <2>2. CASE aof_state # "off"
      <3>1. s = Len(new)
        BY <1>6, <2>2 DEF s
      <3>2. aof_buf' = <<>>
        BY <1>5, <1>6, <2>2
      <3> QED BY <1>7, <1>15, <2>2, <3>1, <3>2
    <2> QED BY <2>1, <2>2
  <1>18. SaveInv'
    BY <1>0, <1>5, SaveKept
  <1> QED BY <1>13, <1>14, <1>16, <1>17, <1>18 DEF Inv

\* The buffer is written and the turn is over.
LEMMA BeforeSleepInv == ASSUME Inv, BeforeSleep PROVE Inv'
  <1> USE DEF config, rewrite, saving
  <1>0. TypeOK /\ FileInv /\ AckInv /\ DiskInv /\ SaveInv
    BY DEF Inv
  <1>1. PICK o \in Flushes(FALSE) :
          IF o.failed /\ aof_fsync = "always"
            THEN /\ Event("write")
                 /\ Start(o.items, o.synced, rdb)
            ELSE /\ Flush(o)
                 /\ due' = o.due
                 /\ fsyncs' = o.fsyncs
                 /\ turn' = {}
                 /\ UNCHANGED <<data, config, aof_state, aof_fd, aof_selected_db, rewrite,
                                saving, replies, acked, writes>>
    BY DEF BeforeSleep
  <1>2. PICK k \in 0..Len(aof_buf) : Moved(o, k) /\ Promised(o, k)
    BY <1>0, FlushFacts
  <1>3. /\ Len(Disk) \in Nat /\ Len(aof_buf) \in Nat /\ k \in Nat /\ Disk \in Seq(Content)
        /\ aof_current_size \in Nat /\ aof_buf \in Seq(Content)
        /\ Flushed.synced = Contents.synced
        /\ Contents.synced \in Nat /\ Contents.synced <= Len(Disk)
    BY <1>0, DiskType DEF TypeOK
  <1>4. /\ SubSeq(aof_buf, 1, k) \in Seq(Item)
        /\ SubSeq(aof_buf, k + 1, Len(aof_buf)) \in Seq(Item)
        /\ (Disk \o SubSeq(aof_buf, 1, k)) \o SubSeq(aof_buf, k + 1, Len(aof_buf))
             = Disk \o aof_buf
        /\ k = Len(aof_buf) => SubSeq(aof_buf, k + 1, Len(aof_buf)) = <<>>
        /\ Disk \o SubSeq(aof_buf, 1, k) \in Seq(Content)
        /\ Len(Disk \o SubSeq(aof_buf, 1, k)) = Len(Disk) + k
    BY <1>0, SplitBuffer
  <1>5. /\ o.items \in Seq(Content) /\ o.buf \in Seq(Item) /\ o.size \in Nat
        /\ o.items \o o.buf = Disk \o aof_buf /\ o.size = aof_current_size + k
        /\ Len(o.items) = Len(Disk) + k /\ o.items = Disk \o SubSeq(aof_buf, 1, k)
        /\ k = Len(aof_buf) => o.buf = <<>>
    <2>1. /\ o.items = Disk \o SubSeq(aof_buf, 1, k)
          /\ o.buf = SubSeq(aof_buf, k + 1, Len(aof_buf))
          /\ o.size = aof_current_size + k
      BY <1>2 DEF Moved
    <2>2. aof_current_size + k \in Nat
      BY <1>3
    <2>3. o.items \o o.buf = Disk \o aof_buf /\ Len(o.items) = Len(Disk) + k
      BY <1>4, <2>1
    <2> QED BY <1>4, <2>1, <2>2, <2>3
  <1>6. /\ o.synced \in Nat /\ o.synced <= Len(o.items)
        /\ o.synced = Contents.synced \/ o.synced = Len(o.items)
    BY <1>2, <1>3, <1>5 DEF Moved
  <1>7. RewrittenFirst(o.items)
    <2>1. RewrittenFirst(Disk)
      BY <1>0, DiskFirst
    <2> QED BY <1>3, <1>4, <1>5, <2>1, FirstKept
  <1>8. file # None => Disk = file.items /\ Contents.synced = file.synced
    BY DEF Disk, Contents
  <1>9. CASE o.failed /\ aof_fsync = "always"
    \* The process exits.
    <2>1. events' \in 0..MaxEvents /\ rdb \in Log \cup {None} /\ Start(o.items, o.synced, rdb)
      BY <1>0, <1>1, <1>9, EventType DEF TypeOK
    <2>2. o.synced \in 0..Len(o.items)
      BY <1>3, <1>5, <1>6
    <2>3. aof_state = "on" /\ o.synced = Contents.synced
      BY <1>0, <1>2, <1>3, <1>9 DEF Promised, DiskInv
    <2>4. Settled \subseteq ToSet(Held(o.items, o.synced))
      <3>1. file # None
        BY <1>0, <2>3 DEF TypeOK
      <3>2. Settled \subseteq ToSet(Held(Disk, Contents.synced))
        BY <1>0, <1>8, <1>9, <2>3, <3>1 DEF DiskInv
      <3>3. PICK b \in Seq(Content) : b = SubSeq(aof_buf, 1, k)
        BY <1>4, ItemTypes
      <3>4. PICK x \in Seq(Content) : x = Disk
        BY <1>3
      <3>5. Contents.synced \in 0..Len(x) /\ o.items = x \o b
        BY <1>3, <1>5, <3>3, <3>4
      <3>6. Held(o.items, Contents.synced) = Held(Disk, Contents.synced)
        BY <3>4, <3>5, HeldBefore
      <3> QED BY <2>3, <3>2, <3>6
    <2> QED BY <1>5, <1>7, <2>1, <2>2, <2>4, StartKeeps
  <1>10. CASE ~(o.failed /\ aof_fsync = "always")
    <2>1. /\ Flush(o)
          /\ due' = o.due
          /\ fsyncs' = o.fsyncs
          /\ turn' = {}
          /\ UNCHANGED <<data, config, aof_state, aof_fd, aof_selected_db, rewrite,
                         saving, replies, acked, writes>>
      BY <1>1, <1>10
    <2>2. /\ file' = IF file = None THEN None ELSE [items |-> o.items, synced |-> o.synced]
          /\ aof_current_size' = o.size
          /\ aof_buf' = o.buf
          /\ aof_last_write_status' = o.status
          /\ aof_flush_postponed_start' = o.postponed
      BY <2>1 DEF Flush
    <2>3. events' \in 0..MaxEvents
      <3>1. CASE o.failed /\ aof_fd = "open"
        BY <1>0, <2>1, <3>1, EventType DEF Flush
      <3>2. CASE ~(o.failed /\ aof_fd = "open")
        BY <1>0, <2>1, <3>2 DEF Flush, TypeOK
      <3> QED BY <3>1, <3>2
    <2>4. /\ file' # None <=> file # None
          /\ file' \in File \cup {None}
          /\ file # None => file'.items = o.items /\ file'.synced = o.synced
      <3>1. [items |-> o.items, synced |-> o.synced] \in File
            /\ [items |-> o.items, synced |-> o.synced] # None
        BY <1>5, <1>6, FileType
      <3>2. CASE file = None
        BY <2>2, <3>2
      <3>3. CASE file # None
        BY <2>2, <3>1, <3>3
      <3> QED BY <3>2, <3>3
    <2>5. fsyncs' \in Seq({"aof", "former"}) /\ ("aof" \in ToSet(fsyncs') => file # None)
      <3>1. CASE o.fsyncs = fsyncs
        BY <1>0, <2>1, <3>1 DEF TypeOK
      <3>2. CASE o.fsyncs = <<"aof">> /\ aof_fd = "open"
        <4>1. <<"aof">> \in Seq({"aof", "former"})
          OBVIOUS
        <4> QED BY <1>0, <2>1, <3>2, <4>1 DEF TypeOK
      <3> QED BY <1>2, <3>1, <3>2 DEF Moved
    <2>6. TypeOK'
      <3>1. /\ aof_last_write_status' \in {"ok", "err"}
            /\ aof_flush_postponed_start' \in {"no", "now", "late"}
            /\ due' \in BOOLEAN
        BY <1>2, <2>1, <2>2 DEF Moved
      <3>2. aof_state' = "on" => aof_current_size' = Len(file'.items)
        <4> SUFFICES ASSUME aof_state = "on"
                     PROVE  aof_current_size' = Len(file'.items)
          BY <2>1
        <4>1. file # None /\ aof_current_size = Len(file.items)
          BY <1>0 DEF TypeOK
        <4> QED BY <1>3, <1>5, <1>8, <2>2, <2>4, <4>1
      <3>3. file' # None => file'.synced <= Len(file'.items)
        BY <1>6, <2>4
      <3>4. aof_current_size' \in Nat /\ aof_buf' \in Seq(Item)
        BY <1>5, <2>2
      <3>5. replies' \cup turn' \cup acked' \subseteq DB \X (1..writes')
        BY <1>0, <2>1 DEF TypeOK
      <3> QED BY <1>0, <2>1, <2>3, <2>4, <2>5, <3>1, <3>2, <3>3, <3>4, <3>5 DEF TypeOK
    <2>7. aof_state = "on" => Complete(After(o.items \o o.buf), data, aof_selected_db)
      BY <1>0, <1>5, <1>8 DEF FileInv, TypeOK
    <2>8. FileInv'
      <3>1. aof_state = "on" => file # None
        BY <1>0 DEF TypeOK
      <3> QED BY <1>0, <1>7, <2>1, <2>2, <2>4, <2>7, <3>1 DEF FileInv
    <2>9. ASSUME aof_state = "on", k = Len(aof_buf)
          PROVE  Held(o.items, Len(o.items)) = data
      <3>1. o.items \o o.buf = o.items
        BY <1>5, <2>9, ConcatEmptySeq
      <3>2. Complete(After(o.items), data, aof_selected_db)
        BY <2>7, <2>9, <3>1
      <3> QED BY <1>5, <3>2, AllHeld
    <2>10. /\ acked' \cup replies' \cup turn' \subseteq ToSet(data)
           /\ Settled' \subseteq ToSet(data) /\ Settled' \subseteq Settled \cup turn
      BY <1>0, <2>1 DEF AckInv, Settled
    <2>11. AckInv'
      <3>1. ASSUME aof_state = "on", o.postponed = "no", o.status = "ok"
            PROVE  Settled' \subseteq ToSet(Held(o.items, Len(o.items)))
        BY <1>2, <2>9, <2>10, <3>1 DEF Promised
      <3>2. aof_state = "on" => file # None
        BY <1>0 DEF TypeOK
      <3> QED BY <2>1, <2>2, <2>4, <2>10, <3>1, <3>2 DEF AckInv
    <2>12. DiskInv'
      <3> SUFFICES ASSUME aof_fsync = "always"
                   PROVE  /\ aof_buf' = <<>>
                          /\ aof_state # "on" /\ conf = "on" /\ file # None
                                => o.synced = Len(o.items)
                          /\ aof_state = "on" => Settled' \subseteq ToSet(Held(o.items, o.synced))
        <4>1. aof_state = "on" => file # None
          BY <1>0 DEF TypeOK
        <4> QED BY <2>1, <2>4, <4>1 DEF DiskInv
      <3>1. k = Len(aof_buf) /\ (aof_buf = <<>> \/ o.synced = Len(o.items))
        BY <1>2, <1>10 DEF Promised
      <3>2. aof_buf' = <<>>
        BY <1>5, <2>2, <3>1
      <3>3. CASE o.synced = Len(o.items)
        BY <2>9, <2>10, <3>1, <3>2, <3>3
      <3>4. CASE o.synced # Len(o.items)
        <4>1. aof_buf = <<>> /\ o.synced = Contents.synced /\ k = 0
          BY <1>6, <3>1, <3>4, EmptySeq
        <4>2. o.items = Disk
          <5>1. SubSeq(aof_buf, 1, 0) = <<>>
            BY SubSeqEmpty
          <5> QED BY <1>3, <1>5, <4>1, <5>1, ConcatEmptySeq
        <4>3. aof_state # "on" /\ conf = "on" /\ file # None => o.synced = Len(o.items)
          BY <1>0, <1>8, <4>1, <4>2 DEF DiskInv
        <4>4. aof_state = "on" => Settled' \subseteq ToSet(Held(o.items, o.synced))
          <5>1. aof_state = "on" => file # None
            BY <1>0 DEF TypeOK
          <5> QED BY <1>0, <1>8, <2>10, <4>1, <4>2, <5>1 DEF DiskInv
        <4> QED BY <3>2, <4>3, <4>4
      <3> QED BY <3>3, <3>4
    <2>13. SaveInv'
      BY <1>0, <2>1, SaveKept
    <2> QED BY <2>6, <2>8, <2>11, <2>12, <2>13 DEF Inv
  <1> QED BY <1>9, <1>10

\* Replies leave, in their turn or later.
LEMMA SendRepliesInv == ASSUME Inv, SendReplies PROVE Inv'
  <1> USE DEF config, output, rewrite, saving
  <1>0. TypeOK /\ FileInv /\ AckInv /\ DiskInv /\ SaveInv
    BY DEF Inv
  <1>1. PICK sent \in SUBSET replies :
           /\ replies' = replies \ sent /\ acked' = acked \cup sent
           /\ UNCHANGED <<data, config, aof_state, file, aof_fd, aof_current_size, output,
                          aof_selected_db, rewrite, saving, turn, writes, events>>
    BY DEF SendReplies
  <1>2. Settled' = Settled /\ acked' \cup replies' = acked \cup replies
    BY <1>1 DEF Settled
  <1>3. TypeOK'
    <2>1. replies' \cup turn' \cup acked' \subseteq DB \X (1..writes')
      BY <1>0, <1>1, <1>2 DEF TypeOK
    <2> QED BY <1>0, <1>1, <2>1 DEF TypeOK
  <1>4. FileInv'
    BY <1>0, <1>1, FileKept
  <1>5. AckInv'
    BY <1>0, <1>1, <1>2 DEF AckInv
  <1>6. DiskInv'
    BY <1>0, <1>1, <1>2 DEF DiskInv
  <1>7. SaveInv'
    BY <1>0, <1>1, SaveKept
  <1> QED BY <1>3, <1>4, <1>5, <1>6, <1>7 DEF Inv

-----------------------------------------------------------------------------
(* The theorems. *)

\* The inductive invariant: the file and its buffers hold all there is, acknowledged writes
\* are where the policy promises them, what is not counted is saved.
THEOREM Invariance == Spec => []Inv
  <1>1. Init => Inv
    BY InitInv
  <1>2. Inv /\ [Next]_vars => Inv'
    <2> SUFFICES ASSUME Inv, [Next]_vars PROVE Inv'
      OBVIOUS
    <2>1. ASSUME NEW d \in DB, NEW n \in 1..2, Execute(d, n) PROVE Inv'
      BY <2>1, ExecuteInv
    <2>2. CASE BeforeSleep
      BY <2>2, BeforeSleepInv
    <2>3. CASE Tick
      BY <2>3, TickInv
    <2>4. CASE BioFsync
      BY <2>4, BioFsyncInv
    <2>5. CASE BgRewriteAof
      BY <2>5, BgRewriteAofInv
    <2>6. CASE ScheduledRewrite
      BY <2>6, ScheduledRewriteInv
    <2>7. CASE RewriteDone
      BY <2>7, RewriteDoneInv
    <2>8. CASE RewriteFailed
      BY <2>8, RewriteFailedInv
    <2>9. CASE StartAppendOnly
      BY <2>9, StartAppendOnlyInv
    <2>10. CASE StopAppendOnly
      BY <2>10, StopAppendOnlyInv
    <2>11. CASE Save
      BY <2>11, SaveActionInv
    <2>12. CASE BgSave
      BY <2>12, BgSaveInv
    <2>13. ASSUME NEW ok \in BOOLEAN, BgSaveDone(ok) PROVE Inv'
      BY <2>13, BgSaveDoneInv
    <2>14. CASE Exit
      BY <2>14, ExitInv
    <2>15. CASE PowerLoss
      BY <2>15, PowerLossInv
    <2>16. ASSUME NEW save \in BOOLEAN, Shutdown(save) PROVE Inv'
      BY <2>16, ShutdownInv
    <2>17. CASE UNCHANGED vars
      BY <2>17, StutterInv
    <2>18. CASE SendReplies
      BY <2>18, SendRepliesInv
    <2> QED BY <2>1, <2>2, <2>3, <2>4, <2>5, <2>6, <2>7, <2>8, <2>9, <2>10, <2>11, <2>12,
               <2>13, <2>14, <2>15, <2>16, <2>17, <2>18 DEF Next
  <1> QED BY <1>1, <1>2, PTL DEF Spec

\* Recovered is Held of the file there is.
LEMMA RecoveredHeld ==
    ASSUME Inv, file # None
    PROVE  /\ file.items \in Seq(Content) /\ RewrittenFirst(file.items)
           /\ file.synced \in 0..Len(file.items) /\ Len(file.items) \in Nat
           /\ \A k \in 0..Len(file.items) : Recovered(k) = Held(file.items, k)
  <1>1. file \in File /\ file.synced <= Len(file.items) /\ RewrittenFirst(file.items)
    BY DEF Inv, TypeOK, FileInv
  <1>2. file.items \in Seq(Content) /\ file.synced \in Nat /\ Len(file.items) \in Nat
    <2>1. file.items \in Seq(Content) /\ file.synced \in Nat
      BY <1>1 DEF File, Content
    <2> QED BY <2>1, LenProperties
  <1>3. ASSUME NEW k \in 0..Len(file.items)
        PROVE  Recovered(k) = Held(file.items, k)
    BY <1>2, HeldType DEF Recovered
  <1>4. file.synced \in 0..Len(file.items)
    BY <1>1, <1>2
  <1> QED BY <1>1, <1>2, <1>3, <1>4

\* Every variable keeps its type, a server that appends has its file open and knows its
\* length (startAppendOnly, stopAppendOnly, backgroundRewriteDoneHandler).
THEOREM TypeCorrect == Spec => []TypeOK
  <1>1. Inv => TypeOK
    BY DEF Inv
  <1> QED BY <1>1, Invariance, PTL

\* Wherever the process or the machine dies, what redis-check-aof leaves of the file
\* replays to a beginning of what the server had executed (feedAppendOnlyFile with its
\* SELECTs and transactions, short writes, a rewrite in between).
THEOREM PrefixFound == Spec => []RestartFindsPrefix
  <1>1. Inv => RestartFindsPrefix
    <2> SUFFICES ASSUME Inv, aof_state = "on", NEW k \in file.synced..Len(file.items)
                 PROVE  IsPrefix(Recovered(k), data)
      BY DEF RestartFindsPrefix
    <2>1. TypeOK /\ FileInv /\ file # None
      BY DEF Inv, TypeOK
    <2>2. k \in 0..Len(file.items) /\ Recovered(k) = Held(file.items, k)
          /\ file.items \in Seq(Content) /\ RewrittenFirst(file.items)
      <3>1. k \in 0..Len(file.items)
        BY <2>1, RecoveredHeld
      <3> QED BY <2>1, <3>1, RecoveredHeld
    <2>3. aof_buf \in Seq(Item) /\ aof_buf \in Seq(Content)
      BY <2>1, ItemTypes DEF TypeOK
    <2>4. RewrittenFirst(file.items \o aof_buf)
      BY <2>2, <2>3, FirstKept
    <2>5. IsPrefix(Held(file.items, k), After(file.items \o aof_buf).log)
      BY <2>2, <2>3, <2>4, HeldOfAll
    <2>6. After(file.items \o aof_buf).log = data
      BY <2>1 DEF FileInv, Complete
    <2> QED BY <2>2, <2>5, <2>6
  <1> QED BY <1>1, Invariance, PTL

\* The file and the buffer together replay to the server's data (flushAppendOnlyFile,
\* backgroundRewriteDoneHandler).
THEOREM AllThere == Spec => []NothingMissing
  <1>1. Inv => NothingMissing
    <2> SUFFICES ASSUME Inv, aof_state = "on" PROVE Loaded(file.items \o aof_buf) = data
      BY DEF NothingMissing
    <2>1. After(file.items \o aof_buf).log = data
      BY DEF Inv, FileInv, Complete
    <2> QED BY <2>1 DEF After, Loaded
  <1> QED BY <1>1, Invariance, PTL

\* Unless a flush was postponed or failed, the end of the process loses no write whose
\* reply has left, in whatever turn, and whose own turn is over (beforeSleep writes the
\* file, sendReplyToClient may answer before or after).
THEOREM AckedFound == Spec => []AckedInFile
  <1>1. Inv => AckedInFile
    <2> SUFFICES ASSUME Inv, aof_state = "on", aof_flush_postponed_start = "no",
                        aof_last_write_status = "ok"
                 PROVE  Answered \subseteq ToSet(Recovered(Len(file.items)))
      BY DEF AckedInFile
    <2>1. file # None
      BY DEF Inv, TypeOK
    <2>2. Len(file.items) \in 0..Len(file.items)
      BY <2>1, RecoveredHeld
    <2>3. Recovered(Len(file.items)) = Held(file.items, Len(file.items))
      BY <2>1, <2>2, RecoveredHeld
    <2> QED BY <2>3 DEF Inv, AckInv, Answered, Settled
  <1> QED BY <1>1, Invariance, PTL

\* With appendfsync always the end of the machine loses none of these either
\* (flushAppendOnlyFile, and the process that exits when it cannot write).
THEOREM AckedSynced == Spec => []AckedOnDisk
  <1>1. Inv => AckedOnDisk
    <2> SUFFICES ASSUME Inv, aof_state = "on", aof_fsync = "always"
                 PROVE  Answered \subseteq ToSet(Recovered(file.synced))
      BY DEF AckedOnDisk
    <2>1. file # None
      BY DEF Inv, TypeOK
    <2>2. Recovered(file.synced) = Held(file.items, file.synced)
      BY <2>1, RecoveredHeld
    <2> QED BY <2>2 DEF Inv, DiskInv, Answered, Settled
  <1> QED BY <1>1, Invariance, PTL

\* What dirty does not count is in dump.rdb (rdbSave, backgroundSaveDoneHandler).
THEOREM SavedUncounted == Spec => []UncountedIsSaved
  <1>1. Inv => UncountedIsSaved
    BY DEF Inv, SaveInv, Saved, UncountedIsSaved
  <1> QED BY <1>1, Invariance, PTL

-----------------------------------------------------------------------------
(* The server is a durable log. *)

\* Without an AOF: the snapshot is a beginning of what the server stores, and of what the
\* child will put in its place.
SnapInv ==
    conf = "off" =>
       /\ IsPrefix(Saved(rdb), data)
       /\ rdb_child \notin {None, Lost} => IsPrefix(Saved(rdb), rdb_child)

\* The snapshot of a server without an AOF.
LEMMA SnapshotIsSaved ==
    ASSUME TypeOK
    PROVE  /\ conf \in {"on", "off"} /\ Saved(rdb) \in Log
           /\ conf = "off" => Snapshot = Saved(rdb) /\ Mode = "snapshot"
           /\ conf = "on" => Snapshot = <<>> /\ Mode \in {"idle", "append", "synced"}
  <1>1. conf \in {"on", "off"} /\ rdb \in Log \cup {None}
    BY NoneFacts DEF TypeOK
  <1>2. conf = "off" => Snapshot = Saved(rdb) /\ Mode = "snapshot"
    BY DEF Snapshot, Saved, Mode
  <1>3. conf = "on" => Snapshot = <<>> /\ Mode \in {"idle", "append", "synced"}
    BY DEF Snapshot, Mode
  <1> QED BY <1>1, <1>2, <1>3, SavedType

\* The words of the abstract log are those of the server.
LEMMA SameWords ==
    /\ \A s, t : Durable!IsPrefix(s, t) <=> IsPrefix(s, t)
    /\ \A s : Durable!ToSet(s) = ToSet(s)
  BY DEF Durable!IsPrefix, IsPrefix, Durable!ToSet, ToSet

\* A step that leaves the writes, the answers, the snapshot and the mode alone.
LEMMA SnapKept ==
    ASSUME SnapInv, UNCHANGED <<conf, data, rdb>>, rdb_child' \in {rdb_child, None, Lost}
    PROVE  SnapInv'
  BY DEF SnapInv, Saved

\* A restart without an AOF stores what the snapshot has.
LEMMA SnapStarts ==
    ASSUME TypeOK, NEW items, NEW onDisk, NEW snapshot \in Log \cup {None},
           Start(items, onDisk, snapshot)
    PROVE  SnapInv'
  <1> SUFFICES ASSUME conf' = "off"
               PROVE  IsPrefix(Saved(snapshot), data') /\ rdb' = snapshot /\ rdb_child' = None
    BY DEF SnapInv, Saved
  <1>1. conf = "off"
    BY DEF Start, config
  <1>2. data' = Saved(snapshot) /\ rdb' = snapshot /\ rdb_child' = None
    BY <1>1 DEF Start, Saved
  <1>3. PICK log \in Log : log = Saved(snapshot)
    BY SavedType
  <1> QED BY <1>2, <1>3, PrefixSelf

\* Every step keeps the snapshot a beginning.
LEMMA SnapStep == ASSUME Inv, SnapInv, [Next]_vars PROVE SnapInv'
  <1> USE DEF config, saving
  <1>0. TypeOK /\ SaveInv /\ data \in Log /\ rdb \in Log \cup {None}
    BY DEF Inv, TypeOK
  <1>1. Saved(rdb) \in Log
    BY <1>0, SavedType
  <1>2. ASSUME NEW d \in DB, NEW n \in 1..2, Execute(d, n) PROVE SnapInv'
    <2>1. PICK v \in Log : data' = data \o v
      <3>1. writes \in Nat
        BY <1>0, NoneFacts DEF TypeOK
      <3>2. PICK v : v = [i \in 1..n |-> <<d, writes + i>>]
        OBVIOUS
      <3>3. v \in Log
        BY <3>1, <3>2, WritesType
      <3>4. data' = data \o v
        BY <1>2, <3>2 DEF Execute
      <3> QED BY <3>3, <3>4
    <2>2. PICK log \in Log : log = data' /\ IsPrefix(data, log)
      BY <1>0, <2>1, PrefixConcat
    <2>3. UNCHANGED <<conf, rdb, rdb_child>>
      BY <1>2 DEF Execute
    <2>4. IsPrefix(Saved(rdb), data) => IsPrefix(Saved(rdb), log)
      BY <1>0, <1>1, <2>2, PrefixTrans
    <2> QED BY <2>2, <2>3, <2>4 DEF SnapInv, Saved
  <1>3. CASE BeforeSleep
    <2>1. PICK o \in Flushes(FALSE) :
            \/ Start(o.items, o.synced, rdb)
            \/ UNCHANGED <<data, config, saving>>
      BY <1>3 DEF BeforeSleep
    <2>2. CASE Start(o.items, o.synced, rdb)
      BY <1>0, <2>2, SnapStarts
    <2>3. CASE UNCHANGED <<data, config, saving>>
      BY <2>3, SnapKept
    <2> QED BY <2>1, <2>2, <2>3
  <1>4. CASE SendReplies \/ Tick \/ BioFsync \/ BgRewriteAof \/ ScheduledRewrite
             \/ RewriteDone \/ RewriteFailed \/ StartAppendOnly
    <2>1. UNCHANGED <<conf, data, rdb, rdb_child>>
      BY <1>4 DEF SendReplies, Tick, BioFsync, BgRewriteAof, ScheduledRewrite, RewriteDone, RewriteFailed,
                  StartAppendOnly
    <2> QED BY <2>1, SnapKept
  <1>5. CASE StopAppendOnly
    <2>1. UNCHANGED <<conf, data>>
      BY <1>5 DEF StopAppendOnly
    <2>2. CASE rdb' = rdb /\ rdb_child' \in {rdb_child, Lost}
      BY <2>1, <2>2, SnapKept
    <2>3. CASE rdb_child \notin {None, Lost} /\ rdb' = rdb_child /\ rdb_child' = Lost
      BY <1>0, <2>1, <2>3 DEF SnapInv, Saved, SaveInv
    <2> QED BY <1>5, <2>2, <2>3, StopFinds
  <1>6. CASE Save
    <2>1. UNCHANGED <<conf, data, rdb_child>> /\ rdb' = data /\ rdb_child = None
      BY <1>6 DEF Save
    <2>2. IsPrefix(data, data) /\ data # None
      BY <1>0, NoneFacts, PrefixSelf
    <2> QED BY <2>1, <2>2 DEF SnapInv, Saved
  <1>7. CASE BgSave
    <2>1. UNCHANGED <<conf, data, rdb>> /\ rdb_child' = data
      BY <1>7 DEF BgSave
    <2> QED BY <2>1 DEF SnapInv, Saved
  <1>8. ASSUME NEW ok \in BOOLEAN, BgSaveDone(ok) PROVE SnapInv'
    <2>1. UNCHANGED <<conf, data>> /\ rdb_child' = None /\ rdb_child \notin {None, Lost}
      BY <1>8 DEF BgSaveDone
    <2>2. rdb' = rdb \/ rdb' = rdb_child
      BY <1>8 DEF BgSaveDone
    <2>3. CASE rdb' = rdb
      BY <2>1, <2>3, SnapKept
    <2>4. CASE rdb' = rdb_child
      BY <1>0, <2>1, <2>4 DEF SnapInv, Saved, SaveInv
    <2> QED BY <2>2, <2>3, <2>4
  <1>9. CASE Exit
    BY <1>0, <1>9, SnapStarts DEF Exit
  <1>10. CASE PowerLoss
    BY <1>0, <1>10, SnapStarts DEF PowerLoss
  <1>11. ASSUME NEW save \in BOOLEAN, Shutdown(save) PROVE SnapInv'
    <2>1. (IF save THEN data ELSE rdb) \in Log \cup {None}
      BY <1>0
    <2> QED BY <1>0, <1>11, <2>1, SnapStarts DEF Shutdown
  <1>12. CASE UNCHANGED vars
    <2>1. UNCHANGED <<conf, data, rdb, rdb_child>>
      BY <1>12 DEF vars
    <2> QED BY <2>1, SnapKept
  <1> QED BY <1>2, <1>3, <1>4, <1>5, <1>6, <1>7, <1>8, <1>9, <1>10, <1>11, <1>12 DEF Next

\* What dump.rdb has is a beginning of what a server without an AOF stores, also of what a
\* saving child writes (rdbSave, rdbSaveBackground, and the wait3 of stopAppendOnly).
THEOREM SnapshotIsPrefix == Spec => []SnapInv
  <1>1. Init => SnapInv
    <2> SUFFICES ASSUME Init PROVE SnapInv
      OBVIOUS
    <2>1. data = <<>> /\ rdb = None /\ rdb_child = None
      BY DEF Init
    <2>2. <<>> \in Log
      BY EmptySeq DEF Log
    <2>3. IsPrefix(<<>>, <<>>)
      BY <2>2, PrefixSelf
    <2> QED BY <2>1, <2>3 DEF SnapInv, Saved
  <1>2. Inv /\ SnapInv /\ [Next]_vars => SnapInv'
    BY SnapStep
  <1> QED BY <1>1, <1>2, Invariance, PTL DEF Spec

\* A new process is a crash of the log, when what is found is a beginning of it and has
\* what the mode promises.
LEMMA StartCrashes ==
    ASSUME Inv, NEW items \in Seq(Content), NEW onDisk, NEW snapshot \in Log \cup {None},
           Start(items, onDisk, snapshot),
           conf = "on" /\ aof_state = "on" => IsPrefix(Held(items, Len(items)), data),
           conf = "on" /\ aof_state = "on" /\ aof_fsync = "always"
             => Answered \subseteq ToSet(Held(items, Len(items))),
           conf = "off" => /\ IsPrefix(Saved(rdb), Saved(snapshot))
                           /\ IsPrefix(Saved(snapshot), data)
    PROVE  Durable!Crash
  <1>0. TypeOK
    BY DEF Inv
  <1>1. /\ conf \in {"on", "off"} /\ conf' = conf /\ aof_state' = conf
        /\ aof_fsync' = aof_fsync /\ rdb' = snapshot
        /\ Answered' = Answered \cap ToSet(data')
    BY <1>0, NoneFacts DEF TypeOK, Start, config, Answered
  <1>2. CASE conf = "on"
    <2>1. data' = Held(items, Len(items))
      BY <1>2, MendedFacts DEF Start
    <2>2. /\ Snapshot = <<>> /\ Snapshot' = <<>> /\ Mode \in {"idle", "append", "synced"}
          /\ Mode' \in {"append", "synced"}
      BY <1>1, <1>2 DEF Snapshot, Mode
    <2>3. /\ Mode # "idle" => aof_state = "on"
          /\ Mode = "synced" => aof_state = "on" /\ aof_fsync = "always"
      BY <1>2 DEF Mode
    <2>4. /\ Mode # "idle" => IsPrefix(data', data)
          /\ Mode = "synced" => Answered \subseteq ToSet(data')
      BY <1>2, <2>1, <2>3
    <2> QED BY <1>1, <2>2, <2>4, SameWords DEF Durable!Crash
  <1>3. CASE conf = "off"
    <2>1. data' = Saved(snapshot)
      BY <1>3 DEF Start, Saved
    <2>2. /\ Snapshot = Saved(rdb) /\ Snapshot' = Saved(snapshot)
          /\ Mode = "snapshot" /\ Mode' = "snapshot"
      BY <1>1, <1>3 DEF Snapshot, Mode, Saved
    <2> QED BY <1>1, <1>3, <2>1, <2>2, SameWords DEF Durable!Crash
  <1> QED BY <1>1, <1>2, <1>3

\* What a restart finds of the file, and of a part of the buffer behind it, is a beginning
\* of what a server that appends has executed.
LEMMA FoundIsPrefix ==
    ASSUME Inv, aof_state = "on", NEW a \in Seq(Content), NEW b \in Seq(Content),
           a \o b = Disk \o aof_buf, NEW k \in 0..Len(a)
    PROVE  IsPrefix(Held(a, k), data)
  <1>1. TypeOK /\ FileInv
    BY DEF Inv
  <1>2. Disk \in Seq(Content) /\ aof_buf \in Seq(Item) /\ RewrittenFirst(Disk)
    BY <1>1, DiskType, DiskFirst DEF TypeOK
  <1>3. RewrittenFirst(a \o b)
    BY <1>2, FirstKept
  <1>4. IsPrefix(Held(a, k), After(a \o b).log)
    BY <1>3, HeldOfAll
  <1>5. Disk = file.items
    BY <1>1 DEF TypeOK, Disk
  <1>6. After(a \o b).log = data
    BY <1>1, <1>5 DEF FileInv, Complete
  <1> QED BY <1>4, <1>6

\* With appendfsync always, what has the disk and more has all that was answered.
LEMMA AckedThere ==
    ASSUME Inv, aof_state = "on", aof_fsync = "always", NEW a \in Seq(Content),
           RewrittenFirst(a), Contents.synced <= Len(a),
           Held(a, Contents.synced) = Held(Disk, Contents.synced)
    PROVE  Answered \subseteq ToSet(Held(a, Len(a)))
  <1>1. file # None /\ Answered \subseteq ToSet(Held(file.items, file.synced)) /\ TypeOK
    BY DEF Inv, TypeOK, DiskInv, Answered, Settled
  <1>2. Disk = file.items /\ Contents.synced = file.synced
    BY <1>1 DEF Disk, Contents
  <1>3. Len(a) \in Nat /\ Contents.synced \in Nat
    BY <1>1, DiskType, LenProperties
  <1>4. Len(a) \in 0..Len(a) /\ Contents.synced \in 0..Len(a)
    BY <1>3
  <1>5. IsPrefix(Held(a, Contents.synced), Held(a, Len(a)))
    BY <1>4, HeldGrows
  <1>6. PICK s \in Log, t \in Log : s = Held(a, Contents.synced) /\ t = Held(a, Len(a))
    BY <1>4, HeldType
  <1>7. ToSet(s) \subseteq ToSet(t)
    BY <1>5, <1>6, PrefixSet
  <1> QED BY <1>1, <1>2, <1>6, <1>7

\* The snapshot that is there is one that a restart may take.
LEMMA SnapStays ==
    ASSUME Inv, SnapInv
    PROVE  conf = "off" => IsPrefix(Saved(rdb), Saved(rdb)) /\ IsPrefix(Saved(rdb), data)
  <1>1. Saved(rdb) \in Log
    BY SavedType DEF Inv, TypeOK
  <1> QED BY <1>1, PrefixSelf DEF SnapInv

\* The first k items are left, all that is on the disk among them.
LEMMA LeftCrashes ==
    ASSUME Inv, SnapInv, NEW k \in Contents.synced..Len(Disk), NEW onDisk,
           NEW snapshot \in Log \cup {None}, Start(SubSeq(Disk, 1, k), onDisk, snapshot),
           conf = "off" => /\ IsPrefix(Saved(rdb), Saved(snapshot))
                           /\ IsPrefix(Saved(snapshot), data)
    PROVE  Durable!Crash
  <1>0. TypeOK /\ FileInv
    BY DEF Inv
  <1>1. /\ Disk \in Seq(Content) /\ Len(Disk) \in Nat /\ aof_buf \in Seq(Content)
        /\ Contents.synced \in Nat /\ RewrittenFirst(Disk)
    BY <1>0, DiskType, DiskFirst
  <1>2. k \in 0..Len(Disk) /\ k \in 0..k /\ Contents.synced \in 0..k /\ k \in Nat
    BY <1>1
  <1>3. PICK u \in Seq(Content) :
          /\ u = SubSeq(Disk, 1, k) /\ Len(u) = k /\ RewrittenFirst(u)
          /\ \A j \in 0..k : Held(u, j) = Held(Disk, j)
    BY <1>1, <1>2, FirstItems
  <1>4. aof_state = "on" => IsPrefix(Held(u, Len(u)), data)
    <2>1. Held(u, Len(u)) = Held(Disk, k)
      BY <1>2, <1>3
    <2>2. PICK x \in Seq(Content) : x = Disk
      BY <1>1
    <2>3. aof_state = "on" => IsPrefix(Held(x, k), data)
      BY <1>1, <1>2, <2>2, FoundIsPrefix
    <2> QED BY <2>1, <2>2, <2>3
  <1>5. aof_state = "on" /\ aof_fsync = "always" => Answered \subseteq ToSet(Held(u, Len(u)))
    <2>1. Contents.synced <= Len(u) /\ Held(u, Contents.synced) = Held(Disk, Contents.synced)
      BY <1>2, <1>3
    <2> QED BY <1>3, <2>1, AckedThere
  <1> QED BY <1>3, <1>4, <1>5, StartCrashes

\* All of the file is left.
LEMMA AllLeft ==
    ASSUME Inv
    PROVE  /\ Len(Disk) \in Contents.synced..Len(Disk) /\ SubSeq(Disk, 1, Len(Disk)) = Disk
           /\ Contents.items = Disk
  <1>1. /\ Disk \in Seq(Content) /\ Len(Disk) \in Nat /\ Contents.items = Disk
        /\ Contents.synced \in Nat /\ Contents.synced <= Len(Disk)
    BY DiskType DEF Inv
  <1> QED BY <1>1, SubSeqFull

\* The end of the process.
LEMMA ExitCrashes == ASSUME Inv, SnapInv, Exit PROVE Durable!Crash
  <1>1. Start(SubSeq(Disk, 1, Len(Disk)), Contents.synced, rdb) /\ rdb \in Log \cup {None}
    BY AllLeft DEF Exit, Inv, TypeOK
  <1> QED BY <1>1, AllLeft, SnapStays, LeftCrashes

\* Of the machine.
LEMMA PowerLossCrashes == ASSUME Inv, SnapInv, PowerLoss PROVE Durable!Crash
  <1>1. PICK k \in Contents.synced..Len(Disk) :
           Start(SubSeq(Disk, 1, k), k, rdb) /\ rdb \in Log \cup {None}
    BY AllLeft DEF PowerLoss, Inv, TypeOK
  <1> QED BY <1>1, SnapStays, LeftCrashes

\* SHUTDOWN, with or without a last snapshot.
LEMMA ShutdownCrashes ==
    ASSUME Inv, SnapInv, NEW save \in BOOLEAN, Shutdown(save) PROVE Durable!Crash
  <1>0. data \in Log /\ rdb \in Log \cup {None}
    BY DEF Inv, TypeOK
  <1>1. PICK snapshot \in Log \cup {None} : snapshot = IF save THEN data ELSE rdb
    BY <1>0
  <1>2. PICK n :
           /\ Start(SubSeq(Disk, 1, Len(Disk)), n, snapshot)
           /\ snapshot = rdb \/ snapshot = data
    BY <1>1, AllLeft DEF Shutdown
  <1>3. conf = "off" => IsPrefix(Saved(rdb), Saved(snapshot)) /\ IsPrefix(Saved(snapshot), data)
    <2>1. CASE snapshot = rdb
      BY <2>1, SnapStays
    <2>2. CASE snapshot = data
      <3>1. Saved(data) = data /\ IsPrefix(data, data)
        BY <1>0, NoneFacts, PrefixSelf DEF Saved
      <3> QED BY <2>2, <3>1, SnapStays
    <2> QED BY <1>2, <2>1, <2>2
  <1> QED BY <1>2, <1>3, AllLeft, LeftCrashes

\* Commands are written behind the others.
LEMMA ExecuteWrites ==
    ASSUME Inv, NEW d \in DB, NEW n \in 1..2, Execute(d, n) PROVE Durable!Write
  <1>1. data \in Log /\ writes \in Nat
    BY NoneFacts DEF Inv, TypeOK
  <1>2. PICK v : v = [i \in 1..n |-> <<d, writes + i>>]
    OBVIOUS
  <1>3. v \in Log /\ data' = data \o v
    BY <1>1, <1>2, WritesType DEF Execute
  <1>4. IsPrefix(data, data')
    BY <1>1, <1>3, PrefixConcat
  <1>5. UNCHANGED <<conf, aof_state, aof_fsync, rdb, acked>>
    BY DEF Execute, config
  <1>6. Answered' = Answered
    <2>1. ASSUME NEW i \in 1..n
          PROVE  <<d, writes + i>> \notin acked
      <3>1. writes + i \notin 1..writes
        BY <1>1
      <3> QED BY <3>1 DEF Inv, TypeOK
    <2>2. turn' = turn \cup {<<d, writes + i>> : i \in 1..n}
      BY DEF Execute
    <2> QED BY <1>5, <2>1, <2>2 DEF Answered
  <1>7. Snapshot' = Snapshot /\ Mode' = Mode
    BY <1>5 DEF Snapshot, Mode
  <1> QED BY <1>4, <1>7, <1>6, SameWords DEF Durable!Write

\* A reply leaves.
LEMMA SendRepliesAnswers == ASSUME Inv, SendReplies PROVE Durable!Answer
  <1>1. /\ acked \subseteq acked' /\ acked' \subseteq acked \cup replies
        /\ UNCHANGED <<data, conf, aof_fsync, aof_state, rdb, turn>>
    BY DEF SendReplies, config, saving
  <1>2. Snapshot' = Snapshot /\ Mode' = Mode
    BY <1>1 DEF Snapshot, Mode
  <1>3. Answered \subseteq Answered' /\ Answered' \subseteq ToSet(data)
    BY <1>1 DEF Answered, Inv, AckInv
  <1> QED BY <1>1, <1>2, <1>3, SameWords DEF Durable!Answer

\* The writes of the turn count as answered if their reply has left, or the process exits
\* because it cannot write.
LEMMA BeforeSleepAnswers ==
    ASSUME Inv, SnapInv, BeforeSleep PROVE Durable!Answer \/ Durable!Crash
  <1> USE DEF config, saving
  <1>0. TypeOK /\ FileInv /\ AckInv /\ DiskInv /\ rdb \in Log \cup {None}
    BY DEF Inv, TypeOK
  <1>1. PICK o \in Flushes(FALSE) :
          IF o.failed /\ aof_fsync = "always"
            THEN Start(o.items, o.synced, rdb)
            ELSE turn' = {} /\ UNCHANGED <<data, config, aof_state, saving, acked>>
    BY DEF BeforeSleep
  <1>2. CASE ~(o.failed /\ aof_fsync = "always")
    <2>1. turn' = {} /\ UNCHANGED <<data, conf, aof_fsync, aof_state, rdb, acked>>
      BY <1>1, <1>2
    <2>2. Snapshot' = Snapshot /\ Mode' = Mode
      BY <2>1 DEF Snapshot, Mode
    <2>3. Answered \subseteq Answered' /\ Answered' \subseteq ToSet(data)
      BY <1>0, <2>1 DEF AckInv, Answered
    <2> QED BY <2>1, <2>2, <2>3, SameWords DEF Durable!Answer
  <1>3. CASE o.failed /\ aof_fsync = "always"
    <2>1. PICK k \in 0..Len(aof_buf) : Moved(o, k) /\ Promised(o, k)
      BY <1>0, FlushFacts
    <2>2. /\ Disk \in Seq(Content) /\ RewrittenFirst(Disk) /\ Len(Disk) \in Nat
          /\ Contents.synced \in Nat /\ Contents.synced <= Len(Disk)
      BY <1>0, DiskType, DiskFirst
    <2>3. PICK b \in Seq(Item), c \in Seq(Content) :
            /\ b = SubSeq(aof_buf, 1, k) /\ c = SubSeq(aof_buf, k + 1, Len(aof_buf))
            /\ (Disk \o b) \o c = Disk \o aof_buf /\ Len(Disk \o b) = Len(Disk) + k
      BY <1>0, SplitBuffer, ItemTypes
    <2>4. PICK a \in Seq(Content) : a = Disk \o b /\ RewrittenFirst(a) /\ o.items = a
      BY <2>1, <2>2, <2>3, FirstKept DEF Moved
    <2>5. aof_state = "on"
      BY <1>0, <1>3, <2>1 DEF Promised, DiskInv
    <2>6. Len(a) \in 0..Len(a) /\ Contents.synced <= Len(a) /\ Contents.synced \in 0..Len(Disk)
      BY <2>2, <2>3, <2>4
    <2>7. IsPrefix(Held(a, Len(a)), data)
      BY <2>3, <2>4, <2>5, <2>6, FoundIsPrefix
    <2>8. Held(a, Contents.synced) = Held(Disk, Contents.synced)
      <3>1. PICK x \in Seq(Content), y \in Seq(Content) : x = Disk /\ y = b
        BY <2>2, ItemTypes
      <3>2. Contents.synced \in 0..Len(x) /\ a = x \o y
        BY <2>4, <2>6, <3>1
      <3> QED BY <3>1, <3>2, HeldBefore
    <2>9. Answered \subseteq ToSet(Held(a, Len(a)))
      BY <1>3, <2>4, <2>5, <2>6, <2>8, AckedThere
    <2>10. Start(a, o.synced, rdb)
      BY <1>1, <1>3, <2>4
    <2> QED BY <1>0, <2>7, <2>9, <2>10, SnapStays, StartCrashes
  <1> QED BY <1>2, <1>3

\* CONFIG SET appendonly and the end of a rewrite change the mode only, when the
\* configuration file has an AOF.
LEMMA StateConfigures ==
    ASSUME TypeOK, UNCHANGED <<data, Answered, config, rdb>>
    PROVE  Durable!Configure \/ UNCHANGED <<data, Answered, Snapshot, Mode>>
  <1>1. conf \in {"on", "off"} /\ UNCHANGED <<data, Answered, conf, aof_fsync, rdb>>
    BY NoneFacts DEF TypeOK, config
  <1>2. Snapshot' = Snapshot
    BY <1>1 DEF Snapshot
  <1>3. CASE conf = "off"
    <2>1. Mode' = Mode
      BY <1>1, <1>3 DEF Mode
    <2> QED BY <1>1, <1>2, <2>1
  <1>4. CASE conf = "on"
    <2>1. Mode # "snapshot" /\ Mode' \in {"idle", "append", "synced"}
      BY <1>1, <1>4 DEF Mode
    <2> QED BY <1>1, <1>2, <2>1 DEF Durable!Configure
  <1> QED BY <1>1, <1>3, <1>4

\* A new snapshot is a longer beginning; with an AOF it is of no account.
LEMMA SnapshotSaves ==
    ASSUME TypeOK, UNCHANGED <<data, Answered, config, aof_state>>,
           conf = "off" => IsPrefix(Saved(rdb), Saved(rdb)') /\ IsPrefix(Saved(rdb)', data)
    PROVE  Durable!Save \/ UNCHANGED <<data, Answered, Snapshot, Mode>>
  <1>1. conf \in {"on", "off"} /\ UNCHANGED <<data, Answered, conf, aof_fsync, aof_state>>
    BY NoneFacts DEF TypeOK, config
  <1>2. Mode' = Mode
    BY <1>1 DEF Mode
  <1>3. CASE conf = "off"
    <2>1. Snapshot = Saved(rdb) /\ Snapshot' = Saved(rdb)' /\ Mode = "snapshot"
      BY <1>1, <1>3 DEF Snapshot, Saved, Mode
    <2> QED BY <1>1, <1>2, <1>3, <2>1, SameWords DEF Durable!Save
  <1>4. CASE conf = "on"
    <2>1. Snapshot' = Snapshot
      BY <1>1, <1>4 DEF Snapshot
    <2> QED BY <1>1, <1>2, <2>1
  <1> QED BY <1>1, <1>3, <1>4

\* CONFIG SET appendonly no may find the saving child gone: a snapshot, or a change of mode.
LEMMA StopConfigures ==
    ASSUME Inv, SnapInv, StopAppendOnly
    PROVE  Durable!Configure \/ Durable!Save \/ UNCHANGED <<data, Answered, Snapshot, Mode>>
  <1>0. TypeOK /\ SaveInv /\ conf \in {"on", "off"}
    BY NoneFacts DEF Inv, TypeOK
  <1>1. UNCHANGED <<data, Answered, config>>
    BY DEF StopAppendOnly, Answered
  <1>2. UNCHANGED <<data, Answered, conf, aof_fsync>>
    BY <1>1 DEF config
  <1>3. CASE rdb' = rdb
    BY <1>0, <1>1, <1>3, StateConfigures
  <1>4. CASE conf = "on"
    <2>1. /\ Snapshot = <<>> /\ Snapshot' = <<>>
          /\ Mode # "snapshot" /\ Mode' \in {"idle", "append", "synced"}
      BY <1>2, <1>4 DEF Snapshot, Mode
    <2> QED BY <1>2, <2>1 DEF Durable!Configure
  <1>5. CASE conf = "off" /\ rdb_child \notin {None, Lost} /\ rdb' = rdb_child
    <2>1. Saved(rdb)' = rdb_child
      BY <1>5 DEF Saved
    <2>2. IsPrefix(Saved(rdb), rdb_child) /\ IsPrefix(rdb_child, data)
      BY <1>0, <1>5 DEF SnapInv, SaveInv
    <2>3. /\ Snapshot = Saved(rdb) /\ Snapshot' = Saved(rdb)'
          /\ Mode = "snapshot" /\ Mode' = "snapshot"
      BY <1>2, <1>5 DEF Snapshot, Saved, Mode
    <2> QED BY <1>2, <2>1, <2>2, <2>3, SameWords DEF Durable!Save
  <1> QED BY <1>0, <1>3, <1>4, <1>5, StopFinds

\* Every step is one of the log, or none.
LEMMA LogStep ==
    ASSUME Inv, SnapInv, [Next]_vars
    PROVE  [Durable!Next]_<<data, Answered, Snapshot, Mode>>
  <1> USE DEF config, saving, ends
  <1>0. TypeOK /\ SaveInv /\ data \in Log
    BY DEF Inv, TypeOK
  <1>1. ASSUME NEW d \in DB, NEW n \in 1..2, Execute(d, n) PROVE Durable!Next
    BY <1>1, ExecuteWrites DEF Durable!Next
  <1>2. CASE BeforeSleep
    BY <1>2, BeforeSleepAnswers DEF Durable!Next
  <1>3. CASE Tick \/ BioFsync \/ BgRewriteAof \/ ScheduledRewrite \/ RewriteDone
             \/ RewriteFailed \/ StartAppendOnly \/ BgSave
    <2>1. UNCHANGED <<data, acked, turn, config, rdb>>
      BY <1>3 DEF Tick, BioFsync, BgRewriteAof, ScheduledRewrite, RewriteDone, RewriteFailed,
                  StartAppendOnly, BgSave
    <2>2. Answered' = Answered
      BY <2>1 DEF Answered
    <2> QED BY <1>0, <2>1, <2>2, StateConfigures DEF Durable!Next
  <1>4. CASE StopAppendOnly
    BY <1>4, StopConfigures DEF Durable!Next
  <1>5. CASE Save
    <2>1. UNCHANGED <<data, Answered, config, aof_state>> /\ rdb' = data
      BY <1>5 DEF Save, Answered
    <2>2. Saved(rdb)' = data /\ IsPrefix(data, data)
      BY <1>0, <2>1, NoneFacts, PrefixSelf DEF Saved
    <2>3. conf = "off" => IsPrefix(Saved(rdb), Saved(rdb)') /\ IsPrefix(Saved(rdb)', data)
      BY <2>2 DEF SnapInv
    <2> QED BY <1>0, <2>1, <2>3, SnapshotSaves DEF Durable!Next
  <1>6. ASSUME NEW ok \in BOOLEAN, BgSaveDone(ok)
        PROVE  Durable!Next \/ UNCHANGED <<data, Answered, Snapshot, Mode>>
    <2>1. /\ UNCHANGED <<data, Answered, config, aof_state>> /\ rdb_child \notin {None, Lost}
          /\ rdb' = rdb \/ rdb' = rdb_child
      BY <1>6 DEF BgSaveDone, Answered
    <2>2. CASE rdb' = rdb
      BY <1>0, <2>1, <2>2, StateConfigures DEF Durable!Next
    <2>3. CASE rdb' = rdb_child
      <3>1. Saved(rdb)' = rdb_child /\ IsPrefix(rdb_child, data)
        BY <1>0, <2>1, <2>3 DEF Saved, SaveInv
      <3>2. conf = "off" => IsPrefix(Saved(rdb), Saved(rdb)') /\ IsPrefix(Saved(rdb)', data)
        BY <2>1, <3>1 DEF SnapInv
      <3> QED BY <1>0, <2>1, <3>2, SnapshotSaves DEF Durable!Next
    <2> QED BY <2>1, <2>2, <2>3
  <1>7. CASE Exit
    BY <1>7, ExitCrashes DEF Durable!Next
  <1>8. CASE PowerLoss
    BY <1>8, PowerLossCrashes DEF Durable!Next
  <1>9. ASSUME NEW save \in BOOLEAN, Shutdown(save) PROVE Durable!Next
    BY <1>9, ShutdownCrashes DEF Durable!Next
  <1>10. CASE UNCHANGED vars
    <2>1. UNCHANGED <<data, Answered, conf, aof_fsync, aof_state, rdb>>
      BY <1>10 DEF vars, Answered
    <2>2. Snapshot' = Snapshot /\ Mode' = Mode
      BY <2>1 DEF Snapshot, Mode
    <2> QED BY <2>1, <2>2
  <1>11. CASE SendReplies
    BY <1>11, SendRepliesAnswers DEF Durable!Next
  <1> QED BY <1>1, <1>2, <1>3, <1>4, <1>5, <1>6, <1>7, <1>8, <1>9, <1>10, <1>11 DEF Next

\* Whatever dies at whatever time, a restart finds a beginning of the writes: with
\* appendfsync always all that was answered and whose turn of the event loop was over,
\* without an AOF no less than the last snapshot (flushAppendOnlyFile, sendReplyToClient,
\* the handlers of the children, loadDataFromDisk).
THEOREM ImplementsLog == Spec => ActsAsDurableLog
  <1>1. Init => Durable!Init
    <2> SUFFICES ASSUME Init PROVE Durable!Init
      OBVIOUS
    <2>1. /\ data = <<>> /\ Answered = {} /\ rdb = None /\ aof_state = conf
          /\ conf \in {"on", "off"} /\ aof_fsync \in Policies
      BY NoneFacts DEF Init, Answered
    <2>2. Snapshot = <<>> /\ Mode \in {"snapshot", "append", "synced"}
      BY <2>1 DEF Snapshot, Mode
    <2> QED BY <2>1, <2>2 DEF Durable!Init
  <1>2. Inv /\ SnapInv /\ [Next]_vars => [Durable!Next]_<<data, Answered, Snapshot, Mode>>
    BY LogStep
  <1> QED BY <1>1, <1>2, Invariance, SnapshotIsPrefix, PTL
          DEF Spec, ActsAsDurableLog, Durable!Spec
================================================================================
