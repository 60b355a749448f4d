----------------------------- MODULE ServerProofs -----------------------------
(***************************************************************************)
(* TypeOK, WatchedUnchanged, StreamReplays, NobodyWaitsInVain and          *)
(* ServedInOrder hold of Server for all clients, keys and commands.  The   *)
(* state that a step passes from operator to operator is followed through  *)
(* each of them: first what holds of it at any time (Good), then what is   *)
(* there between commands (Fit) and while clients are served (Serving).    *)
(***************************************************************************)
EXTENDS Server, Induction, FiniteSetTheorems, SequenceTheorems, TLAPS

(* The state that a step passes on. *)

Blocking == {m \in Command : m.op \in {"blpop", "brpoplpush"}}
Slave    == [db : [Key -> Value], multi : BOOLEAN, queued : [Key -> Value]]
State    == [db : [Key -> Value], expires : [Key -> {"no", "set", "past"}],
             dirty_cas : SUBSET Client, bpop : [Client -> Blocking \cup {None}],
             blocking_keys : [Key -> Seq(Client)], copy : Slave, renamed : SUBSET Key,
             ready_keys : Seq(Key), served : SUBSET (Client \X Key),
             must_propagate : BOOLEAN]

\* What the constants are.
LEMMA Constants ==
    /\ None \notin Key /\ None \notin Seq(Nat) /\ None \notin Command /\ None # Str
    /\ Str \notin Seq(Nat) /\ None # <<>> /\ Str # <<>> /\ <<>> \in Seq(Nat)
    /\ IsFiniteSet(Client) /\ IsFiniteSet(Key)
  <1>1. <<>> \in Seq(Nat)
    OBVIOUS
  <1> QED BY <1>1, ServerAssumption DEF ServerAssumption

\* A list is a sequence of numbers.
LEMMA ListIsSeq ==
    ASSUME NEW v \in Value
    PROVE  IsList(v) <=> v \in Seq(Nat)
  BY Constants DEF IsList, Value

\* What is kept of a list.
LEMMA StoredFacts ==
    ASSUME NEW v \in Value
    PROVE  /\ Stored(v) \in Value /\ Stored(v) # <<>>
           /\ Stored(Stored(v)) = Stored(v)
           /\ v # <<>> => Stored(v) = v
           /\ v # <<>> /\ IsList(v) => IsList(Stored(v))
           /\ Stored(v) = Str <=> v = Str
  BY Constants DEF Stored, Value, IsList

\* A list one element is pushed to.
LEMMA PushFacts ==
    ASSUME NEW v \in Value, v # Str, NEW x \in Nat
    PROVE  /\ Push(v, x) \in Seq(Nat) /\ Push(v, x) \in Value /\ IsList(Push(v, x))
           /\ Push(v, x) # <<>> /\ Push(v, x) # None
           /\ Push(Stored(v), x) = Push(v, x)
  <1>1. <<x>> \in Seq(Nat) /\ <<x>> # <<>>
    OBVIOUS
  <1>2. v \in Seq(Nat) \/ v = None
    BY DEF Value
  <1>3. PICK e \in Seq(Nat) : e = <<x>> /\ e # <<>>
    BY <1>1
  <1>4. CASE v = None
    <2>1. Push(v, x) = e
      BY <1>3, <1>4 DEF Push
    <2>2. Stored(v) = None
      BY <1>4, Constants DEF Stored
    <2> QED BY <1>3, <1>4, <2>1, <2>2, Constants DEF Value, IsList
  <1>5. CASE v \in Seq(Nat)
    <2>1. Push(v, x) = e \o v /\ v # None
      BY <1>3, <1>5, Constants DEF Push
    <2>2. e \o v \in Seq(Nat) /\ e \o v # <<>>
      BY <1>3, <1>5, ConcatProperties, ConcatEqualIffEmpty
    <2>3. Push(Stored(v), x) = Push(v, x)
      <3>1. CASE v = <<>>
        <4>1. Stored(v) = None /\ Push(None, x) = e
          BY <1>3, <3>1 DEF Stored, Push
        <4>2. e \o <<>> = e
          BY <1>3, ConcatEmptySeq
        <4> QED BY <2>1, <3>1, <4>1, <4>2
      <3>2. CASE v # <<>>
        BY <3>2 DEF Stored
      <3> QED BY <3>1, <3>2
    <2> QED BY <2>1, <2>2, <2>3, Constants DEF Value, IsList
  <1> QED BY <1>2, <1>4, <1>5

\* A list one element is popped from.
LEMMA PopFacts ==
    ASSUME NEW l \in Seq(Nat), l # <<>>, NEW where \in {"head", "tail"}
    PROVE  /\ Popped(l, where) \in Seq(Nat) /\ Popped(l, where) \in Value
           /\ Element(l, where) \in Nat
           /\ where = "tail" => Append(Popped(l, where), Element(l, where)) = l
           /\ Front(l) \in Seq(Nat) /\ Last(l) \in Nat
  <1>1. Len(l) \in Nat /\ Len(l) # 0
    BY LenProperties, EmptySeq
  <1>2. Tail(l) \in Seq(Nat) /\ Head(l) \in Nat
    BY HeadTailProperties
  <1>3. PICK s \in Seq(Nat), e \in Nat : l = Append(s, e)
    BY SequenceEmptyOrAppend
  <1>4. /\ Len(l) = Len(s) + 1 /\ l[Len(s) + 1] = e /\ \A i \in 1..Len(s) : l[i] = s[i]
        /\ Len(s) \in Nat
    BY <1>3, AppendProperties, LenProperties
  <1>5. Last(l) = e
    BY <1>4 DEF Last
  <1>6. Front(l) \in Seq(Nat) /\ Len(Front(l)) = Len(s)
        /\ \A i \in 1..Len(s) : Front(l)[i] = l[i]
    BY <1>1, <1>4 DEF Front
  <1>7. Front(l) = s
    BY <1>4, <1>6, SeqEqual
  <1> QED BY <1>2, <1>3, <1>5, <1>7 DEF Popped, Element, Value

-----------------------------------------------------------------------------
(* The stream. *)

\* What others see of the data: a list that was emptied, and is about to be deleted, is not
\* there.
Shown(d) == [k \in Key |-> Stored(d[k])]
\* What the slave will have when it has run what it has queued.
Reached(slave) == IF slave.multi THEN slave.queued ELSE slave.db

\* A command that is not part of the bracket changes what the slave will have.
LEMMA ReceivedItem ==
    ASSUME NEW slave \in Slave, NEW item, item.op \notin {"multi", "exec"},
           Replayed(Reached(slave), item) \in [Key -> Value]
    PROVE  /\ Received(slave, item) \in Slave
           /\ Received(slave, item).multi = slave.multi
           /\ Reached(Received(slave, item)) = Replayed(Reached(slave), item)
  <1>1. CASE slave.multi
    BY <1>1 DEF Received, Reached, Slave
  <1>2. CASE ~slave.multi
    BY <1>2 DEF Received, Reached, Slave
  <1> QED BY <1>1, <1>2

\* The bracket does not.
LEMMA ReceivedBracket ==
    ASSUME NEW slave \in Slave
    PROVE  /\ ~slave.multi =>
                 /\ Received(slave, Item("multi", None, None)) \in Slave
                 /\ Received(slave, Item("multi", None, None)).multi
                 /\ Reached(Received(slave, Item("multi", None, None))) = Reached(slave)
           /\ slave.multi =>
                 /\ Received(slave, Item("exec", None, None)) \in Slave
                 /\ ~Received(slave, Item("exec", None, None)).multi
                 /\ Reached(Received(slave, Item("exec", None, None))) = Reached(slave)
  <1>1. NoData \in [Key -> Value]
    BY DEF NoData, Value
  <1> QED BY <1>1 DEF Received, Reached, Slave, Item

\* What each command does to what is shown.
LEMMA ShownType ==
    ASSUME NEW d \in [Key -> Value]
    PROVE  /\ Shown(d) \in [Key -> Value] /\ \A k \in Key : Shown(d)[k] = Stored(d[k])
           /\ (\A k \in Key : d[k] # <<>>) => Shown(d) = d
  BY StoredFacts DEF Shown

\* An LPUSH that is replayed gives the data of the server (call, pushGenericCommand).
LEMMA ReplayedPush ==
    ASSUME NEW d \in [Key -> Value], NEW k \in Key, d[k] # Str, NEW x \in Nat
    PROVE  Replayed(Shown(d), Item("lpush", k, x)) = Shown([d EXCEPT ![k] = Push(d[k], x)])
  <1>1. /\ Stored(Push(d[k], x)) = Push(d[k], x) /\ Push(Stored(d[k]), x) = Push(d[k], x)
    BY PushFacts, StoredFacts
  <1> QED BY <1>1 DEF Replayed, Item, Shown

\* So does a pop, as LPOP or RPOP (blockingPopGenericCommand, serveClientBlockedOnList).
LEMMA ReplayedPop ==
    ASSUME NEW d \in [Key -> Value], NEW k \in Key, IsList(d[k]), d[k] # <<>>,
           NEW where \in {"head", "tail"}
    PROVE  Replayed(Shown(d), Item("pop", k, where))
              = Shown([d EXCEPT ![k] = Popped(d[k], where)])
  <1>1. Stored(d[k]) = d[k]
    BY StoredFacts
  <1> QED BY <1>1 DEF Replayed, Item, Shown

\* So do SET, DEL, EXPIRE and FLUSHDB.
LEMMA ReplayedSet ==
    ASSUME NEW d \in [Key -> Value], NEW k \in Key
    PROVE  /\ Replayed(Shown(d), Item("set", k, None)) = Shown([d EXCEPT ![k] = Str])
           /\ Replayed(Shown(d), Item("del", k, None)) = Shown([d EXCEPT ![k] = None])
           /\ Replayed(Shown(d), Item("expire", k, None)) = Shown(d)
           /\ Replayed(Shown(d), Item("flushdb", None, None)) = Shown(NoData)
  <1>1. Stored(Str) = Str /\ Stored(None) = None
    BY Constants DEF Stored
  <1> QED BY <1>1 DEF Replayed, Item, Shown, NoData

\* So does a RENAME (renameGenericCommand).
LEMMA ReplayedRename ==
    ASSUME NEW d \in [Key -> Value], NEW k \in Key, NEW to \in Key
    PROVE  Replayed(Shown(d), Item("rename", k, to))
              = Shown([[d EXCEPT ![k] = None] EXCEPT ![to] = d[k]])
  <1>1. Stored(None) = None
    BY Constants DEF Stored
  <1> QED BY <1>1 DEF Replayed, Item, Shown

\* So does an RPOPLPUSH, onto the same key as well (rpoplpushCommand).
LEMMA ReplayedMove ==
    ASSUME NEW d \in [Key -> Value], NEW src \in Key, NEW dst \in Key,
           IsList(d[src]), d[src] # <<>>, d[dst] # Str
    PROVE  LET e == [d EXCEPT ![src] = Front(d[src])]
               f == [e EXCEPT ![dst] = Push(e[dst], Last(d[src]))]
           IN  Replayed(Shown(d), Item("rpoplpush", src, dst)) = Shown(f)
  <1> DEFINE e == [d EXCEPT ![src] = Front(d[src])]
             f == [e EXCEPT ![dst] = Push(e[dst], Last(d[src]))]
             x == Last(d[src])
             e2 == [Shown(d) EXCEPT ![src] = Front(d[src])]
             f2 == [e2 EXCEPT ![dst] = Push(e2[dst], x)]
  <1>1. Stored(d[src]) = d[src] /\ d[src] \in Seq(Nat)
    BY StoredFacts, ListIsSeq
  <1>2. Front(d[src]) \in Seq(Nat) /\ x \in Nat /\ Front(d[src]) \in Value
        /\ Front(d[src]) # Str
    BY <1>1, PopFacts, Constants DEF Value
  <1>3. Replayed(Shown(d), Item("rpoplpush", src, dst)) = [f2 EXCEPT ![src] = Stored(f2[src])]
    BY <1>1 DEF Replayed, Item, Shown
  <1>4. e \in [Key -> Value] /\ e[dst] # Str /\ e[dst] \in Value
    BY <1>2
  <1>5. Push(e[dst], x) = Push(e2[dst], x) /\ Stored(Push(e[dst], x)) = Push(e[dst], x)
    <2>1. CASE dst = src
      BY <1>2, <2>1, PushFacts, StoredFacts DEF Shown
    <2>2. CASE dst # src
      <3>1. e2[dst] = Stored(e[dst])
        BY <2>2 DEF Shown
      <3>2. PICK v \in Value : v = e[dst] /\ v # Str
        BY <1>4
      <3>3. Push(Stored(v), x) = Push(v, x) /\ Push(v, x) \in Value /\ Push(v, x) # <<>>
        BY <1>2, <3>2, PushFacts
      <3>4. Stored(Push(v, x)) = Push(v, x)
        BY <3>3, StoredFacts
      <3> HIDE DEF e, e2
      <3> QED BY <3>1, <3>2, <3>3, <3>4
    <2> QED BY <2>1, <2>2
  <1>6. ASSUME NEW k \in Key
        PROVE  [f2 EXCEPT ![src] = Stored(f2[src])][k] = Stored(f[k])
    <2>1. CASE k = dst
      BY <1>2, <1>5, <2>1 DEF Shown
    <2>2. CASE k # dst /\ k = src
      BY <1>2, <2>2 DEF Shown
    <2>3. CASE k # dst /\ k # src
      BY <2>3 DEF Shown
    <2> QED BY <2>1, <2>2, <2>3
  <1>7. DOMAIN [f2 EXCEPT ![src] = Stored(f2[src])] = Key
    BY DEF Shown
  <1>8. [f2 EXCEPT ![src] = Stored(f2[src])] = [k \in Key |-> [f2 EXCEPT ![src] = Stored(f2[src])][k]]
    BY <1>7
  <1> HIDE DEF f, f2
  <1>9. Replayed(Shown(d), Item("rpoplpush", src, dst)) = Shown(f)
    BY <1>3, <1>6, <1>8 DEF Shown
  <1> QED BY <1>9 DEF f

-----------------------------------------------------------------------------
(* What holds of the state all through a step, in terms of the state the step found. *)

\* Whoever watches the key is flagged.
Told(s, k) == \A c \in Client : k \in watched_keys[c] => c \in s.dirty_cas

Lasting(s) == \A k \in Key : s.db[k] = None => s.expires[k] = "no"

\* The lists of the keys and the commands of the clients agree.
Listed(s) ==
    \A k \in Key : /\ IsInjective(s.blocking_keys[k])
                   /\ ToSet(s.blocking_keys[k]) =
                         {c \in Client : s.bpop[c] # None /\ k \in ToSet(s.bpop[c].keys)}

\* A list that somebody waits for is one that is still to be served.
Signaled(s) ==
    \A k \in Key : IsList(s.db[k]) /\ s.blocking_keys[k] # <<>>
                      => k \in s.renamed \/ k \in ToSet(s.ready_keys)

\* A client that is not flagged finds what it watches as it was, or expired.
Unchanged(s, c, k) ==
    \/ s.db[k] = watched[c][k].val /\ (s.expires[k] # "no" => watched[c][k].ttl)
    \/ s.db[k] = None /\ watched[c][k].ttl
Watchful(s) ==
    /\ \A k \in ToSet(s.ready_keys) : Told(s, k)
    /\ \A c \in Client : \A k \in watched_keys[c] : c \in s.dirty_cas \/ Unchanged(s, c, k)

InStep(s) == Reached(s.copy) = Shown(s.db)

\* Pairs of clients of which the second may stand behind the first.
Behind == arrived \cup {p \in Client \X Client : bpop[p[1]] # None /\ bpop[p[2]] = None}
Arranged(list) == \A i, j \in DOMAIN list : i < j => <<list[i], list[j]>> \in Behind
Ordered(s) ==
    /\ \A k \in Key : Arranged(s.blocking_keys[k])
    /\ \A c \in Client : s.bpop[c] # None /\ bpop[c] # None => s.bpop[c] = bpop[c]
    /\ \A p \in arrived : \A k \in Key :
          <<p[2], k>> \in s.served /\ k \in ToSet(bpop[p[1]].keys) => s.bpop[p[1]] = None

Good(s) ==
    /\ s \in State
    /\ Lasting(s) /\ Listed(s) /\ Signaled(s) /\ Watchful(s) /\ InStep(s) /\ Ordered(s)

\* From s to t the data change as item says, and nobody's blocking.
DataStep(s, t, item) ==
    /\ t \in State /\ Lasting(t)
    /\ t.bpop = s.bpop /\ t.blocking_keys = s.blocking_keys /\ t.served = s.served
    /\ item.op \notin {"multi", "exec"}
    /\ t.copy = Received(s.copy, item)
    /\ Replayed(Shown(s.db), item) = Shown(t.db)
    /\ s.dirty_cas \subseteq t.dirty_cas
    /\ \A k \in Key : \/ Told(t, k)
                      \/ t.db[k] = s.db[k] /\ (t.expires[k] # "no" => s.expires[k] # "no")
                      \/ s.expires[k] # "no" /\ t.db[k] = None
    /\ \A k \in Key : IsList(t.db[k]) /\ s.blocking_keys[k] # <<>>
                         => \/ IsList(s.db[k]) /\ (k \in s.renamed => k \in t.renamed)
                            \/ k \in t.renamed \/ k \in ToSet(t.ready_keys)
    /\ ToSet(s.ready_keys) \subseteq ToSet(t.ready_keys)
    /\ \A k \in ToSet(t.ready_keys) : k \in ToSet(s.ready_keys) \/ Told(t, k)

\* The types of the parts of a state.
LEMMA StateFields ==
    ASSUME NEW s \in State
    PROVE  /\ s.db \in [Key -> Value] /\ s.expires \in [Key -> {"no", "set", "past"}]
           /\ s.dirty_cas \in SUBSET Client /\ s.bpop \in [Client -> Blocking \cup {None}]
           /\ s.blocking_keys \in [Key -> Seq(Client)] /\ s.copy \in Slave
           /\ s.renamed \in SUBSET Key /\ s.ready_keys \in Seq(Key)
           /\ s.served \in SUBSET (Client \X Key) /\ s.must_propagate \in BOOLEAN
  BY DEF State

\* Keys that are ready are keys.
LEMMA ReadyKeys ==
    ASSUME NEW S, NEW q \in Seq(S)
    PROVE  ToSet(q) \subseteq S
  BY DEF ToSet

\* Such a change keeps everything.
LEMMA DataStepGood ==
    ASSUME watched_keys \in [Client -> SUBSET Key],
           NEW s, Good(s), NEW t, NEW item, DataStep(s, t, item)
    PROVE  Good(t)
  <1>1. s \in State /\ t \in State
    BY DEF Good, DataStep
  <1>2. Listed(t)
    BY DEF Good, DataStep, Listed
  <1>3. Signaled(t)
    BY DEF Good, DataStep, Signaled
  <1>4. Watchful(t)
    <2>1. ASSUME NEW k \in ToSet(t.ready_keys)
          PROVE  Told(t, k)
      BY <2>1 DEF Good, DataStep, Watchful, Told
    <2>2. ASSUME NEW c \in Client, NEW k \in watched_keys[c], c \notin t.dirty_cas
          PROVE  Unchanged(t, c, k)
      <3>1. k \in Key
        OBVIOUS
      <3>2. c \notin s.dirty_cas /\ Unchanged(s, c, k) /\ ~Told(t, k)
        BY <2>2 DEF Good, DataStep, Watchful, Told
      <3>3. CASE t.db[k] = s.db[k] /\ (t.expires[k] # "no" => s.expires[k] # "no")
        BY <3>2, <3>3 DEF Unchanged
      <3>4. CASE s.expires[k] # "no" /\ t.db[k] = None
        <4>1. s.db[k] # None
          BY <3>1, <3>4 DEF Good, Lasting
        <4> QED BY <3>2, <3>4, <4>1 DEF Unchanged
      <3> QED BY <3>1, <3>2, <3>3, <3>4 DEF DataStep
    <2> QED BY <2>1, <2>2 DEF Watchful
  <1>5. InStep(t)
    <2>1. s.copy \in Slave /\ Reached(s.copy) = Shown(s.db) /\ t.db \in [Key -> Value]
      BY <1>1, StateFields DEF Good, InStep
    <2>2. Replayed(Reached(s.copy), item) = Shown(t.db) /\ Shown(t.db) \in [Key -> Value]
      BY <2>1, ShownType DEF DataStep
    <2>3. Reached(Received(s.copy, item)) = Shown(t.db)
      BY <2>1, <2>2, ReceivedItem DEF DataStep
    <2> QED BY <2>3 DEF DataStep, InStep
  <1>6. Ordered(t)
    BY DEF Good, DataStep, Ordered
  <1> QED BY <1>1, <1>2, <1>3, <1>4, <1>5, <1>6 DEF Good, DataStep

-----------------------------------------------------------------------------
(* Who is blocked. *)

\* A client that leaves a list leaves the others in order.
LEMMA WithoutFacts ==
    ASSUME NEW list \in Seq(Client), IsInjective(list), NEW c
    PROVE  /\ Without(list, c) \in Seq(Client) /\ IsInjective(Without(list, c))
           /\ ToSet(Without(list, c)) = ToSet(list) \ {c}
           /\ Arranged(list) => Arranged(Without(list, c))
  <1>1. CASE c \notin ToSet(list)
    BY <1>1 DEF Without
  <1>2. CASE c \in ToSet(list)
    <2> DEFINE p == CHOOSE i \in DOMAIN list : list[i] = c
               n == Len(list)
               w == RemoveAt(list, p)
    <2>1. n \in Nat /\ DOMAIN list = 1..n
      BY LenProperties
    <2>2. p \in 1..n /\ list[p] = c
      BY <1>2, <2>1 DEF ToSet
    <2> HIDE DEF p
    <2>3. /\ w \in Seq(Client) /\ Len(w) = n - 1
          /\ \A i \in 1..n - 1 : w[i] = IF i < p THEN list[i] ELSE list[i + 1]
      <3>1. /\ SubSeq(list, 1, p - 1) \in Seq(Client) /\ Len(SubSeq(list, 1, p - 1)) = p - 1
            /\ \A i \in 1..p - 1 : SubSeq(list, 1, p - 1)[i] = list[i]
        BY <2>1, <2>2
      <3>2. /\ SubSeq(list, p + 1, n) \in Seq(Client) /\ Len(SubSeq(list, p + 1, n)) = n - p
            /\ \A i \in 1..n - p : SubSeq(list, p + 1, n)[i] = list[p + i]
        <4>1. p + 1 \in 1..n + 1 /\ n \in p..n /\ p = (p + 1) - 1 /\ n - (p + 1) + 1 = n - p
          BY <2>1, <2>2
        <4>2. /\ SubSeq(list, p + 1, n) \in Seq(Client)
              /\ Len(SubSeq(list, p + 1, n)) = n - (p + 1) + 1
              /\ \A i \in 1..n - (p + 1) + 1 : SubSeq(list, p + 1, n)[i] = list[(p + 1) + i - 1]
          BY <4>1, SubSeqProperties
        <4>3. \A i \in 1..n - p : (p + 1) + i - 1 = p + i
          BY <2>1, <2>2
        <4> QED BY <4>1, <4>2, <4>3
      <3>3. PICK a \in Seq(Client), b \in Seq(Client) :
               a = SubSeq(list, 1, p - 1) /\ b = SubSeq(list, p + 1, n)
        BY <3>1, <3>2
      <3>4. w = a \o b
        BY <3>3 DEF RemoveAt
      <3>5. /\ a \o b \in Seq(Client) /\ Len(a \o b) = Len(a) + Len(b)
            /\ \A i \in 1..Len(a) + Len(b) : (a \o b)[i] = IF i <= Len(a) THEN a[i]
                                                         ELSE b[i - Len(a)]
        BY <3>3, ConcatProperties
      <3>6. ASSUME NEW i \in 1..n - 1
            PROVE  w[i] = IF i < p THEN list[i] ELSE list[i + 1]
        <4>1. CASE i < p
          <5>1. i \in 1..p - 1 /\ i <= p - 1 /\ i \in 1..(p - 1) + (n - p)
            BY <2>1, <2>2, <4>1
          <5> QED BY <3>1, <3>2, <3>3, <3>4, <3>5, <4>1, <5>1
        <4>2. CASE ~(i < p)
          <5>1. ~(i <= p - 1) /\ i \in 1..(p - 1) + (n - p) /\ i - (p - 1) \in 1..n - p
                /\ p + (i - (p - 1)) = i + 1
            BY <2>1, <2>2, <4>2
          <5>2. Len(a) = p - 1 /\ Len(b) = n - p
            BY <3>1, <3>2, <3>3
          <5>3. w[i] = b[i - (p - 1)]
            BY <3>4, <3>5, <5>1, <5>2
          <5>4. b[i - (p - 1)] = list[i + 1]
            BY <3>2, <3>3, <5>1
          <5> QED BY <4>2, <5>3, <5>4
        <4> QED BY <4>1, <4>2
      <3>7. Len(w) = n - 1
        <4>1. Len(a) = p - 1 /\ Len(b) = n - p
          BY <3>1, <3>2, <3>3
        <4>2. (p - 1) + (n - p) = n - 1
          BY <2>1, <2>2
        <4> QED BY <3>4, <3>5, <4>1, <4>2
      <3> QED BY <3>4, <3>5, <3>6, <3>7
    <2>4. Without(list, c) = w
      BY <1>2 DEF Without, p
    <2>5. DOMAIN w = 1..n - 1
      BY <2>3, LenProperties
    <2> DEFINE q(i) == IF i < p THEN i ELSE i + 1
    <2>6. \A i \in 1..n - 1 : q(i) \in 1..n /\ q(i) # p /\ w[i] = list[q(i)]
      BY <2>1, <2>2, <2>3
    <2>7. \A i, j \in 1..n - 1 : (i < j => q(i) < q(j)) /\ (q(i) = q(j) => i = j)
      BY <2>1, <2>2
    <2>8. \A i \in 1..n : i # p => \E j \in 1..n - 1 : q(j) = i
      <3> SUFFICES ASSUME NEW i \in 1..n, i # p PROVE \E j \in 1..n - 1 : q(j) = i
        OBVIOUS
      <3>1. CASE i < p
        BY <2>1, <2>2, <3>1
      <3>2. CASE i > p
        <4>1. i - 1 \in 1..n - 1 /\ q(i - 1) = i
          BY <2>1, <2>2, <3>2
        <4> QED BY <4>1
      <3> QED BY <2>1, <2>2, <3>1, <3>2
    <2> HIDE DEF q, w, n
    <2>9. IsInjective(w)
      BY <2>1, <2>5, <2>6, <2>7 DEF IsInjective
    <2>10. ToSet(w) = ToSet(list) \ {c}
      <3>1. ASSUME NEW x \in ToSet(w) PROVE x \in ToSet(list) \ {c}
        <4>1. PICK i \in 1..n - 1 : x = w[i]
          BY <2>5 DEF ToSet
        <4>2. list[q(i)] # c
          BY <2>1, <2>2, <2>6 DEF IsInjective
        <4> QED BY <2>1, <2>6, <4>1, <4>2 DEF ToSet
      <3>2. ASSUME NEW x \in ToSet(list), x # c PROVE x \in ToSet(w)
        <4>1. PICK i \in 1..n : x = list[i]
          BY <2>1 DEF ToSet
        <4>2. PICK j \in 1..n - 1 : q(j) = i
          BY <2>2, <2>8, <3>2, <4>1
        <4> QED BY <2>5, <2>6, <4>1, <4>2 DEF ToSet
      <3> QED BY <3>1, <3>2
    <2>11. Arranged(list) => Arranged(w)
      BY <2>1, <2>5, <2>6, <2>7 DEF Arranged
    <2> QED BY <2>3, <2>4, <2>9, <2>10, <2>11
  <1> QED BY <1>1, <1>2

\* Joining.
LEMMA JoinFacts ==
    ASSUME NEW S, NEW list \in Seq(S), IsInjective(list), NEW c \in S, c \notin ToSet(list)
    PROVE  /\ Append(list, c) \in Seq(S) /\ IsInjective(Append(list, c))
           /\ ToSet(Append(list, c)) = ToSet(list) \cup {c}
           /\ Arranged(list) /\ (\A d \in ToSet(list) : <<d, c>> \in Behind)
                 => Arranged(Append(list, c))
  <1> DEFINE n == Len(list)
             w == Append(list, c)
  <1>1. n \in Nat /\ DOMAIN list = 1..n
    BY LenProperties
  <1>2. /\ w \in Seq(S) /\ Len(w) = n + 1 /\ w[n + 1] = c
        /\ \A i \in 1..n : w[i] = list[i]
    BY AppendProperties
  <1>3. DOMAIN w = 1..n + 1
    BY <1>2, LenProperties
  <1> HIDE DEF w, n
  <1>4. IsInjective(w)
    BY <1>1, <1>2, <1>3 DEF IsInjective, ToSet
  <1>5. ToSet(w) = ToSet(list) \cup {c}
    <2>1. ASSUME NEW x \in ToSet(w) PROVE x \in ToSet(list) \cup {c}
      <3>1. PICK i \in 1..n + 1 : x = w[i]
        BY <1>3 DEF ToSet
      <3>2. i \in 1..n \/ i = n + 1
        BY <1>1
      <3> QED BY <1>1, <1>2, <3>1, <3>2 DEF ToSet
    <2>2. ASSUME NEW x \in ToSet(list) PROVE x \in ToSet(w)
      <3>1. PICK i \in 1..n : x = list[i]
        BY <1>1 DEF ToSet
      <3>2. i \in 1..n + 1
        BY <1>1
      <3> QED BY <1>2, <1>3, <3>1, <3>2 DEF ToSet
    <2>3. c \in ToSet(w)
      <3>1. n + 1 \in 1..n + 1
        BY <1>1
      <3> QED BY <1>2, <1>3, <3>1 DEF ToSet
    <2> QED BY <2>1, <2>2, <2>3
  <1>6. ASSUME Arranged(list), \A d \in ToSet(list) : <<d, c>> \in Behind
        PROVE  Arranged(w)
    <2>1. ASSUME NEW i \in 1..n + 1, NEW j \in 1..n + 1, i < j
          PROVE  <<w[i], w[j]>> \in Behind
      <3>1. i \in 1..n /\ (j \in 1..n \/ j = n + 1)
        BY <1>1, <2>1
      <3>2. CASE j \in 1..n
        BY <1>1, <1>2, <1>6, <2>1, <3>1, <3>2 DEF Arranged
      <3>3. CASE j = n + 1
        BY <1>1, <1>2, <1>6, <3>1, <3>3 DEF ToSet
      <3> QED BY <3>1, <3>2, <3>3
    <2> QED BY <1>3, <2>1 DEF Arranged
  <1> QED BY <1>2, <1>4, <1>5, <1>6 DEF w

\* Nothing is in an empty list, and nothing else is empty.
LEMMA EmptyList ==
    ASSUME NEW S, NEW q \in Seq(S)
    PROVE  q = <<>> <=> ToSet(q) = {}
  <1>1. Len(q) \in Nat /\ DOMAIN q = 1..Len(q)
    BY LenProperties
  <1>2. CASE q = <<>>
    BY <1>2 DEF ToSet
  <1>3. CASE q # <<>>
    <2>1. Len(q) # 0
      BY <1>3, EmptySeq
    <2>2. q[1] \in ToSet(q)
      BY <1>1, <2>1 DEF ToSet
    <2> QED BY <1>3, <2>2
  <1> QED BY <1>2, <1>3

\* The fields after a client is unblocked.
LEMMA UnblockFields ==
    ASSUME NEW s \in State, Listed(s), NEW c \in Client
    PROVE  LET u == Unblock(s, c)
           IN  /\ u \in State
               /\ u.bpop = [s.bpop EXCEPT ![c] = None]
               /\ \A k \in Key : u.blocking_keys[k] = Without(s.blocking_keys[k], c)
               /\ u.db = s.db /\ u.expires = s.expires /\ u.dirty_cas = s.dirty_cas
               /\ u.copy = s.copy /\ u.renamed = s.renamed /\ u.ready_keys = s.ready_keys
               /\ u.served = s.served /\ u.must_propagate = s.must_propagate
  <1>1. /\ s.blocking_keys \in [Key -> Seq(Client)]
        /\ s.bpop \in [Client -> Blocking \cup {None}]
    BY StateFields
  <1>2. \A k \in Key : Without(s.blocking_keys[k], c) \in Seq(Client)
    BY <1>1, WithoutFacts DEF Listed
  <1>3. [k \in Key |-> Without(s.blocking_keys[k], c)] \in [Key -> Seq(Client)]
    BY <1>2
  <1>4. [s.bpop EXCEPT ![c] = None] \in [Client -> Blocking \cup {None}]
    BY <1>1
  <1> QED BY <1>3, <1>4 DEF Unblock, State

\* Whoever leaves changes nothing for the others.
LEMMA UnblockGood ==
    ASSUME NEW s, Good(s), NEW c \in Client
    PROVE  Good(Unblock(s, c))
  <1>1. s \in State /\ Lasting(s) /\ Listed(s) /\ Signaled(s) /\ Watchful(s) /\ InStep(s)
        /\ Ordered(s)
    BY DEF Good
  <1>2. PICK u : u = Unblock(s, c)
    OBVIOUS
  <1>3. /\ u \in State
        /\ u.bpop = [s.bpop EXCEPT ![c] = None]
        /\ \A k \in Key : u.blocking_keys[k] = Without(s.blocking_keys[k], c)
        /\ u.db = s.db /\ u.expires = s.expires /\ u.dirty_cas = s.dirty_cas
        /\ u.copy = s.copy /\ u.renamed = s.renamed /\ u.ready_keys = s.ready_keys
        /\ u.served = s.served
    BY <1>1, <1>2, UnblockFields
  <1>4. /\ s.blocking_keys \in [Key -> Seq(Client)]
        /\ s.bpop \in [Client -> Blocking \cup {None}]
        /\ u.blocking_keys \in [Key -> Seq(Client)]
    BY <1>1, <1>3, StateFields
  <1>5. \A k \in Key : /\ IsInjective(u.blocking_keys[k])
                       /\ ToSet(u.blocking_keys[k]) = ToSet(s.blocking_keys[k]) \ {c}
                       /\ Arranged(s.blocking_keys[k]) => Arranged(u.blocking_keys[k])
                       /\ u.blocking_keys[k] # <<>> => s.blocking_keys[k] # <<>>
    <2> SUFFICES ASSUME NEW k \in Key
                 PROVE  /\ IsInjective(u.blocking_keys[k])
                        /\ ToSet(u.blocking_keys[k]) = ToSet(s.blocking_keys[k]) \ {c}
                        /\ Arranged(s.blocking_keys[k]) => Arranged(u.blocking_keys[k])
                        /\ u.blocking_keys[k] # <<>> => s.blocking_keys[k] # <<>>
      OBVIOUS
    <2>1. s.blocking_keys[k] \in Seq(Client) /\ u.blocking_keys[k] \in Seq(Client)
          /\ IsInjective(s.blocking_keys[k])
      BY <1>1, <1>4 DEF Listed
    <2>2. /\ IsInjective(u.blocking_keys[k])
          /\ ToSet(u.blocking_keys[k]) = ToSet(s.blocking_keys[k]) \ {c}
          /\ Arranged(s.blocking_keys[k]) => Arranged(u.blocking_keys[k])
      BY <1>3, <2>1, WithoutFacts
    <2> QED BY <2>1, <2>2, EmptyList
  <1>6. \A d \in Client : u.bpop[d] = IF d = c THEN None ELSE s.bpop[d]
    BY <1>3, <1>4
  <1>7. Lasting(u) /\ Watchful(u) /\ InStep(u)
    BY <1>1, <1>3 DEF Lasting, Watchful, InStep, Told, Unchanged
  <1>8. Listed(u)
    BY <1>1, <1>5, <1>6 DEF Listed
  <1>9. Signaled(u)
    BY <1>1, <1>3, <1>5 DEF Signaled
  <1>10. Ordered(u)
    <2>1. \A k \in Key : Arranged(u.blocking_keys[k])
      BY <1>1, <1>5 DEF Ordered
    <2>2. \A d \in Client : u.bpop[d] # None /\ bpop[d] # None => u.bpop[d] = bpop[d]
      BY <1>1, <1>6 DEF Ordered
    <2>3. ASSUME NEW p \in arrived, NEW k \in Key,
                 <<p[2], k>> \in u.served, k \in ToSet(bpop[p[1]].keys)
          PROVE  u.bpop[p[1]] = None
      BY <1>1, <1>3, <1>4, <2>3 DEF Ordered
    <2> QED BY <2>1, <2>2, <2>3 DEF Ordered
  <1>11. Good(u)
    BY <1>3, <1>7, <1>8, <1>9, <1>10 DEF Good
  <1> QED BY <1>2, <1>11

\* Who is in arrived is blocked, and one of two was first.
ArrivedInv ==
    \A p \in arrived : /\ <<p[2], p[1]>> \notin arrived
                       /\ bpop[p[1]] # None /\ bpop[p[2]] # None

\* The first in the list of a key can be served: nobody who was there before waits.
LEMMA ServedGood ==
    ASSUME arrived \subseteq Client \X Client, ArrivedInv,
           NEW s, Good(s), NEW k \in Key, s.blocking_keys[k] # <<>>
    PROVE  LET c == Head(s.blocking_keys[k])
               u == Unblock(s, c)
           IN  c \in Client /\ s.bpop[c] # None /\ Good([u EXCEPT !.served = @ \cup {<<c, k>>}])
  <1>1. s \in State /\ Listed(s) /\ Ordered(s)
    BY DEF Good
  <1>2. /\ s.blocking_keys[k] \in Seq(Client)
        /\ s.bpop \in [Client -> Blocking \cup {None}]
    BY <1>1, StateFields
  <1>3. PICK c \in Client : c = Head(s.blocking_keys[k])
    BY <1>2, HeadTailProperties
  <1>4. /\ DOMAIN s.blocking_keys[k] = 1..Len(s.blocking_keys[k])
        /\ Len(s.blocking_keys[k]) \in Nat /\ Len(s.blocking_keys[k]) # 0
        /\ s.blocking_keys[k][1] = c
    BY <1>2, <1>3, LenProperties, EmptySeq
  <1>5. c \in ToSet(s.blocking_keys[k]) /\ s.bpop[c] # None
    <2>1. c \in ToSet(s.blocking_keys[k])
      BY <1>4 DEF ToSet
    <2> QED BY <1>1, <2>1 DEF Listed
  <1>6. PICK u : u = Unblock(s, c)
    OBVIOUS
  <1>7. Good(u)
    BY <1>6, UnblockGood
  <1>8. /\ u \in State /\ u.bpop = [s.bpop EXCEPT ![c] = None] /\ u.served = s.served
    BY <1>1, <1>6, UnblockFields
  <1>9. PICK t : t = [u EXCEPT !.served = @ \cup {<<c, k>>}]
    OBVIOUS
  <1>10. /\ t \in State /\ t.served = s.served \cup {<<c, k>>}
         /\ t.bpop = u.bpop /\ t.blocking_keys = u.blocking_keys
         /\ t.db = u.db /\ t.expires = u.expires /\ t.dirty_cas = u.dirty_cas
         /\ t.copy = u.copy /\ t.renamed = u.renamed /\ t.ready_keys = u.ready_keys
    <2>1. u.served \cup {<<c, k>>} \in SUBSET (Client \X Key)
      BY <1>8, StateFields
    <2> QED BY <1>8, <1>9, <2>1 DEF State
  <1>11. ASSUME NEW p \in arrived, p[2] = c, k \in ToSet(bpop[p[1]].keys)
         PROVE  t.bpop[p[1]] = None
    <2>1. PICK a \in Client : p = <<a, c>>
      BY <1>11
    <2>2. bpop[a] # None /\ <<c, a>> \notin arrived /\ a # c
      BY <1>11, <2>1 DEF ArrivedInv
    <2>3. SUFFICES ASSUME s.bpop[a] # None PROVE FALSE
      BY <1>2, <1>8, <1>10, <2>1, <2>2
    <2>4. s.bpop[a] = bpop[a]
      BY <1>1, <2>2, <2>3 DEF Ordered
    <2>5. a \in ToSet(s.blocking_keys[k])
      BY <1>1, <1>11, <2>1, <2>3, <2>4 DEF Listed
    <2>6. PICK j \in DOMAIN s.blocking_keys[k] : s.blocking_keys[k][j] = a
      BY <2>5 DEF ToSet
    <2>7. 1 \in DOMAIN s.blocking_keys[k] /\ 1 < j
      BY <1>4, <2>2, <2>6
    <2>8. <<c, a>> \in Behind
      BY <1>1, <1>4, <2>6, <2>7 DEF Ordered, Arranged
    <2>9. bpop[a] = None
      BY <2>2, <2>8 DEF Behind
    <2> QED BY <2>2, <2>9
  <1>12. ASSUME NEW p \in arrived, NEW l \in Key,
                <<p[2], l>> \in t.served, l \in ToSet(bpop[p[1]].keys)
         PROVE  t.bpop[p[1]] = None
    <2>1. CASE <<p[2], l>> \in u.served
      BY <1>7, <1>10, <1>12, <2>1 DEF Good, Ordered
    <2>2. CASE <<p[2], l>> = <<c, k>>
      BY <1>11, <1>12, <2>2
    <2> QED BY <1>8, <1>10, <1>12, <2>1, <2>2
  <1>13. Ordered(t)
    BY <1>7, <1>10, <1>12 DEF Good, Ordered
  <1>14. Lasting(t) /\ Listed(t) /\ Signaled(t) /\ Watchful(t) /\ InStep(t)
    BY <1>7, <1>10 DEF Good, Lasting, Listed, Signaled, Watchful, InStep, Told, Unchanged
  <1>15. Good(t)
    BY <1>10, <1>13, <1>14 DEF Good
  <1> QED BY <1>3, <1>5, <1>6, <1>9, <1>15

\* A client that finds nothing joins the lists of its keys.
LEMMA BlockGood ==
    ASSUME bpop \in [Client -> Blocking \cup {None}],
           arrived \subseteq Client \X Client, ArrivedInv,
           NEW s, Good(s), s.bpop = bpop, NEW c \in Client, bpop[c] = None,
           NEW cmd \in Blocking, \A k \in ToSet(cmd.keys) : s.db[k] = None
    PROVE  Good(BlockFor(s, c, cmd))
  <1>1. s \in State /\ Lasting(s) /\ Listed(s) /\ Signaled(s) /\ Watchful(s) /\ InStep(s)
        /\ Ordered(s)
    BY DEF Good
  <1>2. PICK t : t = BlockFor(s, c, cmd)
    OBVIOUS
  <1>3. /\ s.blocking_keys \in [Key -> Seq(Client)]
        /\ s.bpop \in [Client -> Blocking \cup {None}]
        /\ s.db \in [Key -> Value]
    BY <1>1, StateFields
  <1>4. cmd # None
    BY Constants DEF Blocking
  <1>5. ASSUME NEW k \in Key
        PROVE  /\ s.blocking_keys[k] \in Seq(Client) /\ IsInjective(s.blocking_keys[k])
               /\ c \notin ToSet(s.blocking_keys[k])
               /\ \A d \in ToSet(s.blocking_keys[k]) : <<d, c>> \in Behind
               /\ Arranged(s.blocking_keys[k])
    BY <1>1, <1>3 DEF Listed, Ordered, Behind
  <1>6. ASSUME NEW k \in Key
        PROVE  LET l == Append(s.blocking_keys[k], c)
               IN  /\ l \in Seq(Client) /\ IsInjective(l) /\ Arranged(l)
                   /\ ToSet(l) = ToSet(s.blocking_keys[k]) \cup {c}
    BY <1>5, JoinFacts
  <1>7. /\ t \in State /\ t.bpop = [bpop EXCEPT ![c] = cmd]
        /\ \A k \in Key : t.blocking_keys[k] = IF k \in ToSet(cmd.keys)
                             THEN Append(s.blocking_keys[k], c) ELSE s.blocking_keys[k]
        /\ t.served = s.served /\ t.must_propagate = s.must_propagate
        /\ t.db = s.db /\ t.expires = s.expires /\ t.dirty_cas = s.dirty_cas
        /\ t.copy = s.copy /\ t.renamed = s.renamed /\ t.ready_keys = s.ready_keys
    <2>1. [k \in Key |-> IF k \in ToSet(cmd.keys) THEN Append(s.blocking_keys[k], c)
                                                 ELSE s.blocking_keys[k]]
            \in [Key -> Seq(Client)]
      BY <1>3, <1>6
    <2>2. [s.bpop EXCEPT ![c] = cmd] \in [Client -> Blocking \cup {None}]
      BY <1>3
    <2> QED BY <1>1, <1>2, <2>1, <2>2 DEF BlockFor, State
  <1>8. \A d \in Client : t.bpop[d] = IF d = c THEN cmd ELSE bpop[d]
    BY <1>7
  <1>9. Lasting(t) /\ Watchful(t) /\ InStep(t)
    BY <1>1, <1>7 DEF Lasting, Watchful, InStep, Told, Unchanged
  <1>10. Listed(t)
    <2> SUFFICES ASSUME NEW k \in Key
                 PROVE  /\ IsInjective(t.blocking_keys[k])
                        /\ ToSet(t.blocking_keys[k]) =
                              {d \in Client : t.bpop[d] # None /\ k \in ToSet(t.bpop[d].keys)}
      BY DEF Listed
    <2>1. CASE k \in ToSet(cmd.keys)
      <3>1. /\ IsInjective(t.blocking_keys[k])
            /\ ToSet(t.blocking_keys[k]) = ToSet(s.blocking_keys[k]) \cup {c}
        BY <1>6, <1>7, <2>1
      <3>2. ToSet(s.blocking_keys[k]) =
               {d \in Client : bpop[d] # None /\ k \in ToSet(bpop[d].keys)}
        BY <1>1 DEF Listed
      <3>3. ASSUME NEW d \in Client
            PROVE  d \in ToSet(t.blocking_keys[k])
                      <=> t.bpop[d] # None /\ k \in ToSet(t.bpop[d].keys)
        BY <1>4, <1>8, <2>1, <3>1, <3>2
      <3>4. ToSet(t.blocking_keys[k]) \subseteq Client
        BY <3>1, <3>2
      <3> QED BY <3>1, <3>3, <3>4
    <2>2. CASE k \notin ToSet(cmd.keys)
      <3>1. ToSet(s.blocking_keys[k]) =
               {d \in Client : bpop[d] # None /\ k \in ToSet(bpop[d].keys)}
        BY <1>1 DEF Listed
      <3>2. \A d \in Client : (t.bpop[d] # None /\ k \in ToSet(t.bpop[d].keys))
                                 <=> (bpop[d] # None /\ k \in ToSet(bpop[d].keys))
        BY <1>8, <2>2
      <3> QED BY <1>5, <1>7, <2>2, <3>1, <3>2
    <2> QED BY <2>1, <2>2
  <1>11. Signaled(t)
    <2> SUFFICES ASSUME NEW k \in Key, IsList(t.db[k]), t.blocking_keys[k] # <<>>
                 PROVE  k \in t.renamed \/ k \in ToSet(t.ready_keys)
      BY DEF Signaled
    <2>1. k \notin ToSet(cmd.keys)
      BY <1>7 DEF IsList
    <2> QED BY <1>1, <1>7, <2>1 DEF Signaled
  <1>12. Ordered(t)
    <2>1. \A k \in Key : Arranged(t.blocking_keys[k])
      BY <1>5, <1>6, <1>7
    <2>2. \A d \in Client : t.bpop[d] # None /\ bpop[d] # None => t.bpop[d] = bpop[d]
      BY <1>8
    <2>3. ASSUME NEW p \in arrived, NEW k \in Key,
                 <<p[2], k>> \in t.served, k \in ToSet(bpop[p[1]].keys)
          PROVE  t.bpop[p[1]] = None
      <3>1. p[1] \in Client /\ p[1] # c
        BY DEF ArrivedInv
      <3>2. s.bpop[p[1]] = None
        BY <1>1, <1>7, <2>3 DEF Ordered
      <3> QED BY <1>8, <3>1, <3>2
    <2> QED BY <2>1, <2>2, <2>3 DEF Ordered
  <1>13. Good(t)
    BY <1>7, <1>9, <1>10, <1>11, <1>12 DEF Good
  <1> QED BY <1>2, <1>7, <1>13

-----------------------------------------------------------------------------
(* The steps every command is made of. *)

\* Nobody's blocking changes, nor what is open in the stream.
Kept(s, t) ==
    /\ t.bpop = s.bpop /\ t.blocking_keys = s.blocking_keys /\ t.served = s.served
    /\ t.must_propagate = s.must_propagate /\ t.copy.multi = s.copy.multi

\* touchWatchedKey.
LEMMA TouchFields ==
    ASSUME NEW s \in State, NEW k \in Key
    PROVE  LET t == Touch(s, k)
           IN  /\ t \in State /\ Told(t, k) /\ s.dirty_cas \subseteq t.dirty_cas
               /\ t.db = s.db /\ t.expires = s.expires /\ t.bpop = s.bpop
               /\ t.blocking_keys = s.blocking_keys /\ t.copy = s.copy
               /\ t.renamed = s.renamed /\ t.ready_keys = s.ready_keys
               /\ t.served = s.served /\ t.must_propagate = s.must_propagate
  <1>1. PICK t : t = Touch(s, k)
    OBVIOUS
  <1>2. s.dirty_cas \cup {c \in Client : k \in watched_keys[c]} \in SUBSET Client
    BY StateFields
  <1>3. /\ t \in State /\ t.dirty_cas = s.dirty_cas \cup {c \in Client : k \in watched_keys[c]}
        /\ t.db = s.db /\ t.expires = s.expires /\ t.bpop = s.bpop
        /\ t.blocking_keys = s.blocking_keys /\ t.copy = s.copy
        /\ t.renamed = s.renamed /\ t.ready_keys = s.ready_keys
        /\ t.served = s.served /\ t.must_propagate = s.must_propagate
    BY <1>1, <1>2 DEF Touch, State
  <1> QED BY <1>1, <1>3 DEF Told

\* propagate, of anything but a bracket.
LEMMA PropagateFields ==
    ASSUME NEW s \in State, NEW item, Received(s.copy, item) \in Slave
    PROVE  LET t == Propagate(s, item)
           IN  /\ t \in State /\ t.copy = Received(s.copy, item)
               /\ t.db = s.db /\ t.expires = s.expires /\ t.bpop = s.bpop
               /\ t.blocking_keys = s.blocking_keys /\ t.dirty_cas = s.dirty_cas
               /\ t.renamed = s.renamed /\ t.ready_keys = s.ready_keys
               /\ t.served = s.served /\ t.must_propagate = s.must_propagate
  BY DEF Propagate, State

\* dbDelete.
LEMMA DeleteFields ==
    ASSUME NEW s \in State, NEW k \in Key
    PROVE  LET t == Delete(s, k)
           IN  /\ t \in State
               /\ t.db = [s.db EXCEPT ![k] = None]
               /\ t.expires = [s.expires EXCEPT ![k] = "no"]
               /\ t.bpop = s.bpop /\ t.copy = s.copy
               /\ t.blocking_keys = s.blocking_keys /\ t.dirty_cas = s.dirty_cas
               /\ t.renamed = s.renamed /\ t.ready_keys = s.ready_keys
               /\ t.served = s.served /\ t.must_propagate = s.must_propagate
  <1>1. /\ [s.db EXCEPT ![k] = None] \in [Key -> Value]
        /\ [s.expires EXCEPT ![k] = "no"] \in [Key -> {"no", "set", "past"}]
    BY StateFields DEF Value
  <1> QED BY <1>1 DEF Delete, State

\* From s to u the data change as item says, which is not propagated yet.
Change(s, u, item) ==
    /\ u \in State /\ Lasting(u) /\ u.copy = s.copy
    /\ u.bpop = s.bpop /\ u.blocking_keys = s.blocking_keys /\ u.served = s.served
    /\ u.must_propagate = s.must_propagate
    /\ item.op \notin {"multi", "exec"} /\ Replayed(Shown(s.db), item) = Shown(u.db)
    /\ s.dirty_cas \subseteq u.dirty_cas
    /\ \A k \in Key : \/ Told(u, k)
                      \/ u.db[k] = s.db[k] /\ (u.expires[k] # "no" => s.expires[k] # "no")
                      \/ s.expires[k] # "no" /\ u.db[k] = None
    /\ \A k \in Key : IsList(u.db[k]) /\ s.blocking_keys[k] # <<>>
                         => \/ IsList(s.db[k]) /\ (k \in s.renamed => k \in u.renamed)
                            \/ k \in u.renamed \/ k \in ToSet(u.ready_keys)
    /\ ToSet(s.ready_keys) \subseteq ToSet(u.ready_keys)
    /\ \A k \in ToSet(u.ready_keys) : k \in ToSet(s.ready_keys) \/ Told(u, k)

\* When it is propagated, all is well.
LEMMA PropagatedGood ==
    ASSUME watched_keys \in [Client -> SUBSET Key], NEW s, Good(s),
           NEW u, NEW item, Change(s, u, item)
    PROVE  LET t == Propagate(u, item)
           IN  /\ Good(t) /\ Kept(s, t) /\ t \in State
               /\ t.db = u.db /\ t.expires = u.expires /\ t.ready_keys = u.ready_keys
               /\ t.dirty_cas = u.dirty_cas /\ t.renamed = u.renamed
  <1>1. s \in State /\ InStep(s) /\ s.copy \in Slave /\ u \in State
    BY StateFields DEF Good, Change
  <1>2. Shown(u.db) \in [Key -> Value]
    BY <1>1, StateFields, ShownType
  <1>3. /\ Received(s.copy, item) \in Slave
        /\ Received(s.copy, item).multi = s.copy.multi
    BY <1>1, <1>2, ReceivedItem DEF InStep, Change
  <1>4. PICK t : t = Propagate(u, item)
    OBVIOUS
  <1>5. /\ t \in State /\ t.copy = Received(s.copy, item)
        /\ t.db = u.db /\ t.expires = u.expires /\ t.bpop = u.bpop
        /\ t.blocking_keys = u.blocking_keys /\ t.dirty_cas = u.dirty_cas
        /\ t.renamed = u.renamed /\ t.ready_keys = u.ready_keys
        /\ t.served = u.served /\ t.must_propagate = u.must_propagate
    BY <1>1, <1>3, <1>4, PropagateFields DEF Change
  <1>6. \A k \in Key : Told(u, k) <=> Told(t, k)
    BY <1>5 DEF Told
  <1>7. Lasting(t)
    BY <1>5 DEF Lasting, Change
  <1>8. ToSet(u.ready_keys) \subseteq Key
    BY <1>1, StateFields, ReadyKeys
  <1>9. DataStep(s, t, item)
    <2>1. \A k \in Key : \/ Told(t, k)
                         \/ t.db[k] = s.db[k] /\ (t.expires[k] # "no" => s.expires[k] # "no")
                         \/ s.expires[k] # "no" /\ t.db[k] = None
      BY <1>5, <1>6 DEF Change
    <2>2. \A k \in Key : IsList(t.db[k]) /\ s.blocking_keys[k] # <<>>
                            => \/ IsList(s.db[k]) /\ (k \in s.renamed => k \in t.renamed)
                               \/ k \in t.renamed \/ k \in ToSet(t.ready_keys)
      BY <1>5 DEF Change
    <2>3. /\ ToSet(s.ready_keys) \subseteq ToSet(t.ready_keys)
          /\ \A k \in ToSet(t.ready_keys) : k \in ToSet(s.ready_keys) \/ Told(t, k)
      BY <1>5, <1>6, <1>8 DEF Change
    <2> QED BY <1>5, <1>7, <2>1, <2>2, <2>3 DEF DataStep, Change
  <1>10. Good(t)
    BY <1>9, DataStepGood
  <1> QED BY <1>3, <1>4, <1>5, <1>10 DEF Kept, Change

\* expireIfNeeded: afterwards the key is there to stay, or not there.
Expired(s, t, k) ==
    /\ Good(t) /\ Kept(s, t) /\ t \in State
    /\ t.dirty_cas = s.dirty_cas /\ t.renamed = s.renamed
    /\ t.ready_keys = s.ready_keys
    /\ \A j \in Key : IF j = k /\ s.expires[k] = "past"
                        THEN t.db[j] = None /\ t.expires[j] = "no"
                        ELSE t.db[j] = s.db[j] /\ t.expires[j] = s.expires[j]
    /\ s.expires[k] # "past" => t = s

\* expireIfNeeded keeps what is good, and touches one key whose time is past.
LEMMA ExpireGood ==
    ASSUME watched_keys \in [Client -> SUBSET Key], NEW s, Good(s), NEW k \in Key
    PROVE  Expired(s, Expire(s, k), k)
  <1>1. s \in State /\ Lasting(s)
    BY DEF Good
  <1>2. CASE s.expires[k] # "past"
    BY <1>1, <1>2 DEF Expire, Kept, Expired
  <1>3. CASE s.expires[k] = "past"
    <2>1. PICK u : u = Delete(s, k)
      OBVIOUS
    <2>2. /\ u \in State
          /\ u.db = [s.db EXCEPT ![k] = None]
          /\ u.expires = [s.expires EXCEPT ![k] = "no"]
          /\ u.bpop = s.bpop /\ u.copy = s.copy
          /\ u.blocking_keys = s.blocking_keys /\ u.dirty_cas = s.dirty_cas
          /\ u.renamed = s.renamed /\ u.ready_keys = s.ready_keys
          /\ u.served = s.served /\ u.must_propagate = s.must_propagate
      BY <1>1, <2>1, DeleteFields
    <2>3. /\ s.db \in [Key -> Value] /\ s.expires \in [Key -> {"no", "set", "past"}]
      BY <1>1, StateFields
    <2>4. \A j \in Key : /\ u.db[j] = IF j = k THEN None ELSE s.db[j]
                         /\ u.expires[j] = IF j = k THEN "no" ELSE s.expires[j]
      BY <2>2, <2>3
    <2>5. Lasting(u)
      BY <1>1, <2>4 DEF Lasting
    <2>6. PICK item : item = Item("del", k, None)
      OBVIOUS
    <2>7. item.op = "del"
      BY <2>6 DEF Item
    <2>8. Replayed(Shown(s.db), Item("del", k, None)) = Shown([s.db EXCEPT ![k] = None])
      BY <2>3, ReplayedSet
    <2>9. Replayed(Shown(s.db), item) = Shown(u.db)
      BY <2>2, <2>6, <2>8
    <2>10. ASSUME NEW j \in Key
           PROVE  \/ u.db[j] = s.db[j] /\ (u.expires[j] # "no" => s.expires[j] # "no")
                  \/ s.expires[j] # "no" /\ u.db[j] = None
      <3>1. CASE j = k
        BY <1>3, <2>4, <3>1
      <3>2. CASE j # k
        BY <2>4, <3>2
      <3> QED BY <3>1, <3>2
    <2>11. \A j \in Key : IsList(u.db[j]) /\ s.blocking_keys[j] # <<>>
             => \/ IsList(s.db[j]) /\ (j \in s.renamed => j \in u.renamed)
                \/ j \in u.renamed \/ j \in ToSet(u.ready_keys)
      BY <2>2, <2>4 DEF IsList
    <2>12. \A j \in Key : \/ Told(u, j)
                          \/ u.db[j] = s.db[j] /\ (u.expires[j] # "no" => s.expires[j] # "no")
                          \/ s.expires[j] # "no" /\ u.db[j] = None
      BY <2>10
    <2>13. /\ s.dirty_cas \subseteq u.dirty_cas
           /\ ToSet(s.ready_keys) \subseteq ToSet(u.ready_keys)
           /\ \A j \in ToSet(u.ready_keys) : j \in ToSet(s.ready_keys) \/ Told(u, j)
           /\ item.op \notin {"multi", "exec"}
      BY <2>2, <2>7
    <2>14. Expire(s, k) = Propagate(u, item)
      BY <1>3, <2>1, <2>6 DEF Expire
    <2>15. PICK t : t = Propagate(u, item)
      OBVIOUS
    <2>16. /\ Good(t) /\ Kept(s, t) /\ t \in State
           /\ t.db = u.db /\ t.expires = u.expires /\ t.ready_keys = u.ready_keys
           /\ t.dirty_cas = u.dirty_cas /\ t.renamed = u.renamed
      <3>1. Change(s, u, item)
        BY <2>2, <2>5, <2>11, <2>9, <2>12, <2>13 DEF Change
      <3> QED BY <2>15, <3>1, PropagatedGood
    <2>17. Expired(s, t, k)
      BY <1>3, <2>2, <2>4, <2>16 DEF Expired
    <2> QED BY <2>14, <2>15, <2>17
  <1> QED BY <1>2, <1>3

\* signalListAsReady and the push of one element.
Pushed(s, t, k, v) ==
    /\ t \in State /\ Told(t, k) /\ s.dirty_cas \subseteq t.dirty_cas
    /\ t.db = [s.db EXCEPT ![k] = Push(s.db[k], v)]
    /\ t.expires = s.expires /\ t.bpop = s.bpop
    /\ t.blocking_keys = s.blocking_keys /\ t.copy = s.copy
    /\ t.renamed = s.renamed
    /\ t.served = s.served /\ t.must_propagate = s.must_propagate
    /\ ToSet(s.ready_keys) \subseteq ToSet(t.ready_keys)
    /\ ToSet(t.ready_keys) \subseteq ToSet(s.ready_keys) \cup {k}
    /\ s.db[k] = None /\ s.blocking_keys[k] # <<>> => k \in ToSet(t.ready_keys)
    /\ IsInjective(s.ready_keys) => IsInjective(t.ready_keys)
    /\ Len(t.ready_keys) <= Len(s.ready_keys) + 1
    /\ s.ready_keys # <<>>
          => t.ready_keys # <<>> /\ Head(t.ready_keys) = Head(s.ready_keys)

\* What rpoplpushHandlePush and LPUSH change.
LEMMA PushToFields ==
    ASSUME NEW s \in State, NEW k \in Key, s.db[k] # Str, NEW v \in Nat
    PROVE  Pushed(s, PushTo(s, k, v), k, v)
  <1>1. /\ s.db \in [Key -> Value] /\ s.ready_keys \in Seq(Key)
        /\ Len(s.ready_keys) \in Nat
    BY StateFields, LenProperties
  <1>2. Push(s.db[k], v) \in Value
    BY <1>1, PushFacts
  <1>3. PICK q : q = IF s.db[k] = None /\ ~(s.blocking_keys[k] = <<>> \/ k \in ToSet(s.ready_keys))
                       THEN Append(s.ready_keys, k) ELSE s.ready_keys
    OBVIOUS
  <1>4. /\ q \in Seq(Key)
        /\ ToSet(s.ready_keys) \subseteq ToSet(q)
        /\ ToSet(q) \subseteq ToSet(s.ready_keys) \cup {k}
        /\ s.db[k] = None /\ s.blocking_keys[k] # <<>> => k \in ToSet(q)
        /\ IsInjective(s.ready_keys) => IsInjective(q)
        /\ Len(q) <= Len(s.ready_keys) + 1
        /\ s.ready_keys # <<>> => q # <<>> /\ Head(q) = Head(s.ready_keys)
    <2>1. CASE q = s.ready_keys
      BY <1>1, <1>3, <2>1, AppendProperties
    <2>2. CASE k \notin ToSet(s.ready_keys) /\ q = Append(s.ready_keys, k)
      <3>1. /\ q \in Seq(Key) /\ q # <<>> /\ Len(q) = Len(s.ready_keys) + 1
            /\ \A i \in 1..Len(s.ready_keys) : q[i] = s.ready_keys[i]
            /\ q[Len(s.ready_keys) + 1] = k
        BY <1>1, <2>2, AppendProperties
      <3>2. DOMAIN q = 1..Len(s.ready_keys) + 1 /\ DOMAIN s.ready_keys = 1..Len(s.ready_keys)
        BY <1>1, <3>1, LenProperties
      <3>3. ToSet(q) = ToSet(s.ready_keys) \cup {k}
        <4>1. ASSUME NEW x \in ToSet(q) PROVE x \in ToSet(s.ready_keys) \cup {k}
          <5>1. PICK i \in 1..Len(s.ready_keys) + 1 : x = q[i]
            BY <3>2 DEF ToSet
          <5>2. i \in 1..Len(s.ready_keys) \/ i = Len(s.ready_keys) + 1
            BY <1>1
          <5> QED BY <3>1, <3>2, <5>1, <5>2 DEF ToSet
        <4>2. ASSUME NEW x \in ToSet(s.ready_keys) PROVE x \in ToSet(q)
          <5>1. PICK i \in 1..Len(s.ready_keys) : x = s.ready_keys[i]
            BY <3>2 DEF ToSet
          <5>2. i \in 1..Len(s.ready_keys) + 1
            BY <1>1
          <5> QED BY <3>1, <3>2, <5>1, <5>2 DEF ToSet
        <4>3. k \in ToSet(q)
          <5>1. Len(s.ready_keys) + 1 \in 1..Len(s.ready_keys) + 1
            BY <1>1
          <5> QED BY <3>1, <3>2, <5>1 DEF ToSet
        <4> QED BY <4>1, <4>2, <4>3
      <3>4. IsInjective(s.ready_keys) => IsInjective(q)
        BY <1>1, <2>2, JoinFacts
      <3>5. s.ready_keys # <<>> => Head(q) = Head(s.ready_keys)
        BY <1>1, <2>2, HeadTailAppend
      <3> QED BY <1>1, <3>1, <3>3, <3>4, <3>5
    <2> QED BY <1>3, <2>1, <2>2
  <1>5. PICK t : t = PushTo(s, k, v)
    OBVIOUS
  <1>6. PICK u : u = [s EXCEPT !.ready_keys = q, !.db = [s.db EXCEPT ![k] = Push(s.db[k], v)]]
    OBVIOUS
  <1>7. /\ u \in State /\ u.db = [s.db EXCEPT ![k] = Push(s.db[k], v)] /\ u.ready_keys = q
        /\ u.expires = s.expires /\ u.bpop = s.bpop /\ u.dirty_cas = s.dirty_cas
        /\ u.blocking_keys = s.blocking_keys /\ u.copy = s.copy /\ u.renamed = s.renamed
        /\ u.served = s.served /\ u.must_propagate = s.must_propagate
    <2>1. [s.db EXCEPT ![k] = Push(s.db[k], v)] \in [Key -> Value]
      BY <1>1, <1>2
    <2> QED BY <1>4, <1>6, <2>1 DEF State
  <1>8. t = Touch(u, k)
    <2>1. CASE s.db[k] = None
      <3>1. SignalReady(s, k) = [s EXCEPT !.ready_keys = q]
        BY <1>3, <2>1 DEF SignalReady, State
      <3>2. [[s EXCEPT !.ready_keys = q] EXCEPT !.db[k] = Push(@, v)] = u
        BY <1>6 DEF State
      <3> QED BY <1>5, <2>1, <3>1, <3>2 DEF PushTo
    <2>2. CASE s.db[k] # None
      <3>1. q = s.ready_keys
        BY <1>3, <2>2
      <3>2. [s EXCEPT !.db[k] = Push(@, v)] = u
        BY <1>6, <3>1 DEF State
      <3> QED BY <1>5, <2>2, <3>2 DEF PushTo
    <2> QED BY <2>1, <2>2
  <1>9. /\ t \in State /\ Told(t, k) /\ u.dirty_cas \subseteq t.dirty_cas
        /\ t.db = u.db /\ t.expires = u.expires /\ t.bpop = u.bpop
        /\ t.blocking_keys = u.blocking_keys /\ t.copy = u.copy
        /\ t.renamed = u.renamed /\ t.ready_keys = u.ready_keys
        /\ t.served = u.served /\ t.must_propagate = u.must_propagate
    BY <1>7, <1>8, TouchFields
  <1>10. Pushed(s, t, k, v)
    BY <1>4, <1>7, <1>9 DEF Pushed
  <1> QED BY <1>5, <1>10

-----------------------------------------------------------------------------
(* The commands. *)

\* Between two commands no list is empty, keys are ready once, and who is blocked is in
\* no transaction.
Whole(s) == \A k \in Key : s.db[k] # <<>>
Quiet(s) == \A c \in Client : s.bpop[c] # None => ~multi[c]
Fit(s)   == Good(s) /\ Whole(s) /\ Quiet(s) /\ IsInjective(s.ready_keys)

\* A change that is propagated is good for the next command.
LEMMA ChangeFit ==
    ASSUME watched_keys \in [Client -> SUBSET Key], NEW s, Fit(s),
           NEW u, NEW item, Change(s, u, item), Whole(u), IsInjective(u.ready_keys)
    PROVE  Fit(Propagate(u, item)) /\ Kept(s, Propagate(u, item))
  <1>1. PICK t : t = Propagate(u, item)
    OBVIOUS
  <1>2. Good(t) /\ Kept(s, t) /\ t.db = u.db /\ t.ready_keys = u.ready_keys
    BY <1>1, PropagatedGood DEF Fit
  <1>3. Fit(t)
    BY <1>2 DEF Fit, Whole, Quiet, Kept
  <1> QED BY <1>1, <1>2, <1>3

\* expireIfNeeded between commands; a key that is there after it was there before.
LEMMA ExpireFit ==
    ASSUME watched_keys \in [Client -> SUBSET Key], NEW s, Fit(s), NEW k \in Key
    PROVE  /\ Fit(Expire(s, k)) /\ Kept(s, Expire(s, k))
           /\ Expire(s, k).db[k] # None =>
                 Expire(s, k) = s /\ s.expires[k] # "past"
  <1>1. PICK t : t = Expire(s, k)
    OBVIOUS
  <1>2. /\ Good(t) /\ Kept(s, t) /\ t.ready_keys = s.ready_keys
        /\ \A j \in Key : IF j = k /\ s.expires[k] = "past"
                            THEN t.db[j] = None /\ t.expires[j] = "no"
                            ELSE t.db[j] = s.db[j] /\ t.expires[j] = s.expires[j]
        /\ s.expires[k] # "past" => t = s
    <2>1. Expired(s, t, k)
      BY <1>1, ExpireGood DEF Fit
    <2> QED BY <2>1 DEF Expired
  <1>3. Whole(t)
    BY <1>2, Constants DEF Fit, Whole
  <1>4. Fit(t)
    BY <1>2, <1>3 DEF Fit, Quiet, Kept
  <1> QED BY <1>1, <1>2, <1>4

\* What a command changes stays so through the next.
LEMMA KeptTwice ==
    ASSUME NEW s, NEW t, NEW u, Kept(s, t), Kept(t, u)
    PROVE  Kept(s, u)
  BY DEF Kept

\* Such a state has its types.
LEMMA FitFields ==
    ASSUME NEW s, Fit(s)
    PROVE  /\ s \in State /\ Lasting(s) /\ Good(s) /\ Whole(s) /\ IsInjective(s.ready_keys)
           /\ s.db \in [Key -> Value] /\ s.expires \in [Key -> {"no", "set", "past"}]
           /\ s.ready_keys \in Seq(Key) /\ s.renamed \in SUBSET Key
           /\ ToSet(s.ready_keys) \subseteq Key
  BY StateFields, ReadyKeys DEF Fit, Good

\* The push of an element, told to the stream as an LPUSH.
LEMMA PushChange ==
    ASSUME NEW s, Good(s), NEW k \in Key, s.db[k] # Str, NEW v \in Nat
    PROVE  Change(s, PushTo(s, k, v), Item("lpush", k, v))
  <1>1. s \in State /\ Lasting(s) /\ s.db \in [Key -> Value] /\ s.db[k] \in Value
    BY StateFields DEF Good
  <1>2. PICK u : u = PushTo(s, k, v)
    OBVIOUS
  <1>3. PICK l \in Value : l = Push(s.db[k], v) /\ IsList(l) /\ l # None
    BY <1>1, PushFacts
  <1>4. /\ u \in State /\ Told(u, k) /\ s.dirty_cas \subseteq u.dirty_cas
        /\ u.db = [s.db EXCEPT ![k] = Push(s.db[k], v)]
        /\ u.expires = s.expires /\ u.bpop = s.bpop
        /\ u.blocking_keys = s.blocking_keys /\ u.copy = s.copy
        /\ u.renamed = s.renamed
        /\ u.served = s.served /\ u.must_propagate = s.must_propagate
        /\ ToSet(s.ready_keys) \subseteq ToSet(u.ready_keys)
        /\ ToSet(u.ready_keys) \subseteq ToSet(s.ready_keys) \cup {k}
        /\ s.db[k] = None /\ s.blocking_keys[k] # <<>> => k \in ToSet(u.ready_keys)
    <2>1. Pushed(s, u, k, v)
      BY <1>1, <1>2, PushToFields
    <2> QED BY <2>1 DEF Pushed
  <1>5. \A j \in Key : u.db[j] = IF j = k THEN l ELSE s.db[j]
    BY <1>1, <1>3, <1>4
  <1>6. Lasting(u)
    BY <1>1, <1>3, <1>4, <1>5 DEF Lasting
  <1>7. Replayed(Shown(s.db), Item("lpush", k, v)) = Shown(u.db)
    BY <1>1, <1>4, ReplayedPush
  <1>8. Item("lpush", k, v).op \notin {"multi", "exec"}
    BY DEF Item
  <1>9. \A j \in Key : \/ Told(u, j)
                       \/ u.db[j] = s.db[j] /\ (u.expires[j] # "no" => s.expires[j] # "no")
                       \/ s.expires[j] # "no" /\ u.db[j] = None
    BY <1>4, <1>5
  <1>10. ASSUME NEW j \in Key, IsList(u.db[j]), s.blocking_keys[j] # <<>>
         PROVE  \/ IsList(s.db[j]) /\ (j \in s.renamed => j \in u.renamed)
                \/ j \in u.renamed \/ j \in ToSet(u.ready_keys)
    <2>1. CASE j = k /\ s.db[k] = None
      BY <1>4, <1>10, <2>1
    <2>2. CASE j = k /\ s.db[k] # None
      BY <1>4, <2>2 DEF IsList
    <2>3. CASE j # k
      BY <1>4, <1>5, <1>10, <2>3
    <2> QED BY <2>1, <2>2, <2>3
  <1>11. \A j \in ToSet(u.ready_keys) : j \in ToSet(s.ready_keys) \/ Told(u, j)
    BY <1>4
  <1>12. Change(s, u, Item("lpush", k, v))
    BY <1>4, <1>6, <1>7, <1>8, <1>9, <1>10, <1>11 DEF Change
  <1> QED BY <1>2, <1>12

\* LPUSH (pushGenericCommand).
LEMMA LpushFit ==
    ASSUME watched_keys \in [Client -> SUBSET Key], NEW s, Fit(s), NEW k \in Key, NEW v \in Nat
    PROVE  Fit(Lpush(s, k, v)) /\ Kept(s, Lpush(s, k, v))
  <1>1. PICK t : t = Expire(s, k)
    OBVIOUS
  <1>2. Fit(t) /\ Kept(s, t)
    BY <1>1, ExpireFit
  <1>3. CASE t.db[k] = Str
    BY <1>1, <1>2, <1>3 DEF Lpush
  <1>4. CASE t.db[k] # Str
    <2>1. PICK u : u = PushTo(t, k, v)
      OBVIOUS
    <2>2. Change(t, u, Item("lpush", k, v))
      BY <1>2, <1>4, <2>1, PushChange DEF Fit
    <2>3. u.db = [t.db EXCEPT ![k] = Push(t.db[k], v)] /\ IsInjective(u.ready_keys)
      BY <1>2, <1>4, <2>1, FitFields, PushToFields DEF Pushed, Fit
    <2>4. Push(t.db[k], v) # <<>>
      BY <1>2, <1>4, FitFields, PushFacts
    <2>5. Whole(u)
      BY <1>2, <2>3, <2>4, FitFields DEF Whole
    <2>6. PICK w : w = Propagate(u, Item("lpush", k, v))
      OBVIOUS
    <2>7. Fit(w) /\ Kept(t, w)
      BY <1>2, <2>2, <2>3, <2>5, <2>6, ChangeFit
    <2>8. Lpush(s, k, v) = w
      BY <1>1, <1>4, <2>1, <2>6 DEF Lpush
    <2> QED BY <1>2, <2>7, <2>8, KeptTwice
  <1> QED BY <1>3, <1>4

\* One key is given another value, or another time to live.
OneKey(s, w, k) ==
    /\ w \in State
    /\ \A j \in Key \ {k} : w.db[j] = s.db[j] /\ w.expires[j] = s.expires[j]
    /\ w.db[k] = None => w.expires[k] = "no"
    /\ IsList(w.db[k]) => IsList(s.db[k])
    /\ w.bpop = s.bpop /\ w.blocking_keys = s.blocking_keys /\ w.copy = s.copy
    /\ w.dirty_cas = s.dirty_cas /\ w.renamed = s.renamed
    /\ w.ready_keys = s.ready_keys /\ w.served = s.served
    /\ w.must_propagate = s.must_propagate

\* Those who watch it are told.
LEMMA OneKeyChange ==
    ASSUME NEW s, Good(s), NEW k \in Key, NEW w, OneKey(s, w, k), NEW item,
           item.op \notin {"multi", "exec"}, Replayed(Shown(s.db), item) = Shown(w.db)
    PROVE  /\ Change(s, Touch(w, k), item)
           /\ Touch(w, k).db = w.db /\ Touch(w, k).ready_keys = s.ready_keys
  <1>1. s \in State /\ Lasting(s)
    BY DEF Good
  <1>2. PICK u : u = Touch(w, k)
    OBVIOUS
  <1>3. /\ u \in State /\ Told(u, k) /\ w.dirty_cas \subseteq u.dirty_cas
        /\ u.db = w.db /\ u.expires = w.expires /\ u.bpop = w.bpop
        /\ u.blocking_keys = w.blocking_keys /\ u.copy = w.copy
        /\ u.renamed = w.renamed /\ u.ready_keys = w.ready_keys
        /\ u.served = w.served /\ u.must_propagate = w.must_propagate
    BY <1>2, TouchFields DEF OneKey
  <1>4. Lasting(u)
    BY <1>1, <1>3 DEF OneKey, Lasting
  <1>5. \A j \in Key : \/ Told(u, j)
                       \/ u.db[j] = s.db[j] /\ (u.expires[j] # "no" => s.expires[j] # "no")
                       \/ s.expires[j] # "no" /\ u.db[j] = None
    BY <1>3 DEF OneKey
  <1>6. \A j \in Key : IsList(u.db[j]) /\ s.blocking_keys[j] # <<>>
             => \/ IsList(s.db[j]) /\ (j \in s.renamed => j \in u.renamed)
                \/ j \in u.renamed \/ j \in ToSet(u.ready_keys)
    BY <1>3 DEF OneKey
  <1>7. Change(s, u, item)
    BY <1>3, <1>4, <1>5, <1>6 DEF Change, OneKey
  <1> QED BY <1>2, <1>3, <1>7 DEF OneKey

\* A command that changes one key, touches it and is sent.
LEMMA OneKeyFit ==
    ASSUME watched_keys \in [Client -> SUBSET Key], NEW s, Fit(s), NEW k \in Key,
           NEW w, OneKey(s, w, k), w.db[k] # <<>>, NEW item,
           item.op \notin {"multi", "exec"}, Replayed(Shown(s.db), item) = Shown(w.db)
    PROVE  Fit(Propagate(Touch(w, k), item)) /\ Kept(s, Propagate(Touch(w, k), item))
  <1>1. PICK u : u = Touch(w, k)
    OBVIOUS
  <1>2. Change(s, u, item) /\ u.db = w.db /\ u.ready_keys = s.ready_keys
    BY <1>1, FitFields, OneKeyChange
  <1>3. Whole(u) /\ IsInjective(u.ready_keys)
    BY <1>2 DEF Whole, Fit, OneKey
  <1> QED BY <1>1, <1>2, <1>3, ChangeFit

\* A pop from a list.
LEMMA PopFit ==
    ASSUME watched_keys \in [Client -> SUBSET Key], NEW s, Fit(s), NEW k \in Key,
           IsList(s.db[k]), NEW where \in {"head", "tail"}
    PROVE  LET t == Propagate(Pop(s, k, where), Item("pop", k, where))
           IN  Fit(t) /\ Kept(s, t)
  <1>1. /\ s \in State /\ s.db \in [Key -> Value] /\ s.db[k] # <<>> /\ s.db[k] \in Seq(Nat)
        /\ s.expires \in [Key -> {"no", "set", "past"}]
    BY FitFields, ListIsSeq DEF Whole
  <1>2. PICK p \in Value : p = Popped(s.db[k], where)
    BY <1>1, PopFacts
  <1>3. PICK l \in Value : l = Stored(p) /\ l # <<>> /\ Stored(l) = Stored(p)
    BY <1>2, StoredFacts
  <1>4. PICK w : w = [s EXCEPT !.db[k] = l, !.expires[k] = IF l = None THEN "no" ELSE @]
    OBVIOUS
  <1>5. OneKey(s, w, k) /\ w.db = [s.db EXCEPT ![k] = l]
    <2>1. [s.db EXCEPT ![k] = l] \in [Key -> Value]
      BY <1>1
    <2>2. [s.expires EXCEPT ![k] = IF l = None THEN "no" ELSE s.expires[k]]
             \in [Key -> {"no", "set", "past"}]
      BY <1>1
    <2>3. /\ w \in State /\ w.db = [s.db EXCEPT ![k] = l]
          /\ w.expires = [s.expires EXCEPT ![k] = IF l = None THEN "no" ELSE s.expires[k]]
          /\ w.bpop = s.bpop /\ w.blocking_keys = s.blocking_keys /\ w.copy = s.copy
          /\ w.dirty_cas = s.dirty_cas /\ w.renamed = s.renamed
          /\ w.ready_keys = s.ready_keys /\ w.served = s.served
          /\ w.must_propagate = s.must_propagate
      BY <1>1, <1>4, <2>1, <2>2 DEF State
    <2>4. \A j \in Key \ {k} : w.db[j] = s.db[j] /\ w.expires[j] = s.expires[j]
      BY <1>1, <2>3
    <2>5. w.db[k] = None => w.expires[k] = "no"
      BY <1>1, <2>3
    <2> QED BY <2>3, <2>4, <2>5 DEF OneKey
  <1>6. Replayed(Shown(s.db), Item("pop", k, where)) = Shown(w.db)
    <2>1. Replayed(Shown(s.db), Item("pop", k, where)) = Shown([s.db EXCEPT ![k] = p])
      BY <1>1, <1>2, ReplayedPop
    <2>2. \A j \in Key : Stored([s.db EXCEPT ![k] = p][j]) = Stored(w.db[j])
      BY <1>1, <1>3, <1>5
    <2> QED BY <2>1, <2>2 DEF Shown
  <1>7. Item("pop", k, where).op \notin {"multi", "exec"}
    BY DEF Item
  <1>8. Pop(s, k, where) = Touch(w, k)
    BY <1>2, <1>3, <1>4 DEF Pop
  <1>9. w.db[k] # <<>>
    BY <1>1, <1>3, <1>5
  <1> QED BY <1>5, <1>6, <1>7, <1>8, <1>9, OneKeyFit

\* SET (setGenericCommand).
LEMMA SetKeyFit ==
    ASSUME watched_keys \in [Client -> SUBSET Key], NEW s, Fit(s), NEW k \in Key
    PROVE  Fit(SetKey(s, k)) /\ Kept(s, SetKey(s, k))
  <1>1. PICK t : t = Expire(s, k)
    OBVIOUS
  <1>2. Fit(t) /\ Kept(s, t)
    BY <1>1, ExpireFit
  <1>3. /\ t \in State /\ t.db \in [Key -> Value]
        /\ t.expires \in [Key -> {"no", "set", "past"}]
    BY <1>2, FitFields
  <1>4. PICK w : w = [t EXCEPT !.db[k] = Str, !.expires[k] = "no"]
    OBVIOUS
  <1>5. OneKey(t, w, k) /\ w.db = [t.db EXCEPT ![k] = Str] /\ w.db[k] # <<>>
    <2>1. [t.db EXCEPT ![k] = Str] \in [Key -> Value]
      BY <1>3 DEF Value
    <2>2. [t.expires EXCEPT ![k] = "no"] \in [Key -> {"no", "set", "past"}]
      BY <1>3
    <2>3. /\ w \in State /\ w.db = [t.db EXCEPT ![k] = Str]
          /\ w.expires = [t.expires EXCEPT ![k] = "no"]
          /\ w.bpop = t.bpop /\ w.blocking_keys = t.blocking_keys /\ w.copy = t.copy
          /\ w.dirty_cas = t.dirty_cas /\ w.renamed = t.renamed
          /\ w.ready_keys = t.ready_keys /\ w.served = t.served
          /\ w.must_propagate = t.must_propagate
      BY <1>3, <1>4, <2>1, <2>2 DEF State
    <2>4. \A j \in Key \ {k} : w.db[j] = t.db[j] /\ w.expires[j] = t.expires[j]
      BY <1>3, <2>3
    <2>5. w.db[k] = Str /\ w.expires[k] = "no"
      BY <1>3, <2>3
    <2> QED BY <2>3, <2>4, <2>5, Constants DEF OneKey, IsList
  <1>6. Replayed(Shown(t.db), Item("set", k, None)) = Shown(w.db)
    <2>1. Replayed(Shown(t.db), Item("set", k, None)) = Shown([t.db EXCEPT ![k] = Str])
      BY <1>3, ReplayedSet
    <2> QED BY <1>5, <2>1
  <1>7. Item("set", k, None).op \notin {"multi", "exec"}
    BY DEF Item
  <1>8. PICK u : u = Propagate(Touch(w, k), Item("set", k, None))
    OBVIOUS
  <1>9. Fit(u) /\ Kept(t, u)
    BY <1>2, <1>5, <1>6, <1>7, <1>8, OneKeyFit
  <1>10. SetKey(s, k) = u
    BY <1>1, <1>4, <1>8 DEF SetKey
  <1> QED BY <1>2, <1>9, <1>10, KeptTwice

\* DEL (delCommand).
LEMMA DelFit ==
    ASSUME watched_keys \in [Client -> SUBSET Key], NEW s, Fit(s), NEW k \in Key
    PROVE  Fit(Del(s, k)) /\ Kept(s, Del(s, k))
  <1>1. PICK t : t = Expire(s, k)
    OBVIOUS
  <1>2. Fit(t) /\ Kept(s, t)
    BY <1>1, ExpireFit
  <1>3. CASE t.db[k] = None
    BY <1>1, <1>2, <1>3 DEF Del
  <1>4. CASE t.db[k] # None
    <2>1. /\ t \in State /\ t.db \in [Key -> Value]
          /\ t.expires \in [Key -> {"no", "set", "past"}]
      BY <1>2, FitFields
    <2>2. PICK w : w = Delete(t, k)
      OBVIOUS
    <2>3. /\ w \in State
          /\ w.db = [t.db EXCEPT ![k] = None]
          /\ w.expires = [t.expires EXCEPT ![k] = "no"]
          /\ w.bpop = t.bpop /\ w.copy = t.copy
          /\ w.blocking_keys = t.blocking_keys /\ w.dirty_cas = t.dirty_cas
          /\ w.renamed = t.renamed /\ w.ready_keys = t.ready_keys
          /\ w.served = t.served /\ w.must_propagate = t.must_propagate
      BY <2>1, <2>2, DeleteFields
    <2>4. OneKey(t, w, k) /\ w.db[k] # <<>>
      <3>1. \A j \in Key \ {k} : w.db[j] = t.db[j] /\ w.expires[j] = t.expires[j]
        BY <2>1, <2>3
      <3>2. w.db[k] = None /\ w.expires[k] = "no"
        BY <2>1, <2>3
      <3> QED BY <2>3, <3>1, <3>2, Constants DEF OneKey, IsList
    <2>5. Replayed(Shown(t.db), Item("del", k, None)) = Shown(w.db)
      <3>1. Replayed(Shown(t.db), Item("del", k, None)) = Shown([t.db EXCEPT ![k] = None])
        BY <2>1, ReplayedSet
      <3> QED BY <2>3, <3>1
    <2>6. Item("del", k, None).op \notin {"multi", "exec"}
      BY DEF Item
    <2>7. PICK u : u = Propagate(Touch(w, k), Item("del", k, None))
      OBVIOUS
    <2>8. Fit(u) /\ Kept(t, u)
      BY <1>2, <2>4, <2>5, <2>6, <2>7, OneKeyFit
    <2>9. Del(s, k) = u
      BY <1>1, <1>4, <2>2, <2>7 DEF Del
    <2> QED BY <1>2, <2>8, <2>9, KeptTwice
  <1> QED BY <1>3, <1>4

\* EXPIRE (expireGenericCommand).
LEMMA ExpireKeyFit ==
    ASSUME watched_keys \in [Client -> SUBSET Key], NEW s, Fit(s), NEW k \in Key
    PROVE  Fit(ExpireKey(s, k)) /\ Kept(s, ExpireKey(s, k))
  <1>1. PICK t : t = Expire(s, k)
    OBVIOUS
  <1>2. Fit(t) /\ Kept(s, t)
    BY <1>1, ExpireFit
  <1>3. CASE t.db[k] = None
    BY <1>1, <1>2, <1>3 DEF ExpireKey
  <1>4. CASE t.db[k] # None
    <2>1. /\ t \in State /\ t.db \in [Key -> Value] /\ Whole(t)
          /\ t.expires \in [Key -> {"no", "set", "past"}]
      BY <1>2, FitFields
    <2>2. PICK w : w = [t EXCEPT !.expires[k] = "set"]
      OBVIOUS
    <2>3. /\ w \in State /\ w.db = t.db
          /\ w.expires = [t.expires EXCEPT ![k] = "set"]
          /\ w.bpop = t.bpop /\ w.copy = t.copy
          /\ w.blocking_keys = t.blocking_keys /\ w.dirty_cas = t.dirty_cas
          /\ w.renamed = t.renamed /\ w.ready_keys = t.ready_keys
          /\ w.served = t.served /\ w.must_propagate = t.must_propagate
      <3>1. PICK f \in [Key -> {"no", "set", "past"}] : f = [t.expires EXCEPT ![k] = "set"]
        BY <2>1
      <3>2. w = [t EXCEPT !.expires = f]
        BY <2>2, <3>1
      <3>3. w \in State /\ w.expires = f /\ w.db = t.db
        BY <2>1, <3>2 DEF State
      <3>4. /\ w.bpop = t.bpop /\ w.copy = t.copy
            /\ w.blocking_keys = t.blocking_keys /\ w.dirty_cas = t.dirty_cas
            /\ w.renamed = t.renamed /\ w.ready_keys = t.ready_keys
            /\ w.served = t.served /\ w.must_propagate = t.must_propagate
        BY <2>1, <3>2 DEF State
      <3> QED BY <3>1, <3>3, <3>4
    <2>4. OneKey(t, w, k) /\ w.db[k] # <<>>
      <3>1. \A j \in Key \ {k} : w.db[j] = t.db[j] /\ w.expires[j] = t.expires[j]
        BY <2>1, <2>3
      <3> QED BY <1>4, <2>1, <2>3, <3>1 DEF OneKey, Whole
    <2>5. Replayed(Shown(t.db), Item("expire", k, None)) = Shown(w.db)
      <3>1. PICK d \in [Key -> Value] : d = t.db
        BY <2>1
      <3>2. Replayed(Shown(d), Item("expire", k, None)) = Shown(d)
        BY ReplayedSet, Zenon
      <3> QED BY <2>3, <3>1, <3>2
    <2>6. Item("expire", k, None).op \notin {"multi", "exec"}
      BY DEF Item
    <2>7. PICK u : u = Propagate(Touch(w, k), Item("expire", k, None))
      OBVIOUS
    <2>8. Fit(u) /\ Kept(t, u)
      BY <1>2, <2>4, <2>5, <2>6, <2>7, OneKeyFit
    <2>9. ExpireKey(s, k) = u
      BY <1>1, <1>4, <2>2, <2>7 DEF ExpireKey
    <2> QED BY <1>2, <2>8, <2>9, KeptTwice
  <1> QED BY <1>3, <1>4

\* The move of an element, also within one list.
LEMMA RpoplpushFit ==
    ASSUME watched_keys \in [Client -> SUBSET Key], NEW s, Fit(s),
           NEW src \in Key, NEW dst \in Key, IsList(s.db[src]), s.expires[src] # "past"
    PROVE  Fit(Rpoplpush(s, src, dst)) /\ Kept(s, Rpoplpush(s, src, dst))
  <1>1. PICK t : t = Expire(s, dst)
    OBVIOUS
  <1>2. Fit(t) /\ Kept(s, t) /\ t.db[src] = s.db[src]
    <2>1. Fit(t) /\ Kept(s, t)
      BY <1>1, ExpireFit
    <2>2. \A j \in Key : IF j = dst /\ s.expires[dst] = "past"
                           THEN t.db[j] = None /\ t.expires[j] = "no"
                           ELSE t.db[j] = s.db[j] /\ t.expires[j] = s.expires[j]
      BY <1>1, ExpireGood DEF Fit, Expired
    <2> QED BY <2>1, <2>2
  <1>3. CASE t.db[dst] = Str
    BY <1>1, <1>2, <1>3 DEF Rpoplpush
  <1>4. CASE t.db[dst] # Str
    <2>1. /\ t \in State /\ t.db \in [Key -> Value] /\ Lasting(t) /\ Whole(t)
          /\ t.expires \in [Key -> {"no", "set", "past"}]
          /\ IsInjective(t.ready_keys) /\ ToSet(t.ready_keys) \subseteq Key
      BY <1>2, FitFields
    <2>2. IsList(t.db[src]) /\ t.db[src] # <<>> /\ t.db[src] \in Seq(Nat)
      BY <1>2, <2>1, ListIsSeq DEF Whole
    <2>3. PICK f \in Value, x \in Nat :
             /\ f = Front(t.db[src]) /\ f \in Seq(Nat) /\ x = Last(t.db[src])
      BY <2>2, PopFacts DEF Value
    <2>4. f # Str /\ f # None /\ IsList(f)
      BY <2>3, Constants, ListIsSeq
    <2>5. PICK e : e = [t EXCEPT !.db[src] = Front(@)]
      OBVIOUS
    <2>6. /\ e \in State /\ e.db = [t.db EXCEPT ![src] = f]
          /\ e.expires = t.expires
          /\ e.bpop = t.bpop /\ e.copy = t.copy
          /\ e.blocking_keys = t.blocking_keys /\ e.dirty_cas = t.dirty_cas
          /\ e.renamed = t.renamed /\ e.ready_keys = t.ready_keys
          /\ e.served = t.served /\ e.must_propagate = t.must_propagate
      <3>1. [t.db EXCEPT ![src] = f] \in [Key -> Value]
        BY <2>1
      <3> QED BY <2>1, <2>3, <2>5, <3>1 DEF State
    <2>7. /\ \A j \in Key : e.db[j] = IF j = src THEN f ELSE t.db[j]
          /\ e.db[dst] # Str /\ e.db[dst] \in Value
      BY <1>4, <2>1, <2>4, <2>6
    <2>8. PICK u : u = PushTo(e, dst, x)
      OBVIOUS
    <2>9. Pushed(e, u, dst, x)
      BY <2>6, <2>7, <2>8, PushToFields
    <2>10. PICK l \in Value : l = Push(e.db[dst], x) /\ IsList(l) /\ l # <<>> /\ l # None
      BY <2>7, PushFacts
    <2>11. /\ u \in State /\ Told(u, dst) /\ e.dirty_cas \subseteq u.dirty_cas
           /\ u.db = [e.db EXCEPT ![dst] = l]
           /\ u.expires = e.expires /\ u.bpop = e.bpop
           /\ u.blocking_keys = e.blocking_keys /\ u.copy = e.copy
           /\ u.renamed = e.renamed
           /\ u.served = e.served /\ u.must_propagate = e.must_propagate
      BY <2>9, <2>10 DEF Pushed
    <2>12. /\ ToSet(e.ready_keys) \subseteq ToSet(u.ready_keys)
           /\ ToSet(u.ready_keys) \subseteq ToSet(e.ready_keys) \cup {dst}
           /\ e.db[dst] = None /\ e.blocking_keys[dst] # <<>> => dst \in ToSet(u.ready_keys)
           /\ IsInjective(e.ready_keys) => IsInjective(u.ready_keys)
      BY <2>9 DEF Pushed
    <2>13. \A j \in Key : u.db[j] = IF j = dst THEN l ELSE IF j = src THEN f ELSE t.db[j]
      BY <2>6, <2>7, <2>11, StateFields
    <2>14. PICK w : w = IF u.db[src] = <<>> THEN Delete(u, src) ELSE u
      OBVIOUS
    <2>15. /\ w \in State
           /\ w.bpop = u.bpop /\ w.copy = u.copy
           /\ w.blocking_keys = u.blocking_keys /\ w.dirty_cas = u.dirty_cas
           /\ w.renamed = u.renamed /\ w.ready_keys = u.ready_keys
           /\ w.served = u.served /\ w.must_propagate = u.must_propagate
           /\ \A j \in Key : \/ w.db[j] = u.db[j] /\ w.expires[j] = u.expires[j] /\ w.db[j] # <<>>
                             \/ /\ j = src /\ u.db[j] = <<>>
                                /\ w.db[j] = None /\ w.expires[j] = "no"
      <3>1. \A j \in Key : u.db[j] = <<>> => j = src
        BY <2>1, <2>10, <2>13 DEF Whole
      <3>2. CASE u.db[src] = <<>>
        <4>1. /\ w \in State
              /\ w.db = [u.db EXCEPT ![src] = None]
              /\ w.expires = [u.expires EXCEPT ![src] = "no"]
              /\ w.bpop = u.bpop /\ w.copy = u.copy
              /\ w.blocking_keys = u.blocking_keys /\ w.dirty_cas = u.dirty_cas
              /\ w.renamed = u.renamed /\ w.ready_keys = u.ready_keys
              /\ w.served = u.served /\ w.must_propagate = u.must_propagate
          BY <2>11, <2>14, <3>2, DeleteFields
        <4>2. u.db \in [Key -> Value] /\ u.expires \in [Key -> {"no", "set", "past"}]
          BY <2>11, StateFields
        <4>3. ASSUME NEW j \in Key
              PROVE  \/ w.db[j] = u.db[j] /\ w.expires[j] = u.expires[j] /\ w.db[j] # <<>>
                     \/ /\ j = src /\ u.db[j] = <<>>
                        /\ w.db[j] = None /\ w.expires[j] = "no"
          <5>1. CASE j = src
            BY <3>2, <4>1, <4>2, <5>1
          <5>2. CASE j # src
            BY <3>1, <4>1, <4>2, <5>2
          <5> QED BY <5>1, <5>2
        <4> QED BY <4>1, <4>3
      <3>3. CASE u.db[src] # <<>>
        BY <2>11, <2>14, <3>1, <3>3
      <3> QED BY <3>2, <3>3
    <2>16. PICK z : z = Touch(w, src)
      OBVIOUS
    <2>17. /\ z \in State /\ Told(z, src) /\ w.dirty_cas \subseteq z.dirty_cas
           /\ z.db = w.db /\ z.expires = w.expires /\ z.bpop = w.bpop
           /\ z.blocking_keys = w.blocking_keys /\ z.copy = w.copy
           /\ z.renamed = w.renamed /\ z.ready_keys = w.ready_keys
           /\ z.served = w.served /\ z.must_propagate = w.must_propagate
      BY <2>15, <2>16, TouchFields
    <2>18. Told(z, dst)
      BY <2>11, <2>15, <2>17 DEF Told
    <2>19. Whole(z)
      BY <2>15, <2>17, Constants DEF Whole
    <2>20. Lasting(z)
      <3> SUFFICES ASSUME NEW j \in Key, z.db[j] = None PROVE z.expires[j] = "no"
        BY DEF Lasting
      <3>1. CASE w.db[j] = u.db[j] /\ w.expires[j] = u.expires[j]
        <4>1. u.db[j] = None
          BY <2>17, <3>1
        <4>2. j # dst /\ j # src
          BY <2>4, <2>10, <2>13, <4>1
        <4>3. t.db[j] = None
          BY <2>13, <4>1, <4>2
        <4> QED BY <2>1, <2>6, <2>11, <2>17, <3>1, <4>3 DEF Lasting
      <3> QED BY <2>15, <2>17, <3>1
    <2>21. ASSUME NEW j \in Key, j # src, j # dst
           PROVE  z.db[j] = t.db[j] /\ z.expires[j] = t.expires[j]
      <3>1. w.db[j] = u.db[j] /\ w.expires[j] = u.expires[j]
        BY <2>15, <2>21
      <3> QED BY <2>6, <2>11, <2>13, <2>17, <2>21, <3>1
    <2>22. \A j \in Key : \/ Told(z, j)
                          \/ z.db[j] = t.db[j] /\ (z.expires[j] # "no" => t.expires[j] # "no")
                          \/ t.expires[j] # "no" /\ z.db[j] = None
      BY <2>17, <2>18, <2>21
    <2>23. ASSUME NEW j \in Key, IsList(z.db[j]), t.blocking_keys[j] # <<>>
           PROVE  \/ IsList(t.db[j]) /\ (j \in t.renamed => j \in z.renamed)
                  \/ j \in z.renamed \/ j \in ToSet(z.ready_keys)
      <3>1. z.renamed = t.renamed
        BY <2>6, <2>11, <2>15, <2>17
      <3>2. CASE j = src
        BY <2>2, <3>1, <3>2
      <3>3. CASE j # src /\ j = dst
        <4>1. CASE t.db[dst] = None
          <5>1. e.db[dst] = None /\ e.blocking_keys[dst] # <<>>
            BY <2>6, <2>7, <2>23, <3>3, <4>1
          <5> QED BY <2>12, <2>15, <2>17, <3>3, <5>1
        <4>2. CASE t.db[dst] # None
          BY <1>4, <3>1, <3>3, <4>2 DEF IsList
        <4> QED BY <4>1, <4>2
      <3>4. CASE j # src /\ j # dst
        BY <2>21, <2>23, <3>1, <3>4
      <3> QED BY <3>2, <3>3, <3>4
    <2>24. /\ ToSet(t.ready_keys) \subseteq ToSet(z.ready_keys)
           /\ \A j \in ToSet(z.ready_keys) : j \in ToSet(t.ready_keys) \/ Told(z, j)
           /\ IsInjective(z.ready_keys)
      BY <2>1, <2>6, <2>12, <2>15, <2>17, <2>18
    <2>25. PICK item : item = Item("rpoplpush", src, dst)
      OBVIOUS
    <2>26. item.op \notin {"multi", "exec"}
      BY <2>25 DEF Item
    <2>27. Replayed(Shown(t.db), item) = Shown(z.db)
      <3>1. u.db = [[t.db EXCEPT ![src] = Front(t.db[src])]
                       EXCEPT ![dst] = Push([t.db EXCEPT ![src] = Front(t.db[src])][dst],
                                            Last(t.db[src]))]
        BY <2>3, <2>6, <2>10, <2>11
      <3>2. Replayed(Shown(t.db), Item("rpoplpush", src, dst)) = Shown(u.db)
        BY <1>4, <2>1, <2>2, <3>1, ReplayedMove
      <3>3. \A j \in Key : Stored(z.db[j]) = Stored(u.db[j])
        <4>1. Stored(<<>>) = None /\ Stored(None) = None
          BY DEF Stored
        <4> QED BY <2>15, <2>17, <4>1
      <3> QED BY <2>25, <3>2, <3>3 DEF Shown
    <2>28. Change(t, z, item)
      <3>1. /\ z.copy = t.copy
            /\ z.bpop = t.bpop /\ z.blocking_keys = t.blocking_keys /\ z.served = t.served
            /\ z.must_propagate = t.must_propagate /\ t.dirty_cas \subseteq z.dirty_cas
        BY <2>6, <2>11, <2>15, <2>17
      <3> QED BY <2>17, <2>20, <2>22, <2>23, <2>24, <2>26, <2>27, <3>1 DEF Change
    <2>29. PICK r : r = Propagate(z, item)
      OBVIOUS
    <2>30. Fit(r) /\ Kept(t, r)
      BY <1>2, <2>19, <2>24, <2>28, <2>29, ChangeFit
    <2>31. Rpoplpush(s, src, dst) = r
      BY <1>1, <1>4, <2>3, <2>5, <2>8, <2>14, <2>16, <2>25, <2>29 DEF Rpoplpush
    <2> QED BY <1>2, <2>30, <2>31, KeptTwice
  <1> QED BY <1>3, <1>4

\* FLUSHDB (flushdbCommand, touchWatchedKeysOnFlush).
LEMMA FlushFit ==
    ASSUME watched_keys \in [Client -> SUBSET Key], NEW s, Fit(s)
    PROVE  Fit(Flush(s)) /\ Kept(s, Flush(s))
  <1> DEFINE full == {k \in Key : s.db[k] # None}
  <1>1. CASE full = {}
    BY <1>1 DEF Flush, Kept
  <1>2. CASE full # {}
    <2>1. /\ s \in State /\ s.db \in [Key -> Value] /\ Lasting(s)
          /\ IsInjective(s.ready_keys)
      BY FitFields
    <2>2. PICK u : u = Emptied([s EXCEPT !.dirty_cas =
                          @ \cup {c \in Client : watched_keys[c] \cap full # {}}])
      OBVIOUS
    <2>3. /\ u \in State /\ u.db = NoData /\ u.expires = [k \in Key |-> "no"]
          /\ u.dirty_cas = s.dirty_cas \cup {c \in Client : watched_keys[c] \cap full # {}}
          /\ u.bpop = s.bpop /\ u.copy = s.copy
          /\ u.blocking_keys = s.blocking_keys
          /\ u.renamed = s.renamed /\ u.ready_keys = s.ready_keys
          /\ u.served = s.served /\ u.must_propagate = s.must_propagate
      <3>1. NoData \in [Key -> Value]
        BY DEF NoData, Value
      <3>2. s.dirty_cas \cup {c \in Client : watched_keys[c] \cap full # {}} \in SUBSET Client
        BY <2>1, StateFields
      <3> HIDE DEF full
      <3>3. [k \in Key |-> "no"] \in [Key -> {"no", "set", "past"}]
        OBVIOUS
      <3> QED BY <2>1, <2>2, <3>1, <3>2, <3>3 DEF Emptied, State
    <2>4. \A k \in Key : u.db[k] = None /\ u.expires[k] = "no"
      BY <2>3 DEF NoData
    <2>5. Lasting(u) /\ Whole(u)
      BY <2>4, Constants DEF Lasting, Whole
    <2>6. ASSUME NEW k \in Key
          PROVE  \/ Told(u, k)
                 \/ u.db[k] = s.db[k] /\ (u.expires[k] # "no" => s.expires[k] # "no")
                 \/ s.expires[k] # "no" /\ u.db[k] = None
      <3>1. CASE s.db[k] = None
        BY <2>4, <3>1
      <3>2. CASE s.db[k] # None
        <4>1. k \in full
          BY <3>2
        <4> HIDE DEF full
        <4> QED BY <2>3, <4>1 DEF Told
      <3> QED BY <3>1, <3>2
    <2>7. \A k \in Key : ~IsList(u.db[k])
      BY <2>4 DEF IsList
    <2>8. PICK item : item = Item("flushdb", None, None)
      OBVIOUS
    <2>9. item.op \notin {"multi", "exec"}
      BY <2>8 DEF Item
    <2>10. Replayed(Shown(s.db), item) = Shown(u.db)
      <3>1. CASE Key # {}
        <4>1. PICK k \in Key : TRUE
          BY <3>1
        <4>2. Replayed(Shown(s.db), Item("flushdb", None, None)) = Shown(NoData)
          BY <2>1, <4>1, ReplayedSet
        <4> QED BY <2>3, <2>8, <4>2
      <3> QED BY <1>2, <3>1
    <2>11. Change(s, u, item)
      BY <2>3, <2>5, <2>6, <2>7, <2>9, <2>10 DEF Change
    <2>12. PICK r : r = Propagate(u, item)
      OBVIOUS
    <2>13. Fit(r) /\ Kept(s, r)
      BY <2>1, <2>3, <2>5, <2>11, <2>12, ChangeFit
    <2>14. Flush(s) = r
      BY <1>2, <2>2, <2>8, <2>12 DEF Flush
    <2> QED BY <2>13, <2>14
  <1> QED BY <1>1, <1>2

\* RENAME (renameGenericCommand): the list it brings is not signaled, and is remembered.
LEMMA RenameFit ==
    ASSUME watched_keys \in [Client -> SUBSET Key], NEW s, Fit(s), NEW k \in Key, NEW to \in Key
    PROVE  Fit(Rename(s, k, to)) /\ Kept(s, Rename(s, k, to))
  <1>1. PICK t : t = Expire(s, k)
    OBVIOUS
  <1>2. Fit(t) /\ Kept(s, t)
    BY <1>1, ExpireFit
  <1>3. CASE k = to
    BY <1>3 DEF Rename, Kept
  <1>4. CASE k # to /\ t.db[k] = None
    BY <1>1, <1>2, <1>4 DEF Rename
  <1>5. CASE k # to /\ t.db[k] # None
    <2>1. PICK u : u = Expire(t, to)
      OBVIOUS
    <2>2. Fit(u) /\ Kept(t, u)
      BY <1>2, <2>1, ExpireFit
    <2>3. u.db[k] = t.db[k]
      BY <1>2, <1>5, <2>1, ExpireGood DEF Fit, Expired
    <2>4. /\ u \in State /\ u.db \in [Key -> Value] /\ Lasting(u) /\ Whole(u)
          /\ u.expires \in [Key -> {"no", "set", "past"}] /\ u.renamed \in SUBSET Key
          /\ IsInjective(u.ready_keys)
      BY <2>2, FitFields
    <2>5. PICK x \in Value, e \in {"no", "set", "past"} :
             x = u.db[k] /\ e = u.expires[k] /\ x # None /\ x # <<>>
      BY <1>5, <2>3, <2>4 DEF Whole
    <2>6. PICK w : w = [Delete(u, k) EXCEPT !.db[to] = u.db[k], !.expires[to] = u.expires[k],
                                            !.renamed = (@ \ {k}) \cup {to}]
      OBVIOUS
    <2>7. /\ w \in State
          /\ w.db = [[u.db EXCEPT ![k] = None] EXCEPT ![to] = x]
          /\ w.expires = [[u.expires EXCEPT ![k] = "no"] EXCEPT ![to] = e]
          /\ w.renamed = (u.renamed \ {k}) \cup {to}
          /\ w.bpop = u.bpop /\ w.copy = u.copy
          /\ w.blocking_keys = u.blocking_keys /\ w.dirty_cas = u.dirty_cas
          /\ w.ready_keys = u.ready_keys
          /\ w.served = u.served /\ w.must_propagate = u.must_propagate
      <3>1. PICK d : d = Delete(u, k)
        OBVIOUS
      <3>2. /\ d \in State
            /\ d.db = [u.db EXCEPT ![k] = None]
            /\ d.expires = [u.expires EXCEPT ![k] = "no"]
            /\ d.bpop = u.bpop /\ d.copy = u.copy
            /\ d.blocking_keys = u.blocking_keys /\ d.dirty_cas = u.dirty_cas
            /\ d.renamed = u.renamed /\ d.ready_keys = u.ready_keys
            /\ d.served = u.served /\ d.must_propagate = u.must_propagate
        BY <2>4, <3>1, DeleteFields
      <3>3. /\ [d.db EXCEPT ![to] = x] \in [Key -> Value]
            /\ [d.expires EXCEPT ![to] = e] \in [Key -> {"no", "set", "past"}]
            /\ (d.renamed \ {k}) \cup {to} \in SUBSET Key
        BY <3>2, StateFields
      <3>4. w = [d EXCEPT !.db[to] = x, !.expires[to] = e, !.renamed = (@ \ {k}) \cup {to}]
        BY <2>5, <2>6, <3>1
      <3>5. /\ w \in State
            /\ w.db = [d.db EXCEPT ![to] = x]
            /\ w.expires = [d.expires EXCEPT ![to] = e]
            /\ w.renamed = (d.renamed \ {k}) \cup {to}
            /\ w.bpop = d.bpop /\ w.copy = d.copy
            /\ w.blocking_keys = d.blocking_keys /\ w.dirty_cas = d.dirty_cas
            /\ w.ready_keys = d.ready_keys
            /\ w.served = d.served /\ w.must_propagate = d.must_propagate
        BY <3>2, <3>3, <3>4 DEF State
      <3> QED BY <3>2, <3>5
    <2>8. \A j \in Key :
             /\ w.db[j] = IF j = to THEN x ELSE IF j = k THEN None ELSE u.db[j]
             /\ w.expires[j] = IF j = to THEN e ELSE IF j = k THEN "no" ELSE u.expires[j]
      BY <2>4, <2>7
    <2>9. PICK y : y = Touch(w, k)
      OBVIOUS
    <2>10. /\ y \in State /\ Told(y, k) /\ w.dirty_cas \subseteq y.dirty_cas
           /\ y.db = w.db /\ y.expires = w.expires /\ y.bpop = w.bpop
           /\ y.blocking_keys = w.blocking_keys /\ y.copy = w.copy
           /\ y.renamed = w.renamed /\ y.ready_keys = w.ready_keys
           /\ y.served = w.served /\ y.must_propagate = w.must_propagate
      BY <2>7, <2>9, TouchFields
    <2>11. PICK z : z = Touch(y, to)
      OBVIOUS
    <2>12. /\ z \in State /\ Told(z, to) /\ y.dirty_cas \subseteq z.dirty_cas
           /\ z.db = y.db /\ z.expires = y.expires /\ z.bpop = y.bpop
           /\ z.blocking_keys = y.blocking_keys /\ z.copy = y.copy
           /\ z.renamed = y.renamed /\ z.ready_keys = y.ready_keys
           /\ z.served = y.served /\ z.must_propagate = y.must_propagate
      BY <2>10, <2>11, TouchFields
    <2>13. Told(z, k)
      BY <2>10, <2>12 DEF Told
    <2>14. z.db = w.db /\ z.expires = w.expires /\ z.renamed = (u.renamed \ {k}) \cup {to}
      BY <2>7, <2>10, <2>12
    <2>15. Lasting(z) /\ Whole(z)
      BY <2>4, <2>5, <2>8, <2>14, Constants DEF Lasting, Whole
    <2>16. \A j \in Key : \/ Told(z, j)
                          \/ z.db[j] = u.db[j] /\ (z.expires[j] # "no" => u.expires[j] # "no")
                          \/ u.expires[j] # "no" /\ z.db[j] = None
      BY <2>8, <2>12, <2>13, <2>14
    <2>17. ASSUME NEW j \in Key, IsList(z.db[j]), u.blocking_keys[j] # <<>>
           PROVE  \/ IsList(u.db[j]) /\ (j \in u.renamed => j \in z.renamed)
                  \/ j \in z.renamed \/ j \in ToSet(z.ready_keys)
      <3>1. CASE j = to
        BY <2>14, <3>1
      <3>2. CASE j # to
        <4>1. j # k
          BY <2>8, <2>14, <2>17, <3>2 DEF IsList
        <4>2. z.db[j] = u.db[j]
          BY <2>8, <2>14, <3>2, <4>1
        <4> QED BY <2>14, <2>17, <4>1, <4>2
      <3> QED BY <3>1, <3>2
    <2>18. PICK item : item = Item("rename", k, to)
      OBVIOUS
    <2>19. item.op \notin {"multi", "exec"}
      BY <2>18 DEF Item
    <2>20. Replayed(Shown(u.db), item) = Shown(z.db)
      <3>1. Replayed(Shown(u.db), Item("rename", k, to))
               = Shown([[u.db EXCEPT ![k] = None] EXCEPT ![to] = u.db[k]])
        BY <2>4, ReplayedRename
      <3> QED BY <2>5, <2>7, <2>14, <2>18, <3>1
    <2>21. /\ z.copy = u.copy
           /\ z.bpop = u.bpop /\ z.blocking_keys = u.blocking_keys /\ z.served = u.served
           /\ z.must_propagate = u.must_propagate /\ u.dirty_cas \subseteq z.dirty_cas
           /\ z.ready_keys = u.ready_keys
      BY <2>7, <2>10, <2>12
    <2>22. Change(u, z, item)
      BY <2>12, <2>15, <2>16, <2>17, <2>19, <2>20, <2>21 DEF Change
    <2>23. PICK r : r = Propagate(z, item)
      OBVIOUS
    <2>24. Fit(r) /\ Kept(u, r)
      BY <2>2, <2>4, <2>15, <2>21, <2>22, <2>23, ChangeFit
    <2>25. Rename(s, k, to) = r
      BY <1>1, <1>5, <2>1, <2>6, <2>9, <2>11, <2>18, <2>23 DEF Rename
    <2> QED BY <1>2, <2>2, <2>24, <2>25, KeptTwice
  <1> QED BY <1>3, <1>4, <1>5

\* The keys of a blocking pop are looked up one by one.
LEMMA LookUpFit ==
    ASSUME watched_keys \in [Client -> SUBSET Key], NEW s, Fit(s), NEW keys \in Seq(Key)
    PROVE  LET t == LookUp(s, keys)[Len(keys)] IN Fit(t) /\ Kept(s, t)
  <1> DEFINE L == Len(keys)
             S == {t \in State : Fit(t) /\ Kept(s, t)}
             Next1(t, n) == IF \E i \in 1..n-1 : t.db[keys[i]] # None THEN t
                            ELSE Expire(t, keys[n])
             IsFound(a) == a = [n \in 0..L |-> IF n = 0 THEN s ELSE Next1(a[n-1], n)]
  <1>1. L \in Nat /\ \A n \in 1..L : keys[n] \in Key
    BY LenProperties
  <1>2. s \in S
    BY FitFields DEF Kept
  <1>3. \A t \in S : \A n \in 1..L : Next1(t, n) \in S
    <2> SUFFICES ASSUME NEW t \in S, NEW n \in 1..L
                 PROVE  Next1(t, n) \in S
      OBVIOUS
    <2>1. Fit(t) /\ Kept(s, t) /\ keys[n] \in Key
      BY <1>1
    <2>2. PICK u : u = Expire(t, keys[n])
      OBVIOUS
    <2>3. Fit(u) /\ Kept(s, u)
      BY <2>1, <2>2, ExpireFit, KeptTwice
    <2>4. u \in State
      BY <2>3, FitFields
    <2>5. Next1(t, n) = t \/ Next1(t, n) = u
      BY <2>2
    <2> QED BY <2>3, <2>4, <2>5
  <1> HIDE DEF S, L, Next1
  <1>4. \E a : IsFound(a)
    <2> DEFINE F == [p \in S \X (1..L) |-> Next1(p[1], p[2])]
    <2>1. F \in Steps(S, L)
      BY <1>3 DEF Steps
    <2>2. \A t \in S : \A n \in 1..L : F[<<t, n>>] = Next1(t, n)
      OBVIOUS
    <2> HIDE DEF F
    <2>3. PICK a : IsChainOf(a, S, s, L, F)
      BY <1>1, <1>2, <2>1, Chain
    <2>4. \A n \in 1..L : a[n] = Next1(a[n-1], n)
      <3> SUFFICES ASSUME NEW n \in 1..L PROVE a[n] = Next1(a[n-1], n)
        OBVIOUS
      <3>1. n - 1 \in 0..L
        BY <1>1
      <3> QED BY <2>2, <2>3, <3>1 DEF IsChainOf
    <2>5. \A n \in 0..L : a[n] = IF n = 0 THEN s ELSE Next1(a[n-1], n)
      BY <1>1, <2>3, <2>4 DEF IsChainOf
    <2>6. a = [n \in 0..L |-> IF n = 0 THEN s ELSE Next1(a[n-1], n)]
      BY <2>3, <2>5 DEF IsChainOf
    <2> QED BY <2>6
  <1>5. PICK a : a = LookUp(s, keys)
    OBVIOUS
  <1>6. IsFound(a)
    BY <1>4, <1>5 DEF LookUp, L, Next1
  <1>7. a[0] = s /\ \A n \in 1..L : a[n] = Next1(a[n-1], n)
    BY <1>1, <1>6
  <1>8. \A n \in 0..L : a[n] \in S
    <2>1. \A n \in 1..L : a[n-1] \in S => a[n] \in S
      BY <1>3, <1>7
    <2> QED BY <1>1, <1>2, <1>7, <2>1, AllAlong
  <1>9. a[L] \in S
    BY <1>1, <1>8
  <1> QED BY <1>5, <1>9 DEF S, L

\* What a step finds.
Found ==
    /\ watched_keys \in [Client -> SUBSET Key]
    /\ bpop \in [Client -> Blocking \cup {None}]
    /\ arrived \subseteq Client \X Client /\ ArrivedInv

\* What a command leaves to the next one of a transaction.
Passed(s, t) ==
    Fit(t) /\ t.copy.multi = s.copy.multi /\ t.must_propagate = s.must_propagate

\* A client may block unless it is in a transaction.
LEMMA BlockFit ==
    ASSUME Found, NEW s, Fit(s), s.bpop = bpop, NEW c \in Client, bpop[c] = None, ~multi[c],
           NEW cmd \in Blocking, \A k \in ToSet(cmd.keys) : s.db[k] = None
    PROVE  Passed(s, BlockFor(s, c, cmd))
  <1>1. PICK t : t = BlockFor(s, c, cmd)
    OBVIOUS
  <1>2. /\ Good(t) /\ t.bpop = [bpop EXCEPT ![c] = cmd]
        /\ t.db = s.db /\ t.copy = s.copy /\ t.ready_keys = s.ready_keys
        /\ t.must_propagate = s.must_propagate
    <2>1. /\ bpop \in [Client -> Blocking \cup {None}]
          /\ arrived \subseteq Client \X Client /\ ArrivedInv /\ Good(s)
      BY DEF Found, Fit
    <2>2. Good(BlockFor(s, c, cmd))
      BY <2>1, BlockGood
    <2>3. /\ t.bpop = [bpop EXCEPT ![c] = cmd] /\ t.db = s.db
          /\ t.copy = s.copy /\ t.ready_keys = s.ready_keys
          /\ t.must_propagate = s.must_propagate
      BY <1>1 DEF BlockFor, State, Fit, Good
    <2> QED BY <1>1, <2>2, <2>3
  <1>3. Quiet(t)
    <2> SUFFICES ASSUME NEW d \in Client, t.bpop[d] # None PROVE ~multi[d]
      BY DEF Quiet
    <2>1. d # c => t.bpop[d] = s.bpop[d]
      BY <1>2 DEF Found
    <2> QED BY <2>1 DEF Fit, Quiet
  <1>4. Fit(t)
    BY <1>2, <1>3 DEF Fit, Whole
  <1> QED BY <1>1, <1>2, <1>4 DEF Passed

\* BLPOP (blockingPopGenericCommand): it pops, blocks, or answers inside a MULTI.
LEMMA BlpopFit ==
    ASSUME Found, NEW s, Fit(s), NEW c \in Client,
           multi[c] \/ (s.bpop = bpop /\ bpop[c] = None),
           NEW cmd \in Blocking
    PROVE  Passed(s, Blpop(s, c, cmd))
  <1>1. cmd.keys \in Seq(Key)
    BY DEF Blocking, Command
  <1>2. PICK t : t = LookUp(s, cmd.keys)[Len(cmd.keys)]
    OBVIOUS
  <1>3. Fit(t) /\ Kept(s, t)
    BY <1>1, <1>2, LookUpFit DEF Found
  <1>4. PICK full : full = {i \in DOMAIN cmd.keys : t.db[cmd.keys[i]] # None}
    OBVIOUS
  <1>5. PICK k : k = cmd.keys[CHOOSE i \in full : \A j \in full : i <= j]
    OBVIOUS
  <1>6. CASE full = {}
    <2>1. CASE multi[c]
      <3>1. Blpop(s, c, cmd) = t
        BY <1>2, <1>4, <1>6, <2>1 DEF Blpop
      <3> QED BY <1>3, <3>1 DEF Passed, Kept
    <2>2. CASE ~multi[c]
      <3>1. Blpop(s, c, cmd) = BlockFor(t, c, cmd)
        BY <1>2, <1>4, <1>6, <2>2 DEF Blpop
      <3>2. t.bpop = bpop /\ bpop[c] = None
        BY <1>3, <2>2 DEF Kept
      <3>3. \A j \in ToSet(cmd.keys) : t.db[j] = None
        BY <1>4, <1>6 DEF ToSet
      <3>4. Passed(t, BlockFor(t, c, cmd))
        BY <1>3, <2>2, <3>2, <3>3, BlockFit
      <3> QED BY <1>3, <3>1, <3>4 DEF Passed, Kept
    <2> QED BY <2>1, <2>2
  <1>7. CASE full # {}
    <2>1. \E i \in full : \A j \in full : i <= j
      <3>1. full \subseteq Nat
        BY <1>1, <1>4, LenProperties
      <3> QED BY <1>7, <3>1, LeastElement
    <2>2. PICK i \in full : k = cmd.keys[i]
      BY <1>5, <2>1
    <2>3. k \in Key /\ t.db[k] # None
      BY <1>1, <1>4, <2>2, LenProperties
    <2>4. CASE t.db[k] = Str
      <3>1. Blpop(s, c, cmd) = t
        BY <1>2, <1>4, <1>5, <1>7, <2>4 DEF Blpop
      <3> QED BY <1>3, <3>1 DEF Passed, Kept
    <2>5. CASE t.db[k] # Str
      <3>1. PICK u : u = Propagate(Pop(t, k, "head"), Item("pop", k, "head"))
        OBVIOUS
      <3>2. Blpop(s, c, cmd) = u
        BY <1>2, <1>4, <1>5, <1>7, <2>5, <3>1 DEF Blpop
      <3>3. IsList(t.db[k])
        BY <2>3, <2>5 DEF IsList
      <3>4. Fit(u) /\ Kept(t, u)
        BY <1>3, <2>3, <3>1, <3>3, PopFit DEF Found
      <3> QED BY <1>3, <3>2, <3>4 DEF Passed, Kept
    <2> QED BY <2>4, <2>5
  <1> QED BY <1>6, <1>7

\* BRPOPLPUSH (brpoplpushCommand).
LEMMA BrpoplpushFit ==
    ASSUME Found, NEW s, Fit(s), NEW c \in Client,
           multi[c] \/ (s.bpop = bpop /\ bpop[c] = None),
           NEW cmd \in Blocking, cmd.op = "brpoplpush"
    PROVE  Passed(s, Brpoplpush(s, c, cmd))
  <1>1. cmd.keys \in Seq(Key) /\ cmd.keys # <<>> /\ Len(cmd.keys) <= 1 /\ cmd.target \in Key
    BY DEF Blocking, Command, WellFormed
  <1>2. PICK k \in Key : k = Head(cmd.keys)
    BY <1>1, HeadTailProperties
  <1>3. PICK t : t = Expire(s, k)
    OBVIOUS
  <1>4. Fit(t) /\ Kept(s, t)
    BY <1>3, ExpireFit DEF Found
  <1>5. CASE IsList(t.db[k])
    <2>1. t.expires[k] # "past"
      <3>1. t.db[k] # None
        BY <1>5 DEF IsList
      <3> QED BY <1>3, <3>1, ExpireFit DEF Found
    <2>2. PICK u : u = Rpoplpush(t, k, cmd.target)
      OBVIOUS
    <2>3. Fit(u) /\ Kept(t, u)
      BY <1>1, <1>4, <1>5, <2>1, <2>2, RpoplpushFit DEF Found
    <2>4. Brpoplpush(s, c, cmd) = u
      BY <1>2, <1>3, <1>5, <2>2 DEF Brpoplpush
    <2> QED BY <1>4, <2>3, <2>4 DEF Passed, Kept
  <1>6. CASE ~IsList(t.db[k]) /\ (t.db[k] = Str \/ multi[c])
    <2>1. Brpoplpush(s, c, cmd) = t
      BY <1>2, <1>3, <1>6 DEF Brpoplpush
    <2> QED BY <1>4, <2>1 DEF Passed, Kept
  <1>7. CASE ~IsList(t.db[k]) /\ t.db[k] # Str /\ ~multi[c]
    <2>1. Brpoplpush(s, c, cmd) = BlockFor(t, c, cmd)
      BY <1>2, <1>3, <1>7 DEF Brpoplpush
    <2>2. t.bpop = bpop /\ bpop[c] = None
      BY <1>4, <1>7 DEF Kept
    <2>3. \A j \in ToSet(cmd.keys) : t.db[j] = None
      <3>1. \A j \in ToSet(cmd.keys) : j = k
        <4>1. Len(cmd.keys) \in Nat /\ DOMAIN cmd.keys = 1..Len(cmd.keys)
          BY <1>1, LenProperties
        <4>2. \A i \in DOMAIN cmd.keys : cmd.keys[i] = cmd.keys[1]
          BY <1>1, <4>1
        <4>3. k = cmd.keys[1]
          BY <1>1, <1>2
        <4> QED BY <4>2, <4>3 DEF ToSet
      <3> QED BY <1>7, <3>1 DEF IsList
    <2>4. Passed(t, BlockFor(t, c, cmd))
      BY <1>4, <1>7, <2>2, <2>3, BlockFit
    <2> QED BY <1>4, <2>1, <2>4 DEF Passed, Kept
  <1> QED BY <1>5, <1>6, <1>7

\* call.
LEMMA CallFit ==
    ASSUME Found, NEW s, Fit(s), NEW c \in Client,
           multi[c] \/ (s.bpop = bpop /\ bpop[c] = None),
           NEW cmd \in Command
    PROVE  Passed(s, Call(s, c, cmd))
  <1>1. /\ cmd.op \in {"lpush", "blpop", "brpoplpush", "set", "del", "expire", "flushdb",
                       "rename", "get"}
        /\ cmd.keys \in Seq(Key) /\ (cmd.op # "flushdb" => cmd.keys # <<>>)
        /\ cmd.op = "rename" => cmd.target \in Key
        /\ cmd.op = "lpush" => cmd.arg \in Nat
    BY DEF Command, WellFormed
  <1>2. cmd.op # "flushdb" => Head(cmd.keys) \in Key
    BY <1>1, HeadTailProperties
  <1>3. \A t : Fit(t) /\ Kept(s, t) => Passed(s, t)
    BY DEF Passed, Kept
  <1>4. watched_keys \in [Client -> SUBSET Key]
    BY DEF Found
  <1>5. CASE cmd.op = "lpush"
    <2>1. Fit(Lpush(s, Head(cmd.keys), cmd.arg)) /\ Kept(s, Lpush(s, Head(cmd.keys), cmd.arg))
      BY <1>1, <1>2, <1>4, <1>5, LpushFit
    <2>2. Call(s, c, cmd) = Lpush(s, Head(cmd.keys), cmd.arg)
      BY <1>5 DEF Call
    <2> QED BY <1>3, <2>1, <2>2
  <1>6. CASE cmd.op = "blpop"
    <2>1. cmd \in Blocking
      BY <1>6 DEF Blocking
    <2>2. Call(s, c, cmd) = Blpop(s, c, cmd)
      BY <1>6 DEF Call
    <2> QED BY <2>1, <2>2, BlpopFit
  <1>7. CASE cmd.op = "brpoplpush"
    <2>1. cmd \in Blocking
      BY <1>7 DEF Blocking
    <2>2. Call(s, c, cmd) = Brpoplpush(s, c, cmd)
      BY <1>7 DEF Call
    <2> QED BY <1>7, <2>1, <2>2, BrpoplpushFit
  <1>8. CASE cmd.op = "set"
    <2>1. Call(s, c, cmd) = SetKey(s, Head(cmd.keys))
      BY <1>8 DEF Call
    <2> QED BY <1>2, <1>3, <1>4, <1>8, <2>1, SetKeyFit
  <1>9. CASE cmd.op = "del"
    <2>1. Call(s, c, cmd) = Del(s, Head(cmd.keys))
      BY <1>9 DEF Call
    <2> QED BY <1>2, <1>3, <1>4, <1>9, <2>1, DelFit
  <1>10. CASE cmd.op = "expire"
    <2>1. Call(s, c, cmd) = ExpireKey(s, Head(cmd.keys))
      BY <1>10 DEF Call
    <2> QED BY <1>2, <1>3, <1>4, <1>10, <2>1, ExpireKeyFit
  <1>11. CASE cmd.op = "flushdb"
    <2>1. Call(s, c, cmd) = Flush(s)
      BY <1>11 DEF Call
    <2> QED BY <1>3, <1>4, <2>1, FlushFit
  <1>12. CASE cmd.op = "rename"
    <2>1. Call(s, c, cmd) = Rename(s, Head(cmd.keys), cmd.target)
      BY <1>12 DEF Call
    <2> QED BY <1>1, <1>2, <1>3, <1>4, <1>12, <2>1, RenameFit
  <1>13. CASE cmd.op = "get"
    <2>1. Call(s, c, cmd) = Expire(s, Head(cmd.keys))
      BY <1>13 DEF Call
    <2> QED BY <1>2, <1>3, <1>4, <1>13, <2>1, ExpireFit
  <1> QED BY <1>1, <1>5, <1>6, <1>7, <1>8, <1>9, <1>10, <1>11, <1>12, <1>13

-----------------------------------------------------------------------------
(* The clients that a command made ready. *)

\* Only the list that is being served can be empty.
Hollow(s)  == \A k \in Key : s.db[k] = <<>> => s.ready_keys # <<>> /\ k = Head(s.ready_keys)
Serving(s) == Good(s) /\ Hollow(s) /\ Quiet(s) /\ IsInjective(s.ready_keys)

Blocked(s) == {c \in Client : s.bpop[c] # None}
\* A bound of the turns that are left.
Weight(s)  == 2 * Cardinality(Blocked(s)) + Len(s.ready_keys)

\* The parts of a state in which clients are being served.
LEMMA ServingFields ==
    ASSUME NEW s, Serving(s)
    PROVE  /\ s \in State /\ Lasting(s) /\ Good(s) /\ Watchful(s)
           /\ s.db \in [Key -> Value] /\ s.expires \in [Key -> {"no", "set", "past"}]
           /\ s.ready_keys \in Seq(Key) /\ s.renamed \in SUBSET Key
           /\ ToSet(s.ready_keys) \subseteq Key /\ IsInjective(s.ready_keys)
           /\ s.bpop \in [Client -> Blocking \cup {None}]
  BY StateFields, ReadyKeys DEF Serving, Good

\* A queue without its first element.
LEMMA TailFacts ==
    ASSUME NEW S, NEW q \in Seq(S), q # <<>>
    PROVE  /\ Tail(q) \in Seq(S) /\ Head(q) \in S /\ Len(Tail(q)) = Len(q) - 1
           /\ Head(q) \in ToSet(q) /\ ToSet(q) = ToSet(Tail(q)) \cup {Head(q)}
           /\ IsInjective(q) => IsInjective(Tail(q))
  <1>1. /\ Len(q) \in Nat /\ Len(q) # 0 /\ DOMAIN q = 1..Len(q)
        /\ \A i \in 1..Len(q) : q[i] \in S
    BY LenProperties, EmptySeq
  <1>2. /\ Tail(q) \in Seq(S) /\ Head(q) = q[1] /\ Len(Tail(q)) = Len(q) - 1
        /\ \A i \in 1..Len(q) - 1 : Tail(q)[i] = q[i + 1]
    BY HeadTailProperties
  <1>3. PICK r \in Seq(S) : r = Tail(q)
    BY <1>2
  <1>4. DOMAIN r = 1..Len(q) - 1
    BY <1>2, <1>3, LenProperties
  <1>5. Head(q) \in S /\ Head(q) \in ToSet(q)
    BY <1>1, <1>2 DEF ToSet
  <1>6. ToSet(q) = ToSet(r) \cup {Head(q)}
    <2>1. ASSUME NEW x \in ToSet(q) PROVE x \in ToSet(r) \cup {Head(q)}
      <3>1. PICK i \in 1..Len(q) : x = q[i]
        BY <1>1 DEF ToSet
      <3>2. CASE i = 1
        BY <1>2, <3>1, <3>2
      <3>3. CASE i # 1
        <4>1. i - 1 \in 1..Len(q) - 1 /\ (i - 1) + 1 = i
          BY <1>1, <3>3
        <4> QED BY <1>2, <1>3, <1>4, <3>1, <4>1 DEF ToSet
      <3> QED BY <3>2, <3>3
    <2>2. ASSUME NEW x \in ToSet(r) PROVE x \in ToSet(q)
      <3>1. PICK i \in 1..Len(q) - 1 : x = r[i]
        BY <1>4 DEF ToSet
      <3>2. i + 1 \in 1..Len(q)
        BY <1>1
      <3> QED BY <1>1, <1>2, <1>3, <3>1, <3>2 DEF ToSet
    <2> QED BY <1>5, <2>1, <2>2
  <1>7. ASSUME IsInjective(q) PROVE IsInjective(r)
    <2>1. \A i \in 1..Len(q) - 1 : i + 1 \in 1..Len(q) /\ r[i] = q[i + 1]
      BY <1>1, <1>2, <1>3
    <2>2. \A i, j \in 1..Len(q) - 1 : i + 1 = j + 1 => i = j
      BY <1>1
    <2> QED BY <1>1, <1>4, <1>7, <2>1, <2>2 DEF IsInjective
  <1> QED BY <1>2, <1>3, <1>5, <1>6, <1>7

\* The deletion of a list that was emptied: those who watch it have been told, and the
\* stream has its last pop.
LEMMA EmptiedGood ==
    ASSUME watched_keys \in [Client -> SUBSET Key], NEW s, Good(s),
           NEW k \in Key, s.db[k] = <<>>, Told(s, k)
    PROVE  Good(Delete(s, k))
  <1>1. /\ s \in State /\ Lasting(s) /\ Listed(s) /\ Signaled(s) /\ Watchful(s) /\ InStep(s)
        /\ Ordered(s)
    BY DEF Good
  <1>2. PICK u : u = Delete(s, k)
    OBVIOUS
  <1>3. /\ u \in State
        /\ u.db = [s.db EXCEPT ![k] = None]
        /\ u.expires = [s.expires EXCEPT ![k] = "no"]
        /\ u.bpop = s.bpop /\ u.copy = s.copy
        /\ u.blocking_keys = s.blocking_keys /\ u.dirty_cas = s.dirty_cas
        /\ u.renamed = s.renamed /\ u.ready_keys = s.ready_keys
        /\ u.served = s.served /\ u.must_propagate = s.must_propagate
    BY <1>1, <1>2, DeleteFields
  <1>4. /\ s.db \in [Key -> Value] /\ s.expires \in [Key -> {"no", "set", "past"}]
        /\ ToSet(s.ready_keys) \subseteq Key
    BY <1>1, StateFields, ReadyKeys
  <1>5. \A j \in Key : /\ u.db[j] = IF j = k THEN None ELSE s.db[j]
                       /\ u.expires[j] = IF j = k THEN "no" ELSE s.expires[j]
    BY <1>3, <1>4
  <1>6. Lasting(u) /\ Listed(u) /\ Ordered(u)
    BY <1>1, <1>3, <1>5 DEF Lasting, Listed, Ordered
  <1>7. Signaled(u)
    BY <1>1, <1>3, <1>5 DEF Signaled, IsList
  <1>8. Watchful(u)
    <2>1. \A j \in ToSet(u.ready_keys) : Told(u, j)
      BY <1>1, <1>3 DEF Watchful, Told
    <2>2. ASSUME NEW c \in Client, NEW j \in watched_keys[c], c \notin u.dirty_cas
          PROVE  Unchanged(u, c, j)
      <3>1. j # k /\ j \in Key
        BY <1>3, <2>2 DEF Told
      <3>2. Unchanged(s, c, j)
        BY <1>1, <1>3, <2>2 DEF Watchful
      <3> QED BY <1>5, <3>1, <3>2 DEF Unchanged
    <2> QED BY <2>1, <2>2 DEF Watchful
  <1>9. InStep(u)
    <2>1. Stored(None) = None /\ Stored(<<>>) = None
      BY DEF Stored
    <2>2. \A j \in Key : Stored(u.db[j]) = Stored(s.db[j])
      BY <1>5, <2>1
    <2>3. Shown(u.db) = Shown(s.db)
      BY <2>2 DEF Shown
    <2> QED BY <1>1, <1>3, <2>3 DEF InStep
  <1>10. Good(u)
    BY <1>3, <1>6, <1>7, <1>8, <1>9 DEF Good
  <1> QED BY <1>2, <1>10

\* A key is done with when it has no list, or nobody waits for it.
LEMMA DoneGood ==
    ASSUME NEW s, Good(s), s.ready_keys # <<>>,
           ~IsList(s.db[Head(s.ready_keys)]) \/ s.blocking_keys[Head(s.ready_keys)] = <<>>
    PROVE  LET t == [s EXCEPT !.ready_keys = Tail(@)]
           IN  /\ Good(t) /\ t.db = s.db /\ t.bpop = s.bpop /\ t.copy = s.copy
               /\ t.ready_keys = Tail(s.ready_keys)
  <1>1. /\ s \in State /\ Lasting(s) /\ Listed(s) /\ Signaled(s) /\ Watchful(s) /\ InStep(s)
        /\ Ordered(s)
    BY DEF Good
  <1>2. PICK t : t = [s EXCEPT !.ready_keys = Tail(@)]
    OBVIOUS
  <1>3. /\ Tail(s.ready_keys) \in Seq(Key)
        /\ ToSet(s.ready_keys) = ToSet(Tail(s.ready_keys)) \cup {Head(s.ready_keys)}
    BY <1>1, StateFields, TailFacts
  <1>4. /\ t \in State /\ t.ready_keys = Tail(s.ready_keys)
        /\ t.db = s.db /\ t.expires = s.expires
        /\ t.bpop = s.bpop /\ t.copy = s.copy
        /\ t.blocking_keys = s.blocking_keys /\ t.dirty_cas = s.dirty_cas
        /\ t.renamed = s.renamed /\ t.served = s.served
    BY <1>1, <1>2, <1>3 DEF State
  <1>5. Lasting(t) /\ Listed(t) /\ InStep(t) /\ Ordered(t)
    BY <1>1, <1>4 DEF Lasting, Listed, InStep, Ordered
  <1>6. Signaled(t)
    BY <1>1, <1>3, <1>4 DEF Signaled
  <1>7. Watchful(t)
    BY <1>1, <1>3, <1>4 DEF Watchful, Told, Unchanged
  <1>8. Good(t)
    BY <1>4, <1>5, <1>6, <1>7 DEF Good
  <1> QED BY <1>2, <1>4, <1>8

\* An element leaves a list, which is kept even when it is empty now.
Taken(s, k, where) == [s EXCEPT !.db[k] = Popped(@, where)]
TakenGood(s, t, k, where) ==
    /\ Good(t) /\ Kept(s, t) /\ t.ready_keys = s.ready_keys
    /\ t.db = [s.db EXCEPT ![k] = Popped(s.db[k], where)]

\* The element that a client gets is told to the stream as a pop.
LEMMA TakenKeeps ==
    ASSUME watched_keys \in [Client -> SUBSET Key], NEW s, Good(s), NEW k \in Key,
           k \in ToSet(s.ready_keys), IsList(s.db[k]), s.db[k] # <<>>,
           NEW where \in {"head", "tail"}
    PROVE  TakenGood(s, Propagate(Taken(s, k, where), Item("pop", k, where)), k, where)
  <1>1. /\ s \in State /\ s.db \in [Key -> Value] /\ s.db[k] \in Seq(Nat) /\ Lasting(s)
        /\ Told(s, k)
    BY StateFields, ListIsSeq DEF Good, Watchful
  <1>2. PICK p \in Value : p = Popped(s.db[k], where) /\ p # None
    BY <1>1, PopFacts, Constants
  <1>3. PICK u : u = Taken(s, k, where)
    OBVIOUS
  <1>4. /\ u \in State /\ u.db = [s.db EXCEPT ![k] = p]
        /\ u.expires = s.expires /\ u.bpop = s.bpop /\ u.copy = s.copy
        /\ u.blocking_keys = s.blocking_keys /\ u.dirty_cas = s.dirty_cas
        /\ u.renamed = s.renamed /\ u.ready_keys = s.ready_keys
        /\ u.served = s.served /\ u.must_propagate = s.must_propagate
    <2>1. [s.db EXCEPT ![k] = p] \in [Key -> Value]
      BY <1>1
    <2> QED BY <1>1, <1>2, <1>3, <2>1 DEF State, Taken
  <1>5. \A j \in Key : u.db[j] = IF j = k THEN p ELSE s.db[j]
    BY <1>1, <1>4
  <1>6. Lasting(u)
    BY <1>1, <1>2, <1>4, <1>5 DEF Lasting
  <1>7. PICK item : item = Item("pop", k, where)
    OBVIOUS
  <1>8. item.op \notin {"multi", "exec"}
    BY <1>7 DEF Item
  <1>9. Replayed(Shown(s.db), item) = Shown(u.db)
    <2>1. Replayed(Shown(s.db), Item("pop", k, where)) = Shown([s.db EXCEPT ![k] = p])
      BY <1>1, <1>2, ReplayedPop
    <2> QED BY <1>4, <1>7, <2>1
  <1>10. \A j \in Key : Told(u, j) <=> Told(s, j)
    BY <1>4 DEF Told
  <1>11. ASSUME NEW j \in Key
         PROVE  \/ Told(u, j)
                \/ u.db[j] = s.db[j] /\ (u.expires[j] # "no" => s.expires[j] # "no")
                \/ s.expires[j] # "no" /\ u.db[j] = None
    BY <1>1, <1>4, <1>5, <1>10
  <1>12. \A j \in Key : IsList(u.db[j]) /\ s.blocking_keys[j] # <<>>
             => \/ IsList(s.db[j]) /\ (j \in s.renamed => j \in u.renamed)
                \/ j \in u.renamed \/ j \in ToSet(u.ready_keys)
    BY <1>4, <1>5
  <1>13. Change(s, u, item)
    BY <1>4, <1>6, <1>8, <1>9, <1>11, <1>12 DEF Change
  <1>14. PICK t : t = Propagate(u, item)
    OBVIOUS
  <1>15. Good(t) /\ Kept(s, t) /\ t.db = u.db /\ t.ready_keys = u.ready_keys
    BY <1>13, <1>14, PropagatedGood
  <1>16. TakenGood(s, t, k, where)
    BY <1>2, <1>4, <1>15 DEF TakenGood
  <1> QED BY <1>3, <1>7, <1>14, <1>16

\* From s to t client c is served.
ClientServed(s, t, c) ==
    /\ Good(t) /\ Hollow(t) /\ IsInjective(t.ready_keys)
    /\ t.bpop = [s.bpop EXCEPT ![c] = None] /\ t.copy.multi = s.copy.multi
    /\ Len(t.ready_keys) <= Len(s.ready_keys) + 1

\* serveClientBlockedOnList: the client is no longer blocked, and what is left is good.
LEMMA ServeClientGood ==
    ASSUME Found, NEW s, Serving(s), s.ready_keys # <<>>,
           NEW k, k = Head(s.ready_keys), s.expires[k] # "past",
           IsList(s.db[k]), s.db[k] # <<>>, s.blocking_keys[k] # <<>>,
           NEW c, c = Head(s.blocking_keys[k])
    PROVE  c \in Blocked(s) /\ ClientServed(s, ServeClient(s, k, c), c)
  <1>1. /\ s \in State /\ Good(s) /\ Lasting(s) /\ s.db \in [Key -> Value]
        /\ s.ready_keys \in Seq(Key) /\ k \in Key /\ k \in ToSet(s.ready_keys)
        /\ s.db[k] \in Seq(Nat) /\ Len(s.ready_keys) \in Nat
        /\ s.bpop \in [Client -> Blocking \cup {None}] /\ IsInjective(s.ready_keys)
        /\ s.expires \in [Key -> {"no", "set", "past"}]
        /\ watched_keys \in [Client -> SUBSET Key]
    BY ServingFields, TailFacts, ListIsSeq, LenProperties DEF Found
  <1>2. PICK v0 : v0 = Unblock(s, c)
    OBVIOUS
  <1>3. PICK a : a = [v0 EXCEPT !.served = @ \cup {<<c, k>>}]
    OBVIOUS
  <1>4. c \in Client /\ s.bpop[c] # None /\ Good(a)
    BY <1>1, <1>2, <1>3, ServedGood DEF Found
  <1>5. /\ v0 \in State /\ v0.bpop = [s.bpop EXCEPT ![c] = None]
        /\ v0.db = s.db /\ v0.expires = s.expires /\ v0.copy = s.copy
        /\ v0.ready_keys = s.ready_keys
    BY <1>1, <1>2, <1>4, UnblockFields DEF Good
  <1>6. /\ a \in State /\ a.bpop = [s.bpop EXCEPT ![c] = None]
        /\ a.db = s.db /\ a.expires = s.expires /\ a.copy = s.copy
        /\ a.ready_keys = s.ready_keys
    BY <1>3, <1>4, <1>5 DEF Good, State
  <1>7. PICK b \in Blocking : b = s.bpop[c]
    BY <1>1, <1>4
  <1>8. PICK where \in {"head", "tail"} : where = IF b.op = "blpop" THEN "head" ELSE "tail"
    OBVIOUS
  <1>9. PICK dst : dst = b.target
    OBVIOUS
  <1>10. dst = None \/ (dst \in Key /\ dst # None /\ where = "tail")
    BY <1>7, <1>8, <1>9, Constants DEF Blocking, Command, WellFormed
  <1>11. PICK e : e = IF dst = None THEN a ELSE Expire(a, dst)
    OBVIOUS
  <1>12. /\ Good(e) /\ Kept(a, e) /\ e \in State /\ e.ready_keys = s.ready_keys
         /\ e.db[k] = s.db[k]
         /\ \A j \in Key : e.db[j] = s.db[j] \/ e.db[j] = None
    <2>1. CASE dst = None
      BY <1>4, <1>6, <1>11, <2>1 DEF Kept
    <2>2. CASE dst # None
      <3>1. e = Expire(a, dst) /\ dst \in Key
        BY <1>10, <1>11, <2>2
      <3>2. /\ Good(e) /\ Kept(a, e) /\ e \in State
            /\ e.ready_keys = a.ready_keys
            /\ \A j \in Key : IF j = dst /\ a.expires[dst] = "past"
                                THEN e.db[j] = None /\ e.expires[j] = "no"
                                ELSE e.db[j] = a.db[j] /\ e.expires[j] = a.expires[j]
        <4>1. Good(a) /\ dst \in Key /\ watched_keys \in [Client -> SUBSET Key]
          BY <1>1, <1>4, <3>1
        <4>2. Expired(a, e, dst)
          BY <3>1, <4>1, ExpireGood
        <4> QED BY <4>2 DEF Expired
      <3>3. e.db[k] = s.db[k]
        BY <1>1, <1>6, <3>2
      <3> QED BY <1>6, <3>2, <3>3
    <2> QED BY <2>1, <2>2
  <1>13. PICK t : t = Unblock([s EXCEPT !.db[k] = Popped(@, where),
                                        !.served = @ \cup {<<c, k>>}], c)
    OBVIOUS
  <1>14. t = [a EXCEPT !.db[k] = Popped(@, where)]
    <2>1. Popped(s.db[k], where) \in Value
      BY <1>1, PopFacts
    <2>2. PICK d : d = [s EXCEPT !.db[k] = Popped(@, where), !.served = @ \cup {<<c, k>>}]
      OBVIOUS
    <2>3. /\ d \in State /\ d.db = [s.db EXCEPT ![k] = Popped(s.db[k], where)]
          /\ d.served = s.served \cup {<<c, k>>}
          /\ d.expires = s.expires /\ d.bpop = s.bpop /\ d.copy = s.copy
          /\ d.blocking_keys = s.blocking_keys /\ d.dirty_cas = s.dirty_cas
          /\ d.renamed = s.renamed /\ d.ready_keys = s.ready_keys
          /\ d.must_propagate = s.must_propagate
      <3>1. [s.db EXCEPT ![k] = Popped(s.db[k], where)] \in [Key -> Value]
        BY <1>1, <2>1
      <3>2. s.served \cup {<<c, k>>} \in SUBSET (Client \X Key)
        BY <1>1, <1>4, StateFields
      <3> QED BY <1>1, <2>2, <3>1, <3>2 DEF State
    <2>4. t = [d EXCEPT !.bpop[c] = None,
                        !.blocking_keys = [j \in Key |-> Without(s.blocking_keys[j], c)]]
      BY <1>13, <2>2, <2>3 DEF Unblock
    <2>5. v0 = [s EXCEPT !.bpop[c] = None,
                         !.blocking_keys = [j \in Key |-> Without(s.blocking_keys[j], c)]]
      BY <1>2 DEF Unblock
    <2>6. PICK q : q = [j \in Key |-> Without(s.blocking_keys[j], c)]
      OBVIOUS
    <2>7. PICK f : f = [s.bpop EXCEPT ![c] = None]
      OBVIOUS
    <2>8. t = [d EXCEPT !.bpop = f, !.blocking_keys = q]
      BY <2>3, <2>4, <2>6, <2>7
    <2>9. v0 = [s EXCEPT !.bpop = f, !.blocking_keys = q]
      BY <2>5, <2>6, <2>7
    <2>10. a = [s EXCEPT !.bpop = f, !.blocking_keys = q, !.served = s.served \cup {<<c, k>>}]
      BY <1>1, <1>3, <2>9 DEF State
    <2> QED BY <1>1, <2>2, <2>8, <2>10 DEF State
  <1>15. PICK u : u = IF dst = None THEN t ELSE Expire(t, dst)
    OBVIOUS
  <1>16. u = [e EXCEPT !.db[k] = Popped(@, where)]
    <2>1. CASE dst = None
      BY <1>11, <1>14, <1>15, <2>1
    <2>2. CASE dst # None /\ a.expires[dst] # "past"
      <3>1. t.expires = a.expires
        BY <1>6, <1>14 DEF State
      <3> QED BY <1>11, <1>14, <1>15, <2>2, <3>1 DEF Expire
    <2>3. CASE dst # None /\ a.expires[dst] = "past"
      <3>1. dst # k /\ dst \in Key
        BY <1>6, <1>10, <2>3
      <3>2. t.expires = a.expires
        BY <1>6, <1>14 DEF State
      <3>3. u = Propagate(Delete(t, dst), Item("del", dst, None))
        BY <1>15, <2>3, <3>2 DEF Expire
      <3>4. e = Propagate(Delete(a, dst), Item("del", dst, None))
        BY <1>11, <2>3 DEF Expire
      <3>5. /\ [[a.db EXCEPT ![k] = Popped(a.db[k], where)] EXCEPT ![dst] = None]
                  = [[a.db EXCEPT ![dst] = None] EXCEPT ![k] = Popped(a.db[k], where)]
            /\ [a.db EXCEPT ![dst] = None][k] = a.db[k]
        BY <1>1, <1>6, <3>1
      <3>6. [Delete(a, dst) EXCEPT !.db[k] = Popped(@, where)] = Delete(t, dst)
        <4>1. PICK l : l = Popped(a.db[k], where)
          OBVIOUS
        <4>2. t = [a EXCEPT !.db = [a.db EXCEPT ![k] = l]]
          BY <1>14, <4>1
        <4>3. PICK f : f = [a.db EXCEPT ![dst] = None]
          OBVIOUS
        <4>4. PICK g : g = [f EXCEPT ![k] = l]
          OBVIOUS
        <4>5. /\ [[a.db EXCEPT ![k] = l] EXCEPT ![dst] = None] = g /\ f[k] = a.db[k]
          BY <3>5, <4>1, <4>3, <4>4
        <4>6. PICK h : h = [a.expires EXCEPT ![dst] = "no"]
          OBVIOUS
        <4>7. Delete(a, dst) = [a EXCEPT !.db = f, !.expires = h]
          BY <4>3, <4>6 DEF Delete
        <4>8. Delete(t, dst) = [a EXCEPT !.db = g, !.expires = h]
          <5>1. t.db = [a.db EXCEPT ![k] = l] /\ t.expires = a.expires
            BY <1>6, <4>2 DEF State
          <5>2. Delete(t, dst) = [t EXCEPT !.db = g, !.expires = h]
            BY <4>5, <4>6, <5>1 DEF Delete
          <5> QED BY <1>6, <4>2, <5>2 DEF State
        <4>9. [[a EXCEPT !.db = f, !.expires = h] EXCEPT !.db[k] = Popped(@, where)]
                 = [a EXCEPT !.db = g, !.expires = h]
          BY <1>6, <4>1, <4>4, <4>5 DEF State
        <4> QED BY <4>7, <4>8, <4>9
      <3>7. PICK d : d = Delete(a, dst)
        OBVIOUS
      <3>8. d \in State
        BY <1>6, <3>1, <3>7, DeleteFields
      <3>9. [Propagate(d, Item("del", dst, None)) EXCEPT !.db[k] = Popped(@, where)]
              = Propagate([d EXCEPT !.db[k] = Popped(@, where)], Item("del", dst, None))
        BY <3>8 DEF Propagate, State
      <3> QED BY <3>3, <3>4, <3>6, <3>7, <3>9
    <2> QED BY <2>1, <2>2, <2>3
  <1>17. PICK x \in Nat, p \in Seq(Nat) :
            /\ x = Element(s.db[k], where) /\ p = Popped(s.db[k], where)
            /\ where = "tail" => Append(p, x) = s.db[k]
    BY <1>1, PopFacts
  <1>18. PICK popped : popped = Propagate(u, Item("pop", k, where))
    OBVIOUS
  <1>19. /\ Good(popped) /\ Kept(e, popped) /\ popped.ready_keys = e.ready_keys
         /\ popped.db = [e.db EXCEPT ![k] = p]
    <2>1. /\ k \in ToSet(e.ready_keys) /\ IsList(e.db[k]) /\ e.db[k] # <<>> /\ Good(e)
          /\ k \in Key /\ where \in {"head", "tail"}
          /\ watched_keys \in [Client -> SUBSET Key]
      BY <1>1, <1>8, <1>12
    <2>2. popped = Propagate(Taken(e, k, where), Item("pop", k, where))
      BY <1>16, <1>18 DEF Taken
    <2>3. TakenGood(e, Propagate(Taken(e, k, where), Item("pop", k, where)), k, where)
      BY <2>1, TakenKeeps, Zenon
    <2>4. /\ Good(popped) /\ Kept(e, popped) /\ popped.ready_keys = e.ready_keys
          /\ popped.db = [e.db EXCEPT ![k] = Popped(e.db[k], where)]
      BY <2>2, <2>3 DEF TakenGood
    <2> QED BY <1>12, <1>17, <2>4
  <1>20. /\ e.db \in [Key -> Value] /\ popped.db \in [Key -> Value]
         /\ \A j \in Key : popped.db[j] = IF j = k THEN p ELSE e.db[j]
    BY <1>12, <1>17, <1>19, StateFields DEF Value
  <1>21. Hollow(popped)
    <2> SUFFICES ASSUME NEW j \in Key, popped.db[j] = <<>>
                 PROVE  popped.ready_keys # <<>> /\ j = Head(popped.ready_keys)
      BY DEF Hollow
    <2>1. CASE j = k
      BY <1>12, <1>19, <2>1
    <2>2. CASE j # k
      <3>1. s.db[j] = <<>>
        BY <1>12, <1>20, <2>2, Constants
      <3> QED BY <2>2, <3>1 DEF Serving, Hollow
    <2> QED BY <2>1, <2>2
  <1>22. /\ popped.bpop = [s.bpop EXCEPT ![c] = None] /\ popped.copy.multi = s.copy.multi
         /\ popped.ready_keys = s.ready_keys
    BY <1>6, <1>12, <1>19 DEF Kept
  <1>23. CASE dst = None
    <2>1. ServeClient(s, k, c) = popped
      BY <1>7, <1>8, <1>9, <1>13, <1>15, <1>18, <1>23 DEF ServeClient
    <2>2. Len(popped.ready_keys) <= Len(s.ready_keys) + 1
      BY <1>1, <1>22
    <2>3. ClientServed(s, popped, c)
      BY <1>1, <1>19, <1>21, <1>22, <2>2 DEF ClientServed
    <2> QED BY <1>4, <2>1, <2>3 DEF Blocked
  <1>24. u.db = [e.db EXCEPT ![k] = p]
    BY <1>12, <1>16, <1>17 DEF State
  <1>25. CASE dst # None /\ u.db[dst] = Str
    <2>1. ServeClient(s, k, c) = [u EXCEPT !.db[k] = Append(@, x)]
      BY <1>7, <1>8, <1>9, <1>13, <1>15, <1>17, <1>25 DEF ServeClient
    <2>2. [u EXCEPT !.db[k] = Append(@, x)] = e
      <3>1. Append(p, x) = e.db[k]
        BY <1>10, <1>12, <1>17, <1>25
      <3>2. u = [e EXCEPT !.db = [e.db EXCEPT ![k] = p]]
        BY <1>12, <1>16, <1>17
      <3>3. [[e.db EXCEPT ![k] = p] EXCEPT ![k] = Append(p, x)] = e.db
        BY <1>1, <1>20, <3>1
      <3>4. [u EXCEPT !.db[k] = Append(@, x)] = [u EXCEPT !.db = e.db]
        <4>1. u.db[k] = p
          BY <1>1, <1>20, <1>24
        <4>2. [u.db EXCEPT ![k] = Append(p, x)] = e.db
          BY <1>24, <3>3
        <4> QED BY <4>1, <4>2
      <3>5. [u EXCEPT !.db = e.db] = e
        BY <1>12, <3>2 DEF State
      <3> QED BY <3>4, <3>5
    <2>3. Hollow(e)
      BY <1>12, Constants DEF Serving, Hollow
    <2>4. Len(e.ready_keys) <= Len(s.ready_keys) + 1
      BY <1>1, <1>12
    <2>5. e.bpop = [s.bpop EXCEPT ![c] = None] /\ e.copy.multi = s.copy.multi
      BY <1>6, <1>12 DEF Kept
    <2>6. ClientServed(s, e, c)
      BY <1>1, <1>12, <2>3, <2>4, <2>5 DEF ClientServed
    <2> QED BY <1>4, <2>1, <2>2, <2>6 DEF Blocked
  <1>26. CASE dst # None /\ u.db[dst] # Str
    <2>1. dst \in Key /\ popped.db[dst] # Str /\ popped.db[dst] \in Value
      BY <1>10, <1>19, <1>20, <1>24, <1>26
    <2>2. PICK y : y = PushTo(popped, dst, x)
      OBVIOUS
    <2>3. Change(popped, y, Item("lpush", dst, x))
      BY <1>19, <2>1, <2>2, PushChange
    <2>4. Pushed(popped, y, dst, x)
      BY <1>19, <2>1, <2>2, PushToFields DEF Good
    <2>5. PICK z : z = Propagate(y, Item("lpush", dst, x))
      OBVIOUS
    <2>6. Good(z) /\ Kept(popped, z) /\ z.db = y.db /\ z.ready_keys = y.ready_keys
      BY <1>1, <1>19, <2>3, <2>5, PropagatedGood
    <2>7. ServeClient(s, k, c) = z
      BY <1>7, <1>8, <1>9, <1>13, <1>15, <1>17, <1>18, <1>26, <2>2, <2>5 DEF ServeClient
    <2>8. /\ z.db = [popped.db EXCEPT ![dst] = Push(popped.db[dst], x)]
          /\ IsInjective(z.ready_keys) /\ Len(z.ready_keys) <= Len(s.ready_keys) + 1
          /\ z.ready_keys # <<>> /\ Head(z.ready_keys) = k
      BY <1>1, <1>22, <2>4, <2>6 DEF Pushed
    <2>9. Push(popped.db[dst], x) # <<>>
      BY <2>1, PushFacts
    <2>10. Hollow(z)
      <3> SUFFICES ASSUME NEW j \in Key, z.db[j] = <<>> PROVE j = k
        BY <2>8 DEF Hollow
      <3>1. j # dst
        BY <1>20, <2>1, <2>8, <2>9
      <3>2. popped.db[j] = <<>>
        BY <1>20, <2>1, <2>8, <3>1
      <3> QED BY <1>21, <1>22, <3>2 DEF Hollow
    <2>11. z.bpop = [s.bpop EXCEPT ![c] = None] /\ z.copy.multi = s.copy.multi
      BY <1>22, <2>6 DEF Kept
    <2>12. ClientServed(s, z, c)
      BY <2>6, <2>8, <2>10, <2>11 DEF ClientServed
    <2> QED BY <1>4, <2>7, <2>12 DEF Blocked
  <1> QED BY <1>23, <1>25, <1>26

\* The weight is a number: there are no more blocked clients than clients.
LEMMA WeightType ==
    ASSUME NEW s, Serving(s)
    PROVE  /\ Weight(s) \in Nat /\ Cardinality(Blocked(s)) \in Nat /\ IsFiniteSet(Blocked(s))
           /\ Len(s.ready_keys) \in Nat
           /\ Weight(s) <= 2 * Cardinality(Client) + Len(s.ready_keys)
  <1>1. s.ready_keys \in Seq(Key)
    BY ServingFields
  <1>2. Len(s.ready_keys) \in Nat
    BY <1>1, LenProperties
  <1>3. Blocked(s) \subseteq Client /\ IsFiniteSet(Client)
    BY Constants DEF Blocked
  <1>4. IsFiniteSet(Blocked(s)) /\ Cardinality(Blocked(s)) <= Cardinality(Client)
    BY <1>3, FS_Subset
  <1>5. Cardinality(Blocked(s)) \in Nat /\ Cardinality(Client) \in Nat
    BY <1>3, <1>4, FS_CardinalityType
  <1> QED BY <1>2, <1>4, <1>5 DEF Weight

\* A turn of the loops: somebody is unblocked, or a key is done with.
TurnGood(s, t) ==
    Serving(t) /\ t.copy.multi = s.copy.multi /\ Weight(t) < Weight(s)

\* A turn of handleClientsBlockedOnLists makes the weight smaller.
LEMMA ServeNextGood ==
    ASSUME Found, NEW s, Serving(s), s.ready_keys # <<>>
    PROVE  TurnGood(s, ServeNext(s))
  <1>1. /\ s \in State /\ Good(s) /\ s.ready_keys \in Seq(Key) /\ IsInjective(s.ready_keys)
        /\ watched_keys \in [Client -> SUBSET Key]
    BY ServingFields DEF Found
  <1>2. PICK k \in Key : k = Head(s.ready_keys) /\ k \in ToSet(s.ready_keys)
    BY <1>1, TailFacts
  <1>3. PICK t : t = Expire(s, k)
    OBVIOUS
  <1>4. Good(t) /\ Kept(s, t) /\ t \in State /\ t.ready_keys = s.ready_keys
    <2>1. Expired(s, t, k)
      BY <1>1, <1>3, ExpireGood
    <2> QED BY <2>1 DEF Expired
  <1>5. \A j \in Key : IF j = k /\ s.expires[k] = "past"
                         THEN t.db[j] = None /\ t.expires[j] = "no"
                         ELSE t.db[j] = s.db[j] /\ t.expires[j] = s.expires[j]
    <2>1. Expired(s, t, k)
      BY <1>1, <1>3, ExpireGood
    <2> QED BY <2>1 DEF Expired
  <1>6. Serving(t)
    <2>1. Hollow(t)
      BY <1>4, <1>5, Constants DEF Serving, Hollow
    <2>2. Quiet(t)
      BY <1>4 DEF Serving, Quiet, Kept
    <2> QED BY <1>1, <1>4, <2>1, <2>2 DEF Serving
  <1>7. Weight(t) = Weight(s) /\ Blocked(t) = Blocked(s)
    BY <1>4 DEF Weight, Blocked, Kept
  <1>8. CASE t.db[k] \notin {None, Str, <<>>} /\ t.blocking_keys[k] # <<>>
    <2>1. PICK c : c = Head(t.blocking_keys[k])
      OBVIOUS
    <2>2. t.expires[k] # "past" /\ IsList(t.db[k])
      BY <1>5, <1>8 DEF IsList
    <2>3. PICK u : u = ServeClient(t, k, c)
      OBVIOUS
    <2>4. c \in Blocked(t) /\ ClientServed(t, u, c)
      BY <1>2, <1>4, <1>6, <1>8, <2>1, <2>2, <2>3, ServeClientGood
    <2>5. ServeNext(s) = u
      BY <1>2, <1>3, <1>8, <2>1, <2>3 DEF ServeNext
    <2>6. t.bpop \in [Client -> Blocking \cup {None}]
      BY <1>6, ServingFields
    <2>7. \A d \in Client : u.bpop[d] = IF d = c THEN None ELSE t.bpop[d]
      BY <2>4, <2>6 DEF ClientServed
    <2>8. Serving(u)
      <3>1. Quiet(u)
        BY <1>6, <2>7 DEF Quiet, Serving
      <3> QED BY <2>4, <3>1 DEF Serving, ClientServed
    <2>9. Blocked(u) = Blocked(t) \ {c}
      BY <2>7 DEF Blocked
    <2>10. Weight(u) < Weight(t)
      <3>1. Cardinality(Blocked(u)) = Cardinality(Blocked(t)) - 1
        BY <1>6, <2>4, <2>9, WeightType, FS_RemoveElement
      <3>2. Len(u.ready_keys) <= Len(t.ready_keys) + 1
        BY <2>4 DEF ClientServed
      <3>3. /\ Cardinality(Blocked(t)) \in Nat /\ Cardinality(Blocked(u)) \in Nat
            /\ Len(u.ready_keys) \in Nat /\ Len(t.ready_keys) \in Nat
        BY <1>6, <2>8, WeightType
      <3> QED BY <3>1, <3>2, <3>3 DEF Weight
    <2>11. u.copy.multi = s.copy.multi
      BY <1>4, <2>4 DEF Kept, ClientServed
    <2> QED BY <1>7, <2>5, <2>8, <2>10, <2>11 DEF TurnGood
  <1>9. CASE ~(t.db[k] \notin {None, Str, <<>>} /\ t.blocking_keys[k] # <<>>)
    <2>1. PICK u : u = IF t.db[k] = <<>> THEN Delete(t, k) ELSE t
      OBVIOUS
    <2>2. /\ Good(u) /\ u.bpop = t.bpop /\ u.copy = t.copy /\ u.ready_keys = t.ready_keys
          /\ u.blocking_keys = t.blocking_keys
          /\ u.db[k] # <<>> /\ \A j \in Key \ {k} : u.db[j] = t.db[j]
          /\ ~IsList(u.db[k]) \/ u.blocking_keys[k] = <<>>
      <3>1. CASE t.db[k] = <<>>
        <4>1. Told(t, k)
          BY <1>2, <1>4 DEF Good, Watchful
        <4>2. u = Delete(t, k)
          BY <2>1, <3>1
        <4>3. Good(u)
          BY <1>1, <1>4, <3>1, <4>1, <4>2, EmptiedGood
        <4>4. /\ u.db = [t.db EXCEPT ![k] = None]
              /\ u.bpop = t.bpop /\ u.copy = t.copy /\ u.ready_keys = t.ready_keys
              /\ u.blocking_keys = t.blocking_keys
          BY <1>4, <4>2, DeleteFields
        <4>5. u.db[k] = None /\ \A j \in Key \ {k} : u.db[j] = t.db[j]
          BY <1>4, <4>4, StateFields
        <4> QED BY <4>3, <4>4, <4>5, Constants DEF IsList
      <3>2. CASE t.db[k] # <<>>
        BY <1>4, <1>9, <2>1, <3>2 DEF IsList
      <3> QED BY <3>1, <3>2
    <2>3. PICK w : w = [u EXCEPT !.ready_keys = Tail(@)]
      OBVIOUS
    <2>4. Good(w) /\ w.db = u.db /\ w.bpop = u.bpop /\ w.copy = u.copy
          /\ w.ready_keys = Tail(u.ready_keys)
      <3>1. /\ Good(u) /\ u.ready_keys # <<>>
            /\ \/ ~IsList(u.db[Head(u.ready_keys)])
               \/ u.blocking_keys[Head(u.ready_keys)] = <<>>
        BY <1>2, <1>4, <2>2
      <3> QED BY <2>3, <3>1, DoneGood
    <2>5. ServeNext(s) = w
      BY <1>2, <1>3, <1>9, <2>1, <2>3 DEF ServeNext
    <2>6. /\ w.ready_keys = Tail(s.ready_keys) /\ w.bpop = s.bpop
          /\ w.copy.multi = s.copy.multi
      BY <1>4, <2>2, <2>4 DEF Kept
    <2>7. IsInjective(w.ready_keys) /\ Len(w.ready_keys) = Len(s.ready_keys) - 1
      BY <1>1, <2>6, TailFacts
    <2>8. Hollow(w)
      <3> SUFFICES ASSUME NEW j \in Key, w.db[j] = <<>> PROVE FALSE
        BY DEF Hollow
      <3>1. CASE j = k
        BY <2>2, <2>4, <3>1
      <3>2. CASE j # k
        <4>1. t.db[j] = <<>>
          BY <2>2, <2>4, <3>2
        <4> QED BY <1>2, <1>4, <1>6, <3>2, <4>1 DEF Serving, Hollow
      <3> QED BY <3>1, <3>2
    <2>9. Quiet(w)
      BY <2>6 DEF Quiet, Serving
    <2>10. Serving(w)
      BY <2>4, <2>7, <2>8, <2>9 DEF Serving
    <2>11. Weight(w) < Weight(s)
      <3>1. Blocked(w) = Blocked(s)
        BY <2>6 DEF Blocked
      <3>2. Cardinality(Blocked(s)) \in Nat /\ Len(s.ready_keys) \in Nat
        BY WeightType
      <3> QED BY <2>7, <3>1, <3>2 DEF Weight
    <2> QED BY <2>5, <2>6, <2>10, <2>11 DEF TurnGood
  <1> QED BY <1>8, <1>9

\* A queue in which nothing is twice is no longer than the set it is from.
LEMMA QueueLength ==
    ASSUME NEW q \in Seq(Key), IsInjective(q)
    PROVE  Len(q) <= Cardinality(Key)
  <1>1. Len(q) \in Nat /\ DOMAIN q = 1..Len(q) /\ q \in [1..Len(q) -> Key]
    BY LenProperties
  <1>2. q \in Injection(1..Len(q), Key)
    BY <1>1 DEF Injection, IsInjective
  <1>3. Cardinality(1..Len(q)) <= Cardinality(Key)
    BY <1>2, Constants, FS_Injection
  <1>4. Cardinality(1..Len(q)) = Len(q)
    BY <1>1, FS_Interval
  <1> QED BY <1>3, <1>4

\* After the turns nobody is left to serve.
Handled(s, t) == Fit(t) /\ t.ready_keys = <<>> /\ t.copy.multi = s.copy.multi

\* handleClientsBlockedOnLists.
LEMMA HandleBlockedGood ==
    ASSUME Found, NEW s, Fit(s)
    PROVE  Handled(s, HandleBlocked(s))
  <1> DEFINE L == MaxTurns
             S == {t \in State : Serving(t) /\ t.copy.multi = s.copy.multi}
             IsAfter(a) == a = [n \in 0..L |-> IF n = 0 THEN s ELSE Turn(a[n-1])]
  <1>1. Cardinality(Client) \in Nat /\ Cardinality(Key) \in Nat
    BY Constants, FS_CardinalityType
  <1>2. L \in Nat
    BY <1>1 DEF MaxTurns
  <1>3. Serving(s) /\ s \in State
    BY FitFields DEF Fit, Serving, Hollow, Whole
  <1>4. Weight(s) <= L
    <2>1. Len(s.ready_keys) <= Cardinality(Key)
      BY FitFields, QueueLength
    <2> QED BY <1>1, <1>3, <2>1, WeightType DEF MaxTurns
  <1> HIDE DEF L
  <1>5. \A t \in S : Turn(t) \in S /\ (t.ready_keys # <<>> => Weight(Turn(t)) < Weight(t))
    <2> SUFFICES ASSUME NEW t \in S
                 PROVE  Turn(t) \in S /\ (t.ready_keys # <<>> => Weight(Turn(t)) < Weight(t))
      OBVIOUS
    <2>1. CASE t.ready_keys = <<>>
      BY <2>1 DEF Turn
    <2>2. CASE t.ready_keys # <<>>
      <3>1. PICK u : u = ServeNext(t)
        OBVIOUS
      <3>2. TurnGood(t, u)
        BY <2>2, <3>1, ServeNextGood
      <3>3. Serving(u) /\ u.copy.multi = s.copy.multi /\ Weight(u) < Weight(t)
        BY <3>2 DEF TurnGood
      <3>4. u \in State
        BY <3>3, ServingFields
      <3>5. Turn(t) = u
        BY <2>2, <3>1 DEF Turn
      <3> QED BY <3>3, <3>4, <3>5
    <2> QED BY <2>1, <2>2
  <1>6. s \in S
    BY <1>3
  <1> HIDE DEF S
  <1>7. \E a : IsAfter(a)
    <2> DEFINE F == [p \in S \X (1..L) |-> Turn(p[1])]
    <2>1. F \in Steps(S, L)
      BY <1>5 DEF Steps
    <2>2. \A t \in S : \A n \in 1..L : F[<<t, n>>] = Turn(t)
      OBVIOUS
    <2> HIDE DEF F
    <2>3. PICK a : IsChainOf(a, S, s, L, F)
      BY <1>2, <1>6, <2>1, Chain
    <2>4. \A n \in 1..L : a[n] = Turn(a[n-1])
      <3> SUFFICES ASSUME NEW n \in 1..L PROVE a[n] = Turn(a[n-1])
        OBVIOUS
      <3>1. n - 1 \in 0..L
        BY <1>2
      <3> QED BY <2>2, <2>3, <3>1 DEF IsChainOf
    <2>5. \A n \in 0..L : a[n] = IF n = 0 THEN s ELSE Turn(a[n-1])
      BY <1>2, <2>3, <2>4 DEF IsChainOf
    <2>6. a = [n \in 0..L |-> IF n = 0 THEN s ELSE Turn(a[n-1])]
      BY <2>3, <2>5 DEF IsChainOf
    <2> QED BY <2>6
  <1>8. PICK a : a = CHOOSE f : IsAfter(f)
    OBVIOUS
  <1>9. IsAfter(a)
    BY <1>7, <1>8
  <1>10. HandleBlocked(s) = a[L]
    BY <1>8 DEF HandleBlocked, L
  <1>11. a[0] = s /\ \A n \in 1..L : a[n] = Turn(a[n-1])
    BY <1>2, <1>9
  <1> HIDE DEF IsAfter
  <1>12. \A n \in 0..L : a[n] \in S
    <2>1. \A n \in 1..L : a[n-1] \in S => a[n] \in S
      BY <1>5, <1>11
    <2> QED BY <1>2, <1>6, <1>11, <2>1, AllAlong
  <1>13. \A n \in 0..L : a[n].ready_keys = <<>> \/ Weight(a[n]) + n <= L
    <2> DEFINE T == {n \in Nat : n <= L => a[n].ready_keys = <<>> \/ Weight(a[n]) + n <= L}
    <2>1. 0 \in T
      <3>1. Weight(s) + 0 <= L
        BY <1>3, <1>4, WeightType
      <3> QED BY <1>11, <3>1
    <2>2. ASSUME NEW n \in Nat, n \in T
          PROVE  n + 1 \in T
      <3> SUFFICES ASSUME n + 1 <= L
                   PROVE  a[n+1].ready_keys = <<>> \/ Weight(a[n+1]) + (n + 1) <= L
        OBVIOUS
      <3>1. n \in 0..L /\ n + 1 \in 1..L /\ n + 1 \in 0..L /\ (n + 1) - 1 = n
        BY <1>2
      <3>2. a[n] \in S /\ a[n+1] \in S /\ a[n+1] = Turn(a[n])
        BY <1>11, <1>12, <3>1
      <3>3. Weight(a[n]) \in Nat /\ Weight(a[n+1]) \in Nat
        BY <3>2, WeightType DEF S
      <3>4. a[n].ready_keys = <<>> \/ Weight(a[n]) + n <= L
        BY <2>2, <3>1
      <3>5. CASE a[n].ready_keys = <<>>
        BY <3>2, <3>5 DEF Turn
      <3>6. CASE a[n].ready_keys # <<>>
        <4>1. Weight(a[n+1]) < Weight(a[n])
          BY <1>5, <3>2, <3>6
        <4> QED BY <1>2, <3>3, <3>4, <3>6, <4>1
      <3> QED BY <3>5, <3>6
    <2> HIDE DEF T
    <2>3. \A n \in Nat : n \in T
      BY <2>1, <2>2, NatInductionSet
    <2> QED BY <1>2, <2>3 DEF T
  <1>14. PICK t : t = a[L]
    OBVIOUS
  <1>15. t \in S /\ (t.ready_keys = <<>> \/ Weight(t) + L <= L)
    BY <1>2, <1>12, <1>13, <1>14
  <1>16. Serving(t) /\ t.copy.multi = s.copy.multi
    BY <1>15 DEF S
  <1>17. t.ready_keys = <<>>
    <2> SUFFICES ASSUME Weight(t) + L <= L PROVE t.ready_keys = <<>>
      BY <1>15
    <2>1. /\ Weight(t) \in Nat /\ Cardinality(Blocked(t)) \in Nat /\ Len(t.ready_keys) \in Nat
          /\ t.ready_keys \in Seq(Key)
      BY <1>16, WeightType, ServingFields
    <2>2. Weight(t) = 0
      BY <1>2, <2>1
    <2>3. Len(t.ready_keys) = 0
      BY <2>1, <2>2 DEF Weight
    <2> QED BY <2>1, <2>3, EmptySeq
  <1>18. Whole(t)
    BY <1>16, <1>17 DEF Serving, Hollow, Whole
  <1>19. Handled(s, t)
    BY <1>16, <1>17, <1>18 DEF Handled, Fit, Serving
  <1> QED BY <1>10, <1>14, <1>19

-----------------------------------------------------------------------------
(* Transactions. *)

\* Opening or closing the bracket changes nothing else.
Bracketed(s, slave, b) == [s EXCEPT !.copy = slave, !.must_propagate = b]

\* Only the bracket changes: what the slave makes of the stream is the same.
LEMMA BracketFit ==
    ASSUME NEW s, Fit(s), NEW slave \in Slave, Reached(slave) = Reached(s.copy),
           NEW b \in BOOLEAN
    PROVE  LET t == Bracketed(s, slave, b)
           IN  /\ Fit(t) /\ t.copy = slave /\ t.must_propagate = b
               /\ t.bpop = s.bpop /\ t.ready_keys = s.ready_keys
  <1>1. /\ s \in State /\ Lasting(s) /\ Listed(s) /\ Signaled(s) /\ Watchful(s) /\ InStep(s)
        /\ Ordered(s) /\ Whole(s) /\ Quiet(s) /\ IsInjective(s.ready_keys)
    BY DEF Fit, Good
  <1>2. PICK t : t = Bracketed(s, slave, b)
    OBVIOUS
  <1>3. /\ t \in State /\ t.copy = slave /\ t.must_propagate = b
        /\ t.db = s.db /\ t.expires = s.expires /\ t.dirty_cas = s.dirty_cas
        /\ t.bpop = s.bpop /\ t.blocking_keys = s.blocking_keys
        /\ t.renamed = s.renamed /\ t.ready_keys = s.ready_keys /\ t.served = s.served
    BY <1>1, <1>2 DEF Bracketed, State
  <1>4. Lasting(t) /\ Listed(t) /\ Signaled(t) /\ Whole(t) /\ Quiet(t)
    BY <1>1, <1>3 DEF Lasting, Listed, Signaled, Whole, Quiet
  <1>5. Watchful(t)
    BY <1>1, <1>3 DEF Watchful, Told, Unchanged
  <1>6. InStep(t)
    BY <1>1, <1>3 DEF InStep
  <1>7. Ordered(t)
    BY <1>1, <1>3 DEF Ordered
  <1>8. Fit(t)
    BY <1>1, <1>3, <1>4, <1>5, <1>6, <1>7 DEF Fit, Good
  <1> QED BY <1>2, <1>3, <1>8

\* Inside a transaction MULTI has been sent when something else has.
InTransaction(s) == Fit(s) /\ (s.must_propagate <=> s.copy.multi)

\* A command of a transaction: MULTI was sent exactly when the bracket is open (execCommand).
LEMMA ExecOneGood ==
    ASSUME Found, NEW s, InTransaction(s), NEW c \in Client, multi[c], NEW cmd \in Command
    PROVE  InTransaction(ExecOne(s, c, cmd))
  <1>1. s \in State /\ s.copy \in Slave /\ s.must_propagate \in BOOLEAN
        /\ s.copy.multi \in BOOLEAN
    <2>1. s \in State
      BY FitFields DEF InTransaction
    <2>2. s.copy \in Slave
      BY <2>1, StateFields
    <2> QED BY <2>1, <2>2, StateFields DEF Slave
  <1>2. PICK opens : opens = (~s.must_propagate /\ ~IsReadOnly(cmd))
    OBVIOUS
  <1>3. PICK t : t = IF opens THEN [Propagate(s, Item("multi", None, None))
                                      EXCEPT !.must_propagate = TRUE] ELSE s
    OBVIOUS
  <1>4. InTransaction(t)
    <2>1. CASE opens
      <3>1. PICK slave : slave = Received(s.copy, Item("multi", None, None))
        OBVIOUS
      <3>2. ~s.copy.multi
        BY <1>2, <2>1 DEF InTransaction
      <3>3. slave \in Slave /\ slave.multi /\ Reached(slave) = Reached(s.copy)
        BY <1>1, <3>1, <3>2, ReceivedBracket
      <3>4. t = Bracketed(s, slave, TRUE)
        BY <1>1, <1>3, <2>1, <3>1 DEF Propagate, Bracketed, State
      <3>5. Fit(t) /\ t.copy = slave /\ t.must_propagate = TRUE
        BY <3>3, <3>4, BracketFit DEF InTransaction
      <3> QED BY <3>3, <3>5 DEF InTransaction
    <2>2. CASE ~opens
      BY <1>3, <2>2
    <2> QED BY <2>1, <2>2
  <1>5. Passed(t, Call(t, c, cmd))
    BY <1>4, CallFit DEF InTransaction
  <1>6. ExecOne(s, c, cmd) = Call(t, c, cmd)
    BY <1>2, <1>3 DEF ExecOne
  <1> QED BY <1>4, <1>5, <1>6 DEF InTransaction, Passed

\* The commands of the queue one after the other.
LEMMA ExecutedGood ==
    ASSUME Found, NEW s, InTransaction(s), NEW c \in Client, multi[c],
           NEW cmds \in Seq(Command)
    PROVE  InTransaction(Executed(s, c, cmds)[Len(cmds)])
  <1> DEFINE L == Len(cmds)
             S == {t \in State : InTransaction(t)}
             Step(t, n) == ExecOne(t, c, cmds[n])
             IsAfter(a) == a = [n \in 0..L |-> IF n = 0 THEN s ELSE Step(a[n-1], n)]
  <1>1. L \in Nat /\ \A n \in 1..L : cmds[n] \in Command
    BY LenProperties
  <1>2. s \in S
    BY FitFields DEF InTransaction
  <1>3. \A t \in S : \A n \in 1..L : Step(t, n) \in S
    <2> SUFFICES ASSUME NEW t \in S, NEW n \in 1..L
                 PROVE  Step(t, n) \in S
      OBVIOUS
    <2>1. PICK u : u = ExecOne(t, c, cmds[n])
      OBVIOUS
    <2>2. InTransaction(u)
      BY <1>1, <2>1, ExecOneGood
    <2>3. u \in State
      BY <2>2, FitFields DEF InTransaction
    <2> QED BY <2>1, <2>2, <2>3
  <1> HIDE DEF S, L, Step
  <1>4. \E a : IsAfter(a)
    <2> DEFINE F == [p \in S \X (1..L) |-> Step(p[1], p[2])]
    <2>1. F \in Steps(S, L)
      BY <1>3 DEF Steps
    <2>2. \A t \in S : \A n \in 1..L : F[<<t, n>>] = Step(t, n)
      OBVIOUS
    <2> HIDE DEF F
    <2>3. PICK a : IsChainOf(a, S, s, L, F)
      BY <1>1, <1>2, <2>1, Chain
    <2>4. \A n \in 1..L : a[n] = Step(a[n-1], n)
      <3> SUFFICES ASSUME NEW n \in 1..L PROVE a[n] = Step(a[n-1], n)
        OBVIOUS
      <3>1. n - 1 \in 0..L
        BY <1>1
      <3> QED BY <2>2, <2>3, <3>1 DEF IsChainOf
    <2>5. \A n \in 0..L : a[n] = IF n = 0 THEN s ELSE Step(a[n-1], n)
      BY <1>1, <2>3, <2>4 DEF IsChainOf
    <2>6. a = [n \in 0..L |-> IF n = 0 THEN s ELSE Step(a[n-1], n)]
      BY <2>3, <2>5 DEF IsChainOf
    <2> QED BY <2>6
  <1>5. PICK a : a = Executed(s, c, cmds)
    OBVIOUS
  <1>6. IsAfter(a)
    BY <1>4, <1>5 DEF Executed, L, Step
  <1>7. a[0] = s /\ \A n \in 1..L : a[n] = Step(a[n-1], n)
    BY <1>1, <1>6
  <1>8. \A n \in 0..L : a[n] \in S
    <2>1. \A n \in 1..L : a[n-1] \in S => a[n] \in S
      BY <1>3, <1>7
    <2> QED BY <1>1, <1>2, <1>7, <2>1, AllAlong
  <1>9. a[L] \in S
    BY <1>1, <1>8
  <1> QED BY <1>5, <1>9 DEF S, L

\* execCommand: the bracket that was opened is closed.
LEMMA TransactionGood ==
    ASSUME Found, NEW s, InTransaction(s)
    PROVE  LET t == IF s.must_propagate THEN Propagate(s, Item("exec", None, None)) ELSE s
           IN  Fit(t) /\ ~t.copy.multi
  <1>1. s \in State /\ s.copy \in Slave /\ s.must_propagate \in BOOLEAN
    BY FitFields, StateFields DEF InTransaction
  <1>2. CASE s.must_propagate
    <2>1. PICK slave : slave = Received(s.copy, Item("exec", None, None))
      OBVIOUS
    <2>2. slave \in Slave /\ ~slave.multi /\ Reached(slave) = Reached(s.copy)
      BY <1>1, <1>2, <2>1, ReceivedBracket DEF InTransaction
    <2>3. PICK t : t = Propagate(s, Item("exec", None, None))
      OBVIOUS
    <2>4. t = Bracketed(s, slave, s.must_propagate)
      BY <1>1, <2>1, <2>3 DEF Propagate, Bracketed, State
    <2>5. Fit(t) /\ t.copy = slave
      BY <1>1, <2>2, <2>4, BracketFit DEF InTransaction
    <2> QED BY <1>2, <2>2, <2>3, <2>5
  <1>3. CASE ~s.must_propagate
    BY <1>1, <1>3 DEF InTransaction
  <1> QED BY <1>2, <1>3

-----------------------------------------------------------------------------
(* The invariant. *)

\* WatchedUnchanged, with what it rests on: a client that is not flagged and watches a key
\* that was to stay knows that it is to stay still, so that nothing can expire unseen.
Intact ==
    \A c \in Client \ dirty_cas : \A k \in watched_keys[c] :
        \/ db[k] = watched[c][k].val /\ (expires[k] # "no" => watched[c][k].ttl)
        \/ db[k] = None /\ watched[c][k].ttl

\* Who stands behind another in a list blocked after him.
InLine ==
    /\ \A k \in Key : \A i, j \in DOMAIN blocking_keys[k] :
          i < j => <<blocking_keys[k][i], blocking_keys[k][j]>> \in arrived
    /\ ArrivedInv

Inv == TypeOK /\ StreamReplays /\ NobodyWaitsInVain /\ Intact /\ InLine

\* What ServedInOrder says of a step.
InOrder ==
    \A k \in Key : \A p \in arrived :
        /\ k \in ToSet(bpop[p[1]].keys) /\ <<p[2], k>> \in served'
        => bpop'[p[1]] = None

\* A step starts in a state that is fit.
LEMMA NowFit ==
    ASSUME Inv
    PROVE  /\ Found /\ Fit(Now) /\ InTransaction(Now) /\ Now.bpop = bpop
           /\ Now.ready_keys = <<>> /\ ~Now.copy.multi /\ Now.dirty_cas = dirty_cas
  <1>1. PICK s : s = Now
    OBVIOUS
  <1>2. /\ s.db = db /\ s.expires = expires /\ s.dirty_cas = dirty_cas /\ s.bpop = bpop
        /\ s.blocking_keys = blocking_keys /\ s.copy = copy /\ s.renamed = renamed
        /\ s.ready_keys = <<>> /\ s.served = {} /\ s.must_propagate = FALSE
    BY <1>1 DEF Now
  <1>3. s \in State
    <2>1. db \in [Key -> Value] /\ copy \in Slave
      BY DEF Inv, TypeOK, Slave
    <2>2. /\ expires \in [Key -> {"no", "set", "past"}] /\ dirty_cas \in SUBSET Client
          /\ bpop \in [Client -> Blocking \cup {None}] /\ blocking_keys \in [Key -> Seq(Client)]
          /\ renamed \in SUBSET Key
      BY DEF Inv, TypeOK, Blocking
    <2>3. <<>> \in Seq(Key) /\ {} \in SUBSET (Client \X Key) /\ FALSE \in BOOLEAN
      OBVIOUS
    <2> QED BY <1>1, <2>1, <2>2, <2>3 DEF Now, State
  <1>4. Lasting(s)
    BY <1>2 DEF Inv, TypeOK, Lasting
  <1>5. Listed(s)
    BY <1>2 DEF Inv, TypeOK, Listed
  <1>6. Signaled(s)
    BY <1>2 DEF Inv, NobodyWaitsInVain, Signaled
  <1>7. Watchful(s)
    <2>1. ToSet(s.ready_keys) = {}
      BY <1>2 DEF ToSet
    <2> QED BY <1>2, <2>1 DEF Inv, Intact, Watchful, Unchanged
  <1>8. \A k \in Key : db[k] # <<>>
    BY DEF Inv, TypeOK
  <1>9. InStep(s)
    <2>1. Reached(s.copy) = db
      BY <1>2 DEF Inv, StreamReplays, Reached
    <2>2. Shown(s.db) = db
      BY <1>2, <1>3, <1>8, StateFields, ShownType
    <2> QED BY <2>1, <2>2 DEF InStep
  <1>10. Ordered(s)
    <2>1. \A k \in Key : Arranged(s.blocking_keys[k])
      BY <1>2 DEF Inv, InLine, Arranged, Behind
    <2> QED BY <1>2, <2>1 DEF Ordered
  <1>11. Whole(s) /\ Quiet(s)
    BY <1>2, <1>8 DEF Inv, TypeOK, Whole, Quiet
  <1>12. IsInjective(s.ready_keys)
    BY <1>2 DEF IsInjective
  <1>13. Fit(s)
    BY <1>3, <1>4, <1>5, <1>6, <1>7, <1>9, <1>10, <1>11, <1>12 DEF Fit, Good
  <1>14. ~s.copy.multi
    BY <1>2 DEF Inv, StreamReplays
  <1>15. Found
    BY DEF Inv, TypeOK, InLine, Found, Blocking
  <1> QED BY <1>1, <1>2, <1>13, <1>14, <1>15 DEF InTransaction

\* What a step does besides storing the data: flags may only be cleared with what they are
\* about, and nobody enters a transaction.
TxStep(s) ==
    /\ multi' \in [Client -> BOOLEAN] /\ queue' \in [Client -> Seq(Command)]
    /\ dirty_cas' \subseteq Client /\ dirty_exec' \subseteq {c \in Client : multi'[c]}
    /\ watched_keys' \in [Client -> SUBSET Key]
    /\ watched' \in [Client -> [Key -> {None} \cup [val : Value, ttl : BOOLEAN]]]
    /\ pushes' \in Nat
    /\ \A c \in Client :
          /\ multi'[c] => multi[c]
          /\ \/ watched_keys'[c] = {}
             \/ /\ watched_keys'[c] = watched_keys[c] /\ watched'[c] = watched[c]
                /\ c \in s.dirty_cas => c \in dirty_cas'

\* What was worked out is stored.
LEMMA StoreInv ==
    ASSUME Inv, NEW s, Fit(s), s.ready_keys = <<>>, ~s.copy.multi, Store(s), TxStep(s)
    PROVE  Inv' /\ InOrder
  <1>1. /\ db' = s.db /\ expires' = s.expires /\ copy' = s.copy
        /\ bpop' = s.bpop /\ blocking_keys' = s.blocking_keys /\ served' = s.served
        /\ arrived' = {p \in arrived : s.bpop[p[1]] # None /\ s.bpop[p[2]] # None}
                        \cup {p \in Client \X Client :
                                /\ bpop[p[1]] # None /\ s.bpop[p[1]] # None
                                /\ bpop[p[2]] = None /\ s.bpop[p[2]] # None}
        /\ renamed' = {k \in s.renamed : IsList(s.db[k])}
    BY DEF Store
  <1>2. /\ s \in State /\ Lasting(s) /\ Listed(s) /\ Signaled(s) /\ Watchful(s) /\ InStep(s)
        /\ Ordered(s) /\ Whole(s) /\ Quiet(s)
    BY DEF Fit, Good
  <1>3. arrived \subseteq Client \X Client /\ ArrivedInv
    BY DEF Inv, TypeOK, InLine
  <1>4. TypeOK'
    <2>1. /\ s.db \in [Key -> Value] /\ s.expires \in [Key -> {"no", "set", "past"}]
          /\ s.bpop \in [Client -> Blocking \cup {None}]
          /\ s.blocking_keys \in [Key -> Seq(Client)] /\ s.copy \in Slave
          /\ s.renamed \in SUBSET Key /\ s.served \in SUBSET (Client \X Key)
      BY <1>2, StateFields
    <2>2. db' \in [Key -> Value \ {<<>>}] /\ expires' \in [Key -> {"no", "set", "past"}]
      BY <1>1, <1>2, <2>1 DEF Whole
    <2>3. \A k \in Key : db'[k] = None => expires'[k] = "no"
      BY <1>1, <1>2 DEF Lasting
    <2>4. copy' \in [db : [Key -> Value], multi : BOOLEAN, queued : [Key -> Value]]
      BY <1>1, <2>1 DEF Slave
    <2>5. renamed' \subseteq Key /\ served' \subseteq Client \X Key
      BY <1>1, <2>1
    <2>6. arrived' \subseteq Client \X Client
      BY <1>1, <1>3
    <2>7. /\ bpop' \in [Client -> {m \in Command : m.op \in {"blpop", "brpoplpush"}} \cup {None}]
          /\ blocking_keys' \in [Key -> Seq(Client)]
      BY <1>1, <2>1 DEF Blocking
    <2>8. \A c \in Client : bpop'[c] # None => ~multi'[c]
      BY <1>1, <1>2 DEF Quiet, TxStep
    <2>9. \A k \in Key : /\ IsInjective(blocking_keys'[k])
                         /\ ToSet(blocking_keys'[k]) =
                               {c \in Client : bpop'[c] # None /\ k \in ToSet(bpop'[c].keys)}
      BY <1>1, <1>2 DEF Listed
    <2>10. /\ multi' \in [Client -> BOOLEAN] /\ queue' \in [Client -> Seq(Command)]
           /\ dirty_cas' \subseteq Client /\ dirty_exec' \subseteq {c \in Client : multi'[c]}
           /\ watched_keys' \in [Client -> SUBSET Key]
           /\ watched' \in [Client -> [Key -> {None} \cup [val : Value, ttl : BOOLEAN]]]
           /\ pushes' \in Nat
      BY DEF TxStep
    <2> QED BY <2>2, <2>3, <2>4, <2>5, <2>6, <2>7, <2>8, <2>9, <2>10 DEF TypeOK
  <1>5. StreamReplays'
    <2>1. Reached(s.copy) = s.copy.db
      BY DEF Reached
    <2>2. Shown(s.db) = s.db
      BY <1>2, StateFields, ShownType DEF Whole
    <2>3. s.copy.db = s.db
      BY <1>2, <2>1, <2>2 DEF InStep
    <2> QED BY <1>1, <2>3 DEF StreamReplays
  <1>6. NobodyWaitsInVain'
    <2>1. ToSet(s.ready_keys) = {}
      BY DEF ToSet
    <2> SUFFICES ASSUME NEW k \in Key, IsList(s.db[k]), k \notin renamed',
                        s.blocking_keys[k] # <<>>
                 PROVE  FALSE
      BY <1>1 DEF NobodyWaitsInVain, IsList
    <2>2. k \notin s.renamed
      BY <1>1
    <2> QED BY <1>2, <2>1, <2>2 DEF Signaled
  <1>7. Intact'
    <2> SUFFICES ASSUME NEW c \in Client, c \notin dirty_cas', NEW k \in watched_keys'[c]
                 PROVE  \/ /\ s.db[k] = watched'[c][k].val
                           /\ s.expires[k] # "no" => watched'[c][k].ttl
                        \/ s.db[k] = None /\ watched'[c][k].ttl
      BY <1>1 DEF Intact
    <2>1. /\ watched_keys'[c] = watched_keys[c] /\ watched'[c] = watched[c]
          /\ c \notin s.dirty_cas
      BY DEF TxStep
    <2>2. Unchanged(s, c, k)
      BY <1>2, <2>1 DEF Watchful
    <2> QED BY <2>1, <2>2 DEF Unchanged
  <1>8. InLine'
    <2>1. ASSUME NEW k \in Key, NEW i \in DOMAIN s.blocking_keys[k],
                 NEW j \in DOMAIN s.blocking_keys[k], i < j
          PROVE  <<s.blocking_keys[k][i], s.blocking_keys[k][j]>> \in arrived'
      <3>1. PICK a \in Client, b \in Client :
               /\ a = s.blocking_keys[k][i] /\ b = s.blocking_keys[k][j]
               /\ s.bpop[a] # None /\ s.bpop[b] # None
        <4>1. /\ s.blocking_keys[k][i] \in ToSet(s.blocking_keys[k])
              /\ s.blocking_keys[k][j] \in ToSet(s.blocking_keys[k])
          BY DEF ToSet
        <4> QED BY <1>2, <4>1 DEF Listed
      <3>2. <<a, b>> \in Behind
        BY <1>2, <2>1, <3>1 DEF Ordered, Arranged
      <3>3. CASE <<a, b>> \in arrived
        BY <1>1, <3>1, <3>3
      <3>4. CASE bpop[a] # None /\ bpop[b] = None
        BY <1>1, <3>1, <3>4
      <3> QED BY <3>1, <3>2, <3>3, <3>4 DEF Behind
    <2>2. ASSUME NEW p \in arrived'
          PROVE  /\ <<p[2], p[1]>> \notin arrived'
                 /\ s.bpop[p[1]] # None /\ s.bpop[p[2]] # None
      <3>1. PICK a \in Client, b \in Client : p = <<a, b>>
        BY <1>1, <1>3
      <3>2. s.bpop[a] # None /\ s.bpop[b] # None
        BY <1>1, <3>1
      <3>3. \/ <<a, b>> \in arrived
            \/ bpop[a] # None /\ bpop[b] = None
        BY <1>1, <3>1
      <3>4. <<b, a>> \notin arrived'
        <4>1. CASE <<a, b>> \in arrived
          <5>1. <<b, a>> \notin arrived /\ bpop[a] # None
            BY <1>3, <4>1 DEF ArrivedInv
          <5> QED BY <1>1, <5>1
        <4>2. CASE bpop[a] # None /\ bpop[b] = None
          <5>1. <<b, a>> \notin arrived
            BY <1>3, <4>2 DEF ArrivedInv
          <5> QED BY <1>1, <4>2, <5>1
        <4> QED BY <3>3, <4>1, <4>2
      <3> QED BY <3>1, <3>2, <3>4
    <2>3. ArrivedInv'
      BY <1>1, <2>2 DEF ArrivedInv
    <2>4. \A k \in Key : \A i, j \in DOMAIN s.blocking_keys[k] :
             i < j => <<s.blocking_keys[k][i], s.blocking_keys[k][j]>> \in arrived'
      BY <2>1
    <2> QED BY <1>1, <2>3, <2>4 DEF InLine
  <1>9. InOrder
    BY <1>1, <1>2 DEF InOrder, Ordered
  <1> QED BY <1>4, <1>5, <1>6, <1>7, <1>8, <1>9 DEF Inv

-----------------------------------------------------------------------------
(* The steps. *)

\* The commands that are sent are commands.
LEMMA SentCommand ==
    ASSUME Inv, NEW c \in Client, NEW cmd \in Commands[c]
    PROVE  Sent(cmd) \in Command
  <1>1. cmd \in Form /\ pushes \in Nat
    BY ServerAssumption DEF ServerAssumption, Inv, TypeOK
  <1>2. /\ cmd.op \in STRING /\ cmd.keys \in Seq(Key) /\ cmd.target \in Key \cup {None}
        /\ WellFormed(cmd)
    BY <1>1 DEF Form
  <1>3. PICK m : m = Sent(cmd)
    OBVIOUS
  <1>4. /\ m.op = cmd.op /\ m.keys = cmd.keys /\ m.target = cmd.target
        /\ m.arg = IF cmd.op = "lpush" THEN pushes + 1 ELSE None
        /\ m = [op |-> m.op, keys |-> m.keys, target |-> m.target, arg |-> m.arg]
    BY <1>3 DEF Sent
  <1>5. WellFormed(m)
    BY <1>2, <1>4 DEF WellFormed
  <1>6. m.arg \in Nat \cup {None} /\ (m.op = "lpush" => m.arg \in Nat)
    BY <1>1, <1>4
  <1>7. m \in Command
    BY <1>2, <1>4, <1>5, <1>6 DEF Command
  <1> QED BY <1>3, <1>7

\* What a command may do to the variables of the transactions.
LEMMA SentPushes ==
    ASSUME Inv, NEW c, NEW cmd, Send(c, cmd)
    PROVE  pushes' \in Nat /\ bpop[c] = None
  <1>1. pushes \in Nat
    BY DEF Inv, TypeOK
  <1> QED BY <1>1 DEF Send

\* processCommand: a command and the clients it made ready, in one step.
LEMMA ExecuteInv ==
    ASSUME Inv, NEW c \in Client, NEW cmd \in Commands[c], Execute(c, cmd)
    PROVE  Inv' /\ InOrder
  <1>1. Found /\ Fit(Now) /\ Now.bpop = bpop /\ ~Now.copy.multi
    BY NowFit
  <1>2. pushes' \in Nat /\ bpop[c] = None
    BY SentPushes DEF Execute
  <1>3. PICK r : r = Call(Now, c, Sent(cmd))
    OBVIOUS
  <1>4. Passed(Now, r)
    BY <1>1, <1>2, <1>3, SentCommand, CallFit
  <1>5. PICK s : s = HandleBlocked(r)
    OBVIOUS
  <1>6. Handled(r, s)
    BY <1>1, <1>4, <1>5, HandleBlockedGood DEF Passed
  <1>7. Fit(s) /\ s.ready_keys = <<>> /\ ~s.copy.multi
    BY <1>1, <1>4, <1>6 DEF Handled, Passed
  <1>8. Store(s) /\ dirty_cas' = s.dirty_cas /\ UNCHANGED tx
    BY <1>3, <1>5 DEF Execute
  <1>9. TxStep(s)
    <2>1. s.dirty_cas \subseteq Client
      BY <1>7, FitFields, StateFields
    <2>2. /\ multi \in [Client -> BOOLEAN] /\ queue \in [Client -> Seq(Command)]
          /\ dirty_exec \subseteq {d \in Client : multi[d]}
          /\ watched_keys \in [Client -> SUBSET Key]
          /\ watched \in [Client -> [Key -> {None} \cup [val : Value, ttl : BOOLEAN]]]
      BY DEF Inv, TypeOK
    <2>3. /\ multi' = multi /\ queue' = queue /\ dirty_exec' = dirty_exec
          /\ watched_keys' = watched_keys /\ watched' = watched
      BY <1>8 DEF tx
    <2> QED BY <1>2, <1>8, <2>1, <2>2, <2>3 DEF TxStep
  <1> QED BY <1>7, <1>8, <1>9, StoreInv

\* A client that leaves its transaction watches nothing.
LEMMA LeaveMultiStep ==
    ASSUME Inv, NEW c \in Client, LeaveMulti(c)
    PROVE  /\ multi' \in [Client -> BOOLEAN] /\ queue' \in [Client -> Seq(Command)]
           /\ dirty_exec' \subseteq {d \in Client : multi'[d]}
           /\ watched_keys' \in [Client -> SUBSET Key]
           /\ watched' \in [Client -> [Key -> {None} \cup [val : Value, ttl : BOOLEAN]]]
           /\ \A d \in Client : multi'[d] => multi[d]
           /\ watched_keys'[c] = {} /\ ~multi'[c]
           /\ \A d \in Client \ {c} :
                 watched_keys'[d] = watched_keys[d] /\ watched'[d] = watched[d]
  <1>1. /\ multi \in [Client -> BOOLEAN] /\ queue \in [Client -> Seq(Command)]
        /\ dirty_exec \subseteq {d \in Client : multi[d]}
        /\ watched_keys \in [Client -> SUBSET Key]
        /\ watched \in [Client -> [Key -> {None} \cup [val : Value, ttl : BOOLEAN]]]
    BY DEF Inv, TypeOK
  <1>2. /\ multi' = [multi EXCEPT ![c] = FALSE] /\ queue' = [queue EXCEPT ![c] = <<>>]
        /\ dirty_exec' = dirty_exec \ {c}
        /\ watched_keys' = [watched_keys EXCEPT ![c] = {}]
        /\ watched' = [watched EXCEPT ![c] = [k \in Key |-> None]]
    BY DEF LeaveMulti, UnwatchAll
  <1>3. multi' \in [Client -> BOOLEAN] /\ \A d \in Client : multi'[d] = (d # c /\ multi[d])
    BY <1>1, <1>2
  <1>4. queue' \in [Client -> Seq(Command)]
    BY <1>1, <1>2
  <1>5. dirty_exec' \subseteq {d \in Client : multi'[d]}
    BY <1>1, <1>2, <1>3
  <1>6. /\ watched_keys' \in [Client -> SUBSET Key] /\ watched_keys'[c] = {}
        /\ \A d \in Client \ {c} : watched_keys'[d] = watched_keys[d]
    BY <1>1, <1>2
  <1>7. [k \in Key |-> None] \in [Key -> {None} \cup [val : Value, ttl : BOOLEAN]]
    OBVIOUS
  <1>8. /\ watched' \in [Client -> [Key -> {None} \cup [val : Value, ttl : BOOLEAN]]]
        /\ \A d \in Client \ {c} : watched'[d] = watched[d]
    BY <1>1, <1>2, <1>7
  <1> QED BY <1>3, <1>4, <1>5, <1>6, <1>8

\* execCommand: the transaction and the clients it made ready, in one step.
LEMMA ExecInv ==
    ASSUME Inv, NEW c \in Client, Exec(c)
    PROVE  Inv' /\ InOrder
  <1>1. Found /\ InTransaction(Now)
    BY NowFit
  <1>2. queue[c] \in Seq(Command) /\ multi[c] /\ pushes \in Nat
    BY DEF Inv, TypeOK, Exec
  <1>3. PICK r : r = Executed(Now, c, queue[c])[Len(queue[c])]
    OBVIOUS
  <1>4. InTransaction(r)
    BY <1>1, <1>2, <1>3, ExecutedGood
  <1>5. PICK t : t = IF r.must_propagate THEN Propagate(r, Item("exec", None, None)) ELSE r
    OBVIOUS
  <1>6. Fit(t) /\ ~t.copy.multi
    BY <1>1, <1>4, <1>5, TransactionGood
  <1>7. PICK s : s = HandleBlocked(t)
    OBVIOUS
  <1>8. Fit(s) /\ s.ready_keys = <<>> /\ ~s.copy.multi
    BY <1>1, <1>6, <1>7, HandleBlockedGood DEF Handled
  <1>9. Store(s) /\ dirty_cas' = s.dirty_cas \ {c} /\ LeaveMulti(c) /\ pushes' = pushes
    BY <1>3, <1>5, <1>7 DEF Exec
  <1>10. TxStep(s)
    <2>1. s.dirty_cas \subseteq Client
      BY <1>8, FitFields, StateFields
    <2>2. /\ multi' \in [Client -> BOOLEAN] /\ queue' \in [Client -> Seq(Command)]
          /\ dirty_exec' \subseteq {d \in Client : multi'[d]}
          /\ watched_keys' \in [Client -> SUBSET Key]
          /\ watched' \in [Client -> [Key -> {None} \cup [val : Value, ttl : BOOLEAN]]]
          /\ \A d \in Client : multi'[d] => multi[d]
          /\ watched_keys'[c] = {}
          /\ \A d \in Client \ {c} :
                watched_keys'[d] = watched_keys[d] /\ watched'[d] = watched[d]
      BY <1>9, LeaveMultiStep
    <2>3. dirty_cas' \subseteq Client /\ pushes' \in Nat
          /\ \A d \in Client \ {c} : d \in s.dirty_cas => d \in dirty_cas'
      BY <1>2, <1>9, <2>1
    <2> QED BY <2>2, <2>3 DEF TxStep
  <1> QED BY <1>8, <1>9, <1>10, StoreInv

\* A blocked client that goes.
LEMMA UnblockFit ==
    ASSUME NEW s, Fit(s), NEW c \in Client
    PROVE  LET t == Unblock(s, c)
           IN  /\ Fit(t) /\ t.ready_keys = s.ready_keys /\ t.copy = s.copy
               /\ t.dirty_cas = s.dirty_cas
  <1>1. PICK t : t = Unblock(s, c)
    OBVIOUS
  <1>2. s \in State /\ Listed(s) /\ Good(s)
    BY DEF Fit, Good
  <1>3. /\ t.bpop = [s.bpop EXCEPT ![c] = None] /\ t.db = s.db
        /\ t.copy = s.copy /\ t.ready_keys = s.ready_keys /\ t.dirty_cas = s.dirty_cas
    BY <1>1, <1>2, UnblockFields
  <1>4. Good(t)
    BY <1>1, <1>2, UnblockGood
  <1>5. s.bpop \in [Client -> Blocking \cup {None}]
    BY <1>2, StateFields
  <1>6. Quiet(t)
    BY <1>3, <1>5 DEF Fit, Quiet
  <1>7. Fit(t)
    BY <1>3, <1>4, <1>6 DEF Fit, Whole
  <1> QED BY <1>1, <1>3, <1>7

\* The variables of the transactions stay as they are.
LEMMA TxUnchanged ==
    ASSUME Inv, NEW s, s.dirty_cas = dirty_cas, UNCHANGED <<tx, dirty_cas, pushes>>
    PROVE  TxStep(s)
  <1>1. /\ multi \in [Client -> BOOLEAN] /\ queue \in [Client -> Seq(Command)]
        /\ dirty_cas \subseteq Client /\ dirty_exec \subseteq {d \in Client : multi[d]}
        /\ watched_keys \in [Client -> SUBSET Key] /\ pushes \in Nat
        /\ watched \in [Client -> [Key -> {None} \cup [val : Value, ttl : BOOLEAN]]]
    BY DEF Inv, TypeOK
  <1>2. /\ multi' = multi /\ queue' = queue /\ dirty_exec' = dirty_exec
        /\ watched_keys' = watched_keys /\ watched' = watched
        /\ dirty_cas' = dirty_cas /\ pushes' = pushes
    BY DEF tx
  <1> QED BY <1>1, <1>2 DEF TxStep

\* clientsCronHandleTimeout.
LEMMA TimeoutInv ==
    ASSUME Inv, NEW c \in Client, Timeout(c)
    PROVE  Inv' /\ InOrder
  <1>1. /\ Fit(Now) /\ Now.ready_keys = <<>> /\ ~Now.copy.multi /\ Now.dirty_cas = dirty_cas
    BY NowFit
  <1>2. PICK s : s = Unblock(Now, c)
    OBVIOUS
  <1>3. /\ Fit(s) /\ s.ready_keys = <<>> /\ ~s.copy.multi /\ s.dirty_cas = dirty_cas
    BY <1>1, <1>2, UnblockFit
  <1>4. Store(s) /\ UNCHANGED <<tx, dirty_cas, pushes>>
    BY <1>2 DEF Timeout
  <1> QED BY <1>3, <1>4, TxUnchanged, StoreInv

\* activeExpireCycleTryExpire.
LEMMA ActiveExpireInv ==
    ASSUME Inv, NEW k \in Key, ActiveExpire(k)
    PROVE  Inv' /\ InOrder
  <1>1. /\ Fit(Now) /\ Now.ready_keys = <<>> /\ ~Now.copy.multi /\ Now.dirty_cas = dirty_cas
        /\ watched_keys \in [Client -> SUBSET Key]
    BY NowFit DEF Found
  <1>2. PICK s : s = Expire(Now, k)
    OBVIOUS
  <1>3. Fit(s) /\ Kept(Now, s)
    BY <1>1, <1>2, ExpireFit
  <1>4. Expired(Now, s, k)
    BY <1>1, <1>2, ExpireGood DEF Fit
  <1>5. s.ready_keys = <<>> /\ ~s.copy.multi /\ s.dirty_cas = dirty_cas
    BY <1>1, <1>3, <1>4 DEF Expired, Kept
  <1>6. Store(s) /\ UNCHANGED <<tx, dirty_cas, pushes>>
    BY <1>2 DEF ActiveExpire
  <1> QED BY <1>3, <1>5, <1>6, TxUnchanged, StoreInv

\* freeClient.
LEMMA DisconnectInv ==
    ASSUME Inv, NEW c \in Client, Disconnect(c)
    PROVE  Inv' /\ InOrder
  <1>1. /\ Fit(Now) /\ Now.ready_keys = <<>> /\ ~Now.copy.multi /\ Now.dirty_cas = dirty_cas
    BY NowFit
  <1>2. PICK s : s = IF bpop[c] # None THEN Unblock(Now, c) ELSE Now
    OBVIOUS
  <1>3. /\ Fit(s) /\ s.ready_keys = <<>> /\ ~s.copy.multi /\ s.dirty_cas = dirty_cas
    <2>1. PICK t : t = Unblock(Now, c)
      OBVIOUS
    <2>2. Fit(t) /\ t.ready_keys = <<>> /\ ~t.copy.multi /\ t.dirty_cas = dirty_cas
      BY <1>1, <2>1, UnblockFit
    <2> QED BY <1>1, <1>2, <2>1, <2>2
  <1>4. Store(s) /\ LeaveMulti(c) /\ dirty_cas' = dirty_cas \ {c} /\ pushes' = pushes
    BY <1>2 DEF Disconnect
  <1>5. TxStep(s)
    <2>1. dirty_cas \subseteq Client /\ pushes \in Nat
      BY DEF Inv, TypeOK
    <2>2. /\ multi' \in [Client -> BOOLEAN] /\ queue' \in [Client -> Seq(Command)]
          /\ dirty_exec' \subseteq {d \in Client : multi'[d]}
          /\ watched_keys' \in [Client -> SUBSET Key]
          /\ watched' \in [Client -> [Key -> {None} \cup [val : Value, ttl : BOOLEAN]]]
          /\ \A d \in Client : multi'[d] => multi[d]
          /\ watched_keys'[c] = {}
          /\ \A d \in Client \ {c} :
                watched_keys'[d] = watched_keys[d] /\ watched'[d] = watched[d]
      BY <1>4, LeaveMultiStep
    <2>3. dirty_cas' \subseteq Client /\ pushes' \in Nat
          /\ \A d \in Client \ {c} : d \in s.dirty_cas => d \in dirty_cas'
      BY <1>3, <1>4, <2>1
    <2> QED BY <2>2, <2>3 DEF TxStep
  <1> QED BY <1>3, <1>4, <1>5, StoreInv

-----------------------------------------------------------------------------
(* The steps that run no command. *)

\* They touch neither the data nor those who wait.
SameData ==
    /\ served' = {}
    /\ UNCHANGED <<db, bpop, blocking_keys, copy, arrived, renamed>>

\* QueueCommand to Unwatch: what is stored, and the order of those who wait, stay.
LEMMA SameDataInv ==
    ASSUME Inv, SameData, TypeOK', Intact'
    PROVE  Inv' /\ InOrder
  <1>1. /\ served' = {} /\ db' = db /\ bpop' = bpop /\ blocking_keys' = blocking_keys
        /\ copy' = copy /\ arrived' = arrived /\ renamed' = renamed
    BY DEF SameData
  <1>2. StreamReplays'
    BY <1>1 DEF Inv, StreamReplays
  <1>3. NobodyWaitsInVain'
    BY <1>1 DEF Inv, NobodyWaitsInVain
  <1>4. InLine'
    <2>1. /\ \A k \in Key : \A i, j \in DOMAIN blocking_keys[k] :
                i < j => <<blocking_keys[k][i], blocking_keys[k][j]>> \in arrived
          /\ ArrivedInv
      BY DEF Inv, InLine
    <2>2. ArrivedInv'
      BY <1>1, <2>1 DEF ArrivedInv
    <2> QED BY <1>1, <2>1, <2>2 DEF InLine
  <1>5. InOrder
    BY <1>1 DEF InOrder
  <1> QED BY <1>2, <1>3, <1>4, <1>5 DEF Inv

\* The types of the variables such a step may change.
TxType ==
    /\ multi \in [Client -> BOOLEAN] /\ queue \in [Client -> Seq(Command)]
    /\ dirty_cas \subseteq Client /\ dirty_exec \subseteq {c \in Client : multi[c]}
    /\ watched_keys \in [Client -> SUBSET Key]
    /\ watched \in [Client -> [Key -> {None} \cup [val : Value, ttl : BOOLEAN]]]
    /\ pushes \in Nat
    /\ expires \in [Key -> {"no", "set", "past"}]
    /\ \A k \in Key : db[k] = None => expires[k] = "no"
    /\ \A c \in Client : bpop[c] # None => ~multi[c]

\* The rest of TypeOK is about what such a step leaves alone.
LEMMA SameDataType ==
    ASSUME Inv, SameData, TxType'
    PROVE  TypeOK'
  <1>1. /\ served' = {} /\ db' = db /\ bpop' = bpop /\ blocking_keys' = blocking_keys
        /\ copy' = copy /\ arrived' = arrived /\ renamed' = renamed
    BY DEF SameData
  <1>2. /\ db' \in [Key -> Value \ {<<>>}]
        /\ copy' \in [db : [Key -> Value], multi : BOOLEAN, queued : [Key -> Value]]
        /\ renamed' \subseteq Key
        /\ served' \subseteq Client \X Key /\ arrived' \subseteq Client \X Client
        /\ bpop' \in [Client -> {m \in Command : m.op \in {"blpop", "brpoplpush"}} \cup {None}]
        /\ blocking_keys' \in [Key -> Seq(Client)]
    BY <1>1 DEF Inv, TypeOK
  <1>3. \A k \in Key : /\ IsInjective(blocking_keys'[k])
                       /\ ToSet(blocking_keys'[k]) =
                             {c \in Client : bpop'[c] # None /\ k \in ToSet(bpop'[c].keys)}
    BY <1>1 DEF Inv, TypeOK
  <1> QED BY <1>2, <1>3 DEF TypeOK, TxType

\* TypeOK says it of the state before.
LEMMA TxTyped ==
    ASSUME Inv
    PROVE  TxType /\ Intact /\ db \in [Key -> Value]
  BY DEF Inv, TypeOK, TxType

\* A step that leaves the keys, and who watches them, as they are and clears no flag.
LEMMA SameWatch ==
    ASSUME Inv, UNCHANGED <<db, expires, watched_keys, watched, dirty_cas>>
    PROVE  Intact'
  BY DEF Inv, Intact

\* queueMultiCommand.
LEMMA QueueCommandInv ==
    ASSUME Inv, NEW c \in Client, NEW cmd \in Commands[c], QueueCommand(c, cmd)
    PROVE  Inv' /\ InOrder
  <1>1. /\ TxType /\ Sent(cmd) \in Command /\ pushes' \in Nat
    BY TxTyped, SentCommand, SentPushes DEF QueueCommand
  <1>2. /\ queue' = [queue EXCEPT ![c] = Append(@, Sent(cmd))] /\ SameData
        /\ UNCHANGED <<expires, db, bpop, multi, dirty_cas, dirty_exec, watched_keys, watched>>
    BY DEF QueueCommand, SameData
  <1>3. queue' \in [Client -> Seq(Command)]
    <2>1. queue[c] \in Seq(Command) /\ queue \in [Client -> Seq(Command)]
      BY <1>1 DEF TxType
    <2>2. Append(queue[c], Sent(cmd)) \in Seq(Command)
      BY <1>1, <2>1, AppendProperties
    <2> QED BY <1>2, <2>1, <2>2
  <1>4. TxType'
    BY <1>1, <1>2, <1>3 DEF TxType
  <1> QED BY <1>2, <1>4, SameDataType, SameWatch, SameDataInv

\* flagTransaction.
LEMMA RefuseInv ==
    ASSUME Inv, NEW c \in Client, Refuse(c)
    PROVE  Inv' /\ InOrder
  <1>1. TxType
    BY TxTyped
  <1>2. /\ dirty_exec' = dirty_exec \cup {c} /\ multi[c] /\ SameData
        /\ UNCHANGED <<expires, db, bpop, multi, queue, dirty_cas, watched_keys, watched, pushes>>
    BY DEF Refuse, SameData
  <1>3. TxType'
    BY <1>1, <1>2 DEF TxType
  <1> QED BY <1>2, <1>3, SameDataType, SameWatch, SameDataInv

\* multiCommand.
LEMMA MultiInv ==
    ASSUME Inv, NEW c \in Client, Multi(c)
    PROVE  Inv' /\ InOrder
  <1>1. TxType
    BY TxTyped
  <1>2. /\ multi' = [multi EXCEPT ![c] = TRUE] /\ bpop[c] = None /\ SameData
        /\ UNCHANGED <<expires, db, bpop, queue, dirty_cas, dirty_exec, watched_keys, watched,
                       pushes>>
    BY DEF Multi, SameData
  <1>3. /\ multi' \in [Client -> BOOLEAN]
        /\ \A d \in Client : multi[d] => multi'[d]
        /\ \A d \in Client \ {c} : multi'[d] = multi[d]
    BY <1>1, <1>2 DEF TxType
  <1>4. TxType'
    BY <1>1, <1>2, <1>3 DEF TxType
  <1> QED BY <1>2, <1>4, SameDataType, SameWatch, SameDataInv

\* discardTransaction forgets the flag together with what is watched.
LEMMA DiscardInv ==
    ASSUME Inv, NEW c \in Client, Discard(c)
    PROVE  Inv' /\ InOrder
  <1>1. TxType /\ Intact
    BY TxTyped
  <1>2. /\ LeaveMulti(c) /\ dirty_cas' = dirty_cas \ {c} /\ SameData
        /\ UNCHANGED <<expires, db, bpop, pushes>>
    BY DEF Discard, SameData
  <1>3. /\ multi' \in [Client -> BOOLEAN] /\ queue' \in [Client -> Seq(Command)]
        /\ dirty_exec' \subseteq {d \in Client : multi'[d]}
        /\ watched_keys' \in [Client -> SUBSET Key]
        /\ watched' \in [Client -> [Key -> {None} \cup [val : Value, ttl : BOOLEAN]]]
        /\ \A d \in Client : multi'[d] => multi[d]
        /\ watched_keys'[c] = {}
        /\ \A d \in Client \ {c} :
              watched_keys'[d] = watched_keys[d] /\ watched'[d] = watched[d]
    BY <1>2, LeaveMultiStep
  <1>4. TxType'
    BY <1>1, <1>2, <1>3 DEF TxType
  <1>5. Intact'
    <2> SUFFICES ASSUME NEW d \in Client, d \notin dirty_cas', NEW k \in watched_keys'[d]
                 PROVE  \/ db[k] = watched'[d][k].val /\ (expires[k] # "no" => watched'[d][k].ttl)
                        \/ db[k] = None /\ watched'[d][k].ttl
      BY <1>2 DEF Intact
    <2>1. d # c /\ d \notin dirty_cas
      BY <1>2, <1>3
    <2>2. watched_keys'[d] = watched_keys[d] /\ watched'[d] = watched[d]
      BY <1>3, <2>1
    <2> QED BY <1>1, <2>1, <2>2 DEF Intact
  <1> QED BY <1>2, <1>4, <1>5, SameDataType, SameDataInv

\* watchForKey takes down the key as it is.
LEMMA WatchInv ==
    ASSUME Inv, NEW c \in Client, NEW k \in Key, Watch(c, k)
    PROVE  Inv' /\ InOrder
  <1>1. TxType /\ Intact /\ db \in [Key -> Value]
    BY TxTyped
  <1>2. PICK r : r = [val |-> db[k], ttl |-> expires[k] # "no"]
    OBVIOUS
  <1>3. /\ watched_keys' = [watched_keys EXCEPT ![c] = @ \cup {k}]
        /\ watched' = [watched EXCEPT ![c][k] = r] /\ SameData
        /\ UNCHANGED <<expires, db, bpop, multi, queue, dirty_cas, dirty_exec, pushes>>
    BY <1>2 DEF Watch, SameData
  <1>4. r \in [val : Value, ttl : BOOLEAN] /\ r.val = db[k] /\ (expires[k] # "no" => r.ttl)
    BY <1>1, <1>2
  <1>5. /\ watched_keys \in [Client -> SUBSET Key]
        /\ watched \in [Client -> [Key -> {None} \cup [val : Value, ttl : BOOLEAN]]]
    BY <1>1 DEF TxType
  <1>6. /\ watched_keys' \in [Client -> SUBSET Key]
        /\ watched_keys'[c] = watched_keys[c] \cup {k}
        /\ \A d \in Client \ {c} : watched_keys'[d] = watched_keys[d]
    BY <1>3, <1>5
  <1>7. /\ watched' \in [Client -> [Key -> {None} \cup [val : Value, ttl : BOOLEAN]]]
        /\ watched'[c] = [watched[c] EXCEPT ![k] = r]
        /\ \A d \in Client \ {c} : watched'[d] = watched[d]
    BY <1>3, <1>4, <1>5
  <1>8. TxType'
    BY <1>1, <1>3, <1>6, <1>7 DEF TxType
  <1>9. Intact'
    <2> SUFFICES ASSUME NEW d \in Client, d \notin dirty_cas, NEW j \in watched_keys'[d]
                 PROVE  \/ db[j] = watched'[d][j].val /\ (expires[j] # "no" => watched'[d][j].ttl)
                        \/ db[j] = None /\ watched'[d][j].ttl
      BY <1>3 DEF Intact
    <2>1. CASE d = c /\ j = k
      <3>1. watched'[d][j] = r
        BY <1>5, <1>7, <2>1
      <3> QED BY <1>4, <2>1, <3>1
    <2>2. CASE d # c \/ j # k
      <3>1. j \in watched_keys[d]
        BY <1>6, <2>2
      <3>2. watched'[d][j] = watched[d][j]
        BY <1>5, <1>7, <2>2, <3>1
      <3> QED BY <1>1, <3>1, <3>2 DEF Intact
    <2> QED BY <2>1, <2>2
  <1> QED BY <1>3, <1>8, <1>9, SameDataType, SameDataInv

\* unwatchCommand forgets the flag together with what is watched.
LEMMA UnwatchInv ==
    ASSUME Inv, NEW c \in Client, Unwatch(c)
    PROVE  Inv' /\ InOrder
  <1>1. TxType /\ Intact
    BY TxTyped
  <1>2. /\ watched_keys' = [watched_keys EXCEPT ![c] = {}]
        /\ watched' = [watched EXCEPT ![c] = [k \in Key |-> None]]
        /\ dirty_cas' = dirty_cas \ {c} /\ SameData
        /\ UNCHANGED <<expires, db, bpop, multi, queue, dirty_exec, pushes>>
    BY DEF Unwatch, UnwatchAll, SameData
  <1>3. /\ watched_keys \in [Client -> SUBSET Key]
        /\ watched \in [Client -> [Key -> {None} \cup [val : Value, ttl : BOOLEAN]]]
    BY <1>1 DEF TxType
  <1>4. /\ watched_keys' \in [Client -> SUBSET Key] /\ watched_keys'[c] = {}
        /\ \A d \in Client \ {c} : watched_keys'[d] = watched_keys[d]
    BY <1>2, <1>3
  <1>5. [k \in Key |-> None] \in [Key -> {None} \cup [val : Value, ttl : BOOLEAN]]
    OBVIOUS
  <1>6. /\ watched' \in [Client -> [Key -> {None} \cup [val : Value, ttl : BOOLEAN]]]
        /\ \A d \in Client \ {c} : watched'[d] = watched[d]
    BY <1>2, <1>3, <1>5
  <1>7. TxType'
    BY <1>1, <1>2, <1>4, <1>6 DEF TxType
  <1>8. Intact'
    <2> SUFFICES ASSUME NEW d \in Client, d \notin dirty_cas', NEW k \in watched_keys'[d]
                 PROVE  \/ db[k] = watched'[d][k].val /\ (expires[k] # "no" => watched'[d][k].ttl)
                        \/ db[k] = None /\ watched'[d][k].ttl
      BY <1>2 DEF Intact
    <2>1. d # c /\ d \notin dirty_cas
      BY <1>2, <1>4
    <2>2. watched_keys'[d] = watched_keys[d] /\ watched'[d] = watched[d]
      BY <1>4, <1>6, <2>1
    <2> QED BY <1>1, <2>1, <2>2 DEF Intact
  <1> QED BY <1>2, <1>7, <1>8, SameDataType, SameDataInv

\* An expiry that passes: the key had one already.
LEMMA TtlPassesInv ==
    ASSUME Inv, NEW k \in Key, TtlPasses(k)
    PROVE  Inv' /\ InOrder
  <1>1. TxType /\ Intact
    BY TxTyped
  <1>2. /\ expires' = [expires EXCEPT ![k] = "past"] /\ expires[k] = "set" /\ SameData
        /\ UNCHANGED <<db, bpop, multi, queue, dirty_cas, dirty_exec, watched_keys, watched,
                       pushes>>
    BY DEF TtlPasses, tx, SameData
  <1>3. /\ expires' \in [Key -> {"no", "set", "past"}]
        /\ \A j \in Key : expires'[j] # "no" <=> expires[j] # "no"
    BY <1>1, <1>2 DEF TxType
  <1>4. TxType'
    BY <1>1, <1>2, <1>3 DEF TxType
  <1>5. Intact'
    <2>1. \A d \in Client : watched_keys[d] \subseteq Key
      BY <1>1 DEF TxType
    <2> QED BY <1>1, <1>2, <1>3, <2>1 DEF Intact
  <1> QED BY <1>2, <1>4, <1>5, SameDataType, SameDataInv
-----------------------------------------------------------------------------
(* The theorems. *)

\* A server that has just started: no data, nobody waits and nobody watches.
LEMMA InitInv == Init => Inv
  <1> SUFFICES ASSUME Init
               PROVE  Inv
    OBVIOUS
  <1>1. /\ db = NoData /\ expires = [k \in Key |-> "no"]
        /\ multi = [c \in Client |-> FALSE] /\ queue = [c \in Client |-> <<>>]
        /\ dirty_cas = {} /\ dirty_exec = {}
        /\ watched_keys = [c \in Client |-> {}]
        /\ watched = [c \in Client |-> [k \in Key |-> None]]
        /\ bpop = [c \in Client |-> None] /\ blocking_keys = [k \in Key |-> <<>>]
        /\ copy = [db |-> NoData, multi |-> FALSE, queued |-> NoData]
        /\ pushes = 0 /\ served = {} /\ arrived = {} /\ renamed = {}
    BY DEF Init
  <1>2. /\ NoData \in [Key -> Value \ {<<>>}] /\ \A k \in Key : NoData[k] = None
    <2>1. None \in Value /\ None # <<>>
      BY ServerAssumption, EmptySeq DEF ServerAssumption, Value
    <2> QED BY <2>1 DEF NoData
  <1>3. TypeOK
    <2>1. /\ db \in [Key -> Value \ {<<>>}] /\ expires \in [Key -> {"no", "set", "past"}]
          /\ \A k \in Key : db[k] = None => expires[k] = "no"
      BY <1>1, <1>2
    <2>2. copy \in [db : [Key -> Value], multi : BOOLEAN, queued : [Key -> Value]]
      BY <1>1, <1>2
    <2>3. /\ multi \in [Client -> BOOLEAN] /\ queue \in [Client -> Seq(Command)]
          /\ dirty_cas \subseteq Client /\ dirty_exec \subseteq {c \in Client : multi[c]}
          /\ watched_keys \in [Client -> SUBSET Key]
          /\ pushes \in Nat /\ renamed \subseteq Key
          /\ served \subseteq Client \X Key /\ arrived \subseteq Client \X Client
          /\ bpop \in [Client -> {m \in Command : m.op \in {"blpop", "brpoplpush"}} \cup {None}]
          /\ blocking_keys \in [Key -> Seq(Client)]
          /\ \A c \in Client : bpop[c] # None => ~multi[c]
      BY <1>1
    <2>4. watched \in [Client -> [Key -> {None} \cup [val : Value, ttl : BOOLEAN]]]
      <3>1. [k \in Key |-> None] \in [Key -> {None} \cup [val : Value, ttl : BOOLEAN]]
        OBVIOUS
      <3> QED BY <1>1, <3>1
    <2>5. ASSUME NEW k \in Key
          PROVE  /\ IsInjective(blocking_keys[k])
                 /\ ToSet(blocking_keys[k]) =
                       {c \in Client : bpop[c] # None /\ k \in ToSet(bpop[c].keys)}
      <3>1. blocking_keys[k] = <<>> /\ \A c \in Client : bpop[c] = None
        BY <1>1
      <3>2. IsInjective(blocking_keys[k]) /\ ToSet(blocking_keys[k]) = {}
        BY <3>1 DEF IsInjective, ToSet
      <3> QED BY <3>1, <3>2
    <2> QED BY <2>1, <2>2, <2>3, <2>4, <2>5 DEF TypeOK
  <1>4. StreamReplays
    BY <1>1 DEF StreamReplays
  <1>5. NobodyWaitsInVain
    BY <1>1 DEF NobodyWaitsInVain
  <1>6. Intact
    BY <1>1 DEF Intact
  <1>7. InLine
    BY <1>1 DEF InLine, ArrivedInv
  <1> QED BY <1>3, <1>4, <1>5, <1>6, <1>7 DEF Inv

\* Every action keeps the invariant and serves in order.
LEMMA NextInv ==
    ASSUME Inv, Next
    PROVE  Inv' /\ InOrder
  <1>1. ASSUME NEW c \in Client, NEW cmd \in Commands[c],
               Execute(c, cmd) \/ QueueCommand(c, cmd)
        PROVE  Inv' /\ InOrder
    BY <1>1, ExecuteInv, QueueCommandInv
  <1>2. ASSUME NEW c \in Client, Refuse(c) \/ Multi(c) \/ Exec(c) \/ Discard(c)
        PROVE  Inv' /\ InOrder
    BY <1>2, RefuseInv, MultiInv, ExecInv, DiscardInv
  <1>3. ASSUME NEW c \in Client, ExecAborted(c)
        PROVE  Inv' /\ InOrder
    BY <1>3, DiscardInv DEF ExecAborted
  <1>4. ASSUME NEW c \in Client, NEW k \in Key, Watch(c, k)
        PROVE  Inv' /\ InOrder
    BY <1>4, WatchInv
  <1>5. ASSUME NEW c \in Client, Unwatch(c) \/ Timeout(c) \/ Disconnect(c)
        PROVE  Inv' /\ InOrder
    BY <1>5, UnwatchInv, TimeoutInv, DisconnectInv
  <1>6. ASSUME NEW k \in Key, TtlPasses(k) \/ ActiveExpire(k)
        PROVE  Inv' /\ InOrder
    BY <1>6, TtlPassesInv, ActiveExpireInv
  <1> QED BY <1>1, <1>2, <1>3, <1>4, <1>5, <1>6 DEF Next

\* A step that changes nothing.
LEMMA StutterInv ==
    ASSUME Inv, UNCHANGED vars
    PROVE  Inv'
  <1>1. /\ db' = db /\ expires' = expires /\ multi' = multi /\ queue' = queue
        /\ dirty_exec' = dirty_exec /\ watched_keys' = watched_keys /\ watched' = watched
        /\ dirty_cas' = dirty_cas /\ bpop' = bpop /\ blocking_keys' = blocking_keys
        /\ copy' = copy /\ pushes' = pushes /\ served' = served /\ arrived' = arrived
        /\ renamed' = renamed
    BY DEF vars, tx
  <1>2. TypeOK'
    BY <1>1 DEF Inv, TypeOK
  <1>3. StreamReplays' /\ NobodyWaitsInVain' /\ Intact'
    BY <1>1 DEF Inv, StreamReplays, NobodyWaitsInVain, Intact
  <1>4. InLine'
    <2>1. /\ \A k \in Key : \A i, j \in DOMAIN blocking_keys[k] :
                i < j => <<blocking_keys[k][i], blocking_keys[k][j]>> \in arrived
          /\ ArrivedInv
      BY DEF Inv, InLine
    <2>2. ArrivedInv'
      BY <1>1, <2>1 DEF ArrivedInv
    <2> QED BY <1>1, <2>1, <2>2 DEF InLine
  <1> QED BY <1>2, <1>3, <1>4 DEF Inv

\* The invariant holds of every state the server reaches.
THEOREM Invariance == Spec => []Inv
  <1>1. Init => Inv
    BY InitInv
  <1>2. Inv /\ [Next]_vars => Inv'
    BY NextInv, StutterInv
  <1> QED BY <1>1, <1>2, PTL DEF Spec

\* TypeOK: blockForKeys, unblockClientWaitingData and the serving of clients keep the two
\* records of who is blocked in agreement, whatever is pushed, moved or expires.
THEOREM TypeCorrect == Spec => []TypeOK
  <1>1. Inv => TypeOK
    BY DEF Inv
  <1> QED BY <1>1, Invariance, PTL

\* WatchedUnchanged: nothing changes a key behind the back of a client that watches it and
\* is not flagged (touchWatchedKey, touchWatchedKeysOnFlush, execCommand).
THEOREM WatchedStay == Spec => []WatchedUnchanged
  <1>1. Inv => WatchedUnchanged
    BY DEF Inv, Intact, WatchedUnchanged
  <1> QED BY <1>1, Invariance, PTL

\* StreamReplays: what call, propagate, execCommand, serveClientBlockedOnList and
\* propagateExpire send gives whoever replays it the data of the server.
THEOREM StreamFaithful == Spec => []StreamReplays
  <1>1. Inv => StreamReplays
    BY DEF Inv
  <1> QED BY <1>1, Invariance, PTL

\* NobodyWaitsInVain: signalListAsReady and handleClientsBlockedOnLists leave no client
\* blocked on a key with a list that did not come by RENAME.
THEOREM NobodyForgotten == Spec => []NobodyWaitsInVain
  <1>1. Inv => NobodyWaitsInVain
    BY DEF Inv
  <1> QED BY <1>1, Invariance, PTL

\* ServedInOrder: handleClientsBlockedOnLists serves the clients of a key in the order in
\* which they blocked for it.
THEOREM FirstComeFirstServed == Spec => ServedInOrder
  <1>1. Inv /\ [Next]_vars => [InOrder]_vars
    BY NextInv
  <1>2. [][InOrder]_vars => ServedInOrder
    BY PTL DEF ServedInOrder, InOrder
  <1> QED BY <1>1, <1>2, Invariance, PTL DEF Spec

==============================================================================
