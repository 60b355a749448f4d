--------------------------- MODULE ReplicationProofs ---------------------------
(***************************************************************************)
(* For every set of servers and databases, every topology and every        *)
(* backlog: a slave that is attached stores what its master stores once it *)
(* has read what is under way to it, its offset is its place in the        *)
(* stream, a PSYNC that is accepted brings what the slave missed, and the  *)
(* slaves WAIT counts store the write; but for the slaves that misplaced   *)
(* and astray name.                                                        *)
(*                                                                         *)
(* None of this is inductive.  Inv adds, for an attached slave, that its   *)
(* buffer leads to the database the master will assume next (Leads) and    *)
(* ends in the same items as the backlog, as far as both go back (Ends);   *)
(* for a slave that is not attached, that whatever its master's backlog    *)
(* can still give it leads to what the master stores (CachedInv); and for  *)
(* a client in WAIT, that whoever reads up to the offset it waits for      *)
(* stores its write by then (Brings).  The first half of the proof is      *)
(* about playing items, by induction on how many are played; the second    *)
(* takes one action after the other.                                       *)
(***************************************************************************)
EXTENDS Replication, Induction, FiniteSetTheorems, FunctionTheorems, TLAPS

------------------------------------------------------------------------------
(* The inductive invariant.                                                 *)

\* No server has a run id that is still to be given out.
RunInv == \A n \in Node : runid[n] <= runs

\* A server that reads a stream, or has read one and may go on with it.
UpstreamInv ==
    \A s \in Node :
       /\ upstream[s] # None => upstream[s].runid <= runs /\ masterhost[s] \notin {None, s}
       /\ repl_state[s] \in {"transfer", "connected"} => upstream[s] # None
       /\ repl_state[s] = "transfer" => upstream[s].db = DefaultDB

\* The client of slave s at m and what s knows of the connection.
Linked(m, s) ==
    /\ masterhost[s] = m
    /\ repl_state[s] = IF client[m][s].state = "online" THEN "connected" ELSE "transfer"
    /\ client[m][s].ack <= upstream[s].off
    /\ client[m][s].state = "send_bulk" => client[m][s].file # None
    /\ repl_state[m] \in {"none", "connected"}
    /\ backlog[m] # None

ClientInv == \A m, s \in Node : client[m][s] # None => Linked(m, s)

LinkInv == RunInv /\ UpstreamInv /\ ClientInv

\* The last n elements of a sequence.
LastN(seq, n) == SubSeq(seq, Len(seq) - n + 1, Len(seq))

\* As far as both go back, the backlog and the buffer end in the same items.
Ends(bl, buf) ==
    \A i \in 1..Len(buf) : i <= Len(bl) => bl[Len(bl) + 1 - i] = buf[Len(buf) + 1 - i]

\* The items lead a server that stores log, with db selected, to dest, with the
\* database selected that their sender assumes.
Leads(items, log, db, dest, sel) ==
    /\ Played(items, log, db)[Len(items)].log = dest
    /\ sel # None => Played(items, log, db)[Len(items)].db = sel

\* Whoever reads the items from offset off on stores the awaited write as soon as it
\* has come to the offset that is waited for.
Brings(items, log, db, off, wait) ==
    \A j \in 0..Len(items) :
       off + j >= wait.off => wait.entry \in ToSet(Played(items, log, db)[j].log)

\* A slave whose offset means what it says and that stores what its master stored then.
Fit(s) == s \notin misplaced /\ s \notin astray

\* The client of s at m gets every item, for a snapshot that is there or on its way.
Synced(m, s) == client[m][s] # None /\ client[m][s].state # "wait_start"

\* What the items for s go to.
Base(m, s) == IF client[m][s].state = "online" THEN data[s]
              ELSE IF client[m][s].state = "send_bulk" THEN client[m][s].file
              ELSE child[m]

\* The client in WAIT waits at m.
Waits(m) == waiting # None /\ ~renumbered /\ waiting.at = m

\* What holds of the buffer of such a client.
SyncedOK(m, s) ==
    /\ s \notin astray =>
          /\ Base(m, s) # None
          /\ Leads(client[m][s].buf, Base(m, s), upstream[s].db, data[m], slaveseldb[m])
    /\ Fit(s) =>
          /\ upstream[s].off + Len(client[m][s].buf) = offset[m]
          /\ Ends(backlog[m], client[m][s].buf)
    /\ Fit(s) /\ Waits(m) =>
          Brings(client[m][s].buf, Base(m, s), upstream[s].db, upstream[s].off, waiting)

\* A client that waits for the next BGSAVE has got SELECTs only.
StartOK(m, s) ==
    LET buf == client[m][s].buf
    IN  /\ \A i \in 1..Len(buf) : buf[i].op = "select"
        /\ slaveseldb[m] # None => buf # <<>> /\ buf[Len(buf)].arg = slaveseldb[m]
        /\ upstream[s].off + Len(buf) <= offset[m]
        /\ upstream[s].off + Len(buf) = offset[m] => buf = <<>>

SyncedInv == \A m, s \in Node : Synced(m, s) => SyncedOK(m, s)
StartInv  == \A m, s \in Node : client[m][s] # None /\ ~Synced(m, s) => StartOK(m, s)

\* The slave is not attached and can ask its master to go on with the same stream.
Cached(s) ==
    /\ upstream[s] # None
    /\ repl_state[s] \in {"connect", "connected"}
    /\ client[masterhost[s]][s] = None
    /\ upstream[s].runid = runid[masterhost[s]]

\* The backlog of m goes back to off, and what it has from there on.
Reaches(m, off) == backlog[m] # None /\ offset[m] - off <= Len(backlog[m])
Lacks(m, off)   == LastN(backlog[m], offset[m] - off)

\* What a PSYNC would bring such a slave, if it came now.
CachedOK(s) ==
    LET m == masterhost[s]
        u == upstream[s]
    IN  /\ u.off <= offset[m]
        /\ Reaches(m, u.off) =>
              /\ Leads(Lacks(m, u.off), data[s], u.db, data[m], slaveseldb[m])
              /\ Waits(m) => Brings(Lacks(m, u.off), data[s], u.db, u.off, waiting)

CachedInv == \A s \in Node : Fit(s) /\ Cached(s) => CachedOK(s)

\* The write of the client in WAIT is in the stream before the offset it waits for.
WaitInv ==
    waiting # None /\ ~renumbered =>
       /\ masterhost[waiting.at] = None
       /\ waiting.off <= offset[waiting.at]
       /\ waiting.entry \in ToSet(data[waiting.at])

StreamInv == SyncedInv /\ StartInv /\ CachedInv /\ WaitInv

\* The inductive invariant.
Inv == TypeOK /\ LinkInv /\ StreamInv

------------------------------------------------------------------------------
(* Types and links: TypeOK and LinkInv are inductive.                       *)

\* The run ids the servers start with exist.
LEMMA Numbering ==
    \E id \in [Node -> 1..Cardinality(Node)] : \A m, n \in Node : id[m] = id[n] => m = n
  <1>1. Cardinality(Node) \in Nat /\ ExistsBijection(1..Cardinality(Node), Node)
    BY ReplicationAssumption, FS_CardinalityType DEF ReplicationAssumption
  <1>2. ExistsBijection(Node, 1..Cardinality(Node))
    BY <1>1, Fun_ExistsBijSymmetric
  <1>3. PICK id : id \in Bijection(Node, 1..Cardinality(Node))
    BY <1>2 DEF ExistsBijection
  <1> QED BY <1>3 DEF Bijection, Injection, IsInjective

\* The first states are typed.
LEMMA InitTypeOK == Init => TypeOK
  <1> SUFFICES ASSUME Init PROVE TypeOK
    OBVIOUS
  <1> USE ReplicationAssumption DEF ReplicationAssumption
  <1>1. Cardinality(Node) \in Nat
    BY FS_CardinalityType
  <1>2. runid \in [Node -> 1..Cardinality(Node)]
    BY Numbering DEF Init
  <1>3. masterhost \in [Node -> Node \cup {None}]
    BY DEF Init
  <1>4. repl_state \in [Node -> {"none", "connect", "transfer", "connected"}]
    BY DEF Init, StateAs
  <1>5. \A n \in Node : repl_state[n] = "none" <=> masterhost[n] = None
    BY <1>3 DEF Init, StateAs
  <1>6. data \in [Node -> Log] /\ rdb \in [Node -> Log \cup {None}]
    BY DEF Init, Log
  <1>7. upstream \in [Node -> Upstream \cup {None}]
    BY DEF Init
  <1>8. client \in [Node -> [Node -> Client \cup {None}]]
    BY DEF Init
  <1>9. child \in [Node -> Log \cup {None}] /\ backlog \in [Node -> Seq(Item) \cup {None}]
        /\ slaveseldb \in [Node -> DB \cup {None}] /\ offset \in [Node -> Nat]
    BY DEF Init
  <1>10. runid \in [Node -> Nat]
    BY <1>2, <1>1
  <1> QED BY <1>1, <1>10, <1>3, <1>4, <1>5, <1>6, <1>7, <1>8, <1>9 DEF Init, TypeOK

\* The operators of the stream give typed values.
LEMMA KeptType == ASSUME NEW items \in Seq(Item) PROVE Kept(items) \in Seq(Item)
  BY ReplicationAssumption DEF ReplicationAssumption, Kept

LEMMA SelectType == ASSUME NEW d \in DB PROVE Select(d) \in Item
  BY DEF Select, Item

LEMMA SetType == ASSUME NEW w \in Nat PROVE Set(w) \in Item
  BY DEF Set, Item

LEMMA ClientType ==
    ASSUME NEW c \in Client, NEW items \in Seq(Item)
    PROVE  [c EXCEPT !.buf = c.buf \o items] \in Client
  <1>1. c.buf \in Seq(Item)
    BY DEF Client
  <1>2. c.buf \o items \in Seq(Item)
    BY <1>1
  <1> HIDE DEF Item
  <1> QED BY <1>2 DEF Client

\* None is told from every value.
LEMMA NoneIsNoValue ==
    /\ None \notin Node /\ None \notin DB /\ None \notin Log /\ None \notin Seq(Item)
    /\ None \notin Upstream /\ None \notin Client
  BY ReplicationAssumption DEF ReplicationAssumption

LEMMA EmptySeqs == <<>> \in Seq(Item) /\ <<>> \in Log /\ <<>> # None
  <1>1. <<>> \in Seq(Item)
    OBVIOUS
  <1>2. <<>> \in Log
    BY DEF Log
  <1> QED BY <1>1, <1>2, NoneIsNoValue, Zenon

LEMMA ClientFields ==
    ASSUME NEW c \in Client
    PROVE  /\ c.state \in {"wait_start", "wait_end", "send_bulk", "online"}
           /\ c.buf \in Seq(Item) /\ c.ack \in Nat /\ c.file \in Log \cup {None}
  BY DEF Client

LEMMA NewClientType ==
    ASSUME NEW state \in {"wait_start", "wait_end", "online"}, NEW buf \in Seq(Item)
    PROVE  /\ NewClient(state, buf) \in Client
           /\ NewClient(state, buf).state = state /\ NewClient(state, buf).buf = buf
           /\ NewClient(state, buf).ack = 0
  BY DEF NewClient, Client

\* A client whose fields are replaced is a client.
LEMMA ClientExcept ==
    ASSUME NEW c \in Client, NEW buf \in Seq(Item), NEW ack \in Nat,
           NEW state \in {"wait_start", "wait_end", "send_bulk", "online"},
           NEW file \in Log \cup {None}
    PROVE  /\ [c EXCEPT !.buf = buf] \in Client
           /\ [c EXCEPT !.ack = ack] \in Client
           /\ [c EXCEPT !.state = state] \in Client
           /\ [c EXCEPT !.state = state, !.file = file] \in Client
  BY DEF Client

LEMMA ItemFields ==
    ASSUME NEW i \in Item
    PROVE  /\ i.op = "select" => i.arg \in DB
           /\ i.op # "select" => i.op = "set" /\ i.arg \in Nat
  BY DEF Item

LEMMA LogAppend ==
    ASSUME NEW log \in Log, NEW d \in DB, NEW w \in Nat
    PROVE  Append(log, <<d, w>>) \in Log
  BY DEF Log

\* The SELECT that the write to database d brings into the stream of m.
Switch(m, d) == IF slaveseldb[m] = d THEN <<>> ELSE <<Select(d)>>

LEMMA SwitchType == ASSUME NEW m \in Node, NEW d \in DB, NEW w \in Nat
                    PROVE  /\ Switch(m, d) \in Seq(Item)
                           /\ Switch(m, d) \o <<Set(w)>> \in Seq(Item)
  BY SelectType, SetType DEF Switch

\* What Feed leaves behind.
Fed(m, d, w, cl) ==
    LET items == Switch(m, d) \o <<Set(w)>>
    IN  /\ backlog[m] # None
        /\ offset' = [offset EXCEPT ![m] = offset[m] + Len(items)]
        /\ backlog' = [backlog EXCEPT ![m] = Kept(backlog[m] \o items)]
        /\ slaveseldb' = [slaveseldb EXCEPT ![m] = d]
        /\ client' \in [Node -> [Node -> Client \cup {None}]]
        /\ \A n, s \in Node : n # m => client'[n][s] = cl[n][s]
        /\ \A s \in Node : cl[m][s] = None => client'[m][s] = None
        /\ \A s \in Node : cl[m][s] # None =>
              /\ client'[m][s] # None
              /\ client'[m][s].state = cl[m][s].state
              /\ client'[m][s].file = cl[m][s].file
              /\ client'[m][s].ack = cl[m][s].ack
              /\ client'[m][s].state = "wait_start" =>
                    client'[m][s].buf = cl[m][s].buf \o Switch(m, d)
              /\ client'[m][s].state # "wait_start" =>
                    client'[m][s].buf = cl[m][s].buf \o items

NotFed(m, cl) ==
    /\ backlog[m] = None /\ Slaves(m) = {}
    /\ client' = cl /\ UNCHANGED <<offset, backlog, slaveseldb>>

\* Feed in two cases.
LEMMA FeedEffect ==
    ASSUME TypeOK, NEW m \in Node, NEW d \in DB, NEW w \in Nat,
           Slaves(m) # {} => backlog[m] # None,
           NEW cl \in [Node -> [Node -> Client \cup {None}]], Feed(m, d, w, cl)
    PROVE  NotFed(m, cl) \/ Fed(m, d, w, cl)
  <1>1. CASE backlog[m] = None /\ Slaves(m) = {}
    BY <1>1 DEF Feed, NotFed
  <1>2. CASE ~(backlog[m] = None /\ Slaves(m) = {})
    <2> DEFINE items   == Switch(m, d) \o <<Set(w)>>
               more(c) == IF c.state = "wait_start" THEN Switch(m, d) ELSE items
               fed(c)  == IF c = None THEN None ELSE [c EXCEPT !.buf = c.buf \o more(c)]
    <2>1. Switch(m, d) \in Seq(Item) /\ items \in Seq(Item)
      BY SwitchType
    <2>2. /\ offset' = [offset EXCEPT ![m] = offset[m] + Bytes(items)]
          /\ backlog' = [backlog EXCEPT ![m] = Kept(backlog[m] \o items)]
          /\ slaveseldb' = [slaveseldb EXCEPT ![m] = d]
          /\ client' = [cl EXCEPT ![m] = [s \in Node |-> fed(cl[m][s])]]
      BY <1>2 DEF Feed, Switch
    <2>3. backlog[m] # None
      BY <1>2
    <2> HIDE DEF items
    <2>4. ASSUME NEW c \in Client \cup {None}, c # None
          PROVE  /\ fed(c) \in Client
                 /\ fed(c).state = c.state /\ fed(c).file = c.file /\ fed(c).ack = c.ack
                 /\ fed(c).buf = c.buf \o more(c)
      <3>1. c \in Client
        BY <2>4
      <3>2. more(c) \in Seq(Item)
        BY <2>1
      <3>3. fed(c) = [c EXCEPT !.buf = c.buf \o more(c)]
        BY <2>4
      <3>4. fed(c) \in Client
        BY <3>1, <3>2, <3>3, ClientType
      <3> HIDE DEF fed
      <3> QED BY <3>1, <3>3, <3>4 DEF Client
    <2>5. \A c \in Client \cup {None} : fed(c) \in Client \cup {None}
      BY <2>4
    <2>9. fed(None) = None
      OBVIOUS
    <2> HIDE DEF fed
    <2>6. client' \in [Node -> [Node -> Client \cup {None}]]
      BY <2>2, <2>5
    <2>7. \A n, s \in Node : n # m => client'[n][s] = cl[n][s]
      BY <2>2
    <2>8. \A s \in Node : client'[m][s] = fed(cl[m][s])
      BY <2>2
    <2>10. Bytes(items) = Len(items)
      BY DEF Bytes
    <2>12. ASSUME NEW s \in Node, cl[m][s] # None
           PROVE  /\ client'[m][s] # None
                  /\ client'[m][s].state = cl[m][s].state
                  /\ client'[m][s].file = cl[m][s].file
                  /\ client'[m][s].ack = cl[m][s].ack
                  /\ client'[m][s].buf = cl[m][s].buf \o more(cl[m][s])
      <3>1. cl[m][s] \in Client \cup {None}
        OBVIOUS
      <3> HIDE DEF more
      <3> QED BY <2>4, <2>8, <2>12, <3>1, NoneIsNoValue
    <2>13. ASSUME NEW s \in Node, cl[m][s] # None
           PROVE  /\ client'[m][s].state = "wait_start" =>
                       client'[m][s].buf = cl[m][s].buf \o Switch(m, d)
                  /\ client'[m][s].state # "wait_start" =>
                       client'[m][s].buf = cl[m][s].buf \o items
      <3>1. /\ client'[m][s].state = cl[m][s].state
            /\ client'[m][s].buf = cl[m][s].buf \o more(cl[m][s])
        BY <2>12, <2>13
      <3> QED BY <3>1
    <2> HIDE DEF more
    <2>14. \A s \in Node : cl[m][s] = None => client'[m][s] = None
      BY <2>8, <2>9
    <2> QED
      BY <2>2, <2>3, <2>6, <2>7, <2>14, <2>10, <2>12, <2>13 DEF items, Fed
  <1> QED BY <1>1, <1>2

\* Feed keeps the types and, of the clients, all but the buffers.
LEMMA FedType ==
    ASSUME TypeOK, NEW m \in Node, NEW d \in DB, NEW w \in Nat,
           NEW cl \in [Node -> [Node -> Client \cup {None}]],
           NotFed(m, cl) \/ Fed(m, d, w, cl)
    PROVE  /\ client' \in [Node -> [Node -> Client \cup {None}]]
           /\ offset' \in [Node -> Nat]
           /\ backlog' \in [Node -> Seq(Item) \cup {None}]
           /\ slaveseldb' \in [Node -> DB \cup {None}]
           /\ \A n \in Node : backlog[n] # None => backlog'[n] # None
           /\ \A n, t \in Node : client'[n][t] # None =>
                 /\ cl[n][t] # None
                 /\ client'[n][t].state = cl[n][t].state
                 /\ client'[n][t].file = cl[n][t].file
                 /\ client'[n][t].ack = cl[n][t].ack
  <1>1. CASE NotFed(m, cl)
    BY <1>1 DEF NotFed, TypeOK
  <1>2. CASE Fed(m, d, w, cl)
    <2> DEFINE items == Switch(m, d) \o <<Set(w)>>
    <2>1. items \in Seq(Item) /\ Len(items) \in Nat
      BY SwitchType
    <2>2. backlog[m] \in Seq(Item)
      BY <1>2 DEF Fed, TypeOK
    <2> HIDE DEF items
    <2>3. Kept(backlog[m] \o items) \in Seq(Item)
      <3>1. backlog[m] \o items \in Seq(Item)
        BY <2>1, <2>2
      <3> QED BY <3>1, KeptType
    <2>4. /\ offset' = [offset EXCEPT ![m] = offset[m] + Len(items)]
          /\ backlog' = [backlog EXCEPT ![m] = Kept(backlog[m] \o items)]
          /\ slaveseldb' = [slaveseldb EXCEPT ![m] = d]
          /\ client' \in [Node -> [Node -> Client \cup {None}]]
      BY <1>2 DEF Fed, items
    <2>5. \A n, t \in Node : client'[n][t] # None =>
             /\ cl[n][t] # None
             /\ client'[n][t].state = cl[n][t].state
             /\ client'[n][t].file = cl[n][t].file
             /\ client'[n][t].ack = cl[n][t].ack
      <3> SUFFICES ASSUME NEW n \in Node, NEW t \in Node, client'[n][t] # None
                   PROVE  /\ cl[n][t] # None
                          /\ client'[n][t].state = cl[n][t].state
                          /\ client'[n][t].file = cl[n][t].file
                          /\ client'[n][t].ack = cl[n][t].ack
        OBVIOUS
      <3>1. CASE n # m
        BY <1>2, <3>1 DEF Fed
      <3>2. CASE n = m
        BY <1>2, <3>2 DEF Fed
      <3> QED BY <3>1, <3>2
    <2> QED BY <2>1, <2>3, <2>4, <2>5, NoneIsNoValue DEF TypeOK
  <1> QED BY <1>1, <1>2

\* The client that a full resynchronization creates.
LEMMA AttachedType ==
    ASSUME TypeOK, NEW m \in Node, NEW c \in Attached(m)
    PROVE  /\ c \in Client /\ c.state \in {"wait_start", "wait_end"} /\ c.ack = 0
  <1>1. \A t \in Slaves(m) : client[m][t].buf \in Seq(Item)
    BY ClientFields DEF Slaves, TypeOK
  <1>2. \E state \in {"wait_start", "wait_end"}, buf \in Seq(Item) : c = NewClient(state, buf)
    <2>1. <<>> \in Seq(Item)
      OBVIOUS
    <2> HIDE DEF Item
    <2> QED BY <1>1, <2>1 DEF Attached
  <1> QED BY <1>2, NewClientType

\* What PSYNC sends is a sequence of items.
LEMMA MissedType ==
    ASSUME TypeOK, NEW m \in Node, NEW u \in Upstream, CanContinue(m, u)
    PROVE  Missed(m, u) \in Seq(Item)
  <1>1. backlog[m] \in Seq(Item) /\ offset[m] \in Nat /\ u.off \in Nat
    BY DEF CanContinue, TypeOK, Upstream
  <1>2. /\ u.off + 1 >= offset[m] - Len(backlog[m]) + 1
        /\ u.off + 1 <= offset[m] - Len(backlog[m]) + 1 + Len(backlog[m])
    BY DEF CanContinue, FirstByte
  <1> HIDE DEF Item
  <1>3. PICK lo \in Int : Missed(m, u) = SubSeq(backlog[m], lo, Len(backlog[m])) /\ lo >= 1
    <2>1. PICK first \in Int : first = FirstByte(m)
      BY <1>1 DEF FirstByte
    <2>2. Missed(m, u) = SubSeq(backlog[m], u.off + 1 - first + 1, Len(backlog[m]))
      BY <2>1 DEF Missed
    <2>3. u.off + 1 - first + 1 \in Int /\ u.off + 1 - first + 1 >= 1
      BY <1>1, <1>2, <2>1 DEF FirstByte
    <2> QED BY <2>2, <2>3
  <1>4. Len(backlog[m]) \in Int /\ \A i \in lo..Len(backlog[m]) : backlog[m][i] \in Item
    BY <1>1, <1>3
  <1> QED BY <1>3, <1>4

\* Every action keeps the types and the links.
LEMMA BaseStep == TypeOK /\ LinkInv /\ [Next]_vars => TypeOK' /\ LinkInv'
  <1> SUFFICES ASSUME TypeOK, LinkInv, [Next]_vars PROVE TypeOK' /\ LinkInv'
    OBVIOUS
  <1> USE NoneIsNoValue DEF link, stream, disk, counters, history, blocked, Fault
  <1>1. ASSUME NEW m \in Node, NEW d \in DB, Write(m, d)
        PROVE  TypeOK' /\ LinkInv'
    <2>1. Slaves(m) # {} => backlog[m] # None
      BY DEF LinkInv, ClientInv, Linked, Slaves
    <2>2. writes + 1 \in Nat /\ client \in [Node -> [Node -> Client \cup {None}]]
      BY DEF TypeOK
    <2>3. NotFed(m, client) \/ Fed(m, d, writes + 1, client)
      BY <1>1, <2>1, <2>2, FeedEffect DEF Write
    <2>4. /\ client' \in [Node -> [Node -> Client \cup {None}]]
          /\ offset' \in [Node -> Nat]
          /\ backlog' \in [Node -> Seq(Item) \cup {None}]
          /\ slaveseldb' \in [Node -> DB \cup {None}]
          /\ \A n \in Node : backlog[n] # None => backlog'[n] # None
          /\ \A n, t \in Node : client'[n][t] # None =>
                /\ client[n][t] # None
                /\ client'[n][t].state = client[n][t].state
                /\ client'[n][t].file = client[n][t].file
                /\ client'[n][t].ack = client[n][t].ack
      BY <2>2, <2>3, FedType
    <2>5. /\ data' \in [Node -> Log]
          /\ waiting' \in [at : Node, entry : DB \X Nat, off : Nat] \cup {None}
      <3>1. data' = [data EXCEPT ![m] = Append(data[m], <<d, writes + 1>>)]
        BY <1>1 DEF Write
      <3>2. Append(data[m], <<d, writes + 1>>) \in Log
        BY <2>2, LogAppend DEF TypeOK
      <3>3. offset'[m] \in Nat
        BY <2>4
      <3>4. waiting' = IF waiting = None
                         THEN [at |-> m, entry |-> <<d, writes + 1>>, off |-> offset'[m]]
                         ELSE waiting
        BY <1>1 DEF Write
      <3>5. data' \in [Node -> Log]
        BY <3>1, <3>2 DEF TypeOK
      <3> QED BY <2>2, <3>3, <3>4, <3>5 DEF TypeOK
    <2>6. TypeOK'
      BY <1>1, <2>4, <2>5 DEF Write, TypeOK
    <2>7. UNCHANGED <<runid, upstream, masterhost, repl_state, runs>>
      BY <1>1 DEF Write
    <2>8. RunInv' /\ UpstreamInv'
      BY <2>7 DEF LinkInv, RunInv, UpstreamInv
    <2>9. ClientInv'
      <3> SUFFICES ASSUME NEW n \in Node, NEW t \in Node, client'[n][t] # None
                   PROVE  Linked(n, t)'
        BY DEF ClientInv
      <3>1. /\ client'[n][t].state = client[n][t].state
            /\ client'[n][t].file = client[n][t].file
            /\ client'[n][t].ack = client[n][t].ack
            /\ Linked(n, t)
        BY <2>4 DEF LinkInv, ClientInv
      <3> QED BY <2>4, <2>7, <3>1 DEF Linked
    <2> QED BY <2>6, <2>8, <2>9 DEF LinkInv
  <1>2. ASSUME WaitEnds
        PROVE  TypeOK' /\ LinkInv'
    <2>1. TypeOK'
      BY <1>2 DEF WaitEnds, TypeOK, LinkInv
    <2>2. LinkInv'
      BY <1>2 DEF WaitEnds, TypeOK, LinkInv, RunInv, UpstreamInv, ClientInv, Linked
    <2> QED BY <2>1, <2>2
  <1>3. ASSUME NEW s \in Node, Continue(s)
        PROVE  TypeOK' /\ LinkInv'
    <2> DEFINE m == masterhost[s]
               c == NewClient("online", Missed(m, upstream[s]))
    <2>1. m \in Node /\ backlog[m] # None /\ upstream[s] \in Upstream
      BY <1>3 DEF Continue, Asks, CanContinue, TypeOK
    <2>2. Missed(m, upstream[s]) \in Seq(Item)
      BY <1>3, <2>1, MissedType DEF Continue, TypeOK
    <2>3. c \in Client /\ c.state = "online" /\ c.ack = 0
      BY <2>2, NewClientType
    <2>4. client' = [client EXCEPT ![m][s] = c]
      BY <1>3 DEF Continue
    <2>5. s # m /\ repl_state[m] \in {"none", "connected"}
      BY <1>3, <2>1 DEF Continue, Asks, Serves, TypeOK
    <2> HIDE DEF c
    <2>6. TypeOK'
      BY <1>3, <2>1, <2>3, <2>4 DEF Continue, Asks, TypeOK
    <2>7. \A n, t \in Node : client'[n][t] = IF n = m /\ t = s THEN c ELSE client[n][t]
      BY <2>1, <2>4 DEF TypeOK
    <2>8. \A n \in Node : repl_state'[n] = IF n = s THEN "connected" ELSE repl_state[n]
      BY <1>3 DEF Continue, TypeOK
    <2>9. upstream[s].off \in Nat
      BY <2>1 DEF Upstream
    <2>10. \A n \in Node : client[n][s] = None
      BY <1>3 DEF LinkInv, ClientInv, Linked, Continue, Asks
    <2>11. LinkInv'
      BY <1>3, <2>1, <2>3, <2>5, <2>7, <2>8, <2>9, <2>10 
         DEF Continue, Asks, TypeOK, LinkInv, RunInv, UpstreamInv, ClientInv, Linked
    <2> QED BY <2>6, <2>11
  <1>4. ASSUME NEW s \in Node, NotServed(s)
        PROVE  TypeOK' /\ LinkInv'
    <2>1. TypeOK'
      BY <1>4 DEF NotServed, TypeOK
    <2>2. \A n \in Node : client[n][s] = None
      BY <1>4 DEF LinkInv, ClientInv, Linked, NotServed, Asks
    <2>3. LinkInv'
      BY <1>4, <2>2 
         DEF NotServed, Asks, TypeOK, LinkInv, RunInv, UpstreamInv, ClientInv, Linked
    <2> QED BY <2>1, <2>3
  <1>5. ASSUME NEW s \in Node, FullResync(s)
        PROVE  TypeOK' /\ LinkInv'
    <2> DEFINE m   == masterhost[s]
               off == IF backlog[m] = None THEN offset[m] + 1 ELSE offset[m]
               u   == [runid |-> runid[m], off |-> off, db |-> DefaultDB]
    <2>1. PICK c \in Attached(m) : client' = [client EXCEPT ![m][s] = c]
      BY <1>5 DEF FullResync
    <2>2. m \in Node /\ s # m /\ repl_state[m] \in {"none", "connected"}
      BY <1>5 DEF FullResync, Asks, Serves, TypeOK
    <2>3. c \in Client /\ c.state \in {"wait_start", "wait_end"} /\ c.ack = 0
      BY <2>2, AttachedType
    <2>4. off \in Nat /\ runid[m] \in Nat
      BY <2>2 DEF TypeOK
    <2>5. u \in Upstream /\ u.runid = runid[m] /\ u.off = off /\ u.db = DefaultDB
      BY <2>4, ReplicationAssumption DEF Upstream, ReplicationAssumption
    <2>6. \A n \in Node : client[n][s] = None
      BY <1>5 DEF LinkInv, ClientInv, Linked, FullResync, Asks
    <2>7. /\ upstream' = [upstream EXCEPT ![s] = u]
          /\ repl_state' = [repl_state EXCEPT ![s] = "transfer"]
          /\ slaveseldb' = [slaveseldb EXCEPT ![m] = None]
          /\ child' = IF child[m] = None THEN [child EXCEPT ![m] = data[m]] ELSE child
          /\ misplaced' \in SUBSET (misplaced \cup {s})
          /\ astray' \in SUBSET (astray \cup {s})
          /\ UNCHANGED <<data, rdb, runid, masterhost, blocked, counters>>
      BY <1>5 DEF FullResync
    <2>8. \/ /\ backlog[m] = None /\ Slaves(m) = {}
             /\ offset' = [offset EXCEPT ![m] = offset[m] + 1]
             /\ backlog' = [backlog EXCEPT ![m] = <<>>]
          \/ /\ backlog[m] # None \/ Slaves(m) # {}
             /\ UNCHANGED <<offset, backlog>>
      BY <1>5 DEF FullResync
    <2>9. backlog'[m] # None
      <3>1. Slaves(m) # {} => backlog[m] # None
        BY <2>2 DEF LinkInv, ClientInv, Linked, Slaves
      <3>2. <<>> # None
        BY EmptySeqs
      <3> QED BY <2>2, <2>8, <3>1, <3>2 DEF TypeOK
    <2> HIDE DEF u, off
    <2>10. data[m] \in Log
      BY <2>2 DEF TypeOK
    <2>11. TypeOK'
      <3>1. /\ client' \in [Node -> [Node -> Client \cup {None}]]
            /\ upstream' \in [Node -> Upstream \cup {None}]
        BY <2>1, <2>2, <2>3, <2>5, <2>7 DEF TypeOK
      <3>2. /\ offset' \in [Node -> Nat]
            /\ backlog' \in [Node -> Seq(Item) \cup {None}]
        <4>1. <<>> \in Seq(Item)
          BY EmptySeqs
        <4>2. offset' \in [Node -> Nat]
          BY <2>2, <2>8 DEF TypeOK
        <4>3. backlog' \in [Node -> Seq(Item) \cup {None}]
          <5>1. CASE UNCHANGED backlog
            BY <5>1 DEF TypeOK
          <5>2. CASE backlog' = [backlog EXCEPT ![m] = <<>>]
            <6>1. PICK empty \in Seq(Item) : empty = <<>>
              BY <4>1
            <6>2. backlog' = [backlog EXCEPT ![m] = empty]
              BY <5>2, <6>1
            <6> QED BY <2>2, <6>2 DEF TypeOK
          <5> QED BY <2>8, <5>1, <5>2
        <4> QED BY <4>2, <4>3
      <3>3. /\ child' \in [Node -> Log \cup {None}]
            /\ slaveseldb' \in [Node -> DB \cup {None}]
        BY <2>2, <2>7, <2>10 DEF TypeOK
      <3>4. /\ repl_state' \in [Node -> {"none", "connect", "transfer", "connected"}]
            /\ \A n \in Node : repl_state'[n] = "none" <=> masterhost'[n] = None
        BY <1>5, <2>7 DEF TypeOK, FullResync, Asks
      <3> QED BY <2>7, <3>1, <3>2, <3>3, <3>4 DEF TypeOK
    <2>12. RunInv' /\ UpstreamInv'
      <3>1. RunInv'
        BY <1>5, <2>7 DEF LinkInv, RunInv, FullResync, Asks
      <3>2. UpstreamInv'
        <4>1. /\ runs' = runs /\ masterhost' = masterhost
              /\ repl_state' = [repl_state EXCEPT ![s] = "transfer"]
              /\ upstream' = [upstream EXCEPT ![s] = u]
          BY <1>5, <2>7 DEF FullResync, counters
        <4>2. u # None /\ u.runid <= runs /\ masterhost[s] \notin {None, s} /\ u.db = DefaultDB
          BY <2>2, <2>5, ReplicationAssumption
             DEF LinkInv, RunInv, Upstream, ReplicationAssumption
        <4>3. upstream \in [Node -> Upstream \cup {None}] /\ DOMAIN repl_state = Node
          BY DEF TypeOK
        <4> HIDE DEF u, off
        <4> QED BY <4>1, <4>2, <4>3 DEF LinkInv, UpstreamInv
      <3> QED BY <3>1, <3>2
    <2>13. ClientInv'
      <3> SUFFICES ASSUME NEW n \in Node, NEW t \in Node, client'[n][t] # None
                   PROVE  Linked(n, t)'
        BY DEF ClientInv
      <3>1. client'[n][t] = IF n = m /\ t = s THEN c ELSE client[n][t]
        BY <2>1, <2>2 DEF TypeOK
      <3>2. CASE n = m /\ t = s
        BY <2>2, <2>3, <2>4, <2>5, <2>7, <2>9, <3>1, <3>2 DEF Linked, TypeOK, off
      <3>3. CASE ~(n = m /\ t = s)
        <4>1. client[n][t] # None /\ t # s /\ n # s /\ Linked(n, t)
          BY <2>6, <3>1, <3>3, <1>5 DEF LinkInv, ClientInv, Linked, FullResync, Asks
        <4>2. backlog'[n] # None
          BY <2>8, <2>9, <4>1 DEF Linked, TypeOK
        <4> QED BY <2>7, <3>1, <3>3, <4>1, <4>2 DEF Linked, TypeOK
      <3> QED BY <3>2, <3>3
    <2> QED BY <2>11, <2>12, <2>13 DEF LinkInv
  <1>6. ASSUME NEW s \in Node, LoadRdb(s)
        PROVE  TypeOK' /\ LinkInv'
    <2> DEFINE m == masterhost[s]
               c == [client[m][s] EXCEPT !.state = "online", !.file = None]
    <2>1. m \in Node
      BY <1>6 DEF LoadRdb, TypeOK
    <2>2. client[m][s] \in Client /\ client[m][s].file \in Log
      BY <1>6, <2>1, ClientFields DEF LoadRdb, LinkInv, ClientInv, Linked, TypeOK
    <2>3. client' = [client EXCEPT ![m][s] = c]
      BY <1>6, <2>1, <2>2 DEF LoadRdb, TypeOK, Client
    <2>4. c \in Client /\ c.state = "online" /\ c.ack = client[m][s].ack
      BY <2>2 DEF Client
    <2> HIDE DEF c
    <2>5. TypeOK'
      <3>1. client' \in [Node -> [Node -> Client \cup {None}]]
        BY <2>1, <2>3, <2>4 DEF TypeOK
      <3> QED BY <1>6, <2>2, <3>1 DEF LoadRdb, TypeOK
    <2>6. RunInv' /\ UpstreamInv'
      BY <1>6 DEF LoadRdb, TypeOK, LinkInv, RunInv, UpstreamInv
    <2>7. ClientInv'
      <3> SUFFICES ASSUME NEW n \in Node, NEW t \in Node, client'[n][t] # None
                   PROVE  Linked(n, t)'
        BY DEF ClientInv
      <3>1. client'[n][t] = IF n = m /\ t = s THEN c ELSE client[n][t]
        BY <2>1, <2>3 DEF TypeOK
      <3>2. client[n][t] # None /\ Linked(n, t)
        BY <1>6, <3>1 DEF LoadRdb, LinkInv, ClientInv
      <3>3. n # s
        BY <1>6, <3>2 DEF LoadRdb, Linked
      <3>4. t = s => n = m
        BY <3>2 DEF Linked
      <3> QED BY <1>6, <2>4, <3>1, <3>2, <3>3, <3>4 DEF LoadRdb, Linked, TypeOK
    <2> QED BY <2>5, <2>6, <2>7 DEF LinkInv
  <1>7. ASSUME NEW s \in Node, Deliver(s)
        PROVE  TypeOK' /\ LinkInv'
    <2> DEFINE m    == masterhost[s]
               item == Head(client[m][s].buf)
               c    == [client[m][s] EXCEPT !.buf = Tail(client[m][s].buf)]
               rest == [client EXCEPT ![m][s] = c]
               u    == [upstream[s] EXCEPT !.off = @ + 1,
                                 !.db = IF item.op = "select" THEN item.arg ELSE @]
    <2>1. m \in Node /\ client[m][s] \in Client /\ upstream[s] \in Upstream
      BY <1>7 DEF Deliver, LinkInv, UpstreamInv, TypeOK
    <2>2. client[m][s].buf \in Seq(Item) /\ client[m][s].buf # <<>>
      BY <1>7, <2>1, ClientFields DEF Deliver
    <2>3. item \in Item /\ Tail(client[m][s].buf) \in Seq(Item)
      BY <2>2
    <2>4. c \in Client /\ c.state = client[m][s].state /\ c.file = client[m][s].file
          /\ c.ack = client[m][s].ack
      <3>1. PICK b \in Seq(Item) : b = Tail(client[m][s].buf)
        BY <2>3
      <3>2. PICK x \in Client : x = client[m][s]
        BY <2>1
      <3>3. c = [x EXCEPT !.buf = b]
        BY <3>1, <3>2
      <3> HIDE DEF c
      <3>4. /\ c \in Client /\ c.state = x.state /\ c.file = x.file /\ c.ack = x.ack
        BY <3>3 DEF Client
      <3> QED BY <3>2, <3>4
    <2>5. u \in Upstream /\ u.off = upstream[s].off + 1 /\ u.runid = upstream[s].runid
      <3>1. upstream[s].off + 1 \in Nat /\ upstream[s].db \in DB
        BY <2>1 DEF Upstream
      <3>2. (IF item.op = "select" THEN item.arg ELSE upstream[s].db) \in DB
        BY <2>3, <3>1, ItemFields
      <3> HIDE DEF item
      <3> QED BY <2>1, <3>1, <3>2 DEF Upstream
    <2>6. rest \in [Node -> [Node -> Client \cup {None}]]
      BY <2>1, <2>4 DEF TypeOK
    <2>7. /\ upstream' = [upstream EXCEPT ![s] = u]
          /\ UNCHANGED <<disk, runid, masterhost, repl_state, blocked, counters, history>>
      <3>1. upstream' = [upstream EXCEPT ![s] = u]
        BY <1>7 DEF Deliver
      <3>2. UNCHANGED <<disk, runid, masterhost, repl_state, blocked, counters, history>>
        BY <1>7 DEF Deliver
      <3> QED BY <3>1, <3>2
    <2>8. \/ /\ item.op = "select" /\ client' = rest
             /\ UNCHANGED <<data, offset, backlog, slaveseldb>>
          \/ /\ item.op # "select"
             /\ data' = [data EXCEPT ![s] = Append(@, <<upstream[s].db, item.arg>>)]
             /\ Feed(s, upstream[s].db, item.arg, rest)
      BY <1>7 DEF Deliver
    <2>9. upstream[s].db \in DB
      BY <2>1 DEF Upstream
    <2> HIDE DEF c, rest, u, item
    <2>10. /\ client' \in [Node -> [Node -> Client \cup {None}]]
           /\ offset' \in [Node -> Nat]
           /\ backlog' \in [Node -> Seq(Item) \cup {None}]
           /\ slaveseldb' \in [Node -> DB \cup {None}]
           /\ data' \in [Node -> Log]
           /\ \A n \in Node : backlog[n] # None => backlog'[n] # None
           /\ \A n, t \in Node : client'[n][t] # None =>
                 /\ rest[n][t] # None
                 /\ client'[n][t].state = rest[n][t].state
                 /\ client'[n][t].file = rest[n][t].file
                 /\ client'[n][t].ack = rest[n][t].ack
      <3>1. CASE item.op = "select"
        BY <2>6, <2>8, <3>1 DEF TypeOK
      <3>2. CASE item.op # "select"
        <4>1. Slaves(s) # {} => backlog[s] # None
          BY DEF LinkInv, ClientInv, Linked, Slaves
        <4>2. item.arg \in Nat
          BY <2>3, <3>2, ItemFields
        <4>3. NotFed(s, rest) \/ Fed(s, upstream[s].db, item.arg, rest)
          BY <2>6, <2>8, <2>9, <3>2, <4>1, <4>2, FeedEffect
        <4>4. Append(data[s], <<upstream[s].db, item.arg>>) \in Log
          BY <2>9, <4>2, LogAppend DEF TypeOK
        <4>5. data' \in [Node -> Log]
          <5>1. data' = [data EXCEPT ![s] = Append(data[s], <<upstream[s].db, item.arg>>)]
            BY <2>8, <3>2
          <5> QED BY <4>4, <5>1 DEF TypeOK
        <4> QED BY <2>6, <2>9, <4>2, <4>3, <4>5, FedType
      <3> QED BY <3>1, <3>2
    <2>11. TypeOK'
      BY <2>1, <2>5, <2>7, <2>10 DEF TypeOK
    <2>12. RunInv' /\ UpstreamInv'
      <3>1. RunInv'
        BY <2>7 DEF LinkInv, RunInv, counters
      <3>2. UpstreamInv'
        <4>1. runs' = runs /\ masterhost' = masterhost /\ repl_state' = repl_state
          BY <2>7 DEF counters
        <4>2. repl_state[s] = "connected" /\ upstream[s] # None
          BY <1>7, <2>1 DEF Deliver, LinkInv, UpstreamInv
        <4>3. upstream \in [Node -> Upstream \cup {None}]
          BY DEF TypeOK
        <4> QED BY <2>5, <2>7, <4>1, <4>2, <4>3 DEF LinkInv, UpstreamInv
      <3> QED BY <3>1, <3>2
    <2>13. ClientInv'
      <3> SUFFICES ASSUME NEW n \in Node, NEW t \in Node, client'[n][t] # None
                   PROVE  Linked(n, t)'
        BY DEF ClientInv
      <3>1. rest[n][t] = IF n = m /\ t = s THEN c ELSE client[n][t]
        BY <2>1 DEF TypeOK, rest
      <3>2. client[n][t] # None /\ Linked(n, t)
        BY <1>7, <2>10, <3>1 DEF LinkInv, ClientInv, Deliver
      <3>3. /\ client'[n][t].state = client[n][t].state
            /\ client'[n][t].file = client[n][t].file
            /\ client'[n][t].ack = client[n][t].ack
        BY <2>4, <2>10, <3>1
      <3>4. client[n][t] \in Client
        BY <3>2 DEF TypeOK
      <3>5. client[n][t].ack \in Nat
        BY <3>4, ClientFields
      <3>6. client[n][t].ack <= upstream'[t].off
        <4>1. CASE t = s
          <5>1. upstream'[t].off = upstream[t].off + 1 /\ upstream[t].off \in Nat
            BY <2>1, <2>5, <2>7, <4>1 DEF TypeOK, Upstream
          <5> QED BY <3>2, <3>5, <5>1 DEF Linked
        <4>2. CASE t # s
          BY <2>7, <3>2, <4>2 DEF TypeOK, Linked
        <4> QED BY <4>1, <4>2
      <3> QED BY <2>7, <2>10, <3>2, <3>3, <3>6 DEF Linked
    <2> QED BY <2>11, <2>12, <2>13 DEF LinkInv
  <1>8. ASSUME NEW s \in Node, Ack(s)
        PROVE  TypeOK' /\ LinkInv'
    <2> DEFINE m == masterhost[s]
               c == [client[m][s] EXCEPT !.ack = upstream[s].off]
    <2>1. m \in Node /\ client[m][s] \in Client /\ upstream[s] \in Upstream
      BY <1>8 DEF Ack, LinkInv, UpstreamInv, TypeOK
    <2>2. upstream[s].off \in Nat
      BY <2>1 DEF Upstream
    <2>3. c \in Client /\ c.state = client[m][s].state /\ c.file = client[m][s].file
          /\ c.ack = upstream[s].off
      BY <2>1, <2>2 DEF Client
    <2>4. client' = [client EXCEPT ![m][s] = c]
      BY <1>8 DEF Ack
    <2> HIDE DEF c
    <2>5. \A n, t \in Node : client'[n][t] = IF n = m /\ t = s THEN c ELSE client[n][t]
      BY <2>1, <2>4 DEF TypeOK
    <2>6. TypeOK'
      <3>1. client' \in [Node -> [Node -> Client \cup {None}]]
        BY <2>1, <2>3, <2>4 DEF TypeOK
      <3> QED BY <1>8, <3>1 DEF Ack, TypeOK
    <2>7. RunInv' /\ UpstreamInv'
      <3>1. RunInv'
        BY <1>8 DEF Ack, LinkInv, RunInv
      <3>2. UpstreamInv'
        BY <1>8 DEF Ack, LinkInv, UpstreamInv
      <3> QED BY <3>1, <3>2
    <2>8. ClientInv'
      BY <1>8, <2>1, <2>2, <2>3, <2>5 DEF Ack, LinkInv, ClientInv, Linked
    <2> QED BY <2>6, <2>7, <2>8 DEF LinkInv
  <1>9. ASSUME NEW s \in Node, LoseMaster(s)
        PROVE  TypeOK' /\ LinkInv'
    <2>1. masterhost[s] # None
      BY <1>9 DEF LoseMaster, TypeOK
    <2>2. TypeOK'
      <3>1. client' \in [Node -> [Node -> Client \cup {None}]]
        <4>1. CASE repl_state[s] = "connected"
          <5>1. client' = [client EXCEPT ![s] = [t \in Node |-> None]]
            BY <1>9, <4>1 DEF LoseMaster
          <5>2. [t \in Node |-> None] \in [Node -> Client \cup {None}]
            OBVIOUS
          <5> QED BY <5>1, <5>2 DEF TypeOK
        <4>2. CASE repl_state[s] # "connected"
          BY <1>9, <4>2 DEF LoseMaster, TypeOK
        <4> QED BY <4>1, <4>2
      <3>2. upstream' \in [Node -> Upstream \cup {None}]
        BY <1>9 DEF LoseMaster, TypeOK
      <3>3. /\ repl_state' \in [Node -> {"none", "connect", "transfer", "connected"}]
            /\ \A n \in Node : repl_state'[n] = "none" <=> masterhost'[n] = None
        BY <1>9, <2>1 DEF LoseMaster, TypeOK
      <3> QED BY <1>9, <3>1, <3>2, <3>3 DEF LoseMaster, TypeOK
    <2>3. RunInv' /\ UpstreamInv'
      BY <1>9 DEF LoseMaster, LinkInv, RunInv, UpstreamInv, TypeOK
    <2>4. ClientInv'
      <3> SUFFICES ASSUME NEW n \in Node, NEW t \in Node, client'[n][t] # None
                   PROVE  Linked(n, t)'
        BY DEF ClientInv
      <3>1. client'[n][t] = client[n][t] /\ (repl_state[s] = "connected" => n # s)
        BY <1>9 DEF LoseMaster, TypeOK
      <3>2. Linked(n, t)
        BY <3>1 DEF LinkInv, ClientInv
      <3>3. t # s /\ n # s
        BY <1>9, <3>1, <3>2 DEF LoseMaster, Linked
      <3> QED BY <1>9, <3>1, <3>2, <3>3 DEF LoseMaster, Linked, TypeOK
    <2> QED BY <2>2, <2>3, <2>4 DEF LinkInv
  <1>10. ASSUME NEW n \in Node, SlaveOfNoOne(n)
        PROVE  TypeOK' /\ LinkInv'
    <2>1. client' = Alone(n, Slaves(n))
      BY <1>10 DEF SlaveOfNoOne
    <2>2. \A m, s \in Node : client'[m][s] = IF m # n /\ s = n THEN None ELSE client[m][s]
      BY <2>1 DEF Alone, Slaves, TypeOK
    <2>3. client' \in [Node -> [Node -> Client \cup {None}]]
      BY <2>1 DEF Alone, TypeOK
    <2>4. /\ masterhost' = [masterhost EXCEPT ![n] = None]
          /\ repl_state' = [repl_state EXCEPT ![n] = "none"]
          /\ upstream' = [upstream EXCEPT ![n] = None]
          /\ UNCHANGED <<data, disk, runid, slaveseldb, blocked, runs, writes, misplaced>>
          /\ faults' = faults + 1
      BY <1>10 DEF SlaveOfNoOne
    <2>5. \/ UNCHANGED <<offset, backlog, astray>>
          \/ /\ repl_state[n] = "connected" /\ Slaves(n) = {}
             /\ offset' = [offset EXCEPT ![n] = upstream[n].off]
             /\ backlog' = [backlog EXCEPT ![n] = None]
             /\ astray' = astray \cup Beyond(n, upstream[n].off + 1)
      BY <1>10 DEF SlaveOfNoOne
    <2>6. TypeOK'
      <3>1. offset' \in [Node -> Nat] /\ backlog' \in [Node -> Seq(Item) \cup {None}]
            /\ astray' \in SUBSET Node
        <4>1. CASE UNCHANGED <<offset, backlog, astray>>
          BY <4>1 DEF TypeOK
        <4>2. CASE ~UNCHANGED <<offset, backlog, astray>>
          <5>1. upstream[n].off \in Nat
            BY <2>5, <4>2 DEF LinkInv, UpstreamInv, TypeOK, Upstream
          <5>2. offset' \in [Node -> Nat]
            BY <2>5, <4>2, <5>1 DEF TypeOK
          <5>3. backlog' \in [Node -> Seq(Item) \cup {None}]
            BY <2>5, <4>2 DEF TypeOK
          <5>4. astray' \in SUBSET Node
            BY <2>5, <4>2 DEF TypeOK, Beyond
          <5> QED BY <5>2, <5>3, <5>4
        <4> QED BY <4>1, <4>2
      <3>2. /\ masterhost' \in [Node -> Node \cup {None}]
            /\ repl_state' \in [Node -> {"none", "connect", "transfer", "connected"}]
            /\ \A m \in Node : repl_state'[m] = "none" <=> masterhost'[m] = None
            /\ upstream' \in [Node -> Upstream \cup {None}]
        BY <2>4 DEF TypeOK
      <3> QED BY <2>3, <2>4, <3>1, <3>2 DEF TypeOK
    <2>7. RunInv' /\ UpstreamInv'
      BY <2>4 DEF LinkInv, RunInv, UpstreamInv, TypeOK
    <2>8. ClientInv'
      <3> SUFFICES ASSUME NEW m \in Node, NEW s \in Node, client'[m][s] # None
                   PROVE  Linked(m, s)'
        BY DEF ClientInv
      <3>1. client'[m][s] = client[m][s] /\ Linked(m, s)
        BY <2>2 DEF LinkInv, ClientInv
      <3>2. s # n
        BY <2>2, <3>1 DEF LinkInv, UpstreamInv, Linked
      <3>3. backlog'[m] # None
        BY <2>5, <3>1 DEF Linked, Slaves, TypeOK
      <3> QED BY <2>4, <3>1, <3>2, <3>3 DEF Linked, TypeOK
    <2> QED BY <2>6, <2>7, <2>8 DEF LinkInv
  <1>11. ASSUME NEW n \in Node, Restart(n)
        PROVE  TypeOK' /\ LinkInv'
    <2>1. client' = Alone(n, {})
      BY <1>11 DEF Restart
    <2>2. \A m, s \in Node : client'[m][s] = IF n \in {m, s} THEN None ELSE client[m][s]
      BY <2>1 DEF Alone, TypeOK
    <2>3. client' \in [Node -> [Node -> Client \cup {None}]]
      BY <2>1 DEF Alone, TypeOK
    <2>4. TypeOK'
      <3>1. repl_state' = [repl_state EXCEPT ![n] = IF masterhost[n] = None THEN "none"
                                                                      ELSE "connect"]
        BY <1>11 DEF Restart, StateAs
      <3>2. /\ repl_state' \in [Node -> {"none", "connect", "transfer", "connected"}]
            /\ \A m \in Node : repl_state'[m] = "none" <=> masterhost'[m] = None
        BY <1>11, <3>1 DEF Restart, TypeOK
      <3>3. data' \in [Node -> Log] /\ child' \in [Node -> Log \cup {None}]
        BY <1>11, EmptySeqs DEF Restart, TypeOK
      <3>4. runs + 1 \in Nat /\ runid' \in [Node -> Nat]
        BY <1>11 DEF Restart, TypeOK
      <3>5. /\ waiting' \in [at : Node, entry : DB \X Nat, off : Nat] \cup {None}
            /\ renumbered' \in BOOLEAN
        BY <1>11 DEF Restart, TypeOK
      <3>6. /\ offset' \in [Node -> Nat] /\ backlog' \in [Node -> Seq(Item) \cup {None}]
            /\ slaveseldb' \in [Node -> DB \cup {None}]
            /\ upstream' \in [Node -> Upstream \cup {None}]
        BY <1>11 DEF Restart, TypeOK
      <3> QED BY <1>11, <2>3, <3>2, <3>3, <3>4, <3>5, <3>6 DEF Restart, TypeOK
    <2>5. RunInv' /\ UpstreamInv'
      <3>1. \A s \in Node : upstream[s] # None => upstream[s].runid \in Nat
        BY DEF TypeOK, Upstream
      <3>2. RunInv'
        BY <1>11 DEF Restart, StateAs, LinkInv, RunInv, TypeOK
      <3>3. UpstreamInv'
        BY <1>11, <3>1 DEF Restart, StateAs, LinkInv, RunInv, UpstreamInv, TypeOK
      <3> QED BY <3>2, <3>3
    <2>6. ClientInv'
      BY <1>11, <2>2 DEF Restart, LinkInv, ClientInv, Linked, TypeOK
    <2> QED BY <2>4, <2>5, <2>6 DEF LinkInv
  <1>12. ASSUME NEW n \in Node, FreeBacklog(n)
        PROVE  TypeOK' /\ LinkInv'
    <2>1. TypeOK'
      BY <1>12 DEF FreeBacklog, TypeOK
    <2>2. RunInv' /\ UpstreamInv'
      BY <1>12 DEF FreeBacklog, LinkInv, RunInv, UpstreamInv
    <2>3. \A s \in Node : client[n][s] = None
      BY <1>12 DEF FreeBacklog, Slaves
    <2>4. ClientInv'
      BY <1>12, <2>3 DEF FreeBacklog, LinkInv, ClientInv, Linked, TypeOK
    <2> QED BY <2>1, <2>2, <2>4 DEF LinkInv
  <1>13. ASSUME NEW n \in Node, BgSave(n)
        PROVE  TypeOK' /\ LinkInv'
    <2>1. TypeOK'
      BY <1>13 DEF BgSave, TypeOK, LinkInv
    <2>2. LinkInv'
      BY <1>13 DEF BgSave, TypeOK, LinkInv, RunInv, UpstreamInv, ClientInv, Linked
    <2> QED BY <2>1, <2>2
  <1>14. ASSUME NEW m \in Node, NEW how \in {"ok", "failed", "killed"}, NEW forked \in BOOLEAN,
               BgSaveDone(m, how, forked)
        PROVE  TypeOK' /\ LinkInv'
    <2> DEFINE in(state) == {s \in Slaves(m) : client[m][s].state = state}
               next == in("wait_start")
               file == IF how = "ok" THEN child[m] ELSE rdb[m]
               sent == how # "failed" /\ file # None
               new(s) == CASE s \in next -> [client[m][s] EXCEPT !.state = "wait_end"]
                           [] s \in in("wait_end") ->
                                IF sent THEN [client[m][s] EXCEPT !.state = "send_bulk",
                                                                  !.file = file]
                                        ELSE None
                           [] OTHER -> client[m][s]
    <2>1. /\ rdb' = [rdb EXCEPT ![m] = file]
          /\ child' = [child EXCEPT ![m] = IF next # {} /\ forked THEN data[m] ELSE None]
          /\ client' = [client EXCEPT ![m] = [s \in Node |-> new(s)]]
          /\ UNCHANGED <<data, link, offset, backlog, slaveseldb, blocked, runs, writes>>
      BY <1>14 DEF BgSaveDone
    <2>2. /\ misplaced' \in SUBSET Node /\ astray' \in SUBSET Node
          /\ faults' \in Nat
      <3>1. /\ misplaced' = (misplaced \ next) \cup
                  {s \in next : upstream[s].off + Len(client[m][s].buf) # offset[m]}
            /\ astray' = astray \cup (IF forked THEN {} ELSE next)
                  \cup (IF sent /\ file # child[m] THEN in("wait_end") ELSE {})
        BY <1>14 DEF BgSaveDone
      <3>2. \A state : in(state) \in SUBSET Node
        BY DEF Slaves
      <3>3. faults' \in Nat
        <4>1. IF how # "ok" \/ ~forked THEN Fault("bgsave") ELSE UNCHANGED faults
          BY <1>14 DEF BgSaveDone
        <4>2. faults' = faults + 1 \/ faults' = faults
          BY <4>1
        <4> QED BY <4>2 DEF TypeOK
      <3> HIDE DEF in, sent, file
      <3> QED BY <3>1, <3>2, <3>3 DEF TypeOK
    <2>3. file \in Log \cup {None}
      BY DEF TypeOK
    <2> HIDE DEF file
    <2>4. ASSUME NEW s \in Node
          PROVE  /\ new(s) \in Client \cup {None}
                 /\ client[m][s] = None => new(s) = None
                 /\ new(s) # None =>
                       /\ client[m][s] # None
                       /\ new(s).ack = client[m][s].ack
                       /\ new(s).state = "online" <=> client[m][s].state = "online"
                       /\ new(s).state = "send_bulk" =>
                             \/ new(s).file # None
                             \/ new(s) = client[m][s]
      <3>1. CASE s \notin Slaves(m)
        BY <3>1 DEF Slaves
      <3>2. CASE s \in Slaves(m)
        <4>1. client[m][s] \in Client
          BY <3>2 DEF Slaves, TypeOK
        <4> QED BY <2>3, <3>2, <4>1 DEF Client, Slaves
      <3> QED BY <3>1, <3>2
    <2> HIDE DEF new
    <2>5. TypeOK'
      <3>1. client' \in [Node -> [Node -> Client \cup {None}]]
        BY <2>1, <2>4 DEF TypeOK
      <3>2. rdb' \in [Node -> Log \cup {None}] /\ child' \in [Node -> Log \cup {None}]
        BY <2>1, <2>3 DEF TypeOK
      <3> QED BY <2>1, <2>2, <3>1, <3>2 DEF TypeOK
    <2>6. RunInv' /\ UpstreamInv'
      BY <2>1 DEF LinkInv, RunInv, UpstreamInv
    <2>7. ClientInv'
      <3> SUFFICES ASSUME NEW n \in Node, NEW t \in Node, client'[n][t] # None
                   PROVE  Linked(n, t)'
        BY DEF ClientInv
      <3>1. client'[n][t] = IF n = m THEN new(t) ELSE client[n][t]
        BY <2>1 DEF TypeOK
      <3>2. client[n][t] # None /\ Linked(n, t)
        BY <2>4, <3>1 DEF LinkInv, ClientInv
      <3> QED BY <2>1, <2>4, <3>1, <3>2 DEF Linked
    <2> QED BY <2>5, <2>6, <2>7 DEF LinkInv
  <1>15. ASSUME NEW m \in Node, NEW s \in Node, Drop(m, s)
        PROVE  TypeOK' /\ LinkInv'
    <2>1. TypeOK'
      BY <1>15 DEF Drop, TypeOK
    <2>2. RunInv' /\ UpstreamInv'
      BY <1>15 DEF Drop, LinkInv, RunInv, UpstreamInv
    <2>3. ClientInv'
      BY <1>15 DEF Drop, LinkInv, ClientInv, Linked, TypeOK
    <2> QED BY <2>1, <2>2, <2>3 DEF LinkInv
  <1>16. ASSUME NEW n \in Node, NEW m \in Node, SlaveOf(n, m)
        PROVE  TypeOK' /\ LinkInv'
    <2>1. client' = Alone(n, {})
      BY <1>16 DEF SlaveOf
    <2>2. \A k, s \in Node : client'[k][s] = IF n \in {k, s} THEN None ELSE client[k][s]
      BY <2>1 DEF Alone, TypeOK
    <2>3. client' \in [Node -> [Node -> Client \cup {None}]]
      BY <2>1 DEF Alone, TypeOK
    <2>4. TypeOK'
      BY <1>16, <2>3 DEF SlaveOf, Beyond, TypeOK
    <2>5. RunInv' /\ UpstreamInv'
      BY <1>16 DEF SlaveOf, LinkInv, RunInv, UpstreamInv, TypeOK
    <2>6. ClientInv'
      BY <1>16, <2>2 DEF SlaveOf, LinkInv, ClientInv, Linked, TypeOK
    <2> QED BY <2>4, <2>5, <2>6 DEF LinkInv
  <1>17. CASE UNCHANGED vars
    BY <1>17 DEF vars, TypeOK, LinkInv, RunInv, UpstreamInv, ClientInv, Linked
  <1> QED BY <1>1, <1>2, <1>3, <1>4, <1>5, <1>6, <1>7, <1>8, <1>9, <1>10, <1>11, <1>12, <1>13,
            <1>14, <1>15, <1>16, <1>17
         DEF Next

------------------------------------------------------------------------------
(* What playing items does.                                                 *)

\* The recursive function is what its definition says: it exists, by induction on how
\* many items it goes through.
LEMMA PlayedDef ==
    ASSUME NEW items \in Seq(Item), NEW log, NEW db
    PROVE  Played(items, log, db) =
             [k \in 0..Len(items) |-> IF k = 0 THEN [log |-> log, db |-> db]
                ELSE Execute(Played(items, log, db)[k-1], items[k])]
  <1> DEFINE start == [log |-> log, db |-> db]
             IsPlay(p, n) == p = [k \in 0..n |-> IF k = 0 THEN start
                                                 ELSE Execute(p[k-1], items[k])]
             T == {n \in Nat : \E p : IsPlay(p, n)}
  <1> HIDE DEF start
  <1>1. 0 \in T
    <2> DEFINE p == [k \in 0..0 |-> start]
    <2>1. IsPlay(p, 0)
      OBVIOUS
    <2> QED BY <2>1
  <1>2. ASSUME NEW n \in Nat, n \in T
        PROVE  n + 1 \in T
    <2>1. PICK p : IsPlay(p, n)
      BY <1>2
    <2> DEFINE q == [k \in 0..n+1 |-> IF k <= n THEN p[k] ELSE Execute(p[n], items[n+1])]
    <2>2. \A k \in 0..n : q[k] = p[k]
      OBVIOUS
    <2>3. IsPlay(q, n + 1)
      <3>1. ASSUME NEW k \in 0..n+1
            PROVE  q[k] = IF k = 0 THEN start ELSE Execute(q[k-1], items[k])
        <4>1. CASE k = n + 1
          <5>1. q[k] = Execute(p[n], items[n+1]) /\ k - 1 = n /\ k # 0
            BY <4>1
          <5>2. q[k-1] = p[n]
            BY <2>2, <5>1
          <5> QED BY <4>1, <5>1, <5>2
        <4>2. CASE k = 0
          BY <2>1, <2>2, <4>2
        <4>3. CASE k \in 1..n
          <5>1. q[k] = p[k] /\ q[k-1] = p[k-1] /\ k # 0
            BY <2>2, <4>3
          <5>2. p[k] = Execute(p[k-1], items[k])
            BY <2>1, <4>3
          <5> QED BY <5>1, <5>2
        <4> QED BY <4>1, <4>2, <4>3
      <3> HIDE DEF q
      <3>2. q = [k \in 0..n+1 |-> q[k]]
        BY DEF q
      <3> QED BY <3>1, <3>2
    <2> HIDE DEF q, IsPlay
    <2>4. n + 1 \in Nat /\ \E r : IsPlay(r, n + 1)
      BY <2>3
    <2> QED BY <2>4
  <1>3. Len(items) \in T
    <2> HIDE DEF T
    <2> QED BY <1>1, <1>2, NatInductionSet
  <1>4. \E p : IsPlay(p, Len(items))
    BY <1>3
  <1> QED BY <1>4 DEF Played, start

\* An item leads from writes and a database to writes and a database.
LEMMA ExecuteType ==
    ASSUME NEW acc \in [log : Log, db : DB], NEW i \in Item
    PROVE  Execute(acc, i) \in [log : Log, db : DB]
  <1>1. CASE i.op = "select"
    BY <1>1 DEF Execute, Item
  <1>2. CASE i.op # "select"
    <2>1. i.arg \in Nat
      BY <1>2 DEF Item
    <2>2. Append(acc.log, <<acc.db, i.arg>>) \in Log
      BY <2>1 DEF Log
    <2> QED BY <1>2, <2>2 DEF Execute
  <1> QED BY <1>1, <1>2

\* Before the first item.
LEMMA PlayedFirst ==
    ASSUME NEW items \in Seq(Item), NEW log, NEW db
    PROVE  Played(items, log, db)[0] = [log |-> log, db |-> db]
  <1> DEFINE p == Played(items, log, db)
  <1>1. p = [k \in 0..Len(items) |-> IF k = 0 THEN [log |-> log, db |-> db]
                                     ELSE Execute(p[k-1], items[k])]
    BY PlayedDef
  <1>2. 0 \in 0..Len(items)
    OBVIOUS
  <1> HIDE DEF p
  <1>3. p[0] = [log |-> log, db |-> db]
    BY <1>1, <1>2
  <1> QED BY <1>3 DEF p

\* From one item to the next.
LEMMA PlayedNext ==
    ASSUME NEW items \in Seq(Item), NEW log, NEW db, NEW k \in 1..Len(items)
    PROVE  Played(items, log, db)[k] = Execute(Played(items, log, db)[k-1], items[k])
  <1> DEFINE p == Played(items, log, db)
  <1>1. p = [j \in 0..Len(items) |-> IF j = 0 THEN [log |-> log, db |-> db]
                                     ELSE Execute(p[j-1], items[j])]
    BY PlayedDef
  <1>2. k \in 0..Len(items) /\ k # 0
    OBVIOUS
  <1> HIDE DEF p
  <1>3. p[k] = Execute(p[k-1], items[k])
    BY <1>1, <1>2
  <1> QED BY <1>3 DEF p

\* Every prefix leads to writes and a database.
LEMMA PlayedType ==
    ASSUME NEW items \in Seq(Item), NEW log \in Log, NEW db \in DB, NEW k \in 0..Len(items)
    PROVE  Played(items, log, db)[k] \in [log : Log, db : DB]
  <1> DEFINE p == Played(items, log, db)
             T == {n \in Nat : n <= Len(items) => p[n] \in [log : Log, db : DB]}
  <1>1. p[0] = [log |-> log, db |-> db] /\ \A n \in 1..Len(items) : p[n] = Execute(p[n-1], items[n])
    BY PlayedFirst, PlayedNext
  <1> HIDE DEF p
  <1>2. 0 \in T
    BY <1>1
  <1>3. ASSUME NEW n \in Nat, n \in T
        PROVE  n + 1 \in T
    <2> SUFFICES ASSUME n + 1 <= Len(items) PROVE p[n+1] \in [log : Log, db : DB]
      OBVIOUS
    <2>1. p[n] \in [log : Log, db : DB] /\ n + 1 \in 1..Len(items)
      BY <1>3
    <2>2. p[n+1] = Execute(p[n], items[n+1]) /\ items[n+1] \in Item
      BY <1>1, <2>1
    <2> QED BY <2>1, <2>2, ExecuteType
  <1>4. \A n \in Nat : n \in T
    <2> HIDE DEF T
    <2> QED BY <1>2, <1>3, NatInductionSet
  <1> QED BY <1>4 DEF p

\* The items that are appended change nothing of what the prefixes do.
LEMMA PlayedPrefix ==
    ASSUME NEW items \in Seq(Item), NEW more \in Seq(Item), NEW log, NEW db,
           NEW k \in 0..Len(items)
    PROVE  Played(items \o more, log, db)[k] = Played(items, log, db)[k]
  <1> DEFINE p == Played(items, log, db)
             q == Played(items \o more, log, db)
             T == {n \in Nat : n <= Len(items) => q[n] = p[n]}
  <1>1. items \o more \in Seq(Item) /\ Len(items \o more) = Len(items) + Len(more)
    <2> HIDE DEF Item
    <2> QED OBVIOUS
  <1>2. /\ p[0] = [log |-> log, db |-> db]
        /\ \A n \in 1..Len(items) : p[n] = Execute(p[n-1], items[n])
    <2>1. p[0] = [log |-> log, db |-> db]
      BY PlayedFirst
    <2>2. \A n \in 1..Len(items) : p[n] = Execute(p[n-1], items[n])
      BY PlayedNext
    <2> QED BY <2>1, <2>2
  <1>3. q[0] = [log |-> log, db |-> db]
        /\ \A n \in 1..Len(items \o more) : q[n] = Execute(q[n-1], (items \o more)[n])
    <2>1. q[0] = [log |-> log, db |-> db]
      BY <1>1, PlayedFirst
    <2>2. \A n \in 1..Len(items \o more) : q[n] = Execute(q[n-1], (items \o more)[n])
      BY <1>1, PlayedNext
    <2> QED BY <2>1, <2>2
  <1>4. \A n \in 1..Len(items) : (items \o more)[n] = items[n]
    OBVIOUS
  <1> HIDE DEF p, q
  <1>5. 0 \in T
    BY <1>2, <1>3
  <1>6. ASSUME NEW n \in Nat, n \in T
        PROVE  n + 1 \in T
    <2> SUFFICES ASSUME n + 1 <= Len(items) PROVE q[n+1] = p[n+1]
      OBVIOUS
    <2>1. q[n] = p[n] /\ n + 1 \in 1..Len(items) /\ n + 1 \in 1..Len(items \o more)
          /\ (n + 1) - 1 = n
      BY <1>1, <1>6
    <2> QED BY <1>2, <1>3, <1>4, <2>1
  <1>7. \A n \in Nat : n \in T
    <2> HIDE DEF T
    <2> QED BY <1>5, <1>6, NatInductionSet
  <1> QED BY <1>7 DEF p, q

\* The first item can be executed before the others are played.
LEMMA PlayedTail ==
    ASSUME NEW items \in Seq(Item), items # <<>>, NEW log, NEW db, NEW log1, NEW db1,
           Execute([log |-> log, db |-> db], Head(items)) = [log |-> log1, db |-> db1],
           NEW k \in 0..Len(Tail(items))
    PROVE  Played(Tail(items), log1, db1)[k] = Played(items, log, db)[k+1]
  <1> DEFINE p == Played(items, log, db)
             q == Played(Tail(items), log1, db1)
             T == {n \in Nat : n <= Len(Tail(items)) => q[n] = p[n+1]}
  <1>1. Tail(items) \in Seq(Item) /\ Len(Tail(items)) = Len(items) - 1 /\ Len(items) >= 1
    OBVIOUS
  <1>2. /\ p[0] = [log |-> log, db |-> db]
        /\ \A n \in 1..Len(items) : p[n] = Execute(p[n-1], items[n])
    <2>1. p[0] = [log |-> log, db |-> db]
      BY PlayedFirst
    <2>2. \A n \in 1..Len(items) : p[n] = Execute(p[n-1], items[n])
      BY PlayedNext
    <2> QED BY <2>1, <2>2
  <1>3. q[0] = [log |-> log1, db |-> db1]
        /\ \A n \in 1..Len(Tail(items)) : q[n] = Execute(q[n-1], Tail(items)[n])
    <2>1. q[0] = [log |-> log1, db |-> db1]
      <3>1. PICK t \in Seq(Item) : t = Tail(items)
        BY <1>1
      <3>2. Played(t, log1, db1)[0] = [log |-> log1, db |-> db1]
        BY PlayedFirst
      <3> QED BY <3>1, <3>2
    <2>2. \A n \in 1..Len(Tail(items)) : q[n] = Execute(q[n-1], Tail(items)[n])
      BY <1>1, PlayedNext
    <2> QED BY <2>1, <2>2
  <1>4. /\ Head(items) = items[1]
        /\ \A n \in 1..Len(Tail(items)) : Tail(items)[n] = items[n+1]
    OBVIOUS
  <1> HIDE DEF p, q
  <1>5. 0 \in T
    <2>1. p[1] = Execute(p[0], items[1])
      BY <1>1, <1>2
    <2> QED BY <1>2, <1>3, <1>4, <2>1
  <1>6. ASSUME NEW n \in Nat, n \in T
        PROVE  n + 1 \in T
    <2> SUFFICES ASSUME n + 1 <= Len(Tail(items)) PROVE q[n+1] = p[n+2]
      OBVIOUS
    <2>1. /\ q[n] = p[n+1] /\ n + 1 \in 1..Len(Tail(items)) /\ n + 2 \in 1..Len(items)
          /\ (n + 1) - 1 = n /\ (n + 2) - 1 = n + 1 /\ (n + 1) + 1 = n + 2
      BY <1>1, <1>6
    <2>2. q[n+1] = Execute(q[n], Tail(items)[n+1])
      BY <1>3, <2>1
    <2>3. p[n+2] = Execute(p[n+1], items[n+2])
      BY <1>2, <2>1
    <2>4. Tail(items)[n+1] = items[n+2]
      BY <1>4, <2>1
    <2> QED BY <2>1, <2>2, <2>3, <2>4
  <1>7. \A n \in Nat : n \in T
    <2> HIDE DEF T
    <2> QED BY <1>5, <1>6, NatInductionSet
  <1> QED BY <1>7 DEF p, q

------------------------------------------------------------------------------
(* The backlog and the buffers as sequences.                                *)

\* Sequences of items, appended.
LEMMA ConcatType ==
    ASSUME NEW items \in Seq(Item), NEW more \in Seq(Item)
    PROVE  /\ items \o more \in Seq(Item)
           /\ Len(items \o more) = Len(items) + Len(more)
           /\ Len(items) \in Nat /\ Len(more) \in Nat
           /\ \A i \in 1..Len(items) : (items \o more)[i] = items[i]
           /\ \A i \in 1..Len(more) : (items \o more)[Len(items) + i] = more[i]
  <1> HIDE DEF Item
  <1> QED OBVIOUS

\* The elements of LastN.
LEMMA LastNFacts ==
    ASSUME NEW seq \in Seq(Item), NEW n \in 0..Len(seq)
    PROVE  /\ LastN(seq, n) \in Seq(Item) /\ Len(LastN(seq, n)) = n
           /\ \A i \in 1..n : LastN(seq, n)[i] = seq[Len(seq) - n + i]
  <1> HIDE DEF Item
  <1> QED BY DEF LastN

\* The backlog keeps the end of what it is fed.
LEMMA KeptFacts ==
    ASSUME NEW seq \in Seq(Item)
    PROVE  /\ Kept(seq) \in Seq(Item) /\ Len(Kept(seq)) <= Len(seq)
           /\ \A i \in 1..Len(Kept(seq)) :
                 Kept(seq)[Len(Kept(seq)) + 1 - i] = seq[Len(seq) + 1 - i]
  <1> USE ReplicationAssumption DEF ReplicationAssumption
  <1> HIDE DEF Item
  <1>1. CASE Len(seq) <= BacklogSize
    BY <1>1 DEF Kept
  <1>2. CASE Len(seq) > BacklogSize
    <2>1. Kept(seq) = SubSeq(seq, Len(seq) - BacklogSize + 1, Len(seq))
      BY <1>2 DEF Kept
    <2>2. /\ Kept(seq) \in Seq(Item) /\ Len(Kept(seq)) = BacklogSize
          /\ \A i \in 1..BacklogSize : Kept(seq)[i] = seq[Len(seq) - BacklogSize + i]
      BY <1>2, <2>1
    <2>3. ASSUME NEW i \in 1..BacklogSize
          PROVE  Kept(seq)[BacklogSize + 1 - i] = seq[Len(seq) + 1 - i]
      <3>1. BacklogSize + 1 - i \in 1..BacklogSize
        OBVIOUS
      <3>2. Len(seq) - BacklogSize + (BacklogSize + 1 - i) = Len(seq) + 1 - i
        BY <1>2
      <3> QED BY <2>2, <3>1, <3>2
    <2> QED BY <1>2, <2>2, <2>3
  <1> QED BY <1>1, <1>2

\* The stream and its copy are fed the same items.
LEMMA EndsFed ==
    ASSUME NEW bl \in Seq(Item), NEW buf \in Seq(Item), NEW items \in Seq(Item),
           Ends(bl, buf)
    PROVE  Ends(Kept(bl \o items), buf \o items)
  <1> DEFINE seq == bl \o items
  <1>1. /\ seq \in Seq(Item) /\ Len(seq) = Len(bl) + Len(items)
        /\ \A i \in 1..Len(bl) : seq[i] = bl[i]
        /\ \A i \in 1..Len(items) : seq[Len(bl) + i] = items[i]
    BY ConcatType
  <1>2. /\ buf \o items \in Seq(Item) /\ Len(buf \o items) = Len(buf) + Len(items)
        /\ \A i \in 1..Len(buf) : (buf \o items)[i] = buf[i]
        /\ \A i \in 1..Len(items) : (buf \o items)[Len(buf) + i] = items[i]
    BY ConcatType
  <1> HIDE DEF seq
  <1>3. /\ Kept(seq) \in Seq(Item) /\ Len(Kept(seq)) <= Len(seq)
        /\ \A i \in 1..Len(Kept(seq)) :
              Kept(seq)[Len(Kept(seq)) + 1 - i] = seq[Len(seq) + 1 - i]
    BY <1>1, KeptFacts
  <1>4. Len(bl) \in Nat /\ Len(buf) \in Nat /\ Len(items) \in Nat /\ Len(Kept(seq)) \in Nat
    <2> HIDE DEF Item
    <2> QED BY <1>3
  <1>5. ASSUME NEW i \in 1..Len(buf \o items), i <= Len(Kept(seq))
        PROVE  Kept(seq)[Len(Kept(seq)) + 1 - i] = (buf \o items)[Len(buf \o items) + 1 - i]
    <2>4. i \in Nat /\ i >= 1
      BY <1>2, <1>4
    <2>1. Kept(seq)[Len(Kept(seq)) + 1 - i] = seq[Len(seq) + 1 - i]
      BY <1>3, <1>4, <1>5
    <2>2. CASE i <= Len(items)
      <3> DEFINE j == Len(items) + 1 - i
      <3>2. j \in 1..Len(items)
        BY <1>4, <2>2, <2>4
      <3>3. Len(seq) + 1 - i = Len(bl) + j
        BY <1>1, <1>4, <2>4
      <3>1. Len(buf \o items) + 1 - i = Len(buf) + j
        BY <1>2, <1>4, <2>4
      <3> HIDE DEF j
      <3> QED BY <1>1, <1>2, <2>1, <3>1, <3>2, <3>3
    <2>3. CASE i > Len(items)
      <3> DEFINE j == i - Len(items)
      <3>1. j \in 1..Len(buf) /\ j <= Len(bl)
        BY <1>1, <1>2, <1>3, <1>4, <1>5, <2>3
      <3>2. /\ Len(seq) + 1 - i = Len(bl) + 1 - j
            /\ Len(buf \o items) + 1 - i = Len(buf) + 1 - j
            /\ Len(bl) + 1 - j \in 1..Len(bl) /\ Len(buf) + 1 - j \in 1..Len(buf)
        BY <1>1, <1>2, <1>4, <2>3, <3>1
      <3> HIDE DEF j
      <3>3. bl[Len(bl) + 1 - j] = buf[Len(buf) + 1 - j]
        BY <3>1 DEF Ends
      <3> QED BY <1>1, <1>2, <2>1, <3>2, <3>3
    <2> QED BY <1>4, <2>2, <2>3, <2>4
  <1> QED BY <1>5 DEF Ends, seq

\* A slave that has read an item.
LEMMA EndsTail ==
    ASSUME NEW bl \in Seq(Item), NEW buf \in Seq(Item), buf # <<>>, Ends(bl, buf)
    PROVE  Ends(bl, Tail(buf))
  <1> HIDE DEF Item
  <1>1. /\ Len(Tail(buf)) = Len(buf) - 1 /\ Len(buf) \in Nat \ {0} /\ Len(bl) \in Nat
        /\ \A i \in 1..Len(Tail(buf)) : Tail(buf)[i] = buf[i + 1]
    OBVIOUS
  <1>2. ASSUME NEW i \in 1..Len(Tail(buf)), i <= Len(bl)
        PROVE  bl[Len(bl) + 1 - i] = Tail(buf)[Len(Tail(buf)) + 1 - i]
    <2>1. i \in 1..Len(buf) /\ Len(Tail(buf)) + 1 - i \in 1..Len(Tail(buf))
          /\ (Len(Tail(buf)) + 1 - i) + 1 = Len(buf) + 1 - i
      BY <1>1
    <2>2. bl[Len(bl) + 1 - i] = buf[Len(buf) + 1 - i]
      BY <1>2, <2>1 DEF Ends
    <2> QED BY <1>1, <2>1, <2>2
  <1> QED BY <1>2 DEF Ends

\* A backlog that goes back far enough has all that is in the buffer.
LEMMA EndsAll ==
    ASSUME NEW bl \in Seq(Item), NEW buf \in Seq(Item), Ends(bl, buf), Len(buf) <= Len(bl)
    PROVE  LastN(bl, Len(buf)) = buf
  <1>1. Len(buf) \in Nat /\ Len(bl) \in Nat
    OBVIOUS
  <1>2. /\ LastN(bl, Len(buf)) \in Seq(Item) /\ Len(LastN(bl, Len(buf))) = Len(buf)
        /\ \A i \in 1..Len(buf) : LastN(bl, Len(buf))[i] = bl[Len(bl) - Len(buf) + i]
    BY <1>1, LastNFacts
  <1>3. ASSUME NEW i \in 1..Len(buf)
        PROVE  LastN(bl, Len(buf))[i] = buf[i]
    <2> DEFINE j == Len(buf) + 1 - i
    <2>1. j \in 1..Len(buf) /\ j <= Len(bl) /\ Len(buf) + 1 - j = i
          /\ Len(bl) + 1 - j = Len(bl) - Len(buf) + i
      BY <1>1
    <2> HIDE DEF j
    <2>2. bl[Len(bl) + 1 - j] = buf[Len(buf) + 1 - j]
      BY <2>1 DEF Ends
    <2> QED BY <1>2, <2>1, <2>2
  <1> HIDE DEF LastN, Item
  <1> QED BY <1>2, <1>3

\* A part of the backlog ends like the backlog.
LEMMA EndsLastN ==
    ASSUME NEW bl \in Seq(Item), NEW n \in 0..Len(bl)
    PROVE  Ends(bl, LastN(bl, n))
  <1>1. Len(bl) \in Nat
    OBVIOUS
  <1>2. /\ Len(LastN(bl, n)) = n
        /\ \A i \in 1..n : LastN(bl, n)[i] = bl[Len(bl) - n + i]
    BY LastNFacts
  <1>3. ASSUME NEW i \in 1..n
        PROVE  bl[Len(bl) + 1 - i] = LastN(bl, n)[n + 1 - i]
    <2>1. n + 1 - i \in 1..n /\ Len(bl) - n + (n + 1 - i) = Len(bl) + 1 - i
      BY <1>1
    <2> QED BY <1>2, <2>1
  <1> QED BY <1>2, <1>3 DEF Ends

\* What was missed, and the new items, are what is missed now.
LEMMA LastNFed ==
    ASSUME NEW bl \in Seq(Item), NEW items \in Seq(Item), NEW n \in Nat,
           n + Len(items) <= Len(Kept(bl \o items))
    PROVE  /\ n <= Len(bl)
           /\ LastN(Kept(bl \o items), n + Len(items)) = LastN(bl, n) \o items
  <1> DEFINE more == LastN(bl, n)
             kept == Kept(bl \o items)
  <1>1. bl \o items \in Seq(Item) /\ Len(bl \o items) = Len(bl) + Len(items)
        /\ Len(bl) \in Nat /\ Len(items) \in Nat
    BY ConcatType
  <1>2. kept \in Seq(Item) /\ Len(kept) <= Len(bl) + Len(items)
    BY <1>1, KeptFacts
  <1>3. n <= Len(bl)
    BY <1>1, <1>2
  <1>4. more \in Seq(Item) /\ Len(more) = n /\ Ends(bl, more)
    BY <1>1, <1>3, LastNFacts, EndsLastN
  <1> HIDE DEF more
  <1>5. Ends(kept, more \o items) /\ more \o items \in Seq(Item)
        /\ Len(more \o items) = n + Len(items)
    BY <1>4, EndsFed, ConcatType
  <1> HIDE DEF kept
  <1>6. LastN(kept, n + Len(items)) = more \o items
    <2>1. Len(more \o items) <= Len(kept)
      BY <1>5 DEF kept
    <2> QED BY <1>2, <1>5, <2>1, EndsAll
  <1> QED BY <1>3, <1>6 DEF more, kept

------------------------------------------------------------------------------
(* What the items lead to and what they bring.                              *)

\* The two kinds of items.
LEMMA ExecuteItem ==
    ASSUME NEW acc \in [log : Log, db : DB], NEW d \in DB, NEW w \in Nat
    PROVE  /\ Execute(acc, Select(d)) = [log |-> acc.log, db |-> d]
           /\ Execute(acc, Set(w)) = [log |-> Append(acc.log, <<acc.db, w>>), db |-> acc.db]
  BY DEF Execute, Select, Set

\* The items that are appended are played after the others.
LEMMA PlayedMore ==
    ASSUME NEW items \in Seq(Item), NEW more \in Seq(Item), NEW log, NEW db,
           NEW i \in 1..Len(more)
    PROVE  /\ Len(items) + i \in 0..Len(items \o more)
           /\ Played(items \o more, log, db)[Len(items) + i] =
                 Execute(Played(items \o more, log, db)[Len(items) + (i - 1)], more[i])
  <1> DEFINE all == items \o more
             k   == Len(items) + i
  <1>1. /\ all \in Seq(Item) /\ Len(all) = Len(items) + Len(more)
        /\ Len(items) \in Nat /\ Len(more) \in Nat /\ all[Len(items) + i] = more[i]
    BY ConcatType
  <1>2. k \in 1..Len(all) /\ k - 1 = Len(items) + (i - 1) /\ k \in 0..Len(all)
    BY <1>1
  <1> HIDE DEF all, k
  <1>3. Played(all, log, db)[k] = Execute(Played(all, log, db)[k-1], all[k])
    BY <1>1, <1>2, PlayedNext
  <1> QED BY <1>1, <1>2, <1>3 DEF all, k

\* A write that is followed: the SELECT it needs and the write itself.
LEMMA LeadsFed ==
    ASSUME NEW items \in Seq(Item), NEW log \in Log, NEW db \in DB, NEW dest,
           NEW sel \in DB \cup {None}, NEW d \in DB, NEW w \in Nat,
           Leads(items, log, db, dest, sel)
    PROVE  Leads(items \o ((IF sel = d THEN <<>> ELSE <<Select(d)>>) \o <<Set(w)>>),
                 log, db, Append(dest, <<d, w>>), d)
  <1> DEFINE n == Len(items)
             r == Played(items, log, db)[n]
  <1>1. n \in 0..n /\ n + 0 = n
    OBVIOUS
  <1>2. r \in [log : Log, db : DB] /\ r.log = dest /\ (sel # None => r.db = sel)
    BY <1>1, PlayedType DEF Leads
  <1>3. ASSUME NEW more \in Seq(Item)
        PROVE  Played(items \o more, log, db)[n + 0] = r
    BY <1>1, PlayedPrefix
  <1>6. <<Set(w)>> \in Seq(Item) /\ <<Select(d)>> \o <<Set(w)>> \in Seq(Item)
    <2>1. Set(w) \in Item /\ Select(d) \in Item
      BY SetType, SelectType
    <2> HIDE DEF Item
    <2> QED BY <2>1
  <1>4. CASE sel = d
    <2>1. PICK more \in Seq(Item) : more = <<Set(w)>>
      BY <1>6
    <2> DEFINE q == Played(items \o more, log, db)
    <2>2. Len(more) = 1 /\ more[1] = Set(w) /\ Len(items \o more) = n + 1
      BY <2>1, ConcatType
    <2>3. q[n + 0] = r
      BY <1>3
    <2>4. q[n + 1] = Execute(q[n + (1 - 1)], more[1])
      BY <2>2, PlayedMore
    <2> HIDE DEF q, r, n
    <2>5. q[n + 1] = [log |-> Append(dest, <<d, w>>), db |-> d]
      <3>1. r.log = dest /\ r.db = d
        BY <1>2, <1>4, NoneIsNoValue
      <3>2. Execute(r, Set(w)) = [log |-> Append(r.log, <<r.db, w>>), db |-> r.db]
        BY <1>2, ExecuteItem
      <3>3. Execute(r, Set(w)) = [log |-> Append(dest, <<d, w>>), db |-> d]
        BY <3>1, <3>2, Zenon
      <3>4. q[n + 1] = Execute(r, Set(w))
        BY <2>2, <2>3, <2>4
      <3> QED BY <3>3, <3>4
    <2>6. Leads(items \o more, log, db, Append(dest, <<d, w>>), d)
      BY <2>2, <2>5 DEF Leads, q
    <2>7. (IF sel = d THEN <<>> ELSE <<Select(d)>>) \o <<Set(w)>> = more
      BY <1>4, <2>1
    <2> QED BY <2>6, <2>7
  <1>5. CASE sel # d
    <2>1. PICK more \in Seq(Item) : more = <<Select(d)>> \o <<Set(w)>>
      BY <1>6
    <2> DEFINE q == Played(items \o more, log, db)
    <2>2. Len(more) = 2 /\ more[1] = Select(d) /\ more[2] = Set(w)
          /\ Len(items \o more) = n + 2
      BY <2>1, ConcatType
    <2>3. q[n + 0] = r
      BY <1>3
    <2>4. q[n + 1] = Execute(q[n + (1 - 1)], more[1])
          /\ q[n + 2] = Execute(q[n + (2 - 1)], more[2])
      BY <2>2, PlayedMore
    <2> HIDE DEF q, r, n
    <2>5. q[n + 1] = [log |-> dest, db |-> d] /\ dest \in Log
      BY <1>2, <2>2, <2>3, <2>4, ExecuteItem
    <2>6. [log |-> dest, db |-> d] \in [log : Log, db : DB]
      BY <2>5
    <2>7. Execute([log |-> dest, db |-> d], Set(w)) = [log |-> Append(dest, <<d, w>>), db |-> d]
      BY <2>6, ExecuteItem
    <2>8. q[n + 2] = [log |-> Append(dest, <<d, w>>), db |-> d]
      BY <2>2, <2>4, <2>5, <2>7
    <2>9. Leads(items \o more, log, db, Append(dest, <<d, w>>), d)
      BY <2>2, <2>8 DEF Leads, q
    <2>10. (IF sel = d THEN <<>> ELSE <<Select(d)>>) \o <<Set(w)>> = more
      BY <1>5, <2>1
    <2> QED BY <2>9, <2>10
  <1> QED BY <1>4, <1>5

\* Items lead to the same stores whatever database the sender will select next.
LEMMA LeadsForgotten ==
    ASSUME NEW items, NEW log, NEW db, NEW dest, NEW sel, Leads(items, log, db, dest, sel)
    PROVE  Leads(items, log, db, dest, None)
  BY DEF Leads

\* The rest leads there from where the first item leads.
LEMMA LeadsTail ==
    ASSUME NEW items \in Seq(Item), items # <<>>, NEW log, NEW db, NEW log1, NEW db1,
           Execute([log |-> log, db |-> db], Head(items)) = [log |-> log1, db |-> db1],
           NEW dest, NEW sel, Leads(items, log, db, dest, sel)
    PROVE  Leads(Tail(items), log1, db1, dest, sel)
  <1> DEFINE k == Len(Tail(items))
  <1>1. k \in 0..Len(Tail(items)) /\ k + 1 = Len(items)
    OBVIOUS
  <1> HIDE DEF k
  <1>2. Played(Tail(items), log1, db1)[k] = Played(items, log, db)[k + 1]
    BY <1>1, PlayedTail
  <1> QED BY <1>1, <1>2 DEF Leads, k

\* A slave that is where its master is needs no items.
LEMMA LeadsNothing ==
    ASSUME NEW log, NEW db, NEW sel, sel \in {db, None}
    PROVE  Leads(<<>>, log, db, log, sel)
  <1>1. PICK items \in Seq(Item) : items = <<>>
    BY EmptySeqs
  <1>2. Played(items, log, db)[0] = [log |-> log, db |-> db] /\ Len(items) = 0
    <2>1. Played(items, log, db)[0] = [log |-> log, db |-> db]
      BY PlayedFirst, Zenon
    <2> QED BY <1>1, <2>1
  <1> QED BY <1>1, <1>2 DEF Leads

\* A slave that needs no items is where its master is.
LEMMA LeadsByNothing ==
    ASSUME NEW log, NEW db, NEW dest, NEW sel, Leads(<<>>, log, db, dest, sel)
    PROVE  dest = log
  <1>1. PICK items \in Seq(Item) : items = <<>>
    BY EmptySeqs
  <1>2. Played(items, log, db)[0] = [log |-> log, db |-> db] /\ Len(items) = 0
    <2>1. Played(items, log, db)[0] = [log |-> log, db |-> db]
      BY PlayedFirst, Zenon
    <2> QED BY <1>1, <2>1
  <1> QED BY <1>1, <1>2 DEF Leads

\* SELECTs change nothing of what is stored; the last one counts.
LEMMA LeadsSelects ==
    ASSUME NEW items \in Seq(Item), \A i \in 1..Len(items) : items[i].op = "select",
           NEW log \in Log, NEW db \in DB, NEW sel \in DB \cup {None},
           sel # None => items # <<>> /\ items[Len(items)].arg = sel
    PROVE  Leads(items, log, db, log, sel)
  <1> DEFINE p == Played(items, log, db)
             T == {n \in Nat : n <= Len(items) =>
                      p[n].log = log /\ (n # 0 => p[n].db = items[n].arg)}
  <1>1. p[0] = [log |-> log, db |-> db]
    BY PlayedFirst
  <1>2. \A n \in 1..Len(items) : p[n] = Execute(p[n-1], items[n])
    BY PlayedNext
  <1>3. \A n \in 0..Len(items) : p[n] \in [log : Log, db : DB]
    BY PlayedType
  <1> HIDE DEF p
  <1>4. 0 \in T
    BY <1>1
  <1>5. ASSUME NEW n \in Nat, n \in T
        PROVE  n + 1 \in T
    <2> SUFFICES ASSUME n + 1 <= Len(items)
                 PROVE  p[n+1].log = log /\ p[n+1].db = items[n+1].arg
      OBVIOUS
    <2>1. /\ n + 1 \in 1..Len(items) /\ (n + 1) - 1 = n /\ n \in 0..Len(items)
          /\ p[n].log = log
      BY <1>5
    <2>2. p[n+1] = Execute(p[n], items[n+1]) /\ items[n+1].op = "select"
      BY <1>2, <2>1
    <2>3. p[n+1] = [p[n] EXCEPT !.db = items[n+1].arg]
      BY <2>2 DEF Execute
    <2>4. p[n] \in [log : Log, db : DB]
      BY <1>3, <2>1
    <2> QED BY <2>1, <2>3, <2>4
  <1>6. \A n \in Nat : n \in T
    <2> HIDE DEF T
    <2> QED BY <1>4, <1>5, NatInductionSet
  <1>7. Len(items) \in Nat /\ (items # <<>> => Len(items) # 0)
    OBVIOUS
  <1>8. p[Len(items)].log = log /\ (Len(items) # 0 => p[Len(items)].db = items[Len(items)].arg)
    BY <1>6, <1>7
  <1> QED BY <1>7, <1>8 DEF Leads, p

\* The writes a server stores, one more of them.
LEMMA ToSetAppend ==
    ASSUME NEW log \in Log, NEW entry \in DB \X Nat
    PROVE  ToSet(Append(log, entry)) = ToSet(log) \cup {entry}
  <1>1. /\ log \in Seq(DB \X Nat) /\ Len(log) \in Nat
    BY DEF Log
  <1>2. /\ Len(Append(log, entry)) = Len(log) + 1
        /\ \A i \in 1..Len(log) : Append(log, entry)[i] = log[i]
        /\ Append(log, entry)[Len(log) + 1] = entry
        /\ DOMAIN Append(log, entry) = 1..Len(log) + 1 /\ DOMAIN log = 1..Len(log)
    BY <1>1
  <1>3. 1..Len(log) + 1 = (1..Len(log)) \cup {Len(log) + 1}
    BY <1>1
  <1> QED BY <1>2, <1>3 DEF ToSet

\* What a prefix of the items has stored stays.
LEMMA PlayedGrows ==
    ASSUME NEW items \in Seq(Item), NEW log \in Log, NEW db \in DB,
           NEW k \in 0..Len(items), NEW j \in k..Len(items), NEW entry,
           entry \in ToSet(Played(items, log, db)[k].log)
    PROVE  entry \in ToSet(Played(items, log, db)[j].log)
  <1> DEFINE p == Played(items, log, db)
             T == {n \in Nat : k + n <= Len(items) => entry \in ToSet(p[k + n].log)}
  <1>1. \A n \in 1..Len(items) : p[n] = Execute(p[n-1], items[n])
    BY PlayedNext
  <1>2. \A n \in 0..Len(items) : p[n] \in [log : Log, db : DB]
    BY PlayedType
  <1>3. entry \in ToSet(p[k].log)
    OBVIOUS
  <1> HIDE DEF p
  <1>4. 0 \in T
    BY <1>3
  <1>5. ASSUME NEW n \in Nat, n \in T
        PROVE  n + 1 \in T
    <2> SUFFICES ASSUME k + (n + 1) <= Len(items) PROVE entry \in ToSet(p[k + (n+1)].log)
      OBVIOUS
    <2> DEFINE i == k + n
    <2>1. /\ i \in 0..Len(items) /\ i + 1 \in 1..Len(items) /\ k + (n + 1) = i + 1
          /\ (i + 1) - 1 = i /\ entry \in ToSet(p[i].log)
      BY <1>5
    <2> HIDE DEF i
    <2>2. p[i+1] = Execute(p[i], items[i+1]) /\ items[i+1] \in Item
          /\ p[i] \in [log : Log, db : DB]
      BY <1>1, <1>2, <2>1
    <2>3. CASE items[i+1].op = "select"
      <3>1. p[i+1].log = p[i].log
        BY <2>2, <2>3 DEF Execute
      <3> QED BY <2>1, <3>1
    <2>4. CASE items[i+1].op # "select"
      <3>1. items[i+1].arg \in Nat
        BY <2>2, <2>4, ItemFields
      <3>2. p[i+1].log = Append(p[i].log, <<p[i].db, items[i+1].arg>>)
        BY <2>2, <2>4 DEF Execute
      <3>3. <<p[i].db, items[i+1].arg>> \in DB \X Nat /\ p[i].log \in Log
        BY <2>2, <3>1
      <3>4. ToSet(p[i+1].log) = ToSet(p[i].log) \cup {<<p[i].db, items[i+1].arg>>}
        BY <3>2, <3>3, ToSetAppend
      <3> QED BY <2>1, <3>4
    <2> QED BY <2>3, <2>4
  <1>6. \A n \in Nat : n \in T
    <2> HIDE DEF T
    <2> QED BY <1>4, <1>5, NatInductionSet
  <1>7. j - k \in Nat /\ k + (j - k) = j /\ j <= Len(items)
    OBVIOUS
  <1>8. j - k \in T
    BY <1>6, <1>7
  <1> QED BY <1>7, <1>8 DEF p

\* More items do not take back what the last one brought.
LEMMA BringsFed ==
    ASSUME NEW items \in Seq(Item), NEW more \in Seq(Item), NEW log \in Log, NEW db \in DB,
           NEW off \in Nat, NEW wait, wait.off \in Nat,
           wait.off <= off + Len(items), Brings(items, log, db, off, wait)
    PROVE  Brings(items \o more, log, db, off, wait)
  <1> DEFINE n == Len(items)
             q == Played(items \o more, log, db)
  <1>1. n \in Nat /\ items \o more \in Seq(Item) /\ Len(items \o more) = n + Len(more)
        /\ Len(more) \in Nat
    BY ConcatType
  <1>2. \A k \in 0..n : q[k] = Played(items, log, db)[k]
    BY PlayedPrefix
  <1>3. ASSUME NEW j \in 0..Len(items \o more), off + j >= wait.off
        PROVE  wait.entry \in ToSet(q[j].log)
    <2>1. CASE j <= n
      <3>1. j \in 0..n
        BY <1>1, <2>1
      <3> HIDE DEF q
      <3> QED BY <1>2, <1>3, <3>1 DEF Brings
    <2>2. CASE j > n
      <3>1. n \in 0..n /\ n \in 0..Len(items \o more) /\ j \in n..Len(items \o more)
        BY <1>1, <2>2
      <3>2. wait.entry \in ToSet(Played(items, log, db)[n].log)
        BY <3>1 DEF Brings
      <3>3. wait.entry \in ToSet(q[n].log)
        BY <1>2, <3>1, <3>2
      <3> QED BY <1>1, <3>1, <3>3, PlayedGrows
    <2> QED BY <1>1, <2>1, <2>2
  <1> QED BY <1>3 DEF Brings

\* What has just been written is in the last item.
LEMMA BringsLast ==
    ASSUME NEW items \in Seq(Item), NEW log, NEW db, NEW off \in Nat, NEW wait,
           wait.off \in Nat, wait.off >= off + Len(items),
           NEW dest, NEW sel, Leads(items, log, db, dest, sel), wait.entry \in ToSet(dest)
    PROVE  Brings(items, log, db, off, wait)
  <1> SUFFICES ASSUME NEW j \in 0..Len(items), off + j >= wait.off
               PROVE  wait.entry \in ToSet(Played(items, log, db)[j].log)
    BY DEF Brings
  <1>1. j = Len(items)
    OBVIOUS
  <1> QED BY <1>1 DEF Leads

\* A slave that stores the write already.
LEMMA BringsNothing ==
    ASSUME NEW log, NEW db, NEW off, NEW wait, wait.entry \in ToSet(log)
    PROVE  Brings(<<>>, log, db, off, wait)
  <1>1. PICK items \in Seq(Item) : items = <<>>
    BY EmptySeqs
  <1>2. Played(items, log, db)[0] = [log |-> log, db |-> db] /\ Len(items) = 0
    <2>1. Played(items, log, db)[0] = [log |-> log, db |-> db]
      BY PlayedFirst, Zenon
    <2> QED BY <1>1, <2>1
  <1>3. ASSUME NEW j \in 0..Len(items)
        PROVE  wait.entry \in ToSet(Played(items, log, db)[j].log)
    BY <1>2
  <1> QED BY <1>1, <1>3 DEF Brings

\* The rest brings it from where the first item leads.
LEMMA BringsTail ==
    ASSUME NEW items \in Seq(Item), items # <<>>, NEW log, NEW db, NEW log1, NEW db1,
           Execute([log |-> log, db |-> db], Head(items)) = [log |-> log1, db |-> db1],
           NEW off \in Nat, NEW wait, Brings(items, log, db, off, wait)
    PROVE  Brings(Tail(items), log1, db1, off + 1, wait)
  <1> SUFFICES ASSUME NEW j \in 0..Len(Tail(items)), (off + 1) + j >= wait.off
               PROVE  wait.entry \in ToSet(Played(Tail(items), log1, db1)[j].log)
    BY DEF Brings
  <1>1. j + 1 \in 0..Len(items) /\ off + (j + 1) = (off + 1) + j
    OBVIOUS
  <1>2. Played(Tail(items), log1, db1)[j] = Played(items, log, db)[j + 1]
    BY PlayedTail
  <1>3. wait.entry \in ToSet(Played(items, log, db)[j + 1].log)
    BY <1>1 DEF Brings
  <1> QED BY <1>2, <1>3

------------------------------------------------------------------------------
(* Steps that leave a slave alone.                                          *)

\* A step that changes nothing between the master m and the slave s.
Unmoved(m, s) ==
    /\ client'[m][s] = None <=> client[m][s] = None
    /\ client'[m][s] # None => /\ client'[m][s].state = client[m][s].state
                               /\ client'[m][s].buf = client[m][s].buf
                               /\ client'[m][s].file = client[m][s].file
    /\ repl_state'[s] \in {"connect", "connected"} =>
          repl_state[s] \in {"connect", "connected"}
    /\ upstream'[s] = upstream[s]
    /\ masterhost'[s] = masterhost[s]
    /\ data'[s] = data[s] /\ data'[m] = data[m]
    /\ client[m][s] # None /\ child[m] # None =>
          client[m][s].state \in {"online", "send_bulk"} \/ child'[m] = child[m]
    /\ runid'[m] = runid[m] /\ offset'[m] = offset[m] /\ backlog'[m] = backlog[m]
    /\ slaveseldb'[m] \in {slaveseldb[m], None}
    /\ s \in misplaced => s \in misplaced'
    /\ s \in astray => s \in astray'
    /\ Waits(m)' => waiting' = waiting /\ Waits(m)

\* An attached slave stays as it should be.
LEMMA SyncedUnmoved ==
    ASSUME NEW m \in Node, NEW s \in Node, Unmoved(m, s),
           Synced(m, s) => SyncedOK(m, s), Synced(m, s)'
    PROVE  SyncedOK(m, s)'
  <1>1. Synced(m, s) /\ SyncedOK(m, s)
    BY DEF Unmoved, Synced
  <1>2. s \notin astray' => Base(m, s)' = Base(m, s) /\ Base(m, s) # None
    <2>1. /\ client[m][s] # None /\ client'[m][s] # None
          /\ client'[m][s].state = client[m][s].state
          /\ client'[m][s].file = client[m][s].file
          /\ data'[s] = data[s] /\ (s \in astray => s \in astray')
      BY <1>1 DEF Unmoved, Synced
    <2>2. s \notin astray' => Base(m, s) # None
      BY <1>1, <2>1 DEF SyncedOK
    <2>3. CASE client[m][s].state \in {"online", "send_bulk"}
      BY <2>1, <2>2, <2>3 DEF Base
    <2>4. CASE client[m][s].state \notin {"online", "send_bulk"}
      <3>1. child[m] # None => child'[m] = child[m]
        BY <2>1, <2>4 DEF Unmoved
      <3> QED BY <2>1, <2>2, <2>4, <3>1 DEF Base
    <2> QED BY <2>3, <2>4
  <1>3. /\ client'[m][s].buf = client[m][s].buf
        /\ upstream'[s] = upstream[s] /\ data'[m] = data[m]
        /\ offset'[m] = offset[m] /\ backlog'[m] = backlog[m]
        /\ slaveseldb'[m] \in {slaveseldb[m], None}
        /\ (s \notin astray' => s \notin astray)
        /\ Fit(s)' => Fit(s) /\ s \notin astray'
        /\ Waits(m)' => waiting' = waiting /\ Waits(m)
    BY <1>1 DEF Unmoved, Synced, Fit
  <1>4. s \notin astray' =>
           Leads(client'[m][s].buf, Base(m, s)', upstream'[s].db, data'[m], slaveseldb'[m])
    BY <1>1, <1>2, <1>3, LeadsForgotten DEF SyncedOK
  <1>5. Fit(s)' => /\ upstream'[s].off + Len(client'[m][s].buf) = offset'[m]
                   /\ Ends(backlog'[m], client'[m][s].buf)
    BY <1>1, <1>3 DEF SyncedOK
  <1>6. Fit(s)' /\ Waits(m)' =>
           Brings(client'[m][s].buf, Base(m, s)', upstream'[s].db, upstream'[s].off, waiting')
    BY <1>1, <1>2, <1>3 DEF SyncedOK
  <1> HIDE DEF Base, Fit, Waits
  <1> QED BY <1>2, <1>4, <1>5, <1>6 DEF SyncedOK

\* So does one that waits for the next BGSAVE.
LEMMA StartUnmoved ==
    ASSUME NEW m \in Node, NEW s \in Node, Unmoved(m, s),
           client[m][s] # None /\ ~Synced(m, s) => StartOK(m, s),
           client'[m][s] # None /\ ~Synced(m, s)'
    PROVE  StartOK(m, s)'
  <1>1. client[m][s] # None /\ ~Synced(m, s) /\ StartOK(m, s)
    BY DEF Unmoved, Synced
  <1>2. /\ client'[m][s].buf = client[m][s].buf
        /\ upstream'[s] = upstream[s] /\ offset'[m] = offset[m]
        /\ slaveseldb'[m] \in {slaveseldb[m], None}
    BY <1>1 DEF Unmoved
  <1> QED BY <1>1, <1>2 DEF StartOK

\* So does one that is not attached.
LEMMA CachedUnmoved ==
    ASSUME NEW m \in Node, NEW s \in Node, masterhost'[s] = m, Unmoved(m, s),
           Fit(s) /\ Cached(s) => CachedOK(s), Fit(s)', Cached(s)'
    PROVE  CachedOK(s)'
  <1>1. client'[m][s] = None /\ upstream'[s].runid = runid'[m] /\ upstream'[s] # None
    BY DEF Cached
  <1>2. /\ masterhost[s] = m /\ client[m][s] = None
        /\ upstream'[s] = upstream[s] /\ data'[s] = data[s] /\ data'[m] = data[m]
        /\ runid'[m] = runid[m] /\ offset'[m] = offset[m] /\ backlog'[m] = backlog[m]
        /\ slaveseldb'[m] \in {slaveseldb[m], None}
        /\ Waits(m)' => waiting' = waiting /\ Waits(m)
        /\ Fit(s)
    BY <1>1 DEF Unmoved, Fit
  <1>3. Cached(s)
    BY <1>1, <1>2 DEF Unmoved, Cached
  <1> DEFINE u == upstream[s]
  <1>4. /\ u.off <= offset[m]
        /\ Reaches(m, u.off) =>
              /\ Leads(Lacks(m, u.off), data[s], u.db, data[m], slaveseldb[m])
              /\ Waits(m) => Brings(Lacks(m, u.off), data[s], u.db, u.off, waiting)
    BY <1>2, <1>3 DEF CachedOK
  <1>5. /\ u' = u
        /\ Reaches(m, u.off)' <=> Reaches(m, u.off)
        /\ Lacks(m, u.off)' = Lacks(m, u.off)
    BY <1>2 DEF Reaches, Lacks
  <1>6. SUFFICES /\ u'.off <= offset'[m]
                 /\ Reaches(m, u.off)' =>
                      /\ Leads(Lacks(m, u.off)', data'[s], u'.db, data'[m], slaveseldb'[m])
                      /\ Waits(m)' =>
                            Brings(Lacks(m, u.off)', data'[s], u'.db, u'.off, waiting')
    BY DEF CachedOK
  <1> HIDE DEF Reaches, Lacks, Waits, u
  <1> QED BY <1>2, <1>4, <1>5, LeadsForgotten

------------------------------------------------------------------------------
(* The steps that attach nobody and feed nobody.                            *)

\* What a step does to a slave that stays attached, and to one that is cached.
ClientStep(m, s) == \/ Unmoved(m, s)
                    \/ IF Synced(m, s)' THEN SyncedOK(m, s)' ELSE StartOK(m, s)'
CacheStep(s) == \/ \A m \in Node : masterhost'[s] = m => Unmoved(m, s)
                \/ CachedOK(s)'

\* A step keeps StreamInv when it does one or the other to every slave.
LEMMA StreamKept ==
    ASSUME Inv, TypeOK', LinkInv', WaitInv',
           \A m, s \in Node : client'[m][s] # None => ClientStep(m, s),
           \A s \in Node : Fit(s)' /\ Cached(s)' => CacheStep(s)
    PROVE  StreamInv'
  <1>1. SyncedInv'
    <2> SUFFICES ASSUME NEW m \in Node, NEW s \in Node, Synced(m, s)'
                 PROVE  SyncedOK(m, s)'
      BY DEF SyncedInv
    <2>1. client'[m][s] # None
      BY DEF Synced
    <2>2. Synced(m, s) => SyncedOK(m, s)
      BY DEF Inv, StreamInv, SyncedInv
    <2>3. Unmoved(m, s) \/ SyncedOK(m, s)'
      BY <2>1 DEF ClientStep
    <2> QED BY <2>2, <2>3, SyncedUnmoved
  <1>2. StartInv'
    <2> SUFFICES ASSUME NEW m \in Node, NEW s \in Node, client'[m][s] # None /\ ~Synced(m, s)'
                 PROVE  StartOK(m, s)'
      BY DEF StartInv
    <2>1. client[m][s] # None /\ ~Synced(m, s) => StartOK(m, s)
      BY DEF Inv, StreamInv, StartInv
    <2>2. Unmoved(m, s) \/ StartOK(m, s)'
      BY DEF ClientStep
    <2> QED BY <2>1, <2>2, StartUnmoved
  <1>3. CachedInv'
    <2> SUFFICES ASSUME NEW s \in Node, Fit(s)', Cached(s)'
                 PROVE  CachedOK(s)'
      BY DEF CachedInv
    <2>1. Fit(s) /\ Cached(s) => CachedOK(s)
      BY DEF Inv, StreamInv, CachedInv
    <2>2. PICK m \in Node : m = masterhost'[s]
      BY DEF Cached, LinkInv, UpstreamInv, TypeOK
    <2>3. Unmoved(m, s) \/ CachedOK(s)'
      BY <2>2 DEF CacheStep
    <2> QED BY <2>1, <2>2, <2>3, CachedUnmoved
  <1> QED BY <1>1, <1>2, <1>3 DEF StreamInv

\* A client stops waiting.
LEMMA WaitEndsStream == ASSUME Inv, TypeOK', LinkInv', WaitEnds PROVE StreamInv'
  <1>1. \A m, s \in Node : Unmoved(m, s)
    BY DEF WaitEnds, Unmoved, Waits, disk, link, stream, counters, history
  <1>2. WaitInv'
    BY DEF WaitEnds, WaitInv
  <1>3. \A s \in Node : Cached(s)' => masterhost'[s] \in Node
    BY DEF Cached, LinkInv, UpstreamInv, TypeOK
  <1> QED BY <1>1, <1>2, <1>3, StreamKept DEF ClientStep, CacheStep

\* A PSYNC that is refused, or comes to nobody: the slave caches nothing.
LEMMA NotServedStream ==
    ASSUME Inv, TypeOK', LinkInv', NEW n \in Node, NotServed(n) PROVE StreamInv'
  <1> USE DEF disk, stream, blocked, history, Fault, Inv, StreamInv
  <1>1. \A m, s \in Node : s # n => Unmoved(m, s)
    BY DEF NotServed, Unmoved, Waits, TypeOK
  <1>2. \A m \in Node : client[m][n] = None
    BY DEF NotServed, Asks, LinkInv, ClientInv, Linked
  <1>3. \A m, s \in Node : client'[m][s] # None => s # n
    BY <1>2 DEF NotServed
  <1>4. \A s \in Node : Cached(s)' => s # n /\ masterhost'[s] \in Node
    BY DEF NotServed, Cached, LinkInv, UpstreamInv, TypeOK
  <1>5. WaitInv'
    BY DEF NotServed, WaitInv
  <1> QED BY <1>1, <1>3, <1>4, <1>5, StreamKept DEF ClientStep, CacheStep

\* BGSAVE: no slave waits for this one.
LEMMA BgSaveStream ==
    ASSUME Inv, TypeOK', LinkInv', NEW n \in Node, BgSave(n) PROVE StreamInv'
  <1> USE DEF link, stream, blocked, history, Fault, Inv, StreamInv
  <1>1. \A m, s \in Node : Unmoved(m, s)
    BY DEF BgSave, Unmoved, Waits, TypeOK
  <1>2. \A s \in Node : Cached(s)' => masterhost'[s] \in Node
    BY DEF Cached, LinkInv, UpstreamInv, TypeOK
  <1>3. WaitInv'
    BY DEF BgSave, WaitInv
  <1> QED BY <1>1, <1>2, <1>3, StreamKept DEF ClientStep, CacheStep

\* REPLCONF ACK.
LEMMA AckStream ==
    ASSUME Inv, TypeOK', LinkInv', NEW n \in Node, Ack(n) PROVE StreamInv'
  <1> USE DEF disk, link, blocked, counters, history
  <1> DEFINE k == masterhost[n]
             c == [client[k][n] EXCEPT !.ack = upstream[n].off]
  <1>0. TypeOK /\ LinkInv /\ StreamInv
    BY DEF Inv
  <1>1. k \in Node /\ client[k][n] \in Client /\ upstream[n] \in Upstream
    BY <1>0 DEF Ack, LinkInv, UpstreamInv, TypeOK
  <1>2. /\ c # None /\ c.state = client[k][n].state /\ c.file = client[k][n].file
        /\ c.buf = client[k][n].buf
    <2>1. upstream[n].off \in Nat
      BY <1>1 DEF Upstream
    <2>2. c \in Client
      BY <1>1, <2>1 DEF Client
    <2> QED BY <1>1, <2>2, NoneIsNoValue DEF Client
  <1>3. client' = [client EXCEPT ![k][n] = c]
    BY DEF Ack
  <1> HIDE DEF c
  <1>4. \A m, s \in Node : client'[m][s] = IF m = k /\ s = n THEN c ELSE client[m][s]
    BY <1>0, <1>1, <1>3 DEF TypeOK
  <1>5. client[k][n] # None
    BY DEF Ack
  <1>6. \A m, s \in Node : Unmoved(m, s)
    BY <1>2, <1>4, <1>5 DEF Ack, Unmoved, Waits
  <1>7. \A s \in Node : Cached(s)' => masterhost'[s] \in Node
    BY DEF Cached, LinkInv, UpstreamInv, TypeOK
  <1>8. WaitInv'
    BY <1>0 DEF Ack, StreamInv, WaitInv
  <1> QED BY <1>6, <1>7, <1>8, StreamKept DEF ClientStep, CacheStep

\* The backlog is freed.
LEMMA FreeBacklogStream ==
    ASSUME Inv, TypeOK', LinkInv', NEW n \in Node, FreeBacklog(n) PROVE StreamInv'
  <1> USE DEF disk, link, blocked, counters, history, Inv, StreamInv
  <1>1. \A m, s \in Node : m # n => Unmoved(m, s)
    BY DEF FreeBacklog, Unmoved, Waits, TypeOK
  <1>2. \A m, s \in Node : client'[m][s] # None => m # n
    BY DEF FreeBacklog, Slaves
  <1>3. ASSUME NEW s \in Node, Fit(s)', Cached(s)'
        PROVE  CacheStep(s)
    <2>1. masterhost'[s] \in Node /\ masterhost'[s] = masterhost[s]
      BY <1>3 DEF Cached, LinkInv, UpstreamInv, TypeOK, FreeBacklog
    <2>2. CASE masterhost[s] # n
      BY <1>1, <2>1, <2>2 DEF CacheStep
    <2>3. CASE masterhost[s] = n
      <3>1. upstream[s].off <= offset[n]
        BY <1>3, <2>3 DEF FreeBacklog, Fit, Cached, CachedInv, CachedOK
      <3>2. backlog'[n] = None
        BY DEF FreeBacklog, TypeOK
      <3> QED BY <2>1, <2>3, <3>1, <3>2 DEF FreeBacklog, CacheStep, CachedOK, Reaches
    <2> QED BY <2>2, <2>3
  <1>4. WaitInv'
    BY DEF FreeBacklog, WaitInv
  <1> QED BY <1>1, <1>2, <1>3, <1>4, StreamKept DEF ClientStep

\* SLAVEOF: the offsets start again, and who could take them for the old is astray.
LEMMA SlaveOfStream ==
    ASSUME Inv, TypeOK', LinkInv', NEW n \in Node, NEW k \in Node, SlaveOf(n, k)
    PROVE  StreamInv'
  <1> USE DEF disk, Fault
  <1>0. TypeOK /\ LinkInv /\ StreamInv
    BY DEF Inv
  <1>1. \A m, s \in Node : client'[m][s] = IF n \in {m, s} THEN None ELSE client[m][s]
    <2>1. client' = Alone(n, {})
      BY DEF SlaveOf
    <2> QED BY <1>0, <2>1 DEF Alone, TypeOK
  <1>2. /\ masterhost' = [masterhost EXCEPT ![n] = k]
        /\ repl_state' = [repl_state EXCEPT ![n] = "connect"]
        /\ upstream' = [upstream EXCEPT ![n] = None]
        /\ backlog' = [backlog EXCEPT ![n] = None]
        /\ offset' = [offset EXCEPT ![n] = 0]
        /\ astray' = astray \cup Beyond(n, 1)
        /\ renumbered' = (renumbered \/ (waiting # None /\ waiting.at = n))
        /\ UNCHANGED <<data, disk, runid, slaveseldb, waiting, runs, writes, misplaced>>
    BY DEF SlaveOf
  <1>3. \A m, s \in Node : m # n /\ s # n => Unmoved(m, s)
    BY <1>0, <1>1, <1>2 DEF Unmoved, Waits, TypeOK
  <1>4. \A m, s \in Node : client'[m][s] # None => m # n /\ s # n
    BY <1>1
  <1>5. ASSUME NEW s \in Node, Fit(s)', Cached(s)'
        PROVE  CacheStep(s)
    <2>1. masterhost'[s] \in Node /\ s # n /\ masterhost'[s] = masterhost[s]
          /\ upstream'[s] = upstream[s] /\ upstream[s] # None
      BY <1>0, <1>2, <1>5 DEF Cached, LinkInv, UpstreamInv, TypeOK
    <2>2. CASE masterhost[s] # n
      BY <1>3, <2>1, <2>2 DEF CacheStep
    <2>3. CASE masterhost[s] = n
      <3>1. s \notin Beyond(n, 1) /\ upstream[s].runid = runid[n] /\ upstream[s].off \in Nat
        BY <1>0, <1>2, <1>5, <2>1, <2>3 DEF Fit, Cached, TypeOK, Upstream
      <3>2. upstream[s].off <= 0
        BY <2>1, <3>1 DEF Beyond
      <3>3. backlog'[n] = None /\ offset'[n] = 0
        BY <1>0, <1>2 DEF TypeOK
      <3> QED BY <2>1, <2>3, <3>2, <3>3 DEF CacheStep, CachedOK, Reaches
    <2> QED BY <2>2, <2>3
  <1>6. WaitInv'
    <2> SUFFICES ASSUME waiting' # None /\ ~renumbered'
                 PROVE  /\ masterhost'[waiting'.at] = None
                        /\ waiting'.off <= offset'[waiting'.at]
                        /\ waiting'.entry \in ToSet(data'[waiting'.at])
      BY DEF WaitInv
    <2>1. waiting # None /\ ~renumbered /\ waiting.at \in Node \ {n} /\ waiting' = waiting
      BY <1>0, <1>2 DEF TypeOK
    <2> QED BY <1>0, <1>2, <2>1 DEF StreamInv, WaitInv, TypeOK
  <1> QED BY <1>3, <1>4, <1>5, <1>6, StreamKept DEF ClientStep

\* SLAVEOF NO ONE.
LEMMA SlaveOfNoOneStream ==
    ASSUME Inv, TypeOK', LinkInv', NEW n \in Node, SlaveOfNoOne(n) PROVE StreamInv'
  <1> USE DEF disk, blocked, Fault
  <1>0. TypeOK /\ LinkInv /\ StreamInv
    BY DEF Inv
  <1>1. \A m, s \in Node : client'[m][s] = IF m # n /\ s = n THEN None ELSE client[m][s]
    <2>1. client' = Alone(n, Slaves(n))
      BY DEF SlaveOfNoOne
    <2> QED BY <1>0, <2>1 DEF Alone, Slaves, TypeOK
  <1>2. /\ masterhost' = [masterhost EXCEPT ![n] = None]
        /\ repl_state' = [repl_state EXCEPT ![n] = "none"]
        /\ upstream' = [upstream EXCEPT ![n] = None]
        /\ UNCHANGED <<data, disk, runid, slaveseldb, blocked, runs, writes, misplaced>>
    BY DEF SlaveOfNoOne
  <1>3. \/ UNCHANGED <<offset, backlog, astray>>
        \/ /\ repl_state[n] = "connected" /\ Slaves(n) = {}
           /\ offset' = [offset EXCEPT ![n] = upstream[n].off]
           /\ backlog' = [backlog EXCEPT ![n] = None]
           /\ astray' = astray \cup Beyond(n, upstream[n].off + 1)
    BY DEF SlaveOfNoOne
  <1>4. \A m, s \in Node : m # n /\ s # n => Unmoved(m, s)
    BY <1>0, <1>1, <1>2, <1>3 DEF Unmoved, Waits, TypeOK
  <1>5. ASSUME NEW s \in Node, s # n, UNCHANGED <<offset, backlog, astray>>
        PROVE  Unmoved(n, s)
    BY <1>0, <1>1, <1>2, <1>5 DEF Unmoved, Waits, TypeOK
  <1>6. ASSUME NEW m \in Node, NEW s \in Node, client'[m][s] # None
        PROVE  ClientStep(m, s)
    <2>1. s # n
      <3>1. masterhost'[s] = m
        BY <1>6 DEF LinkInv, ClientInv, Linked
      <3> QED BY <1>0, <1>2, <3>1, NoneIsNoValue DEF TypeOK
    <2>2. m = n => UNCHANGED <<offset, backlog, astray>>
      BY <1>1, <1>3, <1>6 DEF Slaves
    <2> QED BY <1>4, <1>5, <2>1, <2>2 DEF ClientStep
  <1>7. ASSUME NEW s \in Node, Fit(s)', Cached(s)'
        PROVE  CacheStep(s)
    <2>1. masterhost'[s] \in Node /\ s # n /\ masterhost'[s] = masterhost[s]
          /\ upstream'[s] = upstream[s] /\ upstream[s] # None
      BY <1>0, <1>2, <1>7 DEF Cached, LinkInv, UpstreamInv, TypeOK
    <2>2. CASE masterhost[s] # n \/ UNCHANGED <<offset, backlog, astray>>
      BY <1>4, <1>5, <2>1, <2>2 DEF CacheStep
    <2>3. CASE masterhost[s] = n /\ ~UNCHANGED <<offset, backlog, astray>>
      <3>1. upstream[n] \in Upstream /\ upstream[n].off \in Nat
        BY <1>0, <1>3, <2>3 DEF LinkInv, UpstreamInv, TypeOK, Upstream
      <3>2. s \notin Beyond(n, upstream[n].off + 1) /\ upstream[s].runid = runid[n]
            /\ upstream[s].off \in Nat
        BY <1>0, <1>2, <1>3, <1>7, <2>1, <2>3 DEF Fit, Cached, TypeOK, Upstream
      <3>3. upstream[s].off <= upstream[n].off
        BY <2>1, <3>1, <3>2 DEF Beyond
      <3>4. backlog'[n] = None /\ offset'[n] = upstream[n].off
        BY <1>0, <1>3, <2>3 DEF TypeOK
      <3> QED BY <2>1, <2>3, <3>3, <3>4 DEF CacheStep, CachedOK, Reaches
    <2> QED BY <2>2, <2>3
  <1>8. WaitInv'
    <2>1. waiting # None => waiting.at \in Node
      BY <1>0 DEF TypeOK
    <2>2. waiting # None /\ ~renumbered => waiting.at # n
      BY <1>0, <2>1 DEF StreamInv, WaitInv, SlaveOfNoOne
    <2> QED BY <1>0, <1>2, <1>3, <2>1, <2>2 DEF StreamInv, WaitInv, TypeOK
  <1> QED BY <1>6, <1>7, <1>8, StreamKept

\* A process restarts.
LEMMA RestartStream ==
    ASSUME Inv, TypeOK', LinkInv', NEW n \in Node, Restart(n) PROVE StreamInv'
  <1> USE DEF blocked, history, Fault
  <1>0. TypeOK /\ LinkInv /\ StreamInv
    BY DEF Inv
  <1>1. \A m, s \in Node : client'[m][s] = IF n \in {m, s} THEN None ELSE client[m][s]
    <2>1. client' = Alone(n, {})
      BY DEF Restart
    <2> QED BY <1>0, <2>1 DEF Alone, TypeOK
  <1>2. \A m \in Node \ {n} :
           /\ data'[m] = data[m] /\ child'[m] = child[m] /\ runid'[m] = runid[m]
           /\ offset'[m] = offset[m] /\ backlog'[m] = backlog[m]
           /\ slaveseldb'[m] = slaveseldb[m]
           /\ upstream'[m] = upstream[m] /\ repl_state'[m] = repl_state[m]
    BY <1>0 DEF Restart, TypeOK
  <1>3. /\ masterhost' = masterhost /\ misplaced' = misplaced /\ astray' = astray
        /\ upstream'[n] = None /\ runid'[n] = runs + 1
        /\ waiting' # None => waiting.at # n /\ waiting' = waiting /\ renumbered' = renumbered
    BY <1>0 DEF Restart, TypeOK
  <1>4. \A m, s \in Node : m # n /\ s # n => Unmoved(m, s)
    BY <1>1, <1>2, <1>3 DEF Unmoved, Waits
  <1>5. \A m, s \in Node : client'[m][s] # None => m # n /\ s # n
    BY <1>1
  <1>6. \A s \in Node : Cached(s)' => masterhost'[s] \in Node \ {n} /\ s # n
    <2> SUFFICES ASSUME NEW s \in Node, Cached(s)'
                 PROVE  masterhost'[s] \in Node \ {n} /\ s # n
      OBVIOUS
    <2>1. s # n /\ masterhost'[s] \in Node
      BY <1>3 DEF Cached, LinkInv, UpstreamInv, TypeOK
    <2>2. upstream[s] # None /\ upstream[s].runid <= runs /\ upstream[s].runid \in Nat
          /\ upstream'[s] = upstream[s]
      BY <1>0, <1>2, <2>1 DEF Cached, LinkInv, UpstreamInv, TypeOK, Upstream
    <2>3. runs \in Nat
      BY <1>0 DEF TypeOK
    <2>4. upstream[s].runid = runid'[masterhost'[s]]
      BY <2>2 DEF Cached
    <2> QED BY <1>3, <2>1, <2>2, <2>3, <2>4
  <1>7. WaitInv'
    BY <1>0, <1>2, <1>3 DEF StreamInv, WaitInv, TypeOK
  <1> QED BY <1>3, <1>4, <1>5, <1>6, <1>7, StreamKept DEF ClientStep, CacheStep

------------------------------------------------------------------------------
(* Losing connections and continuing.                                       *)

\* The test of masterTryPartialResynchronization in terms of the offsets.
LEMMA ContinueReaches ==
    ASSUME TypeOK, NEW m \in Node, NEW u \in Upstream \cup {None}
    PROVE  /\ CanContinue(m, u) <=> /\ u # None /\ u.runid = runid[m]
                                    /\ u.off <= offset[m] /\ Reaches(m, u.off)
           /\ CanContinue(m, u) => Missed(m, u) = Lacks(m, u.off)
  <1>1. CASE u = None \/ backlog[m] = None
    BY <1>1 DEF CanContinue, Reaches
  <1>2. CASE u # None /\ backlog[m] # None
    <2>1. u.off \in Nat /\ offset[m] \in Nat /\ backlog[m] \in Seq(Item)
      BY <1>2 DEF TypeOK, Upstream
    <2>2. Len(backlog[m]) \in Nat
      <3> HIDE DEF Item
      <3> QED BY <2>1
    <2> DEFINE off == u.off
               top == offset[m]
               len == Len(backlog[m])
    <2>3. /\ off + 1 >= top - len + 1 <=> top - off <= len
          /\ off + 1 <= top - len + 1 + len <=> off <= top
          /\ off + 1 - (top - len + 1) + 1 = len - (top - off) + 1
      <3> HIDE DEF off, top, len
      <3>1. off \in Nat /\ top \in Nat /\ len \in Nat
        BY <2>1, <2>2 DEF off, top, len
      <3> QED BY <3>1
    <2> QED BY <1>2, <2>3 DEF CanContinue, FirstByte, Reaches, Missed, Lacks, LastN
  <1> QED BY <1>1, <1>2

\* A slave that loses its connection can go on where it stopped.
LEMMA LeftBehind ==
    ASSUME Inv, NEW m \in Node, NEW s \in Node,
           client[m][s] # None, client[m][s].state = "online",
           masterhost'[s] = m, upstream'[s] = upstream[s],
           data'[s] = data[s], data'[m] = data[m], offset'[m] = offset[m],
           backlog'[m] = backlog[m], slaveseldb'[m] = slaveseldb[m],
           Fit(s)' => Fit(s), Waits(m)' => waiting' = waiting /\ Waits(m), Fit(s)'
    PROVE  CachedOK(s)'
  <1> DEFINE u == upstream[s]
             buf == client[m][s].buf
  <1>1. TypeOK /\ Linked(m, s) /\ SyncedOK(m, s) /\ Fit(s)
    BY DEF Inv, LinkInv, ClientInv, StreamInv, SyncedInv, Synced
  <1>2. u \in Upstream /\ buf \in Seq(Item) /\ backlog[m] \in Seq(Item) /\ offset[m] \in Nat
    <2>1. client[m][s] \in Client
      BY <1>1 DEF TypeOK
    <2>2. repl_state[s] = "connected"
      BY <1>1 DEF Linked
    <2> QED BY <1>1, <2>1, <2>2, ClientFields DEF Linked, Inv, LinkInv, UpstreamInv, TypeOK
  <1>3. u.off \in Nat /\ Len(buf) \in Nat /\ Len(backlog[m]) \in Nat
    <2> HIDE DEF Item
    <2> QED BY <1>2 DEF Upstream
  <1>4. u.off + Len(buf) = offset[m] /\ Ends(backlog[m], buf)
    BY <1>1 DEF SyncedOK
  <1>5. /\ Leads(buf, data[s], u.db, data[m], slaveseldb[m])
        /\ Waits(m) => Brings(buf, data[s], u.db, u.off, waiting)
    BY <1>1 DEF SyncedOK, Fit, Base
  <1> HIDE DEF buf
  <1>6. u.off <= offset[m] /\ offset[m] - u.off = Len(buf)
    BY <1>2, <1>3, <1>4
  <1>7. Reaches(m, u.off) => Lacks(m, u.off) = buf
    BY <1>2, <1>4, <1>6, EndsAll DEF Reaches, Lacks
  <1>8. /\ u' = u
        /\ Reaches(m, u.off)' <=> Reaches(m, u.off)
        /\ Lacks(m, u.off)' = Lacks(m, u.off)
    BY DEF Reaches, Lacks
  <1>9. SUFFICES /\ u'.off <= offset'[m]
                 /\ Reaches(m, u.off)' =>
                      /\ Leads(Lacks(m, u.off)', data'[s], u'.db, data'[m], slaveseldb'[m])
                      /\ Waits(m)' =>
                            Brings(Lacks(m, u.off)', data'[s], u'.db, u'.off, waiting')
    BY DEF CachedOK
  <1> HIDE DEF Reaches, Lacks, Waits, u
  <1> QED BY <1>5, <1>6, <1>7, <1>8

\* A master frees the client of a slave.
LEMMA DropStream ==
    ASSUME Inv, TypeOK', LinkInv', NEW k \in Node, NEW n \in Node, Drop(k, n)
    PROVE  StreamInv'
  <1> USE DEF disk, link, blocked, history, Fault
  <1>0. TypeOK /\ LinkInv /\ StreamInv
    BY DEF Inv
  <1>1. \A m, s \in Node : client'[m][s] = IF m = k /\ s = n THEN None ELSE client[m][s]
    BY <1>0 DEF Drop, TypeOK
  <1>2. ASSUME NEW m \in Node, NEW s \in Node, ~(m = k /\ s = n)
        PROVE  Unmoved(m, s)
    BY <1>1, <1>2 DEF Drop, Unmoved, Waits
  <1>3. ASSUME NEW s \in Node, Fit(s)', Cached(s)'
        PROVE  CacheStep(s)
    <2>1. masterhost'[s] \in Node /\ masterhost'[s] = masterhost[s]
      BY <1>3 DEF Cached, LinkInv, UpstreamInv, TypeOK, Drop
    <2>2. CASE ~(masterhost[s] = k /\ s = n)
      BY <1>2, <2>1, <2>2 DEF CacheStep
    <2>3. CASE masterhost[s] = k /\ s = n
      <3>1. client[k][n] # None /\ Linked(k, n)
        BY <1>0 DEF Drop, LinkInv, ClientInv
      <3>2. repl_state[n] \in {"connect", "connected"}
        BY <1>3, <2>3 DEF Drop, Cached
      <3>3. client[k][n].state = "online"
        BY <3>1, <3>2 DEF Linked
      <3>4. CachedOK(n)'
        BY <1>3, <2>1, <2>3, <3>1, <3>3, LeftBehind DEF Drop, Fit, Waits
      <3> QED BY <2>3, <3>4 DEF CacheStep
    <2> QED BY <2>2, <2>3
  <1>4. \A m, s \in Node : client'[m][s] # None => ~(m = k /\ s = n)
    BY <1>1
  <1>5. WaitInv'
    BY <1>0 DEF Drop, StreamInv, WaitInv
  <1> QED BY <1>2, <1>3, <1>4, <1>5, StreamKept DEF ClientStep

\* A slave loses its connection: LeftBehind, and its own slaves are disconnected.
LEMMA LoseMasterStream ==
    ASSUME Inv, TypeOK', LinkInv', NEW n \in Node, LoseMaster(n) PROVE StreamInv'
  <1> USE DEF disk, blocked, counters, history
  <1>0. TypeOK /\ LinkInv /\ StreamInv
    BY DEF Inv
  <1>1. /\ UNCHANGED <<data, disk, runid, masterhost, offset, backlog, slaveseldb, blocked,
                       counters, history>>
        /\ repl_state[n] \in {"transfer", "connected"}
        /\ client[masterhost[n]][n] = None
        /\ repl_state' = [repl_state EXCEPT ![n] = "connect"]
    BY DEF LoseMaster
  <1>2. CASE repl_state[n] = "connected"
    <2>1. upstream' = upstream
      BY <1>2 DEF LoseMaster
    <2>2. \A m, s \in Node : client'[m][s] = IF m = n THEN None ELSE client[m][s]
      BY <1>0, <1>2 DEF LoseMaster, TypeOK
    <2>3. \A m, s \in Node : m # n => Unmoved(m, s)
      BY <1>0, <1>1, <1>2, <2>1, <2>2 DEF Unmoved, Waits, TypeOK
    <2>4. ASSUME NEW s \in Node, Fit(s)', Cached(s)'
          PROVE  CacheStep(s)
      <3>1. masterhost'[s] \in Node /\ masterhost'[s] = masterhost[s] /\ masterhost[s] # s
        BY <1>0, <1>1, <2>1, <2>4 DEF Cached, LinkInv, UpstreamInv, TypeOK
      <3>2. CASE masterhost[s] # n
        BY <2>3, <3>1, <3>2 DEF CacheStep
      <3>3. CASE masterhost[s] = n /\ client[n][s] = None
        <4>1. Unmoved(n, s)
          BY <1>0, <1>1, <2>1, <2>2, <3>1, <3>3 DEF Unmoved, Waits, TypeOK
        <4> QED BY <3>1, <3>3, <4>1 DEF CacheStep
      <3>4. CASE masterhost[s] = n /\ client[n][s] # None
        <4>1. Linked(n, s)
          BY <1>0, <3>4 DEF LinkInv, ClientInv
        <4>2. repl_state[s] \in {"connect", "connected"}
          BY <1>0, <1>1, <2>4, <3>1, <3>4 DEF Cached, TypeOK
        <4>3. client[n][s].state = "online"
          BY <4>1, <4>2 DEF Linked
        <4>4. CachedOK(s)'
          BY <1>1, <2>1, <2>4, <3>1, <3>4, <4>3, LeftBehind DEF Fit, Waits
        <4> QED BY <4>4 DEF CacheStep
      <3> QED BY <3>2, <3>3, <3>4
    <2>5. WaitInv'
      BY <1>0, <1>1 DEF StreamInv, WaitInv
    <2>6. \A m, s \in Node : client'[m][s] # None => m # n
      BY <2>2
    <2> QED BY <2>3, <2>4, <2>5, <2>6, StreamKept DEF ClientStep
  <1>3. CASE repl_state[n] = "transfer"
    <2>1. client' = client /\ upstream' = [upstream EXCEPT ![n] = None]
      BY <1>3 DEF LoseMaster
    <2>2. \A m, s \in Node : s # n => Unmoved(m, s)
      BY <1>0, <1>1, <2>1 DEF Unmoved, Waits, TypeOK
    <2>3. \A m, s \in Node : client'[m][s] # None => s # n
      BY <1>0, <1>1, <2>1 DEF LinkInv, ClientInv, Linked
    <2>4. \A s \in Node : Cached(s)' => s # n /\ masterhost'[s] \in Node
      BY <1>0, <2>1 DEF Cached, LinkInv, UpstreamInv, TypeOK
    <2>5. WaitInv'
      BY <1>0, <1>1 DEF StreamInv, WaitInv
    <2> QED BY <2>2, <2>3, <2>4, <2>5, StreamKept DEF ClientStep, CacheStep
  <1> QED BY <1>1, <1>2, <1>3

\* +CONTINUE: what LeftBehind kept is in the buffer now.
LEMMA ContinueStream ==
    ASSUME Inv, TypeOK', LinkInv', NEW n \in Node, Continue(n) PROVE StreamInv'
  <1> USE DEF disk, blocked, counters
  <1>0. TypeOK /\ LinkInv /\ StreamInv
    BY DEF Inv
  <1> DEFINE k == masterhost[n]
             u == upstream[n]
             buf == Missed(k, u)
             c == NewClient("online", buf)
  <1>1. /\ Asks(n) /\ CanContinue(k, u)
        /\ client' = [client EXCEPT ![k][n] = c]
        /\ repl_state' = [repl_state EXCEPT ![n] = "connected"]
        /\ astray' = astray \cup ({n} \cap misplaced)
        /\ UNCHANGED <<data, disk, runid, masterhost, upstream, offset, backlog, slaveseldb,
                       blocked, counters, misplaced>>
    BY DEF Continue
  <1>2. k \in Node /\ u \in Upstream /\ repl_state[n] = "connect"
    BY <1>0, <1>1 DEF Asks, CanContinue, TypeOK
  <1>3. buf \in Seq(Item)
    BY <1>0, <1>1, <1>2, MissedType
  <1>4. /\ u.runid = runid[k] /\ u.off <= offset[k] /\ Reaches(k, u.off)
        /\ buf = Lacks(k, u.off)
    BY <1>0, <1>1, <1>2, ContinueReaches
  <1>5. c # None /\ c.state = "online" /\ c.buf = buf
    BY <1>3, NewClientType, NoneIsNoValue
  <1> HIDE DEF c, buf
  <1>6. \A m, s \in Node : client'[m][s] = IF m = k /\ s = n THEN c ELSE client[m][s]
    BY <1>0, <1>1, <1>2 DEF TypeOK
  <1>7. \A m, s \in Node : s # n => Unmoved(m, s)
    BY <1>0, <1>1, <1>6 DEF Unmoved, Waits, TypeOK
  <1>8. \A m \in Node : client[m][n] = None
    BY <1>0, <1>2 DEF LinkInv, ClientInv, Linked
  <1>9. SyncedOK(k, n)'
    <2>1. Cached(n)
      BY <1>2, <1>4, <1>8, NoneIsNoValue DEF Cached
    <2>2. n \notin astray' => Fit(n)
      BY <1>1 DEF Fit
    <2>3. Fit(n) => /\ Leads(buf, data[n], u.db, data[k], slaveseldb[k])
                    /\ Waits(k) => Brings(buf, data[n], u.db, u.off, waiting)
      BY <1>0, <1>4, <2>1 DEF StreamInv, CachedInv, CachedOK
    <2>4. client'[k][n] = c /\ Base(k, n)' = data[n] /\ upstream'[n] = u /\ data[n] # None
      BY <1>0, <1>1, <1>2, <1>5, <1>6, NoneIsNoValue DEF Base, TypeOK
    <2>5. u.off + Len(buf) = offset[k] /\ Ends(backlog[k], buf)
      <3>1. backlog[k] \in Seq(Item) /\ u.off \in Nat /\ offset[k] \in Nat
        BY <1>0, <1>2, <1>4 DEF Reaches, TypeOK, Upstream
      <3>2. Len(backlog[k]) \in Nat
        <4> HIDE DEF Item
        <4> QED BY <3>1
      <3>3. offset[k] - u.off \in 0..Len(backlog[k])
        BY <1>4, <3>1, <3>2 DEF Reaches
      <3>4. Len(buf) = offset[k] - u.off /\ Ends(backlog[k], buf)
        BY <1>4, <3>1, <3>3, LastNFacts, EndsLastN DEF Lacks
      <3> QED BY <3>1, <3>4
    <2>6. Fit(n)' => Fit(n)
      BY <2>2 DEF Fit
    <2>7. Waits(k)' <=> Waits(k)
      BY <1>1 DEF Waits
    <2> HIDE DEF Fit, Waits, Base
    <2> QED BY <1>1, <1>5, <2>2, <2>3, <2>4, <2>5, <2>6, <2>7 DEF SyncedOK
  <1>10. \A m, s \in Node : client'[m][s] # None => ClientStep(m, s)
    <2> SUFFICES ASSUME NEW m \in Node, client'[m][n] # None
                 PROVE  ClientStep(m, n)
      BY <1>7 DEF ClientStep
    <2>1. m = k
      BY <1>6, <1>8
    <2>2. Synced(k, n)'
      BY <1>1, <1>2, <1>5, <1>6 DEF Synced
    <2> QED BY <1>1, <1>9, <2>1, <2>2 DEF ClientStep
  <1>11. \A s \in Node : Cached(s)' => s # n /\ masterhost'[s] \in Node
    BY <1>0, <1>1, <1>2, <1>5, <1>6 DEF Cached, LinkInv, UpstreamInv, TypeOK
  <1>12. WaitInv'
    BY <1>0, <1>1 DEF StreamInv, WaitInv
  <1> QED BY <1>7, <1>10, <1>11, <1>12, StreamKept DEF CacheStep

------------------------------------------------------------------------------
(* Snapshots.                                                               *)

\* A slave has loaded the snapshot: its buffer goes with what it stores now.
LEMMA LoadRdbStream ==
    ASSUME Inv, TypeOK', LinkInv', NEW n \in Node, LoadRdb(n) PROVE StreamInv'
  <1> USE DEF blocked, counters
  <1>0. TypeOK /\ LinkInv /\ StreamInv
    BY DEF Inv
  <1> DEFINE k == masterhost[n]
             old == client[k][n]
             c == [old EXCEPT !.state = "online", !.file = None]
  <1>1. /\ repl_state[n] = "transfer" /\ client[k][n] # None
        /\ client[k][n].state = "send_bulk"
        /\ data' = [data EXCEPT ![n] = old.file]
        /\ client' = [client EXCEPT ![k][n] = c]
        /\ repl_state' = [repl_state EXCEPT ![n] = "connected"]
        /\ astray' = astray \cup (IF data' = data THEN {}
                                  ELSE {t \in Node : CanContinue(n, upstream[t])})
        /\ UNCHANGED <<child, runid, masterhost, upstream, offset, backlog, slaveseldb,
                       blocked, counters, misplaced>>
    BY DEF LoadRdb
  <1>2. k \in Node /\ k # n /\ upstream[n] \in Upstream
    BY <1>0, <1>1 DEF LinkInv, UpstreamInv, TypeOK
  <1>3. old \in Client /\ old.file # None /\ Linked(k, n)
    BY <1>0, <1>1, <1>2 DEF TypeOK, LinkInv, ClientInv, Linked
  <1>4. c # None /\ c.state = "online" /\ c.buf = old.buf
    <2>1. c \in Client
      BY <1>3 DEF Client
    <2> QED BY <1>3, <2>1, NoneIsNoValue DEF Client
  <1> HIDE DEF c
  <1>5. \A m, s \in Node : client'[m][s] = IF m = k /\ s = n THEN c ELSE client[m][s]
    BY <1>0, <1>1, <1>2 DEF TypeOK
  <1>6. \A m, s \in Node : m # n /\ s # n => Unmoved(m, s)
    BY <1>0, <1>1, <1>5 DEF Unmoved, Waits, TypeOK
  <1>7. \A m, s \in Node : client[m][s] # None => m # n /\ (s = n => m = k)
    BY <1>0, <1>1 DEF LinkInv, ClientInv, Linked
  <1>8. SyncedOK(k, n)'
    <2>1. SyncedOK(k, n)
      BY <1>0, <1>1, <1>2 DEF StreamInv, SyncedInv, Synced
    <2>2. /\ client'[k][n] = c /\ Base(k, n)' = Base(k, n) /\ Base(k, n) # None
          /\ data'[k] = data[k]
      BY <1>0, <1>1, <1>2, <1>3, <1>4, <1>5 DEF Base, TypeOK
    <2>3. (Fit(n)' => Fit(n)) /\ (n \notin astray' => n \notin astray)
      BY <1>1 DEF Fit
    <2>4. Waits(k)' <=> Waits(k)
      BY <1>1 DEF Waits
    <2> HIDE DEF Fit, Waits, Base
    <2> QED BY <1>1, <1>4, <2>1, <2>2, <2>3, <2>4 DEF SyncedOK
  <1>9. \A m, s \in Node : client'[m][s] # None => ClientStep(m, s)
    <2> SUFFICES ASSUME NEW m \in Node, NEW s \in Node, client'[m][s] # None
                 PROVE  ClientStep(m, s)
      OBVIOUS
    <2>1. CASE m = k /\ s = n
      <3>1. Synced(m, s)'
        BY <1>4, <1>5, <2>1 DEF Synced
      <3> QED BY <1>1, <1>8, <2>1, <3>1 DEF ClientStep
    <2>2. CASE ~(m = k /\ s = n)
      BY <1>5, <1>6, <1>7, <2>2 DEF ClientStep
    <2> QED BY <2>1, <2>2
  <1>10. ASSUME NEW s \in Node, Fit(s)', Cached(s)'
         PROVE  CacheStep(s)
    <2>1. masterhost'[s] \in Node /\ masterhost'[s] = masterhost[s]
          /\ upstream[s] # None /\ upstream[s] \in Upstream
      BY <1>0, <1>1, <1>10 DEF Cached, LinkInv, UpstreamInv, TypeOK
    <2>2. s # n
      BY <1>1, <1>2, <1>4, <1>5, <1>10 DEF Cached
    <2>3. CASE masterhost[s] # n
      BY <1>6, <2>1, <2>2, <2>3 DEF CacheStep
    <2>4. CASE masterhost[s] = n /\ data' = data
      <3>1. Unmoved(n, s)
        BY <1>0, <1>1, <1>2, <1>5, <2>2, <2>4 DEF Unmoved, Waits, TypeOK
      <3> QED BY <2>1, <2>4, <3>1 DEF CacheStep
    <2>5. CASE masterhost[s] = n /\ data' # data
      <3>1. s \notin astray' /\ Fit(s)
        BY <1>1, <1>10 DEF Fit
      <3>2. ~CanContinue(n, upstream[s])
        BY <1>1, <2>5, <3>1
      <3>3. client[n][s] = None /\ Cached(s)
        BY <1>0, <1>1, <1>7, <1>10, <2>2, <2>5 DEF Cached, TypeOK
      <3>4. upstream[s].off <= offset[n] /\ upstream[s].runid = runid[n]
        BY <1>0, <2>5, <3>1, <3>3 DEF StreamInv, CachedInv, CachedOK, Cached
      <3>5. ~Reaches(n, upstream[s].off)
        BY <1>0, <2>1, <3>2, <3>4, ContinueReaches
      <3>6. ~Reaches(n, upstream[s].off)'
        BY <1>1, <3>5 DEF Reaches
      <3> QED BY <1>1, <2>1, <2>5, <3>4, <3>6 DEF CacheStep, CachedOK
    <2> QED BY <2>3, <2>4, <2>5
  <1>11. WaitInv'
    <2>1. waiting # None => waiting.at \in Node
      BY <1>0 DEF TypeOK
    <2>2. waiting # None /\ ~renumbered => waiting.at # n
      BY <1>0, <1>2, <2>1, NoneIsNoValue DEF StreamInv, WaitInv
    <2> QED BY <1>0, <1>1, <2>1, <2>2 DEF StreamInv, WaitInv, TypeOK
  <1> QED BY <1>9, <1>10, <1>11, StreamKept

\* The end of a BGSAVE: the snapshot that the buffers of the waiting slaves go with
\* is in the file, and the next one may start for those that could not use it.
LEMMA BgSaveDoneStream ==
    ASSUME Inv, TypeOK', LinkInv', NEW k \in Node, NEW how \in {"ok", "failed", "killed"},
           NEW forked \in BOOLEAN, BgSaveDone(k, how, forked)
    PROVE  StreamInv'
  <1> USE DEF link, blocked
  <1>0. TypeOK /\ LinkInv /\ StreamInv
    BY DEF Inv
  <1> DEFINE in(state) == {s \in Slaves(k) : client[k][s].state = state}
             next == in("wait_start")
             file == IF how = "ok" THEN child[k] ELSE rdb[k]
             sent == how # "failed" /\ file # None
             new(s) == CASE s \in next -> [client[k][s] EXCEPT !.state = "wait_end"]
                         [] s \in in("wait_end") ->
                              IF sent THEN [client[k][s] EXCEPT !.state = "send_bulk",
                                                                !.file = file]
                                      ELSE None
                         [] OTHER -> client[k][s]
  <1>1. /\ child[k] # None
        /\ child' = [child EXCEPT ![k] = IF next # {} /\ forked THEN data[k] ELSE None]
        /\ client' = [client EXCEPT ![k] = [s \in Node |-> new(s)]]
        /\ misplaced' = (misplaced \ next) \cup
              {s \in next : upstream[s].off + Len(client[k][s].buf) # offset[k]}
        /\ astray' = astray \cup (IF forked THEN {} ELSE next)
                            \cup (IF sent /\ file # child[k] THEN in("wait_end") ELSE {})
        /\ UNCHANGED <<data, link, offset, backlog, slaveseldb, blocked, runs, writes>>
    BY DEF BgSaveDone
  <1>2. file \in Log \cup {None}
    BY <1>0 DEF TypeOK
  <1>3. \A m, s \in Node : client'[m][s] = IF m = k THEN new(s) ELSE client[m][s]
    BY <1>0, <1>1 DEF TypeOK
  <1> HIDE DEF file
  <1>4. \A s \in Node : client[k][s] = None => new(s) = None /\ s \notin next
    BY DEF Slaves
  <1>5. ASSUME NEW s \in Node, client[k][s] # None
        PROVE  /\ client[k][s].state = "wait_start" <=> s \in next
               /\ client[k][s].state = "wait_end" <=> s \in in("wait_end")
               /\ client[k][s].state = "wait_start" =>
                     /\ new(s) # None /\ new(s).state = "wait_end"
                     /\ new(s).buf = client[k][s].buf
               /\ client[k][s].state = "wait_end" =>
                     IF sent THEN /\ new(s) # None /\ new(s).state = "send_bulk"
                                  /\ new(s).buf = client[k][s].buf /\ new(s).file = file
                     ELSE new(s) = None
               /\ client[k][s].state \notin {"wait_start", "wait_end"} =>
                     new(s) = client[k][s]
    <2>1. s \in Slaves(k) /\ client[k][s] \in Client
      BY <1>0, <1>5 DEF Slaves, TypeOK
    <2>2. /\ [client[k][s] EXCEPT !.state = "wait_end"] \in Client
          /\ [client[k][s] EXCEPT !.state = "send_bulk", !.file = file] \in Client
      BY <1>2, <2>1 DEF Client
    <2>3. /\ client[k][s].state = "wait_start" <=> s \in next
          /\ client[k][s].state = "wait_end" <=> s \in in("wait_end")
      BY <2>1
    <2>4. CASE client[k][s].state = "wait_start"
      <3>1. new(s) = [client[k][s] EXCEPT !.state = "wait_end"]
        BY <2>3, <2>4
      <3> QED BY <2>1, <2>2, <2>3, <2>4, <3>1, NoneIsNoValue DEF Client
    <2>5. CASE client[k][s].state = "wait_end"
      <3>1. new(s) = IF sent THEN [client[k][s] EXCEPT !.state = "send_bulk", !.file = file]
                             ELSE None
        BY <2>3, <2>5
      <3> HIDE DEF sent
      <3> QED BY <2>1, <2>2, <2>3, <2>5, <3>1, NoneIsNoValue DEF Client
    <2>6. CASE client[k][s].state \notin {"wait_start", "wait_end"}
      BY <2>3, <2>6
    <2> QED BY <2>4, <2>5, <2>6, <2>3
  <1>6. \A s \in Node : s \in next => client[k][s] # None /\ masterhost[s] = k
    BY <1>0 DEF Slaves, LinkInv, ClientInv, Linked
  <1>7. \A s \in Node : s \in in("wait_end") => client[k][s] # None /\ masterhost[s] = k
    BY <1>0 DEF Slaves, LinkInv, ClientInv, Linked
  <1> DEFINE ending == in("wait_end")
  <1> HIDE DEF in, new, sent, next, ending
  <1>8. ASSUME NEW m \in Node, NEW s \in Node, s \notin next,
               m # k \/ (client[k][s] = None) \/ (client[k][s].state \notin {"wait_start", "wait_end"})
        PROVE  Unmoved(m, s)
    <2>1. client'[m][s] = client[m][s]
      BY <1>3, <1>4, <1>5, <1>8
    <2>2. client[m][s] # None =>
             client[m][s].state \in {"online", "send_bulk"} \/ child'[m] = child[m]
      <3>1. client[k][s] # None => client[k][s] \in Client
        BY <1>0 DEF TypeOK
      <3>2. m # k => child'[m] = child[m]
        BY <1>0, <1>1 DEF TypeOK
      <3> QED BY <1>8, <3>1, <3>2 DEF Client
    <2> QED BY <1>1, <1>8, <2>1, <2>2 DEF Unmoved, Waits
  <1>9. ASSUME NEW s \in Node, client[k][s] # None, client[k][s].state = "wait_start"
        PROVE  SyncedOK(k, s)'
    <2>1. s \in next /\ StartOK(k, s) /\ client[k][s] \in Client /\ upstream[s] \in Upstream
          /\ repl_state[s] = "transfer" /\ upstream[s].db = DefaultDB
      BY <1>0, <1>5, <1>9 DEF StreamInv, StartInv, Synced, LinkInv, ClientInv, Linked,
                              UpstreamInv, TypeOK
    <2> DEFINE buf == client[k][s].buf
    <2>2. buf \in Seq(Item) /\ data[k] \in Log /\ data[k] # None
      BY <1>0, <2>1, ClientFields, NoneIsNoValue DEF TypeOK
    <2>3. client'[k][s].buf = buf /\ client'[k][s].state = "wait_end"
      BY <1>3, <1>5, <1>9
    <2>4. s \notin astray' => Base(k, s)' = data[k]
      <3>1. Base(k, s)' = child'[k]
        BY <2>3 DEF Base
      <3>2. s \notin astray' => forked /\ next # {}
        BY <1>1, <2>1
      <3> QED BY <1>0, <1>1, <3>1, <3>2 DEF TypeOK
    <2>5. Leads(buf, data[k], upstream[s].db, data[k], slaveseldb[k])
      <3>1. DefaultDB \in DB /\ slaveseldb[k] \in DB \cup {None}
        BY <1>0, ReplicationAssumption DEF TypeOK, ReplicationAssumption
      <3> QED BY <2>1, <2>2, <3>1, LeadsSelects DEF StartOK
    <2>6. Fit(s)' => /\ buf = <<>> /\ upstream[s].off + Len(buf) = offset[k]
                     /\ s \notin astray'
      BY <1>1, <2>1 DEF StartOK, Fit
    <2>7. Fit(s)' => Ends(backlog[k], buf)
      BY <2>6 DEF Ends
    <2>8. Fit(s)' /\ Waits(k) => Brings(buf, data[k], upstream[s].db, upstream[s].off, waiting)
      BY <1>0, <2>6, BringsNothing DEF StreamInv, WaitInv, Waits
    <2>9. Waits(k)' <=> Waits(k)
      BY <1>1 DEF Waits
    <2> HIDE DEF buf, Base, Fit, Waits
    <2> QED BY <1>1, <2>2, <2>3, <2>4, <2>5, <2>6, <2>7, <2>8, <2>9 DEF SyncedOK
  <1>10. ASSUME NEW s \in Node, client[k][s] # None, client[k][s].state = "wait_end", sent
         PROVE  SyncedOK(k, s)'
    <2>1. SyncedOK(k, s) /\ s \in ending /\ s \notin next
      BY <1>0, <1>5, <1>10 DEF StreamInv, SyncedInv, Synced, ending
    <2>2. client'[k][s].buf = client[k][s].buf /\ client'[k][s].state = "send_bulk"
          /\ client'[k][s].file = file
      BY <1>3, <1>5, <1>10
    <2>3. s \notin astray' => s \notin astray /\ file = child[k]
      BY <1>1, <1>10, <2>1 DEF ending
    <2>4. s \notin astray' => Base(k, s)' = Base(k, s)
      BY <1>10, <2>2, <2>3 DEF Base
    <2>5. Fit(s)' => Fit(s) /\ s \notin astray'
      BY <1>1, <2>1 DEF Fit
    <2>6. Waits(k)' <=> Waits(k)
      BY <1>1 DEF Waits
    <2> HIDE DEF Base, Fit, Waits
    <2> QED BY <1>1, <2>1, <2>2, <2>3, <2>4, <2>5, <2>6 DEF SyncedOK
  <1>11. ASSUME NEW m \in Node, NEW s \in Node, client'[m][s] # None
         PROVE  ClientStep(m, s)
    <2>1. client[m][s] # None
      BY <1>3, <1>4, <1>11
    <2>2. CASE m # k
      <3>1. s \notin next
        BY <1>0, <1>6, <2>1, <2>2 DEF LinkInv, ClientInv, Linked
      <3> QED BY <1>8, <2>2, <3>1 DEF ClientStep
    <2>3. CASE m = k /\ client[k][s].state = "wait_start"
      <3>1. Synced(k, s)'
        BY <1>3, <1>5, <2>1, <2>3 DEF Synced
      <3> QED BY <1>9, <2>1, <2>3, <3>1 DEF ClientStep
    <2>4. CASE m = k /\ client[k][s].state = "wait_end"
      <3>1. sent
        BY <1>3, <1>5, <1>11, <2>1, <2>4
      <3>2. Synced(k, s)'
        BY <1>3, <1>5, <2>1, <2>4, <3>1 DEF Synced
      <3> QED BY <1>10, <2>1, <2>4, <3>1, <3>2 DEF ClientStep
    <2>5. CASE m = k /\ client[k][s].state \notin {"wait_start", "wait_end"}
      <3>1. s \notin next
        BY <1>5, <2>1, <2>5
      <3> QED BY <1>8, <2>5, <3>1 DEF ClientStep
    <2> QED BY <2>2, <2>3, <2>4, <2>5
  <1>12. ASSUME NEW s \in Node, Fit(s)', Cached(s)'
         PROVE  CacheStep(s)
    <2>1. masterhost'[s] \in Node /\ masterhost'[s] = masterhost[s]
          /\ client'[masterhost[s]][s] = None /\ repl_state[s] # "transfer"
      BY <1>0, <1>1, <1>12 DEF Cached, LinkInv, UpstreamInv, TypeOK
    <2>2. CASE masterhost[s] # k
      BY <1>6, <1>8, <2>1, <2>2 DEF CacheStep
    <2>3. CASE masterhost[s] = k
      <3>1. client[k][s] = None
        <4> SUFFICES ASSUME client[k][s] # None PROVE FALSE
          OBVIOUS
        <4>1. client[k][s].state # "wait_start" /\ client[k][s].state # "wait_end"
          BY <1>0, <2>1 DEF LinkInv, ClientInv, Linked
        <4> QED BY <1>3, <1>5, <2>1, <2>3, <4>1
      <3> QED BY <1>4, <1>8, <2>1, <2>3, <3>1 DEF CacheStep
    <2> QED BY <2>2, <2>3
  <1>13. WaitInv'
    BY <1>0, <1>1 DEF StreamInv, WaitInv
  <1> QED BY <1>11, <1>12, <1>13, StreamKept

------------------------------------------------------------------------------
(* Feeding: what an attached and a cached slave get.                        *)

\* The client in WAIT is the one before the step, or waits for the write w to database d
\* that the step brings into the stream.
StillWaits(m, d, w) ==
    Waits(m)' => \/ waiting' = waiting /\ Waits(m)
                 \/ waiting'.off = offset'[m] /\ waiting'.entry = <<d, w>>

\* An attached slave after a write.
LEMMA FedSynced ==
    ASSUME Inv, NEW m \in Node, NEW s \in Node, NEW d \in DB, NEW w \in Nat, NEW cl,
           Fed(m, d, w, cl), cl[m][s] = client[m][s], Synced(m, s),
           data'[m] = Append(data[m], <<d, w>>), data'[s] = data[s], child' = child,
           upstream'[s] = upstream[s], misplaced' = misplaced, astray' = astray,
           StillWaits(m, d, w)
    PROVE  SyncedOK(m, s)'
  <1> DEFINE items == Switch(m, d) \o <<Set(w)>>
             buf == client[m][s].buf
             u == upstream[s]
             base == Base(m, s)
  <1>1. TypeOK /\ Linked(m, s) /\ SyncedOK(m, s) /\ client[m][s] \in Client
    BY DEF Inv, LinkInv, ClientInv, StreamInv, SyncedInv, Synced, TypeOK
  <1>2. /\ client[m][s].state \in {"wait_end", "send_bulk", "online"}
        /\ buf \in Seq(Item) /\ client[m][s].file \in Log \cup {None}
    BY <1>1, ClientFields DEF Synced
  <1>3. u \in Upstream /\ u.off \in Nat /\ u.db \in DB
    <2>1. u # None /\ u \in Upstream \cup {None}
      BY <1>1 DEF Linked, Inv, LinkInv, UpstreamInv, TypeOK
    <2> QED BY <2>1 DEF Upstream
  <1>4. items \in Seq(Item) /\ backlog[m] \in Seq(Item) /\ slaveseldb[m] \in DB \cup {None}
        /\ offset[m] \in Nat
    BY <1>1, SwitchType DEF Linked, TypeOK
  <1>5. /\ offset'[m] = offset[m] + Len(items)
        /\ backlog'[m] = Kept(backlog[m] \o items)
        /\ slaveseldb'[m] = d
        /\ client'[m][s] # None /\ client'[m][s].state = client[m][s].state
        /\ client'[m][s].file = client[m][s].file
        /\ client'[m][s].buf = buf \o items
    BY <1>1 DEF Fed, Synced, TypeOK
  <1>6. Base(m, s)' = base
    BY <1>5 DEF Base
  <1>7. s \notin astray => base \in Log /\ base # None
    BY <1>1, <1>2 DEF SyncedOK, Base, TypeOK
  <1>8. Len(buf \o items) = Len(buf) + Len(items) /\ Len(buf) \in Nat /\ Len(items) \in Nat
    BY <1>2, <1>4, ConcatType
  <1>9. ASSUME s \notin astray
        PROVE  Leads(buf \o items, base, u.db, data'[m], d)
    <2>1. Leads(buf, base, u.db, data[m], slaveseldb[m])
      BY <1>1, <1>9 DEF SyncedOK
    <2> HIDE DEF buf, base, u
    <2>2. Leads(buf \o ((IF slaveseldb[m] = d THEN <<>> ELSE <<Select(d)>>) \o <<Set(w)>>),
                base, u.db, Append(data[m], <<d, w>>), d)
      BY <1>2, <1>3, <1>4, <1>7, <1>9, <2>1, LeadsFed
    <2> QED BY <2>2 DEF Switch
  <1>10. ASSUME Fit(s)
         PROVE  /\ u.off + Len(buf \o items) = offset'[m]
                /\ Ends(backlog'[m], buf \o items)
    <2>1. u.off + Len(buf) = offset[m] /\ Ends(backlog[m], buf)
      BY <1>1, <1>10 DEF SyncedOK
    <2> HIDE DEF buf, items, u
    <2>2. u.off + Len(buf \o items) = offset'[m]
      BY <1>3, <1>4, <1>5, <1>8, <2>1
    <2> QED BY <1>2, <1>4, <1>5, <2>1, <2>2, EndsFed
  <1>11. ASSUME Fit(s), Waits(m)'
         PROVE  Brings(buf \o items, base, u.db, u.off, waiting')
    <2>1. base \in Log /\ s \notin astray /\ u.off + Len(buf) = offset[m]
      BY <1>1, <1>7, <1>11 DEF Fit, SyncedOK
    <2>2. CASE waiting' = waiting /\ Waits(m)
      <3>1. waiting.off \in Nat /\ waiting.off <= offset[m]
        BY <1>1, <2>2 DEF Waits, TypeOK, Inv, StreamInv, WaitInv
      <3>2. Brings(buf, base, u.db, u.off, waiting)
        BY <1>1, <1>11, <2>2 DEF SyncedOK
      <3> HIDE DEF buf, items, u, base
      <3>3. Brings(buf \o items, base, u.db, u.off, waiting)
        BY <1>2, <1>3, <1>4, <2>1, <3>1, <3>2, BringsFed
      <3> QED BY <2>2, <3>3
    <2>3. CASE waiting'.off = offset'[m] /\ waiting'.entry = <<d, w>>
      <3>1. buf \o items \in Seq(Item) /\ offset'[m] = u.off + Len(buf \o items)
        BY <1>2, <1>4, <1>10, <1>11, ConcatType
      <3>2. waiting'.off \in Nat /\ waiting'.off >= u.off + Len(buf \o items)
        <4> DEFINE off == u.off
                   len == Len(buf \o items)
        <4>1. off \in Nat /\ len \in Nat /\ waiting'.off = off + len
          <5> HIDE DEF buf, items, u
          <5>1. len \in Nat
            BY <1>8
          <5> QED BY <1>3, <2>3, <3>1, <5>1
        <4> HIDE DEF off, len
        <4>2. waiting'.off \in Nat /\ waiting'.off >= off + len
          BY <4>1
        <4> QED BY <4>2 DEF off, len
      <3>3. waiting'.entry \in ToSet(data'[m])
        <4>1. data[m] \in Log /\ <<d, w>> \in DB \X Nat
          BY <1>1 DEF TypeOK
        <4> QED BY <2>3, <4>1, ToSetAppend
      <3>4. Leads(buf \o items, base, u.db, data'[m], d)
        BY <1>9, <2>1
      <3> HIDE DEF buf, items, u, base
      <3>5. PICK wait : wait = waiting'
        OBVIOUS
      <3>6. Brings(buf \o items, base, u.db, u.off, wait)
        BY <1>3, <3>1, <3>2, <3>3, <3>4, <3>5, BringsLast
      <3> QED BY <3>5, <3>6
    <2> QED BY <1>11, <2>2, <2>3 DEF StillWaits
  <1> HIDE DEF buf, items, base, u
  <1>12. upstream'[s] = u /\ (Fit(s)' <=> Fit(s))
    BY DEF Fit, u
  <1> HIDE DEF Fit, Base, Waits
  <1>13. base # None \/ s \in astray
    BY <1>7
  <1> QED BY <1>5, <1>6, <1>9, <1>10, <1>11, <1>12, <1>13 DEF SyncedOK

\* A slave that waits for the next BGSAVE after a write: a SELECT at most.
LEMMA FedStart ==
    ASSUME Inv, NEW m \in Node, NEW s \in Node, NEW d \in DB, NEW w \in Nat, NEW cl,
           Fed(m, d, w, cl), cl[m][s] = client[m][s],
           client[m][s] # None, ~Synced(m, s), upstream'[s] = upstream[s]
    PROVE  StartOK(m, s)'
  <1> DEFINE items == Switch(m, d) \o <<Set(w)>>
             buf == client[m][s].buf
             more == Switch(m, d)
             u == upstream[s]
  <1>1. TypeOK /\ Linked(m, s) /\ StartOK(m, s) /\ client[m][s] \in Client
    BY DEF Inv, LinkInv, ClientInv, StreamInv, StartInv, Synced, TypeOK
  <1>2. client[m][s].state = "wait_start" /\ buf \in Seq(Item)
    BY <1>1, ClientFields DEF Synced
  <1>3. more \in Seq(Item) /\ offset[m] \in Nat /\ slaveseldb[m] \in DB \cup {None}
        /\ u.off \in Nat
    <2>1. u # None /\ u \in Upstream \cup {None}
      BY <1>1, <1>2 DEF Linked, Inv, LinkInv, UpstreamInv, TypeOK
    <2> QED BY <1>1, <2>1, SwitchType DEF TypeOK, Upstream
  <1>4. /\ offset'[m] = offset[m] + Len(items)
        /\ slaveseldb'[m] = d
        /\ client'[m][s].buf = buf \o more
    <2>1. offset'[m] = offset[m] + Len(items) /\ slaveseldb'[m] = d
      BY <1>1 DEF Fed, TypeOK
    <2>2. client'[m][s].state = "wait_start"
      BY <1>2 DEF Fed
    <2>3. client'[m][s].buf = buf \o more
      BY <2>2 DEF Fed
    <2> QED BY <2>1, <2>3
  <1>5. Len(more) \in Nat /\ Len(items) = Len(more) + 1
    <2>1. <<Set(w)>> \in Seq(Item) /\ Len(<<Set(w)>>) = 1
      <3>1. Set(w) \in Item
        BY SetType
      <3> HIDE DEF Item
      <3> QED BY <3>1
    <2> HIDE DEF more
    <2> QED BY <1>3, <2>1, ConcatType DEF more
  <1>6. /\ buf \o more \in Seq(Item) /\ Len(buf \o more) = Len(buf) + Len(more)
        /\ Len(buf) \in Nat
        /\ \A i \in 1..Len(buf) : (buf \o more)[i] = buf[i]
        /\ \A i \in 1..Len(more) : (buf \o more)[Len(buf) + i] = more[i]
    BY <1>2, <1>3, ConcatType
  <1>7. /\ \A i \in 1..Len(buf) : buf[i].op = "select"
        /\ slaveseldb[m] # None => buf # <<>> /\ buf[Len(buf)].arg = slaveseldb[m]
        /\ u.off + Len(buf) <= offset[m]
    BY <1>1 DEF StartOK
  <1>8. u.off + Len(buf \o more) < offset'[m] /\ u.off + Len(buf \o more) # offset'[m]
        /\ u.off + Len(buf \o more) <= offset'[m]
    <2> DEFINE off == u.off
               len == Len(buf)
    <2>1. off \in Nat /\ len \in Nat /\ off + len <= offset[m]
          /\ Len(buf \o more) = len + Len(more) /\ offset'[m] = offset[m] + (Len(more) + 1)
      BY <1>3, <1>4, <1>5, <1>6, <1>7
    <2> HIDE DEF off, len, more, buf, u
    <2>2. /\ off + (len + Len(more)) < offset[m] + (Len(more) + 1)
          /\ off + (len + Len(more)) # offset[m] + (Len(more) + 1)
          /\ off + (len + Len(more)) <= offset[m] + (Len(more) + 1)
      BY <1>3, <1>5, <2>1
    <2> QED BY <2>1, <2>2 DEF off
  <1>11. SUFFICES /\ \A i \in 1..Len(buf \o more) : (buf \o more)[i].op = "select"
                  /\ buf \o more # <<>> /\ (buf \o more)[Len(buf \o more)].arg = d
    BY <1>4, <1>8 DEF StartOK
  <1>9. CASE slaveseldb[m] = d
    <2>1. more = <<>>
      BY <1>9 DEF Switch
    <2>2. buf \o more = buf
      BY <1>2, <2>1
    <2>3. d # None
      BY NoneIsNoValue
    <2> HIDE DEF buf, more
    <2> QED BY <1>7, <1>9, <2>2, <2>3
  <1>10. CASE slaveseldb[m] # d
    <2>1. more = <<Select(d)>>
      BY <1>10 DEF Switch
    <2>2. Len(more) = 1 /\ more[1].op = "select" /\ more[1].arg = d
      BY <2>1 DEF Select
    <2> HIDE DEF more, buf
    <2>3. /\ Len(buf \o more) = Len(buf) + 1
          /\ (buf \o more)[Len(buf) + 1] = more[1]
      BY <1>6, <2>2
    <2>4. \A i \in 1..Len(buf \o more) : (buf \o more)[i].op = "select"
      <3> SUFFICES ASSUME NEW i \in 1..Len(buf \o more)
                   PROVE  (buf \o more)[i].op = "select"
        OBVIOUS
      <3>1. i \in 1..Len(buf) \/ i = Len(buf) + 1
        BY <1>6, <2>3
      <3> QED BY <1>6, <1>7, <2>2, <2>3, <3>1
    <2>5. buf \o more # <<>>
      BY <1>6, <2>3
    <2>6. (buf \o more)[Len(buf \o more)].arg = d
      BY <2>2, <2>3
    <2> QED BY <2>4, <2>5, <2>6
  <1> QED BY <1>9, <1>10

\* A slave that is not attached after a write.
LEMMA FedCached ==
    ASSUME Inv, NEW m \in Node, NEW s \in Node, NEW d \in DB, NEW w \in Nat, NEW cl,
           Fed(m, d, w, cl), masterhost[s] = m, masterhost'[s] = m, Cached(s), Fit(s),
           data'[m] = Append(data[m], <<d, w>>), data'[s] = data[s],
           upstream'[s] = upstream[s], StillWaits(m, d, w)
    PROVE  CachedOK(s)'
  <1> DEFINE items == Switch(m, d) \o <<Set(w)>>
             u == upstream[s]
             n == offset[m] - u.off
  <1>1. TypeOK /\ CachedOK(s)
    BY DEF Inv, StreamInv, CachedInv
  <1>2. u \in Upstream /\ u.off \in Nat /\ u.db \in DB
    BY <1>1 DEF Cached, TypeOK, Upstream
  <1>3. items \in Seq(Item) /\ backlog[m] \in Seq(Item) /\ slaveseldb[m] \in DB \cup {None}
        /\ offset[m] \in Nat /\ data[s] \in Log
    BY <1>1, SwitchType DEF Fed, TypeOK
  <1>4. /\ offset'[m] = offset[m] + Len(items)
        /\ backlog'[m] = Kept(backlog[m] \o items)
        /\ slaveseldb'[m] = d
    BY <1>1 DEF Fed, TypeOK
  <1>5. /\ u.off <= offset[m]
        /\ Reaches(m, u.off) =>
              /\ Leads(Lacks(m, u.off), data[s], u.db, data[m], slaveseldb[m])
              /\ Waits(m) => Brings(Lacks(m, u.off), data[s], u.db, u.off, waiting)
    BY <1>1 DEF CachedOK
  <1>6. Len(items) \in Nat /\ Len(backlog[m]) \in Nat
    BY <1>3, ConcatType
  <1>7. n \in Nat /\ offset'[m] - u.off = n + Len(items) /\ u.off <= offset'[m]
        /\ n + u.off = offset[m]
    BY <1>2, <1>3, <1>4, <1>5, <1>6
  <1> HIDE DEF items, n
  <1>8. ASSUME Reaches(m, u.off)'
        PROVE  /\ Leads(Lacks(m, u.off)', data[s], u.db, data'[m], d)
               /\ Waits(m)' => Brings(Lacks(m, u.off)', data[s], u.db, u.off, waiting')
    <2> DEFINE old == LastN(backlog[m], n)
    <2>1. upstream' [s] = u /\ n + Len(items) <= Len(Kept(backlog[m] \o items))
      BY <1>4, <1>7, <1>8 DEF Reaches
    <2>2. n <= Len(backlog[m])
          /\ LastN(Kept(backlog[m] \o items), n + Len(items)) = old \o items
      BY <1>3, <1>7, <2>1, LastNFed
    <2>3. Reaches(m, u.off) /\ Lacks(m, u.off) = old
      BY <2>2 DEF Reaches, Lacks, n, Fed
    <2>4. Lacks(m, u.off)' = old \o items
      BY <1>4, <1>7, <2>1, <2>2 DEF Lacks
    <2>5. old \in Seq(Item) /\ Len(old) = n
      <3>1. n \in 0..Len(backlog[m])
        BY <1>6, <1>7, <2>2
      <3> QED BY <1>3, <3>1, LastNFacts
    <2>6. /\ Leads(old, data[s], u.db, data[m], slaveseldb[m])
          /\ Waits(m) => Brings(old, data[s], u.db, u.off, waiting)
      BY <1>5, <2>3
    <2> HIDE DEF old, u
    <2>7. Leads(old \o items, data[s], u.db, data'[m], d)
      <3>1. Leads(old \o ((IF slaveseldb[m] = d THEN <<>> ELSE <<Select(d)>>) \o <<Set(w)>>),
                  data[s], u.db, Append(data[m], <<d, w>>), d)
        BY <1>2, <1>3, <2>5, <2>6, LeadsFed
      <3> QED BY <3>1 DEF Switch, items
    <2>8. ASSUME Waits(m)'
          PROVE  Brings(old \o items, data[s], u.db, u.off, waiting')
      <3>1. CASE waiting' = waiting /\ Waits(m)
        <4>1. waiting.off \in Nat /\ waiting.off <= u.off + Len(old)
          <5>1. waiting.off \in Nat /\ waiting.off <= offset[m]
            BY <1>1, <3>1 DEF Waits, TypeOK, Inv, StreamInv, WaitInv
          <5>2. u.off + Len(old) = offset[m]
            BY <1>2, <1>7, <2>5
          <5> QED BY <5>1, <5>2
        <4>2. Brings(old \o items, data[s], u.db, u.off, waiting)
          BY <1>2, <1>3, <2>5, <2>6, <3>1, <4>1, BringsFed
        <4> QED BY <3>1, <4>2
      <3>2. CASE waiting'.off = offset'[m] /\ waiting'.entry = <<d, w>>
        <4>1. old \o items \in Seq(Item) /\ Len(old \o items) = n + Len(items)
          BY <1>3, <2>5, ConcatType
        <4>2. waiting'.off \in Nat /\ waiting'.off >= u.off + Len(old \o items)
          <5> DEFINE off == u.off
                     len == Len(items)
          <5>1. off \in Nat /\ len \in Nat /\ n \in Nat /\ Len(old \o items) = n + len
                /\ waiting'.off = offset'[m] /\ offset'[m] - off = n + len
                /\ offset'[m] = offset[m] + len /\ offset[m] \in Nat
            BY <1>2, <1>3, <1>4, <1>6, <1>7, <3>2, <4>1
          <5> HIDE DEF off, len
          <5>2. waiting'.off \in Nat /\ waiting'.off >= off + Len(old \o items)
            BY <5>1
          <5> QED BY <5>2 DEF off
        <4>3. waiting'.entry \in ToSet(data'[m])
          <5>1. data[m] \in Log /\ <<d, w>> \in DB \X Nat
            BY <1>1 DEF TypeOK
          <5> QED BY <3>2, <5>1, ToSetAppend
        <4>4. PICK wait : wait = waiting'
          OBVIOUS
        <4>5. Brings(old \o items, data[s], u.db, u.off, wait)
          BY <1>2, <2>7, <4>1, <4>2, <4>3, <4>4, BringsLast
        <4> QED BY <4>4, <4>5
      <3> QED BY <2>8, <3>1, <3>2 DEF StillWaits
    <2> QED BY <2>4, <2>7, <2>8
  <1>9. SUFFICES /\ u'.off <= offset'[m]
                 /\ Reaches(m, u.off)' =>
                      /\ Leads(Lacks(m, u.off)', data'[s], u'.db, data'[m], slaveseldb'[m])
                      /\ Waits(m)' =>
                            Brings(Lacks(m, u.off)', data'[s], u'.db, u'.off, waiting')
    BY DEF CachedOK
  <1>10. u' = u
    OBVIOUS
  <1> HIDE DEF Reaches, Lacks, Waits, u
  <1> QED BY <1>4, <1>7, <1>8, <1>10

------------------------------------------------------------------------------
(* Writing and reading the stream.                                          *)

\* A slave of m after a write that m executes and feeds or does not feed.
LEMMA FeedClient ==
    ASSUME Inv, NEW m \in Node, NEW s \in Node, NEW d \in DB, NEW w \in Nat, NEW cl,
           NotFed(m, cl) \/ Fed(m, d, w, cl), cl[m][s] = client[m][s], client'[m][s] # None,
           data'[m] = Append(data[m], <<d, w>>), data'[s] = data[s], child' = child,
           upstream'[s] = upstream[s], misplaced' = misplaced, astray' = astray,
           StillWaits(m, d, w)
    PROVE  ClientStep(m, s)
  <1>1. Fed(m, d, w, cl) /\ client[m][s] # None
    <2>1. Slaves(m) = {} => client[m][s] = None
      BY DEF Slaves
    <2> QED BY <2>1 DEF NotFed, Fed
  <1>2. client'[m][s].state = client[m][s].state
    BY <1>1 DEF Fed
  <1>3. CASE Synced(m, s)
    <2>1. Synced(m, s)'
      BY <1>2, <1>3 DEF Synced
    <2> QED BY <1>1, <1>3, <2>1, FedSynced DEF ClientStep
  <1>4. CASE ~Synced(m, s)
    <2>1. ~Synced(m, s)'
      BY <1>1, <1>2, <1>4 DEF Synced
    <2> QED BY <1>1, <1>4, <2>1, FedStart DEF ClientStep
  <1> QED BY <1>3, <1>4

\* The same for a slave that is not attached.
LEMMA FeedCache ==
    ASSUME Inv, NEW m \in Node, NEW s \in Node, NEW d \in DB, NEW w \in Nat, NEW cl,
           NotFed(m, cl) \/ Fed(m, d, w, cl),
           masterhost[s] = m, masterhost'[s] = m, Cached(s), Fit(s),
           data'[m] = Append(data[m], <<d, w>>), data'[s] = data[s],
           upstream'[s] = upstream[s], StillWaits(m, d, w)
    PROVE  CachedOK(s)'
  <1>1. CASE Fed(m, d, w, cl)
    BY <1>1, FedCached
  <1>2. CASE NotFed(m, cl)
    <2>1. upstream[s].off <= offset[m]
      BY DEF Inv, StreamInv, CachedInv, CachedOK
    <2>2. offset'[m] = offset[m] /\ backlog'[m] = None
      BY <1>2 DEF NotFed
    <2> QED BY <2>1, <2>2 DEF CachedOK, Reaches
  <1> QED BY <1>1, <1>2

\* A client writes to a master.
LEMMA WriteStream ==
    ASSUME Inv, TypeOK', LinkInv', NEW k \in Node, NEW d \in DB, Write(k, d)
    PROVE  StreamInv'
  <1> USE DEF disk, link, history
  <1> DEFINE w == writes + 1
             write == <<d, w>>
  <1>0. TypeOK /\ LinkInv /\ StreamInv
    BY DEF Inv
  <1>1. /\ masterhost[k] = None
        /\ data' = [data EXCEPT ![k] = Append(data[k], write)]
        /\ Feed(k, d, w, client)
        /\ waiting' = IF waiting = None THEN [at |-> k, entry |-> write, off |-> offset'[k]]
                                        ELSE waiting
        /\ renumbered' = (waiting # None /\ renumbered)
        /\ UNCHANGED <<rdb, child, runid, masterhost, repl_state, upstream, misplaced, astray>>
    BY DEF Write
  <1>2. w \in Nat /\ client \in [Node -> [Node -> Client \cup {None}]]
    BY <1>0 DEF TypeOK
  <1>3. Slaves(k) # {} => backlog[k] # None
    BY <1>0 DEF LinkInv, ClientInv, Linked, Slaves
  <1> HIDE DEF w
  <1>4. NotFed(k, client) \/ Fed(k, d, w, client)
    BY <1>0, <1>1, <1>2, <1>3, FeedEffect
  <1>5. /\ \A m, s \in Node : m # k => client'[m][s] = client[m][s]
        /\ \A m \in Node : m # k => /\ offset'[m] = offset[m] /\ backlog'[m] = backlog[m]
                                    /\ slaveseldb'[m] = slaveseldb[m]
                                    /\ data'[m] = data[m]
    <2>1. \A m \in Node : m # k => data'[m] = data[m]
      BY <1>0, <1>1 DEF TypeOK
    <2>2. CASE NotFed(k, client)
      BY <2>1, <2>2 DEF NotFed
    <2>3. CASE Fed(k, d, w, client)
      BY <1>0, <2>1, <2>3 DEF Fed, TypeOK
    <2> QED BY <1>4, <2>2, <2>3
  <1>6. data'[k] = Append(data[k], <<d, w>>)
    BY <1>0, <1>1 DEF TypeOK
  <1>7. StillWaits(k, d, w)
    BY <1>1 DEF StillWaits, Waits
  <1>8. ASSUME NEW m \in Node, m # k
        PROVE  Waits(m)' => waiting' = waiting /\ Waits(m)
    BY <1>1, <1>8 DEF Waits
  <1>9. \A m, s \in Node : m # k /\ s # k => Unmoved(m, s)
    BY <1>1, <1>5, <1>8 DEF Unmoved
  <1>10. ASSUME NEW m \in Node, NEW s \in Node, client'[m][s] # None
         PROVE  ClientStep(m, s)
    <2>1. masterhost'[s] = m /\ s # k
      BY <1>1, <1>10, NoneIsNoValue DEF LinkInv, ClientInv, Linked
    <2>2. CASE m # k
      BY <1>9, <2>1, <2>2 DEF ClientStep
    <2>3. CASE m = k
      <3>1. data'[s] = data[s]
        BY <1>5, <2>1
      <3> QED BY <1>1, <1>2, <1>4, <1>6, <1>7, <1>10, <2>3, <3>1, FeedClient
    <2> QED BY <2>2, <2>3
  <1>11. ASSUME NEW s \in Node, Fit(s)', Cached(s)'
         PROVE  CacheStep(s)
    <2>1. masterhost'[s] \in Node /\ masterhost'[s] = masterhost[s] /\ s # k
      BY <1>0, <1>1, <1>11 DEF Cached, LinkInv, UpstreamInv, TypeOK
    <2>2. CASE masterhost[s] # k
      BY <1>9, <2>1, <2>2 DEF CacheStep
    <2>3. CASE masterhost[s] = k
      <3>1. client[k][s] = None
        <4>1. client'[k][s] = None
          BY <1>11, <2>1, <2>3 DEF Cached
        <4> QED BY <1>4, <4>1 DEF NotFed, Fed
      <3>2. Cached(s) /\ Fit(s) /\ data'[s] = data[s]
        BY <1>1, <1>5, <1>11, <2>1, <2>3, <3>1 DEF Cached, Fit
      <3>3. CachedOK(s)'
        BY <1>1, <1>2, <1>4, <1>6, <1>7, <2>1, <2>3, <3>2, FeedCache
      <3> QED BY <3>3 DEF CacheStep
    <2> QED BY <2>2, <2>3
  <1>12. WaitInv'
    <2> SUFFICES ASSUME waiting' # None /\ ~renumbered'
                 PROVE  /\ masterhost'[waiting'.at] = None
                        /\ waiting'.off <= offset'[waiting'.at]
                        /\ waiting'.entry \in ToSet(data'[waiting'.at])
      BY DEF WaitInv
    <2>1. data[k] \in Log /\ <<d, w>> \in DB \X Nat /\ offset[k] \in Nat
      BY <1>0, <1>2 DEF TypeOK
    <2>2. ToSet(data'[k]) = ToSet(data[k]) \cup {<<d, w>>}
      BY <1>6, <2>1, ToSetAppend
    <2>3. offset'[k] \in Nat /\ offset[k] <= offset'[k]
      <3>1. offset'[k] \in Nat
        BY DEF TypeOK
      <3>2. CASE NotFed(k, client)
        BY <2>1, <3>2 DEF NotFed
      <3>3. CASE Fed(k, d, w, client)
        <4> DEFINE more == Switch(k, d) \o <<Set(w)>>
        <4>1. offset'[k] = offset[k] + Len(more) /\ more \in Seq(Item)
          BY <1>0, <1>2, <3>3, SwitchType DEF Fed, TypeOK
        <4> HIDE DEF more
        <4>2. Len(more) \in Nat
          BY <4>1, ConcatType
        <4> QED BY <2>1, <4>1, <4>2
      <3> QED BY <1>4, <3>1, <3>2, <3>3
    <2>4. CASE waiting = None
      BY <1>1, <2>2, <2>3, <2>4
    <2>5. CASE waiting # None
      <3>1. /\ waiting' = waiting /\ waiting.at \in Node /\ waiting.off \in Nat
            /\ masterhost[waiting.at] = None
            /\ waiting.off <= offset[waiting.at]
            /\ waiting.entry \in ToSet(data[waiting.at])
        BY <1>0, <1>1, <2>5 DEF StreamInv, WaitInv, TypeOK
      <3>2. CASE waiting.at = k
        <4>1. masterhost'[waiting'.at] = None
          BY <1>1, <3>1
        <4>2. waiting'.off <= offset'[waiting'.at]
          <5>1. waiting'.off = waiting.off /\ offset'[waiting'.at] = offset'[k]
            BY <3>1, <3>2
          <5>2. waiting.off \in Nat /\ waiting.off <= offset[k]
            BY <3>1, <3>2
          <5> QED BY <2>1, <2>3, <5>1, <5>2
        <4>3. waiting'.entry \in ToSet(data'[waiting'.at])
          BY <2>2, <3>1, <3>2
        <4> QED BY <4>1, <4>2, <4>3
      <3>3. CASE waiting.at # k
        <4>1. masterhost'[waiting'.at] = None
          BY <1>1, <3>1
        <4>2. waiting'.off <= offset'[waiting'.at] /\ waiting'.entry \in ToSet(data'[waiting'.at])
          BY <1>5, <3>1, <3>3
        <4> QED BY <4>1, <4>2
      <3> QED BY <3>2, <3>3
    <2> QED BY <2>4, <2>5
  <1> QED BY <1>10, <1>11, <1>12, StreamKept

\* A slave reads an item and feeds it to its own slaves.
LEMMA DeliverStream ==
    ASSUME Inv, TypeOK', LinkInv', NEW n \in Node, Deliver(n) PROVE StreamInv'
  <1> USE DEF disk, blocked, counters, history
  <1>0. TypeOK /\ LinkInv /\ StreamInv
    BY DEF Inv
  <1> DEFINE k == masterhost[n]
             u == upstream[n]
             old == client[k][n]
             buf == old.buf
             item == Head(buf)
             c == [old EXCEPT !.buf = Tail(buf)]
             rest == [client EXCEPT ![k][n] = c]
             db1 == IF item.op = "select" THEN item.arg ELSE u.db
             u1 == [u EXCEPT !.off = u.off + 1, !.db = db1]
             log1 == IF item.op = "select" THEN data[n] ELSE Append(data[n], <<u.db, item.arg>>)
  <1>1. /\ repl_state[n] = "connected" /\ old # None /\ buf # <<>>
        /\ upstream' = [upstream EXCEPT ![n] = u1]
        /\ IF item.op = "select"
             THEN client' = rest /\ UNCHANGED <<data, offset, backlog, slaveseldb>>
             ELSE /\ data' = [data EXCEPT ![n] = log1]
                  /\ Feed(n, u.db, item.arg, rest)
        /\ UNCHANGED <<rdb, child, runid, masterhost, repl_state, blocked, counters, history>>
    BY DEF Deliver
  <1>2. k \in Node /\ k # n /\ u \in Upstream /\ Linked(k, n)
    <2>1. upstream[n] # None /\ k # None /\ k # n
      BY <1>0, <1>1 DEF LinkInv, UpstreamInv
    <2>2. k \in Node /\ u \in Upstream
      BY <1>0, <2>1 DEF TypeOK
    <2> QED BY <1>0, <1>1, <2>1, <2>2 DEF LinkInv, ClientInv
  <1>3. old \in Client /\ buf \in Seq(Item) /\ old.state = "online" /\ item \in Item
        /\ data[n] \in Log /\ u.off \in Nat /\ u.db \in DB
    <2>1. old \in Client
      BY <1>0, <1>1, <1>2 DEF TypeOK
    <2>2. buf \in Seq(Item)
      BY <2>1, ClientFields
    <2>3. item \in Item
      <3> HIDE DEF Item, buf
      <3> QED BY <1>1, <2>2 DEF buf
    <2> QED BY <1>0, <1>1, <1>2, <2>1, <2>2, <2>3 DEF Linked, TypeOK, Upstream, Client
  <1>4. /\ c \in Client /\ c # None /\ c.state = "online" /\ c.buf = Tail(buf)
        /\ u1.off = u.off + 1 /\ u1.db = db1 /\ u1.runid = u.runid
        /\ Tail(buf) \in Seq(Item)
    <2>1. Tail(buf) \in Seq(Item)
      <3> HIDE DEF Item, buf
      <3> QED BY <1>1, <1>3 DEF buf
    <2> QED BY <1>2, <1>3, <2>1, NoneIsNoValue DEF Client, Upstream
  <1>5. Execute([log |-> data[n], db |-> u.db], item) = [log |-> log1, db |-> db1]
    BY DEF Execute
  <1> HIDE DEF c, u1, log1, db1, item
  <1>6. /\ rest \in [Node -> [Node -> Client \cup {None}]]
        /\ \A m, s \in Node : rest[m][s] = IF m = k /\ s = n THEN c ELSE client[m][s]
    BY <1>0, <1>2, <1>4 DEF TypeOK
  <1> HIDE DEF rest
  <1>7. data'[n] = log1
    <2>1. CASE item.op = "select"
      BY <1>1, <2>1 DEF log1
    <2>2. CASE item.op # "select"
      BY <1>0, <1>1, <2>2 DEF TypeOK
    <2> QED BY <2>1, <2>2
  <1>8. /\ upstream'[n] = u1
        /\ \A m \in Node : m # n => data'[m] = data[m] /\ upstream'[m] = upstream[m]
    BY <1>0, <1>1 DEF TypeOK
  <1>9. item.op # "select" => NotFed(n, rest) \/ Fed(n, u.db, item.arg, rest)
    <2> SUFFICES ASSUME item.op # "select"
                 PROVE  NotFed(n, rest) \/ Fed(n, u.db, item.arg, rest)
      OBVIOUS
    <2>1. Slaves(n) # {} => backlog[n] # None
      BY <1>0 DEF LinkInv, ClientInv, Linked, Slaves
    <2>2. item.arg \in Nat
      BY <1>3, ItemFields
    <2> QED BY <1>0, <1>1, <1>3, <1>6, <2>1, <2>2, FeedEffect
  <1>10. \A m \in Node : m # n =>
           /\ \A s \in Node : client'[m][s] = rest[m][s]
           /\ offset'[m] = offset[m] /\ backlog'[m] = backlog[m]
           /\ slaveseldb'[m] = slaveseldb[m]
    <2>1. CASE item.op = "select"
      BY <1>1, <2>1
    <2>2. CASE NotFed(n, rest)
      BY <2>2 DEF NotFed
    <2>3. CASE Fed(n, u.db, item.arg, rest)
      BY <1>0, <2>3 DEF Fed, TypeOK
    <2> QED BY <1>9, <2>1, <2>2, <2>3
  <1>11. \A m : Waits(m)' <=> Waits(m)
    BY <1>1 DEF Waits
  <1>12. \A m, s \in Node : m # n /\ s # n => Unmoved(m, s)
    BY <1>1, <1>6, <1>8, <1>10, <1>11 DEF Unmoved
  <1>13. ASSUME NEW s \in Node, item.op = "select", s # n
         PROVE  Unmoved(n, s)
    BY <1>1, <1>2, <1>6, <1>8, <1>11, <1>13 DEF Unmoved
  <1>14. SyncedOK(k, n)'
    <2>1. Synced(k, n) /\ SyncedOK(k, n)
      BY <1>0, <1>1, <1>2, <1>3 DEF StreamInv, SyncedInv, Synced
    <2>2. /\ client'[k][n] = c /\ Base(k, n) = data[n] /\ Base(k, n)' = log1
          /\ data'[k] = data[k] /\ offset'[k] = offset[k] /\ backlog'[k] = backlog[k]
          /\ slaveseldb'[k] = slaveseldb[k]
      BY <1>1, <1>2, <1>3, <1>4, <1>6, <1>7, <1>8, <1>10 DEF Base
    <2>3. (Fit(n)' <=> Fit(n)) /\ log1 # None
      <3>1. data'[n] \in Log
        BY DEF TypeOK
      <3> QED BY <1>1, <1>7, <3>1, NoneIsNoValue DEF Fit
    <2>4. ASSUME n \notin astray
          PROVE  Leads(Tail(buf), log1, db1, data[k], slaveseldb[k])
      <3>1. Leads(buf, data[n], u.db, data[k], slaveseldb[k])
        BY <2>1, <2>2, <2>4 DEF SyncedOK
      <3> HIDE DEF buf, u
      <3> QED BY <1>1, <1>3, <1>5, <3>1, LeadsTail DEF item
    <2>5. ASSUME Fit(n)
          PROVE  /\ u1.off + Len(Tail(buf)) = offset[k]
                 /\ Ends(backlog[k], Tail(buf))
      <3>1. u.off + Len(buf) = offset[k] /\ Ends(backlog[k], buf) /\ backlog[k] \in Seq(Item)
        BY <1>0, <1>2, <2>1, <2>5 DEF SyncedOK, Linked, TypeOK
      <3>2. Len(Tail(buf)) = Len(buf) - 1 /\ Len(buf) \in Nat
        <4> HIDE DEF buf, Item
        <4> QED BY <1>1, <1>3 DEF buf
      <3> HIDE DEF buf, u
      <3>3. u1.off + Len(Tail(buf)) = offset[k]
        BY <1>3, <1>4, <3>1, <3>2
      <3>4. Ends(backlog[k], Tail(buf))
        BY <1>1, <1>3, <3>1, EndsTail
      <3> QED BY <3>3, <3>4
    <2>6. ASSUME Fit(n), Waits(k)
          PROVE  Brings(Tail(buf), log1, db1, u1.off, waiting)
      <3>1. Brings(buf, data[n], u.db, u.off, waiting)
        BY <2>1, <2>2, <2>6 DEF SyncedOK
      <3> HIDE DEF buf, u
      <3>2. Brings(Tail(buf), log1, db1, u.off + 1, waiting)
        BY <1>1, <1>3, <1>5, <3>1, BringsTail DEF item
      <3> QED BY <1>4, <3>2
    <2> HIDE DEF Fit, Waits, Base, buf, u
    <2>7. masterhost'[n] = k /\ waiting' = waiting /\ astray' = astray
      BY <1>1
    <2> HIDE DEF k
    <2> QED BY <1>4, <1>8, <1>11, <2>2, <2>3, <2>4, <2>5, <2>6, <2>7 DEF SyncedOK, k
  <1>15. ASSUME NEW s \in Node, item.op # "select", s # n
         PROVE  /\ client'[n][s] # None => ClientStep(n, s)
                /\ masterhost[s] = n /\ Cached(s) /\ Fit(s) => CachedOK(s)'
    <2>1. NotFed(n, rest) \/ Fed(n, u.db, item.arg, rest)
      BY <1>9, <1>15
    <2>2. item.arg \in Nat /\ rest[n][s] = client[n][s] /\ data'[s] = data[s]
          /\ upstream'[s] = upstream[s] /\ data'[n] = Append(data[n], <<u.db, item.arg>>)
      BY <1>2, <1>3, <1>6, <1>7, <1>8, <1>15, ItemFields DEF log1
    <2>3. StillWaits(n, u.db, item.arg)
      BY <1>1 DEF StillWaits, Waits
    <2> HIDE DEF u
    <2>4. client'[n][s] # None => ClientStep(n, s)
      BY <1>1, <1>3, <2>1, <2>2, <2>3, FeedClient
    <2>5. masterhost[s] = n /\ Cached(s) /\ Fit(s) => CachedOK(s)'
      BY <1>1, <1>3, <2>1, <2>2, <2>3, FeedCache
    <2> QED BY <2>4, <2>5
  <1>16. ASSUME NEW m \in Node, NEW s \in Node, client'[m][s] # None
         PROVE  ClientStep(m, s)
    <2>1. masterhost'[s] = m /\ masterhost[s] = m
      BY <1>1, <1>16 DEF LinkInv, ClientInv, Linked
    <2>2. CASE s = n
      <3>1. m = k
        BY <2>1, <2>2
      <3>2. client'[k][n] = c /\ masterhost'[n] = masterhost[n]
        BY <1>1, <1>2, <1>6, <1>10
      <3>3. Synced(k, n)'
        BY <1>4, <3>2 DEF Synced
      <3> QED BY <1>14, <2>2, <3>1, <3>2, <3>3 DEF ClientStep
    <2>3. CASE s # n /\ m # n
      BY <1>12, <2>3 DEF ClientStep
    <2>4. CASE s # n /\ m = n
      BY <1>13, <1>15, <1>16, <2>4 DEF ClientStep
    <2> QED BY <2>2, <2>3, <2>4
  <1>17. ASSUME NEW s \in Node, Fit(s)', Cached(s)'
         PROVE  CacheStep(s)
    <2>1. masterhost'[s] \in Node /\ masterhost'[s] = masterhost[s] /\ s # masterhost[s]
      BY <1>0, <1>1, <1>17 DEF Cached, LinkInv, UpstreamInv, TypeOK
    <2>2. s # n
      <3>1. client'[k][n] = c
        BY <1>1, <1>2, <1>6, <1>10
      <3> QED BY <1>4, <1>17, <2>1, <3>1 DEF Cached
    <2>3. CASE masterhost[s] # n
      BY <1>12, <2>1, <2>2, <2>3 DEF CacheStep
    <2>4. CASE masterhost[s] = n /\ item.op = "select"
      BY <1>13, <2>1, <2>2, <2>4 DEF CacheStep
    <2>5. CASE masterhost[s] = n /\ item.op # "select"
      <3>1. client'[n][s] = None
        BY <1>17, <2>1, <2>5 DEF Cached
      <3>2. rest[n][s] = None
        BY <1>9, <2>5, <3>1 DEF NotFed, Fed
      <3>3. client[n][s] = None
        BY <1>6, <2>2, <3>2
      <3>4. Cached(s) /\ Fit(s)
        BY <1>1, <1>8, <1>17, <2>1, <2>2, <2>5, <3>3 DEF Cached, Fit
      <3> QED BY <1>15, <2>2, <2>5, <3>4 DEF CacheStep
    <2> QED BY <2>3, <2>4, <2>5
  <1>18. WaitInv'
    <2>1. waiting # None => waiting.at \in Node
      BY <1>0 DEF TypeOK
    <2>2. waiting # None /\ ~renumbered => waiting.at # n
      BY <1>0, <1>2, <2>1, NoneIsNoValue DEF StreamInv, WaitInv
    <2> QED BY <1>0, <1>1, <1>8, <1>10, <2>1, <2>2 DEF StreamInv, WaitInv
  <1> QED BY <1>16, <1>17, <1>18, StreamKept

------------------------------------------------------------------------------
(* The full resynchronization.                                              *)

\* The cases are those of syncCommand: the slave joins a BGSAVE, waits for the next, or
\* starts one.
LEMMA FullResyncStream ==
    ASSUME Inv, TypeOK', LinkInv', NEW n \in Node, FullResync(n) PROVE StreamInv'
  <1> USE DEF blocked, counters
  <1>0. TypeOK /\ LinkInv /\ StreamInv
    BY DEF Inv
  <1>k. PICK k \in Node : k = masterhost[n]
    BY <1>0 DEF FullResync, Asks, TypeOK
  <1> DEFINE first == backlog[k] = None
             off   == IF first THEN offset[k] + 1 ELSE offset[k]
             u1    == [runid |-> runid[k], off |-> off, db |-> DefaultDB]
  <1>1. PICK c \in Attached(k) :
           /\ client' = [client EXCEPT ![k][n] = c]
           /\ misplaced' = IF off + Len(c.buf) # off THEN misplaced \cup {n}
                                                     ELSE misplaced \ {n}
           /\ astray' = IF child[k] # None /\ Lost(k, c) THEN astray \cup {n}
                                                         ELSE astray \ {n}
    BY <1>k DEF FullResync
  <1>2. /\ Asks(n) /\ Serves(k)
        /\ child' = IF child[k] = None THEN [child EXCEPT ![k] = data[k]] ELSE child
        /\ IF first /\ Slaves(k) = {}
             THEN /\ offset' = [offset EXCEPT ![k] = offset[k] + 1]
                  /\ backlog' = [backlog EXCEPT ![k] = <<>>]
             ELSE UNCHANGED <<offset, backlog>>
        /\ slaveseldb' = [slaveseldb EXCEPT ![k] = None]
        /\ upstream' = [upstream EXCEPT ![n] = u1]
        /\ repl_state' = [repl_state EXCEPT ![n] = "transfer"]
        /\ UNCHANGED <<data, rdb, runid, masterhost, blocked, counters>>
    BY <1>k DEF FullResync
  <1>3. masterhost[n] = k /\ repl_state[n] = "connect" /\ k # n
    BY <1>0, <1>k, <1>2 DEF Asks, Serves, TypeOK
  <1>4. c \in Client /\ c # None /\ c.state \in {"wait_start", "wait_end"} /\ c.buf \in Seq(Item)
    <2>1. c \in Client /\ c.state \in {"wait_start", "wait_end"}
      BY <1>0, <1>3, AttachedType
    <2> QED BY <2>1, ClientFields, NoneIsNoValue
  <1>5. \A m, s \in Node : client'[m][s] = IF m = k /\ s = n THEN c ELSE client[m][s]
    BY <1>0, <1>1, <1>3 DEF TypeOK
  <1>6. \A m \in Node : client[m][n] = None
    BY <1>0, <1>3 DEF LinkInv, ClientInv, Linked
  <1>7. first => Slaves(k) = {}
    BY <1>0, <1>3 DEF LinkInv, ClientInv, Linked, Slaves
  <1>8. /\ offset'[k] = off /\ off \in Nat /\ offset[k] \in Nat
        /\ first => backlog'[k] = <<>> /\ off = offset[k] + 1
        /\ ~first => backlog'[k] = backlog[k] /\ off = offset[k]
    BY <1>0, <1>2, <1>3, <1>7 DEF TypeOK
  <1> HIDE DEF off, first
  <1>9. /\ upstream'[n] = u1 /\ u1.off = off /\ u1.db = DefaultDB
        /\ \A s \in Node : s # n => /\ upstream'[s] = upstream[s]
                                    /\ repl_state'[s] = repl_state[s]
        /\ slaveseldb'[k] = None /\ data' = data /\ masterhost' = masterhost
        /\ repl_state'[n] = "transfer"
        /\ child[k] = None => child'[k] = data[k]
        /\ child[k] # None => child' = child
    BY <1>0, <1>2, <1>3 DEF TypeOK
  <1> HIDE DEF u1
  <1>10. \A s \in Node : s # n => (s \in misplaced' <=> s \in misplaced)
                                  /\ (s \in astray' <=> s \in astray)
    BY <1>1
  <1>11. \A m : Waits(m)' <=> Waits(m)
    BY <1>2 DEF Waits
  <1>12. \A m \in Node : m # k => /\ offset'[m] = offset[m] /\ backlog'[m] = backlog[m]
                                  /\ slaveseldb'[m] = slaveseldb[m] /\ child'[m] = child[m]
    <2>1. \A m \in Node : m # k => offset'[m] = offset[m] /\ backlog'[m] = backlog[m]
      <3>1. CASE first /\ Slaves(k) = {}
        BY <1>0, <1>2, <3>1 DEF TypeOK
      <3>2. CASE ~(first /\ Slaves(k) = {})
        BY <1>2, <3>2
      <3> QED BY <3>1, <3>2
    <2>2. \A m \in Node : m # k => slaveseldb'[m] = slaveseldb[m] /\ child'[m] = child[m]
      BY <1>0, <1>2 DEF TypeOK
    <2> QED BY <2>1, <2>2
  <1>13. ASSUME NEW m \in Node, NEW s \in Node, s # n, m # k \/ ~first
         PROVE  Unmoved(m, s)
    <2>1. /\ client'[m][s] = client[m][s] /\ upstream'[s] = upstream[s]
          /\ repl_state'[s] = repl_state[s]
          /\ s \in misplaced => s \in misplaced'
          /\ s \in astray => s \in astray'
      BY <1>5, <1>9, <1>10, <1>13
    <2>2. /\ child[m] # None => child'[m] = child[m]
          /\ offset'[m] = offset[m] /\ backlog'[m] = backlog[m]
          /\ slaveseldb'[m] \in {slaveseldb[m], None}
      BY <1>8, <1>9, <1>12, <1>13
    <2> QED BY <1>2, <1>11, <2>1, <2>2 DEF Unmoved
  <1>14. client'[k][n] = c /\ child'[k] \in Log /\ data[k] \in Log
    <2>1. child[k] \in Log \cup {None} /\ data[k] \in Log
      BY <1>0 DEF TypeOK
    <2> QED BY <1>5, <1>9, <2>1
  <1>15. ASSUME c.state = "wait_start"
         PROVE  ClientStep(k, n)
    <2>1. c.buf = <<>>
      BY <1>15, NewClientType, EmptySeqs DEF Attached, NewClient
    <2>2. upstream'[n].off + Len(c.buf) = offset'[k] /\ client'[k][n].buf = c.buf
          /\ offset'[k] \in Nat
      BY <1>8, <1>9, <1>14, <2>1
    <2>3. StartOK(k, n)'
      BY <1>9, <2>1, <2>2 DEF StartOK
    <2>4. ~Synced(k, n)'
      BY <1>14, <1>15 DEF Synced
    <2> QED BY <2>3, <2>4 DEF ClientStep
  <1>16. ASSUME c.state = "wait_end", n \notin astray'
         PROVE  Leads(c.buf, child'[k], DefaultDB, data[k], None)
    <2>1. CASE child[k] = None
      <3>1. c.buf = <<>>
        BY <2>1, NewClientType, EmptySeqs DEF Attached
      <3> QED BY <1>9, <2>1, <3>1, LeadsNothing
    <2>2. CASE child[k] # None
      <3>1. PICK t \in Slaves(k) : client[k][t].state = "wait_end"
                                   /\ c = NewClient("wait_end", client[k][t].buf)
        <4>1. c # NewClient("wait_start", <<>>)
          BY <1>16 DEF NewClient
        <4> QED BY <2>2, <4>1 DEF Attached
      <3>2. t \in Node /\ client[k][t] # None /\ c.buf = client[k][t].buf
        BY <3>1 DEF Slaves, NewClient
      <3>3. t \notin astray
        BY <1>1, <1>16, <2>2, <3>1, <3>2 DEF Lost
      <3>4. Leads(c.buf, child[k], upstream[t].db, data[k], slaveseldb[k])
        BY <1>0, <3>1, <3>2, <3>3 DEF StreamInv, SyncedInv, Synced, SyncedOK, Base
      <3>5. upstream[t].db = DefaultDB
        BY <1>0, <3>1, <3>2 DEF LinkInv, ClientInv, Linked, UpstreamInv
      <3> QED BY <1>9, <2>2, <3>4, <3>5, LeadsForgotten
    <2> QED BY <2>1, <2>2
  <1>17. ASSUME c.state = "wait_end"
         PROVE  ClientStep(k, n)
    <2>1. Base(k, n)' = child'[k] /\ Synced(k, n)' /\ child'[k] # None
      BY <1>4, <1>14, <1>17, NoneIsNoValue DEF Base, Synced
    <2>2. Fit(n)' => c.buf = <<>> /\ n \notin astray'
      <3>1. Fit(n)' => off + Len(c.buf) = off
        BY <1>1 DEF Fit
      <3>2. Len(c.buf) \in Nat /\ (Len(c.buf) = 0 => c.buf = <<>>)
        BY <1>4
      <3> QED BY <1>8, <3>1, <3>2 DEF Fit
    <2>3. Fit(n)' => /\ upstream'[n].off + Len(c.buf) = offset'[k]
                     /\ Ends(backlog'[k], c.buf)
      BY <1>8, <1>9, <2>2 DEF Ends
    <2>4. ASSUME Fit(n)', Waits(k)
          PROVE  Brings(c.buf, child'[k], DefaultDB, upstream'[n].off, waiting)
      <3>1. data[k] = child'[k] /\ c.buf = <<>>
        BY <1>16, <1>17, <2>2, <2>4, LeadsByNothing
      <3>2. waiting.entry \in ToSet(data[k])
        BY <1>0, <2>4 DEF StreamInv, WaitInv, Waits
      <3> QED BY <3>1, <3>2, BringsNothing
    <2>5. waiting' = waiting
      BY <1>2
    <2> HIDE DEF Fit, Waits, Base
    <2>6. SyncedOK(k, n)'
      BY <1>9, <1>11, <1>14, <1>16, <1>17, <2>1, <2>3, <2>4, <2>5 DEF SyncedOK
    <2> QED BY <2>1, <2>6 DEF ClientStep
  <1>18. ASSUME NEW m \in Node, NEW s \in Node, client'[m][s] # None
         PROVE  ClientStep(m, s)
    <2>1. CASE s = n
      <3>1. m = k
        BY <1>5, <1>6, <1>18, <2>1
      <3> QED BY <1>4, <1>15, <1>17, <2>1, <3>1
    <2>2. CASE s # n
      <3>1. m = k => ~first
        BY <1>5, <1>7, <1>18, <2>2 DEF Slaves
      <3> QED BY <1>13, <2>2, <3>1 DEF ClientStep
    <2> QED BY <2>1, <2>2
  <1>19. ASSUME NEW s \in Node, Fit(s)', Cached(s)'
         PROVE  CacheStep(s)
    <2>1. s # n
      BY <1>9, <1>19 DEF Cached
    <2>2. masterhost'[s] \in Node /\ masterhost'[s] = masterhost[s]
      BY <1>9, <1>19 DEF Cached, LinkInv, UpstreamInv, TypeOK
    <2>3. CASE masterhost[s] # k \/ ~first
      BY <1>13, <2>1, <2>2, <2>3 DEF CacheStep
    <2>4. CASE masterhost[s] = k /\ first
      <3>1. Cached(s) /\ Fit(s)
        BY <1>2, <1>5, <1>9, <1>10, <1>19, <2>1, <2>4 DEF Cached, Fit
      <3>2. upstream[s].off <= offset[k] /\ upstream[s].off \in Nat
        <4>1. CachedOK(s)
          BY <1>0, <3>1 DEF StreamInv, CachedInv
        <4>2. upstream[s] \in Upstream
          BY <1>0, <3>1 DEF Cached, TypeOK
        <4>3. upstream[s].off \in Nat
          BY <4>2 DEF Upstream
        <4> QED BY <2>4, <4>1, <4>3 DEF CachedOK
      <3>3. backlog'[k] = <<>> /\ offset'[k] = offset[k] + 1
        BY <1>8, <2>4
      <3>4. upstream[s].off <= offset'[k] /\ ~(offset'[k] - upstream[s].off <= 0)
        BY <1>8, <3>2, <3>3
      <3>5. ~Reaches(k, upstream[s].off)'
        BY <1>9, <2>1, <3>3, <3>4 DEF Reaches
      <3> QED BY <1>9, <2>1, <2>2, <2>4, <3>4, <3>5 DEF CacheStep, CachedOK
    <2> QED BY <2>3, <2>4
  <1>20. WaitInv'
    <2>1. waiting # None => waiting.at \in Node /\ waiting.off \in Nat
      BY <1>0 DEF TypeOK
    <2>2. offset[k] <= offset'[k]
      BY <1>8 DEF first
    <2>3. \A m \in Node : m # k => offset'[m] = offset[m]
      BY <1>12
    <2> QED BY <1>0, <1>2, <1>8, <2>1, <2>2, <2>3 DEF StreamInv, WaitInv
  <1> QED BY <1>18, <1>19, <1>20, StreamKept

------------------------------------------------------------------------------
(* The theorems.                                                            *)

\* Where the servers start.
LEMMA InitInv == Init => Inv
  <1> SUFFICES ASSUME Init PROVE Inv
    OBVIOUS
  <1>1. TypeOK
    BY InitTypeOK
  <1>2. \A n \in Node : runid[n] \in 1..Cardinality(Node)
    <2>1. runid \in [Node -> 1..Cardinality(Node)]
      BY Numbering DEF Init
    <2> QED BY <2>1
  <1>3. Cardinality(Node) \in Nat
    BY ReplicationAssumption, FS_CardinalityType DEF ReplicationAssumption
  <1>4. LinkInv
    <2>1. RunInv
      <3>1. runs = Cardinality(Node)
        BY DEF Init
      <3>2. \A n \in Node : runid[n] <= Cardinality(Node)
        BY <1>2, <1>3
      <3> QED BY <3>1, <3>2 DEF RunInv
    <2>2. UpstreamInv
      BY DEF Init, UpstreamInv, StateAs
    <2>3. ClientInv
      BY DEF Init, ClientInv
    <2> QED BY <2>1, <2>2, <2>3 DEF LinkInv
  <1>5. StreamInv
    BY DEF Init, StreamInv, SyncedInv, Synced, StartInv, CachedInv, Cached, WaitInv
  <1> QED BY <1>1, <1>4, <1>5 DEF Inv

\* One step for each action.
LEMMA StepInv == Inv /\ [Next]_vars => Inv'
  <1> SUFFICES ASSUME Inv, [Next]_vars PROVE Inv'
    OBVIOUS
  <1>1. TypeOK' /\ LinkInv'
    BY BaseStep DEF Inv
  <1>2. StreamInv'
    <2>1. CASE \E m \in Node, d \in DB : Write(m, d)
      BY <1>1, <2>1, WriteStream
    <2>2. CASE WaitEnds
      BY <1>1, <2>2, WaitEndsStream
    <2>3. ASSUME NEW n \in Node,
                 \/ Continue(n) \/ NotServed(n) \/ FullResync(n) \/ LoadRdb(n) \/ Deliver(n)
                 \/ Ack(n) \/ LoseMaster(n) \/ SlaveOfNoOne(n) \/ Restart(n)
                 \/ FreeBacklog(n) \/ BgSave(n)
          PROVE  StreamInv'
      BY <1>1, <2>3, ContinueStream, NotServedStream, FullResyncStream, LoadRdbStream,
         DeliverStream, AckStream, LoseMasterStream, SlaveOfNoOneStream, RestartStream,
         FreeBacklogStream, BgSaveStream
    <2>4. CASE \E n \in Node, how \in {"ok", "failed", "killed"}, forked \in BOOLEAN :
                  BgSaveDone(n, how, forked)
      BY <1>1, <2>4, BgSaveDoneStream
    <2>5. CASE \E m, s \in Node : Drop(m, s)
      BY <1>1, <2>5, DropStream
    <2>6. CASE \E m, s \in Node : SlaveOf(s, m)
      BY <1>1, <2>6, SlaveOfStream
    <2>7. CASE UNCHANGED vars
      <3>1. \A m, s \in Node : Unmoved(m, s)
        BY <2>7 DEF vars, disk, link, stream, blocked, history, Unmoved, Waits
      <3>2. \A s \in Node : Cached(s)' => masterhost'[s] \in Node
        BY <1>1 DEF Cached, LinkInv, UpstreamInv, TypeOK
      <3>3. WaitInv'
        BY <2>7 DEF vars, link, stream, blocked, Inv, StreamInv, WaitInv
      <3> QED BY <1>1, <3>1, <3>2, <3>3, StreamKept DEF ClientStep, CacheStep
    <2> QED BY <2>1, <2>2, <2>3, <2>4, <2>5, <2>6, <2>7 DEF Next
  <1> QED BY <1>1, <1>2 DEF Inv

\* The invariant holds.
LEMMA SpecInv == Spec => []Inv
  BY InitInv, StepInv, PTL DEF Spec

\* Every variable has its type, and a server has a replication state exactly when it is
\* a slave (replication.c).
THEOREM ReplicationTypeCorrect == Spec => []TypeOK
  <1>1. Inv => TypeOK
    BY DEF Inv
  <1> QED BY <1>1, SpecInv, PTL

\* What SyncedOK says of the buffer is what Future means.
LEMMA BaseIsFuture ==
    ASSUME Inv, NEW m \in Node, NEW s \in Node, Synced(m, s), s \notin astray
    PROVE  Future(m, s) = data[m]
  <1>1. /\ client[m][s] \in Client /\ client[m][s] # None /\ Linked(m, s) /\ SyncedOK(m, s)
        /\ client[m][s].state \in {"wait_end", "send_bulk", "online"}
    BY ClientFields DEF Synced, Inv, TypeOK, LinkInv, ClientInv, StreamInv, SyncedInv
  <1>2. client[m][s].state # "online" => upstream[s].db = DefaultDB
    BY <1>1 DEF Linked, Inv, LinkInv, UpstreamInv
  <1>3. Leads(client[m][s].buf, Base(m, s), upstream[s].db, data[m], slaveseldb[m])
    BY <1>1 DEF SyncedOK
  <1>4. Play(client[m][s].buf, Base(m, s), upstream[s].db).log = data[m]
    BY <1>3 DEF Leads, Play
  <1>5. CASE client[m][s].state = "online"
    BY <1>4, <1>5 DEF Future, Base
  <1>6. CASE client[m][s].state = "send_bulk"
    BY <1>2, <1>4, <1>6 DEF Future, Base
  <1>7. CASE client[m][s].state = "wait_end"
    BY <1>2, <1>4, <1>7 DEF Future, Base
  <1> QED BY <1>1, <1>5, <1>6, <1>7

\* A slave that is attached and was not led astray stores what its master stores once it
\* has read the snapshot and the buffer on their way (syncCommand, updateSlavesWaitingBgsave,
\* replicationFeedSlaves).
THEOREM AttachedInStep == Spec => []InStepOrAstray
  <1>1. Inv => InStepOrAstray
    BY BaseIsFuture DEF InStepOrAstray, Slaves, Synced
  <1> QED BY <1>1, SpecInv, PTL

\* The offset a slave announces is its place in the stream: what it has read and what is
\* in its buffer make the offset of its master (masterTryPartialResynchronization).
THEOREM AnnouncedOffset == Spec => []OffsetIsPlace
  <1>1. Inv => OffsetIsPlace
    BY DEF OffsetIsPlace, Slaves, Inv, StreamInv, SyncedInv, Synced, SyncedOK, Fit
  <1> QED BY <1>1, SpecInv, PTL

\* A PSYNC that the test of masterTryPartialResynchronization accepts sends exactly what
\* the slave missed, under the database it has selected (addReplyReplicationBacklog).
THEOREM ContinuedInStep == Spec => []CachedInStep
  <1>1. ASSUME Inv, NEW s \in Node, Fit(s), Asks(s), CanContinue(masterhost[s], upstream[s])
        PROVE  Play(Missed(masterhost[s], upstream[s]), data[s], upstream[s].db).log
                  = data[masterhost[s]]
    <2> DEFINE m == masterhost[s]
               u == upstream[s]
    <2>1. TypeOK /\ m \in Node /\ u \in Upstream /\ u # None
      BY <1>1 DEF Inv, Asks, CanContinue, TypeOK
    <2>2. /\ u.runid = runid[m] /\ Reaches(m, u.off) /\ Missed(m, u) = Lacks(m, u.off)
      BY <1>1, <2>1, ContinueReaches
    <2>3. client[m][s] = None
      BY <1>1, <2>1 DEF Inv, LinkInv, ClientInv, Linked, Asks
    <2>4. Cached(s)
      BY <1>1, <2>1, <2>2, <2>3 DEF Cached, Asks
    <2>5. Leads(Lacks(m, u.off), data[s], u.db, data[m], slaveseldb[m])
      BY <1>1, <2>2, <2>4 DEF Inv, StreamInv, CachedInv, CachedOK
    <2> HIDE DEF m, u
    <2>6. Play(Missed(m, u), data[s], u.db).log = data[m]
      BY <2>2, <2>5 DEF Leads, Play
    <2> QED BY <2>6 DEF m, u
  <1>2. Inv => CachedInStep
    BY <1>1 DEF CachedInStep, Fit
  <1> QED BY <1>2, SpecInv, PTL

\* Every slave that WAIT counts stores the write (replicationCountAcksByOffset), as long
\* as the server of the client does not start its offsets again.
THEOREM CountedSlavesStore == Spec => []WaitCountsHolders
  <1>1. ASSUME Inv, waiting # None, ~renumbered,
               NEW s \in Acked(waiting.at, waiting.off), Fit(s)
        PROVE  waiting.entry \in ToSet(data[s])
    <2> DEFINE m == waiting.at
               c == client[m][s]
               u == upstream[s]
    <2>1. m \in Node /\ s \in Node /\ c # None /\ c.state = "online" /\ c.ack >= waiting.off
          /\ waiting.off \in Nat
      BY <1>1 DEF Acked, Slaves, Inv, TypeOK
    <2>2. SyncedOK(m, s) /\ Linked(m, s) /\ c \in Client
      BY <1>1, <2>1 DEF Inv, StreamInv, SyncedInv, Synced, LinkInv, ClientInv, TypeOK
    <2>3. Brings(c.buf, data[s], u.db, u.off, waiting)
      BY <1>1, <2>1, <2>2 DEF SyncedOK, Waits, Base
    <2>4. u \in Upstream /\ u.off \in Nat /\ c.ack \in Nat /\ c.buf \in Seq(Item)
      BY <1>1, <2>1, <2>2, ClientFields DEF Linked, Inv, LinkInv, UpstreamInv, TypeOK, Upstream
    <2>5. u.off + 0 >= waiting.off /\ 0 \in 0..Len(c.buf)
      <3>1. c.ack <= u.off
        BY <2>2 DEF Linked
      <3>2. Len(c.buf) \in Nat
        BY <2>4
      <3> HIDE DEF c, u
      <3> QED BY <2>1, <2>4, <3>1, <3>2
    <2>6. waiting.entry \in ToSet(Played(c.buf, data[s], u.db)[0].log)
      BY <2>3, <2>5 DEF Brings
    <2>7. Played(c.buf, data[s], u.db)[0] = [log |-> data[s], db |-> u.db]
      <3> HIDE DEF c, u
      <3> QED BY <2>4, PlayedFirst
    <2> QED BY <2>6, <2>7
  <1>2. Inv => WaitCountsHolders
    BY <1>1 DEF WaitCountsHolders, Fit
  <1> QED BY <1>2, SpecInv, PTL
==============================================================================
