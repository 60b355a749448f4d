-------------------------------- MODULE Server --------------------------------
(***************************************************************************)
(* How one server runs the commands of its clients: transactions with      *)
(* WATCH (multi.c), clients that block on lists (blocked.c, t_list.c), keys *)
(* that expire (db.c) and the stream of commands that the AOF and the      *)
(* slaves get (redis.c, call and propagate).  One thread runs a command, or *)
(* all of a transaction, and then serves the clients it made ready: each   *)
(* of that is one step, and between two steps any client may be next.      *)
(* Time stands still within a step, while the code asks for it at every    *)
(* lookup outside of Lua (db.c 1577): there a key may expire between two   *)
(* commands of a transaction, here it expires before or after all of it.   *)
(* Its DEL comes before what the next lookup of it propagates in either.   *)
(*                                                                         *)
(* A step is a chain of calls on the same data.  The operators below take  *)
(* the state so far, a record of the variables they change, and give the   *)
(* state after them.                                                       *)
(***************************************************************************)
EXTENDS Naturals, Sequences, FiniteSets, SequencesExt, FiniteSetsExt

CONSTANTS
    Client,     \* the clients
    Key,        \* the keys of one database
    None,       \* no value, no target, no blocking command
    Str,        \* a value that is not a list
    Commands,   \* bound: the commands each client may send
    Watching,   \* bound: the keys each client may watch
    InMulti,    \* bound: the clients that use MULTI
    MaxQueued,  \* bound: commands of a transaction
    MaxPushes   \* bound: elements pushed, all different

\* What a key can hold; an element of a list is a number.
Value == {None, Str} \cup Seq(Nat)

Op(op, keys, target) == [op |-> op, keys |-> keys, target |-> target]

\* The commands the parser accepts: arities, and who has a destination.
WellFormed(cmd) ==
    /\ cmd.op \in {"lpush", "blpop", "brpoplpush", "set", "del", "expire", "flushdb",
                    "rename", "get"}
    /\ cmd.keys \in Seq(Key)
    /\ cmd.op # "flushdb" => cmd.keys # <<>>
    /\ cmd.op # "blpop" => Len(cmd.keys) <= 1
    /\ IF cmd.op \in {"brpoplpush", "rename"} THEN cmd.target \in Key ELSE cmd.target = None

Form    == {f \in [op : STRING, keys : Seq(Key), target : Key \cup {None}] : WellFormed(f)}
\* With the element that is pushed.
Command == {m \in [op : STRING, keys : Seq(Key), target : Key \cup {None},
                   arg : Nat \cup {None}] :
              WellFormed(m) /\ (m.op = "lpush" => m.arg \in Nat)}

ASSUME ServerAssumption ==
    /\ IsFiniteSet(Client) /\ IsFiniteSet(Key)
    /\ None \notin Key \cup Seq(Nat) \cup Command
    /\ Str \notin Seq(Nat) \cup {None}
    /\ Commands \in [Client -> SUBSET Form]
    /\ InMulti \subseteq Client /\ Watching \in [Client -> SUBSET Key]
    /\ MaxQueued \in Nat /\ MaxPushes \in Nat

VARIABLES
    db,             \* the value of each key: None, Str or the elements of a list
    expires,        \* of each key: "no", "set" to a time to come, or "past"
    multi, queue,   \* REDIS_MULTI and the queued commands of each client
    dirty_cas,      \* clients flagged REDIS_DIRTY_CAS
    dirty_exec,     \* clients flagged REDIS_DIRTY_EXEC
    watched_keys,   \* the keys each client watches
    bpop,           \* the command each client is blocked in, or None
    blocking_keys,  \* for each key, the clients blocked on it in order
    copy,           \* what the stream makes of a slave: its data and, between MULTI
                    \* and EXEC, what the commands it has queued will make of them
    pushes,         \* elements sent so far
    watched,        \* history: value and expiry of each key a client watches, as it
                    \* was when it watched it
    served,         \* history: which clients the last step served, from which key
    arrived,        \* history: pairs of blocked clients, one that blocked before the other
    renamed         \* history: the keys whose list came by RENAME

tx      == <<multi, queue, dirty_exec, watched_keys, watched>>
vars    == <<db, expires, tx, dirty_cas, bpop, blocking_keys, copy, pushes,
             served, arrived, renamed>>

IsList(v) == v \notin {None, Str}
-----------------------------------------------------------------------------
(* One step is worked out on the state it finds, and stored when it is done. *)

Now == [db |-> db, expires |-> expires, dirty_cas |-> dirty_cas, bpop |-> bpop,
        blocking_keys |-> blocking_keys, copy |-> copy, renamed |-> renamed,
        ready_keys |-> <<>>, served |-> {}, must_propagate |-> FALSE]

Store(s) ==
    /\ db' = s.db /\ expires' = s.expires /\ copy' = s.copy
    /\ bpop' = s.bpop /\ blocking_keys' = s.blocking_keys
    /\ served' = s.served
    /\ arrived' = {p \in arrived : s.bpop[p[1]] # None /\ s.bpop[p[2]] # None}
                    \cup {p \in Client \X Client :
                            /\ bpop[p[1]] # None /\ s.bpop[p[1]] # None
                            /\ bpop[p[2]] = None /\ s.bpop[p[2]] # None}
    /\ renamed' = {k \in s.renamed : IsList(s.db[k])}
-----------------------------------------------------------------------------
(* Lists. *)

Push(list, v) == IF list = None THEN <<v>> ELSE <<v>> \o list
Element(list, where) == IF where = "head" THEN Head(list) ELSE Last(list)
Popped(list, where)  == IF where = "head" THEN Tail(list) ELSE Front(list)
\* A list without elements is deleted.
Stored(list) == IF list = <<>> THEN None ELSE list
-----------------------------------------------------------------------------
(* The stream, and what a slave makes of it. *)

NoData == [k \in Key |-> None]

Replayed(d, i) ==
    CASE i.op = "lpush"    -> [d EXCEPT ![i.key] = Push(@, i.arg)]
      [] i.op = "pop"      ->
            IF IsList(d[i.key]) THEN [d EXCEPT ![i.key] = Stored(Popped(@, i.arg))] ELSE d
      [] i.op = "rpoplpush" ->
            IF IsList(d[i.key])
              THEN LET e == [d EXCEPT ![i.key] = Front(@)]
                       f == [e EXCEPT ![i.arg] = Push(@, Last(d[i.key]))]
                   IN  [f EXCEPT ![i.key] = Stored(@)]
              ELSE d
      [] i.op = "set"      -> [d EXCEPT ![i.key] = Str]
      [] i.op = "del"      -> [d EXCEPT ![i.key] = None]
      [] i.op = "flushdb"  -> NoData
      [] i.op = "rename"   -> [d EXCEPT ![i.key] = None, ![i.arg] = d[i.key]]
      [] OTHER             -> d

\* The slave queues what comes after MULTI until EXEC.
Received(slave, item) ==
    CASE item.op = "multi" -> [slave EXCEPT !.multi = TRUE, !.queued = slave.db]
      [] item.op = "exec"  -> [db |-> slave.queued, multi |-> FALSE, queued |-> NoData]
      [] OTHER -> IF slave.multi THEN [slave EXCEPT !.queued = Replayed(@, item)]
                                 ELSE [slave EXCEPT !.db = Replayed(@, item)]

\* propagate.
Propagate(s, item) == [s EXCEPT !.copy = Received(@, item)]

Item(op, k, arg) == [op |-> op, key |-> k, arg |-> arg]
-----------------------------------------------------------------------------
(* Keys. *)

\* signalModifiedKey.
Touch(s, k) == [s EXCEPT !.dirty_cas = @ \cup {c \in Client : k \in watched_keys[c]}]

\* dbDelete.
Delete(s, k) == [s EXCEPT !.db[k] = None, !.expires[k] = "no"]

\* expireIfNeeded.
Expire(s, k) == IF s.expires[k] = "past"
                  THEN Propagate(Delete(s, k), Item("del", k, None)) ELSE s

\* signalListAsReady.
SignalReady(s, k) == IF s.blocking_keys[k] = <<>> \/ k \in ToSet(s.ready_keys)
                       THEN s ELSE [s EXCEPT !.ready_keys = Append(@, k)]

\* rpoplpushHandlePush, and the body of LPUSH.
PushTo(s, k, v) ==
    LET t == IF s.db[k] = None THEN SignalReady(s, k) ELSE s
    IN  Touch([t EXCEPT !.db[k] = Push(@, v)], k)

\* Mutant of BlockFor: the last one is served first.
BlockFirst(s, c, cmd) ==
    [s EXCEPT !.bpop[c] = cmd,
              !.blocking_keys = [k \in Key |-> IF k \in ToSet(cmd.keys) THEN <<c>> \o @[k]
                                                                       ELSE @[k]]]
\* blockForKeys.
BlockFor(s, c, cmd) ==
    [s EXCEPT !.bpop[c] = cmd,
              !.blocking_keys = [k \in Key |-> IF k \in ToSet(cmd.keys) THEN Append(@[k], c)
                                                                       ELSE @[k]]]

\* listDelNode of what listSearchKey finds.
Without(list, c) ==
    IF c \in ToSet(list) THEN RemoveAt(list, CHOOSE i \in DOMAIN list : list[i] = c) ELSE list
\* Mutant of Unblock: the client stays in the lists of the other keys.
UnblockOne(s, c) ==
    [s EXCEPT !.bpop[c] = None,
              !.blocking_keys[Head(s.bpop[c].keys)] = Without(@, c)]
\* unblockClient.
Unblock(s, c) ==
    [s EXCEPT !.bpop[c] = None,
              !.blocking_keys = [k \in Key |-> Without(@[k], c)]]
-----------------------------------------------------------------------------
(* The commands. *)

Lpush(s, k, v) ==
    LET t == Expire(s, k)
    IN  IF t.db[k] = Str THEN t ELSE Propagate(PushTo(t, k, v), Item("lpush", k, v))

\* A pop from a list that has elements.
Pop(s, k, where) ==
    LET l == Stored(Popped(s.db[k], where))
    IN  Touch([s EXCEPT !.db[k] = l, !.expires[k] = IF l = None THEN "no" ELSE @], k)

\* The first n keys are looked up, unless one of them is there.
LookUp(s, keys) ==
    LET found[n \in 0..Len(keys)] ==
          IF n = 0 THEN s
          ELSE LET t == found[n-1]
               IN  IF \E i \in 1..n-1 : t.db[keys[i]] # None THEN t ELSE Expire(t, keys[n])
    IN  found

\* blockingPopGenericCommand: the first key that exists decides.
Blpop(s, c, cmd) ==
    LET t    == LookUp(s, cmd.keys)[Len(cmd.keys)]
        full == {i \in DOMAIN cmd.keys : t.db[cmd.keys[i]] # None}
        k    == cmd.keys[CHOOSE i \in full : \A j \in full : i <= j]
    IN  IF full = {} THEN IF multi[c] THEN t ELSE BlockFor(t, c, cmd)
        ELSE IF t.db[k] = Str THEN t
        ELSE Propagate(Pop(t, k, "head"), Item("pop", k, "head"))

\* rpoplpushCommand on a source that has elements; the destination gets the element
\* before a source that is empty now is deleted.
Rpoplpush(s, src, dst) ==
    LET t == Expire(s, dst)
        u == PushTo([t EXCEPT !.db[src] = Front(@)], dst, Last(t.db[src]))
        w == IF u.db[src] = <<>> THEN Delete(u, src) ELSE u
    IN  IF t.db[dst] = Str THEN t
        ELSE Propagate(Touch(w, src), Item("rpoplpush", src, dst))

\* brpoplpushCommand.
Brpoplpush(s, c, cmd) ==
    LET k == Head(cmd.keys)
        t == Expire(s, k)
    IN  IF IsList(t.db[k]) THEN Rpoplpush(t, k, cmd.target)
        ELSE IF t.db[k] = Str \/ multi[c] THEN t ELSE BlockFor(t, c, cmd)

\* setCommand.
SetKey(s, k) ==
    Propagate(Touch([Expire(s, k) EXCEPT !.db[k] = Str, !.expires[k] = "no"], k),
              Item("set", k, None))

\* delCommand.
Del(s, k) ==
    LET t == Expire(s, k)
    IN  IF t.db[k] = None THEN t
        ELSE Propagate(Touch(Delete(t, k), k), Item("del", k, None))

\* expireCommand, with a time to come.
ExpireKey(s, k) ==
    LET t == Expire(s, k)
    IN  IF t.db[k] = None THEN t
        ELSE Propagate(Touch([t EXCEPT !.expires[k] = "set"], k), Item("expire", k, None))

Emptied(s) == [s EXCEPT !.db = NoData, !.expires = [k \in Key |-> "no"]]
\* Mutant of Flush: those who watch are not told.
FlushSilently(s) ==
    IF \E k \in Key : s.db[k] # None THEN Propagate(Emptied(s), Item("flushdb", None, None))
                                     ELSE s
\* flushdbCommand; watched keys that do not exist are not touched.
Flush(s) ==
    LET full == {k \in Key : s.db[k] # None}
        t    == [s EXCEPT !.dirty_cas = @ \cup {c \in Client : watched_keys[c] \cap full # {}}]
    IN  IF full = {} THEN s ELSE Propagate(Emptied(t), Item("flushdb", None, None))

\* renameGenericCommand; a list that gets its key this way is not signaled.
Rename(s, k, to) ==
    LET t == Expire(s, k)
        u == Expire(t, to)
        w == [Delete(u, k) EXCEPT !.db[to] = u.db[k], !.expires[to] = u.expires[k],
                                  !.renamed = (@ \ {k}) \cup {to}]
    IN  IF k = to THEN s
        ELSE IF t.db[k] = None THEN t
        ELSE Propagate(Touch(Touch(w, k), to), Item("rename", k, to))

\* call: one command of client c.
Call(s, c, cmd) ==
    CASE cmd.op = "lpush"      -> Lpush(s, Head(cmd.keys), cmd.arg)
      [] cmd.op = "blpop"      -> Blpop(s, c, cmd)
      [] cmd.op = "brpoplpush" -> Brpoplpush(s, c, cmd)
      [] cmd.op = "set"        -> SetKey(s, Head(cmd.keys))
      [] cmd.op = "del"        -> Del(s, Head(cmd.keys))
      [] cmd.op = "expire"     -> ExpireKey(s, Head(cmd.keys))
      [] cmd.op = "flushdb"    -> Flush(s)
      [] cmd.op = "rename"     -> Rename(s, Head(cmd.keys), cmd.target)
      [] cmd.op = "get"        -> Expire(s, Head(cmd.keys))

\* REDIS_CMD_READONLY.
IsReadOnly(cmd) == cmd.op = "get"
-----------------------------------------------------------------------------
(* The clients that a command made ready. *)

\* Mutant of ServeClient: the push of a served BRPOPLPUSH stays out of the stream.
ServeUnpropagated(s, k, c) ==
    LET where == IF s.bpop[c].op = "blpop" THEN "head" ELSE "tail"
        dst   == s.bpop[c].target
        v     == Element(s.db[k], where)
        t     == Unblock([s EXCEPT !.db[k] = Popped(@, where),
                                   !.served = @ \cup {<<c, k>>}], c)
        u     == IF dst = None THEN t ELSE Expire(t, dst)
        popped == Propagate(u, Item("pop", k, where))
    IN  IF dst = None THEN popped
        ELSE IF u.db[dst] = Str THEN [u EXCEPT !.db[k] = Append(@, v)]
        ELSE PushTo(popped, dst, v)
\* serveClientBlockedOnList, after the pop and with what undoes it.
ServeClient(s, k, c) ==
    LET where == IF s.bpop[c].op = "blpop" THEN "head" ELSE "tail"
        dst   == s.bpop[c].target
        v     == Element(s.db[k], where)
        t     == Unblock([s EXCEPT !.db[k] = Popped(@, where),
                                   !.served = @ \cup {<<c, k>>}], c)
        u     == IF dst = None THEN t ELSE Expire(t, dst)
        popped == Propagate(u, Item("pop", k, where))
    IN  IF dst = None THEN popped
        ELSE IF u.db[dst] = Str THEN [u EXCEPT !.db[k] = Append(@, v)]
        ELSE Propagate(PushTo(popped, dst, v), Item("lpush", dst, v))

\* Mutant of ServeNext: one client for each key that was signaled.
ServeOnce(s) ==
    LET k == Head(s.ready_keys)
        t == Expire(s, k)
        u == IF t.db[k] \notin {None, Str, <<>>} /\ t.blocking_keys[k] # <<>>
               THEN ServeClient(t, k, Head(t.blocking_keys[k])) ELSE t
        w == IF u.db[k] = <<>> THEN Delete(u, k) ELSE u
    IN  [w EXCEPT !.ready_keys = Tail(@)]
\* A turn of the loops of handleClientsBlockedOnLists: serve the first client of the
\* first key, or be done with the key.
ServeNext(s) ==
    LET k == Head(s.ready_keys)
        t == Expire(s, k)
        u == IF t.db[k] = <<>> THEN Delete(t, k) ELSE t
    IN  IF t.db[k] \notin {None, Str, <<>>} /\ t.blocking_keys[k] # <<>>
          THEN ServeClient(t, k, Head(t.blocking_keys[k]))
          ELSE [u EXCEPT !.ready_keys = Tail(@)]

Turn(s) == IF s.ready_keys = <<>> THEN s ELSE ServeNext(s)
\* Every turn unblocks a client or ends a key, and only one that unblocks signals a key.
MaxTurns == 2 * Cardinality(Client) + Cardinality(Key)
HandleBlocked(s) ==
    LET after[n \in 0..MaxTurns] == IF n = 0 THEN s ELSE Turn(after[n-1])
    IN  after[MaxTurns]
-----------------------------------------------------------------------------
(* What clients do. *)

\* The command as it is sent: each element that is pushed is a new one.
Sent(cmd) == [op |-> cmd.op, keys |-> cmd.keys, target |-> cmd.target,
              arg |-> IF cmd.op = "lpush" THEN pushes + 1 ELSE None]

Send(c, cmd) ==
    /\ bpop[c] = None
    /\ cmd \in Commands[c]
    /\ cmd.op = "lpush" => pushes < MaxPushes
    /\ pushes' = IF cmd.op = "lpush" THEN pushes + 1 ELSE pushes

\* processCommand.
Execute(c, cmd) ==
    /\ Send(c, cmd) /\ ~multi[c]
    /\ LET s == HandleBlocked(Call(Now, c, Sent(cmd)))
       IN  Store(s) /\ dirty_cas' = s.dirty_cas
    /\ UNCHANGED tx

QueueCommand(c, cmd) ==
    /\ Send(c, cmd) /\ multi[c] /\ Len(queue[c]) < MaxQueued
    /\ queue' = [queue EXCEPT ![c] = Append(@, Sent(cmd))]
    /\ served' = {}
    /\ UNCHANGED <<db, expires, multi, dirty_cas, dirty_exec, watched_keys, watched, bpop,
                   blocking_keys, copy, arrived, renamed>>

\* An error before the command is queued.
Refuse(c) ==
    /\ multi[c]
    /\ dirty_exec' = dirty_exec \cup {c}
    /\ served' = {}
    /\ UNCHANGED <<db, expires, multi, queue, dirty_cas, watched_keys, watched, bpop,
                   blocking_keys, copy, pushes, arrived, renamed>>

Multi(c) ==
    /\ c \in InMulti /\ bpop[c] = None /\ ~multi[c]
    /\ multi' = [multi EXCEPT ![c] = TRUE]
    /\ served' = {}
    /\ UNCHANGED <<db, expires, queue, dirty_cas, dirty_exec, watched_keys, watched, bpop,
                   blocking_keys, copy, pushes, arrived, renamed>>

\* unwatchAllKeys.
UnwatchAll(c) ==
    /\ watched_keys' = [watched_keys EXCEPT ![c] = {}]
    /\ watched' = [watched EXCEPT ![c] = [k \in Key |-> None]]

\* discardTransaction, but for REDIS_DIRTY_CAS.
LeaveMulti(c) ==
    /\ multi' = [multi EXCEPT ![c] = FALSE]
    /\ queue' = [queue EXCEPT ![c] = <<>>]
    /\ dirty_exec' = dirty_exec \ {c}
    /\ UnwatchAll(c)

Discard(c) ==
    /\ multi[c]
    /\ LeaveMulti(c) /\ dirty_cas' = dirty_cas \ {c} /\ served' = {}
    /\ UNCHANGED <<db, expires, bpop, blocking_keys, copy, pushes, arrived, renamed>>

ExecAborted(c) ==
    /\ c \in dirty_cas \cup dirty_exec
    /\ Discard(c)

\* A command of a transaction, after MULTI when it is the first that may write.
ExecOne(s, c, cmd) ==
    LET opens == ~s.must_propagate /\ ~IsReadOnly(cmd)
    IN  Call(IF opens THEN [Propagate(s, Item("multi", None, None))
                              EXCEPT !.must_propagate = TRUE] ELSE s, c, cmd)

\* The first n commands of the queue.
Executed(s, c, cmds) ==
    LET after[n \in 0..Len(cmds)] == IF n = 0 THEN s ELSE ExecOne(after[n-1], c, cmds[n])
    IN  after

\* execCommand: EXEC is sent when MULTI was, and then the blocked clients are served.
Exec(c) ==
    /\ multi[c] /\ c \notin dirty_cas \cup dirty_exec
    /\ LET s == Executed(Now, c, queue[c])[Len(queue[c])]
           t == IF s.must_propagate THEN Propagate(s, Item("exec", None, None)) ELSE s
           u == HandleBlocked(t)
       IN  Store(u) /\ dirty_cas' = u.dirty_cas \ {c}
    /\ LeaveMulti(c)
    /\ UNCHANGED pushes

Watch(c, k) ==
    /\ k \in Watching[c] \ watched_keys[c] /\ bpop[c] = None /\ ~multi[c]
    /\ watched_keys' = [watched_keys EXCEPT ![c] = @ \cup {k}]
    /\ watched' = [watched EXCEPT ![c][k] = [val |-> db[k], ttl |-> expires[k] # "no"]]
    /\ served' = {}
    /\ UNCHANGED <<db, expires, multi, queue, dirty_cas, dirty_exec, bpop, blocking_keys,
                   copy, pushes, arrived, renamed>>

Unwatch(c) ==
    /\ bpop[c] = None /\ ~multi[c] /\ (watched_keys[c] # {} \/ c \in dirty_cas)
    /\ UnwatchAll(c) /\ dirty_cas' = dirty_cas \ {c} /\ served' = {}
    /\ UNCHANGED <<db, expires, multi, queue, dirty_exec, bpop, blocking_keys, copy, pushes,
                   arrived, renamed>>

\* clientsCronHandleTimeout.
Timeout(c) ==
    /\ bpop[c] # None
    /\ Store(Unblock(Now, c))
    /\ UNCHANGED <<tx, dirty_cas, pushes>>

\* freeClient; the place of the client is taken by a new one.
Disconnect(c) ==
    /\ bpop[c] # None \/ multi[c] \/ watched_keys[c] # {}
    /\ Store(IF bpop[c] # None THEN Unblock(Now, c) ELSE Now)
    /\ LeaveMulti(c) /\ dirty_cas' = dirty_cas \ {c}
    /\ UNCHANGED pushes
-----------------------------------------------------------------------------
(* What time does. *)

TtlPasses(k) ==
    /\ expires[k] = "set"
    /\ expires' = [expires EXCEPT ![k] = "past"]
    /\ served' = {}
    /\ UNCHANGED <<db, tx, dirty_cas, bpop, blocking_keys, copy, pushes, arrived, renamed>>

\* activeExpireCycleTryExpire.
ActiveExpire(k) ==
    /\ expires[k] = "past"
    /\ Store(Expire(Now, k))
    /\ UNCHANGED <<tx, dirty_cas, pushes>>

Init ==
    /\ db = NoData /\ expires = [k \in Key |-> "no"]
    /\ multi = [c \in Client |-> FALSE] /\ queue = [c \in Client |-> <<>>]
    /\ dirty_cas = {} /\ dirty_exec = {}
    /\ watched_keys = [c \in Client |-> {}]
    /\ watched = [c \in Client |-> [k \in Key |-> None]]
    /\ bpop = [c \in Client |-> None] /\ blocking_keys = [k \in Key |-> <<>>]
    /\ copy = [db |-> NoData, multi |-> FALSE, queued |-> NoData]
    /\ pushes = 0 /\ served = {} /\ arrived = {} /\ renamed = {}

Next ==
    \/ \E c \in Client :
         \/ \E cmd \in Commands[c] : Execute(c, cmd) \/ QueueCommand(c, cmd)
         \/ Refuse(c) \/ Multi(c) \/ Exec(c) \/ ExecAborted(c) \/ Discard(c)
         \/ \E k \in Key : Watch(c, k)
         \/ Unwatch(c) \/ Timeout(c) \/ Disconnect(c)
    \/ \E k \in Key : TtlPasses(k) \/ ActiveExpire(k)

Spec == Init /\ [][Next]_vars
-----------------------------------------------------------------------------
(* Properties. *)

\* The variables have their types, and the two sides of a blocking command agree
\* (blockForKeys, unblockClientWaitingData): a client is in the list of a key, and
\* there once, exactly when it is blocked in a command that names the key.
TypeOK ==
    /\ db \in [Key -> Value \ {<<>>}] /\ expires \in [Key -> {"no", "set", "past"}]
    /\ \A k \in Key : db[k] = None => expires[k] = "no"
    /\ copy \in [db : [Key -> Value], multi : BOOLEAN, queued : [Key -> Value]]
    /\ multi \in [Client -> BOOLEAN] /\ queue \in [Client -> Seq(Command)]
    /\ dirty_cas \subseteq Client /\ dirty_exec \subseteq {c \in Client : multi[c]}
    /\ watched_keys \in [Client -> SUBSET Key]
    /\ watched \in [Client -> [Key -> {None} \cup [val : Value, ttl : BOOLEAN]]]
    /\ pushes \in Nat /\ renamed \subseteq Key
    /\ served \subseteq Client \X Key /\ arrived \subseteq Client \X Client
    /\ bpop \in [Client -> {m \in Command : m.op \in {"blpop", "brpoplpush"}} \cup {None}]
    /\ blocking_keys \in [Key -> Seq(Client)]
    /\ \A c \in Client : bpop[c] # None => ~multi[c]
    /\ \A k \in Key : /\ IsInjective(blocking_keys[k])
                      /\ ToSet(blocking_keys[k]) =
                            {c \in Client : bpop[c] # None /\ k \in ToSet(bpop[c].keys)}

\* What EXEC relies on (touchWatchedKey, execCommand): unless the client is flagged
\* REDIS_DIRTY_CAS, each key it watches is as it was when it watched it, or has expired
\* since: an expired key is deleted without a word to those who watch it.
WatchedUnchanged ==
    \A c \in Client \ dirty_cas : \A k \in watched_keys[c] :
        \/ db[k] = watched[c][k].val
        \/ db[k] = None /\ watched[c][k].ttl

\* A slave or an AOF that replays the stream has what the server has, expired keys that
\* are still there included, and is never left inside a MULTI (call, propagate,
\* execCommand, serveClientBlockedOnList, propagateExpire).
StreamReplays == copy.db = db /\ ~copy.multi

\* No client stays blocked on a key that holds a list (signalListAsReady and
\* handleClientsBlockedOnLists), unless the list came to the key by RENAME.
NobodyWaitsInVain ==
    \A k \in Key : IsList(db[k]) /\ k \notin renamed => blocking_keys[k] = <<>>

\* NobodyWaitsInVain without the exception: "If a PUSH operation against a key with
\* blocked clients waiting is performed, we mark this key as ready" (t_list.c:1125).
ReadyKeysAreServed == \A k \in Key : IsList(db[k]) => blocking_keys[k] = <<>>

\* Clients are served from a key in the order they blocked for it
\* (handleClientsBlockedOnLists): when one is served, those that waited for the key
\* before it no longer do.
ServedInOrder ==
    [][\A k \in Key : \A p \in arrived :
          /\ k \in ToSet(bpop[p[1]].keys) /\ <<p[2], k>> \in served'
          => bpop'[p[1]] = None]_vars
=============================================================================
