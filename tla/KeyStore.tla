------------------------------ MODULE KeyStore ------------------------------
(***************************************************************************)
(* What a client is promised of its keys, whichever nodes serve them and   *)
(* wherever their slot is going: one table, in which every command takes   *)
(* effect once, at one moment between its request and its reply, and which *)
(* nothing else changes.                                                   *)
(***************************************************************************)
CONSTANTS Client, Key, Value,
          None         \* no value: an absent key, a nil reply, no request

VARIABLES val,         \* the value of each key
          request,     \* the command each client waits for
          reply        \* what its GET returned, until it sends the next command

\* GET, SET, and DEL, which leaves no value.
Command == {cmd \in [op : {"get", "set", "del"}, key : Key, value : Value \cup {None}] :
                cmd.op = "set" <=> cmd.value # None}

Init == /\ val \in [Key -> Value \cup {None}]
        /\ request = [c \in Client |-> None]
        /\ reply = [c \in Client |-> None]

Send(c) == /\ request[c] = None
           /\ \E cmd \in Command : request' = [request EXCEPT ![c] = cmd]
           /\ reply' = [reply EXCEPT ![c] = None]
           /\ UNCHANGED val

Get(c) == /\ request[c] # None
          /\ request[c].op = "get"
          /\ reply' = [reply EXCEPT ![c] = val[request[c].key]]
          /\ request' = [request EXCEPT ![c] = None]
          /\ UNCHANGED val

Put(c) == /\ request[c] # None
          /\ request[c].op # "get"
          /\ val' = [val EXCEPT ![request[c].key] = request[c].value]
          /\ request' = [request EXCEPT ![c] = None]
          /\ UNCHANGED reply

Next == \E c \in Client : Send(c) \/ Get(c) \/ Put(c)

Spec == Init /\ [][Next]_<<val, request, reply>>
=============================================================================
