------------------------------ MODULE Persistence ------------------------------
(***************************************************************************)
(* The append only file and the snapshots of one server (aof.c, bio.c and  *)
(* the saving part of rdb.c, with their callers in redis.c and config.c):  *)
(* commands go to a buffer, to the file when the turn of the event loop    *)
(* ends, and to the disk by the fsync policy, replies leave at the end of  *)
(* the turn or before, a child rewrites the file while the parent keeps    *)
(* the difference, another child saves dump.rdb, and the process or the    *)
(* machine may go down anywhere.                                           *)
(*                                                                         *)
(* What the server stores is the sequence of the writes it executed, each  *)
(* with its database.  The file is a sequence of items: a command, or all  *)
(* that a rewrite put in its place.  A write to the file may stop between  *)
(* two items; redis-check-aof mends a torn file before it is loaded.       *)
(***************************************************************************)
EXTENDS Naturals, Sequences, FiniteSets, SequencesExt, FiniteSetsExt

CONSTANTS
    DB,           \* the databases, numbers
    None,         \* no database, no child, no file
    Lost,         \* a child that is gone while its pid is still waited for
    Policies,     \* values of appendfsync the server may start with
    Configs,      \* values of appendonly in its configuration file
    MaxWrites,    \* bound: writes of clients
    Events,       \* bound: what may happen besides writes: "write" fails, a "child"
                  \* or its fork fails, CONFIG SET appendonly ("config"), "save",
                  \* "rewrite", the end of the process ("exit"), of the machine
                  \* ("power"), or "shutdown"
    MaxEvents     \* bound: how often anything of this happens

Log  == Seq(DB \X Nat)    \* writes, each with its database
Item == [op : {"select"}, arg : DB] \cup [op : {"set"}, arg : Nat]
           \cup [op : {"multi", "exec"}]
Whole == [op : {"all"}, arg : Log \ {<<>>}]     \* what a rewrite puts in their place
File  == [items : Seq(Item \cup Whole), synced : Nat]

ASSUME PersistenceAssumption ==
    /\ DB \subseteq Nat /\ 0 \in DB
    /\ None \notin DB \cup Log \cup File
    /\ Lost \notin Log \cup {None}
    /\ Policies \subseteq {"always", "everysec", "no"}
    /\ Configs \subseteq {"on", "off"}
    /\ MaxWrites \in Nat
    /\ Events \subseteq {"write", "child", "config", "save", "rewrite", "exit", "power",
                    "shutdown"}
    /\ MaxEvents \in Nat

VARIABLES
    data,             \* what the server stores
    aof_fsync, conf,  \* appendfsync; appendonly of the configuration file
    aof_state,        \* "off", "on", "wait" (for the first rewrite)
    file,             \* appendonly.aof: its items and how many are on the disk, or None
    aof_fd,           \* "none", "open", or "stale": closed but not forgotten
    aof_current_size, \* the length the server takes the file to have
    aof_buf,          \* what is to be written when the turn ends
    aof_selected_db,  \* the database the last item was for, or None
    aof_last_write_status,     \* "ok" or "err"
    aof_flush_postponed_start, \* "no", "now", or "late" when it was 2 seconds ago
    due,              \* a second has passed since aof_last_fsync, where that matters
    fsyncs,           \* jobs of the fsync thread: each for the "aof" or a "former" file
    aof_child,        \* what the rewriting child writes, or None
    aof_rewrite_buf,  \* the commands since it was forked
    aof_rewrite_scheduled,
    rdb,              \* dump.rdb, or None
    rdb_child,        \* what the saving child writes, None, or Lost when another
                      \* wait3 has reaped it
    dirty, dirty_before_bgsave,
    lastbgsave_status,
    replies,          \* the writes whose reply is in a client's buffer
    turn,             \* history: the writes executed in this turn of the event loop
    acked,            \* history: the writes whose reply has left, but for those a restart
                      \* lost and those of the turn in which the process ended
    writes, events    \* counters

config == <<aof_fsync, conf>>
output == <<aof_buf, aof_last_write_status, aof_flush_postponed_start, due, fsyncs>>
rewrite == <<aof_child, aof_rewrite_buf, aof_rewrite_scheduled>>
saving == <<rdb, rdb_child, dirty, dirty_before_bgsave, lastbgsave_status>>
ends == <<replies, turn, acked, writes, events>>
vars == <<data, config, aof_state, file, aof_fd, aof_current_size, output,
          aof_selected_db, rewrite, saving, ends>>

Select(d) == [op |-> "select", arg |-> d]
Set(w)    == [op |-> "set", arg |-> w]

Event(kind) == kind \in Events /\ events < MaxEvents /\ events' = events + 1
-----------------------------------------------------------------------------
(* What a file means. *)

\* rewriteAppendOnlyFile: the databases one after the other, those without keys left
\* out.  The items are as many as one, whatever they hold.
Rewritten(log) == IF log = <<>> THEN <<>> ELSE <<[op |-> "all", arg |-> log]>>

\* A command executed by a client that has database acc.db selected and is inside of a
\* transaction or not; a rewritten part leaves the last database selected.
Replay(acc, i) ==
    CASE i.op = "select" -> [acc EXCEPT !.db = i.arg]
      [] i.op = "set"    -> [acc EXCEPT !.log = Append(acc.log, <<acc.db, i.arg>>)]
      [] i.op = "all"    -> [acc EXCEPT !.log = i.arg, !.db = Max({w[1] : w \in ToSet(i.arg)})]
      [] OTHER           -> [acc EXCEPT !.multi = i.op = "multi"]

\* loadAppendOnlyFile: what each prefix of the items makes of an empty server.
Replayed(items) ==
    LET replayed[k \in 0..Len(items)] ==
            IF k = 0 THEN [log |-> <<>>, db |-> 0, multi |-> FALSE]
            ELSE Replay(replayed[k-1], items[k])
    IN  replayed

\* What all the items make of it.
Loaded(items) == Replayed(items)[Len(items)].log

\* redis-check-aof --fix: cut before a command or a transaction that is not whole.
Mended(items) ==
    SubSeq(items, 1, Max({k \in 0..Len(items) : ~Replayed(items)[k].multi}))

\* What a restart finds when the first k items are in the file.
Recovered(k) == Loaded(Mended(SubSeq(file.items, 1, k)))
-----------------------------------------------------------------------------
(* Commands. *)

\* Mutant of Feed: a rewrite gets only what the file gets.
FeedOne(d, items) ==
    LET buf == (IF aof_selected_db = d THEN <<>> ELSE <<Select(d)>>) \o items
    IN  /\ aof_buf' = IF aof_state = "on" THEN aof_buf \o buf ELSE aof_buf
        /\ aof_rewrite_buf' = IF aof_state = "on" /\ aof_child # None
                                THEN aof_rewrite_buf \o buf ELSE aof_rewrite_buf
        /\ aof_selected_db' = d
\* feedAppendOnlyFile, called by propagate unless the AOF is off.
Feed(d, items) ==
    LET buf == (IF aof_selected_db = d THEN <<>> ELSE <<Select(d)>>) \o items
    IN  /\ aof_buf' = IF aof_state = "on" THEN aof_buf \o buf ELSE aof_buf
        /\ aof_rewrite_buf' = IF aof_child # None THEN aof_rewrite_buf \o buf
                                                  ELSE aof_rewrite_buf
        /\ aof_selected_db' = d

\* processCommand refuses writes after an error of either persistence.
Accepts == aof_last_write_status = "ok" /\ lastbgsave_status = "ok"

\* n writes to database d: a command, or MULTI to EXEC.
Execute(d, n) ==
    LET sets == [i \in 1..n |-> Set(writes + i)]
    IN  /\ Accepts
        /\ writes + n <= MaxWrites
        /\ writes' = writes + n
        /\ data' = data \o [i \in 1..n |-> <<d, writes + i>>]
        /\ dirty' = dirty + n
        /\ replies' = replies \cup {<<d, writes + i>> : i \in 1..n}
        /\ turn' = turn \cup {<<d, writes + i>> : i \in 1..n}
        /\ IF aof_state = "off"
             THEN UNCHANGED <<aof_buf, aof_rewrite_buf, aof_selected_db>>
             ELSE Feed(d, IF n = 1 THEN sets
                          ELSE <<[op |-> "multi"]>> \o sets \o <<[op |-> "exec"]>>)
        /\ UNCHANGED <<config, aof_state, file, aof_fd, aof_current_size,
                       aof_last_write_status, aof_flush_postponed_start, due, fsyncs,
                       aof_child, aof_rewrite_scheduled, rdb, rdb_child,
                       dirty_before_bgsave, lastbgsave_status, acked, events>>
-----------------------------------------------------------------------------
(* The file is written. *)

Flushed == [items |-> IF file = None THEN <<>> ELSE file.items,
            synced |-> IF file = None THEN 0 ELSE file.synced,
            size |-> aof_current_size, buf |-> aof_buf, status |-> aof_last_write_status,
            postponed |-> aof_flush_postponed_start, due |-> due, fsyncs |-> fsyncs,
            failed |-> FALSE]

\* Mutant of Written: appendfsync always is left to the thread.
WrittenUnsynced ==
    [Flushed EXCEPT !.items = @ \o aof_buf, !.buf = <<>>, !.status = "ok",
                    !.postponed = "no", !.size = @ + Len(aof_buf)]
\* write(2) took everything; the fsync that the policy asks for.
Written ==
    LET items == Flushed.items \o aof_buf
        asks  == aof_fsync = "everysec" /\ due
    IN  [Flushed EXCEPT !.items = items, !.buf = <<>>, !.status = "ok", !.postponed = "no",
            !.size = @ + Len(aof_buf),
            !.synced = IF aof_fsync = "always" THEN Len(items) ELSE @,
            !.due = IF aof_fsync = "always" \/ asks THEN FALSE ELSE @,
            !.fsyncs = IF asks /\ @ = <<>> THEN <<"aof">> ELSE @]

\* Mutant of Failed: a short write goes unnoticed.
FailedUnnoticed(k) ==
    [Flushed EXCEPT !.items = @ \o SubSeq(aof_buf, 1, k),
                    !.buf = SubSeq(@, k + 1, Len(@)),
                    !.postponed = "no", !.size = @ + k, !.failed = TRUE]
\* write(2) took k items and ftruncate could not take them back, or (k = 0) it could.
Failed(k) ==
    [Flushed EXCEPT !.items = @ \o SubSeq(aof_buf, 1, k),
                    !.buf = SubSeq(@, k + 1, Len(@)), !.status = "err",
                    !.postponed = "no", !.size = @ + k, !.failed = TRUE]

\* flushAppendOnlyFile: the outcomes.
Flushes(force) ==
    IF aof_buf = <<>> THEN {Flushed}
    ELSE IF /\ aof_fsync = "everysec" /\ ~force
            /\ fsyncs # <<>> /\ aof_flush_postponed_start # "late"
      THEN {[Flushed EXCEPT !.postponed = "now"]}
    ELSE IF aof_fd # "open" THEN {Failed(0)}
    ELSE {Written} \cup (IF "write" \in Events /\ events < MaxEvents
                           THEN {Failed(k) : k \in 0..Len(aof_buf) - 1} ELSE {})

\* A new process: the configuration, then loadDataFromDisk of what is left.
Start(items, onDisk, snapshot) ==
    LET left == Mended(items)
    IN  /\ data' = IF conf = "on" THEN Loaded(left)
                   ELSE IF snapshot = None THEN <<>> ELSE snapshot
        /\ aof_state' = conf
        /\ file' = IF conf = "off" THEN (IF file = None THEN None
                                           ELSE [items |-> items, synced |-> onDisk])
                   ELSE [items |-> left, synced |-> Min({onDisk, Len(left)})]
        /\ aof_fd' = IF conf = "on" THEN "open" ELSE "none"
        /\ aof_current_size' = IF conf = "on" THEN Len(left) ELSE 0
        /\ aof_selected_db' = None
        /\ aof_buf' = <<>>
        /\ aof_last_write_status' = "ok"
        /\ aof_flush_postponed_start' = "no"
        /\ due' = FALSE
        /\ fsyncs' = <<>>
        /\ aof_child' = None
        /\ aof_rewrite_buf' = <<>>
        /\ aof_rewrite_scheduled' = FALSE
        /\ rdb' = snapshot
        /\ rdb_child' = None
        /\ dirty' = IF conf = "on" THEN Len(data') ELSE 0
        /\ dirty_before_bgsave' = 0
        /\ lastbgsave_status' = "ok"
        /\ replies' = {}
        /\ turn' = {}
        /\ acked' = (acked \ turn) \cap ToSet(data')
        /\ UNCHANGED <<config, writes>>

\* What a flush leaves behind, when the process goes on.
Flush(o) ==
    /\ IF o.failed /\ aof_fd = "open" THEN Event("write") ELSE UNCHANGED events
    /\ file' = IF file = None THEN None ELSE [items |-> o.items, synced |-> o.synced]
    /\ aof_current_size' = o.size
    /\ aof_buf' = o.buf
    /\ aof_last_write_status' = o.status
    /\ aof_flush_postponed_start' = o.postponed

\* beforeSleep ends the turn: the buffer is written, as serverCron may have done before
\* it.  With appendfsync always a process that cannot write exits.
BeforeSleep ==
    \E o \in Flushes(FALSE) :
        IF o.failed /\ aof_fsync = "always"
          THEN /\ Event("write")
               /\ Start(o.items, o.synced, rdb)
          ELSE /\ Flush(o)
               /\ due' = o.due
               /\ fsyncs' = o.fsyncs
               /\ turn' = {}
               /\ UNCHANGED <<data, config, aof_state, aof_fd, aof_selected_db, rewrite,
                              saving, replies, acked, writes>>

\* sendReplyToClient: what the clients' sockets take.  prepareClientToWrite leaves the
\* handler of a client that has output pending, and aeProcessEvents calls it after the one
\* that read the client's commands: these may be answered in the turn that executes them.
SendReplies ==
    \E sent \in SUBSET replies \ {{}} :
        /\ replies' = replies \ sent
        /\ acked' = acked \cup sent
        /\ UNCHANGED <<data, config, aof_state, file, aof_fd, aof_current_size, output,
                       aof_selected_db, rewrite, saving, turn, writes, events>>

\* A second passes, or two for a flush that waits.
Tick ==
    /\ aof_state # "off" /\ aof_fsync = "everysec"
    /\ ~due \/ aof_flush_postponed_start = "now"
    /\ due' = TRUE
    /\ aof_flush_postponed_start' = IF aof_flush_postponed_start = "now" THEN "late"
                                    ELSE aof_flush_postponed_start
    /\ UNCHANGED <<data, config, aof_state, file, aof_fd, aof_current_size, aof_buf,
                   aof_last_write_status, fsyncs, aof_selected_db, rewrite, saving, ends>>

\* bioProcessBackgroundJobs: the thread finishes the fsync at the head of its queue.
BioFsync ==
    /\ fsyncs # <<>>
    /\ fsyncs' = Tail(fsyncs)
    /\ file' = IF Head(fsyncs) = "aof" THEN [file EXCEPT !.synced = Len(file.items)]
                                       ELSE file
    /\ UNCHANGED <<data, config, aof_state, aof_fd, aof_current_size, aof_buf,
                   aof_last_write_status, aof_flush_postponed_start, due, aof_selected_db,
                   rewrite, saving, ends>>

Former(jobs) == [i \in DOMAIN jobs |-> "former"]
-----------------------------------------------------------------------------
(* The file is rewritten. *)

\* Mutant of Fork: the difference continues the database the file is at.
ForkKeepingDb ==
    /\ aof_child' = data
    /\ aof_rewrite_scheduled' = FALSE
    /\ UNCHANGED aof_selected_db
\* rewriteAppendOnlyFileBackground: the child has its copy of the data.
Fork ==
    /\ aof_child' = data
    /\ aof_rewrite_scheduled' = FALSE
    /\ aof_selected_db' = None

\* BGREWRITEAOF, or the file has grown.
BgRewriteAof ==
    /\ aof_child = None
    /\ Event("rewrite")
    /\ IF rdb_child = None THEN Fork
       ELSE /\ ~aof_rewrite_scheduled
            /\ aof_rewrite_scheduled' = TRUE /\ UNCHANGED <<aof_child, aof_selected_db>>
    /\ UNCHANGED <<data, config, aof_state, file, aof_fd, aof_current_size, output,
                   aof_rewrite_buf, saving, replies, turn, acked, writes>>

\* serverCron starts the rewrite that was put off.
ScheduledRewrite ==
    /\ aof_rewrite_scheduled
    /\ aof_child = None /\ rdb_child = None
    /\ Fork
    /\ UNCHANGED <<data, config, aof_state, file, aof_fd, aof_current_size, output,
                   aof_rewrite_buf, saving, ends>>

\* backgroundRewriteDoneHandler: the difference is added to the child's file, which
\* takes the place of the old one.  A server whose AOF is on goes on with it.
RewriteDone ==
    LET new  == Rewritten(aof_child) \o aof_rewrite_buf
        used == aof_fd # "none"
    IN  /\ aof_child # None
        /\ file' = [items |-> new, synced |-> IF used /\ aof_fsync = "always" THEN Len(new)
                                              ELSE Len(Rewritten(aof_child))]
        /\ fsyncs' = Former(fsyncs) \o (IF used /\ aof_fsync = "everysec" THEN <<"aof">>
                                                                          ELSE <<>>)
        /\ aof_fd' = IF used THEN "open" ELSE "none"
        /\ aof_selected_db' = IF used THEN None ELSE aof_selected_db
        /\ aof_current_size' = IF used THEN Len(new) ELSE aof_current_size
        /\ aof_buf' = IF used THEN <<>> ELSE aof_buf
        /\ aof_state' = IF aof_state = "wait" THEN "on" ELSE aof_state
        /\ aof_child' = None
        /\ aof_rewrite_buf' = <<>>
        /\ UNCHANGED <<data, config, aof_last_write_status, aof_flush_postponed_start,
                       due, aof_rewrite_scheduled, saving, ends>>

\* Mutant of RewriteFailed: the difference is not reset.
RewriteFailedKeepingBuf ==
    /\ aof_child # None
    /\ Event("child")
    /\ aof_child' = None
    /\ aof_rewrite_scheduled' = (aof_rewrite_scheduled \/ aof_state = "wait")
    /\ UNCHANGED <<data, config, aof_state, file, aof_fd, aof_current_size, output,
                   aof_rewrite_buf, aof_selected_db, saving, replies, turn, acked, writes>>
\* Mutant of RewriteFailed: it is not tried again.
RewriteFailedForGood ==
    /\ aof_child # None
    /\ Event("child")
    /\ aof_child' = None
    /\ aof_rewrite_buf' = <<>>
    /\ UNCHANGED <<data, config, aof_state, file, aof_fd, aof_current_size, output,
                   aof_rewrite_scheduled, aof_selected_db, saving, replies, turn, acked, writes>>
\* The child failed, or its file could not be completed or renamed.
RewriteFailed ==
    /\ aof_child # None
    /\ Event("child")
    /\ aof_child' = None
    /\ aof_rewrite_buf' = <<>>
    /\ aof_rewrite_scheduled' = (aof_rewrite_scheduled \/ aof_state = "wait")
    /\ UNCHANGED <<data, config, aof_state, file, aof_fd, aof_current_size, output,
                   aof_selected_db, saving, replies, turn, acked, writes>>

\* startAppendOnly (CONFIG SET appendonly yes): the file is opened; if no child can
\* be forked it is closed again, and aof_fd keeps the number.
StartAppendOnly ==
    /\ aof_state = "off"
    /\ Event("config")
    /\ file' = IF file = None THEN [items |-> <<>>, synced |-> 0] ELSE file
    /\ due' = FALSE
    /\ IF aof_child = None
         THEN /\ Fork
              /\ aof_state' = "wait"
              /\ aof_fd' = "open"
         ELSE /\ aof_fd' = "stale"
              /\ UNCHANGED <<aof_state, aof_child, aof_rewrite_scheduled, aof_selected_db>>
    /\ UNCHANGED <<data, config, aof_current_size, aof_buf, aof_last_write_status,
                   aof_flush_postponed_start, fsyncs, aof_rewrite_buf, saving,
                   replies, turn, acked, writes>>

\* stopAppendOnly: the file gets all there is and is closed, the rewriting child is
\* killed.  wait3 waits for any child: the saving one may be gone before, with its work
\* done or not.
StopAppendOnly ==
    /\ aof_state # "off"
    /\ "config" \in Events /\ events < MaxEvents
    /\ \E o \in Flushes(TRUE) :
          /\ ~(o.failed /\ aof_fsync = "always")
          /\ events' = events + 1
          /\ file' = [items |-> o.items, synced |-> Len(o.items)]
          /\ aof_current_size' = o.size
          /\ aof_buf' = o.buf
          /\ aof_last_write_status' = o.status
          /\ aof_flush_postponed_start' = o.postponed
          /\ due' = o.due
          /\ fsyncs' = Former(o.fsyncs)
    /\ aof_fd' = "none"
    /\ aof_selected_db' = None
    /\ aof_state' = "off"
    /\ aof_child' = None
    /\ aof_rewrite_buf' = <<>>
    /\ \E found \in {<<rdb, rdb_child>>} \cup
                   (IF aof_child # None /\ rdb_child \notin {None, Lost}
                      THEN {rdb, rdb_child} \X {Lost} ELSE {}) :
          /\ rdb' = found[1]
          /\ rdb_child' = found[2]
    /\ UNCHANGED <<data, config, aof_rewrite_scheduled, dirty, dirty_before_bgsave,
                   lastbgsave_status, replies, turn, acked, writes>>
-----------------------------------------------------------------------------
(* Snapshots. *)

\* SAVE.
Save ==
    /\ rdb_child = None
    /\ Event("save")
    /\ rdb' = data
    /\ dirty' = 0
    /\ lastbgsave_status' = "ok"
    /\ UNCHANGED <<data, config, aof_state, file, aof_fd, aof_current_size, output,
                   aof_selected_db, rewrite, rdb_child, dirty_before_bgsave, replies,
                   turn, acked, writes>>

\* BGSAVE and the save points of serverCron.
BgSave ==
    /\ rdb_child = None /\ aof_child = None
    /\ Event("save")
    /\ rdb_child' = data
    /\ dirty_before_bgsave' = dirty
    /\ UNCHANGED <<data, config, aof_state, file, aof_fd, aof_current_size, output,
                   aof_selected_db, rewrite, rdb, dirty, lastbgsave_status, replies,
                   turn, acked, writes>>

\* Mutant of BgSaveDone: the writes during the save are forgotten.
BgSaveDoneClean(ok) ==
    /\ rdb_child \notin {None, Lost}
    /\ IF ok THEN /\ rdb' = rdb_child
                  /\ dirty' = 0
                  /\ lastbgsave_status' = "ok"
                  /\ UNCHANGED events
             ELSE /\ Event("child")
                  /\ lastbgsave_status' = "err"
                  /\ UNCHANGED <<rdb, dirty>>
    /\ rdb_child' = None
    /\ UNCHANGED <<data, config, aof_state, file, aof_fd, aof_current_size, output,
                   aof_selected_db, rewrite, dirty_before_bgsave, replies, turn, acked, writes>>
\* rdbSave in the child renames its file into place; backgroundSaveDoneHandler.
BgSaveDone(ok) ==
    /\ rdb_child \notin {None, Lost}
    /\ IF ok THEN /\ rdb' = rdb_child
                  /\ dirty' = dirty - dirty_before_bgsave
                  /\ lastbgsave_status' = "ok"
                  /\ UNCHANGED events
             ELSE /\ Event("child")
                  /\ lastbgsave_status' = "err"
                  /\ UNCHANGED <<rdb, dirty>>
    /\ rdb_child' = None
    /\ UNCHANGED <<data, config, aof_state, file, aof_fd, aof_current_size, output,
                   aof_selected_db, rewrite, dirty_before_bgsave, replies, turn, acked, writes>>
-----------------------------------------------------------------------------
(* The end of a process. *)

Contents == IF file = None THEN [items |-> <<>>, synced |-> 0] ELSE file

\* The process dies: what was written is in the file.
Exit ==
    /\ Event("exit")
    /\ Start(Contents.items, Contents.synced, rdb)

\* The machine dies: what was not synchronized may be there or not.
PowerLoss ==
    /\ Event("power")
    /\ \E k \in Contents.synced..Len(Contents.items) :
          Start(SubSeq(Contents.items, 1, k), k, rdb)

\* SHUTDOWN (prepareForShutdown): the children are killed, the file is synchronized, a
\* snapshot is saved unless the user wants none.
Shutdown(save) ==
    /\ Event("shutdown")
    /\ Start(Contents.items,
             IF aof_state = "off" THEN Contents.synced ELSE Len(Contents.items),
             IF save THEN data ELSE rdb)
-----------------------------------------------------------------------------
Init ==
    /\ data = <<>>
    /\ aof_fsync \in Policies
    /\ conf \in Configs
    /\ aof_state = conf
    /\ file = IF conf = "on" THEN [items |-> <<>>, synced |-> 0] ELSE None
    /\ aof_fd = IF conf = "on" THEN "open" ELSE "none"
    /\ aof_current_size = 0
    /\ aof_buf = <<>>
    /\ aof_selected_db = None
    /\ aof_last_write_status = "ok"
    /\ aof_flush_postponed_start = "no"
    /\ due = FALSE
    /\ fsyncs = <<>>
    /\ aof_child = None
    /\ aof_rewrite_buf = <<>>
    /\ aof_rewrite_scheduled = FALSE
    /\ rdb = None
    /\ rdb_child = None
    /\ dirty = 0
    /\ dirty_before_bgsave = 0
    /\ lastbgsave_status = "ok"
    /\ replies = {}
    /\ turn = {}
    /\ acked = {}
    /\ writes = 0
    /\ events = 0

Next ==
    \/ \E d \in DB, n \in 1..2 : Execute(d, n)
    \/ BeforeSleep \/ SendReplies \/ Tick \/ BioFsync
    \/ BgRewriteAof \/ ScheduledRewrite \/ RewriteDone \/ RewriteFailed
    \/ StartAppendOnly \/ StopAppendOnly
    \/ Save \/ BgSave \/ \E ok \in BOOLEAN : BgSaveDone(ok)
    \/ Exit \/ PowerLoss \/ \E save \in BOOLEAN : Shutdown(save)

\* The event loop turns, time passes, children and threads end their work.
Fairness ==
    /\ WF_vars(BeforeSleep) /\ WF_vars(Tick) /\ WF_vars(BioFsync)
    /\ WF_vars(ScheduledRewrite) /\ WF_vars(RewriteDone \/ RewriteFailed)
    /\ WF_vars(\E ok \in BOOLEAN : BgSaveDone(ok))

Spec == Init /\ [][Next]_vars /\ Fairness
-----------------------------------------------------------------------------
(* Properties. *)

\* Every variable has its type (redisServer, redis.h), a server whose AOF is not off
\* has the file open and knows its length, and a difference is kept only for a child.
TypeOK ==
    /\ data \in Log
    /\ aof_fsync \in Policies /\ conf \in Configs
    /\ aof_state \in {"off", "on", "wait"}
    /\ file \in File \cup {None}
    /\ file # None => file.synced <= Len(file.items)
    /\ aof_fd \in {"none", "open", "stale"}
    /\ aof_state # "off" => aof_fd = "open" /\ file # None
    /\ aof_fd # "none" => file # None
    /\ aof_current_size \in Nat
    /\ aof_state = "on" => aof_current_size = Len(file.items)
    /\ aof_buf \in Seq(Item)
    /\ aof_selected_db \in DB \cup {None}
    /\ aof_last_write_status \in {"ok", "err"}
    /\ aof_flush_postponed_start \in {"no", "now", "late"}
    /\ due \in BOOLEAN
    /\ fsyncs \in Seq({"aof", "former"})
    /\ "aof" \in ToSet(fsyncs) => file # None
    /\ aof_child \in Log \cup {None}
    /\ aof_rewrite_buf \in Seq(Item)
    /\ aof_child = None => aof_rewrite_buf = <<>>
    /\ aof_rewrite_scheduled \in BOOLEAN
    /\ rdb \in Log \cup {None}
    /\ rdb_child \in Log \cup {None, Lost}
    /\ dirty \in Nat /\ dirty_before_bgsave \in Nat
    /\ lastbgsave_status \in {"ok", "err"}
    /\ replies \cup turn \cup acked \subseteq DB \X (1..writes)
    /\ writes \in 0..MaxWrites /\ events \in 0..MaxEvents

\* Whenever the process or the machine dies, the file replays to what the server had
\* executed up to some command or transaction, nothing doubled, left out or in
\* another database (feedAppendOnlyFile, backgroundRewriteDoneHandler).
RestartFindsPrefix ==
    aof_state = "on" =>
        \A k \in file.synced..Len(file.items) : IsPrefix(Recovered(k), data)

\* What is in the file and in the buffer is all there is (flushAppendOnlyFile after a
\* short write, a rewrite that replaces both).
NothingMissing ==
    aof_state = "on" => Loaded(file.items \o aof_buf) = data

\* The writes that count as answered: their reply has left, and the turn in which they
\* were executed has ended with a flush.
Answered == acked \ turn

\* The end of the process loses no write whose reply has left and whose turn of the event
\* loop is over (flushAppendOnlyFile, sendReplyToClient); but for a flush that was
\* postponed, or failed.
AckedInFile ==
    /\ aof_state = "on"
    /\ aof_flush_postponed_start = "no" /\ aof_last_write_status = "ok"
    => Answered \subseteq ToSet(Recovered(Len(file.items)))

\* With appendfsync always not even the end of the machine does.
AckedOnDisk ==
    aof_state = "on" /\ aof_fsync = "always"
        => Answered \subseteq ToSet(Recovered(file.synced))

\* What a restart reads and what it promises (loadDataFromDisk).
Snapshot == IF conf = "on" \/ rdb = None THEN <<>> ELSE rdb
Mode == IF conf = "off" THEN "snapshot" ELSE IF aof_state # "on" THEN "idle"
        ELSE IF aof_fsync = "always" THEN "synced" ELSE "append"
Durable == INSTANCE DurableLog
             WITH log <- data, answered <- Answered, saved <- Snapshot, mode <- Mode

\* Whatever dies at whatever time, the server is one log of which a restart finds a
\* beginning: with appendfsync always all that was answered in the turns of the event loop
\* that are over, without an AOF no less than the last snapshot (loadDataFromDisk,
\* flushAppendOnlyFile, rdbSave and the handlers of the children).  A reply that leaves
\* in the turn of its command may be to a write that is lost.  Nothing is said while an
\* AOF of the configuration file is off or waits for its first rewrite.
ActsAsDurableLog == Durable!Spec

\* What server.dirty does not count is in dump.rdb (backgroundSaveDoneHandler): a save
\* point that is not reached has nothing to save.
UncountedIsSaved ==
    LET saved == IF rdb = None THEN <<>> ELSE rdb
    IN  IsPrefix(SubSeq(data, 1, Len(data) - dirty), saved)

\* A server that waits for its first rewrite gets it, however often a child fails,
\* unless a child was lost.
WaitEnds == aof_state = "wait" ~> (aof_state # "wait" \/ rdb_child = Lost)

\* A write error that passes is noticed and the server is writable again: after an
\* error there is a buffer to flush, as the comment of serverCron has it.
WritesResume ==
    aof_last_write_status = "err" ~> (aof_last_write_status = "ok" \/ aof_state = "off")

\* A server whose AOF was switched on waits for the rewrite to be complete in order to
\* append data on disk (comment of startAppendOnly).
AppendsAfterRewrite ==
    [][aof_state = "wait" /\ aof_state' = "wait" => file'.items = file.items]_vars

\* Since the AOF is written before replying to the client (comment of
\* flushAppendOnlyFile), the end of the process loses no acknowledged write.
WrittenBeforeReply ==
    aof_state = "on" => acked \subseteq ToSet(Recovered(Len(file.items)))

\* Nor does it when the writes of the turn are left out (the same comment).
WrittenByTurnEnd ==
    aof_state = "on" => Answered \subseteq ToSet(Recovered(Len(file.items)))

\* appendfsync everysec: an acknowledged write comes to the disk.
SyncedAtLast ==
    \A w \in DB \X (1..MaxWrites) :
        (aof_state = "on" /\ aof_fsync = "everysec" /\ w \in acked)
            ~> (aof_state # "on" \/ w \notin acked \/ w \in ToSet(Recovered(file.synced)))
================================================================================
