----------------------------- MODULE DurableLog -----------------------------
(***************************************************************************)
(* What a server that may go down promises of its writes.  They form a     *)
(* log, and a crash leaves a beginning of it: no write is found without    *)
(* those before it, twice, or changed.  How much it leaves depends on how  *)
(* the server is configured.                                               *)
(***************************************************************************)
EXTENDS Sequences, SequencesExt

VARIABLES log,        \* the writes executed
          answered,   \* those that count as answered: a reply may leave before
          saved,      \* the beginning of the log that the last snapshot has
          mode        \* "snapshot": a restart reads the snapshot; "append": it reads the
                      \* file to which the writes are appended; "synced": which is on
                      \* the disk before a write is answered; "idle": to which they are not
                      \* appended at the moment

Init == /\ log = <<>> /\ answered = {} /\ saved = <<>>
        /\ mode \in {"snapshot", "append", "synced"}

Write == /\ IsPrefix(log, log')
         /\ UNCHANGED <<answered, saved, mode>>

Answer == /\ answered \subseteq answered' /\ answered' \subseteq ToSet(log)
          /\ UNCHANGED <<log, saved, mode>>

Save == /\ mode = "snapshot"
        /\ IsPrefix(saved, saved') /\ IsPrefix(saved', log)
        /\ UNCHANGED <<log, answered, mode>>

\* Appending is turned on or off while the server runs.
Configure == /\ mode # "snapshot" /\ mode' \in {"idle", "append", "synced"}
             /\ UNCHANGED <<log, answered, saved>>

Crash == /\ mode # "idle" => IsPrefix(log', log)
         /\ mode = "snapshot" => IsPrefix(saved, log') /\ saved' = log' /\ UNCHANGED mode
         /\ mode = "synced" => answered \subseteq ToSet(log')
         /\ mode # "snapshot" => UNCHANGED saved /\ mode' \in {"append", "synced"}
         /\ answered' = answered \cap ToSet(log')

Next == Write \/ Answer \/ Save \/ Configure \/ Crash

Spec == Init /\ [][Next]_<<log, answered, saved, mode>>
=============================================================================
