---------------------------- MODULE MCPersistence ----------------------------
(***************************************************************************)
(* Instances of Persistence: one server.                                   *)
(***************************************************************************)
EXTENDS Persistence

\* Replies leave all together and at once, in the turn of their command.  Only SendReplies
\* reads them, and the properties ask the more the more was answered: for every behaviour
\* with replies that leave later there is one with the same steps otherwise, allowed here,
\* of which all the same and more is asked.
RepliesLeaveAtOnce == replies # {} => replies' = {}
=============================================================================
