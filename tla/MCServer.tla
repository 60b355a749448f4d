------------------------------- MODULE MCServer -------------------------------
(***************************************************************************)
(* Three clients on two keys: one that uses WATCH and MULTI, one that      *)
(* blocks on both keys and also writes, one that moves elements.           *)
(***************************************************************************)
EXTENDS Server

CONSTANTS C1, C2, C3, K1, K2

MCCommands == [c \in Client |->
    CASE c = C1 -> {Op("lpush", <<K1>>, None), Op("get", <<K2>>, None),
                   Op("brpoplpush", <<K1>>, K2), Op("del", <<K1>>, None)}
      [] c = C2 -> {Op("blpop", <<K1, K2>>, None), Op("lpush", <<K2>>, None),
                   Op("set", <<K2>>, None), Op("expire", <<K2>>, None)}
      [] c = C3 -> {Op("brpoplpush", <<K1>>, K2), Op("blpop", <<K2>>, None),
                   Op("rename", <<K2>>, K1), Op("flushdb", <<>>, None)}]
MCWatching == [c \in Client |-> IF c = C1 THEN {K2} ELSE {}]
=============================================================================
