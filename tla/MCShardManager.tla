--------------------------- MODULE MCShardManager ---------------------------
(***************************************************************************)
(* Three shards on two Redis servers, two virtual nodes each; k1 and k2     *)
(* belong to the server with two shards and differ in crc32Hash.            *)
(***************************************************************************)
EXTENDS ShardManager

CONSTANTS a1, a2, k1, k2, k3

TwoServers == <<a1, a2>>
Virtual    == [a \in Addrs |-> IF a = a1 THEN <<1, 4>> ELSE <<2, 4>>]
Place      == [k \in Keys |-> CASE k = k1 -> 1 [] k = k2 -> 5 [] OTHER -> 2]
Residue    == [k \in Keys |-> CASE k = k1 -> 6 [] k = k2 -> 7 [] OTHER -> 9]
=============================================================================
