----------------------------- MODULE MCClients -----------------------------
(* Two connections, one key per shard, and one workload per subject.       *)
EXTENDS Clients, TLC

CONSTANTS c1, c2, ka, kb

MCConns == {c1, c2}
MCKeys == {ka, kb}
MCShardOf == (ka :> 0) @@ (kb :> 1)

Do(name) == Cmd(name, {}, "", 0)
On(name, ks) == Cmd(name, ks, "", 0)
With(name, arg) == Cmd(name, {}, arg, 0)
Work(first, most, second, more, pipelined, closes) ==
    [cmds |-> (c1 :> first) @@ (c2 :> second), limit |-> (c1 :> most) @@ (c2 :> more),
     pipelined |-> pipelined, closes |-> closes]

(* A transaction on watched keys against writes to them.                   *)
WatchWork ==
    Work({On("WATCH", {ka}), On("WATCH", {ka, kb}), Do("MULTI"), Do("EXEC"), On("SET", {kb}), Do("DBSIZE")}, 5,
         {On("SET", {ka}), On("DEL", {ka}), On("SET", {ka, kb})}, 2, {}, FALSE)
(* Databases, and the ways out of a transaction.                           *)
SelectWork ==
    Work({On("WATCH", {ka}), Cmd("SELECT", {}, "", 1), Cmd("SELECT", {}, "", 0), Do("MULTI"), Do("EXEC"),
          Do("DISCARD"), Do("UNWATCH"), Do("RESET"), Do("MALFORMED")}, 6,
         {On("SET", {ka}), Do("FLUSHALL")}, 1, {}, FALSE)
(* Cached reads, with and without OPTIN.                                   *)
TrackWork ==
    Work({With("CLIENT TRACKING", "on"), With("CLIENT TRACKING", "optin"), With("CLIENT TRACKING", "off"),
          With("CLIENT CACHING", "yes"), On("GET", {ka}), On("GET", {ka, kb}), Do("RESET"), With("HELLO", "3")}, 4,
         {On("SET", {ka}), On("SET", {ka, kb}), Do("FLUSHALL")}, 2, {}, TRUE)
(* Pauses, and a server that becomes a replica.                            *)
PauseWork ==
    Work({With("CLIENT PAUSE", "all"), With("CLIENT PAUSE", "write"), With("REPLICAOF", "one"),
          With("REPLICAOF", "no")}, 2,
         {On("SET", {ka}), On("GET", {ka, kb}), Do("MULTI"), Do("EXEC")}, 3, {c2}, FALSE)
(* Subscriptions.                                                          *)
SubscribeWork ==
    LET subs == {On("SUBSCRIBE", {"x"}), On("UNSUBSCRIBE", {"x"}), Do("UNSUBSCRIBE"), Do("RESET"), Do("MULTI")}
    IN  Work(subs, 3, subs, 2, {}, TRUE)

MCWorkloads == {WatchWork, SelectWork, TrackWork, PauseWork, SubscribeWork}
=============================================================================
