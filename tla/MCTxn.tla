------------------------------- MODULE MCTxn -------------------------------
(* Small instances of Txn: two shards, and one workload per question.      *)
EXTENDS TxnInv, TLC

CONSTANTS ka, kb, kc,          \* keys: ka and kc on shard 0, kb on shard 1
          w1, w2, t1, t2, t3, x  \* requests

MCKeys == {ka, kb, kc}
MCShardOf == (ka :> 0) @@ (kb :> 1) @@ (kc :> 0)

Cmd(kind, keys) == [kind |-> kind, keys |-> keys, src |-> ka, dst |-> kb, blocking |-> FALSE]

(* Singles on shard 0 (one of them a RENAME there), a cross-shard write, a *)
(* cross-shard read and a WATCH of one shard's keys: no deferred store.    *)
SerialReqs == {w1, w2, t1, t2, x}
SerialOps ==
    (w1 :> Cmd("write", {ka})) @@ (w2 :> [Cmd("rename", {ka, kc}) EXCEPT !.dst = kc]) @@
    (t1 :> Cmd("write", {ka, kb})) @@ (t2 :> Cmd("read", {ka, kb, kc})) @@ (x :> Cmd("watch", {ka, kc}))

(* A single, a RENAME across shards, FLUSHALL, a blocking write on one     *)
(* shard, and a WATCH that spans both shards.                              *)
LockReqs == {w1, t1, t2, t3, x}
LockOps ==
    (w1 :> Cmd("write", {ka})) @@ (t1 :> Cmd("rename", {ka, kb})) @@ (t2 :> Cmd("flush", MCKeys)) @@
    (t3 :> [Cmd("write", {kb}) EXCEPT !.blocking = TRUE]) @@ (x :> Cmd("watch", {ka, kb}))

(* Two writers of ka and a RENAME of ka to kb, on another shard.              *)
RenameReqs == {w1, w2, t1}
RenameOps ==
    (w1 :> Cmd("write", {ka})) @@ (w2 :> Cmd("write", {ka})) @@ (t1 :> Cmd("rename", {ka, kb}))
=============================================================================
