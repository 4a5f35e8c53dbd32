------------------------------- MODULE TxnInv -------------------------------
(***************************************************************************)
(* The inductive invariant of the transaction layer, on which the proofs   *)
(* of TxnProofs rest: what the coordinator's position in `execute_tx` says *)
(* about every shard's lock and about the messages still in its channel.   *)
(***************************************************************************)
EXTENDS Txn

TxTypes == {"TxLock", "TxExec", "TxUnlock", "StoreValue"}

(* The coordinator has been told that its transaction locked shard s, and  *)
(* has not sent the unlock.                                                *)
Held(s) ==
    \/ phase = "lock" /\ s \in ShardsOf(cur) \ (left \cup txAwait)
    \/ phase = "exec" /\ s \in ShardsOf(cur)
    \/ phase = "unlock" /\ s \in left
    \/ phase = "stored" /\ s = ShardOf[Head(stores).key] /\ s \notin txAwait

(* What holds of the coordinator's own variables in each phase.            *)
CoordInv ==
    /\ phase = "idle" <=> cur = NoReq
    /\ phase \in {"lock", "exec"} =>
          left \cup txAwait \subseteq ShardsOf(cur) /\ left \cap txAwait = {}
    /\ phase = "unlock" => left \subseteq ShardsOf(cur) /\ txAwait = {}
    /\ phase \in {"idle", "store"} => left = {} /\ txAwait = {}
    /\ phase = "stored" =>
          left = {} /\ stores # <<>> /\ txAwait \subseteq {ShardOf[Head(stores).key]}
    /\ phase # "idle" => txCounter # 0

UnlockQueued(s) == \E i \in DOMAIN mailbox[s] : mailbox[s][i].type = "TxUnlock"

(* A transaction message in shard s's channel is the one the coordinator   *)
(* waits for, or the unlock of the transaction that still holds s.         *)
MailInv(s) ==
    \A i \in DOMAIN mailbox[s] :
        LET m == mailbox[s][i]
        IN  /\ m.type = "TxUnlock" => activeTx[s] = m.tx
            /\ m.type = "TxLock" =>
                  phase = "lock" /\ s \in txAwait /\ m.tx = txCounter /\ m.req = cur
            /\ m.type = "StoreValue" =>
                  phase = "stored" /\ s \in txAwait /\ m.tx = txCounter /\ ShardOf[m.key] = s
            /\ m.type = "TxExec" =>
                  phase = "exec" /\ s \in txAwait /\ m.tx = txCounter

(* At most two of them, and then an unlock and the next transaction's lock. *)
OrderInv(s) ==
    \A i, j \in DOMAIN mailbox[s] :
        (i < j /\ mailbox[s][i].type \in TxTypes /\ mailbox[s][j].type \in TxTypes) =>
            mailbox[s][i].type = "TxUnlock" /\ mailbox[s][j].type \in {"TxLock", "StoreValue"}

(* Who holds shard s, and that the holder still is to unlock it.           *)
HolderInv(s) ==
    /\ Held(s) => activeTx[s] = txCounter /\ txCounter # 0 /\ ~UnlockQueued(s)
    /\ activeTx[s] # 0 => Held(s) \/ UnlockQueued(s)
    /\ s \in draining => activeTx[s] = 0
    /\ UnlockQueued(s) => activeTx[s] # 0

(* The stored contexts of shard s.                                         *)
CtxInv(s) ==
    /\ \A c \in txCtx[s] : c.tx = activeTx[s] /\ activeTx[s] # 0 /\ (Held(s) => c.req = cur)
    /\ (phase = "lock" /\ Held(s)) \/ (phase = "exec" /\ s \in left \cup txAwait) =>
          [tx |-> txCounter, req |-> cur] \in txCtx[s]

(* What is parked on shard s.                                              *)
ParkedInv(s) ==
    (activeTx[s] = 0 /\ s \notin draining) => pendingSingles[s] = <<>> /\ pendingWatches[s] = <<>>

ShardInv(s) == MailInv(s) /\ OrderInv(s) /\ HolderInv(s) /\ CtxInv(s) /\ ParkedInv(s)

LockInv == CoordInv /\ \A s \in Shards : ShardInv(s)

----------------------------------------------------------------------------
(* What the IO thread sends straight to a shard, in the order it did.      *)

(* Request a was dispatched before request b.                              *)
Before(a, b) ==
    \E i, j \in DOMAIN submitted : i < j /\ submitted[i] = a /\ submitted[j] = b

SingleOn(r, s) == r \in Dispatched /\ IsSingle(r) /\ s \in ShardsOf(r)
ViaCoord(r) == r \in Dispatched /\ ~IsSingle(r) /\ Kind(r) # "watch"

(* Requests are dispatched once, the WATCH in progress last; what was not  *)
(* dispatched has not run, and the coordinator runs none of the direct     *)
(* requests.                                                               *)
SubmitInv ==
    /\ \A i, j \in DOMAIN submitted : submitted[i] = submitted[j] => i = j
    /\ watching # NoReq => /\ submitted # <<>>
                           /\ watching = submitted[Len(submitted)]
                           /\ Kind(watching) = "watch"
                           /\ watchLeft \cap watchAwait = {}
    /\ watching = NoReq => watchLeft = {} /\ watchAwait = {}
    /\ \A r \in Reqs \ Dispatched : ran[r] = {}
    /\ \A i \in DOMAIN coordQueue : ViaCoord(coordQueue[i])
    /\ cur # NoReq => ViaCoord(cur)

IsMail(s, i, type) == mailbox[s][i].type = type

(* The singles of shard s wait in the order they were dispatched, those    *)
(* parked in front of those in the channel.                                *)
SinglesInv(s) ==
    /\ \A i \in DOMAIN pendingSingles[s] : SingleOn(pendingSingles[s][i], s)
    /\ \A i \in DOMAIN mailbox[s] : IsMail(s, i, "Single") => SingleOn(mailbox[s][i].req, s)
    /\ \A i, j \in DOMAIN pendingSingles[s] :
          i < j => Before(pendingSingles[s][i], pendingSingles[s][j])
    /\ \A i \in DOMAIN pendingSingles[s], j \in DOMAIN mailbox[s] :
          IsMail(s, j, "Single") => Before(pendingSingles[s][i], mailbox[s][j].req)
    /\ \A i, j \in DOMAIN mailbox[s] :
          (i < j /\ IsMail(s, i, "Single") /\ IsMail(s, j, "Single")) =>
              Before(mailbox[s][i].req, mailbox[s][j].req)

(* The query of the WATCH in progress is behind every single of shard s,   *)
(* in the channel or parked.                                               *)
WatchInv(s) ==
    /\ \A i \in DOMAIN mailbox[s] : IsMail(s, i, "WatchQuery") =>
          /\ mailbox[s][i].req = watching /\ s \in watchAwait /\ pendingWatches[s] = <<>>
          /\ \A j \in DOMAIN mailbox[s] :
                j > i => mailbox[s][j].type \notin {"Single", "WatchQuery"}
    /\ pendingWatches[s] # <<>> =>
          /\ pendingWatches[s] = <<watching>> /\ s \in watchAwait
          /\ \A j \in DOMAIN mailbox[s] : mailbox[s][j].type \notin {"Single", "WatchQuery"}

(* A direct request that has not run on shard s is waiting there.          *)
WaitsOn(r, s) ==
    \/ \E i \in DOMAIN pendingSingles[s] : pendingSingles[s][i] = r
    \/ \E i \in DOMAIN mailbox[s] : IsMail(s, i, "Single") /\ mailbox[s][i].req = r

WaitInv(s) ==
    /\ \A r \in Reqs : SingleOn(r, s) /\ ~RanOn(r, s) => WaitsOn(r, s)
    /\ \A r \in Dispatched :
          Kind(r) = "watch" /\ s \in ShardsOf(r) /\ ~RanOn(r, s) =>
              r = watching /\ s \in watchLeft \cup watchAwait

(* No request overtook another on shard s.                                 *)
DirectTo(r, s) == (IsSingle(r) \/ Kind(r) = "watch") /\ s \in ShardsOf(r)

ServedInv(s) ==
    \A a, b \in Reqs :
        Before(a, b) /\ DirectTo(a, s) /\ DirectTo(b, s) /\ RanOn(b, s) => RanOn(a, s)

QueueInv(s) == SinglesInv(s) /\ WatchInv(s) /\ WaitInv(s) /\ ServedInv(s)

FifoInv == SubmitInv /\ \A s \in Shards : QueueInv(s)

----------------------------------------------------------------------------
(* What has run so far and what it left, as the refinement of SerialStore  *)
(* needs it.                                                               *)

(* The workloads that are atomic: a RENAME over two shards stores after it *)
(* has unlocked (`merge_rename`), and a WATCH over several shards takes    *)
(* its snapshot shard after shard (`watch_snapshot`).                      *)
LocalKeys ==
    \A r \in Reqs : Kind(r) \in {"rename", "watch"} => \A s, t \in ShardsOf(r) : s = t

(* Nothing of a request that waits in a queue has run.                     *)
WaitingInv ==
    /\ \A i \in DOMAIN coordQueue : ran[coordQueue[i]] = {} /\ coordQueue[i] # cur
    /\ \A i, j \in DOMAIN coordQueue : coordQueue[i] = coordQueue[j] => i = j
    /\ \A s \in Shards, r \in Reqs : WaitsOn(r, s) => ran[r] = {}
    /\ watchLeft \cup watchAwait # {} =>
          ran[watching] = {} /\ watchLeft \cup watchAwait \subseteq ShardsOf(watching)

(* The transaction has run on the shards that sent their result, on all of *)
(* them once it unlocks, and defers no store.                              *)
ProgressInv ==
    /\ stores = <<>> /\ phase # "stored"
    /\ phase = "lock" => ran[cur] = {}
    /\ phase = "exec" => ran[cur] = {k \in KeysOf(cur) : ShardOf[k] \notin left \cup txAwait}
    /\ phase \in {"unlock", "store"} => ran[cur] = KeysOf(cur)

(* Where an unfinished transaction has run the keys are as it left them.   *)
ResultInv ==
    /\ \A r \in Reqs : \A k \in Keys \ ran[r] : seen[r][k] = {}
    /\ (cur # NoReq /\ ~Complete(cur)) =>
          \A k \in ran[cur] : db[k] = After(cur, seen[cur], Keys)[k]

RunInv == WaitingInv /\ ProgressInv /\ ResultInv
=============================================================================
