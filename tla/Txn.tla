-------------------------------- MODULE Txn --------------------------------
(***************************************************************************)
(* The transaction layer: the IO thread routes a request either straight   *)
(* to the one shard that owns its keys or to the coordinator thread, which *)
(* runs it on every shard involved under the shards' locks (TxLock,        *)
(* TxExec, TxUnlock).  Source: server/event_loop.rs (routing),             *)
(* server/coordinator.rs (the transaction), server/shard.rs (the shard).   *)
(*                                                                         *)
(* Every thread owns one FIFO channel it receives from (std::sync::mpsc).  *)
(* The answer channels a sender creates for one message and then waits on  *)
(* are the sets txAwait and watchAwait of shards that still owe an answer. *)
(***************************************************************************)
EXTENDS KvOps, Naturals, Sequences

CONSTANTS
    NumShards,   \* the number of shard threads
    ShardOf      \* `shard_for_key`: the shard that owns each key

Shards == 0 .. NumShards - 1

ASSUME ShardAssumption ==
    /\ NumShards \in Nat \ {0}
    /\ ShardOf \in [Keys -> Shards]

CONSTANT NoReq
ASSUME NoReqAssumption == NoReq \notin Reqs

VARIABLES
    mailbox,     \* [Shards -> Seq(ShardMsg)]: the shards' channels
    coordQueue,  \* the coordinator's channel: the requests routed to it
    submitted,   \* the requests the IO thread has dispatched, in order
    watching,    \* the WATCH the IO thread is blocked in, or NoReq
    watchLeft,   \* the shards that WATCH has not queried yet
    watchAwait,  \* the shard (at most one) whose snapshot it waits for
    phase,       \* where the coordinator is in `execute_tx`
    cur,         \* the request it executes, or NoReq
    txCounter,   \* the id of its latest transaction
    left,        \* the shards it has not sent this phase's message to yet
    txAwait,     \* the shards whose ack or result it waits for
    stores,      \* the deferred stores it has still to perform
    activeTx,    \* per shard, the transaction that holds it, 0 for none
    txCtx,       \* per shard, the stored contexts of transactions
    pendingSingles, pendingWatches,    \* per shard, queued while it is held
    draining,    \* the shards inside the loops of `unlock_tx`
    db,          \* the value of every key
    ran,         \* per request, the keys its executor has run on so far
    seen,        \* per request, the values it found on those keys
    replied      \* the requests whose reply was sent

ioVars == <<submitted, watching, watchLeft>>
coordVars == <<coordQueue, phase, cur, txCounter, left, stores>>
lockVars == <<activeTx, txCtx, draining>>
pendVars == <<pendingSingles, pendingWatches>>
dataVars == <<db, ran, seen>>
vars == <<mailbox, ioVars, watchAwait, coordVars, txAwait, lockVars, pendVars, dataVars, replied>>

----------------------------------------------------------------------------
(* Requests and messages *)

(* `keys_per_shard`; a FLAG_GLOBAL command goes to every shard.            *)
ShardsOf(r) == IF Kind(r) = "flush" THEN Shards ELSE {ShardOf[k] : k \in KeysOf(r)}

(* The keys shard s owns, and those of request r among them.               *)
OwnedBy(s) == {k \in Keys : ShardOf[k] = s}
OwnedKeys(r, s) == KeysOf(r) \cap OwnedBy(s)

(* `dispatch_keyed`: one shard and not blocking goes straight to the shard. *)
IsSingle(r) ==
    /\ Kind(r) \notin {"watch", "flush"}
    /\ ~OpOf[r].blocking
    /\ \A s, t \in ShardsOf(r) : s = t

ShardMsg ==
         [type : {"Single", "WatchQuery"}, req : Reqs]
    \cup [type : {"TxLock"}, tx : Nat, req : Reqs]
    \cup [type : {"TxExec", "TxUnlock"}, tx : Nat]
    \cup [type : {"StoreValue"}, tx : Nat, key : Keys, value : Value]

Store == [key : Keys, value : Value]

TxCtx == [tx : Nat, req : Reqs]

Phases == {"idle", "lock", "exec", "unlock", "store", "stored"}

(* The types of the coordinator's, the shards' and the IO thread's state.  *)
TypeOK ==
    /\ mailbox \in [Shards -> Seq(ShardMsg)]
    /\ coordQueue \in Seq(Reqs)
    /\ submitted \in Seq(Reqs)
    /\ watching \in Reqs \cup {NoReq}
    /\ watchLeft \subseteq Shards
    /\ watchAwait \subseteq Shards
    /\ phase \in Phases
    /\ cur \in Reqs \cup {NoReq}
    /\ txCounter \in Nat
    /\ left \subseteq Shards
    /\ txAwait \subseteq Shards
    /\ stores \in Seq(Store)
    /\ activeTx \in [Shards -> Nat]
    /\ txCtx \in [Shards -> SUBSET TxCtx]
    /\ pendingSingles \in [Shards -> Seq(Reqs)]
    /\ pendingWatches \in [Shards -> Seq(Reqs)]
    /\ draining \subseteq Shards
    /\ db \in [Keys -> Value]
    /\ ran \in [Reqs -> SUBSET Keys]
    /\ seen \in [Reqs -> [Keys -> Value]]
    /\ replied \subseteq Reqs

Init ==
    /\ mailbox = [s \in Shards |-> <<>>]
    /\ coordQueue = <<>>
    /\ submitted = <<>>
    /\ watching = NoReq
    /\ watchLeft = {}
    /\ watchAwait = {}
    /\ phase = "idle"
    /\ cur = NoReq
    /\ txCounter = 0
    /\ left = {}
    /\ txAwait = {}
    /\ stores = <<>>
    /\ activeTx = [s \in Shards |-> 0]
    /\ txCtx = [s \in Shards |-> {}]
    /\ pendingSingles = [s \in Shards |-> <<>>]
    /\ pendingWatches = [s \in Shards |-> <<>>]
    /\ draining = {}
    /\ db = [k \in Keys |-> {}]
    /\ ran = [r \in Reqs |-> {}]
    /\ seen = [r \in Reqs |-> [k \in Keys |-> {}]]
    /\ replied = {}

Send(s, msg) == mailbox' = [mailbox EXCEPT ![s] = Append(@, msg)]

(* Shards are visited in ascending order (`keys_per_shard` is a BTreeMap). *)
IsFirst(s, S) == s \in S /\ \A t \in S : s <= t

----------------------------------------------------------------------------
(* The IO thread *)

(* It dispatches nothing while it is blocked in `watch_snapshot`.          *)
IoFree == watching = NoReq

Dispatched == {submitted[i] : i \in DOMAIN submitted}

(* `dispatch_keyed`, `send_single`: a request one shard can serve.         *)
SendSingle(r) ==
    /\ IoFree
    /\ r \notin Dispatched
    /\ IsSingle(r)
    /\ submitted' = Append(submitted, r)
    /\ \E s \in ShardsOf(r) : Send(s, [type |-> "Single", req |-> r])
    /\ UNCHANGED <<watching, watchLeft, watchAwait, coordVars, txAwait, lockVars, pendVars,
                   dataVars, replied>>

(* `dispatch_keyed`, `send_coord`: a multi-shard, global or blocking one.  *)
SendCoord(r) ==
    /\ IoFree
    /\ r \notin Dispatched
    /\ ~IsSingle(r)
    /\ Kind(r) # "watch"
    /\ submitted' = Append(submitted, r)
    /\ coordQueue' = Append(coordQueue, r)
    /\ UNCHANGED <<mailbox, watching, watchLeft, watchAwait, phase, cur, txCounter, left, stores,
                   txAwait, lockVars, pendVars, dataVars, replied>>

(* `local_watch` calls `watch_snapshot`, which blocks the IO thread ...    *)
LocalWatch(r) ==
    /\ IoFree
    /\ r \notin Dispatched
    /\ Kind(r) = "watch"
    /\ submitted' = Append(submitted, r)
    /\ watching' = r
    /\ watchLeft' = ShardsOf(r)
    /\ UNCHANGED <<mailbox, watchAwait, coordVars, txAwait, lockVars, pendVars, dataVars, replied>>

(* ... it queries one shard and waits for the answer, shard after shard.   *)
SendWatchQuery(s) ==
    /\ watching # NoReq
    /\ watchAwait = {}
    /\ IsFirst(s, watchLeft)
    /\ Send(s, [type |-> "WatchQuery", req |-> watching])
    /\ watchLeft' = watchLeft \ {s}
    /\ watchAwait' = {s}
    /\ UNCHANGED <<submitted, watching, coordVars, txAwait, lockVars, pendVars, dataVars, replied>>

WatchReply ==
    /\ watching # NoReq
    /\ watchLeft = {}
    /\ watchAwait = {}
    /\ replied' = replied \cup {watching}
    /\ watching' = NoReq
    /\ UNCHANGED <<mailbox, submitted, watchLeft, watchAwait, coordVars, txAwait, lockVars, pendVars,
                   dataVars>>

----------------------------------------------------------------------------
(* The coordinator thread: `run`, `handle`, `execute_tx` *)

(* It takes the next request from its channel: a new transaction id.       *)
StartTx ==
    /\ phase = "idle"
    /\ coordQueue # <<>>
    /\ cur' = Head(coordQueue)
    /\ coordQueue' = Tail(coordQueue)
    /\ txCounter' = txCounter + 1
    /\ phase' = "lock"
    /\ left' = ShardsOf(Head(coordQueue))
    /\ UNCHANGED <<mailbox, ioVars, watchAwait, stores, txAwait, lockVars, pendVars, dataVars,
                   replied>>

(* Phase 1: a TxLock to every shard involved; the acks come later.         *)
SendTxLock(s) ==
    /\ phase = "lock"
    /\ IsFirst(s, left)
    /\ Send(s, [type |-> "TxLock", tx |-> txCounter, req |-> cur])
    /\ left' = left \ {s}
    /\ txAwait' = txAwait \cup {s}
    /\ UNCHANGED <<ioVars, watchAwait, coordQueue, phase, cur, txCounter, stores, lockVars, pendVars,
                   dataVars, replied>>

(* All acks are in.                                                        *)
AllLocked ==
    /\ phase = "lock"
    /\ left = {}
    /\ txAwait = {}
    /\ phase' = "exec"
    /\ left' = ShardsOf(cur)
    /\ UNCHANGED <<mailbox, ioVars, watchAwait, coordQueue, cur, txCounter, stores, txAwait,
                   lockVars, pendVars, dataVars, replied>>

(* Phase 2: the shards run the executor one after the other.               *)
SendTxExec(s) ==
    /\ phase = "exec"
    /\ txAwait = {}
    /\ IsFirst(s, left)
    /\ Send(s, [type |-> "TxExec", tx |-> txCounter])
    /\ left' = left \ {s}
    /\ txAwait' = {s}
    /\ UNCHANGED <<ioVars, watchAwait, coordQueue, phase, cur, txCounter, stores, lockVars, pendVars,
                   dataVars, replied>>

(* Mutant: the unlock phase starts without waiting for the last result.    *)
AllExecutedEarly ==
    /\ phase = "exec"
    /\ left = {}
    /\ phase' = "unlock"
    /\ left' = ShardsOf(cur)
    /\ UNCHANGED <<mailbox, ioVars, watchAwait, coordQueue, cur, txCounter, stores, txAwait,
                   lockVars, pendVars, dataVars, replied>>

AllExecuted ==
    /\ phase = "exec"
    /\ left = {}
    /\ txAwait = {}
    /\ phase' = "unlock"
    /\ left' = ShardsOf(cur)
    /\ UNCHANGED <<mailbox, ioVars, watchAwait, coordQueue, cur, txCounter, stores, txAwait,
                   lockVars, pendVars, dataVars, replied>>

(* Phase 3: a TxUnlock to every shard; nothing answers it.                 *)
SendTxUnlock(s) ==
    /\ phase = "unlock"
    /\ IsFirst(s, left)
    /\ Send(s, [type |-> "TxUnlock", tx |-> txCounter])
    /\ left' = left \ {s}
    /\ UNCHANGED <<ioVars, watchAwait, coordQueue, phase, cur, txCounter, stores, txAwait, lockVars,
                   pendVars, dataVars, replied>>

(* `merge_rename`: a RENAME whose keys live on two shards has changed      *)
(* nothing yet; it becomes a deletion and a store of the value reported.   *)
DeferredStores(r) ==
    LET src == OpOf[r].src
        dst == OpOf[r].dst
    IN  IF Kind(r) = "rename" /\ ShardOf[src] # ShardOf[dst] /\ seen[r][src] # {}
        THEN <<[key |-> src, value |-> {}], [key |-> dst, value |-> seen[r][src]]>>
        ELSE <<>>

(* `finish_tx`, once every TxUnlock is sent.                               *)
FinishTx ==
    /\ phase = "unlock"
    /\ left = {}
    /\ phase' = "store"
    /\ stores' = DeferredStores(cur)
    /\ UNCHANGED <<mailbox, ioVars, watchAwait, coordQueue, cur, txCounter, left, txAwait, lockVars,
                   pendVars, dataVars, replied>>

(* `perform_deferred_store`: a transaction of its own on the key's shard.  *)
SendStoreValue ==
    /\ phase = "store"
    /\ stores # <<>>
    /\ LET st == Head(stores)
       IN  /\ Send(ShardOf[st.key], [type |-> "StoreValue", tx |-> txCounter + 1,
                                     key |-> st.key, value |-> st.value])
           /\ txAwait' = {ShardOf[st.key]}
    /\ txCounter' = txCounter + 1
    /\ phase' = "stored"
    /\ UNCHANGED <<ioVars, watchAwait, coordQueue, cur, left, stores, lockVars, pendVars, dataVars,
                   replied>>

UnlockStore ==
    /\ phase = "stored"
    /\ txAwait = {}
    /\ Send(ShardOf[Head(stores).key], [type |-> "TxUnlock", tx |-> txCounter])
    /\ stores' = Tail(stores)
    /\ phase' = "store"
    /\ UNCHANGED <<ioVars, watchAwait, coordQueue, cur, txCounter, left, txAwait, lockVars, pendVars,
                   dataVars, replied>>

(* `reply_result`: back to the channel for the next request.               *)
ReplyTx ==
    /\ phase = "store"
    /\ stores = <<>>
    /\ replied' = replied \cup {cur}
    /\ phase' = "idle"
    /\ cur' = NoReq
    /\ UNCHANGED <<mailbox, ioVars, watchAwait, coordQueue, txCounter, left, stores, txAwait,
                   lockVars, pendVars, dataVars>>

----------------------------------------------------------------------------
(* A shard thread: `run`, `handle` *)

(* The shard takes the next message, of type `type`, from its channel.     *)
Receive(s, type) ==
    /\ s \notin draining
    /\ mailbox[s] # <<>>
    /\ Head(mailbox[s]).type = type
    /\ mailbox' = [mailbox EXCEPT ![s] = Tail(@)]

(* The part of the result of r that shard s reports: what it found.        *)
Report(r, s) ==
    /\ ran' = [ran EXCEPT ![r] = @ \cup OwnedKeys(r, s)]
    /\ seen' = [seen EXCEPT ![r] = [k \in Keys |-> IF k \in OwnedKeys(r, s) THEN db[k] ELSE @[k]]]

(* `run_exec`: request r runs on the keys of shard s.                      *)
RunExec(r, s) ==
    /\ db' = After(r, db, OwnedBy(s))
    /\ Report(r, s)

(* Mutant: the snapshot is taken and not sent.                             *)
RunWatchQuerySilent(r, s) ==
    /\ Report(r, s)
    /\ UNCHANGED <<db, watchAwait>>

(* `run_watch_query`: the snapshot of shard s goes back to the IO thread.  *)
RunWatchQuery(r, s) ==
    /\ Report(r, s)
    /\ watchAwait' = watchAwait \ {s}
    /\ UNCHANGED db

(* Mutant: a single runs although a transaction holds the shard.           *)
HandleSingleUnparked(s) ==
    /\ Receive(s, "Single")
    /\ RunExec(Head(mailbox[s]).req, s)
    /\ replied' = replied \cup {Head(mailbox[s]).req}
    /\ UNCHANGED <<ioVars, watchAwait, coordVars, txAwait, lockVars, pendVars>>

HandleSingle(s) ==
    /\ Receive(s, "Single")
    /\ LET r == Head(mailbox[s]).req
       IN  IF activeTx[s] # 0
           THEN /\ pendingSingles' = [pendingSingles EXCEPT ![s] = Append(@, r)]
                /\ UNCHANGED <<dataVars, replied>>
           ELSE /\ RunExec(r, s)
                /\ replied' = replied \cup {r}
                /\ UNCHANGED pendingSingles
    /\ UNCHANGED <<ioVars, watchAwait, coordVars, txAwait, lockVars, pendingWatches>>

(* Mutant: a watch query is answered although a transaction holds the      *)
(* shard.                                                                  *)
HandleWatchQueryUnparked(s) ==
    /\ Receive(s, "WatchQuery")
    /\ RunWatchQuery(Head(mailbox[s]).req, s)
    /\ UNCHANGED <<ioVars, coordVars, txAwait, lockVars, pendVars, replied>>

HandleWatchQuery(s) ==
    /\ Receive(s, "WatchQuery")
    /\ LET r == Head(mailbox[s]).req
       IN  IF activeTx[s] # 0
           THEN /\ pendingWatches' = [pendingWatches EXCEPT ![s] = Append(@, r)]
                /\ UNCHANGED <<dataVars, watchAwait>>
           ELSE /\ RunWatchQuery(r, s)
                /\ UNCHANGED pendingWatches
    /\ UNCHANGED <<ioVars, coordVars, txAwait, lockVars, pendingSingles, replied>>

(* Mutant: the context is stored and the ack sent, but the lock not taken. *)
HandleTxLockUnheld(s) ==
    /\ Receive(s, "TxLock")
    /\ LET m == Head(mailbox[s])
       IN  txCtx' = [txCtx EXCEPT ![s] = @ \cup {[tx |-> m.tx, req |-> m.req]}]
    /\ txAwait' = txAwait \ {s}
    /\ UNCHANGED <<ioVars, watchAwait, coordVars, activeTx, draining, pendVars, dataVars, replied>>

(* The lock is taken whoever holds it: `active_tx` is last-writer-wins.    *)
HandleTxLock(s) ==
    /\ Receive(s, "TxLock")
    /\ LET m == Head(mailbox[s])
       IN  /\ activeTx' = [activeTx EXCEPT ![s] = m.tx]
           /\ txCtx' = [txCtx EXCEPT ![s] = @ \cup {[tx |-> m.tx, req |-> m.req]}]
    /\ txAwait' = txAwait \ {s}
    /\ UNCHANGED <<ioVars, watchAwait, coordVars, draining, pendVars, dataVars, replied>>

(* The executor runs from the stored context, which it removes; without a  *)
(* context the part is the "transaction not locked" error.                 *)
HandleTxExec(s) ==
    /\ Receive(s, "TxExec")
    /\ LET mine == {c \in txCtx[s] : c.tx = Head(mailbox[s]).tx}
       IN  /\ \/ /\ mine = {}
                 /\ UNCHANGED dataVars
              \/ \E c \in mine : RunExec(c.req, s)
           /\ txCtx' = [txCtx EXCEPT ![s] = @ \ mine]
    /\ txAwait' = txAwait \ {s}
    /\ UNCHANGED <<ioVars, watchAwait, coordVars, activeTx, draining, pendVars, replied>>

(* `unlock_tx`: the holder's unlock frees the shard and starts the drain   *)
(* of what was queued; any context left is dropped.                        *)
HandleTxUnlock(s) ==
    /\ Receive(s, "TxUnlock")
    /\ LET t == Head(mailbox[s]).tx
       IN  /\ IF activeTx[s] = t
              THEN /\ activeTx' = [activeTx EXCEPT ![s] = 0]
                   /\ draining' = draining \cup {s}
              ELSE UNCHANGED <<activeTx, draining>>
           /\ txCtx' = [txCtx EXCEPT ![s] = {c \in @ : c.tx # t}]
    /\ UNCHANGED <<ioVars, watchAwait, coordVars, txAwait, pendVars, dataVars, replied>>

HandleStoreValue(s) ==
    /\ Receive(s, "StoreValue")
    /\ LET m == Head(mailbox[s])
       IN  /\ activeTx' = [activeTx EXCEPT ![s] = m.tx]
           /\ db' = [db EXCEPT ![m.key] = m.value]
    /\ txAwait' = txAwait \ {s}
    /\ UNCHANGED <<ioVars, watchAwait, coordVars, txCtx, draining, pendVars, ran, seen, replied>>

(* The two loops of `unlock_tx`, one queued entry per step: every queued   *)
(* single, then every queued watch query, before any other message.        *)
DrainSingle(s) ==
    /\ s \in draining
    /\ pendingSingles[s] # <<>>
    /\ LET r == Head(pendingSingles[s])
       IN  /\ RunExec(r, s)
           /\ replied' = replied \cup {r}
    /\ pendingSingles' = [pendingSingles EXCEPT ![s] = Tail(@)]
    /\ UNCHANGED <<mailbox, ioVars, watchAwait, coordVars, txAwait, lockVars, pendingWatches>>

DrainWatch(s) ==
    /\ s \in draining
    /\ pendingSingles[s] = <<>>
    /\ pendingWatches[s] # <<>>
    /\ RunWatchQuery(Head(pendingWatches[s]), s)
    /\ pendingWatches' = [pendingWatches EXCEPT ![s] = Tail(@)]
    /\ UNCHANGED <<mailbox, ioVars, coordVars, txAwait, lockVars, pendingSingles, replied>>

DrainDone(s) ==
    /\ s \in draining
    /\ pendingSingles[s] = <<>>
    /\ pendingWatches[s] = <<>>
    /\ draining' = draining \ {s}
    /\ UNCHANGED <<mailbox, ioVars, watchAwait, coordVars, txAwait, activeTx, txCtx, pendVars,
                   dataVars, replied>>

----------------------------------------------------------------------------
IoStep ==
    \/ \E r \in Reqs : SendSingle(r) \/ SendCoord(r) \/ LocalWatch(r)
    \/ \E s \in Shards : SendWatchQuery(s)
    \/ WatchReply

CoordStep ==
    \/ StartTx
    \/ AllLocked
    \/ AllExecuted
    \/ \E s \in Shards : SendTxLock(s) \/ SendTxExec(s) \/ SendTxUnlock(s)
    \/ FinishTx
    \/ SendStoreValue
    \/ UnlockStore
    \/ ReplyTx

ShardStep(s) ==
    \/ HandleSingle(s)
    \/ HandleWatchQuery(s)
    \/ HandleTxLock(s)
    \/ HandleTxExec(s)
    \/ HandleTxUnlock(s)
    \/ HandleStoreValue(s)
    \/ DrainSingle(s)
    \/ DrainWatch(s)
    \/ DrainDone(s)

(* Every client got its reply and has nothing more to send.                *)
AllServed == replied = Reqs /\ UNCHANGED vars

Next == IoStep \/ CoordStep \/ (\E s \in Shards : ShardStep(s)) \/ AllServed

Spec == Init /\ [][Next]_vars

(* The coordinator and the shards are threads that loop over `recv`, and a *)
(* blocked IO thread goes on once its answer is there.  That clients send  *)
(* requests is not assumed.                                                *)
Fairness ==
    /\ WF_vars(CoordStep)
    /\ \A s \in Shards : WF_vars(ShardStep(s))
    /\ WF_vars(WatchReply \/ \E s \in Shards : SendWatchQuery(s))

FairSpec == Spec /\ Fairness

----------------------------------------------------------------------------
(* Properties *)

(* `active_tx` is overwritten by whatever TxLock or StoreValue arrives, and *)
(* TxExec and TxUnlock do not check who holds the shard (shard.rs:187-241). *)
(* Because the coordinator runs one transaction at a time and channels are *)
(* FIFO it never matters: a lock is taken on a free shard only, TxExec and  *)
(* TxUnlock arrive while their transaction holds the shard, and TxExec      *)
(* finds its context ("transaction not locked" is unreachable).            *)
LockDiscipline ==
    \A s \in Shards : (s \notin draining /\ mailbox[s] # <<>>) =>
        LET m == Head(mailbox[s])
        IN  /\ m.type \in {"TxLock", "StoreValue"} => activeTx[s] = 0
            /\ m.type \in {"TxExec", "TxUnlock"} => activeTx[s] = m.tx
            /\ m.type = "TxExec" => \E c \in txCtx[s] : c.tx = m.tx

(* No request is stranded in a shard's queues: they are empty whenever the *)
(* shard is free and back at its channel, since nothing would drain them    *)
(* (shard.rs:1004-1018), and between transactions no context is left over. *)
NothingStranded ==
    \A s \in Shards :
        (activeTx[s] = 0 /\ s \notin draining) =>
            /\ pendingSingles[s] = <<>>
            /\ pendingWatches[s] = <<>>
            /\ txCtx[s] = {}

(* Request r was run on shard s.                                           *)
RanOn(r, s) == OwnedKeys(r, s) \subseteq ran[r]

(* A shard serves what the IO thread sends it (singles and WATCH queries)   *)
(* in the order it was sent, although both can be parked in two separate    *)
(* queues while a transaction holds the shard (shard.rs:180-186, 247-251)   *)
(* and the queue of singles is drained first.                              *)
ShardFifo ==
    \A i, j \in DOMAIN submitted : \A s \in Shards :
        LET a == submitted[i]
            b == submitted[j]
            Direct(r) == (IsSingle(r) \/ Kind(r) = "watch") /\ s \in ShardsOf(r)
        IN  (i < j /\ Direct(a) /\ Direct(b) /\ RanOn(b, s)) => RanOn(a, s)

(* While a transaction holds a shard, the keys of that shard change only    *)
(* by that transaction's own executor or store (shard.rs:45-46): no single  *)
(* and no other transaction writes in between.                             *)
Isolation ==
    [][\A k \in Keys :
          (db'[k] # db[k] /\ activeTx[ShardOf[k]] # 0) =>
              /\ phase = "exec"
              /\ ShardOf[k] \in txAwait
              /\ activeTx[ShardOf[k]] = txCounter
              /\ k \in KeysOf(cur)]_vars

(* Every request a client sends is answered: no thread waits for ever for   *)
(* an ack, a result or a snapshot, whatever is parked behind a lock.  Sent  *)
(* requests and replies are only ever added, and there are finitely many,   *)
(* so each is answered when again and again all that were sent are.         *)
EveryRequestAnswered == []<>(Dispatched \subseteq replied)

(* An element a client was told is stored is still somewhere once the       *)
(* coordinator is between requests; stated for workloads that only add and  *)
(* rename onto unused keys.                                                *)
AckedWritesSurvive ==
    phase = "idle" =>
        \A r \in replied : Kind(r) = "write" => \A k \in KeysOf(r) : \E j \in Keys : r \in db[j]

----------------------------------------------------------------------------
(* Refinement: a request takes effect when it has run on the last of its    *)
(* keys; until then the shards it already ran on still show what it found.  *)
Complete(r) == KeysOf(r) \subseteq ran[r]

SerialDb ==
    [k \in Keys |-> IF cur # NoReq /\ ~Complete(cur) /\ k \in ran[cur]
                    THEN seen[cur][k] ELSE db[k]]

SerialServed == {r \in Reqs : Complete(r)}

SerialResult == [r \in Reqs |-> [k \in Keys |-> IF Complete(r) THEN seen[r][k] ELSE {}]]

Serial == INSTANCE SerialStore WITH store <- SerialDb, served <- SerialServed, result <- SerialResult

(* A command sent to several shards is atomic: with respect to every other  *)
(* command it takes effect on all its keys at one instant (shard.rs:45-46,  *)
(* coordinator.rs:377-430).  Holds without deferred stores and without a    *)
(* WATCH of several shards.                                                 *)
Serializable == Serial!Spec
=============================================================================
