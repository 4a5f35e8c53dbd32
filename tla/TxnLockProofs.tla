---------------------------- MODULE TxnLockProofs ---------------------------
(***************************************************************************)
(* Type correctness of the transaction layer, and its lock invariant, one  *)
(* shard at a time: steps that do not concern a shard, the steps of the    *)
(* IO thread and of the coordinator, and what the invariant says of a      *)
(* message by the time its shard takes it.                                 *)
(***************************************************************************)
EXTENDS TxnInv, TLAPS

----------------------------------------------------------------------------
(* What the provers need to know about channels and requests *)

(* The positions of a channel that has grown by one.                       *)
LEMMA GrownBy1 ==
    \A n \in Nat :
        /\ \A i \in 1 .. n + 1 : i \in 1 .. n \/ i = n + 1
        /\ \A i, j \in 1 .. n + 1 : i < j => i \in 1 .. n
        /\ \A i \in 1 .. n : i \in 1 .. n + 1
        /\ n + 1 \in 1 .. n + 1
  OBVIOUS

LEMMA StoreMsg ==
    \A n \in Nat, k \in Keys, v \in Value :
        LET m == [type |-> "StoreValue", tx |-> n, key |-> k, value |-> v]
        IN  m \in ShardMsg /\ m.type = "StoreValue" /\ m.tx = n /\ m.key = k
  BY DEF ShardMsg

(* Sending appends at the end of a channel.                                *)
LEMMA AppendFacts ==
    ASSUME NEW S, NEW q \in Seq(S), NEW m \in S
    PROVE  /\ Append(q, m) \in Seq(S)
           /\ Len(Append(q, m)) = Len(q) + 1
           /\ DOMAIN Append(q, m) = 1 .. Len(q) + 1
           /\ \A i \in 1 .. Len(q) : Append(q, m)[i] = q[i]
           /\ Append(q, m)[Len(q) + 1] = m
  OBVIOUS

(* Receiving takes the first message and moves the others up by one.       *)
LEMMA TailFacts ==
    ASSUME NEW S, NEW q \in Seq(S), q # <<>>
    PROVE  /\ Head(q) \in S
           /\ Head(q) = q[1]
           /\ 1 \in DOMAIN q
           /\ Tail(q) \in Seq(S)
           /\ DOMAIN Tail(q) = 1 .. Len(q) - 1
           /\ DOMAIN q = 1 .. Len(q)
           /\ \A i \in 1 .. Len(q) - 1 : Tail(q)[i] = q[i + 1] /\ i + 1 \in DOMAIN q
  OBVIOUS

LEMMA RequestTypes ==
    ASSUME NEW r \in Reqs
    PROVE  /\ KeysOf(r) \subseteq Keys
           /\ OpOf[r].src \in Keys
           /\ OpOf[r].dst \in Keys
           /\ ShardsOf(r) \subseteq Shards
           /\ \A s \in Shards : OwnedKeys(r, s) \subseteq Keys
  BY OpAssumption, ShardAssumption DEF Op, KeysOf, ShardsOf, OwnedKeys, OwnedBy, Shards

LEMMA MessageFields ==
    ASSUME NEW m \in ShardMsg
    PROVE  /\ m.type \in {"Single", "WatchQuery", "TxLock"} => m.req \in Reqs
           /\ m.type \in TxTypes => m.tx \in Nat
           /\ m.type = "StoreValue" => m.key \in Keys /\ m.value \in Value
  BY DEF ShardMsg, TxTypes

(* An executor turns a store into a store.                                 *)
LEMMA AfterType ==
    ASSUME NEW r \in Reqs, NEW st \in [Keys -> Value], NEW owned
    PROVE  After(r, st, owned) \in [Keys -> Value]
<1>1. OpOf[r].src \in Keys /\ OpOf[r].dst \in Keys
  BY RequestTypes
<1>2. AfterRename(r, st, owned) \in [Keys -> Value]
  BY <1>1 DEF AfterRename, Value
<1>. QED
  BY <1>2 DEF After, Value

----------------------------------------------------------------------------
(* Type correctness *)

LEMMA TypeInit == Init => TypeOK
  BY DEF Init, TypeOK, Phases, Value

LEMMA SendType ==
    ASSUME TypeOK, NEW s \in Shards, NEW m \in ShardMsg, Send(s, m)
    PROVE  mailbox' \in [Shards -> Seq(ShardMsg)]
  BY DEF TypeOK, Send

LEMMA ReceiveType ==
    ASSUME TypeOK, NEW s \in Shards, NEW type, Receive(s, type)
    PROVE  /\ mailbox' \in [Shards -> Seq(ShardMsg)]
           /\ Head(mailbox[s]) \in ShardMsg
  BY DEF TypeOK, Receive

LEMMA ReportType ==
    ASSUME TypeOK, NEW s \in Shards, NEW r \in Reqs, Report(r, s)
    PROVE  ran' \in [Reqs -> SUBSET Keys] /\ seen' \in [Reqs -> [Keys -> Value]]
<1>1. OwnedKeys(r, s) \subseteq Keys
  BY RequestTypes
<1>. QED
  BY <1>1 DEF TypeOK, Report

LEMMA RunExecType ==
    ASSUME TypeOK, NEW s \in Shards, NEW r \in Reqs, RunExec(r, s)
    PROVE  /\ db' \in [Keys -> Value]
           /\ ran' \in [Reqs -> SUBSET Keys]
           /\ seen' \in [Reqs -> [Keys -> Value]]
  BY Zenon, ReportType, AfterType DEF TypeOK, RunExec

LEMMA DeferredStoresType ==
    ASSUME TypeOK, NEW r \in Reqs
    PROVE  DeferredStores(r) \in Seq(Store)
<1>1. OpOf[r].src \in Keys /\ OpOf[r].dst \in Keys
  BY RequestTypes
<1>2. {} \in Value /\ seen[r][OpOf[r].src] \in Value
  BY <1>1 DEF TypeOK, Value
<1>3. [key |-> OpOf[r].src, value |-> {}] \in Store
  BY <1>1, <1>2 DEF Store
<1>4. [key |-> OpOf[r].dst, value |-> seen[r][OpOf[r].src]] \in Store
  BY <1>1, <1>2 DEF Store
<1>. QED
  BY <1>3, <1>4 DEF DeferredStores

(* The coordinator sends at most one message in a step, on its             *)
(* transaction's behalf.                                                   *)
LEMMA CoordSends ==
    ASSUME TypeOK, CoordInv, CoordStep
    PROVE  \/ UNCHANGED mailbox
           \/ \E u \in Shards : \E m \in ShardMsg : m.type \in TxTypes /\ Send(u, m)
<1>0. txCounter \in Nat /\ txCounter + 1 \in Nat /\ stores \in Seq(Store)
  BY DEF TypeOK
<1>1. CASE StartTx \/ AllLocked \/ AllExecuted \/ FinishTx \/ ReplyTx
  BY <1>1 DEF StartTx, AllLocked, AllExecuted, FinishTx, ReplyTx
<1>2. ASSUME NEW u \in Shards, SendTxLock(u)
      PROVE  \E m \in ShardMsg : m.type \in TxTypes /\ Send(u, m)
  <2>1. cur \in Reqs
    BY <1>2 DEF SendTxLock, CoordInv, TypeOK
  <2>2. [type |-> "TxLock", tx |-> txCounter, req |-> cur] \in ShardMsg
    BY <1>0, <2>1 DEF ShardMsg
  <2>. QED
    BY <1>2, <2>2 DEF SendTxLock, TxTypes
<1>3. ASSUME NEW u \in Shards, SendTxExec(u)
      PROVE  \E m \in ShardMsg : m.type \in TxTypes /\ Send(u, m)
  <2>1. [type |-> "TxExec", tx |-> txCounter] \in ShardMsg
    BY <1>0 DEF ShardMsg
  <2>. QED
    BY <1>3, <2>1 DEF SendTxExec, TxTypes
<1>4. [type |-> "TxUnlock", tx |-> txCounter] \in ShardMsg
  BY <1>0 DEF ShardMsg
<1>5. ASSUME NEW u \in Shards, SendTxUnlock(u)
      PROVE  \E m \in ShardMsg : m.type \in TxTypes /\ Send(u, m)
  BY <1>4, <1>5 DEF SendTxUnlock, TxTypes
<1>6. ASSUME SendStoreValue \/ UnlockStore
      PROVE  \E u \in Shards : \E m \in ShardMsg : m.type \in TxTypes /\ Send(u, m)
  <2> DEFINE st == Head(stores)
             m == [type |-> "StoreValue", tx |-> txCounter + 1, key |-> st.key, value |-> st.value]
  <2>1. stores # <<>>
    BY <1>6 DEF SendStoreValue, UnlockStore, CoordInv
  <2>2. st \in Store
    BY <1>0, <2>1, TailFacts
  <2>3. ShardOf[st.key] \in Shards /\ m \in ShardMsg /\ m.type \in TxTypes
    BY <1>0, <2>2, ShardAssumption DEF Store, ShardMsg, TxTypes
  <2>4. SendStoreValue => Send(ShardOf[st.key], m)
    BY DEF SendStoreValue
  <2>5. UnlockStore => Send(ShardOf[st.key], [type |-> "TxUnlock", tx |-> txCounter])
    BY DEF UnlockStore
  <2> HIDE DEF m, st
  <2>6. CASE SendStoreValue
    BY Zenon, <2>3, <2>4, <2>6
  <2>. QED
    BY Zenon, <1>4, <1>6, <2>3, <2>5, <2>6 DEF TxTypes
<1>. QED
  BY <1>1, <1>2, <1>3, <1>5, <1>6 DEF CoordStep

LEMMA TypeNext == TypeOK /\ CoordInv /\ [Next]_vars => TypeOK'
<1> SUFFICES ASSUME TypeOK, CoordInv, [Next]_vars PROVE TypeOK'
  OBVIOUS
<1>0. ASSUME CoordStep PROVE mailbox' \in [Shards -> Seq(ShardMsg)]
  BY Zenon, <1>0, CoordSends, SendType DEF TypeOK
<1>1. ASSUME NEW r \in Reqs, SendSingle(r) PROVE TypeOK'
  <2>1. PICK s \in ShardsOf(r) : Send(s, [type |-> "Single", req |-> r])
    BY Zenon, <1>1 DEF SendSingle
  <2>2. s \in Shards /\ [type |-> "Single", req |-> r] \in ShardMsg
    BY <2>1, RequestTypes DEF ShardMsg
  <2>3. mailbox' \in [Shards -> Seq(ShardMsg)]
    BY Zenon, <2>1, <2>2, SendType
  <2>. QED
    BY <1>1, <2>3 DEF TypeOK, SendSingle, coordVars, lockVars, pendVars, dataVars
<1>2. ASSUME NEW r \in Reqs, SendCoord(r) PROVE TypeOK'
  BY <1>2 DEF TypeOK, SendCoord, lockVars, pendVars, dataVars
<1>3. ASSUME NEW r \in Reqs, LocalWatch(r) PROVE TypeOK'
  BY <1>3, RequestTypes DEF TypeOK, LocalWatch, coordVars, lockVars, pendVars, dataVars
<1>4. ASSUME NEW s \in Shards, SendWatchQuery(s) PROVE TypeOK'
  <2>1. [type |-> "WatchQuery", req |-> watching] \in ShardMsg
    BY <1>4 DEF TypeOK, SendWatchQuery, ShardMsg
  <2>2. mailbox' \in [Shards -> Seq(ShardMsg)]
    BY Zenon, <1>4, <2>1, SendType DEF SendWatchQuery
  <2>. QED
    BY Zenon, <1>4, <2>2 DEF TypeOK, SendWatchQuery, coordVars, lockVars, pendVars, dataVars
<1>5. CASE WatchReply
  BY Zenon, <1>5 DEF TypeOK, WatchReply, coordVars, lockVars, pendVars, dataVars
<1>6. CASE StartTx
  <2>1. Head(coordQueue) \in Reqs /\ Tail(coordQueue) \in Seq(Reqs)
    BY <1>6, TailFacts DEF StartTx, TypeOK
  <2>2. ShardsOf(Head(coordQueue)) \subseteq Shards
    BY Zenon, <2>1, RequestTypes
  <2>. QED
    BY <1>6, <2>1, <2>2 DEF TypeOK, StartTx, Phases, ioVars, lockVars, pendVars, dataVars
<1>7. ASSUME NEW s \in Shards, SendTxLock(s) PROVE TypeOK'
  <2>1. mailbox' \in [Shards -> Seq(ShardMsg)]
    BY <1>0, <1>7 DEF CoordStep
  <2>. QED
    BY <1>7, <2>1 DEF TypeOK, SendTxLock, ioVars, lockVars, pendVars, dataVars
<1>8. CASE AllLocked
  <2>1. ShardsOf(cur) \subseteq Shards
    BY Zenon, <1>8, RequestTypes DEF AllLocked, TypeOK, CoordInv
  <2>. QED
    BY Zenon, <1>8, <2>1 DEF TypeOK, AllLocked, Phases, ioVars, lockVars, pendVars, dataVars
<1>9. ASSUME NEW s \in Shards, SendTxExec(s) PROVE TypeOK'
  <2>1. mailbox' \in [Shards -> Seq(ShardMsg)]
    BY <1>0, <1>9 DEF CoordStep
  <2>. QED
    BY Zenon, <1>9, <2>1 DEF TypeOK, SendTxExec, ioVars, lockVars, pendVars, dataVars
<1>10. CASE AllExecuted
  <2>1. ShardsOf(cur) \subseteq Shards
    BY Zenon, <1>10, RequestTypes DEF AllExecuted, TypeOK, CoordInv
  <2>. QED
    BY Zenon, <1>10, <2>1 DEF TypeOK, AllExecuted, Phases, ioVars, lockVars, pendVars, dataVars
<1>11. ASSUME NEW s \in Shards, SendTxUnlock(s) PROVE TypeOK'
  <2>1. mailbox' \in [Shards -> Seq(ShardMsg)]
    BY <1>0, <1>11 DEF CoordStep
  <2>. QED
    BY <1>11, <2>1 DEF TypeOK, SendTxUnlock, ioVars, lockVars, pendVars, dataVars
<1>12. CASE FinishTx
  <2>1. DeferredStores(cur) \in Seq(Store)
    BY Zenon, <1>12, DeferredStoresType DEF FinishTx, TypeOK, CoordInv
  <2>. QED
    BY Zenon, <1>12, <2>1 DEF TypeOK, FinishTx, Phases, ioVars, lockVars, pendVars, dataVars
<1>13. CASE SendStoreValue
  <2>1. Head(stores) \in Store
    BY <1>13, TailFacts DEF TypeOK, SendStoreValue
  <2>2. ShardOf[Head(stores).key] \in Shards
    BY <2>1, ShardAssumption DEF Store
  <2>3. mailbox' \in [Shards -> Seq(ShardMsg)]
    BY Zenon, <1>0, <1>13 DEF CoordStep
  <2>. QED
    BY <1>13, <2>2, <2>3
    DEF TypeOK, SendStoreValue, Phases, ioVars, lockVars, pendVars, dataVars
<1>14. CASE UnlockStore
  <2>1. Head(stores) \in Store /\ Tail(stores) \in Seq(Store)
    BY <1>14, TailFacts DEF TypeOK, CoordInv, UnlockStore
  <2>2. mailbox' \in [Shards -> Seq(ShardMsg)]
    BY Zenon, <1>0, <1>14 DEF CoordStep
  <2>. QED
    BY Zenon, <1>14, <2>1, <2>2 DEF TypeOK, UnlockStore, Phases, ioVars, lockVars, pendVars, dataVars
<1>15. CASE ReplyTx
  BY <1>15 DEF TypeOK, CoordInv, ReplyTx, Phases, ioVars, lockVars, pendVars, dataVars
<1>16. ASSUME NEW s \in Shards, HandleSingle(s) PROVE TypeOK'
  <2> DEFINE r == Head(mailbox[s]).req
  <2>1. Receive(s, "Single")
    BY <1>16 DEF HandleSingle
  <2>2. mailbox' \in [Shards -> Seq(ShardMsg)] /\ Head(mailbox[s]) \in ShardMsg
    BY <2>1, ReceiveType
  <2>3. r \in Reqs
    BY <2>1, <2>2, MessageFields DEF Receive
  <2>4. CASE activeTx[s] # 0
    <3>0. pendingSingles' = [pendingSingles EXCEPT ![s] = Append(@, r)]
      BY Zenon, <1>16, <2>4 DEF HandleSingle
    <3>1. pendingSingles' \in [Shards -> Seq(Reqs)]
      BY <2>3, <3>0 DEF TypeOK
    <3>2. UNCHANGED <<ioVars, watchAwait, coordVars, txAwait, lockVars, pendingWatches, dataVars,
                      replied>>
      BY Zenon, <1>16, <2>4 DEF HandleSingle
    <3>. QED
      BY Zenon, <2>2, <3>1, <3>2 DEF TypeOK, ioVars, coordVars, lockVars, dataVars
  <2>5. CASE activeTx[s] = 0
    <3>1. RunExec(r, s) /\ replied' = replied \cup {r} /\ UNCHANGED pendingSingles
      BY <1>16, <2>5 DEF HandleSingle
    <3>2. /\ db' \in [Keys -> Value]
          /\ ran' \in [Reqs -> SUBSET Keys]
          /\ seen' \in [Reqs -> [Keys -> Value]]
      BY <2>3, <3>1, RunExecType
    <3>. QED
      BY Zenon, <1>16, <2>2, <2>3, <3>1, <3>2 DEF TypeOK, HandleSingle, ioVars, coordVars, lockVars
  <2>. QED
    BY <2>4, <2>5
<1>17. ASSUME NEW s \in Shards, HandleWatchQuery(s) PROVE TypeOK'
  <2> DEFINE r == Head(mailbox[s]).req
  <2>1. Receive(s, "WatchQuery")
    BY <1>17 DEF HandleWatchQuery
  <2>2. mailbox' \in [Shards -> Seq(ShardMsg)] /\ Head(mailbox[s]) \in ShardMsg
    BY <2>1, ReceiveType
  <2>3. r \in Reqs
    BY Zenon, <2>1, <2>2, MessageFields DEF Receive
  <2>4. CASE activeTx[s] # 0
    <3>0. pendingWatches' = [pendingWatches EXCEPT ![s] = Append(@, r)]
      BY Zenon, <1>17, <2>4 DEF HandleWatchQuery
    <3>1. pendingWatches' \in [Shards -> Seq(Reqs)]
      BY <2>3, <3>0 DEF TypeOK
    <3>2. UNCHANGED <<ioVars, watchAwait, coordVars, txAwait, lockVars, pendingSingles, dataVars,
                      replied>>
      BY Zenon, <1>17, <2>4 DEF HandleWatchQuery
    <3>. QED
      BY Zenon, <2>2, <3>1, <3>2 DEF TypeOK, ioVars, coordVars, lockVars, dataVars
  <2>5. CASE activeTx[s] = 0
    <3>1. RunWatchQuery(r, s) /\ UNCHANGED pendingWatches
      BY Zenon, <1>17, <2>5 DEF HandleWatchQuery
    <3>2. ran' \in [Reqs -> SUBSET Keys] /\ seen' \in [Reqs -> [Keys -> Value]]
      BY Zenon, <2>3, <3>1, ReportType DEF RunWatchQuery
    <3>. QED
      BY Zenon, <1>17, <2>2, <3>1, <3>2
      DEF TypeOK, HandleWatchQuery, RunWatchQuery, ioVars, coordVars, lockVars
  <2>. QED
    BY <2>4, <2>5
<1>18. ASSUME NEW s \in Shards, HandleTxLock(s) PROVE TypeOK'
  <2>1. Receive(s, "TxLock")
    BY <1>18 DEF HandleTxLock
  <2>2. mailbox' \in [Shards -> Seq(ShardMsg)] /\ Head(mailbox[s]) \in ShardMsg
    BY <2>1, ReceiveType
  <2>3. Head(mailbox[s]).tx \in Nat /\ Head(mailbox[s]).req \in Reqs
    BY <2>1, <2>2, MessageFields DEF Receive, TxTypes
  <2>4. activeTx' \in [Shards -> Nat]
    BY Zenon, <1>18, <2>3 DEF TypeOK, HandleTxLock
  <2>5. txCtx' \in [Shards -> SUBSET TxCtx]
    <3>1. [tx |-> Head(mailbox[s]).tx, req |-> Head(mailbox[s]).req] \in TxCtx
      BY <2>3 DEF TxCtx
    <3>. QED
      BY Zenon, <1>18, <3>1 DEF TypeOK, HandleTxLock
  <2>. QED
    BY Zenon, <1>18, <2>2, <2>4, <2>5 DEF TypeOK, HandleTxLock, ioVars, coordVars, pendVars, dataVars
<1>19. ASSUME NEW s \in Shards, HandleTxExec(s) PROVE TypeOK'
  <2>1. Receive(s, "TxExec")
    BY <1>19 DEF HandleTxExec
  <2>2. mailbox' \in [Shards -> Seq(ShardMsg)]
    BY Zenon, <2>1, ReceiveType
  <2> DEFINE DataTyped == /\ db \in [Keys -> Value]
                          /\ ran \in [Reqs -> SUBSET Keys]
                          /\ seen \in [Reqs -> [Keys -> Value]]
  <2>3. DataTyped'
    <3>1. CASE UNCHANGED dataVars
      BY Zenon, <3>1 DEF dataVars, TypeOK
    <3>2. ASSUME NEW c \in txCtx[s], RunExec(c.req, s) PROVE DataTyped'
      <4>1. c.req \in Reqs
        BY DEF TypeOK, TxCtx
      <4>. QED
        BY Zenon, <3>2, <4>1, RunExecType
    <3>. QED
      BY Zenon, <1>19, <3>1, <3>2 DEF HandleTxExec
  <2>. QED
    BY Zenon, <1>19, <2>2, <2>3 DEF TypeOK, HandleTxExec, ioVars, coordVars, pendVars
<1>20. ASSUME NEW s \in Shards, HandleTxUnlock(s) PROVE TypeOK'
  <2>1. mailbox' \in [Shards -> Seq(ShardMsg)]
    BY <1>20, ReceiveType DEF HandleTxUnlock
  <2>2. activeTx' \in [Shards -> Nat] /\ draining' \subseteq Shards
    <3>1. \/ /\ activeTx' = [activeTx EXCEPT ![s] = 0]
             /\ draining' = draining \cup {s}
          \/ UNCHANGED <<activeTx, draining>>
      BY Zenon, <1>20 DEF HandleTxUnlock
    <3>2. CASE activeTx' = [activeTx EXCEPT ![s] = 0] /\ draining' = draining \cup {s}
      BY <3>2 DEF TypeOK
    <3>3. CASE UNCHANGED <<activeTx, draining>>
      BY Zenon, <3>3 DEF TypeOK
    <3>. QED
      BY Zenon, <3>1, <3>2, <3>3
  <2>3. txCtx' \in [Shards -> SUBSET TxCtx]
    BY Zenon, <1>20 DEF TypeOK, HandleTxUnlock
  <2>4. UNCHANGED <<ioVars, watchAwait, coordVars, txAwait, pendVars, dataVars, replied>>
    BY <1>20 DEF HandleTxUnlock
  <2>. QED
    BY Zenon, <2>1, <2>2, <2>3, <2>4 DEF TypeOK, ioVars, coordVars, pendVars, dataVars
<1>21. ASSUME NEW s \in Shards, HandleStoreValue(s) PROVE TypeOK'
  <2>1. Receive(s, "StoreValue")
    BY <1>21 DEF HandleStoreValue
  <2>2. mailbox' \in [Shards -> Seq(ShardMsg)] /\ Head(mailbox[s]) \in ShardMsg
    BY <2>1, ReceiveType
  <2>3. /\ Head(mailbox[s]).tx \in Nat
        /\ Head(mailbox[s]).key \in Keys
        /\ Head(mailbox[s]).value \in Value
    BY Zenon, <2>1, <2>2, MessageFields DEF Receive, TxTypes
  <2>. QED
    BY Zenon, <1>21, <2>2, <2>3 DEF TypeOK, HandleStoreValue, ioVars, coordVars, pendVars
<1>22. ASSUME NEW s \in Shards, DrainSingle(s) PROVE TypeOK'
  <2> DEFINE r == Head(pendingSingles[s])
  <2>1. r \in Reqs /\ Tail(pendingSingles[s]) \in Seq(Reqs)
    BY <1>22, TailFacts DEF TypeOK, DrainSingle
  <2>2. /\ db' \in [Keys -> Value]
        /\ ran' \in [Reqs -> SUBSET Keys]
        /\ seen' \in [Reqs -> [Keys -> Value]]
    BY Zenon, <1>22, <2>1, RunExecType DEF DrainSingle
  <2>. QED
    BY Zenon, <1>22, <2>1, <2>2 DEF TypeOK, DrainSingle, ioVars, coordVars, lockVars
<1>23. ASSUME NEW s \in Shards, DrainWatch(s) PROVE TypeOK'
  <2>1. Head(pendingWatches[s]) \in Reqs /\ Tail(pendingWatches[s]) \in Seq(Reqs)
    BY Zenon, <1>23, TailFacts DEF TypeOK, DrainWatch
  <2>2. ran' \in [Reqs -> SUBSET Keys] /\ seen' \in [Reqs -> [Keys -> Value]]
    BY Zenon, <1>23, <2>1, ReportType DEF DrainWatch, RunWatchQuery
  <2>. QED
    BY Zenon, <1>23, <2>1, <2>2 DEF TypeOK, DrainWatch, RunWatchQuery, ioVars, coordVars, lockVars
<1>24. ASSUME NEW s \in Shards, DrainDone(s) PROVE TypeOK'
  BY Zenon, <1>24 DEF TypeOK, DrainDone, ioVars, coordVars, pendVars, dataVars
<1>25. CASE UNCHANGED vars
  BY <1>25 DEF TypeOK, vars, ioVars, coordVars, lockVars, pendVars, dataVars
<1>. QED
  BY Zenon, <1>1, <1>2, <1>3, <1>4, <1>5, <1>6, <1>7, <1>8, <1>9, <1>10, <1>11, <1>12, <1>13, <1>14,
     <1>15, <1>16, <1>17, <1>18, <1>19, <1>20, <1>21, <1>22, <1>23, <1>24, <1>25
  DEF Next, IoStep, CoordStep, ShardStep, AllServed

----------------------------------------------------------------------------
(* Steps that leave a shard alone *)

(* What the coordinator's variables say about shard t is unchanged.        *)
SameCoord(t) ==
    /\ UNCHANGED <<phase, cur, txCounter, stores>>
    /\ t \in left' <=> t \in left
    /\ t \in txAwait' <=> t \in txAwait

SameLock(t) ==
    /\ activeTx'[t] = activeTx[t]
    /\ txCtx'[t] = txCtx[t]
    /\ t \in draining' <=> t \in draining

SameParked(t) ==
    /\ pendingSingles'[t] = pendingSingles[t]
    /\ pendingWatches'[t] = pendingWatches[t]

----------------------------------------------------------------------------
(* The lock invariant *)

LEMMA LockInit == Init => LockInv
<1> SUFFICES ASSUME Init PROVE LockInv
  OBVIOUS
<1>1. CoordInv
  BY Zenon DEF Init, CoordInv
<1>2. ASSUME NEW s \in Shards PROVE ShardInv(s)
  BY DEF Init, ShardInv, MailInv, OrderInv, HolderInv, CtxInv, ParkedInv, Held, UnlockQueued
<1>. QED
  BY <1>1, <1>2 DEF LockInv

(* A step that does not concern shard t.                                   *)
LEMMA Frame ==
    ASSUME NEW t \in Shards, ShardInv(t), SameCoord(t), SameLock(t), SameParked(t),
           mailbox'[t] = mailbox[t]
    PROVE  ShardInv(t)'
<1>1. Held(t)' <=> Held(t)
  BY Zenon DEF SameCoord, Held
<1>2. UnlockQueued(t)' <=> UnlockQueued(t)
  BY Zenon DEF UnlockQueued
<1>3. MailInv(t)'
  BY Zenon DEF ShardInv, MailInv, SameCoord, SameLock
<1>4. OrderInv(t)'
  BY Zenon DEF ShardInv, OrderInv
<1>5. HolderInv(t)'
  BY Zenon, <1>1, <1>2 DEF ShardInv, HolderInv, SameCoord, SameLock
<1>6. CtxInv(t)'
  BY <1>1 DEF ShardInv, CtxInv, SameCoord, SameLock
<1>7. ParkedInv(t)'
  BY Zenon DEF ShardInv, ParkedInv, SameLock, SameParked
<1>. QED
  BY Zenon, <1>3, <1>4, <1>5, <1>6, <1>7 DEF ShardInv

(* A request is sent to shard t.                                           *)
LEMMA FrameAppend ==
    ASSUME NEW t \in Shards, ShardInv(t), SameCoord(t), SameLock(t), SameParked(t), TypeOK,
           NEW m \in ShardMsg, m.type \notin TxTypes, mailbox'[t] = Append(mailbox[t], m)
    PROVE  ShardInv(t)'
<1> DEFINE q == mailbox[t]
<1>0. /\ q \in Seq(ShardMsg)
      /\ DOMAIN q = 1 .. Len(q)
      /\ DOMAIN mailbox'[t] = 1 .. Len(q) + 1
      /\ \A i \in 1 .. Len(q) : mailbox'[t][i] = q[i]
      /\ mailbox'[t][Len(q) + 1] = m
      /\ Len(q) \in Nat
  BY AppendFacts DEF TypeOK
<1>1. Held(t)' <=> Held(t)
  BY Zenon DEF SameCoord, Held
<1>2. UnlockQueued(t)' <=> UnlockQueued(t)
  BY <1>0 DEF UnlockQueued, TxTypes
<1>3. MailInv(t)'
  BY <1>0 DEF ShardInv, MailInv, SameCoord, SameLock, TxTypes
<1>4. OrderInv(t)'
  BY <1>0 DEF ShardInv, OrderInv
<1>5. HolderInv(t)'
  BY Zenon, <1>1, <1>2 DEF ShardInv, HolderInv, SameCoord, SameLock
<1>6. CtxInv(t)'
  BY <1>1 DEF ShardInv, CtxInv, SameCoord, SameLock
<1>7. ParkedInv(t)'
  BY Zenon DEF ShardInv, ParkedInv, SameLock, SameParked
<1>. QED
  BY Zenon, <1>3, <1>4, <1>5, <1>6, <1>7 DEF ShardInv

(* Receiving keeps the order of the messages that stay.                    *)
LEMMA OrderTail ==
    ASSUME NEW t \in Shards, TypeOK, OrderInv(t), mailbox[t] # <<>>,
           mailbox'[t] = Tail(mailbox[t])
    PROVE  OrderInv(t)'
<1> DEFINE q == mailbox[t]
           p == mailbox'[t]
<1>0. /\ q \in Seq(ShardMsg)
      /\ DOMAIN p = 1 .. Len(q) - 1
      /\ \A i \in 1 .. Len(q) - 1 : p[i] = q[i + 1] /\ i + 1 \in DOMAIN q
      /\ Len(q) \in Nat
  BY TailFacts DEF TypeOK
<1> SUFFICES ASSUME NEW i \in DOMAIN p, NEW j \in DOMAIN p, i < j,
                    p[i].type \in TxTypes, p[j].type \in TxTypes
             PROVE  p[i].type = "TxUnlock" /\ p[j].type \in {"TxLock", "StoreValue"}
  BY Zenon DEF OrderInv
<1>1. /\ p[i] = q[i + 1] /\ i + 1 \in DOMAIN q
      /\ p[j] = q[j + 1] /\ j + 1 \in DOMAIN q
      /\ i + 1 < j + 1
  BY <1>0
<1>. QED
  BY Zenon, <1>1 DEF OrderInv

(* Shard t takes a request from its channel: it runs it, or parks it while *)
(* a transaction holds t.                                                  *)
LEMMA FrameTail ==
    ASSUME NEW t \in Shards, ShardInv(t), SameCoord(t), SameLock(t), TypeOK,
           SameParked(t) \/ activeTx[t] # 0, mailbox[t] # <<>>,
           Head(mailbox[t]).type \notin TxTypes, mailbox'[t] = Tail(mailbox[t])
    PROVE  ShardInv(t)'
<1> DEFINE q == mailbox[t]
<1>0. /\ q \in Seq(ShardMsg)
      /\ DOMAIN q = 1 .. Len(q)
      /\ Head(q) = q[1]
      /\ DOMAIN mailbox'[t] = 1 .. Len(q) - 1
      /\ \A i \in 1 .. Len(q) - 1 : mailbox'[t][i] = q[i + 1] /\ i + 1 \in DOMAIN q
      /\ Len(q) \in Nat
  BY TailFacts DEF TypeOK
<1>1. Held(t)' <=> Held(t)
  BY Zenon DEF SameCoord, Held
<1>2. UnlockQueued(t)' <=> UnlockQueued(t)
  <2>1. ASSUME NEW i \in DOMAIN q, q[i].type = "TxUnlock" PROVE UnlockQueued(t)'
    <3>1. i # 1
      BY Zenon, <1>0, <2>1 DEF TxTypes
    <3>2. i - 1 \in DOMAIN mailbox'[t] /\ mailbox'[t][i - 1] = q[i]
      BY <1>0, <3>1
    <3>. QED
      BY Zenon, <2>1, <3>2 DEF UnlockQueued
  <2>. QED
    BY Zenon, <1>0, <2>1 DEF UnlockQueued
<1>3. MailInv(t)'
  BY <1>0 DEF ShardInv, MailInv, SameCoord, SameLock
<1>4. OrderInv(t)'
  BY Zenon, OrderTail DEF ShardInv
<1>5. HolderInv(t)'
  BY Zenon, <1>1, <1>2 DEF ShardInv, HolderInv, SameCoord, SameLock
<1>6. CtxInv(t)'
  BY <1>1 DEF ShardInv, CtxInv, SameCoord, SameLock
<1>7. ParkedInv(t)'
  BY Zenon DEF ShardInv, ParkedInv, SameLock, SameParked
<1>. QED
  BY Zenon, <1>3, <1>4, <1>5, <1>6, <1>7 DEF ShardInv

(* The coordinator moves on while no message but an unlock is in shard t's *)
(* channel, and t is held as before.                                       *)
LEMMA PhaseStep ==
    ASSUME NEW t \in Shards, ShardInv(t), SameLock(t), SameParked(t), mailbox'[t] = mailbox[t],
           \A i \in DOMAIN mailbox[t] :
               mailbox[t][i].type \in TxTypes => mailbox[t][i].type = "TxUnlock",
           Held(t)' <=> Held(t),
           Held(t) => UNCHANGED <<txCounter, cur>>,
           ((phase = "lock" /\ Held(t)) \/ (phase = "exec" /\ t \in left \cup txAwait) =>
                [tx |-> txCounter, req |-> cur] \in txCtx[t])'
    PROVE  ShardInv(t)'
<1>2. UnlockQueued(t)' <=> UnlockQueued(t)
  BY Zenon DEF UnlockQueued
<1>3. MailInv(t)'
  BY DEF ShardInv, MailInv, SameLock, TxTypes
<1>4. OrderInv(t)'
  BY Zenon DEF ShardInv, OrderInv
<1>5. HolderInv(t)'
  BY Zenon, <1>2 DEF ShardInv, HolderInv, SameLock
<1>6. CtxInv(t)'
  BY Zenon DEF ShardInv, CtxInv, SameLock
<1>7. ParkedInv(t)'
  BY Zenon DEF ShardInv, ParkedInv, SameLock, SameParked
<1>. QED
  BY <1>3, <1>4, <1>5, <1>6, <1>7 DEF ShardInv

(* Nothing but unlocks is on its way to shard t when the coordinator does  *)
(* not wait for t.                                                         *)
LEMMA OnlyUnlocks ==
    ASSUME NEW t \in Shards, ShardInv(t), t \notin txAwait
    PROVE  \A i \in DOMAIN mailbox[t] :
               mailbox[t][i].type \in TxTypes => mailbox[t][i].type = "TxUnlock"
  BY DEF ShardInv, MailInv, TxTypes

(* Steps of the IO thread.                                                 *)
LEMMA IoLock ==
    ASSUME TypeOK, LockInv, IoStep
    PROVE  LockInv'
<1> USE DEF ioVars, coordVars, lockVars, pendVars
<1>1. UNCHANGED <<phase, cur, txCounter, left, stores, txAwait, lockVars, pendVars>>
  BY Zenon DEF IoStep, SendSingle, SendCoord, LocalWatch, SendWatchQuery, WatchReply
<1>2. CoordInv'
  BY Zenon, <1>1 DEF LockInv, CoordInv
<1>3. \A t \in Shards : SameCoord(t) /\ SameLock(t) /\ SameParked(t) /\ ShardInv(t)
  BY <1>1 DEF LockInv, SameCoord, SameLock, SameParked
<1>4. ASSUME NEW s \in Shards, NEW m \in ShardMsg, m.type \notin TxTypes, Send(s, m),
             NEW t \in Shards
      PROVE  ShardInv(t)'
  <2>1. CASE t = s
    <3>1. mailbox'[t] = Append(mailbox[t], m)
      BY Zenon, <1>4, <2>1 DEF Send, TypeOK
    <3>. QED
      BY <1>3, <1>4, <3>1, FrameAppend
  <2>2. CASE t # s
    <3>1. mailbox'[t] = mailbox[t]
      BY Zenon, <1>4, <2>2 DEF Send, TypeOK
    <3>. QED
      BY Zenon, <1>3, <3>1, Frame
  <2>. QED
    BY Zenon, <2>1, <2>2
<1>5. ASSUME UNCHANGED mailbox, NEW t \in Shards PROVE ShardInv(t)'
  BY <1>3, <1>5, Frame
<1> DEFINE Sent == \/ UNCHANGED mailbox
                   \/ \E s \in Shards : \E m \in ShardMsg : m.type \notin TxTypes /\ Send(s, m)
<1>6. Sent
  <2>1. ASSUME NEW r \in Reqs, SendSingle(r) PROVE Sent
    <3>1. PICK s \in ShardsOf(r) : Send(s, [type |-> "Single", req |-> r])
      BY <2>1 DEF SendSingle
    <3>. QED
      BY Zenon, <3>1, RequestTypes DEF ShardMsg, TxTypes
  <2>2. ASSUME NEW s \in Shards, SendWatchQuery(s) PROVE Sent
    BY Zenon, <2>2 DEF SendWatchQuery, ShardMsg, TxTypes, TypeOK
  <2>. QED
    BY Zenon, <2>1, <2>2 DEF IoStep, SendCoord, LocalWatch, WatchReply
<1>. QED
  BY <1>2, <1>4, <1>5, <1>6 DEF LockInv

(* Steps in which the coordinator sends nothing.                           *)
LEMMA CoordQuietLock ==
    ASSUME TypeOK, LockInv, StartTx \/ AllLocked \/ AllExecuted \/ FinishTx \/ ReplyTx
    PROVE  LockInv'
<1> USE DEF ioVars, lockVars, pendVars
<1>1. UNCHANGED <<mailbox, lockVars, pendVars, txAwait>> /\ txAwait = {}
  BY Zenon DEF StartTx, AllLocked, AllExecuted, FinishTx, ReplyTx, LockInv, CoordInv
<1>2. \A t \in Shards : /\ SameLock(t) /\ SameParked(t) /\ ShardInv(t) /\ mailbox'[t] = mailbox[t]
                        /\ \A i \in DOMAIN mailbox[t] :
                              mailbox[t][i].type \in TxTypes => mailbox[t][i].type = "TxUnlock"
  BY <1>1, OnlyUnlocks DEF LockInv, SameLock, SameParked
<1>3. CASE StartTx
  <2>1. /\ phase = "idle" /\ phase' = "lock" /\ left' = ShardsOf(cur') /\ txAwait' = {}
        /\ cur' \in Reqs /\ txCounter' = txCounter + 1 /\ txCounter \in Nat
    BY Zenon, <1>1, <1>3, TailFacts DEF StartTx, TypeOK
  <2>2. CoordInv'
    BY <2>1, NoReqAssumption DEF CoordInv
  <2>3. ASSUME NEW t \in Shards PROVE ShardInv(t)'
    <3>1. ~Held(t) /\ ~Held(t)'
      BY Zenon, <2>1 DEF Held
    <3>. QED
      BY Zenon, <1>2, <2>1, <3>1, PhaseStep
  <2>. QED
    BY <2>2, <2>3 DEF LockInv
<1>4. CASE AllLocked
  <2>1. /\ phase = "lock" /\ phase' = "exec" /\ left = {} /\ left' = ShardsOf(cur)
        /\ txAwait' = {} /\ UNCHANGED <<cur, txCounter, stores>>
    BY <1>1, <1>4 DEF AllLocked
  <2>2. CoordInv'
    BY Zenon, <2>1 DEF LockInv, CoordInv
  <2>3. ASSUME NEW t \in Shards PROVE ShardInv(t)'
    <3>1. (Held(t) <=> t \in ShardsOf(cur)) /\ (Held(t)' <=> t \in ShardsOf(cur))
      BY Zenon, <1>1, <2>1 DEF Held
    <3>2. t \in left' \cup txAwait' => [tx |-> txCounter, req |-> cur] \in txCtx[t]
      BY Zenon, <1>2, <2>1, <3>1 DEF ShardInv, CtxInv
    <3>3. txCtx'[t] = txCtx[t]
      BY Zenon, <1>1
    <3>. QED
      BY Zenon, <1>2, <2>1, <3>1, <3>2, <3>3, PhaseStep
  <2>. QED
    BY <2>2, <2>3 DEF LockInv
<1>5. CASE AllExecuted
  <2>1. /\ phase = "exec" /\ phase' = "unlock" /\ left = {} /\ left' = ShardsOf(cur)
        /\ txAwait' = {} /\ UNCHANGED <<cur, txCounter, stores>>
    BY Zenon, <1>1, <1>5 DEF AllExecuted
  <2>2. CoordInv'
    BY Zenon, <2>1 DEF LockInv, CoordInv
  <2>3. ASSUME NEW t \in Shards PROVE ShardInv(t)'
    <3>1. Held(t) <=> Held(t)'
      BY Zenon, <2>1 DEF Held
    <3>. QED
      BY Zenon, <1>2, <2>1, <3>1, PhaseStep
  <2>. QED
    BY <2>2, <2>3 DEF LockInv
<1>6. CASE FinishTx
  <2>1. /\ phase = "unlock" /\ phase' = "store" /\ left = {} /\ left' = {}
        /\ txAwait' = {} /\ UNCHANGED <<cur, txCounter>>
    BY <1>1, <1>6 DEF FinishTx
  <2>2. CoordInv'
    BY Zenon, <2>1 DEF LockInv, CoordInv
  <2>3. ASSUME NEW t \in Shards PROVE ShardInv(t)'
    <3>1. ~Held(t) /\ ~Held(t)'
      BY <2>1 DEF Held
    <3>. QED
      BY Zenon, <1>2, <2>1, <3>1, PhaseStep
  <2>. QED
    BY <2>2, <2>3 DEF LockInv
<1>7. CASE ReplyTx
  <2>1. /\ phase = "store" /\ phase' = "idle" /\ left' = {}
        /\ txAwait' = {} /\ UNCHANGED txCounter /\ cur' = NoReq
    BY Zenon, <1>1, <1>7 DEF ReplyTx, LockInv, CoordInv
  <2>2. CoordInv'
    BY Zenon, <2>1 DEF LockInv, CoordInv
  <2>3. ASSUME NEW t \in Shards PROVE ShardInv(t)'
    <3>1. ~Held(t) /\ ~Held(t)'
      BY <2>1 DEF Held
    <3>. QED
      BY Zenon, <1>2, <2>1, <3>1, PhaseStep
  <2>. QED
    BY <2>2, <2>3 DEF LockInv
<1>. QED
  BY Zenon, <1>3, <1>4, <1>5, <1>6, <1>7

(* The coordinator sends a lock, a store or an exec to shard s, to which   *)
(* nothing but an unlock is on its way: it now waits for s.                *)
LEMMA SendAsk ==
    ASSUME NEW s \in Shards, TypeOK, ShardInv(s), SameLock(s), SameParked(s), s \notin txAwait,
           NEW m \in ShardMsg, m.type \in {"TxLock", "StoreValue", "TxExec"},
           mailbox'[s] = Append(mailbox[s], m),
           s \in txAwait', m.tx = txCounter',
           m.type = "TxLock" => phase' = "lock" /\ m.req = cur',
           m.type = "StoreValue" => phase' = "stored" /\ ShardOf[m.key] = s,
           m.type = "TxExec" => phase' = "exec" /\ Held(s),
           Held(s)' <=> Held(s),
           Held(s) => UNCHANGED <<txCounter, cur>>,
           ((phase = "lock" /\ Held(s)) \/ (phase = "exec" /\ s \in left \cup txAwait) =>
                [tx |-> txCounter, req |-> cur] \in txCtx[s])'
    PROVE  ShardInv(s)'
<1> DEFINE q == mailbox[s]
           p == mailbox'[s]
<1>0. /\ q \in Seq(ShardMsg)
      /\ DOMAIN q = 1 .. Len(q)
      /\ DOMAIN p = 1 .. Len(q) + 1
      /\ \A i \in 1 .. Len(q) : p[i] = q[i]
      /\ p[Len(q) + 1] = m
      /\ Len(q) \in Nat
  <2>1. q \in Seq(ShardMsg)
    BY Zenon DEF TypeOK
  <2>2. DOMAIN q = 1 .. Len(q) /\ Len(q) \in Nat
    BY <2>1
  <2>3. /\ DOMAIN Append(q, m) = 1 .. Len(q) + 1 /\ Append(q, m)[Len(q) + 1] = m
        /\ \A i \in 1 .. Len(q) : Append(q, m)[i] = q[i]
    BY <2>1, AppendFacts
  <2>4. p = Append(q, m)
    BY Zenon
  <2> HIDE DEF p, q
  <2>. QED
    BY Zenon, <2>1, <2>2, <2>3, <2>4
<1>1. \A i \in DOMAIN q : q[i].type \in TxTypes => q[i].type = "TxUnlock"
  BY Zenon, OnlyUnlocks
<1>2. UnlockQueued(s)' <=> UnlockQueued(s)
  <2>1. \A i \in DOMAIN q : i \in DOMAIN p /\ p[i] = q[i]
    BY Zenon, <1>0, GrownBy1
  <2>2. \A i \in DOMAIN p : p[i].type = "TxUnlock" => i \in DOMAIN q /\ p[i] = q[i]
    BY Zenon, <1>0, GrownBy1
  <2>3. UnlockQueued(s)' => UnlockQueued(s)
    BY Zenon, <2>2 DEF UnlockQueued
  <2>4. UnlockQueued(s) => UnlockQueued(s)'
    BY Zenon, <2>1 DEF UnlockQueued
  <2>. QED
    BY Zenon, <2>3, <2>4
<1>3. MailInv(s)'
  <2> SUFFICES ASSUME NEW i \in DOMAIN p
               PROVE  /\ p[i].type = "TxUnlock" => activeTx'[s] = p[i].tx
                      /\ p[i].type = "TxLock" =>
                            phase' = "lock" /\ s \in txAwait' /\ p[i].tx = txCounter' /\ p[i].req = cur'
                      /\ p[i].type = "StoreValue" =>
                            /\ phase' = "stored" /\ s \in txAwait' /\ p[i].tx = txCounter'
                            /\ ShardOf[p[i].key] = s
                      /\ p[i].type = "TxExec" =>
                            phase' = "exec" /\ s \in txAwait' /\ p[i].tx = txCounter'
    BY Zenon DEF MailInv
  <2>1. CASE i \in DOMAIN q
    BY Zenon, <1>0, <1>1, <2>1 DEF ShardInv, MailInv, SameLock, TxTypes
  <2>2. CASE i = Len(q) + 1
    BY Zenon, <1>0, <2>2
  <2>. QED
    BY Zenon, <1>0, <2>1, <2>2, GrownBy1
<1>4. OrderInv(s)'
  <2> SUFFICES ASSUME NEW i \in DOMAIN p, NEW j \in DOMAIN p, i < j,
                      p[i].type \in TxTypes, p[j].type \in TxTypes
               PROVE  p[i].type = "TxUnlock" /\ p[j].type \in {"TxLock", "StoreValue"}
    BY Zenon DEF OrderInv
  <2>1. i \in DOMAIN q /\ p[i] = q[i] /\ p[i].type = "TxUnlock"
    BY <1>0, <1>1
  <2>2. CASE j \in DOMAIN q
    BY Zenon, <1>0, <2>1, <2>2 DEF ShardInv, OrderInv
  <2>3. CASE j = Len(q) + 1
    <3>1. UnlockQueued(s)
      BY Zenon, <2>1 DEF UnlockQueued
    <3>2. m.type # "TxExec"
      BY Zenon, <3>1 DEF ShardInv, HolderInv
    <3>. QED
      BY Zenon, <1>0, <2>1, <2>3, <3>2
  <2>. QED
    BY Zenon, <1>0, <2>2, <2>3, GrownBy1
<1>5. HolderInv(s)'
  BY Zenon, <1>2 DEF ShardInv, HolderInv, SameLock
<1>6. CtxInv(s)'
  BY Zenon DEF ShardInv, CtxInv, SameLock
<1>7. ParkedInv(s)'
  BY Zenon DEF ShardInv, ParkedInv, SameLock, SameParked
<1>. QED
  BY Zenon, <1>3, <1>4, <1>5, <1>6, <1>7 DEF ShardInv

----------------------------------------------------------------------------
(* The coordinator's sends *)

(* The coordinator sends the unlock of the transaction that holds s.       *)
LEMMA SendRelease ==
    ASSUME NEW s \in Shards, TypeOK, ShardInv(s), SameLock(s), SameParked(s),
           Held(s), ~Held(s)', s \notin txAwait, phase' \notin {"lock", "exec"},
           mailbox'[s] = Append(mailbox[s], [type |-> "TxUnlock", tx |-> txCounter])
    PROVE  ShardInv(s)'
<1> DEFINE q == mailbox[s]
           p == mailbox'[s]
           m == [type |-> "TxUnlock", tx |-> txCounter]
<1>a. m \in ShardMsg /\ m.type = "TxUnlock" /\ m.tx = txCounter
  BY Zenon DEF ShardMsg, TypeOK
<1>0. /\ q \in Seq(ShardMsg)
      /\ DOMAIN q = 1 .. Len(q)
      /\ DOMAIN p = 1 .. Len(q) + 1
      /\ \A i \in 1 .. Len(q) : p[i] = q[i]
      /\ p[Len(q) + 1] = m
      /\ Len(q) \in Nat
  <2> HIDE DEF m
  <2>. QED
    BY <1>a, AppendFacts DEF TypeOK, m
<1> HIDE DEF m
<1>1. \A i \in DOMAIN q : q[i].type \notin TxTypes
  BY Zenon, OnlyUnlocks DEF ShardInv, HolderInv, UnlockQueued
<1>2. UnlockQueued(s)'
  BY <1>0, <1>a DEF UnlockQueued
<1>b. activeTx[s] = txCounter /\ txCounter # 0
  BY Zenon DEF ShardInv, HolderInv
<1>3. MailInv(s)'
  BY Zenon, <1>0, <1>1, <1>a, <1>b, GrownBy1 DEF MailInv, SameLock, TxTypes
<1>4. OrderInv(s)'
  BY Zenon, <1>0, <1>1, GrownBy1 DEF OrderInv
<1>5. HolderInv(s)'
  BY Zenon, <1>2, <1>b DEF ShardInv, HolderInv, SameLock
<1>6. CtxInv(s)'
  BY Zenon DEF ShardInv, CtxInv, SameLock
<1>7. ParkedInv(s)'
  BY Zenon DEF ShardInv, ParkedInv, SameLock, SameParked
<1>. QED
  BY Zenon, <1>3, <1>4, <1>5, <1>6, <1>7 DEF ShardInv

(* Steps in which the coordinator sends a message.                         *)
LEMMA CoordSendLock ==
    ASSUME TypeOK, LockInv,
           \/ \E s \in Shards : SendTxLock(s) \/ SendTxExec(s) \/ SendTxUnlock(s)
           \/ SendStoreValue
           \/ UnlockStore
    PROVE  LockInv'
<1> USE DEF ioVars, lockVars, pendVars
<1>1. UNCHANGED <<lockVars, pendVars>>
  BY Zenon DEF SendTxLock, SendTxExec, SendTxUnlock, SendStoreValue, UnlockStore
<1>2. \A t \in Shards : SameLock(t) /\ SameParked(t) /\ ShardInv(t) /\ txCtx'[t] = txCtx[t]
  BY Zenon, <1>1 DEF LockInv, SameLock, SameParked
<1>3. ASSUME NEW s \in Shards, NEW m, Send(s, m), NEW t \in Shards
      PROVE  mailbox'[t] = IF t = s THEN Append(mailbox[t], m) ELSE mailbox[t]
  BY <1>3 DEF Send, TypeOK
<1>4. ASSUME NEW s \in Shards, SendTxLock(s) PROVE LockInv'
  <2> DEFINE m == [type |-> "TxLock", tx |-> txCounter, req |-> cur]
  <2>1. /\ phase = "lock" /\ s \in left /\ Send(s, m)
        /\ left' = left \ {s} /\ txAwait' = txAwait \cup {s}
        /\ UNCHANGED <<phase, cur, txCounter, stores>>
    BY Zenon, <1>4 DEF SendTxLock, IsFirst
  <2>2. s \notin txAwait /\ s \in ShardsOf(cur) /\ cur \in Reqs
    BY Zenon, <2>1 DEF LockInv, CoordInv, TypeOK
  <2>3. CoordInv'
    BY Zenon, <2>1, <2>2 DEF LockInv, CoordInv
  <2>4. ASSUME NEW t \in Shards, t # s PROVE ShardInv(t)'
    <3>1. SameCoord(t) /\ mailbox'[t] = mailbox[t]
      BY Zenon, <1>3, <2>1, <2>4 DEF SameCoord
    <3>. QED
      BY Zenon, <1>2, <3>1, Frame
  <2>5. ShardInv(s)'
    <3>1. m \in ShardMsg /\ m.type = "TxLock" /\ m.tx = txCounter /\ m.req = cur
      BY Zenon, <2>2 DEF ShardMsg, TypeOK
    <3>2. ~Held(s) /\ ~Held(s)'
      BY <2>1 DEF Held
    <3>3. mailbox'[s] = Append(mailbox[s], m)
      BY Zenon, <1>3, <2>1
    <3> HIDE DEF m
    <3>. QED
      BY Zenon, <1>2, <2>1, <2>2, <3>1, <3>2, <3>3, SendAsk
  <2>. QED
    BY Zenon, <2>3, <2>4, <2>5 DEF LockInv
<1>5. ASSUME NEW s \in Shards, SendTxExec(s) PROVE LockInv'
  <2> DEFINE m == [type |-> "TxExec", tx |-> txCounter]
  <2>1. /\ phase = "exec" /\ s \in left /\ Send(s, m) /\ txAwait = {}
        /\ left' = left \ {s} /\ txAwait' = {s}
        /\ UNCHANGED <<phase, cur, txCounter, stores>>
    BY Zenon, <1>5 DEF SendTxExec, IsFirst
  <2>2. s \notin txAwait /\ s \in ShardsOf(cur)
    BY Zenon, <2>1 DEF LockInv, CoordInv
  <2>3. CoordInv'
    BY Zenon, <2>1, <2>2 DEF LockInv, CoordInv
  <2>4. ASSUME NEW t \in Shards, t # s PROVE ShardInv(t)'
    <3>1. SameCoord(t) /\ mailbox'[t] = mailbox[t]
      BY Zenon, <1>3, <2>1, <2>4 DEF SameCoord
    <3>. QED
      BY Zenon, <1>2, <3>1, Frame
  <2>5. ShardInv(s)'
    <3>1. m \in ShardMsg /\ m.type = "TxExec" /\ m.tx = txCounter
      BY Zenon DEF ShardMsg, TypeOK
    <3>2. Held(s) /\ Held(s)'
      BY Zenon, <2>1, <2>2 DEF Held
    <3>3. mailbox'[s] = Append(mailbox[s], m)
      BY Zenon, <1>3, <2>1
    <3>4. [tx |-> txCounter, req |-> cur] \in txCtx[s]
      BY Zenon, <1>2, <2>1 DEF ShardInv, CtxInv
    <3> HIDE DEF m
    <3>. QED
      BY Zenon, <1>2, <2>1, <2>2, <3>1, <3>2, <3>3, <3>4, SendAsk
  <2>. QED
    BY <2>3, <2>4, <2>5 DEF LockInv
<1>6. ASSUME NEW s \in Shards, SendTxUnlock(s) PROVE LockInv'
  <2> DEFINE m == [type |-> "TxUnlock", tx |-> txCounter]
  <2>1. /\ phase = "unlock" /\ s \in left /\ Send(s, m) /\ left' = left \ {s}
        /\ UNCHANGED <<phase, cur, txCounter, stores, txAwait>>
    BY Zenon, <1>6 DEF SendTxUnlock, IsFirst
  <2>2. s \notin txAwait
    BY Zenon, <2>1 DEF LockInv, CoordInv
  <2>3. CoordInv'
    BY Zenon, <2>1, <2>2 DEF LockInv, CoordInv
  <2>4. ASSUME NEW t \in Shards, t # s PROVE ShardInv(t)'
    <3>1. SameCoord(t) /\ mailbox'[t] = mailbox[t]
      BY Zenon, <1>3, <2>1, <2>4 DEF SameCoord
    <3>. QED
      BY Zenon, <1>2, <3>1, Frame
  <2>5. ShardInv(s)'
    <3>2. Held(s) /\ ~Held(s)'
      BY <2>1 DEF Held
    <3>3. mailbox'[s] = Append(mailbox[s], m)
      BY Zenon, <1>3, <2>1
    <3>. QED
      BY Zenon, <1>2, <2>1, <2>2, <3>2, <3>3, SendRelease
  <2>. QED
    BY <2>3, <2>4, <2>5 DEF LockInv
<1>7. CASE SendStoreValue
  <2> DEFINE st == Head(stores)
             m == [type |-> "StoreValue", tx |-> txCounter + 1, key |-> st.key, value |-> st.value]
  <2>0. st \in Store
    BY Zenon, <1>7, TailFacts DEF TypeOK, SendStoreValue
  <2>a. PICK s \in Shards : s = ShardOf[st.key]
    BY <2>0, ShardAssumption DEF Store
  <2>1. /\ phase = "store" /\ phase' = "stored" /\ stores # <<>> /\ Send(s, m) /\ txAwait' = {s}
        /\ txCounter' = txCounter + 1 /\ UNCHANGED <<cur, left, stores>>
    BY Zenon, <1>7, <2>a DEF SendStoreValue
  <2>2. txAwait = {} /\ left = {} /\ txCounter \in Nat
    BY Zenon, <2>1 DEF LockInv, CoordInv, TypeOK
  <2>3. CoordInv'
    BY <2>1, <2>2, <2>a DEF LockInv, CoordInv
  <2>4. ASSUME NEW t \in Shards PROVE ~Held(t) /\ ~Held(t)'
    BY Zenon, <2>1, <2>a DEF Held
  <2>5. ASSUME NEW t \in Shards, t # s PROVE ShardInv(t)'
    <3>1. mailbox'[t] = mailbox[t]
      BY Zenon, <1>3, <2>0, <2>1, <2>5
    <3>2. \A i \in DOMAIN mailbox[t] :
              mailbox[t][i].type \in TxTypes => mailbox[t][i].type = "TxUnlock"
      BY Zenon, <1>2, <2>2, OnlyUnlocks
    <3>. QED
      BY Zenon, <1>2, <2>1, <2>4, <3>1, <3>2, PhaseStep
  <2>6. ShardInv(s)'
    <3>1. m \in ShardMsg /\ m.type = "StoreValue" /\ m.tx = txCounter' /\ ShardOf[m.key] = s
      <4>1. st.key \in Keys /\ st.value \in Value
        BY Zenon, <2>0 DEF Store
      <4>2. txCounter + 1 \in Nat
        BY <2>2
      <4>. QED
        BY Zenon, <2>1, <2>a, <4>1, <4>2, StoreMsg
    <3>2. mailbox'[s] = Append(mailbox[s], m)
      BY Zenon, <1>3, <2>0, <2>1
    <3> HIDE DEF m
    <3>. QED
      BY Zenon, <1>2, <2>1, <2>2, <2>4, <3>1, <3>2, SendAsk
  <2>. QED
    BY <2>3, <2>5, <2>6 DEF LockInv
<1>8. CASE UnlockStore
  <2> DEFINE m == [type |-> "TxUnlock", tx |-> txCounter]
  <2>0. phase = "stored" /\ stores # <<>> /\ left = {}
    BY Zenon, <1>8 DEF UnlockStore, LockInv, CoordInv
  <2>a. PICK s \in Shards : s = ShardOf[Head(stores).key]
    <3>1. Head(stores) \in Store
      BY Zenon, <2>0, TailFacts DEF TypeOK
    <3>. QED
      BY <3>1, ShardAssumption DEF Store
  <2>1. /\ phase' = "store" /\ Send(s, m) /\ txAwait = {} /\ stores' = Tail(stores)
        /\ UNCHANGED <<cur, left, txCounter, txAwait>>
    BY Zenon, <1>8, <2>a DEF UnlockStore
  <2>3. CoordInv'
    BY Zenon, <2>0, <2>1 DEF LockInv, CoordInv
  <2>4. ASSUME NEW t \in Shards PROVE (Held(t) <=> t = s) /\ ~Held(t)'
    BY Zenon, <2>0, <2>1, <2>a DEF Held
  <2>5. ASSUME NEW t \in Shards, t # s PROVE ShardInv(t)'
    <3>1. mailbox'[t] = mailbox[t]
      BY Zenon, <1>3, <2>1, <2>5
    <3>2. \A i \in DOMAIN mailbox[t] :
              mailbox[t][i].type \in TxTypes => mailbox[t][i].type = "TxUnlock"
      BY Zenon, <1>2, <2>1, OnlyUnlocks
    <3>. QED
      BY Zenon, <1>2, <2>1, <2>4, <2>5, <3>1, <3>2, PhaseStep
  <2>6. ShardInv(s)'
    <3>2. mailbox'[s] = Append(mailbox[s], m)
      BY Zenon, <1>3, <2>1
    <3>. QED
      BY Zenon, <1>2, <2>1, <2>4, <3>2, SendRelease
  <2>. QED
    BY <2>3, <2>5, <2>6 DEF LockInv
<1>. QED
  BY Zenon, <1>4, <1>5, <1>6, <1>7, <1>8

(* The facts about the first message of shard s's channel on which the     *)
(* shard's handlers rely.                                                  *)
LEMMA FirstMessage ==
    ASSUME NEW s \in Shards, TypeOK, CoordInv, ShardInv(s), mailbox[s] # <<>>
    PROVE  LET m == Head(mailbox[s])
           IN  /\ m.type \in {"TxLock", "StoreValue"} =>
                     activeTx[s] = 0 /\ s \in txAwait /\ m.tx = txCounter /\ ~UnlockQueued(s)
               /\ m.type = "TxLock" => phase = "lock" /\ m.req = cur
               /\ m.type = "StoreValue" => phase = "stored" /\ ShardOf[m.key] = s
               /\ m.type = "TxExec" =>
                     /\ activeTx[s] = m.tx /\ s \in txAwait /\ m.tx = txCounter /\ phase = "exec"
                     /\ [tx |-> txCounter, req |-> cur] \in txCtx[s]
               /\ m.type = "TxUnlock" =>
                     /\ activeTx[s] = m.tx /\ activeTx[s] # 0 /\ ~Held(s)
<1> DEFINE m == Head(mailbox[s])
<1>0. 1 \in DOMAIN mailbox[s] /\ m = mailbox[s][1] /\ DOMAIN mailbox[s] = 1 .. Len(mailbox[s])
  BY Zenon, TailFacts DEF TypeOK
<1>1. ASSUME m.type \in {"TxLock", "StoreValue"}
      PROVE  activeTx[s] = 0 /\ s \in txAwait /\ m.tx = txCounter /\ ~UnlockQueued(s)
  <2>1. s \in txAwait /\ m.tx = txCounter /\ phase \in {"lock", "stored"}
    BY Zenon, <1>0, <1>1 DEF ShardInv, MailInv
  <2>2. ~Held(s)
    BY Zenon, <2>1 DEF Held
  <2>3. ~UnlockQueued(s)
    <3> SUFFICES ASSUME NEW i \in DOMAIN mailbox[s], mailbox[s][i].type = "TxUnlock" PROVE FALSE
      BY Zenon DEF UnlockQueued
    <3>1. 1 < i
      BY <1>0, <1>1
    <3>. QED
      BY Zenon, <1>0, <1>1, <3>1 DEF ShardInv, OrderInv, TxTypes
  <2>. QED
    BY Zenon, <2>1, <2>2, <2>3 DEF ShardInv, HolderInv
<1>2. m.type = "TxLock" => phase = "lock" /\ m.req = cur
  BY Zenon, <1>0 DEF ShardInv, MailInv
<1>3. m.type = "StoreValue" => phase = "stored" /\ ShardOf[m.key] = s
  BY <1>0 DEF ShardInv, MailInv
<1>4. ASSUME m.type = "TxExec"
      PROVE  /\ activeTx[s] = m.tx /\ s \in txAwait /\ m.tx = txCounter /\ phase = "exec"
             /\ [tx |-> txCounter, req |-> cur] \in txCtx[s]
  <2>1. s \in txAwait /\ m.tx = txCounter /\ phase = "exec"
    BY Zenon, <1>0, <1>4 DEF ShardInv, MailInv
  <2>2. Held(s)
    BY Zenon, <2>1 DEF Held, CoordInv
  <2>. QED
    BY Zenon, <2>1, <2>2 DEF ShardInv, HolderInv, CtxInv
<1>5. ASSUME m.type = "TxUnlock"
      PROVE  activeTx[s] = m.tx /\ activeTx[s] # 0 /\ ~Held(s)
  <2>1. UnlockQueued(s) /\ activeTx[s] = m.tx
    BY Zenon, <1>0, <1>5 DEF UnlockQueued, ShardInv, MailInv
  <2>. QED
    BY Zenon, <2>1 DEF ShardInv, HolderInv
<1>. QED
  BY Zenon, <1>1, <1>2, <1>3, <1>4, <1>5

(* Once its first transaction message is taken, and it was not an unlock   *)
(* (or it was the unlock), what stays in shard s's channel.                *)
LEMMA AfterFirst ==
    ASSUME NEW s \in Shards, TypeOK, ShardInv(s), mailbox[s] # <<>>,
           Head(mailbox[s]).type \in TxTypes, mailbox'[s] = Tail(mailbox[s])
    PROVE  /\ \A i \in DOMAIN mailbox'[s] :
                 LET m == mailbox'[s][i]
                 IN  m.type \in TxTypes =>
                        /\ Head(mailbox[s]).type = "TxUnlock"
                        /\ m.type \in {"TxLock", "StoreValue"}
                        /\ \E j \in DOMAIN mailbox[s] : m = mailbox[s][j]
           /\ OrderInv(s)'
           /\ ~UnlockQueued(s)'
<1> DEFINE q == mailbox[s]
           p == mailbox'[s]
<1>0. /\ q \in Seq(ShardMsg)
      /\ DOMAIN q = 1 .. Len(q)
      /\ Head(q) = q[1]
      /\ 1 \in DOMAIN q
      /\ DOMAIN p = 1 .. Len(q) - 1
      /\ \A i \in 1 .. Len(q) - 1 : p[i] = q[i + 1] /\ i + 1 \in DOMAIN q
      /\ Len(q) \in Nat
  BY TailFacts DEF TypeOK
<1>1. ASSUME NEW i \in DOMAIN p, p[i].type \in TxTypes
      PROVE  /\ Head(q).type = "TxUnlock"
             /\ p[i].type \in {"TxLock", "StoreValue"}
             /\ \E j \in DOMAIN q : p[i] = q[j]
  <2>1. p[i] = q[i + 1] /\ i + 1 \in DOMAIN q /\ 1 < i + 1
    BY <1>0
  <2>. QED
    BY Zenon, <1>0, <1>1, <2>1 DEF ShardInv, OrderInv
<1>2. OrderInv(s)'
  BY Zenon, OrderTail DEF ShardInv
<1>3. ~UnlockQueued(s)'
  BY Zenon, <1>1 DEF UnlockQueued, TxTypes
<1>. QED
  BY Zenon, <1>1, <1>2, <1>3

(* A step of shard s that only takes s out of txAwait.                     *)
LEMMA ShardFrame ==
    ASSUME NEW s \in Shards, TypeOK, LockInv,
           UNCHANGED <<phase, cur, txCounter, left, stores>>,
           txAwait' = txAwait \ {s} \/ UNCHANGED txAwait,
           \A t \in Shards : t # s => SameLock(t) /\ SameParked(t) /\ mailbox'[t] = mailbox[t]
    PROVE  CoordInv' /\ \A t \in Shards : t # s => ShardInv(t)'
<1>1. CoordInv'
  <2>0. CoordInv /\ ShardsOf(cur)' = ShardsOf(cur)
    BY Zenon DEF LockInv, ShardsOf, Kind, KeysOf
  <2>. QED
    BY Zenon, <2>0 DEF CoordInv
<1>2. ASSUME NEW t \in Shards, t # s PROVE ShardInv(t)'
  <2>1. SameCoord(t)
    BY Zenon, <1>2 DEF SameCoord
  <2>. QED
    BY Zenon, <1>2, <2>1, Frame DEF LockInv
<1>. QED
  BY Zenon, <1>1, <1>2

(* The shard takes a lock, by TxLock or by StoreValue.                     *)
LEMMA TakeLock ==
    ASSUME NEW s \in Shards, TypeOK, LockInv, mailbox[s] # <<>>, s \notin draining,
           Head(mailbox[s]).type \in {"TxLock", "StoreValue"},
           mailbox' = [mailbox EXCEPT ![s] = Tail(@)],
           activeTx' = [activeTx EXCEPT ![s] = Head(mailbox[s]).tx],
           \/ /\ Head(mailbox[s]).type = "TxLock"
              /\ txCtx' = [txCtx EXCEPT ![s] = @ \cup {[tx |-> Head(mailbox[s]).tx,
                                                        req |-> Head(mailbox[s]).req]}]
           \/ Head(mailbox[s]).type = "StoreValue" /\ UNCHANGED txCtx,
           txAwait' = txAwait \ {s},
           UNCHANGED <<coordVars, draining, pendVars>>
    PROVE  LockInv'
<1>0. ShardInv(s) /\ CoordInv
  BY DEF LockInv
<1>1. CoordInv' /\ \A t \in Shards : t # s => ShardInv(t)'
  BY Zenon, ShardFrame DEF TypeOK, coordVars, pendVars, SameLock, SameParked
<1>2. /\ activeTx[s] = 0 /\ s \in txAwait /\ Head(mailbox[s]).tx = txCounter
      /\ Head(mailbox[s]).type = "TxLock" => phase = "lock" /\ Head(mailbox[s]).req = cur
      /\ Head(mailbox[s]).type = "StoreValue" => phase = "stored"
  BY Zenon, <1>0, FirstMessage
<1>3. /\ mailbox'[s] = Tail(mailbox[s])
      /\ activeTx'[s] = txCounter
      /\ txCtx[s] = {}
      /\ Head(mailbox[s]).type = "TxLock" => txCtx'[s] = {[tx |-> txCounter, req |-> cur]}
      /\ Head(mailbox[s]).type = "StoreValue" => txCtx'[s] = {}
  <2>1. mailbox'[s] = Tail(mailbox[s]) /\ activeTx'[s] = txCounter
    BY Zenon, <1>2 DEF TypeOK
  <2>2. txCtx[s] = {}
    BY Zenon, <1>0, <1>2 DEF ShardInv, CtxInv
  <2>3. Head(mailbox[s]).type = "TxLock" => txCtx'[s] = {[tx |-> txCounter, req |-> cur]}
    BY <1>2, <2>2 DEF TypeOK
  <2>4. Head(mailbox[s]).type = "StoreValue" => txCtx'[s] = {}
    BY Zenon, <2>2
  <2>. QED
    BY <2>1, <2>2, <2>3, <2>4
<1>4. /\ \A i \in DOMAIN mailbox'[s] : mailbox'[s][i].type \notin TxTypes
      /\ OrderInv(s)' /\ ~UnlockQueued(s)'
  <2>1. Head(mailbox[s]).type \in TxTypes /\ Head(mailbox[s]).type # "TxUnlock"
    BY Zenon DEF TxTypes
  <2>. QED
    BY Zenon, <1>0, <1>3, <2>1, AfterFirst
<1>5. UNCHANGED <<phase, cur, txCounter, left, stores>> /\ txCounter # 0
  BY <1>0, <1>2 DEF coordVars, CoordInv
<1>6. Held(s)' /\ (phase = "lock" <=> Head(mailbox[s]).type = "TxLock")
  <2>1. CASE phase = "lock"
    BY Zenon, <1>0, <1>2, <1>5, <2>1 DEF Held, CoordInv, ShardsOf, Kind, KeysOf
  <2>2. CASE phase = "stored"
    BY Zenon, <1>0, <1>2, <1>5, <2>2 DEF Held, CoordInv
  <2>. QED
    BY Zenon, <1>2, <2>1, <2>2
<1>7. MailInv(s)'
  BY Zenon, <1>4 DEF MailInv, TxTypes
<1>8. HolderInv(s)'
  BY Zenon, <1>3, <1>4, <1>5, <1>6 DEF HolderInv
<1>9. CtxInv(s)'
  <2>1. phase' # "exec"
    BY Zenon, <1>2, <1>5
  <2>2. CASE Head(mailbox[s]).type = "TxLock"
    BY <1>3, <1>5, <2>1, <2>2 DEF CtxInv
  <2>3. CASE Head(mailbox[s]).type = "StoreValue"
    BY Zenon, <1>3, <1>5, <1>6, <2>1, <2>3 DEF CtxInv
  <2>. QED
    BY <2>2, <2>3
<1>10. ParkedInv(s)'
  BY <1>3, <1>5 DEF ParkedInv
<1>. QED
  BY Zenon, <1>1, <1>4, <1>7, <1>8, <1>9, <1>10 DEF LockInv, ShardInv
=============================================================================
