--------------------------- MODULE BarrierProofs ----------------------------
(***************************************************************************)
(* Proofs about GlobalBarrier for every number of shards, every journal    *)
(* and every number of flushes: no flow applies a global command before    *)
(* all have reached it, and no flow misses its entry in the map.  First    *)
(* the inductive invariant, what its counters count, and the steps that    *)
(* leave them alone; then the steps of the rendezvous.                     *)
(***************************************************************************)
EXTENDS GlobalBarrier, FiniteSetTheorems, TLAPS

(* Every rendezvous is set up for all the flows (global_apply, or_insert). *)
NumExact == \A t \in DOMAIN map : map[t].num = NumShards

IInv == TypeOK /\ NumExact /\ RendezvousInv

(* The flows are NumShards many; a set of flows that has as many elements  *)
(* is all of them.                                                         *)
LEMMA CountFlows ==
  ASSUME NEW S \in SUBSET Flows
  PROVE  /\ Cardinality(S) \in 0 .. NumShards
         /\ Cardinality(S) = NumShards <=> S = Flows
<1>1. IsFiniteSet(Flows) /\ Cardinality(Flows) = NumShards
  <2>1. NumShards - 1 \in Int /\ ~(0 > NumShards - 1)
    BY NumShardsAssumption
  <2>2. /\ IsFiniteSet(0 .. NumShards - 1)
        /\ Cardinality(0 .. NumShards - 1) = (NumShards - 1) - 0 + 1
    BY <2>1, FS_Interval
  <2>3. (NumShards - 1) - 0 + 1 = NumShards
    BY NumShardsAssumption
  <2> QED  BY <2>2, <2>3 DEF Flows
<1>2. /\ IsFiniteSet(S)
      /\ Cardinality(S) <= NumShards
      /\ Cardinality(Flows) = Cardinality(S) => Flows = S
  BY <1>1, FS_Subset
<1>3. Cardinality(S) \in Nat
  BY <1>2, FS_CardinalityType
<1> QED  BY <1>1, <1>2, <1>3, NumShardsAssumption

(* One more flow is counted by one more.                                   *)
LEMMA CountOneMore ==
  ASSUME NEW S \in SUBSET Flows, NEW f \in Flows, f \notin S
  PROVE  Cardinality(S \union {f}) = Cardinality(S) + 1
<1>1. IsFiniteSet(Flows)
  BY FS_Interval, NumShardsAssumption DEF Flows
<1>2. IsFiniteSet(S)
  BY <1>1, FS_Subset
<1> QED  BY <1>2, FS_AddElement

(* Appending to the journals moves no flow.                                *)
LEMMA AppendMovesNoFlow ==
  ASSUME IInv, pc' = pc, lsn_cells' = lsn_cells,
         NEW s \in Flows, NEW r \in Nat,
         log' = [log EXCEPT ![s] = Append(@, r)]
  PROVE  /\ \A f \in Flows : pc[f] # "read" => Entry(f)' = Entry(f) /\ HasEntry(f)'
         /\ \A t : /\ ArrivedAt(t)' = ArrivedAt(t)
                   /\ GatheredAt(t)' = GatheredAt(t)
                   /\ DoneWith(t)' = DoneWith(t)
<1>1. \A f \in Flows :
        /\ Len(log'[f]) >= Len(log[f])
        /\ \A i \in 1 .. Len(log[f]) : log'[f][i] = log[f][i]
  BY DEF IInv, TypeOK
<1>2. \A f \in Flows : pc[f] # "read" => Entry(f)' = Entry(f) /\ HasEntry(f)'
  <2> SUFFICES ASSUME NEW f \in Flows, pc[f] # "read"
               PROVE  Entry(f)' = Entry(f) /\ HasEntry(f)'
    OBVIOUS
  <2>1. lsn_cells[f] \in Nat /\ Len(log[f]) \in Nat /\ lsn_cells[f] < Len(log[f])
    BY DEF IInv, TypeOK, RendezvousInv, AtGlobal, HasEntry
  <2>2. Len(log'[f]) \in Nat
    BY DEF IInv, TypeOK
  <2> QED  BY <1>1, <2>1, <2>2 DEF Entry, HasEntry
<1>3. \A f \in Flows : \A t : Passed(f, t)' <=> Passed(f, t)
  <2> SUFFICES ASSUME NEW f \in Flows, NEW t
               PROVE  Passed(f, t)' <=> Passed(f, t)
    OBVIOUS
  <2>1. 1 .. lsn_cells[f] \subseteq 1 .. Len(log[f])
    BY DEF IInv, TypeOK
  <2> QED  BY <1>1, <2>1 DEF Passed
<1>4. \A f \in Flows : \A t : In(f, t)' <=> In(f, t)
  BY <1>2 DEF In
<1> QED  BY <1>2, <1>3, <1>4 DEF ArrivedAt, GatheredAt, DoneWith
(* The parts of the invariant the journals do not touch, when they grow.   *)
LEMMA GrowthKeeps ==
  ASSUME IInv, pc' = pc, lsn_cells' = lsn_cells, map' = map,
         next_tx_id' = next_tx_id,
         NEW s \in Flows, NEW r \in Nat,
         log' = [log EXCEPT ![s] = Append(@, r)]
  PROVE  /\ AtGlobal'
         /\ CountsExact'
         /\ ClosedOrUnmet'
         /\ EntryPresent'
         /\ AppliedGathered'
<1>1. /\ \A f \in Flows : pc[f] # "read" => Entry(f)' = Entry(f) /\ HasEntry(f)'
      /\ \A t : /\ ArrivedAt(t)' = ArrivedAt(t)
                /\ GatheredAt(t)' = GatheredAt(t)
                /\ DoneWith(t)' = DoneWith(t)
  BY Zenon, AppendMovesNoFlow
<1>2. AtGlobal'
  BY <1>1 DEF IInv, RendezvousInv, AtGlobal
<1>3. CountsExact'
  BY <1>1, Zenon DEF IInv, RendezvousInv, CountsExact
<1>4. ClosedOrUnmet'
  BY <1>1, Zenon DEF IInv, RendezvousInv, ClosedOrUnmet
<1>5. EntryPresent'
  BY <1>1 DEF IInv, RendezvousInv, EntryPresent
<1>6. AppliedGathered'
  BY <1>1 DEF IInv, RendezvousInv, AppliedGathered
<1> QED  BY <1>2, <1>3, <1>4, <1>5, <1>6

(* The journals that grow keep their types.                                *)
LEMMA GrowthType ==
  ASSUME TypeOK, NEW s \in Flows, NEW r \in Nat,
         log' = [log EXCEPT ![s] = Append(@, r)]
  PROVE  /\ log' \in [Flows -> Seq(Nat)]
         /\ \A f \in Flows : lsn_cells[f] <= Len(log'[f])
<1>1. log' \in [Flows -> Seq(Nat)]
  BY DEF TypeOK
<1>2. \A f \in Flows : Len(log'[f]) \in Nat /\ Len(log'[f]) >= Len(log[f])
  BY DEF TypeOK
<1>3. \A f \in Flows : lsn_cells[f] \in Nat /\ Len(log[f]) \in Nat
                      /\ lsn_cells[f] <= Len(log[f])
  BY DEF TypeOK
<1> QED  BY <1>1, <1>2, <1>3

(* A write of the master preserves the invariant.                          *)
LEMMA WriteInv ==
  ASSUME IInv, NEW s \in Flows, Write(s)
  PROVE  IInv'
<1>1. /\ log' = [log EXCEPT ![s] = Append(@, Op)] /\ Op \in Nat /\ flushing = {}
      /\ pc' = pc /\ lsn_cells' = lsn_cells /\ map' = map /\ next_tx_id' = next_tx_id
      /\ flushing' = flushing
  BY DEF Write, Op
<1>2. IdsOnce'
  BY <1>1 DEF IInv, TypeOK, RendezvousInv, IdsOnce, Op
<1>3. TypeOK'
  BY Zenon, <1>1, GrowthType DEF IInv, TypeOK, Write
<1>4. NumExact'
  BY <1>1 DEF IInv, NumExact
<1> QED  BY Zenon, <1>1, <1>2, <1>3, <1>4, GrowthKeeps DEF IInv, RendezvousInv

(* A flush journaled on one shard preserves the invariant.                 *)
LEMMA FlushShardInv ==
  ASSUME IInv, NEW s \in Flows, FlushShard(s)
  PROVE  IInv'
<1>1. /\ log' = [log EXCEPT ![s] = Append(@, next_tx_id)] /\ next_tx_id \in Nat
      /\ s \in flushing /\ flushing' = flushing \ {s}
      /\ pc' = pc /\ lsn_cells' = lsn_cells /\ map' = map /\ next_tx_id' = next_tx_id
  BY DEF FlushShard, IInv, TypeOK
<1>2. IdsOnce'
  <2> SUFFICES ASSUME NEW f \in Flows
               PROVE  /\ \A i, j \in 1 .. Len(log'[f]) :
                           log'[f][i] # Op /\ log'[f][i] = log'[f][j] => i = j
                      /\ \A i \in 1 .. Len(log'[f]) :
                           /\ log'[f][i] <= next_tx_id
                           /\ f \in flushing' => log'[f][i] < next_tx_id
    BY <1>1 DEF IdsOnce, Op
  <2>1. CASE f = s
    <3>1. /\ log[f] \in Seq(Nat)
          /\ log'[f] = Append(log[f], next_tx_id)
          /\ f \notin flushing'
      BY <1>1, <2>1 DEF IInv, TypeOK
    <3>2. /\ \A i, j \in 1 .. Len(log[f]) :
               log[f][i] # Op /\ log[f][i] = log[f][j] => i = j
          /\ \A i \in 1 .. Len(log[f]) : log[f][i] \in Nat /\ log[f][i] < next_tx_id
      BY <1>1, <2>1, <3>1 DEF IInv, RendezvousInv, IdsOnce
    <3> QED  BY <1>1, <3>1, <3>2
  <2>2. CASE f # s
    <3>1. log'[f] = log[f] /\ (f \in flushing' => f \in flushing)
      BY <1>1, <2>2 DEF IInv, TypeOK
    <3> QED  BY <3>1 DEF IInv, RendezvousInv, IdsOnce
  <2> QED  BY <2>1, <2>2
<1>3. TypeOK'
  BY <1>1, GrowthType DEF IInv, TypeOK, FlushShard
<1>4. NumExact'
  BY <1>1 DEF IInv, NumExact
<1> QED  BY Zenon, <1>1, <1>2, <1>3, <1>4, GrowthKeeps DEF IInv, RendezvousInv
(* A new transaction id is one no flow has met.                            *)
LEMMA FlushStartInv ==
  ASSUME IInv, FlushStart
  PROVE  IInv'
<1>1. /\ log' = log /\ pc' = pc /\ lsn_cells' = lsn_cells /\ map' = map
      /\ next_tx_id' = next_tx_id + 1 /\ flushing' = Flows
      /\ next_tx_id \in Nat
  BY DEF FlushStart, IInv, TypeOK
<1>2. IdsOnce'
  <2>1. \A f \in Flows : \A i \in 1 .. Len(log[f]) :
          log[f][i] <= next_tx_id + 1 /\ log[f][i] < next_tx_id + 1
    <3> TAKE f \in Flows
    <3> TAKE i \in 1 .. Len(log[f])
    <3>1. log[f][i] <= next_tx_id /\ log[f][i] \in Nat
      BY DEF IInv, TypeOK, RendezvousInv, IdsOnce
    <3> QED  BY <1>1, <3>1
  <2> QED  BY <1>1, <2>1 DEF IInv, RendezvousInv, IdsOnce, Op
<1>3. TypeOK'
  <2>1. DOMAIN map \subseteq 1 .. next_tx_id + 1
    BY <1>1 DEF IInv, TypeOK
  <2> QED  BY <1>1, <2>1 DEF IInv, TypeOK, FlushStart
<1>4. ArrivedAt(next_tx_id + 1) = {}
  <2>1. \A f \in Flows : \A i \in 1 .. Len(log[f]) : log[f][i] # next_tx_id + 1
    <3> TAKE f \in Flows
    <3> TAKE i \in 1 .. Len(log[f])
    <3>1. log[f][i] <= next_tx_id /\ log[f][i] \in Nat
      BY DEF IInv, TypeOK, RendezvousInv, IdsOnce
    <3> QED  BY <1>1, <3>1
  <2>2. \A f \in Flows : 1 .. lsn_cells[f] \subseteq 1 .. Len(log[f])
    BY DEF IInv, TypeOK
  <2>3. \A f \in Flows : ~Passed(f, next_tx_id + 1)
    BY <2>1, <2>2 DEF Passed
  <2>4. \A f \in Flows : pc[f] # "read" => lsn_cells[f] + 1 \in 1 .. Len(log[f])
    BY DEF IInv, TypeOK, RendezvousInv, AtGlobal, HasEntry
  <2>5. \A f \in Flows : ~In(f, next_tx_id + 1)
    BY <2>1, <2>4 DEF In, Entry
  <2> QED  BY <2>3, <2>5 DEF ArrivedAt
<1>5. \A t : ArrivedAt(t)' = ArrivedAt(t) /\ GatheredAt(t)' = GatheredAt(t)
            /\ DoneWith(t)' = DoneWith(t)
  BY <1>1 DEF ArrivedAt, GatheredAt, DoneWith, In, Passed, Entry
<1>6. ClosedOrUnmet'
  BY <1>1, <1>4, <1>5 DEF IInv, RendezvousInv, ClosedOrUnmet
<1>7. CountsExact'
  BY <1>1, <1>5, Zenon DEF IInv, RendezvousInv, CountsExact
<1>8. AtGlobal' /\ EntryPresent'
  BY <1>1 DEF IInv, RendezvousInv, AtGlobal, EntryPresent, Entry, HasEntry
<1>9. AppliedGathered'
  BY <1>1, <1>5 DEF IInv, RendezvousInv, AppliedGathered, Entry
<1> QED  BY Zenon, <1>1, <1>2, <1>3, <1>6, <1>7, <1>8, <1>9 DEF IInv, NumExact, RendezvousInv

(* The record a flow is at is not behind it.                               *)
LEMMA EntryAhead ==
  ASSUME IInv, NEW f \in Flows, HasEntry(f), Entry(f) # Op
  PROVE  /\ Entry(f) \in 1 .. next_tx_id
         /\ ~Passed(f, Entry(f))
<1>1. lsn_cells[f] + 1 \in 1 .. Len(log[f]) /\ lsn_cells[f] \in Nat /\ log[f] \in Seq(Nat)
  BY DEF IInv, TypeOK, HasEntry
<1>2. Entry(f) \in Nat /\ Entry(f) <= next_tx_id /\ next_tx_id \in Nat
  BY <1>1 DEF IInv, TypeOK, RendezvousInv, IdsOnce, Entry
<1>3. ASSUME NEW i \in 1 .. lsn_cells[f], log[f][i] = Entry(f)
      PROVE  FALSE
  <2>1. i \in 1 .. Len(log[f]) /\ i # lsn_cells[f] + 1
    BY <1>1
  <2> QED  BY <1>1, <1>3, <2>1 DEF IInv, RendezvousInv, IdsOnce, Entry
<1> QED  BY <1>2, <1>3 DEF Passed, Op

(* Steps that end a thread or raise a flag touch nothing the invariant of  *)
(* the rendezvous is about.                                                *)
LEMMA QuietInv ==
  ASSUME IInv, UNCHANGED <<log, next_tx_id, flushing, lsn_cells, pc, map>>
  PROVE  NumExact' /\ RendezvousInv'
<1>1. \A f \in Flows : Entry(f)' = Entry(f) /\ (HasEntry(f)' <=> HasEntry(f))
  BY DEF Entry, HasEntry
<1>2. \A t : ArrivedAt(t)' = ArrivedAt(t) /\ GatheredAt(t)' = GatheredAt(t)
            /\ DoneWith(t)' = DoneWith(t)
  BY DEF ArrivedAt, GatheredAt, DoneWith, In, Passed, Entry
<1>3. CountsExact' /\ ClosedOrUnmet'
  BY <1>2, Zenon DEF IInv, RendezvousInv, CountsExact, ClosedOrUnmet
<1>4. IdsOnce' /\ AtGlobal' /\ EntryPresent' /\ NumExact'
  BY <1>1 DEF IInv, RendezvousInv, IdsOnce, AtGlobal, EntryPresent, NumExact
<1>5. AppliedGathered'
  BY <1>1, <1>2 DEF IInv, RendezvousInv, AppliedGathered
<1> QED  BY <1>3, <1>4, <1>5 DEF RendezvousInv

(* A flow that moves on within a rendezvous without a counter.             *)
LEMMA PcInv ==
  ASSUME IInv, NEW f \in Flows, Enter(f) \/ Apply(f)
  PROVE  IInv'
<1>1. /\ UNCHANGED <<log, next_tx_id, flushing, lsn_cells, stopped, map, reported, stop, abort>>
      /\ pc[f] \in {"gathered", "apply"}
      /\ pc' = [pc EXCEPT ![f] = pc'[f]] /\ pc'[f] \in {"apply", "applied"}
  BY DEF Enter, Apply, Running, IInv, TypeOK
<1>2. TypeOK' /\ IdsOnce' /\ NumExact'
  BY Zenon, <1>1 DEF IInv, TypeOK, PCs, RendezvousInv, IdsOnce, NumExact
<1>3. \A g \in Flows : Entry(g)' = Entry(g) /\ (HasEntry(g)' <=> HasEntry(g))
                      /\ (pc'[g] = "read" <=> pc[g] = "read")
                      /\ (pc'[g] = "arrived" <=> pc[g] = "arrived")
  BY <1>1 DEF Entry, HasEntry, IInv, TypeOK
<1>4. \A t : ArrivedAt(t)' = ArrivedAt(t) /\ GatheredAt(t)' = GatheredAt(t)
            /\ DoneWith(t)' = DoneWith(t)
  BY <1>1, <1>3 DEF ArrivedAt, GatheredAt, DoneWith, In, Passed
<1>5. AtGlobal' /\ EntryPresent'
  BY <1>1, <1>3 DEF IInv, RendezvousInv, AtGlobal, EntryPresent
<1>6. CountsExact' /\ ClosedOrUnmet'
  BY <1>1, <1>4, Zenon DEF IInv, RendezvousInv, CountsExact, ClosedOrUnmet
<1>7. GatheredAt(Entry(f)) = Flows
  <2>1. CASE Apply(f)
    BY <2>1 DEF Apply, Running, IInv, RendezvousInv, AppliedGathered
  <2>2. CASE Enter(f)
    <3>1. Entry(f) \in DOMAIN map /\ map[Entry(f)].barrier = map[Entry(f)].num
      BY <2>2 DEF Enter, Running, AllGathered, IInv, RendezvousInv, EntryPresent
    <3>2. Cardinality(GatheredAt(Entry(f))) = NumShards
      BY <3>1 DEF IInv, NumExact, RendezvousInv, CountsExact
    <3> QED  BY <3>2, CountFlows DEF GatheredAt
  <2> QED  BY <2>1, <2>2
<1>8. AppliedGathered'
  <2> SUFFICES ASSUME NEW g \in Flows, pc'[g] \in {"apply", "applied"}
               PROVE  GatheredAt(Entry(g)) = Flows
    BY <1>3, <1>4 DEF AppliedGathered
  <2>1. CASE g = f
    BY <1>7, <2>1
  <2>2. CASE g # f
    BY <1>1, <2>2 DEF IInv, TypeOK, RendezvousInv, AppliedGathered
  <2> QED  BY <2>1, <2>2
<1> QED  BY <1>2, <1>5, <1>6, <1>8 DEF IInv, RendezvousInv
(* What a flow has behind it after one more record.                        *)
LEMMA OneMorePassed ==
  ASSUME IInv, NEW f \in Flows, HasEntry(f), log' = log,
         lsn_cells' = [lsn_cells EXCEPT ![f] = @ + 1]
  PROVE  /\ \A t : Passed(f, t)' <=> (Passed(f, t) \/ t = Entry(f))
         /\ \A g \in Flows \ {f} : /\ \A t : Passed(g, t)' <=> Passed(g, t)
                                   /\ Entry(g)' = Entry(g)
                                   /\ HasEntry(g)' <=> HasEntry(g)
<1>1. lsn_cells[f] \in Nat /\ lsn_cells'[f] = lsn_cells[f] + 1
  BY DEF IInv, TypeOK
<1>2. 1 .. lsn_cells'[f] = (1 .. lsn_cells[f]) \union {lsn_cells[f] + 1}
  BY <1>1
<1>3. \A t : Passed(f, t)' <=> (Passed(f, t) \/ t = Entry(f))
  BY <1>2 DEF Passed, Entry
<1>4. \A g \in Flows \ {f} : lsn_cells'[g] = lsn_cells[g]
  BY DEF IInv, TypeOK
<1> QED  BY <1>3, <1>4 DEF Passed, Entry, HasEntry

(* Counting on keeps the types of the state other than the map's.          *)
LEMMA NextRecordType ==
  ASSUME TypeOK, NEW f \in Flows, HasEntry(f), NextRecord(f), log' = log
  PROVE  /\ lsn_cells' \in [Flows -> Nat]
         /\ \A g \in Flows : lsn_cells'[g] <= Len(log'[g])
         /\ pc' \in [Flows -> PCs]
         /\ stopped' \subseteq Flows
<1>1. lsn_cells' = [lsn_cells EXCEPT ![f] = @ + 1] /\ lsn_cells[f] < Len(log[f])
  BY DEF NextRecord, HasEntry
<1>2. \A g \in Flows : lsn_cells[g] \in Nat /\ Len(log[g]) \in Nat /\ lsn_cells[g] <= Len(log[g])
  BY DEF TypeOK
<1> QED  BY <1>1, <1>2 DEF TypeOK, NextRecord, PCs

(* An ordinary record applied preserves the invariant.                     *)
LEMMA ApplyCommandInv ==
  ASSUME IInv, NEW f \in Flows, ApplyCommand(f)
  PROVE  IInv'
<1>1. /\ HasEntry(f) /\ Entry(f) = Op /\ NextRecord(f) /\ pc[f] = "read"
      /\ UNCHANGED <<log, next_tx_id, flushing, map, reported, stop, abort>>
  BY DEF ApplyCommand, Running
<1>2. pc' = pc /\ lsn_cells' = [lsn_cells EXCEPT ![f] = @ + 1]
  BY Zenon, <1>1 DEF NextRecord, IInv, TypeOK
<1>3. TypeOK'
  BY <1>1, NextRecordType DEF IInv, TypeOK
<1>4. /\ \A t : Passed(f, t)' <=> (Passed(f, t) \/ t = Op)
      /\ \A g \in Flows \ {f} : /\ \A t : Passed(g, t)' <=> Passed(g, t)
                                /\ Entry(g)' = Entry(g)
                                /\ HasEntry(g)' <=> HasEntry(g)
  BY Zenon, <1>1, <1>2, OneMorePassed
<1>5. \A g \in Flows : \A t : In(g, t)' <=> In(g, t)
  <2> TAKE g \in Flows
  <2>1. CASE g = f
    BY <1>1, <1>2, <2>1 DEF In
  <2>2. CASE g # f
    BY <1>2, <1>4, <2>2 DEF In
  <2> QED  BY <2>1, <2>2
<1>6. \A t \in 1 .. next_tx_id : /\ ArrivedAt(t)' = ArrivedAt(t)
                                /\ GatheredAt(t)' = GatheredAt(t)
                                /\ DoneWith(t)' = DoneWith(t)
  <2> TAKE t \in 1 .. next_tx_id
  <2>1. t # Op
    BY DEF Op
  <2>2. \A g \in Flows : Passed(g, t)' <=> Passed(g, t)
    <3> TAKE g \in Flows
    <3>1. CASE g = f
      BY <1>4, <2>1, <3>1, Zenon
    <3>2. CASE g # f
      <4>1. g \in Flows \ {f}
        BY <3>2
      <4> QED  BY <1>4, <4>1, Zenon
    <3> QED  BY <3>1, <3>2
  <2> QED  BY <1>2, <1>5, <2>2 DEF ArrivedAt, GatheredAt, DoneWith
<1>7. IdsOnce' /\ NumExact'
  BY <1>1 DEF IInv, NumExact, RendezvousInv, IdsOnce
<1>8. AtGlobal' /\ EntryPresent'
  BY Zenon, <1>1, <1>2, <1>4 DEF IInv, RendezvousInv, AtGlobal, EntryPresent
<1>9. CountsExact' /\ ClosedOrUnmet'
  <2>1. DOMAIN map \subseteq 1 .. next_tx_id
    BY DEF IInv, TypeOK
  <2>2. CountsExact'
    BY <1>1, <1>6, <2>1, Zenon DEF IInv, RendezvousInv, CountsExact
  <2>3. ClosedOrUnmet'
    BY <1>1, <1>6, Zenon DEF IInv, RendezvousInv, ClosedOrUnmet
  <2> QED  BY <2>2, <2>3
<1>10. AppliedGathered'
  <2> SUFFICES ASSUME NEW g \in Flows, pc[g] \in {"apply", "applied"}
               PROVE  GatheredAt(Entry(g))' = Flows
    BY <1>2 DEF AppliedGathered
  <2>1. g # f /\ pc[g] # "read"
    BY <1>1
  <2>2. Entry(g)' = Entry(g) /\ Entry(g) \in 1 .. next_tx_id
    BY <1>4, <2>1, EntryAhead DEF IInv, RendezvousInv, AtGlobal
  <2>3. GatheredAt(Entry(g)) = Flows
    BY Zenon DEF IInv, RendezvousInv, AppliedGathered
  <2> QED  BY Zenon, <1>6, <2>2, <2>3
<1> QED  BY <1>3, <1>7, <1>8, <1>9, <1>10 DEF IInv, RendezvousInv

----------------------------------------------------------------------------
(* The steps of the rendezvous *)

GlobalTxType ==
  [num : {NumShards}, arrived : 0 .. NumShards, barrier : 0 .. NumShards,
   done : 0 .. NumShards - 1]

(* One entry of the map changed along with what it counts.                 *)
LEMMA EntryUpdated ==
  ASSUME IInv, NEW t0 \in 1 .. next_tx_id, NEW g0 \in GlobalTxType,
         map' = WithEntry(t0, g0), next_tx_id' = next_tx_id,
         g0.arrived = Cardinality(ArrivedAt(t0)'),
         g0.barrier = Cardinality(GatheredAt(t0)'),
         g0.done = Cardinality(DoneWith(t0)'),
         DoneWith(t0)' # Flows,
         \A t : t # t0 => /\ ArrivedAt(t)' = ArrivedAt(t)
                          /\ GatheredAt(t)' = GatheredAt(t)
                          /\ DoneWith(t)' = DoneWith(t)
  PROVE  /\ DOMAIN map' = DOMAIN map \union {t0}
         /\ DOMAIN map' \subseteq 1 .. next_tx_id
         /\ \A t \in DOMAIN map' :
              map'[t] \in [num : Nat, arrived : 0 .. NumShards,
                          barrier : 0 .. NumShards, done : 0 .. NumShards - 1]
         /\ NumExact' /\ CountsExact' /\ ClosedOrUnmet'
<1>1. /\ DOMAIN map' = DOMAIN map \union {t0}
      /\ map'[t0] = g0
      /\ \A t \in DOMAIN map : t # t0 => map'[t] = map[t]
  BY Zenon DEF WithEntry
<1>2. DOMAIN map' \subseteq 1 .. next_tx_id
  BY Zenon, <1>1 DEF IInv, TypeOK
<1>3. \A t \in DOMAIN map' :
        map'[t] \in [num : Nat, arrived : 0 .. NumShards,
                    barrier : 0 .. NumShards, done : 0 .. NumShards - 1]
  <2> TAKE t \in DOMAIN map'
  <2>1. CASE t = t0
    BY Zenon, <1>1, <2>1, NumShardsAssumption DEF GlobalTxType
  <2>2. CASE t # t0
    BY Zenon, <1>1, <2>2 DEF IInv, TypeOK
  <2> QED  BY <2>1, <2>2
<1>4. NumExact'
  BY Zenon, <1>1 DEF IInv, NumExact, GlobalTxType
<1>5. CountsExact'
  <2> SUFFICES ASSUME NEW t \in DOMAIN map'
               PROVE  /\ map'[t].arrived = Cardinality(ArrivedAt(t)')
                      /\ map'[t].barrier = Cardinality(GatheredAt(t)')
                      /\ map'[t].done = Cardinality(DoneWith(t)')
                      /\ DoneWith(t)' # Flows
    BY DEF CountsExact
  <2>1. CASE t = t0
    BY Zenon, <1>1, <2>1
  <2>2. CASE t # t0
    <3>1. t \in DOMAIN map /\ map'[t] = map[t]
      BY Zenon, <1>1, <2>2
    <3>2. /\ map[t].arrived = Cardinality(ArrivedAt(t))
          /\ map[t].barrier = Cardinality(GatheredAt(t))
          /\ map[t].done = Cardinality(DoneWith(t))
          /\ DoneWith(t) # Flows
      BY Zenon, <3>1 DEF IInv, RendezvousInv, CountsExact
    <3> QED  BY Zenon, <2>2, <3>1, <3>2
  <2> QED  BY Zenon, <2>1, <2>2
<1>6. ClosedOrUnmet'
  <2> SUFFICES ASSUME NEW t \in (1 .. next_tx_id) \ DOMAIN map'
               PROVE  ArrivedAt(t)' = {} \/ DoneWith(t)' = Flows
    BY DEF ClosedOrUnmet
  <2>1. t # t0 /\ t \notin DOMAIN map
    BY Zenon, <1>1
  <2>2. ArrivedAt(t) = {} \/ DoneWith(t) = Flows
    BY Zenon, <2>1 DEF IInv, RendezvousInv, ClosedOrUnmet
  <2> QED  BY Zenon, <2>1, <2>2
<1> QED  BY Zenon, <1>1, <1>2, <1>3, <1>4, <1>5, <1>6

(* The first to reach a record opens its rendezvous, the others find it.   *)
LEMMA ArriveInv ==
  ASSUME IInv, NEW f \in Flows, Arrive(f)
  PROVE  IInv'
<1>0. PICK t0, g0 : t0 = Entry(f) /\ g0 = [OrInsert(t0) EXCEPT !.arrived = @ + 1]
  OBVIOUS
<1>1. /\ HasEntry(f) /\ t0 # Op /\ pc[f] = "read"
      /\ pc' = [pc EXCEPT ![f] = "arrived"] /\ map' = WithEntry(t0, g0)
      /\ UNCHANGED <<log, next_tx_id, flushing, lsn_cells, stopped, reported, stop, abort>>
  BY <1>0 DEF Arrive, Running
<1>2. t0 \in 1 .. next_tx_id /\ ~Passed(f, t0) /\ ~In(f, t0)
  BY Zenon, <1>0, <1>1, EntryAhead DEF In
<1>3. /\ pc'[f] = "arrived" /\ Entry(f)' = Entry(f)
      /\ \A g \in Flows : /\ Entry(g)' = Entry(g)
                          /\ HasEntry(g)' <=> HasEntry(g)
                          /\ g # f => pc'[g] = pc[g]
  BY Zenon, <1>1 DEF IInv, TypeOK, Entry, HasEntry
<1>4. \A g \in Flows : \A t : /\ Passed(g, t)' <=> Passed(g, t)
                              /\ In(g, t)' <=> In(g, t) \/ (g = f /\ t = t0)
  <2> TAKE g \in Flows
  <2>1. \A t : Passed(g, t)' <=> Passed(g, t)
    BY Zenon, <1>1 DEF Passed
  <2>2. CASE g = f
    <3>1. \A t : In(g, t)' <=> In(g, t) \/ (g = f /\ t = t0)
      BY <1>0, <1>1, <1>3, <2>2 DEF In
    <3> QED  BY Zenon, <2>1, <3>1
  <2>3. CASE g # f
    <3>1. \A t : In(g, t)' <=> In(g, t) \/ (g = f /\ t = t0)
      BY Zenon, <1>3, <2>3 DEF In
    <3> QED  BY <2>1, <3>1
  <2> QED  BY Zenon, <2>2, <2>3
<1>5. \A t : /\ DoneWith(t)' = DoneWith(t)
             /\ GatheredAt(t)' = GatheredAt(t)
             /\ ArrivedAt(t)' = IF t = t0 THEN ArrivedAt(t) \union {f} ELSE ArrivedAt(t)
  <2> TAKE t
  <2>1. DoneWith(t)' = DoneWith(t)
    BY Zenon, <1>4 DEF DoneWith
  <2>2. GatheredAt(t)' = GatheredAt(t)
    BY Zenon, <1>1, <1>3, <1>4 DEF GatheredAt, In
  <2>3. ArrivedAt(t)' = IF t = t0 THEN ArrivedAt(t) \union {f} ELSE ArrivedAt(t)
    BY <1>4 DEF ArrivedAt
  <2> QED  BY Zenon, <2>1, <2>2, <2>3
<1>6. f \notin ArrivedAt(t0)
  BY Zenon, <1>2 DEF ArrivedAt
<1>7. /\ OrInsert(t0) \in GlobalTxType
      /\ OrInsert(t0).arrived = Cardinality(ArrivedAt(t0))
      /\ OrInsert(t0).barrier = Cardinality(GatheredAt(t0))
      /\ OrInsert(t0).done = Cardinality(DoneWith(t0))
      /\ DoneWith(t0) # Flows
  <2>1. CASE t0 \in DOMAIN map
    <3>1. OrInsert(t0) = map[t0]
      BY Zenon, <2>1 DEF OrInsert
    <3>2. map[t0].num = NumShards
          /\ map[t0] \in [num : Nat, arrived : 0 .. NumShards,
                         barrier : 0 .. NumShards, done : 0 .. NumShards - 1]
      BY Zenon, <2>1 DEF IInv, TypeOK, NumExact
    <3>3. /\ map[t0].arrived = Cardinality(ArrivedAt(t0))
          /\ map[t0].barrier = Cardinality(GatheredAt(t0))
          /\ map[t0].done = Cardinality(DoneWith(t0))
          /\ DoneWith(t0) # Flows
      BY Zenon, <2>1 DEF IInv, RendezvousInv, CountsExact
    <3> QED  BY Zenon, <3>1, <3>2, <3>3 DEF GlobalTxType
  <2>2. CASE t0 \notin DOMAIN map
    <3>1. OrInsert(t0) = NewGlobalTx
      BY <2>2 DEF OrInsert
    <3>2. f \notin DoneWith(t0)
      BY <1>2 DEF DoneWith
    <3>3. ArrivedAt(t0) = {}
      BY Zenon, <1>2, <2>2, <3>2 DEF IInv, RendezvousInv, ClosedOrUnmet
    <3>4. GatheredAt(t0) = {} /\ DoneWith(t0) = {}
      BY <3>3 DEF ArrivedAt, GatheredAt, DoneWith
    <3>5. Cardinality({}) = 0
      BY FS_EmptySet
    <3> QED  BY <3>1, <3>2, <3>3, <3>4, <3>5, NumShardsAssumption DEF NewGlobalTx, GlobalTxType
  <2> QED  BY Zenon, <2>1, <2>2
<1>8. /\ g0 \in GlobalTxType
      /\ g0.arrived = Cardinality(ArrivedAt(t0)')
      /\ g0.barrier = Cardinality(GatheredAt(t0)')
      /\ g0.done = Cardinality(DoneWith(t0)')
      /\ DoneWith(t0)' # Flows
  <2>1. Cardinality(ArrivedAt(t0)') = OrInsert(t0).arrived + 1
    BY Zenon, <1>5, <1>6, <1>7, CountOneMore DEF ArrivedAt
  <2>2. Cardinality(ArrivedAt(t0)') \in 0 .. NumShards
    <3>1. ArrivedAt(t0)' \in SUBSET Flows
      BY Zenon DEF ArrivedAt
    <3> QED  BY <3>1, CountFlows
  <2> QED  BY Zenon, <1>0, <1>5, <1>7, <2>1, <2>2 DEF GlobalTxType
<1>9. /\ DOMAIN map' = DOMAIN map \union {t0}
      /\ DOMAIN map' \subseteq 1 .. next_tx_id
      /\ \A t \in DOMAIN map' :
           map'[t] \in [num : Nat, arrived : 0 .. NumShards,
                       barrier : 0 .. NumShards, done : 0 .. NumShards - 1]
      /\ NumExact' /\ CountsExact' /\ ClosedOrUnmet'
  BY Zenon, <1>1, <1>2, <1>5, <1>8, EntryUpdated
<1>10. TypeOK'
  BY Zenon, <1>1, <1>9 DEF IInv, TypeOK, PCs
<1>11. IdsOnce' /\ AtGlobal'
  BY <1>0, <1>1, <1>3 DEF IInv, RendezvousInv, IdsOnce, AtGlobal
<1>12. EntryPresent'
  BY <1>0, <1>1, <1>3, <1>9 DEF IInv, RendezvousInv, EntryPresent
<1>13. AppliedGathered'
  <2> SUFFICES ASSUME NEW g \in Flows, pc'[g] \in {"apply", "applied"}
               PROVE  GatheredAt(Entry(g))' = Flows
    BY DEF AppliedGathered
  <2>1. g # f /\ pc'[g] = pc[g]
    BY <1>3
  <2> QED  BY <1>3, <1>5, <2>1 DEF IInv, RendezvousInv, AppliedGathered
<1> QED  BY Zenon, <1>9, <1>10, <1>11, <1>12, <1>13 DEF IInv, RendezvousInv
(* A flow past the first wait is counted as gathered.                      *)
LEMMA GatherInv ==
  ASSUME IInv, NEW f \in Flows, Gather(f)
  PROVE  IInv'
<1>0. PICK t0, g0 : t0 = Entry(f) /\ g0 = [map[t0] EXCEPT !.barrier = @ + 1]
  OBVIOUS
<1>1. /\ pc[f] = "arrived"
      /\ pc' = [pc EXCEPT ![f] = "gathered"] /\ map' = WithEntry(t0, g0)
      /\ UNCHANGED <<log, next_tx_id, flushing, lsn_cells, stopped, reported, stop, abort>>
  BY <1>0 DEF Gather, Running
<1>2. HasEntry(f) /\ t0 # Op /\ t0 \in DOMAIN map
  BY <1>0, <1>1 DEF IInv, RendezvousInv, AtGlobal, EntryPresent
<1>3. t0 \in 1 .. next_tx_id /\ ~Passed(f, t0) /\ In(f, t0)
  BY <1>0, <1>1, <1>2, EntryAhead DEF In
<1>4. /\ pc'[f] = "gathered"
      /\ \A g \in Flows : /\ Entry(g)' = Entry(g)
                          /\ HasEntry(g)' <=> HasEntry(g)
                          /\ g # f => pc'[g] = pc[g]
                          /\ \A t : Passed(g, t)' <=> Passed(g, t)
  BY Zenon, <1>1 DEF IInv, TypeOK, Entry, HasEntry, Passed
<1>5. \A g \in Flows : \A t : In(g, t)' <=> In(g, t)
  <2> TAKE g \in Flows
  <2>1. pc'[g] = "read" <=> pc[g] = "read"
    BY <1>1, <1>4
  <2> QED  BY Zenon, <1>4, <2>1 DEF In
<1>6. \A t : /\ DoneWith(t)' = DoneWith(t)
             /\ ArrivedAt(t)' = ArrivedAt(t)
             /\ GatheredAt(t)' = IF t = t0 THEN GatheredAt(t) \union {f} ELSE GatheredAt(t)
  <2> TAKE t
  <2>1. DoneWith(t)' = DoneWith(t) /\ ArrivedAt(t)' = ArrivedAt(t)
    BY <1>4, <1>5 DEF DoneWith, ArrivedAt
  <2>2. \A g \in Flows \ {f} : g \in GatheredAt(t)' <=> g \in GatheredAt(t)
    BY Zenon, <1>4, <1>5 DEF GatheredAt
  <2>3. f \in GatheredAt(t)' <=> (t = t0 \/ f \in GatheredAt(t))
    <3>1. In(f, t) <=> t = t0
      BY Zenon, <1>0, <1>1 DEF In
    <3>2. f \in GatheredAt(t)' <=> (In(f, t) \/ Passed(f, t))
      BY Zenon, <1>4, <1>5 DEF GatheredAt
    <3>3. f \in GatheredAt(t) <=> Passed(f, t)
      BY Zenon, <1>1 DEF GatheredAt
    <3> QED  BY <3>1, <3>2, <3>3
  <2>4. GatheredAt(t)' \subseteq Flows /\ GatheredAt(t) \subseteq Flows
    BY Zenon DEF GatheredAt
  <2>5. GatheredAt(t)' = IF t = t0 THEN GatheredAt(t) \union {f} ELSE GatheredAt(t)
    BY <2>2, <2>3, <2>4
  <2> QED  BY Zenon, <2>1, <2>5
<1>7. /\ map[t0] \in GlobalTxType
      /\ map[t0].arrived = Cardinality(ArrivedAt(t0))
      /\ map[t0].barrier = Cardinality(GatheredAt(t0))
      /\ map[t0].done = Cardinality(DoneWith(t0))
      /\ DoneWith(t0) # Flows
  <2>1. map[t0] \in GlobalTxType
    BY <1>2 DEF IInv, TypeOK, NumExact, GlobalTxType
  <2> QED  BY Zenon, <1>2, <2>1 DEF IInv, RendezvousInv, CountsExact
<1>8. /\ g0 \in GlobalTxType
      /\ g0.arrived = Cardinality(ArrivedAt(t0)')
      /\ g0.barrier = Cardinality(GatheredAt(t0)')
      /\ g0.done = Cardinality(DoneWith(t0)')
      /\ DoneWith(t0)' # Flows
  <2>1. f \notin GatheredAt(t0)
    BY Zenon, <1>1, <1>3 DEF GatheredAt
  <2>2. Cardinality(GatheredAt(t0)') = map[t0].barrier + 1
    BY Zenon, <1>6, <1>7, <2>1, CountOneMore DEF GatheredAt
  <2>3. Cardinality(GatheredAt(t0)') \in 0 .. NumShards
    <3>1. GatheredAt(t0)' \in SUBSET Flows
      BY Zenon DEF GatheredAt
    <3> QED  BY <3>1, CountFlows
  <2> QED  BY Zenon, <1>0, <1>6, <1>7, <2>2, <2>3 DEF GlobalTxType
<1>9. /\ DOMAIN map' = DOMAIN map \union {t0}
      /\ DOMAIN map' \subseteq 1 .. next_tx_id
      /\ \A t \in DOMAIN map' :
           map'[t] \in [num : Nat, arrived : 0 .. NumShards,
                       barrier : 0 .. NumShards, done : 0 .. NumShards - 1]
      /\ NumExact' /\ CountsExact' /\ ClosedOrUnmet'
  BY Zenon, <1>1, <1>3, <1>6, <1>8, EntryUpdated
<1>10. TypeOK'
  BY Zenon, <1>1, <1>9 DEF IInv, TypeOK, PCs
<1>11. IdsOnce' /\ AtGlobal' /\ EntryPresent'
  BY Zenon, <1>1, <1>2, <1>4, <1>9 DEF IInv, RendezvousInv, IdsOnce, AtGlobal, EntryPresent
<1>12. AppliedGathered'
  <2> SUFFICES ASSUME NEW g \in Flows, pc'[g] \in {"apply", "applied"}
               PROVE  GatheredAt(Entry(g))' = Flows
    BY DEF AppliedGathered
  <2>1. g # f /\ pc'[g] = pc[g]
    BY Zenon, <1>4
  <2>2. GatheredAt(Entry(g)) = Flows
    BY Zenon, <2>1 DEF IInv, RendezvousInv, AppliedGathered
  <2> QED  BY Zenon, <1>4, <1>6, <2>2
<1> QED  BY Zenon, <1>9, <1>10, <1>11, <1>12 DEF IInv, RendezvousInv
(* The entry goes only when every flow has the record behind it.           *)
LEMMA DoneInv ==
  ASSUME IInv, NEW f \in Flows, Done(f)
  PROVE  IInv'
<1>0. PICK t0, g0 : t0 = Entry(f) /\ g0 = [map[t0] EXCEPT !.done = @ + 1]
  OBVIOUS
<1>1. /\ pc[f] = "applied" /\ NextRecord(f) /\ map' = Finished(t0, g0)
      /\ UNCHANGED <<log, next_tx_id, flushing, reported, stop, abort>>
  BY <1>0 DEF Done, Running
<1>2. HasEntry(f) /\ t0 # Op /\ t0 \in DOMAIN map
  BY <1>0, <1>1 DEF IInv, RendezvousInv, AtGlobal, EntryPresent
<1>3. t0 \in 1 .. next_tx_id /\ ~Passed(f, t0)
  BY <1>0, <1>2, EntryAhead
<1>4. /\ lsn_cells' = [lsn_cells EXCEPT ![f] = @ + 1]
      /\ pc'[f] = "read"
      /\ \A g \in Flows : g # f => pc'[g] = pc[g]
  BY Zenon, <1>1 DEF NextRecord, IInv, TypeOK
<1>5. /\ \A t : Passed(f, t)' <=> (Passed(f, t) \/ t = t0)
      /\ \A g \in Flows \ {f} : /\ \A t : Passed(g, t)' <=> Passed(g, t)
                                /\ Entry(g)' = Entry(g)
                                /\ HasEntry(g)' <=> HasEntry(g)
  BY Zenon, <1>0, <1>1, <1>2, <1>4, OneMorePassed
<1>6. \A t : /\ ArrivedAt(t)' = ArrivedAt(t)
             /\ GatheredAt(t)' = GatheredAt(t)
             /\ DoneWith(t)' = IF t = t0 THEN DoneWith(t) \union {f} ELSE DoneWith(t)
  <2> TAKE t
  <2>1. \A g \in Flows \ {f} : (In(g, t)' <=> In(g, t)) /\ (Passed(g, t)' <=> Passed(g, t))
    BY <1>4, <1>5 DEF In
  <2>2. ~In(f, t)' /\ (Passed(f, t)' <=> (Passed(f, t) \/ t = t0)) /\ (In(f, t) <=> t = t0)
    BY Zenon, <1>0, <1>1, <1>4, <1>5 DEF In
  <2>3. \A g \in Flows \ {f} : /\ g \in ArrivedAt(t)' <=> g \in ArrivedAt(t)
                               /\ g \in GatheredAt(t)' <=> g \in GatheredAt(t)
                               /\ g \in DoneWith(t)' <=> g \in DoneWith(t)
    BY Zenon, <1>4, <2>1 DEF ArrivedAt, GatheredAt, DoneWith
  <2>4. /\ f \in ArrivedAt(t)' <=> f \in ArrivedAt(t)
        /\ f \in GatheredAt(t)' <=> f \in GatheredAt(t)
        /\ f \in DoneWith(t)' <=> (f \in DoneWith(t) \/ t = t0)
    BY Zenon, <1>1, <1>4, <2>2 DEF ArrivedAt, GatheredAt, DoneWith
  <2>5. /\ ArrivedAt(t) \subseteq Flows /\ GatheredAt(t) \subseteq Flows
        /\ DoneWith(t) \subseteq Flows /\ ArrivedAt(t)' \subseteq Flows
        /\ GatheredAt(t)' \subseteq Flows /\ DoneWith(t)' \subseteq Flows
    BY Zenon DEF ArrivedAt, GatheredAt, DoneWith
  <2>6. ArrivedAt(t)' = ArrivedAt(t) /\ GatheredAt(t)' = GatheredAt(t)
    BY <2>3, <2>4, <2>5
  <2>7. DoneWith(t)' = IF t = t0 THEN DoneWith(t) \union {f} ELSE DoneWith(t)
    BY <2>3, <2>4, <2>5
  <2> QED  BY <2>6, <2>7
<1>7. /\ map[t0] \in GlobalTxType
      /\ map[t0].arrived = Cardinality(ArrivedAt(t0))
      /\ map[t0].barrier = Cardinality(GatheredAt(t0))
      /\ map[t0].done = Cardinality(DoneWith(t0))
  <2>1. map[t0] \in GlobalTxType
    BY <1>2 DEF IInv, TypeOK, NumExact, GlobalTxType
  <2> QED  BY Zenon, <1>2, <2>1 DEF IInv, RendezvousInv, CountsExact
<1>8. /\ g0.done = Cardinality(DoneWith(t0)')
      /\ g0.arrived = Cardinality(ArrivedAt(t0)')
      /\ g0.barrier = Cardinality(GatheredAt(t0)')
      /\ g0.num = NumShards
      /\ g0.done # NumShards => g0 \in GlobalTxType
      /\ g0.done = NumShards <=> DoneWith(t0)' = Flows
  <2>1. f \notin DoneWith(t0)
    BY Zenon, <1>3 DEF DoneWith
  <2>2. Cardinality(DoneWith(t0)') = map[t0].done + 1
    BY Zenon, <1>6, <1>7, <2>1, CountOneMore DEF DoneWith
  <2>3. /\ Cardinality(DoneWith(t0)') \in 0 .. NumShards
        /\ Cardinality(DoneWith(t0)') = NumShards <=> DoneWith(t0)' = Flows
    <3>1. DoneWith(t0)' \in SUBSET Flows
      BY DEF DoneWith
    <3> QED  BY <3>1, CountFlows
  <2>4. /\ g0.done = map[t0].done + 1 /\ g0.arrived = map[t0].arrived
        /\ g0.barrier = map[t0].barrier /\ g0.num = NumShards
        /\ g0 \in [num : {NumShards}, arrived : 0 .. NumShards,
                    barrier : 0 .. NumShards, done : Nat]
    BY <1>0, <1>7, NumShardsAssumption DEF GlobalTxType
  <2>5. g0.done # NumShards => g0 \in GlobalTxType
    BY <2>2, <2>3, <2>4, NumShardsAssumption DEF GlobalTxType
  <2> QED  BY Zenon, <1>6, <1>7, <2>2, <2>3, <2>4, <2>5
<1>9. /\ DOMAIN map' \subseteq 1 .. next_tx_id
      /\ DOMAIN map \ {t0} \subseteq DOMAIN map'
      /\ t0 \notin DOMAIN map' => DoneWith(t0)' = Flows
      /\ \A t \in DOMAIN map' :
           map'[t] \in [num : Nat, arrived : 0 .. NumShards,
                       barrier : 0 .. NumShards, done : 0 .. NumShards - 1]
      /\ NumExact' /\ CountsExact' /\ ClosedOrUnmet'
  <2>1. CASE g0.done # NumShards
    <3>1. map' = WithEntry(t0, g0)
      BY Zenon, <1>1, <1>8, <2>1 DEF Finished
    <3>2. /\ DOMAIN map' = DOMAIN map \union {t0}
          /\ DOMAIN map' \subseteq 1 .. next_tx_id
          /\ \A t \in DOMAIN map' :
               map'[t] \in [num : Nat, arrived : 0 .. NumShards,
                           barrier : 0 .. NumShards, done : 0 .. NumShards - 1]
          /\ NumExact' /\ CountsExact' /\ ClosedOrUnmet'
      BY Zenon, <1>1, <1>3, <1>6, <1>8, <2>1, <3>1, EntryUpdated
    <3> QED  BY Zenon, <3>2
  <2>2. CASE g0.done = NumShards
    <3>1. map' = Without(t0) /\ DoneWith(t0)' = Flows
      BY Zenon, <1>1, <1>8, <2>2 DEF Finished
    <3>2. DOMAIN map' = DOMAIN map \ {t0} /\ \A t \in DOMAIN map' : map'[t] = map[t]
      BY Zenon, <3>1 DEF Without
    <3>3. NumExact'
      BY Zenon, <3>2 DEF IInv, NumExact
    <3>4. CountsExact'
      BY Zenon, <1>6, <3>2 DEF IInv, RendezvousInv, CountsExact
    <3>5. ClosedOrUnmet'
      BY Zenon, <1>1, <1>6, <3>1, <3>2 DEF IInv, RendezvousInv, ClosedOrUnmet
    <3> QED  BY <3>1, <3>2, <3>3, <3>4, <3>5 DEF IInv, TypeOK
  <2> QED  BY Zenon, <2>1, <2>2
<1>10. TypeOK'
  BY Zenon, <1>1, <1>2, <1>9, NextRecordType DEF IInv, TypeOK
<1>11. IdsOnce' /\ AtGlobal'
  BY Zenon, <1>1, <1>4, <1>5 DEF IInv, RendezvousInv, IdsOnce, AtGlobal
<1>12. EntryPresent'
  <2> SUFFICES ASSUME NEW g \in Flows, pc'[g] # "read"
               PROVE  Entry(g)' \in DOMAIN map'
    BY Zenon DEF EntryPresent
  <2>1. g \in Flows \ {f} /\ pc[g] # "read"
    BY Zenon, <1>4
  <2>2. Entry(g)' = Entry(g) /\ Entry(g) \in DOMAIN map /\ ~Passed(g, Entry(g))
    BY Zenon, <1>5, <2>1, EntryAhead DEF IInv, RendezvousInv, AtGlobal, EntryPresent
  <2>3. Entry(g) = t0 => DoneWith(t0)' # Flows
    BY Zenon, <1>5, <2>1, <2>2 DEF DoneWith
  <2> QED  BY Zenon, <1>9, <2>2, <2>3
<1>13. AppliedGathered'
  <2> SUFFICES ASSUME NEW g \in Flows, pc'[g] \in {"apply", "applied"}
               PROVE  GatheredAt(Entry(g))' = Flows
    BY DEF AppliedGathered
  <2>1. g \in Flows \ {f} /\ pc'[g] = pc[g]
    BY Zenon, <1>4
  <2>2. GatheredAt(Entry(g)) = Flows /\ Entry(g)' = Entry(g)
    BY Zenon, <1>5, <2>1 DEF IInv, RendezvousInv, AppliedGathered
  <2> QED  BY Zenon, <1>6, <2>2
<1> QED  BY <1>9, <1>10, <1>11, <1>12, <1>13 DEF IInv, RendezvousInv
(* Threads that end and flags that are raised.                             *)
LEMMA ThreadsEndInv ==
  ASSUME IInv, NEW f \in Flows, Leave(f) \/ Halt(f) \/ Fail(f) \/ Stop \/ Abort
  PROVE  IInv'
<1>1. /\ UNCHANGED <<log, next_tx_id, flushing, lsn_cells, pc, map>>
      /\ stopped' \in {stopped, stopped \union {f}}
      /\ reported' \in {reported, TRUE} /\ stop' \in {stop, TRUE} /\ abort' \in {abort, TRUE}
  BY Zenon DEF Leave, Halt, Fail, Stop, Abort
<1>2. TypeOK'
  BY Zenon, <1>1 DEF IInv, TypeOK
<1> QED  BY Zenon, <1>1, <1>2, QuietInv DEF IInv

(* The initial states satisfy the invariant.                               *)
LEMMA InitInv ==
  ASSUME Init
  PROVE  IInv
<1>1. TypeOK /\ NumExact
  <2>1. DOMAIN map = {} /\ NumExact
    BY DEF Init, NumExact
  <2>2. /\ log \in [Flows -> Seq(Nat)] /\ lsn_cells \in [Flows -> Nat]
        /\ pc \in [Flows -> PCs]
    BY DEF Init, PCs
  <2>3. \A f \in Flows : lsn_cells[f] <= Len(log[f])
    <3>1. Len(<<>>) = 0 /\ 0 <= 0
      OBVIOUS
    <3> QED  BY <3>1 DEF Init
  <2> QED  BY Zenon, <2>1, <2>2, <2>3 DEF Init, TypeOK
<1>2. IdsOnce /\ AtGlobal /\ EntryPresent /\ AppliedGathered /\ CountsExact
  BY DEF Init, IdsOnce, AtGlobal, EntryPresent, AppliedGathered, CountsExact
<1>3. ClosedOrUnmet
  BY DEF Init, ClosedOrUnmet
<1> QED  BY <1>1, <1>2, <1>3 DEF IInv, RendezvousInv

(* Every step preserves the invariant.                                     *)
LEMMA NextInv ==
  ASSUME IInv, [Next]_vars
  PROVE  IInv'
<1>1. CASE FlushStart
  BY Zenon, <1>1, FlushStartInv
<1>2. CASE Stop \/ Abort
  <2>1. 0 \in Flows
    BY NumShardsAssumption DEF Flows
  <2> QED  BY Zenon, <1>2, <2>1, ThreadsEndInv
<1>3. ASSUME NEW f \in Flows, Write(f) \/ FlushShard(f) \/ Fail(f) \/ FlowStep(f)
      PROVE  IInv'
  <2>1. CASE Write(f)
    BY <2>1, WriteInv
  <2>2. CASE FlushShard(f)
    BY <2>2, FlushShardInv
  <2>3. CASE Fail(f) \/ Leave(f) \/ Halt(f)
    BY <2>3, ThreadsEndInv
  <2>4. CASE ApplyCommand(f)
    BY <2>4, ApplyCommandInv
  <2>5. CASE Arrive(f)
    BY <2>5, ArriveInv
  <2>6. CASE Gather(f)
    BY <2>6, GatherInv
  <2>7. CASE Enter(f) \/ Apply(f)
    BY Zenon, <2>7, PcInv
  <2>8. CASE Done(f)
    BY <2>8, DoneInv
  <2> QED  BY Zenon, <1>3, <2>1, <2>2, <2>3, <2>4, <2>5, <2>6, <2>7, <2>8 DEF FlowStep
<1>4. CASE UNCHANGED vars
  <2>1. TypeOK'
    BY <1>4 DEF vars, IInv, TypeOK
  <2> QED  BY Zenon, <1>4, <2>1, QuietInv DEF vars, IInv
<1> QED  BY Zenon, <1>1, <1>2, <1>3, <1>4 DEF Next

(* The counters of every rendezvous count what they should and a           *)
(* transaction id belongs to one flush, in every session.                  *)
THEOREM RendezvousInvariant == Spec => [](TypeOK /\ RendezvousInv)
<1>1. Init => IInv
  BY InitInv
<1>2. IInv /\ [Next]_vars => IInv'
  BY NextInv
<1>3. IInv => TypeOK /\ RendezvousInv
  BY DEF IInv
<1> QED  BY <1>1, <1>2, <1>3, PTL DEF Spec

(* No flow applies a global command before every flow has reached it: what *)
(* global_apply's two waits are for, whatever flows fail.                  *)
THEOREM FlowsMeet == Spec => []SamePoint
<1>1. RendezvousInv => SamePoint
  BY DEF RendezvousInv, AppliedGathered, SamePoint, GatheredAt
<1> QED  BY <1>1, RendezvousInvariant, PTL

(* A flow inside global_apply finds its entry: the map is never indexed    *)
(* with a transaction another flow has removed.                            *)
THEOREM NoEntryMissing == Spec => []EntryPresent
<1>1. RendezvousInv => EntryPresent
  BY DEF RendezvousInv
<1> QED  BY <1>1, RendezvousInvariant, PTL

=============================================================================
