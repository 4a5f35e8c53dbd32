----------------------- MODULE ReplicationCloseProofs -----------------------
(***************************************************************************)
(* Theorems about replication, for every number of shards, keys, sessions, *)
(* writes and losses: the variables keep their types, a session registers  *)
(* one consumer on a shard, and a closed one leaves nothing there.         *)
(***************************************************************************)
EXTENDS ReplicationInv, FiniteSetTheorems, TLAPS

----------------------------------------------------------------------------
(* Sequences and listings *)

(* A finite set is listed by a sequence of its members, each once.         *)
LEMMA ListingFacts ==
    ASSUME NEW S, IsFiniteSet(S)
    PROVE  /\ Cardinality(S) \in Nat
           /\ Listing(S) \in [1 .. Cardinality(S) -> S]
           /\ \A i, j \in 1 .. Cardinality(S) : Listing(S)[i] = Listing(S)[j] => i = j
           /\ \A x \in S : \E i \in 1 .. Cardinality(S) : Listing(S)[i] = x
<1>1. Cardinality(S) \in Nat /\ Bijection(1 .. Cardinality(S), S) # {}
  BY FS_CardinalityType DEF ExistsBijection
<1>2. Listing(S) \in Bijection(1 .. Cardinality(S), S)
  BY Zenon, <1>1 DEF Listing
<1>. QED
  BY <1>1, <1>2 DEF Bijection, Injection, Surjection, IsInjective

(* What Append, Tail and concatenation do to lengths and elements.         *)
LEMMA AppendFacts ==
    ASSUME NEW S, NEW q \in Seq(S), NEW x \in S
    PROVE  /\ Append(q, x) \in Seq(S)
           /\ Len(Append(q, x)) = Len(q) + 1
           /\ DOMAIN Append(q, x) = 1 .. Len(q) + 1 /\ DOMAIN q = 1 .. Len(q) /\ Len(q) \in Nat
           /\ \A i \in 1 .. Len(q) : Append(q, x)[i] = q[i]
           /\ Append(q, x)[Len(q) + 1] = x
  OBVIOUS

LEMMA TailFacts ==
    ASSUME NEW S, NEW q \in Seq(S), q # <<>>
    PROVE  /\ Tail(q) \in Seq(S) /\ Head(q) \in S /\ Head(q) = q[1]
           /\ Len(Tail(q)) = Len(q) - 1
           /\ DOMAIN q = 1 .. Len(q) /\ Len(q) \in Nat /\ Len(q) # 0
           /\ DOMAIN Tail(q) = 1 .. Len(q) - 1
           /\ \A i \in 1 .. Len(q) - 1 : Tail(q)[i] = q[i + 1]
  OBVIOUS

LEMMA ConcatFacts ==
    ASSUME NEW S, NEW q \in Seq(S), NEW r \in Seq(S)
    PROVE  /\ q \o r \in Seq(S)
           /\ Len(q \o r) = Len(q) + Len(r)
           /\ DOMAIN (q \o r) = 1 .. Len(q) + Len(r)
           /\ DOMAIN q = 1 .. Len(q) /\ Len(q) \in Nat /\ DOMAIN r = 1 .. Len(r) /\ Len(r) \in Nat
           /\ \A i \in 1 .. Len(q) : (q \o r)[i] = q[i]
           /\ \A i \in 1 .. Len(r) : (q \o r)[Len(q) + i] = r[i]
  OBVIOUS

LEMMA SeqOf ==
    ASSUME NEW S, NEW n \in Nat, NEW f \in [1 .. n -> S]
    PROVE  f \in Seq(S) /\ Len(f) = n
  OBVIOUS

(* A function stays in its set when one value is replaced.                 *)
LEMMA UpdateType ==
    ASSUME NEW A, NEW B, NEW f \in [A -> B], NEW a \in A, NEW b \in B
    PROVE  [f EXCEPT ![a] = b] \in [A -> B]
  OBVIOUS

LEMMA SubSeqType ==
    ASSUME NEW S, NEW q \in Seq(S), NEW m \in Nat \ {0}
    PROVE  SubSeq(q, m, Len(q)) \in Seq(S)
  OBVIOUS

LEMMA SeqOfInt ==
    ASSUME NEW S, NEW n \in Int, NEW f \in [1 .. n -> S]
    PROVE  f \in Seq(S) /\ DOMAIN f = 1 .. n /\ (n >= 0 => Len(f) = n) /\ (n <= 0 => f = <<>>)
<1>1. CASE n >= 0
  BY <1>1
<1>2. CASE n < 0
  BY <1>2
<1>. QED
  BY <1>1, <1>2

----------------------------------------------------------------------------
(* Types *)

(* The session of the replica is one of the numbers a session may have.    *)
LEMMA CurSid == TypeInv => (up \/ stableNext # 0 => cur \in Sids)
  BY DEF TypeInv, TypeOK, CurInv, Sids

(* LSNs are positive numbers, and applying a record gives a store.         *)
LEMMA LsnType ==
    ASSUME TypeOK, NEW s \in Shards
    PROVE  Len(log[s]) \in Nat /\ Lsn(s) \in Nat \ {0} /\ Lsn(s) = Len(log[s]) + 1
  BY DEF TypeOK, Lsn

LEMMA AfterType ==
    ASSUME NEW st \in Store, NEW r \in Record
    PROVE  After(st, r) \in Store
<1>1. r.op \in {"set", "incr", "del"} /\ r.key \in Keys /\ r.val \in Nat /\ st[r.key] \in Nat
  BY ReplicationAssumption DEF Record, Store
<1>. QED
  BY <1>1 DEF After, Store

(* The records of a shard's journal, alone and as blobs, are items.        *)
LEMMA RecType ==
    ASSUME TypeOK, NEW s \in Shards, NEW lsn \in 1 .. Len(log[s])
    PROVE  Rec(s, lsn) \in Item
<1>1. log[s][lsn] \in Record /\ lsn \in Nat
  BY DEF TypeOK
<1>. QED
  BY <1>1 DEF Rec, Item

LEMMA RecordsType ==
    ASSUME TypeOK, NEW s \in Shards, NEW from \in Nat \ {0}
    PROVE  /\ Records(s, from) \in Seq(Item)
           /\ \A n \in DOMAIN Records(s, from) : Records(s, from)[n].t = "rec"
<1>1. Lsn(s) - from \in Int /\ \A i \in 1 .. Lsn(s) - from : from + i - 1 \in 1 .. Len(log[s])
  BY LsnType
<1>2. Records(s, from) \in [1 .. Lsn(s) - from -> Item]
  BY Zenon, <1>1, RecType DEF Records
<1>3. Records(s, from) \in Seq(Item) /\ DOMAIN Records(s, from) = 1 .. Lsn(s) - from
  BY Zenon, <1>1, <1>2, SeqOfInt
<1>. QED
  BY Zenon, <1>3 DEF Records, Rec

(* What the consumers of a shard send of a write are chunks.               *)
LEMMA StreamedType ==
    ASSUME TypeOK, NEW s \in Shards, NEW r \in Record
    PROVE  /\ Streamed(s, r) \in Seq(Chunk)
           /\ DOMAIN Streamed(s, r) = 1 .. Cardinality(consumers[s])
           /\ Cardinality(consumers[s]) \in Nat
           /\ Len(Streamed(s, r)) = Cardinality(consumers[s])
<1>1. IsFiniteSet(consumers[s]) /\ consumers[s] \subseteq Sids
  <2>1. IsFiniteSet(Sids)
    BY FS_Interval, ReplicationAssumption DEF Sids
  <2>2. consumers[s] \subseteq Sids
    BY Zenon DEF TypeOK
  <2>. QED
    BY Zenon, <2>1, <2>2, FS_Subset
<1>2. /\ Cardinality(consumers[s]) \in Nat
      /\ Listing(consumers[s]) \in [1 .. Cardinality(consumers[s]) -> consumers[s]]
  BY Zenon, <1>1, ListingFacts
<1>3. <<[t |-> "rec", rec |-> r, lsn |-> Lsn(s)]>> \in Seq(Item)
  <2>1. [t |-> "rec", rec |-> r, lsn |-> Lsn(s)] \in Item
    BY LsnType DEF Item
  <2>. QED
    BY <2>1
<1>4. \A i \in 1 .. Cardinality(consumers[s]) : Listing(consumers[s])[i] \in Sids
  BY Zenon, <1>1, <1>2
<1>5. Streamed(s, r) \in [1 .. Cardinality(consumers[s]) -> Chunk]
  BY <1>3, <1>4 DEF Streamed, Chunk
<1>. QED
  BY <1>2, <1>5

(* From here on, one lemma per action: it keeps TypeInv.                   *)
LEMMA WriteType ==
    ASSUME TypeInv, NEW s \in Shards, NEW k \in Keys, NEW op \in Ops, Write(s, k, op)
    PROVE  TypeInv'
<1> DEFINE r == [op |-> op, key |-> k, val |-> 10 * (writes + 1)]
<1>1. r \in Record /\ writes' \in 0 .. MaxWrites
  BY ReplicationAssumption DEF TypeInv, TypeOK, Record, Write
<1>2. store[s] \in Store /\ After(store[s], r) \in Store
  BY Zenon, <1>1, AfterType DEF TypeInv, TypeOK
<1>3. Streamed(s, r) \in Seq(Chunk)
  BY Zenon, <1>1, StreamedType DEF TypeInv
<1>4. /\ Append(log[s], r) \in Seq(Record)
      /\ Append(hist[s], After(store[s], r)) \in Seq(Store) /\ <<After(store[s], r)>> \in Seq(Store)
      /\ chan[s] \o Streamed(s, r) \in Seq(Chunk)
  BY <1>1, <1>2, <1>3 DEF TypeInv, TypeOK
<1> HIDE DEF r
<1>5. /\ store' = [store EXCEPT ![s] = After(store[s], r)]
      /\ log' \in {log, [log EXCEPT ![s] = Append(log[s], r)]}
      /\ hist' \in {[hist EXCEPT ![s] = Append(hist[s], After(store[s], r))],
                    [hist EXCEPT ![s] = <<After(store[s], r)>>]}
      /\ chan' \in {chan, [chan EXCEPT ![s] = chan[s] \o Streamed(s, r)]}
      /\ UNCHANGED <<journalOn, snaps, frames, consumers, shardQ, sess, stableNext, losses,
                     replicaVars, lost>>
  BY Zenon DEF Write, r
<1>6. /\ store' \in [Shards -> Store] /\ log' \in [Shards -> Seq(Record)]
      /\ hist' \in [Shards -> Seq(Store)] /\ chan' \in [Shards -> Seq(Chunk)]
  <2>0. /\ store \in [Shards -> Store] /\ log \in [Shards -> Seq(Record)]
        /\ hist \in [Shards -> Seq(Store)] /\ chan \in [Shards -> Seq(Chunk)]
    BY Zenon DEF TypeInv, TypeOK
  <2>1. /\ [store EXCEPT ![s] = After(store[s], r)] \in [Shards -> Store]
        /\ [log EXCEPT ![s] = Append(log[s], r)] \in [Shards -> Seq(Record)]
        /\ [hist EXCEPT ![s] = Append(hist[s], After(store[s], r))] \in [Shards -> Seq(Store)]
        /\ [hist EXCEPT ![s] = <<After(store[s], r)>>] \in [Shards -> Seq(Store)]
        /\ [chan EXCEPT ![s] = chan[s] \o Streamed(s, r)] \in [Shards -> Seq(Chunk)]
    BY <1>2, <1>4, <2>0
  <2>. QED
    BY Zenon, <1>5, <2>0, <2>1
<1>. QED
  BY Zenon, <1>1, <1>5, <1>6 DEF TypeInv, TypeOK, SnapInv, CurInv, replicaVars, flowVars

Snap == [keys : Seq(Keys), from : Nat]

(* One snapshot of a shard is replaced.                                    *)
LEMMA SnapUpdate ==
    ASSUME TypeInv, NEW s \in Shards, NEW i \in Sids, NEW x \in Snap, x = NoSnap \/ x.from # 0,
           snaps' = [snaps EXCEPT ![s][i] = x]
    PROVE  snaps' \in [Shards -> [Sids -> Snap]] /\ SnapInv'
<1>1. snaps \in [Shards -> [Sids -> Snap]]
  BY Zenon DEF TypeInv, TypeOK, Snap
<1>2. snaps' \in [Shards -> [Sids -> Snap]]
  BY <1>1
<1>3. \A t \in Shards, j \in Sids : snaps'[t][j] = IF t = s /\ j = i THEN x ELSE snaps[t][j]
  BY <1>1
<1>. QED
  BY Zenon, <1>2, <1>3 DEF TypeInv, SnapInv

LEMMA SerializeType ==
    ASSUME TypeInv, NEW s \in Shards, NEW i \in Sids, NEW snap \in Snap, snap.from # 0,
           Serialize(s, i, snap)
    PROVE  /\ snaps' \in [Shards -> [Sids -> Snap]] /\ SnapInv'
           /\ frames' \in [Shards -> Seq([sid : Sids, items : Seq(Entry), done : BOOLEAN])]
           /\ \E f \in [sid : {i}, items : Seq(Entry), done : BOOLEAN] :
                 frames' = [frames EXCEPT ![s] = <<f>> \o @]
<1> DEFINE n == IF ChunkLen <= Len(snap.keys) THEN ChunkLen ELSE Len(snap.keys)
           there == Listing({snap.keys[j] : j \in 1 .. n} \cap Present(s))
           items == [j \in DOMAIN there |->
                        [t |-> "entry", key |-> there[j], val |-> store[s][there[j]]]]
           f == [sid |-> i, items |-> items, done |-> Len(snap.keys) < ChunkLen]
<1>1. snap.keys \in Seq(Keys) /\ n \in Nat /\ snap.from \in Nat
  BY ReplicationAssumption DEF Snap
<1>2. [snap EXCEPT !.keys = SubSeq(snap.keys, n + 1, Len(snap.keys))] \in Snap
  <2>1. SubSeq(snap.keys, n + 1, Len(snap.keys)) \in Seq(Keys)
    BY <1>1, SubSeqType
  <2>. QED
    BY <2>1 DEF Snap
<1>3. [snap EXCEPT !.keys = SubSeq(snap.keys, n + 1, Len(snap.keys))].from # 0
  BY DEF Snap
<1>4. snaps' \in [Shards -> [Sids -> Snap]] /\ SnapInv'
  BY Zenon, <1>2, <1>3, SnapUpdate DEF Serialize
<1>5. items \in Seq(Entry)
  <2> DEFINE S == {snap.keys[j] : j \in 1 .. n} \cap Present(s)
  <2>1. IsFiniteSet(S) /\ S \subseteq Keys
    <3>1. S \subseteq Keys
      BY Zenon DEF Present
    <3>. QED
      BY Zenon, <3>1, ReplicationAssumption, FS_Subset
  <2>2. Cardinality(S) \in Nat /\ there \in [1 .. Cardinality(S) -> S]
    BY Zenon, <2>1, ListingFacts
  <2>3. store[s] \in [Keys -> Nat]
    BY Zenon DEF TypeInv, TypeOK, Store
  <2> HIDE DEF S, there
  <2>4. items \in [1 .. Cardinality(S) -> Entry]
    BY <2>1, <2>2, <2>3 DEF Entry
  <2> HIDE DEF items
  <2>. QED
    BY Zenon, <2>2, <2>4, SeqOf
<1>6. (Len(snap.keys) < ChunkLen) \in BOOLEAN
  OBVIOUS
<1> HIDE DEF items
<1>7. f \in [sid : {i}, items : Seq(Entry), done : BOOLEAN]
  BY Zenon, <1>5, <1>6
<1>8. frames' = [frames EXCEPT ![s] = <<f>> \o frames[s]]
  BY Zenon DEF Serialize, items
<1> HIDE DEF f
<1>9. frames' \in [Shards -> Seq([sid : Sids, items : Seq(Entry), done : BOOLEAN])]
  <2> DEFINE F == [sid : Sids, items : Seq(Entry), done : BOOLEAN]
  <2>1. f \in F /\ frames \in [Shards -> Seq(F)]
    BY Zenon, <1>7 DEF TypeInv, TypeOK
  <2> HIDE DEF F
  <2>2. <<f>> \o frames[s] \in Seq(F)
    BY <2>1
  <2>. QED
    BY <1>8, <2>1, <2>2 DEF F
<1>. QED
  BY Zenon, <1>4, <1>7, <1>8, <1>9

(* The fields of the shard's messages, by kind.                            *)
LEMMA MsgFields ==
    ASSUME NEW m \in ShardMsg
    PROVE  m.t \in {"enable", "snapshot", "step", "cancel", "stop"} /\ (m.t # "enable" => m.sid \in Sids)
  BY DEF ShardMsg

(* A snapshot and each further step of it serialize a chunk.               *)
LEMMA SnapshotSerializes ==
    ASSUME TypeInv, NEW s \in Shards, NEW i \in Sids,
           Serialize(s, i, [keys |-> Listing(Present(s)), from |-> Lsn(s)])
    PROVE  /\ snaps' \in [Shards -> [Sids -> Snap]] /\ SnapInv'
           /\ frames' \in [Shards -> Seq([sid : Sids, items : Seq(Entry), done : BOOLEAN])]
           /\ \E f \in [sid : {i}, items : Seq(Entry), done : BOOLEAN] :
                 frames' = [frames EXCEPT ![s] = <<f>> \o @]
<1>1. Listing(Present(s)) \in Seq(Keys)
  <2>1. Present(s) \subseteq Keys /\ IsFiniteSet(Present(s))
    BY Zenon, ReplicationAssumption, FS_Subset DEF Present
  <2>2. Cardinality(Present(s)) \in Nat /\ Listing(Present(s)) \in [1 .. Cardinality(Present(s)) -> Keys]
    <3>1. /\ Cardinality(Present(s)) \in Nat
          /\ Listing(Present(s)) \in [1 .. Cardinality(Present(s)) -> Present(s)]
      BY Zenon, <2>1, ListingFacts
    <3>. QED
      BY <2>1, <3>1
  <2>. QED
    BY Zenon, <2>2, SeqOf
<1>2. Lsn(s) \in Nat \ {0}
  BY Zenon, LsnType DEF TypeInv
<1>3. [keys |-> Listing(Present(s)), from |-> Lsn(s)] \in Snap
  BY <1>1, <1>2 DEF Snap
<1>4. [keys |-> Listing(Present(s)), from |-> Lsn(s)].from # 0
  BY <1>2
<1>. QED
  BY Zenon, <1>3, <1>4, SerializeType

LEMMA StepSerializes ==
    ASSUME TypeInv, NEW s \in Shards, NEW i \in Sids, snaps[s][i] # NoSnap,
           Serialize(s, i, snaps[s][i])
    PROVE  /\ snaps' \in [Shards -> [Sids -> Snap]] /\ SnapInv'
           /\ frames' \in [Shards -> Seq([sid : Sids, items : Seq(Entry), done : BOOLEAN])]
           /\ \E f \in [sid : {i}, items : Seq(Entry), done : BOOLEAN] :
                 frames' = [frames EXCEPT ![s] = <<f>> \o @]
<1>1. snaps \in [Shards -> [Sids -> Snap]] /\ SnapInv
  BY Zenon DEF TypeInv, TypeOK, Snap
<1>2. snaps[s][i] \in Snap /\ snaps[s][i].from # 0
  BY Zenon, <1>1 DEF SnapInv
<1>. QED
  BY Zenon, <1>2, SerializeType

LEMMA HandleMsgType ==
    ASSUME TypeInv, NEW s \in Shards, HandleMsg(s)
    PROVE  TypeInv'
<1> DEFINE m == Head(shardQ[s])
<1>1. /\ shardQ[s] \in Seq(ShardMsg) /\ shardQ[s] # <<>>
      /\ shardQ' = [shardQ EXCEPT ![s] = Tail(shardQ[s])]
      /\ shardQ \in [Shards -> Seq(ShardMsg)]
      /\ UNCHANGED <<store, log, hist, chan, sess, stableNext, writes, losses, replicaVars, lost>>
  BY Zenon DEF HandleMsg, TypeInv, TypeOK
<1>2. m \in ShardMsg /\ Tail(shardQ[s]) \in Seq(ShardMsg)
  BY Zenon, <1>1, TailFacts
<1>3. m.t # "enable" => m.sid \in Sids
  BY Zenon, <1>2, MsgFields
<1>4. shardQ' \in [Shards -> Seq(ShardMsg)]
  BY <1>1, <1>2
<1> SUFFICES /\ journalOn' \in [Shards -> BOOLEAN]
             /\ snaps' \in [Shards -> [Sids -> Snap]] /\ SnapInv'
             /\ frames' \in [Shards -> Seq([sid : Sids, items : Seq(Entry), done : BOOLEAN])]
             /\ consumers' \in [Shards -> SUBSET Sids]
  BY Zenon, <1>1, <1>4 DEF TypeInv, TypeOK, CurInv, replicaVars, flowVars, Snap
<1>5. /\ journalOn \in [Shards -> BOOLEAN]
      /\ snaps \in [Shards -> [Sids -> Snap]] /\ SnapInv
      /\ frames \in [Shards -> Seq([sid : Sids, items : Seq(Entry), done : BOOLEAN])]
      /\ consumers \in [Shards -> SUBSET Sids]
  BY Zenon DEF TypeInv, TypeOK, Snap
<1>6. CASE /\ journalOn' = [journalOn EXCEPT ![s] = TRUE]
           /\ UNCHANGED <<snaps, frames, consumers>>
  <2>1. journalOn' \in [Shards -> BOOLEAN]
    BY <1>5, <1>6
  <2>. QED
    BY Zenon, <1>5, <1>6, <2>1 DEF SnapInv
<1>7. CASE /\ m.t = "snapshot" /\ UNCHANGED <<journalOn, consumers>>
           /\ Serialize(s, m.sid, [keys |-> Listing(Present(s)), from |-> Lsn(s)])
  BY Zenon, <1>3, <1>5, <1>7, SnapshotSerializes
<1>8. CASE /\ m.t = "step" /\ snaps[s][m.sid] # NoSnap /\ UNCHANGED <<journalOn, consumers>>
           /\ Serialize(s, m.sid, snaps[s][m.sid])
  BY Zenon, <1>3, <1>5, <1>8, StepSerializes
<1>9. CASE /\ m.t = "cancel" /\ snaps' = [snaps EXCEPT ![s][m.sid] = NoSnap]
           /\ UNCHANGED <<journalOn, frames, consumers>>
  <2>1. NoSnap \in Snap
    BY DEF NoSnap, Snap
  <2>. QED
    BY Zenon, <1>3, <1>5, <1>9, <2>1, SnapUpdate
<1>10. CASE /\ consumers' = [consumers EXCEPT ![s] = consumers[s] \ {m.sid}]
            /\ UNCHANGED <<journalOn, snaps, frames>>
  <2>1. consumers' \in [Shards -> SUBSET Sids]
    BY <1>5, <1>10
  <2>. QED
    BY Zenon, <1>5, <1>10, <2>1 DEF SnapInv
<1>11. CASE UNCHANGED <<journalOn, snaps, frames, consumers>>
  BY Zenon, <1>5, <1>11 DEF SnapInv
<1>. QED
  BY Zenon, <1>6, <1>7, <1>8, <1>9, <1>10, <1>11 DEF HandleMsg

(* The items of a chunk: entries, records, and the tail if it is the last. *)
ShipItems(s, f, snap) ==
    f.items \o Blobs(s, f, snap)
        \o (IF f.done /\ snap # NoSnap THEN <<[t |-> "tail", cut |-> Lsn(s)]>> ELSE <<>>)

LEMMA ShipItemsType ==
    ASSUME TypeInv, NEW s \in Shards, NEW f \in [sid : Sids, items : Seq(Entry), done : BOOLEAN],
           NEW snap \in Snap, snap = NoSnap \/ snap.from # 0
    PROVE  /\ ShipItems(s, f, snap) \in Seq(Item)
           /\ Loads(ShipItems(s, f, snap), IF f.done /\ snap # NoSnap THEN Lsn(s) ELSE 0, Lsn(s))
           /\ HasTail(ShipItems(s, f, snap)) <=> f.done /\ snap # NoSnap
<1> DEFINE b == Blobs(s, f, snap)
           last == f.done /\ snap # NoSnap
           z == IF last THEN <<[t |-> "tail", cut |-> Lsn(s)]>> ELSE <<>>
           es == f.items
<1>1. es \in Seq(Item) /\ \A n \in DOMAIN es : es[n].t = "entry"
  <2>1. es \in Seq(Entry)
    OBVIOUS
  <2>2. Entry \subseteq Item /\ \A x \in Entry : x.t = "entry"
    BY DEF Item, Entry
  <2> HIDE DEF es
  <2>. QED
    BY <2>1, <2>2
<1>2. b \in Seq(Item) /\ \A n \in DOMAIN b : b[n].t = "rec"
  <2>1. CASE snap = NoSnap
    BY <2>1 DEF Blobs
  <2>2. CASE snap # NoSnap
    <3>1. snap.from \in Nat \ {0}
      BY <2>2 DEF Snap
    <3>2. b = Records(s, snap.from)
      BY Zenon, <2>2 DEF Blobs
    <3>3. /\ Records(s, snap.from) \in Seq(Item)
          /\ \A n \in DOMAIN Records(s, snap.from) : Records(s, snap.from)[n].t = "rec"
      <4>1. TypeOK
        BY Zenon DEF TypeInv
      <4>. QED
        BY <3>1, <4>1, RecordsType
    <3> HIDE DEF b
    <3>. QED
      BY <3>2, <3>3
  <2>. QED
    BY Zenon, <2>1, <2>2
<1>3. Lsn(s) \in Nat \ {0}
  BY Zenon, LsnType DEF TypeInv
<1>4. [t |-> "tail", cut |-> Lsn(s)] \in Item
  BY <1>3 DEF Item
<1>5. /\ z \in Seq(Item) /\ Len(z) <= 1 /\ DOMAIN z = 1 .. Len(z) /\ Len(z) \in Nat
      /\ \A n \in DOMAIN z : z[n].t = "tail" /\ z[n].cut = Lsn(s) /\ last
  <2>1. CASE last
    <3>1. z = <<[t |-> "tail", cut |-> Lsn(s)]>>
      BY Zenon, <2>1
    <3> HIDE DEF z, last
    <3>. QED
      BY <1>4, <2>1, <3>1
  <2>2. CASE ~last
    <3>1. z = <<>>
      BY Zenon, <2>2
    <3> HIDE DEF z, last
    <3>. QED
      BY <3>1
  <2>. QED
    BY Zenon, <2>1, <2>2
<1>6. ShipItems(s, f, snap) = (es \o b) \o z
  BY Zenon DEF ShipItems
<1> HIDE DEF b, z, es, last
<1>7. ShipItems(s, f, snap) \in Seq(Item)
  BY <1>1, <1>2, <1>5, <1>6
<1>8. ASSUME NEW n \in DOMAIN ShipItems(s, f, snap)
      PROVE  \/ ShipItems(s, f, snap)[n].t \in {"entry", "rec"}
             \/ /\ ShipItems(s, f, snap)[n].t = "tail" /\ ShipItems(s, f, snap)[n].cut = Lsn(s)
                /\ last /\ n = Len(ShipItems(s, f, snap))
  <2>1. /\ es \o b \in Seq(Item) /\ Len(es \o b) = Len(es) + Len(b)
        /\ Len(es) \in Nat /\ Len(b) \in Nat /\ DOMAIN es = 1 .. Len(es) /\ DOMAIN b = 1 .. Len(b)
        /\ \A i \in 1 .. Len(es) : (es \o b)[i] = es[i]
        /\ \A i \in 1 .. Len(b) : (es \o b)[Len(es) + i] = b[i]
    BY <1>1, <1>2, ConcatFacts
  <2>2. \A i \in 1 .. Len(es \o b) : (es \o b)[i].t \in {"entry", "rec"}
    <3> SUFFICES ASSUME NEW i \in 1 .. Len(es \o b) PROVE (es \o b)[i].t \in {"entry", "rec"}
      OBVIOUS
    <3>1. i \in 1 .. Len(es) \/ (i - Len(es) \in 1 .. Len(b) /\ Len(es) + (i - Len(es)) = i)
      BY <2>1
    <3>2. CASE i \in 1 .. Len(es)
      BY Zenon, <1>1, <2>1, <3>2
    <3>3. CASE i - Len(es) \in 1 .. Len(b) /\ Len(es) + (i - Len(es)) = i
      <4>1. i - Len(es) \in DOMAIN b /\ (es \o b)[i] = b[i - Len(es)]
        BY <2>1, <3>3
      <4>. QED
        BY Zenon, <1>2, <4>1
    <3>. QED
      BY Zenon, <3>1, <3>2, <3>3
  <2>3. /\ Len(ShipItems(s, f, snap)) = Len(es \o b) + Len(z)
        /\ DOMAIN ShipItems(s, f, snap) = 1 .. Len(es \o b) + Len(z)
        /\ \A i \in 1 .. Len(es \o b) : ShipItems(s, f, snap)[i] = (es \o b)[i]
        /\ \A i \in 1 .. Len(z) : ShipItems(s, f, snap)[Len(es \o b) + i] = z[i]
    BY <1>5, <1>6, <2>1, ConcatFacts
  <2>4. n \in 1 .. Len(es \o b) \/ (n = Len(es \o b) + 1 /\ Len(z) = 1 /\ 1 \in 1 .. Len(z))
    BY <1>5, <2>1, <2>3
  <2>. QED
    BY <1>5, <2>2, <2>3, <2>4
<1>9. Loads(ShipItems(s, f, snap), IF f.done /\ snap # NoSnap THEN Lsn(s) ELSE 0, Lsn(s))
  BY <1>3, <1>7, <1>8 DEF Loads, last
<1>10. HasTail(ShipItems(s, f, snap)) => last
  BY <1>8 DEF HasTail
<1>11. last => HasTail(ShipItems(s, f, snap))
  <2>1. last => z = <<[t |-> "tail", cut |-> Lsn(s)]>>
    BY Zenon DEF z
  <2>2. es \o b \in Seq(Item)
    BY <1>1, <1>2, ConcatFacts
  <2>3. last => Len(z) = 1 /\ z[1].t = "tail"
    BY <2>1
  <2> DEFINE eb == es \o b
  <2>4. eb \in Seq(Item) /\ ShipItems(s, f, snap) = eb \o z
    BY Zenon, <1>6, <2>2
  <2> HIDE DEF eb
  <2>5. /\ DOMAIN (eb \o z) = 1 .. Len(eb) + Len(z)
        /\ \A i \in 1 .. Len(z) : (eb \o z)[Len(eb) + i] = z[i]
        /\ Len(eb) \in Nat
    BY <1>5, <2>4, ConcatFacts
  <2>6. last => Len(eb) + 1 \in DOMAIN (eb \o z) /\ (eb \o z)[Len(eb) + 1].t = "tail"
    <3> SUFFICES ASSUME last PROVE Len(eb) + 1 \in DOMAIN (eb \o z) /\ (eb \o z)[Len(eb) + 1].t = "tail"
      OBVIOUS
    <3>1. Len(z) = 1 /\ Len(eb) \in Nat
      BY Zenon, <2>3, <2>5
    <3>2. 1 \in 1 .. Len(z) /\ Len(eb) + 1 \in 1 .. Len(eb) + Len(z)
      BY <3>1
    <3>. QED
      BY Zenon, <2>3, <2>5, <3>2
  <2>. QED
    BY Zenon, <2>4, <2>6 DEF HasTail
<1>. QED
  BY Zenon, <1>7, <1>9, <1>10, <1>11 DEF last

(* The chunk that goes to the channel.                                     *)
ShipChunk(s) ==
    LET f == Head(frames[s])
        snap == snaps[s][f.sid]
    IN  [sid |-> f.sid, full |-> TRUE, items |-> ShipItems(s, f, snap),
         cut |-> IF f.done /\ snap # NoSnap THEN Lsn(s) ELSE 0]

TopFrame(s) == Head(frames[s])

LEMMA ShipFacts ==
    ASSUME TypeInv, NEW s \in Shards, Ship(s)
    PROVE  /\ frames[s] # <<>> /\ TopFrame(s) \in Frame /\ TopFrame(s).sid \in Sids
           /\ frames' = [frames EXCEPT ![s] = Tail(frames[s])]
           /\ ShipChunk(s) \in Chunk /\ ShipChunk(s).sid = TopFrame(s).sid /\ ShipChunk(s).full = TRUE
           /\ ShipChunk(s) \in Loadable(Lsn(s))
           /\ chan' \in {chan, [chan EXCEPT ![s] = Append(chan[s], ShipChunk(s))]}
           /\ \E x \in Snap : /\ snaps' = [snaps EXCEPT ![s][TopFrame(s).sid] = x]
                              /\ x = NoSnap \/ x.from # 0
                              /\ snaps[s][TopFrame(s).sid] = NoSnap => x = NoSnap
<1> DEFINE f == TopFrame(s)
           snap == snaps[s][f.sid]
           x == IF snap = NoSnap \/ f.done THEN NoSnap ELSE [snap EXCEPT !.from = Lsn(s)]
           last == f.done /\ snap # NoSnap
<1>1. /\ frames[s] # <<>> /\ frames[s] \in Seq(Frame)
      /\ frames' = [frames EXCEPT ![s] = Tail(frames[s])]
      /\ snaps' = [snaps EXCEPT ![s][f.sid] = x]
      /\ chan' \in {chan, [chan EXCEPT ![s] = Append(chan[s], ShipChunk(s))]}
      /\ snaps \in [Shards -> [Sids -> Snap]] /\ SnapInv
  <2>1. chan \in [Shards -> Seq(Chunk)]
    BY Zenon DEF TypeInv, TypeOK
  <2>2. [chan EXCEPT ![s] = chan[s]] = chan
    BY <2>1
  <2>. QED
    BY Zenon, <2>2 DEF Ship, ShipItems, ShipChunk, TopFrame, TypeInv, TypeOK, Snap, Frame
<1>2. f \in Frame
  BY Zenon, <1>1, TailFacts DEF TopFrame
<1>3. f.sid \in Sids /\ snap \in Snap /\ (snap = NoSnap \/ snap.from # 0)
  <2>1. f.sid \in Sids
    BY <1>2 DEF Frame
  <2>2. snap \in Snap
    BY <1>1, <2>1
  <2>3. snap = NoSnap \/ snap.from # 0
    BY Zenon, <1>1, <2>1 DEF SnapInv
  <2>. QED
    BY Zenon, <2>1, <2>2, <2>3
<1>4. Lsn(s) \in Nat \ {0}
  BY Zenon, LsnType DEF TypeInv
<1>5. x \in Snap /\ (x = NoSnap \/ x.from # 0) /\ (snap = NoSnap => x = NoSnap)
  BY <1>3, <1>4 DEF Snap, NoSnap
<1>6. /\ ShipItems(s, f, snap) \in Seq(Item)
      /\ Loads(ShipItems(s, f, snap), IF last THEN Lsn(s) ELSE 0, Lsn(s))
      /\ HasTail(ShipItems(s, f, snap)) <=> last
  <2>1. f \in [sid : Sids, items : Seq(Entry), done : BOOLEAN]
    BY Zenon, <1>2 DEF Frame
  <2>. QED
    BY Zenon, <1>3, <2>1, ShipItemsType
<1>7. /\ ShipChunk(s) = [sid |-> f.sid, full |-> TRUE, items |-> ShipItems(s, f, snap),
                         cut |-> IF last THEN Lsn(s) ELSE 0]
  BY Zenon DEF ShipChunk, TopFrame
<1> HIDE DEF snap, x, last
<1>8. /\ ShipChunk(s) \in Chunk /\ ShipChunk(s).sid = f.sid /\ ShipChunk(s).full = TRUE
      /\ ShipChunk(s).items = ShipItems(s, f, snap)
      /\ ShipChunk(s).cut = IF last THEN Lsn(s) ELSE 0
  BY <1>3, <1>4, <1>6, <1>7 DEF Chunk
<1>9. ShipChunk(s) \in Loadable(Lsn(s))
  <2>1. (IF last THEN Lsn(s) ELSE 0) # 0 <=> last
    BY <1>4
  <2>. QED
    BY Zenon, <1>6, <1>8, <2>1 DEF Loadable
<1>. QED
  BY Zenon, <1>1, <1>2, <1>3, <1>5, <1>8, <1>9 DEF snap

LEMMA ShipType ==
    ASSUME TypeInv, NEW s \in Shards, Ship(s)
    PROVE  TypeInv'
<1> DEFINE f == TopFrame(s)
<1>1. /\ frames[s] \in Seq(Frame) /\ frames \in [Shards -> Seq(Frame)]
      /\ chan \in [Shards -> Seq(Chunk)]
      /\ UNCHANGED <<store, journalOn, log, hist, consumers, shardQ, sess, stableNext,
                     writes, losses, replicaVars, lost>>
  BY Zenon DEF Ship, TypeInv, TypeOK, Frame
<1>2. /\ frames[s] # <<>> /\ f.sid \in Sids /\ ShipChunk(s) \in Chunk
      /\ frames' = [frames EXCEPT ![s] = Tail(frames[s])]
      /\ chan' \in {chan, [chan EXCEPT ![s] = Append(chan[s], ShipChunk(s))]}
      /\ \E x \in Snap : /\ snaps' = [snaps EXCEPT ![s][f.sid] = x]
                         /\ x = NoSnap \/ x.from # 0
                         /\ snaps[s][f.sid] = NoSnap => x = NoSnap
  BY Zenon, ShipFacts
<1>3. frames' \in [Shards -> Seq(Frame)]
  <2>1. Tail(frames[s]) \in Seq(Frame)
    BY Zenon, <1>1, <1>2, TailFacts
  <2>. QED
    BY <1>1, <1>2, <2>1
<1>4. chan' \in [Shards -> Seq(Chunk)]
  <2>1. [chan EXCEPT ![s] = Append(chan[s], ShipChunk(s))] \in [Shards -> Seq(Chunk)]
    BY <1>1, <1>2
  <2>. QED
    BY Zenon, <1>1, <1>2, <2>1
<1>5. snaps' \in [Shards -> [Sids -> Snap]] /\ SnapInv'
  <2> HIDE DEF f
  <2>. QED
    BY Zenon, <1>2, SnapUpdate
<1>. QED
  BY Zenon, <1>1, <1>3, <1>4, <1>5 DEF TypeInv, TypeOK, CurInv, replicaVars, flowVars, Snap, Frame

Session == [state : {"none", "preparation", "full", "stable"},
            partial : SUBSET Shards, start : [Shards -> Nat]]

LEMMA SendType ==
    ASSUME NEW q \in [Shards -> Seq(ShardMsg)], NEW m \in ShardMsg
    PROVE  Send(q, m) \in [Shards -> Seq(ShardMsg)]
<1>1. \A s \in Shards : Append(q[s], m) \in Seq(ShardMsg)
  BY AppendFacts
<1>. QED
  BY Zenon, <1>1 DEF Send

LEMMA MsgTypes ==
    /\ [t |-> "enable"] \in ShardMsg
    /\ \A i \in Sids, t \in {"snapshot", "step", "cancel", "stop"} : [t |-> t, sid |-> i] \in ShardMsg
  BY DEF ShardMsg

LEMMA DflyFlowType ==
    ASSUME TypeInv, NEW s \in Shards, DflyFlow(s)
    PROVE  TypeInv'
<1> DEFINE x == [sess[cur] EXCEPT !.partial = sess[cur].partial \cup {s}, !.start[s] = next[s]]
<1>1. /\ shardQ' = [shardQ EXCEPT ![s] = Append(shardQ[s], [t |-> "enable"])]
      /\ sess' \in {sess, [sess EXCEPT ![cur] = x]}
      /\ fpc' \in {[fpc EXCEPT ![s] = "token"], [fpc EXCEPT ![s] = "load"]}
      /\ UNCHANGED <<shardVars, chan, stableNext, writes, losses, cur, up, down, rpc,
                     next, held, late, cell, rstore, lost>>
      /\ shardQ \in [Shards -> Seq(ShardMsg)] /\ sess \in [Sids -> Session]
      /\ fpc \in [Shards -> {"off", "hello", "load", "token", "stable"}] /\ next[s] \in Nat
  <2>1. sess' \in {sess, [sess EXCEPT ![cur] = x]}
    BY Zenon DEF DflyFlow
  <2>2. fpc' \in {[fpc EXCEPT ![s] = "token"], [fpc EXCEPT ![s] = "load"]}
    BY DEF DflyFlow
  <2>. QED
    BY Zenon, <2>1, <2>2 DEF DflyFlow, TypeInv, TypeOK, Session
<1>2. cur \in Sids
  BY Zenon, CurSid DEF DflyFlow
<1>3. [sess EXCEPT ![cur] = x] \in [Sids -> Session]
  <2>1. sess[cur] \in Session
    BY Zenon, <1>1, <1>2
  <2>2. x \in Session
    BY <1>1, <2>1 DEF Session
  <2>. QED
    BY Zenon, <1>1, <1>2, <2>2, UpdateType
<1> HIDE DEF x
<1>4. shardQ' \in [Shards -> Seq(ShardMsg)]
  BY <1>1, MsgTypes
<1>5. fpc' \in [Shards -> {"off", "hello", "load", "token", "stable"}]
  BY <1>1
<1>6. sess' \in [Sids -> Session]
  BY Zenon, <1>1, <1>3
<1>. QED
  BY Zenon, <1>1, <1>4, <1>5, <1>6
     DEF TypeInv, TypeOK, SnapInv, CurInv, shardVars, Session

LEMMA DflySyncType == TypeInv /\ DflySync => TypeInv'
<1> SUFFICES ASSUME TypeInv, DflySync PROVE TypeInv'
  OBVIOUS
<1>1. cur \in Sids
  BY Zenon, CurSid DEF DflySync
<1>2. sess' \in [Sids -> Session]
  <2>1. sess \in [Sids -> Session] /\ sess' = [sess EXCEPT ![cur].state = "full"]
    BY Zenon DEF TypeInv, TypeOK, Session, DflySync
  <2>. QED
    BY <1>1, <2>1 DEF Session
<1>3. shardQ' \in [Shards -> Seq(ShardMsg)]
  BY Zenon, <1>1, SendType, MsgTypes DEF DflySync, TypeInv, TypeOK
<1>. QED
  BY Zenon, <1>2, <1>3 DEF DflySync, TypeInv, TypeOK, SnapInv, CurInv, shardVars, replicaVars, flowVars, Session

LEMMA DrainReplType ==
    ASSUME TypeInv, NEW s \in Shards, DrainRepl(s)
    PROVE  TypeInv'
<1> DEFINE c == Head(chan[s])
<1>1. /\ chan[s] # <<>> /\ chan[s] \in Seq(Chunk) /\ chan \in [Shards -> Seq(Chunk)]
      /\ chan' = [chan EXCEPT ![s] = Tail(chan[s])]
      /\ shardQ \in [Shards -> Seq(ShardMsg)] /\ sess \in [Sids -> Session]
      /\ down \in [Shards -> Seq(Item)]
      /\ UNCHANGED <<shardVars, stableNext, writes, losses, cur, up, rpc, flowVars, lost>>
  BY Zenon DEF DrainRepl, TypeInv, TypeOK, Session
<1>2. /\ shardQ' \in {shardQ, [shardQ EXCEPT ![s] = Append(shardQ[s], [t |-> "cancel", sid |-> c.sid])],
                      [shardQ EXCEPT ![s] = Append(shardQ[s], [t |-> "step", sid |-> c.sid])]}
      /\ sess' \in {sess, [sess EXCEPT ![c.sid].start[s] = c.cut]}
      /\ down' \in {down, [down EXCEPT ![s] = down[s] \o c.items]}
  <2>1. [shardQ EXCEPT ![s] = shardQ[s]] = shardQ
    BY <1>1
  <2>. QED
    BY Zenon, <2>1 DEF DrainRepl
<1>3. c \in Chunk /\ Tail(chan[s]) \in Seq(Chunk)
  BY Zenon, <1>1, TailFacts
<1> HIDE DEF c
<1>4. c.sid \in Sids /\ c.cut \in Nat /\ c.items \in Seq(Item)
  BY <1>3 DEF Chunk
<1>5. chan' \in [Shards -> Seq(Chunk)]
  BY <1>1, <1>3
<1>6. shardQ' \in [Shards -> Seq(ShardMsg)]
  <2>1. [t |-> "cancel", sid |-> c.sid] \in ShardMsg /\ [t |-> "step", sid |-> c.sid] \in ShardMsg
    BY Zenon, <1>4, MsgTypes
  <2>2. \A m \in ShardMsg : [shardQ EXCEPT ![s] = Append(shardQ[s], m)] \in [Shards -> Seq(ShardMsg)]
    BY <1>1
  <2>. QED
    BY Zenon, <1>1, <1>2, <2>1, <2>2
<1>7. sess' \in [Sids -> Session]
  <2>1. [sess EXCEPT ![c.sid].start[s] = c.cut] \in [Sids -> Session]
    BY <1>1, <1>4 DEF Session
  <2>. QED
    BY Zenon, <1>1, <1>2, <2>1
<1>8. down' \in [Shards -> Seq(Item)]
  <2>1. [down EXCEPT ![s] = down[s] \o c.items] \in [Shards -> Seq(Item)]
    BY <1>1, <1>4
  <2>. QED
    BY Zenon, <1>1, <1>2, <2>1
<1>. QED
  BY Zenon, <1>1, <1>5, <1>6, <1>7, <1>8
     DEF TypeInv, TypeOK, SnapInv, CurInv, shardVars, flowVars, Session

LEMMA DflyStartStableType == TypeInv /\ DflyStartStable => TypeInv'
<1> SUFFICES ASSUME TypeInv, DflyStartStable PROVE TypeInv'
  OBVIOUS
<1>1. stableNext' \in 0 .. NumShards
  BY ReplicationAssumption DEF DflyStartStable
<1>2. cur # 0
  BY Zenon DEF DflyStartStable, TypeInv, CurInv
<1>. QED
  BY Zenon, <1>1, <1>2
     DEF DflyStartStable, TypeInv, TypeOK, SnapInv, CurInv, shardVars, replicaVars, flowVars

LEMMA StoredLsnType ==
    ASSUME TypeOK, NEW s \in Shards, NEW item \in Item
    PROVE  StoredLsn(s, item) \in Nat
<1>1. next[s] \in Nat /\ (item.t = "tail" => item.cut \in Nat)
  BY DEF TypeOK, Item, Entry
<1>. QED
  BY <1>1 DEF StoredLsn

Late == [item : Item, lsn : Nat]

(* The replica's state once the control thread gives the session up.       *)
LEMMA GiveUpType ==
    ASSUME TypeInv, GiveUp
    PROVE  /\ rpc' = "idle" /\ up' = FALSE /\ lost' \subseteq Sids
           /\ down' \in [Shards -> Seq(Item)] /\ held' \in [Shards -> Seq(Item)]
           /\ fpc' \in [Shards -> {"off", "hello", "load", "token", "stable"}]
           /\ late' \in [Shards -> Seq(Late)]
<1>1. (up => cur \in Sids) /\ lost \subseteq Sids
  BY Zenon, CurSid DEF TypeInv, TypeOK
<1>2. lost' \subseteq Sids
  BY Zenon, <1>1 DEF GiveUp
<1>3. <<>> \in Seq(Item)
  OBVIOUS
<1>4. /\ down' \in [Shards -> Seq(Item)] /\ held' \in [Shards -> Seq(Item)]
      /\ fpc' \in [Shards -> {"off", "hello", "load", "token", "stable"}]
  BY <1>3 DEF GiveUp
<1>5. ASSUME NEW s \in Shards, held[s] # <<>>
      PROVE  Append(late[s], [item |-> held[s][1], lsn |-> StoredLsn(s, held[s][1])]) \in Seq(Late)
  <2>1. held[s] \in Seq(Item) /\ late[s] \in Seq(Late) /\ TypeOK
    BY Zenon DEF TypeInv, TypeOK, Late
  <2>2. held[s][1] \in Item
    BY <1>5, <2>1
  <2>3. StoredLsn(s, held[s][1]) \in Nat
    BY Zenon, <2>1, <2>2, StoredLsnType
  <2>4. [item |-> held[s][1], lsn |-> StoredLsn(s, held[s][1])] \in Late
    BY <2>2, <2>3 DEF Late
  <2>. QED
    BY <2>1, <2>4
<1>6. \A s \in Shards : late[s] \in Seq(Late)
  BY Zenon DEF TypeInv, TypeOK, Late
<1>7. late' \in [Shards -> Seq(Late)]
  BY Zenon, <1>5, <1>6 DEF GiveUp
<1>. QED
  BY Zenon, <1>2, <1>4, <1>7 DEF GiveUp

LEMMA StartStableFailsType ==
    ASSUME TypeInv, NEW s \in Shards, StartStableFails(s)
    PROVE  TypeInv'
<1>2. stableNext' = 0 /\ stableNext' \in 0 .. NumShards
  BY ReplicationAssumption DEF StartStableFails
<1>3. CASE GiveUp
  BY Zenon, <1>2, <1>3, GiveUpType
     DEF StartStableFails, TypeInv, TypeOK, SnapInv, CurInv, shardVars, Late
<1>4. CASE ~up /\ UNCHANGED <<rpc, up, lost, down, fpc, held, late>>
  BY Zenon, <1>2, <1>4 DEF StartStableFails, TypeInv, TypeOK, SnapInv, CurInv, shardVars
<1>. QED
  BY Zenon, <1>3, <1>4 DEF StartStableFails

LEMMA StopReplicationType ==
    ASSUME TypeInv, NEW i \in Sids, StopReplication(i)
    PROVE  TypeInv'
<1>1. shardQ' \in [Shards -> Seq(ShardMsg)]
  <2>1. shardQ \in [Shards -> Seq(ShardMsg)]
    BY Zenon DEF TypeInv, TypeOK
  <2>2. Send(shardQ, [t |-> "stop", sid |-> i]) \in [Shards -> Seq(ShardMsg)]
    BY Zenon, <2>1, SendType, MsgTypes
  <2>. QED
    BY Zenon, <2>2, SendType, MsgTypes DEF StopReplication, StopAndCancel
<1>2. NoSession \in Session
  BY DEF NoSession, Session
<1>3. sess' \in [Sids -> Session]
  BY Zenon, <1>2, UpdateType DEF StopReplication, TypeInv, TypeOK, Session
<1>4. lost' \subseteq Sids
  BY Zenon DEF StopReplication, TypeInv, TypeOK
<1>. QED
  BY Zenon, <1>1, <1>3, <1>4
     DEF StopReplication, TypeInv, TypeOK, SnapInv, CurInv, shardVars, replicaVars, flowVars, Session

LEMMA OtherFlowType == TypeInv /\ OtherFlow => TypeInv'
<1> SUFFICES ASSUME TypeInv, OtherFlow PROVE TypeInv'
  OBVIOUS
<1>1. shardQ' \in [Shards -> Seq(ShardMsg)]
  BY Zenon, SendType, MsgTypes DEF OtherFlow, TypeInv, TypeOK
<1>. QED
  BY Zenon, <1>1 DEF OtherFlow, TypeInv, TypeOK, SnapInv, CurInv, shardVars, replicaVars, flowVars

(* What catches the flow up: the records of the ring from `from` on.       *)
CaughtUp(s, from) ==
    [i \in 1 .. Lsn(s) - from |->
        [sid |-> cur, full |-> FALSE, cut |-> 0, items |-> <<Rec(s, from + i - 1)>>]]

LEMMA CaughtUpType ==
    ASSUME TypeOK, NEW s \in Shards, NEW from \in Nat \ {0}, cur \in Sids
    PROVE  CaughtUp(s, from) \in Seq(Chunk) /\ DOMAIN CaughtUp(s, from) = 1 .. Lsn(s) - from
<1>1. Lsn(s) - from \in Int /\ \A i \in 1 .. Lsn(s) - from : from + i - 1 \in 1 .. Len(log[s])
  BY LsnType
<1>2. \A i \in 1 .. Lsn(s) - from : <<Rec(s, from + i - 1)>> \in Seq(Item)
  <2>1. \A x \in Item : <<x>> \in Seq(Item)
    OBVIOUS
  <2>. QED
    BY Zenon, <1>1, <2>1, RecType
<1>3. \A q \in Seq(Item) : [sid |-> cur, full |-> FALSE, cut |-> 0, items |-> q] \in Chunk
  BY DEF Chunk
<1>4. CaughtUp(s, from) \in [1 .. Lsn(s) - from -> Chunk]
  BY Zenon, <1>2, <1>3 DEF CaughtUp
<1>. QED
  BY Zenon, <1>1, <1>4, SeqOfInt

(* A shard streams only from a record that its ring has.                   *)
LEMMA FromLsnType ==
    ASSUME TypeInv, NEW s \in Shards, stableNext = s,
           \A lsn \in FromLsn(s) .. Len(log[s]) : InBuffer(s, lsn)
    PROVE  FromLsn(s) \in Nat \ {0} /\ cur \in Sids
<1>1. cur \in Sids
  <2>1. stableNext # 0
    BY DEF Shards
  <2>. QED
    BY Zenon, <2>1, CurSid
<1>2. sess[cur].start[s] \in Nat
  <2>1. sess \in [Sids -> Session]
    BY Zenon DEF TypeInv, TypeOK, Session
  <2>. QED
    BY <1>1, <2>1 DEF Session
<1>3. Len(log[s]) \in Nat
  BY Zenon, LsnType DEF TypeInv
<1>. QED
  BY <1>1, <1>2, <1>3 DEF FromLsn, InBuffer

LEMMA StartStableSyncType ==
    ASSUME TypeInv, NEW s \in Shards, StartStableSync(s)
    PROVE  TypeInv'
<1> DEFINE up1 == CaughtUp(s, FromLsn(s))
<1>1. FromLsn(s) \in Nat \ {0} /\ cur \in Sids
  BY Zenon, FromLsnType DEF StartStableSync
<1>2. up1 \in Seq(Chunk)
  BY Zenon, <1>1, CaughtUpType DEF TypeInv
<1>3. /\ chan' = [chan EXCEPT ![s] = chan[s] \o up1]
      /\ consumers' = [consumers EXCEPT ![s] = consumers[s] \cup {cur}]
      /\ stableNext = s /\ stableNext' = ShardAfter(s)
      /\ sess' \in {sess, [sess EXCEPT ![cur].state = "stable"]}
      /\ down' \in {down, [i \in Shards |-> Append(down[i], [t |-> "token"])]}
      /\ rpc' \in {"stable", rpc}
      /\ UNCHANGED <<store, journalOn, log, hist, snaps, frames, shardQ, writes, losses, cur, up,
                     flowVars, lost>>
      /\ chan \in [Shards -> Seq(Chunk)] /\ consumers \in [Shards -> SUBSET Sids]
      /\ sess \in [Sids -> Session] /\ down \in [Shards -> Seq(Item)]
  BY Zenon DEF StartStableSync, CaughtUp, TypeInv, TypeOK, Session
<1> HIDE DEF up1
<1>4. chan' \in [Shards -> Seq(Chunk)]
  BY <1>2, <1>3
<1>5. consumers' \in [Shards -> SUBSET Sids]
  BY <1>1, <1>3
<1>6. stableNext' \in 0 .. NumShards
  BY <1>3, ReplicationAssumption DEF ShardAfter, Shards
<1>7. sess' \in [Sids -> Session]
  <2>1. [sess EXCEPT ![cur].state = "stable"] \in [Sids -> Session]
    BY <1>1, <1>3 DEF Session
  <2>. QED
    BY Zenon, <1>3, <2>1
<1>8. down' \in [Shards -> Seq(Item)]
  <2>1. [t |-> "token"] \in Item
    BY DEF Item
  <2>2. [i \in Shards |-> Append(down[i], [t |-> "token"])] \in [Shards -> Seq(Item)]
    BY <1>3, <2>1
  <2>. QED
    BY Zenon, <1>3, <2>2
<1>9. cur # 0
  BY <1>1 DEF Sids
<1>10. rpc' \in {"idle", "flows", "sync", "load", "startstable", "stable"}
  BY Zenon, <1>3 DEF TypeInv, TypeOK
<1>. QED
  BY Zenon, <1>3, <1>4, <1>5, <1>6, <1>7, <1>8, <1>9, <1>10
     DEF TypeInv, TypeOK, SnapInv, CurInv, flowVars, Session

LEMMA ConnectType == TypeInv /\ Connect => TypeInv'
<1> SUFFICES ASSUME TypeInv, Connect PROVE TypeInv'
  OBVIOUS
<1>1. cur' \in Sids /\ cur' # 0 /\ cur' \in 0 .. MaxSessions
  BY ReplicationAssumption DEF Connect, TypeInv, TypeOK, Sids
<1>2. sess' \in [Sids -> Session]
  <2>1. sess \in [Sids -> Session] /\ sess' = [sess EXCEPT ![cur'].state = "preparation"]
    BY Zenon DEF TypeInv, TypeOK, Session, Connect
  <2>. QED
    BY <1>1, <2>1 DEF Session
<1>3. fpc' \in [Shards -> {"off", "hello", "load", "token", "stable"}]
  BY DEF Connect
<1>4. up' \in BOOLEAN /\ next' \in [Shards -> Nat]
      /\ rpc' \in {"idle", "flows", "sync", "load", "startstable", "stable"}
  BY Zenon DEF Connect, TypeInv, TypeOK
<1>5. UNCHANGED <<shardVars, shardQ, chan, stableNext, writes, losses, down, held, late, cell,
                 rstore, lost>>
  BY Zenon DEF Connect
<1>. QED
  BY Zenon, <1>1, <1>2, <1>3, <1>4, <1>5
     DEF TypeInv, TypeOK, SnapInv, CurInv, shardVars, Session

LEMMA FlowsStartedType == TypeInv /\ FlowsStarted => TypeInv'
<1> SUFFICES ASSUME TypeInv, FlowsStarted PROVE TypeInv'
  OBVIOUS
<1> DEFINE Rpcs == {"idle", "flows", "sync", "load", "startstable", "stable"}
<1>1. CASE /\ rpc' \in Rpcs /\ rstore' \in {rstore, [s \in Shards |-> Empty]}
           /\ UNCHANGED <<up, down, fpc, held, late, cell, lost>>
  <2>1. [s \in Shards |-> Empty] \in [Shards -> Store]
    BY DEF Empty, Store
  <2>2. rstore' \in [Shards -> Store]
    BY Zenon, <1>1, <2>1 DEF TypeInv, TypeOK
  <2>. QED
    BY Zenon, <1>1, <2>2 DEF FlowsStarted, TypeInv, TypeOK, SnapInv, CurInv, masterVars, shardVars
<1>2. CASE RetryFull /\ UNCHANGED rstore
  <2>1. cell' \in [Shards -> Nat]
    BY <1>2 DEF RetryFull
  <2>. QED
    BY Zenon, <1>2, <2>1, GiveUpType
       DEF FlowsStarted, RetryFull, TypeInv, TypeOK, SnapInv, CurInv, masterVars, shardVars, Late
<1>. QED
  BY Zenon, <1>1, <1>2 DEF FlowsStarted

LEMMA SyncReplyType == TypeInv /\ (SyncReply \/ LoadDone) => TypeInv'
<1> SUFFICES ASSUME TypeInv, SyncReply \/ LoadDone PROVE TypeInv'
  OBVIOUS
<1>1. rpc' \in {"idle", "flows", "sync", "load", "startstable", "stable"}
  BY Zenon DEF SyncReply, LoadDone
<1>2. UNCHANGED <<masterVars, writes, losses, cur, up, down, flowVars, lost>>
  BY Zenon DEF SyncReply, LoadDone
<1>. QED
  BY Zenon, <1>1, <1>2 DEF TypeInv, TypeOK, SnapInv, CurInv, masterVars, shardVars, flowVars

LEMMA SessionFailsType == TypeInv /\ SessionFails => TypeInv'
  BY Zenon, GiveUpType DEF SessionFails, TypeInv, TypeOK, SnapInv, CurInv, masterVars, shardVars, Late

LEMMA ReceiveType ==
    ASSUME TypeInv, NEW s \in Shards, Receive(s)
    PROVE  TypeInv'
<1>1. /\ down[s] \in Seq(Item) /\ down[s] # <<>>
      /\ held' = [held EXCEPT ![s] = <<Head(down[s])>>]
      /\ down' = [down EXCEPT ![s] = Tail(down[s])]
      /\ held \in [Shards -> Seq(Item)] /\ down \in [Shards -> Seq(Item)]
  BY Zenon DEF Receive, TypeInv, TypeOK
<1>2. held' \in [Shards -> Seq(Item)] /\ down' \in [Shards -> Seq(Item)]
  BY <1>1
<1>. QED
  BY Zenon, <1>2 DEF Receive, TypeInv, TypeOK, SnapInv, CurInv, masterVars, shardVars

LEMMA AppliedType ==
    ASSUME NEW st \in Store, NEW item \in Item
    PROVE  Applied(st, item) \in Store
<1>1. CASE item.t = "entry"
  <2>1. item.key \in Keys /\ item.val \in Nat
    BY <1>1 DEF Item, Entry
  <2>. QED
    BY <1>1, <2>1 DEF Applied, Store
<1>2. CASE item.t = "rec"
  <2>1. item.rec \in Record
    BY <1>2 DEF Item, Entry
  <2>2. After(st, item.rec) \in Store
    BY Zenon, <2>1, AfterType
  <2>. QED
    BY <1>2, <2>2 DEF Applied
<1>3. CASE item.t \notin {"entry", "rec"}
  BY <1>3 DEF Applied
<1>. QED
  BY Zenon, <1>1, <1>2, <1>3

LEMMA PerformType ==
    ASSUME TypeInv, NEW s \in Shards, Perform(s)
    PROVE  TypeInv'
<1> DEFINE item == held[s][1]
           lsn == StoredLsn(s, item)
           Fpcs == {"off", "hello", "load", "token", "stable"}
<1>1. held[s] # <<>> /\ held[s] \in Seq(Item) /\ TypeOK
  BY Zenon DEF Perform, TypeInv, TypeOK
<1>2. item \in Item
  BY <1>1
<1>3. lsn \in Nat
  BY Zenon, <1>1, <1>2, StoredLsnType
<1>4. Applied(rstore[s], item) \in Store
  BY Zenon, <1>1, <1>2, AppliedType DEF TypeOK
<1>5. /\ held' = [held EXCEPT ![s] = <<>>]
      /\ rstore' = [rstore EXCEPT ![s] = Applied(rstore[s], item)]
      /\ next' = [next EXCEPT ![s] = IF lsn = 0 THEN next[s] ELSE lsn]
      /\ cell' = [cell EXCEPT ![s] = IF lsn = 0 THEN cell[s] ELSE lsn]
      /\ UNCHANGED <<masterVars, writes, losses, cur, up, down, rpc, late, lost>>
      /\ held \in [Shards -> Seq(Item)] /\ rstore \in [Shards -> Store]
      /\ next \in [Shards -> Nat] /\ cell \in [Shards -> Nat] /\ fpc \in [Shards -> Fpcs]
  BY Zenon DEF Perform, TypeInv, TypeOK
<1>6. fpc' \in [Shards -> Fpcs]
  <2>1. fpc' = [fpc EXCEPT ![s] = CASE item.t = "tail"  -> "token"
                                    [] item.t = "token" -> "stable"
                                    [] OTHER            -> fpc[s]]
    BY Zenon DEF Perform
  <2>. QED
    BY <1>5, <2>1
<1> HIDE DEF item, lsn
<1>7. held' \in [Shards -> Seq(Item)] /\ rstore' \in [Shards -> Store]
  BY <1>4, <1>5
<1>8. next' \in [Shards -> Nat] /\ cell' \in [Shards -> Nat]
  BY <1>3, <1>5
<1>. QED
  BY Zenon, <1>5, <1>6, <1>7, <1>8 DEF TypeInv, TypeOK, SnapInv, CurInv, masterVars, shardVars

LEMMA PerformLateType ==
    ASSUME TypeInv, NEW s \in Shards, PerformLate(s)
    PROVE  TypeInv'
<1> DEFINE w == Head(late[s])
<1>1. /\ late[s] # <<>> /\ late[s] \in Seq(Late)
      /\ late' = [late EXCEPT ![s] = Tail(late[s])]
      /\ rstore' = [rstore EXCEPT ![s] = Applied(rstore[s], w.item)]
      /\ cell' = [cell EXCEPT ![s] = IF w.lsn = 0 THEN cell[s] ELSE w.lsn]
      /\ late \in [Shards -> Seq(Late)] /\ rstore \in [Shards -> Store] /\ cell \in [Shards -> Nat]
  BY Zenon DEF PerformLate, TypeInv, TypeOK, Late
<1>2. w \in Late /\ Tail(late[s]) \in Seq(Late)
  BY Zenon, <1>1, TailFacts
<1> HIDE DEF w
<1>3. w.item \in Item /\ w.lsn \in Nat
  BY <1>2 DEF Late
<1>4. Applied(rstore[s], w.item) \in Store
  BY Zenon, <1>1, <1>3, AppliedType
<1>5. /\ late' \in [Shards -> Seq(Late)] /\ rstore' \in [Shards -> Store]
      /\ cell' \in [Shards -> Nat]
  BY <1>1, <1>2, <1>3, <1>4
<1>. QED
  BY Zenon, <1>5 DEF PerformLate, TypeInv, TypeOK, SnapInv, CurInv, masterVars, shardVars, Late

LEMMA LoseType == TypeInv /\ Lose => TypeInv'
<1> SUFFICES ASSUME TypeInv, Lose PROVE TypeInv'
  OBVIOUS
<1>1. losses' \in 0 .. MaxLosses
  BY ReplicationAssumption DEF Lose, TypeInv, TypeOK
<1>2. cur \in Sids
  BY Zenon, CurSid DEF Lose
<1>3. down' \in [Shards -> Seq(Item)]
  BY DEF Lose
<1>4. /\ up' = FALSE /\ lost' = lost \cup {cur}
      /\ UNCHANGED <<masterVars, writes, cur, rpc, flowVars>>
  BY Zenon DEF Lose
<1>. QED
  BY Zenon, <1>1, <1>2, <1>3, <1>4
     DEF TypeInv, TypeOK, SnapInv, CurInv, masterVars, shardVars, flowVars

(* The initial values have their types.                                    *)
LEMMA EmptyTypes ==
    /\ Empty \in Store /\ Seed \in Store /\ NoSnap \in Snap /\ NoSession \in Session
    /\ \A S : <<>> \in Seq(S)
    /\ <<Empty>> \in Seq(Store) /\ <<Seed>> \in Seq(Store)
<1>1. Empty \in Store /\ Seed \in Store
  BY DEF Empty, Seed, Store
<1>2. NoSnap \in Snap /\ NoSession \in Session
  BY DEF NoSnap, Snap, NoSession, Session
<1>3. \A S : <<>> \in Seq(S)
  OBVIOUS
<1>4. <<Empty>> \in Seq(Store) /\ <<Seed>> \in Seq(Store)
  BY <1>1
<1>. QED
  BY Zenon, <1>1, <1>2, <1>3, <1>4

LEMMA MasterRestartType == TypeInv /\ MasterRestart => TypeInv'
<1> SUFFICES ASSUME TypeInv, MasterRestart PROVE TypeInv'
  OBVIOUS
<1>1. losses' \in 0 .. MaxLosses /\ stableNext' \in 0 .. NumShards
  BY ReplicationAssumption DEF MasterRestart, TypeInv, TypeOK
<1>2. /\ down' \in [Shards -> Seq(Item)] /\ store' \in [Shards -> Store]
      /\ journalOn' \in [Shards -> BOOLEAN] /\ log' \in [Shards -> Seq(Record)]
      /\ hist' \in [Shards -> Seq(Store)]
      /\ snaps' \in [Shards -> [Sids -> [keys : Seq(Keys), from : Nat]]]
  BY Zenon, EmptyTypes DEF MasterRestart, Snap
<1>3. /\ frames' \in [Shards -> Seq([sid : Sids, items : Seq(Entry), done : BOOLEAN])]
      /\ consumers' \in [Shards -> SUBSET Sids] /\ shardQ' \in [Shards -> Seq(ShardMsg)]
      /\ chan' \in [Shards -> Seq(Chunk)] /\ sess' \in [Sids -> Session]
  BY Zenon, EmptyTypes DEF MasterRestart
<1>4. /\ up' = FALSE /\ stableNext' = 0 /\ lost' = {} /\ SnapInv'
      /\ UNCHANGED <<writes, cur, rpc, flowVars>>
  BY Zenon DEF MasterRestart, SnapInv
<1>. QED
  BY Zenon, <1>1, <1>2, <1>3, <1>4 DEF TypeInv, TypeOK, CurInv, flowVars, Session

LEMMA TypeInit == Init => TypeInv
<1> SUFFICES ASSUME Init PROVE TypeInv
  OBVIOUS
<1>1. /\ stableNext = 0 /\ up = FALSE /\ SnapInv /\ lost \subseteq Sids /\ up \in BOOLEAN
      /\ rpc \in {"idle", "flows", "sync", "load", "startstable", "stable"}
  BY Zenon DEF Init, SnapInv
<1>2. /\ stableNext \in 0 .. NumShards /\ writes \in 0 .. MaxWrites
      /\ losses \in 0 .. MaxLosses /\ cur \in 0 .. MaxSessions
  BY ReplicationAssumption DEF Init
<1>3. /\ down \in [Shards -> Seq(Item)] /\ store \in [Shards -> Store] /\ rstore \in [Shards -> Store]
      /\ journalOn \in [Shards -> BOOLEAN] /\ log \in [Shards -> Seq(Record)]
      /\ hist \in [Shards -> Seq(Store)]
      /\ snaps \in [Shards -> [Sids -> [keys : Seq(Keys), from : Nat]]]
      /\ frames \in [Shards -> Seq([sid : Sids, items : Seq(Entry), done : BOOLEAN])]
  BY Zenon, EmptyTypes DEF Init, Snap
<1>4. /\ consumers \in [Shards -> SUBSET Sids] /\ shardQ \in [Shards -> Seq(ShardMsg)]
      /\ chan \in [Shards -> Seq(Chunk)] /\ sess \in [Sids -> Session]
      /\ held \in [Shards -> Seq(Item)] /\ late \in [Shards -> Seq(Late)]
  BY Zenon, EmptyTypes DEF Init
<1>5. /\ next \in [Shards -> Nat] /\ cell \in [Shards -> Nat]
      /\ fpc \in [Shards -> {"off", "hello", "load", "token", "stable"}]
  BY DEF Init
<1>. QED
  BY Zenon, <1>1, <1>2, <1>3, <1>4, <1>5 DEF TypeInv, TypeOK, CurInv, Session, Late

(* TypeInv is inductive.                                                   *)
LEMMA TypeNext == TypeInv /\ [Next]_vars => TypeInv'
<1> SUFFICES ASSUME TypeInv, [Next]_vars PROVE TypeInv'
  OBVIOUS
<1>1. CASE UNCHANGED vars
  BY Zenon, <1>1
     DEF vars, masterVars, shardVars, replicaVars, flowVars, TypeInv, TypeOK, SnapInv, CurInv
<1>2. CASE \E s \in Shards, k \in Keys, op \in Ops : Write(s, k, op)
  BY Zenon, <1>2, WriteType
<1>3. ASSUME NEW s \in Shards, ShardStep(s) \/ FlowStep(s) \/ PerformLate(s)
      PROVE  TypeInv'
  BY Zenon, <1>3, HandleMsgType, ShipType, ReceiveType, PerformType, PerformLateType
     DEF ShardStep, FlowStep
<1>4. CASE IoStep
  BY Zenon, <1>4, DflyFlowType, DrainReplType, StartStableSyncType, StartStableFailsType,
     DflySyncType, DflyStartStableType, StopReplicationType DEF IoStep
<1>5. CASE ControlStep
  BY Zenon, <1>5, ConnectType, FlowsStartedType, SyncReplyType, SessionFailsType DEF ControlStep
<1>6. CASE OtherFlow \/ Lose \/ MasterRestart
  BY Zenon, <1>6, OtherFlowType, LoseType, MasterRestartType
<1>. QED
  BY Zenon, <1>1, <1>2, <1>3, <1>4, <1>5, <1>6 DEF Next

(* The master's, the sessions' and the replica's state keep their types,   *)
(* whatever is interleaved, lost or restarted.                             *)
THEOREM TypeCorrect == Spec => []TypeOK
<1>1. Spec => []TypeInv
  BY TypeInit, TypeNext, PTL DEF Spec
<1>2. TypeInv => TypeOK
  BY Zenon DEF TypeInv
<1>. QED
  BY <1>1, <1>2, PTL

----------------------------------------------------------------------------
(* Sequences *)

(* Elements, appending, dropping the head and concatenation, for None (no  *)
(* element is in S), AtMostOne and Cleared.                                *)
LEMMA SeqElem ==
    ASSUME NEW T, NEW q \in Seq(T), NEW n \in DOMAIN q
    PROVE  q[n] \in T
  OBVIOUS

LEMMA SeqIn ==
    ASSUME NEW T, NEW q \in Seq(T), NEW S, \A n \in DOMAIN q : q[n] \in S
    PROVE  q \in Seq(S)
  OBVIOUS

LEMMA NoneAppend ==
    ASSUME NEW T, NEW q \in Seq(T), NEW x \in T, NEW S
    PROVE  None(Append(q, x), S) <=> None(q, S) /\ x \notin S
  BY AppendFacts DEF None

LEMMA NoneAppendTwo ==
    ASSUME NEW T, NEW q \in Seq(T), NEW x \in T, NEW y \in T, NEW S
    PROVE  None(Append(Append(q, x), y), S) <=> None(q, S) /\ x \notin S /\ y \notin S
<1> DEFINE r == Append(q, x)
<1>1. r \in Seq(T) /\ (None(r, S) <=> None(q, S) /\ x \notin S)
  BY AppendFacts, NoneAppend
<1> HIDE DEF r
<1>2. None(Append(r, y), S) <=> None(r, S) /\ y \notin S
  BY <1>1, NoneAppend
<1>. QED
  BY Zenon, <1>1, <1>2 DEF r

LEMMA NoneTail ==
    ASSUME NEW T, NEW q \in Seq(T), q # <<>>, NEW S
    PROVE  None(q, S) <=> Head(q) \notin S /\ None(Tail(q), S)
<1>1. CASE None(q, S)
  BY <1>1, TailFacts DEF None
<1>2. CASE Head(q) \notin S /\ None(Tail(q), S)
  <2> SUFFICES ASSUME NEW n \in DOMAIN q PROVE q[n] \notin S
    BY Zenon, <1>2 DEF None
  <2>1. CASE n = 1
    BY <1>2, <2>1, TailFacts
  <2>2. CASE n # 1
    <3>1. n - 1 \in DOMAIN Tail(q) /\ Tail(q)[n - 1] = q[n]
      BY <2>2, TailFacts
    <3>. QED
      BY Zenon, <1>2, <3>1 DEF None
  <2>. QED
    BY Zenon, <2>1, <2>2
<1>. QED
  BY Zenon, <1>1, <1>2

LEMMA NoneConcat ==
    ASSUME NEW T, NEW q \in Seq(T), NEW r \in Seq(T), NEW S
    PROVE  None(q \o r, S) <=> None(q, S) /\ None(r, S)
<1>1. CASE None(q \o r, S)
  <2>1. \A n \in DOMAIN q : n \in DOMAIN (q \o r) /\ (q \o r)[n] = q[n]
    BY ConcatFacts
  <2>2. \A n \in DOMAIN r : Len(q) + n \in DOMAIN (q \o r) /\ (q \o r)[Len(q) + n] = r[n]
    BY ConcatFacts
  <2>. QED
    BY Zenon, <1>1, <2>1, <2>2 DEF None
<1>2. CASE None(q, S) /\ None(r, S)
  <2> SUFFICES ASSUME NEW n \in DOMAIN (q \o r) PROVE (q \o r)[n] \notin S
    BY Zenon, <1>2 DEF None
  <2>1. CASE n <= Len(q)
    BY <1>2, <2>1, ConcatFacts DEF None
  <2>2. CASE ~(n <= Len(q))
    <3>1. n - Len(q) \in DOMAIN r /\ (q \o r)[n] = r[n - Len(q)]
      BY <2>2, ConcatFacts
    <3>. QED
      BY Zenon, <1>2, <3>1 DEF None
  <2>. QED
    BY Zenon, <2>1, <2>2
<1>. QED
  BY Zenon, <1>1, <1>2

LEMMA OneAppend ==
    ASSUME NEW T, NEW q \in Seq(T), NEW x \in T, NEW S,
           None(q, S) \/ (AtMostOne(q, S) /\ x \notin S)
    PROVE  AtMostOne(Append(q, x), S)
  BY AppendFacts DEF None, AtMostOne

LEMMA OneTail ==
    ASSUME NEW T, NEW q \in Seq(T), q # <<>>, NEW S, AtMostOne(q, S)
    PROVE  AtMostOne(Tail(q), S) /\ (Head(q) \in S => None(Tail(q), S))
  BY TailFacts DEF None, AtMostOne

LEMMA ClearedAppend ==
    ASSUME NEW T, NEW q \in Seq(T), NEW x \in T, NEW i,
           x \in Msg("cancel", i) \/ (Cleared(q, i) /\ x \notin Msg("snapshot", i))
    PROVE  Cleared(Append(q, x), i)
<1>1. CASE x \in Msg("cancel", i)
  <2>1. /\ Len(q) + 1 \in DOMAIN Append(q, x) /\ Append(q, x)[Len(q) + 1] \in Msg("cancel", i)
        /\ \A m \in DOMAIN Append(q, x) : ~(m > Len(q) + 1)
    BY <1>1, AppendFacts
  <2>. QED
    BY Zenon, <2>1 DEF Cleared
<1>2. CASE Cleared(q, i) /\ x \notin Msg("snapshot", i)
  <2>1. PICK n \in DOMAIN q : /\ q[n] \in Msg("cancel", i)
                              /\ \A m \in DOMAIN q : m > n => q[m] \notin Msg("snapshot", i)
    BY Zenon, <1>2 DEF Cleared
  <2>2. /\ n \in DOMAIN Append(q, x) /\ Append(q, x)[n] \in Msg("cancel", i)
        /\ \A m \in DOMAIN Append(q, x) : m > n => Append(q, x)[m] \notin Msg("snapshot", i)
    BY <1>2, <2>1, AppendFacts
  <2>. QED
    BY Zenon, <2>2 DEF Cleared
<1>. QED
  BY Zenon, <1>1, <1>2

LEMMA ClearedTail ==
    ASSUME NEW T, NEW q \in Seq(T), q # <<>>, NEW i, Cleared(q, i)
    PROVE  \/ Cleared(Tail(q), i)
           \/ Head(q) \in Msg("cancel", i) /\ None(Tail(q), Msg("snapshot", i))
<1>1. PICK n \in DOMAIN q : /\ q[n] \in Msg("cancel", i)
                            /\ \A m \in DOMAIN q : m > n => q[m] \notin Msg("snapshot", i)
  BY Zenon DEF Cleared
<1>2. CASE n = 1
  <2>1. Head(q) \in Msg("cancel", i)
    BY <1>1, <1>2, TailFacts
  <2>2. \A m \in DOMAIN Tail(q) : Tail(q)[m] \notin Msg("snapshot", i)
    BY <1>1, <1>2, TailFacts
  <2>. QED
    BY Zenon, <2>1, <2>2 DEF None
<1>3. CASE n # 1
  <2>1. /\ n - 1 \in DOMAIN Tail(q) /\ Tail(q)[n - 1] \in Msg("cancel", i)
        /\ \A m \in DOMAIN Tail(q) : m > n - 1 => Tail(q)[m] \notin Msg("snapshot", i)
    BY <1>1, <1>3, TailFacts
  <2>. QED
    BY Zenon, <2>1 DEF Cleared
<1>. QED
  BY Zenon, <1>2, <1>3

----------------------------------------------------------------------------
(* What the IO thread does to the sessions *)

(* Which sessions a step of the IO thread opens, closes or leaves.         *)
LEMMA SessType == TypeInv => sess \in [Sids -> Session]
  BY Zenon DEF TypeInv, TypeOK, Session

LEMMA DflyFlowSess ==
    ASSUME TypeInv, NEW s \in Shards, DflyFlow(s)
    PROVE  /\ \A i \in Sids : sess'[i].state = sess[i].state
           /\ \A t \in Shards \ {s} : sess'[cur].start[t] = sess[cur].start[t]
           /\ journalOn[s] /\ InBuffer(s, next[s]) => sess'[cur].start[s] = next[s]
<1> DEFINE x == [sess[cur] EXCEPT !.partial = sess[cur].partial \cup {s}, !.start[s] = next[s]]
<1>1. cur \in Sids /\ sess \in [Sids -> Session] /\ sess[cur] \in Session
  BY Zenon, CurSid, SessType DEF DflyFlow
<1>2. /\ x.state = sess[cur].state /\ x.start[s] = next[s]
      /\ \A t \in Shards \ {s} : x.start[t] = sess[cur].start[t]
  BY <1>1 DEF Session
<1>3. sess' = IF journalOn[s] /\ InBuffer(s, next[s]) THEN [sess EXCEPT ![cur] = x] ELSE sess
  BY Zenon DEF DflyFlow
<1> HIDE DEF x
<1>. QED
  BY <1>1, <1>2, <1>3

LEMMA DflySyncSess ==
    ASSUME TypeInv, DflySync
    PROVE  /\ cur \in Sids /\ sess[cur].state = "preparation"
           /\ \A i \in Sids : sess'[i].state = IF i = cur THEN "full" ELSE sess[i].state
<1>1. cur \in Sids /\ sess \in [Sids -> Session]
  BY Zenon, CurSid, SessType DEF DflySync
<1>2. sess' = [sess EXCEPT ![cur].state = "full"] /\ sess[cur].state = "preparation"
  BY Zenon DEF DflySync
<1>. QED
  BY <1>1, <1>2 DEF Session

FirstChunk(s) == Head(chan[s])

LEMMA DrainReplSess ==
    ASSUME TypeInv, NEW s \in Shards, DrainRepl(s)
    PROVE  /\ \A i \in Sids : sess'[i].state = sess[i].state
           /\ \A i \in Sids, t \in Shards :
                 (i = FirstChunk(s).sid /\ t = s /\ FirstChunk(s).cut # 0) \/ sess'[i].start[t] = sess[i].start[t]
           /\ sess[FirstChunk(s).sid].state # "none" /\ FirstChunk(s).cut # 0 => sess'[FirstChunk(s).sid].start[s] = FirstChunk(s).cut
<1> DEFINE c == FirstChunk(s)
<1>1. sess \in [Sids -> Session] /\ chan[s] \in Seq(Chunk) /\ chan[s] # <<>>
  BY Zenon, SessType DEF DrainRepl, TypeInv, TypeOK
<1>2. c \in Chunk
  BY Zenon, <1>1, TailFacts DEF FirstChunk
<1>3. c.sid \in Sids /\ c.cut \in Nat
  BY <1>2 DEF Chunk
<1>4. sess' = IF sess[c.sid].state # "none" /\ c.cut # 0
              THEN [sess EXCEPT ![c.sid].start[s] = c.cut] ELSE sess
  BY Zenon DEF DrainRepl, FirstChunk
<1>5. CASE sess[c.sid].state # "none" /\ c.cut # 0
  BY <1>1, <1>3, <1>4, <1>5 DEF Session
<1>6. CASE ~(sess[c.sid].state # "none" /\ c.cut # 0)
  BY Zenon, <1>4, <1>6
<1>. QED
  BY Zenon, <1>5, <1>6

LEMMA StartStableSess ==
    ASSUME TypeInv, NEW s \in Shards, StartStableSync(s)
    PROVE  /\ cur \in Sids
           /\ s = NumShards => \A i \in Sids : sess'[i].state = IF i = cur THEN "stable" ELSE sess[i].state
           /\ s # NumShards => sess' = sess
<1>1. cur \in Sids /\ sess \in [Sids -> Session]
  BY Zenon, FromLsnType, SessType DEF StartStableSync
<1>2. sess' = IF s < NumShards THEN sess ELSE [sess EXCEPT ![cur].state = "stable"]
  BY Zenon DEF StartStableSync
<1>3. s < NumShards <=> s # NumShards
  BY ReplicationAssumption DEF Shards
<1>. QED
  BY <1>1, <1>2, <1>3 DEF Session

LEMMA StopSess ==
    ASSUME TypeInv, NEW i \in Sids, StopReplication(i)
    PROVE  \A j \in Sids : /\ sess'[j].state = IF j = i THEN "none" ELSE sess[j].state
                           /\ j # i => sess'[j] = sess[j]
<1>1. sess \in [Sids -> Session] /\ sess' = [sess EXCEPT ![i] = NoSession]
  BY Zenon, SessType DEF StopReplication
<1>. QED
  BY <1>1 DEF NoSession

LEMMA ConnectSess ==
    ASSUME TypeInv, Connect
    PROVE  /\ cur' \in Sids /\ cur' = cur + 1 /\ cur \in Nat
           /\ \A j \in Sids : sess'[j].state = IF j = cur' THEN "preparation" ELSE sess[j].state
<1>1. cur' \in Sids /\ cur' = cur + 1 /\ cur \in Nat
  BY ReplicationAssumption DEF Connect, TypeInv, TypeOK, Sids
<1>2. sess \in [Sids -> Session] /\ sess' = [sess EXCEPT ![cur'].state = "preparation"]
  BY Zenon, SessType DEF Connect
<1>. QED
  BY <1>1, <1>2 DEF Session

----------------------------------------------------------------------------
(* What there is belongs to sessions that were opened *)

(* No open session is closed, none that was closed is opened again.        *)
Grows ==
    /\ cur <= cur'
    /\ \A i \in Sids : i <= cur /\ sess[i].state = "none" => sess'[i].state = "none"

(* Sequences and functions over a larger set.                              *)
LEMMA SeqMono ==
    ASSUME NEW S, NEW T, S \subseteq T
    PROVE  Seq(S) \subseteq Seq(T)
  OBVIOUS

LEMMA FunMono ==
    ASSUME NEW A, NEW S, NEW T, S \subseteq T
    PROVE  [A -> S] \subseteq [A -> T]
  OBVIOUS

(* What belonged to opened sessions still does, if sessions only grow.     *)
LEMMA SidGrows ==
    ASSUME TypeInv, TypeInv', SidInv, Grows
    PROVE  /\ lost \subseteq 1 .. cur' /\ consumers \in [Shards -> SUBSET (1 .. cur')]
           /\ shardQ \in [Shards -> Seq(KnownMsg')]
           /\ frames \in [Shards -> Seq(KnownFrame')]
           /\ chan \in [Shards -> Seq(KnownChunk')]
<1>1. cur \in Nat /\ cur' \in Nat /\ cur <= cur' /\ \A i \in Sids : i \in Nat
  BY DEF TypeInv, TypeOK, Grows, Sids
<1>2. 1 .. cur \subseteq 1 .. cur' /\ \A i \in Sids : i <= cur => i <= cur'
  BY <1>1
<1>3. KnownMsg \subseteq KnownMsg'
  BY Zenon, <1>2, MsgFields DEF KnownMsg, Grows
<1>4. KnownFrame \subseteq KnownFrame'
  <2>1. \A f \in Frame : f.sid \in Sids
    BY DEF Frame
  <2>. QED
    BY Zenon, <1>2, <2>1 DEF KnownFrame
<1>5. KnownChunk \subseteq KnownChunk'
  <2>1. \A c \in Chunk : c.sid \in Sids
    BY DEF Chunk
  <2>. QED
    BY Zenon, <1>2, <2>1 DEF KnownChunk
<1>6. lost \subseteq 1 .. cur'
  BY Zenon, <1>2 DEF SidInv
<1>7. consumers \in [Shards -> SUBSET (1 .. cur')]
  <2>1. SUBSET (1 .. cur) \subseteq SUBSET (1 .. cur')
    BY Zenon, <1>2
  <2>. QED
    BY Zenon, <2>1, FunMono DEF SidInv
<1>8. shardQ \in [Shards -> Seq(KnownMsg')]
  <2>1. Seq(KnownMsg) \subseteq Seq(KnownMsg')
    BY Zenon, <1>3, SeqMono
  <2>. QED
    BY Zenon, <2>1, FunMono DEF SidInv
<1>9. frames \in [Shards -> Seq(KnownFrame')]
  <2>1. Seq(KnownFrame) \subseteq Seq(KnownFrame')
    BY Zenon, <1>4, SeqMono
  <2>. QED
    BY Zenon, <2>1, FunMono DEF SidInv
<1>10. chan \in [Shards -> Seq(KnownChunk')]
  <2>1. Seq(KnownChunk) \subseteq Seq(KnownChunk')
    BY Zenon, <1>5, SeqMono
  <2>. QED
    BY Zenon, <2>1, FunMono DEF SidInv
<1>. QED
  BY Zenon, <1>6, <1>7, <1>8, <1>9, <1>10

LEMMA GrowsSame == TypeInv /\ UNCHANGED <<cur, sess>> => Grows
  BY DEF TypeInv, TypeOK, Grows

LEMMA SidUnchanged ==
    ASSUME TypeInv, TypeInv', SidInv, Grows, lost' \subseteq 1 .. cur',
           UNCHANGED <<consumers, shardQ, frames, chan>>
    PROVE  SidInv'
  BY Zenon, SidGrows DEF SidInv

(* From here on, one lemma per action that sends or registers: it keeps    *)
(* SidInv.                                                                 *)
LEMMA WriteSid ==
    ASSUME TypeInv, TypeInv', SidInv, NEW s \in Shards, NEW k \in Keys, NEW op \in Ops, Write(s, k, op)
    PROVE  SidInv'
<1> DEFINE r == [op |-> op, key |-> k, val |-> 10 * (writes + 1)]
<1>1. /\ chan' \in {chan, [chan EXCEPT ![s] = chan[s] \o Streamed(s, r)]}
      /\ UNCHANGED <<cur, sess, lost, consumers, shardQ, frames>>
  BY Zenon DEF Write, replicaVars
<1>2. Grows
  BY Zenon, <1>1, GrowsSame
<1>3. r \in Record
  BY ReplicationAssumption DEF TypeInv, TypeOK, Record
<1>4. /\ Streamed(s, r) \in Seq(Chunk)
      /\ DOMAIN Streamed(s, r) = 1 .. Cardinality(consumers[s])
  BY Zenon, <1>3, StreamedType DEF TypeInv
<1>5. IsFiniteSet(consumers[s]) /\ consumers[s] \subseteq 1 .. cur
  <2>1. consumers[s] \subseteq 1 .. cur
    BY Zenon DEF SidInv
  <2>2. IsFiniteSet(1 .. cur)
    BY FS_Interval DEF TypeInv, TypeOK
  <2>. QED
    BY Zenon, <2>1, <2>2, FS_Subset
<1>6. \A n \in DOMAIN Streamed(s, r) : Streamed(s, r)[n].sid \in 1 .. cur
  <2>1. \A n \in 1 .. Cardinality(consumers[s]) : Listing(consumers[s])[n] \in consumers[s]
    BY Zenon, <1>5, ListingFacts
  <2>2. \A n \in DOMAIN Streamed(s, r) : Streamed(s, r)[n].sid = Listing(consumers[s])[n]
    BY Zenon, <1>4 DEF Streamed
  <2>. QED
    BY Zenon, <1>4, <1>5, <2>1, <2>2
<1> HIDE DEF r
<1>7. Streamed(s, r) \in Seq(KnownChunk)
  <2>1. \A n \in DOMAIN Streamed(s, r) : Streamed(s, r)[n] \in Chunk
    BY Zenon, <1>4, SeqElem
  <2>2. \A x \in 1 .. cur : x <= cur
    BY DEF TypeInv, TypeOK
  <2>3. \A n \in DOMAIN Streamed(s, r) : Streamed(s, r)[n] \in KnownChunk
    BY Zenon, <1>6, <2>1, <2>2 DEF KnownChunk
  <2>. QED
    BY Zenon, <1>4, <2>3, SeqIn
<1>8. chan' \in [Shards -> Seq(KnownChunk)]
  <2>1. chan \in [Shards -> Seq(KnownChunk)]
    BY Zenon DEF SidInv
  <2>2. [chan EXCEPT ![s] = chan[s] \o Streamed(s, r)] \in [Shards -> Seq(KnownChunk)]
    BY <1>7, <2>1
  <2>. QED
    BY Zenon, <1>1, <2>1, <2>2
<1>. QED
  BY Zenon, <1>1, <1>8 DEF SidInv, KnownMsg, KnownFrame, KnownChunk

LEMMA HandleMsgSid ==
    ASSUME TypeInv, TypeInv', SidInv, NEW s \in Shards, HandleMsg(s)
    PROVE  SidInv'
<1> DEFINE m == Head(shardQ[s])
<1>1. /\ shardQ[s] \in Seq(KnownMsg) /\ shardQ[s] # <<>>
      /\ shardQ' = [shardQ EXCEPT ![s] = Tail(shardQ[s])]
      /\ shardQ \in [Shards -> Seq(KnownMsg)]
      /\ UNCHANGED <<chan, sess, cur, lost>>
  BY Zenon DEF HandleMsg, SidInv, replicaVars
<1>2. m \in KnownMsg /\ Tail(shardQ[s]) \in Seq(KnownMsg)
  BY Zenon, <1>1, TailFacts
<1>3. shardQ' \in [Shards -> Seq(KnownMsg)]
  BY <1>1, <1>2
<1>4. m.t # "enable" => m.sid \in Sids /\ m.sid <= cur
  BY Zenon, <1>2, MsgFields DEF KnownMsg
<1> SUFFICES /\ frames' \in [Shards -> Seq(KnownFrame)]
             /\ consumers' \in [Shards -> SUBSET (1 .. cur)]
  BY Zenon, <1>1, <1>3 DEF SidInv, KnownMsg, KnownFrame, KnownChunk
<1>5. /\ frames \in [Shards -> Seq(KnownFrame)]
      /\ consumers \in [Shards -> SUBSET (1 .. cur)]
  BY Zenon DEF SidInv
<1>6. CASE UNCHANGED <<frames, consumers>>
  BY Zenon, <1>5, <1>6
<1>7. CASE UNCHANGED frames /\ consumers' = [consumers EXCEPT ![s] = consumers[s] \ {m.sid}]
  BY <1>5, <1>7
<1>8. CASE /\ m.t # "enable" /\ UNCHANGED consumers
           /\ \E f \in [sid : {m.sid}, items : Seq(Entry), done : BOOLEAN] :
                 frames' = [frames EXCEPT ![s] = <<f>> \o frames[s]]
  <2>1. PICK f \in [sid : {m.sid}, items : Seq(Entry), done : BOOLEAN] :
                 frames' = [frames EXCEPT ![s] = <<f>> \o frames[s]]
    BY Zenon, <1>8
  <2>2. f \in KnownFrame
    <3>1. f \in Frame /\ f.sid = m.sid
      BY <1>4, <1>8 DEF Frame
    <3>. QED
      BY Zenon, <1>4, <1>8, <3>1 DEF KnownFrame
  <2>3. <<f>> \o frames[s] \in Seq(KnownFrame)
    BY <1>5, <2>2
  <2>. QED
    BY <1>5, <1>8, <2>1, <2>3
<1>9. CASE m.t = "snapshot" /\ Serialize(s, m.sid, [keys |-> Listing(Present(s)), from |-> Lsn(s)])
           /\ UNCHANGED consumers
  BY Zenon, <1>4, <1>8, <1>9, SnapshotSerializes
<1>10. CASE /\ m.t = "step" /\ snaps[s][m.sid] # NoSnap
            /\ Serialize(s, m.sid, snaps[s][m.sid]) /\ UNCHANGED consumers
  BY Zenon, <1>4, <1>8, <1>10, StepSerializes
<1>. QED
  BY Zenon, <1>6, <1>7, <1>9, <1>10 DEF HandleMsg

(* A message that names an opened session.                                 *)
LEMMA KnownMsgIs ==
    ASSUME TypeInv, NEW i \in Sids, i <= cur,
           NEW t \in {"snapshot", "step", "cancel"}
    PROVE  [t |-> t, sid |-> i] \in KnownMsg
<1>1. [t |-> t, sid |-> i] \in ShardMsg
  BY Zenon, MsgTypes
<1>. QED
  BY <1>1 DEF KnownMsg

LEMMA EnableKnown == [t |-> "enable"] \in KnownMsg
  BY MsgTypes DEF KnownMsg

LEMMA SendIs ==
    ASSUME NEW S, NEW q \in [Shards -> Seq(S)], NEW m \in S
    PROVE  Send(q, m) \in [Shards -> Seq(S)]
<1>1. \A s \in Shards : Append(q[s], m) \in Seq(S)
  BY AppendFacts
<1>. QED
  BY Zenon, <1>1 DEF Send

LEMMA ShipSid ==
    ASSUME TypeInv, TypeInv', SidInv, NEW s \in Shards, Ship(s)
    PROVE  SidInv'
<1>1. /\ frames[s] \in Seq(KnownFrame) /\ frames \in [Shards -> Seq(KnownFrame)]
      /\ chan \in [Shards -> Seq(KnownChunk)]
      /\ UNCHANGED <<cur, sess, lost, consumers, shardQ>>
  BY Zenon DEF Ship, SidInv, replicaVars
<1>2. /\ frames[s] # <<>> /\ frames' = [frames EXCEPT ![s] = Tail(frames[s])]
      /\ ShipChunk(s) \in Chunk /\ ShipChunk(s).sid = TopFrame(s).sid
      /\ chan' \in {chan, [chan EXCEPT ![s] = Append(chan[s], ShipChunk(s))]}
  BY Zenon, ShipFacts
<1>3. TopFrame(s) \in KnownFrame /\ Tail(frames[s]) \in Seq(KnownFrame)
  BY Zenon, <1>1, <1>2, TailFacts DEF TopFrame
<1>4. frames' \in [Shards -> Seq(KnownFrame)]
  BY <1>1, <1>2, <1>3
<1>5. ShipChunk(s) \in KnownChunk
  BY Zenon, <1>2, <1>3 DEF KnownChunk, KnownFrame
<1>6. chan' \in [Shards -> Seq(KnownChunk)]
  <2>1. [chan EXCEPT ![s] = Append(chan[s], ShipChunk(s))] \in [Shards -> Seq(KnownChunk)]
    BY <1>1, <1>5
  <2>. QED
    BY Zenon, <1>1, <1>2, <2>1
<1>. QED
  BY Zenon, <1>1, <1>4, <1>6 DEF SidInv, KnownMsg, KnownFrame, KnownChunk

LEMMA DflyFlowSid ==
    ASSUME TypeInv, TypeInv', SidInv, NEW s \in Shards, DflyFlow(s)
    PROVE  SidInv'
<1>1. Grows
  <2>1. cur' = cur /\ cur \in Nat
    BY DEF DflyFlow, TypeInv, TypeOK
  <2>2. \A i \in Sids : sess'[i].state = sess[i].state
    BY Zenon, DflyFlowSess
  <2>. QED
    BY <2>1, <2>2 DEF Grows
<1>2. /\ shardQ' = [shardQ EXCEPT ![s] = Append(shardQ[s], [t |-> "enable"])]
      /\ UNCHANGED <<cur, lost, consumers, frames, chan>>
  BY Zenon DEF DflyFlow, shardVars
<1>3. shardQ \in [Shards -> Seq(KnownMsg')]
  BY Zenon, <1>1, SidGrows
<1>4. [t |-> "enable"] \in KnownMsg'
  BY MsgTypes DEF KnownMsg
<1>5. shardQ' \in [Shards -> Seq(KnownMsg')]
  BY <1>2, <1>3, <1>4
<1>. QED
  BY Zenon, <1>1, <1>2, <1>5, SidGrows DEF SidInv

LEMMA DflySyncSid ==
    ASSUME TypeInv, TypeInv', SidInv, DflySync
    PROVE  SidInv'
<1>1. cur' = cur /\ cur \in Nat /\ cur \in Sids /\ cur <= cur'
  <2>1. cur' = cur /\ cur \in Nat
    BY DEF DflySync, replicaVars, TypeInv, TypeOK
  <2>. QED
    BY <2>1, DflySyncSess
<1>2. Grows
  BY Zenon, <1>1, DflySyncSess DEF Grows
<1>3. /\ shardQ' = Send(shardQ, [t |-> "snapshot", sid |-> cur])
      /\ UNCHANGED <<lost, consumers, frames, chan>>
  BY Zenon DEF DflySync, shardVars
<1>4. shardQ \in [Shards -> Seq(KnownMsg')]
  BY Zenon, <1>2, SidGrows
<1>5. [t |-> "snapshot", sid |-> cur] \in KnownMsg'
  <2>1. [t |-> "snapshot", sid |-> cur] \in ShardMsg
    BY Zenon, <1>1, MsgTypes
  <2>. QED
    BY <1>1, <2>1 DEF KnownMsg
<1>6. shardQ' \in [Shards -> Seq(KnownMsg')]
  BY Zenon, <1>3, <1>4, <1>5, SendIs
<1>. QED
  BY Zenon, <1>2, <1>3, <1>6, SidGrows DEF SidInv

LEMMA DrainReplSid ==
    ASSUME TypeInv, TypeInv', SidInv, NEW s \in Shards, DrainRepl(s)
    PROVE  SidInv'
<1> DEFINE c == FirstChunk(s)
<1>1. /\ chan[s] # <<>> /\ chan[s] \in Seq(KnownChunk) /\ chan \in [Shards -> Seq(KnownChunk)]
      /\ chan' = [chan EXCEPT ![s] = Tail(chan[s])]
      /\ UNCHANGED <<cur, lost, consumers, frames>>
  BY Zenon DEF DrainRepl, SidInv, shardVars
<1>2. /\ shardQ' \in {shardQ, [shardQ EXCEPT ![s] = Append(shardQ[s], [t |-> "cancel", sid |-> c.sid])],
                      [shardQ EXCEPT ![s] = Append(shardQ[s], [t |-> "step", sid |-> c.sid])]}
  <2>1. shardQ \in [Shards -> Seq(ShardMsg)]
    BY Zenon DEF TypeInv, TypeOK
  <2>2. [shardQ EXCEPT ![s] = shardQ[s]] = shardQ
    BY <2>1
  <2>. QED
    BY Zenon, <2>2 DEF DrainRepl, FirstChunk
<1>3. c \in KnownChunk /\ Tail(chan[s]) \in Seq(KnownChunk)
  BY Zenon, <1>1, TailFacts DEF FirstChunk
<1> HIDE DEF c
<1>4. c.sid \in Sids /\ c.sid <= cur'
  <2>1. c \in Chunk /\ c.sid <= cur'
    BY Zenon, <1>1, <1>3 DEF KnownChunk
  <2>. QED
    BY <2>1 DEF Chunk
<1>5. Grows
  <2>1. cur' = cur /\ cur \in Nat
    BY <1>1 DEF TypeInv, TypeOK
  <2>2. \A i \in Sids : sess'[i].state = sess[i].state
    BY Zenon, DrainReplSess
  <2>. QED
    BY <2>1, <2>2 DEF Grows
<1>6. chan' \in [Shards -> Seq(KnownChunk)]
  BY <1>1, <1>3
<1>7. shardQ \in [Shards -> Seq(KnownMsg')]
  BY Zenon, <1>5, SidGrows
<1>8. \A t \in {"cancel", "step"} : [t |-> t, sid |-> c.sid] \in KnownMsg'
  <2>1. \A t \in {"cancel", "step"} : [t |-> t, sid |-> c.sid] \in ShardMsg
    BY Zenon, <1>4, MsgTypes
  <2>. QED
    BY <1>4, <2>1 DEF KnownMsg
<1>9. shardQ' \in [Shards -> Seq(KnownMsg')]
  <2>1. \A m \in KnownMsg' : [shardQ EXCEPT ![s] = Append(shardQ[s], m)] \in [Shards -> Seq(KnownMsg')]
    BY <1>7
  <2>. QED
    BY Zenon, <1>2, <1>7, <1>8, <2>1
<1>. QED
  BY Zenon, <1>1, <1>5, <1>6, <1>9, SidGrows DEF SidInv, KnownChunk

LEMMA CaughtUpKnown ==
    ASSUME TypeInv, NEW s \in Shards, NEW from \in Nat \ {0}, cur \in Sids
    PROVE  CaughtUp(s, from) \in Seq(KnownChunk)
<1>1. CaughtUp(s, from) \in Seq(Chunk)
  BY Zenon, CaughtUpType DEF TypeInv
<1>2. \A n \in DOMAIN CaughtUp(s, from) : CaughtUp(s, from)[n].sid = cur
  BY Zenon DEF CaughtUp
<1>3. cur <= cur
  BY DEF TypeInv, TypeOK
<1>4. \A n \in DOMAIN CaughtUp(s, from) : CaughtUp(s, from)[n] \in KnownChunk
  <2>1. \A n \in DOMAIN CaughtUp(s, from) : CaughtUp(s, from)[n] \in Chunk
    BY Zenon, <1>1, SeqElem
  <2>. QED
    BY Zenon, <1>2, <1>3, <2>1 DEF KnownChunk
<1>. QED
  BY Zenon, <1>1, <1>4, SeqIn

LEMMA StartStableSyncSid ==
    ASSUME TypeInv, TypeInv', SidInv, StartInv, NEW s \in Shards, StartStableSync(s)
    PROVE  SidInv'
<1>1. FromLsn(s) \in Nat \ {0} /\ cur \in Sids
  BY Zenon, FromLsnType DEF StartStableSync
<1>2. /\ chan' = [chan EXCEPT ![s] = chan[s] \o CaughtUp(s, FromLsn(s))]
      /\ consumers' = [consumers EXCEPT ![s] = consumers[s] \cup {cur}]
      /\ UNCHANGED <<frames, shardQ, cur, lost>>
      /\ chan \in [Shards -> Seq(KnownChunk)] /\ consumers \in [Shards -> SUBSET (1 .. cur)]
  BY Zenon DEF StartStableSync, CaughtUp, SidInv
<1>3. Grows
  <2>1. cur <= cur' /\ stableNext # 0
    <3>1. stableNext = s
      BY Zenon DEF StartStableSync
    <3>. QED
      BY <1>2, <3>1 DEF TypeInv, TypeOK, Shards
  <2>2. sess[cur].state # "none"
    BY Zenon, <2>1 DEF StartInv
  <2>3. \A i \in Sids : sess[i].state = "none" => sess'[i].state = "none"
    BY Zenon, <2>2, StartStableSess
  <2>. QED
    BY Zenon, <2>1, <2>3 DEF Grows
<1>4. cur \in 1 .. cur
  BY <1>1 DEF TypeInv, TypeOK, Sids
<1>5. consumers' \in [Shards -> SUBSET (1 .. cur)]
  BY <1>2, <1>4
<1>6. CaughtUp(s, FromLsn(s)) \in Seq(KnownChunk)
  BY Zenon, <1>1, CaughtUpKnown
<1>7. chan' \in [Shards -> Seq(KnownChunk)]
  BY <1>2, <1>6
<1>. QED
  BY Zenon, <1>2, <1>3, <1>5, <1>7, SidGrows DEF SidInv, KnownChunk

LEMMA StopReplicationSid ==
    ASSUME TypeInv, TypeInv', SidInv, NEW i \in Sids, StopReplication(i)
    PROVE  SidInv'
<1>1. /\ lost' = lost \ {i} /\ i \in lost
      /\ shardQ' = Send(Send(shardQ, [t |-> "stop", sid |-> i]), [t |-> "cancel", sid |-> i])
      /\ UNCHANGED <<cur, consumers, frames, chan>>
  BY Zenon DEF StopReplication, StopAndCancel, shardVars, replicaVars
<1>2. cur \in Nat /\ cur <= cur' /\ i <= cur'
  BY <1>1 DEF TypeInv, TypeOK, SidInv
<1>3. sess'[i].state = "none" /\ Grows
  <2>1. \A j \in Sids : sess'[j].state = IF j = i THEN "none" ELSE sess[j].state
    BY Zenon, StopSess
  <2>. QED
    BY Zenon, <1>2, <2>1 DEF Grows
<1>4. [t |-> "stop", sid |-> i] \in KnownMsg' /\ [t |-> "cancel", sid |-> i] \in KnownMsg'
  <2>1. [t |-> "stop", sid |-> i] \in ShardMsg /\ [t |-> "cancel", sid |-> i] \in ShardMsg
    BY Zenon, MsgTypes
  <2>. QED
    BY <1>2, <1>3, <2>1 DEF KnownMsg
<1>5. shardQ \in [Shards -> Seq(KnownMsg')]
  BY Zenon, <1>3, SidGrows
<1>6. shardQ' \in [Shards -> Seq(KnownMsg')]
  <2>1. Send(shardQ, [t |-> "stop", sid |-> i]) \in [Shards -> Seq(KnownMsg')]
    BY Zenon, <1>4, <1>5, SendIs
  <2>. QED
    BY Zenon, <1>1, <1>4, <2>1, SendIs
<1>7. lost' \subseteq 1 .. cur'
  BY Zenon, <1>1 DEF SidInv
<1>. QED
  BY Zenon, <1>1, <1>3, <1>6, <1>7, SidGrows DEF SidInv

LEMMA OtherFlowSid ==
    ASSUME TypeInv, TypeInv', SidInv, OtherFlow
    PROVE  SidInv'
<1>1. /\ shardQ' = Send(shardQ, [t |-> "enable"])
      /\ UNCHANGED <<cur, sess, lost, consumers, frames, chan>>
  BY Zenon DEF OtherFlow, shardVars, replicaVars
<1>2. shardQ' \in [Shards -> Seq(KnownMsg)]
  BY Zenon, <1>1, EnableKnown, SendIs DEF SidInv
<1>. QED
  BY Zenon, <1>1, <1>2 DEF SidInv, KnownMsg, KnownFrame, KnownChunk

LEMMA ConnectSid ==
    ASSUME TypeInv, TypeInv', SidInv, Connect
    PROVE  SidInv'
<1>1. UNCHANGED <<lost, consumers, shardQ, frames, chan>>
  BY Zenon DEF Connect, shardVars
<1>2. Grows
  <2>1. cur <= cur' /\ \A i \in Sids : i <= cur => i # cur'
    BY ConnectSess DEF Sids
  <2>. QED
    BY Zenon, <2>1, ConnectSess DEF Grows
<1>3. lost' \subseteq 1 .. cur'
  BY Zenon, <1>1, <1>2, SidGrows
<1>. QED
  BY Zenon, <1>1, <1>2, <1>3, SidUnchanged

LEMMA LostSid ==
    ASSUME TypeInv, TypeInv', SidInv, lost' \in {lost, lost \cup {cur}}, lost' = lost \/ up,
           UNCHANGED <<cur, sess, consumers, shardQ, frames, chan>>
    PROVE  SidInv'
<1>1. up => cur \in 1 .. cur
  BY DEF TypeInv, TypeOK, CurInv
<1>2. lost' \subseteq 1 .. cur
  BY Zenon, <1>1 DEF SidInv
<1>. QED
  BY Zenon, <1>2 DEF SidInv, KnownMsg, KnownFrame, KnownChunk

LEMMA MasterRestartSid ==
    ASSUME MasterRestart
    PROVE  SidInv'
<1>1. /\ lost' = {} /\ consumers' = [s \in Shards |-> {}]
      /\ frames' = [s \in Shards |-> <<>>] /\ shardQ' = [s \in Shards |-> <<>>]
      /\ chan' = [s \in Shards |-> <<>>]
  BY Zenon DEF MasterRestart
<1>. QED
  BY Zenon, <1>1, EmptyTypes DEF SidInv

----------------------------------------------------------------------------
(* A shard streams to the replica's session once it was started *)

(* StartInv holds on if no consumer joins and the session goes on.         *)
LEMMA StartKeeps ==
    ASSUME StartInv, UNCHANGED <<cur, stableNext>>, up' => up, ~up' \/ lost' \subseteq lost,
           sess'[cur].state = sess[cur].state,
           \A s \in Shards : cur \in consumers'[s] => cur \in consumers[s]
    PROVE  StartInv'
  BY Zenon DEF StartInv

(* One lemma per action that touches what StartInv speaks of.              *)
LEMMA HandleMsgStart ==
    ASSUME TypeInv, StartInv, NEW s \in Shards, HandleMsg(s)
    PROVE  StartInv'
<1>1. UNCHANGED <<cur, stableNext, up, lost, sess>>
  BY Zenon DEF HandleMsg, replicaVars
<1>2. \A t \in Shards : cur \in consumers'[t] => cur \in consumers[t]
  <2>1. consumers \in [Shards -> SUBSET Sids]
    BY Zenon DEF TypeInv, TypeOK
  <2>2. \/ consumers' = consumers
        \/ consumers' = [consumers EXCEPT ![s] = consumers[s] \ {Head(shardQ[s]).sid}]
    BY Zenon DEF HandleMsg
  <2>. QED
    BY <2>1, <2>2
<1>. QED
  BY Zenon, <1>1, <1>2, StartKeeps

LEMMA DflySyncStart ==
    ASSUME TypeInv, StartInv, DflySync
    PROVE  StartInv'
<1>1. up /\ stableNext = 0 /\ UNCHANGED <<cur, stableNext, up, lost, consumers>>
  BY Zenon DEF DflySync, shardVars, replicaVars
<1>2. cur \in Sids /\ sess[cur].state = "preparation"
  BY Zenon, DflySyncSess
<1>3. \A s \in Shards : cur \notin consumers[s]
  <2>1. \A s \in Shards : ~(s < 0)
    BY ReplicationAssumption DEF Shards
  <2>. QED
    BY <1>1, <1>2, <2>1 DEF StartInv
<1>. QED
  BY Zenon, <1>1, <1>3 DEF StartInv

LEMMA DflyStartStableStart ==
    ASSUME TypeInv, StartInv, DflyStartStable
    PROVE  StartInv'
<1>1. /\ up /\ stableNext = 0 /\ sess[cur].state \in {"preparation", "full"}
      /\ UNCHANGED <<cur, up, lost, consumers, sess>>
  BY Zenon DEF DflyStartStable, shardVars, replicaVars
<1>2. \A s \in Shards : cur \notin consumers[s]
  <2>1. \A s \in Shards : ~(s < 0)
    BY ReplicationAssumption DEF Shards
  <2>. QED
    BY <1>1, <2>1 DEF StartInv
<1>. QED
  BY Zenon, <1>1, <1>2 DEF StartInv

LEMMA StartStableSyncStart ==
    ASSUME TypeInv, StartInv, NEW s \in Shards, StartStableSync(s)
    PROVE  StartInv'
<1>1. /\ stableNext = s /\ stableNext' = ShardAfter(s)
      /\ consumers' = [consumers EXCEPT ![s] = consumers[s] \cup {cur}]
      /\ UNCHANGED <<cur, up, lost>>
      /\ consumers \in [Shards -> SUBSET Sids]
  BY Zenon DEF StartStableSync, TypeInv, TypeOK
<1>2. s \in Nat \ {0} /\ s <= NumShards /\ NumShards \in Nat
  BY ReplicationAssumption DEF Shards
<1>3. /\ cur \in Sids /\ sess[cur].state \in {"preparation", "full"}
      /\ \A t \in Shards : cur \in consumers[t] => t < s
  <2>1. cur \in Sids
    BY Zenon, StartStableSess
  <2>2. stableNext # 0
    BY <1>1, <1>2
  <2>3. sess[cur].state \in {"preparation", "full"}
    BY Zenon, <2>2 DEF StartInv
  <2>4. \A t \in Shards : cur \in consumers[t] => t < s
    BY Zenon, <1>1, <2>2 DEF StartInv
  <2>. QED
    BY Zenon, <2>1, <2>3, <2>4
<1>4. \A t \in Shards : cur \in consumers'[t] => t < s \/ t = s
  BY <1>1, <1>3
<1>5. CASE s = NumShards
  <2>1. stableNext' = 0 /\ sess'[cur].state = "stable"
    <3>1. stableNext' = 0
      BY <1>1, <1>2, <1>5 DEF ShardAfter
    <3>. QED
      BY Zenon, <1>3, <1>5, <3>1, StartStableSess
  <2>. QED
    BY Zenon, <1>1, <2>1 DEF StartInv
<1>6. CASE s # NumShards
  <2>1. stableNext' = s + 1 /\ sess' = sess
    <3>1. stableNext' = s + 1
      BY <1>1, <1>2, <1>6 DEF ShardAfter
    <3>. QED
      BY Zenon, <1>6, <3>1, StartStableSess
  <2>2. \A t \in Shards : cur \in consumers'[t] => t < stableNext'
    <3>1. \A t \in Shards : t \in Nat
      BY DEF Shards
    <3>. QED
      BY <1>2, <1>4, <2>1, <3>1
  <2>. QED
    BY Zenon, <1>1, <1>3, <2>1, <2>2 DEF StartInv
<1>. QED
  BY Zenon, <1>5, <1>6

LEMMA StartStableFailsStart ==
    ASSUME StartInv, NEW s \in Shards, StartStableFails(s)
    PROVE  StartInv'
<1>1. stableNext' = 0
  BY Zenon DEF StartStableFails
<1>2. up' = FALSE \/ (~up /\ up' = up)
  BY Zenon DEF StartStableFails, GiveUp
<1>3. ~up'
  BY <1>2
<1>. QED
  BY Zenon, <1>1, <1>3 DEF StartInv

LEMMA StopReplicationStart ==
    ASSUME TypeInv, StartInv, NEW i \in Sids, StopReplication(i)
    PROVE  StartInv'
<1>1. /\ stableNext = 0 /\ i \in lost /\ lost' = lost \ {i}
      /\ UNCHANGED <<cur, up, stableNext, consumers>>
  BY Zenon DEF StopReplication, shardVars, replicaVars
<1>2. CASE up
  <2>1. cur # i /\ cur \in Sids
    BY Zenon, <1>1, <1>2, CurSid DEF StartInv
  <2>2. sess'[cur].state = sess[cur].state
    BY Zenon, <2>1, StopSess
  <2>. QED
    BY Zenon, <1>1, <2>2 DEF StartInv
<1>3. CASE ~up
  BY Zenon, <1>1, <1>3 DEF StartInv
<1>. QED
  BY Zenon, <1>2, <1>3

LEMMA ConnectStart ==
    ASSUME TypeInv, SidInv, StartInv, Connect
    PROVE  StartInv'
<1>1. stableNext' = 0 /\ UNCHANGED <<consumers, lost>>
  BY Zenon DEF Connect, shardVars
<1>2. cur' \notin 1 .. cur
  BY ConnectSess
<1>3. cur' \notin lost /\ \A s \in Shards : cur' \notin consumers[s]
  BY Zenon, <1>2 DEF SidInv
<1>. QED
  BY Zenon, <1>1, <1>3 DEF StartInv

LEMMA MasterRestartStart ==
    ASSUME MasterRestart
    PROVE  StartInv'
  BY Zenon DEF MasterRestart, StartInv

----------------------------------------------------------------------------
(* A closed session is cleared *)

(* Nothing a session has on a shard, and no message about it, changes.     *)
LEMMA ClearingSame ==
    ASSUME NEW s, NEW i, Clearing(s, i), snaps'[s][i] = snaps[s][i] \/ snaps'[s][i] = NoSnap,
           shardQ'[s] = shardQ[s], consumers'[s] = consumers[s]
    PROVE  Clearing(s, i)'
  BY Zenon DEF Clearing

(* A message at the end of the queue that asks for no snapshot.            *)
LEMMA ClearingAppend ==
    ASSUME NEW s, NEW i, Clearing(s, i), shardQ[s] \in Seq(ShardMsg),
           NEW m \in ShardMsg, m \notin Msg("snapshot", i),
           shardQ'[s] = Append(shardQ[s], m), UNCHANGED <<snaps, consumers>>
    PROVE  Clearing(s, i)'
<1>1. /\ None(shardQ[s], Msg("snapshot", i)) => None(shardQ'[s], Msg("snapshot", i))
      /\ ~None(shardQ[s], Msg("stop", i)) => ~None(shardQ'[s], Msg("stop", i))
  BY NoneAppend
<1>2. Cleared(shardQ[s], i) => Cleared(shardQ'[s], i)
  BY Zenon, ClearedAppend
<1>. QED
  BY Zenon, <1>1, <1>2 DEF Clearing

(* Every closed session was closed before, and stays on its way out.       *)
LEMMA LeakKeeps ==
    ASSUME LeakInv,
           \A i \in Sids : sess'[i].state = "none" /\ i \notin lost' => sess[i].state = "none" /\ i \notin lost,
           \A s \in Shards, i \in Sids :
              sess[i].state = "none" /\ i \notin lost /\ Clearing(s, i) => Clearing(s, i)'
    PROVE  LeakInv'
  BY Zenon DEF LeakInv

(* A step that touches neither queues, snapshots nor consumers.            *)
LEMMA LeakSame ==
    ASSUME LeakInv, lost \subseteq lost', UNCHANGED <<snaps, shardQ, consumers>>,
           \A i \in Sids : sess'[i].state = "none" => sess[i].state = "none"
    PROVE  LeakInv'
<1>1. \A s \in Shards, i \in Sids : Clearing(s, i) => Clearing(s, i)'
  BY Zenon, ClearingSame
<1>2. \A i \in Sids : i \notin lost' => i \notin lost
  BY Zenon
<1>. QED
  BY Zenon, <1>1, <1>2, LeakKeeps

(* What a message does to the snapshots and the consumers of a shard.      *)
LEMMA HandleMsgFacts ==
    ASSUME TypeInv, NEW s \in Shards, HandleMsg(s), NEW i \in Sids
    PROVE  /\ Head(shardQ[s]) \in Msg("cancel", i) => snaps'[s][i] = NoSnap
           /\ \/ snaps'[s][i] = snaps[s][i]
              \/ snaps'[s][i] = NoSnap
              \/ Head(shardQ[s]) \in Msg("snapshot", i)
              \/ Head(shardQ[s]) \in Msg("step", i) /\ snaps[s][i] # NoSnap
           /\ Head(shardQ[s]) \in Msg("stop", i) => i \notin consumers'[s]
           /\ consumers'[s] \subseteq consumers[s]
           /\ \A t \in Shards \ {s} : snaps'[t] = snaps[t] /\ consumers'[t] = consumers[t] /\ shardQ'[t] = shardQ[t]
           /\ shardQ'[s] = Tail(shardQ[s]) /\ shardQ[s] # <<>> /\ shardQ[s] \in Seq(ShardMsg)
<1> DEFINE m == Head(shardQ[s])
<1>1. /\ shardQ \in [Shards -> Seq(ShardMsg)] /\ consumers \in [Shards -> SUBSET Sids]
      /\ snaps \in [Shards -> [Sids -> [keys : Seq(Keys), from : Nat]]]
      /\ shardQ' = [shardQ EXCEPT ![s] = Tail(shardQ[s])] /\ shardQ[s] # <<>>
  BY Zenon DEF HandleMsg, TypeInv, TypeOK
<1>2. m \in ShardMsg
  BY <1>1, TailFacts
<1>3. shardQ'[s] = Tail(shardQ[s]) /\ \A t \in Shards \ {s} : shardQ'[t] = shardQ[t]
  BY <1>1
<1>4. CASE UNCHANGED <<snaps, consumers>> /\ m.t \notin {"cancel", "stop"}
  BY Zenon, <1>1, <1>3, <1>4 DEF Msg
<1>5. CASE /\ m.t \in {"snapshot", "step"} /\ consumers' = consumers
           /\ \E x : snaps' = [snaps EXCEPT ![s][m.sid] = x]
           /\ m.t = "step" => snaps[s][m.sid] # NoSnap
  <2>1. m.sid \in Sids
    BY <1>2, <1>5, MsgFields
  <2>2. PICK x : snaps' = [snaps EXCEPT ![s][m.sid] = x]
    BY Zenon, <1>5
  <2>3. i # m.sid => snaps'[s][i] = snaps[s][i]
    BY <1>1, <2>2
  <2>4. \A t \in Shards \ {s} : snaps'[t] = snaps[t]
    BY <1>1, <2>2
  <2>. QED
    BY Zenon, <1>1, <1>2, <1>3, <1>5, <2>3, <2>4 DEF Msg
<1>6. CASE m.t = "cancel" /\ snaps' = [snaps EXCEPT ![s][m.sid] = NoSnap] /\ consumers' = consumers
  <2>1. m.sid \in Sids
    BY <1>2, <1>6, MsgFields
  <2>2. /\ snaps'[s][i] = IF i = m.sid THEN NoSnap ELSE snaps[s][i]
        /\ \A t \in Shards \ {s} : snaps'[t] = snaps[t]
    BY <1>1, <1>6, <2>1
  <2>. QED
    BY Zenon, <1>1, <1>3, <1>6, <2>2 DEF Msg
<1>7. CASE m.t = "stop" /\ consumers' = [consumers EXCEPT ![s] = consumers[s] \ {m.sid}] /\ snaps' = snaps
  <2>1. /\ consumers'[s] = consumers[s] \ {m.sid}
        /\ \A t \in Shards \ {s} : consumers'[t] = consumers[t]
    BY <1>1, <1>7
  <2>. QED
    BY Zenon, <1>1, <1>3, <1>7, <2>1 DEF Msg
<1>. QED
  <2>1. \/ UNCHANGED <<snaps, consumers>> /\ m.t \in {"enable", "snapshot", "step"}
        \/ /\ m.t \in {"snapshot", "step"} /\ consumers' = consumers
           /\ \E x : snaps' = [snaps EXCEPT ![s][m.sid] = x]
           /\ m.t = "step" => snaps[s][m.sid] # NoSnap
        \/ m.t = "cancel" /\ snaps' = [snaps EXCEPT ![s][m.sid] = NoSnap] /\ consumers' = consumers
        \/ m.t = "stop" /\ consumers' = [consumers EXCEPT ![s] = consumers[s] \ {m.sid}] /\ snaps' = snaps
    BY Zenon DEF HandleMsg, Serialize
  <2>. QED
    BY Zenon, <1>4, <1>5, <1>6, <1>7, <2>1

(* From here on, one lemma per action that sends, registers or closes: it  *)
(* keeps LeakInv.                                                          *)
LEMMA HandleMsgLeak ==
    ASSUME TypeInv, LeakInv, NEW s \in Shards, HandleMsg(s)
    PROVE  LeakInv'
<1>1. UNCHANGED <<lost, sess>>
  BY Zenon DEF HandleMsg
<1>2. ASSUME NEW t \in Shards, NEW i \in Sids, Clearing(t, i)
      PROVE  Clearing(t, i)'
  <2>1. CASE t # s
    BY Zenon, <1>2, <2>1, HandleMsgFacts, ClearingSame
  <2>2. CASE t = s
    <3>0. shardQ'[s] = Tail(shardQ[s]) /\ shardQ[s] # <<>> /\ shardQ[s] \in Seq(ShardMsg)
      BY Zenon, HandleMsgFacts
    <3>1. /\ None(shardQ[s], Msg("snapshot", i)) =>
                None(shardQ'[s], Msg("snapshot", i)) /\ Head(shardQ[s]) \notin Msg("snapshot", i)
          /\ ~None(shardQ[s], Msg("stop", i)) =>
                Head(shardQ[s]) \in Msg("stop", i) \/ ~None(shardQ'[s], Msg("stop", i))
      BY <3>0, NoneTail
    <3>2. Cleared(shardQ[s], i) =>
             \/ Cleared(shardQ'[s], i)
             \/ Head(shardQ[s]) \in Msg("cancel", i) /\ None(shardQ'[s], Msg("snapshot", i))
      BY <3>0, ClearedTail
    <3>3. i \notin consumers'[s] \/ ~None(shardQ'[s], Msg("stop", i))
      BY Zenon, <1>2, <2>2, <3>1, HandleMsgFacts DEF Clearing
    <3>4. (snaps'[s][i] = NoSnap /\ None(shardQ'[s], Msg("snapshot", i))) \/ Cleared(shardQ'[s], i)
      BY Zenon, <1>2, <2>2, <3>1, <3>2, HandleMsgFacts DEF Clearing
    <3>. QED
      BY Zenon, <2>2, <3>3, <3>4 DEF Clearing
  <2>. QED
    BY Zenon, <2>1, <2>2
<1>. QED
  BY Zenon, <1>1, <1>2, LeakKeeps

LEMMA ShipLeak ==
    ASSUME TypeInv, LeakInv, NEW s \in Shards, Ship(s)
    PROVE  LeakInv'
<1>1. UNCHANGED <<lost, sess, shardQ, consumers>>
  BY Zenon DEF Ship
<1>2. /\ snaps \in [Shards -> [Sids -> [keys : Seq(Keys), from : Nat]]]
      /\ shardQ[s] = <<>>
      /\ \E x : snaps' = [snaps EXCEPT ![s][TopFrame(s).sid] =
                   IF snaps[s][TopFrame(s).sid] = NoSnap \/ TopFrame(s).done THEN NoSnap ELSE x]
  BY Zenon DEF Ship, TypeInv, TypeOK, TopFrame
<1>3. PICK x : snaps' = [snaps EXCEPT ![s][TopFrame(s).sid] =
                   IF snaps[s][TopFrame(s).sid] = NoSnap \/ TopFrame(s).done THEN NoSnap ELSE x]
  BY Zenon, <1>2
<1>4. /\ \A t \in Shards \ {s} : snaps'[t] = snaps[t]
      /\ \A i \in Sids : snaps[s][i] = NoSnap => snaps'[s][i] = NoSnap
  BY <1>2, <1>3
<1>5. \A i : ~Cleared(<<>>, i)
  BY DEF Cleared
<1>6. \A t \in Shards, i \in Sids : Clearing(t, i) => Clearing(t, i)'
  BY Zenon, <1>1, <1>2, <1>4, <1>5 DEF Clearing
<1>. QED
  BY Zenon, <1>1, <1>6, LeakKeeps

LEMMA EnableQueued ==
    ASSUME NEW i
    PROVE  [t |-> "enable"] \in ShardMsg /\ [t |-> "enable"] \notin Msg("snapshot", i)
<1>1. [t |-> "enable"] \in ShardMsg
  BY Zenon, MsgTypes
<1>. QED
  BY <1>1 DEF Msg

LEMMA DflyFlowLeak ==
    ASSUME TypeInv, LeakInv, NEW s \in Shards, DflyFlow(s)
    PROVE  LeakInv'
<1>1. /\ UNCHANGED <<lost, snaps, consumers>> /\ shardQ \in [Shards -> Seq(ShardMsg)]
      /\ shardQ' = [shardQ EXCEPT ![s] = Append(shardQ[s], [t |-> "enable"])]
  BY Zenon DEF DflyFlow, shardVars, TypeInv, TypeOK
<1>2. /\ shardQ'[s] = Append(shardQ[s], [t |-> "enable"]) /\ shardQ[s] \in Seq(ShardMsg)
      /\ \A t \in Shards \ {s} : shardQ'[t] = shardQ[t]
  BY <1>1
<1>3. \A i \in Sids : sess'[i].state = sess[i].state
  BY Zenon, DflyFlowSess
<1>4. ASSUME NEW t \in Shards, NEW i \in Sids, Clearing(t, i)
      PROVE  Clearing(t, i)'
  <2>1. CASE t # s
    BY Zenon, <1>1, <1>2, <1>4, <2>1, ClearingSame
  <2>2. CASE t = s
    BY Zenon, <1>1, <1>2, <1>4, <2>2, ClearingAppend, EnableQueued
  <2>. QED
    BY Zenon, <2>1, <2>2
<1>. QED
  BY Zenon, <1>1, <1>3, <1>4, LeakKeeps

LEMMA OtherFlowLeak ==
    ASSUME TypeInv, LeakInv, OtherFlow
    PROVE  LeakInv'
<1>1. /\ UNCHANGED <<lost, sess, snaps, consumers>> /\ shardQ \in [Shards -> Seq(ShardMsg)]
      /\ shardQ' = Send(shardQ, [t |-> "enable"])
  BY Zenon DEF OtherFlow, shardVars, TypeInv, TypeOK
<1>2. \A t \in Shards : shardQ'[t] = Append(shardQ[t], [t |-> "enable"]) /\ shardQ[t] \in Seq(ShardMsg)
  BY <1>1 DEF Send
<1>3. \A t \in Shards, i \in Sids : Clearing(t, i) => Clearing(t, i)'
  BY Zenon, <1>1, <1>2, ClearingAppend, EnableQueued
<1>. QED
  BY Zenon, <1>1, <1>3, LeakKeeps

LEMMA DflySyncLeak ==
    ASSUME TypeInv, LeakInv, DflySync
    PROVE  LeakInv'
<1> DEFINE x == [t |-> "snapshot", sid |-> cur]
<1>1. /\ UNCHANGED <<lost, snaps, consumers>> /\ shardQ \in [Shards -> Seq(ShardMsg)]
      /\ shardQ' = Send(shardQ, x)
  BY Zenon DEF DflySync, shardVars, TypeInv, TypeOK
<1>2. \A t \in Shards : shardQ'[t] = Append(shardQ[t], x) /\ shardQ[t] \in Seq(ShardMsg)
  BY <1>1 DEF Send
<1>3. /\ cur \in Sids
      /\ \A i \in Sids : sess'[i].state = "none" => i # cur /\ sess[i].state = "none"
      /\ sess[cur].state # "none"
  BY DflySyncSess
<1>4. x \in ShardMsg /\ x.sid = cur
  BY <1>3, MsgTypes
<1> HIDE DEF x
<1>5. \A i \in Sids : i # cur => x \notin Msg("snapshot", i)
  BY Zenon, <1>4 DEF Msg
<1>6. \A t \in Shards, i \in Sids : sess[i].state = "none" /\ Clearing(t, i) => Clearing(t, i)'
  BY Zenon, <1>1, <1>2, <1>3, <1>4, <1>5, ClearingAppend
<1>. QED
  BY Zenon, <1>1, <1>3, <1>6, LeakKeeps

LEMMA DrainReplLeak ==
    ASSUME TypeInv, LeakInv, NEW s \in Shards, DrainRepl(s)
    PROVE  LeakInv'
<1> DEFINE c == FirstChunk(s)
<1>1. /\ UNCHANGED <<lost, snaps, consumers>> /\ shardQ \in [Shards -> Seq(ShardMsg)]
      /\ chan \in [Shards -> Seq(Chunk)] /\ chan[s] # <<>>
      /\ \/ shardQ' = [shardQ EXCEPT ![s] = Append(shardQ[s], [t |-> "cancel", sid |-> c.sid])]
         \/ shardQ' = [shardQ EXCEPT ![s] = Append(shardQ[s], [t |-> "step", sid |-> c.sid])]
         \/ shardQ' = [shardQ EXCEPT ![s] = shardQ[s]]
  BY Zenon DEF DrainRepl, FirstChunk, shardVars, TypeInv, TypeOK
<1>2. c.sid \in Sids
  <2>1. c \in Chunk
    BY <1>1, TailFacts DEF FirstChunk
  <2>. QED
    BY <2>1 DEF Chunk
<1> HIDE DEF c
<1>3. \A t \in Shards \ {s} : shardQ'[t] = shardQ[t]
  BY <1>1
<1>4. \E m \in ShardMsg : m.t # "snapshot" /\ shardQ'[s] \in {Append(shardQ[s], m), shardQ[s]}
  <2>1. \A t \in {"cancel", "step"} : [t |-> t, sid |-> c.sid] \in ShardMsg
    BY Zenon, <1>2, MsgTypes
  <2>2. CASE shardQ' = [shardQ EXCEPT ![s] = Append(shardQ[s], [t |-> "cancel", sid |-> c.sid])]
    <3>1. shardQ'[s] = Append(shardQ[s], [t |-> "cancel", sid |-> c.sid])
      BY <1>1, <2>2
    <3>. QED
      BY <2>1, <3>1
  <2>3. CASE shardQ' = [shardQ EXCEPT ![s] = Append(shardQ[s], [t |-> "step", sid |-> c.sid])]
    <3>1. shardQ'[s] = Append(shardQ[s], [t |-> "step", sid |-> c.sid])
      BY <1>1, <2>3
    <3>. QED
      BY <2>1, <3>1
  <2>4. CASE shardQ' = [shardQ EXCEPT ![s] = shardQ[s]]
    <3>1. shardQ'[s] = shardQ[s]
      BY <1>1, <2>4
    <3>. QED
      BY <2>1, <3>1
  <2>. QED
    BY Zenon, <1>1, <2>2, <2>3, <2>4
<1>5. PICK m \in ShardMsg : m.t # "snapshot" /\ shardQ'[s] \in {Append(shardQ[s], m), shardQ[s]}
  BY Zenon, <1>4
<1>6. ASSUME NEW t \in Shards, NEW i \in Sids, Clearing(t, i)
      PROVE  Clearing(t, i)'
  <2>1. CASE shardQ'[t] = shardQ[t]
    BY Zenon, <1>1, <1>6, <2>1, ClearingSame
  <2>2. CASE t = s /\ shardQ'[s] = Append(shardQ[s], m)
    <3>1. m \notin Msg("snapshot", i) /\ shardQ[s] \in Seq(ShardMsg)
      BY Zenon, <1>1, <1>5 DEF Msg
    <3>. QED
      BY Zenon, <1>1, <1>6, <2>2, <3>1, ClearingAppend
  <2>. QED
    BY Zenon, <1>3, <1>5, <2>1, <2>2
<1>7. \A i \in Sids : sess'[i].state = sess[i].state
  BY Zenon, DrainReplSess
<1>. QED
  BY Zenon, <1>1, <1>6, <1>7, LeakKeeps

LEMMA StartStableSyncLeak ==
    ASSUME TypeInv, StartInv, LeakInv, NEW s \in Shards, StartStableSync(s)
    PROVE  LeakInv'
<1>1. /\ consumers' = [consumers EXCEPT ![s] = consumers[s] \cup {cur}]
      /\ consumers \in [Shards -> SUBSET Sids] /\ stableNext = s
      /\ UNCHANGED <<lost, snaps, shardQ>>
  BY Zenon DEF StartStableSync, TypeInv, TypeOK
<1>2. cur \in Sids /\ sess[cur].state # "none"
  <2>1. stableNext # 0
    BY <1>1 DEF Shards
  <2>2. sess[cur].state \in {"preparation", "full"}
    BY Zenon, <2>1 DEF StartInv
  <2>. QED
    BY <2>2, StartStableSess
<1>3. \A i \in Sids : sess'[i].state = "none" => sess[i].state = "none"
  <2>1. CASE s = NumShards
    BY <2>1, StartStableSess
  <2>2. CASE s # NumShards
    BY Zenon, <2>2, StartStableSess
  <2>. QED
    BY Zenon, <2>1, <2>2
<1>4. \A t \in Shards, i \in Sids : i # cur /\ i \in consumers'[t] => i \in consumers[t]
  BY <1>1
<1>5. \A t \in Shards, i \in Sids : sess[i].state = "none" /\ Clearing(t, i) => Clearing(t, i)'
  BY Zenon, <1>1, <1>2, <1>4 DEF Clearing
<1>. QED
  BY Zenon, <1>1, <1>3, <1>5, LeakKeeps

LEMMA StopReplicationLeak ==
    ASSUME TypeInv, LeakInv, NEW i \in Sids, StopReplication(i)
    PROVE  LeakInv'
<1> DEFINE stop == [t |-> "stop", sid |-> i]
           cancel == [t |-> "cancel", sid |-> i]
<1>1. /\ UNCHANGED <<snaps, consumers>> /\ shardQ \in [Shards -> Seq(ShardMsg)]
      /\ shardQ' = Send(Send(shardQ, stop), cancel) /\ lost' = lost \ {i}
  BY Zenon DEF StopReplication, StopAndCancel, shardVars, TypeInv, TypeOK
<1>2. /\ stop \in ShardMsg /\ cancel \in ShardMsg
      /\ stop \in Msg("stop", i) /\ cancel \in Msg("cancel", i)
      /\ \A j : stop \notin Msg("snapshot", j) /\ cancel \notin Msg("snapshot", j)
      /\ cancel \notin Msg("stop", i)
  <2>1. stop \in ShardMsg /\ cancel \in ShardMsg
    BY Zenon, MsgTypes
  <2>. QED
    BY <2>1 DEF Msg
<1> HIDE DEF stop, cancel
<1>3. \A t \in Shards : /\ shardQ[t] \in Seq(ShardMsg) /\ Append(shardQ[t], stop) \in Seq(ShardMsg)
                        /\ shardQ'[t] = Append(Append(shardQ[t], stop), cancel)
  <2>1. \A t \in Shards : shardQ'[t] = Append(Append(shardQ[t], stop), cancel)
    BY Zenon, <1>1 DEF Send
  <2>. QED
    BY <1>1, <1>2, <2>1, AppendFacts
<1>4. ASSUME NEW t \in Shards
      PROVE  Clearing(t, i)'
  <2>1. Cleared(shardQ'[t], i)
    BY Zenon, <1>2, <1>3, ClearedAppend
  <2>2. ~None(shardQ'[t], Msg("stop", i))
    <3>1. None(Append(Append(shardQ[t], stop), cancel), Msg("stop", i)) => stop \notin Msg("stop", i)
      BY <1>2, <1>3, NoneAppendTwo
    <3>. QED
      BY Zenon, <1>2, <1>3, <3>1
  <2>. QED
    BY Zenon, <2>1, <2>2 DEF Clearing
<1>5. ASSUME NEW t \in Shards, NEW j \in Sids, Clearing(t, j)
      PROVE  Clearing(t, j)'
  <2>1. /\ None(shardQ[t], Msg("snapshot", j)) => None(shardQ'[t], Msg("snapshot", j))
        /\ ~None(shardQ[t], Msg("stop", j)) => ~None(shardQ'[t], Msg("stop", j))
    <3>1. \A S : None(Append(Append(shardQ[t], stop), cancel), S)
                    <=> None(shardQ[t], S) /\ stop \notin S /\ cancel \notin S
      BY <1>2, <1>3, NoneAppendTwo
    <3>. QED
      BY Zenon, <1>2, <1>3, <3>1
  <2>2. Cleared(shardQ[t], j) => Cleared(shardQ'[t], j)
    BY Zenon, <1>2, <1>3, ClearedAppend
  <2>. QED
    BY Zenon, <1>1, <1>5, <2>1, <2>2 DEF Clearing
<1>6. \A j \in Sids : j # i /\ sess'[j].state = "none" /\ j \notin lost' => sess[j].state = "none" /\ j \notin lost
  <2>1. \A j \in Sids : j # i => sess'[j] = sess[j]
    BY Zenon, StopSess
  <2>. QED
    BY Zenon, <1>1, <2>1
<1>. QED
  BY Zenon, <1>4, <1>5, <1>6 DEF LeakInv

LEMMA ConnectLeak ==
    ASSUME TypeInv, LeakInv, Connect
    PROVE  LeakInv'
<1>1. UNCHANGED <<lost, snaps, shardQ, consumers>>
  BY Zenon DEF Connect, shardVars
<1>2. \A i \in Sids : sess'[i].state = "none" => sess[i].state = "none"
  BY ConnectSess
<1>. QED
  BY Zenon, <1>1, <1>2, LeakSame

LEMMA MasterRestartLeak ==
    ASSUME MasterRestart
    PROVE  LeakInv'
<1>1. /\ snaps' = [s \in Shards |-> [i \in Sids |-> NoSnap]]
      /\ shardQ' = [s \in Shards |-> <<>>] /\ consumers' = [s \in Shards |-> {}]
  BY Zenon DEF MasterRestart
<1>2. \A s \in Shards, i \in Sids : snaps'[s][i] = NoSnap /\ shardQ'[s] = <<>> /\ i \notin consumers'[s]
  BY Zenon, <1>1
<1>3. \A S : None(<<>>, S)
  BY DEF None
<1>. QED
  BY Zenon, <1>2, <1>3 DEF LeakInv, Clearing

----------------------------------------------------------------------------
(* CloseInv is inductive *)

(* What CloseInv speaks of.                                                *)
closeVars == <<lost, consumers, shardQ, frames, chan, sess, cur, up, stableNext, snaps>>

LEMMA CloseSame ==
    ASSUME TypeInv, TypeInv', CloseInv, UNCHANGED closeVars
    PROVE  CloseInv'
<1>1. UNCHANGED <<lost, consumers, shardQ, frames, chan, sess, cur, up, stableNext, snaps>>
  BY Zenon DEF closeVars
<1>2. SidInv'
  BY Zenon, <1>1, GrowsSame, SidUnchanged DEF CloseInv, SidInv
<1>3. StartInv'
  BY Zenon, <1>1, StartKeeps DEF CloseInv
<1>4. LeakInv'
  BY Zenon, <1>1, LeakSame DEF CloseInv
<1>. QED
  BY Zenon, <1>2, <1>3, <1>4 DEF CloseInv

(* A session's connections are gone.                                       *)
LEMMA CloseLost ==
    ASSUME TypeInv, TypeInv', CloseInv, lost' \in {lost, lost \cup {cur}}, up' = FALSE, cur \in Sids \/ lost' = lost,
           UNCHANGED <<consumers, shardQ, frames, chan, sess, cur, snaps>>, stableNext' \in {0, stableNext}
    PROVE  CloseInv'
<1>1. SidInv'
  <2>1. lost' \subseteq 1 .. cur'
    BY DEF CloseInv, SidInv, Sids
  <2>. QED
    BY Zenon, <2>1, GrowsSame, SidUnchanged DEF CloseInv
<1>2. StartInv'
  <2>1. ~up'
    BY Zenon
  <2>2. CASE stableNext' = stableNext
    BY Zenon, <2>1, <2>2, StartKeeps DEF CloseInv
  <2>3. CASE stableNext' = 0
    BY Zenon, <2>1, <2>3 DEF StartInv
  <2>. QED
    BY Zenon, <2>2, <2>3
<1>3. LeakInv'
  <2>1. lost \subseteq lost'
    BY Zenon
  <2>. QED
    BY Zenon, <2>1, LeakSame DEF CloseInv
<1>. QED
  BY Zenon, <1>1, <1>2, <1>3 DEF CloseInv

LEMMA CloseInit == Init => CloseInv
<1> SUFFICES ASSUME Init PROVE CloseInv
  OBVIOUS
<1>1. SidInv
  <2>1. \A S : <<>> \in Seq(S)
    OBVIOUS
  <2>2. /\ shardQ = [s \in Shards |-> <<>>] /\ frames = [s \in Shards |-> <<>>]
        /\ chan = [s \in Shards |-> <<>>] /\ consumers = [s \in Shards |-> {}] /\ lost = {}
    BY Zenon DEF Init
  <2>. QED
    BY Zenon, <2>1, <2>2 DEF SidInv
<1>2. StartInv
  BY Zenon DEF Init, StartInv
<1>3. LeakInv
  <2>1. \A s \in Shards, i \in Sids : snaps[s][i] = NoSnap /\ shardQ[s] = <<>> /\ i \notin consumers[s]
    BY Zenon DEF Init
  <2>2. \A S : None(<<>>, S)
    BY DEF None
  <2>. QED
    BY Zenon, <2>1, <2>2 DEF LeakInv, Clearing
<1>. QED
  BY Zenon, <1>1, <1>2, <1>3 DEF CloseInv

(* The steps of a shard, of the IO thread and of the control thread keep   *)
(* CloseInv.                                                               *)
LEMMA CloseShard ==
    ASSUME TypeInv, TypeInv', CloseInv, NEW s \in Shards, ShardStep(s)
    PROVE  CloseInv'
<1>1. CASE HandleMsg(s)
  BY Zenon, <1>1, HandleMsgSid, HandleMsgStart, HandleMsgLeak DEF CloseInv
<1>2. CASE Ship(s)
  <2>1. StartInv'
    <3>1. UNCHANGED <<cur, stableNext, up, lost, sess, consumers>>
      BY Zenon, <1>2 DEF Ship, replicaVars
    <3>. QED
      BY Zenon, <3>1, StartKeeps DEF CloseInv
  <2>. QED
    BY Zenon, <1>2, <2>1, ShipSid, ShipLeak DEF CloseInv
<1>. QED
  BY Zenon, <1>1, <1>2 DEF ShardStep

LEMMA CloseIo ==
    ASSUME TypeInv, TypeInv', CloseInv, IoStep
    PROVE  CloseInv'
<1>1. CASE \E s \in Shards : DflyFlow(s)
  <2>1. PICK s \in Shards : DflyFlow(s)
    BY Zenon, <1>1
  <2>2. StartInv'
    <3>1. cur \in Sids /\ UNCHANGED <<cur, stableNext, up, lost, consumers>>
      BY Zenon, <2>1, CurSid DEF DflyFlow, shardVars
    <3>2. sess'[cur].state = sess[cur].state
      BY Zenon, <2>1, <3>1, DflyFlowSess
    <3>. QED
      BY Zenon, <3>1, <3>2, StartKeeps DEF CloseInv
  <2>. QED
    BY Zenon, <2>1, <2>2, DflyFlowSid, DflyFlowLeak DEF CloseInv
<1>2. CASE \E s \in Shards : DrainRepl(s)
  <2>1. PICK s \in Shards : DrainRepl(s)
    BY Zenon, <1>2
  <2>2. StartInv'
    <3>1. UNCHANGED <<cur, stableNext, up, lost, consumers>> /\ stableNext = 0
      BY Zenon, <2>1 DEF DrainRepl, shardVars
    <3>2. CASE cur \in Sids
      <4>1. sess'[cur].state = sess[cur].state
        BY Zenon, <2>1, <3>2, DrainReplSess
      <4>. QED
        BY Zenon, <3>1, <4>1, StartKeeps DEF CloseInv
    <3>3. CASE cur \notin Sids
      <4>1. ~up /\ ~up'
        BY Zenon, <3>1, <3>3, CurSid
      <4>. QED
        BY Zenon, <3>1, <4>1 DEF StartInv, CloseInv
    <3>. QED
      BY Zenon, <3>2, <3>3
  <2>. QED
    BY Zenon, <2>1, <2>2, DrainReplSid, DrainReplLeak DEF CloseInv
<1>3. CASE \E s \in Shards : StartStableSync(s)
  BY Zenon, <1>3, StartStableSyncSid, StartStableSyncStart, StartStableSyncLeak DEF CloseInv
<1>4. CASE \E s \in Shards : StartStableFails(s)
  <2>1. PICK s \in Shards : StartStableFails(s)
    BY Zenon, <1>4
  <2>2. /\ UNCHANGED <<consumers, shardQ, frames, chan, sess, cur, snaps>> /\ stableNext' = 0
        /\ lost' \in {lost, lost \cup {cur}}
        /\ up' = FALSE \/ (~up /\ up' = up)
        /\ up \/ lost' = lost
    BY Zenon, <2>1 DEF StartStableFails, GiveUp, shardVars
  <2>3. up' = FALSE
    BY <2>2
  <2>4. cur \in Sids \/ lost' = lost
    BY Zenon, <2>2, CurSid
  <2>. QED
    BY Zenon, <2>2, <2>3, <2>4, CloseLost
<1>5. CASE DflySync
  BY Zenon, <1>5, DflySyncSid, DflySyncStart, DflySyncLeak DEF CloseInv
<1>6. CASE DflyStartStable
  <2>1. UNCHANGED <<lost, consumers, shardQ, frames, chan, sess, cur, snaps>>
    BY Zenon, <1>6 DEF DflyStartStable, shardVars, replicaVars
  <2>2. SidInv'
    BY Zenon, <2>1, GrowsSame, SidUnchanged DEF CloseInv, SidInv
  <2>3. LeakInv'
    BY Zenon, <2>1, LeakSame DEF CloseInv
  <2>. QED
    BY Zenon, <1>6, <2>2, <2>3, DflyStartStableStart DEF CloseInv
<1>7. CASE \E i \in Sids : StopReplication(i)
  BY Zenon, <1>7, StopReplicationSid, StopReplicationStart, StopReplicationLeak DEF CloseInv
<1>. QED
  BY Zenon, <1>1, <1>2, <1>3, <1>4, <1>5, <1>6, <1>7 DEF IoStep

LEMMA CloseControl ==
    ASSUME TypeInv, TypeInv', CloseInv, ControlStep
    PROVE  CloseInv'
<1>1. CASE Connect
  BY Zenon, <1>1, ConnectSid, ConnectStart, ConnectLeak DEF CloseInv
<1>2. CASE GiveUp /\ UNCHANGED <<masterVars, writes, losses, cur, next>>
  <2>1. /\ UNCHANGED <<consumers, shardQ, frames, chan, sess, cur, snaps, stableNext>>
        /\ lost' \in {lost, lost \cup {cur}} /\ up' = FALSE
        /\ up \/ lost' = lost
    BY Zenon, <1>2 DEF GiveUp, masterVars, shardVars
  <2>2. cur \in Sids \/ lost' = lost
    BY Zenon, <2>1, CurSid
  <2>. QED
    BY Zenon, <2>1, <2>2, CloseLost
<1>3. CASE UNCHANGED <<masterVars, cur, up, lost>>
  BY Zenon, <1>3, CloseSame DEF closeVars, masterVars, shardVars
<1>. QED
  BY Zenon, <1>1, <1>2, <1>3 DEF ControlStep, FlowsStarted, RetryFull, SyncReply, LoadDone, SessionFails

LEMMA CloseNext ==
    ASSUME TypeInv, TypeInv', CloseInv, [Next]_vars
    PROVE  CloseInv'
<1>1. CASE \E s \in Shards, k \in Keys, op \in Ops : Write(s, k, op)
  <2>1. PICK s \in Shards, k \in Keys, op \in Ops : Write(s, k, op)
    BY Zenon, <1>1
  <2>2. UNCHANGED <<cur, stableNext, up, lost, sess, consumers, snaps, shardQ>>
    BY Zenon, <2>1 DEF Write, replicaVars
  <2>3. StartInv' /\ LeakInv'
    BY Zenon, <2>2, StartKeeps, LeakSame DEF CloseInv
  <2>. QED
    BY Zenon, <2>1, <2>3, WriteSid DEF CloseInv
<1>2. CASE \E s \in Shards : ShardStep(s)
  BY Zenon, <1>2, CloseShard
<1>3. CASE \E s \in Shards : FlowStep(s) \/ PerformLate(s)
  <2>1. UNCHANGED <<masterVars, cur, up, lost>>
    BY Zenon, <1>3 DEF FlowStep, Receive, Perform, PerformLate
  <2>. QED
    BY Zenon, <2>1, CloseSame DEF closeVars, masterVars, shardVars
<1>4. CASE IoStep
  BY Zenon, <1>4, CloseIo
<1>5. CASE ControlStep
  BY Zenon, <1>5, CloseControl
<1>6. CASE OtherFlow
  <2>1. UNCHANGED <<cur, stableNext, up, lost, sess, consumers>>
    BY Zenon, <1>6 DEF OtherFlow, shardVars, replicaVars
  <2>2. StartInv'
    BY Zenon, <2>1, StartKeeps DEF CloseInv
  <2>. QED
    BY Zenon, <1>6, <2>2, OtherFlowSid, OtherFlowLeak DEF CloseInv
<1>7. CASE Lose
  <2>1. /\ UNCHANGED <<consumers, shardQ, frames, chan, sess, cur, snaps, stableNext>>
        /\ lost' = lost \cup {cur} /\ up' = FALSE /\ cur \in Sids
    BY Zenon, <1>7, CurSid DEF Lose, masterVars, shardVars
  <2>. QED
    BY Zenon, <2>1, CloseLost
<1>8. CASE MasterRestart
  BY Zenon, <1>8, MasterRestartSid, MasterRestartStart, MasterRestartLeak DEF CloseInv
<1>9. CASE UNCHANGED vars
  BY Zenon, <1>9, CloseSame DEF closeVars, vars, masterVars, shardVars, replicaVars
<1>. QED
  BY Zenon, <1>1, <1>2, <1>3, <1>4, <1>5, <1>6, <1>7, <1>8, <1>9 DEF Next

(* Closed sessions leak nothing.                                           *)
LEMMA CloseLeaks == CloseInv => NothingLeaks
<1>1. \A S, i : None(<<>>, S) /\ ~Cleared(<<>>, i)
  BY DEF None, Cleared
<1>. QED
  BY Zenon, <1>1 DEF CloseInv, LeakInv, Clearing, NothingLeaks

(* Once the master has closed a session and a shard has drained its queue, *)
(* no snapshot of it is left on the shard and no consumer streams to it    *)
(* (`stop_replication`, `CancelFullSync`, `drain_repl`), for any number of *)
(* shards, keys, writes, sessions and losses.                              *)
THEOREM ClosedSessionsLeakNothing == Spec => []NothingLeaks
<1>1. Init => TypeInv /\ CloseInv
  BY Zenon, TypeInit, CloseInit
<1>2. TypeInv /\ CloseInv /\ [Next]_vars => (TypeInv /\ CloseInv)'
  BY Zenon, TypeNext, CloseNext
<1>. QED
  BY <1>1, <1>2, CloseLeaks, PTL DEF Spec

(* `start_stable_sync` finds no consumer of its session on the shard, so   *)
(* that a session has one entry in `repl_consumers` at most.               *)
THEOREM SessionsRegisterOnce == Spec => [][RegistersOnce]_vars
<1>1. Spec => [](TypeInv /\ CloseInv)
  <2>1. Init => TypeInv /\ CloseInv
    BY Zenon, TypeInit, CloseInit
  <2>2. TypeInv /\ CloseInv /\ [Next]_vars => (TypeInv /\ CloseInv)'
    BY Zenon, TypeNext, CloseNext
  <2>. QED
    BY <2>1, <2>2, PTL DEF Spec
<1>2. ASSUME TypeInv, CloseInv
      PROVE  RegistersOnce
  <2> SUFFICES ASSUME NEW s \in Shards, StartStableSync(s)
               PROVE  cur \notin consumers[s]
    BY Zenon DEF RegistersOnce
  <2>1. stableNext = s /\ StartInv
    BY Zenon, <1>2 DEF StartStableSync, CloseInv
  <2>2. ~(s < stableNext) /\ stableNext # 0
    BY <2>1, ReplicationAssumption DEF Shards
  <2>. QED
    BY Zenon, <2>1, <2>2 DEF StartInv
<1>. QED
  BY <1>1, <1>2, PTL DEF Spec
=============================================================================
