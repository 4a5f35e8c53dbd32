-------------------------- MODULE ReplicationProofs -------------------------
(***************************************************************************)
(* A stable flow of replication gets the records it counts, for every      *)
(* number of shards, keys, sessions, writes and losses: the records on the *)
(* way to a flow, and how each step moves the flows of a session along.    *)
(***************************************************************************)
EXTENDS ReplicationFlowProofs

(* Records that are counted, in one queue and in two.                      *)
LEMMA TailConcat ==
    ASSUME NEW T, NEW q \in Seq(T), NEW r \in Seq(T), q # <<>>
    PROVE  Tail(q \o r) = Tail(q) \o r /\ Head(q \o r) = Head(q) /\ q \o r # <<>>
  OBVIOUS

LEMMA CountsConcat ==
    ASSUME NEW q \in Seq(Item), NEW r \in Seq(Item), NEW f \in Nat,
           Counts(q, f), Len(r) = 1, r[1].t = "rec", r[1].lsn = f + Len(q)
    PROVE  Counts(q \o r, f) /\ Len(q \o r) = Len(q) + 1
<1>1. Len(q \o r) = Len(q) + 1
  <2>1. Len(q \o r) = Len(q) + Len(r)
    BY Zenon, ConcatFacts
  <2>. QED
    BY Zenon, <2>1
<1>2. ASSUME NEW n \in DOMAIN (q \o r)
      PROVE  (q \o r)[n].t = "rec" /\ (q \o r)[n].lsn = f + n - 1
  <2>1. /\ n \in Nat /\ Len(q) \in Nat
        /\ \/ n \in DOMAIN q /\ (q \o r)[n] = q[n]
           \/ n - Len(q) \in DOMAIN r /\ (q \o r)[n] = r[n - Len(q)]
    BY ConcatSplit
  <2>2. CASE n \in DOMAIN q /\ (q \o r)[n] = q[n]
    BY Zenon, <2>2 DEF Counts
  <2>3. CASE n - Len(q) \in DOMAIN r /\ (q \o r)[n] = r[n - Len(q)]
    <3>1. n - Len(q) = 1
      BY <2>1, <2>3
    <3>2. f + n - 1 = f + Len(q)
      BY <2>1, <3>1
    <3>. QED
      BY Zenon, <2>3, <3>1, <3>2
  <2>. QED
    BY Zenon, <2>1, <2>2, <2>3
<1>. QED
  BY Zenon, <1>1, <1>2 DEF Counts

(* The next record of the stream reaches the flow's socket.                *)
LEMMA DrainFollows ==
    ASSUME TypeInv, NEW s \in Shards, DrainRepl(s), up, cur \in Sids, sess[cur].state # "none",
           FirstChunk(s).sid = cur, NEW n \in Nat, Follows(s, n)
    PROVE  /\ Follows(s, n + 1)'
           /\ FirstChunk(s).items \in Seq(Item) /\ Len(FirstChunk(s).items) = 1
           /\ FirstChunk(s).items[1].t = "rec" /\ FirstChunk(s).items[1].lsn = next[s] + n
           /\ Incoming(s)' = Incoming(s) \o FirstChunk(s).items
<1> DEFINE c == FirstChunk(s)
<1>1. /\ UNCHANGED <<cur, fpc, next, held, log, consumers, frames>>
      /\ chan[s] # <<>> /\ chan[s] \in Seq(Chunk) /\ c \in Chunk /\ chan'[s] = Tail(chan[s])
      /\ shardQ[s] \in Seq(ShardMsg)
      /\ shardQ'[s] = IF c.full /\ c.cut = 0
                      THEN Append(shardQ[s], [t |-> "step", sid |-> c.sid]) ELSE shardQ[s]
      /\ down'[s] = down[s] \o c.items
  BY Zenon, DrainFacts
<1>2. c.sid \in Sids /\ c.full \in BOOLEAN /\ c.items \in Seq(Item) /\ c.cut \in Nat /\ c = Head(chan[s]) /\ c.sid = cur
  BY Zenon, <1>1, ChunkFields DEF FirstChunk
<1>3. c \in Full(cur) \/ c \in Stream(cur)
  BY Zenon, <1>1, <1>2 DEF Full, Stream
<1> HIDE DEF c
<1>4. /\ cur \in consumers[s] /\ NoWork(s) /\ next[s] # 0 /\ next[s] + n <= Lsn(s)
      /\ Chunks(chan[s], cur, next[s] + n, Len(log[s]))
  BY Zenon DEF Follows
<1>5. c \in Stream(cur) /\ None(chan'[s], Full(cur))
  <2>1. None(chan[s], Full(cur))
    BY Zenon, <1>4 DEF NoWork
  <2>2. Head(chan[s]) \notin Full(cur) /\ None(Tail(chan[s]), Full(cur))
    BY <1>1, <2>1, NoneTail
  <2>. QED
    BY Zenon, <1>1, <1>2, <1>3, <2>2
<1>6. next[s] + n \in Nat /\ Len(log[s]) \in Int /\ next[s] \in Nat /\ Lsn(s) = Len(log[s]) + 1
  <2>1. next[s] \in Nat /\ Len(log[s]) \in Nat /\ Lsn(s) = Len(log[s]) + 1
    BY Zenon, FlowTypes
  <2>. QED
    BY <2>1
<1>7. /\ next[s] + n <= Len(log[s]) /\ c \in RecChunk(cur, next[s] + n)
      /\ Chunks(Tail(chan[s]), cur, (next[s] + n) + 1, Len(log[s]))
  <2>1. Head(chan[s]) \in Stream(cur)
    BY Zenon, <1>2, <1>5
  <2>2. /\ next[s] + n <= Len(log[s]) /\ Head(chan[s]) \in RecChunk(cur, next[s] + n)
        /\ Chunks(Tail(chan[s]), cur, (next[s] + n) + 1, Len(log[s]))
    BY Zenon, <1>1, <1>4, <1>6, <2>1, ChunksHead
  <2>. QED
    BY Zenon, <1>2, <2>2
<1>8. ~c.full /\ Len(c.items) = 1 /\ c.items[1].t = "rec" /\ c.items[1].lsn = next[s] + n
  BY Zenon, <1>7 DEF RecChunk, Stream
<1>9. NoWork(s)'
  BY Zenon, <1>1, <1>4, <1>5, <1>8 DEF NoWork
<1>10. (next[s] + n) + 1 = next[s] + (n + 1) /\ next[s] + (n + 1) <= Lsn(s)
  BY <1>6, <1>7
<1>11. Lsn(s)' = Lsn(s)
  BY Zenon, <1>1 DEF Lsn
<1>12. Incoming(s)' = Incoming(s) \o c.items
  <2>1. held[s] \in Seq(Item) /\ down[s] \in Seq(Item)
    BY Zenon, FlowTypes
  <2>2. held[s] \o (down[s] \o c.items) = (held[s] \o down[s]) \o c.items
    BY Zenon, <1>2, <2>1, ConcatAssoc
  <2>. QED
    BY Zenon, <1>1, <2>2 DEF Incoming
<1>13. Chunks(chan'[s], cur, next[s] + (n + 1), Len(log[s]))
  BY Zenon, <1>1, <1>7, <1>10
<1>14. Follows(s, n + 1)'
  BY Zenon, <1>1, <1>4, <1>9, <1>10, <1>11, <1>13 DEF Follows
<1>. QED
  BY Zenon, <1>2, <1>8, <1>12, <1>14 DEF c

(* So a streaming flow goes on streaming.                                  *)
LEMMA DrainStreaming ==
    ASSUME TypeInv, NEW s \in Shards, DrainRepl(s), up, cur \in Sids, sess[cur].state # "none",
           FirstChunk(s).sid = cur, Streaming(s)
    PROVE  Streaming(s)'
<1> DEFINE r == FirstChunk(s).items
<1>1. /\ Incoming(s) \in Seq(Item) /\ Len(Incoming(s)) \in Nat /\ next[s] \in Nat
      /\ fpc'[s] = fpc[s] /\ next'[s] = next[s]
  BY Zenon, FlowTypes, DrainFacts
<1>2. CASE fpc[s] = "stable" /\ Counts(Incoming(s), next[s]) /\ Follows(s, Len(Incoming(s)))
  <2>1. PICK n \in Nat : n = Len(Incoming(s))
    BY Zenon, <1>1
  <2>2. /\ Follows(s, n + 1)' /\ r \in Seq(Item) /\ Len(r) = 1
        /\ r[1].t = "rec" /\ r[1].lsn = next[s] + n /\ Incoming(s)' = Incoming(s) \o r
    BY Zenon, <1>2, <2>1, DrainFollows
  <2> HIDE DEF r
  <2>3. Counts(Incoming(s) \o r, next[s]) /\ Len(Incoming(s) \o r) = n + 1
    BY Zenon, <1>1, <1>2, <2>1, <2>2, CountsConcat
  <2>4. Follows(s, Len(Incoming(s)))'
    BY Zenon, <2>2, <2>3 DEF Follows
  <2>. QED
    BY Zenon, <1>1, <1>2, <2>2, <2>3, <2>4 DEF Streaming
<1>3. CASE /\ fpc[s] = "token" /\ Incoming(s) # <<>> /\ Head(Incoming(s)).t = "token"
           /\ Counts(Tail(Incoming(s)), next[s]) /\ Follows(s, Len(Tail(Incoming(s))))
  <2>0. Tail(Incoming(s)) \in Seq(Item) /\ Len(Tail(Incoming(s))) \in Nat
    BY <1>1, <1>3, TailFacts
  <2>1. PICK n \in Nat : n = Len(Tail(Incoming(s)))
    BY Zenon, <2>0
  <2>2. /\ Follows(s, n + 1)' /\ r \in Seq(Item) /\ Len(r) = 1
        /\ r[1].t = "rec" /\ r[1].lsn = next[s] + n /\ Incoming(s)' = Incoming(s) \o r
    BY Zenon, <1>3, <2>1, DrainFollows
  <2> HIDE DEF r
  <2>3. Counts(Tail(Incoming(s)) \o r, next[s]) /\ Len(Tail(Incoming(s)) \o r) = n + 1
    BY Zenon, <1>1, <1>3, <2>0, <2>1, <2>2, CountsConcat
  <2>4. /\ Tail(Incoming(s)') = Tail(Incoming(s)) \o r /\ Head(Incoming(s)') = Head(Incoming(s))
        /\ Incoming(s)' # <<>>
    BY Zenon, <1>1, <1>3, <2>2, TailConcat
  <2>5. Follows(s, Len(Tail(Incoming(s))))'
    BY Zenon, <2>2, <2>3, <2>4 DEF Follows
  <2>. QED
    BY Zenon, <1>1, <1>3, <2>3, <2>4, <2>5 DEF Streaming
<1>. QED
  BY Zenon, <1>2, <1>3 DEF Streaming

FirstItem(s) == held[s][1]

(* What the flow thread holds is the first of what comes.                  *)
LEMMA OneHeld ==
    ASSUME NEW T, NEW h \in Seq(T), NEW d \in Seq(T), h # <<>>, Len(h) <= 1
    PROVE  /\ h[1] = Head(h \o d) /\ h[1] \in T /\ h \o d # <<>> /\ Tail(h \o d) = <<>> \o d
  OBVIOUS

(* What the flow thread does to its own state with the item it holds.      *)
LEMMA PerformFacts ==
    ASSUME TypeInv, NEW s \in Shards, Perform(s), Len(held[s]) <= 1
    PROVE  /\ UNCHANGED <<cur, sess, log, shardQ, consumers, frames, chan, down, up, rpc, stableNext, lost>>
           /\ FirstItem(s) = Head(Incoming(s)) /\ FirstItem(s) \in Item
           /\ Incoming(s) # <<>> /\ Incoming(s)' = Tail(Incoming(s))
           /\ held'[s] = <<>>
           /\ next'[s] = IF StoredLsn(s, FirstItem(s)) = 0 THEN next[s] ELSE StoredLsn(s, FirstItem(s))
           /\ fpc'[s] = CASE FirstItem(s).t = "tail"  -> "token"
                          [] FirstItem(s).t = "token" -> "stable"
                          [] OTHER                    -> fpc[s]
           /\ \A t \in Shards \ {s} : held'[t] = held[t] /\ next'[t] = next[t] /\ fpc'[t] = fpc[t]
<1> DEFINE item == FirstItem(s)
           lsn == StoredLsn(s, item)
           pc == CASE item.t = "tail"  -> "token"
                   [] item.t = "token" -> "stable"
                   [] OTHER            -> fpc[s]
<1>1. /\ UNCHANGED <<cur, sess, log, shardQ, consumers, frames, chan, down, up, rpc, stableNext, lost>>
      /\ held[s] # <<>> /\ held' = [held EXCEPT ![s] = <<>>]
      /\ next' = [next EXCEPT ![s] = IF lsn = 0 THEN next[s] ELSE lsn]
      /\ DOMAIN held = Shards /\ DOMAIN next = Shards /\ DOMAIN fpc = Shards
  BY Zenon DEF Perform, FirstItem, masterVars, shardVars, TypeInv, TypeOK
<1>2. fpc' = [fpc EXCEPT ![s] = pc]
  BY DEF Perform, FirstItem
<1> HIDE DEF item, lsn, pc
<1>3. /\ held'[s] = <<>> /\ next'[s] = IF lsn = 0 THEN next[s] ELSE lsn
      /\ fpc'[s] = pc
      /\ \A t \in Shards \ {s} : held'[t] = held[t] /\ next'[t] = next[t] /\ fpc'[t] = fpc[t]
  BY Zenon, <1>1, <1>2
<1>4. /\ item = Head(Incoming(s)) /\ item \in Item /\ Incoming(s) # <<>>
      /\ Incoming(s)' = Tail(Incoming(s))
  <2>1. held[s] \in Seq(Item) /\ down[s] \in Seq(Item)
    BY Zenon, FlowTypes
  <2>2. /\ held[s][1] = Head(held[s] \o down[s]) /\ held[s][1] \in Item /\ held[s] \o down[s] # <<>>
        /\ Tail(held[s] \o down[s]) = <<>> \o down[s]
    BY Zenon, <1>1, <2>1, OneHeld
  <2>. QED
    BY Zenon, <1>1, <1>3, <2>2 DEF Incoming, item, FirstItem
<1>. QED
  BY Zenon, <1>1, <1>3, <1>4 DEF item, lsn, pc

(* The flows of the other shards.                                          *)
LEMMA PerformApart ==
    ASSUME TypeInv, NEW s \in Shards, Perform(s), Len(held[s]) <= 1, NEW t \in Shards, t # s
    PROVE  Apart(t)
<1>1. /\ UNCHANGED <<cur, sess, log, shardQ, consumers, frames, chan, down>>
      /\ held'[t] = held[t] /\ next'[t] = next[t] /\ fpc'[t] = fpc[t]
  BY Zenon, PerformFacts
<1>. QED
  BY Zenon, <1>1, ApartSame

(* The rest of a snapshot.                                                 *)
LEMMA LoadsTail ==
    ASSUME NEW q \in Seq(Item), q # <<>>, NEW cut, NEW l, Loads(q, cut, l)
    PROVE  /\ Loads(Tail(q), cut, l) /\ (HasTail(Tail(q)) => HasTail(q))
           /\ Head(q).t \in {"entry", "rec", "tail"}
           /\ Head(q).t = "tail" =>
                 HasTail(q) /\ Tail(q) = <<>> /\ Head(q).cut = cut /\ cut # 0 /\ cut <= l
<1>1. \A n \in DOMAIN Tail(q) : n + 1 \in DOMAIN q /\ Tail(q)[n] = q[n + 1] /\ n \in Nat
  BY Zenon, TailShift
<1>2. \A n \in DOMAIN Tail(q) : n + 1 = Len(q) => n = Len(Tail(q))
  <2>1. Len(Tail(q)) = Len(q) - 1 /\ Len(q) \in Nat
    BY TailFacts
  <2>. QED
    BY <1>1, <2>1
<1>3. Loads(Tail(q), cut, l) /\ (HasTail(Tail(q)) => HasTail(q))
  BY Zenon, <1>1, <1>2 DEF Loads, HasTail
<1>4. 1 \in DOMAIN q /\ q[1] = Head(q) /\ (1 = Len(q) => Tail(q) = <<>>)
  <2>1. /\ DOMAIN q = 1 .. Len(q) /\ Len(q) \in Nat /\ Len(q) # 0 /\ q[1] = Head(q)
        /\ Tail(q) \in Seq(Item) /\ Len(Tail(q)) = Len(q) - 1
    BY TailFacts
  <2>2. \A r \in Seq(Item) : Len(r) = 0 => r = <<>>
    OBVIOUS
  <2>. QED
    BY <2>1, <2>2
<1>5. /\ Head(q).t \in {"entry", "rec", "tail"}
      /\ Head(q).t = "tail" => 1 = Len(q) /\ HasTail(q) /\ Head(q).cut = cut /\ cut # 0 /\ cut <= l
  BY Zenon, <1>4 DEF Loads, HasTail
<1>. QED
  BY Zenon, <1>3, <1>4, <1>5

(* The flow thread loads an item of its snapshot.                          *)
LEMMA PerformLoading ==
    ASSUME TypeInv, NEW s \in Shards, Perform(s), Len(held[s]) <= 1, Loading(s)
    PROVE  Loading(s)' \/ Ready(s)'
<1> DEFINE item == FirstItem(s)
<1>1. /\ UNCHANGED <<cur, sess, log, shardQ, consumers, frames, chan, down>>
      /\ item = Head(Incoming(s)) /\ Incoming(s) # <<>> /\ Incoming(s)' = Tail(Incoming(s))
      /\ next'[s] = IF StoredLsn(s, item) = 0 THEN next[s] ELSE StoredLsn(s, item)
      /\ fpc'[s] = CASE item.t = "tail"  -> "token"
                     [] item.t = "token" -> "stable"
                     [] OTHER            -> fpc[s]
  BY Zenon, PerformFacts
<1>2. /\ fpc[s] = "load" /\ NoStream(s) /\ OneWork(s)
      /\ Loads(Incoming(s), sess[cur].start[s], Lsn(s))
      /\ HasTail(Incoming(s)) => NoWork(s)
      /\ None(chan[s], Full(cur) \ Loadable(Lsn(s)))
  BY Zenon DEF Loading
<1>3. /\ Loads(Tail(Incoming(s)), sess[cur].start[s], Lsn(s))
      /\ HasTail(Tail(Incoming(s))) => HasTail(Incoming(s))
      /\ item.t \in {"entry", "rec", "tail"}
      /\ item.t = "tail" => /\ HasTail(Incoming(s)) /\ Tail(Incoming(s)) = <<>>
                            /\ item.cut = sess[cur].start[s]
                            /\ sess[cur].start[s] # 0 /\ sess[cur].start[s] <= Lsn(s)
  <2>1. Incoming(s) \in Seq(Item)
    BY Zenon, FlowTypes
  <2>. QED
    BY Zenon, <1>1, <1>2, <2>1, LoadsTail
<1>4. Lsn(s)' = Lsn(s) /\ (NoWork(s) => NoWork(s)') /\ (OneWork(s) => OneWork(s)') /\ (NoStream(s) => NoStream(s)')
  BY Zenon, <1>1 DEF Lsn, NoWork, OneWork, NoStream
<1> HIDE DEF item
<1>5. CASE item.t = "tail"
  <2>1. StoredLsn(s, item) = sess[cur].start[s]
    BY <1>3, <1>5 DEF StoredLsn
  <2>2. fpc'[s] = "token"
    BY <1>1, <1>5
  <2>3. next'[s] = sess[cur].start[s] /\ sess[cur].start[s] # 0 /\ sess[cur].start[s] <= Lsn(s)
    BY Zenon, <1>1, <1>3, <1>5, <2>1
  <2>4. Quiet(s)'
    BY Zenon, <1>1, <1>2, <1>3, <1>4, <1>5 DEF Quiet
  <2>. QED
    BY Zenon, <1>1, <1>4, <2>2, <2>3, <2>4 DEF Ready, AtStart
<1>6. CASE item.t \in {"entry", "rec"}
  <2>1. fpc'[s] = "load"
    BY <1>1, <1>2, <1>6
  <2>. QED
    BY Zenon, <1>1, <1>2, <1>3, <1>4, <2>1 DEF Loading
<1>. QED
  BY Zenon, <1>3, <1>5, <1>6

LEMMA CountsTail ==
    ASSUME NEW q \in Seq(Item), q # <<>>, NEW f \in Nat, Counts(q, f)
    PROVE  /\ Head(q).t = "rec" /\ Counts(Tail(q), f + 1)
           /\ Len(Tail(q)) \in Nat /\ f + Len(q) = (f + 1) + Len(Tail(q))
<1>1. /\ DOMAIN q = 1 .. Len(q) /\ Len(q) \in Nat /\ Len(q) # 0 /\ q[1] = Head(q)
      /\ Tail(q) \in Seq(Item) /\ Len(Tail(q)) = Len(q) - 1
  BY TailFacts
<1>2. 1 \in DOMAIN q /\ Len(Tail(q)) \in Nat /\ f + Len(q) = (f + 1) + Len(Tail(q))
  BY <1>1
<1>3. \A n \in DOMAIN Tail(q) : n + 1 \in DOMAIN q /\ Tail(q)[n] = q[n + 1] /\ n \in Nat
  BY Zenon, TailShift
<1>4. \A n \in Nat : f + (n + 1) - 1 = (f + 1) + n - 1
  OBVIOUS
<1>5. ASSUME NEW n \in DOMAIN Tail(q)
      PROVE  Tail(q)[n].t = "rec" /\ Tail(q)[n].lsn = (f + 1) + n - 1
  <2>1. q[n + 1].t = "rec" /\ q[n + 1].lsn = f + (n + 1) - 1
    BY Zenon, <1>3 DEF Counts
  <2>. QED
    BY Zenon, <1>3, <1>4, <2>1
<1>. QED
  BY Zenon, <1>1, <1>2, <1>5 DEF Counts

(* The flow thread takes the token, or applies a record and counts it.     *)
LEMMA PerformStreaming ==
    ASSUME TypeInv, NEW s \in Shards, Perform(s), Len(held[s]) <= 1, Streaming(s)
    PROVE  Streaming(s)'
<1> DEFINE item == FirstItem(s)
<1>1. /\ UNCHANGED <<cur, sess, log, shardQ, consumers, frames, chan, down>>
      /\ item = Head(Incoming(s)) /\ Incoming(s) # <<>> /\ Incoming(s)' = Tail(Incoming(s))
      /\ next'[s] = IF StoredLsn(s, item) = 0 THEN next[s] ELSE StoredLsn(s, item)
      /\ fpc'[s] = CASE item.t = "tail"  -> "token"
                     [] item.t = "token" -> "stable"
                     [] OTHER            -> fpc[s]
  BY Zenon, PerformFacts
<1>2. Incoming(s) \in Seq(Item) /\ next[s] \in Nat
  BY Zenon, FlowTypes
<1>3. Lsn(s)' = Lsn(s) /\ (NoWork(s) => NoWork(s)')
  BY Zenon, <1>1 DEF Lsn, NoWork
<1> HIDE DEF item
<1>4. CASE fpc[s] = "stable" /\ Counts(Incoming(s), next[s]) /\ Follows(s, Len(Incoming(s)))
  <2>1. /\ item.t = "rec" /\ Counts(Tail(Incoming(s)), next[s] + 1)
        /\ Len(Tail(Incoming(s))) \in Nat
        /\ next[s] + Len(Incoming(s)) = (next[s] + 1) + Len(Tail(Incoming(s)))
    BY Zenon, <1>1, <1>2, <1>4, CountsTail
  <2>2. StoredLsn(s, item) = next[s] + 1
    BY <1>4, <2>1 DEF StoredLsn
  <2>3. next[s] + 1 # 0
    BY <1>2
  <2>4. next'[s] = next[s] + 1 /\ next'[s] # 0
    BY Zenon, <1>1, <2>2, <2>3
  <2>5. fpc'[s] = "stable"
    BY <1>1, <1>4, <2>1
  <2>6. Follows(s, Len(Incoming(s)))'
    BY Zenon, <1>1, <1>3, <1>4, <2>1, <2>4 DEF Follows
  <2>. QED
    BY Zenon, <1>1, <2>1, <2>4, <2>5, <2>6 DEF Streaming
<1>5. CASE /\ fpc[s] = "token" /\ Incoming(s) # <<>> /\ Head(Incoming(s)).t = "token"
           /\ Counts(Tail(Incoming(s)), next[s]) /\ Follows(s, Len(Tail(Incoming(s))))
  <2>1. StoredLsn(s, item) = 0
    BY <1>1, <1>5 DEF StoredLsn
  <2>2. next'[s] = next[s]
    BY Zenon, <1>1, <2>1
  <2>3. fpc'[s] = "stable"
    BY <1>1, <1>5
  <2>4. Follows(s, Len(Incoming(s)))'
    BY Zenon, <1>1, <1>3, <1>5, <2>2 DEF Follows
  <2>. QED
    BY Zenon, <1>1, <1>5, <2>2, <2>3, <2>4 DEF Streaming
<1>. QED
  BY Zenon, <1>4, <1>5 DEF Streaming

----------------------------------------------------------------------------
(* SessionInv is inductive: steps that leave the flows *)

(* A session that is up is one the master has open.                        *)
LEMMA UpOpen ==
    ASSUME TypeInv, SessionInv, up
    PROVE  /\ cur \in Sids /\ sess[cur].state # "none" /\ StateAt /\ \A s \in Shards : FlowAt(s)
           /\ rpc \in {"flows", "sync", "load", "startstable", "stable"}
<1>1. cur \in Sids /\ StateAt /\ \A s \in Shards : FlowAt(s)
  BY Zenon, CurSid DEF SessionInv
<1>2. rpc \in {"flows", "sync", "load", "startstable", "stable"}
  BY <1>1 DEF StateAt, TypeInv, TypeOK
<1>3. sess[cur].state # "none"
  BY <1>1, <1>2 DEF StateAt
<1>. QED
  BY Zenon, <1>1, <1>2, <1>3

(* A flow that a step leaves is where the control thread expects it.       *)
LEMMA FlowAtApart ==
    ASSUME TypeInv, TypeInv', NEW s \in Shards, cur \in Sids, Apart(s), UNCHANGED <<rpc, stableNext>>,
           sess'[cur].state = sess[cur].state, FlowAt(s)
    PROVE  FlowAt(s)'
<1>0. cur' = cur
  BY Zenon DEF Apart
<1>1. (Hello(s) => Hello(s)') /\ (Waiting(s) => Waiting(s)')
  BY Zenon, QuietApart DEF Hello, Waiting, Apart
<1>2. (Loading(s) => Loading(s)') /\ (Ready(s) => Ready(s)')
  BY Zenon, LoadingApart, ReadyApart
<1>3. (Started(s) => Started(s)') /\ (Streaming(s) => Streaming(s)')
  BY Zenon, StartedApart, StreamingApart
<1>. QED
  BY Zenon, <1>0, <1>1, <1>2, <1>3 DEF FlowAt

LEMMA StateAtSame ==
    ASSUME StateAt, UNCHANGED <<cur, rpc, stableNext>>, sess'[cur].state = sess[cur].state
    PROVE  StateAt'
  BY Zenon DEF StateAt

LEMMA UpApart ==
    ASSUME TypeInv, TypeInv', SessionInv, up, up', UNCHANGED <<cur, rpc, stableNext>>,
           sess'[cur].state = sess[cur].state, \A s \in Shards : Apart(s),
           \A s \in Shards : Len(held'[s]) <= 1
    PROVE  SessionInv'
<1>1. cur \in Sids /\ StateAt /\ \A s \in Shards : FlowAt(s)
  BY Zenon, UpOpen
<1>2. StateAt'
  BY Zenon, <1>1, StateAtSame
<1>3. \A s \in Shards : FlowAt(s)'
  BY Zenon, <1>1, FlowAtApart
<1>. QED
  BY Zenon, <1>2, <1>3 DEF SessionInv

LEMMA DownSame ==
    ASSUME SessionInv, ~up, up' = up, UNCHANGED <<down, held, fpc, next>>, rpc' = rpc \/ rpc' # "idle"
    PROVE  SessionInv'
  BY Zenon DEF SessionInv, DownAt

(* A step that leaves the flows and the session.                           *)
LEMMA SessionApart ==
    ASSUME TypeInv, TypeInv', SessionInv, UNCHANGED <<cur, up, rpc, stableNext, down, held, fpc, next>>,
           up => sess'[cur].state = sess[cur].state /\ \A s \in Shards : Apart(s)
    PROVE  SessionInv'
<1>1. CASE up
  <2>1. up' /\ \A s \in Shards : Len(held'[s]) <= 1
    BY Zenon, <1>1 DEF SessionInv
  <2>. QED
    BY Zenon, <1>1, <2>1, UpApart
<1>2. CASE ~up
  BY Zenon, <1>2, DownSame
<1>. QED
  BY Zenon, <1>1, <1>2

(* One lemma per action, each of which keeps SessionInv.                   *)
LEMMA WriteSession ==
    ASSUME TypeInv, TypeInv', SessionInv, NEW s \in Shards, NEW k \in Keys, NEW op \in Ops, Write(s, k, op)
    PROVE  SessionInv'
<1>1. UNCHANGED <<cur, up, rpc, stableNext, down, held, fpc, next, sess>>
  BY Zenon DEF Write, replicaVars, flowVars
<1>2. up => \A t \in Shards : Apart(t)
  BY Zenon, WriteApart, UpOpen
<1>. QED
  BY Zenon, <1>1, <1>2, SessionApart

LEMMA ShardSession ==
    ASSUME TypeInv, TypeInv', SidInv, SessionInv, NEW s \in Shards, ShardStep(s)
    PROVE  SessionInv'
<1>1. CASE HandleMsg(s)
  <2>1. UNCHANGED <<cur, up, rpc, stableNext, down, held, fpc, next, sess>>
    BY Zenon, <1>1 DEF HandleMsg, replicaVars, flowVars
  <2>2. up => \A t \in Shards : Apart(t)
    BY Zenon, <1>1, HandleMsgApart, UpOpen
  <2>. QED
    BY Zenon, <2>1, <2>2, SessionApart
<1>2. CASE Ship(s)
  <2>1. UNCHANGED <<cur, up, rpc, stableNext, down, held, fpc, next, sess>>
    BY Zenon, <1>2 DEF Ship, replicaVars, flowVars
  <2>2. \A t \in Shards : Apart(t)
    BY Zenon, <1>2, ShipApart
  <2>. QED
    BY Zenon, <2>1, <2>2, SessionApart
<1>. QED
  BY Zenon, <1>1, <1>2 DEF ShardStep

LEMMA OtherFlowSession ==
    ASSUME TypeInv, TypeInv', SessionInv, OtherFlow
    PROVE  SessionInv'
<1>1. UNCHANGED <<cur, up, rpc, stableNext, down, held, fpc, next, sess>>
  BY Zenon DEF OtherFlow, replicaVars, flowVars
<1>2. \A t \in Shards : Apart(t)
  BY Zenon, OtherFlowApart
<1>. QED
  BY Zenon, <1>1, <1>2, SessionApart

LEMMA StopReplicationSession ==
    ASSUME TypeInv, TypeInv', StartInv, SessionInv, NEW i \in Sids, StopReplication(i)
    PROVE  SessionInv'
<1>1. UNCHANGED <<cur, up, rpc, stableNext, down, held, fpc, next>> /\ i \in lost
  BY Zenon DEF StopReplication, replicaVars, flowVars
<1>2. ASSUME up
      PROVE  sess'[cur].state = sess[cur].state /\ \A t \in Shards : Apart(t)
  <2>1. cur \in Sids /\ cur # i
    BY Zenon, <1>1, <1>2, UpOpen DEF StartInv
  <2>2. sess'[cur] = sess[cur]
    BY Zenon, <2>1, StopSess
  <2>. QED
    BY Zenon, <2>1, <2>2, StopReplicationApart
<1>. QED
  BY Zenon, <1>1, <1>2, SessionApart

LEMMA PerformLateSession ==
    ASSUME TypeInv, TypeInv', SessionInv, NEW s \in Shards, PerformLate(s)
    PROVE  SessionInv'
<1>1. UNCHANGED <<cur, up, rpc, stableNext, down, held, fpc, next, sess, log, consumers, frames, chan, shardQ>>
  BY Zenon DEF PerformLate, masterVars, shardVars
<1>2. \A t \in Shards : Apart(t)
  BY Zenon, <1>1, ApartSame
<1>. QED
  BY Zenon, <1>1, <1>2, SessionApart

LEMMA ReceiveSession ==
    ASSUME TypeInv, TypeInv', SessionInv, NEW s \in Shards, Receive(s)
    PROVE  SessionInv'
<1>1. /\ UNCHANGED <<cur, up, rpc, stableNext, fpc, next, sess>>
      /\ down[s] # <<>> /\ held' = [held EXCEPT ![s] = <<Head(down[s])>>] /\ DOMAIN held = Shards
  BY Zenon DEF Receive, masterVars, TypeInv, TypeOK
<1>2. up
  BY Zenon, <1>1 DEF SessionInv, DownAt
<1>3. \A t \in Shards : Len(held'[t]) <= 1
  <2>1. \A t \in Shards : held'[t] = IF t = s THEN <<Head(down[s])>> ELSE held[t]
    BY Zenon, <1>1
  <2>2. \A x : Len(<<x>>) <= 1
    OBVIOUS
  <2>. QED
    BY Zenon, <2>1, <2>2 DEF SessionInv
<1>4. up' /\ \A t \in Shards : Apart(t)
  BY Zenon, <1>1, <1>2, ReceiveApart
<1>. QED
  BY Zenon, <1>1, <1>2, <1>3, <1>4, UpApart

----------------------------------------------------------------------------
(* ... the steps along a flow *)

(* A session that is up, whose flows are all where they may be.            *)
LEMMA UpSteps ==
    ASSUME TypeInv, SessionInv, up', StateAt', \A s \in Shards : FlowAt(s)',
           \A s \in Shards : Len(held'[s]) <= 1
    PROVE  SessionInv'
  BY Zenon DEF SessionInv

LEMMA CountsEmpty == \A n : Counts(<<>>, n)
  BY DEF Counts

LEMMA PerformSession ==
    ASSUME TypeInv, TypeInv', SessionInv, NEW s \in Shards, Perform(s)
    PROVE  SessionInv'
<1>1. Len(held[s]) <= 1
  BY Zenon DEF SessionInv
<1>2. /\ UNCHANGED <<cur, sess, down, up, rpc, stableNext>>
      /\ Incoming(s) # <<>> /\ held'[s] = <<>>
      /\ \A t \in Shards \ {s} : held'[t] = held[t] /\ next'[t] = next[t] /\ fpc'[t] = fpc[t]
  BY Zenon, <1>1, PerformFacts
<1>3. \A t \in Shards : Len(held'[t]) <= 1
  <2>1. Len(<<>>) <= 1
    OBVIOUS
  <2>. QED
    BY Zenon, <1>2, <2>1 DEF SessionInv
<1>4. CASE up
  <2>1. cur \in Sids /\ StateAt /\ \A t \in Shards : FlowAt(t)
    BY Zenon, <1>4, UpOpen
  <2>2. StateAt'
    BY Zenon, <1>2, <2>1, StateAtSame
  <2>3. \A t \in Shards \ {s} : FlowAt(t)'
    BY Zenon, <1>1, <1>2, <2>1, PerformApart, FlowAtApart
  <2>4. ~Hello(s) /\ ~Waiting(s) /\ ~Ready(s) /\ ~Started(s)
    BY Zenon, <1>2 DEF Hello, Waiting, Ready, Started, Quiet
  <2>5. (Loading(s) => Loading(s)' \/ Ready(s)') /\ (Streaming(s) => Streaming(s)')
    BY Zenon, <1>1, PerformLoading, PerformStreaming
  <2>6. FlowAt(s)'
    BY Zenon, <1>2, <2>1, <2>4, <2>5 DEF FlowAt
  <2>7. up' /\ \A t \in Shards : FlowAt(t)'
    BY Zenon, <1>2, <1>4, <2>3, <2>6
  <2>. QED
    BY Zenon, <1>3, <2>2, <2>7, UpSteps
<1>5. CASE ~up
  <2>1. \A t \in Shards : DownAt(t)
    BY Zenon, <1>5 DEF SessionInv
  <2>2. rpc # "idle"
    <3>1. held[s] # <<>>
      BY Zenon DEF Perform
    <3>. QED
      BY Zenon, <2>1, <3>1 DEF DownAt
  <2>3. \A t \in Shards : DownAt(t)'
    BY Zenon, <1>2, <2>1, <2>2, CountsEmpty DEF DownAt
  <2>4. ~up'
    BY <1>2, <1>5
  <2>. QED
    BY Zenon, <1>3, <2>3, <2>4 DEF SessionInv
<1>. QED
  BY Zenon, <1>4, <1>5

LEMMA DrainSession ==
    ASSUME TypeInv, TypeInv', SessionInv, NEW s \in Shards, DrainRepl(s)
    PROVE  SessionInv'
<1> DEFINE c == FirstChunk(s)
<1>1. /\ UNCHANGED <<cur, fpc, next, held, up, rpc, stableNext>> /\ stableNext = 0
      /\ chan[s] # <<>> /\ chan[s] \in Seq(Chunk) /\ c \in Chunk
  BY Zenon, DrainFacts DEF DrainRepl
<1>2. CASE up
  <2>1. cur \in Sids /\ StateAt /\ sess[cur].state # "none" /\ \A t \in Shards : FlowAt(t)
    BY Zenon, <1>2, UpOpen
  <2>2. sess'[cur].state = sess[cur].state
    BY Zenon, <2>1, DrainReplSess
  <2>3. StateAt'
    BY Zenon, <1>1, <2>1, <2>2, StateAtSame
  <2>4. \A t \in Shards : t # s \/ c.sid # cur => FlowAt(t)'
    BY Zenon, <1>1, <2>1, <2>2, DrainApart, FlowAtApart
  <2>5. ASSUME c.sid = cur
        PROVE  FlowAt(s)'
    <3>1. ~Quiet(s)
      <4>1. c \in Full(cur) \/ c \in Stream(cur)
        BY Zenon, <1>1, <2>5, ChunkFields DEF Full, Stream
      <4>2. 1 \in DOMAIN chan[s] /\ chan[s][1] = c
        BY <1>1 DEF FirstChunk
      <4>. QED
        BY Zenon, <4>1, <4>2 DEF Quiet, NoWork, NoStream, None
    <3>2. ~Hello(s) /\ ~Waiting(s) /\ ~Ready(s)
      BY Zenon, <3>1 DEF Hello, Waiting, Ready
    <3>3. (Loading(s) => Loading(s)') /\ (Streaming(s) => Streaming(s)')
      BY Zenon, <1>2, <2>1, <2>5, DrainLoading, DrainStreaming
    <3>4. rpc # "startstable"
      <4>1. ~(s < stableNext)
        BY <1>1 DEF Shards
      <4>. QED
        BY Zenon, <2>1, <3>2, <4>1 DEF FlowAt
    <3>. QED
      BY Zenon, <1>1, <2>1, <2>2, <3>2, <3>3, <3>4 DEF FlowAt
  <2>6. up' /\ (\A t \in Shards : FlowAt(t)') /\ \A t \in Shards : Len(held'[t]) <= 1
    BY Zenon, <1>1, <1>2, <2>4, <2>5 DEF SessionInv
  <2>. QED
    BY Zenon, <2>3, <2>6, UpSteps
<1>3. CASE ~up
  <2>1. down' = down
    BY Zenon, <1>3 DEF DrainRepl
  <2>. QED
    BY Zenon, <1>1, <1>3, <2>1, DownSame
<1>. QED
  BY Zenon, <1>2, <1>3

----------------------------------------------------------------------------
(* ... and the steps of the session *)

(* The control thread gives the session up.                                *)
LEMMA GiveUpSession ==
    ASSUME GiveUp
    PROVE  SessionInv'
<1>1. /\ up' = FALSE /\ down' = [s \in Shards |-> <<>>] /\ fpc' = [s \in Shards |-> "off"]
      /\ held' = [s \in Shards |-> <<>>]
  BY Zenon DEF GiveUp
<1>2. \A s \in Shards : down'[s] = <<>> /\ fpc'[s] = "off" /\ held'[s] = <<>>
  BY Zenon, <1>1
<1>3. Len(<<>>) <= 1
  OBVIOUS
<1>4. \A s \in Shards : DownAt(s)' /\ Len(held'[s]) <= 1
  BY Zenon, <1>2, <1>3 DEF DownAt
<1>. QED
  BY Zenon, <1>1, <1>4 DEF SessionInv

(* A flow that streams has on its socket the records its count names.      *)
LEMMA StableFlow ==
    ASSUME TypeInv, SessionInv, up, NEW s \in Shards, fpc[s] = "stable"
    PROVE  Counts(Incoming(s), next[s])
<1>1. FlowAt(s) /\ rpc \in {"flows", "sync", "load", "startstable", "stable"}
  BY Zenon, UpOpen
<1>2. ~Hello(s) /\ ~Waiting(s) /\ ~Ready(s) /\ ~Loading(s) /\ ~Started(s)
  BY Zenon DEF Hello, Waiting, Ready, Loading, Started
<1>3. Streaming(s)
  BY Zenon, <1>1, <1>2 DEF FlowAt
<1>. QED
  BY Zenon, <1>3 DEF Streaming

LEMMA CountsPrefix ==
    ASSUME NEW q \in Seq(Item), NEW r \in Seq(Item), NEW f, Counts(q \o r, f)
    PROVE  Counts(q, f)
  BY ConcatHas DEF Counts

(* What a flow thread read before the loss is still in order.              *)
LEMMA LoseSession ==
    ASSUME TypeInv, SessionInv, Lose \/ MasterRestart
    PROVE  SessionInv'
<1>1. up /\ up' = FALSE /\ down' = [s \in Shards |-> <<>>] /\ UNCHANGED <<rpc, fpc, next, held>>
  BY Zenon DEF Lose, MasterRestart, flowVars
<1>2. rpc # "idle"
  BY Zenon, <1>1, UpOpen
<1>3. ASSUME NEW s \in Shards
      PROVE  DownAt(s)'
  <2>1. down'[s] = <<>>
    BY Zenon, <1>1
  <2>2. fpc[s] = "stable" => Counts(held[s], next[s])
    BY Zenon, <1>1, StableFlow, FlowTypes, CountsPrefix DEF Incoming
  <2>. QED
    BY Zenon, <1>1, <1>2, <2>1, <2>2 DEF DownAt
<1>. QED
  BY Zenon, <1>1, <1>3 DEF SessionInv

LEMMA SessionFailsSession ==
    ASSUME SessionFails
    PROVE  SessionInv'
  BY Zenon, GiveUpSession DEF SessionFails

LEMMA StartStableFailsSession ==
    ASSUME SessionInv, NEW s \in Shards, StartStableFails(s)
    PROVE  SessionInv'
<1>1. CASE GiveUp
  BY Zenon, <1>1, GiveUpSession
<1>2. CASE ~GiveUp
  <2>1. ~up /\ UNCHANGED <<rpc, up, down, fpc, held, next>>
    BY Zenon, <1>2 DEF StartStableFails
  <2>. QED
    BY Zenon, <2>1, DownSame
<1>. QED
  BY Zenon, <1>1, <1>2

(* What the control thread alone does leaves every flow where it is.       *)
LEMMA FlowsSame ==
    ASSUME TypeInv, TypeInv', NEW s \in Shards,
           UNCHANGED <<cur, sess, log, consumers, frames, chan, shardQ, fpc, next, held, down>>
    PROVE  Apart(s) /\ (Waiting(s) => Waiting(s)') /\ (Ready(s) => Ready(s)')
<1>1. Apart(s)
  BY Zenon, ApartSame
<1>2. Waiting(s) => Waiting(s)'
  BY Zenon, <1>1, QuietApart DEF Waiting, Apart
<1>3. Ready(s) => Ready(s)'
  BY Zenon, <1>1, ReadyApart
<1>. QED
  BY Zenon, <1>1, <1>2, <1>3

(* A flow that waits for its snapshot is one that loads it.                *)
LEMMA WaitingLoading ==
    ASSUME NEW s \in Shards, Waiting(s)
    PROVE  Loading(s)
<1>1. fpc[s] = "load" /\ NoStream(s) /\ NoWork(s) /\ Incoming(s) = <<>>
  BY Zenon DEF Waiting, Quiet
<1>2. OneWork(s)
  BY Zenon, <1>1, NoneOne DEF NoWork, OneWork
<1>3. \A c, l : Loads(<<>>, c, l) /\ ~HasTail(<<>>)
  BY DEF Loads, HasTail
<1>4. None(chan[s], Full(cur) \ Loadable(Lsn(s)))
  BY Zenon, <1>1 DEF NoWork, None
<1>. QED
  BY Zenon, <1>1, <1>2, <1>3, <1>4 DEF Loading

LEMMA FlowsStartedSession ==
    ASSUME TypeInv, TypeInv', SessionInv, FlowsStarted
    PROVE  SessionInv'
<1>1. CASE GiveUp
  BY Zenon, <1>1, GiveUpSession
<1>2. CASE ~GiveUp
  <2>1. /\ UNCHANGED <<cur, sess, log, consumers, frames, chan, shardQ, fpc, next, held, down, up, stableNext>>
        /\ rpc = "flows"
        /\ \/ rpc' = "sync" /\ \A s \in Shards : fpc[s] = "load"
           \/ rpc' = "load" /\ \A s \in Shards : fpc[s] = "token"
    BY Zenon, <1>2 DEF FlowsStarted, RetryFull, masterVars, shardVars
  <2>2. CASE up
    <3>1. StateAt /\ \A s \in Shards : FlowAt(s)
      BY Zenon, <2>2, UpOpen
    <3>2. StateAt'
      BY <2>1, <3>1 DEF StateAt
    <3>3. ASSUME NEW s \in Shards
          PROVE  FlowAt(s)'
      <4>1. Hello(s) \/ Waiting(s) \/ Ready(s)
        BY Zenon, <2>1, <3>1 DEF FlowAt
      <4>2. (Waiting(s) => Waiting(s)') /\ (Ready(s) => Ready(s)')
        BY Zenon, <2>1, FlowsSame
      <4>3. CASE rpc' = "sync" /\ fpc[s] = "load"
        <5>1. Waiting(s)'
          BY Zenon, <4>1, <4>2, <4>3 DEF Hello, Ready
        <5>. QED
          BY Zenon, <4>3, <5>1 DEF FlowAt
      <4>4. CASE rpc' = "load" /\ fpc[s] = "token"
        <5>1. Ready(s)'
          BY Zenon, <4>1, <4>2, <4>4 DEF Hello, Waiting
        <5>. QED
          BY Zenon, <4>4, <5>1 DEF FlowAt
      <4>. QED
        BY Zenon, <2>1, <4>3, <4>4
    <3>4. up' /\ \A s \in Shards : Len(held'[s]) <= 1
      BY Zenon, <2>1, <2>2 DEF SessionInv
    <3>. QED
      BY Zenon, <3>2, <3>3, <3>4, UpSteps
  <2>3. CASE ~up
    <3>1. rpc' # "idle"
      BY Zenon, <2>1
    <3>. QED
      BY Zenon, <2>1, <2>3, <3>1, DownSame
  <2>. QED
    BY Zenon, <2>2, <2>3
<1>. QED
  BY Zenon, <1>1, <1>2

LEMMA SyncReplySession ==
    ASSUME TypeInv, TypeInv', SessionInv, SyncReply
    PROVE  SessionInv'
<1>1. /\ UNCHANGED <<cur, sess, log, consumers, frames, chan, shardQ, fpc, next, held, down, up, stableNext>>
      /\ rpc = "sync" /\ rpc' = "load" /\ up /\ sess[cur].state = "full"
  BY Zenon DEF SyncReply, masterVars, shardVars, flowVars
<1>2. StateAt /\ cur \in Sids /\ \A s \in Shards : FlowAt(s)
  BY Zenon, <1>1, UpOpen
<1>3. StateAt'
  BY <1>1, <1>2 DEF StateAt
<1>4. ASSUME NEW s \in Shards
      PROVE  FlowAt(s)'
  <2>1. Loading(s) \/ Ready(s)
    BY Zenon, <1>1, <1>2, WaitingLoading DEF FlowAt
  <2>2. Loading(s)' \/ Ready(s)'
    BY Zenon, <1>1, <1>2, <2>1, FlowsSame, LoadingApart
  <2>. QED
    BY Zenon, <1>1, <2>2 DEF FlowAt
<1>5. up' /\ \A s \in Shards : Len(held'[s]) <= 1
  BY Zenon, <1>1 DEF SessionInv
<1>. QED
  BY Zenon, <1>3, <1>4, <1>5, UpSteps

(* No shard is started yet.                                                *)
LEMMA NoneBefore ==
    ASSUME NEW s \in Shards
    PROVE  ~(s < 0) /\ ~(s < 1)
  BY DEF Shards

LEMMA LoadDoneSession ==
    ASSUME TypeInv, TypeInv', SessionInv, LoadDone
    PROVE  SessionInv'
<1>1. /\ UNCHANGED <<cur, sess, log, consumers, frames, chan, shardQ, fpc, next, held, down, up, stableNext>>
      /\ rpc = "load" /\ rpc' = "startstable" /\ \A s \in Shards : fpc[s] \in {"token", "stable"}
  BY Zenon DEF LoadDone, masterVars, shardVars, flowVars
<1>2. CASE up
  <2>1. StateAt /\ cur \in Sids /\ \A s \in Shards : FlowAt(s)
    BY Zenon, <1>2, UpOpen
  <2>2. StateAt' /\ stableNext = 0
    BY <1>1, <2>1 DEF StateAt
  <2>3. ASSUME NEW s \in Shards
        PROVE  FlowAt(s)'
    <3>1. Ready(s)
      BY Zenon, <1>1, <2>1 DEF FlowAt, Loading
    <3>2. Ready(s)'
      BY Zenon, <1>1, <3>1, FlowsSame
    <3>3. ~(s < stableNext')
      BY Zenon, <1>1, <2>2, NoneBefore
    <3>. QED
      BY Zenon, <1>1, <3>2, <3>3 DEF FlowAt
  <2>4. up' /\ \A s \in Shards : Len(held'[s]) <= 1
    BY Zenon, <1>1, <1>2 DEF SessionInv
  <2>. QED
    BY Zenon, <2>2, <2>3, <2>4, UpSteps
<1>3. CASE ~up
  <2>1. rpc' # "idle"
    BY Zenon, <1>1
  <2>. QED
    BY Zenon, <1>1, <1>3, <2>1, DownSame
<1>. QED
  BY Zenon, <1>2, <1>3

LEMMA DflyStartStableSession ==
    ASSUME TypeInv, TypeInv', SessionInv, DflyStartStable
    PROVE  SessionInv'
<1>1. /\ UNCHANGED <<cur, sess, log, consumers, frames, chan, shardQ, fpc, next, held, down, up, rpc>>
      /\ rpc = "startstable" /\ up /\ stableNext = 0 /\ stableNext' = 1
  BY Zenon DEF DflyStartStable, replicaVars, flowVars, shardVars
<1>2. StateAt /\ cur \in Sids /\ \A s \in Shards : FlowAt(s)
  BY Zenon, <1>1, UpOpen
<1>3. StateAt'
  BY <1>1, <1>2 DEF StateAt
<1>4. ASSUME NEW s \in Shards
      PROVE  FlowAt(s)'
  <2>1. ~(s < stableNext) /\ ~(s < stableNext')
    BY Zenon, <1>1, NoneBefore
  <2>2. Ready(s)
    BY Zenon, <1>1, <1>2, <2>1 DEF FlowAt
  <2>3. Ready(s)'
    BY Zenon, <1>1, <2>2, FlowsSame
  <2>. QED
    BY Zenon, <1>1, <2>1, <2>3 DEF FlowAt
<1>5. up' /\ \A s \in Shards : Len(held'[s]) <= 1
  BY Zenon, <1>1 DEF SessionInv
<1>. QED
  BY Zenon, <1>3, <1>4, <1>5, UpSteps

(* A flow is greeted only while the control thread starts the flows.       *)
LEMMA HelloFlows ==
    ASSUME TypeInv, SessionInv, up, NEW s \in Shards, fpc[s] = "hello"
    PROVE  rpc = "flows" /\ Hello(s)
<1>1. FlowAt(s) /\ rpc \in {"flows", "sync", "load", "startstable", "stable"}
  BY Zenon, UpOpen
<1>2. ~Waiting(s) /\ ~Ready(s) /\ ~Loading(s) /\ ~Started(s) /\ ~Streaming(s)
  BY Zenon DEF Waiting, Ready, Loading, Started, Streaming
<1>. QED
  BY Zenon, <1>1, <1>2 DEF FlowAt

LEMMA DflyFlowSession ==
    ASSUME TypeInv, TypeInv', SessionInv, NEW s \in Shards, DflyFlow(s)
    PROVE  SessionInv'
<1> DEFINE partial == journalOn[s] /\ InBuffer(s, next[s])
           enable == [t |-> "enable"]
           pc == IF partial THEN "token" ELSE "load"
<1>1. /\ UNCHANGED <<cur, up, down, rpc, next, held, log, consumers, frames, chan, stableNext>>
      /\ up /\ fpc[s] = "hello"
      /\ shardQ' = [shardQ EXCEPT ![s] = Append(shardQ[s], enable)] /\ shardQ[s] \in Seq(ShardMsg)
      /\ fpc' = [fpc EXCEPT ![s] = pc] /\ DOMAIN fpc = Shards /\ DOMAIN shardQ = Shards
  BY Zenon DEF DflyFlow, shardVars, TypeInv, TypeOK
<1>2. rpc = "flows" /\ Hello(s) /\ cur \in Sids /\ StateAt /\ \A t \in Shards : FlowAt(t)
  BY Zenon, <1>1, HelloFlows, UpOpen
<1>3. /\ sess'[cur].state = sess[cur].state
      /\ \A t \in Shards \ {s} : sess'[cur].start[t] = sess[cur].start[t]
      /\ partial => sess'[cur].start[s] = next[s]
  BY Zenon, <1>2, DflyFlowSess
<1>4. StateAt'
  BY Zenon, <1>1, <1>2, <1>3, StateAtSame
<1> HIDE DEF enable, pc
<1>5. /\ shardQ'[s] = Append(shardQ[s], enable) /\ fpc'[s] = pc
      /\ \A t \in Shards \ {s} : shardQ'[t] = shardQ[t] /\ fpc'[t] = fpc[t]
  BY Zenon, <1>1
<1>6. \A t \in Shards \ {s} : FlowAt(t)'
  <2>1. \A t \in Shards \ {s} : Apart(t)
    BY Zenon, <1>1, <1>3, <1>5, ApartSame
  <2>. QED
    BY Zenon, <1>1, <1>2, <1>3, <2>1, FlowAtApart
<1>7. Quiet(s)'
  <2>1. enable \in ShardMsg /\ enable \notin Asks(cur)
    BY AsksFacts DEF enable, ShardMsg
  <2>2. None(Append(shardQ[s], enable), Asks(cur))
    BY Zenon, <1>1, <1>2, <2>1, NoneAppend DEF Hello, Quiet, NoWork
  <2>. QED
    BY Zenon, <1>1, <1>2, <1>5, <2>2 DEF Hello, Quiet, NoWork, NoStream, Incoming
<1>8. FlowAt(s)'
  <2>1. CASE partial
    <3>1. next[s] # 0 /\ next[s] <= Lsn(s) /\ Lsn(s)' = Lsn(s)
      <4>1. next[s] \in Nat /\ Len(log[s]) \in Nat /\ Lsn(s) = Len(log[s]) + 1 /\ log' = log
        BY Zenon, <1>1, FlowTypes
      <4>2. Lsn(s)' = Lsn(s)
        BY Zenon, <4>1 DEF Lsn
      <4>. QED
        BY <2>1, <4>1, <4>2 DEF InBuffer
    <3>2. fpc'[s] = "token"
      BY Zenon, <1>5, <2>1 DEF pc
    <3>3. Ready(s)'
      BY Zenon, <1>1, <1>3, <1>7, <2>1, <3>1, <3>2 DEF Ready, AtStart
    <3>. QED
      BY Zenon, <1>1, <1>2, <3>3 DEF FlowAt
  <2>2. CASE ~partial
    <3>1. fpc'[s] = "load"
      BY Zenon, <1>5, <2>2 DEF pc
    <3>2. Waiting(s)'
      BY Zenon, <1>7, <3>1 DEF Waiting
    <3>. QED
      BY Zenon, <1>1, <1>2, <3>2 DEF FlowAt
  <2>. QED
    BY Zenon, <2>1, <2>2
<1>9. up' /\ (\A t \in Shards : FlowAt(t)') /\ \A t \in Shards : Len(held'[t]) <= 1
  BY Zenon, <1>1, <1>6, <1>8 DEF SessionInv
<1>. QED
  BY Zenon, <1>4, <1>9, UpSteps

LEMMA DflySyncSession ==
    ASSUME TypeInv, TypeInv', SessionInv, DflySync
    PROVE  SessionInv'
<1> DEFINE ask == [t |-> "snapshot", sid |-> cur]
<1>1. /\ UNCHANGED <<cur, up, down, rpc, next, fpc, held, log, consumers, frames, chan, stableNext>>
      /\ up /\ rpc = "sync" /\ sess[cur].state = "preparation"
      /\ shardQ' = [s \in Shards |-> Append(shardQ[s], ask)]
      /\ \A s \in Shards : shardQ[s] \in Seq(ShardMsg)
  BY Zenon DEF DflySync, Send, shardVars, replicaVars, flowVars, TypeInv, TypeOK
<1>2. cur \in Sids /\ StateAt /\ \A t \in Shards : FlowAt(t)
  BY Zenon, <1>1, UpOpen
<1>3. sess'[cur].state = "full"
  BY Zenon, <1>2, DflySyncSess
<1>4. StateAt'
  BY <1>1, <1>2, <1>3 DEF StateAt
<1>5. ask \in ShardMsg
  BY <1>2 DEF ShardMsg
<1> HIDE DEF ask
<1>6. ASSUME NEW s \in Shards
      PROVE  FlowAt(s)'
  <2>1. Waiting(s)
    <3>1. sess[cur].state # "full"
      BY Zenon, <1>1
    <3>. QED
      BY Zenon, <1>1, <1>2, <3>1 DEF FlowAt
  <2>2. /\ fpc[s] = "load" /\ Incoming(s) = <<>> /\ cur \notin consumers[s] /\ None(chan[s], Stream(cur))
        /\ None(shardQ[s], Asks(cur)) /\ None(frames[s], Open(cur)) /\ None(chan[s], Full(cur))
    BY Zenon, <2>1 DEF Waiting, Quiet, NoWork, NoStream
  <2>3. shardQ'[s] = Append(shardQ[s], ask) /\ AtMostOne(Append(shardQ[s], ask), Asks(cur))
    BY Zenon, <1>1, <1>5, <2>2, OneAppend
  <2>4. OneWork(s)' /\ NoStream(s)' /\ Incoming(s)' = <<>>
    BY Zenon, <1>1, <2>2, <2>3 DEF OneWork, NoStream, Incoming
  <2>5. \A c, l : Loads(<<>>, c, l) /\ ~HasTail(<<>>)
    BY DEF Loads, HasTail
  <2>6. None(chan'[s], Full(cur') \ Loadable(Lsn(s)'))
    BY Zenon, <1>1, <2>2 DEF None
  <2>7. Loading(s)'
    BY Zenon, <1>1, <2>2, <2>4, <2>5, <2>6 DEF Loading
  <2>. QED
    BY Zenon, <1>1, <1>3, <2>7 DEF FlowAt
<1>7. up' /\ \A t \in Shards : Len(held'[t]) <= 1
  BY Zenon, <1>1 DEF SessionInv
<1>. QED
  BY Zenon, <1>4, <1>6, <1>7, UpSteps

LEMMA ConnectSession ==
    ASSUME TypeInv, TypeInv', SidInv, SessionInv, Connect
    PROVE  SessionInv'
<1>1. /\ UNCHANGED <<down, held, log, consumers, frames, chan, shardQ, stableNext>>
      /\ rpc = "idle" /\ stableNext = 0 /\ up' = TRUE /\ rpc' = "flows" /\ fpc' = [s \in Shards |-> "hello"]
  BY Zenon DEF Connect, shardVars
<1>2. cur' \in Sids /\ cur' = cur + 1 /\ cur \in Nat /\ sess'[cur'].state = "preparation"
  BY Zenon, ConnectSess
<1>3. StateAt'
  BY <1>1, <1>2 DEF StateAt
<1>4. \A s \in Shards : down[s] = <<>> /\ held[s] = <<>>
  BY Zenon, <1>1, UpOpen DEF SessionInv, DownAt, StateAt
<1>5. \A i : i <= cur => i # cur'
  BY <1>2
<1>6. ASSUME NEW s \in Shards
      PROVE  FlowAt(s)'
  <2>1. fpc'[s] = "hello"
    BY Zenon, <1>1
  <2>2. Incoming(s)' = <<>>
    <3>1. <<>> \o <<>> = <<>>
      OBVIOUS
    <3>. QED
      BY Zenon, <1>1, <1>4, <3>1 DEF Incoming
  <2>3. /\ shardQ[s] \in Seq(KnownMsg) /\ frames[s] \in Seq(KnownFrame) /\ chan[s] \in Seq(KnownChunk)
        /\ consumers[s] \subseteq 1 .. cur
    BY Zenon DEF SidInv
  <2>4. cur' \notin consumers[s]
    BY <1>2, <2>3
  <2>5. None(shardQ[s], Asks(cur'))
    <3>1. \A m \in KnownMsg : m \notin Asks(cur')
      BY Zenon, <1>5, AsksFacts DEF KnownMsg
    <3>. QED
      BY Zenon, <2>3, <3>1, SeqElem DEF None
  <2>6. None(frames[s], Open(cur'))
    <3>1. \A f \in KnownFrame : f \notin Open(cur')
      BY Zenon, <1>5 DEF KnownFrame, Open
    <3>. QED
      BY Zenon, <2>3, <3>1, SeqElem DEF None
  <2>7. None(chan[s], Full(cur')) /\ None(chan[s], Stream(cur'))
    <3>1. \A c \in KnownChunk : c \notin Full(cur') /\ c \notin Stream(cur')
      BY Zenon, <1>5 DEF KnownChunk, Full, Stream
    <3>. QED
      BY Zenon, <2>3, <3>1, SeqElem DEF None
  <2>8. Hello(s)'
    BY Zenon, <1>1, <2>1, <2>2, <2>4, <2>5, <2>6, <2>7 DEF Hello, Quiet, NoWork, NoStream
  <2>. QED
    BY Zenon, <1>1, <2>8 DEF FlowAt
<1>7. up' /\ \A t \in Shards : Len(held'[t]) <= 1
  BY Zenon, <1>1 DEF SessionInv
<1>. QED
  BY Zenon, <1>3, <1>6, <1>7, UpSteps

(* A shard that catches the flow up from the ring registers it at the LSN  *)
(* where the ring ends.                                                    *)
LEMMA CaughtUpFollows ==
    ASSUME TypeInv, TypeInv', NEW s \in Shards, StartStableSync(s), Ready(s)
    PROVE  Follows(s, 0)'
<1> DEFINE z == CaughtUp(s, next[s])
<1>1. /\ next[s] = FromLsn(s) /\ next[s] # 0 /\ next[s] <= Lsn(s)
      /\ None(shardQ[s], Asks(cur)) /\ None(frames[s], Open(cur)) /\ None(chan[s], Full(cur))
      /\ None(chan[s], Stream(cur))
  BY Zenon DEF Ready, AtStart, FromLsn, Quiet, NoWork, NoStream
<1>2. /\ UNCHANGED <<cur, log, next, frames, shardQ>>
      /\ chan' = [chan EXCEPT ![s] = chan[s] \o z] /\ DOMAIN chan = Shards
      /\ consumers' = [consumers EXCEPT ![s] = consumers[s] \cup {cur}] /\ DOMAIN consumers = Shards
      /\ chan[s] \in Seq(Chunk)
  <2>1. /\ UNCHANGED <<cur, log, next, frames, shardQ>> /\ DOMAIN chan = Shards
        /\ consumers' = [consumers EXCEPT ![s] = consumers[s] \cup {cur}] /\ DOMAIN consumers = Shards
        /\ chan[s] \in Seq(Chunk)
    BY Zenon DEF StartStableSync, flowVars, TypeInv, TypeOK
  <2>2. chan' = [chan EXCEPT ![s] = chan[s] \o CaughtUp(s, FromLsn(s))]
    BY Zenon DEF StartStableSync, CaughtUp
  <2>. QED
    BY Zenon, <1>1, <2>1, <2>2
<1>3. /\ cur \in Sids /\ next[s] \in Nat \ {0} /\ Len(log[s]) \in Nat /\ Lsn(s) = Len(log[s]) + 1
  BY Zenon, <1>1, FlowTypes, StartStableSess
<1>4. z \in Seq(Chunk) /\ None(z, Full(cur)) /\ Chunks(z, cur, next[s], Len(log[s]))
  BY Zenon, <1>3, CaughtUpType, CaughtUpChunks DEF TypeInv
<1> HIDE DEF z
<1>5. chan'[s] = chan[s] \o z /\ cur \in consumers'[s]
  BY Zenon, <1>2
<1>6. None(chan[s] \o z, Full(cur))
  BY Zenon, <1>1, <1>2, <1>4, NoneConcat
<1>7. Chunks(chan[s] \o z, cur, next[s], Len(log[s]))
  <2>1. Chunks(chan[s], cur, next[s], next[s] - 1)
    BY <1>1, <1>3, ChunksNone
  <2>2. PICK from \in Nat, to \in Nat : from = next[s] /\ to = Len(log[s])
    BY Zenon, <1>3
  <2>3. from - 1 \in Int /\ from <= (from - 1) + 1 /\ from - 1 <= to /\ (from - 1) + 1 = from
    BY <1>1, <1>3, <2>2
  <2>4. Chunks(chan[s], cur, from, from - 1) /\ Chunks(z, cur, (from - 1) + 1, to) /\ to \in Int
    BY <1>4, <2>1, <2>2, <2>3
  <2>5. Chunks(chan[s] \o z, cur, from, to)
    BY Zenon, <1>2, <1>4, <2>3, <2>4, ChunksConcat
  <2>. QED
    BY Zenon, <2>2, <2>5
<1>8. next[s] + 0 = next[s]
  BY <1>3
<1>9. Lsn(s)' = Lsn(s)
  BY Zenon, <1>2 DEF Lsn
<1>. QED
  BY Zenon, <1>1, <1>2, <1>5, <1>6, <1>7, <1>8, <1>9 DEF Follows, NoWork

(* The token goes ahead of the stream.                                     *)
LEMMA TokenStreams ==
    ASSUME NEW s \in Shards, fpc'[s] = "token", Incoming(s)' = <<[t |-> "token"]>>, Follows(s, 0)'
    PROVE  Streaming(s)'
<1>1. \A x : <<x>> # <<>> /\ Head(<<x>>) = x /\ Tail(<<x>>) = <<>> /\ Len(<<>>) = 0
  OBVIOUS
<1>2. /\ Incoming(s)' # <<>> /\ Head(Incoming(s)').t = "token"
      /\ Tail(Incoming(s)') = <<>> /\ Len(Tail(Incoming(s)')) = 0
  <2>1. [t |-> "token"].t = "token"
    OBVIOUS
  <2>. QED
    BY Zenon, <1>1, <2>1
<1>. QED
  BY Zenon, <1>2, CountsEmpty DEF Streaming

LEMMA StartStableSyncSession ==
    ASSUME TypeInv, TypeInv', SessionInv, NEW s \in Shards, StartStableSync(s)
    PROVE  SessionInv'
<1>1. UNCHANGED <<cur, log, next, frames, shardQ, up, fpc, held>> /\ stableNext = s
  BY Zenon DEF StartStableSync, flowVars
<1>2. CASE ~up
  <2>1. UNCHANGED <<down, rpc>>
    BY Zenon, <1>2 DEF StartStableSync
  <2>. QED
    BY Zenon, <1>1, <1>2, <2>1, DownSame
<1>3. CASE up
  <2>1. /\ cur \in Sids /\ StateAt /\ \A t \in Shards : FlowAt(t)
    BY Zenon, <1>3, UpOpen
  <2>2. s # 0 /\ ~(s < s) /\ s \in 1 .. NumShards /\ s \in Int /\ Shards \subseteq Int
    BY ReplicationAssumption DEF Shards
  <2>3. rpc = "startstable"
    BY Zenon, <1>1, <2>1, <2>2 DEF StateAt
  <2>4. \A t \in Shards : IF t < s THEN Started(t) ELSE Ready(t)
    BY Zenon, <1>1, <2>1, <2>3 DEF FlowAt
  <2>5. Ready(s)
    BY Zenon, <2>2, <2>4
  <2>6. /\ \A t \in Shards \ {s} : chan'[t] = chan[t] /\ consumers'[t] = consumers[t]
    BY Zenon DEF StartStableSync, TypeInv, TypeOK
  <2>7. \A t \in Shards : ~(t > s) => Follows(t, 0)' /\ fpc'[t] = "token" /\ Incoming(t) = <<>>
    <3>1. Follows(s, 0)' /\ fpc'[s] = "token" /\ Incoming(s) = <<>>
      BY Zenon, <1>1, <2>5, CaughtUpFollows DEF Ready, Quiet
    <3>2. ASSUME NEW t \in Shards \ {s}, t < s
          PROVE  Follows(t, 0)' /\ fpc'[t] = "token" /\ Incoming(t) = <<>>
      <4>1. Started(t)
        BY Zenon, <2>4, <3>2
      <4>. QED
        BY Zenon, <1>1, <2>6, <4>1 DEF Started, Follows, NoWork, Lsn
    <3>3. \A t \in Shards : t > s \/ t = s \/ (t # s /\ t < s)
      BY <2>2
    <3>. QED
      BY Zenon, <3>1, <3>2, <3>3
  <2>8. up' /\ \A t \in Shards : Len(held'[t]) <= 1
    BY Zenon, <1>1, <1>3 DEF SessionInv
  <2>9. CASE s # NumShards
    <3>1. s < NumShards /\ stableNext' = s + 1
      BY <2>2, <2>9, ReplicationAssumption DEF StartStableSync, ShardAfter
    <3>2. UNCHANGED <<sess, down, rpc>>
      BY Zenon, <3>1 DEF StartStableSync
    <3>3. StateAt'
      BY Zenon, <1>1, <2>1, <2>3, <3>2 DEF StateAt
    <3>4. ASSUME NEW t \in Shards
          PROVE  FlowAt(t)'
      <4>1. CASE t > s
        <5>1. Ready(t) /\ t # s /\ ~(t < stableNext')
          <6>1. ~(t < s) /\ t # s /\ ~(t < stableNext')
            BY <2>2, <3>1, <4>1
          <6>. QED
            BY Zenon, <2>4, <6>1
        <5>2. Apart(t)
          BY Zenon, <1>1, <2>6, <3>2, <5>1, ApartSame
        <5>3. Ready(t)'
          BY Zenon, <5>1, <5>2, ReadyApart
        <5>. QED
          BY Zenon, <2>3, <3>2, <5>1, <5>3 DEF FlowAt
      <4>2. CASE ~(t > s)
        <5>1. t < stableNext'
          BY <2>2, <3>1, <4>2
        <5>2. Incoming(t)' = <<>>
          BY Zenon, <1>1, <2>7, <3>2, <4>2 DEF Incoming
        <5>3. Started(t)'
          BY Zenon, <2>7, <4>2, <5>2 DEF Started
        <5>. QED
          BY Zenon, <2>3, <3>2, <5>1, <5>3 DEF FlowAt
      <4>. QED
        BY Zenon, <4>1, <4>2
    <3>. QED
      BY Zenon, <2>8, <3>3, <3>4, UpSteps
  <2>10. CASE s = NumShards
    <3>1. /\ ~(s < NumShards) /\ stableNext' = 0 /\ \A t \in Shards : ~(t > s)
      BY <2>2, <2>10, ReplicationAssumption DEF StartStableSync, ShardAfter, Shards
    <3>2. /\ rpc' = "stable" /\ down' = [i \in Shards |-> Append(down[i], [t |-> "token"])]
      BY Zenon, <1>3, <3>1 DEF StartStableSync
    <3>3. sess'[cur].state = "stable"
      BY Zenon, <2>1, <2>10, StartStableSess
    <3>4. StateAt'
      BY <1>1, <3>1, <3>2, <3>3 DEF StateAt
    <3>5. ASSUME NEW t \in Shards
          PROVE  FlowAt(t)'
      <4>1. Follows(t, 0)' /\ fpc'[t] = "token" /\ Incoming(t) = <<>>
        BY Zenon, <2>7, <3>1
      <4>2. held[t] \in Seq(Item) /\ down[t] \in Seq(Item)
        BY Zenon, FlowTypes
      <4>3. held[t] = <<>> /\ down[t] = <<>>
        BY <4>1, <4>2 DEF Incoming
      <4>4. Append(<<>>, [t |-> "token"]) = <<[t |-> "token"]>>
            /\ <<>> \o <<[t |-> "token"]>> = <<[t |-> "token"]>>
        OBVIOUS
      <4>5. held'[t] = <<>> /\ down'[t] = <<[t |-> "token"]>>
        BY Zenon, <1>1, <3>2, <4>3, <4>4
      <4>6. Incoming(t)' = <<[t |-> "token"]>>
        BY Zenon, <4>4, <4>5 DEF Incoming
      <4>7. Streaming(t)'
        BY Zenon, <4>1, <4>6, TokenStreams
      <4>. QED
        BY Zenon, <3>2, <4>7 DEF FlowAt
    <3>. QED
      BY Zenon, <2>8, <3>4, <3>5, UpSteps
  <2>. QED
    BY Zenon, <2>9, <2>10
<1>. QED
  BY Zenon, <1>2, <1>3

----------------------------------------------------------------------------

LEMMA SessionInit == Init => SessionInv
<1> SUFFICES ASSUME Init PROVE SessionInv
  OBVIOUS
<1>1. /\ up = FALSE /\ down = [s \in Shards |-> <<>>] /\ fpc = [s \in Shards |-> "off"]
      /\ held = [s \in Shards |-> <<>>]
  BY Zenon DEF Init
<1>2. Len(<<>>) <= 1
  OBVIOUS
<1>3. \A s \in Shards : DownAt(s) /\ Len(held[s]) <= 1
  BY Zenon, <1>1, <1>2 DEF DownAt
<1>. QED
  BY Zenon, <1>1, <1>3 DEF SessionInv

(* SessionInv is inductive.                                                *)
LEMMA SessionNext ==
    ASSUME TypeInv, TypeInv', CloseInv, SessionInv, [Next]_vars
    PROVE  SessionInv'
<1>0. SidInv /\ StartInv
  BY Zenon DEF CloseInv
<1>1. CASE \E s \in Shards, k \in Keys, op \in Ops : Write(s, k, op)
  BY Zenon, <1>1, WriteSession
<1>2. CASE \E s \in Shards : ShardStep(s) \/ FlowStep(s) \/ PerformLate(s)
  BY Zenon, <1>0, <1>2, ShardSession, ReceiveSession, PerformSession, PerformLateSession DEF FlowStep
<1>3. CASE IoStep
  <2>1. CASE \E s \in Shards : DflyFlow(s) \/ DrainRepl(s)
    BY Zenon, <2>1, DflyFlowSession, DrainSession
  <2>2. CASE \E s \in Shards : StartStableSync(s) \/ StartStableFails(s)
    BY Zenon, <2>2, StartStableSyncSession, StartStableFailsSession
  <2>3. CASE DflySync \/ DflyStartStable
    BY Zenon, <2>3, DflySyncSession, DflyStartStableSession
  <2>4. CASE \E i \in Sids : StopReplication(i)
    BY Zenon, <1>0, <2>4, StopReplicationSession
  <2>. QED
    BY Zenon, <1>3, <2>1, <2>2, <2>3, <2>4 DEF IoStep
<1>4. CASE ControlStep
  BY Zenon, <1>0, <1>4, ConnectSession, FlowsStartedSession, SyncReplySession, LoadDoneSession,
     SessionFailsSession DEF ControlStep
<1>5. CASE OtherFlow
  BY Zenon, <1>5, OtherFlowSession
<1>6. CASE Lose \/ MasterRestart
  BY Zenon, <1>6, LoseSession
<1>7. CASE UNCHANGED vars
  <2>1. UNCHANGED <<cur, up, rpc, stableNext, down, held, fpc, next, sess, log, consumers, frames, chan, shardQ>>
    BY Zenon, <1>7 DEF vars, masterVars, shardVars, replicaVars, flowVars
  <2>2. \A s \in Shards : Apart(s)
    BY Zenon, <2>1, ApartSame
  <2>. QED
    BY Zenon, <2>1, <2>2, SessionApart
<1>. QED
  BY Zenon, <1>1, <1>2, <1>3, <1>4, <1>5, <1>6, <1>7 DEF Next

(* A streaming flow and one that is down both count their records.         *)
LEMMA SessionContiguous == TypeInv /\ SessionInv => Contiguous
<1> SUFFICES ASSUME TypeInv, SessionInv, NEW s \in Shards, fpc[s] = "stable"
             PROVE  Counts(Incoming(s), next[s])
  BY Zenon DEF Contiguous, Counts, Incoming
<1>1. CASE up
  BY Zenon, <1>1, StableFlow
<1>2. CASE ~up
  <2>1. down[s] = <<>> /\ Counts(held[s], next[s]) /\ held[s] \in Seq(Item)
    BY Zenon, <1>2, FlowTypes DEF SessionInv, DownAt
  <2>2. Incoming(s) = held[s]
    BY <2>1 DEF Incoming
  <2>. QED
    BY Zenon, <2>1, <2>2
<1>. QED
  BY Zenon, <1>1, <1>2

(* The records of a stable flow come without gap, overlap or reordering:   *)
(* the one that arrives is the one the replica's count names               *)
(* (`next_lsn += 1`), through snapshot, catch-up from the ring and stream, *)
(* losses, partial resumption and restarts of the master.                  *)
THEOREM StableFlowsContiguous == Spec => []Contiguous
<1>1. Init => TypeInv /\ CloseInv /\ SessionInv
  BY Zenon, TypeInit, CloseInit, SessionInit
<1>2. TypeInv /\ CloseInv /\ SessionInv /\ [Next]_vars => (TypeInv /\ CloseInv /\ SessionInv)'
  BY Zenon, TypeNext, CloseNext, SessionNext
<1>. QED
  BY <1>1, <1>2, SessionContiguous, PTL DEF Spec
=============================================================================
