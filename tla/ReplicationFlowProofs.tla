------------------------ MODULE ReplicationFlowProofs -----------------------
(***************************************************************************)
(* The flow of a shard in the replica's session: the records that stream   *)
(* to it through the IO thread's channel, the steps that leave the flow    *)
(* where it is (Apart), and a chunk of its snapshot on its socket.         *)
(***************************************************************************)
EXTENDS ReplicationCloseProofs

----------------------------------------------------------------------------
(* Sequences *)

(* None and AtMostOne of an empty queue, of a smaller set and of a stack   *)
(* with a new head (`snapshot_step` nests).                                *)
LEMMA NoneEmpty == \A S : None(<<>>, S) /\ AtMostOne(<<>>, S)
  BY DEF None, AtMostOne

LEMMA NoneOne == \A q, S : None(q, S) => AtMostOne(q, S)
  BY Zenon DEF None, AtMostOne

LEMMA NoneSub == \A q, S, R : None(q, S) /\ R \subseteq S => None(q, R)
  BY Zenon DEF None

LEMMA ConsFacts ==
    ASSUME NEW T, NEW q \in Seq(T), NEW x \in T
    PROVE  /\ <<x>> \o q \in Seq(T) /\ Len(<<x>> \o q) = Len(q) + 1 /\ Len(q) \in Nat
           /\ DOMAIN (<<x>> \o q) = 1 .. Len(q) + 1 /\ DOMAIN q = 1 .. Len(q)
           /\ (<<x>> \o q)[1] = x
           /\ \A i \in 1 .. Len(q) : (<<x>> \o q)[i + 1] = q[i]
  OBVIOUS

LEMMA ConsShift ==
    ASSUME NEW T, NEW q \in Seq(T), NEW x \in T, NEW n \in DOMAIN (<<x>> \o q)
    PROVE  \/ n = 1 /\ (<<x>> \o q)[n] = x
           \/ n - 1 \in DOMAIN q /\ (<<x>> \o q)[n] = q[n - 1]
<1>1. n \in 1 .. Len(q) + 1 /\ Len(q) \in Nat /\ DOMAIN q = 1 .. Len(q)
  BY ConsFacts
<1>2. CASE n = 1
  BY <1>2, ConsFacts
<1>3. CASE n # 1
  <2>1. n - 1 \in 1 .. Len(q) /\ (n - 1) + 1 = n
    BY <1>1, <1>3
  <2>2. (<<x>> \o q)[(n - 1) + 1] = q[n - 1]
    BY <2>1, ConsFacts
  <2>. QED
    BY <1>1, <2>1, <2>2
<1>. QED
  BY <1>2, <1>3

LEMMA NoneCons ==
    ASSUME NEW T, NEW q \in Seq(T), NEW x \in T, NEW S, None(q, S), x \notin S
    PROVE  None(<<x>> \o q, S)
  BY Zenon, ConsShift DEF None

LEMMA OneCons ==
    ASSUME NEW T, NEW q \in Seq(T), NEW x \in T, NEW S,
           None(q, S) \/ (AtMostOne(q, S) /\ x \notin S)
    PROVE  AtMostOne(<<x>> \o q, S)
<1> SUFFICES ASSUME NEW n \in DOMAIN (<<x>> \o q), NEW m \in DOMAIN (<<x>> \o q),
                    (<<x>> \o q)[n] \in S, (<<x>> \o q)[m] \in S
             PROVE  n = m
  BY Zenon DEF AtMostOne
<1>0. n \in Nat /\ m \in Nat
  BY ConsFacts
<1>1. \/ n = 1 /\ x \in S
      \/ n - 1 \in DOMAIN q /\ q[n - 1] \in S
  BY Zenon, ConsShift
<1>2. \/ m = 1 /\ x \in S
      \/ m - 1 \in DOMAIN q /\ q[m - 1] \in S
  BY Zenon, ConsShift
<1>3. (n = 1 /\ m = 1) \/ n - 1 = m - 1
  BY Zenon, <1>1, <1>2 DEF None, AtMostOne
<1>. QED
  BY <1>0, <1>3

(* A queue that loses its head.                                            *)
LEMMA TailShift ==
    ASSUME NEW T, NEW q \in Seq(T), q # <<>>, NEW n \in DOMAIN Tail(q)
    PROVE  n + 1 \in DOMAIN q /\ Tail(q)[n] = q[n + 1] /\ n \in Nat
<1>1. n \in 1 .. Len(q) - 1 /\ Len(q) \in Nat /\ DOMAIN q = 1 .. Len(q)
  BY TailFacts
<1>2. n + 1 \in 1 .. Len(q) /\ n \in Nat
  BY <1>1
<1>. QED
  BY <1>1, <1>2, TailFacts

(* An element of a concatenation is one of its parts.                      *)
LEMMA ConcatSplit ==
    ASSUME NEW T, NEW q \in Seq(T), NEW r \in Seq(T), NEW n \in DOMAIN (q \o r)
    PROVE  /\ n \in Nat /\ Len(q) \in Nat
           /\ \/ n \in DOMAIN q /\ n <= Len(q) /\ (q \o r)[n] = q[n]
              \/ n - Len(q) \in DOMAIN r /\ n > Len(q) /\ (q \o r)[n] = r[n - Len(q)]
<1>1. /\ n \in 1 .. Len(q) + Len(r) /\ Len(q) \in Nat /\ Len(r) \in Nat
      /\ DOMAIN q = 1 .. Len(q) /\ DOMAIN r = 1 .. Len(r)
  BY ConcatFacts
<1>2. CASE n \in 1 .. Len(q)
  BY <1>1, <1>2, ConcatFacts
<1>3. CASE n \notin 1 .. Len(q)
  <2>1. n - Len(q) \in 1 .. Len(r) /\ Len(q) + (n - Len(q)) = n /\ n > Len(q) /\ n \in Nat
    BY <1>1, <1>3
  <2>2. (q \o r)[Len(q) + (n - Len(q))] = r[n - Len(q)]
    BY <2>1, ConcatFacts
  <2>. QED
    BY <1>1, <2>1, <2>2
<1>. QED
  BY <1>2, <1>3

LEMMA ConcatHas ==
    ASSUME NEW T, NEW q \in Seq(T), NEW r \in Seq(T)
    PROVE  /\ \A n \in DOMAIN q : n \in DOMAIN (q \o r) /\ (q \o r)[n] = q[n]
           /\ \A n \in DOMAIN r : Len(q) + n \in DOMAIN (q \o r) /\ (q \o r)[Len(q) + n] = r[n]
  BY ConcatFacts

----------------------------------------------------------------------------
(* The records of a stream *)

(* A record's chunk belongs to the stream and determines its LSN.          *)
LEMMA RecChunkFacts ==
    ASSUME NEW i, NEW lsn, NEW c \in RecChunk(i, lsn)
    PROVE  c \in Stream(i) /\ c.items[1].lsn = lsn
  BY Zenon DEF RecChunk

(* A channel without chunks of the stream has no records in it.            *)
LEMMA ChunksNone ==
    ASSUME NEW q, NEW i, NEW from \in Nat, None(q, Stream(i))
    PROVE  Chunks(q, i, from, from - 1)
<1>1. from .. from - 1 = {}
  OBVIOUS
<1>. QED
  BY Zenon, <1>1 DEF Chunks, None

(* Two adjoining ranges of records in one channel.                         *)
LEMMA ChunksConcat ==
    ASSUME NEW i, NEW q \in Seq(Chunk), NEW r \in Seq(Chunk),
           NEW from \in Nat, NEW mid \in Int, NEW to \in Int, from <= mid + 1, mid <= to,
           Chunks(q, i, from, mid), Chunks(r, i, mid + 1, to)
    PROVE  Chunks(q \o r, i, from, to)
<1>1. \A lsn \in from .. mid : lsn \in from .. to /\ lsn \in Int /\ lsn <= mid
  OBVIOUS
<1>2. \A lsn \in mid + 1 .. to : lsn \in from .. to /\ lsn \in Int /\ lsn > mid
  OBVIOUS
<1>3. ASSUME NEW n \in DOMAIN (q \o r), (q \o r)[n] \in Stream(i)
      PROVE  \E lsn \in from .. to : (q \o r)[n] \in RecChunk(i, lsn)
  <2>1. \/ n \in DOMAIN q /\ (q \o r)[n] = q[n]
        \/ n - Len(q) \in DOMAIN r /\ (q \o r)[n] = r[n - Len(q)]
    BY ConcatSplit
  <2>2. \/ \E lsn \in from .. mid : (q \o r)[n] \in RecChunk(i, lsn)
        \/ \E lsn \in mid + 1 .. to : (q \o r)[n] \in RecChunk(i, lsn)
    BY Zenon, <1>3, <2>1 DEF Chunks
  <2>. QED
    BY Zenon, <1>1, <1>2, <2>2
<1>4. ASSUME NEW n \in DOMAIN (q \o r), NEW m \in DOMAIN (q \o r),
             (q \o r)[n] \in Stream(i), (q \o r)[m] \in Stream(i), n < m
      PROVE  (q \o r)[n].items[1].lsn < (q \o r)[m].items[1].lsn
  <2>1. /\ n \in Nat /\ m \in Nat /\ Len(q) \in Nat
        /\ \/ n \in DOMAIN q /\ n <= Len(q) /\ (q \o r)[n] = q[n]
           \/ n - Len(q) \in DOMAIN r /\ n > Len(q) /\ (q \o r)[n] = r[n - Len(q)]
        /\ \/ m \in DOMAIN q /\ m <= Len(q) /\ (q \o r)[m] = q[m]
           \/ m - Len(q) \in DOMAIN r /\ m > Len(q) /\ (q \o r)[m] = r[m - Len(q)]
    BY ConcatSplit
  <2>2. CASE n \in DOMAIN q /\ (q \o r)[n] = q[n] /\ m \in DOMAIN q /\ (q \o r)[m] = q[m]
    BY Zenon, <1>4, <2>2 DEF Chunks
  <2>3. CASE /\ n - Len(q) \in DOMAIN r /\ (q \o r)[n] = r[n - Len(q)]
             /\ m - Len(q) \in DOMAIN r /\ (q \o r)[m] = r[m - Len(q)]
    <3>1. n - Len(q) < m - Len(q)
      BY <1>4, <2>1
    <3>. QED
      BY Zenon, <1>4, <2>3, <3>1 DEF Chunks
  <2>4. CASE /\ n \in DOMAIN q /\ (q \o r)[n] = q[n]
             /\ m - Len(q) \in DOMAIN r /\ (q \o r)[m] = r[m - Len(q)]
    <3>1. PICK a \in from .. mid : (q \o r)[n] \in RecChunk(i, a)
      BY Zenon, <1>4, <2>4 DEF Chunks
    <3>2. PICK b \in mid + 1 .. to : (q \o r)[m] \in RecChunk(i, b)
      BY Zenon, <1>4, <2>4 DEF Chunks
    <3>3. (q \o r)[n].items[1].lsn = a /\ (q \o r)[m].items[1].lsn = b
      BY Zenon, <3>1, <3>2, RecChunkFacts
    <3>4. a < b
      OBVIOUS
    <3>. QED
      BY Zenon, <3>3, <3>4
  <2>5. ~(m <= Len(q) /\ n > Len(q))
    BY <1>4, <2>1
  <2>. QED
    BY Zenon, <2>1, <2>2, <2>3, <2>4, <2>5
<1>5. ASSUME NEW lsn \in from .. to
      PROVE  \E n \in DOMAIN (q \o r) : (q \o r)[n] \in RecChunk(i, lsn)
  <2>1. lsn \in from .. mid \/ lsn \in mid + 1 .. to
    OBVIOUS
  <2>0. /\ \A n \in DOMAIN q : n \in DOMAIN (q \o r) /\ (q \o r)[n] = q[n]
        /\ \A n \in DOMAIN r : Len(q) + n \in DOMAIN (q \o r) /\ (q \o r)[Len(q) + n] = r[n]
    BY ConcatHas
  <2>2. CASE lsn \in from .. mid
    <3>1. PICK n \in DOMAIN q : q[n] \in RecChunk(i, lsn)
      BY Zenon, <2>2 DEF Chunks
    <3>. QED
      BY Zenon, <2>0, <3>1
  <2>3. CASE lsn \in mid + 1 .. to
    <3>1. PICK n \in DOMAIN r : r[n] \in RecChunk(i, lsn)
      BY Zenon, <2>3 DEF Chunks
    <3>. QED
      BY Zenon, <2>0, <3>1
  <2>. QED
    BY Zenon, <2>1, <2>2, <2>3
<1>. QED
  BY Zenon, <1>3, <1>4, <1>5 DEF Chunks

(* A chunk that is not of the stream joins or leaves the channel.          *)
LEMMA ChunksAppend ==
    ASSUME NEW i, NEW q \in Seq(Chunk), NEW c \in Chunk, c \notin Stream(i), NEW from, NEW to,
           Chunks(q, i, from, to)
    PROVE  Chunks(Append(q, c), i, from, to)
<1>1. /\ DOMAIN q = 1 .. Len(q) /\ DOMAIN Append(q, c) = 1 .. Len(q) + 1 /\ Len(q) \in Nat
      /\ \A n \in 1 .. Len(q) : Append(q, c)[n] = q[n]
      /\ Append(q, c)[Len(q) + 1] = c
  BY AppendFacts
<1>2. \A n \in DOMAIN Append(q, c) : Append(q, c)[n] \in Stream(i) => n \in DOMAIN q /\ Append(q, c)[n] = q[n]
  BY <1>1
<1>3. \A n \in DOMAIN q : n \in DOMAIN Append(q, c) /\ Append(q, c)[n] = q[n]
  BY <1>1
<1>4. \A n \in DOMAIN Append(q, c) : Append(q, c)[n] \in Stream(i) =>
         \E lsn \in from .. to : Append(q, c)[n] \in RecChunk(i, lsn)
  BY Zenon, <1>2 DEF Chunks
<1>5. \A n, m \in DOMAIN Append(q, c) :
         Append(q, c)[n] \in Stream(i) /\ Append(q, c)[m] \in Stream(i) /\ n < m =>
            Append(q, c)[n].items[1].lsn < Append(q, c)[m].items[1].lsn
  BY Zenon, <1>2 DEF Chunks
<1>6. \A lsn \in from .. to : \E n \in DOMAIN Append(q, c) : Append(q, c)[n] \in RecChunk(i, lsn)
  BY Zenon, <1>3 DEF Chunks
<1>. QED
  BY Zenon, <1>4, <1>5, <1>6 DEF Chunks

LEMMA ChunksTail ==
    ASSUME NEW i, NEW q \in Seq(Chunk), q # <<>>, Head(q) \notin Stream(i), NEW from, NEW to,
           Chunks(q, i, from, to)
    PROVE  Chunks(Tail(q), i, from, to)
<1>1. \A n \in DOMAIN Tail(q) : n + 1 \in DOMAIN q /\ Tail(q)[n] = q[n + 1] /\ n \in Nat
  BY Zenon, TailShift
<1>2. \A n \in DOMAIN q : q[n] \in Stream(i) => n - 1 \in DOMAIN Tail(q) /\ Tail(q)[n - 1] = q[n]
  <2>1. /\ DOMAIN q = 1 .. Len(q) /\ Len(q) \in Nat /\ q[1] \notin Stream(i)
        /\ DOMAIN Tail(q) = 1 .. Len(q) - 1 /\ \A n \in 1 .. Len(q) - 1 : Tail(q)[n] = q[n + 1]
    BY TailFacts
  <2>2. \A n \in DOMAIN q : q[n] \in Stream(i) => n - 1 \in 1 .. Len(q) - 1 /\ (n - 1) + 1 = n
    BY <2>1
  <2>. QED
    BY <2>1, <2>2
<1>3. \A n \in DOMAIN Tail(q) : Tail(q)[n] \in Stream(i) =>
         \E lsn \in from .. to : Tail(q)[n] \in RecChunk(i, lsn)
  BY Zenon, <1>1 DEF Chunks
<1>4. ASSUME NEW n \in DOMAIN Tail(q), NEW m \in DOMAIN Tail(q),
             Tail(q)[n] \in Stream(i), Tail(q)[m] \in Stream(i), n < m
      PROVE  Tail(q)[n].items[1].lsn < Tail(q)[m].items[1].lsn
  <2>1. n + 1 < m + 1
    BY <1>1, <1>4
  <2>. QED
    BY Zenon, <1>1, <1>4, <2>1 DEF Chunks
<1>5. \A lsn \in from .. to : \E n \in DOMAIN Tail(q) : Tail(q)[n] \in RecChunk(i, lsn)
  BY Zenon, <1>2, RecChunkFacts DEF Chunks
<1>. QED
  BY Zenon, <1>3, <1>4, <1>5 DEF Chunks

(* The first chunk of the stream is its first record.                      *)
LEMMA ChunksHead ==
    ASSUME NEW i, NEW q \in Seq(Chunk), q # <<>>, Head(q) \in Stream(i), NEW from \in Nat, NEW to \in Int,
           Chunks(q, i, from, to)
    PROVE  /\ from <= to /\ Head(q) \in RecChunk(i, from)
           /\ Chunks(Tail(q), i, from + 1, to)
<1>1. /\ 1 \in DOMAIN q /\ Head(q) = q[1] /\ q[1] \in Stream(i) /\ \A n \in DOMAIN q : n \in Nat \ {0}
  BY TailFacts
<1>2. PICK a \in from .. to : q[1] \in RecChunk(i, a)
  BY Zenon, <1>1 DEF Chunks
<1>3. from <= to /\ from \in from .. to /\ a \in Int /\ from <= a
  OBVIOUS
<1>4. PICK k \in DOMAIN q : q[k] \in RecChunk(i, from)
  BY Zenon, <1>3 DEF Chunks
<1>5. q[1].items[1].lsn = a /\ q[k].items[1].lsn = from /\ q[k] \in Stream(i)
  BY Zenon, <1>2, <1>4, RecChunkFacts
<1>6. k = 1
  <2>1. SUFFICES ASSUME k # 1 PROVE FALSE
    OBVIOUS
  <2>2. 1 < k
    BY <1>1, <2>1
  <2>3. a < from
    BY Zenon, <1>1, <1>5, <2>2 DEF Chunks
  <2>. QED
    BY <1>3, <2>3
<1>7. q[1] \in RecChunk(i, from) /\ q[1].items[1].lsn = from
  BY Zenon, <1>4, <1>5, <1>6
<1>8. \A n \in DOMAIN Tail(q) : n + 1 \in DOMAIN q /\ Tail(q)[n] = q[n + 1] /\ n \in Nat
  BY Zenon, TailShift
<1>9. ASSUME NEW n \in DOMAIN Tail(q), Tail(q)[n] \in Stream(i)
      PROVE  \E lsn \in from + 1 .. to : Tail(q)[n] \in RecChunk(i, lsn)
  <2>1. PICK b \in from .. to : q[n + 1] \in RecChunk(i, b)
    BY Zenon, <1>8, <1>9 DEF Chunks
  <2>2. 1 < n + 1
    <3>1. n + 1 \in Nat \ {0} /\ n \in Nat /\ n # 0
      BY <1>1, <1>8, TailFacts
    <3>. QED
      BY <3>1
  <2>3. q[n + 1].items[1].lsn = b
    BY Zenon, <2>1, RecChunkFacts
  <2>4. from < b
    BY Zenon, <1>1, <1>7, <1>8, <1>9, <2>2, <2>3 DEF Chunks
  <2>5. b \in from + 1 .. to
    BY <2>4
  <2>. QED
    BY Zenon, <1>8, <2>1, <2>5
<1>10. ASSUME NEW n \in DOMAIN Tail(q), NEW m \in DOMAIN Tail(q),
              Tail(q)[n] \in Stream(i), Tail(q)[m] \in Stream(i), n < m
       PROVE  Tail(q)[n].items[1].lsn < Tail(q)[m].items[1].lsn
  <2>1. n + 1 < m + 1
    BY <1>8, <1>10
  <2>. QED
    BY Zenon, <1>8, <1>10, <2>1 DEF Chunks
<1>11. ASSUME NEW lsn \in from + 1 .. to
       PROVE  \E n \in DOMAIN Tail(q) : Tail(q)[n] \in RecChunk(i, lsn)
  <2>1. lsn \in from .. to /\ lsn # from
    OBVIOUS
  <2>2. PICK n \in DOMAIN q : q[n] \in RecChunk(i, lsn)
    BY Zenon, <2>1 DEF Chunks
  <2>3. n # 1
    <3>1. q[n].items[1].lsn = lsn
      BY Zenon, <2>2, RecChunkFacts
    <3>. QED
      BY Zenon, <1>7, <2>1, <3>1
  <2>4. n - 1 \in DOMAIN Tail(q) /\ Tail(q)[n - 1] = q[n]
    <3>1. /\ DOMAIN q = 1 .. Len(q) /\ Len(q) \in Nat
          /\ DOMAIN Tail(q) = 1 .. Len(q) - 1 /\ \A x \in 1 .. Len(q) - 1 : Tail(q)[x] = q[x + 1]
      BY TailFacts
    <3>2. n - 1 \in 1 .. Len(q) - 1 /\ (n - 1) + 1 = n
      BY <2>3, <3>1
    <3>. QED
      BY <3>1, <3>2
  <2>. QED
    BY Zenon, <2>2, <2>4
<1>12. Chunks(Tail(q), i, from + 1, to)
  BY Zenon, <1>9, <1>10, <1>11 DEF Chunks
<1>. QED
  BY Zenon, <1>1, <1>3, <1>7, <1>12

(* The record of a write, as its consumer sends it.                        *)
LEMMA StreamedChunks ==
    ASSUME TypeInv, NEW s \in Shards, NEW r \in Record, cur \in Sids
    PROVE  /\ None(Streamed(s, r), Full(cur))
           /\ cur \in consumers[s] => Chunks(Streamed(s, r), cur, Lsn(s), Lsn(s))
           /\ cur \notin consumers[s] => None(Streamed(s, r), Stream(cur))
<1> DEFINE l == Listing(consumers[s])
           z == Streamed(s, r)
           rec == [t |-> "rec", rec |-> r, lsn |-> Lsn(s)]
<1>1. TypeOK /\ Lsn(s) \in Nat \ {0}
  BY Zenon, LsnType DEF TypeInv
<1>2. /\ z \in Seq(Chunk) /\ DOMAIN z = 1 .. Cardinality(consumers[s])
      /\ \A n \in DOMAIN z : z[n] = [sid |-> l[n], full |-> FALSE, cut |-> 0, items |-> <<rec>>]
  BY Zenon, <1>1, StreamedType DEF Streamed
<1>3. /\ l \in [1 .. Cardinality(consumers[s]) -> consumers[s]]
      /\ \A i, j \in 1 .. Cardinality(consumers[s]) : l[i] = l[j] => i = j
      /\ \A x \in consumers[s] : \E i \in 1 .. Cardinality(consumers[s]) : l[i] = x
  <2>1. IsFiniteSet(consumers[s])
    <3>1. IsFiniteSet(Sids) /\ consumers[s] \subseteq Sids
      BY FS_Interval, ReplicationAssumption, <1>1 DEF Sids, TypeOK
    <3>. QED
      BY Zenon, <3>1, FS_Subset
  <2>. QED
    BY Zenon, <2>1, ListingFacts
<1>4. Len(<<rec>>) = 1 /\ <<rec>>[1] = rec /\ rec.t = "rec" /\ rec.lsn = Lsn(s)
  OBVIOUS
<1> HIDE DEF rec, l, z
<1>5. \A n \in DOMAIN z : z[n] \in Chunk /\ z[n].sid = l[n] /\ z[n].full = FALSE /\ z[n].cut = 0 /\ z[n].items = <<rec>>
  <2> SUFFICES ASSUME NEW n \in DOMAIN z
               PROVE  z[n] \in Chunk /\ z[n].sid = l[n] /\ z[n].full = FALSE /\ z[n].cut = 0 /\ z[n].items = <<rec>>
    OBVIOUS
  <2>1. z[n] \in Chunk
    BY <1>2, SeqElem
  <2> DEFINE y == <<rec>>
  <2>2. z[n] = [sid |-> l[n], full |-> FALSE, cut |-> 0, items |-> y]
    BY Zenon, <1>2
  <2> HIDE DEF y
  <2>3. z[n].sid = l[n] /\ z[n].full = FALSE /\ z[n].cut = 0 /\ z[n].items = y
    BY <2>2
  <2>. QED
    BY Zenon, <2>1, <2>3 DEF y
<1>6. None(z, Full(cur))
  BY <1>5 DEF None, Full
<1>7. \A n \in DOMAIN z : z[n] \in Stream(cur) <=> l[n] = cur
  BY <1>5 DEF Stream
<1>8. \A n \in DOMAIN z : z[n] \in Stream(cur) => z[n] \in RecChunk(cur, Lsn(s))
  BY Zenon, <1>4, <1>5 DEF RecChunk
<1>9. Lsn(s) .. Lsn(s) = {Lsn(s)}
  BY <1>1
<1>10. ASSUME cur \notin consumers[s] PROVE None(z, Stream(cur))
  <2>1. \A n \in DOMAIN z : l[n] \in consumers[s]
    BY Zenon, <1>2, <1>3
  <2>. QED
    BY Zenon, <1>7, <1>10, <2>1 DEF None
<1>11. ASSUME cur \in consumers[s] PROVE Chunks(z, cur, Lsn(s), Lsn(s))
  <2>1. \A n, m \in DOMAIN z : z[n] \in Stream(cur) /\ z[m] \in Stream(cur) => n = m
    BY Zenon, <1>2, <1>3, <1>7
  <2>2. \A n, m \in DOMAIN z : n < m => n # m
    BY <1>2
  <2>3. \E n \in DOMAIN z : z[n] \in RecChunk(cur, Lsn(s))
    BY Zenon, <1>2, <1>3, <1>7, <1>8, <1>11
  <2>. QED
    BY Zenon, <1>8, <1>9, <2>1, <2>2, <2>3 DEF Chunks
<1>. QED
  BY Zenon, <1>6, <1>10, <1>11 DEF z

(* The records of the ring, as `start_stable_sync` sends them.             *)
LEMMA CaughtUpChunks ==
    ASSUME TypeInv, NEW s \in Shards, NEW from \in Nat \ {0}, cur \in Sids
    PROVE  None(CaughtUp(s, from), Full(cur)) /\ Chunks(CaughtUp(s, from), cur, from, Len(log[s]))
<1> DEFINE z == CaughtUp(s, from)
<1>1. /\ z \in Seq(Chunk) /\ DOMAIN z = 1 .. Lsn(s) - from
      /\ Lsn(s) = Len(log[s]) + 1 /\ Len(log[s]) \in Nat
  BY Zenon, CaughtUpType, LsnType DEF TypeInv
<1>2. \A n \in DOMAIN z : z[n] = [sid |-> cur, full |-> FALSE, cut |-> 0, items |-> <<Rec(s, from + n - 1)>>]
  BY Zenon, <1>1 DEF CaughtUp
<1> HIDE DEF z
<1>3. ASSUME NEW n \in DOMAIN z
      PROVE  z[n] \in RecChunk(cur, from + n - 1) /\ z[n] \notin Full(cur) /\ z[n].items[1].lsn = from + n - 1
  <2> DEFINE x == Rec(s, from + n - 1)
  <2>1. x.t = "rec" /\ x.lsn = from + n - 1
    BY DEF Rec
  <2> HIDE DEF x
  <2>2. /\ z[n] \in Chunk /\ z[n].sid = cur /\ z[n].full = FALSE /\ z[n].cut = 0
        /\ Len(z[n].items) = 1 /\ z[n].items[1] = x
    <3>1. z[n] = [sid |-> cur, full |-> FALSE, cut |-> 0, items |-> <<x>>]
      BY Zenon, <1>2 DEF x
    <3>. QED
      BY <1>1, <3>1
  <2>3. z[n] \in Stream(cur) /\ z[n] \notin Full(cur)
    BY <2>2 DEF Stream, Full
  <2>. QED
    BY Zenon, <2>1, <2>2, <2>3 DEF RecChunk
<1>4. None(z, Full(cur))
  BY Zenon, <1>3 DEF None
<1>5. \A n \in DOMAIN z : from + n - 1 \in from .. Len(log[s])
  BY <1>1
<1>6. \A n, m \in DOMAIN z : n < m => from + n - 1 < from + m - 1
  BY <1>1
<1>7. \A lsn \in from .. Len(log[s]) : lsn - from + 1 \in DOMAIN z /\ from + (lsn - from + 1) - 1 = lsn
  BY <1>1
<1>8. \A lsn \in from .. Len(log[s]) : \E n \in DOMAIN z : z[n] \in RecChunk(cur, lsn)
  BY <1>3, <1>7
<1>9. \A n, m \in DOMAIN z : n < m => z[n].items[1].lsn < z[m].items[1].lsn
  BY <1>3, <1>6
<1>10. Chunks(z, cur, from, Len(log[s]))
  BY Zenon, <1>3, <1>5, <1>8, <1>9 DEF Chunks
<1>. QED
  BY Zenon, <1>4, <1>10 DEF z

----------------------------------------------------------------------------
(* What a step leaves of a flow *)

(* Nothing happened on shard s to the replica's flow but that its records  *)
(* were sent and its snapshot went on.                                     *)
Apart(s) ==
    /\ cur' = cur /\ fpc'[s] = fpc[s] /\ next'[s] = next[s]
    /\ sess'[cur].start[s] = sess[cur].start[s]
    /\ Incoming(s)' = Incoming(s)
    /\ Lsn(s) <= Lsn(s)'
    /\ cur \notin consumers[s] => cur \notin consumers'[s]
    /\ NoStream(s) => NoStream(s)'
    /\ cur \in consumers[s] =>
          /\ cur \in consumers'[s]
          /\ \A from \in 1 .. Lsn(s) :
                Chunks(chan[s], cur, from, Len(log[s])) => Chunks(chan'[s], cur, from, Len(log'[s]))
    /\ NoWork(s) => NoWork(s)'
    /\ OneWork(s) => OneWork(s)'
    /\ None(chan[s], Full(cur) \ Loadable(Lsn(s))) => None(chan'[s], Full(cur) \ Loadable(Lsn(s)'))

(* A quiet flow stays quiet.                                               *)
LEMMA QuietApart ==
    ASSUME NEW s \in Shards, Apart(s), Quiet(s)
    PROVE  Quiet(s)'
  BY Zenon DEF Apart, Quiet

(* A snapshot that loads up to an LSN loads up to a later one.             *)
LEMMA LoadsMore ==
    ASSUME NEW items, NEW cut \in Nat, NEW l \in Nat, NEW m \in Nat, l <= m, Loads(items, cut, l)
    PROVE  Loads(items, cut, m)
  BY DEF Loads

LEMMA StartType ==
    ASSUME TypeInv, NEW s \in Shards, cur \in Sids
    PROVE  sess[cur].start[s] \in Nat
<1>1. sess[cur] \in Session
  BY Zenon, SessType
<1>. QED
  BY <1>1 DEF Session

(* The types of what a flow has, by shard.                                 *)
LEMMA FlowTypes ==
    ASSUME TypeInv, NEW s \in Shards
    PROVE  /\ next[s] \in Nat /\ held[s] \in Seq(Item) /\ down[s] \in Seq(Item)
           /\ Incoming(s) \in Seq(Item) /\ Len(Incoming(s)) \in Nat
           /\ Lsn(s) \in Nat \ {0} /\ Len(log[s]) \in Nat /\ Lsn(s) = Len(log[s]) + 1
<1>1. next[s] \in Nat /\ held[s] \in Seq(Item) /\ down[s] \in Seq(Item) /\ TypeOK
  BY Zenon DEF TypeInv, TypeOK
<1>2. Incoming(s) \in Seq(Item) /\ Len(Incoming(s)) \in Nat
  BY <1>1, ConcatFacts DEF Incoming
<1>. QED
  BY <1>1, <1>2, LsnType

(* The LSN of a shard is the next one its journal gives.                   *)
LEMMA LsnNext ==
    ASSUME TypeInv', NEW s \in Shards
    PROVE  Lsn(s)' \in Nat \ {0} /\ Len(log'[s]) \in Nat /\ Lsn(s)' = Len(log'[s]) + 1
<1>1. log'[s] \in Seq(Record)
  BY Zenon DEF TypeInv, TypeOK
<1>. QED
  BY <1>1 DEF Lsn

(* Loading, Ready, Started and Streaming survive a step that leaves the    *)
(* flow where it is.                                                       *)
LEMMA LoadingApart ==
    ASSUME TypeInv, TypeInv', NEW s \in Shards, cur \in Sids, Apart(s), Loading(s)
    PROVE  Loading(s)'
<1>1. /\ cur' = cur /\ fpc'[s] = "load" /\ NoStream(s)' /\ OneWork(s)'
      /\ HasTail(Incoming(s)') => NoWork(s)'
      /\ None(chan'[s], Full(cur) \ Loadable(Lsn(s)'))
  BY Zenon DEF Apart, Loading
<1>2. Loads(Incoming(s)', sess'[cur].start[s], Lsn(s)')
  <2>1. Lsn(s) \in Nat /\ Lsn(s)' \in Nat /\ sess[cur].start[s] \in Nat /\ Lsn(s) <= Lsn(s)'
    BY Zenon, FlowTypes, LsnNext, StartType DEF Apart
  <2>2. Loads(Incoming(s), sess[cur].start[s], Lsn(s)')
    BY Zenon, <2>1, LoadsMore DEF Loading
  <2>. QED
    BY Zenon, <2>2 DEF Apart
<1>. QED
  BY Zenon, <1>1, <1>2 DEF Loading

LEMMA ReadyApart ==
    ASSUME TypeInv, TypeInv', NEW s \in Shards, Apart(s), Ready(s)
    PROVE  Ready(s)'
<1>1. fpc'[s] = "token" /\ Quiet(s)'
  BY Zenon, QuietApart DEF Apart, Ready
<1>2. AtStart(s)'
  <2>1. next[s] <= Lsn(s) /\ Lsn(s) <= Lsn(s)' /\ next[s] \in Nat /\ Lsn(s) \in Nat /\ Lsn(s)' \in Nat
    BY Zenon, FlowTypes, LsnNext DEF Ready, AtStart, Apart
  <2>2. next[s] <= Lsn(s)'
    BY <2>1
  <2>. QED
    BY Zenon, <2>2 DEF Ready, AtStart, Apart
<1>. QED
  BY Zenon, <1>1, <1>2 DEF Ready

LEMMA FollowsApart ==
    ASSUME TypeInv, TypeInv', NEW s \in Shards, NEW n \in Nat, Apart(s), Follows(s, n)
    PROVE  Follows(s, n)'
<1>1. next[s] + n \in 1 .. Lsn(s) /\ next[s] + n <= Lsn(s)'
  <2>1. /\ next[s] # 0 /\ next[s] + n <= Lsn(s) /\ Lsn(s) <= Lsn(s)' /\ next[s] \in Nat
        /\ Lsn(s) \in Nat /\ Lsn(s)' \in Nat
    BY Zenon, FlowTypes, LsnNext DEF Follows, Apart
  <2>. QED
    BY <2>1
<1>2. cur \in consumers'[s] /\ Chunks(chan'[s], cur, next[s] + n, Len(log'[s])) /\ NoWork(s)'
  BY Zenon, <1>1 DEF Follows, Apart
<1>3. cur' = cur /\ next'[s] = next[s] /\ next[s] # 0
  BY Zenon DEF Follows, Apart
<1>. QED
  BY Zenon, <1>1, <1>2, <1>3 DEF Follows

LEMMA StartedApart ==
    ASSUME TypeInv, TypeInv', NEW s \in Shards, Apart(s), Started(s)
    PROVE  Started(s)'
<1>1. Follows(s, 0)'
  BY FollowsApart DEF Started
<1>. QED
  BY Zenon, <1>1 DEF Started, Apart

LEMMA StreamingApart ==
    ASSUME TypeInv, TypeInv', NEW s \in Shards, Apart(s), Streaming(s)
    PROVE  Streaming(s)'
<1>1. Incoming(s)' = Incoming(s) /\ fpc'[s] = fpc[s] /\ next'[s] = next[s]
  BY Zenon DEF Apart
<1>2. CASE fpc[s] = "stable" /\ Counts(Incoming(s), next[s]) /\ Follows(s, Len(Incoming(s)))
  <2>1. PICK n \in Nat : n = Len(Incoming(s))
    BY Zenon, FlowTypes
  <2>2. Follows(s, n)'
    BY Zenon, <1>2, <2>1, FollowsApart
  <2>3. Follows(s, Len(Incoming(s)))'
    BY Zenon, <1>1, <2>1, <2>2 DEF Follows
  <2>. QED
    BY Zenon, <1>1, <1>2, <2>3 DEF Streaming
<1>3. CASE /\ fpc[s] = "token" /\ Incoming(s) # <<>> /\ Head(Incoming(s)).t = "token"
           /\ Counts(Tail(Incoming(s)), next[s]) /\ Follows(s, Len(Tail(Incoming(s))))
  <2>0. Len(Tail(Incoming(s))) \in Nat
    BY <1>3, FlowTypes, TailFacts
  <2>1. PICK n \in Nat : n = Len(Tail(Incoming(s)))
    BY Zenon, <2>0
  <2>2. Follows(s, n)'
    BY Zenon, <1>3, <2>1, FollowsApart
  <2>3. Follows(s, Len(Tail(Incoming(s))))'
    BY Zenon, <1>1, <2>1, <2>2 DEF Follows
  <2>. QED
    BY Zenon, <1>1, <1>3, <2>3 DEF Streaming
<1>. QED
  BY Zenon, <1>2, <1>3 DEF Streaming

----------------------------------------------------------------------------
(* Steps that leave the replica's flow on a shard *)

(* At most a message that asks for no snapshot is queued.                  *)
LEMMA ApartQueue ==
    ASSUME TypeInv, NEW s \in Shards, cur' = cur, fpc'[s] = fpc[s], next'[s] = next[s],
           sess'[cur].start[s] = sess[cur].start[s],
           Incoming(s)' = Incoming(s), log'[s] = log[s],
           consumers'[s] = consumers[s], frames'[s] = frames[s], chan'[s] = chan[s],
           None(shardQ[s], Asks(cur)) => None(shardQ'[s], Asks(cur)),
           AtMostOne(shardQ[s], Asks(cur)) => AtMostOne(shardQ'[s], Asks(cur))
    PROVE  Apart(s)
<1>1. Lsn(s)' = Lsn(s)
  BY Zenon DEF Lsn
<1>2. Lsn(s) <= Lsn(s)'
  <2>1. Lsn(s) \in Nat
    BY FlowTypes
  <2>. QED
    BY <1>1, <2>1
<1>3. (NoStream(s) => NoStream(s)') /\ (NoWork(s) => NoWork(s)')
  BY Zenon DEF NoStream, NoWork
<1>4. OneWork(s) => OneWork(s)'
  BY Zenon DEF OneWork
<1>. QED
  BY Zenon, <1>1, <1>2, <1>3, <1>4 DEF Apart

LEMMA ApartAppend ==
    ASSUME TypeInv, NEW s \in Shards, cur' = cur, fpc'[s] = fpc[s], next'[s] = next[s],
           sess'[cur].start[s] = sess[cur].start[s],
           held'[s] = held[s], down'[s] = down[s], log'[s] = log[s],
           consumers'[s] = consumers[s], frames'[s] = frames[s], chan'[s] = chan[s],
           NEW m \in ShardMsg, m \notin Asks(cur), shardQ'[s] = Append(shardQ[s], m)
    PROVE  Apart(s)
<1>1. shardQ[s] \in Seq(ShardMsg)
  BY Zenon DEF TypeInv, TypeOK
<1>2. None(shardQ[s], Asks(cur)) => None(Append(shardQ[s], m), Asks(cur))
  BY <1>1, NoneAppend
<1>3. AtMostOne(shardQ[s], Asks(cur)) => AtMostOne(Append(shardQ[s], m), Asks(cur))
  BY Zenon, <1>1, OneAppend
<1>4. Incoming(s)' = Incoming(s)
  BY Zenon DEF Incoming
<1>. QED
  BY Zenon, <1>2, <1>3, <1>4, ApartQueue

(* Another shard's write, message or chunk.                                *)
LEMMA ApartSame ==
    ASSUME TypeInv, NEW s \in Shards, cur' = cur, fpc'[s] = fpc[s], next'[s] = next[s],
           sess'[cur].start[s] = sess[cur].start[s],
           held'[s] = held[s], down'[s] = down[s], log'[s] = log[s],
           consumers'[s] = consumers[s], frames'[s] = frames[s], chan'[s] = chan[s],
           shardQ'[s] = shardQ[s]
    PROVE  Apart(s)
<1>1. Incoming(s)' = Incoming(s)
  BY Zenon DEF Incoming
<1>. QED
  BY Zenon, <1>1, ApartQueue

LEMMA AsksFacts ==
    ASSUME NEW i, NEW m
    PROVE  m \in Asks(i) <=> m \in ShardMsg /\ m.t \in {"snapshot", "step"} /\ m.sid = i
  BY DEF Asks, Msg

(* A write sends its record to a flow that is registered, and leaves any   *)
(* other one.                                                              *)
LEMMA WriteApart ==
    ASSUME TypeInv, TypeInv', NEW s \in Shards, NEW k \in Keys, NEW op \in Ops, Write(s, k, op),
           cur \in Sids, NEW t \in Shards
    PROVE  Apart(t)
<1> DEFINE r == [op |-> op, key |-> k, val |-> 10 * (writes + 1)]
<1>1. /\ UNCHANGED <<cur, fpc, next, sess, held, down, consumers, frames, shardQ>>
      /\ \/ UNCHANGED <<log, chan>>
         \/ /\ log' = [log EXCEPT ![s] = Append(log[s], r)]
            /\ chan' = [chan EXCEPT ![s] = chan[s] \o Streamed(s, r)]
  BY Zenon DEF Write, replicaVars, flowVars
<1>2. r \in Record /\ log \in [Shards -> Seq(Record)] /\ chan \in [Shards -> Seq(Chunk)]
  <2>1. log \in [Shards -> Seq(Record)] /\ chan \in [Shards -> Seq(Chunk)]
    BY Zenon DEF TypeInv, TypeOK
  <2>2. r \in Record
    BY ReplicationAssumption DEF TypeInv, TypeOK, Record
  <2>. QED
    BY Zenon, <2>1, <2>2
<1> HIDE DEF r
<1>3. CASE log'[t] = log[t] /\ chan'[t] = chan[t]
  BY Zenon, <1>1, <1>3, ApartSame
<1>4. CASE /\ t = s /\ log'[s] = Append(log[s], r)
           /\ chan'[s] = chan[s] \o Streamed(s, r)
  <2>1. /\ Streamed(s, r) \in Seq(Chunk) /\ chan[s] \in Seq(Chunk)
        /\ Lsn(s) \in Nat \ {0} /\ Lsn(s) = Len(log[s]) + 1 /\ Len(log[s]) \in Nat
    BY Zenon, <1>2, StreamedType, FlowTypes DEF TypeInv
  <2>2. Len(log'[s]) = Lsn(s) /\ Lsn(s)' = Lsn(s) + 1
    <3>1. Len(log'[s]) = Len(log[s]) + 1
      BY <1>2, <1>4
    <3>. QED
      BY <2>1, <3>1 DEF Lsn
  <2>3. /\ None(Streamed(s, r), Full(cur))
        /\ cur \in consumers[s] => Chunks(Streamed(s, r), cur, Lsn(s), Lsn(s))
        /\ cur \notin consumers[s] => None(Streamed(s, r), Stream(cur))
    BY Zenon, <1>2, StreamedChunks
  <2> DEFINE z == Streamed(s, r)
  <2> HIDE DEF z
  <2>4. \A S : None(chan'[s], S) <=> None(chan[s], S) /\ None(z, S)
    BY <1>4, <2>1, NoneConcat DEF z
  <2>5. AtMostOne(chan[s], Full(cur)) => AtMostOne(chan'[s], Full(cur))
    <3>1. ASSUME NEW n \in DOMAIN chan'[s], chan'[s][n] \in Full(cur)
          PROVE  n \in DOMAIN chan[s] /\ chan[s][n] \in Full(cur)
      <4>1. \/ n \in DOMAIN chan[s] /\ chan'[s][n] = chan[s][n]
            \/ n - Len(chan[s]) \in DOMAIN z /\ chan'[s][n] = z[n - Len(chan[s])]
        <5>1. n \in DOMAIN (chan[s] \o z) /\ chan'[s] = chan[s] \o z /\ z \in Seq(Chunk)
          BY Zenon, <1>4, <2>1 DEF z
        <5>. QED
          BY <2>1, <5>1, ConcatSplit
      <4>2. \A m \in DOMAIN z : z[m] \notin Full(cur)
        BY Zenon, <2>3 DEF None, z
      <4>. QED
        BY Zenon, <3>1, <4>1, <4>2
    <3>. QED
      BY Zenon, <3>1 DEF AtMostOne
  <2>6. cur \notin consumers[s] => (None(chan[s], Stream(cur)) => None(chan'[s], Stream(cur)))
    BY Zenon, <2>3, <2>4 DEF z
  <2>7. None(chan[s], Full(cur)) => None(chan'[s], Full(cur))
    BY Zenon, <2>3, <2>4 DEF z
  <2>8. Lsn(s) <= Lsn(s)'
    BY <2>1, <2>2
  <2>9. None(chan[s], Full(cur) \ Loadable(Lsn(s))) => None(chan'[s], Full(cur) \ Loadable(Lsn(s)'))
    <3>1. Loadable(Lsn(s)) \subseteq Loadable(Lsn(s)')
      <4>1. \A c \in Chunk : c.cut \in Nat
        BY DEF Chunk
      <4>2. \A c \in Chunk : Loads(c.items, c.cut, Lsn(s)) => Loads(c.items, c.cut, Lsn(s)')
        <5>1. Lsn(s) \in Nat /\ Lsn(s)' \in Nat
          BY <2>1, <2>2
        <5>. QED
          BY Zenon, <2>8, <4>1, <5>1, LoadsMore
      <4>. QED
        BY Zenon, <4>2 DEF Loadable
    <3>2. None(z, Full(cur) \ Loadable(Lsn(s)))
      BY Zenon, <2>3, NoneSub DEF z
    <3>. QED
      <4>1. Full(cur) \ Loadable(Lsn(s)') \subseteq Full(cur) \ Loadable(Lsn(s))
        BY Zenon, <3>1
      <4>. QED
        BY Zenon, <2>4, <3>2, <4>1, NoneSub
  <2>10. ASSUME cur \in consumers[s], NEW from \in 1 .. Lsn(s), Chunks(chan[s], cur, from, Len(log[s]))
         PROVE  Chunks(chan'[s], cur, from, Len(log'[s]))
    <3>1. from \in Nat /\ Len(log[s]) \in Int /\ Lsn(s) \in Int /\ from <= Len(log[s]) + 1 /\ Len(log[s]) <= Lsn(s)
      BY <2>1
    <3>2. Chunks(z, cur, Len(log[s]) + 1, Lsn(s))
      BY Zenon, <2>1, <2>3, <2>10 DEF z
    <3>3. Chunks(chan[s] \o z, cur, from, Lsn(s))
      BY Zenon, <2>1, <2>10, <3>1, <3>2, ChunksConcat DEF z
    <3>. QED
      BY Zenon, <1>4, <2>2, <3>3 DEF z
  <2>11. /\ (NoStream(s) => NoStream(s)') /\ (NoWork(s) => NoWork(s)')
         /\ Incoming(s)' = Incoming(s)
    BY Zenon, <1>1, <2>6, <2>7 DEF NoStream, NoWork, Incoming
  <2>12. OneWork(s) => OneWork(s)'
    BY Zenon, <1>1, <2>5, <2>7 DEF OneWork
  <2>. QED
    BY Zenon, <1>1, <1>4, <2>8, <2>9, <2>10, <2>11, <2>12 DEF Apart
<1>. QED
  <2>1. CASE UNCHANGED <<log, chan>>
    BY Zenon, <1>3, <2>1
  <2>2. CASE /\ log' = [log EXCEPT ![s] = Append(log[s], r)]
             /\ chan' = [chan EXCEPT ![s] = chan[s] \o Streamed(s, r)]
    <3>1. /\ t # s => log'[t] = log[t] /\ chan'[t] = chan[t]
          /\ log'[s] = Append(log[s], r) /\ chan'[s] = chan[s] \o Streamed(s, r)
      BY Zenon, <1>2, <2>2
    <3>. QED
      BY Zenon, <1>3, <1>4, <3>1
  <2>. QED
    BY Zenon, <1>1, <2>1, <2>2

FirstMsg(s) == Head(shardQ[s])

(* A message opens at most one frame, of the session it names.             *)
LEMMA HandleMsgFrames ==
    ASSUME TypeInv, NEW s \in Shards, HandleMsg(s)
    PROVE  /\ \A t \in Shards \ {s} : frames'[t] = frames[t]
           /\ \/ frames'[s] = frames[s]
              \/ /\ FirstMsg(s).t \in {"snapshot", "step"} /\ FirstMsg(s) \in ShardMsg
                 /\ \E f \in Frame : f.sid = FirstMsg(s).sid /\ frames'[s] = <<f>> \o frames[s]
<1> DEFINE m == FirstMsg(s)
<1>1. m \in ShardMsg
  <2>1. shardQ[s] # <<>> /\ shardQ[s] \in Seq(ShardMsg)
    BY Zenon DEF HandleMsg, TypeInv, TypeOK
  <2>. QED
    BY <2>1, TailFacts DEF FirstMsg
<1>2. \/ frames' = frames
      \/ m.t = "snapshot" /\ Serialize(s, m.sid, [keys |-> Listing(Present(s)), from |-> Lsn(s)])
      \/ m.t = "step" /\ snaps[s][m.sid] # NoSnap /\ Serialize(s, m.sid, snaps[s][m.sid])
  BY Zenon DEF HandleMsg, FirstMsg
<1>3. m.t \in {"snapshot", "step"} => m.sid \in Sids
  BY <1>1, MsgFields
<1> HIDE DEF m
<1>4. \/ frames' = frames
      \/ /\ m.t \in {"snapshot", "step"}
         /\ \E f \in [sid : {m.sid}, items : Seq(Entry), done : BOOLEAN] :
               frames' = [frames EXCEPT ![s] = <<f>> \o @]
  BY Zenon, <1>2, <1>3, SnapshotSerializes, StepSerializes
<1>5. CASE frames' = frames
  BY Zenon, <1>5
<1>6. CASE /\ m.t \in {"snapshot", "step"}
           /\ \E f \in [sid : {m.sid}, items : Seq(Entry), done : BOOLEAN] :
                 frames' = [frames EXCEPT ![s] = <<f>> \o @]
  <2>1. PICK f \in [sid : {m.sid}, items : Seq(Entry), done : BOOLEAN] :
                 frames' = [frames EXCEPT ![s] = <<f>> \o @]
    BY Zenon, <1>6
  <2>2. f \in Frame /\ f.sid = m.sid
    BY <1>3, <1>6 DEF Frame
  <2>3. DOMAIN frames = Shards
    BY Zenon DEF TypeInv, TypeOK
  <2>4. /\ frames'[s] = <<f>> \o frames[s]
        /\ \A t \in Shards \ {s} : frames'[t] = frames[t]
    BY Zenon, <2>1, <2>3
  <2>. QED
    BY Zenon, <1>1, <1>6, <2>2, <2>4 DEF m
<1>. QED
  BY Zenon, <1>4, <1>5, <1>6

(* A message that a shard handles: the snapshot goes on, or is another     *)
(* session's.                                                              *)
LEMMA HandleMsgApart ==
    ASSUME TypeInv, SidInv, NEW s \in Shards, HandleMsg(s), cur \in Sids, sess[cur].state # "none",
           NEW t \in Shards
    PROVE  Apart(t)
<1>1. UNCHANGED <<cur, fpc, next, sess, held, down, log, chan>>
  BY Zenon DEF HandleMsg, replicaVars, flowVars
<1>2. CASE t # s
  <2>1. consumers'[t] = consumers[t] /\ shardQ'[t] = shardQ[t] /\ frames'[t] = frames[t]
    BY Zenon, <1>2, HandleMsgFacts, HandleMsgFrames
  <2>. QED
    BY Zenon, <1>1, <2>1, ApartSame
<1>3. CASE t = s
  <2>1. shardQ'[s] = Tail(shardQ[s]) /\ shardQ[s] # <<>> /\ shardQ[s] \in Seq(ShardMsg)
    BY Zenon, HandleMsgFacts
  <2>2. Lsn(s)' = Lsn(s) /\ Incoming(s)' = Incoming(s) /\ Lsn(s) <= Lsn(s)'
    <3>1. Lsn(s)' = Lsn(s) /\ Incoming(s)' = Incoming(s)
      BY Zenon, <1>1 DEF Lsn, Incoming
    <3>2. Lsn(s) \in Nat
      BY FlowTypes
    <3>. QED
      BY <3>1, <3>2
  <2>3. cur \in consumers[s] <=> cur \in consumers'[s]
    <3>1. \/ consumers'[s] = consumers[s]
          \/ FirstMsg(s).t = "stop" /\ consumers'[s] = consumers[s] \ {FirstMsg(s).sid}
      <4>1. consumers \in [Shards -> SUBSET Sids]
        BY Zenon DEF TypeInv, TypeOK
      <4>2. \/ consumers' = consumers
            \/ FirstMsg(s).t = "stop" /\ consumers' = [consumers EXCEPT ![s] = consumers[s] \ {FirstMsg(s).sid}]
        BY Zenon DEF HandleMsg, FirstMsg
      <4>. QED
        BY <4>1, <4>2
    <3>2. FirstMsg(s).t = "stop" => FirstMsg(s).sid # cur
      <4>1. shardQ[s] \in Seq(KnownMsg)
        BY Zenon DEF SidInv
      <4>2. FirstMsg(s) \in KnownMsg
        BY <2>1, <4>1, TailFacts DEF FirstMsg
      <4>. QED
        BY <4>2 DEF KnownMsg
    <3>. QED
      BY <3>1, <3>2
  <2>4. /\ None(shardQ[s], Asks(cur)) => None(shardQ'[s], Asks(cur)) /\ FirstMsg(s) \notin Asks(cur)
        /\ AtMostOne(shardQ[s], Asks(cur)) =>
              /\ AtMostOne(shardQ'[s], Asks(cur))
              /\ FirstMsg(s) \in Asks(cur) => None(shardQ'[s], Asks(cur))
    <3>1. None(shardQ[s], Asks(cur)) => None(Tail(shardQ[s]), Asks(cur)) /\ FirstMsg(s) \notin Asks(cur)
      BY <2>1, NoneTail DEF FirstMsg
    <3>2. AtMostOne(shardQ[s], Asks(cur)) =>
              /\ AtMostOne(Tail(shardQ[s]), Asks(cur))
              /\ FirstMsg(s) \in Asks(cur) => None(Tail(shardQ[s]), Asks(cur))
      BY <2>1, OneTail DEF FirstMsg
    <3>. QED
      BY Zenon, <2>1, <3>1, <3>2
  <2>5. /\ None(frames[s], Open(cur)) => /\ AtMostOne(frames'[s], Open(cur))
                                         /\ FirstMsg(s) \notin Asks(cur) => None(frames'[s], Open(cur))
        /\ AtMostOne(frames[s], Open(cur)) /\ FirstMsg(s) \notin Asks(cur) => AtMostOne(frames'[s], Open(cur))
    <3>1. CASE frames'[s] = frames[s]
      BY Zenon, <3>1, NoneOne
    <3>2. CASE /\ FirstMsg(s).t \in {"snapshot", "step"} /\ FirstMsg(s) \in ShardMsg
               /\ \E f \in Frame : f.sid = FirstMsg(s).sid /\ frames'[s] = <<f>> \o frames[s]
      <4>1. PICK f \in Frame : f.sid = FirstMsg(s).sid /\ frames'[s] = <<f>> \o frames[s]
        BY Zenon, <3>2
      <4>2. FirstMsg(s) \notin Asks(cur) => f \notin Open(cur)
        BY <3>2, <4>1, AsksFacts DEF Open
      <4>3. frames[s] \in Seq(Frame)
        BY Zenon DEF TypeInv, TypeOK, Frame
      <4>. QED
        BY Zenon, <4>1, <4>2, <4>3, NoneCons, OneCons
    <3>. QED
      BY Zenon, <3>1, <3>2, HandleMsgFrames
  <2>6. NoWork(s) => NoWork(s)'
    BY Zenon, <1>1, <2>4, <2>5 DEF NoWork
  <2>7. OneWork(s) => OneWork(s)'
    <3>1. CASE AtMostOne(shardQ[s], Asks(cur)) /\ None(frames[s], Open(cur)) /\ None(chan[s], Full(cur))
      BY Zenon, <1>1, <2>4, <2>5, <3>1 DEF OneWork
    <3>2. CASE None(shardQ[s], Asks(cur)) /\ AtMostOne(frames[s], Open(cur)) /\ None(chan[s], Full(cur))
      BY Zenon, <1>1, <2>4, <2>5, <3>2 DEF OneWork
    <3>3. CASE None(shardQ[s], Asks(cur)) /\ None(frames[s], Open(cur)) /\ AtMostOne(chan[s], Full(cur))
      BY Zenon, <1>1, <2>4, <2>5, <3>3 DEF OneWork
    <3>. QED
      BY Zenon, <3>1, <3>2, <3>3 DEF OneWork
  <2>8. NoStream(s) => NoStream(s)'
    BY Zenon, <1>1, <2>3 DEF NoStream
  <2>. QED
    BY Zenon, <1>1, <1>3, <2>2, <2>3, <2>6, <2>7, <2>8 DEF Apart
<1>. QED
  BY Zenon, <1>2, <1>3

(* A chunk that a shard ships: the work moves from the frame to the        *)
(* channel and the queue.                                                  *)
LEMMA ShipApart ==
    ASSUME TypeInv, NEW s \in Shards, Ship(s), NEW t \in Shards
    PROVE  Apart(t)
<1> DEFINE c == ShipChunk(s)
<1>1. UNCHANGED <<cur, fpc, next, sess, held, down, log, shardQ, consumers>>
  BY Zenon DEF Ship, replicaVars, flowVars
<1>2. /\ frames[s] # <<>> /\ TopFrame(s) \in Frame
      /\ frames' = [frames EXCEPT ![s] = Tail(frames[s])]
      /\ c \in Chunk /\ c.sid = TopFrame(s).sid /\ c.full = TRUE /\ c \in Loadable(Lsn(s))
      /\ chan' \in {chan, [chan EXCEPT ![s] = Append(chan[s], c)]}
  BY Zenon, ShipFacts
<1>3. frames \in [Shards -> Seq(Frame)] /\ chan \in [Shards -> Seq(Chunk)]
  BY Zenon DEF TypeInv, TypeOK, Frame
<1> HIDE DEF c
<1>4. CASE t # s
  <2>1. frames'[t] = frames[t] /\ chan'[t] = chan[t]
    BY <1>2, <1>3, <1>4
  <2>. QED
    BY Zenon, <1>1, <2>1, ApartSame
<1>5. CASE t = s
  <2>1. /\ frames'[s] = Tail(frames[s]) /\ frames[s] \in Seq(Frame) /\ chan[s] \in Seq(Chunk)
        /\ chan'[s] \in {chan[s], Append(chan[s], c)}
    BY <1>2, <1>3
  <2>2. Lsn(s)' = Lsn(s) /\ Incoming(s)' = Incoming(s) /\ Lsn(s) <= Lsn(s)'
    <3>1. Lsn(s)' = Lsn(s) /\ Incoming(s)' = Incoming(s)
      BY Zenon, <1>1 DEF Lsn, Incoming
    <3>2. Lsn(s) \in Nat
      BY FlowTypes
    <3>. QED
      BY <3>1, <3>2
  <2>3. /\ c \notin Stream(cur) /\ c \notin Full(cur) \ Loadable(Lsn(s))
        /\ TopFrame(s) \notin Open(cur) => c \notin Full(cur)
    BY <1>2 DEF Stream, Full, Open
  <2>4. /\ None(frames[s], Open(cur)) => None(frames'[s], Open(cur)) /\ TopFrame(s) \notin Open(cur)
        /\ AtMostOne(frames[s], Open(cur)) =>
              /\ AtMostOne(frames'[s], Open(cur))
              /\ TopFrame(s) \in Open(cur) => None(frames'[s], Open(cur))
    <3>1. None(frames[s], Open(cur)) => None(Tail(frames[s]), Open(cur)) /\ TopFrame(s) \notin Open(cur)
      BY <1>2, <2>1, NoneTail DEF TopFrame
    <3>2. AtMostOne(frames[s], Open(cur)) =>
              /\ AtMostOne(Tail(frames[s]), Open(cur))
              /\ TopFrame(s) \in Open(cur) => None(Tail(frames[s]), Open(cur))
      BY <1>2, <2>1, OneTail DEF TopFrame
    <3>. QED
      BY Zenon, <2>1, <3>1, <3>2
  <2>5. \A S : c \notin S /\ None(chan[s], S) => None(chan'[s], S)
    <3>1. \A S : c \notin S /\ None(chan[s], S) => None(Append(chan[s], c), S)
      BY <1>2, <2>1, NoneAppend
    <3>. QED
      BY Zenon, <2>1, <3>1
  <2>6. /\ None(chan[s], Full(cur)) => AtMostOne(chan'[s], Full(cur))
        /\ AtMostOne(chan[s], Full(cur)) /\ c \notin Full(cur) => AtMostOne(chan'[s], Full(cur))
    <3>1. CASE chan'[s] = chan[s]
      BY Zenon, <3>1, NoneOne
    <3>2. CASE chan'[s] = Append(chan[s], c)
      <4>1. (None(chan[s], Full(cur)) \/ (AtMostOne(chan[s], Full(cur)) /\ c \notin Full(cur))) =>
               AtMostOne(Append(chan[s], c), Full(cur))
        BY <1>2, <2>1, OneAppend
      <4>. QED
        BY Zenon, <3>2, <4>1
    <3>. QED
      BY Zenon, <2>1, <3>1, <3>2
  <2>7. \A from \in 1 .. Lsn(s) :
           Chunks(chan[s], cur, from, Len(log[s])) => Chunks(chan'[s], cur, from, Len(log'[s]))
    <3>1. CASE chan'[s] = chan[s]
      BY Zenon, <1>1, <3>1
    <3>2. CASE chan'[s] = Append(chan[s], c)
      <4>1. \A from, to : Chunks(chan[s], cur, from, to) => Chunks(Append(chan[s], c), cur, from, to)
        BY <1>2, <2>1, <2>3, ChunksAppend
      <4>. QED
        BY Zenon, <1>1, <3>2, <4>1
    <3>. QED
      BY Zenon, <2>1, <3>1, <3>2
  <2>8. NoWork(s) => NoWork(s)'
    BY Zenon, <1>1, <2>3, <2>4, <2>5 DEF NoWork
  <2>9. OneWork(s) => OneWork(s)'
    <3>1. CASE AtMostOne(shardQ[s], Asks(cur)) /\ None(frames[s], Open(cur)) /\ None(chan[s], Full(cur))
      BY Zenon, <1>1, <2>3, <2>4, <2>5, <3>1 DEF OneWork
    <3>2. CASE None(shardQ[s], Asks(cur)) /\ AtMostOne(frames[s], Open(cur)) /\ None(chan[s], Full(cur))
      <4>1. CASE TopFrame(s) \in Open(cur)
        BY Zenon, <1>1, <2>4, <2>6, <3>2, <4>1 DEF OneWork
      <4>2. CASE TopFrame(s) \notin Open(cur)
        BY Zenon, <1>1, <2>3, <2>4, <2>5, <3>2, <4>2 DEF OneWork
      <4>. QED
        BY Zenon, <4>1, <4>2
    <3>3. CASE None(shardQ[s], Asks(cur)) /\ None(frames[s], Open(cur)) /\ AtMostOne(chan[s], Full(cur))
      BY Zenon, <1>1, <2>3, <2>4, <2>6, <3>3 DEF OneWork
    <3>. QED
      BY Zenon, <3>1, <3>2, <3>3 DEF OneWork
  <2>10. NoStream(s) => NoStream(s)'
    BY Zenon, <1>1, <2>3, <2>5 DEF NoStream
  <2>11. None(chan[s], Full(cur) \ Loadable(Lsn(s))) => None(chan'[s], Full(cur) \ Loadable(Lsn(s)'))
    BY Zenon, <2>2, <2>3, <2>5
  <2>. QED
    BY Zenon, <1>1, <1>5, <2>2, <2>7, <2>8, <2>9, <2>10, <2>11 DEF Apart
<1>. QED
  BY Zenon, <1>4, <1>5

LEMMA HeadTail ==
    ASSUME NEW T, NEW q \in Seq(T)
    PROVE  <<>> \o q = q /\ q \o <<>> = q /\ (q # <<>> => <<Head(q)>> \o Tail(q) = q)
  OBVIOUS

(* An item moves from the socket to the flow thread.                       *)
LEMMA ReceiveApart ==
    ASSUME TypeInv, NEW s \in Shards, Receive(s), NEW t \in Shards
    PROVE  Apart(t)
<1>1. /\ UNCHANGED <<cur, fpc, next, sess, log, shardQ, consumers, frames, chan>>
      /\ held[s] = <<>> /\ down[s] # <<>>
      /\ held' = [held EXCEPT ![s] = <<Head(down[s])>>]
      /\ down' = [down EXCEPT ![s] = Tail(down[s])]
      /\ DOMAIN held = Shards /\ DOMAIN down = Shards
  BY Zenon DEF Receive, masterVars, shardVars, TypeInv, TypeOK
<1>2. Incoming(t)' = Incoming(t)
  <2>1. CASE t # s
    BY Zenon, <1>1, <2>1 DEF Incoming
  <2>2. CASE t = s
    <3>1. held'[s] = <<Head(down[s])>> /\ down'[s] = Tail(down[s]) /\ held[s] = <<>>
      BY Zenon, <1>1
    <3>2. down[s] \in Seq(Item)
      BY Zenon, FlowTypes
    <3>3. <<>> \o down[s] = down[s] /\ <<Head(down[s])>> \o Tail(down[s]) = down[s]
      BY <1>1, <3>2, HeadTail
    <3>. QED
      BY Zenon, <2>2, <3>1, <3>3 DEF Incoming
  <2>. QED
    BY Zenon, <2>1, <2>2
<1>. QED
  BY Zenon, <1>1, <1>2, ApartQueue

LEMMA OtherFlowApart ==
    ASSUME TypeInv, OtherFlow, NEW t \in Shards
    PROVE  Apart(t)
<1>1. /\ UNCHANGED <<cur, fpc, next, sess, held, down, log, consumers, frames, chan>>
      /\ shardQ'[t] = Append(shardQ[t], [t |-> "enable"])
  BY Zenon DEF OtherFlow, Send, shardVars, replicaVars, flowVars
<1>2. [t |-> "enable"] \in ShardMsg /\ [t |-> "enable"] \notin Asks(cur)
  BY MsgTypes, AsksFacts
<1>. QED
  BY Zenon, <1>1, <1>2, ApartAppend

(* The IO thread closes a session other than the replica's.                *)
LEMMA StopReplicationApart ==
    ASSUME TypeInv, NEW i \in Sids, StopReplication(i), cur \in Sids, cur # i, NEW t \in Shards
    PROVE  Apart(t)
<1> DEFINE stop == [t |-> "stop", sid |-> i]
           cancel == [t |-> "cancel", sid |-> i]
<1>1. /\ UNCHANGED <<cur, fpc, next, held, down, log, consumers, frames, chan>>
      /\ shardQ'[t] = Append(Append(shardQ[t], stop), cancel)
      /\ shardQ[t] \in Seq(ShardMsg)
  BY Zenon DEF StopReplication, StopAndCancel, Send, shardVars, replicaVars, flowVars, TypeInv, TypeOK
<1>2. sess'[cur] = sess[cur]
  BY Zenon, StopSess
<1>3. stop \in ShardMsg /\ cancel \in ShardMsg /\ stop \notin Asks(cur) /\ cancel \notin Asks(cur)
  <2>1. stop \in ShardMsg /\ cancel \in ShardMsg
    BY Zenon, MsgTypes
  <2>2. stop.t = "stop" /\ cancel.t = "cancel"
    OBVIOUS
  <2> HIDE DEF stop, cancel
  <2>. QED
    BY <2>1, <2>2, AsksFacts
<1> HIDE DEF stop, cancel
<1>4. Append(shardQ[t], stop) \in Seq(ShardMsg)
  BY <1>1, <1>3, AppendFacts
<1>5. None(shardQ[t], Asks(cur)) => None(Append(Append(shardQ[t], stop), cancel), Asks(cur))
  BY <1>1, <1>3, NoneAppendTwo
<1>6. AtMostOne(shardQ[t], Asks(cur)) => AtMostOne(Append(Append(shardQ[t], stop), cancel), Asks(cur))
  BY Zenon, <1>1, <1>3, <1>4, OneAppend
<1>7. Incoming(t)' = Incoming(t)
  BY Zenon, <1>1 DEF Incoming
<1>. QED
  BY Zenon, <1>1, <1>2, <1>5, <1>6, <1>7, ApartQueue

(* `drain_repl` takes a chunk of shard s from the channel.                 *)
LEMMA DrainFacts ==
    ASSUME TypeInv, NEW s \in Shards, DrainRepl(s)
    PROVE  /\ UNCHANGED <<cur, fpc, next, held, log, consumers, frames, up, rpc, stableNext>>
           /\ chan[s] # <<>> /\ chan[s] \in Seq(Chunk) /\ FirstChunk(s) \in Chunk
           /\ chan'[s] = Tail(chan[s])
           /\ \A t \in Shards \ {s} : chan'[t] = chan[t] /\ shardQ'[t] = shardQ[t] /\ down'[t] = down[t]
           /\ shardQ[s] \in Seq(ShardMsg)
           /\ shardQ'[s] = IF sess[FirstChunk(s).sid].state = "none"
                           THEN Append(shardQ[s], [t |-> "cancel", sid |-> FirstChunk(s).sid])
                           ELSE IF FirstChunk(s).full /\ FirstChunk(s).cut = 0
                                THEN Append(shardQ[s], [t |-> "step", sid |-> FirstChunk(s).sid])
                                ELSE shardQ[s]
           /\ down'[s] = IF sess[FirstChunk(s).sid].state # "none" /\ up /\ FirstChunk(s).sid = cur
                         THEN down[s] \o FirstChunk(s).items ELSE down[s]
<1> DEFINE c == FirstChunk(s)
           q == IF sess[FirstChunk(s).sid].state = "none"
                           THEN Append(shardQ[s], [t |-> "cancel", sid |-> FirstChunk(s).sid])
                           ELSE IF FirstChunk(s).full /\ FirstChunk(s).cut = 0
                                THEN Append(shardQ[s], [t |-> "step", sid |-> FirstChunk(s).sid])
                                ELSE shardQ[s]
<1>1. /\ UNCHANGED <<cur, fpc, next, held, log, consumers, frames, up, rpc, stableNext>>
      /\ chan[s] # <<>> /\ chan[s] \in Seq(Chunk) /\ shardQ[s] \in Seq(ShardMsg)
      /\ DOMAIN chan = Shards /\ DOMAIN shardQ = Shards /\ DOMAIN down = Shards
      /\ chan' = [chan EXCEPT ![s] = Tail(chan[s])]
      /\ shardQ' = [shardQ EXCEPT ![s] = q]
      /\ down' = IF ~(sess[c.sid].state = "none") /\ up /\ c.sid = cur
                 THEN [down EXCEPT ![s] = down[s] \o c.items] ELSE down
  BY Zenon DEF DrainRepl, FirstChunk, shardVars, flowVars, TypeInv, TypeOK
<1>2. c \in Chunk
  BY <1>1, TailFacts DEF FirstChunk
<1>3. /\ chan'[s] = Tail(chan[s]) /\ shardQ'[s] = q
      /\ \A t \in Shards \ {s} : chan'[t] = chan[t] /\ shardQ'[t] = shardQ[t]
  BY Zenon, <1>1
<1>4. /\ \A t \in Shards \ {s} : down'[t] = down[t]
      /\ down'[s] = IF sess[c.sid].state # "none" /\ up /\ c.sid = cur THEN down[s] \o c.items ELSE down[s]
  BY Zenon, <1>1
<1>. QED
  BY Zenon, <1>1, <1>2, <1>3, <1>4

(* The chunk is another session's.                                         *)
LEMMA DrainApart ==
    ASSUME TypeInv, NEW s \in Shards, DrainRepl(s), cur \in Sids, NEW t \in Shards,
           t # s \/ FirstChunk(s).sid # cur
    PROVE  Apart(t)
<1> DEFINE c == FirstChunk(s)
<1>1. sess'[cur].start[t] = sess[cur].start[t]
  BY Zenon, DrainReplSess
<1>2. CASE t # s
  <2>1. /\ UNCHANGED <<cur, fpc, next, held, log, consumers, frames>>
        /\ chan'[t] = chan[t] /\ shardQ'[t] = shardQ[t] /\ down'[t] = down[t]
    BY Zenon, <1>2, DrainFacts
  <2>. QED
    BY Zenon, <1>1, <2>1, ApartSame
<1>3. CASE t = s
  <2>1. /\ UNCHANGED <<cur, fpc, next, held, log, consumers, frames>>
        /\ chan[s] # <<>> /\ chan[s] \in Seq(Chunk) /\ c \in Chunk /\ chan'[s] = Tail(chan[s])
        /\ shardQ[s] \in Seq(ShardMsg) /\ c.sid # cur
        /\ shardQ'[s] \in {shardQ[s], Append(shardQ[s], [t |-> "cancel", sid |-> c.sid]),
                           Append(shardQ[s], [t |-> "step", sid |-> c.sid])}
        /\ down'[s] = down[s]
    BY Zenon, <1>3, DrainFacts
  <2>2. c.sid \in Sids
    BY <2>1 DEF Chunk
  <2> DEFINE m1 == [t |-> "cancel", sid |-> c.sid]
             m2 == [t |-> "step", sid |-> c.sid]
  <2>3. m1 \in ShardMsg /\ m2 \in ShardMsg /\ m1.sid # cur /\ m2.sid # cur
    BY <2>1, <2>2, MsgTypes
  <2>4. shardQ'[s] \in {shardQ[s], Append(shardQ[s], m1), Append(shardQ[s], m2)}
    BY Zenon, <2>1
  <2> HIDE DEF m1, m2
  <2>5. m1 \notin Asks(cur) /\ m2 \notin Asks(cur)
    BY Zenon, <2>3, AsksFacts
  <2>6. (None(shardQ[s], Asks(cur)) => None(shardQ'[s], Asks(cur)))
    <3>1. None(shardQ[s], Asks(cur)) =>
             None(Append(shardQ[s], m1), Asks(cur)) /\ None(Append(shardQ[s], m2), Asks(cur))
      BY <2>1, <2>3, <2>5, NoneAppend
    <3>. QED
      BY Zenon, <2>4, <3>1
  <2>7. AtMostOne(shardQ[s], Asks(cur)) => AtMostOne(shardQ'[s], Asks(cur))
    <3>1. AtMostOne(shardQ[s], Asks(cur)) =>
             AtMostOne(Append(shardQ[s], m1), Asks(cur)) /\ AtMostOne(Append(shardQ[s], m2), Asks(cur))
      BY Zenon, <2>1, <2>3, <2>5, OneAppend
    <3>. QED
      BY Zenon, <2>4, <3>1
  <2> HIDE DEF c
  <2>8. Lsn(s)' = Lsn(s) /\ Incoming(s)' = Incoming(s) /\ Lsn(s) <= Lsn(s)'
    <3>1. Lsn(s)' = Lsn(s) /\ Incoming(s)' = Incoming(s)
      BY Zenon, <2>1 DEF Lsn, Incoming
    <3>2. Lsn(s) \in Nat
      BY FlowTypes
    <3>. QED
      BY <3>1, <3>2
  <2>9. \A S : None(chan[s], S) => None(chan'[s], S)
    <3>1. \A S : None(chan[s], S) => None(Tail(chan[s]), S)
      BY <2>1, NoneTail
    <3>. QED
      BY Zenon, <2>1, <3>1
  <2>10. AtMostOne(chan[s], Full(cur)) => AtMostOne(chan'[s], Full(cur))
    <3>1. AtMostOne(chan[s], Full(cur)) => AtMostOne(Tail(chan[s]), Full(cur))
      BY <2>1, OneTail
    <3>. QED
      BY Zenon, <2>1, <3>1
  <2>11. \A from \in 1 .. Lsn(s) :
            Chunks(chan[s], cur, from, Len(log[s])) => Chunks(chan'[s], cur, from, Len(log'[s]))
    <3>1. Head(chan[s]) \notin Stream(cur)
      BY Zenon, <2>1 DEF Stream, c, FirstChunk
    <3>2. \A from, to : Chunks(chan[s], cur, from, to) => Chunks(Tail(chan[s]), cur, from, to)
      BY <2>1, <3>1, ChunksTail
    <3>. QED
      BY Zenon, <2>1, <3>2
  <2>12. (NoStream(s) => NoStream(s)') /\ (NoWork(s) => NoWork(s)')
    BY Zenon, <2>1, <2>6, <2>9 DEF NoStream, NoWork
  <2>13. OneWork(s) => OneWork(s)'
    BY Zenon, <2>1, <2>6, <2>7, <2>9, <2>10 DEF OneWork
  <2>. QED
    BY Zenon, <1>1, <1>3, <2>1, <2>8, <2>9, <2>11, <2>12, <2>13 DEF Apart
<1>. QED
  BY Zenon, <1>2, <1>3

----------------------------------------------------------------------------
(* The flow's own chunks and items *)

LEMMA ConcatAssoc ==
    \A p, q, r \in Seq(Item) : p \o (q \o r) = (p \o q) \o r
  OBVIOUS

(* Snapshot items without the cut, and two batches of them.                *)
LEMMA LoadsNoTail ==
    ASSUME NEW q, NEW a, NEW b, NEW l, Loads(q, a, l), ~HasTail(q)
    PROVE  Loads(q, b, l)
  BY Zenon DEF Loads, HasTail

LEMMA LoadsConcat ==
    ASSUME NEW q \in Seq(Item), NEW r \in Seq(Item), NEW a, NEW b, NEW l,
           Loads(q, a, l), ~HasTail(q), Loads(r, b, l)
    PROVE  Loads(q \o r, b, l) /\ (HasTail(q \o r) => HasTail(r))
<1>1. ASSUME NEW n \in DOMAIN (q \o r)
      PROVE  /\ (q \o r)[n].t \in {"entry", "rec", "tail"}
             /\ (q \o r)[n].t = "tail" =>
                   n = Len(q \o r) /\ (q \o r)[n].cut = b /\ b # 0 /\ b <= l /\ HasTail(r)
  <2>1. /\ n \in Nat /\ Len(q) \in Nat
        /\ \/ n \in DOMAIN q /\ (q \o r)[n] = q[n]
           \/ n - Len(q) \in DOMAIN r /\ (q \o r)[n] = r[n - Len(q)]
    BY ConcatSplit
  <2>2. CASE n \in DOMAIN q /\ (q \o r)[n] = q[n]
    BY Zenon, <2>2 DEF Loads, HasTail
  <2>3. CASE n - Len(q) \in DOMAIN r /\ (q \o r)[n] = r[n - Len(q)]
    <3>1. n - Len(q) = Len(r) => n = Len(q \o r)
      BY <2>1, ConcatFacts
    <3>. QED
      BY Zenon, <2>3, <3>1 DEF Loads, HasTail
  <2>. QED
    BY Zenon, <2>1, <2>2, <2>3
<1>. QED
  BY Zenon, <1>1 DEF Loads, HasTail

LEMMA ChunkFields ==
    ASSUME NEW c \in Chunk
    PROVE  c.sid \in Sids /\ c.full \in BOOLEAN /\ c.items \in Seq(Item) /\ c.cut \in Nat
  BY DEF Chunk

(* A chunk of the snapshot reaches the flow's socket.                      *)
LEMMA DrainLoading ==
    ASSUME TypeInv, NEW s \in Shards, DrainRepl(s), up, cur \in Sids, sess[cur].state # "none",
           FirstChunk(s).sid = cur, Loading(s)
    PROVE  Loading(s)'
<1> DEFINE c == FirstChunk(s)
<1>1. /\ UNCHANGED <<cur, fpc, next, held, log, consumers, frames>>
      /\ chan[s] # <<>> /\ chan[s] \in Seq(Chunk) /\ c \in Chunk /\ chan'[s] = Tail(chan[s])
      /\ shardQ[s] \in Seq(ShardMsg)
      /\ shardQ'[s] = IF c.full /\ c.cut = 0
                      THEN Append(shardQ[s], [t |-> "step", sid |-> c.sid]) ELSE shardQ[s]
      /\ down'[s] = down[s] \o c.items
  BY Zenon, DrainFacts
<1>2. c.sid \in Sids /\ c.full \in BOOLEAN /\ c.items \in Seq(Item) /\ c.cut \in Nat /\ c = Head(chan[s]) /\ c.sid = cur
  BY Zenon, <1>1, ChunkFields DEF FirstChunk
<1>3. c \in Full(cur) \/ c \in Stream(cur)
  BY Zenon, <1>1, <1>2 DEF Full, Stream
<1>4. /\ sess'[cur].start[s] = IF c.cut = 0 THEN sess[cur].start[s] ELSE c.cut
  BY Zenon, <1>2, DrainReplSess
<1> HIDE DEF c
<1>5. /\ fpc[s] = "load" /\ NoStream(s) /\ OneWork(s)
      /\ Loads(Incoming(s), sess[cur].start[s], Lsn(s))
      /\ HasTail(Incoming(s)) => NoWork(s)
      /\ None(chan[s], Full(cur) \ Loadable(Lsn(s)))
  BY Zenon DEF Loading
<1>6. c \notin Stream(cur) /\ c \in Loadable(Lsn(s)) /\ c \in Full(cur)
  <2>1. None(chan[s], Stream(cur))
    BY Zenon, <1>5 DEF NoStream
  <2>2. c \notin Stream(cur)
    BY <1>1, <1>2, <2>1, NoneTail
  <2>3. c \notin Full(cur) \ Loadable(Lsn(s))
    BY <1>1, <1>2, <1>5, NoneTail
  <2>. QED
    BY Zenon, <1>3, <2>2, <2>3
<1>7. \A S : None(chan[s], S) => None(chan'[s], S)
  <2>1. \A S : None(chan[s], S) => None(Tail(chan[s]), S)
    BY <1>1, NoneTail
  <2>. QED
    BY Zenon, <1>1, <2>1
<1>8. ~None(chan[s], Full(cur))
  BY <1>1, <1>2, <1>6, NoneTail
<1>9. None(shardQ[s], Asks(cur)) /\ None(frames[s], Open(cur)) /\ None(chan'[s], Full(cur))
  <2>1. None(shardQ[s], Asks(cur)) /\ None(frames[s], Open(cur)) /\ AtMostOne(chan[s], Full(cur))
    BY Zenon, <1>5, <1>8 DEF OneWork
  <2>2. None(Tail(chan[s]), Full(cur))
    BY <1>1, <1>2, <1>6, <2>1, OneTail
  <2>. QED
    BY Zenon, <1>1, <2>1, <2>2
<1>10. ~HasTail(Incoming(s))
  BY Zenon, <1>5, <1>8 DEF NoWork
<1>11. /\ Loads(c.items, c.cut, Lsn(s)) /\ (HasTail(c.items) <=> c.cut # 0)
       /\ c.full = TRUE
  <2>1. c.full
    BY Zenon, <1>6 DEF Full
  <2>2. Loads(c.items, c.cut, Lsn(s)) /\ (HasTail(c.items) <=> c.cut # 0)
    BY Zenon, <1>6 DEF Loadable
  <2>. QED
    BY <1>2, <2>1, <2>2
<1>12. Incoming(s)' = Incoming(s) \o c.items
  <2>1. held[s] \in Seq(Item) /\ down[s] \in Seq(Item)
    BY Zenon, FlowTypes
  <2>2. held[s] \o (down[s] \o c.items) = (held[s] \o down[s]) \o c.items
    BY Zenon, <1>2, <2>1, ConcatAssoc
  <2>. QED
    BY Zenon, <1>1, <2>2 DEF Incoming
<1>13. Lsn(s)' = Lsn(s) /\ Incoming(s) \in Seq(Item)
  BY Zenon, <1>1, FlowTypes DEF Lsn
<1>14. Loads(c.items, sess'[cur].start[s], Lsn(s))
  BY Zenon, <1>4, <1>11, LoadsNoTail
<1>15. Loads(Incoming(s)', sess'[cur].start[s], Lsn(s)) /\ (HasTail(Incoming(s)') => HasTail(c.items))
  <2>1. Loads(Incoming(s) \o c.items, sess'[cur].start[s], Lsn(s))
        /\ (HasTail(Incoming(s) \o c.items) => HasTail(c.items))
    BY Zenon, <1>2, <1>5, <1>10, <1>13, <1>14, LoadsConcat
  <2>. QED
    BY Zenon, <1>12, <2>1
<1>16. NoStream(s)'
  BY Zenon, <1>1, <1>5, <1>7 DEF NoStream
<1>17. c.cut # 0 => NoWork(s)'
  BY Zenon, <1>1, <1>9 DEF NoWork
<1>18. OneWork(s)'
  <2>1. CASE c.cut # 0
    BY Zenon, <1>1, <1>9, <2>1, NoneOne DEF OneWork
  <2>2. CASE c.cut = 0
    <3> DEFINE m == [t |-> "step", sid |-> c.sid]
    <3>1. shardQ'[s] = Append(shardQ[s], m) /\ m \in ShardMsg
      BY Zenon, <1>1, <1>2, <1>11, <2>2, MsgTypes
    <3> HIDE DEF m
    <3>2. AtMostOne(Append(shardQ[s], m), Asks(cur))
      BY Zenon, <1>1, <1>9, <3>1, OneAppend
    <3>. QED
      BY Zenon, <1>1, <1>9, <3>1, <3>2 DEF OneWork
  <2>. QED
    BY Zenon, <2>1, <2>2
<1>19. HasTail(Incoming(s)') => NoWork(s)'
  BY Zenon, <1>11, <1>15, <1>17
<1>20. None(chan'[s], Full(cur) \ Loadable(Lsn(s)'))
  BY Zenon, <1>5, <1>7, <1>13
<1>21. /\ cur' = cur /\ fpc'[s] = "load"
       /\ Loads(Incoming(s)', sess'[cur].start[s], Lsn(s)')
  BY Zenon, <1>1, <1>5, <1>13, <1>15
<1>. QED
  BY Zenon, <1>16, <1>18, <1>19, <1>20, <1>21 DEF Loading
=============================================================================
