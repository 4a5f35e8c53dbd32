----------------------------- MODULE Iteration ------------------------------
(***************************************************************************)
(* SCAN and RM, the commands that walk the whole keyspace call by call     *)
(* (commands/exec/keys.rs).  A key is its hash; `parts` maps each shard to *)
(* the hashes of the keys it owns that match.  A cursor is a number: the   *)
(* shard in its low part, above it the position reached there.             *)
(***************************************************************************)
EXTENDS Integers, Sequences, FiniteSets, SequencesExt

ShardRange == 1024
CursorAt(pos, shard) == pos * ShardRange + shard
ShardIn(cursor) == cursor % ShardRange
PosIn(cursor) == cursor \div ShardRange
ByHash(hs) == SetToSortSeq(hs, LAMBDA g, h : g < h)

(* `exec_scan`: a page of the shard's keys in hash order, and where the    *)
(* next one starts; 0 when there is none.                                  *)
(* Mutant: every page starts at the first key.                             *)
ScanShardRestarts(hs, shard, cursor, limit) ==
    LET q == ByHash(hs)
    IN  [keys |-> SubSeq(q, 1, IF limit < Len(q) THEN limit ELSE Len(q)),
         token |-> IF limit >= Len(q) THEN 0 ELSE CursorAt(limit, shard)]
ScanShard(hs, shard, cursor, limit) ==
    LET q == ByHash(hs)
        start == IF ShardIn(cursor) = shard THEN PosIn(cursor) ELSE 0
        upto == IF start + limit < Len(q) THEN start + limit ELSE Len(q)
    IN  IF shard < ShardIn(cursor) THEN [keys |-> <<>>, token |-> 0]
        ELSE [keys |-> SubSeq(q, start + 1, upto),
              token |-> IF upto >= Len(q) THEN 0 ELSE CursorAt(upto, shard)]

(* `merge_scan`: the shards in order, from the cursor's on, until there    *)
(* are `limit` keys.  A shard that had no further page counts as consumed, *)
(* also when only some of its page was taken; `cut` records that.          *)
MergeScan(parts, cursor, limit) ==
    LET n == Cardinality(DOMAIN parts)
        from == ShardIn(cursor)
        pos(s) == IF s = from THEN PosIn(cursor) ELSE 0
        last(t, s, cut) ==
            [t EXCEPT !.stop = t.left = 0 /\ s + 1 < n, !.cut = @ \/ cut,
                      !.cursor = IF t.left = 0 /\ s + 1 < n THEN s + 1 ELSE @]
        page(r, s, p, take) ==
            LET t == [r EXCEPT !.out = @ \o SubSeq(p.keys, 1, take), !.left = @ - take]
            IN  IF p.token = 0 THEN last(t, s, take < Len(p.keys))
                ELSE [t EXCEPT !.stop = TRUE,
                               !.cursor = IF take < Len(p.keys) THEN CursorAt(pos(s) + take, s) ELSE p.token]
        some(r, s, p) == page(r, s, p, IF Len(p.keys) < r.left THEN Len(p.keys) ELSE r.left)
        step(r, s) == IF r.stop \/ r.left = 0 THEN r
                      ELSE some(r, s, ScanShard(parts[s], s, cursor, limit))
    IN  FoldLeft(step, [out |-> <<>>, left |-> limit, cursor |-> 0, stop |-> FALSE, cut |-> FALSE],
                 [i \in 1..(n - from) |-> from + i - 1])

(* `exec_rm` and `merge_rm`: the cursor's shard removes up to `limit` keys *)
(* from a hash on; the hash of the last one, shifted into the cursor's     *)
(* word, loses its high part.                                              *)
ScanAndDelete(parts, cursor, limit, word) ==
    LET shard == ShardIn(cursor)
        q == ByHash({h \in parts[shard] : h >= PosIn(cursor)})
        n == IF limit < Len(q) THEN limit ELSE Len(q)
        token == IF n >= Len(q) THEN 0 ELSE ((q[n] * ShardRange) % word) + shard
    IN  [parts |-> [parts EXCEPT ![shard] = @ \ {q[i] : i \in 1..n}], deleted |-> n,
         cursor |-> IF token # 0 THEN token
                    ELSE IF shard + 1 < Cardinality(DOMAIN parts) THEN shard + 1 ELSE 0]
=============================================================================
