------------------------------- MODULE Bloom -------------------------------
(***************************************************************************)
(* Scalable Bloom filters (core/bloom.rs) and the BF commands              *)
(* (commands/exec/bloom.rs).                                               *)
(*                                                                         *)
(* False-positive rates are powers of two: the rate 2^-e is written e, so  *)
(* halving it is adding one.  A filter of rate e hashes an item e times    *)
(* and spends 1.44 * e bits on it.  A dump counts the bits of a filter, a  *)
(* cell each, where the code counts bytes.                                 *)
(***************************************************************************)
EXTENDS Strings

CONSTANTS
    ItemHash,      \* ItemHash[item]: the two halves of the item's fingerprint
    MinBits,       \* the fewest bits of a filter
    DefaultRate,   \* K_DEFAULT_FP_PROB
    GrowFactor,    \* K_DEFAULT_GROW_FACTOR
    MetaSize,      \* K_DUMP_FILTER_META_SIZE
    MaxChunk       \* K_MAX_CHUNK_SIZE

ASSUME BloomAssumption ==
    /\ MinBits \in Nat \ {0} /\ DefaultRate \in Nat /\ GrowFactor \in Nat \ {0}
    /\ MetaSize \in Nat \ {0} /\ MaxChunk \in Nat /\ MaxChunk > MetaSize

PowerOfTwo[n \in Nat] == IF n <= 1 THEN 1 ELSE 2 * PowerOfTwo[(n + 1) \div 2]

(* One filter: `Bloom`, the set of the bits that are on.                   *)
Bpe(e) == 144 * e          \* bits per entry, in hundredths
NewBloom(entries, e) ==
    LET bits == (entries * Bpe(e) + 99) \div 100
    IN  [cnt |-> e, len |-> PowerOfTwo[IF bits < MinBits THEN MinBits ELSE bits], on |-> {}]
Capacity(f, e) == (100 * f.len) \div Bpe(e)
BitsOf(f, item) ==
    LET h == ItemHash[item] IN {(h[1] + h[2] * i) % f.len : i \in 0..(f.cnt - 1)}
InFilter(f, item) == BitsOf(f, item) \subseteq f.on
AddToFilter(f, item) == [f EXCEPT !.on = @ \cup BitsOf(f, item)]

(* The scalable filter: `SBF`.                                             *)
NewSbf(entries, rate, grow) ==
    LET e == rate + 1
        f == NewBloom(entries, e)
    IN  [filters |-> <<f>>, grow |-> grow, rate |-> e, prev |-> 0, cur |-> 0, max |-> Capacity(f, e)]
SbfExists(s, item) == \E i \in DOMAIN s.filters : InFilter(s.filters[i], item)

Grown(s) ==
    LET e == s.rate + 1
        f == NewBloom(s.max * s.grow, e)
    IN  [s EXCEPT !.filters = Append(@, f), !.rate = e, !.prev = @ + s.max, !.cur = 0,
                  !.max = Capacity(f, e)]
(* `add`: an item that an earlier filter has, or whose bits in the last    *)
(* one were all on, changes nothing.  The last item a filter has room for  *)
(* brings the next filter.                                                 *)
SbfAdd(s, item) ==
    LET last == Len(s.filters)
        t == [s EXCEPT !.filters[last] = AddToFilter(@, item), !.cur = @ + 1]
    IN  IF SbfExists(s, item) THEN s ELSE IF t.cur >= s.max THEN Grown(t) ELSE t

(***************************************************************************)
(* The dump: a header, then each filter as MetaSize cells of metadata and  *)
(* its bits.  A cursor is one more than an offset into the filters.        *)
(***************************************************************************)
Span(f) == MetaSize + f.len
Offset(s, i) == FoldLeft(LAMBDA n, f : n + Span(f), 0, SubSeq(s.filters, 1, i - 1))
(* The filter an offset falls into, and where; past the last one, how far. *)
Resolve(s, off) ==
    LET before == {j \in 1..(Len(s.filters) + 1) : Offset(s, j) <= off}
        from(i) == [i |-> i, at |-> off - Offset(s, i)]
    IN  from(Max(before))

Cells(f, from, n) ==
    [i \in 1..n |-> [bit |-> IF from + i - 1 \in f.on THEN 1 ELSE 0]]
(* The metadata of a filter carry the counters of the whole SBF.           *)
Meta(s, f) ==
    [i \in 1..MetaSize |->
        [cnt |-> f.cnt, len |-> f.len, rate |-> s.rate, max |-> s.max, cur |-> s.cur, prev |-> s.prev]]
Chunk(cursor, data) == [cursor |-> cursor, data |-> data]
NextChunk(s, cursor) ==
    LET first(f) == Meta(s, f) \o Cells(f, 0, Least(MaxChunk - MetaSize, f.len))
        more(f, from) == Cells(f, from, Least(MaxChunk, f.len - from))
        after(data) == Chunk(cursor + Len(data), data)
        at(p) == IF p.i > Len(s.filters) \/ p.at \in 1..(MetaSize - 1) THEN Chunk(0, <<>>)
                 ELSE after(IF p.at = 0 THEN first(s.filters[p.i]) ELSE more(s.filters[p.i], p.at - MetaSize))
    IN  IF cursor = 0 THEN Chunk(1, <<[grow |-> s.grow]>>) ELSE at(Resolve(s, cursor - 1))

(* Loading.  The header makes an empty filter; a chunk lands where its     *)
(* cursor says, or opens the next filter when it starts at the end.        *)
HeaderOk(data) == Len(data) = 1 /\ "grow" \in DOMAIN data[1] /\ data[1].grow >= 1
LoadHeader(data) == [filters |-> <<>>, grow |-> data[1].grow, rate |-> 0, prev |-> 0, cur |-> 0, max |-> 0]
MetaOk(data) ==
    /\ Len(data) >= MetaSize
    /\ \A i \in 1..MetaSize : "cnt" \in DOMAIN data[i]
    /\ LET m == data[1]
       IN  m.cnt > 0 /\ m.len = PowerOfTwo[m.len] /\ m.cur < m.max /\ Len(data) - MetaSize <= m.len
OnBits(data, from) == {j \in 0..(Len(data) - from - 1) : data[from + j + 1] = [bit |-> 1]}
AddNewFilter(s, data) ==
    LET m == data[1]
    IN  [s EXCEPT !.filters = Append(@, [cnt |-> m.cnt, len |-> m.len, on |-> OnBits(data, MetaSize)]),
                  !.rate = m.rate, !.max = m.max, !.cur = m.cur, !.prev = m.prev]
Overlay(f, at, data) ==
    [f EXCEPT !.on = (@ \ (at..(at + Len(data) - 1))) \cup {at + j : j \in OnBits(data, 0)}]
LoadChunk(s, cursor, data) ==
    LET off == cursor - Len(data) - 1
        refused == [ok |-> FALSE, s |-> s]
        at(p, from) ==
            IF p.i <= Len(s.filters)
            THEN IF from < 0 \/ from + Len(data) > s.filters[p.i].len THEN refused
                 ELSE [ok |-> TRUE, s |-> [s EXCEPT !.filters[p.i] = Overlay(@, from, data)]]
            ELSE IF p.at # 0 \/ ~MetaOk(data) THEN refused
            ELSE [ok |-> TRUE, s |-> AddNewFilter(s, data)]
    IN  IF off < 0 THEN refused ELSE With(Resolve(s, off), LAMBDA p : at(p, p.at - MetaSize))

-----------------------------------------------------------------------------
SbfVal(s) == [sbf |-> s]
IsSbf(v) == TypeOf(v) = "sbf"
Loading(s) == s.filters = <<>>
Flag(b) == Num(IF b THEN 1 ELSE 0)

(* A command on the filter of a key: an error for another type, for a      *)
(* missing key and for a filter whose first block is yet to be loaded.     *)
OnSbf(d, k, onFilter(_)) ==
    IF ~IsSbf(d.val[k]) \/ Loading(d.val[k].sbf) THEN Err(d) ELSE onFilter(d.val[k].sbf)

ExecBfReserve(db, c, now) ==
    LET d == ExpireIfNeeded(db, c.k, now)
    IN  IF c.rate <= 1 \/ Holds(d, c.k) THEN Err(IF c.rate <= 1 THEN db ELSE d)
        ELSE Ok(Insert(d, c.k, SbfVal(NewSbf(c.entries, c.rate, GrowFactor))), OkReply)

(* `get_or_create_sbf`.                                                    *)
WithSbf(db, k, now) ==
    LET d == Find(db, k, now)
    IN  IF Holds(d, k) THEN d ELSE Insert(d, k, SbfVal(NewSbf(0, DefaultRate, GrowFactor)))
ExecBfAdd(db, c, now) ==
    LET d == WithSbf(db, c.k, now)
        add(r, item) == [s |-> SbfAdd(r.s, item), out |-> Append(r.out, Flag(~SbfExists(r.s, item)))]
        written(r) == Ok(WriteThrough(d, c.k, SbfVal(r.s)), Arr(r.out))
        all(s) == written(FoldLeft(add, [s |-> s, out |-> <<>>], c.items))
    IN  OnSbf(d, c.k, all)

ExecBfExists(db, c, now) ==
    LET d == Find(db, c.k, now)
        each(s) == Ok(d, Arr([i \in DOMAIN c.items |-> Flag(SbfExists(s, c.items[i]))]))
    IN  IF IsSbf(d.val[c.k]) THEN OnSbf(d, c.k, each)
        ELSE Ok(d, Arr([i \in DOMAIN c.items |-> Num(0)]))

ExecBfInfo(db, c, now) ==
    LET d == Find(db, c.k, now)
        info(s) == Ok(d, Arr(<<Num(s.prev + s.max), Num(Len(s.filters)), Num(s.prev + s.cur), Num(s.grow)>>))
    IN  OnSbf(d, c.k, info)

ExecBfScanDump(db, c, now) ==
    LET d == Find(db, c.k, now)
        answer(n) == Ok(d, Arr(<<Num(n.cursor), Bulk(n.data)>>))
        next(s) == answer(NextChunk(s, c.cursor))
    IN  IF c.cursor < 0 THEN Err(db) ELSE OnSbf(d, c.k, next)

(* The header replaces a key of any type, without a lookup.                *)
ExecBfLoadChunk(db, c, now) ==
    LET loaded(d, r) == IF r.ok THEN Ok(WriteThrough(d, c.k, SbfVal(r.s)), OkReply) ELSE Err(d)
    IN  IF c.cursor < 1 THEN Err(db)
        ELSE IF c.cursor = 1
        THEN IF HeaderOk(c.data)
             THEN Ok(ClearExpiry(Insert(db, c.k, SbfVal(LoadHeader(c.data))), c.k), OkReply) ELSE Err(db)
        ELSE With(Find(db, c.k, now), LAMBDA d :
                IF ~IsSbf(d.val[c.k]) THEN Err(d)
                ELSE loaded(d, LoadChunk(d.val[c.k].sbf, c.cursor, c.data)))

BloomReads == {"BF.EXISTS", "BF.INFO", "BF.SCANDUMP"}
ExecBloom(db, c, now) ==
    CASE c.cmd = "BF.RESERVE" -> ExecBfReserve(db, c, now)
      [] c.cmd = "BF.ADD" -> ExecBfAdd(db, c, now)
      [] c.cmd = "BF.EXISTS" -> ExecBfExists(db, c, now)
      [] c.cmd = "BF.INFO" -> ExecBfInfo(db, c, now)
      [] c.cmd = "BF.SCANDUMP" -> ExecBfScanDump(db, c, now)
      [] c.cmd = "BF.LOADCHUNK" -> ExecBfLoadChunk(db, c, now)
=============================================================================
