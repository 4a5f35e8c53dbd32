------------------------------ MODULE Sketches ------------------------------
(***************************************************************************)
(* The count-min sketch (core/cms.rs, commands/exec/cms.rs) and the Top-K  *)
(* sketch (core/topk.rs, commands/exec/topk.rs).                           *)
(*                                                                         *)
(* The counters of both are a function from <<row, column>>.  Those of a   *)
(* count-min sketch are i64 and wrap, those of a Top-K sketch are u32 and  *)
(* saturate.  The rows a Top-K increment decays are drawn at random by the *)
(* code; here they come with the command, and count only where the         *)
(* probability decay^count is neither 0 nor 1.                             *)
(***************************************************************************)
EXTENDS Bloom

CONSTANTS MaxCounter     \* u32::MAX

ASSUME SketchesAssumption == MaxCounter \in Nat \ {0}

Columns(item, row, width) == (ItemHash[item][1] + row * ItemHash[item][2]) % width
Grid(width, depth) == [rc \in (0..(depth - 1)) \X (0..(width - 1)) |-> 0]
CellsOf(s, item) == {<<row, Columns(item, row, s.width)>> : row \in 0..(s.depth - 1)}
Estimate(s, item) == Min({s.cells[rc] : rc \in CellsOf(s, item)})

-----------------------------------------------------------------------------
Wrapped(n) == ((n - MinInt) % (2 * MaxInt + 2)) + MinInt
NewCms(width, depth) == [width |-> width, depth |-> depth, count |-> 0, cells |-> Grid(width, depth)]
CmsIncr(s, item, n) ==
    [s EXCEPT !.count = Wrapped(@ + n),
              !.cells = [rc \in DOMAIN @ |-> IF rc \in CellsOf(s, item) THEN Wrapped(@[rc] + n) ELSE @[rc]]]
MergeFrom(s, o, weight) ==
    [s EXCEPT !.count = Wrapped(@ + o.count * weight),
              !.cells = [rc \in DOMAIN @ |-> Wrapped(@[rc] + o.cells[rc] * weight)]]

CmsVal(s) == [cms |-> s]
IsCms(v) == TypeOf(v) = "cms"
OnCms(d, k, onSketch(_)) == IF IsCms(d.val[k]) THEN onSketch(d.val[k].cms) ELSE Err(d)

(* CMS.INITBYDIM, and CMS.INITBYPROB once it has computed the dimensions.  *)
ExecCmsInit(db, c, now) ==
    LET d == ExpireIfNeeded(db, c.k, now)
    IN  IF c.width = 0 \/ c.depth = 0 THEN Err(db)
        ELSE IF Holds(d, c.k) THEN Err(d)
        ELSE Ok(Insert(d, c.k, CmsVal(NewCms(c.width, c.depth))), OkReply)

ExecCmsIncrBy(db, c, now) ==
    LET d == Find(db, c.k, now)
        step(r, i) == LET s == CmsIncr(r.s, c.items[i], c.ns[i])
                      IN  [s |-> s, out |-> Append(r.out, Num(Estimate(s, c.items[i])))]
        all(s) == LET r == FoldLeft(step, [s |-> s, out |-> <<>>], [i \in DOMAIN c.items |-> i])
                  IN  Ok(WriteThrough(d, c.k, CmsVal(r.s)), Arr(r.out))
    IN  IF \E i \in DOMAIN c.ns : c.ns[i] <= 0 THEN Err(db) ELSE OnCms(d, c.k, all)
ExecCmsQuery(db, c, now) ==
    LET d == Find(db, c.k, now)
        all(s) == Ok(d, Arr([i \in DOMAIN c.items |-> Num(Estimate(s, c.items[i]))]))
    IN  OnCms(d, c.k, all)
ExecCmsInfo(db, c, now) ==
    LET d == Find(db, c.k, now)
        info(s) == Ok(d, Arr(<<Num(s.width), Num(s.depth), Num(s.count)>>))
    IN  OnCms(d, c.k, info)

(* CMS.MERGE: c.ks[1] is the destination, the others the sources.          *)
SameSize(a, b) == a.width = b.width /\ a.depth = b.depth
WeightedSum(dest, srcs, weights) ==
    FoldLeft(LAMBDA acc, i : MergeFrom(acc, srcs[i], weights[i]),
             NewCms(dest.width, dest.depth), [i \in DOMAIN srcs |-> i])
ExecCmsMerge(db, c, owned, now) ==
    LET look(d, i) == Find(d, c.ks[i], now)
        d == FoldLeft(look, db, InOrder(owned))
        mine == InOrder(owned \ {1})
        srcs == [n \in DOMAIN mine |-> d.val[c.ks[mine[n]]].cms]
        dest == d.val[c.ks[1]].cms
    IN  IF \E i \in owned : ~IsCms(d.val[c.ks[i]]) THEN Err(d)
        ELSE IF owned # DOMAIN c.ks THEN Ok(d, <<"sketches", IF 1 \in owned THEN <<dest>> ELSE <<>>, srcs>>)
        ELSE IF \E n \in DOMAIN srcs : ~SameSize(srcs[n], dest) THEN Err(d)
        ELSE Ok(Insert(d, c.ks[1], CmsVal(WeightedSum(dest, srcs, c.weights))), OkReply)
(* The sources come in the order of the shards, and the weights go to them *)
(* in that order.                                                          *)
MergeCmsMerge(parts, c) ==
    LET dest == PartOf(parts, 1).reply[2][1]
        srcs == FoldLeft(LAMBDA acc, p : acc \o p.reply[3], <<>>, parts)
    IN  IF AnyErr(parts) \/ \E n \in DOMAIN srcs : ~SameSize(srcs[n], dest) THEN MergedErr
        ELSE MergedStore(<<Store(c.ks[1], CmsVal(WeightedSum(dest, srcs, c.weights)), NoExpiry, FALSE)>>,
                         OkReply)

-----------------------------------------------------------------------------
(* Top-K: the counters, and a heap of the k strongest items with the       *)
(* estimate each had when it was last added, smallest at the root.         *)
NewTopk(k, width, depth, decay) ==
    [k |-> k, width |-> width, depth |-> depth, decay |-> decay, cells |-> Grid(width, depth), heap |-> <<>>]

Swapped(h, i, j) == [h EXCEPT ![i] = h[j], ![j] = h[i]]
(* `heapify_up` and `heapify_down`, over as many rounds as the heap has    *)
(* items.                                                                  *)
UpOne(r) ==
    LET parent == r.at \div 2
    IN  IF r.at = 1 \/ r.h[parent].count <= r.h[r.at].count THEN r
        ELSE [h |-> Swapped(r.h, parent, r.at), at |-> parent]
DownOne(r) ==
    LET below == {i \in {2 * r.at, 2 * r.at + 1} : i <= Len(r.h) /\ r.h[i].count < r.h[r.at].count}
        least == CHOOSE i \in below : \A j \in below : r.h[i].count < r.h[j].count \/
                                                       (r.h[i].count = r.h[j].count /\ i <= j)
        down(i) == [h |-> Swapped(r.h, i, r.at), at |-> i]
    IN  IF below = {} THEN r ELSE down(least)
HeapifyUp(h, i) == FoldLeft(LAMBDA r, n : UpOne(r), [h |-> h, at |-> i], [n \in DOMAIN h |-> n]).h
HeapifyDown(h, i) == FoldLeft(LAMBDA r, n : DownOne(r), [h |-> h, at |-> i], [n \in DOMAIN h |-> n]).h

(* `update_heap`: the heap, and the item it evicts.                        *)
UpdateHeap(t, item, n) ==
    LET h == t.heap
        mine == {i \in DOMAIN h : h[i].key = item}
        i == CHOOSE j \in mine : TRUE
        new == [key |-> item, count |-> n]
        kept(heap) == [heap |-> heap, out |-> Nil]
    IN  IF mine # {}
        THEN kept(LET g == [h EXCEPT ![i].count = n]
                  IN  IF n > h[i].count THEN HeapifyDown(g, i)
                      ELSE IF n < h[i].count THEN HeapifyUp(g, i) ELSE g)
        ELSE IF Len(h) < t.k THEN kept(HeapifyUp(Append(h, new), Len(h) + 1))
        ELSE IF n <= h[1].count THEN kept(h)
        ELSE [heap |-> HeapifyDown([h EXCEPT ![1] = new], 1), out |-> Bulk(h[1].key)]

(* `increment_internal`: every counter of the item is decayed or, if not,  *)
(* incremented.                                                            *)
Decays(t, rc, rows) ==
    t.cells[rc] > 0 /\ (t.decay = "always" \/ (t.decay = "maybe" /\ rc[1] \in rows))
TopkIncr(t, item, n, rows) ==
    LET counted(rc) == IF Decays(t, rc, rows) THEN t.cells[rc] - 1 ELSE Least(t.cells[rc] + n, MaxCounter)
        s == [t EXCEPT !.cells = [rc \in DOMAIN @ |-> IF rc \in CellsOf(t, item) THEN counted(rc) ELSE @[rc]]]
        heaped(u) == [t |-> [s EXCEPT !.heap = u.heap], out |-> u.out]
    IN  heaped(UpdateHeap(t, item, Estimate(s, item)))

TopkVal(t) == [topk |-> t]
IsTopk(v) == TypeOf(v) = "topk"
OnTopk(d, k, onSketch(_)) == IF IsTopk(d.val[k]) THEN onSketch(d.val[k].topk) ELSE Err(d)

ExecTopkReserve(db, c, now) ==
    LET d == Find(db, c.k, now)
    IN  IF c.top = 0 \/ c.width = 0 \/ c.depth = 0 THEN Err(db)
        ELSE IF Holds(d, c.k) THEN Err(d)
        ELSE Ok(Insert(d, c.k, TopkVal(NewTopk(c.top, c.width, c.depth, c.decay))), OkReply)
(* TOPK.ADD, with increments of 1, and TOPK.INCRBY.                        *)
ExecTopkIncrBy(db, c, now) ==
    LET d == Find(db, c.k, now)
        joined(out, s) == [t |-> s.t, out |-> Append(out, s.out)]
        step(r, i) == joined(r.out, TopkIncr(r.t, c.items[i], c.ns[i], c.rows))
        written(r) == Ok(WriteThrough(d, c.k, TopkVal(r.t)), Arr(r.out))
        all(t) == written(FoldLeft(step, [t |-> t, out |-> <<>>], [i \in DOMAIN c.items |-> i]))
    IN  IF c.items = <<>> \/ \E i \in DOMAIN c.ns : c.ns[i] < 1 THEN Err(db) ELSE OnTopk(d, c.k, all)
ExecTopkQuery(db, c, now) ==
    LET d == Find(db, c.k, now)
        in(t, item) == \E i \in DOMAIN t.heap : t.heap[i].key = item
        all(t) == Ok(d, Arr([i \in DOMAIN c.items |-> Flag(in(t, c.items[i]))]))
    IN  OnTopk(d, c.k, all)
ExecTopkCount(db, c, now) ==
    LET d == Find(db, c.k, now)
        all(t) == Ok(d, Arr([i \in DOMAIN c.items |-> Num(Estimate(t, c.items[i]))]))
    IN  OnTopk(d, c.k, all)
(* TOPK.LIST: the strongest first, equals in the order of their names.     *)
ExecTopkList(db, c, now) ==
    LET d == Find(db, c.k, now)
        before(a, b) == a.count > b.count \/ (a.count = b.count /\ a.key[1] < b.key[1])
        all(t) == Ok(d, Arr(SetToSortSeq(Range(t.heap), before)))
    IN  OnTopk(d, c.k, all)
ExecTopkInfo(db, c, now) ==
    LET d == Find(db, c.k, now)
        info(t) == Ok(d, Arr(<<Num(t.k), Num(t.width), Num(t.depth), Bulk(t.decay)>>))
    IN  OnTopk(d, c.k, info)

SketchReads == {"CMS.QUERY", "CMS.INFO", "TOPK.QUERY", "TOPK.COUNT", "TOPK.LIST", "TOPK.INFO"}
ExecCms(db, c, owned, now) ==
    CASE c.cmd = "CMS.INIT" -> ExecCmsInit(db, c, now)
      [] c.cmd = "CMS.INCRBY" -> ExecCmsIncrBy(db, c, now)
      [] c.cmd = "CMS.QUERY" -> ExecCmsQuery(db, c, now)
      [] c.cmd = "CMS.INFO" -> ExecCmsInfo(db, c, now)
      [] c.cmd = "CMS.MERGE" -> ExecCmsMerge(db, c, owned, now)
ExecTopk(db, c, now) ==
    CASE c.cmd = "TOPK.RESERVE" -> ExecTopkReserve(db, c, now)
      [] c.cmd = "TOPK.INCRBY" -> ExecTopkIncrBy(db, c, now)
      [] c.cmd = "TOPK.QUERY" -> ExecTopkQuery(db, c, now)
      [] c.cmd = "TOPK.COUNT" -> ExecTopkCount(db, c, now)
      [] c.cmd = "TOPK.LIST" -> ExecTopkList(db, c, now)
      [] c.cmd = "TOPK.INFO" -> ExecTopkInfo(db, c, now)
=============================================================================
