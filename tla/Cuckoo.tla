------------------------------- MODULE Cuckoo ------------------------------
(***************************************************************************)
(* Cuckoo filters (core/cuckoo.rs) and the CF commands                     *)
(* (commands/exec/cuckoo.rs).                                              *)
(*                                                                         *)
(* A sub-filter is a function from slot positions to fingerprints, 0 for   *)
(* an empty slot; the slots of bucket b are b * slots, b * slots + 1, ...  *)
(* An item may sit in either of two buckets of every sub-filter, and each  *)
(* of the two is computed from the other and the fingerprint alone.  The   *)
(* count of knock-out insertions, which only tests read, is left out.      *)
(***************************************************************************)
EXTENDS Bloom, Bitwise

CONSTANTS
    Fingerprints,     \* how many fingerprints there are: 255
    MixConstant,      \* 0x5bd1e995
    CuckooCapacity,   \* K_DEFAULT_CAPACITY
    CuckooIterations  \* the knock-outs of a filter made by an insertion: 20

ASSUME CuckooAssumption ==
    Fingerprints \in Nat \ {0} /\ MixConstant \in Nat /\ CuckooCapacity \in Nat \ {0}
    /\ CuckooIterations \in Nat \ {0}

CuckooHash(item) == ItemHash[item][1]
FingerprintOf(h) == (h % Fingerprints) + 1
AltIndex(fp, i) == i ^^ (fp * MixConstant)

Buckets(cf, f) == Cardinality(DOMAIN f) \div cf.slots
SlotsOf(cf, b) == [s \in 1..cf.slots |-> b * cf.slots + s - 1]
(* The slots that may hold the item, first bucket first.  When the two     *)
(* buckets are one, its slots are there twice.                             *)
CandidateSlots(cf, f, fp, h) ==
    LET n == Buckets(cf, f) IN SlotsOf(cf, h % n) \o SlotsOf(cf, AltIndex(fp, h) % n)

(* `add_new_sub_filter`: expansion^i times the buckets of the first.       *)
EmptySub(cf) ==
    LET growth == IF cf.filters = <<>> THEN 1 ELSE cf.expansion ^ Len(cf.filters)
    IN  [p \in 0..(cf.buckets * cf.slots * growth - 1) |-> 0]
AddSubFilter(cf) == [cf EXCEPT !.filters = Append(@, EmptySub(cf))]
NewCuckoo(capacity, slots, iters, expansion) ==
    AddSubFilter([slots |-> slots, iters |-> iters,
                  expansion |-> IF expansion = 0 THEN 0 ELSE PowerOfTwo[expansion],
                  buckets |-> PowerOfTwo[capacity \div slots],
                  items |-> 0, deletes |-> 0, filters |-> <<>>])

(* Where the candidates of an item hold the fingerprint v: <<sub-filter,   *)
(* place among the candidates>>.  The newest sub-filter is looked at       *)
(* first.                                                                  *)
Places(cf, h, v) ==
    UNION {With(CandidateSlots(cf, cf.filters[i], FingerprintOf(h), h), LAMBDA cs :
               {<<i, j>> : j \in {n \in DOMAIN cs : cf.filters[i][cs[n]] = v}}) : i \in DOMAIN cf.filters}
NewestOf(ps) == CHOOSE q \in ps : \A r \in ps : q[1] > r[1] \/ (q[1] = r[1] /\ q[2] <= r[2])
FirstPlace(cf, h, v) ==
    With(NewestOf(Places(cf, h, v)), LAMBDA p :
        [i |-> p[1], pos |-> CandidateSlots(cf, cf.filters[p[1]], FingerprintOf(h), h)[p[2]]])
CfExists(cf, h) == Places(cf, h, FingerprintOf(h)) # {}
CfCount(cf, h) == Cardinality(Places(cf, h, FingerprintOf(h)))

(* `ko_insert`, on the newest sub-filter: evict, move the evicted          *)
(* fingerprint to its other bucket, and undo every swap when the           *)
(* iterations run out.                                                     *)
Swap(r, pos) == [r EXCEPT !.f[pos] = r.fp, !.fp = r.f[pos]]
KnockOut(cf, r) ==
    LET into(s, idx, free) ==
            IF free # {} THEN [s EXCEPT !.f[Min(free)] = s.fp, !.idx = idx, !.done = TRUE]
            ELSE [s EXCEPT !.idx = idx, !.victim = (r.victim + 1) % cf.slots]
    IN  With(Swap(r, r.idx * cf.slots + r.victim), LAMBDA s :
        With(AltIndex(s.fp, r.idx) % Buckets(cf, r.f), LAMBDA idx :
            into(s, idx, {p \in Range(SlotsOf(cf, idx)) : s.f[p] = 0})))
(* Mutant: the victim is not stepped back.                                 *)
UndoVictim(cf, r) ==
    LET idx == AltIndex(r.fp, r.idx) % Buckets(cf, r.f) IN Swap([r EXCEPT !.idx = idx], idx * cf.slots + r.victim)
Undo(cf, r) ==
    LET victim == (r.victim + cf.slots - 1) % cf.slots
        idx == AltIndex(r.fp, r.idx) % Buckets(cf, r.f)
    IN  Swap([r EXCEPT !.victim = victim, !.idx = idx], idx * cf.slots + victim)
KoInsert(cf, h) ==
    LET f == cf.filters[Len(cf.filters)]
        start == [f |-> f, idx |-> h % Buckets(cf, f), fp |-> FingerprintOf(h), victim |-> 0, done |-> FALSE]
        rounds == [i \in 1..cf.iters |-> i]
    IN  With(FoldLeft(LAMBDA r, i : IF r.done THEN r ELSE KnockOut(cf, r), start, rounds), LAMBDA tried :
            IF tried.done THEN tried ELSE FoldLeft(LAMBDA r, i : Undo(cf, r), tried, rounds))

(* `insert`: an empty candidate, then knocking out, then a new sub-filter, *)
(* which has room.                                                         *)
Placed(cf, h) ==
    With(FirstPlace(cf, h, 0), LAMBDA p :
        [cf EXCEPT !.filters[p.i][p.pos] = FingerprintOf(h), !.items = @ + 1])
CfInsert(cf, h) ==
    LET knocked(done, kicked) ==
            IF done THEN [ok |-> TRUE, cf |-> [kicked EXCEPT !.items = @ + 1]]
            ELSE IF cf.expansion = 0 THEN [ok |-> FALSE, cf |-> kicked]
            ELSE [ok |-> TRUE, cf |-> Placed(AddSubFilter(kicked), h)]
    IN  IF Places(cf, h, 0) # {} THEN [ok |-> TRUE, cf |-> Placed(cf, h)]
        ELSE With(KoInsert(cf, h), LAMBDA ko : knocked(ko.done, [cf EXCEPT !.filters[Len(cf.filters)] = ko.f]))

CfDelete(cf, h) ==
    With(FirstPlace(cf, h, FingerprintOf(h)), LAMBDA p :
        [cf EXCEPT !.filters[p.i][p.pos] = 0, !.items = @ - 1, !.deletes = @ + 1])

(* `relocate_slot`: into the oldest sub-filter with room.  The bucket      *)
(* stands for the hash: bucket counts divide one another.                  *)
Relocate(cf, i, pos) ==
    LET fp == cf.filters[i][pos]
        slot(j, n) == CandidateSlots(cf, cf.filters[j], fp, pos \div cf.slots)[n]
        oldest(room) == CHOOSE q \in room : \A r \in room : q[1] < r[1] \/ (q[1] = r[1] /\ q[2] <= r[2])
        move(j, at) == [cf EXCEPT !.filters[j][at] = fp, !.filters[i][pos] = 0]
    IN  With({q \in (1..(i - 1)) \X (1..(2 * cf.slots)) : cf.filters[q[1]][slot(q[1], q[2])] = 0}, LAMBDA room :
            IF fp = 0 \/ room = {} THEN cf
            ELSE With(oldest(room), LAMBDA to : move(to[1], slot(to[1], to[2]))))
CompactSingle(cf, i) ==
    LET dropped(moved, empty) ==
            [empty |-> empty,
             cf |-> IF empty /\ i = Len(moved.filters) THEN [moved EXCEPT !.filters = Front(@)] ELSE moved]
    IN  With(FoldLeft(LAMBDA r, pos : Relocate(r, i, pos), cf, InOrder(DOMAIN cf.filters[i])), LAMBDA moved :
            dropped(moved, \A pos \in DOMAIN moved.filters[i] : moved.filters[i][pos] = 0))
Compact(cf, cont) ==
    LET step(r, i) == IF r.stop THEN r
                      ELSE With(CompactSingle(r.cf, i), LAMBDA s : [cf |-> s.cf, stop |-> ~s.empty /\ ~cont])
        down == [i \in 1..(Len(cf.filters) - 1) |-> Len(cf.filters) + 1 - i]
    IN  [FoldLeft(step, [cf |-> cf, stop |-> FALSE], down).cf EXCEPT !.deletes = 0]

-----------------------------------------------------------------------------
CuckooVal(cf) == [cuckoo |-> cf]
IsCuckoo(v) == TypeOf(v) = "cuckoo"
OnCuckoo(d, k, onFilter(_)) == IF IsCuckoo(d.val[k]) THEN onFilter(d.val[k].cuckoo) ELSE Err(d)

ExecCfReserve(db, c, now) ==
    LET d == Find(db, c.k, now)
    IN  IF c.capacity = 0 \/ c.slots = 0 \/ c.iters = 0 THEN Err(db)
        ELSE IF Holds(d, c.k) THEN Err(d)
        ELSE Ok(Insert(d, c.k, CuckooVal(NewCuckoo(c.capacity, c.slots, c.iters, c.expansion))), OkReply)

(* The filter an insertion works on: made when the key is missing, unless  *)
(* NOCREATE forbids it.  Two slots, expansion 1.                           *)
WithCuckoo(db, k, capacity, nocreate, now) ==
    LET d == Find(db, k, now)
    IN  IF Holds(d, k) \/ nocreate THEN d ELSE Insert(d, k, CuckooVal(NewCuckoo(capacity, 2, CuckooIterations, 1)))

(* CF.ADD and CF.ADDNX (one item), CF.INSERT and CF.INSERTNX: per item 1,  *)
(* 0 for one that exists (nx), -1 or an error for a full filter.           *)
InsertOne(cf, item, nx) ==
    IF nx /\ CfExists(cf, CuckooHash(item)) THEN [n |-> 0, cf |-> cf]
    ELSE With(CfInsert(cf, CuckooHash(item)), LAMBDA r : [n |-> IF r.ok THEN 1 ELSE -1, cf |-> r.cf])
ExecCfAdd(db, c, now) ==
    LET d == WithCuckoo(db, c.k, CuckooCapacity, FALSE, now)
        saved(r) == Ok(WriteThrough(d, c.k, CuckooVal(r.cf)), IF r.n < 0 THEN ErrReply ELSE Num(r.n))
    IN  OnCuckoo(d, c.k, LAMBDA cf : saved(InsertOne(cf, c.item, c.nx)))
ExecCfInsert(db, c, now) ==
    LET d == WithCuckoo(db, c.k, c.capacity, c.nocreate, now)
        saved(r) == Ok(WriteThrough(d, c.k, CuckooVal(r.cf)), Arr(r.out))
    IN  IF (~c.nocreate /\ c.capacity = 0) \/ c.items = <<>> THEN Err(db)
        ELSE OnCuckoo(d, c.k, LAMBDA cf : saved(
                 FoldLeft(LAMBDA r, item : With(InsertOne(r.cf, item, c.nx), LAMBDA s :
                              [cf |-> s.cf, out |-> Append(r.out, Num(s.n))]),
                          [cf |-> cf, out |-> <<>>], c.items)))

ExecCfExists(db, c, now) ==
    LET d == Find(db, c.k, now)
        has(item) == IsCuckoo(d.val[c.k]) /\ CfExists(d.val[c.k].cuckoo, CuckooHash(item))
    IN  Ok(d, Arr([i \in DOMAIN c.items |-> Flag(has(c.items[i]))]))
ExecCfCount(db, c, now) ==
    LET d == Find(db, c.k, now)
    IN  Ok(d, Num(IF IsCuckoo(d.val[c.k]) THEN CfCount(d.val[c.k].cuckoo, CuckooHash(c.item)) ELSE 0))
ExecCfInfo(db, c, now) ==
    LET d == Find(db, c.k, now)
        info(cf) == Ok(d, Arr(<<Num(cf.buckets), Num(Len(cf.filters)), Num(cf.items), Num(cf.deletes),
                                Num(cf.slots), Num(cf.expansion), Num(cf.iters)>>))
    IN  OnCuckoo(d, c.k, info)

(* CF.DEL compacts once the deletions exceed a tenth of the items.         *)
ExecCfDel(db, c, now) ==
    LET d == Find(db, c.k, now)
        h == CuckooHash(c.item)
        trimmed(e) == IF Len(e.filters) > 1 /\ e.deletes > e.items \div 10 THEN Compact(e, FALSE) ELSE e
    IN  OnCuckoo(d, c.k, LAMBDA cf :
            IF ~CfExists(cf, h) THEN Ok(d, Num(0))
            ELSE Ok(WriteThrough(d, c.k, CuckooVal(trimmed(CfDelete(cf, h)))), Num(1)))
ExecCfCompact(db, c, now) ==
    LET d == Find(db, c.k, now)
    IN  OnCuckoo(d, c.k, LAMBDA cf : Ok(WriteThrough(d, c.k, CuckooVal(Compact(cf, TRUE))), OkReply))

CuckooReads == {"CF.EXISTS", "CF.INFO", "CF.COUNT"}
ExecCuckoo(db, c, now) ==
    CASE c.cmd = "CF.RESERVE" -> ExecCfReserve(db, c, now)
      [] c.cmd = "CF.ADD" -> ExecCfAdd(db, c, now)
      [] c.cmd = "CF.INSERT" -> ExecCfInsert(db, c, now)
      [] c.cmd = "CF.EXISTS" -> ExecCfExists(db, c, now)
      [] c.cmd = "CF.COUNT" -> ExecCfCount(db, c, now)
      [] c.cmd = "CF.INFO" -> ExecCfInfo(db, c, now)
      [] c.cmd = "CF.DEL" -> ExecCfDel(db, c, now)
      [] c.cmd = "CF.COMPACT" -> ExecCfCompact(db, c, now)
=============================================================================
