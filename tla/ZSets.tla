------------------------------- MODULE ZSets -------------------------------
(***************************************************************************)
(* The sorted-set commands (commands/exec/zsets.rs).  A sorted set is the  *)
(* map from members to scores that `ZSet::index` holds; the order the      *)
(* skiplist keeps is a function of it.  Scores are integers and the        *)
(* infinities.                                                             *)
(***************************************************************************)
EXTENDS Sets

ZSetVal(z) == [zset |-> z]
IsZSet(v) == TypeOf(v) = "zset"
WrongZSet(d, k) == Holds(d, k) /\ ~IsZSet(d.val[k])
Scores(d, k) == IF Holds(d, k) THEN d.val[k].zset ELSE <<>>
EmptyZ(z) == DOMAIN z = {}

Inf == 1000000
NaN == 2000000
AddScore(a, b) ==
    IF NaN \in {a, b} \/ {a, b} = {Inf, -Inf} THEN NaN
    ELSE IF Inf \in {a, b} THEN Inf
    ELSE IF -Inf \in {a, b} THEN -Inf ELSE a + b
TimesScore(a, w) ==
    IF a \in {Inf, -Inf} THEN IF w = 0 THEN NaN ELSE IF w > 0 THEN a ELSE -a ELSE a * w
NotNan(s) == IF s = NaN THEN 0 ELSE s

(* The members in ascending (score, member) order, `ZSet::iter`.           *)
ZOrder(z) ==
    SetToSortSeq(DOMAIN z, LAMBDA a, b : z[a] < z[b] \/ (z[a] = z[b] /\ LexLess(a, b)))
ZRestrict(z, ms) == [m \in ms |-> z[m]]
ZPut(z, m, s) == (m :> s) @@ z

(* `ensure_zset`; a set left empty is removed when it is written back.     *)
EnsureZSet(db, k, now) ==
    With(Find(db, k, now), LAMBDA d : IF Holds(d, k) THEN d ELSE Insert(d, k, ZSetVal(<<>>)))
PutZSet(d, k, z) == IF EmptyZ(z) THEN RemoveKey(d, k) ELSE WriteThrough(d, k, ZSetVal(z))

(* ZADD: one pair after the other; c.pairs is a sequence of <<s, m>>.      *)
ZaddStep(r, p, c) ==
    LET s == p[1]
        m == p[2]
        old == m \in DOMAIN r.z
        update == IF old THEN /\ ~c.nx
                              /\ c.gt => s > r.z[m]
                              /\ c.lt => s < r.z[m]
                  ELSE ~c.xx
        new == IF c.incr THEN AddScore(IF old THEN r.z[m] ELSE 0, s) ELSE s
        moved == ~old \/ r.z[m] # new
    IN  IF ~update \/ r.nan THEN r
        ELSE IF new = NaN THEN [r EXCEPT !.nan = TRUE]
        ELSE [z |-> ZPut(r.z, m, new), nan |-> FALSE, last |-> <<new>>,
              added |-> r.added + (IF old THEN 0 ELSE 1),
              changed |-> r.changed + (IF moved THEN 1 ELSE 0)]
ExecZadd(db, c, now) ==
    LET begin(z) == [z |-> z, nan |-> FALSE, last |-> <<>>, added |-> 0, changed |-> 0]
        written(d, r) ==
            IF r.nan THEN Err(WriteThrough(d, c.k, ZSetVal(r.z)))
            ELSE Ok(PutZSet(d, c.k, r.z),
                    CASE c.incr -> (IF r.last = <<>> THEN Nil ELSE Num(r.last[1]))
                      [] ~c.incr /\ c.ch -> Num(r.changed)
                      [] OTHER -> Num(r.added))
    IN  IF (c.incr /\ Len(c.pairs) # 1) \/ (c.nx /\ (c.gt \/ c.lt))
           \/ \E i \in DOMAIN c.pairs : c.pairs[i][1] = NaN
        THEN Err(db)
        ELSE With(EnsureZSet(db, c.k, now), LAMBDA d :
                IF WrongZSet(d, c.k) THEN Err(d)
                ELSE written(d, FoldLeft(LAMBDA a, p : ZaddStep(a, p, c), begin(Scores(d, c.k)), c.pairs)))

(* ZINCRBY creates the set before it looks at the sum.                     *)
ExecZincrBy(db, c, now) ==
    LET new(z) == AddScore(IF c.m \in DOMAIN z THEN z[c.m] ELSE 0, c.by)
        written(d, z, s) == IF WrongZSet(d, c.k) \/ s = NaN THEN Err(d)
                            ELSE Ok(WriteThrough(d, c.k, ZSetVal(ZPut(z, c.m, s))), Num(s))
    IN  With(EnsureZSet(db, c.k, now), LAMBDA d :
            With(Scores(d, c.k), LAMBDA z : written(d, z, new(z))))

(* The commands that look at an existing set, or delete members of it.     *)
ReadZSet(db, k, missing, answer(_), now) ==
    With(Find(db, k, now), LAMBDA d :
        IF WrongZSet(d, k) THEN Err(d)
        ELSE Ok(d, IF Holds(d, k) THEN answer(d.val[k].zset) ELSE missing))
DeleteMembers(db, k, doomed(_), now) ==
    LET without(d, z, dead) ==
            Ok(PutZSet(d, k, ZRestrict(z, DOMAIN z \ dead)), Num(Cardinality(dead \cap DOMAIN z)))
    IN  With(Find(db, k, now), LAMBDA d :
            IF WrongZSet(d, k) THEN Err(d)
            ELSE IF ~Holds(d, k) THEN Ok(d, Num(0))
            ELSE without(d, d.val[k].zset, doomed(d.val[k].zset)))

ExecZrem(db, c, now) == LET f(z) == Range(c.ms) IN DeleteMembers(db, c.k, f, now)
ScoreOf(z, m) == IF m \in DOMAIN z THEN Num(z[m]) ELSE Nil
ExecZscore(db, c, now) == LET f(z) == ScoreOf(z, c.m) IN ReadZSet(db, c.k, Nil, f, now)
ExecZmscore(db, c, now) ==
    LET f(z) == Arr([i \in DOMAIN c.ms |-> ScoreOf(z, c.ms[i])])
        none == Arr([i \in DOMAIN c.ms |-> Nil])
    IN  ReadZSet(db, c.k, none, f, now)
ExecZcard(db, c, now) ==
    LET f(z) == Num(Cardinality(DOMAIN z)) IN ReadZSet(db, c.k, Num(0), f, now)
Directed(q, rev) == IF rev THEN Reverse(q) ELSE q
IndexOf(q, m) == CHOOSE i \in DOMAIN q : q[i] = m
ExecZrank(db, c, now) ==
    LET f(z) == IF c.m \in DOMAIN z THEN Num(IndexOf(Directed(ZOrder(z), c.rev), c.m) - 1) ELSE Nil
    IN  ReadZSet(db, c.k, Nil, f, now)

(***************************************************************************)
(* Ranges.  A score bound is [v, excl]; a member bound [m, incl], where    *)
(* "-" is the empty member inclusive and "+" the empty member exclusive.   *)
(* c.by is "index", "score" or "lex", c.off and c.cnt the LIMIT clause (a  *)
(* negative count is no limit).                                            *)
(***************************************************************************)
ScoreIn(s, lo, hi) ==
    /\ IF lo.excl THEN s > lo.v ELSE s >= lo.v
    /\ IF hi.excl THEN s < hi.v ELSE s <= hi.v
LexGe(m, lo) ==
    IF lo.m = <<>> THEN lo.incl ELSE LexLess(lo.m, m) \/ (lo.incl /\ m = lo.m)
LexLe(m, hi) ==
    IF hi.m = <<>> THEN ~hi.incl ELSE LexLess(m, hi.m) \/ (hi.incl /\ m = hi.m)

Sliced(q, off, cnt) ==
    SubSeq(q, off + 1, IF cnt < 0 THEN Len(q) ELSE Least(Len(q), off + cnt))

(* `lex_range`: finds the first member on the near side by member alone,   *)
(* skips, and stops at the first member beyond the far side, in the order  *)
(* of the scores.  "-" as the minimum and "+" as the maximum are no bound. *)
LexRange(z, lo, hi, rev, off, cnt) ==
    LET near == IF rev THEN hi ELSE lo
        far == IF rev THEN lo ELSE hi
        nearOpen == near.m = <<>> /\ (near.incl # rev)
        farOpen == far.m = <<>> /\ (far.incl = rev)
        before(a, b) == IF rev THEN LexLess(b, a) ELSE LexLess(a, b)
        skip(m) == off + (IF ~nearOpen /\ ~near.incl /\ m = near.m THEN 1 ELSE 0)
        beyond(m) == ~farOpen /\ (before(far.m, m) \/ (m = far.m /\ ~far.incl))
        upTo(rest, ends) == SubSeq(rest, 1, IF ends = {} THEN Len(rest) ELSE Min(ends) - 1)
        from(rest) == upTo(rest, {i \in DOMAIN rest : beyond(rest[i])})
        range(q, hits) == IF hits = {} THEN <<>>
                          ELSE Sliced(from(SubSeq(q, Min(hits) + skip(q[Min(hits)]), Len(q))), 0, cnt)
    IN  With(Directed(ZOrder(z), rev), LAMBDA q :
            range(q, {i \in DOMAIN q : nearOpen \/ ~before(q[i], near.m)}))

(* `zrange_items_with`.                                                    *)
RangeItems(z, c) ==
    LET q == Directed(ZOrder(z), c.rev)
        lo == IF c.rev THEN c.max ELSE c.min
        hi == IF c.rev THEN c.min ELSE c.max
        inScore(m) == ScoreIn(z[m], lo, hi)
        ranked(s, r) == SubSeq(s, r.start + 1, r.start + r.count)
    IN  IF c.off < 0 THEN <<>>
        ELSE CASE c.by = "score" -> Sliced(SelectSeq(q, inScore), c.off, c.cnt)
               [] c.by = "lex" -> LexRange(z, lo, hi, c.rev, c.off, c.cnt)
               [] c.by = "index" -> Sliced(ranked(q, RedisRange(c.min, c.max, Len(q))), c.off, c.cnt)
Scored(z, q) == Arr([i \in DOMAIN q |-> <<q[i], z[q[i]]>>])
ExecZrange(db, c, now) ==
    LET f(z) == Scored(z, RangeItems(z, c))
    IN  IF c.off < 0 THEN Ok(db, Arr(<<>>)) ELSE ReadZSet(db, c.k, Arr(<<>>), f, now)

InScore(z, c) == {m \in DOMAIN z : ScoreIn(z[m], c.min, c.max)}
InLex(z, c) == {m \in DOMAIN z : LexGe(m, c.min) /\ LexLe(m, c.max)}
InRank(z, c) == Range(RangeItems(z, c))
ExecZcount(db, c, now) ==
    LET f(z) == Num(Cardinality(InScore(z, c))) IN ReadZSet(db, c.k, Num(0), f, now)
ExecZlexCount(db, c, now) ==
    LET f(z) == Num(Cardinality(InLex(z, c))) IN ReadZSet(db, c.k, Num(0), f, now)
ExecZremRangeByScore(db, c, now) == LET f(z) == InScore(z, c) IN DeleteMembers(db, c.k, f, now)
ExecZremRangeByLex(db, c, now) == LET f(z) == InLex(z, c) IN DeleteMembers(db, c.k, f, now)
ExecZremRangeByRank(db, c, now) == LET f(z) == InRank(z, c) IN DeleteMembers(db, c.k, f, now)

(* `peek_pop`: the members that come off, in pop order.                    *)
PeekPop(z, max, n) ==
    SubSeq(Directed(ZOrder(z), max), 1, Least(n, Cardinality(DOMAIN z)))
AfterPop(z, out) == ZRestrict(z, DOMAIN z \ Range(out))
ExecZpop(db, c, now) ==
    LET pop(d, z, out) == Ok(PutZSet(d, c.k, AfterPop(z, out)), Scored(z, out))
    IN  IF c.count < 0 THEN Err(db)
        ELSE With(Find(db, c.k, now), LAMBDA d :
                IF WrongZSet(d, c.k) THEN Err(d)
                ELSE IF ~Holds(d, c.k) THEN Ok(d, Arr(<<>>))
                ELSE pop(d, d.val[c.k].zset, PeekPop(d.val[c.k].zset, c.max, c.count)))

(* ZRANDMEMBER draws with c.seed; ZSCAN pages by position, two entries of  *)
(* the budget per member.                                                  *)
ExecZrandMember(db, c, now) ==
    LET drawn(q) == IF c.count >= 0 THEN Arr(SubSeq(q, 1, Least(c.count, Len(q))))
                    ELSE Arr([i \in 1..(-c.count) |-> q[((i * c.seed) % Len(q)) + 1]])
        f(z) == drawn(Rotated(DOMAIN z, c.seed))
    IN  ReadZSet(db, c.k, IF c.counted THEN Arr(<<>>) ELSE Nil, f, now)
ExecZscan(db, c, now) ==
    LET page(p) == Arr(<<Num(p.next), Arr(p.items)>>)
        f(z) == IF c.count < 2
                THEN Arr(<<Num(IF c.cursor >= Cardinality(DOMAIN z) THEN 0 ELSE c.cursor), Arr(<<>>)>>)
                ELSE page(ScanPage(ZOrder(z), c.cursor, c.count \div 2, c.match))
    IN  IF c.count < 1 THEN Err(db) ELSE ReadZSet(db, c.k, Arr(<<Num(0), Arr(<<>>)>>), f, now)

(* ZRANGESTORE: c.ks are the destination and the source.  The destination  *)
(* keeps its expiry when it is on the source's shard.                      *)
ExecZrangeStore(db, c, owned, now) ==
    LET dest == c.ks[1]
        store(d, v, n) ==
            IF 1 \notin owned
            THEN Deferred(d, <<Store(dest, IF n = 0 THEN Absent ELSE v, NoExpiry, FALSE)>>, Num(n))
            ELSE Ok(IF n = 0 THEN RemoveKey(d, dest) ELSE Insert(d, dest, v), Num(n))
        range(d, z, q) == store(d, ZSetVal(ZRestrict(z, Range(q))), Len(q))
    IN  IF 2 \notin owned THEN Ok(db, Arr(<<>>))
        ELSE With(IF c.off < 0 THEN db ELSE Find(db, c.ks[2], now), LAMBDA d :
                IF WrongZSet(d, c.ks[2]) /\ c.off >= 0 THEN Err(d)
                ELSE With(Scores(d, c.ks[2]), LAMBDA z : range(d, z, RangeItems(z, c))))
MergeZrangeStore(parts, c) ==
    LET src == PartOf(parts, 2)
    IN  IF AnyErr(parts) THEN MergedErr ELSE MergedStore(src.stores, src.reply)

(***************************************************************************)
(* ZUNION, ZINTER, ZDIFF and their STORE forms.  c.src is the index of the *)
(* first source: 2 when c.ks[1] is a destination.  c.ws are the weights,   *)
(* c.agg the reduction.                                                    *)
(***************************************************************************)
Aggregate(a, b, how) ==
    CASE how = "sum" -> NotNan(AddScore(a, b))
      [] how = "min" -> Least(a, b)
      [] how = "max" -> IF a >= b THEN a ELSE b
MergeScored(f, g, how) ==
    [m \in DOMAIN f \cup DOMAIN g |->
        IF m \notin DOMAIN g THEN f[m] ELSE IF m \notin DOMAIN f THEN g[m]
        ELSE Aggregate(f[m], g[m], how)]
InterScored(f, g, how) == [m \in DOMAIN f \cap DOMAIN g |-> Aggregate(f[m], g[m], how)]
Sources(c, owned) == {i \in owned : i >= c.src}

(* `weighted_map_of`: a plain set counts as a sorted set of weight scores, *)
(* its expired members included.                                           *)
Scorable(v) == TypeOf(v) \in {"none", "zset", "set"}
WeightedMap(v, w) ==
    IF IsZSet(v) THEN [m \in DOMAIN v.zset |-> NotNan(TimesScore(v.zset[m], w))]
    ELSE IF IsSet(v) THEN [m \in v.set.mem |-> w] ELSE <<>>

(* `union_inter`: the sources in order; an intersection that is empty      *)
(* already looks no further, a source that is missing empties it.          *)
UnionInter(db, c, owned, inter, now) ==
    LET join(acc, map) == IF acc = <<>> THEN map
                          ELSE IF inter THEN InterScored(acc[1], map, c.agg)
                          ELSE MergeScored(acc[1], map, c.agg)
        kept(r, acc) == [r EXCEPT !.acc = <<acc>>, !.stop = inter /\ EmptyZ(acc)]
        seen(r, v, w) == IF ~Scorable(v) THEN [r EXCEPT !.err = TRUE, !.stop = TRUE]
                         ELSE IF v = Absent THEN [r EXCEPT !.missing = TRUE]
                         ELSE kept(r, join(r.acc, WeightedMap(v, w)))
        step(r, i) ==
            IF r.stop THEN r
            ELSE With(Find(r.db, c.ks[i], now), LAMBDA d :
                    seen([r EXCEPT !.db = d], d.val[c.ks[i]], c.ws[i - c.src + 1]))
    IN  FoldLeft(step, [db |-> db, acc |-> <<>>, missing |-> FALSE, err |-> FALSE, stop |-> FALSE],
                 InOrder(Sources(c, owned)))
ScoredOf(r, inter) == IF r.acc = <<>> \/ (inter /\ r.missing) THEN <<>> ELSE r.acc[1]

(* `write_zset_or_delete`, or the reply, when the shard owns every key.    *)
ZSetOrAbsent(map) == IF EmptyZ(map) THEN Absent ELSE ZSetVal(map)
FinishScored(d, c, owned, map) ==
    LET dest == c.ks[1]
    IN  IF owned # DOMAIN c.ks THEN Ok(d, <<"scored", map>>)
        ELSE IF c.src = 1 THEN Ok(d, Scored(map, ZOrder(map)))
        ELSE Ok(IF EmptyZ(map) THEN RemoveKey(d, dest)
                ELSE Insert(ClearExpiry(d, dest), dest, ZSetVal(map)),
                Num(Cardinality(DOMAIN map)))
ExecUnionInter(db, c, owned, inter, now) ==
    LET finish(r) == IF r.err THEN Err(r.db) ELSE FinishScored(r.db, c, owned, ScoredOf(r, inter))
    IN  IF Sources(c, owned) = {} THEN Ok(db, Nil) ELSE finish(UnionInter(db, c, owned, inter, now))
ExecZunion(db, c, owned, now) == ExecUnionInter(db, c, owned, FALSE, now)
ExecZinter(db, c, owned, now) == ExecUnionInter(db, c, owned, TRUE, now)

FinishMerged(c, map) ==
    IF c.src = 1 THEN Merged(Scored(map, ZOrder(map)))
    ELSE MergedStore(<<Store(c.ks[1], ZSetOrAbsent(map), NoExpiry, FALSE)>>,
                     Num(Cardinality(DOMAIN map)))
MergeZunion(parts, c) ==
    LET add(acc, p) == IF p.reply = Nil THEN acc ELSE MergeScored(acc, p.reply[2], c.agg)
    IN  IF AnyErr(parts) THEN MergedErr ELSE FinishMerged(c, FoldLeft(add, <<>>, parts))

(* The intersection of the parts ends at the first that empties it or is   *)
(* an error.                                                               *)
MergeZinter(parts, c) ==
    LET step(r, p) ==
            IF r.stop \/ p.reply = Nil THEN r
            ELSE IF IsErr(p) THEN [r EXCEPT !.err = TRUE, !.stop = TRUE]
            ELSE LET acc == IF r.acc = <<>> THEN p.reply[2]
                            ELSE InterScored(r.acc[1], p.reply[2], c.agg)
                 IN  [acc |-> <<acc>>, err |-> FALSE, stop |-> EmptyZ(acc)]
        r == FoldLeft(step, [acc |-> <<>>, err |-> FALSE, stop |-> FALSE], parts)
    IN  IF r.err THEN MergedErr ELSE FinishMerged(c, IF r.acc = <<>> THEN <<>> ELSE r.acc[1])

(* ZINTERCARD intersects members only; a missing source does not stop it.  *)
ZMembersOf(v) == IF IsZSet(v) THEN DOMAIN v.zset ELSE IF IsSet(v) THEN v.set.mem ELSE {}
ExecZinterCard(db, c, owned, now) ==
    LET kept(r, acc) == [r EXCEPT !.acc = <<acc>>, !.stop = acc = {}]
        seen(r, ms) == IF ms = {} THEN [r EXCEPT !.missing = TRUE]
                       ELSE kept(r, IF r.acc = <<>> THEN ms ELSE r.acc[1] \cap ms)
        step(r, i) ==
            IF r.stop THEN r
            ELSE With(Find(r.db, c.ks[i], now), LAMBDA d :
                    IF Scorable(d.val[c.ks[i]]) THEN seen([r EXCEPT !.db = d], ZMembersOf(d.val[c.ks[i]]))
                    ELSE [r EXCEPT !.db = d, !.err = TRUE, !.stop = TRUE])
        answer(ms) == IF owned = DOMAIN c.ks THEN Num(Limited(Cardinality(ms), c.limit)) ELSE Members(ms)
    IN  With(FoldLeft(step, [db |-> db, acc |-> <<>>, missing |-> FALSE, err |-> FALSE, stop |-> FALSE],
                      InOrder(owned)), LAMBDA r :
            IF r.err THEN Err(r.db)
            ELSE Ok(r.db, answer(IF r.missing \/ r.acc = <<>> THEN {} ELSE r.acc[1])))
MergeZinterCard(parts, c) ==
    IF AnyErr(parts) THEN MergedErr
    ELSE Merged(Num(Limited(Cardinality(Inter({parts[i].reply[2] : i \in DOMAIN parts})), c.limit)))

(* ZDIFF: only sorted sets; across shards every source's map is sent.      *)
ExecZdiff(db, c, owned, now) ==
    LET srcs == Sources(c, owned)
        look(r, i) == IF ~r.ok THEN r
                      ELSE With(Find(r.db, c.ks[i], now), LAMBDA d : [db |-> d, ok |-> ~WrongZSet(d, c.ks[i])])
        diff(z) == ZRestrict(z[c.src], DOMAIN z[c.src] \ UNION {DOMAIN z[i] : i \in srcs \ {c.src}})
        finish(d, z) == IF owned # DOMAIN c.ks THEN Ok(d, <<"maps", z>>)
                        ELSE FinishScored(d, c, owned, diff(z))
    IN  IF srcs = {} THEN Ok(db, Nil)
        ELSE With(FoldLeft(look, [db |-> db, ok |-> TRUE], InOrder(srcs)), LAMBDA r :
                IF r.ok THEN finish(r.db, [i \in srcs |-> Scores(r.db, c.ks[i])]) ELSE Err(r.db))
MergeZdiff(parts, c) ==
    LET maps(p) == p.reply[2]
        full == {p \in Range(parts) : p.reply # Nil}
        base == maps(PartOf(parts, c.src))[c.src]
        taken == UNION {UNION {DOMAIN maps(p)[i] : i \in DOMAIN maps(p) \ {c.src}} : p \in full}
    IN  IF AnyErr(parts) THEN MergedErr
        ELSE FinishMerged(c, ZRestrict(base, DOMAIN base \ taken))

(***************************************************************************)
(* ZMPOP, BZMPOP, BZPOPMIN and BZPOPMAX: the first key with a sorted set.  *)
(* c.skip passes over keys of another type, else they are an error.        *)
(***************************************************************************)
ZMissing(c) == IF c.blocking THEN BlockedReply ELSE Nil
FirstZSet(db, c, owned, now) ==
    LET hit(v) == v # Absent /\ IF IsZSet(v) THEN ~EmptyZ(v.zset) ELSE ~c.skip
        look(r, i) == IF r.hit # 0 THEN r
                      ELSE With(Find(r.db, c.ks[i], now), LAMBDA d :
                                [db |-> d, hit |-> IF hit(d.val[c.ks[i]]) THEN i ELSE 0])
    IN  FoldLeft(look, [db |-> db, hit |-> 0], InOrder(owned))
ZPopReply(c, i, pairs) == Arr(<<Bulk(c.ks[i]), pairs>>)
ExecZmpop(db, c, owned, now) ==
    LET pop(d, hit, z, out) ==
            IF owned = DOMAIN c.ks
            THEN Ok(PutZSet(d, c.ks[hit], AfterPop(z, out)), ZPopReply(c, hit, Scored(z, out)))
            ELSE Ok(d, <<"data", hit, Scored(z, out), AfterPop(z, out)>>)
        at(d, hit, z) == pop(d, hit, z, PeekPop(z, c.max, c.count))
    IN  IF c.count < 0 THEN Err(db)
        ELSE With(FirstZSet(db, c, owned, now), LAMBDA f :
                IF f.hit = 0 THEN Ok(f.db, ZMissing(c))
                ELSE IF WrongZSet(f.db, c.ks[f.hit]) THEN Err(f.db)
                ELSE at(f.db, f.hit, f.db.val[c.ks[f.hit]].zset))
MergeZmpop(parts, c) ==
    LET data == {parts[i].reply : i \in {j \in DOMAIN parts : parts[j].reply[1] = "data"}}
        best == CHOOSE r \in data : \A s \in data : r[2] <= s[2]
    IN  IF Len(parts) = 1 THEN Merged(parts[1].reply)
        ELSE IF AnyErr(parts) THEN MergedErr
        ELSE IF data = {} THEN Merged(IF c.skip THEN Nil ELSE BlockedReply)
        ELSE MergedStore(<<Store(c.ks[best[2]], ZSetOrAbsent(best[4]), NoExpiry, FALSE)>>,
                         ZPopReply(c, best[2], best[3]))

(* The flags of the commands, and what the registry runs and merges for    *)
(* each.  ZUNION, ZINTER and ZDIFF stand for their STORE forms too.        *)
ZSetReads == {"ZSCORE", "ZMSCORE", "ZCARD", "ZRANK", "ZRANGE", "ZCOUNT", "ZLEXCOUNT",
              "ZRANDMEMBER", "ZSCAN", "ZINTERCARD"}
ExecZSets(db, c, owned, now) ==
    CASE c.cmd = "ZADD" -> ExecZadd(db, c, now)
      [] c.cmd = "ZINCRBY" -> ExecZincrBy(db, c, now)
      [] c.cmd = "ZREM" -> ExecZrem(db, c, now)
      [] c.cmd = "ZSCORE" -> ExecZscore(db, c, now)
      [] c.cmd = "ZMSCORE" -> ExecZmscore(db, c, now)
      [] c.cmd = "ZCARD" -> ExecZcard(db, c, now)
      [] c.cmd = "ZRANK" -> ExecZrank(db, c, now)
      [] c.cmd = "ZRANGE" -> ExecZrange(db, c, now)
      [] c.cmd = "ZCOUNT" -> ExecZcount(db, c, now)
      [] c.cmd = "ZLEXCOUNT" -> ExecZlexCount(db, c, now)
      [] c.cmd = "ZREMRANGEBYSCORE" -> ExecZremRangeByScore(db, c, now)
      [] c.cmd = "ZREMRANGEBYLEX" -> ExecZremRangeByLex(db, c, now)
      [] c.cmd = "ZREMRANGEBYRANK" -> ExecZremRangeByRank(db, c, now)
      [] c.cmd = "ZPOP" -> ExecZpop(db, c, now)
      [] c.cmd = "ZRANDMEMBER" -> ExecZrandMember(db, c, now)
      [] c.cmd = "ZSCAN" -> ExecZscan(db, c, now)
      [] c.cmd = "ZRANGESTORE" -> ExecZrangeStore(db, c, owned, now)
      [] c.cmd = "ZUNION" -> ExecZunion(db, c, owned, now)
      [] c.cmd = "ZINTER" -> ExecZinter(db, c, owned, now)
      [] c.cmd = "ZINTERCARD" -> ExecZinterCard(db, c, owned, now)
      [] c.cmd = "ZDIFF" -> ExecZdiff(db, c, owned, now)
      [] c.cmd = "ZMPOP" -> ExecZmpop(db, c, owned, now)
MergeZSets(parts, c) ==
    CASE c.cmd = "ZRANGESTORE" -> MergeZrangeStore(parts, c)
      [] c.cmd = "ZUNION" -> MergeZunion(parts, c)
      [] c.cmd = "ZINTER" -> MergeZinter(parts, c)
      [] c.cmd = "ZINTERCARD" -> MergeZinterCard(parts, c)
      [] c.cmd = "ZDIFF" -> MergeZdiff(parts, c)
      [] c.cmd = "ZMPOP" -> MergeZmpop(parts, c)
=============================================================================
