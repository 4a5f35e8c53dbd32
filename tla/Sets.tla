-------------------------------- MODULE Sets --------------------------------
(***************************************************************************)
(* The set commands (commands/exec/sets.rs) and the set type under them    *)
(* (core/set.rs).  A set value has its members and a map from members to   *)
(* the times they expire; the map may name members that are gone.          *)
(***************************************************************************)
EXTENDS Strings

SetVal(mem, exp) == [set |-> [mem |-> mem, exp |-> exp]]
NoExp == <<>>
IsSet(v) == TypeOf(v) = "set"
PlainSet(mem) == IF mem = {} THEN Absent ELSE SetVal(mem, NoExp)

(* `Set::add` and `Set::remove` leave the expiry map alone, `pop_random`   *)
(* too; `add_expirable` writes it; `prune_expired` clears what has passed. *)
AddMember(s, m) == [s EXCEPT !.mem = @ \cup {m}]
DropMember(s, m) == [s EXCEPT !.mem = @ \ {m}]
AddExpirable(s, m, at, keepttl) ==
    [mem |-> s.mem \cup {m},
     exp |-> IF m \in s.mem /\ keepttl THEN s.exp ELSE (m :> at) @@ s.exp]
PruneSet(s, now) ==
    LET dead == {m \in DOMAIN s.exp : s.exp[m] <= now}
    IN  [mem |-> s.mem \ dead, exp |-> Restrict(s.exp, DOMAIN s.exp \ dead)]

(* Members in the order of their bytes.                                    *)
LexLess(a, b) ==
    \/ \E i \in 1..Len(a) :
        /\ i <= Len(b) /\ a[i] < b[i]
        /\ \A j \in 1..(i - 1) : a[j] = b[j]
    \/ Len(a) < Len(b) /\ IsPrefix(a, b)
Sorted(s) == SetToSortSeq(s, LexLess)

(* `set_mut`: the set at k pruned in place, possibly left empty.           *)
SetMut(db, k, now) ==
    With(Find(db, k, now), LAMBDA d :
        IF Holds(d, k) /\ IsSet(d.val[k])
        THEN WriteThrough(d, k, [set |-> PruneSet(d.val[k].set, now)]) ELSE d)

(* `prune_set_key`: as `set_mut`, and a set pruned empty is removed.       *)
PruneSetKey(db, k, now) ==
    With(SetMut(db, k, now), LAMBDA d :
        IF Holds(d, k) /\ IsSet(d.val[k]) /\ d.val[k].set.mem = {}
        THEN RemoveKey(d, k) ELSE d)
WrongSet(d, k) == Holds(d, k) /\ ~IsSet(d.val[k])
MembersAt(d, k) == IF Holds(d, k) THEN d.val[k].set.mem ELSE {}

(* `ensure_set`, then a change through the reference it returns.           *)
EnsureSet(db, k, now) ==
    With(Find(db, k, now), LAMBDA d :
        SetMut(IF Holds(d, k) THEN d ELSE Insert(d, k, SetVal({}, NoExp)), k, now))

ExecSadd(db, c, now) ==
    With(EnsureSet(db, c.k, now), LAMBDA d :
        IF WrongSet(d, c.k) THEN Err(d)
        ELSE Ok(WriteThrough(d, c.k, [set |-> FoldLeft(AddMember, d.val[c.k].set, c.ms)]),
                Num(Cardinality(Range(c.ms) \ d.val[c.k].set.mem))))

ExecSaddEx(db, c, now) ==
    LET add(t, m) == AddExpirable(t, m, now + c.ttl * SecMs, c.keepttl)
    IN  IF c.ttl \notin 1..(MaxDeadline \div SecMs) THEN Err(db)
        ELSE With(EnsureSet(SetMut(db, c.k, now), c.k, now), LAMBDA d :
                IF WrongSet(d, c.k) THEN Err(d)
                ELSE Ok(WriteThrough(d, c.k, [set |-> FoldLeft(add, d.val[c.k].set, c.ms)]),
                        Num(Cardinality(Range(c.ms) \ d.val[c.k].set.mem))))

(* What is left of a set after a removal; the last member takes the key.   *)
Leave(d, k, left) ==
    IF left.mem = {} THEN RemoveKey(d, k) ELSE WriteThrough(d, k, [set |-> left])

ExecSrem(db, c, now) ==
    With(SetMut(db, c.k, now), LAMBDA d :
        IF ~Holds(d, c.k) THEN Ok(d, Num(0))
        ELSE IF WrongSet(d, c.k) THEN Err(d)
        ELSE Ok(Leave(d, c.k, FoldLeft(DropMember, d.val[c.k].set, c.ms)),
                Num(Cardinality(Range(c.ms) \cap d.val[c.k].set.mem))))

(* The reads: `prune_set_key`, then the set or an empty one.               *)
ReadSet(db, k, answer(_), now) ==
    With(PruneSetKey(db, k, now), LAMBDA d :
        IF WrongSet(d, k) THEN Err(d) ELSE Ok(d, answer(MembersAt(d, k))))
ExecSmembers(db, c, now) == ReadSet(db, c.k, Members, now)
ExecSismember(db, c, now) ==
    LET answer(s) == Num(IF c.m \in s THEN 1 ELSE 0) IN ReadSet(db, c.k, answer, now)
ExecSmismember(db, c, now) ==
    LET answer(s) == Arr([i \in DOMAIN c.ms |-> Num(IF c.ms[i] \in s THEN 1 ELSE 0)])
    IN  ReadSet(db, c.k, answer, now)
ExecScard(db, c, now) ==
    LET answer(s) == Num(Cardinality(s)) IN ReadSet(db, c.k, answer, now)

(* SSCAN: a set of integers comes back whole; any other in pages of c.count*)
(* matching members, the cursor being a position in the sorted members.    *)
(* c.match is the set of strings the pattern matches.                      *)
ScanPage(sorted, cursor, count, match) ==
    LET start == Least(cursor, Len(sorted))
        taken(pos) == SelectSeq(SubSeq(sorted, start + 1, pos), LAMBDA m : m \in match)
        ends == {p \in start..Len(sorted) : p = Len(sorted) \/ Len(taken(p)) = count}
        upto(pos) == [next |-> IF pos >= Len(sorted) THEN 0 ELSE pos, items |-> taken(pos)]
    IN  upto(Min(ends))
ExecSscan(db, c, now) ==
    LET answer(s) ==
            IF \A m \in s : IsInt(m) THEN Arr(<<Num(0), Members(s \cap c.match)>>)
            ELSE With(ScanPage(Sorted(s), c.cursor, c.count, c.match), LAMBDA p :
                    Arr(<<Num(p.next), Arr(p.items)>>))
    IN  IF c.count < 1 THEN Err(db) ELSE ReadSet(db, c.k, answer, now)

(* The pseudo-random choices depend on the contents and on the order in    *)
(* which they are stored: any member may come first.  c.seed stands for    *)
(* the hash.  Without a count c.count is -1.                               *)
Rotated(s, seed) ==
    With(Sorted(s), LAMBDA q : [i \in DOMAIN q |-> q[((i - 1 + seed) % Len(q)) + 1]])
ExecSpop(db, c, now) ==
    LET n == IF c.count < 0 THEN 1 ELSE c.count
        out(s) == SubSeq(Rotated(s, c.seed), 1, Least(n, Cardinality(s)))
        none == IF c.count < 0 THEN Nil ELSE Members({})
        pop(d, s) == With(out(s.mem), LAMBDA ms :
            Ok(Leave(d, c.k, FoldLeft(DropMember, s, ms)),
               IF c.count < 0 THEN Bulk(ms[1]) ELSE Members(Range(ms))))
    IN  With(PruneSetKey(db, c.k, now), LAMBDA d :
            IF WrongSet(d, c.k) THEN Err(d)
            ELSE IF ~Holds(d, c.k) THEN Ok(d, none) ELSE pop(d, d.val[c.k].set))

(* A negative count asks for that many picks with repetition.              *)
ExecSrandmember(db, c, now) ==
    LET drawn(q) ==
            CASE ~c.counted -> IF q = <<>> THEN Nil ELSE Bulk(q[1])
              [] c.counted /\ q = <<>> -> Arr(<<>>)
              [] c.counted /\ q # <<>> /\ c.count < 0 ->
                    Arr([i \in 1..(-c.count) |-> q[((i * c.seed) % Len(q)) + 1]])
              [] c.counted /\ q # <<>> /\ c.count >= 0 -> Arr(SubSeq(q, 1, Least(c.count, Len(q))))
        answer(s) == drawn(Rotated(s, c.seed))
    IN  ReadSet(db, c.k, answer, now)

(***************************************************************************)
(* SINTER, SUNION, SDIFF.  The shard's own keys are pruned in order up to  *)
(* the first one of another type.                                          *)
(***************************************************************************)
PruneKeys(db, ks, idxs, now) ==
    LET step(r, i) ==
            IF ~r.ok THEN r
            ELSE With(PruneSetKey(r.db, ks[i], now), LAMBDA d :
                    [db |-> d, ok |-> ~WrongSet(d, ks[i])])
    IN  FoldLeft(step, [db |-> db, ok |-> TRUE], InOrder(idxs))

Inter(sets) == {m \in UNION sets : \A s \in sets : m \in s}
SourceSets(d, ks, idxs) == {MembersAt(d, ks[i]) : i \in idxs}

(* `inter_of` and `union_of`, over the sources this shard owns.            *)
InterOf(db, c, idxs, now) ==
    With(PruneKeys(db, c.ks, idxs, now), LAMBDA r :
        IF r.ok THEN Ok(r.db, Members(Inter(SourceSets(r.db, c.ks, idxs)))) ELSE Err(r.db))
UnionOf(db, c, idxs, now) ==
    With(PruneKeys(db, c.ks, idxs, now), LAMBDA r :
        IF r.ok THEN Ok(r.db, Members(UNION SourceSets(r.db, c.ks, idxs))) ELSE Err(r.db))

(* `diff_of`: a missing base ends it before the other sources are looked   *)
(* at; a shard without the base contributes what is to be taken away.  The *)
(* first key is the base of SDIFF and the destination of SDIFFSTORE.       *)
DiffOf(db, c, owned, base, now) ==
    LET rest == owned \ {base, 1}
        minus(from, r) == IF ~r.ok THEN Err(r.db)
                          ELSE Ok(r.db, Members(from \ UNION SourceSets(r.db, c.ks, rest)))
    IN  IF base \notin owned THEN UnionOf(db, c, owned \ {1}, now)
        ELSE With(PruneKeys(db, c.ks, {base}, now), LAMBDA b :
                IF ~b.ok THEN Err(b.db)
                ELSE IF ~Holds(b.db, c.ks[base]) THEN Ok(b.db, Members({}))
                ELSE minus(MembersAt(b.db, c.ks[base]), PruneKeys(b.db, c.ks, rest, now)))

(* `store_single` when the shard owns every key, else the part.            *)
StoreSingle(r, c, owned) ==
    LET mem == r.reply[2]
        dest == c.ks[1]
    IN  IF IsErr(r) \/ owned # DOMAIN c.ks THEN r
        ELSE Ok(IF mem = {} THEN RemoveKey(r.db, dest)
                ELSE Insert(ClearExpiry(r.db, dest), dest, PlainSet(mem)),
                Num(Cardinality(mem)))

ExecSinter(db, c, owned, now) == InterOf(db, c, owned, now)
ExecSunion(db, c, owned, now) == UnionOf(db, c, owned, now)
ExecSdiff(db, c, owned, now) == DiffOf(db, c, owned, 1, now)
ExecSinterStore(db, c, owned, now) == StoreSingle(InterOf(db, c, owned \ {1}, now), c, owned)
ExecSunionStore(db, c, owned, now) == StoreSingle(UnionOf(db, c, owned \ {1}, now), c, owned)
ExecSdiffStore(db, c, owned, now) == StoreSingle(DiffOf(db, c, owned, 2, now), c, owned)

(* SINTERCARD: the key range runs to the end of the arguments, so the      *)
(* LIMIT clause counts as keys; c.numkeys are real, c.limit 0 is no limit. *)
Limited(n, limit) == IF limit > 0 THEN Least(n, limit) ELSE n
ExecSinterCard(db, c, owned, now) ==
    LET real == owned \cap 1..c.numkeys
        answer(r) == IF IsErr(r) THEN r
                     ELSE IF owned = DOMAIN c.ks
                     THEN Ok(r.db, Num(Limited(Cardinality(r.reply[2]), c.limit)))
                     ELSE IF real = {} THEN Ok(r.db, Nil) ELSE r
    IN  IF c.numkeys = 0 \/ Len(c.ks) < c.numkeys THEN Err(db)
        ELSE answer(InterOf(db, c, real, now))

(* The merges.  An intersection stops at the first part that is empty or   *)
(* an error, whichever comes first in shard order.                         *)
MergeInter(parts, sources(_), done(_)) ==
    LET src == SelectSeq(parts, sources)
        stops == {i \in DOMAIN src : IsErr(src[i]) \/ src[i].reply[2] = {}}
        first == CHOOSE i \in stops : \A j \in stops : i <= j
    IN  IF stops # {} /\ IsErr(src[first]) THEN MergedErr
        ELSE IF stops # {} THEN done({})
        ELSE done(Inter({src[i].reply[2] : i \in DOMAIN src}))
MergeUnion(parts, done(_)) ==
    IF AnyErr(parts) THEN MergedErr ELSE done(UNION {parts[i].reply[2] : i \in DOMAIN parts})
MergeDiff(parts, base, done(_)) ==
    LET b == PartOf(parts, base).reply[2]
        others == {parts[i].reply[2] : i \in {j \in DOMAIN parts : base \notin parts[j].owned}}
    IN  IF AnyErr(parts) THEN MergedErr ELSE done(b \ UNION others)

AsArray(mem) == Merged(Members(mem))
StoreMembers(c, mem) ==
    MergedStore(<<Store(c.ks[1], PlainSet(mem), NoExpiry, FALSE)>>, Num(Cardinality(mem)))
MergeSinter(parts, c) == LET all(p) == TRUE IN MergeInter(parts, all, AsArray)
MergeSunion(parts, c) == MergeUnion(parts, AsArray)
MergeSdiff(parts, c) == MergeDiff(parts, 1, AsArray)
MergeSinterStore(parts, c) ==
    LET source(p) == p.owned # {1}
        done(mem) == StoreMembers(c, mem)
    IN  MergeInter(parts, source, done)
MergeSunionStore(parts, c) == LET done(mem) == StoreMembers(c, mem) IN MergeUnion(parts, done)
MergeSdiffStore(parts, c) == LET done(mem) == StoreMembers(c, mem) IN MergeDiff(parts, 2, done)
MergeSinterCard(parts, c) ==
    LET source(p) == p.owned \cap 1..c.numkeys # {}
        done(mem) == Merged(Num(Limited(Cardinality(mem), c.limit)))
    IN  IF AnyErr(parts) THEN MergedErr ELSE MergeInter(parts, source, done)

(***************************************************************************)
(* SMOVE: on one shard both sets are copied, changed and put back.  The    *)
(* test for one and the same key compares the positions of the arguments,  *)
(* which always differ.                                                    *)
(***************************************************************************)
ExecSmove(db, c, owned, now) ==
    LET src == c.ks[1]
        dst == c.ks[2]
        to(d) == IF Holds(d, dst) THEN d.val[dst].set ELSE [mem |-> {}, exp |-> NoExp]
        drop(d, left) == IF left.mem = {} THEN RemoveKey(d, src) ELSE Insert(d, src, [set |-> left])
        move(d) == IF c.m \notin MembersAt(d, src) THEN Ok(d, Num(0))
                   ELSE Ok(Insert(drop(d, DropMember(d.val[src].set, c.m)), dst,
                                  [set |-> AddMember(to(d), c.m)]), Num(1))
    IN  With(PruneKeys(db, c.ks, owned, now), LAMBDA r :
            IF ~r.ok THEN Err(r.db)
            ELSE IF owned = {1, 2} THEN move(r.db)
            ELSE IF owned = {1} /\ ~Holds(r.db, src) THEN Ok(r.db, Nil)
            ELSE Ok(r.db, Members(MembersAt(r.db, IF owned = {1} THEN src ELSE dst))))

(* Across shards the two sets are rebuilt from their members alone.        *)
MergeSmove(parts, c) ==
    LET src == PartOf(parts, 1).reply
        dst == PartOf(parts, 2).reply[2]
    IN  IF AnyErr(parts) THEN MergedErr
        ELSE IF src = Nil \/ c.m \notin src[2] THEN Merged(Num(0))
        ELSE MergedStore(<<Store(c.ks[1], PlainSet(src[2] \ {c.m}), NoExpiry, FALSE),
                           Store(c.ks[2], PlainSet(dst \cup {c.m}), NoExpiry, FALSE)>>, Num(1))

(* The flags of the commands, and what the registry runs and merges for    *)
(* each.                                                                   *)
SetReads == {"SMEMBERS", "SISMEMBER", "SMISMEMBER", "SCARD", "SSCAN", "SRANDMEMBER",
             "SINTER", "SUNION", "SDIFF", "SINTERCARD"}
ExecSets(db, c, owned, now) ==
    CASE c.cmd = "SADD" -> ExecSadd(db, c, now)
      [] c.cmd = "SADDEX" -> ExecSaddEx(db, c, now)
      [] c.cmd = "SREM" -> ExecSrem(db, c, now)
      [] c.cmd = "SMEMBERS" -> ExecSmembers(db, c, now)
      [] c.cmd = "SISMEMBER" -> ExecSismember(db, c, now)
      [] c.cmd = "SMISMEMBER" -> ExecSmismember(db, c, now)
      [] c.cmd = "SCARD" -> ExecScard(db, c, now)
      [] c.cmd = "SSCAN" -> ExecSscan(db, c, now)
      [] c.cmd = "SPOP" -> ExecSpop(db, c, now)
      [] c.cmd = "SRANDMEMBER" -> ExecSrandmember(db, c, now)
      [] c.cmd = "SINTER" -> ExecSinter(db, c, owned, now)
      [] c.cmd = "SUNION" -> ExecSunion(db, c, owned, now)
      [] c.cmd = "SDIFF" -> ExecSdiff(db, c, owned, now)
      [] c.cmd = "SINTERSTORE" -> ExecSinterStore(db, c, owned, now)
      [] c.cmd = "SUNIONSTORE" -> ExecSunionStore(db, c, owned, now)
      [] c.cmd = "SDIFFSTORE" -> ExecSdiffStore(db, c, owned, now)
      [] c.cmd = "SINTERCARD" -> ExecSinterCard(db, c, owned, now)
      [] c.cmd = "SMOVE" -> ExecSmove(db, c, owned, now)
MergeSets(parts, c) ==
    CASE c.cmd = "SINTER" -> MergeSinter(parts, c)
      [] c.cmd = "SUNION" -> MergeSunion(parts, c)
      [] c.cmd = "SDIFF" -> MergeSdiff(parts, c)
      [] c.cmd = "SINTERSTORE" -> MergeSinterStore(parts, c)
      [] c.cmd = "SUNIONSTORE" -> MergeSunionStore(parts, c)
      [] c.cmd = "SDIFFSTORE" -> MergeSdiffStore(parts, c)
      [] c.cmd = "SINTERCARD" -> MergeSinterCard(parts, c)
      [] c.cmd = "SMOVE" -> MergeSmove(parts, c)
=============================================================================
