-------------------------------- MODULE Keys --------------------------------
(***************************************************************************)
(* The commands on keys of any type (commands/exec/keys.rs).  SCAN and RM, *)
(* which walk the whole table call by call, are the module Iteration.      *)
(***************************************************************************)
EXTENDS Hashes, Lists, ZSets

(* DEL and UNLINK do not look the keys up: a dead value counts.  EXISTS,   *)
(* TOUCH and STICK do.                                                     *)
CountingFold(db, c, owned, step(_, _), hit(_, _)) ==
    LET f(r, i) == [db |-> step(r.db, c.ks[i]), n |-> r.n + (IF hit(r.db, c.ks[i]) THEN 1 ELSE 0)]
        r == FoldLeft(f, [db |-> db, n |-> 0], InOrder(owned))
    IN  Ok(r.db, Num(r.n))
ExecDel(db, c, owned, now) == CountingFold(db, c, owned, RemoveKey, Holds)
ExecExists(db, c, owned, now) ==
    LET step(d, k) == Find(d, k, now)
        hit(d, k) == Holds(Find(d, k, now), k)
    IN  CountingFold(db, c, owned, step, hit)
ExecStick(db, c, owned, now) ==
    LET step(d, k) == SetSticky(d, k, now)
        hit(d, k) == k \in SetSticky(d, k, now).sticky \ d.sticky
    IN  CountingFold(db, c, owned, step, hit)
(* Mutant: the first shard answers for all.                                *)
MergeSumFirst(parts, c) == IF AnyErr(parts) THEN MergedErr ELSE Merged(parts[1].reply)
MergeSum(parts, c) ==
    IF AnyErr(parts) THEN MergedErr
    ELSE Merged(Num(FoldLeft(LAMBDA n, p : n + p.reply[2], 0, parts)))

(* DELEX: without a condition DEL, else a comparison with the string.      *)
ExecDelex(db, c, now) ==
    LET d == Find(db, c.k, now)
        found(s) == IF (s = c.v) # c.negate THEN Ok(RemoveKey(d, c.k), Num(1)) ELSE Ok(d, Num(0))
    IN  IF ~c.cond THEN Ok(RemoveKey(db, c.k), Num(IF Holds(db, c.k) THEN 1 ELSE 0))
        ELSE OnString(d, c.k, Ok(d, Num(0)), found)

(* The EXPIRE family: c.t in milliseconds, absolute or relative.           *)
ExpireSatisfied(d, c, at) ==
    LET cur == d.exp[c.k]
        has == cur # NoExpiry
    IN  \/ ~c.nx /\ ~c.xx /\ ~c.gt /\ ~c.lt
        \/ c.nx /\ ~has
        \/ c.xx /\ has
        \/ c.lt /\ (has => at < cur)
        \/ c.gt /\ has /\ at > cur
ExecExpire(db, c, now) ==
    LET d == Find(db, c.k, now)
        at == IF c.abs THEN c.t ELSE IF c.t <= 0 THEN 0 ELSE now + Least(c.t, MaxDeadline)
    IN  IF (c.nx /\ c.xx) \/ (c.gt /\ c.lt) \/ (c.abs /\ at - now > MaxDeadline) THEN Err(db)
        ELSE IF ~Holds(d, c.k) \/ ~ExpireSatisfied(d, c, at) THEN Ok(d, Num(0))
        ELSE Ok(SetExpiry(d, c.k, IF at < 0 THEN 0 ELSE at, now), Num(1))

Rounded(ms) == (ms + SecMs \div 2) \div SecMs
ExecTtl(db, c, now) ==
    LET t == TtlMs(db, c.k, now)
    IN  Ok(Find(db, c.k, now), Num(IF t < 0 \/ c.inMs THEN t ELSE Rounded(t)))
ExecExpireTime(db, c, now) ==
    LET d == Find(db, c.k, now)
        at == d.exp[c.k]
    IN  Ok(d, Num(IF ~Holds(d, c.k) THEN -2
                  ELSE IF at = NoExpiry THEN -1 ELSE IF c.inMs THEN at ELSE Rounded(at)))
ExecPersist(db, c, now) ==
    LET d == Find(db, c.k, now)
    IN  IF Holds(d, c.k) /\ d.exp[c.k] # NoExpiry THEN Ok(ClearExpiry(d, c.k), Num(1)) ELSE Ok(d, Num(0))
ExecType(db, c, now) == LET d == Find(db, c.k, now) IN Ok(d, <<"type", TypeOf(d.val[c.k])>>)

(* DUMP and RESTORE.  A payload is the value it encodes, or one that       *)
(* expired before it was read, or bad.                                     *)
BadPayload == [bad |-> TRUE]
ExpiredPayload == [expired |-> TRUE]
ExecDump(db, c, now) ==
    LET d == Find(db, c.k, now) IN Ok(d, IF Holds(d, c.k) THEN <<"dump", d.val[c.k]>> ELSE Nil)
(* Mutant: REPLACE removes the key before the payload is decoded.          *)
ExecRestoreEarly(db, c, now) ==
    LET d == IF c.replace THEN RemoveKey(db, c.k) ELSE Find(db, c.k, now)
        put == Insert(d, c.k, c.payload)
    IN  IF c.ttl < 0 THEN Err(db)
        ELSE IF Holds(d, c.k) \/ c.payload = BadPayload THEN Err(d)
        ELSE IF c.payload = ExpiredPayload THEN Ok(d, OkReply)
        ELSE Ok(IF c.ttl > 0 THEN SetExpiry(put, c.k, IF c.absttl THEN c.ttl ELSE now + c.ttl, now) ELSE put, OkReply)
ExecRestore(db, c, now) ==
    LET d == Find(db, c.k, now)
        cleared == IF c.replace THEN RemoveKey(d, c.k) ELSE d
        put == Insert(cleared, c.k, c.payload)
        at == IF c.absttl THEN c.ttl ELSE now + c.ttl
    IN  IF c.ttl < 0 THEN Err(db)
        ELSE IF ~c.replace /\ Holds(d, c.k) THEN Err(d)
        ELSE IF c.payload = BadPayload THEN Err(IF c.replace THEN db ELSE d)
        ELSE IF c.payload = ExpiredPayload THEN Ok(IF c.replace THEN db ELSE d, OkReply)
        ELSE Ok(IF c.ttl > 0 THEN SetExpiry(put, c.k, at, now) ELSE put, OkReply)

(* KEYS and RANDOMKEY walk the table: dead keys included.                  *)
ExecKeys(db, c) == Ok(db, Members({k \in c.match : Holds(db, k)}))
MergeConcat(parts, c) == Merged(Members(UNION {parts[i].reply[2] : i \in DOMAIN parts}))
ExecRandomKey(db, c) ==
    LET held == {k \in Key : Holds(db, k)} IN Ok(db, IF held = {} THEN Nil ELSE <<"oneOf", held>>)
MergeRand(parts, c) ==
    LET full == {i \in DOMAIN parts : parts[i].reply # Nil}
    IN  Merged(IF full = {} THEN Nil ELSE parts[CHOOSE i \in full : \A j \in full : i <= j].reply)

(***************************************************************************)
(* RENAME, RENAMENX and COPY: c.ks are source and destination.  On one     *)
(* shard the value is written and then its expiry; across shards both are  *)
(* handed to the coordinator.                                              *)
(***************************************************************************)
WriteWithExpiry(d, k, v, at, sticky, now) ==
    LET i == Insert(d, k, v)
    IN  SetStickyFlag(IF at # NoExpiry THEN SetExpiry(i, k, at, now) ELSE ClearExpiry(i, k), k, sticky)
Bit(b) == Num(IF b THEN 1 ELSE 0)

ExecRename(db, c, owned, now) ==
    LET src == c.ks[1]
        dst == c.ks[2]
        done == IF c.nx THEN Num(1) ELSE OkReply
        t == Find(db, dst, now)
        d == Find(db, src, now)
        e == IF c.nx THEN Find(d, dst, now) ELSE d
    IN  IF 1 \notin owned THEN Ok(t, Bit(Holds(t, dst)))
        ELSE IF ~Holds(d, src) THEN Err(d)
        ELSE IF src = dst THEN Ok(d, IF c.nx THEN Num(0) ELSE OkReply)
        ELSE IF 2 \notin owned
        THEN Deferred(d, <<Store(src, Absent, NoExpiry, FALSE),
                           Store(dst, d.val[src], d.exp[src], src \in d.sticky)>>, done)
        ELSE IF c.nx /\ Holds(e, dst) THEN Ok(e, Num(0))
        ELSE Ok(WriteWithExpiry(RemoveKey(e, src), dst, e.val[src], e.exp[src], src \in e.sticky, now),
                done)
ExecCopy(db, c, owned, now) ==
    LET src == c.ks[1]
        dst == c.ks[2]
        t == Find(db, dst, now)
        d == Find(db, src, now)
        e == Find(d, dst, now)
    IN  IF src = dst THEN Err(db)
        ELSE IF 1 \notin owned THEN Ok(t, Bit(Holds(t, dst)))
        ELSE IF ~Holds(d, src) THEN Ok(d, Num(0))
        ELSE IF 2 \notin owned
        THEN Deferred(d, <<Store(dst, d.val[src], d.exp[src], src \in d.sticky)>>, Num(1))
        ELSE IF Holds(e, dst) /\ ~c.replace THEN Ok(e, Num(0))
        ELSE Ok(WriteWithExpiry(e, dst, e.val[src], e.exp[src], src \in e.sticky, now), Num(1))

(* The merges: an error, a destination in the way, the source's plan, and  *)
(* without one whatever the first shard answered.                          *)
MergePlan(parts, c, blocked) ==
    LET dstExists == \E p \in Range(parts) : 2 \in p.owned /\ p.reply = Num(1) /\ p.stores = <<>>
        plans == {i \in DOMAIN parts : parts[i].stores # <<>>}
        plan == parts[CHOOSE i \in plans : TRUE]
    IN  IF AnyErr(parts) THEN MergedErr
        ELSE IF blocked /\ dstExists THEN Merged(Num(0))
        ELSE IF plans # {} THEN MergedStore(plan.stores, plan.reply)
        ELSE Merged(parts[1].reply)
MergeRename(parts, c) == MergePlan(parts, c, c.nx)
MergeCopy(parts, c) == MergePlan(parts, c, ~c.replace)

(* MOVE runs on the shard with both databases in hand.                     *)
MoveKey(src, dst, k, now) ==
    LET s == Find(src, k, now)
        d == IF Holds(s, k) THEN Find(dst, k, now) ELSE dst
        t == Take(s, k, now)
        i == Insert(d, k, t.val)
        e == IF t.exp # NoExpiry THEN SetExpiry(i, k, t.exp, now) ELSE i
    IN  IF ~Holds(s, k) \/ Holds(d, k) THEN [src |-> s, dst |-> d, reply |-> Num(0)]
        ELSE [src |-> t.db, dst |-> SetStickyFlag(e, k, t.sticky), reply |-> Num(1)]

(***************************************************************************)
(* SORT: c.ks[1] is the source, c.ks[2], if c.store, the destination.      *)
(* c.by is "self", "none" (no sorting) or "key": then c.pat maps an        *)
(* element to the key to sort by.  c.gets lists what to return per         *)
(* element: "#" the element, "key" the string at c.pat of it.              *)
(***************************************************************************)
Elements(d, k) ==
    LET v == d.val[k]
    IN  CASE v = Absent -> <<>>
          [] IsList(v) -> v.list
          [] IsSet(v) -> Sorted(v.set.mem)
          [] IsZSet(v) -> ZOrder(v.zset)
FetchElements(db, k, now) == PruneSetKey(db, k, now)
LookedUp(d, ks, now) == FoldLeft(LAMBDA a, k : Find(a, k, now), d, ks)
LocalString(d, k) == IF Holds(d, k) /\ IsStr(d.val[k]) THEN d.val[k].str ELSE <<>>
SortNumber(s) == IF s = <<>> THEN 0 ELSE Signed(s)

SortOrder(el, key, c) ==
    LET num == [i \in DOMAIN el |-> IF c.alpha THEN 0 ELSE SortNumber(key[i])]
        less(i, j) == num[i] < num[j] \/ (num[i] = num[j] /\ LexLess(key[i], key[j]))
        before(i, j) ==
            \/ IF c.desc THEN less(j, i) ELSE less(i, j)
            \/ key[i] = key[j] /\ i < j
    IN  SetToSortSeq(DOMAIN el, before)
(* The sort key of every element, up to the first that is not a number.    *)
SortKeys(d, el, ext, c, now) ==
    LET keys(e) == [i \in DOMAIN el |-> IF c.by = "key" THEN LocalString(e, ext[i]) ELSE el[i]]
        odd(key) == {i \in DOMAIN key : /\ ~c.alpha /\ c.by # "none"
                                        /\ key[i] # <<>> /\ Magnitude(key[i]) < 0}
        read(e, key, bad) ==
            [db |-> IF c.by = "key" /\ bad # {} THEN LookedUp(d, SubSeq(ext, 1, Min(bad)), now) ELSE e,
             key |-> key, ok |-> bad = {}]
    IN  With(IF c.by = "key" THEN LookedUp(d, ext, now) ELSE d, LAMBDA e :
            With(keys(e), LAMBDA key : read(e, key, odd(key))))
(* The rows of the GET clauses, and where they go.                         *)
SortRows(d, el, ext, order, c) ==
    LET row(i) == IF c.gets = <<>> THEN <<el[i]>>
                  ELSE [j \in DOMAIN c.gets |-> IF c.gets[j] = "#" THEN el[i] ELSE LocalString(d, ext[i])]
    IN  FlattenSeq([n \in DOMAIN order |-> row(order[n])])
SortStore(d, out, c, owned) ==
    LET dest == c.ks[2]
        v == IF out = <<>> THEN Absent ELSE List(out)
    IN  IF ~c.store THEN Ok(d, Arr(out))
        ELSE IF 2 \notin owned THEN Deferred(d, <<Store(dest, v, NoExpiry, FALSE)>>, Num(Len(out)))
        ELSE Ok(IF v = Absent THEN RemoveKey(d, dest) ELSE Insert(ClearExpiry(d, dest), dest, v),
                Num(Len(out)))
SortElements(d, el, c, owned, now) ==
    LET ext == [i \in DOMAIN el |-> c.pat[el[i]]]
        order(key) == IF c.by = "none" THEN [i \in DOMAIN el |-> i] ELSE SortOrder(el, key, c)
        rows(e, key) == SortRows(e, el, ext, Sliced(order(key), c.off, c.cnt), c)
    IN  With(SortKeys(d, el, ext, c, now), LAMBDA s :
            IF ~s.ok THEN Err(s.db)
            ELSE With(IF "key" \in Range(c.gets) THEN LookedUp(s.db, ext, now) ELSE s.db,
                      LAMBDA e : SortStore(e, rows(e, s.key), c, owned)))
ExecSort(db, c, owned, now) ==
    LET src == c.ks[1]
    IN  With(Find(db, src, now), LAMBDA d :
            IF 1 \notin owned \/ ~Holds(d, src) THEN Ok(d, Arr(<<>>))
            ELSE IF TypeOf(d.val[src]) \notin {"list", "set", "zset"} THEN Err(d)
            ELSE With(FetchElements(d, src, now), LAMBDA e :
                    SortElements(e, Elements(e, src), c, owned, now)))
MergeSort(parts, c) ==
    LET src == PartOf(parts, 1)
    IN  IF AnyErr(parts) THEN MergedErr ELSE MergedStore(src.stores, src.reply)

(***************************************************************************)
(* FIELDEXPIRE and FIELDTTL, on the members of a set or the fields of a    *)
(* hash.                                                                   *)
(***************************************************************************)
PruneFieldsKey(db, k, now) == PruneHashKey(PruneSetKey(db, k, now), k, now)
HasField(v, f) == IF IsSet(v) THEN f \in v.set.mem ELSE IF IsHash(v) THEN f \in DOMAIN v.hash.f ELSE FALSE
ArmField(v, f, at) ==
    IF IsSet(v) THEN [v EXCEPT !.set.exp = (f :> at) @@ @] ELSE [v EXCEPT !.hash.exp = (f :> at) @@ @]
ExecFieldExpire(db, c, now) ==
    LET arm(w, f) == IF HasField(w, f) THEN ArmField(w, f, now + c.ttl * SecMs) ELSE w
        armed(d, v) ==
            Ok(WriteThrough(d, c.k, FoldLeft(arm, v, c.fs)),
               Arr([i \in DOMAIN c.fs |-> Num(IF HasField(v, c.fs[i]) THEN 1 ELSE -2)]))
    IN  IF c.ttl \notin 1..MaxSec THEN Err(db)
        ELSE With(PruneFieldsKey(Find(db, c.k, now), c.k, now), LAMBDA d : armed(d, d.val[c.k]))

(* An emptied key is gone, but its missing field is answered as one.       *)
ExecFieldTtl(db, c, now) ==
    LET found == Find(db, c.k, now)
        d == PruneFieldsKey(found, c.k, now)
        v == d.val[c.k]
        exp == IF IsSet(v) THEN v.set.exp ELSE v.hash.exp
    IN  IF ~Holds(found, c.k) THEN Ok(found, Num(-2))
        ELSE IF TypeOf(found.val[c.k]) \notin {"set", "hash"} THEN Err(found)
        ELSE Ok(d, Num(IF ~HasField(v, c.f) THEN -3
                       ELSE IF c.f \notin DOMAIN exp THEN -1
                       ELSE exp[c.f] \div SecMs - now \div SecMs))

(* The flags of the commands, and what the registry runs and merges for    *)
(* each; KEYS and RANDOMKEY run on every shard.                            *)
KeyReads == {"EXISTS", "TTL", "EXPIRETIME", "TYPE", "DUMP", "KEYS", "RANDOMKEY", "FIELDTTL"}
ExecKeyCmd(db, c, owned, now) ==
    CASE c.cmd = "DELEX" -> ExecDelex(db, c, now)
      [] c.cmd = "EXPIRE" -> ExecExpire(db, c, now)
      [] c.cmd = "TTL" -> ExecTtl(db, c, now)
      [] c.cmd = "EXPIRETIME" -> ExecExpireTime(db, c, now)
      [] c.cmd = "PERSIST" -> ExecPersist(db, c, now)
      [] c.cmd = "TYPE" -> ExecType(db, c, now)
      [] c.cmd = "DUMP" -> ExecDump(db, c, now)
      [] c.cmd = "RESTORE" -> ExecRestore(db, c, now)
      [] c.cmd = "FIELDEXPIRE" -> ExecFieldExpire(db, c, now)
      [] c.cmd = "FIELDTTL" -> ExecFieldTtl(db, c, now)
      [] c.cmd = "DEL" -> ExecDel(db, c, owned, now)
      [] c.cmd = "EXISTS" -> ExecExists(db, c, owned, now)
      [] c.cmd = "STICK" -> ExecStick(db, c, owned, now)
      [] c.cmd = "RENAME" -> ExecRename(db, c, owned, now)
      [] c.cmd = "COPY" -> ExecCopy(db, c, owned, now)
      [] c.cmd = "SORT" -> ExecSort(db, c, owned, now)
      [] c.cmd = "KEYS" -> ExecKeys(db, c)
      [] c.cmd = "RANDOMKEY" -> ExecRandomKey(db, c)
MergeKeyCmd(parts, c) ==
    CASE c.cmd = "KEYS" -> MergeConcat(parts, c)
      [] c.cmd = "RANDOMKEY" -> MergeRand(parts, c)
      [] c.cmd = "RENAME" -> MergeRename(parts, c)
      [] c.cmd = "COPY" -> MergeCopy(parts, c)
      [] c.cmd = "SORT" -> MergeSort(parts, c)
      [] c.cmd \in {"DEL", "EXISTS", "STICK"} -> MergeSum(parts, c)
=============================================================================
