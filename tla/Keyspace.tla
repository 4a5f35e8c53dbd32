------------------------------ MODULE Keyspace ------------------------------
(***************************************************************************)
(* One database under the commands of the type families: what a sequence   *)
(* of commands, with time passing between them, can make of it.            *)
(*                                                                         *)
(* A step runs one command on the shard that owns all of its keys, the     *)
(* path `dispatch_keyed` takes when it can.  Sharded is the general path,  *)
(* in which every shard runs the command on the keys it owns and the       *)
(* coordinator merges the parts and stores what they deferred; with one    *)
(* shard for all keys there is one part and, mostly, nothing to merge.     *)
(***************************************************************************)
EXTENDS Keys, Iteration, BitOps, Geo, Streams, Json, Cuckoo, Sketches, HyperLogLog

CONSTANTS
    Commands,      \* Commands[f]: the commands of the family f to run
    MaxTime,       \* the last instant of the model
    MaxSize        \* how large a step may leave a value

VARIABLES
    family,        \* the family under test
    dbs,           \* two databases; commands run on the first, MOVE on both
    now            \* the shard's clock, in milliseconds

vars == <<family, dbs, now>>
db == dbs[1]
Cmds == Commands[family]

(* The registry: from a command to the executor and the merge.             *)
ExecOf(d, c, owned, t) ==
    CASE c.fam = "string" -> ExecString(d, c, owned, t)
      [] c.fam = "list" -> ExecList(d, c, owned, t)
      [] c.fam = "set" -> ExecSets(d, c, owned, t)
      [] c.fam = "hash" -> ExecHashes(d, c, t)
      [] c.fam = "zset" -> ExecZSets(d, c, owned, t)
      [] c.fam = "key" -> ExecKeyCmd(d, c, owned, t)
      [] c.fam = "bit" -> ExecBits(d, c, owned, t)
      [] c.fam = "geo" -> ExecGeo(d, c, owned, t)
      [] c.fam = "stream" -> ExecStreams(d, c, owned, t)
      [] c.fam = "json" -> ExecJson(d, c, owned, t)
      [] c.fam = "bloom" -> ExecBloom(d, c, t)
      [] c.fam = "cuckoo" -> ExecCuckoo(d, c, t)
      [] c.fam = "cms" -> ExecCms(d, c, owned, t)
      [] c.fam = "topk" -> ExecTopk(d, c, t)
      [] c.fam = "hll" -> ExecHll(d, c, owned, t)
MergeOf(parts, c) ==
    CASE c.fam = "string" -> MergeString(parts, c)
      [] c.fam = "list" -> MergeList(parts, c)
      [] c.fam = "set" -> MergeSets(parts, c)
      [] c.fam = "zset" -> MergeZSets(parts, c)
      [] c.fam = "key" -> MergeKeyCmd(parts, c)
      [] c.fam = "bit" -> MergeBits(parts, c)
      [] c.fam = "geo" -> MergeGeo(parts, c)
      [] c.fam = "stream" -> MergeRead(parts, c)
      [] c.fam = "json" -> MergeJson(parts, c)
      [] c.fam = "cms" -> MergeCmsMerge(parts, c)
      [] c.fam = "hll" -> MergeHll(parts, c)

KeysOf(c) == IF "ks" \in DOMAIN c THEN c.ks ELSE IF "k" \in DOMAIN c THEN <<c.k>> ELSE <<>>

(* FLAG_BLOCKING: the coordinator runs these even when one shard has all   *)
(* of the keys, so that shard's part is merged too.                        *)
Blocking(c) == c.cmd \in {"XREAD", "XREADGROUP"} \/ ("blocking" \in DOMAIN c /\ c.blocking)
Outcome(parts, c) ==
    IF Len(parts) = 1 /\ ~Blocking(c) THEN parts[1]
    ELSE IF \A i \in DOMAIN parts : parts[i].reply = BlockedReply THEN Merged(BlockedReply)
    ELSE MergeOf(parts, c)
Stored(d, o, t) ==
    LET put(e, w) == StoreValue(e, w.key, w.val, w.at, w.sticky, t)
    IN  [db |-> FoldLeft(put, d, o.stores), reply |-> o.reply, stores |-> o.stores]

(***************************************************************************)
(* The command spread over shards: owner says which shard has a key.       *)
(***************************************************************************)
SliceOf(d, owner, s) ==
    LET mine(k) == owner[k] = s
    IN  [val |-> [k \in Key |-> IF mine(k) THEN d.val[k] ELSE Absent],
         exp |-> [k \in Key |-> IF mine(k) THEN d.exp[k] ELSE NoExpiry],
         sticky |-> {k \in d.sticky : mine(k)}, modified |-> {}]
Joined(d, slice, mine) ==
    [val |-> [k \in Key |-> IF k \in mine THEN slice.val[k] ELSE d.val[k]],
     exp |-> [k \in Key |-> IF k \in mine THEN slice.exp[k] ELSE d.exp[k]],
     sticky |-> (d.sticky \ mine) \cup (slice.sticky \cap mine),
     modified |-> (d.modified \ mine) \cup (slice.modified \cap mine)]
Sharded(d, c, owner, t) ==
    LET ks == KeysOf(c)
        shards == IF ks = <<>> THEN Range(owner) ELSE {owner[ks[i]] : i \in DOMAIN ks}
        owned(s) == {i \in DOMAIN ks : owner[ks[i]] = s}
        ran(all, s, r) == [db |-> Joined(all.db, r.db, {k \in Key : owner[k] = s}),
                           parts |-> Append(all.parts, [owned |-> owned(s), reply |-> r.reply, stores |-> r.stores])]
        merged(all) == Stored(all.db, Outcome(all.parts, c), t)
    IN  merged(FoldLeft(LAMBDA all, s : ran(all, s, ExecOf(SliceOf(d, owner, s), c, owned(s), t)),
                        [db |-> d, parts |-> <<>>], InOrder(shards)))
Here == [k \in Key |-> 0]
Run(d, c, t) == Sharded(d, c, Here, t)

-----------------------------------------------------------------------------
Size(v) ==
    CASE IsStr(v) -> IF Validness(v.str) = "invalid" THEN Len(v.str) ELSE Len(v.str) - HdrLen - Registers
      [] IsList(v) -> Len(v.list)
      [] IsSet(v) -> Cardinality(v.set.mem)
      [] IsHash(v) -> Cardinality(Fields(v.hash))
      [] IsZSet(v) -> Cardinality(DOMAIN v.zset)
      [] IsStream(v) -> EntriesAdded(v.stream)
      [] IsSbf(v) -> Len(v.sbf.filters) - 1
      [] IsCuckoo(v) -> Len(v.cuckoo.filters) + v.cuckoo.deletes
      [] IsCms(v) -> IF v.cms.count < 0 THEN -v.cms.count ELSE v.cms.count
      [] OTHER -> 0
ScoreBound == -MaxSize..MaxSize \cup {Inf, -Inf}
Bounded(d) ==
    \A k \in Key : LET v == d.val[k]
                   IN  /\ Size(v) <= MaxSize
                       /\ IsHash(v) => \A f \in Fields(v.hash) : Len(v.hash.f[f]) <= MaxSize
                       /\ IsZSet(v) /\ family # "geo" => Range(v.zset) \subseteq ScoreBound
                       /\ IsStream(v) => \A g \in Range(v.stream.groups) :
                              /\ \A id \in DOMAIN g.pel : g.pel[id].n <= 1
                              /\ \A w \in DOMAIN g.cons : g.cons[w] <= MaxSize
                       /\ IsJson(v) => Weight(v.json) <= 3 * MaxSize

Init ==
    /\ family \in DOMAIN Commands
    /\ dbs = <<NewSlice, NewSlice>>
    /\ now = 1

Executed(r) ==
    /\ Bounded(r.db) /\ r.reply # PanicReply
    /\ dbs' = [dbs EXCEPT ![1] = Drained(r.db)]
    /\ UNCHANGED <<family, now>>
Execute(c) == Executed(Run(db, c, now))

(* MOVE k, from the database `from` to the other one.                      *)
Move(k, from) ==
    LET to == 3 - from
        m == MoveKey(dbs[from], dbs[to], k, now)
    IN  /\ family = "move"
        /\ dbs' = [dbs EXCEPT ![from] = Drained(m.src), ![to] = Drained(m.dst)]
        /\ UNCHANGED <<family, now>>

Tick ==
    /\ now < MaxTime
    /\ now' = now + 1
    /\ UNCHANGED <<family, dbs>>

Next ==
    \/ \E c \in Cmds : Execute(c)
    \/ \E k \in Key, from \in {1, 2} : Move(k, from)
    \/ Tick

Spec == Init /\ [][Next]_vars
-----------------------------------------------------------------------------
(* What a client can see of a value and of a database at the time t: dead  *)
(* keys, members and fields are not there.                                 *)
Seen(v, t) ==
    IF IsSet(v) THEN LET s == PruneSet(v.set, t)
                     IN  IF s.mem = {} THEN Absent ELSE SetVal(s.mem, Restrict(s.exp, DOMAIN s.exp \cap s.mem))
    ELSE IF IsHash(v) THEN LET h == PruneHash(v.hash, t)
                           IN  IF Fields(h) = {} THEN Absent ELSE [hash |-> h]
    ELSE v
Visible(d, t) ==
    LET with(val) == [val |-> val, exp |-> [k \in Key |-> IF val[k] = Absent THEN NoExpiry ELSE d.exp[k]],
                      sticky |-> {k \in d.sticky : val[k] # Absent}]
    IN  with([k \in Key |-> Seen(Alive(d, t)[k], t)])
Alike(d, e) == Visible(d, now) = Visible(e, now)
TimedBy(v) == IF IsSet(v) THEN v.set.exp # NoExp ELSE IsHash(v) /\ v.hash.exp # NoExp
Timed(d, k) == d.exp[k] # NoExpiry \/ k \in d.sticky \/ TimedBy(d.val[k])

(* Types: a time to live is only ever kept for a key that is in the table. *)
TypeOK ==
    /\ family \in DOMAIN Commands
    /\ now \in 1..MaxTime
    /\ \A i \in 1..2, k \in Key : dbs[i].exp[k] # NoExpiry => Holds(dbs[i], k)

(* No command leaves an empty list, set, hash or sorted set behind: the    *)
(* key goes with its last element, whichever command takes it.             *)
NoEmptyCollection ==
    \A i \in 1..2, k \in Key :
        LET v == dbs[i].val[k] IN TypeOf(v) \in {"list", "set", "hash", "zset"} => Size(v) > 0

(* The table of a shard is sound: a time to live belongs to a key that is  *)
(* there, and a collection that is there has elements.                     *)
TableSound == TypeOK /\ NoEmptyCollection

Piecewise == {"XREADGROUP", "JSON.SET", "JSON.MSET", "JSON.ARRINSERT", "JSON.NUMINCRBY"}

(* A command that answers an error has changed nothing a client can see:   *)
(* not the values, not their times to live, not the sticky flags.  Only    *)
(* XREADGROUP, which delivers from one stream before it looks at the next, *)
(* and the JSON commands that change match after match are not all or      *)
(* nothing.                                                                *)
HarmlessIfError(c, r) == c.cmd \notin Piecewise /\ IsErr(r) => Alike(r.db, db)

Reads == StringReads \cup ListReads \cup SetReads \cup HashReads \cup ZSetReads \cup KeyReads
         \cup BitReads \cup GeoReads \cup StreamReads \cup JsonReads
         \cup BloomReads \cup CuckooReads \cup SketchReads \cup HllReads

(* A command flagged READONLY changes nothing a client can see, though it  *)
(* may remove what has expired; replicas and read-only scripts run it.     *)
PureIfRead(c, r) == c.cmd \in Reads => Alike(r.db, db) /\ r.stores = <<>>

SideEffectFree(c, r) == HarmlessIfError(c, r) /\ PureIfRead(c, r)

(* Nothing changes that a client did not ask for: neither by a command     *)
(* that answers an error nor by one that only reads.                       *)
NoSideEffects == \A c \in Cmds : SideEffectFree(c, Run(db, c, now))

RawTable == {"DEL", "DELEX", "KEYS", "RANDOMKEY"}
BlindWrites == {"SETEX", "MSET", "ZRANGESTORE", "GEOSEARCHSTORE", "RENAME"}
Collected(d, t) == LET f(k, e) == ExpireIfNeeded(e, k, t) IN FoldSet(f, d, Key)
Same(r, s) == r.reply = s.reply /\ Alike(r.db, s.db)
SameIfCollected(c, r, s) == c.cmd \notin RawTable \cup BlindWrites => Same(r, s)

(* Lazy expiry cannot be told from expiry on time: a command answers and   *)
(* leaves the same whether the dead keys are still in the table or were    *)
(* collected just before it.  The exceptions are the commands that walk or *)
(* clear the table without looking keys up, and the ones that write a key  *)
(* without looking it up: those inherit the dead key's time.               *)
ExpiryInvisible ==
    \A swept \in {Collected(db, now)} \ {db}, c \in Cmds :
        LET both(r) == SameIfCollected(c, r[db], r[swept])
        IN  both([d \in {db, swept} |-> Run(d, c, now)])

BumpedIn(d) ==
    \A k \in Key : TypeOf(d.val[k]) # TypeOf(db.val[k]) \/ d.exp[k] # db.exp[k] => k \in d.modified

(* The version of a key moves whenever a command puts it into the table,   *)
(* takes it out, or changes its type or its time to live.                  *)
ExistenceVersioned == \A c \in Cmds : BumpedIn(Run(db, c, now).db)

(* The version of a key moves whenever a command changes its value: what   *)
(* WATCH needs to notice every write.  It does not: a command that changes *)
(* a value in place leaves the version.                                    *)
Versioned ==
    \A c \in Cmds :
        LET noticed(d, was, is) == \A k \in Key : is.val[k] # was.val[k] => k \in d.modified
            bumped(d) == noticed(d, Visible(db, now), Visible(d, now))
        IN  bumped(Run(db, c, now).db)

Rebuilds == {"LMOVE", "LMPOP", "SMOVE", "ZMPOP", "ZRANGESTORE", "GEOSEARCHSTORE", "CMS.MERGE", "PFMERGE"}
StopsEarly == {"SINTER", "SDIFF", "SINTERSTORE", "SDIFFSTORE", "ZINTER", "ZMPOP"}
Divergent(c, d, t, r) ==
    LET ks == Range(KeysOf(c))
    IN  \/ c.cmd = "MSETNX"
        \/ c.cmd = "SORT" /\ (c.by = "key" \/ "key" \in Range(c.gets))
        \/ c.cmd = "COPY" /\ c.replace /\ Alive(d, t)[c.ks[1]] = Absent
        \/ c.cmd = "RENAME" /\ Expired(d, c.ks[2], t)
        \/ c.cmd = "XREADGROUP" /\ IsErr(r)
        \/ c.cmd = "JSON.MSET"
        \/ c.cmd = "CMS.MERGE" /\ Cardinality(Range(c.weights)) > 1
        \/ c.cmd \in Rebuilds /\ \E k \in ks : Timed(d, k)
        \/ c.cmd \in StopsEarly /\ \E k \in ks : TypeOf(d.val[k]) \notin {"none", c.fam}

Spread(c) == IF "ks" \in DOMAIN c THEN Surjection(Key, 0..1) ELSE {}
SameOnShards(c, r, split) ==
    \A owner \in Spread(c) : Divergent(c, db, now, r) \/ Same(r, split[owner])

(***************************************************************************)
(* A command on several keys does the same whether one shard owns them all *)
(* or several do, whichever owns which: the same reply, the same values,   *)
(* times and flags.  Left out are the differences the code has:            *)
(*   - MSETNX answers 0 or 1 only when merged;                             *)
(*   - SORT reads BY and GET keys on the source's shard alone;             *)
(*   - COPY REPLACE of a missing source answers for the destination;       *)
(*   - RENAME onto a dead key loses the value on one shard;                *)
(*   - XREADGROUP stops at the first stream without the group on one shard;*)
(*   - JSON.MSET walks all of the keys on every shard;                     *)
(*   - CMS.MERGE gives the weights to the sources in shard order;          *)
(*   - the commands whose merge rebuilds the value drop times and flags;   *)
(*   - intersections, differences and BZPOPMIN stop early at different     *)
(*     keys, so they may miss a key of the wrong type.                     *)
(***************************************************************************)
ShardsAgree ==
    \A c \in Cmds :
        LET same(rs) == SameOnShards(c, rs[Here], rs)
        IN  same([owner \in {Here} \cup Spread(c) |-> Sharded(db, c, owner, now)])

AsStored == [d |-> db, owner |-> Here]
Swept == [d |-> Collected(db, now), owner |-> Here]
OnShards(owner) == [d |-> db, owner |-> owner]
Cases(c) == {AsStored, Swept} \cup {OnShards(owner) : owner \in Spread(c)}
SoundIn(c, r, rs) ==
    /\ SideEffectFree(c, r)
    /\ BumpedIn(r.db)
    /\ Swept = AsStored \/ SameIfCollected(c, r, rs[Swept])
    /\ SameOnShards(c, r, [owner \in Spread(c) |-> rs[OnShards(owner)]])

(* What every command owes, whatever its type: no side effects, expiry     *)
(* that cannot be told from expiry on time, versions that move with the    *)
(* key, and one behaviour on one shard and on several.                     *)
CommandsSound ==
    /\ TypeOK
    /\ \A c \in Cmds :
           LET sound(rs) == SoundIn(c, rs[AsStored], rs)
           IN  sound([s \in Cases(c) |-> Sharded(s.d, c, s.owner, now)])

Pages(sorted, count, match) ==
    LET page(r, i) ==
            IF r.done THEN r
            ELSE LET p == ScanPage(sorted, r.cursor, count, match)
                 IN  [cursor |-> p.next, done |-> p.next = 0, out |-> r.out \o p.items]
    IN  FoldLeft(page, [cursor |-> 0, done |-> FALSE, out |-> <<>>], [i \in 1..(Len(sorted) + 1) |-> i])

(* Following the cursors of SSCAN, HSCAN and ZSCAN over a collection that  *)
(* does not change returns each matching member exactly once and ends.     *)
ScansComplete ==
    \A k \in Key, count \in 1..2 :
        LET v == db.val[k]
            sorted == CASE IsSet(v) -> Sorted(v.set.mem)
                        [] IsHash(v) -> Sorted(Fields(v.hash))
                        [] IsZSet(v) -> ZOrder(v.zset)
                        [] OTHER -> <<>>
        IN  \A match \in SUBSET Range(sorted) :
                LET r == Pages(sorted, count, match)
                IN  r.done /\ r.out = SelectSeq(sorted, LAMBDA m : m \in match)

Hashes4 == {1, 2, 3, 5}
Placements == {[s \in 0..1 |-> {h \in hs : on[h] = s}] : hs \in SUBSET Hashes4, on \in [Hashes4 -> 0..1]}
ScanWalk(parts, limit) ==
    LET more(r, p) == [cursor |-> p.cursor, done |-> p.cursor = 0,
                       out |-> r.out \o p.out, cut |-> r.cut \/ p.cut]
        page(r, i) == IF r.done THEN r ELSE more(r, MergeScan(parts, r.cursor, limit))
    IN  FoldLeft(page, [cursor |-> 0, done |-> FALSE, out |-> <<>>, cut |-> FALSE], [i \in 1..7 |-> i])
RmWalk(parts, limit) ==
    LET more(p) == [cursor |-> p.cursor, done |-> p.cursor = 0, parts |-> p.parts]
        call(r, i) == IF r.done THEN r
                      ELSE more(ScanAndDelete(r.parts, r.cursor, limit, 4 * ShardRange))
    IN  FoldLeft(call, [cursor |-> 0, done |-> FALSE, parts |-> parts], [i \in 1..7 |-> i])

(* Following the cursors of SCAN over keys that do not change ends, gives  *)
(* no key twice and leaves none out, however the keys lie on the shards,   *)
(* unless a page ended within the last keys of a shard: merge_scan skips   *)
(* the rest of those.  RM, followed to its end, leaves no matching key, if *)
(* no hash is lost entirely in the cursor.  Checked where a walk starts,   *)
(* in the initial states.                                                  *)
WalksComplete ==
    (family = "key" /\ now = 1 /\ dbs = <<NewSlice, NewSlice>>) =>
        \A parts \in Placements, limit \in 1..3 :
            LET scanned(r) == /\ r.done /\ IsInjective(r.out)
                              /\ r.cut \/ Range(r.out) = parts[0] \cup parts[1]
                removed(w) == w.done /\ w.parts[0] \cup w.parts[1] = {}
            IN  scanned(ScanWalk(parts, limit)) /\ removed(RmWalk(parts, limit))

(* A client that follows its cursors sees everything once and comes to an  *)
(* end: in a collection, and over the keys of all shards.                  *)
CursorsComplete == ScansComplete /\ WalksComplete

-----------------------------------------------------------------------------
(* The streams of the database and their consumer groups.                  *)
StreamsIn(d) == {v.stream : v \in {d.val[k] : k \in {j \in Key : IsStream(d.val[j])}}}
PendingOf(g, w) == {id \in DOMAIN g.pel : g.pel[id].who = w}

(* No group loses track of an entry it handed out: whoever is to           *)
(* acknowledge it is a consumer of the group whose counter covers it,      *)
(* through claims, forced claims and deleted consumers and entries.        *)
PendingTracked ==
    \A s \in StreamsIn(db) : \A g \in Range(s.groups) :
        /\ \A id \in DOMAIN g.pel : g.pel[id].who \in DOMAIN g.cons
        /\ \A w \in DOMAIN g.cons : g.cons[w] >= Cardinality(PendingOf(g, w))

(* A lag XINFO reports is never less than the entries a group has yet to   *)
(* be given: a caught-up group really is, whatever was deleted or trimmed. *)
LagCovers ==
    \A s \in StreamsIn(db) : \A g \in Range(s.groups) :
        LET lag == CgLag(s, g) IN lag # Unknown => lag >= Cardinality({id \in Live(s) : id > g.last})

(* Trimming removes the oldest entries and keeps what it was told to keep; *)
(* trimming exactly keeps no more than that.                               *)
TrimKeepsNewest ==
    \A s \in StreamsIn(db), m \in 0..MaxSize, approx \in BOOLEAN :
        LET t == Trim(s, [maxlen |-> m, minid |-> -1, approx |-> approx, limit |-> -1])
            keep == Least(m, s.len)
        IN  /\ \A old \in Live(s) \ Live(t), id \in Live(t) : old < id
            /\ t.len = Cardinality(Live(t)) /\ t.len >= keep
            /\ ~approx => t.len = keep

(* What a stream owes its consumers, after claims, deletions and trims:    *)
(* pending entries with an owner, lags that cover what is left, and the    *)
(* newest entries kept.                                                    *)
StreamsSound == PendingTracked /\ LagCovers /\ TrimKeepsNewest

-----------------------------------------------------------------------------
DocsIn(d) == {v.json : v \in {d.val[k] : k \in {j \in Key : IsJson(d.val[j])}}}
PathsIn(cs) == {c.path.segs : c \in {e \in cs : "path" \in DOMAIN e /\ e.path.ok}}

(* The walk over a document finds exactly what its path means, segment by  *)
(* segment, and nothing twice.                                             *)
PathsFound ==
    \A j \in DocsIn(db), p \in PathsIn(Cmds) :
        LET m == Matches(p, j) IN Range(m) = Meaning(p, j) /\ IsInjective(m)

(* JSON.DEL removes every match, counts each topmost one once, and leaves  *)
(* everything that lies below no match.                                    *)
DeletesTopmost ==
    \A j \in DocsIn(db), p \in PathsIn(Cmds) \ {<<>>} :
        LET leaves(d, ls) == Cardinality({l \in ls : ~Container(At(d, l))})
            gone(l, top) == \E m \in top : IsPrefix(m, l)
            left(top) == {l \in Below(j, <<>>) : ~gone(l, top)}
            removed(r, top) == /\ r.n = Cardinality(top)
                               /\ leaves(r.val, Below(r.val, <<>>)) = leaves(j, left(top))
        IN  removed(DeletePath(p, j), Topmost(Meaning(p, j)))

(* A path means one set of locations, to the commands that read them and   *)
(* to JSON.DEL, which removes them while their indices shift.              *)
PathsSound == PathsFound /\ DeletesTopmost

-----------------------------------------------------------------------------
ValuesOf(type) == {v[type] : v \in {db.val[k] : k \in {j \in Key : TypeOf(db.val[j]) = type}}}
AllItems == DOMAIN ItemHash

(* A Bloom filter never forgets: what it has, and what is added, it still  *)
(* has after any addition, through the growth that an addition may bring.  *)
BloomKeeps ==
    \A s \in ValuesOf("sbf"), item \in AllItems :
        ~Loading(s) => \A other \in {item} \cup {o \in AllItems : SbfExists(s, o)} :
                          SbfExists(SbfAdd(s, item), other)

BloomDump(s) ==
    LET chunks == (Offset(s, Len(s.filters) + 1) \div MaxChunk) + Len(s.filters) + 2
        took(r, n) == IF r.done \/ n.cursor = 0 THEN [r EXCEPT !.done = TRUE]
                      ELSE [cursor |-> n.cursor, done |-> FALSE, out |-> Append(r.out, n)]
        step(r, i) == took(r, NextChunk(s, r.cursor))
    IN  FoldLeft(step, [cursor |-> 0, done |-> FALSE, out |-> <<>>], [i \in 1..chunks |-> i])
Restored(dump) ==
    LET step(r, n) == IF r.ok THEN LoadChunk(r.s, n.cursor, n.data) ELSE r
    IN  FoldLeft(step, [ok |-> HeaderOk(dump[1].data), s |-> LoadHeader(dump[1].data)], Tail(dump))

(* The chunks BF.SCANDUMP hands out, one after the other, are accepted by  *)
(* BF.LOADCHUNK in that order and make the same filter, however the chunk  *)
(* size cuts it; so the filter a client restores is the one it saved.      *)
DumpRestores ==
    \A s \in ValuesOf("sbf") :
        ~Loading(s) => With(BloomDump(s), LAMBDA d :
                            d.done /\ Restored(d.out) = [ok |-> TRUE, s |-> s])

Occupied(cf) == UNION {{<<i, p>> : p \in {q \in DOMAIN cf.filters[i] : cf.filters[i][q] # 0}} : i \in DOMAIN cf.filters}

(* A cuckoo filter loses nothing either: an insertion, knocking others     *)
(* out, or a compaction keeps every item that was there; a failed          *)
(* insertion changes nothing; and the items are counted exactly.           *)
CuckooKeeps ==
    \A cf \in ValuesOf("cuckoo") :
        LET there == {o \in AllItems : CfExists(cf, CuckooHash(o))}
            keeps(c, os) == \A o \in os : CfExists(c, CuckooHash(o))
        IN  /\ cf.items = Cardinality(Occupied(cf))
            /\ keeps(Compact(cf, TRUE), there) /\ keeps(Compact(cf, FALSE), there)
            /\ \A item \in AllItems :
                   LET r == CfInsert(cf, CuckooHash(item))
                   IN  IF r.ok THEN keeps(r.cf, there \cup {item}) ELSE r.cf = cf

(* Filters forget nothing, neither Bloom filters while they grow or are    *)
(* dumped and loaded, nor cuckoo filters while they displace and undo.     *)
FiltersSound == BloomKeeps /\ DumpRestores /\ CuckooKeeps

(* A count-min sketch never underestimates: an increment raises the        *)
(* estimate of its item by at least as much and lowers no other, as long   *)
(* as no counter wraps.                                                    *)
SketchCovers ==
    \A s \in ValuesOf("cms"), item \in AllItems, n \in 1..2 :
        (\A rc \in DOMAIN s.cells : s.cells[rc] + n <= MaxInt) =>
            LET t == CmsIncr(s, item, n)
            IN  /\ Estimate(t, item) >= Estimate(s, item) + n
                /\ \A o \in AllItems : Estimate(t, o) >= Estimate(s, o)

(* The Top-K heap is a heap of distinct items, no more than k, with the    *)
(* weakest at the root, where the next eviction looks for it, whatever     *)
(* decays in between.                                                      *)
HeapOrdered ==
    \A t \in ValuesOf("topk") :
        LET h == t.heap
        IN  /\ Len(h) <= t.k
            /\ \A i, j \in DOMAIN h : i # j => h[i].key # h[j].key
            /\ \A i \in DOMAIN h : i > 1 => h[i \div 2].count <= h[i].count

HllsIn == {EmptyHll} \cup {s \in ValuesOf("str") : Validness(s) # "invalid" /\ Usable(s)}

(* The sparse encoding computes the same registers as the definition of a  *)
(* HyperLogLog: setting one is a maximum, reported as a change exactly     *)
(* when it is one, wherever it falls in the runs; the encoding never       *)
(* exceeds its limit, and a cached cardinality is never stale.             *)
SparseAgrees ==
    \A s \in HllsIn :
        LET rs == RegistersOf(s)
        IN  /\ s[3] = CardZero => \A i \in DOMAIN rs : rs[i] = 0
            /\ EncodingOf(s) = Sparse => HdrLen + Bytes(BodyOf(s)) <= SparseMaxBytes
            /\ \A i \in 1..Registers, n \in 1..MaxPattern :
                   LET r == IF EncodingOf(s) = Sparse THEN SparseSet(s, i, n) ELSE DenseSet(s, i, n)
                   IN  /\ Usable(r.hll) /\ RegistersOf(r.hll) = Raised(rs, i, n)
                       /\ r.ret = IF n > rs[i] THEN 1 ELSE 0

(* Sketches answer what they promise: estimates that cover, the weakest of *)
(* the top items at the root, and one meaning of both HLL encodings.       *)
SketchesSound == SketchCovers /\ HeapOrdered /\ SparseAgrees
=============================================================================
