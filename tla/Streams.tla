------------------------------ MODULE Streams -------------------------------
(***************************************************************************)
(* Streams (core/stream.rs) and their commands (commands/exec/streams.rs). *)
(*                                                                         *)
(* An id <ms>-<seq> is the number ms * SeqRange + seq, so ids compare as   *)
(* numbers.  What an entry holds is left out, and so are the times a       *)
(* consumer was last seen and last active, which nothing but XINFO reads.  *)
(***************************************************************************)
EXTENDS Strings

CONSTANTS
    SeqRange,       \* sequence numbers of one millisecond, 2^64 in the code
    MaxMs,          \* the largest millisecond of an id
    NodeMax         \* NODE_MAX_ENTRIES

ASSUME StreamsAssumption == SeqRange \in Nat \ {0, 1} /\ MaxMs \in Nat /\ NodeMax \in Nat \ {0}

MaxId == MaxMs * SeqRange + SeqRange - 1
MsOf(id) == id \div SeqRange
SeqNo(id) == id % SeqRange

(* ent maps every id ever added to whether it has been deleted: deleted    *)
(* entries stay as tombstones.                                             *)
NoMap == [x \in {} |-> 0]
NewStream == [ent |-> NoMap, len |-> 0, last |-> 0, maxDel |-> 0, groups |-> NoMap]
StreamVal(s) == [stream |-> s]
IsStream(v) == TypeOf(v) = "stream"
WrongStream(d, k) == Holds(d, k) /\ ~IsStream(d.val[k])
StreamOf(d, k) == d.val[k].stream

Put(f, x, y) == (x :> y) @@ f
Dropped(f, xs) == [x \in DOMAIN f \ xs |-> f[x]]
Ascending(S) == SetToSortSeq(S, LAMBDA a, b : a < b)
Smallest(S) == CHOOSE x \in S : \A y \in S : x <= y
Largest(S) == CHOOSE x \in S : \A y \in S : x >= y

Live(s) == {id \in DOMAIN s.ent : ~s.ent[id]}
FirstEntry(s) == IF Live(s) = {} THEN 0 ELSE Smallest(Live(s))
LastEntry(s) == IF Live(s) = {} THEN 0 ELSE Largest(Live(s))
EntriesAdded(s) == Cardinality(DOMAIN s.ent)

Appended(s, id) == [s EXCEPT !.ent = Put(@, id, FALSE), !.last = id, !.len = @ + 1]
Deleted(s, id) ==
    IF id \in Live(s)
    THEN [s EXCEPT !.ent[id] = TRUE, !.len = @ - 1, !.maxDel = IF id > @ THEN id ELSE @] ELSE s
TrimDeleted(s, id) == IF id \in Live(s) THEN [s EXCEPT !.ent[id] = TRUE, !.len = @ - 1] ELSE s

(* How many entries a group has read, and how far it lags; -1 when that    *)
(* cannot be told.                                                         *)
Unknown == -1
HasTombstones(s, from) == s.len # 0 /\ s.maxDel # 0 /\ s.maxDel >= from
EstimateDistance(s, id) ==
    LET added == EntriesAdded(s)
        first == FirstEntry(s)
    IN  CASE added = 0 -> 0
          [] added # 0 /\ ((s.len = 0 /\ id <= s.last) \/ (id = s.last /\ ~(id # 0 /\ id < s.maxDel))) -> added
          [] OTHER -> IF \/ id # 0 /\ id < s.maxDel
                         \/ id > s.last
                         \/ Live(s) = {}
                         \/ ~(s.maxDel = 0 \/ s.maxDel < first)
                         \/ id > first
                      THEN Unknown
                      ELSE added - s.len + (IF id = first THEN 1 ELSE 0)
CgLag(s, g) ==
    LET added == EntriesAdded(s)
        read == EstimateDistance(s, g.last)
    IN  CASE added = 0 -> 0
          [] added # 0 /\ g.read # Unknown /\ ~HasTombstones(s, g.last) -> added - g.read
          [] OTHER -> IF read # Unknown THEN added - read ELSE Unknown

(* `trim`: whole nodes of live entries from the oldest on; unless the trim *)
(* is approximate, the first node that cannot go is trimmed in part.       *)
(* c.maxlen or c.minid is -1 when not given, c.limit when there is none.   *)
NodeChunks(s) ==
    LET ids == Ascending(Live(s))
        n == (Len(ids) + NodeMax - 1) \div NodeMax
    IN  [i \in 1..n |-> SubSeq(ids, (i - 1) * NodeMax + 1, Least(i * NodeMax, Len(ids)))]
Trim(s, c) ==
    LET over(t) == c.maxlen # -1 /\ t.len > c.maxlen
        partly(t, id) == IF over(t) \/ (c.minid # -1 /\ id < c.minid) THEN TrimDeleted(t, id) ELSE t
        whole(t, node) == IF c.maxlen # -1 THEN t.len - Len(node) >= c.maxlen
                          ELSE node[Len(node)] < c.minid
        step(r, node) ==
            IF \/ r.done
               \/ c.maxlen # -1 /\ ~over(r.s)
               \/ c.limit # -1 /\ s.len - r.s.len + Len(node) > c.limit
            THEN [r EXCEPT !.done = TRUE]
            ELSE IF whole(r.s, node) THEN [r EXCEPT !.s = FoldLeft(TrimDeleted, @, node)]
            ELSE [done |-> TRUE, s |-> IF c.approx THEN r.s ELSE FoldLeft(partly, r.s, node)]
    IN  FoldLeft(step, [s |-> s, done |-> FALSE], NodeChunks(s)).s
Trims(c) == c.maxlen # -1 \/ c.minid # -1

(***************************************************************************)
(* Consumer groups: [last, read, cons, pel]; cons counts what each         *)
(* consumer has pending, pel says who has which entry, since when and how  *)
(* many times it was delivered.                                            *)
(***************************************************************************)
NewGroup(id) == [last |-> id, read |-> Unknown, cons |-> NoMap, pel |-> NoMap]
(* Mutant: a consumer that claims is not created.                          *)
WithConsumerNone(g, who) == g
WithConsumer(g, who) == IF who \in DOMAIN g.cons THEN g ELSE [g EXCEPT !.cons = Put(@, who, 0)]
OnePending(g, who, by) ==
    IF who \notin DOMAIN g.cons THEN g
    ELSE [g EXCEPT !.cons[who] = IF @ + by < 0 THEN 0 ELSE @ + by]

AtMostOf(all, count) == IF count = -1 THEN all ELSE SubSeq(all, 1, Least(count, Len(all)))
(* New entries for a consumer, after the last one the group was given.     *)
DeliverNew(s, g, who, count, noack, now) ==
    LET give(h, id) ==
            LET p == IF noack THEN h
                     ELSE OnePending([h EXCEPT !.pel = Put(@, id, [who |-> who, time |-> now, n |-> 1])], who, 1)
                counted == h.read # Unknown /\ h.last >= FirstEntry(s) /\ ~HasTombstones(s, h.last)
            IN  [p EXCEPT !.read = IF counted THEN @ + 1 ELSE EstimateDistance(s, id), !.last = id]
    IN  With(AtMostOf(Ascending({id \in Live(s) : id > g.last}), count), LAMBDA out :
            [g |-> FoldLeft(give, WithConsumer(g, who), out), out |-> out])
(* The consumer's own pending entries again; a deleted one comes empty.    *)
DeliverPending(g, who, from, count, now) ==
    LET again(h, id) == [h EXCEPT !.pel[id].n = @ + 1, !.pel[id].time = now]
        mine == Ascending({id \in DOMAIN g.pel : id >= from /\ g.pel[id].who = who})
    IN  With(AtMostOf(mine, count), LAMBDA out :
            [g |-> FoldLeft(again, WithConsumer(g, who), out), out |-> out])

(* `read_group`: the id ">" is passed as 0-1, so 0-1 itself means the same.*)
NewOnly == 1
ReadGroup(s, c, id, now) ==
    LET g == s.groups[c.g]
    IN  IF id = NewOnly THEN DeliverNew(s, g, c.who, c.count, c.noack, now)
        ELSE DeliverPending(g, c.who, id, c.count, now)

Acked(g, id) ==
    IF id \notin DOMAIN g.pel THEN g
    ELSE OnePending([g EXCEPT !.pel = Dropped(@, {id})], g.pel[id].who, -1)

-----------------------------------------------------------------------------
(* Commands on one stream: what `onStream` makes of it, or the result for  *)
(* a missing key, or a type error.  Streams change through the reference.  *)
OnStream(db, k, missing(_), onStream(_, _), now) ==
    LET d == Find(db, k, now)
    IN  IF ~Holds(d, k) THEN missing(d)
        ELSE IF IsStream(d.val[k]) THEN onStream(d, StreamOf(d, k)) ELSE Err(d)
Save(d, k, s) == WriteThrough(d, k, StreamVal(s))
SaveGroup(d, k, s, name, g) == Save(d, k, [s EXCEPT !.groups[name] = g])
Failed(d) == Err(d)
None(d) == Ok(d, Num(0))

(* XADD: c.id is "*", an id whose sequence is to be completed, or a whole  *)
(* id.  A failed XADD removes the stream it created.                       *)
NextStarId(last, now) ==
    IF now > MsOf(last) THEN now * SeqRange
    ELSE IF SeqNo(last) = SeqRange - 1 THEN Unknown ELSE last + 1
XaddId(c, last, now) ==
    LET ms == IF c.id.kind = "lastms" THEN MsOf(last) ELSE c.id.ms
        auto == IF ms < MsOf(last) \/ (ms = MsOf(last) /\ SeqNo(last) = SeqRange - 1) THEN Unknown
                ELSE IF ms = MsOf(last) THEN last + 1 ELSE ms * SeqRange
        whole == ms * SeqRange + c.id.seq
    IN  IF c.id.kind = "star" THEN NextStarId(last, now)
        ELSE IF c.id.seq = -1 THEN auto
        ELSE IF whole <= last THEN Unknown ELSE whole
ExecXadd(db, c, now) ==
    LET d == Find(db, c.k, now)
        e == IF Holds(d, c.k) THEN d ELSE Insert(d, c.k, StreamVal(NewStream))
        s == StreamOf(e, c.k)
        id == XaddId(c, s.last, now)
        a == Appended(s, id)
    IN  IF c.nomkstream /\ ~Holds(d, c.k) THEN Ok(d, Nil)
        ELSE IF WrongStream(e, c.k) THEN Err(e)
        ELSE IF id = Unknown THEN Err(IF Holds(d, c.k) THEN d ELSE RemoveKey(e, c.k))
        ELSE Ok(Save(e, c.k, IF Trims(c) THEN Trim(a, c) ELSE a), Num(id))

ExecXlen(db, c, now) == LET f(d, s) == Ok(d, Num(s.len)) IN OnStream(db, c.k, None, f, now)

(* XRANGE and XREVRANGE; bounds are [id, excl].  COUNT 0 still gives one   *)
(* entry: the count is compared after the entry is added.                  *)
Capped(q, count) == IF count = -1 THEN q ELSE SubSeq(q, 1, Least(IF count = 0 THEN 1 ELSE count, Len(q)))
BoundsOk(c) == ~(c.start.excl /\ c.start.id = MaxId) /\ ~(c.end.excl /\ c.end.id = 0)
Within(c, ids) ==
    {id \in ids : /\ id >= c.start.id + (IF c.start.excl THEN 1 ELSE 0)
                  /\ id <= c.end.id - (IF c.end.excl THEN 1 ELSE 0)}
ExecXrange(db, c, now) ==
    LET ids(s) == LET q == Ascending(Within(c, Live(s))) IN IF c.rev THEN Reverse(q) ELSE q
        f(d, s) == Ok(d, Arr(Capped(ids(s), c.count)))
        none(d) == Ok(d, Arr(<<>>))
    IN  IF BoundsOk(c) THEN OnStream(db, c.k, none, f, now) ELSE Err(db)

ExecXdel(db, c, now) ==
    LET cut(d, s, t) == Ok(Save(d, c.k, t), Num(s.len - t.len))
        f(d, s) == cut(d, s, FoldLeft(Deleted, s, c.ids))
    IN  OnStream(db, c.k, None, f, now)
ExecXtrim(db, c, now) ==
    LET cut(d, s, t) == Ok(Save(d, c.k, t), Num(s.len - t.len))
        f(d, s) == cut(d, s, Trim(s, c))
    IN  OnStream(db, c.k, None, f, now)

(* XSETID may go below deleted entries that were trimmed, not below ones   *)
(* that XDEL deleted.                                                      *)
ExecXsetId(db, c, now) ==
    LET f(d, s) == IF c.id < s.maxDel \/ c.id < LastEntry(s) THEN Err(d)
                   ELSE Ok(Save(d, c.k, [s EXCEPT !.last = c.id]), OkReply)
    IN  OnStream(db, c.k, Failed, f, now)

-----------------------------------------------------------------------------
(* XREAD: the entries after an id of each key, `Newest` standing for "$".  *)
(* A blocking read that finds none blocks; the point it resumes from is    *)
(* kept per connection, see module Blocking.                               *)
Newest == -1
ExecXread(db, c, owned, now) ==
    LET after(d, i) ==
            LET s == IF Holds(d, c.ks[i]) THEN StreamOf(d, c.ks[i]) ELSE NewStream
                from == IF c.ids[i] = Newest THEN LastEntry(s) ELSE c.ids[i]
            IN  Capped(Ascending({id \in Live(s) : id > from}), c.count)
        step(r, i) ==
            LET d == Find(r.db, c.ks[i], now)
            IN  IF r.bad THEN r
                ELSE IF WrongStream(d, c.ks[i]) THEN [r EXCEPT !.db = d, !.bad = TRUE]
                ELSE [r EXCEPT !.db = d, !.out = Append(@, <<c.ks[i], after(d, i)>>)]
    IN  With(FoldLeft(step, [db |-> db, bad |-> FALSE, out |-> <<>>], InOrder(owned)), LAMBDA r :
            IF r.bad THEN Err(r.db)
            ELSE IF c.block /\ \A i \in DOMAIN r.out : r.out[i][2] = <<>> THEN Blocked(r.db)
            ELSE Ok(r.db, Arr(r.out)))

(* XREADGROUP goes through its keys in order and fails at the first that   *)
(* has no such group, the keys before it being read already.               *)
AllNew(c) == \A i \in DOMAIN c.ids : c.ids[i] = Newest
ExecXreadGroup(db, c, owned, now) ==
    LET given(r, k, s, got) == [r EXCEPT !.db = SaveGroup(@, k, s, c.g, got.g),
                                         !.out = Append(@, <<k, got.out>>)]
        read(r, i, k, s) ==
            IF c.g \notin DOMAIN s.groups THEN [r EXCEPT !.bad = TRUE]
            ELSE given(r, k, s, ReadGroup(s, c, IF c.ids[i] = Newest THEN NewOnly ELSE c.ids[i], now))
        step(r, i) ==
            IF r.bad THEN r
            ELSE With(Find(r.db, c.ks[i], now), LAMBDA d :
                    IF ~Holds(d, c.ks[i]) \/ WrongStream(d, c.ks[i]) THEN [r EXCEPT !.db = d, !.bad = TRUE]
                    ELSE read([r EXCEPT !.db = d], i, c.ks[i], StreamOf(d, c.ks[i])))
    IN  With(FoldLeft(step, [db |-> db, bad |-> FALSE, out |-> <<>>], InOrder(owned)), LAMBDA r :
            IF r.bad THEN Err(r.db)
            ELSE IF c.block /\ AllNew(c) /\ \A i \in DOMAIN r.out : r.out[i][2] = <<>> THEN Blocked(r.db)
            ELSE Ok(r.db, Arr(r.out)))

(* The reply of key i of a read: its pair, or what a blocked shard gives.  *)
ReadPair(parts, c, i) ==
    LET p == PartOf(parts, i)
    IN  IF p.reply = BlockedReply THEN <<c.ks[i], <<>>>>
        ELSE LET at == CHOOSE n \in 1..Cardinality(p.owned) : InOrder(p.owned)[n] = i IN p.reply[2][at]
MergeRead(parts, c) ==
    LET pairs == [i \in DOMAIN c.ks |-> ReadPair(parts, c, i)]
        some == {i \in DOMAIN c.ks : pairs[i][2] # <<>>}
    IN  IF AnyErr(parts) THEN MergedErr
        ELSE IF some = {} /\ (c.cmd = "XREAD" \/ AllNew(c)) THEN Merged(Nil)
        ELSE IF c.cmd = "XREAD" THEN Merged(Arr([n \in 1..Cardinality(some) |-> pairs[InOrder(some)[n]]]))
        ELSE Merged(Arr(pairs))

-----------------------------------------------------------------------------
(* XGROUP: c.id is `Newest` for "$".  MKSTREAM creates the stream first.   *)
ExecXgroupCreate(db, c, now) ==
    LET d == Find(db, c.k, now)
        e == IF Holds(d, c.k) THEN d ELSE Insert(d, c.k, StreamVal(NewStream))
        s == StreamOf(e, c.k)
        id == IF c.id = Newest THEN s.last ELSE c.id
    IN  IF (~Holds(d, c.k) /\ ~c.mkstream) \/ WrongStream(d, c.k) THEN Err(d)
        ELSE IF (s.len = 0 /\ c.id = Newest /\ ~c.mkstream) \/ c.g \in DOMAIN s.groups THEN Err(e)
        ELSE Ok(Save(e, c.k, [s EXCEPT !.groups = Put(@, c.g, NewGroup(id))]), OkReply)

OnGroup(db, c, missing(_), noGroup(_), onGroup(_, _, _), now) ==
    LET f(d, s) == IF c.g \in DOMAIN s.groups THEN onGroup(d, s, s.groups[c.g]) ELSE noGroup(d)
    IN  OnStream(db, c.k, missing, f, now)
Nothing(d) == Ok(d, Arr(<<>>))

ExecXgroupSetId(db, c, now) ==
    LET f(d, s, g) == Ok(SaveGroup(d, c.k, s, c.g,
                            [g EXCEPT !.last = IF c.id = Newest THEN s.last ELSE c.id,
                                      !.read = IF c.read = -2 THEN @ ELSE c.read]), OkReply)
    IN  OnGroup(db, c, Failed, Failed, f, now)
ExecXgroupDestroy(db, c, now) ==
    LET f(d, s, g) == Ok(Save(d, c.k, [s EXCEPT !.groups = Dropped(@, {c.g})]), Num(1))
    IN  OnGroup(db, c, None, None, f, now)
ExecXgroupDelConsumer(db, c, now) ==
    LET mine(g) == {id \in DOMAIN g.pel : g.pel[id].who = c.who}
        f(d, s, g) == Ok(SaveGroup(d, c.k, s, c.g, [g EXCEPT !.pel = Dropped(@, mine(g)),
                                                            !.cons = Dropped(@, {c.who})]),
                         Num(Cardinality(mine(g))))
    IN  OnGroup(db, c, None, Failed, f, now)
ExecXgroupCreateConsumer(db, c, now) ==
    LET f(d, s, g) == Ok(SaveGroup(d, c.k, s, c.g, WithConsumer(g, c.who)),
                         Num(IF c.who \in DOMAIN g.cons THEN 0 ELSE 1))
    IN  OnGroup(db, c, None, Failed, f, now)

ExecXack(db, c, now) ==
    LET f(d, s, g) == LET h == FoldLeft(Acked, g, c.ids)
                      IN  Ok(SaveGroup(d, c.k, s, c.g, h),
                             Num(Cardinality(DOMAIN g.pel) - Cardinality(DOMAIN h.pel)))
    IN  OnGroup(db, c, None, None, f, now)

(* XPENDING: the summary, or the entries of a range, with who has them,    *)
(* for how long and how often they were delivered.                         *)
Idle(p, now) == IF now > p.time THEN now - p.time ELSE 0
ExecXpending(db, c, now) ==
    LET detail(g) ==
            LET ids == {id \in Within(c, DOMAIN g.pel) :
                            /\ c.who = <<>> \/ g.pel[id].who = c.who[1]
                            /\ Idle(g.pel[id], now) >= c.idle}
                q == Capped(Ascending(ids), c.count)
            IN  [i \in DOMAIN q |-> <<q[i], g.pel[q[i]].who, Idle(g.pel[q[i]], now), g.pel[q[i]].n>>]
        owners(g) == {g.pel[id].who : id \in DOMAIN g.pel}
        summary(g) ==
            IF DOMAIN g.pel = {} THEN <<0>>
            ELSE <<Cardinality(DOMAIN g.pel), Smallest(DOMAIN g.pel), Largest(DOMAIN g.pel),
                   [w \in owners(g) |-> Cardinality({id \in DOMAIN g.pel : g.pel[id].who = w})]>>
        f(d, s, g) == IF c.summary THEN Ok(d, Arr(summary(g)))
                      ELSE IF BoundsOk(c) THEN Ok(d, Arr(detail(g))) ELSE Err(d)
    IN  OnGroup(db, c, Failed, Failed, f, now)

(* XINFO STREAM, GROUPS and CONSUMERS.                                     *)
GroupInfo(s, g) == <<Cardinality(DOMAIN g.cons), Cardinality(DOMAIN g.pel), g.last, g.read, CgLag(s, g)>>
ExecXinfo(db, c, now) ==
    LET stream(d, s) == Ok(d, Arr(<<s.len, s.last, s.maxDel, EntriesAdded(s), FirstEntry(s), LastEntry(s),
                                    Cardinality(DOMAIN s.groups)>>))
        groups(d, s) == Ok(d, Arr(<<[name \in DOMAIN s.groups |-> GroupInfo(s, s.groups[name])]>>))
        consumers(d, s, g) == Ok(d, Arr(<<g.cons>>))
    IN  CASE c.what = "STREAM" -> OnStream(db, c.k, Failed, stream, now)
          [] c.what = "GROUPS" -> OnStream(db, c.k, Failed, groups, now)
          [] c.what = "CONSUMERS" -> OnGroup(db, c, Failed, Failed, consumers, now)

(* One entry claimed by c.who: the counters of both owners follow it.      *)
Nobody == "nobody"
Claimed(g, id, c, time, retry) ==
    LET old == g.pel[id]
        moved == IF old.who = c.who THEN g ELSE OnePending(OnePending(g, old.who, -1), c.who, 1)
    IN  [moved EXCEPT !.pel[id] = [who |-> c.who, time |-> time,
                                   n |-> IF retry >= 0 THEN retry ELSE IF c.justid THEN old.n ELSE old.n + 1]]
ExecXclaim(db, c, now) ==
    LET time == IF c.time < 0 \/ c.time > now THEN now ELSE c.time
        step(s, r, id) ==
            LET g == IF id \notin DOMAIN r.g.pel /\ c.force
                     THEN [r.g EXCEPT !.pel = Put(@, id, [who |-> Nobody, time |-> now, n |-> 0])] ELSE r.g
            IN  IF id \notin Live(s) THEN [r EXCEPT !.g = Acked(@, id)]
                ELSE IF \/ id \notin DOMAIN g.pel
                        \/ g.pel[id].who # Nobody /\ Idle(g.pel[id], now) < c.idle THEN r
                ELSE [g |-> Claimed(g, id, c, time, c.retry), out |-> Append(r.out, id)]
        f(d, s, g) ==
            LET raised == [g EXCEPT !.last = IF c.last > @ THEN c.last ELSE @]
                one(r, id) == step(s, r, id)
                r == FoldLeft(one, [g |-> WithConsumer(raised, c.who), out |-> <<>>], c.ids)
            IN  Ok(SaveGroup(d, c.k, s, c.g, r.g), Arr(r.out))
    IN  OnGroup(db, c, Failed, Nothing, f, now)

(* XAUTOCLAIM walks the pending entries from an id on.  An exclusive start *)
(* is the id before it.  The reply's first part is where to go on from.    *)
ExecXautoClaim(db, c, now) ==
    LET from == c.start.id - (IF c.start.excl THEN 1 ELSE 0)
        begin(g) == [g |-> WithConsumer(g, c.who), left |-> c.count, tries |-> 10 * c.count,
                     idx |-> 0, out |-> <<>>, gone |-> <<>>]
        tried(s, t, id) ==
            IF id \notin Live(s)
            THEN [t EXCEPT !.g = Acked(@, id), !.gone = Append(@, id), !.left = @ - 1]
            ELSE IF Idle(t.g.pel[id], now) < c.idle THEN t
            ELSE [t EXCEPT !.g = Claimed(@, id, c, now, -1), !.out = Append(@, id), !.left = @ - 1]
        one(s, r, id) == IF r.left = 0 \/ r.tries = 0 THEN r
                         ELSE tried(s, [r EXCEPT !.tries = @ - 1, !.idx = @ + 1], id)
        answer(r, ids) == Arr(<<IF r.idx < Len(ids) THEN ids[r.idx + 1] ELSE 0, r.out, r.gone>>)
        walk(d, s, g, ids) == With(FoldLeft(LAMBDA r, id : one(s, r, id), begin(g), ids), LAMBDA r :
            Ok(SaveGroup(d, c.k, s, c.g, r.g), answer(r, ids)))
        f(d, s, g) == walk(d, s, g, Ascending({id \in DOMAIN g.pel : id >= from}))
    IN  IF from < 0 THEN Err(db) ELSE OnGroup(db, c, Failed, Failed, f, now)

-----------------------------------------------------------------------------
StreamReads == {"XLEN", "XRANGE", "XREAD", "XPENDING", "XINFO"}
ExecStreams(db, c, owned, now) ==
    CASE c.cmd = "XADD" -> ExecXadd(db, c, now)
      [] c.cmd = "XLEN" -> ExecXlen(db, c, now)
      [] c.cmd = "XRANGE" -> ExecXrange(db, c, now)
      [] c.cmd = "XDEL" -> ExecXdel(db, c, now)
      [] c.cmd = "XTRIM" -> ExecXtrim(db, c, now)
      [] c.cmd = "XSETID" -> ExecXsetId(db, c, now)
      [] c.cmd = "XREAD" -> ExecXread(db, c, owned, now)
      [] c.cmd = "XREADGROUP" -> ExecXreadGroup(db, c, owned, now)
      [] c.cmd = "XGROUP CREATE" -> ExecXgroupCreate(db, c, now)
      [] c.cmd = "XGROUP SETID" -> ExecXgroupSetId(db, c, now)
      [] c.cmd = "XGROUP DESTROY" -> ExecXgroupDestroy(db, c, now)
      [] c.cmd = "XGROUP DELCONSUMER" -> ExecXgroupDelConsumer(db, c, now)
      [] c.cmd = "XGROUP CREATECONSUMER" -> ExecXgroupCreateConsumer(db, c, now)
      [] c.cmd = "XACK" -> ExecXack(db, c, now)
      [] c.cmd = "XPENDING" -> ExecXpending(db, c, now)
      [] c.cmd = "XINFO" -> ExecXinfo(db, c, now)
      [] c.cmd = "XCLAIM" -> ExecXclaim(db, c, now)
      [] c.cmd = "XAUTOCLAIM" -> ExecXautoClaim(db, c, now)
=============================================================================
