------------------------------- MODULE Lists -------------------------------
(***************************************************************************)
(* The list commands (commands/exec/lists.rs).  A list value is the        *)
(* sequence of its elements, which `QuickList` stores in chunks.  c.left,  *)
(* c.from and c.to say which end of the list: TRUE is the head.            *)
(***************************************************************************)
EXTENDS Strings

List(s) == [list |-> s]
IsList(v) == TypeOf(v) = "list"
WrongList(d, k) == Holds(d, k) /\ ~IsList(d.val[k])
Items(d, k) == IF Holds(d, k) THEN d.val[k].list ELSE <<>>

PushTo(s, left, v) == IF left THEN <<v>> \o s ELSE Append(s, v)
AtEnd(s, left) == IF left THEN Head(s) ELSE Last(s)
Without1(s, left) == IF left THEN Tail(s) ELSE Front(s)

(* `pop_values`: at most n elements from one end, in the order they come   *)
(* off, and what is left.                                                  *)
PopValues(s, left, n) ==
    LET m == Least(n, Len(s))
    IN  [out |-> IF left THEN SubSeq(s, 1, m) ELSE Reverse(SubSeq(s, Len(s) - m + 1, Len(s))),
         rest |-> IF left THEN SubSeq(s, m + 1, Len(s)) ELSE SubSeq(s, 1, Len(s) - m)]

(* A list is written back in place; one that became empty is removed.      *)
PutBack(d, k, s) == IF s = <<>> THEN RemoveKey(d, k) ELSE WriteThrough(d, k, List(s))

(* `ensure_list`.                                                          *)
EnsureList(db, k, now) ==
    LET d == Find(db, k, now) IN IF Holds(d, k) THEN d ELSE Insert(d, k, List(<<>>))

ExecPush(db, c, now) ==
    LET d == IF c.onlyIfExists THEN Find(db, c.k, now) ELSE EnsureList(db, c.k, now)
        pushed == FoldLeft(LAMBDA s, v : PushTo(s, c.left, v), Items(d, c.k), c.vs)
    IN  IF WrongList(d, c.k) THEN Err(d)
        ELSE IF ~Holds(d, c.k) THEN Ok(d, Num(0))
        ELSE Ok(WriteThrough(d, c.k, List(pushed)), Num(Len(pushed)))

(* The commands on an existing list: what `onList` makes of it, the reply  *)
(* for a missing key, or a type error.                                     *)
OnList(d, k, missing, onList(_)) ==
    CASE d.val[k] = Absent -> missing
      [] IsList(d.val[k]) -> onList(d.val[k].list)
      [] OTHER -> Err(d)

(* Without a count c.count is 1 and the element comes back alone.          *)
ExecPop(db, c, now) ==
    LET d == Find(db, c.k, now)
        found(s) == LET p == PopValues(s, c.left, c.count)
                    IN  Ok(PutBack(d, c.k, p.rest),
                           IF c.counted THEN Arr(p.out) ELSE Bulk(p.out[1]))
    IN  IF c.count < 0 THEN Err(db) ELSE OnList(d, c.k, Ok(d, Nil), found)

ReadList(db, k, missing, answer(_), now) ==
    LET d == Find(db, k, now)
        found(s) == Ok(d, answer(s))
    IN  OnList(d, k, Ok(d, missing), found)
ExecLlen(db, c, now) == LET f(s) == Num(Len(s)) IN ReadList(db, c.k, Num(0), f, now)

RangeOf(s, start, stop) ==
    LET r == RedisRange(start, stop, Len(s)) IN SubSeq(s, r.start + 1, r.start + r.count)
ExecLrange(db, c, now) ==
    LET f(s) == Arr(RangeOf(s, c.start, c.stop)) IN ReadList(db, c.k, Arr(<<>>), f, now)

(* `QuickList::get` and `set`: the 1-based position an index names.        *)
Position(s, index) == (IF index < 0 THEN Len(s) + index ELSE index) + 1
ExecLindex(db, c, now) ==
    LET f(s) == IF Position(s, c.index) \in DOMAIN s THEN Bulk(s[Position(s, c.index)]) ELSE Nil
    IN  ReadList(db, c.k, Nil, f, now)
ExecLset(db, c, now) ==
    LET d == Find(db, c.k, now)
        found(s) == LET p == Position(s, c.index)
                    IN  IF p \notin DOMAIN s THEN Err(d)
                        ELSE Ok(WriteThrough(d, c.k, List([s EXCEPT ![p] = c.v])), OkReply)
    IN  OnList(d, c.k, Err(d), found)

(* `remove_value`: the first n occurrences go, all of them when n is 0.    *)
RemoveValue(s, v, n) ==
    LET rank(i) == Cardinality({j \in 1..i : s[j] = v})
        keep == {i \in DOMAIN s : s[i] # v \/ (n > 0 /\ rank(i) > n)}
    IN  [i \in 1..Cardinality(keep) |-> s[InOrder(keep)[i]]]
ExecLrem(db, c, now) ==
    LET d == Find(db, c.k, now)
        left(s) == IF c.count >= 0 THEN RemoveValue(s, c.v, c.count)
                   ELSE Reverse(RemoveValue(Reverse(s), c.v, -c.count))
        found(s) == Ok(PutBack(d, c.k, left(s)), Num(Len(s) - Len(left(s))))
    IN  OnList(d, c.k, Ok(d, Num(0)), found)

ExecLtrim(db, c, now) ==
    LET d == Find(db, c.k, now)
        found(s) == Ok(PutBack(d, c.k, RangeOf(s, c.start, c.stop)), OkReply)
    IN  OnList(d, c.k, Ok(d, OkReply), found)

(* LPOS: an element counts as a match only once `skip` matches have been   *)
(* recorded, and nothing but a match is recorded.  c.maxlen -1 is no limit.*)
LposMatches(s, c) ==
    LET q == IF c.rank < 0 THEN Reverse(s) ELSE s
        skip == (IF c.rank < 0 THEN -c.rank ELSE c.rank) - 1
        index(i) == IF c.rank < 0 THEN Len(s) - i ELSE i - 1
        full(m) == c.counted /\ c.count > 0 /\ Len(m) >= c.count
        step(m, i) == IF ~full(m) /\ q[i] = c.v /\ Len(m) >= skip THEN Append(m, index(i)) ELSE m
        upto == IF c.maxlen < 0 THEN Len(q) ELSE Least(c.maxlen, Len(q))
    IN  FoldLeft(step, <<>>, [i \in 1..upto |-> i])
ExecLpos(db, c, now) ==
    LET answer(s) == LET m == LposMatches(s, c)
                     IN  IF c.counted THEN Arr(m) ELSE IF m = <<>> THEN Nil ELSE Num(Head(m))
    IN  IF c.rank = 0 \/ c.count < 0 THEN Err(db)
        ELSE ReadList(db, c.k, IF c.counted THEN Arr(<<>>) ELSE Nil, answer, now)

(* `insert_relative` to the first element equal to the pivot.              *)
ExecLinsert(db, c, now) ==
    LET d == Find(db, c.k, now)
        first(s) == CHOOSE i \in DOMAIN s : s[i] = c.pivot /\ \A j \in 1..(i - 1) : s[j] # c.pivot
        found(s) ==
            IF c.pivot \notin Range(s) THEN Ok(d, Num(-1))
            ELSE Ok(WriteThrough(d, c.k, List(InsertAt(s, IF c.after THEN first(s) + 1 ELSE first(s), c.v))),
                    Num(Len(s) + 1))
    IN  OnList(d, c.k, Ok(d, Num(0)), found)

(***************************************************************************)
(* LMOVE, RPOPLPUSH and, with c.blocking, BLMOVE and BRPOPLPUSH.  c.ks are *)
(* the source and the destination.                                         *)
(***************************************************************************)
Missing(c) == IF c.blocking THEN BlockedReply ELSE Nil

(* `move_single_shard`: the destination's type is checked first; a source  *)
(* that gives its last element is removed before the push, also when both  *)
(* keys are the same (the in-place rotation compares argument positions).  *)
MoveSingleShard(db, c, now) ==
    LET src == c.ks[1]
        dst == c.ks[2]
        a == Find(db, dst, now)
        d == Find(a, src, now)
        v == AtEnd(Items(d, src), c.from)
        e == EnsureList(PutBack(d, src, Without1(Items(d, src), c.from)), dst, now)
    IN  IF WrongList(a, dst) THEN Err(a)
        ELSE IF WrongList(d, src) THEN Err(d)
        ELSE IF ~Holds(d, src) THEN Ok(d, Missing(c))
        ELSE Ok(WriteThrough(e, dst, List(PushTo(Items(e, dst), c.to, v))), Bulk(v))

(* `move_partial`: a report from the shard of the source or of the         *)
(* destination; nothing is written.                                        *)
WrongReport == <<"wrong">>
MovePartial(db, c, owned, now) ==
    LET k == c.ks[IF 1 \in owned THEN 1 ELSE 2]
        d == Find(db, k, now)
    IN  IF WrongList(d, k) THEN Ok(d, WrongReport)
        ELSE IF 1 \notin owned THEN Ok(d, <<"dest", Items(d, k)>>)
        ELSE IF Items(d, k) = <<>> THEN Blocked(d)
        ELSE Ok(d, <<"source", AtEnd(Items(d, k), c.from), Without1(Items(d, k), c.from)>>)

ExecLmove(db, c, owned, now) ==
    IF owned = {1, 2} THEN MoveSingleShard(db, c, now) ELSE MovePartial(db, c, owned, now)

ListStore(k, s) == Store(k, IF s = <<>> THEN Absent ELSE List(s), NoExpiry, FALSE)

(* `collect_move_report` and `move_finish`.                                *)
MergeMove(parts, c) ==
    LET src == PartOf(parts, 1).reply
        dst == PartOf(parts, 2).reply
    IN  IF Len(parts) = 1 THEN Merged(parts[1].reply)
        ELSE IF AnyErr(parts) \/ src = WrongReport \/ dst = WrongReport THEN MergedErr
        ELSE IF src = BlockedReply THEN Merged(Missing(c))
        ELSE MergedStore(<<ListStore(c.ks[1], src[3]),
                           ListStore(c.ks[2], PushTo(dst[2], c.to, src[2]))>>, Bulk(src[2]))

(***************************************************************************)
(* LMPOP, BLMPOP, BLPOP and BRPOP.  c.flat is the reply of BLPOP: one      *)
(* value instead of an array; c.nilOnWrong is BLMPOP's answer to a key of  *)
(* another type.                                                           *)
(***************************************************************************)
PopReply(c, i, out) ==
    Arr(<<Bulk(c.ks[i]), IF c.flat THEN Bulk(out[1]) ELSE Arr(out)>>)
OnWrong(c) == IF c.nilOnWrong THEN Nil ELSE ErrReply

(* The keys looked up, and the first that holds a list or another type.    *)
FirstKey(db, c, owned, now) ==
    LET step(r, i) ==
            IF r.hit # 0 THEN r
            ELSE LET d == Find(r.db, c.ks[i], now) IN [db |-> d, hit |-> IF Holds(d, c.ks[i]) THEN i ELSE 0]
    IN  FoldLeft(step, [db |-> db, hit |-> 0], InOrder(owned))

PopInplace(db, c, owned, now) ==
    LET pop(d, i, p) == Ok(PutBack(d, c.ks[i], p.rest), PopReply(c, i, p.out))
        at(d, i) == IF i = 0 THEN Ok(d, Missing(c))
                    ELSE IF WrongList(d, c.ks[i]) THEN Ok(d, OnWrong(c))
                    ELSE pop(d, i, PopValues(Items(d, c.ks[i]), c.from, c.count))
        first(f) == at(f.db, f.hit)
    IN  first(FirstKey(db, c, owned, now))
PopPartial(db, c, owned, now) ==
    LET data(d, i, p) == Ok(d, <<"data", i, p.out, p.rest>>)
        at(d, i) == IF i = 0 THEN Ok(d, Missing(c))
                    ELSE IF WrongList(d, c.ks[i]) THEN Ok(d, <<"wrongAt", i>>)
                    ELSE data(d, i, PopValues(Items(d, c.ks[i]), c.from, c.count))
        first(f) == at(f.db, f.hit)
    IN  first(FirstKey(db, c, owned, now))
ExecLmpop(db, c, owned, now) ==
    IF c.count < 0 THEN Err(db)
    ELSE IF owned = DOMAIN c.ks THEN PopInplace(db, c, owned, now)
    ELSE PopPartial(db, c, owned, now)

(* `merge_pop`: the data of the lowest key, unless a key of another type   *)
(* comes before it; with data behind it that is an error for every command.*)
MergePop(parts, c) ==
    LET tagged(t) == {parts[i].reply : i \in {j \in DOMAIN parts : parts[j].reply[1] = t}}
        data == tagged("data")
        wrong == tagged("wrongAt")
        best == CHOOSE r \in data : \A s \in data : r[2] <= s[2]
    IN  IF Len(parts) = 1 THEN Merged(parts[1].reply)
        ELSE IF AnyErr(parts) THEN MergedErr
        ELSE IF data = {} THEN Merged(IF wrong = {} THEN Missing(c) ELSE OnWrong(c))
        ELSE IF \E w \in wrong : w[2] < best[2] THEN MergedErr
        ELSE MergedStore(<<ListStore(c.ks[best[2]], best[4])>>, PopReply(c, best[2], best[3]))

(* The commands that take a client's thread of control only when they have *)
(* something to answer.                                                    *)
ListReads == {"LLEN", "LRANGE", "LINDEX", "LPOS"}
ListMerged == {"LMOVE", "LMPOP"}

ExecList(db, c, owned, now) ==
    CASE c.cmd = "PUSH" -> ExecPush(db, c, now)
      [] c.cmd = "POP" -> ExecPop(db, c, now)
      [] c.cmd = "LLEN" -> ExecLlen(db, c, now)
      [] c.cmd = "LRANGE" -> ExecLrange(db, c, now)
      [] c.cmd = "LINDEX" -> ExecLindex(db, c, now)
      [] c.cmd = "LSET" -> ExecLset(db, c, now)
      [] c.cmd = "LREM" -> ExecLrem(db, c, now)
      [] c.cmd = "LTRIM" -> ExecLtrim(db, c, now)
      [] c.cmd = "LPOS" -> ExecLpos(db, c, now)
      [] c.cmd = "LINSERT" -> ExecLinsert(db, c, now)
      [] c.cmd = "LMOVE" -> ExecLmove(db, c, owned, now)
      [] c.cmd = "LMPOP" -> ExecLmpop(db, c, owned, now)
MergeList(parts, c) == IF c.cmd = "LMOVE" THEN MergeMove(parts, c) ELSE MergePop(parts, c)
=============================================================================
