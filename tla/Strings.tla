------------------------------ MODULE Strings ------------------------------
(***************************************************************************)
(* The string commands (commands/exec/strings.rs).  Each executor is an    *)
(* operator from a slice and a parsed command to a result; c.k is the key, *)
(* c.ks the keys of a multi-key command and `owned` the indices of the     *)
(* keys this shard owns.                                                   *)
(*                                                                         *)
(* A string is a sequence of characters, written as numbers in the order   *)
(* of their bytes: the zero byte, the signs, the digits and a letter.      *)
(***************************************************************************)
EXTENDS DbSlice

CONSTANTS
    MaxInt,        \* stands for i64::MAX
    MaxDeadline,   \* K_MAX_EXPIRE_DEADLINE_MS
    SecMs          \* milliseconds of a second

ASSUME StringsAssumption ==
    MaxInt \in Nat /\ MaxDeadline \in Nat \ {0} /\ SecMs \in Nat \ {0}

MinInt == -MaxInt - 1
Nul == 0
Plus == 1
Minus == 2
Digit(d) == d + 3
Letter == 13

Str(s) == [str |-> s]
IsStr(v) == TypeOf(v) = "str"

(* `parse_i64`: an optional sign, digits, and no overflow.                 *)
Magnitude(s) ==
    With(IF s # <<>> /\ Head(s) \in {Minus, Plus} THEN Tail(s) ELSE s, LAMBDA ds :
        IF ds = <<>> \/ \E i \in DOMAIN ds : ds[i] \notin Digit(0)..Digit(9) THEN -1
        ELSE FoldLeft(LAMBDA acc, d : 10 * acc + d - Digit(0), 0, ds))
Signed(s) == (IF Head(s) = Minus THEN -1 ELSE 1) * Magnitude(s)
IsInt(s) == Magnitude(s) >= 0 /\ Signed(s) \in MinInt..MaxInt

(* `itoa`.                                                                 *)
Decimal[n \in Nat] == 
    IF n < 10 THEN <<Digit(n)>> ELSE Append(Decimal[n \div 10], Digit(n % 10))
Itoa(n) == IF n < 0 THEN <<Minus>> \o Decimal[-n] ELSE Decimal[n]

(* `redis_range`: the 0-based start and the length of a range with         *)
(* negative indices counted from the end, or an empty range.               *)
EmptyRange == [start |-> 0, count |-> 0]
RedisRange(start, stop, len) ==
    LET clamp(i) == IF i < 0 THEN IF len + i < 0 THEN 0 ELSE len + i ELSE i
        s == clamp(start)
        e == IF clamp(stop) >= len THEN len - 1 ELSE clamp(stop)
    IN  IF len <= 0 \/ (start < 0 /\ stop < start) \/ s > e \/ s >= len
        THEN EmptyRange ELSE [start |-> s, count |-> e - s + 1]

(***************************************************************************)
(* SET.  c.ex is the expiry option: no option, a relative or an absolute   *)
(* time in milliseconds.                                                   *)
(***************************************************************************)
NoEx == [kind |-> "none", ms |-> 0]
SetArgsOk(c) ==
    /\ c.ex.kind # "none" => c.ex.ms > 0
    /\ ~(c.nx /\ c.xx)
    /\ ~(c.keepttl /\ c.ex.kind # "none")

Least(a, b) == IF a <= b THEN a ELSE b

SetWrite(db, c, now) ==
    LET a == IF c.keepttl THEN db ELSE ClearExpiry(db, c.k)
        b == Insert(a, c.k, Str(c.v))
        s == IF c.stick THEN SetSticky(b, c.k, now) ELSE b
        rel == IF c.ex.kind = "abs" THEN c.ex.ms - now ELSE c.ex.ms
    IN  IF c.ex.kind = "none" THEN s
        ELSE SetExpiry(s, c.k, now + Least(rel, MaxDeadline), now)

ExecSet(db, c, now) ==
    LET d == Find(db, c.k, now)
        old == d.val[c.k]
        oldReply == IF c.get /\ IsStr(old) THEN Bulk(old.str) ELSE Nil
    IN  IF ~SetArgsOk(c) \/ (c.ex.kind = "rel" /\ now + c.ex.ms > MaxInt) THEN Err(db)
        ELSE IF c.ex.kind = "abs" /\ c.ex.ms < now THEN Ok(RemoveKey(db, c.k), OkReply)
        ELSE IF c.get /\ old # Absent /\ ~IsStr(old) THEN Err(d)
        ELSE IF (c.nx /\ old # Absent) \/ (c.xx /\ old = Absent) THEN Ok(d, oldReply)
        ELSE Ok(SetWrite(d, c, now), IF c.get THEN oldReply ELSE OkReply)

(* Commands that read the string first: what `onStr` makes of it, or the   *)
(* reply for a missing key, or a type error.                               *)
OnString(d, k, missing, onStr(_)) ==
    CASE d.val[k] = Absent -> missing
      [] IsStr(d.val[k]) -> onStr(d.val[k].str)
      [] OTHER -> Err(d)
(* The same where a missing key counts as the string `none`.               *)
OnStringOr(d, k, none, onStr(_)) ==
    IF Holds(d, k) /\ ~IsStr(d.val[k]) THEN Err(d)
    ELSE onStr(IF Holds(d, k) THEN d.val[k].str ELSE none)

ExecGet(db, c, now) ==
    With(Find(db, c.k, now), LAMBDA d :
        OnString(d, c.k, Ok(d, Nil), LAMBDA s : Ok(d, Bulk(s))))

ExecGetDel(db, c, now) ==
    With(Find(db, c.k, now), LAMBDA d :
        OnString(d, c.k, Ok(d, Nil), LAMBDA s : Ok(RemoveKey(d, c.k), Bulk(s))))

(* GETSET leaves the expiry as it is.                                      *)
ExecGetSet(db, c, now) ==
    LET d == Find(db, c.k, now)
        i == Insert(d, c.k, Str(c.v))
        found(s) == Ok(i, Bulk(s))
    IN  OnString(d, c.k, Ok(i, Nil), found)

ExecSetNx(db, c, now) ==
    LET d == ExpireIfNeeded(db, c.k, now)
    IN  Ok(InsertIfAbsent(db, c.k, Str(c.v), now), Num(IF Holds(d, c.k) THEN 0 ELSE 1))

(* SETEX and PSETEX write the value and then the expiry, without looking   *)
(* the key up before the write.                                            *)
ExecSetEx(db, c, now) ==
    LET ms == IF c.unitMs THEN c.ttl ELSE c.ttl * SecMs
    IN  IF c.ttl <= 0 \/ now + ms > MaxInt THEN Err(db)
        ELSE Ok(SetExpiry(Insert(db, c.k, Str(c.v)), c.k, now + Least(ms, MaxDeadline), now),
                OkReply)

(* APPEND and PREPEND change an existing string in place.                  *)
Extend(db, k, extended(_), fresh, now) ==
    LET d == Find(db, k, now)
        found(s) == Ok(WriteThrough(d, k, Str(extended(s))), Num(Len(extended(s))))
    IN  OnString(d, k, Ok(Insert(d, k, Str(fresh)), Num(Len(fresh))), found)
ExecAppend(db, c, now) == LET f(s) == s \o c.v IN Extend(db, c.k, f, c.v, now)
ExecPrepend(db, c, now) == LET f(s) == c.v \o s IN Extend(db, c.k, f, c.v, now)

ExecStrlen(db, c, now) ==
    LET d == Find(db, c.k, now)
        found(s) == Ok(d, Num(Len(s)))
    IN  OnString(d, c.k, Ok(d, Num(0)), found)

ExecGetRange(db, c, now) ==
    LET d == Find(db, c.k, now)
        part(s) == LET r == RedisRange(c.start, c.stop, Len(s))
                   IN  SubSeq(s, r.start + 1, r.start + r.count)
        found(s) == Ok(d, Bulk(part(s)))
    IN  OnString(d, c.k, Ok(d, Bulk(<<>>)), found)

(* `v` written over s from the 0-based offset, padded with zero bytes.     *)
Overwrite(s, offset, v) ==
    [i \in 1..(IF Len(s) < offset + Len(v) THEN offset + Len(v) ELSE Len(s)) |->
        IF i > offset /\ i <= offset + Len(v) THEN v[i - offset]
        ELSE IF i <= Len(s) THEN s[i] ELSE Nul]

ExecSetRange(db, c, now) ==
    LET f(s) == Overwrite(s, c.off, c.v)
    IN  IF c.off < 0 THEN Err(db)
        ELSE IF c.v = <<>> THEN ExecStrlen(db, c, now)
        ELSE Extend(db, c.k, f, f(<<>>), now)

(* GETEX: c.ex as in SET, or "persist".  A time beyond the deadline is an  *)
(* error instead of being capped.                                          *)
ExecGetEx(db, c, now) ==
    LET d == Find(db, c.k, now)
        at == IF c.ex.kind = "abs" THEN c.ex.ms ELSE now + c.ex.ms
        found(s) == Ok(CASE c.ex.kind = "persist" -> ClearExpiry(d, c.k)
                         [] c.ex.kind = "none" -> d
                         [] OTHER -> SetExpiry(d, c.k, at, now), Bulk(s))
    IN  IF c.ex.kind \in {"rel", "abs"} /\ (c.ex.ms < 1 \/ at >= MaxInt \/ at - now > MaxDeadline)
        THEN Err(db)
        ELSE OnString(d, c.k, Ok(d, Nil), found)

(* INCR, INCRBY, DECR and DECRBY.  An empty string counts as 0.            *)
IncrBy(db, k, delta, now) ==
    LET d == Find(db, k, now)
        add(n) == IF n + delta \in MinInt..MaxInt
                  THEN Ok(Insert(d, k, Str(Itoa(n + delta))), Num(n + delta)) ELSE Err(d)
        found(s) == CASE s = <<>> -> add(0) [] IsInt(s) -> add(Signed(s)) [] OTHER -> Err(d)
    IN  OnString(d, k, add(0), found)
ExecIncrBy(db, c, now) == IncrBy(db, c.k, c.by, now)
ExecDecrBy(db, c, now) == IF c.by = MinInt THEN Err(db) ELSE IncrBy(db, c.k, -c.by, now)

(* INCRBYFLOAT on the numbers of the model: no width limit, an empty       *)
(* string is not a number, and an infinite sum is refused.                 *)
ExecIncrByFloat(db, c, now) ==
    LET d == Find(db, c.k, now)
        add(n) == IF c.inf THEN Err(d)
                  ELSE Ok(Insert(d, c.k, Str(Itoa(n + c.by))), Bulk(Itoa(n + c.by)))
        found(s) == IF Magnitude(s) >= 0 THEN add(Signed(s)) ELSE Err(d)
    IN  OnString(d, c.k, add(0), found)

(***************************************************************************)
(* MSET, MSETNX, MGET: c.ks are the keys, c.vs the values.                 *)
(***************************************************************************)
ExecMset(db, c, owned) ==
    IF Len(c.vs) # Len(c.ks) THEN Err(db)
    ELSE Ok(FoldLeft(LAMBDA d, i : Insert(d, c.ks[i], Str(c.vs[i])), db, InOrder(owned)),
            OkReply)
MergeMset(parts, c) == IF AnyErr(parts) THEN MergedErr ELSE Merged(OkReply)

(* Counts the missing keys, then writes each key that is missing: the      *)
(* others do not stop it.                                                  *)
ExecMsetNx(db, c, owned, now) ==
    LET looked == FoldLeft(LAMBDA d, i : Find(d, c.ks[i], now), db, InOrder(owned))
        missing == {i \in owned : ~Holds(looked, c.ks[i])}
        write(d, i) == IF Holds(d, c.ks[i]) THEN d ELSE Insert(d, c.ks[i], Str(c.vs[i]))
    IN  IF Len(c.vs) # Len(c.ks) THEN Err(db)
        ELSE Ok(FoldLeft(write, looked, InOrder(owned)), Num(Cardinality(missing)))
MergeMsetNx(parts, c) ==
    LET total == FoldLeft(LAMBDA n, p : n + p.reply[2], 0, parts)
    IN  IF AnyErr(parts) THEN MergedErr
        ELSE Merged(Num(IF total = Len(c.ks) THEN 1 ELSE 0))

(* A key of another type fails the whole command; the keys before it have  *)
(* been looked up by then.                                                 *)
ExecMget(db, c, owned, now) ==
    LET looked == FoldLeft(LAMBDA d, i : Find(d, c.ks[i], now), db, InOrder(owned))
        v(i) == looked.val[c.ks[i]]
        bad == {i \in owned : v(i) # Absent /\ ~IsStr(v(i))}
        upto == {i \in owned : \A b \in bad : i <= b}
        item(i) == IF v(i) = Absent THEN Nil ELSE Bulk(v(i).str)
    IN  IF bad # {}
        THEN Err(FoldLeft(LAMBDA d, i : Find(d, c.ks[i], now), db, InOrder(upto)))
        ELSE Ok(looked, Arr([j \in 1..Cardinality(owned) |-> item(InOrder(owned)[j])]))
MergeMget(parts, c) ==
    LET slot(i) == Cardinality({j \in PartOf(parts, i).owned : j <= i})
    IN  IF AnyErr(parts) THEN MergedErr
        ELSE Merged(Arr([i \in DOMAIN c.ks |-> PartOf(parts, i).reply[2][slot(i)]]))

(***************************************************************************)
(* CL.THROTTLE: a token bucket whose state is one theoretical arrival      *)
(* time.  Times are milliseconds of the model; c.limit is max_burst + 1,   *)
(* c.interval the emission interval.                                       *)
(***************************************************************************)
Throttle(tat, now, c) ==
    LET tolerance == c.interval * c.limit
        increment == c.interval * c.quantity
        newTat == (IF tat > now THEN tat ELSE now) + increment
        diff == now - (newTat - tolerance)
        limited == diff < 0
        ttl == IF limited THEN tat - now ELSE newTat - now
        next == tolerance - ttl
    IN  [limited |-> limited, tat |-> newTat,
         remaining |-> IF next >= 0 THEN next \div c.interval ELSE 0,
         retry |-> IF limited /\ increment <= tolerance THEN -diff ELSE -1,
         reset |-> ttl]

ExecClThrottle(db, c, now) ==
    LET d == Find(db, c.k, now)
        put(v, cached) == IF cached THEN WriteThrough(d, c.k, v) ELSE Insert(d, c.k, v)
        run(tat, cached) == With(Throttle(tat, now, c), LAMBDA t :
            Ok(IF t.limited THEN d ELSE SetExpiry(put(Str(Itoa(t.tat)), cached), c.k, t.tat, now),
               Arr(<<Num(IF t.limited THEN 1 ELSE 0), Num(t.remaining), Num(t.retry)>>)))
        found(s) == IF IsInt(s) THEN run(Signed(s), TRUE) ELSE Err(d)
    IN  IF c.interval * c.limit > MaxInt \/ c.interval * c.quantity > MaxInt THEN Err(db)
        ELSE OnString(d, c.k, run(now, FALSE), found)

(* The flags of the commands.                                              *)
StringReads == {"GET", "STRLEN", "GETRANGE", "MGET"}

ExecString(db, c, owned, now) ==
    CASE c.cmd = "SET" -> ExecSet(db, c, now)
      [] c.cmd = "GET" -> ExecGet(db, c, now)
      [] c.cmd = "GETDEL" -> ExecGetDel(db, c, now)
      [] c.cmd = "GETSET" -> ExecGetSet(db, c, now)
      [] c.cmd = "SETNX" -> ExecSetNx(db, c, now)
      [] c.cmd = "SETEX" -> ExecSetEx(db, c, now)
      [] c.cmd = "APPEND" -> ExecAppend(db, c, now)
      [] c.cmd = "PREPEND" -> ExecPrepend(db, c, now)
      [] c.cmd = "STRLEN" -> ExecStrlen(db, c, now)
      [] c.cmd = "GETRANGE" -> ExecGetRange(db, c, now)
      [] c.cmd = "SETRANGE" -> ExecSetRange(db, c, now)
      [] c.cmd = "GETEX" -> ExecGetEx(db, c, now)
      [] c.cmd = "INCRBY" -> ExecIncrBy(db, c, now)
      [] c.cmd = "DECRBY" -> ExecDecrBy(db, c, now)
      [] c.cmd = "INCRBYFLOAT" -> ExecIncrByFloat(db, c, now)
      [] c.cmd = "MSET" -> ExecMset(db, c, owned)
      [] c.cmd = "MSETNX" -> ExecMsetNx(db, c, owned, now)
      [] c.cmd = "MGET" -> ExecMget(db, c, owned, now)
      [] c.cmd = "CL.THROTTLE" -> ExecClThrottle(db, c, now)
MergeString(parts, c) ==
    CASE c.cmd = "MSET" -> MergeMset(parts, c)
      [] c.cmd = "MSETNX" -> MergeMsetNx(parts, c)
      [] c.cmd = "MGET" -> MergeMget(parts, c)
=============================================================================
