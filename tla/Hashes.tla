------------------------------- MODULE Hashes -------------------------------
(***************************************************************************)
(* The hash commands (commands/exec/hashes.rs) and the hash type under     *)
(* them (core/hash.rs): fields to values, and fields to the times they     *)
(* expire.  Removing a field removes its expiry too.                       *)
(***************************************************************************)
EXTENDS Sets

HashVal(f, exp) == [hash |-> [f |-> f, exp |-> exp]]
EmptyHash == HashVal(<<>>, NoExp)
IsHash(v) == TypeOf(v) = "hash"
Fields(h) == DOMAIN h.f
Without(fn, S) == Restrict(fn, DOMAIN fn \ S)

HashSet(h, f, v) == [h EXCEPT !.f = (f :> v) @@ @]
HashRemove(h, f) == [f |-> Without(h.f, {f}), exp |-> Without(h.exp, {f})]

(* `add_expirable`: at is the expiry to set, or NoExpiry.  On an existing  *)
(* field a plain write clears the expiry and KEEPTTL keeps what it has.    *)
AddField(h, f, v, at, keepttl) ==
    LET exp ==
            CASE f \in Fields(h) /\ keepttl /\ f \in DOMAIN h.exp -> h.exp
              [] at # NoExpiry /\ ~(f \in Fields(h) /\ keepttl /\ f \in DOMAIN h.exp) ->
                    (f :> at) @@ h.exp
              [] at = NoExpiry /\ f \in Fields(h) /\ ~keepttl -> Without(h.exp, {f})
              [] OTHER -> h.exp
    IN  [f |-> (f :> v) @@ h.f, exp |-> exp]
AddOrSkip(h, f, v, at) == IF f \in Fields(h) THEN h ELSE AddField(h, f, v, at, FALSE)

PruneHash(h, now) ==
    LET dead == {f \in DOMAIN h.exp : h.exp[f] <= now}
    IN  [f |-> Without(h.f, dead), exp |-> Without(h.exp, dead)]

(* `hash_mut`, `prune_hash_key`, `ensure_hash`: as for sets.               *)
WrongHash(d, k) == Holds(d, k) /\ ~IsHash(d.val[k])
HashMut(db, k, now) ==
    With(Find(db, k, now), LAMBDA d :
        IF Holds(d, k) /\ IsHash(d.val[k])
        THEN WriteThrough(d, k, [hash |-> PruneHash(d.val[k].hash, now)]) ELSE d)
PruneHashKey(db, k, now) ==
    With(HashMut(db, k, now), LAMBDA d :
        IF Holds(d, k) /\ IsHash(d.val[k]) /\ Fields(d.val[k].hash) = {}
        THEN RemoveKey(d, k) ELSE d)
EnsureHash(db, k, now) ==
    With(Find(db, k, now), LAMBDA d :
        HashMut(IF Holds(d, k) THEN d ELSE Insert(d, k, EmptyHash), k, now))

(* The hash written back through its reference; an emptied one is removed. *)
(* Mutant: an empty hash is kept.                                          *)
PutHashEmpty(d, k, h) == WriteThrough(d, k, [hash |-> h])
PutHash(d, k, h) ==
    IF Fields(h) = {} THEN RemoveKey(d, k) ELSE WriteThrough(d, k, [hash |-> h])

(* The reads: what `answer` makes of the fields, none for a missing key.   *)
ReadHash(db, k, answer(_), now) ==
    With(PruneHashKey(db, k, now), LAMBDA d :
        IF WrongHash(d, k) THEN Err(d)
        ELSE Ok(d, answer(IF Holds(d, k) THEN d.val[k].hash ELSE [f |-> <<>>, exp |-> NoExp])))
FieldReply(h, f) == IF f \in Fields(h) THEN Bulk(h.f[f]) ELSE Nil

(* HSET, HMSET: c.fvs is a sequence of <<field, value>>.                   *)
ExecHset(db, c, now) ==
    LET add(g, p) == AddField(g, p[1], p[2], NoExpiry, FALSE)
        fields == {c.fvs[i][1] : i \in DOMAIN c.fvs}
        set(d, h) == Ok(WriteThrough(d, c.k, [hash |-> FoldLeft(add, h, c.fvs)]),
                        Num(Cardinality(fields \ Fields(h))))
    IN  IF c.fvs = <<>> THEN Err(db)
        ELSE With(EnsureHash(db, c.k, now), LAMBDA d :
                IF WrongHash(d, c.k) THEN Err(d) ELSE set(d, d.val[c.k].hash))
ExecHmset(db, c, now) ==
    With(ExecHset(db, c, now), LAMBDA r : IF IsErr(r) THEN r ELSE Ok(r.db, OkReply))

ExecHget(db, c, now) ==
    LET answer(h) == FieldReply(h, c.f) IN ReadHash(db, c.k, answer, now)
ExecHmget(db, c, now) ==
    LET answer(h) == Arr([i \in DOMAIN c.fs |-> FieldReply(h, c.fs[i])])
    IN  ReadHash(db, c.k, answer, now)
ExecHlen(db, c, now) ==
    LET answer(h) == Num(Cardinality(Fields(h))) IN ReadHash(db, c.k, answer, now)
ExecHgetall(db, c, now) ==
    LET answer(h) == Members({<<f, h.f[f]>> : f \in Fields(h)}) IN ReadHash(db, c.k, answer, now)
ExecHkeys(db, c, now) ==
    LET answer(h) == Members(Fields(h)) IN ReadHash(db, c.k, answer, now)
ExecHvals(db, c, now) ==
    LET answer(h) == Members({<<v, Cardinality({f \in Fields(h) : h.f[f] = v})>> : v \in Range(h.f)})
    IN  ReadHash(db, c.k, answer, now)
ExecHexists(db, c, now) ==
    LET answer(h) == Num(IF c.f \in Fields(h) THEN 1 ELSE 0) IN ReadHash(db, c.k, answer, now)
ExecHstrlen(db, c, now) ==
    LET answer(h) == Num(IF c.f \in Fields(h) THEN Len(h.f[c.f]) ELSE 0)
    IN  ReadHash(db, c.k, answer, now)

ExecHdel(db, c, now) ==
    With(PruneHashKey(db, c.k, now), LAMBDA d :
        IF WrongHash(d, c.k) THEN Err(d)
        ELSE IF ~Holds(d, c.k) THEN Ok(d, Num(0))
        ELSE Ok(PutHash(d, c.k, FoldLeft(HashRemove, d.val[c.k].hash, c.fs)),
                Num(Cardinality(Range(c.fs) \cap Fields(d.val[c.k].hash)))))

(* HINCRBY and HINCRBYFLOAT keep the expiry of the field; the hash exists  *)
(* by the time the field's value is refused.                               *)
HashIncr(db, c, ok(_), fits(_), now) ==
    LET cur(h) == IF c.f \in Fields(h) THEN h.f[c.f] ELSE <<>>
        sum(s) == (IF s = <<>> THEN 0 ELSE Signed(s)) + c.by
        put(d, h, s, n) == IF (s # <<>> /\ ~ok(s)) \/ ~fits(n) THEN Err(d)
                           ELSE Ok(WriteThrough(d, c.k, [hash |-> HashSet(h, c.f, Itoa(n))]), Num(n))
        incr(d, h) == With(cur(h), LAMBDA s : put(d, h, s, sum(s)))
    IN  With(EnsureHash(db, c.k, now), LAMBDA d :
            IF WrongHash(d, c.k) THEN Err(d) ELSE incr(d, d.val[c.k].hash))
ExecHincrBy(db, c, now) ==
    LET fits(n) == n \in MinInt..MaxInt IN HashIncr(db, c, IsInt, fits, now)
ExecHincrByFloat(db, c, now) ==
    LET ok(s) == Magnitude(s) >= 0
        fits(n) == TRUE
        answer(r) == IF IsErr(r) THEN r ELSE Ok(r.db, Bulk(Itoa(r.reply[2])))
    IN  IF c.inf THEN Err(db) ELSE answer(HashIncr(db, c, ok, fits, now))

ExecHsetNx(db, c, now) ==
    With(EnsureHash(db, c.k, now), LAMBDA d :
        IF WrongHash(d, c.k) THEN Err(d)
        ELSE IF c.f \in Fields(d.val[c.k].hash) THEN Ok(d, Num(0))
        ELSE Ok(WriteThrough(d, c.k, [hash |-> HashSet(d.val[c.k].hash, c.f, c.v)]), Num(1)))

(***************************************************************************)
(* Field expiry.  Times are rounded to whole seconds of SecMs.             *)
(***************************************************************************)
MaxSec == MaxDeadline \div SecMs
AtSecond(now, sec) == (now \div SecMs + sec) * SecMs
CeilSec(ms) == (ms + SecMs - 1) \div SecMs

(* `field_expiry_ttl_ms`: the relative time of an EX/PX/EXAT/PXAT option,  *)
(* or BadTtl.                                                              *)
BadTtl == -1
FieldTtlMs(ex, now, allowExpired) ==
    LET rel == IF ex.kind = "abs" THEN ex.ms - now ELSE ex.ms
    IN  IF ex.ms < 0 \/ rel > MaxSec * SecMs \/ (~allowExpired /\ rel <= 0) THEN BadTtl
        ELSE IF rel < 0 THEN 0 ELSE rel

(* HSETEX: c.mode is NX, FNX, FXX or none.  The FIELDS form takes c.ex and *)
(* replies 1, the other takes whole seconds c.ttl and counts new fields.   *)
HsetexCondition(d, k, fs, mode) ==
    LET have == IF Holds(d, k) THEN Fields(d.val[k].hash) ELSE {}
    IN  CASE mode = "FNX" -> fs \cap have = {}
          [] mode = "FXX" -> Holds(d, k) /\ fs \subseteq have
          [] OTHER -> TRUE
ExecHsetEx(db, c, now) ==
    LET fs == {c.fvs[i][1] : i \in DOMAIN c.fvs}
        rel == IF c.fieldsForm /\ c.ex.kind # "none" THEN FieldTtlMs(c.ex, now, FALSE) ELSE 0
        at == CASE ~c.fieldsForm -> AtSecond(now, c.ttl)
                [] c.fieldsForm /\ c.ex.kind = "none" -> NoExpiry
                [] OTHER -> AtSecond(now, CeilSec(rel))
        checked == IF c.mode \in {"FNX", "FXX"} THEN PruneHashKey(db, c.k, now) ELSE db
        d == EnsureHash(checked, c.k, now)
        h == d.val[c.k].hash
        add(g, p) == IF c.mode = "NX" THEN AddOrSkip(g, p[1], p[2], at)
                     ELSE AddField(g, p[1], p[2], at, c.keepttl)
        bad == IF c.fieldsForm
               THEN c.mode = "NX" \/ (c.keepttl /\ c.ex.kind # "none") \/ rel = BadTtl
               ELSE c.ex.kind # "none" \/ c.ttl \notin 1..MaxSec
    IN  IF bad \/ c.fvs = <<>> THEN Err(db)
        ELSE IF WrongHash(Find(checked, c.k, now), c.k) THEN Err(Find(checked, c.k, now))
        ELSE IF ~HsetexCondition(checked, c.k, fs, c.mode) THEN Ok(checked, Num(0))
        ELSE Ok(WriteThrough(d, c.k, [hash |-> FoldLeft(add, h, c.fvs)]),
                Num(IF c.fieldsForm THEN 1 ELSE Cardinality(fs \ Fields(h))))

(* HEXPIRE: per field -2 missing, 0 condition not met, 1 set, 2 removed.   *)
(* A field without a time counts as one that never comes.                  *)
HexpireSkip(h, f, flag, ttl, now) ==
    LET has == f \in DOMAIN h.exp
        left == h.exp[f] \div SecMs - now \div SecMs
    IN  CASE flag = "NX" -> has
          [] flag = "XX" -> ~has
          [] flag = "GT" -> ~has \/ left >= ttl
          [] flag = "LT" -> has /\ left <= ttl
          [] OTHER -> FALSE
HexpireField(acc, f, c, now) ==
    LET h == acc.h
        hit(n, g) == [h |-> g, out |-> Append(acc.out, Num(n))]
    IN  IF f \notin Fields(h) THEN hit(-2, h)
        ELSE IF HexpireSkip(h, f, c.flag, c.ttl, now) THEN hit(0, h)
        ELSE IF c.ttl = 0 THEN hit(2, HashRemove(h, f))
        ELSE hit(1, AddField(h, f, h.f[f], AtSecond(now, c.ttl), FALSE))
ExecHexpire(db, c, now) ==
    LET d == PruneHashKey(db, c.k, now)
        step(acc, f) == HexpireField(acc, f, c, now)
        r == FoldLeft(step, [h |-> d.val[c.k].hash, out |-> <<>>], c.fs)
    IN  IF c.ttl \notin 0..MaxSec \/ c.fs = <<>> THEN Err(db)
        ELSE IF WrongHash(d, c.k) THEN Err(d)
        ELSE IF ~Holds(d, c.k) THEN Ok(d, Arr([i \in DOMAIN c.fs |-> Num(-2)]))
        ELSE Ok(PutHash(d, c.k, r.h), Arr(r.out))

(* HTTL in seconds and HPEXPIRETIME in milliseconds since the epoch.       *)
ExecHttl(db, c, now) ==
    LET one(h, f) == IF f \notin Fields(h) THEN -2
                     ELSE IF f \notin DOMAIN h.exp THEN -1
                     ELSE IF c.abs THEN h.exp[f] ELSE h.exp[f] \div SecMs - now \div SecMs
        answer(h) == Arr([i \in DOMAIN c.fs |-> Num(one(h, c.fs[i]))])
    IN  IF c.fs = <<>> THEN Err(db) ELSE ReadHash(db, c.k, answer, now)

(* HGETEX: the values as they were, then the expiry of each field.  A time *)
(* that has come deletes the field.                                        *)
ExecHgetEx(db, c, now) ==
    LET d == PruneHashKey(db, c.k, now)
        h == d.val[c.k].hash
        rel == IF c.ex.kind \in {"rel", "abs"} THEN FieldTtlMs(c.ex, now, TRUE) ELSE 0
        touch(g, f) ==
            CASE f \notin Fields(g) \/ c.ex.kind = "none" -> g
              [] f \in Fields(g) /\ c.ex.kind = "persist" ->
                    AddField(g, f, g.f[f], NoExpiry, FALSE)
              [] f \in Fields(g) /\ c.ex.kind \in {"rel", "abs"} /\ rel = 0 -> HashRemove(g, f)
              [] OTHER -> AddField(g, f, g.f[f], AtSecond(now, CeilSec(rel)), FALSE)
    IN  IF rel = BadTtl \/ c.fs = <<>> THEN Err(db)
        ELSE IF WrongHash(d, c.k) THEN Err(d)
        ELSE IF ~Holds(d, c.k) THEN Ok(d, Arr([i \in DOMAIN c.fs |-> Nil]))
        ELSE Ok(PutHash(d, c.k, FoldLeft(touch, h, c.fs)),
                Arr([i \in DOMAIN c.fs |-> FieldReply(h, c.fs[i])]))

ExecHrandfield(db, c, now) ==
    LET shown(h, f) == IF c.withValues THEN <<f, h.f[f]>> ELSE <<f>>
        drawn(h, q) ==
            CASE q = <<>> -> IF c.counted THEN Arr(<<>>) ELSE Nil
              [] q # <<>> /\ ~c.counted -> Bulk(q[1])
              [] q # <<>> /\ c.counted /\ c.count < 0 ->
                    Arr([i \in 1..(-c.count) |-> shown(h, q[((i * c.seed) % Len(q)) + 1])])
              [] OTHER -> Arr([i \in 1..Least(c.count, Len(q)) |-> shown(h, q[i])])
        answer(h) == drawn(h, Rotated(Fields(h), c.seed))
    IN  ReadHash(db, c.k, answer, now)

(* HSCAN: a small hash whole, a promoted one in pages of its sorted fields.*)
(* c.paged says that the hash was promoted once; it never goes back.       *)
ExecHscan(db, c, now) ==
    LET shown(h, fs) == [i \in DOMAIN fs |->
                            IF c.novalues THEN <<fs[i]>> ELSE <<fs[i], h.f[fs[i]]>>]
        page(h, p) == Arr(<<Num(p.next), Arr(shown(h, p.items))>>)
        answer(h) ==
            IF c.paged THEN page(h, ScanPage(Sorted(Fields(h)), c.cursor, c.count, c.match))
            ELSE Arr(<<Num(0), Members(Range(shown(h, SetToSeq(Fields(h) \cap c.match))))>>)
    IN  ReadHash(db, c.k, answer, now)

(* The flags of the commands, and what the registry runs for each.         *)
HashReads == {"HGET", "HMGET", "HLEN", "HGETALL", "HKEYS", "HVALS", "HEXISTS", "HSTRLEN",
              "HTTL", "HRANDFIELD", "HSCAN"}
ExecHashes(db, c, now) ==
    CASE c.cmd = "HSET" -> ExecHset(db, c, now)
      [] c.cmd = "HMSET" -> ExecHmset(db, c, now)
      [] c.cmd = "HGET" -> ExecHget(db, c, now)
      [] c.cmd = "HMGET" -> ExecHmget(db, c, now)
      [] c.cmd = "HLEN" -> ExecHlen(db, c, now)
      [] c.cmd = "HGETALL" -> ExecHgetall(db, c, now)
      [] c.cmd = "HKEYS" -> ExecHkeys(db, c, now)
      [] c.cmd = "HVALS" -> ExecHvals(db, c, now)
      [] c.cmd = "HEXISTS" -> ExecHexists(db, c, now)
      [] c.cmd = "HSTRLEN" -> ExecHstrlen(db, c, now)
      [] c.cmd = "HDEL" -> ExecHdel(db, c, now)
      [] c.cmd = "HINCRBY" -> ExecHincrBy(db, c, now)
      [] c.cmd = "HINCRBYFLOAT" -> ExecHincrByFloat(db, c, now)
      [] c.cmd = "HSETNX" -> ExecHsetNx(db, c, now)
      [] c.cmd = "HSETEX" -> ExecHsetEx(db, c, now)
      [] c.cmd = "HEXPIRE" -> ExecHexpire(db, c, now)
      [] c.cmd = "HTTL" -> ExecHttl(db, c, now)
      [] c.cmd = "HGETEX" -> ExecHgetEx(db, c, now)
      [] c.cmd = "HRANDFIELD" -> ExecHrandfield(db, c, now)
      [] c.cmd = "HSCAN" -> ExecHscan(db, c, now)
=============================================================================
