------------------------------- MODULE BitOps -------------------------------
(***************************************************************************)
(* The bit commands on strings (commands/exec/bitops.rs).  A string here   *)
(* is a sequence of bytes of ByteBits bits, the most significant bit of a  *)
(* byte first; bit offsets run through the bytes.                          *)
(***************************************************************************)
EXTENDS Strings

CONSTANTS
    ByteBits,      \* OFFSET_FACTOR, 8 in the code
    WordBits,      \* the width of an i64
    MaxStrLen      \* K_MAX_STR_LEN, in bytes

ASSUME BitsAssumption ==
    ByteBits \in Nat \ {0} /\ WordBits \in Nat \ {0} /\ MaxStrLen \in Nat

BitAt(byte, i) == (byte \div 2^(ByteBits - 1 - i)) % 2
ByteOf(bit(_)) == FoldSet(LAMBDA i, acc : acc + bit(i) * 2^(ByteBits - 1 - i), 0, 0..(ByteBits - 1))
ByteIndex(offset) == offset \div ByteBits + 1
GetBitValue(s, offset) == BitAt(s[ByteIndex(offset)], offset % ByteBits)
Resized(s, n) == IF Len(s) >= n THEN s ELSE s \o [i \in 1..(n - Len(s)) |-> 0]

(* The n bits from an offset as a number, bits past the end as 0, and the  *)
(* string with the number u there; the bits must be within the string.     *)
FieldAt(s, off, n) ==
    LET bit(i) == IF ByteIndex(i) > Len(s) THEN 0 ELSE GetBitValue(s, i)
    IN  FoldSet(LAMBDA i, acc : acc + bit(i) * 2^(off + n - 1 - i), 0, off..(off + n - 1))
PutField(s, off, n, u) ==
    [j \in DOMAIN s |->
        LET bit(i) == LET at == (j - 1) * ByteBits + i
                      IN  IF at \in off..(off + n - 1) THEN (u \div 2^(off + n - 1 - at)) % 2
                          ELSE BitAt(s[j], i)
        IN  ByteOf(bit)]

CountBitsRange(byte, from, to) ==
    Cardinality({i \in from..(to - 1) : BitAt(byte, i) = 1})
CountByBytes(s, start, end) ==
    LET last == Least(end, Len(s))
    IN  IF start >= end THEN 0
        ELSE FoldSet(LAMBDA i, acc : acc + CountBitsRange(s[i + 1], 0, ByteBits), 0, start..(last - 1))
CountByBits(s, front, back) ==
    LET fb == front \div ByteBits
        bb == back \div ByteBits
        end == (back % ByteBits) + 1
    IN  IF fb = bb THEN CountBitsRange(s[fb + 1], front % ByteBits, end)
        ELSE CountBitsRange(s[fb + 1], front % ByteBits, ByteBits)
             + CountByBytes(s, fb + 1, bb) + CountBitsRange(s[bb + 1], 0, end)

(* `count_bit_set`: a range given backwards from the end on both sides is  *)
(* empty when inverted, before any clamping.                               *)
CountBitSet(s, start, end, bits) ==
    LET len == IF bits THEN Len(s) * ByteBits ELSE Len(s)
        from == IF start < 0 THEN IF len + start < 0 THEN 0 ELSE len + start ELSE start
        back == IF end < 0 THEN IF len + end < 0 THEN 0 ELSE len + end ELSE end
        to == Least(back, len - 1)
    IN  IF len = 0 \/ (start < 0 /\ end < 0 /\ start > end) \/ from > to THEN 0
        ELSE IF bits THEN CountByBits(s, from, to) ELSE CountByBytes(s, from, to + 1)

(* `find_first_bit_with_value`, by bits or by whole bytes.                 *)
NormalizedOffset(size, offset) ==
    LET o == IF offset < 0 THEN size + offset ELSE offset
    IN  IF o < 0 THEN 0 ELSE Least(o, size)
LeastOr(S, none) == IF S = {} THEN none ELSE CHOOSE i \in S : \A j \in S : i <= j
FirstByBit(s, bit, from, to) ==
    LeastOr({i \in from..to : ByteIndex(i) <= Len(s) /\ GetBitValue(s, i) = bit}, -1)
FirstByByte(s, bit, from, to) ==
    LET other == IF bit = 1 THEN 0 ELSE 2^ByteBits - 1
        byte == LeastOr({i \in from..to : i < Len(s) /\ s[i + 1] # other}, -1)
    IN  IF byte = -1 THEN -1
        ELSE byte * ByteBits + LeastOr({i \in 0..(ByteBits - 1) : BitAt(s[byte + 1], i) = bit}, ByteBits)
FindFirstBit(s, bit, start, end, bits) ==
    LET size == IF bits THEN Len(s) * ByteBits ELSE Len(s)
        from == NormalizedOffset(size, start)
        to == NormalizedOffset(size, end)
        pos == IF bits THEN FirstByBit(s, bit, from, to) ELSE FirstByByte(s, bit, from, to)
    IN  IF from > to THEN -1
        ELSE IF pos = -1 /\ bit = 0 /\ start >= 0 /\ start < Len(s) /\ end = MaxInt
        THEN Len(s) * ByteBits ELSE pos

(***************************************************************************)
(* GETBIT, SETBIT, BITCOUNT, BITPOS.  SETBIT and BITFIELD store a new      *)
(* string, and keep the key's time to live.                                *)
(***************************************************************************)
WriteInRange(off, n) ==
    off < MaxStrLen * ByteBits /\ (off + n - 1) \div ByteBits < MaxStrLen

ExecGetBit(db, c, now) ==
    LET d == Find(db, c.k, now)
        found(s) == Ok(d, Num(IF ByteIndex(c.off) > Len(s) THEN 0 ELSE GetBitValue(s, c.off)))
    IN  OnString(d, c.k, Ok(d, Num(0)), found)

ExecSetBit(db, c, now) ==
    LET d == Find(db, c.k, now)
        grown(r) == Ok(Insert(d, c.k, Str(PutField(r, c.off, 1, c.bit))), Num(GetBitValue(r, c.off)))
        put(s) == grown(Resized(s, ByteIndex(c.off)))
    IN  IF ~WriteInRange(c.off, 1) \/ c.bit \notin {0, 1} THEN Err(db)
        ELSE OnStringOr(d, c.k, <<>>, put)

ExecBitCount(db, c, now) ==
    LET d == Find(db, c.k, now)
        found(s) == Ok(d, Num(CountBitSet(s, c.start, c.end, c.bits)))
    IN  OnString(d, c.k, Ok(d, Num(0)), found)

ExecBitPos(db, c, now) ==
    LET d == Find(db, c.k, now)
        found(s) == Ok(d, Num(FindFirstBit(s, c.bit, c.start, c.end, c.bits)))
    IN  IF c.bit \notin {0, 1} THEN Err(db)
        ELSE OnString(d, c.k, Ok(d, Num(IF c.bit = 1 THEN -1 ELSE 0)), found)

(***************************************************************************)
(* BITFIELD: c.subs is the list of subcommands [op, signed, bits, off, v]  *)
(* or [op |-> "OVERFLOW", policy].                                         *)
(***************************************************************************)
Unsigned(n) == n % 2^WordBits
AsSigned(u, bits) == IF u >= 2^(bits - 1) THEN u - 2^bits ELSE u

(* The sum of an unsigned field and an increment, in 64 bits: a negative   *)
(* sum is a huge one, so it saturates at the top.                          *)
UintOverflow(incr, bits, policy, value) ==
    LET max == 2^bits - 1
        sum == Unsigned(incr + value)
    IN  IF sum <= max THEN [ok |-> TRUE, v |-> sum]
        ELSE CASE policy = "WRAP" -> [ok |-> TRUE, v |-> sum % 2^bits]
               [] policy = "SAT" -> [ok |-> TRUE, v |-> max]
               [] policy = "FAIL" -> [ok |-> FALSE, v |-> 0]
IntOverflow(bits, incr, policy, value) ==
    LET max == 2^(bits - 1) - 1
        min == -max - 1
        word(n) == AsSigned(Unsigned(n), WordBits)
        maxincr == word(max - value)
        minincr == word(min - value)
        out(limit) == CASE policy = "WRAP" -> [ok |-> TRUE, v |-> AsSigned((value + incr) % 2^bits, bits)]
                        [] policy = "SAT" -> [ok |-> TRUE, v |-> limit]
                        [] policy = "FAIL" -> [ok |-> FALSE, v |-> 0]
    IN  IF \/ value > max
           \/ bits # WordBits /\ incr > maxincr
           \/ value >= 0 /\ incr > 0 /\ incr > maxincr
        THEN out(max)
        ELSE IF \/ value < min
                \/ bits # WordBits /\ incr < minincr
                \/ value < 0 /\ incr < 0 /\ incr < minincr
        THEN out(min)
        ELSE [ok |-> TRUE, v |-> word(value + incr)]
Fit(f, incr, policy, value) ==
    IF f.signed THEN IntOverflow(f.bits, incr, policy, value) ELSE UintOverflow(incr, f.bits, policy, value)

BitfieldGet(f, s) ==
    With(FieldAt(s, f.off, f.bits), LAMBDA u : IF f.signed THEN AsSigned(u, f.bits) ELSE u)
LastByte(f) == ByteIndex(f.off + f.bits - 1)
(* A write that the FAIL policy rejects has already grown the string.      *)
BitfieldSet(f, v, policy, s) ==
    LET put(r, fit) ==
            IF fit.ok THEN [s |-> PutField(r, f.off, f.bits, fit.v % 2^f.bits), reply |-> Num(BitfieldGet(f, r))]
            ELSE [s |-> r, reply |-> Nil]
    IN  put(Resized(s, LastByte(f)), Fit(f, 0, policy, v))
BitfieldIncrBy(f, by, policy, s) ==
    LET put(r, fit) ==
            IF fit.ok THEN [s |-> BitfieldSet(f, fit.v, policy, r).s, reply |-> Num(fit.v)]
            ELSE [s |-> r, reply |-> Nil]
    IN  put(Resized(s, LastByte(f)), Fit(f, by, policy, BitfieldGet(f, s)))

ApplySubCmd(st, f) ==
    LET push(r) == [st EXCEPT !.s = r.s, !.commit = TRUE, !.out = Append(@, r.reply)]
    IN  CASE f.op = "OVERFLOW" -> [st EXCEPT !.policy = f.policy]
          [] f.op = "GET" -> [st EXCEPT !.out = Append(@, Num(BitfieldGet(f, st.s)))]
          [] f.op = "SET" -> push(BitfieldSet(f, f.v, st.policy, st.s))
          [] f.op = "INCRBY" -> push(BitfieldIncrBy(f, f.v, st.policy, st.s))

SubCmdOk(f, readOnly) ==
    \/ f.op = "OVERFLOW"
    \/ /\ f.bits \in 1..(IF f.signed THEN WordBits ELSE WordBits - 1)
       /\ f.op # "GET" => ~readOnly /\ WriteInRange(f.off, f.bits)
ExecBitfield(db, c, now) ==
    LET d == Find(db, c.k, now)
        run(s) == FoldLeft(ApplySubCmd, [s |-> s, policy |-> "WRAP", commit |-> FALSE, out |-> <<>>], c.subs)
        save(st) == IF ~st.commit THEN d
                    ELSE IF st.s = <<>> THEN RemoveKey(d, c.k) ELSE Insert(d, c.k, Str(st.s))
        done(st) == Ok(save(st), Arr(st.out))
        found(s) == done(run(s))
    IN  IF c.subs = <<>> THEN Ok(db, Arr(<<>>))
        ELSE IF \E i \in DOMAIN c.subs : ~SubCmdOk(c.subs[i], c.ro) THEN Err(db)
        ELSE OnStringOr(d, c.k, <<>>, found)

(***************************************************************************)
(* BITOP: c.ks[1] is the destination, the rest the sources.  Missing       *)
(* sources are left out, shorter ones count as padded with zero bytes.     *)
(***************************************************************************)
BitOf(op, a, b) ==
    CASE op = "AND" -> a * b
      [] op = "OR" -> IF a + b > 0 THEN 1 ELSE 0
      [] op = "XOR" -> (a + b) % 2
BitOperation(op, values) ==
    LET len == FoldLeft(LAMBDA n, s : IF Len(s) > n THEN Len(s) ELSE n, 0, values)
        at(s, j) == IF j > Len(s) THEN 0 ELSE s[j]
        both(a, b) == LET bit(i) == BitOf(op, BitAt(a, i), BitAt(b, i)) IN ByteOf(bit)
    IN  IF values = <<>> THEN <<>>
        ELSE IF op = "NOT" THEN [j \in DOMAIN values[1] |-> 2^ByteBits - 1 - values[1][j]]
        ELSE [j \in 1..len |->
                FoldLeft(LAMBDA acc, s : both(acc, at(s, j)), at(values[1], j), Tail(values))]

StrOrAbsent(s) == IF s = <<>> THEN Absent ELSE Str(s)
ExecBitOp(db, c, owned, now) ==
    LET srcs == InOrder(owned \ {1})
        seen(r, v) == IF v = Absent THEN r
                      ELSE IF IsStr(v) THEN [r EXCEPT !.vs = Append(@, v.str)] ELSE [r EXCEPT !.bad = TRUE]
        look(r, i) == IF r.bad THEN r
                      ELSE With(Find(r.db, c.ks[i], now), LAMBDA e : seen([r EXCEPT !.db = e], e.val[c.ks[i]]))
        finish(d, vs, out) ==
            IF owned = DOMAIN c.ks
            THEN Ok(IF out = <<>> THEN RemoveKey(d, c.ks[1])
                    ELSE Insert(ClearExpiry(d, c.ks[1]), c.ks[1], Str(out)), Num(Len(out)))
            ELSE IF vs = <<>> THEN Ok(d, Nil)
            ELSE Ok(d, Bulk(IF c.op = "NOT" THEN vs[1] ELSE out))
    IN  IF c.op = "NOT" /\ Len(c.ks) > 2 THEN Err(db)
        ELSE With(FoldLeft(look, [db |-> db, vs |-> <<>>, bad |-> FALSE], srcs), LAMBDA r :
                IF r.bad THEN Err(r.db) ELSE finish(r.db, r.vs, BitOperation(c.op, r.vs)))
MergeBitOp(parts, c) ==
    LET some == SelectSeq(parts, LAMBDA p : p.reply # Nil)
        out == BitOperation(c.op, [i \in DOMAIN some |-> some[i].reply[2]])
    IN  IF AnyErr(parts) THEN MergedErr
        ELSE MergedStore(<<Store(c.ks[1], StrOrAbsent(out), NoExpiry, FALSE)>>, Num(Len(out)))

BitReads == {"GETBIT", "BITCOUNT", "BITPOS", "BITFIELD_RO"}
ExecBits(db, c, owned, now) ==
    CASE c.cmd = "GETBIT" -> ExecGetBit(db, c, now)
      [] c.cmd = "SETBIT" -> ExecSetBit(db, c, now)
      [] c.cmd = "BITCOUNT" -> ExecBitCount(db, c, now)
      [] c.cmd = "BITPOS" -> ExecBitPos(db, c, now)
      [] c.cmd \in {"BITFIELD", "BITFIELD_RO"} -> ExecBitfield(db, c, now)
      [] c.cmd = "BITOP" -> ExecBitOp(db, c, owned, now)
MergeBits(parts, c) == MergeBitOp(parts, c)
=============================================================================
