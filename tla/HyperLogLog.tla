---------------------------- MODULE HyperLogLog ----------------------------
(***************************************************************************)
(* HyperLogLog (core/hll.rs) and PFADD, PFCOUNT and PFMERGE                *)
(* (commands/exec/hlls.rs).                                                *)
(*                                                                         *)
(* An HLL is a string: a magic, the encoding, the state of the cached      *)
(* cardinality, and then either a register per character (dense) or run    *)
(* length opcodes (sparse).  The characters are codes of their own, apart  *)
(* from the ones other strings use; an XZERO opcode is one character that  *)
(* counts for two bytes.  The only cardinality ever cached is the 0 of a   *)
(* new HLL, because PFCOUNT does not write its result back.                *)
(***************************************************************************)
EXTENDS Bloom

CONSTANTS
    Registers,       \* HLL_REGISTERS
    MaxPattern,      \* HLL_Q + 1, the longest pattern
    ZeroMaxLen,      \* HLL_SPARSE_ZERO_MAX_LEN
    ValMaxLen,       \* HLL_SPARSE_VAL_MAX_LEN
    ValMax,          \* HLL_SPARSE_VAL_MAX_VALUE
    SparseMaxBytes   \* HLL_SPARSE_MAX_BYTES

ASSUME HllAssumption ==
    /\ {Registers, MaxPattern, ZeroMaxLen, ValMaxLen, ValMax, SparseMaxBytes} \subseteq Nat \ {0}
    /\ MaxPattern < 10 /\ Registers < 100 /\ ValMaxLen < 10

Magic == 90
Dense == 91
Sparse == 92
CardZero == 93
CardStale == 94
HdrLen == 3
Hll(enc, card, body) == <<Magic, enc, card>> \o body
EncodingOf(s) == s[2]
BodyOf(s) == SubSeq(s, HdrLen + 1, Len(s))

(* The opcodes of the sparse encoding and a dense register.  A character   *)
(* of another string reads as a run of zeros.                              *)
Zeros(n) == IF n > ZeroMaxLen THEN 200 + n ELSE 100 + n
Val(v, n) == 300 + 10 * v + n
Register(v) == 400 + v
IsVal(o) == o \in 300..399
RunLen(o) == IF IsVal(o) THEN o % 10 ELSE o % 100
ValueOf(o) == IF IsVal(o) THEN (o - 300) \div 10 ELSE 0
Bytes(ops) == Len(ops) + Len(SelectSeq(ops, LAMBDA o : o \in 200..299))

(* `is_valid_hll`.                                                         *)
Validness(s) ==
    IF Len(s) < HdrLen \/ s[1] # Magic THEN "invalid"
    ELSE IF EncodingOf(s) = Sparse THEN "sparse"
    ELSE IF Len(s) = HdrLen + Registers THEN "dense" ELSE "invalid"

(* `hll_pat_len`: the register of an element and its pattern length.       *)
RegisterOf(item) == ItemHash[item][1] % Registers
Pattern(item) == (ItemHash[item][2] % MaxPattern) + 1

(* The registers a sparse body stands for; `sparse_to_dense_registers`     *)
(* refuses runs that do not cover exactly the registers there are.         *)
Covered(ops) == FoldLeft(LAMBDA n, o : n + RunLen(o), 0, ops)
SparseOk(ops) == Covered(ops) = Registers
Unpacked(ops) ==
    FoldLeft(LAMBDA rs, o : rs \o [i \in 1..RunLen(o) |-> ValueOf(o)], <<>>, ops)
RegistersOf(s) ==
    IF EncodingOf(s) = Dense THEN [i \in 1..Registers |-> BodyOf(s)[i] - Register(0)]
    ELSE Unpacked(BodyOf(s))
DenseHll(card, rs) == Hll(Dense, card, [i \in 1..Registers |-> Register(rs[i])])
Usable(s) == Validness(s) = "dense" \/ (Validness(s) = "sparse" /\ SparseOk(BodyOf(s)))
ToDense(s) == IF EncodingOf(s) = Dense THEN s ELSE DenseHll(s[3], RegistersOf(s))

(* `hll_sparse_merge_adjacent`: over five opcodes from `p`, join equal     *)
(* values whose runs fit one opcode.                                       *)
MergeAdjacent(ops, p) ==
    LET joinable(o, i) == /\ i < Len(o) /\ IsVal(o[i]) /\ IsVal(o[i + 1])
                          /\ ValueOf(o[i]) = ValueOf(o[i + 1])
                          /\ RunLen(o[i]) + RunLen(o[i + 1]) <= ValMaxLen
        join(o, i) == SubSeq(o, 1, i - 1) \o <<Val(ValueOf(o[i]), RunLen(o[i]) + RunLen(o[i + 1]))>>
                      \o SubSeq(o, i + 2, Len(o))
        step(r, n) == IF r.p > Len(r.ops) THEN r
                      ELSE IF joinable(r.ops, r.p) THEN [r EXCEPT !.ops = join(r.ops, r.p)]
                      ELSE [r EXCEPT !.p = @ + 1]
    IN  FoldLeft(step, [ops |-> ops, p |-> p], <<1, 2, 3, 4, 5>>).ops

(* `hll_sparse_set`: the opcode over the register is replaced by up to     *)
(* three.  Register indices start at 1.                                    *)
(* Mutant: the registers before the one that is set are lost.              *)
SplitAfter(o, before, count, after) ==
    <<Val(count, 1)>> \o (IF after = 0 THEN <<>> ELSE <<IF IsVal(o) THEN Val(ValueOf(o), after) ELSE Zeros(after)>>)
Split(o, before, count, after) ==
    LET run(n) == IF n = 0 THEN <<>> ELSE <<IF IsVal(o) THEN Val(ValueOf(o), n) ELSE Zeros(n)>>
    IN  run(before) \o <<Val(count, 1)>> \o run(after)
Raised(rs, index, count) == [rs EXCEPT ![index] = IF count > @ THEN count ELSE @]
(* A sparse value is rewritten as a dense one when it has no room.         *)
Promoted(s, index, count) ==
    IF SparseOk(BodyOf(s))
    THEN [ret |-> 1, hll |-> DenseHll(CardStale, Raised(RegistersOf(s), index, count))]
    ELSE [ret |-> -1, hll |-> s]
SparseSet(s, index, count) ==
    LET ops == BodyOf(s)
        first(j) == Covered(SubSeq(ops, 1, j - 1))
        over == {j \in DOMAIN ops : index <= first(j) + RunLen(ops[j])}
        result(r, hll) == [ret |-> r, hll |-> hll]
        seq(o, done) == Split(o, index - done - 1, count, done + RunLen(o) - index)
        kept(at, new) == result(1, Hll(Sparse, CardStale, MergeAdjacent(new, IF at = 1 THEN 1 ELSE at - 1)))
        fits(grows, new) == ~grows \/ HdrLen + Bytes(new) <= SparseMaxBytes
        replaced(at, new) == SubSeq(ops, 1, at - 1) \o new \o SubSeq(ops, at + 1, Len(ops))
        put(at, new) == With(replaced(at, new), LAMBDA all :
            IF fits(Bytes(new) > Bytes(<<ops[at]>>), all) THEN kept(at, all) ELSE Promoted(s, index, count))
    IN  IF count > ValMax THEN Promoted(s, index, count)
        ELSE With(over, LAMBDA js :
                IF js = {} THEN result(-1, s)
                ELSE IF ValueOf(ops[Min(js)]) >= count THEN result(0, s)
                ELSE put(Min(js), seq(ops[Min(js)], first(Min(js)))))

(* `hll_dense_set`.                                                        *)
DenseSet(s, index, count) ==
    With(RegistersOf(s), LAMBDA rs :
        IF rs[index] >= count THEN [ret |-> 0, hll |-> s]
        ELSE [ret |-> 1, hll |-> DenseHll(CardStale, Raised(rs, index, count))])
PfAddOne(s, item) ==
    IF EncodingOf(s) = Sparse THEN SparseSet(s, RegisterOf(item) + 1, Pattern(item))
    ELSE DenseSet(s, RegisterOf(item) + 1, Pattern(item))

(* The estimate is computed from the histogram of the registers; it stands *)
(* for the number.  That of empty registers is 0.                          *)
EstimateOf(rs) ==
    IF \A i \in DOMAIN rs : rs[i] = 0 THEN Num(0)
    ELSE <<"estimate", [v \in 0..MaxPattern |-> Cardinality({i \in DOMAIN rs : rs[i] = v})]>>
Union(hs) ==
    [i \in 1..Registers |-> Max({0} \cup {RegistersOf(hs[n])[i] : n \in DOMAIN hs})]

-----------------------------------------------------------------------------
EmptyHll == Hll(Sparse, CardZero, <<Zeros(Registers)>>)
ExecPfAdd(db, c, now) ==
    LET joined(ret, a) == [ret |-> IF a.ret # 0 THEN a.ret ELSE ret, hll |-> a.hll]
        step(r, item) == IF r.ret < 0 THEN r ELSE joined(r.ret, PfAddOne(r.hll, item))
        written(d, r) == IF r.ret < 0 THEN Err(d) ELSE Ok(Insert(d, c.k, Str(r.hll)), Num(r.ret))
        add(d, s) == IF Validness(s) = "invalid" THEN Err(d)
                     ELSE written(d, FoldLeft(step, [ret |-> 0, hll |-> s], c.items))
    IN  With(Find(db, c.k, now), LAMBDA d : OnStringOr(d, c.k, EmptyHll, LAMBDA s : add(d, s)))

(* `collect_hlls`: the HLLs of the owned keys, as dense values; missing    *)
(* keys are skipped.                                                       *)
Looked(db, c, owned, now) == FoldLeft(LAMBDA d, i : Find(d, c.ks[i], now), db, InOrder(owned))
Unusable(d, k) == Holds(d, k) /\ ~(IsStr(d.val[k]) /\ Usable(d.val[k].str))
Gathered(d, c, owned) ==
    LET there == InOrder({i \in owned : Holds(d, c.ks[i])})
    IN  [n \in DOMAIN there |-> ToDense(d.val[c.ks[there[n]]].str)]
PartHlls(parts) == FoldLeft(LAMBDA acc, p : acc \o p.reply[2], <<>>, parts)

ExecPfCount(db, c, owned, now) ==
    LET single == c.ks[1]
        zero(d, hs) == Len(c.ks) = 1 /\ (hs = <<>> \/ d.val[single].str[3] = CardZero)
        answer(d, hs) == IF zero(d, hs) THEN Num(0)
                         ELSE IF owned = DOMAIN c.ks THEN EstimateOf(Union(hs)) ELSE Arr(hs)
    IN  With(Looked(db, c, owned, now), LAMBDA d :
            IF \E i \in owned : Unusable(d, c.ks[i]) THEN Err(d)
            ELSE Ok(d, answer(d, Gathered(d, c, owned))))
(* Mutant: the first shard answers for all.                                *)
MergePfCountFirst(parts, c) ==
    IF AnyErr(parts) THEN MergedErr ELSE Merged(EstimateOf(Union(PartHlls(<<parts[1]>>))))
MergePfCount(parts, c) ==
    IF AnyErr(parts) THEN MergedErr ELSE Merged(EstimateOf(Union(PartHlls(parts))))

ExecPfMerge(db, c, owned, now) ==
    LET merge(d, hs) == IF owned = DOMAIN c.ks
                        THEN Ok(Insert(d, c.ks[1], Str(DenseHll(CardStale, Union(hs)))), OkReply)
                        ELSE Ok(d, Arr(hs))
    IN  With(Looked(db, c, owned, now), LAMBDA d :
            IF \E i \in owned : Unusable(d, c.ks[i]) THEN Err(d) ELSE merge(d, Gathered(d, c, owned)))
MergePfMerge(parts, c) ==
    LET v == Str(DenseHll(CardStale, Union(PartHlls(parts))))
    IN  IF AnyErr(parts) THEN MergedErr ELSE MergedStore(<<Store(c.ks[1], v, NoExpiry, FALSE)>>, OkReply)

HllReads == {"PFCOUNT"}
ExecHll(db, c, owned, now) ==
    CASE c.cmd = "PFADD" -> ExecPfAdd(db, c, now)
      [] c.cmd = "PFCOUNT" -> ExecPfCount(db, c, owned, now)
      [] c.cmd = "PFMERGE" -> ExecPfMerge(db, c, owned, now)
MergeHll(parts, c) ==
    CASE c.cmd = "PFCOUNT" -> MergePfCount(parts, c)
      [] c.cmd = "PFMERGE" -> MergePfMerge(parts, c)
=============================================================================
