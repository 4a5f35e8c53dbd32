-------------------------------- MODULE Json --------------------------------
(***************************************************************************)
(* The JSON commands (commands/exec/json.rs).  c.path is a parsed path:    *)
(* its segments, whether it is written in the legacy syntax, and whether   *)
(* it parses at all; the empty path is the root.  c.v is a document, or    *)
(* Invalid for text that does not parse.                                   *)
(***************************************************************************)
EXTENDS Strings, JsonPath

JsonVal(j) == [json |-> j]
IsJson(v) == TypeOf(v) = "json"
Invalid == [invalid |-> TRUE]
Path(segs, legacy) == [segs |-> segs, legacy |-> legacy, ok |-> TRUE]
BadPath == [segs |-> <<>>, legacy |-> TRUE, ok |-> FALSE]
RefersToRoot(p) == p.segs = <<>>

(* The shard thread panics: the command gets no reply.                     *)
PanicReply == <<"panic">>
Panic(d) == Ok(d, PanicReply)

(* An optional value, and the serialized form of a document: an integer    *)
(* reads the same whether it is held signed or unsigned.                   *)
NoVal == <<>>
Some(v) == <<v>>
RECURSIVE Dump(_)
Dump(j) ==
    CASE Kind(j) = "uint" -> JInt(j.uint)
      [] IsArr(j) -> JArr([i \in DOMAIN j.items |-> Dump(j.items[i])])
      [] IsObj(j) -> JObj([k \in DOMAIN j.members |-> Dump(j.members[k])])
      [] OTHER -> j
Dumped(j) == Bulk(Dump(j))

(***************************************************************************)
(* `JsonCallbackResult`.  Each match adds a value or its absence; a legacy *)
(* path keeps one of them, the first defined or the last, and answers an   *)
(* error, or nil where the command says so, when it has none.              *)
(***************************************************************************)
Kept(opts, saveFirst) ==
    LET first(defined) == IF defined = <<>> THEN NoVal ELSE Head(defined)
    IN  IF saveFirst THEN first(SelectSeq(opts, LAMBDA o : o # NoVal)) ELSE Last(opts)
SendLegacyV2(d, c, opts, style, elem(_)) ==
    LET show(o) == IF o = NoVal THEN Nil ELSE elem(o[1])
        single(o) == IF style.noneCapable /\ o = NoVal THEN Err(d) ELSE Ok(d, show(o))
    IN  CASE ~c.path.legacy -> Ok(d, Arr([i \in DOMAIN opts |-> show(opts[i])]))
          [] c.path.legacy /\ opts = <<>> -> IF style.nilOnEmpty THEN Ok(d, Nil) ELSE Err(d)
          [] OTHER -> single(Kept(opts, style.saveFirst))
Sizes == [nilOnEmpty |-> TRUE, saveFirst |-> TRUE, noneCapable |-> TRUE]
Names == [nilOnEmpty |-> TRUE, saveFirst |-> TRUE, noneCapable |-> FALSE]
Reports == [nilOnEmpty |-> TRUE, saveFirst |-> FALSE, noneCapable |-> FALSE]
Pops == [nilOnEmpty |-> TRUE, saveFirst |-> FALSE, noneCapable |-> TRUE]
Updates == [nilOnEmpty |-> FALSE, saveFirst |-> FALSE, noneCapable |-> TRUE]
AddEmpty(c) == IF c.path.legacy THEN <<>> ELSE <<NoVal>>

(* `json_mut` and the reads: the document of the key, or what the command  *)
(* answers when there is none; any other type is an error.                 *)
OnDocument(d, k, missing, f(_)) ==
    CASE d.val[k] = Absent -> missing
      [] IsJson(d.val[k]) -> f(d.val[k].json)
      [] OTHER -> Err(d)

(* A command that mutates every match, then answers from what f gathered.  *)
Mutating(db, c, now, f(_, _), acc, finish(_, _)) ==
    LET written(d, r) == IF r.stale THEN Panic(d)
                         ELSE finish(WriteThrough(d, c.k, JsonVal(r.val)), r.acc)
    IN  With(Find(db, c.k, now), LAMBDA d :
            OnDocument(d, c.k, Err(d), LAMBDA j : written(d, MutatePath(c.path.segs, j, f, acc))))

NormalizeNeg(i, size) == IF i >= 0 THEN i ELSE IF -i > size THEN 0 ELSE size + i
-----------------------------------------------------------------------------
(* JSON.SET.  `json_pointer_add` adds at a path of names and single        *)
(* positions, making the objects on the way; when it fails, what it made   *)
(* so far stays.                                                           *)
RECURSIVE PointerAdd(_, _, _)
PointerAdd(j, path, v) ==
    LET seg == Head(path)
        fail == [ok |-> FALSE, val |-> j]
        isNew == ~Has(j, IF seg.kind = "key" THEN seg.key ELSE seg.first + 1)
        child == IF ~isNew THEN Child(j, IF seg.kind = "key" THEN seg.key ELSE seg.first + 1)
                 ELSE IF seg.kind = "key" THEN JObj(NoMembers) ELSE JNull
        r == PointerAdd(child, Tail(path), v)
    IN  IF path = <<>> THEN [ok |-> TRUE, val |-> v]
        ELSE CASE seg.kind = "key" /\ IsObj(j) ->
                    [ok |-> r.ok, val |-> WithMember(j, seg.key, r.val)]
               [] seg.kind = "index" /\ IsArr(j) ->
                    IF seg.first # seg.second \/ seg.first \notin 0..Len(j.items) THEN fail
                    ELSE [ok |-> r.ok, val |-> JArr(IF isNew THEN Append(j.items, r.val)
                                                    ELSE [j.items EXCEPT ![seg.first + 1] = r.val])]
               [] OTHER -> fail

OpSetRoot(db, k, v, nx, xx, now) ==
    With(Find(db, k, now), LAMBDA d :
        IF (nx /\ d.val[k] # Absent) \/ (xx /\ d.val[k] = Absent) THEN Ok(d, Nil)
        ELSE IF TypeOf(d.val[k]) \notin {"none", "json", "str"} \/ v = Invalid THEN Err(d)
        ELSE Ok(Insert(ClearExpiry(d, k), k, JsonVal(v)), OkReply))

OpSetPartial(db, k, segs, v, nx, xx, now) ==
    LET assign(old, found) == [val |-> IF nx THEN old ELSE v, acc |-> TRUE]
        write(d, x, reply) == Ok(WriteThrough(d, k, JsonVal(x)), reply)
        add(d, r) == write(d, r.val, IF r.ok THEN OkReply ELSE ErrReply)
        set(d, j, r) == CASE r.stale -> Panic(d)
                          [] ~r.stale /\ ~r.acc /\ ~xx -> add(d, PointerAdd(j, segs, v))
                          [] ~r.stale /\ r.acc /\ ~nx -> write(d, r.val, OkReply)
                          [] OTHER -> Ok(d, Nil)
    IN  IF v = Invalid THEN Err(db)
        ELSE With(Find(db, k, now), LAMBDA d :
                OnDocument(d, k, Err(d), LAMBDA j : set(d, j, MutatePath(segs, j, assign, FALSE))))

OpSet(db, k, path, v, nx, xx, now) ==
    IF ~path.ok THEN Err(db)
    ELSE IF RefersToRoot(path) THEN OpSetRoot(db, k, v, nx, xx, now)
    ELSE OpSetPartial(db, k, path.segs, v, nx, xx, now)
ExecJsonSet(db, c, now) ==
    IF c.nx /\ c.xx THEN Err(db) ELSE OpSet(db, c.k, c.path, c.v, c.nx, c.xx, now)

(* JSON.MSET: every shard walks the keys of the whole command, its own and *)
(* the others', and stops at the first error.                              *)
ExecJsonMSet(db, c, now) ==
    LET one(r, i) == IF r.reply \in {ErrReply, PanicReply} THEN r
                     ELSE OpSet(r.db, c.ks[i], c.paths[i], c.vs[i], FALSE, FALSE, now)
        answer(last) == IF last.reply \in {ErrReply, PanicReply} THEN last ELSE Ok(last.db, OkReply)
    IN  answer(FoldLeft(one, Ok(db, OkReply), [i \in DOMAIN c.ks |-> i]))
-----------------------------------------------------------------------------
(* `eval_wrapped`: a legacy path gives its last match, if any; the other   *)
(* syntax an array of the matches.                                         *)
EvalWrapped(p, j) ==
    With(EvalPath(p.segs, j), LAMBDA vals :
        IF ~p.legacy THEN Some(JArr(vals)) ELSE IF vals = <<>> THEN NoVal ELSE Some(Last(vals)))

(* A string that holds JSON text is read as a document; in this model's    *)
(* alphabet, the canonical integers.                                       *)
Readable(v) == IsJson(v) \/ (IsStr(v) /\ IsInt(v.str) /\ Itoa(Signed(v.str)) = v.str)
DocOf(v) == IF IsJson(v) THEN v.json ELSE JInt(Signed(v.str))

ExecJsonGet(db, c, now) ==
    LET ps == c.paths
        legacy == \A i \in DOMAIN ps : ps[i].legacy
        wrapped(i, r) == IF r = NoVal THEN JArr(<<>>)
                         ELSE IF ps[i].legacy /\ ~legacy THEN JArr(r) ELSE r[1]
        of(res) == CASE legacy /\ NoVal \in Range(res) -> ErrReply
                     [] ~(legacy /\ NoVal \in Range(res)) /\ Len(ps) = 1 -> Dumped(res[1][1])
                     [] OTHER -> Bulk({<<ps[i], Dump(wrapped(i, res[i]))>> : i \in DOMAIN ps})
        read(v) == CASE v = Absent -> Nil
                     [] v # Absent /\ ~Readable(v) -> ErrReply
                     [] Readable(v) /\ ps = <<>> -> Dumped(DocOf(v))
                     [] OTHER -> of([i \in DOMAIN ps |-> EvalWrapped(ps[i], DocOf(v))])
    IN  IF \E i \in DOMAIN ps : ~ps[i].ok THEN Err(db)
        ELSE With(Find(db, c.k, now), LAMBDA d : Ok(d, read(d.val[c.k])))

ExecJsonMGet(db, c, owned, now) ==
    LET order == InOrder(owned)
        show(r) == IF r = NoVal THEN Nil ELSE Dumped(r[1])
        one(v) == IF Readable(v) THEN show(EvalWrapped(c.path, DocOf(v))) ELSE Nil
    IN  IF ~c.path.ok THEN Err(db)
        ELSE With(FoldLeft(LAMBDA e, i : Find(e, c.ks[i], now), db, order), LAMBDA d :
                Ok(d, Arr([n \in DOMAIN order |-> one(d.val[c.ks[order[n]]])])))
MergeJsonMGet(parts, c) ==
    LET at(i) == LET p == PartOf(parts, i) IN p.reply[2][Cardinality({j \in p.owned : j <= i})]
    IN  IF AnyErr(parts) THEN MergedErr ELSE Merged(Arr([i \in DOMAIN c.ks |-> at(i)]))

(***************************************************************************)
(* Reads that report something of every match: what it is of a document,   *)
(* or NoVal.  A missing key is an error, nil, or nil for legacy paths      *)
(* only.  STRLEN, OBJLEN, ARRLEN, OBJKEYS unwrap the parsed path.          *)
(***************************************************************************)
Report(db, c, now, missing, style, of(_), elem(_)) ==
    LET opts(vals) == [i \in DOMAIN vals |-> of(vals[i])]
        none == IF missing = "nil" \/ (missing = "legacy" /\ c.path.legacy) THEN Nil ELSE ErrReply
    IN  With(Find(db, c.k, now), LAMBDA d :
            OnDocument(d, c.k, Ok(d, none),
                       LAMBDA j : SendLegacyV2(d, c, opts(EvalPath(c.path.segs, j)), style, elem)))
Checked(db, c, r) == IF c.path.ok THEN r ELSE Err(db)
Unwrapped(db, c, r) == IF c.path.ok THEN r ELSE Panic(db)

JsonTypeName(j) ==
    CASE Kind(j) \in {"int", "uint"} -> "integer" [] OTHER -> Kind(j)
ExecJsonType(db, c, now) ==
    LET of(j) == Some(JsonTypeName(j)) IN Checked(db, c, Report(db, c, now, "nil", Reports, of, Bulk))
ExecJsonStrLen(db, c, now) ==
    LET of(j) == IF Kind(j) = "text" THEN Some(Len(j.text)) ELSE NoVal
    IN  Unwrapped(db, c, Report(db, c, now, "legacy", Sizes, of, Num))
ExecJsonObjLen(db, c, now) ==
    LET of(j) == IF IsObj(j) THEN Some(Len(AllSteps(j))) ELSE NoVal
    IN  Unwrapped(db, c, Report(db, c, now, "legacy", Sizes, of, Num))
ExecJsonArrLen(db, c, now) ==
    LET of(j) == IF IsArr(j) THEN Some(Len(j.items)) ELSE NoVal
    IN  Unwrapped(db, c, Report(db, c, now, "nil", Sizes, of, Num))
ExecJsonObjKeys(db, c, now) ==
    LET of(j) == Some(IF IsObj(j) THEN AllSteps(j) ELSE <<>>)
    IN  Unwrapped(db, c, Report(db, c, now, "legacy", Names, of, Arr))
ExecJsonFields(db, c, now) ==
    LET of(j) == Some(CountFields(j))
    IN  Checked(db, c, Report(db, c, now, "err", Pops, of, Num))

RECURSIVE JsonToResp(_)
JsonToResp(j) ==
    CASE Kind(j) = "null" -> Nil
      [] Kind(j) \in {"int", "uint"} -> Num(NumberOf(j))
      [] IsArr(j) -> Arr(<<Bulk("[")>> \o [i \in DOMAIN j.items |-> JsonToResp(j.items[i])])
      [] IsObj(j) -> LET ks == AllSteps(j)
                     IN  Arr(<<Bulk("{")>> \o [i \in DOMAIN ks |-> Arr(<<Num(ks[i]), JsonToResp(Child(j, ks[i]))>>)])
      [] OTHER -> Bulk(j)
ExecJsonResp(db, c, now) ==
    LET of(j) == Some(JsonToResp(j))
        same(r) == r
    IN  Checked(db, c, Report(db, c, now, "err", Reports, of, same))

(* JSON.ARRINDEX compares strictly: a signed and an unsigned integer are   *)
(* different documents.                                                    *)
ExecArrIndex(db, c, now) ==
    LET search(items) ==
            LET size == Len(items)
                s == NormalizeNeg(c.start, size)
                e == IF c.end = 0 THEN size ELSE NormalizeNeg(c.end, size)
                from == Least(s, size - 1)
                hits == {i \in from..Least(e, size - 1) : items[i + 1] = c.v}
            IN  IF size = 0 \/ (c.start < 0 /\ -c.start > size) \/ (s >= size /\ e < size) \/ hits = {}
                THEN -1 ELSE CHOOSE i \in hits : \A h \in hits : i <= h
        of(j) == IF IsArr(j) THEN Some(search(j.items)) ELSE NoVal
    IN  IF c.v = Invalid THEN Err(db)
        ELSE Checked(db, c, Report(db, c, now, "err", Updates, of, Num))
-----------------------------------------------------------------------------
ExecJsonDel(db, c, now) ==
    LET written(d, r) == Ok(WriteThrough(d, c.k, JsonVal(r.val)), Num(r.n))
        root(d, v) == IF v = Absent THEN Ok(d, Num(0))
                      ELSE IF ~IsJson(v) THEN Err(d) ELSE Ok(RemoveKey(d, c.k), Num(1))
    IN  IF ~c.path.ok THEN Err(db)
        ELSE With(Find(db, c.k, now), LAMBDA d :
                IF RefersToRoot(c.path) THEN root(d, d.val[c.k])
                ELSE IF ~IsJson(d.val[c.k]) THEN Ok(d, Num(0))
                ELSE written(d, DeletePath(c.path.segs, d.val[c.k].json)))

ExecStrAppend(db, c, now) ==
    LET f(j, opts) == IF Kind(j) = "text"
                      THEN [val |-> JStr(j.text \o c.v.text), acc |-> Append(opts, Some(Len(j.text \o c.v.text)))]
                      ELSE [val |-> j, acc |-> opts \o AddEmpty(c)]
        finish(d, opts) == SendLegacyV2(d, c, opts, Updates, Num)
    IN  IF Kind(c.v) # "text" THEN Err(db)
        ELSE Unwrapped(db, c, Mutating(db, c, now, f, <<>>, finish))

ExecToggle(db, c, now) ==
    LET f(j, opts) == IF Kind(j) = "bool" THEN [val |-> JBool(~j.bool), acc |-> Append(opts, Some(~j.bool))]
                      ELSE [val |-> j, acc |-> opts \o AddEmpty(c)]
        finish(d, opts) == SendLegacyV2(d, c, opts, Updates, Bulk)
    IN  Checked(db, c, Mutating(db, c, now, f, <<>>, finish))

ExecClear(db, c, now) ==
    LET f(j, n) == CASE IsObj(j) -> [val |-> JObj(NoMembers), acc |-> n + 1]
                     [] IsArr(j) -> [val |-> JArr(<<>>), acc |-> n + 1]
                     [] IsNumber(j) -> [val |-> JInt(0), acc |-> n + 1]
                     [] OTHER -> [val |-> j, acc |-> n]
        finish(d, n) == Ok(d, Num(n))
    IN  Unwrapped(db, c, Mutating(db, c, now, f, 0, finish))

ExecArrPop(db, c, now) ==
    LET f(j, opts) ==
            IF IsArr(j) /\ j.items # <<>>
            THEN LET at == Least(NormalizeNeg(c.index, Len(j.items)), Len(j.items) - 1) + 1
                 IN  [val |-> JArr(RemoveAt(j.items, at)), acc |-> Append(opts, Some(j.items[at]))]
            ELSE [val |-> j, acc |-> opts \o AddEmpty(c)]
        finish(d, opts) == SendLegacyV2(d, c, opts, Pops, Dumped)
    IN  Checked(db, c, Mutating(db, c, now, f, <<>>, finish))

ExecArrTrim(db, c, now) ==
    LET trim(items) ==
            LET size == Len(items)
                s == NormalizeNeg(c.start, size)
                e == NormalizeNeg(c.stop, size)
            IN  IF s >= size \/ s > e THEN <<>> ELSE SubSeq(items, s + 1, Least(e, size - 1) + 1)
        f(j, opts) == IF IsArr(j) THEN [val |-> JArr(trim(j.items)), acc |-> Append(opts, Some(Len(trim(j.items))))]
                      ELSE [val |-> j, acc |-> opts \o AddEmpty(c)]
        finish(d, opts) == SendLegacyV2(d, c, opts, Updates, Num)
    IN  Checked(db, c, Mutating(db, c, now, f, <<>>, finish))

(* The first array too short for the index stops the rest and fails the    *)
(* command; the arrays before it keep the new elements.                    *)
ExecArrInsert(db, c, now) ==
    LET fits(n) == IF c.index < 0 THEN -c.index <= n ELSE c.index <= n
        before(n) == IF c.index < 0 THEN n + c.index ELSE c.index
        ins(items) == SubSeq(items, 1, before(Len(items))) \o c.vs
                      \o SubSeq(items, before(Len(items)) + 1, Len(items))
        f(j, a) == CASE a.oob -> [val |-> j, acc |-> a]
                     [] ~a.oob /\ IsArr(j) ->
                          IF ~fits(Len(j.items)) THEN [val |-> j, acc |-> [a EXCEPT !.oob = TRUE]]
                          ELSE [val |-> JArr(ins(j.items)),
                                acc |-> [a EXCEPT !.opts = Append(@, Some(Len(j.items) + Len(c.vs)))]]
                     [] OTHER -> [val |-> j, acc |-> [a EXCEPT !.opts = @ \o AddEmpty(c)]]
        finish(d, a) == IF a.oob THEN Err(d) ELSE SendLegacyV2(d, c, a.opts, Updates, Num)
    IN  IF Invalid \in Range(c.vs) THEN Err(db)
        ELSE Checked(db, c, Mutating(db, c, now, f, [oob |-> FALSE, opts |-> <<>>], finish))

ExecArrAppend(db, c, now) ==
    LET f(j, opts) == IF IsArr(j) THEN [val |-> JArr(j.items \o c.vs), acc |-> Append(opts, Some(Len(j.items \o c.vs)))]
                      ELSE [val |-> j, acc |-> opts \o AddEmpty(c)]
        finish(d, opts) == SendLegacyV2(d, c, opts, Updates, Num)
    IN  IF Invalid \in Range(c.vs) THEN Err(db)
        ELSE Checked(db, c, Mutating(db, c, now, f, <<>>, finish))

(* JSON.NUMINCRBY and NUMMULTBY.  A result of integers is held unsigned    *)
(* when it is not negative; one below i64::MIN fails the command after the *)
(* other matches were changed.                                             *)
BinOpApply(j, c) ==
    LET n == IF c.op = "add" THEN NumberOf(j) + c.num ELSE NumberOf(j) * c.num
    IN  CASE Kind(j) = "dbl" \/ c.fractional -> Some(JDouble(n))
          [] ~(Kind(j) = "dbl" \/ c.fractional) /\ n >= 0 -> Some(JUint(Least(n, 2 * MaxInt + 1)))
          [] OTHER -> IF n >= MinInt THEN Some(JInt(n)) ELSE NoVal
ExecArith(db, c, now) ==
    LET f(j, a) == IF ~IsNumber(j) THEN [val |-> j, acc |-> [a EXCEPT !.opts = Append(@, NoVal)]]
                   ELSE LET r == BinOpApply(j, c)
                        IN  IF r = NoVal THEN [val |-> j, acc |-> [a EXCEPT !.over = TRUE]]
                            ELSE [val |-> r[1], acc |-> [a EXCEPT !.opts = Append(@, r), !.last = r]]
        finish(d, a) == CASE a.over -> Err(d)
                          [] ~a.over /\ c.path.legacy -> IF a.last = NoVal THEN Err(d) ELSE Ok(d, Dumped(a.last[1]))
                          [] OTHER -> Ok(d, Dumped(JArr([i \in DOMAIN a.opts |->
                                               IF a.opts[i] = NoVal THEN JNull ELSE a.opts[i][1]])))
    IN  Checked(db, c, Mutating(db, c, now, f, [over |-> FALSE, opts |-> <<>>, last |-> NoVal], finish))

ExecJsonMerge(db, c, now) ==
    LET d == Find(db, c.k, now)
        f(j, acc) == [val |-> MergePatch(j, c.v), acc |-> acc]
        finish(e, acc) == Ok(e, OkReply)
    IN  CASE ~c.path.ok \/ c.v = Invalid -> Err(db)
          [] c.path.ok /\ c.v # Invalid /\ d.val[c.k] = Absent ->
                IF RefersToRoot(c.path) THEN Ok(Insert(ClearExpiry(d, c.k), c.k, JsonVal(c.v)), OkReply) ELSE Err(d)
          [] OTHER -> Mutating(db, c, now, f, TRUE, finish)
-----------------------------------------------------------------------------
JsonReads ==
    {"JSON.GET", "JSON.MGET", "JSON.TYPE", "JSON.STRLEN", "JSON.OBJLEN", "JSON.ARRLEN",
     "JSON.OBJKEYS", "JSON.ARRINDEX", "JSON.DEBUG", "JSON.RESP"}
ExecJson(db, c, owned, now) ==
    CASE c.cmd = "JSON.GET" -> ExecJsonGet(db, c, now)
      [] c.cmd = "JSON.MGET" -> ExecJsonMGet(db, c, owned, now)
      [] c.cmd = "JSON.TYPE" -> ExecJsonType(db, c, now)
      [] c.cmd = "JSON.STRLEN" -> ExecJsonStrLen(db, c, now)
      [] c.cmd = "JSON.OBJLEN" -> ExecJsonObjLen(db, c, now)
      [] c.cmd = "JSON.ARRLEN" -> ExecJsonArrLen(db, c, now)
      [] c.cmd = "JSON.TOGGLE" -> ExecToggle(db, c, now)
      [] c.cmd = "JSON.NUMINCRBY" -> ExecArith(db, c, now)
      [] c.cmd = "JSON.DEL" -> ExecJsonDel(db, c, now)
      [] c.cmd = "JSON.OBJKEYS" -> ExecJsonObjKeys(db, c, now)
      [] c.cmd = "JSON.STRAPPEND" -> ExecStrAppend(db, c, now)
      [] c.cmd = "JSON.CLEAR" -> ExecClear(db, c, now)
      [] c.cmd = "JSON.ARRPOP" -> ExecArrPop(db, c, now)
      [] c.cmd = "JSON.ARRTRIM" -> ExecArrTrim(db, c, now)
      [] c.cmd = "JSON.ARRINSERT" -> ExecArrInsert(db, c, now)
      [] c.cmd = "JSON.ARRAPPEND" -> ExecArrAppend(db, c, now)
      [] c.cmd = "JSON.ARRINDEX" -> ExecArrIndex(db, c, now)
      [] c.cmd = "JSON.DEBUG" -> ExecJsonFields(db, c, now)
      [] c.cmd = "JSON.RESP" -> ExecJsonResp(db, c, now)
      [] c.cmd = "JSON.SET" -> ExecJsonSet(db, c, now)
      [] c.cmd = "JSON.MSET" -> ExecJsonMSet(db, c, now)
      [] c.cmd = "JSON.MERGE" -> ExecJsonMerge(db, c, now)

(* JSON.MSET has no merge: the first shard's reply is the reply.           *)
MergeJson(parts, c) == IF c.cmd = "JSON.MGET" THEN MergeJsonMGet(parts, c) ELSE Merged(parts[1].reply)
=============================================================================
