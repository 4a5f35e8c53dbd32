----------------------------- MODULE MCKeyspace -----------------------------
(***************************************************************************)
(* The command sets the model checker runs against a keyspace of two keys. *)
(* Commands on one key act on "a"; "b" is the other key of the commands on *)
(* several, and what every family can do to it.                            *)
(***************************************************************************)
EXTENDS Keyspace

n1 == <<Digit(1)>>
n9 == <<Digit(9)>>
x == <<Letter>>
No == {FALSE}
Either == BOOLEAN
A == {"a"}
AB == <<"a", "b">>
BA == <<"b", "a">>
Of(fam, name, rs) == {[fam |-> fam, cmd |-> name] @@ r : r \in rs}

(* Items whose hashes collide, in a filter, a row or a register, and items *)
(* whose hashes do not.                                                    *)
i2 == <<14>>
i3 == <<15>>
MCItemHash == [i \in {n1, x, i2, i3} |->
                 CASE i = n1 -> <<1, 1>> [] i = x -> <<5, 2>> [] i = i2 -> <<2, 3>> [] i = i3 -> <<9, 0>>]

Rel(ms) == [kind |-> "rel", ms |-> ms]
Abs(ms) == [kind |-> "abs", ms |-> ms]
Persist == [kind |-> "persist", ms |-> 0]
ExpireCmd(ks, ts, flag) ==
    Of("key", "EXPIRE", [k : ks, t : ts, abs : No, nx : flag, xx : flag, gt : No, lt : No])
Plain(k, v) == Of("string", "SET", [k : {k}, v : {v}, nx : No, xx : No, keepttl : No, get : No,
                                    stick : No, ex : {NoEx}])

StringCommands ==
    LET S(name, rs) == Of("string", name, rs)
        set == [k : A, v : {x}, nx : No, xx : No, keepttl : No, get : No, stick : No, ex : {NoEx}]
        with(f, vals) == {[r EXCEPT ![f] = v] : r \in set, v \in vals}
    IN  Plain("b", n9)
        \cup S("SET", with("nx", Either) \cup with("xx", Either) \cup with("keepttl", Either)
                      \cup with("get", Either) \cup with("stick", Either) \cup with("v", {n1})
                      \cup with("ex", {Rel(1), Rel(3), Abs(2)}))
        \cup S("GET", [k : A]) \cup S("STRLEN", [k : A]) \cup S("GETDEL", [k : A])
        \cup S("GETSET", [k : A, v : {x}]) \cup S("SETNX", [k : A, v : {n1}])
        \cup S("SETEX", [k : A, v : {x}, ttl : {0, 1}, unitMs : Either])
        \cup S("APPEND", [k : A, v : {n9}]) \cup S("PREPEND", [k : A, v : {x}])
        \cup S("GETRANGE", [k : A, start : {-2, 0, 1}, stop : {-1, 0}])
        \cup S("SETRANGE", [k : A, off : {-1, 0, 1}, v : {<<>>, x}])
        \cup S("GETEX", [k : A, ex : {NoEx, Rel(0), Rel(1), Abs(1), Persist}])
        \cup S("INCRBY", [k : A, by : {9}]) \cup S("DECRBY", [k : A, by : {MinInt, 9}])
        \cup S("INCRBYFLOAT", [k : A, by : {9}, inf : Either])
        \cup S("MSET", [ks : {BA}, vs : {<<n9, x>>, <<n1>>}])
        \cup S("MSETNX", [ks : {AB}, vs : {<<n1, x>>}])
        \cup S("MGET", [ks : {AB, <<"b", "a", "b">>}])
        \cup S("CL.THROTTLE", [k : A, limit : {2}, interval : {1}, quantity : {1, 2}])

ListCommands ==
    LET L(name, rs) == Of("list", name, rs)
    IN  Plain("b", x) \cup ExpireCmd({"a"}, {2}, No)
        \cup L("PUSH", [k : {"a", "b"}, onlyIfExists : Either, left : Either, vs : {<<n1>>}])
        \cup L("PUSH", [k : A, onlyIfExists : No, left : No, vs : {<<n1, x>>}])
        \cup L("POP", [k : A, left : Either, count : {-1, 1}, counted : Either])
        \cup L("POP", [k : A, left : Either, count : {2}, counted : {TRUE}])
        \cup L("LLEN", [k : A]) \cup L("LRANGE", [k : A, start : {-2, 0}, stop : {0, 1}])
        \cup L("LINDEX", [k : A, index : {-1, 0, 2}])
        \cup L("LSET", [k : A, index : {-1, 0, 2}, v : {x}])
        \cup L("LREM", [k : A, count : {-1, 0, 1}, v : {n1}])
        \cup L("LTRIM", [k : A, start : {1, 5}, stop : {-1}])
        \cup L("LPOS", [k : A, v : {n1}, rank : {-1, 0, 1}, count : {0, 1}, counted : Either, maxlen : {-1}])
        \cup L("LINSERT", [k : A, pivot : {n1}, after : Either, v : {x}])
        \cup L("LMOVE", [ks : {AB, BA, <<"a", "a">>}, from : Either, to : Either, blocking : Either])
        \cup L("LMPOP", [ks : {AB, BA}, from : {TRUE}, count : {-1, 1, 2}, blocking : Either, flat : No,
                         nilOnWrong : No])

SetCommands ==
    LET S(name, rs) == Of("set", name, rs)
    IN  Plain("b", x) \cup ExpireCmd({"b"}, {2}, No)
        \cup S("SADD", [k : {"a", "b"}, ms : {<<n1>>, <<x>>}])
        \cup S("SADDEX", [k : A, ttl : {0, 1}, ms : {<<n1>>}, keepttl : Either])
        \cup S("SREM", [k : A, ms : {<<n1, x>>, <<n1>>}])
        \cup S("SMEMBERS", [k : A]) \cup S("SISMEMBER", [k : A, m : {n1}])
        \cup S("SMISMEMBER", [k : A, ms : {<<x, n1>>}]) \cup S("SCARD", [k : A])
        \cup S("SSCAN", [k : A, cursor : {0, 1}, count : {0, 1}, match : {{n1, x}, {x}}])
        \cup S("SPOP", [k : A, count : {-1, 0, 2}, seed : {0, 1}])
        \cup S("SRANDMEMBER", [k : A, count : {-2, 1}, counted : Either, seed : {0, 1}])
        \cup UNION {S(n, [ks : {AB, BA}]) : n \in {"SINTER", "SUNION", "SDIFF"}}
        \cup UNION {S(n, [ks : {<<"b", "a", "b">>, <<"a", "b", "a">>}]) :
                        n \in {"SINTERSTORE", "SUNIONSTORE", "SDIFFSTORE"}}
        \cup S("SINTERCARD", [ks : {AB}, numkeys : {0, 2}, limit : {0, 1}])
        \cup S("SMOVE", [ks : {AB, BA, <<"a", "a">>}, m : {n1}])
        \cup Of("key", "FIELDEXPIRE", [k : A, ttl : {0, 1}, fs : {<<n1, x>>}])
        \cup Of("key", "FIELDTTL", [k : A, f : {n1}])

HashCommands ==
    LET H(name, rs) == Of("hash", name, rs)
        k == [k : A]
        kf == [k : A, f : {n1}]
        kfs == [k : A, fs : {<<n1, x>>}]
    IN  Plain("a", x) \cup ExpireCmd({"a"}, {2}, No)
        \cup H("HSET", [k : A, fvs : {<<>>, <<<<n1, n9>>>>, <<<<x, x>>>>}])
        \cup H("HMSET", [k : A, fvs : {<<<<n1, n1>>, <<x, n1>>>>}])
        \cup H("HGET", kf) \cup H("HMGET", kfs) \cup H("HLEN", k) \cup H("HGETALL", k)
        \cup H("HKEYS", k) \cup H("HVALS", k) \cup H("HEXISTS", kf) \cup H("HSTRLEN", kf)
        \cup H("HDEL", [k : A, fs : {<<n1>>, <<n1, x>>}])
        \cup H("HINCRBY", [k : A, f : {n1, x}, by : {10}])
        \cup H("HINCRBYFLOAT", [k : A, f : {n1}, by : {80}, inf : Either])
        \cup H("HSETNX", [k : A, f : {n1}, v : {n1}])
        \cup H("HSETEX", [k : A, fvs : {<<<<n1, n1>>>>}, fieldsForm : {TRUE}, mode : {"none", "FNX", "FXX"},
                          keepttl : Either, ex : {NoEx, Rel(2), Abs(1)}, ttl : {0}])
        \cup H("HSETEX", [k : A, fvs : {<<<<x, n1>>>>}, fieldsForm : No, mode : {"none", "NX"},
                          keepttl : Either, ex : {NoEx}, ttl : {0, 1}])
        \cup H("HEXPIRE", [k : A, fs : {<<n1>>}, flag : {"none", "NX", "XX", "GT", "LT"}, ttl : {0, 1}])
        \cup H("HTTL", [k : A, fs : {<<n1, x>>}, abs : Either])
        \cup H("HGETEX", [k : A, fs : {<<n1>>}, ex : {NoEx, Rel(2), Abs(1), Persist}])
        \cup H("HRANDFIELD", [k : A, counted : Either, count : {-2, 1}, seed : {1}, withValues : {TRUE}])
        \cup H("HSCAN", [k : A, cursor : {0, 1}, count : {1}, match : {{n1, x}}, paged : Either, novalues : No])
        \cup Of("key", "FIELDEXPIRE", [k : A, ttl : {1}, fs : {<<n1>>}])
        \cup Of("key", "FIELDTTL", [k : A, f : {x}])

ZSetCommands ==
    LET Z(name, rs) == Of("zset", name, rs)
        add == [k : A, pairs : {<<<<1, n1>>>>}, nx : No, xx : No, gt : No, lt : No, ch : No, incr : No]
        with(f, vals) == {[r EXCEPT ![f] = v] : r \in add, v \in vals}
        bound(v, e) == [v |-> v, excl |-> e]
        score == [k : A, min : {bound(-Inf, FALSE)}, max : {bound(1, FALSE)}]
                 \cup [k : A, min : {bound(1, TRUE)}, max : {bound(Inf, FALSE)}]
        lo == [m |-> <<>>, incl |-> TRUE]
        hi == [m |-> <<>>, incl |-> FALSE]
        at(m, i) == [m |-> m, incl |-> i]
        lex == [k : A, min : {lo}, max : {at(n1, TRUE)}] \cup [k : A, min : {at(n1, FALSE)}, max : {hi}]
        ranged(rs, by, rev) == {[by |-> by, rev |-> v, off |-> 0, cnt |-> -1] @@ r : r \in rs, v \in rev}
        swapped(rs) == {[r EXCEPT !.min = r.max, !.max = r.min] : r \in rs}
        index == [k : A, min : {0}, max : {0}] \cup [k : A, min : {1}, max : {-1}]
        multi(ks, src, agg) == [ks : ks, src : src, ws : {<<1, 2>>}, agg : agg]
    IN  Plain("b", x) \cup ExpireCmd({"b"}, {2}, No)
        \cup Z("ZADD", with("nx", Either) \cup with("xx", Either) \cup with("gt", Either) \cup with("ch", Either)
                       \cup with("incr", Either) \cup with("k", {"b"})
                       \cup with("pairs", {<<<<2, n1>>, <<1, x>>>>, <<<<-1, x>>>>}))
        \cup Z("ZINCRBY", [k : A, by : {Inf, -Inf}, m : {x}])
        \cup Z("ZREM", [k : A, ms : {<<n1, x>>, <<x>>}])
        \cup Z("ZSCORE", [k : A, m : {x}]) \cup Z("ZMSCORE", [k : A, ms : {<<n1, x>>}]) \cup Z("ZCARD", [k : A])
        \cup Z("ZRANK", [k : A, m : {x}, rev : Either])
        \cup Z("ZRANGE", ranged(score, "score", No) \cup ranged(swapped(score), "score", {TRUE})
                         \cup ranged(lex, "lex", No) \cup ranged(swapped(lex), "lex", {TRUE})
                         \cup ranged(index, "index", Either))
        \cup Z("ZCOUNT", score) \cup Z("ZLEXCOUNT", lex)
        \cup Z("ZREMRANGEBYSCORE", score) \cup Z("ZREMRANGEBYLEX", lex)
        \cup Z("ZREMRANGEBYRANK", ranged(index, "index", No))
        \cup Z("ZPOP", [k : A, max : Either, count : {-1, 1, 2}])
        \cup Z("ZRANDMEMBER", [k : A, count : {-2, 1}, counted : {TRUE}, seed : {1}])
        \cup Z("ZSCAN", [k : A, cursor : {0, 1}, count : {1, 2}, match : {{n1, x}}])
        \cup Z("ZRANGESTORE", {[ks |-> ks] @@ r : ks \in {AB, BA}, r \in ranged(index, "index", No)})
        \cup Z("ZUNION", multi({AB, BA}, {1}, {"sum", "min", "max"})
                         \cup multi({<<"a", "a", "b">>}, {2}, {"sum"}))
        \cup Z("ZINTER", multi({AB}, {1}, {"sum"}) \cup multi({<<"b", "b", "a">>}, {2}, {"max"}))
        \cup Z("ZINTERCARD", [ks : {AB}, limit : {0, 1}])
        \cup Z("ZDIFF", multi({AB, BA}, {1}, {"sum"}) \cup multi({<<"b", "a", "b">>}, {2}, {"sum"}))
        \cup Z("ZMPOP", [ks : {AB, BA}, max : {TRUE}, count : {-1, 1}, skip : {TRUE}, blocking : Either])
        \cup Z("ZMPOP", [ks : {AB, BA}, max : No, count : {1}, skip : No, blocking : {TRUE}])

KeyCommands ==
    LET K(name, rs) == Of("key", name, rs)
        expire == [k : A, t : {2}, abs : Either, nx : No, xx : No, gt : No, lt : No]
        with(f) == {[r EXCEPT ![f] = TRUE] : r \in expire}
    IN  Plain("a", n9) \cup Plain("b", x) \cup ExpireCmd({"b"}, {1}, No)
        \cup Of("list", "PUSH", [k : A, onlyIfExists : No, left : No, vs : {<<n9>>}])
        \cup K("EXPIRE", expire \cup with("nx") \cup with("xx") \cup with("gt") \cup with("lt")
                         \cup {[r EXCEPT !.t = 0] : r \in expire})
        \cup K("DEL", [ks : {AB}]) \cup K("EXISTS", [ks : {AB, <<"a", "a">>}]) \cup K("STICK", [ks : {<<"a">>}])
        \cup K("DELEX", [k : A, cond : Either, negate : Either, v : {n9}])
        \cup UNION {K(n, [k : A, inMs : Either]) : n \in {"TTL", "EXPIRETIME"}}
        \cup K("PERSIST", [k : A]) \cup K("TYPE", [k : A]) \cup K("DUMP", [k : A])
        \cup K("RESTORE", [k : A, ttl : {-1, 0, 2}, absttl : Either, replace : Either,
                           payload : {BadPayload, ExpiredPayload, Str(x)}])
        \cup K("KEYS", [match : {Key, {"a"}}]) \cup K("RANDOMKEY", {<<>>})
        \cup K("RENAME", [ks : {AB, BA, <<"a", "a">>}, nx : Either])
        \cup K("COPY", [ks : {AB, BA, <<"a", "a">>}, replace : Either])

SortCommands ==
    LET sort == [ks : {AB}, by : {"self"}, alpha : Either, desc : No, off : {0}, cnt : {-1}, gets : {<<>>},
                 store : {TRUE}, pat : {(<<>> :> "b") @@ (n1 :> "b") @@ (x :> "a") @@ (n9 :> "b")}]
        with(f, v) == {[r EXCEPT ![f] = v] : r \in sort}
    IN  Plain("b", n1) \cup ExpireCmd({"b"}, {1}, No)
        \cup Of("list", "PUSH", [k : A, onlyIfExists : No, left : No, vs : {<<n1>>, <<x, n9>>}])
        \cup Of("set", "SADDEX", [k : A, ms : {<<n9>>}, ttl : {1}, keepttl : No])
        \cup Of("zset", "ZADD", [k : A, pairs : {<<<<1, n9>>, <<2, n1>>>>}, nx : No, xx : No, gt : No, lt : No,
                                 ch : No, incr : No])
        \cup Of("key", "DEL", [ks : {<<"a">>}])
        \cup Of("key", "SORT", sort \cup with("by", "none") \cup with("by", "key") \cup with("desc", TRUE)
                               \cup with("cnt", 1) \cup with("gets", <<"#", "key">>) \cup with("store", FALSE))

MoveCommands == Plain("a", x) \cup ExpireCmd({"a"}, {1, 3}, No) \cup Of("key", "STICK", [ks : {<<"a">>}])

MCCommands ==
    [string |-> StringCommands, list |-> ListCommands, set |-> SetCommands, hash |-> HashCommands,
     zset |-> ZSetCommands, key |-> KeyCommands, sort |-> SortCommands, move |-> MoveCommands]
=============================================================================
