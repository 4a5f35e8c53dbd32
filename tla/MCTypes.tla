------------------------------ MODULE MCTypes -------------------------------
(***************************************************************************)
(* The command sets of the families built on top of the core types: bits   *)
(* in strings, points in sorted sets, streams, documents, the filters and  *)
(* the sketches.                                                           *)
(***************************************************************************)
EXTENDS MCKeyspace

(* The key expires at the next instant.                                    *)
Dies(k) == ExpireCmd({k}, {1}, No)

BitCommands ==
    LET B(name, rs) == Of("bit", name, rs)
        range == [k : A, start : {-2, 1}, end : {-1, 2}, bits : Either]
        field(op, bits, signed, off, v) == [op |-> op, bits |-> bits, signed |-> signed, off |-> off, v |-> v]
        over(p) == [op |-> "OVERFLOW", policy |-> p]
        incr(p, f) == <<over(p), f>>
        fields == {field("INCRBY", 2, TRUE, 1, 1), field("INCRBY", 2, FALSE, 0, 3), field("INCRBY", 2, FALSE, 2, -1)}
    IN  Dies("a") \cup B("SETBIT", [k : {"a", "b"}, off : {1}, bit : {1}]) \cup B("SETBIT", [k : A, off : {1, 9}, bit : {0}])
        \cup B("GETBIT", [k : A, off : {0, 2, 7}])
        \cup B("BITCOUNT", range) \cup B("BITPOS", {[bit |-> b] @@ r : b \in {0, 1}, r \in range})
        \cup B("BITFIELD", [k : A, ro : Either, subs : {<<>>, <<field("GET", 3, TRUE, 1, 0)>>, <<field("SET", 6, FALSE, 0, 0)>>}])
        \cup B("BITFIELD", [k : A, ro : No, subs : {<<field("SET", 3, TRUE, 1, -3), field("GET", 2, FALSE, 2, 0)>>}])
        \cup B("BITFIELD", [k : A, ro : No, subs : {incr(p, f) : p \in {"WRAP", "SAT", "FAIL"}, f \in fields}])
        \cup B("BITOP", [ks : {<<"a", "a", "b">>}, op : {"AND", "OR", "XOR"}])
        \cup B("BITOP", [ks : {AB, <<"a", "b", "a">>}, op : {"NOT"}])

GeoCommands ==
    LET G(name, rs) == Of("geo", name, rs)
        pt(lon, lat, m) == [lon |-> lon, lat |-> lat, m |-> m]
        at(lon, lat) == [lon |-> lon, lat |-> lat]
        shape == {[at |-> at(15, 8), w |-> 5, h |-> 2, circle |-> FALSE], [at |-> at(1, 1), w |-> 3, h |-> 3, circle |-> TRUE]}
        search(ks, si, di) ==
            [ks : ks, si : {si}, di : {di}, byMember : No, from : {n1}, shape : shape, count : {0},
             any : No, sort : {"ASC"}, storeDist : No]
    IN  Plain("b", x) \cup Dies("b")
        \cup G("GEOADD", [k : A, pts : {<<pt(lon, lat, n1)>> : lon \in {0, 15}, lat \in {0, 3, 15}}, nx : No, xx : No, ch : No])
        \cup G("GEOADD", [k : A, pts : {<<pt(1, 2, x)>>, <<pt(14, 14, x)>>}, nx : Either, xx : Either, ch : Either])
        \cup G("GEOPOS", [k : A, ms : {<<n1, x>>}]) \cup G("GEODIST", [k : A, ms : {<<n1, x>>}])
        \cup G("GEOSEARCH", search({<<"a">>}, 1, 0))
        \cup G("GEOSEARCH", {[r EXCEPT !.byMember = TRUE, !.count = n, !.any = y, !.sort = "none"] :
                                r \in search({<<"a">>}, 1, 0), n \in {-1, 1}, y \in Either})
        \cup G("GEOSEARCHSTORE", {[r EXCEPT !.storeDist = r.shape.circle, !.sort = "DESC"] : r \in search({<<"b", "a">>}, 2, 1)})

StreamCommands ==
    LET X(name, rs) == Of("stream", name, rs)
        id(kind, ms, seq) == [kind |-> kind, ms |-> ms, seq |-> seq]
        add == [k : A, nomkstream : No, id : {id("star", 0, -1)}, maxlen : {-1}, minid : {-1}, approx : No, limit : {-1}]
        with(f, vals) == {[r EXCEPT ![f] = v] : r \in add, v \in vals}
        g == [k : A, g : {"g"}]
        who == [k : A, g : {"g"}, who : {"p"}]
        bound(i, e) == [id |-> i, excl |-> e]
        claim == [k : A, g : {"g"}, who : {"q"}, idle : {0, 1}, ids : {<<2, 3>>}, time : {-1}, retry : {-1},
                  force : Either, justid : {TRUE}, last : {-1}]
    IN  Plain("a", x)
        \cup X("XADD", add \cup with("nomkstream", {TRUE}) \cup with("maxlen", {1})
                       \cup with("id", {id("id", 1, -1), id("id", 1, 0), id("lastms", 0, -1)}))
        \cup X("XLEN", [k : A]) \cup X("XDEL", [k : A, ids : {<<2>>, <<3>>}])
        \cup X("XRANGE", [k : A, start : {bound(2, TRUE)}, end : {bound(MaxId, FALSE), bound(3, TRUE)},
                          count : {0}, rev : Either])
        \cup X("XTRIM", [k : A, maxlen : {0, 1}, minid : {-1}, approx : Either, limit : {-1}])
        \cup X("XTRIM", [k : A, maxlen : {-1}, minid : {3}, approx : Either, limit : {1}])
        \cup X("XREAD", [ks : {AB}, ids : {<<2, Newest>>}, count : {-1, 1}, block : Either])
        \cup X("XREADGROUP", [ks : {<<"a">>, BA}, ids : {<<Newest, Newest>>, <<0, 0>>}, g : {"g"}, who : {"p"}, count : {-1},
                              noack : No, block : No])
        \cup X("XREADGROUP", [ks : {<<"a">>}, ids : {<<Newest>>}, g : {"g"}, who : {"p"}, count : {1},
                              noack : Either, block : {TRUE}])
        \cup X("XGROUP CREATE", [k : A, g : {"g"}, id : {0}, mkstream : Either])
        \cup X("XGROUP CREATE", [k : A, g : {"g"}, id : {Newest}, mkstream : No])
        \cup X("XGROUP DESTROY", g) \cup X("XGROUP DELCONSUMER", who) \cup X("XGROUP CREATECONSUMER", who)
        \cup X("XACK", [k : A, g : {"g"}, ids : {<<2, 3>>}])
        \cup X("XPENDING", [k : A, g : {"g"}, summary : Either, start : {bound(0, FALSE)}, end : {bound(3, TRUE)}, count : {1},
                            who : {<<"p">>}, idle : {1}])
        \cup X("XINFO", [k : A, g : {"g"}, what : {"STREAM", "GROUPS", "CONSUMERS"}])
        \cup X("XCLAIM", claim)
        \cup X("XAUTOCLAIM", [k : A, g : {"g"}, who : {"q"}, idle : {0, 1}, start : {bound(0, FALSE), bound(3, TRUE)}, count : {1},
                              justid : No])

(* The ids moved by hand: a stream's never back below entries that were    *)
(* trimmed, a group's with ENTRIESREAD -1 only.  A count that is kept or   *)
(* given is what the lag would follow.                                     *)
SetidCommands ==
    LET X(name, rs) == Of("stream", name, rs)
    IN  Dies("a")
        \cup X("XADD", [k : A, nomkstream : No, id : [kind : {"star"}, ms : {0}, seq : {-1}], maxlen : {-1}, minid : {-1},
                        approx : No, limit : {-1}])
        \cup X("XDEL", [k : A, ids : {<<3>>}]) \cup X("XTRIM", [k : A, maxlen : {1}, minid : {-1}, approx : No, limit : {-1}])
        \cup X("XSETID", [k : A, id : {MaxTime * SeqRange + 1}])
        \cup X("XGROUP CREATE", [k : A, g : {"g"}, id : {Newest}, mkstream : {TRUE}])
        \cup X("XGROUP SETID", [k : A, g : {"g"}, id : {0, Newest}, read : {Unknown}])
        \cup X("XREADGROUP", [ks : {<<"a">>}, ids : {<<Newest>>}, g : {"g"}, who : {"p"}, count : {1}, noack : No, block : No])
        \cup X("XCLAIM", [k : A, g : {"g"}, who : {"q"}, idle : {0}, ids : {<<2, 3>>}, time : {-1}, retry : {-1}, force : No,
                          justid : {TRUE}, last : {3}])

JsonCommands ==
    LET J(name, rs) == Of("json", name, rs)
        key(n) == Member(n)
        new(segs) == Path(segs, FALSE)
        old(segs) == Path(segs, TRUE)
        one == JObj([n \in {1} |-> JInt(1)])
        tree == JObj([n \in {1, 2} |-> IF n = 1 THEN one ELSE JArr(<<JInt(-1), JStr(x)>>)])
        deep == <<Descent, key(1)>>
        paths == {new(<<key(1)>>), new(deep), old(<<key(2), Index(0, 0)>>), new(<<Descent, Index(-1, -1)>>), new(<<Descent, Wildcard>>)}
        to(p) == [k : A, path : p]
        with(p, f, vals) == {f :> v @@ r : r \in to(p), v \in vals}
    IN  Plain("a", n1)
        \cup J("JSON.SET", [k : A, path : {new(<<>>)}, v : {tree, Invalid}, nx : Either, xx : Either])
        \cup J("JSON.SET", [k : A, path : {old(<<key(2), Index(1, 1)>>), new(<<key(3), key(1), Index(0, 0)>>)},
                            v : {JInt(1)}, nx : Either, xx : Either])
        \cup J("JSON.SET", [k : A, path : {new(<<Descent, key(2)>>)}, v : {JBool(TRUE)}, nx : No, xx : No])
        \cup J("JSON.MSET", [ks : {AB}, paths : {<<new(<<>>), new(<<key(1)>>)>>}, vs : {<<tree, JInt(0)>>}])
        \cup J("JSON.GET", [k : A, paths : {<<>>, <<new(deep)>>, <<old(<<key(3)>>)>>, <<new(deep), old(<<key(3)>>)>>}])
        \cup J("JSON.MGET", [ks : {BA}, path : {old(deep), new(<<key(2)>>)}])
        \cup J("JSON.DEL", to({new(<<>>), BadPath} \cup paths))
        \cup UNION {J(name, to({old(<<>>), new(<<Descent, Wildcard>>), old(<<key(2)>>)})) :
                     name \in {"JSON.TYPE", "JSON.STRLEN", "JSON.OBJLEN", "JSON.ARRLEN", "JSON.OBJKEYS", "JSON.DEBUG", "JSON.RESP"}}
        \cup J("JSON.TOGGLE", to({old(<<key(2)>>), new(<<Descent, key(2)>>)}))
        \cup J("JSON.STRAPPEND", with({old(<<Descent, Wildcard>>), new(<<key(2), Index(-1, -1)>>)}, "v", {JStr(x), JNull}))
        \cup J("JSON.CLEAR", to({new(<<key(1)>>), new(<<Descent, Wildcard>>)}))
        \cup J("JSON.ARRPOP", with({old(<<key(2)>>), new(<<Wildcard>>)}, "index", {-1, 0}))
        \cup J("JSON.ARRTRIM", [k : A, path : {new(<<key(2)>>)}, start : {0, 1}, stop : {-1, 0}])
        \cup J("JSON.ARRINSERT", [k : A, path : {old(<<key(2)>>), new(<<Descent, Wildcard>>)}, index : {-1, 2}, vs : {<<JNull>>}])
        \cup J("JSON.ARRAPPEND", with({new(<<key(2)>>)}, "vs", {<<JArr(<<>>)>>}))
        \cup J("JSON.ARRINDEX", [k : A, path : {new(<<Wildcard>>)}, v : {JInt(1)}, start : {0, -1}, end : {0, 1}])
        \cup J("JSON.NUMINCRBY", [k : A, path : {new(<<Descent, key(1)>>), old(<<key(1)>>)}, op : {"add"}, num : {2},
                                  fractional : No])
        \cup J("JSON.MERGE", [k : A, path : {new(<<>>), new(<<Wildcard>>)}, v : {JObj([n \in {1} |-> JNull])}])

BloomCommands ==
    LET B(name, rs) == Of("bloom", name, rs)
        some == SbfAdd(SbfAdd(NewSbf(0, 2, 2), n1), x)
        from(cursor) == NextChunk(some, cursor)
        chunks == {from(0)} \cup {from(c) : c \in {1, 1 + MaxChunk}}
    IN  Plain("a", x) \cup Dies("a")
        \cup B("BF.RESERVE", [k : A, rate : {1, 2}, entries : {0}])
        \cup B("BF.ADD", [k : A, items : {<<n1>>, <<x>>, <<i2, n1>>}])
        \cup B("BF.EXISTS", [k : A, items : {<<n1, x>>}]) \cup B("BF.INFO", [k : A])
        \cup B("BF.SCANDUMP", [k : A, cursor : {-1, 0, 1, 2}])
        \cup B("BF.LOADCHUNK", {[k |-> "a"] @@ n : n \in chunks})
        \cup B("BF.LOADCHUNK", [k : A, cursor : {2}, data : {from(0).data}])

CuckooCommands ==
    LET C(name, rs) == Of("cuckoo", name, rs)
        insert == [k : A, capacity : {0}, nocreate : Either, nx : No, items : {<<n1, i2>>}]
                  \cup [k : A, capacity : {2}, nocreate : No, nx : Either, items : {<<n1, i2>>}]
    IN  Plain("a", x)
        \cup C("CF.RESERVE", [k : A, capacity : {0}, slots : {1}, iters : {1}, expansion : {0}])
        \cup C("CF.RESERVE", [k : A, capacity : {2}, slots : {1}, iters : {3}, expansion : {0, 2}])
        \cup C("CF.ADD", [k : A, item : {n1, x, i2}, nx : No]) \cup C("CF.ADD", [k : A, item : {x}, nx : {TRUE}])
        \cup C("CF.INSERT", insert)
        \cup C("CF.EXISTS", [k : A, items : {<<n1, x>>}]) \cup C("CF.COUNT", [k : A, item : {n1}])
        \cup C("CF.INFO", [k : A]) \cup C("CF.DEL", [k : A, item : {n1, x, i2}]) \cup C("CF.COMPACT", [k : A])

CmsCommands ==
    LET C(name, rs) == Of("cms", name, rs)
    IN  Plain("b", x) \cup Dies("b")
        \cup C("CMS.INIT", [k : {"a", "b"}, width : {0, 2}, depth : {2}]) \cup C("CMS.INIT", [k : {"b"}, width : {3}, depth : {1}])
        \cup C("CMS.INCRBY", [k : {"b"}, items : {<<n1>>}, ns : {<<1>>}])
        \cup C("CMS.INCRBY", [k : A, items : {<<i2, n1>>}, ns : {<<1, 1>>, <<1, 0>>, <<19, 2>>}])
        \cup C("CMS.QUERY", [k : A, items : {<<n1, i3>>}]) \cup C("CMS.INFO", [k : A])
        \cup C("CMS.MERGE", [ks : {<<"a", "b">>}, weights : {<<1>>, <<2>>}])
        \cup C("CMS.MERGE", [ks : {<<"a", "a", "b">>, <<"b", "b", "a">>}, weights : {<<1, 1>>, <<1, 2>>}])

TopkCommands ==
    LET T(name, rs) == Of("topk", name, rs)
    IN  Plain("a", x) \cup Dies("a")
        \cup T("TOPK.RESERVE", [k : A, top : {0, 2}, width : {2}, depth : {2}, decay : {"maybe"}])
        \cup T("TOPK.RESERVE", [k : A, top : {3}, width : {4}, depth : {1}, decay : {"never", "always"}])
        \cup T("TOPK.INCRBY", [k : A, items : {<<n1>>, <<x>>, <<i2>>}, ns : {<<1>>}, rows : {{}, {0, 1}}])
        \cup T("TOPK.INCRBY", [k : A, items : {<<n1>>}, ns : {<<0>>, <<2>>}, rows : {{1}}])
        \cup T("TOPK.QUERY", [k : A, items : {<<n1, x>>}]) \cup T("TOPK.COUNT", [k : A, items : {<<i2>>}])
        \cup T("TOPK.LIST", [k : A]) \cup T("TOPK.INFO", [k : A])

HllCommands ==
    LET H(name, rs) == Of("hll", name, rs)
    IN  Plain("a", x) \cup Dies("a") \cup Of("string", "APPEND", [k : A, v : {x}])
        \cup H("PFADD", [k : {"a"}, items : {<<n1>>, <<x>>, <<i2>>}]) \cup H("PFADD", [k : {"b"}, items : {<<i3>>}])
        \cup H("PFCOUNT", [ks : {<<"a">>, <<"b", "a">>}]) \cup H("PFMERGE", [ks : {<<"a">>, <<"b", "a">>}])

MCTypeCommands ==
    [bit |-> BitCommands, geo |-> GeoCommands, stream |-> StreamCommands, setid |-> SetidCommands, json |-> JsonCommands,
     bloom |-> BloomCommands, cuckoo |-> CuckooCommands, cms |-> CmsCommands, topk |-> TopkCommands, hll |-> HllCommands]
=============================================================================
