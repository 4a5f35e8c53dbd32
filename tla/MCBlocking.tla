----------------------------- MODULE MCBlocking -----------------------------
(* Two or three clients that wait, and one workload per way of waiting.    *)
EXTENDS Blocking

CONSTANTS c1, c2, c3

MCConns == {c1, c2, c3}
MCShardOf == ("a" :> 0) @@ ("b" :> 1)

Pop(ks, flat) ==
    [cmd |-> "LMPOP", ks |-> ks, from |-> TRUE, count |-> 2 - (IF flat THEN 1 ELSE 0), flat |-> flat,
     nilOnWrong |-> ~flat, blocking |-> TRUE]
MoveTo(ks) == [cmd |-> "LMOVE", ks |-> ks, from |-> TRUE, to |-> FALSE, blocking |-> TRUE]
Read(ks) == [cmd |-> "XREAD", ks |-> ks, ids |-> [i \in DOMAIN ks |-> Newest], count |-> -1, block |-> TRUE]
ReadAs(who, ks) ==
    [cmd |-> "XREADGROUP", ks |-> ks, ids |-> [i \in DOMAIN ks |-> Newest], g |-> "g", who |-> who,
     count |-> 1, noack |-> FALSE, block |-> TRUE]
Forever(c) == [c |-> c, timed |-> FALSE, noblock |-> FALSE]
Until(c) == [c |-> c, timed |-> TRUE, noblock |-> FALSE]
InMulti(c) == [c |-> c, timed |-> FALSE, noblock |-> TRUE]

Push(k) == [cmd |-> "PUSH", k |-> k, onlyIfExists |-> FALSE, left |-> FALSE, vs |-> <<>>]
Lpop(k) == [cmd |-> "POP", k |-> k, left |-> TRUE, count |-> 1, counted |-> FALSE]
Set(k) == [cmd |-> "SET", k |-> k]
Del(k) == [cmd |-> "DEL", k |-> k]
Add(k) == [cmd |-> "XADD", k |-> k, nomkstream |-> FALSE, id |-> [kind |-> "star", ms |-> 0, seq |-> -1],
           maxlen |-> -1, minid |-> -1, approx |-> FALSE, limit |-> -1]
Create(k) == [cmd |-> "XGROUP CREATE", k |-> k, g |-> "g", id |-> Newest, mkstream |-> TRUE]
Destroy(k) == [cmd |-> "XGROUP DESTROY", k |-> k, g |-> "g"]

Work(first, second, third, closes, writes, most) ==
    [asks |-> (c1 :> first) @@ (c2 :> second) @@ (c3 :> third), closes |-> closes, writes |-> writes, most |-> most]

(* Pops of one key, forever and until a deadline, with clients leaving.    *)
PopWork == Work(<<Until(Pop(<<"a">>, TRUE)), Until(Pop(<<"a">>, TRUE))>>, <<InMulti(Pop(<<"a">>, FALSE)), Forever(Pop(<<"a">>, TRUE))>>,
                <<>>, TRUE, {Push("a"), Lpop("a"), Set("a")}, 3)
(* Pops of keys on two shards, and pops of one of them.                    *)
SpanWork == Work(<<Until(Pop(<<"a", "b">>, TRUE))>>, <<Forever(Pop(<<"b", "a">>, FALSE))>>,
                 <<Until(Pop(<<"b">>, TRUE))>>, FALSE, {Push("a"), Push("b"), Set("b"), Lpop("a")}, 3)
(* Moves between shards.                                                   *)
MoveWork == Work(<<Until(MoveTo(<<"a", "b">>))>>, <<Forever(Pop(<<"b">>, TRUE))>>, <<Until(MoveTo(<<"b", "a">>))>>,
                 FALSE, {Push("a"), Del("b"), Set("b")}, 3)
(* Reads of "$", one after the other on the same connection.               *)
ReadWork == Work(<<Until(Read(<<"a", "b">>)), Until(Read(<<"a">>))>>, <<Forever(Read(<<"b">>))>>, <<>>,
                 FALSE, {Add("a"), Add("b"), Del("a")}, 3)
(* Consumers of one group, which may be destroyed under them.              *)
GroupWork == Work(<<Until(ReadAs("p", <<"a">>))>>, <<Forever(ReadAs("q", <<"a", "b">>))>>, <<>>,
                  FALSE, {Create("a"), Create("b"), Add("a"), Add("b"), Destroy("a"), Del("b")}, 4)

MCWorkloads == {PopWork, SpanWork, MoveWork, ReadWork, GroupWork}
=============================================================================
