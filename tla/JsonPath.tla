------------------------------ MODULE JsonPath ------------------------------
(***************************************************************************)
(* JSON documents (core/json.rs) and the path engine over them             *)
(* (core/jsonpath.rs).                                                     *)
(*                                                                         *)
(* A document is a one-field record named after its kind.  Member names    *)
(* are numbers, whose order is the order of the sorted members; a step     *)
(* into a document is a member name or a position counted from 1, and a    *)
(* location a sequence of steps.  The depth-first walks keep an explicit   *)
(* stack in the code; here the recursion keeps it.                         *)
(***************************************************************************)
EXTENDS Integers, Sequences, FiniteSets, SequencesExt

JNull == [null |-> TRUE]
JBool(b) == [bool |-> b]
JInt(n) == [int |-> n]
JUint(n) == [uint |-> n]
JDouble(n) == [dbl |-> n]
JStr(s) == [text |-> s]
JArr(s) == [items |-> s]
JObj(f) == [members |-> f]
NoMembers == <<>>

Kind(j) == CHOOSE t \in DOMAIN j : TRUE
IsObj(j) == Kind(j) = "members"
IsArr(j) == Kind(j) = "items"
Container(j) == IsObj(j) \/ IsArr(j)
IsNumber(j) == Kind(j) \in {"int", "uint", "dbl"}
NumberOf(j) == CASE Kind(j) = "int" -> j.int [] Kind(j) = "uint" -> j.uint [] OTHER -> j.dbl

AllSteps(j) ==
    CASE IsObj(j) -> SetToSortSeq(DOMAIN j.members, LAMBDA a, b : a < b)
      [] IsArr(j) -> [i \in DOMAIN j.items |-> i]
      [] OTHER -> <<>>
Child(j, s) == IF IsObj(j) THEN j.members[s] ELSE j.items[s]
Has(j, s) == IF IsObj(j) THEN s \in DOMAIN j.members ELSE IsArr(j) /\ s \in DOMAIN j.items

(* `object_insert`, `object_remove`, and a store through a child.          *)
WithMember(j, k, v) ==
    JObj([n \in DOMAIN j.members \cup {k} |-> IF n = k THEN v ELSE j.members[n]])
WithoutMember(j, k) == JObj([n \in DOMAIN j.members \ {k} |-> j.members[n]])
WithChild(j, s, v) == IF IsObj(j) THEN WithMember(j, s, v) ELSE JArr([j.items EXCEPT ![s] = v])

(* `apply_merge_patch`.                                                    *)
RECURSIVE MergePatch(_, _)
MergePatch(j, patch) ==
    LET member(t, k) ==
            LET v == patch.members[k]
            IN  CASE v = JNull -> WithoutMember(t, k)
                  [] v # JNull /\ Has(t, k) -> WithMember(t, k, MergePatch(Child(t, k), v))
                  [] OTHER -> WithMember(t, k, v)
    IN  IF ~IsObj(patch) THEN patch
        ELSE FoldLeft(member, IF IsObj(j) THEN j ELSE JObj(NoMembers), AllSteps(patch))

(* `count_json_fields`.                                                    *)
RECURSIVE CountFields(_)
CountFields(j) ==
    LET nested(n, s) == n + (IF Container(Child(j, s)) THEN CountFields(Child(j, s)) ELSE 0)
    IN  IF Container(j) THEN FoldLeft(nested, Len(AllSteps(j)), AllSteps(j)) ELSE 1

(* How much there is in a document: its values, and how large they are.    *)
RECURSIVE Weight(_)
Weight(j) ==
    LET child(n, s) == n + Weight(Child(j, s))
    IN  CASE Container(j) -> FoldLeft(child, 1, AllSteps(j))
          [] IsNumber(j) -> IF NumberOf(j) < 0 THEN -NumberOf(j) ELSE NumberOf(j)
          [] Kind(j) = "text" -> Len(j.text)
          [] OTHER -> 1
-----------------------------------------------------------------------------
(***************************************************************************)
(* Segments of a path.  `normalize` turns the closed range of an index     *)
(* into positions: an end past the array is its last element, a negative   *)
(* one counts from the end and stops at the first.                         *)
(***************************************************************************)
Member(k) == [kind |-> "key", key |-> k]
Index(a, b) == [kind |-> "index", first |-> a, second |-> b]
Wildcard == [kind |-> "all"]
Descent == [kind |-> "descent"]
Function(agg) == [kind |-> "fn", agg |-> agg]

Normalize(e, len) ==
    LET wrap(i) == IF -i > len THEN 0 ELSE len + i
        second == IF e.second >= len THEN len - 1 ELSE IF e.second < 0 THEN wrap(e.second) ELSE e.second
        first == IF e.first < 0 THEN wrap(e.first) ELSE e.first
    IN  IF len = 0 \/ first > second THEN <<>> ELSE [i \in 1..(second - first + 1) |-> first + i]

(* `perform_step`: the steps a segment takes from a document.              *)
Select(j, seg) ==
    CASE seg.kind = "key" -> IF IsObj(j) /\ Has(j, seg.key) THEN <<seg.key>> ELSE <<>>
      [] seg.kind = "index" -> IF IsArr(j) THEN Normalize(seg, Len(j.items)) ELSE <<>>
      [] seg.kind \in {"all", "descent"} -> AllSteps(j)
      [] OTHER -> <<>>

(* `walk_dfs` and `collect_terminals`: the containers the last segment is  *)
(* applied to, in the order of the walk.  A descent visits the document    *)
(* itself with the next segment, then every child with the descent again.  *)
RECURSIVE Walk(_, _, _, _)
Walk(path, j, loc, i) ==
    LET visit(child, l, next) ==
            IF ~Container(child) THEN <<>>
            ELSE IF next < Len(path) THEN Walk(path, child, l, next) ELSE <<l>>
        steps == Select(j, path[i])
        down(next) ==
            FlattenSeq([n \in DOMAIN steps |-> visit(Child(j, steps[n]), Append(loc, steps[n]), next)])
    IN  IF path[i] = Descent THEN visit(j, loc, i + 1) \o down(i) ELSE down(i + 1)
Terminals(path, root) == IF Len(path) = 1 THEN << <<>> >> ELSE Walk(path, root, <<>>, 1)

At(root, loc) == FoldLeft(Child, root, loc)

(* `traverse`: the locations a path matches, each with its value.          *)
Matches(path, root) ==
    IF path = <<>> THEN << <<>> >>
    ELSE LET below(l, ss) == [n \in DOMAIN ss |-> Append(l, ss[n])]
             all(ts) == [n \in DOMAIN ts |-> below(ts[n], Select(At(root, ts[n]), Last(path)))]
         IN  FlattenSeq(all(Terminals(path, root)))
ValuesAt(root, locs) == [n \in DOMAIN locs |-> At(root, locs[n])]

(* `AggState`: one value that is not a number spoils the aggregate.  The   *)
(* quotient of an average is left unevaluated.                             *)
AggResult(agg, vals) ==
    LET better(a, b) == IF agg = "max" THEN NumberOf(b) > NumberOf(a) ELSE NumberOf(b) < NumberOf(a)
        best(a, b) == IF better(a, b) THEN b ELSE a
        sum(n, v) == n + NumberOf(v)
    IN  IF vals = <<>> \/ \E n \in DOMAIN vals : ~IsNumber(vals[n]) THEN JNull
        ELSE IF agg = "avg" THEN [quot |-> <<FoldLeft(sum, 0, vals), Len(vals)>>]
        ELSE FoldLeft(best, Head(vals), Tail(vals))

(* `eval_path`: a leading function aggregates over the rest of the path.   *)
EvalPath(path, root) ==
    LET agg == path # <<>> /\ Head(path).kind = "fn"
        answer(vals) == IF ~agg THEN vals
                        ELSE << AggResult(Head(path).agg, IF Len(path) = 1 THEN <<>> ELSE vals) >>
    IN  answer(ValuesAt(root, Matches(IF agg THEN Tail(path) ELSE path, root)))
-----------------------------------------------------------------------------
(***************************************************************************)
(* `mutate_path`: the terminals are collected first and mutated one after  *)
(* the other.  f takes a value and what was accumulated so far to the new  *)
(* value and accumulator.  A location that is gone by the time it is used  *)
(* ends in a panic of `node_mut`; `stale` says so.                         *)
(***************************************************************************)
RECURSIVE Reachable(_, _)
Reachable(j, loc) == loc = <<>> \/ (Has(j, Head(loc)) /\ Reachable(Child(j, Head(loc)), Tail(loc)))
RECURSIVE PutAt(_, _, _)
PutAt(j, loc, v) ==
    IF loc = <<>> THEN v ELSE WithChild(j, Head(loc), PutAt(Child(j, Head(loc)), Tail(loc), v))

MutateStep(seg, j, f(_, _), acc) ==
    LET put(j1, s, r) == [val |-> WithChild(j1, s, r.val), acc |-> r.acc]
        one(st, s) == put(st.val, s, f(Child(st.val, s), st.acc))
    IN  FoldLeft(one, [val |-> j, acc |-> acc], Select(j, seg))
MutatePath(path, root, f(_, _), acc) ==
    LET put(j, loc, r) == [val |-> PutAt(j, loc, r.val), acc |-> r.acc, stale |-> FALSE]
        terminal(st, loc) ==
            IF st.stale \/ ~Reachable(st.val, loc) THEN [st EXCEPT !.stale = TRUE]
            ELSE put(st.val, loc, MutateStep(Last(path), At(st.val, loc), f, st.acc))
    IN  IF path = <<>> THEN put(root, <<>>, f(root, acc))
        ELSE FoldLeft(terminal, [val |-> root, acc |-> acc, stale |-> FALSE], Terminals(path, root))

(* `delete_path` deletes while it walks, a document before its children:   *)
(* what goes with a deleted ancestor is not counted.                       *)
(* Mutant: the elements of an array are counted and kept.                  *)
DeleteStepKeeps(seg, j) ==
    LET ss == Range(Select(j, seg))
    IN  [n |-> Cardinality(ss),
         val |-> IF IsObj(j) THEN JObj([k \in DOMAIN j.members \ ss |-> j.members[k]]) ELSE j]
DeleteStep(seg, j) ==
    LET ss == Range(Select(j, seg))
        kept == SelectSeq(AllSteps(j), LAMBDA s : s \notin ss)
    IN  [n |-> Cardinality(ss),
         val |-> CASE IsObj(j) -> JObj([k \in Range(kept) |-> j.members[k]])
                   [] IsArr(j) -> JArr([i \in DOMAIN kept |-> j.items[kept[i]]])
                   [] OTHER -> j]
RECURSIVE DeleteWalk(_, _, _)
DeleteWalk(path, j, i) ==
    LET put(a, s, r) == [n |-> a.n + r.n, val |-> WithChild(a.val, s, r.val)]
        down(st, next) ==
            FoldLeft(LAMBDA a, s : put(a, s, DeleteWalk(path, Child(a.val, s), next)),
                     st, Select(st.val, path[i]))
        untouched == [n |-> 0, val |-> j]
    IN  IF ~Container(j) THEN untouched
        ELSE IF i = Len(path) THEN DeleteStep(path[i], j)
        ELSE LET all == path[i] = Descent
             IN  down(IF all THEN DeleteWalk(path, j, i + 1) ELSE untouched, IF all THEN i ELSE i + 1)
DeletePath(path, root) ==
    IF path = <<>> THEN [n |-> 0, val |-> root] ELSE DeleteWalk(path, root, 1)
-----------------------------------------------------------------------------
(***************************************************************************)
(* What a path means, independently of the walk: segment by segment, the   *)
(* set of locations reached so far.                                        *)
(***************************************************************************)
RECURSIVE Below(_, _)
Below(root, loc) ==
    {loc} \cup UNION {Below(root, Append(loc, s)) : s \in Range(AllSteps(At(root, loc)))}
Meaning(path, root) ==
    LET segment(locs, seg) ==
            IF seg = Descent THEN UNION {Below(root, l) : l \in locs}
            ELSE UNION {{Append(l, s) : s \in Range(Select(At(root, l), seg))} : l \in locs}
    IN  FoldLeft(segment, {<<>>}, path)
(* The matches that lie below no other match.                              *)
Topmost(locs) == {l \in locs : ~\E m \in locs : m # l /\ IsPrefix(m, l)}
=============================================================================
