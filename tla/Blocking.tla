------------------------------ MODULE Blocking ------------------------------
(***************************************************************************)
(* Commands that wait: BLPOP, BLMPOP, BLMOVE, XREAD BLOCK and XREADGROUP   *)
(* BLOCK (server/coordinator.rs).  Nothing wakes a blocked command; the    *)
(* coordinator runs it again, in the order the commands blocked, after     *)
(* every message and every 20 milliseconds, until it has an answer or its  *)
(* deadline has passed.  What the commands do is in Lists and Streams.     *)
(*                                                                         *)
(* Running a command on its shards is one step: they are all locked before *)
(* the first executes (module Txn).  The stores it defers are steps of     *)
(* their own, since they take and release their shard's lock again.        *)
(* Commands of one shard go there directly and may run between any two     *)
(* steps of the coordinator.                                               *)
(***************************************************************************)
EXTENDS Lists, Streams

CONSTANTS
    Conns,        \* the connections
    ShardOf,      \* the shard of a key
    Workloads     \* what clients ask and write, see below

(* A workload is [asks, closes, writes, most]: the requests each client    *)
(* may send one after the other, whether clients may go away, the          *)
(* single-key commands of everyone else, and how many of them.  A request  *)
(* is [c, timed, noblock]; noblock says that it runs inside MULTI.         *)
VARIABLES
    workload,
    db,           \* all of the keys; the shards' slices side by side
    marks,        \* marks[conn][key]: where a read of "$" resumes
    inbox,        \* the coordinator's channel
    pending,      \* the blocked requests; in a pass, the ones to come
    kept,         \* the requests this pass leaves blocked
    late,         \* whose deadlines have passed, as seen by this pass
    job,          \* what the coordinator is doing
    conns,        \* [open, asked, waiting]
    next,         \* the next element or entry
    ghost         \* the history the properties speak about

vars == <<workload, db, marks, inbox, pending, kept, late, job, conns, next, ghost>>
world == <<workload, conns, next>>

Now == 1
NoMark == -1
Elements == 1..workload.most

IsRead(c) == c.cmd = "XREAD"
IsGroupRead(c) == c.cmd = "XREADGROUP"
ExecBlocking(d, c, owned) ==
    IF IsRead(c) \/ IsGroupRead(c) THEN ExecStreams(d, c, owned, Now) ELSE ExecList(d, c, owned, Now)

Resume(conn, c, i) ==
    IF c.ids[i] = Newest /\ marks[conn][c.ks[i]] # NoMark THEN marks[conn][c.ks[i]] ELSE c.ids[i]
Resolved(conn, c) ==
    IF IsRead(c) THEN [c EXCEPT !.ids = [i \in DOMAIN c.ids |-> Resume(conn, c, i)]] ELSE c

LastIn(d, k) == IF IsStream(d.val[k]) THEN LastEntry(StreamOf(d, k)) ELSE 0
MarksAfter(conn, c, parts, d) ==
    LET part(k) == CHOOSE p \in Range(parts) : \E i \in p.owned : c.ks[i] = k
        reads == IF IsRead(c) THEN {c.ks[i] : i \in {j \in DOMAIN c.ks : c.ids[j] = Newest}} ELSE {}
        mark(k) == IF part(k).reply = BlockedReply THEN LastIn(d, k)
                   ELSE IF IsErr(part(k)) THEN marks[conn][k] ELSE NoMark
    IN  [marks EXCEPT ![conn] = [k \in Key |-> IF k \in reads THEN mark(k) ELSE @[k]]]

(* `execute_tx` and `finish_tx`: the parts in shard order, and what the    *)
(* merge makes of them.                                                    *)
Tx(q) ==
    LET c == q.c
        shards == InOrder({ShardOf[c.ks[i]] : i \in DOMAIN c.ks})
        owned(s) == {i \in DOMAIN c.ks : ShardOf[c.ks[i]] = s}
        with(parts, s, x) == [db |-> x.db, parts |-> Append(parts, [owned |-> owned(s), reply |-> x.reply])]
        one(r, s) == with(r.parts, s, ExecBlocking(r.db, Resolved(q.conn, c), owned(s)))
        merged(parts) == IF \A i \in DOMAIN parts : parts[i].reply = BlockedReply THEN Merged(BlockedReply)
                         ELSE IF IsRead(c) \/ IsGroupRead(c) THEN MergeRead(parts, c)
                         ELSE MergeList(parts, c)
        finish(run, m) == [db |-> Drained(run.db), marks |-> MarksAfter(q.conn, c, run.parts, run.db),
                           reply |-> m.reply, stores |-> m.stores]
        execute(run) == finish(run, merged(run.parts))
    IN  execute(FoldLeft(one, [db |-> db, parts |-> <<>>], shards))

(***************************************************************************)
(* History: how often an element was handed to a client, which were pushed *)
(* and which overwritten or deleted, whether a command got between the     *)
(* reading and the storing of another, and where a stream ended when it    *)
(* was first read.                                                         *)
(***************************************************************************)
Taken(c, reply) ==
    IF reply[1] # "arr" \/ c.cmd = "LMOVE" \/ IsRead(c) THEN {}
    ELSE IF IsGroupRead(c) THEN UNION {{id \div SeqRange : id \in Range(reply[2][i][2])} : i \in DOMAIN reply[2]}
    ELSE IF c.flat THEN {reply[2][2][2]} ELSE Range(reply[2][2][2])
Given(h, es) == [h EXCEPT !.given = [e \in DOMAIN @ |-> IF e \in es THEN @[e] + 1 ELSE @[e]]]
Listed(d) == UNION {IF IsList(d.val[k]) THEN Range(d.val[k].list) ELSE {} : k \in Key}

Free == [pc |-> "idle"]
AtPass == [pc |-> "pass"]
InPass == [pc |-> "retry"]

Init ==
    /\ workload \in Workloads
    /\ db = NewSlice
    /\ marks = [c \in Conns |-> [k \in Key |-> NoMark]]
    /\ inbox = <<>> /\ pending = <<>> /\ kept = <<>> /\ late = {}
    /\ job = Free
    /\ conns = [c \in Conns |-> [open |-> TRUE, asked |-> 0, waiting |-> FALSE]]
    /\ next = 1
    /\ ghost = [given |-> [e \in Elements |-> 0], pushed |-> {}, erased |-> {}, torn |-> FALSE,
                since |-> [c \in Conns |-> [k \in Key |-> 0]]]

(* A reply reaches its client unless the connection is gone; the           *)
(* coordinator cannot tell.                                                *)
Reply(q, reply) ==
    /\ conns' = [conns EXCEPT ![q.conn].waiting = FALSE]
    /\ ghost' = Given(ghost, Taken(q.c, reply))

(* The outcome of a transaction that is not blocked: stores first, the     *)
(* reply after the last.                                                   *)
(* Mutant: the stores are forgotten.                                       *)
FinishUnstored(q, r, then) == Reply(q, r.reply) /\ job' = [pc |-> then]
(* Mutant: the reply does not wait for the stores.                         *)
FinishEarly(q, r, then) ==
    /\ Reply(q, r.reply)
    /\ job' = IF r.stores = <<>> THEN [pc |-> then]
              ELSE [pc |-> "store", q |-> q, reply |-> r.reply, stores |-> r.stores, then |-> then]
Finish(q, r, then) ==
    IF r.stores = <<>> THEN Reply(q, r.reply) /\ job' = [pc |-> then]
    ELSE /\ job' = [pc |-> "store", q |-> q, reply |-> r.reply, stores |-> r.stores, then |-> then]
         /\ UNCHANGED <<conns, ghost>>

(* `handle`: a request that finds nothing joins the blocked ones, or is    *)
(* answered with nil inside MULTI.                                         *)
Handled(q, r) ==
    /\ db' = r.db /\ marks' = r.marks
    /\ IF r.reply # BlockedReply THEN Finish(q, r, "pass") /\ UNCHANGED pending
       ELSE IF q.noblock THEN Reply(q, Nil) /\ job' = AtPass /\ UNCHANGED pending
       ELSE /\ pending' = Append(pending, q)
            /\ ghost' = [ghost EXCEPT !.since[q.conn] = [k \in Key |-> LastIn(db, k)]]
            /\ job' = AtPass
            /\ UNCHANGED conns
Handle ==
    /\ job.pc = "idle" /\ inbox # <<>>
    /\ inbox' = Tail(inbox)
    /\ Handled(Head(inbox), Tx(Head(inbox)))
    /\ UNCHANGED <<workload, kept, late, next>>

(* Nothing arrived for 20 milliseconds.                                    *)
Poll ==
    /\ job.pc = "idle" /\ inbox = <<>> /\ pending # <<>>
    /\ job' = AtPass
    /\ UNCHANGED <<world, db, marks, inbox, pending, kept, late, ghost>>

(* `retry_pending` reads the clock once; which deadlines have passed is    *)
(* any set of the requests that have one.                                  *)
Timed == {pending[i].conn : i \in {j \in DOMAIN pending : pending[j].timed}}
StartPass(overdue) ==
    /\ job.pc = "pass"
    /\ late' = overdue
    /\ job' = IF pending = <<>> THEN Free ELSE InPass
    /\ UNCHANGED <<world, db, marks, inbox, pending, kept, ghost>>

(* A blocked request that meets a key of the wrong type stays blocked; a   *)
(* group read does not.  The deadline is looked at before the keys.        *)
(* Mutant: a result whose stores are still to be made counts as none.      *)
StaysUnstored(q, r) == r.stores # <<>> \/ r.reply = BlockedReply \/ (r.reply = ErrReply /\ ~IsGroupRead(q.c))
Stays(q, r) == r.reply = BlockedReply \/ (r.reply = ErrReply /\ ~IsGroupRead(q.c))
Retried(q, r) ==
    /\ db' = r.db /\ marks' = r.marks
    /\ IF Stays(q, r)
       THEN kept' = Append(kept, q) /\ UNCHANGED <<conns, ghost, job>>
       ELSE Finish(q, r, "retry") /\ UNCHANGED kept
RetryOne ==
    /\ job.pc = "retry" /\ pending # <<>>
    /\ pending' = Tail(pending)
    /\ LET q == Head(pending)
       IN  IF q.conn \in late
           THEN Reply(q, Nil) /\ UNCHANGED <<db, marks, kept, job>>
           ELSE Retried(q, Tx(q))
    /\ UNCHANGED <<workload, inbox, late, next>>

(* Mutant: the requests that stay blocked change their order.              *)
EndPassTurned ==
    /\ job.pc = "retry" /\ pending = <<>>
    /\ pending' = Reverse(kept) /\ kept' = <<>> /\ late' = {}
    /\ job' = Free
    /\ UNCHANGED <<world, db, marks, inbox, ghost>>
(* Mutant: they are not moved out of the pass.                             *)
EndPassKept ==
    /\ job.pc = "retry" /\ pending = <<>>
    /\ pending' = kept /\ late' = {}
    /\ job' = Free
    /\ UNCHANGED <<world, db, marks, inbox, kept, ghost>>
EndPass ==
    /\ job.pc = "retry" /\ pending = <<>>
    /\ pending' = kept /\ kept' = <<>> /\ late' = {}
    /\ job' = Free
    /\ UNCHANGED <<world, db, marks, inbox, ghost>>

(* `perform_deferred_store`, one store after the other.                    *)
DeferredStore ==
    /\ job.pc = "store"
    /\ LET w == Head(job.stores)
       IN  db' = Drained(StoreValue(db, w.key, w.val, w.at, w.sticky, Now))
    /\ IF Len(job.stores) = 1 THEN Reply(job.q, job.reply) /\ job' = [pc |-> job.then]
       ELSE job' = [job EXCEPT !.stores = Tail(@)] /\ UNCHANGED <<conns, ghost>>
    /\ UNCHANGED <<workload, marks, inbox, pending, kept, late, next>>

-----------------------------------------------------------------------------
(* A client sends its next request, once the last one is answered.         *)
Ask(c) ==
    LET n == conns[c].asked + 1
    IN  /\ conns[c].open /\ ~conns[c].waiting /\ n <= Len(workload.asks[c])
        /\ conns' = [conns EXCEPT ![c].asked = n, ![c].waiting = TRUE]
        /\ inbox' = Append(inbox, [conn |-> c] @@ workload.asks[c][n])
        /\ UNCHANGED <<workload, db, marks, pending, kept, late, job, next, ghost>>

(* `close_conn` tells the coordinator nothing.                             *)
Close(c) ==
    /\ workload.closes /\ conns[c].open
    /\ conns' = [conns EXCEPT ![c].open = FALSE]
    /\ UNCHANGED <<workload, db, marks, inbox, pending, kept, late, job, next, ghost>>

(* A command of one key by anyone, run by the key's shard.  What it pushes *)
(* or adds is new.                                                         *)
ExecWrite(c) ==
    CASE c.cmd = "PUSH" -> ExecPush(db, [c EXCEPT !.vs = <<next>>], Now)
      [] c.cmd = "POP" -> ExecPop(db, c, Now)
      [] c.cmd = "SET" -> Ok(Insert(db, c.k, Str(<<Letter>>)), OkReply)
      [] c.cmd = "DEL" -> Ok(RemoveKey(db, c.k), Num(1))
      [] OTHER -> ExecStreams(db, c, {}, next)
Popped(c, reply) == IF c.cmd = "POP" /\ reply[1] = "bulk" THEN {reply[2]} ELSE {}
Written(c, r) ==
    LET popped == Popped(c, r.reply)
    IN  /\ db' = Drained(r.db)
        /\ ghost' = [Given(ghost, popped) EXCEPT
                        !.pushed = IF next \in Listed(r.db) THEN @ \cup {next} ELSE @,
                        !.erased = @ \cup (Listed(db) \ (Listed(r.db) \cup popped)),
                        !.torn = @ \/ (job.pc = "store" /\ \E i \in DOMAIN job.stores : job.stores[i].key = c.k)]
Write(c) ==
    /\ next <= workload.most
    /\ next' = next + 1
    /\ Written(c, ExecWrite(c))
    /\ UNCHANGED <<workload, marks, inbox, pending, kept, late, job, conns>>

Next ==
    \/ Handle \/ Poll \/ RetryOne \/ EndPass \/ DeferredStore
    \/ \E overdue \in SUBSET Timed : StartPass(overdue)
    \/ \E c \in Conns : Ask(c) \/ Close(c)
    \/ \E c \in workload.writes : Write(c)

Spec == Init /\ [][Next]_vars

(* The coordinator's thread runs on whenever it has something to do, and   *)
(* time passes: no deadline stays in the future for ever.  Clients and     *)
(* writers owe nothing.  This is weak fairness of the coordinator's steps  *)
(* and strong fairness of finding a deadline passed, written out.          *)
HasWork == job.pc # "idle" \/ inbox # <<>> \/ pending # <<>>
Works == <<job, pending, kept>>' # <<job, pending, kept>>
FairSpec ==
    /\ Spec
    /\ <>[]HasWork => []<><<Works>>_vars
    /\ \A c \in Conns : []<>(job.pc = "pass" /\ c \in Timed) => []<><<job.pc = "pass" /\ c \in late'>>_vars
-----------------------------------------------------------------------------
(* Everyone whose request the coordinator has, in the order it will look   *)
(* at them.                                                                *)
Line == kept \o pending \o inbox
Busy == IF job.pc = "store" THEN <<job.q>> ELSE <<>>
Places(c) == Cardinality({i \in DOMAIN Line : Line[i].conn = c}) + Len(SelectSeq(Busy, LAMBDA q : q.conn = c))

(* The coordinator's thread keeps requests aside (`remaining`) only within *)
(* a pass, and the watermarks of "$" are IDs or absent.                    *)
TypeOK ==
    /\ job.pc \in {"idle", "pass", "retry", "store"}
    /\ job.pc # "retry" /\ job.pc # "store" => kept = <<>>
    /\ next \in 1..(workload.most + 1)
    /\ \A c \in Conns, k \in Key : marks[c][k] \in Nat \cup {NoMark}

(* A client that waits has its request in exactly one place, and one that  *)
(* was answered in none: no request is answered twice, dropped, or run     *)
(* again after its answer, through passes, deferred stores and timeouts.   *)
AskedOnce == \A c \in Conns : Places(c) = IF conns[c].waiting THEN 1 ELSE 0

Copies(e) ==
    LET at(k) == IF IsList(db.val[k]) THEN {i \in DOMAIN db.val[k].list : db.val[k].list[i] = e} ELSE {}
    IN  ghost.given[e] + Cardinality({<<k, i>> \in Key \X (1..workload.most) : i \in at(k)})

(* Every element pushed is in one list or was handed out, once, unless it  *)
(* was overwritten or deleted; an entry of a stream is given to one        *)
(* consumer of its group.  A timeout takes nothing.  The stores a spanning *)
(* command defers are the exception: a command on their key that runs      *)
(* between its reading and its storing is undone by the store.             *)
HandedOutOnce ==
    ~ghost.torn =>
        /\ \A e \in Elements : Copies(e) <= 1
        /\ job.pc # "store" => \A e \in ghost.pushed \ ghost.erased : Copies(e) = 1

From(q, i) == LET r == Resume(q.conn, q.c, i) IN IF r = Newest THEN LastIn(db, q.c.ks[i]) ELSE r


Before(c, d) == \E i, j \in DOMAIN Line : i < j /\ Line[i].conn = c /\ Line[j].conn = d

(* Requests keep their turns: of two that are still blocked, the one that  *)
(* came first is looked at first.                                          *)
TurnsKept ==
    [][\A c, d \in Conns : Before(c, d) /\ Places(c)' = 1 /\ Places(d)' = 1 => ~Before(d, c)']_vars

Request(c) == CHOOSE q \in Range(Line \o Busy) : q.conn = c
Entries(k, after) == {id \in Live(StreamOf(db, k)) : id > after}
Available(q) ==
    LET v(i) == db.val[q.c.ks[i]]
        keys == DOMAIN q.c.ks
    IN  CASE q.c.cmd = "LMPOP" -> \E i \in keys : IsList(v(i)) /\ \A j \in 1..(i - 1) : v(j) = Absent
          [] q.c.cmd = "LMOVE" -> IsList(v(1)) /\ (v(2) = Absent \/ IsList(v(2)))
          [] IsRead(q.c) -> /\ \A i \in keys : v(i) = Absent \/ IsStream(v(i))
                            /\ \E i \in keys : IsStream(v(i)) /\ Entries(q.c.ks[i], From(q, i)) # {}
          [] IsGroupRead(q.c) -> /\ \A i \in keys : IsStream(v(i)) /\ q.c.g \in DOMAIN v(i).stream.groups
                                 /\ \E i \in keys : Entries(q.c.ks[i], v(i).stream.groups[q.c.g].last) # {}
Ready(c) == conns[c].waiting /\ Available(Request(c))

(* A request whose keys have what it waits for is answered, or someone     *)
(* takes that away, though nothing wakes it.                               *)
Served == \A c \in Conns : Ready(c) ~> ~Ready(c)

(* A request with a timeout is answered, whatever is in its keys.          *)
TimeoutsEnd == \A c \in Conns : (conns[c].waiting /\ Request(c).timed) ~> ~conns[c].waiting

(* No one waits longer than needed: neither for what is there nor past a   *)
(* deadline.                                                               *)
WaitsEnd == Served /\ TimeoutsEnd
=============================================================================
