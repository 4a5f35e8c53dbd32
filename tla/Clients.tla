------------------------------ MODULE Clients ------------------------------
(***************************************************************************)
(* What a connection can ask of the server besides the commands on keys:   *)
(* MULTI, WATCH and EXEC, CLIENT TRACKING, CLIENT PAUSE, REPLICAOF and the *)
(* subscriptions (server/event_loop.rs, server/mod.rs, server/pubsub.rs).  *)
(*                                                                         *)
(* The IO thread dispatches one request at a time.  It waits in the middle *)
(* of a request in two places: at the pause gate, and for the shards that  *)
(* answer a WATCH or EXEC with the state of the watched keys.  Shards and  *)
(* the coordinator run meanwhile.  A command on one shard goes straight to *)
(* that shard, any other one through the coordinator, which locks its      *)
(* shards, runs it and unlocks them; module Txn has that protocol in full, *)
(* here the command runs in one step once every shard is locked, and a     *)
(* locked shard leaves its messages where they are.                        *)
(*                                                                         *)
(* Keys hold version numbers: a write gives the key its next version, and  *)
(* a read returns it.  Only the commands that store through `insert` and   *)
(* `remove` are here, the ones that bump the version (see Keyspace).       *)
(***************************************************************************)
EXTENDS Integers, Sequences, FiniteSets, SequencesExt, FiniteSetsExt

CONSTANTS
    Conns, Keys, NumShards,
    ShardOf,       \* the shard of each key
    NumDbs,
    Channels,
    Workloads      \* what the connections may send: for each one its commands, how
                   \* many requests, whether it pipelines them, and whether it may close

Shards == 0 .. NumShards - 1
Dbs == 0 .. NumDbs - 1
Slots == Dbs \X Keys        \* a key of one database

(* A command: its keys, an option, and a database for SELECT.              *)
Cmd(name, keys, arg, db) == [name |-> name, keys |-> keys, arg |-> arg, db |-> db]

IsWrite(cmd) == cmd.name \in {"SET", "DEL", "FLUSHALL"}
IsRead(cmd) == cmd.name \in {"GET", "DBSIZE"}
IsGlobal(cmd) == cmd.name \in {"DBSIZE", "FLUSHALL"}
IsAdmin(cmd) == cmd.name \in {"CLIENT TRACKING", "CLIENT CACHING", "CLIENT PAUSE", "REPLICAOF", "FLUSHALL"}
IsLocal(cmd) == ~IsWrite(cmd) /\ ~IsRead(cmd)

(* `extract_keys` and `keys_per_shard`.                                    *)
ShardsOf(cmd) == IF IsGlobal(cmd) THEN Shards ELSE {ShardOf[k] : k \in cmd.keys}
ViaCoordinator(cmd) == IsGlobal(cmd) \/ Cardinality(ShardsOf(cmd)) > 1

VARIABLES
    workload,    \* the workload of this behaviour
    conns,       \* the `Conn` of each connection
    role,        \* "master", "starting" (REPLICAOF replied, thread not yet up), "replica"
    pause,       \* the counters of `ClientPause`
    timers,      \* pause timer threads still asleep, by mode
    tracking,    \* `TrackingConn` of each connection
    readers,     \* `tracked_keys`: who read the key
    channels,    \* `ChannelStore`: the subscribers of each channel
    io,          \* where the IO thread is
    inbox,       \* the queue of each shard
    coord,       \* the coordinator's queue
    tx,          \* the transaction it runs
    slot,        \* version and presence of every key of every database
    epoch,       \* `db_epoch`
    bus,         \* the reply channel
    cache,       \* ghost: the versions each client holds in its own cache
    acked        \* ghost: the newest version of each key its writer was told of

vars == <<workload, conns, role, pause, timers, tracking, readers, channels, io,
          inbox, coord, tx, slot, epoch, bus, cache, acked>>
keyVars == <<slot, epoch, readers>>
shardVars == <<inbox, coord, tx>>
ghosts == <<cache, acked>>

NewConn ==
    [open |-> TRUE, db |-> 0, phase |-> "Inactive", queue |-> <<>>,
     watched |-> {}, dirty |-> FALSE,       \* WATCH
     dispatched |-> 0, delivered |-> 0, buffered |-> {},     \* dispatch_seq, deliver_seq
     subs |-> {}, resp3 |-> TRUE,           \* `SubscribeInfo`; HELLO 3 was sent
     asked |-> 0,                           \* requests sent
     caching |-> ""]                        \* ghost: the CLIENT CACHING just before

NewTracking == [enabled |-> FALSE, mode |-> "none", seq |-> 0, caching |-> 1]

Nowhere == [pc |-> "idle", conn |-> CHOOSE c \in Conns : TRUE, seq |-> 0,
            cmd |-> Cmd("", {}, "", 0), for |-> "", asking |-> FALSE, got |-> <<>>,
            dirty |-> FALSE, watched |-> {}, queue |-> <<>>, floor |-> <<>>]

NoTx == [active |-> FALSE]

Init ==
    /\ workload \in Workloads
    /\ conns = [c \in Conns |-> NewConn]
    /\ role = "master"
    /\ pause = [m \in {"all", "write"} |-> 0]
    /\ timers = [m \in {"all", "write"} |-> 0]
    /\ tracking = [c \in Conns |-> NewTracking]
    /\ readers = [k \in Keys |-> {}]
    /\ channels = [ch \in Channels |-> {}]
    /\ io = Nowhere
    /\ inbox = [s \in Shards |-> <<>>]
    /\ coord = <<>>
    /\ tx = NoTx
    /\ slot = [x \in Slots |-> [ver |-> 0, there |-> FALSE]]
    /\ epoch = [d \in Dbs |-> 0]
    /\ bus = <<>>
    /\ cache = [c \in Conns |-> [x \in Slots |-> -1]]
    /\ acked = [x \in Slots |-> 0]

----------------------------------------------------------------------------
(* Replies.  A reply carries what the client learns from it: the versions  *)
(* it read, if the server promised to track them, and those it wrote.      *)

Reply(c, seq, reads, writes) ==
    [conn |-> c, seq |-> seq, push |-> FALSE, keys |-> {}, reads |-> reads, writes |-> writes]
Push(c, ks) ==
    [conn |-> c, seq |-> 0, push |-> TRUE, keys |-> ks, reads |-> {}, writes |-> {}]
Plain(c, seq) == Reply(c, seq, {}, {})

(* `deliver`: a reply whose turn it is goes out, with the buffered ones    *)
(* that follow it; a later one is buffered.                                *)
Outgoing(cn, r) ==
    IF r.seq # cn.delivered THEN <<>>
    ELSE LET run(n) == \A s \in cn.delivered + 1 .. n : \E b \in cn.buffered : b.seq = s
             last == Max({n \in cn.delivered .. cn.dispatched : run(n)})
         IN  SetToSortSeq({r} \cup {b \in cn.buffered : b.seq <= last}, LAMBDA a, b : a.seq < b.seq)
(* Mutant: the buffered replies that went out stay in the buffer.          *)
DeliveredKept(cn, r) ==
    LET out == Outgoing(cn, r)
    IN  IF out = <<>> THEN [cn EXCEPT !.buffered = @ \cup {r}]
        ELSE [cn EXCEPT !.delivered = @ + Len(out)]

Delivered(cn, r) ==
    LET out == Outgoing(cn, r)
    IN  IF out = <<>> THEN [cn EXCEPT !.buffered = @ \cup {r}]
        ELSE [cn EXCEPT !.delivered = @ + Len(out), !.buffered = @ \ Range(out)]

(* What the client makes of the replies that reach it.                     *)
Cached(old, out) ==
    FoldLeft(LAMBDA m, r : [x \in Slots |-> IF \E v \in r.reads : v.slot = x
                                            THEN (CHOOSE v \in r.reads : v.slot = x).ver
                                            ELSE m[x]], old, out)
Told(old, out) ==
    [x \in Slots |-> Max({old[x]} \cup {v.ver : v \in {w \in UNION {r.writes : r \in Range(out)} :
                                                       w.slot = x}})]

(* A local reply tells the client nothing about keys, but the ones that    *)
(* waited for it may.                                                      *)
AnswerFrom(c, cn, seq, known) ==
    /\ conns' = [conns EXCEPT ![c] = Delivered(cn, Plain(c, seq))]
    /\ cache' = [cache EXCEPT ![c] = Cached(known, Outgoing(cn, Plain(c, seq)))]
    /\ acked' = Told(acked, Outgoing(cn, Plain(c, seq)))
Answer(c, cn, seq) == AnswerFrom(c, cn, seq, cache[c])
EmptyCache == [x \in Slots |-> -1]

----------------------------------------------------------------------------
(* CLIENT TRACKING (`Tracking`, `local_tracking`, `local_caching`)          *)


ShouldTrack(c) ==
    LET t == tracking[c]
    IN  /\ t.enabled
        /\ t.mode # "noloop"
        /\ t.mode = "optin" => t.seq = 1 + t.caching
        /\ t.mode = "optout" => t.seq # 1 + t.caching

(* What the options promise the client: OPTIN tracks the read after a      *)
(* CACHING YES, OPTOUT every read but the one after a CACHING NO.          *)
Promised(c) ==
    LET t == tracking[c]
    IN  /\ t.enabled
        /\ t.mode # "noloop"
        /\ t.mode = "optin" => conns[c].caching = "yes"
        /\ t.mode = "optout" => conns[c].caching # "no"

CachingAllowed(c, arg) ==
    /\ conns[c].resp3 /\ tracking[c].enabled
    /\ tracking[c].mode = IF arg = "yes" THEN "optin" ELSE "optout"

IncSeq(t) == IF t.enabled THEN [t EXCEPT !.seq = @ + 1] ELSE t

(* CLIENT CACHING captures the sequence number; inside EXEC the one before.*)
SetCaching(t, inExec) ==
    [t EXCEPT !.caching = IF inExec /\ t.seq # 0 THEN t.seq - 1 ELSE t.seq]

Tracked(c, cmd, inExec) ==
    LET t == tracking[c]
    IN  CASE cmd.name = "CLIENT TRACKING" /\ conns[c].resp3 ->
               [t EXCEPT !.enabled = cmd.arg # "off",
                         !.mode = IF cmd.arg \in {"on", "off"} THEN "none" ELSE cmd.arg]
          [] cmd.name = "CLIENT CACHING" /\ CachingAllowed(c, cmd.arg) -> SetCaching(t, inExec)
          [] OTHER -> t

----------------------------------------------------------------------------
(* Sending a command to its shard or to the coordinator.  `promised` and   *)
(* `admitted` are ghosts: may the client cache what it reads, and was the  *)
(* server no replica when it accepted the command?                         *)

Message(c, seq, cmd, db, admitted) ==
    [kind |-> "single", conn |-> c, seq |-> seq, cmd |-> cmd, db |-> db,
     track |-> ShouldTrack(c), promised |-> Promised(c), admitted |-> admitted]

(* `dispatch_keyed`, `send_single`, `send_coord`.                          *)
DispatchKeyed(m) ==
    IF ViaCoordinator(m.cmd)
    THEN coord' = Append(coord, <<m>>) /\ UNCHANGED inbox
    ELSE \E s \in ShardsOf(m.cmd) :
            inbox' = [inbox EXCEPT ![s] = Append(@, m)] /\ UNCHANGED coord

----------------------------------------------------------------------------
(* The commands the IO thread runs itself (`handle_local`).                *)

AfterLocal(cn, cmd, allowed) ==
    [cn EXCEPT !.db = IF cmd.name = "SELECT" THEN cmd.db ELSE @,
               !.resp3 = IF cmd.name = "HELLO" THEN cmd.arg = "3" ELSE @,
               !.caching = IF cmd.name = "CLIENT CACHING" /\ allowed THEN cmd.arg ELSE @]

(* REPLICAOF answers before the replica thread has set the phase; the      *)
(* pause gate opens with one timer thread per CLIENT PAUSE.                *)
LocalEffects(c, cmd, inExec) ==
    /\ role' = IF cmd.name # "REPLICAOF" THEN role
               ELSE IF cmd.arg = "one" THEN "starting" ELSE "master"
    /\ pause' = IF cmd.name = "CLIENT PAUSE" THEN [pause EXCEPT ![cmd.arg] = @ + 1] ELSE pause
    /\ timers' = IF cmd.name = "CLIENT PAUSE" THEN [timers EXCEPT ![cmd.arg] = @ + 1] ELSE timers
    /\ tracking' = [tracking EXCEPT ![c] = IF inExec THEN Tracked(c, cmd, TRUE)
                                           ELSE IncSeq(Tracked(c, cmd, FALSE))]

KnownAfter(c, cmd) ==
    IF cmd.name = "CLIENT TRACKING" /\ conns[c].resp3 THEN EmptyCache ELSE cache[c]

----------------------------------------------------------------------------
(* `dispatch`: one handler per command.  cn is the connection with the     *)
(* request numbered, seq its number.                                       *)

gates == <<role, pause, timers>>
queues == <<inbox, coord>>

JustReply(c, cn, seq) ==
    /\ Answer(c, cn, seq)
    /\ io' = Nowhere
    /\ UNCHANGED <<gates, tracking, channels, queues>>

NoMulti(cn) == [cn EXCEPT !.phase = "Inactive", !.queue = <<>>]
NoWatch(cn) == [cn EXCEPT !.watched = {}, !.dirty = FALSE]

(* An arity error poisons the open MULTI.                                  *)
WrongArity(c, cn, seq, cmd) ==
    /\ cmd.name = "MALFORMED"
    /\ JustReply(c, [cn EXCEPT !.phase = IF @ = "Collect" THEN "Error" ELSE @], seq)

IsReplica == role = "replica"

Refused(cmd) == IsReplica /\ IsWrite(cmd)
ReadOnly(c, cn, seq, cmd) == Refused(cmd) /\ JustReply(c, cn, seq)

(* `queue_cmd`.                                                            *)
Collected(c, cmd) ==
    conns[c].phase = "Collect" /\ cmd.name \notin {"MALFORMED", "MULTI", "EXEC", "DISCARD", "RESET"}
Forbidden(cmd) == cmd.name \in {"WATCH", "FLUSHALL", "SUBSCRIBE", "UNSUBSCRIBE"}
QueueCmd(c, cn, seq, cmd) ==
    /\ ~Refused(cmd)
    /\ Collected(c, cmd)
    /\ JustReply(c, IF Forbidden(cmd) THEN [cn EXCEPT !.phase = "Error"]
                    ELSE [cn EXCEPT !.queue = Append(@, [cmd |-> cmd, admitted |-> ~IsReplica])], seq)

Runs(c, cmd) == ~Refused(cmd) /\ ~Collected(c, cmd)

LocalMulti(c, cn, seq, cmd) ==
    /\ cmd.name = "MULTI"
    /\ JustReply(c, IF cn.phase = "Collect" THEN cn
                    ELSE [cn EXCEPT !.phase = "Collect", !.queue = <<>>], seq)

LocalDiscard(c, cn, seq, cmd) ==
    /\ cmd.name = "DISCARD"
    /\ JustReply(c, NoWatch(NoMulti(cn)), seq)

LocalUnwatch(c, cn, seq, cmd) ==
    /\ Runs(c, cmd)
    /\ cmd.name = "UNWATCH"
    /\ JustReply(c, NoWatch(cn), seq)

(* Mutant: the channel store keeps the connection.                         *)
LocalResetListed(c, cn, seq, cmd) ==
    /\ cmd.name = "RESET"
    /\ AnswerFrom(c, [NoWatch(NoMulti(cn)) EXCEPT !.db = 0, !.subs = {}, !.resp3 = FALSE], seq, EmptyCache)
    /\ tracking' = [tracking EXCEPT ![c].enabled = FALSE]
    /\ io' = Nowhere
    /\ UNCHANGED <<gates, channels, queues>>

(* RESET leaves the tracked reads of the connection registered.            *)
LocalReset(c, cn, seq, cmd) ==
    /\ cmd.name = "RESET"
    /\ AnswerFrom(c, [NoWatch(NoMulti(cn)) EXCEPT !.db = 0, !.subs = {}, !.resp3 = FALSE], seq, EmptyCache)
    /\ tracking' = [tracking EXCEPT ![c].enabled = FALSE]
    /\ channels' = [ch \in Channels |-> channels[ch] \ {c}]
    /\ io' = Nowhere
    /\ UNCHANGED <<gates, queues>>

(* Every channel is answered with a reply of its own; the model's commands *)
(* name one channel, or none for an UNSUBSCRIBE from all of them.          *)
LocalSubscribe(c, cn, seq, cmd) ==
    /\ Runs(c, cmd)
    /\ cmd.name = "SUBSCRIBE"
    /\ channels' = [ch \in Channels |-> channels[ch] \cup (IF ch \in cmd.keys THEN {c} ELSE {})]
    /\ Answer(c, [cn EXCEPT !.subs = @ \cup cmd.keys], seq)
    /\ io' = Nowhere
    /\ UNCHANGED <<gates, tracking, queues>>

LocalUnsubscribe(c, cn, seq, cmd) ==
    /\ Runs(c, cmd)
    /\ cmd.name = "UNSUBSCRIBE"
    /\ LET gone == IF cmd.keys = {} THEN cn.subs ELSE cmd.keys
       IN  /\ channels' = [ch \in Channels |-> channels[ch] \ (IF ch \in gone THEN {c} ELSE {})]
           /\ Answer(c, [cn EXCEPT !.subs = @ \ gone], seq)
    /\ io' = Nowhere
    /\ UNCHANGED <<gates, tracking, queues>>

HandleLocal(c, cn, seq, cmd) ==
    /\ Runs(c, cmd)
    /\ cmd.name \in {"SELECT", "HELLO", "REPLICAOF", "CLIENT TRACKING", "CLIENT CACHING", "CLIENT PAUSE"}
    /\ AnswerFrom(c, AfterLocal([cn EXCEPT !.caching = ""], cmd, CachingAllowed(c, cmd.arg)), seq,
                  KnownAfter(c, cmd))
    /\ LocalEffects(c, cmd, FALSE)
    /\ io' = Nowhere
    /\ UNCHANGED <<channels, queues>>

Keyed(c, cn, seq, cmd) ==
    /\ Runs(c, cmd)
    /\ ~IsLocal(cmd) /\ cmd.name # "MALFORMED"
    /\ DispatchKeyed(Message(c, seq, cmd, cn.db, ~IsReplica))
    /\ conns' = [conns EXCEPT ![c] = [cn EXCEPT !.caching = ""]]
    /\ tracking' = [tracking EXCEPT ![c] = IncSeq(@)]
    /\ io' = Nowhere
    /\ UNCHANGED <<gates, channels, ghosts>>

----------------------------------------------------------------------------
(* WATCH and EXEC.  `watch_snapshot` asks one shard after the other, in    *)
(* ascending order, and waits for each answer.                             *)

Todo(i) == IF i.for = "watch" THEN i.cmd.keys \ DOMAIN i.got
           ELSE {w.key : w \in i.watched} \ DOMAIN i.got

(* Send the query to the next shard.                                       *)
Ask(i) ==
    LET s == Min({ShardOf[k] : k \in Todo(i)})
    IN  /\ inbox' = [inbox EXCEPT ![s] = Append(@, [kind |-> "watch", db |-> conns[i.conn].db,
                                                   keys |-> {k \in Todo(i) : ShardOf[k] = s}])]
        /\ io' = [i EXCEPT !.pc = "snapshot", !.asking = TRUE]

(* Mutant: the versions are not compared.                                  *)
UnlikeExistence(state, now) == state.there # now.there \/ state.epoch # now.epoch
Unlike(state, now) == state # now
Changed(watched, got) == \E w \in watched : Unlike(w.state, got[w.key])

(* `local_watch`: the keys already watched are compared first, in the      *)
(* database selected now; once one has changed WATCH adds no more keys.    *)
LocalWatch(c, cn, seq, cmd) ==
    /\ Runs(c, cmd)
    /\ cmd.name = "WATCH"
    /\ IF cn.dirty THEN JustReply(c, cn, seq)
       ELSE /\ Ask([Nowhere EXCEPT !.conn = c, !.seq = seq, !.cmd = cmd, !.watched = cn.watched,
                                   !.for = IF cn.watched = {} THEN "watch" ELSE "recheck"])
            /\ conns' = [conns EXCEPT ![c] = cn]
            /\ UNCHANGED <<gates, tracking, channels, coord, ghosts>>

(* `deduce_exec_mode` and `queue_is_batchable`.  The scan for commands     *)
(* that need their own mode stops at the first global one.                 *)
Queued(queue) == {queue[n].cmd : n \in DOMAIN queue}
GlobalMode(queue) ==
    \E n \in DOMAIN queue : /\ IsGlobal(queue[n].cmd)
                            /\ \A p \in 1 .. n : ~IsAdmin(queue[p].cmd)
Batchable(queue) == \A cmd \in Queued(queue) : ~IsLocal(cmd) /\ ~IsAdmin(cmd)

(* The queue runs: the array header is delivered, and the commands follow  *)
(* one by one, or all of them as one message to the coordinator.           *)
RunQueue(c, cn, seq, i) ==
    /\ LET batch == GlobalMode(i.queue) /\ Batchable(i.queue)
           n == Len(i.queue)
       IN  /\ Answer(c, IF batch THEN [cn EXCEPT !.dispatched = @ + n] ELSE cn, seq)
           /\ coord' = IF batch
                       THEN Append(coord, [j \in 1 .. n |-> Message(c, cn.dispatched + j - 1, i.queue[j].cmd,
                                                                    cn.db, i.queue[j].admitted)])
                       ELSE coord
           /\ io' = IF batch \/ n = 0 THEN Nowhere ELSE [i EXCEPT !.pc = "run", !.got = <<>>]
    /\ UNCHANGED <<gates, tracking, channels, inbox>>

(* `local_exec`: an abort forgets the watched keys and the queue too.      *)
LocalExec(c, cn, seq, cmd) ==
    /\ cmd.name = "EXEC"
    /\ LET done == NoWatch(NoMulti(cn))
           i == [Nowhere EXCEPT !.conn = c, !.seq = seq, !.cmd = cmd, !.for = "exec",
                                !.watched = cn.watched, !.queue = cn.queue, !.floor = acked]
       IN  IF \/ cn.phase # "Collect"
              \/ \E w \in cn.watched : w.db # cn.db
              \/ cn.dirty
           THEN JustReply(c, done, seq)
           ELSE IF cn.watched = {} THEN RunQueue(c, done, seq, i)
           ELSE /\ Ask(i)
                /\ conns' = [conns EXCEPT ![c] = done]
                /\ UNCHANGED <<gates, tracking, channels, coord, ghosts>>

(* The answers are in.                                                     *)
SnapshotNext ==
    /\ io.pc = "snapshot" /\ ~io.asking
    /\ LET c == io.conn
           cn == conns[c]
           changed == Changed(io.watched, io.got)
       IN  IF Todo(io) # {}
           THEN Ask(io) /\ UNCHANGED <<conns, gates, tracking, channels, coord, ghosts>>
           ELSE CASE io.for = "recheck" ->
                       /\ Ask([io EXCEPT !.for = "watch", !.dirty = changed, !.got = <<>>])
                       /\ UNCHANGED <<conns, gates, tracking, channels, coord, ghosts>>
                  [] io.for = "watch" ->
                       JustReply(c, IF io.dirty THEN [cn EXCEPT !.dirty = TRUE]
                                    ELSE [cn EXCEPT !.watched = @ \cup
                                             {[db |-> cn.db, key |-> k, state |-> io.got[k]] : k \in io.cmd.keys}],
                                 io.seq)
                  [] io.for = "exec" ->
                       IF changed THEN JustReply(c, cn, io.seq) ELSE RunQueue(c, cn, io.seq, io)
    /\ UNCHANGED <<workload, keyVars, tx, bus>>

(* `run_queued`: no pause gate and no check of the role.                   *)
RunQueued ==
    /\ io.pc = "run"
    /\ LET c == io.conn
           cmd == Head(io.queue).cmd
           seq == conns[c].dispatched
           cn == [conns[c] EXCEPT !.dispatched = @ + 1]
       IN  /\ IF ~IsLocal(cmd)
              THEN /\ DispatchKeyed(Message(c, seq, cmd, cn.db, Head(io.queue).admitted))
                   /\ conns' = [conns EXCEPT ![c] = cn]
                   /\ UNCHANGED <<gates, tracking, ghosts>>
              ELSE /\ AnswerFrom(c, IF cmd.name = "UNWATCH" THEN NoWatch(cn)
                                    ELSE AfterLocal(cn, cmd, CachingAllowed(c, cmd.arg)), seq, KnownAfter(c, cmd))
                   /\ LocalEffects(c, cmd, TRUE)
                   /\ UNCHANGED queues
    /\ io' = IF Len(io.queue) = 1 THEN Nowhere ELSE [io EXCEPT !.queue = Tail(@)]
    /\ UNCHANGED <<workload, channels, keyVars, tx, bus>>

----------------------------------------------------------------------------
(* The gate of CLIENT PAUSE (`pause_check`, `wait_until_clear`).            *)

Gated(c, cmd) ==
    \/ pause["all"] > 0
    \/ /\ pause["write"] > 0
       /\ IsWrite(cmd) \/ (cmd.name = "EXEC" /\ \E q \in Queued(conns[c].queue) : IsWrite(q))

Handle(c, cn, seq, cmd) ==
    \/ WrongArity(c, cn, seq, cmd)
    \/ ReadOnly(c, cn, seq, cmd)
    \/ QueueCmd(c, cn, seq, cmd)
    \/ LocalMulti(c, cn, seq, cmd)
    \/ LocalExec(c, cn, seq, cmd)
    \/ LocalDiscard(c, cn, seq, cmd)
    \/ LocalReset(c, cn, seq, cmd)
    \/ LocalWatch(c, cn, seq, cmd)
    \/ LocalUnwatch(c, cn, seq, cmd)
    \/ LocalSubscribe(c, cn, seq, cmd)
    \/ LocalUnsubscribe(c, cn, seq, cmd)
    \/ HandleLocal(c, cn, seq, cmd)
    \/ Keyed(c, cn, seq, cmd)

(* A client that does not pipeline waits for its replies.                  *)
Ready(c) ==
    /\ conns[c].open /\ conns[c].asked < workload.limit[c]
    /\ c \in workload.pipelined \/ conns[c].delivered = conns[c].dispatched

Dispatch(c) ==
    /\ io.pc = "idle" /\ Ready(c)
    /\ \E cmd \in workload.cmds[c] :
          LET cn == [conns[c] EXCEPT !.dispatched = @ + 1, !.asked = @ + 1]
              seq == conns[c].dispatched
          IN  IF Gated(c, cmd)
              THEN /\ io' = [Nowhere EXCEPT !.pc = "paused", !.conn = c, !.seq = seq, !.cmd = cmd]
                   /\ conns' = [conns EXCEPT ![c] = cn]
                   /\ UNCHANGED <<gates, tracking, channels, queues, ghosts>>
              ELSE Handle(c, cn, seq, cmd)
    /\ UNCHANGED <<workload, keyVars, tx, bus>>

Resume ==
    /\ io.pc = "paused" /\ ~Gated(io.conn, io.cmd)
    /\ Handle(io.conn, conns[io.conn], io.seq, io.cmd)
    /\ UNCHANGED <<workload, keyVars, tx, bus>>

(* The timer thread of a CLIENT PAUSE (`ClientPause::end`).                 *)
(* Mutant: every timer closes the gate of a full pause.                    *)
EndPauseAll(m) == [pause EXCEPT !["all"] = IF @ = 0 THEN 0 ELSE @ - 1]
EndPause(m) == [pause EXCEPT ![m] = IF @ = 0 THEN 0 ELSE @ - 1]
PauseTimer(m) ==
    /\ timers[m] > 0
    /\ timers' = [timers EXCEPT ![m] = @ - 1]
    /\ pause' = EndPause(m)
    /\ UNCHANGED <<workload, conns, role, tracking, channels, io, keyVars, shardVars, bus, ghosts>>

(* The replica thread sets its phase (`connect_and_replicate`).             *)
ReplicaThread ==
    /\ role = "starting"
    /\ role' = "replica"
    /\ UNCHANGED <<workload, conns, pause, timers, tracking, channels, io, keyVars, shardVars, bus, ghosts>>

(* `close_conn`: what is in flight for the connection still arrives.       *)
CloseConn(c) ==
    /\ io.pc = "idle" /\ workload.closes /\ conns[c].open
    /\ conns' = [conns EXCEPT ![c].open = FALSE, ![c].subs = {}]
    /\ tracking' = [tracking EXCEPT ![c] = NewTracking]
    /\ readers' = [k \in Keys |-> readers[k] \ {c}]
    /\ channels' = [ch \in Channels |-> channels[ch] \ {c}]
    /\ UNCHANGED <<workload, gates, io, slot, epoch, shardVars, bus, ghosts>>

----------------------------------------------------------------------------
(* Shards and the coordinator *)

Modified(cmd, d) ==
    CASE cmd.name = "SET" -> {d} \X cmd.keys
      [] cmd.name = "DEL" -> {x \in {d} \X cmd.keys : slot[x].there}
      [] cmd.name = "FLUSHALL" -> {x \in Slots : slot[x].there}
      [] OTHER -> {}

(* `flush_invalidations` and `flush_db_invalidations`: the readers of the  *)
(* modified keys are told and forgotten.                                   *)
Invalidations(cmd, mod) ==
    IF cmd.name = "FLUSHALL" THEN {Push(c, Keys) : c \in {a \in Conns : tracking[a].enabled}}
    ELSE UNION {{Push(c, {x[2]}) : c \in {a \in readers[x[2]] : tracking[a].enabled}} : x \in mod}
ReadersAfter(m, mod) ==
    [k \in Keys |->
        (IF m.cmd.name = "FLUSHALL" \/ \E x \in mod : x[2] = k THEN {} ELSE readers[k])
        \cup (IF m.track /\ IsRead(m.cmd) /\ k \in m.cmd.keys THEN {m.conn} ELSE {})]

(* `run_exec`: the command, the invalidations, the reads it records, and   *)
(* then its reply.                                                         *)
RunExec(m) ==
    LET mod == Modified(m.cmd, m.db)
        new == [x \in Slots |-> IF x \in mod THEN [ver |-> slot[x].ver + 1, there |-> m.cmd.name = "SET"]
                                ELSE slot[x]]
        learn(xs) == {[slot |-> x, ver |-> new[x].ver] : x \in xs}
        reads == IF m.cmd.name = "GET" /\ m.promised THEN {m.db} \X m.cmd.keys ELSE {}
    IN  /\ slot' = new
        /\ epoch' = IF m.cmd.name = "FLUSHALL" THEN [d \in Dbs |-> epoch[d] + 1] ELSE epoch
        /\ readers' = ReadersAfter(m, mod)
        /\ bus' = bus \o SetToSeq(Invalidations(m.cmd, mod))
                      \o <<Reply(m.conn, m.seq, learn(reads), learn(mod))>>

Locked(s) == tx.active /\ s \in tx.locked

HandleSingle(s, m) ==
    /\ m.kind = "single" /\ ~Locked(s)
    /\ RunExec(m)
    /\ UNCHANGED <<io, tx>>

(* `run_watch_query`.                                                      *)
HandleWatch(s, m) ==
    /\ m.kind = "watch" /\ ~Locked(s)
    /\ LET state(k) == [ver |-> slot[<<m.db, k>>].ver, there |-> slot[<<m.db, k>>].there, epoch |-> epoch[m.db]]
       IN  io' = [io EXCEPT !.asking = FALSE,
                            !.got = [k \in DOMAIN @ \cup m.keys |-> IF k \in m.keys THEN state(k) ELSE @[k]]]
    /\ UNCHANGED <<keyVars, tx, bus>>

HandleLock(s, m) ==
    /\ m.kind = "lock"
    /\ tx' = [tx EXCEPT !.locked = @ \cup {s}]
    /\ UNCHANGED <<io, keyVars, bus>>

ShardStep(s) ==
    /\ inbox[s] # <<>>
    /\ \/ HandleSingle(s, Head(inbox[s]))
       \/ HandleWatch(s, Head(inbox[s]))
       \/ HandleLock(s, Head(inbox[s]))
    /\ inbox' = [inbox EXCEPT ![s] = Tail(@)]
    /\ UNCHANGED <<workload, conns, gates, tracking, channels, coord, ghosts>>

(* `execute_tx` for the first command of `todo`: the locks go out.         *)
SendLocks(todo) ==
    /\ inbox' = [s \in Shards |-> IF s \in ShardsOf(todo[1].cmd) THEN Append(inbox[s], [kind |-> "lock"])
                                  ELSE inbox[s]]
    /\ tx' = [active |-> TRUE, todo |-> todo, locked |-> {}]

CoordTake ==
    /\ ~tx.active /\ coord # <<>>
    /\ SendLocks(Head(coord))
    /\ coord' = Tail(coord)
    /\ UNCHANGED <<workload, conns, gates, tracking, channels, io, keyVars, bus, ghosts>>

(* Every shard is locked: the command runs on all of them, they are        *)
(* unlocked, and the next command of a batch follows without a look at     *)
(* the queue (`execute_multi_batch`).                                      *)
CoordExec ==
    /\ tx.active /\ tx.locked = ShardsOf(tx.todo[1].cmd)
    /\ RunExec(tx.todo[1])
    /\ IF Len(tx.todo) = 1 THEN tx' = NoTx /\ UNCHANGED inbox ELSE SendLocks(Tail(tx.todo))
    /\ UNCHANGED <<workload, conns, gates, tracking, channels, io, coord, ghosts>>

(* `drain_bus`: a push goes out at once, a reply when its turn comes.      *)
DrainBus ==
    /\ io.pc = "idle" /\ bus # <<>>
    /\ LET r == Head(bus)
           c == r.conn
           cn == conns[c]
       IN  IF ~cn.open THEN UNCHANGED <<conns, ghosts>>
           ELSE IF r.push
           THEN /\ cache' = [cache EXCEPT ![c] = [x \in Slots |-> IF x[2] \in r.keys THEN -1 ELSE @[x]]]
                /\ UNCHANGED <<conns, acked>>
           ELSE /\ conns' = [conns EXCEPT ![c] = Delivered(cn, r)]
                /\ cache' = [cache EXCEPT ![c] = Cached(@, Outgoing(cn, r))]
                /\ acked' = Told(acked, Outgoing(cn, r))
    /\ bus' = Tail(bus)
    /\ UNCHANGED <<workload, gates, tracking, channels, io, keyVars, shardVars>>

IoStep == Resume \/ SnapshotNext \/ RunQueued \/ DrainBus
Next ==
    \/ \E c \in Conns : Dispatch(c) \/ CloseConn(c)
    \/ IoStep
    \/ \E s \in Shards : ShardStep(s)
    \/ CoordTake \/ CoordExec
    \/ \E m \in {"all", "write"} : PauseTimer(m)
    \/ ReplicaThread

Spec == Init /\ [][Next]_vars

(* Threads that can go on do; clients need not.                            *)
FairSpec ==
    /\ Spec
    /\ WF_vars(IoStep)
    /\ \A s \in Shards : WF_vars(ShardStep(s))
    /\ WF_vars(CoordTake \/ CoordExec)
    /\ \A m \in {"all", "write"} : WF_vars(PauseTimer(m))
    /\ WF_vars(ReplicaThread)

----------------------------------------------------------------------------
(* Properties *)

(* Connections, the coordinator's transaction and the replies are of the   *)
(* shapes the code's structures allow.                                     *)
TypeOK ==
    /\ \A c \in Conns :
          /\ conns[c].phase \in {"Inactive", "Collect", "Error"}
          /\ conns[c].db \in Dbs
          /\ conns[c].delivered \in 0 .. conns[c].dispatched
          /\ \A b \in conns[c].buffered : b.seq \in conns[c].delivered + 1 .. conns[c].dispatched - 1
          /\ conns[c].subs \subseteq Channels
    /\ role \in {"master", "starting", "replica"}
    /\ pause \in [{"all", "write"} -> Nat] /\ timers \in [{"all", "write"} -> Nat]
    /\ io.pc \in {"idle", "paused", "snapshot", "run"}
    /\ tx.active => tx.locked \subseteq ShardsOf(tx.todo[1].cmd)
    /\ \A x \in Slots : acked[x] <= slot[x].ver

(* WATCH keeps its promise in real time: when EXEC lets the queue run, no  *)
(* watched key has a version that some client had already been told of     *)
(* when the EXEC was dispatched and that is newer than the one the WATCH   *)
(* saw.  (A write not yet acknowledged may still fall between the answer   *)
(* of a shard and the queued commands.)                                    *)
WatchHonoured ==
    io.pc = "run" => \A w \in io.watched : io.floor[<<w.db, w.key>>] <= w.state.ver


(* The two indexes of the subscriptions agree: a channel lists exactly the *)
(* open connections that list the channel, after RESET and close as well.  *)
SubscribersAgree ==
    \A ch \in Channels, c \in Conns :
        c \in channels[ch] <=> conns[c].open /\ ch \in conns[c].subs


(* Nobody waits for ever: the IO thread gets past a pause and past the     *)
(* shards it asks for a WATCH, however these and the coordinator's locks   *)
(* interleave, and every request of an open connection is answered.        *)
RequestsAnswered ==
    \A c \in Conns :
        conns[c].open /\ conns[c].delivered < conns[c].dispatched
            ~> ~conns[c].open \/ conns[c].delivered = conns[c].dispatched
=============================================================================
