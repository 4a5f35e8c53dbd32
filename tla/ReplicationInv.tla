--------------------------- MODULE ReplicationInv ---------------------------
(***************************************************************************)
(* The inductive invariants of replication, on which its proofs rest: what *)
(* a session may leave on a shard, and what is under way for the replica's *)
(* session on each shard, in the IO thread's channel and on the flow's     *)
(* socket.                                                                 *)
(***************************************************************************)
EXTENDS Replication

(* The first record a snapshot has not folded has a number.                *)
SnapInv == \A s \in Shards, i \in Sids : snaps[s][i] = NoSnap \/ snaps[s][i].from # 0

(* Sessions count from 1.                                                  *)
CurInv == up \/ stableNext # 0 => cur # 0

TypeInv == TypeOK /\ SnapInv /\ CurInv

----------------------------------------------------------------------------
(* What a closed session leaves on a shard is about to be cleared.         *)

Frame == [sid : Sids, items : Seq(Entry), done : BOOLEAN]

(* What there is belongs to sessions that were opened, and a shard is told *)
(* to stop only for one that was closed.                                   *)
KnownMsg ==
    {m \in ShardMsg : m.t # "enable" =>
        m.sid <= cur /\ (m.t = "stop" => sess[m.sid].state = "none")}

KnownFrame == {f \in Frame : f.sid <= cur}
KnownChunk == {c \in Chunk : c.sid <= cur}

SidInv ==
    /\ lost \subseteq 1 .. cur /\ consumers \in [Shards -> SUBSET (1 .. cur)]
    /\ shardQ \in [Shards -> Seq(KnownMsg)]
    /\ frames \in [Shards -> Seq(KnownFrame)]
    /\ chan \in [Shards -> Seq(KnownChunk)]

(* The session that `dfly_startstable` works on is open, and a shard       *)
(* streams to the replica's session only once it was started, which for    *)
(* a session that is up has it stable.                                     *)
StartInv ==
    /\ up => cur \notin lost
    /\ stableNext # 0 => sess[cur].state \in {"preparation", "full"}
    /\ \A s \in Shards : cur \in consumers[s] =>
          s < stableNext \/ (stableNext = 0 /\ (~up \/ sess[cur].state = "stable"))

(* A session registers on a shard only once: `repl_consumers` never has two *)
(* entries of it, and `stop_replication`, which removes one, leaves none.   *)
RegistersOnce == \A s \in Shards : StartStableSync(s) => cur \notin consumers[s]

Msg(t, i) == {m \in ShardMsg : m.t = t /\ m.sid = i}

None(q, S) == \A n \in DOMAIN q : q[n] \notin S
AtMostOne(q, S) == \A n, m \in DOMAIN q : q[n] \in S /\ q[m] \in S => n = m

(* A cancel of session i is queued, and no snapshot behind it.             *)
Cleared(q, i) ==
    \E n \in DOMAIN q :
        /\ q[n] \in Msg("cancel", i)
        /\ \A m \in DOMAIN q : m > n => q[m] \notin Msg("snapshot", i)

Clearing(s, i) ==
    /\ (snaps[s][i] = NoSnap /\ None(shardQ[s], Msg("snapshot", i))) \/ Cleared(shardQ[s], i)
    /\ i \notin consumers[s] \/ ~None(shardQ[s], Msg("stop", i))

LeakInv ==
    \A s \in Shards, i \in Sids :
        (sess[i].state = "none" /\ i \notin lost) => Clearing(s, i)

CloseInv == SidInv /\ StartInv /\ LeakInv

----------------------------------------------------------------------------
(* The flow of shard s in the replica's session.                           *)

(* A chunk of its snapshot is asked for, being serialized or on its way.   *)
Asks(i) == Msg("snapshot", i) \cup Msg("step", i)
Open(i) == {f \in Frame : f.sid = i}
Full(i) == {c \in Chunk : c.sid = i /\ c.full}
Stream(i) == {c \in Chunk : c.sid = i /\ ~c.full}

NoWork(s) == None(shardQ[s], Asks(cur)) /\ None(frames[s], Open(cur)) /\ None(chan[s], Full(cur))
OneWork(s) ==
    \/ AtMostOne(shardQ[s], Asks(cur)) /\ None(frames[s], Open(cur)) /\ None(chan[s], Full(cur))
    \/ None(shardQ[s], Asks(cur)) /\ AtMostOne(frames[s], Open(cur)) /\ None(chan[s], Full(cur))
    \/ None(shardQ[s], Asks(cur)) /\ None(frames[s], Open(cur)) /\ AtMostOne(chan[s], Full(cur))

(* What its socket still has for the flow thread.                          *)
Incoming(s) == held[s] \o down[s]

(* Items of a snapshot, of which only the last may carry the cut.          *)
Loads(items, cut, lsn) ==
    \A n \in DOMAIN items :
        /\ items[n].t \in {"entry", "rec", "tail"}
        /\ items[n].t = "tail" =>
              n = Len(items) /\ items[n].cut = cut /\ cut # 0 /\ cut <= lsn

HasTail(items) == \E n \in DOMAIN items : items[n].t = "tail"

Loadable(lsn) ==
    {c \in Chunk : Loads(c.items, c.cut, lsn) /\ (HasTail(c.items) <=> c.cut # 0)}

NoStream(s) == cur \notin consumers[s] /\ None(chan[s], Stream(cur))
Quiet(s) == Incoming(s) = <<>> /\ NoWork(s) /\ NoStream(s)

(* It is to be greeted, waits for its snapshot, ...                        *)
Hello(s) == fpc[s] = "hello" /\ Quiet(s)
Waiting(s) == fpc[s] = "load" /\ Quiet(s)

(* ... loads it, ...                                                       *)
Loading(s) ==
    /\ fpc[s] = "load"
    /\ NoStream(s) /\ OneWork(s)
    /\ Loads(Incoming(s), sess[cur].start[s], Lsn(s))
    /\ HasTail(Incoming(s)) => NoWork(s)
    /\ None(chan[s], Full(cur) \ Loadable(Lsn(s)))

(* ... has its data and is to be caught up, ...                            *)
AtStart(s) == next[s] = sess[cur].start[s] /\ next[s] # 0 /\ next[s] <= Lsn(s)
Ready(s) == fpc[s] = "token" /\ Quiet(s) /\ AtStart(s)

(* The records `from` to `to`, in their order and one per chunk.           *)
RecChunk(i, lsn) ==
    {c \in Stream(i) :
        Len(c.items) = 1 /\ c.items[1].t = "rec" /\ c.items[1].lsn = lsn /\ c.cut = 0}

Chunks(q, i, from, to) ==
    /\ \A n \in DOMAIN q : q[n] \in Stream(i) => \E lsn \in from .. to : q[n] \in RecChunk(i, lsn)
    /\ \A n, m \in DOMAIN q :
          q[n] \in Stream(i) /\ q[m] \in Stream(i) /\ n < m => q[n].items[1].lsn < q[m].items[1].lsn
    /\ \A lsn \in from .. to : \E n \in DOMAIN q : q[n] \in RecChunk(i, lsn)

Counts(q, from) == \A n \in DOMAIN q : q[n].t = "rec" /\ q[n].lsn = from + n - 1

(* ... is caught up, with n records on its socket, ...                     *)
Follows(s, n) ==
    /\ cur \in consumers[s] /\ NoWork(s)
    /\ next[s] # 0 /\ next[s] + n <= Lsn(s)
    /\ Chunks(chan[s], cur, next[s] + n, Len(log[s]))

Started(s) == fpc[s] = "token" /\ Incoming(s) = <<>> /\ Follows(s, 0)

(* ... and streams: the token comes first.                                 *)
Streaming(s) ==
    \/ fpc[s] = "stable" /\ Counts(Incoming(s), next[s]) /\ Follows(s, Len(Incoming(s)))
    \/ /\ fpc[s] = "token" /\ Incoming(s) # <<>> /\ Head(Incoming(s)).t = "token"
       /\ Counts(Tail(Incoming(s)), next[s]) /\ Follows(s, Len(Tail(Incoming(s))))

(* Where the flow of shard s may be while the control thread is at rpc,    *)
(* and what state the master has the session in.                           *)
FlowAt(s) ==
    /\ rpc = "flows" => Hello(s) \/ Waiting(s) \/ Ready(s)
    /\ rpc = "sync" => Waiting(s) \/ (sess[cur].state = "full" /\ (Loading(s) \/ Ready(s)))
    /\ rpc = "load" => Loading(s) \/ Ready(s)
    /\ rpc = "startstable" => IF s < stableNext THEN Started(s) ELSE Ready(s)
    /\ rpc = "stable" => Streaming(s)

StateAt ==
    /\ rpc # "idle"
    /\ rpc = "flows" => sess[cur].state = "preparation"
    /\ rpc \in {"sync", "load", "startstable"} => sess[cur].state \in {"preparation", "full"}
    /\ rpc = "stable" => sess[cur].state = "stable"
    /\ rpc # "startstable" => stableNext = 0

(* A session that is down gets nothing more, and what it read counts.      *)
DownAt(s) ==
    /\ down[s] = <<>>
    /\ rpc = "idle" => fpc[s] = "off" /\ held[s] = <<>>
    /\ fpc[s] = "stable" => Counts(held[s], next[s])

SessionInv ==
    /\ up => StateAt /\ \A s \in Shards : FlowAt(s)
    /\ ~up => \A s \in Shards : DownAt(s)
    /\ \A s \in Shards : Len(held[s]) <= 1
=============================================================================
