---------------------------- MODULE Replication ----------------------------
(***************************************************************************)
(* A replica attached to a master.  On the master: the journal of each     *)
(* shard (server/journal.rs), the chunked full-sync snapshot and the       *)
(* stable-sync streamer of the shard thread (server/shard.rs), and the IO  *)
(* thread's DFLY FLOW, SYNC and STARTSTABLE (server/event_loop.rs,         *)
(* server/replication.rs).  On the replica: the control thread and one     *)
(* flow thread per shard (server/replica.rs).  Connections are lost and    *)
(* sessions retried.                                                       *)
(***************************************************************************)
EXTENDS Naturals, Sequences, FiniteSets, Functions

CONSTANTS
    NumShards,    \* of the master and of the replica
    Keys,         \* the keys of one shard
    Ops,          \* write commands: some of "set", "del", "incr"
    RingCap,      \* RING_CAPACITY
    ChunkLen,     \* keys that fill FULL_SYNC_CHUNK_BYTES
    Seeded,       \* keys that exist when the replica attaches
    MaxWrites,    \* bound on the writes of the clients
    MaxSessions,  \* bound on the sessions the replica opens
    MaxLosses,    \* bound on losses of the session's connections
    LossAt,       \* where the control thread may be when they are lost
    Restarts,     \* may the master restart?
    SlowFlows     \* may a flow thread outlive the back-off of the control thread?

Shards == 1 .. NumShards
Sids == 1 .. MaxSessions

ASSUME ReplicationAssumption ==
    /\ NumShards \in Nat \ {0}
    /\ IsFiniteSet(Keys)
    /\ Ops \subseteq {"set", "del", "incr"}
    /\ RingCap \in Nat \ {0} /\ ChunkLen \in Nat \ {0}
    /\ Seeded \subseteq Keys
    /\ MaxWrites \in Nat /\ MaxSessions \in Nat /\ MaxLosses \in Nat
    /\ Restarts \in BOOLEAN /\ SlowFlows \in BOOLEAN

(* Values are numbers; 0 is a key that does not exist.                     *)
Store == [Keys -> Nat]
Record == [op : Ops, key : Keys, val : Nat]
Empty == [k \in Keys |-> 0]

(* Running the command of a journal record.                                *)
After(st, r) ==
    [st EXCEPT ![r.key] = CASE r.op = "set"  -> r.val
                            [] r.op = "incr" -> @ + 1
                            [] r.op = "del"  -> 0]

(* The members of a finite set in one fixed order: `keys.sort_unstable()`   *)
(* over keys that have no order of their own here.                          *)
Listing(S) == CHOOSE q \in Bijection(1 .. Cardinality(S), S) : TRUE

(* What travels on a flow socket.  `lsn` is not sent: the replica counts.  *)
Entry == [t : {"entry"}, key : Keys, val : Nat]
Item ==
    Entry
        \cup [t : {"rec"}, rec : Record, lsn : Nat]
        \cup [t : {"tail"}, cut : Nat]
        \cup [t : {"token"}]

(* `ReplChunk`; `cut` is 0 unless it is the last chunk of a snapshot.      *)
Chunk == [sid : Sids, full : BOOLEAN, items : Seq(Item), cut : Nat]

ShardMsg == [t : {"enable"}]
        \cup [t : {"snapshot", "step", "cancel", "stop"}, sid : Sids]

VARIABLES
    store,      \* the master's shards
    journalOn,  \* `journal` is Some
    log,        \* every record ever journaled; the ring holds the last RingCap
    hist,       \* hist[s][n] is the store a replica that needs record n must have
    snaps,      \* `full_syncs`: the keys to serialize, the first record not folded
    frames,     \* chunks being serialized (`snapshot_step` may nest)
    consumers,  \* `repl_consumers`; a session registers once
    shardQ,     \* the IO thread's messages to a shard
    chan,       \* `repl_tx`, a shard's part of it
    sess,       \* the ReplicationManager's sessions
    stableNext, \* the shard `dfly_startstable` waits for, or 0
    writes, losses

VARIABLES
    cur,        \* the replica's session
    up,         \* its connections are up
    lost,       \* sessions whose loss the master has still to notice
    down,       \* bytes on their way down the flow sockets
    rpc,        \* where the control thread is
    fpc,        \* where each flow thread is
    next,       \* `next_lsn` of each flow thread
    held,       \* what a flow thread has read and not yet applied
    late,       \* the same of flow threads of earlier sessions
    cell,       \* `lsn_cells`
    rstore      \* the replica's shards

shardVars == <<store, journalOn, log, hist, snaps, frames, consumers>>
masterVars == <<shardVars, shardQ, chan, sess, stableNext>>
flowVars == <<fpc, next, held, late, cell, rstore>>
replicaVars == <<cur, up, down, rpc, flowVars>>
vars == <<masterVars, writes, losses, replicaVars, lost>>

(* `JournalSlice::lsn`, and the part of the log the ring holds             *)
(* (`is_lsn_in_buffer`).                                                   *)
Lsn(s) == Len(log[s]) + 1
InBuffer(s, lsn) == lsn <= Len(log[s]) /\ lsn >= 1 /\ lsn + RingCap > Len(log[s])

Rec(s, lsn) == [t |-> "rec", rec |-> log[s][lsn], lsn |-> lsn]
Records(s, from) == [i \in 1 .. Lsn(s) - from |-> Rec(s, from + i - 1)]

NoSnap == [keys |-> <<>>, from |-> 0]

(* The types of the master's, the sessions' and the replica's state.       *)
TypeOK ==
    /\ store \in [Shards -> Store] /\ rstore \in [Shards -> Store]
    /\ journalOn \in [Shards -> BOOLEAN]
    /\ log \in [Shards -> Seq(Record)] /\ hist \in [Shards -> Seq(Store)]
    /\ snaps \in [Shards -> [Sids -> [keys : Seq(Keys), from : Nat]]]
    /\ frames \in [Shards -> Seq([sid : Sids, items : Seq(Entry), done : BOOLEAN])]
    /\ consumers \in [Shards -> SUBSET Sids]
    /\ shardQ \in [Shards -> Seq(ShardMsg)]
    /\ chan \in [Shards -> Seq(Chunk)]
    /\ sess \in [Sids -> [state : {"none", "preparation", "full", "stable"},
                          partial : SUBSET Shards, start : [Shards -> Nat]]]
    /\ stableNext \in 0 .. NumShards
    /\ writes \in 0 .. MaxWrites /\ losses \in 0 .. MaxLosses
    /\ cur \in 0 .. MaxSessions /\ up \in BOOLEAN /\ lost \subseteq Sids
    /\ down \in [Shards -> Seq(Item)]
    /\ rpc \in {"idle", "flows", "sync", "load", "startstable", "stable"}
    /\ fpc \in [Shards -> {"off", "hello", "load", "token", "stable"}]
    /\ next \in [Shards -> Nat] /\ cell \in [Shards -> Nat]
    /\ held \in [Shards -> Seq(Item)]
    /\ late \in [Shards -> Seq([item : Item, lsn : Nat])]

Seed == [k \in Keys |-> IF k \in Seeded THEN 1 ELSE 0]
NoSession == [state |-> "none", partial |-> {}, start |-> [s \in Shards |-> 0]]

Init ==
    /\ store = [s \in Shards |-> Seed] /\ rstore = [s \in Shards |-> Empty]
    /\ journalOn = [s \in Shards |-> FALSE]
    /\ log = [s \in Shards |-> <<>>] /\ hist = [s \in Shards |-> <<Seed>>]
    /\ snaps = [s \in Shards |-> [i \in Sids |-> NoSnap]]
    /\ frames = [s \in Shards |-> <<>>]
    /\ consumers = [s \in Shards |-> {}]
    /\ shardQ = [s \in Shards |-> <<>>] /\ chan = [s \in Shards |-> <<>>]
    /\ sess = [i \in Sids |-> NoSession] /\ stableNext = 0
    /\ writes = 0 /\ losses = 0
    /\ cur = 0 /\ up = FALSE /\ lost = {} /\ down = [s \in Shards |-> <<>>]
    /\ rpc = "idle" /\ fpc = [s \in Shards |-> "off"]
    /\ next = [s \in Shards |-> 0] /\ cell = [s \in Shards |-> 0]
    /\ held = [s \in Shards |-> <<>>] /\ late = [s \in Shards |-> <<>>]

----------------------------------------------------------------------------
(* The master's shard threads *)

(* `flow_consumer`, once per subscribed flow.                              *)
Streamed(s, r) ==
    [i \in 1 .. Cardinality(consumers[s]) |->
        [sid |-> Listing(consumers[s])[i], full |-> FALSE, cut |-> 0,
         items |-> <<[t |-> "rec", rec |-> r, lsn |-> Lsn(s)]>>]]

(* A client's write: `run_exec` and `maybe_journal`.  The stable-sync       *)
(* consumers forward the record at once; a snapshot in progress reads it    *)
(* back from the log.                                                      *)
Write(s, k, op) ==
    LET r == [op |-> op, key |-> k, val |-> 10 * (writes + 1)]
    IN  /\ writes < MaxWrites
        /\ writes' = writes + 1
        /\ store' = [store EXCEPT ![s] = After(@, r)]
        /\ \/ /\ journalOn[s]
              /\ log' = [log EXCEPT ![s] = Append(@, r)]
              /\ hist' = [hist EXCEPT ![s] = Append(@, After(store[s], r))]
              /\ chan' = [chan EXCEPT ![s] = @ \o Streamed(s, r)]
           \/ /\ ~journalOn[s]
              /\ hist' = [hist EXCEPT ![s] = <<After(store[s], r)>>]
              /\ UNCHANGED <<log, chan>>
        /\ UNCHANGED <<journalOn, snaps, frames, consumers, shardQ, sess, stableNext, losses,
                       replicaVars, lost>>

Present(s) == {k \in Keys : store[s][k] # 0}

(* Phase 1 of `snapshot_step`: one chunk of what is left to serialize,      *)
(* each value as it is now; a key deleted since is skipped.                *)
Serialize(s, sid, snap) ==
    LET n == IF ChunkLen <= Len(snap.keys) THEN ChunkLen ELSE Len(snap.keys)
        there == Listing({snap.keys[i] : i \in 1 .. n} \cap Present(s))
    IN  /\ snaps' = [snaps EXCEPT ![s][sid] =
                        [snap EXCEPT !.keys = SubSeq(@, n + 1, Len(@))]]
        /\ frames' = [frames EXCEPT ![s] = <<
               [sid |-> sid,
                items |-> [i \in DOMAIN there |->
                              [t |-> "entry", key |-> there[i], val |-> store[s][there[i]]]],
                done |-> Len(snap.keys) < ChunkLen]>> \o @]

HandleMsg(s) ==
    LET m == Head(shardQ[s])
    IN  /\ shardQ[s] # <<>>
        /\ shardQ' = [shardQ EXCEPT ![s] = Tail(@)]
        /\ \/ /\ m.t = "enable"
              /\ journalOn' = [journalOn EXCEPT ![s] = TRUE]
              /\ UNCHANGED <<snaps, frames, consumers>>
           \/ /\ m.t = "snapshot" /\ journalOn[s]
              /\ Serialize(s, m.sid,
                           [keys |-> Listing(Present(s)), from |-> Lsn(s)])
              /\ UNCHANGED <<journalOn, consumers>>
           \/ /\ m.t = "step" /\ snaps[s][m.sid] # NoSnap
              /\ Serialize(s, m.sid, snaps[s][m.sid])
              /\ UNCHANGED <<journalOn, consumers>>
           \/ /\ m.t = "cancel"
              /\ snaps' = [snaps EXCEPT ![s][m.sid] = NoSnap]
              /\ UNCHANGED <<journalOn, frames, consumers>>
           \/ /\ m.t = "stop"
              /\ consumers' = [consumers EXCEPT ![s] = @ \ {m.sid}]
              /\ UNCHANGED <<journalOn, snaps, frames>>
           \/ /\ \/ m.t = "snapshot" /\ ~journalOn[s]
                 \/ m.t = "step" /\ snaps[s][m.sid] = NoSnap
              /\ UNCHANGED <<journalOn, snaps, frames, consumers>>
        /\ UNCHANGED <<store, log, hist, chan, sess, stableNext, writes, losses, replicaVars, lost>>


Blobs(s, f, snap) ==
    IF snap = NoSnap THEN <<>> ELSE Records(s, snap.from)

(* Phases 2 and 3 of `snapshot_step`, when the shard has drained its        *)
(* messages: the records captured meanwhile go behind the entries; the      *)
(* last chunk carries the cut.                                             *)
Ship(s) ==
    LET f == Head(frames[s])
        snap == snaps[s][f.sid]
        last == f.done /\ snap # NoSnap
    IN  /\ frames[s] # <<>>
        /\ shardQ[s] = <<>>
        /\ frames' = [frames EXCEPT ![s] = Tail(@)]
        /\ snaps' = [snaps EXCEPT ![s][f.sid] =
                        IF snap = NoSnap \/ f.done THEN NoSnap ELSE [snap EXCEPT !.from = Lsn(s)]]
        /\ chan' = [chan EXCEPT ![s] =
               IF f.done /\ snap = NoSnap THEN @
               ELSE Append(@, [sid |-> f.sid, full |-> TRUE,
                               items |-> f.items \o Blobs(s, f, snap)
                                   \o (IF last THEN <<[t |-> "tail", cut |-> Lsn(s)]>> ELSE <<>>),
                               cut |-> IF last THEN Lsn(s) ELSE 0])]
        /\ UNCHANGED <<store, journalOn, log, hist, consumers, shardQ, sess, stableNext,
                       writes, losses, replicaVars, lost>>

----------------------------------------------------------------------------
(* The master's IO thread *)

Send(q, m) == [s \in Shards |-> Append(q[s], m)]

(* `dfly_flow`: the shard, asked behind what is queued to it, says whether  *)
(* its ring has the LSN: PARTIAL or FULL.  The journal is enabled.          *)
DflyFlow(s) ==
    LET partial == journalOn[s] /\ InBuffer(s, next[s])
        resumed == [sess[cur] EXCEPT !.partial = @ \cup {s}, !.start[s] = next[s]]
    IN  /\ up /\ stableNext = 0
        /\ fpc[s] = "hello"
        /\ shardQ[s] = <<>>
        /\ sess[cur].state = "preparation"
        /\ shardQ' = [shardQ EXCEPT ![s] = Append(@, [t |-> "enable"])]
        /\ sess' = IF partial THEN [sess EXCEPT ![cur] = resumed] ELSE sess
        /\ fpc' = [fpc EXCEPT ![s] = IF partial THEN "token" ELSE "load"]
        /\ UNCHANGED <<shardVars, chan, stableNext, writes, losses, cur, up, down, rpc,
                       next, held, late, cell, rstore, lost>>

(* `dfly_sync`: a snapshot on every shard.                                 *)
DflySync ==
    /\ up /\ stableNext = 0
    /\ rpc = "sync"
    /\ sess[cur].state = "preparation" /\ sess[cur].partial = {}
    /\ sess' = [sess EXCEPT ![cur].state = "full"]
    /\ shardQ' = Send(shardQ, [t |-> "snapshot", sid |-> cur])
    /\ UNCHANGED <<shardVars, chan, stableNext, writes, losses, replicaVars, lost>>

(* `drain_repl`: chunks go to the flow's socket, and each but the last asks *)
(* the shard for another; those of a session that is gone are cancelled.    *)
DrainRepl(s) ==
    LET c == Head(chan[s])
        gone == sess[c.sid].state = "none"
    IN  /\ stableNext = 0
        /\ chan[s] # <<>>
        /\ chan' = [chan EXCEPT ![s] = Tail(@)]
        /\ shardQ' = [shardQ EXCEPT ![s] =
                         IF gone THEN Append(@, [t |-> "cancel", sid |-> c.sid])
                         ELSE IF c.full /\ c.cut = 0 THEN Append(@, [t |-> "step", sid |-> c.sid])
                         ELSE @]
        /\ sess' = IF ~gone /\ c.cut # 0 THEN [sess EXCEPT ![c.sid].start[s] = c.cut] ELSE sess
        /\ down' = IF ~gone /\ up /\ c.sid = cur THEN [down EXCEPT ![s] = @ \o c.items] ELSE down
        /\ UNCHANGED <<shardVars, stableNext, writes, losses, cur, up, rpc, flowVars, lost>>

(* `dfly_startstable` blocks the IO thread while the shards, one after the  *)
(* other, start streaming.                                                 *)
DflyStartStable ==
    /\ up /\ stableNext = 0
    /\ rpc = "startstable"
    /\ sess[cur].state \in {"preparation", "full"}
    /\ stableNext' = 1
    /\ UNCHANGED <<shardVars, shardQ, chan, sess, writes, losses, replicaVars, lost>>

(* `from_lsn`: the LSN of a partial sync, or the snapshot's cut.            *)
(* Mutant: the catch-up starts one record late.                            *)
FromLsnLate(s) == sess[cur].start[s] + 1

FromLsn(s) == sess[cur].start[s]

(* The shard to start next; 0 after the last.                              *)
(* Mutant: one shard too many.                                             *)
ShardAfterBeyond(s) == IF s <= NumShards THEN s + 1 ELSE 0

ShardAfter(s) == IF s < NumShards THEN s + 1 ELSE 0

(* `start_stable_sync` on the next shard: the ring catches the flow up and  *)
(* the consumer is registered ...                                          *)
StartStableSync(s) ==
    LET from == FromLsn(s)
        caughtUp == [i \in 1 .. Lsn(s) - from |->
                        [sid |-> cur, full |-> FALSE, cut |-> 0, items |-> <<Rec(s, from + i - 1)>>]]
    IN  /\ stableNext = s
        /\ shardQ[s] = <<>>
        /\ journalOn[s]
        /\ \A lsn \in from .. Len(log[s]) : InBuffer(s, lsn)
        /\ chan' = [chan EXCEPT ![s] = @ \o caughtUp]
        /\ consumers' = [consumers EXCEPT ![s] = @ \cup {cur}]
        /\ stableNext' = ShardAfter(s)
        /\ IF s < NumShards
           THEN UNCHANGED <<sess, down, rpc>>
           ELSE /\ sess' = [sess EXCEPT ![cur].state = "stable"]
                /\ down' = IF up THEN [i \in Shards |-> Append(down[i], [t |-> "token"])] ELSE down
                /\ rpc' = IF up THEN "stable" ELSE rpc
        /\ UNCHANGED <<store, journalOn, log, hist, snaps, frames, shardQ, writes, losses, cur, up,
                       flowVars, lost>>

(* The LSN a flow thread stores in its cell after `item`: the cut at the    *)
(* end of the snapshot, then one more per record; 0 if it stores none.      *)
StoredLsn(s, item) ==
    CASE item.t = "tail"                       -> item.cut
      [] item.t = "rec" /\ fpc[s] = "stable" -> next[s] + 1
      [] OTHER                                 -> 0

(* The replica gives the session up: its connections close, and what its    *)
(* flow threads have read they still apply.                                *)
GiveUp ==
    /\ rpc' = "idle"
    /\ up' = FALSE
    /\ lost' = IF up THEN lost \cup {cur} ELSE lost
    /\ down' = [s \in Shards |-> <<>>]
    /\ fpc' = [s \in Shards |-> "off"]
    /\ held' = [s \in Shards |-> <<>>]
    /\ late' = [s \in Shards |-> IF held[s] = <<>> THEN late[s]
                                 ELSE Append(late[s], [item |-> held[s][1],
                                                       lsn |-> StoredLsn(s, held[s][1])])]

(* ... or a record it needs has left the ring: an error, which ends the     *)
(* session.                                                                *)
StartStableFails(s) ==
    /\ stableNext = s
    /\ shardQ[s] = <<>>
    /\ \E lsn \in FromLsn(s) .. Len(log[s]) : ~InBuffer(s, lsn)
    /\ stableNext' = 0
    /\ \/ up /\ GiveUp
       \/ ~up /\ UNCHANGED <<rpc, up, lost, down, fpc, held, late>>
    /\ UNCHANGED <<shardVars, shardQ, chan, sess, writes, losses, cur, next, cell, rstore>>

(* Mutant: the snapshot in progress is not cancelled.                      *)
StopOnly(sid) == Send(shardQ, [t |-> "stop", sid |-> sid])

StopAndCancel(sid) ==
    Send(Send(shardQ, [t |-> "stop", sid |-> sid]), [t |-> "cancel", sid |-> sid])

(* `close_conn` and `stop_replication`, once the loss of a connection is    *)
(* noticed.                                                                *)
StopReplication(sid) ==
    /\ stableNext = 0
    /\ sid \in lost
    /\ lost' = lost \ {sid}
    /\ shardQ' = StopAndCancel(sid)
    /\ sess' = [sess EXCEPT ![sid] = NoSession]
    /\ UNCHANGED <<shardVars, chan, stableNext, writes, losses, replicaVars>>

(* DFLY FLOW of another replica enables the journal.                       *)
OtherFlow ==
    /\ Restarts
    /\ \A s \in Shards : ~journalOn[s] /\ shardQ[s] = <<>>
    /\ shardQ' = Send(shardQ, [t |-> "enable"])
    /\ UNCHANGED <<shardVars, chan, sess, stableNext, writes, losses, replicaVars, lost>>

----------------------------------------------------------------------------
(* The replica's control thread: `connect_and_replicate`, `run` *)

(* The handshake; a flow thread per shard starts and reads its LSN cell.    *)
Connect ==
    /\ rpc = "idle" /\ stableNext = 0
    /\ cur < MaxSessions
    /\ SlowFlows \/ \A s \in Shards : late[s] = <<>>
    /\ cur' = cur + 1
    /\ up' = TRUE
    /\ sess' = [sess EXCEPT ![cur'].state = "preparation"]
    /\ rpc' = "flows"
    /\ fpc' = [s \in Shards |-> "hello"]
    /\ next' = cell
    /\ UNCHANGED <<shardVars, shardQ, chan, stableNext, writes, losses, down, held, late, cell,
                   rstore, lost>>

(* A mixed session cannot go on; the next one is to be full.               *)
(* Mutant: the LSNs are kept.                                              *)
RetrySame == GiveUp /\ UNCHANGED cell

RetryFull == GiveUp /\ cell' = [s \in Shards |-> 0]

(* Every flow has its FULL or PARTIAL.  All full: flush and ask for SYNC;   *)
(* all partial: nothing to load; mixed: forget the LSNs and start again.    *)
FlowsStarted ==
    /\ rpc = "flows"
    /\ \A s \in Shards : fpc[s] # "hello"
    /\ \/ /\ \A s \in Shards : fpc[s] = "load"
          /\ rpc' = "sync"
          /\ rstore' = [s \in Shards |-> Empty]
          /\ UNCHANGED <<up, down, fpc, held, late, cell, lost>>
       \/ /\ \A s \in Shards : fpc[s] = "token"
          /\ rpc' = "load"
          /\ UNCHANGED <<up, down, fpc, held, late, cell, rstore, lost>>
       \/ /\ \E s, i \in Shards : fpc[s] = "load" /\ fpc[i] = "token"
          /\ RetryFull
          /\ UNCHANGED rstore
    /\ UNCHANGED <<masterVars, writes, losses, cur, next>>

(* The +OK of SYNC.                                                        *)
SyncReply ==
    /\ rpc = "sync" /\ up
    /\ sess[cur].state = "full"
    /\ rpc' = "load"
    /\ UNCHANGED <<masterVars, writes, losses, cur, up, down, flowVars, lost>>

(* Every flow has loaded its snapshot.                                     *)
LoadDone ==
    /\ rpc = "load"
    /\ \A s \in Shards : fpc[s] \in {"token", "stable"}
    /\ rpc' = "startstable"
    /\ UNCHANGED <<masterVars, writes, losses, cur, up, down, flowVars, lost>>

(* The control connection fails under a request, or a flow thread reports   *)
(* its failure during stable sync.  (In "flows" and "load" the control      *)
(* thread waits for the flow threads' progress only.)                      *)
SessionFails ==
    /\ ~up
    /\ rpc \in {"sync", "startstable", "stable"}
    /\ GiveUp
    /\ UNCHANGED <<masterVars, writes, losses, cur, next, cell, rstore>>

----------------------------------------------------------------------------
(* The replica's flow threads: `flow_thread`, `load_rdb` *)

Receive(s) ==
    /\ fpc[s] \in {"load", "token", "stable"}
    /\ held[s] = <<>> /\ down[s] # <<>>
    /\ held' = [held EXCEPT ![s] = <<Head(down[s])>>]
    /\ down' = [down EXCEPT ![s] = Tail(@)]
    /\ UNCHANGED <<masterVars, writes, losses, cur, up, rpc, fpc, next, late, cell, rstore, lost>>

(* The shard's part of it: `ReplicaLoadValue`, `ReplicaOp`.                *)
Applied(st, item) ==
    CASE item.t = "entry" -> [st EXCEPT ![item.key] = item.val]
      [] item.t = "rec"   -> After(st, item.rec)
      [] OTHER            -> st

Perform(s) ==
    LET item == held[s][1]
        lsn == StoredLsn(s, item)
    IN  /\ held[s] # <<>>
        /\ held' = [held EXCEPT ![s] = <<>>]
        /\ rstore' = [rstore EXCEPT ![s] = Applied(@, item)]
        /\ next' = [next EXCEPT ![s] = IF lsn = 0 THEN @ ELSE lsn]
        /\ cell' = [cell EXCEPT ![s] = IF lsn = 0 THEN @ ELSE lsn]
        /\ fpc' = [fpc EXCEPT ![s] = CASE item.t = "tail"  -> "token"
                                       [] item.t = "token" -> "stable"
                                       [] OTHER            -> @]
        /\ UNCHANGED <<masterVars, writes, losses, cur, up, down, rpc, late, lost>>

(* A flow thread of an earlier session finishes what it was doing.         *)
PerformLate(s) ==
    LET w == Head(late[s])
    IN  /\ late[s] # <<>>
        /\ late' = [late EXCEPT ![s] = Tail(@)]
        /\ rstore' = [rstore EXCEPT ![s] = Applied(@, w.item)]
        /\ cell' = [cell EXCEPT ![s] = IF w.lsn = 0 THEN @ ELSE w.lsn]
        /\ UNCHANGED <<masterVars, writes, losses, cur, up, down, rpc, fpc, next, held, lost>>

----------------------------------------------------------------------------
(* Failures *)

Lose ==
    /\ up /\ rpc \in LossAt
    /\ losses < MaxLosses
    /\ losses' = losses + 1
    /\ up' = FALSE
    /\ down' = [s \in Shards |-> <<>>]
    /\ lost' = lost \cup {cur}
    /\ UNCHANGED <<masterVars, writes, cur, rpc, flowVars>>

(* Nothing of the master survives its restart.                             *)
MasterRestart ==
    /\ Restarts
    /\ up /\ rpc \in LossAt
    /\ losses < MaxLosses
    /\ losses' = losses + 1
    /\ up' = FALSE
    /\ down' = [s \in Shards |-> <<>>]
    /\ store' = [s \in Shards |-> Empty]
    /\ journalOn' = [s \in Shards |-> FALSE]
    /\ log' = [s \in Shards |-> <<>>] /\ hist' = [s \in Shards |-> <<Empty>>]
    /\ snaps' = [s \in Shards |-> [i \in Sids |-> NoSnap]]
    /\ frames' = [s \in Shards |-> <<>>]
    /\ consumers' = [s \in Shards |-> {}]
    /\ shardQ' = [s \in Shards |-> <<>>] /\ chan' = [s \in Shards |-> <<>>]
    /\ sess' = [i \in Sids |-> NoSession] /\ stableNext' = 0
    /\ lost' = {}
    /\ UNCHANGED <<writes, cur, rpc, flowVars>>

----------------------------------------------------------------------------

ShardStep(s) == HandleMsg(s) \/ Ship(s)
IoStep ==
    \/ \E s \in Shards : DflyFlow(s) \/ DrainRepl(s) \/ StartStableSync(s) \/ StartStableFails(s)
    \/ DflySync \/ DflyStartStable
    \/ \E sid \in Sids : StopReplication(sid)
ControlStep == Connect \/ FlowsStarted \/ SyncReply \/ LoadDone \/ SessionFails
FlowStep(s) == Receive(s) \/ Perform(s)

Next ==
    \/ \E s \in Shards, k \in Keys, op \in Ops : Write(s, k, op)
    \/ \E s \in Shards : ShardStep(s) \/ FlowStep(s) \/ PerformLate(s)
    \/ IoStep \/ ControlStep
    \/ OtherFlow \/ Lose \/ MasterRestart

Spec == Init /\ [][Next]_vars

(* Every thread runs: a shard answers its queue, the IO thread its          *)
(* channels and sockets, a flow thread its socket.  Each action of the IO   *)
(* thread is one source of its poll, and each is served in every round.     *)
(* Nothing makes a client write or a connection fail.                      *)
Fairness ==
    /\ \A s \in Shards :
           /\ WF_vars(HandleMsg(s)) /\ WF_vars(Ship(s))
           /\ WF_vars(DflyFlow(s)) /\ WF_vars(DrainRepl(s))
           /\ WF_vars(StartStableSync(s) \/ StartStableFails(s))
           /\ WF_vars(Receive(s)) /\ WF_vars(Perform(s)) /\ WF_vars(PerformLate(s))
    /\ WF_vars(DflySync) /\ WF_vars(DflyStartStable)
    /\ \A sid \in Sids : WF_vars(StopReplication(sid))
    /\ WF_vars(ControlStep)

FairSpec == Spec /\ Fairness

----------------------------------------------------------------------------
(* Properties *)


(* The records of a stable flow come without gap, overlap or reordering:    *)
(* the replica only counts them (`next_lsn += 1`), so the one that arrives  *)
(* must be the one its count names.                                        *)
Contiguous ==
    \A s \in Shards :
        fpc[s] = "stable" =>
            LET incoming == held[s] \o down[s]
            IN  \A i \in DOMAIN incoming :
                    incoming[i].t = "rec" /\ incoming[i].lsn = next[s] + i - 1

(* Once the master has closed a session and the shards have drained their   *)
(* queues, no snapshot of it is left on a shard and no consumer streams to  *)
(* it (`stop_replication`, `CancelFullSync`, `drain_repl`).                *)
NothingLeaks ==
    \A s \in Shards, sid \in Sids :
        /\ sess[sid].state = "none" /\ sid \notin lost
        /\ shardQ[s] = <<>>
        => snaps[s][sid] = NoSnap /\ sid \notin consumers[s]

(* When clients stop writing and connections stop failing, the replica      *)
(* reaches stable sync and has the master's data for good (`run`).         *)
CatchesUp == <>[](rpc = "stable" /\ rstore = store)
=============================================================================
