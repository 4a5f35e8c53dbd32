---------------------------- MODULE GlobalBarrier ----------------------------
(***************************************************************************)
(* The rendezvous of a replica's flow threads around global commands       *)
(* (server/replica.rs: GlobalBarrier, wait_until, global_apply, the loop   *)
(* of flow_thread and the watch of connect_and_replicate), in one session  *)
(* in stable sync.                                                         *)
(*                                                                         *)
(* A master has one journal for each shard, a replica one flow thread for  *)
(* each journal.  FLUSHDB and FLUSHALL run on every shard of the master    *)
(* under one transaction id, and leave one record in every journal.  The   *)
(* flow threads read their journals independently, and meet at such a      *)
(* record: no flow applies it before every flow has reached it.  A flow    *)
(* that loses its connection ends and reports to the control thread, which *)
(* raises the abort flag; the others see it where they wait or read.       *)
(***************************************************************************)
EXTENDS Integers, Sequences, FiniteSets

CONSTANTS NumShards, MaxRecords, MaxFlushes

ASSUME NumShardsAssumption == NumShards \in Nat \ {0}

Flows == 0 .. NumShards - 1

VARIABLES
  log,        \* log[s]: the journal of the master's shard s
  next_tx_id, \* the coordinator's transaction ids handed out to flushes
  flushing,   \* the shards the flush in progress has yet to run on
  lsn_cells,  \* lsn_cells[f]: the records flow f has applied
  pc,         \* where flow f is: between records, or a point of global_apply
  stopped,    \* the flow threads that have ended
  map,        \* GlobalBarrier.map: the open rendezvous, by transaction id
  reported,   \* a flow has sent its error to the control thread
  stop,       \* the replica was told to stop (REPLICAOF)
  abort       \* the session's abort flag

vars == <<log, next_tx_id, flushing, lsn_cells, pc, stopped, map, reported, stop,
          abort>>

(* A record is a transaction id, of a global command, or Op.               *)
Op == 0

PCs == {"read", "arrived", "gathered", "apply", "applied"}

-----------------------------------------------------------------------------
(* The master.  While a flush runs every shard is locked: writes wait.     *)

Write(s) ==
  /\ flushing = {}
  /\ Len(log[s]) < MaxRecords
  /\ log' = [log EXCEPT ![s] = Append(@, Op)]
  /\ UNCHANGED <<next_tx_id, flushing, lsn_cells, pc, stopped, map, reported, stop,
                 abort>>

(* Mutant: every flush gets the same id.                                   *)
FlushStartReused ==
  /\ flushing = {}
  /\ next_tx_id < MaxFlushes
  /\ next_tx_id' = 1
  /\ flushing' = Flows
  /\ UNCHANGED <<log, lsn_cells, pc, stopped, map, reported, stop, abort>>

FlushStart ==
  /\ flushing = {}
  /\ next_tx_id < MaxFlushes
  /\ next_tx_id' = next_tx_id + 1
  /\ flushing' = Flows
  /\ UNCHANGED <<log, lsn_cells, pc, stopped, map, reported, stop, abort>>

(* The flush runs on the shards one after another and is journaled there.  *)
FlushShard(s) ==
  /\ s \in flushing
  /\ \A r \in flushing : s <= r
  /\ log' = [log EXCEPT ![s] = Append(@, next_tx_id)]
  /\ flushing' = flushing \ {s}
  /\ UNCHANGED <<next_tx_id, lsn_cells, pc, stopped, map, reported, stop, abort>>

-----------------------------------------------------------------------------
(* A flow thread.                                                          *)

Entry(f) == log[f][lsn_cells[f] + 1]

Running(f, at) == f \notin stopped /\ pc[f] = at

HasEntry(f) == lsn_cells[f] < Len(log[f])

(* After every record the flow stores its LSN and looks at the flags.       *)
NextRecord(f) ==
  /\ lsn_cells' = [lsn_cells EXCEPT ![f] = @ + 1]
  /\ pc' = [pc EXCEPT ![f] = "read"]
  /\ stopped' = IF abort \/ stop THEN stopped \union {f} ELSE stopped

ApplyCommand(f) ==
  /\ Running(f, "read")
  /\ HasEntry(f)
  /\ Entry(f) = Op
  /\ NextRecord(f)
  /\ UNCHANGED <<log, next_tx_id, flushing, map, reported, stop, abort>>

(* Mutant: a flow does not count itself.                                   *)
NewGlobalTxOthers == [num |-> NumShards - 1, arrived |-> 0, barrier |-> 0, done |-> 0]

(* Mutant: one party more than there are flows.                            *)
NewGlobalTxMore == [num |-> NumShards + 1, arrived |-> 0, barrier |-> 0, done |-> 0]

NewGlobalTx == [num |-> NumShards, arrived |-> 0, barrier |-> 0, done |-> 0]

OrInsert(t) == IF t \in DOMAIN map THEN map[t] ELSE NewGlobalTx

WithEntry(t, g) == [u \in DOMAIN map \union {t} |-> IF u = t THEN g ELSE map[u]]

Without(t) == [u \in DOMAIN map \ {t} |-> map[u]]

Arrive(f) ==
  /\ Running(f, "read")
  /\ HasEntry(f)
  /\ Entry(f) # Op
  /\ map' = WithEntry(Entry(f), [OrInsert(Entry(f)) EXCEPT !.arrived = @ + 1])
  /\ pc' = [pc EXCEPT ![f] = "arrived"]
  /\ UNCHANGED <<log, next_tx_id, flushing, lsn_cells, stopped, reported, stop, abort>>

(* The predicates flow f waits on.                                         *)
AllArrived(f) == map[Entry(f)].arrived = map[Entry(f)].num

AllGathered(f) == map[Entry(f)].barrier = map[Entry(f)].num

Gather(f) ==
  /\ Running(f, "arrived")
  /\ AllArrived(f)
  /\ map' = WithEntry(Entry(f), [map[Entry(f)] EXCEPT !.barrier = @ + 1])
  /\ pc' = [pc EXCEPT ![f] = "gathered"]
  /\ UNCHANGED <<log, next_tx_id, flushing, lsn_cells, stopped, reported, stop, abort>>

Enter(f) ==
  /\ Running(f, "gathered")
  /\ AllGathered(f)
  /\ pc' = [pc EXCEPT ![f] = "apply"]
  /\ UNCHANGED <<log, next_tx_id, flushing, lsn_cells, stopped, map, reported, stop, abort>>

(* Mutant: the waits do not look at the abort flag.                        *)
LeaveNever(f) == FALSE /\ UNCHANGED vars

(* wait_until looks at the abort flag only when its predicate is false.    *)
Leave(f) ==
  /\ abort
  /\ \/ Running(f, "arrived") /\ ~AllArrived(f)
     \/ Running(f, "gathered") /\ ~AllGathered(f)
  /\ stopped' = stopped \union {f}
  /\ UNCHANGED <<log, next_tx_id, flushing, lsn_cells, pc, map, reported, stop, abort>>

(* apply_ops hands the record to the flow's own shard and waits for it.    *)
Apply(f) ==
  /\ Running(f, "apply")
  /\ pc' = [pc EXCEPT ![f] = "applied"]
  /\ UNCHANGED <<log, next_tx_id, flushing, lsn_cells, stopped, map, reported, stop, abort>>

(* The last flow to finish removes the entry.                              *)
Finished(t, g) == IF g.done = g.num THEN Without(t) ELSE WithEntry(t, g)

Done(f) ==
  /\ Running(f, "applied")
  /\ map' = Finished(Entry(f), [map[Entry(f)] EXCEPT !.done = @ + 1])
  /\ NextRecord(f)
  /\ UNCHANGED <<log, next_tx_id, flushing, reported, stop, abort>>

(* The flow's connection fails under it: it reports and ends.              *)
Fail(f) ==
  /\ Running(f, "read")
  /\ stopped' = stopped \union {f}
  /\ reported' = TRUE
  /\ UNCHANGED <<log, next_tx_id, flushing, lsn_cells, pc, map, stop, abort>>

(* A read that times out looks at the abort flag.                          *)
Halt(f) ==
  /\ Running(f, "read")
  /\ abort
  /\ ~HasEntry(f)
  /\ stopped' = stopped \union {f}
  /\ UNCHANGED <<log, next_tx_id, flushing, lsn_cells, pc, map, reported, stop, abort>>

(* REPLICAOF tells the replica thread to stop.                             *)
Stop ==
  /\ ~stop
  /\ stop' = TRUE
  /\ UNCHANGED <<log, next_tx_id, flushing, lsn_cells, pc, stopped, map, reported,
                 abort>>

(* The control thread receives a flow's error, or is told to stop.         *)
Abort ==
  /\ reported \/ stop
  /\ ~abort
  /\ abort' = TRUE
  /\ UNCHANGED <<log, next_tx_id, flushing, lsn_cells, pc, stopped, map, reported,
                 stop>>

-----------------------------------------------------------------------------
Init ==
  /\ log = [s \in Flows |-> <<>>]
  /\ next_tx_id = 0
  /\ flushing = {}
  /\ lsn_cells = [f \in Flows |-> 0]
  /\ pc = [f \in Flows |-> "read"]
  /\ stopped = {}
  /\ map = [t \in {} |-> NewGlobalTx]
  /\ reported = FALSE
  /\ stop = FALSE
  /\ abort = FALSE

FlowStep(f) ==
  \/ ApplyCommand(f)
  \/ Arrive(f)
  \/ Gather(f)
  \/ Enter(f)
  \/ Leave(f)
  \/ Apply(f)
  \/ Done(f)
  \/ Halt(f)

Next ==
  \/ FlushStart
  \/ Stop
  \/ Abort
  \/ \E f \in Flows : Write(f) \/ FlushShard(f) \/ Fail(f) \/ FlowStep(f)

Spec == Init /\ [][Next]_vars

(* Threads are scheduled by the operating system; a flush, once started,   *)
(* reaches every shard.  Nothing forces writes, flushes, failures or stops. *)
Fairness ==
  /\ WF_vars(Abort)
  /\ \A f \in Flows : WF_vars(FlowStep(f)) /\ WF_vars(FlushShard(f))

FairSpec == Spec /\ Fairness

-----------------------------------------------------------------------------
(* The types of the state; in particular a rendezvous every flow has       *)
(* finished is no longer in the map (global_apply removes it).             *)
TypeOK ==
  /\ log \in [Flows -> Seq(Nat)]
  /\ next_tx_id \in Nat
  /\ flushing \subseteq Flows
  /\ lsn_cells \in [Flows -> Nat]
  /\ \A f \in Flows : lsn_cells[f] <= Len(log[f])
  /\ pc \in [Flows -> PCs]
  /\ stopped \subseteq Flows
  /\ DOMAIN map \subseteq 1 .. next_tx_id
  /\ \A t \in DOMAIN map :
       map[t] \in [num : Nat, arrived : 0 .. NumShards,
                   barrier : 0 .. NumShards, done : 0 .. NumShards - 1]
  /\ reported \in BOOLEAN
  /\ stop \in BOOLEAN
  /\ abort \in BOOLEAN

(* Flow f is at the record of transaction t, or has it behind it.          *)
In(f, t) == pc[f] # "read" /\ Entry(f) = t

Passed(f, t) == \E i \in 1 .. lsn_cells[f] : log[f][i] = t

(* A flow that applies a global command (global_apply, past both waits)    *)
(* finds every other flow at that command or past it: all that the master  *)
(* wrote before the flush has been applied on every shard, even while      *)
(* flows fail and the session is torn down.                                *)
SamePoint ==
  \A f \in Flows : pc[f] \in {"apply", "applied"} =>
    \A g \in Flows : In(g, Entry(f)) \/ Passed(g, Entry(f))

(* A flow inside global_apply finds its transaction in the map: indexing   *)
(* the map in wait_until and get_mut(..).unwrap() never panic, whichever   *)
(* flow finishes first and removes the entry.                              *)
EntryPresent ==
  \A f \in Flows : pc[f] # "read" => Entry(f) \in DOMAIN map

(* What the counters of a rendezvous count.                                *)
ArrivedAt(t) == {f \in Flows : In(f, t) \/ Passed(f, t)}

GatheredAt(t) == {f \in Flows : (In(f, t) /\ pc[f] # "arrived") \/ Passed(f, t)}

DoneWith(t) == {f \in Flows : Passed(f, t)}

(* A transaction id is in a journal once, and only up to the last handed   *)
(* out; a shard the flush has yet to reach does not hold its id.           *)
IdsOnce ==
  \A f \in Flows :
    /\ \A i, j \in 1 .. Len(log[f]) :
         log[f][i] # Op /\ log[f][i] = log[f][j] => i = j
    /\ \A i \in 1 .. Len(log[f]) :
         log[f][i] <= next_tx_id /\ (f \in flushing => log[f][i] < next_tx_id)

(* A flow inside global_apply is at a global record.                       *)
AtGlobal ==
  \A f \in Flows : pc[f] # "read" => HasEntry(f) /\ Entry(f) # Op

(* The counters of an open rendezvous count the flows that arrived, that   *)
(* gathered and that are done, and some flow is not done.                  *)
CountsExact ==
  \A t \in DOMAIN map :
    /\ map[t].arrived = Cardinality(ArrivedAt(t))
    /\ map[t].barrier = Cardinality(GatheredAt(t))
    /\ map[t].done = Cardinality(DoneWith(t))
    /\ DoneWith(t) # Flows

(* A transaction without a rendezvous is one no flow has met, or one every *)
(* flow is done with.                                                      *)
ClosedOrUnmet ==
  \A t \in (1 .. next_tx_id) \ DOMAIN map :
    ArrivedAt(t) = {} \/ DoneWith(t) = Flows

(* Past the second wait, every flow is past the first or done.             *)
AppliedGathered ==
  \A f \in Flows : pc[f] \in {"apply", "applied"} => GatheredAt(Entry(f)) = Flows

(* The inductive invariant of the rendezvous (global_apply): the counters  *)
(* count what they should and a transaction id is used by one flush only.  *)
RendezvousInv ==
  /\ IdsOnce
  /\ AtGlobal
  /\ CountsExact
  /\ ClosedOrUnmet
  /\ EntryPresent
  /\ AppliedGathered

(* "so a failed peer flow cannot deadlock the session" (wait_until): when  *)
(* one flow fails, or the replica is told to stop, every flow thread ends. *)
SessionEnds == reported \/ stop ~> (stopped = Flows)

(* "the shards cannot diverge on the position of a FLUSH" (is_global_cmd): *)
(* once a session's threads have ended, a flush is applied by all flows or *)
(* by none.  It does not hold when the replica is told to stop.            *)
FlushWhole ==
  stopped = Flows => \A t \in 1 .. next_tx_id : DoneWith(t) \in {{}, Flows}

CaughtUp == \A f \in Flows : lsn_cells[f] = Len(log[f]) /\ pc[f] = "read"

(* The rendezvous does not hold flows up for ever: every flow of a session *)
(* that goes on applies its whole journal, flushes included.               *)
FlowsCatchUp == []<>(CaughtUp \/ reported \/ stop)
==============================================================================
