------------------------------ MODULE TxnProofs -----------------------------
(***************************************************************************)
(* Theorems about the transaction layer, for every number of shards, every *)
(* placement of the keys and every set of requests: the lock invariant,    *)
(* the order of service on a shard, what follows from them, and that the   *)
(* layer implements SerialStore: each of its steps serves one request at   *)
(* one instant, or changes nothing that a client can see.                  *)
(***************************************************************************)
EXTENDS TxnOrderProofs

----------------------------------------------------------------------------
(* What an executor reads and writes *)

(* It changes only keys of its request that it was given.                  *)
LEMMA AfterOutside ==
    ASSUME NEW r \in Reqs, NEW st \in [Keys -> Value], NEW owned, NEW k \in Keys,
           k \notin KeysOf(r) \cap owned
    PROVE  After(r, st, owned)[k] = st[k]
<1>1. /\ OpOf[r].src \in Keys /\ OpOf[r].dst \in Keys
      /\ Kind(r) = "rename" => KeysOf(r) = {OpOf[r].src, OpOf[r].dst}
      /\ Kind(r) = "flush" => KeysOf(r) = Keys
  BY Zenon, RequestTypes, OpAssumption DEF Kind, KeysOf
<1>2. CASE Kind(r) = "write"
  BY <1>2 DEF After
<1>3. CASE Kind(r) = "flush"
  BY <1>1, <1>3 DEF After
<1>4. CASE Kind(r) = "rename"
  BY <1>1, <1>4 DEF After, AfterRename
<1>5. CASE Kind(r) \notin {"write", "flush", "rename"}
  BY <1>5 DEF After
<1>. QED
  BY Zenon, <1>2, <1>3, <1>4, <1>5

(* What it leaves on a key depends on that key alone, and for a RENAME on  *)
(* the source.                                                             *)
SameAfter(r, k, st1, o1, st2, o2) == After(r, st1, o1)[k] = After(r, st2, o2)[k]

LEMMA AfterLocal ==
    ASSUME NEW r \in Reqs, NEW k \in Keys, NEW o1, NEW o2,
           NEW st1 \in [Keys -> Value], NEW st2 \in [Keys -> Value],
           st1[k] = st2[k], k \in KeysOf(r) => (k \in o1 <=> k \in o2),
           Kind(r) = "rename" => /\ KeysOf(r) \subseteq o1 \cap o2
                                 /\ st1[OpOf[r].src] = st2[OpOf[r].src]
    PROVE  SameAfter(r, k, st1, o1, st2, o2)
<1>1. /\ OpOf[r].src \in Keys /\ OpOf[r].dst \in Keys
      /\ Kind(r) = "rename" => KeysOf(r) = {OpOf[r].src, OpOf[r].dst}
      /\ Kind(r) = "flush" => KeysOf(r) = Keys
  BY Zenon, RequestTypes, OpAssumption DEF Kind, KeysOf
<1>2. CASE Kind(r) = "write"
  BY <1>2 DEF SameAfter, After
<1>3. CASE Kind(r) = "flush"
  BY <1>1, <1>3 DEF SameAfter, After
<1>4. CASE Kind(r) = "rename"
  BY <1>1, <1>4 DEF SameAfter, After, AfterRename
<1>5. CASE Kind(r) \notin {"write", "flush", "rename"}
  BY <1>5 DEF SameAfter, After
<1>. QED
  BY Zenon, <1>2, <1>3, <1>4, <1>5

LEMMA OneShard ==
    ASSUME NEW r \in Reqs, NEW s \in ShardsOf(r), \A t, u \in ShardsOf(r) : t = u,
           Kind(r) # "flush"
    PROVE  KeysOf(r) \subseteq OwnedBy(s) /\ OwnedKeys(r, s) = KeysOf(r)
<1>1. KeysOf(r) \subseteq Keys
  BY Zenon, RequestTypes
<1>. QED
  BY <1>1 DEF ShardsOf, OwnedBy, OwnedKeys

LEMMA ShardOfKey ==
    ASSUME NEW r \in Reqs, NEW k \in KeysOf(r)
    PROVE  k \in Keys /\ ShardOf[k] \in ShardsOf(r) /\ ShardOf[k] \in Shards
  BY Zenon, RequestTypes, ShardAssumption DEF ShardsOf

(* What a request reports of shard s.                                      *)
LEMMA ReportFacts ==
    ASSUME TypeOK, NEW r \in Reqs, NEW s \in Shards, Report(r, s)
    PROVE  /\ ran'[r] = ran[r] \cup OwnedKeys(r, s)
           /\ \A k \in Keys : seen'[r][k] = IF k \in OwnedKeys(r, s) THEN db[k] ELSE seen[r][k]
           /\ \A q \in Reqs : q # r => ran'[q] = ran[q] /\ seen'[q] = seen[q]
  BY DEF TypeOK, Report

----------------------------------------------------------------------------
(* Steps of SerialStore *)

(* SerialStore has operators of its own, equal to those of Txn.            *)
LEMMA SameOps ==
    ASSUME NEW r \in Reqs, NEW st, NEW owned
    PROVE  /\ Serial!KeysOf(r) = KeysOf(r)
           /\ Serial!After(r, st, owned) = After(r, st, owned)
  BY DEF Serial!KeysOf, KeysOf, Serial!After, After, Serial!Kind, Kind, Serial!AfterRename, AfterRename

(* The keys on which SerialStore does not show the unfinished transaction. *)
Hidden(k) == cur # NoReq /\ ~Complete(cur) /\ k \in ran[cur]

LEMMA SerialDbAt ==
    ASSUME NEW k \in Keys
    PROVE  SerialDb[k] = IF Hidden(k) THEN seen[cur][k] ELSE db[k]
  BY DEF SerialDb, Hidden

LEMMA SerialDbType ==
    ASSUME TypeOK
    PROVE  SerialDb \in [Keys -> Value]
  BY DEF SerialDb, TypeOK

(* It holds the shards of those keys.                                      *)
LEMMA HiddenHeld ==
    ASSUME TypeOK, LockInv, RunInv, NEW k \in Keys, Hidden(k)
    PROVE  /\ cur \in Reqs /\ phase = "exec" /\ k \in KeysOf(cur)
           /\ ShardOf[k] \notin left \cup txAwait /\ activeTx[ShardOf[k]] # 0
<1>1. cur \in Reqs /\ phase = "exec"
  BY DEF Hidden, TypeOK, Phases, LockInv, CoordInv, RunInv, ProgressInv, Complete
<1>2. k \in KeysOf(cur) /\ ShardOf[k] \notin left \cup txAwait
  BY <1>1 DEF Hidden, RunInv, ProgressInv
<1>3. ShardOf[k] \in Shards /\ Held(ShardOf[k])
  BY <1>1, <1>2, ShardOfKey DEF Held
<1>. QED
  BY Zenon, <1>1, <1>2, <1>3 DEF LockInv, ShardInv, HolderInv

(* A step that runs nothing changes nothing in SerialStore.                *)
LEMMA QuietSerial ==
    ASSUME TypeOK, TypeOK', UNCHANGED dataVars,
           \/ UNCHANGED cur
           \/ cur = NoReq /\ ran[cur'] = {}
           \/ cur' = NoReq /\ Complete(cur)
    PROVE  UNCHANGED Serial!vars
<1>1. UNCHANGED <<db, ran, seen>>
  BY DEF dataVars
<1>2. \A r : Complete(r)' <=> Complete(r)
  BY <1>1 DEF Complete
<1>3. SerialServed' = SerialServed /\ SerialResult' = SerialResult
  BY <1>1, <1>2 DEF SerialServed, SerialResult
<1>4. SerialDb' = SerialDb
  BY <1>1 DEF SerialDb, Complete
<1>. QED
  BY <1>3, <1>4 DEF Serial!vars

(* A request takes effect when it has run on the last of its keys.         *)
LEMMA ServeSerial ==
    ASSUME TypeOK, TypeOK', NEW r \in Reqs, ~Complete(r), Complete(r)',
           \A q \in Reqs : q # r => ran'[q] = ran[q] /\ seen'[q] = seen[q],
           \A k \in Keys : seen'[r][k] = IF k \in KeysOf(r) THEN SerialDb[k] ELSE {},
           \A k \in Keys : SerialDb'[k] = After(r, SerialDb, Keys)[k]
    PROVE  Serial!Next
<1>1. \A q \in Reqs : q # r => (Complete(q)' <=> Complete(q))
  BY DEF Complete
<1>2. r \notin SerialServed /\ SerialServed' = SerialServed \cup {r}
  BY <1>1 DEF SerialServed
<1>3. SerialResult' =
        [SerialResult EXCEPT ![r] = [k \in Keys |-> IF k \in KeysOf(r) THEN SerialDb[k] ELSE {}]]
  BY Zenon, <1>1 DEF SerialResult
<1>4. SerialDb' = After(r, SerialDb, Keys)
  <2>1. SerialDb \in [Keys -> Value] /\ SerialDb' = [k \in Keys |-> SerialDb'[k]]
    BY SerialDbType DEF SerialDb
  <2>2. After(r, SerialDb, Keys) \in [Keys -> Value]
    BY Zenon, <2>1, AfterType
  <2>. QED
    BY <2>1, <2>2
<1>. QED
  BY Zenon, <1>2, <1>3, <1>4, SameOps DEF Serial!Next, Serial!Serve

----------------------------------------------------------------------------
(* A request that a shard runs on its own *)

(* A request runs on free shard s, which has all its keys.                 *)
LEMMA DirectRun ==
    ASSUME TypeOK, TypeOK', LockInv, SubmitInv, RunInv, NEW r \in Reqs, NEW s \in Shards,
           IsSingle(r) \/ Kind(r) = "watch", OwnedKeys(r, s) = KeysOf(r), ran[r] = {},
           activeTx[s] = 0, db' = After(r, db, OwnedBy(s)), Report(r, s),
           UNCHANGED <<coordVars, txAwait, watching>>,
           \A t \in Shards, q \in Reqs : WaitsOn(q, t)' => WaitsOn(q, t) /\ q # r,
           watchLeft' \cup watchAwait' # {} => watching # r /\ UNCHANGED <<watchLeft, watchAwait>>
    PROVE  RunInv' /\ Serial!Next
<1>1. UNCHANGED <<coordQueue, phase, cur, left, stores, txAwait>>
  BY Zenon DEF coordVars
<1>2. r # cur /\ \A i \in DOMAIN coordQueue : coordQueue[i] # r /\ coordQueue[i] \in Reqs
  <2>1. \A i \in DOMAIN coordQueue : coordQueue[i] # r
    BY Zenon DEF SubmitInv, ViaCoord
  <2>2. r # cur
    BY Zenon, NoReqAssumption DEF SubmitInv, ViaCoord
  <2>. QED
    BY <2>1, <2>2 DEF TypeOK
<1>3. /\ ran'[r] = KeysOf(r)
      /\ \A k \in Keys : seen'[r][k] = IF k \in KeysOf(r) THEN db[k] ELSE seen[r][k]
      /\ \A q \in Reqs : q # r => ran'[q] = ran[q] /\ seen'[q] = seen[q]
  <2>1. /\ ran'[r] = ran[r] \cup OwnedKeys(r, s)
        /\ \A k \in Keys : seen'[r][k] = IF k \in OwnedKeys(r, s) THEN db[k] ELSE seen[r][k]
        /\ \A q \in Reqs : q # r => ran'[q] = ran[q] /\ seen'[q] = seen[q]
    BY Zenon, ReportFacts
  <2>. QED
    BY <2>1
<1>4. KeysOf(r) # {} /\ KeysOf(r) \subseteq Keys /\ KeysOf(r) \subseteq OwnedBy(s)
  BY Zenon, RequestTypes, OpAssumption DEF KeysOf, OwnedKeys
<1>5. cur # NoReq => /\ cur \in Reqs /\ ran'[cur] = ran[cur] /\ seen'[cur] = seen[cur]
                     /\ Complete(cur)' <=> Complete(cur)
  BY Zenon, <1>1, <1>2, <1>3 DEF TypeOK, Complete
<1>6. ASSUME NEW k \in Keys PROVE Hidden(k)' <=> Hidden(k)
  BY <1>1, <1>5 DEF Hidden
<1>7. ASSUME NEW k \in Keys, Hidden(k)
      PROVE  /\ k \notin OwnedBy(s) /\ k \notin KeysOf(r) /\ db'[k] = db[k]
             /\ seen'[cur][k] = seen[cur][k]
  <2>1. k \notin OwnedBy(s)
    BY Zenon, <1>7, HiddenHeld DEF OwnedBy
  <2>2. db \in [Keys -> Value] /\ k \notin KeysOf(r) \cap OwnedBy(s)
    BY Zenon, <2>1 DEF TypeOK
  <2>3. db'[k] = db[k]
    BY <2>2, AfterOutside
  <2>. QED
    BY Zenon, <1>4, <1>5, <1>7, <2>1, <2>3 DEF Hidden
<1>8. WaitingInv'
  <2>1. WaitingInv
    BY DEF RunInv
  <2>2. \A i \in DOMAIN coordQueue : ran'[coordQueue[i]] = {} /\ coordQueue[i] # cur
    BY Zenon, <1>2, <1>3, <2>1 DEF WaitingInv
  <2>3. \A t \in Shards, q \in Reqs : WaitsOn(q, t)' => ran'[q] = {}
    BY Zenon, <1>3, <2>1 DEF WaitingInv
  <2>4. watchLeft' \cup watchAwait' # {} =>
          ran'[watching] = {} /\ watchLeft' \cup watchAwait' \subseteq ShardsOf(watching)
    <3>1. watchLeft' \cup watchAwait' # {} => watching \in Reqs
      BY Zenon DEF SubmitInv, TypeOK
    <3>. QED
      BY Zenon, <1>3, <2>1, <3>1 DEF WaitingInv
  <2>. QED
    BY Zenon, <1>1, <2>1, <2>2, <2>3, <2>4 DEF WaitingInv
<1>9. ProgressInv'
  <2>1. phase # "idle" => cur # NoReq
    BY Zenon DEF LockInv, CoordInv
  <2>. QED
    BY Zenon, <1>1, <1>5, <2>1 DEF RunInv, ProgressInv
<1>10. ResultInv'
  <2>1. ASSUME NEW q \in Reqs, NEW k \in Keys \ ran'[q] PROVE seen'[q][k] = {}
    BY <1>3, <2>1 DEF RunInv, ResultInv
  <2>2. ASSUME cur # NoReq, ~Complete(cur), NEW k \in ran[cur]
        PROVE  db'[k] = After(cur, seen'[cur], Keys)[k]
    <3>1. k \in Keys /\ Hidden(k)
      BY <1>5, <2>2 DEF TypeOK, Hidden
    <3>. QED
      BY Zenon, <1>5, <1>7, <2>2, <3>1 DEF RunInv, ResultInv
  <2>. QED
    BY Zenon, <1>1, <1>5, <2>1, <2>2 DEF ResultInv
<1>11. Serial!Next
  <2>1. ~Complete(r) /\ Complete(r)'
    BY Zenon, <1>3, <1>4 DEF Complete
  <2>2. \A k \in KeysOf(r) : k \in Keys /\ ~Hidden(k) /\ SerialDb[k] = db[k]
    BY <1>4, <1>7, SerialDbAt
  <2>3. \A k \in Keys : seen'[r][k] = IF k \in KeysOf(r) THEN SerialDb[k] ELSE {}
    BY Zenon, <1>3, <2>2 DEF RunInv, ResultInv
  <2>4. ASSUME NEW k \in Keys PROVE SerialDb'[k] = After(r, SerialDb, Keys)[k]
    <3>0. SerialDb \in [Keys -> Value] /\ db \in [Keys -> Value]
      BY Zenon, SerialDbType DEF TypeOK
    <3>1. SerialDb'[k] = IF Hidden(k) THEN seen'[cur][k] ELSE db'[k]
      BY Zenon, <1>1, <1>6 DEF SerialDb, Hidden
    <3>2. CASE Hidden(k)
      BY <1>7, <3>0, <3>1, <3>2, SerialDbAt, AfterOutside
    <3>3. CASE ~Hidden(k)
      <4>1. SerialDb[k] = db[k]
        BY Zenon, <3>3, SerialDbAt
      <4>2. Kind(r) = "rename" => OpOf[r].src \in KeysOf(r)
        BY Zenon, OpAssumption DEF Kind, KeysOf
      <4>3. Kind(r) = "rename" => /\ KeysOf(r) \subseteq OwnedBy(s) \cap Keys
                                  /\ db[OpOf[r].src] = SerialDb[OpOf[r].src]
        BY Zenon, <1>4, <2>2, <4>2
      <4>4. k \in KeysOf(r) => (k \in OwnedBy(s) <=> k \in Keys)
        BY <1>4
      <4>5. SameAfter(r, k, db, OwnedBy(s), SerialDb, Keys)
        BY Zenon, <3>0, <4>1, <4>3, <4>4, AfterLocal
      <4>. QED
        BY Zenon, <3>1, <3>3, <4>5 DEF SameAfter
    <3>. QED
      BY Zenon, <3>2, <3>3
  <2>. QED
    BY Zenon, <1>3, <2>1, <2>3, <2>4, ServeSerial
<1>. QED
  BY Zenon, <1>8, <1>9, <1>10, <1>11 DEF RunInv

(* A step that leaves the singles of shard t where they are adds none.     *)
LEMMA WaitsBack ==
    ASSUME NEW t \in Shards, NEW d \in {0, 1}, MailFrom(t, d), pendingSingles'[t] = pendingSingles[t]
    PROVE  \A q : WaitsOn(q, t)' => WaitsOn(q, t)
  BY Zenon DEF MailFrom, WaitsOn, IsMail, DirectTypes

(* A single waits at its own shard only, behind the ones sent before it.   *)
LEMMA SingleElsewhere ==
    ASSUME TypeOK, FifoInv, NEW s \in Shards, NEW t \in Shards, t # s, NEW r \in Reqs, SingleOn(r, s)
    PROVE  ~WaitsOn(r, t)
<1>1. ASSUME WaitsOn(r, t) PROVE SingleOn(r, t)
  BY Zenon, <1>1 DEF WaitsOn, FifoInv, QueueInv, SinglesInv
<1>. QED
  BY Zenon, <1>1 DEF SingleOn, IsSingle

LEMMA HandleSingleRun ==
    ASSUME TypeOK, TypeOK', LockInv, FifoInv, RunInv, NEW s \in Shards, HandleSingle(s), activeTx[s] = 0
    PROVE  RunInv' /\ Serial!Next
<1> DEFINE r == mailbox[s][1].req
<1>1. /\ \A t \in Shards : t # s => mailbox'[t] = mailbox[t]
      /\ MailFrom(s, 1)
      /\ 1 \in DOMAIN mailbox[s] /\ Head(mailbox[s]) = mailbox[s][1] /\ mailbox[s][1].type = "Single"
      /\ \A i \in DOMAIN mailbox[s] : i \in Nat /\ (i = 1 \/ i > 1)
  BY Zenon, TakenMail DEF HandleSingle
<1>2. /\ UNCHANGED <<coordVars, txAwait, watching, watchLeft, watchAwait, pendingSingles>>
      /\ s \notin draining /\ RunExec(r, s)
  BY Zenon, <1>1 DEF HandleSingle, Receive, ioVars
<1>3. SubmitInv /\ SinglesInv(s) /\ pendingSingles[s] = <<>>
  BY <1>2 DEF FifoInv, QueueInv, LockInv, ShardInv, ParkedInv
<1>4. SingleOn(r, s) /\ r \in Reqs /\ WaitsOn(r, s)
  <2>1. SingleOn(r, s)
    BY Zenon, <1>1, <1>3 DEF SinglesInv, IsMail
  <2>2. Dispatched \subseteq Reqs
    BY DEF Dispatched, TypeOK
  <2>. QED
    BY Zenon, <1>1, <2>1, <2>2 DEF SingleOn, WaitsOn, IsMail
<1>5. ran[r] = {}
  BY Zenon, <1>4 DEF RunInv, WaitingInv
<1>6. OwnedKeys(r, s) = KeysOf(r) /\ watching # r
  <2>1. OwnedKeys(r, s) = KeysOf(r)
    BY Zenon, <1>4, OneShard DEF SingleOn, IsSingle
  <2>2. watching # r
    BY Zenon, <1>3, <1>4, NoReqAssumption DEF SubmitInv, SingleOn, IsSingle
  <2>. QED
    BY Zenon, <2>1, <2>2
<1>7. ASSUME NEW i \in DOMAIN mailbox[s], i # 1, mailbox[s][i].type = "Single"
      PROVE  Before(r, mailbox[s][i].req)
  BY Zenon, <1>1, <1>3, <1>7 DEF SinglesInv, IsMail
<1> HIDE DEF r
<1>8. ASSUME NEW q \in Reqs, WaitsOn(q, s)' PROVE WaitsOn(q, s) /\ q # r
  <2>1. PICK j \in DOMAIN mailbox'[s] : mailbox'[s][j].type = "Single" /\ mailbox'[s][j].req = q
    BY <1>2, <1>3, <1>8 DEF WaitsOn, IsMail
  <2>2. j + 1 \in DOMAIN mailbox[s] /\ mailbox'[s][j] = mailbox[s][j + 1]
    BY Zenon, <1>1, <2>1 DEF MailFrom, DirectTypes
  <2>3. j \in Nat /\ j # 0
    <3>1. mailbox'[s] \in Seq(ShardMsg)
      BY DEF TypeOK
    <3>. QED
      BY <3>1
  <2>4. j + 1 # 1
    BY <2>3
  <2>5. Before(r, q)
    BY Zenon, <1>7, <2>1, <2>2, <2>4
  <2>. QED
    BY Zenon, <1>3, <2>1, <2>2, <2>5, BeforeFacts DEF WaitsOn, IsMail
<1>9. ASSUME NEW t \in Shards, NEW q \in Reqs, WaitsOn(q, t)' PROVE WaitsOn(q, t) /\ q # r
  <2>1. CASE t # s
    <3>1. WaitsOn(q, t)
      BY Zenon, <1>1, <1>2, <1>9, <2>1 DEF WaitsOn, IsMail
    <3>. QED
      BY Zenon, <1>4, <2>1, <3>1, SingleElsewhere
  <2>. QED
    BY Zenon, <1>8, <1>9, <2>1
<1>. QED
  BY Zenon, <1>2, <1>3, <1>4, <1>5, <1>6, <1>9, DirectRun DEF RunExec, SingleOn

LEMMA DrainSingleRun ==
    ASSUME TypeOK, TypeOK', LockInv, FifoInv, RunInv, NEW s \in Shards, DrainSingle(s)
    PROVE  RunInv' /\ Serial!Next
<1> DEFINE p == pendingSingles[s]
           r == pendingSingles[s][1]
<1>1. /\ UNCHANGED <<coordVars, txAwait, watching, watchLeft, watchAwait, mailbox>> /\ s \in draining
      /\ p \in Seq(Reqs) /\ p # <<>> /\ Len(p) \in Nat /\ pendingSingles'[s] = Tail(p)
      /\ \A t \in Shards : t # s => pendingSingles'[t] = pendingSingles[t]
      /\ RunExec(Head(p), s)
  BY DEF DrainSingle, TypeOK, ioVars
<1>2. /\ DOMAIN p = 1 .. Len(p) /\ 1 \in DOMAIN p /\ r = Head(p) /\ r \in Reqs
      /\ DOMAIN pendingSingles'[s] = 1 .. Len(p) - 1
      /\ \A i \in 1 .. Len(p) - 1 : pendingSingles'[s][i] = p[i + 1] /\ i + 1 \in DOMAIN p
  BY Zenon, <1>1, TailFacts
<1>3. SubmitInv /\ SinglesInv(s) /\ activeTx[s] = 0
  BY <1>1 DEF FifoInv, QueueInv, LockInv, ShardInv, HolderInv
<1>4. SingleOn(r, s) /\ WaitsOn(r, s)
  BY Zenon, <1>2, <1>3 DEF SinglesInv, WaitsOn
<1>5. ran[r] = {}
  BY Zenon, <1>2, <1>4 DEF RunInv, WaitingInv
<1>6. OwnedKeys(r, s) = KeysOf(r) /\ watching # r
  <2>1. OwnedKeys(r, s) = KeysOf(r)
    BY Zenon, <1>2, <1>4, OneShard DEF SingleOn, IsSingle
  <2>2. watching # r
    BY Zenon, <1>2, <1>3, <1>4, NoReqAssumption DEF SubmitInv, SingleOn, IsSingle
  <2>. QED
    BY <2>1, <2>2
<1>7. \A j \in DOMAIN mailbox[s] : mailbox[s][j].type = "Single" => Before(r, mailbox[s][j].req)
  BY Zenon, <1>2, <1>3 DEF SinglesInv, IsMail
<1>8. ASSUME NEW i \in DOMAIN pendingSingles'[s]
      PROVE  \E j \in DOMAIN p : p[j] = pendingSingles'[s][i] /\ Before(r, p[j])
  <2>1. i \in 1 .. Len(p) - 1 /\ i + 1 \in DOMAIN p /\ 1 < i + 1 /\ p[i + 1] = pendingSingles'[s][i]
    BY <1>1, <1>2
  <2>. QED
    BY Zenon, <1>2, <1>3, <2>1 DEF SinglesInv
<1> HIDE DEF r
<1>9. ASSUME NEW q \in Reqs, WaitsOn(q, s)' PROVE WaitsOn(q, s) /\ q # r
  <2>1. WaitsOn(q, s) /\ Before(r, q)
    BY Zenon, <1>1, <1>7, <1>8, <1>9 DEF WaitsOn, IsMail
  <2>. QED
    BY Zenon, <1>3, <2>1, BeforeFacts
<1>10. ASSUME NEW t \in Shards, NEW q \in Reqs, WaitsOn(q, t)' PROVE WaitsOn(q, t) /\ q # r
  <2>1. CASE t # s
    <3>1. WaitsOn(q, t)
      BY Zenon, <1>1, <1>10, <2>1 DEF WaitsOn, IsMail
    <3>. QED
      BY Zenon, <1>2, <1>4, <2>1, <3>1, SingleElsewhere
  <2>. QED
    BY Zenon, <1>9, <1>10, <2>1
<1>. QED
  BY Zenon, <1>1, <1>2, <1>3, <1>4, <1>5, <1>6, <1>10, DirectRun DEF RunExec, SingleOn

(* A WATCH of one shard's keys takes its snapshot at one instant.          *)
LEMMA SnapshotRun ==
    ASSUME LocalKeys, TypeOK, TypeOK', LockInv, FifoInv, RunInv, NEW s \in Shards, activeTx[s] = 0,
           s \in watchAwait, RunWatchQuery(watching, s),
           UNCHANGED <<coordVars, txAwait, watching, watchLeft, pendingSingles>>,
           \A t \in Shards : \E d \in {0, 1} : MailFrom(t, d)
    PROVE  RunInv' /\ Serial!Next
<1>1. SubmitInv /\ watching # NoReq /\ watching \in Reqs /\ Kind(watching) = "watch"
  BY Zenon DEF FifoInv, SubmitInv, TypeOK
<1>2. /\ ran[watching] = {} /\ watchLeft \cup watchAwait \subseteq ShardsOf(watching)
      /\ \A t, u \in ShardsOf(watching) : t = u
  BY Zenon, <1>1 DEF RunInv, WaitingInv, LocalKeys
<1>3. OwnedKeys(watching, s) = KeysOf(watching)
  BY <1>1, <1>2, OneShard
<1>4. watchLeft' \cup watchAwait' = {}
  BY <1>1, <1>2 DEF RunWatchQuery, SubmitInv
<1>5. db' = After(watching, db, OwnedBy(s)) /\ Report(watching, s)
  BY <1>1 DEF RunWatchQuery, After
<1>6. ASSUME NEW t \in Shards, NEW q \in Reqs, WaitsOn(q, t)' PROVE WaitsOn(q, t) /\ q # watching
  <2>1. WaitsOn(q, t)
    BY Zenon, <1>6, WaitsBack
  <2>2. SingleOn(q, t)
    BY Zenon, <2>1 DEF WaitsOn, FifoInv, QueueInv, SinglesInv
  <2>. QED
    BY Zenon, <1>1, <2>1, <2>2 DEF SingleOn, IsSingle
<1>. QED
  BY Zenon, <1>1, <1>2, <1>3, <1>4, <1>5, <1>6, DirectRun

LEMMA HandleWatchRun ==
    ASSUME LocalKeys, TypeOK, TypeOK', LockInv, FifoInv, RunInv, NEW s \in Shards,
           HandleWatchQuery(s), activeTx[s] = 0
    PROVE  RunInv' /\ Serial!Next
<1>1. /\ \A t \in Shards : t # s => mailbox'[t] = mailbox[t]
      /\ MailFrom(s, 1)
      /\ 1 \in DOMAIN mailbox[s] /\ Head(mailbox[s]) = mailbox[s][1]
      /\ mailbox[s][1].type = "WatchQuery"
  BY Zenon, TakenMail DEF HandleWatchQuery
<1>2. \A t \in Shards : \E d \in {0, 1} : MailFrom(t, d)
  BY Zenon, <1>1, SameMail
<1>3. mailbox[s][1].req = watching /\ s \in watchAwait
  BY Zenon, <1>1 DEF FifoInv, QueueInv, WatchInv, IsMail
<1>4. /\ UNCHANGED <<coordVars, txAwait, watching, watchLeft, pendingSingles>>
      /\ RunWatchQuery(watching, s)
  BY <1>1, <1>3 DEF HandleWatchQuery, ioVars
<1>. QED
  BY Zenon, <1>2, <1>3, <1>4, SnapshotRun

LEMMA DrainWatchRun ==
    ASSUME LocalKeys, TypeOK, TypeOK', LockInv, FifoInv, RunInv, NEW s \in Shards, DrainWatch(s)
    PROVE  RunInv' /\ Serial!Next
<1>1. \A t \in Shards : \E d \in {0, 1} : MailFrom(t, d)
  BY Zenon, SameMail DEF DrainWatch
<1>2. pendingWatches[s] = <<watching>> /\ s \in watchAwait
  BY DEF DrainWatch, FifoInv, QueueInv, WatchInv
<1>3. /\ UNCHANGED <<coordVars, txAwait, watching, watchLeft, pendingSingles>>
      /\ RunWatchQuery(watching, s)
  BY <1>2 DEF DrainWatch, ioVars
<1>4. activeTx[s] = 0
  BY DEF DrainWatch, LockInv, ShardInv, HolderInv
<1>. QED
  BY Zenon, <1>1, <1>2, <1>3, <1>4, SnapshotRun

----------------------------------------------------------------------------
(* The transaction runs on one more shard *)

LEMMA ExecRun ==
    ASSUME LocalKeys, TypeOK, TypeOK', LockInv, FifoInv, RunInv, NEW s \in Shards, HandleTxExec(s)
    PROVE  RunInv' /\ (Serial!Next \/ UNCHANGED Serial!vars)
<1> DEFINE own == OwnedKeys(cur, s)
<1>1. /\ 1 \in DOMAIN mailbox[s] /\ Head(mailbox[s]) = mailbox[s][1]
      /\ mailbox[s][1].type = "TxExec"
      /\ \A t \in Shards : \E d \in {0, 1} : MailFrom(t, d) /\ MailKept(t)
  BY Zenon, TakenMail DEF HandleTxExec, TxTypes
<1>2. /\ phase = "exec" /\ s \in txAwait /\ mailbox[s][1].tx = txCounter /\ s \notin left
      /\ s \in ShardsOf(cur) /\ cur # NoReq /\ cur \in Reqs /\ ViaCoord(cur)
  <2>1. phase = "exec" /\ s \in txAwait /\ mailbox[s][1].tx = txCounter
    BY Zenon, <1>1 DEF LockInv, ShardInv, MailInv
  <2>. QED
    BY <2>1 DEF LockInv, CoordInv, TypeOK, FifoInv, SubmitInv
<1>3. RunExec(cur, s)
  <2>1. /\ [tx |-> txCounter, req |-> cur] \in txCtx[s]
        /\ \A c \in txCtx[s] : c.req = cur
    BY Zenon, <1>2 DEF LockInv, ShardInv, CtxInv, Held
  <2>2. [tx |-> txCounter, req |-> cur] \in {c \in txCtx[s] : c.tx = Head(mailbox[s]).tx}
    BY Zenon, <1>1, <1>2, <2>1
  <2>3. \E c \in {d \in txCtx[s] : d.tx = Head(mailbox[s]).tx} : RunExec(c.req, s)
    BY Zenon, <2>2 DEF HandleTxExec
  <2>. QED
    BY Zenon, <2>1, <2>3
<1>4. /\ UNCHANGED <<coordQueue, phase, cur, left, stores, watching, watchLeft, watchAwait>>
      /\ UNCHANGED pendingSingles /\ txAwait' = txAwait \ {s}
  BY Zenon DEF HandleTxExec, ioVars, coordVars, pendVars
<1>5. /\ ran'[cur] = ran[cur] \cup own
      /\ \A k \in Keys : seen'[cur][k] = IF k \in own THEN db[k] ELSE seen[cur][k]
      /\ \A q \in Reqs : q # cur => ran'[q] = ran[q] /\ seen'[q] = seen[q]
  BY Zenon, <1>2, <1>3, ReportFacts DEF RunExec
<1>6. /\ ran[cur] = {k \in KeysOf(cur) : ShardOf[k] \notin left \cup txAwait}
      /\ own = {k \in KeysOf(cur) : ShardOf[k] = s} /\ KeysOf(cur) \subseteq Keys
      /\ \A k \in own : k \notin ran[cur] /\ k \in Keys /\ k \in KeysOf(cur) /\ k \in OwnedBy(s)
  <2>1. KeysOf(cur) \subseteq Keys
    BY Zenon, <1>2, RequestTypes
  <2>2. ran[cur] = {k \in KeysOf(cur) : ShardOf[k] \notin left \cup txAwait}
    BY Zenon, <1>2 DEF RunInv, ProgressInv
  <2>3. own = {k \in KeysOf(cur) : ShardOf[k] = s} /\ \A k \in own : k \in OwnedBy(s)
    BY Zenon, <2>1 DEF OwnedKeys, OwnedBy
  <2>. QED
    BY Zenon, <1>2, <2>1, <2>2, <2>3
<1>7. ProgressInv'
  <2>1. ran'[cur] = {k \in KeysOf(cur) : ShardOf[k] \notin left \cup txAwait'}
    BY <1>2, <1>4, <1>5, <1>6
  <2>. QED
    BY Zenon, <1>2, <1>4, <2>1 DEF RunInv, ProgressInv
<1>8. WaitingInv'
  <2>0. WaitingInv
    BY DEF RunInv
  <2>1. \A i \in DOMAIN coordQueue : ran'[coordQueue[i]] = {} /\ coordQueue[i] # cur
    <3>1. \A i \in DOMAIN coordQueue : coordQueue[i] \in Reqs
      BY DEF TypeOK
    <3>. QED
      BY Zenon, <1>5, <2>0, <3>1 DEF WaitingInv
  <2>2. ASSUME NEW t \in Shards, NEW q \in Reqs, WaitsOn(q, t)' PROVE ran'[q] = {}
    <3>1. WaitsOn(q, t)
      BY Zenon, <1>1, <1>4, <2>2, WaitsBack
    <3>2. SingleOn(q, t)
      BY Zenon, <3>1 DEF WaitsOn, FifoInv, QueueInv, SinglesInv
    <3>3. q # cur
      BY Zenon, <1>2, <3>2 DEF SingleOn, ViaCoord
    <3>. QED
      BY Zenon, <1>5, <2>0, <3>1, <3>3 DEF WaitingInv
  <2>3. watchLeft \cup watchAwait # {} => watching \in Reqs /\ watching # cur
    BY Zenon, <1>2 DEF FifoInv, SubmitInv, TypeOK, ViaCoord
  <2>. QED
    BY Zenon, <1>4, <1>5, <2>0, <2>1, <2>2, <2>3 DEF WaitingInv
<1>9. \A q \in Reqs : \A k \in Keys \ ran'[q] : seen'[q][k] = {}
  <2>1. \A q \in Reqs : \A k \in Keys \ ran[q] : seen[q][k] = {}
    BY Zenon DEF RunInv, ResultInv
  <2>2. \A k \in Keys \ ran'[cur] : seen'[cur][k] = {}
    BY Zenon, <1>2, <1>5, <2>1
  <2>. QED
    BY Zenon, <1>5, <2>1, <2>2
<1>10. /\ db \in [Keys -> Value] /\ seen[cur] \in [Keys -> Value] /\ seen'[cur] \in [Keys -> Value]
       /\ SerialDb \in [Keys -> Value] /\ db' = After(cur, db, OwnedBy(s))
  BY Zenon, <1>2, <1>3, <1>4, SerialDbType DEF TypeOK, RunExec
<1>11. ASSUME NEW k \in Keys, k \notin own PROVE db'[k] = db[k] /\ seen'[cur][k] = seen[cur][k]
  <2>1. k \notin KeysOf(cur) \cap OwnedBy(s)
    BY Zenon, <1>11 DEF OwnedKeys
  <2>2. After(cur, db, OwnedBy(s))[k] = db[k]
    BY <1>2, <1>10, <2>1, AfterOutside
  <2>. QED
    BY Zenon, <1>5, <1>10, <1>11, <2>2
<1>12. Kind(cur) = "rename" =>
         /\ KeysOf(cur) = own /\ Complete(cur)' /\ ran[cur] = {} /\ OpOf[cur].src \in own
  <2> SUFFICES ASSUME Kind(cur) = "rename"
               PROVE  KeysOf(cur) = own /\ Complete(cur)' /\ ran[cur] = {} /\ OpOf[cur].src \in own
    OBVIOUS
  <2>1. KeysOf(cur) = own
    BY <1>2, OneShard DEF LocalKeys
  <2>2. OpOf[cur].src \in KeysOf(cur)
    BY Zenon, <1>2, OpAssumption DEF Kind, KeysOf
  <2>3. ran[cur] = {}
    BY Zenon, <1>6, <2>1
  <2>4. Complete(cur)'
    BY Zenon, <1>4, <1>5, <2>1 DEF Complete
  <2>. QED
    BY Zenon, <2>1, <2>2, <2>3, <2>4
<1> HIDE DEF own
<1>13. Complete(cur) => Complete(cur)'
  BY Zenon, <1>4, <1>5 DEF Complete
<1>14. ASSUME ~Complete(cur)', NEW k \in ran'[cur]
       PROVE  db'[k] = After(cur, seen'[cur], Keys)[k]
  <2>0. Kind(cur) # "rename" /\ k \in Keys /\ ~Complete(cur)
    BY Zenon, <1>2, <1>4, <1>12, <1>13, <1>14 DEF TypeOK
  <2>1. CASE k \in own
    <3>1. db[k] = seen'[cur][k] /\ k \in OwnedBy(s)
      BY <1>5, <1>6, <2>0, <2>1
    <3>2. SameAfter(cur, k, db, OwnedBy(s), seen'[cur], Keys)
      BY Zenon, <1>2, <1>10, <2>0, <3>1, AfterLocal
    <3>. QED
      BY Zenon, <1>10, <3>2 DEF SameAfter
  <2>2. CASE k \notin own
    <3>1. db'[k] = db[k] /\ seen'[cur][k] = seen[cur][k] /\ k \in ran[cur]
      BY Zenon, <1>5, <1>11, <1>14, <2>0, <2>2
    <3>2. db[k] = After(cur, seen[cur], Keys)[k]
      BY <1>2, <2>0, <3>1 DEF RunInv, ResultInv
    <3>3. SameAfter(cur, k, seen[cur], Keys, seen'[cur], Keys)
      BY Zenon, <1>2, <1>10, <2>0, <3>1, AfterLocal
    <3>. QED
      BY Zenon, <3>1, <3>2, <3>3 DEF SameAfter
  <2>. QED
    BY Zenon, <2>1, <2>2
<1>15. ResultInv'
  BY Zenon, <1>4, <1>9, <1>14 DEF ResultInv
<1>16. ASSUME NEW k \in own PROVE ~Hidden(k) /\ SerialDb[k] = db[k]
  BY Zenon, <1>6, SerialDbAt DEF Hidden
<1>17. CASE Complete(cur)
  <2>1. own = {}
    BY Zenon, <1>6, <1>17 DEF Complete
  <2>2. /\ \A k \in Keys : db'[k] = db[k] /\ seen'[cur][k] = seen[cur][k]
        /\ ran'[cur] = ran[cur]
    BY Zenon, <1>5, <1>11, <2>1
  <2>3. db' = db
    BY <2>2 DEF TypeOK
  <2>4. seen'[cur] = seen[cur]
    BY <1>10, <2>2
  <2>5. \A q \in Reqs : ran'[q] = ran[q] /\ seen'[q] = seen[q]
    BY Zenon, <1>5, <2>2, <2>4
  <2>6. ran' = ran /\ seen' = seen
    BY <2>5 DEF TypeOK
  <2>. QED
    BY Zenon, <1>4, <1>7, <1>8, <1>15, <2>3, <2>6, QuietSerial DEF RunInv, dataVars
<1>18. CASE ~Complete(cur) /\ ~Complete(cur)'
  <2>1. \A q \in Reqs : Complete(q)' <=> Complete(q)
    BY Zenon, <1>4, <1>5, <1>18 DEF Complete
  <2>2. SerialServed' = SerialServed
    BY Zenon, <2>1 DEF SerialServed
  <2>3. SerialResult' = SerialResult
    <3>1. \A q \in Reqs : Complete(q) => seen'[q] = seen[q]
      BY <1>5, <1>18
    <3>. QED
      BY Zenon, <2>1, <3>1 DEF SerialResult
  <2>4. ASSUME NEW k \in Keys PROVE SerialDb'[k] = SerialDb[k]
    <3>1. SerialDb'[k] = IF k \in ran'[cur] THEN seen'[cur][k] ELSE db'[k]
      BY Zenon, <1>2, <1>4, <1>18 DEF SerialDb
    <3>2. SerialDb[k] = IF k \in ran[cur] THEN seen[cur][k] ELSE db[k]
      BY Zenon, <1>2, <1>18 DEF SerialDb
    <3>3. CASE k \in own
      BY Zenon, <1>5, <1>6, <3>1, <3>2, <3>3
    <3>4. CASE k \notin own
      BY Zenon, <1>5, <1>11, <3>1, <3>2, <3>4
    <3>. QED
      BY Zenon, <3>3, <3>4
  <2>5. SerialDb' = SerialDb
    BY <2>4 DEF SerialDb
  <2>. QED
    BY <1>7, <1>8, <1>15, <2>2, <2>3, <2>5 DEF RunInv, Serial!vars
<1>19. CASE ~Complete(cur) /\ Complete(cur)'
  <2>1. /\ \A k \in KeysOf(cur) : k \in own \/ k \in ran[cur]
        /\ \A k \in ran[cur] : k \in Keys /\ k \notin own /\ SerialDb[k] = seen[cur][k]
        /\ ran'[cur] = KeysOf(cur)
    <3>1. \A k \in ran[cur] : k \in Keys /\ SerialDb[k] = seen[cur][k]
      BY Zenon, <1>2, <1>6, <1>19 DEF SerialDb
    <3>. QED
      BY Zenon, <1>4, <1>5, <1>6, <1>19, <3>1 DEF Complete
  <2>2. ASSUME NEW k \in Keys PROVE seen'[cur][k] = IF k \in KeysOf(cur) THEN SerialDb[k] ELSE {}
    <3>1. CASE k \in own
      BY Zenon, <1>5, <1>6, <1>16, <3>1
    <3>2. CASE k \in ran[cur]
      BY Zenon, <1>5, <1>6, <2>1, <3>2
    <3>3. CASE k \notin KeysOf(cur)
      BY Zenon, <1>2, <1>9, <2>1, <3>3
    <3>. QED
      BY Zenon, <2>1, <3>1, <3>2, <3>3
  <2>3. ASSUME NEW k \in Keys PROVE SerialDb'[k] = After(cur, SerialDb, Keys)[k]
    <3>0. SerialDb'[k] = db'[k]
      BY Zenon, <1>4, <1>19 DEF SerialDb
    <3>1. CASE k \in own
      <4>1. SerialDb[k] = db[k] /\ k \in OwnedBy(s)
        BY Zenon, <1>6, <1>16, <3>1
      <4>2. Kind(cur) = "rename" => /\ KeysOf(cur) \subseteq OwnedBy(s) \cap Keys
                                    /\ db[OpOf[cur].src] = SerialDb[OpOf[cur].src]
        BY <1>6, <1>12, <1>16
      <4>3. SameAfter(cur, k, db, OwnedBy(s), SerialDb, Keys)
        BY Zenon, <1>2, <1>10, <4>1, <4>2, AfterLocal
      <4>. QED
        BY <1>10, <3>0, <4>3 DEF SameAfter
    <3>2. CASE k \in ran[cur]
      <4>1. /\ Kind(cur) # "rename" /\ k \notin own /\ SerialDb[k] = seen[cur][k]
            /\ db'[k] = db[k] /\ db[k] = After(cur, seen[cur], Keys)[k]
        BY Zenon, <1>2, <1>11, <1>12, <1>19, <2>1, <3>2 DEF RunInv, ResultInv
      <4>2. SameAfter(cur, k, seen[cur], Keys, SerialDb, Keys)
        BY Zenon, <1>2, <1>10, <4>1, AfterLocal
      <4>. QED
        BY <3>0, <4>1, <4>2 DEF SameAfter
    <3>3. CASE k \notin KeysOf(cur)
      <4>1. k \notin own /\ k \notin ran[cur]
        BY Zenon, <1>6, <3>3
      <4>2. SerialDb[k] = db[k] /\ db'[k] = db[k]
        BY Zenon, <1>11, <4>1 DEF SerialDb
      <4>3. After(cur, SerialDb, Keys)[k] = SerialDb[k]
        BY <1>2, <1>10, <3>3, AfterOutside
      <4>. QED
        BY Zenon, <3>0, <4>2, <4>3
    <3>. QED
      BY Zenon, <2>1, <3>1, <3>2, <3>3
  <2>4. Serial!Next
    BY Zenon, <1>2, <1>4, <1>5, <1>19, <2>2, <2>3, ServeSerial
  <2>. QED
    BY Zenon, <1>7, <1>8, <1>15, <2>4 DEF RunInv
<1>. QED
  BY <1>17, <1>18, <1>19

----------------------------------------------------------------------------
(* Steps that run nothing *)

LEMMA RunStays ==
    ASSUME RunInv, UNCHANGED <<dataVars, coordQueue, phase, cur, stores>>,
           phase = "exec" => left' \cup txAwait' = left \cup txAwait,
           \A t \in Shards, q \in Reqs : WaitsOn(q, t)' => WaitsOn(q, t) \/ ran[q] = {},
           watchLeft' \cup watchAwait' # {} =>
               ran[watching'] = {} /\ watchLeft' \cup watchAwait' \subseteq ShardsOf(watching')
    PROVE  RunInv'
<1>1. UNCHANGED <<db, ran, seen, coordQueue, phase, cur, stores>>
  BY DEF dataVars
<1>2. WaitingInv'
  BY Zenon, <1>1 DEF RunInv, WaitingInv
<1>3. ProgressInv'
  BY Zenon, <1>1 DEF RunInv, ProgressInv
<1>4. ResultInv'
  BY <1>1 DEF RunInv, ResultInv, Complete
<1>. QED
  BY Zenon, <1>2, <1>3, <1>4 DEF RunInv

LEMMA IoRun ==
    ASSUME TypeOK, TypeOK', FifoInv, RunInv, IoStep
    PROVE  RunInv' /\ UNCHANGED Serial!vars
<1> USE DEF coordVars, pendVars
<1>1. UNCHANGED <<dataVars, phase, cur, left, stores, txAwait, pendingSingles>>
  BY Zenon DEF IoStep, SendSingle, SendCoord, LocalWatch, SendWatchQuery, WatchReply
<1>2. /\ SubmitInv /\ WaitingInv
      /\ watchLeft \cup watchAwait # {} =>
            ran[watching] = {} /\ watchLeft \cup watchAwait \subseteq ShardsOf(watching)
  BY DEF FifoInv, RunInv, WaitingInv
<1>3. UNCHANGED mailbox => \A t \in Shards, q \in Reqs : WaitsOn(q, t)' => WaitsOn(q, t)
  BY Zenon, <1>1 DEF WaitsOn, IsMail
<1>4. ASSUME NEW r \in Reqs, SendSingle(r) PROVE RunInv'
  <2> DEFINE m == [type |-> "Single", req |-> r]
  <2>1. PICK s \in ShardsOf(r) : Send(s, m)
    BY Zenon, <1>4 DEF SendSingle
  <2>2. s \in Shards /\ m \in ShardMsg /\ m.req = r
    BY Zenon, <2>1, RequestTypes DEF ShardMsg
  <2> HIDE DEF m
  <2>3. ran[r] = {} /\ UNCHANGED <<coordQueue, watching, watchLeft, watchAwait>>
    BY Zenon, <1>2, <1>4 DEF SendSingle, SubmitInv
  <2>4. ASSUME NEW t \in Shards, NEW q \in Reqs, WaitsOn(q, t)' PROVE WaitsOn(q, t) \/ ran[q] = {}
    <3>1. \A i \in DOMAIN mailbox'[t] : \/ i \in DOMAIN mailbox[t] /\ mailbox'[t][i] = mailbox[t][i]
                                        \/ mailbox'[t][i] = m
      BY Zenon, <2>1, <2>2, SentMail
    <3>. QED
      BY Zenon, <1>1, <2>2, <2>3, <2>4, <3>1 DEF WaitsOn, IsMail
  <2>. QED
    BY Zenon, <1>1, <1>2, <2>3, <2>4, RunStays
<1>5. ASSUME NEW r \in Reqs, SendCoord(r) PROVE RunInv'
  <2>1. /\ coordQueue' = Append(coordQueue, r) /\ r \notin Dispatched
        /\ UNCHANGED <<mailbox, watching, watchLeft, watchAwait>>
    BY Zenon, <1>5 DEF SendCoord
  <2> DEFINE n == Len(coordQueue)
  <2>2. /\ n \in Nat /\ DOMAIN coordQueue = 1 .. n /\ DOMAIN coordQueue' = 1 .. n + 1
        /\ \A i \in 1 .. n : coordQueue'[i] = coordQueue[i]
        /\ coordQueue'[n + 1] = r
    <3>1. coordQueue \in Seq(Reqs)
      BY Zenon DEF TypeOK
    <3>. QED
      BY <2>1, <3>1, AppendFacts
  <2>3. \A i \in DOMAIN coordQueue' : i \in DOMAIN coordQueue \/ i = n + 1
    BY <2>2
  <2>4. \A i \in DOMAIN coordQueue : coordQueue'[i] = coordQueue[i] /\ coordQueue[i] # r
    BY Zenon, <1>2, <2>1, <2>2 DEF SubmitInv, ViaCoord
  <2>5. ran[r] = {} /\ r # cur /\ coordQueue'[n + 1] = r
    BY Zenon, <1>2, <2>1, <2>2, NoReqAssumption DEF SubmitInv, ViaCoord
  <2> HIDE DEF n
  <2>6. \A i \in DOMAIN coordQueue' : ran[coordQueue'[i]] = {} /\ coordQueue'[i] # cur
    BY Zenon, <1>2, <2>3, <2>4, <2>5 DEF WaitingInv
  <2>7. \A i, j \in DOMAIN coordQueue' : coordQueue'[i] = coordQueue'[j] => i = j
    BY Zenon, <1>2, <2>3, <2>4, <2>5 DEF WaitingInv
  <2>8. WaitingInv'
    BY Zenon, <1>1, <1>2, <1>3, <2>1, <2>6, <2>7 DEF WaitingInv, dataVars
  <2>. QED
    BY Zenon, <1>1, <2>8 DEF RunInv, ProgressInv, ResultInv, Complete, dataVars
<1>6. ASSUME NEW r \in Reqs, LocalWatch(r) PROVE RunInv'
  <2>1. /\ watching' = r /\ watchLeft' = ShardsOf(r) /\ watchAwait' = {} /\ ran[r] = {}
        /\ UNCHANGED <<mailbox, coordQueue>>
    BY Zenon, <1>2, <1>6 DEF LocalWatch, IoFree, SubmitInv
  <2>. QED
    BY Zenon, <1>1, <1>3, <2>1, RunStays
<1>7. ASSUME NEW s \in Shards, SendWatchQuery(s) PROVE RunInv'
  <2> DEFINE m == [type |-> "WatchQuery", req |-> watching]
  <2>1. Send(s, m) /\ watching # NoReq
    BY Zenon, <1>7 DEF SendWatchQuery
  <2>2. m \in ShardMsg /\ m.type = "WatchQuery"
    BY Zenon, <2>1 DEF ShardMsg, TypeOK
  <2> HIDE DEF m
  <2>3. /\ watchLeft' \cup watchAwait' \subseteq watchLeft \cup watchAwait
        /\ UNCHANGED <<coordQueue, watching>>
    BY <1>7 DEF SendWatchQuery, IsFirst
  <2>4. ASSUME NEW t \in Shards, NEW q \in Reqs, WaitsOn(q, t)' PROVE WaitsOn(q, t) \/ ran[q] = {}
    <3>1. \A i \in DOMAIN mailbox'[t] :
            mailbox'[t][i].type = "Single" => i \in DOMAIN mailbox[t] /\ mailbox'[t][i] = mailbox[t][i]
      BY Zenon, <2>1, <2>2, SentMail
    <3>. QED
      BY Zenon, <1>1, <2>4, <3>1 DEF WaitsOn, IsMail
  <2>. QED
    BY Zenon, <1>1, <1>2, <2>3, <2>4, RunStays
<1>8. ASSUME WatchReply PROVE RunInv'
  <2>1. watchLeft' = {} /\ watchAwait' = {} /\ UNCHANGED <<mailbox, coordQueue>>
    BY Zenon, <1>8 DEF WatchReply
  <2>2. watchLeft' \cup watchAwait' = {}
    BY Zenon, <2>1
  <2>. QED
    BY Zenon, <1>1, <1>3, <2>1, <2>2, RunStays
<1>9. UNCHANGED Serial!vars
  BY <1>1, QuietSerial
<1>. QED
  BY Zenon, <1>4, <1>5, <1>6, <1>7, <1>8, <1>9 DEF IoStep

LEMMA CoordRun ==
    ASSUME LocalKeys, TypeOK, TypeOK', LockInv, FifoInv, RunInv, CoordStep
    PROVE  RunInv' /\ UNCHANGED Serial!vars
<1> USE DEF ioVars, pendVars
<1>0. CoordInv /\ WaitingInv /\ ProgressInv /\ ResultInv
  BY DEF LockInv, RunInv
<1>1. UNCHANGED <<dataVars, watching, watchLeft, watchAwait, pendingSingles>>
  BY Zenon DEF CoordStep, StartTx, AllLocked, AllExecuted, SendTxLock, SendTxExec, SendTxUnlock, FinishTx,
               SendStoreValue, UnlockStore, ReplyTx
<1>2. ASSUME NEW t \in Shards, NEW q \in Reqs, WaitsOn(q, t)' PROVE WaitsOn(q, t)
  <2>1. MailFrom(t, 0)
    BY Zenon, <1>0, CoordSends, SentMail, SameMail
  <2>. QED
    BY Zenon, <1>1, <1>2, <2>1, WaitsBack
<1>3. CASE StartTx
  <2> DEFINE r == Head(coordQueue)
  <2>1. coordQueue \in Seq(Reqs) /\ coordQueue # <<>> /\ cur = NoReq
    BY Zenon, <1>0, <1>3 DEF StartTx, TypeOK, CoordInv
  <2>2. /\ r = coordQueue[1] /\ 1 \in DOMAIN coordQueue /\ r \in Reqs
        /\ cur' = r /\ phase' = "lock" /\ coordQueue' = Tail(coordQueue) /\ UNCHANGED stores
    BY Zenon, <1>3, <2>1, TailFacts DEF StartTx
  <2>3. ASSUME NEW i \in DOMAIN coordQueue'
        PROVE  /\ i + 1 \in DOMAIN coordQueue /\ coordQueue'[i] = coordQueue[i + 1] /\ i + 1 # 1
               /\ i \in Nat
    BY <2>1, <2>2, TailFacts
  <2>4. ran[r] = {} /\ ran[cur'] = {}
    BY Zenon, <1>0, <2>2 DEF WaitingInv
  <2> HIDE DEF r
  <2>5. \A i \in DOMAIN coordQueue' : ran[coordQueue'[i]] = {} /\ coordQueue'[i] # cur'
    BY Zenon, <1>0, <2>2, <2>3 DEF WaitingInv
  <2>6. ASSUME NEW i \in DOMAIN coordQueue', NEW j \in DOMAIN coordQueue', coordQueue'[i] = coordQueue'[j]
        PROVE  i = j
    <3>1. i + 1 = j + 1
      BY <1>0, <2>3, <2>6 DEF WaitingInv
    <3>. QED
      BY <2>3, <3>1
  <2>7. WaitingInv'
    BY Zenon, <1>0, <1>1, <1>2, <2>5, <2>6 DEF WaitingInv, dataVars
  <2>8. ProgressInv' /\ ResultInv'
    BY Zenon, <1>0, <1>1, <2>2, <2>4 DEF ProgressInv, ResultInv, dataVars
  <2>. QED
    BY Zenon, <1>1, <2>1, <2>4, <2>7, <2>8, QuietSerial DEF RunInv
<1>4. CASE ReplyTx
  <2>1. /\ phase = "store" /\ phase' = "idle" /\ cur' = NoReq /\ UNCHANGED <<coordQueue, stores>>
        /\ cur \in Reqs
    BY Zenon, <1>0, <1>4 DEF ReplyTx, CoordInv, TypeOK
  <2>2. Complete(cur)
    BY Zenon, <1>0, <2>1 DEF ProgressInv, Complete
  <2>3. \A i \in DOMAIN coordQueue : coordQueue[i] # NoReq
    BY NoReqAssumption DEF TypeOK
  <2>4. WaitingInv'
    BY Zenon, <1>0, <1>1, <1>2, <2>1, <2>3 DEF WaitingInv, dataVars
  <2>5. ProgressInv' /\ ResultInv'
    BY Zenon, <1>0, <1>1, <2>1 DEF ProgressInv, ResultInv, dataVars
  <2>. QED
    BY Zenon, <1>1, <2>1, <2>2, <2>4, <2>5, QuietSerial DEF RunInv
<1>5. ASSUME UNCHANGED <<coordQueue, cur>>, ProgressInv' PROVE RunInv' /\ UNCHANGED Serial!vars
  <2>1. WaitingInv'
    BY Zenon, <1>0, <1>1, <1>2, <1>5 DEF WaitingInv, dataVars
  <2>2. ResultInv'
    BY Zenon, <1>0, <1>1, <1>5 DEF ResultInv, Complete, dataVars
  <2>. QED
    BY Zenon, <1>1, <1>5, <2>1, <2>2, QuietSerial DEF RunInv
<1>6. CASE AllLocked
  <2>1. /\ phase = "lock" /\ phase' = "exec" /\ left' = ShardsOf(cur) /\ cur \in Reqs
        /\ UNCHANGED <<coordQueue, cur, stores>>
    BY Zenon, <1>0, <1>6 DEF AllLocked, CoordInv, TypeOK
  <2>2. \A k \in KeysOf(cur) : ShardOf[k] \in left'
    BY Zenon, <2>1, ShardOfKey
  <2>3. ProgressInv'
    BY Zenon, <1>0, <1>1, <2>1, <2>2 DEF ProgressInv, dataVars
  <2>. QED
    BY Zenon, <1>5, <2>1, <2>3
<1>7. CASE AllExecuted
  <2>1. /\ phase = "exec" /\ left = {} /\ txAwait = {} /\ phase' = "unlock"
        /\ UNCHANGED <<coordQueue, cur, stores>>
    BY Zenon, <1>7 DEF AllExecuted
  <2>2. ProgressInv'
    BY Zenon, <1>0, <1>1, <2>1 DEF ProgressInv, dataVars
  <2>. QED
    BY Zenon, <1>5, <2>1, <2>2
<1>8. CASE FinishTx
  <2>1. /\ phase = "unlock" /\ phase' = "store" /\ stores' = DeferredStores(cur) /\ cur \in Reqs
        /\ UNCHANGED <<coordQueue, cur>>
    BY Zenon, <1>0, <1>8 DEF FinishTx, CoordInv, TypeOK
  <2>2. Kind(cur) = "rename" => ShardOf[OpOf[cur].src] = ShardOf[OpOf[cur].dst]
    <3>1. Kind(cur) = "rename" => OpOf[cur].src \in KeysOf(cur) /\ OpOf[cur].dst \in KeysOf(cur)
      BY Zenon, <2>1, OpAssumption DEF Kind, KeysOf
    <3>2. Kind(cur) = "rename" =>
            ShardOf[OpOf[cur].src] \in ShardsOf(cur) /\ ShardOf[OpOf[cur].dst] \in ShardsOf(cur)
      BY Zenon, <2>1, <3>1, ShardOfKey
    <3>. QED
      BY Zenon, <2>1, <3>2 DEF LocalKeys
  <2>3. ProgressInv'
    BY Zenon, <1>0, <1>1, <2>1, <2>2 DEF ProgressInv, DeferredStores, dataVars
  <2>. QED
    BY Zenon, <1>5, <2>1, <2>3
<1>9. ASSUME NEW s \in Shards, SendTxLock(s) \/ SendTxExec(s) \/ SendTxUnlock(s)
      PROVE  RunInv' /\ UNCHANGED Serial!vars
  <2>1. /\ UNCHANGED <<coordQueue, cur, phase, stores>>
        /\ phase = "exec" => left' \cup txAwait' = left \cup txAwait
    BY Zenon, <1>9 DEF SendTxLock, SendTxExec, SendTxUnlock, IsFirst
  <2>2. ProgressInv'
    BY Zenon, <1>0, <1>1, <2>1 DEF ProgressInv, dataVars
  <2>. QED
    BY Zenon, <1>5, <2>1, <2>2
<1>10. ~SendStoreValue /\ ~UnlockStore
  BY Zenon, <1>0 DEF ProgressInv, SendStoreValue, UnlockStore
<1>. QED
  BY Zenon, <1>3, <1>4, <1>6, <1>7, <1>8, <1>9, <1>10 DEF CoordStep

LEMMA ShardQuietRun ==
    ASSUME TypeOK, TypeOK', LockInv, FifoInv, RunInv, NEW s \in Shards,
           \/ HandleTxLock(s) \/ HandleTxUnlock(s) \/ HandleStoreValue(s) \/ DrainDone(s)
           \/ (HandleSingle(s) \/ HandleWatchQuery(s)) /\ activeTx[s] # 0
           \/ UNCHANGED vars
    PROVE  RunInv' /\ UNCHANGED Serial!vars
<1> USE DEF ioVars, coordVars, pendVars
<1>1. ~HandleStoreValue(s)
  <2>1. ASSUME HandleStoreValue(s) PROVE mailbox[s][1].type = "StoreValue" /\ 1 \in DOMAIN mailbox[s]
    BY Zenon, <2>1, TakenMail DEF HandleStoreValue
  <2>2. HandleStoreValue(s) => phase = "stored"
    BY Zenon, <2>1 DEF LockInv, ShardInv, MailInv
  <2>. QED
    BY Zenon, <2>2 DEF RunInv, ProgressInv
<1>2. HandleTxLock(s) => phase = "lock"
  <2>1. ASSUME HandleTxLock(s) PROVE mailbox[s][1].type = "TxLock" /\ 1 \in DOMAIN mailbox[s]
    BY Zenon, <2>1, TakenMail DEF HandleTxLock
  <2>2. ShardInv(s)
    BY DEF LockInv
  <2>. QED
    BY Zenon, <2>1, <2>2 DEF ShardInv, MailInv
<1>3. UNCHANGED <<dataVars, coordQueue, phase, cur, stores, left, watching, watchLeft, watchAwait>>
  BY Zenon, <1>1 DEF HandleTxLock, HandleTxUnlock, DrainDone, HandleSingle, HandleWatchQuery, vars
<1>4. phase = "exec" => UNCHANGED txAwait
  BY Zenon, <1>1, <1>2 DEF HandleTxUnlock, DrainDone, HandleSingle, HandleWatchQuery, vars
<1>5. ASSUME NEW t \in Shards, NEW q \in Reqs, WaitsOn(q, t)' PROVE WaitsOn(q, t)
  <2>1. CASE HandleSingle(s) /\ activeTx[s] # 0
    <3> DEFINE r == mailbox[s][1].req
    <3>1. /\ \A u \in Shards : u # s => mailbox'[u] = mailbox[u]
          /\ MailFrom(s, 1)
          /\ 1 \in DOMAIN mailbox[s] /\ Head(mailbox[s]) = mailbox[s][1] /\ mailbox[s][1].type = "Single"
      BY Zenon, <2>1, TakenMail DEF HandleSingle
    <3>2. r \in Reqs /\ pendingSingles' = [pendingSingles EXCEPT ![s] = Append(@, r)]
      <4>1. mailbox[s][1] \in ShardMsg
        BY Zenon, <2>1, <3>1, ReceiveType DEF HandleSingle
      <4>2. r \in Reqs
        BY Zenon, <3>1, <4>1, MessageFields
      <4>. QED
        BY Zenon, <2>1, <3>1, <4>2 DEF HandleSingle
    <3>3. \A i \in DOMAIN pendingSingles'[s] :
            (i \in DOMAIN pendingSingles[s] /\ pendingSingles'[s][i] = pendingSingles[s][i])
            \/ pendingSingles'[s][i] = r
      <4>1. pendingSingles[s] \in Seq(Reqs) /\ pendingSingles'[s] = Append(pendingSingles[s], r)
        BY Zenon, <3>2 DEF TypeOK
      <4>. QED
        BY <3>2, <4>1, AppendFacts
    <3>4. \A u \in Shards : u # s => pendingSingles'[u] = pendingSingles[u]
      BY Zenon, <3>2 DEF TypeOK
    <3> HIDE DEF r
    <3>5. CASE t = s
      BY Zenon, <1>5, <3>1, <3>3, <3>5 DEF MailFrom, WaitsOn, IsMail, DirectTypes, r
    <3>6. CASE t # s
      BY Zenon, <1>5, <3>1, <3>4, <3>6 DEF WaitsOn, IsMail
    <3>. QED
      BY Zenon, <3>5, <3>6
  <2>2. CASE ~(HandleSingle(s) /\ activeTx[s] # 0)
    <3>1. UNCHANGED pendingSingles
      BY Zenon, <1>1, <2>2 DEF HandleTxLock, HandleTxUnlock, DrainDone, HandleWatchQuery, vars
    <3>2. \E d \in {0, 1} : MailFrom(t, d)
      <4>1. CASE DrainDone(s) \/ UNCHANGED vars
        BY Zenon, <4>1, SameMail DEF DrainDone, vars
      <4>2. CASE HandleTxLock(s) \/ HandleTxUnlock(s) \/ HandleWatchQuery(s)
        <5>1. \E type : Receive(s, type)
          BY Zenon, <4>2 DEF HandleTxLock, HandleTxUnlock, HandleWatchQuery
        <5>. QED
          BY Zenon, <5>1, TakenMail, SameMail
      <4>. QED
        BY Zenon, <1>1, <2>2, <4>1, <4>2
    <3>. QED
      BY Zenon, <1>5, <3>1, <3>2, WaitsBack
  <2>. QED
    BY Zenon, <2>1, <2>2
<1>6. watchLeft \cup watchAwait # {} =>
        ran[watching] = {} /\ watchLeft \cup watchAwait \subseteq ShardsOf(watching)
  BY Zenon DEF RunInv, WaitingInv
<1>. QED
  BY Zenon, <1>3, <1>4, <1>5, <1>6, RunStays, QuietSerial

----------------------------------------------------------------------------
(* Every step of the transaction layer is a step of SerialStore, or leaves *)
(* it as it was.                                                           *)
LEMMA NextRun ==
    ASSUME LocalKeys, TypeOK, TypeOK', LockInv, FifoInv, RunInv, [Next]_vars
    PROVE  RunInv' /\ (Serial!Next \/ UNCHANGED Serial!vars)
<1>1. CASE IoStep
  BY Zenon, <1>1, IoRun
<1>2. CASE CoordStep
  BY Zenon, <1>2, CoordRun
<1>3. CASE UNCHANGED vars
  <2>1. 0 \in Shards
    BY ShardAssumption DEF Shards
  <2>. QED
    BY Zenon, <1>3, <2>1, ShardQuietRun
<1>4. ASSUME NEW s \in Shards, ShardStep(s)
      PROVE  RunInv' /\ (Serial!Next \/ UNCHANGED Serial!vars)
  <2>1. CASE HandleSingle(s)
    BY Zenon, <2>1, HandleSingleRun, ShardQuietRun
  <2>2. CASE HandleWatchQuery(s)
    BY Zenon, <2>2, HandleWatchRun, ShardQuietRun
  <2>. QED
    BY Zenon, <1>4, <2>1, <2>2, ExecRun, DrainSingleRun, DrainWatchRun, ShardQuietRun DEF ShardStep
<1>. QED
  BY Zenon, <1>1, <1>2, <1>3, <1>4 DEF Next, AllServed

LEMMA InitRun == Init => RunInv /\ Serial!Init
<1> SUFFICES ASSUME Init PROVE RunInv /\ Serial!Init
  OBVIOUS
<1>1. WaitingInv
  <2>1. /\ DOMAIN coordQueue = {} /\ watchLeft \cup watchAwait = {}
        /\ \A s \in Shards : DOMAIN mailbox[s] = {} /\ DOMAIN pendingSingles[s] = {}
    BY DEF Init
  <2>. QED
    BY Zenon, <2>1 DEF WaitingInv, WaitsOn
<1>2. ProgressInv /\ ResultInv
  BY Zenon DEF Init, ProgressInv, ResultInv
<1>3. Serial!Init
  BY Zenon, OpAssumption DEF Serial!Init, Init, SerialDb, SerialServed, SerialResult, Complete, KeysOf
<1>. QED
  BY Zenon, <1>1, <1>2, <1>3 DEF RunInv

(* TxExec: the holder's context is used up.                                *)
LEMMA ExecLock ==
    ASSUME NEW s \in Shards, TypeOK, LockInv, HandleTxExec(s)
    PROVE  LockInv'
<1>0. ShardInv(s) /\ CoordInv
  BY DEF LockInv
<1>1. /\ mailbox[s] # <<>> /\ Head(mailbox[s]).type = "TxExec"
      /\ mailbox' = [mailbox EXCEPT ![s] = Tail(@)]
      /\ txCtx' = [txCtx EXCEPT ![s] = @ \ {c \in txCtx[s] : c.tx = Head(mailbox[s]).tx}]
      /\ txAwait' = txAwait \ {s}
      /\ UNCHANGED <<phase, cur, txCounter, left, stores, activeTx, draining, pendingSingles,
                     pendingWatches>>
  BY Zenon DEF HandleTxExec, Receive, coordVars, pendVars
<1>2. CoordInv' /\ \A t \in Shards : t # s => ShardInv(t)'
  BY Zenon, <1>1, ShardFrame DEF TypeOK, SameLock, SameParked
<1>3. /\ activeTx[s] = Head(mailbox[s]).tx /\ s \in txAwait /\ phase = "exec"
  BY Zenon, <1>0, <1>1, FirstMessage
<1>4. mailbox'[s] = Tail(mailbox[s]) /\ txCtx'[s] = {}
  BY Zenon, <1>0, <1>1, <1>3 DEF TypeOK, ShardInv, CtxInv
<1>5. /\ \A i \in DOMAIN mailbox'[s] : mailbox'[s][i].type \notin TxTypes
      /\ OrderInv(s)' /\ ~UnlockQueued(s)'
  <2>1. Head(mailbox[s]).type \in TxTypes /\ Head(mailbox[s]).type # "TxUnlock"
    BY <1>1 DEF TxTypes
  <2>. QED
    BY Zenon, <1>0, <1>1, <1>4, <2>1, AfterFirst
<1>6. Held(s) /\ Held(s)'
  BY Zenon, <1>0, <1>1, <1>3 DEF Held, CoordInv, ShardsOf, Kind, KeysOf
<1>7. MailInv(s)'
  BY Zenon, <1>5 DEF MailInv, TxTypes
<1>8. HolderInv(s)'
  BY Zenon, <1>0, <1>1, <1>5, <1>6 DEF HolderInv, ShardInv
<1>9. CtxInv(s)'
  <2>1. s \notin left' \cup txAwait'
    BY Zenon, <1>0, <1>1, <1>3 DEF CoordInv
  <2>. QED
    BY Zenon, <1>1, <1>3, <1>4, <2>1 DEF CtxInv
<1>10. ParkedInv(s)'
  BY Zenon, <1>0, <1>1 DEF ParkedInv, ShardInv
<1>. QED
  BY Zenon, <1>2, <1>5, <1>7, <1>8, <1>9, <1>10 DEF LockInv, ShardInv

(* TxUnlock: the holder releases the shard and the drain begins.           *)
LEMMA UnlockLock ==
    ASSUME NEW s \in Shards, TypeOK, LockInv, HandleTxUnlock(s)
    PROVE  LockInv'
<1>0. ShardInv(s) /\ CoordInv
  BY DEF LockInv
<1>1. /\ mailbox[s] # <<>> /\ Head(mailbox[s]).type = "TxUnlock"
      /\ mailbox' = [mailbox EXCEPT ![s] = Tail(@)]
      /\ txCtx' = [txCtx EXCEPT ![s] = {c \in @ : c.tx # Head(mailbox[s]).tx}]
      /\ UNCHANGED <<phase, cur, txCounter, left, stores, txAwait, pendingSingles, pendingWatches>>
  BY Zenon DEF HandleTxUnlock, Receive, coordVars, pendVars
<1>2. activeTx[s] = Head(mailbox[s]).tx /\ activeTx[s] # 0 /\ ~Held(s)
  BY Zenon, <1>0, <1>1, FirstMessage
<1>3. activeTx' = [activeTx EXCEPT ![s] = 0] /\ draining' = draining \cup {s}
  BY <1>2 DEF HandleTxUnlock
<1>4. CoordInv' /\ \A t \in Shards : t # s => ShardInv(t)'
  <2>1. \A t \in Shards : t # s => SameLock(t) /\ SameParked(t) /\ mailbox'[t] = mailbox[t]
    BY Zenon, <1>1, <1>3 DEF TypeOK, SameLock, SameParked
  <2>. QED
    BY Zenon, <1>1, <2>1, ShardFrame
<1>5. /\ mailbox'[s] = Tail(mailbox[s]) /\ activeTx'[s] = 0 /\ txCtx'[s] = {}
      /\ s \in draining'
  BY Zenon, <1>0, <1>1, <1>2, <1>3 DEF TypeOK, ShardInv, CtxInv
<1>6. /\ \A i \in DOMAIN mailbox'[s] :
            mailbox'[s][i].type \in TxTypes =>
               /\ mailbox'[s][i].type \in {"TxLock", "StoreValue"}
               /\ \E j \in DOMAIN mailbox[s] : mailbox'[s][i] = mailbox[s][j]
      /\ OrderInv(s)' /\ ~UnlockQueued(s)'
  <2>1. Head(mailbox[s]).type \in TxTypes
    BY <1>1 DEF TxTypes
  <2>. QED
    BY Zenon, <1>0, <1>1, <1>5, <2>1, AfterFirst
<1>7. ~Held(s)'
  BY Zenon, <1>1, <1>2 DEF Held, ShardsOf, Kind, KeysOf
<1>8. MailInv(s)'
  <2>1. MailInv(s) /\ UNCHANGED <<phase, cur, txCounter, txAwait>>
    BY Zenon, <1>0, <1>1 DEF ShardInv
  <2>2. \A i \in DOMAIN mailbox'[s] :
           /\ mailbox'[s][i].type # "TxUnlock" /\ mailbox'[s][i].type # "TxExec"
           /\ mailbox'[s][i].type \in {"TxLock", "StoreValue"} =>
                 \E j \in DOMAIN mailbox[s] : mailbox'[s][i] = mailbox[s][j]
    BY Zenon, <1>6 DEF TxTypes
  <2>. QED
    BY Zenon, <2>1, <2>2 DEF MailInv
<1>9. HolderInv(s)'
  BY Zenon, <1>5, <1>6, <1>7 DEF HolderInv
<1>10. CtxInv(s)'
  <2>1. ~(phase' = "exec" /\ s \in left' \cup txAwait')
    BY Zenon, <1>0, <1>1, <1>2 DEF Held, CoordInv
  <2>. QED
    BY Zenon, <1>5, <1>7, <2>1 DEF CtxInv
<1>11. ParkedInv(s)'
  BY Zenon, <1>5 DEF ParkedInv
<1>. QED
  BY Zenon, <1>4, <1>6, <1>8, <1>9, <1>10, <1>11 DEF LockInv, ShardInv

(* Every step of a shard preserves the invariant.                          *)
LEMMA ShardLock ==
    ASSUME NEW s \in Shards, TypeOK, LockInv, ShardStep(s)
    PROVE  LockInv'
<1>0. ShardInv(s)
  BY DEF LockInv
<1>1. ASSUME HandleSingle(s) \/ HandleWatchQuery(s) PROVE LockInv'
  <2>1. /\ mailbox[s] # <<>> /\ Head(mailbox[s]).type \in {"Single", "WatchQuery"}
        /\ mailbox' = [mailbox EXCEPT ![s] = Tail(@)]
        /\ UNCHANGED <<phase, cur, txCounter, left, stores, txAwait, activeTx, txCtx, draining>>
    BY Zenon, <1>1 DEF HandleSingle, HandleWatchQuery, Receive, coordVars, lockVars
  <2>2. /\ SameParked(s) \/ activeTx[s] # 0
        /\ \A t \in Shards : t # s => SameParked(t)
    BY Zenon, <1>1 DEF HandleSingle, HandleWatchQuery, SameParked, TypeOK
  <2>3. CoordInv' /\ \A t \in Shards : t # s => ShardInv(t)'
    BY Zenon, <2>1, <2>2, ShardFrame DEF TypeOK, SameLock
  <2>4. SameCoord(s) /\ SameLock(s) /\ mailbox'[s] = Tail(mailbox[s])
    BY Zenon, <2>1 DEF TypeOK, SameCoord, SameLock
  <2>5. Head(mailbox[s]).type \notin TxTypes
    BY Zenon, <2>1 DEF TxTypes
  <2>6. ShardInv(s)'
    BY Zenon, <1>0, <2>1, <2>2, <2>4, <2>5, FrameTail
  <2>. QED
    BY Zenon, <2>3, <2>6 DEF LockInv
<1>2. CASE HandleTxLock(s)
  <2>1. /\ mailbox[s] # <<>> /\ s \notin draining /\ Head(mailbox[s]).type = "TxLock"
        /\ mailbox' = [mailbox EXCEPT ![s] = Tail(@)]
        /\ activeTx' = [activeTx EXCEPT ![s] = Head(mailbox[s]).tx]
        /\ txCtx' = [txCtx EXCEPT ![s] = @ \cup {[tx |-> Head(mailbox[s]).tx,
                                                  req |-> Head(mailbox[s]).req]}]
        /\ txAwait' = txAwait \ {s}
        /\ UNCHANGED <<coordVars, draining, pendVars>>
    BY Zenon, <1>2 DEF HandleTxLock, Receive
  <2>. QED
    BY Zenon, <2>1, TakeLock
<1>3. CASE HandleTxExec(s)
  BY Zenon, <1>3, ExecLock
<1>4. CASE HandleTxUnlock(s)
  BY <1>4, UnlockLock
<1>5. CASE HandleStoreValue(s)
  <2>1. /\ mailbox[s] # <<>> /\ s \notin draining /\ Head(mailbox[s]).type = "StoreValue"
        /\ mailbox' = [mailbox EXCEPT ![s] = Tail(@)]
        /\ activeTx' = [activeTx EXCEPT ![s] = Head(mailbox[s]).tx]
        /\ txAwait' = txAwait \ {s}
        /\ UNCHANGED <<coordVars, draining, pendVars, txCtx>>
    BY <1>5 DEF HandleStoreValue, Receive
  <2>. QED
    BY Zenon, <2>1, TakeLock
<1>6. ASSUME DrainSingle(s) \/ DrainWatch(s) \/ DrainDone(s) PROVE LockInv'
  <2>1. /\ UNCHANGED <<mailbox, phase, cur, txCounter, left, stores, txAwait, activeTx, txCtx>>
        /\ \A t \in Shards : t # s => SameParked(t) /\ (t \in draining' <=> t \in draining)
    BY Zenon, <1>6 DEF DrainSingle, DrainWatch, DrainDone, SameParked, coordVars, lockVars, pendVars, TypeOK
  <2>2. CoordInv' /\ \A t \in Shards : t # s => ShardInv(t)'
    BY Zenon, <2>1, ShardFrame DEF SameLock
  <2>3. s \in draining /\ (s \in draining' \/ (pendingSingles'[s] = <<>> /\ pendingWatches'[s] = <<>>))
    BY Zenon, <1>6 DEF DrainSingle, DrainWatch, DrainDone, lockVars, pendVars
  <2>4. (Held(s)' <=> Held(s)) /\ (UnlockQueued(s)' <=> UnlockQueued(s))
    BY Zenon, <2>1 DEF Held, UnlockQueued, ShardsOf, Kind, KeysOf
  <2>5. MailInv(s)' /\ OrderInv(s)'
    BY Zenon, <1>0, <2>1 DEF ShardInv, MailInv, OrderInv
  <2>6. HolderInv(s)'
    BY Zenon, <1>0, <2>1, <2>3, <2>4 DEF ShardInv, HolderInv
  <2>7. CtxInv(s)'
    BY Zenon, <1>0, <2>1, <2>4 DEF ShardInv, CtxInv
  <2>8. ParkedInv(s)'
    BY <2>3 DEF ParkedInv
  <2>. QED
    BY Zenon, <2>2, <2>5, <2>6, <2>7, <2>8 DEF LockInv, ShardInv
<1>. QED
  BY Zenon, <1>1, <1>2, <1>3, <1>4, <1>5, <1>6 DEF ShardStep

LEMMA LockNext == TypeOK /\ LockInv /\ [Next]_vars => LockInv'
<1> SUFFICES ASSUME TypeOK, LockInv, [Next]_vars PROVE LockInv'
  OBVIOUS
<1>1. CASE IoStep
  BY Zenon, <1>1, IoLock
<1>2. CASE CoordStep
  BY Zenon, <1>2, CoordQuietLock, CoordSendLock DEF CoordStep
<1>3. CASE \E s \in Shards : ShardStep(s)
  BY <1>3, ShardLock
<1>4. CASE UNCHANGED vars
  <2>1. CoordInv /\ \A t \in Shards : ShardInv(t)
    BY DEF LockInv
  <2>2. UNCHANGED <<mailbox, phase, cur, txCounter, left, stores, txAwait, activeTx, txCtx, draining,
                    pendingSingles, pendingWatches>>
    BY Zenon, <1>4 DEF vars, coordVars, lockVars, pendVars
  <2>3. CoordInv'
    BY Zenon, <2>1, <2>2 DEF CoordInv, ShardsOf, Kind, KeysOf
  <2>4. ASSUME NEW t \in Shards PROVE ShardInv(t)'
    BY Zenon, <2>1, <2>2, Frame DEF SameCoord, SameLock, SameParked
  <2>. QED
    BY Zenon, <2>3, <2>4 DEF LockInv
<1>. QED
  BY Zenon, <1>1, <1>2, <1>3, <1>4 DEF Next, AllServed

(* TypeOK and LockInv hold in every reachable state, and are inductive     *)
(* together.                                                               *)
THEOREM LockInvariant == Spec => [](TypeOK /\ LockInv)
<1>1. Init => TypeOK /\ LockInv
  BY Zenon, TypeInit, LockInit
<1>2. TypeOK /\ LockInv /\ [Next]_vars => (TypeOK /\ LockInv)'
  BY TypeNext, LockNext DEF LockInv
<1>. QED
  BY <1>1, <1>2, PTL DEF Spec

(* Every variable keeps its type: in particular no handler is given a      *)
(* message or a request of the wrong kind.                                 *)
THEOREM TypeCorrect == Spec => []TypeOK
  BY LockInvariant, PTL

(* The lock protocol of coordinator.rs and shard.rs: locks are taken on    *)
(* free shards, and TxExec and TxUnlock reach a shard while their own      *)
(* transaction holds it, with its context in place.                        *)
THEOREM LocksHeld == Spec => []LockDiscipline
<1>1. TypeOK /\ LockInv => LockDiscipline
  <2> SUFFICES ASSUME TypeOK, LockInv, NEW s \in Shards, mailbox[s] # <<>>
               PROVE  LET m == Head(mailbox[s])
                      IN  /\ m.type \in {"TxLock", "StoreValue"} => activeTx[s] = 0
                          /\ m.type \in {"TxExec", "TxUnlock"} => activeTx[s] = m.tx
                          /\ m.type = "TxExec" => \E c \in txCtx[s] : c.tx = m.tx
    BY DEF LockDiscipline
  <2>1. CoordInv /\ ShardInv(s)
    BY DEF LockInv
  <2>. QED
    BY Zenon, <2>1, FirstMessage
<1>. QED
  BY <1>1, LockInvariant, PTL

(* Nothing stays parked on a free shard, and no context outlives its       *)
(* transaction (`unlock_tx`).                                              *)
THEOREM QueuesDrained == Spec => []NothingStranded
<1>1. LockInv => NothingStranded
  BY DEF LockInv, ShardInv, ParkedInv, CtxInv, NothingStranded
<1>. QED
  BY <1>1, LockInvariant, PTL

(* An executor changes only the keys of its request that the shard owns.   *)
LEMMA AfterFrame ==
    ASSUME NEW r \in Reqs, NEW st \in [Keys -> Value], NEW s \in Shards, NEW k \in Keys,
           After(r, st, OwnedBy(s))[k] # st[k]
    PROVE  k \in OwnedKeys(r, s)
  BY Zenon, AfterOutside DEF OwnedKeys

(* While a transaction holds a shard, only its own executor changes the    *)
(* keys of that shard (shard.rs, the comment on `active_tx`).              *)
THEOREM HeldShardsIsolated == Spec => Isolation
<1> DEFINE Alone ==
        \A k \in Keys :
            (db'[k] # db[k] /\ activeTx[ShardOf[k]] # 0) =>
                /\ phase = "exec"
                /\ ShardOf[k] \in txAwait
                /\ activeTx[ShardOf[k]] = txCounter
                /\ k \in KeysOf(cur)
<1>1. ASSUME TypeOK, LockInv, [Next]_vars PROVE [Alone]_vars
  <2> SUFFICES ASSUME NEW k \in Keys, db'[k] # db[k], activeTx[ShardOf[k]] # 0
               PROVE  /\ phase = "exec"
                      /\ ShardOf[k] \in txAwait
                      /\ activeTx[ShardOf[k]] = txCounter
                      /\ k \in KeysOf(cur)
    OBVIOUS
  <2>1. PICK s \in Shards : ShardStep(s)
    <3>1. ~IoStep /\ ~UNCHANGED vars
      BY Zenon DEF IoStep, SendSingle, SendCoord, LocalWatch, SendWatchQuery, WatchReply, vars, dataVars
    <3>2. ~CoordStep
      BY Zenon DEF CoordStep, StartTx, AllLocked, AllExecuted, SendTxLock, SendTxExec, SendTxUnlock,
             FinishTx, SendStoreValue, UnlockStore, ReplyTx, dataVars
    <3>. QED
      BY Zenon, <1>1, <3>1, <3>2 DEF Next, AllServed
  <2>2. CoordInv /\ ShardInv(s)
    BY Zenon, <1>1 DEF LockInv
  <2>3. ASSUME NEW r \in Reqs, RunExec(r, s)
        PROVE  ShardOf[k] = s /\ k \in KeysOf(r)
    <3>1. db' = After(r, db, OwnedBy(s)) /\ db \in [Keys -> Value]
      BY Zenon, <1>1, <2>3 DEF RunExec, TypeOK
    <3>2. k \in OwnedKeys(r, s)
      BY Zenon, <3>1, AfterFrame
    <3>. QED
      BY Zenon, <3>2 DEF OwnedKeys, OwnedBy
  <2>4. CASE HandleSingle(s)
    <3> DEFINE r == Head(mailbox[s]).req
    <3>1. mailbox[s] # <<>> /\ Head(mailbox[s]).type = "Single" /\ activeTx[s] = 0 /\ RunExec(r, s)
      BY Zenon, <2>4 DEF HandleSingle, Receive, dataVars
    <3>2. Head(mailbox[s]) \in ShardMsg
      BY Zenon, <1>1, <3>1, TailFacts DEF TypeOK
    <3>3. r \in Reqs
      BY Zenon, <3>1, <3>2, MessageFields
    <3>. QED
      BY Zenon, <2>3, <3>1, <3>3
  <2>5. CASE DrainSingle(s)
    <3> DEFINE r == Head(pendingSingles[s])
    <3>1. s \in draining /\ pendingSingles[s] # <<>> /\ RunExec(r, s)
      BY Zenon, <2>5 DEF DrainSingle
    <3>2. r \in Reqs
      BY Zenon, <1>1, <3>1, TailFacts DEF TypeOK
    <3>. QED
      BY Zenon, <2>2, <2>3, <3>1, <3>2 DEF ShardInv, HolderInv
  <2>6. CASE HandleTxExec(s)
    <3>1. /\ mailbox[s] # <<>> /\ Head(mailbox[s]).type = "TxExec"
          /\ \E c \in txCtx[s] : c.tx = Head(mailbox[s]).tx /\ RunExec(c.req, s)
      BY Zenon, <2>6 DEF HandleTxExec, Receive, dataVars
    <3>2. /\ activeTx[s] = Head(mailbox[s]).tx /\ s \in txAwait
          /\ Head(mailbox[s]).tx = txCounter /\ phase = "exec"
      BY Zenon, <1>1, <2>2, <3>1, FirstMessage
    <3>3. PICK c \in txCtx[s] : RunExec(c.req, s)
      BY Zenon, <3>1
    <3>4. Held(s)
      BY Zenon, <2>2, <3>2 DEF Held, CoordInv
    <3>5. c.req = cur /\ c.req \in Reqs
      BY <1>1, <2>2, <3>4 DEF ShardInv, CtxInv, TypeOK, TxCtx
    <3>. QED
      BY Zenon, <2>3, <3>2, <3>3, <3>5
  <2>7. CASE HandleStoreValue(s)
    <3> DEFINE m == Head(mailbox[s])
    <3>1. mailbox[s] # <<>> /\ m.type = "StoreValue" /\ db' = [db EXCEPT ![m.key] = m.value]
      BY Zenon, <2>7 DEF HandleStoreValue, Receive
    <3>2. activeTx[s] = 0 /\ ShardOf[m.key] = s
      BY Zenon, <1>1, <2>2, <3>1, FirstMessage
    <3>3. k = m.key
      BY Zenon, <1>1, <3>1 DEF TypeOK
    <3>. QED
      BY Zenon, <3>2, <3>3
  <2>8. CASE HandleWatchQuery(s) \/ HandleTxLock(s) \/ HandleTxUnlock(s) \/ DrainWatch(s) \/ DrainDone(s)
    BY Zenon, <2>8 DEF HandleWatchQuery, HandleTxLock, HandleTxUnlock, DrainWatch, DrainDone,
                RunWatchQuery, dataVars
  <2>. QED
    BY Zenon, <2>1, <2>4, <2>5, <2>6, <2>7, <2>8 DEF ShardStep
<1>2. Isolation <=> [][Alone]_vars
  BY DEF Isolation
<1>. QED
  BY <1>1, <1>2, LockInvariant, PTL DEF Spec

----------------------------------------------------------------------------
(* A shard serves the IO thread in order *)

(* A watch query is taken from the channel and answered, or parked; no     *)
(* single is behind it.                                                    *)
LEMMA HandleWatchFifo ==
    ASSUME TypeOK, TypeOK', LockInv, FifoInv, NEW s \in Shards, HandleWatchQuery(s)
    PROVE  FifoInv'
<1> USE DEF ioVars, coordVars
<1>1. /\ \A t \in Shards : t # s => mailbox'[t] = mailbox[t]
      /\ MailFrom(s, 1)
      /\ 1 \in DOMAIN mailbox[s] /\ Head(mailbox[s]) = mailbox[s][1]
      /\ mailbox[s][1].type = "WatchQuery"
      /\ \A i \in DOMAIN mailbox[s] : i \in Nat /\ (i = 1 \/ i > 1)
  BY Zenon, TakenMail DEF HandleWatchQuery
<1>2. /\ UNCHANGED <<submitted, watching, watchLeft, coordQueue, cur, pendingSingles>>
      /\ s \notin draining
  BY DEF HandleWatchQuery, Receive
<1>3. SinglesInv(s) /\ WatchInv(s) /\ WaitInv(s) /\ ServedInv(s)
  BY Zenon DEF FifoInv, QueueInv
<1>4. /\ mailbox[s][1].req = watching /\ s \in watchAwait /\ pendingWatches[s] = <<>>
      /\ \A j \in DOMAIN mailbox[s] : mailbox[s][j].type # "Single"
      /\ \A j \in DOMAIN mailbox'[s] : mailbox'[s][j].type \notin DirectTypes
  <2>1. /\ mailbox[s][1].req = watching /\ s \in watchAwait /\ pendingWatches[s] = <<>>
        /\ \A j \in DOMAIN mailbox[s] : j > 1 => mailbox[s][j].type \notin DirectTypes
    BY Zenon, <1>1, <1>3 DEF WatchInv, IsMail, DirectTypes
  <2>2. \A j \in DOMAIN mailbox[s] : mailbox[s][j].type # "Single"
    BY Zenon, <1>1, <2>1 DEF DirectTypes
  <2>3. ASSUME NEW j \in DOMAIN mailbox'[s] PROVE mailbox'[s][j].type \notin DirectTypes
    <3>1. j \in Nat /\ j # 0
      <4>1. mailbox'[s] \in Seq(ShardMsg)
        BY Zenon DEF TypeOK
      <4>. QED
        BY <4>1
    <3>2. j + 1 > 1
      BY <3>1
    <3>. QED
      BY Zenon, <1>1, <2>1, <3>2 DEF MailFrom
  <2>. QED
    BY Zenon, <2>1, <2>2, <2>3
<1>5. /\ watching # NoReq /\ watching \in Reqs /\ watching \in Dispatched
      /\ Dispatched' = Dispatched /\ \A a, b : Before(a, b)' <=> Before(a, b)
  <2>1. watching # NoReq
    BY Zenon, <1>4 DEF FifoInv, SubmitInv
  <2>2. Len(submitted) \in DOMAIN submitted
    BY <2>1 DEF FifoInv, SubmitInv, TypeOK
  <2>. QED
    BY <1>2, <2>1, <2>2 DEF FifoInv, SubmitInv, Dispatched, Before, TypeOK
<1>6. SinglesInv(s)'
  <2>1. ParkFrom(s, 0)
    <3>1. DOMAIN pendingSingles'[s] \subseteq Nat
      BY Zenon, Positions
    <3>. QED
      BY <1>2, <3>1 DEF ParkFrom
  <2>. QED
    BY Zenon, <1>1, <1>3, <1>5, <2>1, SinglesShift DEF OrderKept
<1>7. StillWaits(s)
  BY Zenon, <1>2, <1>4 DEF StillWaits, WaitsOn, IsMail
<1>8. CASE activeTx[s] # 0
  <2>1. pendingWatches' = [pendingWatches EXCEPT ![s] = Append(@, watching)] /\ UNCHANGED <<ran, watchAwait>>
    BY Zenon, <1>1, <1>4, <1>8 DEF HandleWatchQuery, dataVars
  <2>2. pendingWatches'[s] = <<watching>> /\ \A t \in Shards : t # s => SameParked(t)
    <3>1. pendingWatches[s] = <<>> /\ pendingSingles' = pendingSingles /\ DOMAIN pendingWatches = Shards
      BY Zenon, <1>2, <1>4 DEF TypeOK
    <3>2. Append(<<>>, watching) = <<watching>>
      OBVIOUS
    <3>. QED
      BY Zenon, <2>1, <3>1, <3>2 DEF SameParked
  <2>3. WatchInv(s)'
    BY Zenon, <1>2, <1>4, <2>1, <2>2 DEF WatchInv, IsMail, DirectTypes
  <2>4. WaitInv(s)' /\ ServedInv(s)'
    BY Zenon, <1>2, <1>3, <1>5, <1>7, <2>1 DEF WaitInv, ServedInv, StillWaits, SingleOn, RanOn
  <2>5. \A t \in Shards : t # s => QueueInv(t)'
    BY Zenon, <1>1, <1>2, <1>5, <2>1, <2>2, RunElsewhere
  <2>6. SubmitInv'
    BY Zenon, <1>2, <1>5, <2>1, RunSubmits DEF FifoInv
  <2>. QED
    BY Zenon, <1>6, <2>3, <2>4, <2>5, <2>6 DEF FifoInv, QueueInv
<1>9. CASE activeTx[s] = 0
  <2>1. Report(watching, s) /\ watchAwait' = watchAwait \ {s} /\ UNCHANGED pendingWatches
    BY Zenon, <1>1, <1>4, <1>9 DEF HandleWatchQuery, RunWatchQuery
  <2>2. pendingSingles[s] = <<>>
    BY Zenon, <1>2, <1>9 DEF LockInv, ShardInv, ParkedInv
  <2>3. \A r \in Reqs : ~WaitsOn(r, s)
    BY <1>4, <2>2 DEF WaitsOn, IsMail
  <2>4. ServedInv(s)'
    BY Zenon, <1>2, <1>3, <1>5, <2>1, <2>3, LastWatch, RunServed
  <2>5. WaitInv(s)'
    BY Zenon, <1>2, <1>4, <1>5, <1>7, <2>1, WatchRunWaits
  <2>6. WatchInv(s)'
    BY Zenon, <1>4, <2>1 DEF WatchInv, IsMail, DirectTypes
  <2>7. \A t \in Shards : t # s => QueueInv(t)'
    BY Zenon, <1>1, <1>2, <1>5, <2>1, RunElsewhere DEF SameParked
  <2>8. SubmitInv'
    BY Zenon, <1>2, <1>5, <2>1, RunSubmits DEF FifoInv
  <2>. QED
    BY Zenon, <1>6, <2>4, <2>5, <2>6, <2>7, <2>8 DEF FifoInv, QueueInv
<1>. QED
  BY Zenon, <1>8, <1>9

(* A parked watch query is answered once no single is parked.              *)
LEMMA DrainWatchFifo ==
    ASSUME TypeOK, TypeOK', FifoInv, NEW s \in Shards, DrainWatch(s)
    PROVE  FifoInv'
<1> USE DEF ioVars, coordVars
<1>1. /\ UNCHANGED <<submitted, watching, watchLeft, coordQueue, cur, pendingSingles, mailbox>>
      /\ pendingSingles[s] = <<>> /\ pendingWatches[s] # <<>>
      /\ pendingWatches'[s] = Tail(pendingWatches[s])
      /\ \A t \in Shards : t # s => SameParked(t)
  BY DEF DrainWatch, SameParked, TypeOK
<1>2. SinglesInv(s) /\ WatchInv(s) /\ WaitInv(s) /\ ServedInv(s)
  BY Zenon DEF FifoInv, QueueInv
<1>3. /\ pendingWatches[s] = <<watching>> /\ s \in watchAwait
      /\ \A j \in DOMAIN mailbox[s] : mailbox[s][j].type \notin DirectTypes
  BY Zenon, <1>1, <1>2 DEF WatchInv, DirectTypes
<1>4. /\ watching # NoReq /\ watching \in Reqs /\ watching \in Dispatched
      /\ Dispatched' = Dispatched /\ \A a, b : Before(a, b)' <=> Before(a, b)
  <2>1. watching # NoReq
    BY Zenon, <1>3 DEF FifoInv, SubmitInv
  <2>2. Len(submitted) \in DOMAIN submitted
    BY <2>1 DEF FifoInv, SubmitInv, TypeOK
  <2>. QED
    BY <1>1, <2>1, <2>2 DEF FifoInv, SubmitInv, Dispatched, Before, TypeOK
<1>5. /\ Report(watching, s) /\ watchAwait' = watchAwait \ {s} /\ pendingWatches'[s] = <<>>
  BY <1>1, <1>3 DEF DrainWatch, RunWatchQuery
<1>6. \A r \in Reqs : ~WaitsOn(r, s)
  BY <1>1, <1>3 DEF WaitsOn, IsMail, DirectTypes
<1>7. ServedInv(s)'
  BY Zenon, <1>1, <1>2, <1>4, <1>5, <1>6, LastWatch, RunServed
<1>8. WaitInv(s)'
  BY Zenon, <1>1, <1>3, <1>4, <1>5, WatchRunWaits DEF StillWaits, WaitsOn, IsMail
<1>9. WatchInv(s)'
  BY Zenon, <1>1, <1>3, <1>5 DEF WatchInv, IsMail, DirectTypes
<1>10. SinglesInv(s)'
  BY Zenon, <1>1, <1>2, <1>4 DEF SinglesInv, SingleOn, IsMail
<1>11. \A t \in Shards : t # s => QueueInv(t)'
  BY Zenon, <1>1, <1>4, <1>5, RunElsewhere
<1>12. SubmitInv'
  BY Zenon, <1>1, <1>4, <1>5, RunSubmits DEF FifoInv
<1>. QED
  BY Zenon, <1>7, <1>8, <1>9, <1>10, <1>11, <1>12 DEF FifoInv, QueueInv

(* Every step keeps the order.                                             *)
LEMMA NextFifo ==
    ASSUME TypeOK, TypeOK', LockInv, FifoInv, [Next]_vars
    PROVE  FifoInv'
<1>1. CASE IoStep
  BY Zenon, <1>1, SingleFifo, DispatchFifo, QueryFifo, WatchReplyFifo DEF IoStep
<1>2. CASE CoordStep \/ UNCHANGED vars
  <2>1. \E s : s \in Shards
    <3>1. 0 \in Shards
      BY ShardAssumption DEF Shards
    <3>. QED
      BY <3>1
  <2>. QED
    BY <1>2, <2>1, CoordFifo
<1>3. ASSUME NEW s \in Shards, ShardStep(s) PROVE FifoInv'
  BY Zenon, <1>3, HandleSingleFifo, HandleWatchFifo, ExecFifo, CoordFifo, DrainSingleFifo, DrainWatchFifo
  DEF ShardStep
<1>. QED
  BY Zenon, <1>1, <1>2, <1>3 DEF Next, AllServed

LEMMA InitFifo == Init => FifoInv
<1> SUFFICES ASSUME Init PROVE FifoInv
  OBVIOUS
<1>1. DOMAIN submitted = {} /\ DOMAIN coordQueue = {} /\ Dispatched = {}
  BY DEF Init, Dispatched
<1>2. SubmitInv
  BY Zenon, <1>1 DEF Init, SubmitInv
<1>3. ASSUME NEW s \in Shards PROVE QueueInv(s)
  <2>1. DOMAIN mailbox[s] = {} /\ DOMAIN pendingSingles[s] = {} /\ pendingWatches[s] = <<>>
    BY DEF Init
  <2>. QED
    BY Zenon, <1>1, <2>1 DEF QueueInv, SinglesInv, WatchInv, WaitInv, ServedInv, SingleOn, Before
<1>. QED
  BY <1>2, <1>3 DEF FifoInv

(* What waits for shard s waits in the order it was sent, always.          *)
THEOREM FifoInvariant == Spec => []FifoInv
<1>1. TypeOK /\ TypeOK' /\ LockInv /\ FifoInv /\ [Next]_vars => FifoInv'
  BY Zenon, NextFifo
<1>. QED
  BY <1>1, InitFifo, LockInvariant, PTL DEF Spec

(* A shard serves the singles and the WATCH queries of the IO thread in    *)
(* the order it sent them, for every number of shards and every workload,  *)
(* although they are parked in two queues while a transaction holds the    *)
(* shard.                                                                  *)
THEOREM ServedInOrder == Spec => []ShardFifo
<1>1. TypeOK /\ FifoInv => ShardFifo
  <2> SUFFICES ASSUME TypeOK, FifoInv, NEW i \in DOMAIN submitted, NEW j \in DOMAIN submitted,
                      NEW s \in Shards, i < j, DirectTo(submitted[i], s), DirectTo(submitted[j], s),
                      RanOn(submitted[j], s)
               PROVE  RanOn(submitted[i], s)
    BY Zenon DEF ShardFifo, DirectTo
  <2>1. Before(submitted[i], submitted[j]) /\ submitted[i] \in Reqs /\ submitted[j] \in Reqs
    BY DEF Before, TypeOK
  <2>. QED
    BY Zenon, <2>1 DEF FifoInv, QueueInv, ServedInv
<1>. QED
  BY <1>1, FifoInvariant, TypeCorrect, PTL

(* A command sent to several shards is atomic, for every number of shards  *)
(* and every interleaving of the coordinator, the shards and the direct    *)
(* requests: its executors run shard after shard (`execute_tx`), yet there *)
(* is one instant at which it reads and changes all its keys, and no       *)
(* command is served twice.  The workload has no RENAME and no WATCH over  *)
(* two shards, whose parts the code does not keep together (LocalKeys).    *)
THEOREM CommandsAtomic == LocalKeys => (Spec => Serializable)
<1> SUFFICES ASSUME LocalKeys PROVE Spec => Serial!Spec
  BY DEF Serializable
<1>1. TypeOK /\ TypeOK' /\ LockInv /\ FifoInv /\ RunInv /\ [Next]_vars =>
          RunInv' /\ [Serial!Next]_(Serial!vars)
  BY Zenon, NextRun
<1>. QED
  BY <1>1, InitRun, FifoInvariant, LockInvariant, PTL DEF Spec, Serial!Spec
=============================================================================
