--------------------------- MODULE TxnOrderProofs ---------------------------
(***************************************************************************)
(* The order in which a shard serves the IO thread, one shard at a time:   *)
(* what the order of dispatch says, queues that only lose their front or   *)
(* grow at their end, the steps of the coordinator, dispatch by the IO     *)
(* thread, the executor of a transaction, and a single or a WATCH query    *)
(* taken from the channel or from the queue of the parked ones.            *)
(***************************************************************************)
EXTENDS TxnLockProofs

LEMMA DispatchedReqs ==
    ASSUME TypeOK
    PROVE  Dispatched \subseteq Reqs
<1>1. submitted \in Seq(Reqs)
  BY Zenon DEF TypeOK
<1>. QED
  BY <1>1 DEF Dispatched

(* What the order of dispatch says.                                        *)
LEMMA BeforeFacts ==
    ASSUME TypeOK, SubmitInv, NEW a, NEW b, Before(a, b)
    PROVE  /\ a \in Dispatched /\ b \in Dispatched /\ a # b /\ ~Before(b, a)
           /\ watching # NoReq => a # watching
<1>1. PICK i, j \in DOMAIN submitted : i < j /\ submitted[i] = a /\ submitted[j] = b
  BY DEF Before
<1>2. DOMAIN submitted = 1 .. Len(submitted) /\ Len(submitted) \in Nat
  BY DEF TypeOK
<1>3. a # b
  BY <1>1, <1>2 DEF SubmitInv
<1>4. ~Before(b, a)
  <2>1. ASSUME NEW k \in DOMAIN submitted, NEW l \in DOMAIN submitted, k < l, submitted[k] = b, submitted[l] = a
        PROVE  FALSE
    <3>1. k = j /\ l = i
      BY <1>1, <2>1 DEF SubmitInv
    <3>. QED
      BY <1>1, <1>2, <2>1, <3>1
  <2>. QED
    BY <2>1 DEF Before
<1>5. ASSUME watching # NoReq PROVE a # watching
  <2>1. Len(submitted) \in DOMAIN submitted /\ watching = submitted[Len(submitted)]
    BY <1>2, <1>5 DEF SubmitInv, TypeOK
  <2>2. i # Len(submitted)
    BY <1>1, <1>2
  <2>. QED
    BY <1>1, <2>1, <2>2 DEF SubmitInv
<1>. QED
  BY <1>1, <1>3, <1>4, <1>5 DEF Dispatched

(* The IO thread dispatches request r.                                     *)
LEMMA SubmitFacts ==
    ASSUME TypeOK, SubmitInv, NEW r \in Reqs, r \notin Dispatched, submitted' = Append(submitted, r)
    PROVE  /\ Dispatched' = Dispatched \cup {r}
           /\ \A a, b : Before(a, b)' <=> Before(a, b) \/ (a \in Dispatched /\ b = r)
           /\ \A i, j \in DOMAIN submitted' : submitted'[i] = submitted'[j] => i = j
           /\ submitted' # <<>> /\ submitted'[Len(submitted')] = r
<1> DEFINE n == Len(submitted)
<1>1. /\ n \in Nat /\ DOMAIN submitted = 1 .. n /\ DOMAIN submitted' = 1 .. n + 1
      /\ \A i \in 1 .. n : submitted'[i] = submitted[i]
      /\ submitted'[n + 1] = r /\ Len(submitted') = n + 1 /\ submitted' # <<>>
  <2>1. submitted \in Seq(Reqs) /\ n \in Nat /\ DOMAIN submitted = 1 .. n
    BY DEF TypeOK
  <2>2. /\ Len(submitted') = n + 1 /\ DOMAIN submitted' = 1 .. n + 1
        /\ \A i \in 1 .. n : submitted'[i] = submitted[i]
        /\ submitted'[n + 1] = r
    BY <2>1, AppendFacts
  <2>3. submitted' # <<>>
    BY <2>1
  <2>. QED
    BY <2>1, <2>2, <2>3
<1> HIDE DEF n
<1>2. \A i \in 1 .. n + 1 : i \in 1 .. n \/ i = n + 1
  BY <1>1
<1>3. \A i \in 1 .. n : submitted[i] \in Dispatched /\ submitted[i] # r
  BY <1>1 DEF Dispatched
<1>4. \A a \in Dispatched : \E i \in 1 .. n : submitted[i] = a
  BY <1>1 DEF Dispatched
<1>5. 1 .. n \subseteq 1 .. n + 1 /\ n + 1 \in 1 .. n + 1
  BY <1>1
<1>6. Dispatched' = Dispatched \cup {r}
  BY <1>1, <1>2, <1>5 DEF Dispatched
<1>7. ASSUME NEW a, NEW b PROVE Before(a, b)' <=> Before(a, b) \/ (a \in Dispatched /\ b = r)
  <2>1. ASSUME Before(a, b)' PROVE Before(a, b) \/ (a \in Dispatched /\ b = r)
    <3>1. PICK i, j \in 1 .. n + 1 : i < j /\ submitted'[i] = a /\ submitted'[j] = b
      BY <1>1, <2>1 DEF Before
    <3>2. i \in 1 .. n
      BY <1>1, <3>1
    <3>3. CASE j \in 1 .. n
      BY Zenon, <1>1, <3>1, <3>2, <3>3 DEF Before
    <3>4. CASE j = n + 1
      BY <1>1, <1>3, <3>1, <3>2, <3>4
    <3>. QED
      BY <1>2, <3>3, <3>4
  <2>2. ASSUME Before(a, b) PROVE Before(a, b)'
    <3>1. PICK i, j \in 1 .. n : i < j /\ submitted[i] = a /\ submitted[j] = b
      BY <1>1, <2>2 DEF Before
    <3>. QED
      BY <1>1, <1>5, <3>1 DEF Before
  <2>3. ASSUME a \in Dispatched, b = r PROVE Before(a, b)'
    <3>1. PICK i \in 1 .. n : submitted[i] = a
      BY <1>4, <2>3
    <3>2. i < n + 1
      BY <1>1
    <3>. QED
      BY <1>1, <1>5, <2>3, <3>1, <3>2 DEF Before
  <2>. QED
    BY <2>1, <2>2, <2>3
<1>8. \A i, j \in DOMAIN submitted' : submitted'[i] = submitted'[j] => i = j
  BY <1>1, <1>2, <1>3 DEF SubmitInv
<1>. QED
  BY <1>1, <1>6, <1>7, <1>8

(* A request runs on the keys of shard s and on no others.                 *)
LEMMA ReportRuns ==
    ASSUME TypeOK, NEW q \in Reqs, NEW s \in Shards, Report(q, s)
    PROVE  /\ RanOn(q, s)'
           /\ \A r \in Reqs, t \in Shards : r # q \/ t # s => (RanOn(r, t)' <=> RanOn(r, t))
           /\ \A r \in Reqs : r # q => ran'[r] = ran[r]
<1>1. ran'[q] = ran[q] \cup OwnedKeys(q, s) /\ \A r \in Reqs : r # q => ran'[r] = ran[r]
  BY DEF Report, TypeOK
<1>2. \A t \in Shards : t # s => OwnedKeys(q, t) \cap OwnedKeys(q, s) = {}
  BY DEF OwnedKeys, OwnedBy
<1>. QED
  BY <1>1, <1>2 DEF RanOn

(* A request that is sent to a shard has keys there.                       *)
LEMMA DirectKeys ==
    ASSUME NEW r \in Reqs, NEW s \in Shards, DirectTo(r, s)
    PROVE  OwnedKeys(r, s) # {}
<1>1. Kind(r) # "flush"
  BY DEF DirectTo, IsSingle
<1>2. PICK k \in KeysOf(r) : ShardOf[k] = s
  BY <1>1 DEF DirectTo, ShardsOf
<1>3. k \in Keys
  BY RequestTypes
<1>. QED
  BY <1>2, <1>3 DEF OwnedKeys, OwnedBy

----------------------------------------------------------------------------
(* A shard's queue after a step: what is still in it moved up by d places  *)
(* in the channel and by e among the parked singles.                       *)
DirectTypes == {"Single", "WatchQuery"}

MailFrom(t, d) ==
    \A j \in DOMAIN mailbox'[t] : mailbox'[t][j].type \in DirectTypes =>
        j + d \in DOMAIN mailbox[t] /\ mailbox'[t][j] = mailbox[t][j + d]

ParkFrom(t, e) ==
    \A j \in DOMAIN pendingSingles'[t] :
        j + e \in DOMAIN pendingSingles[t] /\ pendingSingles'[t][j] = pendingSingles[t][j + e]

OrderKept == (\A a, b : Before(a, b) => Before(a, b)') /\ Dispatched \subseteq Dispatched'

LEMMA Positions ==
    ASSUME TypeOK', NEW t \in Shards
    PROVE  DOMAIN mailbox'[t] \subseteq Nat /\ DOMAIN pendingSingles'[t] \subseteq Nat
<1>1. mailbox'[t] \in Seq(ShardMsg) /\ pendingSingles'[t] \in Seq(Reqs)
  BY Zenon DEF TypeOK
<1>. QED
  BY <1>1

LEMMA SinglesShift ==
    ASSUME TypeOK, TypeOK', NEW t \in Shards, NEW d \in {0, 1}, NEW e \in {0, 1},
           MailFrom(t, d), ParkFrom(t, e), OrderKept, SinglesInv(t)
    PROVE  SinglesInv(t)'
<1>1. DOMAIN mailbox'[t] \subseteq Nat /\ DOMAIN pendingSingles'[t] \subseteq Nat
  BY Positions
<1>2. \A r : SingleOn(r, t) => SingleOn(r, t)'
  BY DEF SingleOn, OrderKept
<1>3. ASSUME NEW i \in DOMAIN mailbox'[t], IsMail(t, i, "Single")'
      PROVE  /\ i + d \in DOMAIN mailbox[t] /\ mailbox'[t][i] = mailbox[t][i + d]
             /\ IsMail(t, i + d, "Single") /\ i \in Nat
  BY Zenon, <1>1, <1>3 DEF MailFrom, IsMail, DirectTypes
<1>4. ASSUME NEW i \in DOMAIN pendingSingles'[t]
      PROVE  /\ i + e \in DOMAIN pendingSingles[t] /\ i \in Nat
             /\ pendingSingles'[t][i] = pendingSingles[t][i + e]
  BY <1>1 DEF ParkFrom
<1>5. \A i, j \in Nat : i < j => i + d < j + d /\ i + e < j + e
  OBVIOUS
<1>6. \A i \in DOMAIN pendingSingles'[t] : SingleOn(pendingSingles[t][i], t)'
  BY Zenon, <1>2, <1>4 DEF SinglesInv
<1>7. \A i \in DOMAIN mailbox'[t] : IsMail(t, i, "Single")' => SingleOn(mailbox[t][i].req, t)'
  BY Zenon, <1>2, <1>3 DEF SinglesInv
<1>8. \A i, j \in DOMAIN pendingSingles'[t] :
         i < j => Before(pendingSingles[t][i], pendingSingles[t][j])'
  BY Zenon, <1>4, <1>5 DEF SinglesInv, OrderKept
<1>9. \A i \in DOMAIN pendingSingles'[t], j \in DOMAIN mailbox'[t] :
         IsMail(t, j, "Single")' => Before(pendingSingles[t][i], mailbox[t][j].req)'
  BY Zenon, <1>3, <1>4 DEF SinglesInv, OrderKept
<1>10. \A i, j \in DOMAIN mailbox'[t] :
         (i < j /\ IsMail(t, i, "Single")' /\ IsMail(t, j, "Single")') =>
             Before(mailbox[t][i].req, mailbox[t][j].req)'
  BY Zenon, <1>3, <1>5 DEF SinglesInv, OrderKept
<1>. QED
  BY <1>6, <1>7, <1>8, <1>9, <1>10 DEF SinglesInv

LEMMA WatchShift ==
    ASSUME TypeOK, TypeOK', NEW t \in Shards, NEW d \in {0, 1}, MailFrom(t, d), WatchInv(t),
           watching' = watching, t \in watchAwait => t \in watchAwait',
           pendingWatches'[t] = pendingWatches[t]
    PROVE  WatchInv(t)'
<1>1. DOMAIN mailbox'[t] \subseteq Nat
  BY Zenon, Positions
<1>2. ASSUME NEW i \in DOMAIN mailbox'[t], mailbox'[t][i].type \in DirectTypes
      PROVE  /\ i + d \in DOMAIN mailbox[t] /\ mailbox'[t][i] = mailbox[t][i + d] /\ i \in Nat
             /\ mailbox[t][i + d].type \in DirectTypes
  BY Zenon, <1>1, <1>2 DEF MailFrom
<1>3. \A i, j \in Nat : j > i => j + d > i + d
  OBVIOUS
<1>4. ASSUME NEW i \in DOMAIN mailbox'[t], mailbox'[t][i].type = "WatchQuery"
      PROVE  /\ mailbox'[t][i].req = watching /\ t \in watchAwait /\ pendingWatches[t] = <<>>
             /\ \A j \in DOMAIN mailbox'[t] : j > i => mailbox'[t][j].type \notin DirectTypes
  <2>1. /\ i + d \in DOMAIN mailbox[t] /\ mailbox'[t][i] = mailbox[t][i + d] /\ i \in Nat
        /\ mailbox[t][i + d].type = "WatchQuery"
    BY Zenon, <1>2, <1>4 DEF DirectTypes
  <2>2. /\ mailbox[t][i + d].req = watching /\ t \in watchAwait /\ pendingWatches[t] = <<>>
        /\ \A j \in DOMAIN mailbox[t] : j > i + d => mailbox[t][j].type \notin DirectTypes
    BY Zenon, <2>1 DEF WatchInv, IsMail, DirectTypes
  <2>. QED
    BY Zenon, <1>2, <1>3, <2>1, <2>2
<1>5. pendingWatches[t] # <<>> =>
          /\ pendingWatches[t] = <<watching>> /\ t \in watchAwait
          /\ \A j \in DOMAIN mailbox'[t] : mailbox'[t][j].type \notin DirectTypes
  BY Zenon, <1>2 DEF WatchInv, DirectTypes
<1>. QED
  BY <1>4, <1>5 DEF WatchInv, IsMail, DirectTypes

(* Without a WATCH that waits for shard t there is no query of one there.  *)
LEMMA NoWatch ==
    ASSUME NEW t \in Shards, WatchInv(t), t \notin watchAwait
    PROVE  /\ pendingWatches[t] = <<>>
           /\ \A i \in DOMAIN mailbox[t] : mailbox[t][i].type # "WatchQuery"
  BY DEF WatchInv, IsMail

(* Nothing direct left the queue of shard t.                               *)
StillWaits(t) == \A r : WaitsOn(r, t) => WaitsOn(r, t)'

MailKept(t) ==
    \A i \in DOMAIN mailbox[t] : mailbox[t][i].type = "Single" =>
        \E j \in DOMAIN mailbox'[t] : mailbox'[t][j] = mailbox[t][i]

LEMMA MailKeptWaits ==
    ASSUME NEW t \in Shards, MailKept(t), pendingSingles'[t] = pendingSingles[t]
    PROVE  StillWaits(t)
  BY DEF MailKept, StillWaits, WaitsOn, IsMail

(* No direct request ran on shard t.                                       *)
SameRuns(t) == \A r \in Reqs : DirectTo(r, t) => (RanOn(r, t)' <=> RanOn(r, t))

(* A step that neither dispatches nor runs a direct request of shard t.    *)
LEMMA QueueStays ==
    ASSUME TypeOK, TypeOK', NEW t \in Shards, QueueInv(t), NEW d \in {0, 1},
           MailFrom(t, d), MailKept(t), UNCHANGED <<submitted, watching>>,
           t \in watchLeft' <=> t \in watchLeft, t \in watchAwait' <=> t \in watchAwait,
           SameParked(t), SameRuns(t)
    PROVE  QueueInv(t)'
<1>1. Dispatched' = Dispatched /\ \A a, b : Before(a, b)' <=> Before(a, b)
  BY DEF Dispatched, Before
<1>2. SinglesInv(t)'
  <2>1. ParkFrom(t, 0)
    <3>1. DOMAIN pendingSingles'[t] \subseteq Nat
      BY Zenon, Positions
    <3>. QED
      BY <3>1 DEF ParkFrom, SameParked
  <2>. QED
    BY Zenon, <1>1, <2>1, SinglesShift DEF QueueInv, OrderKept
<1>3. WatchInv(t)'
  BY Zenon, WatchShift DEF QueueInv, SameParked
<1>4. StillWaits(t)
  BY Zenon, MailKeptWaits DEF SameParked
<1>5. WaitInv(t)'
  <2>1. ASSUME NEW r \in Reqs, SingleOn(r, t)', ~RanOn(r, t)' PROVE WaitsOn(r, t)'
    BY <1>1, <1>4, <2>1 DEF QueueInv, WaitInv, SingleOn, DirectTo, StillWaits, SameRuns
  <2>2. ASSUME NEW r \in Dispatched', Kind(r) = "watch", t \in ShardsOf(r), ~RanOn(r, t)'
        PROVE  r = watching' /\ t \in watchLeft' \cup watchAwait'
    <3>1. r \in Reqs
      BY <2>2 DEF Dispatched, TypeOK
    <3>. QED
      BY Zenon, <1>1, <2>2, <3>1 DEF QueueInv, WaitInv, DirectTo, SameRuns
  <2>. QED
    BY Zenon, <2>1, <2>2 DEF WaitInv
<1>6. ServedInv(t)'
  BY Zenon, <1>1 DEF QueueInv, ServedInv, SameRuns
<1>. QED
  BY Zenon, <1>2, <1>3, <1>5, <1>6 DEF QueueInv

----------------------------------------------------------------------------
(* Messages between other actors *)

(* What a shard's channel holds after a message is sent to it or taken     *)
(* from it.                                                                *)
LEMMA SameMail ==
    ASSUME TypeOK, NEW t \in Shards, mailbox'[t] = mailbox[t]
    PROVE  MailFrom(t, 0) /\ MailKept(t)
<1>1. DOMAIN mailbox[t] \subseteq Nat
  <2>1. mailbox[t] \in Seq(ShardMsg)
    BY Zenon DEF TypeOK
  <2>. QED
    BY <2>1
<1>. QED
  BY <1>1 DEF MailFrom, MailKept

LEMMA SentMail ==
    ASSUME TypeOK, NEW s \in Shards, NEW m \in ShardMsg, Send(s, m)
    PROVE  /\ \A t \in Shards : t # s => mailbox'[t] = mailbox[t]
           /\ Len(mailbox[s]) \in Nat
           /\ DOMAIN mailbox[s] = 1 .. Len(mailbox[s])
           /\ DOMAIN mailbox'[s] = 1 .. Len(mailbox[s]) + 1
           /\ \A i \in DOMAIN mailbox'[s] : i \in DOMAIN mailbox[s] \/ i = Len(mailbox[s]) + 1
           /\ \A i \in DOMAIN mailbox[s] : mailbox'[s][i] = mailbox[s][i]
           /\ mailbox'[s][Len(mailbox[s]) + 1] = m
           /\ MailKept(s)
           /\ m.type \in TxTypes => \A t \in Shards : MailFrom(t, 0) /\ MailKept(t)
<1>1. mailbox[s] \in Seq(ShardMsg) /\ mailbox'[s] = Append(mailbox[s], m)
  BY Zenon DEF Send, TypeOK
<1>2. \A t \in Shards : t # s => mailbox'[t] = mailbox[t]
  BY DEF Send, TypeOK
<1>3. /\ Len(mailbox[s]) \in Nat
      /\ DOMAIN mailbox[s] = 1 .. Len(mailbox[s])
      /\ DOMAIN mailbox'[s] = 1 .. Len(mailbox[s]) + 1
      /\ \A i \in DOMAIN mailbox[s] : mailbox'[s][i] = mailbox[s][i]
      /\ mailbox'[s][Len(mailbox[s]) + 1] = m
  BY <1>1, AppendFacts
<1>4. \A i \in DOMAIN mailbox'[s] : i \in DOMAIN mailbox[s] \/ i = Len(mailbox[s]) + 1
  BY <1>3
<1>5. DOMAIN mailbox[s] \subseteq DOMAIN mailbox'[s]
  BY <1>3
<1>6. MailKept(s)
  BY Zenon, <1>3, <1>5 DEF MailKept
<1>7. ASSUME m.type \in TxTypes PROVE MailFrom(s, 0)
  <2>1. \A i \in DOMAIN mailbox[s] : i + 0 = i
    BY <1>3
  <2>. QED
    BY Zenon, <1>3, <1>4, <1>7, <2>1 DEF MailFrom, DirectTypes, TxTypes
<1>. QED
  BY Zenon, <1>2, <1>3, <1>4, <1>6, <1>7, SameMail

LEMMA TakenMail ==
    ASSUME TypeOK, NEW s \in Shards, NEW type, Receive(s, type)
    PROVE  /\ \A t \in Shards : t # s => mailbox'[t] = mailbox[t]
           /\ MailFrom(s, 1)
           /\ 1 \in DOMAIN mailbox[s] /\ Head(mailbox[s]) = mailbox[s][1] /\ mailbox[s][1].type = type
           /\ \A i \in DOMAIN mailbox[s] : i = 1 \/ \E j \in DOMAIN mailbox'[s] : mailbox'[s][j] = mailbox[s][i]
           /\ \A i \in DOMAIN mailbox[s] : i \in Nat /\ (i = 1 \/ i > 1)
           /\ type \in TxTypes => \A t \in Shards : \E d \in {0, 1} : MailFrom(t, d) /\ MailKept(t)
<1>1. /\ mailbox[s] \in Seq(ShardMsg) /\ mailbox[s] # <<>> /\ mailbox'[s] = Tail(mailbox[s])
      /\ Head(mailbox[s]).type = type /\ Len(mailbox[s]) \in Nat
  BY DEF Receive, TypeOK
<1>2. \A t \in Shards : t # s => mailbox'[t] = mailbox[t]
  BY Zenon DEF Receive, TypeOK
<1>3. /\ DOMAIN mailbox[s] = 1 .. Len(mailbox[s]) /\ 1 \in DOMAIN mailbox[s]
      /\ Head(mailbox[s]) = mailbox[s][1]
      /\ DOMAIN mailbox'[s] = 1 .. Len(mailbox[s]) - 1
      /\ \A i \in 1 .. Len(mailbox[s]) - 1 :
            mailbox'[s][i] = mailbox[s][i + 1] /\ i + 1 \in DOMAIN mailbox[s]
  BY <1>1, TailFacts
<1>4. MailFrom(s, 1)
  BY Zenon, <1>3 DEF MailFrom
<1>5. ASSUME NEW i \in DOMAIN mailbox[s], i # 1
      PROVE  i > 1 /\ \E j \in DOMAIN mailbox'[s] : mailbox'[s][j] = mailbox[s][i]
  <2>1. i > 1 /\ i - 1 \in 1 .. Len(mailbox[s]) - 1 /\ (i - 1) + 1 = i
    BY <1>1, <1>3, <1>5
  <2>. QED
    BY Zenon, <1>3, <2>1
<1>6. type \in TxTypes => MailKept(s)
  BY Zenon, <1>1, <1>3, <1>5 DEF MailKept, TxTypes
<1>7. \A i \in DOMAIN mailbox[s] : i \in Nat
  BY <1>1, <1>3
<1>. QED
  BY Zenon, <1>1, <1>2, <1>3, <1>4, <1>5, <1>6, <1>7, SameMail

(* A step that neither dispatches nor runs a direct request.               *)
LEMMA QueuesStay ==
    ASSUME TypeOK, TypeOK', FifoInv,
           UNCHANGED <<submitted, watching, watchLeft, watchAwait, pendingSingles, pendingWatches>>,
           \A t \in Shards : SameRuns(t),
           \A t \in Shards : \E d \in {0, 1} : MailFrom(t, d) /\ MailKept(t)
    PROVE  \A t \in Shards : QueueInv(t)'
<1> SUFFICES ASSUME NEW t \in Shards PROVE QueueInv(t)'
  OBVIOUS
<1>1. PICK d \in {0, 1} : MailFrom(t, d) /\ MailKept(t)
  OBVIOUS
<1>. QED
  BY <1>1, QueueStays DEF FifoInv, SameParked

LEMMA SubmitStays ==
    ASSUME TypeOK, SubmitInv, UNCHANGED <<submitted, watching, watchLeft, watchAwait>>,
           \A r \in Reqs \ Dispatched : ran'[r] = ran[r],
           UNCHANGED <<coordQueue, cur>> \/ StartTx \/ ReplyTx
    PROVE  SubmitInv'
<1>1. Dispatched' = Dispatched
  BY DEF Dispatched
<1>2. \A r : ViaCoord(r)' <=> ViaCoord(r)
  BY Zenon, <1>1 DEF ViaCoord
<1>3. (\A i \in DOMAIN coordQueue' : ViaCoord(coordQueue'[i])) /\ (cur' # NoReq => ViaCoord(cur'))
  <2>1. CASE UNCHANGED <<coordQueue, cur>>
    BY <2>1 DEF SubmitInv
  <2>2. CASE StartTx
    <3>1. coordQueue \in Seq(Reqs) /\ coordQueue # <<>> /\ Len(coordQueue) \in Nat
      BY <2>2 DEF StartTx, TypeOK
    <3>2. /\ cur' = coordQueue[1] /\ 1 \in DOMAIN coordQueue
          /\ DOMAIN coordQueue' = 1 .. Len(coordQueue) - 1
          /\ \A i \in 1 .. Len(coordQueue) - 1 :
                coordQueue'[i] = coordQueue[i + 1] /\ i + 1 \in DOMAIN coordQueue
      BY Zenon, <2>2, <3>1, TailFacts DEF StartTx
    <3>. QED
      BY Zenon, <3>2 DEF SubmitInv
  <2>3. CASE ReplyTx
    BY Zenon, <2>3 DEF ReplyTx, SubmitInv
  <2>. QED
    BY Zenon, <2>1, <2>2, <2>3
<1>4. \A r \in Reqs \ Dispatched' : ran'[r] = {}
  BY Zenon, <1>1 DEF SubmitInv
<1>. QED
  BY <1>1, <1>2, <1>3, <1>4 DEF SubmitInv

(* The steps of the coordinator, and those of a shard that serve it.       *)
LEMMA CoordFifo ==
    ASSUME TypeOK, TypeOK', LockInv, FifoInv, NEW s \in Shards,
           \/ CoordStep \/ HandleTxLock(s) \/ HandleTxUnlock(s) \/ HandleStoreValue(s) \/ DrainDone(s)
           \/ UNCHANGED vars
    PROVE  FifoInv'
<1> USE DEF ioVars, coordVars, lockVars, pendVars, dataVars
<1>1. /\ UNCHANGED <<submitted, watching, watchLeft, watchAwait, pendingSingles, pendingWatches, ran>>
      /\ UNCHANGED <<coordQueue, cur>> \/ StartTx \/ ReplyTx
  <2>1. CASE CoordStep
    BY Zenon, <2>1
    DEF CoordStep, StartTx, AllLocked, AllExecuted, SendTxLock, SendTxExec, SendTxUnlock, FinishTx,
        SendStoreValue, UnlockStore, ReplyTx
  <2>2. CASE HandleTxLock(s) \/ HandleTxUnlock(s) \/ HandleStoreValue(s) \/ DrainDone(s)
    BY Zenon, <2>2 DEF HandleTxLock, HandleTxUnlock, HandleStoreValue, DrainDone
  <2>. QED
    BY Zenon, <2>1, <2>2 DEF vars
<1>2. \A t \in Shards : \E d \in {0, 1} : MailFrom(t, d) /\ MailKept(t)
  <2>1. CASE UNCHANGED mailbox
    BY Zenon, <2>1, SameMail
  <2>2. ASSUME NEW u \in Shards, NEW m \in ShardMsg, m.type \in TxTypes, Send(u, m)
        PROVE  \A t \in Shards : \E d \in {0, 1} : MailFrom(t, d) /\ MailKept(t)
    BY Zenon, <2>2, SentMail
  <2>3. CASE CoordStep
    BY Zenon, <2>1, <2>2, <2>3, CoordSends DEF LockInv
  <2>4. CASE HandleTxLock(s) \/ HandleTxUnlock(s) \/ HandleStoreValue(s)
    BY Zenon, <2>4, TakenMail DEF HandleTxLock, HandleTxUnlock, HandleStoreValue, TxTypes
  <2>. QED
    BY Zenon, <2>1, <2>3, <2>4 DEF DrainDone, vars
<1>3. \A t \in Shards : SameRuns(t)
  BY Zenon, <1>1 DEF SameRuns, RanOn
<1>. QED
  BY Zenon, <1>1, <1>2, <1>3, QueuesStay, SubmitStays DEF FifoInv

----------------------------------------------------------------------------
(* A WATCH query is sent and answered *)

(* The query of a WATCH goes behind all that is queued on the shard.       *)
LEMMA QueryFifo ==
    ASSUME TypeOK, TypeOK', FifoInv, NEW s \in Shards, SendWatchQuery(s)
    PROVE  FifoInv'
<1> USE DEF coordVars, pendVars, dataVars
<1> DEFINE m == [type |-> "WatchQuery", req |-> watching]
<1>1. /\ watching # NoReq /\ watchAwait = {} /\ s \in watchLeft /\ Send(s, m)
      /\ watchLeft' = watchLeft \ {s} /\ watchAwait' = {s}
      /\ UNCHANGED <<submitted, watching, ran, pendingSingles, pendingWatches, coordQueue, cur>>
  BY Zenon DEF SendWatchQuery, IsFirst
<1>2. m \in ShardMsg /\ m.type = "WatchQuery" /\ m.req = watching
  BY Zenon, <1>1 DEF ShardMsg, TypeOK
<1> HIDE DEF m
<1>3. Dispatched' = Dispatched /\ \A a, b : Before(a, b)' <=> Before(a, b)
  BY Zenon, <1>1 DEF Dispatched, Before
<1>4. SubmitInv'
  <2>1. \A r : ViaCoord(r)' <=> ViaCoord(r)
    BY Zenon, <1>3 DEF ViaCoord
  <2>. QED
    BY <1>1, <1>3, <2>1 DEF FifoInv, SubmitInv
<1>5. \A t \in Shards : SameRuns(t) /\ SameParked(t)
  BY <1>1 DEF SameRuns, RanOn, SameParked
<1>6. ASSUME NEW t \in Shards, t # s PROVE QueueInv(t)'
  <2>1. MailFrom(t, 0) /\ MailKept(t)
    BY Zenon, <1>1, <1>2, <1>6, SentMail, SameMail
  <2>2. (t \in watchLeft' <=> t \in watchLeft) /\ (t \in watchAwait' <=> t \in watchAwait)
    BY <1>1, <1>6
  <2>. QED
    BY Zenon, <1>1, <1>5, <2>1, <2>2, QueueStays DEF FifoInv
<1>7. QueueInv(s)'
  <2>1. /\ DOMAIN mailbox[s] = 1 .. Len(mailbox[s]) /\ Len(mailbox[s]) \in Nat
        /\ \A i \in DOMAIN mailbox'[s] : i \in DOMAIN mailbox[s] \/ i = Len(mailbox[s]) + 1
        /\ \A i \in DOMAIN mailbox[s] : mailbox'[s][i] = mailbox[s][i]
        /\ mailbox'[s][Len(mailbox[s]) + 1] = m
        /\ MailKept(s)
    BY Zenon, <1>1, <1>2, SentMail
  <2>2. /\ pendingWatches[s] = <<>>
        /\ \A i \in DOMAIN mailbox[s] : mailbox[s][i].type # "WatchQuery"
    BY Zenon, <1>1, NoWatch DEF FifoInv, QueueInv
  <2>3. \A i \in DOMAIN mailbox'[s] : mailbox'[s][i].type = "Single" =>
           i \in DOMAIN mailbox[s] /\ mailbox'[s][i] = mailbox[s][i]
    BY Zenon, <1>2, <2>1
  <2>4. SinglesInv(s)'
    <3>1. SinglesInv(s)
      BY DEF FifoInv, QueueInv
    <3>2. \A r : SingleOn(r, s)' <=> SingleOn(r, s)
      BY Zenon, <1>3 DEF SingleOn
    <3>3. /\ \A i \in DOMAIN pendingSingles'[s] : SingleOn(pendingSingles[s][i], s)'
          /\ \A i \in DOMAIN mailbox'[s] : IsMail(s, i, "Single")' => SingleOn(mailbox[s][i].req, s)'
      BY Zenon, <1>1, <2>3, <3>1, <3>2 DEF SinglesInv, IsMail
    <3>4. /\ \A i, j \in DOMAIN pendingSingles'[s] :
                i < j => Before(pendingSingles[s][i], pendingSingles[s][j])'
          /\ \A i \in DOMAIN pendingSingles'[s], j \in DOMAIN mailbox'[s] :
                IsMail(s, j, "Single")' => Before(pendingSingles[s][i], mailbox[s][j].req)'
      BY Zenon, <1>1, <1>3, <2>3, <3>1 DEF SinglesInv, IsMail
    <3>5. \A i, j \in DOMAIN mailbox'[s] :
             (i < j /\ IsMail(s, i, "Single")' /\ IsMail(s, j, "Single")') =>
                 Before(mailbox[s][i].req, mailbox[s][j].req)'
      BY Zenon, <1>3, <2>3, <3>1 DEF SinglesInv, IsMail
    <3>. QED
      BY Zenon, <3>3, <3>4, <3>5 DEF SinglesInv
  <2>5. WatchInv(s)'
    <3>1. ASSUME NEW i \in DOMAIN mailbox'[s], mailbox'[s][i].type = "WatchQuery"
          PROVE  mailbox'[s][i].req = watching /\ \A j \in DOMAIN mailbox'[s] : ~(j > i)
      <4>1. i = Len(mailbox[s]) + 1
        BY Zenon, <2>1, <2>2, <3>1
      <4>. QED
        BY <1>2, <2>1, <4>1
    <3>. QED
      BY Zenon, <1>1, <2>2, <3>1 DEF WatchInv, IsMail
  <2>6. WaitInv(s)'
    <3>1. StillWaits(s)
      BY Zenon, <1>1, <2>1, MailKeptWaits
    <3>2. \A r \in Reqs : SingleOn(r, s)' /\ ~RanOn(r, s)' => WaitsOn(r, s)'
      BY Zenon, <1>1, <1>3, <3>1 DEF FifoInv, QueueInv, WaitInv, StillWaits, SingleOn, RanOn
    <3>3. \A r \in Dispatched : Kind(r) = "watch" /\ s \in ShardsOf(r) /\ ~RanOn(r, s) => r = watching
      BY Zenon DEF FifoInv, QueueInv, WaitInv
    <3>. QED
      BY Zenon, <1>1, <1>3, <3>2, <3>3 DEF WaitInv, RanOn
  <2>7. ServedInv(s)'
    BY <1>3, <1>5 DEF FifoInv, QueueInv, ServedInv, SameRuns
  <2>. QED
    BY Zenon, <2>4, <2>5, <2>6, <2>7 DEF QueueInv
<1>. QED
  BY <1>4, <1>6, <1>7 DEF FifoInv

(* A WATCH is over when it has run on all its shards.                      *)
LEMMA WatchReplyFifo ==
    ASSUME TypeOK, TypeOK', FifoInv, WatchReply
    PROVE  FifoInv'
<1> USE DEF coordVars, pendVars, dataVars
<1>1. /\ watching # NoReq /\ watchLeft = {} /\ watchAwait = {} /\ watching' = NoReq
      /\ UNCHANGED <<mailbox, submitted, watchLeft, watchAwait, ran, pendingSingles, pendingWatches,
                     coordQueue, cur>>
  BY DEF WatchReply
<1>2. Dispatched' = Dispatched /\ \A a, b : Before(a, b)' <=> Before(a, b)
  BY Zenon, <1>1 DEF Dispatched, Before
<1>3. SubmitInv'
  <2>1. \A r : ViaCoord(r)' <=> ViaCoord(r)
    BY <1>2 DEF ViaCoord
  <2>. QED
    BY Zenon, <1>1, <1>2, <2>1 DEF FifoInv, SubmitInv
<1>4. ASSUME NEW t \in Shards PROVE QueueInv(t)'
  <2>1. QueueInv(t)
    BY Zenon DEF FifoInv
  <2>2. SinglesInv(t)'
    BY Zenon, <1>1, <1>2, <2>1 DEF QueueInv, SinglesInv, SingleOn, IsMail
  <2>3. WatchInv(t)'
    BY Zenon, <1>1, <2>1, NoWatch DEF QueueInv, WatchInv, IsMail
  <2>4. WaitInv(t)'
    BY Zenon, <1>1, <1>2, <2>1 DEF QueueInv, WaitInv, SingleOn, WaitsOn, IsMail, RanOn
  <2>5. ServedInv(t)'
    BY Zenon, <1>1, <1>2, <2>1 DEF QueueInv, ServedInv, RanOn
  <2>. QED
    BY <2>2, <2>3, <2>4, <2>5 DEF QueueInv
<1>. QED
  BY Zenon, <1>3, <1>4 DEF FifoInv

----------------------------------------------------------------------------
(* A shard *)

(* Direct request q runs on shard s, and whatever was dispatched to the    *)
(* shard before it has run there.                                          *)
LEMMA RunServed ==
    ASSUME TypeOK, NEW s \in Shards, NEW q \in Reqs, Report(q, s), UNCHANGED submitted,
           ServedInv(s), \A a \in Reqs : Before(a, q) /\ DirectTo(a, s) => RanOn(a, s)
    PROVE  ServedInv(s)'
<1>1. \A a, b : Before(a, b)' <=> Before(a, b)
  BY Zenon DEF Before
<1>2. \A r \in Reqs : RanOn(r, s)' <=> RanOn(r, s) \/ r = q
  BY Zenon, ReportRuns
<1>. QED
  BY <1>1, <1>2 DEF ServedInv

(* The other shards do not notice.                                         *)
LEMMA RunElsewhere ==
    ASSUME TypeOK, TypeOK', FifoInv, NEW s \in Shards, NEW t \in Shards, t # s,
           NEW q \in Reqs, Report(q, s) \/ UNCHANGED ran,
           UNCHANGED <<submitted, watching, watchLeft>>, watchAwait' \in {watchAwait, watchAwait \ {s}},
           SameParked(t), mailbox'[t] = mailbox[t]
    PROVE  QueueInv(t)'
<1>1. SameRuns(t)
  BY Zenon, ReportRuns DEF SameRuns, RanOn
<1>. QED
  BY Zenon, <1>1, SameMail, QueueStays DEF FifoInv

(* Requests run only once they are dispatched.                             *)
LEMMA RunSubmits ==
    ASSUME TypeOK, SubmitInv, NEW s \in Shards, NEW q \in Reqs, Report(q, s) \/ UNCHANGED ran,
           q \in Dispatched,
           UNCHANGED <<submitted, watching, watchLeft, coordQueue, cur>>, watchAwait' \subseteq watchAwait
    PROVE  SubmitInv'
<1>1. Dispatched' = Dispatched
  BY Zenon DEF Dispatched
<1>2. \A r : ViaCoord(r)' <=> ViaCoord(r)
  BY Zenon, <1>1 DEF ViaCoord
<1>3. \A r \in Reqs \ Dispatched : ran'[r] = ran[r]
  BY ReportRuns
<1>. QED
  BY Zenon, <1>1, <1>2, <1>3 DEF SubmitInv

(* What was dispatched before a single that is first in the queue has run. *)
LEMMA FirstSingle ==
    ASSUME TypeOK, FifoInv, NEW s \in Shards, NEW q \in Reqs,
           \A r \in Reqs : WaitsOn(r, s) => r = q \/ Before(q, r)
    PROVE  \A a \in Reqs : Before(a, q) /\ DirectTo(a, s) => RanOn(a, s)
<1> SUFFICES ASSUME NEW a \in Reqs, Before(a, q), DirectTo(a, s), ~RanOn(a, s) PROVE FALSE
  OBVIOUS
<1>1. /\ a \in Dispatched /\ a # q /\ ~Before(q, a)
      /\ watching # NoReq => a # watching
  BY BeforeFacts DEF FifoInv
<1>2. ~WaitsOn(a, s)
  BY Zenon, <1>1
<1>3. Kind(a) = "watch"
  BY Zenon, <1>1, <1>2 DEF FifoInv, QueueInv, WaitInv, SingleOn, DirectTo
<1>4. a = watching
  BY Zenon, <1>1, <1>3 DEF FifoInv, QueueInv, WaitInv, DirectTo
<1>. QED
  BY Zenon, <1>1, <1>4, NoReqAssumption

(* And before a WATCH that waits behind no single.                         *)
LEMMA LastWatch ==
    ASSUME TypeOK, FifoInv, NEW s \in Shards, watching # NoReq,
           \A r \in Reqs : ~WaitsOn(r, s)
    PROVE  \A a \in Reqs : Before(a, watching) /\ DirectTo(a, s) => RanOn(a, s)
<1> SUFFICES ASSUME NEW a \in Reqs, Before(a, watching), DirectTo(a, s), ~RanOn(a, s) PROVE FALSE
  OBVIOUS
<1>1. a \in Dispatched /\ a # watching
  BY Zenon, BeforeFacts DEF FifoInv
<1>2. Kind(a) = "watch"
  BY <1>1 DEF FifoInv, QueueInv, WaitInv, SingleOn, DirectTo
<1>. QED
  BY Zenon, <1>1, <1>2 DEF FifoInv, QueueInv, WaitInv, DirectTo

LEMMA WatchRunWaits ==
    ASSUME TypeOK, FifoInv, NEW s \in Shards, watching # NoReq, s \in watchAwait, Report(watching, s),
           UNCHANGED <<submitted, watching, watchLeft>>, watchAwait' = watchAwait \ {s}, StillWaits(s)
    PROVE  WaitInv(s)'
<1>1. Dispatched' = Dispatched /\ watching \in Reqs
  BY Zenon DEF Dispatched, TypeOK
<1>2. RanOn(watching, s)' /\ \A r \in Reqs : r # watching => (RanOn(r, s)' <=> RanOn(r, s))
  BY Zenon, <1>1, ReportRuns
<1>3. Dispatched \subseteq Reqs
  BY DEF Dispatched, TypeOK
<1>4. ASSUME NEW r \in Reqs, SingleOn(r, s)', ~RanOn(r, s)' PROVE WaitsOn(r, s)'
  <2>1. SingleOn(r, s) /\ ~RanOn(r, s)
    BY Zenon, <1>1, <1>2, <1>4 DEF SingleOn
  <2>. QED
    BY <2>1 DEF FifoInv, QueueInv, WaitInv, StillWaits
<1>5. ASSUME NEW r \in Dispatched, Kind(r) = "watch", s \in ShardsOf(r), ~RanOn(r, s)' PROVE FALSE
  BY Zenon, <1>2, <1>3, <1>5 DEF FifoInv, QueueInv, WaitInv
<1>. QED
  BY Zenon, <1>1, <1>4, <1>5 DEF WaitInv

(* A shard runs the transaction, which is no direct request.               *)
LEMMA ExecFifo ==
    ASSUME TypeOK, TypeOK', LockInv, FifoInv, NEW s \in Shards, HandleTxExec(s)
    PROVE  FifoInv'
<1> USE DEF ioVars, coordVars, pendVars, dataVars
<1>1. /\ UNCHANGED <<submitted, watching, watchLeft, watchAwait, pendingSingles, pendingWatches>>
      /\ UNCHANGED <<coordQueue, cur>>
      /\ Receive(s, "TxExec")
  BY DEF HandleTxExec
<1>2. \A t \in Shards : \E d \in {0, 1} : MailFrom(t, d) /\ MailKept(t)
  BY Zenon, <1>1, TakenMail DEF TxTypes
<1>3. phase = "exec" /\ s \in ShardsOf(cur) /\ cur \in Reqs /\ cur # NoReq
  <2>1. 1 \in DOMAIN mailbox[s] /\ mailbox[s][1].type = "TxExec"
    BY Zenon, <1>1, TakenMail
  <2>2. phase = "exec" /\ s \in txAwait
    BY Zenon, <2>1 DEF LockInv, ShardInv, MailInv
  <2>. QED
    BY Zenon, <2>2 DEF LockInv, CoordInv, TypeOK
<1>4. ran' = ran \/ Report(cur, s)
  <2>1. \A c \in txCtx[s] : c.req = cur
    BY Zenon, <1>3 DEF LockInv, ShardInv, CtxInv, Held
  <2>. QED
    BY Zenon, <2>1 DEF HandleTxExec, RunExec
<1>5. ViaCoord(cur)
  BY Zenon, <1>3 DEF FifoInv, SubmitInv
<1>6. \A r \in Reqs : r # cur => ran'[r] = ran[r]
  BY Zenon, <1>3, <1>4, ReportRuns
<1>7. \A t \in Shards : SameRuns(t)
  BY Zenon, <1>5, <1>6 DEF SameRuns, RanOn, DirectTo, ViaCoord
<1>8. \A r \in Reqs \ Dispatched : ran'[r] = ran[r]
  BY Zenon, <1>5, <1>6 DEF ViaCoord
<1>. QED
  BY Zenon, <1>1, <1>2, <1>7, <1>8, QueuesStay, SubmitStays DEF FifoInv

----------------------------------------------------------------------------
(* The IO thread *)

(* A request that is dispatched has not run anywhere.                      *)
LEMMA DispatchServed ==
    ASSUME TypeOK, SubmitInv, NEW t \in Shards, ServedInv(t), NEW r \in Reqs, r \notin Dispatched,
           submitted' = Append(submitted, r), UNCHANGED ran
    PROVE  ServedInv(t)' /\ (DirectTo(r, t) => ~RanOn(r, t))
<1>1. ASSUME DirectTo(r, t) PROVE ~RanOn(r, t)
  BY Zenon, <1>1, DirectKeys DEF SubmitInv, RanOn
<1>2. \A a, b : Before(a, b)' <=> Before(a, b) \/ (a \in Dispatched /\ b = r)
  BY Zenon, SubmitFacts
<1>3. \A a \in Reqs : RanOn(a, t)' <=> RanOn(a, t)
  BY Zenon DEF RanOn
<1>. QED
  BY Zenon, <1>1, <1>2, <1>3 DEF ServedInv

(* A request is dispatched that is no single of shard t: its queue stays   *)
(* as it is.                                                               *)
LEMMA DispatchElsewhere ==
    ASSUME TypeOK, TypeOK', SubmitInv, NEW t \in Shards, QueueInv(t), watching = NoReq,
           NEW r \in Reqs, r \notin Dispatched, submitted' = Append(submitted, r),
           UNCHANGED <<ran, watchAwait, pendingSingles, pendingWatches>>, mailbox'[t] = mailbox[t],
           ~SingleOn(r, t)',
           Kind(r) = "watch" => watching' = r /\ watchLeft' = ShardsOf(r)
    PROVE  QueueInv(t)'
<1>1. Dispatched' = Dispatched \cup {r} /\ OrderKept
  BY Zenon, SubmitFacts DEF OrderKept
<1>2. SinglesInv(t)'
  <2>1. MailFrom(t, 0)
    BY Zenon, SameMail
  <2>2. ParkFrom(t, 0)
    <3>1. DOMAIN pendingSingles'[t] \subseteq Nat
      BY Zenon, Positions
    <3>. QED
      BY <3>1 DEF ParkFrom
  <2>. QED
    BY Zenon, <1>1, <2>1, <2>2, SinglesShift DEF QueueInv
<1>3. WatchInv(t)'
  BY Zenon, NoWatch DEF QueueInv, SubmitInv, WatchInv, IsMail
<1>4. WaitInv(t)'
  <2>0. \A x \in Reqs : RanOn(x, t)' <=> RanOn(x, t)
    BY Zenon DEF RanOn
  <2>1. ASSUME NEW x \in Reqs, SingleOn(x, t)', ~RanOn(x, t)' PROVE WaitsOn(x, t)'
    <3>1. SingleOn(x, t) /\ ~RanOn(x, t)
      BY Zenon, <1>1, <2>0, <2>1 DEF SingleOn
    <3>2. WaitsOn(x, t)
      BY Zenon, <3>1 DEF QueueInv, WaitInv
    <3>. QED
      BY Zenon, <3>2 DEF WaitsOn, IsMail
  <2>2. ASSUME NEW x \in Dispatched', Kind(x) = "watch", t \in ShardsOf(x), ~RanOn(x, t)'
        PROVE  x = watching' /\ t \in watchLeft' \cup watchAwait'
    <3>1. CASE x = r
      BY Zenon, <2>2, <3>1
    <3>2. CASE x \in Dispatched
      <4>1. x \in Reqs /\ x # NoReq
        BY Zenon, <3>2, NoReqAssumption, DispatchedReqs
      <4>. QED
        BY Zenon, <2>0, <2>2, <3>2, <4>1 DEF QueueInv, WaitInv
    <3>. QED
      BY Zenon, <1>1, <3>1, <3>2
  <2>. QED
    BY Zenon, <2>1, <2>2 DEF WaitInv
<1>5. ServedInv(t)'
  BY Zenon, DispatchServed DEF QueueInv
<1>. QED
  BY Zenon, <1>2, <1>3, <1>4, <1>5 DEF QueueInv

(* What a dispatch leaves of SubmitInv.                                    *)
LEMMA DispatchSubmits ==
    ASSUME TypeOK, SubmitInv, watching = NoReq, NEW r \in Reqs, r \notin Dispatched,
           submitted' = Append(submitted, r), UNCHANGED <<ran, watchAwait, cur>>,
           \/ UNCHANGED <<coordQueue, watching, watchLeft>>
           \/ /\ coordQueue' = Append(coordQueue, r) /\ ~IsSingle(r) /\ Kind(r) # "watch"
              /\ UNCHANGED <<watching, watchLeft>>
           \/ watching' = r /\ Kind(r) = "watch" /\ UNCHANGED coordQueue
    PROVE  SubmitInv'
<1>1. /\ Dispatched' = Dispatched \cup {r}
      /\ \A i, j \in DOMAIN submitted' : submitted'[i] = submitted'[j] => i = j
      /\ submitted' # <<>> /\ submitted'[Len(submitted')] = r
  BY Zenon, SubmitFacts
<1>2. \A x : ViaCoord(x) => ViaCoord(x)'
  BY Zenon, <1>1 DEF ViaCoord
<1>3. \A i \in DOMAIN coordQueue' : ViaCoord(coordQueue[i])'
  <2>1. CASE UNCHANGED coordQueue
    BY Zenon, <1>2, <2>1 DEF SubmitInv
  <2>2. CASE coordQueue' = Append(coordQueue, r) /\ ~IsSingle(r) /\ Kind(r) # "watch"
    <3>1. ViaCoord(r)'
      BY Zenon, <1>1, <2>2 DEF ViaCoord
    <3>2. coordQueue \in Seq(Reqs)
      BY Zenon DEF TypeOK
    <3>3. \A i \in DOMAIN coordQueue' :
             (i \in DOMAIN coordQueue /\ coordQueue'[i] = coordQueue[i]) \/ coordQueue'[i] = r
      BY <2>2, <3>2
    <3>. QED
      BY Zenon, <1>2, <3>1, <3>3 DEF SubmitInv
  <2>. QED
    BY Zenon, <2>1, <2>2
<1>4. \A x \in Reqs \ Dispatched' : ran'[x] = {}
  BY Zenon, <1>1 DEF SubmitInv
<1>5. watching' # NoReq => watching' = r /\ Kind(r) = "watch"
  BY Zenon DEF SubmitInv
<1>6. watchAwait = {} /\ watchLeft = {}
  BY Zenon DEF SubmitInv
<1>7. cur # NoReq => ViaCoord(cur)'
  BY Zenon, <1>2 DEF SubmitInv
<1>8. watching' = NoReq => watchLeft' = {} /\ watchAwait' = {}
  BY Zenon, <1>6, NoReqAssumption
<1>. QED
  BY Zenon, <1>1, <1>3, <1>4, <1>5, <1>6, <1>7, <1>8 DEF SubmitInv

LEMMA DispatchFifo ==
    ASSUME TypeOK, TypeOK', FifoInv, NEW r \in Reqs, SendCoord(r) \/ LocalWatch(r)
    PROVE  FifoInv'
<1> USE DEF coordVars, pendVars, dataVars
<1>1. /\ watching = NoReq /\ r \notin Dispatched /\ submitted' = Append(submitted, r)
      /\ UNCHANGED <<ran, watchAwait, pendingSingles, pendingWatches, mailbox, cur>>
      /\ ~IsSingle(r)
  BY Zenon DEF SendCoord, LocalWatch, IoFree, IsSingle
<1>2. Kind(r) = "watch" => watching' = r /\ watchLeft' = ShardsOf(r)
  BY Zenon DEF SendCoord, LocalWatch
<1>3. SubmitInv'
  BY Zenon, <1>1, DispatchSubmits DEF SendCoord, LocalWatch, FifoInv
<1>4. \A t \in Shards : ~SingleOn(r, t)'
  BY Zenon, <1>1 DEF SingleOn
<1>. QED
  BY Zenon, <1>1, <1>2, <1>3, <1>4, DispatchElsewhere DEF FifoInv

(* A single is dispatched behind all that is queued on its shard.          *)
LEMMA SingleFifo ==
    ASSUME TypeOK, TypeOK', FifoInv, NEW r \in Reqs, SendSingle(r)
    PROVE  FifoInv'
<1> USE DEF coordVars, pendVars, dataVars
<1> DEFINE m == [type |-> "Single", req |-> r]
<1>1. /\ watching = NoReq /\ r \notin Dispatched /\ submitted' = Append(submitted, r)
      /\ UNCHANGED <<ran, watchAwait, pendingSingles, pendingWatches, coordQueue, cur, watching, watchLeft>>
      /\ IsSingle(r) /\ Kind(r) # "watch"
  BY Zenon DEF SendSingle, IoFree, IsSingle
<1>2. PICK s \in ShardsOf(r) : Send(s, m)
  BY Zenon DEF SendSingle
<1>3. s \in Shards /\ m \in ShardMsg /\ m.type = "Single" /\ m.req = r
  BY Zenon, RequestTypes DEF ShardMsg
<1> HIDE DEF m
<1>4. SubmitInv'
  BY Zenon, <1>1, DispatchSubmits DEF FifoInv
<1>5. ASSUME NEW t \in Shards, t # s PROVE QueueInv(t)'
  <2>1. t \notin ShardsOf(r)
    BY Zenon, <1>1, <1>2, <1>5 DEF IsSingle
  <2>2. ~SingleOn(r, t)' /\ mailbox'[t] = mailbox[t]
    BY Zenon, <1>2, <1>3, <1>5, <2>1, SentMail DEF SingleOn
  <2>. QED
    BY Zenon, <1>1, <2>2, DispatchElsewhere DEF FifoInv
<1>6. QueueInv(s)'
  <2>1. /\ DOMAIN mailbox[s] = 1 .. Len(mailbox[s]) /\ Len(mailbox[s]) \in Nat
        /\ DOMAIN mailbox'[s] = 1 .. Len(mailbox[s]) + 1
        /\ \A i \in DOMAIN mailbox'[s] : i \in DOMAIN mailbox[s] \/ i = Len(mailbox[s]) + 1
        /\ \A i \in DOMAIN mailbox[s] : mailbox'[s][i] = mailbox[s][i]
        /\ mailbox'[s][Len(mailbox[s]) + 1] = m
        /\ MailKept(s)
    BY Zenon, <1>2, <1>3, SentMail
  <2>2. /\ Dispatched' = Dispatched \cup {r}
        /\ \A a, b : Before(a, b)' <=> Before(a, b) \/ (a \in Dispatched /\ b = r)
    BY Zenon, <1>1, SubmitFacts DEF FifoInv
  <2>3. \A x : SingleOn(x, s)' <=> SingleOn(x, s) \/ x = r
    BY Zenon, <1>1, <1>2, <2>2 DEF SingleOn
  <2>4. \A x : SingleOn(x, s) => x \in Dispatched
    BY DEF SingleOn
  <2>5. SinglesInv(s)
    BY Zenon, <1>3 DEF FifoInv, QueueInv
  <2>6. SinglesInv(s)'
    <3>1. \A i \in DOMAIN pendingSingles[s] : SingleOn(pendingSingles[s][i], s)'
      BY Zenon, <1>1, <2>3, <2>5 DEF SinglesInv
    <3>2. \A i \in DOMAIN mailbox'[s] : IsMail(s, i, "Single")' => SingleOn(mailbox[s][i].req, s)'
      BY Zenon, <1>3, <2>1, <2>3, <2>5 DEF SinglesInv, IsMail
    <3>3. \A i, j \in DOMAIN pendingSingles[s] :
             i < j => Before(pendingSingles[s][i], pendingSingles[s][j])'
      BY Zenon, <1>1, <2>2, <2>5 DEF SinglesInv
    <3>4. \A i \in DOMAIN pendingSingles[s], j \in DOMAIN mailbox'[s] :
             IsMail(s, j, "Single")' => Before(pendingSingles[s][i], mailbox[s][j].req)'
      BY Zenon, <1>1, <1>3, <2>1, <2>2, <2>4, <2>5 DEF SinglesInv, IsMail
    <3>5. ASSUME NEW i \in DOMAIN mailbox'[s], NEW j \in DOMAIN mailbox'[s], i < j,
                 IsMail(s, i, "Single")', IsMail(s, j, "Single")'
          PROVE  Before(mailbox[s][i].req, mailbox[s][j].req)'
      <4>1. i \in DOMAIN mailbox[s] /\ mailbox'[s][i] = mailbox[s][i]
        BY <2>1, <3>5
      <4>2. SingleOn(mailbox[s][i].req, s)
        BY Zenon, <2>5, <3>5, <4>1 DEF SinglesInv, IsMail
      <4>3. CASE j \in DOMAIN mailbox[s]
        BY Zenon, <2>1, <2>2, <2>5, <3>5, <4>1, <4>3 DEF SinglesInv, IsMail
      <4>4. CASE j = Len(mailbox[s]) + 1
        BY Zenon, <1>3, <2>1, <2>2, <2>4, <4>1, <4>2, <4>4
      <4>. QED
        BY Zenon, <2>1, <4>3, <4>4
    <3>. QED
      BY Zenon, <1>1, <3>1, <3>2, <3>3, <3>4, <3>5 DEF SinglesInv
  <2>7. WatchInv(s)'
    <3>1. s \notin watchAwait
      BY Zenon, <1>1 DEF FifoInv, SubmitInv
    <3>2. /\ pendingWatches[s] = <<>>
          /\ \A i \in DOMAIN mailbox[s] : mailbox[s][i].type # "WatchQuery"
      BY Zenon, <1>3, <3>1, NoWatch DEF FifoInv, QueueInv
    <3>3. \A i \in DOMAIN mailbox'[s] : mailbox'[s][i].type # "WatchQuery"
      BY Zenon, <1>3, <2>1, <3>2
    <3>. QED
      BY Zenon, <1>1, <3>2, <3>3 DEF WatchInv, IsMail
  <2>8. WaitInv(s)'
    <3>0. \A x \in Reqs : RanOn(x, s)' <=> RanOn(x, s)
      BY <1>1 DEF RanOn
    <3>1. WaitsOn(r, s)'
      <4>1. Len(mailbox[s]) + 1 \in DOMAIN mailbox'[s]
        BY <2>1
      <4>. QED
        BY Zenon, <1>3, <2>1, <4>1 DEF WaitsOn, IsMail
    <3>2. StillWaits(s)
      BY Zenon, <1>1, <1>3, <2>1, MailKeptWaits
    <3>3. \A x \in Reqs : SingleOn(x, s)' /\ ~RanOn(x, s)' => WaitsOn(x, s)'
      BY Zenon, <1>3, <2>3, <3>0, <3>1, <3>2 DEF FifoInv, QueueInv, WaitInv, StillWaits
    <3>4. ASSUME NEW x \in Dispatched', Kind(x) = "watch", s \in ShardsOf(x), ~RanOn(x, s)'
          PROVE  x = watching' /\ s \in watchLeft' \cup watchAwait'
      <4>1. x \in Dispatched /\ x \in Reqs
        BY Zenon, <1>1, <2>2, <3>4, DispatchedReqs DEF Dispatched
      <4>. QED
        BY Zenon, <1>1, <1>3, <3>0, <3>4, <4>1 DEF FifoInv, QueueInv, WaitInv
    <3>. QED
      BY Zenon, <3>3, <3>4 DEF WaitInv
  <2>9. ServedInv(s)'
    BY Zenon, <1>1, <1>3, DispatchServed DEF FifoInv, QueueInv
  <2>. QED
    BY Zenon, <2>6, <2>7, <2>8, <2>9 DEF QueueInv
<1>. QED
  BY Zenon, <1>4, <1>5, <1>6 DEF FifoInv

----------------------------------------------------------------------------
(* The shard runs or parks a single *)

(* A single is taken from the channel and runs, or is parked behind those  *)
(* that are parked already.                                                *)
LEMMA HandleSingleFifo ==
    ASSUME TypeOK, TypeOK', LockInv, FifoInv, NEW s \in Shards, HandleSingle(s)
    PROVE  FifoInv'
<1> USE DEF ioVars, coordVars
<1> DEFINE q == mailbox[s][1].req
<1>1. /\ \A t \in Shards : t # s => mailbox'[t] = mailbox[t]
      /\ MailFrom(s, 1)
      /\ 1 \in DOMAIN mailbox[s] /\ Head(mailbox[s]) = mailbox[s][1] /\ mailbox[s][1].type = "Single"
      /\ \A i \in DOMAIN mailbox[s] : i = 1 \/ \E j \in DOMAIN mailbox'[s] : mailbox'[s][j] = mailbox[s][i]
      /\ \A i \in DOMAIN mailbox[s] : i \in Nat /\ (i = 1 \/ i > 1)
  BY Zenon, TakenMail DEF HandleSingle
<1>2. /\ UNCHANGED <<submitted, watching, watchLeft, watchAwait, coordQueue, cur, pendingWatches>>
      /\ s \notin draining
  BY Zenon DEF HandleSingle, Receive
<1>3. SinglesInv(s) /\ WatchInv(s) /\ WaitInv(s) /\ ServedInv(s)
  BY DEF FifoInv, QueueInv
<1>4. SingleOn(q, s) /\ q \in Reqs /\ q \in Dispatched
  <2>1. SingleOn(q, s)
    BY Zenon, <1>1, <1>3 DEF SinglesInv, IsMail
  <2>2. Dispatched \subseteq Reqs
    BY Zenon, DispatchedReqs
  <2>. QED
    BY Zenon, <2>1, <2>2 DEF SingleOn
<1>5. ASSUME NEW i \in DOMAIN mailbox[s], i # 1, mailbox[s][i].type = "Single"
      PROVE  Before(q, mailbox[s][i].req)
  BY Zenon, <1>1, <1>3, <1>5 DEF SinglesInv, IsMail
<1> HIDE DEF q
<1>6. WatchInv(s)'
  BY Zenon, <1>1, <1>2, <1>3, WatchShift
<1>7. Dispatched' = Dispatched /\ \A a, b : Before(a, b)' <=> Before(a, b)
  BY <1>2 DEF Dispatched, Before
<1>8. CASE activeTx[s] # 0
  <2>1. pendingSingles' = [pendingSingles EXCEPT ![s] = Append(@, q)] /\ UNCHANGED ran
    BY Zenon, <1>1, <1>8 DEF HandleSingle, dataVars, q
  <2> DEFINE n == Len(pendingSingles[s])
  <2>2. /\ n \in Nat /\ DOMAIN pendingSingles[s] = 1 .. n
        /\ DOMAIN pendingSingles'[s] = 1 .. n + 1
        /\ \A i \in 1 .. n : pendingSingles'[s][i] = pendingSingles[s][i]
        /\ pendingSingles'[s][n + 1] = q
    <3>1. pendingSingles[s] \in Seq(Reqs) /\ pendingSingles'[s] = Append(pendingSingles[s], q)
      BY Zenon, <2>1 DEF TypeOK
    <3>. QED
      BY <1>4, <3>1, AppendFacts
  <2> HIDE DEF n
  <2>3. \A t \in Shards : t # s => SameParked(t)
    BY Zenon, <1>2, <2>1 DEF SameParked, TypeOK
  <2>4. \A i \in DOMAIN pendingSingles'[s] : i \in 1 .. n \/ i = n + 1
    BY <2>2
  <2>5. ASSUME NEW j \in DOMAIN mailbox'[s], IsMail(s, j, "Single")'
        PROVE  /\ j + 1 \in DOMAIN mailbox[s] /\ mailbox'[s][j] = mailbox[s][j + 1] /\ j \in Nat
               /\ mailbox[s][j + 1].type = "Single" /\ j + 1 # 1
    <3>1. j \in Nat /\ j + 1 \in DOMAIN mailbox[s] /\ mailbox'[s][j] = mailbox[s][j + 1]
      BY Zenon, <1>1, <2>5, Positions DEF MailFrom, DirectTypes, IsMail
    <3>2. j # 0
      <4>1. mailbox'[s] \in Seq(ShardMsg)
        BY Zenon DEF TypeOK
      <4>. QED
        BY <2>5, <4>1
    <3>. QED
      BY <2>5, <3>1, <3>2 DEF IsMail
  <2>6. SinglesInv(s)'
    <3>1. \A i \in DOMAIN pendingSingles'[s] : SingleOn(pendingSingles[s][i], s)'
      BY Zenon, <1>3, <1>4, <1>7, <2>2, <2>4 DEF SinglesInv, SingleOn
    <3>2. \A i \in DOMAIN mailbox'[s] : IsMail(s, i, "Single")' => SingleOn(mailbox[s][i].req, s)'
      BY Zenon, <1>3, <1>7, <2>5 DEF SinglesInv, SingleOn, IsMail
    <3>3. \A i, j \in DOMAIN pendingSingles'[s] :
             i < j => Before(pendingSingles[s][i], pendingSingles[s][j])'
      <4>1. ASSUME NEW i \in DOMAIN pendingSingles'[s], NEW j \in DOMAIN pendingSingles'[s], i < j
            PROVE  Before(pendingSingles'[s][i], pendingSingles'[s][j])
        <5>1. i \in 1 .. n
          BY <2>2, <2>4, <4>1
        <5>2. CASE j \in 1 .. n
          BY Zenon, <1>3, <2>2, <4>1, <5>1, <5>2 DEF SinglesInv
        <5>3. CASE j = n + 1
          BY Zenon, <1>1, <1>3, <2>2, <5>1, <5>3 DEF SinglesInv, IsMail, q
        <5>. QED
          BY Zenon, <2>4, <5>2, <5>3
      <4>. QED
        BY Zenon, <1>7, <4>1
    <3>4. \A i \in DOMAIN pendingSingles'[s], j \in DOMAIN mailbox'[s] :
             IsMail(s, j, "Single")' => Before(pendingSingles[s][i], mailbox[s][j].req)'
      <4>1. ASSUME NEW i \in DOMAIN pendingSingles'[s], NEW j \in DOMAIN mailbox'[s],
                   IsMail(s, j, "Single")'
            PROVE  Before(pendingSingles'[s][i], mailbox'[s][j].req)
        <5>1. CASE i \in 1 .. n
          BY Zenon, <1>3, <2>2, <2>5, <4>1, <5>1 DEF SinglesInv, IsMail
        <5>2. CASE i = n + 1
          BY Zenon, <1>5, <2>2, <2>5, <4>1, <5>2
        <5>. QED
          BY Zenon, <2>4, <5>1, <5>2
      <4>. QED
        BY Zenon, <1>7, <4>1
    <3>5. \A i, j \in DOMAIN mailbox'[s] :
             (i < j /\ IsMail(s, i, "Single")' /\ IsMail(s, j, "Single")') =>
                 Before(mailbox[s][i].req, mailbox[s][j].req)'
      <4>1. \A i, j \in Nat : i < j => i + 1 < j + 1
        OBVIOUS
      <4>. QED
        BY Zenon, <1>3, <1>7, <2>5, <4>1 DEF SinglesInv, IsMail
    <3>. QED
      BY Zenon, <3>1, <3>2, <3>3, <3>4, <3>5 DEF SinglesInv
  <2>7. StillWaits(s)
    <3>1. 1 .. n \subseteq 1 .. n + 1 /\ n + 1 \in 1 .. n + 1
      BY <2>2
    <3>2. ASSUME NEW i \in DOMAIN pendingSingles[s]
          PROVE  \E r : r = pendingSingles[s][i] /\ WaitsOn(r, s)'
      <4>1. i \in DOMAIN pendingSingles'[s] /\ pendingSingles'[s][i] = pendingSingles[s][i]
        BY Zenon, <2>2, <3>1
      <4>. QED
        BY Zenon, <4>1 DEF WaitsOn
    <3>3. ASSUME NEW i \in DOMAIN mailbox[s], mailbox[s][i].type = "Single"
          PROVE  \E r : r = mailbox[s][i].req /\ WaitsOn(r, s)'
      <4>1. CASE i = 1
        BY Zenon, <2>2, <3>1, <4>1 DEF WaitsOn, q
      <4>2. CASE i # 1
        BY <1>1, <3>3, <4>2 DEF WaitsOn, IsMail
      <4>. QED
        BY Zenon, <4>1, <4>2
    <3>. QED
      <4> SUFFICES ASSUME NEW r, WaitsOn(r, s)
                   PROVE  WaitsOn(r, s)'
        BY Zenon DEF StillWaits
      <4>1. \/ \E i \in DOMAIN pendingSingles[s] : pendingSingles[s][i] = r
            \/ \E i \in DOMAIN mailbox[s] : mailbox[s][i].type = "Single" /\ mailbox[s][i].req = r
        BY Zenon DEF WaitsOn, IsMail
      <4>. QED
        BY Zenon, <3>2, <3>3, <4>1
  <2>8. WaitInv(s)' /\ ServedInv(s)'
    BY Zenon, <1>2, <1>3, <1>7, <2>1, <2>7 DEF WaitInv, ServedInv, StillWaits, SingleOn, RanOn
  <2>9. \A t \in Shards : t # s => QueueInv(t)'
    BY Zenon, <1>1, <1>2, <1>4, <2>1, <2>3, RunElsewhere
  <2>10. SubmitInv'
    BY Zenon, <1>2, <1>4, <2>1, RunSubmits DEF FifoInv
  <2>. QED
    BY Zenon, <1>6, <2>6, <2>8, <2>9, <2>10 DEF FifoInv, QueueInv
<1>9. CASE activeTx[s] = 0
  <2>1. Report(q, s) /\ UNCHANGED pendingSingles
    BY Zenon, <1>1, <1>9 DEF HandleSingle, RunExec, q
  <2>2. pendingSingles[s] = <<>>
    BY Zenon, <1>2, <1>9 DEF LockInv, ShardInv, ParkedInv
  <2>3. SinglesInv(s)'
    <3>1. ParkFrom(s, 0)
      BY <2>1, <2>2 DEF ParkFrom
    <3>. QED
      BY Zenon, <1>1, <1>3, <1>7, <3>1, SinglesShift DEF OrderKept
  <2>4. \A r \in Reqs : WaitsOn(r, s) => r = q \/ Before(q, r)
    BY <1>5, <2>2 DEF WaitsOn, IsMail, q
  <2>5. ServedInv(s)'
    BY Zenon, <1>2, <1>3, <1>4, <2>1, <2>4, FirstSingle, RunServed
  <2>6. WaitInv(s)'
    <3>1. \A r \in Reqs : RanOn(r, s)' <=> RanOn(r, s) \/ r = q
      BY Zenon, <1>4, <2>1, ReportRuns
    <3>2. \A r \in Reqs : WaitsOn(r, s) /\ r # q => WaitsOn(r, s)'
      BY <1>1, <2>2 DEF WaitsOn, IsMail, q
    <3>3. Dispatched \subseteq Reqs
      BY Zenon, DispatchedReqs
    <3>. QED
      BY Zenon, <1>2, <1>3, <1>7, <3>1, <3>2, <3>3 DEF WaitInv, SingleOn
  <2>7. \A t \in Shards : t # s => QueueInv(t)'
    BY Zenon, <1>1, <1>2, <1>4, <2>1, RunElsewhere DEF SameParked
  <2>8. SubmitInv'
    BY Zenon, <1>2, <1>4, <2>1, RunSubmits DEF FifoInv
  <2>. QED
    BY Zenon, <1>6, <2>3, <2>5, <2>6, <2>7, <2>8 DEF FifoInv, QueueInv
<1>. QED
  BY <1>8, <1>9

(* The parked singles run in their order.                                  *)
LEMMA DrainSingleFifo ==
    ASSUME TypeOK, TypeOK', FifoInv, NEW s \in Shards, DrainSingle(s)
    PROVE  FifoInv'
<1> USE DEF ioVars, coordVars
<1> DEFINE q == pendingSingles[s][1]
           p == pendingSingles[s]
<1>1. /\ UNCHANGED <<submitted, watching, watchLeft, watchAwait, coordQueue, cur, pendingWatches, mailbox>>
      /\ p \in Seq(Reqs) /\ p # <<>> /\ Len(p) \in Nat /\ pendingSingles'[s] = Tail(p)
      /\ \A t \in Shards : t # s => pendingSingles'[t] = pendingSingles[t]
  BY DEF DrainSingle, TypeOK
<1>2. /\ DOMAIN p = 1 .. Len(p) /\ 1 \in DOMAIN p /\ q = Head(p) /\ q \in Reqs
      /\ DOMAIN pendingSingles'[s] = 1 .. Len(p) - 1
      /\ \A i \in 1 .. Len(p) - 1 : pendingSingles'[s][i] = p[i + 1] /\ i + 1 \in DOMAIN p
  BY <1>1, TailFacts
<1>3. Report(q, s)
  BY Zenon, <1>2 DEF DrainSingle, RunExec
<1>4. SinglesInv(s) /\ WatchInv(s) /\ WaitInv(s) /\ ServedInv(s)
  BY Zenon DEF FifoInv, QueueInv
<1>5. SingleOn(q, s) /\ q \in Dispatched
  BY Zenon, <1>2, <1>4 DEF SinglesInv, SingleOn
<1>6. ASSUME NEW i \in DOMAIN p, i # 1
      PROVE  Before(q, p[i]) /\ \E j \in DOMAIN pendingSingles'[s] : pendingSingles'[s][j] = p[i]
  <2>1. i > 1 /\ i - 1 \in 1 .. Len(p) - 1 /\ (i - 1) + 1 = i
    BY <1>1, <1>2, <1>6
  <2>2. Before(q, p[i])
    BY Zenon, <1>2, <1>4, <2>1 DEF SinglesInv
  <2>. QED
    BY Zenon, <1>2, <2>1, <2>2
<1>7. \A j \in DOMAIN mailbox[s] : mailbox[s][j].type = "Single" => Before(q, mailbox[s][j].req)
  BY Zenon, <1>2, <1>4 DEF SinglesInv, IsMail
<1>8. ParkFrom(s, 1)
  BY Zenon, <1>2 DEF ParkFrom
<1>9. MailFrom(s, 0)
  BY Zenon, <1>1, SameMail
<1> HIDE DEF q
<1>10. Dispatched' = Dispatched /\ \A a, b : Before(a, b)' <=> Before(a, b)
  BY Zenon, <1>1 DEF Dispatched, Before
<1>11. SinglesInv(s)' /\ WatchInv(s)'
  BY Zenon, <1>1, <1>4, <1>8, <1>9, <1>10, SinglesShift, WatchShift DEF OrderKept
<1>12. \A r \in Reqs : WaitsOn(r, s) => r = q \/ Before(q, r)
  BY Zenon, <1>6, <1>7 DEF WaitsOn, IsMail, q
<1>13. ServedInv(s)'
  BY Zenon, <1>1, <1>2, <1>3, <1>4, <1>12, FirstSingle, RunServed
<1>14. WaitInv(s)'
  <2>1. \A r \in Reqs : RanOn(r, s)' <=> RanOn(r, s) \/ r = q
    BY Zenon, <1>2, <1>3, ReportRuns
  <2>2. \A r \in Reqs : WaitsOn(r, s) /\ r # q => WaitsOn(r, s)'
    BY <1>1, <1>6 DEF WaitsOn, IsMail, q
  <2>3. Dispatched \subseteq Reqs
    BY Zenon, DispatchedReqs
  <2>. QED
    BY Zenon, <1>1, <1>4, <1>10, <2>1, <2>2, <2>3 DEF WaitInv, SingleOn
<1>15. \A t \in Shards : t # s => QueueInv(t)'
  BY Zenon, <1>1, <1>2, <1>3, RunElsewhere DEF SameParked
<1>16. SubmitInv'
  BY Zenon, <1>1, <1>2, <1>3, <1>5, RunSubmits DEF FifoInv
<1>. QED
  BY Zenon, <1>11, <1>13, <1>14, <1>15, <1>16 DEF FifoInv, QueueInv
=============================================================================
