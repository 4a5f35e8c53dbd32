--------------------------- MODULE RepliesProofs ---------------------------
(***************************************************************************)
(* Proofs about Replies, for every pipeline and every size of the pipe and *)
(* of the socket buffer: the variables keep their types, the IO thread     *)
(* never sleeps over work, and, where no SUBSCRIBE names several channels, *)
(* the replies follow the requests.                                        *)
(***************************************************************************)
EXTENDS Replies, TLAPS

(* A reply that arrives at `deliver` leaves the connection well typed.     *)
LEMMA DeliverType ==
    ASSUME TypeOK, NEW x \in Reply, NEW slow \in SUBSET Nat, Deliver(x, slow)
    PROVE  /\ deliverSeq' \in Nat
           /\ buffered' \subseteq Reply
           /\ stream' \in Seq(Reply \cup Push)
           /\ pendingSlow' \subseteq Nat
<1>1. CASE x.seq # deliverSeq
  BY Zenon, <1>1 DEF Deliver, TypeOK, Reply
<1>2. CASE x.seq = deliverSeq
  <2>1. PICK last \in {x.seq} \cup {y.seq : y \in buffered} :
           /\ LastReady(x.seq, last)
           /\ stream' = Append(stream, x) \o
                          [i \in 1 .. last - x.seq |-> CHOOSE y \in buffered : y.seq = x.seq + i]
           /\ deliverSeq' = last + 1
           /\ buffered' = {y \in buffered : y.seq > last}
    <3>1. ~(x.seq > deliverSeq) /\ ~(x.seq < deliverSeq)
      BY <1>2 DEF TypeOK
    <3> QED  BY <3>1, Zenon DEF Deliver
  <2>2. last \in Nat /\ x.seq \in Nat /\ last >= x.seq
    BY Zenon, <2>1 DEF LastReady, TypeOK, Reply
  <2> DEFINE next == [i \in 1 .. last - x.seq |-> CHOOSE y \in buffered : y.seq = x.seq + i]
  <2>3. next \in Seq(Reply)
    <3>1. \A i \in 1 .. last - x.seq : \E y \in buffered : y.seq = x.seq + i
      <4> TAKE i \in 1 .. last - x.seq
      <4>1. x.seq + i \in x.seq + 1 .. last
        BY <2>2
      <4>2. \A j \in x.seq + 1 .. last : \E y \in buffered : y.seq = j
        BY <2>1 DEF LastReady
      <4> QED  BY <4>1, <4>2, Zenon
    <3>2. \A i \in 1 .. last - x.seq : (CHOOSE y \in buffered : y.seq = x.seq + i) \in Reply
      BY <3>1 DEF TypeOK
    <3>3. last - x.seq \in Nat
      BY <2>2
    <3> QED  BY <3>2, <3>3
  <2> HIDE DEF next
  <2>4. stream' = Append(stream, x) \o next
    BY <2>1 DEF next
  <2>5. Append(stream, x) \in Seq(Reply \cup Push) /\ next \in Seq(Reply \cup Push)
    BY <2>3 DEF TypeOK
  <2>6. stream' \in Seq(Reply \cup Push)
    BY <2>4, <2>5
  <2>7. pendingSlow' \subseteq Nat
    BY Zenon, <1>2 DEF Deliver, Reply, TypeOK
  <2>8. deliverSeq' \in Nat
    BY <2>1, <2>2
  <2>9. buffered' \subseteq Reply
    BY <2>1 DEF TypeOK
  <2> QED  BY <2>6, <2>7, <2>8, <2>9
<1> QED  BY <1>1, <1>2

(* Dispatching one part leaves the variables well typed.                   *)
LEMMA DispatchType ==
    ASSUME TypeOK, Dispatch
    PROVE  TypeOK'
<1>1. cur \in Requests /\ part \in Nat /\ dispatchSeq \in Nat
  BY CmdAssumption DEF Dispatch, TypeOK, Requests
<1>2. PartSeq \in Nat
  BY <1>1 DEF PartSeq, TakesSeq
<1> DEFINE x == [seq |-> PartSeq, req |-> cur, part |-> part + 1]
           slow == IF TakesSeq /\ ~CmdOf[cur].blocking
                   THEN pendingSlow \cup {x.seq} ELSE pendingSlow
<1>3. x \in Reply /\ slow \in SUBSET Nat
  <2>1. part + 1 \in Nat \ {0}
    BY <1>1
  <2>2. x \in Reply /\ x.seq \in Nat
    BY <1>1, <1>2, <2>1 DEF Reply
  <2> HIDE DEF x
  <2>3. slow \in SUBSET Nat
    BY Zenon, <2>2 DEF TypeOK
  <2> QED  BY <2>2, <2>3
<1> HIDE DEF x, slow
<1>4. \/ Deliver(x, slow) /\ UNCHANGED inFlight
      \/ /\ inFlight' = inFlight \cup {x}
         /\ pendingSlow' = slow
         /\ UNCHANGED <<deliverSeq, buffered, stream>>
  BY DEF Dispatch, x, slow
<1>5. /\ deliverSeq' \in Nat
      /\ buffered' \subseteq Reply
      /\ stream' \in Seq(Reply \cup Push)
      /\ pendingSlow' \subseteq Nat
      /\ inFlight' \subseteq Reply
  BY Zenon, <1>3, <1>4, DeliverType DEF TypeOK
<1>6. part' \in Nat /\ cur' \in 1 .. NumReqs + 1
  BY <1>1, CmdAssumption DEF Dispatch, NextPart, TypeOK, Requests
<1>7. dispatchSeq' \in Nat
  BY <1>1 DEF Dispatch
<1>8. closing' \in BOOLEAN
  BY DEF Dispatch
<1> QED  BY <1>5, <1>6, <1>7, <1>8 DEF Dispatch, TypeOK, clientVars, loopVars

(* Writing never moves the cursor past the output, and leaves a write      *)
(* event registered when something is left.                                *)
LEMMA FlushConnType ==
    ASSUME TypeOK, NEW quit \in BOOLEAN, FlushConn(quit)
    PROVE  /\ written' \in Nat /\ writeReg' \in BOOLEAN /\ open' \in BOOLEAN
           /\ open' /\ written' # Len(stream) => writeReg'
<1>1. Len(stream) \in Nat /\ consumed \in Nat /\ SockCap \in Nat
  BY CapAssumption DEF TypeOK
<1>2. CASE open' = FALSE /\ UNCHANGED <<written, writeReg>>
  BY Zenon, <1>2 DEF TypeOK
<1>3. CASE /\ written' = FlushedTo(stream)
           /\ writeReg' = (written' < Len(stream))
           /\ open' = ~(quit /\ written' = Len(stream))
  <2>1. written' \in Nat /\ (written' # Len(stream) => written' < Len(stream))
    BY <1>1, <1>3 DEF FlushedTo
  <2> QED  BY <1>3, <2>1
<1> QED  BY Zenon, <1>2, <1>3 DEF FlushConn

(* The first message of a non-empty queue, and what is left of it.         *)
LEMMA HeadTail ==
    ASSUME NEW S, NEW q \in Seq(S), q # <<>>
    PROVE  Head(q) \in S /\ Tail(q) \in Seq(S)
  OBVIOUS

----------------------------------------------------------------------------
(* Between the end of `drain_bus` and the next `kevent` a message in the    *)
(* bus was sent after the bus was found empty, so its byte is in the pipe   *)
(* or still to come.                                                       *)
WakeInv ==
    /\ pc \in {"wait", "flush"} => (bus # <<>> => pipe > 0 \/ poking > 0)
    /\ pc = "wait" => (open /\ ~OutEmpty => writeReg)

(* Each step of the IO thread keeps the types.                             *)
LEMMA IoType ==
    ASSUME TypeOK, IoStep
    PROVE  TypeOK'
<1> USE DEF clientVars, connVars, readVars, sockVars, loopVars, busVars
<1>1. CASE Kevent
  <2>1. Ready \subseteq {"wake", "read", "write", "other"}
    BY DEF Ready
  <2>2. events' \subseteq {"wake", "read", "write", "other"}
    BY Zenon, <1>1, <2>1 DEF Kevent
  <2>3. pushes' \in 0 .. MaxPush
    BY <1>1, CapAssumption DEF Kevent, TypeOK
  <2> QED  BY <1>1, <2>2, <2>3 DEF Kevent, TypeOK
<1>2. CASE HandleWake
  BY <1>2, CapAssumption DEF HandleWake, TypeOK
<1>3. CASE HandleRead
  <2>1. open' \in BOOLEAN
    BY Zenon, <1>3 DEF HandleRead, TypeOK
  <2>2. parsed' = parsed \/ parsed' \in parsed + 1 .. sent
    BY <1>3, Zenon DEF HandleRead
  <2>3. parsed' \in 0 .. NumReqs
    BY <2>2, CmdAssumption DEF TypeOK
  <2> QED  BY <1>3, <2>1, <2>3 DEF HandleRead, TypeOK
<1>4. CASE HandleWrite
  <2>1. written' \in Nat /\ writeReg' \in BOOLEAN /\ open' \in BOOLEAN
    BY Zenon, <1>4, FlushConnType DEF HandleWrite, TypeOK
  <2> QED  BY <1>4, <2>1 DEF HandleWrite, TypeOK
<1>5. CASE HandleOther
  <2>1. stream' \in Seq(Reply \cup Push)
    <3>1. [push |-> TRUE] \in Reply \cup Push
      BY DEF Push
    <3> QED  BY <1>5, <3>1 DEF HandleOther, TypeOK
  <2> QED  BY <1>5, <2>1 DEF HandleOther, TypeOK
<1>6. CASE Dispatch
  BY <1>6, DispatchType
<1>7. CASE ProtocolError
  <2>1. stream' \in Seq(Reply \cup Push)
    <3>1. [push |-> TRUE] \in Reply \cup Push
      BY DEF Push
    <3> QED  BY <1>7, <3>1 DEF ProtocolError, TypeOK
  <2>2. Len(stream') \in Nat
    BY <2>1
  <2>3. written' \in Nat
    <3>1. FlushedTo(stream') \in Nat /\ written \in Nat
      BY <2>2, CapAssumption DEF TypeOK, FlushedTo
    <3> QED  BY <1>7, <3>1 DEF ProtocolError
  <2>4. cur' \in 1 .. NumReqs + 1
    BY <1>7, CmdAssumption DEF ProtocolError, TypeOK
  <2> QED  BY Zenon, <1>7, <2>1, <2>3, <2>4 DEF ProtocolError, TypeOK
<1>8. CASE EventsDone
  BY <1>8 DEF EventsDone, TypeOK
<1>9. CASE DrainOne
  <2>1. bus \in Seq(Reply \cup Push) /\ bus # <<>>
    BY <1>9 DEF DrainOne, TypeOK
  <2>2. Head(bus) \in Reply \cup Push /\ bus' \in Seq(Reply \cup Push)
    BY <1>9, <2>1, HeadTail DEF DrainOne
  <2>3. /\ deliverSeq' \in Nat
        /\ buffered' \subseteq Reply
        /\ stream' \in Seq(Reply \cup Push)
        /\ pendingSlow' \subseteq Nat
    <3>1. CASE IsReply(Head(bus)) /\ Deliver(Head(bus), pendingSlow)
      <4>1. Head(bus) \in Reply
        <5>1. \A y \in Push : DOMAIN y = {"push"}
          BY DEF Push
        <5>2. "seq" \in DOMAIN Head(bus)
          BY <3>1 DEF IsReply
        <5> QED  BY <2>2, <5>1, <5>2
      <4> QED  BY Zenon, <3>1, <4>1, DeliverType DEF TypeOK
    <3>2. CASE /\ stream' = Append(stream, Head(bus))
               /\ UNCHANGED <<deliverSeq, buffered, pendingSlow>>
      BY <2>2, <3>2 DEF TypeOK
    <3>3. CASE UNCHANGED <<deliverSeq, buffered, stream, pendingSlow>>
      BY <3>3 DEF TypeOK
    <3> QED  BY <1>9, <3>1, <3>2, <3>3 DEF DrainOne
  <2> QED  BY <1>9, <2>2, <2>3 DEF DrainOne, TypeOK
<1>10. CASE DrainDone
  BY <1>10 DEF DrainDone, TypeOK
<1>11. CASE FlushAll
  <2>1. written' \in Nat /\ writeReg' \in BOOLEAN /\ open' \in BOOLEAN
    BY Zenon, <1>11, FlushConnType DEF FlushAll, TypeOK
  <2> QED  BY <1>11, <2>1 DEF FlushAll, TypeOK
<1> QED  BY <1>1, <1>2, <1>3, <1>4, <1>5, <1>6, <1>7, <1>8, <1>9, <1>10, <1>11 DEF IoStep

(* So does every step of the system.                                       *)
LEMMA NextType ==
    ASSUME TypeOK, [Next]_vars
    PROVE  TypeOK'
<1> USE DEF clientVars, connVars, readVars, sockVars, loopVars, busVars
<1>1. CASE ClientSend
  BY <1>1, CmdAssumption DEF ClientSend, TypeOK
<1>2. CASE ClientRead
  BY <1>2 DEF ClientRead, TypeOK
<1>3. CASE ClientHangup
  BY <1>3 DEF ClientHangup, TypeOK
<1>4. ASSUME NEW x \in inFlight, SendReply(x)
      PROVE  TypeOK'
  <2>1. x \in Reply \cup Push
    BY DEF TypeOK
  <2>2. bus' \in Seq(Reply \cup Push) /\ poking' \in Nat
    BY <1>4, <2>1 DEF SendReply, BusSend, TypeOK
  <2> QED  BY <1>4, <2>2 DEF SendReply, BusSend, TypeOK
<1>5. CASE SendInvalidation
  <2>1. [push |-> TRUE] \in Reply \cup Push
    BY DEF Push
  <2>2. bus' \in Seq(Reply \cup Push) /\ poking' \in Nat
    BY <1>5, <2>1 DEF SendInvalidation, BusSend, TypeOK
  <2>3. pushes' \in 0 .. MaxPush
    BY <1>5, CapAssumption DEF SendInvalidation, TypeOK
  <2> QED  BY <1>5, <2>2, <2>3 DEF SendInvalidation, BusSend, TypeOK
<1>6. CASE Poke
  BY <1>6, CapAssumption DEF Poke, TypeOK
<1>7. CASE IoStep
  BY <1>7, IoType
<1>8. CASE UNCHANGED vars
  BY <1>8 DEF vars, TypeOK
<1> QED  BY <1>1, <1>2, <1>3, <1>4, <1>5, <1>6, <1>7, <1>8 DEF Next

(* The variables keep their types, whatever the pipeline and the order in   *)
(* which the shards and the coordinator answer.                            *)
THEOREM RepliesTyped == Spec => []TypeOK
<1>1. ASSUME Init PROVE TypeOK
  <2>1. /\ sent \in 0 .. NumReqs /\ parsed \in 0 .. NumReqs /\ cur \in 1 .. NumReqs + 1
        /\ pipe \in 0 .. PipeCap /\ pushes \in 0 .. MaxPush
    BY <1>1, CmdAssumption, CapAssumption DEF Init
  <2>2. stream \in Seq(Reply \cup Push) /\ bus \in Seq(Reply \cup Push)
    BY <1>1 DEF Init
  <2> QED  BY Zenon, <1>1, <2>1, <2>2 DEF Init, TypeOK
<1> QED  BY <1>1, NextType, PTL DEF Spec

----------------------------------------------------------------------------
(* Every step keeps WakeInv.                                               *)
LEMMA NextWake ==
    ASSUME TypeOK, WakeInv, [Next]_vars
    PROVE  WakeInv'
<1> USE DEF clientVars, connVars, readVars, sockVars, loopVars, busVars
<1>1. CASE ClientSend \/ ClientRead \/ ClientHangup
  BY <1>1 DEF ClientSend, ClientRead, ClientHangup, WakeInv, OutEmpty
<1>2. ASSUME NEW x, BusSend(x), UNCHANGED <<connVars, sockVars, loopVars>>
      PROVE  WakeInv'
  <2>1. poking' > 0
    BY <1>2 DEF BusSend, TypeOK
  <2> QED  BY <1>2, <2>1 DEF WakeInv, OutEmpty
<1>3. CASE Poke
  <2>1. pipe' > 0
    BY <1>3, CapAssumption DEF Poke, TypeOK
  <2> QED  BY <1>3, <2>1 DEF Poke, WakeInv, OutEmpty
<1>4. CASE FlushAll
  <2>1. pc = "flush" /\ UNCHANGED <<bus, pipe, poking, stream>>
    BY <1>4 DEF FlushAll
  <2>2. open' /\ written' # Len(stream) => writeReg'
    BY Zenon, <1>4, FlushConnType DEF FlushAll, OutEmpty, TypeOK
  <2> QED  BY <2>1, <2>2 DEF WakeInv, OutEmpty
<1>5. CASE DrainDone
  BY <1>5 DEF DrainDone, WakeInv
<1>6. CASE pc' \in {"events", "drain"}
  BY <1>6 DEF WakeInv
<1>7. CASE UNCHANGED vars
  BY <1>7 DEF vars, WakeInv, OutEmpty
<1>8. IoStep => FlushAll \/ DrainDone \/ pc' \in {"events", "drain"}
  BY Zenon DEF IoStep, Kevent, HandleWake, HandleRead, HandleWrite, HandleOther, Dispatch,
         ProtocolError, EventsDone, DrainOne, Between
<1>9. (\E x \in inFlight : SendReply(x)) \/ SendInvalidation => WakeInv'
  BY <1>2 DEF SendReply, SendInvalidation
<1> QED  BY <1>1, <1>3, <1>4, <1>5, <1>6, <1>7, <1>8, <1>9 DEF Next

(* The IO thread never waits in `kevent` with a message in the bus and no   *)
(* wake-up byte written or on its way, nor with output left and no write    *)
(* event registered (`ReplyBus::send` sends before it pokes, `run` empties  *)
(* the pipe before the bus, `flush_conn` registers what it could not        *)
(* write).                                                                 *)
THEOREM WakeUpsReach == Spec => []NeverSleepsOnWork
<1>1. Init => WakeInv
  BY DEF Init, WakeInv, OutEmpty
<1>2. WakeInv => NeverSleepsOnWork
  BY DEF WakeInv, NeverSleepsOnWork
<1> QED  BY <1>1, <1>2, NextWake, RepliesTyped, PTL DEF Spec

----------------------------------------------------------------------------
(* The order of the replies.  A reply that was issued is at a shard or the *)
(* coordinator, in the bus, in the reorder buffer or in the output.        *)
RepliesIn(q) == {q[i] : i \in {j \in DOMAIN q : IsReply(q[j])}}
Pending == inFlight \cup RepliesIn(bus) \cup buffered
Issued == Pending \cup RepliesIn(stream)

(* Their numbers follow the order of the requests, and all parts before    *)
(* the one to be dispatched next have been issued.                         *)
NumberInv ==
    /\ \A x \in Issued : x.seq < dispatchSeq /\ Earlier(x.req, x.part, cur, part + 1)
    /\ \A x, y \in Issued : x.seq = y.seq => x = y
    /\ \A x, y \in Issued : x.seq < y.seq => Earlier(x.req, x.part, y.req, y.part)
    /\ \A r \in Requests : \A p \in 1 .. NumParts(r) :
          Earlier(r, p, cur, part + 1) => \E x \in Issued : x.req = r /\ x.part = p
    /\ cur \in Requests => part < NumParts(cur)

(* A reply that is on its way is in one place, and its number is not due   *)
(* yet.                                                                    *)
PlaceInv ==
    /\ buffered \cap inFlight = {}
    /\ RepliesIn(bus) \cap (buffered \cup inFlight) = {}
    /\ \A i, j \in DOMAIN bus : IsReply(bus[i]) /\ bus[i] = bus[j] => i = j
    /\ \A x \in Pending : x.seq >= deliverSeq
    /\ deliverSeq <= dispatchSeq

(* The output has the replies that were due, by number.                    *)
StreamInv ==
    /\ \A i \in DOMAIN stream : IsReply(stream[i]) => stream[i].seq < deliverSeq
    /\ \A i, j \in DOMAIN stream :
          (i < j /\ IsReply(stream[i]) /\ IsReply(stream[j])) => stream[i].seq < stream[j].seq

OrderInv == open => NumberInv /\ PlaceInv /\ StreamInv

(* No SUBSCRIBE of the pipeline names several channels: `local_subscribe`  *)
(* answers the channels of one command under a single number.              *)
OneChannel == \A r \in Requests : CmdOf[r].kind = "subscribe" => NumParts(r) = 1

LEMMA InReplies ==
    ASSUME NEW q, NEW z
    PROVE  z \in RepliesIn(q) <=> \E i \in DOMAIN q : IsReply(q[i]) /\ q[i] = z
  BY DEF RepliesIn

(* What a channel or the output holds after one more frame.                *)
LEMMA AppendReplies ==
    ASSUME NEW S, NEW q \in Seq(S), NEW x \in S
    PROVE  /\ DOMAIN Append(q, x) = 1 .. Len(q) + 1 /\ DOMAIN q = 1 .. Len(q) /\ Len(q) \in Nat
           /\ \A i \in 1 .. Len(q) : Append(q, x)[i] = q[i]
           /\ Append(q, x)[Len(q) + 1] = x
           /\ IsReply(x) => RepliesIn(Append(q, x)) = RepliesIn(q) \cup {x}
           /\ ~IsReply(x) => RepliesIn(Append(q, x)) = RepliesIn(q)
<1>1. /\ DOMAIN Append(q, x) = 1 .. Len(q) + 1 /\ DOMAIN q = 1 .. Len(q) /\ Len(q) \in Nat
      /\ \A i \in 1 .. Len(q) : Append(q, x)[i] = q[i]
      /\ Append(q, x)[Len(q) + 1] = x
  OBVIOUS
<1>2. \A i \in 1 .. Len(q) + 1 : i \in 1 .. Len(q) \/ i = Len(q) + 1
  BY <1>1
<1>. QED
  BY <1>1, <1>2 DEF RepliesIn

(* The same when the first message of a channel is taken.                  *)
LEMMA TailReplies ==
    ASSUME NEW S, NEW q \in Seq(S), q # <<>>
    PROVE  /\ DOMAIN q = 1 .. Len(q) /\ 1 \in DOMAIN q /\ Head(q) = q[1]
           /\ DOMAIN Tail(q) = 1 .. Len(q) - 1
           /\ \A i \in 1 .. Len(q) - 1 : Tail(q)[i] = q[i + 1] /\ i + 1 \in DOMAIN q
           /\ RepliesIn(q) = RepliesIn(Tail(q)) \cup (IF IsReply(Head(q)) THEN {Head(q)} ELSE {})
<1>1. /\ DOMAIN q = 1 .. Len(q) /\ 1 \in DOMAIN q /\ Head(q) = q[1] /\ Len(q) \in Nat
      /\ DOMAIN Tail(q) = 1 .. Len(q) - 1
      /\ \A i \in 1 .. Len(q) - 1 : Tail(q)[i] = q[i + 1] /\ i + 1 \in DOMAIN q
  OBVIOUS
<1>2. \A i \in 1 .. Len(q) : i = 1 \/ (i - 1 \in 1 .. Len(q) - 1 /\ (i - 1) + 1 = i)
  BY <1>1
<1>3. ASSUME NEW z \in RepliesIn(q), z \notin RepliesIn(Tail(q)) PROVE IsReply(Head(q)) /\ z = Head(q)
  <2>1. PICK i \in DOMAIN q : IsReply(q[i]) /\ q[i] = z
    BY <1>3, InReplies
  <2>2. CASE i # 1
    <3>1. i - 1 \in DOMAIN Tail(q) /\ Tail(q)[i - 1] = q[i]
      BY <1>1, <1>2, <2>2
    <3>. QED
      BY Zenon, <1>3, <2>1, <3>1, InReplies
  <2>. QED
    BY <1>1, <2>1, <2>2
<1>4. ASSUME NEW z \in RepliesIn(Tail(q)) PROVE z \in RepliesIn(q)
  <2>1. PICK i \in DOMAIN Tail(q) : IsReply(Tail(q)[i]) /\ Tail(q)[i] = z
    BY Zenon, <1>4, InReplies
  <2>. QED
    BY <1>1, <2>1, InReplies
<1>5. IsReply(Head(q)) => Head(q) \in RepliesIn(q)
  BY <1>1, InReplies
<1>. QED
  BY <1>1, <1>3, <1>4, <1>5

(* A reply and those behind it, appended.                                  *)
LEMMA RunAppended ==
    ASSUME NEW S, NEW q \in Seq(S), NEW x \in S, NEW t \in Seq(S), NEW w, w = Append(q, x) \o t
    PROVE  /\ Len(q) \in Nat /\ DOMAIN q = 1 .. Len(q)
           /\ DOMAIN w = 1 .. Len(q) + 1 + Len(t)
           /\ \A i \in 1 .. Len(q) : w[i] = q[i]
           /\ w[Len(q) + 1] = x
           /\ \A i \in 1 .. Len(t) : w[Len(q) + 1 + i] = t[i]
<1>1. Append(q, x) \in Seq(S) /\ Len(Append(q, x)) = Len(q) + 1
  OBVIOUS
<1>2. Len(q) \in Nat /\ Len(t) \in Nat /\ DOMAIN q = 1 .. Len(q)
  OBVIOUS
<1>3. DOMAIN w = 1 .. Len(q) + 1 + Len(t)
  BY <1>1, <1>2
<1>4. \A i \in 1 .. Len(q) + 1 : w[i] = Append(q, x)[i]
  BY <1>1, <1>2
<1>5. \A i \in 1 .. Len(q) : Append(q, x)[i] = q[i]
  BY <1>2
<1>6. Append(q, x)[Len(q) + 1] = x
  OBVIOUS
<1>7. \A i \in 1 .. Len(t) : w[Len(q) + 1 + i] = t[i]
  BY <1>1, <1>2
<1>. QED
  BY <1>2, <1>3, <1>4, <1>5, <1>6, <1>7

(* `deliver` on a reply that is due or early: it joins the buffer or, with *)
(* the run behind it, the output, which stays sorted by number; whatever   *)
(* number has become due was the reply's or a buffered one's.              *)
LEMMA DeliverOrder ==
    ASSUME TypeOK, StreamInv, NEW x \in Reply, NEW slow \in SUBSET Nat, Deliver(x, slow),
           x.seq >= deliverSeq,
           \A y \in buffered : y.seq >= deliverSeq /\ y.seq # x.seq,
           \A y, z \in buffered : y.seq = z.seq => y = z
    PROVE  /\ StreamInv'
           /\ RepliesIn(stream') \cup buffered' = RepliesIn(stream) \cup buffered \cup {x}
           /\ \A y \in buffered' : y.seq >= deliverSeq'
           /\ \A n \in deliverSeq .. deliverSeq' - 1 : \E y \in buffered \cup {x} : y.seq = n
           /\ deliverSeq' >= deliverSeq
           /\ deliverSeq' = deliverSeq \/ \E y \in buffered \cup {x} : deliverSeq' = y.seq + 1
<1>0. x.seq \in Nat /\ deliverSeq \in Nat /\ buffered \subseteq Reply /\ stream \in Seq(Reply \cup Push)
  BY DEF TypeOK, Reply
<1>1. CASE x.seq # deliverSeq
  <2>1. /\ buffered' = {y \in buffered : y.seq # x.seq} \cup {x}
        /\ UNCHANGED <<stream, deliverSeq>>
    BY <1>0, <1>1 DEF Deliver
  <2>2. buffered' = buffered \cup {x}
    BY <2>1
  <2>3. \A n \in deliverSeq .. deliverSeq' - 1 : FALSE
    BY <1>0, <2>1
  <2>4. StreamInv'
    BY <2>1 DEF StreamInv
  <2>. QED
    BY <1>0, <2>1, <2>2, <2>3, <2>4
<1>2. CASE x.seq = deliverSeq
  <2>1. PICK last \in {x.seq} \cup {y.seq : y \in buffered} :
           /\ LastReady(x.seq, last)
           /\ stream' = Append(stream, x) \o
                          [i \in 1 .. last - x.seq |-> CHOOSE y \in buffered : y.seq = x.seq + i]
           /\ deliverSeq' = last + 1
           /\ buffered' = {y \in buffered : y.seq > last}
    <3>1. ~(x.seq > deliverSeq) /\ ~(x.seq < deliverSeq)
      BY <1>0, <1>2
    <3>. QED
      BY <3>1, Zenon DEF Deliver
  <2>2. last \in Nat /\ last >= x.seq
    BY <1>0, <2>1 DEF LastReady, Reply
  <2> DEFINE next == [i \in 1 .. last - x.seq |-> CHOOSE y \in buffered : y.seq = x.seq + i]
  <2>3. ASSUME NEW i \in 1 .. last - x.seq PROVE next[i] \in buffered /\ next[i].seq = x.seq + i
    <3>1. x.seq + i \in x.seq + 1 .. last
      BY <1>0, <2>2
    <3>2. \E y \in buffered : y.seq = x.seq + i
      BY <2>1, <3>1 DEF LastReady
    <3>. QED
      BY <3>2
  <2>4. last - x.seq \in Nat
    BY <1>0, <2>2
  <2>5. next \in Seq(Reply \cup Push) /\ Len(next) = last - x.seq
    <3> DEFINE m == last - x.seq
    <3>1. next \in [1 .. m -> Reply \cup Push]
      BY Zenon, <1>0, <2>3
    <3>2. m \in Nat
      BY <2>4
    <3> HIDE DEF m, next
    <3>3. next \in Seq(Reply \cup Push) /\ Len(next) = m
      BY <3>1, <3>2
    <3>. QED
      BY <3>3 DEF m
  <2> HIDE DEF next
  <2>6. stream' = Append(stream, x) \o next
    BY <2>1 DEF next
  <2> DEFINE n == Len(stream)
  <2>7. /\ n \in Nat /\ DOMAIN stream = 1 .. n
        /\ DOMAIN stream' = 1 .. n + 1 + (last - x.seq)
        /\ \A i \in 1 .. n : stream'[i] = stream[i]
        /\ stream'[n + 1] = x
        /\ \A i \in 1 .. last - x.seq : stream'[n + 1 + i] = next[i]
    <3>1. x \in Reply \cup Push
      OBVIOUS
    <3>. QED
      BY <1>0, <2>5, <2>6, <3>1, RunAppended
  <2> HIDE DEF n
  <2>8. ASSUME NEW i \in DOMAIN stream'
        PROVE  \/ i \in DOMAIN stream /\ stream'[i] = stream[i]
               \/ /\ i > n /\ stream'[i] \in buffered \cup {x}
                  /\ stream'[i].seq = x.seq + (i - (n + 1)) /\ i - (n + 1) \in 0 .. last - x.seq
    <3>1. CASE i \in 1 .. n
      BY <2>7, <3>1
    <3>2. CASE i = n + 1
      BY <1>0, <2>2, <2>7, <3>2
    <3>3. CASE i > n + 1
      <4>1. i - (n + 1) \in 1 .. last - x.seq /\ n + 1 + (i - (n + 1)) = i
        BY <2>4, <2>7, <3>3
      <4>. QED
        BY <2>3, <2>4, <2>7, <3>3, <4>1
    <3>. QED
      BY <2>7, <3>1, <3>2, <3>3
  <2>9. \A y \in Reply : IsReply(y)
    BY DEF Reply, IsReply
  <2>10. StreamInv'
    <3>1. ASSUME NEW i \in DOMAIN stream', IsReply(stream'[i]) PROVE stream'[i].seq < deliverSeq'
      <4>1. i \in DOMAIN stream => stream[i].seq \in Nat \/ ~IsReply(stream[i])
        <5>1. \A y \in Push : ~IsReply(y)
          BY DEF Push, IsReply
        <5>. QED
          BY <1>0, <5>1 DEF Reply
      <4>2. CASE i \in DOMAIN stream /\ stream'[i] = stream[i]
        <5>1. stream[i].seq < deliverSeq
          BY Zenon, <3>1, <4>2 DEF StreamInv
        <5>. QED
          BY <1>0, <1>2, <2>1, <2>2, <3>1, <4>1, <4>2, <5>1
      <4>3. CASE stream'[i].seq = x.seq + (i - (n + 1)) /\ i - (n + 1) \in 0 .. last - x.seq
        <5>1. x.seq + (i - (n + 1)) < last + 1
          BY <1>0, <2>2, <4>3
        <5>. QED
          BY Zenon, <2>1, <4>3, <5>1
      <4>. QED
        BY <2>8, <4>2, <4>3
    <3>2. ASSUME NEW i \in DOMAIN stream', NEW j \in DOMAIN stream', i < j,
                 IsReply(stream'[i]), IsReply(stream'[j])
          PROVE  stream'[i].seq < stream'[j].seq
      <4>1. i \in Nat /\ j \in Nat
        BY <2>7
      <4>2. CASE j \in DOMAIN stream /\ stream'[j] = stream[j]
        <5>1. i \in DOMAIN stream /\ stream'[i] = stream[i]
          BY <2>7, <3>2, <4>1, <4>2
        <5>. QED
          BY <3>2, <4>2, <5>1 DEF StreamInv
      <4>3. CASE /\ j > n /\ stream'[j].seq = x.seq + (j - (n + 1))
                 /\ j - (n + 1) \in 0 .. last - x.seq
        <5>1. CASE i \in DOMAIN stream /\ stream'[i] = stream[i]
          <6>1. stream[i].seq < deliverSeq
            BY <3>2, <5>1 DEF StreamInv
          <6>2. stream[i].seq \in Nat
            <7>1. \A y \in Push : ~IsReply(y)
              BY DEF Push, IsReply
            <7>. QED
              BY <1>0, <3>2, <5>1, <7>1 DEF Reply
          <6>. QED
            BY <1>0, <1>2, <4>3, <5>1, <6>1, <6>2
        <5>2. CASE stream'[i].seq = x.seq + (i - (n + 1)) /\ i - (n + 1) \in 0 .. last - x.seq
          BY <1>0, <2>7, <3>2, <4>1, <4>3, <5>2
        <5>. QED
          BY <2>8, <5>1, <5>2
      <4>. QED
        BY <2>8, <4>2, <4>3
    <3>. QED
      BY <3>1, <3>2 DEF StreamInv
  <2>11. RepliesIn(stream') \cup buffered' = RepliesIn(stream) \cup buffered \cup {x}
    <3>1. ASSUME NEW z \in RepliesIn(stream') PROVE z \in RepliesIn(stream) \cup buffered \cup {x}
      <4>1. PICK i \in DOMAIN stream' : IsReply(stream'[i]) /\ stream'[i] = z
        BY <3>1, InReplies
      <4>. QED
        BY <2>8, <4>1, InReplies
    <3>2. RepliesIn(stream) \subseteq RepliesIn(stream')
      <4>1. DOMAIN stream \subseteq DOMAIN stream'
        BY <2>4, <2>7
      <4>2. \A i \in DOMAIN stream : stream'[i] = stream[i]
        BY <2>7
      <4>3. SUFFICES ASSUME NEW z \in RepliesIn(stream) PROVE z \in RepliesIn(stream')
        OBVIOUS
      <4>4. PICK i \in DOMAIN stream : IsReply(stream[i]) /\ stream[i] = z
        BY <4>3, InReplies
      <4>5. i \in DOMAIN stream' /\ stream'[i] = z /\ IsReply(stream'[i])
        BY <4>1, <4>2, <4>4
      <4>. QED
        BY <4>5, InReplies
    <3>3. x \in RepliesIn(stream')
      <4>1. n + 1 \in DOMAIN stream'
        BY <2>4, <2>7
      <4>. QED
        BY Zenon, <2>7, <2>9, <4>1, InReplies
    <3>4. ASSUME NEW y \in buffered, y \notin buffered' PROVE y \in RepliesIn(stream')
      <4>1. y.seq \in Nat /\ y.seq > x.seq /\ y.seq <= last
        BY <1>0, <1>2, <2>1, <2>2, <3>4 DEF Reply
      <4> DEFINE i == y.seq - x.seq
      <4>2. i \in 1 .. last - x.seq /\ x.seq + i = y.seq
        BY <1>0, <2>2, <4>1
      <4>3. next[i] = y
        BY <2>3, <4>2
      <4> HIDE DEF i
      <4>4. n + 1 + i \in DOMAIN stream' /\ stream'[n + 1 + i] = y
        BY <2>4, <2>7, <4>2, <4>3
      <4>. QED
        BY <1>0, <2>9, <4>4, InReplies
    <3>5. buffered' \subseteq buffered
      BY <2>1
    <3>. QED
      BY <3>1, <3>2, <3>3, <3>4, <3>5
  <2>12. \A y \in buffered' : y.seq >= deliverSeq'
    BY <1>0, <2>1, <2>2 DEF Reply
  <2>13. ASSUME NEW m \in deliverSeq .. deliverSeq' - 1 PROVE \E y \in buffered \cup {x} : y.seq = m
    <3>1. m = x.seq \/ m \in x.seq + 1 .. last
      BY <1>0, <1>2, <2>1, <2>2
    <3>. QED
      BY Zenon, <2>1, <3>1 DEF LastReady
  <2>14. deliverSeq' >= deliverSeq /\ \E y \in buffered \cup {x} : deliverSeq' = y.seq + 1
    BY <1>0, <1>2, <2>1, <2>2
  <2>. QED
    BY <2>10, <2>11, <2>12, <2>13, <2>14
<1>. QED
  BY <1>1, <1>2

----------------------------------------------------------------------------
(* Every step keeps the order *)

(* Every reply that was issued is a reply of a request.                    *)
LEMMA IssuedType ==
    ASSUME TypeOK
    PROVE  /\ Issued \subseteq Reply
           /\ \A x \in Reply : IsReply(x) /\ x.seq \in Nat /\ x.req \in Nat /\ x.part \in Nat
           /\ \A x \in Push : ~IsReply(x)
<1>1. \A x \in Push : ~IsReply(x)
  BY DEF Push, IsReply
<1>2. \A q \in Seq(Reply \cup Push) : RepliesIn(q) \subseteq Reply
  BY <1>1 DEF RepliesIn
<1>3. Issued \subseteq Reply
  BY <1>2 DEF TypeOK, Issued, Pending
<1>4. \A x \in Reply : IsReply(x) /\ x.seq \in Nat /\ x.req \in Nat /\ x.part \in Nat
  BY CmdAssumption DEF Reply, IsReply, Requests
<1>. QED
  BY <1>1, <1>3, <1>4

(* While the connection is open, the three invariants put the output in    *)
(* order.                                                                  *)
LEMMA OrderGives ==
    ASSUME TypeOK, NumberInv, PlaceInv, StreamInv
    PROVE  InOrder
<1>0. cur \in Nat /\ part \in Nat /\ deliverSeq \in Nat /\ DOMAIN stream \subseteq Nat
      /\ DOMAIN stream = 1 .. Len(stream) /\ Len(stream) \in Nat
  BY CmdAssumption DEF TypeOK
<1>1. ASSUME NEW j \in DOMAIN stream, IsReply(stream[j]) PROVE stream[j] \in Issued
  BY <1>1 DEF Issued, RepliesIn
<1>2. ASSUME NEW j \in DOMAIN stream, IsReply(stream[j]),
             NEW r \in Requests, NEW p \in 1 .. NumParts(r),
             Earlier(r, p, stream[j].req, stream[j].part)
      PROVE  \E i \in 1 .. j - 1 : IsReply(stream[i]) /\ stream[i].req = r /\ stream[i].part = p
  <2> DEFINE x == stream[j]
  <2>1. x \in Issued /\ x.seq \in Nat /\ x.req \in Nat /\ x.part \in Nat /\ r \in Nat /\ p \in Nat
    <3>1. r \in Nat /\ p \in Nat
      BY CmdAssumption DEF NumParts, Parts, Cmd, Requests
    <3>. QED
      BY <1>1, <1>2, <3>1, IssuedType
  <2> HIDE DEF x
  <2>2. Earlier(x.req, x.part, cur, part + 1) /\ Earlier(r, p, x.req, x.part)
    BY <1>2, <2>1 DEF NumberInv, x
  <2>3. Earlier(r, p, cur, part + 1)
    BY <1>0, <2>1, <2>2 DEF Earlier
  <2>4. PICK y \in Issued : y.req = r /\ y.part = p
    BY <2>3 DEF NumberInv
  <2>5. y.seq \in Nat
    BY IssuedType
  <2>6. ~Earlier(x.req, x.part, y.req, y.part) /\ x # y
    BY <2>1, <2>2, <2>4 DEF Earlier
  <2>7. y.seq < x.seq
    BY <2>1, <2>5, <2>6 DEF NumberInv
  <2>8. x.seq < deliverSeq
    BY <1>2 DEF StreamInv, x
  <2>9. y \notin Pending
    BY <1>0, <2>1, <2>5, <2>7, <2>8 DEF PlaceInv
  <2>10. PICK i \in DOMAIN stream : IsReply(stream[i]) /\ stream[i] = y
    BY <2>4, <2>9, InReplies DEF Issued
  <2>11. i < j
    <3>1. ~(j < i) /\ i # j
      BY <1>2, <2>1, <2>5, <2>7, <2>10 DEF StreamInv, x
    <3>. QED
      BY <1>0, <3>1
  <2>12. i \in 1 .. j - 1
    BY <1>0, <2>11
  <2>. QED
    BY <2>4, <2>10, <2>12
<1>3. ASSUME NEW i \in DOMAIN stream, NEW j \in DOMAIN stream, IsReply(stream[i]), IsReply(stream[j]),
             stream[i].req = stream[j].req, stream[i].part = stream[j].part, i < j
      PROVE  FALSE
  <2>1. stream[i] \in Issued /\ stream[j] \in Issued /\ stream[i].seq < stream[j].seq
    BY <1>1, <1>3 DEF StreamInv
  <2>2. Earlier(stream[i].req, stream[i].part, stream[j].req, stream[j].part)
    BY <2>1 DEF NumberInv
  <2>3. stream[j].req \in Nat /\ stream[j].part \in Nat
    BY <2>1, IssuedType
  <2>. QED
    BY <1>3, <2>2, <2>3 DEF Earlier
<1>4. ASSUME NEW i \in DOMAIN stream, NEW j \in DOMAIN stream, IsReply(stream[i]), IsReply(stream[j]),
             stream[i].req = stream[j].req, stream[i].part = stream[j].part
      PROVE  i = j
  <2>1. i < j \/ j < i \/ i = j
    BY <1>0
  <2>. QED
    BY <1>3, <1>4, <2>1
<1>. QED
  BY <1>2, <1>4 DEF InOrder

(* A part is dispatched: it takes the next number, and its reply comes     *)
(* after all that were issued before it.                                   *)
LEMMA DispatchNumbers ==
    ASSUME TypeOK, OneChannel, NumberInv, Dispatch, NEW x,
           x = [seq |-> dispatchSeq, req |-> cur, part |-> part + 1],
           Issued' = Issued \cup {x}
    PROVE  NumberInv'
<1>0. /\ cur \in Requests /\ part \in Nat /\ dispatchSeq \in Nat /\ cur \in Nat
      /\ NumParts(cur) \in Nat /\ part < NumParts(cur)
  <2>1. cur \in Requests /\ part \in Nat /\ dispatchSeq \in Nat /\ cur \in Nat
    BY CmdAssumption DEF Dispatch, TypeOK, Requests
  <2>2. NumParts(cur) \in Nat
    BY <2>1, CmdAssumption DEF NumParts, Parts, Cmd
  <2>. QED
    BY Zenon, <2>1, <2>2 DEF NumberInv
<1>1. TakesSeq
  BY <1>0 DEF OneChannel, TakesSeq
<1>2. dispatchSeq' = dispatchSeq + 1
  BY Zenon, <1>1 DEF Dispatch
<1>3. \/ part + 1 < NumParts(cur) /\ part' = part + 1 /\ cur' = cur
      \/ part + 1 >= NumParts(cur) /\ part' = 0 /\ cur' = cur + 1
  <2>1. part + 1 < NumParts(cur) \/ part + 1 >= NumParts(cur)
    BY <1>0
  <2>. QED
    BY Zenon, <2>1 DEF Dispatch, NextPart
<1>4. x.seq = dispatchSeq /\ x.req = cur /\ x.part = part + 1
  OBVIOUS
<1>5. ASSUME NEW y \in Issued
      PROVE  /\ y.seq \in Nat /\ y.req \in Nat /\ y.part \in Nat
             /\ y.seq < dispatchSeq /\ Earlier(y.req, y.part, cur, part + 1)
  BY IssuedType DEF NumberInv
<1>6. \A r \in Nat, p \in Nat : Earlier(r, p, cur, part + 1) => Earlier(r, p, cur', part' + 1)
  BY <1>0, <1>3 DEF Earlier
<1>7. Earlier(cur, part + 1, cur', part' + 1)
  BY <1>0, <1>3 DEF Earlier
<1>8. \A y \in Issued' : y.seq < dispatchSeq' /\ Earlier(y.req, y.part, cur', part' + 1)
  <2> SUFFICES ASSUME NEW y \in Issued'
               PROVE  y.seq < dispatchSeq' /\ Earlier(y.req, y.part, cur', part' + 1)
    OBVIOUS
  <2>1. CASE y \in Issued
    BY <1>0, <1>2, <1>5, <1>6, <2>1
  <2>2. CASE y = x
    BY <1>0, <1>2, <1>4, <1>7, <2>2
  <2>. QED
    BY <2>1, <2>2
<1>9. \A y, z \in Issued' : y.seq = z.seq => y = z
  <2>1. \A y \in Issued : y.seq # x.seq
    BY <1>0, <1>4, <1>5
  <2>. QED
    BY <2>1 DEF NumberInv
<1>10. \A y, z \in Issued' : y.seq < z.seq => Earlier(y.req, y.part, z.req, z.part)
  <2>1. \A y \in Issued : ~(x.seq < y.seq) /\ Earlier(y.req, y.part, x.req, x.part)
    BY <1>0, <1>4, <1>5
  <2>2. ~(x.seq < x.seq)
    BY <1>0, <1>4
  <2>. QED
    BY <2>1, <2>2 DEF NumberInv
<1>11. ASSUME NEW r \in Requests, NEW p \in 1 .. NumParts(r), Earlier(r, p, cur', part' + 1)
       PROVE  \E y \in Issued' : y.req = r /\ y.part = p
  <2>1. r \in Nat /\ p \in Nat /\ NumParts(r) \in Nat
    BY CmdAssumption DEF NumParts, Parts, Cmd, Requests
  <2>2. Earlier(r, p, cur, part + 1) \/ (r = cur /\ p = part + 1)
    BY <1>0, <1>3, <1>11, <2>1 DEF Earlier
  <2>3. CASE Earlier(r, p, cur, part + 1)
    BY <2>3 DEF NumberInv
  <2>4. CASE r = cur /\ p = part + 1
    BY <1>4, <2>4
  <2>. QED
    BY <2>2, <2>3, <2>4
<1>12. cur' \in Requests => part' < NumParts(cur')
  <2>1. \A r \in Requests : NumParts(r) \in Nat \ {0}
    BY CmdAssumption DEF NumParts, Parts, Cmd
  <2>. QED
    BY <1>0, <1>3, <2>1
<1>. QED
  BY <1>8, <1>9, <1>10, <1>11, <1>12 DEF NumberInv

(* Reply x is delivered, and the replies O are the others that are on      *)
(* their way: none of them becomes overdue.                                *)
LEMMA Delivered ==
    ASSUME TypeOK, NumberInv, PlaceInv, StreamInv, NEW x \in Reply, NEW slow \in SUBSET Nat,
           Deliver(x, slow), x.seq >= deliverSeq, x \notin buffered,
           \A y \in Issued : y.seq = x.seq => y = x,
           NEW O \in SUBSET Pending, O \cap (buffered \cup {x}) = {}
    PROVE  /\ StreamInv'
           /\ RepliesIn(stream') \cup buffered' = RepliesIn(stream) \cup buffered \cup {x}
           /\ buffered' \subseteq buffered \cup {x}
           /\ \A y \in O \cup buffered' : y.seq >= deliverSeq'
           /\ deliverSeq' = deliverSeq \/ \E y \in buffered \cup {x} : deliverSeq' = y.seq + 1
<1>1. buffered \subseteq Issued /\ O \subseteq Issued
  BY DEF Issued, Pending
<1>2. \A y \in buffered : y.seq >= deliverSeq /\ y.seq # x.seq
  BY Zenon, <1>1 DEF PlaceInv, Pending
<1>3. \A y, z \in buffered : y.seq = z.seq => y = z
  BY Zenon, <1>1 DEF NumberInv
<1>4. /\ StreamInv'
      /\ RepliesIn(stream') \cup buffered' = RepliesIn(stream) \cup buffered \cup {x}
      /\ \A y \in buffered' : y.seq >= deliverSeq'
      /\ \A n \in deliverSeq .. deliverSeq' - 1 : \E y \in buffered \cup {x} : y.seq = n
      /\ deliverSeq' = deliverSeq \/ \E y \in buffered \cup {x} : deliverSeq' = y.seq + 1
  BY Zenon, <1>2, <1>3, DeliverOrder
<1>5. buffered' \subseteq buffered \cup {x}
  BY DEF Deliver
<1>6. ASSUME NEW y \in O PROVE y.seq >= deliverSeq'
  <2>1. y.seq \in Nat /\ y.seq >= deliverSeq /\ deliverSeq \in Nat /\ deliverSeq' \in Nat
    BY Zenon, <1>1, DeliverType, IssuedType DEF PlaceInv, TypeOK
  <2>2. ASSUME y.seq < deliverSeq' PROVE FALSE
    <3>1. y.seq \in deliverSeq .. deliverSeq' - 1
      BY <2>1, <2>2
    <3>2. PICK z \in buffered \cup {x} : z.seq = y.seq
      BY <1>4, <3>1
    <3>3. z = y
      BY Zenon, <1>1, <3>2 DEF NumberInv
    <3>. QED
      BY <3>3
  <2>. QED
    BY <2>1, <2>2
<1>. QED
  BY <1>4, <1>5, <1>6

(* The part is answered at once or sent on.                                *)
LEMMA DispatchOrder ==
    ASSUME TypeOK, OneChannel, NumberInv, PlaceInv, StreamInv, Dispatch
    PROVE  NumberInv' /\ PlaceInv' /\ StreamInv'
<1>0. /\ cur \in Requests /\ part \in Nat /\ dispatchSeq \in Nat /\ deliverSeq \in Nat
      /\ pendingSlow \subseteq Nat
  BY CmdAssumption DEF Dispatch, TypeOK, Requests
<1>1. TakesSeq
  <2>1. NumParts(cur) \in Nat /\ part < NumParts(cur)
    BY <1>0, CmdAssumption DEF NumParts, Parts, Cmd, NumberInv
  <2>. QED
    BY <1>0, <2>1 DEF OneChannel, TakesSeq
<1> DEFINE x == [seq |-> dispatchSeq, req |-> cur, part |-> part + 1]
<1>2. PICK slow \in SUBSET Nat :
         \/ Deliver(x, slow) /\ UNCHANGED inFlight
         \/ inFlight' = inFlight \cup {x} /\ UNCHANGED <<deliverSeq, buffered, stream>>
  <2> DEFINE late == IF TakesSeq /\ ~CmdOf[cur].blocking
                     THEN pendingSlow \cup {x.seq} ELSE pendingSlow
  <2>1. late \in SUBSET Nat
    BY <1>0
  <2>2. \/ Deliver(x, late) /\ UNCHANGED inFlight
        \/ inFlight' = inFlight \cup {x} /\ UNCHANGED <<deliverSeq, buffered, stream>>
    BY <1>1, Zenon DEF Dispatch, PartSeq
  <2>. QED
    BY <2>1, <2>2
<1>3. /\ x \in Reply /\ x.seq = dispatchSeq
      /\ x = [seq |-> dispatchSeq, req |-> cur, part |-> part + 1]
  BY <1>0 DEF Reply
<1> HIDE DEF x
<1>4. bus' = bus /\ dispatchSeq' = dispatchSeq + 1
  BY <1>1 DEF Dispatch
<1>5. \A y \in Issued : y.seq \in Nat /\ y.seq < dispatchSeq
  BY IssuedType DEF NumberInv
<1>6. x \notin Issued /\ Pending \subseteq Issued
  BY <1>0, <1>3, <1>5 DEF Issued
<1>7. deliverSeq <= dispatchSeq
  BY DEF PlaceInv
<1>8. CASE Deliver(x, slow) /\ UNCHANGED inFlight
  <2> DEFINE O == inFlight \cup RepliesIn(bus)
  <2>1. O \in SUBSET Pending /\ O \cap (buffered \cup {x}) = {} /\ x \notin buffered
    BY <1>6 DEF Pending, PlaceInv
  <2>2. \A y \in Issued : y.seq = x.seq => y = x
    BY <1>0, <1>3, <1>5
  <2>3. x.seq >= deliverSeq
    BY Zenon, <1>0, <1>3, <1>7
  <2>4. /\ StreamInv'
        /\ RepliesIn(stream') \cup buffered' = RepliesIn(stream) \cup buffered \cup {x}
        /\ buffered' \subseteq buffered \cup {x}
        /\ \A y \in O \cup buffered' : y.seq >= deliverSeq'
        /\ deliverSeq' = deliverSeq \/ \E y \in buffered \cup {x} : deliverSeq' = y.seq + 1
    <3> HIDE DEF O
    <3>. QED
      BY <1>3, <1>8, <2>1, <2>2, <2>3, Delivered
  <2>5. Issued' = Issued \cup {x}
    BY Zenon, <1>4, <1>8, <2>4 DEF Issued, Pending
  <2>6. NumberInv'
    BY Zenon, <1>3, <2>5, DispatchNumbers
  <2>7. deliverSeq' <= dispatchSeq'
    BY <1>0, <1>3, <1>4, <1>5, <1>6, <1>7, <2>4 DEF Pending
  <2>8. PlaceInv'
    BY <1>4, <1>6, <1>8, <2>1, <2>4, <2>7 DEF PlaceInv, Pending
  <2>. QED
    BY <2>4, <2>6, <2>8
<1>9. CASE inFlight' = inFlight \cup {x} /\ UNCHANGED <<deliverSeq, buffered, stream>>
  <2>1. Issued' = Issued \cup {x} /\ Pending' = Pending \cup {x}
    BY <1>4, <1>9 DEF Issued, Pending
  <2>2. NumberInv'
    BY <1>3, <2>1, DispatchNumbers
  <2>3. deliverSeq' <= dispatchSeq' /\ x.seq >= deliverSeq'
    BY <1>0, <1>3, <1>4, <1>7, <1>9
  <2>4. PlaceInv'
    BY <1>4, <1>6, <1>9, <2>1, <2>3 DEF PlaceInv, Pending
  <2>5. StreamInv'
    BY Zenon, <1>9 DEF StreamInv
  <2>. QED
    BY <2>2, <2>4, <2>5
<1>. QED
  BY <1>2, <1>8, <1>9

(* Replies that move leave the numbers alone.                              *)
LEMMA NumbersStay ==
    ASSUME NumberInv, Issued' = Issued, UNCHANGED <<dispatchSeq, cur, part>>
    PROVE  NumberInv'
  BY DEF NumberInv

(* A reply is sent to the connection.                                      *)
LEMMA SendOrder ==
    ASSUME TypeOK, NumberInv, PlaceInv, StreamInv,
           NEW x \in inFlight, SendReply(x)
    PROVE  NumberInv' /\ PlaceInv' /\ StreamInv'
<1>1. /\ bus \in Seq(Reply \cup Push) /\ x \in Reply \cup Push /\ IsReply(x)
      /\ bus' = Append(bus, x) /\ inFlight' = inFlight \ {x}
      /\ UNCHANGED <<dispatchSeq, deliverSeq, buffered, stream, cur, part>>
  BY Zenon, IssuedType DEF SendReply, BusSend, connVars, readVars, TypeOK
<1>2. /\ DOMAIN bus' = 1 .. Len(bus) + 1 /\ DOMAIN bus = 1 .. Len(bus) /\ Len(bus) \in Nat
      /\ \A i \in 1 .. Len(bus) : bus'[i] = bus[i]
      /\ bus'[Len(bus) + 1] = x
      /\ RepliesIn(bus') = RepliesIn(bus) \cup {x}
  BY <1>1, AppendReplies
<1>3. Pending' = Pending /\ Issued' = Issued
  BY Zenon, <1>1, <1>2 DEF Pending, Issued
<1>4. \A i \in 1 .. Len(bus) : bus[i] # x
  BY Zenon, <1>1, <1>2, InReplies DEF PlaceInv
<1>5. \A i, j \in DOMAIN bus' : IsReply(bus'[i]) /\ bus'[i] = bus'[j] => i = j
  <2>1. \A i \in DOMAIN bus' : i \in 1 .. Len(bus) \/ i = Len(bus) + 1
    BY <1>2
  <2>. QED
    BY <1>2, <1>4, <2>1 DEF PlaceInv
<1>6. PlaceInv'
  BY <1>1, <1>2, <1>3, <1>5 DEF PlaceInv
<1>. QED
  BY Zenon, <1>1, <1>3, <1>6, NumbersStay DEF StreamInv

(* A frame without a number joins the output.                              *)
LEMMA PushAppended ==
    ASSUME TypeOK, NEW z \in Push, stream' = Append(stream, z)
    PROVE  /\ RepliesIn(stream') = RepliesIn(stream)
           /\ StreamInv /\ UNCHANGED deliverSeq => StreamInv'
           /\ InOrder => InOrder'
<1>1. /\ DOMAIN stream' = 1 .. Len(stream) + 1 /\ DOMAIN stream = 1 .. Len(stream)
      /\ Len(stream) \in Nat
      /\ \A i \in 1 .. Len(stream) : stream'[i] = stream[i]
      /\ stream'[Len(stream) + 1] = z /\ ~IsReply(z)
      /\ RepliesIn(stream') = RepliesIn(stream)
  <2>1. z \in Reply \cup Push /\ stream \in Seq(Reply \cup Push) /\ ~IsReply(z)
    BY IssuedType DEF TypeOK
  <2>. QED
    BY <2>1, AppendReplies
<1>2. \A i \in DOMAIN stream' : IsReply(stream'[i]) => i \in DOMAIN stream /\ stream'[i] = stream[i]
  <2>1. \A i \in DOMAIN stream' : i \in 1 .. Len(stream) \/ i = Len(stream) + 1
    BY <1>1
  <2>. QED
    BY <1>1, <2>1
<1>3. ASSUME StreamInv, UNCHANGED deliverSeq PROVE StreamInv'
  BY Zenon, <1>2, <1>3 DEF StreamInv
<1>4. ASSUME InOrder PROVE InOrder'
  <2>1. ASSUME NEW j \in DOMAIN stream', IsReply(stream'[j]),
               NEW r \in Requests, NEW p \in 1 .. NumParts(r),
               Earlier(r, p, stream'[j].req, stream'[j].part)
        PROVE  \E i \in 1 .. j - 1 : IsReply(stream'[i]) /\ stream'[i].req = r /\ stream'[i].part = p
    <3>1. j \in DOMAIN stream /\ stream'[j] = stream[j]
      BY Zenon, <1>2, <2>1
    <3>2. PICK i \in 1 .. j - 1 : IsReply(stream[i]) /\ stream[i].req = r /\ stream[i].part = p
      BY <1>4, <2>1, <3>1 DEF InOrder
    <3>3. stream'[i] = stream[i]
      BY <1>1, <3>1
    <3>. QED
      BY Zenon, <3>2, <3>3
  <2>2. \A i, j \in DOMAIN stream' :
           (IsReply(stream'[i]) /\ IsReply(stream'[j])
              /\ stream'[i].req = stream'[j].req /\ stream'[i].part = stream'[j].part) => i = j
    BY <1>2, <1>4 DEF InOrder
  <2>. QED
    BY Zenon, <2>1, <2>2 DEF InOrder
<1>. QED
  BY Zenon, <1>1, <1>3, <1>4

(* The next message of the bus is handled.                                 *)
LEMMA DrainOrder ==
    ASSUME TypeOK, NumberInv, PlaceInv, StreamInv, open, DrainOne
    PROVE  NumberInv' /\ PlaceInv' /\ StreamInv'
<1> DEFINE x == Head(bus)
<1>1. /\ bus \in Seq(Reply \cup Push) /\ bus # <<>> /\ bus' = Tail(bus) /\ x \in Reply \cup Push
      /\ UNCHANGED <<dispatchSeq, inFlight, cur, part>>
  <2>1. bus \in Seq(Reply \cup Push) /\ bus # <<>> /\ bus' = Tail(bus)
        /\ UNCHANGED <<dispatchSeq, inFlight, cur, part>>
    BY Zenon DEF DrainOne, TypeOK, readVars
  <2>. QED
    BY Zenon, <2>1, HeadTail
<1>2. /\ DOMAIN bus = 1 .. Len(bus) /\ 1 \in DOMAIN bus /\ x = bus[1]
      /\ DOMAIN bus' = 1 .. Len(bus) - 1 /\ Len(bus) \in Nat
      /\ \A i \in 1 .. Len(bus) - 1 : bus'[i] = bus[i + 1] /\ i + 1 \in DOMAIN bus
      /\ RepliesIn(bus) = RepliesIn(bus') \cup (IF IsReply(x) THEN {x} ELSE {})
  BY <1>1, TailReplies
<1>3. \/ IsReply(x) /\ Deliver(x, pendingSlow)
      \/ ~IsReply(x) /\ stream' = Append(stream, x) /\ UNCHANGED <<deliverSeq, buffered>>
  BY Zenon DEF DrainOne
<1> HIDE DEF x
<1>4. \A i, j \in DOMAIN bus' : IsReply(bus'[i]) /\ bus'[i] = bus'[j] => i = j
  <2>1. \A i \in DOMAIN bus' : i \in 1 .. Len(bus) - 1
    BY <1>2
  <2>2. \A i, j \in 1 .. Len(bus) - 1 : i + 1 = j + 1 => i = j
    OBVIOUS
  <2>. QED
    BY Zenon, <1>2, <2>1, <2>2 DEF PlaceInv
<1>5. CASE ~IsReply(x) /\ stream' = Append(stream, x) /\ UNCHANGED <<deliverSeq, buffered>>
  <2>1. x \in Push
    BY <1>1, <1>5, IssuedType
  <2>2. RepliesIn(stream') = RepliesIn(stream) /\ StreamInv'
    BY <1>5, <2>1, PushAppended
  <2>3. RepliesIn(bus') = RepliesIn(bus) /\ Pending' = Pending /\ Issued' = Issued
    BY Zenon, <1>1, <1>2, <1>5, <2>2 DEF Pending, Issued
  <2>4. PlaceInv'
    BY <1>1, <1>4, <1>5, <2>3 DEF PlaceInv
  <2>. QED
    BY Zenon, <1>1, <2>2, <2>3, <2>4, NumbersStay
<1>6. CASE IsReply(x) /\ Deliver(x, pendingSlow)
  <2>1. x \in Reply /\ pendingSlow \in SUBSET Nat
    BY <1>1, <1>6, IssuedType DEF TypeOK
  <2>2. x \notin RepliesIn(bus')
    <3>1. ASSUME NEW i \in 1 .. Len(bus) - 1 PROVE bus'[i] # x
      <4>1. bus'[i] = bus[i + 1] /\ i + 1 \in DOMAIN bus /\ i + 1 # 1
        BY <1>2
      <4>. QED
        BY <1>2, <1>6, <4>1 DEF PlaceInv
    <3>. QED
      BY <1>2, <3>1, InReplies
  <2>3. x \in RepliesIn(bus) /\ RepliesIn(bus) = RepliesIn(bus') \cup {x}
    BY Zenon, <1>2, <1>6
  <2> DEFINE O == inFlight \cup RepliesIn(bus')
  <2>4. /\ O \in SUBSET Pending /\ O \cap (buffered \cup {x}) = {} /\ x \notin buffered
        /\ x \in Issued /\ x.seq >= deliverSeq
    BY Zenon, <2>2, <2>3 DEF Pending, PlaceInv, Issued
  <2>5. \A y \in Issued : y.seq = x.seq => y = x
    BY Zenon, <2>4 DEF NumberInv
  <2>6. /\ StreamInv'
        /\ RepliesIn(stream') \cup buffered' = RepliesIn(stream) \cup buffered \cup {x}
        /\ buffered' \subseteq buffered \cup {x}
        /\ \A y \in O \cup buffered' : y.seq >= deliverSeq'
        /\ deliverSeq' = deliverSeq \/ \E y \in buffered \cup {x} : deliverSeq' = y.seq + 1
    <3> HIDE DEF O
    <3>. QED
      BY Zenon, <1>6, <2>1, <2>4, <2>5, Delivered
  <2>7. Issued' = Issued
    BY Zenon, <1>1, <2>3, <2>6 DEF Issued, Pending
  <2>8. deliverSeq' <= dispatchSeq'
    <3>1. \A y \in buffered \cup {x} : y.seq \in Nat /\ y.seq < dispatchSeq
      BY Zenon, <2>4, IssuedType DEF NumberInv, Issued, Pending
    <3>. QED
      BY <1>1, <2>6, <3>1 DEF PlaceInv, TypeOK
  <2>9. PlaceInv'
    BY <1>1, <1>4, <2>3, <2>4, <2>6, <2>8 DEF PlaceInv, Pending
  <2>. QED
    BY Zenon, <1>1, <2>6, <2>7, <2>9, NumbersStay
<1>. QED
  BY <1>3, <1>5, <1>6

(* A connection that closes takes no reply any more.                       *)
LEMMA ClosedStays ==
    ASSUME TypeOK, [Next]_vars
    PROVE  /\ open' => open
           /\ ~open' => stream' = stream \/ \E z \in Push : stream' = Append(stream, z)
<1> USE DEF clientVars, connVars, readVars, sockVars, loopVars, busVars
<1>1. CASE IoStep
  <2>1. CASE Dispatch
    BY Zenon, <2>1 DEF Dispatch
  <2>2. CASE ProtocolError
    BY Zenon, <2>2 DEF ProtocolError, Push
  <2>3. CASE HandleOther \/ DrainOne
    BY <2>3 DEF HandleOther, DrainOne
  <2>4. CASE FlushAll \/ HandleWrite
    <3>1. stream' = stream
      BY Zenon, <2>4 DEF FlushAll, HandleWrite
    <3>2. open' => open
      BY <2>4, Zenon DEF FlushAll, HandleWrite
    <3>. QED
      BY <3>1, <3>2
  <2>5. CASE Kevent \/ HandleWake \/ HandleRead \/ EventsDone \/ DrainDone
    BY <2>5 DEF Kevent, HandleWake, HandleRead, EventsDone, DrainDone
  <2>. QED
    BY Zenon, <1>1, <2>1, <2>2, <2>3, <2>4, <2>5 DEF IoStep
<1>2. CASE ~IoStep
  BY <1>2 DEF Next, vars, ClientSend, ClientRead, ClientHangup, SendReply, SendInvalidation, Poke
<1>. QED
  BY Zenon, <1>1, <1>2

(* Every step keeps the invariant of the open connection.                  *)
LEMMA NextOrder ==
    ASSUME TypeOK, OneChannel, OrderInv, [Next]_vars
    PROVE  OrderInv'
<1> SUFFICES ASSUME open', open, NumberInv, PlaceInv, StreamInv
             PROVE  NumberInv' /\ PlaceInv' /\ StreamInv'
  BY ClosedStays DEF OrderInv
<1> USE DEF clientVars, connVars, readVars, sockVars, loopVars, busVars
<1>1. CASE UNCHANGED <<dispatchSeq, deliverSeq, buffered, stream, cur, part, inFlight, bus>>
  <2>1. Issued' = Issued /\ Pending' = Pending
    BY Zenon, <1>1 DEF Issued, Pending
  <2>. QED
    BY Zenon, <1>1, <2>1, NumbersStay DEF PlaceInv, StreamInv
<1>2. ASSUME NEW x \in inFlight, SendReply(x) PROVE NumberInv' /\ PlaceInv' /\ StreamInv'
  BY Zenon, <1>2, SendOrder
<1>3. CASE SendInvalidation
  <2> DEFINE z == [push |-> TRUE]
  <2>1. /\ bus \in Seq(Reply \cup Push) /\ z \in Reply \cup Push /\ ~IsReply(z)
        /\ bus' = Append(bus, z)
        /\ UNCHANGED <<dispatchSeq, deliverSeq, buffered, stream, cur, part, inFlight>>
    BY Zenon, <1>3 DEF SendInvalidation, BusSend, TypeOK, Push, IsReply
  <2> HIDE DEF z
  <2>2. /\ DOMAIN bus' = 1 .. Len(bus) + 1 /\ DOMAIN bus = 1 .. Len(bus) /\ Len(bus) \in Nat
        /\ \A i \in 1 .. Len(bus) : bus'[i] = bus[i]
        /\ bus'[Len(bus) + 1] = z
        /\ RepliesIn(bus') = RepliesIn(bus)
    <3>1. RepliesIn(Append(bus, z)) = RepliesIn(bus)
      BY <2>1, AppendReplies
    <3>2. /\ DOMAIN bus' = 1 .. Len(bus) + 1 /\ DOMAIN bus = 1 .. Len(bus) /\ Len(bus) \in Nat
          /\ \A i \in 1 .. Len(bus) : bus'[i] = bus[i]
          /\ bus'[Len(bus) + 1] = z
      BY <2>1
    <3>. QED
      BY Zenon, <2>1, <3>1, <3>2
  <2>3. Pending' = Pending /\ Issued' = Issued
    BY Zenon, <2>1, <2>2 DEF Pending, Issued
  <2>4. \A i \in DOMAIN bus' : i \in 1 .. Len(bus) \/ i = Len(bus) + 1
    BY <2>2
  <2>5. \A i, j \in DOMAIN bus' : IsReply(bus'[i]) /\ bus'[i] = bus'[j] => i = j
    BY <2>1, <2>2, <2>4 DEF PlaceInv
  <2>6. PlaceInv'
    BY Zenon, <2>1, <2>2, <2>3, <2>5 DEF PlaceInv
  <2>. QED
    BY Zenon, <2>1, <2>3, <2>6, NumbersStay DEF StreamInv
<1>4. CASE HandleOther
  <2>1. /\ stream' = Append(stream, [push |-> TRUE]) /\ [push |-> TRUE] \in Push
        /\ UNCHANGED <<dispatchSeq, deliverSeq, buffered, cur, part, inFlight, bus>>
    BY Zenon, <1>4 DEF HandleOther, Push
  <2>2. RepliesIn(stream') = RepliesIn(stream) /\ StreamInv'
    BY Zenon, <2>1, PushAppended
  <2>3. Pending' = Pending /\ Issued' = Issued
    BY <2>1, <2>2 DEF Pending, Issued
  <2>. QED
    BY Zenon, <2>1, <2>2, <2>3, NumbersStay DEF PlaceInv
<1>5. CASE Dispatch
  BY <1>5, DispatchOrder
<1>6. CASE DrainOne
  BY Zenon, <1>6, DrainOrder
<1>7. CASE ProtocolError
  BY <1>7 DEF ProtocolError
<1>8. CASE ClientSend \/ ClientRead \/ ClientHangup \/ Poke \/ Kevent \/ HandleWake \/ HandleRead
           \/ HandleWrite \/ EventsDone \/ DrainDone \/ FlushAll \/ UNCHANGED vars
  BY Zenon, <1>1, <1>8 DEF ClientSend, ClientRead, ClientHangup, Poke, Kevent, HandleWake, HandleRead,
                    HandleWrite, EventsDone, DrainDone, FlushAll, vars
<1>. QED
  BY Zenon, <1>2, <1>3, <1>4, <1>5, <1>6, <1>7, <1>8 DEF Next, IoStep

(* When no SUBSCRIBE names several channels, the client gets its replies   *)
(* in the order of its requests, none missing in between and none twice,   *)
(* whatever the pipeline and in whatever order the shards and the          *)
(* coordinator answer (`dispatch` numbers the replies, `deliver` buffers   *)
(* the early ones).                                                        *)
THEOREM RepliesInOrder == OneChannel => (Spec => []InOrder)
<1> SUFFICES ASSUME OneChannel PROVE Spec => []InOrder
  OBVIOUS
<1>1. Init => OrderInv /\ InOrder
  <2> SUFFICES ASSUME Init PROVE OrderInv /\ InOrder
    OBVIOUS
  <2>1. DOMAIN stream = {} /\ DOMAIN bus = {} /\ cur = 1 /\ part = 0 /\ deliverSeq <= dispatchSeq
    BY DEF Init
  <2>2. Pending = {} /\ Issued = {}
    BY Zenon, <2>1 DEF Init, Issued, Pending, RepliesIn
  <2>3. \A r \in Requests : NumParts(r) \in Nat \ {0}
    BY CmdAssumption DEF NumParts, Parts, Cmd
  <2>4. \A r \in Requests, p \in Nat \ {0} : ~Earlier(r, p, cur, part + 1)
    BY <2>1 DEF Earlier, Requests
  <2>5. NumberInv
    BY <2>1, <2>2, <2>3, <2>4 DEF NumberInv
  <2>6. PlaceInv /\ StreamInv
    BY Zenon, <2>1, <2>2 DEF PlaceInv, StreamInv, Pending
  <2>7. InOrder
    BY <2>1 DEF InOrder
  <2>. QED
    BY <2>5, <2>6, <2>7 DEF OrderInv
<1>2. TypeOK /\ OrderInv /\ [Next]_vars => OrderInv'
  BY NextOrder
<1>3. TypeOK /\ OrderInv /\ open => InOrder
  BY OrderGives DEF OrderInv
<1>4. TypeOK /\ InOrder /\ [Next]_vars /\ ~open' => InOrder'
  <2>1. ASSUME stream' = stream, InOrder PROVE InOrder'
    BY <2>1 DEF InOrder
  <2>. QED
    BY Zenon, <2>1, ClosedStays, PushAppended
<1>. QED
  BY <1>1, <1>2, <1>3, <1>4, RepliesTyped, PTL DEF Spec

=============================================================================
