------------------------------ MODULE Replies ------------------------------
(***************************************************************************)
(* How one client connection gets its replies: the IO thread's event loop  *)
(* (server/event_loop.rs: `run`, `handle_read`, `dispatch`, `deliver`,     *)
(* `drain_bus`, `flush_all`) and the reply bus with its wake-up pipe       *)
(* (server/mod.rs).  Shards and the coordinator answer in any order; a     *)
(* sequence number per connection puts the replies back in order.          *)
(***************************************************************************)
EXTENDS Naturals, Sequences

CONSTANTS
    NumReqs,   \* the client pipelines requests 1 .. NumReqs
    CmdOf,     \* what each of them is
    PipeCap,   \* bytes the wake-up pipe holds
    SockCap,   \* replies the socket's send buffer holds
    MaxPush,   \* bound on unsequenced frames (PUBLISH, invalidations)
    Hangups    \* may the client close its side?

Requests == 1 .. NumReqs

(* A command is answered in parts: one, or for EXEC the array header and   *)
(* one per queued command, or for SUBSCRIBE one per channel.  The IO       *)
(* thread answers a local part itself; a remote one is sent to a shard or  *)
(* to the coordinator.                                                     *)
Cmd == [kind : {"plain", "exec", "subscribe", "quit", "malformed"},
        parts : Seq({"local", "remote"}),
        blocking : BOOLEAN]       \* not in the slowlog

ASSUME CmdAssumption ==
    /\ NumReqs \in Nat
    /\ CmdOf \in [Requests -> Cmd]
    /\ \A r \in Requests :
          /\ CmdOf[r].parts # <<>>
          /\ CmdOf[r].kind \notin {"exec", "subscribe"} => Len(CmdOf[r].parts) = 1
          /\ CmdOf[r].kind # "plain" => CmdOf[r].parts[1] = "local"
          /\ CmdOf[r].kind = "subscribe" =>
                \A p \in 1 .. Len(CmdOf[r].parts) : CmdOf[r].parts[p] = "local"

ASSUME CapAssumption ==
    /\ PipeCap \in Nat \ {0}
    /\ SockCap \in Nat \ {0}
    /\ MaxPush \in Nat
    /\ Hangups \in BOOLEAN

Parts(r) == CmdOf[r].parts
NumParts(r) == Len(Parts(r))

(* A reply on its way to the connection: part `part` of request `req`.     *)
Reply == [seq : Nat, req : Requests, part : Nat \ {0}]

(* A frame that carries no sequence number.                                *)
Push == [push : {TRUE}]
IsReply(x) == "seq" \in DOMAIN x

VARIABLES
    sent,        \* requests the client has written to the socket
    consumed,    \* replies it has read back
    hungUp,      \* it closed its side
    open,        \* the connection is in `conns`
    parsed,      \* requests read from the socket
    cur, part,   \* the request being dispatched and how many parts it has run
    dispatchSeq, deliverSeq, buffered,     \* the fields of `Conn`
    stream,      \* every frame ever appended to `out`
    written,     \* how many of them were written to the socket
    writeReg, closing, pendingSlow,        \* the fields of `Conn`
    pc,          \* where the IO thread is in `run`
    events,      \* the events of this `kevent` call still to handle
    inFlight,    \* requests at a shard or the coordinator, as their replies
    bus,         \* the reply channel
    poking,      \* senders between `tx.send` and the write to the pipe
    pipe,        \* bytes in the wake-up pipe
    pushes       \* frames pushed so far

clientVars == <<sent, consumed, hungUp>>
connVars == <<dispatchSeq, deliverSeq, buffered, stream, pendingSlow>>
readVars == <<parsed, cur, part>>
sockVars == <<open, written, writeReg, closing>>
loopVars == <<pc, events>>
busVars == <<inFlight, bus, poking, pipe, pushes>>
vars == <<clientVars, connVars, readVars, sockVars, loopVars, busVars>>

(* The types of the connection, the event loop and the reply bus.          *)
TypeOK ==
    /\ sent \in 0 .. NumReqs
    /\ consumed \in Nat
    /\ hungUp \in BOOLEAN
    /\ open \in BOOLEAN
    /\ parsed \in 0 .. NumReqs
    /\ cur \in 1 .. NumReqs + 1
    /\ part \in Nat
    /\ dispatchSeq \in Nat
    /\ deliverSeq \in Nat
    /\ buffered \subseteq Reply
    /\ stream \in Seq(Reply \cup Push)
    /\ written \in Nat
    /\ writeReg \in BOOLEAN
    /\ closing \in BOOLEAN
    /\ pendingSlow \subseteq Nat
    /\ pc \in {"wait", "events", "drain", "flush"}
    /\ events \subseteq {"wake", "read", "write", "other"}
    /\ inFlight \subseteq Reply
    /\ bus \in Seq(Reply \cup Push)
    /\ poking \in Nat
    /\ pipe \in 0 .. PipeCap
    /\ pushes \in 0 .. MaxPush

Init ==
    /\ sent = 0 /\ consumed = 0 /\ hungUp = FALSE
    /\ open = TRUE
    /\ parsed = 0 /\ cur = 1 /\ part = 0
    /\ dispatchSeq = 0 /\ deliverSeq = 0 /\ buffered = {}
    /\ stream = <<>> /\ written = 0
    /\ writeReg = FALSE /\ closing = FALSE /\ pendingSlow = {}
    /\ pc = "wait" /\ events = {}
    /\ inFlight = {} /\ bus = <<>> /\ poking = 0 /\ pipe = 0 /\ pushes = 0

OutEmpty == written = Len(stream)

----------------------------------------------------------------------------
(* The client *)

ClientSend ==
    /\ sent < NumReqs
    /\ ~hungUp
    /\ sent' = sent + 1
    /\ UNCHANGED <<consumed, hungUp, connVars, readVars, sockVars, loopVars, busVars>>

ClientRead ==
    /\ consumed < written
    /\ consumed' = consumed + 1
    /\ UNCHANGED <<sent, hungUp, connVars, readVars, sockVars, loopVars, busVars>>

ClientHangup ==
    /\ Hangups
    /\ ~hungUp
    /\ hungUp' = TRUE
    /\ UNCHANGED <<sent, consumed, connVars, readVars, sockVars, loopVars, busVars>>

----------------------------------------------------------------------------
(* Shard and coordinator threads: `ReplyBus::send` *)

(* First the channel ...                                                   *)
BusSend(x) ==
    /\ bus' = Append(bus, x)
    /\ poking' = poking + 1
    /\ UNCHANGED pipe

SendReply(x) ==
    /\ x \in inFlight
    /\ inFlight' = inFlight \ {x}
    /\ BusSend(x)
    /\ UNCHANGED <<clientVars, connVars, readVars, sockVars, loopVars, pushes>>

(* An invalidation of a key the connection tracks.                         *)
SendInvalidation ==
    /\ pushes < MaxPush
    /\ pushes' = pushes + 1
    /\ BusSend([push |-> TRUE])
    /\ UNCHANGED <<clientVars, connVars, readVars, sockVars, loopVars, inFlight>>

(* ... then one byte to the pipe, which is non-blocking: when it is full    *)
(* the byte is dropped.                                                    *)
Poke ==
    /\ poking > 0
    /\ poking' = poking - 1
    /\ pipe' = IF pipe < PipeCap THEN pipe + 1 ELSE pipe
    /\ UNCHANGED <<clientVars, connVars, readVars, sockVars, loopVars, inFlight, bus, pushes>>

----------------------------------------------------------------------------
(* The IO thread: `deliver` *)

(* Once number `seq` is appended, the buffered replies up to number n and   *)
(* no further can be.                                                      *)
LastReady(seq, n) ==
    /\ n >= seq
    /\ \A i \in seq + 1 .. n : \E y \in buffered : y.seq = i
    /\ ~\E y \in buffered : y.seq = n + 1

(* Mutant: replies are appended as they come.                              *)
DeliverUnordered(x, slow) ==
    /\ stream' = Append(stream, x)
    /\ deliverSeq' = deliverSeq + 1
    /\ pendingSlow' = slow \ {x.seq}
    /\ UNCHANGED buffered

(* Mutant: the replies buffered behind x stay where they are.              *)
DeliverNoDrain(x, slow) ==
    \/ /\ x.seq = deliverSeq
       /\ stream' = Append(stream, x)
       /\ deliverSeq' = deliverSeq + 1
       /\ pendingSlow' = slow \ {x.seq}
       /\ UNCHANGED buffered
    \/ /\ x.seq # deliverSeq
       /\ buffered' = IF x.seq > deliverSeq THEN buffered \cup {x} ELSE buffered
       /\ pendingSlow' = slow
       /\ UNCHANGED <<stream, deliverSeq>>

(* Reply x arrives: it is appended with those buffered behind it, or is    *)
(* buffered, or dropped.  `slow` is the set of pending slowlog entries.    *)
Deliver(x, slow) ==
    \/ /\ x.seq = deliverSeq
       /\ \E last \in {x.seq} \cup {y.seq : y \in buffered} :
             /\ LastReady(x.seq, last)
             /\ LET next == [i \in 1 .. last - x.seq |-> CHOOSE y \in buffered : y.seq = x.seq + i]
                IN  stream' = Append(stream, x) \o next
             /\ deliverSeq' = last + 1
             /\ buffered' = {y \in buffered : y.seq > last}
       /\ pendingSlow' = slow \ {x.seq}
    \/ /\ x.seq > deliverSeq
       /\ buffered' = {y \in buffered : y.seq # x.seq} \cup {x}
       /\ pendingSlow' = slow
       /\ UNCHANGED <<stream, deliverSeq>>
    \/ /\ x.seq < deliverSeq
       /\ pendingSlow' = slow
       /\ UNCHANGED <<stream, deliverSeq, buffered>>

(* The IO thread goes on with the next part, or with the next request.     *)
NextPart ==
    IF part + 1 < NumParts(cur)
    THEN part' = part + 1 /\ UNCHANGED cur
    ELSE part' = 0 /\ cur' = cur + 1

(* `next_seq`, except for the second and later replies of a SUBSCRIBE,     *)
(* which count on from the first without taking numbers from the           *)
(* connection.                                                             *)
TakesSeq == CmdOf[cur].kind # "subscribe" \/ part = 0
PartSeq == IF TakesSeq THEN dispatchSeq ELSE dispatchSeq - 1 + part

(* `dispatch`, `run_queued`, `local_exec`, `local_subscribe`: one part of  *)
(* the current request is answered or sent on.                             *)
Dispatch ==
    /\ pc = "events"
    /\ open
    /\ cur <= parsed
    /\ CmdOf[cur].kind # "malformed"
    /\ LET x == [seq |-> PartSeq, req |-> cur, part |-> part + 1]
           slow == IF TakesSeq /\ ~CmdOf[cur].blocking
                   THEN pendingSlow \cup {x.seq} ELSE pendingSlow
       IN  \/ /\ Parts(cur)[part + 1] = "local"
              /\ Deliver(x, slow)
              /\ UNCHANGED inFlight
           \/ /\ Parts(cur)[part + 1] = "remote"
              /\ inFlight' = inFlight \cup {x}
              /\ pendingSlow' = slow
              /\ UNCHANGED <<deliverSeq, buffered, stream>>
    /\ dispatchSeq' = IF TakesSeq THEN dispatchSeq + 1 ELSE dispatchSeq
    /\ closing' = (closing \/ CmdOf[cur].kind = "quit")
    /\ NextPart
    /\ UNCHANGED <<clientVars, parsed, open, written, writeReg, loopVars, bus, poking, pipe, pushes>>

----------------------------------------------------------------------------
(* The IO thread: writing and closing *)

CanWrite == consumed + SockCap > written

(* `flush_conn`: how far the socket takes the output `all`.                *)
FlushedTo(all) == IF Len(all) <= consumed + SockCap THEN Len(all) ELSE consumed + SockCap

(* It asks for a write event when something is left; a write to a client    *)
(* that is gone may fail and close the connection.  `quit` closes it too,   *)
(* once nothing is left.                                                   *)
FlushConn(quit) ==
    \/ hungUp /\ ~OutEmpty /\ open' = FALSE /\ UNCHANGED <<written, writeReg>>
    \/ /\ written' = FlushedTo(stream)
       /\ writeReg' = (written' < Len(stream))
       /\ open' = ~(quit /\ written' = Len(stream))

(* `handle_read` on a request that does not parse: the error is appended    *)
(* behind what is there, flushed as far as the socket takes it, and the     *)
(* connection closed.                                                      *)
ProtocolError ==
    /\ pc = "events"
    /\ open
    /\ cur <= parsed
    /\ CmdOf[cur].kind = "malformed"
    /\ stream' = Append(stream, [push |-> TRUE])
    /\ \/ written' = FlushedTo(stream')
       \/ hungUp /\ UNCHANGED written
    /\ open' = FALSE
    /\ cur' = parsed + 1
    /\ UNCHANGED <<clientVars, dispatchSeq, deliverSeq, buffered, pendingSlow, parsed, part, writeReg,
                   closing, loopVars, busVars>>

(* Mutant: the wake-up pipe is emptied after the bus instead of before it.  *)
FlushAllThenWake ==
    /\ pc = "flush"
    /\ IF open /\ (~OutEmpty \/ closing)
       THEN FlushConn(closing)
       ELSE UNCHANGED <<open, written, writeReg>>
    /\ pc' = "wait"
    /\ pipe' = 0
    /\ UNCHANGED <<clientVars, connVars, readVars, closing, events, inFlight, bus, poking, pushes>>

(* `flush_all`, the last thing of a round; QUIT closes the connection once  *)
(* there is no output.                                                     *)
FlushAll ==
    /\ pc = "flush"
    /\ IF open /\ (~OutEmpty \/ closing)
       THEN FlushConn(closing)
       ELSE UNCHANGED <<open, written, writeReg>>
    /\ pc' = "wait"
    /\ UNCHANGED <<clientVars, connVars, readVars, closing, events, busVars>>

----------------------------------------------------------------------------
(* The IO thread: `run`, `handle_event` *)

Ready ==
    (IF pipe > 0 THEN {"wake"} ELSE {})
        \cup (IF open /\ (parsed < sent \/ hungUp) THEN {"read"} ELSE {})
        \cup (IF open /\ writeReg /\ (CanWrite \/ hungUp) THEN {"write"} ELSE {})

(* `kevent` returns what is ready; another client may be ready too.        *)
Kevent ==
    /\ pc = "wait"
    /\ \/ events' = Ready /\ UNCHANGED pushes
       \/ pushes < MaxPush /\ events' = Ready \cup {"other"} /\ pushes' = pushes + 1
    /\ events' # {}
    /\ pc' = "events"
    /\ UNCHANGED <<clientVars, connVars, readVars, sockVars, inFlight, bus, poking, pipe>>

(* No request read earlier is still to be dispatched.                      *)
Between == pc = "events" /\ (cur > parsed \/ ~open)

HandleWake ==
    /\ Between
    /\ "wake" \in events
    /\ events' = events \ {"wake"}
    /\ pipe' = 0
    /\ UNCHANGED <<clientVars, connVars, readVars, sockVars, pc, inFlight, bus, poking, pushes>>

(* `handle_read`: a buffer of what has arrived, or the end of the stream.  *)
HandleRead ==
    /\ Between
    /\ "read" \in events
    /\ events' = events \ {"read"}
    /\ \/ ~open /\ UNCHANGED <<parsed, open>>
       \/ open /\ parsed < sent /\ parsed' \in parsed + 1 .. sent /\ UNCHANGED open
       \/ open /\ parsed = sent /\ open' = FALSE /\ UNCHANGED parsed
    /\ UNCHANGED <<clientVars, connVars, cur, part, written, writeReg, closing, pc, busVars>>

HandleWrite ==
    /\ Between
    /\ "write" \in events
    /\ events' = events \ {"write"}
    /\ \/ open /\ FlushConn(FALSE)
       \/ ~open /\ UNCHANGED <<open, written, writeReg>>
    /\ UNCHANGED <<clientVars, connVars, readVars, closing, pc, busVars>>

(* Another client publishes to a channel of this one (`local_publish`).    *)
HandleOther ==
    /\ Between
    /\ "other" \in events
    /\ events' = events \ {"other"}
    /\ stream' = IF open THEN Append(stream, [push |-> TRUE]) ELSE stream
    /\ UNCHANGED <<clientVars, dispatchSeq, deliverSeq, buffered, pendingSlow, readVars, sockVars, pc,
                   busVars>>

EventsDone ==
    /\ Between
    /\ events = {}
    /\ pc' = "drain"
    /\ UNCHANGED <<clientVars, connVars, readVars, sockVars, events, busVars>>

(* `drain_bus`: the next message; those for a closed connection are dropped.    *)
DrainOne ==
    /\ pc = "drain"
    /\ bus # <<>>
    /\ bus' = Tail(bus)
    /\ \/ open /\ IsReply(Head(bus)) /\ Deliver(Head(bus), pendingSlow)
       \/ /\ open /\ ~IsReply(Head(bus))
          /\ stream' = Append(stream, Head(bus))
          /\ UNCHANGED <<deliverSeq, buffered, pendingSlow>>
       \/ ~open /\ UNCHANGED <<deliverSeq, buffered, stream, pendingSlow>>
    /\ UNCHANGED <<clientVars, dispatchSeq, readVars, sockVars, loopVars, inFlight, poking, pipe, pushes>>

DrainDone ==
    /\ pc = "drain"
    /\ bus = <<>>
    /\ pc' = "flush"
    /\ UNCHANGED <<clientVars, connVars, readVars, sockVars, events, busVars>>

----------------------------------------------------------------------------
IoStep ==
    \/ Kevent
    \/ HandleWake
    \/ HandleRead
    \/ HandleWrite
    \/ HandleOther
    \/ Dispatch
    \/ ProtocolError
    \/ EventsDone
    \/ DrainOne
    \/ DrainDone
    \/ FlushAll

Next ==
    \/ ClientSend
    \/ ClientRead
    \/ ClientHangup
    \/ \E x \in inFlight : SendReply(x)
    \/ SendInvalidation
    \/ Poke
    \/ IoStep

Spec == Init /\ [][Next]_vars

(* The IO thread loops, the other threads answer what they were sent, and  *)
(* the client reads its socket.                                            *)
Fairness ==
    /\ WF_vars(IoStep)
    /\ WF_vars(\E x \in inFlight : SendReply(x))
    /\ WF_vars(Poke)
    /\ WF_vars(ClientRead)

FairSpec == Spec /\ Fairness

----------------------------------------------------------------------------
(* Properties *)

(* Part p of request r comes before part q of request t.                   *)
Earlier(r, p, t, q) == r < t \/ (r = t /\ p < q)

(* The client gets its replies in the order of its requests, none missing   *)
(* in between and none twice, in whatever order the shards and the          *)
(* coordinator finish (`deliver`; mod.rs:444 "`seq` preserves request       *)
(* order").                                                                *)
InOrder ==
    /\ \A j \in DOMAIN stream : IsReply(stream[j]) =>
          \A r \in Requests : \A p \in 1 .. NumParts(r) :
              Earlier(r, p, stream[j].req, stream[j].part) =>
                  \E i \in 1 .. j - 1 :
                      IsReply(stream[i]) /\ stream[i].req = r /\ stream[i].part = p
    /\ \A i, j \in DOMAIN stream :
          (IsReply(stream[i]) /\ IsReply(stream[j])
             /\ stream[i].req = stream[j].req /\ stream[i].part = stream[j].part) => i = j

(* The IO thread never sleeps in `kevent` over work nobody will wake it     *)
(* for: a message in the bus has a byte in the pipe or one about to be      *)
(* written (mod.rs:490-498), and output left over has a write event         *)
(* registered (event_loop.rs:2715-2734).                                     *)
NeverSleepsOnWork ==
    pc = "wait" =>
        /\ bus # <<>> => pipe > 0 \/ poking > 0
        /\ open /\ ~OutEmpty => writeReg

(* Every request is answered in full, unless the connection is closed.      *)
Answered ==
    \A r \in Requests : \A p \in 1 .. NumParts(r) :
        sent >= r ~> \/ ~open
                     \/ \E i \in 1 .. consumed :
                            IsReply(stream[i]) /\ stream[i].req = r /\ stream[i].part = p

(* A connection that QUIT closes has been sent the +OK of that QUIT         *)
(* (event_loop.rs:1314 "reply `+OK`, then close once the reply is flushed"). *)
QuitAnswered ==
    (~open /\ closing /\ ~hungUp) =>
        \E i \in 1 .. written : IsReply(stream[i]) /\ CmdOf[stream[i].req].kind = "quit"
=============================================================================
