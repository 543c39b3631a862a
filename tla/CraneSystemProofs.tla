-------------------------- MODULE CraneSystemProofs --------------------------
(***************************************************************************)
(* Proofs about the client and its crane (CraneSystem), for every value of *)
(* the constants: frames may be lost, the crane may leave at any time, and *)
(* the user may hang up in the middle of anything.                         *)
(*                                                                         *)
(* What is said of a session holds up to the second connection attempt:    *)
(* the acks queue is never emptied, so an ack of the first session may     *)
(* reach an action of the second.                                          *)
(***************************************************************************)
EXTENDS CraneSystem, CraneClientProofs

(***************************** the inductive invariant *********************)

IsConnect(p) == p.type = "connect"
IsSyn(p)     == IsConnect(p) /\ "SYN" \in p.flags
IsOffer(p)   == IsConnect(p) /\ {"SYN", "ACK"} \subseteq p.flags
IsAction(p)  == p.type = "action"
IsAck(p)     == p.type = "status" /\ "NAK" \notin p.flags

\* What is in the air: frames o, packets t on their way to the client.
HasSyn(o)     == \E i \in 1..Len(o) : IsSyn(o[i].pkt)
HasConnect(o) == \E i \in 1..Len(o) : IsConnect(o[i].pkt)
HasAction(o)  == \E i \in 1..Len(o) : IsAction(o[i].pkt)
HasOffer(t)   == \E i \in 1..Len(t) : IsOffer(t[i])
HasClose(t)   == \E i \in 1..Len(t) : t[i].type = "close"

OneConnect(o) ==
    \A i, j \in 1..Len(o) : IsConnect(o[i].pkt) /\ IsConnect(o[j].pkt) => i = j
OneOffer(t) == \A i, j \in 1..Len(t) : IsOffer(t[i]) /\ IsOffer(t[j]) => i = j

\* Only what was sent to nobody is ahead of the SYN.
SynFirst(o) ==
    \A i \in 1..Len(o) : o[i].dst # Nobody => \E j \in 1..i : IsSyn(o[j].pkt)

ActionsUpTo(o, n) == \A i \in 1..Len(o) : IsAction(o[i].pkt) => o[i].pkt.seq <= n
TellsUpTo(t, n)   == \A i \in 1..Len(t) : IsAck(t[i]) => t[i].seq <= n
AcksUpTo(a, n)    == \A i \in 1..Len(a) : a[i] <= n

\* An ACTION in the air was confirmed before, or it is one of those in C.
Numbered(p, n, C) == IsAction(p) => p.seq < n \/ p.seq = 0 \/ p \in C
Window(o, n, C)   == \A i \in 1..Len(o) : Numbered(o[i].pkt, n, C)

Opening  == {"clear_state", "clear_seq", "clear_crane", "open_state", "open_send"}
Leaving  == {"close", "close_send", "drop_state"}
Dropping == {"drop_seq", "redrop_seq"}

\* Where the only SYN may be, the crane's side of the session is running or
\* may still begin, and the client has not seen the connection stand.
Unsent == opens = 0 \/ pc \in Opening
Live   == mode # "free" \/ Unsent \/ HasSyn(out)
NotYet == Unsent \/ HasSyn(out) \/ HasOffer(toClient) \/ rx \in Joining

\* crane_action's packet is an ACTION, crane_disconnect's a CLOSE; outside of
\* them there is none.
CallInv ==
    /\ pc \in Waiting => call.pkt.type = "action"
    /\ pc = "close_send" => call.pkt.type = "close" /\ call.ack = 0
    /\ pc \notin Waiting \cup {"close_send"} => call = NoCall

\* The crane has at most executed what it accepted.
QueueInv == queue <= next - 1

\* Before the first connection attempt main does nothing but hang up.
IdleInv ==
    opens = 0 => /\ pc \notin Opening \cup {"test", "idle", "handshake"}
                 /\ todo = <<>> /\ crane = Nobody

\* Before the crane hears the SYN nothing has come from it.
QuietInv ==
    Unsent \/ HasSyn(out) => /\ mode = "free" /\ toClient = <<>> /\ rx = "ready"
                             /\ acks = <<>> /\ SynFirst(out)

\* The handshake is in one place at a time.
TokenInv ==
    /\ OneConnect(out) /\ OneOffer(toClient)
    /\ HasConnect(out) => /\ ~Unsent /\ ~HasOffer(toClient)
                          /\ rx # "conn_send" /\ mode # "controlled"
    /\ HasOffer(toClient) => rx \notin Joining /\ mode # "controlled"
    /\ rx = "conn_send" => mode # "controlled"

NotYetInv ==
    NotYet => /\ next = 1 /\ seq \in {0, 1} /\ st # "connected"
              /\ pc \notin Acting /\ ~HasAction(out)

CloseInv == HasClose(toClient) \/ rx \in {"close_state", "close_crane"} => mode = "free"

\* No acknowledgement runs ahead of the crane.
AckInv ==
    Live => TellsUpTo(toClient, next - 1) /\ AcksUpTo(acks, next - 1) /\ call.ack <= next - 1

\* An ACTION in the air that is not an old one is the one main waits for, or
\* waited for when it gave up.
Current == {p \in Packet : \/ pc \in Waiting /\ p = call.pkt
                           \/ pc \in Leaving /\ p.seq = seq}

Between == pc \notin Waiting \cup Leaving

WindowInv ==
    Live =>
      /\ mode = "challenged" => next = 1
      /\ ActionsUpTo(out, next)
      /\ pc \in Acting => st = "connected"
      /\ pc \in Waiting => seq = call.pkt.seq /\ (next = seq + 1 => accepted \/ seq = 0)
      /\ st = "connected" => /\ next - seq \in {0, 1} /\ Window(out, seq, Current)
                             /\ Between => next = seq \/ seq = 0
                             /\ pc \in Dropping => next = 1 /\ ~HasAction(out)

SessionInv == IdleInv /\ QuietInv /\ TokenInv /\ NotYetInv /\ CloseInv /\ AckInv /\ WindowInv

\* What holds whatever the number of connection attempts.
AnyInv == SystemTypeOK /\ IInv /\ CallInv /\ QueueInv

(***************************** types ***************************************)

LEMMA TellType ==
    ASSUME toClient \in Seq(Packet), Len(toClient) <= NetDepth, NEW p \in Packet, Tell(p)
    PROVE  toClient' \in Seq(Packet) /\ Len(toClient') <= NetDepth
<1>1. CASE toClient' = Append(toClient, p) /\ Len(toClient) < NetDepth
  BY <1>1, AppendProperties, LenProperties, ClientAssumption
<1> QED
  BY <1>1 DEF Tell

\* Numbers that the crane sends fit the packet.
LEMMA FlaggedType ==
    ASSUME NEW n \in 1..SeqMax + 1, NEW q \in 0..SeqMax, NEW f \in SUBSET Flags
    PROVE  /\ StatusPkt(n, q) \in Packet
           /\ [StatusPkt(n, q) EXCEPT !.flags = f] \in Packet
<1>1. n - 1 \in SeqNo /\ q \in Word
  BY ClientAssumption, SystemAssumption DEF SeqNo, Word
<1>2. /\ StatusPkt(n, q) = [type |-> "status", flags |-> {}, seq |-> n - 1, d |-> q]
      /\ [StatusPkt(n, q) EXCEPT !.flags = f]
            = [type |-> "status", flags |-> f, seq |-> n - 1, d |-> q]
  BY DEF StatusPkt, Pkt
<1> QED
  BY <1>1, <1>2 DEF Packet

LEMMA StatusType ==
    ASSUME NEW n \in 1..SeqMax + 1, NEW q \in 0..SeqMax
    PROVE  StatusPkt(n, q) \in Packet
<1>1. {} \in SUBSET Flags
  OBVIOUS
<1> QED
  BY <1>1, FlaggedType

\* Every step of the system is a step of the client, or none of its business.
LEMMA NextIsClientNext ==
    ASSUME SystemTypeOK, Next
    PROVE  \/ User \/ Main \/ Svc \/ Carry \/ UNCHANGED clientVars
           \/ \E p \in Packet : Receive(p)
<1>1. CASE MainSteps
  BY <1>1 DEF MainSteps
<1>2. CASE Deliver
  <2>1. Head(toClient) \in Packet
    BY <1>2, HeadTailProperties DEF Deliver, SystemTypeOK
  <2> QED
    BY <1>2, <2>1 DEF Deliver
<1>3. CASE SvcSteps
  BY <1>3 DEF SvcSteps
<1>4. ASSUME NEW p, CraneSyn(p) \/ CraneAck(p) \/ CraneAction(p) \/ CraneClose(p)
      PROVE  Carry
  BY <1>4 DEF CraneSyn, CraneAck, CraneAction, CraneClose, Hears, Unmoved, Carry
<1>5. CASE Astray
  BY <1>5 DEF Astray, Unmoved, Carry
<1>6. CASE CraneStatus \/ CraneExecute \/ CraneQuit
  BY <1>6 DEF CraneStatus, CraneExecute, CraneQuit, Unmoved, clientVars, flow, main, svc
<1> QED
  BY <1>1, <1>2, <1>3, <1>4, <1>5, <1>6 DEF Next, Crane

\* So the client's invariant holds in the system.
LEMMA ClientPart == SystemTypeOK /\ IInv /\ [Next]_vars => IInv'
<1> SUFFICES ASSUME SystemTypeOK, IInv, [Next]_vars PROVE IInv'
  OBVIOUS
<1>1. CASE User \/ Main \/ Svc \/ Carry \/ UNCHANGED clientVars
  BY <1>1, StepIInv DEF ClientNext
<1>2. CASE \E p \in Packet : Receive(p)
  BY <1>2, ReceiveStep
<1>3. CASE UNCHANGED vars
  BY <1>3, StepIInv DEF vars
<1> QED
  BY <1>1, <1>2, <1>3, NextIsClientNext

\* The types of what the crane and the air add to the client.
CraneTypes ==
    /\ mode \in {"free", "challenged", "controlled"}
    /\ chal \in Word /\ testing \in BOOLEAN
    /\ next \in 1..SeqMax + 1 /\ queue \in 0..SeqMax
AirTypes == toClient \in Seq(Packet) /\ Len(toClient) <= NetDepth
HistTypes == accepted \in BOOLEAN /\ opens \in 0..MaxOpens

LEMMA SystemTypes == SystemTypeOK <=> TypeOK /\ CraneTypes /\ AirTypes /\ HistTypes
BY DEF SystemTypeOK, CraneTypes, AirTypes, HistTypes

LEMMA CraneTypesStep ==
    ASSUME AnyInv, [Next]_vars PROVE (CraneTypes /\ AirTypes /\ HistTypes /\ QueueInv)'
<1>0. /\ TypeOK /\ CraneTypes /\ AirTypes /\ HistTypes /\ QueueInv
  BY SystemTypes DEF AnyInv
<1> USE ClientAssumption, SystemAssumption
<1>1. ASSUME UNCHANGED craneVars PROVE CraneTypes' /\ QueueInv'
  BY <1>0, <1>1 DEF craneVars, CraneTypes, QueueInv
<1>2. ASSUME UNCHANGED toClient PROVE AirTypes'
  BY <1>0, <1>2 DEF AirTypes
<1>3. ASSUME UNCHANGED <<accepted, opens>> PROVE HistTypes'
  BY <1>0, <1>3 DEF HistTypes
<1>4. ASSUME NEW p \in Packet, Tell(p) PROVE AirTypes'
  BY <1>0, <1>4, TellType DEF AirTypes
<1>5. CASE MainSteps
  <2>1. UNCHANGED <<toClient, craneVars>> /\ accepted' = (accepted /\ pc' \in Acting)
    BY <1>5 DEF MainSteps
  <2>2. opens' \in 0..MaxOpens
    BY <1>0, <1>5 DEF MainSteps, HistTypes
  <2>3. accepted' \in BOOLEAN
    BY <2>1, Zenon
  <2> QED
    BY <1>1, <1>2, <2>1, <2>2, <2>3 DEF HistTypes
<1>6. CASE Deliver
  <2>1. UNCHANGED <<craneVars, accepted, opens>> /\ toClient # <<>> /\ toClient' = Tail(toClient)
    BY <1>6 DEF Deliver
  <2>2. AirTypes'
    BY <1>0, <2>1, HeadTailProperties, LenProperties DEF AirTypes
  <2> QED
    BY <1>1, <1>3, <2>1, <2>2
<1>7. CASE SvcSteps
  BY <1>1, <1>2, <1>3, <1>7 DEF SvcSteps
<1>8. ASSUME NEW p, Hears(p) PROVE p \in Packet
  <2>1. out \in Seq(Frame) /\ out # <<>> /\ Head(out).pkt = p
    BY <1>0, <1>8 DEF Hears, TypeOK
  <2>2. Head(out) \in Frame
    BY <2>1, HeadTailProperties
  <2> QED
    BY <2>1, <2>2 DEF Frame
<1>9. ASSUME NEW p, CraneSyn(p) PROVE CraneTypes' /\ QueueInv' /\ AirTypes' /\ HistTypes'
  <2>1. p.flags \in SUBSET Flags
    BY <1>8, <1>9 DEF CraneSyn, Packet
  <2>2. HistTypes'
    BY <1>3, <1>9 DEF CraneSyn, Unmoved
  <2>3. CASE mode = "controlled"
    <3>1. Pkt("connect", {"NAK"}, 0, 0) \in Packet
      BY Constants, PktType DEF Flags
    <3> QED
      BY <1>1, <1>4, <1>9, <2>2, <2>3, <3>1 DEF CraneSyn
  <2>4. CASE mode # "controlled"
    <3>1. PICK c \in Challenges :
             /\ mode' = "challenged" /\ chal' = c /\ testing' = ("TEST" \in p.flags)
             /\ UNCHANGED <<next, queue>>
             /\ Tell(Pkt("connect", {"SYN", "ACK"} \cup (p.flags \cap {"TEST"}), 0, c))
      BY <1>9, <2>4 DEF CraneSyn
    <3>2. Pkt("connect", {"SYN", "ACK"} \cup (p.flags \cap {"TEST"}), 0, c) \in Packet
      <4>1. {"SYN", "ACK"} \cup (p.flags \cap {"TEST"}) \in SUBSET Flags
        BY DEF Flags
      <4> QED
        BY <4>1, Constants, PktType
    <3>3. testing' \in BOOLEAN
      <4>1. testing' = ("TEST" \in p.flags)
        BY <3>1
      <4> QED
        BY ONLY <4>1
    <3>4. CraneTypes'
      BY <1>0, <3>1, <3>3 DEF CraneTypes
    <3> QED
      BY <1>0, <1>4, <2>2, <3>1, <3>2, <3>4 DEF QueueInv
  <2> QED
    BY <2>3, <2>4
<1>10. ASSUME NEW p, CraneAck(p) PROVE CraneTypes' /\ QueueInv' /\ AirTypes' /\ HistTypes'
  <2>1. HistTypes'
    BY <1>3, <1>10 DEF CraneAck, Unmoved
  <2>2. CASE UNCHANGED <<craneVars, toClient>>
    BY <1>1, <1>2, <2>1, <2>2
  <2>3. CASE /\ mode' = "controlled" /\ next' = 1 /\ queue' = 0
             /\ UNCHANGED <<chal, testing>> /\ Tell(StatusPkt(1, 0))
    <3>1. 1 \in 1..SeqMax + 1 /\ 0 \in 0..SeqMax
      OBVIOUS
    <3>2. StatusPkt(1, 0) \in Packet
      BY ONLY <3>1, StatusType
    <3>3. CraneTypes' /\ QueueInv'
      BY <1>0, <2>3 DEF CraneTypes, QueueInv
    <3> QED
      BY <1>4, <2>1, <2>3, <3>2, <3>3
  <2> QED
    BY <1>10, <2>2, <2>3 DEF CraneAck
<1>11. ASSUME NEW p, CraneAction(p) PROVE CraneTypes' /\ QueueInv' /\ AirTypes' /\ HistTypes'
  <2>0. p \in Packet /\ opens' = opens
    BY <1>8, <1>11 DEF CraneAction, Unmoved
  <2>1. CASE CraneAccept(p)
    <3> DEFINE q == IF p.d = Stop THEN 0 ELSE queue + 1
    <3>1. /\ p.seq = next /\ next' = next + 1 /\ queue' = q
          /\ accepted' = (accepted \/ p = call.pkt)
          /\ Tell(StatusPkt(next + 1, q)) /\ UNCHANGED <<mode, chal, testing>>
      BY <2>1 DEF CraneAccept
    <3>2. next \in 1..SeqMax /\ q <= next /\ q \in 0..SeqMax
      BY <1>0, <2>0, <3>1 DEF CraneTypes, QueueInv, Packet, SeqNo
    <3>3. StatusPkt(next + 1, q) \in Packet
      <4>1. next + 1 \in 1..SeqMax + 1
        BY <3>2
      <4> QED
        BY ONLY <3>2, <4>1, StatusType
    <3>4. CraneTypes' /\ QueueInv'
      BY <1>0, <3>1, <3>2 DEF CraneTypes, QueueInv
    <3>5. accepted' \in BOOLEAN
      BY <3>1, Zenon
    <3> QED
      BY <1>0, <1>4, <2>0, <3>1, <3>3, <3>4, <3>5 DEF HistTypes
  <2>2. ASSUME NEW f \in SUBSET Flags, UNCHANGED <<craneVars, accepted>>,
               Tell([StatusPkt(next, queue) EXCEPT !.flags = f])
        PROVE  CraneTypes' /\ QueueInv' /\ AirTypes' /\ HistTypes'
    <3>1. [StatusPkt(next, queue) EXCEPT !.flags = f] \in Packet
      BY <1>0, FlaggedType DEF CraneTypes
    <3> QED
      BY <1>1, <1>3, <1>4, <2>0, <2>2, <3>1
  <2>3. CASE UNCHANGED <<craneVars, toClient, accepted>>
    BY <1>1, <1>2, <1>3, <2>0, <2>3
  <2>4. (IF p.seq > next THEN {"NAK"} ELSE {}) \in SUBSET Flags
    BY DEF Flags
  <2> QED
    BY <1>11, <2>1, <2>2, <2>3, <2>4 DEF CraneAction
<1>12. Pkt("close", {}, 0, 0) \in Packet
  BY Constants, PktType
<1>13. ASSUME NEW p, CraneClose(p) PROVE CraneTypes' /\ QueueInv' /\ AirTypes' /\ HistTypes'
  <2>1. /\ mode' = "free" /\ UNCHANGED <<chal, testing, next, queue, accepted, opens>>
        /\ Tell(Pkt("close", {}, 0, 0)) \/ UNCHANGED toClient
    BY <1>13 DEF CraneClose, Unmoved
  <2>2. CraneTypes' /\ QueueInv'
    BY <1>0, <2>1 DEF CraneTypes, QueueInv
  <2> QED
    BY <1>2, <1>3, <1>4, <1>12, <2>1, <2>2
<1>14. CASE Astray
  BY <1>1, <1>2, <1>3, <1>14 DEF Astray, Unmoved
<1>15. CASE CraneStatus
  <2>1. StatusPkt(next, queue) \in Packet
    BY <1>0, StatusType DEF CraneTypes
  <2> QED
    BY <1>1, <1>3, <1>4, <1>15, <2>1 DEF CraneStatus, Unmoved
<1>16. CASE CraneExecute
  <2>1. /\ queue > 0 /\ queue' = queue - 1
        /\ UNCHANGED <<mode, chal, testing, next, toClient, accepted, opens>>
    BY <1>16 DEF CraneExecute, Unmoved
  <2>2. CraneTypes' /\ QueueInv'
    BY <1>0, <2>1 DEF CraneTypes, QueueInv
  <2> QED
    BY <1>2, <1>3, <2>1, <2>2
<1>17. CASE CraneQuit
  <2>1. /\ mode' = "free" /\ UNCHANGED <<chal, testing, next, queue, accepted, opens>>
        /\ Tell(Pkt("close", {}, 0, 0))
    BY <1>17 DEF CraneQuit, Unmoved
  <2>2. CraneTypes' /\ QueueInv'
    BY <1>0, <2>1 DEF CraneTypes, QueueInv
  <2> QED
    BY <1>3, <1>4, <1>12, <2>1, <2>2
<1>18. CASE UNCHANGED vars
  BY <1>1, <1>2, <1>3, <1>18 DEF vars
<1> QED
  BY <1>5, <1>6, <1>7, <1>9, <1>10, <1>11, <1>13, <1>14, <1>15, <1>16, <1>17, <1>18
     DEF Next, Crane

(***************************** the call ************************************)

USE DEF Acting, Waiting, Joining, Leaving

\* The packet of crane_action lives as long as the call waits, that of
\* crane_disconnect until it is sent.
LEMMA CallStep ==
    ASSUME TypeOK, CallInv, User \/ Main \/ Svc \/ Carry \/ UNCHANGED clientVars
                    \/ (\E p \in Packet : Receive(p))
    PROVE  CallInv'
<1> USE DEF CallInv, Goto
<1>0. call \in [pkt : Packet, attempt : 0..MaxAttempts - 1, ack : SeqNo, copies : Nat]
  BY DEF TypeOK
<1>1. CASE UNCHANGED <<pc, call>>
  BY <1>1
<1>2. CASE Svc \/ Carry \/ UNCHANGED clientVars \/ (\E p \in Packet : Receive(p))
  BY <1>1, <1>2 DEF Svc, ConnSend, ConnSeq, ConnState, StatusStore, CloseState, CloseCrane,
     Carry, clientVars, Receive, RecvConnect, RecvStatus, RecvClose, RecvDropped, main
<1>3. CASE User
  BY <1>3 DEF User, Open, Test, Close, Act
<1>4. CASE Dial
  BY <1>4 DEF Dial, ClearState, ClearSeq, ClearCrane, OpenState, OpenSend, HandshakeDone,
     HandshakeTimeout
<1>5. CASE Drop
  <2>1. CASE Disconnect
    BY <2>1 DEF Disconnect, NoCall, Pkt
  <2>2. CASE DisconnectSend \/ DropState \/ DropSeq
    BY <2>2 DEF DisconnectSend, DropState, DropSeq, AfterCall
  <2> QED
    BY <1>5, <2>1, <2>2 DEF Drop
<1>6. CASE Script
  BY <1>6 DEF Script, TestStep, IdleDone, IdleTimeout
<1>7. ASSUME NEW r, pc \in Waiting, NextAttempt(r) PROVE CallInv'
  <2>1. \/ pc' = "close" /\ call' = NoCall
        \/ pc' = "await" /\ call' = [call EXCEPT !.attempt = call.attempt + 1,
                                                 !.copies = call.copies + r]
    BY <1>7 DEF NextAttempt
  <2> QED
    BY <1>0, <1>7, <2>1
<1>8. CASE Flow
  <2>1. CASE ActCrane
    BY <2>1 DEF ActCrane, AfterCall
  <2>2. CASE ActSend
    BY <2>2 DEF ActSend, Pkt
  <2>3. CASE FirstAck \/ AckTimeout \/ DrainAck \/ Drained
    BY <1>0, <2>3 DEF FirstAck, AckTimeout, DrainAck, Drained
  <2>4. CASE Retransmit
    BY <1>7, <2>4 DEF Retransmit
  <2>5. CASE Stale
    BY <1>7, <2>5 DEF Stale
  <2>6. CASE NotAhead
    BY <1>7, <2>6 DEF NotAhead
  <2>7. CASE Ahead \/ Match
    BY <2>7 DEF Ahead, Match
  <2>8. CASE Bump
    BY <2>8 DEF Bump, AfterCall
  <2> QED
    BY <1>8, <2>1, <2>2, <2>3, <2>4, <2>5, <2>6, <2>7, <2>8 DEF Flow
<1> QED
  BY <1>2, <1>3, <1>4, <1>5, <1>6, <1>8 DEF Main

\* What holds whatever the number of attempts is inductive.
LEMMA AnyStep == AnyInv /\ [Next]_vars => AnyInv'
<1> SUFFICES ASSUME AnyInv, [Next]_vars PROVE AnyInv'
  OBVIOUS
<1>1. IInv'
  BY ClientPart DEF AnyInv
<1>2. (CraneTypes /\ AirTypes /\ HistTypes /\ QueueInv)'
  BY CraneTypesStep
<1>3. TypeOK'
  BY <1>1 DEF IInv
<1>4. SystemTypeOK'
  BY <1>2, <1>3 DEF SystemTypeOK, CraneTypes, AirTypes, HistTypes
<1>5. CallInv'
  <2>1. CASE Next
    BY <2>1, CallStep, NextIsClientNext DEF AnyInv, IInv
  <2>2. CASE UNCHANGED vars
    BY <2>2, CallStep DEF AnyInv, IInv, vars
  <2> QED
    BY <2>1, <2>2
<1> QED
  BY <1>1, <1>2, <1>4, <1>5 DEF AnyInv

LEMMA InitAny == Init => AnyInv
<1> SUFFICES ASSUME Init PROVE AnyInv
  OBVIOUS
<1> USE ClientAssumption, SystemAssumption DEF Init
<1>1. IInv
  BY InitIInv
<1>2. CraneTypes /\ QueueInv
  <2>1. testing \in BOOLEAN
    OBVIOUS
  <2> QED
    BY <2>1, Constants DEF CraneTypes, QueueInv
<1>3. AirTypes
  BY LenProperties DEF AirTypes
<1>4. HistTypes
  <2>1. accepted \in BOOLEAN
    OBVIOUS
  <2>2. opens \in 0..MaxOpens
    OBVIOUS
  <2> QED
    BY <2>1, <2>2 DEF HistTypes
<1>5. CallInv
  BY DEF CallInv, ClientInit
<1> QED
  BY <1>1, <1>2, <1>3, <1>4, <1>5, SystemTypes DEF AnyInv, IInv

(***************************** the air *************************************)

\* What appending a frame does to the predicates on the air.
LEMMA AppendAir ==
    ASSUME NEW o \in Seq(Frame), NEW f \in Frame
    PROVE  LET a == Append(o, f) IN
           /\ HasSyn(a) <=> HasSyn(o) \/ IsSyn(f.pkt)
           /\ HasConnect(a) <=> HasConnect(o) \/ IsConnect(f.pkt)
           /\ HasAction(a) <=> HasAction(o) \/ IsAction(f.pkt)
           /\ OneConnect(o) /\ ~(IsConnect(f.pkt) /\ HasConnect(o)) => OneConnect(a)
           /\ SynFirst(o) /\ (f.dst = Nobody \/ HasSyn(o) \/ IsSyn(f.pkt)) => SynFirst(a)
<1> DEFINE a == Append(o, f)
<1>1. /\ Len(o) \in Nat /\ Len(a) = Len(o) + 1 /\ a[Len(o) + 1] = f
      /\ \A i \in 1..Len(o) : a[i] = o[i]
  BY AppendProperties, LenProperties
<1> HIDE DEF a
<1>2. HasSyn(a) <=> HasSyn(o) \/ IsSyn(f.pkt)
  BY <1>1 DEF HasSyn
<1>3. HasConnect(a) <=> HasConnect(o) \/ IsConnect(f.pkt)
  BY <1>1 DEF HasConnect
<1>4. HasAction(a) <=> HasAction(o) \/ IsAction(f.pkt)
  BY <1>1 DEF HasAction
<1>5. OneConnect(o) /\ ~(IsConnect(f.pkt) /\ HasConnect(o)) => OneConnect(a)
  BY <1>1 DEF OneConnect, HasConnect
<1>6. SynFirst(o) /\ (f.dst = Nobody \/ HasSyn(o) \/ IsSyn(f.pkt)) => SynFirst(a)
  BY <1>1 DEF SynFirst, HasSyn
<1> QED
  BY <1>2, <1>3, <1>4, <1>5, <1>6 DEF a

LEMMA AppendActions ==
    ASSUME NEW o \in Seq(Frame), NEW f \in Frame, NEW n \in Int, NEW C
    PROVE  LET a == Append(o, f) IN
           /\ ActionsUpTo(o, n) /\ (IsAction(f.pkt) => f.pkt.seq <= n) => ActionsUpTo(a, n)
           /\ Window(o, n, C) /\ Numbered(f.pkt, n, C) => Window(a, n, C)
<1> DEFINE a == Append(o, f)
<1>1. /\ Len(o) \in Nat /\ Len(a) = Len(o) + 1 /\ a[Len(o) + 1] = f
      /\ \A i \in 1..Len(o) : a[i] = o[i]
  BY AppendProperties, LenProperties
<1> HIDE DEF a
<1>2. ActionsUpTo(o, n) /\ (IsAction(f.pkt) => f.pkt.seq <= n) => ActionsUpTo(a, n)
  BY <1>1 DEF ActionsUpTo
<1>3. Window(o, n, C) /\ Numbered(f.pkt, n, C) => Window(a, n, C)
  BY <1>1 DEF Window
<1> QED
  BY <1>2, <1>3 DEF a

\* What taking the first frame does to them.
LEMMA TailAir ==
    ASSUME NEW o \in Seq(Frame), o # <<>>
    PROVE  LET h == Head(o) u == Tail(o) IN
           /\ h \in Frame
           /\ HasSyn(o) <=> HasSyn(u) \/ IsSyn(h.pkt)
           /\ HasConnect(o) <=> HasConnect(u) \/ IsConnect(h.pkt)
           /\ HasAction(o) <=> HasAction(u) \/ IsAction(h.pkt)
           /\ OneConnect(o) => OneConnect(u) /\ ~(IsConnect(h.pkt) /\ HasConnect(u))
           /\ SynFirst(o) /\ ~IsSyn(h.pkt) => h.dst = Nobody /\ SynFirst(u)
<1> DEFINE h == Head(o) u == Tail(o)
<1>1. /\ Len(o) \in Nat /\ Len(o) >= 1 /\ h = o[1] /\ h \in Frame /\ Len(u) = Len(o) - 1
      /\ \A i \in 1..Len(u) : u[i] = o[i + 1]
  BY HeadTailProperties, LenProperties
<1>0. \A i \in 1..Len(o) : i # 1 => i - 1 \in 1..Len(u) /\ u[i - 1] = o[i]
  BY <1>1
<1> HIDE DEF h, u
<1>2. HasSyn(o) <=> HasSyn(u) \/ IsSyn(h.pkt)
  BY <1>0, <1>1 DEF HasSyn
<1>3. HasConnect(o) <=> HasConnect(u) \/ IsConnect(h.pkt)
  BY <1>0, <1>1 DEF HasConnect
<1>4. HasAction(o) <=> HasAction(u) \/ IsAction(h.pkt)
  BY <1>0, <1>1 DEF HasAction
<1>5. OneConnect(o) => OneConnect(u) /\ ~(IsConnect(h.pkt) /\ HasConnect(u))
  <2> SUFFICES ASSUME OneConnect(o) PROVE OneConnect(u) /\ ~(IsConnect(h.pkt) /\ HasConnect(u))
    OBVIOUS
  <2>1. 1 \in 1..Len(o) /\ \A i \in 1..Len(u) : i + 1 \in 1..Len(o) /\ i + 1 # 1
    BY <1>1
  <2>2. \A i, j \in 1..Len(u) : IsConnect(u[i].pkt) /\ IsConnect(u[j].pkt) => i + 1 = j + 1
    BY <1>1, <2>1 DEF OneConnect
  <2>3. OneConnect(u)
    BY <2>2 DEF OneConnect
  <2>4. \A i \in 1..Len(u) : ~(IsConnect(h.pkt) /\ IsConnect(u[i].pkt))
    BY <1>1, <2>1 DEF OneConnect
  <2> QED
    BY <2>3, <2>4 DEF HasConnect
<1>6. SynFirst(o) /\ ~IsSyn(h.pkt) => h.dst = Nobody /\ SynFirst(u)
  <2> SUFFICES ASSUME SynFirst(o), ~IsSyn(h.pkt) PROVE h.dst = Nobody /\ SynFirst(u)
    OBVIOUS
  <2>1. h.dst = Nobody
    BY <1>1 DEF SynFirst
  <2>2. ASSUME NEW i \in 1..Len(u), u[i].dst # Nobody
        PROVE  \E j \in 1..i : IsSyn(u[j].pkt)
    <3>1. i + 1 \in 1..Len(o) /\ o[i + 1].dst # Nobody
      BY <1>1, <2>2
    <3>2. PICK j \in 1..i + 1 : IsSyn(o[j].pkt)
      BY <3>1 DEF SynFirst
    <3>3. j # 1
      BY <1>1, <3>2
    <3>4. j - 1 \in 1..i /\ u[j - 1] = o[j]
      BY <1>0, <1>1, <3>2, <3>3
    <3> QED
      BY <3>2, <3>4
  <2> QED
    BY <2>1, <2>2 DEF SynFirst
<1> QED
  BY <1>1, <1>2, <1>3, <1>4, <1>5, <1>6 DEF h, u

LEMMA TailActions ==
    ASSUME NEW o \in Seq(Frame), o # <<>>, NEW n, NEW C
    PROVE  LET h == Head(o) u == Tail(o) IN
           /\ ActionsUpTo(o, n) => ActionsUpTo(u, n) /\ (IsAction(h.pkt) => h.pkt.seq <= n)
           /\ Window(o, n, C) => Window(u, n, C) /\ Numbered(h.pkt, n, C)
<1>1. /\ Len(o) \in Nat /\ Len(o) >= 1 /\ Head(o) = o[1] /\ Len(Tail(o)) = Len(o) - 1
      /\ \A i \in 1..Len(Tail(o)) : Tail(o)[i] = o[i + 1]
  BY HeadTailProperties, LenProperties
<1>2. ActionsUpTo(o, n) => ActionsUpTo(Tail(o), n) /\ (IsAction(Head(o).pkt) => Head(o).pkt.seq <= n)
  BY <1>1 DEF ActionsUpTo
<1>3. Window(o, n, C) => Window(Tail(o), n, C) /\ Numbered(Head(o).pkt, n, C)
  BY <1>1 DEF Window
<1> QED
  BY <1>2, <1>3

\* The bounds may grow, and where there is no ACTION there is nothing to say.
LEMMA Weaken ==
    ASSUME NEW o \in Seq(Frame), NEW t \in Seq(Packet), NEW a \in Seq(SeqNo),
           NEW n \in Int, NEW m \in Int, n <= m
    PROVE  /\ ActionsUpTo(o, n) => ActionsUpTo(o, m)
           /\ TellsUpTo(t, n) => TellsUpTo(t, m)
           /\ AcksUpTo(a, n) => AcksUpTo(a, m)
<1>1. ASSUME NEW i \in 1..Len(o) PROVE o[i].pkt.seq \in Nat
  <2>1. o[i] \in Frame
    BY ElementOfSeq
  <2> QED
    BY <2>1, ClientAssumption DEF Frame, Packet, SeqNo
<1>2. ASSUME NEW i \in 1..Len(t) PROVE t[i].seq \in Nat
  <2>1. t[i] \in Packet
    BY ElementOfSeq
  <2> QED
    BY <2>1, ClientAssumption DEF Packet, SeqNo
<1>3. ASSUME NEW i \in 1..Len(a) PROVE a[i] \in Nat
  <2>1. a[i] \in SeqNo
    BY ElementOfSeq
  <2> QED
    BY <2>1, ClientAssumption DEF SeqNo
<1>4. ActionsUpTo(o, n) => ActionsUpTo(o, m)
  BY <1>1 DEF ActionsUpTo
<1>5. TellsUpTo(t, n) => TellsUpTo(t, m)
  BY <1>2 DEF TellsUpTo
<1>6. AcksUpTo(a, n) => AcksUpTo(a, m)
  BY <1>3 DEF AcksUpTo
<1> QED
  BY <1>4, <1>5, <1>6

LEMMA WeakenWindow ==
    ASSUME NEW o \in Seq(Frame), NEW n, NEW C, NEW m, NEW D, Window(o, n, C),
           \A p \in Packet : Numbered(p, n, C) => Numbered(p, m, D)
    PROVE  Window(o, m, D)
<1>1. ASSUME NEW i \in 1..Len(o) PROVE o[i].pkt \in Packet
  <2>1. o[i] \in Frame
    BY ElementOfSeq
  <2> QED
    BY <2>1 DEF Frame
<1> QED
  BY <1>1 DEF Window

LEMMA NoActions ==
    ASSUME NEW o, ~HasAction(o), NEW n, NEW C
    PROVE  ActionsUpTo(o, n) /\ Window(o, n, C)
BY DEF HasAction, ActionsUpTo, Window, Numbered

LEMMA SynConnects == ASSUME NEW o, HasSyn(o) PROVE HasConnect(o)
BY DEF HasSyn, HasConnect, IsSyn

LEMMA AppendTells ==
    ASSUME NEW t \in Seq(Packet), NEW p \in Packet, NEW n \in Int
    PROVE  LET a == Append(t, p) IN
           /\ HasOffer(a) <=> HasOffer(t) \/ IsOffer(p)
           /\ HasClose(a) <=> HasClose(t) \/ p.type = "close"
           /\ OneOffer(t) /\ ~(IsOffer(p) /\ HasOffer(t)) => OneOffer(a)
           /\ TellsUpTo(t, n) /\ (IsAck(p) => p.seq <= n) => TellsUpTo(a, n)
<1> DEFINE a == Append(t, p)
<1>1. /\ Len(t) \in Nat /\ Len(a) = Len(t) + 1 /\ a[Len(t) + 1] = p
      /\ \A i \in 1..Len(t) : a[i] = t[i]
  BY AppendProperties, LenProperties
<1> HIDE DEF a
<1>2. HasOffer(a) <=> HasOffer(t) \/ IsOffer(p)
  BY <1>1 DEF HasOffer
<1>3. HasClose(a) <=> HasClose(t) \/ p.type = "close"
  BY <1>1 DEF HasClose
<1>4. OneOffer(t) /\ ~(IsOffer(p) /\ HasOffer(t)) => OneOffer(a)
  BY <1>1 DEF OneOffer, HasOffer
<1>5. TellsUpTo(t, n) /\ (IsAck(p) => p.seq <= n) => TellsUpTo(a, n)
  BY <1>1 DEF TellsUpTo
<1> QED
  BY <1>2, <1>3, <1>4, <1>5 DEF a

LEMMA TailTells ==
    ASSUME NEW t \in Seq(Packet), t # <<>>, NEW n
    PROVE  LET h == Head(t) u == Tail(t) IN
           /\ h \in Packet
           /\ HasOffer(t) <=> HasOffer(u) \/ IsOffer(h)
           /\ HasClose(t) <=> HasClose(u) \/ h.type = "close"
           /\ OneOffer(t) => OneOffer(u) /\ ~(IsOffer(h) /\ HasOffer(u))
           /\ TellsUpTo(t, n) => TellsUpTo(u, n) /\ (IsAck(h) => h.seq <= n)
<1> DEFINE h == Head(t) u == Tail(t)
<1>1. /\ Len(t) \in Nat /\ Len(t) >= 1 /\ h = t[1] /\ h \in Packet /\ Len(u) = Len(t) - 1
      /\ \A i \in 1..Len(u) : u[i] = t[i + 1]
  BY HeadTailProperties, LenProperties
<1>0. \A i \in 1..Len(t) : i # 1 => i - 1 \in 1..Len(u) /\ u[i - 1] = t[i]
  BY <1>1
<1> HIDE DEF h, u
<1>2. HasOffer(t) <=> HasOffer(u) \/ IsOffer(h)
  BY <1>0, <1>1 DEF HasOffer
<1>3. HasClose(t) <=> HasClose(u) \/ h.type = "close"
  BY <1>0, <1>1 DEF HasClose
<1>4. OneOffer(t) => OneOffer(u) /\ ~(IsOffer(h) /\ HasOffer(u))
  BY <1>1 DEF OneOffer, HasOffer
<1>5. TellsUpTo(t, n) => TellsUpTo(u, n) /\ (IsAck(h) => h.seq <= n)
  BY <1>1 DEF TellsUpTo
<1> QED
  BY <1>1, <1>2, <1>3, <1>4, <1>5 DEF h, u

LEMMA AcksBound ==
    ASSUME NEW a \in Seq(SeqNo), NEW n \in Int, AcksUpTo(a, n)
    PROVE  /\ \A q \in SeqNo : q <= n => AcksUpTo(Append(a, q), n)
           /\ a # <<>> => AcksUpTo(Tail(a), n) /\ Head(a) <= n
<1>1. ASSUME NEW q \in SeqNo, q <= n PROVE AcksUpTo(Append(a, q), n)
  BY <1>1, AppendProperties, LenProperties DEF AcksUpTo
<1>2. a # <<>> => AcksUpTo(Tail(a), n) /\ Head(a) <= n
  BY HeadTailProperties, LenProperties DEF AcksUpTo
<1> QED
  BY <1>1, <1>2

(***************************** main ****************************************)

\* The numbers in the client and the crane, and what the client's own
\* invariant says of them.
Plain ==
    /\ SeqMax \in Nat /\ SeqMax >= 2 /\ opens \in Nat
    /\ seq \in 0..SeqMax /\ next \in 1..SeqMax + 1
    /\ call.pkt \in Packet /\ call.pkt.seq \in 0..SeqMax /\ call.ack \in 0..SeqMax - 1
    /\ call \in [pkt : Packet, attempt : 0..MaxAttempts - 1, ack : SeqNo, copies : Nat]
    /\ out \in Seq(Frame) /\ toClient \in Seq(Packet) /\ acks \in Seq(SeqNo)

LEMMA PlainFacts == AnyInv => Plain
<1> SUFFICES ASSUME AnyInv PROVE Plain
  OBVIOUS
<1>1. /\ TypeOK /\ CraneTypes /\ AirTypes /\ HistTypes /\ Numbers
  BY SystemTypes DEF AnyInv, IInv
<1>2. call.pkt \in Packet /\ call.pkt.seq \in SeqNo
  BY <1>1 DEF TypeOK, Packet
<1> QED
  BY <1>1, <1>2, ClientAssumption, SystemAssumption
     DEF Plain, TypeOK, CraneTypes, AirTypes, HistTypes, Numbers, SeqNo

\* An ACTION in the air stays numbered as main moves on.
LEMMA KeepWindow ==
    ASSUME Plain, UNCHANGED out, Window(out, seq, Current),
           \A p \in Packet : IsAction(p) /\ p \in Current =>
                                p.seq < seq' \/ p.seq = 0 \/ p \in Current',
           seq' >= seq, seq' \in Nat
    PROVE  Window(out, seq, Current)'
<1>1. ASSUME NEW p \in Packet, Numbered(p, seq, Current) PROVE Numbered(p, seq', Current')
  <2>1. p.seq \in Nat /\ seq \in Nat
    BY ClientAssumption DEF Packet, SeqNo, Plain
  <2> QED
    BY <1>1, <2>1 DEF Numbered
<1>2. Window(out, seq', Current')
  BY <1>1, WeakenWindow DEF Plain
<1> QED
  BY <1>2

\* The waiting call moves on, maybe with another acknowledgement in hand ...
LEMMA WaitOn ==
    ASSUME Plain, CallInv, SessionInv, MainSteps, UNCHANGED <<flow, todo, out, rx>>,
           pc \in Waiting, pc' \in Waiting, call'.pkt = call.pkt,
           Live => AcksUpTo(acks', next - 1) /\ call'.ack <= next - 1
    PROVE  SessionInv'
<1> USE DEF SessionInv, Plain
<1>1. /\ UNCHANGED <<toClient, mode, next, opens>> /\ UNCHANGED <<st, seq, crane>>
      /\ ~NotYet /\ ~Unsent /\ ~HasSyn(out)
  BY DEF MainSteps, craneVars, flow, NotYetInv, NotYet
<1>2. accepted => accepted'
  <2>1. accepted' = (accepted /\ pc' \in Acting)
    BY DEF MainSteps
  <2>2. pc' \in Acting
    OBVIOUS
  <2> QED
    BY ONLY <2>1, <2>2
<1>3. (Live' <=> Live) /\ (NotYet' <=> NotYet) /\ (Unsent' <=> Unsent)
  BY <1>1 DEF Live, NotYet, Unsent, Opening
<1>4. Current' = Current
  BY <1>1 DEF Current
<1>5. (IdleInv /\ QuietInv /\ TokenInv /\ CloseInv)'
  BY <1>1, <1>3 DEF IdleInv, QuietInv, TokenInv, CloseInv, Opening
<1>6. NotYetInv'
  BY <1>1, <1>3 DEF NotYetInv
<1>7. AckInv'
  BY <1>1, <1>3 DEF AckInv
<1>8. WindowInv'
  BY <1>1, <1>2, <1>3, <1>4 DEF WindowInv, Between, Dropping
<1> QED
  BY <1>5, <1>6, <1>7, <1>8

\* ... or is given up.
LEMMA GiveUp ==
    ASSUME Plain, CallInv, SessionInv, MainSteps, UNCHANGED <<flow, acks, todo, out, rx>>,
           pc \in Waiting, pc' = "close", call' = NoCall
    PROVE  SessionInv'
<1> USE DEF SessionInv, Plain
<1>1. /\ UNCHANGED <<toClient, mode, next, opens>> /\ UNCHANGED <<st, seq, crane>>
      /\ ~NotYet /\ ~Unsent /\ ~HasSyn(out) /\ call'.ack = 0
  BY DEF MainSteps, craneVars, flow, NotYetInv, NotYet, NoCall
<1>3. (Live' <=> Live) /\ (NotYet' <=> NotYet) /\ (Unsent' <=> Unsent)
  BY <1>1 DEF Live, NotYet, Unsent, Opening
<1>4. Live /\ st = "connected" => Window(out, seq, Current)'
  BY <1>1, KeepWindow DEF Current, WindowInv
<1>5. (IdleInv /\ QuietInv /\ TokenInv /\ CloseInv)'
  BY <1>1, <1>3 DEF IdleInv, QuietInv, TokenInv, CloseInv, Opening
<1>6. NotYetInv'
  BY <1>1, <1>3 DEF NotYetInv
<1>7. AckInv'
  BY <1>1, <1>3 DEF AckInv
<1>8. WindowInv'
  BY <1>1, <1>3, <1>4 DEF WindowInv, Between, Dropping
<1> QED
  BY <1>5, <1>6, <1>7, <1>8

\* The action it waited for counts, and the next one may follow.
LEMMA BumpStep ==
    ASSUME Plain, CallInv, AckIsOwn, SessionInv, MainSteps, Bump
    PROVE  SessionInv'
<1> USE DEF SessionInv, Plain
<1>1. /\ UNCHANGED <<toClient, mode, next, opens, out, rx, st, crane, acks, todo>>
      /\ pc = "bump" /\ pc' \in {"cli", "test"} /\ call' = NoCall /\ call'.ack = 0
      /\ pc' = "test" => todo # <<>>
      /\ ~NotYet /\ ~Unsent /\ ~HasSyn(out)
  BY DEF MainSteps, craneVars, svc, Bump, AfterCall, Goto, NotYetInv, NotYet, NoCall
<1>2. (Live' <=> Live) /\ (NotYet' <=> NotYet) /\ (Unsent' <=> Unsent)
  BY <1>1 DEF Live, NotYet, Unsent, Opening
<1>3. Live => seq = call.ack /\ seq + 1 = next /\ seq = call.pkt.seq
  BY <1>1 DEF AckIsOwn, AckInv, WindowInv
<1>4. Live => seq' = seq + 1
  <2>1. \E old \in {seq, call.ack} : seq' = (old + 1) % (SeqMax + 1)
    BY DEF Bump
  <2>2. Live => seq' = (seq + 1) % (SeqMax + 1) /\ seq + 1 \in 0..SeqMax
    BY <1>3, <2>1
  <2>3. ASSUME NEW k \in 0..SeqMax PROVE k % (SeqMax + 1) = k
    BY ONLY <2>3, ClientAssumption
  <2> QED
    BY <2>2, <2>3
<1>5. Live /\ st = "connected" => Window(out, seq, Current)'
  BY <1>1, <1>3, <1>4, KeepWindow DEF Current, WindowInv
<1>6. (IdleInv /\ QuietInv /\ TokenInv /\ CloseInv)'
  BY <1>1, <1>2 DEF IdleInv, QuietInv, TokenInv, CloseInv, Opening
<1>7. NotYetInv'
  BY <1>1, <1>2 DEF NotYetInv
<1>8. AckInv'
  BY <1>1, <1>2 DEF AckInv
<1>9. WindowInv'
  BY <1>1, <1>2, <1>3, <1>4, <1>5 DEF WindowInv, Between, Dropping
<1> QED
  BY <1>6, <1>7, <1>8, <1>9

\* main's steps that send nothing and do not belong to a waiting call.
LEMMA SilentStep ==
    ASSUME Plain, CallInv, SessionInv, MainSteps, opens' <= 1, UNCHANGED out,
           \/ User \/ Script \/ Disconnect \/ DropState \/ DropSeq \/ ActCrane
           \/ ClearState \/ ClearSeq \/ ClearCrane \/ OpenState
           \/ HandshakeDone \/ HandshakeTimeout
    PROVE  SessionInv'
<1> USE DEF Goto, MainSteps, flow, svc, craneVars, Plain, SessionInv, IdleInv, QuietInv,
    TokenInv, NotYetInv, CloseInv, AckInv, WindowInv, Unsent, NotYet, Live, Opening, Dropping,
    Between
<1>1. ASSUME NEW id \in Cranes, Open(id) \/ Test(id) PROVE SessionInv'
  BY <1>1 DEF Open, Test, Current
<1>2. CASE Close
  BY <1>2, KeepWindow DEF Close, Current
<1>3. ASSUME NEW a \in Cmds, Act(a) PROVE SessionInv'
  BY <1>3 DEF Act, Current
<1>4. CASE TestStep
  BY <1>4, KeepWindow DEF TestStep, Current
<1>5. CASE IdleDone \/ IdleTimeout
  BY <1>5 DEF IdleDone, IdleTimeout, Current
<1>6. CASE DropState
  BY <1>6 DEF DropState, Current
<1>7. CASE DropSeq
  BY <1>7, NoActions DEF DropSeq, Current, AfterCall
<1>8. CASE ActCrane
  BY <1>8 DEF ActCrane, Current, AfterCall
<1>9. CASE ClearState
  BY <1>9 DEF ClearState, Current
<1>10. CASE ClearSeq
  BY <1>10 DEF ClearSeq, Current
<1>11. CASE ClearCrane
  BY <1>11 DEF ClearCrane, Current
<1>12. CASE OpenState
  BY <1>12 DEF OpenState, Current
<1>13. CASE HandshakeDone \/ HandshakeTimeout
  BY <1>13 DEF HandshakeDone, HandshakeTimeout, Current
<1>14. CASE Disconnect
  <2>1. call'.ack = 0
    BY <1>14 DEF Disconnect, NoCall
  <2> QED
    BY <1>14, <2>1 DEF Disconnect, Current
<1> QED
  BY <1>1, <1>2, <1>3, <1>4, <1>5, <1>6, <1>7, <1>8, <1>9, <1>10, <1>11, <1>12, <1>13,
     <1>14 DEF User, Script

\* The steps of a waiting call that send nothing.
LEMMA FlowSilentStep ==
    ASSUME Plain, CallInv, AckIsOwn, SessionInv, MainSteps,
           FirstAck \/ AckTimeout \/ DrainAck \/ Drained \/ Ahead \/ NotAhead \/ Match
           \/ Stale \/ Bump
    PROVE  SessionInv'
<1> USE DEF Goto, svc
<1>1. Live => AcksUpTo(acks, next - 1) /\ call.ack <= next - 1
  BY DEF SessionInv, AckInv
<1>2. Live /\ acks # <<>> => AcksUpTo(Tail(acks), next - 1) /\ Head(acks) <= next - 1
  <2>1. next - 1 \in Int
    BY DEF Plain
  <2> QED
    BY <1>1, <2>1, AcksBound DEF Plain
<1>3. CASE FirstAck
  <2>1. /\ pc \in Waiting /\ pc' \in Waiting /\ UNCHANGED <<flow, todo, out, rx>>
        /\ acks # <<>> /\ acks' = Tail(acks) /\ call'.pkt = call.pkt /\ call'.ack = Head(acks)
    BY <1>3 DEF FirstAck, Plain
  <2> QED
    BY <1>2, <2>1, WaitOn
<1>4. CASE AckTimeout
  <2>1. /\ pc \in Waiting /\ pc' \in Waiting /\ UNCHANGED <<flow, acks, todo, out, rx>>
        /\ call'.pkt = call.pkt /\ call'.ack = 0
    BY <1>4 DEF AckTimeout, Plain
  <2>2. 0 <= next - 1
    BY DEF Plain
  <2> QED
    BY <1>1, <2>1, <2>2, WaitOn
<1>5. CASE DrainAck
  <2>1. /\ pc \in Waiting /\ pc' \in Waiting /\ UNCHANGED <<flow, todo, out, rx>>
        /\ acks # <<>> /\ acks' = Tail(acks) /\ call'.pkt = call.pkt
        /\ call'.ack \in {call.ack, Head(acks)}
    BY <1>5 DEF DrainAck, Plain
  <2> QED
    BY <1>1, <1>2, <2>1, WaitOn
<1>6. CASE Drained \/ Match
  <2>1. /\ pc \in Waiting /\ pc' \in Waiting /\ UNCHANGED <<flow, acks, todo, out, rx, call>>
    BY <1>6 DEF Drained, Match
  <2> QED
    BY <1>1, <2>1, WaitOn
<1>7. CASE Ahead
  BY <1>7, GiveUp DEF Ahead
<1>8. CASE NotAhead \/ Stale
  <2>1. /\ pc \in Waiting /\ UNCHANGED <<flow, acks, todo, out, rx>>
        /\ \/ pc' \in Waiting /\ call'.pkt = call.pkt /\ call'.ack = call.ack
           \/ pc' = "close" /\ call' = NoCall
    BY <1>8 DEF NotAhead, Stale, NextAttempt, Plain
  <2> QED
    BY <1>1, <2>1, WaitOn, GiveUp
<1>9. CASE Bump
  BY <1>9, BumpStep
<1> QED
  BY <1>3, <1>4, <1>5, <1>6, <1>7, <1>8, <1>9

(***************************** main and svc send ***************************)

\* What lownet_send does to the predicates on the air, lost or not.
LEMMA SendAir ==
    ASSUME Plain, NEW dst \in Cranes \cup {Nobody}, NEW p \in Packet, Send(dst, p)
    PROVE  /\ HasSyn(out) => HasSyn(out')
           /\ HasSyn(out') => HasSyn(out) \/ IsSyn(p)
           /\ HasConnect(out') => HasConnect(out) \/ IsConnect(p)
           /\ HasAction(out') => HasAction(out) \/ IsAction(p)
           /\ OneConnect(out) /\ ~(IsConnect(p) /\ HasConnect(out)) => OneConnect(out')
           /\ SynFirst(out) /\ (dst = Nobody \/ HasSyn(out) \/ IsSyn(p)) => SynFirst(out')
<1> DEFINE f == [dst |-> dst, pkt |-> p]
<1>1. f \in Frame /\ f.dst = dst /\ f.pkt = p
  BY DEF Frame
<1>2. out' = out \/ out' = Append(out, f)
  BY DEF Send
<1> HIDE DEF f
<1>3. CASE out' = Append(out, f)
  BY <1>1, <1>3, AppendAir DEF Plain
<1> QED
  BY <1>2, <1>3

LEMMA SendActions ==
    ASSUME Plain, NEW dst \in Cranes \cup {Nobody}, NEW p \in Packet, Send(dst, p),
           NEW n \in Int
    PROVE  /\ ActionsUpTo(out, n) /\ (IsAction(p) => p.seq <= n) => ActionsUpTo(out', n)
           /\ \A C : Window(out, n, C) /\ Numbered(p, n, C) => Window(out', n, C)
<1> DEFINE f == [dst |-> dst, pkt |-> p]
<1>1. f \in Frame /\ f.dst = dst /\ f.pkt = p
  BY DEF Frame
<1>2. out' = out \/ out' = Append(out, f)
  BY DEF Send
<1> HIDE DEF f
<1>3. CASE out' = Append(out, f)
  <2>1. ActionsUpTo(out, n) /\ (IsAction(p) => p.seq <= n) => ActionsUpTo(out', n)
    BY <1>1, <1>3, AppendActions DEF Plain
  <2>2. ASSUME NEW C, Window(out, n, C), Numbered(p, n, C) PROVE Window(out', n, C)
    BY <1>1, <1>3, <2>2, AppendActions DEF Plain
  <2> QED
    BY <2>1, <2>2
<1> QED
  BY <1>2, <1>3

\* The SYN of the only attempt.
LEMMA OpenSendStep ==
    ASSUME Plain, Arguments, CallInv, SessionInv, MainSteps, opens' <= 1, OpenSend
    PROVE  SessionInv'
<1> DEFINE p == Pkt("connect", IF todo = <<>> THEN {"SYN"} ELSE {"SYN", "TEST"}, 0, 0)
<1>1. /\ pc = "open_send" /\ pc' \in {"cli", "handshake"} /\ seq' = 0
      /\ pc' = "handshake" => todo # <<>>
      /\ UNCHANGED <<st, crane, acks, todo, call, rx, toClient, mode, next, opens>>
      /\ Send(arg, p) /\ arg \in Cranes
  BY DEF OpenSend, MainSteps, Goto, svc, craneVars, Arguments
<1>2. p \in Packet /\ IsConnect(p) /\ IsSyn(p) /\ ~IsAction(p)
  <2>1. (IF todo = <<>> THEN {"SYN"} ELSE {"SYN", "TEST"}) \in SUBSET Flags
    BY DEF Flags
  <2> QED
    BY <2>1, Constants, PktType DEF IsConnect, IsSyn, IsAction, Pkt
<1> HIDE DEF p
<1>3. Unsent /\ opens # 0 /\ ~Unsent'
  BY <1>1 DEF Unsent, Opening, SessionInv, IdleInv
<1>4. /\ next = 1 /\ st # "connected" /\ ~HasAction(out) /\ mode = "free" /\ toClient = <<>>
      /\ rx = "ready" /\ acks = <<>> /\ SynFirst(out) /\ ~HasConnect(out) /\ ~HasOffer(toClient)
  <2>1. ~HasOffer(<<>>)
    BY EmptySeq DEF HasOffer
  <2> QED
    BY <1>3, <2>1 DEF SessionInv, QuietInv, TokenInv, NotYetInv, NotYet
<1>5. /\ OneConnect(out') /\ SynFirst(out') /\ ~HasAction(out')
  BY <1>1, <1>2, <1>4, SendAir DEF SessionInv, TokenInv
<1>6. ActionsUpTo(out', next)
  BY <1>5, NoActions
<1> USE <1>1, <1>3, <1>4, <1>5, <1>6 DEF SessionInv, Plain
<1>7. (IdleInv /\ QuietInv /\ TokenInv /\ CloseInv)'
  BY DEF IdleInv, QuietInv, TokenInv, CloseInv
<1>8. NotYetInv'
  BY DEF NotYetInv
<1>9. AckInv'
  BY DEF AckInv, Live
<1>10. WindowInv'
  BY DEF WindowInv
<1> QED
  BY <1>7, <1>8, <1>9, <1>10

\* The CLOSE of crane_disconnect; before the first attempt it goes to nobody.
LEMMA DisconnectStep ==
    ASSUME Plain, crane \in Cranes \cup {Nobody}, CallInv, SessionInv, MainSteps, DisconnectSend
    PROVE  SessionInv'
<1> DEFINE p == call.pkt
<1>1. /\ pc = "close_send" /\ pc' = "drop_state" /\ call' = NoCall /\ call'.ack = 0
      /\ UNCHANGED <<st, seq, crane, acks, todo, rx, toClient, mode, next, opens>>
      /\ Send(crane, p)
  BY DEF DisconnectSend, MainSteps, Goto, flow, svc, craneVars, NoCall
<1>2. p \in Packet /\ ~IsConnect(p) /\ ~IsSyn(p) /\ ~IsAction(p)
  BY <1>1 DEF IsConnect, IsSyn, IsAction, Plain, CallInv
<1> HIDE DEF p
<1>3. (Unsent' <=> Unsent) /\ (Unsent => crane = Nobody)
  BY <1>1 DEF Unsent, Opening, SessionInv, IdleInv
<1>4. /\ HasSyn(out') <=> HasSyn(out)
      /\ HasConnect(out') => HasConnect(out)
      /\ HasAction(out') => HasAction(out)
      /\ OneConnect(out')
      /\ SynFirst(out) /\ (Unsent \/ HasSyn(out)) => SynFirst(out')
  BY <1>1, <1>2, <1>3, SendAir DEF SessionInv, TokenInv
<1>5. (Live' <=> Live) /\ (NotYet' <=> NotYet) /\ Current' = Current
  BY <1>1, <1>3, <1>4 DEF Live, NotYet, Current
<1>6. /\ ActionsUpTo(out, next) => ActionsUpTo(out', next)
      /\ Window(out, seq, Current) => Window(out, seq, Current)'
  <2>1. seq \in Int /\ next \in Int
    BY DEF Plain
  <2>2. \A C : Numbered(p, seq, C)
    BY <1>2 DEF Numbered
  <2>3. ActionsUpTo(out, next) => ActionsUpTo(out', next)
    BY <1>1, <1>2, <2>1, SendActions
  <2>4. Window(out, seq, Current) => Window(out', seq, Current)
    BY <1>1, <1>2, <2>1, <2>2, SendActions
  <2> QED
    BY <1>1, <1>5, <2>3, <2>4
<1> USE <1>1, <1>3, <1>4, <1>5, <1>6 DEF SessionInv, Plain
<1>7. (IdleInv /\ QuietInv /\ TokenInv /\ CloseInv)'
  BY DEF IdleInv, QuietInv, TokenInv, CloseInv, Opening
<1>8. NotYetInv'
  BY DEF NotYetInv
<1>9. AckInv'
  BY DEF AckInv
<1>10. WindowInv'
  BY DEF WindowInv, Between, Dropping
<1> QED
  BY <1>7, <1>8, <1>9, <1>10

\* The packet of a new crane_action.
LEMMA ActSendStep ==
    ASSUME Plain, Arguments, crane \in Cranes \cup {Nobody}, SessionInv, MainSteps, ActSend
    PROVE  SessionInv'
<1> DEFINE p == Pkt("action", {}, seq, arg)
<1>1. /\ pc = "act_send" /\ pc' = "await"
      /\ UNCHANGED <<st, seq, crane, acks, todo, rx, toClient, mode, next, opens>>
      /\ Send(crane, p) /\ arg \in Cmds
      /\ call' = [pkt |-> p, attempt |-> 0, ack |-> 0, copies |-> 1]
  BY DEF ActSend, MainSteps, Goto, flow, svc, craneVars, Arguments
<1>2. /\ p \in Packet /\ ~IsConnect(p) /\ ~IsSyn(p) /\ p.seq = seq
      /\ call'.pkt = p /\ call'.ack = 0
  <2>1. arg \in Word /\ seq \in SeqNo /\ {} \in SUBSET Flags
    BY <1>1, ClientAssumption DEF Plain, SeqNo
  <2>2. p \in Packet
    BY <2>1, PktType
  <2> QED
    BY <1>1, <2>2 DEF IsConnect, IsSyn, Pkt
<1> HIDE DEF p
<1>3. ~Unsent /\ ~HasSyn(out) /\ ~NotYet /\ ~Unsent'
  BY <1>1 DEF Unsent, Opening, NotYet, SessionInv, NotYetInv
<1>4. /\ HasSyn(out') <=> HasSyn(out)
      /\ HasConnect(out') => HasConnect(out)
      /\ OneConnect(out')
  BY <1>1, <1>2, <1>3, SendAir DEF SessionInv, TokenInv
<1>5. (Live' <=> Live) /\ ~NotYet' /\ Current = {} /\ p \in Current'
  BY <1>1, <1>2, <1>3, <1>4 DEF Live, NotYet, Current
<1>6. Live => /\ st = "connected" /\ next - seq \in {0, 1} /\ (next = seq \/ seq = 0)
              /\ ActionsUpTo(out, next) /\ Window(out, seq, Current)
  BY <1>1 DEF SessionInv, WindowInv, Between
<1>7. Live => ActionsUpTo(out', next) /\ Window(out, seq, Current)'
  <2>1. seq \in Int /\ next \in Int
    BY DEF Plain
  <2>2. Live => ActionsUpTo(out', next)
    <3>1. Live => p.seq <= next
      BY <1>2, <1>6, <2>1
    <3> QED
      BY <1>1, <1>2, <1>6, <2>1, <3>1, SendActions
  <2>3. \A q \in Packet : Numbered(q, seq, Current) => Numbered(q, seq, Current')
    BY <1>5 DEF Numbered
  <2>4. Live => Window(out, seq, Current')
    BY <1>6, <2>3, WeakenWindow DEF Plain
  <2>5. Numbered(p, seq, Current')
    BY <1>5 DEF Numbered
  <2>6. Live => Window(out', seq, Current')
    BY <1>1, <1>2, <2>1, <2>4, <2>5, SendActions
  <2> QED
    BY <1>1, <2>2, <2>6
<1> USE <1>1, <1>2, <1>3, <1>4, <1>5, <1>6, <1>7 DEF SessionInv, Plain
<1>8. (IdleInv /\ QuietInv /\ TokenInv /\ CloseInv)'
  BY DEF IdleInv, QuietInv, TokenInv, CloseInv, Opening
<1>9. NotYetInv'
  BY DEF NotYetInv
<1>10. AckInv'
  BY DEF AckInv
<1>11. WindowInv'
  BY DEF WindowInv, Between, Dropping
<1> QED
  BY <1>8, <1>9, <1>10, <1>11

\* The same packet once more, whether or not it is the last attempt.
LEMMA RetransmitStep ==
    ASSUME Plain, CallInv, crane \in Cranes \cup {Nobody}, SessionInv, MainSteps, Retransmit
    PROVE  SessionInv'
<1> DEFINE p == call.pkt
<1>1. /\ pc = "judge" /\ call.ack = 0
      /\ UNCHANGED <<st, seq, crane, acks, todo, rx, toClient, mode, next, opens>>
      /\ Send(crane, p)
      /\ \/ pc' = "await" /\ call'.pkt = p /\ call'.ack = 0
         \/ pc' = "close" /\ call' = NoCall /\ call'.ack = 0
  <2>1. /\ pc = "judge" /\ call.ack = 0 /\ Send(crane, p) /\ NextAttempt(1)
        /\ UNCHANGED <<st, seq, crane, acks, todo, rx, toClient, mode, next>>
    BY DEF Retransmit, MainSteps, flow, svc, craneVars
  <2>2. \/ pc' = "await" /\ call'.pkt = p /\ call'.ack = 0
        \/ pc' = "close" /\ call' = NoCall /\ call'.ack = 0
    <3>1. \/ pc' = "close" /\ call' = NoCall
          \/ pc' = "await" /\ call' = [call EXCEPT !.attempt = call.attempt + 1,
                                                   !.copies = call.copies + 1]
      BY <2>1 DEF NextAttempt
    <3>2. call \in [pkt : Packet, attempt : 0..MaxAttempts - 1, ack : SeqNo, copies : Nat]
      BY DEF Plain
    <3>3. CASE call' = [call EXCEPT !.attempt = call.attempt + 1, !.copies = call.copies + 1]
      <4>1. call'.pkt = call.pkt /\ call'.ack = call.ack
        BY ONLY <3>2, <3>3
      <4> QED
        BY <2>1, <3>1, <4>1 DEF NoCall
    <3> QED
      BY <3>1, <3>3 DEF NoCall
  <2>3. UNCHANGED opens
    BY <2>1 DEF MainSteps
  <2> QED
    BY <2>1, <2>2, <2>3
<1>2. p \in Packet /\ ~IsConnect(p) /\ ~IsSyn(p)
  BY <1>1 DEF CallInv, IsConnect, IsSyn, Plain
<1>3. ~Unsent /\ ~HasSyn(out) /\ ~NotYet /\ ~Unsent'
  BY <1>1 DEF Unsent, Opening, NotYet, SessionInv, NotYetInv
<1>4. /\ HasSyn(out') <=> HasSyn(out)
      /\ HasConnect(out') => HasConnect(out)
      /\ OneConnect(out')
  BY <1>1, <1>2, <1>3, SendAir DEF SessionInv, TokenInv
<1>5. Live => /\ st = "connected" /\ next - seq \in {0, 1} /\ seq = p.seq
              /\ ActionsUpTo(out, next) /\ Window(out, seq, Current)
  BY <1>1 DEF SessionInv, WindowInv
<1>6. (Live' <=> Live) /\ ~NotYet' /\ Current = {p} /\ (Live => Current \subseteq Current')
  BY <1>1, <1>2, <1>3, <1>4, <1>5 DEF Live, NotYet, Current
<1>7. Live => ActionsUpTo(out', next) /\ Window(out, seq, Current)'
  <2>1. seq \in Int /\ next \in Int
    BY DEF Plain
  <2>2. Live => ActionsUpTo(out', next)
    <3>1. Live => p.seq <= next
      BY <1>5, <2>1
    <3> QED
      BY <1>1, <1>2, <1>5, <2>1, <3>1, SendActions
  <2>3. Live => \A q \in Packet : Numbered(q, seq, Current) => Numbered(q, seq, Current')
    BY <1>6 DEF Numbered
  <2>4. Live => Window(out, seq, Current')
    BY <1>5, <2>3, WeakenWindow DEF Plain
  <2>5. Live => Numbered(p, seq, Current')
    BY <1>6 DEF Numbered
  <2>6. Live => Window(out', seq, Current')
    BY <1>1, <1>2, <2>1, <2>4, <2>5, SendActions
  <2> QED
    BY <1>1, <2>2, <2>6
<1>8. accepted /\ pc' = "await" => accepted'
  <2>1. accepted' = (accepted /\ pc' \in Acting)
    BY DEF MainSteps
  <2> QED
    BY ONLY <2>1 DEF Acting
<1> USE <1>1, <1>2, <1>3, <1>4, <1>5, <1>6, <1>7 DEF SessionInv, Plain
<1>9. (IdleInv /\ QuietInv /\ TokenInv /\ CloseInv)'
  BY DEF IdleInv, QuietInv, TokenInv, CloseInv, Opening
<1>10. NotYetInv'
  BY DEF NotYetInv
<1>11. AckInv'
  BY DEF AckInv
<1>12. WindowInv'
  BY <1>8 DEF WindowInv, Between, Dropping
<1> QED
  BY <1>9, <1>10, <1>11, <1>12

\* The final ACK of the handshake.
LEMMA ConnSendStep ==
    ASSUME Plain, CallInv, crane \in Cranes \cup {Nobody}, rpkt \in Packet, SessionInv,
           SvcSteps, ConnSend
    PROVE  SessionInv'
<1> DEFINE p == Pkt("connect", {"ACK"} \cup (rpkt.flags \cap {"TEST"}), 0, Complement(rpkt.d))
<1>1. /\ rx = "conn_send" /\ rx' = "conn_seq"
      /\ UNCHANGED <<st, seq, crane, acks, pc, todo, call, toClient, mode, next, opens, accepted>>
      /\ Send(crane, p)
  BY DEF ConnSend, SvcGoto, SvcSteps, flow, main, craneVars
<1>2. p \in Packet /\ ~IsSyn(p) /\ ~IsAction(p)
  <2>1. {"ACK"} \cup (rpkt.flags \cap {"TEST"}) \in SUBSET Flags
    BY DEF Flags
  <2>2. Complement(rpkt.d) \in Word
    BY ComplementType DEF Packet
  <2>3. p \in Packet
    BY <2>1, <2>2, Constants, PktType
  <2> QED
    BY <2>3 DEF IsSyn, IsAction, Pkt
<1> HIDE DEF p
<1>3. /\ ~Unsent /\ ~HasSyn(out) /\ ~HasConnect(out) /\ ~HasOffer(toClient)
      /\ mode # "controlled" /\ next = 1 /\ seq \in {0, 1} /\ st # "connected"
      /\ pc \notin Acting /\ ~HasAction(out)
  BY <1>1 DEF SessionInv, QuietInv, TokenInv, NotYetInv, NotYet
<1>4. ~HasSyn(out') /\ ~HasAction(out') /\ OneConnect(out')
  BY <1>1, <1>2, <1>3, SendAir DEF SessionInv, TokenInv
<1>5. (Live' <=> Live) /\ ~Unsent' /\ ActionsUpTo(out', next)
  BY <1>1, <1>3, <1>4, NoActions DEF Live, Unsent
<1> USE <1>1, <1>3, <1>4, <1>5 DEF SessionInv, Plain
<1>6. (IdleInv /\ QuietInv /\ TokenInv /\ CloseInv)'
  BY DEF IdleInv, QuietInv, TokenInv, CloseInv, Opening
<1>7. NotYetInv'
  BY DEF NotYetInv
<1>8. AckInv'
  BY DEF AckInv
<1>9. WindowInv'
  BY DEF WindowInv
<1> QED
  BY <1>6, <1>7, <1>8, <1>9

(***************************** svc *****************************************)

\* svc's stores: the end of a handshake, of a STATUS and of a CLOSE.
LEMMA StoreStep ==
    ASSUME Plain, CallInv, SessionInv, SvcSteps,
           ConnSeq \/ ConnState \/ StatusStore \/ CloseState \/ CloseCrane
    PROVE  SessionInv'
<1> USE DEF SvcGoto, SvcSteps, main, flow, craneVars, Plain, SessionInv, IdleInv, QuietInv,
    TokenInv, NotYetInv, CloseInv, AckInv, WindowInv, Unsent, NotYet, Live, Opening, Dropping,
    Between
<1>1. CASE ConnSeq
  BY <1>1 DEF ConnSeq
<1>2. CASE ConnState
  <2>1. ~HasAction(out)
    BY <1>2 DEF ConnState
  <2> QED
    BY <1>2, <2>1, NoActions DEF ConnState
<1>3. CASE StatusStore
  BY <1>3 DEF StatusStore, Current
<1>4. CASE CloseState
  BY <1>4 DEF CloseState
<1>5. CASE CloseCrane
  BY <1>5 DEF CloseCrane
<1> QED
  BY <1>1, <1>2, <1>3, <1>4, <1>5

\* A packet of the crane arrives.
LEMMA DeliverStep ==
    ASSUME Plain, CallInv, SessionInv, Deliver
    PROVE  SessionInv'
<1> DEFINE p == Head(toClient)
<1>0. next - 1 \in Int
  BY DEF Plain
<1>1. /\ toClient # <<>> /\ Receive(p) /\ toClient' = Tail(toClient)
      /\ UNCHANGED <<mode, next, accepted, opens>>
  BY DEF Deliver, craneVars
<1>2. /\ p \in Packet
      /\ HasOffer(toClient) <=> HasOffer(toClient') \/ IsOffer(p)
      /\ HasClose(toClient) <=> HasClose(toClient') \/ p.type = "close"
      /\ OneOffer(toClient') /\ ~(IsOffer(p) /\ HasOffer(toClient'))
      /\ TellsUpTo(toClient, next - 1) => /\ TellsUpTo(toClient', next - 1)
                                          /\ IsAck(p) => p.seq <= next - 1
  BY <1>1, TailTells DEF Plain, SessionInv, TokenInv
<1>3. ~Unsent /\ ~HasSyn(out)
  BY <1>1 DEF SessionInv, QuietInv
<1> HIDE DEF p
<1> USE <1>1, <1>2, <1>3 DEF flow, main, Plain, SessionInv, IdleInv, QuietInv,
    TokenInv, NotYetInv, CloseInv, AckInv, WindowInv, Unsent, NotYet, Live, Opening, Dropping,
    Between
<1>4. CASE RecvConnect(p)
  BY <1>4 DEF RecvConnect, IsOffer, IsConnect, Current
<1>5. CASE RecvStatus(p)
  <2>1. Live => AcksUpTo(acks', next - 1)
    <3>1. p.seq \in SeqNo
      BY DEF Packet
    <3> QED
      BY <1>0, <1>5, <3>1, AcksBound DEF RecvStatus, IsAck
  <2> QED
    BY <1>5, <2>1 DEF RecvStatus, Current
<1>6. CASE RecvClose(p)
  BY <1>6 DEF RecvClose
<1>7. CASE RecvDropped(p)
  BY <1>7 DEF RecvDropped, clientVars, Current
<1> QED
  BY <1>1, <1>4, <1>5, <1>6, <1>7 DEF Receive

(***************************** the crane ***********************************)

\* What the crane's answer does to the predicates on the air, lost or not.
LEMMA TellAir ==
    ASSUME Plain, NEW p \in Packet, Tell(p), NEW n \in Int
    PROVE  /\ HasOffer(toClient') => HasOffer(toClient) \/ IsOffer(p)
           /\ HasClose(toClient') => HasClose(toClient) \/ p.type = "close"
           /\ OneOffer(toClient) /\ ~(IsOffer(p) /\ HasOffer(toClient)) => OneOffer(toClient')
           /\ TellsUpTo(toClient, n) /\ (IsAck(p) => p.seq <= n) => TellsUpTo(toClient', n)
<1>1. toClient' = toClient \/ toClient' = Append(toClient, p)
  BY DEF Tell
<1>2. CASE toClient' = Append(toClient, p)
  BY <1>2, AppendTells DEF Plain
<1> QED
  BY <1>1, <1>2

\* The frame the crane hears, and what is left in the air.
LEMMA HearAir ==
    ASSUME Plain, SessionInv, NEW p, Hears(p), NEW n \in Int
    PROVE  /\ p \in Packet
           /\ HasSyn(out) <=> HasSyn(out') \/ IsSyn(p)
           /\ HasConnect(out) <=> HasConnect(out') \/ IsConnect(p)
           /\ HasAction(out) <=> HasAction(out') \/ IsAction(p)
           /\ OneConnect(out') /\ ~(IsConnect(p) /\ HasConnect(out'))
           /\ Unsent \/ HasSyn(out) => IsSyn(p)
           /\ ActionsUpTo(out, n) => ActionsUpTo(out', n) /\ (IsAction(p) => p.seq <= n)
           /\ \A C : Window(out, n, C) => Window(out', n, C) /\ Numbered(p, n, C)
<1>1. /\ out # <<>> /\ Head(out).dst = TheCrane /\ Head(out).pkt = p /\ out' = Tail(out)
      /\ out \in Seq(Frame)
  BY DEF Hears, Plain
<1>2. /\ Head(out) \in Frame
      /\ HasSyn(out) <=> HasSyn(out') \/ IsSyn(p)
      /\ HasConnect(out) <=> HasConnect(out') \/ IsConnect(p)
      /\ HasAction(out) <=> HasAction(out') \/ IsAction(p)
      /\ OneConnect(out) => OneConnect(out') /\ ~(IsConnect(p) /\ HasConnect(out'))
      /\ SynFirst(out) /\ ~IsSyn(p) => Head(out).dst = Nobody
  BY <1>1, TailAir
<1>3. p \in Packet
  BY <1>1, <1>2 DEF Frame
<1>4. Unsent \/ HasSyn(out) => IsSyn(p)
  BY <1>1, <1>2, SystemAssumption DEF SessionInv, QuietInv
<1>5. ActionsUpTo(out, n) => ActionsUpTo(out', n) /\ (IsAction(p) => p.seq <= n)
  BY <1>1, TailActions
<1>6. ASSUME NEW C, Window(out, n, C) PROVE Window(out', n, C) /\ Numbered(p, n, C)
  BY <1>1, <1>6, TailActions
<1> QED
  BY <1>2, <1>3, <1>4, <1>5, <1>6 DEF SessionInv, TokenInv

\* The SYN is the first thing the crane hears, and its SYN|ACK the first it says.
LEMMA SynStep ==
    ASSUME Plain, CallInv, SessionInv, NEW p, CraneSyn(p), opens <= 1
    PROVE  SessionInv'
<1>1. /\ UNCHANGED <<st, seq, crane, acks, pc, todo, call, rx, next, opens>>
      /\ Hears(p) /\ IsConnect(p) /\ IsSyn(p)
  BY DEF CraneSyn, Unmoved, flow, main, svc, craneVars, IsConnect, IsSyn
<1>2. /\ p \in Packet /\ HasSyn(out) /\ HasConnect(out) /\ ~HasConnect(out')
      /\ HasAction(out) <=> HasAction(out') \/ IsAction(p)
      /\ OneConnect(out')
  <2>1. 0 \in Int
    OBVIOUS
  <2> QED
    BY <1>1, <2>1, HearAir
<1>3. /\ ~Unsent /\ mode = "free" /\ toClient = <<>> /\ rx = "ready" /\ acks = <<>>
      /\ next = 1 /\ seq \in {0, 1} /\ st # "connected" /\ pc \notin Acting /\ ~HasAction(out')
  BY <1>2 DEF SessionInv, QuietInv, TokenInv, NotYetInv, NotYet
<1>4. ~HasSyn(out') /\ ActionsUpTo(out', next)
  BY <1>2, <1>3, SynConnects, NoActions
<1>5. PICK c \in Challenges :
        /\ mode' = "challenged"
        /\ Tell(Pkt("connect", {"SYN", "ACK"} \cup (p.flags \cap {"TEST"}), 0, c))
  BY <1>3 DEF CraneSyn
<1> DEFINE q == Pkt("connect", {"SYN", "ACK"} \cup (p.flags \cap {"TEST"}), 0, c)
<1>6. q \in Packet /\ ~IsAck(q) /\ q.type # "close"
  <2>1. {"SYN", "ACK"} \cup (p.flags \cap {"TEST"}) \in SUBSET Flags
    BY DEF Flags
  <2>2. q \in Packet
    BY <2>1, Constants, PktType, SystemAssumption
  <2> QED
    BY <2>2 DEF IsAck, Pkt
<1> HIDE DEF q
<1>7. ~HasOffer(toClient) /\ ~HasClose(toClient) /\ TellsUpTo(toClient, 0)
  BY <1>3, EmptySeq DEF HasOffer, HasClose, TellsUpTo
<1>8. ~HasClose(toClient') /\ OneOffer(toClient') /\ TellsUpTo(toClient', 0)
  <2>1. 0 \in Int
    OBVIOUS
  <2> QED
    BY <1>5, <1>6, <1>7, <2>1, TellAir DEF SessionInv, TokenInv, q
<1>9. AcksUpTo(acks, 0)
  BY <1>3, EmptySeq DEF AcksUpTo
<1>10. Unsent' <=> Unsent
  BY <1>1 DEF Unsent
<1> USE <1>1, <1>2, <1>3, <1>4, <1>5, <1>8, <1>9, <1>10 DEF SessionInv, Plain
<1>11. (IdleInv /\ QuietInv /\ TokenInv /\ CloseInv)'
  BY DEF IdleInv, QuietInv, TokenInv, CloseInv, Opening
<1>12. NotYetInv'
  BY DEF NotYetInv
<1>13. AckInv'
  BY DEF AckInv, CallInv, NoCall
<1>14. WindowInv'
  BY DEF WindowInv
<1> QED
  BY <1>11, <1>12, <1>13, <1>14

\* The final ACK gives control; the handshake is over for the crane.
LEMMA AckStep ==
    ASSUME Plain, CallInv, SessionInv, NEW p, CraneAck(p), opens <= 1
    PROVE  SessionInv'
<1>1. /\ UNCHANGED <<st, seq, crane, acks, pc, todo, call, rx, opens, accepted>>
      /\ Hears(p) /\ IsConnect(p) /\ ~IsSyn(p) /\ ~IsAction(p)
  BY DEF CraneAck, Unmoved, flow, main, svc, IsConnect, IsSyn, IsAction
<1>2. /\ HasConnect(out) /\ ~HasConnect(out') /\ OneConnect(out')
      /\ HasSyn(out') <=> HasSyn(out)
      /\ HasAction(out') <=> HasAction(out)
      /\ ~Unsent /\ ~HasSyn(out)
  <2>1. 0 \in Int
    OBVIOUS
  <2> QED
    BY <1>1, <2>1, HearAir
<1>3. /\ ~HasOffer(toClient) /\ rx # "conn_send" /\ mode # "controlled"
  BY <1>2 DEF SessionInv, TokenInv
<1>4. /\ ActionsUpTo(out, next) => ActionsUpTo(out', next)
      /\ Window(out, seq, Current) => Window(out, seq, Current)'
  <2>1. next \in Int /\ seq \in Int
    BY DEF Plain
  <2>2. Current' = Current
    BY <1>1 DEF Current
  <2>3. ActionsUpTo(out, next) => ActionsUpTo(out', next)
    BY <1>1, <2>1, HearAir
  <2>4. Window(out, seq, Current) => Window(out', seq, Current)
    BY <1>1, <2>1, HearAir
  <2> QED
    BY <1>1, <2>2, <2>3, <2>4
<1>5. Unsent' <=> Unsent
  BY <1>1 DEF Unsent
<1>6. CASE UNCHANGED <<craneVars, toClient>>
  <2> USE <1>1, <1>2, <1>3, <1>4, <1>5, <1>6 DEF craneVars, SessionInv, Plain
  <2>1. (IdleInv /\ QuietInv /\ TokenInv /\ CloseInv)'
    BY DEF IdleInv, QuietInv, TokenInv, CloseInv, Opening
  <2>2. (NotYetInv /\ AckInv)'
    BY DEF NotYetInv, NotYet, AckInv, Live
  <2>3. WindowInv'
    BY DEF WindowInv, Live, Between, Dropping
  <2> QED
    BY <2>1, <2>2, <2>3
<1>7. CASE mode = "challenged" /\ mode' = "controlled" /\ next' = 1 /\ Tell(StatusPkt(1, 0))
  <2>1. Live /\ ~Unsent' /\ ~HasSyn(out')
    BY <1>2, <1>5, <1>7 DEF Live
  <2>2. next = 1 /\ ~HasClose(toClient) /\ rx \notin {"close_state", "close_crane"}
    BY <1>7, <2>1 DEF SessionInv, WindowInv, CloseInv
  <2>3. /\ ~HasOffer(toClient') /\ OneOffer(toClient') /\ ~HasClose(toClient')
        /\ TellsUpTo(toClient', next - 1)
    <3>1. 1 \in 1..SeqMax + 1 /\ 0 \in 0..SeqMax
      BY ClientAssumption
    <3>2. StatusPkt(1, 0) \in Packet
      BY ONLY <3>1, StatusType
    <3>3. /\ ~IsOffer(StatusPkt(1, 0)) /\ StatusPkt(1, 0).type # "close"
          /\ StatusPkt(1, 0).seq = 0
      BY DEF IsOffer, IsConnect, StatusPkt, Pkt
    <3>4. next - 1 = 0 /\ 0 \in Int
      BY <2>2
    <3>5. TellsUpTo(toClient, 0)
      BY <2>1, <3>4 DEF SessionInv, AckInv
    <3> QED
      BY <1>3, <1>7, <2>2, <3>2, <3>3, <3>4, <3>5, TellAir DEF SessionInv, TokenInv
  <2> USE <1>1, <1>2, <1>3, <1>4, <1>5, <1>7, <2>1, <2>2, <2>3 DEF SessionInv, Plain
  <2>4. (IdleInv /\ QuietInv /\ TokenInv /\ CloseInv)'
    BY DEF IdleInv, QuietInv, TokenInv, CloseInv, Opening
  <2>5. (NotYetInv /\ AckInv)'
    BY DEF NotYetInv, NotYet, AckInv
  <2>6. WindowInv'
    BY DEF WindowInv, Between, Dropping
  <2> QED
    BY <2>4, <2>5, <2>6
<1> QED
  BY <1>6, <1>7 DEF CraneAck

\* What the crane repeats of its own: no offer, no CLOSE, no new number.
LEMMA RepeatStep ==
    ASSUME Plain, SessionInv, NEW q \in Packet, Tell(q), ~IsOffer(q), q.type # "close",
           IsAck(q) => q.seq <= next - 1
    PROVE  /\ HasOffer(toClient') => HasOffer(toClient)
           /\ HasClose(toClient') => HasClose(toClient)
           /\ OneOffer(toClient')
           /\ Live => TellsUpTo(toClient', next - 1)
<1>1. next - 1 \in Int
  BY DEF Plain
<1> QED
  BY <1>1, TellAir DEF SessionInv, TokenInv, AckInv

LEMMA StatusKind ==
    ASSUME NEW n \in 1..SeqMax + 1, NEW k \in 0..SeqMax, NEW f \in SUBSET Flags
    PROVE  LET q == [StatusPkt(n, k) EXCEPT !.flags = f] IN
           /\ StatusPkt(n, k) \in Packet /\ StatusPkt(n, k).seq = n - 1
           /\ ~IsOffer(StatusPkt(n, k)) /\ StatusPkt(n, k).type # "close"
           /\ q \in Packet /\ q.seq = n - 1 /\ ~IsOffer(q) /\ q.type # "close"
BY FlaggedType, StatusType DEF StatusPkt, Pkt, IsOffer, IsConnect

\* The crane accepts the packet main waits for, or refuses an old one.
LEMMA ActionStep ==
    ASSUME Plain, queue \in 0..SeqMax, QueueInv, CallInv, SessionInv, NEW p, CraneAction(p),
           opens <= 1
    PROVE  SessionInv'
<1>1. /\ UNCHANGED <<st, seq, crane, acks, pc, todo, call, rx, opens, mode>>
      /\ Hears(p) /\ IsAction(p)
  BY DEF CraneAction, CraneAccept, Unmoved, flow, main, svc, craneVars, IsAction
<1>2. /\ p \in Packet /\ HasAction(out)
      /\ HasSyn(out') => HasSyn(out)
      /\ HasConnect(out') => HasConnect(out)
      /\ OneConnect(out')
      /\ ~Unsent /\ ~HasSyn(out)
  <2>1. 0 \in Int
    OBVIOUS
  <2>2. ~IsSyn(p)
    BY <1>1 DEF IsAction, IsSyn, IsConnect
  <2> QED
    BY <1>1, <2>1, <2>2, HearAir
<1>3. ~NotYet /\ (Unsent' <=> Unsent) /\ (Live' <=> Live) /\ Current' = Current
  BY <1>1, <1>2 DEF SessionInv, NotYetInv, Unsent, Live, Current
<1>4. Live => /\ ActionsUpTo(out', next) /\ p.seq <= next
              /\ st = "connected" => Window(out, seq, Current)' /\ Numbered(p, seq, Current)
  <2>1. next \in Int /\ seq \in Int
    BY DEF Plain
  <2>2. Live => ActionsUpTo(out', next) /\ p.seq <= next
    BY <1>1, <2>1, HearAir DEF SessionInv, WindowInv
  <2>3. Live /\ st = "connected" => Window(out', seq, Current) /\ Numbered(p, seq, Current)
    BY <1>1, <2>1, HearAir DEF SessionInv, WindowInv
  <2> QED
    BY <1>1, <1>3, <2>2, <2>3
<1>5. ASSUME next' = next, accepted' = accepted,
             \/ UNCHANGED toClient
             \/ \E q \in Packet : /\ Tell(q) /\ ~IsOffer(q) /\ q.type # "close"
                                  /\ q.seq = next - 1
      PROVE  SessionInv'
  <2> DEFINE Told == /\ HasOffer(toClient') => HasOffer(toClient)
                     /\ HasClose(toClient') => HasClose(toClient)
                     /\ OneOffer(toClient')
                     /\ Live => TellsUpTo(toClient', next - 1)
  <2>1. Told
    <3>1. CASE UNCHANGED toClient
      BY <3>1 DEF SessionInv, TokenInv, AckInv
    <3>2. ASSUME NEW q \in Packet, Tell(q), ~IsOffer(q), q.type # "close", q.seq = next - 1
          PROVE  Told
      <4>1. q.seq <= next - 1
        BY <3>2 DEF Plain
      <4> QED
        BY <3>2, <4>1, RepeatStep
    <3> QED
      BY <1>5, <3>1, <3>2
  <2> USE <1>1, <1>2, <1>3, <1>4, <1>5, <2>1 DEF SessionInv, Plain
  <2>2. (IdleInv /\ QuietInv /\ TokenInv /\ CloseInv)'
    BY DEF IdleInv, QuietInv, TokenInv, CloseInv, Opening
  <2>3. (NotYetInv /\ AckInv)'
    BY DEF NotYetInv, NotYet, AckInv
  <2>4. WindowInv'
    BY DEF WindowInv, Between, Dropping
  <2> QED
    BY <2>2, <2>3, <2>4
<1>6. CASE CraneAccept(p)
  <2> DEFINE q == IF p.d = Stop THEN 0 ELSE queue + 1
             s == StatusPkt(next + 1, q)
  <2>1. mode = "controlled" /\ p.seq = next /\ next' = next + 1 /\ Tell(s)
    BY <1>6 DEF CraneAccept
  <2>2. Live /\ next \in 1..SeqMax
    BY <1>2, <2>1 DEF Live, Plain, Packet, SeqNo
  <2>3. s \in Packet /\ s.seq = next /\ ~IsOffer(s) /\ s.type # "close"
    <3>1. next + 1 \in 1..SeqMax + 1 /\ q \in 0..SeqMax /\ {} \in SUBSET Flags
      BY <2>2 DEF QueueInv, Plain
    <3>2. s \in Packet /\ s.seq = (next + 1) - 1 /\ ~IsOffer(s) /\ s.type # "close"
      BY ONLY <3>1, StatusKind
    <3> QED
      BY <2>2, <3>2
  <2> HIDE DEF s, q
  <2>4. /\ HasOffer(toClient') => HasOffer(toClient)
        /\ HasClose(toClient') => HasClose(toClient)
        /\ OneOffer(toClient') /\ TellsUpTo(toClient', next)
    <3>1. TellsUpTo(toClient, next - 1) /\ next - 1 \in Int /\ next \in Int /\ next - 1 <= next
      BY <2>2 DEF SessionInv, AckInv, Plain
    <3>2. TellsUpTo(toClient, next)
      BY <3>1, Weaken DEF Plain
    <3>3. s.seq <= next
      BY <2>3, <3>1
    <3> QED
      BY <2>1, <2>3, <3>1, <3>2, <3>3, TellAir DEF SessionInv, TokenInv
  <2>5. AcksUpTo(acks, next) /\ ActionsUpTo(out', next + 1)
    <3>1. /\ AcksUpTo(acks, next - 1) /\ next - 1 \in Int /\ next \in Int /\ next + 1 \in Int
          /\ next - 1 <= next /\ next <= next + 1
      BY <2>2 DEF SessionInv, AckInv, Plain
    <3>2. out' \in Seq(Frame)
      BY <1>1, HeadTailProperties DEF Hears, Plain
    <3>3. AcksUpTo(acks, next)
      BY <3>1, Weaken DEF Plain
    <3>4. ActionsUpTo(out', next + 1)
      BY <1>4, <2>2, <3>1, <3>2, Weaken DEF Plain
    <3> QED
      BY <3>3, <3>4
  <2>6. st = "connected" =>
          /\ seq = next /\ ~Between
          /\ pc \in Waiting => p = call.pkt
    <3>1. st = "connected" => next >= seq /\ p.seq >= 1 /\ Numbered(p, seq, Current)
      BY <1>4, <2>1, <2>2 DEF SessionInv, WindowInv, Plain
    <3>2. st = "connected" => p \in Current
      BY <1>1, <2>1, <2>2, <3>1 DEF Numbered, Plain
    <3> QED
      BY <2>1, <2>2, <3>2 DEF Current, Between, SessionInv, WindowInv
  <2>7. p = call.pkt => accepted'
    <3>1. accepted' = (accepted \/ p = call.pkt)
      BY <1>6 DEF CraneAccept
    <3> QED
      BY ONLY <3>1
  <2>8. (Between' <=> Between) /\ pc' = pc
    BY <1>1 DEF Between
  <2> USE <1>1, <1>2, <1>3, <1>4, <2>1, <2>2, <2>4, <2>5, <2>6, <2>7, <2>8 DEF SessionInv, Plain
  <2>9. (IdleInv /\ QuietInv /\ TokenInv /\ CloseInv)'
    BY DEF IdleInv, QuietInv, TokenInv, CloseInv, Opening
  <2>10. (NotYetInv /\ AckInv)'
    BY DEF NotYetInv, NotYet, AckInv
  <2>11. WindowInv'
    BY DEF WindowInv, Dropping, Between
  <2> QED
    BY <2>9, <2>10, <2>11
<1>7. CASE ~CraneAccept(p)
  <2>1. next' = next /\ accepted' = accepted
    BY <1>7 DEF CraneAction, craneVars
  <2>2. CASE UNCHANGED toClient
    BY <1>5, <2>1, <2>2
  <2>3. ASSUME NEW f \in SUBSET Flags, Tell([StatusPkt(next, queue) EXCEPT !.flags = f])
        PROVE  SessionInv'
    <3>1. next \in 1..SeqMax + 1 /\ queue \in 0..SeqMax
      BY DEF Plain
    <3> DEFINE q == [StatusPkt(next, queue) EXCEPT !.flags = f]
    <3>2. q \in Packet /\ q.seq = next - 1 /\ ~IsOffer(q) /\ q.type # "close"
      BY ONLY <2>3, <3>1, StatusKind
    <3> HIDE DEF q
    <3>3. Tell(q)
      BY <2>3 DEF q
    <3> QED
      BY <1>5, <2>1, <3>2, <3>3
  <2>4. (IF p.seq > next THEN {"NAK"} ELSE {}) \in SUBSET Flags
    BY DEF Flags
  <2> QED
    BY <1>7, <2>2, <2>3, <2>4 DEF CraneAction
<1> QED
  BY <1>6, <1>7

\* The session ends: a CLOSE is heard, or the crane leaves.
LEMMA EndStep ==
    ASSUME Plain, CallInv, SessionInv, (\E p : CraneClose(p)) \/ CraneQuit, opens <= 1
    PROVE  SessionInv'
<1>1. /\ UNCHANGED <<st, seq, crane, acks, pc, todo, call, rx, opens, next>> /\ mode' = "free"
      /\ UNCHANGED toClient \/ Tell(Pkt("close", {}, 0, 0))
  BY DEF CraneClose, CraneQuit, Unmoved, flow, main, svc
<1>2. /\ HasConnect(out') => HasConnect(out)
      /\ OneConnect(out')
      /\ ~Unsent /\ ~HasSyn(out) /\ ~HasSyn(out')
      /\ HasAction(out') => HasAction(out)
  <2>1. ASSUME NEW p, CraneClose(p)
        PROVE  /\ HasConnect(out') => HasConnect(out)
               /\ OneConnect(out')
               /\ ~Unsent /\ ~HasSyn(out) /\ ~HasSyn(out')
               /\ HasAction(out') => HasAction(out)
    <3>1. Hears(p) /\ ~IsSyn(p) /\ 0 \in Int
      BY <2>1 DEF CraneClose, IsSyn, IsConnect
    <3> QED
      BY <3>1, HearAir
  <2>2. CASE CraneQuit
    BY <2>2 DEF CraneQuit, SessionInv, QuietInv, TokenInv
  <2> QED
    BY <2>1, <2>2
<1>3. /\ HasOffer(toClient') => HasOffer(toClient)
      /\ OneOffer(toClient')
  <2>1. Pkt("close", {}, 0, 0) \in Packet /\ 0 \in Int /\ ~IsOffer(Pkt("close", {}, 0, 0))
    BY Constants, PktType DEF IsOffer, IsConnect, Pkt
  <2> QED
    BY <1>1, <2>1, TellAir DEF SessionInv, TokenInv
<1>4. ~Unsent' /\ ~Live'
  BY <1>1, <1>2 DEF Unsent, Live
<1> USE <1>1, <1>2, <1>3, <1>4 DEF SessionInv, Plain
<1>5. (IdleInv /\ QuietInv /\ TokenInv /\ CloseInv)'
  BY DEF IdleInv, QuietInv, TokenInv, CloseInv, Opening
<1>6. NotYetInv'
  BY DEF NotYetInv, NotYet
<1>7. (AckInv /\ WindowInv)'
  BY DEF AckInv, WindowInv
<1> QED
  BY <1>5, <1>6, <1>7

\* A frame goes to a node that is not the crane.
LEMMA AstrayStep ==
    ASSUME Plain, CallInv, SessionInv, Astray, opens <= 1
    PROVE  SessionInv'
<1>1. /\ UNCHANGED <<st, seq, crane, acks, pc, todo, call, rx, opens, next, mode, toClient, accepted>>
      /\ out # <<>> /\ out' = Tail(out) /\ out \in Seq(Frame)
  BY DEF Astray, Unmoved, flow, main, svc, craneVars, Plain
<1>2. /\ HasSyn(out') => HasSyn(out)
      /\ HasConnect(out') => HasConnect(out)
      /\ HasAction(out') => HasAction(out)
      /\ OneConnect(out')
      /\ SynFirst(out) /\ ~IsSyn(Head(out).pkt) => SynFirst(out')
      /\ IsSyn(Head(out).pkt) => IsConnect(Head(out).pkt) /\ ~HasConnect(out') /\ HasSyn(out)
  BY <1>1, TailAir DEF SessionInv, TokenInv, IsSyn
<1>3. IsSyn(Head(out).pkt) => ~HasSyn(out') /\ ~Unsent
  BY <1>2, SynConnects, <1>1, TailAir DEF SessionInv, TokenInv
<1>4. /\ ActionsUpTo(out, next) => ActionsUpTo(out', next)
      /\ Window(out, seq, Current) => Window(out', seq, Current)
  BY <1>1, TailActions
<1>5. (Unsent' <=> Unsent) /\ (Live' => Live) /\ (NotYet' => NotYet) /\ Current' = Current
  BY <1>1, <1>2 DEF Unsent, Live, NotYet, Current
<1> USE <1>1, <1>2, <1>3, <1>4, <1>5 DEF SessionInv, Plain
<1>6. QuietInv'
  BY DEF QuietInv
<1>7. (IdleInv /\ TokenInv /\ CloseInv)'
  BY DEF IdleInv, TokenInv, CloseInv, Opening
<1>8. (NotYetInv /\ AckInv)'
  BY DEF NotYetInv, AckInv
<1>9. WindowInv'
  BY DEF WindowInv, Between, Dropping
<1> QED
  BY <1>6, <1>7, <1>8, <1>9

\* The crane works, and repeats its STATUS.
LEMMA WorkStep ==
    ASSUME Plain, queue \in 0..SeqMax, CallInv, SessionInv, CraneStatus \/ CraneExecute
    PROVE  SessionInv'
<1>1. UNCHANGED <<st, seq, crane, acks, pc, todo, call, rx, opens, next, mode, out, accepted>>
  BY DEF CraneStatus, CraneExecute, Unmoved, flow, main, svc, craneVars
<1>2. /\ HasOffer(toClient') => HasOffer(toClient)
      /\ HasClose(toClient') => HasClose(toClient)
      /\ OneOffer(toClient')
      /\ Live => TellsUpTo(toClient', next - 1)
      /\ toClient' = toClient \/ mode = "controlled"
  <2>1. CASE CraneExecute
    BY <2>1 DEF CraneExecute, SessionInv, TokenInv, AckInv
  <2>2. CASE CraneStatus
    <3>1. next \in 1..SeqMax + 1 /\ queue \in 0..SeqMax /\ {} \in SUBSET Flags
      BY DEF Plain
    <3>2. /\ StatusPkt(next, queue) \in Packet /\ StatusPkt(next, queue).seq = next - 1
          /\ ~IsOffer(StatusPkt(next, queue)) /\ StatusPkt(next, queue).type # "close"
      BY ONLY <3>1, StatusKind
    <3>3. StatusPkt(next, queue).seq <= next - 1
      BY <3>2 DEF Plain
    <3>4. Tell(StatusPkt(next, queue)) /\ mode = "controlled"
      BY <2>2 DEF CraneStatus
    <3> QED
      BY <3>2, <3>3, <3>4, RepeatStep
  <2> QED
    BY <2>1, <2>2
<1>3. (Unsent' <=> Unsent) /\ (Live' <=> Live) /\ (NotYet' => NotYet) /\ Current' = Current
  BY <1>1, <1>2 DEF Unsent, Live, NotYet, Current
<1> USE <1>1, <1>2, <1>3 DEF SessionInv, Plain
<1>4. (IdleInv /\ QuietInv /\ TokenInv /\ CloseInv)'
  BY DEF IdleInv, QuietInv, TokenInv, CloseInv, Opening
<1>5. (NotYetInv /\ AckInv)'
  BY DEF NotYetInv, AckInv
<1>6. WindowInv'
  BY DEF WindowInv, Between, Dropping
<1> QED
  BY <1>4, <1>5, <1>6

(***************************** the invariant *******************************)

\* The system's inductive invariant.
SystemInv == AnyInv /\ (opens <= 1 => SessionInv)

LEMMA InitSession == Init => SessionInv
<1> SUFFICES ASSUME Init PROVE SessionInv
  OBVIOUS
<1>1. /\ toClient = <<>> /\ mode = "free" /\ next = 1 /\ opens = 0 /\ accepted = FALSE
      /\ st = "disconnected" /\ seq = 0 /\ crane = Nobody /\ acks = <<>>
      /\ pc = "cli" /\ todo = <<>> /\ call.ack = 0 /\ rx = "ready" /\ out = <<>>
  BY DEF Init, ClientInit, NoCall
<1>2. /\ ~HasSyn(out) /\ ~HasConnect(out) /\ ~HasAction(out) /\ SynFirst(out) /\ OneConnect(out)
      /\ ~HasOffer(toClient) /\ ~HasClose(toClient) /\ OneOffer(toClient)
      /\ TellsUpTo(toClient, next - 1) /\ AcksUpTo(acks, next - 1)
  BY <1>1, EmptySeq DEF HasSyn, HasConnect, HasAction, SynFirst, OneConnect, HasOffer, HasClose,
     OneOffer, TellsUpTo, AcksUpTo
<1>3. ActionsUpTo(out, next)
  BY <1>2, NoActions
<1> USE <1>1, <1>2, <1>3
<1>4. IdleInv /\ QuietInv /\ TokenInv /\ CloseInv
  BY DEF IdleInv, QuietInv, TokenInv, CloseInv, Opening
<1>5. NotYetInv /\ AckInv /\ WindowInv
  BY DEF NotYetInv, AckInv, WindowInv
<1> QED
  BY <1>4, <1>5 DEF SessionInv

LEMMA MainSessionStep ==
    ASSUME AnyInv, SessionInv, MainSteps, opens' <= 1 PROVE SessionInv'
<1>1. /\ Plain /\ CallInv /\ AckIsOwn /\ Arguments /\ crane \in Cranes \cup {Nobody}
  BY PlainFacts DEF AnyInv, IInv, TypeOK
<1>2. CASE User
  <2>1. UNCHANGED out
    BY <1>2 DEF User, Open, Test, Close, Act
  <2> QED
    BY <1>1, <1>2, <2>1, SilentStep
<1>3. CASE Script
  <2>1. UNCHANGED out
    BY <1>3 DEF Script, TestStep, IdleDone, IdleTimeout
  <2> QED
    BY <1>1, <1>3, <2>1, SilentStep
<1>4. CASE OpenSend
  BY <1>1, <1>4, OpenSendStep
<1>5. CASE DisconnectSend
  BY <1>1, <1>5, DisconnectStep
<1>6. CASE ActSend
  BY <1>1, <1>6, ActSendStep
<1>7. CASE Retransmit
  BY <1>1, <1>7, RetransmitStep
<1>8. CASE \/ Disconnect \/ DropState \/ DropSeq \/ ActCrane \/ ClearState \/ ClearSeq \/ ClearCrane
           \/ OpenState \/ HandshakeDone \/ HandshakeTimeout
  <2>1. UNCHANGED out
    BY <1>8 DEF Disconnect, DropState, DropSeq, ActCrane, ClearState, ClearSeq, ClearCrane, OpenState,
       HandshakeDone, HandshakeTimeout
  <2> QED
    BY <1>1, <1>8, <2>1, SilentStep
<1>9. CASE \/ FirstAck \/ AckTimeout \/ DrainAck \/ Drained \/ Ahead \/ NotAhead \/ Match
           \/ Stale \/ Bump
  BY <1>1, <1>9, FlowSilentStep
<1> QED
  BY <1>2, <1>3, <1>4, <1>5, <1>6, <1>7, <1>8, <1>9 DEF MainSteps, Main, Dial, Drop, Flow

\* One session stays in order.
LEMMA SessionStep ==
    ASSUME AnyInv, SessionInv, [Next]_vars, opens' <= 1 PROVE SessionInv'
<1>1. /\ Plain /\ CallInv /\ QueueInv /\ queue \in 0..SeqMax /\ rpkt \in Packet
      /\ crane \in Cranes \cup {Nobody}
  BY PlainFacts DEF AnyInv, IInv, TypeOK, SystemTypeOK
<1>2. CASE MainSteps
  BY <1>2, MainSessionStep
<1>3. CASE Deliver
  BY <1>1, <1>3, DeliverStep
<1>4. CASE SvcSteps
  BY <1>1, <1>4, ConnSendStep, StoreStep DEF SvcSteps, Svc
<1>5. CASE Crane
  <2>1. opens <= 1
    BY <1>5 DEF Crane, CraneSyn, CraneAck, CraneAction, CraneClose, Astray, CraneStatus,
       CraneExecute, CraneQuit, Unmoved
  <2>2. ASSUME NEW p, CraneSyn(p) \/ CraneAck(p) \/ CraneAction(p) PROVE SessionInv'
    BY <1>1, <2>1, <2>2, SynStep, AckStep, ActionStep
  <2>3. CASE (\E p : CraneClose(p)) \/ CraneQuit
    BY <1>1, <2>1, <2>3, EndStep
  <2>4. CASE Astray
    BY <1>1, <2>1, <2>4, AstrayStep
  <2>5. CASE CraneStatus \/ CraneExecute
    BY <1>1, <2>5, WorkStep
  <2> QED
    BY <1>5, <2>2, <2>3, <2>4, <2>5 DEF Crane
<1>6. CASE UNCHANGED vars
  <2>1. UNCHANGED <<st, seq, crane, acks, pc, todo, call, rx, out, toClient, mode, next, accepted,
                    opens>>
    BY <1>6 DEF vars, clientVars, craneVars
  <2>2. Current' = Current /\ (Unsent' <=> Unsent) /\ (Live' <=> Live) /\ (NotYet' <=> NotYet)
    BY <2>1 DEF Current, Unsent, Live, NotYet
  <2> QED
    BY <2>1, <2>2 DEF SessionInv, IdleInv, QuietInv, TokenInv, NotYetInv, CloseInv, AckInv,
       WindowInv, Between
<1> QED
  BY <1>2, <1>3, <1>4, <1>5, <1>6 DEF Next

\* Attempts are counted, never forgotten.
LEMMA OpensGrow == ASSUME AnyInv, [Next]_vars PROVE opens' >= opens
<1>1. opens \in Nat
  BY PlainFacts DEF Plain
<1>2. CASE MainSteps
  <2>1. opens' = opens + 1 \/ opens' = opens
    BY <1>2 DEF MainSteps
  <2> QED
    BY <1>1, <2>1
<1>3. CASE Deliver \/ SvcSteps
  BY <1>1, <1>3 DEF Deliver, SvcSteps
<1>4. ASSUME NEW p, CraneSyn(p) \/ CraneAck(p) \/ CraneAction(p) \/ CraneClose(p)
      PROVE  opens' >= opens
  BY <1>1, <1>4 DEF CraneSyn, CraneAck, CraneAction, CraneClose, Unmoved
<1>5. CASE Astray \/ CraneStatus \/ CraneExecute \/ CraneQuit
  BY <1>1, <1>5 DEF Astray, CraneStatus, CraneExecute, CraneQuit, Unmoved
<1>6. CASE UNCHANGED vars
  BY <1>1, <1>6 DEF vars
<1> QED
  BY <1>2, <1>3, <1>4, <1>5, <1>6 DEF Next, Crane

LEMMA SystemStep == SystemInv /\ [Next]_vars => SystemInv'
<1> SUFFICES ASSUME SystemInv, [Next]_vars PROVE SystemInv'
  OBVIOUS
<1>1. AnyInv /\ AnyInv'
  BY AnyStep DEF SystemInv
<1>2. opens \in Nat /\ opens' \in Nat /\ opens' >= opens
  <2>1. opens \in Nat
    BY <1>1, PlainFacts DEF Plain
  <2>2. opens' \in Nat
    BY <1>1, SystemAssumption DEF AnyInv, SystemTypeOK
  <2> QED
    BY <1>1, <2>1, <2>2, OpensGrow
<1>3. ASSUME opens' <= 1 PROVE SessionInv'
  BY <1>1, <1>2, <1>3, SessionStep DEF SystemInv
<1> QED
  BY <1>1, <1>3 DEF SystemInv

(***************************** theorems ************************************)

\* The system's inductive invariant holds in every reachable state.
THEOREM SystemInvariant == Spec => []SystemInv
<1>1. Init => SystemInv
  BY InitAny, InitSession DEF SystemInv
<1> QED
  BY <1>1, SystemStep, PTL DEF Spec

\* Every variable of the system keeps its type: the crane never numbers past
\* the packet's field and never owes more actions than it accepted.
THEOREM SystemTypeCorrect == Spec => []SystemTypeOK
<1>1. SystemInv => SystemTypeOK
  BY DEF SystemInv, AnyInv
<1> QED
  BY <1>1, SystemInvariant, PTL

\* In the first session the client's next number is the crane's or one behind
\* it (crane.c, lines 341-366), whatever is lost and whenever either side ends
\* the session.
THEOREM FirstSessionLockStep == Spec => [](opens <= 1 => LockStep)
<1>1. SystemInv => (opens <= 1 => LockStep)
  BY DEF SystemInv, SessionInv, WindowInv, Live, LockStep, InSession
<1> QED
  BY <1>1, SystemInvariant, PTL

\* In the first session no ACTION leaves a gap (crane.c, lines 197-201).
THEOREM FirstSessionNoGap == Spec => [](opens <= 1 => NoGap)
<1>1. SystemInv => (opens <= 1 => NoGap)
  <2> SUFFICES ASSUME SystemInv, opens <= 1 PROVE NoGap
    OBVIOUS
  <2>1. mode = "controlled" => ActionsUpTo(out, next)
    BY DEF SystemInv, SessionInv, WindowInv, Live
  <2>2. DOMAIN out = 1..Len(out)
    BY LenProperties DEF SystemInv, AnyInv, IInv, TypeOK
  <2> QED
    BY <2>1, <2>2 DEF NoGap, ActionsUpTo, IsAction
<1> QED
  BY <1>1, SystemInvariant, PTL

\* In the first session crane_action returns 0 only when the crane accepted
\* the very packet it sent (crane.c, lines 341-366).
THEOREM FirstSessionAccepted == Spec => [](opens <= 1 => AcceptedInSession)
<1>1. SystemInv => (opens <= 1 => AcceptedInSession)
  <2> SUFFICES ASSUME SystemInv, opens <= 1, pc = "bump", mode = "controlled" PROVE accepted
    BY DEF AcceptedInSession
  <2>1. Plain /\ AckIsOwn
    BY PlainFacts DEF SystemInv, AnyInv, IInv
  <2>2. /\ st = "connected" /\ seq = call.pkt.seq /\ call.ack <= next - 1
        /\ next - seq \in {0, 1}
        /\ next = seq + 1 => accepted \/ seq = 0
    BY DEF SystemInv, SessionInv, AckInv, WindowInv, Live
  <2>3. call.ack = seq /\ seq > 0
    BY <2>1, <2>2 DEF AckIsOwn
  <2>4. next = seq + 1
    BY <2>1, <2>2, <2>3 DEF Plain
  <2> QED
    BY <2>1, <2>2, <2>3, <2>4 DEF Plain
<1> QED
  BY <1>1, SystemInvariant, PTL

(***************************** the refinement ******************************)

\* What moves the four variables that stop-and-wait is about.
LEMMA StMoves ==
    ASSUME [Next]_vars, st' = "connected", st # "connected"
    PROVE  ConnState /\ SvcSteps
<1>1. ~MainSteps
  <2>1. UNCHANGED st \/ st' \in {"disconnected", "handshake"} \/ ~(User \/ Main)
    BY DEF User, Open, Test, Close, Act, Main, Dial, ClearState, ClearSeq, ClearCrane, OpenState,
       OpenSend, HandshakeDone, HandshakeTimeout, Drop, Disconnect, DisconnectSend, DropState, DropSeq, Flow,
       ActCrane, ActSend, FirstAck, AckTimeout, DrainAck, Drained, Retransmit, Ahead, NotAhead,
       Match, Stale, Bump, Script, TestStep, IdleDone, IdleTimeout, flow
  <2> QED
    BY <2>1 DEF MainSteps
<1>2. ~Deliver
  BY DEF Deliver, Receive, RecvConnect, RecvStatus, RecvClose, RecvDropped, clientVars, flow
<1>3. ~Crane
  BY DEF Crane, CraneSyn, CraneAck, CraneAction, CraneClose, Astray, CraneStatus, CraneExecute,
     CraneQuit, Unmoved, flow
<1>4. SvcSteps
  BY <1>1, <1>2, <1>3 DEF Next, vars, clientVars
<1> QED
  BY <1>4 DEF SvcSteps, Svc, ConnSend, ConnSeq, StatusStore, CloseState, CloseCrane, flow

LEMMA ModeMoves ==
    ASSUME [Next]_vars
    PROVE  \/ UNCHANGED <<mode, next>>
           \/ mode' # "controlled"
           \/ /\ mode' = "controlled" /\ next' = 1 /\ UNCHANGED <<st, seq>>
              /\ mode # "controlled"
           \/ \E p : CraneAction(p) /\ CraneAccept(p)
<1>1. CASE MainSteps \/ Deliver \/ SvcSteps \/ UNCHANGED vars
  BY <1>1 DEF MainSteps, Deliver, SvcSteps, vars, craneVars
<1>2. ASSUME NEW p, CraneSyn(p) \/ CraneAck(p) \/ CraneClose(p)
      PROVE  \/ UNCHANGED <<mode, next>>
             \/ mode' # "controlled"
             \/ /\ mode' = "controlled" /\ next' = 1 /\ UNCHANGED <<st, seq>>
                /\ mode # "controlled"
  BY <1>2 DEF CraneSyn, CraneAck, CraneClose, Unmoved, craneVars, flow
<1>3. ASSUME NEW p, CraneAction(p), ~CraneAccept(p) PROVE UNCHANGED <<mode, next>>
  BY <1>3 DEF CraneAction, craneVars
<1>4. CASE Astray \/ CraneStatus \/ CraneExecute \/ CraneQuit
  BY <1>4 DEF Astray, CraneStatus, CraneExecute, CraneQuit, craneVars
<1> QED
  BY <1>1, <1>2, <1>3, <1>4 DEF Next, Crane

LEMMA SeqMoves ==
    ASSUME [Next]_vars
    PROVE  \/ UNCHANGED seq
           \/ MainSteps /\ (ClearSeq \/ OpenSend \/ DropSeq \/ Bump)
           \/ SvcSteps /\ ConnSeq
           \/ rx' = "close_state"
<1>1. CASE MainSteps
  BY <1>1 DEF MainSteps, User, Open, Test, Close, Act, Main, Dial, ClearState, ClearCrane,
     OpenState, HandshakeDone, HandshakeTimeout, Drop, Disconnect, DisconnectSend, DropState, Flow, ActCrane,
     ActSend, FirstAck, AckTimeout, DrainAck, Drained, Retransmit, Ahead, NotAhead, Match, Stale,
     Script, TestStep, IdleDone, IdleTimeout, flow
<1>2. CASE Deliver
  BY <1>2 DEF Deliver, Receive, RecvConnect, RecvStatus, RecvClose, RecvDropped, clientVars, flow
<1>3. CASE SvcSteps
  BY <1>3 DEF SvcSteps, Svc, ConnSend, ConnState, StatusStore, CloseState, CloseCrane, flow
<1>4. ASSUME NEW p, CraneSyn(p) \/ CraneAck(p) \/ CraneAction(p) \/ CraneClose(p)
      PROVE  UNCHANGED seq
  BY <1>4 DEF CraneSyn, CraneAck, CraneAction, CraneClose, Unmoved, flow
<1>5. CASE Astray \/ CraneStatus \/ CraneExecute \/ CraneQuit
  BY <1>5 DEF Astray, CraneStatus, CraneExecute, CraneQuit, Unmoved, flow
<1>6. CASE UNCHANGED vars
  BY <1>6 DEF vars, clientVars
<1> QED
  BY <1>1, <1>2, <1>3, <1>4, <1>5, <1>6 DEF Next, Crane

LEMMA NumbersNext == ASSUME AnyInv, [Next]_vars PROVE next' \in Nat /\ seq' \in Nat
<1>1. AnyInv'
  BY AnyStep
<1>2. SystemTypeOK' /\ TypeOK'
  BY <1>1 DEF AnyInv, IInv
<1>3. next' \in 1..SeqMax + 1 /\ seq' \in SeqNo
  BY <1>2 DEF SystemTypeOK, TypeOK
<1> QED
  BY <1>3, ClientAssumption DEF SeqNo

\* Inside a session the crane takes one action or the client counts one.
LEMMA InSessionMoves ==
    ASSUME AnyInv, SessionInv, SessionInv', [Next]_vars, InSession, InSession'
    PROVE  \/ next' = next /\ seq' = seq
           \/ next' = 1 /\ next = 1 /\ seq \in {0, 1} /\ seq' \in {0, 1}
           \/ next' = next + 1 /\ seq' = seq /\ seq = next
           \/ next' = next /\ seq' = seq + 1 /\ seq + 1 = next /\ seq > 0
<1>1. Plain /\ AckIsOwn /\ next' \in Nat /\ seq' \in Nat
  BY PlainFacts, NumbersNext DEF AnyInv, IInv
<1>2. /\ st = "connected" /\ mode = "controlled" /\ st' = "connected" /\ mode' = "controlled"
      /\ Live /\ Live'
  BY DEF InSession, Live
<1>3. /\ ~NotYet /\ rx' # "close_state"
  BY <1>2 DEF SessionInv, NotYetInv, CloseInv
<1>4. next - seq \in {0, 1} /\ next' - seq' \in {0, 1}
  BY <1>2 DEF SessionInv, WindowInv
<1>5. ASSUME NEW p, CraneAction(p), CraneAccept(p)
      PROVE  next' = next + 1 /\ seq' = seq /\ seq = next
  <2>1. next' = next + 1 /\ seq' = seq
    BY <1>5 DEF CraneAction, CraneAccept, Unmoved, flow
  <2> QED
    BY <1>1, <1>4, <2>1 DEF Plain
<1>6. CASE MainSteps /\ Bump
  <2>1. pc = "bump" /\ pc \in Waiting /\ next' = next
    BY <1>6 DEF Bump, Goto, MainSteps, craneVars
  <2>2. /\ seq = call.pkt.seq /\ call.ack = seq /\ seq > 0 /\ call.ack <= next - 1
        /\ call.ack \in 0..SeqMax - 1
    BY <1>1, <1>2, <2>1 DEF SessionInv, WindowInv, AckInv, AckIsOwn, Plain
  <2>3. seq + 1 = next /\ seq + 1 \in 0..SeqMax
    <3>1. /\ seq \in Int /\ next \in Int /\ SeqMax \in Int /\ seq > 0
          /\ seq <= next - 1 /\ seq \in 0..SeqMax - 1 /\ next - seq \in {0, 1}
      BY <1>1, <1>4, <2>2 DEF Plain
    <3> QED
      BY ONLY <3>1
  <2>4. seq' = (seq + 1) % (SeqMax + 1)
    BY <1>6, <2>2 DEF Bump
  <2>5. ASSUME NEW k \in 0..SeqMax PROVE k % (SeqMax + 1) = k
    BY ONLY <2>5, ClientAssumption
  <2> QED
    BY <2>1, <2>2, <2>3, <2>4, <2>5
<1>7. CASE MainSteps /\ DropSeq
  <2>1. pc \in Dropping /\ next' = next /\ seq' = 0
    BY <1>7 DEF DropSeq, Goto, MainSteps, craneVars, Dropping
  <2>2. next = 1
    BY <1>2, <2>1 DEF SessionInv, WindowInv
  <2> QED
    BY <1>1, <1>4, <2>1, <2>2 DEF Plain
<1>8. ~(MainSteps /\ (ClearSeq \/ OpenSend))
  BY <1>3 DEF ClearSeq, OpenSend, Goto, NotYet, Unsent, Opening
<1>9. ~(SvcSteps /\ ConnSeq)
  BY <1>3 DEF ConnSeq, SvcGoto, NotYet
<1>10. CASE UNCHANGED seq
  BY <1>2, <1>5, <1>10, ModeMoves
<1> QED
  BY <1>3, <1>6, <1>7, <1>8, <1>9, <1>10, SeqMoves

\* A step of a single session is a step of stop-and-wait or shows nothing.
LEMMA ControlStep ==
    ASSUME AnyInv, SessionInv, SessionInv', [Next]_vars
    PROVE  [Control!Begin \/ Control!Take \/ Control!Confirm \/ Control!End]_(Control!sessionVars)
<1> DEFINE taken == IF InSession THEN next - 1 ELSE 0
           confirmed == IF InSession /\ seq > 0 THEN seq - 1 ELSE 0
<1>1. Plain /\ next' \in Nat /\ seq' \in Nat
  BY PlainFacts, NumbersNext
<1>2. CASE ~InSession /\ ~InSession'
  <2>1. taken' = taken /\ confirmed' = confirmed
    BY <1>2
  <2>2. InSession' = InSession
    BY <1>2 DEF InSession
  <2> QED
    BY <2>1, <2>2 DEF Control!sessionVars
<1>3. CASE InSession /\ ~InSession'
  BY <1>3 DEF Control!End, Control!Idle
<1>4. CASE ~InSession /\ InSession'
  <2>1. next' = 1
    <3>1. CASE st # "connected"
      <4>1. ConnState /\ SvcSteps
        BY <1>4, <3>1, StMoves DEF InSession
      <4>2. next' = next /\ rx = "conn_state"
        BY <4>1 DEF SvcSteps, craneVars, ConnState, SvcGoto
      <4> QED
        BY <4>2 DEF SessionInv, NotYetInv, NotYet
    <3>2. CASE mode # "controlled"
      <4>1. ASSUME NEW p, CraneAction(p), CraneAccept(p) PROVE FALSE
        BY <3>2, <4>1 DEF CraneAccept
      <4> QED
        BY <1>4, <3>2, <4>1, ModeMoves DEF InSession
    <3> QED
      BY <1>4, <3>1, <3>2 DEF InSession
  <2>2. next' - seq' \in {0, 1}
    BY <1>4 DEF SessionInv, WindowInv, Live, InSession
  <2>3. taken' = 0 /\ confirmed' = 0
    <3>1. seq' \in {0, 1}
      <4>1. ASSUME NEW n \in Nat, 1 - n \in {0, 1} PROVE n \in {0, 1}
        BY <4>1
      <4> QED
        BY <1>1, <2>1, <2>2, <4>1
    <3> QED
      BY <1>4, <2>1, <3>1
  <2>4. taken = 0 /\ confirmed = 0
    BY <1>4
  <2> QED
    BY <1>4, <2>3, <2>4 DEF Control!Begin, Control!Idle
<1>5. CASE InSession /\ InSession'
  <2>1. CASE next' = next /\ seq' = seq
    BY <1>5, <2>1 DEF Control!sessionVars
  <2>2. CASE next' = 1 /\ next = 1 /\ seq \in {0, 1} /\ seq' \in {0, 1}
    <3>1. taken' = 0 /\ taken = 0 /\ confirmed' = 0 /\ confirmed = 0 /\ (InSession' = InSession)
      BY <1>1, <1>5, <2>2 DEF Plain
    <3> QED
      BY <3>1 DEF Control!sessionVars
  <2>3. CASE next' = next + 1 /\ seq' = seq /\ seq = next
    BY <1>1, <1>5, <2>3 DEF Control!Take, Plain
  <2>4. CASE next' = next /\ seq' = seq + 1 /\ seq + 1 = next /\ seq > 0
    BY <1>1, <1>5, <2>4 DEF Control!Confirm, Plain
  <2> QED
    BY <1>5, <2>1, <2>2, <2>3, <2>4, InSessionMoves
<1> QED
  BY <1>2, <1>3, <1>4, <1>5

\* One session implements stop-and-wait, for every pattern, queue depth and
\* number of attempts (crane.c, lines 330-371).
THEOREM SessionImplementsStopAndWait == MaxOpens = 1 /\ Spec => ImplementsStopAndWait
<1> SUFFICES ASSUME MaxOpens = 1 PROVE Spec => ImplementsStopAndWait
  OBVIOUS
<1>1. Init => Control!Idle
  BY DEF Init, ClientInit, Control!Idle, InSession
<1>2. SystemInv => opens <= 1
  BY DEF SystemInv, AnyInv, SystemTypeOK
<1>3. SystemInv /\ SystemInv' /\ [Next]_vars =>
        [Control!Begin \/ Control!Take \/ Control!Confirm \/ Control!End]_(Control!sessionVars)
  <2> SUFFICES ASSUME SystemInv, SystemInv', [Next]_vars
               PROVE  [Control!Begin \/ Control!Take \/ Control!Confirm \/ Control!End]_(Control!sessionVars)
    OBVIOUS
  <2>1. opens <= 1 /\ opens' <= 1
    BY <1>2, SystemStep DEF SystemInv, AnyInv, SystemTypeOK
  <2> QED
    BY <2>1, ControlStep DEF SystemInv
<1> QED
  BY <1>1, <1>3, SystemInvariant, PTL DEF Spec, ImplementsStopAndWait, Control!SessionSpec

\* A step of the whole system is a step of the client CraneClient describes,
\* when it expects every packet: what is proved of the client alone holds
\* beside any crane.
THEOREM SystemImplementsClient == Incoming = Packet /\ Spec => ClientSpec
<1> SUFFICES ASSUME Incoming = Packet PROVE Spec => ClientSpec
  OBVIOUS
<1>1. Init => ClientInit
  BY DEF Init
<1>2. SystemInv /\ [Next]_vars => [ClientNext]_clientVars
  <2> SUFFICES ASSUME SystemInv, [Next]_vars PROVE [ClientNext]_clientVars
    OBVIOUS
  <2>1. CASE Next
    BY <2>1, NextIsClientNext DEF SystemInv, AnyInv, ClientNext
  <2>2. CASE UNCHANGED vars
    BY <2>2 DEF vars
  <2> QED
    BY <2>1, <2>2
<1> QED
  BY <1>1, <1>2, SystemInvariant, PTL DEF Spec, ClientSpec

\* So they hold in the system, where Incoming plays no part: no handshake
\* completes under crane_action, an ack that counts is the packet's own, a
\* session whose crane is forgotten is closed.
THEOREM SystemKeepsClient == Spec => [](NoJoinWhileActing /\ AckIsOwn /\ ForgottenIsClosed)
<1>1. SystemInv => NoJoinWhileActing /\ AckIsOwn /\ ForgottenIsClosed
  BY DEF SystemInv, AnyInv, IInv
<1> QED
  BY <1>1, SystemInvariant, PTL
==============================================================================
