----------------------------- MODULE CraneClient -----------------------------
(***************************************************************************)
(* The CCP client of managed_components/crane/crane.c: two tasks of the    *)
(* ESP32 that share one unlocked struct.                                   *)
(*                                                                         *)
(*   main   app_main's console loop on core 0 runs crane_connect,          *)
(*          crane_disconnect, crane_action and crane_test to completion.   *)
(*   svc    lownet_service on core 1 runs crane_receive for each frame.    *)
(*                                                                         *)
(* Each action is one access to the shared struct (or accesses that no     *)
(* step of the other task can tell from one).  "pc" and "rx" say where the *)
(* two tasks are; "call" holds the locals of the running crane_action.     *)
(* What arrives is not constrained here: any packet of Incoming, at any    *)
(* time.  CraneSystem puts a crane at the other end.                       *)
(***************************************************************************)
EXTENDS Integers, Sequences

CONSTANTS
    Cranes,       \* node ids of "open" and "test"; 0 when the id is not hexadecimal
    Cmds,         \* action codes the console may send (CRANE_STOP, ...)
    TestPattern,  \* the operations of crane_test between connect and close
    Incoming,     \* packets that may arrive from the network
    SeqMax,       \* 0xFFFF, the largest uint16_t sequence number
    WordMax,      \* 0xFFFFFFFF, the largest value of the packet's union d
    AckDepth,     \* depth of the acks queue (8)
    MaxAttempts,  \* read_acks rounds of one crane_action (5)
    NetDepth,     \* bound: frames in the air in one direction
    Lossy         \* whether the air may lose a frame

VARIABLES
    st,           \* state.state
    seq,          \* state.seq
    crane,        \* state.crane, Nobody when no node was chosen
    acks,         \* state.acks
    backlog,      \* g_last_backlog (g_last_status_seq is never read)
    pc,           \* control point of main
    todo,         \* operations crane_test has still to run
    arg,          \* argument of the running command: node id or action code
    call,         \* packet, attempt, ack of crane_action (packet of
                  \* crane_disconnect); copies is history
    rx,           \* control point of svc
    rpkt,         \* the packet svc is handling
    out           \* frames handed to lownet_send and still in the air

main == <<pc, todo, arg, call>>
svc  == <<rx, rpkt>>
flow == <<st, seq, crane>>
clientVars == <<st, seq, crane, acks, backlog, pc, todo, arg, call,
                rx, rpkt, out>>

Nobody == 0       \* node id 0x00
Pause  == -1      \* crane_wait_until_idle in a test pattern
Hangup == -2      \* the crane_disconnect that ends crane_test
Flags  == {"SYN", "ACK", "NAK", "TEST"}
SeqNo  == 0..SeqMax
Word   == 0..WordMax
Packet == [type : {"connect", "status", "action", "close"},
           flags : SUBSET Flags, seq : SeqNo, d : Word]
Frame  == [dst : Cranes \cup {Nobody}, pkt : Packet]

\* The operations of crane_test, by action code.
CraneTestPattern == <<6, 2, 2, 3, Pause, 5, 5, Pause, 4, 4, 3, 7, Pause>>

ASSUME ClientAssumption ==
    /\ SeqMax \in Nat /\ SeqMax >= 2
    /\ WordMax \in Nat
    /\ AckDepth \in Nat \ {0} /\ MaxAttempts \in Nat \ {0} /\ NetDepth \in Nat
    /\ Cranes \subseteq Nat
    /\ Cmds \subseteq Word
    /\ TestPattern \in Seq(Cmds \cup {Pause})
    /\ Incoming \subseteq Packet
    /\ Lossy \in BOOLEAN

(***************************** packets *************************************)

Pkt(t, f, n, x)  == [type |-> t, flags |-> f, seq |-> n, d |-> x]
NullPkt          == Pkt("close", {}, 0, 0)
Uncomplemented(c) == c                \* mutant of Complement
Complement(c)    == WordMax - c      \* ~challenge on a 32-bit word
NoCall           == [pkt |-> NullPkt, attempt |-> 0, ack |-> 0, copies |-> 0]

\* crane_send: the frame is in the air, unless the radio loses it.
Send(dst, p) ==
    \/ out' = IF Len(out) < NetDepth
              THEN Append(out, [dst |-> dst, pkt |-> p]) ELSE out
    \/ Lossy /\ out' = out

(***************************** main: open, test, close *********************)

AfterCall == IF todo = <<>> THEN "cli" ELSE "test"

Goto(from, to) == pc = from /\ pc' = to

\* /crane open ID: crane_connect up to its store to state.crane.
Open(id) ==
    /\ Goto("cli", "open_state")
    /\ st = "disconnected"
    /\ crane' = id /\ arg' = id
    /\ UNCHANGED <<st, seq, acks, backlog, todo, call, svc, out>>

\* /crane test ID: crane_test up to its first store.
Test(id) ==
    /\ Goto("cli", "clear_state")
    /\ crane' = id /\ arg' = id
    /\ todo' = TestPattern \o <<Hangup>>
    /\ UNCHANGED <<st, seq, acks, backlog, call, svc, out>>

ClearState ==
    /\ Goto("clear_state", "clear_seq")
    /\ st' = "disconnected"
    /\ UNCHANGED <<seq, crane, acks, backlog, todo, arg, call, svc, out>>

ClearSeq ==
    /\ Goto("clear_seq", "clear_crane")
    /\ seq' = 0
    /\ UNCHANGED <<st, crane, acks, backlog, todo, arg, call, svc, out>>

ClearCrane ==
    /\ Goto("clear_crane", "open_state")
    /\ crane' = arg
    /\ UNCHANGED <<st, seq, acks, backlog, todo, arg, call, svc, out>>

\* Shared by crane_connect and crane_test: state = ST_HANDSHAKE, ...
OpenState ==
    /\ Goto("open_state", "open_send")
    /\ st' = "handshake"
    /\ UNCHANGED <<seq, crane, acks, backlog, todo, arg, call, svc, out>>

\* ... seq = 0, and only then the SYN.
OpenSend ==
    /\ Goto("open_send", IF todo = <<>> THEN "cli" ELSE "handshake")
    /\ seq' = 0
    /\ Send(arg, Pkt("connect", IF todo = <<>> THEN {"SYN"} ELSE {"SYN", "TEST"}, 0, 0))
    /\ arg' = Nobody
    /\ UNCHANGED <<st, crane, acks, backlog, todo, call, svc>>

\* crane_test polls state.state; the 30 polls are one expiry.
HandshakeDone ==
    /\ Goto("handshake", "test")
    /\ st = "connected"
    /\ UNCHANGED <<flow, acks, backlog, todo, arg, call, svc, out>>

HandshakeTimeout ==
    /\ Goto("handshake", "cli")
    /\ st # "connected"
    /\ todo' = <<>>
    /\ UNCHANGED <<flow, acks, backlog, arg, call, svc, out>>

\* /crane close, in any state.
Close ==
    /\ Goto("cli", "close")
    /\ UNCHANGED <<flow, acks, backlog, todo, arg, call, svc, out>>

\* crane_disconnect: the CLOSE takes its number from state.seq, ...
Disconnect ==
    /\ Goto("close", "close_send")
    /\ call' = [NoCall EXCEPT !.pkt = Pkt("close", {}, seq, 0)]
    /\ UNCHANGED <<flow, acks, backlog, todo, arg, svc, out>>

\* ... goes to what state.crane is by then, and 500 ms later come the
\* resets, twice.
DisconnectSend ==
    /\ Goto("close_send", "drop_state")
    /\ Send(crane, call.pkt)
    /\ call' = NoCall
    /\ UNCHANGED <<flow, acks, backlog, todo, arg, svc>>

DropState ==
    /\ Goto("drop_state", "drop_seq") \/ Goto("redrop_state", "redrop_seq")
    /\ st' = "disconnected"
    /\ UNCHANGED <<seq, crane, acks, backlog, todo, arg, call, svc, out>>

DropSeq ==
    /\ Goto("drop_seq", "redrop_state") \/ Goto("redrop_seq", AfterCall)
    /\ seq' = 0
    /\ UNCHANGED <<st, crane, acks, backlog, todo, arg, call, svc, out>>

(***************************** main: crane_action **************************)

\* A console action; crane_action returns -1 at once when not connected.
Act(a) ==
    /\ Goto("cli", "act_crane")
    /\ st = "connected"
    /\ arg' = a
    /\ UNCHANGED <<flow, acks, backlog, todo, call, svc, out>>

\* The next operation of crane_test, whatever the last one returned.
TestStep ==
    /\ pc = "test" /\ todo' = Tail(todo)
    /\ \/ Head(todo) = Pause  /\ pc' = "idle"  /\ arg' = arg
       \/ Head(todo) = Hangup /\ pc' = "close" /\ arg' = arg
       \/ Head(todo) \in Cmds /\ st = "connected" /\ pc' = "act_crane" /\ arg' = Head(todo)
       \/ Head(todo) \in Cmds /\ st # "connected" /\ pc' = "test" /\ arg' = arg
    /\ UNCHANGED <<flow, acks, backlog, call, svc, out>>

\* crane_wait_until_idle: backlog read as 0, or 100 polls passed.
IdleDone ==
    /\ Goto("idle", "test")
    /\ backlog = 0
    /\ UNCHANGED <<flow, acks, backlog, todo, arg, call, svc, out>>

IdleTimeout ==
    /\ Goto("idle", "test")
    /\ backlog # 0
    /\ UNCHANGED <<flow, acks, backlog, todo, arg, call, svc, out>>

\* state.crane == 0x00: refuse and forget the connection.
ActCrane ==
    /\ pc = "act_crane"
    /\ IF crane = Nobody
       THEN st' = "disconnected" /\ pc' = AfterCall /\ arg' = Nobody
       ELSE pc' = "act_send" /\ UNCHANGED <<st, arg>>
    /\ UNCHANGED <<seq, crane, acks, backlog, todo, call, svc, out>>

\* Mutant of ActSend: the packet carries the number after state.seq.
ActSendAhead ==
    /\ Goto("act_send", "await") /\ seq < SeqMax
    /\ LET p == Pkt("action", {}, seq + 1, arg) IN
       /\ Send(crane, p)
       /\ call' = [pkt |-> p, attempt |-> 0, ack |-> 0, copies |-> 1]
    /\ arg' = Nobody
    /\ UNCHANGED <<flow, acks, backlog, todo, svc>>

ActSend ==
    /\ Goto("act_send", "await")
    /\ LET p == Pkt("action", {}, seq, arg) IN
       /\ Send(crane, p)
       /\ call' = [pkt |-> p, attempt |-> 0, ack |-> 0, copies |-> 1]
    /\ arg' = Nobody
    /\ UNCHANGED <<flow, acks, backlog, todo, svc>>

\* read_acks: wait up to 5 s for one ack, then drain the queue.
FirstAck ==
    /\ Goto("await", "drain")
    /\ acks # <<>>
    /\ call' = [call EXCEPT !.ack = Head(acks)]
    /\ acks' = Tail(acks)
    /\ UNCHANGED <<flow, backlog, todo, arg, svc, out>>

AckTimeout ==
    /\ Goto("await", "drain")
    /\ acks = <<>>
    /\ call' = [call EXCEPT !.ack = 0]
    /\ UNCHANGED <<flow, acks, backlog, todo, arg, svc, out>>

DrainAck ==
    /\ Goto("drain", "drain")
    /\ acks # <<>>
    /\ call' = [call EXCEPT !.ack = IF @ >= Head(acks) THEN @ ELSE Head(acks)]
    /\ acks' = Tail(acks)
    /\ UNCHANGED <<flow, backlog, todo, arg, svc, out>>

Drained ==
    /\ Goto("drain", "judge")
    /\ acks = <<>>
    /\ UNCHANGED <<flow, acks, backlog, todo, arg, call, svc, out>>

\* Mutant of NextAttempt: one attempt too many.
OneMoreAttempt(resent) ==
    IF call.attempt < MaxAttempts
    THEN /\ pc' = "await"
         /\ call' = [call EXCEPT !.attempt = @ + 1, !.copies = @ + resent]
    ELSE /\ pc' = "close"
         /\ call' = NoCall

\* Mutant of NextAttempt: the attempts are not counted.
EndlessAttempts(resent) == pc' = "await" /\ call' = [call EXCEPT !.ack = 0]

\* End of one pass of the attempt loop; after the last one, give up.
NextAttempt(resent) ==
    IF call.attempt + 1 < MaxAttempts
    THEN /\ pc' = "await"
         /\ call' = [call EXCEPT !.attempt = @ + 1, !.copies = @ + resent]
    ELSE /\ pc' = "close"
         /\ call' = NoCall

\* ack == 0: send the same packet again, to what state.crane is now.
Retransmit ==
    /\ pc = "judge" /\ call.ack = 0
    /\ Send(crane, call.pkt)
    /\ NextAttempt(1)
    /\ UNCHANGED <<flow, acks, backlog, todo, arg, svc>>

\* ack > state.seq: give up the connection.
Ahead ==
    /\ Goto("judge", "close")
    /\ call.ack \notin {0, SeqMax} /\ call.ack > seq
    /\ call' = NoCall
    /\ UNCHANGED <<flow, acks, backlog, todo, arg, svc, out>>

\* ack == 0xFFFF is skipped; any other ack is now compared for equality.
NotAhead ==
    /\ pc = "judge"
    /\ IF call.ack = SeqMax
       THEN NextAttempt(0)
       ELSE /\ call.ack # 0 /\ call.ack <= seq
            /\ pc' = "match" /\ call' = call
    /\ UNCHANGED <<flow, acks, backlog, todo, arg, svc, out>>

\* Mutant of Match: any ack up to state.seq counts as the awaited one.
MatchOlder ==
    /\ Goto("match", "bump")
    /\ call.ack <= seq
    /\ UNCHANGED <<flow, acks, backlog, todo, arg, call, svc, out>>

Match ==
    /\ Goto("match", "bump")
    /\ call.ack = seq
    /\ UNCHANGED <<flow, acks, backlog, todo, arg, call, svc, out>>

\* An ack of an older packet uses up an attempt and sends nothing.
Stale ==
    /\ pc = "match" /\ call.ack # seq
    /\ NextAttempt(0)
    /\ UNCHANGED <<flow, acks, backlog, todo, arg, svc, out>>

\* Mutant of Bump: state.seq is not incremented.
BumpForgotten ==
    /\ Goto("bump", AfterCall)
    /\ call' = NoCall
    /\ UNCHANGED <<flow, acks, backlog, todo, arg, svc, out>>

\* state.seq++ and return 0.  The increment is a load and a store: it adds
\* one to what is there now or to what was there at the comparison.
Bump ==
    /\ Goto("bump", AfterCall)
    /\ \E old \in {seq, call.ack} : seq' = (old + 1) % (SeqMax + 1)
    /\ call' = NoCall
    /\ UNCHANGED <<st, crane, acks, backlog, todo, arg, svc, out>>

(***************************** svc: crane_receive **************************)

\* Mutant of RecvConnect: a SYN|ACK is accepted in every state.
RecvConnectAnyState(p) ==
    /\ p.type = "connect" /\ {"SYN", "ACK"} \subseteq p.flags
    /\ rx = "ready" /\ rx' = "conn_send"
    /\ rpkt' = p
    /\ UNCHANGED <<flow, acks, backlog, main, out>>

\* crane_recv_connect accepts a SYN|ACK in ST_HANDSHAKE only.
RecvConnect(p) ==
    /\ p.type = "connect" /\ st = "handshake" /\ {"SYN", "ACK"} \subseteq p.flags
    /\ rx = "ready" /\ rx' = "conn_send"
    /\ rpkt' = p
    /\ UNCHANGED <<flow, acks, backlog, main, out>>

\* crane_recv_status: queue the ack without waiting; a full queue drops it.
RecvStatus(p) ==
    /\ p.type = "status" /\ "NAK" \notin p.flags
    /\ rx = "ready" /\ rx' = "status"
    /\ rpkt' = p
    /\ acks' = IF p.seq \notin {0, SeqMax} /\ Len(acks) < AckDepth
               THEN Append(acks, p.seq) ELSE acks
    /\ UNCHANGED <<flow, backlog, main, out>>

\* crane_recv_close up to its store to state.seq, whoever sent the CLOSE.
RecvClose(p) ==
    /\ p.type = "close"
    /\ rx = "ready" /\ rx' = "close_state"
    /\ seq' = 0
    /\ UNCHANGED <<st, crane, acks, backlog, main, rpkt, out>>

\* Frames crane_receive drops: no SYN|ACK expected, NAK, ACTION.
Dropped(p) ==
    \/ p.type = "connect" /\ ~(st = "handshake" /\ {"SYN", "ACK"} \subseteq p.flags)
    \/ p.type = "status" /\ "NAK" \in p.flags
    \/ p.type = "action"

RecvDropped(p) == rx = "ready" /\ Dropped(p) /\ UNCHANGED clientVars

Receive(p) == RecvConnect(p) \/ RecvStatus(p) \/ RecvClose(p) \/ RecvDropped(p)

SvcGoto(from, to) ==
    rx = from /\ rx' = to /\ rpkt' = IF to = "ready" THEN NullPkt ELSE rpkt

\* The final ACK answers the challenge and keeps the TEST flag.
ConnSend ==
    /\ SvcGoto("conn_send", "conn_seq")
    /\ Send(crane, Pkt("connect", {"ACK"} \cup (rpkt.flags \cap {"TEST"}), 0,
                       Complement(rpkt.d)))
    /\ UNCHANGED <<flow, acks, backlog, main>>

ConnSeq ==
    /\ SvcGoto("conn_seq", "conn_state")
    /\ seq' = 1
    /\ UNCHANGED <<st, crane, acks, backlog, main, out>>

ConnState ==
    /\ SvcGoto("conn_state", "ready")
    /\ st' = "connected"
    /\ UNCHANGED <<seq, crane, acks, backlog, main, out>>

\* The stores after xQueueSend: main may have taken the ack already.
StatusStore ==
    /\ SvcGoto("status", "ready")
    /\ backlog' = rpkt.d
    /\ UNCHANGED <<flow, acks, main, out>>

\* Mutant of CloseState: the state is not reset.
CloseStateForgotten ==
    /\ SvcGoto("close_state", "close_crane")
    /\ UNCHANGED <<flow, acks, backlog, main, out>>

CloseState ==
    /\ SvcGoto("close_state", "close_crane")
    /\ st' = "disconnected"
    /\ UNCHANGED <<seq, crane, acks, backlog, main, out>>

CloseCrane ==
    /\ SvcGoto("close_crane", "ready")
    /\ crane' = Nobody
    /\ UNCHANGED <<st, seq, acks, backlog, main, out>>

(***************************** specification *******************************)

ClientInit ==
    /\ st = "disconnected" /\ seq = 0 /\ crane = Nobody
    /\ acks = <<>> /\ backlog = 0
    /\ pc = "cli" /\ todo = <<>> /\ arg = Nobody /\ call = NoCall
    /\ rx = "ready" /\ rpkt = NullPkt /\ out = <<>>

User == Close \/ (\E id \in Cranes : Open(id) \/ Test(id)) \/ (\E a \in Cmds : Act(a))

Dial == ClearState \/ ClearSeq \/ ClearCrane \/ OpenState \/ OpenSend
        \/ HandshakeDone \/ HandshakeTimeout
Drop == Disconnect \/ DisconnectSend \/ DropState \/ DropSeq
Flow == ActCrane \/ ActSend \/ FirstAck \/ AckTimeout \/ DrainAck \/ Drained
        \/ Retransmit \/ Ahead \/ NotAhead \/ Match \/ Stale \/ Bump
Script == TestStep \/ IdleDone \/ IdleTimeout

Main == Dial \/ Drop \/ Flow \/ Script
Svc  == ConnSend \/ ConnSeq \/ ConnState \/ StatusStore \/ CloseState \/ CloseCrane

\* The air delivers a frame to a node that is not modelled here.
Carry == out # <<>> /\ out' = Tail(out)
         /\ UNCHANGED <<flow, acks, backlog, main, svc>>

ClientNext == User \/ Main \/ Svc \/ Carry \/ \E p \in Incoming : Receive(p)

ClientSpec == ClientInit /\ [][ClientNext]_clientVars

(***************************** properties **********************************)

Acting  == {"act_crane", "act_send", "await", "drain", "judge", "match", "bump"}
Waiting == {"await", "drain", "judge", "match", "bump"}
Joining == {"conn_send", "conn_seq", "conn_state"}

TypeOK ==
    /\ st \in {"disconnected", "handshake", "connected"}
    /\ seq \in SeqNo /\ crane \in Cranes \cup {Nobody}
    /\ acks \in Seq(SeqNo) /\ Len(acks) <= AckDepth /\ backlog \in Word
    /\ pc \in Acting \cup {"cli", "clear_state", "clear_seq", "clear_crane",
              "open_state", "open_send", "handshake", "test", "idle", "close",
              "close_send", "drop_state", "drop_seq", "redrop_state", "redrop_seq"}
    /\ todo \in Seq(Cmds \cup {Pause, Hangup})
    /\ arg \in Cranes \cup Cmds \cup {Nobody}
    /\ call \in [pkt : Packet, attempt : 0..MaxAttempts - 1, ack : SeqNo, copies : Nat]
    /\ rx \in Joining \cup {"ready", "status", "close_state", "close_crane"}
    /\ rpkt \in Packet
    /\ out \in Seq(Frame) /\ Len(out) <= NetDepth

\* While crane_action runs no handshake can complete under it: svc is not
\* inside crane_recv_connect's accepting path and the client is not in
\* ST_HANDSHAKE, whatever arrives (crane.c, lines 148 and 319).
NoJoinWhileActing == pc \in Acting => st # "handshake" /\ rx \notin Joining

\* crane_action returns 0 only on an ack that carries the sequence number
\* of the very packet it sent, even when a CLOSE resets state.seq between
\* the comparison and the increment (crane.c, line 20 and 356-366).
AckIsOwn == pc = "bump" => call.ack = call.pkt.seq /\ call.ack > 0

\* crane_action looks at state.state and state.crane once, before its first
\* packet.  When a CLOSE clears state.crane under it, the session is closed
\* already: crane_recv_close stores the state first, so no session outlives
\* its crane and the next action is refused (crane.c, lines 176-182, 319-328).
ForgottenIsClosed ==
    pc \in Acting \ {"act_crane"} /\ crane = Nobody => st # "connected"

\* The filter of crane_recv_status on 0 and 0xFFFF keeps the sequence
\* number from wrapping: an action numbered 0xFFFF is never acknowledged,
\* so state.seq++ never overflows to 0 (crane.c, lines 205 and 363).
NoWrap == pc = "bump" => seq < SeqMax /\ call.ack < SeqMax
==============================================================================
