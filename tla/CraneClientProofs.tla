-------------------------- MODULE CraneClientProofs -------------------------
(***************************************************************************)
(* Proofs about the client of CraneClient, for every value of its          *)
(* constants and whatever the network delivers.                            *)
(***************************************************************************)
EXTENDS CraneClient, SequenceTheorems, TLAPS

(***************************** the inductive invariant *********************)

\* The argument of a command has the type its next use needs.
Arguments ==
    /\ pc \in {"clear_state", "clear_seq", "clear_crane", "open_state", "open_send"}
          => arg \in Cranes
    /\ pc \in {"act_crane", "act_send"} => arg \in Cmds

\* A running crane_test still has its crane_disconnect ahead.
Scripted ==
    /\ todo # <<>> => todo[Len(todo)] = Hangup
    /\ pc \in {"handshake", "test", "idle"} => todo # <<>>

\* Acks that reach main are proper sequence numbers; while crane_action
\* waits, state.seq is the number it sent or was reset by a CLOSE.
Numbers ==
    /\ acks \in Seq(1..SeqMax - 1)
    /\ call.ack \in 0..SeqMax - 1
    /\ pc \in {"match", "bump"} => call.ack > 0
    /\ pc \in Waiting => seq \in {call.pkt.seq, 0}

\* svc completes a handshake only from a client that is not connected.
Joins == rx \in Joining => st # "connected"

\* crane_recv_close has closed the session before it forgets the crane.
Closes == rx = "close_crane" => st # "connected"

IInv == TypeOK /\ Arguments /\ Scripted /\ Numbers /\ Joins /\ Closes
        /\ NoJoinWhileActing /\ AckIsOwn /\ ForgottenIsClosed

(***************************** lemmas **************************************)

\* A packet built from well-typed fields is a packet.
LEMMA PktType ==
    ASSUME NEW t \in {"connect", "status", "action", "close"}, NEW f \in SUBSET Flags,
           NEW n \in SeqNo, NEW x \in Word
    PROVE  Pkt(t, f, n, x) \in Packet
BY DEF Pkt, Packet

\* The complement of a word is a word.
LEMMA ComplementType ==
    ASSUME NEW d \in Word PROVE Complement(d) \in Word
BY ClientAssumption DEF Complement, Word

\* What is left of a packet's number when 0 and 0xFFFF are filtered out.
LEMMA ProperSeq ==
    ASSUME NEW p \in Packet, p.seq \notin {0, SeqMax}
    PROVE  p.seq \in 1..SeqMax - 1 /\ p.seq \in SeqNo
BY ClientAssumption DEF Packet, SeqNo

\* crane_send keeps the bounded queue of frames in the air well typed.
LEMMA SendType ==
    ASSUME out \in Seq(Frame), Len(out) <= NetDepth,
           NEW dst \in Cranes \cup {Nobody}, NEW p \in Packet, Send(dst, p)
    PROVE  out' \in Seq(Frame) /\ Len(out') <= NetDepth
<1>1. [dst |-> dst, pkt |-> p] \in Frame
  BY DEF Frame
<1>2. CASE out' = Append(out, [dst |-> dst, pkt |-> p]) /\ Len(out) < NetDepth
  BY <1>1, <1>2, AppendProperties, LenProperties, ClientAssumption
<1> QED
  BY <1>2 DEF Send

\* A sequence that ends in h still does after its head is taken, unless its
\* head was that h.
LEMMA LastOfTail ==
    ASSUME NEW S, NEW s \in Seq(S), s # <<>>, NEW h, s[Len(s)] = h
    PROVE  /\ Head(s) \in S /\ Tail(s) \in Seq(S)
           /\ Tail(s) # <<>> => Tail(s)[Len(Tail(s))] = h
           /\ Head(s) # h => Tail(s) # <<>>
<1>1. Head(s) \in S /\ Tail(s) \in Seq(S) /\ Len(Tail(s)) = Len(s) - 1
      /\ \A i \in 1..Len(Tail(s)) : Tail(s)[i] = s[i + 1]
  BY HeadTailProperties
<1>2. Len(s) \in Nat \ {0}
  BY EmptySeq
<1>3. ASSUME Tail(s) # <<>> PROVE Tail(s)[Len(Tail(s))] = h
  <2>1. Len(Tail(s)) \in Nat \ {0}
    BY <1>1, <1>3, EmptySeq
  <2> QED
    BY <1>1, <1>2, <2>1
<1>4. ASSUME Tail(s) = <<>> PROVE Head(s) = h
  <2>1. Len(Tail(s)) = 0
    BY <1>4, EmptySeq
  <2>2. Len(s) - 1 = 0
    BY <1>1, <2>1, Zenon
  <2>3. Len(s) = 1
    BY <1>2, <2>2
  <2>4. Head(s) = s[1]
    OBVIOUS
  <2> QED
    BY <2>3, <2>4
<1> QED
  BY <1>1, <1>3, <1>4

\* Constants that the actions use are of the right type.
LEMMA Constants ==
    /\ 0 \in SeqNo /\ 1 \in SeqNo /\ 0 \in Word
    /\ NullPkt \in Packet
    /\ NoCall \in [pkt : Packet, attempt : 0..MaxAttempts - 1, ack : SeqNo, copies : Nat]
BY ClientAssumption, PktType DEF SeqNo, Word, NullPkt, NoCall, Flags

(***************************** steps of main *******************************)

USE DEF Acting, Waiting, Joining

\* The steps of open and test up to the SYN and its outcome keep the
\* invariant.
LEMMA DialStep ==
    ASSUME IInv, Dial PROVE IInv'
<1> USE ClientAssumption, Constants DEF IInv, TypeOK, Arguments, Scripted, Numbers, Joins, Closes,
        NoJoinWhileActing, AckIsOwn, ForgottenIsClosed, Goto, svc, main, flow
<1>1. CASE ClearState
  BY <1>1 DEF ClearState
<1>2. CASE ClearSeq
  BY <1>2 DEF ClearSeq
<1>3. CASE ClearCrane
  BY <1>3 DEF ClearCrane
<1>4. CASE OpenState
  BY <1>4 DEF OpenState
<1>5. CASE OpenSend
  <2>1. Pkt("connect", IF todo = <<>> THEN {"SYN"} ELSE {"SYN", "TEST"}, 0, 0) \in Packet
    BY PktType DEF Flags
  <2>2. out' \in Seq(Frame) /\ Len(out') <= NetDepth
    BY <1>5, <2>1, SendType DEF OpenSend
  <2> QED
    BY <1>5, <2>2 DEF OpenSend
<1>6. CASE HandshakeDone
  BY <1>6 DEF HandshakeDone
<1>7. CASE HandshakeTimeout
  BY <1>7 DEF HandshakeTimeout
<1> QED
  BY <1>1, <1>2, <1>3, <1>4, <1>5, <1>6, <1>7 DEF Dial

\* So do the steps of crane_disconnect, which leave no packet behind.
LEMMA DropStep ==
    ASSUME IInv, Drop PROVE IInv'
<1> USE ClientAssumption, Constants DEF IInv, TypeOK, Arguments, Scripted, Numbers, Joins, Closes,
        NoJoinWhileActing, AckIsOwn, ForgottenIsClosed, Goto, svc, main, flow
<1>1. CASE Disconnect
  <2>1. Pkt("close", {}, seq, 0) \in Packet
    BY PktType
  <2>2. call' = [NoCall EXCEPT !.pkt = Pkt("close", {}, seq, 0)]
    BY <1>1 DEF Disconnect
  <2>3. call' \in [pkt : Packet, attempt : 0..MaxAttempts - 1, ack : SeqNo, copies : Nat]
    BY <2>1, <2>2
  <2>4. call'.ack = 0
    BY <2>2 DEF NoCall
  <2>5. /\ pc = "close" /\ pc' = "close_send"
        /\ UNCHANGED <<st, seq, crane, acks, backlog, todo, arg, rx, rpkt, out>>
    BY <1>1 DEF Disconnect
  <2> QED
    BY <2>3, <2>4, <2>5
<1>2. CASE DisconnectSend
  <2>1. out' \in Seq(Frame) /\ Len(out') <= NetDepth
    BY <1>2, SendType DEF DisconnectSend
  <2>2. call' = NoCall /\ call'.ack = 0
    BY <1>2 DEF DisconnectSend, NoCall
  <2>3. /\ pc = "close_send" /\ pc' = "drop_state"
        /\ UNCHANGED <<st, seq, crane, acks, backlog, todo, arg, rx, rpkt>>
    BY <1>2 DEF DisconnectSend
  <2> QED
    BY <2>1, <2>2, <2>3
<1>3. CASE DropState
  BY <1>3, SMTT(20) DEF DropState
<1>4. CASE DropSeq
  <2>1. seq' = 0 /\ UNCHANGED <<st, crane, acks, backlog, todo, arg, call, rx, rpkt, out>>
    BY <1>4 DEF DropSeq
  <2>2. CASE pc = "drop_seq" /\ pc' = "redrop_state"
    BY <2>1, <2>2
  <2>3. CASE pc = "redrop_seq" /\ pc' = AfterCall
    <3>1. pc' \in {"cli", "test"} /\ (pc' = "test" => todo # <<>>)
      BY <2>3 DEF AfterCall
    <3> QED
      BY <2>1, <2>3, <3>1, SMTT(20)
  <2> QED
    BY <1>4, <2>2, <2>3 DEF DropSeq
<1> QED
  BY <1>1, <1>2, <1>3, <1>4 DEF Drop

\* The steps of crane_test between two operations keep the invariant.
LEMMA ScriptStep ==
    ASSUME IInv, Script PROVE IInv'
<1> USE ClientAssumption, Constants DEF IInv, TypeOK, Arguments, Scripted, Numbers, Joins, Closes,
        NoJoinWhileActing, AckIsOwn, ForgottenIsClosed, Goto, svc, main, flow
<1>1. CASE TestStep
  <2>1. todo \in Seq(Cmds \cup {Pause, Hangup}) /\ todo # <<>> /\ todo[Len(todo)] = Hangup
    BY <1>1 DEF TestStep
  <2>2. /\ Head(todo) \in Cmds \cup {Pause, Hangup}
        /\ Tail(todo) \in Seq(Cmds \cup {Pause, Hangup})
        /\ Tail(todo) # <<>> => Tail(todo)[Len(Tail(todo))] = Hangup
        /\ Head(todo) # Hangup => Tail(todo) # <<>>
    BY <2>1, LastOfTail
  <2>3. todo' = Tail(todo)
    BY <1>1 DEF TestStep
  <2>4. Pause # Hangup /\ (Head(todo) \in Cmds => Head(todo) # Hangup)
    BY DEF Word, Pause, Hangup
  <2>5. UNCHANGED <<st, seq, crane, acks, backlog, call, rx, rpkt, out>>
    BY <1>1 DEF TestStep
  <2>6. CASE Head(todo) = Pause /\ pc' = "idle" /\ arg' = arg
    BY <2>2, <2>3, <2>4, <2>5, <2>6, SMTT(20)
  <2>7. CASE Head(todo) = Hangup /\ pc' = "close" /\ arg' = arg
    BY <2>2, <2>3, <2>5, <2>7, SMTT(20)
  <2>8. CASE /\ Head(todo) \in Cmds /\ st = "connected"
             /\ pc' = "act_crane" /\ arg' = Head(todo)
    BY <2>2, <2>3, <2>5, <2>8
  <2>9. CASE Head(todo) \in Cmds /\ pc' = "test" /\ arg' = arg
    BY <2>2, <2>3, <2>4, <2>5, <2>9, SMTT(20)
  <2> QED
    BY <1>1, <2>6, <2>7, <2>8, <2>9 DEF TestStep
<1>2. CASE IdleDone
  BY <1>2 DEF IdleDone
<1>3. CASE IdleTimeout
  BY <1>3 DEF IdleTimeout
<1> QED
  BY <1>1, <1>2, <1>3 DEF Script

\* A console command starts from the idle client and keeps the invariant.
LEMMA UserStep ==
    ASSUME IInv, User PROVE IInv'
<1> USE ClientAssumption, Constants DEF IInv, TypeOK, Arguments, Scripted, Numbers, Joins, Closes,
        NoJoinWhileActing, AckIsOwn, ForgottenIsClosed, Goto, svc, main, flow
<1>1. CASE Close
  BY <1>1 DEF Close
<1>2. ASSUME NEW id \in Cranes, Open(id) PROVE IInv'
  BY <1>2 DEF Open
<1>3. ASSUME NEW id \in Cranes, Test(id) PROVE IInv'
  <2> DEFINE ops == Cmds \cup {Pause, Hangup}
  <2>1. TestPattern \in Seq(ops) /\ <<Hangup>> \in Seq(ops)
    BY SeqMonotonic
  <2>2. /\ TestPattern \o <<Hangup>> \in Seq(ops)
        /\ Len(TestPattern \o <<Hangup>>) = Len(TestPattern) + 1
        /\ (TestPattern \o <<Hangup>>)[Len(TestPattern) + 1] = Hangup
    BY <2>1, ConcatProperties, LenProperties
  <2>3. TestPattern \o <<Hangup>> # <<>>
    BY <2>2, EmptySeq, LenProperties
  <2> QED
    BY <1>3, <2>2, <2>3 DEF Test
<1>4. ASSUME NEW a \in Cmds, Act(a) PROVE IInv'
  BY <1>4 DEF Act
<1> QED
  BY <1>1, <1>2, <1>3, <1>4 DEF User

\* The locals of crane_action, and what storing an ack in them keeps.
Calls == [pkt : Packet, attempt : 0..MaxAttempts - 1, ack : SeqNo, copies : Nat]

\* Storing an ack in the locals of the call changes nothing but that ack.
LEMMA StoreAck ==
    ASSUME NEW c \in Calls, NEW a \in SeqNo
    PROVE  /\ [c EXCEPT !.ack = a] \in Calls
           /\ [c EXCEPT !.ack = a].ack = a
           /\ [c EXCEPT !.ack = a].pkt = c.pkt
BY DEF Calls

\* read_acks keeps the larger of two acks.
LEMMA LargerAck ==
    ASSUME NEW a \in 0..SeqMax - 1, NEW b \in 1..SeqMax - 1
    PROVE  LET c == IF a >= b THEN a ELSE b IN c \in 0..SeqMax - 1 /\ c \in SeqNo
BY ClientAssumption DEF SeqNo

\* Taking an ack off the queue.
LEMMA TakeAck ==
    ASSUME acks \in Seq(1..SeqMax - 1), acks # <<>>, Len(acks) <= AckDepth
    PROVE  /\ Head(acks) \in 1..SeqMax - 1 /\ Head(acks) \in SeqNo
           /\ Tail(acks) \in Seq(1..SeqMax - 1) /\ Tail(acks) \in Seq(SeqNo)
           /\ Len(Tail(acks)) <= AckDepth
<1>1. /\ Head(acks) \in 1..SeqMax - 1
      /\ Tail(acks) \in Seq(1..SeqMax - 1)
      /\ Len(Tail(acks)) = Len(acks) - 1
  BY HeadTailProperties
<1>2. 1..SeqMax - 1 \subseteq SeqNo
  BY ClientAssumption DEF SeqNo
<1>3. Tail(acks) \in Seq(SeqNo)
  BY <1>1, <1>2, SeqMonotonic
<1>4. Len(acks) \in Nat \ {0} /\ AckDepth \in Nat
  BY EmptySeq, ClientAssumption
<1>5. Len(acks) - 1 <= AckDepth
  BY <1>4
<1> QED
  BY <1>1, <1>2, <1>3, <1>5

\* What the end of an attempt does to the locals of crane_action.
LEMMA NextAttemptType ==
    ASSUME call \in Calls, call.ack \in 0..SeqMax - 1,
           NEW resent \in {0, 1}, NextAttempt(resent)
    PROVE  /\ call' \in Calls
           /\ call'.ack \in 0..SeqMax - 1
           /\ pc' \in {"await", "close"}
           /\ pc' = "await" => call'.pkt = call.pkt
<1> USE ClientAssumption
<1>1. CASE call.attempt + 1 < MaxAttempts
  <2>1. pc' = "await" /\ call' = [call EXCEPT !.attempt = call.attempt + 1,
                                              !.copies = call.copies + resent]
    BY <1>1 DEF NextAttempt
  <2>2. call.attempt + 1 \in 0..MaxAttempts - 1 /\ call.copies + resent \in Nat
    BY <1>1 DEF Calls
  <2> QED
    BY <2>1, <2>2 DEF Calls
<1>2. CASE ~(call.attempt + 1 < MaxAttempts)
  <2>1. pc' = "close" /\ call' = NoCall
    BY <1>2 DEF NextAttempt
  <2> QED
    BY <2>1, Constants DEF Calls, NoCall
<1> QED
  BY <1>1, <1>2

\* The steps of crane_action keep the invariant.
LEMMA FlowStep ==
    ASSUME IInv, Flow PROVE IInv'
<1> USE ClientAssumption, Constants DEF IInv, TypeOK, Arguments, Scripted, Numbers, Joins, Closes,
        NoJoinWhileActing, AckIsOwn, ForgottenIsClosed, Goto, svc, main, flow
<1>1. CASE ActCrane
  <2>1. AfterCall \in {"cli", "test"} /\ (AfterCall = "test" => todo # <<>>)
    BY DEF AfterCall
  <2> QED
    BY <1>1, <2>1 DEF ActCrane, Nobody
<1>2. CASE ActSend
  <2> DEFINE p == Pkt("action", {}, seq, arg)
  <2>1. p \in Packet /\ p.seq = seq
    BY <1>2, PktType DEF ActSend, Pkt
  <2>2. out' \in Seq(Frame) /\ Len(out') <= NetDepth
    BY <1>2, <2>1, SendType DEF ActSend
  <2>3. call' = [pkt |-> p, attempt |-> 0, ack |-> 0, copies |-> 1]
    BY <1>2 DEF ActSend
  <2> QED
    BY <1>2, <2>1, <2>2, <2>3, SMTT(20) DEF ActSend
<1>3. CASE FirstAck
  <2>1. /\ acks' = Tail(acks) /\ call' = [call EXCEPT !.ack = Head(acks)]
        /\ pc = "await" /\ pc' = "drain"
        /\ UNCHANGED <<st, seq, crane, backlog, todo, arg, rx, rpkt, out>>
    BY <1>3 DEF FirstAck
  <2>2. /\ Head(acks) \in 1..SeqMax - 1 /\ Head(acks) \in SeqNo
        /\ acks' \in Seq(1..SeqMax - 1) /\ acks' \in Seq(SeqNo) /\ Len(acks') <= AckDepth
    BY <1>3, <2>1, TakeAck DEF FirstAck
  <2>3. call' \in Calls /\ call'.ack = Head(acks) /\ call'.pkt = call.pkt
    BY <2>1, <2>2, StoreAck DEF Calls
  <2>4. call'.ack \in 0..SeqMax - 1
    BY <2>2, <2>3, SMTT(20)
  <2> QED
    BY <2>1, <2>2, <2>3, <2>4 DEF Calls
<1>4. CASE AckTimeout
  <2>1. /\ call' = [call EXCEPT !.ack = 0] /\ pc = "await" /\ pc' = "drain"
        /\ UNCHANGED <<st, seq, crane, acks, backlog, todo, arg, rx, rpkt, out>>
    BY <1>4 DEF AckTimeout
  <2>2. call' \in Calls /\ call'.ack = 0 /\ call'.pkt = call.pkt
    BY <2>1, StoreAck DEF Calls
  <2> QED
    BY <2>1, <2>2, SMTT(20) DEF Calls
<1>5. CASE DrainAck
  <2> DEFINE a == IF call.ack >= Head(acks) THEN call.ack ELSE Head(acks)
  <2>1. /\ acks' = Tail(acks) /\ call' = [call EXCEPT !.ack = a]
        /\ pc = "drain" /\ pc' = "drain"
        /\ UNCHANGED <<st, seq, crane, backlog, todo, arg, rx, rpkt, out>>
    BY <1>5 DEF DrainAck
  <2>2. /\ Head(acks) \in 1..SeqMax - 1 /\ Head(acks) \in SeqNo
        /\ acks' \in Seq(1..SeqMax - 1) /\ acks' \in Seq(SeqNo) /\ Len(acks') <= AckDepth
    BY <1>5, <2>1, TakeAck DEF DrainAck
  <2>3. a \in 0..SeqMax - 1 /\ a \in SeqNo
    BY <2>2, LargerAck
  <2>4. call' \in Calls /\ call'.ack = a /\ call'.pkt = call.pkt
    BY <2>1, <2>3, StoreAck DEF Calls
  <2> QED
    BY <2>1, <2>2, <2>3, <2>4 DEF Calls
<1>6. CASE Drained
  BY <1>6 DEF Drained
<1>7. CASE Retransmit
  <2>1. out' \in Seq(Frame) /\ Len(out') <= NetDepth
    BY <1>7, SendType DEF Retransmit
  <2> QED
    BY <1>7, <2>1, NextAttemptType DEF Retransmit, Calls
<1>8. CASE Ahead
  BY <1>8 DEF Ahead, NoCall
<1>9. CASE NotAhead
  <2>1. CASE call.ack = SeqMax
    BY <2>1
  <2>2. CASE call.ack # SeqMax
    BY <1>9, <2>2 DEF NotAhead
  <2> QED
    BY <2>1, <2>2
<1>10. CASE Match
  BY <1>10, SMTT(20) DEF Match, SeqNo
<1>11. CASE Stale
  BY <1>11, NextAttemptType, SMTT(20) DEF Stale, Calls
<1>12. CASE Bump
  <2>1. AfterCall \in {"cli", "test"} /\ (AfterCall = "test" => todo # <<>>)
    BY DEF AfterCall
  <2>2. seq' \in SeqNo
    BY <1>12 DEF Bump, SeqNo
  <2>3. /\ call' = NoCall /\ pc' = AfterCall
        /\ UNCHANGED <<st, crane, acks, backlog, todo, arg, rx, rpkt, out>>
    BY <1>12 DEF Bump
  <2>4. call'.ack = 0
    BY <2>3 DEF NoCall
  <2> QED
    BY <2>1, <2>2, <2>3, <2>4, SMTT(20)
<1> QED
  BY <1>1, <1>2, <1>3, <1>4, <1>5, <1>6, <1>7, <1>8, <1>9, <1>10, <1>11, <1>12 DEF Flow

(***************************** steps of svc ********************************)

\* The later steps of crane_receive keep the invariant.
LEMMA SvcStep ==
    ASSUME IInv, Svc PROVE IInv'
<1> USE ClientAssumption, Constants DEF IInv, TypeOK, Arguments, Scripted, Numbers, Joins, Closes,
        NoJoinWhileActing, AckIsOwn, ForgottenIsClosed, Goto, svc, main, flow, SvcGoto
<1>1. CASE ConnSend
  <2> DEFINE p == Pkt("connect", {"ACK"} \cup (rpkt.flags \cap {"TEST"}), 0, Complement(rpkt.d))
  <2>1. Complement(rpkt.d) \in Word
    BY ComplementType DEF Packet
  <2>2. p \in Packet
    BY <2>1, PktType DEF Flags
  <2>3. out' \in Seq(Frame) /\ Len(out') <= NetDepth
    BY <1>1, <2>2, SendType DEF ConnSend
  <2> QED
    BY <1>1, <2>3 DEF ConnSend
<1>2. CASE ConnSeq
  BY <1>2 DEF ConnSeq
<1>3. CASE ConnState
  BY <1>3 DEF ConnState
<1>4. CASE StatusStore
  BY <1>4 DEF StatusStore, Packet
<1>5. CASE CloseState
  BY <1>5 DEF CloseState
<1>6. CASE CloseCrane
  BY <1>6 DEF CloseCrane
<1> QED
  BY <1>1, <1>2, <1>3, <1>4, <1>5, <1>6 DEF Svc

\* The first step of crane_receive keeps the invariant for any packet.
LEMMA ReceiveStep ==
    ASSUME IInv, NEW p \in Packet, Receive(p) PROVE IInv'
<1> USE ClientAssumption, Constants DEF IInv, TypeOK, Arguments, Scripted, Numbers, Joins, Closes,
        NoJoinWhileActing, AckIsOwn, ForgottenIsClosed, Goto, svc, main, flow
<1>1. CASE RecvConnect(p)
  BY <1>1 DEF RecvConnect
<1>2. CASE RecvStatus(p)
  <2>1. /\ acks' \in Seq(1..SeqMax - 1) /\ acks' \in Seq(SeqNo)
        /\ Len(acks') <= AckDepth
    <3>1. CASE p.seq \notin {0, SeqMax} /\ Len(acks) < AckDepth
      <4>1. p.seq \in 1..SeqMax - 1 /\ p.seq \in SeqNo
        BY <3>1, ProperSeq
      <4> QED
        BY <1>2, <3>1, <4>1, AppendProperties DEF RecvStatus
    <3>2. CASE ~(p.seq \notin {0, SeqMax} /\ Len(acks) < AckDepth)
      BY <1>2, <3>2 DEF RecvStatus
    <3> QED
      BY <3>1, <3>2
  <2> QED
    BY <1>2, <2>1 DEF RecvStatus
<1>3. CASE RecvClose(p)
  BY <1>3 DEF RecvClose
<1>4. CASE RecvDropped(p)
  BY <1>4 DEF RecvDropped, clientVars
<1> QED
  BY <1>1, <1>2, <1>3, <1>4 DEF Receive

(***************************** theorems ************************************)

\* The initial state satisfies the invariant.
LEMMA InitIInv == ClientInit => IInv
BY ClientAssumption, Constants, EmptySeq
   DEF ClientInit, IInv, TypeOK, Arguments, Scripted, Numbers, Joins, Closes, NoJoinWhileActing,
       AckIsOwn, ForgottenIsClosed, NoCall

\* Every step of the client keeps the invariant.
LEMMA StepIInv == IInv /\ [ClientNext]_clientVars => IInv'
<1> SUFFICES ASSUME IInv, [ClientNext]_clientVars PROVE IInv'
  OBVIOUS
<1>1. CASE User
  BY <1>1, UserStep
<1>2. CASE Main
  BY <1>2, DialStep, DropStep, FlowStep, ScriptStep DEF Main
<1>3. CASE Svc
  BY <1>3, SvcStep
<1>4. CASE Carry
  <2>1. out' \in Seq(Frame) /\ Len(out') <= NetDepth
    BY <1>4, HeadTailProperties, LenProperties, ClientAssumption DEF Carry, IInv, TypeOK
  <2> QED
    BY <1>4, <2>1 DEF Carry, IInv, TypeOK, Arguments, Scripted, Numbers, Joins, Closes,
       NoJoinWhileActing, AckIsOwn, ForgottenIsClosed, main, svc, flow
<1>5. CASE \E p \in Incoming : Receive(p)
  BY <1>5, ReceiveStep, ClientAssumption
<1>6. CASE UNCHANGED clientVars
  BY <1>6 DEF clientVars, IInv, TypeOK, Arguments, Scripted, Numbers, Joins, Closes,
     NoJoinWhileActing, AckIsOwn, ForgottenIsClosed
<1> QED
  BY <1>1, <1>2, <1>3, <1>4, <1>5, <1>6 DEF ClientNext

\* The inductive invariant holds in every reachable state.
THEOREM ClientInvariant == ClientSpec => []IInv
BY InitIInv, StepIInv, PTL DEF ClientSpec

\* Every variable of the client keeps its type, whatever the network delivers.
THEOREM ClientTypeCorrect == ClientSpec => []TypeOK
<1>1. IInv => TypeOK
  BY DEF IInv
<1> QED
  BY <1>1, ClientInvariant, PTL

\* No handshake completes while crane_action runs (crane.c, lines 148, 319).
THEOREM ClientNoJoinWhileActing == ClientSpec => []NoJoinWhileActing
<1>1. IInv => NoJoinWhileActing
  BY DEF IInv
<1> QED
  BY <1>1, ClientInvariant, PTL

\* crane_action succeeds only on an ack of its own packet's number
\* (crane.c, lines 356-366), whatever CLOSE or STATUS packets arrive.
THEOREM ClientAckIsOwn == ClientSpec => []AckIsOwn
<1>1. IInv => AckIsOwn
  BY DEF IInv
<1> QED
  BY <1>1, ClientInvariant, PTL

\* A session whose crane is forgotten under crane_action is closed (crane.c,
\* lines 176-182, 319-328), whatever arrives.
THEOREM ClientForgottenIsClosed == ClientSpec => []ForgottenIsClosed
<1>1. IInv => ForgottenIsClosed
  BY DEF IInv
<1> QED
  BY <1>1, ClientInvariant, PTL

\* state.seq++ never wraps to 0 (crane.c, lines 205 and 363).
THEOREM ClientNoWrap == ClientSpec => []NoWrap
<1>1. IInv => NoWrap
  BY ClientAssumption DEF IInv, NoWrap, TypeOK, Numbers, AckIsOwn, SeqNo, Packet
<1> QED
  BY <1>1, ClientInvariant, PTL
==============================================================================
