----------------------------- MODULE CraneSystem ----------------------------
(***************************************************************************)
(* One client (CraneClient), one crane and the air between them.           *)
(*                                                                         *)
(* The crane's firmware is not in the repository.  It is modelled from     *)
(* what crane.c and crane.h expect of it: it answers a SYN with SYN|ACK    *)
(* and a challenge, gives control for the complement of that challenge,    *)
(* accepts ACTION packets in sequence from 1, acknowledges cumulatively    *)
(* with the seq of a STATUS (repeated while data changes), refuses a gap   *)
(* with a NAK, and ends control on CLOSE or on its own.                    *)
(*                                                                         *)
(* LowNet broadcasts over a single hop: frames may be lost but not         *)
(* reordered, so each direction is a FIFO.                                 *)
(***************************************************************************)
EXTENDS CraneClient

CONSTANTS
    TheCrane,     \* node id of the crane
    Challenges,   \* challenges the crane may issue
    MaxOpens,     \* bound: connection attempts (open or test)
    CraneQuits    \* whether the crane may end control on its own

VARIABLES
    toClient,     \* packets on their way to the client
    mode,         \* crane: "free", "challenged", "controlled"
    chal,         \* crane: the challenge it issued last
    testing,      \* crane: the SYN it answered carried TEST
    next,         \* crane: sequence number of the next ACTION
    queue,        \* crane: accepted actions not yet executed
    accepted,     \* history: the running crane_action's packet was accepted
    opens         \* number of connection attempts so far

craneVars == <<mode, chal, testing, next, queue>>
vars == <<clientVars, toClient, craneVars, accepted, opens>>

ASSUME SystemAssumption ==
    /\ TheCrane \in Cranes \ {Nobody}
    /\ SeqMax <= WordMax
    /\ Challenges \subseteq Word /\ Challenges # {}
    /\ MaxOpens \in Nat
    /\ CraneQuits \in BOOLEAN

Stop == 1         \* CRANE_STOP flushes the crane's queue

Tell(p) ==
    \/ toClient' = IF Len(toClient) < NetDepth THEN Append(toClient, p) ELSE toClient
    \/ Lossy /\ toClient' = toClient

StatusPkt(n, q) == Pkt("status", {}, n - 1, q)

(***************************** the crane ***********************************)

\* The next frame the air delivers to the crane; others go nowhere.
Hears(p) == out # <<>> /\ Head(out).dst = TheCrane /\ Head(out).pkt = p
            /\ out' = Tail(out)

Unmoved == UNCHANGED <<flow, acks, backlog, main, svc, opens>>

\* A SYN opens a handshake with a fresh challenge unless the crane is taken.
CraneSyn(p) ==
    /\ Hears(p) /\ p.type = "connect" /\ "SYN" \in p.flags
    /\ IF mode = "controlled"
       THEN Tell(Pkt("connect", {"NAK"}, 0, 0)) /\ UNCHANGED craneVars
       ELSE \E c \in Challenges :
            /\ mode' = "challenged" /\ chal' = c
            /\ testing' = ("TEST" \in p.flags)
            /\ UNCHANGED <<next, queue>>
            /\ Tell(Pkt("connect", {"SYN", "ACK"} \cup (p.flags \cap {"TEST"}), 0, c))
    /\ UNCHANGED accepted /\ Unmoved

\* The final ACK with the right answer gives control.
CraneAck(p) ==
    /\ Hears(p) /\ p.type = "connect" /\ "SYN" \notin p.flags
    /\ IF mode = "challenged" /\ p.d + chal = WordMax
       THEN /\ mode' = "controlled" /\ next' = 1 /\ queue' = 0
            /\ UNCHANGED <<chal, testing>>
            /\ Tell(StatusPkt(1, 0))
       ELSE UNCHANGED <<craneVars, toClient>>
    /\ UNCHANGED accepted /\ Unmoved

\* The next ACTION is accepted, an old one acknowledged again, a gap refused.
CraneAccept(p) ==
    LET q == IF p.d = Stop THEN 0 ELSE queue + 1 IN
    /\ mode = "controlled" /\ p.seq = next
    /\ next' = next + 1 /\ queue' = q
    /\ accepted' = (accepted \/ p = call.pkt)
    /\ Tell(StatusPkt(next + 1, q))
    /\ UNCHANGED <<mode, chal, testing>>

CraneAction(p) ==
    /\ Hears(p) /\ p.type = "action"
    /\ \/ CraneAccept(p)
       \/ /\ mode = "controlled" /\ p.seq # next
          /\ Tell([StatusPkt(next, queue) EXCEPT !.flags = IF p.seq > next THEN {"NAK"} ELSE {}])
          /\ UNCHANGED <<craneVars, accepted>>
       \/ mode # "controlled" /\ UNCHANGED <<craneVars, toClient, accepted>>
    /\ Unmoved

\* CLOSE ends control; the crane may confirm it with a CLOSE of its own.
CraneClose(p) ==
    /\ Hears(p) /\ p.type = "close"
    /\ mode' = "free"
    /\ Tell(Pkt("close", {}, 0, 0)) \/ UNCHANGED toClient
    /\ UNCHANGED <<chal, testing, next, queue, accepted>> /\ Unmoved

Astray == out # <<>> /\ Head(out).dst # TheCrane /\ out' = Tail(out)
          /\ UNCHANGED <<toClient, craneVars, accepted>> /\ Unmoved

\* The periodic STATUS repeats the last acknowledgement.
CraneStatus ==
    /\ mode = "controlled"
    /\ Tell(StatusPkt(next, queue))
    /\ UNCHANGED <<craneVars, out, accepted>> /\ Unmoved

CraneExecute ==
    /\ queue > 0 /\ queue' = queue - 1
    /\ UNCHANGED <<mode, chal, testing, next, toClient, out, accepted>> /\ Unmoved

CraneQuit ==
    /\ CraneQuits /\ mode # "free" /\ mode' = "free"
    /\ Tell(Pkt("close", {}, 0, 0))
    /\ UNCHANGED <<chal, testing, next, queue, out, accepted>> /\ Unmoved

Crane ==
    \/ \E p \in {Head(out).pkt : x \in {1} \cap DOMAIN out} :
         CraneSyn(p) \/ CraneAck(p) \/ CraneAction(p) \/ CraneClose(p)
    \/ Astray \/ CraneStatus \/ CraneExecute \/ CraneQuit

(***************************** the whole ***********************************)

\* A step of main; a new crane_action starts with nothing accepted yet.
MainSteps ==
    /\ User \/ Main
    /\ opens' = IF pc = "cli" /\ pc' \in {"open_state", "clear_state"}
                THEN opens + 1 ELSE opens
    /\ opens' <= MaxOpens
    /\ accepted' = (accepted /\ pc' \in Acting)
    /\ UNCHANGED <<toClient, craneVars>>

Deliver ==
    /\ toClient # <<>> /\ toClient' = Tail(toClient)
    /\ Receive(Head(toClient))
    /\ UNCHANGED <<craneVars, accepted, opens>>

SvcSteps == Svc /\ UNCHANGED <<toClient, craneVars, accepted, opens>>

Init ==
    /\ ClientInit
    /\ toClient = <<>> /\ mode = "free" /\ chal = 0 /\ testing = FALSE
    /\ next = 1 /\ queue = 0 /\ accepted = FALSE /\ opens = 0

Next == MainSteps \/ Deliver \/ SvcSteps \/ Crane

Spec == Init /\ [][Next]_vars

\* FreeRTOS runs every ready task, and vTaskDelay and queue timeouts expire.
Running  == MainSteps /\ pc # "cli"
Fairness == /\ WF_vars(Running) /\ WF_vars(SvcSteps) /\ WF_vars(Deliver)
            /\ WF_vars(Crane /\ out' # out)

\* The loop that empties the acks queue takes microseconds, the crane repeats
\* its STATUS once a second at most (crane.h, line 7): none is sent meanwhile.
Unhurried == CraneStatus => pc # "drain"
FairSpec  == Init /\ [][Next /\ Unhurried]_vars /\ Fairness

\* A radio that answers well within the client's timeouts and the crane's
\* STATUS period: a wait expires, a STATUS is repeated and the user types the
\* next command only when nothing is under way.
Quiet  == out = <<>> /\ toClient = <<>> /\ rx = "ready"
Prompt == HandshakeTimeout \/ AckTimeout \/ CraneStatus \/ User => Quiet
PromptSpec == Init /\ [][Next /\ Unhurried /\ Prompt]_vars /\ Fairness

(***************************** properties **********************************)

SystemTypeOK ==
    /\ TypeOK
    /\ toClient \in Seq(Packet) /\ Len(toClient) <= NetDepth
    /\ mode \in {"free", "challenged", "controlled"}
    /\ chal \in Word /\ testing \in BOOLEAN
    /\ next \in 1..SeqMax + 1 /\ queue \in 0..SeqMax
    /\ accepted \in BOOLEAN /\ opens \in 0..MaxOpens

\* When crane_action returns 0 the crane has accepted the very packet this
\* call sent, unless the crane has ended the session: no repeated ack and no
\* ack of an older packet is taken for another one's, however often packets
\* are sent (crane.c, lines 341-366).
AcceptedInSession == pc = "bump" /\ mode = "controlled" => accepted

InSession == mode = "controlled" /\ st = "connected"

\* While client and crane agree that there is a session, the client's next
\* number is the crane's or one behind it: the protocol is stop-and-wait and
\* crane_action never gets past an action the crane has not taken.
LockStep == InSession => next - seq \in {0, 1}

Control == INSTANCE StopAndWait WITH
               live <- InSession,
               taken <- IF InSession THEN next - 1 ELSE 0,
               confirmed <- IF InSession /\ seq > 0 THEN seq - 1 ELSE 0

\* One session implements stop-and-wait (StopAndWait): nothing the air loses,
\* repeats or delays makes the client count an action the crane has not
\* taken, or the crane take a second one before the first is confirmed
\* (crane.c, lines 330-371).
ImplementsStopAndWait == Control!SessionSpec

\* No ACTION leaves a gap, so the NAK that crane_recv_status ignores (lines
\* 197-201) is never needed.
NoGap == mode = "controlled" => \A i \in DOMAIN out :
             out[i].pkt.type = "action" => out[i].pkt.seq <= next

\* Every console command ends, whatever the network does: crane_action after
\* at most MaxAttempts waits, crane_test after its pattern (README.md, line
\* 10: "time-bounded control").
CommandReturns == pc # "cli" ~> pc = "cli"

\* On a link that loses nothing and answers in time, crane_test gets every
\* action of its pattern accepted and then hangs up (crane.c, lines 378-383).
PatternActions == SelectSeq(TestPattern, LAMBDA op : op # Pause)
TestDelivers   == (pc = "open_send" /\ todo # <<>>)
                     ~> (pc = "close" /\ next = Len(PatternActions) + 1)
==============================================================================
