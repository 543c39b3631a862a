------------------------------- MODULE NetTime -------------------------------
(***************************************************************************)
(* Network time (lownet.c, lownet_util.c) and the ping that measures with  *)
(* it (ping.c).  Two tasks of a node read the time: main, for /ping and    *)
(* /date, and svc, the network service, for the ping frames that arrive.   *)
(* svc also sets it, when a signed time command arrives; nothing locks it, *)
(* so main may read while svc writes.  A ping goes to one node or to all   *)
(* of them; the other nodes run the same firmware, and only their          *)
(* ping_receive matters here.  The frames between this node and another    *)
(* stay in order, as LowNet shows of frames of one mode; a change of mode  *)
(* while a ping is on its way is not modelled here.                        *)
(*                                                                         *)
(* A second has Millis milliseconds (1000) and Parts fractions (256); an   *)
(* unsigned word has the values 0 .. Word - 1 (2^32).                      *)
(***************************************************************************)
EXTENDS Integers, Sequences

CONSTANTS
    Peers,        \* the other nodes
    Parts,        \* LOWNET_TIME_RESOLUTION
    Millis,       \* milliseconds of a second
    Word,         \* size of an unsigned word
    Times,        \* times a command may set
    NetDepth,     \* bound: frames on the way to a node
    MaxUp,        \* bound: uptime in milliseconds
    MaxSets,      \* bound: time commands
    MaxPings,     \* bound: pings of this node
    MaxPeer       \* bound: pings of the other nodes

VARIABLES
    up,           \* esp_timer_get_time() / 1000
    sync_time,    \* net_system.sync_time
    sync_stamp,   \* net_system.sync_stamp
    set,          \* lownet_set_time in svc: its control point and argument
    get,          \* lownet_get_time, by the task that runs it
    toPeer, toMe, \* ping packets on the way to each other node, and to this one
    epoch,        \* history: number of stores of lownet_set_time
    sets,         \* history: time commands executed
    pings, peers, \* history: pings sent by this node, by the others
    replies       \* history: the pings a reply of each node was printed for, in order

clockVars == <<sync_time, sync_stamp, set, epoch, sets>>
pingVars  == <<toPeer, toMe, pings, peers, replies>>
vars      == <<up, clockVars, get, pingVars>>

Tasks == {"main", "svc"}
Nodes == Peers \cup {"me"}
Time  == [seconds : 0..Word - 1, parts : 0..Parts - 1]
Zero  == [seconds |-> 0, parts |-> 0]

ASSUME TimeAssumption ==
    /\ "me" \notin Peers
    /\ Parts \in Nat \ {0} /\ Millis \in Nat \ {0} /\ Word \in Nat \ {0}
    /\ Word % Parts = 0
    /\ Times \subseteq Time
    /\ NetDepth \in Nat /\ MaxUp \in Nat /\ MaxSets \in Nat
    /\ MaxPings \in Nat /\ MaxPeer \in Nat

(***************************** arithmetic **********************************)

\* Division of the language: it rounds towards zero.
Quot(a, b) == IF a >= 0 THEN a \div b ELSE -((-a) \div b)
Rem(a, b)  == a - b * Quot(a, b)

\* Mutant of Elapsed: the fraction of the time set is counted as milliseconds.
ElapsedUnscaled(now, stamp, parts) == now - stamp + parts

\* delta: milliseconds since the start of the second that was set.
Elapsed(now, stamp, parts) == now - stamp + Quot(parts * Millis, Parts)

\* Mutant of After: the seconds are rounded to the nearest.
AfterRounded(s, delta) == [seconds |-> (s + Quot(delta + Millis \div 2, Millis)) % Word,
                           parts   |-> Quot(Rem(delta, Millis) * Parts, Millis) % Parts]

\* The time delta milliseconds after the start of second s.
After(s, delta) == [seconds |-> (s + Quot(delta, Millis)) % Word,
                    parts   |-> Quot(Rem(delta, Millis) * Parts, Millis) % Parts]

time_to_milliseconds(t) == (t.seconds * Parts + t.parts) % Word

time_from_milliseconds(n) == [seconds |-> n \div Parts, parts |-> n % Parts]

\* Mutant of time_diff: the fields are subtracted one by one.
DiffByField(a, b) == [seconds |-> (b.seconds - a.seconds) % Word,
                      parts   |-> (b.parts - a.parts) % Parts]

time_diff(a, b) ==
    time_from_milliseconds((time_to_milliseconds(b) - time_to_milliseconds(a)) % Word)

(***************************** lownet_get_time *****************************)

Nothing == [origin |-> "me", node |-> "me", id |-> 0, out |-> Zero, now |-> 0, epoch |-> 0]
NoGet   == [at |-> "idle", use |-> "date", pkt |-> Nothing, to |-> {}, epoch |-> 0, now |-> 0,
            stamp |-> 0, parts |-> 0]

\* Task t calls it, for a purpose: about a packet, or for a ping to some nodes.
Call(t, use, pkt, to) ==
    /\ get[t].at = "idle"
    /\ get' = [get EXCEPT ![t] = [NoGet EXCEPT !.at = "test", !.use = use, !.pkt = pkt,
                                               !.to = to, !.epoch = epoch]]

\* The result, from the locals and a last look at the seconds.
Result(t) ==
    IF get[t].at = "test" THEN Zero
    ELSE After(sync_time.seconds, Elapsed(get[t].now, get[t].stamp, get[t].parts))

\* sync_time.seconds == 0: there is no network time.
Synced(t) ==
    /\ get[t].at = "test" /\ sync_time.seconds # 0
    /\ get' = [get EXCEPT ![t].at = "now"]
    /\ UNCHANGED <<up, clockVars, pingVars>>

ReadNow(t) ==
    /\ get[t].at = "now"
    /\ get' = [get EXCEPT ![t].at = "sync", ![t].now = up]
    /\ UNCHANGED <<up, clockVars, pingVars>>

ReadSync(t) ==
    /\ get[t].at = "sync"
    /\ get' = [get EXCEPT ![t].at = "seconds", ![t].stamp = sync_stamp,
                          ![t].parts = sync_time.parts]
    /\ UNCHANGED <<up, clockVars, pingVars>>

Returns(t) == get[t].at = "seconds" \/ (get[t].at = "test" /\ sync_time.seconds = 0)

\* No store of lownet_set_time came between the call and now.
Undisturbed(t) == get[t].epoch = epoch /\ set.at = "idle"

\* The call returns and its caller goes on.
Return(t, use) ==
    /\ Returns(t) /\ get[t].use = use
    /\ get' = [get EXCEPT ![t] = NoGet]
    /\ UNCHANGED <<up, clockVars>>

(***************************** lownet_set_time *****************************)

\* A time command: memcpy stores the seconds, ...
SetTime(time) ==
    /\ get["svc"].at = "idle" /\ set.at = "idle" /\ sets < MaxSets /\ sets' = sets + 1
    /\ sync_time' = [sync_time EXCEPT !.seconds = time.seconds]
    /\ set' = [at |-> "parts", parts |-> time.parts] /\ epoch' = epoch + 1
    /\ UNCHANGED <<up, sync_stamp, get, pingVars>>

\* ... the fraction, ...
SetParts ==
    /\ set.at = "parts" /\ set' = [set EXCEPT !.at = "stamp"]
    /\ sync_time' = [sync_time EXCEPT !.parts = set.parts] /\ epoch' = epoch + 1
    /\ UNCHANGED <<up, sync_stamp, sets, get, pingVars>>

\* Mutant of SetStamp: the stamp is taken in microseconds.
SetStampMicro ==
    /\ set.at = "stamp" /\ set' = [at |-> "idle", parts |-> 0]
    /\ sync_stamp' = up * 1000 /\ epoch' = epoch + 1
    /\ UNCHANGED <<up, sync_time, sets, get, pingVars>>

\* ... and last the stamp is taken.
SetStamp ==
    /\ set.at = "stamp" /\ set' = [at |-> "idle", parts |-> 0]
    /\ sync_stamp' = up /\ epoch' = epoch + 1
    /\ UNCHANGED <<up, sync_time, sets, get, pingVars>>

(***************************** ping ****************************************)

\* lownet_send, over an air that may lose the frame.
Send(q, p) == IF Len(q) < NetDepth THEN {q, Append(q, p)} ELSE {q}

\* The nodes an id names: one, all of them (0xff), or none that is there.
Destinations == {{p} : p \in Peers} \cup {Peers, {}}

\* /ping and /date.
PingCommand ==
    /\ pings < MaxPings
    /\ \E to \in Destinations : Call("main", "ping", Nothing, to)
    /\ UNCHANGED <<up, clockVars, pingVars>>
DateCommand == Call("main", "date", Nothing, {}) /\ UNCHANGED <<up, clockVars, pingVars>>

\* This node's next ping, as it gets to node p.
Pinged(p) == [origin |-> "me", node |-> p, id |-> pings + 1, out |-> Result("main"),
              now |-> get["main"].now,
              epoch |-> IF Undisturbed("main") THEN epoch ELSE -1]

\* ping sends the time: one frame, which each node it is for gets or misses.
\* date prints it.
Ping ==
    /\ Return("main", "ping")
    /\ pings' = pings + 1
    /\ \E got \in SUBSET get["main"].to :
          toPeer' = [p \in Peers |-> IF p \in got /\ Len(toPeer[p]) < NetDepth
                                     THEN Append(toPeer[p], Pinged(p)) ELSE toPeer[p]]
    /\ UNCHANGED <<toMe, peers, replies>>

Date == Return("main", "date") /\ UNCHANGED pingVars

\* Mutant of Receive: the packet is handled again.
ReceiveAgain ==
    /\ toMe # <<>> /\ set.at = "idle"
    /\ Call("svc", IF Head(toMe).origin = "me" THEN "rtt" ELSE "back", Head(toMe), {})
    /\ UNCHANGED <<up, clockVars, toPeer, toMe, pings, peers, replies>>

\* ping_receive: a reply to this node's ping, or a ping to answer.
Receive ==
    /\ toMe # <<>> /\ set.at = "idle"
    /\ Call("svc", IF Head(toMe).origin = "me" THEN "rtt" ELSE "back", Head(toMe), {})
    /\ toMe' = Tail(toMe)
    /\ UNCHANGED <<up, clockVars, toPeer, pings, peers, replies>>

\* "Reply from" names the node the frame came from.
PrintReply ==
    /\ Return("svc", "rtt")
    /\ LET pkt == get["svc"].pkt
       IN  replies' = [replies EXCEPT ![pkt.node] = Append(@, pkt.id)]
    /\ UNCHANGED <<toPeer, toMe, pings, peers>>

\* The answer keeps the packet's origin and its timestamp_out.
Answer ==
    /\ Return("svc", "back")
    /\ LET pkt == get["svc"].pkt
       IN  \E q \in Send(toPeer[pkt.node], pkt) : toPeer' = [toPeer EXCEPT ![pkt.node] = q]
    /\ UNCHANGED <<toMe, pings, peers, replies>>

\* Another node's ping_receive: its own ping is back, or one to answer.
Echo(p) ==
    /\ toPeer[p] # <<>> /\ toPeer' = [toPeer EXCEPT ![p] = Tail(toPeer[p])]
    /\ toMe' \in IF Head(toPeer[p]).origin = p THEN {toMe} ELSE Send(toMe, Head(toPeer[p]))
    /\ UNCHANGED <<up, clockVars, get, pings, peers, replies>>

\* Another node's /ping, to this node or to all.
PeerPing(p) ==
    /\ peers < MaxPeer /\ peers' = peers + 1
    /\ toMe' \in Send(toMe, [Nothing EXCEPT !.origin = p, !.node = p, !.id = peers'])
    /\ UNCHANGED <<up, clockVars, get, toPeer, pings, replies>>

(***************************** specification *******************************)

Init ==
    /\ up = 0 /\ sync_time = Zero /\ sync_stamp = 0 /\ set = [at |-> "idle", parts |-> 0]
    /\ get = [t \in Tasks |-> NoGet] /\ toMe = <<>>
    /\ toPeer = [p \in Peers |-> <<>>] /\ replies = [p \in Peers |-> <<>>]
    /\ epoch = 0 /\ sets = 0 /\ pings = 0 /\ peers = 0

Tick == up < MaxUp /\ up' = up + 1 /\ UNCHANGED <<clockVars, get, pingVars>>

GetTime(t) == Synced(t) \/ ReadNow(t) \/ ReadSync(t)
Main == GetTime("main") \/ Ping \/ Date
Svc  == GetTime("svc") \/ SetParts \/ SetStamp \/ Receive \/ PrintReply \/ Answer
User == PingCommand \/ DateCommand

Next == \/ Tick \/ Main \/ Svc \/ User
        \/ \E p \in Peers : Echo(p) \/ PeerPing(p)
        \/ \E time \in Times : SetTime(time)

Spec == Init /\ [][Next]_vars

(***************************** properties **********************************)

\* node is the other end: the node a packet is for, or came from.
Packet == [origin : Nodes, node : Nodes, id : Nat, out : Time, now : 0..MaxUp, epoch : Int]

TypeOK ==
    /\ up \in 0..MaxUp /\ sync_time \in Time /\ sync_stamp \in 0..MaxUp
    /\ set \in [at : {"idle", "parts", "stamp"}, parts : 0..Parts - 1]
    /\ get \in [Tasks -> [at : {"idle", "test", "now", "sync", "seconds"},
                          use : {"date", "ping", "rtt", "back"}, pkt : Packet, to : SUBSET Peers,
                          epoch : Nat, now : 0..MaxUp, stamp : 0..MaxUp, parts : 0..Parts - 1]]
    /\ toPeer \in [Peers -> Seq(Packet)] /\ \A p \in Peers : Len(toPeer[p]) <= NetDepth
    /\ toMe \in Seq(Packet) /\ Len(toMe) <= NetDepth
    /\ epoch \in Nat /\ sets \in 0..MaxSets /\ pings \in 0..MaxPings /\ peers \in 0..MaxPeer
    /\ replies \in [Peers -> Seq(Nat)]

\* Times in a unit that divides fractions and milliseconds alike.
Fine(t)    == (t.seconds * Parts + t.parts) * Millis
Exact(now) == Fine(sync_time) + (now - sync_stamp) * Parts

Read(t) == get[t].at = "seconds" /\ Undisturbed(t)

\* A reading that no setting disturbed is never ahead of the time that was
\* set plus the time that passed, and behind it by less than one fraction and
\* one millisecond: the two roundings and the second that was set with its
\* fraction do not add up to more (lownet.c, lines 252-256).
Punctual ==
    \A t \in Tasks : Read(t) =>
        LET late == Exact(get[t].now) - Fine(Result(t))
        IN  late >= 0 /\ late < Millis + Parts

\* Between two settings the network time never runs back, whichever task
\* reads it (lownet.c, lines 252-256).
NeverBack ==
    \A t, u \in Tasks : Read(t) /\ Read(u) /\ get[t].now <= get[u].now
                          => Fine(Result(t)) <= Fine(Result(u))

RoundTrip == time_diff(get["svc"].pkt.out, Result("svc"))

\* What ping_receive prints follows the clock.  On a clock that is set, the
\* round-trip time is within one fraction of the time that passed between the
\* two readings, across the end of a second and the wrap of
\* time_to_milliseconds; on one that is not, both readings are zero and so is
\* the round trip, whatever time passed.  A clock set in between is excepted
\* (ping.c, lines 50, 78 and 79; lownet.c, line 247; lownet_util.c, lines 5
\* and 38).
RttFollowsClock ==
    Returns("svc") /\ Undisturbed("svc") /\ get["svc"].use = "rtt"
          /\ get["svc"].pkt.epoch = epoch =>
        IF sync_time.seconds = 0 THEN RoundTrip = Zero
        ELSE LET off == Fine(RoundTrip) - (get["svc"].now - get["svc"].pkt.now) * Parts
             IN  -Millis < off /\ off < Millis

\* This node's pings to node p and their replies, in the air and in its hands.
Members(q)  == {q[i] : i \in 1..Len(q)}
Working     == IF get["svc"].use = "rtt" THEN {get["svc"].pkt} ELSE {}
Own(p)      == {r \in Working \cup Members(toMe) \cup Members(toPeer[p]) :
                   r.origin = "me" /\ r.node = p}
PingFifo(p) == INSTANCE LossyFifo WITH
                   top <- pings, pending <- {r.id : r \in Own(p)}, delivered <- replies[p]

\* The "Reply from" lines of one node answer pings this node sent, in the
\* order they were sent and once each, though both nodes run the same
\* ping_receive: a reply is not answered in turn.  A ping to all nodes is
\* answered by each of them, and the replies of two nodes may come in any
\* order (ping.c, lines 31-38 and 77-104).
PingStep(p)    == \/ UNCHANGED PingFifo(p)!fifoVars
                  \/ PingFifo(p)!Offer \/ PingFifo(p)!Lose \/ PingFifo(p)!Deliver
RepliesInOrder == (\A p \in Peers : PingFifo(p)!FifoInit) /\ [][\A p \in Peers : PingStep(p)]_vars
=============================================================================
