------------------------------ MODULE Command ------------------------------
(***************************************************************************)
(* The signed-command receiver of managed_components/command/command.c.    *)
(*                                                                         *)
(* A command arrives in one frame and its RSA signature in two, in either  *)
(* order.  command_receive runs to completion in one task, so each frame   *)
(* is one action.  A command stands for its own hash; a signature half is  *)
(* the command it genuinely signs, or Junk.  Network time (lownet_get_time)*)
(* is kept in whole seconds.                                               *)
(*                                                                         *)
(* No file registers command_receive with lownet_register_protocol: the    *)
(* firmware as it stands drops protocol 0x04.  The frames of this module   *)
(* are what the component is written to receive.                           *)
(***************************************************************************)
EXTENDS Integers

CONSTANTS
    Commands,     \* command frames: records with fields sequence, type, time
    Timeout,      \* 10 seconds
    TimeMod,      \* 2^24: time_diff works on 32 bits of 1/256 seconds
    MaxUptime     \* bound: seconds of execution, less than TimeMod (194 days)

VARIABLES
    state,        \* state.state
    lastValid,    \* state.last_valid
    received,     \* state.command_received
    current,      \* state.current_cmd and state.hash, None when cleared
    signature,    \* state.signature, by half
    sync,         \* net_system.sync_time and sync_stamp
    uptime,       \* esp_timer_get_time, in seconds
    got,          \* history: genuine halves stored for the last command
    spoilt,       \* history: a half that is not genuine was stored since then
    arrived,      \* history: uptime when current arrived
    steady,       \* history: the clock was set, and not set anew, since then
    done          \* history: the last command has been executed

receiver == <<state, lastValid, received, current, signature>>
clock    == <<sync, uptime>>
past     == <<got, spoilt, arrived, steady, done>>
vars     == <<receiver, clock, past>>

None == [sequence |-> 0, type |-> "none", time |-> 0]
Junk == [sequence |-> 0, type |-> "junk", time |-> 0]

ASSUME CommandAssumption ==
    /\ Commands \subseteq [sequence : Nat, type : {"TIME", "TEST"}, time : Nat]
    /\ Timeout \in Nat /\ MaxUptime \in Nat
    /\ TimeMod \in Nat /\ TimeMod > Timeout /\ TimeMod > MaxUptime

\* A signature frame: which half, the hashes it names, the half it carries.
SignatureFrame == [part : 1..2, hashMsg : Commands \cup {None}, ourKey : BOOLEAN,
                   sigPart : Commands \cup {Junk}]

(***************************** time ****************************************)

\* lownet_get_time: 0 until the first synchronisation.
GetTime == IF sync.time = 0 THEN 0 ELSE sync.time + (uptime - sync.stamp)

\* time_diff: the subtraction wraps around.
TimeDiff(a, b) == (b - a) % TimeMod

SetTime(t) == sync' = [time |-> t, stamp |-> uptime]

Tick ==
    /\ uptime < MaxUptime /\ uptime' = uptime + 1
    /\ UNCHANGED <<receiver, sync, past>>

(***************************** the receiver ********************************)

\* Mutant of ReadyNext: the command is not cleared.
ReadyKeepsCommand ==
    /\ state' = "LISTENING" /\ received' = 0
    /\ signature' = [h \in 1..2 |-> None]
    /\ arrived' = 0 /\ steady' = FALSE
    /\ UNCHANGED current

\* command_ready_next.
ReadyNext ==
    /\ state' = "LISTENING" /\ current' = None /\ received' = 0
    /\ signature' = [h \in 1..2 |-> None]
    /\ arrived' = 0 /\ steady' = FALSE

\* Mutant of NewCommand: the sequence number is not compared.
NewCommandAnyway(c) ==
    /\ state' = "WAIT_SIG" /\ current' = c /\ received' = GetTime
    /\ signature' = [h \in 1..2 |-> None]
    /\ got' = {} /\ spoilt' = FALSE /\ done' = FALSE
    /\ arrived' = uptime /\ steady' = (sync.time # 0)
    /\ UNCHANGED <<lastValid, clock>>

\* handle_command_frame: an older command is ignored, any other replaces the
\* one in progress.
NewCommand(c) ==
    /\ c.sequence >= lastValid
    /\ state' = "WAIT_SIG" /\ current' = c /\ received' = GetTime
    /\ signature' = [h \in 1..2 |-> None]
    /\ got' = {} /\ spoilt' = FALSE /\ done' = FALSE
    /\ arrived' = uptime /\ steady' = (sync.time # 0)
    /\ UNCHANGED <<lastValid, clock>>

\* The frame could not be hashed.
HashFails(c) ==
    /\ c.sequence >= lastValid
    /\ ReadyNext
    /\ got' = {} /\ spoilt' = FALSE /\ done' = FALSE
    /\ UNCHANGED <<lastValid, clock>>

\* command_execute: TIME sets the clock, TEST sends a ping.
Execute ==
    /\ IF current.type = "TIME" THEN SetTime(current.time) /\ steady' = FALSE
                                ELSE UNCHANGED <<sync, steady>>
    /\ done' = TRUE
    /\ UNCHANGED uptime

\* Mutant of Verified: only the first half is compared.
VerifiedHalf(sig) == sig[1] = current

\* verify_signature on the halves stored so far.
Verified(sig) == sig[1] = current /\ sig[2] = current

InTime == TimeDiff(received, GetTime) <= Timeout

\* handle_signature_frame, first checks: a half for another command or key
\* is ignored, a late one discards the command.
Concerns(s) == s.hashMsg = current

Late(s) ==
    /\ Concerns(s) /\ ~InTime
    /\ ReadyNext
    /\ UNCHANGED <<lastValid, got, spoilt, done, clock>>

Store(s) ==
    /\ Concerns(s) /\ InTime /\ s.ourKey
    /\ signature' = [signature EXCEPT ![s.part] = s.sigPart]

Note(s) ==
    /\ got' = IF s.sigPart = current THEN got \cup {s.part} ELSE got
    /\ spoilt' = (spoilt \/ s.sigPart # current)

\* Mutant of Missing: the two states are confused.
MissingSwapped(part) == IF part = 1 THEN "WAIT_SIG2" ELSE "WAIT_SIG1"

Other(part)   == IF part = 1 THEN "WAIT_SIG2" ELSE "WAIT_SIG1"
Missing(part) == IF part = 1 THEN "WAIT_SIG1" ELSE "WAIT_SIG2"

\* Mutant of FirstHalf: the first half starts the timeout anew.
FirstHalfRestarts(s) ==
    /\ state = "WAIT_SIG" /\ Store(s) /\ Note(s)
    /\ state' = Other(s.part) /\ received' = GetTime
    /\ UNCHANGED <<lastValid, current, clock, arrived, steady, done>>

\* handle_signature_part1/2: the first half to arrive waits for the other ...
FirstHalf(s) ==
    /\ state = "WAIT_SIG" /\ Store(s) /\ Note(s)
    /\ state' = Other(s.part)
    /\ UNCHANGED <<lastValid, received, current, clock, arrived, steady, done>>

\* ... a half that is not awaited only overwrites what was stored ...
Overwrite(s) ==
    /\ state \notin {"WAIT_SIG", Missing(s.part)} /\ Store(s) /\ Note(s)
    /\ UNCHANGED <<state, lastValid, received, current, clock, arrived, steady, done>>

\* ... and the awaited one completes it: signature_received.
Accepted(s) ==
    /\ state = Missing(s.part) /\ Store(s) /\ Note(s)
    /\ Verified(signature')
    /\ lastValid' = current.sequence
    /\ Execute
    /\ UNCHANGED <<state, received, current, arrived>>

Rejected(s) ==
    /\ state = Missing(s.part)
    /\ Concerns(s) /\ InTime /\ s.ourKey
    /\ ~Verified([signature EXCEPT ![s.part] = s.sigPart])
    /\ ReadyNext /\ Note(s)
    /\ UNCHANGED <<lastValid, done, clock>>

(***************************** specification *******************************)

Init ==
    /\ state = "LISTENING" /\ lastValid = 0 /\ received = 0 /\ current = None
    /\ signature = [h \in 1..2 |-> None]
    /\ sync = [time |-> 0, stamp |-> 0] /\ uptime = 0
    /\ got = {} /\ spoilt = FALSE /\ arrived = 0 /\ steady = FALSE /\ done = FALSE

Receive ==
    \/ \E c \in Commands : NewCommand(c) \/ HashFails(c)
    \/ \E s \in SignatureFrame :
         Late(s) \/ FirstHalf(s) \/ Overwrite(s) \/ Accepted(s) \/ Rejected(s)

Next == Tick \/ Receive

Spec == Init /\ [][Next]_vars

(***************************** properties **********************************)

TypeOK ==
    /\ state \in {"LISTENING", "WAIT_SIG", "WAIT_SIG1", "WAIT_SIG2"}
    /\ lastValid \in Nat /\ received \in Nat
    /\ current \in Commands \cup {None}
    /\ signature \in [1..2 -> Commands \cup {None, Junk}]
    /\ sync \in [time : Nat, stamp : Nat] /\ sync.stamp <= uptime
    /\ uptime \in 0..MaxUptime /\ arrived \in 0..uptime
    /\ got \subseteq 1..2 /\ spoilt \in BOOLEAN /\ steady \in BOOLEAN /\ done \in BOOLEAN
    /\ (state = "LISTENING") <=> (current = None)

\* A command both of whose genuine halves were stored, in either order and
\* however often, has been executed, unless a half that is not genuine was
\* stored as well (command.c, lines 159-170 and 195-222).
GenuineIsExecuted == got = {1, 2} /\ ~spoilt => done

\* A command is executed only when both of its genuine halves arrived after
\* it (command.c, lines 159-170 and 180).
ExecutedIsGenuine == done => got = {1, 2}

\* Replay order: commands are executed in the order of their sequence
\* numbers, although a number is checked when the command arrives and stored
\* when its signature is complete (command.c, lines 168 and 175).
SequenceGrows == [][lastValid' >= lastValid]_vars

Executes == \E s \in SignatureFrame : Accepted(s)

\* While the network clock is set and not changed, no command is executed
\* more than Timeout seconds after it arrived, not even by a duplicate of a
\* half (command.c, lines 238-245).
NotExecutedLate == [][Executes /\ steady => uptime - arrived <= Timeout]_vars
=============================================================================
