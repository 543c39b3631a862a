------------------------------ MODULE SerialIO ------------------------------
(***************************************************************************)
(* The serial line (managed_components/serial/serial_io.c) between the     *)
(* user and the console loop of app_main (main/app_main.c):                *)
(*                                                                         *)
(*   svc    svc_serial: prints what is in queue_write, then polls stdin    *)
(*          for one character and assembles lines for queue_read;          *)
(*   main   takes a line, finds its command and runs it; commands write    *)
(*          their replies to queue_write;                                  *)
(*   net    the network service: handlers write lines as frames arrive.    *)
(*                                                                         *)
(* Both queues are bounded and nobody waits to put a line in.  The text of *)
(* a line is the number of the line, character by character; 0 is the null *)
(* terminator.                                                             *)
(***************************************************************************)
EXTENDS Integers, Sequences

CONSTANTS
    BufLen,       \* MSG_BUFFER_LENGTH (128)
    ReadDepth,    \* depth of queue_read (4)
    WriteDepth,   \* depth of queue_write (16)
    HelpLines,    \* lines /help writes (10)
    MaxLines,     \* bound: lines the user types
    MaxLen,       \* bound: characters of a typed line
    MaxNet        \* bound: lines the network service writes

VARIABLES
    svc,          \* control point of svc_serial: "drain" or "get"
    in_msg,       \* the line svc_serial assembles
    at,           \* characters read of it
    queue_read,   \* serial_system.queue_read
    queue_write,  \* serial_system.queue_write
    main,         \* control point of app_main: "read", "parse", "run"
    msg_in,       \* the line app_main works on
    left,         \* lines the running command has yet to write
    halted,       \* why the processor stopped, "no" while it runs
    lens,         \* history: lengths of the lines the user ended
    got,          \* history: the lines app_main received
    offered,      \* history: number of lines given to serial_write_line
    fromNet,      \* history: how many of them by the network service
    printed       \* history: the lines printed

inVars  == <<in_msg, at, queue_read, lens>>
outVars == <<queue_write, offered, fromNet, printed>>
conVars == <<main, msg_in, left, got>>
vars    == <<svc, inVars, outVars, conVars, halted>>

ASSUME SerialAssumption ==
    /\ BufLen \in Nat /\ BufLen >= 2
    /\ ReadDepth \in Nat \ {0} /\ WriteDepth \in Nat \ {0} /\ HelpLines \in Nat
    /\ MaxLines \in Nat /\ MaxLen \in Nat /\ MaxNet \in Nat

Chars   == [0..BufLen - 1 -> 0..MaxLines]
Empty   == [j \in 0..BufLen - 1 |-> 0]
Line    == [id : 0..MaxLines, msg : Chars]
NoLine  == [id |-> 0, msg |-> Empty]
Running == halted = "no"

(***************************** svc_serial **********************************)

\* Mutant of PrintLine: the line stays in the queue.
PrintPeeked ==
    /\ Running /\ svc = "drain" /\ queue_write # <<>>
    /\ printed' = Append(printed, Head(queue_write))
    /\ UNCHANGED <<svc, inVars, queue_write, offered, fromNet, conVars, halted>>

\* The inner loop takes a line and prints it.
PrintLine ==
    /\ Running /\ svc = "drain" /\ queue_write # <<>>
    /\ printed' = Append(printed, Head(queue_write))
    /\ queue_write' = Tail(queue_write)
    /\ UNCHANGED <<svc, inVars, offered, fromNet, conVars, halted>>

Drained ==
    /\ Running /\ svc = "drain" /\ queue_write = <<>> /\ svc' = "get"
    /\ UNCHANGED <<inVars, outVars, conVars, halted>>

\* Mutant of Eof: fgetc waits for a character.
EofWaits ==
    /\ Running /\ svc = "get" /\ svc' = "get"
    /\ UNCHANGED <<inVars, outVars, conVars, halted>>

\* fgetc finds nothing: sleep, and look at queue_write again.
Eof ==
    /\ Running /\ svc = "get" /\ svc' = "drain"
    /\ UNCHANGED <<inVars, outVars, conVars, halted>>

Typing == Running /\ svc = "get" /\ svc' = "drain" /\ Len(lens) < MaxLines

\* Mutant of Store: the last byte of the buffer is used as well.
StoreLast ==
    /\ Typing /\ at < MaxLen /\ at' = at + 1
    /\ in_msg' = IF at < BufLen THEN [in_msg EXCEPT ![at] = Len(lens) + 1] ELSE in_msg
    /\ UNCHANGED <<queue_read, lens, outVars, conVars, halted>>

\* A character of the line: it is stored while there is room for it and for
\* the terminator, otherwise only counted.
Store ==
    /\ Typing /\ at < MaxLen /\ at' = at + 1
    /\ in_msg' = IF at < BufLen - 1 THEN [in_msg EXCEPT ![at] = Len(lens) + 1] ELSE in_msg
    /\ UNCHANGED <<queue_read, lens, outVars, conVars, halted>>

\* Mutant of Put: the queues have no limit.
PutAnyway(q, depth, line) == Append(q, line)

\* xQueueSend without waiting.
Put(q, depth, line) == IF Len(q) < depth THEN Append(q, line) ELSE q

\* Mutant of EndLine: in_msg is not cleared.
EndLineKeeps ==
    /\ Typing
    /\ lens' = Append(lens, at)
    /\ queue_read' = Put(queue_read, ReadDepth, [id |-> Len(lens'), msg |-> in_msg])
    /\ at' = 0
    /\ UNCHANGED <<in_msg, outVars, conVars, halted>>

\* The newline: the line is queued, or dropped, and the buffer cleared.
EndLine ==
    /\ Typing
    /\ lens' = Append(lens, at)
    /\ queue_read' = Put(queue_read, ReadDepth, [id |-> Len(lens'), msg |-> in_msg])
    /\ in_msg' = Empty /\ at' = 0
    /\ UNCHANGED <<outVars, conVars, halted>>

(***************************** serial_write_line ***************************)

\* The next line for queue_write; it is dropped when the queue is full.
WriteLine ==
    /\ offered' = offered + 1
    /\ queue_write' = Put(queue_write, WriteDepth, offered')
    /\ UNCHANGED printed

\* chat_receive, ping_receive and crane_recv_status write one line each, and
\* init_serial_service its SYNC line.
NetLine ==
    /\ Running /\ fromNet < MaxNet /\ fromNet' = fromNet + 1
    /\ WriteLine
    /\ UNCHANGED <<svc, inVars, conVars, halted>>

(***************************** app_main ************************************)

\* Mutant of ReadLine: the line stays in the queue.
ReadPeeked ==
    /\ Running /\ main = "read" /\ queue_read # <<>>
    /\ msg_in' = Head(queue_read) /\ got' = Append(got, msg_in') /\ main' = "parse"
    /\ UNCHANGED <<svc, inVars, left, outVars, halted>>

\* serial_read_line; when its 5 s pass without a line it is called again.
ReadLine ==
    /\ Running /\ main = "read" /\ queue_read # <<>>
    /\ msg_in' = Head(queue_read) /\ queue_read' = Tail(queue_read)
    /\ got' = Append(got, msg_in') /\ main' = "parse"
    /\ UNCHANGED <<svc, in_msg, at, lens, left, outVars, halted>>

\* An empty line is skipped.
Skip ==
    /\ Running /\ main = "parse" /\ msg_in.msg[0] = 0
    /\ main' = "read" /\ msg_in' = NoLine
    /\ UNCHANGED <<svc, inVars, left, got, outVars, halted>>

\* How many lines a command writes; an unknown one gets a line from app_main.
\* The node id and the message of tell and ping may be refused; shout is
\* silent.  setkey, crane and testenc write no fewer than shout and no more
\* than help.
Replies == [unknown |-> {1}, help |-> {HelpLines}, id |-> {1}, date |-> {1},
            tell |-> {0, 1}, ping |-> {0, 1}, shout |-> {0}]

\* find_command, and the command runs.
Dispatch(name) ==
    /\ Running /\ main = "parse" /\ msg_in.msg[0] # 0
    /\ left' \in Replies[name] /\ main' = "run"
    /\ UNCHANGED <<svc, inVars, msg_in, got, outVars, halted>>

\* A lone "/" has no name and a lone "@" or "/tell" no node id: strcmp or
\* strlen is given a null pointer.
DispatchNothing ==
    /\ Running /\ main = "parse" /\ msg_in.msg[0] # 0 /\ halted' = "null argument"
    /\ UNCHANGED <<svc, inVars, conVars, outVars>>

Reply ==
    /\ Running /\ main = "run" /\ left > 0 /\ left' = left - 1
    /\ WriteLine
    /\ UNCHANGED <<svc, inVars, main, msg_in, got, fromNet, halted>>

Done ==
    /\ Running /\ main = "run" /\ left = 0 /\ main' = "read" /\ msg_in' = NoLine
    /\ UNCHANGED <<svc, inVars, left, got, outVars, halted>>

(***************************** specification *******************************)

Init ==
    /\ svc = "drain" /\ in_msg = Empty /\ at = 0 /\ queue_read = <<>> /\ lens = <<>>
    /\ queue_write = <<>> /\ offered = 0 /\ fromNet = 0 /\ printed = <<>>
    /\ main = "read" /\ msg_in = NoLine /\ left = 0 /\ got = <<>> /\ halted = "no"

Svc  == PrintLine \/ Drained \/ Eof
Main == ReadLine \/ Skip \/ (\E name \in DOMAIN Replies : Dispatch(name)) \/ Reply \/ Done

Next == Svc \/ Store \/ EndLine \/ Main \/ DispatchNothing \/ NetLine

Spec == Init /\ [][Next]_vars

\* The scheduler runs both tasks: svc_serial sleeps 50 ms whenever stdin is
\* empty, so main, below it on the same core, gets its turn.
FairSpec == Spec /\ WF_vars(Svc) /\ WF_vars(Main)

(***************************** properties **********************************)

TypeOK ==
    /\ svc \in {"drain", "get"} /\ in_msg \in Chars /\ at \in 0..MaxLen
    /\ queue_read \in Seq(Line) /\ Len(queue_read) <= ReadDepth
    /\ queue_write \in Seq(Nat) /\ Len(queue_write) <= WriteDepth
    /\ main \in {"read", "parse", "run"} /\ msg_in \in Line /\ left \in Nat
    /\ halted \in {"no", "null argument"}
    /\ lens \in Seq(0..MaxLen) /\ Len(lens) <= MaxLines
    /\ got \in Seq(Line) /\ offered \in Nat /\ fromNet \in 0..MaxNet
    /\ printed \in Seq(Nat)

Typed(n) == [j \in 0..BufLen - 1 |-> IF j < lens[n] /\ j < BufLen - 1 THEN n ELSE 0]

\* Every line the console works on is exactly what the user typed between
\* two newlines, cut to what fits: no character of an earlier line, of a
\* dropped one or of an overlong one's rest gets into it, and it is
\* terminated (serial_io.c, lines 109-127).
LineIntegrity == \A i \in 1..Len(got) : got[i].msg = Typed(got[i].id)

Ids(q)     == [i \in 1..Len(q) |-> q[i].id]
Members(q) == {q[i] : i \in 1..Len(q)}

Input == INSTANCE LossyFifo WITH
             top <- Len(lens), pending <- Members(Ids(queue_read)), delivered <- Ids(got)

\* The console receives lines in the order they were typed; one is lost only
\* whole, none comes twice (serial_io.c, lines 123 and 155).
InputFifo == Input!FifoSpec

Output == INSTANCE LossyFifo WITH
              top <- offered, pending <- Members(queue_write), delivered <- printed

\* The lines of both writers are printed in the order they were written; one
\* is lost only whole, none is printed twice (serial_io.c, lines 71 and 147).
OutputFifo == Output!FifoSpec

Idle == queue_read = <<>> /\ queue_write = <<>> /\ main = "read"

\* svc_serial keeps serving both directions whatever the other one does: all
\* queued lines are printed and all queued input is run, unless the processor
\* stops (serial_io.c, lines 71-107).
Drains == []<>(Idle \/ ~Running)
=============================================================================
