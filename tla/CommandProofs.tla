--------------------------- MODULE CommandProofs ----------------------------
(***************************************************************************)
(* Proofs about the command receiver (Command), for every set of commands, *)
(* timeout and length of execution.                                        *)
(***************************************************************************)
EXTENDS Command, TLAPS

\* The halves stored for the current command are those the history counts.
Halves ==
    state # "LISTENING" =>
        \A h \in 1..2 : /\ signature[h] = current => h \in got
                        /\ h \in got /\ ~spoilt => signature[h] = current

\* What the state says of the halves: the awaited one has not come, unless
\* the command is executed already and a duplicate would execute it again.
Awaited ==
    /\ state = "WAIT_SIG" => got = {} /\ ~done
    /\ state = "WAIT_SIG2" => (2 \in got => done)
    /\ state = "WAIT_SIG1" => (1 \in got => done)

\* command_received is the network time of the arrival, on a steady clock.
Stamped ==
    state # "LISTENING" /\ steady =>
        /\ sync.time # 0 /\ sync.stamp <= arrived
        /\ received = sync.time + (arrived - sync.stamp)

\* Nothing older than the last command executed is being received.
Ordered == state # "LISTENING" => current.sequence >= lastValid

IInv == TypeOK /\ Halves /\ Awaited /\ Stamped /\ Ordered
          /\ GenuineIsExecuted /\ ExecutedIsGenuine

\* None and Junk are no commands.
LEMMA Distinct == None \notin Commands /\ Junk \notin Commands /\ None # Junk
BY CommandAssumption, SMT DEF None, Junk

\* The initial state satisfies the invariant.
LEMMA InitIInv == ASSUME Init PROVE IInv
<1>1. sync \in [time : Nat, stamp : Nat] /\ sync.stamp <= uptime
  BY DEF Init
<1>2. uptime \in 0..MaxUptime /\ arrived \in 0..uptime
  BY CommandAssumption DEF Init
<1>3. TypeOK
  BY <1>1, <1>2 DEF Init, TypeOK
<1>4. Halves /\ Awaited /\ Stamped /\ Ordered /\ GenuineIsExecuted /\ ExecutedIsGenuine
  BY DEF Init, Halves, Awaited, Stamped, Ordered, GenuineIsExecuted, ExecutedIsGenuine
<1> QED BY <1>3, <1>4 DEF IInv

\* The clock ticks.
LEMMA TickStep == ASSUME IInv, Tick PROVE IInv'
<1>1. UNCHANGED <<state, lastValid, received, current, signature, sync, got, spoilt,
                  arrived, steady, done>>
  BY DEF Tick, receiver, past
<1>2. uptime' = uptime + 1 /\ uptime' \in 0..MaxUptime
  BY CommandAssumption DEF Tick, IInv, TypeOK
<1>3. sync.stamp <= uptime' /\ arrived \in 0..uptime'
  BY <1>2 DEF IInv, TypeOK
<1>4. TypeOK'
  BY <1>1, <1>2, <1>3 DEF IInv, TypeOK
<1>5. Halves' /\ Awaited' /\ Stamped' /\ Ordered' /\ GenuineIsExecuted' /\ ExecutedIsGenuine'
  BY <1>1 DEF IInv, Halves, Awaited, Stamped, Ordered, GenuineIsExecuted, ExecutedIsGenuine
<1> QED BY <1>4, <1>5 DEF IInv

\* A command frame arrives.
LEMMA NewCommandStep == ASSUME NEW c \in Commands, IInv, NewCommand(c) PROVE IInv'
<1>1. c # None /\ c # Junk /\ c.sequence \in Nat
  BY CommandAssumption, Distinct
<1>2. GetTime \in Nat /\ (sync.time # 0 => GetTime = sync.time + (uptime - sync.stamp))
  BY CommandAssumption DEF IInv, TypeOK, GetTime
<1>3. TypeOK'
  <2>1. steady' \in BOOLEAN
    BY Zenon DEF NewCommand
  <2>2. signature' \in [1..2 -> Commands \cup {None, Junk}]
    BY DEF NewCommand
  <2>3. UNCHANGED <<lastValid, sync, uptime>> /\ received' = GetTime /\ arrived' = uptime
    BY DEF NewCommand, clock
  <2>4. arrived' \in 0..uptime'
    BY <2>3, CommandAssumption DEF IInv, TypeOK
  <2>5. /\ state' = "WAIT_SIG" /\ current' = c
        /\ got' = {} /\ spoilt' = FALSE /\ done' = FALSE
    BY DEF NewCommand
  <2> QED BY <1>1, <1>2, <2>1, <2>2, <2>3, <2>4, <2>5 DEF IInv, TypeOK
<1>4. Halves' /\ Awaited' /\ GenuineIsExecuted' /\ ExecutedIsGenuine'
  BY <1>1 DEF NewCommand, Halves, Awaited, GenuineIsExecuted, ExecutedIsGenuine
<1>5. Stamped'
  BY <1>2 DEF IInv, TypeOK, NewCommand, Stamped, clock
<1>6. Ordered'
  BY <1>1 DEF IInv, TypeOK, NewCommand, Ordered
<1> QED BY <1>3, <1>4, <1>5, <1>6 DEF IInv

\* command_ready_next leaves nothing to be said of the halves.
LEMMA ReadyStep ==
    ASSUME IInv, ReadyNext, lastValid' = lastValid, UNCHANGED clock,
           got' \subseteq 1..2, spoilt' \in BOOLEAN, done' \in BOOLEAN,
           GenuineIsExecuted', ExecutedIsGenuine'
    PROVE  IInv'
<1>1. TypeOK'
  <2>1. signature' \in [1..2 -> Commands \cup {None, Junk}]
    BY DEF ReadyNext
  <2>2. UNCHANGED <<lastValid, sync, uptime>> /\ arrived' \in 0..uptime'
    BY CommandAssumption DEF IInv, TypeOK, ReadyNext, clock
  <2>3. state' = "LISTENING" /\ current' = None /\ received' = 0 /\ steady' = FALSE
    BY DEF ReadyNext
  <2> QED BY <2>1, <2>2, <2>3 DEF IInv, TypeOK
<1>2. Halves' /\ Awaited' /\ Stamped' /\ Ordered'
  BY DEF ReadyNext, Halves, Awaited, Stamped, Ordered
<1> QED BY <1>1, <1>2 DEF IInv

\* A frame that cannot be hashed, and a half that comes too late.
LEMMA GivenUpStep ==
    ASSUME IInv,
           \/ \E c \in Commands : HashFails(c)
           \/ \E s \in SignatureFrame : Late(s)
    PROVE  IInv'
<1>1. CASE \E c \in Commands : HashFails(c)
  <2>1. GenuineIsExecuted' /\ ExecutedIsGenuine'
    BY <1>1 DEF HashFails, GenuineIsExecuted, ExecutedIsGenuine
  <2> QED BY <1>1, <2>1, ReadyStep DEF HashFails
<1>2. CASE \E s \in SignatureFrame : Late(s)
  <2>1. GenuineIsExecuted' /\ ExecutedIsGenuine'
    BY <1>2 DEF Late, IInv, GenuineIsExecuted, ExecutedIsGenuine
  <2>2. got' \subseteq 1..2 /\ spoilt' \in BOOLEAN /\ done' \in BOOLEAN
    BY <1>2 DEF Late, IInv, TypeOK
  <2> QED BY <1>2, <2>1, <2>2, ReadyStep DEF Late
<1> QED BY <1>1, <1>2

\* What storing a half does to the halves and to their history.
StoreEffect(s) ==
    /\ s.part \in {1, 2}
    /\ signature' \in [1..2 -> Commands \cup {None, Junk}]
    /\ got' \subseteq got \cup {s.part} /\ got \subseteq got'
    /\ got' \subseteq 1..2 /\ spoilt' \in BOOLEAN
    /\ state # "LISTENING" => \A h \in 1..2 :
           /\ signature'[h] = current => h \in got'
           /\ h \in got' /\ ~spoilt' => signature'[h] = current
    /\ state = "LISTENING" => got' = got /\ spoilt'

\* ... for every half that is stored and noted.
LEMMA StoreStep ==
    ASSUME NEW s \in SignatureFrame, IInv, Note(s),
           signature' = [signature EXCEPT ![s.part] = s.sigPart]
    PROVE  StoreEffect(s)
<1>1. s.part \in 1..2 /\ s.sigPart \in Commands \cup {Junk}
  BY DEF SignatureFrame
<1>2. signature \in [1..2 -> Commands \cup {None, Junk}]
      /\ got \subseteq 1..2 /\ spoilt \in BOOLEAN
  BY DEF IInv, TypeOK
<1>3. /\ signature' \in [1..2 -> Commands \cup {None, Junk}]
      /\ \A h \in 1..2 : signature'[h] = IF h = s.part THEN s.sigPart ELSE signature[h]
  BY <1>1, <1>2
<1>4. /\ got' = IF s.sigPart = current THEN got \cup {s.part} ELSE got
      /\ spoilt' = (spoilt \/ s.sigPart # current)
  BY DEF Note
<1>5. ASSUME state # "LISTENING", NEW h \in 1..2
      PROVE  /\ signature'[h] = current => h \in got'
             /\ h \in got' /\ ~spoilt' => signature'[h] = current
  <2>1. signature[h] = current => h \in got
    BY <1>5 DEF IInv, Halves
  <2>2. h \in got /\ ~spoilt => signature[h] = current
    BY <1>5 DEF IInv, Halves
  <2> QED BY <1>3, <1>4, <2>1, <2>2
<1>6. state = "LISTENING" => s.sigPart # current
  BY <1>1, Distinct DEF IInv, TypeOK
<1>7. s.part \in {1, 2}
  BY <1>1
<1>8. got' \subseteq got \cup {s.part} /\ got \subseteq got' /\ got' \subseteq 1..2
  BY <1>1, <1>2, <1>4
<1>9. spoilt' \in BOOLEAN /\ (state = "LISTENING" => got' = got /\ spoilt')
  BY <1>2, <1>4, <1>6, Zenon
<1> QED BY <1>3, <1>5, <1>7, <1>8, <1>9, Zenon DEF StoreEffect

\* The half that starts the wait for the other one.
LEMMA FirstHalfStep == ASSUME NEW s \in SignatureFrame, IInv, FirstHalf(s) PROVE IInv'
<1>1. /\ state = "WAIT_SIG" /\ state' = Other(s.part) /\ Note(s)
      /\ signature' = [signature EXCEPT ![s.part] = s.sigPart]
      /\ UNCHANGED <<lastValid, received, current, sync, uptime, arrived, steady, done>>
  BY DEF FirstHalf, Store, clock
<1>0. StoreEffect(s)
  BY <1>1, StoreStep
<1>2. got = {} /\ ~done
  BY <1>1 DEF IInv, Awaited
<1>3. state' \in {"WAIT_SIG1", "WAIT_SIG2"}
  BY <1>1 DEF Other
<1>4. TypeOK'
  BY <1>0, <1>1, <1>3 DEF StoreEffect, IInv, TypeOK
<1>5. Halves'
  BY <1>0, <1>1 DEF StoreEffect, Halves
<1>6. Awaited' /\ GenuineIsExecuted' /\ ExecutedIsGenuine'
  <2>1. s.part \in {1, 2} /\ got' \subseteq {s.part}
    BY <1>0, <1>1, <1>2 DEF StoreEffect
  <2>2. s.part = 1 => state' = "WAIT_SIG2" /\ 2 \notin got'
    BY <1>1, <2>1 DEF Other
  <2>3. s.part = 2 => state' = "WAIT_SIG1" /\ 1 \notin got'
    BY <1>1, <2>1 DEF Other
  <2>4. ~done' /\ got' # {1, 2}
    BY <1>1, <1>2, <2>1
  <2> QED BY <2>1, <2>2, <2>3, <2>4 DEF Awaited, GenuineIsExecuted, ExecutedIsGenuine
<1>7. Stamped' /\ Ordered'
  BY <1>1, <1>3 DEF IInv, Stamped, Ordered
<1> QED BY <1>4, <1>5, <1>6, <1>7 DEF IInv

\* A half that is not awaited.
LEMMA OverwriteStep == ASSUME NEW s \in SignatureFrame, IInv, Overwrite(s) PROVE IInv'
<1>1. /\ state \notin {"WAIT_SIG", Missing(s.part)} /\ Note(s)
      /\ signature' = [signature EXCEPT ![s.part] = s.sigPart]
      /\ UNCHANGED <<state, lastValid, received, current, sync, uptime, arrived, steady,
                     done>>
  BY DEF Overwrite, Store, clock
<1>0. StoreEffect(s)
  BY <1>1, StoreStep
<1>2. TypeOK'
  BY <1>0, <1>1 DEF StoreEffect, IInv, TypeOK
<1>3. Halves'
  BY <1>0, <1>1 DEF StoreEffect, Halves
<1>4. Awaited'
  <2>1. s.part \in {1, 2} /\ got' \subseteq got \cup {s.part}
    BY <1>0, <1>1 DEF StoreEffect
  <2>2. state = "WAIT_SIG2" => s.part # 2
    BY <1>1 DEF Missing
  <2>3. state = "WAIT_SIG1" => s.part # 1
    BY <1>1 DEF Missing
  <2>4. state' = state /\ done' = done /\ state # "WAIT_SIG"
    BY <1>1
  <2> QED BY <2>1, <2>2, <2>3, <2>4 DEF IInv, Awaited
<1>5. GenuineIsExecuted'
  BY <1>0, <1>1, <1>4 DEF StoreEffect, IInv, TypeOK, Awaited, GenuineIsExecuted
<1>6. ExecutedIsGenuine'
  <2>1. got \subseteq got' /\ got' \subseteq {1, 2} /\ done' = done
    BY <1>0, <1>1 DEF StoreEffect
  <2> QED BY <2>1 DEF IInv, ExecutedIsGenuine
<1>7. Stamped' /\ Ordered'
  BY <1>1 DEF IInv, Stamped, Ordered
<1> QED BY <1>2, <1>3, <1>4, <1>5, <1>6, <1>7 DEF IInv

\* The awaited half completes the signature: the command is executed.
LEMMA AcceptedStep == ASSUME NEW s \in SignatureFrame, IInv, Accepted(s) PROVE IInv'
<1>1. /\ state = Missing(s.part) /\ Note(s) /\ Verified(signature')
      /\ signature' = [signature EXCEPT ![s.part] = s.sigPart]
      /\ lastValid' = current.sequence /\ done' = TRUE
      /\ UNCHANGED <<state, received, current, uptime, arrived>>
      /\ \/ sync' = [time |-> current.time, stamp |-> uptime] /\ steady' = FALSE
         \/ UNCHANGED <<sync, steady>>
  BY DEF Accepted, Store, Execute, SetTime
<1>0. StoreEffect(s)
  BY <1>1, StoreStep
<1>2. state # "LISTENING" /\ current \in Commands
  BY <1>1 DEF Missing, IInv, TypeOK
<1>3. current.sequence \in Nat /\ current.time \in Nat
  BY <1>2, CommandAssumption
<1>4. got' = {1, 2}
  <2>1. signature'[1] = current /\ signature'[2] = current
    BY <1>1 DEF Verified
  <2>2. 1 \in got' /\ 2 \in got' /\ got' \subseteq 1..2
    BY <1>0, <1>1, <1>2, <2>1 DEF StoreEffect
  <2>3. 1..2 = {1, 2}
    OBVIOUS
  <2> QED BY <2>2, <2>3, Zenon
<1>5. sync' \in [time : Nat, stamp : Nat] /\ sync'.stamp <= uptime /\ steady' \in BOOLEAN
  <2>1. /\ sync \in [time : Nat, stamp : Nat] /\ sync.stamp <= uptime /\ steady \in BOOLEAN
        /\ uptime \in Nat
    BY CommandAssumption DEF IInv, TypeOK
  <2>2. CASE sync' = [time |-> current.time, stamp |-> uptime] /\ steady' = FALSE
    <3>1. sync'.stamp = uptime /\ sync' \in [time : Nat, stamp : Nat]
      BY <1>3, <2>1, <2>2
    <3>2. sync'.stamp <= uptime
      BY <2>1, <3>1
    <3> QED BY <2>2, <3>1, <3>2
  <2>3. CASE UNCHANGED <<sync, steady>>
    BY <2>1, <2>3
  <2> QED BY <1>1, <2>2, <2>3
<1>6. TypeOK'
  BY <1>0, <1>1, <1>3, <1>5 DEF StoreEffect, IInv, TypeOK
<1>7. Halves'
  BY <1>0, <1>1 DEF StoreEffect, Halves
<1>8. Awaited' /\ GenuineIsExecuted' /\ ExecutedIsGenuine'
  BY <1>1, <1>4 DEF Awaited, GenuineIsExecuted, ExecutedIsGenuine, Missing
<1>9. Stamped'
  BY <1>1 DEF IInv, Stamped
<1>10. Ordered'
  BY <1>1, <1>3 DEF Ordered
<1> QED BY <1>6, <1>7, <1>8, <1>9, <1>10 DEF IInv

\* The awaited half completes a signature that is not the command's.
LEMMA RejectedStep == ASSUME NEW s \in SignatureFrame, IInv, Rejected(s) PROVE IInv'
<1>1. /\ state = Missing(s.part) /\ Note(s) /\ ReadyNext
      /\ ~Verified([signature EXCEPT ![s.part] = s.sigPart])
      /\ UNCHANGED <<lastValid, done, clock>>
  BY DEF Rejected
<1>2. state # "LISTENING" /\ s.part \in 1..2 /\ s.sigPart \in Commands \cup {Junk}
  BY <1>1 DEF Missing, SignatureFrame
<1>3. /\ got' = IF s.sigPart = current THEN got \cup {s.part} ELSE got
      /\ spoilt' = (spoilt \/ s.sigPart # current)
  BY <1>1 DEF Note
<1>4. got \subseteq 1..2 /\ spoilt \in BOOLEAN /\ done \in BOOLEAN
      /\ signature \in [1..2 -> Commands \cup {None, Junk}]
  BY DEF IInv, TypeOK
<1>5. GenuineIsExecuted'
  <2> SUFFICES ASSUME got' = {1, 2}, ~spoilt' PROVE FALSE
    BY <1>1 DEF GenuineIsExecuted
  <2>1. s.sigPart = current /\ ~spoilt
    BY <1>3
  <2>2. \A h \in 1..2 : h # s.part => h \in got /\ signature[h] = current
    BY <1>2, <1>3, <2>1 DEF IInv, Halves
  <2> QED BY <1>1, <1>2, <1>4, <2>1, <2>2 DEF Verified
<1>6. ExecutedIsGenuine'
  BY <1>1, <1>2, <1>3, <1>4 DEF IInv, ExecutedIsGenuine
<1> QED BY <1>1, <1>2, <1>3, <1>4, <1>5, <1>6, ReadyStep

\* Every step of the receiver preserves the invariant.
LEMMA StepIInv == IInv /\ [Next]_vars => IInv'
<1> SUFFICES ASSUME IInv, [Next]_vars PROVE IInv'
  OBVIOUS
<1>1. CASE Tick
  BY <1>1, TickStep
<1>2. CASE \E c \in Commands : NewCommand(c)
  BY <1>2, NewCommandStep
<1>3. CASE \/ \E c \in Commands : HashFails(c)
           \/ \E s \in SignatureFrame : Late(s)
  BY <1>3, GivenUpStep
<1>4. CASE \E s \in SignatureFrame : FirstHalf(s) \/ Overwrite(s)
  BY <1>4, FirstHalfStep, OverwriteStep
<1>5. CASE \E s \in SignatureFrame : Accepted(s) \/ Rejected(s)
  BY <1>5, AcceptedStep, RejectedStep
<1>6. CASE UNCHANGED vars
  BY <1>6 DEF IInv, TypeOK, Halves, Awaited, Stamped, Ordered, GenuineIsExecuted,
     ExecutedIsGenuine, vars, receiver, clock, past
<1> QED
  BY <1>1, <1>2, <1>3, <1>4, <1>5, <1>6 DEF Next, Receive

(***************************** theorems ************************************)

\* The invariant holds in every reachable state.
THEOREM CommandInvariant == Spec => []IInv
BY InitIInv, StepIInv, PTL DEF Spec

\* Type correctness of the receiver (command.c, lines 44-52).
THEOREM CommandTypeCorrect == Spec => []TypeOK
<1>1. IInv => TypeOK
  BY DEF IInv
<1> QED BY <1>1, CommandInvariant, PTL

\* A command whose genuine halves were stored has been executed (command.c,
\* lines 195-222).
THEOREM CommandGenuineIsExecuted == Spec => []GenuineIsExecuted
<1>1. IInv => GenuineIsExecuted
  BY DEF IInv
<1> QED BY <1>1, CommandInvariant, PTL

\* Nothing is executed without both genuine halves (command.c, line 161).
THEOREM CommandExecutedIsGenuine == Spec => []ExecutedIsGenuine
<1>1. IInv => ExecutedIsGenuine
  BY DEF IInv
<1> QED BY <1>1, CommandInvariant, PTL

\* Commands are executed in the order of their numbers (command.c, lines 168
\* and 175).
THEOREM CommandSequenceGrows == Spec => SequenceGrows
<1>1. IInv /\ [Next]_vars => [lastValid' >= lastValid]_vars
  <2> SUFFICES ASSUME IInv, Next PROVE lastValid' >= lastValid
    BY DEF vars
  <2>1. lastValid \in Nat
    BY DEF IInv, TypeOK
  <2>2. CASE \E s \in SignatureFrame : Accepted(s)
    <3>1. PICK s \in SignatureFrame : Accepted(s)
      BY <2>2
    <3>2. lastValid' = current.sequence /\ state = Missing(s.part)
      BY <3>1 DEF Accepted
    <3>3. state # "LISTENING"
      BY <3>2 DEF Missing
    <3> QED BY <3>2, <3>3 DEF IInv, Ordered
  <2>3. CASE lastValid' = lastValid
    BY <2>1, <2>3
  <2> QED
    BY <2>2, <2>3 DEF Next, Receive, Tick, NewCommand, HashFails, Late, FirstHalf,
       Overwrite, Rejected, receiver
<1> QED BY <1>1, CommandInvariant, PTL DEF Spec, SequenceGrows

\* On a steady clock nothing is executed late (command.c, lines 238-245).
THEOREM CommandNotExecutedLate == Spec => NotExecutedLate
<1>1. IInv /\ [Next]_vars => [Executes /\ steady => uptime - arrived <= Timeout]_vars
  <2> SUFFICES ASSUME IInv, Executes, steady PROVE uptime - arrived <= Timeout
    BY DEF vars
  <2>1. PICK s \in SignatureFrame : Accepted(s)
    BY DEF Executes
  <2>2. InTime /\ state = Missing(s.part)
    BY <2>1 DEF Accepted, Store
  <2>3. state # "LISTENING"
    BY <2>2 DEF Missing
  <2>4. sync.time # 0 /\ received = sync.time + (arrived - sync.stamp)
    BY <2>3 DEF IInv, Stamped
  <2>5. GetTime = sync.time + (uptime - sync.stamp)
    BY <2>4 DEF GetTime
  <2>6. /\ sync.time \in Nat /\ sync.stamp \in Nat /\ uptime \in 0..MaxUptime
        /\ arrived \in 0..uptime
    BY DEF IInv, TypeOK
  <2>7. GetTime - received = uptime - arrived
    BY <2>4, <2>5, <2>6
  <2>8. uptime - arrived \in 0..TimeMod - 1
    BY <2>6, CommandAssumption
  <2>9. (uptime - arrived) % TimeMod = uptime - arrived
    BY <2>8, CommandAssumption
  <2> QED BY <2>2, <2>7, <2>9 DEF InTime, TimeDiff
<1> QED BY <1>1, CommandInvariant, PTL DEF Spec, NotExecutedLate
=============================================================================
