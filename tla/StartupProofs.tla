---------------------------- MODULE StartupProofs ----------------------------
(***************************************************************************)
(* The safety properties of Startup, whether or not the service may be     *)
(* slow.  The invariant says how far each task has come: what app_main has *)
(* created at its control point, what the service has at its own, and how  *)
(* the event bits and the result of lownet_init tie the two together.      *)
(***************************************************************************)
EXTENDS Startup, TLAPS

Early   == {"serial", "init", "wifi", "keystore", "services"}
Waiting == {"decrypt", "wait"}
Late    == {"cleanup", "chat", "ping", "command", "crane", "acks", "console"}

\* lownet_init: what exists before, during and after it.
MainInv ==
    /\ main \in Early => svc = "none"
    /\ main \in Early \cup Waiting => result = "pending"
    /\ main \in Late => result # "pending"
    /\ main \in {"keystore", "services", "decrypt", "wait"} => events = "live"
    /\ main \in {"services", "decrypt", "wait"} => keys /\ signing
    /\ result \in {"ready", "error", "timeout"} => signing
    /\ main = "cleanup" => result \in {"error", "timeout"}
    /\ result = "failed" => svc = "none"
    /\ result = "ready" => keys /\ events = "live" /\ Ready \in bits
    /\ result = "error" => Error \in bits
    /\ events = "deleted" => result \in {"error", "timeout"}

\* lownet_service: its queue, its callback and the bit it has set.
SvcInv ==
    /\ svc \in {"identify", "peer", "register", "announce", "serve"} => inbound = "live"
    /\ callback => svc \in {"announce", "serve"}
    /\ svc \in {"announce", "serve"} => callback
    /\ Ready \in bits => svc = "serve"
    /\ Error \in bits => svc \in {"kill_queue", "kill_self", "deleted"}
    /\ svc # "none" => events # "none"

\* The protocols: crane's handler and its queue.
CraneInv ==
    /\ "crane" \in protocols => main \in {"acks", "console"}
    /\ main = "console" => acks

IInv == TypeOK /\ MainInv /\ SvcInv /\ CraneInv /\ RadioHasQueue /\ StopsConfined

LEMMA InitIInv == Init => IInv
<1>1. Init => PointsOK /\ FlagsOK
  BY DEF Init, PointsOK, FlagsOK
<1> QED
  BY <1>1 DEF Init, IInv, TypeOK, ObjectsOK, MainInv, SvcInv, CraneInv, RadioHasQueue, StopsConfined,
     Early, Waiting, Late

USE DEF Ready, Error

\* No step takes a flag out of BOOLEAN.
LEMMA FlagsStay == IInv /\ [Next]_vars => FlagsOK'
<1> SUFFICES ASSUME IInv, [Next]_vars PROVE FlagsOK'
  OBVIOUS
<1>1. FlagsOK
  BY DEF IInv, TypeOK
<1> USE DEF FlagsOK, link, setup, apps
<1>2. CASE MainNext
  BY <1>1, <1>2 DEF MainNext, InitSerial, CreateDecryptQueue, GiveUp, StartRadio, Halt,
     FillKeystore, WriteKeystore, CreateServices, InitDone, InitFails, CleanUp, FreeKeystore,
     ChatInit, PingInit, Register, CommandInit, CraneRegister, CraneAcks
<1>3. CASE SvcNext
  BY <1>1, <1>3 DEF SvcNext, CreateInbound, Identify, AddPeer, RegisterCallback, Announce,
     SetBit, KillBit, KillQueue, KillSelf
<1>4. CASE Status \/ Line \/ Frame \/ ReadLine
  BY <1>1, <1>4 DEF Status, Line, Frame, ReadLine, Need
<1>5. CASE UNCHANGED vars
  BY <1>1, <1>5 DEF vars
<1> QED
  BY <1>2, <1>3, <1>4, <1>5 DEF Next

\* No step takes a control point, the result or the cause of a halt out of its set.
LEMMA PointsStay == IInv /\ [Next]_vars => PointsOK'
<1> SUFFICES ASSUME IInv, [Next]_vars PROVE PointsOK'
  OBVIOUS
<1>1. PointsOK
  BY DEF IInv, TypeOK
<1> USE DEF PointsOK, link, setup, apps
<1>2. CASE MainNext
  BY <1>1, <1>2 DEF Running, Main, MainNext, InitSerial, CreateDecryptQueue, GiveUp, StartRadio, Halt,
     FillKeystore, WriteKeystore, CreateServices, InitDone, InitFails, CleanUp, FreeKeystore,
     ChatInit, PingInit, Register, CommandInit, CraneRegister, CraneAcks
<1>3. CASE SvcNext
  BY <1>1, <1>3 DEF Running, Svc, SvcNext, CreateInbound, Identify, AddPeer, RegisterCallback, Announce,
     SetBit, KillBit, KillQueue, KillSelf
<1>4. CASE Status \/ Line \/ Frame \/ ReadLine
  BY <1>1, <1>4 DEF Status, Line, Frame, ReadLine, Dispatch, Need
<1>5. CASE UNCHANGED vars
  BY <1>1, <1>5 DEF vars
<1> QED
  BY <1>2, <1>3, <1>4, <1>5 DEF Next

LEMMA MainKeepsIInv == IInv /\ MainNext => IInv'
<1> SUFFICES ASSUME IInv, MainNext PROVE IInv'
  OBVIOUS
<1>0. PointsOK' /\ FlagsOK'
  BY PointsStay, FlagsStay DEF Next
<1> USE DEF IInv, TypeOK, ObjectsOK, MainInv, SvcInv, CraneInv, RadioHasQueue, StopsConfined,
            Early, Waiting, Late, link, setup, apps, Running, Main
<1>1. CASE InitSerial
  BY <1>0, <1>1 DEF InitSerial
<1>2. CASE CreateDecryptQueue
  <2>1. CASE main' = "wifi"
    <3>1. main = "init" /\ initialized'
          /\ UNCHANGED <<svc, dec, link, serialQ, keys, signing, apps, result, halted>>
      BY <1>2, <2>1 DEF CreateDecryptQueue, GiveUp
    <3> QED
      BY <1>0, <2>1, <3>1
  <2>2. CASE main' = "chat"
    <3>1. main = "init" /\ initialized' /\ result' = "failed"
          /\ UNCHANGED <<svc, dec, link, serialQ, keys, signing, apps, halted>>
      BY <1>2, <2>2 DEF CreateDecryptQueue, GiveUp
    <3> QED
      BY <1>0, <2>2, <3>1
  <2> QED
    BY <1>2, <2>1, <2>2 DEF CreateDecryptQueue, GiveUp
<1>3. CASE StartRadio
  <2>1. CASE main' = "keystore"
    <3>1. main = "wifi" /\ events' = "live"
          /\ UNCHANGED <<svc, dec, bits, inbound, callback, setup, apps, result, halted>>
      BY <1>3, <2>1 DEF StartRadio, GiveUp, Halt
    <3> QED
      BY <1>0, <2>1, <3>1
  <2>2. CASE main' = "chat"
    <3>1. main = "wifi" /\ result' = "failed"
          /\ UNCHANGED <<svc, dec, link, setup, apps, halted>>
      BY <1>3, <2>2 DEF StartRadio, GiveUp, Halt
    <3> QED
      BY <1>0, <2>2, <3>1
  <2>3. CASE main' = main
    <3>1. halted' = "abort"
          /\ UNCHANGED <<svc, dec, link, setup, apps, result>>
      BY <1>3, <2>3 DEF StartRadio, GiveUp, Halt
    <3>2. (ObjectsOK /\ RadioHasQueue /\ StopsConfined)'
      BY <1>0, <2>3, <3>1
    <3>3. (MainInv /\ SvcInv /\ CraneInv)'
      BY <1>0, <2>3, <3>1
    <3> QED
      BY <1>0, <3>2, <3>3
  <2> QED
    BY <1>3, <2>1, <2>2, <2>3 DEF StartRadio, GiveUp, Halt
<1>4. CASE FillKeystore
  BY <1>0, <1>4 DEF FillKeystore, WriteKeystore
<1>5. CASE CreateServices
  <2>1. CASE main = "services"
    <3>1. main' = "decrypt" /\ svc' = "queue"
          /\ UNCHANGED <<dec, link, setup, apps, result, halted>>
      BY <1>5, <2>1 DEF CreateServices
    <3> QED
      BY <1>0, <2>1, <3>1
  <2>2. CASE main = "decrypt"
    <3>1. main' = "wait" /\ dec' = "ready"
          /\ UNCHANGED <<svc, link, setup, apps, result, halted>>
      BY <1>5, <2>2 DEF CreateServices
    <3> QED
      BY <1>0, <2>2, <3>1
  <2> QED
    BY <1>5, <2>1, <2>2 DEF CreateServices
<1>6. CASE InitDone
  BY <1>0, <1>6 DEF InitDone
<1>7. CASE InitFails \/ CleanUp
  <2>1. CASE InitFails
    BY <1>0, <2>1 DEF InitFails
  <2>2. CASE CleanUp
    BY <1>0, <2>2 DEF CleanUp, FreeKeystore
  <2> QED
    BY <1>7, <2>1, <2>2
<1>8. CASE ChatInit \/ PingInit
  <2>1. CASE ChatInit
    BY <1>0, <2>1 DEF ChatInit, Register
  <2>2. CASE PingInit
    BY <1>0, <2>2 DEF PingInit, Register
  <2> QED
    BY <1>8, <2>1, <2>2
<1>9. CASE CommandInit
  <2>1. CASE signing
    <3>1. main = "command" /\ main' = "crane"
          /\ UNCHANGED <<svc, dec, link, setup, apps, result, halted>>
      BY <1>9, <2>1 DEF CommandInit, Halt
    <3> QED
      BY <1>0, <2>1, <3>1
  <2>2. CASE ~signing
    <3>1. main = "command" /\ halted' = "null pem"
          /\ UNCHANGED <<main, svc, dec, link, setup, apps, result>>
      BY <1>9, <2>2 DEF CommandInit, Halt
    <3>2. result = "failed"
      BY <2>2, <3>1 DEF PointsOK
    <3>3. (ObjectsOK /\ RadioHasQueue /\ StopsConfined)'
      BY <1>0, <2>2, <3>1, <3>2
    <3>4. (MainInv /\ SvcInv /\ CraneInv)'
      BY <1>0, <2>2, <3>1
    <3> QED
      BY <1>0, <3>3, <3>4
  <2> QED
    BY <1>9, <2>1, <2>2 DEF CommandInit, Halt
<1>10. CASE CraneRegister
  BY <1>0, <1>10 DEF CraneRegister, Register
<1>11. CASE CraneAcks
  BY <1>0, <1>11 DEF CraneAcks
<1> QED
  BY <1>1, <1>2, <1>3, <1>4, <1>5, <1>6, <1>7, <1>8, <1>9, <1>10, <1>11 DEF MainNext

LEMMA SvcKeepsIInv == IInv /\ SvcNext => IInv'
<1> SUFFICES ASSUME IInv, SvcNext PROVE IInv'
  OBVIOUS
<1>0. PointsOK' /\ FlagsOK'
  BY PointsStay, FlagsStay DEF Next
<1> USE DEF IInv, TypeOK, ObjectsOK, MainInv, SvcInv, CraneInv, RadioHasQueue, StopsConfined,
            Early, Waiting, Late, link, setup, apps, Running, Svc
<1>1. CASE CreateInbound
  BY <1>0, <1>1 DEF CreateInbound
<1>2. CASE Identify
  BY <1>0, <1>2 DEF Identify
<1>3. CASE AddPeer
  BY <1>0, <1>3 DEF AddPeer
<1>4. CASE RegisterCallback
  BY <1>0, <1>4 DEF RegisterCallback
<1>5. CASE Announce
  <2>1. CASE svc' = svc
    <3>1. svc = "announce" /\ events # "live" /\ halted' = "deleted event group"
          /\ UNCHANGED <<main, dec, events, inbound, callback, setup, apps, result, bits>>
      BY <1>5, <2>1 DEF Announce, SetBit
    <3> QED
      BY <1>0, <2>1, <3>1
  <2>2. CASE svc' = "serve" /\ events = "live"
    <3>1. svc = "announce" /\ bits' = bits \cup {Ready}
          /\ UNCHANGED <<main, dec, events, inbound, callback, setup, apps, result, halted>>
      BY <1>5, <2>2 DEF Announce, SetBit
    <3>2. (ObjectsOK /\ RadioHasQueue /\ StopsConfined)'
      BY <1>0, <2>2, <3>1
    <3>3. callback' /\ Error \notin bits' /\ inbound' = "live" /\ events' = "live"
      <4>1. callback'
        BY <3>1
      <4>2. Error \notin bits
        BY <3>1
      <4>3. Error \notin bits'
        BY ONLY <3>1, <4>2
      <4>4. inbound' = "live" /\ events' = "live"
        BY <2>2, <3>1
      <4> QED
        BY <4>1, <4>3, <4>4
    <3>4. MainInv'
      BY <1>0, <2>2, <3>1
    <3>5. SvcInv'
      BY <2>2, <3>3
    <3>6. CraneInv'
      BY <1>0, <2>2, <3>1
    <3> QED
      BY <1>0, <3>2, <3>4, <3>5, <3>6
  <2>3. CASE svc' = "serve" /\ events # "live"
    <3>1. svc = "announce"
          /\ UNCHANGED <<main, dec, events, inbound, callback, setup, apps, result, bits, halted>>
      BY <1>5, <2>3 DEF Announce, SetBit
    <3>2. (ObjectsOK /\ RadioHasQueue /\ StopsConfined)'
      BY <1>0, <2>3, <3>1
    <3>3. (MainInv /\ SvcInv /\ CraneInv)'
      BY <1>0, <2>3, <3>1
    <3> QED
      BY <1>0, <3>2, <3>3
  <2> QED
    BY <1>5, <2>1, <2>2, <2>3 DEF Announce, SetBit
<1>6. CASE KillBit
  <2>1. CASE svc' = svc
    <3>1. svc = "kill" /\ events # "live" /\ halted' = "deleted event group"
          /\ UNCHANGED <<main, dec, events, inbound, callback, setup, apps, result, bits>>
      BY <1>6, <2>1 DEF KillBit, SetBit
    <3> QED
      BY <1>0, <2>1, <3>1
  <2>2. CASE svc' = "kill_queue" /\ events = "live"
    <3>1. svc = "kill" /\ bits' = bits \cup {Error}
          /\ UNCHANGED <<main, dec, events, inbound, callback, setup, apps, result, halted>>
      BY <1>6, <2>2 DEF KillBit, SetBit
    <3>2. (ObjectsOK /\ RadioHasQueue /\ StopsConfined)'
      BY <1>0, <2>2, <3>1
    <3>3. MainInv'
      BY <1>0, <2>2, <3>1
    <3>4. ~callback' /\ Ready \notin bits' /\ inbound' = inbound /\ events' # "none"
      <4>1. ~callback'
        BY <3>1
      <4>2. Ready \notin bits
        BY <3>1
      <4>3. Ready \notin bits'
        BY ONLY <3>1, <4>2
      <4>4. inbound' = inbound /\ events' # "none"
        BY <2>2, <3>1
      <4> QED
        BY <4>1, <4>3, <4>4
    <3>5. SvcInv'
      BY <2>2, <3>4
    <3>6. CraneInv'
      BY <1>0, <2>2, <3>1
    <3> QED
      BY <1>0, <3>2, <3>3, <3>5, <3>6
  <2>3. CASE svc' = "kill_queue" /\ events # "live"
    <3>1. svc = "kill"
          /\ UNCHANGED <<main, dec, events, inbound, callback, setup, apps, result, bits, halted>>
      BY <1>6, <2>3 DEF KillBit, SetBit
    <3> QED
      BY <1>0, <2>3, <3>1
  <2> QED
    BY <1>6, <2>1, <2>2, <2>3 DEF KillBit, SetBit
<1>7. CASE KillQueue
  BY <1>0, <1>7 DEF KillQueue
<1>8. CASE KillSelf
  BY <1>0, <1>8 DEF KillSelf
<1> QED
  BY <1>1, <1>2, <1>3, <1>4, <1>5, <1>6, <1>7, <1>8 DEF SvcNext

LEMMA OthersKeepIInv == IInv /\ (Status \/ Line \/ Frame \/ ReadLine) => IInv'
<1> SUFFICES ASSUME IInv, Status \/ Line \/ Frame \/ ReadLine PROVE IInv'
  OBVIOUS
<1>0. PointsOK' /\ FlagsOK'
  BY PointsStay, FlagsStay DEF Next
<1> USE DEF IInv, TypeOK, ObjectsOK, MainInv, SvcInv, CraneInv, RadioHasQueue, StopsConfined,
            Early, Waiting, Late, link, setup, apps, Running, Need
<1>1. CASE Status
  BY <1>0, <1>1 DEF Status, Dispatch
<1>2. CASE Line
  <2>1. halted' \in {halted, "null serial queue"} /\ Running
    BY <1>2 DEF Line, Dispatch
  <2>2. UNCHANGED <<main, svc, dec, link, setup, apps, result>>
    BY <1>2 DEF Line
  <2>3. (MainInv /\ SvcInv /\ CraneInv)'
    BY <2>2
  <2>4. (ObjectsOK /\ RadioHasQueue /\ StopsConfined)'
    BY <2>1, <2>2
  <2> QED
    BY <1>0, <2>3, <2>4
<1>3. CASE Frame
  BY <1>0, <1>3 DEF Frame
<1>4. CASE ReadLine
  BY <1>0, <1>4 DEF ReadLine
<1> QED
  BY <1>1, <1>2, <1>3, <1>4

LEMMA StutterKeepsIInv == IInv /\ UNCHANGED vars => IInv'
<1> SUFFICES ASSUME IInv, UNCHANGED vars PROVE IInv'
  OBVIOUS
<1>1. PointsOK' /\ FlagsOK'
  BY PointsStay, FlagsStay
<1> USE DEF link, setup, apps, vars
<1>2. (TypeOK /\ RadioHasQueue /\ StopsConfined)'
  BY <1>1 DEF IInv, TypeOK, ObjectsOK, RadioHasQueue, StopsConfined
<1>3. (MainInv /\ SvcInv /\ CraneInv)'
  BY DEF IInv, MainInv, SvcInv, CraneInv, Early, Waiting, Late
<1> QED
  BY <1>2, <1>3 DEF IInv

LEMMA NextKeepsIInv == IInv /\ [Next]_vars => IInv'
BY MainKeepsIInv, SvcKeepsIInv, OthersKeepIInv, StutterKeepsIInv DEF Next

\* The inductive invariant holds throughout the start, slow service or not.
THEOREM StartupInvariant == Spec => []IInv
BY InitIInv, NextKeepsIInv, PTL DEF Spec

\* Every variable of the start keeps its type, and no task of the service
\* exists before the event group (lownet.c, lines 76-171).
THEOREM StartupTypeCorrect == Spec => []TypeOK
<1>1. IInv => TypeOK
  BY DEF IInv
<1> QED
  BY <1>1, StartupInvariant, PTL

\* lownet_init's success message means that the service serves, with its
\* queue, callback, keys and event group (lownet.c, lines 147-170).
THEOREM StartupInitMeansServing == Spec => []InitMeansServing
<1>1. IInv => InitMeansServing
  BY DEF IInv, MainInv, SvcInv, InitMeansServing
<1> QED
  BY <1>1, StartupInvariant, PTL

\* Neither the radio's callback nor decrypt_service meets a missing or
\* deleted inbound queue (lownet.c, lines 331, 375 and 446).
THEOREM StartupRadioHasQueue == Spec => []RadioHasQueue
<1>1. IInv => RadioHasQueue
  BY DEF IInv
<1> QED
  BY <1>1, StartupInvariant, PTL

\* What stops the processor outside ESP_ERROR_CHECK is confined to a late
\* service, the gap in crane_init and an early return of lownet_init
\* (lownet.c, lines 113 and 164; crane.c, lines 44-53).
THEOREM StartupStopsConfined == Spec => []StopsConfined
<1>1. IInv => StopsConfined
  BY DEF IInv
<1> QED
  BY <1>1, StartupInvariant, PTL
=============================================================================
