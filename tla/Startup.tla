------------------------------ MODULE Startup -------------------------------
(***************************************************************************)
(* The start of the firmware: app_main (main/app_main.c) opens the serial  *)
(* queues and runs lownet_init (lownet.c), which creates the network       *)
(* service and the decrypt service and waits for the first; then it        *)
(* prepares the protocols - chat, ping, the signed commands, crane - and   *)
(* opens the console.  Frames may already arrive while it does.  Every     *)
(* allocation or ESP-IDF call whose result the code checks may fail.       *)
(***************************************************************************)
EXTENDS Naturals

CONSTANT
    Slow          \* whether the service may take longer than TIMEOUT_STARTUP

VARIABLES
    main,         \* control point of app_main
    svc,          \* control point of lownet_service
    dec,          \* decrypt_service: "none", "ready", "deleted"
    serialQ,      \* the queues of serial_system that exist
    events,       \* net_system.events: "none", "live", "deleted"
    bits,         \* the bits set in it
    inbound,      \* net_system.inbound: "none", "live", "deleted"
    callback,     \* the receive callback is registered
    keys,         \* the keystore holds the well-known keys
    signing,      \* net_system.signing_key is set
    initialized,  \* net_initialized
    protocols,    \* the registered protocols
    acks,         \* state.acks of crane.c exists
    result,       \* history: how lownet_init ended
    halted        \* why the processor stopped, "no" while it runs

link  == <<events, bits, inbound, callback>>
setup == <<serialQ, keys, signing, initialized>>
apps  == <<protocols, acks>>
vars  == <<main, svc, dec, link, setup, apps, result, halted>>

ASSUME StartupAssumption == Slow \in BOOLEAN

Ready == 1        \* EVENT_CORE_READY
Error == 2        \* EVENT_CORE_ERROR

Running == halted = "no"
Main(from, to) == Running /\ main = from /\ main' = to
Svc(from, to)  == Running /\ svc = from /\ svc' = to

Halt(why) == halted' = why /\ UNCHANGED <<main, svc, dec, link, setup, apps, result>>

\* The use of an object that may be missing.
Need(exists, why) ==
    /\ halted' = IF exists THEN halted ELSE why
    /\ UNCHANGED <<main, svc, dec, link, setup, apps, result>>

(***************************** init_serial_service *************************)

\* With a queue missing there is no serial service, and no SYNC line.
InitSerial ==
    /\ Main("serial", "init") /\ serialQ' \in SUBSET {"read", "write"}
    /\ UNCHANGED <<svc, dec, link, keys, signing, initialized, apps, result, halted>>

(***************************** lownet_init *********************************)

\* The early returns leave net_initialized at 1.
GiveUp ==
    /\ result' = "failed"
    /\ UNCHANGED <<svc, dec, link, serialQ, keys, signing, apps, halted>>

CreateDecryptQueue ==
    /\ initialized' = TRUE
    /\ \/ Main("init", "wifi")
          /\ UNCHANGED <<svc, dec, link, serialQ, keys, signing, apps, result, halted>>
       \/ Main("init", "chat") /\ GiveUp

\* Mutant of StartRadio: no return when xEventGroupCreate fails.
StartRadioAnyway ==
    /\ Main("wifi", "keystore") /\ events' \in {"live", "none"}
    /\ UNCHANGED <<svc, dec, bits, inbound, callback, setup, apps, result, halted>>

\* ESP_ERROR_CHECK aborts; a failing esp_now_init or xEventGroupCreate
\* returns.
StartRadio ==
    \/ Main("wifi", "keystore") /\ events' = "live"
       /\ UNCHANGED <<svc, dec, bits, inbound, callback, setup, apps, result, halted>>
    \/ Main("wifi", "chat") /\ UNCHANGED initialized /\ GiveUp
    \/ Running /\ main = "wifi" /\ Halt("abort")

\* lownet_keystore_init and _write, for both indices.
WriteKeystore == keys' = TRUE

FillKeystore ==
    /\ Main("keystore", "services") /\ WriteKeystore /\ signing' = TRUE
    /\ UNCHANGED <<svc, dec, link, serialQ, initialized, apps, result, halted>>

\* lownet_keystore_free.
FreeKeystore == keys' = FALSE

CreateServices ==
    \/ Main("services", "decrypt") /\ svc' = "queue"
       /\ UNCHANGED <<dec, link, setup, apps, result, halted>>
    \/ Main("decrypt", "wait") /\ dec' = "ready"
       /\ UNCHANGED <<svc, link, setup, apps, result, halted>>

\* Mutant of InitDone: the error bit is taken for success.
InitDoneOnAnyBit ==
    /\ Main("wait", "chat") /\ bits # {}
    /\ result' = "ready"
    /\ UNCHANGED <<svc, dec, link, setup, apps, halted>>

\* xEventGroupWaitBits, and what its result selects.
InitDone ==
    /\ Main("wait", "chat") /\ bits = {Ready}
    /\ result' = "ready"
    /\ UNCHANGED <<svc, dec, link, setup, apps, halted>>

\* Mutant of InitFails: only the timeout ends the wait.
InitFailsOnTimeout ==
    /\ Main("wait", "cleanup") /\ Slow /\ bits = {} /\ result' = "timeout"
    /\ UNCHANGED <<svc, dec, link, setup, apps, halted>>

InitFails ==
    /\ Main("wait", "cleanup")
    /\ \/ Error \in bits /\ result' = "error"
       \/ Slow /\ bits = {} /\ result' = "timeout"
    /\ UNCHANGED <<svc, dec, link, setup, apps, halted>>

\* By now a late service may have set its bit after all.
CleanUp ==
    /\ Main("cleanup", "chat")
    /\ events' = "deleted" /\ FreeKeystore /\ initialized' = FALSE
    /\ UNCHANGED <<svc, dec, bits, inbound, callback, serialQ, signing, apps, result, halted>>

(***************************** lownet_service ******************************)

\* Mutant of CreateInbound: the result of xQueueCreate is not checked.
CreateInboundUnchecked ==
    /\ Svc("queue", "identify") /\ inbound' \in {"live", "none"}
    /\ UNCHANGED <<main, dec, events, bits, callback, setup, apps, result, halted>>

CreateInbound ==
    /\ \/ Svc("queue", "identify") /\ inbound' = "live"
       \/ Svc("queue", "kill") /\ UNCHANGED inbound
    /\ UNCHANGED <<main, dec, events, bits, callback, setup, apps, result, halted>>

\* The device's MAC address need not be in the device table ...
Identify ==
    /\ Svc("identify", "peer") \/ Svc("identify", "kill")
    /\ UNCHANGED <<main, dec, link, setup, apps, result, halted>>

\* ... and esp_now_add_peer may fail.
AddPeer ==
    /\ Svc("peer", "register") \/ Svc("peer", "kill")
    /\ UNCHANGED <<main, dec, link, setup, apps, result, halted>>

RegisterCallback ==
    /\ Svc("register", "announce") /\ callback' = TRUE
    /\ UNCHANGED <<main, dec, events, bits, inbound, setup, apps, result, halted>>

\* xEventGroupSetBits follows net_system.events: what it does to a deleted
\* group stops the processor or goes unnoticed.
SetBit(from, to, bit) ==
    /\ \/ Svc(from, to) /\ events = "live" /\ bits' = bits \cup {bit} /\ UNCHANGED halted
       \/ Svc(from, to) /\ events # "live" /\ UNCHANGED <<bits, halted>>
       \/ Svc(from, from) /\ events # "live" /\ halted' = "deleted event group"
          /\ UNCHANGED bits
    /\ UNCHANGED <<main, dec, events, inbound, callback, setup, apps, result>>

Announce == SetBit("announce", "serve", Ready)

\* lownet_service_kill: the error bit, the queue, the task itself; the call
\* that would delete decrypt_task comes after that.
KillBit == SetBit("kill", "kill_queue", Error)

KillQueue ==
    /\ Svc("kill_queue", "kill_self")
    /\ inbound' = IF inbound = "live" THEN "deleted" ELSE inbound
    /\ UNCHANGED <<main, dec, events, bits, callback, setup, apps, result, halted>>

\* Mutant of KillSelf: it returns, and the service goes on with its start.
KillSelfReturns ==
    /\ Svc("kill_self", "register")
    /\ UNCHANGED <<main, dec, link, setup, apps, result, halted>>

KillSelf ==
    /\ Svc("kill_self", "deleted")
    /\ UNCHANGED <<main, dec, link, setup, apps, result, halted>>

\* A frame reaches its handler; without one it is dropped.
Dispatch(p) == Running /\ svc = "serve" /\ p \in protocols

\* crane_recv_status sends to state.acks.
Status == Dispatch("crane") /\ Need(acks, "null acks queue")

\* chat_receive, ping_receive and crane_recv_status write a line.
Line == \E p \in {"chat", "ping", "crane"} :
            Dispatch(p) /\ Need("write" \in serialQ, "null serial queue")

\* A frame the radio hands over before the service reads its queue, plain or
\* by way of decrypt_service.
Frame == Running /\ callback /\ Need(inbound = "live", "no inbound queue")

(***************************** app_main ************************************)

Register(from, p, to) ==
    /\ Main(from, to) /\ protocols' = protocols \cup {p}
    /\ UNCHANGED <<svc, dec, link, setup, acks, result, halted>>

ChatInit == Register("chat", "chat", "ping")
PingInit == Register("ping", "ping", "command")

\* command_init registers nothing; public_key_init takes strlen of the
\* signing key.
CommandInit ==
    \/ Main("command", "crane") /\ signing
       /\ UNCHANGED <<svc, dec, link, setup, apps, result, halted>>
    \/ Running /\ main = "command" /\ ~signing /\ Halt("null pem")

\* crane_init registers its handler first ...
CraneRegister == Register("crane", "crane", "acks")

\* ... and creates the queue the handler uses after that.
CraneAcks ==
    /\ Main("acks", "console") /\ acks' = TRUE
    /\ UNCHANGED <<svc, dec, link, setup, protocols, result, halted>>

\* The console waits for a line.
ReadLine == Running /\ main = "console" /\ Need("read" \in serialQ, "null serial queue")

(***************************** specification *******************************)

Init ==
    /\ main = "serial" /\ svc = "none" /\ dec = "none" /\ serialQ = {}
    /\ events = "none" /\ bits = {} /\ inbound = "none" /\ callback = FALSE
    /\ keys = FALSE /\ signing = FALSE /\ initialized = FALSE
    /\ protocols = {} /\ acks = FALSE /\ result = "pending" /\ halted = "no"

MainNext == InitSerial \/ CreateDecryptQueue \/ StartRadio \/ FillKeystore
            \/ CreateServices \/ InitDone \/ InitFails \/ CleanUp \/ ChatInit
            \/ PingInit \/ CommandInit \/ CraneRegister \/ CraneAcks
SvcNext  == CreateInbound \/ Identify \/ AddPeer \/ RegisterCallback \/ Announce
            \/ KillBit \/ KillQueue \/ KillSelf

Next == MainNext \/ SvcNext \/ Status \/ Line \/ Frame \/ ReadLine

Spec == Init /\ [][Next]_vars

FairSpec == Spec /\ WF_vars(MainNext) /\ WF_vars(SvcNext)

(***************************** properties **********************************)

PointsOK ==
    /\ main \in {"serial", "init", "wifi", "keystore", "services", "decrypt", "wait",
                 "cleanup", "chat", "ping", "command", "crane", "acks", "console"}
    /\ svc \in {"none", "queue", "identify", "peer", "register", "announce", "serve",
                "kill", "kill_queue", "kill_self", "deleted"}
    /\ result \in {"pending", "ready", "failed", "error", "timeout"}
    /\ halted \in {"no", "abort", "deleted event group", "null pem", "null acks queue",
                   "null serial queue", "no inbound queue"}

ObjectsOK ==
    /\ dec \in {"none", "ready", "deleted"} /\ serialQ \subseteq {"read", "write"}
    /\ events \in {"none", "live", "deleted"} /\ inbound \in {"none", "live", "deleted"}
    /\ bits \subseteq {Ready, Error} /\ protocols \subseteq {"chat", "ping", "crane"}
    /\ events = "none" => svc = "none" /\ dec = "none"

FlagsOK ==
    /\ callback \in BOOLEAN /\ keys \in BOOLEAN /\ signing \in BOOLEAN
    /\ initialized \in BOOLEAN /\ acks \in BOOLEAN

TypeOK == PointsOK /\ ObjectsOK /\ FlagsOK

\* When lownet_init ends with its success message the service serves, its
\* queue and the keys are there, and none of it is taken down later
\* (lownet.c, lines 147-170 and 429-438).
InitMeansServing ==
    result = "ready" =>
        svc = "serve" /\ inbound = "live" /\ callback /\ keys /\ events = "live"

\* The radio and decrypt_service never find inbound missing or deleted: the
\* callback comes last and the service is not killed after it (lownet.c,
\* lines 331, 375 and 446).
RadioHasQueue == halted # "no inbound queue"

\* What stops the processor during or after a start, beyond ESP_ERROR_CHECK,
\* is confined: the service meets a deleted event group only when app_main
\* gave up on it at the timeout (lownet.c, line 164) and never after a start
\* that failed or succeeded; crane's handler meets its missing queue only
\* between the two steps of crane_init (crane.c, lines 44-53); the signing
\* key is missing only when lownet_init returned early (line 113).
StopsConfined ==
    /\ halted = "deleted event group" => result = "timeout"
    /\ halted = "null acks queue" => main = "acks"
    /\ halted = "null pem" => result = "failed"

\* Startup comes to the console whatever fails, or the processor stops: every
\* wait of app_main is bounded (lownet.c, lines 147-168).
ConsoleOpens == <>(main = "console" \/ ~Running)
=============================================================================
