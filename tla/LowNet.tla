------------------------------- MODULE LowNet -------------------------------
(***************************************************************************)
(* The network service of managed_components/lownet/lownet.c once it runs, *)
(* with the ciphers and /setkey of managed_components/crypt/crypt.c.  Four *)
(* tasks share net_system without a lock:                                  *)
(*                                                                         *)
(*   radio  the ESP-NOW task runs lownet_inbound_handler;                  *)
(*   dec    decrypt_service_main;                                          *)
(*   svc    lownet_service_main, which runs the protocol handlers;         *)
(*   main   registers the protocols, then runs the console's commands.     *)
(*                                                                         *)
(* Only main changes the key.  A key stands for its 32 bytes; decrypting   *)
(* with other bytes than the frame was encrypted with yields a frame whose *)
(* CRC fails.  A reset by the processor stops the model: "halted" says why.*)
(***************************************************************************)
EXTENDS Integers, Sequences

CONSTANTS
    Arrivals,     \* frames that may arrive from the air
    Registered,   \* protocols main registers, in order
    KeyArgs,      \* arguments of /setkey: "none", "0", "1", "other"
    QueueDepth,   \* depth of inbound and of decrypt_queue (16)
    MaxFrames,    \* bound: frames that arrive
    MaxSets,      \* bound: /setkey commands
    MaxSends      \* bound: frames main sends

VARIABLES
    keyOn,        \* net_system.aes_key.size # 0
    keyBytes,     \* net_system.aes_key.bytes
    table,        \* net_system.protocols[0 .. num_protocols - 1]
    inbound,      \* net_system.inbound
    decryptQ,     \* net_system.decrypt_queue
    dec,          \* the frame decrypt_service works on, NoFrame when none
    decAt,        \* how far decrypt_service is with it
    cur,          \* the frame lownet_service has taken from inbound
    pc,           \* control point of main
    newKey,       \* the key lownet_set_key is copying
    snd,          \* lownet_send, by the task that runs it
    halted,       \* "no", "null key" or "wild key"
    arrivals,     \* history: number of frames that arrived
    handled,      \* history: frames given to a handler, by their kind
    selected,     \* history: the key the last completed /setkey named
    epoch,        \* history: number of stores of lownet_set_key
    sets, sends,  \* history: commands run, for the bounds
    last          \* history: the last frame transmitted

keyVars == <<keyOn, keyBytes, newKey, selected, epoch>>
rxVars  == <<inbound, decryptQ, dec, decAt, cur, arrivals, handled>>
vars    == <<keyVars, rxVars, table, pc, snd, halted, sets, sends, last>>

Stored    == [a \in {"0", "1"} |-> IF a = "0" THEN "key0" ELSE "key1"]
KeyBytes  == {"zero", "key0", "key1", "torn", "junk"}
Kinds     == {"plain", "cipher"}
AirFrame  == [kind : Kinds, key : KeyBytes \cup {"none"},
              ok : BOOLEAN, src : {"peer", "all"}, dst : {"me", "all", "other"},
              proto : Nat]
Queued    == [air : AirFrame, good : BOOLEAN, id : Nat, epoch : Nat]
NoFrame   == [air |-> [kind |-> "plain", key |-> "none", ok |-> FALSE, src |-> "peer",
                       dst |-> "other", proto |-> 0],
              good |-> FALSE, id |-> 0, epoch |-> 0]
Senders   == {"main", "svc"}
Idle      == [at |-> "idle", epoch |-> 0]

ASSUME NetAssumption ==
    /\ Arrivals \subseteq AirFrame
    /\ Registered \in Seq(Nat)
    /\ KeyArgs \subseteq {"none", "0", "1", "other"}
    /\ QueueDepth \in Nat /\ MaxFrames \in Nat /\ MaxSets \in Nat /\ MaxSends \in Nat

Running == halted = "no"

\* Mutant of Put: the queue has no limit.
PutAnyway(q, f) == Append(q, f)

\* xQueueSend without waiting: a full queue drops the frame.
Put(q, f) == IF Len(q) < QueueDepth THEN Append(q, f) ELSE q

(***************************** radio ***************************************)

\* Mutant of Arrive: a plain frame is let in whatever the mode.
ArriveAnyMode(a) ==
    /\ Running /\ arrivals < MaxFrames /\ arrivals' = arrivals + 1
    /\ LET f == [air |-> a, good |-> a.ok, id |-> arrivals', epoch |-> epoch] IN
       /\ inbound'  = IF a.kind = "plain" THEN Put(inbound, f) ELSE inbound
       /\ decryptQ' = IF a.kind = "cipher" /\ keyOn THEN Put(decryptQ, f) ELSE decryptQ
    /\ UNCHANGED <<keyVars, dec, decAt, cur, handled, table, pc, snd, halted, sets, sends, last>>

\* lownet_inbound_handler: the frame's size must fit the current mode.
Arrive(a) ==
    /\ Running /\ arrivals < MaxFrames /\ arrivals' = arrivals + 1
    /\ LET f == [air |-> a, good |-> a.ok, id |-> arrivals', epoch |-> epoch] IN
       /\ inbound'  = IF a.kind = "plain" /\ ~keyOn THEN Put(inbound, f) ELSE inbound
       /\ decryptQ' = IF a.kind = "cipher" /\ keyOn THEN Put(decryptQ, f) ELSE decryptQ
    /\ UNCHANGED <<keyVars, dec, decAt, cur, handled, table, pc, snd, halted, sets, sends, last>>

(***************************** dec *****************************************)

\* Mutant of TakeCipher: the frame stays in the queue.
PeekCipher ==
    /\ Running /\ dec = NoFrame /\ decryptQ # <<>>
    /\ dec' = Head(decryptQ) /\ decAt' = "ask"
    /\ UNCHANGED <<keyVars, decryptQ, inbound, cur, arrivals, handled, table, pc, snd,
                   halted, sets, sends, last>>

TakeCipher ==
    /\ Running /\ dec = NoFrame /\ decryptQ # <<>>
    /\ dec' = Head(decryptQ) /\ decryptQ' = Tail(decryptQ) /\ decAt' = "ask"
    /\ UNCHANGED <<keyVars, inbound, cur, arrivals, handled, table, pc, snd, halted,
                   sets, sends, last>>

\* net_system.decrypt asks for the key and does not test the answer, ...
DecryptKey ==
    /\ Running /\ dec # NoFrame /\ decAt = "ask"
    /\ decAt' = IF keyOn THEN "bytes" ELSE "null"
    /\ UNCHANGED <<keyVars, decryptQ, inbound, dec, cur, arrivals, handled, table, pc, snd,
                   halted, sets, sends, last>>

\* ... reads the key's bytes, whatever the size is by then, ...
Decrypt ==
    /\ Running /\ dec # NoFrame /\ decAt = "bytes"
    /\ dec' = [dec EXCEPT !.good = @ /\ dec.air.key = keyBytes]
    /\ decAt' = "plain"
    /\ UNCHANGED <<keyVars, decryptQ, inbound, cur, arrivals, handled, table, pc, snd,
                   halted, sets, sends, last>>

DecryptNull ==
    /\ Running /\ dec # NoFrame /\ decAt = "null"
    /\ halted' = "null key"
    /\ UNCHANGED <<keyVars, rxVars, table, pc, snd, sets, sends, last>>

\* ... and the plain frame goes to inbound.
Forward ==
    /\ Running /\ dec # NoFrame /\ decAt = "plain"
    /\ inbound' = Put(inbound, dec)
    /\ dec' = NoFrame /\ decAt' = "ask"
    /\ UNCHANGED <<keyVars, decryptQ, cur, arrivals, handled, table, pc, snd, halted,
                   sets, sends, last>>

(***************************** svc *****************************************)

\* Mutant of TakeInbound: the frame stays in the queue.
PeekInbound ==
    /\ Running /\ cur = NoFrame /\ snd["svc"] = Idle /\ inbound # <<>>
    /\ cur' = Head(inbound)
    /\ UNCHANGED <<keyVars, inbound, decryptQ, dec, decAt, arrivals, handled, table, pc, snd,
                   halted, sets, sends, last>>

TakeInbound ==
    /\ Running /\ cur = NoFrame /\ snd["svc"] = Idle /\ inbound # <<>>
    /\ cur' = Head(inbound) /\ inbound' = Tail(inbound)
    /\ UNCHANGED <<keyVars, decryptQ, dec, decAt, arrivals, handled, table, pc, snd, halted,
                   sets, sends, last>>

\* Mutant of Valid: frames to the broadcast address are not for this node.
ValidUnicast(f) == f.good /\ f.air.src # "all" /\ f.air.dst = "me"

\* Magic and CRC, source, destination, a registered handler.
Valid(f) == f.good /\ f.air.src # "all" /\ f.air.dst # "other"

HasHandler(p) == \E i \in 1..Len(table) : table[i] = p

\* Mutant of Discard: a frame for another node is not skipped.
DiscardDamaged ==
    /\ Running /\ cur # NoFrame
    /\ ~cur.good \/ ~HasHandler(cur.air.proto)
    /\ cur' = NoFrame
    /\ UNCHANGED <<keyVars, inbound, decryptQ, dec, decAt, arrivals, handled, table, pc, snd,
                   halted, sets, sends, last>>

Discard ==
    /\ Running /\ cur # NoFrame
    /\ ~Valid(cur) \/ ~HasHandler(cur.air.proto)
    /\ cur' = NoFrame
    /\ UNCHANGED <<keyVars, inbound, decryptQ, dec, decAt, arrivals, handled, table, pc, snd,
                   halted, sets, sends, last>>

\* The handler runs in this task; it may call lownet_send once (ping_receive
\* and crane_receive do).
Handle(replies) ==
    /\ Running /\ cur # NoFrame
    /\ Valid(cur) /\ HasHandler(cur.air.proto)
    /\ handled' = [handled EXCEPT ![cur.air.kind] = Append(@, cur)]
    /\ cur' = NoFrame
    /\ snd' = IF replies THEN [snd EXCEPT !["svc"] = [at |-> "check", epoch |-> epoch]]
                         ELSE snd
    /\ UNCHANGED <<keyVars, inbound, decryptQ, dec, decAt, arrivals, table, pc, halted,
                   sets, sends, last>>

(***************************** lownet_send *********************************)

\* A frame longer than the payload is not sent.  Only ping_receive copies a
\* length from the air; main's frames are short enough.
TooLong ==
    /\ Running /\ snd["svc"].at = "check"
    /\ snd' = [snd EXCEPT !["svc"] = Idle]
    /\ UNCHANGED <<keyVars, rxVars, table, pc, halted, sets, sends, last>>

\* Mutant of CheckKey: every frame is encrypted.
EncryptAlways(t) ==
    /\ Running /\ snd[t].at = "check"
    /\ snd' = [snd EXCEPT ![t].at = "encrypt"]
    /\ UNCHANGED <<keyVars, rxVars, table, pc, halted, sets, sends, last>>

\* lownet_get_key() != NULL chooses the branch ...
CheckKey(t) ==
    /\ Running /\ snd[t].at = "check"
    /\ snd' = [snd EXCEPT ![t].at = IF keyOn THEN "encrypt" ELSE "clear"]
    /\ UNCHANGED <<keyVars, rxVars, table, pc, halted, sets, sends, last>>

Settled == pc \notin {"copy", "copied"}
Calm(t) == snd[t].epoch = epoch /\ Settled

Transmit(t, bytes) ==
    /\ last' = [key |-> bytes, want |-> selected, calm |-> Calm(t)]
    /\ snd' = [snd EXCEPT ![t] = Idle]
    /\ pc' = IF t = "main" THEN "cli" ELSE pc
    /\ UNCHANGED <<keyVars, rxVars, table, halted, sets, sends>>

SendClear(t) == Running /\ snd[t].at = "clear" /\ Transmit(t, "none")

\* ... and crypt_encrypt asks for the key again, without a test, ...
EncryptKey(t) ==
    /\ Running /\ snd[t].at = "encrypt"
    /\ snd' = [snd EXCEPT ![t].at = IF keyOn THEN "bytes" ELSE "null"]
    /\ UNCHANGED <<keyVars, rxVars, table, pc, halted, sets, sends, last>>

\* ... and reads its bytes.
Encrypt(t) == Running /\ snd[t].at = "bytes" /\ Transmit(t, keyBytes)

EncryptNull(t) ==
    /\ Running /\ snd[t].at = "null"
    /\ halted' = "null key"
    /\ UNCHANGED <<keyVars, rxVars, table, pc, snd, sets, sends, last>>

(***************************** main ****************************************)

\* chat_init, ping_init, crane_init: lownet_register_protocol.
Register ==
    /\ Running /\ pc = "register" /\ Len(table) < Len(Registered)
    /\ table' = Append(table, Registered[Len(table) + 1])
    /\ pc' = IF Len(table') = Len(Registered) THEN "cli" ELSE pc
    /\ UNCHANGED <<keyVars, rxVars, snd, halted, sets, sends, last>>

\* A console command that sends a frame.
MainSend ==
    /\ Running /\ pc = "cli" /\ sends < MaxSends
    /\ sends' = sends + 1 /\ pc' = "send"
    /\ snd' = [snd EXCEPT !["main"] = [at |-> "check", epoch |-> epoch]]
    /\ UNCHANGED <<keyVars, rxVars, table, halted, sets, last>>

SetKey(a) == Running /\ pc = "cli" /\ a \in KeyArgs /\ sets < MaxSets /\ sets' = sets + 1

\* /setkey: lownet_set_key(NULL).
SetOff ==
    /\ SetKey("none")
    /\ keyOn' = FALSE /\ selected' = "none" /\ epoch' = epoch + 1
    /\ UNCHANGED <<keyBytes, newKey, rxVars, table, pc, snd, halted, sends, last>>

\* lownet_set_key(k): the size first ...
SetOn(k) ==
    /\ keyOn' = TRUE /\ newKey' = k /\ pc' = "copy" /\ epoch' = epoch + 1
    /\ UNCHANGED <<keyBytes, selected, rxVars, table, snd, halted, sends, last>>

SetStored(a) == SetKey(a) /\ a \in DOMAIN Stored /\ SetOn(Stored[a])

\* What the user named with it: bytes that nobody set stand in for a key
\* that was typed.
Named(k) == IF k = "junk" THEN "typed" ELSE k

\* /setkey with any other argument, a key to be parsed, passes an
\* uninitialised one: its size is refused, or its bytes are copied, or its
\* pointer is followed.
SetUnknown ==
    /\ SetKey("other")
    /\ \/ /\ selected' = "typed"
          /\ UNCHANGED <<keyOn, keyBytes, newKey, epoch, rxVars, table, pc, snd, halted,
                         sends, last>>
       \/ SetOn("junk")
       \/ /\ halted' = "wild key"
          /\ UNCHANGED <<keyVars, rxVars, table, pc, snd, sends, last>>

\* Mutant of Copy: memcpy stops at the size of a pointer.
CopyPart ==
    /\ Running
    /\ \/ pc = "copy" /\ pc' = "copied" /\ keyBytes' = "torn" /\ UNCHANGED selected
       \/ pc = "copied" /\ pc' = "cli" /\ selected' = Named(newKey) /\ UNCHANGED keyBytes
    /\ epoch' = epoch + 1
    /\ UNCHANGED <<keyOn, newKey, rxVars, table, snd, halted, sets, sends, last>>

\* ... and then memcpy, part by part.
Copy ==
    /\ Running
    /\ \/ pc = "copy" /\ pc' = "copied" /\ keyBytes' = "torn" /\ UNCHANGED selected
       \/ pc = "copied" /\ pc' = "cli" /\ keyBytes' = newKey /\ selected' = Named(newKey)
    /\ epoch' = epoch + 1
    /\ UNCHANGED <<keyOn, newKey, rxVars, table, snd, halted, sets, sends, last>>

(***************************** specification *******************************)

Init ==
    /\ keyOn = FALSE /\ keyBytes = "zero" /\ newKey = "zero" /\ table = <<>>
    /\ inbound = <<>> /\ decryptQ = <<>> /\ dec = NoFrame /\ decAt = "ask" /\ cur = NoFrame
    /\ pc = "register" /\ snd = [t \in Senders |-> Idle] /\ halted = "no"
    /\ arrivals = 0 /\ handled = [k \in Kinds |-> <<>>] /\ selected = "none" /\ epoch = 0
    /\ sets = 0 /\ sends = 0 /\ last = [key |-> "none", want |-> "none", calm |-> TRUE]

Dec     == TakeCipher \/ DecryptKey \/ Decrypt \/ DecryptNull \/ Forward
Send(t) == CheckKey(t) \/ SendClear(t) \/ EncryptKey(t) \/ Encrypt(t) \/ EncryptNull(t)
Svc     == TakeInbound \/ Discard \/ (\E r \in BOOLEAN : Handle(r)) \/ TooLong \/ Send("svc")
Main    == Register \/ Copy \/ Send("main")
Console == MainSend \/ SetOff \/ (\E a \in {"0", "1"} : SetStored(a)) \/ SetUnknown

Next == (\E a \in Arrivals : Arrive(a)) \/ Dec \/ Svc \/ Main \/ Console

Spec == Init /\ [][Next]_vars

\* The scheduler runs every task that is ready; nothing makes the air
\* deliver a frame or the user type a command.
FairSpec == Spec /\ WF_vars(Dec) /\ WF_vars(Svc) /\ WF_vars(Main)

(***************************** properties **********************************)

TypeOK ==
    /\ keyOn \in BOOLEAN /\ keyBytes \in KeyBytes /\ newKey \in KeyBytes
    /\ table \in Seq(Nat) /\ Len(table) <= Len(Registered)
    /\ inbound \in Seq(Queued) /\ Len(inbound) <= QueueDepth
    /\ decryptQ \in Seq(Queued) /\ Len(decryptQ) <= QueueDepth
    /\ dec \in Queued /\ decAt \in {"ask", "bytes", "null", "plain"} /\ cur \in Queued
    /\ pc \in {"register", "cli", "send", "copy", "copied"}
    /\ snd \in [Senders -> [at : {"idle", "check", "clear", "encrypt", "bytes", "null"}, epoch : Nat]]
    /\ halted \in {"no", "null key", "wild key"}
    /\ arrivals \in 0..MaxFrames /\ handled \in [Kinds -> Seq(Queued)]
    /\ selected \in KeyBytes \cup {"none", "typed"} /\ epoch \in Nat
    /\ sets \in 0..MaxSets /\ sends \in 0..MaxSends
    /\ last \in [key : KeyBytes \cup {"none"}, want : KeyBytes \cup {"none", "typed"},
                 calm : BOOLEAN]

Members(q) == {q[i] : i \in 1..Len(q)}
Ids(q)     == [i \in 1..Len(q) |-> q[i].id]
Carried    == Members(inbound) \cup Members(decryptQ) \cup ({cur, dec} \ {NoFrame})
OnWay(k)   == {f.id : f \in {g \in Carried : g.air.kind = k}}

\* Plain frames reach their handlers in the order they arrived, none twice
\* and none made up, whatever /setkey does meanwhile (lownet.c, lines
\* 385-425 and 443-446).
Plain == INSTANCE LossyFifo WITH
             top <- arrivals, pending <- OnWay("plain"), delivered <- Ids(handled["plain"])
PlainFifo == Plain!FifoSpec

\* So do encrypted frames, through two queues and two tasks (lownet.c, lines
\* 315-332, 385-425 and 450-451).
Cipher == INSTANCE LossyFifo WITH
              top <- arrivals, pending <- OnWay("cipher"), delivered <- Ids(handled["cipher"])
CipherFifo == Cipher!FifoSpec

\* A frame whose lownet_send did not overlap a change of the key leaves in
\* clear when encryption was switched off and under exactly the stored key
\* that was named last, though the key is looked up twice and its size and
\* bytes are stored apart (lownet.c, lines 231 and 297-298; crypt.c, line
\* 39).  Of a typed key, of which crypt.h, line 13, promises the same,
\* nothing of the kind holds: the code never parses it (SetUnknown).
CalmSend == last.calm /\ last.want # "typed" => last.key = last.want

\* A frame that is intact, for this node and, when encrypted, encrypted with
\* the selected key is never discarded by svc, unless no handler was
\* registered for it or /setkey ran after it arrived (lownet.c, lines 326-331
\* and 393-421).
Sound(a) == a.ok /\ a.src # "all" /\ a.dst # "other"
              /\ (a.kind = "cipher" => a.key = selected)

SoundIsHandled ==
    [][cur # NoFrame /\ cur' = NoFrame /\ Sound(cur.air) /\ HasHandler(cur.air.proto)
         /\ cur.epoch = epoch /\ Settled => handled' # handled]_vars

\* While encryption is on, the only plain frames a handler still sees are
\* those that arrived before the last change of the key: the mode is tested
\* once, on arrival, and never again on the way (lownet.c, line 444).
PlainIsOld ==
    [][handled' # handled /\ keyOn /\ cur.air.kind = "plain" => cur.epoch # epoch]_vars

\* The processor follows a null key only after encryption was switched off
\* behind a frame's back (crypt.c, lines 19 and 39).
NullNeedsSetKey ==
    [][halted' = "null key" /\ Running
         => \/ dec # NoFrame /\ dec.epoch # epoch
            \/ \E t \in Senders : snd[t].at = "null" /\ snd[t].epoch # epoch]_vars

\* Every frame that was queued is handled or discarded, unless the processor
\* stops (lownet.c, lines 317 and 385).
Drained == inbound = <<>> /\ decryptQ = <<>> /\ dec = NoFrame /\ cur = NoFrame
Drains == []<>(Drained \/ ~Running)

\* "We have an AES key -- use it to encrypt the frame." (lownet.c, line 232):
\* the key that lownet_send found is there when the frame is encrypted.
KeyIsThere == \A t \in Senders : snd[t].at # "null"
=============================================================================
