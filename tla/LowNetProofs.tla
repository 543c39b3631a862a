---------------------------- MODULE LowNetProofs -----------------------------
(***************************************************************************)
(* What two unlocked lookups of the key guarantee in LowNet, for every set *)
(* of frames, every queue depth and any number of /setkey.  The invariant  *)
(* relates the mode to everything that was decided under it: a frame that  *)
(* arrived, or a lownet_send that tested the key, since the last store of  *)
(* lownet_set_key did so in the mode of now.                               *)
(*                                                                         *)
(* Then the receive path: the frames of one kind stand in its queues and   *)
(* tasks in the order they arrived, so it is a lossy queue for each kind,  *)
(* and what the CRC says of a frame of this epoch is what it should say.   *)
(***************************************************************************)
EXTENDS LowNet, SequenceTheorems, TLAPS

\* Outside lownet_set_key the key in use is the one selected, unless that
\* was typed.
KeyInv ==
    /\ Settled /\ keyOn => keyBytes = selected \/ selected = "typed"
    /\ ~keyOn => selected \in {"none", "typed"} /\ Settled

\* The branch lownet_send took is that of the mode, unless the key changed.
SendInv ==
    /\ \A t \in Senders :
          /\ snd[t].epoch <= epoch
          /\ snd[t].at = "clear" /\ snd[t].epoch = epoch => ~keyOn
          /\ snd[t].at \in {"encrypt", "bytes"} /\ snd[t].epoch = epoch => keyOn
          /\ snd[t].at = "null" => snd[t].epoch # epoch
    /\ snd["main"].at # "idle" => pc = "send"

\* A frame that arrived in epoch e was let in under the mode on.
Fresh(f, e, on) == f.epoch <= e /\ (f.epoch = e => (on <=> f.air.kind = "cipher"))

FrameInv ==
    /\ \A i \in 1..Len(inbound) : Fresh(inbound[i], epoch, keyOn)
    /\ \A i \in 1..Len(decryptQ) :
          Fresh(decryptQ[i], epoch, keyOn) /\ decryptQ[i].air.kind = "cipher"
    /\ dec # NoFrame => Fresh(dec, epoch, keyOn) /\ dec.air.kind = "cipher"
    /\ dec # NoFrame /\ decAt = "null" => dec.epoch # epoch
    /\ cur # NoFrame => Fresh(cur, epoch, keyOn)

KeyTypes ==
    /\ keyOn \in BOOLEAN /\ keyBytes \in KeyBytes /\ newKey \in KeyBytes
    /\ selected \in KeyBytes \cup {"none", "typed"} /\ epoch \in Nat /\ sets \in 0..MaxSets

RxTypes ==
    /\ inbound \in Seq(Queued) /\ Len(inbound) <= QueueDepth
    /\ decryptQ \in Seq(Queued) /\ Len(decryptQ) <= QueueDepth
    /\ dec \in Queued /\ decAt \in {"ask", "bytes", "null", "plain"} /\ cur \in Queued
    /\ arrivals \in 0..MaxFrames /\ handled \in [Kinds -> Seq(Queued)]

MainTypes ==
    /\ table \in Seq(Nat) /\ Len(table) <= Len(Registered)
    /\ pc \in {"register", "cli", "send", "copy", "copied"}
    /\ halted \in {"no", "null key", "wild key"} /\ sends \in 0..MaxSends

SendTypes ==
    /\ snd \in [Senders -> [at : {"idle", "check", "clear", "encrypt", "bytes", "null"}, epoch : Nat]]
    /\ last \in [key : KeyBytes \cup {"none"}, want : KeyBytes \cup {"none", "typed"},
                 calm : BOOLEAN]

Types == KeyTypes /\ RxTypes /\ MainTypes /\ SendTypes
IInv  == Types /\ KeyInv /\ SendInv /\ FrameInv /\ CalmSend

LEMMA TypeParts == Types => TypeOK
BY DEF Types, TypeOK, KeyTypes, RxTypes, MainTypes, SendTypes

LEMMA NoFrameQueued == NoFrame \in Queued
BY DEF NoFrame, Queued, AirFrame, Kinds, KeyBytes

LEMMA InitIInv == Init => IInv
<1> SUFFICES ASSUME Init PROVE IInv
  OBVIOUS
<1> USE NetAssumption DEF Init
<1>1. KeyTypes
  <2>1. keyOn \in BOOLEAN
    OBVIOUS
  <2>2. /\ keyBytes \in KeyBytes /\ newKey \in KeyBytes
        /\ selected \in KeyBytes \cup {"none", "typed"}
    BY DEF KeyBytes
  <2>3. epoch \in Nat /\ sets \in 0..MaxSets
    OBVIOUS
  <2> QED
    BY ONLY <2>1, <2>2, <2>3 DEF KeyTypes
<1>2. RxTypes
  BY NoFrameQueued DEF RxTypes
<1>3. MainTypes
  BY LenProperties DEF MainTypes
<1>4. SendTypes
  BY DEF SendTypes, Idle, KeyBytes
<1>5. KeyInv
  BY DEF KeyInv, Settled
<1>6. SendInv
  BY DEF SendInv, Idle, Senders
<1>7. FrameInv
  BY DEF FrameInv
<1>8. CalmSend
  BY DEF CalmSend
<1> QED
  BY <1>1, <1>2, <1>3, <1>4, <1>5, <1>6, <1>7, <1>8 DEF IInv, Types

\* xQueueSend without waiting: the depth holds, and so does what holds of the
\* queue and of the new frame.
LEMMA PutProperties ==
    ASSUME NEW q \in Seq(Queued), NEW f \in Queued, Len(q) <= QueueDepth
    PROVE  /\ Put(q, f) \in Seq(Queued) /\ Len(Put(q, f)) <= QueueDepth
           /\ \A i \in 1..Len(Put(q, f)) :
                 \/ i \in 1..Len(q) /\ Put(q, f)[i] = q[i]
                 \/ Put(q, f)[i] = f
<1>1. CASE Len(q) < QueueDepth
  BY <1>1, AppendProperties, LenProperties, NetAssumption DEF Put
<1>2. CASE ~(Len(q) < QueueDepth)
  BY <1>2 DEF Put
<1> QED
  BY <1>1, <1>2

\* Taking the head leaves frames that were there.
LEMMA TakeProperties ==
    ASSUME NEW q \in Seq(Queued), q # <<>>, Len(q) <= QueueDepth
    PROVE  /\ Head(q) \in Queued /\ Tail(q) \in Seq(Queued) /\ Len(Tail(q)) <= QueueDepth
           /\ 1 \in 1..Len(q) /\ Head(q) = q[1]
           /\ \A i \in 1..Len(Tail(q)) : i + 1 \in 1..Len(q) /\ Tail(q)[i] = q[i + 1]
<1>1. Len(q) \in Nat /\ Len(q) >= 1 /\ QueueDepth \in Nat
  BY LenProperties, EmptySeq, NetAssumption
<1>2. /\ Head(q) \in Queued /\ Tail(q) \in Seq(Queued) /\ Len(Tail(q)) = Len(q) - 1
      /\ \A i \in 1..Len(Tail(q)) : Tail(q)[i] = q[i + 1]
  BY HeadTailProperties
<1> QED
  BY <1>1, <1>2

(***************************** radio and receive path **********************)

\* A step of the receive path leaves the key, the senders and main alone.
LEMMA RxKeepsRest ==
    ASSUME IInv, UNCHANGED <<keyVars, table, pc, snd, sets, sends, last>>,
           halted' \in {"no", "null key", "wild key"}, RxTypes', FrameInv'
    PROVE  IInv'
<1> USE DEF keyVars
<1>1. KeyTypes' /\ MainTypes' /\ SendTypes'
  BY DEF IInv, Types, KeyTypes, MainTypes, SendTypes
<1>2. KeyInv' /\ SendInv'
  BY DEF IInv, KeyInv, SendInv, Settled
<1>3. CalmSend'
  BY DEF IInv, CalmSend
<1> QED
  BY <1>1, <1>2, <1>3 DEF IInv, Types

LEMMA ArriveKeepsIInv == ASSUME IInv, NEW a \in Arrivals, Arrive(a) PROVE IInv'
<1> DEFINE f == [air |-> a, good |-> a.ok, id |-> arrivals', epoch |-> epoch]
<1>0. RxTypes /\ epoch \in Nat /\ keyOn \in BOOLEAN /\ FrameInv
  BY DEF IInv, Types, KeyTypes
<1>1. arrivals' \in 0..MaxFrames
  BY <1>0, NetAssumption DEF Arrive, RxTypes
<1>2. f \in Queued
  BY <1>0, <1>1, NetAssumption DEF Queued, AirFrame
<1>3. /\ inbound' = IF a.kind = "plain" /\ ~keyOn THEN Put(inbound, f) ELSE inbound
      /\ decryptQ' = IF a.kind = "cipher" /\ keyOn THEN Put(decryptQ, f) ELSE decryptQ
      /\ UNCHANGED <<keyVars, dec, decAt, cur, handled, table, pc, snd, halted, sets, sends, last>>
  BY DEF Arrive
<1>4. /\ inbound' \in Seq(Queued) /\ Len(inbound') <= QueueDepth
      /\ decryptQ' \in Seq(Queued) /\ Len(decryptQ') <= QueueDepth
  BY <1>0, <1>2, <1>3, PutProperties DEF RxTypes
<1>5. RxTypes'
  BY <1>0, <1>1, <1>3, <1>4 DEF RxTypes
<1>6. epoch' = epoch /\ (keyOn' <=> keyOn)
  BY <1>3 DEF keyVars
<1>7. \A i \in 1..Len(inbound') : Fresh(inbound'[i], epoch, keyOn)
  <2>1. CASE a.kind = "plain" /\ ~keyOn
    <3>1. Fresh(f, epoch, keyOn)
      BY <1>0, <2>1 DEF Fresh
    <3> QED
      BY <1>0, <1>2, <1>3, <2>1, <3>1, PutProperties DEF FrameInv, RxTypes
  <2>2. CASE ~(a.kind = "plain" /\ ~keyOn)
    BY <1>0, <1>3, <2>2 DEF FrameInv
  <2> QED
    BY <2>1, <2>2
<1>8. \A i \in 1..Len(decryptQ') :
         Fresh(decryptQ'[i], epoch, keyOn) /\ decryptQ'[i].air.kind = "cipher"
  <2>1. CASE a.kind = "cipher" /\ keyOn
    <3>1. Fresh(f, epoch, keyOn) /\ f.air.kind = "cipher"
      BY <1>0, <2>1 DEF Fresh
    <3> QED
      BY <1>0, <1>2, <1>3, <2>1, <3>1, PutProperties DEF FrameInv, RxTypes
  <2>2. CASE ~(a.kind = "cipher" /\ keyOn)
    BY <1>0, <1>3, <2>2 DEF FrameInv
  <2> QED
    BY <2>1, <2>2
<1>9. FrameInv'
  BY <1>0, <1>3, <1>6, <1>7, <1>8 DEF FrameInv, Fresh
<1> QED
  BY <1>0, <1>3, <1>5, <1>9, RxKeepsRest DEF IInv, Types, MainTypes

LEMMA DecKeepsIInv == IInv /\ Dec => IInv'
<1> SUFFICES ASSUME IInv, Dec PROVE IInv'
  OBVIOUS
<1>0. RxTypes /\ epoch \in Nat /\ keyOn \in BOOLEAN /\ FrameInv /\ keyBytes \in KeyBytes
      /\ halted \in {"no", "null key", "wild key"}
  BY DEF IInv, Types, KeyTypes, MainTypes
<1>1. CASE TakeCipher
  <2>1. /\ dec' = Head(decryptQ) /\ decryptQ' = Tail(decryptQ) /\ decryptQ # <<>>
        /\ decAt' = "ask"
        /\ UNCHANGED <<keyVars, inbound, cur, arrivals, handled, table, pc, snd, halted,
                       sets, sends, last>>
    BY <1>1 DEF TakeCipher
  <2>2. RxTypes'
    BY <1>0, <2>1, TakeProperties DEF RxTypes
  <2>3. epoch' = epoch /\ (keyOn' <=> keyOn)
    BY <2>1 DEF keyVars
  <2>4. Fresh(dec', epoch, keyOn) /\ dec'.air.kind = "cipher"
    BY <1>0, <2>1, TakeProperties DEF FrameInv, RxTypes
  <2>5. \A i \in 1..Len(decryptQ') :
           Fresh(decryptQ'[i], epoch, keyOn) /\ decryptQ'[i].air.kind = "cipher"
    <3>1. \A i \in 1..Len(Tail(decryptQ)) :
             i + 1 \in 1..Len(decryptQ) /\ Tail(decryptQ)[i] = decryptQ[i + 1]
      BY <1>0, <2>1, TakeProperties DEF RxTypes
    <3>2. \A i \in 1..Len(decryptQ) :
             Fresh(decryptQ[i], epoch, keyOn) /\ decryptQ[i].air.kind = "cipher"
      BY <1>0 DEF FrameInv
    <3>3. \A i \in 1..Len(Tail(decryptQ)) :
             Fresh(Tail(decryptQ)[i], epoch, keyOn) /\ Tail(decryptQ)[i].air.kind = "cipher"
      BY ONLY <3>1, <3>2
    <3> QED
      BY ONLY <2>1, <3>3
  <2>6. FrameInv'
    BY <1>0, <2>1, <2>3, <2>4, <2>5 DEF FrameInv, Fresh
  <2> QED
    BY <1>0, <2>1, <2>2, <2>6, RxKeepsRest
<1>2. CASE DecryptKey
  <2>1. /\ dec # NoFrame
        /\ \/ keyOn /\ decAt' = "bytes"
           \/ ~keyOn /\ decAt' = "null"
        /\ UNCHANGED <<keyVars, decryptQ, inbound, dec, cur, arrivals, handled, table, pc,
                       snd, halted, sets, sends, last>>
    BY <1>2 DEF DecryptKey
  <2>2. RxTypes'
    BY <1>0, <2>1 DEF RxTypes
  <2>3. epoch' = epoch /\ (keyOn' <=> keyOn)
    BY <2>1 DEF keyVars
  <2>4. decAt' = "null" => dec.epoch # epoch
    BY <1>0, <2>1 DEF FrameInv, Fresh
  <2>5. FrameInv'
    BY <1>0, <2>1, <2>3, <2>4 DEF FrameInv, Fresh
  <2> QED
    BY <1>0, <2>1, <2>2, <2>5, RxKeepsRest
<1>3. CASE Decrypt
  <2>1. /\ dec' = [dec EXCEPT !.good = dec.good /\ dec.air.key = keyBytes]
        /\ dec # NoFrame /\ decAt' = "plain"
        /\ UNCHANGED <<keyVars, decryptQ, inbound, cur, arrivals, handled, table, pc, snd,
                       halted, sets, sends, last>>
    BY <1>3 DEF Decrypt
  <2>2. dec' \in Queued /\ dec'.epoch = dec.epoch /\ dec'.air = dec.air
    BY <1>0, <2>1 DEF RxTypes, Queued
  <2>3. RxTypes'
    BY <1>0, <2>1, <2>2 DEF RxTypes
  <2>4. epoch' = epoch /\ (keyOn' <=> keyOn)
    BY <2>1 DEF keyVars
  <2>5. Fresh(dec', epoch, keyOn) /\ dec'.air.kind = "cipher"
    BY <1>0, <2>1, <2>2 DEF FrameInv, Fresh
  <2>6. FrameInv'
    BY <1>0, <2>1, <2>4, <2>5 DEF FrameInv, Fresh
  <2> QED
    BY <1>0, <2>1, <2>3, <2>6, RxKeepsRest
<1>4. CASE Forward
  <2>1. /\ inbound' = Put(inbound, dec) /\ dec' = NoFrame /\ decAt' = "ask" /\ dec # NoFrame
        /\ UNCHANGED <<keyVars, decryptQ, cur, arrivals, handled, table, pc, snd, halted,
                       sets, sends, last>>
    BY <1>4 DEF Forward
  <2>2. RxTypes'
    BY <1>0, <2>1, PutProperties, NoFrameQueued DEF RxTypes
  <2>3. epoch' = epoch /\ (keyOn' <=> keyOn)
    BY <2>1 DEF keyVars
  <2>4. \A i \in 1..Len(inbound') : Fresh(inbound'[i], epoch, keyOn)
    BY <1>0, <2>1, PutProperties DEF FrameInv, RxTypes
  <2>5. FrameInv'
    BY <1>0, <2>1, <2>3, <2>4 DEF FrameInv, Fresh
  <2> QED
    BY <1>0, <2>1, <2>2, <2>5, RxKeepsRest
<1>5. CASE DecryptNull
  <2>1. halted' = "null key" /\ UNCHANGED <<keyVars, rxVars, table, pc, snd, sets, sends, last>>
    BY <1>5 DEF DecryptNull
  <2>2. RxTypes'
    BY <1>0, <2>1 DEF RxTypes, rxVars
  <2>3. FrameInv'
    BY <1>0, <2>1 DEF FrameInv, Fresh, rxVars, keyVars
  <2> QED
    BY <2>1, <2>2, <2>3, RxKeepsRest
<1> QED
  BY <1>1, <1>2, <1>3, <1>4, <1>5 DEF Dec

LEMMA TakeKeepsIInv == IInv /\ (TakeInbound \/ Discard) => IInv'
<1> SUFFICES ASSUME IInv, TakeInbound \/ Discard PROVE IInv'
  OBVIOUS
<1>0. RxTypes /\ epoch \in Nat /\ keyOn \in BOOLEAN /\ FrameInv
      /\ halted \in {"no", "null key", "wild key"}
  BY DEF IInv, Types, KeyTypes, MainTypes
<1>1. CASE TakeInbound
  <2>1. /\ cur' = Head(inbound) /\ inbound' = Tail(inbound) /\ inbound # <<>>
        /\ UNCHANGED <<keyVars, decryptQ, dec, decAt, arrivals, handled, table, pc, snd, halted,
                       sets, sends, last>>
    BY <1>1 DEF TakeInbound
  <2>2. RxTypes'
    BY <1>0, <2>1, TakeProperties DEF RxTypes
  <2>3. epoch' = epoch /\ (keyOn' <=> keyOn)
    BY <2>1 DEF keyVars
  <2>4. Fresh(cur', epoch, keyOn) /\ \A i \in 1..Len(inbound') : Fresh(inbound'[i], epoch, keyOn)
    BY <1>0, <2>1, TakeProperties DEF FrameInv, RxTypes
  <2>5. FrameInv'
    BY <1>0, <2>1, <2>3, <2>4 DEF FrameInv, Fresh
  <2> QED
    BY <1>0, <2>1, <2>2, <2>5, RxKeepsRest
<1>2. CASE Discard
  <2>1. /\ cur' = NoFrame
        /\ UNCHANGED <<keyVars, inbound, decryptQ, dec, decAt, arrivals, handled, table, pc, snd,
                       halted, sets, sends, last>>
    BY <1>2 DEF Discard
  <2>2. RxTypes'
    BY <1>0, <2>1, NoFrameQueued DEF RxTypes
  <2>3. FrameInv'
    BY <1>0, <2>1 DEF FrameInv, Fresh, keyVars
  <2> QED
    BY <1>0, <2>1, <2>2, <2>3, RxKeepsRest
<1> QED
  BY <1>1, <1>2

LEMMA HandleKeepsIInv == ASSUME IInv, NEW r \in BOOLEAN, Handle(r) PROVE IInv'
<1>0. /\ RxTypes /\ KeyTypes /\ MainTypes /\ SendTypes /\ FrameInv
      /\ KeyInv /\ SendInv /\ CalmSend
  BY DEF IInv, Types
<1>1. /\ handled' = [handled EXCEPT ![cur.air.kind] = Append(handled[cur.air.kind], cur)]
      /\ cur' = NoFrame
      /\ \/ snd' = [snd EXCEPT !["svc"] = [at |-> "check", epoch |-> epoch]]
         \/ snd' = snd
      /\ UNCHANGED <<keyVars, inbound, decryptQ, dec, decAt, arrivals, table, pc, halted,
                     sets, sends, last>>
  BY DEF Handle
<1>2. RxTypes'
  <2>1. cur.air.kind \in Kinds /\ handled[cur.air.kind] \in Seq(Queued) /\ cur \in Queued
    BY <1>0 DEF RxTypes, Queued, AirFrame
  <2>2. Append(handled[cur.air.kind], cur) \in Seq(Queued)
    BY <2>1, AppendProperties
  <2>3. handled' \in [Kinds -> Seq(Queued)]
    BY <1>0, <1>1, <2>1, <2>2 DEF RxTypes
  <2> QED
    BY <1>0, <1>1, <2>3, NoFrameQueued DEF RxTypes
<1>3. epoch' = epoch /\ (keyOn' <=> keyOn) /\ epoch \in Nat
  BY <1>0, <1>1 DEF keyVars, KeyTypes
<1>4. FrameInv'
  BY <1>0, <1>1, <1>3 DEF FrameInv, Fresh
<1>5. KeyTypes' /\ KeyInv'
  BY <1>0, <1>1 DEF KeyTypes, KeyInv, Settled, keyVars
<1>6. MainTypes' /\ CalmSend'
  BY <1>0, <1>1 DEF MainTypes, CalmSend
<1>7. SendTypes'
  BY <1>0, <1>1, <1>3 DEF SendTypes, Senders
<1>8. SendInv'
  BY <1>0, <1>1, <1>3 DEF SendTypes, SendInv, Senders
<1> QED
  BY <1>2, <1>4, <1>5, <1>6, <1>7, <1>8 DEF IInv, Types

(***************************** lownet_send *********************************)

\* A step of lownet_send leaves the key and the frames that arrived alone.
LEMMA SendKeepsRest ==
    ASSUME IInv, UNCHANGED <<keyVars, rxVars, table, sets>>,
           MainTypes', SendTypes', SendInv', CalmSend', Settled' <=> Settled
    PROVE  IInv'
<1>0. RxTypes /\ KeyTypes /\ FrameInv /\ KeyInv
  BY DEF IInv, Types
<1>1. KeyTypes' /\ KeyInv'
  BY <1>0 DEF KeyTypes, KeyInv, keyVars
<1>2. RxTypes'
  BY <1>0 DEF RxTypes, rxVars
<1>3. FrameInv'
  BY <1>0 DEF FrameInv, Fresh, rxVars, keyVars
<1> QED
  BY <1>1, <1>2, <1>3 DEF IInv, Types

LEMMA SendKeepsIInv == ASSUME IInv, NEW t \in Senders, Send(t) PROVE IInv'
<1>0. /\ KeyTypes /\ MainTypes /\ SendTypes /\ KeyInv /\ SendInv /\ CalmSend
      /\ epoch \in Nat /\ snd[t].epoch \in Nat
  BY DEF IInv, Types, KeyTypes, SendTypes
<1>1. CASE CheckKey(t)
  <2>1. /\ snd[t].at = "check"
        /\ \/ keyOn /\ snd' = [snd EXCEPT ![t].at = "encrypt"]
           \/ ~keyOn /\ snd' = [snd EXCEPT ![t].at = "clear"]
        /\ UNCHANGED <<keyVars, rxVars, table, pc, halted, sets, sends, last>>
    BY <1>1 DEF CheckKey
  <2>2. MainTypes' /\ CalmSend' /\ (Settled' <=> Settled)
    BY <1>0, <2>1 DEF MainTypes, CalmSend, Settled
  <2>3. SendTypes'
    BY <1>0, <2>1 DEF SendTypes, Senders
  <2>4. epoch' = epoch /\ (keyOn' <=> keyOn) /\ pc' = pc
    BY <2>1 DEF keyVars
  <2>5. SendInv'
    BY <1>0, <2>1, <2>4 DEF SendTypes, SendInv, Senders
  <2> QED
    BY <2>1, <2>2, <2>3, <2>5, SendKeepsRest
<1>2. ASSUME NEW b \in KeyBytes \cup {"none"}, Transmit(t, b),
             Calm(t) /\ selected # "typed" => b = selected, snd[t].at # "idle"
      PROVE  IInv'
  <2>1. /\ last' = [key |-> b, want |-> selected, calm |-> Calm(t)]
        /\ snd' = [snd EXCEPT ![t] = Idle]
        /\ pc' = IF t = "main" THEN "cli" ELSE pc
        /\ UNCHANGED <<keyVars, rxVars, table, halted, sets, sends>>
    BY <1>2 DEF Transmit
  <2>2. MainTypes'
    BY <1>0, <2>1 DEF MainTypes
  <2>3. CalmSend'
    BY <1>2, <2>1 DEF CalmSend
  <2>4. last' \in [key : KeyBytes \cup {"none"}, want : KeyBytes \cup {"none", "typed"},
                   calm : BOOLEAN]
    <3>1. Calm(t) \in BOOLEAN /\ selected \in KeyBytes \cup {"none", "typed"}
      BY <1>0 DEF Calm, KeyTypes
    <3> QED
      BY <1>2, <2>1, <3>1
  <2>5. SendTypes'
    BY <1>0, <2>1, <2>4 DEF SendTypes, Idle
  <2>6. epoch' = epoch /\ (keyOn' <=> keyOn)
    BY <2>1 DEF keyVars
  <2>7. Settled' <=> Settled
    BY <1>0, <1>2, <2>1 DEF SendInv, Settled
  <2>8. SendInv'
    BY <1>0, <2>1, <2>6 DEF SendTypes, SendInv, Senders, Idle
  <2> QED
    BY <2>1, <2>2, <2>3, <2>5, <2>7, <2>8, SendKeepsRest
<1>3. CASE SendClear(t)
  <2>1. snd[t].at = "clear" /\ Transmit(t, "none")
    BY <1>3 DEF SendClear
  <2>2. Calm(t) /\ selected # "typed" => "none" = selected
    BY <1>0, <2>1 DEF Calm, SendInv, KeyInv
  <2> QED
    BY <1>2, <2>1, <2>2
<1>4. CASE EncryptKey(t)
  <2>1. /\ snd[t].at = "encrypt"
        /\ \/ keyOn /\ snd' = [snd EXCEPT ![t].at = "bytes"]
           \/ ~keyOn /\ snd' = [snd EXCEPT ![t].at = "null"]
        /\ UNCHANGED <<keyVars, rxVars, table, pc, halted, sets, sends, last>>
    BY <1>4 DEF EncryptKey
  <2>2. MainTypes' /\ CalmSend' /\ (Settled' <=> Settled)
    BY <1>0, <2>1 DEF MainTypes, CalmSend, Settled
  <2>3. SendTypes'
    BY <1>0, <2>1 DEF SendTypes, Senders
  <2>4. epoch' = epoch /\ (keyOn' <=> keyOn) /\ pc' = pc
    BY <2>1 DEF keyVars
  <2>5. ~keyOn => snd[t].epoch # epoch
    BY <1>0, <2>1 DEF SendInv
  <2>6. SendInv'
    BY <1>0, <2>1, <2>4, <2>5 DEF SendTypes, SendInv, Senders
  <2> QED
    BY <2>1, <2>2, <2>3, <2>6, SendKeepsRest
<1>5. CASE Encrypt(t)
  <2>1. snd[t].at = "bytes" /\ Transmit(t, keyBytes)
    BY <1>5 DEF Encrypt
  <2>2. Calm(t) /\ selected # "typed" => keyBytes = selected
    BY <1>0, <2>1 DEF Calm, SendInv, KeyInv
  <2>3. keyBytes \in KeyBytes \cup {"none"}
    BY <1>0 DEF KeyTypes
  <2> QED
    BY <1>2, <2>1, <2>2, <2>3
<1>6. CASE EncryptNull(t)
  <2>1. halted' = "null key" /\ UNCHANGED <<keyVars, rxVars, table, pc, snd, sets, sends, last>>
    BY <1>6 DEF EncryptNull
  <2>2. MainTypes' /\ SendTypes' /\ CalmSend' /\ (Settled' <=> Settled)
    BY <1>0, <2>1 DEF MainTypes, SendTypes, CalmSend, Settled
  <2>3. SendInv'
    BY <1>0, <2>1 DEF SendInv, keyVars
  <2> QED
    BY <2>1, <2>2, <2>3, SendKeepsRest
<1> QED
  BY <1>1, <1>3, <1>4, <1>5, <1>6 DEF Send

LEMMA TooLongKeepsIInv == IInv /\ TooLong => IInv'
<1> SUFFICES ASSUME IInv, TooLong PROVE IInv'
  OBVIOUS
<1>0. MainTypes /\ SendTypes /\ SendInv /\ CalmSend
  BY DEF IInv, Types
<1>1. /\ snd' = [snd EXCEPT !["svc"] = Idle]
      /\ UNCHANGED <<keyVars, rxVars, table, pc, halted, sets, sends, last>>
  BY DEF TooLong
<1>2. MainTypes' /\ CalmSend' /\ (Settled' <=> Settled)
  BY <1>0, <1>1 DEF MainTypes, CalmSend, Settled
<1>3. SendTypes'
  BY <1>0, <1>1 DEF SendTypes, Senders, Idle
<1>4. epoch' = epoch /\ (keyOn' <=> keyOn) /\ epoch \in Nat
  BY <1>1 DEF keyVars, IInv, Types, KeyTypes
<1>5. SendInv'
  BY <1>0, <1>1, <1>4 DEF SendTypes, SendInv, Senders, Idle
<1> QED
  BY <1>1, <1>2, <1>3, <1>5, SendKeepsRest

(***************************** main ****************************************)

LEMMA RegisterKeepsIInv == IInv /\ Register => IInv'
<1> SUFFICES ASSUME IInv, Register PROVE IInv'
  OBVIOUS
<1>0. /\ KeyTypes /\ RxTypes /\ MainTypes /\ SendTypes
      /\ KeyInv /\ SendInv /\ FrameInv /\ CalmSend
  BY DEF IInv, Types
<1>1. /\ pc = "register" /\ Len(table) < Len(Registered)
      /\ table' = Append(table, Registered[Len(table) + 1])
      /\ pc' \in {"register", "cli"}
      /\ UNCHANGED <<keyVars, rxVars, snd, halted, sets, sends, last>>
  BY DEF Register
<1>2. KeyTypes' /\ KeyInv'
  BY <1>0, <1>1 DEF KeyTypes, KeyInv, Settled, keyVars
<1>3. RxTypes'
  BY <1>0, <1>1 DEF RxTypes, rxVars
<1>4. FrameInv'
  BY <1>0, <1>1 DEF FrameInv, Fresh, rxVars, keyVars
<1>5. table' \in Seq(Nat) /\ Len(table') <= Len(Registered)
  <2>1. Len(table) \in Nat /\ Len(Registered) \in Nat
    BY <1>0, NetAssumption, LenProperties DEF MainTypes
  <2>2. Registered[Len(table) + 1] \in Nat
    BY <1>1, <2>1, NetAssumption, ElementOfSeq
  <2>3. /\ Append(table, Registered[Len(table) + 1]) \in Seq(Nat)
        /\ Len(Append(table, Registered[Len(table) + 1])) = Len(table) + 1
    BY <1>0, <2>2, AppendProperties DEF MainTypes
  <2> QED
    BY <1>1, <2>1, <2>3
<1>6. MainTypes' /\ SendTypes' /\ CalmSend'
  <2>1. MainTypes'
    BY <1>0, <1>1, <1>5 DEF MainTypes
  <2>2. SendTypes' /\ CalmSend'
    BY <1>0, <1>1 DEF SendTypes, CalmSend
  <2> QED
    BY <2>1, <2>2
<1>7. SendInv'
  BY <1>0, <1>1 DEF SendInv, keyVars
<1> QED
  BY <1>2, <1>3, <1>4, <1>6, <1>7 DEF IInv, Types

LEMMA MainSendKeepsIInv == IInv /\ MainSend => IInv'
<1> SUFFICES ASSUME IInv, MainSend PROVE IInv'
  OBVIOUS
<1>0. /\ MainTypes /\ SendTypes /\ SendInv /\ CalmSend /\ epoch \in Nat
  BY DEF IInv, Types, KeyTypes
<1>1. /\ pc = "cli" /\ sends < MaxSends /\ sends' = sends + 1 /\ pc' = "send"
      /\ snd' = [snd EXCEPT !["main"] = [at |-> "check", epoch |-> epoch]]
      /\ UNCHANGED <<keyVars, rxVars, table, halted, sets, last>>
  BY DEF MainSend
<1>2. MainTypes' /\ CalmSend' /\ (Settled' <=> Settled)
  <2>1. sends' \in 0..MaxSends
    <3>1. sends \in 0..MaxSends /\ MaxSends \in Nat
      BY <1>0, NetAssumption DEF MainTypes
    <3> QED
      BY <1>1, <3>1
  <2>2. MainTypes'
    BY <1>0, <1>1, <2>1 DEF MainTypes
  <2>3. CalmSend' /\ (Settled' <=> Settled)
    BY <1>0, <1>1 DEF CalmSend, Settled
  <2> QED
    BY <2>2, <2>3
<1>3. SendTypes'
  BY <1>0, <1>1 DEF SendTypes, Senders
<1>4. epoch' = epoch /\ (keyOn' <=> keyOn)
  BY <1>1 DEF keyVars
<1>5. SendInv'
  BY <1>0, <1>1, <1>4 DEF SendTypes, SendInv, Senders
<1> QED
  BY <1>1, <1>2, <1>3, <1>5, SendKeepsRest

\* A store of lownet_set_key makes everything decided before it old.
LEMMA StoreKeepsRest ==
    ASSUME IInv, UNCHANGED <<rxVars, snd, last>>, epoch' = epoch + 1,
           snd["main"].at = "idle", KeyTypes', MainTypes', KeyInv'
    PROVE  IInv'
<1>0. /\ RxTypes /\ SendTypes /\ SendInv /\ FrameInv /\ CalmSend /\ epoch \in Nat
  BY DEF IInv, Types, KeyTypes
<1>1. RxTypes' /\ SendTypes' /\ CalmSend'
  BY <1>0 DEF RxTypes, SendTypes, CalmSend, rxVars
<1>2. SendInv'
  <2>1. \A t \in Senders : snd[t].epoch \in Nat /\ snd[t].epoch <= epoch
    BY <1>0 DEF SendTypes, SendInv
  <2> QED
    BY <1>0, <2>1 DEF SendInv
<1>3. \A f \in Queued :
         Fresh(f, epoch, keyOn) => Fresh(f, epoch', keyOn') /\ f.epoch # epoch'
  BY <1>0 DEF Fresh, Queued
<1>4. FrameInv'
  <2>1. /\ \A i \in 1..Len(inbound) : inbound[i] \in Queued
        /\ \A i \in 1..Len(decryptQ) : decryptQ[i] \in Queued
        /\ dec \in Queued /\ cur \in Queued
    BY <1>0, ElementOfSeq DEF RxTypes
  <2>2. /\ inbound' = inbound /\ decryptQ' = decryptQ
        /\ dec' = dec /\ decAt' = decAt /\ cur' = cur
    BY DEF rxVars
  <2>3. /\ \A i \in 1..Len(inbound) : Fresh(inbound[i], epoch, keyOn)
        /\ \A i \in 1..Len(decryptQ) :
              Fresh(decryptQ[i], epoch, keyOn) /\ decryptQ[i].air.kind = "cipher"
        /\ dec # NoFrame => Fresh(dec, epoch, keyOn) /\ dec.air.kind = "cipher"
        /\ cur # NoFrame => Fresh(cur, epoch, keyOn)
    BY <1>0 DEF FrameInv
  <2>4. /\ \A i \in 1..Len(inbound) : Fresh(inbound[i], epoch', keyOn')
        /\ \A i \in 1..Len(decryptQ) :
              Fresh(decryptQ[i], epoch', keyOn') /\ decryptQ[i].air.kind = "cipher"
        /\ dec # NoFrame => Fresh(dec, epoch', keyOn') /\ dec.air.kind = "cipher"
        /\ dec # NoFrame => dec.epoch # epoch'
        /\ cur # NoFrame => Fresh(cur, epoch', keyOn')
    BY <1>3, <2>1, <2>3
  <2> QED
    BY <2>2, <2>4 DEF FrameInv
<1> QED
  BY <1>1, <1>2, <1>4 DEF IInv, Types

LEMMA KeyStepsKeepIInv ==
    IInv /\ (SetOff \/ (\E a \in {"0", "1"} : SetStored(a)) \/ SetUnknown \/ Copy) => IInv'
<1> SUFFICES ASSUME IInv,
                    SetOff \/ (\E a \in {"0", "1"} : SetStored(a)) \/ SetUnknown \/ Copy
             PROVE  IInv'
  OBVIOUS
<1>0. KeyTypes /\ MainTypes /\ SendTypes /\ KeyInv /\ SendInv /\ CalmSend
  BY DEF IInv, Types
<1>1. ASSUME NEW a, SetKey(a)
      PROVE  pc = "cli" /\ sets' \in 0..MaxSets /\ snd["main"].at = "idle"
  BY <1>0, <1>1, NetAssumption DEF SetKey, KeyTypes, SendInv, Senders
<1>2. ASSUME NEW a, SetKey(a), NEW k \in KeyBytes, SetOn(k) PROVE IInv'
  <2>1. /\ keyOn' = TRUE /\ newKey' = k /\ pc' = "copy" /\ epoch' = epoch + 1
        /\ UNCHANGED <<keyBytes, selected, rxVars, table, snd, halted, sends, last>>
    BY <1>2 DEF SetOn
  <2>2. KeyTypes'
    <3>1. keyOn' \in BOOLEAN /\ epoch' \in Nat
      BY <1>0, <2>1 DEF KeyTypes
    <3> QED
      BY <1>0, <1>1, <1>2, <2>1, <3>1 DEF KeyTypes
  <2>3. MainTypes' /\ KeyInv'
    BY <1>0, <2>1 DEF MainTypes, KeyInv, Settled
  <2> QED
    BY <1>1, <1>2, <2>1, <2>2, <2>3, StoreKeepsRest
<1>3. CASE SetOff
  <2>1. /\ SetKey("none") /\ keyOn' = FALSE /\ selected' = "none" /\ epoch' = epoch + 1
        /\ UNCHANGED <<keyBytes, newKey, rxVars, table, pc, snd, halted, sends, last>>
    BY <1>3 DEF SetOff
  <2>2. KeyTypes'
    <3>1. keyOn' \in BOOLEAN
      BY <2>1
    <3>2. epoch' \in Nat
      BY <1>0, <2>1 DEF KeyTypes
    <3> QED
      BY <1>0, <1>1, <2>1, <3>1, <3>2 DEF KeyTypes
  <2>3. MainTypes' /\ KeyInv'
    BY <1>0, <1>1, <2>1 DEF MainTypes, KeyInv, Settled
  <2> QED
    BY <1>1, <2>1, <2>2, <2>3, StoreKeepsRest
<1>4. CASE \E a \in {"0", "1"} : SetStored(a)
  <2>1. PICK a \in {"0", "1"} : SetKey(a) /\ SetOn(Stored[a])
    BY <1>4 DEF SetStored
  <2>2. Stored[a] \in KeyBytes
    BY DEF Stored, KeyBytes
  <2> QED
    BY <1>2, <2>1, <2>2
<1>5. CASE SetUnknown
  <2>1. SetKey("other")
    BY <1>5 DEF SetUnknown
  <2>2. CASE SetOn("junk")
    BY <1>2, <2>1, <2>2 DEF KeyBytes
  <2>3. CASE /\ UNCHANGED <<keyOn, keyBytes, newKey, epoch, rxVars, table, pc, snd,
                              sends, last>>
             /\ selected' \in {selected, "typed"}
             /\ halted' \in {"no", "null key", "wild key"}
    <3>1. MainTypes' /\ SendTypes' /\ CalmSend'
      BY <1>0, <2>3 DEF MainTypes, SendTypes, CalmSend
    <3>2. KeyTypes'
      BY <1>0, <1>1, <2>1, <2>3 DEF KeyTypes
    <3>3. SendInv' /\ KeyInv'
      BY <1>0, <1>1, <2>1, <2>3 DEF SendInv, KeyInv, Settled
    <3>4. RxTypes'
      BY <2>3 DEF IInv, Types, RxTypes, rxVars
    <3>5. FrameInv'
      BY <2>3 DEF IInv, FrameInv, Fresh, rxVars
    <3> QED
      BY <3>1, <3>2, <3>3, <3>4, <3>5 DEF IInv, Types
  <2>4. CASE /\ selected' = "typed"
             /\ UNCHANGED <<keyOn, keyBytes, newKey, epoch, rxVars, table, pc, snd, halted,
                            sends, last>>
    BY <1>0, <2>3, <2>4 DEF MainTypes
  <2>5. CASE halted' = "wild key" /\ UNCHANGED <<keyVars, rxVars, table, pc, snd, sends, last>>
    BY <2>3, <2>5 DEF keyVars
  <2> QED
    BY <1>5, <2>2, <2>4, <2>5 DEF SetUnknown
<1>6. CASE Copy
  <2>1. /\ \/ pc = "copy" /\ pc' = "copied" /\ keyBytes' = "torn" /\ selected' = selected
           \/ /\ pc = "copied" /\ pc' = "cli" /\ keyBytes' = newKey
              /\ selected' \in {newKey, "typed"}
        /\ epoch' = epoch + 1
        /\ UNCHANGED <<keyOn, newKey, rxVars, table, snd, halted, sets, sends, last>>
    BY <1>6 DEF Copy, Named
  <2>2. KeyTypes' /\ MainTypes'
    <3>1. keyOn' \in BOOLEAN /\ epoch' \in Nat
      BY <1>0, <2>1 DEF KeyTypes
    <3>2. /\ keyBytes' \in KeyBytes /\ newKey' \in KeyBytes
          /\ selected' \in KeyBytes \cup {"none", "typed"}
      BY <1>0, <2>1 DEF KeyTypes, KeyBytes
    <3>3. KeyTypes'
      BY <1>0, <2>1, <3>1, <3>2 DEF KeyTypes
    <3>4. MainTypes'
      BY <1>0, <2>1 DEF MainTypes
    <3> QED
      BY <3>3, <3>4
  <2>3. KeyInv'
    BY <1>0, <2>1 DEF KeyInv, Settled
  <2>4. snd["main"].at = "idle"
    BY <1>0, <2>1 DEF SendInv
  <2> QED
    BY <2>1, <2>2, <2>3, <2>4, StoreKeepsRest
<1> QED
  BY <1>3, <1>4, <1>5, <1>6

(***************************** theorems ************************************)

\* Only a handler's run adds to the frames handled.
LEMMA HandlersHandle ==
    ASSUME [Next]_vars, handled' # handled PROVE \E r \in BOOLEAN : Handle(r)
<1>1. ~UNCHANGED rxVars
  BY DEF rxVars
<1>2. ~UNCHANGED vars
  BY DEF vars, rxVars
<1>3. ~(\E a \in Arrivals : Arrive(a)) /\ ~TakeCipher /\ ~DecryptKey /\ ~Decrypt /\ ~Forward
  BY DEF Arrive, TakeCipher, DecryptKey, Decrypt, Forward
<1>4. ~TakeInbound /\ ~Discard /\ ~DecryptNull /\ ~TooLong
  BY <1>1 DEF TakeInbound, Discard, DecryptNull, TooLong
<1>5. ASSUME NEW t PROVE ~Send(t)
  BY <1>1 DEF Send, CheckKey, SendClear, EncryptKey, Encrypt, EncryptNull, Transmit
<1>6. ~Register /\ ~Copy /\ ~MainSend /\ ~SetOff
  BY <1>1 DEF Register, Copy, MainSend, SetOff
<1>7. ~(\E a \in {"0", "1"} : SetStored(a)) /\ ~SetUnknown
  BY <1>1 DEF SetStored, SetUnknown, SetOn
<1> QED
  BY <1>2, <1>3, <1>4, <1>5, <1>6, <1>7 DEF Next, Dec, Svc, Main, Console

\* Only a decryption and an encryption follow a null key.
LEMMA NullHalts ==
    ASSUME [Next]_vars, halted' = "null key", Running
    PROVE  DecryptNull \/ \E t \in Senders : EncryptNull(t)
<1>1. halted' # halted /\ halted' # "wild key"
  BY DEF Running
<1>2. ~UNCHANGED vars
  BY <1>1 DEF vars
<1>3. ~(\E a \in Arrivals : Arrive(a)) /\ ~TakeCipher /\ ~DecryptKey /\ ~Decrypt /\ ~Forward
  BY <1>1 DEF Arrive, TakeCipher, DecryptKey, Decrypt, Forward
<1>4. ~TakeInbound /\ ~Discard /\ ~TooLong /\ \A r \in BOOLEAN : ~Handle(r)
  BY <1>1 DEF TakeInbound, Discard, TooLong, Handle
<1>5. ASSUME NEW t PROVE ~CheckKey(t) /\ ~SendClear(t) /\ ~EncryptKey(t) /\ ~Encrypt(t)
  BY <1>1 DEF CheckKey, SendClear, EncryptKey, Encrypt, Transmit
<1>6. ~Register /\ ~Copy /\ ~MainSend /\ ~SetOff
  BY <1>1 DEF Register, Copy, MainSend, SetOff
<1>7. ~(\E a \in {"0", "1"} : SetStored(a)) /\ ~SetUnknown
  BY <1>1 DEF SetStored, SetUnknown, SetOn
<1> QED
  BY <1>2, <1>3, <1>4, <1>5, <1>6, <1>7 DEF Next, Dec, Svc, Main, Console, Send, Senders

LEMMA StepKeepsIInv == IInv /\ [Next]_vars => IInv'
<1> SUFFICES ASSUME IInv, [Next]_vars PROVE IInv'
  OBVIOUS
<1>1. CASE \E a \in Arrivals : Arrive(a)
  BY <1>1, ArriveKeepsIInv
<1>2. CASE Dec
  BY <1>2, DecKeepsIInv
<1>3. CASE Svc
  BY <1>3, TakeKeepsIInv, HandleKeepsIInv, TooLongKeepsIInv, SendKeepsIInv DEF Svc, Senders
<1>4. CASE Main
  BY <1>4, RegisterKeepsIInv, KeyStepsKeepIInv, SendKeepsIInv DEF Main, Senders
<1>5. CASE Console
  BY <1>5, MainSendKeepsIInv, KeyStepsKeepIInv DEF Console
<1>6. CASE UNCHANGED vars
  <2>1. /\ KeyTypes /\ RxTypes /\ MainTypes /\ SendTypes
        /\ KeyInv /\ SendInv /\ FrameInv /\ CalmSend
    BY DEF IInv, Types
  <2>2. KeyTypes' /\ MainTypes' /\ KeyInv'
    BY <1>6, <2>1 DEF KeyTypes, MainTypes, KeyInv, Settled, vars, keyVars
  <2>3. RxTypes' /\ SendTypes' /\ CalmSend'
    BY <1>6, <2>1 DEF RxTypes, SendTypes, CalmSend, vars, rxVars
  <2>4. SendInv' /\ FrameInv'
    BY <1>6, <2>1 DEF SendInv, FrameInv, Fresh, vars, rxVars, keyVars
  <2> QED
    BY <2>1, <2>2, <2>3, <2>4 DEF IInv, Types
<1> QED
  BY <1>1, <1>2, <1>3, <1>4, <1>5, <1>6 DEF Next

\* What lownet_init leaves implies the invariant and every step of the four
\* tasks keeps it.
THEOREM LowNetInvariant == Spec => []IInv
BY InitIInv, StepKeepsIInv, PTL DEF Spec

\* Every variable keeps its type and both queues keep their depth.
THEOREM LowNetTypeCorrect == Spec => []TypeOK
<1>1. IInv => TypeOK
  BY TypeParts DEF IInv
<1> QED
  BY <1>1, LowNetInvariant, PTL

\* A frame whose lownet_send overlapped no change of the key went out in
\* clear, or under the stored key, as the last /setkey named it, however often
\* /setkey runs and whatever arrives.  It says nothing of a typed key.
THEOREM LowNetCalmSend == Spec => []CalmSend
<1>1. IInv => CalmSend
  BY DEF IInv
<1> QED
  BY <1>1, LowNetInvariant, PTL

\* A handler sees a plain frame in encrypted mode only when it arrived before
\* the last change of the key.
THEOREM LowNetPlainIsOld == Spec => PlainIsOld
<1>1. IInv /\ [Next]_vars
        => [handled' # handled /\ keyOn /\ cur.air.kind = "plain" => cur.epoch # epoch]_vars
  <2> SUFFICES ASSUME IInv, [Next]_vars, handled' # handled, keyOn, cur.air.kind = "plain"
               PROVE  cur.epoch # epoch
    OBVIOUS
  <2>1. \E r \in BOOLEAN : Handle(r)
    BY HandlersHandle
  <2>2. cur # NoFrame
    BY <2>1 DEF Handle
  <2> QED
    BY <2>2 DEF IInv, FrameInv, Fresh
<1> QED
  BY <1>1, LowNetInvariant, PTL DEF Spec, PlainIsOld

\* A null key is followed only by a decryption or an encryption that /setkey
\* overtook.
THEOREM LowNetNullNeedsSetKey == Spec => NullNeedsSetKey
<1>1. IInv /\ [Next]_vars
        => [halted' = "null key" /\ Running
              => \/ dec # NoFrame /\ dec.epoch # epoch
                 \/ \E t \in Senders : snd[t].at = "null" /\ snd[t].epoch # epoch]_vars
  <2> SUFFICES ASSUME IInv, [Next]_vars, halted' = "null key", Running
               PROVE  \/ dec # NoFrame /\ dec.epoch # epoch
                      \/ \E t \in Senders : snd[t].at = "null" /\ snd[t].epoch # epoch
    OBVIOUS
  <2>1. DecryptNull \/ \E t \in Senders : EncryptNull(t)
    BY NullHalts
  <2>2. CASE DecryptNull
    BY <2>2 DEF DecryptNull, IInv, FrameInv, Fresh
  <2>3. CASE \E t \in Senders : EncryptNull(t)
    BY <2>3 DEF EncryptNull, IInv, SendInv
  <2> QED
    BY <2>1, <2>2, <2>3
<1> QED
  BY <1>1, LowNetInvariant, PTL DEF Spec, NullNeedsSetKey

(***************************** the receive path ****************************)

\* The frames that dec and svc hold.
Being == {dec} \ {NoFrame}
Taken == {cur} \ {NoFrame}

\* Of two frames of one kind, the first arrived before the second.
Before(f, g)    == f.air.kind = g.air.kind => f.id < g.id
Ordered(q)      == \A i, j \in 1..Len(q) : i < j => Before(q[i], q[j])
AllBefore(P, Q) == \A f \in P, g \in Q : Before(f, g)

\* The four places of the receive path, from the handler back to the radio.
OrderInv ==
    /\ Ordered(inbound) /\ Ordered(decryptQ)
    /\ AllBefore(Taken, Members(inbound) \cup Being \cup Members(decryptQ))
    /\ AllBefore(Members(inbound), Being \cup Members(decryptQ))
    /\ AllBefore(Being, Members(decryptQ))
    /\ \A f \in Carried : f.id \in 1..arrivals

LEMMA MembersType == ASSUME NEW q \in Seq(Queued) PROVE Members(q) \subseteq Queued
BY ElementOfSeq DEF Members

LEMMA OrderedTake ==
    ASSUME NEW q \in Seq(Queued), q # <<>>, Ordered(q)
    PROVE  /\ Ordered(Tail(q)) /\ AllBefore({Head(q)}, Members(Tail(q)))
           /\ Members(q) = Members(Tail(q)) \cup {Head(q)}
<1>1. /\ Len(q) \in Nat /\ Len(q) >= 1 /\ Head(q) = q[1] /\ Len(Tail(q)) = Len(q) - 1
      /\ \A i \in 1..Len(Tail(q)) : Tail(q)[i] = q[i + 1]
  BY HeadTailProperties, LenProperties, EmptySeq
<1>2. Ordered(Tail(q))
  BY <1>1 DEF Ordered
<1>3. \A i \in 1..Len(Tail(q)) : Before(q[1], Tail(q)[i])
  BY <1>1 DEF Ordered
<1>4. AllBefore({Head(q)}, Members(Tail(q)))
  BY <1>1, <1>3 DEF AllBefore, Members
<1>5. ASSUME NEW i \in 1..Len(q) PROVE q[i] \in Members(Tail(q)) \cup {Head(q)}
  <2>1. CASE i = 1
    BY <1>1, <2>1
  <2>2. CASE i # 1
    <3>1. i - 1 \in 1..Len(Tail(q)) /\ Tail(q)[i - 1] = q[i]
      BY <1>1, <2>2
    <3> QED
      BY <3>1 DEF Members
  <2> QED
    BY <2>1, <2>2
<1>6. Members(Tail(q)) \cup {Head(q)} \subseteq Members(q)
  <2>1. \A i \in 1..Len(Tail(q)) : i + 1 \in 1..Len(q) /\ Tail(q)[i] = q[i + 1]
    BY <1>1
  <2>2. 1 \in 1..Len(q)
    BY <1>1
  <2> QED
    BY <1>1, <2>1, <2>2 DEF Members
<1>7. Members(q) \subseteq Members(Tail(q)) \cup {Head(q)}
  BY <1>5 DEF Members
<1> QED
  BY <1>2, <1>4, <1>6, <1>7

LEMMA OrderedPut ==
    ASSUME NEW q \in Seq(Queued), Ordered(q), NEW f \in Queued, AllBefore(Members(q), {f})
    PROVE  /\ Ordered(Put(q, f))
           /\ Members(Put(q, f)) = Members(q) \/ Members(Put(q, f)) = Members(q) \cup {f}
<1> DEFINE r == Put(q, f)
<1>1. CASE r = q
  BY <1>1
<1>2. CASE r = Append(q, f)
  <2>1. /\ Len(q) \in Nat /\ Len(r) = Len(q) + 1 /\ r[Len(q) + 1] = f
        /\ \A i \in 1..Len(q) : r[i] = q[i]
    BY <1>2, AppendProperties, LenProperties
  <2> HIDE DEF r
  <2>2. \A i \in 1..Len(q) : Before(q[i], f)
    BY DEF AllBefore, Members
  <2>3. \A i \in 1..Len(r) : \/ i \in 1..Len(q) /\ r[i] = q[i]
                             \/ i = Len(q) + 1 /\ r[i] = f
    <3>1. \A i \in 1..Len(r) : i \in 1..Len(q) \/ i = Len(q) + 1
      BY <2>1
    <3> QED
      BY <2>1, <3>1
  <2>4. Ordered(r)
    <3> SUFFICES ASSUME NEW i \in 1..Len(r), NEW j \in 1..Len(r), i < j
                 PROVE  Before(r[i], r[j])
      BY DEF Ordered
    <3>1. i \in 1..Len(q) /\ r[i] = q[i]
      BY <2>1, <2>3
    <3>2. CASE j \in 1..Len(q) /\ r[j] = q[j]
      BY <3>1, <3>2 DEF Ordered
    <3>3. CASE r[j] = f
      BY <2>2, <3>1, <3>3
    <3> QED
      BY <2>3, <3>2, <3>3
  <2>5. Members(r) = Members(q) \cup {f}
    <3>1. Len(q) + 1 \in 1..Len(r) /\ \A i \in 1..Len(q) : i \in 1..Len(r)
      BY <2>1
    <3>2. Members(q) \cup {f} \subseteq Members(r)
      BY <2>1, <3>1 DEF Members
    <3>3. Members(r) \subseteq Members(q) \cup {f}
      BY <2>3 DEF Members
    <3> QED
      BY <3>2, <3>3
  <2> QED
    BY <2>4, <2>5 DEF r
<1> QED
  BY <1>1, <1>2 DEF Put

LEMMA MembersPrime ==
    Members(inbound)' = Members(inbound') /\ Members(decryptQ)' = Members(decryptQ')
BY DEF Members

\* The numbers of the frames given to a handler follow the frames.
LEMMA IdsAppend ==
    ASSUME NEW q \in Seq(Queued), NEW f \in Queued
    PROVE  Ids(Append(q, f)) = Append(Ids(q), f.id)
<1>1. Len(q) \in Nat /\ f.id \in Nat /\ \A i \in 1..Len(q) : q[i].id \in Nat
  <2>1. \A i \in 1..Len(q) : q[i] \in Queued
    BY ElementOfSeq
  <2> QED
    BY <2>1, LenProperties DEF Queued
<1>2. Ids(q) \in Seq(Nat) /\ Len(Ids(q)) = Len(q) /\ \A i \in 1..Len(q) : Ids(q)[i] = q[i].id
  BY <1>1 DEF Ids
<1>3. /\ Append(q, f) \in Seq(Queued) /\ Len(Append(q, f)) = Len(q) + 1
      /\ Append(q, f)[Len(q) + 1] = f /\ \A i \in 1..Len(q) : Append(q, f)[i] = q[i]
  BY AppendProperties
<1>4. /\ Append(Ids(q), f.id) \in Seq(Nat) /\ Len(Append(Ids(q), f.id)) = Len(q) + 1
      /\ Append(Ids(q), f.id)[Len(q) + 1] = f.id
      /\ \A i \in 1..Len(q) : Append(Ids(q), f.id)[i] = q[i].id
  BY <1>1, <1>2, AppendProperties
<1>5. \A i \in 1..Len(q) + 1 : i \in 1..Len(q) \/ i = Len(q) + 1
  BY <1>1
<1>6. /\ Ids(Append(q, f)) \in Seq(Nat) /\ Len(Ids(Append(q, f))) = Len(q) + 1
      /\ \A i \in 1..Len(q) + 1 : Ids(Append(q, f))[i] = Append(q, f)[i].id
  <2>1. \A i \in 1..Len(q) + 1 : Append(q, f)[i].id \in Nat
    BY <1>1, <1>3, <1>5
  <2> QED
    BY <1>1, <1>3, <2>1 DEF Ids
<1>7. \A i \in 1..Len(q) + 1 : Ids(Append(q, f))[i] = Append(Ids(q), f.id)[i]
  BY <1>3, <1>4, <1>5, <1>6
<1> QED
  BY <1>4, <1>6, <1>7, SeqEqual

\* What a step does to the frames of one kind.
PathStep(k) ==
    \/ OnWay(k)' = OnWay(k) /\ arrivals' = arrivals /\ Ids(handled'[k]) = Ids(handled[k])
    \/ /\ arrivals' = arrivals + 1 /\ Ids(handled'[k]) = Ids(handled[k])
       /\ OnWay(k)' = OnWay(k) \/ OnWay(k)' = OnWay(k) \cup {arrivals + 1}
    \/ \E n \in OnWay(k) : /\ OnWay(k)' = OnWay(k) \ {n} /\ arrivals' = arrivals
                           /\ \/ Ids(handled'[k]) = Ids(handled[k])
                              \/ /\ \A m \in OnWay(k) : n <= m
                                 /\ Ids(handled'[k]) = Append(Ids(handled[k]), n)

PathInv == OrderInv' /\ \A k \in Kinds : PathStep(k)

LEMMA ArrivePath ==
    ASSUME IInv, OrderInv, NEW a \in Arrivals, Arrive(a) PROVE PathInv
<1> DEFINE f == [air |-> a, good |-> a.ok, id |-> arrivals', epoch |-> epoch]
<1>0. /\ inbound \in Seq(Queued) /\ decryptQ \in Seq(Queued) /\ dec \in Queued /\ cur \in Queued
      /\ arrivals \in 0..MaxFrames /\ MaxFrames \in Nat /\ epoch \in Nat /\ keyOn \in BOOLEAN
  BY NetAssumption DEF IInv, Types, RxTypes, KeyTypes
<1>1. /\ inbound' = IF a.kind = "plain" /\ ~keyOn THEN Put(inbound, f) ELSE inbound
      /\ decryptQ' = IF a.kind = "cipher" /\ keyOn THEN Put(decryptQ, f) ELSE decryptQ
      /\ arrivals' = arrivals + 1 /\ dec' = dec /\ cur' = cur /\ handled' = handled
  BY DEF Arrive
<1>2. f \in Queued
  BY <1>0, <1>1, NetAssumption DEF Queued, AirFrame
<1>3. f.id = arrivals + 1 /\ f.air.kind = a.kind
  BY <1>1
<1> HIDE DEF f
<1>4. /\ Members(inbound) \subseteq Carried /\ Members(decryptQ) \subseteq Carried
      /\ Taken \subseteq Carried /\ Being \subseteq Carried
      /\ Carried = Members(inbound) \cup Members(decryptQ) \cup Taken \cup Being
  BY DEF Carried, Taken, Being
<1>5. AllBefore(Carried, {f})
  BY <1>0, <1>3 DEF OrderInv, AllBefore, Before
<1>6. \A g \in Being \cup Members(decryptQ) : g.air.kind = "cipher"
  BY DEF IInv, FrameInv, Being, Members
<1>7. Taken' = Taken /\ Being' = Being
  BY <1>1 DEF Taken, Being
<1>8. /\ Ordered(inbound') /\ Ordered(decryptQ')
      /\ \/ /\ Members(inbound') = Members(inbound)
            /\ Members(decryptQ') = Members(decryptQ)
         \/ /\ a.kind = "plain" /\ Members(inbound') = Members(inbound) \cup {f}
            /\ Members(decryptQ') = Members(decryptQ)
         \/ /\ Members(inbound') = Members(inbound)
            /\ a.kind = "cipher" /\ Members(decryptQ') = Members(decryptQ) \cup {f}
  <2>1. AllBefore(Members(inbound), {f}) /\ AllBefore(Members(decryptQ), {f})
    BY <1>4, <1>5 DEF AllBefore
  <2>2. /\ Ordered(Put(inbound, f)) /\ Ordered(Put(decryptQ, f))
        /\ \/ Members(Put(inbound, f)) = Members(inbound)
           \/ Members(Put(inbound, f)) = Members(inbound) \cup {f}
        /\ \/ Members(Put(decryptQ, f)) = Members(decryptQ)
           \/ Members(Put(decryptQ, f)) = Members(decryptQ) \cup {f}
    BY <1>0, <1>2, <2>1, OrderedPut DEF OrderInv
  <2> QED
    BY <1>1, <2>2 DEF OrderInv
<1>9. OrderInv'
  <2>1. Carried' = Carried \/ Carried' = Carried \cup {f}
    BY <1>4, <1>7, <1>8, MembersPrime DEF Carried, Taken, Being
  <2>2. (\A g \in Carried : g.id \in 1..arrivals)'
    BY <1>0, <1>1, <1>3, <2>1 DEF OrderInv
  <2>3. /\ AllBefore(Taken, Members(inbound') \cup Being \cup Members(decryptQ'))
        /\ AllBefore(Being, Members(decryptQ'))
    BY <1>4, <1>5, <1>8 DEF OrderInv, AllBefore
  <2>4. AllBefore(Members(inbound'), Being \cup Members(decryptQ'))
    BY <1>3, <1>4, <1>5, <1>6, <1>8 DEF OrderInv, AllBefore, Before
  <2> QED
    BY <1>7, <1>8, <2>2, <2>3, <2>4, MembersPrime DEF OrderInv, AllBefore, Ordered
<1>10. ASSUME NEW k \in Kinds PROVE PathStep(k)
  <2>1. Carried' = Carried \/ Carried' = Carried \cup {f}
    BY <1>4, <1>7, <1>8, MembersPrime DEF Carried, Taken, Being
  <2>2. OnWay(k)' = OnWay(k) \/ OnWay(k)' = OnWay(k) \cup {arrivals + 1}
    BY <1>3, <2>1 DEF OnWay
  <2> QED
    BY <1>1, <2>2 DEF PathStep
<1> QED
  BY <1>9, <1>10 DEF PathInv

\* The receive path by its places, and the frames it holds.
LEMMA Places ==
    ASSUME IInv, OrderInv
    PROVE  /\ inbound \in Seq(Queued) /\ decryptQ \in Seq(Queued)
           /\ dec \in Queued /\ cur \in Queued /\ arrivals \in Nat
           /\ Carried = Members(inbound) \cup Members(decryptQ) \cup Taken \cup Being
           /\ Carried \subseteq Queued
           /\ \A f \in Carried : f # NoFrame /\ f.id \in Nat /\ f.id \in 1..arrivals
           /\ \A g \in Being \cup Members(decryptQ) : g.air.kind = "cipher"
<1>1. /\ inbound \in Seq(Queued) /\ decryptQ \in Seq(Queued)
      /\ dec \in Queued /\ cur \in Queued /\ arrivals \in Nat
  BY NetAssumption DEF IInv, Types, RxTypes
<1>2. Carried = Members(inbound) \cup Members(decryptQ) \cup Taken \cup Being
  BY DEF Carried, Taken, Being
<1>3. Carried \subseteq Queued
  BY <1>1, <1>2, MembersType DEF Taken, Being
<1>4. NoFrame.id = 0
  BY DEF NoFrame
<1>5. \A f \in Carried : f # NoFrame /\ f.id \in Nat /\ f.id \in 1..arrivals
  BY <1>1, <1>4 DEF OrderInv
<1>6. \A g \in Being \cup Members(decryptQ) : g.air.kind = "cipher"
  BY DEF IInv, FrameInv, Being, Members
<1> QED
  BY <1>1, <1>2, <1>3, <1>5, <1>6

LEMMA TakeCipherPath == ASSUME IInv, OrderInv, TakeCipher PROVE PathInv
<1>1. /\ dec = NoFrame /\ decryptQ # <<>> /\ dec' = Head(decryptQ) /\ decryptQ' = Tail(decryptQ)
      /\ UNCHANGED <<inbound, cur, arrivals, handled>>
  BY DEF TakeCipher
<1> DEFINE h == Head(decryptQ)
<1>2. /\ Ordered(decryptQ') /\ AllBefore({h}, Members(decryptQ'))
      /\ Members(decryptQ) = Members(decryptQ') \cup {h}
  BY <1>1, Places, OrderedTake DEF OrderInv
<1>3. h # NoFrame
  BY <1>2, Places
<1>4. Being = {} /\ Being' = {h} /\ Taken' = Taken /\ inbound' = inbound
  BY <1>1, <1>3 DEF Being, Taken
<1>5. Carried' = Carried
  BY <1>2, <1>4, Places, MembersPrime DEF Carried, Being, Taken
<1>6. OrderInv'
  <2>1. /\ AllBefore(Taken, Members(inbound) \cup {h} \cup Members(decryptQ'))
        /\ AllBefore(Members(inbound), {h} \cup Members(decryptQ'))
    BY <1>2 DEF OrderInv, AllBefore
  <2>2. Ordered(inbound) /\ \A f \in Carried : f.id \in 1..arrivals
    BY DEF OrderInv
  <2> QED
    BY <1>1, <1>2, <1>4, <1>5, <2>1, <2>2, MembersPrime DEF OrderInv, AllBefore, Ordered
<1>7. ASSUME NEW k \in Kinds PROVE PathStep(k)
  BY <1>1, <1>5 DEF PathStep, OnWay
<1> QED
  BY <1>6, <1>7 DEF PathInv

LEMMA TakeInboundPath == ASSUME IInv, OrderInv, TakeInbound PROVE PathInv
<1>1. /\ cur = NoFrame /\ inbound # <<>> /\ cur' = Head(inbound) /\ inbound' = Tail(inbound)
      /\ UNCHANGED <<decryptQ, dec, arrivals, handled>>
  BY DEF TakeInbound
<1> DEFINE h == Head(inbound)
<1>2. /\ Ordered(inbound') /\ AllBefore({h}, Members(inbound'))
      /\ Members(inbound) = Members(inbound') \cup {h}
  BY <1>1, Places, OrderedTake DEF OrderInv
<1>3. h # NoFrame
  BY <1>2, Places
<1>4. Taken = {} /\ Taken' = {h} /\ Being' = Being /\ decryptQ' = decryptQ
  BY <1>1, <1>3 DEF Being, Taken
<1>5. Carried' = Carried
  BY <1>2, <1>4, Places, MembersPrime DEF Carried, Being, Taken
<1>6. OrderInv'
  <2>1. /\ AllBefore({h}, Members(inbound') \cup Being \cup Members(decryptQ))
        /\ AllBefore(Members(inbound'), Being \cup Members(decryptQ))
    BY <1>2 DEF OrderInv, AllBefore
  <2>2. /\ Ordered(decryptQ) /\ AllBefore(Being, Members(decryptQ))
        /\ \A f \in Carried : f.id \in 1..arrivals
    BY DEF OrderInv
  <2> QED
    BY <1>1, <1>2, <1>4, <1>5, <2>1, <2>2, MembersPrime DEF OrderInv, AllBefore, Ordered
<1>7. ASSUME NEW k \in Kinds PROVE PathStep(k)
  BY <1>1, <1>5 DEF PathStep, OnWay
<1> QED
  BY <1>6, <1>7 DEF PathInv

\* The decrypted frame keeps the number and the kind of the encrypted one.
LEMMA DecryptPath == ASSUME IInv, OrderInv, Decrypt PROVE PathInv
<1> DEFINE A == Members(inbound) \cup Members(decryptQ) \cup Taken
<1>1. /\ dec # NoFrame /\ dec' = [dec EXCEPT !.good = dec.good /\ dec.air.key = keyBytes]
      /\ UNCHANGED <<inbound, decryptQ, cur, arrivals, handled>>
  BY DEF Decrypt
<1>2. dec' \in Queued /\ dec'.id = dec.id /\ dec'.air = dec.air
  BY <1>1, Places DEF Queued
<1>3. Being = {dec} /\ Taken' = Taken /\ Carried = A \cup {dec}
  BY <1>1, Places DEF Being, Taken
<1>4. dec.id \in 1..arrivals
  BY <1>3, Places
<1>5. dec' # NoFrame
  BY <1>2, <1>4, Places DEF NoFrame
<1>6. Being' = {dec'} /\ Carried' = A \cup {dec'}
  BY <1>1, <1>3, <1>5, MembersPrime DEF Carried, Being, Taken
<1>7. OrderInv'
  <2>1. /\ AllBefore(Taken, Members(inbound) \cup {dec} \cup Members(decryptQ))
        /\ AllBefore(Members(inbound), {dec} \cup Members(decryptQ))
        /\ AllBefore({dec}, Members(decryptQ)) /\ Ordered(inbound) /\ Ordered(decryptQ)
    BY <1>3 DEF OrderInv
  <2>2. /\ AllBefore(Taken, Members(inbound) \cup {dec'} \cup Members(decryptQ))
        /\ AllBefore(Members(inbound), {dec'} \cup Members(decryptQ))
        /\ AllBefore({dec'}, Members(decryptQ))
    BY <1>2, <2>1 DEF AllBefore, Before
  <2>3. \A g \in Carried' : g.id \in 1..arrivals
    BY <1>2, <1>3, <1>4, <1>6, Places
  <2> QED
    BY <1>1, <1>3, <1>6, <2>1, <2>2, <2>3, MembersPrime DEF OrderInv, AllBefore, Ordered
<1>8. ASSUME NEW k \in Kinds PROVE PathStep(k)
  <2>1. OnWay(k)' = OnWay(k)
    BY <1>2, <1>3, <1>6 DEF OnWay
  <2> QED
    BY <1>1, <2>1 DEF PathStep
<1> QED
  BY <1>7, <1>8 DEF PathInv

\* It joins inbound, or is lost when inbound is full.
LEMMA ForwardPath == ASSUME IInv, OrderInv, Forward PROVE PathInv
<1> DEFINE A == Members(inbound) \cup Members(decryptQ) \cup Taken
<1>1. /\ dec # NoFrame /\ inbound' = Put(inbound, dec) /\ dec' = NoFrame
      /\ UNCHANGED <<decryptQ, cur, arrivals, handled>>
  BY DEF Forward
<1>2. Being = {dec} /\ Being' = {} /\ Taken' = Taken /\ Carried = A \cup {dec}
  BY <1>1, Places DEF Being, Taken
<1>3. /\ AllBefore(Members(inbound), {dec}) /\ AllBefore(Taken, {dec})
      /\ AllBefore({dec}, Members(decryptQ))
  BY <1>2 DEF OrderInv, AllBefore
<1>4. /\ Ordered(inbound')
      /\ Members(inbound') = Members(inbound) \/ Members(inbound') = Members(inbound) \cup {dec}
  BY <1>1, <1>3, Places, OrderedPut DEF OrderInv
<1>5. Carried' = A \/ Carried' = A \cup {dec}
  BY <1>1, <1>2, <1>4, MembersPrime DEF Carried, Being, Taken
<1>6. OrderInv'
  <2>1. /\ AllBefore(Taken, Members(inbound') \cup Members(decryptQ))
        /\ AllBefore(Members(inbound'), Members(decryptQ))
    BY <1>3, <1>4 DEF OrderInv, AllBefore
  <2>2. \A g \in Carried' : g.id \in 1..arrivals
    BY <1>2, <1>5, Places
  <2>3. Ordered(decryptQ)
    BY DEF OrderInv
  <2> QED
    BY <1>1, <1>2, <1>4, <2>1, <2>2, <2>3, MembersPrime DEF OrderInv, AllBefore, Ordered
<1>7. ASSUME NEW k \in Kinds PROVE PathStep(k)
  <2>1. CASE Carried' = A \cup {dec}
    <3>1. OnWay(k)' = OnWay(k)
      BY <1>2, <2>1 DEF OnWay
    <3> QED
      BY <1>1, <3>1 DEF PathStep
  <2>2. CASE Carried' = A /\ dec.air.kind = k
    <3>1. \A g \in A : g.air.kind = k => g.id # dec.id
      <4> SUFFICES ASSUME NEW g \in A, g.air.kind = k PROVE g.id # dec.id
        OBVIOUS
      <4>1. g.id < dec.id \/ dec.id < g.id
        BY <1>3, <2>2 DEF AllBefore, Before
      <4> QED
        BY <1>2, <4>1, Places
    <3>2. OnWay(k)' = OnWay(k) \ {dec.id} /\ dec.id \in OnWay(k)
      BY <1>2, <2>2, <3>1 DEF OnWay
    <3> QED
      BY <1>1, <3>2 DEF PathStep
  <2>3. CASE Carried' = A /\ dec.air.kind # k
    <3>1. OnWay(k)' = OnWay(k)
      BY <1>2, <2>3 DEF OnWay
    <3> QED
      BY <1>1, <3>1 DEF PathStep
  <2> QED
    BY <1>5, <2>1, <2>2, <2>3
<1> QED
  BY <1>6, <1>7 DEF PathInv

\* The frame that svc lets go of is the oldest of its kind on the way.
LEMMA OldestGoes ==
    ASSUME IInv, OrderInv, cur # NoFrame, cur' = NoFrame,
           UNCHANGED <<inbound, decryptQ, dec, arrivals>>
    PROVE  /\ OrderInv'
           /\ \A k \in Kinds :
                 IF k = cur.air.kind
                 THEN /\ cur.id \in OnWay(k) /\ OnWay(k)' = OnWay(k) \ {cur.id}
                      /\ \A m \in OnWay(k) : cur.id <= m
                 ELSE OnWay(k)' = OnWay(k)
<1> DEFINE A == Members(inbound) \cup Being \cup Members(decryptQ)
<1>1. Taken = {cur} /\ Taken' = {} /\ Being' = Being
  BY DEF Taken, Being
<1>2. Carried = A \cup {cur} /\ Carried' = A /\ Carried' \subseteq Carried
  BY <1>1, Places, MembersPrime DEF Carried, Taken, Being
<1>3. \A g \in A : Before(cur, g)
  BY <1>1 DEF OrderInv, AllBefore
<1>4. OrderInv'
  <2>1. \A g \in Carried' : g.id \in 1..arrivals
    BY <1>2, Places
  <2>2. AllBefore({}, A)
    BY DEF AllBefore
  <2> QED
    BY <1>1, <2>1, <2>2, MembersPrime DEF OrderInv, AllBefore, Ordered
<1>5. \A g \in A : g.air.kind = cur.air.kind => g.id # cur.id /\ cur.id <= g.id
  <2> SUFFICES ASSUME NEW g \in A, g.air.kind = cur.air.kind
               PROVE  g.id # cur.id /\ cur.id <= g.id
    OBVIOUS
  <2>1. cur.id < g.id /\ cur.id \in Nat /\ g.id \in Nat
    BY <1>2, <1>3, Places DEF Before
  <2> QED
    BY <2>1
<1>6. ASSUME NEW k \in Kinds, k = cur.air.kind
      PROVE  /\ cur.id \in OnWay(k) /\ OnWay(k)' = OnWay(k) \ {cur.id}
             /\ \A m \in OnWay(k) : cur.id <= m
  <2>1. cur.id \in OnWay(k) /\ OnWay(k)' = OnWay(k) \ {cur.id}
    BY <1>2, <1>5, <1>6 DEF OnWay
  <2>2. cur.id <= cur.id
    BY <1>2, Places
  <2>3. \A m \in OnWay(k) : cur.id <= m
    BY <1>2, <1>5, <1>6, <2>2 DEF OnWay
  <2> QED
    BY <2>1, <2>3
<1>7. ASSUME NEW k \in Kinds, k # cur.air.kind PROVE OnWay(k)' = OnWay(k)
  BY <1>2, <1>7 DEF OnWay
<1> QED
  BY <1>4, <1>6, <1>7

LEMMA DiscardPath == ASSUME IInv, OrderInv, Discard PROVE PathInv
<1>1. /\ cur # NoFrame /\ cur' = NoFrame
      /\ UNCHANGED <<inbound, decryptQ, dec, arrivals, handled>>
  BY DEF Discard
<1>2. ASSUME NEW k \in Kinds PROVE PathStep(k)
  <2>1. CASE k = cur.air.kind
    BY <1>1, <2>1, OldestGoes DEF PathStep
  <2>2. CASE k # cur.air.kind
    BY <1>1, <2>2, OldestGoes DEF PathStep
  <2> QED
    BY <2>1, <2>2
<1> QED
  BY <1>1, <1>2, OldestGoes DEF PathInv

LEMMA HandlePath == ASSUME IInv, OrderInv, NEW r \in BOOLEAN, Handle(r) PROVE PathInv
<1>1. /\ cur # NoFrame /\ cur' = NoFrame
      /\ handled' = [handled EXCEPT ![cur.air.kind] = Append(handled[cur.air.kind], cur)]
      /\ UNCHANGED <<inbound, decryptQ, dec, arrivals>>
  BY DEF Handle
<1>2. /\ handled \in [Kinds -> Seq(Queued)] /\ cur \in Queued /\ cur.air.kind \in Kinds
      /\ handled[cur.air.kind] \in Seq(Queued)
  BY DEF IInv, Types, RxTypes, Queued, AirFrame
<1>3. ASSUME NEW k \in Kinds PROVE PathStep(k)
  <2>1. CASE k = cur.air.kind
    <3>1. handled'[k] = Append(handled[k], cur)
      BY <1>1, <1>2, <2>1
    <3>2. Ids(handled'[k]) = Append(Ids(handled[k]), cur.id)
      BY <1>2, <2>1, <3>1, IdsAppend
    <3> QED
      BY <1>1, <2>1, <3>2, OldestGoes DEF PathStep
  <2>2. CASE k # cur.air.kind
    <3>1. handled'[k] = handled[k]
      BY <1>1, <1>2, <2>2
    <3> QED
      BY <1>1, <2>2, <3>1, OldestGoes DEF PathStep
  <2> QED
    BY <2>1, <2>2
<1> QED
  BY <1>1, <1>3, OldestGoes DEF PathInv

\* Every other step leaves the receive path alone.
LEMMA RestPath ==
    ASSUME OrderInv, UNCHANGED <<inbound, decryptQ, dec, cur, arrivals, handled>>
    PROVE  PathInv
<1>1. Being' = Being /\ Taken' = Taken /\ Carried' = Carried
  BY MembersPrime DEF Being, Taken, Carried
<1>2. OrderInv'
  BY <1>1, MembersPrime DEF OrderInv, Ordered, AllBefore
<1>3. ASSUME NEW k \in Kinds PROVE PathStep(k)
  BY <1>1 DEF PathStep, OnWay
<1> QED
  BY <1>2, <1>3 DEF PathInv

\* The steps that touch the receive path.
LEMMA RxSteps ==
    ASSUME [Next]_vars
    PROVE  \/ \E a \in Arrivals : Arrive(a)
           \/ TakeCipher \/ DecryptKey \/ Decrypt \/ Forward \/ TakeInbound \/ Discard
           \/ \E r \in BOOLEAN : Handle(r)
           \/ UNCHANGED rxVars
<1>1. ASSUME NEW t, Send(t) PROVE UNCHANGED rxVars
  BY <1>1 DEF Send, CheckKey, SendClear, EncryptKey, Encrypt, EncryptNull, Transmit
<1>2. CASE DecryptNull \/ TooLong
  BY <1>2 DEF DecryptNull, TooLong
<1>3. CASE Main
  BY <1>1, <1>3 DEF Main, Register, Copy
<1>4. CASE Console
  BY <1>4 DEF Console, MainSend, SetOff, SetStored, SetUnknown, SetOn
<1>5. CASE UNCHANGED vars
  BY <1>5 DEF vars
<1> QED
  BY <1>1, <1>2, <1>3, <1>4, <1>5 DEF Next, Dec, Svc

LEMMA StepPath == IInv /\ OrderInv /\ [Next]_vars => PathInv
<1> SUFFICES ASSUME IInv, OrderInv, [Next]_vars PROVE PathInv
  OBVIOUS
<1>1. CASE DecryptKey \/ UNCHANGED rxVars
  BY <1>1, RestPath DEF DecryptKey, rxVars
<1> QED
  BY <1>1, RxSteps, ArrivePath, TakeCipherPath, DecryptPath, ForwardPath, TakeInboundPath,
     DiscardPath, HandlePath

LEMMA InitOrder ==
    ASSUME Init
    PROVE  OrderInv /\ arrivals = 0 /\ \A k \in Kinds : OnWay(k) = {} /\ Ids(handled[k]) = <<>>
<1>1. Members(inbound) = {} /\ Members(decryptQ) = {} /\ Being = {} /\ Taken = {}
      /\ inbound = <<>> /\ decryptQ = <<>> /\ arrivals = 0
  BY DEF Init, Members, Being, Taken
<1>2. Carried = {}
  BY <1>1 DEF Carried, Being, Taken
<1>3. Ordered(inbound) /\ Ordered(decryptQ)
  BY <1>1 DEF Ordered
<1>4. OrderInv
  BY <1>1, <1>2, <1>3 DEF OrderInv, AllBefore
<1>5. ASSUME NEW k \in Kinds PROVE OnWay(k) = {} /\ Ids(handled[k]) = <<>>
  <2>1. handled[k] = <<>>
    BY DEF Init
  <2>2. Ids(<<>>) = <<>>
    BY DEF Ids
  <2> QED
    BY <1>2, <2>1, <2>2 DEF OnWay
<1> QED
  BY <1>1, <1>4, <1>5

LEMMA LowNetOrder == Spec => []OrderInv
<1>1. Init => OrderInv
  BY InitOrder
<1>2. IInv /\ OrderInv /\ [Next]_vars => OrderInv'
  BY StepPath DEF PathInv
<1> QED
  BY <1>1, <1>2, LowNetInvariant, PTL DEF Spec

\* Plain frames reach their handlers through inbound as through a lossy queue.
THEOREM LowNetPlainFifo == Spec => PlainFifo
<1> DEFINE S == Plain!Offer \/ Plain!Lose \/ Plain!Deliver
           v == <<arrivals, OnWay("plain"), Ids(handled["plain"])>>
<1>1. Init => Plain!FifoInit
  BY InitOrder DEF Plain!FifoInit, Kinds
<1>2. IInv /\ OrderInv /\ [Next]_vars => [S]_v
  <2> SUFFICES ASSUME IInv, OrderInv, [Next]_vars PROVE [S]_v
    OBVIOUS
  <2>1. PathStep("plain") /\ arrivals \in Nat
    BY StepPath, Places DEF PathInv, Kinds
  <2> QED
    BY <2>1 DEF PathStep, Plain!Offer, Plain!Lose, Plain!Deliver
<1> QED
  BY <1>1, <1>2, LowNetInvariant, LowNetOrder, PTL
     DEF Spec, PlainFifo, Plain!FifoSpec, Plain!fifoVars

\* Encrypted frames reach theirs through both queues and both tasks alike.
THEOREM LowNetCipherFifo == Spec => CipherFifo
<1> DEFINE S == Cipher!Offer \/ Cipher!Lose \/ Cipher!Deliver
           v == <<arrivals, OnWay("cipher"), Ids(handled["cipher"])>>
<1>1. Init => Cipher!FifoInit
  BY InitOrder DEF Cipher!FifoInit, Kinds
<1>2. IInv /\ OrderInv /\ [Next]_vars => [S]_v
  <2> SUFFICES ASSUME IInv, OrderInv, [Next]_vars PROVE [S]_v
    OBVIOUS
  <2>1. PathStep("cipher") /\ arrivals \in Nat
    BY StepPath, Places DEF PathInv, Kinds
  <2> QED
    BY <2>1 DEF PathStep, Cipher!Offer, Cipher!Lose, Cipher!Deliver
<1> QED
  BY <1>1, <1>2, LowNetInvariant, LowNetOrder, PTL
     DEF Spec, CipherFifo, Cipher!FifoSpec, Cipher!fifoVars

PlainPath  == INSTANCE LossyFifoProofs WITH
                  top <- arrivals, pending <- OnWay("plain"), delivered <- Ids(handled["plain"])
CipherPath == INSTANCE LossyFifoProofs WITH
                  top <- arrivals, pending <- OnWay("cipher"), delivered <- Ids(handled["cipher"])

\* Among the frames of one mode, the handlers ran in the order of arrival and
\* for no frame twice (lownet.c, lines 385-425).
THEOREM LowNetHandledInOrder == Spec => [](PlainPath!InOrder /\ CipherPath!InOrder)
<1>1. PlainFifo => PlainPath!FifoSpec
  BY DEF PlainFifo, Plain!FifoSpec, Plain!FifoInit, Plain!Offer, Plain!Lose, Plain!Deliver,
     Plain!fifoVars, PlainPath!FifoSpec, PlainPath!FifoInit, PlainPath!Offer,
     PlainPath!Lose, PlainPath!Deliver, PlainPath!fifoVars
<1>2. PlainPath!FifoSpec => []PlainPath!InOrder
  BY PlainPath!FifoInOrder
<1>3. CipherFifo => CipherPath!FifoSpec
  BY DEF CipherFifo, Cipher!FifoSpec, Cipher!FifoInit, Cipher!Offer, Cipher!Lose,
     Cipher!Deliver, Cipher!fifoVars, CipherPath!FifoSpec, CipherPath!FifoInit,
     CipherPath!Offer, CipherPath!Lose, CipherPath!Deliver, CipherPath!fifoVars
<1>4. CipherPath!FifoSpec => []CipherPath!InOrder
  BY CipherPath!FifoInOrder
<1> QED
  BY <1>1, <1>2, <1>3, <1>4, LowNetPlainFifo, LowNetCipherFifo, PTL

(***************************** sound frames ********************************)

\* What the CRC says of a frame that awaits decryption, and of one that has
\* arrived in this epoch and was decrypted.
RawGood(f)        == f.good <=> f.air.ok
PlainGood(f, e, b) ==
    f.epoch = e => (f.good <=> (f.air.ok /\ (f.air.kind = "cipher" => f.air.key = b)))

GoodInv ==
    /\ \A f \in Members(decryptQ) : RawGood(f)
    /\ \A f \in Being : IF decAt = "plain" THEN PlainGood(f, epoch, keyBytes) ELSE RawGood(f)
    /\ \A f \in Taken \cup Members(inbound) : PlainGood(f, epoch, keyBytes)

\* What Put, Head and Tail do to the members, whatever their order.
LEMMA PutMembers ==
    ASSUME NEW q \in Seq(Queued), NEW f \in Queued
    PROVE  Members(Put(q, f)) \subseteq Members(q) \cup {f}
<1>1. CASE Put(q, f) = Append(q, f)
  <2>1. /\ Len(q) \in Nat /\ Len(Append(q, f)) = Len(q) + 1 /\ Append(q, f)[Len(q) + 1] = f
        /\ \A i \in 1..Len(q) : Append(q, f)[i] = q[i]
    BY AppendProperties, LenProperties
  <2>2. \A i \in 1..Len(q) + 1 : i \in 1..Len(q) \/ i = Len(q) + 1
    BY <2>1
  <2> QED
    BY <1>1, <2>1, <2>2 DEF Members
<1>2. CASE Put(q, f) = q
  BY <1>2
<1> QED
  BY <1>1, <1>2 DEF Put

LEMMA TakeMembers ==
    ASSUME NEW q \in Seq(Queued), q # <<>>
    PROVE  Head(q) \in Members(q) /\ Members(Tail(q)) \subseteq Members(q)
<1>1. /\ Len(q) \in Nat /\ Len(q) >= 1 /\ Head(q) = q[1] /\ Len(Tail(q)) = Len(q) - 1
      /\ \A i \in 1..Len(Tail(q)) : Tail(q)[i] = q[i + 1]
  BY HeadTailProperties, LenProperties, EmptySeq
<1>2. 1 \in 1..Len(q) /\ \A i \in 1..Len(Tail(q)) : i + 1 \in 1..Len(q)
  BY <1>1
<1> QED
  BY <1>1, <1>2 DEF Members

\* A step of the receive path keeps the key.
LEMMA RxKeepsGood ==
    ASSUME IInv, GoodInv, UNCHANGED keyVars,
           \/ \E a \in Arrivals : Arrive(a)
           \/ TakeCipher \/ DecryptKey \/ Decrypt \/ Forward \/ TakeInbound \/ Discard
           \/ \E r \in BOOLEAN : Handle(r)
    PROVE  GoodInv'
<1>0. /\ inbound \in Seq(Queued) /\ decryptQ \in Seq(Queued) /\ dec \in Queued /\ cur \in Queued
      /\ epoch \in Nat /\ keyOn \in BOOLEAN /\ arrivals \in Nat
  BY NetAssumption DEF IInv, Types, RxTypes, KeyTypes
<1>1. epoch' = epoch /\ keyBytes' = keyBytes
  BY DEF keyVars
<1>2. /\ \A f \in Members(decryptQ) : RawGood(f)
      /\ \A f \in Being : IF decAt = "plain" THEN PlainGood(f, epoch, keyBytes) ELSE RawGood(f)
      /\ \A f \in Taken \cup Members(inbound) : PlainGood(f, epoch, keyBytes)
  BY DEF GoodInv
<1>3. ASSUME /\ \A f \in Members(decryptQ') : RawGood(f)
             /\ \A f \in Being' : IF decAt' = "plain" THEN PlainGood(f, epoch, keyBytes) ELSE RawGood(f)
             /\ \A f \in Taken' \cup Members(inbound') : PlainGood(f, epoch, keyBytes)
      PROVE  GoodInv'
  BY <1>1, <1>3, MembersPrime DEF GoodInv, RawGood, PlainGood
<1>4. ASSUME NEW a \in Arrivals, Arrive(a) PROVE GoodInv'
  <2> DEFINE f == [air |-> a, good |-> a.ok, id |-> arrivals', epoch |-> epoch]
  <2>1. /\ inbound' = IF a.kind = "plain" /\ ~keyOn THEN Put(inbound, f) ELSE inbound
        /\ decryptQ' = IF a.kind = "cipher" /\ keyOn THEN Put(decryptQ, f) ELSE decryptQ
        /\ dec' = dec /\ decAt' = decAt /\ cur' = cur /\ arrivals' = arrivals + 1
    BY <1>4 DEF Arrive
  <2>2. f \in Queued
    BY <1>0, <2>1, NetAssumption DEF Queued, AirFrame
  <2>3. RawGood(f) /\ (a.kind = "plain" => PlainGood(f, epoch, keyBytes))
    BY DEF RawGood, PlainGood
  <2> HIDE DEF f
  <2>4. /\ Members(decryptQ') \subseteq Members(decryptQ) \cup {f}
        /\ \/ Members(inbound') = Members(inbound)
           \/ a.kind = "plain" /\ Members(inbound') \subseteq Members(inbound) \cup {f}
    BY <1>0, <2>1, <2>2, PutMembers
  <2>5. Being' = Being /\ Taken' = Taken /\ decAt' = decAt
    BY <2>1 DEF Being, Taken
  <2> QED
    BY <1>2, <1>3, <2>3, <2>4, <2>5
<1>5. CASE TakeCipher
  <2>1. /\ dec' = Head(decryptQ) /\ decryptQ' = Tail(decryptQ) /\ decryptQ # <<>>
        /\ decAt' = "ask" /\ inbound' = inbound /\ cur' = cur
    BY <1>5 DEF TakeCipher
  <2>2. Head(decryptQ) \in Members(decryptQ) /\ Members(decryptQ') \subseteq Members(decryptQ)
    BY <1>0, <2>1, TakeMembers
  <2>3. Being' \subseteq Members(decryptQ) /\ Taken' = Taken /\ decAt' # "plain"
    BY <2>1, <2>2 DEF Being, Taken
  <2> QED
    BY <1>2, <1>3, <2>1, <2>2, <2>3
<1>6. CASE DecryptKey
  <2>1. /\ decAt = "ask" /\ decAt' \in {"bytes", "null"} /\ dec' = dec
        /\ inbound' = inbound /\ decryptQ' = decryptQ /\ cur' = cur
    BY <1>6 DEF DecryptKey
  <2>2. Being' = Being /\ Taken' = Taken
    BY <2>1 DEF Being, Taken
  <2> QED
    BY <1>2, <1>3, <2>1, <2>2
<1>7. CASE Decrypt
  <2>1. /\ dec # NoFrame /\ decAt = "bytes" /\ decAt' = "plain"
        /\ dec' = [dec EXCEPT !.good = dec.good /\ dec.air.key = keyBytes]
        /\ inbound' = inbound /\ decryptQ' = decryptQ /\ cur' = cur
    BY <1>7 DEF Decrypt
  <2>2. /\ dec'.air = dec.air /\ dec'.epoch = dec.epoch
        /\ dec'.good <=> (dec.good /\ dec.air.key = keyBytes)
    BY <1>0, <2>1 DEF Queued
  <2>3. RawGood(dec) /\ dec.air.kind = "cipher"
    BY <1>2, <2>1 DEF Being, IInv, FrameInv
  <2>4. PlainGood(dec', epoch, keyBytes)
    BY <2>2, <2>3 DEF RawGood, PlainGood
  <2>5. Being' \subseteq {dec'} /\ Taken' = Taken
    BY <2>1 DEF Being, Taken
  <2> QED
    BY <1>2, <1>3, <2>1, <2>4, <2>5
<1>8. CASE Forward
  <2>1. /\ dec # NoFrame /\ decAt = "plain" /\ inbound' = Put(inbound, dec) /\ dec' = NoFrame
        /\ decryptQ' = decryptQ /\ cur' = cur
    BY <1>8 DEF Forward
  <2>2. PlainGood(dec, epoch, keyBytes)
    BY <1>2, <2>1 DEF Being
  <2>3. Members(inbound') \subseteq Members(inbound) \cup {dec}
    BY <1>0, <2>1, PutMembers
  <2>4. Being' = {} /\ Taken' = Taken
    BY <2>1 DEF Being, Taken
  <2> QED
    BY <1>2, <1>3, <2>1, <2>2, <2>3, <2>4
<1>9. CASE TakeInbound
  <2>1. /\ cur' = Head(inbound) /\ inbound' = Tail(inbound) /\ inbound # <<>>
        /\ decryptQ' = decryptQ /\ dec' = dec /\ decAt' = decAt
    BY <1>9 DEF TakeInbound
  <2>2. Head(inbound) \in Members(inbound) /\ Members(inbound') \subseteq Members(inbound)
    BY <1>0, <2>1, TakeMembers
  <2>3. Taken' \subseteq Members(inbound) /\ Being' = Being
    BY <2>1, <2>2 DEF Being, Taken
  <2> QED
    BY <1>2, <1>3, <2>1, <2>2, <2>3
<1>10. CASE Discard \/ \E r \in BOOLEAN : Handle(r)
  <2>1. /\ cur' = NoFrame /\ inbound' = inbound
        /\ decryptQ' = decryptQ /\ dec' = dec /\ decAt' = decAt
    BY <1>10 DEF Discard, Handle
  <2>2. Taken' = {} /\ Being' = Being
    BY <2>1 DEF Being, Taken
  <2> QED
    BY <1>2, <1>3, <2>1, <2>2
<1> QED
  BY <1>4, <1>5, <1>6, <1>7, <1>8, <1>9, <1>10

\* Every other step keeps the frames, and either keeps the key's bytes or
\* begins an epoch in which no frame has arrived.
LEMMA RestKeepsGood ==
    ASSUME IInv, GoodInv, UNCHANGED rxVars,
           UNCHANGED <<keyBytes, epoch>> \/ epoch' = epoch + 1
    PROVE  GoodInv'
<1>1. /\ Being' = Being /\ Taken' = Taken /\ inbound' = inbound /\ decryptQ' = decryptQ
      /\ decAt' = decAt
  BY DEF rxVars, Being, Taken
<1>2. ASSUME NEW f \in Being \cup Taken \cup Members(inbound), PlainGood(f, epoch, keyBytes)
      PROVE  PlainGood(f, epoch', keyBytes')
  <2>1. CASE UNCHANGED <<keyBytes, epoch>>
    BY <1>2, <2>1
  <2>2. CASE epoch' = epoch + 1
    <3>1. inbound \in Seq(Queued) /\ cur \in Queued /\ dec \in Queued /\ epoch \in Nat
      BY DEF IInv, Types, RxTypes, KeyTypes
    <3>2. f \in Queued
      BY <3>1, MembersType DEF Taken, Being
    <3>3. Fresh(f, epoch, keyOn)
      BY DEF IInv, FrameInv, Taken, Being, Members
    <3>4. f.epoch # epoch'
      BY <2>2, <3>1, <3>2, <3>3 DEF Fresh, Queued
    <3> QED
      BY <3>4 DEF PlainGood
  <2> QED
    BY <2>1, <2>2
<1>3. /\ \A f \in Members(decryptQ) : RawGood(f)
      /\ \A f \in Being : IF decAt = "plain" THEN PlainGood(f, epoch', keyBytes') ELSE RawGood(f)
      /\ \A f \in Taken \cup Members(inbound) : PlainGood(f, epoch', keyBytes')
  BY <1>2 DEF GoodInv
<1> QED
  BY <1>1, <1>3, MembersPrime DEF GoodInv, RawGood, PlainGood

\* Which of the two a step is.
LEMMA GoodSteps ==
    ASSUME [Next]_vars
    PROVE  \/ /\ \/ \E a \in Arrivals : Arrive(a)
                 \/ TakeCipher \/ DecryptKey \/ Decrypt \/ Forward
                 \/ TakeInbound \/ Discard
                 \/ \E r \in BOOLEAN : Handle(r)
              /\ UNCHANGED keyVars
           \/ UNCHANGED rxVars /\ (UNCHANGED <<keyBytes, epoch>> \/ epoch' = epoch + 1)
<1> USE DEF keyVars
<1>1. CASE \/ \E a \in Arrivals : Arrive(a)
           \/ TakeCipher \/ DecryptKey \/ Decrypt \/ Forward \/ TakeInbound \/ Discard
           \/ \E r \in BOOLEAN : Handle(r)
  BY <1>1 DEF Arrive, TakeCipher, DecryptKey, Decrypt, Forward, TakeInbound, Discard, Handle
<1>2. ASSUME NEW t, Send(t) PROVE UNCHANGED <<rxVars, keyVars>>
  BY <1>2 DEF Send, CheckKey, SendClear, EncryptKey, Encrypt, EncryptNull, Transmit
<1>3. CASE DecryptNull \/ TooLong
  BY <1>3 DEF DecryptNull, TooLong
<1>4. CASE Main
  BY <1>2, <1>4 DEF Main, Register, Copy
<1>5. CASE Console
  BY <1>5 DEF Console, MainSend, SetOff, SetStored, SetUnknown, SetOn
<1>6. CASE UNCHANGED vars
  BY <1>6 DEF vars
<1> QED
  BY <1>1, <1>2, <1>3, <1>4, <1>5, <1>6 DEF Next, Dec, Svc

LEMMA LowNetGood == Spec => []GoodInv
<1>1. Init => GoodInv
  BY DEF Init, GoodInv, Members, Being, Taken
<1>2. IInv /\ GoodInv /\ [Next]_vars => GoodInv'
  BY GoodSteps, RxKeepsGood, RestKeepsGood
<1> QED
  BY <1>1, <1>2, LowNetInvariant, PTL DEF Spec

\* A frame that arrived intact since the last /setkey, for this node and under
\* the selected key, reaches its handler once svc has taken it.
THEOREM LowNetSoundIsHandled == Spec => SoundIsHandled
<1>1. IInv /\ GoodInv /\ [Next]_vars
        => [cur # NoFrame /\ cur' = NoFrame /\ Sound(cur.air) /\ HasHandler(cur.air.proto)
              /\ cur.epoch = epoch /\ Settled => handled' # handled]_vars
  <2> SUFFICES ASSUME IInv, GoodInv, [Next]_vars, cur # NoFrame, cur' = NoFrame,
                      Sound(cur.air), HasHandler(cur.air.proto), cur.epoch = epoch, Settled
               PROVE  handled' # handled
    OBVIOUS
  <2>1. Discard \/ \E r \in BOOLEAN : Handle(r)
    <3>1. cur' # cur /\ ~UNCHANGED rxVars
      BY DEF rxVars
    <3>2. /\ ~(\E a \in Arrivals : Arrive(a)) /\ ~TakeInbound
          /\ ~TakeCipher /\ ~DecryptKey /\ ~Decrypt /\ ~Forward
      BY <3>1 DEF Arrive, TakeInbound, TakeCipher, DecryptKey, Decrypt, Forward
    <3> QED
      BY <3>1, <3>2, RxSteps
  <2>2. cur.good
    <3>1. PlainGood(cur, epoch, keyBytes) /\ Fresh(cur, epoch, keyOn)
      BY DEF GoodInv, Taken, IInv, FrameInv
    <3>2. cur.air.kind = "cipher" => keyBytes = selected
      <4>1. cur.air.kind = "cipher" => selected # "typed"
        BY DEF Sound, IInv, Types, RxTypes, Queued, AirFrame, KeyBytes
      <4> QED
        BY <3>1, <4>1 DEF Fresh, IInv, KeyInv
    <3> QED
      BY <3>1, <3>2 DEF PlainGood, Sound
  <2>3. ~Discard
    BY <2>2 DEF Discard, Valid, Sound
  <2>4. PICK r \in BOOLEAN : Handle(r)
    BY <2>1, <2>3
  <2>5. /\ handled' = [handled EXCEPT ![cur.air.kind] = Append(handled[cur.air.kind], cur)]
        /\ handled \in [Kinds -> Seq(Queued)] /\ cur \in Queued /\ cur.air.kind \in Kinds
        /\ handled[cur.air.kind] \in Seq(Queued)
    BY <2>4 DEF Handle, IInv, Types, RxTypes, Queued, AirFrame
  <2>6. /\ Len(Append(handled[cur.air.kind], cur)) = Len(handled[cur.air.kind]) + 1
        /\ Len(handled[cur.air.kind]) \in Nat
    BY <2>5, AppendProperties, LenProperties
  <2>7. handled'[cur.air.kind] = Append(handled[cur.air.kind], cur)
    BY <2>5
  <2> QED
    BY <2>6, <2>7
<1> QED
  BY <1>1, LowNetGood, LowNetInvariant, PTL DEF Spec, SoundIsHandled
=============================================================================
