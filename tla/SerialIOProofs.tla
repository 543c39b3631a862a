--------------------------- MODULE SerialIOProofs ----------------------------
(***************************************************************************)
(* Type correctness and line integrity of SerialIO, and the order of both  *)
(* of its queues, for every size of the buffer and of the queues and every *)
(* number and length of lines.  The invariant says what the buffer of      *)
(* svc_serial holds between two characters: those read of the line so far, *)
(* as many as fit, and zeros; and that the numbers in each queue rise.     *)
(***************************************************************************)
EXTENDS SerialIO, SequenceTheorems, TLAPS

\* A line as the user typed it, when the lines typed have these lengths.
Good(l, ls) ==
    /\ l.id \in 1..Len(ls)
    /\ l.msg = [j \in 0..BufLen - 1 |-> IF j < ls[l.id] /\ j < BufLen - 1 THEN l.id ELSE 0]

BufferInv == in_msg = [j \in 0..BufLen - 1 |->
                          IF j < at /\ j < BufLen - 1 THEN Len(lens) + 1 ELSE 0]

IInv ==
    /\ TypeOK /\ BufferInv
    /\ \A i \in 1..Len(queue_read) : Good(queue_read[i], lens)
    /\ \A i \in 1..Len(got) : Good(got[i], lens)

InTypes  == /\ in_msg \in Chars /\ at \in 0..MaxLen
            /\ queue_read \in Seq(Line) /\ Len(queue_read) <= ReadDepth
            /\ lens \in Seq(0..MaxLen) /\ Len(lens) <= MaxLines
OutTypes == /\ queue_write \in Seq(Nat) /\ Len(queue_write) <= WriteDepth
            /\ offered \in Nat /\ fromNet \in 0..MaxNet /\ printed \in Seq(Nat)
ConTypes == /\ main \in {"read", "parse", "run"} /\ msg_in \in Line /\ left \in Nat
            /\ got \in Seq(Line)
SvcTypes == svc \in {"drain", "get"} /\ halted \in {"no", "null argument"}

LEMMA TypeParts == TypeOK <=> InTypes /\ OutTypes /\ ConTypes /\ SvcTypes
BY DEF TypeOK, InTypes, OutTypes, ConTypes, SvcTypes

LEMMA NoLineIsLine == NoLine \in Line
BY SerialAssumption DEF NoLine, Line, Empty, Chars

LEMMA InitIInv == Init => IInv
<1> SUFFICES ASSUME Init PROVE IInv
  OBVIOUS
<1> USE SerialAssumption DEF Init
<1>1. InTypes
  BY DEF InTypes, Chars, Empty
<1>2. OutTypes /\ SvcTypes
  BY DEF OutTypes, SvcTypes
<1>3. ConTypes
  BY NoLineIsLine DEF ConTypes
<1>4. BufferInv
  BY DEF BufferInv, Empty
<1> QED
  BY <1>1, <1>2, <1>3, <1>4, TypeParts DEF IInv

\* xQueueSend without waiting never exceeds the depth, and what it queues is
\* what was queued or the new element.
LEMMA PutProperties ==
    ASSUME NEW S, NEW q \in Seq(S), NEW line \in S, NEW depth \in Nat, Len(q) <= depth
    PROVE  /\ Put(q, depth, line) \in Seq(S) /\ Len(Put(q, depth, line)) <= depth
           /\ \A i \in 1..Len(Put(q, depth, line)) :
                 \/ i \in 1..Len(q) /\ Put(q, depth, line)[i] = q[i]
                 \/ Put(q, depth, line)[i] = line
<1>1. CASE Len(q) < depth
  BY <1>1, AppendProperties, LenProperties DEF Put
<1>2. CASE ~(Len(q) < depth)
  BY <1>2 DEF Put
<1> QED
  BY <1>1, <1>2

\* A step that leaves the input alone.
LEMMA InputStays ==
    ASSUME IInv, UNCHANGED <<in_msg, at, queue_read, lens, got>>,
           OutTypes', ConTypes', SvcTypes'
    PROVE  IInv'
<1>1. InTypes'
  BY TypeParts DEF IInv, InTypes
<1>2. BufferInv' /\ (\A i \in 1..Len(queue_read) : Good(queue_read[i], lens))'
      /\ (\A i \in 1..Len(got) : Good(got[i], lens))'
  BY DEF IInv, BufferInv
<1>3. TypeOK'
  BY <1>1, TypeParts, PTL
<1> QED
  BY <1>2, <1>3 DEF IInv

\* A line written to queue_write, whoever writes it.
LEMMA WriteKeepsTypes ==
    ASSUME OutTypes, WriteLine, fromNet' \in 0..MaxNet PROVE OutTypes'
<1>1. offered' \in Nat
  BY DEF OutTypes, WriteLine
<1>2. queue_write' \in Seq(Nat) /\ Len(queue_write') <= WriteDepth
  BY <1>1, PutProperties, SerialAssumption DEF OutTypes, WriteLine
<1> QED
  BY <1>1, <1>2 DEF OutTypes, WriteLine

LEMMA SvcKeepsIInv == IInv /\ Svc => IInv'
<1> SUFFICES ASSUME IInv, Svc PROVE IInv'
  OBVIOUS
<1>0. OutTypes /\ ConTypes /\ SvcTypes
  BY TypeParts DEF IInv
<1>1. UNCHANGED <<in_msg, at, queue_read, lens, got>>
  BY DEF Svc, PrintLine, Drained, Eof, inVars, conVars
<1>2. ConTypes' /\ SvcTypes'
  BY <1>0 DEF Svc, PrintLine, Drained, Eof, conVars, ConTypes, SvcTypes
<1>3. CASE PrintLine
  <2>1. Head(queue_write) \in Nat /\ Tail(queue_write) \in Seq(Nat)
        /\ Len(Tail(queue_write)) = Len(queue_write) - 1
    BY <1>0, <1>3, HeadTailProperties DEF PrintLine, OutTypes
  <2>2. Append(printed, Head(queue_write)) \in Seq(Nat)
    BY <1>0, <2>1, AppendProperties DEF OutTypes
  <2>3. Len(queue_write) \in Nat /\ WriteDepth \in Nat
    BY <1>0, LenProperties, SerialAssumption DEF OutTypes
  <2>4. OutTypes'
    BY <1>0, <1>3, <2>1, <2>2, <2>3 DEF PrintLine, OutTypes
  <2> QED
    BY <1>1, <1>2, <2>4, InputStays
<1>4. CASE Drained \/ Eof
  <2>1. OutTypes'
    BY <1>0, <1>4 DEF Drained, Eof, outVars, OutTypes
  <2> QED
    BY <1>1, <1>2, <2>1, InputStays
<1> QED
  BY <1>3, <1>4 DEF Svc

\* A character enters the buffer, or is only counted.
LEMMA StoreKeepsIInv == IInv /\ Store => IInv'
<1> SUFFICES ASSUME IInv, Store PROVE IInv'
  OBVIOUS
<1> USE SerialAssumption
<1>0. InTypes /\ OutTypes /\ ConTypes /\ SvcTypes
  BY TypeParts DEF IInv
<1>1. Len(lens) \in Nat /\ Len(lens) < MaxLines
  BY <1>0, LenProperties DEF InTypes, Store, Typing
<1>2. at' = at + 1 /\ at' \in 0..MaxLen /\ UNCHANGED <<queue_read, lens, got>>
  BY <1>0 DEF Store, InTypes, conVars
<1>3. BufferInv'
  <2>1. at \in Nat /\ MaxLen \in Nat /\ BufLen \in Nat
    BY <1>0 DEF InTypes
  <2>2. CASE at < BufLen - 1
    <3>1. in_msg' = [in_msg EXCEPT ![at] = Len(lens) + 1]
      BY <2>2 DEF Store
    <3>2. in_msg' = [j \in 0..BufLen - 1 |-> IF j = at THEN Len(lens) + 1 ELSE in_msg[j]]
      BY <2>1, <2>2, <3>1 DEF IInv, BufferInv
    <3>3. \A j \in 0..BufLen - 1 :
             in_msg'[j] = IF j < at + 1 /\ j < BufLen - 1 THEN Len(lens) + 1 ELSE 0
      BY <2>1, <2>2, <3>2 DEF IInv, BufferInv
    <3> QED
      BY <1>2, <3>2, <3>3 DEF BufferInv
  <2>3. CASE ~(at < BufLen - 1)
    <3>1. in_msg' = in_msg
      BY <2>3 DEF Store
    <3> QED
      BY <1>2, <2>1, <2>3, <3>1 DEF IInv, BufferInv
  <2> QED
    BY <2>2, <2>3
<1>4. in_msg' \in Chars
  BY <1>1, <1>2, <1>3 DEF BufferInv, Chars
<1>5. InTypes' /\ OutTypes' /\ ConTypes' /\ SvcTypes'
  BY <1>0, <1>2, <1>4 DEF InTypes, OutTypes, ConTypes, SvcTypes, Store, Typing,
     outVars, conVars
<1>6. TypeOK'
  BY <1>5, TypeParts, PTL
<1>7. (\A i \in 1..Len(queue_read) : Good(queue_read[i], lens))'
      /\ (\A i \in 1..Len(got) : Good(got[i], lens))'
  BY <1>2 DEF IInv
<1> QED
  BY <1>3, <1>6, <1>7 DEF IInv

\* A line that was complete stays what it was when another one ends.
LEMMA GoodStays ==
    ASSUME NEW n \in 0..MaxLen, lens \in Seq(0..MaxLen), lens' = Append(lens, n),
           NEW l, Good(l, lens)
    PROVE  Good(l, lens')
<1>1. Len(lens) \in Nat /\ Len(lens') = Len(lens) + 1
      /\ \A i \in 1..Len(lens) : lens'[i] = lens[i]
  BY AppendProperties, LenProperties
<1> QED
  BY <1>1 DEF Good

LEMMA EndLineKeepsIInv == IInv /\ EndLine => IInv'
<1> SUFFICES ASSUME IInv, EndLine PROVE IInv'
  OBVIOUS
<1> USE SerialAssumption
<1> DEFINE line == [id |-> Len(lens'), msg |-> in_msg]
<1>0. InTypes /\ OutTypes /\ ConTypes /\ SvcTypes
  BY TypeParts DEF IInv
<1>1. lens' = Append(lens, at) /\ at \in 0..MaxLen /\ lens \in Seq(0..MaxLen)
      /\ Len(lens) < MaxLines
  BY <1>0 DEF EndLine, Typing, InTypes
<1>2. /\ Len(lens) \in Nat /\ Len(lens') = Len(lens) + 1 /\ lens' \in Seq(0..MaxLen)
      /\ lens'[Len(lens')] = at
  BY <1>1, AppendProperties, LenProperties
<1>3. line \in Line
  BY <1>0, <1>1, <1>2 DEF InTypes, Line
<1>4. Good(line, lens')
  BY <1>1, <1>2 DEF IInv, BufferInv, Good
<1>5. /\ queue_read' = Put(queue_read, ReadDepth, line)
      /\ queue_read' \in Seq(Line) /\ Len(queue_read') <= ReadDepth
  BY <1>0, <1>3, PutProperties DEF EndLine, InTypes
<1>6. \A i \in 1..Len(queue_read') : Good(queue_read'[i], lens')
  <2> SUFFICES ASSUME NEW i \in 1..Len(queue_read') PROVE Good(queue_read'[i], lens')
    OBVIOUS
  <2>1. CASE i \in 1..Len(queue_read) /\ queue_read'[i] = queue_read[i]
    BY <1>1, <2>1, GoodStays DEF IInv
  <2>2. CASE queue_read'[i] = line
    BY <1>4, <2>2
  <2> QED
    BY <1>0, <1>3, <1>5, <2>1, <2>2, PutProperties DEF InTypes
<1>7. got' = got /\ \A i \in 1..Len(got) : Good(got[i], lens')
  BY <1>1, GoodStays DEF IInv, EndLine, conVars
<1>8. BufferInv' /\ in_msg' \in Chars
  BY DEF EndLine, BufferInv, Empty, Chars
<1>9. InTypes' /\ OutTypes' /\ ConTypes' /\ SvcTypes'
  <2>1. at' = 0 /\ svc' = "drain" /\ UNCHANGED <<outVars, conVars, halted>>
    BY DEF EndLine, Typing
  <2>2. InTypes'
    BY <1>1, <1>2, <1>5, <1>8, <2>1 DEF InTypes
  <2>3. OutTypes'
    BY <1>0, <2>1 DEF OutTypes, outVars
  <2>4. ConTypes' /\ SvcTypes'
    BY <1>0, <2>1 DEF ConTypes, SvcTypes, conVars
  <2> QED
    BY <2>2, <2>3, <2>4
<1>10. TypeOK'
  BY <1>9, TypeParts, PTL
<1> QED
  BY <1>6, <1>7, <1>8, <1>10 DEF IInv

LEMMA ReadLineKeepsIInv == IInv /\ ReadLine => IInv'
<1> SUFFICES ASSUME IInv, ReadLine PROVE IInv'
  OBVIOUS
<1>0. InTypes /\ OutTypes /\ ConTypes /\ SvcTypes
  BY TypeParts DEF IInv
<1> DEFINE line == Head(queue_read)
<1>1. /\ queue_read' = Tail(queue_read) /\ got' = Append(got, line)
      /\ msg_in' = line /\ main' = "parse" /\ queue_read # <<>>
      /\ UNCHANGED <<in_msg, at, lens, left, halted, svc, outVars>>
  BY DEF ReadLine
<1>2. /\ line \in Line /\ Tail(queue_read) \in Seq(Line)
      /\ Len(Tail(queue_read)) = Len(queue_read) - 1
      /\ \A i \in 1..Len(Tail(queue_read)) : Tail(queue_read)[i] = queue_read[i + 1]
  BY <1>0, <1>1, HeadTailProperties DEF InTypes
<1>3. Len(queue_read) \in Nat /\ Len(queue_read) >= 1 /\ line = queue_read[1]
  BY <1>0, <1>1, LenProperties, EmptySeq DEF InTypes
<1>4. /\ Append(got, line) \in Seq(Line) /\ Len(Append(got, line)) = Len(got) + 1
      /\ \A i \in 1..Len(got) : Append(got, line)[i] = got[i]
      /\ Append(got, line)[Len(got) + 1] = line /\ Len(got) \in Nat
  BY <1>0, <1>2, AppendProperties, LenProperties DEF ConTypes
<1>5. InTypes' /\ OutTypes' /\ ConTypes' /\ SvcTypes'
  <2>1. InTypes'
    BY <1>0, <1>1, <1>2, <1>3, SerialAssumption DEF InTypes
  <2>2. OutTypes'
    BY <1>0, <1>1 DEF OutTypes, outVars
  <2>3. ConTypes' /\ SvcTypes'
    BY <1>0, <1>1, <1>2, <1>4 DEF ConTypes, SvcTypes
  <2> QED
    BY <2>1, <2>2, <2>3
<1>6. TypeOK'
  BY <1>5, TypeParts, PTL
<1>7. Good(line, lens)
  BY <1>3 DEF IInv
<1>8. lens' = lens
  BY <1>1
<1>9. \A i \in 1..Len(queue_read') : Good(queue_read'[i], lens')
  BY <1>1, <1>2, <1>3, <1>8 DEF IInv
<1>10. \A i \in 1..Len(got') : Good(got'[i], lens')
  BY <1>1, <1>4, <1>7, <1>8 DEF IInv
<1>11. BufferInv'
  BY <1>1 DEF IInv, BufferInv
<1> QED
  BY <1>6, <1>9, <1>10, <1>11 DEF IInv

\* The rest of app_main, and the network service.
LEMMA OthersKeepIInv ==
    ASSUME IInv,
           \/ Skip \/ Reply \/ Done \/ DispatchNothing \/ NetLine
           \/ \E name \in DOMAIN Replies : Dispatch(name)
    PROVE  IInv'
<1>0. OutTypes /\ ConTypes /\ SvcTypes
  BY TypeParts DEF IInv
<1> USE NoLineIsLine, SerialAssumption DEF inVars, outVars, conVars
<1>1. CASE Skip \/ Done \/ DispatchNothing
  <2>1. OutTypes' /\ UNCHANGED <<in_msg, at, queue_read, lens, got>>
    BY <1>0, <1>1 DEF Skip, Done, DispatchNothing, OutTypes
  <2>2. ConTypes' /\ SvcTypes'
    BY <1>0, <1>1 DEF Skip, Done, DispatchNothing, ConTypes, SvcTypes
  <2> QED
    BY <2>1, <2>2, InputStays
<1>2. CASE Reply \/ NetLine
  <2>1. WriteLine /\ fromNet' \in 0..MaxNet
        /\ UNCHANGED <<in_msg, at, queue_read, lens, got>>
    BY <1>0, <1>2 DEF Reply, NetLine, OutTypes
  <2>2. ConTypes' /\ SvcTypes'
    <3>1. CASE Reply
      <4>1. left' \in Nat
        BY <1>0, <3>1 DEF Reply, ConTypes
      <4>2. UNCHANGED <<svc, main, msg_in, got, halted>>
        BY <3>1 DEF Reply
      <4> QED
        BY <1>0, <4>1, <4>2 DEF ConTypes, SvcTypes
    <3>2. CASE NetLine
      BY <1>0, <3>2 DEF NetLine, ConTypes, SvcTypes
    <3> QED
      BY <1>2, <3>1, <3>2
  <2>3. OutTypes'
    BY <1>0, <2>1, WriteKeepsTypes
  <2> QED
    BY <2>1, <2>2, <2>3, InputStays
<1>3. ASSUME NEW name \in DOMAIN Replies, Dispatch(name) PROVE IInv'
  <2>1. Replies[name] \subseteq Nat
    BY DEF Replies
  <2>2. OutTypes' /\ UNCHANGED <<in_msg, at, queue_read, lens, got>>
    BY <1>0, <1>3 DEF Dispatch, OutTypes
  <2>3. ConTypes' /\ SvcTypes'
    BY <1>0, <1>3, <2>1 DEF Dispatch, ConTypes, SvcTypes
  <2> QED
    BY <2>2, <2>3, InputStays
<1> QED
  BY <1>1, <1>2, <1>3

LEMMA StutterKeepsIInv == IInv /\ UNCHANGED vars => IInv'
<1> SUFFICES ASSUME IInv, UNCHANGED vars PROVE IInv'
  OBVIOUS
<1>1. OutTypes /\ ConTypes /\ SvcTypes
  BY TypeParts DEF IInv
<1>2. OutTypes' /\ ConTypes' /\ SvcTypes'
  BY <1>1 DEF OutTypes, ConTypes, SvcTypes, vars, inVars, outVars, conVars
<1> QED
  BY <1>2, InputStays DEF vars, inVars, conVars

LEMMA NextKeepsIInv == IInv /\ [Next]_vars => IInv'
BY SvcKeepsIInv, StoreKeepsIInv, EndLineKeepsIInv, ReadLineKeepsIInv, OthersKeepIInv,
   StutterKeepsIInv DEF Next, Main

\* The inductive invariant holds in every run of the serial line.
THEOREM SerialInvariant == Spec => []IInv
BY InitIInv, NextKeepsIInv, PTL DEF Spec

\* Every variable keeps its type and both queues their depths
\* (serial_io.c, lines 60-68).
THEOREM SerialTypeCorrect == Spec => []TypeOK
<1>1. IInv => TypeOK
  BY DEF IInv
<1> QED
  BY <1>1, SerialInvariant, PTL

\* The console works on exactly what was typed, cut to the buffer and
\* terminated, for every size of the buffer (serial_io.c, lines 109-127).
THEOREM SerialLineIntegrity == Spec => []LineIntegrity
<1>1. IInv => LineIntegrity
  BY DEF IInv, LineIntegrity, Good, Typed
<1> QED
  BY <1>1, SerialInvariant, PTL

(***************************** the two queues ******************************)

\* The numbers in a queue, each larger than those before it.
Rising(q)   == \A i, j \in 1..Len(q) : i < j => q[i] < q[j]
UpTo(q, n)  == \A i \in 1..Len(q) : q[i] <= n

OutputInv == Rising(queue_write) /\ UpTo(queue_write, offered)
InputInv  == Rising(Ids(queue_read)) /\ UpTo(Ids(queue_read), Len(lens))

\* The head of a rising queue is what went in first.
LEMMA RisingTake ==
    ASSUME NEW q \in Seq(Nat), q # <<>>, Rising(q), NEW n, UpTo(q, n)
    PROVE  /\ Head(q) \in Members(q) /\ \A m \in Members(q) : Head(q) <= m
           /\ Members(Tail(q)) = Members(q) \ {Head(q)}
           /\ Rising(Tail(q)) /\ UpTo(Tail(q), n)
<1>1. /\ Len(q) \in Nat /\ Len(q) >= 1 /\ Head(q) = q[1] /\ Len(Tail(q)) = Len(q) - 1
      /\ \A i \in 1..Len(Tail(q)) : Tail(q)[i] = q[i + 1]
      /\ \A i \in 1..Len(q) : q[i] \in Nat
  BY HeadTailProperties, LenProperties, EmptySeq, ElementOfSeq
<1>2. Rising(Tail(q)) /\ UpTo(Tail(q), n)
  BY <1>1 DEF Rising, UpTo
<1>3. \A i \in 2..Len(q) : q[1] < q[i]
  BY <1>1 DEF Rising
<1>4. Head(q) \in Members(q) /\ \A m \in Members(q) : Head(q) <= m
  BY <1>1, <1>3 DEF Members
<1>5. ASSUME NEW m PROVE m \in Members(Tail(q)) <=> m \in Members(q) \ {Head(q)}
  <2>1. ASSUME m \in Members(Tail(q)) PROVE m \in Members(q) \ {Head(q)}
    <3>1. PICK i \in 1..Len(Tail(q)) : m = Tail(q)[i]
      BY <2>1 DEF Members
    <3>2. i + 1 \in 2..Len(q) /\ m = q[i + 1]
      BY <1>1, <3>1
    <3>3. q[1] < m /\ q[1] \in Nat /\ m \in Nat
      BY <1>1, <1>3, <3>2
    <3> QED
      BY <1>1, <3>2, <3>3 DEF Members
  <2>2. ASSUME m \in Members(q) \ {Head(q)} PROVE m \in Members(Tail(q))
    <3>1. PICK i \in 1..Len(q) : m = q[i]
      BY <2>2 DEF Members
    <3>2. i # 1
      BY <1>1, <2>2, <3>1
    <3>3. i - 1 \in 1..Len(Tail(q)) /\ Tail(q)[i - 1] = m
      BY <1>1, <3>1, <3>2
    <3> QED
      BY <3>3 DEF Members
  <2> QED
    BY <2>1, <2>2
<1> QED
  BY <1>2, <1>4, <1>5

\* A number larger than all before it is queued last, or dropped.
LEMMA RisingPut ==
    ASSUME NEW q \in Seq(Nat), Rising(q), NEW n \in Nat, UpTo(q, n), NEW m \in Nat, n < m,
           NEW r, r = q \/ r = Append(q, m)
    PROVE  /\ Rising(r) /\ UpTo(r, m)
           /\ Members(r) = Members(q) \/ Members(r) = Members(q) \cup {m}
<1>0. Len(q) \in Nat /\ \A i \in 1..Len(q) : q[i] \in Nat /\ q[i] < m
  BY LenProperties, ElementOfSeq DEF UpTo
<1>1. CASE r = q
  BY <1>0, <1>1 DEF UpTo
<1>2. CASE r = Append(q, m)
  <2>1. /\ Len(r) = Len(q) + 1 /\ r[Len(q) + 1] = m /\ \A i \in 1..Len(q) : r[i] = q[i]
    BY <1>2, AppendProperties
  <2>2. \A i \in 1..Len(r) : \/ i \in 1..Len(q) /\ r[i] = q[i] /\ r[i] < m
                             \/ i = Len(q) + 1 /\ r[i] = m
    BY <1>0, <2>1
  <2>3. Rising(r)
    <3> SUFFICES ASSUME NEW i \in 1..Len(r), NEW j \in 1..Len(r), i < j PROVE r[i] < r[j]
      BY DEF Rising
    <3>1. i \in 1..Len(q) /\ r[i] = q[i] /\ r[i] < m
      BY <1>0, <2>1, <2>2
    <3>2. CASE j \in 1..Len(q) /\ r[j] = q[j]
      BY <3>1, <3>2 DEF Rising
    <3> QED
      BY <2>2, <3>1, <3>2
  <2>5. UpTo(r, m)
    BY <1>0, <2>2 DEF UpTo
  <2>4. Members(r) = Members(q) \cup {m}
    <3>1. Len(q) + 1 \in 1..Len(r) /\ \A i \in 1..Len(q) : i \in 1..Len(r)
      BY <1>0, <2>1
    <3>2. Members(q) \cup {m} \subseteq Members(r)
      BY <2>1, <3>1 DEF Members
    <3>3. Members(r) \subseteq Members(q) \cup {m}
      BY <2>2 DEF Members
    <3> QED
      BY <3>2, <3>3
  <2> QED
    BY <2>3, <2>4, <2>5
<1> QED
  BY <1>1, <1>2

\* The numbers of the queued lines follow the queue.
LEMMA IdsProperties ==
    ASSUME NEW q \in Seq(Line)
    PROVE  /\ Ids(q) \in Seq(Nat) /\ Len(Ids(q)) = Len(q)
           /\ \A l \in Line : Ids(Append(q, l)) = Append(Ids(q), l.id)
           /\ q # <<>> => /\ Ids(q) # <<>> /\ Head(Ids(q)) = Head(q).id
                          /\ Ids(Tail(q)) = Tail(Ids(q))
<1>1. Len(q) \in Nat /\ \A i \in 1..Len(q) : q[i].id \in Nat
  <2>1. \A i \in 1..Len(q) : q[i] \in Line
    BY ElementOfSeq
  <2> QED
    BY <2>1, LenProperties, SerialAssumption DEF Line
<1>2. Ids(q) \in Seq(Nat) /\ Len(Ids(q)) = Len(q) /\ \A i \in 1..Len(q) : Ids(q)[i] = q[i].id
  BY <1>1 DEF Ids
<1>3. ASSUME NEW l \in Line PROVE Ids(Append(q, l)) = Append(Ids(q), l.id)
  <2>1. l.id \in Nat
    BY SerialAssumption DEF Line
  <2>2. /\ Append(q, l) \in Seq(Line) /\ Len(Append(q, l)) = Len(q) + 1
        /\ Append(q, l)[Len(q) + 1] = l /\ \A i \in 1..Len(q) : Append(q, l)[i] = q[i]
    BY AppendProperties
  <2>3. /\ Append(Ids(q), l.id) \in Seq(Nat) /\ Len(Append(Ids(q), l.id)) = Len(q) + 1
        /\ Append(Ids(q), l.id)[Len(q) + 1] = l.id
        /\ \A i \in 1..Len(q) : Append(Ids(q), l.id)[i] = q[i].id
    BY <1>2, <2>1, AppendProperties
  <2>4. /\ Ids(Append(q, l)) \in Seq(Nat) /\ Len(Ids(Append(q, l))) = Len(q) + 1
        /\ \A i \in 1..Len(q) + 1 : Ids(Append(q, l))[i] = Append(q, l)[i].id
    <3>1. \A i \in 1..Len(q) + 1 : Append(q, l)[i].id \in Nat
      BY <1>1, <2>1, <2>2
    <3> QED
      BY <1>1, <2>2, <3>1 DEF Ids
  <2>5. \A i \in 1..Len(q) + 1 : i \in 1..Len(q) \/ i = Len(q) + 1
    BY <1>1
  <2>6. \A i \in 1..Len(q) + 1 : Ids(Append(q, l))[i] = Append(Ids(q), l.id)[i]
    BY <2>2, <2>3, <2>4, <2>5
  <2> QED
    BY <2>3, <2>4, <2>6, SeqEqual
<1>4. ASSUME q # <<>>
      PROVE  Ids(q) # <<>> /\ Head(Ids(q)) = Head(q).id /\ Ids(Tail(q)) = Tail(Ids(q))
  <2>1. /\ Len(q) >= 1 /\ Head(q) = q[1] /\ Tail(q) \in Seq(Line) /\ Len(Tail(q)) = Len(q) - 1
        /\ \A i \in 1..Len(Tail(q)) : Tail(q)[i] = q[i + 1]
    BY <1>1, <1>4, HeadTailProperties, EmptySeq
  <2>2. Ids(q) # <<>>
    BY <1>2, <2>1, EmptySeq
  <2>3. /\ Head(Ids(q)) = q[1].id /\ Tail(Ids(q)) \in Seq(Nat) /\ Len(Tail(Ids(q))) = Len(q) - 1
        /\ \A i \in 1..Len(q) - 1 : Tail(Ids(q))[i] = Ids(q)[i + 1]
    BY <1>1, <1>2, <2>1, <2>2, HeadTailProperties
  <2>4. \A i \in 1..Len(q) - 1 : Tail(q)[i].id = q[i + 1].id /\ q[i + 1].id \in Nat
    BY <1>1, <2>1
  <2>5. /\ Ids(Tail(q)) \in Seq(Nat) /\ Len(Ids(Tail(q))) = Len(q) - 1
        /\ \A i \in 1..Len(q) - 1 : Ids(Tail(q))[i] = q[i + 1].id
    BY <1>1, <2>1, <2>4 DEF Ids
  <2>6. \A i \in 1..Len(q) - 1 : Ids(Tail(q))[i] = Tail(Ids(q))[i]
    BY <1>1, <1>2, <2>3, <2>5
  <2> QED
    BY <2>1, <2>2, <2>3, <2>5, <2>6, SeqEqual
<1> QED
  BY <1>2, <1>3, <1>4

(***************************** the two paths *******************************)

LEMMA InitOrder == Init => OutputInv /\ InputInv
<1> SUFFICES ASSUME Init PROVE OutputInv /\ InputInv
  OBVIOUS
<1>1. Len(queue_write) = 0 /\ Len(Ids(queue_read)) = 0
  BY DEF Init, Ids
<1> QED
  BY <1>1 DEF OutputInv, InputInv, Rising, UpTo

\* What a step does to the lines to be printed.
LEMMA OutputStep ==
    ASSUME IInv, OutputInv, [Next]_vars
    PROVE  /\ OutputInv'
           /\ [Output!Offer \/ Output!Lose \/ Output!Deliver]_(Output!fifoVars)
<1>0. queue_write \in Seq(Nat) /\ offered \in Nat /\ printed \in Seq(Nat)
  BY DEF IInv, TypeOK
<1>1. CASE PrintLine
  <2>1. /\ queue_write # <<>> /\ queue_write' = Tail(queue_write)
        /\ printed' = Append(printed, Head(queue_write)) /\ offered' = offered
    BY <1>1 DEF PrintLine
  <2>2. /\ Head(queue_write) \in Members(queue_write)
        /\ \A m \in Members(queue_write) : Head(queue_write) <= m
        /\ Members(queue_write') = Members(queue_write) \ {Head(queue_write)}
        /\ OutputInv'
    BY <1>0, <2>1, RisingTake DEF OutputInv
  <2>3. Members(queue_write)' = Members(queue_write')
    BY DEF Members
  <2> QED
    BY <2>1, <2>2, <2>3 DEF Output!Deliver
<1>2. CASE WriteLine
  <2>1. /\ offered' = offered + 1 /\ printed' = printed
        /\ queue_write' = queue_write \/ queue_write' = Append(queue_write, offered')
    BY <1>2 DEF WriteLine, Put
  <2>2. offered' \in Nat /\ offered < offered'
    BY <1>0, <2>1
  <2>3. /\ Rising(queue_write') /\ UpTo(queue_write', offered')
        /\ \/ Members(queue_write') = Members(queue_write)
           \/ Members(queue_write') = Members(queue_write) \cup {offered'}
    BY <1>0, <2>1, <2>2, RisingPut DEF OutputInv
  <2>4. Members(queue_write)' = Members(queue_write')
    BY DEF Members
  <2>5. OutputInv'
    BY <2>3 DEF OutputInv
  <2> QED
    BY <2>1, <2>2, <2>3, <2>4, <2>5 DEF Output!Offer
<1>3. CASE UNCHANGED <<queue_write, offered, printed>>
  BY <1>3 DEF OutputInv, Rising, UpTo, Output!fifoVars, Members
<1> QED
  BY <1>1, <1>2, <1>3 DEF Next, Svc, Main, Drained, Eof, Store, EndLine, ReadLine, Skip,
      Dispatch, DispatchNothing, NetLine, Reply, Done, vars, outVars

\* What a step does to the lines for the console.
LEMMA InputStep ==
    ASSUME IInv, InputInv, [Next]_vars
    PROVE  /\ InputInv'
           /\ [Input!Offer \/ Input!Lose \/ Input!Deliver]_(Input!fifoVars)
<1>0. /\ queue_read \in Seq(Line) /\ got \in Seq(Line) /\ lens \in Seq(0..MaxLen)
      /\ Len(lens) \in Nat /\ Ids(queue_read) \in Seq(Nat)
  BY LenProperties, IdsProperties DEF IInv, TypeOK
<1>1. CASE ReadLine
  <2> DEFINE line == Head(queue_read)
  <2>1. /\ queue_read # <<>> /\ queue_read' = Tail(queue_read)
        /\ got' = Append(got, line) /\ lens' = lens
    BY <1>1 DEF ReadLine
  <2>2. line \in Line
    BY <1>0, <2>1, HeadTailProperties
  <2>3. /\ Ids(queue_read) # <<>> /\ Head(Ids(queue_read)) = line.id
        /\ Ids(queue_read') = Tail(Ids(queue_read))
    BY <1>0, <2>1, IdsProperties
  <2>4. Ids(got') = Append(Ids(got), line.id)
    BY <1>0, <2>1, <2>2, IdsProperties
  <2> HIDE DEF line
  <2>5. /\ line.id \in Members(Ids(queue_read))
        /\ \A m \in Members(Ids(queue_read)) : line.id <= m
        /\ Members(Ids(queue_read')) = Members(Ids(queue_read)) \ {line.id}
        /\ Rising(Ids(queue_read')) /\ UpTo(Ids(queue_read'), Len(lens))
    BY <1>0, <2>3, RisingTake DEF InputInv
  <2>6. /\ Members(Ids(queue_read))' = Members(Ids(queue_read')) /\ Ids(got)' = Ids(got')
        /\ Len(lens)' = Len(lens) /\ Ids(queue_read)' = Ids(queue_read')
    BY <2>1 DEF Members, Ids
  <2>7. InputInv'
    BY <2>5, <2>6 DEF InputInv, Rising, UpTo
  <2> QED
    BY <2>4, <2>5, <2>6, <2>7 DEF Input!Deliver
<1>2. CASE EndLine
  <2> DEFINE line == [id |-> Len(lens'), msg |-> in_msg]
  <2>1. /\ lens' = Append(lens, at) /\ got' = got
        /\ queue_read' = queue_read \/ queue_read' = Append(queue_read, line)
    BY <1>2 DEF EndLine, Put, conVars
  <2>0. at \in 0..MaxLen /\ in_msg \in Chars /\ Len(lens) < MaxLines
    BY <1>2 DEF IInv, TypeOK, EndLine, Typing
  <2>2. Len(lens') = Len(lens) + 1 /\ Len(lens') \in Nat /\ Len(lens) < Len(lens')
    BY <1>0, <2>0, <2>1, AppendProperties
  <2>3. line \in Line /\ line.id = Len(lens')
    BY <1>0, <2>0, <2>2, SerialAssumption DEF Line
  <2>4. Ids(queue_read') = Ids(queue_read) \/ Ids(queue_read') = Append(Ids(queue_read), Len(lens'))
    BY <1>0, <2>1, <2>3, IdsProperties
  <2>5. /\ Rising(Ids(queue_read')) /\ UpTo(Ids(queue_read'), Len(lens'))
        /\ \/ Members(Ids(queue_read')) = Members(Ids(queue_read))
           \/ Members(Ids(queue_read')) = Members(Ids(queue_read)) \cup {Len(lens')}
    BY <1>0, <2>2, <2>4, RisingPut DEF InputInv
  <2>6. /\ Members(Ids(queue_read))' = Members(Ids(queue_read')) /\ Ids(got)' = Ids(got)
        /\ Len(lens)' = Len(lens') /\ Ids(queue_read)' = Ids(queue_read')
    BY <2>1 DEF Members, Ids
  <2>7. InputInv'
    BY <2>5, <2>6 DEF InputInv, Rising, UpTo
  <2> QED
    BY <2>2, <2>5, <2>6, <2>7 DEF Input!Offer
<1>3. CASE UNCHANGED <<queue_read, got, lens>>
  BY <1>3 DEF InputInv, Rising, UpTo, Ids, Input!fifoVars, Members
<1> QED
  BY <1>1, <1>2, <1>3 DEF Next, Svc, Main, PrintLine, Drained, Eof, Store, Skip, Dispatch,
      DispatchNothing, NetLine, Reply, Done, vars, inVars, outVars, conVars

\* What the writers write is printed in order, each line at most once, for
\* every depth of the queue (serial_io.c, lines 71 and 147).
THEOREM SerialOutputFifo == Spec => OutputFifo
<1>1. Init => Output!FifoInit
  BY DEF Init, Output!FifoInit, Members
<1> QED
  BY <1>1, InitOrder, OutputStep, SerialInvariant, PTL DEF Spec, OutputFifo, Output!FifoSpec

\* What the user types reaches the console in order, each line at most once
\* (serial_io.c, lines 123 and 155).
THEOREM SerialInputFifo == Spec => InputFifo
<1>1. Init => Input!FifoInit
  BY DEF Init, Input!FifoInit, Members, Ids
<1> QED
  BY <1>1, InitOrder, InputStep, SerialInvariant, PTL DEF Spec, InputFifo, Input!FifoSpec

InputPath  == INSTANCE LossyFifoProofs WITH
                  top <- Len(lens), pending <- Members(Ids(queue_read)), delivered <- Ids(got)
OutputPath == INSTANCE LossyFifoProofs WITH
                  top <- offered, pending <- Members(queue_write), delivered <- printed

\* The lines the console received are in the order they were typed, those
\* printed in the order they were written, and none is there twice
\* (serial_io.c, lines 71, 123 and 147).
THEOREM SerialLinesInOrder == Spec => [](InputPath!InOrder /\ OutputPath!InOrder)
<1>1. InputFifo => InputPath!FifoSpec
  BY DEF InputFifo, Input!FifoSpec, Input!FifoInit, Input!Offer, Input!Lose, Input!Deliver,
     Input!fifoVars, InputPath!FifoSpec, InputPath!FifoInit, InputPath!Offer, InputPath!Lose,
     InputPath!Deliver, InputPath!fifoVars
<1>2. InputPath!FifoSpec => []InputPath!InOrder
  BY InputPath!FifoInOrder
<1>3. OutputFifo => OutputPath!FifoSpec
  BY DEF OutputFifo, Output!FifoSpec, Output!FifoInit, Output!Offer, Output!Lose,
     Output!Deliver, Output!fifoVars, OutputPath!FifoSpec, OutputPath!FifoInit,
     OutputPath!Offer, OutputPath!Lose, OutputPath!Deliver, OutputPath!fifoVars
<1>4. OutputPath!FifoSpec => []OutputPath!InOrder
  BY OutputPath!FifoInOrder
<1> QED
  BY <1>1, <1>2, <1>3, <1>4, SerialInputFifo, SerialOutputFifo, PTL
=============================================================================
