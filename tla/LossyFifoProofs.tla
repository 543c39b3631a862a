--------------------------- MODULE LossyFifoProofs ---------------------------
(***************************************************************************)
(* What LossyFifo amounts to, said without its actions.  The paths of      *)
(* lownet.c, serial_io.c and ping.c implement LossyFifo, so all of it      *)
(* holds of them.                                                          *)
(***************************************************************************)
EXTENDS LossyFifo, SequenceTheorems, TLAPS

\* What came out: numbers of things that went in, none twice, in the order
\* they went in.
InOrder ==
    /\ \A i \in 1..Len(delivered) : delivered[i] \in 1..top
    /\ \A i, j \in 1..Len(delivered) : i < j => delivered[i] < delivered[j]

\* What is on its way went in later than everything that came out.
FifoInv ==
    /\ top \in Nat /\ pending \subseteq 1..top /\ delivered \in Seq(Nat)
    /\ InOrder
    /\ \A i \in 1..Len(delivered), n \in pending : delivered[i] < n

LEMMA InitFifoInv == FifoInit => FifoInv
<1> SUFFICES ASSUME FifoInit PROVE FifoInv
  OBVIOUS
<1>1. Len(<<>>) = 0 /\ <<>> \in Seq(Nat)
  BY EmptySeq
<1> QED
  BY <1>1 DEF FifoInit, FifoInv, InOrder

LEMMA StepFifoInv == FifoInv /\ [Offer \/ Lose \/ Deliver]_fifoVars => FifoInv'
<1> SUFFICES ASSUME FifoInv, [Offer \/ Lose \/ Deliver]_fifoVars PROVE FifoInv'
  OBVIOUS
<1>0. /\ top \in Nat /\ pending \subseteq 1..top /\ delivered \in Seq(Nat)
      /\ Len(delivered) \in Nat
      /\ \A i \in 1..Len(delivered) : delivered[i] \in 1..top
      /\ \A i, j \in 1..Len(delivered) : i < j => delivered[i] < delivered[j]
      /\ \A i \in 1..Len(delivered), n \in pending : delivered[i] < n
  BY LenProperties DEF FifoInv, InOrder
<1>1. CASE Offer
  <2>1. /\ top' \in Nat /\ top' > top /\ delivered' = delivered
        /\ pending' \subseteq pending \cup {top'}
    BY <1>1 DEF Offer
  <2>2. pending' \subseteq 1..top' /\ \A i \in 1..Len(delivered) : delivered[i] \in 1..top'
    BY <1>0, <2>1
  <2>3. \A i \in 1..Len(delivered), n \in pending' : delivered[i] < n
    BY <1>0, <2>1
  <2> QED
    BY <1>0, <2>1, <2>2, <2>3 DEF FifoInv, InOrder
<1>2. CASE Lose
  BY <1>0, <1>2 DEF Lose, FifoInv, InOrder
<1>3. CASE Deliver
  <2>1. PICK n \in pending : /\ \A m \in pending : n <= m
                             /\ pending' = pending \ {n}
                             /\ delivered' = Append(delivered, n)
    BY <1>3 DEF Deliver
  <2>2. /\ delivered' \in Seq(Nat) /\ Len(delivered') = Len(delivered) + 1
        /\ \A i \in 1..Len(delivered) : delivered'[i] = delivered[i]
        /\ delivered'[Len(delivered) + 1] = n
    BY <1>0, <2>1, AppendProperties
  <2>3. top' = top
    BY <1>3 DEF Deliver
  <2>4. \A m \in pending' : m \in pending /\ n < m
    BY <1>0, <2>1
  <2>5. \A i \in 1..Len(delivered') : \/ i \in 1..Len(delivered) /\ delivered'[i] = delivered[i]
                                      \/ i = Len(delivered) + 1 /\ delivered'[i] = n
    BY <1>0, <2>2
  <2>6. \A i \in 1..Len(delivered') : delivered'[i] \in 1..top'
    BY <1>0, <2>3, <2>5
  <2>7. ASSUME NEW i \in 1..Len(delivered'), NEW j \in 1..Len(delivered'), i < j
        PROVE  delivered'[i] < delivered'[j]
    <3>1. i \in 1..Len(delivered) /\ delivered'[i] = delivered[i]
      BY <1>0, <2>2, <2>5, <2>7
    <3>2. CASE j \in 1..Len(delivered) /\ delivered'[j] = delivered[j]
      BY <1>0, <2>7, <3>1, <3>2
    <3>3. CASE delivered'[j] = n
      BY <1>0, <2>1, <3>1, <3>3
    <3> QED
      BY <2>5, <3>2, <3>3
  <2>8. \A i \in 1..Len(delivered'), m \in pending' : delivered'[i] < m
    BY <1>0, <2>4, <2>5
  <2> QED
    BY <1>0, <2>1, <2>2, <2>3, <2>6, <2>7, <2>8 DEF FifoInv, InOrder
<1>4. CASE UNCHANGED fifoVars
  BY <1>0, <1>4 DEF fifoVars, FifoInv, InOrder
<1> QED
  BY <1>1, <1>2, <1>3, <1>4

\* Nothing comes out of a path twice, out of order or made up.
THEOREM FifoInOrder == FifoSpec => []InOrder
<1>1. FifoInv => InOrder
  BY DEF FifoInv
<1> QED
  BY <1>1, InitFifoInv, StepFifoInv, PTL DEF FifoSpec
=============================================================================
