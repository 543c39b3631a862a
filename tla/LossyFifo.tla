----------------------------- MODULE LossyFifo ------------------------------
(***************************************************************************)
(* What a path of bounded queues promises: things come out in the order    *)
(* they went in; one may be lost on the way, none is delivered twice and   *)
(* none is made up.  They are numbered as they go in.  The paths are those *)
(* of received frames (lownet.c), of console lines in both directions      *)
(* (serial_io.c) and of pings and their replies (ping.c).                  *)
(***************************************************************************)
EXTENDS Integers, Sequences

VARIABLES
    top,        \* number of the last one to go in
    pending,    \* numbers of those on their way
    delivered   \* numbers of those that came out, in order

fifoVars == <<top, pending, delivered>>

FifoInit == top = 0 /\ pending = {} /\ delivered = <<>>

\* One goes in; it is queued or dropped at once.
Offer ==
    /\ top' \in Nat /\ top' > top
    /\ pending' = pending \/ pending' = pending \cup {top'}
    /\ UNCHANGED delivered

Lose ==
    /\ \E n \in pending : pending' = pending \ {n}
    /\ UNCHANGED <<top, delivered>>

\* The one that went in first comes out.
Deliver ==
    /\ \E n \in pending : /\ \A m \in pending : n <= m
                          /\ pending' = pending \ {n}
                          /\ delivered' = Append(delivered, n)
    /\ UNCHANGED top

FifoSpec == FifoInit /\ [][Offer \/ Lose \/ Deliver]_fifoVars
=============================================================================
