------------------------------ MODULE MCLowNet ------------------------------
(* Values for the constants of LowNet.                                     *)
EXTENDS LowNet

F(k, key, ok, src, dst, p) ==
    [kind |-> k, key |-> key, ok |-> ok, src |-> src, dst |-> dst, proto |-> p]

\* Both kinds and both keys, to this node and to all; one frame that is not
\* for this node.
Mixed == {F("plain", "none", TRUE, "peer", "me", 5),
          F("plain", "none", TRUE, "peer", "other", 5),
          F("cipher", "key0", TRUE, "peer", "all", 5),
          F("cipher", "key1", TRUE, "peer", "me", 2)}

Protocols == <<2, 5>>
=============================================================================
