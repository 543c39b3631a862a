--------------------------- MODULE MCCraneClient ----------------------------
(* Values for the constants of CraneClient: a network that may deliver any *)
(* packet the client's code tells apart, at any time.                      *)
EXTENDS CraneClient

ShortPattern == <<2, Pause>>

AnyPacket ==
    {Pkt("connect", f, 0, 1) : f \in {{"SYN", "ACK"}, {"NAK"}}}
    \cup {Pkt("status", {}, n, 0) : n \in SeqNo}
    \cup {Pkt("status", {}, 1, 1), Pkt("status", {"NAK"}, 1, 0),
          Pkt("action", {}, 1, 2), Pkt("close", {}, 0, 0)}
=============================================================================
