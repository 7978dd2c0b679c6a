----------------------------- MODULE LinkProps -----------------------------
(***************************************************************************)
(* What the way from the network to the sequence tracking must do, stated  *)
(* of module Link.                                                         *)
(***************************************************************************)
EXTENDS Link

\* The drops reported at the end are never more than there were, and all there
\* were before the last datagram read, although the kernel's count goes
\* round and is not attached when it stands at 0
\* (hpsdr-protocol2.c:502-511, stats.c:142-146).
DropsCounted ==
    /\ sock_drops_total <= sk_drops
    /\ read_drops % DropSpace # 0 => sock_drops_total = read_drops

\* Every datagram counted on the IQ port is exactly one of another radio's,
\* malformed, counted as too late, or recorded: the code's own counts tell all of
\* them but the malformed ones apart.  And what is recorded spans, with the packets
\* counted as missing, the numbers from the first to the last (streaming.c:182-195,
\* 224, 364-371).
PacketsAccounted ==
    /\ pkt_by_port["iq"] = foreign_iq + malformed + reordered_packets + Len(accepted)
    /\ accepted # <<>> =>
           gap_packets + Len(accepted) = Last(accepted).n - Head(accepted).n + 1

\* What the code follows by 32-bit numbers is the radio's stream, in the order
\* it was sent; nothing of another sender's gets in, nothing twice
\* (streaming.c:182-195, 364-368).
Tracking == INSTANCE Tracker WITH
    recorded  <- [i \in DOMAIN accepted |->
                     IF accepted[i].from = "radio" THEN accepted[i].n ELSE -1],
    missing   <- gap_packets,
    discarded <- reordered_packets
ImplementsTracker == Tracking!Spec
=============================================================================
