--------------------------- MODULE MCRtspSession ---------------------------
(* A small instance of RtspSession for TLC: the other constants come from the .cfg. *)
EXTENDS RtspSession

Offer(protocol, pair) == [protocol |-> protocol, multicast |-> FALSE, pair |-> pair]
Udp == Offer("udp", "valid")
Tcp == Offer("tcp", "absent")

\* No header, each transport alone, in both orders, and behind alternatives that are skipped.
SmallOffers ==
  {<<>>, <<Tcp>>, <<Udp>>, <<Udp, Tcp>>, <<[Udp EXCEPT !.multicast = TRUE], Tcp>>,
   <<Offer("tcp", "invalid"), Offer("other", "absent"), Udp>>, <<Offer("udp", "absent")>>}
=============================================================================
