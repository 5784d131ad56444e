------------------------------- MODULE Transport -------------------------------
(***************************************************************************)
(* negotiate_transport of camrtsp-server: which alternative of a Transport *)
(* header a SETUP selects, and bind_udp_pair's search for two neighbouring *)
(* ports.  An alternative is what is left of its text: its protocol, the   *)
(* word "multicast", and the pair of its parameter, client_port for UDP or *)
(* interleaved for TCP, which is valid when its numbers differ and fit.    *)
(***************************************************************************)
EXTENDS Naturals, Sequences

CONSTANTS
  Ports,        \* the ports bind_udp_pair searches, 50000..59999 in the code
  NoTransport   \* nothing negotiated

ASSUME PortsAssumption == Ports \subseteq Nat
ASSUME NoTransportAssumption == NoTransport \notin {"tcp", "udp"}

Alternative ==
  [protocol : {"tcp", "udp", "other"}, multicast : BOOLEAN, pair : {"absent", "valid", "invalid"}]

Usable(a, permitted) ==
  /\ ~a.multicast
  /\ a.protocol \in permitted
  /\ a.pair = "valid" \/ (a.protocol = "tcp" /\ a.pair = "absent")

\* The even ports that are free together with their neighbour.
Pairs(busy) == {p \in Ports : p % 2 = 0 /\ {p, p + 1} \cap busy = {}}

\* The first alternative that is usable, if there is one.
Selected(offer, permitted) ==
  {offer[i] : i \in {k \in DOMAIN offer : /\ Usable(offer[k], permitted)
                                           /\ \A j \in 1 .. k - 1 : ~Usable(offer[j], permitted)}}

\* It decides: a UDP one without free ports fails the SETUP, whatever follows it.
Negotiated(offer, permitted, busy) ==
  LET bound == {a \in Selected(offer, permitted) : a.protocol = "udp" => Pairs(busy) # {}}
  IN IF bound = {} THEN NoTransport ELSE (CHOOSE a \in bound : TRUE).protocol
=============================================================================
