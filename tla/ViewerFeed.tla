----------------------------- MODULE ViewerFeed -----------------------------
(***************************************************************************)
(* What the broadcaster promises a viewer, whatever queues it keeps: the   *)
(* units a viewer receives can be decoded in the order it receives them.   *)
(***************************************************************************)
EXTENDS AccessUnits

CONSTANT Viewers

VARIABLES
  open,    \* the viewers that are subscribed
  last     \* the newest unit each viewer has received in its subscription

feedVars == <<open, last>>

Init == open = {} /\ last = [v \in Viewers |-> NoUnit]

Join(v) ==
  /\ v \notin open
  /\ open' = open \cup {v}
  /\ UNCHANGED last

\* A later subscription of the same viewer starts from nothing.
Leave(v) ==
  /\ v \in open
  /\ open' = open \ {v}
  /\ last' = [last EXCEPT ![v] = NoUnit]

\* The unit received is the new value of last[v].
Receive(v) ==
  /\ v \in open
  /\ \E u \in {last'[v]} :
       /\ u \in Unit
       /\ Decodable(last[v], u)
       /\ last' = [last EXCEPT ![v] = u]
  /\ UNCHANGED open

Next == \E v \in Viewers : Join(v) \/ Leave(v) \/ Receive(v)

Spec == Init /\ [][Next]_feedVars
=============================================================================
