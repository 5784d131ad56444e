---------------------------- MODULE RtspPlayback ----------------------------
(***************************************************************************)
(* What one RTSP connection promises its client, as a state machine: media *)
(* flows only while playing, on the transport that was agreed, and that    *)
(* agreement cannot change under a stream that is playing.  Whatever       *)
(* changes is told with a 200; any other answer leaves it alone.           *)
(***************************************************************************)
CONSTANTS
  Permitted,   \* the transports the operator permits
  NoTransport,
  Answers      \* the status codes of responses, and "none"

VARIABLES
  state,       \* "init", "ready", "playing" or "closed"
  transport,   \* the agreed transport
  carrier,     \* the transport of the newest media packet
  answer       \* the newest response

playbackVars == <<state, transport, carrier, answer>>

Init == state = "init" /\ transport = NoTransport /\ carrier = NoTransport /\ answer = "none"

Setup(t) ==
  /\ state \in {"init", "ready"}
  /\ state' = "ready" /\ transport' = t /\ answer' = "200"
  /\ UNCHANGED carrier

Play ==
  /\ state = "ready"
  /\ state' = "playing" /\ answer' = "200"
  /\ UNCHANGED <<transport, carrier>>

Send ==
  /\ state = "playing"
  /\ carrier' = transport
  /\ UNCHANGED <<state, transport, answer>>

Answer ==
  /\ state # "closed"
  /\ answer' \in Answers
  /\ UNCHANGED <<state, transport, carrier>>

Pause ==
  /\ state = "playing"
  /\ state' = "ready" /\ answer' = "200"
  /\ UNCHANGED <<transport, carrier>>

Close ==
  /\ state # "closed"
  /\ state' = "closed" /\ transport' = NoTransport /\ answer' \in Answers
  /\ UNCHANGED carrier

Next == (\E t \in Permitted : Setup(t)) \/ Play \/ Send \/ Answer \/ Pause \/ Close

Spec == Init /\ [][Next]_playbackVars
=============================================================================
