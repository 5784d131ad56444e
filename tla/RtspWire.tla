------------------------------ MODULE RtspWire ------------------------------
(***************************************************************************)
(* The two directions of one RTSP connection.  The thread serves them in   *)
(* turn, and they share nothing but the end of the connection; so the      *)
(* media is explored with the clients that send nothing more (the empty    *)
(* script), and the requests before any media is sent.                     *)
(***************************************************************************)
EXTENDS RequestFraming, MediaPath

ASSUME SilentClientAssumption == <<>> \in Scripts

wireVars == <<framingVars, mediaVars>>

\* How the media starts does not matter to a run of the requests: one way is enough.
Init ==
  /\ FramingInit /\ MediaInit
  /\ script # <<>> => platform = "mac" /\ carrier = "tcp" /\ \A n \in Starts : sequence <= n

In(step) == script # <<>> /\ step /\ UNCHANGED mediaVars

Out(step) == script = <<>> /\ step /\ UNCHANGED framingVars

Next == In(FramingNext) \/ Out(MediaNext)

\* The loop goes on and what the client sent arrives in the end; the thread goes on while
\* it can write, and the client of a TCP stream reads.
Fairness ==
  /\ WF_wireVars(In(TakeBuffered)) /\ WF_wireVars(In(\E n \in 1 .. Chunk : Read(n)))
  /\ WF_wireVars(Out(WritePrefix \/ WriteBody)) /\ WF_wireVars(Out(ReadStream))

Spec == Init /\ [][Next]_wireVars /\ Fairness
-----------------------------------------------------------------------------
\* What holds on a connection at any moment: the types, no packet above the MTU, and a
\* bounded input buffer.
WireInv == FramingTypeOK /\ MediaTypeOK /\ InputIsBounded
=============================================================================
