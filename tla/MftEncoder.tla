------------------------------ MODULE MftEncoder ------------------------------
(***************************************************************************)
(* MftEncoder of camrtsp-capture: the hardware encoder where one can be    *)
(* made, else the software encoder.  The one that was not made is closed.  *)
(***************************************************************************)
EXTENDS HardwareEncoder, SynchronousEncoder

\* MftEncoder::new.  When neither can be made, the pipeline's start fails (WindowsCapture).
MftInit == Init /\ SoftInit /\ (worker = "closed" <=> place # "closed")

MftNext ==
  \/ Next /\ UNCHANGED softVars
  \/ SoftNext /\ UNCHANGED vars

MftSpec == MftInit /\ [][MftNext]_<<vars, softVars>>
MftFairSpec == MftSpec /\ Fairness /\ SoftFairness
-----------------------------------------------------------------------------
\* The types of both encoders; at most one of them works.
MftTypeOK ==
  /\ TypeOK
  /\ inside \in Seq(BOOLEAN) /\ Len(inside) <= Delay + 1
  /\ asked \in BOOLEAN /\ broken \in BOOLEAN /\ wanted \in BOOLEAN
  /\ place \in {"idle", "closed"} \cup Drains \cup Gives
  /\ frame \in {"none", "raw", "encoded"}
  /\ worker = "closed" \/ place = "closed"

\* The types, with the limit of the event channel, and no input that was not asked for.
MftInv == MftTypeOK /\ InputIsInvited

\* What the callers of request_keyframe rely on, whichever encoder was made.
RequestedKeyframeComesOut == ForcedKeyframeComesOut /\ SoftKeyframeComesOut
=============================================================================
