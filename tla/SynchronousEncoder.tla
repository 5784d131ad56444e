-------------------------- MODULE SynchronousEncoder --------------------------
(***************************************************************************)
(* SynchronousMftEncoder of camrtsp-capture: the software fallback, called *)
(* by the media worker alone.  consume collects every output, gives the    *)
(* frame, tries once more when the transform does not accept it, and       *)
(* collects again; drain collects until the transform needs more input.    *)
(*                                                                         *)
(* The transform is outside the repository: it keeps up to Delay frames    *)
(* back until it is told to drain.  A frame is TRUE when it is encoded as  *)
(* a keyframe.  An output without a sample changes nothing.                *)
(***************************************************************************)
EXTENDS Naturals, Sequences

CONSTANT Delay  \* how many frames the transform keeps back

ASSUME DelayAssumption == Delay \in Nat

VARIABLES
  inside,   \* transform: the frames it holds, oldest first
  asked,    \* transform: CODECAPI_AVEncVideoForceKeyFrame is set
  place,    \* where the worker is: "idle", a drain, a ProcessInput or "closed"
  frame,    \* consume's frame: "none", "raw" or "encoded" once the transform has it
  broken,   \* history: a call failed
  wanted    \* history: a keyframe was requested and none has come out since

softVars == <<inside, asked, place, frame, broken, wanted>>

Drains == {"drain before", "drain again", "drain after", "drain at end"}
Gives == {"give", "give again"}

SoftInit ==
  /\ inside = <<>> /\ asked = FALSE
  /\ place \in {"idle", "closed"}
  /\ frame = "none"
  /\ broken = FALSE /\ wanted = FALSE
-----------------------------------------------------------------------------
SoftConsume ==
  /\ place = "idle"
  /\ place' = "drain before" /\ frame' = "raw"
  /\ UNCHANGED <<inside, asked, broken, wanted>>

\* What ProcessOutput leaves: MFT_MESSAGE_COMMAND_DRAIN precedes the last drain.
Kept == IF place = "drain at end" THEN 0 ELSE Delay

\* ProcessOutput and publish_sample.
SoftOutput ==
  /\ place \in Drains /\ Len(inside) > Kept
  /\ inside' = Tail(inside)
  /\ wanted' = (wanted /\ ~Head(inside))
  /\ UNCHANGED <<asked, place, frame, broken>>

\* MF_E_TRANSFORM_NEED_MORE_INPUT ends a drain, and the last one the encoder.
Drained ==
  /\ place \in Drains /\ Len(inside) <= Kept
  /\ place' = CASE place = "drain before" -> "give"
                [] place = "drain again" -> "give again"
                [] place = "drain after" -> "idle"
                [] place = "drain at end" -> "closed"
  /\ UNCHANGED <<inside, asked, frame, broken, wanted>>

SoftInput ==
  /\ place \in Gives
  /\ inside' = Append(inside, asked)
  /\ asked' = FALSE
  /\ place' = "drain after" /\ frame' = "encoded"
  /\ UNCHANGED <<broken, wanted>>

\* Variant: a frame the transform does not accept is dropped, as the hardware path does.
NotAcceptingDrops ==
  /\ place = "give"
  /\ place' = "idle"
  /\ UNCHANGED <<inside, asked, frame, broken, wanted>>

\* MF_E_NOTACCEPTING: collect and give the frame again, once.
NotAccepting ==
  /\ place = "give"
  /\ place' = "drain again"
  /\ UNCHANGED <<inside, asked, frame, broken, wanted>>

\* ProcessOutput, publish_sample or ProcessInput fails.  The worker leaves its loop and
\* shuts the encoder down; a shutdown that fails is over, Drop does the rest.
SoftFails ==
  /\ place \in Drains \cup Gives
  /\ place' = IF place = "drain at end" THEN "closed" ELSE "drain at end"
  /\ broken' = TRUE
  /\ UNCHANGED <<inside, asked, frame, wanted>>

\* Without ICodecAPI, or when SetValue fails, it is an error and changes nothing.
SoftRequestKeyframe ==
  /\ place = "idle"
  /\ asked' = TRUE /\ wanted' = TRUE
  /\ UNCHANGED <<inside, place, frame, broken>>

SoftShutdown ==
  /\ place = "idle"
  /\ place' = "drain at end"
  /\ UNCHANGED <<inside, asked, frame, broken, wanted>>

SoftNext ==
  \/ SoftConsume \/ SoftOutput \/ Drained \/ SoftInput \/ NotAccepting \/ SoftFails
  \/ SoftRequestKeyframe \/ SoftShutdown

\* The camera delivers and the worker runs; errors and the owner's wishes are free.
SoftFairness == WF_softVars(SoftConsume \/ SoftOutput \/ Drained \/ SoftInput)
-----------------------------------------------------------------------------
(* Properties. *)

\* The software encoder has no licence to drop frames.  Unless a call failed, consume
\* returns only when the transform has taken its frame, also when it first refused it, and
\* every frame has come out when the encoder is closed, those kept back included.
SoftwareLosesNothing ==
  ~broken => /\ place = "idle" => frame # "raw"
             /\ place = "closed" => inside = <<>>

\* A forced keyframe comes out of the software encoder too, behind the frames kept back.
SoftKeyframeComesOut == wanted ~> (~wanted \/ place = "closed")
=============================================================================
