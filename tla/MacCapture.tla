----------------------------- MODULE MacCapture -----------------------------
(***************************************************************************)
(* camrtsp-capture's macOS pipeline: the owner's start, request_keyframe   *)
(* and stop, the delegate's callback on its serial dispatch queue, and     *)
(* VideoToolbox, which hands encoded frames to encoded_frame on a thread   *)
(* of its own.  That function reaches the broadcaster through the address  *)
(* of an EncoderContext that the owner's thread frees.                     *)
(*                                                                         *)
(* Of the broadcaster only the debts of a keyframe and the age of the      *)
(* newest frame are kept (module Broadcaster has the rest).  `lost` is a   *)
(* history variable.                                                       *)
(***************************************************************************)
EXTENDS Naturals, Sequences

CONSTANTS
  MaxFrames,    \* frames VideoToolbox holds
  FrameLimit    \* the 15 s of the watchdog, in ticks

ASSUME MaxFramesAssumption == MaxFrames \in Nat \ {0}
ASSUME FrameLimitAssumption == FrameLimit \in Nat

NoFrame == FrameLimit + 2

VARIABLES
  step,       \* where the owner's call of start or stop is
  session,    \* the capture session runs
  delegate,   \* the output has its delegate
  callback,   \* the queue: "none", "queued", or past the swap with "forced" or "plain"
  force,      \* force_keyframe
  encoder,    \* "none", "hardware", "software" or "invalid"
  frames,     \* the frames in the encoder: is a keyframe forced?
  context,    \* EncoderContext: "none", "live" or "freed"
  requested,  \* the broadcaster's keyframe_requested
  waiting,    \* some viewer waits for a keyframe
  ready,      \* the broadcaster has a codec configuration
  age,        \* last_frame.elapsed(), up to FrameLimit + 1, or NoFrame
  lost        \* the encoder failed on a forced frame, and a viewer still waits

startVars == <<step, session, delegate, encoder, context>>
sourceVars == <<requested, waiting, ready, age, lost>>
captureVars == <<startVars, callback, force, frames, sourceVars>>

CaptureInit ==
  /\ step = "idle"
  /\ session = FALSE /\ delegate = FALSE
  /\ callback = "none" /\ force = FALSE
  /\ encoder = "none" /\ frames = <<>>
  /\ context = "none"
  /\ requested = FALSE /\ waiting = FALSE /\ ready = FALSE
  /\ age = NoFrame /\ lost = FALSE
-----------------------------------------------------------------------------
(* start, on the owner's thread *)

Go(from, to) == step = from /\ step' = to

\* ensure_camera_authorized: allowed, denied or restricted, or still to be asked for.
Authorize ==
  /\ \E to \in {"attach", "asking", "failed"} : Go("authorize", to)
  /\ UNCHANGED <<session, delegate, encoder, context, callback, force, frames, sourceVars>>

\* The user answers in time, or recv_timeout() ends the wait.
Answered ==
  /\ \E to \in {"attach", "failed"} : Go("asking", to)
  /\ UNCHANGED <<session, delegate, encoder, context, callback, force, frames, sourceVars>>

\* The device, its input, the preset and the frame rate; then the context.
Attach ==
  /\ \/ Go("attach", "hardware") /\ context' = "live"
     \/ Go("attach", "failed") /\ UNCHANGED context
  /\ UNCHANGED <<session, delegate, encoder, callback, force, frames, sourceVars>>

\* new_encoder, first with hardware required, then without.
OpenEncoder ==
  /\ \/ \E kind \in {"hardware", "software"} : Go(kind, "begin") /\ encoder' = kind /\ UNCHANGED context
     \/ Go("hardware", "software") /\ UNCHANGED <<encoder, context>>
     \/ Go("software", "failed") /\ context' = "freed" /\ UNCHANGED encoder
  /\ UNCHANGED <<session, delegate, callback, force, frames, sourceVars>>

\* start_running() and is_running().  A session that is not running now is taken to
\* have delivered nothing: this path neither drains the queue nor the encoder.
Begin ==
  /\ \/ Go("begin", "running") /\ session' = TRUE /\ delegate' = TRUE /\ UNCHANGED <<encoder, context>>
     \/ /\ Go("begin", "failed")
        /\ encoder' = "invalid" /\ context' = "freed"
        /\ UNCHANGED <<session, delegate>>
  /\ UNCHANGED <<callback, force, frames, sourceVars>>

Start == Authorize \/ Answered \/ Attach \/ OpenEncoder \/ Begin
-----------------------------------------------------------------------------
(* stop, on the owner's thread *)

StopSession ==
  /\ Go("stop", "clear")
  /\ session' = FALSE
  /\ UNCHANGED <<delegate, encoder, context, callback, force, frames, sourceVars>>

ClearDelegate ==
  /\ Go("clear", "drain")
  /\ delegate' = FALSE
  /\ UNCHANGED <<session, encoder, context, callback, force, frames, sourceVars>>

\* Variant: the dispatch queue is not waited for.
DrainNothing ==
  /\ Go("drain", "complete")
  /\ UNCHANGED <<session, delegate, encoder, context, callback, force, frames, sourceVars>>

\* sync_f returns when the callbacks queued before it have run.
Drain ==
  /\ callback = "none"
  /\ Go("drain", "complete")
  /\ UNCHANGED <<session, delegate, encoder, context, callback, force, frames, sourceVars>>

\* complete_all returns when no frame is left in the encoder.
Complete ==
  /\ frames = <<>>
  /\ Go("complete", "free")
  /\ UNCHANGED <<session, delegate, encoder, context, callback, force, frames, sourceVars>>

\* invalidate, and the end of RunningPipeline.
Free ==
  /\ Go("free", "stopped")
  /\ encoder' = "invalid" /\ context' = "freed"
  /\ UNCHANGED <<session, delegate, callback, force, frames, sourceVars>>

Stop == StopSession \/ ClearDelegate \/ Drain \/ Complete \/ Free
-----------------------------------------------------------------------------
(* The delegate's callback, on the dispatch queue *)

\* A frame for which a callback is queued; with one queued already it is discarded.
Capture ==
  /\ session /\ delegate /\ callback = "none"
  /\ callback' = "queued"
  /\ UNCHANGED <<startVars, force, frames, sourceVars>>

\* A sample without an image, or the swap of force_keyframe.
Enter ==
  /\ callback = "queued"
  /\ \/ callback' = "none" /\ UNCHANGED force
     \/ callback' = (IF force THEN "forced" ELSE "plain") /\ force' = FALSE
  /\ UNCHANGED <<startVars, frames, sourceVars>>

Entered == callback \in {"forced", "plain"}

EncodeFrame ==
  /\ Entered /\ encoder \in {"hardware", "software"} /\ Len(frames) < MaxFrames
  /\ frames' = Append(frames, callback = "forced")
  /\ callback' = "none"
  /\ UNCHANGED <<startVars, force, sourceVars>>

\* Variant: the request goes with the frame that could not be encoded.
EncodeForgets ==
  /\ Entered
  /\ callback' = "none"
  /\ UNCHANGED <<startVars, force, frames, sourceVars>>

\* encode_frame reports an error.
EncodeFails ==
  /\ Entered
  /\ force' = TRUE
  /\ callback' = "none"
  /\ UNCHANGED <<startVars, frames, sourceVars>>

Callback == Enter \/ EncodeFrame \/ EncodeFails
-----------------------------------------------------------------------------
(* encoded_frame, on VideoToolbox's thread *)

\* An error status, or a buffer without data, time or NAL units: by then a keyframe has
\* brought its codec configuration.
Dropped ==
  /\ frames # <<>>
  /\ frames' = Tail(frames)
  /\ ready' \in {ready, TRUE}
  /\ lost' = (lost \/ (Head(frames) /\ waiting))
  /\ UNCHANGED <<startVars, callback, force, requested, waiting, age>>

\* A forced frame is a keyframe, others may be.  A keyframe whose parameter sets can be
\* read brings the codec configuration, and the frame is published.
Encoded(keyframe) ==
  /\ frames # <<>> /\ (Head(frames) => keyframe)
  /\ frames' = Tail(frames)
  /\ ready' \in IF keyframe THEN {ready, TRUE} ELSE {ready}
  /\ age' = 0
  /\ waiting' = (waiting /\ ~keyframe)
  /\ lost' = (lost /\ ~keyframe)
  /\ UNCHANGED <<startVars, callback, force, requested>>

Output == Dropped \/ \E keyframe \in BOOLEAN : Encoded(keyframe)

\* A viewer joins or falls behind.
ViewerWaits ==
  /\ waiting' = TRUE /\ requested' = TRUE
  /\ UNCHANGED <<startVars, callback, force, frames, ready, age, lost>>
-----------------------------------------------------------------------------
\* A callback of VideoToolbox finds its context alive: whatever the queue and the
\* encoder still hold when the owner stops the pipeline, the context is freed after it.
ContextOutlivesCallbacks == frames # <<>> => context = "live"
=============================================================================
