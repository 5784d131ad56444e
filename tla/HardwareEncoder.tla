---------------------------- MODULE HardwareEncoder ----------------------------
(***************************************************************************)
(* AsynchronousMftEncoder of camrtsp-capture on Windows: three parties and *)
(* two queues.  The hardware transform announces NeedInput and HaveOutput  *)
(* through its event generator; TransformEventCallback::Invoke, on a Media *)
(* Foundation thread, forwards each announcement to a bounded channel; the *)
(* capture worker pumps the channel whenever it has a raw frame to encode, *)
(* and then either gives the frame to the transform or drops it.           *)
(*                                                                         *)
(* The transform is outside the repository: it asks for a frame with       *)
(* NeedInput, takes one ProcessInput for each and one ProcessOutput for    *)
(* each HaveOutput.  A frame is TRUE when it is encoded as a keyframe.     *)
(***************************************************************************)
EXTENDS Naturals, Sequences, FiniteSets

CONSTANTS
  EventLimit,  \* the capacity of the event channel, 32 in the code
  Depth,       \* how many frames the transform asks for at a time
  Lookahead    \* how many frames it keeps before it has an output

ASSUME SizesAssumption ==
  /\ EventLimit \in Nat \ {0}
  /\ Depth \in Nat \ {0}
  /\ Lookahead \in 0..(Depth - 1)

VARIABLES
  credit,      \* transform: NeedInputs announced and not answered by ProcessInput
  held,        \* transform: the frames being encoded, oldest first
  ready,       \* transform: the outputs not collected by ProcessOutput
  forced,      \* transform: CODECAPI_AVEncVideoForceKeyFrame is set
  posted,      \* the generator's queue: announcements no callback has taken
  callback,    \* "armed", "taken", "full", "rearm" or "off"
  event,       \* the announcement Invoke holds
  events,      \* the channel
  needs_input, \* the worker's flag
  worker,      \* "idle", "pump", "flush", "drain" or "closed"
  lost,        \* history: announcements that came to nothing, refused by try_send or
               \* answered by a ProcessOutput that yielded no sample
  alarmed,     \* history: a Failure got into the channel
  owed         \* history: a keyframe was requested and none has come out since

transformVars == <<credit, held, ready, forced>>
callbackVars == <<posted, callback, event>>
historyVars == <<lost, alarmed, owed>>
vars == <<transformVars, callbackVars, events, needs_input, worker, historyVars>>

Announcement == {"NeedInput", "HaveOutput", "Other", "Failure"}

Init ==
  /\ credit = 0 /\ held = <<>> /\ ready = <<>> /\ forced = FALSE
  /\ posted = <<>> /\ callback = "armed" /\ event = "Other"
  /\ events = <<>>
  /\ needs_input = FALSE
  /\ worker \in {"idle", "closed"}  \* closed: no such encoder could be made
  /\ lost = {} /\ alarmed = FALSE /\ owed = FALSE
-----------------------------------------------------------------------------
(* The transform. *)

Announce(what) ==
  /\ posted' = Append(posted, what)
  /\ UNCHANGED <<forced, callback, event, events, needs_input, worker, historyVars>>

AskForInput ==
  /\ worker # "closed"
  /\ credit + Len(held) + Len(ready) < Depth
  /\ credit' = credit + 1
  /\ Announce("NeedInput")
  /\ UNCHANGED <<held, ready>>

Encode ==
  /\ worker # "closed"
  /\ Len(held) > IF worker = "drain" THEN 0 ELSE Lookahead
  /\ ready' = Append(ready, Head(held))
  /\ held' = Tail(held)
  /\ Announce("HaveOutput")
  /\ UNCHANGED credit

\* An event the code does not know, or one that EndGetEvent reports as an error.
\* The bound keeps these from filling the generator's queue.
Disturb ==
  /\ worker # "closed"
  /\ posted = <<>>
  /\ \E what \in {"Other", "Failure"} : Announce(what)
  /\ UNCHANGED <<credit, held, ready>>
-----------------------------------------------------------------------------
(* TransformEventCallback::Invoke. *)

\* `stop` clears alive and the generator: Invoke returns without taking the event.
InvokeStopped ==
  /\ callback = "armed" /\ posted # <<>> /\ worker = "closed"
  /\ callback' = "off"
  /\ UNCHANGED <<transformVars, posted, event, events, needs_input, worker, historyVars>>

InvokeTakes ==
  /\ callback = "armed" /\ posted # <<>> /\ worker # "closed"
  /\ event' = Head(posted)
  /\ posted' = Tail(posted)
  /\ callback' = "taken"
  /\ UNCHANGED <<transformVars, events, needs_input, worker, historyVars>>

HasRoom == Len(events) < EventLimit

InvokeSends ==
  /\ callback = "taken"
  /\ IF event = "Other" \/ HasRoom
       THEN /\ events' = IF event = "Other" THEN events ELSE Append(events, event)
            /\ callback' = "rearm"
            /\ alarmed' = (alarmed \/ event = "Failure")
            /\ UNCHANGED lost
       ELSE /\ callback' = IF event = "Failure" THEN "rearm" ELSE "full"
            /\ lost' = lost \cup {event}
            /\ UNCHANGED <<events, alarmed>>
  /\ UNCHANGED <<transformVars, posted, event, needs_input, worker, owed>>

\* The announcement was refused: the overflow is reported through the same channel.
InvokeReportsOverflow ==
  /\ callback = "full"
  /\ callback' = "rearm"
  /\ IF HasRoom
       THEN events' = Append(events, "Failure") /\ alarmed' = TRUE
       ELSE UNCHANGED <<events, alarmed>>
  /\ UNCHANGED <<transformVars, posted, event, needs_input, worker, lost, owed>>

\* BeginGetEvent for the next announcement; its failure is ignored.
InvokeRearms ==
  /\ callback = "rearm"
  /\ callback' = IF worker = "closed" THEN "off" ELSE "armed"
  /\ UNCHANGED <<transformVars, posted, event, events, needs_input, worker, historyVars>>

InvokeRearmFails ==
  /\ callback = "rearm" /\ worker # "closed"
  /\ callback' = "off"
  /\ UNCHANGED <<transformVars, posted, event, events, needs_input, worker, historyVars>>
-----------------------------------------------------------------------------
(* The capture worker. *)

\* mode.request_keyframe; without ICodecAPI it fails and changes nothing.
RequestKeyframe ==
  /\ worker = "idle"
  /\ forced' = TRUE /\ owed' = TRUE
  /\ UNCHANGED <<credit, held, ready, callbackVars, events, needs_input, worker, lost, alarmed>>

\* consume is called with a raw frame and begins with pump_events.
Consume ==
  /\ worker = "idle"
  /\ worker' = "pump"
  /\ UNCHANGED <<transformVars, callbackVars, events, needs_input, historyVars>>

Pumping == worker \in {"pump", "flush", "drain"}

\* Variant: the flag is cleared after the second pump, losing what that pump learnt.
PumpNeedInputTooEarly ==
  /\ Pumping /\ events # <<>> /\ Head(events) = "NeedInput"
  /\ events' = Tail(events)
  /\ needs_input' = (worker # "flush")
  /\ UNCHANGED <<transformVars, callbackVars, worker, historyVars>>

PumpNeedInput ==
  /\ Pumping /\ events # <<>> /\ Head(events) = "NeedInput"
  /\ events' = Tail(events)
  /\ needs_input' = TRUE
  /\ UNCHANGED <<transformVars, callbackVars, worker, historyVars>>

\* Whatever ends the pump with an error ends the worker's loop, or its shutdown.
Abandon == worker' = IF worker = "drain" THEN "closed" ELSE "drain"

\* Variant: an output announced while the worker has a frame to give is not collected.
PumpHaveOutputLater ==
  /\ Pumping /\ events # <<>> /\ Head(events) = "HaveOutput"
  /\ events' = Tail(events)
  /\ UNCHANGED <<transformVars, callbackVars, needs_input, worker, historyVars>>

\* CleanPoint or an IDR NAL makes the access unit a keyframe.
PublishEncodedSample(keyframe) == owed' = (owed /\ ~keyframe)

\* ProcessOutput, then publish_encoded_sample.  A transform that has no output, or fails,
\* and an empty access unit are errors; an output without a sample is passed over.  Of
\* these the transform may, or may not, have let go of its output.
PumpHaveOutput ==
  /\ Pumping /\ events # <<>> /\ Head(events) = "HaveOutput"
  /\ events' = Tail(events)
  /\ \/ /\ ready # <<>> /\ ready' = Tail(ready) /\ UNCHANGED lost
        /\ \/ PublishEncodedSample(Head(ready)) /\ UNCHANGED worker
           \/ Abandon /\ UNCHANGED owed
     \/ /\ ready' = ready \/ (ready # <<>> /\ ready' = Tail(ready))
        /\ lost' = lost \cup {"HaveOutput"} /\ UNCHANGED owed
        /\ Abandon \/ UNCHANGED worker
  /\ UNCHANGED <<credit, held, forced, callbackVars, needs_input, alarmed>>

PumpFailure ==
  /\ Pumping /\ events # <<>> /\ Head(events) = "Failure"
  /\ events' = Tail(events)
  /\ Abandon
  /\ UNCHANGED <<transformVars, callbackVars, needs_input, historyVars>>

DropFrame ==
  /\ worker = "pump" /\ events = <<>> /\ ~needs_input
  /\ worker' = "idle"
  /\ UNCHANGED <<transformVars, callbackVars, events, needs_input, historyVars>>

\* Variant: the request is not used up by the frame.
InputAcceptedAgain ==
  /\ worker = "pump" /\ events = <<>> /\ needs_input
  /\ credit > 0
  /\ credit' = credit - 1
  /\ held' = Append(held, forced)
  /\ forced' = FALSE
  /\ worker' = "flush"
  /\ UNCHANGED <<ready, callbackVars, events, needs_input, historyVars>>

\* ProcessInput; the second pump follows.
InputAccepted ==
  /\ worker = "pump" /\ events = <<>> /\ needs_input
  /\ credit > 0
  /\ credit' = credit - 1
  /\ held' = Append(held, forced)
  /\ forced' = FALSE
  /\ needs_input' = FALSE
  /\ worker' = "flush"
  /\ UNCHANGED <<ready, callbackVars, events, historyVars>>

\* A transform that did not ask, or one that fails, rejects the frame.
InputRejected ==
  /\ worker = "pump" /\ events = <<>> /\ needs_input
  /\ worker' = "drain"
  /\ UNCHANGED <<transformVars, callbackVars, events, needs_input, historyVars>>

Flushed ==
  /\ worker = "flush" /\ events = <<>>
  /\ worker' = "idle"
  /\ UNCHANGED <<transformVars, callbackVars, events, needs_input, historyVars>>

\* The loop ends: END_OF_STREAM, COMMAND_DRAIN, one last pump, callback_state.stop.
Shutdown ==
  /\ worker = "idle"
  /\ worker' = "drain"
  /\ UNCHANGED <<transformVars, callbackVars, events, needs_input, historyVars>>

Closed ==
  /\ worker = "drain" /\ events = <<>>
  /\ worker' = "closed"
  /\ UNCHANGED <<transformVars, callbackVars, events, needs_input, historyVars>>
-----------------------------------------------------------------------------
Transform == AskForInput \/ Encode \/ Disturb
Invoke ==
  \/ InvokeStopped \/ InvokeTakes \/ InvokeSends \/ InvokeReportsOverflow
  \/ InvokeRearms \/ InvokeRearmFails
Pump == PumpNeedInput \/ PumpHaveOutput \/ PumpFailure
Worker ==
  \/ RequestKeyframe \/ Consume \/ Pump \/ DropFrame \/ InputAccepted \/ InputRejected
  \/ Flushed \/ Shutdown \/ Closed

Next == Transform \/ Invoke \/ Worker

Spec == Init /\ [][Next]_vars

\* The camera keeps delivering frames, Media Foundation keeps calling back, the
\* transform finishes what it holds and the worker runs.  Errors are free to happen
\* or not, and nothing obliges the owner to ask for a keyframe or to stop.
Fairness ==
  /\ WF_vars(AskForInput) /\ WF_vars(Encode)
  /\ WF_vars(InvokeStopped \/ InvokeTakes \/ InvokeSends \/ InvokeReportsOverflow \/ InvokeRearms)
  /\ WF_vars(Consume \/ Pump \/ DropFrame \/ InputAccepted \/ Flushed \/ Closed)

FairSpec == Spec /\ Fairness
-----------------------------------------------------------------------------
(* Properties. *)

\* Every variable keeps its type; the channel keeps its capacity and the transform its depth.
TypeOK ==
  /\ credit \in 0..Depth
  /\ held \in Seq(BOOLEAN) /\ ready \in Seq(BOOLEAN) /\ forced \in BOOLEAN
  /\ posted \in Seq(Announcement)
  /\ callback \in {"armed", "taken", "full", "rearm", "off"}
  /\ event \in Announcement
  /\ events \in Seq(Announcement) /\ Len(events) <= EventLimit
  /\ needs_input \in BOOLEAN
  /\ worker \in {"idle", "pump", "flush", "drain", "closed"}
  /\ lost \subseteq Announcement
  /\ alarmed \in BOOLEAN /\ owed \in BOOLEAN

Count(what, seq) == Cardinality({i \in DOMAIN seq : seq[i] = what})

\* The announcements that have not reached the channel yet, and all on their way.
Coming(what) == Count(what, posted) + IF callback = "taken" /\ event = what THEN 1 ELSE 0
InFlight(what) == Coming(what) + Count(what, events)

\* ProcessInput is only called on a transform that asked for a frame: the flag stands
\* for a NeedInput of its own, besides those still on their way (consume, pump_events).
InputIsInvited ==
  (IF needs_input THEN 1 ELSE 0) + InFlight("NeedInput") <= credit

\* No output is forgotten and none is collected twice: unless the channel refused a
\* HaveOutput, or an output came without a sample, one is on its way for each output
\* the transform holds (pump_events).
OutputsAreAnnounced ==
  "HaveOutput" \notin lost => InFlight("HaveOutput") = Len(ready)

\* "The transform is still busy": consume drops a raw frame only when every frame the
\* transform asked for has been given to it, or the request has not reached the channel.
DropsOnlyWhenBusy ==
  [][DropFrame => "NeedInput" \in lost \/ Coming("NeedInput") = credit]_vars

\* A forced keyframe comes out of the encoder while the camera delivers, unless the encoder
\* is closed, the next BeginGetEvent failed, the channel refused an announcement or an
\* output came without a sample: what take_keyframe_request's callers rely on.
ForcedKeyframeComesOut ==
  owed ~> (~owed \/ worker = "closed" \/ callback = "off" \/ lost # {})
=============================================================================
