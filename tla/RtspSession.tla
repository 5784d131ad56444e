----------------------------- MODULE RtspSession -----------------------------
(***************************************************************************)
(* camrtsp-server's `handle`: the thread that serves one RTSP connection.  *)
(*                                                                         *)
(* Each pass of its loop reads at most one request (pc "control") and then *)
(* runs its tail (pc "media"): the idle check without a subscription, one  *)
(* access unit with one.  A request that is answered 401, 404 or 454       *)
(* `continue`s past the tail.  Time is counted in ticks.  `held`,          *)
(* `trusted`, `told`, `reply` and `carrier` are history variables.         *)
(***************************************************************************)
EXTENDS Transport

CONSTANTS
  Protected,     \* credentials are configured
  Permitted,     \* transports allowed by the TransportPolicy
  Offers,        \* the Transport headers of SETUP, <<>> when there is none
  NonceTtl,      \* NONCE_TTL, in ticks
  IdleLimit,     \* the 30 s of an idle session, in ticks
  NonceRange     \* nonces are numbered modulo NonceRange

ASSUME ProtectedAssumption == Protected \in BOOLEAN
ASSUME PermittedAssumption == Permitted \subseteq {"tcp", "udp"}
ASSUME OffersAssumption == Offers \subseteq Seq(Alternative) /\ <<>> \in Offers
ASSUME TimesAssumption == NonceTtl \in Nat \ {0} /\ IdleLimit \in Nat \ {0}
ASSUME NonceRangeAssumption == NonceRange \in Nat /\ NonceRange > 1

NoNonce == NonceRange

\* "OTHER" is any method that the server does not know.
Methods ==
  {"OPTIONS", "DESCRIBE", "SETUP", "PLAY", "PAUSE", "GET_PARAMETER", "TEARDOWN", "OTHER"}

\* answer: what the Authorization header is worth; "digest" is the right answer
\* to the newest challenge.  target: the URI names the stream.  session: the
\* Session header.  transport: the Transport header, of a SETUP only.
Request ==
  {r \in [method : Methods, answer : {"none", "wrong", "basic", "digest"}, target : BOOLEAN,
          session : {"none", "own", "other"}, transport : Offers] :
     r.method = "SETUP" \/ r.transport = <<>>}

VARIABLES
  pc,          \* where the loop is: "control", "media" or "ended"
  delivery,    \* delivery
  subscribed,  \* subscription.is_some()
  nonce,       \* auth.nonce
  nonceAge,    \* auth.issued.elapsed(), up to NonceTtl + 1
  silence,     \* last_control.elapsed(), up to IdleLimit + 1
  quiet,       \* the client will send nothing more, but stays connected
  held,        \* the nonce of the newest challenge the client was sent
  trusted,     \* some request of the connection was authorized
  told,        \* an SDP or media was sent to the client
  reply,       \* status of the newest response
  carrier      \* the transport of the newest media packet

vars == <<pc, delivery, subscribed, nonce, nonceAge, silence, quiet, held, trusted, told,
          reply, carrier>>

authVars == <<nonce, nonceAge, held>>
streamVars == <<delivery, subscribed>>

Init ==
  /\ pc = "control"
  /\ delivery = NoTransport
  /\ subscribed = FALSE
  /\ nonce = 0
  /\ nonceAge = 0
  /\ silence = 0
  /\ quiet = FALSE
  /\ held = NoNonce
  /\ trusted = FALSE
  /\ told = FALSE
  /\ reply = "none"
  /\ carrier = NoTransport
-----------------------------------------------------------------------------
(* The gates a request passes, in order. *)

\* authorized(): Basic at any time, Digest while the nonce has not expired.
Authorized(r) ==
  \/ ~Protected
  \/ r.answer = "basic"
  \/ r.answer = "digest" /\ held = nonce /\ nonceAge <= NonceTtl

\* Variant: DESCRIBE is exempt from authentication, as OPTIONS is.
AdmittedToDescribe(r) == r.method \in {"OPTIONS", "DESCRIBE"} \/ Authorized(r)

\* Only OPTIONS is served without credentials.
Admitted(r) == r.method = "OPTIONS" \/ Authorized(r)

\* The Session header names another session, or is missing where it is needed.
WrongSession(r) ==
  \/ r.session = "other"
  \/ /\ r.method \in {"PLAY", "PAUSE", "TEARDOWN"}
     /\ delivery # NoTransport
     /\ r.session = "none"

\* take_request() returned a request.
Read(r) == pc = "control" /\ ~quiet /\ silence' = 0 /\ UNCHANGED quiet

\* Variant: the challenge repeats the nonce it has just refused.
ChallengeAgain(r) ==
  /\ Read(r)
  /\ ~Admitted(r)
  /\ UNCHANGED <<nonce, nonceAge>>
  /\ held' = nonce'
  /\ reply' = "401"
  /\ UNCHANGED <<pc, streamVars, trusted, told, carrier>>

\* 401 with a challenge; an expired nonce is replaced first.
Challenge(r) ==
  /\ Read(r)
  /\ ~Admitted(r)
  /\ IF nonceAge >= NonceTtl
       THEN nonce' = (nonce + 1) % NonceRange /\ nonceAge' = 0
       ELSE UNCHANGED <<nonce, nonceAge>>
  /\ held' = nonce'
  /\ reply' = "401"
  /\ UNCHANGED <<pc, streamVars, trusted, told, carrier>>

\* 404 and 454.
Reject(r) ==
  /\ Read(r)
  /\ Admitted(r)
  /\ ~r.target \/ WrongSession(r)
  /\ reply' = IF r.target THEN "454" ELSE "404"
  /\ trusted' = (trusted \/ (r.method # "OPTIONS" /\ Authorized(r)))
  /\ UNCHANGED <<pc, streamVars, authVars, told, carrier>>

\* A request that reaches `match request.method`.
Serve(r) ==
  /\ Read(r)
  /\ Admitted(r)
  /\ r.target /\ ~WrongSession(r)
  /\ trusted' = (trusted \/ (r.method # "OPTIONS" /\ Authorized(r)))
  /\ UNCHANGED <<authVars, carrier>>

Respond(status) == reply' = status /\ pc' = "media"

\* OPTIONS, GET_PARAMETER: the state does not matter and does not change.
Inquire(r) ==
  /\ r.method \in {"OPTIONS", "GET_PARAMETER"}
  /\ Serve(r)
  /\ Respond("200")
  /\ UNCHANGED <<streamVars, told>>

\* DESCRIBE: an SDP once the codec is known, 503 before.
Describe(r) ==
  /\ r.method = "DESCRIBE"
  /\ Serve(r)
  /\ \/ Respond("200") /\ told' = TRUE
     \/ Respond("503") /\ UNCHANGED told
  /\ UNCHANGED streamVars

\* Variant: SETUP is not refused while the stream plays.
SetupWhilePlaying(r) ==
  /\ r.method = "SETUP"
  /\ Serve(r)
  /\ \E busy \in SUBSET Ports :
       LET selected == Negotiated(r.transport, Permitted, busy)
       IN IF selected = NoTransport
            THEN UNCHANGED delivery /\ Respond("461")
            ELSE delivery' = selected /\ Respond("200")
  /\ UNCHANGED <<subscribed, told>>

\* SETUP before PLAY replaces the transport, or keeps it when the offer is not
\* permitted or no UDP port pair is free.
Setup(r) ==
  /\ r.method = "SETUP" /\ ~subscribed
  /\ Serve(r)
  /\ \E busy \in SUBSET Ports :
       LET selected == Negotiated(r.transport, Permitted, busy)
       IN IF selected = NoTransport
            THEN UNCHANGED delivery /\ Respond("461")
            ELSE delivery' = selected /\ Respond("200")
  /\ UNCHANGED <<subscribed, told>>

Play(r) ==
  /\ r.method = "PLAY" /\ delivery # NoTransport
  /\ Serve(r)
  /\ subscribed' = TRUE
  /\ Respond("200")
  /\ UNCHANGED <<delivery, told>>

Pause(r) ==
  /\ r.method = "PAUSE" /\ subscribed
  /\ Serve(r)
  /\ subscribed' = FALSE
  /\ Respond("200")
  /\ UNCHANGED <<delivery, told>>

\* Returning from handle() drops the subscription and the sockets.
End == pc' = "ended" /\ delivery' = NoTransport /\ subscribed' = FALSE

Teardown(r) ==
  /\ r.method = "TEARDOWN" /\ delivery # NoTransport
  /\ Serve(r)
  /\ reply' = "200"
  /\ End
  /\ UNCHANGED told

\* 455: SETUP while playing, PLAY or TEARDOWN before SETUP, PAUSE before PLAY, and what
\* the server does not know.
OutOfOrder(r) ==
  /\ \/ r.method = "SETUP" /\ subscribed
     \/ r.method \in {"PLAY", "TEARDOWN"} /\ delivery = NoTransport
     \/ r.method = "PAUSE" /\ ~subscribed
     \/ r.method = "OTHER"
  /\ Serve(r)
  /\ Respond("455")
  /\ UNCHANGED <<streamVars, told>>
-----------------------------------------------------------------------------
\* Variant: an empty read counts as a sign of life.
NoRequestCountsAsControl ==
  /\ pc = "control"
  /\ pc' = "media"
  /\ silence' = 0
  /\ UNCHANGED <<streamVars, authVars, quiet, trusted, told, reply, carrier>>

\* read_control() found no complete request.
NoRequest ==
  /\ pc = "control"
  /\ pc' = "media"
  /\ UNCHANGED <<streamVars, authVars, silence, quiet, trusted, told, reply, carrier>>

\* A read or a write failed, a message was malformed or too large, or a write
\* met its deadline.
Fail ==
  /\ pc # "ended"
  /\ End
  /\ UNCHANGED <<authVars, silence, quiet, trusted, told, reply, carrier>>

\* The tail without a subscription.
Idle ==
  /\ pc = "media" /\ ~subscribed
  /\ IF silence > IdleLimit THEN End ELSE pc' = "control" /\ UNCHANGED streamVars
  /\ UNCHANGED <<authVars, silence, quiet, trusted, told, reply, carrier>>

\* The tail with one: recv_timeout() yields a unit, sent whole, or nothing.
Stream ==
  /\ pc = "media" /\ subscribed /\ delivery # NoTransport
  /\ pc' = "control"
  /\ \/ carrier' = delivery /\ told' = TRUE
     \/ UNCHANGED <<carrier, told>>
  /\ UNCHANGED <<streamVars, authVars, silence, quiet, trusted, reply>>

Older(age, limit) == IF age > limit THEN age ELSE age + 1

Tick ==
  /\ pc # "ended"
  /\ nonceAge' = Older(nonceAge, NonceTtl)
  /\ silence' = Older(silence, IdleLimit)
  /\ UNCHANGED <<pc, streamVars, nonce, quiet, held, trusted, told, reply, carrier>>

\* The client hangs: connected, but silent from now on.
FallSilent ==
  /\ pc # "ended" /\ ~quiet
  /\ quiet' = TRUE
  /\ UNCHANGED <<pc, streamVars, authVars, silence, trusted, told, reply, carrier>>
-----------------------------------------------------------------------------
Handle(r) ==
  \/ Challenge(r) \/ Reject(r) \/ Inquire(r) \/ Describe(r) \/ Setup(r)
  \/ Play(r) \/ Pause(r) \/ Teardown(r) \/ OutOfOrder(r)

Next ==
  \/ \E r \in Request : Handle(r)
  \/ NoRequest \/ Fail \/ Idle \/ Stream \/ Tick \/ FallSilent

Spec == Init /\ [][Next]_vars

\* The thread keeps looping and the clock keeps running; nothing is assumed of
\* the client.
Fairness == WF_vars(NoRequest) /\ WF_vars(Idle) /\ WF_vars(Stream) /\ WF_vars(Tick)

FairSpec == Spec /\ Fairness
-----------------------------------------------------------------------------
Replies == {"none", "200", "401", "404", "454", "455", "461", "503"}

Playback ==
  INSTANCE RtspPlayback WITH
    state <- IF pc = "ended" THEN "closed"
             ELSE IF subscribed THEN "playing"
             ELSE IF delivery # NoTransport THEN "ready" ELSE "init",
    transport <- delivery,
    answer <- reply,
    Answers <- Replies

\* Every variable keeps its type, and a subscription is only ever held together
\* with a transport, so that the tail of the loop can serve it.
TypeOK ==
  /\ pc \in {"control", "media", "ended"}
  /\ delivery \in Permitted \cup {NoTransport}
  /\ subscribed \in BOOLEAN
  /\ subscribed => delivery # NoTransport
  /\ nonce \in 0 .. NonceRange - 1
  /\ nonceAge \in 0 .. NonceTtl + 1
  /\ silence \in 0 .. IdleLimit + 1
  /\ quiet \in BOOLEAN
  /\ held \in {NoNonce, nonce}
  /\ trusted \in BOOLEAN /\ told \in BOOLEAN
  /\ reply \in Replies
  /\ carrier \in Permitted \cup {NoTransport}

\* With credentials configured, a connection on which no request was authorized
\* has no transport and no subscription and was told nothing of the stream,
\* although OPTIONS needs no credentials and media needs no request.
NothingBeforeTrust ==
  Protected /\ ~trusted => delivery = NoTransport /\ ~subscribed /\ ~told

\* What holds in every state of a connection: the types, and nothing before trust.
SessionInv == TypeOK /\ NothingBeforeTrust

Answering(m) == [method |-> m, answer |-> "digest", target |-> TRUE, session |-> "own",
                 transport |-> <<>>]

\* The right answer to the newest challenge is refused only because its nonce has
\* expired, and then the same response brings a nonce that has just been issued:
\* the expiry test of authorized() and the one that replaces the nonce agree.
RefusalBringsFreshNonce ==
  [][\A m \in Methods :
       held # NoNonce /\ Challenge(Answering(m)) =>
         nonce' # nonce /\ nonceAge' = 0 /\ held' = nonce']_vars

\* The loop implements the playback state machine: transport and subscription change only
\* as it says, and only with a 200 or at the end; whatever fails half way leaves both alone.
PlaybackSpec == Playback!Spec

\* A connection that is not playing and whose client has fallen silent ends.
SilentSessionEnds == (quiet /\ ~subscribed) ~> (pc = "ended")
=============================================================================
