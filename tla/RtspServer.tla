------------------------------ MODULE RtspServer ------------------------------
(***************************************************************************)
(* camrtsp-server's `run_until`: the accept loop, its session threads and  *)
(* its shutdown.                                                           *)
(*                                                                         *)
(* Each pass joins the threads that have finished, then accepts at most    *)
(* one connection.  The pass walks `sessions` with swap_remove while the   *)
(* threads keep finishing; leaving the loop, for whatever reason, shuts    *)
(* every socket down and then joins every thread.  What a session does     *)
(* between its start and its end is RtspSession's business: here it plays, *)
(* pauses and ends.                                                        *)
(***************************************************************************)
EXTENDS Naturals, Sequences, FiniteSets

CONSTANTS
  Conns,           \* the clients that may connect
  MaxConnections   \* MAX_CONNECTIONS

ASSUME MaxConnectionsAssumption == MaxConnections \in Nat \ {0}

VARIABLES
  stopping,   \* the stop flag shared with the caller
  server,     \* where run_until is: "top", "reap", "accept", "shut", "join", "returned"
  sessions,   \* sessions, as the connections whose thread it holds
  index,      \* index, from 1, also of the two loops of the shutdown
  outcome,    \* the result the loop was left with
  backlog,    \* connections the listener has not handed over yet
  thread,     \* "none", "running" or "finished", for each connection
  shut,       \* the server has shut the connection's socket down
  viewing,    \* the session thread holds a Subscription
  finished    \* history: the threads that had finished when the pass began

vars == <<stopping, server, sessions, index, outcome, backlog, thread, shut, viewing, finished>>

clientVars == <<thread, shut, viewing>>

Init ==
  /\ stopping = FALSE
  /\ server = "top"
  /\ sessions = <<>>
  /\ index = 1
  /\ outcome = "none"
  /\ backlog = {}
  /\ thread = [c \in Conns |-> "none"]
  /\ shut = [c \in Conns |-> FALSE]
  /\ viewing = [c \in Conns |-> FALSE]
  /\ finished = {}

\* Variant: the last connection is removed instead of the finished one.
PopInstead(seq, i) == SubSeq(seq, 1, Len(seq) - 1)

\* Vec::swap_remove: the last element takes the place of the removed one.
SwapRemove(seq, i) == SubSeq([seq EXCEPT ![i] = seq[Len(seq)]], 1, Len(seq) - 1)

Goto(place) == server' = place /\ index' = 1
-----------------------------------------------------------------------------
(* The thread that runs run_until. *)

\* The stop flag is read once per pass.
BeginPass ==
  /\ server = "top" /\ ~stopping
  /\ Goto("reap")
  /\ finished' = {c \in Conns : thread[c] = "finished"}
  /\ UNCHANGED <<stopping, sessions, outcome, backlog, clientVars>>

\* Variant: the loop is left without shutting the sockets down.
LeaveWithoutShutdown(result) ==
  /\ Goto("join")
  /\ outcome' = result
  /\ UNCHANGED <<stopping, sessions, clientVars, finished>>

LeaveLoop(result) ==
  /\ Goto("shut")
  /\ outcome' = result
  /\ UNCHANGED <<stopping, sessions, clientVars, finished>>

ObserveStop == server = "top" /\ stopping /\ LeaveLoop("ok") /\ UNCHANGED backlog

\* One round of the reaping loop: is_finished() and join(), or the next index.
ReapOne ==
  /\ server = "reap" /\ index <= Len(sessions)
  /\ \E c \in {sessions[index]} :
       \/ /\ thread[c] = "finished"
          /\ sessions' = SwapRemove(sessions, index)
          /\ thread' = [thread EXCEPT ![c] = "none"]
          /\ UNCHANGED index
       \/ /\ thread[c] # "finished"
          /\ index' = index + 1
          /\ UNCHANGED <<sessions, thread>>
  /\ UNCHANGED <<stopping, server, outcome, backlog, shut, viewing, finished>>

ReapEnd ==
  /\ server = "reap" /\ index > Len(sessions)
  /\ Goto("accept")
  /\ UNCHANGED <<stopping, sessions, outcome, backlog, clientVars, finished>>

\* accept() gives a connection and there is a slot for its thread.
Accept(c) ==
  /\ server = "accept" /\ c \in backlog
  /\ Len(sessions) < MaxConnections
  /\ backlog' = backlog \ {c}
  /\ sessions' = Append(sessions, c)
  /\ thread' = [thread EXCEPT ![c] = "running"]
  /\ Goto("top")
  /\ UNCHANGED <<stopping, outcome, shut, viewing, finished>>

\* Variant: a connection over the limit is left in the backlog.
RefuseByWaiting(c) ==
  /\ server = "accept" /\ c \in backlog
  /\ Len(sessions) >= MaxConnections
  /\ Goto("top")
  /\ UNCHANGED <<stopping, sessions, outcome, backlog, clientVars, finished>>

\* accept() gives a connection beyond the limit: dropping the stream closes it.
Refuse(c) ==
  /\ server = "accept" /\ c \in backlog
  /\ Len(sessions) >= MaxConnections
  /\ backlog' = backlog \ {c}
  /\ Goto("top")
  /\ UNCHANGED <<stopping, sessions, outcome, clientVars, finished>>

\* try_clone() or the spawn of the thread fails: the loop is left.
StartFails(c) ==
  /\ server = "accept" /\ c \in backlog
  /\ Len(sessions) < MaxConnections
  /\ backlog' = backlog \ {c}
  /\ LeaveLoop("error")

\* WouldBlock, after which the loop sleeps.
AcceptNothing ==
  /\ server = "accept" /\ backlog = {}
  /\ Goto("top")
  /\ UNCHANGED <<stopping, sessions, outcome, backlog, clientVars, finished>>

\* Interrupted, whoever waits: a pass without a connection.
AcceptInterrupted ==
  /\ server = "accept"
  /\ Goto("top")
  /\ UNCHANGED <<stopping, sessions, outcome, backlog, clientVars, finished>>

\* Any other error of accept().
AcceptFails == server = "accept" /\ LeaveLoop("error") /\ UNCHANGED backlog

ShutOne ==
  /\ server = "shut" /\ index <= Len(sessions)
  /\ shut' = [shut EXCEPT ![sessions[index]] = TRUE]
  /\ index' = index + 1
  /\ UNCHANGED <<stopping, server, sessions, outcome, backlog, thread, viewing, finished>>

ShutEnd ==
  /\ server = "shut" /\ index > Len(sessions)
  /\ Goto("join")
  /\ UNCHANGED <<stopping, sessions, outcome, backlog, clientVars, finished>>

\* Variant: the threads are dropped instead of joined.
JoinWithoutWaiting ==
  /\ server = "join" /\ index <= Len(sessions)
  /\ index' = index + 1
  /\ UNCHANGED <<stopping, server, sessions, outcome, backlog, clientVars, finished>>

\* join() returns once the thread has finished.
JoinOne ==
  /\ server = "join" /\ index <= Len(sessions)
  /\ thread[sessions[index]] = "finished"
  /\ index' = index + 1
  /\ UNCHANGED <<stopping, server, sessions, outcome, backlog, clientVars, finished>>

\* Returning closes the listener, and with it the connections it still holds.
Return ==
  /\ server = "join" /\ index > Len(sessions)
  /\ Goto("returned")
  /\ sessions' = <<>>
  /\ backlog' = {}
  /\ UNCHANGED <<stopping, outcome, clientVars, finished>>
-----------------------------------------------------------------------------
(* The caller, the clients and the session threads. *)

Stop ==
  /\ ~stopping
  /\ stopping' = TRUE
  /\ UNCHANGED <<server, sessions, index, outcome, backlog, clientVars, finished>>

Connect(c) ==
  /\ server # "returned" /\ thread[c] = "none" /\ c \notin backlog
  /\ backlog' = backlog \cup {c}
  /\ UNCHANGED <<stopping, server, sessions, index, outcome, clientVars, finished>>

\* PLAY and PAUSE.  A request that was read before the socket was shut down may
\* still be served.
Watch(c, on) ==
  /\ thread[c] = "running" /\ viewing[c] # on
  /\ viewing' = [viewing EXCEPT ![c] = on]
  /\ UNCHANGED <<stopping, server, sessions, index, outcome, backlog, thread, shut, finished>>

\* handle() returns, for a reason of its own or because its socket is shut.
Finish(c) ==
  /\ thread[c] = "running"
  /\ thread' = [thread EXCEPT ![c] = "finished"]
  /\ viewing' = [viewing EXCEPT ![c] = FALSE]
  /\ UNCHANGED <<stopping, server, sessions, index, outcome, backlog, shut, finished>>
-----------------------------------------------------------------------------
Server ==
  \/ BeginPass \/ ObserveStop \/ ReapOne \/ ReapEnd
  \/ AcceptNothing \/ AcceptInterrupted \/ AcceptFails
  \/ ShutOne \/ ShutEnd \/ JoinOne \/ Return

Next ==
  \/ Server
  \/ \E c \in Conns : \/ Accept(c) \/ Refuse(c) \/ StartFails(c)
                      \/ Connect(c) \/ Watch(c, TRUE) \/ Watch(c, FALSE) \/ Finish(c)
  \/ Stop

Spec == Init /\ [][Next]_vars

\* The server thread runs (an error of accept() is not something to count on),
\* accept() is not interrupted for ever and the kernel hands connections over in
\* their order, and a session notices that
\* its socket was shut down: every read and write on it fails from then on.
Fairness ==
  /\ WF_vars(BeginPass) /\ WF_vars(ObserveStop) /\ WF_vars(ReapOne) /\ WF_vars(ReapEnd)
  /\ WF_vars(AcceptNothing)
  /\ \A c \in Conns : SF_vars(Accept(c) \/ Refuse(c))
  /\ WF_vars(ShutOne) /\ WF_vars(ShutEnd) /\ WF_vars(JoinOne) /\ WF_vars(Return)
  /\ \A c \in Conns : WF_vars(shut[c] /\ Finish(c))

FairSpec == Spec /\ Fairness
-----------------------------------------------------------------------------
Held == {sessions[i] : i \in DOMAIN sessions}

\* Every variable keeps its type, and there are never more sessions than MAX_CONNECTIONS.
TypeOK ==
  /\ stopping \in BOOLEAN
  /\ server \in {"top", "reap", "accept", "shut", "join", "returned"}
  /\ sessions \in Seq(Conns) /\ Len(sessions) <= MaxConnections
  /\ index \in 1 .. MaxConnections + 1
  /\ outcome \in {"none", "ok", "error"}
  /\ backlog \subseteq Conns
  /\ thread \in [Conns -> {"none", "running", "finished"}]
  /\ shut \in [Conns -> BOOLEAN] /\ viewing \in [Conns -> BOOLEAN]
  /\ finished \subseteq Conns

\* No thread is lost: every thread that runs, or has finished and was not joined,
\* is held by exactly one entry of `sessions`, through every swap_remove; so at
\* most MAX_CONNECTIONS sessions run, however connections come and go.
EveryThreadIsHeld ==
  server # "returned" =>
    \A c \in Conns :
      Cardinality({i \in DOMAIN sessions : sessions[i] = c}) =
        IF thread[c] = "none" THEN 0 ELSE 1

\* A pass joins every thread that had finished when it began, although
\* swap_remove moves an unseen entry to the current index; the limit never refuses
\* a client for the sake of a thread that had ended before the pass.
AcceptSeesOnlyUnfinished == server = "accept" => Held \cap finished = {}

\* Clean shutdown: once run_until has returned, no session thread runs and no
\* Subscription is left to be counted as a viewer.
NothingOutlivesTheServer ==
  server = "returned" => \A c \in Conns : thread[c] # "running" /\ ~viewing[c]

\* No new session starts once the loop is left, and no socket of a running session
\* is left open when the joins begin, so that no join waits for a client.
JoinsWaitForNoClient ==
  server = "join" => \A c \in Conns : thread[c] = "running" => shut[c]

\* What holds in every state of the accept loop, and what its shutdown rests on: the
\* types with the limit, the threads held, the joins that wait for no client.
ServerInv == TypeOK /\ EveryThreadIsHeld /\ AcceptSeesOnlyUnfinished /\ JoinsWaitForNoClient

\* A stop is honoured: run_until returns, whatever its clients do.
StopReturns == stopping ~> server = "returned"

\* A connection does not stay unanswered in front of a server that runs.
ConnectionsAreAnswered == \A c \in Conns : c \in backlog ~> c \notin backlog
=============================================================================
