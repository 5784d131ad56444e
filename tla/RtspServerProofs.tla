--------------------------- MODULE RtspServerProofs ---------------------------
(***************************************************************************)
(* The accept loop's invariants, for any clients and any MAX_CONNECTIONS:  *)
(* no thread is lost by the walk with swap_remove, no join of the shutdown *)
(* waits for a client, and nothing outlives run_until.                     *)
(***************************************************************************)
EXTENDS RtspServer, FiniteSetTheorems, SequenceTheorems, TLAPS

USE MaxConnectionsAssumption

\* EveryThreadIsHeld without counting: no connection has two entries, and the
\* entries are those of the threads that were started and not joined.
HeldOnce == \A i, j \in 1 .. Len(sessions) : sessions[i] = sessions[j] => i = j

HeldIsStarted ==
  server # "returned" =>
    \A c \in Conns :
      thread[c] # "none" <=> \E i \in 1 .. Len(sessions) : sessions[i] = c

\* The index is at most one past the entries, and starts anew in each loop.
IndexInReach ==
  /\ index <= Len(sessions) + 1
  /\ server = "returned" => sessions = <<>>

\* The listener hands over connections that no thread serves.
BacklogIsNew == \A c \in backlog : thread[c] = "none"

\* A Subscription belongs to a thread that runs.
ViewersRun == \A c \in Conns : viewing[c] => thread[c] = "running"

\* Behind the index, the pass has joined every thread it set out to join; one that
\* had finished when the pass began does not run again before the pass accepts.
PassedAreUnfinished ==
  /\ server = "reap" =>
       /\ \A c \in finished : thread[c] # "running"
       /\ \A i \in 1 .. index - 1 : sessions[i] \notin finished
  /\ server = "accept" =>
       \A i \in 1 .. Len(sessions) : sessions[i] \notin finished

\* Behind the index, sockets are shut; from the joins on, all of them are, and the
\* threads behind the index have finished.
PassedAreShut ==
  /\ server = "shut" => \A i \in 1 .. index - 1 : shut[sessions[i]]
  /\ server = "join" =>
       /\ \A i \in 1 .. Len(sessions) : shut[sessions[i]]
       /\ \A i \in 1 .. index - 1 : thread[sessions[i]] = "finished"

\* What the joins leave behind.
NoneRunsAtTheEnd == server = "returned" => \A c \in Conns : thread[c] # "running"

IInv ==
  /\ TypeOK
  /\ HeldOnce /\ HeldIsStarted /\ IndexInReach
  /\ BacklogIsNew /\ ViewersRun
  /\ PassedAreUnfinished /\ PassedAreShut /\ NoneRunsAtTheEnd
-----------------------------------------------------------------------------
\* Vec::swap_remove: one entry less, with the last one in the place of the removed.
LEMMA SwapRemoved ==
  ASSUME NEW S, NEW seq \in Seq(S), NEW i \in 1 .. Len(seq)
  PROVE  /\ SwapRemove(seq, i) \in Seq(S)
         /\ Len(SwapRemove(seq, i)) = Len(seq) - 1
         /\ \A j \in 1 .. Len(seq) - 1 :
              SwapRemove(seq, i)[j] = IF j = i THEN seq[Len(seq)] ELSE seq[j]
<1>1. Len(seq) \in Nat \ {0} /\ Len(seq) \in 1 .. Len(seq)
  BY LenProperties
<1>2. seq[Len(seq)] \in S
  BY <1>1, ElementOfSeq
<1> DEFINE moved == [seq EXCEPT ![i] = seq[Len(seq)]]
<1>3. /\ moved \in Seq(S)
      /\ Len(moved) = Len(seq)
      /\ \A j \in 1 .. Len(seq) : moved[j] = IF j = i THEN seq[Len(seq)] ELSE seq[j]
  BY <1>2, ExceptSeq
<1> HIDE DEF moved
<1>4. \A j \in 1 .. Len(seq) - 1 : moved[j] \in S
  BY <1>1, <1>3, ElementOfSeq
<1>5. /\ SubSeq(moved, 1, Len(seq) - 1) \in Seq(S)
      /\ Len(SubSeq(moved, 1, Len(seq) - 1)) =
           IF 1 <= Len(seq) - 1 THEN (Len(seq) - 1) - 1 + 1 ELSE 0
      /\ \A j \in 1 .. (Len(seq) - 1) - 1 + 1 :
           SubSeq(moved, 1, Len(seq) - 1)[j] = moved[1 + j - 1]
  BY <1>1, <1>4, SubSeqProperties
<1>6. SwapRemove(seq, i) = SubSeq(moved, 1, Len(seq) - 1)
  BY DEF SwapRemove, moved
<1> QED
  BY <1>1, <1>3, <1>5, <1>6

\* Joining the finished thread at the index removes its entry and no other.
LEMMA Reaped ==
  ASSUME IInv, server = "reap", index <= Len(sessions),
         thread[sessions[index]] = "finished",
         sessions' = SwapRemove(sessions, index),
         thread' = [thread EXCEPT ![sessions[index]] = "none"]
  PROVE  /\ sessions' \in Seq(Conns) /\ Len(sessions') = Len(sessions) - 1
         /\ \A j \in 1 .. index - 1 : sessions'[j] = sessions[j]
         /\ HeldOnce'
         /\ \A c \in Conns :
              thread'[c] # "none" <=> \E j \in 1 .. Len(sessions') : sessions'[j] = c
<1> DEFINE last == Len(sessions)
<1>1. /\ sessions \in Seq(Conns) /\ last \in Nat /\ index \in 1 .. last
      /\ thread \in [Conns -> {"none", "running", "finished"}]
  BY LenProperties DEF IInv, TypeOK
<1>2. /\ sessions' \in Seq(Conns) /\ Len(sessions') = last - 1
      /\ \A j \in 1 .. last - 1 :
           sessions'[j] = IF j = index THEN sessions[last] ELSE sessions[j]
  BY <1>1, SwapRemoved
<1>3. \A i \in 1 .. last : sessions[i] \in Conns
  BY <1>1, ElementOfSeq
<1>4. \A i, j \in 1 .. last : sessions[i] = sessions[j] => i = j
  BY DEF IInv, HeldOnce
<1>5. \A c \in Conns : thread[c] # "none" <=> \E i \in 1 .. last : sessions[i] = c
  BY DEF IInv, HeldIsStarted
<1> HIDE DEF last
<1>6. HeldOnce'
  BY <1>1, <1>2, <1>4 DEF HeldOnce
<1>7. ASSUME NEW c \in Conns
      PROVE  thread'[c] # "none" <=> \E j \in 1 .. Len(sessions') : sessions'[j] = c
  <2>1. CASE c = sessions[index]
    <3>1. thread'[c] = "none"
      BY <1>1, <2>1
    <3>2. \A j \in 1 .. last - 1 : sessions'[j] # c
      BY <1>1, <1>2, <1>4, <2>1
    <3> QED
      BY <1>2, <3>1, <3>2
  <2>2. CASE c # sessions[index]
    <3>1. thread'[c] = thread[c]
      BY <1>1, <1>3, <2>2
    <3>2. ASSUME NEW i \in 1 .. last, sessions[i] = c
          PROVE  \E j \in 1 .. last - 1 : sessions'[j] = c
      <4>1. CASE i = last
        BY <1>1, <1>2, <2>2, <3>2, <4>1
      <4>2. CASE i # last
        <5>1. i \in 1 .. last - 1 /\ i # index
          BY <1>1, <2>2, <3>2, <4>2
        <5> QED
          BY <1>2, <3>2, <5>1
      <4> QED
        BY <4>1, <4>2
    <3>3. ASSUME NEW j \in 1 .. last - 1, sessions'[j] = c
          PROVE  \E i \in 1 .. last : sessions[i] = c
      BY <1>1, <1>2, <3>3
    <3> QED
      BY <1>2, <1>5, <3>1, <3>2, <3>3
  <2> QED
    BY <2>1, <2>2
<1>8. \A j \in 1 .. index - 1 : sessions'[j] = sessions[j]
  BY <1>1, <1>2
<1> QED
  BY <1>2, <1>6, <1>7, <1>8 DEF last

\* What Accept adds: a last entry, for a connection that had none.
LEMMA Accepted ==
  ASSUME IInv, NEW c \in Conns, Accept(c)
  PROVE  /\ sessions' \in Seq(Conns) /\ Len(sessions') = Len(sessions) + 1
         /\ \A i \in 1 .. Len(sessions) : sessions'[i] = sessions[i]
         /\ sessions'[Len(sessions) + 1] = c
         /\ HeldOnce'
         /\ HeldIsStarted'
<1>1. /\ sessions \in Seq(Conns) /\ Len(sessions) \in Nat
      /\ thread \in [Conns -> {"none", "running", "finished"}]
      /\ thread[c] = "none" /\ thread' = [thread EXCEPT ![c] = "running"]
      /\ server # "returned" /\ server' = "top"
  BY LenProperties DEF IInv, TypeOK, BacklogIsNew, Accept, Goto
<1>2. /\ sessions' \in Seq(Conns) /\ Len(sessions') = Len(sessions) + 1
      /\ \A i \in 1 .. Len(sessions) : sessions'[i] = sessions[i]
      /\ sessions'[Len(sessions) + 1] = c
  BY <1>1, AppendProperties DEF Accept
<1>3. \A i \in 1 .. Len(sessions) : sessions[i] # c
  BY <1>1 DEF IInv, HeldIsStarted
<1>4. HeldOnce'
  BY <1>1, <1>2, <1>3 DEF IInv, HeldOnce
<1>5. ASSUME NEW d \in Conns
      PROVE  thread'[d] # "none" <=> \E i \in 1 .. Len(sessions') : sessions'[i] = d
  <2>1. CASE d = c
    BY <1>1, <1>2, <2>1
  <2>2. CASE d # c
    <3>1. thread'[d] = thread[d]
      BY <1>1, <2>2
    <3>2. (\E i \in 1 .. Len(sessions') : sessions'[i] = d)
            <=> \E i \in 1 .. Len(sessions) : sessions[i] = d
      BY <1>1, <1>2, <2>2
    <3> QED
      BY <1>1, <3>1, <3>2 DEF IInv, HeldIsStarted
  <2> QED
    BY <2>1, <2>2
<1>6. HeldIsStarted'
  BY <1>5 DEF HeldIsStarted
<1> QED
  BY <1>2, <1>4, <1>6

\* A step of run_until keeps the invariant.
LEMMA ServerStep ==
  ASSUME IInv, Server
  PROVE  IInv'
<1>t. /\ TypeOK
      /\ sessions \in Seq(Conns) /\ Len(sessions) \in Nat
      /\ \A i \in 1 .. Len(sessions) : sessions[i] \in Conns
  BY LenProperties, ElementOfSeq DEF IInv, TypeOK
<1> USE DEF IInv, HeldOnce, HeldIsStarted, IndexInReach, BacklogIsNew, ViewersRun,
            PassedAreUnfinished, PassedAreShut, NoneRunsAtTheEnd
<1>1. CASE BeginPass
  BY <1>t, <1>1 DEF BeginPass, Goto, clientVars, TypeOK
<1>2. CASE ObserveStop
  BY <1>t, <1>2 DEF ObserveStop, LeaveLoop, Goto, clientVars, TypeOK
<1>3. CASE ReapOne
  <2> DEFINE c == sessions[index]
  <2>1. c \in Conns /\ index \in 1 .. Len(sessions)
    BY <1>t, <1>3 DEF ReapOne, TypeOK
  <2>2. UNCHANGED <<stopping, server, outcome, backlog, shut, viewing, finished>>
        /\ server = "reap"
    BY <1>3 DEF ReapOne
  <2>3. CASE /\ thread[c] = "finished"
             /\ sessions' = SwapRemove(sessions, index)
             /\ thread' = [thread EXCEPT ![c] = "none"]
             /\ UNCHANGED index
    <3>1. /\ sessions' \in Seq(Conns) /\ Len(sessions') = Len(sessions) - 1
          /\ \A j \in 1 .. index - 1 : sessions'[j] = sessions[j]
          /\ HeldOnce'
          /\ \A d \in Conns :
               thread'[d] # "none" <=> \E j \in 1 .. Len(sessions') : sessions'[j] = d
      BY <2>1, <2>2, <2>3, Reaped
    <3>2. TypeOK'
      BY <1>t, <2>1, <2>2, <2>3, <3>1 DEF TypeOK
    <3>3. BacklogIsNew' /\ ViewersRun'
      BY <1>t, <2>1, <2>2, <2>3 DEF TypeOK
    <3>4. HeldIsStarted' /\ IndexInReach'
      BY <1>t, <2>1, <2>2, <2>3, <3>1 DEF TypeOK
    <3>5. PassedAreUnfinished'
      BY <1>t, <2>1, <2>2, <2>3, <3>1 DEF TypeOK
    <3> QED
      BY <2>2, <3>1, <3>2, <3>3, <3>4, <3>5
  <2>4. CASE /\ thread[c] # "finished"
             /\ index' = index + 1
             /\ UNCHANGED <<sessions, thread>>
    <3>1. c \notin finished
      BY <1>t, <2>1, <2>2, <2>4 DEF TypeOK
    <3> QED
      BY <1>t, <2>1, <2>2, <2>4, <3>1 DEF TypeOK
  <2> QED
    BY <1>3, <2>3, <2>4 DEF ReapOne
<1>4. CASE ReapEnd
  BY <1>t, <1>4 DEF ReapEnd, Goto, clientVars, TypeOK
<1>5. CASE AcceptNothing
  BY <1>t, <1>5 DEF AcceptNothing, Goto, clientVars, TypeOK
<1>6. CASE AcceptFails
  BY <1>t, <1>6 DEF AcceptFails, LeaveLoop, Goto, clientVars, TypeOK
<1>7. CASE ShutOne
  BY <1>t, <1>7 DEF ShutOne, TypeOK
<1>8. CASE ShutEnd
  BY <1>t, <1>8 DEF ShutEnd, Goto, clientVars, TypeOK
<1>9. CASE JoinOne
  BY <1>t, <1>9 DEF JoinOne, clientVars, TypeOK
<1>10. CASE Return
  <2>1. sessions' = <<>> /\ Len(sessions') = 0 /\ sessions' \in Seq(Conns)
    BY <1>10, EmptySeq DEF Return
  <2> QED
    BY <1>t, <1>10, <2>1 DEF Return, Goto, clientVars, TypeOK
<1>11. CASE AcceptInterrupted
  BY <1>t, <1>11 DEF AcceptInterrupted, Goto, clientVars, TypeOK
<1> QED
  BY <1>1, <1>2, <1>3, <1>4, <1>5, <1>6, <1>7, <1>8, <1>9, <1>10, <1>11 DEF Server

\* So does a step of the caller, of a client or of a session thread, and an accept.
LEMMA ConnStep ==
  ASSUME IInv, NEW c \in Conns,
         \/ Accept(c) \/ Refuse(c) \/ StartFails(c)
         \/ Connect(c) \/ Watch(c, TRUE) \/ Watch(c, FALSE) \/ Finish(c)
  PROVE  IInv'
<1>t. /\ TypeOK
      /\ sessions \in Seq(Conns) /\ Len(sessions) \in Nat
      /\ \A i \in 1 .. Len(sessions) : sessions[i] \in Conns
  BY LenProperties, ElementOfSeq DEF IInv, TypeOK
<1> USE DEF IInv, HeldOnce, HeldIsStarted, IndexInReach, BacklogIsNew, ViewersRun,
            PassedAreUnfinished, PassedAreShut, NoneRunsAtTheEnd
<1>1. CASE Accept(c)
  <2>1. /\ sessions' \in Seq(Conns) /\ Len(sessions') = Len(sessions) + 1
        /\ HeldOnce' /\ HeldIsStarted'
    BY <1>1, Accepted
  <2>2. TypeOK'
    BY <1>t, <1>1, <2>1 DEF Accept, Goto, TypeOK
  <2>3. BacklogIsNew' /\ ViewersRun'
    BY <1>t, <1>1 DEF Accept, TypeOK
  <2> QED
    BY <1>t, <1>1, <2>1, <2>2, <2>3 DEF Accept, Goto
<1>2. CASE Refuse(c)
  BY <1>t, <1>2 DEF Refuse, Goto, clientVars, TypeOK
<1>3. CASE StartFails(c)
  BY <1>t, <1>3 DEF StartFails, LeaveLoop, Goto, clientVars, TypeOK
<1>4. CASE Connect(c)
  BY <1>t, <1>4 DEF Connect, clientVars, TypeOK
<1>5. ASSUME NEW on \in BOOLEAN, Watch(c, on) PROVE IInv'
  BY <1>t, <1>5 DEF Watch, TypeOK
<1>6. CASE Finish(c)
  BY <1>t, <1>6 DEF Finish, TypeOK
<1> QED
  BY <1>1, <1>2, <1>3, <1>4, <1>5, <1>6
-----------------------------------------------------------------------------
\* The inductive invariant holds in every reachable state.
THEOREM ServerInvariance == Spec => []IInv
<1>1. Init => IInv
  <2> SUFFICES ASSUME Init
               PROVE  IInv
    OBVIOUS
  <2>1. sessions \in Seq(Conns) /\ Len(sessions) = 0
    BY EmptySeq DEF Init
  <2>2. TypeOK
    <3>1. /\ thread \in [Conns -> {"none", "running", "finished"}]
          /\ shut \in [Conns -> BOOLEAN] /\ viewing \in [Conns -> BOOLEAN]
      BY DEF Init
    <3>2. index \in 1 .. MaxConnections + 1 /\ Len(sessions) <= MaxConnections
      BY <2>1 DEF Init
    <3> QED
      BY <2>1, <3>1, <3>2 DEF Init, TypeOK
  <2>3. HeldOnce /\ HeldIsStarted /\ IndexInReach
    BY <2>1 DEF Init, HeldOnce, HeldIsStarted, IndexInReach
  <2>4. BacklogIsNew /\ ViewersRun /\ PassedAreUnfinished /\ PassedAreShut /\ NoneRunsAtTheEnd
    BY DEF Init, BacklogIsNew, ViewersRun, PassedAreUnfinished, PassedAreShut, NoneRunsAtTheEnd
  <2> QED
    BY <2>2, <2>3, <2>4 DEF IInv
<1>2. IInv /\ [Next]_vars => IInv'
  <2> SUFFICES ASSUME IInv, [Next]_vars
               PROVE  IInv'
    OBVIOUS
  <2>1. CASE Stop
    BY <2>1 DEF Stop, clientVars, IInv, TypeOK, HeldOnce, HeldIsStarted, IndexInReach,
                BacklogIsNew, ViewersRun, PassedAreUnfinished, PassedAreShut, NoneRunsAtTheEnd
  <2>2. CASE UNCHANGED vars
    BY <2>2 DEF vars, IInv, TypeOK, HeldOnce, HeldIsStarted, IndexInReach,
                BacklogIsNew, ViewersRun, PassedAreUnfinished, PassedAreShut, NoneRunsAtTheEnd
  <2> QED
    BY <2>1, <2>2, ServerStep, ConnStep DEF Next
<1> QED
  BY <1>1, <1>2, PTL DEF Spec

\* Entries counted: one for a thread that was started and not joined, none otherwise.
LEMMA CountedOnce ==
  ASSUME IInv
  PROVE  EveryThreadIsHeld
<1> SUFFICES ASSUME server # "returned", NEW c \in Conns
             PROVE  Cardinality({i \in DOMAIN sessions : sessions[i] = c}) =
                      IF thread[c] = "none" THEN 0 ELSE 1
  BY DEF EveryThreadIsHeld
<1>1. DOMAIN sessions = 1 .. Len(sessions)
  BY LenProperties DEF IInv, TypeOK
<1>2. CASE thread[c] = "none"
  <2>1. {i \in DOMAIN sessions : sessions[i] = c} = {}
    BY <1>1, <1>2 DEF IInv, HeldIsStarted
  <2> QED
    BY <1>2, <2>1, FS_EmptySet
<1>3. CASE thread[c] # "none"
  <2>1. PICK i \in 1 .. Len(sessions) : sessions[i] = c
    BY <1>3 DEF IInv, HeldIsStarted
  <2>2. {j \in DOMAIN sessions : sessions[j] = c} = {i}
    BY <1>1, <2>1 DEF IInv, HeldOnce
  <2> QED
    BY <1>3, <2>2, FS_Singleton
<1> QED
  BY <1>2, <1>3

\* For any clients and any limit: never more sessions than MAX_CONNECTIONS, every
\* thread held by exactly one entry through every swap_remove, a pass that joins all
\* it set out to join, and joins that wait for no client.
THEOREM ServerHolds == Spec => []ServerInv
<1>1. IInv => ServerInv
  <2> SUFFICES ASSUME IInv
               PROVE  ServerInv
    OBVIOUS
  <2>1. DOMAIN sessions = 1 .. Len(sessions)
    BY LenProperties DEF IInv, TypeOK
  <2>2. AcceptSeesOnlyUnfinished
    BY <2>1 DEF IInv, AcceptSeesOnlyUnfinished, Held, PassedAreUnfinished
  <2>3. JoinsWaitForNoClient
    BY DEF IInv, JoinsWaitForNoClient, HeldIsStarted, PassedAreShut
  <2> QED
    BY <2>2, <2>3, CountedOnce DEF IInv, ServerInv
<1> QED
  BY <1>1, ServerInvariance, PTL

\* Once run_until has returned, no session thread runs and no viewer is counted.
THEOREM NothingOutlives == Spec => []NothingOutlivesTheServer
<1>1. IInv => NothingOutlivesTheServer
  BY DEF IInv, NothingOutlivesTheServer, NoneRunsAtTheEnd, ViewersRun
<1> QED
  BY <1>1, ServerInvariance, PTL
=============================================================================
