------------------------ MODULE EventConsumerProofs ------------------------
(***************************************************************************)
(* What EventConsumer promises for any number of events, any batch size    *)
(* and any number of stops and failures: a stop loses at most the rest of  *)
(* one batch, and what a commit followed is never handled again.           *)
(***************************************************************************)
EXTENDS EventConsumer, FiniteSetTheorems, TLAPS

(***************************************************************************)
(* The inductive invariant.                                                *)
(***************************************************************************)
\* What is left of the batch, and less than a whole batch once a commit may cover it.
BatchInv ==
  /\ position - taken <= MaxPoll
  /\ stage = "committing" \/ committed > taken => position - taken <= MaxPoll - 1

\* The running consumer has attended to all it took beyond the committed offset.
AttendedInv ==
  Runs =>
    \A m \in (committed + 1)..taken : topic[m] = "handled" => handled[m] > 0 \/ m \in failed

\* A settled event is committed, and the running consumer is past it.
SettledInv == settled \subseteq 1..committed /\ (Runs => settled \subseteq 1..taken)

IInv == TypeOK /\ BatchInv /\ AttendedInv /\ SettledInv

LEMMA InitInv == Init => IInv
  <1> SUFFICES ASSUME Init PROVE IInv
    OBVIOUS
  <1>1. TypeOK
    BY BoundsAssumption DEF Init, TypeOK, Messages
  <1>2. BatchInv /\ AttendedInv /\ SettledInv
    BY BoundsAssumption DEF Init, BatchInv, AttendedInv, SettledInv, Runs
  <1> QED
    BY <1>1, <1>2 DEF IInv

\* Dispatch counts the event it takes, when that has a handler, and no other.
LEMMA DispatchCounts ==
  ASSUME TypeOK, Dispatch
  PROVE  /\ handled' \in [Messages -> Nat] /\ \A m \in Messages : handled'[m] >= handled[m]
         /\ Next1 \in Messages /\ (topic[Next1] = "handled" => handled'[Next1] > 0)
  <1>1. Next1 \in Messages /\ taken \in Nat
    BY BoundsAssumption DEF TypeOK, Dispatch, Handling, Messages, Next1
  <1>2. handled \in [Messages -> Nat]
    BY DEF TypeOK
  <1> DEFINE n == Next1
  <1> HIDE DEF n
  <1>3. CASE topic[n] = "handled"
    <2>1. handled' = [handled EXCEPT ![n] = handled[n] + 1]
      BY <1>3 DEF Dispatch, n
    <2>2. n \in Messages /\ handled[n] \in Nat
      BY <1>1, <1>2 DEF n
    <2>3. handled' \in [Messages -> Nat] /\ handled'[n] = handled[n] + 1
      BY <1>2, <2>1, <2>2
    <2>4. \A m \in Messages : handled'[m] >= handled[m]
      BY <1>2, <2>1, <2>2
    <2> QED
      BY <2>2, <2>3, <2>4 DEF n
  <1>4. CASE topic[n] # "handled"
    BY <1>1, <1>2, <1>4 DEF Dispatch, n
  <1> QED
    BY <1>3, <1>4

LEMMA StepInv == IInv /\ [Next]_vars => IInv'
  <1> SUFFICES ASSUME IInv, [Next]_vars PROVE IInv'
    OBVIOUS
  <1> USE BoundsAssumption DEF IInv, Messages, Next1, Handling, Runs
  <1>1. ASSUME NEW kind \in Kinds, Publish(kind) PROVE IInv'
    <2>1. Len(topic') = Len(topic) + 1 /\ \A m \in 1..Len(topic) : topic'[m] = topic[m]
      BY <1>1 DEF Publish, TypeOK
    <2>2. TypeOK'
      BY <1>1, <2>1 DEF Publish, TypeOK
    <2>3. BatchInv' /\ SettledInv'
      BY <1>1 DEF Publish, BatchInv, SettledInv
    <2>4. AttendedInv'
      BY <1>1, <2>1 DEF Publish, TypeOK, AttendedInv
    <2> QED
      BY <2>2, <2>3, <2>4
  <1>2. CASE Connect
    BY <1>2 DEF Connect, TypeOK, BatchInv, AttendedInv, SettledInv
  <1>3. CASE Poll
    BY <1>3 DEF Poll, TypeOK, BatchInv, AttendedInv, SettledInv
  <1>4. CASE SkipMessage
    BY <1>4 DEF SkipMessage, TypeOK, BatchInv, AttendedInv, SettledInv
  <1>5. CASE Dispatch
    <2>1. BatchInv' /\ SettledInv'
      BY <1>5 DEF Dispatch, TypeOK, BatchInv, SettledInv
    <2>2. /\ handled' \in [Messages -> Nat] /\ \A m \in Messages : handled'[m] >= handled[m]
          /\ Next1 \in Messages /\ (topic[Next1] = "handled" => handled'[Next1] > 0)
      BY <1>5, DispatchCounts
    <2>3. TypeOK'
      BY <1>5, <2>2 DEF Dispatch, TypeOK
    <2>4. AttendedInv'
      BY <1>5, <2>2 DEF Dispatch, TypeOK, AttendedInv
    <2> QED
      BY <2>1, <2>3, <2>4
  <1>6. CASE HandlerFails
    BY <1>6 DEF HandlerFails, TypeOK, BatchInv, AttendedInv, SettledInv
  <1>7. CASE Commit
    <2>1. settled' \subseteq settled \union 1..taken /\ settled' \subseteq Messages
      <3>1. 1..taken \subseteq Messages
        BY DEF TypeOK
      <3> QED
        BY <1>7, <3>1 DEF Commit, TypeOK
    <2>2. TypeOK'
      BY <1>7, <2>1 DEF Commit, TypeOK
    <2>3. BatchInv' /\ AttendedInv'
      BY <1>7 DEF Commit, TypeOK, BatchInv, AttendedInv
    <2>4. SettledInv'
      <3>1. committed \in 0..position /\ taken \in 0..position /\ position \in Int
        BY DEF TypeOK
      <3>2. 1..taken \subseteq 1..position /\ 1..committed \subseteq 1..position
        BY <3>1
      <3>3. settled \subseteq 1..taken /\ settled \subseteq 1..committed
        BY <1>7 DEF Commit, SettledInv
      <3> QED
        BY <1>7, <2>1, <3>2, <3>3 DEF Commit, SettledInv
    <2> QED
      BY <2>2, <2>3, <2>4
  <1>8. CASE CommitFails
    BY <1>8 DEF CommitFails, TypeOK, BatchInv, AttendedInv, SettledInv
  <1>9. CASE Stop
    BY <1>9 DEF Stop, TypeOK, BatchInv, AttendedInv, SettledInv
  <1>10. CASE UNCHANGED vars
    BY <1>10 DEF vars, TypeOK, BatchInv, AttendedInv, SettledInv
  <1>11. CASE LoopFails
    BY <1>11 DEF LoopFails, TypeOK, BatchInv, AttendedInv, SettledInv
  <1> QED
    BY <1>1, <1>2, <1>3, <1>4, <1>5, <1>6, <1>7, <1>8, <1>9, <1>10, <1>11 DEF Next, Works

\* The stream keeps its shape: the offsets stay ordered and inside the topic.
THEOREM StreamTypeCorrect == Spec => []TypeOK
  <1>1. Init => IInv
    BY InitInv
  <1>2. IInv /\ [Next]_vars => IInv'
    BY StepInv
  <1>3. IInv => TypeOK
    BY DEF IInv
  <1> QED
    BY <1>1, <1>2, <1>3, PTL DEF Spec

\* Handlers see repeats only of work no commit followed (_handle_message, run, connect).
THEOREM NoRepeatAfterCommit == Spec => CommittedIsNeverRepeated
  <1>1. Init => IInv
    BY InitInv
  <1>2. IInv /\ [Next]_vars => IInv'
    BY StepInv
  <1>3. IInv /\ [Next]_vars => [\A m \in settled : handled'[m] = handled[m]]_vars
    <2> SUFFICES ASSUME IInv, Next PROVE \A m \in settled : handled'[m] = handled[m]
      OBVIOUS
    <2>1. CASE Dispatch
      BY <2>1 DEF Dispatch, Handling, IInv, TypeOK, SettledInv, Messages, Next1, Runs
    <2>2. CASE ~Dispatch
      BY <2>2 DEF Next, Works, Publish, Connect, Poll, SkipMessage, HandlerFails, Commit, CommitFails, LoopFails,
            Stop
    <2> QED
      BY <2>1, <2>2
  <1> QED
    BY <1>1, <1>2, <1>3, PTL DEF Spec, CommittedIsNeverRepeated

(***************************************************************************)
(* The loss.                                                               *)
(***************************************************************************)
LossInv == IsFiniteSet(Lost) /\ LossIsABatch

\* No step but a stop adds to the lost events.
LEMMA OnlyStopLoses == IInv /\ [Next]_vars /\ ~Stop => Lost' \subseteq Lost
  <1> SUFFICES ASSUME IInv, [Next]_vars, ~Stop, NEW m \in Lost' PROVE m \in Lost
    OBVIOUS
  <1> USE DEF IInv, TypeOK, Lost, InHand, Next1, Handling, Messages, Runs
  <1>1. ASSUME NEW kind \in Kinds, Publish(kind) PROVE m \in Lost
    BY <1>1 DEF Publish
  <1>2. CASE Connect
    BY <1>2 DEF Connect
  <1>3. CASE Poll
    BY <1>3 DEF Poll
  <1>4. CASE SkipMessage
    BY <1>4 DEF SkipMessage
  <1>5. CASE Dispatch
    <2>1. m # Next1
      BY <1>5, DispatchCounts DEF Dispatch
    <2> QED
      BY <1>5, <2>1 DEF Dispatch
  <1>6. CASE HandlerFails
    BY <1>6 DEF HandlerFails
  <1>7. CASE Commit
    BY <1>7 DEF Commit, AttendedInv
  <1>8. CASE CommitFails
    BY <1>8 DEF CommitFails
  <1>9. CASE UNCHANGED vars
    BY <1>9 DEF vars
  <1>10. CASE LoopFails
    BY <1>10 DEF LoopFails
  <1> QED
    BY <1>1, <1>2, <1>3, <1>4, <1>5, <1>6, <1>7, <1>8, <1>9, <1>10 DEF Next, Works

\* A stop loses what is left of the batch, if a commit has covered it.
LEMMA StopLosesARest ==
  ASSUME IInv, Stop
  PROVE  \E rest : IsFiniteSet(rest) /\ Cardinality(rest) <= MaxPoll - 1 /\ Lost' \subseteq Lost \union rest
  <1> USE BoundsAssumption DEF IInv, TypeOK, Lost, InHand, Next1, Messages, Runs, Stop
  <1>1. CASE committed > taken
    <2>1. IsFiniteSet(Next1..position) /\ Cardinality(Next1..position) = position - taken
      <3>1. Next1 \in Int /\ position \in Int /\ Next1 <= position /\ position - Next1 + 1 = position - taken
        BY <1>1
      <3>2. /\ IsFiniteSet(Next1..position)
            /\ Cardinality(Next1..position) = IF Next1 > position THEN 0 ELSE position - Next1 + 1
        BY ONLY <3>1, FS_Interval
      <3> QED
        BY ONLY <3>1, <3>2
    <2>2. Cardinality(Next1..position) <= MaxPoll - 1
      BY <1>1, <2>1 DEF BatchInv
    <2>3. Lost' \subseteq Lost \union (Next1..position)
      OBVIOUS
    <2> QED
      BY <2>1, <2>2, <2>3
  <1>2. CASE ~(committed > taken)
    <2>1. Lost' \subseteq Lost \union {}
      BY <1>2
    <2> QED
      BY <2>1, FS_EmptySet
  <1> QED
    BY <1>1, <1>2

LEMMA LossStep == IInv /\ LossInv /\ [Next]_vars => LossInv'
  <1> SUFFICES ASSUME IInv, LossInv, [Next]_vars PROVE LossInv'
    OBVIOUS
  <1> DEFINE k == MaxPoll - 1
  <1>0. k \in Nat /\ stops \in Nat /\ IsFiniteSet(Lost) /\ Cardinality(Lost) \in Nat
    BY BoundsAssumption, FS_CardinalityType DEF LossInv, IInv, TypeOK
  <1>1. CASE Stop
    <2>1. PICK rest : IsFiniteSet(rest) /\ Cardinality(rest) <= k /\ Lost' \subseteq Lost \union rest
      BY <1>1, StopLosesARest
    <2>2. IsFiniteSet(Lost \union rest)
      BY <1>0, <2>1, FS_Union
    <2>3. IsFiniteSet(Lost') /\ Cardinality(Lost') <= Cardinality(Lost \union rest)
      BY <2>1, <2>2, FS_Subset
    <2>4. Cardinality(Lost \union rest) <= Cardinality(Lost) + Cardinality(rest)
      <3>1. Cardinality(Lost \union rest)
              = Cardinality(Lost) + Cardinality(rest) - Cardinality(Lost \cap rest)
        BY <1>0, <2>1, FS_Union
      <3>2. Cardinality(Lost \cap rest) \in Nat /\ Cardinality(rest) \in Nat
        BY <1>0, <2>1, FS_Intersection, FS_CardinalityType
      <3> QED
        BY <1>0, <3>1, <3>2
    <2>5. Cardinality(Lost') \in Nat /\ Cardinality(rest) \in Nat /\ Cardinality(Lost \union rest) \in Nat
      BY <2>1, <2>2, <2>3, FS_CardinalityType
    <2>6. (stops + 1) * k = stops * k + k
      BY <1>0
    <2>7. stops * k \in Nat /\ Cardinality(Lost) <= stops * k
      BY <1>0 DEF LossInv, LossIsABatch
    <2>8. stops' = stops + 1
      BY <1>1 DEF Stop
    <2>9. Cardinality(Lost') <= stops' * k
      <3> HIDE DEF k
      <3> QED
        BY <1>0, <2>1, <2>3, <2>4, <2>5, <2>6, <2>7, <2>8
    <2> QED
      BY <2>3, <2>9 DEF LossInv, LossIsABatch
  <1>2. CASE ~Stop
    <2>1. Lost' \subseteq Lost
      BY <1>2, OnlyStopLoses
    <2>2. IsFiniteSet(Lost') /\ Cardinality(Lost') <= Cardinality(Lost)
      BY <1>0, <2>1, FS_Subset
    <2>3. Cardinality(Lost') \in Nat
      BY <2>2, FS_CardinalityType
    <2>4. stops' = stops
      BY <1>2 DEF Next, Works, Publish, Connect, Poll, SkipMessage, Dispatch, HandlerFails, Commit, CommitFails,
            LoopFails, vars
    <2>5. stops * k \in Nat /\ Cardinality(Lost) <= stops * k
      BY <1>0 DEF LossInv, LossIsABatch
    <2>6. Cardinality(Lost') <= stops * k
      BY <1>0, <2>2, <2>3, <2>5
    <2> QED
      BY <2>2, <2>4, <2>6 DEF LossInv, LossIsABatch
  <1> QED
    BY <1>1, <1>2

\* A crash or shutdown loses at most the rest of one polled batch (run, _handle_message).
THEOREM LossBounded == Spec => []LossIsABatch
  <1>1. Init => IInv /\ LossInv
    <2>1. ASSUME Init PROVE Lost = {} /\ stops = 0
      BY <2>1 DEF Init, Lost
    <2>2. Init => LossInv
      BY <2>1, FS_EmptySet, BoundsAssumption DEF LossInv, LossIsABatch
    <2> QED
      BY <2>2, InitInv
  <1>2. IInv /\ LossInv /\ [Next]_vars => IInv' /\ LossInv'
    BY StepInv, LossStep
  <1>3. LossInv => LossIsABatch
    BY DEF LossInv
  <1> QED
    BY <1>1, <1>2, <1>3, PTL DEF Spec
=============================================================================
