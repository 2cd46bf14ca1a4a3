--------------------------- MODULE WidgetBridgeProofs ---------------------------
(***************************************************************************)
(* What holds of the widget bridge for any number of calls, refreshes and  *)
(* getContext callers, whatever the host does.                             *)
(***************************************************************************)
EXTENDS WidgetBridge, TLAPS

\* A result on its way to the widget was given by the host to the call it names.
ResultsServed ==
  \A c \in Requests : [type |-> "result", id |-> c] \in toWidget => c \in served

IInv ==
  /\ BridgeTypeOK
  /\ NothingForgotten
  /\ ResultsServed
  /\ AnswersNotCrossed
  /\ WaitersReachable
  /\ AnswerCounts

LEMMA InitIInv == BridgeInit => IInv
  BY DEF BridgeInit, IInv, BridgeTypeOK, NothingForgotten, ResultsServed, AnswersNotCrossed,
         WaitersReachable, AnswerCounts, Counts, Outcomes, WaitOutcomes, Handshake

-----------------------------------------------------------------------------
\* The steps of the widget: they settle promises, but never as resolved.

LEMMA SendKeeps ==
  ASSUME IInv, NEW c \in Requests, SendRequest(c)
  PROVE  IInv'
<1> USE DEF IInv, SendRequest, Post
<1>1. BridgeTypeOK'
  BY DEF BridgeTypeOK, bridge, context, history, Outcomes
<1>2. NothingForgotten'
  BY DEF BridgeTypeOK, NothingForgotten
<1>3. ResultsServed' /\ AnswersNotCrossed'
  BY DEF BridgeTypeOK, ResultsServed, AnswersNotCrossed, history
<1>4. WaitersReachable'
  BY DEF WaitersReachable, bridge, context
<1>5. AnswerCounts'
  BY DEF BridgeTypeOK, AnswerCounts, Counts, history
<1> QED BY <1>1, <1>2, <1>3, <1>4, <1>5

LEMMA GetContextKeeps ==
  ASSUME IInv, NEW w \in Waits, GetContext(w)
  PROVE  IInv'
<1> USE DEF IInv, GetContext, Post, Joined
<1>1. BridgeTypeOK'
  BY DEF BridgeTypeOK, bridge, callVars, history, WaitOutcomes, Handshake
<1>2. NothingForgotten' /\ ResultsServed' /\ AnswersNotCrossed' /\ AnswerCounts'
  BY DEF NothingForgotten, ResultsServed, AnswersNotCrossed, AnswerCounts, Counts, callVars, history
<1>3. WaitersReachable'
  BY DEF BridgeTypeOK, WaitersReachable, bridge
<1> QED BY <1>1, <1>2, <1>3

LEMMA BridgeDestroyKeeps ==
  ASSUME IInv, DestroyBridge
  PROVE  IInv'
<1> USE DEF IInv, DestroyBridge, Unsettled
<1>1. BridgeTypeOK'
  BY DEF BridgeTypeOK, hostEnd, history, Outcomes, WaitOutcomes
<1>2. NothingForgotten'
  BY DEF BridgeTypeOK, NothingForgotten
<1>3. ResultsServed' /\ AnswersNotCrossed'
  BY DEF ResultsServed, AnswersNotCrossed, hostEnd, history
<1>4. WaitersReachable'
  BY DEF WaitersReachable
<1>5. AnswerCounts'
  BY DEF BridgeTypeOK, NothingForgotten, AnswerCounts, Counts, history
<1> QED BY <1>1, <1>2, <1>3, <1>4, <1>5

LEMMA TimeOutKeeps ==
  ASSUME IInv, NEW c \in Requests, TimeOut(c)
  PROVE  IInv'
<1> USE DEF IInv, TimeOut, Settle
<1>1. BridgeTypeOK'
  BY DEF BridgeTypeOK, bridge, context, hostEnd, history, Outcomes
<1>2. NothingForgotten'
  BY DEF BridgeTypeOK, NothingForgotten
<1>3. ResultsServed' /\ AnswersNotCrossed'
  BY DEF BridgeTypeOK, ResultsServed, AnswersNotCrossed, hostEnd, history
<1>4. WaitersReachable'
  BY DEF WaitersReachable, bridge, context
<1>5. AnswerCounts'
  BY DEF BridgeTypeOK, NothingForgotten, AnswerCounts, Counts, history
<1> QED BY <1>1, <1>2, <1>3, <1>4, <1>5

-----------------------------------------------------------------------------
\* The deliveries.

LEMMA AnswerDelivered ==
  ASSUME IInv, NEW c \in Requests, NEW form \in Forms, DeliverAnswer(c, form)
  PROVE  IInv'
<1> USE DEF IInv, DeliverAnswer, CallOf, Settle, OutcomeOf
<1>1. BridgeTypeOK'
  BY DEF BridgeTypeOK, bridge, callVars, context, Outcomes, Forms
<1>2. NothingForgotten'
  BY DEF BridgeTypeOK, NothingForgotten, callVars, Forms
<1>3. ResultsServed'
  BY DEF ResultsServed
<1>4. AnswersNotCrossed'
  BY DEF BridgeTypeOK, ResultsServed, AnswersNotCrossed, callVars, Forms
<1>5. WaitersReachable'
  BY DEF WaitersReachable, bridge, context
<1>6. AnswerCounts'
  BY DEF BridgeTypeOK, NothingForgotten, AnswerCounts, Counts, callVars, Forms
<1> QED BY <1>1, <1>2, <1>3, <1>4, <1>5, <1>6

LEMMA RefreshDelivered ==
  ASSUME IInv, NEW c \in Refreshes, DeliverTokenRefresh(c)
  PROVE  IInv'
<1> USE DEF IInv, DeliverTokenRefresh
<1>1. BridgeTypeOK'
  BY RequestsAssumption DEF BridgeTypeOK, bridge, callVars, context
<1>2. NothingForgotten' /\ ResultsServed' /\ AnswersNotCrossed'
  BY DEF NothingForgotten, ResultsServed, AnswersNotCrossed, callVars
<1>3. WaitersReachable'
  BY DEF WaitersReachable, bridge, context
<1>4. AnswerCounts'
  BY DEF AnswerCounts, Counts, callVars
<1> QED BY <1>1, <1>2, <1>3, <1>4

LEMMA ContextDelivered ==
  ASSUME IInv, NEW message \in Contexts, DeliverContext(message)
  PROVE  IInv'
<1> USE DEF IInv, DeliverContext
<1>1. BridgeTypeOK'
  BY DEF BridgeTypeOK, bridge, callVars, context, history, WaitOutcomes
<1>2. NothingForgotten' /\ ResultsServed' /\ AnswersNotCrossed' /\ AnswerCounts'
  BY DEF NothingForgotten, ResultsServed, AnswersNotCrossed, AnswerCounts, Counts, callVars, history
<1>3. WaitersReachable'
  BY DEF BridgeTypeOK, WaitersReachable, bridge, context
<1> QED BY <1>1, <1>2, <1>3

-----------------------------------------------------------------------------
\* The host changes nothing that the bridge keeps.

LEMMA HostKeeps ==
  ASSUME IInv, Serve
  PROVE  IInv'
<1> USE DEF IInv
<1>1. CASE \E message \in Contexts : AnswerHandshake(message)
  BY <1>1 DEF AnswerHandshake, BridgeTypeOK, NothingForgotten, ResultsServed, AnswersNotCrossed,
       WaitersReachable, AnswerCounts, Counts, bridge, callVars, context, history, Contexts
<1>2. CASE \E c \in Requests : TakeUp(c)
  BY <1>2 DEF TakeUp, BridgeTypeOK, NothingForgotten, ResultsServed, AnswersNotCrossed,
       WaitersReachable, AnswerCounts, Counts, bridge, callVars, context, history
<1>3. CASE \E m \in Requests \cup {Handshake} : Ignore(m)
  BY <1>3 DEF Ignore, BridgeTypeOK, NothingForgotten, ResultsServed, AnswersNotCrossed,
       WaitersReachable, AnswerCounts, Counts, bridge, callVars, context, history
<1>4. ASSUME NEW c \in Requests, NEW form \in Forms, AnswerRequest(c, form)
      PROVE  IInv'
  <2> USE <1>4 DEF AnswerRequest
  <2>1. [type |-> form, id |-> c] \in Answers
    BY DEF Answers
  <2>2. BridgeTypeOK'
    BY <2>1 DEF BridgeTypeOK, bridge, callVars, context
  <2>3. ResultsServed'
    BY DEF ResultsServed
  <2>4. NothingForgotten' /\ AnswersNotCrossed'
    BY DEF NothingForgotten, AnswersNotCrossed, callVars
  <2>5. WaitersReachable' /\ AnswerCounts'
    BY DEF WaitersReachable, AnswerCounts, Counts, bridge, callVars, context
  <2> QED BY <2>2, <2>3, <2>4, <2>5
<1>5. ASSUME NEW c \in Refreshes, AnswerRefresh(c)
      PROVE  IInv'
  <2> USE <1>5 DEF AnswerRefresh
  <2>1. [type |-> "refresh", id |-> c] \in TokenRefreshes
    BY DEF TokenRefreshes
  <2>2. BridgeTypeOK'
    BY <2>1, RequestsAssumption DEF BridgeTypeOK, bridge, callVars, context
  <2>3. ResultsServed'
    BY DEF ResultsServed
  <2>4. NothingForgotten' /\ AnswersNotCrossed'
    BY DEF NothingForgotten, AnswersNotCrossed, callVars
  <2>5. WaitersReachable' /\ AnswerCounts'
    BY DEF WaitersReachable, AnswerCounts, Counts, bridge, callVars, context
  <2> QED BY <2>2, <2>3, <2>4, <2>5
<1>6. ASSUME NEW c \in Refreshes, GiveUpRefresh(c)
      PROVE  IInv'
  BY <1>6 DEF GiveUpRefresh, BridgeTypeOK, NothingForgotten, ResultsServed, AnswersNotCrossed,
       WaitersReachable, AnswerCounts, Counts, bridge, callVars, context, history
<1> QED BY <1>1, <1>2, <1>3, <1>4, <1>5, <1>6 DEF Serve

LEMMA StepIInv ==
  ASSUME IInv, [BridgeNext]_bridgeVars
  PROVE  IInv'
<1>1. CASE UNCHANGED bridgeVars
  BY <1>1 DEF IInv, BridgeTypeOK, NothingForgotten, ResultsServed, AnswersNotCrossed, WaitersReachable,
       AnswerCounts, Counts, bridgeVars, bridge, callVars, context, hostEnd, history
<1>2. CASE Deliver
  BY <1>2, AnswerDelivered, RefreshDelivered, ContextDelivered DEF Deliver
<1> QED BY <1>1, <1>2, SendKeeps, TimeOutKeeps, GetContextKeeps, BridgeDestroyKeeps, HostKeeps DEF BridgeNext

LEMMA Invariance == BridgeSpec => []IInv
<1>1. BridgeInit => IInv
  BY InitIInv
<1>2. IInv /\ [BridgeNext]_bridgeVars => IInv'
  BY StepIInv
<1> QED BY <1>1, <1>2, PTL DEF BridgeSpec

-----------------------------------------------------------------------------
\* The state of the bridge is of its type (createBridge).
THEOREM BridgeTypeCorrect == BridgeSpec => []BridgeTypeOK
  BY Invariance, PTL DEF IInv

\* An unsettled call always has its entry and its timer, a settled one neither.
THEOREM NoCallForgotten == BridgeSpec => []NothingForgotten
  BY Invariance, PTL DEF IInv

\* A call never resolves on the answer to another one.
THEOREM AnswersReachTheirCall == BridgeSpec => []AnswersNotCrossed
  BY Invariance, PTL DEF IInv

\* Those who wait for the context are on the promise that is going to be settled.
THEOREM WaitersStayReachable == BridgeSpec => []WaitersReachable
  BY Invariance, PTL DEF IInv

\* An answer in time is the outcome of its call, requestTokenRefresh excepted.
THEOREM TimelyAnswersCount == BridgeSpec => []AnswerCounts
  BY Invariance, PTL DEF IInv
=============================================================================
