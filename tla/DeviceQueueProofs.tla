------------------------- MODULE DeviceQueueProofs -------------------------
(***************************************************************************)
(* Proofs about the requests of DeviceLifecycle that are on their way      *)
(* between the control worker and the service worker: the credential they  *)
(* carry, the number of polls among them, and the conversations they stop. *)
(*                                                                         *)
(* The proofs go in two stages.  The lemmas QueueStep, BindingStep,        *)
(* ConversationMoves and RunningStep sum up what the actions do to the     *)
(* queues, the binding, the conversation and the power, action by action;  *)
(* each invariant then follows from the few moves that they leave.         *)
(*                                                                         *)
(* The last section proves that DeviceLifecycle implements DeviceBinding,  *)
(* with one lemma for each action of the abstract specification.           *)
(***************************************************************************)
EXTENDS DeviceLifecycleProofs, FiniteSetTheorems

(* What a step can do.                                                     *)

\* The control worker notifies the service of the conversation it has left.
SendStop ==
  /\ control \in {"leave_stop", "leave_pair"}
  /\ control' \notin {"leave_stop", "leave_pair"}
  /\ NotifyStop
  /\ UNCHANGED <<results, poll_pending>>

\* Loss of power, or the end of the runtime.
EmptyQueues ==
  /\ service_queue' = <<>> /\ results' = <<>> /\ poll_pending' = FALSE
  /\ running' = FALSE

QueueMove ==
  \/ UNCHANGED queueVars
  \/ initialized /\ \E type \in PollTypes : PollBinding(type)
  \/ SendStop
  \/ ServiceExecute
  \/ ServiceResultLost
  \/ TakeResult
  \/ DropResult
  \/ EmptyQueues

\* A new credential, or none, comes with a new generation; only a boot loads the
\* credential of the store without one.
BindingMove ==
  \/ UNCHANGED credentialVars
  \/ binding_generation' \in Nat /\ binding_generation' > binding_generation
  \/ UNCHANGED queueVars /\ ~initialized
  \/ EmptyQueues

\* The conversation begins with a new number, is forgotten, or is handed to the
\* control worker that leaves it.
ConversationMove ==
  \/ /\ UNCHANGED <<conversations, started_with>>
     /\ conversation_id' \in {conversation_id, NoConversation}
     /\ control' \notin {"leave_stop", "leave_pair"} \/ UNCHANGED <<control, stopping_id>>
     /\ state' = "IN_CONVERSATION" => UNCHANGED <<state, device_token>>
  \/ /\ UNCHANGED <<conversations, started_with>>
     /\ UNCHANGED <<state, device_token>>
     /\ conversation_id # NoConversation
     /\ stopping_id' = conversation_id
     /\ conversation_id' = NoConversation
     /\ service_queue' = service_queue
  \/ /\ conversations' = conversations + 1
     /\ started_with' = Append(started_with, device_token)
     /\ device_token' = device_token
     /\ conversation_id' = conversations'
     /\ control' \notin {"leave_stop", "leave_pair"}
     /\ UNCHANGED queueVars
  \/ /\ conversations' = 0 /\ conversation_id' = NoConversation
     /\ started_with' = <<>> /\ state' # "IN_CONVERSATION"
     /\ control' \notin {"leave_stop", "leave_pair"}
     /\ EmptyQueues

(* The inductive invariants.                                               *)

\* A runtime that is not initialized has nothing on its way, and one that shuts
\* down has exited.
QuietInv ==
  /\ ~initialized => service_queue = <<>> /\ results = <<>> /\ poll_pending = FALSE
  /\ shutting_down => ~running

\* No request is younger than the binding.
GenerationInv ==
  /\ \A r \in Outstanding : r.binding_generation <= binding_generation
  /\ GenerationIdentifiesCredential

\* The positions at which a queue holds a poll, and their number.
PollsIn(q) == { i \in DOMAIN q : IsPoll(q[i]) }
NumPolls(q) == Cardinality(PollsIn(q))

\* poll_pending counts the polls on their way.
PollInv ==
  running =>
    NumPolls(service_queue) + NumPolls(results) = IF poll_pending THEN 1 ELSE 0

\* Two requests that stop the same conversation.
SameStop(r, s) == r.type = "STOP" /\ s.type = "STOP" /\ r.conversation = s.conversation

\* No conversation is stopped twice by the requests of a queue.
StopsApart(q) == \A i, j \in DOMAIN q : SameStop(q[i], q[j]) => i = j

\* No conversation is stopped by a request of each of two queues.
QueuesApart(q, s) == \A i \in DOMAIN q, j \in DOMAIN s : ~SameStop(q[i], s[j])

\* The conversation the device is in, or is leaving, is the last that began.
TalkInv ==
  /\ conversation_id \in {NoConversation, conversations}
  /\ control \in {"leave_stop", "leave_pair"} => stopping_id = conversations

\* The credential of a conversation is on record from its start on, and the device
\* keeps it while it is in it.
StartInv ==
  /\ Len(started_with) = conversations
  /\ state = "IN_CONVERSATION" =>
       conversations > 0 /\ started_with[conversations] = device_token

\* The conversations to stop are told apart from each other, from the one the device
\* is in, and from the one it is leaving, whose stop is still to be sent.
StopInv ==
  /\ conversation_id <= conversations
  /\ control \in {"leave_stop", "leave_pair"} => stopping_id \in 1 .. conversations
  /\ \A r \in Outstanding : r.type = "STOP" =>
       /\ r.conversation \in 1 .. conversations
       /\ r.credential = started_with[r.conversation]
       /\ r.conversation # conversation_id
       /\ control \in {"leave_stop", "leave_pair"} => r.conversation # stopping_id
  /\ StopsApart(service_queue) /\ StopsApart(results)
  /\ QueuesApart(service_queue, results)

----------------------------------------------------------------------------
(* The queues.                                                             *)

\* What an append and a removal at the head leave at each position.
LEMMA QueuePositions ==
  ASSUME NEW q \in Seq(Requests), NEW r \in Requests
  PROVE  /\ Len(q) \in Nat /\ DOMAIN q = 1 .. Len(q)
         /\ \A i \in DOMAIN q : q[i] \in Requests
         /\ DOMAIN Append(q, r) = 1 .. Len(q) + 1
         /\ \A i \in 1 .. Len(q) : Append(q, r)[i] = q[i]
         /\ Append(q, r)[Len(q) + 1] = r
         /\ Append(q, r) # q
         /\ q # <<>> => /\ Len(q) > 0 /\ Head(q) = q[1]
                       /\ Tail(q) \in Seq(Requests)
                       /\ DOMAIN Tail(q) = 1 .. Len(q) - 1
                       /\ \A i \in 1 .. Len(q) - 1 : Tail(q)[i] = q[i + 1]
OBVIOUS

\* The polls of a queue are finitely many.
LEMMA PollsFinite ==
  ASSUME NEW q \in Seq(Requests)
  PROVE  IsFiniteSet(PollsIn(q)) /\ NumPolls(q) \in Nat
<1>1. PollsIn(q) \in SUBSET (1 .. Len(q)) /\ Len(q) \in Int
  BY DEF PollsIn
<1>2. IsFiniteSet(1 .. Len(q))
  BY <1>1, FS_Interval
<1>3. IsFiniteSet(PollsIn(q))
  BY <1>1, <1>2, FS_Subset
<1> QED
  BY <1>3, FS_CardinalityType DEF NumPolls

\* An empty queue holds no poll.
LEMMA PollsEmpty == NumPolls(<<>>) = 0
<1>1. PollsIn(<<>>) = {}
  BY DEF PollsIn
<1> QED
  BY <1>1, FS_EmptySet DEF NumPolls

\* A request that joins a queue adds a poll exactly when it is one.
LEMMA PollsAppend ==
  ASSUME NEW q \in Seq(Requests), NEW r \in Requests
  PROVE  NumPolls(Append(q, r)) = NumPolls(q) + (IF IsPoll(r) THEN 1 ELSE 0)
<1> DEFINE last == Len(q) + 1
<1>1. last \notin PollsIn(q)
  BY QueuePositions DEF PollsIn
<1>2. CASE IsPoll(r)
  <2>1. PollsIn(Append(q, r)) = PollsIn(q) \cup {last}
    BY <1>2, QueuePositions DEF PollsIn
  <2> QED
    BY <1>1, <1>2, <2>1, PollsFinite, FS_AddElement DEF NumPolls
<1>3. CASE ~IsPoll(r)
  <2>1. PollsIn(Append(q, r)) = PollsIn(q)
    BY <1>3, QueuePositions DEF PollsIn
  <2> QED
    BY <1>3, <2>1, PollsFinite DEF NumPolls
<1> QED
  BY <1>2, <1>3

\* The request that leaves a queue takes its poll with it, and the others move up.
LEMMA PollsTail ==
  ASSUME NEW q \in Seq(Requests), q # <<>>
  PROVE  NumPolls(q) = NumPolls(Tail(q)) + (IF IsPoll(Head(q)) THEN 1 ELSE 0)
<1> DEFINE Rest == PollsIn(q) \ {1}
           Moved == [i \in Rest |-> i - 1]
<1>1. /\ Len(q) \in Nat \ {0} /\ DOMAIN q = 1 .. Len(q) /\ Head(q) = q[1]
      /\ DOMAIN Tail(q) = 1 .. Len(q) - 1
      /\ \A i \in 1 .. Len(q) - 1 : Tail(q)[i] = q[i + 1]
  OBVIOUS
<1>2. Rest \subseteq 2 .. Len(q)
  BY <1>1 DEF PollsIn
<1>3. Moved \in Bijection(Rest, PollsIn(Tail(q)))
  <2>1. Moved \in [Rest -> PollsIn(Tail(q))]
    BY <1>1, <1>2 DEF PollsIn
  <2>2. \A i, j \in Rest : Moved[i] = Moved[j] => i = j
    BY <1>2
  <2>3. \A k \in PollsIn(Tail(q)) : \E i \in Rest : Moved[i] = k
    <3> TAKE k \in PollsIn(Tail(q))
    <3>1. k \in 1 .. Len(q) - 1 /\ k + 1 \in Rest
      BY <1>1 DEF PollsIn
    <3>2. Moved[k + 1] = k
      BY <3>1
    <3> QED
      BY <3>1, <3>2
  <2> HIDE DEF Moved
  <2> QED
    BY <2>1, <2>2, <2>3 DEF Bijection, Injection, Surjection, IsInjective
<1>4. IsFiniteSet(PollsIn(q)) /\ NumPolls(q) \in Nat
  BY PollsFinite
<1>5. IsFiniteSet(Rest)
      /\ Cardinality(Rest) = IF 1 \in PollsIn(q) THEN NumPolls(q) - 1 ELSE NumPolls(q)
  BY <1>4, FS_RemoveElement DEF NumPolls
<1>6. NumPolls(Tail(q)) = Cardinality(Rest)
  BY <1>3, <1>5, FS_Bijection DEF ExistsBijection, NumPolls
<1>7. 1 \in PollsIn(q) <=> IsPoll(Head(q))
  BY <1>1 DEF PollsIn
<1> QED
  BY <1>4, <1>5, <1>6, <1>7

----------------------------------------------------------------------------
(* What each action does.                                                  *)

\* The queues change in one of the ways of QueueMove.
LEMMA QueueStep == ASSUME [Next]_vars PROVE QueueMove
<1> USE DEF deviceVars, bindingVars, credentialVars, pairingVars, retryVars,
            conversationVars, renewalVars, renewingVars, mailboxVars, outsideVars,
            networkVars, powerVars, historyVars, queueVars, callVars, savedVars
<1>1. CASE \/ BootBound \/ BootUnbound \/ PublishExit \/ Shutdown \/ NetworkDown
           \/ NetworkDownGeneration \/ NetworkDownLoss \/ NetworkUp
           \/ (\E kind \in {"ended", "expiring"} : RtcCallback(kind))
           \/ NotifyConversationEnded \/ RequestRenewal \/ RequestPair
           \/ RequestStart \/ RequestStop \/ TickLoss \/ TickOffline \/ TickPair
           \/ TickPairRetry \/ TickStart \/ TickStop \/ FinishLocal \/ FinishInvalid
           \/ PairUnavailable \/ PairCall \/ PairFail \/ PairCode \/ StartAbandoned
           \/ StartCall \/ StartRejected \/ StartAccepted \/ JoinDone \/ RenewCall
           \/ RenewStale \/ RenewRejected \/ RenewHopeless \/ RenewFail \/ Renewed
  <2>1. UNCHANGED queueVars
    BY <1>1 DEF BootBound, BootUnbound, PublishExit, Shutdown, NetworkDown,
       NetworkDownGeneration, NetworkDownLoss, NetworkUp, RtcCallback,
       NotifyConversationEnded, RequestRenewal, RequestPair, RequestStart, RequestStop,
       TickLoss, TickOffline, TickPair, TickPairRetry, TickStart, TickStop,
       FinishLocal, FinishInvalid, PairUnavailable, PairCall, PairFail, PairCode,
       StartAbandoned, StartCall, StartRejected, StartAccepted, JoinDone, RenewCall,
       RenewStale, RenewRejected, RenewHopeless, RenewFail, Renewed, Erase,
       BeginLeaving, ControlReady, Tick, DropRequests, OnlineTick, EnterPairing,
       BoundTick, LeftRtc, SetState, EnterIdle, RestartPairing, Return, ClearRenewal,
       ClearDeviceAuth
  <2> QED
    BY <2>1 DEF QueueMove
<1>2. CASE \/ PowerOff \/ Crash
  BY <1>2 DEF PowerOff, Crash, Cleared, ClearRenewal, QueueMove, EmptyQueues
<1>3. CASE \/ TickPairPoll \/ TickDevicePoll \/ TickRenew
  BY <1>3 DEF TickPairPoll, TickDevicePoll, TickRenew, BoundTick, PollBinding,
     RenewalCountdown, OnlineTick, Tick, ControlReady, QueueMove, PollTypes
<1>4. CASE \/ FinishStop \/ FinishPair
  BY <1>4 DEF FinishStop, FinishPair, LeftRtc, SetState, NotifyStop, EnterIdle,
     EnterPairing, ClearDeviceAuth, Erase, QueueMove, SendStop
<1>5. CASE \/ ServiceExecute \/ ServiceResultLost \/ DropResult
  BY <1>5 DEF ServiceExecute, ServiceResultLost, DropResult, QueueMove
<1>6. CASE \/ ResultWithoutEffect \/ PairingRefused \/ PairingBound
           \/ BindingInvalidated
  BY <1>6 DEF ResultWithoutEffect, PairingRefused, PairingBound, BindingInvalidated,
     TakeResult, ResultApplies, Persist, BeginLeaving, RestartPairing, ControlReady,
     ResultIsCurrent, ClearRenewal, ClearDeviceAuth, SetState, Erase, QueueMove
<1>7. CASE UNCHANGED vars
  BY <1>7 DEF vars, QueueMove
<1> QED
  BY <1>1, <1>2, <1>3, <1>4, <1>5, <1>6, <1>7
  DEF Next, Power, Network, Rtc, User, Ticks, Finishes, Calls, Service, Applied

\* The credentials change in one of the ways of BindingMove.
LEMMA BindingStep == ASSUME TypeOK, [Next]_vars PROVE BindingMove
<1> binding_generation \in Nat
  BY DEF TypeOK, DataTypes
<1> USE DEF deviceVars, bindingVars, credentialVars, pairingVars, retryVars,
            conversationVars, renewalVars, renewingVars, mailboxVars, outsideVars,
            networkVars, powerVars, historyVars, queueVars, callVars, savedVars
<1>1. CASE \/ PublishExit \/ Shutdown \/ NetworkDown \/ NetworkDownGeneration
           \/ NetworkDownLoss \/ NetworkUp
           \/ (\E kind \in {"ended", "expiring"} : RtcCallback(kind))
           \/ NotifyConversationEnded \/ RequestRenewal \/ RequestPair
           \/ RequestStart \/ RequestStop \/ TickLoss \/ TickOffline
           \/ TickPairRetry \/ TickPairPoll \/ TickStart \/ TickDevicePoll
           \/ TickStop \/ TickRenew \/ FinishStop \/ FinishLocal \/ PairUnavailable
           \/ PairCall \/ PairFail \/ StartAbandoned \/ StartCall \/ StartAccepted
           \/ JoinDone \/ RenewCall \/ RenewStale \/ RenewRejected \/ RenewHopeless
           \/ RenewFail \/ Renewed \/ ServiceExecute \/ ServiceResultLost
           \/ ResultWithoutEffect \/ PairingRefused \/ DropResult
  <2>1. UNCHANGED credentialVars
    BY <1>1 DEF PublishExit, Shutdown, NetworkDown, NetworkDownGeneration,
       NetworkDownLoss, NetworkUp, RtcCallback, NotifyConversationEnded,
       RequestRenewal, RequestPair, RequestStart, RequestStop, TickLoss, TickOffline,
       TickPairRetry, TickPairPoll, TickStart, TickDevicePoll, TickStop, TickRenew,
       FinishStop, FinishLocal, PairUnavailable, PairCall, PairFail, StartAbandoned,
       StartCall, StartAccepted, JoinDone, RenewCall, RenewStale, RenewRejected,
       RenewHopeless, RenewFail, Renewed, ServiceExecute, ServiceResultLost,
       ResultWithoutEffect, PairingRefused, DropResult, BeginLeaving, ControlReady,
       Tick, DropRequests, BoundTick, PollBinding, RenewalCountdown, LeftRtc, SetState,
       NotifyStop, EnterIdle, Return, ClearRenewal, TakeResult, ResultApplies,
       OnlineTick, ResultIsCurrent
  <2> QED
    BY <2>1 DEF BindingMove
<1>2. CASE \/ PowerOff \/ Crash
  BY <1>2 DEF PowerOff, Crash, Cleared, ClearRenewal, BindingMove, EmptyQueues
<1>3. CASE \/ BootBound \/ BootUnbound
  BY <1>3 DEF BootBound, BootUnbound, Erase, BindingMove
<1>4. CASE \/ TickPair \/ FinishPair \/ FinishInvalid \/ PairCode \/ StartRejected
  BY <1>4 DEF TickPair, FinishPair, FinishInvalid, PairCode, StartRejected, OnlineTick,
     BeginLeaving, EnterPairing, LeftRtc, NotifyStop, RestartPairing, EnterIdle,
     Return, Tick, ClearRenewal, ClearDeviceAuth, SetState, ControlReady, Erase,
     BindingMove
<1>5. CASE PairingBound
  BY <1>5 DEF PairingBound, TakeResult, ResultApplies, Persist, ControlReady,
     ResultIsCurrent, BindingMove
<1>6. CASE BindingInvalidated
  BY <1>6 DEF BindingInvalidated, TakeResult, ResultApplies, BeginLeaving,
     RestartPairing, ControlReady, ResultIsCurrent, ClearRenewal, ClearDeviceAuth,
     SetState, Erase, BindingMove
<1>7. CASE UNCHANGED vars
  BY <1>7 DEF vars, BindingMove
<1> QED
  BY <1>1, <1>2, <1>3, <1>4, <1>5, <1>6, <1>7
  DEF Next, Power, Network, Rtc, User, Ticks, Finishes, Calls, Service, Applied

\* The runtime starts to run at a boot, ends with its queues empty, and shuts down
\* only after it has exited.
LEMMA PowerStep ==
  ASSUME [Next]_vars
  PROVE  \/ UNCHANGED powerVars
         \/ UNCHANGED <<initialized, shutting_down>> /\ running' = FALSE
         \/ ~initialized /\ UNCHANGED <<queueVars, shutting_down>> /\ initialized' = TRUE
         \/ ~running /\ UNCHANGED <<queueVars, running, initialized>>
         \/ EmptyQueues /\ initialized' = FALSE /\ shutting_down' = FALSE
<1> USE DEF deviceVars, bindingVars, credentialVars, pairingVars, retryVars,
            conversationVars, renewalVars, renewingVars, mailboxVars, outsideVars,
            networkVars, powerVars, historyVars, queueVars, callVars, savedVars
<1>1. CASE \/ NetworkDown \/ NetworkDownGeneration \/ NetworkDownLoss \/ NetworkUp
           \/ (\E kind \in {"ended", "expiring"} : RtcCallback(kind))
           \/ NotifyConversationEnded \/ RequestRenewal \/ RequestPair
           \/ RequestStart \/ RequestStop \/ TickLoss \/ TickOffline \/ TickPair
           \/ TickPairRetry \/ TickPairPoll \/ TickStart \/ TickDevicePoll
           \/ TickStop \/ TickRenew \/ FinishStop \/ FinishLocal \/ FinishPair
           \/ FinishInvalid \/ PairUnavailable \/ PairCall \/ PairFail \/ PairCode
           \/ StartAbandoned \/ StartCall \/ StartRejected \/ StartAccepted
           \/ JoinDone \/ RenewCall \/ RenewStale \/ RenewRejected \/ RenewHopeless
           \/ RenewFail \/ Renewed \/ ServiceExecute \/ ResultWithoutEffect
           \/ PairingRefused \/ PairingBound \/ BindingInvalidated \/ DropResult
  <2>1. UNCHANGED powerVars
    BY <1>1 DEF NetworkDown, NetworkDownGeneration, NetworkDownLoss, NetworkUp,
       RtcCallback, NotifyConversationEnded, RequestRenewal, RequestPair, RequestStart,
       RequestStop, TickLoss, TickOffline, TickPair, TickPairRetry, TickPairPoll,
       TickStart, TickDevicePoll, TickStop, TickRenew, FinishStop, FinishLocal,
       FinishPair, FinishInvalid, PairUnavailable, PairCall, PairFail, PairCode,
       StartAbandoned, StartCall, StartRejected, StartAccepted, JoinDone, RenewCall,
       RenewStale, RenewRejected, RenewHopeless, RenewFail, Renewed, ServiceExecute,
       ResultWithoutEffect, PairingRefused, PairingBound, BindingInvalidated,
       DropResult, ControlReady, Tick, DropRequests, BeginLeaving, OnlineTick,
       EnterPairing, BoundTick, PollBinding, RenewalCountdown, LeftRtc, SetState,
       NotifyStop, EnterIdle, RestartPairing, Return, ClearRenewal, TakeResult,
       ResultApplies, Persist, ClearDeviceAuth, ResultIsCurrent, Erase
  <2> QED
    BY <2>1
<1>2. CASE \/ BootBound \/ BootUnbound
  BY <1>2 DEF BootBound, BootUnbound, Erase
<1>3. CASE \/ PublishExit \/ Shutdown \/ ServiceResultLost
  BY <1>3 DEF PublishExit, Shutdown, ServiceResultLost, BeginLeaving, ClearRenewal
<1>4. CASE \/ PowerOff \/ Crash
  BY <1>4 DEF PowerOff, Crash, Cleared, ClearRenewal, EmptyQueues
<1>5. CASE UNCHANGED vars
  BY <1>5 DEF vars
<1> QED
  BY <1>1, <1>2, <1>3, <1>4, <1>5
  DEF Next, Power, Network, Rtc, User, Ticks, Finishes, Calls, Service, Applied

\* The conversation goes from one stage to the next as in ConversationMove.
LEMMA ConversationMoves ==
  ASSUME TypeOK, ControlInv, ConversationKnown, [Next]_vars
  PROVE  ConversationMove
<1> USE DEF deviceVars, bindingVars, credentialVars, pairingVars, retryVars,
            conversationVars, renewalVars, renewingVars, mailboxVars, outsideVars,
            networkVars, powerVars, historyVars, queueVars, callVars, savedVars
<1>1. CASE \/ PublishExit \/ NetworkDown \/ NetworkDownGeneration \/ NetworkDownLoss
           \/ NetworkUp \/ (\E kind \in {"ended", "expiring"} : RtcCallback(kind))
           \/ NotifyConversationEnded \/ RequestRenewal \/ RequestPair
           \/ RequestStart \/ RequestStop \/ TickOffline \/ TickPairPoll
           \/ TickDevicePoll \/ BootBound \/ BootUnbound \/ ServiceExecute
           \/ ServiceResultLost \/ ResultWithoutEffect \/ PairingRefused
           \/ PairingBound \/ DropResult
  <2>1. /\ UNCHANGED <<conversation_id, conversations, started_with, control, stopping_id>>
        /\ state' = "IN_CONVERSATION" => UNCHANGED <<state, device_token>>
    BY <1>1 DEF PublishExit, NetworkDown, NetworkDownGeneration, NetworkDownLoss,
       NetworkUp, RtcCallback, NotifyConversationEnded, RequestRenewal, RequestPair,
       RequestStart, RequestStop, TickOffline, TickPairPoll, TickDevicePoll, BootBound,
       BootUnbound, ServiceExecute, ServiceResultLost, ResultWithoutEffect,
       PairingRefused, PairingBound, DropResult, ControlReady, Tick, DropRequests,
       BoundTick, PollBinding, Erase, TakeResult, ResultApplies, Persist, OnlineTick,
       ResultIsCurrent
  <2> QED
    BY <2>1 DEF ConversationMove
<1>2. CASE \/ TickPairRetry \/ TickStart \/ TickRenew \/ FinishStop \/ FinishLocal
           \/ FinishInvalid \/ PairUnavailable \/ PairCall \/ PairFail \/ PairCode
           \/ StartAbandoned \/ StartCall \/ StartRejected \/ JoinDone \/ RenewCall
           \/ RenewStale \/ RenewFail \/ Renewed
  <2>1. /\ UNCHANGED <<conversation_id, conversations, started_with>>
        /\ control' \notin {"leave_stop", "leave_pair"}
        /\ state' = "IN_CONVERSATION" => UNCHANGED <<state, device_token>>
    BY <1>2 DEF TickPairRetry, TickStart, TickRenew, FinishStop, FinishLocal,
       FinishInvalid, PairUnavailable, PairCall, PairFail, PairCode, StartAbandoned,
       StartCall, StartRejected, JoinDone, RenewCall, RenewStale, RenewFail, Renewed,
       BoundTick, RenewalCountdown, PollBinding, LeftRtc, SetState, NotifyStop,
       EnterIdle, RestartPairing, Return, OnlineTick, ClearDeviceAuth, Tick, Erase,
       ControlReady
  <2> QED
    BY <2>1 DEF ConversationMove
<1>3. CASE FinishPair
  BY <1>3 DEF FinishPair, LeftRtc, NotifyStop, EnterPairing, ClearDeviceAuth, Erase,
     ConversationMove
<1>4. CASE \/ Shutdown \/ TickStop
  BY <1>4 DEF Shutdown, TickStop, BeginLeaving, BoundTick, ClearRenewal, OnlineTick,
     Tick, ControlReady, ControlInv, ConversationKnown, ConversationMove, Leaving
<1>5. CASE TickLoss
  BY <1>5 DEF TickLoss, Tick, DropRequests, BeginLeaving, ControlReady, ClearRenewal,
     ControlInv, ConversationKnown, ConversationMove, Leaving
<1>6. CASE TickPair
  BY <1>6 DEF TickPair, OnlineTick, BeginLeaving, EnterPairing, Tick, ClearRenewal,
     ClearDeviceAuth, ControlReady, Erase, ControlInv, ConversationKnown,
     ConversationMove, Leaving
<1>7. CASE \/ RenewRejected \/ RenewHopeless
  BY <1>7 DEF RenewRejected, RenewHopeless, BeginLeaving, ClearRenewal, ControlInv,
     ConversationKnown, ConversationMove, Leaving
<1>8. CASE BindingInvalidated
  BY <1>8 DEF BindingInvalidated, TakeResult, ResultApplies, BeginLeaving,
     RestartPairing, ControlReady, ResultIsCurrent, ClearRenewal, ClearDeviceAuth,
     SetState, Erase, ConversationMove
<1>9. CASE StartAccepted
  BY <1>9 DEF StartAccepted, ClearRenewal, SetState, ConversationMove
<1>10. CASE \/ PowerOff \/ Crash
  BY <1>10 DEF PowerOff, Crash, Cleared, ClearRenewal, ConversationMove, EmptyQueues
<1>11. CASE UNCHANGED vars
  BY <1>11 DEF vars, ConversationMove
<1> QED
  BY <1>1, <1>2, <1>3, <1>4, <1>5, <1>6, <1>7, <1>8, <1>9, <1>10, <1>11
  DEF Next, Power, Network, Rtc, User, Ticks, Finishes, Calls, Service, Applied

----------------------------------------------------------------------------
(* The requests on their way.                                              *)

\* A request on its way is a request.
LEMMA OutstandingType == ASSUME TypeOK PROVE Outstanding \subseteq Requests
BY DEF TypeOK, DataTypes, Outstanding

\* A request on its way was on its way before, or this step has built it.
LEMMA OutstandingStep ==
  ASSUME TypeOK, QueueMove, NEW r \in Outstanding'
  PROVE  \/ r \in Outstanding
         \/ \E type \in PollTypes : r = RequestFor(type, NoConversation)
         \/ SendStop /\ r = RequestFor("STOP", stopping_id)
<1>1. service_queue \in Seq(Requests) /\ results \in Seq(Requests)
  BY DEF TypeOK, DataTypes
<1>2. \A x \in Requests, q \in Seq(Requests) :
        \A i \in DOMAIN Append(q, x) :
          Append(q, x)[i] = x \/ \E j \in DOMAIN q : Append(q, x)[i] = q[j]
  BY QueuePositions
<1>3. \A q \in Seq(Requests) : q # <<>> =>
        /\ \A i \in DOMAIN Tail(q) : \E j \in DOMAIN q : Tail(q)[i] = q[j]
        /\ Head(q) \in Requests /\ \E j \in DOMAIN q : Head(q) = q[j]
  OBVIOUS
<1>4. CASE UNCHANGED queueVars
  BY <1>4 DEF queueVars, Outstanding
<1>5. CASE \E type \in PollTypes : PollBinding(type)
  <2>1. PICK type \in PollTypes : PollBinding(type)
    BY <1>5
  <2>2. RequestFor(type, NoConversation) \in Requests
    BY RequestType DEF NoConversation
  <2>3. \A i \in DOMAIN service_queue' :
          service_queue'[i] = RequestFor(type, NoConversation)
            \/ \E j \in DOMAIN service_queue : service_queue'[i] = service_queue[j]
    BY <1>1, <1>2, <2>1, <2>2 DEF PollBinding, Submit
  <2>4. results' = results
    BY <2>1 DEF PollBinding
  <2> QED
    BY <2>3, <2>4 DEF Outstanding
<1>6. CASE SendStop
  <2>1. RequestFor("STOP", stopping_id) \in Requests
    BY RequestType DEF TypeOK, DataTypes
  <2>2. \A i \in DOMAIN service_queue' :
          service_queue'[i] = RequestFor("STOP", stopping_id)
            \/ \E j \in DOMAIN service_queue : service_queue'[i] = service_queue[j]
    <3>1. \/ service_queue' = service_queue
          \/ service_queue' = Append(service_queue, RequestFor("STOP", stopping_id))
      BY <1>6 DEF SendStop, NotifyStop, Submit
    <3> QED
      BY <1>1, <1>2, <2>1, <3>1
  <2>3. results' = results
    BY <1>6 DEF SendStop
  <2> QED
    BY <1>6, <2>2, <2>3 DEF Outstanding
<1>7. CASE ServiceExecute
  <2>1. \A i \in DOMAIN service_queue' :
          \E j \in DOMAIN service_queue : service_queue'[i] = service_queue[j]
    BY <1>1, <1>3, <1>7 DEF ServiceExecute
  <2>2. \A i \in DOMAIN results' :
          \/ \E j \in DOMAIN service_queue : results'[i] = service_queue[j]
          \/ \E j \in DOMAIN results : results'[i] = results[j]
    <3>1. \/ results' = results
          \/ results' = Append(results, Head(service_queue))
      BY <1>7 DEF ServiceExecute
    <3>2. /\ Head(service_queue) \in Requests
          /\ \E j \in DOMAIN service_queue : Head(service_queue) = service_queue[j]
      BY <1>1, <1>3, <1>7 DEF ServiceExecute
    <3> QED
      BY <1>1, <1>2, <3>1, <3>2
  <2> QED
    BY <2>1, <2>2 DEF Outstanding
<1>8. CASE ServiceResultLost
  <2>1. \A i \in DOMAIN service_queue' :
          \E j \in DOMAIN service_queue : service_queue'[i] = service_queue[j]
    BY <1>1, <1>3, <1>8 DEF ServiceResultLost
  <2> QED
    BY <1>8, <2>1 DEF ServiceResultLost, Outstanding
<1>9. CASE TakeResult \/ DropResult
  <2>1. \A i \in DOMAIN results' : \E j \in DOMAIN results : results'[i] = results[j]
    <3>1. results # <<>> /\ results' = Tail(results)
      BY <1>9 DEF TakeResult, DropResult
    <3> QED
      BY <1>1, <1>3, <3>1
  <2>2. service_queue' = service_queue
    BY <1>9 DEF TakeResult, DropResult
  <2> QED
    BY <2>1, <2>2 DEF Outstanding
<1>10. CASE EmptyQueues
  BY <1>10 DEF EmptyQueues, Outstanding
<1> QED
  BY <1>4, <1>5, <1>6, <1>7, <1>8, <1>9, <1>10 DEF QueueMove

\* A runtime that is not initialized has nothing on its way.
LEMMA QuietStep == ControlInv /\ QuietInv /\ [Next]_vars => QuietInv'
<1> SUFFICES ASSUME ControlInv, QuietInv, [Next]_vars PROVE QuietInv'
  OBVIOUS
<1>1. ~initialized => UNCHANGED queueVars \/ EmptyQueues
  BY QueueStep DEF QuietInv, QueueMove, ControlInv, SendStop, ServiceExecute,
     ServiceResultLost, TakeResult, DropResult
<1>2. CASE UNCHANGED powerVars
  BY <1>1, <1>2 DEF QuietInv, EmptyQueues, queueVars, powerVars
<1>3. CASE UNCHANGED <<initialized, shutting_down>> /\ running' = FALSE
  <2>1. ~running'
    BY <1>3
  <2> QED
    BY <1>1, <1>3, <2>1 DEF QuietInv, EmptyQueues, queueVars
<1>4. CASE ~initialized /\ UNCHANGED <<queueVars, shutting_down>> /\ initialized' = TRUE
  BY <1>4, Zenon DEF QuietInv, ControlInv
<1>5. CASE ~running /\ UNCHANGED <<queueVars, running, initialized>>
  BY <1>5 DEF QuietInv, queueVars
<1>6. CASE EmptyQueues /\ initialized' = FALSE /\ shutting_down' = FALSE
  BY <1>6, Zenon DEF QuietInv, EmptyQueues
<1> QED
  BY <1>2, <1>3, <1>4, <1>5, <1>6, PowerStep

\* What a runtime has on its way ends with it.
THEOREM QuietBeforeBoot == Spec => []QuietInv
<1>1. Init => QuietInv
  BY DEF Init, QuietInv
<1> QED
  BY <1>1, QuietStep, ControlCorrect, PTL DEF Spec

----------------------------------------------------------------------------
(* The credential a request carries.                                       *)

\* Every action preserves GenerationInv.
LEMMA GenerationStep ==
  TypeOK /\ TypeOK' /\ QuietInv /\ GenerationInv /\ [Next]_vars => GenerationInv'
<1> SUFFICES ASSUME TypeOK, TypeOK', QuietInv, GenerationInv, [Next]_vars,
                    NEW r \in Outstanding'
             PROVE  /\ r.binding_generation <= binding_generation'
                    /\ r.binding_generation = binding_generation'
                         => r.credential = CredentialFor(r.type)'
  BY DEF GenerationInv, GenerationIdentifiesCredential
<1>1. binding_generation \in Nat /\ binding_generation' \in Nat
  BY DEF TypeOK, DataTypes
<1>2. CASE EmptyQueues
  BY <1>2 DEF EmptyQueues, Outstanding
<1>3. CASE UNCHANGED queueVars /\ ~initialized
  BY <1>3 DEF queueVars, QuietInv, Outstanding
\* Before the step the request satisfies the invariant, also the one just built.
<1>4. /\ r.binding_generation \in Nat
      /\ r.binding_generation <= binding_generation
      /\ r.binding_generation = binding_generation => r.credential = CredentialFor(r.type)
  <2>1. CASE r \in Outstanding
    BY <2>1, OutstandingType DEF GenerationInv, GenerationIdentifiesCredential, Requests
  <2>2. CASE \E type, conversation : r = RequestFor(type, conversation)
    BY <1>1, <2>2 DEF RequestFor
  <2> QED
    BY <2>1, <2>2, QueueStep, OutstandingStep
<1>5. CASE UNCHANGED credentialVars
  BY <1>4, <1>5 DEF credentialVars, CredentialFor
<1>6. CASE binding_generation' > binding_generation
  BY <1>1, <1>4, <1>6
<1> QED
  BY <1>2, <1>3, <1>5, <1>6, BindingStep DEF BindingMove

\* A request that carries the present binding generation carries the credential in
\* use, for every number of credentials and of bindings.
THEOREM GenerationIsCredential == Spec => []GenerationIdentifiesCredential
<1>1. Init => GenerationInv
  BY DEF Init, GenerationInv, GenerationIdentifiesCredential, Outstanding
<1>2. GenerationInv => GenerationIdentifiesCredential
  BY DEF GenerationInv
<1> QED
  BY <1>1, <1>2, GenerationStep, TypeCorrect, QuietBeforeBoot, PTL DEF Spec

----------------------------------------------------------------------------
(* The poll on its way.                                                    *)

\* Every action preserves PollInv.
LEMMA PollStep ==
  TypeOK /\ ControlInv /\ QuietInv /\ PollInv /\ [Next]_vars => PollInv'
<1> SUFFICES ASSUME TypeOK, ControlInv, QuietInv, PollInv, [Next]_vars, running'
             PROVE  NumPolls(service_queue') + NumPolls(results')
                      = IF poll_pending' THEN 1 ELSE 0
  BY DEF PollInv
<1> DEFINE Total == NumPolls(service_queue) + NumPolls(results)
           Pending == IF poll_pending THEN 1 ELSE 0
<1>1. /\ service_queue \in Seq(Requests) /\ results \in Seq(Requests)
      /\ poll_pending \in BOOLEAN /\ running \in BOOLEAN
  BY DEF TypeOK, FlagTypes, DataTypes
<1>2. NumPolls(service_queue) \in Nat /\ NumPolls(results) \in Nat
  BY <1>1, PollsFinite
<1>3. running \/ (~initialized /\ UNCHANGED queueVars)
  <2>1. ~(running' = FALSE)
    OBVIOUS
  <2>2. CASE UNCHANGED powerVars
    <3>1. running' = running
      BY <2>2 DEF powerVars
    <3> QED
      BY <1>1, <3>1
  <2>3. CASE ~initialized /\ UNCHANGED <<queueVars, shutting_down>>
    BY <2>3
  <2>4. CASE ~running /\ UNCHANGED <<queueVars, running, initialized>>
    BY <2>4
  <2>5. ~EmptyQueues
    BY <2>1 DEF EmptyQueues
  <2> QED
    BY <2>1, <2>2, <2>3, <2>4, <2>5, PowerStep
<1>4. Total = Pending
  BY <1>3, PollsEmpty DEF PollInv, QuietInv
<1>5. CASE UNCHANGED queueVars
  BY <1>4, <1>5 DEF queueVars
<1>6. CASE running /\ \E type \in PollTypes : PollBinding(type)
  <2>1. PICK type \in PollTypes : PollBinding(type)
    BY <1>6
  <2> DEFINE request == RequestFor(type, NoConversation)
  <2>2. request \in Requests /\ IsPoll(request)
    BY RequestType DEF NoConversation, IsPoll, RequestFor
  <2>3. ~poll_pending /\ results' = results
    BY <2>1 DEF PollBinding
  <2>4. CASE service_queue' = service_queue
    <3>1. ~poll_pending'
      BY <2>1, <2>4 DEF PollBinding
    <3> QED
      BY <1>4, <2>3, <2>4, <3>1
  <2>5. CASE service_queue' = Append(service_queue, request)
    <3>1. poll_pending'
      BY <1>1, <2>1, <2>2, <2>5, QueuePositions DEF PollBinding
    <3>2. NumPolls(service_queue') = NumPolls(service_queue) + 1
      BY <1>1, <2>2, <2>5, PollsAppend
    <3> QED
      BY <1>2, <1>4, <2>3, <3>1, <3>2
  <2> QED
    BY <2>1, <2>4, <2>5 DEF PollBinding, Submit
<1>7. CASE SendStop
  <2> DEFINE request == RequestFor("STOP", stopping_id)
  <2>1. request \in Requests /\ ~IsPoll(request)
    BY RequestType DEF TypeOK, DataTypes, IsPoll, PollTypes, RequestFor
  <2>2. service_queue' = service_queue \/ service_queue' = Append(service_queue, request)
    BY <1>7 DEF SendStop, NotifyStop, Submit
  <2>3. NumPolls(service_queue') = NumPolls(service_queue)
    <3>1. NumPolls(Append(service_queue, request)) = NumPolls(service_queue) + 0
      BY <1>1, <2>1, PollsAppend
    <3>2. NumPolls(Append(service_queue, request)) = NumPolls(service_queue)
      BY <1>2, <3>1
    <3> HIDE DEF request
    <3> QED
      BY <2>2, <3>2, Zenon
  <2> QED
    BY <1>4, <1>7, <2>3 DEF SendStop
<1>8. CASE running /\ ServiceExecute
  <2>1. control # "drain"
    BY <1>8 DEF ControlInv, QuietInv
  <2>2. /\ service_queue # <<>> /\ Head(service_queue) \in Requests
        /\ service_queue' = Tail(service_queue)
        /\ results' = Append(results, Head(service_queue))
        /\ poll_pending' = poll_pending
    BY <1>1, <1>8, <2>1, QueueMoves DEF ServiceExecute
  <2>3. /\ NumPolls(service_queue)
             = NumPolls(service_queue') + (IF IsPoll(Head(service_queue)) THEN 1 ELSE 0)
        /\ NumPolls(results')
             = NumPolls(results) + (IF IsPoll(Head(service_queue)) THEN 1 ELSE 0)
    BY <1>1, <2>2, PollsAppend, PollsTail
  <2>4. NumPolls(service_queue') \in Nat
    BY <1>1, <2>2, PollsFinite, QueueMoves
  <2> QED
    BY <1>2, <1>4, <2>2, <2>3, <2>4
<1>9. CASE TakeResult
  <2>1. /\ results # <<>> /\ results' = Tail(results)
        /\ service_queue' = service_queue
        /\ poll_pending' = (poll_pending /\ ~IsPoll(Head(results)))
    BY <1>9 DEF TakeResult, ReturnsPoll
  <2>2. NumPolls(results) = NumPolls(results') + (IF IsPoll(Head(results)) THEN 1 ELSE 0)
    BY <1>1, <2>1, PollsTail
  <2>3. NumPolls(results') \in Nat
    BY <1>1, <2>1, PollsFinite, QueueMoves
  <2>4. CASE IsPoll(Head(results))
    <3>1. ~poll_pending'
      BY <2>1, <2>4
    <3> QED
      BY <1>1, <1>2, <1>4, <2>1, <2>2, <2>3, <2>4, <3>1
  <2>5. CASE ~IsPoll(Head(results))
    <3>1. poll_pending' = poll_pending
      BY <1>1, <2>1, <2>5
    <3> QED
      BY <1>2, <1>4, <2>1, <2>2, <2>3, <2>5, <3>1
  <2> QED
    BY <2>4, <2>5
<1>10. ~(running /\ (ServiceResultLost \/ DropResult \/ EmptyQueues))
  BY DEF ServiceResultLost, DropResult, EmptyQueues, outsideVars, powerVars
<1> QED
  BY <1>3, <1>5, <1>6, <1>7, <1>8, <1>9, <1>10, QueueStep DEF QueueMove

\* While the runtime runs, exactly one poll is on its way when poll_pending is set
\* and none when it is clear, whatever is lost, refused or answered late.
THEOREM PollIsSingle == Spec => []OnePollOutstanding
<1>1. Init => PollInv
  BY DEF Init, PollInv
<1>2. PollInv => OnePollOutstanding
  BY DEF PollInv, OnePollOutstanding, NumPolls, PollsIn
<1> QED
  BY <1>1, <1>2, PollStep, TypeCorrect, ControlCorrect, QuietBeforeBoot, PTL DEF Spec

----------------------------------------------------------------------------
(* The conversations to stop.                                              *)

\* A request that stops none of the conversations of a queue can join it.
LEMMA StopsAppend ==
  ASSUME NEW q \in Seq(Requests), NEW r \in Requests, StopsApart(q),
         \A i \in DOMAIN q : ~SameStop(q[i], r)
  PROVE  StopsApart(Append(q, r))
<1> SUFFICES ASSUME NEW i \in 1 .. Len(q) + 1, NEW j \in 1 .. Len(q) + 1, i # j,
                    SameStop(Append(q, r)[i], Append(q, r)[j])
             PROVE  FALSE
  BY QueuePositions DEF StopsApart
<1>1. SameStop(Append(q, r)[j], Append(q, r)[i])
  BY DEF SameStop
<1>2. CASE i # Len(q) + 1 /\ j # Len(q) + 1
  BY <1>2, QueuePositions DEF StopsApart
<1>3. CASE i = Len(q) + 1
  BY <1>1, <1>3, QueuePositions
<1>4. CASE j = Len(q) + 1
  BY <1>4, QueuePositions
<1> QED
  BY <1>2, <1>3, <1>4

\* A request that leaves a queue stops none of the conversations of the rest.
LEMMA StopsTail ==
  ASSUME NEW q \in Seq(Requests), q # <<>>, StopsApart(q)
  PROVE  /\ StopsApart(Tail(q))
         /\ \A i \in DOMAIN Tail(q) : ~SameStop(Tail(q)[i], Head(q))
<1>1. /\ Len(q) \in Nat \ {0} /\ DOMAIN q = 1 .. Len(q) /\ Head(q) = q[1]
      /\ DOMAIN Tail(q) = 1 .. Len(q) - 1
      /\ \A i \in 1 .. Len(q) - 1 : Tail(q)[i] = q[i + 1]
  OBVIOUS
<1>2. StopsApart(Tail(q))
  <2> SUFFICES ASSUME NEW i \in 1 .. Len(q) - 1, NEW j \in 1 .. Len(q) - 1,
                      SameStop(q[i + 1], q[j + 1])
               PROVE  i = j
    BY <1>1 DEF StopsApart
  <2>1. i + 1 = j + 1
    BY <1>1 DEF StopsApart
  <2> QED
    BY <2>1
<1>3. ASSUME NEW i \in 1 .. Len(q) - 1, SameStop(q[i + 1], q[1])
      PROVE  FALSE
  <2>1. i + 1 = 1
    BY <1>1, <1>3 DEF StopsApart
  <2> QED
    BY <1>1, <2>1
<1> QED
  BY <1>1, <1>2, <1>3

\* Two queues stay apart when one of them loses its head or gains a request that
\* stops none of the conversations of the other.
LEMMA QueuesStayApart ==
  ASSUME NEW q \in Seq(Requests), NEW s \in Seq(Requests), QueuesApart(q, s)
  PROVE  /\ q # <<>> =>
              QueuesApart(Tail(q), s) /\ \A j \in DOMAIN s : ~SameStop(s[j], Head(q))
         /\ s # <<>> => QueuesApart(q, Tail(s))
         /\ \A r \in Requests :
              /\ (\A j \in DOMAIN s : ~SameStop(s[j], r)) => QueuesApart(Append(q, r), s)
              /\ (\A i \in DOMAIN q : ~SameStop(q[i], r)) => QueuesApart(q, Append(s, r))
<1>1. \A a, b : SameStop(a, b) => SameStop(b, a)
  BY DEF SameStop
<1>2. ASSUME q # <<>>
      PROVE  QueuesApart(Tail(q), s) /\ \A j \in DOMAIN s : ~SameStop(s[j], Head(q))
  <2>1. 1 \in DOMAIN q /\ Head(q) = q[1]
        /\ \A i \in DOMAIN Tail(q) : i + 1 \in DOMAIN q /\ Tail(q)[i] = q[i + 1]
    BY <1>2
  <2> QED
    BY <1>1, <2>1 DEF QueuesApart
<1>3. ASSUME s # <<>>
      PROVE  QueuesApart(q, Tail(s))
  <2>1. \A i \in DOMAIN Tail(s) : i + 1 \in DOMAIN s /\ Tail(s)[i] = s[i + 1]
    BY <1>3
  <2> QED
    BY <2>1 DEF QueuesApart
<1>4. ASSUME NEW r \in Requests
      PROVE  /\ (\A j \in DOMAIN s : ~SameStop(s[j], r)) => QueuesApart(Append(q, r), s)
             /\ (\A i \in DOMAIN q : ~SameStop(q[i], r)) => QueuesApart(q, Append(s, r))
  <2>1. \A x \in Seq(Requests) : \A i \in DOMAIN Append(x, r) :
          Append(x, r)[i] = r \/ (i \in DOMAIN x /\ Append(x, r)[i] = x[i])
    BY QueuePositions
  <2> QED
    BY <1>1, <2>1 DEF QueuesApart
<1> QED
  BY <1>2, <1>3, <1>4

\* The queues stay apart from each other and within themselves.
LEMMA StopQueuesStep ==
  ASSUME TypeOK, ControlInv, StopInv, [Next]_vars
  PROVE  /\ StopsApart(service_queue') /\ StopsApart(results')
         /\ QueuesApart(service_queue', results')
<1>1. /\ service_queue \in Seq(Requests) /\ results \in Seq(Requests)
      /\ StopsApart(service_queue) /\ StopsApart(results)
      /\ QueuesApart(service_queue, results)
  BY DEF TypeOK, DataTypes, StopInv
<1>2. ASSUME NEW request \in Requests,
             \A r \in Outstanding : ~SameStop(r, request),
             service_queue' = Append(service_queue, request), results' = results
      PROVE  /\ StopsApart(service_queue') /\ StopsApart(results')
             /\ QueuesApart(service_queue', results')
  <2>1. /\ \A i \in DOMAIN service_queue : ~SameStop(service_queue[i], request)
        /\ \A j \in DOMAIN results : ~SameStop(results[j], request)
    BY <1>2 DEF Outstanding
  <2> QED
    BY <1>1, <1>2, <2>1, StopsAppend, QueuesStayApart
<1>3. CASE service_queue' = service_queue /\ results' = results
  BY <1>1, <1>3
<1>4. CASE \E type \in PollTypes : PollBinding(type)
  <2>1. PICK type \in PollTypes : PollBinding(type)
    BY <1>4
  <2> DEFINE request == RequestFor(type, NoConversation)
  <2>2. request \in Requests /\ \A r \in Outstanding : ~SameStop(r, request)
    BY RequestType DEF NoConversation, SameStop, RequestFor, PollTypes
  <2>3. results' = results
    BY <2>1 DEF PollBinding
  <2>4. service_queue' = service_queue \/ service_queue' = Append(service_queue, request)
    BY <2>1 DEF PollBinding, Submit
  <2> HIDE DEF request
  <2>5. CASE service_queue' = service_queue
    BY <1>3, <2>3, <2>5
  <2>6. CASE service_queue' = Append(service_queue, request)
    BY <1>2, <2>2, <2>3, <2>6
  <2> QED
    BY <2>4, <2>5, <2>6
<1>5. CASE SendStop
  <2> DEFINE request == RequestFor("STOP", stopping_id)
  <2>1. request \in Requests /\ request.conversation = stopping_id
    BY RequestType DEF TypeOK, DataTypes, RequestFor
  <2>2. \A r \in Outstanding : ~SameStop(r, request)
    BY <1>5, <2>1 DEF SendStop, StopInv, SameStop
  <2>3. results' = results
    BY <1>5 DEF SendStop
  <2>4. service_queue' = service_queue \/ service_queue' = Append(service_queue, request)
    BY <1>5 DEF SendStop, NotifyStop, Submit
  <2> HIDE DEF request
  <2>5. CASE service_queue' = service_queue
    BY <1>3, <2>3, <2>5
  <2>6. CASE service_queue' = Append(service_queue, request)
    BY <1>2, <2>1, <2>2, <2>3, <2>6
  <2> QED
    BY <2>4, <2>5, <2>6
<1>6. CASE ServiceExecute \/ ServiceResultLost
  <2> DEFINE first == Head(service_queue)
             rest == Tail(service_queue)
  <2>1. /\ service_queue # <<>> /\ service_queue' = rest
        /\ results' = results \/ results' = Append(results, first)
    BY <1>6 DEF ServiceExecute, ServiceResultLost
  <2>2. first \in Requests /\ rest \in Seq(Requests)
    BY <1>1, <2>1, QueueMoves
  <2>3. /\ StopsApart(rest) /\ QueuesApart(rest, results)
        /\ \A i \in DOMAIN rest : ~SameStop(rest[i], first)
        /\ \A j \in DOMAIN results : ~SameStop(results[j], first)
    BY <1>1, <2>1, StopsTail, QueuesStayApart
  <2>4. /\ StopsApart(Append(results, first))
        /\ QueuesApart(rest, Append(results, first))
    <3> HIDE DEF first, rest
    <3> QED
      BY <1>1, <2>2, <2>3, StopsAppend, QueuesStayApart
  <2> QED
    BY <1>1, <2>1, <2>3, <2>4
<1>7. CASE TakeResult \/ DropResult
  <2>1. results # <<>> /\ results' = Tail(results) /\ service_queue' = service_queue
    BY <1>7 DEF TakeResult, DropResult
  <2> QED
    BY <1>1, <2>1, StopsTail, QueuesStayApart
<1>8. CASE EmptyQueues
  BY <1>8 DEF EmptyQueues, StopsApart, QueuesApart
<1> QED
  BY <1>3, <1>4, <1>5, <1>6, <1>7, <1>8, QueueStep DEF QueueMove, queueVars

\* Every action preserves TalkInv.
LEMMA TalkStep ==
  TypeOK /\ ControlInv /\ ConversationKnown /\ TalkInv /\ [Next]_vars => TalkInv'
BY ConversationMoves DEF ConversationMove, TalkInv, NoConversation

\* Every action preserves StartInv.
LEMMA StartStep ==
  TypeOK /\ ControlInv /\ ConversationKnown /\ StartInv /\ [Next]_vars => StartInv'
<1> SUFFICES ASSUME TypeOK, ControlInv, ConversationKnown, StartInv, [Next]_vars
             PROVE  StartInv'
  OBVIOUS
<1>1. /\ started_with \in Seq(Tokens \cup {NoToken}) /\ conversations \in Nat
      /\ device_token \in Tokens \cup {NoToken}
  BY DEF TypeOK, DataTypes
<1>2. /\ Len(Append(started_with, device_token)) = conversations + 1
      /\ Append(started_with, device_token)[conversations + 1] = device_token
  BY <1>1 DEF StartInv
<1> QED
  BY <1>1, <1>2, ConversationMoves DEF ConversationMove, StartInv

\* Every action preserves StopInv.
LEMMA StopStep ==
  /\ TypeOK /\ TypeOK' /\ ControlInv /\ ConversationKnown /\ TalkInv /\ StartInv
  /\ StopInv /\ [Next]_vars
  => StopInv'
<1> SUFFICES ASSUME TypeOK, TypeOK', ControlInv, ConversationKnown, TalkInv, StartInv,
                    StopInv, [Next]_vars
             PROVE  StopInv'
  OBVIOUS
<1>1. ConversationMove
  BY ConversationMoves
<1>2. /\ conversation_id \in Nat /\ conversations \in Nat /\ stopping_id \in Nat
      /\ conversation_id' \in Nat /\ conversations' \in Nat
  BY DEF TypeOK, DataTypes
<1>3. conversation_id' <= conversations'
  BY <1>1, <1>2 DEF ConversationMove, StopInv, NoConversation
<1>4. control' \in {"leave_stop", "leave_pair"} => stopping_id' \in 1 .. conversations'
  BY <1>1, <1>2 DEF ConversationMove, StopInv, NoConversation
<1>4a. started_with \in Seq(Tokens \cup {NoToken})
  BY DEF TypeOK, DataTypes
<1>5. ASSUME NEW r \in Outstanding', r.type = "STOP"
      PROVE  /\ r.conversation \in 1 .. conversations'
             /\ r.credential = started_with'[r.conversation]
             /\ r.conversation # conversation_id'
             /\ control' \in {"leave_stop", "leave_pair"} => r.conversation # stopping_id'
  <2>1. CASE r \in Outstanding
    <3>1. ~EmptyQueues
      BY <1>5 DEF EmptyQueues, Outstanding
    <3>2. /\ r.conversation \in 1 .. conversations
          /\ r.credential = started_with[r.conversation]
          /\ r.conversation # conversation_id
          /\ control \in {"leave_stop", "leave_pair"} => r.conversation # stopping_id
      BY <1>5, <2>1 DEF StopInv
    <3>3. started_with'[r.conversation] = started_with[r.conversation]
      BY <1>1, <1>2, <1>4a, <3>1, <3>2 DEF ConversationMove, StartInv
    <3> QED
      BY <1>1, <1>2, <3>1, <3>2, <3>3 DEF ConversationMove, NoConversation
  <2>2. CASE SendStop /\ r = RequestFor("STOP", stopping_id)
    <3>1. /\ control \in {"leave_stop", "leave_pair"}
          /\ control' \notin {"leave_stop", "leave_pair"}
      BY <2>2 DEF SendStop
    <3>2. r.conversation = stopping_id /\ r.credential = device_token
      BY <2>2 DEF RequestFor, CredentialFor
    <3>3. state = "IN_CONVERSATION" /\ conversation_id = NoConversation
      BY <3>1 DEF ControlInv, ConversationKnown, Leaving
    <3>4. /\ stopping_id = conversations /\ stopping_id \in 1 .. conversations
          /\ started_with[stopping_id] = device_token
      BY <3>1, <3>3 DEF StopInv, TalkInv, StartInv
    <3>5. ~EmptyQueues => started_with'[stopping_id] = started_with[stopping_id]
      BY <1>1, <1>2, <1>4a, <3>4 DEF ConversationMove, StartInv
    <3>6. CASE EmptyQueues
      BY <1>5, <3>6 DEF EmptyQueues, Outstanding
    <3>7. CASE ~EmptyQueues
      BY <1>1, <1>2, <3>1, <3>2, <3>3, <3>4, <3>5, <3>7 DEF ConversationMove, NoConversation
    <3> QED
      BY <3>6, <3>7
  <2>3. ~ \E type \in PollTypes : r = RequestFor(type, NoConversation)
    BY <1>5 DEF RequestFor, PollTypes
  <2> QED
    BY <2>1, <2>2, <2>3, QueueStep, OutstandingStep
<1> QED
  BY <1>3, <1>4, <1>5, StopQueuesStep DEF StopInv

\* The two queues as one: the requests in the order in which they are answered.
LEMMA StopsOfBoth ==
  ASSUME NEW q \in Seq(Requests), NEW s \in Seq(Requests),
         StopsApart(q), StopsApart(s), QueuesApart(q, s)
  PROVE  StopsApart(s \o q)
<1> SUFFICES ASSUME NEW i \in DOMAIN (s \o q), NEW j \in DOMAIN (s \o q),
                    SameStop((s \o q)[i], (s \o q)[j])
             PROVE  i = j
  BY DEF StopsApart
<1>1. \A k \in DOMAIN (s \o q) :
        \/ k \in DOMAIN s /\ (s \o q)[k] = s[k]
        \/ /\ k \notin DOMAIN s /\ k - Len(s) \in DOMAIN q
           /\ (s \o q)[k] = q[k - Len(s)]
  OBVIOUS
<1>2. i \in Int /\ j \in Int /\ Len(s) \in Nat
  OBVIOUS
<1>3. SameStop((s \o q)[j], (s \o q)[i])
  BY DEF SameStop
<1>4. CASE i \in DOMAIN s /\ j \in DOMAIN s
  BY <1>1, <1>4 DEF StopsApart
<1>5. CASE i \notin DOMAIN s /\ j \notin DOMAIN s
  <2>1. i - Len(s) = j - Len(s)
    BY <1>1, <1>5 DEF StopsApart
  <2> QED
    BY <1>2, <2>1
<1>6. CASE i \in DOMAIN s <=> j \notin DOMAIN s
  BY <1>1, <1>3, <1>6 DEF QueuesApart
<1> QED
  BY <1>4, <1>5, <1>6

\* The service is told to stop a conversation once, with the credential that started
\* it, and never the one the device is still in.
THEOREM StopsAreForEnded == Spec => []StopsAreForEndedConversations
<1>1. Init => StopInv /\ TalkInv /\ StartInv
  BY DEF Init, TalkInv, StartInv, StopInv, NoConversation, Outstanding, StopsApart, QueuesApart
<1>2. TypeOK /\ StopInv => StopsAreForEndedConversations
  <2> SUFFICES ASSUME TypeOK, StopInv PROVE StopsAreForEndedConversations
    OBVIOUS
  <2> DEFINE sent == results \o service_queue
  <2>1. service_queue \in Seq(Requests) /\ results \in Seq(Requests)
    BY DEF TypeOK, DataTypes
  <2>2. StopsApart(sent)
    BY <2>1, StopsOfBoth DEF StopInv
  <2>3. \A i \in DOMAIN sent : sent[i] \in Outstanding
    BY <2>1 DEF Outstanding
  <2>4. \A i \in DOMAIN sent : sent[i].type = "STOP" =>
          /\ sent[i].conversation \in 1 .. conversations
          /\ sent[i].credential = started_with[sent[i].conversation]
          /\ sent[i].conversation # conversation_id
    BY <2>3 DEF StopInv
  <2> HIDE DEF sent
  <2>5. \A i, j \in DOMAIN sent :
          sent[i].type = "STOP" /\ sent[j].type = "STOP"
            /\ sent[j].conversation = sent[i].conversation => i = j
    BY <2>2 DEF StopsApart, SameStop
  <2> QED
    BY <2>4, <2>5 DEF StopsAreForEndedConversations, sent
<1> QED
  BY <1>1, <1>2, StopStep, TalkStep, StartStep, TypeCorrect, ControlCorrect,
     ConversationIsKnown, PTL DEF Spec

----------------------------------------------------------------------------
(* The abstract specification.                                             *)

\* The notice that the conversation being left has ended.
EndNotice == [credential |-> device_token, conversation |-> stopping_id]

\* A step tells the service of no other end than that of the conversation it leaves.
LEMMA NoticeStep ==
  ASSUME TypeOK, QueueMove
  PROVE  \/ ~SendStop /\ StopsOnTheirWay' \subseteq StopsOnTheirWay
         \/ SendStop /\ StopsOnTheirWay' \in {StopsOnTheirWay, StopsOnTheirWay \cup {EndNotice}}
<1>1. CASE SendStop
  <2> DEFINE request == RequestFor("STOP", stopping_id)
  <2>1. /\ request \in Requests /\ request.type = "STOP"
        /\ request.credential = device_token /\ request.conversation = stopping_id
    BY RequestType DEF TypeOK, DataTypes, RequestFor, CredentialFor
  <2>2. results' = results /\ service_queue \in Seq(Requests)
    BY <1>1 DEF SendStop, TypeOK, DataTypes
  <2>3. service_queue' = service_queue \/ service_queue' = Append(service_queue, request)
    BY <1>1 DEF SendStop, NotifyStop, Submit
  <2> HIDE DEF request
  <2>4. CASE service_queue' = service_queue
    BY <1>1, <2>2, <2>4 DEF StopsOnTheirWay, Outstanding
  <2>5. CASE service_queue' = Append(service_queue, request)
    <3>1. Outstanding' = Outstanding \cup {request}
      BY <2>1, <2>2, <2>5, QueuePositions DEF Outstanding
    <3> QED
      BY <1>1, <2>1, <3>1 DEF StopsOnTheirWay, EndNotice
  <2> QED
    BY <2>3, <2>4, <2>5
<1>2. CASE ~SendStop
  <2>1. \A r \in Outstanding' : r.type = "STOP" => r \in Outstanding
    <3> SUFFICES ASSUME NEW r \in Outstanding', r.type = "STOP" PROVE r \in Outstanding
      OBVIOUS
    <3>1. ~ \E type \in PollTypes : r = RequestFor(type, NoConversation)
      BY DEF RequestFor, PollTypes
    <3> QED
      BY <1>2, <3>1, OutstandingStep
  <2> QED
    BY <1>2, <2>1 DEF StopsOnTheirWay
<1> QED
  BY <1>1, <1>2

\* The answer to a poll leaves the notices as they are.
LEMMA PollTellsNothing ==
  ASSUME TypeOK, TakeResult, IsPoll(Head(results))
  PROVE  StopsOnTheirWay' = StopsOnTheirWay
<1> DEFINE first == Head(results)
           rest == Tail(results)
<1>1. /\ results # <<>> /\ results' = rest /\ service_queue' = service_queue
      /\ results \in Seq(Requests)
  BY DEF TakeResult, TypeOK, DataTypes
<1>2. /\ Len(results) \in Nat \ {0} /\ DOMAIN results = 1 .. Len(results)
      /\ first = results[1] /\ DOMAIN rest = 1 .. Len(results) - 1
      /\ \A i \in 1 .. Len(results) - 1 : rest[i] = results[i + 1]
  BY <1>1
<1>3. first.type # "STOP"
  BY DEF IsPoll, PollTypes
<1> HIDE DEF first, rest
<1>4. \A i \in DOMAIN rest : i + 1 \in DOMAIN results /\ rest[i] = results[i + 1]
  BY <1>2
<1>5. \A j \in DOMAIN results : j = 1 \/ (j - 1 \in DOMAIN rest /\ rest[j - 1] = results[j])
  <2> TAKE j \in DOMAIN results
  <2>1. j \in Int /\ (j # 1 => j - 1 \in 1 .. Len(results) - 1 /\ (j - 1) + 1 = j)
    BY <1>2
  <2> QED
    BY <1>2, <2>1
<1>6. \A r : r.type = "STOP" => (r \in Outstanding' <=> r \in Outstanding)
  <2>1. Outstanding' = { service_queue[i] : i \in DOMAIN service_queue }
                         \cup { rest[i] : i \in DOMAIN rest }
    BY <1>1 DEF Outstanding
  <2> SUFFICES ASSUME NEW r, r.type = "STOP"
               PROVE  r \in Outstanding' <=> r \in Outstanding
    OBVIOUS
  <2>2. (\E i \in DOMAIN rest : r = rest[i]) => \E j \in DOMAIN results : r = results[j]
    BY <1>4
  <2>3. (\E j \in DOMAIN results : r = results[j]) => \E i \in DOMAIN rest : r = rest[i]
    BY <1>2, <1>3, <1>5
  <2> QED
    BY <2>1, <2>2, <2>3 DEF Outstanding
<1> QED
  BY <1>6 DEF StopsOnTheirWay

\* What the proof of the refinement knows of a reachable state.
BindingInv ==
  TypeOK /\ ControlInv /\ RequestInv /\ ConversationKnown /\ TalkInv /\ ViewInv

\* A step that leaves the queues alone tells the service nothing, and one that stops
\* no conversation tells it nothing new.
LEMMA ToldStep ==
  ASSUME TypeOK, [Next]_vars
  PROVE  /\ UNCHANGED queueVars => StopsOnTheirWay' = StopsOnTheirWay
         /\ ~SendStop => StopsOnTheirWay' \subseteq StopsOnTheirWay
         /\ SendStop =>
              StopsOnTheirWay' \in {StopsOnTheirWay, StopsOnTheirWay \cup {EndNotice}}
<1>1. UNCHANGED queueVars => StopsOnTheirWay' = StopsOnTheirWay
  BY DEF queueVars, StopsOnTheirWay, Outstanding
<1> QED
  BY <1>1, QueueStep, NoticeStep

\* Initially the device is switched off, and has its record.
LEMMA InitRefines == Init => Binding!BindingInit
<1> SUFFICES ASSUME Init PROVE Binding!BindingInit
  OBVIOUS
<1>1. StopsOnTheirWay = {}
  BY DEF Init, StopsOnTheirWay, Outstanding
<1>2. StartAsked = FALSE
  BY DEF Init, StartAsked
<1> QED
  BY <1>1, <1>2 DEF Init, Binding!BindingInit, BindingPower, BindingPhase

\* Steps of the network, of the calls and of the workers that the service cannot tell
\* from the delivery of a notice, or from nothing.
LEMMA HiddenStep ==
  ASSUME BindingInv, [Next]_vars,
         \/ NetworkDown \/ NetworkDownGeneration \/ NetworkDownLoss \/ NetworkUp
         \/ (\E kind \in {"ended", "expiring"} : RtcCallback(kind))
         \/ NotifyConversationEnded \/ RequestRenewal \/ RequestPair \/ RequestStop
         \/ TickPairRetry \/ TickPairPoll \/ TickStart \/ TickDevicePoll \/ TickStop
         \/ TickRenew \/ PairUnavailable \/ PairCall \/ PairFail \/ StartCall \/ JoinDone
         \/ RenewCall \/ RenewStale \/ RenewRejected \/ RenewHopeless \/ RenewFail
         \/ Renewed \/ ServiceExecute \/ ResultWithoutEffect \/ PairingRefused
         \/ DropResult
  PROVE  Binding!Deliver
<1> USE DEF deviceVars, bindingVars, credentialVars, pairingVars, retryVars,
            conversationVars, renewalVars, renewingVars, mailboxVars, outsideVars,
            networkVars, powerVars, historyVars, queueVars, callVars, savedVars
<1>1. UNCHANGED <<initialized, running, device_token, kv, conversations>>
  BY DEF NetworkDown, NetworkDownGeneration, NetworkDownLoss, NetworkUp,
     RtcCallback, NotifyConversationEnded, RequestRenewal, RequestPair, RequestStop,
     TickPairRetry, TickPairPoll, TickStart, TickDevicePoll, TickStop, TickRenew,
     PairUnavailable, PairCall, PairFail, StartCall, JoinDone, RenewCall, RenewStale,
     RenewRejected, RenewHopeless, RenewFail, Renewed, ServiceExecute,
     ResultWithoutEffect, PairingRefused, DropResult, BeginLeaving, ControlReady,
     PollBinding, Return, TakeResult, Tick, OnlineTick, BoundTick
<1>2. UNCHANGED BindingPhase /\ StartAsked' = StartAsked /\ ~SendStop
  <2>1. CASE \/ NetworkDown \/ NetworkDownGeneration \/ NetworkDownLoss \/ NetworkUp
             \/ (\E kind \in {"ended", "expiring"} : RtcCallback(kind))
             \/ NotifyConversationEnded \/ RequestRenewal \/ RequestPair \/ RequestStop
             \/ TickPairPoll \/ TickDevicePoll \/ ServiceExecute \/ ResultWithoutEffect
             \/ DropResult
    <3>1. UNCHANGED <<state, control, conversation_requested>>
      BY <2>1 DEF NetworkDown, NetworkDownGeneration, NetworkDownLoss, NetworkUp,
         RtcCallback, NotifyConversationEnded, RequestRenewal, RequestPair, RequestStop,
         TickPairPoll, TickDevicePoll, ServiceExecute, ResultWithoutEffect, DropResult,
         ControlReady, PollBinding, TakeResult, Tick, OnlineTick, BoundTick
    <3> QED
      BY <3>1 DEF BindingPhase, StartAsked, SendStop
  <2>2. CASE \/ TickStop \/ TickRenew \/ JoinDone \/ RenewCall \/ RenewStale
             \/ RenewRejected \/ RenewHopeless \/ RenewFail \/ Renewed
    <3>1. /\ state = "IN_CONVERSATION" /\ state' = state
          /\ control \notin Leaving \cup {"start_call", "start_http"}
          /\ control' \notin {"start_call", "start_http"}
      BY <2>2 DEF TickStop, TickRenew, JoinDone, RenewCall, RenewStale, RenewRejected,
         RenewHopeless, RenewFail, Renewed, BeginLeaving, ControlReady, Return, Tick,
         OnlineTick, BoundTick, BindingInv, ControlInv, Leaving
    <3> QED
      BY <3>1 DEF BindingPhase, StartAsked, SendStop, Leaving
  <2>3. CASE TickPairRetry \/ PairUnavailable \/ PairCall \/ PairFail \/ PairingRefused
    <3>1. /\ state \notin {"RUNTIME", "IN_CONVERSATION"}
          /\ state' \notin {"RUNTIME", "IN_CONVERSATION"}
          /\ control \notin Leaving \cup {"start_call", "start_http"}
          /\ control' \notin {"start_call", "start_http"}
      BY <2>3 DEF TickPairRetry, PairUnavailable, PairCall, PairFail, PairingRefused,
         TakeResult, ResultApplies, ControlReady, Return, Tick, OnlineTick, BoundTick,
         BindingInv, ControlInv, Leaving
    <3> QED
      BY <3>1 DEF BindingPhase, StartAsked, SendStop, Leaving
  <2>4. CASE TickStart \/ StartCall
    <3>1. /\ state = "RUNTIME" /\ state' = state
          /\ conversation_requested \/ control = "start_call"
          /\ control \notin Leaving
          /\ control' \in {"start_call", "start_http"}
      BY <2>4 DEF TickStart, StartCall, ControlReady, Tick, OnlineTick, BoundTick,
         BindingInv, ControlInv, Leaving
    <3> QED
      BY <3>1 DEF BindingPhase, StartAsked, SendStop, Leaving
  <2> QED
    BY <2>1, <2>2, <2>3, <2>4
<1>3. UNCHANGED BindingPower
  BY <1>1 DEF BindingPower
<1>4. StopsOnTheirWay' \subseteq StopsOnTheirWay
  BY <1>2, ToldStep DEF BindingInv
<1> QED
  BY <1>1, <1>2, <1>3, <1>4 DEF Binding!Deliver

\* The network is gone, the start has failed, or the device is to be paired or to end:
\* no request is left.
LEMMA WithdrawStep ==
  ASSUME BindingInv, [Next]_vars,
         \/ TickLoss \/ TickOffline \/ Shutdown \/ StartAbandoned
         \/ TickPair /\ state = "IN_CONVERSATION"
  PROVE  Binding!Withdraw
<1> USE DEF deviceVars, bindingVars, credentialVars, pairingVars, retryVars,
            conversationVars, renewalVars, renewingVars, mailboxVars, outsideVars,
            networkVars, powerVars, historyVars, queueVars, callVars, savedVars
<1>1. UNCHANGED <<initialized, running, state, device_token, kv, conversations, queueVars>>
  BY DEF TickLoss, TickOffline, Shutdown, StartAbandoned, TickPair, BeginLeaving, Return,
     DropRequests, Tick, OnlineTick, ControlReady
<1>2. ~conversation_requested' /\ control' \notin {"start_call", "start_http"}
  BY DEF TickLoss, TickOffline, Shutdown, StartAbandoned, TickPair, BeginLeaving, Return,
     DropRequests, Tick, OnlineTick, ControlReady, BindingInv, RequestInv
<1>3. UNCHANGED <<BindingPower, BindingPhase>> /\ StartAsked' = FALSE
  BY <1>1, <1>2 DEF BindingPower, BindingPhase, StartAsked
<1> QED
  BY <1>1, <1>3, ToldStep DEF BindingInv, Binding!Withdraw

\* A runtime starts with the record that it finds, or without one.
LEMMA BootStep ==
  ASSUME BindingInv, [Next]_vars, BootBound \/ BootUnbound
  PROVE  Binding!Boot
<1> USE DEF deviceVars, bindingVars, credentialVars, pairingVars, retryVars,
            conversationVars, renewalVars, renewingVars, mailboxVars, outsideVars,
            networkVars, powerVars, historyVars, queueVars, callVars, savedVars
<1>1. /\ ~initialized /\ initialized' /\ running'
      /\ UNCHANGED <<control, conversation_requested, conversations, queueVars>>
  BY DEF BootBound, BootUnbound
<1>2. state = "UNPROVISIONED" /\ control = "idle" /\ ~conversation_requested
  BY <1>1 DEF BindingInv, ControlInv, ViewInv
<1>3. BindingPower = "off" /\ BindingPower' = "on" /\ BindingPhase = "unbound"
  BY <1>1, <1>2 DEF BindingPower, BindingPhase
<1>4. StartAsked = FALSE /\ StartAsked' = FALSE
  BY <1>1, <1>2 DEF StartAsked
<1>5. \/ kv # NoToken /\ BindingPhase' = "bound" /\ device_token' = kv /\ UNCHANGED kv
      \/ Binding!Discard /\ BindingPhase' = BindingPhase /\ UNCHANGED device_token
  BY <1>2, <1>3, TokenAssumption
  DEF BootBound, BootUnbound, Erase, BindingPhase, Binding!Discard
<1> QED
  BY <1>1, <1>3, <1>4, <1>5, ToldStep DEF BindingInv, Binding!Boot

\* The runtime is told to end.
LEMMA ExitStep ==
  ASSUME BindingInv, [Next]_vars, PublishExit \/ ServiceResultLost
  PROVE  Binding!Exit
<1> USE DEF deviceVars, bindingVars, credentialVars, pairingVars, retryVars,
            conversationVars, renewalVars, renewingVars, mailboxVars, outsideVars,
            networkVars, powerVars, historyVars, queueVars, callVars, savedVars
<1>1. /\ running /\ ~running'
      /\ UNCHANGED <<initialized, state, control, conversation_requested, device_token,
                     kv, conversations>>
  BY DEF PublishExit, ServiceResultLost
<1>2. initialized /\ ~SendStop
  BY <1>1 DEF BindingInv, ControlInv, SendStop
<1>3. BindingPower = "on" /\ BindingPower' = "exiting"
  BY <1>1, <1>2 DEF BindingPower
<1>4. UNCHANGED BindingPhase /\ StartAsked' = StartAsked
  BY <1>1 DEF BindingPhase, StartAsked
<1> QED
  BY <1>1, <1>2, <1>3, <1>4, ToldStep DEF BindingInv, Binding!Exit

\* The runtime has ended or lost its power: only the record is left.
LEMMA PowerOffStep ==
  ASSUME BindingInv, PowerOff \/ Crash
  PROVE  Binding!PowerOff
<1>1. initialized
  BY DEF PowerOff, Crash, BindingInv, ControlInv
<1>2. Cleared /\ UNCHANGED kv
  BY DEF PowerOff, Crash
<1>3. BindingPower # "off" /\ BindingPower' = "off" /\ BindingPhase' = "unbound"
  BY <1>1, <1>2 DEF Cleared, BindingPower, BindingPhase
<1>4. StartAsked' = FALSE /\ StopsOnTheirWay' = {}
  BY <1>2 DEF Cleared, StartAsked, StopsOnTheirWay, Outstanding
<1> QED
  BY <1>2, <1>3, <1>4 DEF Cleared, Binding!PowerOff

\* An answer that the device was claimed binds it once the store took the credential,
\* the new one or the one that the device remembers.
LEMMA ClaimStep ==
  ASSUME BindingInv, [Next]_vars, PairingBound
  PROVE  Binding!Claim \/ Binding!Deliver
<1> USE DEF deviceVars, bindingVars, credentialVars, pairingVars, retryVars,
            conversationVars, renewalVars, renewingVars, mailboxVars, outsideVars,
            networkVars, powerVars, historyVars, queueVars, callVars, savedVars
<1>1. /\ initialized /\ running /\ control = "idle" /\ state = "AWAITING_CLAIM"
      /\ UNCHANGED <<initialized, running, control, conversation_requested, conversations>>
  BY DEF PairingBound, TakeResult, ControlReady, ResultApplies
<1>2. StopsOnTheirWay' = StopsOnTheirWay
  BY PollTellsNothing DEF PairingBound, BindingInv, IsPoll, PollTypes
<1>3. /\ BindingPower = "on" /\ BindingPower' = BindingPower
      /\ BindingPhase = "unbound" /\ StartAsked = FALSE
  BY <1>1 DEF BindingPower, BindingPhase, StartAsked
<1>4. device_token' \in Tokens \cup {NoToken}
  BY DEF PairingBound, BindingInv, TypeOK, DataTypes
<1>5. CASE device_token' = NoToken
  <2>1. UNCHANGED <<device_token, kv, state>>
    BY <1>5, TokenAssumption DEF PairingBound
  <2>2. UNCHANGED BindingPhase /\ StartAsked' = FALSE
    BY <1>1, <2>1 DEF BindingPhase, StartAsked
  <2> QED
    BY <1>1, <1>2, <1>3, <2>1, <2>2 DEF Binding!Deliver
<1>6. CASE device_token' # NoToken
  <2>1. \/ kv' = device_token' /\ state' = "RUNTIME"
        \/ kv' \in {kv, device_token'} /\ UNCHANGED state
    BY <1>6 DEF PairingBound, Persist
  <2>2. ~conversation_requested
    BY <1>1 DEF BindingInv, RequestInv, PairingBound, ResultApplies, ResultIsCurrent
  <2>3. StartAsked' = StartAsked
    BY <1>1, <1>3, <2>2 DEF StartAsked
  <2>4. \/ kv' = device_token' /\ BindingPhase' = "bound"
        \/ kv' \in {kv, device_token'} /\ UNCHANGED BindingPhase
    BY <2>1 DEF BindingPhase
  <2> QED
    BY <1>1, <1>2, <1>3, <1>4, <1>6, <2>3, <2>4 DEF Binding!Claim
<1> QED
  BY <1>5, <1>6

\* The binding is lost outside a conversation: to a pairing, to a new pair code, or
\* because the service rejects the credential.
LEMMA ForgetStep ==
  ASSUME BindingInv, [Next]_vars,
         \/ TickPair /\ state # "IN_CONVERSATION"
         \/ PairCode \/ StartRejected
         \/ BindingInvalidated /\ state # "IN_CONVERSATION"
  PROVE  Binding!Forget
<1> USE DEF deviceVars, bindingVars, credentialVars, pairingVars, retryVars,
            conversationVars, renewalVars, renewingVars, mailboxVars, outsideVars,
            networkVars, powerVars, historyVars, queueVars, callVars, savedVars
<1>1. UNCHANGED <<initialized, running, conversations>> /\ device_token' = NoToken
  BY DEF TickPair, PairCode, StartRejected, BindingInvalidated, EnterPairing,
     RestartPairing, ClearDeviceAuth, Return, TakeResult
<1>2. /\ state # "IN_CONVERSATION" /\ state' \notin {"RUNTIME", "IN_CONVERSATION"}
      /\ control' \notin {"start_call", "start_http"} /\ ~SendStop
  BY DEF TickPair, PairCode, StartRejected, BindingInvalidated, EnterPairing,
     RestartPairing, SetState, Return, TakeResult, OnlineTick, Tick, ControlReady,
     BindingInv, ControlInv, Leaving, SendStop
<1>3. initialized
  BY DEF TickPair, PairCode, StartRejected, BindingInvalidated, TakeResult, OnlineTick,
     Tick, ControlReady, BindingInv, ControlInv
<1>4. Binding!Discard
  BY DEF TickPair, PairCode, StartRejected, BindingInvalidated, EnterPairing,
     RestartPairing, ClearDeviceAuth, Erase, Return, Binding!Discard
<1>5. /\ BindingPower # "off" /\ UNCHANGED BindingPower
      /\ BindingPhase \in {"unbound", "bound"} /\ BindingPhase' = "unbound"
      /\ StartAsked' = FALSE
  BY <1>1, <1>2, <1>3 DEF BindingPower, BindingPhase, StartAsked
<1>6. StopsOnTheirWay' \subseteq StopsOnTheirWay
  BY <1>2, ToldStep DEF BindingInv
<1> QED
  BY <1>1, <1>4, <1>5, <1>6 DEF Binding!Forget

\* The user asks a bound device for a conversation.
LEMMA AskStep ==
  ASSUME BindingInv, [Next]_vars, RequestStart
  PROVE  Binding!Ask
<1> USE DEF deviceVars, bindingVars, credentialVars, pairingVars, retryVars,
            conversationVars, renewalVars, renewingVars, mailboxVars, outsideVars,
            networkVars, powerVars, historyVars, queueVars, callVars, savedVars
<1>1. /\ initialized /\ running /\ state = "RUNTIME" /\ conversation_requested'
      /\ UNCHANGED <<initialized, running, state, device_token, kv, conversations, queueVars>>
  BY DEF RequestStart, ControlReady
<1>2. /\ BindingPower = "on" /\ UNCHANGED BindingPower
      /\ BindingPhase = "bound" /\ UNCHANGED BindingPhase
      /\ StartAsked' = TRUE
  BY <1>1 DEF BindingPower, BindingPhase, StartAsked
<1> QED
  BY <1>1, <1>2, ToldStep DEF BindingInv, Binding!Ask

\* The service accepts the start that the user has asked for.
LEMMA TalkBegins ==
  ASSUME BindingInv, [Next]_vars, StartAccepted
  PROVE  Binding!Talk
<1> USE DEF deviceVars, bindingVars, credentialVars, pairingVars, retryVars,
            conversationVars, renewalVars, renewingVars, mailboxVars, outsideVars,
            networkVars, powerVars, historyVars, queueVars, callVars, savedVars
<1>1. /\ control = "start_http" /\ control' = "joining" /\ state' = "IN_CONVERSATION"
      /\ conversations' = conversations + 1
      /\ UNCHANGED <<initialized, running, device_token, kv, queueVars>>
  BY DEF StartAccepted, SetState
<1>2. state = "RUNTIME"
  BY <1>1 DEF BindingInv, ControlInv
<1>3. /\ UNCHANGED BindingPower
      /\ BindingPhase = "bound" /\ BindingPhase' = "talking"
      /\ StartAsked = TRUE /\ StartAsked' = FALSE
  BY <1>1, <1>2 DEF BindingPower, BindingPhase, StartAsked
<1> QED
  BY <1>1, <1>3, ToldStep DEF BindingInv, Binding!Talk

\* A conversation that the device has left ends, alone or with the binding, and the
\* service is told with the credential that it was held with.
LEMMA EndStep ==
  ASSUME BindingInv, [Next]_vars, Finishes
  PROVE  Binding!End
<1> USE DEF deviceVars, bindingVars, credentialVars, pairingVars, retryVars,
            conversationVars, renewalVars, renewingVars, mailboxVars, outsideVars,
            networkVars, powerVars, historyVars, queueVars, callVars, savedVars
<1>1. /\ control \in Leaving /\ state = "IN_CONVERSATION" /\ ~conversation_requested
      /\ UNCHANGED <<initialized, running, conversations, conversation_requested>>
  BY DEF Finishes, FinishStop, FinishLocal, FinishPair, FinishInvalid, LeftRtc, Leaving,
     BindingInv, ControlInv, RequestInv
<1>2. control' \notin {"start_call", "start_http"}
  BY DEF Finishes, FinishStop, FinishLocal, FinishPair, FinishInvalid, EnterIdle,
     EnterPairing
<1>3. \/ state' = "RUNTIME" /\ UNCHANGED <<device_token, kv>>
      \/ /\ state' \in {"UNPROVISIONED", "PAIRING"}
         /\ device_token' = NoToken /\ Binding!Discard
  BY DEF Finishes, FinishStop, FinishLocal, FinishPair, FinishInvalid, EnterPairing,
     RestartPairing, ClearDeviceAuth, Erase, SetState, Binding!Discard
<1>4. /\ UNCHANGED BindingPower /\ BindingPhase = "talking"
      /\ StartAsked = FALSE /\ StartAsked' = FALSE
  BY <1>1, <1>2 DEF BindingPower, BindingPhase, StartAsked, Leaving
<1>5. \/ BindingPhase' = "bound" /\ UNCHANGED <<device_token, kv>>
      \/ BindingPhase' = "unbound" /\ device_token' = NoToken /\ Binding!Discard
  BY <1>3 DEF BindingPhase
<1>6. StopsOnTheirWay' \in {StopsOnTheirWay, StopsOnTheirWay \cup {Binding!Notice}}
  <2>1. CASE FinishLocal \/ FinishInvalid
    <3>1. UNCHANGED queueVars
      BY <2>1 DEF FinishLocal, FinishInvalid
    <3> QED
      BY <3>1, ToldStep DEF BindingInv
  <2>2. CASE FinishStop \/ FinishPair
    <3>1. SendStop
      BY <2>2 DEF FinishStop, FinishPair, LeftRtc, EnterIdle, EnterPairing, SendStop
    <3>2. EndNotice = Binding!Notice
      BY <3>1 DEF SendStop, EndNotice, BindingInv, TalkInv, Binding!Notice
    <3> QED
      BY <3>1, <3>2, ToldStep DEF BindingInv
  <2> QED
    BY <2>1, <2>2 DEF Finishes
<1> QED
  BY <1>1, <1>4, <1>5, <1>6 DEF Binding!End

\* A rejection of a device in conversation is first the end of that conversation: the
\* service learns no more than that its answer was taken.
LEMMA RejectedTalkStep ==
  ASSUME BindingInv, [Next]_vars, BindingInvalidated, state = "IN_CONVERSATION"
  PROVE  Binding!Deliver
<1> USE DEF deviceVars, bindingVars, credentialVars, pairingVars, retryVars,
            conversationVars, renewalVars, renewingVars, mailboxVars, outsideVars,
            networkVars, powerVars, historyVars, queueVars, callVars, savedVars
<1>1. /\ UNCHANGED <<initialized, running, state, device_token, kv, conversations>>
      /\ control = "idle" /\ control' = "leave_invalid"
  BY DEF BindingInvalidated, TakeResult, ControlReady, BeginLeaving
<1>2. /\ UNCHANGED <<BindingPower, BindingPhase>>
      /\ StartAsked = FALSE /\ StartAsked' = FALSE
  BY <1>1 DEF BindingPower, BindingPhase, StartAsked
<1>3. StopsOnTheirWay' \subseteq StopsOnTheirWay
  BY <1>1, ToldStep DEF BindingInv, SendStop
<1> QED
  BY <1>1, <1>2, <1>3 DEF Binding!Deliver

\* Every step of the lifecycle is a step of the abstract specification, or none.
LEMMA StepRefines ==
  BindingInv /\ [Next]_vars => [Binding!BindingNext]_(Binding!bindingVars)
<1> SUFFICES ASSUME BindingInv, [Next]_vars
             PROVE  Binding!BindingNext \/ UNCHANGED Binding!bindingVars
  OBVIOUS
<1> USE DEF Binding!BindingNext
<1>1. CASE BootBound \/ BootUnbound
  BY <1>1, BootStep
<1>2. CASE PublishExit \/ ServiceResultLost
  BY <1>2, ExitStep
<1>3. CASE PowerOff \/ Crash
  BY <1>3, PowerOffStep
<1>4. CASE PairingBound
  BY <1>4, ClaimStep
<1>5. CASE PairCode \/ StartRejected
  BY <1>5, ForgetStep
<1>6. CASE TickPair
  BY <1>6, ForgetStep, WithdrawStep
<1>7. CASE BindingInvalidated
  BY <1>7, ForgetStep, RejectedTalkStep
<1>8. CASE RequestStart
  BY <1>8, AskStep
<1>9. CASE TickLoss \/ TickOffline \/ Shutdown \/ StartAbandoned
  BY <1>9, WithdrawStep
<1>10. CASE StartAccepted
  BY <1>10, TalkBegins
<1>11. CASE Finishes
  BY <1>11, EndStep
<1>12. CASE \/ NetworkDown \/ NetworkDownGeneration \/ NetworkDownLoss \/ NetworkUp
            \/ (\E kind \in {"ended", "expiring"} : RtcCallback(kind))
            \/ NotifyConversationEnded \/ RequestRenewal \/ RequestPair \/ RequestStop
            \/ TickPairRetry \/ TickPairPoll \/ TickStart \/ TickDevicePoll \/ TickStop
            \/ TickRenew \/ PairUnavailable \/ PairCall \/ PairFail \/ StartCall
            \/ JoinDone \/ RenewCall \/ RenewStale \/ RenewRejected \/ RenewHopeless
            \/ RenewFail \/ Renewed \/ ServiceExecute \/ ResultWithoutEffect
            \/ PairingRefused \/ DropResult
  BY <1>12, HiddenStep
<1>13. CASE UNCHANGED vars
  <2>1. UNCHANGED <<BindingPower, BindingPhase, device_token, kv, conversations>>
        /\ StopsOnTheirWay' = StopsOnTheirWay /\ StartAsked' = StartAsked
    BY <1>13 DEF vars, deviceVars, bindingVars, credentialVars, conversationVars,
       mailboxVars, outsideVars, powerVars, historyVars, queueVars, callVars,
       BindingPower, BindingPhase, StopsOnTheirWay, Outstanding, StartAsked
  <2> QED
    BY <2>1 DEF Binding!bindingVars
<1> QED
  BY <1>1, <1>2, <1>3, <1>4, <1>5, <1>6, <1>7, <1>8, <1>9, <1>10, <1>11, <1>12, <1>13
  DEF Next, Power, Network, Rtc, User, Ticks, Calls, Service, Applied

\* The device is to its service what DeviceBinding promises, whatever is lost, refused
\* or answered late, and wherever power is lost.
THEOREM RefinesBinding == Spec => ImplementsBinding
<1>1. Init => RequestInv /\ TalkInv
  BY DEF Init, RequestInv, TalkInv, NoConversation
<1>2. Spec => []BindingInv
  BY <1>1, RequestStep, TalkStep, ViewCorrect, TypeCorrect, ControlCorrect,
     ConversationIsKnown, PTL
  DEF Spec, BindingInv
<1> QED
  BY <1>2, InitRefines, StepRefines, PTL DEF Spec, ImplementsBinding, Binding!BindingSpec

=============================================================================
