---------------------- MODULE ConversationEventsProofs ----------------------
(***************************************************************************)
(* Proofs about ConversationEvents, for every capacity of the queue, every *)
(* length of the command history, and every number of conversations and of *)
(* moves of the world around them.                                         *)
(***************************************************************************)
EXTENDS ConversationEvents, TLAPS

(* The events: raised, waiting for their generation, or ready for the queue. *)

Channels == Nat \ {NoChannel}

RaisedCommands == [step : {"sample"}, kind : {"command"}, of : Nat, channel : Nat,
                   id : CommandIds]
RaisedNotices == [step : {"sample"}, kind : {"start", "notice"}, of : Nat]

Commands == [generation : Nat, step : {"post"}, kind : {"command"}, of : Nat,
             channel : Nat, id : CommandIds]
Notices == [generation : Nat, step : {"post"}, kind : {"start", "notice"}, of : Nat]
IndicatorEvents == [step : {"post"}, kind : {"indicator"}, of : Nat, channel : Nat,
                    indicator : Indicators, on : BOOLEAN]

Raised == RaisedCommands \cup RaisedNotices
Posted == Commands \cup Notices \cup IndicatorEvents
Requests == [kind : {"request"}] \cup [kind : {"link"}, up : BOOLEAN]

(* The inductive invariants.                                               *)

\* Types, of what the workers say to each other.
EventTypes ==
  /\ state \in {"ready", "inConversation"} /\ pc \in {"idle", "leaving"}
  /\ generation \in Nat /\ conversation \in Nat /\ session \in Nat
  /\ channel \in Nat /\ joined \in Nat /\ given \in Seq(Channels)
  /\ callback \in {None} \cup Raised \cup Posted
  /\ queue \in Seq(Posted \cup Requests)

\* The RTC worker is in the conversation of the control worker or in none; it raises
\* events only in one, and leaves it between two of them.  A conversation on display is
\* going on.
SessionInv ==
  /\ session # 0 => session = conversation /\ state = "inConversation"
  /\ requested => state = "ready"
  /\ InConversation => state = "inConversation"
  /\ pc = "leaving" => state = "inConversation"
  /\ callback # None =>
       session # 0 /\ (callback.kind # "command" => callback.of = session)

\* The channel is that of the last conversation, from its beginning to its end.
ChannelInv ==
  /\ conversation = Len(given)
  /\ state = "inConversation" => conversation # 0
  /\ channel # NoChannel =>
       state = "inConversation" /\ pc = "idle" /\ channel = given[conversation]
  /\ session # 0 => joined = given[session]

\* An event that carries a generation carries none of a later conversation, and that of
\* this one only if it was raised in it.  An indicator carries the channel of the
\* conversation it was raised in.
Placed(e) ==
  /\ e.kind \in {"start", "notice"} =>
       /\ e.generation <= generation
       /\ e.generation = generation /\ channel # NoChannel => e.of = conversation
  /\ e.kind = "indicator" => e.of \in DOMAIN given /\ e.channel = given[e.of]

\* So it is with the events in the queue, and with the one on its way there.
QueueInv ==
  /\ \A n \in DOMAIN queue : Placed(queue[n])
  /\ callback \in Posted => Placed(callback)

\* The slot of the command executed d commands before the last one, when n is next.
Slot(n, d) == IF d < n THEN n - 1 - d ELSE n - 1 - d + HistorySize

\* The history holds the last commands of the conversation, in a circle.
HistoryInv ==
  /\ next \in 0 .. HistorySize - 1
  /\ DOMAIN history = 0 .. HistorySize - 1
  /\ executed \in Seq(CommandIds)
  /\ \A k \in DOMAIN executed :
       Len(executed) - k < HistorySize => history[Slot(next, Len(executed) - k)] = executed[k]

----------------------------------------------------------------------------
(* Steps of the control worker.                                            *)

\* The event the control worker takes from its queue, and what is left of it.
LEMMA Taken ==
  ASSUME EventTypes, Take
  PROVE  /\ Head(queue) \in Posted \cup Requests
         /\ queue # <<>> /\ queue' = Tail(queue) /\ queue' \in Seq(Posted \cup Requests)
         /\ Len(queue) \in Nat \ {0} /\ Head(queue) = queue[1]
         /\ DOMAIN queue = 1 .. Len(queue) /\ DOMAIN queue' = 1 .. Len(queue) - 1
         /\ \A n \in 1 .. Len(queue) - 1 : queue'[n] = queue[n + 1]
         /\ Head(queue).kind = "command" => Head(queue).id \in CommandIds
         /\ Head(queue).kind \in
           {"request", "link", "indicator", "command", "start", "notice"}
<1>1. queue \in Seq(Posted \cup Requests) /\ queue # <<>> /\ queue' = Tail(queue)
  BY DEF EventTypes, Take
<1>2. Head(queue) \in Posted \cup Requests
  BY <1>1
<1>3. /\ Head(queue).kind = "command" => Head(queue).id \in CommandIds
      /\ Head(queue).kind \in
           {"request", "link", "indicator", "command", "start", "notice"}
  BY <1>2 DEF Posted, Commands, Notices, IndicatorEvents, Requests
<1> QED
  BY <1>1, <1>2, <1>3

\* An event that gets its generation is ready for the queue.
LEMMA SampledIsPosted ==
  ASSUME EventTypes, Sample
  PROVE  /\ callback # None /\ callback' \in {None} \cup Posted
         /\ callback' # None => callback'.kind = callback.kind /\ callback'.of = callback.of
<1>1. callback \in Raised /\ callback # None /\ generation \in Nat
  BY DEF EventTypes, Sample, None, Raised, Posted, RaisedCommands, RaisedNotices,
     Commands, Notices, IndicatorEvents
<1>2. CASE callback \in RaisedCommands
  BY <1>1, <1>2 DEF Sample, RaisedCommands, Commands, Posted, None
<1>3. CASE callback \in RaisedNotices
  BY <1>1, <1>3 DEF Sample, RaisedNotices, Notices, Posted, None
<1> QED
  BY <1>1, <1>2, <1>3 DEF Raised

\* An event that is not accepted leaves everything but the queue alone; the others are
\* handled by kind.
LEMMA TakeCases ==
  ASSUME Take
  PROVE  \/ Head(queue).kind = "request" /\ Request
         \/ Head(queue).kind = "link" /\ LinkReported(Head(queue))
         \/ /\ Head(queue).kind = "indicator" /\ Accepts(Head(queue))
            /\ ShowIndicator(Head(queue))
         \/ Head(queue).kind = "command" /\ Accepts(Head(queue)) /\ Execute(Head(queue))
         \/ Head(queue).kind = "start" /\ Accepts(Head(queue)) /\ VideoStart(Head(queue))
         \/ Head(queue).kind = "notice" /\ Accepts(Head(queue)) /\ VideoNotice(Head(queue))
         \/ UNCHANGED <<control, stopRequest, published, shown, rtc, ghost, moves>>
BY DEF Take, Handle

\* A request that is served begins a conversation, on a channel, or comes to nothing.
LEMMA ServeCases ==
  ASSUME EventTypes, ServeRequest
  PROVE  \/ \E ch \in Channels : StartConversation(ch)
         \/ UNCHANGED <<state, generation, channel, history, next, conversation,
                        stopRequest, device, shown, session, joined, ghost>>
<1>1. \A i \in DOMAIN given : given[i] \in Channels
  BY DEF EventTypes
<1> QED
  BY <1>1 DEF ServeRequest, EventTypes, Channels, NoChannel

----------------------------------------------------------------------------
(* Types.                                                                  *)

\* Every action preserves EventTypes.
LEMMA EventTypesStep == EventTypes /\ [Next]_vars => EventTypes'
<1> SUFFICES ASSUME EventTypes, [Next]_vars PROVE EventTypes'
  OBVIOUS
<1> USE DEF control, outside, published, shown, rtc, ghost
<1>1. CASE RaiseIndicator
  BY <1>1 DEF RaiseIndicator, Raise, EventTypes, None, Raised, Posted, RaisedCommands,
     RaisedNotices, Commands, Notices, IndicatorEvents
<1>2. CASE RaiseCommand
  BY <1>2 DEF RaiseCommand, Raise, EventTypes, NoChannel, None, Raised, Posted,
     RaisedCommands,
     RaisedNotices, Commands, Notices, IndicatorEvents
<1>3. CASE RaiseVideoNotice
  BY <1>3 DEF RaiseVideoNotice, Raise, EventTypes, None, Raised, Posted,
     RaisedCommands, RaisedNotices, Commands, Notices, IndicatorEvents
<1>4. CASE Connects
  BY <1>4 DEF Connects, Raise, EventTypes, None, Raised, Posted, RaisedCommands,
     RaisedNotices, Commands, Notices, IndicatorEvents
<1>5. CASE \/ Loses \/ RtmEnds \/ RequestStop \/ \E t \in Askers : Ask(t)
  BY <1>5 DEF Loses, RtmEnds, RequestStop, Ask, EventTypes
<1>6. CASE Sample
  BY <1>6, SampledIsPosted DEF Sample, EventTypes
<1>7. CASE Post
  BY <1>7 DEF Post, EventTypes, None, Raised, Posted, RaisedCommands, RaisedNotices,
     Commands, Notices, IndicatorEvents
<1>8. CASE HearOfLink \/ \E t \in Askers : PostRequest(t)
  <2>1. CASE HearOfLink
    <3>1. [kind |-> "link", up |-> ~linkUp] \in Requests
      BY DEF Requests
    <3> QED
      BY <2>1, <3>1 DEF HearOfLink, EventTypes
  <2>2. CASE \E t \in Askers : PostRequest(t)
    BY <2>2 DEF PostRequest, EventTypes, Requests
  <2> QED
    BY <1>8, <2>1, <2>2
<1>9. CASE Take
  <2>1. CASE Head(queue).kind = "request" /\ Request
    BY <1>9, <2>1, Taken DEF Take, Request, EventTypes, Requests
  <2>7. CASE Head(queue).kind = "link" /\ LinkReported(Head(queue))
    BY <1>9, <2>7, Taken DEF Take, LinkReported, EventTypes, Requests
  <2>2. CASE Head(queue).kind = "indicator" /\ Accepts(Head(queue))
              /\ ShowIndicator(Head(queue))
    BY <1>9, <2>2, Taken DEF Take, ShowIndicator, TakesEffect, Accepts, InConversation,
       EventTypes, Requests
  <2>3. CASE Head(queue).kind = "command" /\ Accepts(Head(queue))
              /\ Execute(Head(queue))
    BY <1>9, <2>3, Taken DEF Take, Execute, TakesEffect, Accepts, InConversation,
       EventTypes, Requests
  <2>4. CASE Head(queue).kind = "start" /\ Accepts(Head(queue))
              /\ VideoStart(Head(queue))
    BY <1>9, <2>4, Taken DEF Take, VideoStart, TakesEffect, Accepts, InConversation,
       EventTypes, Requests
  <2>5. CASE Head(queue).kind = "notice" /\ Accepts(Head(queue))
              /\ VideoNotice(Head(queue))
    BY <1>9, <2>5, Taken DEF Take, VideoNotice, TakesEffect, Accepts, InConversation,
       EventTypes, Requests
  <2>6. CASE UNCHANGED <<control, stopRequest, published, shown, rtc, ghost, moves>>
    BY <1>9, <2>6, Taken DEF Take, EventTypes, Requests
  <2> QED
    BY <1>9, <2>1, <2>2, <2>3, <2>4, <2>5, <2>6, <2>7, TakeCases
<1>10. CASE StopConversation
  BY <1>10 DEF StopConversation, VideoStop, EventTypes, NoChannel
<1>11. CASE ConversationLeft
  BY <1>11 DEF ConversationLeft, Leave, EventTypes, NoChannel
<1>12. CASE ServeRequest
  <2>0. UNCHANGED <<pc, queue, callback>>
    BY <1>12 DEF ServeRequest
  <2>1. ASSUME NEW ch \in Channels, StartConversation(ch)
        PROVE  EventTypes'
    <3>1. /\ state' = "inConversation" /\ conversation' = conversation + 1
          /\ given' = Append(given, ch) /\ ch \in Nat
          /\ generation' \in {generation, generation + 1} /\ channel' \in {channel, ch}
          /\ session' \in {session, conversation + 1} /\ joined' \in {joined, ch}
      BY <2>1 DEF StartConversation, Channels
    <3>2. given' \in Seq(Channels)
      BY <3>1 DEF EventTypes
    <3> QED
      BY <2>0, <3>1, <3>2 DEF EventTypes
  <2>2. CASE UNCHANGED <<state, generation, channel, conversation, session, joined, given>>
    BY <2>0, <2>2 DEF EventTypes
  <2> QED
    BY <1>12, <2>1, <2>2, ServeCases
<1>13. CASE UNCHANGED vars
  BY <1>13 DEF vars, EventTypes
<1> QED
  BY <1>1, <1>2, <1>3, <1>4, <1>5, <1>6, <1>7, <1>8, <1>9, <1>10, <1>11, <1>12, <1>13
  DEF Next, RtcWorker, ControlWorker

\* The events keep their shape from the callback to the control worker.
THEOREM EventTypesCorrect == Spec => []EventTypes
<1>1. Init => EventTypes
  BY DEF Init, EventTypes, NoChannel
<1> QED
  BY <1>1, EventTypesStep, PTL DEF Spec

----------------------------------------------------------------------------
(* The conversation an event belongs to.                                   *)

\* Every action preserves SessionInv.
LEMMA SessionStep == EventTypes /\ SessionInv /\ [Next]_vars => SessionInv'
<1> SUFFICES ASSUME EventTypes, SessionInv, [Next]_vars PROVE SessionInv'
  OBVIOUS
<1> USE DEF control, outside, published, shown, rtc, ghost
<1>1. CASE RaiseIndicator
  BY <1>1 DEF RaiseIndicator, Raise, SessionInv, EventTypes, InConversation, AppState
<1>2. CASE RaiseCommand
  BY <1>2 DEF RaiseCommand, Raise, SessionInv, EventTypes, InConversation, AppState
<1>3. CASE \/ RaiseVideoNotice \/ Connects
  BY <1>3 DEF RaiseVideoNotice, Connects, Raise, SessionInv, EventTypes, InConversation,
     AppState
<1>4. CASE \/ Loses \/ RtmEnds \/ RequestStop \/ HearOfLink
           \/ \E t \in Askers : Ask(t) \/ PostRequest(t)
  <2>1. CASE Loses \/ RtmEnds \/ RequestStop \/ \E t \in Askers : Ask(t)
    <3>1. UNCHANGED <<session, conversation, state, requested, pc, callback, online, device,
                      running>>
      BY <2>1 DEF Loses, RtmEnds, RequestStop, Ask
    <3> QED
      BY <3>1 DEF SessionInv, InConversation, AppState
  <2>2. CASE HearOfLink \/ \E t \in Askers : PostRequest(t)
    <3>1. /\ UNCHANGED <<session, conversation, state, requested, pc, callback, published>>
          /\ running' => running
      BY <2>2 DEF HearOfLink, PostRequest
    <3> QED
      BY <3>1 DEF SessionInv, InConversation, AppState
  <2> QED
    BY <1>4, <2>1, <2>2
<1>5. CASE Sample
  BY <1>5, SampledIsPosted DEF Sample, SessionInv, InConversation, AppState
<1>6. CASE Post
  BY <1>6 DEF Post, SessionInv, InConversation, AppState
<1>7. CASE Take
  <2>1. CASE Head(queue).kind = "request" /\ Request
    BY <1>7, <2>1 DEF Take, Request, SessionInv, InConversation, AppState
  <2>2. CASE UNCHANGED <<running, session, conversation, state, requested, pc, callback,
                         published>>
    BY <2>2 DEF SessionInv, InConversation, AppState
  <2>3. CASE Head(queue).kind = "link" /\ LinkReported(Head(queue))
    BY <2>3 DEF LinkReported, SessionInv, InConversation, AppState
  <2> QED
    BY <1>7, <2>1, <2>2, <2>3, TakeCases DEF ShowIndicator, Execute, VideoStart, VideoNotice
<1>8. CASE ServeRequest
  <2>1. /\ pc = "idle" /\ state = "ready" /\ session = 0 /\ callback = None
        /\ requested' = FALSE /\ UNCHANGED <<running, pc, callback, online>>
    BY <1>8 DEF ServeRequest, SessionInv
  <2>2. CASE \E ch \in Channels : StartConversation(ch)
    BY <2>1, <2>2 DEF StartConversation, SessionInv
  <2>3. CASE UNCHANGED <<state, conversation, session, device>>
    BY <2>1, <2>3 DEF SessionInv, InConversation, AppState
  <2> QED
    BY <1>8, <2>2, <2>3, ServeCases
<1>9. CASE \/ StopConversation \/ ConversationLeft
  BY <1>9 DEF StopConversation, ConversationLeft, VideoStop, Leave, SessionInv,
     InConversation, AppState
<1>10. CASE UNCHANGED vars
  BY <1>10 DEF vars, SessionInv, InConversation, AppState
<1> QED
  BY <1>1, <1>2, <1>3, <1>4, <1>5, <1>6, <1>7, <1>8, <1>9, <1>10
  DEF Next, RtcWorker, ControlWorker

\* Every action preserves ChannelInv.
LEMMA ChannelStep ==
  EventTypes /\ SessionInv /\ ChannelInv /\ [Next]_vars => ChannelInv'
<1> SUFFICES ASSUME EventTypes, SessionInv, ChannelInv, [Next]_vars PROVE ChannelInv'
  OBVIOUS
<1> USE DEF control, outside, published, shown, rtc, ghost
<1>1. CASE ServeRequest
  <2>1. /\ pc = "idle" /\ state = "ready" /\ session = 0 /\ channel = NoChannel
        /\ conversation = Len(given) /\ UNCHANGED pc
    BY <1>1 DEF ServeRequest, SessionInv, ChannelInv
  <2>2. ASSUME NEW ch \in Channels, StartConversation(ch)
        PROVE  ChannelInv'
    <3>1. /\ given' = Append(given, ch) /\ given \in Seq(Channels)
          /\ conversation' = conversation + 1 /\ conversation \in Nat
          /\ state' = "inConversation"
      BY <2>2 DEF StartConversation, EventTypes
    <3>2. /\ Len(given') = conversation' /\ given'[conversation'] = ch
          /\ conversation' # 0
      BY <2>1, <3>1
    <3>3. channel' # NoChannel => channel' = ch
      BY <2>1, <2>2 DEF StartConversation
    <3>4. session' # 0 => session' = conversation' /\ joined' = ch
      BY <2>1, <2>2 DEF StartConversation
    <3> QED
      BY <2>1, <3>1, <3>2, <3>3, <3>4 DEF ChannelInv
  <2>3. CASE UNCHANGED <<state, conversation, channel, session, joined, given>>
    BY <2>1, <2>3 DEF ChannelInv
  <2> QED
    BY <1>1, <2>2, <2>3, ServeCases
<1>2. CASE \/ StopConversation \/ ConversationLeft
  BY <1>2 DEF StopConversation, ConversationLeft, VideoStop, Leave, ChannelInv
<1>3. CASE UNCHANGED <<state, pc, conversation, channel, session, joined, given>>
  BY <1>3 DEF ChannelInv
<1>4. CASE Take
  BY <1>3, <1>4, TakeCases
  DEF Request, LinkReported, ShowIndicator, Execute, VideoStart, VideoNotice
<1>5. CASE \/ RtcWorker \/ RequestStop \/ HearOfLink
           \/ \E t \in Askers : Ask(t) \/ PostRequest(t)
  BY <1>3, <1>5 DEF RtcWorker, RaiseIndicator, RaiseCommand, RaiseVideoNotice, Connects,
     Loses, RtmEnds, Sample, Post, RequestStop, Ask, PostRequest, HearOfLink, Raise
<1>6. CASE UNCHANGED vars
  BY <1>3, <1>6 DEF vars
<1> QED
  BY <1>1, <1>2, <1>4, <1>5, <1>6 DEF Next, ControlWorker

\* What has an event placed goes on to have it placed when a conversation ends, and when
\* another begins: the one leaves no channel, the other comes with a new generation.
LEMMA PlacedStays ==
  ASSUME EventTypes,
         generation' \in Nat, generation <= generation',
         given' = given \/ \E ch \in Channels : given' = Append(given, ch),
         generation' = generation /\ channel' # NoChannel
           => UNCHANGED <<channel, conversation>>
  PROVE  \A e \in Posted \cup Requests : Placed(e) => Placed(e)'
<1> SUFFICES ASSUME NEW e \in Posted \cup Requests, Placed(e) PROVE Placed(e)'
  OBVIOUS
<1>1. e.kind \in {"start", "notice"} => e.generation \in Nat
  BY DEF Posted, Commands, Notices, IndicatorEvents, Requests
<1>2. ASSUME e.kind \in {"start", "notice"}
      PROVE  /\ e.generation <= generation'
             /\ e.generation = generation' /\ channel' # NoChannel => e.of = conversation'
  <2>1. e.generation <= generation /\ e.generation \in Nat /\ generation \in Nat
    BY <1>1, <1>2 DEF Placed, EventTypes
  <2>2. e.generation <= generation'
    BY <2>1
  <2>3. ASSUME e.generation = generation', channel' # NoChannel
        PROVE  e.of = conversation'
    <3>1. generation' = generation
      BY <2>1, <2>3
    <3>2. channel' = channel /\ conversation' = conversation
      BY <2>3, <3>1
    <3> QED
      BY <1>2, <2>3, <3>1, <3>2 DEF Placed
  <2> QED
    BY <2>2, <2>3
<1>3. ASSUME e.kind = "indicator"
      PROVE  e.of \in DOMAIN given' /\ e.channel = given'[e.of]
  <2>1. e.of \in DOMAIN given /\ e.channel = given[e.of] /\ given \in Seq(Channels)
    BY <1>3 DEF Placed, EventTypes
  <2> QED
    BY <2>1
<1> QED
  BY <1>2, <1>3 DEF Placed

\* Every action preserves QueueInv.
LEMMA QueueStep ==
  EventTypes /\ SessionInv /\ ChannelInv /\ QueueInv /\ [Next]_vars => QueueInv'
<1> SUFFICES ASSUME EventTypes, SessionInv, ChannelInv, QueueInv, [Next]_vars
             PROVE  QueueInv'
  OBVIOUS
<1> queue \in Seq(Posted \cup Requests)
  BY DEF EventTypes
<1>a. \A n \in DOMAIN queue : queue[n] \in Posted \cup Requests
  OBVIOUS
<1> USE DEF control, outside, published, shown, rtc, ghost
\* While generation, channel and conversations stay, so does an event's place.
<1>b. ASSUME UNCHANGED <<generation, channel, conversation, given>>
      PROVE  \A e \in Posted \cup Requests : Placed(e) => Placed(e)'
  BY <1>b DEF Placed
<1>1. CASE UNCHANGED <<generation, channel, conversation, given, queue, callback>>
  BY <1>1, <1>a, <1>b DEF QueueInv
<1>2. CASE RaiseIndicator
  <2>1. /\ UNCHANGED <<generation, channel, conversation, given, queue>>
        /\ session # 0 /\ callback'.kind = "indicator" /\ callback'.of = session
        /\ callback'.channel = joined
    BY <1>2 DEF RaiseIndicator, Raise
  <2>2. session \in DOMAIN given /\ joined = given[session]
    BY <2>1 DEF SessionInv, ChannelInv, EventTypes
  <2>3. Placed(callback)'
    BY <2>1, <2>2 DEF Placed
  <2> QED
    BY <1>a, <1>b, <2>1, <2>3 DEF QueueInv
<1>3. CASE RaiseCommand \/ RaiseVideoNotice \/ Connects
  <2>1. UNCHANGED <<generation, channel, conversation, given, queue>>
    BY <1>3 DEF RaiseCommand, RaiseVideoNotice, Connects, Raise
  <2>2. callback' \notin Posted
    BY <1>3 DEF RaiseCommand, RaiseVideoNotice, Connects, Raise, Posted, Commands, Notices,
       IndicatorEvents
  <2> QED
    BY <1>a, <1>b, <2>1, <2>2 DEF QueueInv
<1>4. CASE Sample
  <2>1. /\ UNCHANGED <<generation, channel, conversation, given, queue>>
        /\ callback \in Raised
    BY <1>4 DEF Sample, EventTypes, None, Raised, Posted, RaisedCommands, RaisedNotices,
       Commands, Notices, IndicatorEvents
  <2>2. ASSUME callback' \in Posted
        PROVE  Placed(callback)'
    <3>1. /\ callback'.kind = callback.kind /\ callback'.of = callback.of
          /\ callback'.generation = generation
      BY <1>4, <2>1, <2>2 DEF Sample, Raised, RaisedCommands, RaisedNotices, Posted,
         Commands, Notices, IndicatorEvents, None
    <3>2. /\ callback.kind # "indicator"
          /\ callback.kind # "command" => callback.of = conversation
      BY <2>1 DEF Raised, RaisedCommands, RaisedNotices, None, SessionInv
    <3> QED
      BY <2>1, <3>1, <3>2 DEF Placed, EventTypes
  <2> QED
    BY <1>a, <1>b, <2>1, <2>2 DEF QueueInv
<1>5. CASE Post
  <2>1. /\ UNCHANGED <<generation, channel, conversation, given>>
        /\ queue' = queue \/ queue' = Append(queue, callback)
        /\ callback' = None
    BY <1>5 DEF Post
  <2>2. callback \in Posted /\ None \notin Posted
    BY <1>5 DEF Post, EventTypes, None, Raised, RaisedCommands, RaisedNotices, Posted,
       Commands, Notices, IndicatorEvents
  <2>3. Placed(callback)
    BY <2>2 DEF QueueInv
  <2>4. \A n \in DOMAIN queue' : /\ queue'[n] \in Posted \cup Requests
                                 /\ Placed(queue'[n])
    BY <1>a, <2>1, <2>2, <2>3 DEF QueueInv
  <2> QED
    BY <1>b, <2>1, <2>2, <2>4 DEF QueueInv
<1>6. CASE HearOfLink \/ \E t \in Askers : PostRequest(t)
  <2>1. /\ UNCHANGED <<generation, channel, conversation, given, callback>>
        /\ queue' = queue \/ \E e \in Requests : queue' = Append(queue, e)
    <3>1. {[kind |-> "request"], [kind |-> "link", up |-> ~linkUp]} \subseteq Requests
      BY DEF Requests
    <3> QED
      BY <1>6, <3>1 DEF PostRequest, HearOfLink
  <2>2. \A e \in Requests : Placed(e)
    BY DEF Placed, Requests
  <2>3. \A n \in DOMAIN queue' : /\ queue'[n] \in Posted \cup Requests
                                 /\ Placed(queue'[n])
    BY <1>a, <2>1, <2>2 DEF QueueInv
  <2> QED
    BY <1>b, <2>1, <2>3 DEF QueueInv
<1>7. CASE Take
  <2>1. UNCHANGED <<generation, channel, conversation, given, callback>>
    BY <1>7, TakeCases
    DEF Request, LinkReported, ShowIndicator, Execute, VideoStart, VideoNotice
  <2>2. \A n \in DOMAIN queue' : \E m \in DOMAIN queue : queue'[n] = queue[m]
    BY <1>7, Taken
  <2> QED
    BY <1>a, <1>b, <2>1, <2>2 DEF QueueInv
<1>8. CASE ServeRequest
  <2>1. UNCHANGED <<queue, callback>> /\ channel = NoChannel
    BY <1>8 DEF ServeRequest, ChannelInv
  <2>2. CASE \E ch \in Channels : StartConversation(ch)
    <3>1. /\ generation' \in Nat /\ generation <= generation'
          /\ \E ch \in Channels : given' = Append(given, ch)
          /\ generation' = generation => channel' = channel
      BY <2>2 DEF StartConversation, EventTypes
    <3>2. \A e \in Posted \cup Requests : Placed(e) => Placed(e)'
      BY <2>1, <3>1, PlacedStays
    <3> QED
      BY <1>a, <2>1, <3>2 DEF QueueInv
  <2>3. CASE UNCHANGED <<generation, channel, conversation, given>>
    BY <1>1, <2>1, <2>3
  <2> QED
    BY <1>8, <2>2, <2>3, ServeCases
<1>9. CASE StopConversation
  <2>1. /\ UNCHANGED <<queue, callback, given>> /\ channel' = NoChannel
        /\ generation' = generation + 1 /\ generation \in Nat
    BY <1>9 DEF StopConversation, VideoStop, EventTypes
  <2>2. \A e \in Posted \cup Requests : Placed(e) => Placed(e)'
    BY <2>1, PlacedStays
  <2> QED
    BY <1>a, <2>1, <2>2 DEF QueueInv
<1>10. CASE \/ Loses \/ RtmEnds \/ RequestStop \/ ConversationLeft
            \/ \E t \in Askers : Ask(t)
  BY <1>1, <1>10 DEF Loses, RtmEnds, RequestStop, ConversationLeft, Leave, Ask
<1>11. CASE UNCHANGED vars
  BY <1>1, <1>11 DEF vars
<1> QED
  BY <1>2, <1>3, <1>4, <1>5, <1>6, <1>7, <1>8, <1>9, <1>10, <1>11
  DEF Next, RtcWorker, ControlWorker

\* What takes effect is of this conversation, or an indicator of one that had the same
\* channel.
LEMMA TakesEffectCurrent ==
  ASSUME EventTypes, SessionInv, ChannelInv, QueueInv, EffectsAreCurrent, Take,
         Head(queue).kind \notin {"request", "link"}, Accepts(Head(queue)),
         TakesEffect(Head(queue)),
         UNCHANGED given
  PROVE  misplaced' \subseteq (IF DistinctChannels' THEN {} ELSE {"indicator"})
<1> DEFINE e == Head(queue)
<1>1. Placed(e) /\ InConversation
  BY Taken DEF QueueInv, Accepts
<1>2. /\ misplaced' = misplaced \cup {k \in {e.kind} : e.of # conversation}
      /\ DistinctChannels' = DistinctChannels
  BY DEF TakesEffect, DistinctChannels
<1>3. CASE e.of = conversation
  BY <1>2, <1>3 DEF EffectsAreCurrent
<1>4. CASE e.of # conversation
  <2>1. e.kind = "indicator" /\ e.channel = channel
    <3>1. e.kind # "command"
      BY <1>4 DEF Accepts, AcceptsCommand
    <3>2. e.kind \in {"indicator", "start", "notice"}
      BY <3>1, Taken
    <3>3. ~(e.kind \in {"start", "notice"})
      <4> SUFFICES ASSUME e.kind \in {"start", "notice"} PROVE FALSE
        OBVIOUS
      <4>1. e.generation = generation /\ channel # NoChannel
        BY DEF Accepts, AcceptsCommand, AcceptsVideo
      <4> QED
        BY <1>1, <1>4, <4>1 DEF Placed
    <3> QED
      BY <3>2, <3>3 DEF Accepts, AcceptsIndicator
  <2>2. /\ e.of \in DOMAIN given /\ e.channel = given[e.of] /\ e.channel # NoChannel
    BY <1>1, <2>1 DEF Placed, EventTypes, Channels
  <2>3. conversation \in DOMAIN given /\ given[conversation] = given[e.of]
    BY <1>1, <2>1, <2>2 DEF SessionInv, ChannelInv, InConversation, EventTypes, Channels
  <2>4. ~DistinctChannels
    BY <1>4, <2>2, <2>3 DEF DistinctChannels
  <2> QED
    BY <1>2, <2>1, <2>4 DEF EffectsAreCurrent
<1> QED
  BY <1>3, <1>4

\* Every action preserves EffectsAreCurrent.
LEMMA EffectsStep ==
  EventTypes /\ SessionInv /\ ChannelInv /\ QueueInv /\ EffectsAreCurrent /\ [Next]_vars
    => EffectsAreCurrent'
<1> SUFFICES ASSUME EventTypes, SessionInv, ChannelInv, QueueInv, EffectsAreCurrent,
                    [Next]_vars
             PROVE  EffectsAreCurrent'
  OBVIOUS
<1> USE DEF control, outside, published, shown, rtc, ghost
<1> SUFFICES /\ misplaced' \subseteq (IF DistinctChannels' THEN {} ELSE {"indicator"})
             /\ indicators' # {} \/ active' => state' = "inConversation" /\ pc' = "idle"
  BY DEF EffectsAreCurrent
<1>1. CASE \/ RtcWorker \/ RequestStop \/ HearOfLink
           \/ \E t \in Askers : Ask(t) \/ PostRequest(t)
  <2>1. UNCHANGED <<given, misplaced, indicators, active, state, pc>>
    BY <1>1 DEF RtcWorker, RaiseIndicator, RaiseCommand, RaiseVideoNotice, Connects, Loses,
       RtmEnds, Sample, Post, RequestStop, Ask, PostRequest, HearOfLink, Raise
  <2> QED
    BY <2>1 DEF EffectsAreCurrent, DistinctChannels
<1>2. CASE Take
  <2>1. CASE \/ Head(queue).kind = "request" /\ Request
             \/ Head(queue).kind = "link" /\ LinkReported(Head(queue))
             \/ UNCHANGED <<control, stopRequest, published, shown, rtc, ghost, moves>>
    <3>1. UNCHANGED <<given, misplaced, indicators, active, state, pc>>
      BY <2>1 DEF Request, LinkReported
    <3> QED
      BY <3>1 DEF EffectsAreCurrent, DistinctChannels
  <2>2. CASE /\ Head(queue).kind \notin {"request", "link"} /\ Accepts(Head(queue))
             /\ \/ ShowIndicator(Head(queue)) \/ Execute(Head(queue))
                \/ VideoNotice(Head(queue))
    <3>1. /\ TakesEffect(Head(queue)) /\ UNCHANGED <<given, state, pc>>
          /\ state = "inConversation" /\ pc = "idle"
      BY <1>2, <2>2 DEF ShowIndicator, Execute, VideoNotice, Accepts, SessionInv, Take
    <3> QED
      BY <1>2, <2>2, <3>1, TakesEffectCurrent
  <2>3. CASE /\ Head(queue).kind \notin {"request", "link"} /\ Accepts(Head(queue))
             /\ VideoStart(Head(queue))
    <3>1. /\ UNCHANGED <<given, state, pc>> /\ state = "inConversation" /\ pc = "idle"
          /\ misplaced' = misplaced \/ TakesEffect(Head(queue))
      BY <1>2, <2>3 DEF VideoStart, Accepts, SessionInv, Take
    <3>2. DistinctChannels' = DistinctChannels
      BY <3>1 DEF DistinctChannels
    <3> QED
      BY <1>2, <2>3, <3>1, <3>2, TakesEffectCurrent DEF EffectsAreCurrent
  <2> QED
    BY <1>2, <2>1, <2>2, <2>3, TakeCases
<1>3. CASE ServeRequest
  <2>1. /\ state = "ready" /\ UNCHANGED <<pc, active, misplaced>>
        /\ indicators = {} /\ ~active /\ pc = "idle"
    <3>1. state = "ready" /\ pc = "idle" /\ UNCHANGED <<pc, active, misplaced>>
      BY <1>3, ServeCases DEF ServeRequest, StartConversation
    <3> QED
      BY <3>1 DEF EffectsAreCurrent
  <2>2. indicators' = {}
    BY <1>3, <2>1, ServeCases DEF StartConversation
  <2>3. DistinctChannels' => DistinctChannels
    <3>1. CASE \E ch \in Channels : given' = Append(given, ch)
      BY <3>1 DEF DistinctChannels, EventTypes
    <3>2. CASE given' = given
      BY <3>2 DEF DistinctChannels
    <3> QED
      BY <1>3, <3>1, <3>2, ServeCases DEF StartConversation
  <2> QED
    BY <2>1, <2>2, <2>3 DEF EffectsAreCurrent
<1>4. CASE StopConversation
  <2>1. UNCHANGED <<given, misplaced>> /\ indicators' = {} /\ active' = FALSE
    BY <1>4 DEF StopConversation, VideoStop
  <2> QED
    BY <2>1 DEF EffectsAreCurrent, DistinctChannels
<1>5. CASE ConversationLeft
  <2>1. UNCHANGED <<given, misplaced, indicators, active>> /\ pc = "leaving"
    BY <1>5 DEF ConversationLeft
  <2> QED
    BY <2>1 DEF EffectsAreCurrent, DistinctChannels
<1>6. CASE UNCHANGED vars
  BY <1>6 DEF vars, EffectsAreCurrent, DistinctChannels
<1> QED
  BY <1>1, <1>2, <1>3, <1>4, <1>5, <1>6
  DEF Next, ControlWorker

\* What takes effect was raised in the conversation it touches, for every number of
\* conversations and every capacity of the queue; an indicator, while no two
\* conversations have one channel name.
THEOREM EffectsCurrent == Spec => []EffectsAreCurrent
<1> DEFINE IInv == SessionInv /\ ChannelInv /\ QueueInv /\ EffectsAreCurrent
<1>1. Init => IInv
  <2> SUFFICES ASSUME Init PROVE IInv
    OBVIOUS
  <2>1. SessionInv /\ ChannelInv
    BY DEF Init, SessionInv, ChannelInv, InConversation, AppState
  <2>2. QueueInv
    BY DEF Init, QueueInv, None, Posted, Commands, Notices, IndicatorEvents
  <2>3. EffectsAreCurrent
    BY DEF Init, EffectsAreCurrent
  <2> QED
    BY <2>1, <2>2, <2>3
<1>2. EventTypes /\ IInv /\ [Next]_vars => IInv'
  BY SessionStep, ChannelStep, QueueStep, EffectsStep
<1>3. IInv => EffectsAreCurrent
  OBVIOUS
<1> HIDE DEF IInv
<1> QED
  BY <1>1, <1>2, <1>3, EventTypesCorrect, PTL DEF Spec

----------------------------------------------------------------------------
(* The history of commands.                                                *)

\* The next slot goes round in the history.
LEMMA AdvanceRound ==
  ASSUME NEW n \in 0 .. HistorySize - 1
  PROVE  Advance(n) = IF n + 1 = HistorySize THEN 0 ELSE n + 1
BY HistoryAssumption DEF Advance

\* A command remembered in the next slot pushes the others one back; only the oldest
\* is lost.
LEMMA ExecuteRemembers ==
  ASSUME HistoryInv, NEW id \in CommandIds,
         history' = [history EXCEPT ![next] = id], next' = Advance(next),
         executed' = Append(executed, id)
  PROVE  HistoryInv'
<1>1. /\ HistorySize \in Nat \ {0} /\ next \in 0 .. HistorySize - 1
      /\ next' = IF next + 1 = HistorySize THEN 0 ELSE next + 1
  BY HistoryAssumption, AdvanceRound DEF HistoryInv
<1>2. /\ Len(executed) \in Nat /\ DOMAIN executed = 1 .. Len(executed)
      /\ executed' \in Seq(CommandIds) /\ Len(executed') = Len(executed) + 1
      /\ DOMAIN executed' = 1 .. Len(executed) + 1
      /\ \A k \in 1 .. Len(executed) : executed'[k] = executed[k]
      /\ executed'[Len(executed) + 1] = id
  BY DEF HistoryInv
<1>3. /\ DOMAIN history' = 0 .. HistorySize - 1
      /\ history'[next] = id
      /\ \A i \in 0 .. HistorySize - 1 : i # next => history'[i] = history[i]
  BY <1>1 DEF HistoryInv
<1>4. ASSUME NEW k \in 1 .. Len(executed) + 1, Len(executed) + 1 - k < HistorySize
      PROVE  history'[Slot(next', Len(executed) + 1 - k)] = executed'[k]
  <2>1. CASE k = Len(executed) + 1
    <3>1. Slot(next', 0) = next
      BY <1>1 DEF Slot
    <3> QED
      BY <1>2, <1>3, <2>1, <3>1
  <2>2. CASE k \in 1 .. Len(executed)
    <3> DEFINE d == Len(executed) - k
    <3>1. d \in 0 .. HistorySize - 2 /\ Len(executed) + 1 - k = d + 1
      BY <1>1, <1>2, <1>4, <2>2
    <3>2. history[Slot(next, d)] = executed[k]
      BY <1>1, <1>2, <1>4, <2>2 DEF HistoryInv
    <3> HIDE DEF d
    <3>3. /\ Slot(next', d + 1) = Slot(next, d)
          /\ Slot(next, d) \in 0 .. HistorySize - 1 /\ Slot(next, d) # next
      BY <1>1, <3>1 DEF Slot
    <3> QED
      BY <1>2, <1>3, <2>2, <3>1, <3>2, <3>3
  <2> QED
    BY <1>2, <2>1, <2>2
<1> QED
  BY <1>1, <1>2, <1>3, <1>4 DEF HistoryInv

\* A command that is not in the history was executed too long ago to be in it, or never.
LEMMA ExecuteOnce ==
  ASSUME HistoryInv, CommandOnce, NEW id \in CommandIds,
         \A i \in DOMAIN history : history[i] # id,
         executed' = Append(executed, id)
  PROVE  CommandOnce'
<1>1. /\ Len(executed) \in Nat /\ DOMAIN executed = 1 .. Len(executed)
      /\ DOMAIN executed' = 1 .. Len(executed) + 1
      /\ \A k \in 1 .. Len(executed) : executed'[k] = executed[k]
      /\ executed'[Len(executed) + 1] = id
  BY DEF HistoryInv
<1>2. /\ HistorySize \in Nat \ {0} /\ next \in 0 .. HistorySize - 1
      /\ DOMAIN history = 0 .. HistorySize - 1
  BY HistoryAssumption DEF HistoryInv
<1>3. ASSUME NEW k \in 1 .. Len(executed), executed[k] = id
      PROVE  Len(executed) + 1 - k > HistorySize
  <2> SUFFICES ASSUME Len(executed) - k < HistorySize PROVE FALSE
    BY <1>1, <1>2
  <2>1. history[Slot(next, Len(executed) - k)] = id
    BY <1>1, <1>3 DEF HistoryInv
  <2>2. Slot(next, Len(executed) - k) \in 0 .. HistorySize - 1
    BY <1>1, <1>2 DEF Slot
  <2> QED
    BY <1>2, <2>1, <2>2
<1> QED
  BY <1>1, <1>3 DEF CommandOnce

\* Every action preserves HistoryInv and CommandOnce.
LEMMA HistoryStep ==
  EventTypes /\ HistoryInv /\ CommandOnce /\ [Next]_vars => HistoryInv' /\ CommandOnce'
<1> SUFFICES ASSUME EventTypes, HistoryInv, CommandOnce, [Next]_vars
             PROVE  HistoryInv' /\ CommandOnce'
  OBVIOUS
<1> USE DEF control, outside, published, shown, rtc, ghost
<1>1. CASE \/ RtcWorker \/ RequestStop \/ ConversationLeft
           \/ HearOfLink \/ \E t \in Askers : Ask(t) \/ PostRequest(t)
  <2>1. UNCHANGED <<next, history, executed>>
    BY <1>1 DEF RtcWorker, RaiseIndicator, RaiseCommand, RaiseVideoNotice, Connects, Loses,
       RtmEnds, Sample, Post, Ask, PostRequest, HearOfLink, RequestStop, ConversationLeft,
       Raise, Leave
  <2> QED
    BY <2>1 DEF HistoryInv, CommandOnce
<1>2. CASE Take
  <2>1. CASE Head(queue).kind = "command" /\ Accepts(Head(queue)) /\ Execute(Head(queue))
    <3>1. /\ Head(queue).id \in CommandIds
          /\ history' = [history EXCEPT ![next] = Head(queue).id]
          /\ next' = Advance(next) /\ executed' = Append(executed, Head(queue).id)
          /\ \A i \in DOMAIN history : history[i] # Head(queue).id
      BY <1>2, <2>1, Taken DEF Execute
    <3>2. HistoryInv'
      BY <3>1, ExecuteRemembers
    <3>3. CommandOnce'
      BY <3>1, ExecuteOnce
    <3> QED
      BY <3>2, <3>3
  <2>2. CASE UNCHANGED <<next, history, executed>>
    BY <2>2 DEF HistoryInv, CommandOnce
  <2> QED
    BY <1>2, <2>1, <2>2, TakeCases
    DEF Request, LinkReported, ShowIndicator, VideoStart, VideoNotice
<1>3. CASE StopConversation
  BY <1>3, HistoryAssumption DEF StopConversation, VideoStop, HistoryInv, CommandOnce,
     EmptyHistory
<1>4. CASE ServeRequest
  <2>1. CASE next' = 0 /\ history' = EmptyHistory /\ executed' = <<>>
    BY <2>1, HistoryAssumption DEF HistoryInv, CommandOnce, EmptyHistory
  <2>2. CASE UNCHANGED <<next, history>> /\ executed' = <<>>
    BY <2>2 DEF HistoryInv, CommandOnce
  <2>3. CASE UNCHANGED <<next, history, executed>>
    BY <2>3 DEF HistoryInv, CommandOnce
  <2> QED
    BY <1>4, <2>1, <2>2, <2>3, ServeCases DEF StartConversation
<1>5. CASE UNCHANGED vars
  BY <1>5 DEF vars, HistoryInv, CommandOnce
<1> QED
  BY <1>1, <1>2, <1>3, <1>4, <1>5 DEF Next, ControlWorker

\* A command is executed again only when at least as many others as the history holds were
\* executed in between, for every length of the history.
THEOREM CommandsOnce == Spec => []CommandOnce
<1>1. Init => HistoryInv /\ CommandOnce
  BY HistoryAssumption DEF Init, HistoryInv, CommandOnce, EmptyHistory
<1> QED
  BY <1>1, HistoryStep, EventTypesCorrect, PTL DEF Spec

=============================================================================
