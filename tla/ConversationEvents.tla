------------------------- MODULE ConversationEvents -------------------------
(***************************************************************************)
(* What a conversation receives: indicators and device commands over RTM,  *)
(* and the control of the video source, of src/src/core/mybot_app.c with   *)
(* mybot_presenter.c, mybot_device_command.c and media/mybot_video.c.      *)
(*                                                                         *)
(* The RTC worker raises them in callbacks and queues them, the threads of *)
(* the keys and of the wake words queue requests for a conversation, and   *)
(* the Wi-Fi thread what it hears of the network.  The control worker      *)
(* takes them from its queue; conversations begin and end on its timer,    *)
(* whatever the queue still holds.                                         *)
(*                                                                         *)
(* The handlers go by the published application state, of                  *)
(* mybot_state_model.c, which is not always the lifecycle's: a report of   *)
(* the network that comes late hides a conversation that is going on.      *)
(***************************************************************************)
EXTENDS Integers, Sequences

CONSTANTS
  CommandIds, HistorySize,
  ServerStates,       \* the indicators of which one is shown at a time
  Askers,             \* the threads that ask for a conversation: keys, wake words
  QueueCapacity,      \* of the control worker's queue
  MaxConversations,
  MaxMoves            \* bounds of the model: conversations, and what the world around does

ASSUME HistoryAssumption == HistorySize \in Nat \ {0}

NoChannel == 0        \* a channel is known by the first conversation that had it
NoId == "no id"
None == [step |-> "none"]
VP == "vpRegistered"
Indicators == ServerStates \cup {VP}

VARIABLES
  \* the control worker
  running, state, pc, generation, channel, history, next, queue,
  requested,        \* conversation_requested of the lifecycle
  stopRequest,      \* of the lifecycle
  conversation,     \* the last conversation that began, its id
  asking,           \* the askers that have seen the device ready and not queued it yet
  \* the published state and the network
  online, device,   \* the fields of the snapshot
  linkUp,           \* network_available of the lifecycle: what the Wi-Fi thread heard last
  \* presenter and video source
  indicators, active, stopping,
  \* the RTC worker
  connected,        \* rtc_connected of the media pipeline
  session,          \* the conversation it has joined, 0 if none
  joined,           \* its channel
  callback,         \* the callback it is in
  \* history of the model
  given,            \* the channel names of the conversations that began
  misplaced,        \* the kinds of event that took effect in a conversation not theirs
  executed,         \* ids of the commands executed in this conversation
  startFailed,      \* the source refused to start in this conversation
  moves             \* what was asked, raised or reported

control ==
  <<running, state, pc, generation, channel, history, next, requested, conversation>>
published == <<online, device>>
outside == <<asking, published, linkUp>>
shown == <<indicators, active, stopping>>
rtc == <<connected, session, joined, callback>>
ghost == <<given, misplaced, executed, startFailed>>
vars == <<control, queue, stopRequest, outside, shown, rtc, ghost, moves>>

EmptyHistory == [i \in 0..HistorySize - 1 |-> NoId]

Init ==
  /\ running = TRUE /\ state = "ready" /\ pc = "idle" /\ generation = 0
  /\ channel = NoChannel /\ history = EmptyHistory /\ next = 0
  /\ queue = <<>> /\ requested = FALSE /\ stopRequest = FALSE /\ conversation = 0
  /\ asking = {} /\ online = TRUE /\ device = "ready" /\ linkUp = TRUE
  /\ indicators = {} /\ active = FALSE /\ stopping = FALSE
  /\ connected = FALSE /\ session = 0 /\ joined = NoChannel /\ callback = None
  /\ given = <<>> /\ misplaced = {} /\ executed = <<>> /\ startFailed = FALSE
  /\ moves = 0

\* project_app_state
AppState == IF online THEN device ELSE "offline"

\* What the handlers take for a conversation that is going on.
InConversation == running /\ AppState = "inConversation"

Move == conversation + moves < MaxMoves /\ moves' = moves + 1
HasRoom == Len(queue) < QueueCapacity

-----------------------------------------------------------------------------
(* The RTC worker.  A callback reads the generation before it queues.      *)

Raise(c) == session # 0 /\ callback = None /\ callback' = c

\* rtc_on_rtm_subscribe_data with an indicator: queued with no generation
RaiseIndicator ==
  /\ running /\ Move
  /\ \E i \in Indicators, on \in BOOLEAN :
       Raise([step |-> "post", kind |-> "indicator", of |-> session, channel |-> joined,
              indicator |-> i, on |-> on])
  /\ UNCHANGED <<outside, control, queue, stopRequest, shown, connected, session, joined,
                 ghost>>

\* A command arrives on the channel, or as a private message, which may be late: then it
\* is of an earlier conversation.
RaiseCommand ==
  /\ running /\ Move
  /\ \E id \in CommandIds, of \in 1..session :
       \E ch \in IF of = session THEN {joined, NoChannel} ELSE {NoChannel} :
         Raise([step |-> "sample", kind |-> "command", of |-> of, channel |-> ch,
                id |-> id])
  /\ UNCHANGED <<outside, control, queue, stopRequest, shown, connected, session, joined,
                 ghost>>

\* rtc_on_video_key_frame_requested, rtc_on_video_target_bitrate_changed
RaiseVideoNotice ==
  /\ Move
  /\ Raise([step |-> "sample", kind |-> "notice", of |-> session])
  /\ UNCHANGED <<outside, control, queue, stopRequest, shown, connected, session, joined,
                 ghost>>

\* rtc_on_state_changed
Connects ==
  /\ ~connected /\ connected' = TRUE
  /\ Raise([step |-> "sample", kind |-> "start", of |-> session])
  /\ UNCHANGED <<outside, control, queue, stopRequest, shown, session, joined, ghost,
                 moves>>

\* The connection is lost, for a while or for good.
Loses ==
  /\ connected /\ callback = None /\ Move
  /\ connected' = FALSE
  /\ stopRequest' \in {stopRequest, TRUE}
  /\ UNCHANGED <<outside, control, queue, shown, session, joined, callback, ghost>>

\* A failed login or subscription, or a kickoff, ends the conversation.
RtmEnds ==
  /\ session # 0 /\ callback = None /\ ~stopRequest
  /\ stopRequest' = TRUE
  /\ UNCHANGED <<outside, control, queue, shown, rtc, ghost, moves>>

\* queue_video_control stops here when the runtime does.
Sample ==
  /\ callback.step = "sample"
  /\ callback' = IF callback.kind # "command" /\ ~running THEN None
                 ELSE [f \in DOMAIN callback \cup {"generation"} |->
                         CASE f = "generation" -> generation
                           [] f = "step" -> "post"
                           [] OTHER -> callback[f]]
  /\ UNCHANGED <<outside, control, queue, stopRequest, shown, connected, session, joined,
                 ghost, moves>>

\* Mutant: a start that finds the queue full is lost like any other event
PostAnyway ==
  /\ callback.step = "post" /\ callback' = None
  /\ queue' = IF HasRoom THEN Append(queue, callback) ELSE queue
  /\ UNCHANGED <<outside, control, stopRequest, shown, connected, session, joined, ghost,
                 moves>>

\* A full queue loses the event; the loss of a start ends the run.
Post ==
  /\ callback.step = "post" /\ callback' = None
  /\ queue' = IF HasRoom THEN Append(queue, callback) ELSE queue
  /\ running' = (running /\ (callback.kind = "start" => HasRoom))
  /\ UNCHANGED <<outside, state, pc, generation, channel, history, next, requested,
                 conversation, stopRequest, shown, connected, session, joined, ghost,
                 moves>>

-----------------------------------------------------------------------------
(* Keys and wake words: on_key_event and media_on_wake_word look at the    *)
(* published state, and queue the request.  And the Wi-Fi thread.          *)

Ask(t) ==
  /\ running /\ AppState = "ready" /\ t \notin asking /\ asking' = asking \cup {t}
  /\ Move
  /\ UNCHANGED <<control, queue, stopRequest, published, linkUp, shown, rtc, ghost>>

\* A request that finds the queue full ends the run.
PostRequest(t) ==
  /\ t \in asking /\ asking' = asking \ {t}
  /\ queue' = IF HasRoom THEN Append(queue, [kind |-> "request"]) ELSE queue
  /\ running' = (running /\ HasRoom)
  /\ UNCHANGED <<state, pc, generation, channel, history, next, requested, conversation,
                 stopRequest, published, linkUp, shown, rtc, ghost, moves>>

\* on_wifi_event: a loss or a return of the network, published to the lifecycle at once
\* and queued for the state the handlers go by.
HearOfLink ==
  /\ running /\ Move /\ linkUp' = ~linkUp
  /\ queue' = IF HasRoom THEN Append(queue, [kind |-> "link", up |-> ~linkUp]) ELSE queue
  /\ running' = HasRoom
  /\ UNCHANGED <<state, pc, generation, channel, history, next, requested, conversation,
                 stopRequest, asking, published, shown, rtc, ghost>>

-----------------------------------------------------------------------------
(* The control worker.                                                     *)

\* control_start_conversation and mybot_device_lifecycle_request_start
Request ==
  /\ running /\ AppState = "ready" /\ state = "ready" /\ linkUp /\ requested' = TRUE
  /\ UNCHANGED <<running, state, pc, generation, channel, history, next, conversation,
                 stopRequest, published, shown, rtc, ghost, moves>>

\* handle_wifi_event with set_network: a conversation on display is no more so after any
\* change of the network, whether or not it ends.
LinkReported(e) ==
  /\ running /\ (e.up <=> ~online)
  /\ online' = e.up /\ device' = "ready"
  /\ UNCHANGED <<control, stopRequest, shown, rtc, ghost, moves>>

\* dev_on_conversation_start: the conversation ends again when the flush, the
\* initialisation or the join fails.
StartConversation(ch) ==
  /\ state' = "inConversation" /\ conversation' = conversation + 1
  /\ device' = "inConversation"
  /\ given' = Append(given, ch)
  /\ executed' = <<>> /\ startFailed' = FALSE
  /\ \/ /\ stopRequest' = TRUE     \* the flush fails
        /\ UNCHANGED <<generation, channel, history, next, indicators, session, joined>>
     \/ /\ generation' = generation + 1
        /\ channel' = ch /\ history' = EmptyHistory /\ next' = 0
        /\ indicators' = {}
        /\ \/ stopRequest' = TRUE /\ UNCHANGED <<session, joined>>
           \/ session' = conversation + 1 /\ joined' = ch /\ UNCHANGED stopRequest
  /\ UNCHANGED <<active, stopping, misplaced>>

\* action_start_conversation, a call that the timer makes: the server accepts and names a
\* channel, or the request comes to nothing, as it does when the network is lost before.
ServeRequest ==
  /\ pc = "idle" /\ running /\ state = "ready" /\ requested /\ requested' = FALSE
  /\ \/ /\ linkUp /\ conversation < MaxConversations
        /\ \E ch \in {given[i] : i \in DOMAIN given} \cup {conversation + 1} :
             StartConversation(ch)
     \/ UNCHANGED <<state, generation, channel, history, next, conversation, stopRequest,
                    device, shown, session, joined, ghost>>
  /\ UNCHANGED <<running, pc, queue, asking, online, linkUp, connected, callback, moves>>

TakesEffect(e) == misplaced' = misplaced \cup {k \in {e.kind} : e.of # conversation}

\* handle_lcd_indicator and mybot_presenter_update_server_indicator
ShowIndicator(e) ==
  /\ LET others == IF e.on /\ e.indicator \in ServerStates THEN ServerStates
                   ELSE {e.indicator}
     IN  indicators' = (indicators \ others) \cup {i \in {e.indicator} : e.on}
  /\ TakesEffect(e)
  /\ UNCHANGED <<control, stopRequest, published, active, stopping, rtc, given, executed,
                 startFailed, moves>>

\* Mutant: the next slot of the history stays where it is
AdvanceNever(n) == n

Advance(n) == (n + 1) % HistorySize

\* remember_command, and the volume set
Execute(e) ==
  /\ \A i \in DOMAIN history : history[i] # e.id
  /\ history' = [history EXCEPT ![next] = e.id] /\ next' = Advance(next)
  /\ executed' = Append(executed, e.id)
  /\ TakesEffect(e)
  /\ UNCHANGED <<running, state, pc, generation, channel, requested, conversation,
                 stopRequest, published, shown, rtc, given, startFailed, moves>>

\* mybot_video_start: the source may fail to start, and is not started while it stops.
VideoStart(e) ==
  /\ \/ active /\ UNCHANGED <<active, misplaced, startFailed>>
     \/ ~active /\ ~stopping /\ active' = TRUE
        /\ TakesEffect(e) /\ UNCHANGED startFailed
     \/ ~active /\ startFailed' = TRUE /\ UNCHANGED <<active, misplaced>>
  /\ UNCHANGED <<control, stopRequest, published, indicators, stopping, rtc, given,
                 executed, moves>>

\* mybot_video_request_key_frame, mybot_video_set_target_bitrate
VideoNotice(e) ==
  /\ active /\ ~stopping /\ TakesEffect(e)
  /\ UNCHANGED <<control, stopRequest, published, shown, rtc, given, executed, startFailed,
                 moves>>

\* handle_lcd_indicator.  The names of the channel and of the agent are compared by length
\* and hash: names that differ are taken to differ in these.
AcceptsIndicator(e) == e.channel = channel

\* Mutant: the command's conversation is not compared
AcceptsAnyConversation(e) ==
  e.generation = generation /\ ~stopRequest /\ e.channel \in {NoChannel, channel}

\* handle_device_command.  The agent alone sends commands.
AcceptsCommand(e) ==
  /\ e.generation = generation /\ ~stopRequest
  /\ e.channel \in {NoChannel, channel} /\ e.of = conversation

\* handle_video_control
AcceptsVideo(e) ==
  e.generation = generation /\ channel # NoChannel /\ ~stopRequest /\ connected

Accepts(e) ==
  /\ InConversation
  /\ e.kind = "indicator" => AcceptsIndicator(e)
  /\ e.kind = "command" => AcceptsCommand(e)
  /\ e.kind \in {"start", "notice"} => AcceptsVideo(e)

Handle(e) ==
  \/ e.kind = "request" /\ Request
  \/ e.kind = "link" /\ LinkReported(e)
  \/ e.kind = "indicator" /\ Accepts(e) /\ ShowIndicator(e)
  \/ e.kind = "command" /\ Accepts(e) /\ Execute(e)
  \/ e.kind = "start" /\ Accepts(e) /\ VideoStart(e)
  \/ e.kind = "notice" /\ Accepts(e) /\ VideoNotice(e)

\* An event that is not accepted, a duplicate command, a notice for no source
Ignores(e) ==
  \/ e.kind = "request" /\ ~(running /\ AppState = "ready" /\ state = "ready" /\ linkUp)
  \/ e.kind = "link" /\ ~(running /\ (e.up <=> ~online))
  \/ e.kind \notin {"request", "link"} /\ ~Accepts(e)
  \/ e.kind = "command" /\ \E i \in DOMAIN history : history[i] = e.id
  \/ e.kind = "notice" /\ ~(active /\ ~stopping)

Take ==
  /\ pc = "idle" /\ queue # <<>> /\ queue' = Tail(queue) /\ UNCHANGED <<asking, linkUp>>
  /\ \/ Handle(Head(queue))
     \/ /\ Ignores(Head(queue))
        /\ UNCHANGED <<control, stopRequest, published, shown, rtc, ghost, moves>>

\* Another request to end the conversation: a key, or the lifecycle's own, as when the
\* network was lost
RequestStop ==
  /\ running /\ state = "inConversation" /\ pc = "idle"
  /\ ~stopRequest /\ stopRequest' = TRUE
  /\ UNCHANGED <<outside, control, queue, shown, rtc, ghost, moves>>

\* mybot_video_stop: a source that fails to stop is not started again until it has.
VideoStop ==
  /\ active' = FALSE
  /\ IF active \/ stopping THEN stopping' \in BOOLEAN ELSE UNCHANGED stopping

\* dev_on_conversation_stop, up to the leave
StopConversation ==
  /\ pc = "idle" /\ state = "inConversation" /\ stopRequest
  /\ pc' = "leaving" /\ generation' = generation + 1
  /\ channel' = NoChannel /\ history' = EmptyHistory /\ next' = 0
  /\ VideoStop
  /\ indicators' = {} /\ executed' = <<>> /\ startFailed' = FALSE
  /\ UNCHANGED <<outside, running, state, requested, conversation, queue, stopRequest, rtc,
                 given, misplaced, moves>>

\* The RTC worker takes the leave between two callbacks.
Leave ==
  /\ callback = None
  /\ session' = 0 /\ joined' = NoChannel /\ connected' = FALSE
  /\ UNCHANGED callback

\* The conversation is left, and the state published, which forgets the stop request.
ConversationLeft ==
  /\ pc = "leaving" /\ pc' = "idle"
  /\ Leave
  /\ state' = "ready" /\ stopRequest' = FALSE
  /\ device' = IF running THEN "ready" ELSE device
  /\ UNCHANGED <<asking, online, linkUp, running, generation, channel, history, next,
                 requested, conversation, queue, shown, ghost, moves>>

RtcWorker ==
  \/ RaiseIndicator \/ RaiseCommand \/ RaiseVideoNotice
  \/ Connects \/ Loses \/ RtmEnds \/ Sample \/ Post

ControlWorker == Take \/ ServeRequest \/ RequestStop \/ StopConversation \/ ConversationLeft

Next ==
  \/ RtcWorker \/ ControlWorker
  \/ HearOfLink \/ \E t \in Askers : Ask(t) \/ PostRequest(t)

Spec == Init /\ [][Next]_vars

\* Both workers go on with what they have begun, and the control worker with its queue.
FairSpec == Spec /\ WF_vars(Sample) /\ WF_vars(Post) /\ WF_vars(Take)

-----------------------------------------------------------------------------
DistinctChannels == \A i, j \in DOMAIN given : given[i] = given[j] => i = j

\* What is executed, started or tuned was raised in the conversation it touches: neither a
\* callback that runs while its conversation is being left, nor an event still queued, nor
\* a late private message reaches the next conversation.  What is shown was raised in it
\* if the server gives no two conversations one channel name: an indicator has no
\* generation.
EffectsAreCurrent ==
  /\ misplaced \subseteq (IF DistinctChannels THEN {} ELSE {"indicator"})
  /\ indicators # {} \/ active => state = "inConversation" /\ pc = "idle"

\* A command that arrives again is not executed again, unless at least as many others as
\* the history holds were executed in between, which have pushed it out.
CommandOnce ==
  \A i, j \in DOMAIN executed : i < j /\ executed[i] = executed[j] => j - i > HistorySize

\* Video starts in a conversation that stays connected and on display: its start is not
\* lost between the RTC worker, the queue and the control worker, unless the source itself
\* fails.  A conversation that a late report of the network has hidden starts no video
\* (handle_video_control goes by the published state).
VideoStarts ==
  (InConversation /\ state = "inConversation" /\ connected /\ ~stopRequest)
    ~> (active \/ startFailed \/ ~connected \/ stopRequest \/ ~InConversation)
=============================================================================
