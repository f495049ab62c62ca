# Verification of mybot

TLA+ models of the mybot SDK (the C sources under `src/`), TLC configurations
that check them on small instances, and TLAPS proofs of what holds for every
value of the constants. Paths below are relative to the repository.

## The system and its parts

mybot is the SDK of a voice-assistant device. The product calls
`mybot_start()`; the SDK then attaches to the product's network, restores or
obtains a credential from a device service, and holds real-time conversations
(RTC audio plus RTM messages) with an agent. It runs a few single-threaded
worker queues ("mpq") of the AOSL library; the library is a submodule and not
part of the repository.

| component | state it keeps | operations | talks to |
|---|---|---|---|
| device lifecycle (`src/core/mybot_device_lifecycle.c`) | state UNPROVISIONED .. IN_CONVERSATION, credentials and their generation, poll, retry and renewal counters, request mailboxes, network flags | init, tick, service_result, set_network_available, request_pair/start/stop, notify_conversation_ended, request_rtc_token_renewal, shutdown | service worker (requests, results), HTTP (blocking), RTC (callbacks), key-value store |
| application control (`src/core/mybot_app.c`) | running flag and exit generation, queues, which services exist | mybot_start/stop, Wi-Fi, key, timer, service-result and RTM handlers | owns everything else; callbacks from Wi-Fi, key, RTC and service threads |
| state model (`src/core/mybot_state_model.c`) | one atomic word: phase, online, device state | transitions, projection to the public state | written by the control worker, read by every thread |
| RTC session (`src/rtc/mybot_agora_rtc.c`) | connection, RTM login, token, state | init, join, leave, renew, fini, SDK callbacks | Agora RTSA SDK, application callbacks |
| media pipeline (`src/media/mybot_media_pipeline.c`) | capture/send/playback workers, rings, AEC reference, prompt | start, stop, flush/end session, push remote audio, play/stop prompt | ring buffers, audio, RTC |
| ring buffer (`src/support/mybot_ringbuf.c`) | head, tail, bytes | write, read, sizes | one producer, one consumer thread |
| device commands, RTM messages (`mybot_device_command.c`, `mybot_app.c`) | history of 16 identifiers, conversation generation | parse, remember, dispatch, indicators | RTM thread queues to the control worker |
| video, audio, wake words (`src/media`) | source started or not, volume | start, stop, adjust | platform adapters |
| device client, HTTP, URL, JSON | per request only | build, exchange, parse | sockets or the TLS adapter |
| presenter, LCD | indicators | render | platform LCD |
| platform registry and adapters (`src/platform`) | registered operations | forward | product code |
| Linux platform (`platforms/linux`), example | files, ALSA handles | adapters | the host |

### What is hard here

* **Three threads write one state.** The network thread publishes a loss in
  three atomic steps; the RTC thread tests the state and then writes a mailbox;
  the control worker reads both between two of its own steps.
* **Blocking calls on the owner.** Pairing, start and renewal are HTTP calls on
  the control worker. What was true before the call need not be true after it:
  the generation counters (`network_generation`, `binding_generation`,
  `conversation_generation`) exist for this.
* **Answers out of time.** Poll and stop requests run on the service worker and
  come back after a re-pair, a reconnect, or an exit.
* **Partial failure.** The key-value store, the queues, RTC calls and the
  destruction of a worker can each fail in the middle of a sequence.
* **Crash.** Memory is lost at any point, the credential record is not; and the
  record itself is replaced in steps between which power may be lost.
* **Conversations that touch.** Audio, indicators, commands and RTM callbacks are
  under way on other threads when one conversation ends and the next begins, and
  both may use the same channel name.
* **Flags and indices without locks.** The two sides of a ring buffer share two
  indices; four media threads share the rings, the link flag and the prompt queue.
* **Two ways to one flag.** Wi-Fi events reach the lifecycle directly or through
  the control queue.

### What makes each component correct

* *Lifecycle*: acts as bound only with the credential that a reset would find;
  never waits for nothing; applies no answer of a former binding; ends every
  conversation that lost its network or was asked to stop; carries nothing of
  one conversation into the next; reports each ended conversation at most once.
* *Application*: stop returns and leaves nothing behind; the published state and
  the lifecycle follow the network.
* *RTC session*: the notification of a connection acts only on that connection; no
  callback reaches a queue that is gone; a join goes as far as the SDK confirmed; a
  failed one leaves nothing in the SDK; every call returns.
* *Media*: audio of one conversation is not sent, heard or cancelled in the next;
  a prompt is played from its start and in its order; a shutdown ends and frees
  nothing in use.
* *Ring buffer*: a bounded FIFO of whole writes for one producer and one consumer.
* *Indicators, commands, video*: each takes effect in the conversation it was
  raised in or not at all, an indicator only as far as the channel name tells, a
  command once; the start of video is not lost.
* *File store*: what `set` acknowledged survives; otherwise a record is the old
  one or the new one after any crash. (It does so but for one case, see Findings.)

`PROJECT.json` lists the hazards with the line where each bites and the
properties that would catch it.

## Modules

| module | what it is |
|---|---|
| `DeviceLifecycle` | the lifecycle with its control worker, service worker, network thread, RTC thread, crash and restart |
| `DeviceBinding` | what the service and the application rely on: unbound, bound or talking, with the ends of conversations that are told; `DeviceLifecycle` implements it |
| `ReducedLifecycle` | the lifecycle as the application sees it; `DeviceLifecycle` implements it |
| `AppControl` | start and stop, state model, Wi-Fi and key threads, composed with `ReducedLifecycle` |
| `RtcSession` | init, join, leave and fini of the RTC session on the RTC worker, against the SDK's callback thread |
| `MediaPipeline` | capture, playback and send workers, prompts, session flush, stop and destroy, with the RTC worker and the control worker |
| `ConversationEvents` | indicators, commands and video control from the RTC worker's callbacks to the control worker |
| `RingBuffer` | the lock-free byte ring, one access to a shared location at a time |
| `BoundedFifo` | what a ring buffer promises; `RingBuffer` implements it |
| `KvStoreFile` | the file store on a POSIX file system, with failing system calls, crashes and power losses |
| `DurableStore` | what `mybot_kv_store.h` promises; `KvStoreFile` implements it |
| `MCDeviceLifecycle`, `MCAppControl`, `MCRingBuffer` | instances: symmetry, chunks |
| `DeviceLifecycleProofs`, `DeviceQueueProofs` | theorems about `DeviceLifecycle`; the second extends the first |
| `AppControlProofs`, `RtcSessionProofs`, `MediaPipelineProofs`, `ConversationEventsProofs`, `RingBufferProofs`, `KvStoreProofs` | theorems about the module each is named after |

How they fit together, each assumption of one module and where it comes from:

* `MediaPipeline` takes rings as queues of whole frames: that is `BoundedFifo`,
  which `RingBuffer` implements.
* `DeviceLifecycle` takes the credential as either kept or replaced as a whole,
  and a failed write as done or not done: that is `DurableStore`, which
  `KvStoreFile` implements, with the sync of the directory at init making what was
  read durable (`LoadedIsDurable`). Not carried over is the exception of both: a
  directory whose making was cut short may go with a power loss, and the device is
  then unprovisioned although it was told that its credential is stored.
* `DeviceLifecycle` takes leaving a conversation as a barrier for the callbacks of
  the RTC thread (`RtcCallsDelivered`); `RtcSession` has the queue and the
  sessions behind that, with a queue that may refuse a call.
* `ConversationEvents` takes the network as one flag of the lifecycle and one of the
  published state, with the reports of the Wi-Fi thread in the control queue between
  them: `AppControl` has them in detail.
* `AppControl` composes the application with `ReducedLifecycle`, the lifecycle
  reduced to the transitions the application sees, which `DeviceLifecycle`
  implements: no behaviour of the lifecycle is missing from `AppControl`'s.
* `ConversationEvents` and `MediaPipeline` have the lifecycle reduced to the begin
  and end of a conversation. This reduction is by hand.

### DeviceLifecycle and the code

`state`, the credentials, `pairing_requested`, the retry counters,
`poll_pending`, `conversation_id`, the mailboxes, the renewal fields and the
network flags are the fields of `mybot_device_lifecycle_t`. `control` says where
the control worker is inside a blocking call: `pair_call`/`pair_http`,
`start_call`/`start_http`, `renew_call`/`renew_http` are the test before an HTTP
call and the call itself, `joining` is `dev_on_conversation_start`, the
`leave_*` values are `mybot_agora_rtc_leave` with what the worker does when it
returns, and `drain` is the service worker being joined. `call_generation` and
`stopping_id` are the locals that survive such a call. `service_queue` and
`results` are the entries of `service_mpq` and the service results in
`control_mpq`.

Every action is one handler, or one piece of a handler between two points at
which another thread can be seen: `TickPair` ends the conversation, clears the
request, the credential and the conversation, all as the C code does before it
calls the service, and `PairCode` or `PairFail` is the rest of the same tick.
Choices of the environment (the answer, a refused allocation, a failing store)
are disjuncts of the action in which the code looks at them.

`DeviceBinding` sees of this the power, whether the device is unbound, bound
(RUNTIME) or talking (IN_CONVERSATION), the credential in memory and in the record,
and the number of conversations begun. `asked` is a request of the user until the
start it led to is answered, for the control worker clears
`conversation_requested` before it calls the service; in another state than RUNTIME
a request counts for nothing. `told` is the set of stop requests in
`service_queue` and `results`, each by its credential and its conversation. The
state of pairing, the calls, the network and the mailboxes are hidden.

`ReducedLifecycle` sees the lifecycle from the other side, while it is in use
(`Up`: from init to the begin of shutdown). UNPROVISIONED, PAIRING and
AWAITING_CLAIM are one state; of `control` it sees the start call, before
(`starting`) and in (`calling`) the exchange, and leaving a conversation, to stay
bound (`leave`) or to pair again (`leave_pair`). `set_network_available` is one step
of it: the network is gone and a loss is pending from the exchange of the flag on,
although the generation and the pending flag follow later, so that a tick that finds
the loss pending may leave it pending (`Offline`). `call_current` stands for the
comparison of generations: a start call is under way and no loss has begun since its
snapshot, which is taken after the tick looked at the network
(`mybot_device_lifecycle.c:399`). Credentials, polls, retries and renewals are
hidden, and with them the reason for which the device unpairs (`Unbound`), leaves
(`Fail`) or asks for a pair code again (`PairAgain`).

Abstractions:

* Credentials are model values, conversations numbers; an answer is the class of
  answers the code tells apart and is chosen when it is applied.
* The counters of the poll intervals are "due in this tick or not". The retry
  counters of pairing and renewal are kept, with small caps.
* A failing `mybot_kv_store_set` or `erase` may have taken effect or not, as in
  `DurableStore`.
* Memory is reset when the runtime goes down instead of in the next init; no
  action reads it in between.
* User requests are taken in any application state (a superset of
  `control_start_conversation`, `control_stop_conversation`, `control_pair`).
* One publisher is inside `set_network_available` at a time. Wi-Fi events are serial
  (the contract of `mybot_wifi.h`), but an event that was queued unpublished is
  published late by the control worker (`mybot_app.c:1004`), and that may overlap with
  the Wi-Fi thread's next one. `AppControl` has the late publication, as one step; the
  two three-step publications at once are not modelled.
* `binding_generation` does not wrap (it would take 2^32 pairings).
* `JoinDone` may set an error stop request also while the application runs; a
  superset of the failing branches of `dev_on_conversation_start`.
* **`RtcCallsDelivered`.** `mybot_agora_rtc_leave` runs its work on the RTC
  worker and waits, so a callback in progress ends before leaving does, and later
  ones are ignored there. That holds unless the RTC worker's queue refuses the
  call; then a callback can straddle the end of the conversation. The queue is
  AOSL's; the constant says which of the two is assumed, and each result names it.

### AppControl and the code

`phase`, `online`, `shown` are the three parts of the state model's word and
`AppState` is `project_app_state`. `main` is the product thread inside
`mybot_start` or `mybot_stop` (both hold the lifecycle gate, so there is one);
`control` the control worker inside `handle_control_start`, `start_services`, a
lifecycle call, or `control_stop_runtime`; `wifi` and `key` are the two callback
threads between reading the application state and queueing the event.
`exit_published` stands for the two exit generations that differ. The lifecycle's
steps are the actions of `ReducedLifecycle`: those of a tick in `Ticks`, the rest of
a call that blocks in `Calls`, what the service and the RTC thread bring about in
`Answers`; `Shows` adds `dev_on_state_changed`, which publishes the device state. Two
ways lead to `SetNetworkAvailable`, the Wi-Fi thread and the control worker that
handles a late event. `conversation_current` is history: no loss since the last
conversation began. The queue
holds only the Wi-Fi and key events; other users of it take room, which a small
capacity stands for.

External assumptions, all from `include/mybot/platform/*.h`: events of a listener
are serial and in transition order, a connected event is not repeated, and
destroying a listener waits for its callback.

### RtcSession and the code

`state`, `conn` and the login and subscription flags are the fields of `s_rtc`;
`loginDone`, `loginOk`, `subDone`, `subOk` the atomics that a join waits on.
`queue` is the RTC queue with calls, events and the barrier of fini in it; `work`
is the RTC worker inside a call, one step per SDK call or wait; `cb` is the
SDK's callback thread between looking at the session through the gate and posting
to the queue. `sdkConns`, `sdkLogin`, `sdkSub` are what the SDK holds, as far as
its answers to the code tell.

Abstractions and assumptions:

* One user and one channel name, so that the comparisons of names in the code
  never help to tell two sessions apart.
* A connection identifier is not handed out again before the SDK is finished, and
  a successful fini of the SDK waits for the callback in progress.
* The SDK has one callback under way at a time. It answers a login while that login
  is pending, reports on RTM otherwise only while it is logged in, and subscribes only
  a user who is logged in. What it has decided to report may be carried out
  arbitrarily late: also when the join that waits for it has given up and the next one
  has begun. KICKOFF and EXIT are one kind of report; the code treats them alike.
* `rtc_join_impl` logs out when the login was this join's or a subscription was begun;
  a join that has come so far made the login, so `Unwind` looks at that alone.
* `confirmed`, `loginOf` and `misled` are history: what the SDK confirmed to the login
  in progress, whose answer the flags hold, and that a report of an earlier login made
  the session forget the present one. The last is possible because a report carries the
  generation read when it is posted; such a login is never logged out, which
  `NothingLeftBehind` excepts.
* Payloads, codecs and the media notifications' contents are left out: "media"
  stands for every notification that leaves the session alone.

### MediaPipeline and the code

A frame is the number of the conversation it belongs to. `owner` and `calls` are
the control worker and the calls it makes to the workers in turn (flush, stop,
release); `capture`, `playback`, `send` are the timer handlers, between whose
steps a device or network call may take arbitrarily long; `rtc` is the RTC worker
that reports the link and pushes remote audio. `pending` is the frame the
playback worker holds outside the ring, `ann` the prompt queue with its
generation, `refRing` the echo reference in units of a frame. Two sets of frame
numbers are history, about the prompt that is published: `heard` has those the device
took whole, `cut` those given up, because the device failed, the link was cut or a
conversation was flushed. A frame the device refused or took in part is in neither
until one of these happens; it stays in `pending`.

Abstractions and assumptions:

* The two writes of `set_rtc_connected` are one step, and the RTC worker gets the
  leave. After a stop that failed the run ends as "retained": that a later start
  clears the pipeline, or that another stop follows, is not modelled.
* A device call may take arbitrarily long while the devices run and returns once
  they are stopped (`docs/PORTING.md:79-82`, and the comment at `mybot_app.c:903`);
  a write that was authorised before the prompt was replaced may finish
  (`docs/PORTING.md:224`).
* A write of the device takes whole units of a frame, so that a short write is one
  that leaves units pending. The pipeline has a prompt player.

### ConversationEvents and the code

`generation`, `channel`, `history` and `next` are the conversation's fields in the
application context, `callback` an event between the callback of the RTC worker
that raised it, the sampling of the generation and the post to the control queue.
`online` and `device` are the published state, of which the handlers look at the
projection (`AppState`, `runtime_get_state`); `state`, `linkUp` and `stopRequest` are
the lifecycle's own. The two differ while a report of the network waits in the queue
(`HearOfLink` publishes it to the lifecycle at once, `LinkReported` to the state
model), and for the rest of a conversation that such a report has hidden: its
indicators, commands and video control are then dropped, as the code does.
`asking` has the key and wake-word threads that found the device ready and have not
queued their request yet. The queue is first in first out; its worker takes a
request as `conversation_requested` of the lifecycle. Conversations begin and end on
the timer and pass the queue: `ServeRequest` is `action_start_conversation`, a
blocking call whose answer either begins a conversation at once or comes to nothing.

So a request can wait in front of an indicator of the conversation that is ending,
begin the next one before that indicator is taken, and the indicator is then shown
there if the channel is the same; it carries the channel and the agent's user id and,
unlike commands and video control, no generation. The comment at `mybot_app.c:61`
says of the two that they "reject stale RTM events from a previous conversation";
they do as long as the server names a new channel (or another agent) each time, which
is what `EffectsAreCurrent` says. For commands and video it needs no such condition.

Abstractions: `given`, `misplaced` and `executed` are history, read by the properties
alone. A channel name is the number of the first conversation that had it, so that
every pattern of equal and different names occurs; private messages, which carry
none, may be late. The code compares the names of an indicator by length and a 32-bit
hash (`mybot_app.c:202`); the model takes names that differ to differ in these. The
check of the agent's user id and the parsing of the envelope are left out, the effect
of a volume command is that of a command. A loss of the network and its queueing are one step of
`HearOfLink`; that the queue is in fact entered later is in `AppControl`. The end of
the runtime ends the run.

### RingBuffer, BoundedFifo and the code

`head`, `tail` and `buf` are those of `mybot_ringbuf.c`; `src`/`copiedIn` is a write
under way, `want`/`dst` a read. `room` and `avail` are what
`mybot_ringbuf_get_free_size` and `get_data_size` answered, until the side that
asked moves its own index. The barriers around the copies order the accesses, so
the model is sequentially consistent: it says nothing of a compiler or processor
that does not honour them.

### KvStoreFile, DurableStore and the code

`pc` walks through the opening (making the directory with `mkdirat`, the sync of its
parent if this opening made it, the sync of the directory itself), through `set`
(create, write, sync, rename, sync of the directory) and `erase` (unlink, sync of the
directory), each a system call that may fail. `entry` is the directory in its parent,
absent, made or durable; `loose` is history: an opening that made it did not come to
the sync of the parent, and no later one does. `dir` is
what the system shows, `onDisk` the entries a power loss may leave, `temp` the
temporary file. After a power loss a file that was not synced is any prefix of
what was written, and a directory whose entry was not synced may be gone with all its
records. A temporary file that is left behind is litter: its name is random and made
with `O_EXCL`, so no later call meets it. Only `set` promises durability: an erase whose sync
failed, tried again, finds nothing and reports success although a power loss may
bring the record back; `DeviceLifecycle` allows for that.

## Runs

| run | module | shows | distinct states |
|---|---|---|---|
| `lifecycle_safety` | `MCDeviceLifecycle` | no stranded device, one poll, generations identify credentials, no conversation over a lost network, stop notifications, what the RTC thread writes stays in its conversation, the lifecycle implements `DeviceBinding` and `ReducedLifecycle` | 548 291 |
| `lifecycle_progress` | `MCDeviceLifecycle` | a stop or a loss ends the conversation, a failed renewal is retried, polls come back, an exit completes; the device is bound in the end, if the environment lets it | 78 200 |
| `app_control` | `MCAppControl` | two runs with failing starts and stops, a queue that fills and a link that changes at any time (in the second: once the services run): the published state follows the network, and the lifecycle too if the start was quiet; a shown conversation is real, a released runtime owns nothing, a stop returns, a usable network is shown in the end | 684 083 |
| `app_loss_during_start` | `MCAppControl` | a violation, see below | |
| `app_conversation_hidden` | `MCAppControl` | a violation, see below | |
| `rtc_session` | `RtcSession` | late notifications of a connection change nothing, a retired queue is silent, a failed join leaves nothing in the SDK, a join connects only when confirmed, no call waits for ever | 3 231 183 |
| `rtc_stale_login` | `RtcSession` | a violation, see below | |
| `media_session` | `MediaPipeline` | audio stays in its conversation, also over a failed flush and a lost link; a prompt is played from its start and in order, also when it replaces another or conversations begin and end under it; a shutdown ends and frees nothing in use | 876 036 |
| `conversation_events` | `ConversationEvents` | indicators, commands and video control take effect in their conversation or not at all, an indicator if channel names differ, a command once while the history holds it; the start of video is not lost | 1 208 202 |
| `ring_buffer` | `MCRingBuffer` | the copies stay apart, a size that was read may be relied on, the ring implements `BoundedFifo` | 146 944 |
| `kv_store` | `KvStoreFile` | what an open store holds survives a power loss, the file store implements `DurableStore` | 117 912 |
| `kv_store_directory` | `KvStoreFile` | a violation, see below | |

A definition whose comment begins with "Mutant" is a plausible bug in the
operator that follows it; no specification uses it. `PROJECT.json` pairs each
property of a passing run with the mutant under which TLC finds it violated. Type
invariants are not run: where there is one it is proved.

`CallsNeverStuck` is a liveness claim as an invariant: while a call is under way
some thread can go on. Who can is said by the waits of the code
(`SomeoneCanGoOn`), and that these are all the waits there are by ENABLED, per thread.
`HeedsOwnConnectionOnly` compares what the RTC worker is about to act on with the
connection it has, at the moment it takes the event. It is about connections alone: a
report of RTM may be heeded by a later login (`misled`, above).

### Bounds

* `lifecycle_safety`: two credentials of each kind (enough for a request to carry
  another one than the device), three binding generations (pair, lose, pair
  again, so that an answer of the first can meet the second), two conversations
  (a callback or stop of one can meet the next), one network loss per power
  cycle, power cycles without bound. Past `MaxBindings` nothing disturbs the
  binding any more (`MayDisturb`), and past `MaxLosses` and `MaxConversations` the
  network stays and no conversation is accepted; nothing else is bounded. The
  properties compare neighbours (this binding and another, this conversation and
  the next, before and after a loss), so a second loss or a fourth binding adds no
  new relation. The retry caps are 1 or 2: the delay starts, doubles and saturates
  (the renewal delay in both runs, the pairing delay in `lifecycle_progress`).
  `RtcCallsDelivered` is TRUE in both runs; that the other properties do not need it is
  what their theorems say, which do not assume it.
* `lifecycle_progress`: one binding and one conversation, so that every cycle is one
  of the system and not of a counter.
* Application: a queue of two entries (three in the two violations), with more events
  than that, so that it fills; four changes of the link, over both runs; two runs to
  see what one leaves for the next. The runs in `QuietStarts` are those whose link
  does not change while the services start: in `app_control` the second, so that the
  first shows what a loss during the start does to every other property.
* `rtc_session`: two inits and two joins, so that a callback of the first session
  can meet the second within one init and across two; six callbacks, since a
  complete join takes three and its leave or loss some more; a queue of two, so
  that an event and a call compete for the last place.
* `media_session`: two conversations, two prompts of two frames and one mishap, a
  loss of the link or a failed call, of which at most three come together
  (`MaxMoves`): two conversations with a prompt or a mishap, two prompts with a
  conversation or a mishap. Two conversations with a prompt and a mishap at once are
  left to the theorems. Rings of one frame: what matters of a ring is whether there
  is old audio in it, and one frame is enough for that. A frame is one unit, so that
  a short write of the device is one that takes nothing, and the whole frame is tried
  again; the theorems have frames of any number of units.
* `conversation_events`: two conversations, on one channel or two; six moves in all
  (`MaxMoves`): conversations, requests, commands, indicators, notices, losses of the
  connection and changes of the network count together. A history of two and three
  identifiers: the fourth command of a conversation may be one that two others have
  pushed out, and it then runs again. A queue of two.
* `ring_buffer`: three bytes and the guard byte, chunks of up to four, the longest
  of which never fits; `RefinesFifo` has every size.
* `kv_store`: two keys, two values, a record of two writes, three calls, two
  failing system calls, two crashes, a directory that is there or not at first: a
  call, a failure in the middle of the next, a crash after it, and a call on what is
  left; openings are not bounded; `RefinesStore` has all of them.
* `CHECK_DEADLOCK FALSE` in every run but those of the lifecycle and the ring:
  these systems stop when the bounded calls, callbacks or starts are used up.

### Fairness

* `DeviceLifecycle`, `FairSpec`: every worker goes on with what it has begun (the
  HTTP client has timeouts, the workers drain their queues), the timer and the
  entries of the control queue both get their turn although a blocking call
  disables either (strong fairness), the network thread finishes
  `set_network_available`, the RTC thread its callback. The environment (user,
  service answers, network, exit, power) owes nothing. Only `EventuallyBound` asks
  more of it, as the premise of the formula (`EnvironmentFairness`): that the network
  returns, a device that keeps asking gets a pair code, and a device that keeps
  polling is claimed and stored.
* `AppControl`: the callback threads finish, a call of the lifecycle returns, the
  finalizer runs, and the queue is served although ticks keep the worker busy.
* `MediaPipeline`: the control worker goes on with the calls it makes, a handler
  finishes what it has begun, and a device call returns once the devices are
  stopped, which is what `stop` is for in the platform's contract. The send of a
  frame returns (strong, since the RTC worker may be busy).
* `ConversationEvents`: a callback finishes, the control worker serves its queue.
  The environment owes no connection, and a conversation that a report of the network
  hid owes no video (`VideoStarts` excepts it; `app_conversation_hidden` is the
  finding).

## Findings

The first two come from the same place: a Wi-Fi event is published to the lifecycle
when it is reported, or when it is handled, and the published application state
changes only when it is handled.

* **`app_loss_during_start`.** While services start, events are queued
  unpublished. Connect, disconnect are queued; services start on the connect;
  the link returns and is published at once (`network_available` true); then the
  queued disconnect is handled and published late (false), and the queued
  connect is marked published and is not repeated. The state model shows the
  network, the lifecycle stays offline until the link changes again.
  `docs/PORTING.md:113`: "The SDK pauses device-service requests while offline
  and resumes them after reconnection".
* **`app_conversation_hidden`.** The link is lost and returns; both are published
  but the return is still queued. The user's start, made in between, is sent
  over the restored network and accepted; handling the return then resets
  IN_CONVERSATION to RUNTIME in the state model (`set_network`), while the
  conversation goes on. The application shows READY and refuses the stop key
  until the conversation ends otherwise. `include/mybot/mybot.h:150`: "During a
  conversation with usable connectivity, returns MYBOT_STATE_IN_CONVERSATION
  until normal teardown completes". The behaviour does not need a tick between
  two queued events: it is also found when ticks run only with an empty queue. The
  handlers of the conversation's own events go by the same published state
  (`mybot_app.c:201`, `269`, `545`): while it is hidden its indicators and commands are
  dropped, and if RTC connects then, its video never starts.
* **`rtc_stale_login`.** `on_rtm_event` looks under the gate whether a login was asked
  for, leaves the gate, and then writes the answer for the join that waits
  (`mybot_agora_rtc.c:1001`). If that join gives up in between and the next one has
  reset the flags and asked for a login, it takes the late answer for its own and
  subscribes before its login is answered. `docs/PORTING.md:465`: "Conversation startup
  requests RTM login first and waits up to five seconds for login success. It then
  subscribes to the RTM channel". What follows is bounded: the subscription has its own
  confirmation, which the SDK gives only to a user who is logged in, so that no
  connection is made on the stale answer (`JoinsConfirmed`, in the run `rtc_session`
  and proved). The event is also tagged late, with the generation it finds at the post;
  a late failure or kickoff then makes the session forget a login the SDK has, and
  which it never logs out.
* **`kv_store_directory`.** The store's directory is made in the first opening and its
  entry synced in the parent by that opening alone (`linux_kv_store_file.c:81-97`). If
  the process ends, or a call fails, between the two, the next opening finds the
  directory and uses it as it is. Records are then acknowledged in a directory that a
  power loss may take away with them. `include/mybot/platform/mybot_kv_store.h:55`, of
  `set`: "The operation must survive power loss and must not expose a partially
  replaced record". This is what POSIX permits; on a file system whose sync of a
  directory makes its own entry durable too it does not show.

## Proofs

Each theorem holds for any values of the constants that satisfy the assumptions of
the module.

| module | theorem | property |
|---|---|---|
| `DeviceLifecycleProofs` | `TypeCorrect` | `TypeOK` |
| | `ControlCorrect` | `ControlInv`, what the control worker does fits the state |
| | `DeviceNeverStranded` | `NeverStranded` |
| | `ConversationIsKnown` | `ConversationKnown` |
| | `BoundCredentialIsDurable` | `CredentialIsDurable`, which `ImplementsBinding` checks with the rest |
| | `PendingStartFresh` | `PendingStartIsFresh`, no start is requested of a device that is to be paired |
| | `ConversationEndsWithNetwork` | `NoConversationAcrossLoss` |
| | `StopRequestWellPlaced` | `StopRequestInConversation`, assuming `RtcCallsDelivered` |
| | `ConversationBeginsFresh` | `FreshConversation`, assuming `RtcCallsDelivered` |
| | `RefinesReduced` | `ImplementsReduced`: `DeviceLifecycle` implements `ReducedLifecycle` |
| `DeviceQueueProofs` | `QuietBeforeBoot` | no request, answer or callback outlives its runtime |
| | `GenerationIsCredential` | `GenerationIdentifiesCredential` |
| | `PollIsSingle` | `OnePollOutstanding` |
| | `StopsAreForEnded` | `StopsAreForEndedConversations` |
| | `RefinesBinding` | `ImplementsBinding`: `DeviceLifecycle` implements `DeviceBinding` |
| `AppControlProofs` | `TypeCorrect` | `TypeOK`, the capacity of the control queue with it |
| | `ReleasedOwnsNothing` | `StoppedOwnsNothing` |
| | `StateFollowsLink` | `ModelFollowsLink` |
| | `ShownIsLive` | `ShownConversationIsLive` |
| | `LifecycleFollowsLink` | `NetworkFollowsQuietLink` |
| `RtcSessionProofs` | `SessionTypesCorrect` | types of the session, its queue, its threads and the SDK |
| | `RetiredSilent` | `RetiredQueueIsSilent` |
| | `CallsAreHeld` | while a caller waits, its call is in a live queue or with the RTC worker |
| | `CallsCanGoOn` | the first part of `CallsNeverStuck`: no circle of waits |
| | `NothingIsLeftBehind` | `NothingLeftBehind` |
| | `JoinsAreConfirmed` | `JoinsConfirmed` |
| | `HeedsOwnConnection` | `HeedsOwnConnectionOnly` |
| `MediaPipelineProofs` | `MediaTypesCorrect` | types of the workers, rings and labels |
| | `NothingIsReleasedInUse` | `NothingReleasedInUse` |
| | `SentIsCurrent` | `SentAudioIsCurrent` |
| | `PlayedIsCurrent` | `PlayedAudioIsCurrent` |
| | `PromptsAreWhole` | `PromptIsWhole` |
| `ConversationEventsProofs` | `EventTypesCorrect` | shape of an event on its way |
| | `EffectsCurrent` | `EffectsAreCurrent` |
| | `CommandsOnce` | `CommandOnce` |
| `RingBufferProofs` | `TypeCorrect` | `TypeOK` |
| | `CopiesApart` | `CopiesStayApart` |
| | `PeeksTrue` | `PeeksStayTrue` |
| | `RefinesFifo` | `ImplementsFifo`: `RingBuffer` implements `BoundedFifo` |
| `KvStoreProofs` | `TypeCorrect` | `TypeOK` |
| | `LoadedSurvives` | `LoadedIsDurable` |
| | `RefinesStore` | `ImplementsStore`: `KvStoreFile` implements `DurableStore` |

The assumptions: in `DeviceLifecycle` the empty credential is not a credential and
retry delays are positive and do not exceed their caps; a queue has room for one
entry, a ring for one byte, a media ring for one frame of at least one unit, the
history of commands for one identifier; no connection is the value that stands for
none; a record takes at least one write and the absent value
is not a value; what a producer offers is a non-empty run of bytes; bounds are
natural numbers. Beyond these only two theorems assume something of the environment,
`RtcCallsDelivered`; TLC finds the two properties violated when it is turned round.

*The lifecycle.* None of the safety properties but the types is inductive: a
conversation may begin in a state of which the property says nothing. What is
missing is where the control worker is. `ControlInv` says that it waits for the
pairing service exactly in PAIRING, for the start call only in RUNTIME, for a
join, a renewal or a leave only in IN_CONVERSATION, that after a shutdown it only
leaves and drains, and what an uninitialised lifecycle looks like. It is proved
with the types, one step per action. The others stand on it:

* `NeverStranded` needs that an unprovisioned device whose request is consumed is
  either calling or has a positive retry delay (`StrandInv`, `RetryDelayPositive`).
* `NoConversationAcrossLoss` needs the same relation already for a requested start
  and for the start call (`NetworkInv`), and that no request waits while a call
  runs (`RequestInv`).
* `StopRequestInConversation` and `FreshConversation` need that the RTC thread is
  inside a callback only while the conversation lasts (`MailboxInv`), which is
  where `RtcCallsDelivered` enters.

*The queues of the service.* `DeviceQueueProofs` goes in two stages. The
actions reduce to a few moves of the queues, of the binding and of the conversation
(`QueueStep`, `BindingStep`, `ConversationMoves`), and each invariant follows from
the moves. `GenerationIdentifiesCredential` needs that no request is younger than
the binding, so that a new binding meets no request of its own generation
(`GenerationInv`); it relies on a boot finding the queues empty, which is the
first theorem. `OnePollOutstanding` is about counts, `StopsAreForEndedConversations`
needs that a conversation the control worker is leaving has no stop on its way yet, and
that the credential is the one with which the conversation in progress started.

*The binding.* `RefinesBinding` goes action by action: a lemma for each action of
`DeviceBinding` says which actions of the lifecycle are that action, and
`HiddenStep` that all others look like the delivery of notices. Besides `ControlInv`
and `RequestInv` it needs to know which conversation a notice names: the device is
in, or leaving, the one that began last (`TalkInv`), so that no end is told twice.
What a step can do to the notices follows from the moves of the queues
(`NoticeStep`): only leaving a conversation adds one, and it names the credential
and the conversation that end. A boot must find no request (`ViewInv`, below). A rejection
during a conversation is two steps of the abstract specification: the answer is
delivered, and leaving the conversation is its end and that of the binding at once.

*What the application sees.* `RefinesReduced` is what makes the proofs about
`AppControl` say something of the lifecycle itself: between the calls the
application makes, `AppControl` lets its lifecycle take every step `ReducedLifecycle`
allows, and the lifecycle takes no other. There is a lemma for each action of `ReducedLifecycle`, which names the actions of the lifecycle that are
that action; the others, and everything a lifecycle does that is not in use, leave
what is seen unchanged (`SameView`, `DownReduces`). Besides `ControlInv` it needs
`ViewInv`: while a loss is being published the network is withdrawn, so that a
network that is there has no publication under way; the generation a start call
remembers is not ahead of the network's, so that a loss never makes a stale call
current; and a runtime that is not initialized knows of no loss and of no request,
as the next init takes the memory for clear. Three behaviours are in the
reduction because the proof needs them: a start call does not become stale by a loss
between the tick and its snapshot, a tick between the steps of a publication drops
requests and sees the loss again later, and a rejection, a failed renewal or a late
RTC callback may come while a loss is pending.

*The application.* `StoppedOwnsNothing` speaks of the moment after the last step of
a stop and is violated by none of the steps before. `StopInv` says what each stage
of the run has given up: the product thread waits for a start exactly while the
control worker is in one, a finalizer runs only below a stop, in which the run has
exited, and each of its steps leaves behind that the keys, the services and the
Wi-Fi listener are gone. An event refused by the queue ends a run and nothing but
`ControlStart` begins one, so an exit stays one while the finalizer runs.

The other three speak of the moment at which every Wi-Fi event is handled, so the
invariants speak of what is reported and not handled: `Reported` is the queue
followed by the event the Wi-Fi thread has in its hands. `StageInv` ties the stage
of the start to the phase. `LinkInv` says that the events of `Reported` alternate,
that the last of them agrees with the link and the first with what is shown, which
is `ModelFollowsLink` once nothing is left. `ShownInv` is
`ShownConversationIsLive` with "a loss is on its way" as "something is reported".
Both hold also when the link changes during the start. `NetInv` says that in a
running application everything reported is published, and what the lifecycle holds
is then the link; it needs that nothing is reported while the services start, which
is what a quiet start is, and `app_loss_during_start` shows what happens otherwise.
Of the lifecycle the four need little: what any of its steps leaves alone and shows
is one lemma (`LifecycleMoves`), and `RefinesReduced` is the reason why that covers
every step of the full one.

*The RTC session.* `CallInv` needs no assumption: one call is under way, queued or
answered; callbacks are enabled only while the queue lives, and fini disables them
under the gate that a callback holds while it posts, so that nothing is posted to a
queue that is retired. `CallHeld` adds that the call is somewhere as long as its
caller waits. From the two, `CallsCanGoOn`: while a call is under way somebody waits
for nobody, in particular a fini that waits for the gate waits for a callback thread
that does not wait. That is the first part of `CallsNeverStuck`; the others, that
whoever waits for nobody has a step to take, are ENABLED and stay with TLC. `ConnInv`, `IdleInv` and `NoticeInv` tie the session, the
worker's step and the SDK's connections to each other, also without assumption: a
notification that names the present connection is about it, because an identifier
does not come back before the SDK is finished. The login is different: what is under
way may be about any login up to the present one (`ReportInv`). `LoginInv` says that
while the SDK holds a login the session knows of it, or was misled: every report that
would end it, in the queue, in the callback thread or in the flags, is of an earlier
one. `JoinInv` follows a join: nothing of an earlier subscription is on its way to the
flags once a login is answered, because the SDK has one callback under way and the
answer was one; so what the second wait finds is the answer to the subscription of
this join, and the SDK gives it only to a user who is logged in.

*The media pipeline.* `ReleaseInv` is the order of the release: which workers are
still there at each stage of the owner, and that a handler under way is one of
theirs, so that a device or ring is freed after the last that uses it.
`JoinInv` says that while a conversation is joined everything in the rings, in the
hands of the three workers and in the echo reference is of that conversation. A
flush makes one of the three sides current at each of its calls, the last before
the owner may join; a failed call clears `flushOk` and with it the permission.
`LossInv` adds, per loss of the link, that the playback side either still has to
clear what it holds or holds nothing older. `PromptInv` relates how much of the
prompt was read, is in hand and was heard or cut, for the published generation only: a
prompt that is replaced keeps its frames out by its generation. A frame that was not
taken whole stays in hand, and what gives it up puts it among the cut ones, so that the
frames done are always the first ones of the prompt. None of this needs that the
conversation stays the same, so `PromptIsWhole` is about every prompt.

*The conversation's events.* Events of earlier conversations may be in the queue at
any time. `SessionInv` says that a callback belongs to the session of the RTC worker
and that to the conversation of the control worker, `ChannelInv` that the channel is
that of the last conversation and is set only during it. `Placed` follows the event:
its generation is not ahead, and if it is the current one while a channel is set, the
event is of this conversation; that survives the end, which clears the channel, and
the beginning, which sets it with a new generation (`PlacedStays`). A conversation
that fails before its generation is new has no channel, which `handle_video_control`
tests. An indicator has only its channel: it is placed by the name the server gave.
`HistoryInv` gives the slot of the circular history in which the k-th last command of
the conversation stands, as long as the history reaches back to it.

*The ring buffer.* The index arithmetic is modulo a size that is a parameter; the
first lemmas turn each remainder into a case distinction, so that the others are
linear. `IInv` says that the two copies stay apart, what has been copied in and out
so far (`CopiedBytes`), and that a side keeps no answer of a size over its own
copy. With it each step is one of the FIFO or leaves it alone: the bytes appear at
the step that publishes `head` and disappear at the one that publishes `tail`.

*The file store.* `IInv` says that only whole, synced files are ever under a key,
that what is shown is among what a power loss may leave, what the call in progress has
achieved at each step, and of the directory (`DirectoryKnown`) that it is empty until
its making is complete and that an entry which is not durable is loose or about to be
synced. The rename, or the unlink, is the step at which
the record changes; the sync of the directory settles it.

Only model-checked: liveness (`VideoStarts`, `LinkIsShown`,
`StopRequestEndsConversation`, `RenewalRetried`, `ExitCompletes`,
`LossEndsConversation`, `EventuallyBound`, `ShutdownEnds`, `PollReturns`,
`StopReturns`) and the ENABLED part of `CallsNeverStuck`. The prover handles neither
fairness nor ENABLED. Every other property of a passing run is a theorem.

Run `tlapm <module>Proofs.tla` (one to five minutes each) and
`tlc -config <run>.cfg <module>` for each run.

## What is left

1. The begin and end of a conversation, to which `ConversationEvents` and
   `MediaPipeline` reduce the lifecycle by hand, as a specification that
   `ReducedLifecycle` implements.
2. The deadlines of an HTTP exchange, which now are the fairness of a call.

## Not modelled

* The device service client, the HTTP client, the JSON, URL and header parsers:
  sequential, one request at a time on the caller's thread, with text processing
  the unit tests reach. Their outcomes are choices of the models.
* Volume and wake words: thin adapters. A wake word acts as the start key.
* Drawing of the screen, pair-code prompts' text, the product's configuration,
  version: no state that a property is about.
* Of video: creating and destroying the source, and its frames.
* The platform registry and the Linux adapters other than the file store: they
  forward to one library call each; their contracts are the assumptions above.
* Wrap-around of `binding_generation` and `conversation_generation` (2^32 steps).
* `third_party/` and AOSL: external.
