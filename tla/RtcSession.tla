----------------------------- MODULE RtcSession -----------------------------
(***************************************************************************)
(* The RTC session of src/src/rtc/mybot_agora_rtc.c.                       *)
(*                                                                         *)
(* Three threads meet here.  The control worker makes calls (init, join,   *)
(* leave, fini), each of which is posted to the RTC queue and waited for.  *)
(* The RTC worker takes calls and events from that queue in order and owns *)
(* the session; a call in turn calls the Agora SDK and, in a join, waits   *)
(* for RTM.  The SDK's callback thread turns what the SDK reports into     *)
(* events; it looks at the session through a gate (a spin lock) and posts  *)
(* through the same gate.                                                  *)
(*                                                                         *)
(* There is one user and one channel name, the same in every session: the  *)
(* name comparisons of the code then never help to tell sessions apart.    *)
(***************************************************************************)
EXTENDS Integers, Sequences, FiniteSets

CONSTANTS
  Conns,          \* connection identifiers the SDK hands out
  NoConn,         \* CONNECTION_ID_INVALID
  QueueCapacity,  \* bound of the RTC queue, 8192 in the code
  MaxInits, MaxJoins, MaxCallbacks   \* bounds of the model

ASSUME ConnAssumption == NoConn \notin Conns
ASSUME CapacityAssumption == QueueCapacity \in Nat \ {0}

VARIABLES
  \* the session, s_rtc
  state, conn,
  requested, loggedIn,             \* RTM login
  subRequested, subCompleted, subscribed,
  loginGen, subGen,
  \* the atomics the callback thread writes for the waits of a join
  loginDone, loginOk, subDone, subOk,
  loginOf,   \* history: the login whose answer these flags hold
  misled,    \* history: a report of an earlier login made the session forget the present one
  \* the queue and its guards
  enabled, mpq, queue,
  \* threads
  caller,    \* control worker: "idle", "waiting" for its call, or a step of fini
  work,      \* RTC worker: Idle, or the call it executes and its next step
  cb,        \* the callback in progress, NoCallback if there is none
  \* the SDK
  sdkReady, sdkConns, sdkLogin, sdkSub,
  used,      \* connection identifiers handed out since the SDK was initialized
  \* what was confirmed by the SDK for the present login and subscription
  confirmed,
  made,      \* connections the SDK has made so far
  \* counters that bound the model
  inits, joins, callbacks

session == <<state, conn, requested, loggedIn, subRequested, subCompleted, subscribed,
             loginGen, subGen>>
rtm == <<requested, loggedIn, subRequested, subCompleted, subscribed, loginGen, subGen>>
loginFlags == <<loginDone, loginOk, loginOf>>
waits == <<loginFlags, subDone, subOk, misled>>
sdk == <<sdkReady, sdkConns, sdkLogin, sdkSub, used, made>>
bounds == <<inits, joins, callbacks>>
vars == <<session, waits, enabled, mpq, queue, caller, work, cb, sdk, confirmed, bounds>>

RtmKinds == {"login", "kickoff", "data", "subResult", "subData"}
\* What a notification of a connection makes of the state; "media" stands for
\* audio, token, video and user notifications, which leave it alone.
StateAfter == [joined |-> "connected", reconnecting |-> "reconnecting",
               lost |-> "disconnected", failed |-> "error"]
ConnKinds == DOMAIN StateAfter \cup {"media"}
InSession == {"connecting", "connected", "reconnecting", "disconnected"}

NoCallback == [at |-> "none"]
Idle == [at |-> "idle"]
Room == Len(queue) < QueueCapacity

Init ==
  /\ state = "idle" /\ conn = NoConn
  /\ requested = FALSE /\ loggedIn = FALSE
  /\ subRequested = FALSE /\ subCompleted = FALSE /\ subscribed = FALSE
  /\ loginGen = 0 /\ subGen = 0
  /\ loginDone = FALSE /\ loginOk = FALSE /\ loginOf = 0 /\ misled = FALSE
  /\ subDone = FALSE /\ subOk = FALSE
  /\ enabled = FALSE /\ mpq = "none" /\ queue = <<>>
  /\ caller = "idle" /\ work = Idle /\ cb = NoCallback
  /\ sdkReady = FALSE /\ sdkConns = {} /\ sdkLogin = "none" /\ sdkSub = "none"
  /\ used = {} /\ made = 0
  /\ confirmed = {}
  /\ inits = 0 /\ joins = 0 /\ callbacks = 0

-----------------------------------------------------------------------------
(* The control worker: calls are posted and waited for.                    *)

\* rtc_call fails when the queue has no room; the caller then has its answer.
PostCall(name) ==
  IF Room THEN queue' = Append(queue, [kind |-> name]) /\ caller' = "waiting"
          ELSE UNCHANGED <<queue, caller>>

\* The gate is a lock: it is taken only when the callback thread is not in it.
GateFree == cb.at # "posting"

CallInit ==
  /\ caller = "idle" /\ inits < MaxInits /\ GateFree
  /\ inits' = inits + 1
  /\ mpq' = "live" /\ enabled' = TRUE
  /\ PostCall("init")
  /\ UNCHANGED <<session, waits, work, cb, sdk, confirmed, joins, callbacks>>

CallJoin ==
  /\ caller = "idle" /\ mpq = "live" /\ joins < MaxJoins
  /\ joins' = joins + 1
  /\ PostCall("join")
  /\ UNCHANGED <<session, waits, enabled, mpq, work, cb, sdk, confirmed, inits, callbacks>>

CallLeaveOrFini ==
  /\ caller = "idle" /\ mpq = "live"
  /\ \E name \in {"leave", "fini"} : PostCall(name)
  /\ UNCHANGED <<session, waits, enabled, mpq, work, cb, sdk, confirmed, bounds>>

\* After fini the caller waits for whatever was queued behind it, destroys
\* the queue and only then withdraws its identifier.
FiniBarrier ==
  /\ caller = "finiOk"
  /\ IF Room THEN queue' = Append(queue, [kind |-> "barrier"]) /\ caller' = "waiting"
             ELSE UNCHANGED queue /\ caller' = "idle"
  /\ UNCHANGED <<session, waits, enabled, mpq, work, cb, sdk, confirmed, bounds>>

\* The destruction may fail; the queue is then retained.
DestroyQueue ==
  /\ caller \in {"finiFailed", "barrierPassed"}
  /\ \/ mpq' = "destroyed" /\ queue' = <<>> /\ caller' = "retire"
     \/ UNCHANGED <<mpq, queue>> /\ caller' = "idle"
  /\ UNCHANGED <<session, waits, enabled, work, cb, sdk, confirmed, bounds>>

RetireQueue ==
  /\ caller = "retire"
  /\ mpq' = "none" /\ caller' = "idle"
  /\ UNCHANGED <<session, waits, enabled, queue, work, cb, sdk, confirmed, bounds>>

-----------------------------------------------------------------------------
(* The RTC worker                                                          *)
(*                                                                         *)
(* work holds the step to do next (at), the call it belongs to, whether    *)
(* all went well so far (ok), whether this join logged in to RTM itself    *)
(* (own) and the connection being torn down (id).                          *)

Goto(step) == work' = [work EXCEPT !.at = step] /\ UNCHANGED caller
Start(name, step) ==
  work' = [call |-> name, at |-> step, ok |-> TRUE, own |-> FALSE, id |-> NoConn]
Return(answer) == caller' = answer /\ work' = Idle

TakeCall(name) ==
  /\ work = Idle /\ mpq = "live" /\ queue # <<>> /\ Head(queue).kind = name
  /\ queue' = Tail(queue)

ClearSubscription ==
  subRequested' = FALSE /\ subCompleted' = FALSE /\ subscribed' = FALSE

ClearLogin == requested' = FALSE /\ loggedIn' = FALSE /\ ClearSubscription

PassBarrier ==
  /\ TakeCall("barrier")
  /\ Return("barrierPassed")
  /\ UNCHANGED <<session, waits, enabled, mpq, cb, sdk, confirmed, bounds>>

\* A session that was initialized before is left as it is, or refused.
DoInit ==
  /\ TakeCall("init")
  /\ Return("idle")
  /\ IF state # "idle"
     THEN UNCHANGED <<state, conn, rtm, sdkReady>>
     ELSE /\ conn' = NoConn /\ ClearLogin
          /\ \/ state' = "initialized" /\ sdkReady' = TRUE
             \/ state' = "idle" /\ UNCHANGED sdkReady
          /\ UNCHANGED <<loginGen, subGen>>
  /\ UNCHANGED <<waits, enabled, mpq, cb, sdkConns, used, made, sdkLogin, sdkSub, confirmed,
                 bounds>>

\* What the wait for the login looks at, before the SDK is asked to log in.
ResetLoginFlags == loginDone' = FALSE /\ loginOk' = FALSE /\ loginOf' = 0

\* A join logs in to RTM unless it finds a login, which is that of a live
\* session; the SDK may refuse.
DoJoin ==
  /\ TakeCall("join")
  /\ \/ /\ requested
        /\ Start("join", "awaitLogin")
        /\ UNCHANGED <<caller, rtm, loginFlags, misled, sdkLogin, sdkSub, confirmed>>
     \/ /\ ~requested /\ state = "initialized" /\ conn = NoConn
        /\ loginGen' = loginGen + 1 /\ ResetLoginFlags
        /\ requested' = TRUE /\ loggedIn' = FALSE
        /\ sdkLogin' = "pending" /\ sdkSub' = "none" /\ confirmed' = {} /\ misled' = FALSE
        /\ work' = [call |-> "join", at |-> "awaitLogin", ok |-> TRUE, own |-> TRUE, id |-> NoConn]
        /\ UNCHANGED <<caller, subRequested, subCompleted, subscribed, subGen>>
     \/ /\ ~requested /\ state = "initialized" /\ conn = NoConn
        /\ loginGen' = loginGen + 1 /\ ResetLoginFlags /\ ClearLogin
        /\ Return("idle")
        /\ UNCHANGED <<subGen, misled, sdkLogin, sdkSub, confirmed>>
     \/ /\ ~requested /\ (state # "initialized" \/ conn # NoConn)
        /\ Return("idle")
        /\ UNCHANGED <<rtm, loginFlags, misled, sdkLogin, sdkSub, confirmed>>
  /\ UNCHANGED <<state, conn, subDone, subOk, enabled, mpq, cb, sdkReady, sdkConns, used, made,
                 bounds>>

\* Mutant: a failed join returns without logging out.
UnwindNothing == Return("idle")

\* A join that fails undoes the login it made, and no other.  The code logs out as well
\* when the join has begun to subscribe: a join that gets so far logged in itself.
Unwind == IF work.own THEN Goto("logout") ELSE Return("idle")

\* The login is over for the session, because of a report of the login "of".
Forgets(of) == misled' = (misled \/ of # loginGen)

\* wait_for_rtm_login: an answer, or five seconds without one.
AwaitLogin ==
  /\ work.at = "awaitLogin"
  /\ \/ /\ loginDone /\ loginOk
        /\ loggedIn' = TRUE
        /\ IF state = "initialized" /\ conn = NoConn THEN Goto("subscribe") ELSE Unwind
        /\ UNCHANGED <<requested, subRequested, subCompleted, subscribed, misled>>
     \/ /\ loginDone /\ ~loginOk /\ ClearLogin /\ Return("idle")
        /\ Forgets(loginOf)
     \/ /\ ~loginDone /\ Unwind
        /\ UNCHANGED <<requested, loggedIn, subRequested, subCompleted, subscribed, misled>>
  /\ UNCHANGED <<state, conn, loginGen, subGen, loginFlags, subDone, subOk, enabled, mpq,
                 queue, cb, sdk, confirmed, bounds>>

\* Mutant: the flags of an earlier subscription are not reset.
ResetSubFlagsNever == UNCHANGED <<subDone, subOk>>

\* What the wait for the subscription looks at, before the SDK is asked to subscribe.
ResetSubFlags == subDone' = FALSE /\ subOk' = FALSE

Subscribe ==
  /\ work.at = "subscribe"
  /\ subGen' = subGen + 1
  /\ ResetSubFlags
  /\ subCompleted' = FALSE /\ subscribed' = FALSE
  /\ \/ /\ subRequested' = TRUE
        /\ sdkSub' = IF sdkLogin = "in" THEN "pending" ELSE "none"
        /\ confirmed' = confirmed \ {"sub"}
        /\ Goto("awaitSub")
     \/ /\ subRequested' = FALSE /\ Unwind
        /\ UNCHANGED <<sdkSub, confirmed>>
  /\ UNCHANGED <<state, conn, requested, loggedIn, loginGen, loginFlags, misled, enabled, mpq,
                 queue, cb, sdkReady, sdkConns, used, made, sdkLogin, bounds>>

\* wait_for_rtm_subscription: as the login; every failure logs out.
AwaitSub ==
  /\ work.at = "awaitSub"
  /\ IF subDone
     THEN /\ subCompleted' = TRUE /\ subscribed' = subOk
          /\ IF subOk THEN Goto("connect") ELSE Goto("logout")
     ELSE Goto("logout") /\ UNCHANGED <<subCompleted, subscribed>>
  /\ UNCHANGED <<state, conn, requested, loggedIn, subRequested, loginGen, subGen, waits,
                 enabled, mpq, queue, cb, sdk, confirmed, bounds>>

\* A callback may outlive its connection, so an identifier does not come back
\* before the SDK is finalized.
CreateConnection ==
  /\ work.at = "connect"
  /\ \/ \E c \in Conns \ used :
          /\ sdkConns' = sdkConns \cup {[id |-> c, of |-> made + 1]}
          /\ made' = made + 1
          /\ used' = used \cup {c}
          /\ conn' = c /\ state' = "connecting"
          /\ Goto("joinChannel")
     \/ Unwind /\ UNCHANGED <<state, conn, sdkConns, used, made>>
  /\ UNCHANGED <<rtm, waits, enabled, mpq, queue, cb, sdkReady, sdkLogin, sdkSub, confirmed,
                 bounds>>

JoinChannel ==
  /\ work.at = "joinChannel"
  /\ \/ Return("idle") /\ UNCHANGED conn
     \/ /\ conn' = NoConn
        /\ work' = [work EXCEPT !.at = "destroy", !.id = conn]
        /\ UNCHANGED caller
  /\ UNCHANGED <<state, rtm, waits, enabled, mpq, queue, cb, sdk, confirmed, bounds>>

\* The connection of a failed join, of a leave or of a fini goes.  If the SDK
\* cannot destroy it, the session is unusable until fini.
Destroy ==
  /\ work.at = "destroy"
  /\ \/ /\ sdkConns' = {k \in sdkConns : k.id # work.id}
        /\ state' = "initialized"
        /\ Goto("logout")
     \/ /\ state' = "error"
        /\ work' = [work EXCEPT !.at = "logout", !.ok = FALSE]
        /\ UNCHANGED <<caller, sdkConns>>
  /\ UNCHANGED <<conn, rtm, waits, enabled, mpq, queue, cb, sdkReady, used, made, sdkLogin,
                 sdkSub, confirmed, bounds>>

\* Leave and fini give up the connection before anything else.
LeaveChannel ==
  IF conn = NoConn THEN Goto("logout") /\ UNCHANGED conn
  ELSE /\ conn' = NoConn
       /\ \E ok \in BOOLEAN : work' = [work EXCEPT !.at = "destroy", !.id = conn, !.ok = ok]
       /\ UNCHANGED caller

DoLeave ==
  \/ /\ TakeCall("leave") /\ Start("leave", "leave")
     /\ UNCHANGED <<caller, session, waits, enabled, mpq, cb, sdk, confirmed, bounds>>
  \/ /\ work.at = "leave" /\ LeaveChannel
     /\ UNCHANGED <<state, rtm, waits, enabled, mpq, queue, cb, sdk, confirmed, bounds>>

\* Audio and video are sent on a connection that is up, a token is renewed on
\* any; neither changes the session.
SendAccepted == state = "connected" /\ conn # NoConn
RenewAccepted == conn # NoConn

\* Mutant: callbacks are disabled without taking the gate.
DoFiniWithoutGate ==
  /\ TakeCall("fini")
  /\ enabled' = FALSE
  /\ IF state = "idle" THEN Return("finiOk") ELSE Start("fini", "leave") /\ UNCHANGED caller
  /\ UNCHANGED <<session, waits, mpq, cb, sdk, confirmed, bounds>>

\* Callbacks are disabled first, under the gate.
DoFini ==
  /\ TakeCall("fini") /\ GateFree
  /\ enabled' = FALSE
  /\ IF state = "idle" THEN Return("finiOk") ELSE Start("fini", "leave") /\ UNCHANGED caller
  /\ UNCHANGED <<session, waits, mpq, cb, sdk, confirmed, bounds>>

\* rtc_logout_rtm_impl: the session's record goes even when the SDK refuses.
Logout ==
  /\ work.at = "logout"
  /\ \/ /\ ~requested /\ ClearSubscription
        /\ UNCHANGED <<requested, loggedIn, sdkLogin, sdkSub>>
        /\ IF work.call = "fini" THEN Goto("sdkFini") ELSE Return("idle")
     \/ /\ requested /\ ClearLogin
        /\ \E ok \in BOOLEAN :
             /\ sdkLogin' = IF ok THEN "none" ELSE "leaked"
             /\ sdkSub' = "none"
             /\ IF work.call = "fini"
                THEN /\ work' = [work EXCEPT !.at = "sdkFini", !.ok = ok /\ work.ok]
                     /\ UNCHANGED caller
                ELSE Return("idle")
  /\ UNCHANGED <<state, conn, loginGen, subGen, waits, enabled, mpq, queue, cb, sdkReady,
                 sdkConns, used, made, confirmed, bounds>>

\* agora_rtc_fini waits for the callback thread, unless it fails.
SdkFini ==
  /\ work.at = "sdkFini"
  /\ \/ /\ cb = NoCallback
        /\ state' = "idle" /\ conn' = NoConn /\ ClearLogin
        /\ sdkReady' = FALSE /\ sdkConns' = {} /\ used' = {}
        /\ sdkLogin' = "none" /\ sdkSub' = "none"
        /\ Return(IF work.ok THEN "finiOk" ELSE "finiFailed")
        /\ UNCHANGED <<loginGen, subGen, made>>
     \/ /\ state' = "error"
        /\ Return("finiFailed")
        /\ UNCHANGED <<conn, rtm, sdk>>
  /\ UNCHANGED <<waits, enabled, mpq, queue, cb, confirmed, bounds>>

-----------------------------------------------------------------------------
(* The RTC worker: events *)

\* Mutant: any event is taken for one of the present connection.
AnyConnectionIsActive(c) == conn # NoConn

ConnectionIsActive(c) == c # NoConn /\ c = conn

\* Whether the handler of an event acts on it; otherwise it returns early.
Heeded(e) ==
  \/ e.kind = "login" /\ requested /\ e.gen = loginGen
  \/ e.kind = "kickoff" /\ requested
  \/ e.kind = "data" /\ requested /\ e.gen = loginGen
  \/ e.kind = "subResult" /\ subRequested /\ e.gen = subGen
  \/ e.kind = "subData" /\ subscribed /\ e.gen = subGen
  \/ e.kind \in ConnKinds /\ ConnectionIsActive(e.conn)

ProcessEvent ==
  /\ work = Idle /\ mpq = "live" /\ queue # <<>>
  /\ LET e == Head(queue) IN
     /\ e.kind \in RtmKinds \cup ConnKinds
     /\ state' = IF Heeded(e) /\ e.kind \in DOMAIN StateAfter THEN StateAfter[e.kind] ELSE state
     /\ \/ /\ Heeded(e) /\ e.kind = "login" /\ e.ok
           /\ loggedIn' = TRUE
           /\ UNCHANGED <<requested, subRequested, subCompleted, subscribed, misled>>
        \/ /\ Heeded(e) /\ (e.kind = "kickoff" \/ (e.kind = "login" /\ ~e.ok))
           /\ ClearLogin /\ Forgets(e.of)
        \/ /\ Heeded(e) /\ e.kind = "subResult"
           /\ subCompleted' = TRUE /\ subscribed' = e.ok
           /\ UNCHANGED <<requested, loggedIn, subRequested, misled>>
        \/ /\ ~(Heeded(e) /\ e.kind \in {"login", "kickoff", "subResult"})
           /\ UNCHANGED <<requested, loggedIn, subRequested, subCompleted, subscribed, misled>>
  /\ queue' = Tail(queue)
  /\ UNCHANGED <<conn, loginGen, subGen, loginFlags, subDone, subOk, enabled, mpq, caller,
                 work, cb, sdk, confirmed, bounds>>

-----------------------------------------------------------------------------
(* The SDK and its callback thread *)

\* The SDK reports something; "of" is the session it is about.  What is assumed of it: it
\* has one callback under way at a time; it answers a login while that login is pending and
\* reports on RTM otherwise only while it is logged in; it subscribes only a user who is
\* logged in.  A report may still be carried out long after.  KICKOFF and EXIT are one kind:
\* the code handles them alike.
Raise ==
  /\ cb = NoCallback /\ sdkReady /\ callbacks < MaxCallbacks
  /\ callbacks' = callbacks + 1
  /\ \/ \E k \in sdkConns, kind \in ConnKinds :
          /\ cb' = [at |-> "post", event |-> [kind |-> kind, conn |-> k.id, of |-> k.of]]
          /\ UNCHANGED <<sdkLogin, sdkSub, confirmed>>
     \/ \E kind \in RtmKinds, ok \in BOOLEAN :
          /\ CASE kind = "login" -> sdkLogin = "pending"
               [] kind = "subResult" -> sdkSub = "pending"
               [] kind = "subData" -> sdkSub = "in" /\ ok
               [] OTHER -> sdkLogin = "in" /\ ok
          /\ cb' = [at |-> "check",
                    event |-> [kind |-> kind, conn |-> NoConn, ok |-> ok,
                               of |-> IF kind \in {"subResult", "subData"} THEN subGen
                                      ELSE loginGen]]
          /\ sdkLogin' = CASE kind = "login" -> IF ok THEN "in" ELSE "none"
                           [] kind = "kickoff" -> "none"
                           [] OTHER -> sdkLogin
          /\ sdkSub' = CASE kind = "subResult" -> IF ok THEN "in" ELSE "none"
                         [] kind = "kickoff" -> "none"
                         [] OTHER -> sdkSub
          /\ confirmed' = CASE kind = "login" /\ ok -> confirmed \cup {"login"}
                            [] kind = "subResult" /\ ok -> confirmed \cup {"sub"}
                            [] OTHER -> confirmed
  /\ UNCHANGED <<session, waits, enabled, mpq, queue, caller, work, sdkReady, sdkConns, used,
                 made, inits, joins>>

\* An RTM callback looks at the session under the gate.
CheckRtm ==
  /\ cb.at = "check"
  /\ LET kind == cb.event.kind IN
     cb' = IF /\ enabled
              /\ kind \in {"login", "data"} => requested
              /\ kind \in {"subResult", "subData"} => subRequested
           THEN [cb EXCEPT !.at = "answer"] ELSE NoCallback
  /\ UNCHANGED <<session, waits, enabled, mpq, queue, caller, work, sdk, confirmed, bounds>>

\* ... then tells the join that waits for it ...
AnswerWait ==
  /\ cb.at = "answer"
  /\ LET e == cb.event IN
     /\ loginDone' = IF e.kind = "login" THEN TRUE ELSE loginDone
     /\ loginOk' = IF e.kind = "login" THEN e.ok ELSE loginOk
     /\ loginOf' = IF e.kind = "login" THEN e.of ELSE loginOf
     /\ subDone' = IF e.kind = "subResult" THEN TRUE ELSE subDone
     /\ subOk' = IF e.kind = "subResult" THEN e.ok ELSE subOk
  /\ UNCHANGED misled
  /\ cb' = [cb EXCEPT !.at = "tag"]
  /\ UNCHANGED <<session, enabled, mpq, queue, caller, work, sdk, confirmed, bounds>>

\* ... and marks the event with the generation of the session it finds.
TagRtm ==
  /\ cb.at = "tag"
  /\ LET e == cb.event
         gen == IF e.kind \in {"subResult", "subData"} THEN subGen ELSE loginGen
     IN cb' = [at |-> "post",
               event |-> [kind |-> e.kind, conn |-> NoConn, ok |-> e.ok, of |-> e.of,
                          gen |-> gen]]
  /\ UNCHANGED <<session, waits, enabled, mpq, queue, caller, work, sdk, confirmed, bounds>>

\* rtc_event_queue: the queue and the flag are read under the gate, which is
\* kept until the event is posted.
EnterGate ==
  /\ cb.at = "post"
  /\ cb' = IF mpq # "none" /\ enabled THEN [cb EXCEPT !.at = "posting"] ELSE NoCallback
  /\ UNCHANGED <<session, waits, enabled, mpq, queue, caller, work, sdk, confirmed, bounds>>

\* Mutant: a full queue makes the callback thread wait.
PostEventBlocking ==
  /\ cb.at = "posting" /\ Room
  /\ queue' = Append(queue, cb.event)
  /\ cb' = NoCallback
  /\ UNCHANGED <<session, waits, enabled, mpq, caller, work, sdk, confirmed, bounds>>

\* An event for which the queue has no room is dropped.
PostEvent ==
  /\ cb.at = "posting"
  /\ queue' = IF mpq = "live" /\ Room THEN Append(queue, cb.event) ELSE queue
  /\ cb' = NoCallback
  /\ UNCHANGED <<session, waits, enabled, mpq, caller, work, sdk, confirmed, bounds>>

-----------------------------------------------------------------------------
Control == CallInit \/ CallJoin \/ CallLeaveOrFini
FinishFini == FiniBarrier \/ DestroyQueue \/ RetireQueue
Worker ==
  \/ PassBarrier \/ DoInit \/ DoJoin \/ AwaitLogin \/ Subscribe \/ AwaitSub
  \/ CreateConnection \/ JoinChannel \/ Destroy \/ DoLeave \/ DoFini \/ Logout \/ SdkFini
  \/ ProcessEvent
CallbackThread == CheckRtm \/ AnswerWait \/ TagRtm \/ EnterGate \/ PostEvent

Next == Control \/ FinishFini \/ Worker \/ Raise \/ CallbackThread

Spec == Init /\ [][Next]_vars

-----------------------------------------------------------------------------
(* Properties *)

\* The notification of a connection is acted on only while that connection is the
\* session's: a late one of an earlier connection neither changes the session nor
\* reaches the application, however it was delayed on its way through the queue.
HeedsOwnConnectionOnly ==
  work = Idle /\ queue # <<>> =>
    LET e == Head(queue) IN e.kind \in ConnKinds /\ Heeded(e) => e.of = made

\* A callback that found callbacks enabled posts to a queue that is alive,
\* and nothing is left behind for a queue that is gone.
RetiredQueueIsSilent ==
  mpq # "live" => cb.at # "posting" /\ queue = <<>>

\* Between calls the session and the SDK agree: what is sent or renewed goes to
\* a connection the SDK has, the SDK has no other unless it failed to destroy
\* it, and RTM is logged in only for a connection in use.  The exception is a login
\* that the session forgot because of a report of an earlier one, which the code does not
\* always tell apart: it then never logs out.
NothingLeftBehind ==
  work = Idle =>
    /\ SendAccepted \/ RenewAccepted => \E k \in sdkConns : k.id = conn
    /\ (\E k \in sdkConns : k.id # conn) => state = "error"
    /\ sdkLogin \in {"pending", "in"} => requested \/ misled
    /\ requested => conn # NoConn
    /\ state \in InSession <=> (conn # NoConn /\ state # "error")

\* A connection is created and joined only after the SDK confirmed the login this join
\* asked for and the subscription it made with it, although the callback thread answers
\* the waits of a join through flags that a late answer to an earlier join may set.
JoinsConfirmed ==
  work.at \in {"connect", "joinChannel"} => confirmed = {"login", "sub"}

\* A channel is subscribed to only after the SDK confirmed the login of this join.  The
\* run rtc_stale_login finds that it may not be: an answer to an earlier login that passed
\* the gate before that join gave up sets the flags the next join has just reset.
LoginConfirmedFirst == work.at = "subscribe" => "login" \in confirmed

\* Who can take a step, by the waits of the code: the RTC worker has a call in
\* hand or something in the queue, and only a fini at the head of the queue
\* waits, for the gate; the callback thread and the last steps of a fini wait
\* for nobody.
WorkerCanGoOn ==
  \/ work # Idle
  \/ mpq = "live" /\ queue # <<>> /\ (Head(queue).kind = "fini" => GateFree)
SomeoneCanGoOn ==
  WorkerCanGoOn \/ cb # NoCallback \/ caller \notin {"idle", "waiting"}

\* No call waits for ever: while one is under way the RTC worker, the callback
\* thread or the caller can go on, and those who can by the waits above really
\* have a step.  The SDK's teardown waits for the callback thread, which holds
\* the gate while it posts and must not wait for the RTC worker in turn: hence
\* the queue that drops what it has no room for.
CallsNeverStuck ==
  /\ caller # "idle" => SomeoneCanGoOn
  /\ WorkerCanGoOn => ENABLED Worker
  /\ cb # NoCallback => ENABLED CallbackThread
  /\ caller \notin {"idle", "waiting"} => ENABLED FinishFini

=============================================================================
