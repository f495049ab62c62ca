-------------------------- MODULE RtcSessionProofs --------------------------
(***************************************************************************)
(* Proofs about the RTC session: one call at a time and a queue that is    *)
(* silent once it is retired; a session and an SDK that agree between      *)
(* calls; notices heeded for their own connection; and joins that go as    *)
(* far as the SDK confirmed.                                               *)
(***************************************************************************)
EXTENDS RtcSession, TLAPS

Calls == {"init", "join", "leave", "fini", "barrier"}
SubKinds == {"subResult", "subData"}
Steps == {"leave", "awaitLogin", "subscribe", "awaitSub", "connect", "joinChannel", "destroy",
          "logout", "sdkFini"}

CallItems == [kind : Calls]
ConnEvents == [kind : ConnKinds, conn : Conns, of : Nat]
RtmReports == [kind : RtmKinds, conn : {NoConn}, ok : BOOLEAN, of : Nat]
RtmEvents == [kind : RtmKinds, conn : {NoConn}, ok : BOOLEAN, of : Nat, gen : Nat]
Events == ConnEvents \cup RtmEvents
Items == CallItems \cup Events
CallRecords == [call : Calls, at : Steps, ok : BOOLEAN, own : BOOLEAN, id : Conns \cup {NoConn}]

\* What the variables hold: an event is marked with a generation between the
\* report of the SDK and the gate.
FlagTypes ==
  /\ requested \in BOOLEAN /\ subRequested \in BOOLEAN /\ subscribed \in BOOLEAN
  /\ loginDone \in BOOLEAN /\ loginOk \in BOOLEAN /\ subDone \in BOOLEAN /\ subOk \in BOOLEAN
  /\ enabled \in BOOLEAN

DataTypes ==
  /\ state \in InSession \cup {"idle", "initialized", "error"}
  /\ conn \in Conns \cup {NoConn}
  /\ loginGen \in Nat /\ subGen \in Nat /\ made \in Nat
  /\ mpq \in {"none", "live", "destroyed"}
  /\ queue \in Seq(Items)
  /\ sdkLogin \in {"none", "pending", "in", "leaked"}
  /\ sdkSub \in {"none", "pending", "in"}
  /\ sdkConns \subseteq [id : Conns, of : Nat]
  /\ confirmed \subseteq {"login", "sub"}

ThreadTypes ==
  /\ caller \in {"idle", "waiting", "finiOk", "finiFailed", "barrierPassed", "retire"}
  /\ work = Idle \/ work \in CallRecords
  /\ \/ cb = NoCallback
     \/ cb \in [at : {"check", "answer", "tag"}, event : RtmReports]
     \/ cb \in [at : {"post", "posting"}, event : Events]

SessionTypes == FlagTypes /\ DataTypes /\ ThreadTypes

\* One call at a time: the caller waits for the one call that is in the queue
\* or in the worker's hands.  Callbacks are disabled from the start of fini
\* until the next init, so that nothing is posted to a queue on its way out.
CallInv ==
  /\ caller # "waiting" \/ work # Idle => \A n \in DOMAIN queue : queue[n].kind \notin Calls
  /\ work # Idle => caller = "waiting"
  /\ \A n, m \in DOMAIN queue : queue[n].kind \in Calls /\ queue[m].kind \in Calls => n = m
  /\ work # Idle /\ work.call = "fini" => enabled = FALSE
  /\ work.at = "sdkFini" => work.call = "fini"
  /\ (\E n \in DOMAIN queue : queue[n].kind = "barrier") => enabled = FALSE
  /\ caller \notin {"idle", "waiting"} => enabled = FALSE
  /\ enabled => mpq = "live"
  /\ cb.at = "posting" => enabled
  /\ caller = "retire" => mpq = "destroyed"
  /\ mpq # "live" => queue = <<>> /\ caller \in {"idle", "retire"}

\* The session, the worker's step and the SDK's connections.
ConnInv ==
  /\ conn # NoConn => state \in InSession \cup {"error"} /\ \E k \in sdkConns : k.id = conn
  /\ \A k \in sdkConns : k.id = conn => k.of = made
  /\ \A k \in sdkConns : k.id # conn =>
       conn = NoConn /\ (state = "error" \/ work.at = "destroy")
  /\ state \in InSession => conn # NoConn \/ work.at = "destroy"
  /\ work.at = "destroy" => \A k \in sdkConns : k.id = work.id
  /\ work.at \in {"destroy", "logout", "sdkFini"} => conn = NoConn
  /\ work.at \in {"subscribe", "awaitSub", "connect"} => state = "initialized" /\ conn = NoConn
  /\ work.at \in {"subscribe", "awaitSub", "connect", "joinChannel"} => work.own = TRUE
  /\ work.at = "joinChannel" => conn # NoConn
  /\ work.at = "awaitLogin" => (work.own = TRUE <=> state = "initialized" /\ conn = NoConn)
  /\ requested /\ conn = NoConn =>
       work.at \in {"awaitLogin", "subscribe", "awaitSub", "connect", "destroy", "logout"}
  /\ work.at = "awaitLogin" /\ conn = NoConn => work.own = TRUE

\* While the session is idle the SDK is down, and what is left in the queue
\* is handled before the next call.
IdleInv ==
  state = "idle" =>
    /\ conn = NoConn /\ requested = FALSE
    /\ sdkReady = FALSE /\ sdkConns = {} /\ sdkLogin = "none" /\ sdkSub = "none"
    /\ cb = NoCallback
    /\ work = Idle \/ (work.call = "leave" /\ work.at \in {"leave", "logout"})
    /\ \A n \in DOMAIN queue : queue[n].kind \in Calls => n = Len(queue)

\* A notification names a connection made since the SDK was initialized, and
\* the last one if it names the present one.
OwnConn(e) ==
  e.kind \in ConnKinds => e.conn \in used /\ (e.conn = conn => e.of = made)

NoticeInv ==
  /\ \A k \in sdkConns : k.id \in used
  /\ state # "idle" =>
       /\ \A n \in DOMAIN queue : OwnConn(queue[n])
       /\ cb # NoCallback => OwnConn(cb.event)

\* What ends a login.
Ends(e) == e.kind = "kickoff" \/ (e.kind = "login" /\ e.ok = FALSE)
LoggedIn == sdkLogin \in {"pending", "in"}

\* No report is about a login still to come.
AboutLogin(e) == e.kind \in {"login", "kickoff"} => e.of \in 0 .. loginGen

ReportInv ==
  /\ loginOf \in 0 .. loginGen
  /\ \A n \in DOMAIN queue : AboutLogin(queue[n])
  /\ cb # NoCallback => AboutLogin(cb.event)

\* While the SDK holds a login, whatever says that a login is over is about an
\* earlier one: a session that believes it has been misled.
LoginInv ==
  /\ LoggedIn => requested \/ misled
  /\ sdkSub # "none" => sdkLogin = "in"
  /\ LoggedIn =>
       /\ \A n \in DOMAIN queue : Ends(queue[n]) => queue[n].of # loginGen
       /\ cb # NoCallback /\ Ends(cb.event) => cb.event.of # loginGen
       /\ loginDone /\ loginOk = FALSE => loginOf # loginGen

\* What a join in progress knows of the SDK's answers.  There is no subscription
\* before it asks for one, and the answer to an earlier one has been dealt with by
\* the time its login is answered: the SDK has one callback under way at a time.
JoinSteps == {"awaitLogin", "subscribe", "awaitSub", "connect", "joinChannel"}
JoinInv ==
  /\ sdkLogin = "in" => "login" \in confirmed
  /\ "sub" \in confirmed => "login" \in confirmed
  /\ work.at \in {"awaitLogin", "subscribe"} /\ work.own = TRUE => sdkSub = "none"
  /\ (work.at = "awaitLogin" /\ work.own = TRUE /\ loginDone) \/ work.at = "subscribe" =>
       ~(cb.at \in {"check", "answer"} /\ cb.event.kind = "subResult")
  /\ work.at = "awaitSub" =>
       /\ subDone /\ subOk => "sub" \in confirmed
       /\ cb.at \in {"check", "answer"} /\ cb.event.kind = "subResult" /\ cb.event.ok =>
            "sub" \in confirmed
  /\ work.at \in {"connect", "joinChannel"} => "sub" \in confirmed
-----------------------------------------------------------------------------
(* The alphabet of the queue, and its positions.                            *)

\* The events of connections, those of RTM and the calls are told apart by
\* their kind, and a notification that changes the state makes it one of a
\* session.
LEMMA Kinds ==
  /\ ConnKinds = {"joined", "reconnecting", "lost", "failed", "media"}
  /\ \A kind \in DOMAIN StateAfter : StateAfter[kind] \in InSession \cup {"error"}
  /\ DOMAIN StateAfter \subseteq ConnKinds
  /\ ConnKinds \cap RtmKinds = {} /\ ConnKinds \cap Calls = {} /\ RtmKinds \cap Calls = {}
<1>1. DOMAIN StateAfter = {"joined", "reconnecting", "lost", "failed"}
  BY DEF StateAfter
<1> QED
  BY <1>1 DEF ConnKinds, StateAfter, InSession, RtmKinds, Calls

\* Where the elements of a longer and of a shorter queue come from.
LEMMA Positions ==
  ASSUME NEW S, NEW q \in Seq(S)
  PROVE  /\ Len(q) \in Nat /\ DOMAIN q = 1 .. Len(q)
         /\ q # <<>> => 1 \in DOMAIN q /\ Head(q) = q[1] /\ q[1] \in S
         /\ q # <<>> =>
              /\ Tail(q) \in Seq(S)
              /\ Len(Tail(q)) = Len(q) - 1
              /\ \A n \in DOMAIN Tail(q) :
                   n \in Nat /\ n + 1 \in DOMAIN q /\ Tail(q)[n] = q[n + 1]
         /\ \A x \in S :
              /\ Append(q, x) \in Seq(S)
              /\ Len(Append(q, x)) = Len(q) + 1
              /\ \A n \in DOMAIN Append(q, x) :
                   \/ n \in DOMAIN q /\ Append(q, x)[n] = q[n]
                   \/ n = Len(q) + 1 /\ n \notin DOMAIN q /\ Append(q, x)[n] = x
  OBVIOUS

\* A call is an item of the queue, and posting one adds it or leaves the queue
\* as it is.
LEMMA Posting ==
  ASSUME queue \in Seq(Items), NEW name \in Calls, PostCall(name)
  PROVE  /\ [kind |-> name] \in Items
         /\ queue' \in Seq(Items)
         /\ \/ queue' = Append(queue, [kind |-> name]) /\ caller' = "waiting"
            \/ UNCHANGED <<queue, caller>>
<1>1. [kind |-> name] \in Items
  BY DEF Items, CallItems
<1> QED
  BY <1>1 DEF PostCall

\* What an item of the queue holds, by its kind.
LEMMA ItemKinds ==
  \A e \in Items :
    /\ e.kind \in Calls => e \in CallItems
    /\ e.kind \in ConnKinds => e \in ConnEvents
    /\ e.kind \in RtmKinds => e \in RtmEvents /\ e.ok \in BOOLEAN
    /\ e.kind \in Calls \cup RtmKinds \cup ConnKinds
  BY Kinds DEF Items, Events, CallItems, ConnEvents, RtmEvents

\* The records a call starts with.
LEMMA Fresh ==
  ASSUME NEW name \in Calls, NEW step \in Steps, NEW own \in BOOLEAN
  PROVE  [call |-> name, at |-> step, ok |-> TRUE, own |-> own, id |-> NoConn] \in CallRecords
  BY DEF CallRecords

-----------------------------------------------------------------------------
(* Types                                                                   *)

\* The initial state is well typed.
LEMMA TypesInit == Init => SessionTypes
<1> SUFFICES ASSUME Init PROVE SessionTypes
  OBVIOUS
<1>1. FlagTypes
  BY Zenon DEF Init, FlagTypes
<1>2. DataTypes /\ ThreadTypes
  BY DEF Init, DataTypes, ThreadTypes
<1> QED
  BY <1>1, <1>2 DEF SessionTypes

\* The flags are boolean.
LEMMA FlagStep == SessionTypes /\ [Next]_vars => FlagTypes'
<1> SUFFICES ASSUME SessionTypes, [Next]_vars PROVE FlagTypes'
  OBVIOUS
<1> USE Kinds
<1> USE DEF session, rtm, waits, loginFlags, sdk, bounds
<1>1. CASE \/ CallJoin \/ CallLeaveOrFini \/ FiniBarrier \/ DestroyQueue
           \/ RetireQueue \/ PassBarrier \/ CreateConnection \/ JoinChannel
           \/ Destroy \/ DoLeave \/ Raise \/ CheckRtm \/ TagRtm \/ EnterGate
           \/ PostEvent
  <2>1. UNCHANGED <<requested, subRequested, subscribed, loginDone, loginOk, subDone, subOk,
                    enabled>>
    BY <1>1 DEF CallJoin, CallLeaveOrFini, FiniBarrier, DestroyQueue, RetireQueue,
       PassBarrier, CreateConnection, JoinChannel, Destroy, DoLeave, Raise, CheckRtm,
       TagRtm, EnterGate, PostEvent, PostCall, Room, TakeCall, Return, Goto, Unwind,
       Start, LeaveChannel
  <2> QED
    BY <2>1 DEF FlagTypes, SessionTypes
<1>2. CASE CallInit
  BY <1>2 DEF CallInit, GateFree, PostCall, Room, FlagTypes, SessionTypes
<1>3. CASE DoInit
  BY <1>3 DEF DoInit, TakeCall, Return, ClearLogin, ClearSubscription, FlagTypes,
     SessionTypes
<1>4. CASE DoJoin
  BY <1>4 DEF DoJoin, TakeCall, Start, ResetLoginFlags, ClearLogin, Return,
     ClearSubscription, FlagTypes, SessionTypes
<1>5. CASE AwaitLogin
  BY <1>5 DEF AwaitLogin, Goto, Unwind, ClearLogin, Return, ClearSubscription,
     FlagTypes, SessionTypes
<1>6. CASE Subscribe
  BY <1>6 DEF Subscribe, ResetSubFlags, Goto, Unwind, Return, FlagTypes, SessionTypes
<1>7. CASE AwaitSub
  BY <1>7 DEF AwaitSub, Goto, FlagTypes, SessionTypes
<1>8. CASE DoFini
  BY <1>8 DEF DoFini, TakeCall, GateFree, Return, Start, FlagTypes, SessionTypes
<1>9. CASE Logout
  BY <1>9 DEF Logout, ClearSubscription, Goto, Return, ClearLogin, FlagTypes,
     SessionTypes
<1>10. CASE SdkFini
  BY <1>10 DEF SdkFini, ClearLogin, Return, ClearSubscription, FlagTypes, SessionTypes
<1>11. CASE ProcessEvent
  <2>1. queue # <<>> /\ Head(queue) \in Items
    BY <1>11, Positions DEF ProcessEvent, DataTypes, SessionTypes
  <2>2. \/ requested' = requested \/ requested' = FALSE
    BY <1>11 DEF ProcessEvent, Heeded, ClearLogin, ConnectionIsActive,
       ClearSubscription
  <2>3. \/ UNCHANGED <<subRequested, subscribed>>
        \/ subRequested' = FALSE /\ subscribed' = FALSE
        \/ /\ Head(queue).kind = "subResult" /\ subscribed' = Head(queue).ok
           /\ UNCHANGED subRequested
    BY <1>11 DEF ProcessEvent, Heeded, ClearLogin, ConnectionIsActive,
       ClearSubscription
  <2>4. UNCHANGED <<loginDone, loginOk, subDone, subOk, enabled>>
    BY <1>11 DEF ProcessEvent
  <2>5. Head(queue).kind = "subResult" => Head(queue).ok \in BOOLEAN
    BY <2>1, ItemKinds DEF RtmKinds
  <2>6. subscribed' \in BOOLEAN /\ subRequested' \in BOOLEAN
    BY <2>3, <2>5, Zenon DEF FlagTypes, SessionTypes
  <2>7. requested' \in BOOLEAN
    BY <2>2, Zenon DEF FlagTypes, SessionTypes
  <2> QED
    BY <2>4, <2>6, <2>7 DEF FlagTypes, SessionTypes
<1>12. CASE AnswerWait
  <2>1. cb.event.ok \in BOOLEAN
    BY <1>12 DEF AnswerWait, ThreadTypes, SessionTypes, NoCallback, RtmReports
  <2>2. UNCHANGED <<requested, subRequested, subscribed, enabled>>
    BY <1>12 DEF AnswerWait
  <2>3. /\ loginDone' \in BOOLEAN /\ loginOk' \in BOOLEAN
        /\ subDone' \in BOOLEAN /\ subOk' \in BOOLEAN
    BY <1>12, <2>1, Zenon DEF AnswerWait, FlagTypes, SessionTypes
  <2> QED
    BY <2>2, <2>3 DEF FlagTypes, SessionTypes
<1>13. CASE UNCHANGED vars
  BY <1>13 DEF vars, FlagTypes, SessionTypes
<1> QED
  BY <1>1, <1>2, <1>3, <1>4, <1>5, <1>6, <1>7, <1>8, <1>9, <1>10, <1>11, <1>12, <1>13
  DEF Next, Control, FinishFini, Worker, CallbackThread

\* The session's data, the queue and the SDK stay in their sets.
LEMMA DataStep == SessionTypes /\ [Next]_vars => DataTypes'
<1> SUFFICES ASSUME SessionTypes, [Next]_vars PROVE DataTypes'
  OBVIOUS
<1> USE Kinds
<1> USE DEF session, rtm, waits, loginFlags, sdk, bounds
<1>1. CASE \/ AwaitLogin \/ AwaitSub \/ CheckRtm \/ AnswerWait \/ TagRtm
           \/ EnterGate
  <2>1. UNCHANGED <<state, conn, loginGen, subGen, made, mpq, queue, sdkLogin, sdkSub,
                    sdkConns, confirmed>>
    BY <1>1 DEF AwaitLogin, AwaitSub, CheckRtm, AnswerWait, TagRtm, EnterGate, Goto,
       Unwind, ClearLogin, Return, ClearSubscription
  <2> QED
    BY <2>1 DEF DataTypes, SessionTypes
<1>2. CASE CallInit
  <2>1. queue' \in Seq(Items)
    BY <1>2, Posting DEF CallInit, Calls, DataTypes, SessionTypes
  <2>2. /\ mpq' = "live"
        /\ UNCHANGED <<state, conn, loginGen, subGen, made, sdkLogin, sdkSub, sdkConns,
                       confirmed>>
    BY <1>2 DEF CallInit
  <2> QED
    BY <2>1, <2>2 DEF DataTypes, SessionTypes
<1>3. CASE CallJoin
  <2>1. queue' \in Seq(Items)
    BY <1>3, Posting DEF CallJoin, Calls, DataTypes, SessionTypes
  <2>2. UNCHANGED <<state, conn, loginGen, subGen, made, sdkLogin, sdkSub, sdkConns,
                    confirmed, mpq>>
    BY <1>3 DEF CallJoin
  <2> QED
    BY <2>1, <2>2 DEF DataTypes, SessionTypes
<1>4. CASE CallLeaveOrFini
  <2>1. queue' \in Seq(Items)
    BY <1>4, Posting DEF CallLeaveOrFini, Calls, DataTypes, SessionTypes
  <2>2. UNCHANGED <<state, conn, loginGen, subGen, made, sdkLogin, sdkSub, sdkConns,
                    confirmed, mpq>>
    BY <1>4 DEF CallLeaveOrFini
  <2> QED
    BY <2>1, <2>2 DEF DataTypes, SessionTypes
<1>5. CASE FiniBarrier
  <2>1. queue' \in Seq(Items)
    BY <1>5 DEF FiniBarrier, Calls, Items, CallItems, DataTypes, SessionTypes
  <2>2. UNCHANGED <<state, conn, loginGen, subGen, made, sdkLogin, sdkSub, sdkConns,
                    confirmed, mpq>>
    BY <1>5 DEF FiniBarrier
  <2> QED
    BY <2>1, <2>2 DEF DataTypes, SessionTypes
<1>6. CASE DestroyQueue
  <2>1. (queue' = queue \/ queue' = <<>>) /\ mpq' \in {mpq, "destroyed"}
    BY <1>6 DEF DestroyQueue
  <2>2. <<>> \in Seq(Items)
    OBVIOUS
  <2>3. queue' \in Seq(Items)
    BY <2>1, <2>2 DEF DataTypes, SessionTypes
  <2>4. UNCHANGED <<state, conn, loginGen, subGen, made, sdkLogin, sdkSub, sdkConns,
                    confirmed>>
    BY <1>6 DEF DestroyQueue
  <2> QED
    BY <2>1, <2>3, <2>4 DEF DataTypes, SessionTypes
<1>7. CASE RetireQueue
  BY <1>7 DEF RetireQueue, DataTypes, SessionTypes, ThreadTypes, Idle, NoCallback,
     CallRecords, RtmReports, RtmEvents, ConnEvents, InSession
<1>8. CASE PassBarrier
  BY <1>8 DEF PassBarrier, TakeCall, Return, DataTypes, SessionTypes, ThreadTypes,
     Idle, NoCallback, CallRecords, RtmReports, RtmEvents, ConnEvents, InSession
<1>9. CASE DoInit
  BY <1>9 DEF DoInit, TakeCall, Return, ClearLogin, ClearSubscription, DataTypes,
     SessionTypes, ThreadTypes, Idle, NoCallback, CallRecords, RtmReports, RtmEvents,
     ConnEvents, InSession
<1>10. CASE DoJoin
  <2>1. UNCHANGED <<state, conn, subGen, made, mpq, sdkConns>> /\ sdkSub' \in {sdkSub, "none"}
    BY <1>10 DEF DoJoin, TakeCall, Start, ResetLoginFlags, ClearLogin, Return,
       ClearSubscription
  <2>2. queue # <<>> /\ queue' = Tail(queue)
    BY <1>10 DEF DoJoin, TakeCall, Start, ResetLoginFlags, ClearLogin, Return,
       ClearSubscription
  <2>3. queue' \in Seq(Items)
    BY <2>2, Positions DEF DataTypes, SessionTypes
  <2>4. /\ sdkLogin' \in {sdkLogin, "pending"} /\ confirmed' \in {confirmed, {}}
        /\ loginGen' \in {loginGen, loginGen + 1}
    BY <1>10 DEF DoJoin, TakeCall, Start, ResetLoginFlags, ClearLogin, Return,
       ClearSubscription
  <2> QED
    BY <2>1, <2>3, <2>4 DEF DataTypes, SessionTypes
<1>11. CASE Subscribe
  BY <1>11 DEF Subscribe, Goto, Unwind, Return, DataTypes, SessionTypes, ThreadTypes,
     Idle, NoCallback, CallRecords, RtmReports, RtmEvents, ConnEvents, InSession
<1>12. CASE CreateConnection
  BY <1>12 DEF CreateConnection, Goto, Unwind, Return, DataTypes, SessionTypes,
     ThreadTypes, Idle, NoCallback, CallRecords, RtmReports, RtmEvents, ConnEvents,
     InSession
<1>13. CASE JoinChannel
  BY <1>13 DEF JoinChannel, Return, DataTypes, SessionTypes, ThreadTypes, Idle,
     NoCallback, CallRecords, RtmReports, RtmEvents, ConnEvents, InSession
<1>14. CASE Destroy
  BY <1>14 DEF Destroy, Goto, DataTypes, SessionTypes, ThreadTypes, Idle, NoCallback,
     CallRecords, RtmReports, RtmEvents, ConnEvents, InSession
<1>15. CASE DoLeave
  <2>1. UNCHANGED <<state, loginGen, subGen, made, mpq, sdkLogin, sdkSub, sdkConns,
                    confirmed>>
    BY <1>15 DEF DoLeave, TakeCall, Start, LeaveChannel, Goto
  <2>2. queue' = queue \/ (queue # <<>> /\ queue' = Tail(queue))
    BY <1>15 DEF DoLeave, TakeCall, Start, LeaveChannel, Goto
  <2>3. queue' \in Seq(Items)
    BY <2>2, Positions DEF DataTypes, SessionTypes
  <2>4. conn' \in {conn, NoConn}
    BY <1>15 DEF DoLeave, TakeCall, Start, LeaveChannel, Goto
  <2> QED
    BY <2>1, <2>3, <2>4 DEF DataTypes, SessionTypes
<1>16. CASE DoFini
  BY <1>16 DEF DoFini, TakeCall, GateFree, Return, Start, DataTypes, SessionTypes,
     ThreadTypes, Idle, NoCallback, CallRecords, RtmReports, RtmEvents, ConnEvents,
     InSession
<1>17. CASE Logout
  BY <1>17 DEF Logout, ClearSubscription, Goto, Return, ClearLogin, DataTypes,
     SessionTypes, ThreadTypes, Idle, NoCallback, CallRecords, RtmReports, RtmEvents,
     ConnEvents, InSession
<1>18. CASE SdkFini
  BY <1>18 DEF SdkFini, ClearLogin, Return, ClearSubscription, DataTypes, SessionTypes,
     ThreadTypes, Idle, NoCallback, CallRecords, RtmReports, RtmEvents, ConnEvents,
     InSession
<1>19. CASE ProcessEvent
  BY <1>19 DEF ProcessEvent, Heeded, ClearLogin, ConnectionIsActive, ClearSubscription,
     DataTypes, SessionTypes, ThreadTypes, Idle, NoCallback, CallRecords, RtmReports,
     RtmEvents, ConnEvents, InSession
<1>20. CASE Raise
  BY <1>20 DEF Raise, DataTypes, SessionTypes, ThreadTypes, Idle, NoCallback,
     CallRecords, RtmReports, RtmEvents, ConnEvents, InSession
<1>21. CASE PostEvent
  <2>1. cb.event \in Items
    BY <1>21 DEF PostEvent, NoCallback, Items, ThreadTypes, SessionTypes
  <2>2. queue' \in Seq(Items) /\ UNCHANGED <<state, conn, loginGen, subGen, made, sdkLogin,
                                             sdkSub, sdkConns, confirmed, mpq>>
    BY <1>21, <2>1 DEF PostEvent, DataTypes, SessionTypes
  <2> QED
    BY <2>2 DEF DataTypes, SessionTypes
<1>22. CASE UNCHANGED vars
  BY <1>22 DEF vars, DataTypes, SessionTypes
<1> QED
  BY <1>1, <1>2, <1>3, <1>4, <1>5, <1>6, <1>7, <1>8, <1>9, <1>10, <1>11, <1>12, <1>13,
     <1>14, <1>15, <1>16, <1>17, <1>18, <1>19, <1>20, <1>21, <1>22
  DEF Next, Control, FinishFini, Worker, CallbackThread

\* The threads stay in their sets.
LEMMA ThreadStep == SessionTypes /\ [Next]_vars => ThreadTypes'
<1> SUFFICES ASSUME SessionTypes, [Next]_vars PROVE ThreadTypes'
  OBVIOUS
<1> USE Kinds
<1> USE DEF session, rtm, waits, loginFlags, sdk, bounds
<1>1. CASE ProcessEvent
  <2>1. UNCHANGED <<caller, work, cb>>
    BY <1>1 DEF ProcessEvent, Heeded, ClearLogin, ConnectionIsActive, ClearSubscription
  <2> QED
    BY <2>1 DEF ThreadTypes, SessionTypes
<1>2. CASE CallInit
  BY <1>2 DEF CallInit, GateFree, PostCall, Room, ThreadTypes, SessionTypes, DataTypes,
     Idle, NoCallback, CallRecords, RtmReports, RtmEvents, ConnEvents, Events, Items,
     Calls, Steps, RtmKinds, InSession
<1>3. CASE CallJoin
  BY <1>3 DEF CallJoin, PostCall, Room, ThreadTypes, SessionTypes, DataTypes, Idle,
     NoCallback, CallRecords, RtmReports, RtmEvents, ConnEvents, Events, Items, Calls,
     Steps, RtmKinds, InSession
<1>4. CASE CallLeaveOrFini
  BY <1>4 DEF CallLeaveOrFini, PostCall, Room, ThreadTypes, SessionTypes, DataTypes,
     Idle, NoCallback, CallRecords, RtmReports, RtmEvents, ConnEvents, Events, Items,
     Calls, Steps, RtmKinds, InSession
<1>5. CASE FiniBarrier
  BY <1>5 DEF FiniBarrier, Room, ThreadTypes, SessionTypes, DataTypes, Idle,
     NoCallback, CallRecords, RtmReports, RtmEvents, ConnEvents, Events, Items, Calls,
     Steps, RtmKinds, InSession
<1>6. CASE DestroyQueue
  BY <1>6 DEF DestroyQueue, ThreadTypes, SessionTypes, DataTypes, Idle, NoCallback,
     CallRecords, RtmReports, RtmEvents, ConnEvents, Events, Items, Calls, Steps,
     RtmKinds, InSession
<1>7. CASE RetireQueue
  BY <1>7 DEF RetireQueue, ThreadTypes, SessionTypes, DataTypes, Idle, NoCallback,
     CallRecords, RtmReports, RtmEvents, ConnEvents, Events, Items, Calls, Steps,
     RtmKinds, InSession
<1>8. CASE PassBarrier
  BY <1>8 DEF PassBarrier, TakeCall, Return, ThreadTypes, SessionTypes, DataTypes,
     Idle, NoCallback, CallRecords, RtmReports, RtmEvents, ConnEvents, Events, Items,
     Calls, Steps, RtmKinds, InSession
<1>9. CASE DoInit
  BY <1>9 DEF DoInit, TakeCall, Return, ClearLogin, ClearSubscription, ThreadTypes,
     SessionTypes, DataTypes, Idle, NoCallback, CallRecords, RtmReports, RtmEvents,
     ConnEvents, Events, Items, Calls, Steps, RtmKinds, InSession
<1>10. CASE DoJoin
  <2>1. caller' \in {caller, "idle"} /\ cb' = cb
    BY <1>10 DEF DoJoin, TakeCall, Start, ResetLoginFlags, ClearLogin, Return,
       ClearSubscription
  <2>2. \/ work' = Idle
        \/ work' = [call |-> "join", at |-> "awaitLogin", ok |-> TRUE, own |-> FALSE, id |-> NoConn]
        \/ work' = [call |-> "join", at |-> "awaitLogin", ok |-> TRUE, own |-> TRUE, id |-> NoConn]
    BY <1>10 DEF DoJoin, TakeCall, Start, ResetLoginFlags, ClearLogin, Return,
       ClearSubscription
  <2>3. work' = Idle \/ work' \in CallRecords
    BY <2>2, Fresh DEF Steps, Calls
  <2> QED
    BY <2>1, <2>3 DEF ThreadTypes, SessionTypes
<1>11. CASE AwaitLogin
  <2>1. caller' \in {caller, "idle"} /\ cb' = cb
    BY <1>11 DEF AwaitLogin, Goto, Unwind, ClearLogin, Return, ClearSubscription
  <2>2. work.at \in Steps
    BY <1>11 DEF AwaitLogin, Steps
  <2>3. work # Idle
    BY <2>2 DEF Idle, Steps
  <2>4. work \in CallRecords
    BY <2>3 DEF ThreadTypes, SessionTypes
  <2>5. \/ work' = Idle
        \/ work' = [work EXCEPT !.at = "subscribe"]
        \/ work' = [work EXCEPT !.at = "logout"]
    BY <1>11 DEF AwaitLogin, Goto, Unwind, ClearLogin, Return, ClearSubscription
  <2>6. work' = Idle \/ work' \in CallRecords
    BY <2>4, <2>5 DEF Steps, CallRecords
  <2> QED
    BY <2>1, <2>6 DEF ThreadTypes, SessionTypes
<1>12. CASE Subscribe
  <2>1. caller' \in {caller, "idle"} /\ cb' = cb
    BY <1>12 DEF Subscribe, Goto, Unwind, Return
  <2>2. work.at \in Steps
    BY <1>12 DEF Subscribe, Steps
  <2>3. work # Idle
    BY <2>2 DEF Idle, Steps
  <2>4. work \in CallRecords
    BY <2>3 DEF ThreadTypes, SessionTypes
  <2>5. \/ work' = Idle
        \/ work' = [work EXCEPT !.at = "awaitSub"]
        \/ work' = [work EXCEPT !.at = "logout"]
    BY <1>12 DEF Subscribe, Goto, Unwind, Return
  <2>6. work' = Idle \/ work' \in CallRecords
    BY <2>4, <2>5 DEF Steps, CallRecords
  <2> QED
    BY <2>1, <2>6 DEF ThreadTypes, SessionTypes
<1>13. CASE AwaitSub
  <2>1. caller' \in {caller, "idle"} /\ cb' = cb
    BY <1>13 DEF AwaitSub, Goto
  <2>2. work.at \in Steps
    BY <1>13 DEF AwaitSub, Steps
  <2>3. work # Idle
    BY <2>2 DEF Idle, Steps
  <2>4. work \in CallRecords
    BY <2>3 DEF ThreadTypes, SessionTypes
  <2>5. \/ work' = [work EXCEPT !.at = "connect"]
        \/ work' = [work EXCEPT !.at = "logout"]
    BY <1>13 DEF AwaitSub, Goto
  <2>6. work' = Idle \/ work' \in CallRecords
    BY <2>4, <2>5 DEF Steps, CallRecords
  <2> QED
    BY <2>1, <2>6 DEF ThreadTypes, SessionTypes
<1>14. CASE CreateConnection
  <2>1. caller' \in {caller, "idle"} /\ cb' = cb
    BY <1>14 DEF CreateConnection, Goto, Unwind, Return
  <2>2. work.at \in Steps
    BY <1>14 DEF CreateConnection, Steps
  <2>3. work # Idle
    BY <2>2 DEF Idle, Steps
  <2>4. work \in CallRecords
    BY <2>3 DEF ThreadTypes, SessionTypes
  <2>5. \/ work' = Idle
        \/ work' = [work EXCEPT !.at = "joinChannel"]
        \/ work' = [work EXCEPT !.at = "logout"]
    BY <1>14 DEF CreateConnection, Goto, Unwind, Return
  <2>6. work' = Idle \/ work' \in CallRecords
    BY <2>4, <2>5 DEF Steps, CallRecords
  <2> QED
    BY <2>1, <2>6 DEF ThreadTypes, SessionTypes
<1>15. CASE JoinChannel
  <2>1. caller' \in {caller, "idle"} /\ cb' = cb
    BY <1>15 DEF JoinChannel, Return
  <2>2. work.at \in Steps
    BY <1>15 DEF JoinChannel, Steps
  <2>3. work # Idle
    BY <2>2 DEF Idle, Steps
  <2>4. work \in CallRecords
    BY <2>3 DEF ThreadTypes, SessionTypes
  <2>5. \/ work' = Idle
        \/ work' = [work EXCEPT !.at = "destroy", !.id = conn]
    BY <1>15 DEF JoinChannel, Return
  <2>6. ASSUME work' = Idle
       PROVE  work' = Idle \/ work' \in CallRecords
    BY <2>4, <2>6 DEF Steps, CallRecords, DataTypes, SessionTypes
  <2>7. ASSUME work' = [work EXCEPT !.at = "destroy", !.id = conn]
       PROVE  work' = Idle \/ work' \in CallRecords
    BY <2>4, <2>7 DEF Steps, CallRecords, DataTypes, SessionTypes
  <2>8. work' = Idle \/ work' \in CallRecords
    BY <2>5, <2>6, <2>7
  <2> QED
    BY <2>1, <2>8 DEF ThreadTypes, SessionTypes
<1>16. CASE Destroy
  <2>1. caller' \in {caller, "idle"} /\ cb' = cb
    BY <1>16 DEF Destroy, Goto
  <2>2. work.at \in Steps
    BY <1>16 DEF Destroy, Steps
  <2>3. work # Idle
    BY <2>2 DEF Idle, Steps
  <2>4. work \in CallRecords
    BY <2>3 DEF ThreadTypes, SessionTypes
  <2>5. \/ work' = [work EXCEPT !.at = "logout"]
        \/ work' = [work EXCEPT !.at = "logout", !.ok = FALSE]
    BY <1>16 DEF Destroy, Goto
  <2>6. ASSUME work' = [work EXCEPT !.at = "logout"]
       PROVE  work' = Idle \/ work' \in CallRecords
    BY <2>4, <2>6 DEF Steps, CallRecords
  <2>7. ASSUME work' = [work EXCEPT !.at = "logout", !.ok = FALSE]
       PROVE  work' = Idle \/ work' \in CallRecords
    BY <2>4, <2>7 DEF Steps, CallRecords
  <2>8. work' = Idle \/ work' \in CallRecords
    BY <2>5, <2>6, <2>7
  <2> QED
    BY <2>1, <2>8 DEF ThreadTypes, SessionTypes
<1>17. CASE DoLeave
  <2>1. caller' \in {caller, "idle"} /\ cb' = cb
    BY <1>17 DEF DoLeave, TakeCall, Start, LeaveChannel, Goto
  <2>2. work.at = "leave" => work \in CallRecords
    BY DEF ThreadTypes, SessionTypes, Idle
  <2>3. \/ work' = [call |-> "leave", at |-> "leave", ok |-> TRUE, own |-> FALSE, id |-> NoConn]
        \/ work.at = "leave" /\ work' = [work EXCEPT !.at = "logout"]
        \/ /\ work.at = "leave"
           /\ \E ok \in BOOLEAN : work' = [work EXCEPT !.at = "destroy", !.id = conn, !.ok = ok]
    BY <1>17 DEF DoLeave, TakeCall, Start, LeaveChannel, Goto
  <2>4. ASSUME work' = [call |-> "leave", at |-> "leave", ok |-> TRUE, own |-> FALSE, id |-> NoConn]
       PROVE  work' = Idle \/ work' \in CallRecords
    BY <2>2, <2>4, Fresh DEF Steps, Calls
  <2>5. ASSUME work.at = "leave" /\ work' = [work EXCEPT !.at = "logout"]
       PROVE  work' = Idle \/ work' \in CallRecords
    BY <2>2, <2>5 DEF Steps, CallRecords, DataTypes, SessionTypes
  <2>6. ASSUME work.at = "leave",
               \E ok \in BOOLEAN : work' = [work EXCEPT !.at = "destroy", !.id = conn, !.ok = ok]
       PROVE  work' = Idle \/ work' \in CallRecords
    BY <2>2, <2>6 DEF Steps, CallRecords, DataTypes, SessionTypes
  <2>7. work' = Idle \/ work' \in CallRecords
    BY <2>3, <2>4, <2>5, <2>6
  <2> QED
    BY <2>1, <2>7 DEF ThreadTypes, SessionTypes
<1>18. CASE DoFini
  <2>1. caller' \in {caller, "finiOk"} /\ cb' = cb
    BY <1>18 DEF DoFini, TakeCall, GateFree, Return, Start
  <2>2. \/ work' = Idle
        \/ work' = [call |-> "fini", at |-> "leave", ok |-> TRUE, own |-> FALSE, id |-> NoConn]
    BY <1>18 DEF DoFini, TakeCall, GateFree, Return, Start
  <2>3. work' = Idle \/ work' \in CallRecords
    BY <2>2, Fresh DEF Steps, Calls
  <2> QED
    BY <2>1, <2>3 DEF ThreadTypes, SessionTypes
<1>19. CASE Logout
  <2>1. caller' \in {caller, "idle"} /\ cb' = cb
    BY <1>19 DEF Logout, ClearSubscription, Goto, Return, ClearLogin
  <2>2. work.at \in Steps
    BY <1>19 DEF Logout, Steps
  <2>3. work # Idle
    BY <2>2 DEF Idle, Steps
  <2>4. work \in CallRecords
    BY <2>3 DEF ThreadTypes, SessionTypes
  <2>5. \/ work' = Idle
        \/ work' = [work EXCEPT !.at = "sdkFini"]
        \/ \E ok \in BOOLEAN : work' = [work EXCEPT !.at = "sdkFini", !.ok = ok /\ work.ok]
    BY <1>19 DEF Logout, ClearSubscription, Goto, Return, ClearLogin
  <2>6. ASSUME work' = Idle
       PROVE  work' = Idle \/ work' \in CallRecords
    BY <2>4, <2>6 DEF Steps, CallRecords
  <2>7. ASSUME work' = [work EXCEPT !.at = "sdkFini"]
       PROVE  work' = Idle \/ work' \in CallRecords
    BY <2>4, <2>7 DEF Steps, CallRecords
  <2>8. ASSUME \E ok \in BOOLEAN : work' = [work EXCEPT !.at = "sdkFini", !.ok = ok /\ work.ok]
       PROVE  work' = Idle \/ work' \in CallRecords
    BY <2>4, <2>8 DEF Steps, CallRecords
  <2>9. work' = Idle \/ work' \in CallRecords
    BY <2>5, <2>6, <2>7, <2>8
  <2> QED
    BY <2>1, <2>9 DEF ThreadTypes, SessionTypes
<1>20. CASE SdkFini
  BY <1>20 DEF SdkFini, ClearLogin, Return, ClearSubscription, ThreadTypes,
     SessionTypes, DataTypes, Idle, NoCallback, CallRecords, RtmReports, RtmEvents,
     ConnEvents, Events, Items, Calls, Steps, RtmKinds, InSession
<1>21. CASE Raise
  BY <1>21 DEF Raise, ThreadTypes, SessionTypes, DataTypes, Idle, NoCallback,
     CallRecords, RtmReports, RtmEvents, ConnEvents, Events, Items, Calls, Steps,
     RtmKinds, InSession
<1>22. CASE CheckRtm
  BY <1>22 DEF CheckRtm, ThreadTypes, SessionTypes, DataTypes, Idle, NoCallback,
     CallRecords, RtmReports, RtmEvents, ConnEvents, Events, Items, Calls, Steps,
     RtmKinds, InSession
<1>23. CASE AnswerWait
  BY <1>23 DEF AnswerWait, ThreadTypes, SessionTypes, DataTypes, Idle, NoCallback,
     CallRecords, RtmReports, RtmEvents, ConnEvents, Events, Items, Calls, Steps,
     RtmKinds, InSession
<1>24. CASE TagRtm
  BY <1>24 DEF TagRtm, ThreadTypes, SessionTypes, DataTypes, Idle, NoCallback,
     CallRecords, RtmReports, RtmEvents, ConnEvents, Events, Items, Calls, Steps,
     RtmKinds, InSession
<1>25. CASE EnterGate
  BY <1>25 DEF EnterGate, ThreadTypes, SessionTypes, DataTypes, Idle, NoCallback,
     CallRecords, RtmReports, RtmEvents, ConnEvents, Events, Items, Calls, Steps,
     RtmKinds, InSession
<1>26. CASE PostEvent
  BY <1>26 DEF PostEvent, Room, ThreadTypes, SessionTypes, DataTypes, Idle, NoCallback,
     CallRecords, RtmReports, RtmEvents, ConnEvents, Events, Items, Calls, Steps,
     RtmKinds, InSession
<1>27. CASE UNCHANGED vars
  BY <1>27 DEF vars, ThreadTypes, SessionTypes
<1> QED
  BY <1>1, <1>2, <1>3, <1>4, <1>5, <1>6, <1>7, <1>8, <1>9, <1>10, <1>11, <1>12, <1>13,
     <1>14, <1>15, <1>16, <1>17, <1>18, <1>19, <1>20, <1>21, <1>22, <1>23, <1>24,
     <1>25, <1>26, <1>27
  DEF Next, Control, FinishFini, Worker, CallbackThread

\* The types are kept.
LEMMA TypesStep == SessionTypes /\ [Next]_vars => SessionTypes'
  BY FlagStep, DataStep, ThreadStep DEF SessionTypes
-----------------------------------------------------------------------------
(* One call at a time                                                       *)

\* At first no call is under way.
LEMMA NoCallAtFirst == Init => CallInv
  BY DEF Init, CallInv, Idle, NoCallback

\* A call that is posted is the only one.
LEMMA OnlyCall ==
  ASSUME SessionTypes, CallInv, caller \in {"idle", "finiOk"}, NEW name \in Calls,
         queue' = Append(queue, [kind |-> name])
  PROVE  \A n \in DOMAIN queue' :
           IF n = Len(queue) + 1 THEN queue'[n] = [kind |-> name]
           ELSE n \in DOMAIN queue /\ queue'[n] = queue[n] /\ queue'[n].kind \notin Calls
<1>1. queue \in Seq(Items) /\ [kind |-> name] \in Items
  BY DEF SessionTypes, DataTypes, Items, CallItems
<1>2. \A n \in DOMAIN queue : queue[n].kind \notin Calls
  BY DEF CallInv
<1> QED
  BY <1>1, <1>2, Positions

\* A step keeps the calls apart and the gate shut around a retired queue.
LEMMA CallStep == SessionTypes /\ CallInv /\ [Next]_vars => CallInv'
<1> SUFFICES ASSUME SessionTypes, CallInv, [Next]_vars PROVE CallInv'
  OBVIOUS
<1> USE Kinds
<1>q. queue \in Seq(Items)
  BY DEF SessionTypes, DataTypes
<1>w. work = Idle \/ (work \in CallRecords /\ work # Idle)
  BY DEF SessionTypes, ThreadTypes
<1> USE DEF session, rtm, waits, loginFlags, sdk, bounds
<1>1. CASE CallInit
  <2>1. /\ caller = "idle" /\ UNCHANGED <<work, cb>>
        /\ mpq' = "live" /\ enabled' = TRUE
    BY <1>1 DEF CallInit
  <2>2. \/ UNCHANGED queue /\ caller' = "idle"
        \/ /\ caller' = "waiting"
           /\ \E name \in {"init"} : queue' = Append(queue, [kind |-> name])
    BY <1>1 DEF CallInit, Room, PostCall
  <2>3. \A name \in Calls : queue' = Append(queue, [kind |-> name]) =>
          \A n \in DOMAIN queue' :
            IF n = Len(queue) + 1 THEN queue'[n] = [kind |-> name]
            ELSE n \in DOMAIN queue /\ queue'[n] = queue[n] /\ queue'[n].kind \notin Calls
    BY <2>1, OnlyCall
  <2>4. CASE UNCHANGED queue /\ caller' = "idle"
    BY <2>1, <2>4, <1>w DEF CallInv, Calls, Idle
  <2>5. CASE /\ caller' = "waiting"
            /\ \E name \in {"init"} : queue' = Append(queue, [kind |-> name])
    BY <2>1, <2>3, <2>5, <1>w DEF CallInv, Calls, Idle
  <2> QED
    BY <2>2, <2>4, <2>5
<1>2. CASE CallJoin
  <2>1. /\ caller = "idle" /\ UNCHANGED <<work, cb>>
        /\ mpq = "live" /\ UNCHANGED <<mpq, enabled>>
    BY <1>2 DEF CallJoin
  <2>2. \/ UNCHANGED queue /\ caller' = "idle"
        \/ /\ caller' = "waiting"
           /\ \E name \in {"join"} : queue' = Append(queue, [kind |-> name])
    BY <1>2 DEF CallJoin, Room, PostCall
  <2>3. \A name \in Calls : queue' = Append(queue, [kind |-> name]) =>
          \A n \in DOMAIN queue' :
            IF n = Len(queue) + 1 THEN queue'[n] = [kind |-> name]
            ELSE n \in DOMAIN queue /\ queue'[n] = queue[n] /\ queue'[n].kind \notin Calls
    BY <2>1, OnlyCall
  <2>4. CASE UNCHANGED queue /\ caller' = "idle"
    BY <2>1, <2>4, <1>w DEF CallInv, Calls, Idle
  <2>5. CASE /\ caller' = "waiting"
            /\ \E name \in {"join"} : queue' = Append(queue, [kind |-> name])
    BY <2>1, <2>3, <2>5, <1>w DEF CallInv, Calls, Idle
  <2> QED
    BY <2>2, <2>4, <2>5
<1>3. CASE CallLeaveOrFini
  <2>1. /\ caller = "idle" /\ UNCHANGED <<work, cb>>
        /\ mpq = "live" /\ UNCHANGED <<mpq, enabled>>
    BY <1>3 DEF CallLeaveOrFini
  <2>2. \/ UNCHANGED queue /\ caller' = "idle"
        \/ /\ caller' = "waiting"
           /\ \E name \in {"leave", "fini"} : queue' = Append(queue, [kind |-> name])
    BY <1>3 DEF CallLeaveOrFini, Room, PostCall
  <2>3. \A name \in Calls : queue' = Append(queue, [kind |-> name]) =>
          \A n \in DOMAIN queue' :
            IF n = Len(queue) + 1 THEN queue'[n] = [kind |-> name]
            ELSE n \in DOMAIN queue /\ queue'[n] = queue[n] /\ queue'[n].kind \notin Calls
    BY <2>1, OnlyCall
  <2>4. CASE UNCHANGED queue /\ caller' = "idle"
    BY <2>1, <2>4, <1>w DEF CallInv, Calls, Idle
  <2>5. CASE /\ caller' = "waiting"
            /\ \E name \in {"leave", "fini"} : queue' = Append(queue, [kind |-> name])
    BY <2>1, <2>3, <2>5, <1>w DEF CallInv, Calls, Idle
  <2> QED
    BY <2>2, <2>4, <2>5
<1>4. CASE FiniBarrier
  <2>1. /\ caller = "finiOk" /\ UNCHANGED <<work, cb>>
        /\ mpq = "live" /\ enabled = FALSE /\ UNCHANGED <<mpq, enabled>>
    BY <1>4 DEF FiniBarrier, CallInv
  <2>2. \/ UNCHANGED queue /\ caller' = "idle"
        \/ /\ caller' = "waiting"
           /\ \E name \in {"barrier"} : queue' = Append(queue, [kind |-> name])
    BY <1>4 DEF FiniBarrier, Room, PostCall
  <2>3. \A name \in Calls : queue' = Append(queue, [kind |-> name]) =>
          \A n \in DOMAIN queue' :
            IF n = Len(queue) + 1 THEN queue'[n] = [kind |-> name]
            ELSE n \in DOMAIN queue /\ queue'[n] = queue[n] /\ queue'[n].kind \notin Calls
    BY <2>1, OnlyCall
  <2>4. CASE UNCHANGED queue /\ caller' = "idle"
    BY <2>1, <2>4, <1>w DEF CallInv, Calls, Idle
  <2>5. CASE /\ caller' = "waiting"
            /\ \E name \in {"barrier"} : queue' = Append(queue, [kind |-> name])
    BY <2>1, <2>3, <2>5, <1>w DEF CallInv, Calls, Idle
  <2> QED
    BY <2>2, <2>4, <2>5
<1>5. CASE DestroyQueue
  BY <1>5, <1>q, <1>w, ItemKinds DEF DestroyQueue, CallInv, Idle, NoCallback,
     CallRecords, Calls, RtmKinds
<1>6. CASE RetireQueue
  BY <1>6, <1>q, <1>w, ItemKinds DEF RetireQueue, CallInv, Idle, NoCallback,
     CallRecords, Calls, RtmKinds
<1>7. CASE PassBarrier
  BY <1>7, <1>q, <1>w, ItemKinds, Positions DEF PassBarrier, TakeCall, Return, CallInv,
     Idle, NoCallback, CallRecords, Calls, RtmKinds
<1>8. CASE DoInit
  BY <1>8, <1>q, <1>w, ItemKinds, Positions DEF DoInit, TakeCall, Return, ClearLogin,
     ClearSubscription, CallInv, Idle, NoCallback, CallRecords, Calls, RtmKinds
<1>9. CASE DoJoin
  BY <1>9, <1>q, <1>w, ItemKinds, Positions DEF DoJoin, TakeCall, Start,
     ResetLoginFlags, ClearLogin, Return, ClearSubscription, CallInv, Idle, NoCallback,
     CallRecords, Calls, RtmKinds
<1>10. CASE AwaitLogin
  BY <1>10, <1>q, <1>w, ItemKinds DEF AwaitLogin, Goto, Unwind, ClearLogin, Return,
     ClearSubscription, CallInv, Idle, NoCallback, CallRecords, Calls, RtmKinds
<1>11. CASE Subscribe
  BY <1>11, <1>q, <1>w, ItemKinds DEF Subscribe, Goto, Unwind, Return, CallInv, Idle,
     NoCallback, CallRecords, Calls, RtmKinds
<1>12. CASE AwaitSub
  BY <1>12, <1>q, <1>w, ItemKinds DEF AwaitSub, Goto, CallInv, Idle, NoCallback,
     CallRecords, Calls, RtmKinds
<1>13. CASE CreateConnection
  BY <1>13, <1>q, <1>w, ItemKinds DEF CreateConnection, Goto, Unwind, Return, CallInv,
     Idle, NoCallback, CallRecords, Calls, RtmKinds
<1>14. CASE JoinChannel
  <2>1. UNCHANGED <<queue, enabled, mpq, cb>>
    BY <1>14 DEF JoinChannel
  <2>2. work.at = "joinChannel"
    BY <1>14 DEF JoinChannel
  <2>3. work \in CallRecords /\ work # Idle
    BY <2>2, <1>w DEF Idle
  <2>4. \/ (caller' = "idle" /\ work' = Idle)
        \/ (/\ caller' = caller /\ work' # Idle /\ work'.call = work.call
            /\ work'.at = "destroy")
    BY <1>14, <2>3 DEF JoinChannel, Return, CallRecords, Idle
  <2> QED
    BY <2>1, <2>3, <2>4 DEF CallInv, Idle
<1>15. CASE Destroy
  <2>1. UNCHANGED <<queue, enabled, mpq, cb>>
    BY <1>15 DEF Destroy
  <2>2. work.at = "destroy"
    BY <1>15 DEF Destroy
  <2>3. work \in CallRecords /\ work # Idle
    BY <2>2, <1>w DEF Idle
  <2>4. /\ caller' = caller /\ work' # Idle /\ work'.call = work.call
            /\ work'.at = "logout"
    BY <1>15, <2>3 DEF Destroy, Goto, CallRecords, Idle
  <2> QED
    BY <2>1, <2>3, <2>4 DEF CallInv, Idle
<1>16. CASE DoLeave
  <2>1. UNCHANGED <<enabled, mpq, cb, caller>>
    BY <1>16 DEF DoLeave, TakeCall, Start, LeaveChannel, Goto
  <2>2. \/ TakeCall("leave") /\ Start("leave", "leave")
        \/ /\ work.at = "leave" /\ UNCHANGED queue
           /\ \/ work' = [work EXCEPT !.at = "logout"]
              \/ \E ok \in BOOLEAN : work' = [work EXCEPT !.at = "destroy", !.id = conn, !.ok = ok]
    BY <1>16 DEF DoLeave, LeaveChannel, Goto
  <2>3. CASE TakeCall("leave") /\ Start("leave", "leave")
    BY <2>1, <2>3, <1>q, <1>w, Positions DEF TakeCall, Start, CallInv, Calls, Idle
  <2>4. ASSUME work.at = "leave", UNCHANGED queue,
              work' = [work EXCEPT !.at = "logout"]
       PROVE  CallInv'
    BY <2>1, <2>4, <1>w DEF CallInv, Idle, CallRecords
  <2>5. ASSUME work.at = "leave", UNCHANGED queue,
              \E ok \in BOOLEAN : work' = [work EXCEPT !.at = "destroy", !.id = conn, !.ok = ok]
       PROVE  CallInv'
    BY <2>1, <2>5, <1>w DEF CallInv, Idle, CallRecords
  <2> QED
    BY <2>2, <2>3, <2>4, <2>5
<1>17. CASE DoFini
  BY <1>17, <1>q, <1>w, ItemKinds, Positions DEF DoFini, TakeCall, GateFree, Return,
     Start, CallInv, Idle, NoCallback, CallRecords, Calls, RtmKinds
<1>18. CASE Logout
  <2>1. work.at = "logout" /\ UNCHANGED <<queue, enabled, mpq, cb>>
    BY <1>18 DEF Logout
  <2>2. \/ caller' = "idle" /\ work' = Idle
        \/ /\ work.call = "fini" /\ UNCHANGED caller
           /\ \/ work' = [work EXCEPT !.at = "sdkFini"]
              \/ \E ok \in BOOLEAN : work' = [work EXCEPT !.at = "sdkFini", !.ok = ok /\ work.ok]
    BY <1>18, Zenon DEF Logout, Return, Goto
  <2>3. work \in CallRecords /\ work # Idle
    BY <2>1, <1>w DEF Idle
  <2>4. CASE caller' = "idle" /\ work' = Idle
    BY <2>1, <2>3, <2>4 DEF CallInv, Idle
  <2>5. ASSUME work.call = "fini", UNCHANGED caller, work' = [work EXCEPT !.at = "sdkFini"]
       PROVE  CallInv'
    BY <2>1, <2>3, <2>5 DEF CallInv, Idle, CallRecords
  <2>6. ASSUME work.call = "fini", UNCHANGED caller,
              \E ok \in BOOLEAN : work' = [work EXCEPT !.at = "sdkFini", !.ok = ok /\ work.ok]
       PROVE  CallInv'
    BY <2>1, <2>3, <2>6 DEF CallInv, Idle, CallRecords
  <2> QED
    BY <2>2, <2>4, <2>5, <2>6
<1>19. CASE SdkFini
  BY <1>19, <1>q, <1>w, ItemKinds DEF SdkFini, ClearLogin, Return, ClearSubscription,
     CallInv, Idle, NoCallback, CallRecords, Calls, RtmKinds
<1>20. CASE ProcessEvent
  BY <1>20, <1>q, <1>w, ItemKinds, Positions DEF ProcessEvent, Heeded, ClearLogin,
     ConnectionIsActive, ClearSubscription, CallInv, Idle, NoCallback, CallRecords,
     Calls, RtmKinds
<1>21. CASE Raise
  BY <1>21, <1>q, <1>w, ItemKinds DEF Raise, CallInv, Idle, NoCallback, CallRecords,
     Calls, RtmKinds
<1>22. CASE CheckRtm
  BY <1>22, <1>q, <1>w, ItemKinds DEF CheckRtm, CallInv, Idle, NoCallback, CallRecords,
     Calls, RtmKinds
<1>23. CASE AnswerWait
  BY <1>23, <1>q, <1>w, ItemKinds DEF AnswerWait, CallInv, Idle, NoCallback,
     CallRecords, Calls, RtmKinds
<1>24. CASE TagRtm
  BY <1>24, <1>q, <1>w, ItemKinds DEF TagRtm, CallInv, Idle, NoCallback, CallRecords,
     Calls, RtmKinds
<1>25. CASE EnterGate
  BY <1>25, <1>q, <1>w, ItemKinds DEF EnterGate, CallInv, Idle, NoCallback,
     CallRecords, Calls, RtmKinds
<1>26. CASE PostEvent
  <2>1. cb' = NoCallback /\ cb.at = "posting" /\ UNCHANGED <<enabled, mpq, caller, work>>
    BY <1>26 DEF PostEvent
  <2>2. cb.event \in Items /\ cb.event.kind \notin Calls
    BY <2>1 DEF SessionTypes, ThreadTypes, NoCallback, Items, Events, ConnEvents,
       RtmEvents
  <2>3. UNCHANGED queue \/ (mpq = "live" /\ queue' = Append(queue, cb.event))
    BY <1>26 DEF PostEvent
  <2>4. \A n \in DOMAIN queue' :
          queue'[n].kind \in Calls => n \in DOMAIN queue /\ queue'[n] = queue[n]
    BY <2>2, <2>3, <1>q, Positions
  <2> QED
    BY <2>1, <2>3, <2>4 DEF CallInv, Calls, NoCallback
<1>27. CASE UNCHANGED vars
  BY <1>27 DEF vars, CallInv
<1> QED
  BY <1>1, <1>2, <1>3, <1>4, <1>5, <1>6, <1>7, <1>8, <1>9, <1>10, <1>11, <1>12, <1>13,
     <1>14, <1>15, <1>16, <1>17, <1>18, <1>19, <1>20, <1>21, <1>22, <1>23, <1>24,
     <1>25, <1>26, <1>27
  DEF Next, Control, FinishFini, Worker, CallbackThread

\* The queue is silent once it is retired, in every run.
THEOREM RetiredSilent == Spec => []RetiredQueueIsSilent
<1>1. Init => SessionTypes /\ CallInv
  BY TypesInit, NoCallAtFirst
<1>2. SessionTypes /\ CallInv /\ [Next]_vars => SessionTypes' /\ CallInv'
  BY TypesStep, CallStep
<1>3. SessionTypes /\ CallInv => RetiredQueueIsSilent
  BY DEF CallInv, SessionTypes, DataTypes, RetiredQueueIsSilent
<1> QED
  BY <1>1, <1>2, <1>3, PTL DEF Spec

\* What is queued stays queued behind what is taken and before what is posted.
LEMMA StillQueued ==
  ASSUME NEW S, NEW q \in Seq(S)
  PROVE  /\ \A x \in S :
              /\ Len(q) + 1 \in DOMAIN Append(q, x) /\ Append(q, x)[Len(q) + 1] = x
              /\ \A n \in DOMAIN q : n \in DOMAIN Append(q, x) /\ Append(q, x)[n] = q[n]
         /\ q # <<>> =>
              \A n \in DOMAIN q :
                n = 1 \/ (n - 1 \in DOMAIN Tail(q) /\ Tail(q)[n - 1] = q[n])
<1>1. ASSUME NEW x \in S
      PROVE  /\ Len(q) + 1 \in DOMAIN Append(q, x) /\ Append(q, x)[Len(q) + 1] = x
             /\ \A n \in DOMAIN q : n \in DOMAIN Append(q, x) /\ Append(q, x)[n] = q[n]
  OBVIOUS
<1>2. ASSUME q # <<>>, NEW n \in DOMAIN q, n # 1
      PROVE  n - 1 \in DOMAIN Tail(q) /\ Tail(q)[n - 1] = q[n]
  BY <1>2
<1> QED
  BY <1>1, <1>2

\* A caller that waits has its call in the queue, or with the RTC worker.
CallHeld ==
  caller = "waiting" => work # Idle \/ \E n \in DOMAIN queue : queue[n].kind \in Calls

\* A step answers a call before it lets go of it.
LEMMA HeldStep == SessionTypes /\ CallInv /\ CallHeld /\ [Next]_vars => CallHeld'
<1> SUFFICES ASSUME SessionTypes, CallInv, CallHeld, [Next]_vars PROVE CallHeld'
  OBVIOUS
<1> USE Kinds DEF session, rtm, waits, sdk, bounds
<1>q. queue \in Seq(Items)
  BY DEF SessionTypes, DataTypes
<1>w. work = Idle \/ (work \in CallRecords /\ work # Idle)
  BY DEF SessionTypes, ThreadTypes
<1>1. CASE CallInit \/ CallJoin \/ CallLeaveOrFini \/ FiniBarrier
  <2>1. PICK name \in Calls :
          caller' # "waiting" \/ queue' = Append(queue, [kind |-> name])
    BY <1>1 DEF CallInit, CallJoin, CallLeaveOrFini, FiniBarrier, PostCall, Calls
  <2>2. [kind |-> name] \in Items
    BY DEF Items, CallItems
  <2> QED
    BY <1>q, <2>1, <2>2, StillQueued DEF CallHeld
<1>2. CASE DestroyQueue \/ RetireQueue
  BY <1>2 DEF DestroyQueue, RetireQueue, CallHeld
<1>3. CASE PassBarrier \/ DoInit \/ SdkFini
  BY <1>3 DEF PassBarrier, DoInit, SdkFini, Return, CallHeld
<1>4. CASE DoJoin
  BY <1>4 DEF DoJoin, Start, Return, Idle, CallHeld
<1>5. CASE AwaitLogin \/ Subscribe \/ AwaitSub \/ CreateConnection \/ Destroy
  <2>1. work \in CallRecords
    BY <1>5, <1>w DEF AwaitLogin, Subscribe, AwaitSub, CreateConnection, Destroy, Idle
  <2>2. \/ caller' = "idle"
        \/ \E step \in Steps : work' = [work EXCEPT !.at = step]
        \/ work' = [work EXCEPT !.at = "logout", !.ok = FALSE]
    BY <1>5, Zenon DEF AwaitLogin, Subscribe, AwaitSub, CreateConnection, Destroy,
       Unwind, Goto,
       Return, Steps
  <2> QED
    BY <2>1, <2>2 DEF CallRecords, Steps, Idle, CallHeld
<1>6. CASE JoinChannel \/ (DoLeave /\ work.at = "leave")
  <2>1. work \in CallRecords
    BY <1>6, <1>w DEF JoinChannel, Idle
  <2>2. CASE JoinChannel
    <3>1. caller' = "idle" \/ work' = [work EXCEPT !.at = "destroy", !.id = conn]
      BY <2>2, Zenon DEF JoinChannel, Return
    <3> QED
      BY <2>1, <3>1 DEF CallRecords, Idle, CallHeld
  <2>3. CASE DoLeave /\ work.at = "leave"
    <3>1. ~TakeCall("leave")
      BY <2>3 DEF TakeCall, Idle
    <3>2. LeaveChannel
      BY <2>3, <3>1, Zenon DEF DoLeave
    <3>3. \/ work' = [work EXCEPT !.at = "logout"]
          \/ \E ok \in BOOLEAN :
               work' = [work EXCEPT !.at = "destroy", !.id = conn, !.ok = ok]
      BY <3>2, Zenon DEF LeaveChannel, Goto
    <3> QED
      BY <2>1, <3>3 DEF CallRecords, Idle, CallHeld
  <2> QED
    BY <1>6, <2>2, <2>3
<1>7. CASE (DoLeave /\ work.at # "leave") \/ DoFini
  <2>1. \/ caller' = "finiOk"
        \/ \E name \in {"leave", "fini"} : Start(name, "leave")
    BY <1>7 DEF DoLeave, DoFini, Return
  <2> QED
    BY <2>1 DEF Start, Idle, CallHeld
<1>8. CASE Logout
  <2>1. work.at = "logout"
    BY <1>8 DEF Logout
  <2>2. work \in CallRecords
    BY <2>1, <1>w DEF Idle
  <2>3. \/ caller' = "idle"
        \/ work' = [work EXCEPT !.at = "sdkFini"]
        \/ \E ok \in BOOLEAN : work' = [work EXCEPT !.at = "sdkFini", !.ok = ok /\ work.ok]
    BY <1>8, Zenon DEF Logout, Return, Goto
  <2> QED
    BY <2>2, <2>3 DEF CallRecords, Idle, CallHeld
<1>9. CASE ProcessEvent
  <2>1. /\ work = Idle /\ queue # <<>> /\ queue' = Tail(queue) /\ caller' = caller
        /\ Head(queue).kind \notin Calls
    BY <1>9 DEF ProcessEvent
  <2>2. Head(queue) = queue[1]
    BY <1>q, <2>1, Positions
  <2>3. SUFFICES ASSUME caller = "waiting"
                 PROVE  \E n \in DOMAIN queue' : queue'[n].kind \in Calls
    BY <2>1 DEF CallHeld
  <2>4. PICK n \in DOMAIN queue : queue[n].kind \in Calls
    BY <2>1, <2>3 DEF CallHeld
  <2>5. n # 1
    BY <2>1, <2>2, <2>4
  <2>6. n - 1 \in DOMAIN queue' /\ queue'[n - 1] = queue[n]
    BY <1>q, <2>1, <2>5, StillQueued
  <2> QED
    BY <2>4, <2>6
<1>10. CASE Raise \/ CheckRtm \/ AnswerWait \/ TagRtm \/ EnterGate
  <2>1. UNCHANGED <<caller, work, queue>>
    BY <1>10 DEF Raise, CheckRtm, AnswerWait, TagRtm, EnterGate
  <2> QED
    BY <2>1 DEF CallHeld
<1>11. CASE PostEvent
  <2>1. cb.event \in Items
    BY <1>11 DEF PostEvent, SessionTypes, ThreadTypes, NoCallback, Items, Events
  <2>2. UNCHANGED <<caller, work>> /\ (UNCHANGED queue \/ queue' = Append(queue, cb.event))
    BY <1>11 DEF PostEvent
  <2> QED
    BY <1>q, <2>1, <2>2, StillQueued DEF CallHeld
<1>12. CASE UNCHANGED vars
  BY <1>12 DEF vars, CallHeld
<1> QED
  BY <1>1, <1>2, <1>3, <1>4, <1>5, <1>6, <1>7, <1>8, <1>9, <1>10, <1>11, <1>12
  DEF Next, Control, FinishFini, Worker, CallbackThread

\* No call is lost: while a caller waits the queue is alive, and its call is in it or
\* with the RTC worker, whatever is posted, dropped or handled in between.
THEOREM CallsAreHeld ==
  Spec => [](caller = "waiting" =>
               /\ mpq = "live"
               /\ work # Idle \/ \E n \in DOMAIN queue : queue[n].kind \in Calls)
<1>1. Init => SessionTypes /\ CallInv /\ CallHeld
  BY TypesInit, NoCallAtFirst DEF Init, CallHeld
<1>2. SessionTypes /\ CallInv /\ CallHeld /\ [Next]_vars =>
        SessionTypes' /\ CallInv' /\ CallHeld'
  BY TypesStep, CallStep, HeldStep
<1>3. SessionTypes /\ CallInv /\ CallHeld =>
        (caller = "waiting" =>
           /\ mpq = "live"
           /\ work # Idle \/ \E n \in DOMAIN queue : queue[n].kind \in Calls)
  BY DEF CallInv, CallHeld, SessionTypes, DataTypes
<1> QED
  BY <1>1, <1>2, <1>3, PTL DEF Spec

\* No call waits in a circle: while one is under way the RTC worker, the
\* callback thread or the caller waits for nobody.  Only a fini waits for the
\* gate, and then the callback thread is in it.
THEOREM CallsCanGoOn == Spec => [](caller # "idle" => SomeoneCanGoOn)
<1>1. ASSUME SessionTypes, CallInv, CallHeld, caller # "idle"
      PROVE  SomeoneCanGoOn
  <2>1. SUFFICES ASSUME caller = "waiting", work = Idle, cb = NoCallback
                 PROVE  WorkerCanGoOn
    BY <1>1 DEF SomeoneCanGoOn, WorkerCanGoOn
  <2>2. mpq = "live"
    BY <1>1, <2>1 DEF CallInv, SessionTypes, DataTypes
  <2>3. PICK n \in DOMAIN queue : queue[n].kind \in Calls
    BY <1>1, <2>1 DEF CallHeld
  <2>4. queue # <<>>
    BY <2>3
  <2>5. GateFree
    BY <2>1 DEF GateFree, NoCallback
  <2> QED
    BY <2>2, <2>4, <2>5 DEF WorkerCanGoOn
<1>2. Init => SessionTypes /\ CallInv /\ CallHeld
  BY TypesInit, NoCallAtFirst DEF Init, CallHeld
<1>3. SessionTypes /\ CallInv /\ CallHeld /\ [Next]_vars =>
        SessionTypes' /\ CallInv' /\ CallHeld'
  BY TypesStep, CallStep, HeldStep
<1>4. SessionTypes /\ CallInv /\ CallHeld => (caller # "idle" => SomeoneCanGoOn)
  BY <1>1
<1> QED
  BY <1>2, <1>3, <1>4, PTL DEF Spec
-----------------------------------------------------------------------------
(* The session and the SDK                                                *)

\* At first there is no connection.
LEMMA NoConnAtFirst == Init => ConnInv /\ IdleInv
  BY ConnAssumption DEF Init, ConnInv, IdleInv, Idle, NoCallback, InSession

\* A step keeps the session, the worker and the SDK's connections in accord.
LEMMA ConnStep == SessionTypes /\ CallInv /\ ConnInv /\ IdleInv /\ [Next]_vars => ConnInv'
<1> SUFFICES ASSUME SessionTypes, CallInv, ConnInv, IdleInv, [Next]_vars PROVE ConnInv'
  OBVIOUS
<1> USE Kinds, ConnAssumption
<1>w. work = Idle \/ (work \in CallRecords /\ work # Idle)
  BY DEF SessionTypes, ThreadTypes
<1>t. /\ state \in InSession \cup {"idle", "initialized", "error"} /\ conn \in Conns \cup {NoConn}
      /\ requested \in BOOLEAN /\ made \in Nat /\ sdkConns \subseteq [id : Conns, of : Nat]
  BY DEF SessionTypes, FlagTypes, DataTypes
<1> USE DEF session, rtm, waits, loginFlags, sdk, bounds
<1>1. CASE \/ CallInit \/ CallJoin \/ CallLeaveOrFini \/ FiniBarrier \/ DestroyQueue
           \/ RetireQueue \/ PassBarrier \/ Raise \/ CheckRtm \/ AnswerWait
           \/ TagRtm \/ EnterGate \/ PostEvent
  <2>1. UNCHANGED <<state, conn, made, requested, sdkConns, work>>
    BY <1>1 DEF CallInit, CallJoin, CallLeaveOrFini, FiniBarrier, DestroyQueue,
       RetireQueue, PassBarrier, Raise, CheckRtm, AnswerWait, TagRtm, EnterGate,
       PostEvent, GateFree, PostCall, Room, TakeCall, Return
  <2> QED
    BY <2>1 DEF ConnInv
<1>2. CASE DoInit
  BY <1>2, <1>w, <1>t DEF DoInit, TakeCall, Return, ClearLogin, ClearSubscription,
     ConnInv, Idle, CallRecords, InSession
<1>3. CASE DoJoin
  BY <1>3, <1>w, <1>t DEF DoJoin, TakeCall, Start, ResetLoginFlags, ClearLogin, Return,
     ClearSubscription, ConnInv, Idle, CallRecords, InSession
<1>4. CASE AwaitLogin
  BY <1>4, <1>w, <1>t DEF AwaitLogin, Goto, Unwind, ClearLogin, Return,
     ClearSubscription, ConnInv, Idle, CallRecords, InSession
<1>5. CASE Subscribe
  BY <1>5, <1>w, <1>t DEF Subscribe, Goto, Unwind, Return, ConnInv, Idle, CallRecords,
     InSession
<1>6. CASE AwaitSub
  BY <1>6, <1>w, <1>t DEF AwaitSub, Goto, ConnInv, Idle, CallRecords, InSession
<1>7. CASE CreateConnection
  <2>1. /\ work.at = "connect" /\ requested' = requested
        /\ \/ UNCHANGED <<state, conn, sdkConns, made>> /\ Unwind
           \/ \E c \in Conns :
                /\ sdkConns' = sdkConns \cup {[id |-> c, of |-> made + 1]}
                /\ made' = made + 1 /\ conn' = c /\ state' = "connecting"
                /\ Goto("joinChannel")
    BY <1>7 DEF CreateConnection
  <2>2. work \in CallRecords
    BY <2>1, <1>w DEF Idle
  <2>3. CASE UNCHANGED <<state, conn, sdkConns, made>> /\ Unwind
    BY <2>1, <2>2, <2>3, <1>t DEF Unwind, Goto, Return, ConnInv, Idle, CallRecords,
       InSession
  <2>4. ASSUME NEW c \in Conns,
              sdkConns' = sdkConns \cup {[id |-> c, of |-> made + 1]},
              made' = made + 1, conn' = c, state' = "connecting", Goto("joinChannel")
       PROVE  ConnInv'
    <3>1. sdkConns = {}
      BY <2>1, <1>t DEF ConnInv, InSession
    <3>2. work'.at = "joinChannel" /\ work'.own = work.own
      BY <2>2, <2>4 DEF Goto, CallRecords
    <3> QED
    BY <2>1, <2>4, <3>1, <3>2, <1>t DEF ConnInv, InSession
  <2> QED
    BY <2>1, <2>3, <2>4
<1>8. CASE JoinChannel
  <2>1. /\ work.at = "joinChannel" /\ UNCHANGED <<state, made, requested, sdkConns>>
        /\ \/ work' = Idle /\ conn' = conn
           \/ work' = [work EXCEPT !.at = "destroy", !.id = conn] /\ conn' = NoConn
    BY <1>8 DEF JoinChannel, Return
  <2>2. work \in CallRecords
    BY <2>1, <1>w DEF Idle
  <2>3. CASE work' = Idle /\ conn' = conn
    BY <2>1, <2>3, <1>t DEF ConnInv, Idle, CallRecords, InSession
  <2>4. CASE work' = [work EXCEPT !.at = "destroy", !.id = conn] /\ conn' = NoConn
    BY <2>1, <2>2, <2>4, <1>t DEF ConnInv, Idle, CallRecords, InSession
  <2> QED
    BY <2>1, <2>3, <2>4
<1>9. CASE Destroy
  <2>1. /\ work \in CallRecords /\ work.at = "destroy"
        /\ UNCHANGED <<conn, requested, made>> /\ conn = NoConn
    BY <1>9, <1>w DEF Destroy, ConnInv, Idle
  <2>2. CASE /\ sdkConns' = {k \in sdkConns : k.id # work.id} /\ state' = "initialized"
             /\ work' = [work EXCEPT !.at = "logout"]
    <3>1. sdkConns' = {}
      BY <2>1, <2>2 DEF ConnInv
    <3>2. work'.at = "logout"
      BY <2>1, <2>2 DEF CallRecords
    <3> QED
      BY <2>1, <2>2, <3>1, <3>2 DEF ConnInv, InSession
  <2>3. CASE /\ state' = "error" /\ sdkConns' = sdkConns
             /\ work' = [work EXCEPT !.at = "logout", !.ok = FALSE]
    <3>1. work'.at = "logout"
      BY <2>1, <2>3 DEF CallRecords
    <3> QED
      BY <2>1, <2>3, <3>1 DEF ConnInv, InSession
  <2> QED
    BY <1>9, <2>2, <2>3 DEF Destroy, Goto
<1>10. CASE DoLeave
  <2>1. UNCHANGED <<state, made, requested, sdkConns>>
    BY <1>10 DEF DoLeave, TakeCall, Start, LeaveChannel, Goto
  <2>2. \/ work = Idle /\ Start("leave", "leave") /\ UNCHANGED conn
        \/ /\ work.at = "leave" /\ conn = NoConn /\ UNCHANGED conn
           /\ work' = [work EXCEPT !.at = "logout"]
        \/ /\ work.at = "leave" /\ conn # NoConn /\ conn' = NoConn
           /\ \E ok \in BOOLEAN : work' = [work EXCEPT !.at = "destroy", !.id = conn, !.ok = ok]
    BY <1>10 DEF DoLeave, LeaveChannel, Goto, TakeCall
  <2>3. CASE work = Idle /\ Start("leave", "leave") /\ UNCHANGED conn
    BY <2>1, <2>3, <1>t DEF Start, ConnInv, Idle, CallRecords, InSession
  <2>4. ASSUME work.at = "leave", conn = NoConn, UNCHANGED conn,
              work' = [work EXCEPT !.at = "logout"]
       PROVE  ConnInv'
    BY <2>1, <2>4, <1>w, <1>t DEF ConnInv, Idle, CallRecords, InSession
  <2>5. ASSUME work.at = "leave", conn # NoConn, conn' = NoConn,
              NEW ok \in BOOLEAN, work' = [work EXCEPT !.at = "destroy", !.id = conn, !.ok = ok]
       PROVE  ConnInv'
    <3>1. work'.at = "destroy" /\ work'.id = conn
      BY <2>5, <1>w DEF CallRecords, Idle
    <3> QED
    BY <2>1, <2>5, <3>1, <1>t DEF ConnInv, InSession
  <2> QED
    BY <2>2, <2>3, <2>4, <2>5
<1>11. CASE DoFini
  BY <1>11, <1>w, <1>t DEF DoFini, TakeCall, GateFree, Return, Start, ConnInv, Idle,
     CallRecords, InSession
<1>12. CASE Logout
  <2>1. work.at = "logout" /\ requested' = FALSE /\ UNCHANGED <<state, conn, made,
                                                                sdkConns>>
    BY <1>12, <1>t DEF Logout, ClearLogin
  <2>2. \/ work' = Idle
        \/ work' = [work EXCEPT !.at = "sdkFini"]
        \/ \E ok \in BOOLEAN : work' = [work EXCEPT !.at = "sdkFini", !.ok = ok /\ work.ok]
    BY <1>12, Zenon DEF Logout, Return, Goto
  <2>3. work \in CallRecords
    BY <2>1, <1>w DEF Idle
  <2>4. work' = Idle \/ work'.at = "sdkFini"
    BY <2>2, <2>3 DEF CallRecords
  <2> QED
    BY <2>1, <2>4, <1>t DEF ConnInv, Idle, InSession
<1>13. CASE SdkFini
  BY <1>13, <1>w, <1>t DEF SdkFini, ClearLogin, Return, ClearSubscription, ConnInv,
     Idle, CallRecords, InSession
<1>14. CASE ProcessEvent
  BY <1>14, <1>w, <1>t DEF ProcessEvent, Heeded, ClearLogin, ConnectionIsActive,
     ClearSubscription, ConnInv, Idle, CallRecords, InSession
<1>15. CASE UNCHANGED vars
  BY <1>15 DEF vars, ConnInv
<1> QED
  BY <1>1, <1>2, <1>3, <1>4, <1>5, <1>6, <1>7, <1>8, <1>9, <1>10, <1>11, <1>12, <1>13,
     <1>14, <1>15
  DEF Next, Control, FinishFini, Worker, CallbackThread
-----------------------------------------------------------------------------
(* Notifications of connections.                                           *)

\* A posted call is the only one and the last item; nothing but the queue and
\* the caller is touched, and a join is posted by CallJoin.
LEMMA PostedCall ==
  ASSUME SessionTypes, CallInv, CallInit \/ CallJoin \/ CallLeaveOrFini \/ FiniBarrier
  PROVE  /\ UNCHANGED <<session, waits, work, cb, sdk, confirmed>>
         /\ work = Idle
         /\ \/ UNCHANGED queue
            \/ /\ Len(queue) \in Nat /\ Len(queue') = Len(queue) + 1
               /\ \E name \in Calls :
                    /\ name = "join" => CallJoin
                    /\ \A n \in DOMAIN queue' :
                         IF n = Len(queue) + 1 THEN queue'[n] = [kind |-> name]
                         ELSE /\ n \in DOMAIN queue /\ queue'[n] = queue[n]
                              /\ queue'[n].kind \notin Calls
<1>1. UNCHANGED <<session, waits, work, cb, sdk, confirmed>>
  BY DEF CallInit, CallJoin, CallLeaveOrFini, FiniBarrier
<1>2. caller \in {"idle", "finiOk"} /\ work = Idle
  BY DEF CallInit, CallJoin, CallLeaveOrFini, FiniBarrier, CallInv
<1>3. \/ UNCHANGED queue
      \/ \E name \in Calls : /\ name = "join" => CallJoin
                             /\ queue' = Append(queue, [kind |-> name])
  BY DEF CallInit, CallJoin, CallLeaveOrFini, FiniBarrier, PostCall, Calls
<1>4. ASSUME NEW name \in Calls, queue' = Append(queue, [kind |-> name])
      PROVE  /\ Len(queue) \in Nat /\ Len(queue') = Len(queue) + 1
             /\ \A n \in DOMAIN queue' :
                  IF n = Len(queue) + 1 THEN queue'[n] = [kind |-> name]
                  ELSE n \in DOMAIN queue /\ queue'[n] = queue[n] /\ queue'[n].kind \notin Calls
  <2>1. queue \in Seq(Items) /\ [kind |-> name] \in Items
    BY DEF SessionTypes, DataTypes, Items, CallItems
  <2>2. Len(queue) \in Nat /\ Len(queue') = Len(queue) + 1
    BY <1>4, <2>1, Positions
  <2> QED
    BY <1>2, <1>4, <2>2, OnlyCall
<1> QED
  BY <1>1, <1>2, <1>3, <1>4

\* What is left when an item is taken; no call is left after a call.
LEMMA TakenItem ==
  ASSUME SessionTypes, CallInv, queue # <<>>, queue' = Tail(queue)
  PROVE  /\ \A n \in DOMAIN queue' : /\ n \in Nat /\ n + 1 \in DOMAIN queue
                                     /\ queue'[n] = queue[n + 1]
         /\ 1 \in DOMAIN queue /\ Head(queue) = queue[1] /\ Head(queue) \in Items
         /\ Head(queue).kind \in Calls => \A n \in DOMAIN queue' : queue'[n].kind \notin Calls
<1>1. queue \in Seq(Items)
  BY DEF SessionTypes, DataTypes
<1>2. \A n \in DOMAIN queue' : n \in Nat /\ n + 1 \in DOMAIN queue /\ queue'[n] = queue[n + 1]
  BY <1>1, Positions
<1>3. 1 \in DOMAIN queue /\ Head(queue) = queue[1] /\ Head(queue) \in Items
  BY <1>1, Positions
<1>4. \A n, m \in DOMAIN queue : queue[n].kind \in Calls /\ queue[m].kind \in Calls => n = m
  BY DEF CallInv
<1>5. \A n \in DOMAIN queue' : n \in 1 .. Len(queue')
  BY <1>1
<1>6. ASSUME Head(queue).kind \in Calls, NEW n \in DOMAIN queue', queue'[n].kind \in Calls
      PROVE  FALSE
  <2>1. n + 1 = 1
    BY <1>2, <1>3, <1>4, <1>6
  <2> QED
    BY <1>5, <2>1
<1> QED
  BY <1>2, <1>3, <1>6

\* A step keeps an idle session empty.
LEMMA IdleStep == SessionTypes /\ CallInv /\ ConnInv /\ IdleInv /\ [Next]_vars => IdleInv'
<1> SUFFICES ASSUME SessionTypes, CallInv, ConnInv, IdleInv, [Next]_vars PROVE IdleInv'
  OBVIOUS
<1> USE Kinds
<1>w. work = Idle \/ (work \in CallRecords /\ work # Idle)
  BY DEF SessionTypes, ThreadTypes
<1>q. queue \in Seq(Items)
  BY DEF SessionTypes, DataTypes
<1>t. /\ state \in InSession \cup {"idle", "initialized", "error"} /\ requested \in BOOLEAN
  BY DEF SessionTypes, FlagTypes, DataTypes
<1> USE DEF session, rtm, waits, loginFlags, sdk, bounds
<1>1. CASE \/ CallInit \/ CallJoin \/ CallLeaveOrFini \/ FiniBarrier
  BY <1>1, <1>q, PostedCall DEF CallInit, CallJoin, CallLeaveOrFini, FiniBarrier,
     GateFree, PostCall, Room, IdleInv, session, sdk, rtm
<1>2. CASE DestroyQueue
  BY <1>2, <1>w, <1>t, <1>q, Positions DEF DestroyQueue, ConnInv, CallInv, IdleInv,
     Idle, NoCallback, InSession, Calls
<1>3. CASE RetireQueue
  BY <1>3, <1>w, <1>t, <1>q DEF RetireQueue, ConnInv, CallInv, IdleInv, Idle,
     NoCallback, InSession
<1>4. CASE PassBarrier
  BY <1>4, <1>w, <1>t, <1>q, Positions DEF PassBarrier, TakeCall, Return, ConnInv,
     CallInv, IdleInv, Idle, NoCallback, InSession, Calls
<1>5. CASE DoInit
  BY <1>5, <1>w, <1>t, <1>q, Positions DEF DoInit, TakeCall, Return, ClearLogin,
     ClearSubscription, ConnInv, CallInv, IdleInv, Idle, NoCallback, InSession, Calls
<1>6. CASE DoJoin
  BY <1>6, <1>w, <1>t, <1>q, Positions DEF DoJoin, TakeCall, Start, ResetLoginFlags,
     ClearLogin, Return, ClearSubscription, ConnInv, CallInv, IdleInv, Idle,
     NoCallback, InSession, Calls
<1>7. CASE AwaitLogin
  BY <1>7, <1>w, <1>t, <1>q DEF AwaitLogin, Goto, Unwind, ClearLogin, Return,
     ClearSubscription, ConnInv, CallInv, IdleInv, Idle, NoCallback, InSession
<1>8. CASE Subscribe
  BY <1>8, <1>w, <1>t, <1>q DEF Subscribe, Goto, Unwind, Return, ConnInv, CallInv,
     IdleInv, Idle, NoCallback, InSession
<1>9. CASE AwaitSub
  BY <1>9, <1>w, <1>t, <1>q DEF AwaitSub, Goto, ConnInv, CallInv, IdleInv, Idle,
     NoCallback, InSession
<1>10. CASE CreateConnection
  BY <1>10, <1>w, <1>t, <1>q DEF CreateConnection, Goto, Unwind, Return, ConnInv,
     CallInv, IdleInv, Idle, NoCallback, InSession
<1>11. CASE JoinChannel
  BY <1>11, <1>w, <1>t, <1>q DEF JoinChannel, Return, ConnInv, CallInv, IdleInv, Idle,
     NoCallback, InSession
<1>12. CASE Destroy
  BY <1>12, <1>w, <1>t, <1>q DEF Destroy, Goto, ConnInv, CallInv, IdleInv, Idle,
     NoCallback, InSession
<1>13. CASE DoLeave
  <2>1. /\ UNCHANGED <<state, requested, sdkReady, sdkConns, sdkLogin, sdkSub, cb>>
        /\ conn' \in {conn, NoConn}
    BY <1>13 DEF DoLeave, TakeCall, Start, LeaveChannel, Goto
  <2>2. \/ /\ queue # <<>> /\ queue' = Tail(queue)
           /\ Start("leave", "leave")
        \/ /\ work.at = "leave" /\ UNCHANGED queue
           /\ conn = NoConn => work' = [work EXCEPT !.at = "logout"]
    BY <1>13 DEF DoLeave, TakeCall, Goto, LeaveChannel
  <2>3. CASE state # "idle"
    BY <2>1, <2>3 DEF IdleInv
  <2>4. CASE state = "idle"
    <3>1. work = Idle \/ work.call = "leave"
      BY <2>4 DEF IdleInv
    <3>2. conn = NoConn
      BY <2>4 DEF IdleInv
    <3>3. work'.call = "leave" /\ work'.at \in {"leave", "logout"}
      BY <2>2, <3>1, <3>2, <1>w DEF Start, Idle, CallRecords
    <3>4. queue' = queue \/ (queue # <<>> /\ queue' = Tail(queue))
      BY <2>2
    <3>5. \A n \in DOMAIN queue' : queue'[n].kind \in Calls => n = Len(queue')
      BY <2>4, <3>4, <1>q, Positions DEF IdleInv
    <3> QED
    BY <2>1, <2>4, <3>3, <3>5 DEF IdleInv
  <2> QED
    BY <2>3, <2>4
<1>14. CASE DoFini
  BY <1>14, <1>w, <1>t, <1>q, Positions DEF DoFini, TakeCall, GateFree, Return, Start,
     ConnInv, CallInv, IdleInv, Idle, NoCallback, InSession, Calls
<1>15. CASE Logout
  <2>1. UNCHANGED <<state, conn, sdkReady, sdkConns, cb, queue>>
    BY <1>15 DEF Logout
  <2>2. ASSUME state = "idle"
       PROVE  work.call = "leave" /\ requested = FALSE
    <3>1. work.at = "logout"
      BY <1>15 DEF Logout
    <3>2. work # Idle
      BY <3>1 DEF Idle
    <3> QED
    BY <2>2, <3>2 DEF IdleInv
  <2>3. ASSUME state = "idle"
       PROVE  work' = Idle /\ requested' = FALSE /\ UNCHANGED <<sdkLogin, sdkSub>>
    BY <1>15, <2>2, <2>3 DEF Logout, Return
  <2> QED
    BY <2>1, <2>3 DEF IdleInv
<1>16. CASE SdkFini
  BY <1>16, <1>w, <1>t, <1>q DEF SdkFini, ClearLogin, Return, ClearSubscription,
     ConnInv, CallInv, IdleInv, Idle, NoCallback, InSession
<1>17. CASE ProcessEvent
  <2>1. /\ UNCHANGED <<conn, sdkReady, sdkConns, sdkLogin, sdkSub, cb, work>>
        /\ queue # <<>> /\ queue' = Tail(queue)
        /\ requested' = requested \/ requested' = FALSE
        /\ state' = IF Heeded(Head(queue)) /\ Head(queue).kind \in DOMAIN StateAfter
                    THEN StateAfter[Head(queue).kind] ELSE state
    BY <1>17 DEF ProcessEvent, ClearLogin
  <2>2. CASE state # "idle"
    <3>1. state' # "idle"
      BY <2>1, <2>2 DEF InSession
    <3> QED
      BY <3>1 DEF IdleInv
  <2>3. CASE state = "idle"
    <3>1. conn = NoConn /\ requested = FALSE
      BY <2>3 DEF IdleInv
    <3>2. ~(Heeded(Head(queue)) /\ Head(queue).kind \in DOMAIN StateAfter)
      BY <3>1 DEF Heeded, ConnectionIsActive, RtmKinds
    <3>3. state' = "idle" /\ requested' = FALSE
      BY <2>1, <2>3, <3>1, <3>2
    <3>4. \A n \in DOMAIN queue' : queue'[n].kind \in Calls => n = Len(queue')
      BY <2>1, <2>3, <1>q, Positions DEF IdleInv
    <3> QED
      BY <2>1, <2>3, <3>3, <3>4 DEF IdleInv
  <2> QED
    BY <2>2, <2>3
<1>18. CASE Raise
  BY <1>18, <1>w, <1>t, <1>q DEF Raise, ConnInv, CallInv, IdleInv, Idle, NoCallback,
     InSession
<1>19. CASE CheckRtm
  BY <1>19, <1>w, <1>t, <1>q DEF CheckRtm, ConnInv, CallInv, IdleInv, Idle, NoCallback,
     InSession
<1>20. CASE AnswerWait
  BY <1>20, <1>w, <1>t, <1>q DEF AnswerWait, ConnInv, CallInv, IdleInv, Idle,
     NoCallback, InSession
<1>21. CASE TagRtm
  BY <1>21, <1>w, <1>t, <1>q DEF TagRtm, ConnInv, CallInv, IdleInv, Idle, NoCallback,
     InSession
<1>22. CASE EnterGate
  BY <1>22, <1>w, <1>t, <1>q DEF EnterGate, ConnInv, CallInv, IdleInv, Idle,
     NoCallback, InSession
<1>23. CASE PostEvent
  BY <1>23, <1>w, <1>t, <1>q, Positions DEF PostEvent, Room, ConnInv, CallInv, IdleInv,
     Idle, NoCallback, InSession, Calls
<1>24. CASE UNCHANGED vars
  BY <1>24 DEF vars, IdleInv
<1> QED
  BY <1>1, <1>2, <1>3, <1>4, <1>5, <1>6, <1>7, <1>8, <1>9, <1>10, <1>11, <1>12, <1>13,
     <1>14, <1>15, <1>16, <1>17, <1>18, <1>19, <1>20, <1>21, <1>22, <1>23, <1>24
  DEF Next, Control, FinishFini, Worker, CallbackThread

\* A step keeps every notification about a connection of the SDK's present run.
LEMMA NoticeStep ==
  SessionTypes /\ CallInv /\ ConnInv /\ IdleInv /\ NoticeInv /\ [Next]_vars => NoticeInv'
<1> SUFFICES ASSUME SessionTypes, CallInv, ConnInv, IdleInv, NoticeInv, [Next]_vars
             PROVE  NoticeInv'
  OBVIOUS
<1> USE Kinds, ConnAssumption
<1>w. work = Idle \/ (work \in CallRecords /\ work # Idle)
  BY DEF SessionTypes, ThreadTypes
<1>q. queue \in Seq(Items)
  BY DEF SessionTypes, DataTypes
<1>t. /\ state \in InSession \cup {"idle", "initialized", "error"} /\ conn \in Conns \cup {NoConn}
      /\ sdkConns \subseteq [id : Conns, of : Nat] /\ made \in Nat
  BY DEF SessionTypes, DataTypes
<1>c. /\ cb.at \in {"check", "answer", "tag"} => cb.event \in RtmReports
      /\ cb.at \in {"post", "posting"} => cb.event \in Events
      /\ cb # NoCallback => cb.at \in {"check", "answer", "tag", "post", "posting"}
  BY DEF SessionTypes, ThreadTypes, NoCallback
<1> USE DEF session, rtm, waits, loginFlags, sdk, bounds
<1>1. CASE \/ CallInit \/ CallJoin \/ CallLeaveOrFini \/ FiniBarrier
  <2>1. UNCHANGED <<state, conn, sdkConns, used, made, cb>>
    BY <1>1, PostedCall
  <2>2. \A n \in DOMAIN queue' : queue'[n].kind \in ConnKinds =>
          n \in DOMAIN queue /\ queue'[n] = queue[n]
    BY <1>1, PostedCall
  <2> QED
    BY <2>1, <2>2 DEF NoticeInv, OwnConn
<1>2. CASE DestroyQueue
  BY <1>2, <1>w, <1>t, <1>q, <1>c, Positions DEF DestroyQueue, ConnInv, CallInv,
     IdleInv, NoticeInv, OwnConn, Idle, NoCallback, InSession, Calls
<1>3. CASE RetireQueue
  BY <1>3, <1>w, <1>t, <1>q, <1>c DEF RetireQueue, ConnInv, CallInv, IdleInv,
     NoticeInv, OwnConn, Idle, NoCallback, InSession
<1>4. CASE PassBarrier
  BY <1>4, <1>w, <1>t, <1>q, <1>c, Positions DEF PassBarrier, TakeCall, Return,
     ConnInv, CallInv, IdleInv, NoticeInv, OwnConn, Idle, NoCallback, InSession, Calls
<1>5. CASE DoInit
  BY <1>5, <1>w, <1>t, <1>q, <1>c, Positions DEF DoInit, TakeCall, Return, ClearLogin,
     ClearSubscription, ConnInv, CallInv, IdleInv, NoticeInv, OwnConn, Idle,
     NoCallback, InSession, Calls
<1>6. CASE DoJoin
  BY <1>6, <1>w, <1>t, <1>q, <1>c, Positions DEF DoJoin, TakeCall, Start,
     ResetLoginFlags, ClearLogin, Return, ClearSubscription, ConnInv, CallInv, IdleInv,
     NoticeInv, OwnConn, Idle, NoCallback, InSession, Calls
<1>7. CASE AwaitLogin
  BY <1>7, <1>w, <1>t, <1>q, <1>c DEF AwaitLogin, Goto, Unwind, ClearLogin, Return,
     ClearSubscription, ConnInv, CallInv, IdleInv, NoticeInv, OwnConn, Idle,
     NoCallback, InSession
<1>8. CASE Subscribe
  BY <1>8, <1>w, <1>t, <1>q, <1>c DEF Subscribe, Goto, Unwind, Return, ConnInv,
     CallInv, IdleInv, NoticeInv, OwnConn, Idle, NoCallback, InSession
<1>9. CASE AwaitSub
  BY <1>9, <1>w, <1>t, <1>q, <1>c DEF AwaitSub, Goto, ConnInv, CallInv, IdleInv,
     NoticeInv, OwnConn, Idle, NoCallback, InSession
<1>10. CASE CreateConnection
  BY <1>10, <1>w, <1>t, <1>q, <1>c DEF CreateConnection, Goto, Unwind, Return, ConnInv,
     CallInv, IdleInv, NoticeInv, OwnConn, Idle, NoCallback, InSession
<1>11. CASE JoinChannel
  <2>1. UNCHANGED <<state, sdkConns, used, made, queue, cb>> /\ conn' \in {conn, NoConn}
    BY <1>11 DEF JoinChannel, Return
  <2>2. \A n \in DOMAIN queue : queue[n].kind \in ConnKinds => queue[n].conn # NoConn
    BY <1>q, Positions, ItemKinds DEF ConnEvents
  <2>3. cb # NoCallback /\ cb.event.kind \in ConnKinds => cb.event.conn # NoConn
    BY <1>c DEF ConnEvents, RtmReports, RtmEvents, Events
  <2> QED
    BY <2>1, <2>2, <2>3 DEF NoticeInv, OwnConn
<1>12. CASE Destroy
  <2>1. UNCHANGED <<conn, used, made, queue, cb>> /\ sdkConns' \subseteq sdkConns
    BY <1>12 DEF Destroy, Goto
  <2>2. state # "idle"
    BY <1>12, <1>w DEF Destroy, IdleInv, Idle
  <2> QED
    BY <2>1, <2>2, <1>t DEF NoticeInv, OwnConn, ConnEvents
<1>13. CASE DoLeave
  <2>1. /\ UNCHANGED <<state, sdkConns, cb, used, made>> /\ conn' \in {conn, NoConn}
        /\ UNCHANGED queue \/ (queue # <<>> /\ queue' = Tail(queue))
    BY <1>13 DEF DoLeave, TakeCall, Start, LeaveChannel, Goto
  <2>2. \A n \in DOMAIN queue : queue[n].kind \in ConnKinds => queue[n].conn # NoConn
    BY <1>q, Positions, ItemKinds DEF ConnEvents
  <2>3. cb # NoCallback /\ cb.event.kind \in ConnKinds => cb.event.conn # NoConn
    BY <1>c DEF ConnEvents, RtmReports, RtmEvents, Events
  <2>4. \A n \in DOMAIN queue' : \E m \in DOMAIN queue : queue'[n] = queue[m]
    BY <2>1, <1>q, Positions
  <2> QED
    BY <2>1, <2>2, <2>3, <2>4 DEF NoticeInv, OwnConn
<1>14. CASE DoFini
  BY <1>14, <1>w, <1>t, <1>q, <1>c, Positions DEF DoFini, TakeCall, GateFree, Return,
     Start, ConnInv, CallInv, IdleInv, NoticeInv, OwnConn, Idle, NoCallback, InSession,
     Calls
<1>15. CASE Logout
  BY <1>15, <1>w, <1>t, <1>q, <1>c DEF Logout, ClearSubscription, Goto, Return,
     ClearLogin, ConnInv, CallInv, IdleInv, NoticeInv, OwnConn, Idle, NoCallback,
     InSession
<1>16. CASE SdkFini
  <2>1. \/ /\ state' = "idle" /\ sdkConns' = {}
        \/ /\ UNCHANGED <<conn, sdkConns, used, made>> /\ state' = "error"
    BY <1>16 DEF SdkFini
  <2>2. work.at = "sdkFini" /\ UNCHANGED <<queue, cb>>
    BY <1>16 DEF SdkFini
  <2> QED
    BY <2>1, <2>2, <1>t DEF NoticeInv, OwnConn, ConnEvents, IdleInv, Idle
<1>17. CASE ProcessEvent
  BY <1>17, <1>w, <1>t, <1>q, <1>c, Positions DEF ProcessEvent, Heeded, ClearLogin,
     ConnectionIsActive, ClearSubscription, ConnInv, CallInv, IdleInv, NoticeInv,
     OwnConn, Idle, NoCallback, InSession, Calls
<1>18. CASE Raise
  BY <1>18, <1>w, <1>t, <1>q, <1>c DEF Raise, ConnInv, CallInv, IdleInv, NoticeInv,
     OwnConn, Idle, NoCallback, InSession, ConnEvents, RtmReports
<1>19. CASE CheckRtm
  BY <1>19, <1>w, <1>t, <1>q, <1>c DEF CheckRtm, ConnInv, CallInv, IdleInv, NoticeInv,
     OwnConn, Idle, NoCallback, InSession, ConnEvents, RtmReports
<1>20. CASE AnswerWait
  BY <1>20, <1>w, <1>t, <1>q, <1>c DEF AnswerWait, ConnInv, CallInv, IdleInv,
     NoticeInv, OwnConn, Idle, NoCallback, InSession, ConnEvents, RtmReports
<1>21. CASE TagRtm
  BY <1>21, <1>w, <1>t, <1>q, <1>c DEF TagRtm, ConnInv, CallInv, IdleInv, NoticeInv,
     OwnConn, Idle, NoCallback, InSession, ConnEvents, RtmReports
<1>22. CASE EnterGate
  BY <1>22, <1>w, <1>t, <1>q, <1>c DEF EnterGate, ConnInv, CallInv, IdleInv, NoticeInv,
     OwnConn, Idle, NoCallback, InSession, ConnEvents, RtmReports
<1>23. CASE PostEvent
  BY <1>23, <1>w, <1>t, <1>q, <1>c, Positions DEF PostEvent, Room, ConnInv, CallInv,
     IdleInv, NoticeInv, OwnConn, Idle, NoCallback, InSession, Calls, ConnEvents,
     RtmReports
<1>24. CASE UNCHANGED vars
  BY <1>24 DEF vars, NoticeInv, OwnConn
<1> QED
  BY <1>1, <1>2, <1>3, <1>4, <1>5, <1>6, <1>7, <1>8, <1>9, <1>10, <1>11, <1>12, <1>13,
     <1>14, <1>15, <1>16, <1>17, <1>18, <1>19, <1>20, <1>21, <1>22, <1>23, <1>24
  DEF Next, Control, FinishFini, Worker, CallbackThread
-----------------------------------------------------------------------------
(* The login.                                                              *)

\* At first there is no login and nothing is reported.
LEMMA NoLoginAtFirst == Init => ReportInv /\ LoginInv /\ JoinInv
  BY DEF Init, ReportInv, AboutLogin, LoginInv, LoggedIn, JoinInv, Ends, Idle, NoCallback

\* What is proved so far.
Known == SessionTypes /\ CallInv /\ ConnInv /\ IdleInv

\* Calls are no reports: what a posted call adds to the queue is none.
LEMMA PostedReports ==
  ASSUME Known, CallInit \/ CallJoin \/ CallLeaveOrFini \/ FiniBarrier
  PROVE  /\ UNCHANGED <<requested, misled, loginOf, loginDone, loginOk, loginGen>>
         /\ UNCHANGED <<subDone, subOk, sdkLogin, sdkSub, cb, confirmed, work>>
         /\ \A n \in DOMAIN queue' :
              \/ queue'[n].kind \in Calls
              \/ n \in DOMAIN queue /\ queue'[n] = queue[n]
  BY PostedCall DEF Known, session, waits, loginFlags, sdk

\* Taking an item leaves the others.
LEMMA TakenReports ==
  ASSUME Known, queue # <<>>, queue' = Tail(queue)
  PROVE  \A n \in DOMAIN queue' : \E m \in DOMAIN queue : queue'[n] = queue[m]
  BY TakenItem DEF Known

\* An event that is posted is the one at the gate.
LEMMA PostedEvent ==
  ASSUME Known, PostEvent
  PROVE  /\ cb.at = "posting" /\ cb # NoCallback /\ cb' = NoCallback
         /\ \A n \in DOMAIN queue' :
              queue'[n] = cb.event \/ (n \in DOMAIN queue /\ queue'[n] = queue[n])
<1>1. cb.at = "posting" /\ cb # NoCallback /\ cb' = NoCallback
  BY DEF PostEvent, NoCallback
<1>2. cb.event \in Items /\ queue \in Seq(Items)
  BY <1>1 DEF Known, SessionTypes, ThreadTypes, DataTypes, Items, NoCallback
<1>3. queue' = queue \/ queue' = Append(queue, cb.event)
  BY DEF PostEvent
<1> QED
  BY <1>1, <1>2, <1>3, Positions

\* On its way to the gate a report keeps its kind, its answer and its session.
LEMMA ReportOnItsWay ==
  ASSUME Known, CheckRtm \/ AnswerWait \/ TagRtm \/ EnterGate
  PROVE  /\ cb # NoCallback
         /\ \/ cb' = NoCallback
            \/ /\ cb' # NoCallback
               /\ cb'.event.kind = cb.event.kind /\ cb'.event.of = cb.event.of
               /\ Ends(cb'.event) => Ends(cb.event)
<1>1. /\ cb.at \in {"check", "answer", "tag"} => cb \in [at : {"check", "answer", "tag"}, event : RtmReports]
      /\ cb.at = "post" => cb \in [at : {"post", "posting"}, event : Events]
  BY DEF Known, SessionTypes, ThreadTypes, NoCallback
<1>2. CASE CheckRtm
  BY <1>1, <1>2 DEF CheckRtm, NoCallback, Ends
<1>3. CASE AnswerWait
  BY <1>1, <1>3 DEF AnswerWait, NoCallback, Ends
<1>4. CASE TagRtm
  BY <1>1, <1>4 DEF TagRtm, NoCallback, Ends
<1>5. CASE EnterGate
  BY <1>1, <1>5 DEF EnterGate, NoCallback, Ends
<1> QED
  BY <1>2, <1>3, <1>4, <1>5

\* The steps of the worker that take nothing from the queue and the gate leave
\* the reports alone.
InnerStep ==
  \/ RetireQueue \/ AwaitLogin \/ Subscribe \/ AwaitSub \/ CreateConnection \/ JoinChannel
  \/ Destroy \/ Logout \/ SdkFini
TakingStep == PassBarrier \/ DoInit \/ DoFini \/ ProcessEvent \/ DoLeave

\* What the next item of the queue brings, if it is no join.
LEMMA Taking ==
  ASSUME Known, TakingStep
  PROVE  /\ UNCHANGED <<loginGen, loginFlags, subDone, subOk, cb, confirmed, sdkLogin, sdkSub>>
         /\ \A n \in DOMAIN queue' : \E m \in DOMAIN queue : queue'[n] = queue[m]
<1>1. UNCHANGED queue \/ (queue # <<>> /\ queue' = Tail(queue))
  BY DEF TakingStep, PassBarrier, DoInit, DoFini, ProcessEvent, DoLeave, TakeCall
<1>2. UNCHANGED <<loginGen, loginFlags, subDone, subOk, cb, confirmed, sdkLogin, sdkSub>>
  BY DEF TakingStep, PassBarrier, DoInit, DoFini, ProcessEvent, DoLeave, session, rtm, waits,
     loginFlags, sdk
<1> QED
  BY <1>1, <1>2, TakenReports

\* A join asks for the next login or leaves the login alone.
LEMMA Joining ==
  ASSUME Known, DoJoin
  PROVE  /\ UNCHANGED <<subDone, subOk, cb>> /\ loginGen \in Nat
         /\ \A n \in DOMAIN queue' : \E m \in DOMAIN queue : queue'[n] = queue[m]
         /\ \/ /\ UNCHANGED <<requested, misled, loginGen, loginFlags, sdkLogin, sdkSub,
                              confirmed>>
               /\ work'.at = "idle" \/ (work'.at = "awaitLogin" /\ work'.own = FALSE)
            \/ /\ requested = FALSE /\ loginGen' = loginGen + 1
               /\ loginDone' = FALSE /\ loginOf' = 0
               /\ \/ /\ requested' = TRUE /\ sdkSub' = "none" /\ confirmed' = {}
                     /\ sdkLogin' = "pending" /\ work'.at = "awaitLogin"
                  \/ /\ requested' = FALSE /\ UNCHANGED <<misled, sdkLogin, sdkSub, confirmed>>
                     /\ work'.at = "idle"
<1>1. queue # <<>> /\ queue' = Tail(queue) /\ UNCHANGED <<subDone, subOk, cb>>
  BY DEF DoJoin, TakeCall
<1>2. loginGen \in Nat /\ requested \in BOOLEAN
  BY DEF Known, SessionTypes, DataTypes, FlagTypes
<1>3. CASE requested
  <2>1. /\ UNCHANGED <<requested, misled, loginGen, loginFlags, sdkLogin, sdkSub, confirmed>>
        /\ work' = [call |-> "join", at |-> "awaitLogin", ok |-> TRUE, own |-> FALSE, id |-> NoConn]
    BY <1>3 DEF DoJoin, Start, rtm
  <2> QED
    BY <2>1, <1>1, <1>2, TakenReports
<1>4. CASE requested = FALSE
  <2>1. ASSUME work' = Idle PROVE work'.at = "idle"
    BY <2>1 DEF Idle
  <2>2. \/ /\ UNCHANGED <<requested, misled, loginGen, loginFlags, sdkLogin, sdkSub,
                          confirmed>>
           /\ work' = Idle
        \/ /\ loginGen' = loginGen + 1 /\ loginDone' = FALSE /\ loginOf' = 0
           /\ \/ /\ requested' = TRUE /\ sdkSub' = "none" /\ confirmed' = {}
                 /\ sdkLogin' = "pending"
                 /\ work' = [call |-> "join", at |-> "awaitLogin", ok |-> TRUE, own |-> TRUE, id |-> NoConn]
              \/ /\ requested' = FALSE /\ UNCHANGED <<misled, sdkLogin, sdkSub, confirmed>>
                 /\ work' = Idle
    BY <1>4 DEF DoJoin, Return, ResetLoginFlags, ClearLogin, rtm
  <2> QED
    BY <2>1, <2>2, <1>1, <1>2, <1>4, TakenReports
<1> QED
  BY <1>1, <1>2, <1>3, <1>4, TakenReports

\* What the SDK reports is about the login of the day.
Raised ==
  /\ cb = NoCallback /\ cb' # NoCallback
    /\ UNCHANGED <<requested, misled, loginGen, loginFlags, subDone, subOk, queue, work>>
    /\ \/ cb'.event.kind \in ConnKinds /\ UNCHANGED <<sdkLogin, sdkSub, confirmed>>
       \/ /\ cb'.event.kind \in {"login", "kickoff"} /\ cb'.event.of = loginGen
          /\ sdkLogin \in {"pending", "in"} /\ (cb'.event.kind = "login" => sdkLogin = "pending")
          /\ Ends(cb'.event) => sdkLogin' = "none"
          /\ ~Ends(cb'.event) => sdkLogin' = "in" /\ "login" \in confirmed'
          /\ sdkSub' = IF cb'.event.kind = "kickoff" THEN "none" ELSE sdkSub
          /\ confirmed \subseteq confirmed' /\ ("sub" \in confirmed' => "sub" \in confirmed)
       \/ /\ cb'.event.kind \in {"data", "subData"}
          /\ UNCHANGED <<sdkLogin, sdkSub, confirmed>>
       \/ /\ cb'.event.kind = "subResult" /\ sdkSub = "pending" /\ sdkSub' \in {"none", "in"}
          /\ UNCHANGED sdkLogin /\ confirmed \subseteq confirmed'
          /\ cb'.event.ok => "sub" \in confirmed'
          /\ "login" \in confirmed' => "login" \in confirmed

\* A report of the SDK, by its kind.
LEMMA Raising == Known /\ Raise => Raised
<1> SUFFICES ASSUME Known, Raise PROVE Raised
  OBVIOUS
<1>1. CASE \E k \in sdkConns, kind \in ConnKinds :
             /\ cb' = [at |-> "post", event |-> [kind |-> kind, conn |-> k.id, of |-> k.of]]
             /\ UNCHANGED <<sdkLogin, sdkSub, confirmed>>
  BY <1>1 DEF Raise, Raised, NoCallback, session, rtm, waits, loginFlags
<1>2. ASSUME NEW kind \in RtmKinds, NEW ok \in BOOLEAN,
             CASE kind = "login" -> sdkLogin = "pending"
               [] kind = "subResult" -> sdkSub = "pending"
               [] kind = "subData" -> sdkSub = "in" /\ ok
               [] OTHER -> sdkLogin = "in" /\ ok,
             cb'.event.kind = kind, cb'.event.ok = ok, cb' # NoCallback,
             cb'.event.of = IF kind \in {"subResult", "subData"} THEN subGen ELSE loginGen,
             sdkLogin' = CASE kind = "login" -> IF ok THEN "in" ELSE "none"
                           [] kind = "kickoff" -> "none"
                           [] OTHER -> sdkLogin,
             sdkSub' = CASE kind = "subResult" -> IF ok THEN "in" ELSE "none"
                         [] kind = "kickoff" -> "none"
                         [] OTHER -> sdkSub,
             confirmed' = CASE kind = "login" /\ ok -> confirmed \cup {"login"}
                            [] kind = "subResult" /\ ok -> confirmed \cup {"sub"}
                            [] OTHER -> confirmed,
             UNCHANGED <<requested, misled, loginGen, loginFlags, subDone, subOk, queue,
             work>>,
             cb = NoCallback
      PROVE  Raised
  <2>1. CASE kind = "login"
    BY <1>2, <2>1 DEF Raised, Ends
  <2>2. CASE kind = "kickoff"
    BY <1>2, <2>2 DEF Raised, Ends
  <2>3. CASE kind = "subResult"
    BY <1>2, <2>3 DEF Raised
  <2>4. CASE kind \in {"data", "subData"}
    BY <1>2, <2>4 DEF Raised
  <2> QED
    BY <2>1, <2>2, <2>3, <2>4 DEF RtmKinds
<1> QED
  BY <1>1, <1>2 DEF Raise, Raised, NoCallback, session, rtm, waits, loginFlags

\* No report is about a login still to come.
LEMMA ReportStep == Known /\ ReportInv /\ [Next]_vars => ReportInv'
<1> SUFFICES ASSUME Known, ReportInv, [Next]_vars PROVE ReportInv'
  OBVIOUS
<1>g. loginGen \in Nat
  BY DEF Known, SessionTypes, DataTypes
<1>1. CASE \/ CallInit \/ CallJoin \/ CallLeaveOrFini \/ FiniBarrier
  BY <1>1, PostedReports DEF ReportInv, AboutLogin, Calls
<1>2. CASE TakingStep
  BY <1>2, Taking DEF ReportInv, AboutLogin, loginFlags
<1>3. CASE DestroyQueue
  <2>1. UNCHANGED <<loginGen, loginOf, cb>> /\ (queue' = queue \/ queue' = <<>>)
    BY <1>3 DEF DestroyQueue, session, rtm, waits, loginFlags
  <2> QED
    BY <2>1 DEF ReportInv, AboutLogin
<1>4. CASE DoJoin
  <2>1. loginGen' \in {loginGen, loginGen + 1} /\ loginOf' \in {loginOf, 0} /\ cb' = cb
    BY <1>4, Joining DEF loginFlags
  <2>2. 0 .. loginGen \subseteq 0 .. loginGen' /\ 0 \in 0 .. loginGen'
    BY <1>g, <2>1
  <2>3. \A n \in DOMAIN queue' : \E m \in DOMAIN queue : queue'[n] = queue[m]
    BY <1>4, Joining
  <2> QED
    BY <2>1, <2>2, <2>3 DEF ReportInv, AboutLogin
<1>5. CASE InnerStep
  <2>1. UNCHANGED <<loginGen, loginOf, queue, cb>>
    BY <1>5 DEF InnerStep, RetireQueue, AwaitLogin, Subscribe, AwaitSub, CreateConnection,
       JoinChannel, Destroy, Logout, SdkFini, session, rtm, waits, loginFlags
  <2> QED
    BY <2>1 DEF ReportInv, AboutLogin
<1>6. CASE Raise
  BY <1>6, <1>g, Raising, Kinds DEF Raised, ReportInv, AboutLogin, loginFlags
<1>7. CASE \/ CheckRtm \/ AnswerWait \/ TagRtm \/ EnterGate
  <2>1. UNCHANGED <<loginGen, queue>> /\ (loginOf' = loginOf \/ (loginOf' = cb.event.of /\ cb.event.kind = "login"))
    BY <1>7 DEF CheckRtm, AnswerWait, TagRtm, EnterGate, session, rtm, waits, loginFlags
  <2> QED
    BY <1>7, <2>1, ReportOnItsWay DEF ReportInv, AboutLogin
<1>8. CASE PostEvent
  <2>1. UNCHANGED <<loginGen, loginOf>>
    BY <1>8 DEF PostEvent, session, rtm, waits, loginFlags
  <2> QED
    BY <1>8, <2>1, PostedEvent DEF ReportInv, AboutLogin
<1>9. CASE UNCHANGED vars
  BY <1>9 DEF vars, session, rtm, waits, loginFlags, ReportInv, AboutLogin
<1> QED
  BY <1>1, <1>2, <1>3, <1>4, <1>5, <1>6, <1>7, <1>8, <1>9
  DEF Next, Control, FinishFini, Worker, CallbackThread, TakingStep, InnerStep

\* A step keeps what the session knows of its login: a report that ends a login
\* which goes on is one of an earlier login.
LEMMA LoginStep == Known /\ ReportInv /\ LoginInv /\ [Next]_vars => LoginInv'
<1> SUFFICES ASSUME Known, ReportInv, LoginInv, [Next]_vars PROVE LoginInv'
  OBVIOUS
<1>t. /\ requested \in BOOLEAN /\ loginGen \in Nat
      /\ sdkLogin \in {"none", "pending", "in", "leaked"} /\ sdkSub \in {"none", "pending", "in"}
  BY DEF Known, SessionTypes, FlagTypes, DataTypes
<1>1. CASE \/ CallInit \/ CallJoin \/ CallLeaveOrFini \/ FiniBarrier
  BY <1>1, PostedReports DEF LoginInv, LoggedIn, Ends, Calls
<1>2. CASE PassBarrier \/ DoFini \/ DoLeave \/ DoInit
  <2>1. UNCHANGED <<requested, misled>> \/ (state = "idle" /\ UNCHANGED misled)
    BY <1>2 DEF PassBarrier, DoFini, DoLeave, DoInit, session, rtm, waits
  <2>2. state = "idle" => sdkLogin = "none"
    BY DEF Known, IdleInv
  <2> QED
    BY <1>2, <2>1, <2>2, Taking DEF TakingStep, LoginInv, LoggedIn, loginFlags
<1>3. CASE ProcessEvent
  <2>1. /\ queue # <<>> /\ queue' = Tail(queue)
        /\ \/ UNCHANGED <<requested, misled>>
           \/ Ends(Head(queue)) /\ requested' = FALSE /\ Forgets(Head(queue).of)
    BY <1>3, TakenItem, ItemKinds
    DEF ProcessEvent, ClearLogin, Ends, Known, Items, RtmKinds
  <2>2. LoggedIn /\ ~UNCHANGED <<requested, misled>> => misled'
    BY <2>1, TakenItem DEF Known, LoginInv, Forgets
  <2> QED
    BY <1>3, <2>1, <2>2, Taking DEF TakingStep, LoginInv, LoggedIn, loginFlags
<1>4. CASE DestroyQueue
  <2>1. /\ UNCHANGED <<requested, misled, loginGen, loginFlags, sdkLogin, sdkSub, cb>>
        /\ queue' = queue \/ queue' = <<>>
    BY <1>4 DEF DestroyQueue, session, rtm, waits, sdk
  <2> QED
    BY <2>1 DEF LoginInv, LoggedIn, loginFlags
<1>5. CASE DoJoin
  <2>1. \A n \in DOMAIN queue' : \E m \in DOMAIN queue : queue'[n] = queue[m]
    BY <1>5, Joining
  <2>2. CASE /\ UNCHANGED <<requested, misled, loginGen, loginFlags, sdkLogin, sdkSub, cb>>
    BY <2>1, <2>2 DEF LoginInv, LoggedIn, loginFlags
  <2>3. CASE /\ requested = FALSE /\ loginGen' = loginGen + 1 /\ loginDone' = FALSE /\ cb' = cb
             /\ \/ requested' = TRUE /\ sdkSub' = "none" /\ sdkLogin' = "pending"
                \/ requested' = FALSE /\ UNCHANGED <<misled, sdkLogin, sdkSub>>
    <3>1. \A n \in 0 .. loginGen : n # loginGen'
      BY <1>t, <2>3
    <3>2. \A n \in DOMAIN queue' : Ends(queue'[n]) => queue'[n].of # loginGen'
      BY <2>1, <3>1 DEF ReportInv, AboutLogin, Ends
    <3>3. cb' # NoCallback /\ Ends(cb'.event) => cb'.event.of # loginGen'
      BY <2>3, <3>1 DEF ReportInv, AboutLogin, Ends
    <3> QED
      BY <2>3, <3>2, <3>3 DEF LoginInv, LoggedIn
  <2> QED
    BY <1>5, <2>2, <2>3, Joining
<1>6. CASE AwaitLogin
  <2>1. /\ UNCHANGED <<loginGen, loginFlags, sdkLogin, sdkSub, queue, cb>>
        /\ \/ UNCHANGED <<requested, misled>>
           \/ loginDone /\ ~loginOk /\ Forgets(loginOf)
    BY <1>6 DEF AwaitLogin, sdk
  <2>2. loginOk \in BOOLEAN
    BY DEF Known, SessionTypes, FlagTypes
  <2> QED
    BY <2>1, <2>2 DEF LoginInv, LoggedIn, Forgets, loginFlags
<1>7. CASE Subscribe
  <2>1. /\ UNCHANGED <<requested, misled, loginGen, loginFlags, sdkLogin, queue, cb>>
        /\ sdkSub' # "none" => sdkLogin = "in" \/ sdkSub' = sdkSub
    BY <1>7 DEF Subscribe
  <2> QED
    BY <2>1 DEF LoginInv, LoggedIn, loginFlags
<1>8. CASE RetireQueue \/ AwaitSub \/ CreateConnection \/ JoinChannel \/ Destroy
  <2>1. UNCHANGED <<requested, misled, loginGen, loginFlags, sdkLogin, sdkSub, queue, cb>>
    BY <1>8 DEF RetireQueue, AwaitSub, CreateConnection, JoinChannel, Destroy, session, rtm,
       waits, sdk
  <2> QED
    BY <2>1 DEF LoginInv, LoggedIn, loginFlags
<1>9. CASE Logout \/ SdkFini
  <2>1. /\ UNCHANGED <<misled, loginGen, loginFlags, queue, cb>>
        /\ \/ UNCHANGED <<requested, sdkLogin, sdkSub>>
           \/ sdkLogin' \in {"none", "leaked"} /\ sdkSub' = "none"
    BY <1>9 DEF Logout, SdkFini, waits, rtm, sdk
  <2> QED
    BY <2>1 DEF LoginInv, LoggedIn, loginFlags
<1>10. CASE Raise
  <2>1. Raised
    BY <1>10, Raising
  <2>2. CASE cb'.event.kind \in {"login", "kickoff"}
    BY <2>1, <2>2, Kinds, <1>t DEF Raised, LoginInv, LoggedIn, loginFlags, RtmKinds
  <2>3. CASE cb'.event.kind \notin {"login", "kickoff"}
    BY <2>1, <2>3, <1>t DEF Raised, LoginInv, LoggedIn, Ends, loginFlags
  <2> QED
    BY <2>2, <2>3
<1>11. CASE \/ CheckRtm \/ AnswerWait \/ TagRtm \/ EnterGate
  <2>1. /\ UNCHANGED <<requested, misled, loginGen, sdkLogin, sdkSub, queue>>
        /\ \/ UNCHANGED loginFlags
           \/ AnswerWait /\ cb.event.kind = "login" /\ loginOf' = cb.event.of /\ loginOk' = cb.event.ok
    BY <1>11 DEF CheckRtm, AnswerWait, TagRtm, EnterGate, session, rtm, waits, loginFlags, sdk
  <2>2. /\ cb # NoCallback
        /\ cb' # NoCallback => cb'.event.of = cb.event.of /\ (Ends(cb'.event) => Ends(cb.event))
    BY <1>11, ReportOnItsWay
  <2>3. \/ UNCHANGED loginFlags
        \/ (loginOk' = FALSE => Ends(cb.event)) /\ loginOf' = cb.event.of
    BY <2>1 DEF Ends
  <2> QED
    BY <2>1, <2>2, <2>3 DEF LoginInv, LoggedIn, loginFlags
<1>12. CASE PostEvent
  <2>1. UNCHANGED <<requested, misled, loginGen, loginFlags, sdkLogin, sdkSub>>
    BY <1>12 DEF PostEvent, session, rtm, waits, sdk
  <2> QED
    BY <1>12, <2>1, PostedEvent DEF LoginInv, LoggedIn, loginFlags
<1>13. CASE UNCHANGED vars
  BY <1>13 DEF vars, session, rtm, waits, loginFlags, sdk, LoginInv, LoggedIn
<1> QED
  BY <1>1, <1>2, <1>3, <1>4, <1>5, <1>6, <1>7, <1>8, <1>9, <1>10, <1>11, <1>12, <1>13
  DEF Next, Control, FinishFini, Worker, CallbackThread
-----------------------------------------------------------------------------
(* What a join knows of the SDK's answers.                                 *)

\* A step keeps what a join knows of the SDK's answers.
LEMMA JoinStep == Known /\ LoginInv /\ JoinInv /\ [Next]_vars => JoinInv'
<1> SUFFICES ASSUME Known, LoginInv, JoinInv, [Next]_vars PROVE JoinInv'
  OBVIOUS
<1>w. work = Idle \/ (work \in CallRecords /\ work # Idle)
  BY DEF Known, SessionTypes, ThreadTypes
<1>t. /\ loginDone \in BOOLEAN /\ subDone \in BOOLEAN /\ subOk \in BOOLEAN
      /\ confirmed \subseteq {"login", "sub"}
      /\ sdkLogin \in {"none", "pending", "in", "leaked"} /\ sdkSub \in {"none", "pending", "in"}
  BY DEF Known, SessionTypes, FlagTypes, DataTypes
<1>o. work.at \in {"subscribe", "awaitSub", "connect", "joinChannel"} => work.own = TRUE
  BY DEF Known, ConnInv
<1>1. CASE \/ CallInit \/ CallJoin \/ CallLeaveOrFini \/ FiniBarrier
  BY <1>1, PostedReports DEF JoinInv
<1>2. CASE TakingStep
  <2>1. \/ work' = work \/ work' = Idle
        \/ \E name \in Calls : Start(name, "leave")
        \/ /\ work.at = "leave"
           /\ \/ work' = [work EXCEPT !.at = "logout"]
              \/ \E ok \in BOOLEAN : work' = [work EXCEPT !.at = "destroy", !.id = conn, !.ok = ok]
    BY <1>2 DEF TakingStep, PassBarrier, DoInit, DoFini, ProcessEvent, DoLeave, LeaveChannel,
       Goto, Return, Calls
  <2>2. work.at = "leave" => work \in CallRecords
    BY <1>w DEF Idle
  <2>3. CASE \E name \in Calls : Start(name, "leave")
    <3>1. work'.at = "leave"
      BY <2>3 DEF Start
    <3> QED
      BY <3>1, <1>2, Taking DEF JoinInv, loginFlags
  <2>4. CASE work' = work \/ work' = Idle
    BY <2>4, <1>2, Taking DEF JoinInv, loginFlags, Idle
  <2>5. CASE /\ work.at = "leave"
             /\ \/ work' = [work EXCEPT !.at = "logout"]
                \/ \E ok \in BOOLEAN : work' = [work EXCEPT !.at = "destroy", !.id = conn, !.ok = ok]
    <3>1. work'.at \in {"logout", "destroy"}
      BY <2>2, <2>5 DEF CallRecords
    <3> QED
      BY <3>1, <1>2, Taking DEF JoinInv, loginFlags
  <2> QED
    BY <2>1, <2>3, <2>4, <2>5
<1>3. CASE DestroyQueue \/ RetireQueue
  <2>1. UNCHANGED <<loginDone, subDone, subOk, cb, sdkLogin, sdkSub, confirmed, work>>
    BY <1>3 DEF DestroyQueue, RetireQueue, waits, loginFlags, sdk
  <2> QED
    BY <2>1 DEF JoinInv
<1>4. CASE DoJoin
  BY <1>4, Joining DEF JoinInv
<1>5. CASE AwaitLogin
  <2>1. /\ UNCHANGED <<loginDone, cb, sdkLogin, sdkSub, confirmed>>
        /\ work \in CallRecords /\ work.at = "awaitLogin"
    BY <1>5, <1>w DEF AwaitLogin, loginFlags, sdk, Idle
  <2>2. \/ work'.at \notin JoinSteps
        \/ loginDone /\ work' = [work EXCEPT !.at = "subscribe"]
           /\ state = "initialized" /\ conn = NoConn
    BY <1>5, <2>1 DEF AwaitLogin, Unwind, Goto, Return, Idle, CallRecords, JoinSteps
  <2>3. state = "initialized" /\ conn = NoConn => work.own = TRUE
    BY <2>1 DEF Known, ConnInv
  <2>4. work' = [work EXCEPT !.at = "subscribe"] => work'.at = "subscribe"
    BY <2>1 DEF CallRecords
  <2> QED
    BY <2>1, <2>2, <2>3, <2>4 DEF JoinInv, JoinSteps
<1>6. CASE Subscribe
  <2>1. /\ UNCHANGED <<loginDone, cb, sdkLogin>> /\ subDone' = FALSE
        /\ work \in CallRecords /\ work.at = "subscribe"
    BY <1>6, <1>w DEF Subscribe, ResetSubFlags, loginFlags, Idle
  <2>2. \/ work'.at \notin JoinSteps /\ UNCHANGED <<sdkSub, confirmed>>
        \/ work'.at = "awaitSub" /\ confirmed' = confirmed \ {"sub"}
    BY <1>6, <2>1 DEF Subscribe, Unwind, Goto, Return, Idle, CallRecords, JoinSteps
  <2> QED
    BY <2>1, <2>2 DEF JoinInv, JoinSteps
<1>7. CASE AwaitSub
  <2>1. /\ UNCHANGED <<loginDone, subDone, subOk, cb, sdkLogin, sdkSub, confirmed>>
        /\ work \in CallRecords /\ work.at = "awaitSub"
    BY <1>7, <1>w DEF AwaitSub, waits, loginFlags, sdk, Idle
  <2>2. work'.at = "logout" \/ (work'.at = "connect" /\ subDone /\ subOk)
    BY <1>7, <2>1 DEF AwaitSub, Goto, CallRecords
  <2> QED
    BY <2>1, <2>2 DEF JoinInv
<1>8. CASE CreateConnection
  <2>1. /\ UNCHANGED <<loginDone, subDone, subOk, cb, sdkLogin, sdkSub, confirmed>>
        /\ work \in CallRecords /\ work.at = "connect"
    BY <1>8, <1>w DEF CreateConnection, waits, loginFlags, Idle
  <2>2. work'.at \notin JoinSteps \/ work'.at = "joinChannel"
    BY <1>8, <2>1 DEF CreateConnection, Unwind, Goto, Return, Idle, CallRecords, JoinSteps
  <2> QED
    BY <2>1, <2>2 DEF JoinInv, JoinSteps
<1>9. CASE JoinChannel \/ Destroy \/ Logout \/ SdkFini
  <2>1. /\ UNCHANGED <<loginDone, subDone, subOk, cb, confirmed>>
        /\ UNCHANGED <<sdkLogin, sdkSub>> \/ sdkLogin' \in {"none", "leaked"}
        /\ work.at \in {"joinChannel", "destroy", "logout", "sdkFini"}
    BY <1>9 DEF JoinChannel, Destroy, Logout, SdkFini, waits, loginFlags, sdk
  <2>2. work \in CallRecords
    BY <2>1, <1>w DEF Idle
  <2>3. \/ work' = Idle
        \/ work' = [work EXCEPT !.at = "logout"] \/ work' = [work EXCEPT !.at = "sdkFini"]
        \/ work' = [work EXCEPT !.at = "logout", !.ok = FALSE]
        \/ work' = [work EXCEPT !.at = "destroy", !.id = conn]
        \/ \E ok \in BOOLEAN : work' = [work EXCEPT !.at = "sdkFini", !.ok = ok /\ work.ok]
    BY <1>9, Zenon DEF JoinChannel, Destroy, Logout, SdkFini, Goto, Return
  <2>4. work'.at \in {"idle", "logout", "sdkFini", "destroy"}
    <3>1. ASSUME work' = Idle PROVE work'.at = "idle"
      BY <3>1 DEF Idle
    <3>2. ASSUME NEW ok \in BOOLEAN, work' = [work EXCEPT !.at = "sdkFini", !.ok = ok /\ work.ok]
          PROVE  work'.at = "sdkFini"
      BY <2>2, <3>2 DEF CallRecords
    <3> QED
      BY <2>2, <2>3, <3>1, <3>2 DEF CallRecords
  <2> QED
    BY <2>1, <2>4 DEF JoinInv
<1>10. CASE Raise
  <2>1. Raised
    BY <1>10, Raising
  <2>2. sdkSub = "pending" => "login" \in confirmed
    BY DEF JoinInv, LoginInv
  <2>3. cb'.event.kind = "subResult" => work.at # "subscribe" /\ ~(work.at = "awaitLogin" /\ work.own = TRUE)
    BY <2>1, <1>o DEF Raised, JoinInv, ConnKinds, StateAfter
  <2>4. confirmed \subseteq confirmed' /\ UNCHANGED <<work, loginDone, subDone, subOk>>
    BY <2>1 DEF Raised, loginFlags
  <2>5. (sdkLogin' = "in" => "login" \in confirmed') /\ ("sub" \in confirmed' => "login" \in confirmed')
    BY <2>1, <2>2, <2>4 DEF Raised, JoinInv
  <2>6. sdkSub = "none" => sdkSub' = "none"
    BY <2>1 DEF Raised
  <2>7. cb'.event.kind = "subResult" /\ cb'.event.ok => "sub" \in confirmed'
    BY <2>1, Kinds DEF Raised, RtmKinds
  <2> QED
    BY <2>3, <2>4, <2>5, <2>6, <2>7, <1>o DEF JoinInv
<1>11. CASE CheckRtm \/ TagRtm \/ EnterGate
  <2>1. /\ UNCHANGED <<loginDone, subDone, subOk, sdkLogin, sdkSub, confirmed, work>>
        /\ \/ cb'.at \notin {"check", "answer"}
           \/ cb.at = "check" /\ cb'.event = cb.event
    BY <1>11 DEF CheckRtm, TagRtm, EnterGate, waits, loginFlags, sdk, Known, SessionTypes,
       ThreadTypes, NoCallback
  <2> QED
    BY <2>1 DEF JoinInv
<1>12. CASE AnswerWait
  <2>1. /\ UNCHANGED <<sdkLogin, sdkSub, confirmed, work>>
        /\ cb.at = "answer" /\ cb'.at = "tag"
    BY <1>12 DEF AnswerWait, sdk, Known, SessionTypes, ThreadTypes, NoCallback
  <2>2. \/ UNCHANGED <<subDone, subOk>>
        \/ cb.event.kind = "subResult" /\ subOk' = cb.event.ok
    BY <1>12 DEF AnswerWait
  <2> QED
    BY <2>1, <2>2 DEF JoinInv
<1>13. CASE PostEvent
  <2>1. /\ UNCHANGED <<loginDone, subDone, subOk, sdkLogin, sdkSub, confirmed, work>>
        /\ cb'.at = "none"
    BY <1>13 DEF PostEvent, waits, loginFlags, sdk, NoCallback
  <2> QED
    BY <2>1 DEF JoinInv
<1>14. CASE UNCHANGED vars
  BY <1>14 DEF vars, waits, loginFlags, sdk, JoinInv
<1> QED
  BY <1>1, <1>2, <1>3, <1>4, <1>5, <1>6, <1>7, <1>8, <1>9, <1>10, <1>11, <1>12, <1>13, <1>14
  DEF Next, Control, FinishFini, Worker, CallbackThread, TakingStep
-----------------------------------------------------------------------------
(* The theorems about the session.                                         *)

\* All that holds of the session, the queue, the threads and the SDK.
Session == SessionTypes /\ CallInv /\ ConnInv /\ IdleInv /\ NoticeInv /\ ReportInv /\ LoginInv /\ JoinInv

\* Session is an inductive invariant.
LEMMA SessionStep == (Init => Session) /\ (Session /\ [Next]_vars => Session')
<1>1. Init => NoticeInv
  BY DEF Init, NoticeInv
<1>2. Init => Session
  BY <1>1, TypesInit, NoCallAtFirst, NoConnAtFirst, NoLoginAtFirst DEF Session
<1>3. Session /\ [Next]_vars => Session'
  BY TypesStep, CallStep, ConnStep, IdleStep, NoticeStep, ReportStep, LoginStep, JoinStep
  DEF Session, Known
<1> QED
  BY <1>2, <1>3

\* Every variable of the session, the queue, the threads and the SDK stays in
\* its set.
THEOREM SessionTypesCorrect == Spec => []SessionTypes
<1>1. Session => SessionTypes
  BY DEF Session
<1> QED
  BY <1>1, SessionStep, PTL DEF Spec

\* Between calls the session and the SDK agree: what is sent goes to a
\* connection the SDK has, no other is left unless its destruction failed, and
\* a login without a connection in use is one that the session forgot because of a
\* report of an earlier login.
THEOREM NothingIsLeftBehind == Spec => []NothingLeftBehind
<1>1. Session => NothingLeftBehind
  <2> SUFFICES ASSUME Session, work = Idle PROVE NothingLeftBehind
    BY DEF NothingLeftBehind
  <2>1. ConnInv /\ LoginInv /\ SessionTypes /\ work.at = "idle"
    BY DEF Session, Idle
  <2>2. SendAccepted \/ RenewAccepted => \E k \in sdkConns : k.id = conn
    BY <2>1 DEF ConnInv, SendAccepted, RenewAccepted
  <2>3. (\E k \in sdkConns : k.id # conn) => state = "error"
    BY <2>1 DEF ConnInv
  <2>4. /\ sdkLogin \in {"pending", "in"} => requested \/ misled
        /\ requested => conn # NoConn
    BY <2>1 DEF ConnInv, LoginInv, LoggedIn
  <2>5. state \in InSession <=> (conn # NoConn /\ state # "error")
    BY <2>1 DEF ConnInv, InSession
  <2> QED
    BY <2>2, <2>3, <2>4, <2>5 DEF NothingLeftBehind
<1> QED
  BY <1>1, SessionStep, PTL DEF Spec

\* A connection is created and joined only after the SDK confirmed the login this
\* join asked for and the subscription it made, however late callbacks come.
THEOREM JoinsAreConfirmed == Spec => []JoinsConfirmed
<1>1. Session => JoinsConfirmed
  BY DEF Session, SessionTypes, DataTypes, JoinInv, JoinsConfirmed
<1> QED
  BY <1>1, SessionStep, PTL DEF Spec

\* A notification is acted on only in the session of its connection, however late
\* it is.
THEOREM HeedsOwnConnection == Spec => []HeedsOwnConnectionOnly
<1>1. Session => HeedsOwnConnectionOnly
  <2> SUFFICES ASSUME Session, work = Idle, queue # <<>>, Head(queue).kind \in ConnKinds,
                      Heeded(Head(queue))
               PROVE  Head(queue).of = made
    BY DEF HeedsOwnConnectionOnly
  <2>1. 1 \in DOMAIN queue /\ Head(queue) = queue[1]
    BY Positions DEF Session, SessionTypes, DataTypes
  <2>2. Head(queue).conn = conn /\ conn # NoConn
    BY Kinds DEF Heeded, ConnectionIsActive, RtmKinds
  <2>3. state # "idle"
    BY <2>2 DEF Session, IdleInv
  <2> QED
    BY <2>1, <2>2, <2>3 DEF Session, NoticeInv, OwnConn
<1> QED
  BY <1>1, SessionStep, PTL DEF Spec

=============================================================================
