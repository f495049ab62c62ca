------------------------ MODULE MediaPipelineProofs ------------------------
(***************************************************************************)
(* Proofs about the media pipeline, module MediaPipeline.                  *)
(***************************************************************************)
EXTENDS MediaPipeline, SequenceTheorems, TLAPS

----------------------------------------------------------------------------
(* Types.                                                                  *)

\* What a frame of remote audio is labelled with.
Tags == [session : Nat, losses : Nat]

\* The frame the playback worker owns: none, of a prompt, or of remote audio.
NoFrame     == [source : {"none"}, gen : Nat, left : {0}]
PromptFrame == [source : {"prompt"}, gen : Nat, left : 1 .. FrameUnits, no : Nat \ {0}]
RemoteFrame == [source : {"rtc"}, gen : Nat, left : 1 .. FrameUnits, tag : Tags]

WorkerTypes ==
  /\ capture \in [pc : {"idle", "reading", "writing"}, tag : Nat]
  /\ playback \in [pc : {"idle", "begun", "prepare", "authorise", "writing"},
                   gen : Nat, active : BOOLEAN, losses : Nat]
  /\ send \in [pc : {"idle", "sending"}, frame : Nat, ref : SUBSET Tags]
  /\ rtc \in [pc : {"idle", "pushing"}, session : Nat, connected : BOOLEAN]

DataTypes ==
  /\ capRing \in Seq(Nat) /\ pbRing \in Seq(Tags) /\ refRing \in Seq(Tags)
  /\ pending \in NoFrame \cup PromptFrame \cup RemoteFrame
  /\ ann \in [gen : Nat, left : 0 .. PromptFrames]
  /\ session \in Nat /\ losses \in Nat
  /\ heard \subseteq Nat /\ cut \subseteq Nat

\* Every variable of a thread, and every ring and label, keeps its type.
MediaTypes == WorkerTypes /\ DataTypes

\* Taking the first of a ring: what is left was there before.
LEMMA RingTail ==
  ASSUME NEW S, NEW s \in Seq(S), s # <<>>
  PROVE  /\ Tail(s) \in Seq(S) /\ Head(s) \in S /\ 1 \in DOMAIN s /\ Head(s) = s[1]
         /\ \A i \in DOMAIN Tail(s) : \E j \in DOMAIN s : Tail(s)[i] = s[j]
<1>1. /\ Len(s) \in Nat /\ Len(s) > 0 /\ DOMAIN s = 1 .. Len(s)
      /\ Tail(s) \in Seq(S) /\ Head(s) \in S /\ Head(s) = s[1]
      /\ Len(Tail(s)) = Len(s) - 1 /\ DOMAIN Tail(s) = 1 .. Len(s) - 1
      /\ \A i \in 1 .. Len(s) - 1 : Tail(s)[i] = s[i + 1]
  OBVIOUS
<1>2. \A i \in DOMAIN Tail(s) : i + 1 \in DOMAIN s
  BY <1>1
<1> QED BY <1>1, <1>2

\* Adding one: it is the new one, or was there before.
LEMMA RingAppend ==
  ASSUME NEW S, NEW s \in Seq(S), NEW e \in S
  PROVE  /\ Append(s, e) \in Seq(S)
         /\ \A i \in DOMAIN Append(s, e) :
              Append(s, e)[i] = e \/ \E j \in DOMAIN s : Append(s, e)[i] = s[j]
<1>1. /\ Append(s, e) \in Seq(S) /\ DOMAIN s = 1 .. Len(s) /\ Len(s) \in Nat
      /\ DOMAIN Append(s, e) = 1 .. Len(s) + 1
      /\ Append(s, e)[Len(s) + 1] = e
      /\ \A i \in 1 .. Len(s) : Append(s, e)[i] = s[i]
  OBVIOUS
<1>2. \A i \in 1 .. Len(s) + 1 : i = Len(s) + 1 \/ i \in 1 .. Len(s)
  BY <1>1
<1> QED BY <1>1, <1>2

\* Adding n times the same.
LEMMA RingExtend ==
  ASSUME NEW S, NEW s \in Seq(S), NEW e \in S, NEW n \in Nat
  PROVE  /\ s \o [k \in 1 .. n |-> e] \in Seq(S)
         /\ \A i \in DOMAIN (s \o [k \in 1 .. n |-> e]) :
              \/ (s \o [k \in 1 .. n |-> e])[i] = e
              \/ \E j \in DOMAIN s : (s \o [k \in 1 .. n |-> e])[i] = s[j]
<1> DEFINE r == [k \in 1 .. n |-> e]
<1>1. r \in Seq(S) /\ Len(r) = n /\ \A i \in 1 .. n : r[i] = e
  <2>1. r \in [1 .. n -> S]
    OBVIOUS
  <2>2. r \in Seq(S)
    BY <2>1, SeqDef
  <2>3. DOMAIN r = 1 .. n /\ DOMAIN r = 1 .. Len(r)
    BY <2>1, <2>2
  <2>4. Len(r) = n
    BY <2>2, <2>3
  <2> QED BY <2>2, <2>4
<1> HIDE DEF r
<1>2. /\ s \o r \in Seq(S) /\ Len(s \o r) = Len(s) + n
      /\ \A i \in 1 .. Len(s) + n :
           (s \o r)[i] = IF i <= Len(s) THEN s[i] ELSE r[i - Len(s)]
  BY <1>1, ConcatProperties
<1>3. /\ DOMAIN (s \o r) = 1 .. Len(s) + n /\ DOMAIN s = 1 .. Len(s) /\ Len(s) \in Nat
  BY <1>2
<1>4. \A i \in 1 .. Len(s) + n :
        (s \o r)[i] = e \/ \E j \in DOMAIN s : (s \o r)[i] = s[j]
  <2> TAKE i \in 1 .. Len(s) + n
  <2>1. CASE i <= Len(s)
    <3>1. i \in DOMAIN s /\ (s \o r)[i] = s[i]
      BY <1>2, <1>3, <2>1
    <3> QED BY <3>1
  <2>2. CASE ~(i <= Len(s))
    <3>1. i - Len(s) \in 1 .. n
      BY <1>3, <2>2
    <3>2. (s \o r)[i] = r[i - Len(s)]
      BY <1>2, <2>2
    <3> QED BY <1>1, <3>1, <3>2
  <2> QED BY <2>1, <2>2
<1> QED BY <1>2, <1>3, <1>4 DEF r

\* Taking a whole frame of the reference: what is left was there before.
LEMMA RingRest ==
  ASSUME NEW S, NEW s \in Seq(S), Len(s) >= FrameUnits
  PROVE  LET t == SubSeq(s, FrameUnits + 1, Len(s))
         IN  /\ t \in Seq(S) /\ {s[i] : i \in 1 .. FrameUnits} \subseteq S
             /\ \A i \in DOMAIN t : \E j \in DOMAIN s : t[i] = s[j]
             /\ \A e \in {s[i] : i \in 1 .. FrameUnits} : \E j \in DOMAIN s : e = s[j]
<1> DEFINE t == SubSeq(s, FrameUnits + 1, Len(s))
<1>1. /\ FrameUnits \in Nat /\ Len(s) \in Nat /\ DOMAIN s = 1 .. Len(s)
      /\ \A i \in FrameUnits + 1 .. Len(s) : s[i] \in S
      /\ \A i \in 1 .. FrameUnits : i \in DOMAIN s /\ s[i] \in S
  BY UnitsAssumption
<1>2. /\ t \in Seq(S)
      /\ Len(t) = IF FrameUnits + 1 <= Len(s) THEN Len(s) - (FrameUnits + 1) + 1 ELSE 0
      /\ \A i \in 1 .. Len(s) - (FrameUnits + 1) + 1 : t[i] = s[FrameUnits + 1 + i - 1]
  BY <1>1, SubSeqProperties
<1>3. \A i \in DOMAIN t :
        FrameUnits + 1 + i - 1 \in DOMAIN s /\ t[i] = s[FrameUnits + 1 + i - 1]
  BY <1>1, <1>2
<1> HIDE DEF t
<1>4. \A i \in DOMAIN t : \E j \in DOMAIN s : t[i] = s[j]
  BY <1>3
<1>5. {s[i] : i \in 1 .. FrameUnits} \subseteq S
  BY <1>1
<1>6. \A e \in {s[i] : i \in 1 .. FrameUnits} : \E j \in DOMAIN s : e = s[j]
  BY <1>1
<1> QED BY <1>2, <1>4, <1>5, <1>6 DEF t

\* What the labels of a worker's record are, when it is one.
LEMMA Fields ==
  ASSUME MediaTypes
  PROVE  /\ capture.tag \in Nat /\ send.frame \in Nat /\ send.ref \in SUBSET Tags
         /\ playback.gen \in Nat /\ playback.losses \in Nat
         /\ rtc.session \in Nat
         /\ ann.gen \in Nat /\ ann.left \in 0 .. PromptFrames /\ PromptFrames \in Nat
         /\ FrameUnits \in Nat /\ FrameUnits > 0
         /\ pending.gen \in Nat
         /\ pending.source = "none" => pending \in NoFrame /\ pending.left = 0
         /\ pending.source = "prompt" => pending \in PromptFrame
         /\ pending.source = "rtc" => pending \in RemoteFrame /\ pending.tag \in Tags
         /\ pending.left = 0 => pending.source = "none"
         /\ pending.source \in {"none", "prompt", "rtc"}
<1>1. capture.tag \in Nat /\ send.frame \in Nat /\ send.ref \in SUBSET Tags
  BY DEF MediaTypes, WorkerTypes
<1>2. playback.gen \in Nat /\ playback.losses \in Nat /\ rtc.session \in Nat
  BY DEF MediaTypes, WorkerTypes
<1>3. /\ ann.gen \in Nat /\ ann.left \in 0 .. PromptFrames /\ PromptFrames \in Nat
      /\ FrameUnits \in Nat /\ FrameUnits > 0
  BY UnitsAssumption DEF MediaTypes, DataTypes
<1>4. pending \in NoFrame \/ pending \in PromptFrame \/ pending \in RemoteFrame
  BY DEF MediaTypes, DataTypes
<1>5. CASE pending \in NoFrame
  <2>1. pending.source = "none" /\ pending.left = 0 /\ pending.gen \in Nat
    BY <1>5 DEF NoFrame
  <2> QED BY <1>1, <1>2, <1>3, <1>5, <2>1
<1>6. CASE pending \in PromptFrame
  <2>1. pending.source = "prompt" /\ pending.left \in 1 .. FrameUnits /\ pending.gen \in Nat
    BY <1>6 DEF PromptFrame
  <2>2. pending.left # 0
    BY <1>3, <2>1
  <2> QED BY <1>1, <1>2, <1>3, <1>6, <2>1, <2>2
<1>7. CASE pending \in RemoteFrame
  <2>1. /\ pending.source = "rtc" /\ pending.left \in 1 .. FrameUnits /\ pending.gen \in Nat
        /\ pending.tag \in Tags
    BY <1>7 DEF RemoteFrame
  <2>2. pending.left # 0
    BY <1>3, <2>1
  <2> QED BY <1>1, <1>2, <1>3, <1>7, <2>1, <2>2
<1> QED BY <1>4, <1>5, <1>6, <1>7

\* An emptied ring has no positions.
LEMMA EmptyRing == DOMAIN <<>> = {}
  OBVIOUS

\* Every action keeps the types of the threads.
LEMMA WorkerTypesStep == MediaTypes /\ [Next]_vars => WorkerTypes'
<1> SUFFICES ASSUME MediaTypes, [Next]_vars PROVE WorkerTypes'
  OBVIOUS
<1> USE DEF atoms, resources, rings, control, bounds
<1>1. CASE \/ FlushCall \/ FlushCallFails
           \/ (\E ws \in SUBSET Workers : MediaStart(ws)) \/ PlayPrompt
           \/ StopPrompt \/ StartConversation \/ StopConversation \/ EndSession
           \/ Ended \/ Shutdown \/ StopDevices \/ StopWorker \/ StopWorkerFails
           \/ StopRelease \/ Destroy
  <2>1. UNCHANGED <<capture, playback, send, rtc>>
    BY <1>1 DEF FlushCall, FlushCallFails, MediaStart, PlayPrompt, StopPrompt,
       StartConversation, StopConversation, EndSession, Ended, Shutdown, StopDevices,
       StopWorker, StopWorkerFails, StopRelease, Destroy, Flushing, WorkerIdle,
       FlushEffect, Nothing, NoPrompt, SetPrompt, BeginFlush, SetRtcConnected,
       StopOrder, AfterStop, FlushOrder
  <2> QED BY <2>1 DEF MediaTypes, WorkerTypes
<1>2. CASE CaptureBegin
  BY <1>2, Fields DEF CaptureBegin, TimerFires, WorkerIdle, MediaTypes, WorkerTypes,
     DataTypes, Tags
<1>3. CASE CaptureNothing
  BY <1>3, Fields DEF CaptureNothing, None, MediaTypes, WorkerTypes, DataTypes, Tags
<1>4. CASE CaptureRead
  BY <1>4, Fields DEF CaptureRead, MediaTypes, WorkerTypes, DataTypes, Tags
<1>5. CASE CaptureWrite
  BY <1>5, Fields DEF CaptureWrite, None, MediaTypes, WorkerTypes, DataTypes, Tags
<1>6. CASE PlaybackBegin
  BY <1>6, Fields DEF PlaybackBegin, TimerFires, WorkerIdle, MediaTypes, WorkerTypes,
     DataTypes, Tags
<1>7. CASE PlaybackClear
  <2>1. Active \in BOOLEAN
    BY DEF Active
  <2>2. /\ playback' = [playback EXCEPT !.pc = "prepare", !.active = Active]
        /\ UNCHANGED <<capture, send, rtc>>
    BY <1>7 DEF PlaybackClear
  <2> QED BY <2>1, <2>2 DEF MediaTypes, WorkerTypes
<1>8. CASE PlaybackPrepare
  <2>1. UNCHANGED <<capture, send, rtc>>
    BY <1>8 DEF PlaybackPrepare
  <2>2. \E to \in {"authorise", "idle"} : playback' = [playback EXCEPT !.pc = to]
    BY <1>8 DEF PlaybackPrepare, KeepPending, PreparePrompt, PrepareRemote
  <2> QED BY <2>1, <2>2 DEF MediaTypes, WorkerTypes
<1>9. CASE PlaybackAuthorise
  BY <1>9, Fields DEF PlaybackAuthorise, ReferenceRoom, Nothing, MediaTypes,
     WorkerTypes, DataTypes, Tags
<1>10. CASE (\E n \in -1 .. FrameUnits : PlaybackWritten(n))
  BY <1>10, Fields DEF PlaybackWritten, Nothing, MediaTypes, WorkerTypes, DataTypes,
     Tags
<1>11. CASE SendBegin
  <2>1. capRing # <<>> /\ capRing \in Seq(Nat) /\ refRing \in Seq(Tags)
    BY <1>11 DEF SendBegin, MediaTypes, DataTypes
  <2>2. Head(capRing) \in Nat
    BY <2>1, RingTail
  <2>3. Len(refRing) >= FrameUnits => {refRing[i] : i \in 1 .. FrameUnits} \subseteq Tags
    BY <2>1, RingRest
  <2>4. \E r \in SUBSET Tags :
          send' = [pc |-> "sending", frame |-> Head(capRing), ref |-> r]
    <3>1. CASE Len(refRing) >= FrameUnits
      BY <1>11, <2>3, <3>1 DEF SendBegin
    <3>2. CASE ~(Len(refRing) >= FrameUnits)
      <4>1. send' = [pc |-> "sending", frame |-> Head(capRing), ref |-> {}]
        BY <1>11, <3>2, Zenon DEF SendBegin
      <4> QED BY <4>1
    <3> QED BY <3>1, <3>2
  <2> QED BY <1>11, <2>2, <2>4 DEF SendBegin, MediaTypes, WorkerTypes
<1>12. CASE SendDone
  BY <1>12, Fields DEF SendDone, None, MediaTypes, WorkerTypes, DataTypes, Tags
<1>13. CASE RtcConnects
  BY <1>13, Fields DEF RtcConnects, None, SetRtcConnected, MediaTypes, WorkerTypes,
     DataTypes, Tags
<1>14. CASE RtcLoses
  BY <1>14, Fields DEF RtcLoses, SetRtcConnected, MediaTypes, WorkerTypes, DataTypes,
     Tags
<1>15. CASE PushBegin
  BY <1>15, Fields DEF PushBegin, None, Active, MediaTypes, WorkerTypes, DataTypes,
     Tags
<1>16. CASE PushWrite
  BY <1>16, Fields DEF PushWrite, MediaTypes, WorkerTypes, DataTypes, Tags
<1>17. CASE (\E ok \in BOOLEAN : Join(ok))
  <2>1. UNCHANGED <<capture, playback, send>>
    BY <1>17 DEF Join
  <2>2. rtc' = rtc \/ rtc' = [rtc EXCEPT !.session = session]
    BY <1>17 DEF Join
  <2>3. session \in Nat
    BY DEF MediaTypes, DataTypes
  <2> QED BY <2>1, <2>2, <2>3 DEF MediaTypes, WorkerTypes
<1>18. CASE Leave
  BY <1>18, Fields DEF Leave, None, SetRtcConnected, MediaTypes, WorkerTypes,
     DataTypes, Tags
<1>19. CASE Fini
  BY <1>19, Fields DEF Fini, None, MediaTypes, WorkerTypes, DataTypes, Tags
<1>20. CASE UNCHANGED vars
  BY <1>20 DEF vars, MediaTypes, WorkerTypes
<1> QED
  BY <1>1, <1>2, <1>3, <1>4, <1>5, <1>6, <1>7, <1>8, <1>9, <1>10, <1>11, <1>12, <1>13,
     <1>14, <1>15, <1>16, <1>17, <1>18, <1>19, <1>20
  DEF Next, OwnerStep, OwnerChoice, PlaybackPass, Device, RtcStep

----------------------------------------------------------------------------
(* Nothing is released in use.  The pipeline owns its workers and devices   *)
(* in the order in which it stops them.                                    *)

\* The owner: devices and buffers exist while the pipeline runs, and the devices go
\* only after the queue of the last worker.
OwnerInv ==
  /\ running => devices = "started"
  /\ devices # "none" => buffers /\ ~stopComplete
  /\ devices = "none" => handles = {}
  /\ handles \subseteq Workers
  /\ owner \in {"ready", "flushStart", "stop"} => running
  /\ running /\ owner # "stop" => handles = Workers
  /\ owner = "off" => devices = "none"
  /\ owner = "waitWorkers" =>
       /\ devices = "stopped"
       /\ \/ calls = <<"send", "capture", "playback">>
          \/ calls = <<"capture", "playback">> /\ "send" \notin handles
          \/ calls = <<"playback">> /\ handles \subseteq {"playback"}
          \/ calls = <<>> /\ handles = {}

\* The workers: one that is under way has its queue; and the RTC worker is idle, out of
\* any session, before the buffers are destroyed.
WorkInv ==
  /\ capture.pc # "idle" => "capture" \in handles
  /\ playback.pc # "idle" => "playback" \in handles
  /\ send.pc # "idle" => "send" \in handles
  /\ rtc.pc # "idle" => buffers
  /\ owner \in {"destroy", "off", "retained"} => rtc.pc = "idle" /\ rtc.session = None
  /\ owner = "off" => pbRing = <<>>

ReleaseInv == OwnerInv /\ WorkInv

\* Every action keeps the types of the rings and their labels.
LEMMA DataTypesStep == MediaTypes /\ ReleaseInv /\ [Next]_vars => DataTypes'
<1> SUFFICES ASSUME MediaTypes, ReleaseInv, [Next]_vars PROVE DataTypes'
  OBVIOUS
<1> USE DEF atoms, resources, rings, control, bounds
<1>1. CASE \/ CaptureBegin \/ CaptureNothing \/ CaptureRead \/ PlaybackBegin
           \/ SendDone \/ RtcConnects \/ PushBegin \/ FlushCallFails
           \/ (\E ok \in BOOLEAN : Join(ok)) \/ StopConversation \/ Leave
           \/ EndSession \/ Ended \/ Shutdown \/ StopDevices \/ StopWorker
           \/ StopWorkerFails \/ Fini
  <2>1. UNCHANGED <<capRing, pbRing, refRing, pending, ann, session, heard, cut, losses>>
    BY <1>1 DEF CaptureBegin, CaptureNothing, CaptureRead, PlaybackBegin, SendDone,
       RtcConnects, PushBegin, FlushCallFails, Join, StopConversation, Leave,
       EndSession, Ended, Shutdown, StopDevices, StopWorker, StopWorkerFails, Fini,
       TimerFires, None, SetRtcConnected, Active, Flushing, BeginFlush, StopOrder,
       WorkerIdle, AfterStop, FlushOrder
  <2> QED BY <2>1 DEF MediaTypes, DataTypes
<1>2. CASE CaptureWrite
  <2>1. /\ capRing' = capRing \/ capRing' = Append(capRing, capture.tag)
        /\ UNCHANGED <<pbRing, refRing, pending, ann, session, heard, cut, losses>>
    BY <1>2 DEF CaptureWrite
  <2>2. capRing \in Seq(Nat) /\ capture.tag \in Nat
    BY Fields DEF MediaTypes, DataTypes
  <2>3. Append(capRing, capture.tag) \in Seq(Nat)
    BY <2>2, RingAppend
  <2> QED BY <2>1, <2>2, <2>3 DEF MediaTypes, DataTypes
<1>3. CASE PlaybackClear
  <2>1. /\ pbRing' = pbRing \/ pbRing' = <<>>
        /\ pending' \in {pending, Nothing(playback.gen), Nothing(pending.gen)}
        /\ UNCHANGED <<capRing, refRing, ann, session, heard, losses>>
    BY <1>3 DEF PlaybackClear
  <2>4. cut' \subseteq Nat
    <3>1. cut' = cut \/ (pending.source = "prompt" /\ cut' = cut \cup {pending.no})
      BY <1>3 DEF PlaybackClear, CutPending, OfPrompt
    <3>2. pending.source = "prompt" => pending.no \in Nat
      BY Fields DEF PromptFrame
    <3> QED BY <3>1, <3>2 DEF MediaTypes, DataTypes
  <2>2. pbRing' \in Seq(Tags)
    <3>1. <<>> \in Seq(Tags)
      OBVIOUS
    <3> QED BY <2>1, <3>1 DEF MediaTypes, DataTypes
  <2>3. pending' \in NoFrame \cup PromptFrame \cup RemoteFrame
    BY <2>1, Fields DEF MediaTypes, DataTypes, Nothing, NoFrame
  <2> QED BY <2>1, <2>2, <2>3, <2>4 DEF MediaTypes, DataTypes
<1>4. CASE PlaybackPrepare
  <2>1. UNCHANGED <<capRing, refRing, session, heard, cut, losses>>
    BY <1>4 DEF PlaybackPrepare
  <2>2. CASE KeepPending
    BY <2>1, <2>2 DEF KeepPending, MediaTypes, DataTypes
  <2>3. CASE PreparePrompt
    <3>1. UNCHANGED pbRing
      BY <2>3 DEF PreparePrompt
    <3>2. CASE Active
      <4>1. /\ pending' = [source |-> "prompt", gen |-> ann.gen, left |-> FrameUnits,
                           no |-> PromptFrames - ann.left + 1]
            /\ ann' = [ann EXCEPT !.left = ann.left - 1]
        BY <2>3, <3>2 DEF PreparePrompt, ReadGeneration
      <4>2. pending' \in PromptFrame
        BY <4>1, Fields DEF PromptFrame
      <4>3. ann' \in [gen : Nat, left : 0 .. PromptFrames]
        <5>1. ann \in [gen : Nat, left : 0 .. PromptFrames]
          BY DEF MediaTypes, DataTypes
        <5>2. ann.left - 1 \in 0 .. PromptFrames
          BY <3>2, Fields DEF Active
        <5> QED BY <4>1, <5>1, <5>2
      <4> QED BY <2>1, <3>1, <4>2, <4>3 DEF MediaTypes, DataTypes
    <3>3. CASE ~Active
      <4>1. pending' = Nothing(ann.gen) /\ ann' = ann
        BY <2>3, <3>3, Zenon DEF PreparePrompt
      <4>2. pending' \in NoFrame
        BY <4>1, Fields DEF NoFrame, Nothing
      <4> QED BY <2>1, <3>1, <4>1, <4>2 DEF MediaTypes, DataTypes
    <3> QED BY <3>2, <3>3
  <2>4. CASE PrepareRemote
    <3>1. UNCHANGED ann
      BY <2>4 DEF PrepareRemote
    <3>2. CASE pbRing # <<>>
      <4>1. /\ pending' = [source |-> "rtc", gen |-> playback.gen, left |-> FrameUnits,
                           tag |-> Head(pbRing)]
            /\ pbRing' = Tail(pbRing)
        BY <2>4, <3>2 DEF PrepareRemote
      <4>2. Head(pbRing) \in Tags /\ pbRing' \in Seq(Tags)
        BY <3>2, <4>1, RingTail DEF MediaTypes, DataTypes
      <4>3. pending' \in RemoteFrame
        BY <4>1, <4>2, Fields DEF RemoteFrame
      <4> QED BY <2>1, <3>1, <4>2, <4>3 DEF MediaTypes, DataTypes
    <3>3. CASE pbRing = <<>>
      BY <2>1, <2>4, <3>1, <3>3 DEF PrepareRemote, MediaTypes, DataTypes
    <3> QED BY <3>2, <3>3
  <2> QED BY <1>4, <2>2, <2>3, <2>4 DEF PlaybackPrepare
<1>5. CASE PlaybackAuthorise
  <2>1. /\ pending' = pending \/ pending' = Nothing(pending.gen)
        /\ UNCHANGED <<capRing, pbRing, refRing, ann, session, heard, cut, losses>>
    BY <1>5 DEF PlaybackAuthorise
  <2>2. pending' \in NoFrame \cup PromptFrame \cup RemoteFrame
    BY <2>1, Fields DEF MediaTypes, DataTypes, Nothing, NoFrame
  <2> QED BY <2>1, <2>2 DEF MediaTypes, DataTypes
<1>6. CASE (\E n \in -1 .. FrameUnits : PlaybackWritten(n))
  <2> SUFFICES ASSUME NEW n \in -1 .. FrameUnits, PlaybackWritten(n) PROVE DataTypes'
    BY <1>6
  <2>1. UNCHANGED <<capRing, pbRing, ann, session, losses>>
    BY DEF PlaybackWritten
  <2>2. n \in Int /\ n <= pending.left
    BY Fields DEF PlaybackWritten
  <2>3. refRing' \in Seq(Tags)
    <3>1. CASE refRing' = refRing
      BY <3>1 DEF MediaTypes, DataTypes
    <3>2. CASE refRing' # refRing
      <4>1. /\ n > 0 /\ pending.source = "rtc"
            /\ refRing' = refRing \o [i \in 1 .. n |-> pending.tag]
        BY <3>2 DEF PlaybackWritten
      <4>2. n \in Nat /\ pending.tag \in Tags /\ refRing \in Seq(Tags)
        BY <2>2, <4>1, Fields DEF MediaTypes, DataTypes
      <4> QED BY <4>1, <4>2, RingExtend
    <3> QED BY <3>1, <3>2
  <2>4. pending' \in NoFrame \cup PromptFrame \cup RemoteFrame
    <3>1. CASE pending' = Nothing(pending.gen)
      BY <3>1, Fields DEF Nothing, NoFrame
    <3>2. CASE pending' # Nothing(pending.gen)
      <4>1. /\ n >= 0 /\ n # pending.left
            /\ pending' = [pending EXCEPT !.left = pending.left - n]
        BY <3>2, <2>2 DEF PlaybackWritten
      <4>2. n < pending.left /\ pending.source # "none"
        <5>1. pending.left \in Nat
          BY Fields DEF NoFrame, PromptFrame, RemoteFrame
        <5>2. n < pending.left /\ pending.left # 0
          BY <2>2, <4>1, <5>1
        <5> QED BY <5>2, Fields
      <4>3. CASE pending.source = "prompt"
        <5>1. pending \in PromptFrame
          BY <4>3, Fields
        <5>2. pending' \in PromptFrame
          BY <2>2, <4>1, <4>2, <5>1, Fields DEF PromptFrame
        <5> QED BY <5>2
      <4>4. CASE pending.source = "rtc"
        <5>1. pending \in RemoteFrame
          BY <4>4, Fields
        <5>2. pending' \in RemoteFrame
          BY <2>2, <4>1, <4>2, <5>1, Fields DEF RemoteFrame
        <5> QED BY <5>2
      <4> QED BY <4>2, <4>3, <4>4, Fields
    <3> QED BY <3>1, <3>2
  <2>5. heard' \subseteq Nat /\ cut' \subseteq Nat
    <3>1. /\ heard' = heard \/ (pending.source = "prompt" /\ heard' = heard \cup {pending.no})
          /\ cut' = cut \/ (pending.source = "prompt" /\ cut' = cut \cup {pending.no})
      BY DEF PlaybackWritten, CutPending, OfPrompt
    <3>2. pending.source = "prompt" => pending.no \in Nat
      BY Fields DEF PromptFrame
    <3> QED BY <3>1, <3>2 DEF MediaTypes, DataTypes
  <2> QED BY <2>1, <2>3, <2>4, <2>5 DEF MediaTypes, DataTypes
<1>7. CASE SendBegin
  <2>1. /\ capRing # <<>> /\ capRing' = Tail(capRing)
        /\ UNCHANGED <<pbRing, pending, ann, session, heard, cut, losses>>
        /\ capRing \in Seq(Nat) /\ refRing \in Seq(Tags)
    BY <1>7 DEF SendBegin, MediaTypes, DataTypes
  <2>2. capRing' \in Seq(Nat)
    BY <2>1, RingTail
  <2>3. refRing' \in Seq(Tags)
    <3>1. CASE Len(refRing) >= FrameUnits
      <4>1. refRing' = SubSeq(refRing, FrameUnits + 1, Len(refRing))
        BY <1>7, <3>1 DEF SendBegin
      <4> QED BY <2>1, <3>1, <4>1, RingRest
    <3>2. CASE ~(Len(refRing) >= FrameUnits)
      BY <1>7, <2>1, <3>2 DEF SendBegin
    <3> QED BY <3>1, <3>2
  <2> QED BY <2>1, <2>2, <2>3 DEF MediaTypes, DataTypes
<1>8. CASE RtcLoses
  <2>1. /\ UNCHANGED <<capRing, pbRing, refRing, pending, ann, session, heard, cut>>
        /\ losses' = losses + 1
    BY <1>8 DEF RtcLoses
  <2> QED BY <2>1 DEF MediaTypes, DataTypes
<1>9. CASE PushWrite
  <2>1. /\ pbRing' = pbRing
           \/ pbRing' = Append(pbRing, [session |-> rtc.session, losses |-> losses])
        /\ UNCHANGED <<capRing, refRing, pending, ann, session, heard, cut, losses>>
    BY <1>9 DEF PushWrite
  <2>2. [session |-> rtc.session, losses |-> losses] \in Tags
    BY Fields DEF MediaTypes, DataTypes, Tags
  <2>3. Append(pbRing, [session |-> rtc.session, losses |-> losses]) \in Seq(Tags)
    BY <2>2, RingAppend DEF MediaTypes, DataTypes
  <2> QED BY <2>1, <2>3 DEF MediaTypes, DataTypes
<1>10. CASE FlushCall
  <2>1. UNCHANGED <<ann, session, heard, losses>>
    BY <1>10 DEF FlushCall
  <2>6. cut' \subseteq Nat
    <3>1. cut' = cut \/ (pending.source = "prompt" /\ cut' = cut \cup {pending.no})
      <4>1. CASE Head(calls) \notin handles
        BY <1>10, <4>1 DEF FlushCall
      <4>2. CASE Head(calls) \in handles
        <5>1. FlushEffect(Head(calls)) /\ Head(calls) \in Workers
          BY <1>10, <4>2 DEF FlushCall, ReleaseInv, OwnerInv
        <5> QED BY <5>1 DEF FlushEffect, Workers, CutPending, OfPrompt
      <4> QED BY <4>1, <4>2
    <3>2. pending.source = "prompt" => pending.no \in Nat
      BY Fields DEF PromptFrame
    <3> QED BY <3>1, <3>2 DEF MediaTypes, DataTypes
  <2>2. CASE UNCHANGED <<rings, pending>>
    BY <2>1, <2>2, <2>6 DEF MediaTypes, DataTypes
  <2>3. CASE pbRing' = <<>> /\ pending' = Nothing(ann.gen) /\ UNCHANGED <<capRing, refRing>>
    <3>1. pending' \in NoFrame
      BY <2>3, Fields DEF NoFrame, Nothing
    <3> QED BY <2>1, <2>3, <2>6, <3>1 DEF MediaTypes, DataTypes
  <2>4. CASE capRing' = <<>> /\ refRing' = <<>> /\ UNCHANGED <<pbRing, pending>>
    BY <2>1, <2>4, <2>6 DEF MediaTypes, DataTypes
  <2>5. \/ UNCHANGED <<rings, pending>>
        \/ \E w \in Workers : FlushEffect(w)
    <3>1. CASE Head(calls) \in handles
      <4>1. FlushEffect(Head(calls))
        BY <1>10, <3>1 DEF FlushCall
      <4>2. handles \subseteq Workers
        BY DEF ReleaseInv, OwnerInv
      <4> QED BY <3>1, <4>1, <4>2
    <3>2. CASE Head(calls) \notin handles
      BY <1>10, <3>2 DEF FlushCall
    <3> QED BY <3>1, <3>2
  <2> QED BY <2>2, <2>3, <2>4, <2>5 DEF FlushEffect, Workers
<1>11. CASE (\E ws \in SUBSET Workers : MediaStart(ws))
  <2>1. /\ pending' = Nothing(0) /\ ann' = NoPrompt /\ heard' = {} /\ cut' = {}
        /\ UNCHANGED <<capRing, pbRing, refRing, session, losses>>
    BY <1>11 DEF MediaStart
  <2>2. pending' \in NoFrame /\ ann' \in [gen : Nat, left : 0 .. PromptFrames]
    BY <2>1, Fields DEF NoFrame, Nothing, NoPrompt
  <2> QED BY <2>1, <2>2 DEF MediaTypes, DataTypes
<1>12. CASE PlayPrompt
  <2>1. /\ ann' = [gen |-> ann.gen + 1, left |-> PromptFrames] /\ heard' = {} /\ cut' = {}
        /\ UNCHANGED <<capRing, pbRing, refRing, pending, session, losses>>
    BY <1>12 DEF PlayPrompt, SetPrompt
  <2>2. ann' \in [gen : Nat, left : 0 .. PromptFrames]
    BY <2>1, Fields
  <2> QED BY <2>1, <2>2 DEF MediaTypes, DataTypes
<1>13. CASE StopPrompt
  <2>1. /\ ann' = [gen |-> ann.gen + 1, left |-> 0] /\ heard' = {} /\ cut' = {}
        /\ UNCHANGED <<capRing, pbRing, refRing, pending, session, losses>>
    BY <1>13 DEF StopPrompt, SetPrompt
  <2>2. ann' \in [gen : Nat, left : 0 .. PromptFrames]
    BY <2>1, Fields
  <2> QED BY <2>1, <2>2 DEF MediaTypes, DataTypes
<1>14. CASE StartConversation
  <2>1. /\ UNCHANGED <<capRing, pbRing, refRing, pending, ann, heard, cut, losses>>
        /\ session' = session + 1
    BY <1>14 DEF StartConversation
  <2> QED BY <2>1 DEF MediaTypes, DataTypes
<1>15. CASE StopRelease
  <2>1. /\ ann' = [gen |-> ann.gen + 1, left |-> 0] /\ heard' = {} /\ cut' = {}
        /\ UNCHANGED <<capRing, pbRing, refRing, pending, session, losses>>
    BY <1>15 DEF StopRelease, SetPrompt
  <2>2. ann' \in [gen : Nat, left : 0 .. PromptFrames]
    BY <2>1, Fields
  <2> QED BY <2>1, <2>2 DEF MediaTypes, DataTypes
<1>16. CASE Destroy
  <2>1. /\ UNCHANGED rings \/ (capRing' = <<>> /\ pbRing' = <<>> /\ refRing' = <<>>)
        /\ UNCHANGED <<pending, ann, session, heard, cut, losses>>
    BY <1>16 DEF Destroy
  <2>2. <<>> \in Seq(Nat) /\ <<>> \in Seq(Tags)
    OBVIOUS
  <2> QED BY <2>1, <2>2 DEF MediaTypes, DataTypes
<1>17. CASE UNCHANGED vars
  BY <1>17 DEF vars, MediaTypes, DataTypes
<1> QED
  BY <1>1, <1>2, <1>3, <1>4, <1>5, <1>6, <1>7, <1>8, <1>9, <1>10, <1>11, <1>12, <1>13,
     <1>14, <1>15, <1>16, <1>17
  DEF Next, OwnerStep, OwnerChoice, PlaybackPass, Device, RtcStep

\* The calls that are left of a flush, and of a stop.
LEMMA CallsLeft ==
  /\ Head(<<"capture", "playback", "send">>) = "capture"
  /\ Tail(<<"capture", "playback", "send">>) = <<"playback", "send">>
  /\ Head(<<"playback", "send">>) = "playback" /\ Tail(<<"playback", "send">>) = <<"send">>
  /\ Head(<<"send">>) = "send" /\ Tail(<<"send">>) = <<>>
  /\ Head(<<"send", "capture", "playback">>) = "send"
  /\ Tail(<<"send", "capture", "playback">>) = <<"capture", "playback">>
  /\ Head(<<"capture", "playback">>) = "capture"
  /\ Tail(<<"capture", "playback">>) = <<"playback">>
  /\ Head(<<"playback">>) = "playback" /\ Tail(<<"playback">>) = <<>>
  /\ <<"capture", "playback", "send">> # <<>> /\ <<"playback", "send">> # <<>>
  /\ <<"send">> # <<>> /\ <<"playback">> # <<>> /\ <<"capture", "playback">> # <<>>
  /\ <<"send", "capture", "playback">> # <<>>
  /\ <<"capture", "playback", "send">> # <<"playback", "send">>
  /\ <<"capture", "playback", "send">> # <<"send">>
  /\ <<"playback", "send">> # <<"send">>
  OBVIOUS

\* Every action keeps the owner in the order of the release.
LEMMA OwnerInvStep == MediaTypes /\ OwnerInv /\ [Next]_vars => OwnerInv'
<1> SUFFICES ASSUME MediaTypes, OwnerInv, [Next]_vars PROVE OwnerInv'
  OBVIOUS
<1> USE DEF atoms, resources, rings, control, bounds
<1>1. CASE \/ CaptureBegin \/ CaptureNothing \/ CaptureRead \/ CaptureWrite
           \/ PlaybackBegin \/ PlaybackClear \/ PlaybackPrepare \/ PlaybackAuthorise
           \/ (\E n \in -1 .. FrameUnits : PlaybackWritten(n)) \/ SendBegin
           \/ SendDone \/ RtcConnects \/ RtcLoses \/ PushBegin \/ PushWrite
           \/ PlayPrompt \/ StopPrompt
  <2>1. UNCHANGED <<running, devices, buffers, stopComplete, handles, owner, calls>>
    BY <1>1 DEF CaptureBegin, CaptureNothing, CaptureRead, CaptureWrite, PlaybackBegin,
       PlaybackClear, PlaybackPrepare, PlaybackAuthorise, PlaybackWritten, SendBegin,
       SendDone, RtcConnects, RtcLoses, PushBegin, PushWrite, PlayPrompt, StopPrompt,
       TimerFires, None, Active, Nothing, KeepPending, PreparePrompt, PrepareRemote,
       ReferenceRoom, SetRtcConnected, SetPrompt, WorkerIdle, ReadGeneration
  <2> QED BY <2>1 DEF OwnerInv
<1>2. CASE FlushCall
  BY <1>2, CallsLeft DEF FlushCall, Flushing, WorkerIdle, FlushEffect, Nothing,
     Workers, OwnerInv
<1>3. CASE FlushCallFails
  BY <1>3, CallsLeft DEF FlushCallFails, Flushing, Workers, OwnerInv
<1>4. CASE (\E ws \in SUBSET Workers : MediaStart(ws))
  BY <1>4, CallsLeft DEF MediaStart, Nothing, NoPrompt, Workers, OwnerInv
<1>5. CASE StartConversation
  BY <1>5, CallsLeft DEF StartConversation, BeginFlush, FlushOrder, Workers, OwnerInv
<1>6. CASE (\E ok \in BOOLEAN : Join(ok))
  BY <1>6, CallsLeft DEF Join, Workers, OwnerInv
<1>7. CASE StopConversation
  BY <1>7, CallsLeft DEF StopConversation, Workers, OwnerInv
<1>8. CASE Leave
  BY <1>8, CallsLeft DEF Leave, None, SetRtcConnected, Workers, OwnerInv
<1>9. CASE EndSession
  BY <1>9, CallsLeft DEF EndSession, SetRtcConnected, BeginFlush, FlushOrder, Workers,
     OwnerInv
<1>10. CASE Ended
  BY <1>10, CallsLeft DEF Ended, Workers, OwnerInv
<1>11. CASE Shutdown
  BY <1>11, CallsLeft DEF Shutdown, Workers, OwnerInv
<1>12. CASE StopDevices
  BY <1>12, CallsLeft DEF StopDevices, StopOrder, Workers, OwnerInv
<1>13. CASE StopWorker
  BY <1>13, CallsLeft DEF StopWorker, WorkerIdle, Workers, OwnerInv
<1>14. CASE StopWorkerFails
  BY <1>14, CallsLeft DEF StopWorkerFails, AfterStop, Workers, OwnerInv
<1>15. CASE StopRelease
  BY <1>15, CallsLeft DEF StopRelease, SetPrompt, AfterStop, Workers, OwnerInv
<1>16. CASE Fini
  BY <1>16, CallsLeft DEF Fini, None, Workers, OwnerInv
<1>17. CASE Destroy
  BY <1>17, CallsLeft DEF Destroy, Workers, OwnerInv
<1>18. CASE UNCHANGED vars
  BY <1>18 DEF vars, OwnerInv
<1> QED
  BY <1>1, <1>2, <1>3, <1>4, <1>5, <1>6, <1>7, <1>8, <1>9, <1>10, <1>11, <1>12, <1>13,
     <1>14, <1>15, <1>16, <1>17, <1>18
  DEF Next, OwnerStep, OwnerChoice, PlaybackPass, Device, RtcStep

\* Every action keeps the workers within it.
LEMMA WorkInvStep == MediaTypes /\ OwnerInv /\ WorkInv /\ [Next]_vars => WorkInv'
<1> SUFFICES ASSUME MediaTypes, OwnerInv, WorkInv, [Next]_vars PROVE WorkInv'
  OBVIOUS
<1> USE DEF atoms, resources, rings, control, bounds
<1>1. CASE \/ FlushCallFails \/ PlayPrompt \/ StopPrompt \/ StartConversation
           \/ StopConversation \/ EndSession \/ Shutdown \/ StopDevices
  <2>1. UNCHANGED <<capture, playback, send, rtc, pbRing, handles, buffers>>
    BY <1>1 DEF FlushCallFails, PlayPrompt, StopPrompt, StartConversation,
       StopConversation, EndSession, Shutdown, StopDevices, Flushing, SetPrompt,
       BeginFlush, SetRtcConnected, StopOrder, FlushOrder
  <2>2. owner' = owner \/ owner' \notin {"destroy", "off", "retained"}
    BY <1>1 DEF FlushCallFails, PlayPrompt, StopPrompt, StartConversation,
       StopConversation, EndSession, Shutdown, StopDevices, Flushing, SetPrompt,
       BeginFlush, SetRtcConnected, StopOrder, FlushOrder
  <2> QED BY <2>1, <2>2 DEF WorkInv
<1>2. CASE CaptureBegin
  BY <1>2, CallsLeft DEF CaptureBegin, TimerFires, WorkerIdle, WorkerIdle, Workers,
     MediaTypes, WorkerTypes, OwnerInv, WorkInv
<1>3. CASE CaptureNothing
  BY <1>3, CallsLeft DEF CaptureNothing, None, WorkerIdle, Workers, MediaTypes,
     WorkerTypes, OwnerInv, WorkInv
<1>4. CASE CaptureRead
  BY <1>4, CallsLeft DEF CaptureRead, WorkerIdle, Workers, MediaTypes, WorkerTypes,
     OwnerInv, WorkInv
<1>5. CASE CaptureWrite
  BY <1>5, CallsLeft DEF CaptureWrite, None, WorkerIdle, Workers, MediaTypes,
     WorkerTypes, OwnerInv, WorkInv
<1>6. CASE PlaybackBegin
  BY <1>6, CallsLeft DEF PlaybackBegin, TimerFires, WorkerIdle, WorkerIdle, Workers,
     MediaTypes, WorkerTypes, OwnerInv, WorkInv
<1>7. CASE PlaybackClear
  BY <1>7, CallsLeft DEF PlaybackClear, Active, Nothing, WorkerIdle, Workers,
     MediaTypes, WorkerTypes, OwnerInv, WorkInv
<1>8. CASE PlaybackPrepare
  BY <1>8, CallsLeft DEF PlaybackPrepare, KeepPending, PreparePrompt, PrepareRemote,
     Active, ReadGeneration, Nothing, WorkerIdle, Workers, MediaTypes, WorkerTypes,
     OwnerInv, WorkInv
<1>9. CASE PlaybackAuthorise
  BY <1>9, CallsLeft DEF PlaybackAuthorise, ReferenceRoom, Nothing, WorkerIdle,
     Workers, MediaTypes, WorkerTypes, OwnerInv, WorkInv
<1>10. CASE (\E n \in -1 .. FrameUnits : PlaybackWritten(n))
  BY <1>10, CallsLeft DEF PlaybackWritten, Nothing, WorkerIdle, Workers, MediaTypes,
     WorkerTypes, OwnerInv, WorkInv
<1>11. CASE SendBegin
  BY <1>11, CallsLeft DEF SendBegin, TimerFires, WorkerIdle, WorkerIdle, Workers,
     MediaTypes, WorkerTypes, OwnerInv, WorkInv
<1>12. CASE SendDone
  BY <1>12, CallsLeft DEF SendDone, None, WorkerIdle, Workers, MediaTypes, WorkerTypes,
     OwnerInv, WorkInv
<1>13. CASE RtcConnects
  BY <1>13, CallsLeft DEF RtcConnects, None, SetRtcConnected, WorkerIdle, Workers,
     MediaTypes, WorkerTypes, OwnerInv, WorkInv
<1>14. CASE RtcLoses
  BY <1>14, CallsLeft DEF RtcLoses, SetRtcConnected, WorkerIdle, Workers, MediaTypes,
     WorkerTypes, OwnerInv, WorkInv
<1>15. CASE PushBegin
  BY <1>15, CallsLeft DEF PushBegin, None, Active, WorkerIdle, Workers, MediaTypes,
     WorkerTypes, OwnerInv, WorkInv
<1>16. CASE PushWrite
  BY <1>16, CallsLeft DEF PushWrite, WorkerIdle, Workers, MediaTypes, WorkerTypes,
     OwnerInv, WorkInv
<1>17. CASE FlushCall
  BY <1>17, CallsLeft DEF FlushCall, Flushing, WorkerIdle, FlushEffect, Nothing,
     WorkerIdle, Workers, MediaTypes, WorkerTypes, OwnerInv, WorkInv
<1>18. CASE (\E ws \in SUBSET Workers : MediaStart(ws))
  BY <1>18, CallsLeft DEF MediaStart, Nothing, NoPrompt, WorkerIdle, Workers,
     MediaTypes, WorkerTypes, OwnerInv, WorkInv
<1>19. CASE (\E ok \in BOOLEAN : Join(ok))
  BY <1>19, CallsLeft DEF Join, WorkerIdle, Workers, MediaTypes, WorkerTypes, OwnerInv,
     WorkInv
<1>20. CASE Leave
  BY <1>20, CallsLeft DEF Leave, None, SetRtcConnected, WorkerIdle, Workers,
     MediaTypes, WorkerTypes, OwnerInv, WorkInv
<1>21. CASE Ended
  BY <1>21, CallsLeft DEF Ended, WorkerIdle, Workers, MediaTypes, WorkerTypes,
     OwnerInv, WorkInv
<1>22. CASE StopWorker
  BY <1>22, CallsLeft DEF StopWorker, WorkerIdle, WorkerIdle, Workers, MediaTypes,
     WorkerTypes, OwnerInv, WorkInv
<1>23. CASE StopWorkerFails
  BY <1>23, CallsLeft DEF StopWorkerFails, AfterStop, WorkerIdle, Workers, MediaTypes,
     WorkerTypes, OwnerInv, WorkInv
<1>24. CASE StopRelease
  BY <1>24, CallsLeft DEF StopRelease, SetPrompt, AfterStop, WorkerIdle, Workers,
     MediaTypes, WorkerTypes, OwnerInv, WorkInv
<1>25. CASE Fini
  BY <1>25, CallsLeft DEF Fini, None, WorkerIdle, Workers, MediaTypes, WorkerTypes,
     OwnerInv, WorkInv
<1>26. CASE Destroy
  BY <1>26, CallsLeft DEF Destroy, WorkerIdle, Workers, MediaTypes, WorkerTypes,
     OwnerInv, WorkInv
<1>27. CASE UNCHANGED vars
  BY <1>27 DEF vars, WorkInv
<1> QED
  BY <1>1, <1>2, <1>3, <1>4, <1>5, <1>6, <1>7, <1>8, <1>9, <1>10, <1>11, <1>12, <1>13,
     <1>14, <1>15, <1>16, <1>17, <1>18, <1>19, <1>20, <1>21, <1>22, <1>23, <1>24,
     <1>25, <1>26, <1>27
  DEF Next, OwnerStep, OwnerChoice, PlaybackPass, Device, RtcStep

\* Every thread, ring and label keeps its type, and the order of the release is kept.
LEMMA ReleaseInvariant == Spec => [](MediaTypes /\ ReleaseInv)
<1>1. Init => MediaTypes /\ ReleaseInv
  <2> SUFFICES ASSUME Init PROVE MediaTypes /\ ReleaseInv
    OBVIOUS
  <2>1. /\ <<>> \in Seq(Nat) /\ <<>> \in Seq(Tags) /\ Nothing(0) \in NoFrame
        /\ NoPrompt \in [gen : Nat, left : 0 .. PromptFrames]
    BY UnitsAssumption DEF Nothing, NoFrame, NoPrompt
  <2>2. WorkerTypes
    BY DEF Init, WorkerTypes, None
  <2>3. DataTypes
    BY <2>1 DEF Init, DataTypes
  <2>4. OwnerInv /\ WorkInv
    BY DEF Init, OwnerInv, WorkInv, None, Workers
  <2> QED BY <2>2, <2>3, <2>4 DEF MediaTypes, ReleaseInv
<1>2. MediaTypes /\ ReleaseInv /\ [Next]_vars => MediaTypes' /\ ReleaseInv'
  BY WorkerTypesStep, DataTypesStep, OwnerInvStep, WorkInvStep DEF MediaTypes, ReleaseInv
<1> QED
  BY <1>1, <1>2, PTL DEF Spec

\* Every thread, ring and label keeps its type.
THEOREM MediaTypesCorrect == Spec => []MediaTypes
  BY ReleaseInvariant, PTL

\* NothingReleasedInUse: no thread is inside a device that was destroyed, nor on its
\* way into a ring or the prompt queue after these were freed.
THEOREM NothingIsReleasedInUse == Spec => []NothingReleasedInUse
<1>1. ReleaseInv => NothingReleasedInUse
  BY DEF ReleaseInv, OwnerInv, WorkInv, NothingReleasedInUse
<1> QED
  BY <1>1, ReleaseInvariant, PTL

----------------------------------------------------------------------------
(* Audio stays in its conversation.                                        *)

\* What is on its way is of the last conversation that was begun: the frame being
\* read, the remote audio waiting or being played, and what waits to be sent.
CaptureCurrent == capture.pc # "idle" => capture.tag = session

PlayCurrent ==
  /\ \A i \in DOMAIN pbRing : pbRing[i].session = session
  /\ pending.source = "rtc" => pending.tag.session = session

SendCurrent ==
  /\ \A i \in DOMAIN capRing : capRing[i] = session
  /\ \A i \in DOMAIN refRing : refRing[i].session = session
  /\ send.pc = "sending" =>
       /\ send.frame = session
       /\ \A tag \in send.ref : tag.session = session

\* While a conversation is joined all of it is.  The flush that begins one makes it so
\* call by call: a read that was under way has ended, then nothing to play is left,
\* then nothing to send; and a flush one of whose calls failed is not followed by a join.
JoinInv ==
  /\ rtc.pc # "idle" => rtc.session # None
  /\ rtc.session # None =>
       /\ rtc.session = session /\ conv
       /\ owner \in {"ready", "stop", "waitWorkers", "leave"}
       /\ CaptureCurrent /\ PlayCurrent /\ SendCurrent
  /\ owner \in {"leave", "end", "flushStart", "flushEnd"} => conv
  /\ owner = "flushStart" =>
       /\ calls \in {<<"capture", "playback", "send">>, <<"playback", "send">>,
                     <<"send">>, <<>>}
       /\ flushOk =>
            /\ calls # <<"capture", "playback", "send">> => CaptureCurrent
            /\ calls \in {<<"send">>, <<>>} => PlayCurrent
            /\ calls = <<>> => SendCurrent

\* A step of a worker keeps what is current current, each stage on top of the last.
LEMMA CurrentKept ==
  ASSUME JoinInv, UNCHANGED <<session, owner, calls, flushOk, conv>>,
         rtc'.session = rtc.session, rtc'.pc # "idle" => rtc.session # None,
         CaptureCurrent => CaptureCurrent',
         PlayCurrent => PlayCurrent',
         CaptureCurrent /\ PlayCurrent /\ SendCurrent => SendCurrent'
  PROVE  JoinInv'
<1>1. rtc'.session # None => CaptureCurrent' /\ PlayCurrent' /\ SendCurrent'
  BY DEF JoinInv
<1>2. ASSUME owner = "flushStart", flushOk
      PROVE  /\ calls # <<"capture", "playback", "send">> => CaptureCurrent'
             /\ calls \in {<<"send">>, <<>>} => PlayCurrent'
             /\ calls = <<>> => SendCurrent'
  <2>1. /\ <<"capture", "playback", "send">> # <<>>
        /\ <<"capture", "playback", "send">> # <<"send">>
    OBVIOUS
  <2> QED BY <1>2, <2>1 DEF JoinInv
<1> HIDE DEF CaptureCurrent, PlayCurrent, SendCurrent
<1> QED BY <1>1, <1>2 DEF JoinInv

\* Every action keeps it.
LEMMA JoinInvStep == MediaTypes /\ ReleaseInv /\ JoinInv /\ [Next]_vars => JoinInv'
<1> SUFFICES ASSUME MediaTypes, ReleaseInv, JoinInv, [Next]_vars PROVE JoinInv'
  OBVIOUS
<1> USE Fields
<1> USE DEF atoms, resources, rings, control, bounds
<1>1. CASE \/ RtcConnects \/ RtcLoses \/ PushBegin \/ PlayPrompt \/ StopPrompt
           \/ PlaybackBegin
  <2>1. /\ UNCHANGED <<session, owner, calls, flushOk, conv>>
        /\ UNCHANGED <<capture, pbRing, pending, capRing, refRing, send>>
        /\ rtc'.session = rtc.session
        /\ (rtc'.pc # "idle" => rtc.pc # "idle" \/ rtc.session # None)
    BY <1>1 DEF RtcConnects, RtcLoses, PushBegin, PlayPrompt, StopPrompt,
       PlaybackBegin, None, SetRtcConnected, Active, SetPrompt, TimerFires, WorkerIdle,
       MediaTypes, WorkerTypes
  <2> QED BY <2>1, CurrentKept DEF JoinInv, CaptureCurrent, PlayCurrent, SendCurrent
<1>2. CASE CaptureBegin
  <2>1. UNCHANGED <<session, owner, calls, flushOk, conv, rtc>>
    BY <1>2 DEF CaptureBegin, TimerFires, WorkerIdle
  <2>2. UNCHANGED <<pbRing, pending, capRing, refRing, send>>
    BY <1>2 DEF CaptureBegin, TimerFires, WorkerIdle
  <2>3. capture'.tag = session
    BY <1>2 DEF CaptureBegin, TimerFires, WorkerIdle
  <2> QED
    BY <2>1, <2>2, <2>3, CurrentKept DEF JoinInv, CaptureCurrent, PlayCurrent,
       SendCurrent
<1>3. CASE CaptureNothing
  <2>1. UNCHANGED <<session, owner, calls, flushOk, conv, rtc>>
    BY <1>3 DEF CaptureNothing, None
  <2>2. UNCHANGED <<pbRing, pending, capRing, refRing, send>>
    BY <1>3 DEF CaptureNothing, None
  <2>3. capture'.pc = "idle"
    BY <1>3 DEF CaptureNothing, None
  <2> QED
    BY <2>1, <2>2, <2>3, CurrentKept DEF JoinInv, CaptureCurrent, PlayCurrent,
       SendCurrent
<1>4. CASE CaptureRead
  <2>1. UNCHANGED <<session, owner, calls, flushOk, conv, rtc>>
    BY <1>4 DEF CaptureRead
  <2>2. UNCHANGED <<pbRing, pending, capRing, refRing, send>>
    BY <1>4 DEF CaptureRead
  <2>3. capture.pc # "idle" /\ capture'.tag = capture.tag
    BY <1>4 DEF CaptureRead, MediaTypes, WorkerTypes
  <2> QED
    BY <2>1, <2>2, <2>3, CurrentKept DEF JoinInv, CaptureCurrent, PlayCurrent,
       SendCurrent
<1>5. CASE CaptureWrite
  <2>1. UNCHANGED <<session, owner, calls, flushOk, conv, rtc>>
    BY <1>5 DEF CaptureWrite, None
  <2>2. UNCHANGED <<pbRing, pending, refRing, send>>
    BY <1>5 DEF CaptureWrite, None
  <2>3. capture.pc # "idle" /\ capture'.pc = "idle"
    BY <1>5 DEF CaptureWrite, None
  <2>4. capRing' = capRing \/ capRing' = Append(capRing, capture.tag)
    BY <1>5 DEF CaptureWrite, None
  <2>5. \A i \in DOMAIN capRing' :
          capRing'[i] = capture.tag \/ \E j \in DOMAIN capRing : capRing'[i] = capRing[j]
    <3>1. capRing \in Seq(Nat) /\ capture.tag \in Nat
      BY DEF MediaTypes, DataTypes
    <3>2. \A i \in DOMAIN Append(capRing, capture.tag) :
            \/ Append(capRing, capture.tag)[i] = capture.tag
            \/ \E j \in DOMAIN capRing : Append(capRing, capture.tag)[i] = capRing[j]
      <4> HIDE Fields
      <4> QED BY <3>1, RingAppend
    <3>3. CASE capRing' = capRing
      BY <3>3
    <3>4. CASE capRing' = Append(capRing, capture.tag)
      BY <3>2, <3>4
    <3> QED BY <2>4, <3>3, <3>4
  <2> QED
    BY <2>1, <2>2, <2>3, <2>4, <2>5, CurrentKept DEF JoinInv, CaptureCurrent,
       PlayCurrent, SendCurrent
<1>6. CASE PlaybackClear
  <2>1. UNCHANGED <<session, owner, calls, flushOk, conv, rtc>>
    BY <1>6 DEF PlaybackClear, Active, Nothing
  <2>2. UNCHANGED <<capture, capRing, refRing, send>>
    BY <1>6 DEF PlaybackClear, Active, Nothing
  <2>3. /\ pbRing' = <<>> \/ pbRing' = pbRing
        /\ pending' = pending \/ pending'.source = "none"
    BY <1>6 DEF PlaybackClear, Active, Nothing
  <2> QED
    BY <2>1, <2>2, <2>3, CurrentKept DEF JoinInv, CaptureCurrent, PlayCurrent,
       SendCurrent
<1>7. CASE PlaybackPrepare
  <2>1. UNCHANGED <<session, owner, calls, flushOk, conv, rtc>>
    BY <1>7 DEF PlaybackPrepare
  <2>2. UNCHANGED <<capture, capRing, refRing, send>>
    BY <1>7 DEF PlaybackPrepare
  <2>3. CASE KeepPending
    <3>1. UNCHANGED <<pbRing, pending>>
      BY <2>3 DEF KeepPending
    <3> QED
      BY <2>1, <2>2, <3>1, CurrentKept DEF JoinInv, CaptureCurrent, PlayCurrent,
         SendCurrent
  <2>4. CASE PreparePrompt
    <3>1. pbRing' = pbRing /\ pending'.source # "rtc"
      BY <2>4 DEF PreparePrompt, Active, ReadGeneration, Nothing
    <3> QED
      BY <2>1, <2>2, <3>1, CurrentKept DEF JoinInv, CaptureCurrent, PlayCurrent,
         SendCurrent
  <2>5. CASE PrepareRemote
    <3>1. \/ UNCHANGED <<pbRing, pending>>
          \/ pbRing # <<>> /\ pbRing' = Tail(pbRing) /\ pending'.tag = Head(pbRing)
      BY <2>5 DEF PrepareRemote
    <3>2. pbRing # <<>> =>
            /\ 1 \in DOMAIN pbRing /\ Head(pbRing) = pbRing[1]
            /\ \A i \in DOMAIN Tail(pbRing) :
                 \E j \in DOMAIN pbRing : Tail(pbRing)[i] = pbRing[j]
      BY RingTail DEF MediaTypes, DataTypes
    <3>3. PlayCurrent => PlayCurrent'
      <4>1. CASE UNCHANGED <<pbRing, pending>>
        BY <2>1, <4>1 DEF PlayCurrent
      <4>2. CASE pbRing # <<>> /\ pbRing' = Tail(pbRing) /\ pending'.tag = Head(pbRing)
        <5>1. \A i \in DOMAIN pbRing' : \E j \in DOMAIN pbRing : pbRing'[i] = pbRing[j]
          BY <3>2, <4>2
        <5>2. 1 \in DOMAIN pbRing /\ pending'.tag = pbRing[1]
          BY <3>2, <4>2
        <5> QED BY <2>1, <5>1, <5>2 DEF PlayCurrent
      <4> QED BY <3>1, <4>1, <4>2
    <3> QED BY <2>1, <2>2, <3>3, CurrentKept DEF JoinInv, CaptureCurrent, SendCurrent
  <2> QED BY <1>7, <2>3, <2>4, <2>5 DEF PlaybackPrepare
<1>8. CASE PlaybackAuthorise
  <2>1. UNCHANGED <<session, owner, calls, flushOk, conv, rtc>>
    BY <1>8 DEF PlaybackAuthorise, ReferenceRoom, Nothing
  <2>2. UNCHANGED <<capture, capRing, pbRing, refRing, send>>
    BY <1>8 DEF PlaybackAuthorise, ReferenceRoom, Nothing
  <2>3. pending' = pending \/ pending'.source = "none"
    BY <1>8 DEF PlaybackAuthorise, ReferenceRoom, Nothing
  <2> QED
    BY <2>1, <2>2, <2>3, CurrentKept DEF JoinInv, CaptureCurrent, PlayCurrent,
       SendCurrent
<1>9. CASE (\E n \in -1 .. FrameUnits : PlaybackWritten(n))
  <2>1. UNCHANGED <<session, owner, calls, flushOk, conv, rtc>>
    BY <1>9 DEF PlaybackWritten
  <2>2. UNCHANGED <<capture, capRing, pbRing, send>>
    BY <1>9 DEF PlaybackWritten
  <2>3. PICK n \in -1 .. FrameUnits : PlaybackWritten(n)
    BY <1>9
  <2>4. \/ pending'.source = "none"
        \/ /\ pending'.source = pending.source
           /\ pending.source = "rtc" => pending'.tag = pending.tag
    BY <2>3 DEF PlaybackWritten, Nothing, NoFrame, PromptFrame, RemoteFrame
  <2>5. \/ refRing' = refRing
        \/ /\ n \in Nat /\ pending.source = "rtc" /\ pending.tag \in Tags
           /\ refRing' = refRing \o [k \in 1 .. n |-> pending.tag]
    <3>1. CASE n > 0 /\ pending.source = "rtc"
      <4>1. refRing' = refRing \/ refRing' = refRing \o [k \in 1 .. n |-> pending.tag]
        BY <2>3, <3>1 DEF PlaybackWritten
      <4>2. n \in Nat
        BY <3>1
      <4>3. pending.tag \in Tags
        BY <3>1, Fields
      <4> QED BY <3>1, <4>1, <4>2, <4>3, Zenon
    <3>2. CASE ~(n > 0 /\ pending.source = "rtc")
      BY <2>3, <3>2, Zenon DEF PlaybackWritten
    <3> QED BY <3>1, <3>2
  <2>6. \A i \in DOMAIN refRing' :
          \/ \E j \in DOMAIN refRing : refRing'[i] = refRing[j]
          \/ pending.source = "rtc" /\ refRing'[i] = pending.tag
    <3>1. CASE refRing' = refRing
      BY <3>1
    <3>2. CASE ~(refRing' = refRing)
      <4>1. /\ n \in Nat /\ pending.source = "rtc"
            /\ pending.tag \in Tags /\ refRing \in Seq(Tags)
        BY <2>5, <3>2 DEF MediaTypes, DataTypes
      <4>2. \A i \in DOMAIN (refRing \o [k \in 1 .. n |-> pending.tag]) :
              \/ (refRing \o [k \in 1 .. n |-> pending.tag])[i] = pending.tag
              \/ \E j \in DOMAIN refRing :
                   (refRing \o [k \in 1 .. n |-> pending.tag])[i] = refRing[j]
        <5> HIDE Fields
        <5> QED BY <4>1, RingExtend
      <4>3. refRing' = refRing \o [k \in 1 .. n |-> pending.tag]
        BY <2>5, <3>2
      <4> QED BY <4>1, <4>2, <4>3, Zenon
    <3> QED BY <3>1, <3>2
  <2>7. PlayCurrent => PlayCurrent'
    BY <2>1, <2>2, <2>4 DEF PlayCurrent
  <2>8. PlayCurrent /\ SendCurrent => SendCurrent'
    BY <2>1, <2>2, <2>6 DEF PlayCurrent, SendCurrent
  <2> QED BY <2>1, <2>2, <2>7, <2>8, CurrentKept DEF JoinInv, CaptureCurrent
<1>10. CASE SendBegin
  <2>1. UNCHANGED <<session, owner, calls, flushOk, conv, rtc, capture, pbRing, pending>>
    BY <1>10 DEF SendBegin
  <2>2. /\ capRing # <<>> /\ capRing' = Tail(capRing) /\ send'.frame = Head(capRing)
        /\ \/ refRing' = refRing /\ send'.ref = {}
           \/ /\ Len(refRing) >= FrameUnits
              /\ refRing' = SubSeq(refRing, FrameUnits + 1, Len(refRing))
              /\ send'.ref = {refRing[i] : i \in 1 .. FrameUnits}
    BY <1>10 DEF SendBegin
  <2>3. /\ 1 \in DOMAIN capRing /\ send'.frame = capRing[1]
        /\ \A i \in DOMAIN capRing' : \E j \in DOMAIN capRing : capRing'[i] = capRing[j]
    BY <2>2, RingTail DEF MediaTypes, DataTypes
  <2>4. /\ \A i \in DOMAIN refRing' : \E j \in DOMAIN refRing : refRing'[i] = refRing[j]
        /\ \A e \in send'.ref : \E j \in DOMAIN refRing : e = refRing[j]
    <3>1. CASE refRing' = refRing /\ send'.ref = {}
      BY <3>1
    <3>2. CASE ~(refRing' = refRing /\ send'.ref = {})
      <4> DEFINE t == SubSeq(refRing, FrameUnits + 1, Len(refRing))
                 r == {refRing[i] : i \in 1 .. FrameUnits}
      <4>1. refRing \in Seq(Tags)
        BY DEF MediaTypes, DataTypes
      <4>2. Len(refRing) >= FrameUnits
        BY <2>2, <3>2
      <4>3. /\ \A i \in DOMAIN t : \E j \in DOMAIN refRing : t[i] = refRing[j]
            /\ \A e \in r : \E j \in DOMAIN refRing : e = refRing[j]
        BY <4>1, <4>2, RingRest
      <4>4. refRing' = t /\ send'.ref = r
        BY <2>2, <3>2
      <4> HIDE DEF t, r
      <4> QED BY <4>3, <4>4
    <3> QED BY <3>1, <3>2
  <2>5. SendCurrent => SendCurrent'
    BY <2>1, <2>3, <2>4 DEF SendCurrent
  <2> QED BY <2>1, <2>5, CurrentKept DEF JoinInv, CaptureCurrent, PlayCurrent
<1>11. CASE SendDone
  <2>1. UNCHANGED <<session, owner, calls, flushOk, conv, rtc>>
    BY <1>11 DEF SendDone, None
  <2>2. UNCHANGED <<capture, pbRing, pending, capRing, refRing>>
    BY <1>11 DEF SendDone, None
  <2>3. send'.pc = "idle"
    BY <1>11 DEF SendDone, None
  <2> QED
    BY <2>1, <2>2, <2>3, CurrentKept DEF JoinInv, CaptureCurrent, PlayCurrent,
       SendCurrent
<1>12. CASE PushWrite
  <2>1. UNCHANGED <<session, owner, calls, flushOk, conv, capture, pending, capRing,
                    refRing, send>>
    BY <1>12 DEF PushWrite
  <2>2. rtc.pc # "idle" /\ rtc'.session = rtc.session /\ rtc'.pc = "idle"
    BY <1>12 DEF PushWrite, MediaTypes, WorkerTypes
  <2>3. rtc.session # None /\ rtc.session = session
    BY <2>2 DEF JoinInv
  <2>4. \/ pbRing' = pbRing
        \/ pbRing' = Append(pbRing, [session |-> rtc.session, losses |-> losses])
    BY <1>12 DEF PushWrite
  <2>5. [session |-> rtc.session, losses |-> losses] \in Tags
    BY DEF MediaTypes, DataTypes, Tags
  <2>6. \A i \in DOMAIN pbRing' :
          \/ pbRing'[i] = [session |-> rtc.session, losses |-> losses]
          \/ \E j \in DOMAIN pbRing : pbRing'[i] = pbRing[j]
    <3>1. pbRing \in Seq(Tags)
      BY DEF MediaTypes, DataTypes
    <3> DEFINE e == [session |-> rtc.session, losses |-> losses]
    <3>2. \A i \in DOMAIN Append(pbRing, e) :
            \/ Append(pbRing, e)[i] = e
            \/ \E j \in DOMAIN pbRing : Append(pbRing, e)[i] = pbRing[j]
      BY <2>5, <3>1, RingAppend
    <3> HIDE DEF e
    <3>3. pbRing' = pbRing \/ pbRing' = Append(pbRing, e)
      BY <2>4 DEF e
    <3>4. \A i \in DOMAIN pbRing' :
            pbRing'[i] = e \/ \E j \in DOMAIN pbRing : pbRing'[i] = pbRing[j]
      BY <3>2, <3>3
    <3> QED BY <3>4 DEF e
  <2>7. PlayCurrent => PlayCurrent'
    BY <2>1, <2>3, <2>6 DEF PlayCurrent
  <2> QED BY <2>1, <2>2, <2>3, <2>7, CurrentKept DEF JoinInv, CaptureCurrent, SendCurrent
<1>13. CASE FlushCall
  <2>1. /\ owner \in {"flushStart", "flushEnd"} /\ calls # <<>> /\ calls' = Tail(calls)
        /\ UNCHANGED <<session, owner, flushOk, conv, rtc, capture, send>>
    BY <1>13 DEF FlushCall, Flushing
  <2>2. rtc.session = None /\ rtc.pc = "idle" /\ conv
    BY <2>1 DEF JoinInv
  <2>3. CASE owner = "flushEnd"
    BY <2>1, <2>2, <2>3 DEF JoinInv
  <2>4. CASE owner = "flushStart"
    <3>1. handles = {"capture", "playback", "send"}
      BY <2>4 DEF ReleaseInv, OwnerInv, Workers
    <3>2. CASE calls = <<"capture", "playback", "send">>
      <4>1. capture.pc = "idle"
        BY <1>13, <3>1, <3>2, CallsLeft DEF FlushCall, WorkerIdle
      <4>2. CaptureCurrent' /\ calls' = <<"playback", "send">>
        BY <2>1, <3>2, <4>1, CallsLeft DEF CaptureCurrent
      <4> QED BY <2>1, <2>2, <2>4, <4>2, CallsLeft DEF JoinInv
    <3>3. CASE calls = <<"playback", "send">>
      <4>1. pbRing' = <<>> /\ pending'.source = "none" /\ calls' = <<"send">>
        BY <1>13, <3>1, <3>3, CallsLeft DEF FlushCall, FlushEffect, Nothing
      <4>2. PlayCurrent' /\ (CaptureCurrent => CaptureCurrent')
        BY <2>1, <4>1 DEF PlayCurrent, CaptureCurrent
      <4> QED BY <2>1, <2>2, <2>4, <3>3, <4>1, <4>2, CallsLeft DEF JoinInv
    <3>4. CASE calls = <<"send">>
      <4>1. /\ capRing' = <<>> /\ refRing' = <<>> /\ send.pc = "idle"
            /\ UNCHANGED <<pbRing, pending>> /\ calls' = <<>>
        BY <1>13, <3>1, <3>4, CallsLeft DEF FlushCall, FlushEffect, WorkerIdle
      <4>2. /\ SendCurrent' /\ (CaptureCurrent => CaptureCurrent')
            /\ PlayCurrent => PlayCurrent'
        BY <2>1, <4>1 DEF SendCurrent, PlayCurrent, CaptureCurrent
      <4> QED BY <2>1, <2>2, <2>4, <3>4, <4>1, <4>2, CallsLeft DEF JoinInv
    <3> QED BY <2>1, <2>4, <3>2, <3>3, <3>4 DEF JoinInv
  <2> QED BY <2>1, <2>3, <2>4
<1>14. CASE FlushCallFails
  <2>1. /\ owner \in {"flushStart", "flushEnd"} /\ calls # <<>> /\ calls' = Tail(calls)
        /\ flushOk' = FALSE /\ UNCHANGED <<owner, conv, rtc>>
    BY <1>14 DEF FlushCallFails, Flushing
  <2> QED
    BY <2>1, CallsLeft DEF JoinInv, ReleaseInv, WorkInv, CaptureCurrent, PlayCurrent,
       SendCurrent
<1>15. CASE (\E ws \in SUBSET Workers : MediaStart(ws))
  <2>1. /\ owner = "off" /\ owner' \in {"ready", "stop"} /\ rtc' = rtc
    BY <1>15 DEF MediaStart, Nothing, NoPrompt
  <2> QED
    BY <2>1, CallsLeft DEF JoinInv, ReleaseInv, WorkInv, CaptureCurrent, PlayCurrent,
       SendCurrent
<1>16. CASE StartConversation
  <2>1. /\ owner = "ready" /\ ~conv /\ conv' /\ owner' = "flushStart" /\ rtc' = rtc
        /\ calls' = <<"capture", "playback", "send">>
    BY <1>16 DEF StartConversation, BeginFlush, FlushOrder
  <2> QED
    BY <2>1, CallsLeft DEF JoinInv, ReleaseInv, WorkInv, CaptureCurrent, PlayCurrent,
       SendCurrent
<1>17. CASE (\E ok \in BOOLEAN : Join(ok))
  <2>1. /\ owner = "flushStart" /\ calls = <<>> /\ owner' = "ready"
        /\ UNCHANGED <<conv, session, capture, pbRing, pending, capRing, refRing, send>>
    BY <1>17 DEF Join
  <2>2. \/ rtc' = rtc
        \/ flushOk /\ rtc'.session = session /\ rtc'.pc = rtc.pc
    BY <1>17 DEF Join, MediaTypes, WorkerTypes
  <2>3. conv /\ rtc.pc = "idle" /\ rtc.session = None
    BY <2>1 DEF JoinInv
  <2>4. flushOk => CaptureCurrent /\ PlayCurrent /\ SendCurrent
    BY <2>1, CallsLeft DEF JoinInv
  <2>5. CaptureCurrent /\ PlayCurrent /\ SendCurrent
        => CaptureCurrent' /\ PlayCurrent' /\ SendCurrent'
    BY <2>1 DEF CaptureCurrent, PlayCurrent, SendCurrent
  <2> QED BY <2>1, <2>2, <2>3, <2>4, <2>5 DEF JoinInv
<1>18. CASE StopConversation
  <2>1. /\ owner = "ready" /\ conv /\ owner' = "leave"
        /\ UNCHANGED <<session, conv, rtc, capture, pbRing, pending, capRing, refRing,
                       send>>
    BY <1>18 DEF StopConversation
  <2> QED
    BY <2>1, CallsLeft DEF JoinInv, ReleaseInv, WorkInv, CaptureCurrent, PlayCurrent,
       SendCurrent
<1>19. CASE Leave
  <2>1. /\ owner = "leave" /\ owner' = "end" /\ conv' = conv
        /\ rtc'.session = None /\ rtc'.pc = "idle"
    BY <1>19 DEF Leave, None, SetRtcConnected
  <2> QED
    BY <2>1, CallsLeft DEF JoinInv, ReleaseInv, WorkInv, CaptureCurrent, PlayCurrent,
       SendCurrent
<1>20. CASE EndSession
  <2>1. owner = "end" /\ owner' = "flushEnd" /\ UNCHANGED <<conv, rtc>>
    BY <1>20 DEF EndSession, SetRtcConnected, BeginFlush, FlushOrder
  <2> QED
    BY <2>1, CallsLeft DEF JoinInv, ReleaseInv, WorkInv, CaptureCurrent, PlayCurrent,
       SendCurrent
<1>21. CASE Ended
  <2>1. owner = "flushEnd" /\ owner' \in {"ready", "fini"} /\ rtc' = rtc
    BY <1>21 DEF Ended
  <2> QED
    BY <2>1, CallsLeft DEF JoinInv, ReleaseInv, WorkInv, CaptureCurrent, PlayCurrent,
       SendCurrent
<1>22. CASE Shutdown
  <2>1. /\ owner = "ready" /\ owner' = "stop"
        /\ UNCHANGED <<session, conv, rtc, capture, pbRing, pending, capRing, refRing,
                       send>>
    BY <1>22 DEF Shutdown
  <2> QED
    BY <2>1, CallsLeft DEF JoinInv, ReleaseInv, WorkInv, CaptureCurrent, PlayCurrent,
       SendCurrent
<1>23. CASE StopDevices
  <2>1. /\ owner = "stop" /\ owner' = "waitWorkers"
        /\ UNCHANGED <<session, conv, rtc, capture, pbRing, pending, capRing, refRing,
                       send>>
    BY <1>23 DEF StopDevices, StopOrder
  <2> QED
    BY <2>1, CallsLeft DEF JoinInv, ReleaseInv, WorkInv, CaptureCurrent, PlayCurrent,
       SendCurrent
<1>24. CASE StopWorker
  <2>1. /\ owner = "waitWorkers" /\ owner' = "waitWorkers"
        /\ UNCHANGED <<session, conv, rtc, capture, pbRing, pending, capRing, refRing,
                       send>>
    BY <1>24 DEF StopWorker, WorkerIdle
  <2> QED
    BY <2>1, CallsLeft DEF JoinInv, ReleaseInv, WorkInv, CaptureCurrent, PlayCurrent,
       SendCurrent
<1>25. CASE StopWorkerFails
  <2>1. /\ owner = "waitWorkers" /\ owner' = (IF conv THEN "leave" ELSE "fini")
        /\ UNCHANGED <<session, conv, rtc, capture, pbRing, pending, capRing, refRing,
                       send>>
    BY <1>25 DEF StopWorkerFails, AfterStop
  <2> QED
    BY <2>1, CallsLeft DEF JoinInv, ReleaseInv, WorkInv, CaptureCurrent, PlayCurrent,
       SendCurrent
<1>26. CASE StopRelease
  <2>1. /\ owner = "waitWorkers" /\ owner' = (IF conv THEN "leave" ELSE "fini")
        /\ UNCHANGED <<session, conv, rtc, capture, pbRing, pending, capRing, refRing,
                       send>>
    BY <1>26 DEF StopRelease, SetPrompt, AfterStop
  <2> QED
    BY <2>1, CallsLeft DEF JoinInv, ReleaseInv, WorkInv, CaptureCurrent, PlayCurrent,
       SendCurrent
<1>27. CASE Fini
  <2>1. owner' = "destroy" /\ rtc'.session = None /\ rtc'.pc = "idle"
    BY <1>27 DEF Fini, None
  <2> QED
    BY <2>1, CallsLeft DEF JoinInv, ReleaseInv, WorkInv, CaptureCurrent, PlayCurrent,
       SendCurrent
<1>28. CASE Destroy
  <2>1. owner = "destroy" /\ owner' \in {"off", "retained"} /\ rtc' = rtc
    BY <1>28 DEF Destroy
  <2> QED
    BY <2>1, CallsLeft DEF JoinInv, ReleaseInv, WorkInv, CaptureCurrent, PlayCurrent,
       SendCurrent
<1>29. CASE UNCHANGED vars
  BY <1>29 DEF vars, JoinInv, CaptureCurrent, PlayCurrent, SendCurrent
<1> QED
  BY <1>1, <1>2, <1>3, <1>4, <1>5, <1>6, <1>7, <1>8, <1>9, <1>10, <1>11, <1>12, <1>13,
     <1>14, <1>15, <1>16, <1>17, <1>18, <1>19, <1>20, <1>21, <1>22, <1>23, <1>24,
     <1>25, <1>26, <1>27, <1>28, <1>29
  DEF Next, OwnerStep, OwnerChoice, PlaybackPass, Device, RtcStep

\* And of what the pipeline sends, plays and holds.
LEMMA JoinInvariant == Spec => []JoinInv
<1>1. Init => JoinInv
  BY DEF Init, JoinInv, None
<1>2. MediaTypes /\ ReleaseInv /\ JoinInv /\ [Next]_vars => JoinInv'
  BY JoinInvStep
<1> QED
  BY <1>1, <1>2, ReleaseInvariant, PTL DEF Spec

\* SentAudioIsCurrent: what the send worker offers the RTC worker while a conversation
\* is joined was recorded in that conversation, and so was what is cancelled from it.
THEOREM SentIsCurrent == Spec => []SentAudioIsCurrent
<1>1. JoinInv => SentAudioIsCurrent
  BY DEF JoinInv, SendCurrent, SentAudioIsCurrent
<1> QED
  BY <1>1, JoinInvariant, PTL

----------------------------------------------------------------------------
(* What is played is no older than the last loss of the link.              *)

\* The remote audio buffered and in hand was received after n losses of the link.
ReceivedSince(n) ==
  /\ \A i \in DOMAIN pbRing : pbRing[i].losses >= n
  /\ pending.source = "rtc" => pending.tag.losses >= n

\* Unless the playback worker is still to be told to clear it, what is buffered is of
\* the present link; and once a pass has looked, of the link as it was at its beginning.
LossInv ==
  /\ playback.losses <= losses
  /\ playback.pc \in {"prepare", "authorise", "writing"} => ReceivedSince(playback.losses)
  /\ ~clearPb => ReceivedSince(losses)

\* The labels of remote audio are numbers.
LEMMA LossLabels ==
  ASSUME MediaTypes
  PROVE  /\ losses \in Nat /\ playback.losses \in Nat
         /\ \A i \in DOMAIN pbRing : pbRing[i] \in Tags /\ pbRing[i].losses \in Nat
         /\ pending.source = "rtc" => pending.tag.losses \in Nat
<1>1. \A t \in Tags : t.losses \in Nat
  BY DEF Tags
<1>2. pbRing \in Seq(Tags)
  BY DEF MediaTypes, DataTypes
<1>3. \A i \in DOMAIN pbRing : pbRing[i] \in Tags
  BY <1>2
<1>4. pending.source = "rtc" => pending.tag \in Tags
  BY Fields
<1> QED BY <1>1, <1>3, <1>4, Fields DEF MediaTypes, DataTypes

\* Every action keeps it.
LEMMA LossInvStep == MediaTypes /\ ReleaseInv /\ LossInv /\ [Next]_vars => LossInv'
<1> SUFFICES ASSUME MediaTypes, ReleaseInv, LossInv, [Next]_vars PROVE LossInv'
  OBVIOUS
<1> USE Fields, LossLabels
<1> USE DEF atoms, resources, rings, control, bounds
<1>1. CASE \/ CaptureBegin \/ CaptureNothing \/ CaptureRead \/ CaptureWrite
           \/ SendBegin \/ SendDone \/ PushBegin \/ FlushCallFails \/ PlayPrompt
           \/ StopPrompt \/ StartConversation \/ (\E ok \in BOOLEAN : Join(ok))
           \/ StopConversation \/ Ended \/ Shutdown \/ StopDevices \/ StopWorker
           \/ StopWorkerFails \/ StopRelease \/ Fini
  <2>1. UNCHANGED <<playback, losses, clearPb, pbRing, pending>>
    BY <1>1 DEF CaptureBegin, CaptureNothing, CaptureRead, CaptureWrite, SendBegin,
       SendDone, PushBegin, FlushCallFails, PlayPrompt, StopPrompt, StartConversation,
       Join, StopConversation, Ended, Shutdown, StopDevices, StopWorker,
       StopWorkerFails, StopRelease, Fini, TimerFires, None, Active, Flushing,
       SetPrompt, BeginFlush, StopOrder, WorkerIdle, AfterStop, FlushOrder
  <2> QED BY <2>1 DEF LossInv, ReceivedSince
<1>2. CASE PlaybackBegin
  <2>1. /\ playback'.pc = "begun" /\ playback'.losses = losses
        /\ UNCHANGED <<losses, clearPb, pbRing, pending>>
    BY <1>2 DEF PlaybackBegin, TimerFires, WorkerIdle, MediaTypes, WorkerTypes
  <2> QED BY <2>1 DEF LossInv, ReceivedSince, MediaTypes, DataTypes
<1>3. CASE PlaybackClear
  <2>1. playback'.losses = playback.losses /\ losses' = losses
    BY <1>3 DEF PlaybackClear, MediaTypes, WorkerTypes
  <2>2. \/ pbRing' = <<>> /\ pending'.source = "none"
        \/ /\ ~clearPb /\ (pbRing' = <<>> \/ pbRing' = pbRing)
           /\ pending' = pending \/ pending'.source = "none"
    BY <1>3 DEF PlaybackClear, Nothing
  <2>3. /\ \A i \in DOMAIN pbRing' :
             pbRing'[i].losses >= losses /\ pbRing'[i].losses \in Nat
        /\ pending'.source = "rtc" =>
             pending'.tag.losses >= losses /\ pending'.tag.losses \in Nat
    BY <2>2 DEF LossInv, ReceivedSince
  <2> QED BY <2>1, <2>3 DEF LossInv, ReceivedSince
<1>4. CASE PlaybackPrepare
  <2>1. /\ playback.pc = "prepare" /\ playback'.losses = playback.losses
        /\ UNCHANGED <<losses, clearPb>>
    BY <1>4 DEF PlaybackPrepare, KeepPending, PreparePrompt, PrepareRemote, MediaTypes,
       WorkerTypes
  <2>2. \A n \in Nat : ReceivedSince(n) =>
          /\ \A i \in DOMAIN pbRing' : pbRing'[i].losses >= n
          /\ pending'.source = "rtc" => pending'.tag.losses >= n
    <3> SUFFICES ASSUME NEW n \in Nat, ReceivedSince(n)
                 PROVE  /\ \A i \in DOMAIN pbRing' : pbRing'[i].losses >= n
                        /\ pending'.source = "rtc" => pending'.tag.losses >= n
      OBVIOUS
    <3>1. CASE KeepPending
      BY <3>1 DEF KeepPending, ReceivedSince
    <3>2. CASE PreparePrompt
      <4>1. pbRing' = pbRing /\ pending'.source # "rtc"
        BY <3>2 DEF PreparePrompt, Active, ReadGeneration, Nothing
      <4> QED BY <4>1 DEF ReceivedSince
    <3>3. CASE PrepareRemote
      <4>1. \/ UNCHANGED <<pbRing, pending>>
            \/ pbRing # <<>> /\ pbRing' = Tail(pbRing) /\ pending'.tag = Head(pbRing)
        BY <3>3 DEF PrepareRemote
      <4>2. pbRing # <<>> =>
              /\ 1 \in DOMAIN pbRing /\ Head(pbRing) = pbRing[1]
              /\ \A i \in DOMAIN Tail(pbRing) :
                   \E j \in DOMAIN pbRing : Tail(pbRing)[i] = pbRing[j]
        BY RingTail DEF MediaTypes, DataTypes
      <4> QED BY <4>1, <4>2 DEF ReceivedSince
    <3> QED BY <1>4, <3>1, <3>2, <3>3 DEF PlaybackPrepare
  <2>3. playback.losses \in Nat /\ losses \in Nat
    BY DEF MediaTypes, DataTypes
  <2> QED BY <2>1, <2>2, <2>3 DEF LossInv, ReceivedSince
<1>5. CASE PlaybackAuthorise
  <2>1. /\ playback.pc = "authorise" /\ playback'.losses = playback.losses
        /\ UNCHANGED <<losses, clearPb, pbRing>>
        /\ pending' = pending \/ pending'.source = "none"
    BY <1>5 DEF PlaybackAuthorise, ReferenceRoom, Nothing, MediaTypes, WorkerTypes
  <2> QED BY <2>1 DEF LossInv, ReceivedSince, MediaTypes, DataTypes
<1>6. CASE (\E n \in -1 .. FrameUnits : PlaybackWritten(n))
  <2>1. /\ playback'.pc = "idle" /\ playback'.losses = playback.losses
        /\ UNCHANGED <<losses, clearPb, pbRing>>
    BY <1>6 DEF PlaybackWritten, MediaTypes, WorkerTypes
  <2>2. \/ pending'.source = "none"
        \/ /\ pending'.source = pending.source
           /\ pending.source = "rtc" => pending'.tag = pending.tag
    BY <1>6 DEF PlaybackWritten, Nothing, NoFrame, PromptFrame, RemoteFrame
  <2> QED BY <2>1, <2>2 DEF LossInv, ReceivedSince
<1>7. CASE RtcConnects
  <2>1. /\ UNCHANGED <<playback, losses, pbRing, pending>> /\ (clearPb => clearPb')
    BY <1>7 DEF RtcConnects, None, SetRtcConnected
  <2> QED BY <2>1 DEF LossInv, ReceivedSince, MediaTypes, DataTypes
<1>8. CASE RtcLoses
  <2>1. /\ losses' = losses + 1 /\ clearPb' /\ UNCHANGED <<playback, pbRing, pending>>
    BY <1>8 DEF RtcLoses, SetRtcConnected
  <2>2. playback'.losses <= losses'
    BY <2>1, LossLabels DEF LossInv
  <2> QED BY <2>1, <2>2 DEF LossInv, ReceivedSince
<1>9. CASE PushWrite
  <2>1. UNCHANGED <<playback, losses, clearPb, pending>>
    BY <1>9 DEF PushWrite
  <2>2. [session |-> rtc.session, losses |-> losses] \in Tags
    BY DEF MediaTypes, DataTypes, Tags
  <2>3. \A i \in DOMAIN pbRing' :
          pbRing'[i].losses = losses \/ \E j \in DOMAIN pbRing : pbRing'[i] = pbRing[j]
    <3>1. pbRing \in Seq(Tags)
      BY DEF MediaTypes, DataTypes
    <3> DEFINE e == [session |-> rtc.session, losses |-> losses]
    <3>2. \A i \in DOMAIN Append(pbRing, e) :
            \/ Append(pbRing, e)[i] = e
            \/ \E j \in DOMAIN pbRing : Append(pbRing, e)[i] = pbRing[j]
      BY <2>2, <3>1, RingAppend
    <3>3. e.losses = losses
      OBVIOUS
    <3> HIDE DEF e
    <3>4. pbRing' = pbRing \/ pbRing' = Append(pbRing, e)
      BY <1>9 DEF e, PushWrite
    <3> QED BY <3>2, <3>3, <3>4
  <2>4. ASSUME NEW n \in Nat, n <= losses, ReceivedSince(n)
        PROVE  /\ \A i \in DOMAIN pbRing' : pbRing'[i].losses >= n
               /\ pending'.source = "rtc" => pending'.tag.losses >= n
    BY <2>1, <2>3, <2>4 DEF ReceivedSince
  <2> QED BY <2>1, <2>4 DEF LossInv, ReceivedSince
<1>10. CASE FlushCall
  <2>1. /\ UNCHANGED <<playback, losses>>
        /\ \/ pbRing' = <<>> /\ pending'.source = "none"
           \/ UNCHANGED <<clearPb, pbRing, pending>>
    <3>1. UNCHANGED <<playback, losses>>
      BY <1>10 DEF FlushCall
    <3>2. CASE Head(calls) \notin handles
      BY <1>10, <3>1, <3>2 DEF FlushCall
    <3>3. CASE Head(calls) \in handles
      <4>1. Head(calls) \in {"capture", "playback", "send"}
        BY <3>3 DEF ReleaseInv, OwnerInv, Workers
      <4>2. WorkerIdle(Head(calls)) /\ FlushEffect(Head(calls))
        BY <1>10, <3>3 DEF FlushCall
      <4>3. CASE Head(calls) = "capture"
        BY <3>1, <4>2, <4>3 DEF FlushEffect
      <4>4. CASE Head(calls) = "playback"
        <5>1. FlushEffect("playback") /\ WorkerIdle("playback")
          BY <4>2, <4>4, Zenon
        <5>2. pbRing' = <<>> /\ pending' = Nothing(ann.gen) /\ playback.pc = "idle"
          BY <5>1 DEF FlushEffect, WorkerIdle
        <5> QED BY <3>1, <5>2 DEF Nothing
      <4>5. CASE Head(calls) = "send"
        BY <3>1, <4>2, <4>5 DEF FlushEffect
      <4> QED BY <4>1, <4>3, <4>4, <4>5
    <3> QED BY <3>2, <3>3
  <2>2. CASE pbRing' = <<>> /\ pending'.source = "none"
    BY <2>1, <2>2, EmptyRing DEF LossInv, ReceivedSince
  <2>3. CASE UNCHANGED <<clearPb, pbRing, pending>>
    BY <2>1, <2>3 DEF LossInv, ReceivedSince
  <2> QED BY <2>1, <2>2, <2>3
<1>11. CASE (\E ws \in SUBSET Workers : MediaStart(ws))
  <2>1. /\ UNCHANGED <<playback, losses>> /\ pbRing' = <<>> /\ pending'.source = "none"
    BY <1>11 DEF MediaStart, Nothing, NoPrompt, ReleaseInv, WorkInv
  <2> QED BY <2>1 DEF LossInv, ReceivedSince, MediaTypes, DataTypes
<1>12. CASE Leave
  <2>1. /\ UNCHANGED <<playback, losses, pbRing, pending>> /\ (clearPb => clearPb')
    BY <1>12 DEF Leave, None, SetRtcConnected
  <2> QED BY <2>1 DEF LossInv, ReceivedSince, MediaTypes, DataTypes
<1>13. CASE EndSession
  <2>1. /\ UNCHANGED <<playback, losses, pbRing, pending>> /\ (clearPb => clearPb')
    BY <1>13 DEF EndSession, SetRtcConnected, BeginFlush, FlushOrder
  <2> QED BY <2>1 DEF LossInv, ReceivedSince, MediaTypes, DataTypes
<1>14. CASE Destroy
  <2>1. /\ UNCHANGED <<playback, losses, clearPb, pending>>
        /\ pbRing' = pbRing \/ pbRing' = <<>>
    BY <1>14 DEF Destroy
  <2>2. CASE pbRing' = pbRing
    BY <2>1, <2>2 DEF LossInv, ReceivedSince
  <2>3. CASE pbRing' = <<>>
    BY <2>1, <2>3, EmptyRing DEF LossInv, ReceivedSince
  <2> QED BY <2>1, <2>2, <2>3
<1>15. CASE UNCHANGED vars
  BY <1>15 DEF vars, LossInv, ReceivedSince
<1> QED
  BY <1>1, <1>2, <1>3, <1>4, <1>5, <1>6, <1>7, <1>8, <1>9, <1>10, <1>11, <1>12, <1>13,
     <1>14, <1>15
  DEF Next, OwnerStep, OwnerChoice, PlaybackPass, Device, RtcStep

\* PlayedAudioIsCurrent: remote audio given to the device is of the conversation joined,
\* and was received after every loss of the link before the pass that plays it.
THEOREM PlayedIsCurrent == Spec => []PlayedAudioIsCurrent
<1>1. Init => LossInv
  BY DEF Init, LossInv, ReceivedSince, Nothing
<1>2. MediaTypes /\ ReleaseInv /\ LossInv /\ [Next]_vars => LossInv'
  BY LossInvStep
<1>3. JoinInv /\ LossInv => PlayedAudioIsCurrent
  BY DEF JoinInv, LossInv, ReceivedSince, PlayCurrent, PlayedAudioIsCurrent
<1> QED
  BY <1>1, <1>2, <1>3, ReleaseInvariant, JoinInvariant, PTL DEF Spec

----------------------------------------------------------------------------
(* Prompts are whole.                                                      *)

\* What the playback worker has of the published prompt is the frame that was read last:
\* those before it were heard or cut.  Without one, all that were read were heard or cut.
Done == heard \cup cut
PromptInv ==
  /\ pending.gen <= ann.gen
  /\ playback.pc # "idle" => playback.gen <= ann.gen
  /\ playback.pc = "begun" => pending.gen <= playback.gen
  /\ OfPrompt =>
       /\ Done = 1 .. pending.no - 1
       /\ ann.left > 0 => PromptFrames - ann.left = pending.no
  /\ ~OfPrompt /\ ann.left > 0 => Done = 1 .. PromptFrames - ann.left

\* A frame of the prompt that is heard or cut is the next one.
LEMMA FrameDone ==
  ASSUME MediaTypes, PromptInv, OfPrompt
  PROVE  /\ pending.no \in Nat
         /\ Done \cup {pending.no} = 1 .. pending.no
         /\ ann.left > 0 => Done \cup {pending.no} = 1 .. PromptFrames - ann.left
<1>1. pending.no \in Nat \ {0} /\ Done = 1 .. pending.no - 1
  BY Fields DEF OfPrompt, PromptInv, PromptFrame
<1>2. \A n \in Nat \ {0} : (1 .. n - 1) \cup {n} = 1 .. n
  OBVIOUS
<1>3. Done \cup {pending.no} = 1 .. pending.no
  BY <1>1, <1>2
<1> QED
  BY <1>1, <1>3 DEF PromptInv

\* Every action keeps it.
LEMMA PromptInvStep == MediaTypes /\ ReleaseInv /\ PromptInv /\ [Next]_vars => PromptInv'
<1> SUFFICES ASSUME MediaTypes, ReleaseInv, PromptInv, [Next]_vars PROVE PromptInv'
  OBVIOUS
<1> USE Fields
<1> USE DEF atoms, resources, rings, control, bounds
<1>1. CASE \/ CaptureBegin \/ CaptureNothing \/ CaptureRead \/ CaptureWrite
           \/ SendBegin \/ SendDone \/ RtcConnects \/ RtcLoses \/ PushBegin
           \/ PushWrite \/ FlushCallFails \/ StartConversation
           \/ (\E ok \in BOOLEAN : Join(ok)) \/ StopConversation \/ Leave
           \/ EndSession \/ Ended \/ Shutdown \/ StopDevices \/ StopWorker
           \/ StopWorkerFails \/ Fini \/ Destroy
  <2>1. UNCHANGED <<playback, pending, ann, heard, cut>>
    BY <1>1 DEF CaptureBegin, CaptureNothing, CaptureRead, CaptureWrite, SendBegin,
       SendDone, RtcConnects, RtcLoses, PushBegin, PushWrite, FlushCallFails,
       StartConversation, Join, StopConversation, Leave, EndSession, Ended, Shutdown,
       StopDevices, StopWorker, StopWorkerFails, Fini, Destroy, TimerFires, None,
       SetRtcConnected, Active, Flushing, BeginFlush, StopOrder, WorkerIdle, AfterStop,
       FlushOrder
  <2> QED BY <2>1 DEF PromptInv, OfPrompt, Done
<1>2. CASE PlaybackBegin
  <2>1. /\ playback.pc = "idle" /\ playback'.pc = "begun" /\ playback'.gen = ann.gen
        /\ UNCHANGED <<pending, ann, heard, cut>>
    BY <1>2 DEF PlaybackBegin, TimerFires, WorkerIdle, MediaTypes, WorkerTypes
  <2> QED BY <2>1 DEF PromptInv, OfPrompt, Done
<1>3. CASE PlaybackClear
  <2>1. /\ playback.pc = "begun" /\ playback'.pc = "prepare"
        /\ playback'.gen = playback.gen /\ UNCHANGED <<ann, heard>>
    BY <1>3 DEF PlaybackClear, MediaTypes, WorkerTypes
  <2>2. \/ pending' = pending
        \/ pending'.source = "none" /\ pending'.gen \in {pending.gen, playback.gen}
    BY <1>3 DEF PlaybackClear, Active, Nothing
  <2>3. OfPrompt => pending.gen = playback.gen
    BY <2>1 DEF PromptInv, OfPrompt
  <2>4. CASE ~OfPrompt
    <3>1. cut' = cut
      BY <1>3, <2>4 DEF PlaybackClear, CutPending
    <3> QED BY <2>1, <2>2, <2>4, <3>1 DEF PromptInv, OfPrompt, Done
  <2>5. CASE OfPrompt /\ ~clearPb
    <3>1. cut' = cut /\ pending' = pending
      BY <1>3, <2>3, <2>5 DEF PlaybackClear, OfPrompt
    <3> QED BY <2>1, <2>5, <3>1 DEF PromptInv, OfPrompt, Done
  <2>6. CASE OfPrompt /\ clearPb
    <3>1. /\ cut' = cut \cup {pending.no} /\ pending' = Nothing(playback.gen)
      BY <1>3, <2>6 DEF PlaybackClear, CutPending
    <3>2. ~OfPrompt' /\ pending'.gen = playback.gen
      BY <3>1 DEF OfPrompt, Nothing
    <3>3. Done' = Done \cup {pending.no}
      BY <2>1, <3>1 DEF Done
    <3> QED BY <2>1, <2>6, <3>2, <3>3, FrameDone DEF PromptInv
  <2> QED BY <2>4, <2>5, <2>6
<1>4. CASE PlaybackPrepare
  <2>1. /\ playback.pc = "prepare" /\ UNCHANGED <<heard, cut>> /\ playback'.gen = playback.gen
        /\ playback'.pc \in {"authorise", "idle"}
    BY <1>4 DEF PlaybackPrepare, KeepPending, PreparePrompt, PrepareRemote, MediaTypes,
       WorkerTypes
  <2>2. CASE KeepPending
    <3>1. UNCHANGED <<pending, ann>>
      BY <2>2 DEF KeepPending
    <3> QED BY <2>1, <3>1 DEF PromptInv, OfPrompt, Done
  <2>3. CASE PreparePrompt
    <3>1. pending.source = "none" /\ ~OfPrompt
      BY <2>3 DEF PreparePrompt, OfPrompt
    <3>2. CASE ann.left > 0
      <4>1. /\ pending'.source = "prompt" /\ pending'.gen = ann.gen
            /\ pending'.no = PromptFrames - ann.left + 1
            /\ ann'.gen = ann.gen /\ ann'.left = ann.left - 1
        BY <2>3, <3>2 DEF PreparePrompt, Active, ReadGeneration, MediaTypes, DataTypes
      <4>2. ann.gen \in Nat /\ ann.left \in Nat /\ PromptFrames \in Nat
        BY DEF MediaTypes, DataTypes
      <4>3. Done' = 1 .. PromptFrames - ann.left
        BY <2>1, <3>1, <3>2 DEF PromptInv, Done
      <4>4. /\ PromptFrames - ann.left = pending'.no - 1
            /\ PromptFrames - ann'.left = pending'.no
        BY <4>1, <4>2
      <4>5. OfPrompt'
        BY <4>1 DEF OfPrompt
      <4>6. /\ pending'.gen <= ann'.gen
            /\ playback'.pc # "idle" => playback'.gen <= ann'.gen
            /\ playback'.pc # "begun"
        BY <2>1, <4>1, <4>2 DEF PromptInv
      <4> QED BY <4>3, <4>4, <4>5, <4>6 DEF PromptInv
    <3>3. CASE ~(ann.left > 0)
      <4>1. /\ pending'.source = "none" /\ pending'.gen = ann.gen /\ ann' = ann
            /\ playback'.pc = "idle"
        BY <2>3, <3>3 DEF PreparePrompt, Active, Nothing, MediaTypes, WorkerTypes
      <4>2. ann.gen \in Nat
        BY DEF MediaTypes, DataTypes
      <4> QED BY <2>1, <3>3, <4>1, <4>2 DEF PromptInv, OfPrompt
    <3> QED BY <3>2, <3>3
  <2>4. CASE PrepareRemote
    <3>1. /\ ann' = ann /\ pending.source = "none"
          /\ \/ pending' = pending
             \/ pending'.source = "rtc" /\ pending'.gen = playback.gen
      BY <2>4 DEF PrepareRemote
    <3> QED BY <2>1, <3>1 DEF PromptInv, OfPrompt, Done
  <2> QED BY <1>4, <2>2, <2>3, <2>4 DEF PlaybackPrepare
<1>5. CASE PlaybackAuthorise
  <2>1. /\ playback.pc = "authorise" /\ playback'.pc \in {"writing", "idle"}
        /\ playback'.gen = playback.gen /\ UNCHANGED <<ann, heard, cut>>
        /\ \/ pending' = pending
           \/ /\ pending'.source = "none" /\ pending'.gen = pending.gen
              /\ ann.gen # pending.gen
    BY <1>5 DEF PlaybackAuthorise, Nothing, MediaTypes, WorkerTypes
  <2> QED BY <2>1 DEF PromptInv, OfPrompt, Done
<1>6. CASE (\E n \in -1 .. FrameUnits : PlaybackWritten(n))
  <2> SUFFICES ASSUME NEW n \in -1 .. FrameUnits, PlaybackWritten(n) PROVE PromptInv'
    BY <1>6
  <2>1. playback'.pc = "idle" /\ ann' = ann
    BY DEF PlaybackWritten, MediaTypes, WorkerTypes
  <2>2. CASE ~OfPrompt
    <3>1. UNCHANGED <<heard, cut>>
      BY <2>2 DEF PlaybackWritten, CutPending
    <3>2. \/ pending'.source = "none" /\ pending'.gen = pending.gen
          \/ pending'.source = pending.source /\ pending'.gen = pending.gen
      BY DEF PlaybackWritten, Nothing, NoFrame, PromptFrame, RemoteFrame
    <3> QED BY <2>1, <2>2, <3>1, <3>2 DEF PromptInv, OfPrompt, Done
  <2>3. CASE OfPrompt /\ (n < 0 \/ n = pending.left)
    <3>1. /\ pending' = Nothing(pending.gen)
          /\ heard' \cup cut' = heard \cup cut \cup {pending.no}
      BY <2>3 DEF PlaybackWritten, CutPending
    <3>2. ~OfPrompt' /\ pending'.gen = pending.gen
      BY <3>1 DEF OfPrompt, Nothing
    <3> QED BY <2>1, <2>3, <3>1, <3>2, FrameDone DEF PromptInv, Done
  <2>4. CASE OfPrompt /\ ~(n < 0 \/ n = pending.left)
    <3>1. /\ pending' = [pending EXCEPT !.left = pending.left - n]
          /\ UNCHANGED <<heard, cut>>
      BY <2>4 DEF PlaybackWritten, OfPrompt
    <3>2. pending \in PromptFrame
      BY <2>4 DEF OfPrompt
    <3>3. pending'.source = pending.source /\ pending'.gen = pending.gen /\ pending'.no = pending.no
      BY <3>1, <3>2 DEF PromptFrame
    <3> QED BY <2>1, <2>4, <3>1, <3>3 DEF PromptInv, OfPrompt, Done
  <2> QED BY <2>2, <2>3, <2>4
<1>7. CASE FlushCall
  <2>1. UNCHANGED <<playback, ann, heard>>
    BY <1>7 DEF FlushCall
  <2>2. CASE UNCHANGED <<pending, cut>>
    BY <2>1, <2>2 DEF PromptInv, OfPrompt, Done
  <2>3. CASE pending' = Nothing(ann.gen) /\ CutPending /\ playback.pc = "idle"
    <3>1. ~OfPrompt' /\ pending'.gen = ann.gen /\ ann.gen \in Nat
      BY <2>3 DEF OfPrompt, Nothing, MediaTypes, DataTypes
    <3>2. OfPrompt => Done' = Done \cup {pending.no}
      BY <2>1, <2>3 DEF CutPending, Done
    <3>3. ~OfPrompt => Done' = Done
      BY <2>1, <2>3 DEF CutPending, Done
    <3>4. ann.left > 0 => Done' = 1 .. PromptFrames - ann.left
      BY <3>2, <3>3, FrameDone DEF PromptInv
    <3> QED BY <2>1, <2>3, <3>1, <3>4 DEF PromptInv
  <2>4. CASE Head(calls) \notin handles
    BY <1>7, <2>2, <2>4 DEF FlushCall
  <2>5. CASE Head(calls) \in handles
    <3>1. Head(calls) \in {"capture", "playback", "send"}
      BY <2>5 DEF ReleaseInv, OwnerInv, Workers
    <3>2. WorkerIdle(Head(calls)) /\ FlushEffect(Head(calls))
      BY <1>7, <2>5 DEF FlushCall
    <3>3. CASE Head(calls) \in {"capture", "send"}
      BY <2>2, <3>2, <3>3 DEF FlushEffect
    <3>4. CASE Head(calls) = "playback"
      <4>1. FlushEffect("playback") /\ WorkerIdle("playback")
        BY <3>2, <3>4, Zenon
      <4> QED BY <2>3, <4>1 DEF FlushEffect, WorkerIdle
    <3> QED BY <3>1, <3>3, <3>4
  <2> QED BY <2>4, <2>5
<1>8. CASE (\E ws \in SUBSET Workers : MediaStart(ws))
  <2>1. /\ playback' = playback /\ playback.pc = "idle" /\ pending'.source = "none"
        /\ pending'.gen = 0 /\ ann'.gen = 0 /\ ann'.left = 0
    BY <1>8 DEF MediaStart, Nothing, NoPrompt, ReleaseInv, OwnerInv, WorkInv
  <2>2. ~OfPrompt' /\ ~(ann'.left > 0) /\ playback'.pc = "idle"
    BY <2>1 DEF OfPrompt
  <2> QED BY <2>1, <2>2 DEF PromptInv
<1>9. CASE PlayPrompt \/ StopPrompt \/ StopRelease
  <2>1. /\ UNCHANGED <<playback, pending>> /\ heard' = {} /\ cut' = {}
        /\ ann'.gen = ann.gen + 1 /\ ann'.left \in {0, PromptFrames}
    BY <1>9 DEF PlayPrompt, StopPrompt, StopRelease, SetPrompt, AfterStop
  <2>2. ann.gen \in Nat /\ pending.gen \in Nat /\ playback.gen \in Nat /\ PromptFrames \in Nat
    OBVIOUS
  <2>3. /\ pending'.gen < ann'.gen
        /\ playback'.pc # "idle" => playback'.gen <= ann'.gen
        /\ playback'.pc = "begun" => pending'.gen <= playback'.gen
    BY <2>1, <2>2 DEF PromptInv
  <2>4. Done' = {} /\ (ann'.left > 0 => 1 .. PromptFrames - ann'.left = {})
    BY <2>1, <2>2 DEF Done
  <2>5. ~OfPrompt' /\ pending'.gen <= ann'.gen
    BY <2>1, <2>2, <2>3 DEF OfPrompt
  <2> QED BY <2>3, <2>4, <2>5 DEF PromptInv
<1>10. CASE UNCHANGED vars
  BY <1>10 DEF vars, PromptInv, OfPrompt, Done
<1> QED
  BY <1>1, <1>2, <1>3, <1>4, <1>5, <1>6, <1>7, <1>8, <1>9, <1>10
  DEF Next, OwnerStep, OwnerChoice, PlaybackPass, Device, RtcStep

\* PromptIsWhole: before a frame of the published prompt is played, those before it were
\* taken whole by the device or cut, and none else was.
THEOREM PromptsAreWhole == Spec => []PromptIsWhole
<1>1. Init => PromptInv
  BY DEF Init, PromptInv, OfPrompt, Nothing, NoPrompt
<1>2. MediaTypes /\ ReleaseInv /\ PromptInv /\ [Next]_vars => PromptInv'
  BY PromptInvStep
<1>3. PromptInv => PromptIsWhole
  BY DEF PromptInv, PromptIsWhole, Done
<1> QED
  BY <1>1, <1>2, <1>3, ReleaseInvariant, PTL DEF Spec

=============================================================================
