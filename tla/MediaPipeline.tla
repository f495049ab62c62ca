--------------------------- MODULE MediaPipeline ---------------------------
(***************************************************************************)
(* The media pipeline of src/src/media/mybot_media_pipeline.c and the      *)
(* prompt queue of src/src/platform/mybot_announce.c it plays from, driven *)
(* as src/src/core/mybot_app.c drives them.                                *)
(*                                                                         *)
(* Five threads: the control worker (owner) starts and stops the pipeline, *)
(* begins and ends conversations and plays prompts; the capture, playback  *)
(* and send workers each run a timer handler whose device or network call  *)
(* may take arbitrarily long; the RTC worker reports the link and delivers *)
(* remote audio.  Rings are queues here: RingBuffer shows that they are.   *)
(*                                                                         *)
(* A frame of audio is the number of the conversation in which it was      *)
(* recorded or received; its samples are otherwise of no interest.         *)
(***************************************************************************)
EXTENDS Integers, Sequences

CONSTANTS
  CapCapacity, PbCapacity,   \* frames the capture and playback rings hold
  RefCapacity,               \* units the reference ring holds
  FrameUnits,                \* units of a frame the playback device can take apart
  PromptFrames,              \* frames of a pairing prompt
  MaxRuns, MaxSessions, MaxPrompts, MaxMoves, MaxMishaps   \* bounds of the model

ASSUME UnitsAssumption == FrameUnits \in Nat \ {0} /\ PromptFrames \in Nat \ {0}
ASSUME RingAssumption == /\ {CapCapacity, PbCapacity} \subseteq Nat \ {0}
                         /\ RefCapacity \in Nat /\ RefCapacity >= FrameUnits

VARIABLES
  \* the pipeline
  running, rtcConnected, clearPb,  \* atomics; clearPb is announce_clear_pb
  devices,       \* "none", "started", "stopped": both audio devices
  handles,       \* workers whose queue exists
  stopComplete,
  buffers,       \* the rings and the prompt queue are allocated
  capRing, pbRing, refRing,
  pending,       \* the frame the playback worker owns: pb_pending*
  ann,           \* the prompt queue: generation and frames left
  \* threads
  owner, calls, flushOk, conv,
  capture, playback, send, rtc,
  \* what was said and heard so far, and bounds
  session,       \* conversations begun
  heard,         \* frames of the current prompt the device took whole
  cut,           \* frames of it given up: the device failed, or the link or the conversation
                 \* that began or ended found them pending
  losses, faults, runs

atoms == <<running, rtcConnected, clearPb>>
resources == <<devices, handles, stopComplete, buffers>>
rings == <<capRing, pbRing, refRing>>
control == <<owner, calls, flushOk, conv>>
bounds == <<losses, faults, runs>>
vars == <<atoms, resources, rings, pending, ann, control, capture, playback, send, rtc,
          session, heard, cut, bounds>>

Workers == {"capture", "playback", "send"}
None == 0                           \* the tag of audio of no conversation
Nothing(gen) == [source |-> "none", gen |-> gen, left |-> 0]
NoPrompt == [gen |-> 0, left |-> 0]
Active == ann.left > 0              \* mybot_announce_is_active

WorkerIdle(w) == CASE w = "capture"  -> capture.pc = "idle"
                   [] w = "playback" -> playback.pc = "idle"
                   [] w = "send"     -> send.pc = "idle"

\* Only a worker whose queue exists has a timer, and the handler wants running.
TimerFires(w) == w \in handles /\ running /\ WorkerIdle(w)

Init ==
  /\ running = FALSE /\ rtcConnected = FALSE /\ clearPb = FALSE
  /\ devices = "none" /\ handles = {} /\ stopComplete = FALSE /\ buffers = FALSE
  /\ capRing = <<>> /\ pbRing = <<>> /\ refRing = <<>>
  /\ pending = Nothing(0) /\ ann = NoPrompt
  /\ owner = "off" /\ calls = <<>> /\ flushOk = TRUE /\ conv = FALSE
  /\ capture = [pc |-> "idle", tag |-> None]
  /\ playback = [pc |-> "idle", gen |-> 0, active |-> FALSE, losses |-> 0]
  /\ send = [pc |-> "idle", frame |-> None, ref |-> {}]
  /\ rtc = [pc |-> "idle", session |-> None, connected |-> FALSE]
  /\ session = 0 /\ heard = {} /\ cut = {}
  /\ losses = 0 /\ faults = 0 /\ runs = 0

\* Bounds of the model: conversations begun, prompts published and mishaps, together.
MoreMoves == session + ann.gen + losses + faults < MaxMoves
MoreMishaps == losses + faults < MaxMishaps /\ MoreMoves

-----------------------------------------------------------------------------
(* The capture worker: read the device, then look whether to keep it.      *)

CaptureBegin ==
  /\ TimerFires("capture")
  /\ capture' = [pc |-> "reading", tag |-> session]
  /\ UNCHANGED <<atoms, resources, rings, pending, ann, control, playback, send, rtc,
                 session, heard, cut, bounds>>

\* The device answers with no audio, or with audio nobody listens to.
CaptureNothing ==
  /\ capture.pc = "reading"
  /\ capture' = [pc |-> "idle", tag |-> None]
  /\ UNCHANGED <<atoms, resources, rings, pending, ann, control, playback, send, rtc,
                 session, heard, cut, bounds>>

CaptureRead ==
  /\ capture.pc = "reading" /\ devices = "started" /\ rtcConnected
  /\ capture' = [capture EXCEPT !.pc = "writing"]
  /\ UNCHANGED <<atoms, resources, rings, pending, ann, control, playback, send, rtc,
                 session, heard, cut, bounds>>

CaptureWrite ==
  /\ capture.pc = "writing"
  /\ capRing' = IF Len(capRing) < CapCapacity THEN Append(capRing, capture.tag) ELSE capRing
  /\ capture' = [pc |-> "idle", tag |-> None]
  /\ UNCHANGED <<atoms, resources, pbRing, refRing, pending, ann, control, playback, send,
                 rtc, session, heard, cut, bounds>>

-----------------------------------------------------------------------------
(* The playback worker: choose between prompt and remote audio, write.     *)

PlaybackBegin ==
  /\ TimerFires("playback")
  /\ playback' = [playback EXCEPT !.pc = "begun", !.gen = ann.gen, !.losses = losses]
  /\ UNCHANGED <<atoms, resources, rings, pending, ann, control, capture, send, rtc,
                 session, heard, cut, bounds>>

\* A frame of the published prompt that is given up is cut from it.
OfPrompt == pending.source = "prompt" /\ pending.gen = ann.gen
CutPending == cut' = IF OfPrompt THEN cut \cup {pending.no} ELSE cut

\* What is buffered is stale when the link was cut or the prompt replaced; and a prompt
\* wins over remote audio already buffered.
PlaybackClear ==
  /\ playback.pc = "begun"
  /\ LET stale == clearPb \/ pending.gen # playback.gen
     IN /\ pbRing' = IF stale \/ Active THEN <<>> ELSE pbRing
        /\ pending' = IF stale THEN Nothing(playback.gen)
                      ELSE IF Active /\ pending.source = "rtc" THEN Nothing(pending.gen)
                      ELSE pending
  /\ IF clearPb THEN CutPending ELSE UNCHANGED cut
  /\ clearPb' = FALSE
  /\ playback' = [playback EXCEPT !.pc = "prepare", !.active = Active]
  /\ UNCHANGED <<running, rtcConnected, resources, capRing, refRing, ann, control, capture,
                 send, rtc, session, heard, bounds>>

\* Mutant: the PCM is labelled with the generation the pass began with
PassGeneration == playback.gen

\* The generation mybot_announce_read_pcm returns with the PCM.
ReadGeneration == ann.gen

\* prepare_pending_playback with a prompt: PCM and its generation are read together.
\* The stop of the prompt since PlaybackClear leaves nothing to read.
PreparePrompt ==
  /\ playback.active /\ pending.left = 0
  /\ IF Active
     THEN /\ pending' = [source |-> "prompt", gen |-> ReadGeneration, left |-> FrameUnits,
                         no |-> PromptFrames - ann.left + 1]
          /\ ann' = [ann EXCEPT !.left = @ - 1]
          /\ playback' = [playback EXCEPT !.pc = "authorise"]
     ELSE /\ pending' = Nothing(ann.gen)
          /\ playback' = [playback EXCEPT !.pc = "idle"]
          /\ UNCHANGED ann
  /\ UNCHANGED pbRing

\* prepare_pending_playback with remote audio, as of the generation the pass began with.
PrepareRemote ==
  /\ ~playback.active /\ pending.left = 0
  /\ IF pbRing # <<>>
     THEN /\ pending' = [source |-> "rtc", gen |-> playback.gen, left |-> FrameUnits,
                         tag |-> Head(pbRing)]
          /\ pbRing' = Tail(pbRing)
          /\ playback' = [playback EXCEPT !.pc = "authorise"]
     ELSE /\ playback' = [playback EXCEPT !.pc = "idle"]
          /\ UNCHANGED <<pbRing, pending>>
  /\ UNCHANGED ann

KeepPending ==
  /\ pending.left > 0
  /\ playback' = [playback EXCEPT !.pc = "authorise"]
  /\ UNCHANGED <<pbRing, pending, ann>>

PlaybackPrepare ==
  /\ playback.pc = "prepare"
  /\ KeepPending \/ PreparePrompt \/ PrepareRemote
  /\ UNCHANGED <<atoms, resources, capRing, refRing, control, capture, send, rtc,
                 session, heard, cut, bounds>>

\* Remote audio is written only if its copy for echo cancellation will fit.
ReferenceRoom == pending.source = "rtc" => Len(refRing) + pending.left <= RefCapacity

\* The generation is compared again just before the device is called.
PlaybackAuthorise ==
  /\ playback.pc = "authorise"
  /\ IF ReferenceRoom /\ ann.gen # pending.gen
     THEN pending' = Nothing(pending.gen) ELSE UNCHANGED pending
  /\ playback' = [playback EXCEPT
                    !.pc = IF ReferenceRoom /\ ann.gen = pending.gen THEN "writing" ELSE "idle"]
  /\ UNCHANGED <<atoms, resources, rings, ann, control, capture, send, rtc,
                 session, heard, cut, bounds>>

\* The device took n units, or failed (n < 0); it takes none once stopped.
PlaybackWritten(n) ==
  /\ playback.pc = "writing"
  /\ n <= pending.left /\ (devices = "started" \/ n < 0)
  /\ LET ref == [i \in 1..n |-> pending.tag]
         fits == Len(refRing) + n <= RefCapacity
     IN IF n > 0 /\ pending.source = "rtc"
        THEN /\ refRing' = IF fits THEN refRing \o ref ELSE refRing
             /\ rtcConnected' = (rtcConnected /\ fits)
        ELSE UNCHANGED <<refRing, rtcConnected>>
  /\ pending' = IF n < 0 \/ n = pending.left \/ ann.gen # pending.gen
                THEN Nothing(pending.gen) ELSE [pending EXCEPT !.left = @ - n]
  /\ heard' = IF OfPrompt /\ n = pending.left THEN heard \cup {pending.no} ELSE heard
  /\ IF n < 0 THEN CutPending ELSE UNCHANGED cut
  /\ playback' = [playback EXCEPT !.pc = "idle"]
  /\ UNCHANGED <<running, clearPb, resources, capRing, pbRing, ann, control, capture, send,
                 rtc, session, bounds>>

-----------------------------------------------------------------------------
(* The send worker: a frame and its reference go to the RTC worker, whose  *)
(* answer it waits for.                                                    *)

SendBegin ==
  /\ TimerFires("send") /\ rtcConnected /\ capRing # <<>>
  /\ LET whole == Len(refRing) >= FrameUnits
     IN /\ send' = [pc |-> "sending", frame |-> Head(capRing),
                    ref |-> IF whole THEN {refRing[i] : i \in 1..FrameUnits} ELSE {}]
        /\ refRing' = IF whole THEN SubSeq(refRing, FrameUnits + 1, Len(refRing)) ELSE refRing
  /\ capRing' = Tail(capRing)
  /\ UNCHANGED <<atoms, resources, pbRing, pending, ann, control, capture, playback, rtc,
                 session, heard, cut, bounds>>

\* mybot_agora_rtc_send_audio is a call to the RTC worker.
SendDone ==
  /\ send.pc = "sending" /\ rtc.pc = "idle"
  /\ send' = [pc |-> "idle", frame |-> None, ref |-> {}]
  /\ UNCHANGED <<atoms, resources, rings, pending, ann, control, capture, playback, rtc,
                 session, heard, cut, bounds>>

-----------------------------------------------------------------------------
(* The RTC worker.                                                         *)

\* Mutant: only the connected flag is written
SetRtcConnectedOnly(c) ==
  /\ rtcConnected' = c
  /\ clearPb' = clearPb

\* mybot_media_pipeline_set_rtc_connected: a cut makes buffered remote audio stale.
SetRtcConnected(c) ==
  /\ rtcConnected' = c
  /\ clearPb' = (clearPb \/ ~c)

RtcConnects ==
  /\ rtc.pc = "idle" /\ rtc.session # None /\ ~rtc.connected
  /\ rtc' = [rtc EXCEPT !.connected = TRUE]
  /\ SetRtcConnected(TRUE)
  /\ UNCHANGED <<running, resources, rings, pending, ann, control, capture, playback, send,
                 session, heard, cut, bounds>>

RtcLoses ==
  /\ rtc.pc = "idle" /\ rtc.connected /\ MoreMishaps
  /\ rtc' = [rtc EXCEPT !.connected = FALSE]
  /\ SetRtcConnected(FALSE)
  /\ losses' = losses + 1
  /\ UNCHANGED <<running, resources, rings, pending, ann, control, capture, playback, send,
                 session, heard, cut, faults, runs>>

\* mybot_media_pipeline_push_remote_audio: the guards, then the ring.
PushBegin ==
  /\ rtc.pc = "idle" /\ rtc.session # None
  /\ running /\ rtcConnected /\ ~clearPb /\ ~Active
  /\ rtc' = [rtc EXCEPT !.pc = "pushing"]
  /\ UNCHANGED <<atoms, resources, rings, pending, ann, control, capture, playback, send,
                 session, heard, cut, bounds>>

PushWrite ==
  /\ rtc.pc = "pushing"
  /\ rtc' = [rtc EXCEPT !.pc = "idle"]
  /\ pbRing' = IF Len(pbRing) < PbCapacity
               THEN Append(pbRing, [session |-> rtc.session, losses |-> losses]) ELSE pbRing
  /\ UNCHANGED <<atoms, resources, capRing, refRing, pending, ann, control, capture,
                 playback, send, session, heard, cut, bounds>>

-----------------------------------------------------------------------------
(* The control worker.                                                     *)

\* The flush of a conversation calls each worker in turn and waits for its answer;
\* the call to the capture worker only waits for a read under way.
FlushOrder == <<"capture", "playback", "send">>

\* Mutant: the capture worker is not waited for
FlushWithoutBarrier(next) ==
  /\ owner' = next /\ calls' = <<"playback", "send">> /\ flushOk' = TRUE

BeginFlush(next) ==
  /\ owner' = next /\ calls' = FlushOrder /\ flushOk' = TRUE

\* What the called worker does, between two of its timers.
FlushEffect(w) ==
  CASE w = "capture"  -> UNCHANGED <<clearPb, rings, pending, cut>>
    [] w = "playback" -> /\ pbRing' = <<>> /\ pending' = Nothing(ann.gen)
                         /\ clearPb' = FALSE /\ CutPending
                         /\ UNCHANGED <<capRing, refRing>>
    [] w = "send"     -> /\ capRing' = <<>> /\ refRing' = <<>>
                         /\ UNCHANGED <<clearPb, pbRing, pending, cut>>

Flushing == owner \in {"flushStart", "flushEnd"} /\ calls # <<>>

FlushCall ==
  /\ Flushing
  /\ IF Head(calls) \in handles
     THEN WorkerIdle(Head(calls)) /\ FlushEffect(Head(calls))
     ELSE UNCHANGED <<clearPb, rings, pending, cut>>
  /\ calls' = Tail(calls)
  /\ UNCHANGED <<running, rtcConnected, resources, ann, owner, flushOk, conv, capture,
                 playback, send, rtc, session, heard, bounds>>

\* A call that could not be made fails the flush, which goes on.
FlushCallFails ==
  /\ Flushing /\ Head(calls) \in handles /\ MoreMishaps
  /\ faults' = faults + 1 /\ calls' = Tail(calls) /\ flushOk' = FALSE
  /\ UNCHANGED <<atoms, resources, rings, pending, ann, owner, conv, capture, playback,
                 send, rtc, session, heard, cut, losses, runs>>

\* mybot_media_pipeline_start: it may fail with any of its workers already at work.
MediaStart(ws) ==
  /\ owner = "off" /\ runs < MaxRuns
  /\ runs' = runs + 1
  /\ running' = TRUE /\ rtcConnected' = FALSE /\ clearPb' = FALSE
  /\ devices' = "started" /\ handles' = ws /\ stopComplete' = FALSE /\ buffers' = TRUE
  /\ pending' = Nothing(0) /\ ann' = NoPrompt /\ heard' = {} /\ cut' = {}
  /\ owner' = IF ws = Workers THEN "ready" ELSE "stop"
  /\ UNCHANGED <<rings, calls, flushOk, conv, capture, playback, send, rtc, session,
                 losses, faults>>

\* Publication of a prompt, or of none: the generation moves with the queue.
SetPrompt(frames) ==
  /\ ann' = [gen |-> ann.gen + 1, left |-> frames]
  /\ heard' = {} /\ cut' = {}

PlayPrompt ==
  /\ owner = "ready" /\ ann.gen < MaxPrompts /\ MoreMoves
  /\ SetPrompt(PromptFrames)
  /\ UNCHANGED <<atoms, resources, rings, pending, control, capture, playback, send, rtc,
                 session, bounds>>

StopPrompt ==
  /\ owner = "ready" /\ ann.gen < MaxPrompts /\ MoreMoves
  /\ SetPrompt(0)
  /\ UNCHANGED <<atoms, resources, rings, pending, control, capture, playback, send, rtc,
                 session, bounds>>

\* dev_on_conversation_start
StartConversation ==
  /\ owner = "ready" /\ ~conv /\ session < MaxSessions /\ MoreMoves
  /\ session' = session + 1 /\ conv' = TRUE
  /\ BeginFlush("flushStart")
  /\ UNCHANGED <<atoms, resources, rings, pending, ann, capture, playback, send, rtc,
                 heard, cut, bounds>>

\* A failed flush ends the start; a join may fail as well.
Join(ok) ==
  /\ owner = "flushStart" /\ calls = <<>>
  /\ owner' = "ready"
  /\ rtc' = IF flushOk /\ ok THEN [rtc EXCEPT !.session = session] ELSE rtc
  /\ UNCHANGED <<atoms, resources, rings, pending, ann, calls, flushOk, conv, capture,
                 playback, send, session, heard, cut, bounds>>

StopConversation ==
  /\ owner = "ready" /\ conv
  /\ owner' = "leave"
  /\ UNCHANGED <<atoms, resources, rings, pending, ann, calls, flushOk, conv, capture,
                 playback, send, rtc, session, heard, cut, bounds>>

\* rtc_leave is a call to the RTC worker, which reports the end of a live session.
Leave ==
  /\ owner = "leave" /\ rtc.pc = "idle"
  /\ rtc' = [pc |-> "idle", session |-> None, connected |-> FALSE]
  /\ IF rtc.session # None THEN SetRtcConnected(FALSE) ELSE UNCHANGED <<rtcConnected, clearPb>>
  /\ owner' = "end"
  /\ UNCHANGED <<running, resources, rings, pending, ann, calls, flushOk, conv, capture,
                 playback, send, session, heard, cut, bounds>>

\* mybot_media_pipeline_end_session
EndSession ==
  /\ owner = "end"
  /\ SetRtcConnected(FALSE)
  /\ BeginFlush("flushEnd")
  /\ UNCHANGED <<running, resources, rings, pending, ann, conv, capture, playback, send, rtc,
                 session, heard, cut, bounds>>

\* The end of a shutdown's conversation goes on with the shutdown.
Ended ==
  /\ owner = "flushEnd" /\ calls = <<>>
  /\ conv' = FALSE
  /\ owner' = IF running THEN "ready" ELSE "fini"
  /\ UNCHANGED <<atoms, resources, rings, pending, ann, calls, flushOk, capture, playback,
                 send, rtc, session, heard, cut, bounds>>

StopOrder == <<"send", "capture", "playback">>

Shutdown ==
  /\ owner = "ready"
  /\ owner' = "stop"
  /\ UNCHANGED <<atoms, resources, rings, pending, ann, calls, flushOk, conv, capture,
                 playback, send, rtc, session, heard, cut, bounds>>

\* Mutant: the devices are left running until the workers have gone
StopDevicesLater ==
  /\ owner = "stop"
  /\ running' = FALSE /\ rtcConnected' = FALSE
  /\ devices' = devices
  /\ owner' = "waitWorkers" /\ calls' = StopOrder
  /\ UNCHANGED <<clearPb, handles, stopComplete, buffers, rings, pending, ann, flushOk, conv,
                 capture, playback, send, rtc, session, heard, cut, bounds>>

\* mybot_media_pipeline_stop interrupts the devices before it waits for any worker.
StopDevices ==
  /\ owner = "stop"
  /\ running' = FALSE /\ rtcConnected' = FALSE
  /\ devices' = "stopped"
  /\ owner' = "waitWorkers" /\ calls' = StopOrder
  /\ UNCHANGED <<clearPb, handles, stopComplete, buffers, rings, pending, ann, flushOk, conv,
                 capture, playback, send, rtc, session, heard, cut, bounds>>

StopWorker ==
  /\ owner = "waitWorkers" /\ calls # <<>>
  /\ Head(calls) \in handles => WorkerIdle(Head(calls))
  /\ handles' = handles \ {Head(calls)} /\ calls' = Tail(calls)
  /\ UNCHANGED <<atoms, devices, stopComplete, buffers, rings, pending, ann, owner, flushOk,
                 conv, capture, playback, send, rtc, session, heard, cut, bounds>>

\* Mutant: the pipeline is destroyed as soon as it has stopped
AfterStopDestroy == "destroy"

\* The RTC session outlives the audio devices: it is left and finished next.
AfterStop == IF conv THEN "leave" ELSE "fini"

\* A worker that does not go away keeps everything allocated.
StopWorkerFails ==
  /\ owner = "waitWorkers" /\ calls # <<>> /\ Head(calls) \in handles /\ MoreMishaps
  /\ faults' = faults + 1
  /\ owner' = AfterStop /\ calls' = <<>>
  /\ UNCHANGED <<atoms, resources, rings, pending, ann, flushOk, conv, capture, playback,
                 send, rtc, session, heard, cut, losses, runs>>

StopRelease ==
  /\ owner = "waitWorkers" /\ calls = <<>>
  /\ SetPrompt(0)
  /\ devices' = "none" /\ stopComplete' = TRUE
  /\ owner' = AfterStop
  /\ UNCHANGED <<atoms, handles, buffers, rings, pending, calls, flushOk, conv, capture,
                 playback, send, rtc, session, bounds>>

\* mybot_agora_rtc_fini returns when the RTC worker is gone.
Fini ==
  /\ owner = "fini" /\ rtc.pc = "idle"
  /\ rtc' = [pc |-> "idle", session |-> None, connected |-> FALSE]
  /\ owner' = "destroy"
  /\ UNCHANGED <<atoms, resources, rings, pending, ann, calls, flushOk, conv, capture,
                 playback, send, session, heard, cut, bounds>>

Destroy ==
  /\ owner = "destroy"
  /\ IF stopComplete
     THEN /\ buffers' = FALSE /\ owner' = "off"
          /\ capRing' = <<>> /\ pbRing' = <<>> /\ refRing' = <<>>
     ELSE owner' = "retained" /\ UNCHANGED <<buffers, rings>>
  /\ UNCHANGED <<atoms, devices, handles, stopComplete, pending, ann, calls, flushOk, conv,
                 capture, playback, send, rtc, session, heard, cut, bounds>>

-----------------------------------------------------------------------------
OwnerStep ==
  \/ FlushCall \/ Leave \/ EndSession \/ Ended \/ StopDevices \/ StopWorker
  \/ StopRelease \/ Fini \/ Destroy \/ \E ok \in BOOLEAN : Join(ok)
OwnerChoice ==
  \/ \E ws \in SUBSET Workers : MediaStart(ws)
  \/ FlushCallFails \/ StopWorkerFails
  \/ PlayPrompt \/ StopPrompt \/ StartConversation \/ StopConversation \/ Shutdown
PlaybackPass == PlaybackClear \/ PlaybackPrepare \/ PlaybackAuthorise
Device == CaptureNothing \/ CaptureRead \/ \E n \in -1..FrameUnits : PlaybackWritten(n)
RtcStep == RtcConnects \/ RtcLoses \/ PushBegin

Next ==
  \/ OwnerStep \/ OwnerChoice \/ PlaybackPass \/ Device \/ RtcStep
  \/ CaptureBegin \/ CaptureWrite \/ PlaybackBegin \/ SendBegin \/ SendDone \/ PushWrite

Spec == Init /\ [][Next]_vars

\* The threads run; of the devices only that they return once they are stopped.
Fairness ==
  /\ WF_vars(OwnerStep) /\ WF_vars(PlaybackPass)
  /\ WF_vars(CaptureWrite) /\ WF_vars(PushWrite) /\ SF_vars(SendDone)
  /\ WF_vars(devices = "stopped" /\ CaptureNothing)
  /\ WF_vars(devices = "stopped" /\ PlaybackWritten(-1))

FairSpec == Spec /\ Fairness

-----------------------------------------------------------------------------
\* What the send worker offers the RTC worker while a conversation is joined was
\* recorded in that conversation, and so was what it is to cancel from it: neither a
\* read of the device that took longer than the end of the last conversation, nor a
\* flush one of whose calls failed, lets audio cross over.
SentAudioIsCurrent ==
  send.pc = "sending" /\ rtc.session # None =>
    /\ send.frame = rtc.session
    /\ \A tag \in send.ref : tag.session = rtc.session

\* Remote audio given to the device is of the conversation joined, and was received
\* after the last loss of the link that precedes the present pass of the playback timer.
PlayedAudioIsCurrent ==
  playback.pc = "writing" /\ pending.source = "rtc" =>
    /\ pending.tag.losses >= playback.losses
    /\ rtc.session # None => pending.tag.session = rtc.session

\* The frames of the published prompt reach the device in their order: before a frame is
\* played each one before it was taken whole by the device or cut, and it was neither itself.
\* Replacing a prompt never costs the new one its start, however the replacement falls in
\* a pass of the playback timer, and a frame the device refused or took in part is not
\* passed over.
PromptIsWhole ==
  playback.pc = "writing" /\ OfPrompt => heard \cup cut = 1 .. pending.no - 1

\* No thread is inside a device that was destroyed, or on its way into a ring or the
\* prompt queue after these were freed.
NothingReleasedInUse ==
  /\ capture.pc = "reading" \/ playback.pc = "writing" => devices # "none"
  /\ \/ capture.pc # "idle" \/ playback.pc # "idle" \/ send.pc # "idle"
     \/ rtc.pc # "idle"
     => buffers

\* A shutdown ends, whatever a device call was doing when it began.
ShutdownEnds == owner = "stop" ~> owner \in {"off", "retained"}
=============================================================================
