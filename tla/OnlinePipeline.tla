--------------------------- MODULE OnlinePipeline ---------------------------
(***************************************************************************)
(* The single preview pipeline of demo/online_pipeline_test.c              *)
(* (single_pipeline_online_test): the sensor feeds the VI unit, VI fills   *)
(* buffers, the ISP delivers one frame-info record per frame, a processing *)
(* thread pairs the two and posts the buffer with an output buffer to the  *)
(* CPP engine, and the CPP hands both back.                                *)
(*                                                                         *)
(* Five activities interleave: the main thread (set-up, streaming,         *)
(* stop, tear-down), the processing thread (testThreadFunc) and the three  *)
(* library threads that run vi_buffer_callback, isp_buffer_callback and    *)
(* cpp_buffer_callback.  A callback reads streamOnFlags once, on entry,    *)
(* and acts on what it read in a later step.                               *)
(*                                                                         *)
(* VI, ISP and CPP are libraries outside the repository.  What the code    *)
(* takes from them: a stop call returns once the callback in progress has  *)
(* returned and gives up the buffers still queued; a CPP that is stopped   *)
(* rejects what is posted to it; a de-init call stops all callbacks.       *)
(***************************************************************************)
EXTENDS Integers, Sequences, FiniteSets, SequencesExt

CONSTANTS ViBufs,       \* buffers of vi_out_buffer_pool (MAX_BUFFER_NUM of them)
          CppBufs,      \* buffers of cpp_out_buffer_pool
          NumInfo,      \* frame-info buffers queued to the ISP (MAX_BUFFER_NUM)
          AutoRun,      \* config->autoRun: one timed session, no keyboard
          TestFrame,    \* config->testFrame: the frame that ends an automatic run
          DumpFrame,    \* config->dumpFrame: the frame whose raw image is dumped
          MaxFrame,     \* bound: frames the sensor produces in a session
          MaxSessions,  \* bound: streaming sessions the operator runs
          NULL          \* no object

ASSUME PipelineAssumption ==
    /\ AutoRun \in BOOLEAN
    /\ NumInfo \in Nat /\ MaxFrame \in Nat /\ MaxSessions \in Nat
    /\ TestFrame \in Nat /\ DumpFrame \in Nat
    /\ NULL \notin ViBufs \cup CppBufs \cup Nat

VARIABLES
    main,           \* next step of single_pipeline_online_test
    streamOnFlag,   \* streamOnFlags[pipelineId]
    autoRunDone,    \* testAutoRunCond[pipelineId].done
    sessions,       \* streaming sessions completed (test_buffer_reset calls)
    viOn, ispOn, cppOn,     \* external: which units are streaming
    frame, ispFrame,        \* external: last frame VI and ISP have begun to report
    viPool, cppPool,        \* buf_list of the two output pools
    rawPool, rawQueue,      \* the one raw-dump buffer: in its pool, in the raw channel
    viQueue,        \* external: buffers queued to the VI channel
    infoQueue,      \* external: number of frame-info buffers queued to the ISP
    cppIn, cppOut,  \* external: input and output buffers the CPP holds
    viLost,         \* VI buffers no list, unit or thread refers to any more
    vi_out_list, isp_out_list, cpp_out_list,
    viCb, ispCb, cppCb,     \* the three callbacks: program counter and arguments
    proc,           \* the processing thread: program counter and locals
    threadRunning,  \* pipelineProcThread[pipelineId].threadRunning
    listsAlive      \* the lists and pools exist (test_buffer_deInit not run yet)

ctlVars    == <<autoRunDone, sessions, listsAlive, streamOnFlag>>
unitVars   == <<viOn, ispOn, cppOn, frame, ispFrame>>
poolVars   == <<viPool, cppPool, rawPool>>
queueVars  == <<viQueue, rawQueue, infoQueue, cppIn, cppOut, viLost>>
listVars   == <<vi_out_list, isp_out_list, cpp_out_list>>
cbVars     == <<viCb, ispCb, cppCb>>
threadVars == <<proc, threadRunning>>
vars == <<main, ctlVars, unitVars, poolVars, queueVars, listVars, cbVars, threadVars>>

Frames  == 1 .. MaxFrame
ViInfo  == [buffer : ViBufs, frameId : Frames]     \* spmVI_BUFFER_INFO_S
MainPcs == {"ready", "prepared", "cppStarted", "sensorOn", "streaming", "stopping",
            "viOff", "ispFlushed", "ispOff", "cppOff", "quit", "joining", "joined", "viDown",
            "freed", "done"}

NoVi  == [pc |-> "idle", buffer |-> NULL, frameId |-> 0]
NoIsp == [pc |-> "idle", frameId |-> 0]
NoCpp == [pc |-> "idle", chn |-> 0, buffer |-> NULL]

Init ==
    /\ main = "ready" /\ autoRunDone = FALSE /\ sessions = 0 /\ listsAlive = TRUE
    /\ streamOnFlag = 0
    /\ viOn = FALSE /\ ispOn = FALSE /\ cppOn = FALSE
    /\ frame = 0 /\ ispFrame = 0
    /\ viPool = ViBufs /\ cppPool = CppBufs
    /\ rawPool = TRUE /\ rawQueue = FALSE
    /\ viQueue = {} /\ infoQueue = 0 /\ cppIn = {} /\ cppOut = {} /\ viLost = {}
    /\ vi_out_list = <<>> /\ isp_out_list = <<>> /\ cpp_out_list = {}
    /\ viCb = NoVi /\ ispCb = NoIsp /\ cppCb = NoCpp
    /\ proc = [pc |-> "start", vi |-> NULL, isp |-> NULL, out |-> NULL]
    /\ threadRunning = 0

-----------------------------------------------------------------------------
(* The main thread.                                                        *)

(* The operator alternates 's' and 'c' and quits at any prompt; an automatic run
   starts one session. *)
MayStart == IF AutoRun THEN sessions = 0 ELSE sessions < MaxSessions

(* test_buffer_prepare: every pooled buffer goes to VI, every frame-info buffer
   to the ISP, every pooled output buffer to cpp_out_list.  A list created
   without repeats ignores an item it already holds, so it is a set here. *)
TestBufferPrepare ==
    /\ main = "ready" /\ MayStart
    /\ viQueue' = viQueue \cup viPool /\ viPool' = {}
    /\ infoQueue' = infoQueue + NumInfo
    /\ cpp_out_list' = cpp_out_list \cup cppPool /\ cppPool' = {}
    /\ main' = "prepared"
    /\ UNCHANGED <<ctlVars, unitVars, rawPool, rawQueue, cppIn, cppOut, viLost,
                   vi_out_list, isp_out_list, cbVars, threadVars>>

CppStart ==
    /\ main = "prepared"
    /\ cppOn' = TRUE
    /\ main' = "cppStarted"
    /\ UNCHANGED <<ctlVars, viOn, ispOn, frame, ispFrame, poolVars, queueVars, listVars,
                   cbVars, threadVars>>

(* viisp_vi_online_streamOn, viisp_isp_streamOn, testSensorStart: frames come
   from here on, numbered from 1, although streamOnFlags is still 0. *)
StreamOn ==
    /\ main = "cppStarted"
    /\ viOn' = TRUE /\ ispOn' = TRUE
    /\ frame' = 0 /\ ispFrame' = 0
    /\ main' = "sensorOn"
    /\ UNCHANGED <<ctlVars, cppOn, poolVars, queueVars, listVars, cbVars, threadVars>>

SetStreamOnFlag ==
    /\ main = "sensorOn"
    /\ streamOnFlag' = 1
    /\ main' = "streaming"
    /\ UNCHANGED <<autoRunDone, sessions, listsAlive, unitVars, poolVars, queueVars,
                   listVars, cbVars, threadVars>>

(* Key 'r': a raw buffer is taken from its pool and queued to the raw channel.
   The operator asks for a raw frame only when the last one is back. *)
DumpRawKey ==
    /\ main = "streaming" /\ ~AutoRun /\ rawPool
    /\ rawPool' = FALSE /\ rawQueue' = TRUE
    /\ UNCHANGED <<main, ctlVars, unitVars, viPool, cppPool, viQueue, infoQueue, cppIn,
                   cppOut, viLost, listVars, cbVars, threadVars>>

(* condition_wait(&testAutoRunCond) returns, or key 'c': streamOnFlags = 0. *)
ClearStreamOnFlag ==
    /\ main = "streaming"
    /\ AutoRun => autoRunDone
    /\ autoRunDone' = FALSE
    /\ streamOnFlag' = 0
    /\ main' = "stopping"
    /\ UNCHANGED <<sessions, listsAlive, unitVars, poolVars, queueVars, listVars,
                   cbVars, threadVars>>

(* viisp_vi_online_streamOff: the channel is disabled and flushed. *)
ViStreamOff ==
    /\ main = "stopping" /\ viCb.pc = "idle"
    /\ viOn' = FALSE
    /\ viQueue' = {} /\ viLost' = viLost \cup viQueue
    /\ rawQueue' = FALSE
    /\ main' = "viOff"
    /\ UNCHANGED <<ctlVars, ispOn, cppOn, frame, ispFrame, poolVars, infoQueue, cppIn,
                   cppOut, listVars, cbVars, threadVars>>

(* testSensorStop; viisp_isp_streamOff first flushes the frame-info queue, and a
   callback still running may put its buffer back behind the flush ... *)
IspFlush ==
    /\ main = "viOff"
    /\ infoQueue' = 0
    /\ main' = "ispFlushed"
    /\ UNCHANGED <<ctlVars, unitVars, poolVars, viQueue, rawQueue, cppIn, cppOut, viLost,
                   listVars, cbVars, threadVars>>

(* ... then stops the ISP. *)
IspStreamOff ==
    /\ main = "ispFlushed" /\ ispCb.pc = "idle"
    /\ ispOn' = FALSE
    /\ main' = "ispOff"
    /\ UNCHANGED <<ctlVars, viOn, cppOn, frame, ispFrame, poolVars, queueVars, listVars,
                   cbVars, threadVars>>

CppStop ==
    /\ main = "ispOff" /\ cppCb.pc = "idle"
    /\ cppOn' = FALSE
    /\ cppIn' = {} /\ cppOut' = {} /\ viLost' = viLost \cup cppIn
    /\ main' = "cppOff"
    /\ UNCHANGED <<ctlVars, viOn, ispOn, frame, ispFrame, poolVars, viQueue, rawQueue,
                   infoQueue, listVars, cbVars, threadVars>>

(* test_buffer_reset: both pools are refilled with every buffer; vi_out_list,
   isp_out_list and cpp_out_list are left as they are. *)
TestBufferReset ==
    /\ main = "cppOff"
    /\ viPool' = ViBufs /\ cppPool' = CppBufs
    /\ viLost' = {}
    /\ sessions' = sessions + 1
    /\ main' = IF AutoRun THEN "quit" ELSE "ready"
    /\ UNCHANGED <<autoRunDone, listsAlive, streamOnFlag, unitVars, rawPool, viQueue,
                   rawQueue, infoQueue, cppIn, cppOut, listVars, cbVars, threadVars>>

(* Key 'q', possibly while frames are streaming. *)
QuitKey ==
    /\ main \in {"ready", "streaming"} /\ ~AutoRun
    /\ main' = "quit"
    /\ UNCHANGED <<ctlVars, unitVars, poolVars, queueVars, listVars, cbVars,
                   threadVars>>

(* Mutant: the thread is woken and not told to stop. *)
ProcThreadDeinitNoFlag ==
    /\ main = "quit"
    /\ main' = "joining"
    /\ UNCHANGED <<ctlVars, unitVars, poolVars, queueVars, listVars, cbVars, threadVars>>

(* ProcThreadDeinit: threadRunning = 0, wake the thread ... *)
ProcThreadDeinit ==
    /\ main = "quit"
    /\ threadRunning' = 0
    /\ main' = "joining"
    /\ UNCHANGED <<ctlVars, unitVars, poolVars, queueVars, listVars, cbVars, proc>>

(* Mutant: the thread is not joined. *)
ProcThreadNotJoined ==
    /\ main = "joining"
    /\ main' = "joined"
    /\ UNCHANGED <<ctlVars, unitVars, poolVars, queueVars, listVars, cbVars, threadVars>>

(* ... and pthread_join it. *)
ProcThreadJoin ==
    /\ main = "joining" /\ proc.pc = "exited"
    /\ main' = "joined"
    /\ UNCHANGED <<ctlVars, unitVars, poolVars, queueVars, listVars, cbVars,
                   threadVars>>

(* viisp_isp_deinit, viisp_vi_deInit: no VI or ISP callback after this. *)
ViIspDeinit ==
    /\ main = "joined" /\ viCb.pc = "idle" /\ ispCb.pc = "idle"
    /\ viOn' = FALSE /\ ispOn' = FALSE
    /\ main' = "viDown"
    /\ UNCHANGED <<ctlVars, cppOn, frame, ispFrame, poolVars, queueVars, listVars,
                   cbVars, threadVars>>

(* test_buffer_deInit: the three lists are emptied and destroyed, the pools
   freed. *)
TestBufferDeInit ==
    /\ main = "viDown"
    /\ listsAlive' = FALSE
    /\ vi_out_list' = <<>> /\ isp_out_list' = <<>> /\ cpp_out_list' = {}
    /\ viPool' = {} /\ cppPool' = {} /\ rawPool' = FALSE
    /\ main' = "freed"
    /\ UNCHANGED <<autoRunDone, sessions, streamOnFlag, unitVars, queueVars, cbVars,
                   threadVars>>

CppDeInit ==
    /\ main = "freed" /\ cppCb.pc = "idle"
    /\ cppOn' = FALSE
    /\ main' = "done"
    /\ UNCHANGED <<ctlVars, viOn, ispOn, frame, ispFrame, poolVars, queueVars, listVars,
                   cbVars, threadVars>>

Main == \/ TestBufferPrepare \/ CppStart \/ StreamOn \/ SetStreamOnFlag \/ DumpRawKey
        \/ ClearStreamOnFlag \/ ViStreamOff \/ IspFlush \/ IspStreamOff \/ CppStop
        \/ TestBufferReset \/ QuitKey \/ ProcThreadDeinit \/ ProcThreadJoin
        \/ ViIspDeinit \/ TestBufferDeInit \/ CppDeInit

-----------------------------------------------------------------------------
(* The library threads.                                                    *)

(* VI completes a frame into a queued buffer and calls vi_buffer_callback. *)
ViDeliver(b) ==
    /\ viOn /\ frame < MaxFrame /\ viCb.pc = "idle" /\ b \in viQueue
    /\ frame' = frame + 1
    /\ viQueue' = viQueue \ {b}
    /\ viCb' = [pc |-> "enter", buffer |-> b, frameId |-> frame + 1]
    /\ UNCHANGED <<main, ctlVars, viOn, ispOn, cppOn, ispFrame, poolVars, rawQueue,
                   infoQueue, cppIn, cppOut, viLost, listVars, ispCb, cppCb,
                   threadVars>>

(* With no buffer queued the frame is dropped: no callback carries its number. *)
ViDropFrame ==
    /\ viOn /\ frame < MaxFrame /\ viCb.pc = "idle" /\ viQueue = {}
    /\ frame' = frame + 1
    /\ UNCHANGED <<main, ctlVars, viOn, ispOn, cppOn, ispFrame, poolVars, queueVars,
                   listVars, cbVars, threadVars>>

(* streamOnFlags is read; when it is 0 the callback returns and the buffer is
   in no list and no queue. *)
ViCbEnter ==
    /\ viCb.pc = "enter"
    /\ IF streamOnFlag = 0
       THEN viCb' = NoVi /\ viLost' = viLost \cup {viCb.buffer}
       ELSE viCb' = [viCb EXCEPT !.pc = "push"] /\ UNCHANGED viLost
    /\ UNCHANGED <<main, ctlVars, unitVars, poolVars, viQueue, rawQueue, infoQueue,
                   cppIn, cppOut, listVars, ispCb, cppCb, threadVars>>

(* Mutant: the image is queued to VI again at once, as the line commented out in
   vi_buffer_callback did. *)
ViCbPushRequeued ==
    /\ viCb.pc = "push"
    /\ vi_out_list' = Append(vi_out_list,
                             [buffer |-> viCb.buffer, frameId |-> viCb.frameId])
    /\ viQueue' = viQueue \cup {viCb.buffer}
    /\ viCb' = IF AutoRun THEN [viCb EXCEPT !.pc = "auto", !.buffer = NULL] ELSE NoVi
    /\ UNCHANGED <<main, ctlVars, unitVars, poolVars, rawQueue, infoQueue, cppIn, cppOut,
                   viLost, isp_out_list, cpp_out_list, ispCb, cppCb, threadVars>>

(* Mutant: the newest frame is put in front. *)
ViCbPushFront ==
    /\ viCb.pc = "push"
    /\ vi_out_list' = <<[buffer |-> viCb.buffer, frameId |-> viCb.frameId]>> \o vi_out_list
    /\ viCb' = IF AutoRun THEN [viCb EXCEPT !.pc = "auto", !.buffer = NULL] ELSE NoVi
    /\ UNCHANGED <<main, ctlVars, unitVars, poolVars, queueVars, isp_out_list,
                   cpp_out_list, ispCb, cppCb, threadVars>>

(* List_Push(vi_out_list), then the thread's condition is posted: its wait is
   timed and may return at any moment, so the post needs no state here. *)
ViCbPush ==
    /\ viCb.pc = "push"
    /\ vi_out_list' = Append(vi_out_list,
                             [buffer |-> viCb.buffer, frameId |-> viCb.frameId])
    /\ viCb' = IF AutoRun THEN [viCb EXCEPT !.pc = "auto", !.buffer = NULL] ELSE NoVi
    /\ UNCHANGED <<main, ctlVars, unitVars, poolVars, queueVars, isp_out_list,
                   cpp_out_list, ispCb, cppCb, threadVars>>

(* testAutoRunFlag: the test frame ends the run, the dump frame queues the raw
   buffer. *)
ViCbAutoRun ==
    /\ viCb.pc = "auto"
    /\ IF viCb.frameId = TestFrame
       THEN autoRunDone' = TRUE /\ streamOnFlag' = 0
       ELSE UNCHANGED <<autoRunDone, streamOnFlag>>
    /\ IF viCb.frameId = DumpFrame
       THEN rawPool' = FALSE /\ rawQueue' = (rawQueue \/ rawPool)
       ELSE UNCHANGED <<rawPool, rawQueue>>
    /\ viCb' = NoVi
    /\ UNCHANGED <<main, sessions, listsAlive, unitVars, viPool, cppPool, viQueue,
                   infoQueue, cppIn, cppOut, viLost, listVars, ispCb, cppCb,
                   threadVars>>

(* vi_rawdump_buffer_callback: the raw image is saved and the buffer put back
   into its pool. *)
RawDeliver ==
    /\ viOn /\ rawQueue
    /\ rawQueue' = FALSE /\ rawPool' = TRUE
    /\ UNCHANGED <<main, ctlVars, unitVars, viPool, cppPool, viQueue, infoQueue, cppIn,
                   cppOut, viLost, listVars, cbVars, threadVars>>

(* The ISP reports a frame VI has begun, or is one ahead of VI. *)
IspDeliver ==
    /\ ispOn /\ ispFrame < MaxFrame /\ ispFrame <= frame /\ ispCb.pc = "idle"
    /\ infoQueue > 0
    /\ ispFrame' = ispFrame + 1
    /\ infoQueue' = infoQueue - 1
    /\ ispCb' = [pc |-> "enter", frameId |-> ispFrame + 1]
    /\ UNCHANGED <<main, ctlVars, viOn, ispOn, cppOn, frame, poolVars, viQueue,
                   rawQueue, cppIn, cppOut, viLost, listVars, viCb, cppCb, threadVars>>

(* With no frame-info buffer queued the ISP skips the report. *)
IspDropFrame ==
    /\ ispOn /\ ispFrame < MaxFrame /\ ispFrame <= frame /\ ispCb.pc = "idle"
    /\ infoQueue = 0
    /\ ispFrame' = ispFrame + 1
    /\ UNCHANGED <<main, ctlVars, viOn, ispOn, cppOn, frame, poolVars, queueVars, listVars,
                   cbVars, threadVars>>

(* With streamOnFlags 0 the frame-info buffer is not queued again. *)
IspCbEnter ==
    /\ ispCb.pc = "enter"
    /\ ispCb' = IF streamOnFlag = 0 THEN NoIsp ELSE [ispCb EXCEPT !.pc = "push"]
    /\ UNCHANGED <<main, ctlVars, unitVars, poolVars, queueVars, listVars, viCb, cppCb,
                   threadVars>>

(* A copy of the frame info is pushed, the thread woken, the buffer queued
   again. *)
IspCbPush ==
    /\ ispCb.pc = "push"
    /\ isp_out_list' = Append(isp_out_list, ispCb.frameId)
    /\ infoQueue' = infoQueue + 1
    /\ ispCb' = NoIsp
    /\ UNCHANGED <<main, ctlVars, unitVars, poolVars, viQueue, rawQueue, cppIn, cppOut,
                   viLost, vi_out_list, cpp_out_list, viCb, cppCb, threadVars>>

(* The CPP is done with an input (chnId -1) or an output buffer (chnId 0). *)
CppDeliver(chn, b) ==
    /\ cppOn /\ cppCb.pc = "idle"
    /\ \/ chn = -1 /\ b \in cppIn /\ cppIn' = cppIn \ {b} /\ UNCHANGED cppOut
       \/ chn = 0 /\ b \in cppOut /\ cppOut' = cppOut \ {b} /\ UNCHANGED cppIn
    /\ cppCb' = [pc |-> "enter", chn |-> chn, buffer |-> b]
    /\ UNCHANGED <<main, ctlVars, unitVars, poolVars, viQueue, rawQueue, infoQueue,
                   viLost, listVars, viCb, ispCb, threadVars>>

CppCbEnter ==
    /\ cppCb.pc = "enter"
    /\ IF streamOnFlag = 0
       THEN /\ cppCb' = NoCpp
            /\ viLost' = viLost \cup (IF cppCb.chn = -1 THEN {cppCb.buffer} ELSE {})
       ELSE cppCb' = [cppCb EXCEPT !.pc = "body"] /\ UNCHANGED viLost
    /\ UNCHANGED <<main, ctlVars, unitVars, poolVars, viQueue, rawQueue, infoQueue,
                   cppIn, cppOut, listVars, viCb, ispCb, threadVars>>

(* Mutant: an input buffer is not queued to VI again. *)
CppCbReturnDropsInput ==
    /\ cppCb.pc = "body" /\ listsAlive
    /\ IF cppCb.chn = -1
       THEN viLost' = viLost \cup {cppCb.buffer} /\ UNCHANGED cpp_out_list
       ELSE cpp_out_list' = cpp_out_list \cup {cppCb.buffer} /\ UNCHANGED viLost
    /\ cppCb' = NoCpp
    /\ UNCHANGED <<main, ctlVars, unitVars, poolVars, rawQueue, infoQueue, cppIn, cppOut,
                   viQueue, vi_out_list, isp_out_list, viCb, ispCb, threadVars>>

(* Mutant: an output buffer is not pushed to cpp_out_list again. *)
CppCbReturnDropsOutput ==
    /\ cppCb.pc = "body" /\ listsAlive
    /\ viQueue' = viQueue \cup (IF cppCb.chn = -1 THEN {cppCb.buffer} ELSE {})
    /\ cppCb' = NoCpp
    /\ UNCHANGED <<main, ctlVars, unitVars, poolVars, rawQueue, infoQueue, cppIn, cppOut,
                   viLost, listVars, viCb, ispCb, threadVars>>

(* An input buffer goes straight back to VI, an output buffer to cpp_out_list.
   What the callback does to lists that are gone is not modelled: NoUseAfterFree
   says when it gets that far. *)
CppCbReturn ==
    /\ cppCb.pc = "body" /\ listsAlive
    /\ IF cppCb.chn = -1
       THEN viQueue' = viQueue \cup {cppCb.buffer} /\ UNCHANGED cpp_out_list
       ELSE cpp_out_list' = cpp_out_list \cup {cppCb.buffer} /\ UNCHANGED viQueue
    /\ cppCb' = NoCpp
    /\ UNCHANGED <<main, ctlVars, unitVars, poolVars, rawQueue, infoQueue, cppIn,
                   cppOut, viLost, vi_out_list, isp_out_list, viCb, ispCb, threadVars>>

Library == \/ \E b \in ViBufs : ViDeliver(b)
           \/ ViDropFrame \/ ViCbEnter \/ ViCbPush \/ ViCbAutoRun \/ RawDeliver
           \/ IspDeliver \/ IspDropFrame \/ IspCbEnter \/ IspCbPush
           \/ \E b \in ViBufs : CppDeliver(-1, b)
           \/ \E b \in CppBufs : CppDeliver(0, b)
           \/ CppCbEnter \/ CppCbReturn

-----------------------------------------------------------------------------
(* The processing thread, testThreadFunc.                                  *)

(* The thread announces itself, and overwrites whatever threadRunning held. *)
ProcStart ==
    /\ proc.pc = "start"
    /\ threadRunning' = 1
    /\ proc' = [proc EXCEPT !.pc = "wait"]
    /\ UNCHANGED <<main, ctlVars, unitVars, poolVars, queueVars, listVars, cbVars>>

(* condition_timedwait(1000) returns, posted or not. *)
ProcWake ==
    /\ proc.pc = "wait"
    /\ proc' = [proc EXCEPT !.pc = "check"]
    /\ UNCHANGED <<main, ctlVars, unitVars, poolVars, queueVars, listVars, cbVars,
                   threadRunning>>

(* Mutant: the output list is not looked at. *)
ProcCheckInfoOnly ==
    /\ proc.pc = "check"
    /\ proc' = [proc EXCEPT !.pc = IF isp_out_list # <<>> THEN "popVi" ELSE "loop"]
    /\ UNCHANGED <<main, ctlVars, unitVars, poolVars, queueVars, listVars, cbVars,
                   threadRunning>>

(* Nothing is taken from vi_out_list unless an output buffer and a frame info
   are there. *)
ProcCheck ==
    /\ proc.pc = "check"
    /\ proc' = [proc EXCEPT !.pc = IF cpp_out_list # {} /\ isp_out_list # <<>>
                                   THEN "popVi" ELSE "loop"]
    /\ UNCHANGED <<main, ctlVars, unitVars, poolVars, queueVars, listVars, cbVars,
                   threadRunning>>

(* Mutant: what List_Pop returned is not checked. *)
ProcPopViUnchecked ==
    /\ proc.pc = "popVi"
    /\ proc' = [proc EXCEPT !.pc = "match",
                            !.vi = IF vi_out_list = <<>> THEN NULL ELSE Head(vi_out_list)]
    /\ vi_out_list' = IF vi_out_list = <<>> THEN <<>> ELSE Tail(vi_out_list)
    /\ UNCHANGED <<main, ctlVars, unitVars, poolVars, queueVars, isp_out_list,
                   cpp_out_list, cbVars, threadRunning>>

ProcPopVi ==
    /\ proc.pc = "popVi"
    /\ IF vi_out_list = <<>>
       THEN proc' = [proc EXCEPT !.pc = "loop"] /\ UNCHANGED vi_out_list
       ELSE /\ proc' = [proc EXCEPT !.pc = "match", !.vi = Head(vi_out_list)]
            /\ vi_out_list' = Tail(vi_out_list)
    /\ UNCHANGED <<main, ctlVars, unitVars, poolVars, queueVars, isp_out_list,
                   cpp_out_list, cbVars, threadRunning>>

(* The info of the same frame, else the oldest one there is. *)
MatchInfo(fid) ==
    IF \E i \in DOMAIN isp_out_list : isp_out_list[i] = fid THEN fid
    ELSE IF isp_out_list = <<>> THEN NULL ELSE Head(isp_out_list)

ProcMatch ==
    /\ proc.pc = "match"
    /\ proc' = [proc EXCEPT !.pc = "popOut", !.isp = MatchInfo(proc.vi.frameId)]
    /\ UNCHANGED <<main, ctlVars, unitVars, poolVars, queueVars, listVars, cbVars,
                   threadRunning>>

(* Mutant: the output buffer is looked up and stays in the list. *)
ProcPopOutPeek ==
    /\ proc.pc = "popOut"
    /\ \E o \in cpp_out_list : proc' = [proc EXCEPT !.pc = "post", !.out = o]
    /\ UNCHANGED <<main, ctlVars, unitVars, poolVars, queueVars, listVars, cbVars,
                   threadRunning>>

ProcPopOut ==
    /\ proc.pc = "popOut"
    /\ IF cpp_out_list = {}
       THEN proc' = [proc EXCEPT !.pc = "post"] /\ UNCHANGED cpp_out_list
       ELSE \E o \in cpp_out_list :
              /\ proc' = [proc EXCEPT !.pc = "post", !.out = o]
              /\ cpp_out_list' = cpp_out_list \ {o}
    /\ UNCHANGED <<main, ctlVars, unitVars, poolVars, queueVars, vi_out_list,
                   isp_out_list, cbVars, threadRunning>>

(* cpp_post_buffer: refused without an output buffer and by a stopped CPP, and
   the result is ignored. *)
ProcPost ==
    /\ proc.pc = "post"
    /\ IF proc.out # NULL /\ cppOn
       THEN /\ cppIn' = cppIn \cup {proc.vi.buffer}
            /\ cppOut' = cppOut \cup {proc.out}
            /\ UNCHANGED viLost
       ELSE viLost' = viLost \cup {proc.vi.buffer} /\ UNCHANGED <<cppIn, cppOut>>
    /\ proc' = [proc EXCEPT !.pc = "erase", !.out = NULL]
    /\ UNCHANGED <<main, ctlVars, unitVars, poolVars, viQueue, rawQueue, infoQueue,
                   listVars, cbVars, threadRunning>>

(* List_EraseByItem.  Stale infos of an earlier session may carry the same
   number: which of them was found is up to the list's search. *)
EraseInfo(info) ==
    \E i \in DOMAIN isp_out_list :
      isp_out_list[i] = info /\ isp_out_list' = RemoveAt(isp_out_list, i)

(* Mutant: the info is used up whatever frame it belongs to. *)
ProcEraseAlways ==
    /\ proc.pc = "erase"
    /\ EraseInfo(proc.isp)
    /\ proc' = [proc EXCEPT !.pc = "loop", !.vi = NULL, !.isp = NULL]
    /\ UNCHANGED <<main, ctlVars, unitVars, poolVars, queueVars, vi_out_list,
                   cpp_out_list, cbVars, threadRunning>>

(* The info is used up unless it belongs to a later frame. *)
ProcErase ==
    /\ proc.pc = "erase"
    /\ IF proc.isp <= proc.vi.frameId THEN EraseInfo(proc.isp) ELSE UNCHANGED isp_out_list
    /\ proc' = [proc EXCEPT !.pc = "loop", !.vi = NULL, !.isp = NULL]
    /\ UNCHANGED <<main, ctlVars, unitVars, poolVars, queueVars, vi_out_list,
                   cpp_out_list, cbVars, threadRunning>>

ProcLoop ==
    /\ proc.pc = "loop"
    /\ proc' = [proc EXCEPT !.pc = IF threadRunning = 1 THEN "wait" ELSE "exited"]
    /\ UNCHANGED <<main, ctlVars, unitVars, poolVars, queueVars, listVars, cbVars,
                   threadRunning>>

Proc == \/ ProcStart \/ ProcWake \/ ProcCheck \/ ProcPopVi \/ ProcMatch \/ ProcPopOut
        \/ ProcPost \/ ProcErase \/ ProcLoop

-----------------------------------------------------------------------------
Next == Main \/ Library \/ Proc

Spec == Init /\ [][Next]_vars

(* The keys are the operator's; every other step of the main thread, the
   processing thread and a callback that has begun are scheduled by the system,
   and the CPP finishes what it was given. *)
MainRuns == \/ AutoRun /\ (TestBufferPrepare \/ ClearStreamOnFlag)
            \/ CppStart \/ StreamOn \/ SetStreamOnFlag \/ ViStreamOff \/ IspFlush
            \/ IspStreamOff \/ CppStop \/ TestBufferReset \/ ProcThreadDeinit
            \/ ProcThreadJoin \/ ViIspDeinit \/ TestBufferDeInit \/ CppDeInit

FairSpec == /\ Spec
            /\ WF_vars(MainRuns) /\ WF_vars(Proc)
            /\ WF_vars(ViCbEnter \/ ViCbPush \/ ViCbAutoRun)
            /\ WF_vars(IspCbEnter \/ IspCbPush)
            /\ WF_vars(CppCbEnter \/ CppCbReturn)
            /\ \A b \in ViBufs : WF_vars(CppDeliver(-1, b))
            /\ \A b \in CppBufs : WF_vars(CppDeliver(0, b))

-----------------------------------------------------------------------------
(* Properties.                                                             *)

(* Every variable holds a value of its kind. *)
ControlType ==
    /\ main \in MainPcs /\ autoRunDone \in BOOLEAN /\ sessions \in Nat
    /\ listsAlive \in BOOLEAN /\ streamOnFlag \in {0, 1} /\ threadRunning \in {0, 1}
    /\ viOn \in BOOLEAN /\ ispOn \in BOOLEAN /\ cppOn \in BOOLEAN
    /\ frame \in 0 .. MaxFrame /\ ispFrame \in 0 .. MaxFrame

BufferType ==
    /\ viPool \in SUBSET ViBufs /\ cppPool \in SUBSET CppBufs
    /\ rawPool \in BOOLEAN /\ rawQueue \in BOOLEAN
    /\ viQueue \in SUBSET ViBufs /\ infoQueue \in Nat
    /\ cppIn \in SUBSET ViBufs /\ cppOut \in SUBSET CppBufs /\ viLost \in SUBSET ViBufs

ListType ==
    /\ vi_out_list \in Seq(ViInfo) /\ isp_out_list \in Seq(Frames)
    /\ cpp_out_list \in SUBSET CppBufs

CallbackType ==
    /\ viCb \in [pc : {"idle", "enter", "push", "auto"}, buffer : ViBufs \cup {NULL},
                 frameId : 0 .. MaxFrame]
    /\ viCb.pc \in {"enter", "push"} => viCb.buffer \in ViBufs /\ viCb.frameId \in Frames
    /\ ispCb \in [pc : {"idle", "enter", "push"}, frameId : 0 .. MaxFrame]
    /\ ispCb.pc # "idle" => ispCb.frameId \in Frames
    /\ cppCb \in [pc : {"idle", "enter", "body"}, chn : {-1, 0},
                  buffer : ViBufs \cup CppBufs \cup {NULL}]
    /\ cppCb.pc # "idle" => cppCb.buffer \in IF cppCb.chn = -1 THEN ViBufs ELSE CppBufs

ThreadType ==
    /\ proc \in [pc : {"start", "wait", "check", "popVi", "match", "popOut", "post",
                       "erase", "loop", "exited"},
                 vi : ViInfo \cup {NULL}, isp : Frames \cup {NULL},
                 out : CppBufs \cup {NULL}]
    /\ proc.pc \in {"match", "popOut", "post", "erase"} => proc.vi \in ViInfo

TypeOK == ControlType /\ BufferType /\ ListType /\ CallbackType /\ ThreadType

(* Who refers to VI buffer b.  The pool is the application's own book-keeping,
   the others may write, read or pass on the image. *)
HoldsVi(h, b) ==
    CASE h = "pool"     -> b \in viPool
      [] h = "viQueue"  -> b \in viQueue
      [] h = "viCb"     -> viCb.pc \in {"enter", "push"} /\ viCb.buffer = b
      [] h = "list"     -> \E i \in DOMAIN vi_out_list : vi_out_list[i].buffer = b
      [] h = "proc"     -> proc.pc \in {"match", "popOut", "post"} /\ proc.vi.buffer = b
      [] h = "cpp"      -> b \in cppIn
      [] h = "cppCb"    -> cppCb.pc # "idle" /\ cppCb.chn = -1 /\ cppCb.buffer = b
      [] h = "lost"     -> b \in viLost

ViHolders == {"pool", "viQueue", "viCb", "list", "proc", "cpp", "cppCb", "lost"}

(* Through the first session no VI buffer is in two hands at once: VI never
   fills a buffer the thread or the CPP still reads, and no buffer waits twice
   in vi_out_list. *)
ViBufferExclusive ==
    sessions = 0 /\ listsAlive =>
      /\ \A b \in ViBufs : \A g, h \in ViHolders : HoldsVi(g, b) /\ HoldsVi(h, b) => g = h
      /\ \A i, j \in DOMAIN vi_out_list :
            vi_out_list[i].buffer = vi_out_list[j].buffer => i = j

(* Who refers to output buffer o once it has left the pool. *)
HoldsOut(h, o) ==
    CASE h = "list"  -> o \in cpp_out_list
      [] h = "proc"  -> proc.out = o
      [] h = "cpp"   -> o \in cppOut
      [] h = "cppCb" -> cppCb.pc # "idle" /\ cppCb.chn = 0 /\ cppCb.buffer = o

OutHolders == {"list", "proc", "cpp", "cppCb"}

(* While the first session streams every output buffer is in exactly one
   place: cpp_out_list, the thread, the CPP or its callback. *)
OutBufferAccounted ==
    sessions = 0 =>
      \A o \in CppBufs :
        /\ \A g, h \in OutHolders : HoldsOut(g, o) /\ HoldsOut(h, o) => g = h
        /\ main = "streaming" /\ streamOnFlag = 1 => \E h \in OutHolders : HoldsOut(h, o)

(* A buffer is forgotten only while streamOnFlags is 0: a frame that arrives
   before the flag is set or after it is cleared, or a post to a stopped CPP. *)
LossOnlyWhenStopped ==
    [][~(viLost' \subseteq viLost) => streamOnFlag = 0]_vars

(* The thread's check of the two lists stays true until it takes from them,
   since it alone takes: it never uses a frame info that is not there and never
   posts without an output buffer. *)
NoNullPost ==
    proc.pc = "post" => proc.isp # NULL /\ proc.out # NULL

(* The frames of the first session pass the list and the thread in the order
   in which VI produced them. *)
FramesInFlight ==
    LET info(p) == IF p.pc \in {"match", "popOut", "post"} THEN <<p.vi.frameId>> ELSE <<>>
        late(c) == IF c.pc \in {"enter", "push"} THEN <<c.frameId>> ELSE <<>>
    IN  info(proc) \o [i \in DOMAIN vi_out_list |-> vi_out_list[i].frameId] \o late(viCb)

FramesInOrder ==
    sessions = 0 => \A i, j \in DOMAIN FramesInFlight :
                       i < j => FramesInFlight[i] < FramesInFlight[j]

(* In the first session, until the lists are destroyed, a frame info outlives every frame
   it could be used for: when it leaves isp_out_list, VI has begun its frame, and neither
   vi_out_list nor VI's callback holds that frame or an older one. *)
InfoOutlivesItsFrames ==
    [][sessions = 0 /\ listsAlive' =>
         \A info \in ToSet(isp_out_list) \ ToSet(isp_out_list') :
           /\ info <= frame'
           /\ \A k \in DOMAIN FramesInFlight' : info < FramesInFlight'[k]]_vars

(* Once test_buffer_deInit has run, nobody is about to touch the lists or the
   pools: the thread has been joined and no callback is past its flag check.
   cpp_deInit comes later still, so for the CPP callback this takes a run that
   was stopped before it was quit. *)
NoUseAfterFree ==
    ~listsAlive => /\ proc.pc = "exited"
                   /\ viCb.pc = "idle" /\ ispCb.pc = "idle"
                   /\ streamOnFlag = 0 => cppCb.pc # "body"

(* What makes NoUseAfterFree inductive: which steps of the main thread leave the
   thread, the units and the callbacks quiet. *)
ShutdownInv ==
    /\ listsAlive = FALSE => main \in {"freed", "done"}
    /\ main \in {"joined", "viDown", "freed", "done"} => proc.pc = "exited"
    /\ main \in {"viDown", "freed", "done"} =>
         viOn = FALSE /\ ispOn = FALSE /\ viCb.pc = "idle" /\ ispCb.pc = "idle"
    /\ viCb.pc = "auto" => AutoRun = TRUE
    /\ main \in {"ready", "prepared", "cppOff"} => cppOn = FALSE /\ cppCb.pc = "idle"
    /\ main = "streaming" /\ AutoRun = FALSE => streamOnFlag = 1
    /\ main \in {"quit", "joining", "joined", "viDown", "freed", "done"} =>
         \/ AutoRun = FALSE /\ streamOnFlag = 1
         \/ cppOn = FALSE /\ cppCb.pc = "idle"

(* What makes NoNullPost inductive: the check's result survives until it is
   used, because nobody but the thread shortens the two lists before it has been
   joined. *)
TakeInv ==
    /\ proc.pc \in {"popVi", "match", "popOut"} => cpp_out_list # {}
    /\ proc.pc \in {"popVi", "match"} => isp_out_list # <<>>
    /\ proc.pc \in {"popOut", "post"} => proc.isp # NULL
    /\ proc.pc = "post" => proc.out # NULL

(* In an automatic run, the callback of the test frame leads to a complete
   tear-down, if the processing thread had started by then. *)
TestFrameEndsRun ==
    (viCb.pc = "auto" /\ viCb.frameId = TestFrame /\ proc.pc # "start") ~> (main = "done")

(* While the stream is on, a frame that waits and finds a frame info is taken,
   although many posts may have woken the thread only once: the CPP keeps
   returning output buffers and the wait is timed. *)
WaitingFrameTaken ==
    \A b \in ViBufs :
       (HoldsVi("list", b) /\ isp_out_list # <<>>)
          ~> (~HoldsVi("list", b) \/ isp_out_list = <<>> \/ streamOnFlag = 0)
=============================================================================
