---------------------------- MODULE SliceCapture ----------------------------
(***************************************************************************)
(* Slice capture of demo/slice_capture_test.c, as it is built (without     *)
(* ENABLE_PRIVIEW).  Raw frames of the sensor are dumped into a ring of    *)
(* raw buffers; the raw thread picks one at a time with the frame          *)
(* information nearest to it and has VI and the ISP process it offline;    *)
(* the CPP thread hands the result on to the CPP.  flag_tirg is 1 while no *)
(* such capture is under way.                                              *)
(*                                                                         *)
(* The VI, raw dump and ISP callbacks, the two threads and the main thread *)
(* interleave; a step reaches one of the shared lists.  A condition is the *)
(* event that Condition is shown to implement, and a post belongs to the   *)
(* step that precedes it.  One run of the test, streams on and off once.   *)
(***************************************************************************)
EXTENDS Integers, Sequences, FiniteSets, SequencesExt

CONSTANTS Raws,      \* buffers of vi_rawdump_buffer_capture_pool
          Outs,      \* buffers of vi_out_buffer_capture_pool
          CppOuts,   \* buffers of cpp_out_buffer_capture_pool
          Infos,     \* spmISP_CAP_BUFFER_INFO_S records
          MaxFrame, MaxIspFrame,  \* bounds: raw frames, and ISP frames
          NULL

ASSUME SliceAssumption ==
    /\ \A S \in {Raws, Outs, CppOuts, Infos} : IsFiniteSet(S) /\ NULL \notin S
    /\ Raws \cap Outs = {}
    /\ MaxFrame \in Nat \ {0} /\ MaxIspFrame \in Nat

VARIABLES
    main, streamOnFlag, flag_tirg,
    rawCond, cppCond,          \* the threads' conditions: a post not yet seen
    threadRunning,             \* of the two threads, "raw" and "cpp"
    rawdump_capture_list, rawdump_capture_back_list, rawdump_capture_origin_list,
    isp_capture_list, isp_capture_repeat_list, isp_capture_origin_list,
    viPool, cppPool, vi_capture_list,
    rawQueue,                  \* raw buffers queued to channel 2, to be written
    capture,                   \* the raw and out buffer VI works on, or NULLs
    cppIn, cppOut,             \* buffers the CPP works on
    frameId,                   \* of the raw and out buffers
    ispId, viId,               \* frameIspId and frameViId of the records
    frames, ispFrames,         \* raw and ISP frames so far
    rawCb, ispCb, viCb,        \* the callbacks
    rawThread, cppThread,
    raced,                     \* which of the races below have happened
    frees                      \* how often each record has been freed

ctlVars   == <<main, streamOnFlag, threadRunning>>
condVars  == <<rawCond, cppCond>>
rawLists  == <<rawdump_capture_list, rawdump_capture_back_list,
               rawdump_capture_origin_list>>
infoLists == <<isp_capture_list, isp_capture_repeat_list, isp_capture_origin_list>>
outVars   == <<viPool, cppPool, vi_capture_list>>
hwVars    == <<rawQueue, capture, cppIn, cppOut, frames, ispFrames>>
idVars    == <<frameId, ispId, viId>>
cbVars    == <<rawCb, ispCb, viCb>>
thrVars   == <<rawThread, cppThread>>
endVars   == <<raced, frees>>
vars == <<ctlVars, flag_tirg, condVars, rawLists, infoLists, outVars, hwVars, idVars, cbVars,
          thrVars, endVars>>

NoCapture == [raw |-> NULL, out |-> NULL]
NoRawCb   == [pc |-> "idle", raw |-> NULL, queued |-> FALSE]
NoViCb    == [pc |-> "idle", out |-> NULL]
AtWait    == [pc |-> "wait", in |-> NULL, out |-> NULL, info |-> NULL]

Init ==
    /\ main = "idle" /\ streamOnFlag = FALSE /\ flag_tirg = 1
    /\ rawCond = FALSE /\ cppCond = FALSE
    /\ threadRunning = [raw |-> TRUE, cpp |-> TRUE]
    /\ rawdump_capture_list = <<>> /\ rawdump_capture_back_list = <<>>
    /\ rawdump_capture_origin_list = <<>>
    /\ isp_capture_list = <<>> /\ isp_capture_repeat_list = <<>>
    /\ isp_capture_origin_list = SetToSeq(Infos)
    /\ viPool = Outs /\ cppPool = CppOuts /\ vi_capture_list = <<>>
    /\ rawQueue = <<>> /\ capture = NoCapture /\ cppIn = {} /\ cppOut = {}
    /\ frameId = [b \in Raws \cup Outs |-> 0]
    /\ ispId = [r \in Infos |-> -1] /\ viId = [r \in Infos |-> -1]
    /\ frames = 0 /\ ispFrames = 0
    /\ rawCb = NoRawCb /\ ispCb = "idle" /\ viCb = NoViCb
    /\ rawThread = AtWait /\ cppThread = AtWait
    /\ raced = {} /\ frees = [r \in Infos |-> 0]

(* List_Push stores nothing twice. *)
Push(list, x) == IF Contains(list, x) THEN list ELSE Append(list, x)

(* List_EraseByItem looks the item up; it may be gone. *)
Erase(list, x) ==
    IF Contains(list, x) THEN RemoveAt(list, CHOOSE k \in DOMAIN list : list[k] = x) ELSE list

(* Which units run. *)
CppOn == main \in {"run", "stopping", "viOff"}
ViOn  == main \in {"run", "stopping"}
RawOn == main \in {"run", "stopping", "viOff", "cppOff"}
IspOn == RawOn \/ main = "rawOff"

-----------------------------------------------------------------------------
(* The main thread. *)

(* The streams go on, then every raw buffer is queued. *)
StreamOn ==
    /\ main = "idle"
    /\ main' = "run" /\ streamOnFlag' = TRUE
    /\ rawQueue' = SetToSeq(Raws)
    /\ UNCHANGED <<threadRunning, flag_tirg, condVars, rawLists, infoLists, outVars, capture,
                   cppIn, cppOut, frames, ispFrames, idVars, cbVars, thrVars, endVars>>

(* 'c', or the end of an automatic run. *)
StreamOff ==
    /\ main = "run"
    /\ main' = "stopping" /\ streamOnFlag' = FALSE
    /\ UNCHANGED <<threadRunning, flag_tirg, condVars, rawLists, infoLists, outVars, hwVars,
                   idVars, cbVars, thrVars, endVars>>

(* The units are stopped one after the other; a stop waits for its unit's callback
   and what the unit holds is not delivered any more. *)
StopUnits ==
    /\ \/ main = "stopping" /\ viCb = NoViCb /\ main' = "viOff"
       \/ main = "viOff" /\ main' = "cppOff"
       \/ main = "cppOff" /\ rawCb = NoRawCb /\ main' = "rawOff"
       \/ main = "rawOff" /\ ispCb = "idle" /\ main' = "quitCpp"
    /\ capture' = IF main = "stopping" THEN NoCapture ELSE capture
    /\ cppIn' = IF main = "viOff" THEN {} ELSE cppIn
    /\ cppOut' = IF main = "viOff" THEN {} ELSE cppOut
    /\ UNCHANGED <<streamOnFlag, threadRunning, flag_tirg, condVars, rawLists, infoLists,
                   outVars, rawQueue, frames, ispFrames, idVars, cbVars, thrVars, endVars>>

(* ProcThreadDeinit of the CPP thread and then of the raw thread. *)
ProcThreadDeinit ==
    /\ \/ /\ main = "quitCpp" /\ main' = "joinCpp" /\ cppCond' = TRUE
          /\ threadRunning' = [threadRunning EXCEPT !.cpp = FALSE]
          /\ UNCHANGED rawCond
       \/ /\ main = "quitRaw" /\ main' = "joinRaw" /\ rawCond' = TRUE
          /\ threadRunning' = [threadRunning EXCEPT !.raw = FALSE]
          /\ UNCHANGED cppCond
    /\ UNCHANGED <<streamOnFlag, flag_tirg, rawLists, infoLists, outVars, hwVars, idVars,
                   cbVars, thrVars, endVars>>

ProcThreadJoin ==
    /\ \/ main = "joinCpp" /\ cppThread.pc = "exited" /\ main' = "quitRaw"
       \/ main = "joinRaw" /\ rawThread.pc = "exited" /\ main' = "release"
    /\ UNCHANGED <<streamOnFlag, threadRunning, flag_tirg, condVars, rawLists, infoLists,
                   outVars, hwVars, idVars, cbVars, thrVars, endVars>>

(* test_buffer_capture_deInit frees the records of the three lists. *)
CaptureDeInit ==
    /\ main = "release" /\ main' = "ended"
    /\ frees' = [r \in Infos |->
         Cardinality({l \in 1 .. 3 : Contains(infoLists[l], r)})]
    /\ isp_capture_list' = <<>> /\ isp_capture_repeat_list' = <<>>
    /\ isp_capture_origin_list' = <<>>
    /\ rawdump_capture_list' = <<>> /\ rawdump_capture_back_list' = <<>>
    /\ rawdump_capture_origin_list' = <<>> /\ vi_capture_list' = <<>>
    /\ UNCHANGED <<streamOnFlag, threadRunning, flag_tirg, condVars, viPool, cppPool, hwVars,
                   idVars, cbVars, thrVars, raced>>

-----------------------------------------------------------------------------
(* vi_rawdump_buffer_callback: VI has filled the first buffer of its queue. *)

RawFrame ==
    /\ RawOn /\ rawCb = NoRawCb /\ rawQueue # <<>> /\ frames < MaxFrame
    /\ frames' = frames + 1
    /\ rawCb' = [pc |-> "empty", raw |-> Head(rawQueue), queued |-> FALSE]
    /\ rawQueue' = Tail(rawQueue)
    /\ UNCHANGED <<ctlVars, flag_tirg, condVars, rawLists, infoLists, outVars, capture, cppIn,
                   cppOut, ispFrames, idVars, ispCb, viCb, thrVars, endVars>>

(* The buffers that are back from a capture are queued again, one by one ... *)
RawCbEmpty ==
    /\ rawCb.pc = "empty"
    /\ IF rawdump_capture_origin_list # <<>>
       THEN /\ rawQueue' = Append(rawQueue, Head(rawdump_capture_origin_list))
            /\ rawdump_capture_origin_list' = Tail(rawdump_capture_origin_list)
            /\ rawCb' = [rawCb EXCEPT !.queued = TRUE]
       ELSE /\ rawCb' = [rawCb EXCEPT !.pc = IF rawCb.queued THEN "fill" ELSE "oldest"]
            /\ UNCHANGED <<rawQueue, rawdump_capture_origin_list>>
    /\ UNCHANGED <<ctlVars, flag_tirg, condVars, rawdump_capture_list,
                   rawdump_capture_back_list, infoLists, outVars, capture, cppIn, cppOut,
                   frames, ispFrames, idVars, ispCb, viCb, thrVars, endVars>>

(* ... or, when there is none, the oldest filled one is; the race "stolen" is that
   the raw thread has just seen it in the list. *)
RawCbOldest ==
    /\ rawCb.pc = "oldest"
    /\ rawCb' = [rawCb EXCEPT !.pc = "fill"]
    /\ IF rawdump_capture_list = <<>> THEN UNCHANGED <<rawQueue, rawdump_capture_list, raced>>
       ELSE /\ rawQueue' = Append(rawQueue, Head(rawdump_capture_list))
            /\ rawdump_capture_list' = Tail(rawdump_capture_list)
            /\ raced' = raced \cup IF rawThread.pc = "get"
                                   THEN {"stolen"} ELSE {}
    /\ UNCHANGED <<ctlVars, flag_tirg, condVars, rawdump_capture_back_list,
                   rawdump_capture_origin_list, infoLists, outVars, capture, cppIn, cppOut,
                   frames, ispFrames, idVars, ispCb, viCb, thrVars, frees>>

RawCbFill ==
    /\ rawCb.pc = "fill"
    /\ frameId' = [frameId EXCEPT ![rawCb.raw] = frames]
    /\ rawdump_capture_list' = Push(rawdump_capture_list, rawCb.raw)
    /\ rawCond' = TRUE
    /\ rawCb' = NoRawCb
    /\ UNCHANGED <<ctlVars, flag_tirg, cppCond, rawdump_capture_back_list,
                   rawdump_capture_origin_list, infoLists, outVars, hwVars, ispId, viId, ispCb,
                   viCb, thrVars, endVars>>

-----------------------------------------------------------------------------
(* isp_buffer_callback: the information of the next frame. *)

IspFrame ==
    /\ IspOn /\ ispCb = "idle" /\ ispFrames < MaxIspFrame
    /\ ispFrames' = ispFrames + 1
    /\ ispCb' = IF streamOnFlag THEN "copy" ELSE "idle"
    /\ UNCHANGED <<ctlVars, flag_tirg, condVars, rawLists, infoLists, outVars, rawQueue,
                   capture, cppIn, cppOut, frames, idVars, rawCb, viCb, thrVars, endVars>>

(* Both threads are posted in the end. *)
IspCbEnd == ispCb' = "idle" /\ rawCond' = TRUE /\ cppCond' = TRUE

(* A free record takes it.  If there is none, "copy" goes on to "oldest", which comes
   back as "again"; then the callback gives up. *)
IspCbCopy ==
    /\ ispCb \in {"copy", "again"}
    /\ \/ /\ isp_capture_origin_list # <<>>
          /\ LET r == Head(isp_capture_origin_list) IN
               /\ ispId' = [ispId EXCEPT ![r] = ispFrames]
               /\ viId' = [viId EXCEPT ![r] = -1]
               /\ isp_capture_list' = Push(isp_capture_list, r)
          /\ isp_capture_origin_list' = Tail(isp_capture_origin_list)
          /\ IspCbEnd
       \/ /\ isp_capture_origin_list = <<>>
          /\ IF ispCb = "copy" THEN ispCb' = "oldest" /\ UNCHANGED condVars ELSE IspCbEnd
          /\ UNCHANGED <<ispId, viId, isp_capture_list, isp_capture_origin_list>>
    /\ UNCHANGED <<ctlVars, flag_tirg, rawLists, isp_capture_repeat_list, outVars, hwVars,
                   frameId, rawCb, viCb, thrVars, endVars>>

(* The oldest record that waits for a capture is freed; the race "recycled" is that
   the raw thread is about to take it. *)
IspCbOldest ==
    /\ ispCb = "oldest"
    /\ IF isp_capture_list = <<>>
       THEN /\ IspCbEnd
            /\ UNCHANGED <<isp_capture_list, isp_capture_origin_list, raced>>
       ELSE /\ ispCb' = "again"
            /\ isp_capture_list' = Tail(isp_capture_list)
            /\ isp_capture_origin_list' = Push(isp_capture_origin_list, Head(isp_capture_list))
            /\ raced' = raced \cup IF rawThread.pc \in {"get", "peek", "erase"}
                                   THEN {"recycled"} ELSE {}
            /\ UNCHANGED condVars
    /\ UNCHANGED <<ctlVars, flag_tirg, rawLists, isp_capture_repeat_list, outVars, hwVars,
                   idVars, rawCb, viCb, thrVars, frees>>

-----------------------------------------------------------------------------
(* vi_buffer_callback on channel 1: the capture is done. *)

(* The race "overtook" is that the raw thread has not yet noted the capture it
   triggered. *)
CaptureDone ==
    /\ ViOn /\ viCb = NoViCb /\ capture # NoCapture
    /\ capture' = NoCapture
    /\ viCb' = IF streamOnFlag THEN [pc |-> "flag", out |-> capture.out] ELSE NoViCb
    /\ raced' = raced \cup IF rawThread.pc \in {"back", "repeat", "store"}
                           THEN {"overtook"} ELSE {}
    /\ UNCHANGED <<ctlVars, flag_tirg, condVars, rawLists, infoLists, outVars, rawQueue, cppIn,
                   cppOut, frames, ispFrames, idVars, rawCb, ispCb, thrVars, frees>>

(* Mutant: the flag is not raised. *)
ViCbFlagKeeps ==
    /\ viCb.pc = "flag"
    /\ viCb' = [viCb EXCEPT !.pc = "push"]
    /\ UNCHANGED <<ctlVars, flag_tirg, condVars, rawLists, infoLists, outVars, hwVars, idVars,
                   rawCb, ispCb, thrVars, endVars>>

(* Mutant: the flag counts the captures. *)
ViCbFlagCounts ==
    /\ viCb.pc = "flag"
    /\ flag_tirg' = flag_tirg + 1
    /\ viCb' = [viCb EXCEPT !.pc = "push"]
    /\ UNCHANGED <<ctlVars, condVars, rawLists, infoLists, outVars, hwVars, idVars, rawCb,
                   ispCb, thrVars, endVars>>

ViCbFlag ==
    /\ viCb.pc = "flag"
    /\ flag_tirg' = 1
    /\ viCb' = [viCb EXCEPT !.pc = "push"]
    /\ UNCHANGED <<ctlVars, condVars, rawLists, infoLists, outVars, hwVars, idVars, rawCb,
                   ispCb, thrVars, endVars>>

ViCbPush ==
    /\ viCb.pc = "push"
    /\ vi_capture_list' = Push(vi_capture_list, viCb.out)
    /\ cppCond' = TRUE
    /\ viCb' = [viCb EXCEPT !.pc = "back"]
    /\ UNCHANGED <<ctlVars, flag_tirg, rawCond, rawLists, infoLists, viPool, cppPool, hwVars,
                   idVars, rawCb, ispCb, thrVars, endVars>>

(* The raw buffers it has read may be filled again.  The last frame of the test ends
   the streaming; the bound on the frames stands for the count. *)
ViCbBack ==
    /\ viCb.pc = "back"
    /\ IF rawdump_capture_back_list # <<>>
       THEN /\ rawdump_capture_origin_list' =
                 Push(rawdump_capture_origin_list, Head(rawdump_capture_back_list))
            /\ rawdump_capture_back_list' = Tail(rawdump_capture_back_list)
            /\ UNCHANGED <<viCb, streamOnFlag>>
       ELSE /\ viCb' = NoViCb
            /\ streamOnFlag' = (streamOnFlag /\ frames < MaxFrame)
            /\ UNCHANGED <<rawdump_capture_origin_list, rawdump_capture_back_list>>
    /\ UNCHANGED <<main, threadRunning, flag_tirg, condVars, rawdump_capture_list, infoLists,
                   outVars, hwVars, idVars, rawCb, ispCb, thrVars, endVars>>

-----------------------------------------------------------------------------
(* rawProcessThreadFunc. *)

RawWait ==
    /\ rawThread.pc = "wait" /\ rawCond
    /\ rawCond' = FALSE
    /\ rawThread' = [AtWait EXCEPT !.pc = IF threadRunning.raw THEN "check" ELSE "exited"]
    /\ UNCHANGED <<ctlVars, flag_tirg, cppCond, rawLists, infoLists, outVars, hwVars, idVars,
                   cbVars, cppThread, endVars>>

(* Mutant: the flag is not looked at. *)
ReadyAnyTime == rawdump_capture_list # <<>> /\ isp_capture_list # <<>>

(* Mutant: whether there is frame information is not looked at. *)
ReadyWithoutInfo == flag_tirg = 1 /\ rawdump_capture_list # <<>>

Ready == flag_tirg = 1 /\ rawdump_capture_list # <<>> /\ isp_capture_list # <<>>

RawLoop == IF threadRunning.raw THEN "wait" ELSE "exited"

(* The race "early" is that the callback of the last capture has raised the flag and
   still moves its raw buffers. *)
RawCheck ==
    /\ rawThread.pc = "check"
    /\ rawThread' = [rawThread EXCEPT !.pc = IF Ready THEN "get" ELSE RawLoop]
    /\ raced' = raced \cup IF Ready /\ viCb.pc \in {"push", "back"} THEN {"early"} ELSE {}
    /\ UNCHANGED <<ctlVars, flag_tirg, condVars, rawLists, infoLists, outVars, hwVars, idVars,
                   cbVars, cppThread, frees>>

(* A buffer for the image and the raw buffer to read; an empty list gives NULL, which
   the next statement reads. *)
RawGet ==
    /\ rawThread.pc = "get"
    /\ IF viPool = {}
       THEN /\ rawThread' = [AtWait EXCEPT !.pc = RawLoop]
            /\ UNCHANGED <<viPool, rawdump_capture_list, frameId>>
       ELSE \E o \in viPool :
            /\ viPool' = viPool \ {o}
            /\ IF rawdump_capture_list = <<>>
               THEN /\ rawThread' = [rawThread EXCEPT !.pc = "segv", !.out = o]
                    /\ UNCHANGED <<rawdump_capture_list, frameId>>
               ELSE LET raw == Head(rawdump_capture_list) IN
                    /\ rawThread' = [rawThread EXCEPT !.pc = "peek", !.in = raw, !.out = o]
                    /\ rawdump_capture_list' = Tail(rawdump_capture_list)
                    /\ frameId' = [frameId EXCEPT ![o] = frameId[raw]]
    /\ UNCHANGED <<ctlVars, flag_tirg, condVars, rawdump_capture_back_list,
                   rawdump_capture_origin_list, infoLists, cppPool, vi_capture_list, hwVars,
                   ispId, viId, cbVars, cppThread, endVars>>

(* Mutant: the search does not stop at the record it looks for. *)
NearNoBreak(list, id, f) == IF list = <<>> THEN NULL ELSE Last(list)

(* pop_near_item_to_capture: the first record whose id is not below f, else the last;
   the search holds the list's lock, the erasing comes after it. *)
Near(list, id, f) ==
    IF list = <<>> THEN NULL
    ELSE LET at == {k \in DOMAIN list : id[list[k]] >= f}
         IN  IF at = {} THEN Last(list) ELSE list[CHOOSE k \in at : \A j \in at : k <= j]

RawPeek ==
    /\ rawThread.pc = "peek"
    /\ rawThread' = LET r == Near(isp_capture_list, ispId, frameId[rawThread.in]) IN
         [rawThread EXCEPT !.pc = IF r = NULL THEN "segv" ELSE "erase", !.info = r]
    /\ UNCHANGED <<ctlVars, flag_tirg, condVars, rawLists, infoLists, outVars, hwVars, idVars,
                   cbVars, cppThread, endVars>>

RawErase ==
    /\ rawThread.pc = "erase"
    /\ isp_capture_list' = Erase(isp_capture_list, rawThread.info)
    /\ viId' = [viId EXCEPT ![rawThread.info] = frameId[rawThread.out]]
    /\ rawThread' = [rawThread EXCEPT !.pc = "trigger"]
    /\ UNCHANGED <<ctlVars, flag_tirg, condVars, rawLists, isp_capture_repeat_list,
                   isp_capture_origin_list, outVars, hwVars, frameId, ispId, cbVars, cppThread,
                   endVars>>

(* Both buffers are queued and the ISP is told to start; once VI is off they stay
   with it. *)
RawTrigger ==
    /\ rawThread.pc = "trigger"
    /\ capture' = IF ViOn THEN [raw |-> rawThread.in, out |-> rawThread.out] ELSE capture
    /\ rawThread' = [rawThread EXCEPT !.pc = "back"]
    /\ UNCHANGED <<ctlVars, flag_tirg, condVars, rawLists, infoLists, outVars, rawQueue, cppIn,
                   cppOut, frames, ispFrames, idVars, cbVars, cppThread, endVars>>

RawBack ==
    /\ rawThread.pc = "back"
    /\ rawdump_capture_back_list' = Push(rawdump_capture_back_list, rawThread.in)
    /\ rawThread' = [rawThread EXCEPT !.pc = "repeat"]
    /\ UNCHANGED <<ctlVars, flag_tirg, condVars, rawdump_capture_list,
                   rawdump_capture_origin_list, infoLists, outVars, hwVars, idVars, cbVars,
                   cppThread, endVars>>

RawRepeat ==
    /\ rawThread.pc = "repeat"
    /\ isp_capture_repeat_list' = Push(isp_capture_repeat_list, rawThread.info)
    /\ rawThread' = [rawThread EXCEPT !.pc = "store"]
    /\ UNCHANGED <<ctlVars, flag_tirg, condVars, rawLists, isp_capture_list,
                   isp_capture_origin_list, outVars, hwVars, idVars, cbVars, cppThread,
                   endVars>>

RawStore ==
    /\ rawThread.pc = "store"
    /\ flag_tirg' = 0
    /\ rawThread' = [AtWait EXCEPT !.pc = RawLoop]
    /\ UNCHANGED <<ctlVars, condVars, rawLists, infoLists, outVars, hwVars, idVars, cbVars,
                   cppThread, endVars>>

-----------------------------------------------------------------------------
(* cppProcessThreadFunc. *)

CppWait ==
    /\ cppThread.pc = "wait" /\ cppCond
    /\ cppCond' = FALSE
    /\ cppThread' = [AtWait EXCEPT !.pc = IF threadRunning.cpp THEN "check" ELSE "exited"]
    /\ UNCHANGED <<ctlVars, flag_tirg, rawCond, rawLists, infoLists, outVars, hwVars, idVars,
                   cbVars, rawThread, endVars>>

CppLoop == IF threadRunning.cpp THEN "wait" ELSE "exited"

(* Only this thread takes from vi_capture_list and from the pool. *)
CppPop ==
    /\ cppThread.pc = "check"
    /\ IF vi_capture_list = <<>> \/ cppPool = {}
       THEN /\ cppThread' = [cppThread EXCEPT !.pc = CppLoop]
            /\ UNCHANGED <<vi_capture_list, cppPool>>
       ELSE \E o \in cppPool :
            /\ cppPool' = cppPool \ {o}
            /\ vi_capture_list' = Tail(vi_capture_list)
            /\ cppThread' = [cppThread EXCEPT !.pc = "peek", !.in = Head(vi_capture_list),
                                              !.out = o]
    /\ UNCHANGED <<ctlVars, flag_tirg, condVars, rawLists, infoLists, viPool, hwVars, idVars,
                   cbVars, rawThread, endVars>>

CppPeek ==
    /\ cppThread.pc = "peek"
    /\ cppThread' = LET r == Near(isp_capture_repeat_list, viId, frameId[cppThread.in]) IN
         [cppThread EXCEPT !.pc = IF r = NULL THEN "segv" ELSE "erase", !.info = r]
    /\ UNCHANGED <<ctlVars, flag_tirg, condVars, rawLists, infoLists, outVars, hwVars, idVars,
                   cbVars, rawThread, endVars>>

(* Mutant: the record is only looked up. *)
CppEraseSkipped ==
    /\ cppThread.pc = "erase"
    /\ cppThread' = [cppThread EXCEPT !.pc = "post"]
    /\ UNCHANGED <<ctlVars, flag_tirg, condVars, rawLists, infoLists, outVars, hwVars, idVars,
                   cbVars, rawThread, endVars>>

CppErase ==
    /\ cppThread.pc = "erase"
    /\ isp_capture_repeat_list' = Erase(isp_capture_repeat_list, cppThread.info)
    /\ cppThread' = [cppThread EXCEPT !.pc = "post"]
    /\ UNCHANGED <<ctlVars, flag_tirg, condVars, rawLists, isp_capture_list,
                   isp_capture_origin_list, outVars, hwVars, idVars, cbVars, rawThread,
                   endVars>>

(* cpp_post_buffer, which copies the frame information and refuses buffers when the
   CPP is off; then the record is free. *)
CppPost ==
    /\ cppThread.pc = "post"
    /\ cppIn' = IF CppOn THEN cppIn \cup {cppThread.in} ELSE cppIn
    /\ cppOut' = IF CppOn THEN cppOut \cup {cppThread.out} ELSE cppOut
    /\ isp_capture_origin_list' = Push(isp_capture_origin_list, cppThread.info)
    /\ cppThread' = [AtWait EXCEPT !.pc = CppLoop]
    /\ UNCHANGED <<ctlVars, flag_tirg, condVars, rawLists, isp_capture_list,
                   isp_capture_repeat_list, outVars, rawQueue, capture, frames, ispFrames,
                   idVars, cbVars, rawThread, endVars>>

(* capture_cpp_buffer_callback, for the input and for the output buffer.  When the
   test has stopped it drops them. *)
CppInDone(o) ==
    /\ CppOn /\ o \in cppIn
    /\ cppIn' = cppIn \ {o}
    /\ IF streamOnFlag THEN viPool' = viPool \cup {o} /\ rawCond' = TRUE
       ELSE UNCHANGED <<viPool, rawCond>>
    /\ UNCHANGED <<ctlVars, flag_tirg, cppCond, rawLists, infoLists, cppPool, vi_capture_list,
                   rawQueue, capture, cppOut, frames, ispFrames, idVars, cbVars, thrVars,
                   endVars>>

CppOutDone(o) ==
    /\ CppOn /\ o \in cppOut
    /\ cppOut' = cppOut \ {o}
    /\ cppPool' = IF streamOnFlag THEN cppPool \cup {o} ELSE cppPool
    /\ UNCHANGED <<ctlVars, flag_tirg, condVars, rawLists, infoLists, viPool, vi_capture_list,
                   rawQueue, capture, cppIn, frames, ispFrames, idVars, cbVars, thrVars,
                   endVars>>

-----------------------------------------------------------------------------
Main  == StreamOn \/ StreamOff \/ StopUnits \/ ProcThreadDeinit \/ ProcThreadJoin \/ CaptureDeInit
RawCb == RawCbEmpty \/ RawCbOldest \/ RawCbFill
IspCb == IspCbCopy \/ IspCbOldest
ViCb  == ViCbFlag \/ ViCbPush \/ ViCbBack
RawThread == \/ RawWait \/ RawCheck \/ RawGet \/ RawPeek \/ RawErase \/ RawTrigger
             \/ RawBack \/ RawRepeat \/ RawStore
CppThread == CppWait \/ CppPop \/ CppPeek \/ CppErase \/ CppPost

(* A thread that has read through NULL has ended the process. *)
Crashed == rawThread.pc = "segv" \/ cppThread.pc = "segv"

Next ==
    /\ ~Crashed
    /\ \/ Main
       \/ RawFrame \/ RawCb
       \/ IspFrame \/ IspCb
       \/ CaptureDone \/ ViCb
       \/ RawThread \/ CppThread
       \/ \E o \in Outs : CppInDone(o)
       \/ \E o \in CppOuts : CppOutDone(o)

Spec == Init /\ [][Next]_vars

-----------------------------------------------------------------------------
Races == {"stolen", "recycled", "overtook", "early"}
Buffers(S) == S \cup {NULL}

(* Every variable has its type; flag_tirg is a flag, and a list holds nothing twice. *)
TypeOK ==
    /\ main \in {"idle", "run", "stopping", "viOff", "cppOff", "rawOff", "quitCpp", "joinCpp",
                 "quitRaw", "joinRaw", "release", "ended"}
    /\ streamOnFlag \in BOOLEAN /\ flag_tirg \in {0, 1}
    /\ {rawCond, cppCond} \subseteq BOOLEAN
    /\ threadRunning \in [raw : BOOLEAN, cpp : BOOLEAN]
    /\ \A l \in {rawdump_capture_list, rawdump_capture_back_list,
                 rawdump_capture_origin_list} : l \in Seq(Raws) /\ IsInjective(l)
    /\ \A l \in {isp_capture_list, isp_capture_repeat_list, isp_capture_origin_list} :
         l \in Seq(Infos) /\ IsInjective(l)
    /\ vi_capture_list \in Seq(Outs) /\ IsInjective(vi_capture_list)
    /\ rawQueue \in Seq(Raws)
    /\ viPool \cup cppIn \subseteq Outs /\ cppPool \cup cppOut \subseteq CppOuts
    /\ capture \in [raw : Buffers(Raws), out : Buffers(Outs)]
    /\ frameId \in [Raws \cup Outs -> 0 .. MaxFrame]
    /\ ispId \in [Infos -> -1 .. MaxIspFrame] /\ viId \in [Infos -> -1 .. MaxFrame]
    /\ frames \in 0 .. MaxFrame /\ ispFrames \in 0 .. MaxIspFrame
    /\ rawCb \in [pc : {"idle", "empty", "oldest", "fill"}, raw : Buffers(Raws),
                  queued : BOOLEAN]
    /\ ispCb \in {"idle", "copy", "again", "oldest"}
    /\ viCb \in [pc : {"idle", "flag", "push", "back"}, out : Buffers(Outs)]
    /\ rawThread \in [pc : {"wait", "check", "get", "peek", "erase", "trigger", "back",
                            "repeat", "store", "segv", "exited"},
                      in : Buffers(Raws), out : Buffers(Outs), info : Buffers(Infos)]
    /\ cppThread \in [pc : {"wait", "check", "peek", "erase", "post", "segv", "exited"},
                      in : Buffers(Outs), out : Buffers(CppOuts), info : Buffers(Infos)]
    /\ raced \subseteq Races /\ frees \in [Infos -> 0 .. 3]

(* VI reads a raw buffer for a capture alone: it is not queued to be written, not
   waiting for another capture and not on its way back to the queue.  The flag and
   the back list keep this, unless the raw thread starts the next capture while the
   callback of the last one still empties the back list. *)
RawReadAlone ==
    "early" \in raced \/ capture = NoCapture \/
        /\ capture.raw \notin Range(rawQueue) \cup Range(rawdump_capture_list)
                               \cup Range(rawdump_capture_origin_list)
        /\ capture.raw # rawCb.raw
        /\ rawThread.pc \in {"peek", "erase", "trigger"} => rawThread.in # capture.raw

HeldByRaw(r) == rawThread.info = r /\ rawThread.pc \in {"trigger", "back", "repeat"}
HeldByCpp(r) == cppThread.info = r /\ cppThread.pc = "post"
Places(r) == {i \in 1 .. 3 : Contains(infoLists[i], r)}
                 \cup {w \in {4} : HeldByRaw(r)} \cup {w \in {5} : HeldByCpp(r)}

(* A frame information record is in one list or with one thread all along, through
   the three lists, the recycling of the oldest and the end of either thread, and is
   freed exactly once.  Only a record recycled under the raw thread's hands is not. *)
InfoInOnePlace ==
    "recycled" \in raced \/ \A r \in Infos :
        IF main = "ended" THEN frees[r] = 1 ELSE Cardinality(Places(r)) = 1

(* A thread reads through NULL only when a callback came between its look at the
   lists and its use of them: for the raw thread one of those that make room, for the
   CPP thread VI's, when it came before the record was in the repeat list. *)
OnlyRacesCrash ==
    /\ rawThread.pc = "segv" => raced \cap {"stolen", "recycled"} # {}
    /\ cppThread.pc = "segv" => raced \cap {"overtook", "recycled"} # {}

(* The CPP processes an image with the record its capture used, whatever other
   captures are in flight, unless one of the races has happened. *)
CppHasItsInfo ==
    cppThread.pc = "post" => \/ raced \cap {"overtook", "recycled"} # {}
                             \/ viId[cppThread.info] = frameId[cppThread.in]

(* While flag_tirg is 0 and the test runs, the capture that will raise it is on its
   way: VI works on it or its callback is about to answer.  Otherwise no capture is
   ever started again; that happens when VI's callback overtook the raw thread, whose
   store of 0 then hides the answer. *)
LoweredFlagIsAnswered ==
    flag_tirg = 0 =>
        \/ capture # NoCapture \/ viCb.pc = "flag"
        \/ ~streamOnFlag \/ "overtook" \in raced
=============================================================================
