------------------------------ MODULE RawDump ------------------------------
(***************************************************************************)
(* The raw dump of the tuning server in demo/online_pipeline_test.c: the   *)
(* server's thread calls ispStartDumpRaw, which queues raw buffers to VI,  *)
(* raises a start flag and sleeps; vi_rawdump_buffer_callback copies a raw *)
(* frame (getRawDump) and wakes it; isp_buffer_callback records the frame  *)
(* infos that arrive while the flag is up; ispStartDumpRaw pairs the two,  *)
(* and ispEndDumpRaw frees everything.                                     *)
(*                                                                         *)
(* External: the tuning library calls StartDumpRaw and EndDumpRaw in turn  *)
(* from one thread; VI and the ISP stream all the time and run one         *)
(* callback each at a time.  pthread_cond_wait returns only when signalled *)
(* and an allocation never fails.                                          *)
(***************************************************************************)
EXTENDS Integers, Sequences, SequencesExt

CONSTANTS Count,      \* frames the client asks for
          NumInfo,    \* MAX_BUFFER_NUM frame-info records per dump
          MaxFrame,   \* bound: frames of the sensor
          MaxDumps,   \* bound: dumps the client makes
          NoInfo      \* no frame info

ASSUME RawDumpAssumption ==
    /\ Count \in Nat \ {0} /\ NumInfo \in Nat /\ MaxFrame \in Nat /\ MaxDumps \in Nat
    /\ NoInfo \notin Nat

VARIABLES
    req,            \* the server's thread: step, last frame before the call, loop index,
                    \* images counted
    dumps,          \* dumps begun
    used,           \* the last pairing: raw frame and the info appended to it
    start,          \* g_rawdump_info.start
    listLocked,     \* the server's thread holds rawdumpListLock
    poolAlive,      \* rawdumpPool has its buffers
    rawQueue,       \* external: raw buffers queued to VI
    frame, ispFrame,        \* external: last frame of VI and of the ISP
    rawdumpList,    \* frame ids of the copied raw images
    ispInfoList,    \* number of unused info records
    isp_done_list,  \* frame ids of the recorded infos
    rawCb, ispCb    \* the two callbacks: step and frame

reqVars == <<req, dumps, used, poolAlive>>
cbVars  == <<rawCb, ispCb>>
vars == <<reqVars, start, listLocked, rawQueue, frame, ispFrame, rawdumpList, ispInfoList,
          isp_done_list, cbVars>>

Frames == 1 .. MaxFrame
Idle   == [pc |-> "idle", frameId |-> 0]

Init ==
    /\ req = [pc |-> "idle", since |-> 0, i |-> 0, cnt |-> 0]
    /\ dumps = 0 /\ used = [raw |-> 0, info |-> NoInfo]
    /\ start = 0 /\ listLocked = FALSE /\ poolAlive = FALSE
    /\ rawQueue = 0 /\ frame = 0 /\ ispFrame = 0
    /\ rawdumpList = <<>> /\ ispInfoList = 0 /\ isp_done_list = <<>>
    /\ rawCb = Idle /\ ispCb = Idle

-----------------------------------------------------------------------------
(* ispStartDumpRaw.                                                        *)

StartDumpRaw ==
    /\ req.pc = "idle" /\ dumps < MaxDumps
    /\ dumps' = dumps + 1
    /\ poolAlive' = TRUE
    /\ req' = [pc |-> "queue", since |-> frame, i |-> 0, cnt |-> 0]
    /\ UNCHANGED <<used, start, listLocked, rawQueue, frame, ispFrame, rawdumpList,
                   ispInfoList, isp_done_list, cbVars>>

(* Mutant: one buffer more than the pool has is queued. *)
QueueRawPast ==
    /\ req.pc = "queue"
    /\ IF req.i <= Count
       THEN rawQueue' = rawQueue + 1 /\ req' = [req EXCEPT !.i = @ + 1]
       ELSE req' = [req EXCEPT !.pc = "infos"] /\ UNCHANGED rawQueue
    /\ UNCHANGED <<dumps, used, poolAlive, start, listLocked, frame, ispFrame, rawdumpList,
                   ispInfoList, isp_done_list, cbVars>>

(* The pool's buffers are queued one by one, VI already filling the first. *)
QueueRaw ==
    /\ req.pc = "queue"
    /\ IF req.i < Count
       THEN rawQueue' = rawQueue + 1 /\ req' = [req EXCEPT !.i = @ + 1]
       ELSE req' = [req EXCEPT !.pc = "infos"] /\ UNCHANGED rawQueue
    /\ UNCHANGED <<dumps, used, poolAlive, start, listLocked, frame, ispFrame, rawdumpList,
                   ispInfoList, isp_done_list, cbVars>>

PushInfos ==
    /\ req.pc = "infos"
    /\ ispInfoList' = ispInfoList + NumInfo
    /\ req' = [req EXCEPT !.pc = "lock"]
    /\ UNCHANGED <<dumps, used, poolAlive, start, listLocked, rawQueue, frame, ispFrame,
                   rawdumpList, isp_done_list, cbVars>>

(* The flag goes up under rawdumpListLock ... *)
SetStart ==
    /\ req.pc = "lock"
    /\ listLocked' = TRUE
    /\ start' = 1
    /\ req' = [req EXCEPT !.pc = "start"]
    /\ UNCHANGED <<dumps, used, poolAlive, rawQueue, frame, ispFrame, rawdumpList,
                   ispInfoList, isp_done_list, cbVars>>

(* Mutant: the thread does not wait for its images. *)
CondWaitSkipped ==
    /\ req.pc = "start"
    /\ listLocked' = FALSE
    /\ req' = [req EXCEPT !.pc = "signalled"]
    /\ UNCHANGED <<dumps, used, poolAlive, start, rawQueue, frame, ispFrame, rawdumpList,
                   ispInfoList, isp_done_list, cbVars>>

(* ... which pthread_cond_wait releases as the thread goes to sleep. *)
CondWait ==
    /\ req.pc = "start"
    /\ listLocked' = FALSE
    /\ req' = [req EXCEPT !.pc = "waiting"]
    /\ UNCHANGED <<dumps, used, poolAlive, start, rawQueue, frame, ispFrame, rawdumpList,
                   ispInfoList, isp_done_list, cbVars>>

(* Signalled, the thread owns the lock again and releases it. *)
CondReturn ==
    /\ req.pc = "signalled"
    /\ req' = [req EXCEPT !.pc = "collect", !.i = 1]
    /\ UNCHANGED <<dumps, used, poolAlive, start, listLocked, rawQueue, frame, ispFrame,
                   rawdumpList, ispInfoList, isp_done_list, cbVars>>

(* The info for a raw frame is the one with its number, else the first of
   isp_done_list, if there is one. *)
InfoFor(f) ==
    IF \E k \in DOMAIN isp_done_list : isp_done_list[k] = f THEN f
    ELSE IF isp_done_list = <<>> THEN NoInfo ELSE Head(isp_done_list)

(* Mutant: an image without any info is counted too. *)
CollectCountsAll ==
    /\ req.pc = "collect" /\ req.i <= Count /\ req.i \in DOMAIN rawdumpList
    /\ LET f == rawdumpList[req.i] IN
         /\ used' = [raw |-> f, info |-> InfoFor(f)]
         /\ IF InfoFor(f) = f
            THEN /\ isp_done_list' = RemoveFirst(isp_done_list, f)
                 /\ ispInfoList' = ispInfoList + 1
            ELSE UNCHANGED <<isp_done_list, ispInfoList>>
    /\ req' = [req EXCEPT !.i = @ + 1, !.cnt = @ + 1]
    /\ UNCHANGED <<dumps, poolAlive, start, listLocked, rawQueue, frame, ispFrame,
                   rawdumpList, cbVars>>

(* One raw image is handed over and paired with its info.  Only a matching info is
   recycled; the loop goes on without counting an image when there is no info at all. *)
CollectOne ==
    /\ req.pc = "collect" /\ req.i <= Count /\ req.i \in DOMAIN rawdumpList
    /\ LET f == rawdumpList[req.i] IN
         /\ used' = [raw |-> f, info |-> InfoFor(f)]
         /\ IF InfoFor(f) = f
            THEN /\ isp_done_list' = RemoveFirst(isp_done_list, f)
                 /\ ispInfoList' = ispInfoList + 1
            ELSE UNCHANGED <<isp_done_list, ispInfoList>>
         /\ req' = [req EXCEPT !.i = @ + 1,
                              !.cnt = IF InfoFor(f) = NoInfo THEN @ ELSE @ + 1]
    /\ UNCHANGED <<dumps, poolAlive, start, listLocked, rawQueue, frame, ispFrame,
                   rawdumpList, cbVars>>

CollectDone ==
    /\ req.pc = "collect" /\ ~(req.i <= Count /\ req.i \in DOMAIN rawdumpList)
    /\ start' = 0
    /\ req' = [req EXCEPT !.pc = "dumped"]
    /\ UNCHANGED <<dumps, used, poolAlive, listLocked, rawQueue, frame, ispFrame,
                   rawdumpList, ispInfoList, isp_done_list, cbVars>>

-----------------------------------------------------------------------------
(* ispEndDumpRaw.                                                          *)

(* The loop frees the first image only: tunBuffer is set to NULL before the
   next one is looked up. *)
EndDumpRaw ==
    /\ req.pc = "dumped"
    /\ rawdumpList' = IF rawdumpList = <<>> THEN <<>> ELSE Tail(rawdumpList)
    /\ req' = [req EXCEPT !.pc = "endDone"]
    /\ UNCHANGED <<dumps, used, poolAlive, start, listLocked, rawQueue, frame, ispFrame,
                   ispInfoList, isp_done_list, cbVars>>

EndFreeDone ==
    /\ req.pc = "endDone"
    /\ isp_done_list' = <<>>
    /\ req' = [req EXCEPT !.pc = "endInfo"]
    /\ UNCHANGED <<dumps, used, poolAlive, start, listLocked, rawQueue, frame, ispFrame,
                   rawdumpList, ispInfoList, cbVars>>

EndFreeInfo ==
    /\ req.pc = "endInfo"
    /\ ispInfoList' = 0
    /\ req' = [req EXCEPT !.pc = "endPool"]
    /\ UNCHANGED <<dumps, used, poolAlive, start, listLocked, rawQueue, frame, ispFrame,
                   rawdumpList, isp_done_list, cbVars>>

EndFreePool ==
    /\ req.pc = "endPool"
    /\ poolAlive' = FALSE
    /\ req' = [req EXCEPT !.pc = "idle"]
    /\ UNCHANGED <<dumps, used, start, listLocked, rawQueue, frame, ispFrame, rawdumpList,
                   ispInfoList, isp_done_list, cbVars>>

Server == \/ QueueRaw \/ PushInfos \/ SetStart \/ CondWait \/ CondReturn \/ CollectOne
          \/ CollectDone \/ EndDumpRaw \/ EndFreeDone \/ EndFreeInfo \/ EndFreePool

-----------------------------------------------------------------------------
(* VI: vi_rawdump_buffer_callback and getRawDump.                          *)

RawFrame ==
    /\ frame < MaxFrame /\ rawCb.pc = "idle"
    /\ frame' = frame + 1
    /\ IF rawQueue > 0
       THEN rawQueue' = rawQueue - 1 /\ rawCb' = [pc |-> "enter", frameId |-> frame + 1]
       ELSE UNCHANGED <<rawQueue, rawCb>>
    /\ UNCHANGED <<reqVars, start, listLocked, ispFrame, rawdumpList, ispInfoList,
                   isp_done_list, ispCb>>

(* A frame that comes before the flag is up is ignored, and its buffer is not
   queued again. *)
RawCbEnter ==
    /\ rawCb.pc = "enter"
    /\ rawCb' = IF start = 1 THEN [rawCb EXCEPT !.pc = "copy"] ELSE Idle
    /\ UNCHANGED <<reqVars, start, listLocked, rawQueue, frame, ispFrame, rawdumpList,
                   ispInfoList, isp_done_list, ispCb>>

(* The image is copied out of the buffer and the copy pushed under the lock. *)
RawCbPush ==
    /\ rawCb.pc = "copy" /\ ~listLocked
    /\ rawdumpList' = Append(rawdumpList, rawCb.frameId)
    /\ rawCb' = [rawCb EXCEPT !.pc = "signal"]
    /\ UNCHANGED <<reqVars, start, listLocked, rawQueue, frame, ispFrame, ispInfoList,
                   isp_done_list, ispCb>>

(* Mutant: the thread is woken only when more than count images are there. *)
RawCbSignalLate ==
    /\ rawCb.pc = "signal"
    /\ rawCb' = [rawCb EXCEPT !.pc = "clear"]
    /\ IF Len(rawdumpList) > Count /\ req.pc = "waiting"
       THEN req' = [req EXCEPT !.pc = "signalled"] ELSE UNCHANGED req
    /\ UNCHANGED <<dumps, used, poolAlive, start, listLocked, rawQueue, frame, ispFrame,
                   rawdumpList, ispInfoList, isp_done_list, ispCb>>

(* The thread is signalled, outside the lock, when the list has count images. *)
RawCbSignal ==
    /\ rawCb.pc = "signal"
    /\ rawCb' = [rawCb EXCEPT !.pc = "clear"]
    /\ IF Len(rawdumpList) = Count /\ req.pc = "waiting"
       THEN req' = [req EXCEPT !.pc = "signalled"] ELSE UNCHANGED req
    /\ UNCHANGED <<dumps, used, poolAlive, start, listLocked, rawQueue, frame, ispFrame,
                   rawdumpList, ispInfoList, isp_done_list, ispCb>>

(* The flag is lowered after every copied frame. *)
RawCbClear ==
    /\ rawCb.pc = "clear"
    /\ start' = 0
    /\ rawCb' = Idle
    /\ UNCHANGED <<reqVars, listLocked, rawQueue, frame, ispFrame, rawdumpList, ispInfoList,
                   isp_done_list, ispCb>>

RawCallback == RawCbEnter \/ RawCbPush \/ RawCbSignal \/ RawCbClear

-----------------------------------------------------------------------------
(* The ISP: the rawdump part of isp_buffer_callback.                       *)

IspReport ==
    /\ ispFrame < MaxFrame /\ ispFrame <= frame /\ ispCb.pc = "idle"
    /\ ispFrame' = ispFrame + 1
    /\ ispCb' = IF start = 1 THEN [pc |-> "pop", frameId |-> ispFrame + 1] ELSE Idle
    /\ UNCHANGED <<reqVars, start, listLocked, rawQueue, frame, rawdumpList, ispInfoList,
                   isp_done_list, rawCb>>

IspCbPop ==
    /\ ispCb.pc = "pop"
    /\ IF ispInfoList > 0
       THEN ispInfoList' = ispInfoList - 1 /\ ispCb' = [ispCb EXCEPT !.pc = "push"]
       ELSE ispCb' = Idle /\ UNCHANGED ispInfoList
    /\ UNCHANGED <<reqVars, start, listLocked, rawQueue, frame, ispFrame, rawdumpList,
                   isp_done_list, rawCb>>

IspCbPush ==
    /\ ispCb.pc = "push"
    /\ isp_done_list' = Append(isp_done_list, ispCb.frameId)
    /\ ispCb' = Idle
    /\ UNCHANGED <<reqVars, start, listLocked, rawQueue, frame, ispFrame, rawdumpList,
                   ispInfoList, rawCb>>

Next == StartDumpRaw \/ Server \/ RawFrame \/ RawCallback \/ IspReport \/ IspCbPop \/ IspCbPush

Spec == Init /\ [][Next]_vars

(* The server's thread and a callback that has begun are scheduled, and the
   sensor goes on delivering frames; when a dump is asked for, and whether the ISP
   reports, is left open. *)
FairSpec == Spec /\ WF_vars(Server) /\ WF_vars(RawFrame) /\ WF_vars(RawCallback)

-----------------------------------------------------------------------------
(* Properties.                                                             *)

(* Every variable holds a value of its kind. *)
TypeOK ==
    /\ req \in [pc : {"idle", "queue", "infos", "lock", "start", "waiting", "signalled",
                      "collect", "dumped", "endDone", "endInfo", "endPool"},
                since : 0 .. MaxFrame, i : Nat, cnt : Nat]
    /\ dumps \in 0 .. MaxDumps
    /\ used \in [raw : 0 .. MaxFrame, info : Frames \cup {NoInfo}]
    /\ start \in {0, 1} /\ listLocked \in BOOLEAN /\ poolAlive \in BOOLEAN
    /\ rawQueue \in 0 .. Count /\ frame \in 0 .. MaxFrame /\ ispFrame \in 0 .. MaxFrame
    /\ rawdumpList \in Seq(Frames) /\ ispInfoList \in Nat /\ isp_done_list \in Seq(Frames)
    /\ rawCb \in [pc : {"idle", "enter", "copy", "signal", "clear"}, frameId : 0 .. MaxFrame]
    /\ ispCb \in [pc : {"idle", "pop", "push"}, frameId : 0 .. MaxFrame]

(* A dump fills a buffer of the client for every image it asked for, each taken after the
   call: nothing of an earlier dump is returned.  The number it returns is the number of
   those images, but for one that found no frame info at all: its buffer is filled, and
   it is not counted. *)
DumpIsFresh ==
    /\ req.pc \in {"collect", "dumped"} =>
         /\ Len(rawdumpList) = Count
         /\ \A k \in DOMAIN rawdumpList : rawdumpList[k] > req.since
    /\ req.pc = "dumped" =>
         req.i = Count + 1 /\ req.cnt = IF used.info = NoInfo THEN Count - 1 ELSE Count

(* The pool is freed only when VI has no raw buffer left and no callback still
   reads one. *)
FreedWhenReturned ==
    ~poolAlive => rawQueue = 0 /\ rawCb.pc \notin {"enter", "copy"}

(* A dump of one frame ends if the flag was up before its frame came and no
   callback of an earlier dump is about to lower it again. *)
DumpReturns ==
    (/\ req.pc = "waiting" /\ Count = 1 /\ rawQueue = 1 /\ start = 1
     /\ rawCb.pc = "idle" /\ frame < MaxFrame)
      ~> (req.pc = "dumped")

(* The warning in ispStartDumpRaw says that without the frame's own info the
   latest frame's info is used. *)
LatestInfoOnMismatch ==
    [][used' # used /\ used'.info \notin {NoInfo, used'.raw} =>
         used'.info = Last(isp_done_list)]_vars
=============================================================================
