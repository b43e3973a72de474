---------------------------- MODULE RawDump_proofs ----------------------------
(* Theorems about RawDump, for every number of images a dump asks for, of frame
   infos, of dumps and of frames. *)
EXTENDS RawDump, Integers, SequencesExt, SequenceTheorems, FiniteSetTheorems,
        TLAPS, WellFoundedInduction

-----------------------------------------------------------------------------
(* Sequences. *)

(* Taking one element out of a sequence leaves a sequence over the same set. *)
LEMMA RemoveAtType ==
    ASSUME NEW S, NEW s \in Seq(S), NEW i \in DOMAIN s
    PROVE  RemoveAt(s, i) \in Seq(S)
BY DEF RemoveAt

-----------------------------------------------------------------------------
(* A raw buffer VI has taken from its queue is in a callback that has not yet told the
   thread of its image. *)
Out == IF rawCb.pc \in {"enter", "copy", "signal"} THEN 1 ELSE 0

(* The images are asked for, handed over, and everything is freed again. *)
Asking    == {"queue", "infos", "lock", "start", "waiting"}
Answering == {"signalled", "collect", "dumped"}
Freeing   == {"endDone", "endInfo", "endPool", "idle"}

(* VI has as many raw buffers as the dump has queued and not got back. *)
BufferInv ==
    /\ req.pc = "queue" => req.i <= Count /\ rawQueue + Out <= req.i
    /\ req.pc \in Asking => poolAlive /\ rawQueue + Out <= Count
    /\ req.pc \notin Asking => rawQueue = 0 /\ Out = 0
    /\ req.pc \in Answering => poolAlive

(* An image is copied while the flag is up, and the flag falls before the next one
   can be: a dump gets one, and the thread is told when it asked for one. *)
ImageInv ==
    /\ req.pc \in Asking \ {"waiting"} => rawdumpList = <<>> /\ rawCb.pc # "signal"
    /\ req.pc \in {"queue", "infos", "lock"} => start = 0 /\ rawCb.pc # "copy"
    /\ req.pc = "start" => listLocked
    /\ req.pc = "waiting" =>
         \/ rawdumpList = <<>> /\ rawCb.pc # "signal"
         \/ /\ Len(rawdumpList) = 1 /\ rawCb.pc # "copy"
            /\ start = 0 \/ rawCb.pc \in {"signal", "clear"}
    /\ req.pc \in Answering => Count = 1 /\ Len(rawdumpList) = 1
    /\ req.pc \in Freeing => rawdumpList = <<>> /\ start = 0
    /\ req.pc = "dumped" => start = 0

(* The one image is paired in the first round of the loop, and counted if it finds an
   info. *)
CountInv ==
    /\ req.pc \in Asking \cup {"signalled"} => req.cnt = 0
    /\ req.pc = "collect" => \/ req.i = 1 /\ req.cnt = 0
                             \/ req.i = 2 /\ req.cnt = IF used.info = NoInfo THEN 0 ELSE 1
    /\ req.pc = "dumped" => req.i = 2 /\ req.cnt = IF used.info = NoInfo THEN 0 ELSE 1

(* What is at work was taken after the call. *)
FreshInv ==
    /\ req.since <= frame
    /\ rawCb.pc \in {"enter", "copy"} => rawCb.frameId > req.since
    /\ \A k \in DOMAIN rawdumpList : rawdumpList[k] > req.since

(* A callback at work has a frame. *)
BusyInv ==
    /\ rawCb.pc # "idle" => rawCb.frameId \in Frames
    /\ ispCb.pc # "idle" => ispCb.frameId \in Frames

(* What the server's thread may be at, and the callback. *)
Request  == [pc : Asking \cup Answering \cup Freeing, since : 0 .. MaxFrame, i : Nat,
             cnt : Nat]
Callback == [pc : {"idle", "enter", "copy", "signal", "clear"}, frameId : 0 .. MaxFrame]

DumpInv == TypeOK /\ BufferInv /\ ImageInv /\ CountInv /\ FreshInv /\ BusyInv

(* A set of naturals that is not empty has a least member. *)
LEMMA Least == ASSUME NEW I \in SUBSET Nat, I # {} PROVE Min(I) \in I
<1>1. PICK x \in I : \A y \in I : <<y, x>> \notin OpToRel(<, Nat)
  BY NatLessThanWellFounded, WFMin
<1>2. \A y \in I : ~(y < x) BY <1>1, Zenon DEF OpToRel
<1>3. \A y \in I : x <= y BY <1>2
<1> QED BY <1>3 DEF Min

(* Taking the first occurrence out of a sequence leaves a sequence over the same set. *)
LEMMA RemoveFirstType ==
    ASSUME NEW S, NEW s \in Seq(S), NEW e
    PROVE  RemoveFirst(s, e) \in Seq(S)
<1> DEFINE I == {k \in 1 .. Len(s) : s[k] = e}
<1>1. CASE I # {}
  <2>1. Min(I) \in I
    <3>1. I \in SUBSET Nat OBVIOUS
    <3> HIDE DEF I
    <3> QED BY <1>1, <3>1, Least
  <2>2. RemoveAt(s, Min(I)) \in Seq(S) BY <2>1, RemoveAtType
  <2>3. SelectInSeq(s, LAMBDA v : v = e) = Min(I) BY <1>1 DEF SelectInSeq
  <2>4. RemoveFirst(s, e) = RemoveAt(s, Min(I)) BY <1>1, <2>3 DEF RemoveFirst
  <2> QED BY <2>2, <2>4
<1>2. CASE I = {} BY <1>2 DEF RemoveFirst
<1> QED BY <1>1, <1>2

(* What TypeOK says of the values the steps compute with, in few words. *)
LEMMA Typed ==
    ASSUME TypeOK
    PROVE  /\ req \in Request /\ rawCb \in Callback /\ Out \in {0, 1}
           /\ rawQueue \in Nat /\ frame \in Nat /\ start \in {0, 1}
BY DEF TypeOK, Request, Callback, Asking, Answering, Freeing, Out

(* Request is what TypeOK asks of req. *)
LEMMA TypedRequest == req' \in Request =>
    req' \in [pc : {"idle", "queue", "infos", "lock", "start", "waiting", "signalled",
                    "collect", "dumped", "endDone", "endInfo", "endPool"},
              since : 0 .. MaxFrame, i : Nat, cnt : Nat]
BY DEF Request, Asking, Answering, Freeing

(* The steps of the server's thread keep the invariant. *)
LEMMA CallStep ==
    ASSUME DumpInv,
           StartDumpRaw \/ QueueRaw \/ PushInfos \/ SetStart \/ CondWait \/ CondReturn
             \/ CollectOne \/ CollectDone \/ EndDumpRaw \/ EndFreeDone \/ EndFreeInfo
             \/ EndFreePool
    PROVE  DumpInv'
<1> USE RawDumpAssumption DEF DumpInv, reqVars, cbVars
<1>1. CASE StartDumpRaw
  <2>1. TypeOK' BY <1>1 DEF StartDumpRaw, TypeOK
  <2>2. BufferInv' BY <1>1 DEF StartDumpRaw, BufferInv, Out, Asking
  <2>3. ImageInv'
    BY <1>1 DEF StartDumpRaw, BufferInv, ImageInv, Out, Asking, Answering, Freeing
  <2>4. FreshInv'
    BY <1>1 DEF StartDumpRaw, TypeOK, BufferInv, ImageInv, FreshInv, Out, Asking, Freeing
  <2>20. CountInv' BY <1>1 DEF StartDumpRaw, CountInv, Asking, TypeOK
  <2>5. BusyInv' BY <1>1 DEF StartDumpRaw, BusyInv
  <2> QED BY <2>1, <2>2, <2>3, <2>4, <2>5, <2>20
<1>2. CASE QueueRaw
  <2>1. req' = [req EXCEPT !.i = @ + 1] \/ req' = [req EXCEPT !.pc = "infos"]
    BY <1>2 DEF QueueRaw
  <2>2. req' \in Request BY <2>1, Typed DEF Request, Asking
  <2>3. rawQueue' \in 0 .. Count BY <1>2, Typed DEF QueueRaw, BufferInv, Request
  <2>4. TypeOK' BY <1>2, <2>2, <2>3, TypedRequest DEF QueueRaw, TypeOK
  <2>5. Out' = Out BY <1>2 DEF QueueRaw, Out
  <2>6. BufferInv'
    <3>1. CASE req.i < Count
      <4>1. /\ req' = [req EXCEPT !.i = @ + 1] /\ rawQueue' = rawQueue + 1
            /\ poolAlive' = poolAlive /\ req.pc = "queue"
        BY <1>2, <3>1 DEF QueueRaw
      <4>2. req'.pc = "queue" /\ req'.i = req.i + 1 BY <4>1
      <4> QED BY <3>1, <4>1, <4>2, <2>5, Typed DEF BufferInv, Asking, Request
    <3>2. CASE ~(req.i < Count)
      <4>1. /\ req' = [req EXCEPT !.pc = "infos"] /\ rawQueue' = rawQueue
            /\ poolAlive' = poolAlive /\ req.pc = "queue"
        BY <1>2, <3>2 DEF QueueRaw
      <4>2. req'.pc = "infos" BY <4>1
      <4> QED BY <4>1, <4>2, <2>5 DEF BufferInv, Asking
    <3> QED BY <3>1, <3>2
  <2>7. ImageInv' BY <1>2 DEF QueueRaw, TypeOK, ImageInv, Asking, Answering
  <2>8. FreshInv' BY <1>2 DEF QueueRaw, TypeOK, FreshInv, Asking, Answering, Freeing, Idle
  <2>20. CountInv' BY <1>2, <2>1 DEF QueueRaw, CountInv, Asking, TypeOK
  <2>9. BusyInv' BY <1>2 DEF QueueRaw, BusyInv
  <2> QED BY <2>4, <2>6, <2>7, <2>8, <2>9, <2>20
<1>3. CASE PushInfos
  <2>1. ispInfoList' \in Nat BY <1>3 DEF PushInfos, TypeOK
  <2>2. TypeOK' BY <1>3, <2>1 DEF PushInfos, TypeOK
  <2>3. BufferInv' BY <1>3 DEF PushInfos, BufferInv, Out, Asking
  <2>4. ImageInv' BY <1>3 DEF PushInfos, ImageInv, Asking, Answering
  <2>5. FreshInv' BY <1>3 DEF PushInfos, FreshInv
  <2>20. CountInv' BY <1>3 DEF PushInfos, CountInv, Asking, TypeOK
  <2>6. BusyInv' BY <1>3 DEF PushInfos, BusyInv
  <2> QED BY <2>2, <2>3, <2>4, <2>5, <2>6, <2>20
<1>4. CASE SetStart
  <2>1. TypeOK' BY <1>4 DEF SetStart, TypeOK
  <2>2. BufferInv' BY <1>4 DEF SetStart, BufferInv, Out, Asking
  <2>3. ImageInv' BY <1>4 DEF SetStart, ImageInv, Asking, Answering, Freeing
  <2>4. FreshInv' BY <1>4 DEF SetStart, FreshInv
  <2>20. CountInv' BY <1>4 DEF SetStart, CountInv, Asking, TypeOK
  <2>5. BusyInv' BY <1>4 DEF SetStart, BusyInv
  <2> QED BY <2>1, <2>2, <2>3, <2>4, <2>5, <2>20
<1>5. CASE CondWait
  <2>1. TypeOK' BY <1>5 DEF CondWait, TypeOK
  <2>2. BufferInv' BY <1>5 DEF CondWait, BufferInv, Out, Asking
  <2>3. ImageInv' BY <1>5 DEF CondWait, ImageInv, Asking, Answering, Freeing
  <2>4. FreshInv' BY <1>5 DEF CondWait, FreshInv
  <2>20. CountInv' BY <1>5 DEF CondWait, CountInv, Asking, TypeOK
  <2>5. BusyInv' BY <1>5 DEF CondWait, BusyInv
  <2> QED BY <2>1, <2>2, <2>3, <2>4, <2>5, <2>20
<1>6. CASE CondReturn
  <2>1. TypeOK' BY <1>6 DEF CondReturn, TypeOK
  <2>2. BufferInv' BY <1>6 DEF CondReturn, BufferInv, Out, Asking, Answering
  <2>3. ImageInv' BY <1>6 DEF CondReturn, ImageInv, Asking, Answering, Freeing
  <2>4. FreshInv' BY <1>6 DEF CondReturn, FreshInv
  <2>20. CountInv' BY <1>6 DEF CondReturn, CountInv, Asking, TypeOK
  <2>5. BusyInv' BY <1>6 DEF CondReturn, BusyInv
  <2> QED BY <2>1, <2>2, <2>3, <2>4, <2>5, <2>20
<1>7. CASE CollectOne
  <2>1. req' \in Request
    <3>1. req \in Request BY Typed
    <3>2. PICK n \in {req.cnt, req.cnt + 1} : req' = [req EXCEPT !.i = req.i + 1, !.cnt = n]
      BY <1>7 DEF CollectOne
    <3>3. req.i + 1 \in Nat /\ n \in Nat BY <3>1 DEF Request
    <3> QED BY <3>1, <3>2, <3>3 DEF Request
  <2>2. rawdumpList[req.i] \in Frames BY <1>7 DEF CollectOne, TypeOK
  <2>3. InfoFor(rawdumpList[req.i]) \in Frames \cup {NoInfo}
    <3>1. isp_done_list \in Seq(Frames) BY DEF TypeOK
    <3>2. isp_done_list # <<>> => Head(isp_done_list) \in Frames
      BY <3>1, HeadTailProperties
    <3> QED BY <2>2, <3>2 DEF InfoFor
  <2>4. used' \in [raw : 0 .. MaxFrame, info : Frames \cup {NoInfo}]
    BY <1>7, <2>2, <2>3 DEF CollectOne, Frames
  <2>5. isp_done_list' \in Seq(Frames) /\ ispInfoList' \in Nat
    <3>1. RemoveFirst(isp_done_list, rawdumpList[req.i]) \in Seq(Frames)
      BY RemoveFirstType DEF TypeOK
    <3>2. \/ /\ isp_done_list' = RemoveFirst(isp_done_list, rawdumpList[req.i])
             /\ ispInfoList' = ispInfoList + 1
          \/ UNCHANGED <<isp_done_list, ispInfoList>>
      BY <1>7 DEF CollectOne
    <3>3. isp_done_list \in Seq(Frames) /\ ispInfoList \in Nat BY DEF TypeOK
    <3> QED BY <3>1, <3>2, <3>3
  <2>6. TypeOK' BY <1>7, <2>1, <2>4, <2>5, TypedRequest DEF CollectOne, TypeOK
  <2>7. BufferInv' BY <1>7 DEF CollectOne, BufferInv, Out
  <2>8. ImageInv' BY <1>7 DEF CollectOne, ImageInv
  <2>9. FreshInv' BY <1>7 DEF CollectOne, FreshInv
  <2>20. CountInv'
    <3>1. DOMAIN rawdumpList = {1} /\ Count = 1
      <4>1. Len(rawdumpList) = 1 /\ Count = 1 BY <1>7 DEF CollectOne, ImageInv, Answering
      <4> QED BY <4>1, LenProperties DEF TypeOK
    <3>2. req.pc = "collect" /\ req.i = 1 /\ req.cnt = 0
      BY <1>7, <3>1 DEF CollectOne, CountInv
    <3>3. /\ used'.info = InfoFor(rawdumpList[req.i]) /\ req'.pc = "collect"
          /\ req'.i = 2 /\ req'.cnt = IF used'.info = NoInfo THEN 0 ELSE 1
      BY <1>7, <3>2, Typed DEF CollectOne, Request
    <3> QED BY <3>3 DEF CountInv, Asking
  <2>10. BusyInv' BY <1>7 DEF CollectOne, BusyInv
  <2> QED BY <2>6, <2>7, <2>8, <2>9, <2>10, <2>20
<1>8. CASE CollectDone
  <2>1. TypeOK' BY <1>8 DEF CollectDone, TypeOK
  <2>2. BufferInv' BY <1>8 DEF CollectDone, BufferInv, Out, Asking, Answering
  <2>3. ImageInv' BY <1>8 DEF CollectDone, ImageInv, Asking, Answering, Freeing
  <2>4. FreshInv' BY <1>8 DEF CollectDone, FreshInv
  <2>20. CountInv'
    <3>1. DOMAIN rawdumpList = {1} /\ Count = 1
      <4>1. Len(rawdumpList) = 1 /\ Count = 1 BY <1>8 DEF CollectDone, ImageInv, Answering
      <4> QED BY <4>1, LenProperties DEF TypeOK
    <3>2. req.i = 2 BY <1>8, <3>1 DEF CollectDone, CountInv
    <3> QED BY <1>8, <3>2 DEF CollectDone, CountInv, Asking
  <2>5. BusyInv' BY <1>8 DEF CollectDone, BusyInv
  <2> QED BY <2>1, <2>2, <2>3, <2>4, <2>5, <2>20
<1>9. CASE EndDumpRaw
  <2>1. rawdumpList' = <<>>
    <3>1. rawdumpList \in Seq(Frames) /\ Len(rawdumpList) = 1
      BY <1>9 DEF EndDumpRaw, TypeOK, ImageInv, Answering
    <3>2. Tail(rawdumpList) \in Seq(Frames) /\ Len(Tail(rawdumpList)) = 0
      BY <3>1, HeadTailProperties, EmptySeq
    <3>3. Tail(rawdumpList) = <<>> BY <3>2, EmptySeq
    <3> QED BY <1>9, <3>3 DEF EndDumpRaw
  <2>2. <<>> \in Seq(Frames) BY EmptySeq
  <2>3. TypeOK' BY <1>9, <2>1, <2>2 DEF EndDumpRaw, TypeOK
  <2>4. BufferInv' BY <1>9 DEF EndDumpRaw, BufferInv, Out, Asking, Answering
  <2>5. ImageInv' BY <1>9, <2>1 DEF EndDumpRaw, ImageInv, Asking, Answering
  <2>6. FreshInv' BY <1>9, <2>1 DEF EndDumpRaw, FreshInv
  <2>20. CountInv' BY <1>9 DEF EndDumpRaw, CountInv, Asking, TypeOK
  <2>7. BusyInv' BY <1>9 DEF EndDumpRaw, BusyInv
  <2> QED BY <2>3, <2>4, <2>5, <2>6, <2>7, <2>20
<1>10. CASE EndFreeDone
  <2>1. isp_done_list' \in Seq(Frames) BY <1>10, EmptySeq DEF EndFreeDone
  <2>2. TypeOK' BY <1>10, <2>1 DEF EndFreeDone, TypeOK
  <2>3. BufferInv' BY <1>10 DEF EndFreeDone, BufferInv, Out, Asking, Answering
  <2>4. ImageInv' BY <1>10 DEF EndFreeDone, BufferInv, ImageInv, Out, Answering, Freeing
  <2>5. FreshInv' BY <1>10 DEF EndFreeDone, FreshInv
  <2>20. CountInv' BY <1>10 DEF EndFreeDone, CountInv, Asking, TypeOK
  <2>6. BusyInv' BY <1>10 DEF EndFreeDone, BusyInv
  <2> QED BY <2>2, <2>3, <2>4, <2>5, <2>6, <2>20
<1>11. CASE EndFreeInfo
  <2>1. TypeOK' BY <1>11 DEF EndFreeInfo, TypeOK
  <2>2. BufferInv' BY <1>11 DEF EndFreeInfo, BufferInv, Out, Asking, Answering
  <2>3. ImageInv' BY <1>11 DEF EndFreeInfo, BufferInv, ImageInv, Out, Answering, Freeing
  <2>4. FreshInv' BY <1>11 DEF EndFreeInfo, FreshInv
  <2>20. CountInv' BY <1>11 DEF EndFreeInfo, CountInv, Asking, TypeOK
  <2>5. BusyInv' BY <1>11 DEF EndFreeInfo, BusyInv
  <2> QED BY <2>1, <2>2, <2>3, <2>4, <2>5, <2>20
<1>12. CASE EndFreePool
  <2>1. TypeOK' BY <1>12 DEF EndFreePool, TypeOK
  <2>2. BufferInv' BY <1>12 DEF EndFreePool, BufferInv, Out, Asking, Answering
  <2>3. ImageInv' BY <1>12 DEF EndFreePool, BufferInv, ImageInv, Out, Answering, Freeing
  <2>4. FreshInv' BY <1>12 DEF EndFreePool, FreshInv
  <2>20. CountInv' BY <1>12 DEF EndFreePool, CountInv, Asking, TypeOK
  <2>5. BusyInv' BY <1>12 DEF EndFreePool, BusyInv
  <2> QED BY <2>1, <2>2, <2>3, <2>4, <2>5, <2>20
<1> QED BY <1>1, <1>2, <1>3, <1>4, <1>5, <1>6, <1>7, <1>8, <1>9, <1>10, <1>11, <1>12

(* The steps of VI, the ISP and their callbacks keep the invariant. *)
LEMMA LibraryStep ==
    ASSUME DumpInv,
           RawFrame \/ RawCbEnter \/ RawCbPush \/ RawCbSignal \/ RawCbClear
             \/ IspReport \/ IspCbPop \/ IspCbPush
    PROVE  DumpInv'
<1> USE RawDumpAssumption DEF DumpInv, reqVars, cbVars
<1>1. CASE RawFrame
  <2>1. TypeOK' BY <1>1 DEF RawFrame, TypeOK
  <2>2. BufferInv'
    <3>1. UNCHANGED <<req, poolAlive>> BY <1>1 DEF RawFrame
    <3>2. rawQueue' + Out' = rawQueue + Out /\ (rawQueue = 0 => UNCHANGED <<rawQueue, Out>>)
      BY <1>1, Typed DEF RawFrame, Out
    <3> QED BY <3>1, <3>2 DEF BufferInv
  <2>3. ImageInv' BY <1>1 DEF RawFrame, ImageInv
  <2>4. FreshInv' BY <1>1 DEF RawFrame, TypeOK, FreshInv
  <2>20. CountInv' BY <1>1 DEF RawFrame, CountInv
  <2>5. BusyInv' BY <1>1 DEF RawFrame, TypeOK, BusyInv, Frames
  <2> QED BY <2>1, <2>2, <2>3, <2>4, <2>5, <2>20
<1>2. CASE RawCbEnter
  <2>1. rawCb' \in Callback BY <1>2, Typed DEF RawCbEnter, Callback, Idle
  <2>2. TypeOK' BY <1>2, <2>1 DEF RawCbEnter, TypeOK, Callback
  <2>3. BufferInv' BY <1>2 DEF RawCbEnter, TypeOK, BufferInv, Out
  <2>4. ImageInv' BY <1>2 DEF RawCbEnter, ImageInv, Idle
  <2>5. FreshInv' BY <1>2 DEF RawCbEnter, FreshInv, Idle
  <2>20. CountInv' BY <1>2 DEF RawCbEnter, CountInv
  <2>6. BusyInv' BY <1>2 DEF RawCbEnter, BusyInv, Idle
  <2> QED BY <2>2, <2>3, <2>4, <2>5, <2>6, <2>20
<1>3. CASE RawCbPush
  <2>1. rawCb' \in Callback BY <1>3, Typed DEF RawCbPush, Callback
  <2>2. rawdumpList' \in Seq(Frames)
    BY <1>3, AppendProperties DEF RawCbPush, TypeOK, BusyInv
  <2>3. TypeOK' BY <1>3, <2>1, <2>2 DEF RawCbPush, TypeOK
  <2>4. BufferInv' BY <1>3 DEF RawCbPush, BufferInv, Out
  <2>5. ImageInv' BY <1>3 DEF RawCbPush, BufferInv, ImageInv, Out, Asking, Answering, Freeing
  <2>6. FreshInv' BY <1>3 DEF RawCbPush, BufferInv, ImageInv, FreshInv, Asking, Answering
  <2>20. CountInv' BY <1>3 DEF RawCbPush, CountInv
  <2>7. BusyInv' BY <1>3 DEF RawCbPush, BusyInv
  <2> QED BY <2>3, <2>4, <2>5, <2>6, <2>7, <2>20
<1>4. CASE RawCbSignal
  <2>1. TypeOK' BY <1>4 DEF RawCbSignal, TypeOK
  <2>2. BufferInv'
    <3>1. Out' = 0 /\ Out = 1 BY <1>4 DEF RawCbSignal, Out
    <3>2. UNCHANGED <<rawQueue, poolAlive>> BY <1>4 DEF RawCbSignal
    <3>3. CASE UNCHANGED req BY <3>1, <3>2, <3>3, Typed DEF BufferInv, Request
    <3>4. CASE req' # req
      <4>1. /\ req' = [req EXCEPT !.pc = "signalled"]
            /\ req.pc = "waiting" /\ Len(rawdumpList) = Count
        BY <1>4, <3>4 DEF RawCbSignal
      <4>2. Count = 1 BY <1>4, <4>1, EmptySeq DEF ImageInv
      <4>3. req'.pc = "signalled" BY <4>1
      <4> QED BY <3>1, <3>2, <4>1, <4>2, <4>3, Typed DEF BufferInv
    <3> QED BY <3>3, <3>4
  <2>3. ImageInv' BY <1>4 DEF RawCbSignal, TypeOK, ImageInv, Asking, Freeing, Idle
  <2>4. FreshInv' BY <1>4 DEF RawCbSignal, TypeOK, FreshInv
  <2>20. CountInv' BY <1>4, Typed DEF RawCbSignal, CountInv, Asking, Request
  <2>5. BusyInv' BY <1>4 DEF RawCbSignal, BusyInv
  <2> QED BY <2>1, <2>2, <2>3, <2>4, <2>5, <2>20
<1>5. CASE RawCbClear
  <2>1. TypeOK' BY <1>5 DEF RawCbClear, TypeOK, Idle
  <2>2. BufferInv' BY <1>5 DEF RawCbClear, BufferInv, Out, Idle
  <2>3. ImageInv' BY <1>5 DEF RawCbClear, ImageInv, Idle
  <2>4. FreshInv' BY <1>5 DEF RawCbClear, FreshInv, Idle
  <2>20. CountInv' BY <1>5 DEF RawCbClear, CountInv
  <2>5. BusyInv' BY <1>5 DEF RawCbClear, BusyInv, Idle
  <2> QED BY <2>1, <2>2, <2>3, <2>4, <2>5, <2>20
<1>6. CASE IspReport
  <2>1. TypeOK' BY <1>6 DEF IspReport, TypeOK, Idle
  <2>2. BufferInv' BY <1>6 DEF IspReport, BufferInv, Out
  <2>3. ImageInv' BY <1>6 DEF IspReport, ImageInv
  <2>4. FreshInv' BY <1>6 DEF IspReport, FreshInv
  <2>20. CountInv' BY <1>6 DEF IspReport, CountInv
  <2>5. BusyInv' BY <1>6 DEF IspReport, TypeOK, BusyInv, Idle, Frames
  <2> QED BY <2>1, <2>2, <2>3, <2>4, <2>5, <2>20
<1>7. CASE IspCbPop
  <2>1. TypeOK' BY <1>7 DEF IspCbPop, TypeOK, Idle
  <2>2. BufferInv' BY <1>7 DEF IspCbPop, BufferInv, Out
  <2>3. ImageInv' BY <1>7 DEF IspCbPop, ImageInv
  <2>4. FreshInv' BY <1>7 DEF IspCbPop, FreshInv
  <2>20. CountInv' BY <1>7 DEF IspCbPop, CountInv
  <2>5. BusyInv'
    <3>1. \/ ispCb' = [ispCb EXCEPT !.pc = "push"]
          \/ ispCb' = Idle
      BY <1>7 DEF IspCbPop
    <3>2. ispCb'.pc # "idle" => ispCb'.frameId = ispCb.frameId /\ ispCb.pc = "pop"
      BY <1>7, <3>1 DEF IspCbPop, Idle, TypeOK
    <3> QED BY <1>7, <3>2 DEF IspCbPop, BusyInv
  <2> QED BY <2>1, <2>2, <2>3, <2>4, <2>5, <2>20
<1>8. CASE IspCbPush
  <2>1. TypeOK' BY <1>8 DEF IspCbPush, TypeOK, BusyInv, Idle
  <2>2. BufferInv' BY <1>8 DEF IspCbPush, BufferInv, Out
  <2>3. ImageInv' BY <1>8 DEF IspCbPush, ImageInv
  <2>4. FreshInv' BY <1>8 DEF IspCbPush, FreshInv
  <2>20. CountInv' BY <1>8 DEF IspCbPush, CountInv
  <2>5. BusyInv' BY <1>8 DEF IspCbPush, BusyInv, Idle
  <2> QED BY <2>1, <2>2, <2>3, <2>4, <2>5, <2>20
<1> QED BY <1>1, <1>2, <1>3, <1>4, <1>5, <1>6, <1>7, <1>8

(* The initial state, the steps and the stuttering steps keep the invariant. *)
LEMMA DumpInvariant == Spec => []DumpInv
<1>1. Init => DumpInv
  <2> SUFFICES ASSUME Init PROVE DumpInv OBVIOUS
  <2>1. TypeOK
    <3>1. <<>> \in Seq(Frames) BY EmptySeq
    <3>2. 0 \in 0 .. MaxFrame /\ 0 \in 0 .. MaxDumps /\ 0 \in 0 .. Count
      BY RawDumpAssumption
    <3>3. /\ req = [pc |-> "idle", since |-> 0, i |-> 0, cnt |-> 0]
          /\ used = [raw |-> 0, info |-> NoInfo]
          /\ rawCb = [pc |-> "idle", frameId |-> 0] /\ ispCb = [pc |-> "idle", frameId |-> 0]
      BY DEF Init, Idle
    <3>4. /\ dumps = 0 /\ start = 0 /\ listLocked = FALSE /\ poolAlive = FALSE
          /\ rawQueue = 0 /\ frame = 0 /\ ispFrame = 0
          /\ rawdumpList = <<>> /\ ispInfoList = 0 /\ isp_done_list = <<>>
      BY DEF Init
    <3> QED BY <3>1, <3>2, <3>3, <3>4 DEF TypeOK
  <2> QED
    BY <2>1 DEF Init, DumpInv, BufferInv, ImageInv, CountInv, FreshInv, BusyInv, Out, Asking,
                Answering, Freeing, Idle
<1>2. DumpInv /\ [Next]_vars => DumpInv'
  <2> SUFFICES ASSUME DumpInv, [Next]_vars PROVE DumpInv' OBVIOUS
  <2>1. CASE StartDumpRaw \/ Server BY <2>1, CallStep DEF Server
  <2>2. CASE RawFrame \/ RawCallback \/ IspReport \/ IspCbPop \/ IspCbPush
    BY <2>2, LibraryStep DEF RawCallback
  <2>3. CASE UNCHANGED vars
    <3>1. UNCHANGED <<req, dumps, used, poolAlive, start, listLocked, rawQueue, frame,
                      ispFrame, rawdumpList, ispInfoList, isp_done_list, rawCb, ispCb>>
      BY <2>3 DEF vars, reqVars, cbVars
    <3> QED BY <3>1 DEF DumpInv, TypeOK, BufferInv, ImageInv, CountInv, FreshInv, BusyInv, Out
  <2> QED BY <2>1, <2>2, <2>3 DEF Next
<1> QED BY <1>1, <1>2, PTL DEF Spec

(* Every variable of the raw dump holds a value of its kind; in particular no more
   raw buffers are queued to VI than the pool has. *)
THEOREM DumpTypeCorrect == Spec => []TypeOK
BY DumpInvariant, PTL DEF DumpInv

(* A dump fills as many buffers of the client as it asked for, all with images taken after
   the call, however many dumps were made before; it counts them all, unless there was no
   frame info at all. *)
THEOREM DumpsAreFresh == Spec => []DumpIsFresh
<1>1. DumpInv => DumpIsFresh
  <2> SUFFICES ASSUME DumpInv PROVE DumpIsFresh OBVIOUS
  <2>1. req.pc \in {"collect", "dumped"} =>
          /\ Len(rawdumpList) = Count
          /\ \A k \in DOMAIN rawdumpList : rawdumpList[k] > req.since
    BY DEF DumpInv, ImageInv, FreshInv, Answering
  <2>2. req.pc = "dumped" =>
          req.i = Count + 1 /\ req.cnt = IF used.info = NoInfo THEN Count - 1 ELSE Count
    BY DEF DumpInv, ImageInv, CountInv, Answering
  <2> QED BY <2>1, <2>2 DEF DumpIsFresh
<1> QED BY <1>1, DumpInvariant, PTL

(* The pool is never freed under VI or its callback. *)
THEOREM PoolOutlivesVi == Spec => []FreedWhenReturned
<1>1. DumpInv => FreedWhenReturned
  BY DEF DumpInv, TypeOK, BufferInv, Out, Asking, Answering, FreedWhenReturned
<1> QED BY <1>1, DumpInvariant, PTL

(* A dump of more than one image hands nothing to the client. *)
LongDumpHangs == Count > 1 => req.pc \notin Answering

(* The callback lowers the flag after every image, and nothing raises it again during
   the dump: a dump of more than one image never wakes its thread. *)
THEOREM OnlyOneImageReturns == Spec => []LongDumpHangs
<1>1. DumpInv => LongDumpHangs
  BY RawDumpAssumption DEF DumpInv, ImageInv, LongDumpHangs
<1> QED BY <1>1, DumpInvariant, PTL
=============================================================================
