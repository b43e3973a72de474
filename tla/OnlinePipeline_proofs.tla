------------------------ MODULE OnlinePipeline_proofs ------------------------
(* Theorems about OnlinePipeline, for every number of buffers, frames and
   sessions and for both ways of running it. *)
EXTENDS OnlinePipeline, Integers, SequencesExt, SequenceTheorems, FiniteSetTheorems,
        TLAPS

-----------------------------------------------------------------------------
(* Sequences. *)

(* Taking one element out of a sequence leaves a sequence over the same set. *)
LEMMA RemoveAtType ==
    ASSUME NEW S, NEW s \in Seq(S), NEW i \in DOMAIN s
    PROVE  RemoveAt(s, i) \in Seq(S)
BY DEF RemoveAt

(* The elements after it move up by one. *)
LEMMA RemoveAtIndex ==
    ASSUME NEW S, NEW s \in Seq(S), NEW k \in DOMAIN s
    PROVE  /\ RemoveAt(s, k) \in Seq(S)
           /\ Len(s) \in Nat /\ Len(RemoveAt(s, k)) = Len(s) - 1
           /\ DOMAIN RemoveAt(s, k) = 1 .. Len(s) - 1
           /\ \A i \in 1 .. k - 1 : RemoveAt(s, k)[i] = s[i]
           /\ \A i \in k .. Len(s) - 1 : RemoveAt(s, k)[i] = s[i + 1]
<1> DEFINE a == SubSeq(s, 1, k - 1)
           b == SubSeq(s, k + 1, Len(s))
           r == RemoveAt(s, k)
<1>1. DOMAIN s = 1 .. Len(s) /\ Len(s) \in Nat /\ k \in 1 .. Len(s)
  BY LenProperties
<1>2. /\ a \in Seq(S) /\ Len(a) = k - 1
      /\ \A n \in 1 .. k - 1 : a[n] = s[n]
  BY <1>1, SubSeqProperties
<1>3. /\ b \in Seq(S) /\ Len(b) = Len(s) - k
      /\ \A n \in 1 .. Len(s) - k : b[n] = s[k + n]
  <2>1. \A n \in k + 1 .. Len(s) : s[n] \in S BY <1>1
  <2>2. /\ b \in Seq(S) /\ Len(b) = IF k + 1 <= Len(s) THEN Len(s) - (k + 1) + 1 ELSE 0
        /\ \A n \in 1 .. Len(s) - (k + 1) + 1 : b[n] = s[(k + 1) + n - 1]
    BY <1>1, <2>1, SubSeqProperties
  <2> HIDE DEF b
  <2>3. ASSUME NEW n \in 1 .. Len(s) - k PROVE b[n] = s[k + n]
    <3>1. n \in 1 .. Len(s) - (k + 1) + 1 /\ (k + 1) + n - 1 = k + n BY <1>1
    <3> QED BY <2>2, <3>1
  <2>4. Len(b) = Len(s) - k BY <1>1, <2>2
  <2> QED BY <2>2, <2>3, <2>4
<1>4. r = a \o b BY DEF RemoveAt
<1> HIDE DEF a, b, r
<1>5. /\ r \in Seq(S) /\ Len(r) = Len(a) + Len(b)
      /\ \A n \in 1 .. Len(a) + Len(b) : r[n] = IF n <= Len(a) THEN a[n] ELSE b[n - Len(a)]
  BY <1>2, <1>3, <1>4, ConcatProperties
<1>6. DOMAIN r = 1 .. Len(s) - 1 /\ Len(r) = Len(s) - 1
  BY <1>1, <1>2, <1>3, <1>5, LenProperties
<1>7. ASSUME NEW i \in 1 .. k - 1 PROVE r[i] = s[i]
  <2>1. i \in 1 .. Len(a) + Len(b) /\ i <= Len(a) BY <1>1, <1>2, <1>3
  <2> QED BY <1>2, <1>5, <2>1
<1>8. ASSUME NEW i \in k .. Len(s) - 1 PROVE r[i] = s[i + 1]
  <2>1. i \in 1 .. Len(a) + Len(b) /\ ~(i <= Len(a)) /\ i - Len(a) = i + 1 - k
    BY <1>1, <1>2, <1>3
  <2>2. i + 1 - k \in 1 .. Len(s) - k /\ k + (i + 1 - k) = i + 1 BY <1>1
  <2>3. r[i] = b[i + 1 - k] BY <1>5, <2>1
  <2> QED BY <1>3, <2>2, <2>3
<1> QED BY <1>1, <1>5, <1>6, <1>7, <1>8 DEF r

(* Every other element is still in it, and nothing new. *)
LEMMA RemoveAtKeeps ==
    ASSUME NEW S, NEW s \in Seq(S), NEW k \in DOMAIN s
    PROVE  /\ \A i \in DOMAIN s \ {k} :
                  \E j \in DOMAIN RemoveAt(s, k) : RemoveAt(s, k)[j] = s[i]
           /\ \A j \in DOMAIN RemoveAt(s, k) :
                  \E i \in DOMAIN s \ {k} : RemoveAt(s, k)[j] = s[i]
<1> DEFINE r == RemoveAt(s, k)
<1>1. DOMAIN s = 1 .. Len(s) /\ Len(s) \in Nat /\ k \in 1 .. Len(s) BY LenProperties
<1>2. /\ DOMAIN r = 1 .. Len(s) - 1
      /\ \A i \in 1 .. k - 1 : r[i] = s[i]
      /\ \A i \in k .. Len(s) - 1 : r[i] = s[i + 1]
  BY RemoveAtIndex
<1> HIDE DEF r
<1>3. ASSUME NEW i \in DOMAIN s \ {k} PROVE \E j \in DOMAIN r : r[j] = s[i]
  <2>1. CASE i < k
    <3>1. i \in 1 .. k - 1 /\ i \in 1 .. Len(s) - 1 BY <1>1, <2>1
    <3> QED BY <1>2, <3>1
  <2>2. CASE ~(i < k)
    <3>1. i - 1 \in k .. Len(s) - 1 /\ i - 1 \in 1 .. Len(s) - 1 /\ i - 1 + 1 = i
      BY <1>1, <2>2
    <3> QED BY <1>2, <3>1
  <2> QED BY <2>1, <2>2
<1>4. ASSUME NEW j \in DOMAIN r PROVE \E i \in DOMAIN s \ {k} : r[j] = s[i]
  <2>1. CASE j < k
    <3>1. j \in 1 .. k - 1 /\ j \in 1 .. Len(s) /\ j # k BY <1>1, <1>2, <2>1
    <3> QED BY <1>1, <1>2, <3>1
  <2>2. CASE ~(j < k)
    <3>1. j \in k .. Len(s) - 1 /\ j + 1 \in 1 .. Len(s) /\ j + 1 # k BY <1>1, <1>2, <2>2
    <3> QED BY <1>1, <1>2, <3>1
  <2> QED BY <2>1, <2>2
<1> QED BY <1>3, <1>4 DEF r

-----------------------------------------------------------------------------
(* Type correctness. *)

(* The initial state is well typed. *)
LEMMA TypeInit == Init => TypeOK
<1> SUFFICES ASSUME Init PROVE TypeOK OBVIOUS
<1> USE DEF Init
<1>1. ControlType
  <2>1. frame \in 0 .. MaxFrame /\ ispFrame \in 0 .. MaxFrame BY PipelineAssumption
  <2> QED BY <2>1 DEF ControlType, MainPcs
<1>2. BufferType BY DEF BufferType
<1>3. ListType BY DEF ListType
<1>4. CallbackType BY PipelineAssumption DEF CallbackType, NoVi, NoIsp, NoCpp
<1>5. ThreadType BY DEF ThreadType
<1> QED BY <1>1, <1>2, <1>3, <1>4, <1>5 DEF TypeOK

(* A part of TypeOK depends on its own variables only. *)
LEMMA Untouched ==
    ASSUME TypeOK
    PROVE  /\ UNCHANGED <<main, autoRunDone, sessions, listsAlive, streamOnFlag,
                          threadRunning, viOn, ispOn, cppOn, frame, ispFrame>>
                => ControlType'
           /\ UNCHANGED <<viPool, cppPool, rawPool, viQueue, rawQueue, infoQueue, cppIn,
                          cppOut, viLost>> => BufferType'
           /\ UNCHANGED <<vi_out_list, isp_out_list, cpp_out_list>> => ListType'
           /\ UNCHANGED <<viCb, ispCb, cppCb>> => CallbackType'
           /\ UNCHANGED proc => ThreadType'
BY DEF TypeOK, ControlType, BufferType, ListType, CallbackType, ThreadType

(* A step of the main thread keeps the state well typed. *)
LEMMA TypeMain == ASSUME TypeOK, Main PROVE TypeOK'
<1> USE PipelineAssumption
<1>1. CASE TestBufferPrepare
    <2>1. ControlType' BY <1>1 DEF TestBufferPrepare, TypeOK, ControlType, MainPcs,
        ctlVars, unitVars, cbVars, threadVars
    <2>2. BufferType' BY <1>1 DEF TestBufferPrepare, TypeOK, BufferType, ctlVars,
        unitVars, cbVars, threadVars
    <2>3. ListType' BY <1>1 DEF TestBufferPrepare, TypeOK, ListType, BufferType
    <2>4. CallbackType' /\ ThreadType' BY <1>1, Untouched DEF TestBufferPrepare,
        ctlVars, unitVars, cbVars, threadVars
  <2> QED BY <2>1, <2>2, <2>3, <2>4 DEF TypeOK
<1>2. CASE CppStart
    <2>1. ControlType' BY <1>2 DEF CppStart, TypeOK, ControlType, MainPcs, ctlVars,
        poolVars, queueVars, listVars, cbVars, threadVars
    <2>2. BufferType' /\ ListType' /\ CallbackType' /\ ThreadType' BY <1>2, Untouched
        DEF CppStart, ctlVars, poolVars, queueVars, listVars, cbVars, threadVars
  <2> QED BY <2>1, <2>2 DEF TypeOK
<1>3. CASE StreamOn
    <2>1. ControlType' BY <1>3 DEF StreamOn, TypeOK, ControlType, MainPcs, ctlVars,
        poolVars, queueVars, listVars, cbVars, threadVars
    <2>2. BufferType' /\ ListType' /\ CallbackType' /\ ThreadType' BY <1>3, Untouched
        DEF StreamOn, ctlVars, poolVars, queueVars, listVars, cbVars, threadVars
  <2> QED BY <2>1, <2>2 DEF TypeOK
<1>4. CASE SetStreamOnFlag
    <2>1. ControlType' BY <1>4 DEF SetStreamOnFlag, TypeOK, ControlType, MainPcs,
        unitVars, poolVars, queueVars, listVars, cbVars, threadVars
    <2>2. BufferType' /\ ListType' /\ CallbackType' /\ ThreadType' BY <1>4, Untouched
        DEF SetStreamOnFlag, unitVars, poolVars, queueVars, listVars, cbVars, threadVars
  <2> QED BY <2>1, <2>2 DEF TypeOK
<1>5. CASE DumpRawKey
    <2>1. BufferType' BY <1>5 DEF DumpRawKey, TypeOK, BufferType, ctlVars, unitVars,
        listVars, cbVars, threadVars
    <2>2. ControlType' /\ ListType' /\ CallbackType' /\ ThreadType' BY <1>5, Untouched
        DEF DumpRawKey, ctlVars, unitVars, listVars, cbVars, threadVars
  <2> QED BY <2>1, <2>2 DEF TypeOK
<1>6. CASE ClearStreamOnFlag
    <2>1. ControlType' BY <1>6 DEF ClearStreamOnFlag, TypeOK, ControlType, MainPcs,
        unitVars, poolVars, queueVars, listVars, cbVars, threadVars
    <2>2. BufferType' /\ ListType' /\ CallbackType' /\ ThreadType' BY <1>6, Untouched
        DEF ClearStreamOnFlag, unitVars, poolVars, queueVars, listVars, cbVars,
        threadVars
  <2> QED BY <2>1, <2>2 DEF TypeOK
<1>7. CASE ViStreamOff
    <2>1. ControlType' BY <1>7 DEF ViStreamOff, TypeOK, ControlType, MainPcs, ctlVars,
        poolVars, listVars, cbVars, threadVars
    <2>2. BufferType' BY <1>7 DEF ViStreamOff, TypeOK, BufferType, ctlVars, poolVars,
        listVars, cbVars, threadVars
    <2>3. ListType' /\ CallbackType' /\ ThreadType' BY <1>7, Untouched DEF ViStreamOff,
        ctlVars, poolVars, listVars, cbVars, threadVars
  <2> QED BY <2>1, <2>2, <2>3 DEF TypeOK
<1>8. CASE IspFlush
    <2>1. ControlType' BY <1>8 DEF IspFlush, TypeOK, ControlType, MainPcs, ctlVars,
        unitVars, poolVars, listVars, cbVars, threadVars
    <2>2. BufferType' BY <1>8 DEF IspFlush, TypeOK, BufferType, ctlVars, unitVars,
        poolVars, listVars, cbVars, threadVars
    <2>3. ListType' /\ CallbackType' /\ ThreadType' BY <1>8, Untouched DEF IspFlush,
        ctlVars, unitVars, poolVars, listVars, cbVars, threadVars
  <2> QED BY <2>1, <2>2, <2>3 DEF TypeOK
<1>9. CASE IspStreamOff
    <2>1. ControlType' BY <1>9 DEF IspStreamOff, TypeOK, ControlType, MainPcs, ctlVars,
        poolVars, queueVars, listVars, cbVars, threadVars
    <2>2. BufferType' /\ ListType' /\ CallbackType' /\ ThreadType' BY <1>9, Untouched
        DEF IspStreamOff, ctlVars, poolVars, queueVars, listVars, cbVars, threadVars
  <2> QED BY <2>1, <2>2 DEF TypeOK
<1>10. CASE CppStop
    <2>1. ControlType' BY <1>10 DEF CppStop, TypeOK, ControlType, MainPcs, ctlVars,
        poolVars, listVars, cbVars, threadVars
    <2>2. BufferType' BY <1>10 DEF CppStop, TypeOK, BufferType, ctlVars, poolVars,
        listVars, cbVars, threadVars
    <2>3. ListType' /\ CallbackType' /\ ThreadType' BY <1>10, Untouched DEF CppStop,
        ctlVars, poolVars, listVars, cbVars, threadVars
  <2> QED BY <2>1, <2>2, <2>3 DEF TypeOK
<1>11. CASE TestBufferReset
    <2>1. ControlType' BY <1>11 DEF TestBufferReset, TypeOK, ControlType, MainPcs,
        unitVars, listVars, cbVars, threadVars
    <2>2. BufferType' BY <1>11 DEF TestBufferReset, TypeOK, BufferType, unitVars,
        listVars, cbVars, threadVars
    <2>3. ListType' /\ CallbackType' /\ ThreadType' BY <1>11, Untouched DEF
        TestBufferReset, unitVars, listVars, cbVars, threadVars
  <2> QED BY <2>1, <2>2, <2>3 DEF TypeOK
<1>12. CASE QuitKey
    <2>1. ControlType' BY <1>12 DEF QuitKey, TypeOK, ControlType, MainPcs, ctlVars,
        unitVars, poolVars, queueVars, listVars, cbVars, threadVars
    <2>2. BufferType' /\ ListType' /\ CallbackType' /\ ThreadType' BY <1>12, Untouched
        DEF QuitKey, ctlVars, unitVars, poolVars, queueVars, listVars, cbVars,
        threadVars
  <2> QED BY <2>1, <2>2 DEF TypeOK
<1>13. CASE ProcThreadDeinit
    <2>1. ControlType' BY <1>13 DEF ProcThreadDeinit, TypeOK, ControlType, ThreadType,
        MainPcs, ctlVars, unitVars, poolVars, queueVars, listVars, cbVars
    <2>2. BufferType' /\ ListType' /\ CallbackType' /\ ThreadType' BY <1>13, Untouched
        DEF ProcThreadDeinit, ctlVars, unitVars, poolVars, queueVars, listVars, cbVars
  <2> QED BY <2>1, <2>2 DEF TypeOK
<1>14. CASE ProcThreadJoin
    <2>1. ControlType' BY <1>14 DEF ProcThreadJoin, TypeOK, ControlType, ThreadType,
        MainPcs, ctlVars, unitVars, poolVars, queueVars, listVars, cbVars, threadVars
    <2>2. BufferType' /\ ListType' /\ CallbackType' /\ ThreadType' BY <1>14, Untouched
        DEF ProcThreadJoin, ctlVars, unitVars, poolVars, queueVars, listVars, cbVars,
        threadVars
  <2> QED BY <2>1, <2>2 DEF TypeOK
<1>15. CASE ViIspDeinit
    <2>1. ControlType' BY <1>15 DEF ViIspDeinit, TypeOK, ControlType, MainPcs, ctlVars,
        poolVars, queueVars, listVars, cbVars, threadVars
    <2>2. BufferType' /\ ListType' /\ CallbackType' /\ ThreadType' BY <1>15, Untouched
        DEF ViIspDeinit, ctlVars, poolVars, queueVars, listVars, cbVars, threadVars
  <2> QED BY <2>1, <2>2 DEF TypeOK
<1>16. CASE TestBufferDeInit
    <2>1. ControlType' BY <1>16 DEF TestBufferDeInit, TypeOK, ControlType, MainPcs,
        unitVars, queueVars, cbVars, threadVars
    <2>2. BufferType' BY <1>16 DEF TestBufferDeInit, TypeOK, BufferType, unitVars,
        queueVars, cbVars, threadVars
    <2>3. ListType' BY <1>16 DEF TestBufferDeInit, TypeOK, ListType, Frames, ViInfo,
        unitVars, queueVars, cbVars, threadVars
    <2>4. CallbackType' /\ ThreadType' BY <1>16, Untouched DEF TestBufferDeInit,
        unitVars, queueVars, cbVars, threadVars
  <2> QED BY <2>1, <2>2, <2>3, <2>4 DEF TypeOK
<1>17. CASE CppDeInit
    <2>1. ControlType' BY <1>17 DEF CppDeInit, TypeOK, ControlType, MainPcs, ctlVars,
        poolVars, queueVars, listVars, cbVars, threadVars
    <2>2. BufferType' /\ ListType' /\ CallbackType' /\ ThreadType' BY <1>17, Untouched
        DEF CppDeInit, ctlVars, poolVars, queueVars, listVars, cbVars, threadVars
  <2> QED BY <2>1, <2>2 DEF TypeOK
<1> QED
    BY <1>1, <1>2, <1>3, <1>4, <1>5, <1>6, <1>7, <1>8, <1>9, <1>10, <1>11, <1>12, <1>13,
     <1>14, <1>15, <1>16, <1>17 DEF Main

(* So does a step of VI, the ISP, the CPP or a callback. *)
LEMMA TypeLibrary == ASSUME TypeOK, Library PROVE TypeOK'
<1> USE PipelineAssumption
<1>1. CASE ViDropFrame
    <2>1. ControlType' BY <1>1 DEF ViDropFrame, TypeOK, ControlType, MainPcs, ctlVars,
        poolVars, queueVars, listVars, cbVars, threadVars
    <2>2. BufferType' /\ ListType' /\ CallbackType' /\ ThreadType' BY <1>1, Untouched
        DEF ViDropFrame, ctlVars, poolVars, queueVars, listVars, cbVars, threadVars
  <2> QED BY <2>1, <2>2 DEF TypeOK
<1>2. CASE ViCbEnter
    <2>1. BufferType' BY <1>2 DEF ViCbEnter, TypeOK, BufferType, CallbackType, NoVi,
        ctlVars, unitVars, poolVars, listVars, threadVars
    <2>2. CallbackType' BY <1>2 DEF ViCbEnter, TypeOK, CallbackType,
        Frames, NoVi, ctlVars, unitVars, poolVars, listVars, threadVars
    <2>3. ControlType' /\ ListType' /\ ThreadType' BY <1>2, Untouched DEF ViCbEnter,
        ctlVars, unitVars, poolVars, listVars, threadVars
  <2> QED BY <2>1, <2>2, <2>3 DEF TypeOK
<1>3. CASE ViCbPush
    <2>1. ListType' BY <1>3 DEF ViCbPush, TypeOK, ListType, CallbackType, Frames,
        ViInfo, NoVi, ctlVars, unitVars, poolVars, queueVars, threadVars
    <2>2. CallbackType'
      <3>1. CASE AutoRun BY <1>3, <3>1 DEF ViCbPush, TypeOK, CallbackType
      <3>2. CASE ~AutoRun BY <1>3, <3>2 DEF ViCbPush, TypeOK, CallbackType, NoVi
      <3> QED BY <3>1, <3>2
    <2>3. ControlType' /\ BufferType' /\ ThreadType' BY <1>3, Untouched DEF ViCbPush,
        ctlVars, unitVars, poolVars, queueVars, threadVars
  <2> QED BY <2>1, <2>2, <2>3 DEF TypeOK
<1>4. CASE ViCbAutoRun
    <2>1. ControlType' BY <1>4 DEF ViCbAutoRun, TypeOK, ControlType, CallbackType,
        MainPcs, NoVi, unitVars, listVars, threadVars
    <2>2. BufferType' BY <1>4 DEF ViCbAutoRun, TypeOK, BufferType, CallbackType, NoVi,
        unitVars, listVars, threadVars
    <2>3. CallbackType' BY <1>4 DEF ViCbAutoRun, TypeOK, CallbackType,
        Frames, NoVi, unitVars, listVars, threadVars
    <2>4. ListType' /\ ThreadType' BY <1>4, Untouched DEF ViCbAutoRun, unitVars,
        listVars, threadVars
  <2> QED BY <2>1, <2>2, <2>3, <2>4 DEF TypeOK
<1>5. CASE RawDeliver
    <2>1. BufferType' BY <1>5 DEF RawDeliver, TypeOK, BufferType, ctlVars, unitVars,
        listVars, cbVars, threadVars
    <2>2. ControlType' /\ ListType' /\ CallbackType' /\ ThreadType' BY <1>5, Untouched
        DEF RawDeliver, ctlVars, unitVars, listVars, cbVars, threadVars
  <2> QED BY <2>1, <2>2 DEF TypeOK
<1>6. CASE IspDeliver
    <2>1. ControlType' BY <1>6 DEF IspDeliver, TypeOK, ControlType, MainPcs, ctlVars,
        poolVars, listVars, threadVars
    <2>2. BufferType' BY <1>6 DEF IspDeliver, TypeOK, BufferType, ctlVars, poolVars,
        listVars, threadVars
    <2>3. CallbackType'
      <3>1. ispFrame + 1 \in Frames BY <1>6 DEF IspDeliver, TypeOK, ControlType, Frames
      <3> QED BY <1>6, <3>1 DEF IspDeliver, TypeOK, CallbackType, Frames
    <2>4. ListType' /\ ThreadType' BY <1>6, Untouched DEF IspDeliver, ctlVars, poolVars,
        listVars, threadVars
  <2> QED BY <2>1, <2>2, <2>3, <2>4 DEF TypeOK
<1>7. CASE IspDropFrame
    <2>1. ControlType' BY <1>7 DEF IspDropFrame, TypeOK, ControlType, MainPcs, ctlVars,
        poolVars, queueVars, listVars, cbVars, threadVars
    <2>2. BufferType' /\ ListType' /\ CallbackType' /\ ThreadType' BY <1>7, Untouched
        DEF IspDropFrame, ctlVars, poolVars, queueVars, listVars, cbVars, threadVars
  <2> QED BY <2>1, <2>2 DEF TypeOK
<1>8. CASE IspCbEnter
    <2>1. CallbackType' BY <1>8 DEF IspCbEnter, TypeOK, CallbackType,
        Frames, NoIsp, ctlVars, unitVars, poolVars, queueVars, listVars, threadVars
    <2>2. ControlType' /\ BufferType' /\ ListType' /\ ThreadType' BY <1>8, Untouched DEF
        IspCbEnter, ctlVars, unitVars, poolVars, queueVars, listVars, threadVars
  <2> QED BY <2>1, <2>2 DEF TypeOK
<1>9. CASE IspCbPush
    <2>1. BufferType' BY <1>9 DEF IspCbPush, TypeOK, BufferType, CallbackType, NoIsp,
        ctlVars, unitVars, poolVars, threadVars
    <2>2. ListType' BY <1>9 DEF IspCbPush, TypeOK, ListType, CallbackType, Frames,
        ViInfo, NoIsp, ctlVars, unitVars, poolVars, threadVars
    <2>3. CallbackType' BY <1>9 DEF IspCbPush, TypeOK, CallbackType,
        Frames, NoIsp, ctlVars, unitVars, poolVars, threadVars
    <2>4. ControlType' /\ ThreadType' BY <1>9, Untouched DEF IspCbPush, ctlVars,
        unitVars, poolVars, threadVars
  <2> QED BY <2>1, <2>2, <2>3, <2>4 DEF TypeOK
<1>10. CASE CppCbEnter
    <2>1. BufferType' BY <1>10 DEF CppCbEnter, TypeOK, BufferType, CallbackType, NoCpp,
        ctlVars, unitVars, poolVars, listVars, threadVars
    <2>2. CallbackType' BY <1>10 DEF CppCbEnter, TypeOK, CallbackType,
        Frames, NoCpp, ctlVars, unitVars, poolVars, listVars, threadVars
    <2>3. ControlType' /\ ListType' /\ ThreadType' BY <1>10, Untouched DEF CppCbEnter,
        ctlVars, unitVars, poolVars, listVars, threadVars
  <2> QED BY <2>1, <2>2, <2>3 DEF TypeOK
<1>11. CASE CppCbReturn
    <2>1. BufferType' BY <1>11 DEF CppCbReturn, TypeOK, BufferType, CallbackType, NoCpp,
        ctlVars, unitVars, poolVars, threadVars
    <2>2. ListType' BY <1>11 DEF CppCbReturn, TypeOK, ListType, CallbackType, Frames,
        ViInfo, NoCpp, ctlVars, unitVars, poolVars, threadVars
    <2>3. CallbackType' BY <1>11 DEF CppCbReturn, TypeOK, CallbackType,
        Frames, NoCpp, ctlVars, unitVars, poolVars, threadVars
    <2>4. ControlType' /\ ThreadType' BY <1>11, Untouched DEF CppCbReturn, ctlVars,
        unitVars, poolVars, threadVars
  <2> QED BY <2>1, <2>2, <2>3, <2>4 DEF TypeOK
<1>12. ASSUME NEW b \in ViBufs, ViDeliver(b) PROVE TypeOK'
    <2>1. ControlType' BY <1>12 DEF ViDeliver, TypeOK, ControlType, MainPcs, ctlVars,
        poolVars, listVars, threadVars
    <2>2. BufferType' BY <1>12 DEF ViDeliver, TypeOK, BufferType, ctlVars, poolVars,
        listVars, threadVars
    <2>3. CallbackType'
      <3>1. frame + 1 \in Frames BY <1>12 DEF ViDeliver, TypeOK, ControlType, Frames
      <3> QED BY <1>12, <3>1 DEF ViDeliver, TypeOK, BufferType, CallbackType, Frames
    <2>4. ListType' /\ ThreadType' BY <1>12, Untouched DEF ViDeliver, ctlVars, poolVars,
        listVars, threadVars
  <2> QED BY <2>1, <2>2, <2>3, <2>4 DEF TypeOK
<1>13. ASSUME NEW b \in ViBufs, CppDeliver(-1, b) PROVE TypeOK'
    <2>1. BufferType' BY <1>13 DEF CppDeliver, TypeOK, BufferType, ctlVars, unitVars,
        poolVars, listVars, threadVars
    <2>2. CallbackType' BY <1>13 DEF CppDeliver, TypeOK, CallbackType, Frames, ctlVars,
        unitVars, poolVars, listVars, threadVars
    <2>3. ControlType' /\ ListType' /\ ThreadType' BY <1>13, Untouched DEF CppDeliver,
        ctlVars, unitVars, poolVars, listVars, threadVars
  <2> QED BY <2>1, <2>2, <2>3 DEF TypeOK
<1>14. ASSUME NEW b \in CppBufs, CppDeliver(0, b) PROVE TypeOK'
    <2>1. BufferType' BY <1>14 DEF CppDeliver, TypeOK, BufferType, ctlVars, unitVars,
        poolVars, listVars, threadVars
    <2>2. CallbackType' BY <1>14 DEF CppDeliver, TypeOK, CallbackType, Frames, ctlVars,
        unitVars, poolVars, listVars, threadVars
    <2>3. ControlType' /\ ListType' /\ ThreadType' BY <1>14, Untouched DEF CppDeliver,
        ctlVars, unitVars, poolVars, listVars, threadVars
  <2> QED BY <2>1, <2>2, <2>3 DEF TypeOK
<1> QED
    BY <1>1, <1>2, <1>3, <1>4, <1>5, <1>6, <1>7, <1>8, <1>9, <1>10, <1>11, <1>12, <1>13,
     <1>14 DEF Library

(* So does a step of the processing thread. *)
LEMMA TypeProc == ASSUME TypeOK, Proc PROVE TypeOK'
<1> USE PipelineAssumption
<1>1. CASE ProcStart
    <2>1. ControlType' BY <1>1 DEF ProcStart, TypeOK, ControlType, ThreadType, MainPcs,
        ctlVars, unitVars, poolVars, queueVars, listVars, cbVars
    <2>2. ThreadType' BY <1>1 DEF ProcStart, TypeOK, ThreadType, Frames, ViInfo,
        ctlVars, unitVars, poolVars, queueVars, listVars, cbVars
    <2>3. BufferType' /\ ListType' /\ CallbackType' BY <1>1, Untouched DEF ProcStart,
        ctlVars, unitVars, poolVars, queueVars, listVars, cbVars
  <2> QED BY <2>1, <2>2, <2>3 DEF TypeOK
<1>2. CASE ProcWake
    <2>1. ThreadType' BY <1>2 DEF ProcWake, TypeOK, ThreadType, Frames, ViInfo, ctlVars,
        unitVars, poolVars, queueVars, listVars, cbVars
    <2>2. ControlType' /\ BufferType' /\ ListType' /\ CallbackType' BY <1>2, Untouched
        DEF ProcWake, ctlVars, unitVars, poolVars, queueVars, listVars, cbVars
  <2> QED BY <2>1, <2>2 DEF TypeOK
<1>3. CASE ProcCheck
    <2>1. ThreadType' BY <1>3 DEF ProcCheck, TypeOK, ThreadType, Frames, ViInfo,
        ctlVars, unitVars, poolVars, queueVars, listVars, cbVars
    <2>2. ControlType' /\ BufferType' /\ ListType' /\ CallbackType' BY <1>3, Untouched
        DEF ProcCheck, ctlVars, unitVars, poolVars, queueVars, listVars, cbVars
  <2> QED BY <2>1, <2>2 DEF TypeOK
<1>4. CASE ProcPopVi
    <2>1. ListType'
      <3>1. CASE vi_out_list = <<>> BY <1>4, <3>1 DEF ProcPopVi, TypeOK, ListType
      <3>2. CASE vi_out_list # <<>>
        <4>1. Tail(vi_out_list) \in Seq(ViInfo)
          BY <3>2, HeadTailProperties DEF TypeOK, ListType
        <4> QED BY <1>4, <3>2, <4>1 DEF ProcPopVi, TypeOK, ListType
      <3> QED BY <3>1, <3>2
    <2>2. ThreadType'
      <3>1. CASE vi_out_list = <<>> BY <1>4, <3>1 DEF ProcPopVi, TypeOK, ThreadType
      <3>2. CASE vi_out_list # <<>>
        <4>1. Head(vi_out_list) \in ViInfo BY <3>2 DEF TypeOK, ListType
        <4> QED BY <1>4, <3>2, <4>1 DEF ProcPopVi, TypeOK, ThreadType
      <3> QED BY <3>1, <3>2
    <2>3. ControlType' /\ BufferType' /\ CallbackType' BY <1>4, Untouched DEF ProcPopVi,
        ctlVars, unitVars, poolVars, queueVars, cbVars
  <2> QED BY <2>1, <2>2, <2>3 DEF TypeOK
<1>5. CASE ProcMatch
    <2>1. ThreadType'
      <3>1. MatchInfo(proc.vi.frameId) \in Frames \cup {NULL}
        BY DEF MatchInfo, TypeOK, ListType
      <3> QED BY <1>5, <3>1 DEF ProcMatch, TypeOK, ThreadType
    <2>2. ControlType' /\ BufferType' /\ ListType' /\ CallbackType' BY <1>5, Untouched
        DEF ProcMatch, ctlVars, unitVars, poolVars, queueVars, listVars, cbVars
  <2> QED BY <2>1, <2>2 DEF TypeOK
<1>6. CASE ProcPopOut
    <2>1. ListType' BY <1>6 DEF ProcPopOut, TypeOK, ListType, ThreadType, Frames,
        ViInfo, ctlVars, unitVars, poolVars, queueVars, cbVars
    <2>2. ThreadType' BY <1>6 DEF ProcPopOut, TypeOK, ListType, ThreadType
    <2>3. ControlType' /\ BufferType' /\ CallbackType' BY <1>6, Untouched DEF
        ProcPopOut, ctlVars, unitVars, poolVars, queueVars, cbVars
  <2> QED BY <2>1, <2>2, <2>3 DEF TypeOK
<1>7. CASE ProcPost
    <2>1. BufferType'
      <3>1. proc.vi.buffer \in ViBufs /\ proc.out \in CppBufs \cup {NULL}
        BY <1>7 DEF ProcPost, TypeOK, ThreadType, ViInfo
      <3>2. CASE proc.out # NULL /\ cppOn
        BY <1>7, <3>1, <3>2 DEF ProcPost, TypeOK, BufferType, poolVars
      <3>3. CASE ~(proc.out # NULL /\ cppOn)
        BY <1>7, <3>1, <3>3 DEF ProcPost, TypeOK, BufferType, poolVars
      <3> QED BY <3>2, <3>3
    <2>2. ThreadType' BY <1>7 DEF ProcPost, TypeOK, ThreadType, Frames, ViInfo, ctlVars,
        unitVars, poolVars, listVars, cbVars
    <2>3. ControlType' /\ ListType' /\ CallbackType' BY <1>7, Untouched DEF ProcPost,
        ctlVars, unitVars, poolVars, listVars, cbVars
  <2> QED BY <2>1, <2>2, <2>3 DEF TypeOK
<1>8. CASE ProcErase
    <2>1. ListType' BY <1>8, RemoveAtType DEF ProcErase, TypeOK, ListType, EraseInfo
    <2>2. ThreadType' BY <1>8 DEF ProcErase, TypeOK, ThreadType, Frames, ViInfo,
        EraseInfo, ctlVars, unitVars, poolVars, queueVars, cbVars
    <2>3. ControlType' /\ BufferType' /\ CallbackType' BY <1>8, Untouched DEF ProcErase,
        ctlVars, unitVars, poolVars, queueVars, cbVars
  <2> QED BY <2>1, <2>2, <2>3 DEF TypeOK
<1>9. CASE ProcLoop
    <2>1. ThreadType' BY <1>9 DEF ProcLoop, TypeOK, ThreadType, Frames, ViInfo, ctlVars,
        unitVars, poolVars, queueVars, listVars, cbVars
    <2>2. ControlType' /\ BufferType' /\ ListType' /\ CallbackType' BY <1>9, Untouched
        DEF ProcLoop, ctlVars, unitVars, poolVars, queueVars, listVars, cbVars
  <2> QED BY <2>1, <2>2 DEF TypeOK
<1> QED
    BY <1>1, <1>2, <1>3, <1>4, <1>5, <1>6, <1>7, <1>8, <1>9 DEF Proc

(* Every reachable state is well typed: in particular the thread works on a VI
   buffer whenever it is past List_Pop, and a callback on a buffer of its unit. *)
THEOREM TypeCorrect == Spec => []TypeOK
<1>1. TypeOK /\ [Next]_vars => TypeOK'
  <2> SUFFICES ASSUME TypeOK, [Next]_vars PROVE TypeOK' OBVIOUS
  <2>1. CASE Main BY <2>1, TypeMain
  <2>2. CASE Library BY <2>2, TypeLibrary
  <2>3. CASE Proc BY <2>3, TypeProc
  <2>4. CASE UNCHANGED vars
    BY <2>4, Untouched DEF TypeOK, vars, ctlVars, unitVars, poolVars, queueVars, listVars,
                           cbVars, threadVars
  <2> QED BY <2>1, <2>2, <2>3, <2>4 DEF Next
<1> QED BY <1>1, TypeInit, PTL DEF Spec
-----------------------------------------------------------------------------
(* Shutting down. *)

(* Every step preserves ShutdownInv. *)
LEMMA ShutdownStep == ASSUME TypeOK, ShutdownInv, [Next]_vars PROVE ShutdownInv'
<1>1. CASE TestBufferPrepare
    BY <1>1 DEF TestBufferPrepare, ShutdownInv, ctlVars, unitVars, cbVars, threadVars
<1>2. CASE CppStart
    BY <1>2 DEF CppStart, ShutdownInv, ctlVars, poolVars, queueVars, listVars, cbVars,
     threadVars
<1>3. CASE StreamOn
    BY <1>3 DEF StreamOn, ShutdownInv, ctlVars, poolVars, queueVars, listVars, cbVars,
     threadVars
<1>4. CASE SetStreamOnFlag
    BY <1>4 DEF SetStreamOnFlag, ShutdownInv, unitVars, poolVars, queueVars, listVars,
     cbVars, threadVars
<1>5. CASE DumpRawKey
    BY <1>5 DEF DumpRawKey, ShutdownInv, ctlVars, unitVars, listVars, cbVars, threadVars
<1>6. CASE ClearStreamOnFlag
    BY <1>6 DEF ClearStreamOnFlag, ShutdownInv, unitVars, poolVars, queueVars, listVars,
     cbVars, threadVars
<1>7. CASE ViStreamOff
    BY <1>7 DEF ViStreamOff, ShutdownInv, ctlVars, poolVars, listVars, cbVars,
     threadVars
<1>8. CASE IspFlush
    BY <1>8 DEF IspFlush, ShutdownInv, ctlVars, unitVars, poolVars, listVars, cbVars,
     threadVars
<1>9. CASE IspStreamOff
    BY <1>9 DEF IspStreamOff, ShutdownInv, ctlVars, poolVars, queueVars, listVars,
     cbVars, threadVars
<1>10. CASE CppStop
    BY <1>10 DEF CppStop, ShutdownInv, ctlVars, poolVars, listVars, cbVars, threadVars
<1>11. CASE TestBufferReset
    BY <1>11 DEF TestBufferReset, ShutdownInv, unitVars, listVars, cbVars, threadVars
<1>12. CASE QuitKey
    BY <1>12 DEF QuitKey, ShutdownInv, ctlVars, unitVars, poolVars, queueVars, listVars,
     cbVars, threadVars
<1>13. CASE ProcThreadDeinit
    BY <1>13 DEF ProcThreadDeinit, ShutdownInv, ctlVars, unitVars, poolVars, queueVars,
     listVars, cbVars
<1>14. CASE ProcThreadJoin
    BY <1>14 DEF ProcThreadJoin, ShutdownInv, ctlVars, unitVars, poolVars, queueVars,
     listVars, cbVars, threadVars
<1>15. CASE ViIspDeinit
    BY <1>15 DEF ViIspDeinit, ShutdownInv, ctlVars, poolVars, queueVars, listVars,
     cbVars, threadVars
<1>16. CASE TestBufferDeInit
    BY <1>16 DEF TestBufferDeInit, ShutdownInv, unitVars, queueVars, cbVars, threadVars
<1>17. CASE CppDeInit
    BY <1>17 DEF CppDeInit, ShutdownInv, ctlVars, poolVars, queueVars, listVars, cbVars,
     threadVars
<1>18. CASE ViDropFrame
    BY <1>18 DEF ViDropFrame, ShutdownInv, ctlVars, poolVars, queueVars, listVars,
     cbVars, threadVars
<1>19. CASE ViCbEnter
  <2>1. CASE streamOnFlag = 0
    BY <1>19, <2>1 DEF ViCbEnter, ShutdownInv, NoVi, ctlVars, unitVars, threadVars
  <2>2. CASE streamOnFlag # 0
    <3>1. viCb'.pc = "push" BY <1>19, <2>2 DEF ViCbEnter, TypeOK, CallbackType
    <3> QED BY <1>19, <3>1 DEF ViCbEnter, ShutdownInv, ctlVars, unitVars, threadVars
  <2> QED BY <2>1, <2>2
<1>20. CASE ViCbPush
    BY <1>20 DEF ViCbPush, ShutdownInv, NoVi, ctlVars, unitVars, poolVars, queueVars,
     threadVars
<1>21. CASE ViCbAutoRun
    BY <1>21 DEF ViCbAutoRun, ShutdownInv, NoVi, unitVars, listVars, threadVars
<1>22. CASE RawDeliver
    BY <1>22 DEF RawDeliver, ShutdownInv, ctlVars, unitVars, listVars, cbVars,
     threadVars
<1>23. CASE IspDeliver
    BY <1>23 DEF IspDeliver, ShutdownInv, ctlVars, poolVars, listVars, threadVars
<1>24. CASE IspDropFrame
    BY <1>24 DEF IspDropFrame, ShutdownInv, ctlVars, poolVars, queueVars, listVars,
     cbVars, threadVars
<1>25. CASE IspCbEnter
    BY <1>25 DEF IspCbEnter, ShutdownInv, NoIsp, ctlVars, unitVars, poolVars, queueVars,
     listVars, threadVars
<1>26. CASE IspCbPush
    BY <1>26 DEF IspCbPush, ShutdownInv, NoIsp, ctlVars, unitVars, poolVars, threadVars
<1>27. CASE CppCbEnter
    BY <1>27 DEF CppCbEnter, ShutdownInv, NoCpp, ctlVars, unitVars, poolVars, listVars,
     threadVars
<1>28. CASE CppCbReturn
    BY <1>28 DEF CppCbReturn, ShutdownInv, NoCpp, ctlVars, unitVars, poolVars,
     threadVars
<1>29. ASSUME NEW b \in ViBufs, ViDeliver(b) PROVE ShutdownInv'
    BY <1>29 DEF ViDeliver, ShutdownInv, ctlVars, poolVars, listVars, threadVars
<1>30. ASSUME NEW b \in ViBufs, CppDeliver(-1, b) PROVE ShutdownInv'
    BY <1>30 DEF CppDeliver, ShutdownInv, ctlVars, unitVars, poolVars, listVars,
     threadVars
<1>31. ASSUME NEW b \in CppBufs, CppDeliver(0, b) PROVE ShutdownInv'
    BY <1>31 DEF CppDeliver, ShutdownInv, ctlVars, unitVars, poolVars, listVars,
     threadVars
<1>32. CASE ProcStart
    BY <1>32 DEF ProcStart, ShutdownInv, ctlVars, unitVars, poolVars, queueVars,
     listVars, cbVars
<1>33. CASE ProcWake
    BY <1>33 DEF ProcWake, ShutdownInv, ctlVars, unitVars, poolVars, queueVars,
     listVars, cbVars
<1>34. CASE ProcCheck
    BY <1>34 DEF ProcCheck, ShutdownInv, ctlVars, unitVars, poolVars, queueVars,
     listVars, cbVars
<1>35. CASE ProcPopVi
    BY <1>35 DEF ProcPopVi, ShutdownInv, ctlVars, unitVars, poolVars, queueVars, cbVars
<1>36. CASE ProcMatch
    BY <1>36 DEF ProcMatch, ShutdownInv, MatchInfo, ctlVars, unitVars, poolVars,
     queueVars, listVars, cbVars
<1>37. CASE ProcPopOut
    BY <1>37 DEF ProcPopOut, ShutdownInv, ctlVars, unitVars, poolVars, queueVars, cbVars
<1>38. CASE ProcPost
    BY <1>38 DEF ProcPost, ShutdownInv, ctlVars, unitVars, poolVars, listVars, cbVars
<1>39. CASE ProcErase
    BY <1>39 DEF ProcErase, ShutdownInv, EraseInfo, ctlVars, unitVars, poolVars,
     queueVars, cbVars
<1>40. CASE ProcLoop
    BY <1>40 DEF ProcLoop, ShutdownInv, ctlVars, unitVars, poolVars, queueVars,
     listVars, cbVars
<1>41. CASE UNCHANGED vars
    BY <1>41 DEF ShutdownInv, vars, ctlVars, unitVars, poolVars, queueVars, listVars,
     cbVars, threadVars
<1> QED
    BY <1>1, <1>2, <1>3, <1>4, <1>5, <1>6, <1>7, <1>8, <1>9, <1>10, <1>11, <1>12, <1>13,
     <1>14, <1>15, <1>16, <1>17, <1>18, <1>19, <1>20, <1>21, <1>22, <1>23, <1>24, <1>25,
     <1>26, <1>27, <1>28, <1>29, <1>30, <1>31, <1>32, <1>33, <1>34, <1>35, <1>36, <1>37,
     <1>38, <1>39, <1>40, <1>41 DEF Next, Main, Library, Proc

(* Every step preserves TakeInv. *)
LEMMA TakeStep == ASSUME TypeOK, ShutdownInv, TakeInv, [Next]_vars PROVE TakeInv'
<1>1. CASE TestBufferPrepare
    BY <1>1 DEF TestBufferPrepare, TakeInv, ctlVars, unitVars, cbVars, threadVars
<1>2. CASE CppStart
    BY <1>2 DEF CppStart, TakeInv, ctlVars, poolVars, queueVars, listVars, cbVars,
     threadVars
<1>3. CASE StreamOn
    BY <1>3 DEF StreamOn, TakeInv, ctlVars, poolVars, queueVars, listVars, cbVars,
     threadVars
<1>4. CASE SetStreamOnFlag
    BY <1>4 DEF SetStreamOnFlag, TakeInv, unitVars, poolVars, queueVars, listVars,
     cbVars, threadVars
<1>5. CASE DumpRawKey
    BY <1>5 DEF DumpRawKey, TakeInv, ctlVars, unitVars, listVars, cbVars, threadVars
<1>6. CASE ClearStreamOnFlag
    BY <1>6 DEF ClearStreamOnFlag, TakeInv, unitVars, poolVars, queueVars, listVars,
     cbVars, threadVars
<1>7. CASE ViStreamOff
    BY <1>7 DEF ViStreamOff, TakeInv, ctlVars, poolVars, listVars, cbVars, threadVars
<1>8. CASE IspFlush
    BY <1>8 DEF IspFlush, TakeInv, ctlVars, unitVars, poolVars, listVars, cbVars,
     threadVars
<1>9. CASE IspStreamOff
    BY <1>9 DEF IspStreamOff, TakeInv, ctlVars, poolVars, queueVars, listVars, cbVars,
     threadVars
<1>10. CASE CppStop
    BY <1>10 DEF CppStop, TakeInv, ctlVars, poolVars, listVars, cbVars, threadVars
<1>11. CASE TestBufferReset
    BY <1>11 DEF TestBufferReset, TakeInv, unitVars, listVars, cbVars, threadVars
<1>12. CASE QuitKey
    BY <1>12 DEF QuitKey, TakeInv, ctlVars, unitVars, poolVars, queueVars, listVars,
     cbVars, threadVars
<1>13. CASE ProcThreadDeinit
    BY <1>13 DEF ProcThreadDeinit, TakeInv, ctlVars, unitVars, poolVars, queueVars,
     listVars, cbVars
<1>14. CASE ProcThreadJoin
    BY <1>14 DEF ProcThreadJoin, TakeInv, ctlVars, unitVars, poolVars, queueVars,
     listVars, cbVars, threadVars
<1>15. CASE ViIspDeinit
    BY <1>15 DEF ViIspDeinit, TakeInv, ctlVars, poolVars, queueVars, listVars, cbVars,
     threadVars
<1>16. CASE TestBufferDeInit
  <2>1. proc.pc = "exited" /\ proc' = proc
    BY <1>16 DEF TestBufferDeInit, ShutdownInv, threadVars
  <2> QED BY <2>1 DEF TakeInv
<1>17. CASE CppDeInit
    BY <1>17 DEF CppDeInit, TakeInv, ctlVars, poolVars, queueVars, listVars, cbVars,
     threadVars
<1>18. CASE ViDropFrame
    BY <1>18 DEF ViDropFrame, TakeInv, ctlVars, poolVars, queueVars, listVars, cbVars,
     threadVars
<1>19. CASE ViCbEnter
    BY <1>19 DEF ViCbEnter, TakeInv, NoVi, ctlVars, unitVars, poolVars, listVars,
     threadVars
<1>20. CASE ViCbPush
    BY <1>20 DEF ViCbPush, TakeInv, NoVi, ctlVars, unitVars, poolVars, queueVars,
     threadVars
<1>21. CASE ViCbAutoRun
    BY <1>21 DEF ViCbAutoRun, TakeInv, NoVi, unitVars, listVars, threadVars
<1>22. CASE RawDeliver
    BY <1>22 DEF RawDeliver, TakeInv, ctlVars, unitVars, listVars, cbVars, threadVars
<1>23. CASE IspDeliver
    BY <1>23 DEF IspDeliver, TakeInv, ctlVars, poolVars, listVars, threadVars
<1>24. CASE IspDropFrame
    BY <1>24 DEF IspDropFrame, TakeInv, ctlVars, poolVars, queueVars, listVars, cbVars,
     threadVars
<1>25. CASE IspCbEnter
    BY <1>25 DEF IspCbEnter, TakeInv, NoIsp, ctlVars, unitVars, poolVars, queueVars,
     listVars, threadVars
<1>26. CASE IspCbPush
    BY <1>26 DEF IspCbPush, TakeInv, NoIsp, ctlVars, unitVars, poolVars, threadVars
<1>27. CASE CppCbEnter
    BY <1>27 DEF CppCbEnter, TakeInv, NoCpp, ctlVars, unitVars, poolVars, listVars,
     threadVars
<1>28. CASE CppCbReturn
    BY <1>28 DEF CppCbReturn, TakeInv, NoCpp, ctlVars, unitVars, poolVars, threadVars
<1>29. ASSUME NEW b \in ViBufs, ViDeliver(b) PROVE TakeInv'
    BY <1>29 DEF ViDeliver, TakeInv, ctlVars, poolVars, listVars, threadVars
<1>30. ASSUME NEW b \in ViBufs, CppDeliver(-1, b) PROVE TakeInv'
    BY <1>30 DEF CppDeliver, TakeInv, ctlVars, unitVars, poolVars, listVars, threadVars
<1>31. ASSUME NEW b \in CppBufs, CppDeliver(0, b) PROVE TakeInv'
    BY <1>31 DEF CppDeliver, TakeInv, ctlVars, unitVars, poolVars, listVars, threadVars
<1>32. CASE ProcStart
    BY <1>32 DEF ProcStart, TakeInv, ctlVars, unitVars, poolVars, queueVars, listVars,
     cbVars
<1>33. CASE ProcWake
    BY <1>33 DEF ProcWake, TakeInv, ctlVars, unitVars, poolVars, queueVars, listVars,
     cbVars
<1>34. CASE ProcCheck
    BY <1>34 DEF ProcCheck, TakeInv, ctlVars, unitVars, poolVars, queueVars, listVars,
     cbVars
<1>35. CASE ProcPopVi
  <2>1. proc'.pc \in {"loop", "match"}
    BY <1>35 DEF ProcPopVi, TypeOK, ThreadType
  <2> QED BY <1>35, <2>1 DEF ProcPopVi, TakeInv
<1>36. CASE ProcMatch
  <2>1. MatchInfo(proc.vi.frameId) \in Frames
    BY <1>36 DEF ProcMatch, TakeInv, MatchInfo, TypeOK, ListType
  <2>2. MatchInfo(proc.vi.frameId) # NULL
    BY <2>1, PipelineAssumption DEF Frames
  <2>3. proc'.pc = "popOut" /\ proc'.isp = MatchInfo(proc.vi.frameId)
    BY <1>36 DEF ProcMatch, TypeOK, ThreadType
  <2> QED BY <1>36, <2>2, <2>3 DEF ProcMatch, TakeInv, listVars
<1>37. CASE ProcPopOut
  <2>1. PICK out \in cpp_out_list : proc' = [proc EXCEPT !.pc = "post", !.out = out]
    BY <1>37 DEF ProcPopOut, TakeInv
  <2>2. out # NULL
    BY PipelineAssumption DEF TypeOK, ListType
  <2>3. proc'.pc = "post" /\ proc'.isp = proc.isp /\ proc'.out = out
    BY <2>1 DEF TypeOK, ThreadType
  <2> QED BY <1>37, <2>2, <2>3 DEF ProcPopOut, TakeInv
<1>38. CASE ProcPost
    BY <1>38 DEF ProcPost, TakeInv, ctlVars, unitVars, poolVars, listVars, cbVars
<1>39. CASE ProcErase
    BY <1>39 DEF ProcErase, TakeInv, EraseInfo, ctlVars, unitVars, poolVars, queueVars,
     cbVars
<1>40. CASE ProcLoop
    BY <1>40 DEF ProcLoop, TakeInv, ctlVars, unitVars, poolVars, queueVars, listVars,
     cbVars
<1>41. CASE UNCHANGED vars
    BY <1>41 DEF TakeInv, vars, ctlVars, unitVars, poolVars, queueVars, listVars,
     cbVars, threadVars
<1> QED
    BY <1>1, <1>2, <1>3, <1>4, <1>5, <1>6, <1>7, <1>8, <1>9, <1>10, <1>11, <1>12, <1>13,
     <1>14, <1>15, <1>16, <1>17, <1>18, <1>19, <1>20, <1>21, <1>22, <1>23, <1>24, <1>25,
     <1>26, <1>27, <1>28, <1>29, <1>30, <1>31, <1>32, <1>33, <1>34, <1>35, <1>36, <1>37,
     <1>38, <1>39, <1>40, <1>41 DEF Next, Main, Library, Proc

(* Both strengthenings hold initially. *)
LEMMA ShutdownInit == Init => ShutdownInv /\ TakeInv
BY DEF Init, ShutdownInv, TakeInv, NoVi, NoIsp, NoCpp

(* The inductive invariant as a whole. *)
LEMMA Quiet == Spec => [](TypeOK /\ ShutdownInv /\ TakeInv)
<1>1. TypeOK /\ ShutdownInv /\ TakeInv /\ [Next]_vars => (ShutdownInv /\ TakeInv)'
  BY ShutdownStep, TakeStep
<1> QED BY <1>1, ShutdownInit, TypeCorrect, PTL DEF Spec

(* The lists are destroyed only when nothing will touch them again. *)
THEOREM ListsOutliveUsers == Spec => []NoUseAfterFree
<1>1. TypeOK /\ ShutdownInv => NoUseAfterFree
  <2> SUFFICES ASSUME TypeOK, ShutdownInv, ~listsAlive PROVE NoUseAfterFree
    BY DEF NoUseAfterFree
  <2>1. listsAlive = FALSE BY DEF TypeOK, ControlType
  <2>2. main \in {"freed", "done"} BY <2>1 DEF ShutdownInv
  <2> QED BY <2>2 DEF ShutdownInv, NoUseAfterFree
<1> QED BY <1>1, Quiet, PTL

(* The thread posts a frame only with an output buffer and a frame info. *)
THEOREM PostsAreComplete == Spec => []NoNullPost
<1>1. TakeInv => NoNullPost
  BY DEF TakeInv, NoNullPost
<1> QED BY <1>1, Quiet, PTL
-----------------------------------------------------------------------------
(* Who holds a VI buffer in the first session. *)

(* Every step hands a VI buffer from one holder to the next. *)
LEMMA ExclusiveStep == ASSUME TypeOK, ViBufferExclusive, [Next]_vars PROVE ViBufferExclusive'
<1>1. CASE TestBufferPrepare
    BY <1>1 DEF TestBufferPrepare, ViBufferExclusive, ViHolders, HoldsVi, ctlVars,
     unitVars, cbVars, threadVars
<1>2. CASE CppStart
    BY <1>2 DEF CppStart, ViBufferExclusive, ViHolders, HoldsVi, ctlVars, poolVars,
     queueVars, listVars, cbVars, threadVars
<1>3. CASE StreamOn
    BY <1>3 DEF StreamOn, ViBufferExclusive, ViHolders, HoldsVi, ctlVars, poolVars,
     queueVars, listVars, cbVars, threadVars
<1>4. CASE SetStreamOnFlag
    BY <1>4 DEF SetStreamOnFlag, ViBufferExclusive, ViHolders, HoldsVi, unitVars,
     poolVars, queueVars, listVars, cbVars, threadVars
<1>5. CASE DumpRawKey
    BY <1>5 DEF DumpRawKey, ViBufferExclusive, ViHolders, HoldsVi, ctlVars, unitVars,
     listVars, cbVars, threadVars
<1>6. CASE ClearStreamOnFlag
    BY <1>6 DEF ClearStreamOnFlag, ViBufferExclusive, ViHolders, HoldsVi, unitVars,
     poolVars, queueVars, listVars, cbVars, threadVars
<1>7. CASE ViStreamOff
    BY <1>7 DEF ViStreamOff, ViBufferExclusive, ViHolders, HoldsVi, ctlVars, poolVars,
     listVars, cbVars, threadVars
<1>8. CASE IspFlush
    BY <1>8 DEF IspFlush, ViBufferExclusive, ViHolders, HoldsVi, ctlVars, unitVars,
     poolVars, listVars, cbVars, threadVars
<1>9. CASE IspStreamOff
    BY <1>9 DEF IspStreamOff, ViBufferExclusive, ViHolders, HoldsVi, ctlVars, poolVars,
     queueVars, listVars, cbVars, threadVars
<1>10. CASE CppStop
    BY <1>10 DEF CppStop, ViBufferExclusive, ViHolders, HoldsVi, ctlVars, poolVars,
     listVars, cbVars, threadVars
<1>11. CASE TestBufferReset
  <2>1. sessions' # 0 BY <1>11 DEF TestBufferReset, TypeOK, ControlType
  <2> QED BY <2>1 DEF ViBufferExclusive
<1>12. CASE QuitKey
    BY <1>12 DEF QuitKey, ViBufferExclusive, ViHolders, HoldsVi, ctlVars, unitVars,
     poolVars, queueVars, listVars, cbVars, threadVars
<1>13. CASE ProcThreadDeinit
    BY <1>13 DEF ProcThreadDeinit, ViBufferExclusive, ViHolders, HoldsVi, ctlVars,
     unitVars, poolVars, queueVars, listVars, cbVars
<1>14. CASE ProcThreadJoin
    BY <1>14 DEF ProcThreadJoin, ViBufferExclusive, ViHolders, HoldsVi, ctlVars,
     unitVars, poolVars, queueVars, listVars, cbVars, threadVars
<1>15. CASE ViIspDeinit
    BY <1>15 DEF ViIspDeinit, ViBufferExclusive, ViHolders, HoldsVi, ctlVars, poolVars,
     queueVars, listVars, cbVars, threadVars
<1>16. CASE TestBufferDeInit
    BY <1>16 DEF TestBufferDeInit, ViBufferExclusive, ViHolders, HoldsVi, unitVars,
     queueVars, cbVars, threadVars
<1>17. CASE CppDeInit
    BY <1>17 DEF CppDeInit, ViBufferExclusive, ViHolders, HoldsVi, ctlVars, poolVars,
     queueVars, listVars, cbVars, threadVars
<1>18. CASE ViDropFrame
    BY <1>18 DEF ViDropFrame, ViBufferExclusive, ViHolders, HoldsVi, ctlVars, poolVars,
     queueVars, listVars, cbVars, threadVars
<1>19. CASE ViCbEnter
  <2>1. CASE streamOnFlag = 0
    BY <1>19, <2>1 DEF ViCbEnter, ViBufferExclusive, ViHolders, HoldsVi, NoVi, ctlVars,
       unitVars, poolVars, listVars, threadVars
  <2>2. CASE streamOnFlag # 0
    <3>1. viCb'.pc = "push" /\ viCb'.buffer = viCb.buffer
      BY <1>19, <2>2 DEF ViCbEnter, TypeOK, CallbackType
    <3> QED BY <1>19, <2>2, <3>1 DEF ViCbEnter, ViBufferExclusive, ViHolders, HoldsVi, ctlVars,
               unitVars, poolVars, listVars, threadVars
  <2> QED BY <2>1, <2>2
<1>20. CASE ViCbPush
  <2> DEFINE e == [buffer |-> viCb.buffer, frameId |-> viCb.frameId]
  <2>1. viCb'.pc \in {"auto", "idle"}
    BY <1>20 DEF ViCbPush, NoVi, TypeOK, CallbackType
  <2>2. /\ DOMAIN vi_out_list' = 1 .. Len(vi_out_list) + 1
        /\ DOMAIN vi_out_list = 1 .. Len(vi_out_list) /\ Len(vi_out_list) \in Nat
        /\ \A i \in DOMAIN vi_out_list : vi_out_list'[i] = vi_out_list[i]
        /\ vi_out_list'[Len(vi_out_list) + 1] = e
    <3>1. e \in ViInfo BY <1>20 DEF ViCbPush, TypeOK, CallbackType, ViInfo
    <3>2. vi_out_list' = Append(vi_out_list, e) BY <1>20 DEF ViCbPush
    <3> HIDE DEF e
    <3> QED BY <3>1, <3>2, AppendProperties, LenProperties DEF TypeOK, ListType
  <2>3. \A b : HoldsVi("list", b)' => HoldsVi("list", b) \/ b = viCb.buffer
    BY <2>2 DEF HoldsVi
  <2>4. HoldsVi("viCb", viCb.buffer) /\ viCb.buffer \in ViBufs
    BY <1>20 DEF HoldsVi, ViCbPush, TypeOK, CallbackType
  <2>5. \A b : \A h \in ViHolders \ {"viCb", "list"} : HoldsVi(h, b)' => HoldsVi(h, b)
    <3>1. /\ viPool' = viPool /\ viQueue' = viQueue /\ proc' = proc /\ cppIn' = cppIn
          /\ cppCb' = cppCb /\ viLost' = viLost
      BY <1>20 DEF ViCbPush, poolVars, queueVars, threadVars
    <3>2. ASSUME NEW b, NEW h \in ViHolders \ {"viCb", "list"}
          PROVE  HoldsVi(h, b)' <=> HoldsVi(h, b)
      BY <3>1, <3>2 DEF ViHolders, HoldsVi
    <3> QED BY <3>2
  <2>6. \A b : ~HoldsVi("viCb", b)'
    BY <2>1 DEF HoldsVi
  <2> SUFFICES ASSUME sessions = 0, listsAlive PROVE ViBufferExclusive'
    BY <1>20 DEF ViBufferExclusive, ViCbPush, ctlVars
  <2>7. ~HoldsVi("list", viCb.buffer)
    BY <2>4 DEF ViBufferExclusive, ViHolders
  <2>8. ASSUME NEW b \in ViBufs, NEW g \in ViHolders, NEW h \in ViHolders,
               HoldsVi(g, b)', HoldsVi(h, b)'
        PROVE  g = h
    BY <2>3, <2>4, <2>5, <2>6, <2>7, <2>8 DEF ViBufferExclusive, ViHolders
  <2>9. ASSUME NEW i \in DOMAIN vi_out_list', NEW j \in DOMAIN vi_out_list',
               vi_out_list'[i].buffer = vi_out_list'[j].buffer
        PROVE  i = j
    BY <2>2, <2>7, <2>9 DEF ViBufferExclusive, HoldsVi
  <2> QED BY <2>8, <2>9 DEF ViBufferExclusive
<1>21. CASE ViCbAutoRun
    BY <1>21 DEF ViCbAutoRun, ViBufferExclusive, ViHolders, HoldsVi, NoVi, unitVars,
     listVars, threadVars
<1>22. CASE RawDeliver
    BY <1>22 DEF RawDeliver, ViBufferExclusive, ViHolders, HoldsVi, ctlVars, unitVars,
     listVars, cbVars, threadVars
<1>23. CASE IspDeliver
    BY <1>23 DEF IspDeliver, ViBufferExclusive, ViHolders, HoldsVi, ctlVars, poolVars,
     listVars, threadVars
<1>24. CASE IspDropFrame
    BY <1>24 DEF IspDropFrame, ViBufferExclusive, ViHolders, HoldsVi, ctlVars, poolVars,
     queueVars, listVars, cbVars, threadVars
<1>25. CASE IspCbEnter
    BY <1>25 DEF IspCbEnter, ViBufferExclusive, ViHolders, HoldsVi, NoIsp, ctlVars,
     unitVars, poolVars, queueVars, listVars, threadVars
<1>26. CASE IspCbPush
    BY <1>26 DEF IspCbPush, ViBufferExclusive, ViHolders, HoldsVi, NoIsp, ctlVars,
     unitVars, poolVars, threadVars
<1>27. CASE CppCbEnter
  <2>1. CASE streamOnFlag = 0
    BY <1>27, <2>1 DEF CppCbEnter, ViBufferExclusive, ViHolders, HoldsVi, NoCpp, ctlVars,
       unitVars, poolVars, listVars, threadVars
  <2>2. CASE streamOnFlag # 0
    <3>1. cppCb'.pc = "body" /\ cppCb'.chn = cppCb.chn /\ cppCb'.buffer = cppCb.buffer
      BY <1>27, <2>2 DEF CppCbEnter, TypeOK, CallbackType
    <3> QED BY <1>27, <2>2, <3>1 DEF CppCbEnter, ViBufferExclusive, ViHolders, HoldsVi, ctlVars,
               unitVars, poolVars, listVars, threadVars
  <2> QED BY <2>1, <2>2
<1>28. CASE CppCbReturn
    BY <1>28 DEF CppCbReturn, ViBufferExclusive, ViHolders, HoldsVi, NoCpp, ctlVars,
     unitVars, poolVars, threadVars
<1>29. ASSUME NEW b \in ViBufs, ViDeliver(b) PROVE ViBufferExclusive'
    BY <1>29 DEF ViDeliver, ViBufferExclusive, ViHolders, HoldsVi, ctlVars, poolVars,
     listVars, threadVars
<1>30. ASSUME NEW b \in ViBufs, CppDeliver(-1, b) PROVE ViBufferExclusive'
    BY <1>30 DEF CppDeliver, ViBufferExclusive, ViHolders, HoldsVi, ctlVars, unitVars,
     poolVars, listVars, threadVars
<1>31. ASSUME NEW b \in CppBufs, CppDeliver(0, b) PROVE ViBufferExclusive'
    BY <1>31 DEF CppDeliver, ViBufferExclusive, ViHolders, HoldsVi, ctlVars, unitVars,
     poolVars, listVars, threadVars
<1>32. CASE ProcStart
    BY <1>32 DEF ProcStart, ViBufferExclusive, ViHolders, HoldsVi, ctlVars, unitVars,
     poolVars, queueVars, listVars, cbVars
<1>33. CASE ProcWake
    BY <1>33 DEF ProcWake, ViBufferExclusive, ViHolders, HoldsVi, ctlVars, unitVars,
     poolVars, queueVars, listVars, cbVars
<1>34. CASE ProcCheck
    BY <1>34 DEF ProcCheck, ViBufferExclusive, ViHolders, HoldsVi, ctlVars, unitVars,
     poolVars, queueVars, listVars, cbVars
<1>35. CASE ProcPopVi
  <2>1. CASE vi_out_list = <<>>
    <3>1. proc'.pc = "loop" BY <1>35, <2>1 DEF ProcPopVi, TypeOK, ThreadType
    <3> QED BY <1>35, <2>1, <3>1 DEF ProcPopVi, ViBufferExclusive, ViHolders, HoldsVi, ctlVars,
               poolVars, queueVars, cbVars
  <2>2. CASE vi_out_list # <<>>
    <3>1. /\ proc'.vi = vi_out_list[1] /\ 1 \in DOMAIN vi_out_list
          /\ DOMAIN vi_out_list' = 1 .. Len(vi_out_list) - 1
          /\ DOMAIN vi_out_list = 1 .. Len(vi_out_list) /\ Len(vi_out_list) \in Nat
          /\ \A i \in DOMAIN vi_out_list' : vi_out_list'[i] = vi_out_list[i + 1]
      <4>1. proc'.vi = Head(vi_out_list) /\ vi_out_list' = Tail(vi_out_list)
        BY <1>35, <2>2 DEF ProcPopVi, TypeOK, ThreadType
      <4> QED BY <2>2, <4>1, HeadTailProperties, LenProperties DEF TypeOK, ListType
    <3>2. \A b : HoldsVi("list", b)' => HoldsVi("list", b)
      BY <3>1 DEF HoldsVi
    <3>3. \A b : HoldsVi("proc", b)' => HoldsVi("list", b) /\ b = vi_out_list[1].buffer
      BY <3>1 DEF HoldsVi
    <3>4. \A b : \A h \in ViHolders \ {"proc", "list"} : HoldsVi(h, b)' <=> HoldsVi(h, b)
      BY <1>35 DEF ProcPopVi, ViHolders, HoldsVi, poolVars, queueVars, cbVars
    <3> SUFFICES ASSUME sessions = 0, listsAlive PROVE ViBufferExclusive'
      BY <1>35 DEF ViBufferExclusive, ProcPopVi, ctlVars
    <3>5. \A b : b = vi_out_list[1].buffer => ~HoldsVi("list", b)'
      BY <3>1 DEF ViBufferExclusive, HoldsVi
    <3>6. ASSUME NEW b \in ViBufs, NEW g \in ViHolders, NEW h \in ViHolders,
                 HoldsVi(g, b)', HoldsVi(h, b)'
          PROVE  g = h
      BY <3>2, <3>3, <3>4, <3>5, <3>6 DEF ViBufferExclusive, ViHolders
    <3>7. ASSUME NEW i \in DOMAIN vi_out_list', NEW j \in DOMAIN vi_out_list',
                 vi_out_list'[i].buffer = vi_out_list'[j].buffer
          PROVE  i = j
      BY <3>1, <3>7 DEF ViBufferExclusive
    <3> QED BY <3>6, <3>7 DEF ViBufferExclusive
  <2> QED BY <2>1, <2>2
<1>36. CASE ProcMatch
    BY <1>36 DEF ProcMatch, ViBufferExclusive, ViHolders, HoldsVi, MatchInfo, ctlVars,
     unitVars, poolVars, queueVars, listVars, cbVars
<1>37. CASE ProcPopOut
  <2>1. proc'.pc = "post" /\ proc'.vi = proc.vi
    <3>1. \/ proc' = [proc EXCEPT !.pc = "post"]
          \/ \E out \in cpp_out_list : proc' = [proc EXCEPT !.pc = "post", !.out = out]
      BY <1>37 DEF ProcPopOut
    <3> QED BY <3>1 DEF TypeOK, ThreadType
  <2>2. /\ sessions' = sessions /\ listsAlive' = listsAlive /\ viPool' = viPool
        /\ viQueue' = viQueue /\ viCb' = viCb /\ vi_out_list' = vi_out_list
        /\ cppIn' = cppIn /\ cppCb' = cppCb /\ viLost' = viLost
    BY <1>37 DEF ProcPopOut, ctlVars, poolVars, queueVars, cbVars
  <2>3. ASSUME NEW b, NEW h \in ViHolders, HoldsVi(h, b)' PROVE HoldsVi(h, b)
    BY <1>37, <2>1, <2>2, <2>3 DEF ProcPopOut, ViHolders, HoldsVi
  <2> QED BY <2>2, <2>3 DEF ViBufferExclusive
<1>38. CASE ProcPost
    BY <1>38 DEF ProcPost, ViBufferExclusive, ViHolders, HoldsVi, ctlVars, unitVars,
     poolVars, listVars, cbVars
<1>39. CASE ProcErase
    BY <1>39 DEF ProcErase, ViBufferExclusive, ViHolders, HoldsVi, EraseInfo, ctlVars,
     unitVars, poolVars, queueVars, cbVars
<1>40. CASE ProcLoop
    BY <1>40 DEF ProcLoop, ViBufferExclusive, ViHolders, HoldsVi, ctlVars, unitVars,
     poolVars, queueVars, listVars, cbVars
<1>41. CASE UNCHANGED vars
    BY <1>41 DEF ViBufferExclusive, vars, ViHolders, HoldsVi, ctlVars, unitVars,
     poolVars, queueVars, listVars, cbVars, threadVars
<1> QED
    BY <1>1, <1>2, <1>3, <1>4, <1>5, <1>6, <1>7, <1>8, <1>9, <1>10, <1>11, <1>12, <1>13,
     <1>14, <1>15, <1>16, <1>17, <1>18, <1>19, <1>20, <1>21, <1>22, <1>23, <1>24, <1>25,
     <1>26, <1>27, <1>28, <1>29, <1>30, <1>31, <1>32, <1>33, <1>34, <1>35, <1>36, <1>37,
     <1>38, <1>39, <1>40, <1>41 DEF Next, Main, Library, Proc

(* Through the first session no VI buffer is in two hands at once. *)
THEOREM ViBuffersExclusive == Spec => []ViBufferExclusive
<1>1. Init => ViBufferExclusive
  BY DEF Init, ViBufferExclusive, ViHolders, HoldsVi, NoVi, NoIsp, NoCpp
<1>2. TypeOK /\ ViBufferExclusive /\ [Next]_vars => ViBufferExclusive'
  BY ExclusiveStep
<1> QED BY <1>1, <1>2, TypeCorrect, PTL DEF Spec
-----------------------------------------------------------------------------
(* The first session. *)

Early == {"ready", "prepared", "cppStarted", "sensorOn"}

(* The flag is up only while the session streams, or after a quit that has not stopped
   it; the CPP is started before and is on as long. *)
FlagInv ==
    /\ main \in {"cppStarted", "sensorOn"} => cppOn = TRUE
    /\ streamOnFlag = 1 =>
         /\ main \in {"streaming", "quit", "joining", "joined", "viDown", "freed", "done"}
         /\ main # "done" => cppOn = TRUE

(* Before the first session streams nothing has been passed on: frames that come too
   early stop at the flag. *)
StartInv ==
    sessions = 0 /\ main \in Early =>
      /\ vi_out_list = <<>> /\ isp_out_list = <<>> /\ cppIn = {} /\ cppOut = {}
      /\ viCb.pc \in {"idle", "enter"} /\ ispCb.pc \in {"idle", "enter"}
      /\ cppCb.pc = "idle"
      /\ proc.pc \in {"start", "wait", "check", "loop", "exited"}
      /\ main # "sensorOn" =>
           viOn = FALSE /\ viCb.pc = "idle" /\ ispOn = FALSE /\ ispCb.pc = "idle"

(* From its preparation on the pool of output buffers is empty. *)
PoolInv ==
    sessions = 0 /\ main \in {"prepared", "cppStarted", "sensorOn", "streaming"} => cppPool = {}

(* The thread has an output buffer only while it is about to post it. *)
OutInv == proc.pc # "post" => proc.out = NULL

(* What the library threads and the processing thread leave to the main thread; the flag
   they only lower. *)
LEMMA OthersControl ==
    ASSUME Library \/ Proc
    PROVE  /\ UNCHANGED <<main, sessions, listsAlive, viOn, ispOn, cppOn, viPool, cppPool>>
           /\ streamOnFlag' \in {streamOnFlag, 0}
<1>1. CASE Library
  BY <1>1 DEF Library, ViDeliver, ViDropFrame, ViCbEnter, ViCbPush, ViCbAutoRun, RawDeliver,
     IspDeliver, IspDropFrame, IspCbEnter, IspCbPush, CppDeliver, CppCbEnter, CppCbReturn,
     ctlVars, unitVars, poolVars
<1>2. CASE Proc
  BY <1>2 DEF Proc, ProcStart, ProcWake, ProcCheck, ProcPopVi, ProcMatch, ProcPopOut,
     ProcPost, ProcErase, ProcLoop, ctlVars, unitVars, poolVars
<1> QED BY <1>1, <1>2

LEMMA FlagStep == ASSUME ControlType, FlagInv, [Next]_vars PROVE FlagInv'
<1>1. CASE Main
  BY <1>1 DEF Main, FlagInv, ControlType, TestBufferPrepare, CppStart, StreamOn,
     SetStreamOnFlag, DumpRawKey, ClearStreamOnFlag, ViStreamOff, IspFlush, IspStreamOff,
     CppStop, TestBufferReset, QuitKey, ProcThreadDeinit, ProcThreadJoin, ViIspDeinit,
     TestBufferDeInit, CppDeInit, ctlVars, unitVars
<1>2. CASE Library \/ Proc BY <1>2, OthersControl DEF FlagInv
<1>3. CASE UNCHANGED vars BY <1>3 DEF vars, ctlVars, unitVars, FlagInv
<1> QED BY <1>1, <1>2, <1>3 DEF Next

LEMMA PoolStep == ASSUME TypeOK, PoolInv, [Next]_vars PROVE PoolInv'
<1>1. CASE Main
  BY <1>1 DEF Main, PoolInv, TypeOK, ControlType, TestBufferPrepare, CppStart, StreamOn,
     SetStreamOnFlag, DumpRawKey, ClearStreamOnFlag, ViStreamOff, IspFlush, IspStreamOff,
     CppStop, TestBufferReset, QuitKey, ProcThreadDeinit, ProcThreadJoin, ViIspDeinit,
     TestBufferDeInit, CppDeInit, ctlVars, poolVars
<1>2. CASE Library \/ Proc BY <1>2, OthersControl DEF PoolInv
<1>3. CASE UNCHANGED vars BY <1>3 DEF vars, ctlVars, poolVars, PoolInv
<1> QED BY <1>1, <1>2, <1>3 DEF Next

LEMMA OutStep == ASSUME TypeOK, OutInv, [Next]_vars PROVE OutInv'
<1>1. CASE Main
  <2>1. proc' = proc
    BY <1>1 DEF Main, TestBufferPrepare, CppStart, StreamOn,
       SetStreamOnFlag, DumpRawKey, ClearStreamOnFlag, ViStreamOff, IspFlush, IspStreamOff,
       CppStop, TestBufferReset, QuitKey, ProcThreadDeinit, ProcThreadJoin, ViIspDeinit,
       TestBufferDeInit, CppDeInit, threadVars
  <2> QED BY <2>1 DEF OutInv
<1>2. CASE Library
  <2>1. proc' = proc
    BY <1>2 DEF Library, ViDeliver, ViDropFrame, ViCbEnter, ViCbPush, ViCbAutoRun, RawDeliver,
       IspDeliver, IspDropFrame, IspCbEnter, IspCbPush, CppDeliver, CppCbEnter, CppCbReturn,
       threadVars
  <2> QED BY <2>1 DEF OutInv
<1>3. CASE Proc
  <2>1. proc'.pc = "post" \/ proc'.out = NULL
        \/ (proc.pc # "post" /\ proc'.out = proc.out)
    BY <1>3 DEF Proc, ProcStart, ProcWake, ProcCheck, ProcPopVi, ProcMatch, ProcPopOut,
       ProcPost, ProcErase, ProcLoop, TypeOK, ThreadType
  <2> QED BY <2>1 DEF OutInv
<1>4. CASE UNCHANGED vars BY <1>4 DEF vars, threadVars, OutInv
<1> QED BY <1>1, <1>2, <1>3, <1>4 DEF Next
LEMMA StartStep == ASSUME TypeOK, FlagInv, StartInv, [Next]_vars PROVE StartInv'
<1>1. CASE Main
  BY <1>1 DEF Main, StartInv, Early, TypeOK, ControlType, TestBufferPrepare, CppStart, StreamOn,
     SetStreamOnFlag, DumpRawKey, ClearStreamOnFlag, ViStreamOff, IspFlush, IspStreamOff,
     CppStop, TestBufferReset, QuitKey, ProcThreadDeinit, ProcThreadJoin, ViIspDeinit,
     TestBufferDeInit, CppDeInit, ctlVars, unitVars, queueVars, listVars, cbVars, threadVars
<1>2. CASE Library \/ Proc
  <2> SUFFICES ASSUME sessions = 0, main \in Early PROVE StartInv'
    BY <1>2, OthersControl DEF StartInv
  <2>1. streamOnFlag = 0 BY DEF FlagInv, Early, TypeOK, ControlType
  <2>2. CASE Library
    BY <1>2, <2>1, <2>2, OthersControl
    DEF Library, StartInv, ViDeliver, ViDropFrame, ViCbEnter, ViCbPush, ViCbAutoRun, RawDeliver,
       IspDeliver, IspDropFrame, IspCbEnter, IspCbPush, CppDeliver, CppCbEnter, CppCbReturn,
       NoVi, NoIsp, queueVars, listVars, cbVars, threadVars
  <2>3. CASE Proc
    <3>1. ProcStart \/ ProcWake \/ ProcCheck \/ ProcLoop
      BY <2>3 DEF Proc, StartInv, ProcPopVi, ProcMatch, ProcPopOut, ProcPost, ProcErase
    <3>2. proc'.pc \in {"start", "wait", "check", "loop", "exited"}
      BY <3>1
      DEF StartInv, ProcStart, ProcWake, ProcCheck, ProcLoop, TypeOK, ThreadType
    <3>3. UNCHANGED <<queueVars, listVars, cbVars>>
      BY <3>1 DEF ProcStart, ProcWake, ProcCheck, ProcLoop
    <3> QED BY <2>3, <3>2, <3>3, OthersControl DEF StartInv, queueVars, listVars, cbVars
  <2> QED BY <1>2, <2>2, <2>3
<1>3. CASE UNCHANGED vars
  BY <1>3 DEF vars, ctlVars, unitVars, queueVars, listVars, cbVars, threadVars, StartInv
<1> QED BY <1>1, <1>2, <1>3 DEF Next

-----------------------------------------------------------------------------
(* Steps that lose a buffer. *)

(* A step that forgets a VI buffer is one of five. *)
LEMMA LossStep ==
    ASSUME TypeOK, ShutdownInv, TakeInv, FlagInv, Next, ~(viLost' \subseteq viLost)
    PROVE  streamOnFlag = 0
<1>1. CASE Main
  <2>1. ViStreamOff \/ CppStop
    BY <1>1 DEF Main, TestBufferPrepare, CppStart, StreamOn,
       SetStreamOnFlag, DumpRawKey, ClearStreamOnFlag, IspFlush, IspStreamOff,
       TestBufferReset, QuitKey, ProcThreadDeinit, ProcThreadJoin, ViIspDeinit,
       TestBufferDeInit, CppDeInit, queueVars
  <2> QED BY <2>1 DEF ViStreamOff, CppStop, FlagInv, TypeOK, ControlType
<1>2. CASE Library
  BY <1>2 DEF Library, ViDeliver, ViDropFrame, ViCbEnter, ViCbPush, ViCbAutoRun, RawDeliver,
     IspDeliver, IspDropFrame, IspCbEnter, IspCbPush, CppDeliver, CppCbEnter, CppCbReturn,
     queueVars
<1>3. CASE Proc
  <2>1. ProcPost /\ (proc.out = NULL \/ ~cppOn)
    BY <1>3 DEF Proc, ProcStart, ProcWake, ProcCheck, ProcPopVi, ProcMatch, ProcPopOut,
       ProcPost, ProcErase, ProcLoop, queueVars
  <2>2. proc.pc = "post" /\ cppOn # TRUE BY <2>1 DEF ProcPost, TakeInv
  <2>3. main # "done" BY <2>2 DEF ShutdownInv
  <2> QED BY <2>2, <2>3 DEF FlagInv, TypeOK, ControlType
<1> QED BY <1>1, <1>2, <1>3 DEF Next

-----------------------------------------------------------------------------
(* Who holds an output buffer in the first session. *)

Live == main \in Early \/ (main = "streaming" /\ streamOnFlag = 1)

(* An output buffer is in one place: in the pool until the session is prepared, with one
   holder from then on, until the flag is lowered. *)
HolderInv ==
    sessions = 0 =>
      \A o \in CppBufs :
        /\ \A g, h \in OutHolders : HoldsOut(g, o) /\ HoldsOut(h, o) => g = h
        /\ o \in cppPool => \A h \in OutHolders : ~HoldsOut(h, o)
        /\ Live => o \in cppPool \/ \E h \in OutHolders : HoldsOut(h, o)

(* A session goes through its phases once. *)
LEMMA LiveStep ==
    ASSUME TypeOK, [Next]_vars, sessions' = 0, Live'
    PROVE  sessions = 0 /\ Live
<1>1. CASE Main
  BY <1>1 DEF Main, Live, Early, TypeOK, ControlType, TestBufferPrepare, CppStart, StreamOn,
     SetStreamOnFlag, DumpRawKey, ClearStreamOnFlag, ViStreamOff, IspFlush, IspStreamOff,
     CppStop, TestBufferReset, QuitKey, ProcThreadDeinit, ProcThreadJoin, ViIspDeinit,
     TestBufferDeInit, CppDeInit, ctlVars
<1>2. CASE Library \/ Proc BY <1>2, OthersControl DEF Live
<1>3. CASE UNCHANGED vars BY <1>3 DEF vars, ctlVars, Live
<1> QED BY <1>1, <1>2, <1>3 DEF Next

(* A step that moves no output buffer keeps them in their places. *)
LEMMA HoldersSame ==
    ASSUME TypeOK, HolderInv, [Next]_vars, sessions' = 0 => sessions = 0,
           UNCHANGED <<cppPool, cpp_out_list, cppOut, cppCb>>, proc'.out = proc.out
    PROVE  HolderInv'
<1> SUFFICES ASSUME sessions' = 0 PROVE HolderInv' BY DEF HolderInv
<1>1. \A o : \A h \in OutHolders : HoldsOut(h, o)' <=> HoldsOut(h, o)
  BY DEF HoldsOut, OutHolders
<1> QED BY <1>1, LiveStep DEF HolderInv

LEMMA HolderStep ==
    ASSUME TypeOK, ShutdownInv, TakeInv, FlagInv, StartInv, PoolInv, OutInv, HolderInv,
           [Next]_vars
    PROVE  HolderInv'
<1>1. CASE TestBufferPrepare
  <2> SUFFICES ASSUME sessions' = 0 PROVE HolderInv' BY DEF HolderInv
  <2>1. sessions = 0 /\ cpp_out_list' = cpp_out_list \cup cppPool /\ cppPool' = {}
        /\ proc' = proc /\ cppOut' = cppOut /\ cppCb' = cppCb
    BY <1>1 DEF TestBufferPrepare, ctlVars, cbVars, threadVars
  <2>2. Live BY <1>1 DEF TestBufferPrepare, Live, Early
  <2>3. \A o : \A h \in OutHolders \ {"list"} : HoldsOut(h, o)' <=> HoldsOut(h, o)
    BY <2>1 DEF HoldsOut, OutHolders
  <2>4. \A o : HoldsOut("list", o)' <=> HoldsOut("list", o) \/ o \in cppPool
    BY <2>1 DEF HoldsOut
  <2> QED BY <2>1, <2>2, <2>3, <2>4 DEF HolderInv, OutHolders
<1>2. CASE CppStop
  <2> SUFFICES ASSUME sessions' = 0 PROVE HolderInv' BY DEF HolderInv
  <2>1. sessions = 0 /\ cpp_out_list' = cpp_out_list /\ cppPool' = cppPool
        /\ proc' = proc /\ cppOut' = {} /\ cppCb' = cppCb /\ ~Live'
    BY <1>2 DEF CppStop, ctlVars, poolVars, listVars, cbVars, threadVars, Live, Early
  <2>2. \A o : \A h \in OutHolders : HoldsOut(h, o)' => HoldsOut(h, o)
    BY <2>1 DEF HoldsOut, OutHolders
  <2> QED BY <2>1, <2>2 DEF HolderInv
<1>3. CASE TestBufferReset
  <2>1. sessions' # 0 BY <1>3 DEF TestBufferReset, TypeOK, ControlType
  <2> QED BY <2>1 DEF HolderInv
<1>4. CASE TestBufferDeInit
  <2> SUFFICES ASSUME sessions' = 0 PROVE HolderInv' BY DEF HolderInv
  <2>1. sessions = 0 /\ cpp_out_list' = {} /\ cppPool' = {}
        /\ proc' = proc /\ cppOut' = cppOut /\ cppCb' = cppCb /\ ~Live'
    BY <1>4 DEF TestBufferDeInit, queueVars, cbVars, threadVars, Live, Early
  <2>2. \A o : \A h \in OutHolders : HoldsOut(h, o)' => HoldsOut(h, o)
    BY <2>1 DEF HoldsOut, OutHolders
  <2> QED BY <2>1, <2>2 DEF HolderInv
<1>5. CASE Main /\ ~(TestBufferPrepare \/ CppStop \/ TestBufferReset \/ TestBufferDeInit)
  <2>1. UNCHANGED <<sessions, cppPool, cpp_out_list, cppOut, cppCb, proc>>
    BY <1>5 DEF Main, CppStart, StreamOn, SetStreamOnFlag, DumpRawKey, ClearStreamOnFlag,
       ViStreamOff, IspFlush, IspStreamOff, QuitKey, ProcThreadDeinit, ProcThreadJoin,
       ViIspDeinit, CppDeInit, ctlVars, poolVars, queueVars, listVars, cbVars, threadVars
  <2> QED BY <2>1, HoldersSame
<1>6. CASE Library /\ cppCb' = cppCb
  <2>1. UNCHANGED <<sessions, cppPool, cpp_out_list, cppOut, proc>>
    BY <1>6, PipelineAssumption DEF Library, ViDeliver, ViDropFrame, ViCbEnter, ViCbPush,
       ViCbAutoRun, RawDeliver, IspDeliver, IspDropFrame, IspCbEnter, IspCbPush, CppDeliver,
       CppCbEnter, CppCbReturn, TypeOK, CallbackType, NoCpp, ctlVars, poolVars, queueVars, listVars, threadVars
  <2> QED BY <1>6, <2>1, HoldersSame
<1>7. ASSUME NEW chn \in {-1, 0}, NEW b \in ViBufs \cup CppBufs, CppDeliver(chn, b)
      PROVE  HolderInv'
  <2> SUFFICES ASSUME sessions' = 0 PROVE HolderInv' BY DEF HolderInv
  <2>1. /\ UNCHANGED <<sessions, cppPool, cpp_out_list, proc>>
        /\ cppCb.pc = "idle" /\ cppCb' = [pc |-> "enter", chn |-> chn, buffer |-> b]
        /\ \/ chn = -1 /\ cppOut' = cppOut
           \/ chn = 0 /\ b \in cppOut /\ cppOut' = cppOut \ {b}
    BY <1>7 DEF CppDeliver, ctlVars, poolVars, listVars, threadVars
  <2>2. \A o : \A h \in {"list", "proc"} : HoldsOut(h, o)' <=> HoldsOut(h, o)
    BY <2>1 DEF HoldsOut
  <2>3. \A o : /\ HoldsOut("cpp", o)' <=> HoldsOut("cpp", o) /\ ~(chn = 0 /\ o = b)
               /\ HoldsOut("cppCb", o)' <=> chn = 0 /\ o = b
               /\ ~HoldsOut("cppCb", o)
    BY <2>1 DEF HoldsOut
  <2>4. chn = 0 => HoldsOut("cpp", b)
    BY <2>1 DEF HoldsOut
  <2> QED BY <2>1, <2>2, <2>3, <2>4, LiveStep DEF HolderInv, OutHolders
<1>8. CASE CppCbEnter
  <2> SUFFICES ASSUME sessions' = 0 PROVE HolderInv' BY DEF HolderInv
  <2>1. UNCHANGED <<sessions, main, streamOnFlag, cppPool, cpp_out_list, cppOut, proc>>
    BY <1>8 DEF CppCbEnter, ctlVars, poolVars, listVars, threadVars
  <2>2. \A o : \A h \in OutHolders \ {"cppCb"} : HoldsOut(h, o)' <=> HoldsOut(h, o)
    BY <2>1 DEF HoldsOut, OutHolders
  <2>3. CASE streamOnFlag = 0
    <3>1. \A o : ~HoldsOut("cppCb", o)'
      BY <1>8, <2>3 DEF CppCbEnter, NoCpp, HoldsOut
    <3>2. ~Live BY <1>8, <2>1, <2>3 DEF CppCbEnter, Live, StartInv
    <3> QED BY <2>1, <2>2, <3>1, <3>2, LiveStep DEF HolderInv
  <2>4. CASE streamOnFlag # 0
    <3>1. cppCb'.pc = "body" /\ cppCb'.chn = cppCb.chn /\ cppCb'.buffer = cppCb.buffer
      BY <1>8, <2>4 DEF CppCbEnter, TypeOK, CallbackType
    <3>2. \A o : HoldsOut("cppCb", o)' <=> HoldsOut("cppCb", o)
      BY <1>8, <3>1 DEF CppCbEnter, HoldsOut
    <3> QED BY <2>1, <2>2, <3>2, LiveStep DEF HolderInv
  <2> QED BY <2>3, <2>4
<1>9. CASE CppCbReturn
  <2> SUFFICES ASSUME sessions' = 0 PROVE HolderInv' BY DEF HolderInv
  <2>1. UNCHANGED <<sessions, cppPool, cppOut, proc>>
    BY <1>9 DEF CppCbReturn, ctlVars, poolVars, threadVars
  <2>2. \A o : \A h \in {"proc", "cpp"} : HoldsOut(h, o)' <=> HoldsOut(h, o)
    BY <2>1 DEF HoldsOut
  <2>3. \A o : /\ ~HoldsOut("cppCb", o)'
               /\ HoldsOut("list", o)' <=> HoldsOut("list", o) \/ HoldsOut("cppCb", o)
    BY <1>9 DEF CppCbReturn, NoCpp, HoldsOut, TypeOK, CallbackType
  <2> QED BY <2>1, <2>2, <2>3, LiveStep DEF HolderInv, OutHolders
<1>10. CASE ProcPopOut
  <2> SUFFICES ASSUME sessions' = 0 PROVE HolderInv' BY DEF HolderInv
  <2>1. PICK out \in cpp_out_list : /\ proc' = [proc EXCEPT !.pc = "post", !.out = out]
                                    /\ cpp_out_list' = cpp_out_list \ {out}
    BY <1>10 DEF ProcPopOut, TakeInv
  <2>2. proc.out = NULL /\ proc'.out = out
    BY <1>10, <2>1 DEF ProcPopOut, OutInv, TypeOK, ThreadType
  <2>3. UNCHANGED <<sessions, cppPool, cppOut, cppCb>>
    BY <1>10 DEF ProcPopOut, ctlVars, poolVars, queueVars, cbVars
  <2>4. \A o : \A h \in {"cpp", "cppCb"} : HoldsOut(h, o)' <=> HoldsOut(h, o)
    BY <2>3 DEF HoldsOut
  <2>5. \A o \in CppBufs : /\ HoldsOut("proc", o)' <=> o = out
                           /\ HoldsOut("list", o)' <=> HoldsOut("list", o) /\ o # out
                           /\ ~HoldsOut("proc", o) /\ HoldsOut("list", out)
    BY <2>1, <2>2, PipelineAssumption DEF HoldsOut
  <2>6. out \in CppBufs BY <2>1 DEF TypeOK, ListType
  <2> QED BY <2>3, <2>4, <2>5, <2>6, LiveStep DEF HolderInv, OutHolders
<1>11. CASE ProcPost
  <2> SUFFICES ASSUME sessions' = 0 PROVE HolderInv' BY DEF HolderInv
  <2>1. /\ UNCHANGED <<sessions, main, streamOnFlag, cppPool, cpp_out_list, cppCb>>
        /\ proc.pc = "post" /\ proc'.out = NULL
    BY <1>11 DEF ProcPost, TypeOK, ThreadType, ctlVars, poolVars, listVars, cbVars
  <2>2. \A o \in CppBufs : /\ ~HoldsOut("proc", o)'
                           /\ \A h \in {"list", "cppCb"} : HoldsOut(h, o)' <=> HoldsOut(h, o)
    BY <2>1, PipelineAssumption DEF HoldsOut
  <2>3. CASE proc.out # NULL /\ cppOn
    <3>1. cppOut' = cppOut \cup {proc.out}
      BY <1>11, <2>3 DEF ProcPost
    <3>2. \A o : HoldsOut("cpp", o)' <=> HoldsOut("cpp", o) \/ HoldsOut("proc", o)
      BY <3>1 DEF HoldsOut
    <3> QED BY <2>1, <2>2, <3>2, LiveStep DEF HolderInv, OutHolders
  <2>4. CASE ~(proc.out # NULL /\ cppOn)
    <3>1. cppOut' = cppOut BY <1>11, <2>4 DEF ProcPost
    <3>2. \A o : HoldsOut("cpp", o)' <=> HoldsOut("cpp", o)
      BY <3>1 DEF HoldsOut
    <3>3. cppOn # TRUE BY <2>1, <2>4 DEF TakeInv
    <3>4. ~Live BY <2>1, <3>3 DEF Live, FlagInv, StartInv
    <3> QED BY <2>1, <2>2, <3>2, <3>4, LiveStep DEF HolderInv, OutHolders
  <2> QED BY <2>3, <2>4
<1>12. CASE Proc /\ ~ProcPopOut /\ ~ProcPost
  <2>1. UNCHANGED <<sessions, cppPool, cpp_out_list, cppOut, cppCb>>
    BY <1>12 DEF Proc, ProcStart, ProcWake, ProcCheck, ProcPopVi, ProcMatch, ProcErase,
       ProcLoop, ctlVars, poolVars, queueVars, listVars, cbVars
  <2>2. proc'.out = proc.out
    BY <1>12 DEF Proc, ProcStart, ProcWake, ProcCheck, ProcPopVi, ProcMatch, ProcErase,
       ProcLoop, TypeOK, ThreadType
  <2> QED BY <2>1, <2>2, HoldersSame
<1>13. CASE UNCHANGED vars
  BY <1>13, HoldersSame DEF vars, ctlVars, poolVars, queueVars, listVars, cbVars, threadVars
<1>14. Library => \/ cppCb' = cppCb \/ CppCbEnter \/ CppCbReturn
                  \/ \E chn \in {-1, 0} : \E b \in ViBufs \cup CppBufs : CppDeliver(chn, b)
  BY DEF Library, ViDeliver, ViDropFrame, ViCbEnter, ViCbPush, ViCbAutoRun, RawDeliver,
     IspDeliver, IspDropFrame, IspCbEnter, IspCbPush, cbVars
<1> QED BY <1>1, <1>2, <1>3, <1>4, <1>5, <1>6, <1>7, <1>8, <1>9, <1>10, <1>11, <1>12, <1>13,
           <1>14 DEF Next
-----------------------------------------------------------------------------
(* The order of the frames of the first session. *)

InThread == proc.pc \in {"match", "popOut", "post"}
InHand == proc.pc \in {"match", "popOut", "post", "erase"}
InCallback == viCb.pc \in {"enter", "push"}

(* The frame in the thread, posted or not, is older than those in the list, these are older than the one
   in the callback, and that is not newer than the last frame VI began. *)
FrameInv ==
    sessions = 0 =>
      /\ \A i, j \in DOMAIN vi_out_list :
           i < j => vi_out_list[i].frameId < vi_out_list[j].frameId
      /\ \A i \in DOMAIN vi_out_list :
           /\ vi_out_list[i].frameId <= frame
           /\ InHand => proc.vi.frameId < vi_out_list[i].frameId
           /\ InCallback => vi_out_list[i].frameId < viCb.frameId
      /\ InHand => proc.vi.frameId <= frame
      /\ InCallback => viCb.frameId <= frame
      /\ InHand /\ InCallback => proc.vi.frameId < viCb.frameId

LEMMA FrameNumbers ==
    ASSUME TypeOK
    PROVE  /\ \A i \in DOMAIN vi_out_list : vi_out_list[i].frameId \in Int
           /\ InHand => proc.vi.frameId \in Int
           /\ InCallback => viCb.frameId \in Int
<1>1. \A i \in DOMAIN vi_out_list : vi_out_list[i] \in ViInfo BY DEF TypeOK, ListType
<1>2. InHand => proc.vi \in ViInfo BY DEF InHand, TypeOK, ThreadType
<1>3. InCallback => viCb.frameId \in Frames BY DEF InCallback, TypeOK, CallbackType
<1> QED BY <1>1, <1>2, <1>3 DEF ViInfo, Frames

(* A step after which a frame is at most where it was keeps the order. *)
LEMMA FramesSame ==
    ASSUME FrameInv, sessions' = 0 => sessions = 0, UNCHANGED <<frame, vi_out_list>>,
           InHand' => InHand /\ proc'.vi = proc.vi,
           InCallback' => InCallback /\ viCb'.frameId = viCb.frameId
    PROVE  FrameInv'
BY DEF FrameInv

LEMMA FrameStep == ASSUME TypeOK, StartInv, FrameInv, [Next]_vars PROVE FrameInv'
<1>1. CASE StreamOn
  <2> SUFFICES ASSUME sessions' = 0 PROVE FrameInv' BY DEF FrameInv
  <2>1. sessions = 0 /\ main \in Early /\ main # "sensorOn"
    BY <1>1 DEF StreamOn, ctlVars, Early
  <2>2. vi_out_list' = <<>> /\ ~InHand' /\ ~InCallback'
    BY <1>1, <2>1 DEF StreamOn, StartInv, InHand, InCallback, listVars, cbVars, threadVars
  <2> QED BY <2>2 DEF FrameInv
<1>2. CASE TestBufferReset
  <2>1. sessions' # 0 BY <1>2 DEF TestBufferReset, TypeOK, ControlType
  <2> QED BY <2>1 DEF FrameInv
<1>3. CASE TestBufferDeInit
  <2>1. vi_out_list' = <<>> /\ UNCHANGED <<sessions, frame, viCb, proc>>
    BY <1>3 DEF TestBufferDeInit, unitVars, cbVars, threadVars
  <2> QED BY <2>1 DEF FrameInv, InHand, InCallback
<1>4. CASE Main /\ ~(StreamOn \/ TestBufferReset \/ TestBufferDeInit)
  <2>1. UNCHANGED <<sessions, frame, vi_out_list, viCb, proc>>
    BY <1>4 DEF Main, TestBufferPrepare, CppStart, SetStreamOnFlag, DumpRawKey,
       ClearStreamOnFlag, ViStreamOff, IspFlush, IspStreamOff, CppStop, QuitKey,
       ProcThreadDeinit, ProcThreadJoin, ViIspDeinit, CppDeInit, ctlVars, unitVars,
       listVars, cbVars, threadVars
  <2> QED BY <2>1, FramesSame DEF InHand, InCallback
<1>5. ASSUME NEW b \in ViBufs, ViDeliver(b) PROVE FrameInv'
  <2>1. /\ UNCHANGED <<sessions, vi_out_list, proc>> /\ frame' = frame + 1
        /\ ~InCallback /\ viCb'.frameId = frame + 1
    BY <1>5 DEF ViDeliver, InCallback, ctlVars, listVars, threadVars
  <2>2. frame \in Nat BY DEF TypeOK, ControlType
  <2> QED BY <2>1, <2>2, FrameNumbers DEF FrameInv, InHand
<1>6. CASE ViDropFrame
  <2>1. UNCHANGED <<sessions, vi_out_list, proc, viCb>> /\ frame' = frame + 1
    BY <1>6 DEF ViDropFrame, ctlVars, listVars, cbVars, threadVars
  <2>2. frame \in Nat /\ ~InCallback BY <1>6 DEF ViDropFrame, InCallback, TypeOK, ControlType
  <2> QED BY <2>1, <2>2, FrameNumbers DEF FrameInv, InHand, InCallback
<1>7. CASE ViCbPush
  <2> DEFINE e == [buffer |-> viCb.buffer, frameId |-> viCb.frameId]
  <2>1. /\ UNCHANGED <<sessions, frame, proc>> /\ InCallback /\ ~InCallback'
        /\ vi_out_list' = Append(vi_out_list, e) /\ e \in ViInfo
    BY <1>7 DEF ViCbPush, NoVi, InCallback, TypeOK, CallbackType, ViInfo, ctlVars,
       unitVars, threadVars
  <2>2. /\ DOMAIN vi_out_list' = 1 .. Len(vi_out_list) + 1
        /\ DOMAIN vi_out_list = 1 .. Len(vi_out_list) /\ Len(vi_out_list) \in Nat
        /\ \A i \in DOMAIN vi_out_list : vi_out_list'[i] = vi_out_list[i]
        /\ vi_out_list'[Len(vi_out_list) + 1] = e
    <3> HIDE DEF e
    <3> QED BY <2>1, AppendProperties, LenProperties DEF TypeOK, ListType
  <2>3. e.frameId = viCb.frameId OBVIOUS
  <2> HIDE DEF e
  <2> QED BY <2>1, <2>2, <2>3 DEF FrameInv, InHand
<1>8. CASE ProcPopVi /\ vi_out_list # <<>>
  <2>1. /\ UNCHANGED <<sessions, frame, viCb>>
        /\ proc'.vi = Head(vi_out_list) /\ vi_out_list' = Tail(vi_out_list)
    BY <1>8 DEF ProcPopVi, TypeOK, ThreadType, ctlVars, unitVars, cbVars
  <2>2. /\ Head(vi_out_list) = vi_out_list[1]
        /\ DOMAIN vi_out_list' = 1 .. Len(vi_out_list) - 1
        /\ DOMAIN vi_out_list = 1 .. Len(vi_out_list) /\ Len(vi_out_list) \in Nat \ {0}
        /\ \A i \in DOMAIN vi_out_list' : vi_out_list'[i] = vi_out_list[i + 1]
    BY <1>8, <2>1, HeadTailProperties, LenProperties DEF TypeOK, ListType
  <2> QED BY <2>1, <2>2 DEF FrameInv, InCallback
<1>9. CASE Library /\ ~(\E b \in ViBufs : ViDeliver(b)) /\ ~ViDropFrame /\ ~ViCbPush
  <2>1. UNCHANGED <<sessions, frame, vi_out_list, proc>>
    BY <1>9 DEF Library, ViCbEnter, ViCbAutoRun, RawDeliver, IspDeliver, IspDropFrame,
       IspCbEnter, IspCbPush, CppDeliver, CppCbEnter, CppCbReturn, ctlVars, unitVars,
       listVars, threadVars
  <2>2. InCallback' => InCallback /\ viCb'.frameId = viCb.frameId
    BY <1>9 DEF Library, InCallback, ViCbEnter, ViCbAutoRun, NoVi, RawDeliver, IspDeliver,
       IspDropFrame, IspCbEnter, IspCbPush, CppDeliver, CppCbEnter, CppCbReturn, TypeOK,
       CallbackType, cbVars
  <2> QED BY <2>1, <2>2, FramesSame DEF InHand
<1>10. CASE Proc /\ ~(ProcPopVi /\ vi_out_list # <<>>)
  <2>1. UNCHANGED <<sessions, frame, vi_out_list, viCb>>
    BY <1>10 DEF Proc, ProcStart, ProcWake, ProcCheck, ProcPopVi, ProcMatch, ProcPopOut,
       ProcPost, ProcErase, ProcLoop, ctlVars, unitVars, listVars, cbVars
  <2>2. InHand' => InHand /\ proc'.vi = proc.vi
    BY <1>10 DEF Proc, ProcStart, ProcWake, ProcCheck, ProcPopVi, ProcMatch, ProcPopOut,
       ProcPost, ProcErase, ProcLoop, InHand, TypeOK, ThreadType
  <2> QED BY <2>1, <2>2, FramesSame DEF InCallback
<1>11. CASE UNCHANGED vars
  <2>1. UNCHANGED <<sessions, frame, vi_out_list, viCb, proc>>
    BY <1>11 DEF vars, ctlVars, unitVars, listVars, cbVars, threadVars
  <2> QED BY <2>1, FramesSame DEF InHand, InCallback
<1> QED BY <1>1, <1>2, <1>3, <1>4, <1>5, <1>6, <1>7, <1>8, <1>9, <1>10, <1>11
        DEF Next, Main, Library

Increasing(s) == \A i, j \in DOMAIN s : i < j => s[i] < s[j]

(* Two increasing sequences, the second with the greater elements, make one. *)
LEMMA IncreasingConcat ==
    ASSUME NEW s \in Seq(Int), NEW t \in Seq(Int), Increasing(s), Increasing(t),
           \A i \in DOMAIN s : \A j \in DOMAIN t : s[i] < t[j]
    PROVE  s \o t \in Seq(Int) /\ Increasing(s \o t)
<1> DEFINE u == s \o t
<1>1. /\ u \in Seq(Int) /\ DOMAIN u = 1 .. Len(s) + Len(t)
      /\ DOMAIN s = 1 .. Len(s) /\ DOMAIN t = 1 .. Len(t) /\ Len(s) \in Nat /\ Len(t) \in Nat
      /\ \A i \in DOMAIN u : i <= Len(s) => u[i] = s[i]
      /\ \A i \in DOMAIN u : i > Len(s) => u[i] = t[i - Len(s)]
  BY ConcatProperties, LenProperties
<1> HIDE DEF u
<1>2. ASSUME NEW i \in DOMAIN u, NEW j \in DOMAIN u, i < j
      PROVE  u[i] < u[j]
  <2>1. CASE j <= Len(s)
    <3>1. /\ i \in DOMAIN s /\ j \in DOMAIN s /\ i <= Len(s)
      BY <1>1, <1>2, <2>1
    <3>2. s[i] < s[j] BY <1>2, <3>1 DEF Increasing
    <3>3. u[i] = s[i] /\ u[j] = s[j] BY <1>1, <2>1, <3>1
    <3> QED BY <3>2, <3>3
  <2>2. CASE i <= Len(s) /\ j > Len(s)
    <3>1. i \in DOMAIN s /\ j - Len(s) \in DOMAIN t BY <1>1, <1>2, <2>2
    <3>2. s[i] < t[j - Len(s)] BY <3>1
    <3>3. u[i] = s[i] /\ u[j] = t[j - Len(s)] BY <1>1, <2>2
    <3> QED BY <3>2, <3>3
  <2>3. CASE i > Len(s)
    <3>1. /\ i - Len(s) \in DOMAIN t /\ j - Len(s) \in DOMAIN t
          /\ i - Len(s) < j - Len(s) /\ j > Len(s)
      BY <1>1, <1>2, <2>3
    <3>2. t[i - Len(s)] < t[j - Len(s)] BY <3>1 DEF Increasing
    <3>3. u[i] = t[i - Len(s)] /\ u[j] = t[j - Len(s)] BY <1>1, <2>3, <3>1
    <3> QED BY <3>2, <3>3
  <2> QED BY <1>1, <1>2, <2>1, <2>2, <2>3
<1> QED BY <1>1, <1>2 DEF Increasing, u

(* What FrameInv says of the parts holds of the frames in flight as one sequence. *)
LEMMA FramesOrdered == ASSUME TypeOK, FrameInv PROVE FramesInOrder
<1> SUFFICES ASSUME sessions = 0 PROVE Increasing(FramesInFlight)
  BY DEF FramesInOrder, Increasing
<1>0. InThread => InHand BY DEF InThread, InHand
<1> DEFINE t == IF InThread THEN <<proc.vi.frameId>> ELSE <<>>
           m == [k \in DOMAIN vi_out_list |-> vi_out_list[k].frameId]
           c == IF InCallback THEN <<viCb.frameId>> ELSE <<>>
<1>1. FramesInFlight = (t \o m) \o c
  BY DEF FramesInFlight, InThread, InCallback
<1>2. t \in Seq(Int) /\ Increasing(t) /\ \A i \in DOMAIN t : InThread /\ t[i] = proc.vi.frameId
  <2>1. CASE InThread
    <3>1. t = <<proc.vi.frameId>> BY <2>1
    <3>2. InHand BY <2>1 DEF InThread, InHand
    <3> QED BY <2>1, <3>1, <3>2, FrameNumbers DEF Increasing
  <2>2. CASE ~InThread
    <3>1. t = <<>> BY <2>2
    <3> QED BY <3>1 DEF Increasing
  <2> QED BY <2>1, <2>2
<1>3. c \in Seq(Int) /\ Increasing(c) /\ \A i \in DOMAIN c : InCallback /\ c[i] = viCb.frameId
  <2>1. CASE InCallback
    <3>1. c = <<viCb.frameId>> BY <2>1
    <3> QED BY <2>1, <3>1, FrameNumbers DEF Increasing
  <2>2. CASE ~InCallback
    <3>1. c = <<>> BY <2>2
    <3> QED BY <3>1 DEF Increasing
  <2> QED BY <2>1, <2>2
<1>4. m \in Seq(Int) /\ Increasing(m)
  <2>1. DOMAIN vi_out_list = 1 .. Len(vi_out_list) /\ Len(vi_out_list) \in Nat
    BY LenProperties DEF TypeOK, ListType
  <2>2. m \in Seq(Int) BY <2>1, FrameNumbers
  <2>3. Increasing(m) BY DEF FrameInv, Increasing
  <2> QED BY <2>2, <2>3
<1>5. DOMAIN m = DOMAIN vi_out_list /\ \A k \in DOMAIN m : m[k] = vi_out_list[k].frameId
  OBVIOUS
<1> HIDE DEF t, m, c
<1>6. t \o m \in Seq(Int) /\ Increasing(t \o m)
  <2>1. \A i \in DOMAIN t : \A j \in DOMAIN m : t[i] < m[j]
    BY <1>0, <1>2, <1>5 DEF FrameInv
  <2> QED BY <1>2, <1>4, <2>1, IncreasingConcat
<1>7. \A i \in DOMAIN (t \o m) : InCallback => (t \o m)[i] < viCb.frameId
  <2>1. ASSUME NEW i \in DOMAIN (t \o m), InCallback PROVE (t \o m)[i] < viCb.frameId
    <3>1. /\ i \in 1 .. Len(t) + Len(m) /\ Len(t) \in Nat /\ Len(m) \in Nat
          /\ DOMAIN t = 1 .. Len(t) /\ DOMAIN m = 1 .. Len(m)
          /\ (t \o m)[i] = IF i <= Len(t) THEN t[i] ELSE m[i - Len(t)]
      BY <1>2, <1>4, ConcatProperties, LenProperties
    <3>2. CASE i <= Len(t)
      <4>1. i \in DOMAIN t /\ (t \o m)[i] = t[i] BY <3>1, <3>2
      <4> QED BY <1>0, <1>2, <2>1, <4>1 DEF FrameInv
    <3>3. CASE i > Len(t)
      <4>1. i - Len(t) \in DOMAIN m /\ (t \o m)[i] = m[i - Len(t)] BY <3>1, <3>3
      <4> QED BY <1>5, <2>1, <4>1 DEF FrameInv
    <3> QED BY <3>1, <3>2, <3>3
  <2> QED BY <2>1
<1> QED BY <1>1, <1>3, <1>6, <1>7, IncreasingConcat

-----------------------------------------------------------------------------
(* The frame infos that are used up. *)

(* Only the thread's erase takes an info out, and none of a later frame than its own. *)
LEMMA InfoTaken ==
    ASSUME TypeOK, Next, listsAlive',
           NEW info \in ToSet(isp_out_list) \ ToSet(isp_out_list')
    PROVE  ProcErase /\ info <= proc.vi.frameId
<1>1. isp_out_list \in Seq(Frames) BY DEF TypeOK, ListType
<1>2. isp_out_list' # isp_out_list OBVIOUS
<1>3. CASE Main
  <2>1. isp_out_list' = isp_out_list
    BY <1>3 DEF Main, TestBufferPrepare, CppStart, StreamOn,
       SetStreamOnFlag, DumpRawKey, ClearStreamOnFlag, ViStreamOff, IspFlush, IspStreamOff,
       CppStop, TestBufferReset, QuitKey, ProcThreadDeinit, ProcThreadJoin, ViIspDeinit,
       TestBufferDeInit, CppDeInit, listVars
  <2> QED BY <1>2, <2>1
<1>4. CASE Library
  <2>1. isp_out_list' = Append(isp_out_list, ispCb.frameId) /\ ispCb.pc = "push"
    BY <1>2, <1>4 DEF Library, ViDeliver, ViDropFrame, ViCbEnter, ViCbPush, ViCbAutoRun,
       RawDeliver, IspDeliver, IspDropFrame, IspCbEnter, IspCbPush, CppDeliver, CppCbEnter,
       CppCbReturn, listVars
  <2>2. ispCb.frameId \in Frames BY <2>1 DEF TypeOK, CallbackType
  <2>3. \A i \in DOMAIN isp_out_list :
          i \in DOMAIN isp_out_list' /\ isp_out_list'[i] = isp_out_list[i]
    BY <1>1, <2>1, <2>2, AppendProperties, LenProperties
  <2>4. ToSet(isp_out_list) \subseteq ToSet(isp_out_list') BY <2>3 DEF ToSet
  <2> QED BY <2>4
<1>5. CASE Proc
  <2>1. ProcErase /\ proc.isp <= proc.vi.frameId /\ EraseInfo(proc.isp)
    BY <1>2, <1>5 DEF Proc, ProcStart, ProcWake, ProcCheck, ProcPopVi, ProcMatch, ProcPopOut,
       ProcPost, ProcErase, ProcLoop, listVars
  <2>2. PICK k \in DOMAIN isp_out_list :
          isp_out_list[k] = proc.isp /\ isp_out_list' = RemoveAt(isp_out_list, k)
    BY <2>1 DEF EraseInfo
  <2>3. PICK i \in DOMAIN isp_out_list : isp_out_list[i] = info BY DEF ToSet
  <2>4. \A j \in DOMAIN isp_out_list' : isp_out_list'[j] # info BY DEF ToSet
  <2>5. i = k BY <1>1, <2>2, <2>3, <2>4, RemoveAtKeeps
  <2> QED BY <2>1, <2>2, <2>3, <2>5
<1> QED BY <1>3, <1>4, <1>5 DEF Next

(* The frames still on their way are later than the one in the thread. *)
LEMMA InfoOutlives ==
    ASSUME TypeOK, FrameInv, Next, sessions = 0, listsAlive',
           NEW info \in ToSet(isp_out_list) \ ToSet(isp_out_list')
    PROVE  /\ info <= frame'
           /\ \A k \in DOMAIN FramesInFlight' : info < FramesInFlight'[k]
<1>1. ProcErase /\ info <= proc.vi.frameId BY InfoTaken
<1>2. /\ proc.pc = "erase" /\ proc'.pc = "loop" /\ InHand
      /\ UNCHANGED <<frame, vi_out_list, viCb>>
  BY <1>1 DEF ProcErase, TypeOK, ThreadType, InHand, unitVars, cbVars
<1>3. proc.vi.frameId \in Int /\ info \in Int /\ frame \in Int
  <2>1. info \in Frames
    <3>1. PICK i \in DOMAIN isp_out_list : isp_out_list[i] = info BY DEF ToSet
    <3> QED BY <3>1 DEF TypeOK, ListType
  <2> QED BY <1>2, <2>1, FrameNumbers DEF Frames, TypeOK, ControlType
<1>4. info <= frame' BY <1>1, <1>2, <1>3 DEF FrameInv
<1>5. \A i \in DOMAIN vi_out_list : info < vi_out_list[i].frameId
  BY <1>1, <1>2, <1>3, FrameNumbers DEF FrameInv
<1>6. InCallback => info < viCb.frameId
  BY <1>1, <1>2, <1>3, FrameNumbers DEF FrameInv
<1> DEFINE m == [i \in DOMAIN vi_out_list |-> vi_out_list[i].frameId]
           c == IF InCallback THEN <<viCb.frameId>> ELSE <<>>
<1>7. FramesInFlight' = (<<>> \o m) \o c
  BY <1>2 DEF FramesInFlight, InCallback
<1>8. m \in Seq(Int) /\ DOMAIN m = DOMAIN vi_out_list /\ \A i \in DOMAIN m : info < m[i]
  <2>1. DOMAIN vi_out_list = 1 .. Len(vi_out_list) /\ Len(vi_out_list) \in Nat
    BY LenProperties DEF TypeOK, ListType
  <2> QED BY <1>5, <2>1, FrameNumbers
<1>9. c \in Seq(Int) /\ \A i \in DOMAIN c : info < c[i]
  <2>1. CASE InCallback
    <3>1. c = <<viCb.frameId>> BY <2>1
    <3> QED BY <1>6, <2>1, <3>1, FrameNumbers
  <2>2. CASE ~InCallback
    <3>1. c = <<>> BY <2>2
    <3> QED BY <3>1
  <2> QED BY <2>1, <2>2
<1> HIDE DEF m, c
<1>10. <<>> \o m = m BY <1>8, ConcatEmptySeq
<1>11. \A k \in DOMAIN (m \o c) : info < (m \o c)[k]
  <2>1. ASSUME NEW k \in DOMAIN (m \o c) PROVE info < (m \o c)[k]
    <3>1. /\ k \in 1 .. Len(m) + Len(c) /\ Len(m) \in Nat /\ Len(c) \in Nat
          /\ DOMAIN m = 1 .. Len(m) /\ DOMAIN c = 1 .. Len(c)
          /\ (m \o c)[k] = IF k <= Len(m) THEN m[k] ELSE c[k - Len(m)]
      BY <1>8, <1>9, ConcatProperties, LenProperties
    <3>2. CASE k <= Len(m)
      <4>1. k \in DOMAIN m /\ (m \o c)[k] = m[k] BY <3>1, <3>2
      <4> QED BY <1>8, <4>1
    <3>3. CASE k > Len(m)
      <4>1. k - Len(m) \in DOMAIN c /\ (m \o c)[k] = c[k - Len(m)] BY <3>1, <3>3
      <4> QED BY <1>9, <4>1
    <3> QED BY <3>1, <3>2, <3>3
  <2> QED BY <2>1
<1> QED BY <1>4, <1>7, <1>10, <1>11

-----------------------------------------------------------------------------
FirstSessionInv == FlagInv /\ StartInv /\ PoolInv /\ OutInv /\ HolderInv /\ FrameInv

LEMMA FirstSession == Spec => [](TypeOK /\ ShutdownInv /\ TakeInv /\ FirstSessionInv)
<1>1. Init => FirstSessionInv
  <2> SUFFICES ASSUME Init PROVE FirstSessionInv OBVIOUS
  <2>1. FlagInv /\ StartInv /\ PoolInv /\ OutInv
    BY DEF Init, FlagInv, StartInv, PoolInv, OutInv, NoVi, NoIsp, NoCpp
  <2>2. HolderInv
    BY PipelineAssumption DEF Init, HolderInv, OutHolders, HoldsOut, NoCpp
  <2>3. FrameInv BY DEF Init, FrameInv, InHand, InCallback, NoVi
  <2> QED BY <2>1, <2>2, <2>3 DEF FirstSessionInv
<1>2. TypeOK /\ ShutdownInv /\ TakeInv /\ FirstSessionInv /\ [Next]_vars => FirstSessionInv'
  BY FlagStep, StartStep, PoolStep, OutStep, HolderStep, FrameStep DEF FirstSessionInv, TypeOK
<1> QED BY <1>1, <1>2, Quiet, PTL DEF Spec

(* In the first session no output buffer is in two places, and while it streams none is
   missing: the pipeline does not run dry. *)
THEOREM OutBuffersAccounted == Spec => []OutBufferAccounted
<1>1. PoolInv /\ HolderInv => OutBufferAccounted
  BY DEF PoolInv, HolderInv, OutBufferAccounted, Live
<1> QED BY <1>1, FirstSession, PTL DEF FirstSessionInv

(* The frames of the first session pass the list and the thread in VI's order. *)
THEOREM FramesStayInOrder == Spec => []FramesInOrder
<1> QED BY FirstSession, FramesOrdered, PTL DEF FirstSessionInv

(* In every session, a VI buffer is forgotten only while the flag is down. *)
THEOREM NoLossWhileStreaming == Spec => LossOnlyWhenStopped
<1>1. TypeOK /\ ShutdownInv /\ TakeInv /\ FirstSessionInv /\ [Next]_vars
        => [~(viLost' \subseteq viLost) => streamOnFlag = 0]_vars
  BY LossStep DEF FirstSessionInv
<1> QED BY <1>1, FirstSession, PTL DEF Spec, LossOnlyWhenStopped

(* In the first session a frame info is used up only when its frame, and every one before
   it, has passed the list: no frame finds its own info used up by another. *)
THEOREM InfosOutliveTheirFrames == Spec => InfoOutlivesItsFrames
<1> DEFINE A == sessions = 0 /\ listsAlive' =>
         \A info \in ToSet(isp_out_list) \ ToSet(isp_out_list') :
           /\ info <= frame'
           /\ \A k \in DOMAIN FramesInFlight' : info < FramesInFlight'[k]
<1>1. TypeOK /\ ShutdownInv /\ TakeInv /\ FirstSessionInv /\ [Next]_vars => [A]_vars
  BY InfoOutlives DEF FirstSessionInv
<1> QED BY <1>1, FirstSession, PTL DEF Spec, InfoOutlivesItsFrames
=============================================================================
