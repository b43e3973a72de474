-------------------------- MODULE V4l2Bridge_proofs --------------------------
(* Theorems about V4l2Bridge, for every number of buffers and any client. *)
EXTENDS V4l2Bridge, Integers, SequencesExt, SequenceTheorems, FiniteSetTheorems,
        TLAPS

-----------------------------------------------------------------------------
(* Sequences. *)

(* The elements after it move up by one. *)
LEMMA RemoveAtIndex ==
    ASSUME NEW S, NEW s \in Seq(S), NEW k \in DOMAIN s
    PROVE  /\ RemoveAt(s, k) \in Seq(S)
           /\ Len(s) \in Nat /\ Len(RemoveAt(s, k)) = Len(s) - 1
           /\ DOMAIN RemoveAt(s, k) = 1 .. Len(s) - 1
           /\ \A i \in 1 .. k - 1 : RemoveAt(s, k)[i] = s[i]
           /\ \A i \in k .. Len(s) - 1 : RemoveAt(s, k)[i] = s[i + 1]
<1> DEFINE a == SubSeq(s, 1, k - 1)
           b == SubSeq(s, k + 1, Len(s))
           r == RemoveAt(s, k)
<1>1. DOMAIN s = 1 .. Len(s) /\ Len(s) \in Nat /\ k \in 1 .. Len(s)
  BY LenProperties
<1>2. /\ a \in Seq(S) /\ Len(a) = k - 1
      /\ \A n \in 1 .. k - 1 : a[n] = s[n]
  BY <1>1, SubSeqProperties
<1>3. /\ b \in Seq(S) /\ Len(b) = Len(s) - k
      /\ \A n \in 1 .. Len(s) - k : b[n] = s[k + n]
  <2>1. \A n \in k + 1 .. Len(s) : s[n] \in S BY <1>1
  <2>2. /\ b \in Seq(S) /\ Len(b) = IF k + 1 <= Len(s) THEN Len(s) - (k + 1) + 1 ELSE 0
        /\ \A n \in 1 .. Len(s) - (k + 1) + 1 : b[n] = s[(k + 1) + n - 1]
    BY <1>1, <2>1, SubSeqProperties
  <2> HIDE DEF b
  <2>3. ASSUME NEW n \in 1 .. Len(s) - k PROVE b[n] = s[k + n]
    <3>1. n \in 1 .. Len(s) - (k + 1) + 1 /\ (k + 1) + n - 1 = k + n BY <1>1
    <3> QED BY <2>2, <3>1
  <2>4. Len(b) = Len(s) - k BY <1>1, <2>2
  <2> QED BY <2>2, <2>3, <2>4
<1>4. r = a \o b BY DEF RemoveAt
<1> HIDE DEF a, b, r
<1>5. /\ r \in Seq(S) /\ Len(r) = Len(a) + Len(b)
      /\ \A n \in 1 .. Len(a) + Len(b) : r[n] = IF n <= Len(a) THEN a[n] ELSE b[n - Len(a)]
  BY <1>2, <1>3, <1>4, ConcatProperties
<1>6. DOMAIN r = 1 .. Len(s) - 1 /\ Len(r) = Len(s) - 1
  BY <1>1, <1>2, <1>3, <1>5, LenProperties
<1>7. ASSUME NEW i \in 1 .. k - 1 PROVE r[i] = s[i]
  <2>1. i \in 1 .. Len(a) + Len(b) /\ i <= Len(a) BY <1>1, <1>2, <1>3
  <2> QED BY <1>2, <1>5, <2>1
<1>8. ASSUME NEW i \in k .. Len(s) - 1 PROVE r[i] = s[i + 1]
  <2>1. i \in 1 .. Len(a) + Len(b) /\ ~(i <= Len(a)) /\ i - Len(a) = i + 1 - k
    BY <1>1, <1>2, <1>3
  <2>2. i + 1 - k \in 1 .. Len(s) - k /\ k + (i + 1 - k) = i + 1 BY <1>1
  <2>3. r[i] = b[i + 1 - k] BY <1>5, <2>1
  <2> QED BY <1>3, <2>2, <2>3
<1> QED BY <1>1, <1>5, <1>6, <1>7, <1>8 DEF r

(* Every other element is still in it, and nothing new. *)
LEMMA RemoveAtKeeps ==
    ASSUME NEW S, NEW s \in Seq(S), NEW k \in DOMAIN s
    PROVE  /\ \A i \in DOMAIN s \ {k} :
                  \E j \in DOMAIN RemoveAt(s, k) : RemoveAt(s, k)[j] = s[i]
           /\ \A j \in DOMAIN RemoveAt(s, k) :
                  \E i \in DOMAIN s \ {k} : RemoveAt(s, k)[j] = s[i]
<1> DEFINE r == RemoveAt(s, k)
<1>1. DOMAIN s = 1 .. Len(s) /\ Len(s) \in Nat /\ k \in 1 .. Len(s) BY LenProperties
<1>2. /\ DOMAIN r = 1 .. Len(s) - 1
      /\ \A i \in 1 .. k - 1 : r[i] = s[i]
      /\ \A i \in k .. Len(s) - 1 : r[i] = s[i + 1]
  BY RemoveAtIndex
<1> HIDE DEF r
<1>3. ASSUME NEW i \in DOMAIN s \ {k} PROVE \E j \in DOMAIN r : r[j] = s[i]
  <2>1. CASE i < k
    <3>1. i \in 1 .. k - 1 /\ i \in 1 .. Len(s) - 1 BY <1>1, <2>1
    <3> QED BY <1>2, <3>1
  <2>2. CASE ~(i < k)
    <3>1. i - 1 \in k .. Len(s) - 1 /\ i - 1 \in 1 .. Len(s) - 1 /\ i - 1 + 1 = i
      BY <1>1, <2>2
    <3> QED BY <1>2, <3>1
  <2> QED BY <2>1, <2>2
<1>4. ASSUME NEW j \in DOMAIN r PROVE \E i \in DOMAIN s \ {k} : r[j] = s[i]
  <2>1. CASE j < k
    <3>1. j \in 1 .. k - 1 /\ j \in 1 .. Len(s) /\ j # k BY <1>1, <1>2, <2>1
    <3> QED BY <1>1, <1>2, <3>1
  <2>2. CASE ~(j < k)
    <3>1. j \in k .. Len(s) - 1 /\ j + 1 \in 1 .. Len(s) /\ j + 1 # k BY <1>1, <1>2, <2>2
    <3> QED BY <1>1, <1>2, <3>1
  <2> QED BY <2>1, <2>2
<1> QED BY <1>3, <1>4 DEF r

(* So the set of its elements loses nothing but that one. *)
LEMMA RemoveAtRange ==
    ASSUME NEW S, NEW s \in Seq(S), NEW k \in DOMAIN s
    PROVE  Range(RemoveAt(s, k)) \cup {s[k]} = Range(s)
<1> DEFINE r == RemoveAt(s, k)
<1>1. /\ \A i \in DOMAIN s \ {k} : \E j \in DOMAIN r : r[j] = s[i]
      /\ \A j \in DOMAIN r : \E i \in DOMAIN s \ {k} : r[j] = s[i]
  BY RemoveAtKeeps
<1> HIDE DEF r
<1>2. Range(r) \cup {s[k]} = Range(s) BY <1>1 DEF Range
<1> QED BY <1>2 DEF r

(* The head of a sequence, and the rest of it. *)
LEMMA TailRange ==
    ASSUME NEW S, NEW s \in Seq(S), s # <<>>
    PROVE  /\ Head(s) \in S /\ Tail(s) \in Seq(S)
           /\ Len(s) \in Nat /\ Len(Tail(s)) = Len(s) - 1
           /\ Range(s) = {Head(s)} \cup Range(Tail(s))
           /\ IsInjective(s) => IsInjective(Tail(s)) /\ Head(s) \notin Range(Tail(s))
<1> DEFINE t == Tail(s)
<1>1. /\ Head(s) \in S /\ t \in Seq(S) /\ Len(t) = Len(s) - 1
      /\ \A i \in 1 .. Len(t) : t[i] = s[i + 1]
  BY HeadTailProperties
<1>2. DOMAIN s = 1 .. Len(s) /\ Len(s) \in Nat /\ Len(s) # 0 /\ DOMAIN t = 1 .. Len(t)
  BY <1>1, LenProperties, EmptySeq
<1>3. Head(s) = s[1] OBVIOUS
<1> HIDE DEF t
<1>4. \A i \in DOMAIN t : i + 1 \in DOMAIN s /\ t[i] = s[i + 1] /\ i + 1 # 1 BY <1>1, <1>2
<1>5. \A i \in DOMAIN s \ {1} : i - 1 \in DOMAIN t /\ t[i - 1] = s[i]
  <2> TAKE i \in DOMAIN s \ {1}
  <2>1. i - 1 \in DOMAIN t /\ i - 1 + 1 = i BY <1>1, <1>2
  <2> QED BY <1>4, <2>1
<1>6. 1 \in DOMAIN s BY <1>2
<1>7. Range(s) = {Head(s)} \cup Range(t) BY <1>3, <1>4, <1>5, <1>6 DEF Range
<1>8. ASSUME IsInjective(s) PROVE IsInjective(t) /\ Head(s) \notin Range(t)
  <2>1. \A i, j \in DOMAIN t : i + 1 = j + 1 => i = j BY <1>2, <1>1
  <2>2. IsInjective(t) BY <1>4, <1>8, <2>1 DEF IsInjective
  <2>3. Head(s) \notin Range(t) BY <1>3, <1>4, <1>6, <1>8 DEF IsInjective, Range
  <2> QED BY <2>2, <2>3
<1> QED BY <1>1, <1>2, <1>7, <1>8 DEF t

(* An element that goes to the end. *)
LEMMA AppendRange ==
    ASSUME NEW S, NEW s \in Seq(S), NEW x \in S
    PROVE  /\ Append(s, x) \in Seq(S)
           /\ Len(s) \in Nat /\ Len(Append(s, x)) = Len(s) + 1
           /\ Range(Append(s, x)) = Range(s) \cup {x}
           /\ IsInjective(s) /\ x \notin Range(s) => IsInjective(Append(s, x))
<1> DEFINE t == Append(s, x)
<1>1. /\ t \in Seq(S) /\ Len(t) = Len(s) + 1
      /\ \A i \in 1 .. Len(s) : t[i] = s[i]
      /\ t[Len(s) + 1] = x
  BY AppendProperties
<1>2. DOMAIN s = 1 .. Len(s) /\ Len(s) \in Nat /\ DOMAIN t = 1 .. Len(s) + 1
  BY <1>1, LenProperties
<1> HIDE DEF t
<1>3. DOMAIN t = DOMAIN s \cup {Len(s) + 1} /\ Len(s) + 1 \notin DOMAIN s BY <1>2
<1>4. Range(t) = Range(s) \cup {x} BY <1>1, <1>2, <1>3 DEF Range
<1>5. ASSUME IsInjective(s), x \notin Range(s) PROVE IsInjective(t)
  BY <1>1, <1>2, <1>3, <1>5 DEF IsInjective, Range
<1> QED BY <1>1, <1>2, <1>4, <1>5 DEF t

(* A value that is in a sequence at most once. *)
AtMostOnce(s, x) == \A i, j \in DOMAIN s : s[i] = x /\ s[j] = x => i = j

LEMMA TailOnce ==
    ASSUME NEW S, NEW s \in Seq(S), s # <<>>, NEW x, AtMostOnce(s, x)
    PROVE  AtMostOnce(Tail(s), x) /\ (Head(s) = x => x \notin Range(Tail(s)))
<1> DEFINE t == Tail(s)
<1>1. /\ t \in Seq(S) /\ Len(t) = Len(s) - 1
      /\ \A i \in 1 .. Len(t) : t[i] = s[i + 1]
  BY HeadTailProperties
<1>2. DOMAIN s = 1 .. Len(s) /\ Len(s) \in Nat /\ Len(s) # 0 /\ DOMAIN t = 1 .. Len(t)
  BY <1>1, LenProperties, EmptySeq
<1>3. Head(s) = s[1] OBVIOUS
<1> HIDE DEF t
<1>4. \A i \in DOMAIN t : i + 1 \in DOMAIN s /\ t[i] = s[i + 1] /\ i + 1 # 1 BY <1>1, <1>2
<1>5. \A i, j \in DOMAIN t : i + 1 = j + 1 => i = j BY <1>1, <1>2
<1>6. AtMostOnce(t, x) BY <1>4, <1>5 DEF AtMostOnce
<1>7. 1 \in DOMAIN s BY <1>2
<1>8. Head(s) = x => x \notin Range(t) BY <1>3, <1>4, <1>7 DEF AtMostOnce, Range
<1> QED BY <1>6, <1>8 DEF t

LEMMA AppendOnce ==
    ASSUME NEW S, NEW s \in Seq(S), NEW y \in S, NEW x, AtMostOnce(s, x),
           y # x \/ x \notin Range(s)
    PROVE  AtMostOnce(Append(s, y), x)
<1> DEFINE t == Append(s, y)
<1>1. /\ t \in Seq(S) /\ Len(t) = Len(s) + 1
      /\ \A i \in 1 .. Len(s) : t[i] = s[i]
      /\ t[Len(s) + 1] = y
  BY AppendProperties
<1>2. DOMAIN s = 1 .. Len(s) /\ Len(s) \in Nat /\ DOMAIN t = 1 .. Len(s) + 1
  BY <1>1, LenProperties
<1> HIDE DEF t
<1>3. DOMAIN t = DOMAIN s \cup {Len(s) + 1} /\ Len(s) + 1 \notin DOMAIN s BY <1>2
<1>4. AtMostOnce(t, x) BY <1>1, <1>2, <1>3 DEF AtMostOnce, Range
<1> QED BY <1>4 DEF t

-----------------------------------------------------------------------------
(* The rounds of a counting loop are not over inside it; before ProcThreadInit there is
   no thread, and the lists are destroyed after a join, or inside a counting loop. *)
Counting == left \in Nat /\ (main \in {"query_buf", "qbuf"} => left # 0)
NotYet == main \in {"set_fmt", "req_bufs", "query_buf", "proc_init"} => proc = "off"
FreedLast == lists = "freed" => main \in {"units", "bye", "closed"}
JoinedFirst == main = "free" /\ left = 0 => proc = "gone"

PhaseInv == /\ req_count \in Nat /\ Counting /\ NotYet /\ FreedLast /\ JoinedFirst
            /\ ListsOutliveThread

(* Only the main thread's steps move it on; the others leave its phase alone. *)
LEMMA SetUpStep ==
    ASSUME PhaseInv,
           SetFmt \/ SetFmtFails \/ ReqBufs \/ ReqBufsFails \/ QueryBuf \/ QueryBufFails
             \/ ProcThreadInit \/ QbufFirst \/ QbufFirstFails \/ TestBufferPrepare
             \/ StreamOn \/ StreamOnFails \/ RaiseFlag,
           msg \in Messages \cup {None}
    PROVE  PhaseInv'
<1> USE DEF PhaseInv, Counting, NotYet, FreedLast, JoinedFirst, ListsOutliveThread,
            counts, stream, thread, Receive, ReceiveFails
<1>1. CASE SetFmt BY <1>1 DEF SetFmt
<1>2. CASE SetFmtFails BY <1>2 DEF SetFmtFails
<1>3. CASE ReqBufs
  <2>1. msg.n \in Nat BY <1>3, BridgeAssumption DEF ReqBufs, Messages, None, Numbered, Plain
  <2> QED BY <1>3, <2>1 DEF ReqBufs
<1>4. CASE ReqBufsFails BY <1>4 DEF ReqBufsFails
<1>5. CASE QueryBuf BY <1>5 DEF QueryBuf
<1>6. CASE QueryBufFails BY <1>6 DEF QueryBufFails
<1>7. CASE ProcThreadInit BY <1>7 DEF ProcThreadInit
<1>8. CASE QbufFirst BY <1>8 DEF QbufFirst
<1>9. CASE QbufFirstFails BY <1>9 DEF QbufFirstFails
<1>10. CASE TestBufferPrepare BY <1>10 DEF TestBufferPrepare
<1>11. CASE StreamOn BY <1>11 DEF StreamOn
<1>12. CASE StreamOnFails BY <1>12 DEF StreamOnFails
<1>13. CASE RaiseFlag BY <1>13 DEF RaiseFlag
<1> QED BY <1>1, <1>2, <1>3, <1>4, <1>5, <1>6, <1>7, <1>8, <1>9, <1>10, <1>11, <1>12, <1>13

LEMMA LoopStep ==
    ASSUME PhaseInv,
           PollNow \/ PollWaits \/ PopReady \/ PopSleep \/ PopWoken \/ Dqbuf \/ Qbuf
             \/ LeaveLoop \/ LoopTimeout
    PROVE  PhaseInv'
<1> USE DEF PhaseInv, Counting, NotYet, FreedLast, JoinedFirst, ListsOutliveThread,
            counts, stream, thread
<1>1. CASE PollNow BY <1>1 DEF PollNow, Serve
<1>2. CASE PollWaits BY <1>2 DEF PollWaits, Serve
<1>3. CASE PopReady BY <1>3 DEF PopReady, PopDone
<1>4. CASE PopSleep BY <1>4 DEF PopSleep
<1>5. CASE PopWoken BY <1>5 DEF PopWoken, PopDone
<1>6. CASE Dqbuf BY <1>6 DEF Dqbuf, Serve
<1>7. CASE Qbuf BY <1>7 DEF Qbuf, Serve
<1>8. CASE LeaveLoop BY <1>8 DEF LeaveLoop, Serve
<1>9. CASE LoopTimeout BY <1>9 DEF LoopTimeout
<1> QED BY <1>1, <1>2, <1>3, <1>4, <1>5, <1>6, <1>7, <1>8, <1>9

LEMMA DownStep ==
    ASSUME PhaseInv,
           ClearFlag \/ ViStreamOff \/ IspStreamOff \/ CppStop \/ TellOff \/ AwaitClose
             \/ ProcThreadDeinit \/ ProcThreadJoin \/ TestBufferDeInit \/ UnitsDeInit \/ Bye
    PROVE  PhaseInv'
<1> USE DEF PhaseInv, Counting, NotYet, FreedLast, JoinedFirst, ListsOutliveThread,
            counts, stream, thread
<1>1. CASE ClearFlag BY <1>1 DEF ClearFlag
<1>2. CASE ViStreamOff BY <1>2 DEF ViStreamOff
<1>3. CASE IspStreamOff BY <1>3 DEF IspStreamOff
<1>4. CASE CppStop BY <1>4 DEF CppStop
<1>5. CASE TellOff BY <1>5 DEF TellOff
<1>6. CASE AwaitClose BY <1>6 DEF AwaitClose
<1>7. CASE ProcThreadDeinit BY <1>7 DEF ProcThreadDeinit
<1>8. CASE ProcThreadJoin BY <1>8 DEF ProcThreadJoin
<1>9. CASE TestBufferDeInit BY <1>9 DEF TestBufferDeInit
<1>10. CASE UnitsDeInit BY <1>10 DEF UnitsDeInit
<1>11. CASE Bye BY <1>11 DEF Bye
<1> QED BY <1>1, <1>2, <1>3, <1>4, <1>5, <1>6, <1>7, <1>8, <1>9, <1>10, <1>11

(* A thread that is gone does not come back, and one that is not there takes nothing. *)
LEMMA ProcStep ==
    ASSUME PhaseInv, Proc
    PROVE  PhaseInv'
<1>1. UNCHANGED <<main, req_count, left, lists>> /\ proc \in {"wait", "post"}
  BY DEF Proc, ProcTake, ProcPost, ProcLeave, counts
<1> QED BY <1>1 DEF PhaseInv, Counting, NotYet, FreedLast, JoinedFirst, ListsOutliveThread

LEMMA CallbackStep ==
    ASSUME PhaseInv,
           KernelAsks \/ ViCallback \/ IspCallback \/ CppInputDone \/ CppOutputDone \/ CppSignal
    PROVE  PhaseInv'
<1>1. /\ UNCHANGED <<req_count, left, lists, proc>>
      /\ main' = main \/ (main = "asleep" /\ main' = "woken")
  BY DEF KernelAsks, ViCallback, IspCallback, CppInputDone, CppOutputDone, CppSignal,
         counts, thread, stream
<1> QED BY <1>1 DEF PhaseInv, Counting, NotYet, FreedLast, JoinedFirst, ListsOutliveThread

(* What is in the socket is a message. *)
MsgOK == msg \in Messages \cup {None}

LEMMA PhaseStep == PhaseInv /\ MsgOK /\ [Next]_vars => PhaseInv' /\ MsgOK'
<1> SUFFICES ASSUME PhaseInv, MsgOK, [Next]_vars PROVE PhaseInv' /\ MsgOK' OBVIOUS
<1>1. PhaseInv'
  <2>1. CASE UNCHANGED vars
    BY <2>1 DEF vars, counts, stream, thread, PhaseInv, Counting, NotYet, FreedLast,
                JoinedFirst, ListsOutliveThread
  <2>2. CASE Main BY <2>2, SetUpStep, LoopStep, DownStep DEF Main, MsgOK
  <2>3. CASE Next /\ ~Main BY <2>3, ProcStep, CallbackStep DEF Next
  <2> QED BY <2>1, <2>2, <2>3
<1>2. msg' = msg \/ msg' = None \/ msg' \in Messages
  <2>1. CASE UNCHANGED vars BY <2>1 DEF vars, sock
  <2>2. CASE Main
    BY <2>2 DEF Main, SetFmt, SetFmtFails, ReqBufs, ReqBufsFails, QueryBuf, QueryBufFails,
         ProcThreadInit, QbufFirst, QbufFirstFails, TestBufferPrepare, StreamOn,
         StreamOnFails, RaiseFlag, PollNow, PollWaits, PopReady, PopSleep, PopWoken,
         Dqbuf, Qbuf, LeaveLoop, LoopTimeout, ClearFlag, ViStreamOff, IspStreamOff,
         CppStop, TellOff, AwaitClose, ProcThreadDeinit, ProcThreadJoin,
         TestBufferDeInit, UnitsDeInit, Bye, Receive, ReceiveFails, Serve, sock
  <2>3. CASE Next /\ ~Main
    BY <2>3 DEF Next, KernelAsks, Proc, ProcTake, ProcPost, ProcLeave, ViCallback,
         IspCallback, CppInputDone, CppOutputDone, CppSignal, sock
  <2> QED BY <2>1, <2>2, <2>3
<1> QED BY <1>1, <1>2 DEF MsgOK

(* However the set-up or the stream ends, the lists outlive the thread that uses them,
   unless the end comes inside a counting loop. *)
THEOREM ThreadIsJoined == Spec => []ListsOutliveThread
<1>1. Init => PhaseInv /\ MsgOK
  BY DEF Init, PhaseInv, Counting, NotYet, FreedLast, JoinedFirst, ListsOutliveThread, MsgOK
<1> QED BY <1>1, PhaseStep, PTL DEF Spec, PhaseInv

-----------------------------------------------------------------------------
(* Types, and where the output buffers are. *)

(* Before the stream is on, and when a counting loop has failed, nothing is under way. *)
Before == {"set_fmt", "req_bufs", "query_buf", "proc_init", "qbuf", "prepare",
           "stream_on", "raise"}
Idle == /\ streamOnFlag = 0 /\ frames = 0 /\ infos = 0
        /\ proc # "post" /\ cppInputs = 0 /\ cppJobs = <<>>
        /\ cpp_done_list = <<>> /\ v4l2_dqbuf_list = <<>> /\ v4l2_qbuf_list = <<>>
IdleInv == main \in Before \/ left # 0 => Idle
AllocatedInv == main = "query_buf" => allocated + left <= req_count
RoundsInv == left # 0 => main \in {"query_buf", "qbuf", "free", "units", "bye", "closed"}

(* The flag and the CPP are on while requests are served. *)
StreamInv == /\ main \in {"raise"} \cup Streaming => cppOn
             /\ main \in Streaming => streamOnFlag = 1

(* An image is in VI, in the list, with the thread or in the CPP, or it is lost. *)
LostInv == /\ main \in Before => infoQueue + lostInfo <= NumInfo
           /\ main \in Before \ {"raise"} => lostVi = 0 /\ lostInfo = 0
ImagesInv ==
    frames + viQueue + cppInputs + (IF proc = "post" THEN 1 ELSE 0) + lostVi <= NumVi
PostInv == proc = "post" => infos > 0

(* The output buffers, by where they are and by how many there are. *)
Places == Range(cpp_origin_list) \cup Range(cppJobs) \cup Range(cpp_done_list)
            \cup Range(v4l2_dqbuf_list) \cup Range(v4l2_qbuf_list)
            \cup (IF proc = "post" THEN {hand} ELSE {})
Number == Len(cpp_origin_list) + Len(cppJobs) + Len(cpp_done_list)
            + Len(v4l2_dqbuf_list) + Len(v4l2_qbuf_list) + (IF proc = "post" THEN 1 ELSE 0)
Null == IF 0 \in Places THEN 1 ELSE 0
HeldInv == main \in {"stream_on", "raise"} \cup Streaming =>
             Places \ {0} = 1 .. allocated /\ Number = allocated + Null

(* Until the buffers have been counted, the list of them is empty. *)
Early == {"set_fmt", "req_bufs", "query_buf"}

(* The NULL of test_buffer_prepare is there only if an allocation failed, and once. *)
NullInv ==
    /\ 0 \in Range(cpp_origin_list) => allocated < req_count
    /\ proc = "post" /\ hand = 0 => allocated < req_count /\ 0 \notin Range(cpp_origin_list)
    /\ AtMostOnce(cpp_origin_list, 0)
    /\ main \in Early => cpp_origin_list = <<>>
MaybeBufs == Bufs \cup {0}

(* What the types of the variables but the lists come to. *)
ControlOK ==
    /\ main \in Streaming \cup Before \cup
         {"stop", "vi_off", "isp_off", "cpp_stop", "tell", "close", "reset", "join",
          "free", "units", "bye", "closed", "aborted"}
    /\ asked \in BOOLEAN /\ heard \in BOOLEAN
    /\ req_count \in 0 .. MaxCount /\ left \in 0 .. req_count /\ allocated \in 0 .. req_count
    /\ streamOnFlag \in {0, 1} /\ lists \in {"none", "live", "freed"}
    /\ proc \in {"off", "wait", "post", "gone"} /\ threadRunning \in {0, 1}
    /\ signal \in BOOLEAN /\ viOn \in BOOLEAN /\ ispOn \in BOOLEAN /\ cppOn \in BOOLEAN
CountsOK ==
    /\ frames \in 0 .. NumVi /\ infos \in 0 .. MaxInfos
    /\ viQueue \in 0 .. NumVi /\ infoQueue \in 0 .. NumInfo
    /\ cppInputs \in 0 .. NumVi
    /\ lostVi \in 0 .. NumVi /\ lostInfo \in 0 .. NumInfo
ListsOK ==
    /\ hand \in 0 .. MaxCount /\ (hand # 0 => proc = "post")
    /\ cpp_origin_list \in Seq(MaybeBufs) /\ cpp_done_list \in Seq(Bufs)
    /\ v4l2_dqbuf_list \in Seq(Bufs) /\ v4l2_qbuf_list \in Seq(Bufs)
    /\ cppJobs \in Seq(Bufs)

FlowInv == IdleInv /\ AllocatedInv /\ RoundsInv /\ StreamInv /\ LostInv /\ ImagesInv /\ PostInv

(* Control and numbers, through the set-up ... *)
LEMMA SetUpFlow ==
    ASSUME ControlOK, CountsOK, PhaseInv, FlowInv, MsgOK,
           SetFmt \/ SetFmtFails \/ ReqBufs \/ ReqBufsFails \/ QueryBuf \/ QueryBufFails
             \/ ProcThreadInit \/ QbufFirst \/ QbufFirstFails \/ TestBufferPrepare
             \/ StreamOn \/ StreamOnFails \/ RaiseFlag
    PROVE  ControlOK' /\ CountsOK' /\ FlowInv'
<1> USE BridgeAssumption DEF ControlOK, CountsOK, FlowInv, Before, Idle, IdleInv, AllocatedInv,
      RoundsInv, StreamInv, LostInv, ImagesInv, PostInv, Streaming
<1> USE DEF PhaseInv, Counting, NotYet, sock, counts, thread, heads, outs, units, held, lost,
      stream, Receive, ReceiveFails, Answer
<1>1. CASE SetFmt
  <2>1. ControlOK' BY <1>1 DEF SetFmt
  <2>2. CountsOK' BY <1>1 DEF SetFmt
  <2>3. FlowInv' BY <1>1 DEF SetFmt
  <2> QED BY <2>1, <2>2, <2>3
<1>2. CASE SetFmtFails BY <1>2 DEF SetFmtFails
<1>3. CASE ReqBufs
  <2>1. msg.n \in 0 .. MaxCount BY <1>3 DEF MsgOK, ReqBufs, Messages, None, Numbered, Plain
  <2>2. /\ req_count' \in 0 .. MaxCount /\ left' \in 0 .. req_count'
        /\ allocated' \in 0 .. req_count'
    BY <1>3, <2>1 DEF ReqBufs
  <2>5. ControlOK' BY <1>3, <2>2 DEF ReqBufs
  <2>3. CountsOK' BY <1>3 DEF ReqBufs
  <2>6. AllocatedInv' BY <1>3, <2>1 DEF ReqBufs
  <2>7. IdleInv' /\ RoundsInv' /\ StreamInv' BY <1>3, <2>1 DEF ReqBufs
  <2>8. LostInv' /\ ImagesInv' /\ PostInv' BY <1>3, <2>1 DEF ReqBufs
  <2>4. FlowInv' BY <2>6, <2>7, <2>8
  <2> QED BY <2>3, <2>4, <2>5
<1>4. CASE ReqBufsFails BY <1>4 DEF ReqBufsFails
<1>5. CASE QueryBuf
  <2>4. left' \in 0 .. req_count /\ allocated' \in 0 .. req_count BY <1>5 DEF QueryBuf
  <2>1. ControlOK' BY <1>5, <2>4 DEF QueryBuf
  <2>2. CountsOK' BY <1>5 DEF QueryBuf
  <2>5. AllocatedInv'
    <3>1. allocated \in Int /\ left \in Int /\ req_count \in Int /\ allocated + left <= req_count
      BY <1>5 DEF QueryBuf
    <3>2. /\ allocated' = allocated \/ allocated' = allocated + 1
          /\ left' = left - 1 /\ req_count' = req_count
      BY <1>5 DEF QueryBuf
    <3>3. allocated' + left' <= req_count' BY <3>1, <3>2
    <3> QED BY <3>3
  <2>6. IdleInv' /\ RoundsInv' /\ StreamInv' BY <1>5 DEF QueryBuf
  <2>7. LostInv' /\ ImagesInv' /\ PostInv' BY <1>5 DEF QueryBuf
  <2>3. FlowInv' BY <2>5, <2>6, <2>7
  <2> QED BY <2>1, <2>2, <2>3
<1>6. CASE QueryBufFails BY <1>6 DEF QueryBufFails
<1>7. CASE ProcThreadInit
  <2>1. ControlOK' BY <1>7 DEF ProcThreadInit
  <2>2. CountsOK' BY <1>7 DEF ProcThreadInit
  <2>3. FlowInv' BY <1>7 DEF ProcThreadInit
  <2> QED BY <2>1, <2>2, <2>3
<1>8. CASE QbufFirst
  <2>4. left' \in 0 .. req_count BY <1>8 DEF QbufFirst
  <2>1. ControlOK' BY <1>8, <2>4 DEF QbufFirst
  <2>2. CountsOK' BY <1>8 DEF QbufFirst
  <2>3. FlowInv' BY <1>8 DEF QbufFirst
  <2> QED BY <2>1, <2>2, <2>3
<1>9. CASE QbufFirstFails BY <1>9 DEF QbufFirstFails
<1>10. CASE TestBufferPrepare
  <2>1. ControlOK' BY <1>10 DEF TestBufferPrepare
  <2>2. CountsOK' BY <1>10 DEF TestBufferPrepare
  <2>3. FlowInv' BY <1>10 DEF TestBufferPrepare
  <2> QED BY <2>1, <2>2, <2>3
<1>11. CASE StreamOn BY <1>11 DEF StreamOn
<1>12. CASE StreamOnFails BY <1>12 DEF StreamOnFails
<1>13. CASE RaiseFlag BY <1>13 DEF RaiseFlag
<1> QED BY <1>1, <1>2, <1>3, <1>4, <1>5, <1>6, <1>7, <1>8, <1>9, <1>10, <1>11, <1>12, <1>13

(* ... through the loop, which moves neither images nor infos, ... *)
LEMMA LoopFlow ==
    ASSUME ControlOK, CountsOK, PhaseInv, FlowInv,
           PollNow \/ PollWaits \/ PopReady \/ PopSleep \/ PopWoken \/ Dqbuf \/ Qbuf
             \/ LeaveLoop \/ LoopTimeout
    PROVE  ControlOK' /\ CountsOK' /\ FlowInv'
<1> USE DEF ControlOK, CountsOK, FlowInv, Before, Idle, IdleInv, AllocatedInv, RoundsInv,
      StreamInv, LostInv, ImagesInv, PostInv, Streaming
<1>1. /\ UNCHANGED <<counts, streamOnFlag, lists, thread, heads, signal, units>>
      /\ UNCHANGED <<held, lost>>
      /\ main \in Streaming /\ main' \in Streaming \cup {"stop"}
      /\ asked' \in {FALSE, asked} /\ heard' \in {TRUE, FALSE, heard}
  BY DEF PollNow, PollWaits, PopReady, PopSleep, PopWoken, PopDone, Dqbuf, Qbuf, LeaveLoop,
         LoopTimeout, Serve, Answer, sock, stream
<1>2. left = 0 BY <1>1
<1> USE DEF counts, thread, heads, units, held, lost
<1>6. asked' \in BOOLEAN /\ heard' \in BOOLEAN BY <1>1, Zenon
<1>3. ControlOK' BY <1>1, <1>2, <1>6
<1>4. CountsOK' BY <1>1, <1>2
<1>5. FlowInv' BY <1>1, <1>2
<1> QED BY <1>3, <1>4, <1>5

(* ... down again, ... *)
LEMMA DownFlow ==
    ASSUME ControlOK, CountsOK, PhaseInv, FlowInv,
           ClearFlag \/ ViStreamOff \/ IspStreamOff \/ CppStop \/ TellOff \/ AwaitClose
             \/ ProcThreadDeinit \/ ProcThreadJoin \/ TestBufferDeInit \/ UnitsDeInit \/ Bye
    PROVE  ControlOK' /\ CountsOK' /\ FlowInv'
<1> USE BridgeAssumption DEF ControlOK, CountsOK, FlowInv, Before, Idle, IdleInv, AllocatedInv,
      RoundsInv, StreamInv, LostInv, ImagesInv, PostInv, Streaming
<1> USE DEF PhaseInv, Counting, JoinedFirst, sock, counts, thread, heads, outs, units, held,
      lost, stream, Receive, ReceiveFails, Answer
<1>1. CASE ClearFlag
  <2>1. ControlOK' BY <1>1 DEF ClearFlag
  <2>2. CountsOK' BY <1>1 DEF ClearFlag
  <2>3. FlowInv' BY <1>1 DEF ClearFlag
  <2> QED BY <2>1, <2>2, <2>3
<1>2. CASE ViStreamOff
  <2>1. ControlOK' BY <1>2 DEF ViStreamOff
  <2>2. CountsOK' BY <1>2 DEF ViStreamOff
  <2>3. FlowInv' BY <1>2 DEF ViStreamOff
  <2> QED BY <2>1, <2>2, <2>3
<1>3. CASE IspStreamOff
  <2>1. ControlOK' BY <1>3 DEF IspStreamOff
  <2>2. CountsOK' BY <1>3 DEF IspStreamOff
  <2>3. FlowInv' BY <1>3 DEF IspStreamOff
  <2> QED BY <2>1, <2>2, <2>3
<1>4. CASE CppStop
  <2>1. ControlOK' BY <1>4 DEF CppStop
  <2>2. CountsOK' BY <1>4 DEF CppStop
  <2>3. FlowInv' BY <1>4 DEF CppStop
  <2> QED BY <2>1, <2>2, <2>3
<1>5. CASE TellOff
  <2>1. ControlOK' BY <1>5 DEF TellOff
  <2>2. CountsOK' BY <1>5 DEF TellOff
  <2>3. FlowInv' BY <1>5 DEF TellOff
  <2> QED BY <2>1, <2>2, <2>3
<1>6. CASE AwaitClose
  <2>1. ControlOK' BY <1>6 DEF AwaitClose
  <2>2. CountsOK' BY <1>6 DEF AwaitClose
  <2>3. FlowInv' BY <1>6 DEF AwaitClose
  <2> QED BY <2>1, <2>2, <2>3
<1>7. CASE ProcThreadDeinit BY <1>7 DEF ProcThreadDeinit
<1>8. CASE ProcThreadJoin BY <1>8 DEF ProcThreadJoin
<1>9. CASE TestBufferDeInit
  <2>1. ControlOK' BY <1>9 DEF TestBufferDeInit
  <2>2. CountsOK' BY <1>9 DEF TestBufferDeInit
  <2>3. FlowInv' BY <1>9 DEF TestBufferDeInit
  <2> QED BY <2>1, <2>2, <2>3
<1>10. CASE UnitsDeInit BY <1>10 DEF UnitsDeInit
<1>11. CASE Bye
  <2>1. ControlOK' BY <1>11 DEF Bye
  <2>2. CountsOK' BY <1>11 DEF Bye
  <2>3. FlowInv' BY <1>11 DEF Bye
  <2> QED BY <2>1, <2>2, <2>3
<1> QED BY <1>1, <1>2, <1>3, <1>4, <1>5, <1>6, <1>7, <1>8, <1>9, <1>10, <1>11

(* ... and under the thread's and the libraries' feet. *)
LEMMA OtherFlow ==
    ASSUME ControlOK, CountsOK, PhaseInv, FlowInv, KernelAsks \/ Proc \/ ViCallback
             \/ IspCallback \/ CppInputDone \/ CppOutputDone \/ CppSignal
    PROVE  ControlOK' /\ CountsOK' /\ FlowInv'
<1> USE BridgeAssumption DEF ControlOK, CountsOK, FlowInv, Before, Idle, IdleInv, AllocatedInv,
      RoundsInv, StreamInv, LostInv, ImagesInv, PostInv, Streaming
<1> USE DEF sock, counts, thread, heads, outs, units, held, lost, stream
<1>1. CASE KernelAsks
  <2>1. ControlOK' BY <1>1 DEF KernelAsks
  <2>2. CountsOK' BY <1>1 DEF KernelAsks
  <2>3. FlowInv' BY <1>1 DEF KernelAsks
  <2> QED BY <2>1, <2>2, <2>3
<1>2. CASE ProcTake
  <2>1. ControlOK' BY <1>2 DEF ProcTake
  <2>2. CountsOK' BY <1>2 DEF ProcTake
  <2>3. FlowInv' BY <1>2 DEF ProcTake
  <2> QED BY <2>1, <2>2, <2>3
<1>3. CASE ProcPost
  <2>1. ControlOK' BY <1>3 DEF ProcPost
  <2>2. CountsOK' BY <1>3 DEF ProcPost
  <2>3. FlowInv' BY <1>3 DEF ProcPost
  <2> QED BY <2>1, <2>2, <2>3
<1>4. CASE ProcLeave BY <1>4 DEF ProcLeave
<1>5. CASE ViCallback
  <2>1. ControlOK' BY <1>5 DEF ViCallback
  <2>2. CountsOK' BY <1>5 DEF ViCallback
  <2>3. FlowInv' BY <1>5 DEF ViCallback
  <2> QED BY <2>1, <2>2, <2>3
<1>6. CASE IspCallback
  <2>1. ControlOK' BY <1>6 DEF IspCallback
  <2>2. CountsOK' BY <1>6 DEF IspCallback
  <2>3. FlowInv' BY <1>6 DEF IspCallback
  <2> QED BY <2>1, <2>2, <2>3
<1>7. CASE CppInputDone
  <2>1. ControlOK' BY <1>7 DEF CppInputDone
  <2>2. CountsOK' BY <1>7 DEF CppInputDone
  <2>3. FlowInv' BY <1>7 DEF CppInputDone
  <2> QED BY <2>1, <2>2, <2>3
<1>8. CASE CppOutputDone
  <2>4. signal' \in BOOLEAN BY <1>8, Zenon DEF CppOutputDone
  <2>5. main' \in {main, "woken"} BY <1>8 DEF CppOutputDone
  <2>1. ControlOK' BY <1>8, <2>4, <2>5 DEF CppOutputDone
  <2>2. CountsOK' BY <1>8 DEF CppOutputDone
  <2>3. FlowInv' BY <1>8 DEF CppOutputDone
  <2> QED BY <2>1, <2>2, <2>3
<1>9. CASE CppSignal
  <2>4. signal' \in BOOLEAN BY <1>9, Zenon DEF CppSignal
  <2>5. main' \in {main, "woken"} BY <1>9 DEF CppSignal
  <2>1. ControlOK' BY <1>9, <2>4, <2>5 DEF CppSignal
  <2>2. CountsOK' BY <1>9 DEF CppSignal
  <2>3. FlowInv' BY <1>9 DEF CppSignal
  <2> QED BY <2>1, <2>2, <2>3
<1> QED BY <1>1, <1>2, <1>3, <1>4, <1>5, <1>6, <1>7, <1>8, <1>9 DEF Proc

-----------------------------------------------------------------------------
(* The lists.  What most steps leave alone: *)
LEMMA ListsSame ==
    ASSUME ListsOK, HeldInv, UNCHANGED <<outs, cppJobs, hand>>,
           proc' = "post" <=> proc = "post",
           main' \in {"stream_on", "raise"} \cup Streaming
               => main \in {"stream_on", "raise"} \cup Streaming /\ allocated' = allocated
    PROVE  ListsOK' /\ HeldInv'
<1>1. ListsOK' BY DEF ListsOK, outs
<1>2. Places' = Places BY DEF Places, outs
<1>3. Number' = Number BY DEF Number, outs
<1>4. HeldInv' BY <1>2, <1>3 DEF HeldInv, Null
<1> QED BY <1>1, <1>4

(* A buffer goes from the head of one list to the end of another. *)
LEMMA HeadMoves ==
    ASSUME NEW S, NEW s \in Seq(S), NEW t \in Seq(S), s # <<>>
    PROVE  /\ Tail(s) \in Seq(S) /\ Append(t, Head(s)) \in Seq(S)
           /\ Len(Tail(s)) + Len(Append(t, Head(s))) = Len(s) + Len(t)
           /\ Range(Tail(s)) \cup Range(Append(t, Head(s))) = Range(s) \cup Range(t)
<1>1. /\ Head(s) \in S /\ Tail(s) \in Seq(S)
      /\ Len(s) \in Nat /\ Len(Tail(s)) = Len(s) - 1
      /\ Range(s) = {Head(s)} \cup Range(Tail(s))
  BY TailRange
<1>2. /\ Append(t, Head(s)) \in Seq(S)
      /\ Len(t) \in Nat /\ Len(Append(t, Head(s))) = Len(t) + 1
      /\ Range(Append(t, Head(s))) = Range(t) \cup {Head(s)}
  BY <1>1, AppendRange
<1>3. Len(Tail(s)) + Len(Append(t, Head(s))) = Len(s) + Len(t) BY <1>1, <1>2
<1>4. Range(Tail(s)) \cup Range(Append(t, Head(s))) = Range(s) \cup Range(t) BY <1>1, <1>2
<1> QED BY <1>1, <1>2, <1>3, <1>4

(* The lengths are numbers. *)
LEMMA Lengths ==
    ASSUME ListsOK
    PROVE  /\ Len(cpp_origin_list) \in Nat /\ Len(cppJobs) \in Nat
           /\ Len(cpp_done_list) \in Nat /\ Len(v4l2_dqbuf_list) \in Nat
           /\ Len(v4l2_qbuf_list) \in Nat
BY LenProperties DEF ListsOK

LEMMA PopStep ==
    ASSUME ListsOK, HeldInv, cpp_done_list # <<>>, PopDone,
           main \in Streaming, UNCHANGED <<allocated, cppJobs, hand, proc>>
    PROVE  ListsOK' /\ HeldInv'
<1>1. /\ cpp_done_list' \in Seq(Bufs) /\ v4l2_dqbuf_list' \in Seq(Bufs)
      /\ Len(cpp_done_list') + Len(v4l2_dqbuf_list') = Len(cpp_done_list) + Len(v4l2_dqbuf_list)
      /\ Range(cpp_done_list') \cup Range(v4l2_dqbuf_list')
           = Range(cpp_done_list) \cup Range(v4l2_dqbuf_list)
  BY HeadMoves DEF PopDone, ListsOK
<1>2. UNCHANGED <<cpp_origin_list, v4l2_qbuf_list>> BY DEF PopDone
<1>3. ListsOK' BY <1>1, <1>2 DEF ListsOK
<1>4. Places' = Places BY <1>1, <1>2 DEF Places
<1>5. Len(cpp_done_list') \in Nat /\ Len(v4l2_dqbuf_list') \in Nat BY <1>1, LenProperties
<1>6. Number' = Number BY <1>1, <1>2, <1>5, Lengths DEF Number
<1> QED BY <1>3, <1>4, <1>6 DEF HeldInv, Null, Streaming

LEMMA DqbufLists ==
    ASSUME ListsOK, HeldInv, Dqbuf
    PROVE  ListsOK' /\ HeldInv'
<1>1. CASE v4l2_dqbuf_list # <<>> /\ v4l2_dqbuf_list' = Tail(v4l2_dqbuf_list)
           /\ v4l2_qbuf_list' = Append(v4l2_qbuf_list, Head(v4l2_dqbuf_list))
  <2>1. UNCHANGED <<cpp_origin_list, cpp_done_list, cppJobs, hand, proc, allocated>>
        /\ main = "loop"
    BY DEF Dqbuf, Serve, held, thread, counts
  <2>2. /\ v4l2_dqbuf_list' \in Seq(Bufs) /\ v4l2_qbuf_list' \in Seq(Bufs)
        /\ Len(v4l2_dqbuf_list') + Len(v4l2_qbuf_list')
             = Len(v4l2_dqbuf_list) + Len(v4l2_qbuf_list)
        /\ Range(v4l2_dqbuf_list') \cup Range(v4l2_qbuf_list')
             = Range(v4l2_dqbuf_list) \cup Range(v4l2_qbuf_list)
    BY <1>1, HeadMoves DEF ListsOK
  <2>3. ListsOK' BY <2>1, <2>2 DEF ListsOK
  <2>4. Places' = Places BY <2>1, <2>2 DEF Places
  <2>5. Len(v4l2_dqbuf_list') \in Nat /\ Len(v4l2_qbuf_list') \in Nat BY <2>2, LenProperties
  <2>6. Number' = Number BY <2>1, <2>2, <2>5, Lengths DEF Number
  <2> QED BY <2>1, <2>3, <2>4, <2>6 DEF HeldInv, Null, Streaming
<1>2. CASE UNCHANGED outs /\ main' = "stop"
  <2>1. UNCHANGED <<cppJobs, hand, proc>> BY DEF Dqbuf, held, thread
  <2> QED BY <1>2, <2>1, ListsSame DEF Streaming
<1> QED BY <1>1, <1>2 DEF Dqbuf

(* The client's buffer is taken from where it is in the list. *)
LEMMA QbufLists ==
    ASSUME ListsOK, HeldInv, Qbuf
    PROVE  ListsOK' /\ HeldInv'
<1>1. CASE \E i \in DOMAIN v4l2_qbuf_list :
             /\ v4l2_qbuf_list[i] = msg.n
             /\ v4l2_qbuf_list' = RemoveAt(v4l2_qbuf_list, i)
             /\ cpp_origin_list' = Append(cpp_origin_list, msg.n)
  <2>1. UNCHANGED <<cpp_done_list, v4l2_dqbuf_list, cppJobs, hand, proc, allocated>>
        /\ main = "loop"
    BY DEF Qbuf, Serve, held, thread, counts
  <2>2. PICK i \in DOMAIN v4l2_qbuf_list :
             /\ v4l2_qbuf_list[i] = msg.n
             /\ v4l2_qbuf_list' = RemoveAt(v4l2_qbuf_list, i)
             /\ cpp_origin_list' = Append(cpp_origin_list, msg.n)
    BY <1>1
  <2>3. /\ v4l2_qbuf_list' \in Seq(Bufs)
        /\ Len(v4l2_qbuf_list) \in Nat /\ Len(v4l2_qbuf_list') = Len(v4l2_qbuf_list) - 1
    BY <2>2, RemoveAtIndex DEF ListsOK
  <2>4. Range(v4l2_qbuf_list') \cup {msg.n} = Range(v4l2_qbuf_list)
    BY <2>2, RemoveAtRange DEF ListsOK
  <2>5. msg.n \in Bufs BY <2>2, LenProperties DEF ListsOK
  <2>6. /\ cpp_origin_list' \in Seq(MaybeBufs)
        /\ Len(cpp_origin_list) \in Nat /\ Len(cpp_origin_list') = Len(cpp_origin_list) + 1
        /\ Range(cpp_origin_list') = Range(cpp_origin_list) \cup {msg.n}
    BY <2>2, <2>5, AppendRange DEF ListsOK, MaybeBufs
  <2>7. ListsOK' BY <2>1, <2>3, <2>6 DEF ListsOK
  <2>8. Places' = Places BY <2>1, <2>4, <2>6 DEF Places
  <2>9. Number' = Number BY <2>1, <2>3, <2>6, Lengths DEF Number
  <2> QED BY <2>1, <2>7, <2>8, <2>9 DEF HeldInv, Null, Streaming
<1>2. CASE UNCHANGED outs /\ main' = "stop"
  <2>1. UNCHANGED <<cppJobs, hand, proc>> BY DEF Qbuf, held, thread
  <2> QED BY <1>2, <2>1, ListsSame DEF Streaming
<1> QED BY <1>1, <1>2 DEF Qbuf

(* Nothing is out yet when the buffers are queued. *)
LEMMA PrepareLists ==
    ASSUME ListsOK, IdleInv, ControlOK, TestBufferPrepare
    PROVE  ListsOK' /\ HeldInv' /\ NullInv'
<1> DEFINE g == [i \in 1 .. allocated |-> i]
           o == cpp_origin_list'
<1>1. /\ o = IF allocated < req_count THEN Append(g, 0) ELSE g
      /\ UNCHANGED <<cpp_done_list, v4l2_dqbuf_list, v4l2_qbuf_list, cppJobs, hand, proc>>
      /\ UNCHANGED <<allocated, req_count>> /\ main = "prepare"
  BY DEF TestBufferPrepare, thread, counts
<1>2. Idle BY <1>1 DEF IdleInv, Before
<1>3. allocated \in Nat /\ req_count \in Nat /\ allocated <= req_count /\ req_count <= MaxCount
  BY BridgeAssumption DEF ControlOK
<1>4. g \in Seq(MaybeBufs) /\ Len(g) = allocated
  BY <1>3, BridgeAssumption DEF Bufs, MaybeBufs
<1>5. Range(g) = 1 .. allocated BY DEF Range
<1>6. 0 \notin Range(g) /\ AtMostOnce(g, 0) BY <1>3, <1>5 DEF AtMostOnce
<1> HIDE DEF g
<1>7. /\ o \in Seq(MaybeBufs) /\ Range(o) \ {0} = 1 .. allocated
      /\ Len(o) = allocated + (IF 0 \in Range(o) THEN 1 ELSE 0)
      /\ AtMostOnce(o, 0) /\ (0 \in Range(o) => allocated < req_count)
  <2>1. CASE allocated < req_count
    <3>1. 0 \in MaybeBufs /\ o = Append(g, 0) BY <1>1, <2>1 DEF MaybeBufs
    <3>2. /\ o \in Seq(MaybeBufs) /\ Len(o) = allocated + 1
          /\ Range(o) = Range(g) \cup {0}
      BY <1>4, <3>1, AppendRange
    <3>3. AtMostOnce(o, 0) BY <1>4, <1>6, <3>1, AppendOnce
    <3> HIDE DEF o
    <3> QED BY <1>5, <1>6, <2>1, <3>2, <3>3
  <2>2. CASE ~(allocated < req_count)
    <3>1. o = g BY <1>1, <2>2
    <3> HIDE DEF o
    <3> QED BY <1>3, <1>4, <1>5, <1>6, <3>1
  <2> QED BY <2>1, <2>2
<1>8. ListsOK' BY <1>1, <1>2, <1>7 DEF ListsOK
<1>9. Range(<<>>) = {} /\ Len(<<>>) = 0 BY DEF Range
<1>10. Places' = Range(o) BY <1>1, <1>2, <1>9 DEF Places, Idle
<1>11. Number' = Len(o)
  <2>1. Len(o) \in Nat BY <1>7, LenProperties
  <2> QED BY <1>1, <1>2, <1>9, <2>1 DEF Number, Idle
<1>12. HeldInv' BY <1>1, <1>7, <1>10, <1>11 DEF HeldInv, Null
<1>13. NullInv' BY <1>1, <1>2, <1>7 DEF NullInv, Idle, Early, TestBufferPrepare
<1> QED BY <1>8, <1>12, <1>13

LEMMA TakeLists ==
    ASSUME ListsOK, HeldInv, ProcTake
    PROVE  ListsOK' /\ HeldInv'
<1>1. /\ cpp_origin_list # <<>> /\ hand' = Head(cpp_origin_list)
      /\ cpp_origin_list' = Tail(cpp_origin_list) /\ proc = "wait" /\ proc' = "post"
      /\ UNCHANGED <<cpp_done_list, v4l2_dqbuf_list, v4l2_qbuf_list, cppJobs, allocated, main>>
  BY DEF ProcTake, held, counts
<1>2. /\ hand' \in MaybeBufs /\ cpp_origin_list' \in Seq(MaybeBufs)
      /\ Len(cpp_origin_list) \in Nat /\ Len(cpp_origin_list') = Len(cpp_origin_list) - 1
      /\ Range(cpp_origin_list) = {hand'} \cup Range(cpp_origin_list')
  BY <1>1, TailRange DEF ListsOK
<1>3. hand' \in 0 .. MaxCount BY <1>2, BridgeAssumption DEF MaybeBufs, Bufs
<1>4. ListsOK' BY <1>1, <1>2, <1>3 DEF ListsOK
<1>5. Places' = Places BY <1>1, <1>2 DEF Places
<1>6. Number' = Number BY <1>1, <1>2, Lengths DEF Number
<1> QED BY <1>1, <1>4, <1>5, <1>6 DEF HeldInv, Null

(* A NULL is nowhere but in cpp_origin_list and with the thread. *)
LEMMA NullPlaces ==
    ASSUME ListsOK
    PROVE  0 \notin Range(cppJobs) \cup Range(cpp_done_list) \cup Range(v4l2_dqbuf_list)
                       \cup Range(v4l2_qbuf_list)
<1>1. ASSUME NEW q \in Seq(Bufs) PROVE 0 \notin Range(q)
  <2>1. \A i \in DOMAIN q : q[i] \in Bufs BY LenProperties
  <2>2. 0 \notin Bufs BY BridgeAssumption DEF Bufs
  <2> QED BY <2>1, <2>2 DEF Range
<1> QED BY <1>1 DEF ListsOK

(* The post succeeds as long as the CPP is on, and it is on as long as it matters; a NULL
   is gone with it. *)
LEMMA PostLists ==
    ASSUME ListsOK, HeldInv, NullInv, StreamInv, IdleInv, ControlOK, ProcPost
    PROVE  ListsOK' /\ HeldInv'
<1>1. /\ proc = "post" /\ proc' # "post" /\ hand' = 0
      /\ UNCHANGED <<outs, allocated, main>>
  BY DEF ProcPost, counts
<1>2. CASE cppOn /\ hand # 0
  <2>1. cppJobs' = Append(cppJobs, hand) BY <1>2 DEF ProcPost
  <2>6. hand \in Bufs BY <1>2, BridgeAssumption DEF ListsOK, Bufs
  <2>2. /\ cppJobs' \in Seq(Bufs)
        /\ Len(cppJobs) \in Nat /\ Len(cppJobs') = Len(cppJobs) + 1
        /\ Range(cppJobs') = Range(cppJobs) \cup {hand}
    BY <2>1, <2>6, AppendRange DEF ListsOK
  <2>3. ListsOK' BY <1>1, <2>2, BridgeAssumption DEF ListsOK, outs
  <2>4. Places' = Places BY <1>1, <2>2 DEF Places, outs
  <2>5. Number' = Number BY <1>1, <2>2, Lengths DEF Number, outs
  <2> QED BY <1>1, <2>3, <2>4, <2>5 DEF HeldInv, Null
<1>3. CASE cppOn /\ hand = 0
  <2>1. cppJobs' = cppJobs BY <1>3 DEF ProcPost
  <2>2. ListsOK' BY <1>1, <2>1, BridgeAssumption DEF ListsOK, outs
  <2>3. 0 \notin Range(cpp_origin_list) BY <1>1, <1>3 DEF NullInv
  <2>4. Places' = Places \ {0} /\ 0 \in Places
    BY <1>1, <1>3, <2>1, <2>3, NullPlaces DEF Places, outs
  <2>5. Number' = Number - 1 BY <1>1, <2>1, Lengths DEF Number, outs
  <2>6. allocated \in Nat BY BridgeAssumption DEF ControlOK
  <2> QED BY <1>1, <2>2, <2>4, <2>5, <2>6 DEF HeldInv, Null
<1>4. CASE ~cppOn
  <2>1. cppJobs' = cppJobs BY <1>4 DEF ProcPost
  <2>2. ListsOK' BY <1>1, <2>1, BridgeAssumption DEF ListsOK, outs
  <2>3. main # "stream_on" BY <1>1 DEF IdleInv, Before, Idle
  <2>4. main' \notin {"stream_on", "raise"} \cup Streaming
    BY <1>1, <1>4, <2>3 DEF StreamInv
  <2> QED BY <2>2, <2>4 DEF HeldInv, Streaming
<1> QED BY <1>2, <1>3, <1>4

LEMMA OutputLists ==
    ASSUME ListsOK, HeldInv, StreamInv, IdleInv, CppOutputDone
    PROVE  ListsOK' /\ HeldInv'
<1>1. /\ cppJobs # <<>> /\ cppJobs' = Tail(cppJobs)
      /\ UNCHANGED <<cpp_origin_list, v4l2_dqbuf_list, v4l2_qbuf_list, hand, proc>>
      /\ UNCHANGED <<allocated, main>>
  BY DEF CppOutputDone, thread, counts
<1>2. CASE streamOnFlag = 1
  <2>1. cpp_done_list' = Append(cpp_done_list, Head(cppJobs)) BY <1>2 DEF CppOutputDone
  <2>2. /\ cppJobs' \in Seq(Bufs) /\ cpp_done_list' \in Seq(Bufs)
        /\ Len(cppJobs') + Len(cpp_done_list') = Len(cppJobs) + Len(cpp_done_list)
        /\ Range(cppJobs') \cup Range(cpp_done_list') = Range(cppJobs) \cup Range(cpp_done_list)
    BY <1>1, <2>1, HeadMoves DEF ListsOK
  <2>3. ListsOK' BY <1>1, <2>2 DEF ListsOK
  <2>4. Places' = Places BY <1>1, <2>2 DEF Places
  <2>5. Len(cppJobs') \in Nat /\ Len(cpp_done_list') \in Nat BY <2>2, LenProperties
  <2>6. Number' = Number BY <1>1, <2>2, <2>5, Lengths DEF Number
  <2> QED BY <1>1, <2>3, <2>4, <2>6 DEF HeldInv, Null
<1>3. CASE streamOnFlag # 1
  <2>1. cpp_done_list' = cpp_done_list BY <1>3 DEF CppOutputDone
  <2>2. cppJobs' \in Seq(Bufs) BY <1>1, TailRange DEF ListsOK
  <2>3. ListsOK' BY <1>1, <2>1, <2>2 DEF ListsOK
  <2>4. main' \notin {"stream_on", "raise"} \cup Streaming
    BY <1>1, <1>3 DEF StreamInv, IdleInv, Before, Idle
  <2> QED BY <2>3, <2>4 DEF HeldInv, Null, Streaming
<1> QED BY <1>2, <1>3

(* The NULL, at each step that can touch it. *)
LEMMA NullTaken ==
    ASSUME ListsOK, NullInv, ProcTake
    PROVE  NullInv'
<1>1. /\ cpp_origin_list # <<>> /\ hand' = Head(cpp_origin_list)
      /\ cpp_origin_list' = Tail(cpp_origin_list)
      /\ UNCHANGED <<allocated, req_count, main>>
  BY DEF ProcTake, counts
<1>2. Range(cpp_origin_list) = {hand'} \cup Range(cpp_origin_list')
  BY <1>1, TailRange DEF ListsOK
<1>3. /\ AtMostOnce(cpp_origin_list', 0)
      /\ hand' = 0 => 0 \notin Range(cpp_origin_list')
  BY <1>1, TailOnce DEF ListsOK, NullInv
<1> QED BY <1>1, <1>2, <1>3 DEF NullInv

LEMMA NullStays ==
    ASSUME ListsOK, NullInv, Qbuf
    PROVE  NullInv'
<1>1. UNCHANGED <<allocated, req_count, hand, proc>> /\ main' \notin Early
  BY DEF Qbuf, counts, thread, Early
<1>2. CASE \E i \in DOMAIN v4l2_qbuf_list :
             /\ v4l2_qbuf_list[i] = msg.n
             /\ cpp_origin_list' = Append(cpp_origin_list, msg.n)
  <2>1. msg.n \in Bufs BY <1>2, LenProperties DEF ListsOK
  <2>2. msg.n \in MaybeBufs /\ msg.n # 0 BY <2>1 DEF Bufs, MaybeBufs
  <2>3. Range(cpp_origin_list') = Range(cpp_origin_list) \cup {msg.n}
    BY <1>2, <2>2, AppendRange DEF ListsOK
  <2>4. AtMostOnce(cpp_origin_list', 0) BY <1>2, <2>2, AppendOnce DEF ListsOK, NullInv
  <2> QED BY <1>1, <2>2, <2>3, <2>4 DEF NullInv
<1>3. CASE UNCHANGED outs BY <1>1, <1>3 DEF NullInv, outs
<1> QED BY <1>2, <1>3 DEF Qbuf

(* Buffers are counted before anything is in the list. *)
LEMMA NullStep ==
    ASSUME ListsOK, NullInv, IdleInv, ControlOK, [Next]_vars
    PROVE  NullInv'
<1>1. AtMostOnce(<<>>, 0) /\ Range(<<>>) = {} BY DEF AtMostOnce, Range
<1>2. CASE \/ UNCHANGED vars
           \/ SetFmt \/ SetFmtFails \/ ReqBufsFails \/ QueryBufFails
           \/ QbufFirst \/ QbufFirstFails \/ StreamOn \/ StreamOnFails \/ RaiseFlag
           \/ PollNow \/ PollWaits \/ PopReady \/ PopSleep \/ PopWoken \/ Dqbuf
           \/ LeaveLoop \/ LoopTimeout \/ ClearFlag \/ ViStreamOff \/ IspStreamOff
           \/ CppStop \/ TellOff \/ AwaitClose \/ ProcThreadDeinit \/ ProcThreadJoin
           \/ UnitsDeInit \/ Bye
           \/ KernelAsks \/ ViCallback \/ IspCallback \/ CppInputDone \/ CppOutputDone
           \/ CppSignal
  <2>1. /\ UNCHANGED <<cpp_origin_list, hand, proc, allocated, req_count>>
        /\ main' \in Early => main \in Early
    BY <1>2 DEF vars, SetFmt, SetFmtFails, ReqBufsFails, QueryBufFails, QbufFirst,
         QbufFirstFails, StreamOn, StreamOnFails, RaiseFlag, PollNow, PollWaits, PopReady,
         PopDone, PopSleep, PopWoken, Dqbuf, LeaveLoop, LoopTimeout, ClearFlag, ViStreamOff,
         IspStreamOff, CppStop, TellOff, AwaitClose, ProcThreadDeinit, ProcThreadJoin,
         UnitsDeInit, Bye, KernelAsks, ViCallback, IspCallback, CppInputDone, CppOutputDone,
         CppSignal, counts, stream, thread, outs, Early, Serve
  <2> QED BY <2>1 DEF NullInv
<1>3. CASE ReqBufs \/ QueryBuf
  <2>1. cpp_origin_list' = cpp_origin_list /\ proc' # "post"
    BY <1>3 DEF ReqBufs, QueryBuf, IdleInv, Before, Idle, stream, thread, outs
  <2>2. cpp_origin_list = <<>> BY <1>3 DEF NullInv, Early, ReqBufs, QueryBuf
  <2> QED BY <1>1, <2>1, <2>2 DEF NullInv
<1>4. CASE TestBufferPrepare BY <1>4, PrepareLists
<1>5. CASE Qbuf BY <1>5, NullStays
<1>6. CASE TestBufferDeInit
  <2>1. cpp_origin_list' = <<>> /\ UNCHANGED <<hand, proc, allocated, req_count>>
    BY <1>6 DEF TestBufferDeInit, counts, thread
  <2> QED BY <1>1, <2>1 DEF NullInv
<1>7. CASE ProcTake BY <1>7, NullTaken
<1>8. CASE ProcPost \/ ProcLeave \/ ProcThreadInit
  <2>1. /\ proc' # "post" /\ UNCHANGED <<cpp_origin_list, allocated, req_count>>
        /\ main' = main \/ main' \notin Early
    BY <1>8 DEF ProcPost, ProcLeave, ProcThreadInit, counts, outs, Early
  <2> QED BY <2>1 DEF NullInv
<1>9. CASE Main
  BY <1>2, <1>3, <1>4, <1>5, <1>6, <1>8, <1>9, Zenon DEF Main
<1>10. CASE Proc BY <1>7, <1>8, <1>10, Zenon DEF Proc
<1> QED BY <1>2, <1>9, <1>10, Zenon DEF Next

(* Every step. *)
LEMMA ListsStep ==
    ASSUME ListsOK, HeldInv, NullInv, StreamInv, IdleInv, ControlOK, [Next]_vars
    PROVE  ListsOK' /\ HeldInv'
<1> DEFINE Carried == {"stream_on", "raise"} \cup Streaming
<1>1. CASE UNCHANGED vars
  BY <1>1, ListsSame DEF vars, counts, stream, thread, outs, held
<1>2. CASE SetFmt \/ SetFmtFails \/ ReqBufs \/ ReqBufsFails \/ QueryBuf \/ QueryBufFails
           \/ ProcThreadInit \/ QbufFirst \/ QbufFirstFails
           \/ StreamOn \/ StreamOnFails \/ RaiseFlag
  <2>1. /\ UNCHANGED <<outs, cppJobs, hand>> /\ (proc' = "post" <=> proc = "post")
        /\ main' \in Carried => main \in Carried /\ allocated' = allocated
    <3>1. proc' # "post" /\ proc # "post"
      BY <1>2 DEF IdleInv, Before, Idle, SetFmt, SetFmtFails, ReqBufs, ReqBufsFails, QueryBuf,
           QueryBufFails, ProcThreadInit, QbufFirst, QbufFirstFails, StreamOn, StreamOnFails,
           RaiseFlag, stream, thread
    <3>2. UNCHANGED <<outs, cppJobs, hand>>
      BY <1>2 DEF SetFmt, SetFmtFails, ReqBufs, ReqBufsFails, QueryBuf,
           QueryBufFails, ProcThreadInit, QbufFirst, QbufFirstFails, StreamOn, StreamOnFails,
           RaiseFlag, stream, thread, held
    <3>3. main' \in Carried => main \in Carried /\ allocated' = allocated
      BY <1>2 DEF SetFmt, SetFmtFails, ReqBufs, ReqBufsFails, QueryBuf,
           QueryBufFails, ProcThreadInit, QbufFirst, QbufFirstFails, StreamOn, StreamOnFails,
           RaiseFlag, Streaming, counts
    <3> QED BY <3>1, <3>2, <3>3
  <2> QED BY <2>1, ListsSame
<1>3. CASE TestBufferPrepare BY <1>3, PrepareLists
<1>4. CASE PollNow \/ PollWaits \/ PopSleep \/ LeaveLoop \/ LoopTimeout
           \/ (PopWoken /\ UNCHANGED outs)
  <2>1. UNCHANGED <<outs, cppJobs, hand, proc, allocated>> /\ main \in Carried
    BY <1>4 DEF PollNow, PollWaits, PopSleep, LeaveLoop, LoopTimeout, PopWoken, Serve, stream,
         counts, thread, held, Streaming
  <2> QED BY <2>1, ListsSame
<1>5. CASE PopReady \/ (PopWoken /\ ~UNCHANGED outs)
  <2>1. /\ cpp_done_list # <<>> /\ PopDone /\ main \in Streaming
        /\ UNCHANGED <<allocated, cppJobs, hand, proc>>
    BY <1>5 DEF PopReady, PopWoken, Streaming, counts, thread, held
  <2> QED BY <2>1, PopStep
<1>6. CASE Dqbuf BY <1>6, DqbufLists
<1>7. CASE Qbuf BY <1>7, QbufLists
<1>8. CASE ClearFlag \/ ViStreamOff \/ IspStreamOff \/ TellOff \/ AwaitClose
           \/ ProcThreadDeinit \/ ProcThreadJoin \/ UnitsDeInit \/ Bye
  <2>1. UNCHANGED <<outs, cppJobs, hand, proc, allocated>> /\ main' \notin Carried
    BY <1>8 DEF ClearFlag, ViStreamOff, IspStreamOff, TellOff, AwaitClose, ProcThreadDeinit,
         ProcThreadJoin, UnitsDeInit, Bye, stream, counts, thread, held, Streaming
  <2> QED BY <2>1, ListsSame
<1>9. CASE CppStop \/ TestBufferDeInit
  <2>1. /\ UNCHANGED <<hand, proc>> /\ main' \notin Carried
        /\ cpp_origin_list' \in {cpp_origin_list, <<>>}
        /\ cpp_done_list' \in {cpp_done_list, <<>>} /\ cppJobs' \in {cppJobs, <<>>}
        /\ v4l2_dqbuf_list' \in {v4l2_dqbuf_list, <<>>}
        /\ v4l2_qbuf_list' \in {v4l2_qbuf_list, <<>>}
    BY <1>9 DEF CppStop, TestBufferDeInit, thread, outs, held, Streaming
  <2>2. <<>> \in Seq(Bufs) /\ <<>> \in Seq(MaybeBufs) OBVIOUS
  <2>3. cpp_origin_list' \in Seq(MaybeBufs) /\ cpp_done_list' \in Seq(Bufs)
    BY <2>1, <2>2, Zenon DEF ListsOK
  <2>4. v4l2_dqbuf_list' \in Seq(Bufs) /\ v4l2_qbuf_list' \in Seq(Bufs)
    BY <2>1, <2>2, Zenon DEF ListsOK
  <2>5. cppJobs' \in Seq(Bufs) BY <2>1, <2>2, Zenon DEF ListsOK
  <2>6. ListsOK' BY <2>1, <2>3, <2>4, <2>5 DEF ListsOK
  <2> QED BY <2>1, <2>6 DEF HeldInv, Null
<1>10. CASE ProcTake BY <1>10, TakeLists
<1>11. CASE ProcPost BY <1>11, PostLists
<1>12. CASE CppOutputDone BY <1>12, OutputLists
<1>13. CASE KernelAsks \/ ProcLeave \/ ViCallback \/ IspCallback \/ CppInputDone \/ CppSignal
  <2>1. UNCHANGED <<outs, cppJobs, hand, allocated>> /\ (proc' = "post" <=> proc = "post")
        /\ main' \in {main, "woken"} /\ (main' = main \/ main = "asleep")
    BY <1>13 DEF KernelAsks, ProcLeave, ViCallback, IspCallback, CppInputDone, CppSignal,
         stream, counts, thread, held
  <2> QED BY <2>1, ListsSame DEF Streaming
<1>14. CASE PopWoken BY <1>4, <1>5, <1>14
<1>15. CASE Main
  BY <1>2, <1>3, <1>4, <1>5, <1>6, <1>7, <1>8, <1>9, <1>14, <1>15, Zenon DEF Main
<1>16. CASE Proc BY <1>10, <1>11, <1>13, <1>16, Zenon DEF Proc
<1> QED BY <1>1, <1>12, <1>13, <1>15, <1>16, Zenon DEF Next

-----------------------------------------------------------------------------
BridgeInv == PhaseInv /\ MsgOK /\ ControlOK /\ CountsOK /\ FlowInv /\ ListsOK /\ HeldInv
             /\ NullInv

LEMMA BridgeInit == Init => BridgeInv
<1> SUFFICES ASSUME Init PROVE BridgeInv OBVIOUS
<1> USE BridgeAssumption DEF Init
<1>1. PhaseInv /\ MsgOK
  BY DEF PhaseInv, Counting, NotYet, FreedLast, JoinedFirst, ListsOutliveThread, MsgOK
<1>2. ControlOK
  <2>1. main = "set_fmt" /\ req_count \in 0 .. MaxCount /\ left \in 0 .. req_count
        /\ allocated \in 0 .. req_count
    OBVIOUS
  <2> QED BY <2>1 DEF ControlOK, Before
<1>3. CountsOK BY DEF CountsOK
<1>4. FlowInv
  BY DEF FlowInv, IdleInv, Before, Idle, AllocatedInv, RoundsInv, StreamInv, Streaming,
         LostInv, ImagesInv, PostInv
<1>5. ListsOK BY DEF ListsOK
<1>6. HeldInv BY DEF HeldInv, Streaming
<1>7. NullInv BY DEF NullInv, AtMostOnce, Range
<1> QED BY <1>1, <1>2, <1>3, <1>4, <1>5, <1>6, <1>7 DEF BridgeInv

LEMMA BridgeStep == BridgeInv /\ [Next]_vars => BridgeInv'
<1> SUFFICES ASSUME BridgeInv, [Next]_vars PROVE BridgeInv' OBVIOUS
<1> USE DEF BridgeInv
<1>1. PhaseInv' /\ MsgOK' BY PhaseStep
<1>2. ControlOK' /\ CountsOK' /\ FlowInv'
  <2>1. CASE UNCHANGED vars
    <3> USE <2>1 DEF vars, sock, counts, stream, thread, heads, units, held, lost, outs
    <3>1. ControlOK' BY DEF ControlOK
    <3>2. CountsOK' BY DEF CountsOK
    <3>3. FlowInv'
      BY DEF FlowInv, IdleInv, Idle, AllocatedInv, RoundsInv, StreamInv, LostInv, ImagesInv, PostInv
    <3> QED BY <3>1, <3>2, <3>3
  <2>2. CASE Main BY <2>2, SetUpFlow, LoopFlow, DownFlow DEF Main
  <2>3. CASE Next /\ ~Main BY <2>3, OtherFlow DEF Next
  <2> QED BY <2>1, <2>2, <2>3
<1>3. ListsOK' /\ HeldInv' /\ NullInv' BY ListsStep, NullStep DEF FlowInv
<1> QED BY <1>1, <1>2, <1>3

LEMMA BridgeInvariant == Spec => []BridgeInv
BY BridgeInit, BridgeStep, PTL DEF Spec

(* Every variable of the bridge has its type, whatever the client asks for: the thread
   has an output buffer when it posts, unless one could not be allocated, and no image or
   frame info appears. *)
THEOREM BridgeTypeCorrect == Spec => []TypeOK
<1>1. BridgeInv => TypeOK
  BY DEF BridgeInv, MsgOK, ControlOK, CountsOK, ListsOK, NullInv, MaybeBufs, TypeOK, Before,
         Streaming
<1> QED BY <1>1, BridgeInvariant, PTL

(* While the stream is on, every output buffer there is is in one place and once; besides
   them there is at most the one NULL that stands for those that could not be allocated. *)
THEOREM BuffersHeldOnce == Spec => []BufferHeldOnce
<1>1. BridgeInv => BufferHeldOnce
  <2> SUFFICES ASSUME BridgeInv, main \in Streaming PROVE BufferHeldOnce
    BY DEF BufferHeldOnce
  <2> DEFINE h == IF proc = "post" THEN <<hand>> ELSE <<>>
             a == cpp_origin_list \o cppJobs
             b == a \o cpp_done_list
             c == b \o v4l2_dqbuf_list
             d == c \o v4l2_qbuf_list
  <2>1. ListsOK /\ Places \ {0} = 1 .. allocated /\ Number = allocated + Null
    BY DEF BridgeInv, HeldInv
  <2>12. Seq(Bufs) \subseteq Seq(MaybeBufs) BY DEF MaybeBufs
  <2>2. hand \in MaybeBufs
    BY <2>1, BridgeAssumption DEF ListsOK, Bufs, MaybeBufs
  <2>3. h \in Seq(MaybeBufs) /\ Len(h) = (IF proc = "post" THEN 1 ELSE 0)
        /\ Range(h) = (IF proc = "post" THEN {hand} ELSE {})
    BY <2>2 DEF Range
  <2> HIDE DEF h
  <2>4. a \in Seq(MaybeBufs) /\ Len(a) = Len(cpp_origin_list) + Len(cppJobs)
        /\ Range(a) = Range(cpp_origin_list) \cup Range(cppJobs)
    BY <2>1, <2>12, ConcatProperties, RangeConcatenation DEF ListsOK
  <2> HIDE DEF a
  <2>5. b \in Seq(MaybeBufs) /\ Len(b) = Len(a) + Len(cpp_done_list)
        /\ Range(b) = Range(a) \cup Range(cpp_done_list)
    <3>1. cpp_done_list \in Seq(MaybeBufs) BY <2>1, <2>12 DEF ListsOK
    <3>2. b \in Seq(MaybeBufs) /\ Len(b) = Len(a) + Len(cpp_done_list)
      BY <2>4, <3>1, ConcatProperties
    <3>3. Range(b) = Range(a) \cup Range(cpp_done_list) BY <2>4, <3>1, RangeConcatenation
    <3> QED BY <3>2, <3>3
  <2> HIDE DEF b
  <2>6. c \in Seq(MaybeBufs) /\ Len(c) = Len(b) + Len(v4l2_dqbuf_list)
        /\ Range(c) = Range(b) \cup Range(v4l2_dqbuf_list)
    <3>1. v4l2_dqbuf_list \in Seq(MaybeBufs) BY <2>1, <2>12 DEF ListsOK
    <3>2. c \in Seq(MaybeBufs) /\ Len(c) = Len(b) + Len(v4l2_dqbuf_list)
      BY <2>5, <3>1, ConcatProperties
    <3>3. Range(c) = Range(b) \cup Range(v4l2_dqbuf_list) BY <2>5, <3>1, RangeConcatenation
    <3> QED BY <3>2, <3>3
  <2> HIDE DEF c
  <2>7. d \in Seq(MaybeBufs) /\ Len(d) = Len(c) + Len(v4l2_qbuf_list)
        /\ Range(d) = Range(c) \cup Range(v4l2_qbuf_list)
    <3>1. v4l2_qbuf_list \in Seq(MaybeBufs) BY <2>1, <2>12 DEF ListsOK
    <3>2. d \in Seq(MaybeBufs) /\ Len(d) = Len(c) + Len(v4l2_qbuf_list)
      BY <2>6, <3>1, ConcatProperties
    <3>3. Range(d) = Range(c) \cup Range(v4l2_qbuf_list) BY <2>6, <3>1, RangeConcatenation
    <3> QED BY <3>2, <3>3
  <2> HIDE DEF d
  <2>8. Len(d \o h) = Len(d) + Len(h) BY <2>3, <2>7, ConcatProperties
  <2>11. Range(d \o h) = Range(d) \cup Range(h) BY <2>3, <2>7, RangeConcatenation
  <2>9. Len(d \o h) = Number BY <2>3, <2>4, <2>5, <2>6, <2>7, <2>8 DEF Number
  <2>10. Range(d \o h) = Places BY <2>3, <2>4, <2>5, <2>6, <2>7, <2>11 DEF Places
  <2> QED BY <2>1, <2>9, <2>10 DEF BufferHeldOnce, Null, a, b, c, d, h
<1> QED BY <1>1, BridgeInvariant, PTL
=============================================================================
