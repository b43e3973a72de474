----------------------------- MODULE V4l2Bridge -----------------------------
(***************************************************************************)
(* v4l2_single_online_test: the online pipeline behind a V4L2 device.  A   *)
(* kernel module passes the requests of a V4L2 client on through a netlink *)
(* socket, one START message at a time, and waits for the FINISH message.  *)
(* The main thread serves them: first in the one order it knows, then, once*)
(* the stream is on, in any order.                                         *)
(*                                                                         *)
(* Output buffers go round cpp_origin_list - testThreadFunc - CPP -        *)
(* cpp_done_list - v4l2_dqbuf_list - the client (v4l2_qbuf_list).  Images  *)
(* and frame infos are counted: which of them meet is OnlinePipeline's     *)
(* subject, here it matters whether there are any.                         *)
(***************************************************************************)
EXTENDS Integers, SequencesExt

CONSTANTS MaxCount,   \* most output buffers the client asks for
          NumVi, NumInfo,  \* MAX_BUFFER_NUM image and frame-info buffers
          MaxInfos    \* bound on the length of isp_out_list

ASSUME BridgeAssumption ==
    MaxCount \in Nat /\ NumVi \in Nat /\ NumInfo \in Nat /\ MaxInfos \in Nat

Numbered == {"REQBUFS", "QBUF"}   \* with a count or a buffer's index
Plain == {"S_FMT", "QUERYBUF", "STREAMON", "POLL", "DQBUF", "STREAMOFF", "CLOSE"}
Messages == [seq : Numbered, n : 0 .. MaxCount] \cup [seq : Plain, n : {0}]
None == [seq |-> "none", n |-> 0]

VARIABLES
    main,         \* what the main thread does next
    msg, asked,   \* a message not yet received; the kernel waits for an answer
    heard,        \* the sign of ret: the last receive of the loop got a message
    req_count, left,  \* buffers asked for; rounds left of the loop that counts them
    allocated,    \* output buffers there are: buffer_pool_alloc_one may fail
    streamOnFlag,
    lists,        \* the lists and pools: "none", "live" or "freed"
    proc, hand, threadRunning,  \* testThreadFunc and the buffer it posts
    frames, infos,    \* lengths of vi_out_list and isp_out_list
    cpp_origin_list, cpp_done_list, v4l2_dqbuf_list, v4l2_qbuf_list,
    signal,       \* a push to cpp_done_list whose signal is still to come
    viOn, ispOn, cppOn,
    viQueue, infoQueue, cppInputs, cppJobs, \* what the libraries hold
    lostVi, lostInfo  \* history: buffers whose frame came before the flag, or whose
                      \* post was refused for want of an output buffer

sock    == <<msg, asked, heard>>
counts  == <<req_count, left, allocated>>
thread  == <<proc, hand, threadRunning>>
heads   == <<frames, infos>>
outs    == <<cpp_origin_list, cpp_done_list, v4l2_dqbuf_list, v4l2_qbuf_list>>
units   == <<viOn, ispOn, cppOn>>
held    == <<viQueue, infoQueue, cppInputs, cppJobs>>
lost    == <<lostVi, lostInfo>>
stream  == <<streamOnFlag, lists, thread, heads, outs, signal, units, held, lost>>
vars    == <<main, sock, counts, stream>>

Init ==
    /\ main = "set_fmt"
    /\ msg = None /\ asked = FALSE /\ heard = FALSE
    /\ req_count = 0 /\ left = 0 /\ allocated = 0
    /\ streamOnFlag = 0 /\ lists = "none"
    /\ proc = "off" /\ hand = 0 /\ threadRunning = 0
    /\ frames = 0 /\ infos = 0
    /\ cpp_origin_list = <<>> /\ cpp_done_list = <<>>
    /\ v4l2_dqbuf_list = <<>> /\ v4l2_qbuf_list = <<>>
    /\ signal = FALSE
    /\ viOn = FALSE /\ ispOn = FALSE /\ cppOn = FALSE
    /\ viQueue = 0 /\ infoQueue = 0 /\ cppInputs = 0 /\ cppJobs = <<>>
    /\ lostVi = 0 /\ lostInfo = 0

-----------------------------------------------------------------------------
(* The socket. *)

(* The kernel module asks when it has had its answer; the client may ask anything. *)
KernelAsks ==
    /\ main \notin {"closed", "aborted"}
    /\ ~asked /\ msg = None
    /\ asked' = TRUE /\ msg' \in Messages
    /\ UNCHANGED <<main, heard, counts, stream>>

(* netlink_recv while the stream is off: the message that is needed. *)
Receive(seq) == msg.seq = seq /\ msg' = None /\ heard' = heard

(* Another message, or none before the timeout. *)
ReceiveFails(seq) ==
    /\ msg.seq # seq
    /\ msg' = None
    /\ UNCHANGED <<heard, asked>>

(* netlink_send of the FINISH message. *)
Answer == asked' = FALSE

-----------------------------------------------------------------------------
(* Set-up, in the order the kernel has to ask.  A failure goes to the label that takes
   down what has been set up. *)

SetFmt ==
    /\ main = "set_fmt" /\ Receive("S_FMT")
    /\ \/ main' = "req_bufs" /\ Answer
       \/ main' = "aborted" /\ asked' = asked  \* the sensor does not open
    /\ UNCHANGED <<counts, stream>>

SetFmtFails ==
    /\ main = "set_fmt" /\ ReceiveFails("S_FMT")
    /\ main' = "bye"
    /\ UNCHANGED <<counts, stream>>

(* test_buffer_init creates the lists. *)
ReqBufs ==
    /\ main = "req_bufs" /\ Receive("REQBUFS") /\ Answer
    /\ lists' = "live"
    /\ req_count' = msg.n /\ left' = msg.n /\ allocated' = 0
    /\ main' = IF msg.n = 0 THEN "proc_init" ELSE "query_buf"
    /\ UNCHANGED <<streamOnFlag, thread, heads, outs, signal, units, held, lost>>

ReqBufsFails ==
    /\ main = "req_bufs" /\ ReceiveFails("REQBUFS")
    /\ main' = "units"
    /\ UNCHANGED <<counts, stream>>

(* An output buffer is allocated, or it is not: the answer is the same. *)
QueryBuf ==
    /\ main = "query_buf" /\ Receive("QUERYBUF") /\ Answer
    /\ left' = left - 1
    /\ allocated' \in {allocated, allocated + 1}
    /\ main' = IF left = 1 THEN "proc_init" ELSE "query_buf"
    /\ UNCHANGED <<req_count, stream>>

QueryBufFails ==
    /\ main = "query_buf" /\ ReceiveFails("QUERYBUF")
    /\ main' = "free"
    /\ UNCHANGED <<counts, stream>>

(* ProcThreadInit; the thread is taken to have started when it returns. *)
ProcThreadInit ==
    /\ main = "proc_init"
    /\ proc' = "wait" /\ threadRunning' = 1
    /\ left' = req_count
    /\ main' = IF req_count = 0 THEN "prepare" ELSE "qbuf"
    /\ UNCHANGED <<sock, req_count, allocated, streamOnFlag, lists, hand, heads, outs, signal, units, held, lost>>

QbufFirst ==
    /\ main = "qbuf" /\ Receive("QBUF") /\ Answer
    /\ left' = left - 1
    /\ main' = IF left = 1 THEN "prepare" ELSE "qbuf"
    /\ UNCHANGED <<req_count, allocated, stream>>

QbufFirstFails ==
    /\ main = "qbuf" /\ ReceiveFails("QBUF")
    /\ main' = "free"
    /\ UNCHANGED <<counts, stream>>

(* The client's count of buffers is queued: the pool's, then, if there are fewer, NULL,
   which the list without repeats takes once. *)
TestBufferPrepare ==
    LET given == [i \in 1 .. allocated |-> i] IN
    /\ main = "prepare" /\ main' = "stream_on"
    /\ viQueue' = NumVi /\ infoQueue' = NumInfo
    /\ cpp_origin_list' = IF allocated < req_count THEN Append(given, 0) ELSE given
    /\ UNCHANGED <<sock, counts, streamOnFlag, lists, thread, heads, signal, units>>
    /\ UNCHANGED <<cpp_done_list, v4l2_dqbuf_list, v4l2_qbuf_list, cppInputs, cppJobs, lost>>

(* The units are on before the flag is up. *)
StreamOn ==
    /\ main = "stream_on" /\ Receive("STREAMON") /\ main' = "raise"
    /\ cppOn' = TRUE /\ viOn' = TRUE /\ ispOn' = TRUE
    /\ UNCHANGED <<asked, counts, streamOnFlag, lists, thread, heads, outs, signal, held, lost>>

StreamOnFails ==
    /\ main = "stream_on" /\ ReceiveFails("STREAMON")
    /\ main' = "reset"
    /\ UNCHANGED <<counts, stream>>

RaiseFlag ==
    /\ main = "raise" /\ main' = "loop"
    /\ streamOnFlag' = 1 /\ Answer
    /\ UNCHANGED <<msg, heard, counts, lists, thread, heads, outs, signal, units, held, lost>>

-----------------------------------------------------------------------------
(* The loop: any message is received, and no answer fails. *)

Serve(seq) ==
    /\ main = "loop" /\ msg.seq = seq
    /\ msg' = None /\ heard' = TRUE

(* A buffer that is done goes to the head of the queue the client takes from. *)
PopDone ==
    /\ v4l2_dqbuf_list' = Append(v4l2_dqbuf_list, Head(cpp_done_list))
    /\ cpp_done_list' = Tail(cpp_done_list)
    /\ main' = "loop" /\ Answer
    /\ UNCHANGED <<cpp_origin_list, v4l2_qbuf_list>>

(* There is nothing to wait for when a buffer is ready or the client has them all. *)
PollNow ==
    /\ Serve("POLL") /\ main' = "loop" /\ Answer
    /\ v4l2_dqbuf_list # <<>> \/ Len(v4l2_qbuf_list) = req_count
    /\ UNCHANGED <<counts, stream>>

PollWaits ==
    /\ Serve("POLL") /\ main' = "pop" /\ asked' = asked
    /\ v4l2_dqbuf_list = <<>> /\ Len(v4l2_qbuf_list) # req_count
    /\ UNCHANGED <<counts, stream>>

(* List_Pop_With_Cond: it looks once, sleeps once and then takes what there is. *)
PopReady ==
    /\ main = "pop" /\ cpp_done_list # <<>>
    /\ PopDone
    /\ UNCHANGED <<msg, heard, counts, streamOnFlag, lists, thread, heads, signal, units, held, lost>>

PopSleep ==
    /\ main = "pop" /\ cpp_done_list = <<>>
    /\ main' = "asleep"
    /\ UNCHANGED <<sock, counts, stream>>

PopWoken ==
    /\ main = "woken"
    /\ \/ cpp_done_list # <<>> /\ PopDone
       \/ cpp_done_list = <<>> /\ main' = "stop" /\ UNCHANGED <<asked, outs>>
    /\ UNCHANGED <<msg, heard, counts, streamOnFlag, lists, thread, heads, signal, units, held, lost>>

Dqbuf ==
    /\ Serve("DQBUF")
    /\ \/ /\ v4l2_dqbuf_list # <<>> /\ main' = "loop" /\ Answer
          /\ v4l2_qbuf_list' = Append(v4l2_qbuf_list, Head(v4l2_dqbuf_list))
          /\ v4l2_dqbuf_list' = Tail(v4l2_dqbuf_list)
       \/ v4l2_dqbuf_list = <<>> /\ main' = "stop" /\ UNCHANGED <<asked, outs>>
    /\ UNCHANGED <<cpp_origin_list, cpp_done_list>>
    /\ UNCHANGED <<counts, streamOnFlag, lists, thread, heads, signal, units, held, lost>>

(* pop_item_return finds the buffer by its index. *)
(* Mutant: it is left in the list. *)
QbufStays ==
    /\ Serve("QBUF")
    /\ \/ /\ msg.n \in Range(v4l2_qbuf_list) /\ main' = "loop" /\ Answer
          /\ v4l2_qbuf_list' = v4l2_qbuf_list
          /\ cpp_origin_list' = Append(cpp_origin_list, msg.n)
       \/ msg.n \notin Range(v4l2_qbuf_list) /\ main' = "stop" /\ UNCHANGED <<asked, outs>>
    /\ UNCHANGED <<cpp_done_list, v4l2_dqbuf_list>>
    /\ UNCHANGED <<counts, streamOnFlag, lists, thread, heads, signal, units, held, lost>>

Qbuf ==
    /\ Serve("QBUF")
    /\ \/ /\ main' = "loop" /\ Answer
          /\ \E i \in DOMAIN v4l2_qbuf_list :
                v4l2_qbuf_list[i] = msg.n /\ v4l2_qbuf_list' = RemoveAt(v4l2_qbuf_list, i)
          /\ cpp_origin_list' = Append(cpp_origin_list, msg.n)
       \/ msg.n \notin Range(v4l2_qbuf_list) /\ main' = "stop" /\ UNCHANGED <<asked, outs>>
    /\ UNCHANGED <<cpp_done_list, v4l2_dqbuf_list>>
    /\ UNCHANGED <<counts, streamOnFlag, lists, thread, heads, signal, units, held, lost>>

(* START_STREAMOFF ends the loop, and so does a message it does not know. *)
LeaveLoop ==
    /\ \E seq \in {"STREAMOFF", "CLOSE", "S_FMT", "REQBUFS", "QUERYBUF", "STREAMON"} : Serve(seq)
    /\ main' = "stop" /\ asked' = asked
    /\ UNCHANGED <<counts, stream>>

LoopTimeout ==
    /\ main = "loop" /\ msg = None
    /\ heard' = FALSE /\ main' = "stop"
    /\ UNCHANGED <<msg, asked, counts, stream>>

-----------------------------------------------------------------------------
(* The way down. *)

ClearFlag ==
    /\ main = "stop" /\ main' = "vi_off" /\ streamOnFlag' = 0
    /\ UNCHANGED <<sock, counts, lists, thread, heads, outs, signal, units, held, lost>>

ViStreamOff ==
    /\ main = "vi_off" /\ main' = "isp_off"
    /\ viOn' = FALSE /\ viQueue' = 0
    /\ UNCHANGED <<sock, counts, streamOnFlag, lists, thread, heads, outs, signal>>
    /\ UNCHANGED <<ispOn, cppOn, infoQueue, cppInputs, cppJobs, lost>>

IspStreamOff ==
    /\ main = "isp_off" /\ main' = "cpp_stop"
    /\ ispOn' = FALSE /\ infoQueue' = 0
    /\ UNCHANGED <<sock, counts, streamOnFlag, lists, thread, heads, outs, signal>>
    /\ UNCHANGED <<viOn, cppOn, viQueue, cppInputs, cppJobs, lost>>

(* cpp_stop lets a callback finish and gives up what is posted. *)
CppStop ==
    /\ main = "cpp_stop" /\ ~signal
    /\ main' = IF heard THEN "tell" ELSE "reset"
    /\ cppOn' = FALSE /\ cppInputs' = 0 /\ cppJobs' = <<>>
    /\ UNCHANGED <<sock, counts, streamOnFlag, lists, thread, heads, outs, signal>>
    /\ UNCHANGED <<viOn, ispOn, viQueue, infoQueue, lost>>

(* FINISH_STREAMOFF, also when it was another request that failed. *)
TellOff ==
    /\ main = "tell" /\ main' = "close" /\ Answer
    /\ UNCHANGED <<msg, heard, counts, stream>>

AwaitClose ==
    /\ main = "close" /\ main' = "reset"
    /\ (Receive("CLOSE") /\ asked' = asked) \/ ReceiveFails("CLOSE")
    /\ UNCHANGED <<counts, stream>>

(* test_buffer_reset changes the pools only; ProcThreadDeinit lowers its flag. *)
ProcThreadDeinit ==
    /\ main = "reset" /\ main' = "join" /\ threadRunning' = 0
    /\ UNCHANGED <<sock, counts, streamOnFlag, lists, proc, hand, heads, outs, signal, units, held, lost>>

(* Mutant: the thread is told, but not waited for. *)
ProcThreadNotJoined ==
    /\ main = "join"
    /\ main' = "free"
    /\ UNCHANGED <<sock, counts, stream>>

ProcThreadJoin ==
    /\ main = "join" /\ proc = "gone"
    /\ main' = "free"
    /\ UNCHANGED <<sock, counts, stream>>

TestBufferDeInit ==
    /\ main = "free" /\ main' = "units" /\ lists' = "freed"
    /\ frames' = 0 /\ infos' = 0
    /\ cpp_origin_list' = <<>> /\ cpp_done_list' = <<>>
    /\ v4l2_dqbuf_list' = <<>> /\ v4l2_qbuf_list' = <<>>
    /\ UNCHANGED <<sock, counts, streamOnFlag, thread, signal, units, held, lost>>

UnitsDeInit ==
    /\ main = "units" /\ main' = "bye"
    /\ UNCHANGED <<sock, counts, stream>>

(* FINISH_CLOSE, and the socket is closed with whatever is left in it. *)
Bye ==
    /\ main = "bye" /\ main' = "closed"
    /\ msg' = None /\ Answer
    /\ UNCHANGED <<heard, counts, stream>>

Main ==
    \/ SetFmt \/ SetFmtFails \/ ReqBufs \/ ReqBufsFails \/ QueryBuf \/ QueryBufFails
    \/ ProcThreadInit \/ QbufFirst \/ QbufFirstFails \/ TestBufferPrepare
    \/ StreamOn \/ StreamOnFails \/ RaiseFlag
    \/ PollNow \/ PollWaits \/ PopReady \/ PopSleep \/ PopWoken
    \/ Dqbuf \/ Qbuf \/ LeaveLoop \/ LoopTimeout
    \/ ClearFlag \/ ViStreamOff \/ IspStreamOff \/ CppStop \/ TellOff \/ AwaitClose
    \/ ProcThreadDeinit \/ ProcThreadJoin \/ TestBufferDeInit \/ UnitsDeInit \/ Bye

-----------------------------------------------------------------------------
(* testThreadFunc: its wait is timed, so it looks again without a post. *)

(* Mutant: the lists are not looked at first. *)
ProcTakeUnchecked ==
    /\ proc = "wait" /\ lists = "live" /\ frames > 0
    /\ proc' = "post" /\ frames' = frames - 1
    /\ hand' = IF cpp_origin_list = <<>> THEN 0 ELSE Head(cpp_origin_list)
    /\ cpp_origin_list' = IF cpp_origin_list = <<>> THEN <<>> ELSE Tail(cpp_origin_list)
    /\ UNCHANGED <<main, sock, counts, streamOnFlag, lists, threadRunning, infos, signal>>
    /\ UNCHANGED <<cpp_done_list, v4l2_dqbuf_list, v4l2_qbuf_list, units, held, lost>>

ProcTake ==
    /\ proc = "wait" /\ lists = "live"
    /\ cpp_origin_list # <<>> /\ infos > 0 /\ frames > 0
    /\ proc' = "post" /\ frames' = frames - 1
    /\ hand' = Head(cpp_origin_list) /\ cpp_origin_list' = Tail(cpp_origin_list)
    /\ UNCHANGED <<main, sock, counts, streamOnFlag, lists, threadRunning, infos, signal>>
    /\ UNCHANGED <<cpp_done_list, v4l2_dqbuf_list, v4l2_qbuf_list, units, held, lost>>

(* The post, which a stopped CPP refuses, and cpp_post_buffer when there is no output
   buffer; the info stays if it is of a later frame. *)
ProcPost ==
    /\ proc = "post"
    /\ proc' = IF threadRunning = 1 THEN "wait" ELSE "gone"
    /\ hand' = 0
    /\ infos' \in {infos - 1, infos}
    /\ IF cppOn /\ hand # 0
       THEN cppJobs' = Append(cppJobs, hand) /\ cppInputs' = cppInputs + 1
       ELSE UNCHANGED <<cppJobs, cppInputs>>
    /\ lostVi' = IF hand = 0 THEN lostVi + 1 ELSE lostVi
    /\ UNCHANGED <<main, sock, counts, streamOnFlag, lists, threadRunning, frames, outs, signal>>
    /\ UNCHANGED <<units, viQueue, infoQueue, lostInfo>>

ProcLeave ==
    /\ proc = "wait" /\ threadRunning = 0
    /\ proc' = "gone"
    /\ UNCHANGED <<main, sock, counts, streamOnFlag, lists, hand, threadRunning, heads, outs>>
    /\ UNCHANGED <<signal, units, held, lost>>

Proc == ProcTake \/ ProcPost \/ ProcLeave

-----------------------------------------------------------------------------
(* The callbacks. *)

(* vi_buffer_callback: a frame that comes before the flag is lost, with its buffer. *)
ViCallback ==
    /\ viOn /\ viQueue > 0
    /\ viQueue' = viQueue - 1
    /\ frames' = IF streamOnFlag = 1 THEN frames + 1 ELSE frames
    /\ lostVi' = IF main = "raise" THEN lostVi + 1 ELSE lostVi
    /\ UNCHANGED <<main, sock, counts, streamOnFlag, lists, thread, infos, outs, signal, units>>
    /\ UNCHANGED <<infoQueue, cppInputs, cppJobs, lostInfo>>

(* isp_buffer_callback queues its buffer again, unless the flag is down. *)
IspCallback ==
    /\ ispOn /\ infoQueue > 0
    /\ IF streamOnFlag = 1
       THEN infos < MaxInfos /\ infos' = infos + 1 /\ UNCHANGED infoQueue
       ELSE infoQueue' = infoQueue - 1 /\ UNCHANGED infos
    /\ lostInfo' = IF main = "raise" THEN lostInfo + 1 ELSE lostInfo
    /\ UNCHANGED <<main, sock, counts, streamOnFlag, lists, thread, frames, outs, signal, units>>
    /\ UNCHANGED <<viQueue, cppInputs, cppJobs, lostVi>>

(* cpp_buffer_callback of channel -1: the image goes back to VI. *)
(* Mutant: it does not. *)
CppInputDropped ==
    /\ cppOn /\ cppInputs > 0 /\ ~signal
    /\ cppInputs' = cppInputs - 1
    /\ UNCHANGED <<main, sock, counts, streamOnFlag, lists, thread, heads, outs, signal, units>>
    /\ UNCHANGED <<viQueue, infoQueue, cppJobs, lost>>

CppInputDone ==
    /\ cppOn /\ cppInputs > 0 /\ ~signal
    /\ cppInputs' = cppInputs - 1
    /\ viQueue' = IF streamOnFlag = 1 THEN viQueue + 1 ELSE viQueue
    /\ UNCHANGED <<main, sock, counts, streamOnFlag, lists, thread, heads, outs, signal, units>>
    /\ UNCHANGED <<infoQueue, cppJobs, lost>>

(* Of channel 0: List_Push_With_Cond unlocks the list before it signals. *)
CppOutputDone ==
    /\ cppOn /\ cppJobs # <<>> /\ ~signal
    /\ cppJobs' = Tail(cppJobs)
    /\ IF streamOnFlag = 1
       THEN cpp_done_list' = Append(cpp_done_list, Head(cppJobs)) /\ signal' = TRUE
       ELSE UNCHANGED <<cpp_done_list, signal>>
    /\ UNCHANGED <<main, sock, counts, streamOnFlag, lists, thread, heads, units>>
    /\ UNCHANGED <<cpp_origin_list, v4l2_dqbuf_list, v4l2_qbuf_list>>
    /\ UNCHANGED <<viQueue, infoQueue, cppInputs, lost>>

CppSignal ==
    /\ signal /\ signal' = FALSE
    /\ main' = IF main = "asleep" THEN "woken" ELSE main
    /\ UNCHANGED <<sock, counts, streamOnFlag, lists, thread, heads, outs, units, held, lost>>

-----------------------------------------------------------------------------
Next ==
    \/ KernelAsks \/ Main \/ Proc
    \/ ViCallback \/ IspCallback \/ CppInputDone \/ CppOutputDone \/ CppSignal

Spec == Init /\ [][Next]_vars

(* Threads are scheduled, the sensor goes on, and the CPP finishes what it was given;
   nothing is asked of the client. *)
Fairness ==
    /\ WF_vars(Main) /\ WF_vars(Proc)
    /\ WF_vars(ViCallback) /\ WF_vars(IspCallback)
    /\ WF_vars(CppInputDone) /\ WF_vars(CppOutputDone) /\ WF_vars(CppSignal)

LiveSpec == Spec /\ Fairness

-----------------------------------------------------------------------------
Streaming == {"loop", "pop", "asleep", "woken"}
Bufs == 1 .. MaxCount   \* output buffers; 0 is NULL

(* Every variable has its type; the thread has an output buffer when it posts, unless one
   could not be allocated, and the images and infos are no more than were queued. *)
TypeOK ==
    /\ main \in Streaming \cup
         {"set_fmt", "req_bufs", "query_buf", "proc_init", "qbuf", "prepare", "stream_on",
          "raise", "stop", "vi_off", "isp_off", "cpp_stop", "tell", "close", "reset", "join",
          "free", "units", "bye", "closed", "aborted"}
    /\ msg \in Messages \cup {None} /\ asked \in BOOLEAN /\ heard \in BOOLEAN
    /\ req_count \in 0 .. MaxCount /\ left \in 0 .. req_count /\ allocated \in 0 .. req_count
    /\ streamOnFlag \in {0, 1} /\ lists \in {"none", "live", "freed"}
    /\ proc \in {"off", "wait", "post", "gone"} /\ threadRunning \in {0, 1}
    /\ hand \in 0 .. MaxCount /\ (hand # 0 => proc = "post")
    /\ proc = "post" /\ hand = 0 => allocated < req_count
    /\ frames \in 0 .. NumVi /\ infos \in 0 .. MaxInfos
    /\ cpp_origin_list \in Seq(Bufs \cup {0}) /\ cpp_done_list \in Seq(Bufs)
    /\ v4l2_dqbuf_list \in Seq(Bufs) /\ v4l2_qbuf_list \in Seq(Bufs)
    /\ signal \in BOOLEAN /\ viOn \in BOOLEAN /\ ispOn \in BOOLEAN /\ cppOn \in BOOLEAN
    /\ viQueue \in 0 .. NumVi /\ infoQueue \in 0 .. NumInfo
    /\ cppInputs \in 0 .. NumVi /\ cppJobs \in Seq(Bufs)
    /\ lostVi \in 0 .. NumVi /\ lostInfo \in 0 .. NumInfo

(* While the stream is on every output buffer there is is in one place and once: none is
   lost, and none is filled while the client has it.  Besides them there is at most one
   NULL, until the thread has posted it. *)
BufferHeldOnce ==
    main \in Streaming =>
        LET all == cpp_origin_list \o cppJobs \o cpp_done_list
                     \o v4l2_dqbuf_list \o v4l2_qbuf_list
                     \o (IF proc = "post" THEN <<hand>> ELSE <<>>)
        IN  /\ Range(all) \ {0} = 1 .. allocated
            /\ Len(all) = allocated + (IF 0 \in Range(all) THEN 1 ELSE 0)

(* The lists outlive the thread that uses them, whichever label the main thread leaves
   by: but for the loop of the first START_QBUFs, whose label skips ProcThreadDeinit. *)
ListsOutliveThread ==
    lists = "freed" /\ left = 0 => proc = "gone"

(* The main thread waits for a picture and there is nothing left to make one of: the
   images or the frame infos are lost, or the client has all the output buffers there
   are, which are fewer than it was told, so that the poll did not notice. *)
Starved ==
    /\ main \in {"pop", "asleep"} /\ cppJobs = <<>> /\ cpp_done_list = <<>>
    /\ \/ lostVi = NumVi \/ lostInfo = NumInfo
       \/ allocated < req_count /\ Len(v4l2_qbuf_list) = allocated

(* The client is never left waiting, whatever it asks for and when: its request is
   answered, or the bridge gives the device up (FINISH_STREAMOFF, FINISH_CLOSE), which
   ends any wait.  The exceptions are a sensor that does not open, and the polls that
   starve. *)
RequestAnswered == asked ~> (~asked \/ main = "aborted" \/ Starved)

(* "must success", the comment on List_Pop_With_Cond: woken, the main thread finds the
   buffer it waited for. *)
WakeUpFindsBuffer == main = "woken" => cpp_done_list # <<>>
=============================================================================
