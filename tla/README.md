# The k1x-cam demo pipelines in TLA+

The repository holds a camera test program (`demo/`) and the sensor layer it uses
(`sensors/`). The program connects three hardware units of the SoC, each driven by a
binary library: VI (video input), ISP (image signal processor, which reports one
record of statistics and settings per frame) and CPP (post-processing). Its own work
is to move buffers between them from library callbacks, its own threads and the main
thread. That is what goes wrong in such a program, and what these modules are about.

## Inventory

| component | state | operations | hard behaviour | correct when |
|---|---|---|---|---|
| single online pipeline (`online_pipeline_test.c`, `viisp_common.c`, `cpp_common.c`) | three lists, three pools, buffers queued to VI, ISP and CPP, `streamOnFlags`, `threadRunning` | set-up, start, stop, tear-down; the callbacks of VI, ISP, CPP and raw VI; `testThreadFunc` | five activities without a common lock; a flag read once per callback; lists that survive a stop; tear-down beside callbacks | every buffer has one holder; none is lost while streaming; frames keep their order; a post is complete; nothing is used after it is freed; a run ends |
| raw dump for the tuning server (same file) | `g_rawdump_info`: start flag, three lists, pool | `ispStartDumpRaw`, `ispEndDumpRaw`, `getRawDump` | a condition wait without predicate, a flag lowered by two threads | a dump returns fresh images and then leaves nothing behind |
| list (`utils/cam_list.c`) | doubly linked nodes, `lastFound` | push, pop, insert, erase, find, next, previous, clear, destroy, waiting pop | a cached node across calls; operations with and without the lock | it is a sequence of distinct items |
| processing thread and condition (`utils/condition.c`, `ProcThreadInit` and `ProcThreadDeinit` of every demo file) | `done`, `threadRunning` | post, wait, timed wait; start, quit, join | posts coalesce; wait under `if`; the thread sets its own running flag | a post is not lost; the thread can be told to quit |
| buffer pool (`include/bufferPool.c`) and dma-buf allocator (`include/dmabufheapAllocator.c`) | blocks, buffers, `buf_list`; `g_bufferList` | create, alloc, alloc_one, get, put, free, destroy | partial failure; two threads over one registry; descriptors and addresses that come back; an uninitialised size | the registry names what is open; no block is shared, lent twice or leaked |
| slice capture (`slice_capture_test.c`) | seven lists, `flag_tirg`, two threads | raw frames dumped, read again through VI and ISP, and posted to the CPP | a flag passed between callback and thread; a look under the lock and an erase outside it; untimed waits | a raw buffer is read alone, frame and info match, no record lost or freed twice |
| dual capture, dual online, VI/ISP only, CPP only, CCIC | variants of the above | | the same, with shared state between two pipelines | |
| ISP/VI set-up (`viisp_common.c`) | library session | construct, register, attributes, init | early returns without roll-back | calls in the order the library asks for |
| sensor session (`sensor_common.c`, `cam_sensors_module.c`) | module, sensor, VCM and flash handles | detect, init, open, config, stream, close | results that are not looked at | nothing streams that is not configured |
| sensor drivers (`sensors/sensor/*.c`) | registers as computed, as last fetched and as the sensor has them | configure, start, stop; frame rate, exposure, gain, changed registers | 32-bit fixed point with two roundings; only changes are handed on | what was handed on adds up to the registers; an exposure fits into its frame |
| VCM, flash, OTP, i2c | registers | ioctl sequences | | |
| case dispatch and configuration (`main.c`, `config.c`) | configuration record | parse, check, choose a case | combinations without a case | one case per valid configuration |
| V4L2 bridge (`v4l2_test/v4l2_single_online.c`) | the online pipeline, two more lists of output buffers, the socket | netlink requests of a kernel module | requests in any order; a waiting pop; labels that undo part of the set-up | each buffer is in one place; every request is answered |
| GStreamer API | the online and slice pipelines again | start, stop, user callback | as above | |
| GPU render, cJSON, sstr, libdmabufheap, tables, packaging | | | vendored, generated or drawing | not modelled |

Components meet in three ways: direct calls (main thread to libraries), callbacks
(libraries to the program) and the lists with their conditions (callbacks to threads).

## Modules

* **`OnlinePipeline`** - `single_pipeline_online_test`. `main` is the main thread's next
  step, in the order of lines 1512-1642; `proc` is `testThreadFunc` between two shared
  accesses (wait, check, pop, match, pop, post, erase, loop); `viCb`, `ispCb`, `cppCb`
  are the callbacks, with a step at the entry (the flag is read) and one for the body.
  `viPool`, `cppPool`, `rawPool` are the pools, `vi_out_list`, `isp_out_list`,
  `cpp_out_list` the lists of those names; `viQueue`, `infoQueue`, `cppIn`, `cppOut` are
  what the libraries hold. `viLost` collects the buffers to which nothing refers any
  more: the code has no such variable, it is the complement of the others.
* **`RawDump`** - the raw dump: `req` is the server's thread inside
  `ispStartDumpRaw`/`ispEndDumpRaw`, `rawCb` the raw callback with `getRawDump`, `ispCb`
  the part of `isp_buffer_callback` behind `if (start)`. The thread's later call of
  `pthread_cond_wait` releases `rawdumpListLock` in one step with going to sleep.
* **`CamList`** - the list, node by node, with `lastFound` and with freed nodes that
  malloc hands out again; **`ItemSeq`** - what its callers rely on, the abstract
  specification it implements through the mapping `ItemsInOrder`.
* **`Condition`** - `condition.c`, a step where the mutex is taken or released; **`ProcThread`** -
  its user, `testThreadFunc` from `pthread_create` to the join, with callbacks that push
  and then post and with what the thread does to an item reduced to taking it;
  **`AutoResetEvent`** - what users take a condition for, the abstract specification that
  `ProcThread` implements (`posted` is `done`, `waiting` is "inside the wait").
  `ProcThread` extends `Condition`; the other modules use the event.
* **`BufferPool`** - the pools and the allocator. `open` and `mapped` are the kernel's,
  `g_bufferList` is the registry; `pc`, `i`, `own` are each thread's place in
  `buffer_pool_continous_alloc`, `buffer_pool_alloc_one` or `buffer_pool_free`. Under
  `g_mutex` happens what is one step (`Register`, `Find`); everything else interleaves.
  A `size` that was never written is any of `Garbage`, a block never written is `Junk`, and what
  is read in it, or beyond `mem_block`, is any descriptor. `broken` remembers that an allocation
  failed or that `alloc_one` began with garbage.
* **`SliceCapture`** - the capture half of `slice_capture_test.c`. The seven lists have
  their names; `rawThread` and `cppThread` are the two threads between two accesses to a
  shared list, `rawCb`, `ispCb`, `viCb` the callbacks. `capture` is what VI works on.
  `raced` remembers which of the four races named below have happened.
* **`SensorDriver`** - `ov13b10_sensor.c` between the main thread and auto exposure. `regs`
  and `prev` are `sensorRegs[0]` and `[1]`, one field for the bytes of one quantity;
  `hw` is what the sensor has; a device may refuse its clock and any register. `U32` is the 32-bit arithmetic of `LinesOf` and `TimeOf`.
  All operations hold `apiLock` and are one step each.
* **`V4l2Bridge`** - `v4l2_single_online_test`. `main` is the main thread's place, in the
  set-up, the loop or behind one of the labels; `msg` and `asked` are the socket and the
  kernel's wait for the answer. Output buffers go round the four lists of the code, with a
  NULL where one could not be allocated (`allocated`); images and frame infos are counted
  only.
* **`..._proofs`** - the theorems of the module they are named after. Those about lists begin
  with the lemmas they need of sequences: what taking out, appending and inserting do to the
  elements and their order. **`MC...`** - the instances for TLC.

The modules compose as the code does: `ProcThread` on `Condition`; `OnlinePipeline`,
`SliceCapture` and `V4l2Bridge` on lists that behave as `ItemSeq` says and, for the last two,
on conditions that behave as `AutoResetEvent` says. Which buffers a pool hands out is
`BufferPool`'s subject, who holds them the others'.

What is taken from the libraries, since it is not in the repository: a stop call
returns after the callback in progress, and gives up queued buffers; a stopped CPP
refuses a post and has copied the frame info of an accepted one; a de-init call ends all
callbacks; VI fills its buffers in any order (`SliceCapture`: in the order queued) and
drops a frame when none is queued; the ISP may be one frame ahead of VI; auto exposure
runs between the ISP's stream on and stream off and fetches registers once exposure and
gain are set. Waits are taken without spurious wake-ups.

Taken together into one step, because nothing can observe the difference: reading a
list and popping it when only one thread pops; the push to `ispInfoList` and the erase
from `isp_done_list` of one record; the autorun post and the clearing of the flag in one
callback; in `SliceCapture` a post and the access before it.

## Runs

| run | instance | shows |
|---|---|---|
| `online_auto_run` | 2 VI buffers, 2 output buffers, 2 info buffers, 4 frames, ended by frame 3, raw frame at 2 | the safety properties of the first session, from set-up to tear-down |
| `online_interactive` | 1 output buffer, 1 frame per session, 2 sessions, quit at any prompt | what survives a stop: no loss while streaming, shutdown order |
| `online_auto_run_live` | 1 output buffer, 3 frames, under fairness | the test frame ends the program; a waiting frame is taken |
| `raw_dump` | 2 dumps of 1 image, 4 frames, 2 info records | fresh images, all but one without info counted, pool freed after VI is done, the dump returns |
| `raw_dump_info` | 1 dump | expected violation: see Findings |
| `cam_list` | 3 items, 3 nodes, any sequence of calls | the list is a sequence; no pointer is left to a freed node |
| `buffer_pool` | a pool of the main thread (V4L2's, by `alloc_one`) and one of the tuning server, 2 slots each, 2 descriptors, 2 addresses | the registry is exact whatever fails; without failures no block is shared, lent twice or leaked |
| `proc_thread` | main thread and two callbacks posting, 4 items, under fairness | no lost post; the condition is the event; items are taken; the thread quits |
| `slice_capture` | 2 raw, 2 out, 1 CPP buffer, 2 info records, 2 raw and 3 ISP frames | outside the named races the capture is right; in them, which property goes |
| `sensor_driver` | 2 modes, word and factors scaled down, exposures that round and that overflow | registers add up, fit and hold the rate |
| `v4l2_bridge` | 0 to 2 output buffers, any of which may fail to be allocated, 2 images, 1 info, any request at any time, under fairness | buffers in one place, thread joined, requests answered |
| `v4l2_wake` | the same | expected violation: see Findings |

Every property of a passing run has a mutant in `PROJECT.json`, a plausible bug in one
definition, with which TLC finds it violated.

Bounds. Two buffers are the fewest with which one can be at the CPP while another is
filled, and with which one can run out; four frames let a buffer go round twice. Two
sessions are the fewest in which something stale can be met. Three nodes give a list a
head, a middle and a tail, and with three items every node is reused. Two descriptors
and addresses for two pools of two make the kernel hand each out again and the heap run
out. Two info records for three ISP frames make the callback recycle one, two raw
buffers make it take one back. Two output buffers let one be with the client while the
other is pushed late, which `v4l2_wake` needs. In `sensor_driver` a word is 8192
and the factor 1000 is 10: one exposure overflows, some round down by a line. `MaxFrame`,
`MaxIspFrame`, `MaxSessions`, `MaxDumps`, `MaxItems`, `MaxInfos` bound counters the program
does not bound; when they are reached the library stops delivering, so
`CHECK_DEADLOCK` is off where that or the operator ends everything: an operator who does
nothing, an automatic run whose test frame was dropped, a crashed and a finished program
all stop. `buffer_pool` and `sensor_driver` check deadlock. Symmetry is used in safety
runs only.

Fairness. The operating system schedules the main thread between keys, every processing
thread (a timed wait ends without a post; an untimed one is fair only in that a
post wakes it) and every callback that has begun; the CPP finishes what it was given.
Nothing is assumed about keys, about VI and ISP delivering a particular frame, or about
the raw frame of the online pipeline. In `RawDump` and `V4l2Bridge` the sensor goes on
delivering; of the V4L2 client nothing is asked, and a receive that nobody answers
times out, as `NETLINK_TIMEOUT_S` has it.

Restrictions that the code forces.

* `ViBufferExclusive`, `OutBufferAccounted`, `FramesInOrder` and `InfoOutlivesItsFrames` are
  stated for the first session: `test_buffer_reset` leaves the three lists as they are, and in the next session
  a stale entry names a buffer VI owns again.
* `TestFrameEndsRun` begins at the callback of the test frame, since a test frame that VI
  drops or that meets `streamOnFlags = 0` leaves `main` waiting for ever, and asks for a
  thread that has started, since `testThreadFunc` overwrites a `threadRunning` cleared
  before. `QuitReturns` asks for the same: a quit before the thread is first scheduled
  never returns.
* `NoUseAfterFree` excepts the CPP callback of a pipeline quit while it streams:
  `cpp_deInit` comes after `test_buffer_deInit`.
* `DumpIsFresh` speaks of the buffers a dump fills; the number it returns is one less when an
  image found no frame info at all, since the loop passes over its `cnt++`
  (`online_pipeline_test.c:797`).
* `DumpReturns` asks that the flag is up before the frame comes and that no callback of an
  earlier dump is still to lower it, and one image per dump: the callback lowers the
  flag after each image.
* In `CamList`, `Clear` asks for `lastFound = NULL`, which holds at every call in the program
  (the pool was popped empty) and without which the list would follow a freed node.
* `PoolsOwnTheirBlocks`, `LentOnce` and `NothingLeaks` are stated while no allocation has
  failed and `alloc_one` counted up from 0: after a failure `size` is that of an earlier
  filling, and a failed `mmap` leaves the descriptor open; from a garbage `size`
  `buffer_pool_free` runs past `mem_block` (`bufferPool.c:416` has no other bound), which
  `TypeOK` allows to such a pool only. `RegistryExact` holds whatever fails.
* `EveryItemTaken` is stated for a timed wait: with `condition_wait`, which the slice
  capture's threads use, posts coalesce and an item can stay in the list for ever.
* In `SliceCapture` four interleavings break a property, and each property names those that
  break it. *stolen*: the raw callback takes back the oldest raw buffer after the raw
  thread has seen it. *recycled*: the ISP callback frees the record the raw thread is
  about to erase. *overtook*: VI's callback comes before the raw thread has noted the
  capture it triggered; then the thread's store of 0 hides the flag and captures stop,
  and the CPP thread takes another record or none. *early*: VI's callback raises the flag
  before it has emptied the back list. One session only: the pools are not refilled for
  a second `s`.
* `ExposureFits` allows one line: `fps_set` computes the lines again from rounded
  microseconds. `DeliveredIsCurrent` excepts a stream that was started with registers
  the ISP had not fetched, which `stream_on` writes all the same.
* `RequestAnswered` excepts a sensor that does not open (the function returns without an
  answer), a start at which all images or all infos came before `streamOnFlags` was
  up, and a buffer that could not be allocated: `v4l2_single_online.c:1202` does not look, the
  client is told of it, and once the client has all the others, line 1337 lets its poll wait
  for one that never comes. An end of the stream or of the device
  (`FINISH_STREAMOFF`, `FINISH_CLOSE`) ends any wait. `ListsOutliveThread` excepts the loop of the first `START_QBUF`s: its label lies
  behind `ProcThreadDeinit`.

## Findings

* `ispStartDumpRaw` warns `frameId mismatch, use the latest frame's info`
  (`online_pipeline_test.c:793`) and then takes the first element of `isp_done_list`
  (line 794), the oldest. `raw_dump_info` shows a dump that gets the older of two records.
* `v4l2_single_online.c:1338` says of the pop for a client's poll `must success`. The push
  unlocks the list before it signals (`cam_list.c:182-183`) and the pop waits under `if`
  (line 197). In `v4l2_wake` the main thread takes the buffer between unlock and signal,
  the client dequeues it, queues it again and polls; the late signal wakes the main thread on
  an empty list, the pop returns NULL and the stream is torn down.

## Proofs

All are for every value of the constants that satisfies the named assumptions.

`OnlinePipeline_proofs` (`PipelineAssumption`):

* `TypeCorrect` - `Spec => []TypeOK`. `TypeOK` is inductive; its conjunct on `proc.vi`
  says that the thread works on a frame whenever it is past `List_Pop`.
* `ListsOutliveUsers` - `Spec => []NoUseAfterFree`. By `ShutdownInv`, which ties the
  main thread's position to who has stopped: from `joined` on the thread is gone, from
  `viDown` on VI and ISP are silent, and outside a session the CPP is off unless the
  operator quit while streaming. `NoUseAfterFree` alone is not inductive: it says
  nothing of the state in which `test_buffer_deInit` runs.
* `PostsAreComplete` - `Spec => []NoNullPost`. By `TakeInv`: what `ProcCheck` saw stays true,
  because callbacks only lengthen the two lists and tear-down waits for the join
  (`ShutdownInv` again).
* `ViBuffersExclusive` - `Spec => []ViBufferExclusive`. Inductive with `TypeOK`: each step
  takes a buffer from one holder as it gives it to the next.
* `OutBuffersAccounted` - `Spec => []OutBufferAccounted`. By `HolderInv`: in the first session an
  output buffer has one place, and one at least until the flag is lowered. It needs to know
  when the flag can be up and that the CPP is on as long (`FlagInv`), that callbacks pass
  nothing on before (`StartInv`), that the pool is empty from the preparation on (`PoolInv`)
  and that the thread has a buffer only between its pop and its post (`OutInv`).
* `FramesStayInOrder` - `Spec => []FramesInOrder`. By `FrameInv`: thread, list, callback and VI's
  counter hold frame numbers that rise in this order.
* `NoLossWhileStreaming` - `Spec => LossOnlyWhenStopped`, for every session.
* `InfosOutliveTheirFrames` - `Spec => InfoOutlivesItsFrames`. The erase is guarded by the
  thread's own frame only; that no other frame still needs the info is `FrameInv`: whatever is in
  the list or with the callback comes after it.

`BufferPool_proofs` (`PoolAssumption`): `PoolTypeCorrect` and `RegistryStaysExact`, whatever
descriptor a free reads in garbage. The
inductive invariant adds to `RegistryExact` what each thread holds between two steps:
the descriptor and address in `own` are open and mapped, are nobody else's and are not in the
registry. That is what the order "erase, unmap, close" keeps.
`PoolsKeepTheirBlocks`, `BuffersLentOnce` and `FreedPoolsLeakNothing` prove `PoolsOwnTheirBlocks`,
`LentOnce` and `NothingLeaks`, all by `SoundInv`, which holds until an allocation fails: a slot
belongs to its pool from the registration to the search in `buffer_pool_free`; the blocks in
those slots are records of the registry, each in one slot (`BlockInv`); every record is in a
slot and every open descriptor and mapping in a record or with a thread (`LeakInv`); list and
lent buffers together are the filled slots (`ListedInv`).

`ProcThread_proofs` (`ConditionAssumption`, `ProcAssumption`): `NoLostWakeUp` by a lock
invariant (who is inside holds the mutex), and `ConditionImplementsEvent`, that
`ProcThread` implements `AutoResetEvent`'s safety specification step by step.

`SensorDriver_proofs` (`WordAssumption`, `LinesAssumption`, `GainAssumption`,
`ModesAssumption`): `SensorTypeCorrect`, `ChangesAddUp`, `ExposureAlwaysFits` and `RateIsHeld`. The invariant relates `hdrIntTime` to the exposure
lines; the lemma `Rounding` says that lines to microseconds and back loses at most one
line when a line lasts a microsecond or more and a longest frame fits a word.

`V4l2Bridge_proofs` (`BridgeAssumption`): `ThreadIsJoined`, by `PhaseInv`, which says where the
main thread is while the processing thread is off, running or gone, and that `left = 0`
behind the loops that count. `BridgeTypeCorrect` is not inductive alone: that no more images
are under way than VI has buffers takes `FlowInv` (nothing flows before the stream is on; an
image is with VI, in the list, with the thread or in the CPP, or lost). `BuffersHeldOnce`
proves `BufferHeldOnce` by `HeldInv`: the places of the output buffers are together
`1..allocated`, and there are as many of them, so none is in two places; a NULL for one that
could not be allocated goes once from the list to the thread, whose post is refused.

`SliceCapture_proofs` (`SliceAssumption`): `SliceTypeCorrect`, `RawsReadAlone`, `InfosInOnePlace`,
`LoweredFlagsAnswered`, `CppGetsItsInfo` and `CrashesNeedRaces`, which prove all safety
properties of the run, for any numbers of buffers, records and frames. `SliceInv` is inductive;
`TypeInv` alone is too, each other part with those before it. `MainInv` says what still runs when the main thread has got so far; `FlagInv`
that one capture at a time is between the trigger and the flag's return; `RawPlaceInv`, `BackInv`
and `OutPlaceInv` where the buffers are; `InfoInv` where the records are, and that each is
freed once; `FoundInv` that lists the raw thread found filled still are. `MatchInv` is the heart
of it: an image in flight has the number of a record in the repeat list, or the raw thread
is about to put one there, and numbers in flight are distinct, because captures number
their frames in rising order. A conjunct that a race breaks holds until that race
has happened, as the properties say.

`RawDump_proofs` (`RawDumpAssumption`): `DumpTypeCorrect`, `DumpsAreFresh`, `PoolOutlivesVi`
and `OnlyOneImageReturns`. `CountInv` ties `cnt` to the images passed. The invariant counts the raw buffers VI and its callback hold
against those the dump has queued, and says that a flag that is raised once lets one image
through. So the theorems hold for a dump of any number of images, but for more than one
vacuously, as `OnlyOneImageReturns` says: the callback lowers `start` after each
image, and the thread of a dump of two or more sleeps for ever.

`CamList_proofs` (`ListAssumption`): `ListTypeCorrect`, `ListStaysLinked` and
`ListImplementsItemSeq`, for a list of any length. `WellLinked` says too little of a
search: it allows a ring beside the list, whose nodes are linked and never found. `ListInv`
says that there is a *chain*, a sequence of all linked nodes, each once, that agrees with `head`,
`tail`, `size` and both pointers of every node, and that no two nodes hold the same item.
`LinkStep` and `EraseStep` show what a call makes of it: the chain with a node inserted, or
without one. The search is a recursive function, so two facts about it are inductions, carried
out on sets of numbers with the well-foundedness of `<` from the library:

* `SearchFinds` - `FindRangeIf` returns a linked node for which the condition holds, or `Null`
  if there is none, wherever in the list `lastFound` points. It counts the nodes still to be
  looked at; `AfterAt` gives the order in which they are.
* `ItemsOfChain` - `ItemsFrom`, the items along the `next` pointers, are the items of the chain.

That the two functions exist at all, which TLA+ does not grant a recursive definition, is
`LookExists` and `CollectsExists`, by iteration of a step (`Iterate`). With these the refinement
is a step per call: `Append`, `InsertAt`, `RemoveFirst` and `Tail` of the abstract sequence are
what the chain has undergone, and the result of a call is the item at the node it found. The
abstract specification has no fairness, so the theorem is the whole of `ImplementsItemSeq`.

Checked by TLC only: liveness, which is outside the prover's reach (`TestFrameEndsRun`,
`WaitingFrameTaken`, `DumpReturns`, `EveryItemTaken`, `QuitReturns`, `RequestAnswered`), and of
`ImplementsEvent` the fairness half, while its safety half is `ConditionImplementsEvent`.
Every invariant and every action property of a passing run is proved.

## Not modelled

* Most of the repository's lines are data or not its own: the sensors' register and ISP
  tuning tables, stb_image, OpenGL ES headers, cJSON, sstr and libdmabufheap. A map of the
  program's logic can cover only a small share of them.
* The GPU branch, saving of images, cache maintenance: no state of the program depends
  on them, but for the second wait on `testDrawCond`, which ends with the window.
* 32 of 33 sensor drivers, which differ from `ov13b10` in tables and formulas, and VCM, flash,
  OTP and i2c, which are wrappers.
* Case dispatch and configuration: pure functions.
* The pipelines that repeat what is modelled (VI/ISP only, CPP only, dual online, dual
  capture, CCIC, GStreamer): the components' notes in `PROJECT.json` say what each repeats.
* Calls of the unlocked list operations that overlap. Raw dumps of more than one image have no
  run of their own, since `OnlyOneImageReturns` says that none ends.

## Plan

1. `DualCapture`: the preview of pipeline 0 and the capture of pipeline 1 over one ISP
   callback, as an instance of the hand-over of `SliceCapture`.
2. `BufferLoop`, an abstract specification of a buffer that goes round between a unit and
   the program, implemented by `OnlinePipeline` in its first session and by `V4l2Bridge`.
3. Theorems: every safety property of a passing run is proved, and so is every refinement but
   for fairness. Left are the step-by-step implementation of `BufferLoop` once it is stated,
   and the safety of `DualCapture` from the lemmas of `SliceCapture_proofs`.
