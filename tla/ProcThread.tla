----------------------------- MODULE ProcThread -----------------------------
(***************************************************************************)
(* The life of a processing thread of the demo programs (ProcThreadInit,   *)
(* testThreadFunc, ProcThreadDeinit of demo/online_pipeline_test.c) with   *)
(* the callbacks that feed it through a list and its condition, step by    *)
(* step of the condition's code.  What the thread does with an item is     *)
(* left out: it takes one per turn.                                        *)
(***************************************************************************)
EXTENDS Condition, Integers

CONSTANTS Main,        \* the thread that creates the others; it posts as well
          MaxItems     \* bound: items the callbacks push

ASSUME ProcAssumption == Main \in Posters /\ MaxItems \in Nat

Callbacks == Posters \ {Main}

VARIABLES main,            \* where the main thread is
          proc,            \* where the processing thread is
          threadRunning,
          timed,           \* the thread waits with condition_timedwait
          items,           \* length of the list
          pushed,          \* items pushed so far
          posting          \* callbacks that have pushed and not yet posted

procVars == <<main, proc, threadRunning, timed, items, pushed, posting>>
vars == <<condVars, procVars>>

Init ==
    /\ CondInit
    /\ main = "init" /\ proc = "none"
    /\ threadRunning = 0
    /\ timed \in BOOLEAN
    /\ items = 0 /\ pushed = 0 /\ posting = {}

-----------------------------------------------------------------------------
(* The main thread. *)

(* condition_init and pthread_create. *)
ProcThreadInit ==
    /\ main = "init"
    /\ main' = "running" /\ proc' = "start"
    /\ UNCHANGED <<condVars, threadRunning, timed, items, pushed, posting>>

(* ProcThreadDeinit, once the units are stopped and no callback runs. *)
ProcThreadDeinit ==
    /\ main = "running" /\ posting = {} /\ \A c \in Callbacks : at[c] = "out"
    /\ threadRunning' = 0
    /\ main' = "post"
    /\ UNCHANGED <<condVars, proc, timed, items, pushed, posting>>

(* Mutant: the thread is not woken. *)
DeinitPostSkipped ==
    /\ main = "post" /\ main' = "join"
    /\ UNCHANGED <<condVars, proc, threadRunning, timed, items, pushed, posting>>

DeinitPost ==
    /\ main = "post"
    /\ \/ PostLock(Main) /\ UNCHANGED main
       \/ PostSet(Main) /\ main' = "join"
    /\ UNCHANGED <<proc, threadRunning, timed, items, pushed, posting>>

(* pthread_join and condition_deinit. *)
DeinitJoin ==
    /\ main = "join" /\ proc = "exited"
    /\ main' = "ended"
    /\ UNCHANGED <<condVars, proc, threadRunning, timed, items, pushed, posting>>

-----------------------------------------------------------------------------
(* A callback: List_Push, then condition_post. *)

Push(c) ==
    /\ main = "running" /\ c \notin posting /\ at[c] = "out" /\ pushed < MaxItems
    /\ items' = items + 1
    /\ pushed' = pushed + 1
    /\ posting' = posting \cup {c}
    /\ UNCHANGED <<condVars, main, proc, threadRunning, timed>>

Post(c) ==
    /\ c \in posting
    /\ \/ PostLock(c) /\ UNCHANGED posting
       \/ PostSet(c) /\ posting' = posting \ {c}
    /\ UNCHANGED <<main, proc, threadRunning, timed, items, pushed>>

-----------------------------------------------------------------------------
(* testThreadFunc. *)

Start ==
    /\ proc = "start"
    /\ threadRunning' = 1
    /\ proc' = "wait"
    /\ UNCHANGED <<condVars, main, timed, items, pushed, posting>>

(* Mutant: every wait is condition_wait. *)
WaitUntimed ==
    /\ proc = "wait"
    /\ \/ (WaitLock \/ WaitTest \/ CondSleep \/ CondRelock) /\ UNCHANGED proc
       \/ WaitClear /\ proc' = "work"
    /\ UNCHANGED <<main, threadRunning, timed, items, pushed, posting>>

Wait ==
    /\ proc = "wait"
    /\ \/ (WaitLock \/ WaitTest \/ CondSleep \/ CondRelock) /\ UNCHANGED proc
       \/ timed /\ Timeout /\ UNCHANGED proc
       \/ WaitClear /\ proc' = "work"
    /\ UNCHANGED <<main, threadRunning, timed, items, pushed, posting>>

(* One item, if there is one. *)
Work ==
    /\ proc = "work"
    /\ items' = IF items > 0 THEN items - 1 ELSE 0
    /\ proc' = "loop"
    /\ UNCHANGED <<condVars, main, threadRunning, timed, pushed, posting>>

(* while (thread->threadRunning). *)
Loop ==
    /\ proc = "loop"
    /\ proc' = IF threadRunning = 1 THEN "wait" ELSE "exited"
    /\ UNCHANGED <<condVars, main, threadRunning, timed, items, pushed, posting>>

Proc == Start \/ Wait \/ Work \/ Loop

Next ==
    \/ ProcThreadInit \/ ProcThreadDeinit \/ DeinitPost \/ DeinitJoin
    \/ \E c \in Callbacks : Push(c) \/ Post(c)
    \/ Proc

Spec == Init /\ [][Next]_vars

(* The threads are scheduled, a mutex that is free again and again is taken, time
   passes, and the main thread goes on once it has begun to stop.  Nothing makes the
   callbacks come or the user stop. *)
Fairness ==
    /\ SF_vars(Proc)
    /\ SF_vars(DeinitPost) /\ WF_vars(DeinitJoin)
    /\ \A c \in Callbacks : SF_vars(Post(c))

LiveSpec == Spec /\ Fairness

-----------------------------------------------------------------------------
(* Every variable holds a value of its kind. *)
TypeOK ==
    /\ CondTypeOK
    /\ main \in {"init", "running", "post", "join", "ended"}
    /\ proc \in {"none", "start", "wait", "work", "loop", "exited"}
    /\ threadRunning \in {0, 1}
    /\ timed \in BOOLEAN
    /\ items \in 0 .. MaxItems /\ pushed \in 0 .. MaxItems
    /\ posting \subseteq Callbacks

(* Step by step, with the mutex and the sleeping, the condition is the event its
   users take it for: an untimed wait returns only for a post made since the last
   return, and no post is lost. *)
Event == INSTANCE AutoResetEvent
           WITH posted <- done = 1, waiting <- at[Waiter] # "out"
ImplementsEvent == Event!LiveSpec

(* Posts that come close together count as one and the thread takes one item for it;
   with condition_timedwait it comes back for the others even if no callback ever
   posts again. *)
EveryItemTaken == (timed /\ items > 0) ~> (items = 0 \/ main # "running")

(* ProcThreadDeinit returns, wherever in its loop the thread is when the flag goes
   down, timed or not, provided it has executed its first statement by then: a thread
   that has not yet raises the flag again. *)
QuitReturns == (main = "post" /\ proc # "start" /\ threadRunning = 0) ~> main = "ended"
=============================================================================
