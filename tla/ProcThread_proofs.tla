-------------------------- MODULE ProcThread_proofs --------------------------
(* Theorems about ProcThread, for any number of callbacks and items. *)
EXTENDS ProcThread, TLAPS

(* The thread that holds the mutex is the one between taking and releasing it; while
   the waiter is on its way to sleep or asleep no post is up, and an untimed wait is
   on its way back only when one is. *)
LockInv ==
    /\ \A t \in Threads : lock = t <=> at[t] \in {"set", "test", "sleep", "clear"}
    /\ at[Waiter] # "set"
    /\ \A t \in Posters : at[t] \in {"out", "set"}
FlagInv ==
    /\ at[Waiter] \in {"sleep", "asleep"} => done = 0
    /\ at[Waiter] \in {"woken", "clear"} /\ ~timed => done = 1

ListInv == items <= pushed

IInv == TypeOK /\ LockInv /\ FlagInv /\ ListInv

LEMMA ProcInit == Init => IInv
<1> SUFFICES ASSUME Init PROVE IInv OBVIOUS
<1> USE ConditionAssumption, ProcAssumption DEF Init, CondInit, Threads
<1>1. TypeOK BY DEF TypeOK, CondTypeOK
<1>2. LockInv /\ FlagInv /\ ListInv BY DEF LockInv, FlagInv, ListInv
<1> QED BY <1>1, <1>2 DEF IInv

(* The steps of a post keep the condition's part of the invariant, whoever posts. *)
LEMMA PostKeeps ==
    ASSUME NEW t \in Posters, IInv, PostLock(t) \/ PostSet(t), UNCHANGED timed
    PROVE  CondTypeOK' /\ LockInv' /\ FlagInv'
<1> USE ConditionAssumption DEF IInv, TypeOK, CondTypeOK, Threads
<1>1. CASE PostLock(t)
  <2>1. /\ at' = [at EXCEPT ![t] = "set"] /\ at[t] = "out" /\ lock = NoThread /\ lock' = t
        /\ done' = done
    BY <1>1 DEF PostLock, Acquire, Goto
  <2>2. CondTypeOK' BY <2>1
  <2>3. LockInv' BY <2>1 DEF LockInv
  <2>4. FlagInv' BY <2>1 DEF FlagInv
  <2> QED BY <2>2, <2>3, <2>4
<1>2. CASE PostSet(t)
  <2>1. /\ at[t] = "set" /\ lock' = NoThread /\ done' = 1
        /\ at' = [u \in Threads |-> IF u = t THEN "out"
                                    ELSE IF at[u] = "asleep" THEN "woken" ELSE at[u]]
    BY <1>2 DEF PostSet, Release
  <2>2. CondTypeOK' BY <2>1
  <2>3. lock = t BY <2>1 DEF LockInv
  <2>4. LockInv' BY <2>1, <2>3 DEF LockInv
  <2>5. at[Waiter] # "sleep" BY <2>3 DEF LockInv
  <2>6. FlagInv' BY <2>1, <2>5 DEF FlagInv
  <2> QED BY <2>2, <2>4, <2>6
<1> QED BY <1>1, <1>2

(* So do the steps of a wait. *)
LEMMA WaitKeeps ==
    ASSUME IInv, UNCHANGED timed,
           \/ WaitLock \/ WaitTest \/ CondSleep \/ CondRelock \/ WaitClear
           \/ timed /\ Timeout
    PROVE  CondTypeOK' /\ LockInv' /\ FlagInv'
<1> USE ConditionAssumption
        DEF IInv, TypeOK, CondTypeOK, Threads, LockInv, FlagInv, Acquire, Release, Goto
<1>1. CASE WaitLock BY <1>1 DEF WaitLock
<1>2. CASE WaitTest BY <1>2 DEF WaitTest
<1>3. CASE CondSleep BY <1>3 DEF CondSleep
<1>4. CASE CondRelock BY <1>4 DEF CondRelock
<1>5. CASE WaitClear BY <1>5 DEF WaitClear
<1>6. CASE timed /\ Timeout BY <1>6 DEF Timeout
<1> QED BY <1>1, <1>2, <1>3, <1>4, <1>5, <1>6

(* Every step is a step of a post, of a wait, or of neither. *)
LEMMA ProcStep == IInv /\ [Next]_vars => IInv'
<1> SUFFICES ASSUME IInv, [Next]_vars PROVE IInv' OBVIOUS
<1> USE ConditionAssumption, ProcAssumption DEF IInv, TypeOK, ListInv
<1>1. ASSUME UNCHANGED <<condVars, timed>> PROVE CondTypeOK' /\ LockInv' /\ FlagInv'
  BY <1>1 DEF condVars, CondTypeOK, LockInv, FlagInv
<1>2. CASE ProcThreadInit BY <1>1, <1>2 DEF ProcThreadInit
<1>3. CASE ProcThreadDeinit BY <1>1, <1>3 DEF ProcThreadDeinit
<1>4. CASE DeinitPost BY <1>4, PostKeeps DEF DeinitPost
<1>5. CASE DeinitJoin BY <1>1, <1>5 DEF DeinitJoin
<1>6. ASSUME NEW c \in Callbacks, Push(c) PROVE IInv'
  BY <1>1, <1>6 DEF Push
<1>7. ASSUME NEW c \in Callbacks, Post(c) PROVE IInv'
  BY <1>7, PostKeeps DEF Post, Callbacks
<1>8. CASE Start BY <1>1, <1>8 DEF Start
<1>9. CASE Wait BY <1>9, WaitKeeps DEF Wait
<1>10. CASE Work BY <1>1, <1>10 DEF Work
<1>11. CASE Loop BY <1>1, <1>11 DEF Loop
<1>12. CASE UNCHANGED vars BY <1>1, <1>12 DEF vars, procVars
<1> QED BY <1>2, <1>3, <1>4, <1>5, <1>6, <1>7, <1>8, <1>9, <1>10, <1>11, <1>12
        DEF Next, Proc

LEMMA ProcInductive == Spec => []IInv
BY ProcInit, ProcStep, PTL DEF Spec

(* Every variable keeps its kind: the thread never takes from an empty list and the
   flag is a flag. *)
THEOREM ProcTypeCorrect == Spec => []TypeOK
<1>1. IInv => TypeOK BY DEF IInv
<1> QED BY <1>1, ProcInductive, PTL

(* However the callbacks' posts fall into the wait, the waiter never sleeps while a
   post is up: the flag is read, and the waiter put to sleep, under one hold of the
   mutex. *)
THEOREM NoLostWakeUp == Spec => []NobodySleepsOnPost
<1>1. IInv => NobodySleepsOnPost BY DEF IInv, FlagInv, NobodySleepsOnPost
<1> QED BY <1>1, ProcInductive, PTL

(* The safety part of ImplementsEvent: each step of the condition's code is a step of
   the event or leaves the event as it is. *)
THEOREM ConditionImplementsEvent == Spec => Event!Spec
<1>1. Init => Event!Init
  BY DEF Init, CondInit, Event!Init, Threads
<1>2. IInv /\ [Next]_vars => [Event!Next]_(Event!vars)
  <2> SUFFICES ASSUME IInv, [Next]_vars PROVE [Event!Next]_(Event!vars) OBVIOUS
  <2> USE ConditionAssumption, ProcAssumption
  <2>1. ASSUME UNCHANGED <<condVars, timed>> PROVE UNCHANGED Event!vars
    BY <2>1 DEF condVars, Event!vars
  <2>2. ASSUME NEW t \in Posters, PostLock(t) \/ PostSet(t), UNCHANGED timed
        PROVE  [Event!Next]_(Event!vars)
    <3>1. CASE PostLock(t)
      BY <2>2, <3>1 DEF PostLock, Goto, Event!vars, IInv, TypeOK, CondTypeOK, Threads
    <3>2. CASE PostSet(t)
      <4>1. at'[Waiter] # "out" <=> at[Waiter] # "out"
        BY <3>2 DEF PostSet, IInv, TypeOK, CondTypeOK, Threads
      <4>2. done' = 1 BY <3>2 DEF PostSet
      <4> QED BY <2>2, <4>1, <4>2 DEF Event!Next, Event!Post
    <3> QED BY <2>2, <3>1, <3>2
  <2>3. ASSUME Wait PROVE [Event!Next]_(Event!vars)
    <3> USE DEF IInv, TypeOK, CondTypeOK, Threads, Goto
    <3>1. timed' = timed BY <2>3 DEF Wait
    <3>2. CASE WaitLock BY <3>1, <3>2 DEF WaitLock, Event!Next, Event!Call
    <3>3. CASE WaitTest BY <3>1, <3>3 DEF WaitTest, Event!vars
    <3>4. CASE CondSleep BY <3>1, <3>4 DEF CondSleep, Event!vars
    <3>5. CASE CondRelock BY <3>1, <3>5 DEF CondRelock, Event!vars
    <3>6. CASE Timeout BY <3>1, <3>6 DEF Timeout, Event!vars
    <3>7. CASE WaitClear
      BY <3>1, <3>7 DEF WaitClear, FlagInv, Event!Next, Event!Return
    <3> QED BY <2>3, <3>2, <3>3, <3>4, <3>5, <3>6, <3>7 DEF Wait
  <2>4. CASE ProcThreadInit BY <2>1, <2>4 DEF ProcThreadInit
  <2>5. CASE ProcThreadDeinit BY <2>1, <2>5 DEF ProcThreadDeinit
  <2>6. CASE DeinitPost BY <2>2, <2>6 DEF DeinitPost
  <2>7. CASE DeinitJoin BY <2>1, <2>7 DEF DeinitJoin
  <2>8. ASSUME NEW c \in Callbacks, Push(c) \/ Post(c) PROVE [Event!Next]_(Event!vars)
    BY <2>1, <2>2, <2>8 DEF Push, Post, Callbacks
  <2>9. CASE Start \/ Work \/ Loop BY <2>1, <2>9 DEF Start, Work, Loop
  <2>10. CASE UNCHANGED vars BY <2>1, <2>10 DEF vars, procVars
  <2> QED BY <2>3, <2>4, <2>5, <2>6, <2>7, <2>8, <2>9, <2>10 DEF Next, Proc
<1> QED BY <1>1, <1>2, ProcInductive, PTL DEF Spec, Event!Spec
=============================================================================
