----------------------------- MODULE Condition -----------------------------
(***************************************************************************)
(* struct condition of demo/utils/condition.c: a flag, a mutex and a       *)
(* condition variable, for any number of threads that post and the one     *)
(* thread that waits (every condition of the program has one).             *)
(*                                                                         *)
(* A step ends where the mutex is taken or released; pthread_cond_wait     *)
(* releases the mutex and goes to sleep in one.  A sleeper is woken by a   *)
(* broadcast or by its timeout; wake-ups without either, which POSIX       *)
(* permits, are left out.                                                  *)
(***************************************************************************)
EXTENDS Naturals

CONSTANTS Posters, Waiter, NoThread

ASSUME ConditionAssumption == Waiter \notin Posters /\ NoThread \notin Posters \cup {Waiter}

Threads == Posters \cup {Waiter}

VARIABLES done,
          lock,      \* the thread that holds the mutex, NoThread if none
          at         \* where each thread is, "out" when in no call

condVars == <<done, lock, at>>

CondInit == done = 0 /\ lock = NoThread /\ at = [t \in Threads |-> "out"]

Acquire(t) == lock = NoThread /\ lock' = t
Release    == lock' = NoThread

Goto(t, l) == at' = [at EXCEPT ![t] = l]

(* Mutant: the flag is set and the broadcast sent without the mutex. *)
PostLockSkipped(t) ==
    /\ at[t] = "out"
    /\ Goto(t, "set")
    /\ UNCHANGED <<done, lock>>

(* condition_post: the caller enters and takes the mutex ... *)
PostLock(t) ==
    /\ at[t] = "out"
    /\ Acquire(t)
    /\ Goto(t, "set")
    /\ UNCHANGED done

(* Mutant: the flag stays down. *)
PostSetBroadcastOnly(t) ==
    /\ at[t] = "set"
    /\ at' = [u \in Threads |-> IF u = t THEN "out"
                                ELSE IF at[u] = "asleep" THEN "woken" ELSE at[u]]
    /\ Release
    /\ UNCHANGED done

(* ... raises the flag, wakes the sleeper and releases the mutex. *)
PostSet(t) ==
    /\ at[t] = "set"
    /\ done' = 1
    /\ at' = [u \in Threads |-> IF u = t THEN "out"
                                ELSE IF at[u] = "asleep" THEN "woken" ELSE at[u]]
    /\ Release

(* condition_wait and condition_timedwait. *)
WaitLock ==
    /\ at[Waiter] = "out"
    /\ Acquire(Waiter)
    /\ Goto(Waiter, "test")
    /\ UNCHANGED done

WaitTest ==
    /\ at[Waiter] = "test"
    /\ Goto(Waiter, IF done = 0 THEN "sleep" ELSE "clear")
    /\ UNCHANGED <<done, lock>>

(* pthread_cond_wait. *)
CondSleep ==
    /\ at[Waiter] = "sleep"
    /\ Release
    /\ Goto(Waiter, "asleep")
    /\ UNCHANGED done

(* pthread_cond_timedwait alone: the time is up. *)
Timeout ==
    /\ at[Waiter] = "asleep"
    /\ Goto(Waiter, "woken")
    /\ UNCHANGED <<done, lock>>

CondRelock ==
    /\ at[Waiter] = "woken"
    /\ Acquire(Waiter)
    /\ Goto(Waiter, "clear")
    /\ UNCHANGED done

(* The flag is lowered whatever ended the wait. *)
WaitClear ==
    /\ at[Waiter] = "clear"
    /\ done' = 0
    /\ Release
    /\ Goto(Waiter, "out")

-----------------------------------------------------------------------------
CondTypeOK ==
    /\ done \in {0, 1}
    /\ lock \in Threads \cup {NoThread}
    /\ at \in [Threads -> {"out", "set", "test", "sleep", "asleep", "woken", "clear"}]

(* The waiter is never asleep while a post is up: the post that comes between its
   look at the flag and its going to sleep has to wait for the mutex, and then finds
   it asleep.  Without that a thread that waits with no timeout would sleep on work
   it was told of. *)
NobodySleepsOnPost == done = 1 => at[Waiter] # "asleep"
=============================================================================
