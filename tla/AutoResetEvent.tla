--------------------------- MODULE AutoResetEvent ---------------------------
(***************************************************************************)
(* What the users of demo/utils/condition.c take a condition for: an event *)
(* that remembers one post until a wait returns it.                        *)
(***************************************************************************)
VARIABLES timed,     \* a wait may also end without a post, after its time
          posted,    \* a post no wait has returned yet
          waiting    \* the one waiter is in a call

vars == <<timed, posted, waiting>>

Init == timed \in BOOLEAN /\ posted = FALSE /\ waiting = FALSE

Post == posted' = TRUE /\ UNCHANGED <<timed, waiting>>

Call == ~waiting /\ waiting' = TRUE /\ UNCHANGED <<timed, posted>>

Return == waiting /\ (posted \/ timed) /\ posted' = FALSE /\ waiting' = FALSE
          /\ UNCHANGED timed

Next == Post \/ Call \/ Return

Spec == Init /\ [][Next]_vars

(* A post is not lost: the wait that finds it returns. *)
LiveSpec == Spec /\ WF_vars(posted /\ Return)
=============================================================================
