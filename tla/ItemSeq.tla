------------------------------ MODULE ItemSeq ------------------------------
(***************************************************************************)
(* What a list of demo/utils/cam_list.h promises its callers: a sequence   *)
(* of distinct items, created with allowRepeatItem = false as every list   *)
(* of the program is.  How a lookup searches is left open.                 *)
(***************************************************************************)
EXTENDS Sequences, SequencesExt

CONSTANTS Items, Null

VARIABLES seq,      \* the items, oldest first
          last      \* the last call: operation, arguments, what it returned

vars == <<seq, last>>

Held == ToSet(seq)
Call(op, args, ret) == last' = [op |-> op, args |-> args, ret |-> ret]

Init == seq = <<>> /\ last = [op |-> "create", args |-> {}, ret |-> Null]

Push(x) ==
    IF x \in Held THEN Call("push", {x}, Null) /\ UNCHANGED seq
                  ELSE Call("push", {x}, x) /\ seq' = Append(seq, x)

Pop ==
    IF seq = <<>> THEN Call("pop", {}, Null) /\ UNCHANGED seq
                  ELSE Call("pop", {}, Head(seq)) /\ seq' = Tail(seq)

(* x goes in front of y. *)
InsertByItem(y, x) ==
    IF y \in Held /\ x \notin Held
    THEN /\ Call("insert", {x, y}, x)
         /\ \E i \in DOMAIN seq : seq[i] = y /\ seq' = InsertAt(seq, i, x)
    ELSE Call("insert", {x, y}, Null) /\ UNCHANGED seq

EraseByItem(x) ==
    IF x \in Held THEN Call("erase", {x}, x) /\ seq' = RemoveFirst(seq, x)
                  ELSE Call("erase", {x}, Null) /\ UNCHANGED seq

(* Some item for which the caller's condition holds, if there is one. *)
FindItemIf(S) ==
    /\ IF S \cap Held = {} THEN Call("find", S, Null)
                           ELSE \E x \in S \cap Held : Call("find", S, x)
    /\ UNCHANGED seq

GetNextItem(x) ==
    /\ IF \E i \in DOMAIN seq : seq[i] = x /\ i < Len(seq)
       THEN \E i \in DOMAIN seq : seq[i] = x /\ Call("next", {x}, seq[i + 1])
       ELSE Call("next", {x}, Null)
    /\ UNCHANGED seq

GetPreviousItem(x) ==
    /\ IF \E i \in DOMAIN seq : seq[i] = x /\ i > 1
       THEN \E i \in DOMAIN seq : seq[i] = x /\ Call("previous", {x}, seq[i - 1])
       ELSE Call("previous", {x}, Null)
    /\ UNCHANGED seq

Clear == seq' = <<>> /\ \E op \in {"clear", "destroy"} : Call(op, {}, Null)

Next == \/ Pop \/ Clear
        \/ \E x \in Items : \/ Push(x) \/ EraseByItem(x) \/ GetNextItem(x)
                            \/ GetPreviousItem(x) \/ \E y \in Items : InsertByItem(y, x)
        \/ \E S \in SUBSET Items : FindItemIf(S)

Spec == Init /\ [][Next]_vars
=============================================================================
