------------------------------ MODULE CamList ------------------------------
(***************************************************************************)
(* The doubly linked list of demo/utils/cam_list.c, node by node, with the *)
(* lastFound pointer from which a lookup starts.  Every list of the        *)
(* program is created with allowRepeatItem = false.                        *)
(*                                                                         *)
(* An operation is one step, as it is under the list's mutex; the few that *)
(* take no mutex (List_Get*Item, List_InsertByItem, List_Clear) are        *)
(* modelled for callers that do not overlap.  malloc never fails.          *)
(***************************************************************************)
EXTENDS Integers, Sequences, FiniteSets, SequencesExt

CONSTANTS Nodes,    \* addresses malloc may return for a LIST_NODE_S
          Items,    \* what callers store
          Null

ASSUME ListAssumption == IsFiniteSet(Nodes) /\ Null \notin Nodes \cup Items

VARIABLES head, tail, size, lastFound,
          node,     \* the nodes; a node whose list is FALSE has been freed
          alive,    \* not destroyed
          last      \* the last call: operation, arguments, what it returned

listVars == <<head, tail, size, node>>
vars == <<listVars, lastFound, alive, last>>

Node  == [list : BOOLEAN, item : Items \cup {Null}, previous : Nodes \cup {Null},
          next : Nodes \cup {Null}]
Blank == [list |-> FALSE, item |-> Null, previous |-> Null, next |-> Null]

Call(op, args, ret) == last' = [op |-> op, args |-> args, ret |-> ret]

Init ==
    /\ head = Null /\ tail = Null /\ size = 0 /\ lastFound = Null
    /\ node = [n \in Nodes |-> Blank]
    /\ alive = TRUE
    /\ last = [op |-> "create", args |-> {}, ret |-> Null]

-----------------------------------------------------------------------------
(* List_FindRangeIf from head to tail: the search starts at lastFound and goes
   round, or starts at the head when there is none. *)

(* Mutant: the search does not go round. *)
AfterStraight(start, n) == IF n = tail THEN Null ELSE node[n].next

(* The node looked at after n, Null when the search is over. *)
After(start, n) ==
    LET m == IF n # tail THEN node[n].next ELSE IF start = Null THEN Null ELSE head
    IN  IF m = start THEN Null ELSE m

(* The node found, Null if there is none, for a search that starts at start. *)
FindRangeIf(start, S) ==
    LET look[k \in 0 .. Cardinality(Nodes)] ==
          [n \in Nodes \cup {Null} |->
             IF n = Null \/ k = 0 THEN Null
             ELSE IF node[n].item \in S THEN n ELSE look[k - 1][After(start, n)]]
    IN  IF head = Null THEN Null
        ELSE look[Cardinality(Nodes)][IF start = Null THEN head ELSE start]

(* lastFound after a search that started at start and found n. *)
Found(start, n) == IF n = Null THEN start ELSE n

-----------------------------------------------------------------------------
(* Node m beside one that is linked in or taken out: the successor of pv becomes a, the
   predecessor of nx becomes b. *)
Relinked(m, pv, a, nx, b) ==
    [node[m] EXCEPT !.next = IF m = pv THEN a ELSE @, !.previous = IF m = nx THEN b ELSE @]

(* x in a new node n between pv and nx. *)
Link(n, x, pv, nx) ==
    /\ head' = IF pv = Null THEN n ELSE head
    /\ tail' = IF nx = Null THEN n ELSE tail
    /\ size' = size + 1
    /\ node' = [m \in Nodes |->
                  IF m = n THEN [list |-> TRUE, item |-> x, previous |-> pv, next |-> nx]
                  ELSE Relinked(m, pv, n, nx, n)]

Fresh == {n \in Nodes : ~node[n].list}

(* List_Push and List_Push_With_Cond. *)
Push(x) ==
    LET f == FindRangeIf(lastFound, {x}) IN
    /\ alive
    /\ lastFound' = Found(lastFound, f)
    /\ IF f # Null THEN Call("push", {x}, Null) /\ UNCHANGED listVars
       ELSE Call("push", {x}, x) /\ \E n \in Fresh : Link(n, x, tail, Null)
    /\ UNCHANGED alive

(* List_InsertByItem: both items are looked up, one after the other. *)
InsertByItem(y, x) ==
    LET p == FindRangeIf(lastFound, {y})
        q == FindRangeIf(Found(lastFound, p), {x})
    IN
    /\ alive
    /\ IF p = Null
       THEN Call("insert", {x, y}, Null) /\ UNCHANGED <<listVars, lastFound>>
       ELSE /\ lastFound' = Found(p, q)
            /\ IF q # Null THEN Call("insert", {x, y}, Null) /\ UNCHANGED listVars
               ELSE /\ Call("insert", {x, y}, x)
                    /\ \E n \in Fresh : Link(n, x, node[p].previous, p)
    /\ UNCHANGED alive

(* Node n is unlinked and freed. *)
Unlink(n) ==
    LET pv == node[n].previous
        nx == node[n].next
    IN
    /\ head' = IF pv = Null THEN nx ELSE head
    /\ tail' = IF nx = Null THEN pv ELSE tail
    /\ size' = size - 1
    /\ node' = [m \in Nodes |-> IF m = n THEN Blank ELSE Relinked(m, pv, nx, nx, pv)]

(* Mutant: lastFound is left as it was. *)
EraseByIteratorKeepsLast(n) == Unlink(n) /\ UNCHANGED lastFound

(* lastFound moves on to the successor. *)
EraseByIterator(n) == Unlink(n) /\ lastFound' = node[n].next

Pop ==
    /\ alive
    /\ IF head = Null THEN Call("pop", {}, Null) /\ UNCHANGED <<listVars, lastFound>>
       ELSE Call("pop", {}, node[head].item) /\ EraseByIterator(head)
    /\ UNCHANGED alive

EraseByItem(x) ==
    LET f == FindRangeIf(lastFound, {x}) IN
    /\ alive
    /\ IF f = Null THEN Call("erase", {x}, Null) /\ UNCHANGED <<listVars, lastFound>>
       ELSE Call("erase", {x}, x) /\ EraseByIterator(f)
    /\ UNCHANGED alive

(* S holds the items for which the caller's condition is true. *)
FindItemIf(S) ==
    LET f == FindRangeIf(lastFound, S) IN
    /\ alive
    /\ lastFound' = Found(lastFound, f)
    /\ Call("find", S, IF f = Null THEN Null ELSE node[f].item)
    /\ UNCHANGED <<listVars, alive>>

(* The item of the node that the neighbour field of x's node leads to. *)
Neighbour(field, x) ==
    LET f == FindRangeIf(lastFound, {x})
        m == IF f = Null THEN Null ELSE node[f][field]
    IN
    /\ alive
    /\ lastFound' = Found(lastFound, f)
    /\ Call(field, {x}, IF m = Null THEN Null ELSE node[m].item)
    /\ UNCHANGED <<listVars, alive>>

GetNextItem(x)     == Neighbour("next", x)
GetPreviousItem(x) == Neighbour("previous", x)

(* Mutant: size is not reset. *)
EmptyKeepsSize ==
    head' = Null /\ tail' = Null /\ UNCHANGED size /\ node' = [n \in Nodes |-> Blank]

Empty == head' = Null /\ tail' = Null /\ size' = 0 /\ node' = [n \in Nodes |-> Blank]

(* List_Clear frees every node and leaves lastFound as it is.  The callers that
   go on using the list have popped it empty before, and the last pop set
   lastFound to NULL. *)
Clear ==
    /\ alive /\ lastFound = Null
    /\ Empty
    /\ Call("clear", {}, Null)
    /\ UNCHANGED <<lastFound, alive>>

Destroy ==
    /\ alive
    /\ Empty
    /\ alive' = FALSE
    /\ Call("destroy", {}, Null)
    /\ UNCHANGED lastFound

Next == \/ Pop \/ Clear \/ Destroy
        \/ \E x \in Items : \/ Push(x) \/ EraseByItem(x) \/ GetNextItem(x)
                            \/ GetPreviousItem(x) \/ \E y \in Items : InsertByItem(y, x)
        \/ \E S \in SUBSET Items : FindItemIf(S)

Spec == Init /\ [][Next]_vars

-----------------------------------------------------------------------------
(* Every variable holds a value of its kind. *)
TypeOK ==
    /\ {head, tail, lastFound} \subseteq Nodes \cup {Null}
    /\ size \in 0 .. Cardinality(Nodes)
    /\ node \in [Nodes -> Node]
    /\ alive \in BOOLEAN
    /\ last.args \subseteq Items /\ last.ret \in Items \cup {Null}

Linked == {n \in Nodes : node[n].list}

(* The structure a search relies on: the two directions agree, the ends are the
   ends, size counts the nodes, and no pointer a later call follows, lastFound
   among them, leads to a freed node. *)
WellLinked ==
    /\ size = Cardinality(Linked)
    /\ {head, tail} \subseteq Linked \cup {Null}
    /\ alive => lastFound \in Linked \cup {Null}
    /\ head = Null <=> tail = Null
    /\ \A n \in Linked :
         /\ node[n].item # Null
         /\ IF node[n].next = Null THEN n = tail
            ELSE node[n].next \in Linked /\ node[node[n].next].previous = n
         /\ IF node[n].previous = Null THEN n = head
            ELSE node[n].previous \in Linked /\ node[node[n].previous].next = n

(* The items in the order of the next pointers, from node h on. *)
ItemsFrom(nodes, h) ==
    LET from[k \in 0 .. Cardinality(Nodes)] ==
          [n \in Nodes \cup {Null} |->
             IF n = Null \/ k = 0 THEN <<>>
             ELSE <<nodes[n].item>> \o from[k - 1][nodes[n].next]]
    IN  from[Cardinality(Nodes)][h]

ItemsInOrder == ItemsFrom(node, head)

Abstract == INSTANCE ItemSeq WITH seq <- ItemsInOrder

(* Read along the next pointers, the list behaves as the sequence its callers
   take it for, wherever lastFound points: a lookup finds an item exactly when
   one is there, and nothing is stored twice. *)
ImplementsItemSeq == Abstract!Spec
=============================================================================
