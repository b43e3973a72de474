--------------------------- MODULE CamList_proofs ---------------------------
(***************************************************************************)
(* Theorems about CamList, for any nodes and items: the list keeps its     *)
(* structure, and it behaves as the sequence of ItemSeq.  The inductive    *)
(* invariant, ListInv, says that there is a chain: a sequence of all the   *)
(* linked nodes that agrees with head, tail, size and both pointers.  That *)
(* a search is complete, and what the items in order are, is induction on  *)
(* the number of nodes looked at.                                          *)
(***************************************************************************)
EXTENDS CamList, Integers, SequencesExt, SequenceTheorems, FiniteSetTheorems,
        TLAPS, WellFoundedInduction

N == Cardinality(Nodes)
NodeOrNull == Nodes \cup {Null}

LEMMA NodeCount == N \in Nat
BY ListAssumption, FS_CardinalityType DEF N

-----------------------------------------------------------------------------
(* Induction, on sets and functions. *)

(* A set with 0, and with k where it has k - 1, has the numbers up to n. *)
LEMMA UpTo ==
    ASSUME NEW n \in Nat, NEW T, 0 \in T, \A k \in 1 .. n : k - 1 \in T => k \in T
    PROVE  \A k \in 0 .. n : k \in T
<1> DEFINE Bad == {k \in 0 .. n : k \notin T}
<1>1. SUFFICES ASSUME Bad # {} PROVE FALSE OBVIOUS
<1>2. Bad \subseteq Nat OBVIOUS
<1>3. PICK x \in Bad : \A y \in Bad : <<y, x>> \notin OpToRel(<, Nat)
  BY <1>1, <1>2, NatLessThanWellFounded, WFMin
<1>4. \A y \in Bad : ~(y < x) BY <1>2, <1>3, Zenon DEF OpToRel
<1>5. x \in 1 .. n /\ x - 1 \in 0 .. n /\ x - 1 < x
  <2>1. x \in 0 .. n /\ x \notin T BY <1>3
  <2>2. x # 0 BY <2>1
  <2> QED BY <2>1, <2>2
<1>6. x - 1 \notin Bad BY <1>4, <1>5
<1> QED BY <1>3, <1>5, <1>6

(* A function on a set can be applied n times, one after the other. *)
Runs(g, n, X, F, a) ==
    g \in [0 .. n -> X] /\ g[0] = a /\ \A k \in 1 .. n : g[k] = F[g[k - 1]]

LEMMA Iterate ==
    ASSUME NEW n \in Nat, NEW X, NEW F \in [X -> X], NEW a \in X
    PROVE  \E g : Runs(g, n, X, F, a)
<1> DEFINE T == {m \in Nat : \E g : Runs(g, m, X, F, a)}
<1>1. 0 \in T
  <2> DEFINE g == [k \in 0 .. 0 |-> a]
  <2>1. Runs(g, 0, X, F, a) BY DEF Runs
  <2> QED BY <2>1
<1>2. ASSUME NEW m \in 1 .. n, m - 1 \in T PROVE m \in T
  <2>1. PICK g \in [0 .. m - 1 -> X] : g[0] = a /\ \A k \in 1 .. m - 1 : g[k] = F[g[k - 1]]
    BY <1>2 DEF Runs
  <2> DEFINE h == [k \in 0 .. m |-> IF k = m THEN F[g[m - 1]] ELSE g[k]]
  <2>2. g[m - 1] \in X BY <2>1
  <2>3. h \in [0 .. m -> X]
    <3>1. \A k \in 0 .. m : k # m => k \in 0 .. m - 1 OBVIOUS
    <3> QED BY <2>1, <2>2, <3>1
  <2>4. h[0] = a BY <2>1
  <2>5. ASSUME NEW k \in 1 .. m PROVE h[k] = F[h[k - 1]]
    <3>1. k - 1 \in 0 .. m /\ k - 1 # m /\ h[k - 1] = g[k - 1] /\ k \in 0 .. m OBVIOUS
    <3>2. CASE k = m BY <3>1, <3>2
    <3>3. CASE k # m
      <4>1. k \in 1 .. m - 1 BY <3>3
      <4> QED BY <2>1, <3>1, <3>3, <4>1
    <3> QED BY <3>2, <3>3
  <2> HIDE DEF h
  <2>6. Runs(h, m, X, F, a) BY <2>3, <2>4, <2>5 DEF Runs
  <2> QED BY <2>6
<1> HIDE DEF T
<1>3. n \in T BY <1>1, <1>2, UpTo
<1> QED BY <1>3 DEF T

-----------------------------------------------------------------------------
(* The nodes in the order of the list. *)

(* c holds the nodes from head to tail; no item is in two of them. *)
Linking(c) ==
    /\ size = Len(c)
    /\ head = IF c = <<>> THEN Null ELSE c[1]
    /\ tail = IF c = <<>> THEN Null ELSE c[Len(c)]
    /\ \A i \in 1 .. Len(c) :
         /\ node[c[i]].next = IF i = Len(c) THEN Null ELSE c[i + 1]
         /\ node[c[i]].previous = IF i = 1 THEN Null ELSE c[i - 1]
Chain(c) ==
    /\ c \in Seq(Nodes) /\ Range(c) = Linked /\ IsInjective(c)
    /\ Linking(c)
    /\ \A i \in 1 .. Len(c) : node[c[i]].item \in Items
    /\ \A i, j \in 1 .. Len(c) : node[c[i]].item = node[c[j]].item => i = j

(* lastFound leads to a node of the list. *)
FoundOK == lastFound \in NodeOrNull /\ (alive => lastFound \in Linked \cup {Null})
CallOK  == last.args \subseteq Items /\ last.ret \in Items \cup {Null}

ListInv ==
    /\ node \in [Nodes -> Node] /\ alive \in BOOLEAN
    /\ FoundOK /\ CallOK
    /\ \E c : Chain(c)

LEMMA ChainFacts ==
    ASSUME NEW c, Chain(c)
    PROVE  /\ Len(c) \in 0 .. N /\ Len(c) = Cardinality(Linked)
           /\ DOMAIN c = 1 .. Len(c) /\ c \in [1 .. Len(c) -> Nodes]
           /\ c = <<>> <=> Len(c) = 0
           /\ \A i \in 1 .. Len(c) : c[i] \in Linked
           /\ \A n \in Linked : \E i \in 1 .. Len(c) : n = c[i]
           /\ \A i, j \in 1 .. Len(c) : c[i] = c[j] => i = j
<1> USE DEF Chain
<1>1. DOMAIN c = 1 .. Len(c) /\ Len(c) \in Nat /\ c \in [1 .. Len(c) -> Nodes]
  BY LenProperties
<1>2. c = <<>> <=> Len(c) = 0 BY EmptySeq
<1>3. /\ \A i \in 1 .. Len(c) : c[i] \in Linked
      /\ \A n \in Linked : \E i \in 1 .. Len(c) : n = c[i]
  BY <1>1 DEF Range
<1>4. \A i, j \in 1 .. Len(c) : c[i] = c[j] => i = j BY <1>1 DEF IsInjective
<1>5. c \in Bijection(1 .. Len(c), Linked)
  <2>1. c \in [1 .. Len(c) -> Linked] BY <1>1, <1>3
  <2>2. c \in Injection(1 .. Len(c), Linked) BY <1>4, <2>1 DEF Injection, IsInjective
  <2>3. c \in Surjection(1 .. Len(c), Linked) BY <1>3, <2>1 DEF Surjection
  <2> QED BY <2>2, <2>3 DEF Bijection
<1>6. IsFiniteSet(1 .. Len(c)) /\ Cardinality(1 .. Len(c)) = Len(c)
  <2>1. 1 \in Int /\ Len(c) \in Int BY <1>1
  <2>2. /\ IsFiniteSet(1 .. Len(c))
        /\ Cardinality(1 .. Len(c)) = IF 1 > Len(c) THEN 0 ELSE Len(c) - 1 + 1
    BY <2>1, FS_Interval, Zenon
  <2> QED BY <1>1, <2>2
<1>7. Cardinality(Linked) = Len(c)
  BY <1>5, <1>6, FS_Bijection DEF ExistsBijection
<1>8. Cardinality(Linked) <= N
  <2>1. Linked \subseteq Nodes BY DEF Linked
  <2> QED BY <2>1, ListAssumption, FS_Subset DEF N
<1> QED BY <1>1, <1>2, <1>3, <1>4, <1>7, <1>8, NodeCount
-----------------------------------------------------------------------------
(* The search. *)

(* A search that starts at the node with number p, or at the head because there is no
   lastFound, goes on to the next number, round the end, and is over before p. *)
Starts(c, start, p) == start = c[p] \/ (start = Null /\ p = 1)

LEMMA AfterAt ==
    ASSUME node \in [Nodes -> Node], NEW c, Chain(c),
           NEW p \in 1 .. Len(c), NEW start, Starts(c, start, p), NEW i \in 1 .. Len(c)
    PROVE  After(start, c[i]) =
             IF i = Len(c) THEN IF p = 1 THEN Null ELSE c[1]
                           ELSE IF i + 1 = p THEN Null ELSE c[i + 1]
<1>0. Len(c) \in Nat BY ChainFacts, NodeCount
<1>1. /\ Len(c) \in Nat /\ c # <<>> /\ c \in [1 .. Len(c) -> Nodes]
      /\ \A j, k \in 1 .. Len(c) : c[j] = c[k] => j = k
  BY ChainFacts
<1>2. /\ head = c[1] /\ tail = c[Len(c)]
      /\ node[c[i]].next = IF i = Len(c) THEN Null ELSE c[i + 1]
  BY <1>1 DEF Chain, Linking
<1>3. \A j \in 1 .. Len(c) : c[j] # Null BY <1>1, ListAssumption
<1>4. 1 \in 1 .. Len(c) /\ Len(c) \in 1 .. Len(c) BY <1>1
<1>5. CASE i = Len(c)
  <2>1. c[i] = tail BY <1>2, <1>5
  <2>2. CASE p = 1 BY <1>2, <1>5, <2>1, <2>2 DEF After, Starts
  <2>3. CASE p # 1
    <3>1. start = c[p] /\ start # Null /\ start # c[1] BY <1>1, <1>3, <1>4, <2>3 DEF Starts
    <3> QED BY <1>2, <1>5, <2>1, <2>3, <3>1 DEF After
  <2> QED BY <2>2, <2>3
<1>6. CASE i # Len(c)
  <2>1. i + 1 \in 1 .. Len(c) BY <1>6, <1>0
  <2>2. c[i] # tail BY <1>1, <1>2, <1>4, <1>6
  <2>3. After(start, c[i]) = IF c[i + 1] = start THEN Null ELSE c[i + 1]
    BY <1>2, <1>6, <2>2 DEF After
  <2>4. c[i + 1] = start <=> i + 1 = p
    <3>1. CASE start = c[p] BY <1>1, <2>1, <3>1
    <3>2. CASE start = Null /\ p = 1 BY <1>1, <1>3, <2>1, <3>2
    <3> QED BY <3>1, <3>2 DEF Starts
  <2> QED BY <1>6, <2>3, <2>4
<1> QED BY <1>5, <1>6

(* The search's function, for as many nodes as it may look at. *)
Looks(look, start, S) ==
    look = [k \in 0 .. N |->
              [n \in NodeOrNull |->
                 IF n = Null \/ k = 0 THEN Null
                 ELSE IF node[n].item \in S THEN n ELSE look[k - 1][After(start, n)]]]

LEMMA LookExists ==
    ASSUME node \in [Nodes -> Node], head \in NodeOrNull,
           NEW start \in NodeOrNull, NEW S
    PROVE  \E look : Looks(look, start, S)
<1> DEFINE X == [NodeOrNull -> NodeOrNull]
           a == [n \in NodeOrNull |-> Null]
           Step(h) == [n \in NodeOrNull |->
                         IF n = Null THEN Null
                         ELSE IF node[n].item \in S THEN n ELSE h[After(start, n)]]
           F == [h \in X |-> Step(h)]
<1>1. \A n \in Nodes : After(start, n) \in NodeOrNull
  <2> TAKE n \in Nodes
  <2>1. node[n].next \in NodeOrNull BY DEF Node, NodeOrNull
  <2> QED BY <2>1 DEF After, NodeOrNull
<1>2. a \in X BY DEF NodeOrNull
<1>3. \A h \in X : Step(h) \in X
  <2> TAKE h \in X
  <2>1. ASSUME NEW n \in NodeOrNull, n # Null PROVE h[After(start, n)] \in NodeOrNull
    BY <1>1, <2>1 DEF NodeOrNull
  <2> HIDE DEF X
  <2>2. ASSUME NEW n \in NodeOrNull PROVE Step(h)[n] \in NodeOrNull
    BY <2>1, <2>2 DEF NodeOrNull
  <2> QED BY <2>2 DEF X
<1>4. F \in [X -> X] BY <1>3
<1>5. PICK g \in [0 .. N -> X] : g[0] = a /\ \A k \in 1 .. N : g[k] = F[g[k - 1]]
  <2> HIDE DEF F, X, a
  <2>1. \E g : Runs(g, N, X, F, a) BY <1>2, <1>4, Iterate, NodeCount
  <2> QED BY <2>1 DEF Runs
<1>6. \A k \in 1 .. N : g[k] = Step(g[k - 1])
  <2> TAKE k \in 1 .. N
  <2>1. k - 1 \in 0 .. N BY NodeCount
  <2>2. g[k - 1] \in X BY <1>5, <2>1
  <2> HIDE DEF X, Step
  <2> QED BY <1>5, <2>2
<1>7. ASSUME NEW k \in 0 .. N
      PROVE  g[k] = [n \in NodeOrNull |->
                 IF n = Null \/ k = 0 THEN Null
                 ELSE IF node[n].item \in S THEN n ELSE g[k - 1][After(start, n)]]
  <2>1. CASE k = 0 BY <1>5, <2>1
  <2>2. CASE k # 0
    <3>1. k \in 1 .. N BY NodeCount, <2>2
    <3> QED BY <1>6, <2>2, <3>1
  <2> QED BY <2>1, <2>2
<1>8. Looks(g, start, S)
  <2>1. g = [k \in 0 .. N |-> g[k]] BY <1>5
  <2> HIDE DEF X
  <2> QED BY <1>7, <2>1 DEF Looks
<1> QED BY <1>8

LEMMA FindIsLook ==
    ASSUME node \in [Nodes -> Node], head \in NodeOrNull, NEW start \in NodeOrNull, NEW S
    PROVE  \E look : /\ Looks(look, start, S)
                     /\ FindRangeIf(start, S) =
                          IF head = Null THEN Null
                          ELSE look[N][IF start = Null THEN head ELSE start]
<1> DEFINE w == CHOOSE look : Looks(look, start, S)
<1>1. Looks(w, start, S) BY LookExists
<1>2. FindRangeIf(start, S) = IF head = Null THEN Null
                              ELSE w[N][IF start = Null THEN head ELSE start]
  BY DEF FindRangeIf, Looks, N, NodeOrNull
<1> QED BY <1>1, <1>2

(* How many nodes are left from the one with number i, and which. *)
Left(c, p, i)    == IF i >= p THEN Len(c) - i + p ELSE p - i
ToLook(c, p, i)  == {j \in 1 .. Len(c) : IF i >= p THEN j >= i \/ j < p ELSE j >= i /\ j < p}

(* A search finds a node of the list for which the condition holds, if there is one,
   wherever it starts. *)
LEMMA SearchFinds ==
    ASSUME node \in [Nodes -> Node], NEW c, Chain(c),
           NEW start \in Linked \cup {Null}, NEW S
    PROVE  LET f == FindRangeIf(start, S) IN
           /\ f \in Linked \cup {Null}
           /\ f # Null => node[f].item \in S
           /\ f = Null => \A n \in Linked : node[n].item \notin S
<1> DEFINE f == FindRangeIf(start, S)
<1>1. /\ Len(c) \in 0 .. N /\ c \in [1 .. Len(c) -> Nodes] /\ (c = <<>> <=> Len(c) = 0)
      /\ \A i \in 1 .. Len(c) : c[i] \in Linked
      /\ \A n \in Linked : \E i \in 1 .. Len(c) : n = c[i]
  BY ChainFacts
<1>2. head = (IF c = <<>> THEN Null ELSE c[1]) /\ Linked \subseteq Nodes
  BY DEF Chain, Linking, Linked
<1>3. head \in NodeOrNull /\ start \in NodeOrNull BY <1>1, <1>2, NodeCount DEF NodeOrNull
<1>4. PICK look : /\ Looks(look, start, S)
                  /\ f = IF head = Null THEN Null
                         ELSE look[N][IF start = Null THEN head ELSE start]
  BY <1>3, FindIsLook
<1> HIDE DEF f
<1>5. CASE Len(c) = 0
  <2>1. Linked = {} BY <1>1, <1>5
  <2> QED BY <1>1, <1>2, <1>4, <1>5, <2>1 DEF f
<1>6. CASE Len(c) # 0
  <2>0. Len(c) \in Nat /\ 1 \in 1 .. Len(c) /\ head = c[1] /\ head # Null
    BY <1>1, <1>2, <1>6, NodeCount, ListAssumption
  <2>1. PICK p \in 1 .. Len(c) : Starts(c, start, p)
    <3>1. CASE start = Null BY <2>0, <3>1 DEF Starts
    <3>2. CASE start # Null BY <1>1, <3>2 DEF Starts
    <3> QED BY <3>1, <3>2
  <2>2. f = look[N][c[p]]
    <3>1. CASE start = Null BY <1>1, <1>4, <2>0, <2>1, <3>1, ListAssumption DEF Starts
    <3>2. CASE start # Null BY <1>4, <2>0, <2>1, <3>2 DEF Starts
    <3> QED BY <3>1, <3>2
  <2>3. \A k \in 0 .. N, i \in 1 .. Len(c) :
          look[k][c[i]] = IF k = 0 THEN Null
                          ELSE IF node[c[i]].item \in S THEN c[i]
                          ELSE look[k - 1][After(start, c[i])]
    <3> TAKE k \in 0 .. N, i \in 1 .. Len(c)
    <3>1. c[i] \in NodeOrNull /\ c[i] # Null BY <1>1, ListAssumption DEF NodeOrNull
    <3>2. look[k] = [n \in NodeOrNull |->
                 IF n = Null \/ k = 0 THEN Null
                 ELSE IF node[n].item \in S THEN n ELSE look[k - 1][After(start, n)]]
      BY <1>4 DEF Looks
    <3> QED BY <3>1, <3>2
  <2>4. \A k \in 0 .. N : look[k][Null] = Null BY <1>4 DEF Looks, NodeOrNull
  <2> DEFINE Good(k, i) ==
               /\ look[k][c[i]] # Null =>
                    look[k][c[i]] \in Linked /\ node[look[k][c[i]]].item \in S
               /\ look[k][c[i]] = Null /\ k >= Left(c, p, i) =>
                    \A j \in ToLook(c, p, i) : node[c[j]].item \notin S
             T == {k \in 0 .. N : \A i \in 1 .. Len(c) : Good(k, i)}
  <2>5. 0 \in T
    <3>1. ASSUME NEW i \in 1 .. Len(c) PROVE Good(0, i)
      <4>1. look[0][c[i]] = Null BY <2>3, NodeCount
      <4>2. ~(0 >= Left(c, p, i)) BY <2>0 DEF Left
      <4> QED BY <4>1, <4>2
    <3> QED BY <3>1, NodeCount
  <2>6. ASSUME NEW k \in 1 .. N, k - 1 \in T PROVE k \in T
    <3>1. ASSUME NEW i \in 1 .. Len(c) PROVE Good(k, i)
      <4>1. CASE node[c[i]].item \in S
        <5>1. look[k][c[i]] = c[i] /\ c[i] # Null /\ c[i] \in Linked
          BY <1>1, <2>3, <4>1, NodeCount, ListAssumption
        <5> QED BY <4>1, <5>1
      <4>2. ASSUME node[c[i]].item \notin S PROVE Good(k, i)
        <5>1. look[k][c[i]] = look[k - 1][After(start, c[i])]
          BY <2>3, <4>2, NodeCount
        <5>2. After(start, c[i]) = IF i = Len(c) THEN IF p = 1 THEN Null ELSE c[1]
                                   ELSE IF i + 1 = p THEN Null ELSE c[i + 1]
          BY <2>1, AfterAt
        <5>3. CASE After(start, c[i]) = Null
          <6>1. look[k][c[i]] = Null BY <2>4, <5>1, <5>3, NodeCount
          <6>2. (i = Len(c) /\ p = 1) \/ (i # Len(c) /\ i + 1 = p)
            <7>1. i # Len(c) => i + 1 \in 1 .. Len(c) BY <2>0
            <7>2. \A j \in 1 .. Len(c) : c[j] # Null BY <1>1, ListAssumption
            <7> QED BY <2>0, <5>2, <5>3, <7>1, <7>2
          <6>3. ToLook(c, p, i) = {i} BY <2>0, <6>2 DEF ToLook
          <6> QED BY <4>2, <6>1, <6>3
        <5>4. ASSUME NEW m \in 1 .. Len(c), After(start, c[i]) = c[m],
                     \/ i = Len(c) /\ m = 1 /\ p # 1
                     \/ i # Len(c) /\ m = i + 1 /\ m # p
              PROVE  Good(k, i)
          <6>1. Good(k - 1, m) BY <2>6
          <6>2. look[k][c[i]] = look[k - 1][c[m]] BY <5>1, <5>4
          <6>3. k >= Left(c, p, i) => k - 1 >= Left(c, p, m)
            BY <2>0, <5>4, NodeCount DEF Left
          <6>4. \A j \in ToLook(c, p, i) : j = i \/ j \in ToLook(c, p, m)
            BY <2>0, <5>4 DEF ToLook
          <6> HIDE DEF T
          <6> QED BY <4>2, <6>1, <6>2, <6>3, <6>4
        <5>5. After(start, c[i]) # Null =>
                \E m \in 1 .. Len(c) :
                  /\ After(start, c[i]) = c[m]
                  /\ \/ i = Len(c) /\ m = 1 /\ p # 1
                     \/ i # Len(c) /\ m = i + 1 /\ m # p
          <6>1. i # Len(c) => i + 1 \in 1 .. Len(c) BY <2>0
          <6> QED BY <2>0, <5>2, <6>1
        <5> HIDE DEF Good
        <5> QED BY <5>3, <5>4, <5>5
      <4> QED BY <4>1, <4>2
    <3> QED BY <3>1, NodeCount
  <2> HIDE DEF Good, T
  <2>7. N \in T
    <3>1. \A k \in 0 .. N : k \in T BY <2>5, <2>6, UpTo, NodeCount
    <3> QED BY <3>1, NodeCount
  <2>8. Good(N, p) BY <2>7 DEF T
  <2>9. N >= Left(c, p, p) /\ ToLook(c, p, p) = 1 .. Len(c)
    BY <1>1, NodeCount DEF Left, ToLook
  <2> USE DEF Good
  <2>10. /\ f # Null => f \in Linked /\ node[f].item \in S
         /\ f = Null => \A j \in 1 .. Len(c) : node[c[j]].item \notin S
    BY <2>2, <2>8, <2>9
  <2> HIDE DEF Good, T
  <2> QED BY <1>1, <2>10 DEF f
<1> QED BY <1>5, <1>6
-----------------------------------------------------------------------------
(* The items in the order of the list. *)

(* A function on the numbers up to m is a sequence. *)
LEMMA FcnIsSeq ==
    ASSUME NEW V, NEW m \in Nat, NEW s \in [1 .. m -> V]
    PROVE  s \in Seq(V) /\ Len(s) = m
<1>1. s \in Seq(V) BY SeqDef
<1>2. Len(s) \in Nat /\ DOMAIN s = 1 .. Len(s) BY <1>1, LenProperties
<1>3. DOMAIN s = 1 .. m OBVIOUS
<1> QED BY <1>1, <1>2, <1>3

(* One element before a sequence. *)
LEMMA BeforeAll ==
    ASSUME NEW V, NEW x \in V, NEW m \in Nat, NEW s \in [1 .. m -> V]
    PROVE  <<x>> \o s = [j \in 1 .. m + 1 |-> IF j = 1 THEN x ELSE s[j - 1]]
<1> DEFINE r == [j \in 1 .. m + 1 |-> IF j = 1 THEN x ELSE s[j - 1]]
<1>1. s \in Seq(V) /\ Len(s) = m /\ <<x>> \in Seq(V) /\ Len(<<x>>) = 1 /\ <<x>>[1] = x
  BY FcnIsSeq
<1>2. /\ <<x>> \o s \in Seq(V) /\ Len(<<x>> \o s) = m + 1
      /\ \A j \in 1 .. m + 1 : (<<x>> \o s)[j] = IF j <= 1 THEN x ELSE s[j - 1]
  <2>1. /\ <<x>> \o s \in Seq(V) /\ Len(<<x>> \o s) = 1 + m
        /\ \A j \in 1 .. 1 + m : (<<x>> \o s)[j] = IF j <= 1 THEN <<x>>[j] ELSE s[j - 1]
    BY <1>1, ConcatProperties
  <2>2. ASSUME NEW j \in 1 .. m + 1 PROVE (<<x>> \o s)[j] = IF j <= 1 THEN x ELSE s[j - 1]
    <3>1. j \in 1 .. 1 + m /\ (j <= 1 => j = 1) OBVIOUS
    <3> QED BY <1>1, <2>1, <3>1
  <2>3. Len(<<x>> \o s) = m + 1 BY <2>1
  <2> QED BY <2>1, <2>2, <2>3
<1>3. r \in Seq(V) /\ Len(r) = m + 1
  <2>1. \A j \in 1 .. m + 1 : j # 1 => j - 1 \in 1 .. m OBVIOUS
  <2>2. r \in [1 .. m + 1 -> V] BY <2>1
  <2>3. m + 1 \in Nat OBVIOUS
  <2> HIDE DEF r
  <2> QED BY <2>2, <2>3, FcnIsSeq
<1>4. ASSUME NEW j \in 1 .. m + 1 PROVE (<<x>> \o s)[j] = r[j]
  <2>1. j <= 1 <=> j = 1 OBVIOUS
  <2> QED BY <1>2, <2>1
<1> HIDE DEF r
<1>5. <<x>> \o s = r BY <1>2, <1>3, <1>4, SeqEqual
<1> QED BY <1>5 DEF r

Values == Items \cup {Null}

(* The function that collects the items. *)
Collects(from, nodes) ==
    from = [k \in 0 .. N |->
              [n \in NodeOrNull |->
                 IF n = Null \/ k = 0 THEN <<>>
                 ELSE <<nodes[n].item>> \o from[k - 1][nodes[n].next]]]

LEMMA CollectsExists ==
    ASSUME NEW nodes \in [Nodes -> Node]
    PROVE  \E from : Collects(from, nodes)
<1> DEFINE X == [NodeOrNull -> Seq(Values)]
           a == [n \in NodeOrNull |-> <<>>]
           Step(h) == [n \in NodeOrNull |->
                         IF n = Null THEN <<>> ELSE <<nodes[n].item>> \o h[nodes[n].next]]
           F == [h \in X |-> Step(h)]
<1>1. \A n \in Nodes : nodes[n].next \in NodeOrNull /\ nodes[n].item \in Values
  BY DEF Node, NodeOrNull, Values
<1>2. a \in X OBVIOUS
<1>3. \A h \in X : Step(h) \in X
  <2> TAKE h \in X
  <2>1. ASSUME NEW n \in NodeOrNull, n # Null
        PROVE  <<nodes[n].item>> \o h[nodes[n].next] \in Seq(Values)
    <3>1. h[nodes[n].next] \in Seq(Values) BY <1>1, <2>1 DEF NodeOrNull
    <3>2. <<nodes[n].item>> \in Seq(Values) BY <1>1, <2>1 DEF NodeOrNull
    <3> QED BY <3>1, <3>2, ConcatProperties
  <2> HIDE DEF X
  <2>2. ASSUME NEW n \in NodeOrNull PROVE Step(h)[n] \in Seq(Values)
    BY <2>1, <2>2
  <2> QED BY <2>2 DEF X
<1>4. F \in [X -> X] BY <1>3
<1>5. PICK g \in [0 .. N -> X] : g[0] = a /\ \A k \in 1 .. N : g[k] = F[g[k - 1]]
  <2> HIDE DEF F, X, a
  <2>1. \E g : Runs(g, N, X, F, a) BY <1>2, <1>4, Iterate, NodeCount
  <2> QED BY <2>1 DEF Runs
<1>6. \A k \in 1 .. N : g[k] = Step(g[k - 1])
  <2> TAKE k \in 1 .. N
  <2>1. k - 1 \in 0 .. N BY NodeCount
  <2>2. g[k - 1] \in X BY <1>5, <2>1
  <2> HIDE DEF X, Step
  <2> QED BY <1>5, <2>2
<1>7. ASSUME NEW k \in 0 .. N
      PROVE  g[k] = [n \in NodeOrNull |->
                 IF n = Null \/ k = 0 THEN <<>>
                 ELSE <<nodes[n].item>> \o g[k - 1][nodes[n].next]]
  <2>1. CASE k = 0 BY <1>5, <2>1
  <2>2. CASE k # 0
    <3>1. k \in 1 .. N BY NodeCount, <2>2
    <3> QED BY <1>6, <2>2, <3>1
  <2> QED BY <2>1, <2>2
<1>8. Collects(g, nodes)
  <2>1. g = [k \in 0 .. N |-> g[k]] BY <1>5
  <2> HIDE DEF X
  <2> QED BY <1>7, <2>1 DEF Collects
<1> QED BY <1>8

LEMMA ItemsFromCollects ==
    ASSUME NEW nodes \in [Nodes -> Node], NEW h \in NodeOrNull
    PROVE  \E from : Collects(from, nodes) /\ ItemsFrom(nodes, h) = from[N][h]
<1> DEFINE w == CHOOSE from : Collects(from, nodes)
<1>1. Collects(w, nodes) BY CollectsExists
<1>2. ItemsFrom(nodes, h) = w[N][h] BY DEF ItemsFrom, Collects, N, NodeOrNull
<1> QED BY <1>1, <1>2

ItemsAt(nodes, c, L) == [i \in 1 .. L |-> nodes[c[i]].item]

(* Read along the next pointers, the list has the items of its nodes, in order. *)
LEMMA ItemsAlong ==
    ASSUME NEW nodes \in [Nodes -> Node], NEW L \in Nat, L <= N, NEW c \in [1 .. L -> Nodes],
           \A i \in 1 .. L : nodes[c[i]].next = IF i = L THEN Null ELSE c[i + 1]
    PROVE  \A h : h = (IF L = 0 THEN Null ELSE c[1]) => ItemsFrom(nodes, h) = ItemsAt(nodes, c, L)
<1> SUFFICES ASSUME NEW h, h = IF L = 0 THEN Null ELSE c[1]
             PROVE  ItemsFrom(nodes, h) = ItemsAt(nodes, c, L)
  OBVIOUS
<1>1. L \in Nat OBVIOUS
<1>2. h \in NodeOrNull BY <1>1 DEF NodeOrNull
<1>3. PICK from : Collects(from, nodes) /\ ItemsFrom(nodes, h) = from[N][h]
  BY <1>2, ItemsFromCollects
<1>4. \A k \in 0 .. N : from[k][Null] = <<>>
  <2> TAKE k \in 0 .. N
  <2>1. from[k] = [n \in NodeOrNull |->
                 IF n = Null \/ k = 0 THEN <<>>
                 ELSE <<nodes[n].item>> \o from[k - 1][nodes[n].next]]
    BY <1>3 DEF Collects
  <2> QED BY <2>1 DEF NodeOrNull
<1>5. \A k \in 1 .. N, i \in 1 .. L :
        from[k][c[i]] = <<nodes[c[i]].item>> \o from[k - 1][nodes[c[i]].next]
  <2> TAKE k \in 1 .. N, i \in 1 .. L
  <2>0. k \in 0 .. N /\ k # 0 BY NodeCount
  <2>1. from[k] = [n \in NodeOrNull |->
                 IF n = Null \/ k = 0 THEN <<>>
                 ELSE <<nodes[n].item>> \o from[k - 1][nodes[n].next]]
    BY <1>3, <2>0 DEF Collects
  <2>2. c[i] \in NodeOrNull /\ c[i] # Null BY <1>1, ListAssumption DEF NodeOrNull
  <2> QED BY <2>0, <2>1, <2>2
<1>6. \A i \in 1 .. L : nodes[c[i]].item \in Values BY <1>1 DEF Node, Values
<1> DEFINE Rest(i) == [j \in 1 .. L - i + 1 |-> nodes[c[i + j - 1]].item]
           T == {k \in 0 .. N : \A i \in 1 .. L : k >= L - i + 1 => from[k][c[i]] = Rest(i)}
<1>7. 0 \in T BY <1>1, NodeCount
<1>8. ASSUME NEW k \in 1 .. N, k - 1 \in T PROVE k \in T
  <2>1. ASSUME NEW i \in 1 .. L, k >= L - i + 1 PROVE from[k][c[i]] = Rest(i)
    <3> DEFINE x == nodes[c[i]].item
               m == L - i
    <3>0. x \in Values /\ m \in Nat BY <1>1, <1>6
    <3>1. CASE i = L
      <4>1. k - 1 \in 0 .. N BY NodeCount
      <4>2. from[k][c[i]] = <<x>> \o <<>> BY <1>4, <1>5, <3>1, <4>1
      <4>3. <<x>> \o <<>> = <<x>> OBVIOUS
      <4>4. Rest(i) = <<x>> BY <1>1, <3>1
      <4> QED BY <4>2, <4>3, <4>4
    <3>2. CASE i # L
      <4>1. i + 1 \in 1 .. L /\ k - 1 >= L - (i + 1) + 1 BY <1>1, <2>1, <3>2, NodeCount
      <4>2. from[k - 1][c[i + 1]] = Rest(i + 1) BY <1>8, <4>1
      <4>3. from[k][c[i]] = <<x>> \o Rest(i + 1)
        <5>1. nodes[c[i]].next = c[i + 1] BY <3>2
        <5>2. from[k][c[i]] = <<x>> \o from[k - 1][c[i + 1]] BY <1>5, <5>1
        <5> HIDE DEF Rest
        <5> QED BY <5>2, <4>2
      <4>4. Rest(i + 1) = [j \in 1 .. m |-> nodes[c[i + j]].item]
        <5>1. L - (i + 1) + 1 = m BY <1>1
        <5>2. \A j \in 1 .. m : (i + 1) + j - 1 = i + j BY <1>1
        <5> QED BY <5>1, <5>2
      <4>5. [j \in 1 .. m |-> nodes[c[i + j]].item] \in [1 .. m -> Values]
        <5>1. \A j \in 1 .. m : i + j \in 1 .. L BY <1>1
        <5> QED BY <1>6, <5>1
      <4> DEFINE s == [j \in 1 .. m |-> nodes[c[i + j]].item]
      <4>6. <<x>> \o s = [j \in 1 .. m + 1 |-> IF j = 1 THEN x ELSE s[j - 1]]
        <5> HIDE DEF x, m, s
        <5>1. s \in [1 .. m -> Values] BY <4>5 DEF s
        <5> QED BY <3>0, <5>1, BeforeAll
      <4>7. [j \in 1 .. m + 1 |-> IF j = 1 THEN x ELSE s[j - 1]] = Rest(i)
        <5>1. \A j \in 1 .. m + 1 : (IF j = 1 THEN x ELSE s[j - 1]) = nodes[c[i + j - 1]].item
          <6> TAKE j \in 1 .. m + 1
          <6>1. CASE j = 1 BY <6>1
          <6>2. CASE j # 1
            <7>1. j - 1 \in 1 .. m /\ i + (j - 1) = i + j - 1 BY <3>0, <6>2
            <7> QED BY <6>2, <7>1
          <6> QED BY <6>1, <6>2
        <5> HIDE DEF s, x
        <5> QED BY <5>1
      <4> QED BY <4>3, <4>4, <4>6, <4>7
    <3> QED BY <3>1, <3>2
  <2>2. k \in 0 .. N BY NodeCount
  <2> HIDE DEF Rest
  <2> QED BY <2>1, <2>2
<1>9. N \in T
  <2> HIDE DEF T
  <2>1. \A k \in 0 .. N : k \in T BY <1>7, <1>8, UpTo, NodeCount
  <2> QED BY <2>1, NodeCount
<1>10. CASE L = 0
  <2>1. h = Null /\ from[N][h] = <<>> BY <1>1, <1>4, <1>10, NodeCount
  <2>2. ItemsAt(nodes, c, L) = <<>> BY <1>10 DEF ItemsAt
  <2> QED BY <1>3, <2>1, <2>2
<1>11. CASE L # 0
  <2>1. h = c[1] /\ 1 \in 1 .. L /\ N >= L - 1 + 1 BY <1>1, <1>11, NodeCount
  <2>2. from[N][h] = Rest(1) BY <1>9, <2>1
  <2>3. Rest(1) = ItemsAt(nodes, c, L)
    <3>1. L - 1 + 1 = L BY <1>1
    <3>2. \A j \in 1 .. L : 1 + j - 1 = j BY <1>1
    <3> QED BY <3>1, <3>2 DEF ItemsAt
  <2> QED BY <1>3, <2>2, <2>3
<1> QED BY <1>10, <1>11

LEMMA ItemsOfChain ==
    ASSUME NEW nodes \in [Nodes -> Node], NEW c \in Seq(Nodes), Len(c) <= N,
           \A i \in 1 .. Len(c) : nodes[c[i]].next = IF i = Len(c) THEN Null ELSE c[i + 1]
    PROVE  \A h : h = (IF c = <<>> THEN Null ELSE c[1]) =>
                 ItemsFrom(nodes, h) = ItemsAt(nodes, c, Len(c))
<1>1. Len(c) \in Nat /\ c \in [1 .. Len(c) -> Nodes] /\ (c = <<>> <=> Len(c) = 0)
  BY LenProperties, EmptySeq
<1>2. \A h : h = (IF Len(c) = 0 THEN Null ELSE c[1]) =>
                 ItemsFrom(nodes, h) = ItemsAt(nodes, c, Len(c))
  BY <1>1, ItemsAlong
<1> QED BY <1>1, <1>2
-----------------------------------------------------------------------------
(* Sequences with an element less, and with one more. *)

(* Without the element number k, those after it move up by one. *)
LEMMA RemoveAtIndex ==
    ASSUME NEW S, NEW s \in Seq(S), NEW k \in DOMAIN s
    PROVE  /\ RemoveAt(s, k) \in Seq(S)
           /\ Len(s) \in Nat /\ Len(RemoveAt(s, k)) = Len(s) - 1
           /\ DOMAIN RemoveAt(s, k) = 1 .. Len(s) - 1
           /\ \A i \in 1 .. k - 1 : RemoveAt(s, k)[i] = s[i]
           /\ \A i \in k .. Len(s) - 1 : RemoveAt(s, k)[i] = s[i + 1]
<1> DEFINE a == SubSeq(s, 1, k - 1)
           b == SubSeq(s, k + 1, Len(s))
           r == RemoveAt(s, k)
<1>1. DOMAIN s = 1 .. Len(s) /\ Len(s) \in Nat /\ k \in 1 .. Len(s)
  BY LenProperties
<1>2. /\ a \in Seq(S) /\ Len(a) = k - 1
      /\ \A n \in 1 .. k - 1 : a[n] = s[n]
  BY <1>1, SubSeqProperties
<1>3. /\ b \in Seq(S) /\ Len(b) = Len(s) - k
      /\ \A n \in 1 .. Len(s) - k : b[n] = s[k + n]
  <2>1. \A n \in k + 1 .. Len(s) : s[n] \in S BY <1>1
  <2>2. /\ b \in Seq(S) /\ Len(b) = IF k + 1 <= Len(s) THEN Len(s) - (k + 1) + 1 ELSE 0
        /\ \A n \in 1 .. Len(s) - (k + 1) + 1 : b[n] = s[(k + 1) + n - 1]
    BY <1>1, <2>1, SubSeqProperties
  <2> HIDE DEF b
  <2>3. ASSUME NEW n \in 1 .. Len(s) - k PROVE b[n] = s[k + n]
    <3>1. n \in 1 .. Len(s) - (k + 1) + 1 /\ (k + 1) + n - 1 = k + n BY <1>1
    <3> QED BY <2>2, <3>1
  <2>4. Len(b) = Len(s) - k BY <1>1, <2>2
  <2> QED BY <2>2, <2>3, <2>4
<1>4. r = a \o b BY DEF RemoveAt
<1> HIDE DEF a, b, r
<1>5. /\ r \in Seq(S) /\ Len(r) = Len(a) + Len(b)
      /\ \A n \in 1 .. Len(a) + Len(b) : r[n] = IF n <= Len(a) THEN a[n] ELSE b[n - Len(a)]
  BY <1>2, <1>3, <1>4, ConcatProperties
<1>6. DOMAIN r = 1 .. Len(s) - 1 /\ Len(r) = Len(s) - 1
  BY <1>1, <1>2, <1>3, <1>5, LenProperties
<1>7. ASSUME NEW i \in 1 .. k - 1 PROVE r[i] = s[i]
  <2>1. i \in 1 .. Len(a) + Len(b) /\ i <= Len(a) BY <1>1, <1>2, <1>3
  <2> QED BY <1>2, <1>5, <2>1
<1>8. ASSUME NEW i \in k .. Len(s) - 1 PROVE r[i] = s[i + 1]
  <2>1. i \in 1 .. Len(a) + Len(b) /\ ~(i <= Len(a)) /\ i - Len(a) = i + 1 - k
    BY <1>1, <1>2, <1>3
  <2>2. i + 1 - k \in 1 .. Len(s) - k /\ k + (i + 1 - k) = i + 1 BY <1>1
  <2>3. r[i] = b[i + 1 - k] BY <1>5, <2>1
  <2> QED BY <1>3, <2>2, <2>3
<1> QED BY <1>1, <1>5, <1>6, <1>7, <1>8 DEF r

(* With an element before number k, those from k on move down by one. *)
LEMMA InsertAtIndex ==
    ASSUME NEW S, NEW s \in Seq(S), NEW x \in S, NEW k \in 1 .. Len(s) + 1
    PROVE  /\ InsertAt(s, k, x) \in Seq(S)
           /\ Len(s) \in Nat /\ Len(InsertAt(s, k, x)) = Len(s) + 1
           /\ DOMAIN InsertAt(s, k, x) = 1 .. Len(s) + 1
           /\ \A i \in 1 .. Len(s) + 1 :
                InsertAt(s, k, x)[i] = IF i < k THEN s[i] ELSE IF i = k THEN x ELSE s[i - 1]
<1> DEFINE a == SubSeq(s, 1, k - 1)
           b == SubSeq(s, k, Len(s))
           r == InsertAt(s, k, x)
<1>1. DOMAIN s = 1 .. Len(s) /\ Len(s) \in Nat /\ k \in Nat /\ k # 0 BY LenProperties
<1>2. /\ a \in Seq(S) /\ Len(a) = k - 1
      /\ \A i \in 1 .. k - 1 : a[i] = s[i]
  BY <1>1, SubSeqProperties
<1>3. /\ b \in Seq(S) /\ Len(b) = Len(s) - k + 1
      /\ \A i \in 1 .. Len(s) - k + 1 : b[i] = s[k + i - 1]
  <2>1. \A i \in k .. Len(s) : s[i] \in S BY <1>1
  <2>2. /\ b \in Seq(S) /\ Len(b) = IF k <= Len(s) THEN Len(s) - k + 1 ELSE 0
        /\ \A i \in 1 .. Len(s) - k + 1 : b[i] = s[k + i - 1]
    BY <1>1, <2>1, SubSeqProperties
  <2>3. k <= Len(s) \/ Len(s) - k + 1 = 0 BY <1>1
  <2> HIDE DEF b
  <2> QED BY <2>2, <2>3
<1> HIDE DEF a, b
<1>4. r = (a \o <<x>>) \o b BY DEF InsertAt, a, b
<1> HIDE DEF r
<1> DEFINE h == a \o <<x>>
<1>5. /\ h \in Seq(S) /\ Len(h) = k
      /\ \A i \in 1 .. k : h[i] = IF i < k THEN s[i] ELSE x
  <2>1. <<x>> \in Seq(S) /\ Len(<<x>>) = 1 /\ <<x>>[1] = x OBVIOUS
  <2>2. /\ h \in Seq(S) /\ Len(h) = (k - 1) + 1
        /\ \A i \in 1 .. (k - 1) + 1 :
             h[i] = IF i <= k - 1 THEN a[i] ELSE <<x>>[i - (k - 1)]
    BY <1>2, <2>1, ConcatProperties
  <2> HIDE DEF h
  <2>3. ASSUME NEW i \in 1 .. k PROVE h[i] = IF i < k THEN s[i] ELSE x
    <3>1. CASE i < k
      <4>1. i \in 1 .. k - 1 /\ i <= k - 1 /\ i \in 1 .. (k - 1) + 1 BY <1>1, <3>1
      <4> QED BY <1>2, <2>2, <3>1, <4>1
    <3>2. CASE ~(i < k)
      <4>1. ~(i <= k - 1) /\ i - (k - 1) = 1 /\ i \in 1 .. (k - 1) + 1 BY <1>1, <3>2
      <4> QED BY <2>1, <2>2, <3>2, <4>1
    <3> QED BY <3>1, <3>2
  <2>4. (k - 1) + 1 = k BY <1>1
  <2> QED BY <2>2, <2>3, <2>4
<1>6. r = h \o b BY <1>4
<1> HIDE DEF h
<1>7. /\ r \in Seq(S) /\ Len(r) = k + (Len(s) - k + 1)
      /\ \A i \in 1 .. k + (Len(s) - k + 1) : r[i] = IF i <= k THEN h[i] ELSE b[i - k]
  BY <1>3, <1>5, <1>6, ConcatProperties
<1>8. k + (Len(s) - k + 1) = Len(s) + 1 BY <1>1
<1>9. Len(r) = Len(s) + 1 /\ DOMAIN r = 1 .. Len(s) + 1 BY <1>7, <1>8, LenProperties
<1>10. ASSUME NEW i \in 1 .. Len(s) + 1
       PROVE  r[i] = IF i < k THEN s[i] ELSE IF i = k THEN x ELSE s[i - 1]
  <2>1. CASE i <= k
    <3>1. i \in 1 .. k /\ (~(i < k) => i = k) BY <1>1, <2>1
    <3> QED BY <1>5, <1>7, <1>8, <2>1, <3>1
  <2>2. CASE ~(i <= k)
    <3>1. i - k \in 1 .. Len(s) - k + 1 /\ k + (i - k) - 1 = i - 1 /\ ~(i < k) /\ i # k
      BY <1>1, <2>2
    <3> QED BY <1>3, <1>7, <1>8, <2>2, <3>1
  <2> QED BY <2>1, <2>2
<1> QED BY <1>1, <1>7, <1>9, <1>10 DEF r

LEMMA IsInsertAt ==
    ASSUME NEW S, NEW s \in Seq(S), NEW x \in S, NEW k \in 1 .. Len(s) + 1,
           NEW u \in Seq(S), Len(u) = Len(s) + 1,
           \A i \in 1 .. Len(s) + 1 : u[i] = IF i < k THEN s[i] ELSE IF i = k THEN x ELSE s[i - 1]
    PROVE  u = InsertAt(s, k, x)
<1> DEFINE r == InsertAt(s, k, x)
<1>1. /\ r \in Seq(S) /\ Len(s) \in Nat /\ Len(r) = Len(s) + 1
      /\ \A i \in 1 .. Len(s) + 1 : r[i] = IF i < k THEN s[i] ELSE IF i = k THEN x ELSE s[i - 1]
  BY InsertAtIndex
<1> HIDE DEF r
<1>2. \A i \in 1 .. Len(s) + 1 : u[i] = r[i] BY <1>1
<1>3. \A i \in 1 .. Len(u) : u[i] = r[i] BY <1>2
<1>4. u = r BY <1>1, <1>3, SeqEqual
<1> QED BY <1>4 DEF r

LEMMA IsRemoveAt ==
    ASSUME NEW S, NEW s \in Seq(S), NEW k \in 1 .. Len(s),
           NEW u \in Seq(S), Len(u) = Len(s) - 1,
           \A i \in 1 .. Len(s) - 1 : u[i] = IF i < k THEN s[i] ELSE s[i + 1]
    PROVE  u = RemoveAt(s, k)
<1> DEFINE r == RemoveAt(s, k)
<1>0. k \in DOMAIN s /\ Len(s) \in Nat BY LenProperties
<1>1. /\ r \in Seq(S) /\ Len(r) = Len(s) - 1
      /\ \A i \in 1 .. k - 1 : r[i] = s[i]
      /\ \A i \in k .. Len(s) - 1 : r[i] = s[i + 1]
  BY <1>0, RemoveAtIndex
<1> HIDE DEF r
<1>2. ASSUME NEW i \in 1 .. Len(s) - 1 PROVE u[i] = r[i]
  <2>1. CASE i < k
    <3>1. i \in 1 .. k - 1 BY <1>0, <2>1
    <3> QED BY <1>1, <2>1, <3>1
  <2>2. CASE ~(i < k)
    <3>1. i \in k .. Len(s) - 1 BY <1>0, <2>2
    <3> QED BY <1>1, <2>2, <3>1
  <2> QED BY <2>1, <2>2
<1>3. \A i \in 1 .. Len(u) : u[i] = r[i] BY <1>2
<1>4. u = r BY <1>1, <1>3, SeqEqual
<1> QED BY <1>4 DEF r

LEMMA InsertAtEnd ==
    ASSUME NEW S, NEW s \in Seq(S), NEW x \in S
    PROVE  InsertAt(s, Len(s) + 1, x) = Append(s, x)
<1> DEFINE t == Append(s, x)
           k == Len(s) + 1
           r == InsertAt(s, k, x)
<1>1. /\ t \in Seq(S) /\ Len(s) \in Nat /\ Len(t) = Len(s) + 1
      /\ \A i \in 1 .. Len(s) : t[i] = s[i]
      /\ t[Len(s) + 1] = x
  BY AppendProperties, LenProperties
<1>2. k \in 1 .. Len(s) + 1 BY <1>1
<1>3. k = Len(s) + 1 OBVIOUS
<1> HIDE DEF k
<1>4. /\ r \in Seq(S) /\ Len(r) = Len(s) + 1
      /\ \A i \in 1 .. Len(s) + 1 : r[i] = IF i < k THEN s[i] ELSE IF i = k THEN x ELSE s[i - 1]
  BY <1>2, InsertAtIndex
<1> HIDE DEF r, t
<1>5. ASSUME NEW i \in 1 .. Len(s) + 1 PROVE r[i] = t[i]
  <2>1. CASE i = k
    <3>1. ~(i < k) BY <1>1, <2>1
    <3>2. r[i] = x BY <1>4, <2>1, <3>1
    <3> QED BY <1>1, <1>3, <2>1, <3>2
  <2>2. CASE i # k
    <3>1. i < k /\ i \in 1 .. Len(s) BY <1>1, <1>3, <2>2
    <3> QED BY <1>1, <1>4, <3>1
  <2> QED BY <2>1, <2>2
<1>6. r = t BY <1>1, <1>4, <1>5, SeqEqual
<1> QED BY <1>6 DEF r, t, k

-----------------------------------------------------------------------------
(* A node is linked in. *)

(* The two links of a node are set, and nothing else. *)
LEMMA RelinkedFields ==
    ASSUME node \in [Nodes -> Node], NEW m \in Nodes, NEW pv, NEW nx,
           NEW a \in NodeOrNull, NEW b \in NodeOrNull
    PROVE  /\ Relinked(m, pv, a, nx, b) \in Node
           /\ Relinked(m, pv, a, nx, b).list = node[m].list
           /\ Relinked(m, pv, a, nx, b).item = node[m].item
           /\ Relinked(m, pv, a, nx, b).next = (IF m = pv THEN a ELSE node[m].next)
           /\ Relinked(m, pv, a, nx, b).previous = (IF m = nx THEN b ELSE node[m].previous)
<1> DEFINE u == Relinked(m, pv, a, nx, b)
<1>1. PICK r \in Node : r = node[m] OBVIOUS
<1>2. PICK v : v = IF m = pv THEN a ELSE r.next OBVIOUS
<1>3. PICK w : w = IF m = nx THEN b ELSE r.previous OBVIOUS
<1>4. u = [r EXCEPT !.next = v, !.previous = w] BY <1>1, <1>2, <1>3 DEF Relinked, Node
<1>5. v \in NodeOrNull /\ w \in NodeOrNull BY <1>2, <1>3 DEF Node, NodeOrNull
<1> HIDE DEF u
<1>6. /\ u \in Node /\ u.list = r.list /\ u.item = r.item /\ u.next = v /\ u.previous = w
  BY <1>4, <1>5 DEF Node, NodeOrNull
<1> QED BY <1>1, <1>2, <1>3, <1>6 DEF u

(* A new node with an item that is not in the list goes in before the one with number
   k, or to the end. *)
LEMMA LinkStep ==
    ASSUME node \in [Nodes -> Node], NEW c, Chain(c), NEW n \in Fresh, NEW x \in Items,
           \A i \in 1 .. Len(c) : node[c[i]].item # x,
           NEW k \in 1 .. Len(c) + 1,
           NEW pv, pv = IF k = 1 THEN Null ELSE c[k - 1],
           NEW nx, nx = IF k = Len(c) + 1 THEN Null ELSE c[k],
           Link(n, x, pv, nx)
    PROVE  /\ node' \in [Nodes -> Node]
           /\ Linked' = Linked \cup {n}
           /\ Chain(InsertAt(c, k, n))'
           /\ \A i \in 1 .. Len(c) : node'[c[i]].item = node[c[i]].item
           /\ node'[n].item = x
<1> DEFINE L == Len(c)
           d == InsertAt(c, k, n)
<1>0. L \in Nat BY ChainFacts, NodeCount
<1>1. /\ c \in Seq(Nodes) /\ c \in [1 .. L -> Nodes] /\ (c = <<>> <=> L = 0)
      /\ Range(c) = Linked /\ DOMAIN c = 1 .. L
      /\ \A i \in 1 .. L : c[i] \in Linked
      /\ \A i, j \in 1 .. L : c[i] = c[j] => i = j
  BY ChainFacts DEF Chain
<1>2. n \in Nodes /\ n \notin Linked BY DEF Fresh, Linked
<1>3. /\ size = L /\ head = (IF c = <<>> THEN Null ELSE c[1])
      /\ tail = (IF c = <<>> THEN Null ELSE c[L])
      /\ \A i \in 1 .. L : /\ node[c[i]].next = IF i = L THEN Null ELSE c[i + 1]
                           /\ node[c[i]].previous = IF i = 1 THEN Null ELSE c[i - 1]
  BY DEF Chain, Linking
<1>4. \A i \in 1 .. L : c[i] # n /\ c[i] # Null BY <1>1, <1>2, ListAssumption
<1>5. /\ d \in Seq(Nodes) /\ Len(d) = L + 1 /\ DOMAIN d = 1 .. L + 1
      /\ \A i \in 1 .. L + 1 : d[i] = IF i < k THEN c[i] ELSE IF i = k THEN n ELSE c[i - 1]
  <2>1. c \in Seq(Nodes) /\ n \in Nodes BY <1>1, <1>2
  <2>2. /\ d \in Seq(Nodes) /\ Len(d) = Len(c) + 1 /\ DOMAIN d = 1 .. Len(c) + 1
        /\ \A i \in 1 .. Len(c) + 1 :
             d[i] = IF i < k THEN c[i] ELSE IF i = k THEN n ELSE c[i - 1]
    BY <2>1, InsertAtIndex
  <2> QED BY <2>2
<1> HIDE DEF L, d
<1>6. pv \in NodeOrNull /\ nx \in NodeOrNull
  <2>1. k # 1 => k - 1 \in 1 .. L BY <1>0 DEF L
  <2>2. k # L + 1 => k \in 1 .. L BY <1>0 DEF L
  <2> QED BY <1>1, <2>1, <2>2 DEF NodeOrNull, L
<1>7. /\ node' \in [Nodes -> Node]
      /\ node'[n] = [list |-> TRUE, item |-> x, previous |-> pv, next |-> nx]
      /\ \A q \in Nodes : q # n =>
           /\ node'[q].list = node[q].list /\ node'[q].item = node[q].item
           /\ node'[q].next = IF q = pv THEN n ELSE node[q].next
           /\ node'[q].previous = IF q = nx THEN n ELSE node[q].previous
  <2>1. node' = [q \in Nodes |->
                  IF q = n THEN [list |-> TRUE, item |-> x, previous |-> pv, next |-> nx]
                  ELSE Relinked(q, pv, n, nx, n)]
    BY DEF Link
  <2>2. /\ node'[n] = [list |-> TRUE, item |-> x, previous |-> pv, next |-> nx]
        /\ node'[n] \in Node
    BY <1>2, <1>6, <2>1 DEF Node, NodeOrNull
  <2>3. ASSUME NEW q \in Nodes, q # n
        PROVE  /\ node'[q] \in Node
               /\ node'[q].list = node[q].list /\ node'[q].item = node[q].item
               /\ node'[q].next = IF q = pv THEN n ELSE node[q].next
               /\ node'[q].previous = IF q = nx THEN n ELSE node[q].previous
    <3>1. node'[q] = Relinked(q, pv, n, nx, n) BY <2>1, <2>3
    <3>2. n \in NodeOrNull BY <1>2 DEF NodeOrNull
    <3> QED BY <3>1, <3>2, RelinkedFields
  <2>4. node' = [q \in Nodes |-> node'[q]] BY <2>1
  <2>5. \A q \in Nodes : node'[q] \in Node BY <2>2, <2>3
  <2>6. node' \in [Nodes -> Node] BY <2>4, <2>5
  <2> QED BY <2>2, <2>3, <2>6
<1>8. Linked' = Linked \cup {n} BY <1>2, <1>7 DEF Linked
<1>9. k \in 1 .. L + 1 /\ pv = (IF k = 1 THEN Null ELSE c[k - 1])
      /\ nx = (IF k = L + 1 THEN Null ELSE c[k])
  BY DEF L
<1>10. Range(d) = Linked \cup {n}
  <2>1. \A i \in 1 .. L : \E j \in 1 .. L + 1 : d[j] = c[i]
    <3> TAKE i \in 1 .. L
    <3>1. CASE i < k
      <4>1. i \in 1 .. L + 1 BY <1>0
      <4> QED BY <1>5, <3>1, <4>1
    <3>2. CASE ~(i < k)
      <4>1. i + 1 \in 1 .. L + 1 /\ ~(i + 1 < k) /\ i + 1 # k /\ i + 1 - 1 = i
        BY <1>0, <1>9, <3>2
      <4> QED BY <1>5, <4>1
    <3> QED BY <3>1, <3>2
  <2>2. d[k] = n BY <1>5, <1>9
  <2>3. \A j \in 1 .. L + 1 : d[j] = n \/ \E i \in 1 .. L : d[j] = c[i]
    <3> TAKE j \in 1 .. L + 1
    <3>1. CASE j < k
      <4>1. j \in 1 .. L BY <1>0, <1>9, <3>1
      <4> QED BY <1>5, <3>1, <4>1
    <3>2. CASE j > k
      <4>1. j - 1 \in 1 .. L /\ ~(j < k) /\ j # k BY <1>0, <1>9, <3>2
      <4> QED BY <1>5, <4>1
    <3>3. CASE j = k BY <2>2, <3>3
    <3> QED BY <1>9, <3>1, <3>2, <3>3
  <2>4. \A q \in Linked : \E i \in 1 .. L : q = c[i] BY <1>1 DEF Range
  <2> QED BY <1>1, <1>5, <1>9, <2>1, <2>2, <2>3, <2>4 DEF Range
<1> DEFINE from(i) == IF i < k THEN i ELSE i - 1
<1>11. \A i \in 1 .. L + 1 : i # k => from(i) \in 1 .. L /\ d[i] = c[from(i)]
  <2> TAKE i \in 1 .. L + 1
  <2>1. CASE i < k
    <3>1. i \in 1 .. L BY <1>0, <1>9, <2>1
    <3> QED BY <1>5, <2>1, <3>1
  <2>2. CASE ~(i < k)
    <3>1. i # k => i - 1 \in 1 .. L BY <1>0, <1>9, <2>2
    <3> QED BY <1>5, <2>2, <3>1
  <2> QED BY <2>1, <2>2
<1>12. \A i, j \in 1 .. L + 1 : i # k /\ j # k /\ from(i) = from(j) => i = j
  BY <1>0, <1>9
<1>13. d[k] = n BY <1>5, <1>9
<1> HIDE DEF from
<1>14. \A i, j \in 1 .. L + 1 : d[i] = d[j] => i = j
  <2> SUFFICES ASSUME NEW i \in 1 .. L + 1, NEW j \in 1 .. L + 1, d[i] = d[j] PROVE i = j
    OBVIOUS
  <2>1. CASE i = k /\ j = k BY <2>1
  <2>2. CASE i = k /\ j # k BY <1>4, <1>11, <1>13, <2>2
  <2>3. CASE i # k /\ j = k BY <1>4, <1>11, <1>13, <2>3
  <2>4. CASE i # k /\ j # k BY <1>1, <1>11, <1>12, <2>4
  <2> QED BY <2>1, <2>2, <2>3, <2>4
<1>15. /\ node'[n].item = x
       /\ \A i \in 1 .. L : node'[c[i]].item = node[c[i]].item
  BY <1>1, <1>4, <1>7
<1>16. \A i \in 1 .. L + 1 : node'[d[i]].item \in Items
  <2> TAKE i \in 1 .. L + 1
  <2>1. CASE i = k BY <1>13, <1>15, <2>1
  <2>2. CASE i # k
    <3>1. \A j \in 1 .. L : node[c[j]].item \in Items BY DEF Chain, L
    <3> QED BY <1>11, <1>15, <2>2, <3>1
  <2> QED BY <2>1, <2>2
<1>17. \A i, j \in 1 .. L + 1 : node'[d[i]].item = node'[d[j]].item => i = j
  <2> SUFFICES ASSUME NEW i \in 1 .. L + 1, NEW j \in 1 .. L + 1,
                      node'[d[i]].item = node'[d[j]].item
               PROVE  i = j
    OBVIOUS
  <2>0. /\ \A p \in 1 .. L : node[c[p]].item # x
        /\ \A p, q \in 1 .. L : node[c[p]].item = node[c[q]].item => p = q
    BY DEF Chain, L
  <2>1. CASE i = k /\ j = k BY <2>1
  <2>2. CASE i = k /\ j # k BY <1>11, <1>13, <1>15, <2>0, <2>2
  <2>3. CASE i # k /\ j = k BY <1>11, <1>13, <1>15, <2>0, <2>3
  <2>4. CASE i # k /\ j # k BY <1>11, <1>12, <1>15, <2>0, <2>4
  <2> QED BY <2>1, <2>2, <2>3, <2>4
<1>18. ASSUME NEW i \in 1 .. L + 1
       PROVE  /\ node'[d[i]].next = IF i = L + 1 THEN Null ELSE d[i + 1]
              /\ node'[d[i]].previous = IF i = 1 THEN Null ELSE d[i - 1]
  <2>1. CASE i = k
    <3>1. node'[d[i]].next = nx /\ node'[d[i]].previous = pv BY <1>7, <1>13, <2>1
    <3>2. i # L + 1 => d[i + 1] = c[k]
      <4>1. i # L + 1 => i + 1 \in 1 .. L + 1 /\ ~(i + 1 < k) /\ i + 1 # k /\ i + 1 - 1 = k
        BY <1>0, <1>9, <2>1
      <4> QED BY <1>5, <4>1
    <3>3. i # 1 => d[i - 1] = c[k - 1]
      <4>1. i # 1 => i - 1 \in 1 .. L + 1 /\ i - 1 < k /\ i - 1 = k - 1
        BY <1>0, <1>9, <2>1
      <4> QED BY <1>5, <4>1
    <3> QED BY <1>9, <2>1, <3>1, <3>2, <3>3
  <2>2. CASE i < k
    <3>1. i \in 1 .. L /\ d[i] = c[i] /\ i # L + 1 BY <1>0, <1>5, <1>9, <2>2
    <3>2. /\ node'[c[i]].next = IF c[i] = pv THEN n ELSE node[c[i]].next
          /\ node'[c[i]].previous = IF c[i] = nx THEN n ELSE node[c[i]].previous
      BY <1>1, <1>4, <1>7, <3>1
    <3>3. c[i] # nx
      <4>1. k # L + 1 => k \in 1 .. L /\ i # k BY <1>0, <1>9, <2>2
      <4> QED BY <1>1, <1>4, <1>9, <3>1, <4>1
    <3>4. c[i] = pv <=> i + 1 = k
      <4>1. k # 1 /\ k - 1 \in 1 .. L /\ (i = k - 1 <=> i + 1 = k) BY <1>0, <1>9, <2>2
      <4> QED BY <1>1, <1>9, <3>1, <4>1
    <3>5. node'[c[i]].next = d[i + 1]
      <4>1. CASE i + 1 = k BY <1>13, <3>2, <3>4, <4>1
      <4>2. CASE i + 1 # k
        <5>1. i + 1 < k /\ i + 1 \in 1 .. L + 1 /\ i # L BY <1>0, <1>9, <2>2, <4>2
        <5> QED BY <1>3, <1>5, <3>1, <3>2, <3>4, <4>2, <5>1
      <4> QED BY <4>1, <4>2
    <3>6. i # 1 => d[i - 1] = c[i - 1]
      <4>1. i # 1 => i - 1 \in 1 .. L + 1 /\ i - 1 < k BY <1>0, <1>9, <2>2
      <4> QED BY <1>5, <4>1
    <3> QED BY <1>3, <3>1, <3>2, <3>3, <3>5, <3>6
  <2>3. CASE i > k
    <3> DEFINE j == i - 1
    <3>1. j \in 1 .. L /\ i # 1 /\ ~(i < k) /\ i # k /\ j >= k /\ (i = L + 1 <=> j = L)
      BY <1>0, <1>9, <2>3
    <3>2. d[i] = c[j] BY <1>5, <3>1
    <3> HIDE DEF j
    <3>3. /\ node'[c[j]].next = IF c[j] = pv THEN n ELSE node[c[j]].next
          /\ node'[c[j]].previous = IF c[j] = nx THEN n ELSE node[c[j]].previous
      BY <1>1, <1>4, <1>7, <3>1
    <3>4. c[j] # pv
      <4>1. k # 1 => k - 1 \in 1 .. L /\ j # k - 1 BY <1>0, <1>9, <3>1
      <4> QED BY <1>1, <1>4, <1>9, <3>1, <4>1
    <3>5. c[j] = nx <=> j = k
      <4>1. k # L + 1 /\ k \in 1 .. L BY <1>0, <1>9, <3>1
      <4> QED BY <1>1, <1>9, <3>1, <4>1
    <3>6. i # L + 1 => d[i + 1] = c[j + 1]
      <4>1. i # L + 1 => i + 1 \in 1 .. L + 1 /\ ~(i + 1 < k) /\ i + 1 # k /\ i + 1 - 1 = j + 1
        BY <1>0, <1>9, <2>3 DEF j
      <4> QED BY <1>5, <4>1
    <3>7. node'[c[j]].previous = d[i - 1]
      <4>1. CASE j = k
        <5>1. i - 1 = k BY <4>1 DEF j
        <5> QED BY <1>13, <3>3, <3>5, <4>1, <5>1
      <4>2. CASE j # k
        <5>1. j - 1 \in Int /\ i - 1 = j /\ j \in 1 .. L + 1 /\ ~(j < k) /\ j # 1
          BY <1>0, <1>9, <3>1, <4>2 DEF j
        <5> QED BY <1>3, <1>5, <3>1, <3>3, <3>5, <4>2, <5>1
      <4> QED BY <4>1, <4>2
    <3> QED BY <1>3, <3>1, <3>2, <3>3, <3>4, <3>6, <3>7
  <2> QED BY <1>9, <2>1, <2>2, <2>3
<1>19. /\ size' = L + 1
       /\ head' = d[1]
       /\ tail' = d[L + 1]
  <2>0. 1 \in 1 .. L + 1 /\ L + 1 \in 1 .. L + 1 BY <1>0
  <2>1. size' = L + 1 BY <1>3 DEF Link
  <2>2. head' = d[1]
    <3>1. CASE k = 1
      <4> QED BY <1>9, <1>13, <3>1 DEF Link
    <3>2. CASE k # 1
      <4>1. k - 1 \in 1 .. L /\ 1 < k /\ L # 0 BY <1>0, <1>9, <3>2
      <4>2. pv # Null BY <1>4, <1>9, <3>2, <4>1
      <4> QED BY <1>1, <1>3, <1>5, <2>0, <4>1, <4>2 DEF Link
    <3> QED BY <3>1, <3>2
  <2>3. tail' = d[L + 1]
    <3>1. CASE k = L + 1
      <4> QED BY <1>9, <1>13, <3>1 DEF Link
    <3>2. CASE k # L + 1
      <4>1. k \in 1 .. L /\ ~(L + 1 < k) /\ L # 0 /\ L + 1 - 1 = L BY <1>0, <1>9, <3>2
      <4>2. nx # Null BY <1>4, <1>9, <3>2, <4>1
      <4>3. tail' = tail BY <4>2 DEF Link
      <4>4. tail = c[L] BY <1>1, <1>3, <4>1
      <4>5. d[L + 1] = c[L]
        <5> DEFINE m == L + 1
        <5>1. m \in 1 .. L + 1 /\ ~(m < k) /\ m # k /\ m - 1 = L BY <1>0, <2>0, <3>2, <4>1
        <5> HIDE DEF m
        <5>2. d[m] = c[L] BY <1>5, <5>1
        <5> QED BY <5>2 DEF m
      <4> QED BY <4>3, <4>4, <4>5
    <3> QED BY <3>1, <3>2
  <2> QED BY <2>1, <2>2, <2>3
<1>20. Chain(d)'
  <2>1. d # <<>>
    <3>1. 1 \in 1 .. L + 1 BY <1>0
    <3>2. DOMAIN d # {} BY <1>5, <3>1
    <3> QED BY <3>2
  <2>2. Linking(d)' BY <1>5, <1>18, <1>19, <2>1 DEF Linking
  <2>3. IsInjective(d) BY <1>5, <1>14 DEF IsInjective
  <2> QED BY <1>5, <1>8, <1>10, <1>16, <1>17, <2>2, <2>3 DEF Chain
<1> QED BY <1>7, <1>8, <1>15, <1>20 DEF d, L
-----------------------------------------------------------------------------
(* A node is taken out. *)

(* The node with number k goes, the others stay in order, and lastFound leads to the
   successor, which is still there. *)
LEMMA EraseStep ==
    ASSUME node \in [Nodes -> Node], NEW c, Chain(c), NEW k \in 1 .. Len(c),
           EraseByIterator(c[k])
    PROVE  /\ node' \in [Nodes -> Node]
           /\ Linked' = Linked \ {c[k]}
           /\ Chain(RemoveAt(c, k))'
           /\ \A i \in 1 .. Len(c) : i # k => node'[c[i]].item = node[c[i]].item
           /\ lastFound' \in Linked' \cup {Null}
<1> DEFINE L == Len(c)
           d == RemoveAt(c, k)
           n == c[k]
           pv == node[n].previous
           nx == node[n].next
<1>0. L \in Nat BY ChainFacts, NodeCount
<1>1. /\ c \in Seq(Nodes) /\ c \in [1 .. L -> Nodes] /\ (c = <<>> <=> L = 0)
      /\ Range(c) = Linked /\ DOMAIN c = 1 .. L
      /\ \A i \in 1 .. L : c[i] \in Linked
      /\ \A i, j \in 1 .. L : c[i] = c[j] => i = j
  BY ChainFacts DEF Chain
<1>2. n \in Nodes BY <1>1
<1>3. /\ size = L /\ head = (IF c = <<>> THEN Null ELSE c[1])
      /\ tail = (IF c = <<>> THEN Null ELSE c[L])
      /\ \A i \in 1 .. L : /\ node[c[i]].next = IF i = L THEN Null ELSE c[i + 1]
                           /\ node[c[i]].previous = IF i = 1 THEN Null ELSE c[i - 1]
  BY DEF Chain, Linking
<1>4. \A i \in 1 .. L : c[i] # Null BY <1>1, ListAssumption
<1>5. /\ d \in Seq(Nodes) /\ Len(d) = L - 1 /\ DOMAIN d = 1 .. L - 1
      /\ \A i \in 1 .. k - 1 : d[i] = c[i]
      /\ \A i \in k .. L - 1 : d[i] = c[i + 1]
  <2>1. c \in Seq(Nodes) /\ k \in DOMAIN c BY <1>1
  <2> QED BY <2>1, RemoveAtIndex
<1>6. k \in 1 .. L /\ pv = (IF k = 1 THEN Null ELSE c[k - 1])
      /\ nx = (IF k = L THEN Null ELSE c[k + 1])
  BY <1>3
<1>7. /\ lastFound' = nx /\ size' = size - 1
      /\ head' = (IF pv = Null THEN nx ELSE head)
      /\ tail' = (IF nx = Null THEN pv ELSE tail)
      /\ node' = [m \in Nodes |-> IF m = n THEN Blank ELSE Relinked(m, pv, nx, nx, pv)]
  BY DEF EraseByIterator, Unlink
<1>8. pv \in NodeOrNull /\ nx \in NodeOrNull BY <1>2 DEF Node, NodeOrNull
<1> HIDE DEF L, d, pv, nx, n
<1>9. /\ node' \in [Nodes -> Node] /\ node'[n].list = FALSE
      /\ \A q \in Nodes : q # n =>
           /\ node'[q].list = node[q].list /\ node'[q].item = node[q].item
           /\ node'[q].next = IF q = pv THEN nx ELSE node[q].next
           /\ node'[q].previous = IF q = nx THEN pv ELSE node[q].previous
  <2>1. node'[n] = Blank BY <1>2, <1>7
  <2>2. ASSUME NEW q \in Nodes, q # n
        PROVE  /\ node'[q] \in Node
               /\ node'[q].list = node[q].list /\ node'[q].item = node[q].item
               /\ node'[q].next = IF q = pv THEN nx ELSE node[q].next
               /\ node'[q].previous = IF q = nx THEN pv ELSE node[q].previous
    <3>1. node'[q] = Relinked(q, pv, nx, nx, pv) BY <1>7, <2>2
    <3> QED BY <1>8, <3>1, RelinkedFields
  <2>3. Blank \in Node BY DEF Blank, Node
  <2>4. node' = [q \in Nodes |-> node'[q]] BY <1>7
  <2>5. \A q \in Nodes : node'[q] \in Node BY <2>1, <2>2, <2>3
  <2>6. node' \in [Nodes -> Node] BY <2>4, <2>5
  <2> QED BY <2>1, <2>2, <2>6 DEF Blank
<1>10. Linked' = Linked \ {n} BY <1>2, <1>9 DEF Linked
<1> DEFINE from(i) == IF i < k THEN i ELSE i + 1
<1>11. \A i \in 1 .. L - 1 : from(i) \in 1 .. L /\ from(i) # k /\ d[i] = c[from(i)]
  <2> TAKE i \in 1 .. L - 1
  <2>1. CASE i < k
    <3>1. i \in 1 .. k - 1 /\ i \in 1 .. L /\ i # k BY <1>0, <1>6, <2>1
    <3> QED BY <1>5, <2>1, <3>1
  <2>2. CASE ~(i < k)
    <3>1. i \in k .. L - 1 /\ i + 1 \in 1 .. L /\ i + 1 # k BY <1>0, <1>6, <2>2
    <3> QED BY <1>5, <2>2, <3>1
  <2> QED BY <2>1, <2>2
<1>12. \A i, j \in 1 .. L - 1 : from(i) = from(j) => i = j BY <1>0, <1>6
<1>13. \A j \in 1 .. L : j # k => \E i \in 1 .. L - 1 : from(i) = j
  <2> SUFFICES ASSUME NEW j \in 1 .. L, j # k PROVE \E i \in 1 .. L - 1 : from(i) = j
    OBVIOUS
  <2>1. CASE j < k
    <3>1. j \in 1 .. L - 1 BY <1>0, <1>6, <2>1
    <3> QED BY <2>1, <3>1
  <2>2. CASE j > k
    <3>1. j - 1 \in 1 .. L - 1 /\ ~(j - 1 < k) /\ j - 1 + 1 = j BY <1>0, <1>6, <2>2
    <3> QED BY <3>1
  <2> QED BY <1>6, <2>1, <2>2
<1> HIDE DEF from
<1>14. Range(d) = Linked \ {n}
  <2>1. \A q \in Linked \ {n} : \E i \in 1 .. L - 1 : d[i] = q
    <3> TAKE q \in Linked \ {n}
    <3>1. PICK j \in 1 .. L : q = c[j] BY <1>1 DEF Range
    <3>2. j # k BY <3>1 DEF n
    <3> QED BY <1>11, <1>13, <3>1, <3>2
  <2>2. \A i \in 1 .. L - 1 : d[i] \in Linked /\ d[i] # n BY <1>1, <1>6, <1>11 DEF n
  <2>3. \A q : q \in Range(d) <=> \E i \in 1 .. L - 1 : d[i] = q BY <1>5 DEF Range
  <2>4. \A q : q \in Range(d) <=> q \in Linked \ {n} BY <2>1, <2>2, <2>3
  <2> QED BY <2>4
<1>15. \A i, j \in 1 .. L - 1 : d[i] = d[j] => i = j BY <1>1, <1>11, <1>12
<1>16. \A i \in 1 .. L : i # k => c[i] # n BY <1>1, <1>6 DEF n
<1>17. \A i \in 1 .. L : i # k => node'[c[i]].item = node[c[i]].item
  BY <1>1, <1>9, <1>16
<1>18. /\ \A i \in 1 .. L - 1 : node'[d[i]].item \in Items
       /\ \A i, j \in 1 .. L - 1 : node'[d[i]].item = node'[d[j]].item => i = j
  <2>1. /\ \A i \in 1 .. L : node[c[i]].item \in Items
        /\ \A i, j \in 1 .. L : node[c[i]].item = node[c[j]].item => i = j
    BY DEF Chain, L
  <2> QED BY <1>11, <1>12, <1>17, <2>1
<1>19. ASSUME NEW i \in 1 .. L - 1
       PROVE  /\ node'[d[i]].next = IF i = L - 1 THEN Null ELSE d[i + 1]
              /\ node'[d[i]].previous = IF i = 1 THEN Null ELSE d[i - 1]
  <2> DEFINE j == from(i)
  <2>1. j \in 1 .. L /\ j # k /\ d[i] = c[j] BY <1>11
  <2>2. /\ node'[c[j]].next = IF c[j] = pv THEN nx ELSE node[c[j]].next
        /\ node'[c[j]].previous = IF c[j] = nx THEN pv ELSE node[c[j]].previous
    BY <1>1, <1>9, <1>16, <2>1
  <2>3. c[j] = pv <=> j + 1 = k
    <3>1. k # 1 => k - 1 \in 1 .. L BY <1>0, <1>6
    <3>2. j + 1 = k <=> k # 1 /\ j = k - 1 BY <1>0, <1>6, <2>1
    <3> QED BY <1>1, <1>4, <1>6, <2>1, <3>1, <3>2
  <2>4. c[j] = nx <=> j = k + 1
    <3>1. k # L => k + 1 \in 1 .. L BY <1>0, <1>6
    <3>2. j = k + 1 => k # L BY <1>0, <1>6, <2>1
    <3> QED BY <1>1, <1>4, <1>6, <2>1, <3>1, <3>2
  <2>5. CASE i < k
    <3>0. j = i BY <2>5 DEF from
    <3> HIDE DEF j
    <3>1. i # L /\ j # k + 1 BY <1>0, <1>6, <2>5, <3>0
    <3>2. node'[d[i]].previous = IF i = 1 THEN Null ELSE d[i - 1]
      <4>1. i # 1 => i - 1 \in 1 .. k - 1 BY <1>0, <1>6, <2>5
      <4> QED BY <1>3, <1>5, <2>1, <2>2, <2>4, <3>0, <3>1, <4>1
    <3>3. CASE i + 1 = k
      <4>1. node'[d[i]].next = nx BY <2>1, <2>2, <2>3, <3>0, <3>3
      <4>2. (k = L <=> i = L - 1) BY <1>0, <1>6, <3>3
      <4>3. i # L - 1 => i + 1 \in k .. L - 1 BY <1>0, <1>6, <3>3
      <4>4. i # L - 1 => d[i + 1] = c[k + 1] BY <1>5, <3>3, <4>3
      <4> QED BY <1>6, <3>2, <4>1, <4>2, <4>4
    <3>4. CASE i + 1 # k
      <4>1. i + 1 \in 1 .. k - 1 /\ i # L - 1 BY <1>0, <1>6, <2>5, <3>4
      <4>2. d[i + 1] = c[i + 1] BY <1>5, <4>1
      <4> QED BY <1>3, <2>1, <2>2, <2>3, <3>0, <3>1, <3>2, <3>4, <4>1, <4>2
    <3> QED BY <3>3, <3>4
  <2>6. CASE ~(i < k)
    <3>0. j = i + 1 BY <2>6 DEF from
    <3> HIDE DEF j
    <3>1. j + 1 # k /\ j # 1 /\ (j = L <=> i = L - 1) /\ (j = k + 1 <=> i = k)
      BY <1>0, <1>6, <2>6, <3>0
    <3>2. node'[d[i]].next = IF i = L - 1 THEN Null ELSE d[i + 1]
      <4>1. i # L - 1 => i + 1 \in k .. L - 1 /\ i + 1 = j BY <1>0, <1>6, <2>6, <3>0
      <4>2. i # L - 1 => d[i + 1] = c[j + 1] BY <1>5, <4>1
      <4> QED BY <1>3, <2>1, <2>2, <2>3, <3>1, <4>2
    <3>3. CASE i = k
      <4>1. node'[d[i]].previous = pv BY <2>1, <2>2, <2>4, <3>1, <3>3
      <4>2. k # 1 => k - 1 \in 1 .. k - 1 BY <1>0, <1>6
      <4>3. k # 1 => d[k - 1] = c[k - 1] BY <1>5, <4>2
      <4> QED BY <1>6, <3>2, <3>3, <4>1, <4>3
    <3>4. CASE i # k
      <4>1. i - 1 \in k .. L - 1 /\ i # 1 /\ (i - 1) + 1 = i /\ j - 1 = i
        BY <1>0, <1>6, <2>6, <3>0, <3>4
      <4>2. d[i - 1] = c[i] BY <1>5, <4>1
      <4>3. node'[d[i]].previous = c[i] BY <1>3, <2>1, <2>2, <2>4, <3>1, <3>4, <4>1
      <4> QED BY <3>2, <4>1, <4>2, <4>3
    <3> QED BY <3>3, <3>4
  <2> QED BY <2>5, <2>6
<1>20. d = <<>> <=> L = 1
  <2>1. Len(d) = 0 <=> L = 1 BY <1>0, <1>5
  <2> QED BY <1>5, <2>1, EmptySeq
<1>21. /\ size' = L - 1
       /\ head' = IF d = <<>> THEN Null ELSE d[1]
       /\ tail' = IF d = <<>> THEN Null ELSE d[L - 1]
  <2>0. c # <<>> BY <1>0, <1>1, <1>6
  <2>1. head' = IF d = <<>> THEN Null ELSE d[1]
    <3>1. CASE k = 1
      <4>1. L # 1 => 1 \in k .. L - 1 BY <1>0, <3>1, <1>6
      <4>2. L # 1 => d[1] = c[1 + 1] BY <1>5, <4>1
      <4> QED BY <1>6, <1>7, <1>20, <3>1, <4>2
    <3>2. CASE k # 1
      <4>1. 1 \in 1 .. k - 1 /\ L # 1 /\ k - 1 \in 1 .. L BY <1>0, <3>2, <1>6
      <4>2. pv # Null BY <1>4, <1>6, <3>2, <4>1
      <4>3. d[1] = c[1] BY <1>5, <4>1
      <4> QED BY <1>3, <1>7, <1>20, <2>0, <4>1, <4>2, <4>3
    <3> QED BY <3>1, <3>2
  <2>2. tail' = IF d = <<>> THEN Null ELSE d[L - 1]
    <3>1. CASE k = L
      <4>1. L # 1 => L - 1 \in 1 .. k - 1 BY <1>0, <3>1, <1>6
      <4>2. L # 1 => d[L - 1] = c[L - 1] BY <1>5, <4>1
      <4> QED BY <1>6, <1>7, <1>20, <3>1, <4>2
    <3>2. CASE k # L
      <4>1. k + 1 \in 1 .. L /\ L # 1 /\ L - 1 \in k .. L - 1 /\ L - 1 + 1 = L
        BY <1>0, <3>2, <1>6
      <4>2. nx # Null BY <1>4, <1>6, <3>2, <4>1
      <4>3. d[L - 1] = c[L] BY <1>5, <4>1
      <4> QED BY <1>3, <1>7, <1>20, <2>0, <4>1, <4>2, <4>3
    <3> QED BY <3>1, <3>2
  <2> QED BY <1>3, <1>7, <2>1, <2>2
<1>22. Chain(d)'
  <2>1. Linking(d)' BY <1>5, <1>19, <1>21 DEF Linking
  <2>2. IsInjective(d) BY <1>5, <1>15 DEF IsInjective
  <2> QED BY <1>5, <1>10, <1>14, <1>18, <2>1, <2>2 DEF Chain
<1>23. lastFound' \in Linked' \cup {Null}
  <2>1. k # L => k + 1 \in 1 .. L /\ k + 1 # k BY <1>0, <1>6
  <2> QED BY <1>1, <1>6, <1>7, <1>10, <1>16, <2>1
<1> QED BY <1>9, <1>10, <1>17, <1>22, <1>23 DEF d, L, n
-----------------------------------------------------------------------------
(* The items of the list as the sequence of ItemSeq. *)

(* The nodes of a list are no more than there are. *)
LEMMA ShortChain ==
    ASSUME NEW c \in Seq(Nodes), IsInjective(c)
    PROVE  Len(c) \in Nat /\ Len(c) <= N /\ (c = <<>> <=> Len(c) = 0)
<1>1. DOMAIN c = 1 .. Len(c) /\ Len(c) \in Nat /\ c \in [1 .. Len(c) -> Nodes]
  BY LenProperties
<1>2. c = <<>> <=> Len(c) = 0 BY EmptySeq
<1>3. c \in Injection(1 .. Len(c), Nodes) BY <1>1 DEF Injection, IsInjective
<1>4. IsFiniteSet(1 .. Len(c)) /\ Cardinality(1 .. Len(c)) = Len(c)
  <2>1. 1 \in Int /\ Len(c) \in Int BY <1>1
  <2>2. /\ IsFiniteSet(1 .. Len(c))
        /\ Cardinality(1 .. Len(c)) = IF 1 > Len(c) THEN 0 ELSE Len(c) - 1 + 1
    BY <2>1, FS_Interval, Zenon
  <2> QED BY <1>1, <2>2
<1>5. Len(c) <= N BY <1>3, <1>4, ListAssumption, FS_Injection DEF N
<1> QED BY <1>1, <1>2, <1>5

LEMMA InOrder ==
    ASSUME NEW nodes \in [Nodes -> Node], NEW c \in Seq(Nodes), IsInjective(c),
           \A i \in 1 .. Len(c) : nodes[c[i]].next = IF i = Len(c) THEN Null ELSE c[i + 1],
           \A i \in 1 .. Len(c) : nodes[c[i]].item \in Items,
           NEW h, h = IF c = <<>> THEN Null ELSE c[1]
    PROVE  /\ ItemsFrom(nodes, h) \in Seq(Items)
           /\ Len(ItemsFrom(nodes, h)) = Len(c)
           /\ \A i \in 1 .. Len(c) : ItemsFrom(nodes, h)[i] = nodes[c[i]].item
<1> DEFINE s == ItemsFrom(nodes, h)
           L == Len(c)
<1>1. L \in Nat /\ L <= N BY ShortChain
<1>2. s = ItemsAt(nodes, c, L) BY <1>1, ItemsOfChain
<1> HIDE DEF s, L
<1>3. s = [i \in 1 .. L |-> nodes[c[i]].item] BY <1>2 DEF ItemsAt
<1>4. s \in [1 .. L -> Items] BY <1>3 DEF L
<1>5. s \in Seq(Items) /\ Len(s) = L BY <1>1, <1>4, FcnIsSeq
<1> QED BY <1>3, <1>5 DEF s, L

(* Now, and after a step. *)
LEMMA ItemsNow ==
    ASSUME node \in [Nodes -> Node], NEW c, Chain(c)
    PROVE  /\ ItemsInOrder \in Seq(Items)
           /\ Len(c) \in Nat /\ Len(ItemsInOrder) = Len(c)
           /\ DOMAIN ItemsInOrder = 1 .. Len(c)
           /\ \A i \in 1 .. Len(c) : ItemsInOrder[i] = node[c[i]].item
           /\ \A i, j \in 1 .. Len(c) : ItemsInOrder[i] = ItemsInOrder[j] => i = j
           /\ \A x : x \in Abstract!Held <=> \E n \in Linked : node[n].item = x
<1> DEFINE s == ItemsInOrder
<1>1. /\ c \in Seq(Nodes) /\ IsInjective(c)
      /\ head = IF c = <<>> THEN Null ELSE c[1]
      /\ \A i \in 1 .. Len(c) : node[c[i]].next = IF i = Len(c) THEN Null ELSE c[i + 1]
      /\ \A i \in 1 .. Len(c) : node[c[i]].item \in Items
      /\ \A i, j \in 1 .. Len(c) : node[c[i]].item = node[c[j]].item => i = j
  BY DEF Chain, Linking
<1>2. /\ s \in Seq(Items) /\ Len(s) = Len(c)
      /\ \A i \in 1 .. Len(c) : s[i] = node[c[i]].item
  BY <1>1, InOrder DEF ItemsInOrder
<1>3. Abstract!Held = {s[i] : i \in DOMAIN s} BY DEF Abstract!Held, Abstract!ToSet
<1>4. /\ \A i \in 1 .. Len(c) : c[i] \in Linked
      /\ \A n \in Linked : \E i \in 1 .. Len(c) : n = c[i]
  BY ChainFacts
<1> HIDE DEF s
<1>5. DOMAIN s = 1 .. Len(c) /\ Len(c) \in Nat BY <1>1, <1>2, LenProperties
<1>6. \A x : x \in Abstract!Held <=> \E n \in Linked : node[n].item = x
  BY <1>2, <1>3, <1>4, <1>5
<1> QED BY <1>1, <1>2, <1>5, <1>6 DEF s

LEMMA ItemsThen ==
    ASSUME node' \in [Nodes -> Node], NEW c, Chain(c)'
    PROVE  /\ ItemsInOrder' \in Seq(Items)
           /\ Len(ItemsInOrder') = Len(c)
           /\ \A i \in 1 .. Len(c) : ItemsInOrder'[i] = node'[c[i]].item
<1>1. /\ c \in Seq(Nodes) /\ IsInjective(c)
      /\ head' = IF c = <<>> THEN Null ELSE c[1]
      /\ \A i \in 1 .. Len(c) : node'[c[i]].next = IF i = Len(c) THEN Null ELSE c[i + 1]
      /\ \A i \in 1 .. Len(c) : node'[c[i]].item \in Items
  BY DEF Chain, Linking
<1> QED BY <1>1, InOrder DEF ItemsInOrder

(* The first x in a sequence that holds it once. *)
LEMMA RemoveTheOne ==
    ASSUME NEW S, NEW s \in Seq(S), NEW k \in 1 .. Len(s), NEW x, s[k] = x,
           \A i \in 1 .. Len(s) : s[i] = x => i = k
    PROVE  Abstract!RemoveFirst(s, x) = RemoveAt(s, k)
<1>1. {i \in 1 .. Len(s) : s[i] = x} = {k} OBVIOUS
<1>2. Abstract!SelectInSeq(s, LAMBDA v : v = x) = Abstract!Min({k})
  BY <1>1 DEF Abstract!SelectInSeq
<1>3. Abstract!Min({k}) = k
  <2>1. k \in Int /\ Len(s) \in Nat BY LenProperties
  <2>2. \A y \in {k} : k =< y BY <2>1
  <2> QED BY <2>2 DEF Abstract!Min
<1>4. Abstract!RemoveFirst(s, x) = Abstract!RemoveAt(s, k)
  BY <1>2, <1>3 DEF Abstract!RemoveFirst
<1> QED BY <1>4 DEF RemoveAt, Abstract!RemoveAt
(* What linking in and taking out do to the items. *)
LEMMA LinkItems ==
    ASSUME node \in [Nodes -> Node], NEW c, Chain(c), NEW n \in Fresh, NEW x \in Items,
           \A i \in 1 .. Len(c) : node[c[i]].item # x,
           NEW k \in 1 .. Len(c) + 1,
           NEW pv, pv = IF k = 1 THEN Null ELSE c[k - 1],
           NEW nx, nx = IF k = Len(c) + 1 THEN Null ELSE c[k],
           Link(n, x, pv, nx)
    PROVE  /\ node' \in [Nodes -> Node] /\ Linked \subseteq Linked' /\ \E d : Chain(d)'
           /\ ItemsInOrder' = InsertAt(ItemsInOrder, k, x)
<1> DEFINE d == InsertAt(c, k, n)
<1>0. PICK s, u, L : s = ItemsInOrder /\ u = ItemsInOrder' /\ L = Len(c) OBVIOUS
<1>1. L \in Nat BY <1>0, ChainFacts, NodeCount
<1>2. /\ node' \in [Nodes -> Node] /\ Linked' = Linked \cup {n} /\ Chain(d)'
      /\ \A i \in 1 .. L : node'[c[i]].item = node[c[i]].item
      /\ node'[n].item = x
  BY <1>0, LinkStep
<1>3. c \in Seq(Nodes) /\ n \in Nodes BY DEF Chain, Fresh
<1>4. /\ Len(d) = L + 1
      /\ \A i \in 1 .. L + 1 : d[i] = IF i < k THEN c[i] ELSE IF i = k THEN n ELSE c[i - 1]
  <2>1. /\ Len(d) = Len(c) + 1
        /\ \A i \in 1 .. Len(c) + 1 :
             d[i] = IF i < k THEN c[i] ELSE IF i = k THEN n ELSE c[i - 1]
    BY <1>3, InsertAtIndex
  <2> QED BY <1>0, <2>1
<1> HIDE DEF d
<1>5. /\ s \in Seq(Items) /\ Len(s) = L
      /\ \A i \in 1 .. L : s[i] = node[c[i]].item
  BY <1>0, ItemsNow
<1>6. /\ u \in Seq(Items) /\ Len(u) = L + 1
      /\ \A i \in 1 .. L + 1 : u[i] = node'[d[i]].item
  BY <1>0, <1>2, <1>4, ItemsThen
<1>7. k \in 1 .. L + 1 BY <1>0
<1>8. ASSUME NEW i \in 1 .. L + 1
      PROVE  u[i] = IF i < k THEN s[i] ELSE IF i = k THEN x ELSE s[i - 1]
  <2>1. CASE i < k
    <3>1. i \in 1 .. L BY <1>1, <1>7, <2>1
    <3>2. d[i] = c[i] BY <1>4, <2>1
    <3> QED BY <1>2, <1>5, <1>6, <2>1, <3>1, <3>2
  <2>2. CASE i = k
    <3>1. ~(i < k) BY <1>7, <2>2
    <3>2. d[i] = n BY <1>4, <2>2, <3>1
    <3> QED BY <1>2, <1>6, <2>2, <3>1, <3>2
  <2>3. CASE i > k
    <3>1. i - 1 \in 1 .. L /\ ~(i < k) /\ i # k BY <1>1, <1>7, <2>3
    <3>2. d[i] = c[i - 1] BY <1>4, <3>1
    <3>3. u[i] = s[i - 1] BY <1>2, <1>5, <1>6, <3>1, <3>2
    <3> QED BY <3>1, <3>3
  <2> QED BY <1>1, <1>7, <2>1, <2>2, <2>3
<1>9. u = InsertAt(s, k, x)
  <2>1. k \in 1 .. Len(s) + 1 /\ Len(u) = Len(s) + 1 BY <1>5, <1>6, <1>7
  <2>2. \A i \in 1 .. Len(s) + 1 :
          u[i] = IF i < k THEN s[i] ELSE IF i = k THEN x ELSE s[i - 1]
    BY <1>5, <1>8
  <2> QED BY <1>5, <1>6, <2>1, <2>2, IsInsertAt
<1> QED BY <1>0, <1>2, <1>9

LEMMA EraseItems ==
    ASSUME node \in [Nodes -> Node], NEW c, Chain(c), NEW k \in 1 .. Len(c),
           EraseByIterator(c[k])
    PROVE  /\ node' \in [Nodes -> Node] /\ \E d : Chain(d)'
           /\ lastFound' \in Linked' \cup {Null}
           /\ ItemsInOrder' = RemoveAt(ItemsInOrder, k)
<1> DEFINE d == RemoveAt(c, k)
<1>0. PICK s, u, L : s = ItemsInOrder /\ u = ItemsInOrder' /\ L = Len(c) OBVIOUS
<1>1. L \in Nat BY <1>0, ChainFacts, NodeCount
<1>2. /\ node' \in [Nodes -> Node] /\ Chain(d)' /\ lastFound' \in Linked' \cup {Null}
      /\ \A i \in 1 .. L : i # k => node'[c[i]].item = node[c[i]].item
  BY <1>0, EraseStep
<1>3. c \in Seq(Nodes) /\ k \in DOMAIN c BY ChainFacts DEF Chain
<1>4. /\ Len(d) = L - 1
      /\ \A i \in 1 .. k - 1 : d[i] = c[i]
      /\ \A i \in k .. L - 1 : d[i] = c[i + 1]
  BY <1>0, <1>3, RemoveAtIndex
<1> HIDE DEF d
<1>5. /\ s \in Seq(Items) /\ Len(s) = L
      /\ \A i \in 1 .. L : s[i] = node[c[i]].item
  BY <1>0, ItemsNow
<1>6. /\ u \in Seq(Items) /\ Len(u) = L - 1
      /\ \A i \in 1 .. L - 1 : u[i] = node'[d[i]].item
  BY <1>0, <1>2, <1>4, ItemsThen
<1>7. k \in 1 .. L BY <1>0
<1>8. ASSUME NEW i \in 1 .. L - 1 PROVE u[i] = IF i < k THEN s[i] ELSE s[i + 1]
  <2>1. CASE i < k
    <3>1. i \in 1 .. k - 1 /\ i \in 1 .. L /\ i # k BY <1>1, <1>7, <2>1
    <3>2. d[i] = c[i] BY <1>4, <3>1
    <3> QED BY <1>2, <1>5, <1>6, <2>1, <3>1, <3>2
  <2>2. CASE ~(i < k)
    <3>1. i \in k .. L - 1 /\ i + 1 \in 1 .. L /\ i + 1 # k BY <1>1, <1>7, <2>2
    <3>2. d[i] = c[i + 1] BY <1>4, <3>1
    <3>3. u[i] = s[i + 1] BY <1>2, <1>5, <1>6, <3>1, <3>2
    <3> QED BY <2>2, <3>3
  <2> QED BY <2>1, <2>2
<1>9. u = RemoveAt(s, k)
  <2>1. k \in 1 .. Len(s) /\ Len(u) = Len(s) - 1 BY <1>5, <1>6, <1>7
  <2>2. \A i \in 1 .. Len(s) - 1 : u[i] = IF i < k THEN s[i] ELSE s[i + 1] BY <1>5, <1>8
  <2> QED BY <1>5, <1>6, <2>1, <2>2, IsRemoveAt
<1> QED BY <1>0, <1>2, <1>9

(* A call that leaves the list as it is. *)
LEMMA SameItems ==
    ASSUME ListInv, UNCHANGED listVars, UNCHANGED alive, CallOK',
           lastFound' \in Linked \cup {Null}
    PROVE  ListInv' /\ ItemsInOrder' = ItemsInOrder
<1>1. Linked' = Linked /\ Linked \subseteq Nodes BY DEF listVars, Linked
<1>2. PICK c : Chain(c) BY DEF ListInv
<1>3. Chain(c)' BY <1>1, <1>2 DEF Chain, Linking, listVars
<1>4. FoundOK' BY <1>1 DEF FoundOK, NodeOrNull
<1>5. ItemsInOrder' = ItemsInOrder BY DEF ItemsInOrder, listVars
<1> QED BY <1>3, <1>4, <1>5 DEF ListInv, listVars

(* A lookup of one item. *)
LEMMA LookUp ==
    ASSUME ListInv, NEW start \in Linked \cup {Null}, NEW x,
           NEW f, f = FindRangeIf(start, {x})
    PROVE  /\ f \in Linked \cup {Null} /\ Found(start, f) \in Linked \cup {Null}
           /\ f # Null <=> x \in Abstract!Held
           /\ f # Null => node[f].item = x
<1>1. PICK c : Chain(c) BY DEF ListInv
<1>2. node \in [Nodes -> Node] BY DEF ListInv
<1>3. \A y : y \in Abstract!Held <=> \E n \in Linked : node[n].item = y
  BY <1>1, <1>2, ItemsNow
<1>4. /\ f \in Linked \cup {Null}
      /\ f # Null => node[f].item \in {x}
      /\ f = Null => \A n \in Linked : node[n].item \notin {x}
  BY <1>1, <1>2, SearchFinds
<1> QED BY <1>3, <1>4 DEF Found

LEMMA Inserted ==
    ASSUME ListInv, alive, UNCHANGED alive, CallOK', lastFound' \in Linked \cup {Null},
           NEW c, Chain(c), NEW n \in Fresh, NEW x \in Items, x \notin Abstract!Held,
           NEW k \in 1 .. Len(c) + 1,
           NEW pv, pv = IF k = 1 THEN Null ELSE c[k - 1],
           NEW nx, nx = IF k = Len(c) + 1 THEN Null ELSE c[k],
           Link(n, x, pv, nx)
    PROVE  ListInv' /\ ItemsInOrder' = InsertAt(ItemsInOrder, k, x)
<1>1. node \in [Nodes -> Node] BY DEF ListInv
<1>2. \A i \in 1 .. Len(c) : node[c[i]].item # x
  <2>1. \A i \in 1 .. Len(c) : c[i] \in Linked BY ChainFacts
  <2>2. \A y : y \in Abstract!Held <=> \E m \in Linked : node[m].item = y BY <1>1, ItemsNow
  <2> QED BY <2>1, <2>2
<1>3. /\ node' \in [Nodes -> Node] /\ Linked \subseteq Linked' /\ \E d : Chain(d)'
      /\ ItemsInOrder' = InsertAt(ItemsInOrder, k, x)
  BY <1>1, <1>2, LinkItems
<1>4. FoundOK' BY <1>3 DEF FoundOK, NodeOrNull, Linked
<1> QED BY <1>3, <1>4 DEF ListInv

LEMMA Erased ==
    ASSUME ListInv, alive, UNCHANGED alive, CallOK',
           NEW c, Chain(c), NEW k \in 1 .. Len(c), EraseByIterator(c[k])
    PROVE  ListInv' /\ ItemsInOrder' = RemoveAt(ItemsInOrder, k)
<1>1. node \in [Nodes -> Node] BY DEF ListInv
<1>2. /\ node' \in [Nodes -> Node] /\ \E d : Chain(d)'
      /\ lastFound' \in Linked' \cup {Null}
      /\ ItemsInOrder' = RemoveAt(ItemsInOrder, k)
  BY <1>1, EraseItems
<1>3. FoundOK' BY <1>2 DEF FoundOK, NodeOrNull, Linked
<1> QED BY <1>2, <1>3 DEF ListInv

(* A node that a lookup found, by its place in the list. *)
LEMMA Place ==
    ASSUME ListInv, NEW c, Chain(c), NEW f \in Linked
    PROVE  \E k \in 1 .. Len(c) :
             /\ f = c[k]
             /\ k \in DOMAIN ItemsInOrder /\ ItemsInOrder[k] = node[f].item
             /\ node[f].next = IF k = Len(c) THEN Null ELSE c[k + 1]
             /\ node[f].previous = IF k = 1 THEN Null ELSE c[k - 1]
<1>1. node \in [Nodes -> Node] BY DEF ListInv
<1>2. PICK k \in 1 .. Len(c) : f = c[k] BY ChainFacts
<1>3. ItemsInOrder[k] = node[f].item /\ k \in DOMAIN ItemsInOrder BY <1>1, <1>2, ItemsNow
<1>4. /\ node[c[k]].next = IF k = Len(c) THEN Null ELSE c[k + 1]
      /\ node[c[k]].previous = IF k = 1 THEN Null ELSE c[k - 1]
  BY DEF Chain, Linking
<1> QED BY <1>2, <1>3, <1>4

-----------------------------------------------------------------------------
(* Every call, as a step of ItemSeq. *)

LEMMA PushStep ==
    ASSUME ListInv, NEW x \in Items, Push(x)
    PROVE  ListInv' /\ Abstract!Push(x)
<1> DEFINE f == FindRangeIf(lastFound, {x})
<1>1. /\ alive /\ UNCHANGED alive /\ lastFound' = Found(lastFound, f)
      /\ IF f # Null THEN Call("push", {x}, Null) /\ UNCHANGED listVars
         ELSE Call("push", {x}, x) /\ \E n \in Fresh : Link(n, x, tail, Null)
  BY DEF Push
<1>2. lastFound \in Linked \cup {Null} BY <1>1 DEF ListInv, FoundOK
<1>3. /\ f \in Linked \cup {Null} /\ Found(lastFound, f) \in Linked \cup {Null}
      /\ f # Null <=> x \in Abstract!Held
  BY <1>2, LookUp
<1> HIDE DEF f
<1>4. CallOK' BY <1>1 DEF CallOK, Call
<1>5. CASE f # Null
  <2>1. ListInv' /\ ItemsInOrder' = ItemsInOrder BY <1>1, <1>3, <1>4, <1>5, SameItems
  <2> QED BY <1>1, <1>3, <1>5, <2>1 DEF Abstract!Push, Abstract!Call, Call
<1>6. CASE f = Null
  <2>1. PICK n \in Fresh : Link(n, x, tail, Null) BY <1>1, <1>6
  <2>2. PICK c : Chain(c) BY DEF ListInv
  <2>3. /\ ItemsInOrder \in Seq(Items) /\ Len(c) \in Nat
        /\ Len(ItemsInOrder) = Len(c) /\ (c = <<>> <=> Len(c) = 0)
    BY <2>2, ItemsNow, ChainFacts DEF ListInv
  <2>4. PICK k : k = Len(c) + 1 OBVIOUS
  <2>5. k \in 1 .. Len(c) + 1 /\ tail = (IF k = 1 THEN Null ELSE c[k - 1])
    <3>1. tail = IF c = <<>> THEN Null ELSE c[Len(c)] BY <2>2 DEF Chain, Linking
    <3>2. (k = 1 <=> c = <<>>) /\ k - 1 = Len(c) /\ k \in 1 .. Len(c) + 1 BY <2>3, <2>4
    <3> QED BY <3>1, <3>2
  <2>6. Null = IF k = Len(c) + 1 THEN Null ELSE c[k] BY <2>4
  <2>7. ListInv' /\ ItemsInOrder' = InsertAt(ItemsInOrder, k, x)
    BY <1>1, <1>3, <1>4, <1>6, <2>1, <2>2, <2>5, <2>6, Inserted
  <2>8. InsertAt(ItemsInOrder, Len(ItemsInOrder) + 1, x) = Append(ItemsInOrder, x)
    BY <2>3, InsertAtEnd
  <2> QED BY <1>1, <1>3, <1>6, <2>3, <2>4, <2>7, <2>8 DEF Abstract!Push, Abstract!Call, Call
<1> QED BY <1>5, <1>6

LEMMA InsertStep ==
    ASSUME ListInv, NEW x \in Items, NEW y \in Items, InsertByItem(y, x)
    PROVE  ListInv' /\ Abstract!InsertByItem(y, x)
<1> DEFINE p == FindRangeIf(lastFound, {y})
           q == FindRangeIf(Found(lastFound, p), {x})
<1>1. /\ alive /\ UNCHANGED alive
      /\ IF p = Null
         THEN Call("insert", {x, y}, Null) /\ UNCHANGED <<listVars, lastFound>>
         ELSE /\ lastFound' = Found(p, q)
              /\ IF q # Null THEN Call("insert", {x, y}, Null) /\ UNCHANGED listVars
                 ELSE /\ Call("insert", {x, y}, x)
                      /\ \E n \in Fresh : Link(n, x, node[p].previous, p)
  BY DEF InsertByItem
<1>2. lastFound \in Linked \cup {Null} BY <1>1 DEF ListInv, FoundOK
<1> HIDE DEF q
<1>3. /\ p \in Linked \cup {Null} /\ Found(lastFound, p) \in Linked \cup {Null}
      /\ p # Null <=> y \in Abstract!Held
      /\ p # Null => node[p].item = y
  BY <1>2, LookUp
<1> HIDE DEF p
<1>4. /\ q \in Linked \cup {Null}
      /\ q # Null <=> x \in Abstract!Held
  BY <1>3, LookUp DEF q
<1>5. CASE p = Null
  <2>1. CallOK' BY <1>1, <1>5 DEF CallOK, Call
  <2>2. ListInv' /\ ItemsInOrder' = ItemsInOrder BY <1>1, <1>2, <1>5, <2>1, SameItems
  <2> QED BY <1>1, <1>3, <1>5, <2>2 DEF Abstract!InsertByItem, Abstract!Call, Call
<1>6. CASE p # Null /\ q # Null
  <2>1. CallOK' BY <1>1, <1>6 DEF CallOK, Call
  <2>2. lastFound' \in Linked \cup {Null} BY <1>1, <1>4, <1>6 DEF Found
  <2>3. ListInv' /\ ItemsInOrder' = ItemsInOrder BY <1>1, <1>6, <2>1, <2>2, SameItems
  <2> QED BY <1>1, <1>4, <1>6, <2>3 DEF Abstract!InsertByItem, Abstract!Call, Call
<1>7. CASE p # Null /\ q = Null
  <2>1. CallOK' BY <1>1, <1>7 DEF CallOK, Call
  <2>2. lastFound' \in Linked \cup {Null} BY <1>1, <1>3, <1>7 DEF Found
  <2>3. PICK n \in Fresh : Link(n, x, node[p].previous, p) BY <1>1, <1>7
  <2>4. PICK c : Chain(c) BY DEF ListInv
  <2>5. PICK k \in 1 .. Len(c) :
             /\ p = c[k]
             /\ k \in DOMAIN ItemsInOrder /\ ItemsInOrder[k] = node[p].item
             /\ node[p].previous = IF k = 1 THEN Null ELSE c[k - 1]
    BY <1>3, <1>7, <2>4, Place
  <2>6. k \in 1 .. Len(c) + 1 /\ k # Len(c) + 1 BY <2>4, ChainFacts, NodeCount
  <2>7. p = IF k = Len(c) + 1 THEN Null ELSE c[k] BY <2>5, <2>6
  <2>8. ListInv' /\ ItemsInOrder' = InsertAt(ItemsInOrder, k, x)
    BY <1>1, <1>4, <1>7, <2>1, <2>2, <2>3, <2>4, <2>5, <2>6, <2>7, Inserted
  <2>9. ItemsInOrder' = Abstract!InsertAt(ItemsInOrder, k, x)
    BY <2>8 DEF InsertAt, Abstract!InsertAt
  <2> QED BY <1>1, <1>3, <1>4, <1>7, <2>5, <2>8, <2>9
          DEF Abstract!InsertByItem, Abstract!Call, Call
<1> QED BY <1>5, <1>6, <1>7

LEMMA EraseItemStep ==
    ASSUME ListInv, NEW x \in Items, EraseByItem(x)
    PROVE  ListInv' /\ Abstract!EraseByItem(x)
<1> DEFINE f == FindRangeIf(lastFound, {x})
<1>1. /\ alive /\ UNCHANGED alive
      /\ IF f = Null THEN Call("erase", {x}, Null) /\ UNCHANGED <<listVars, lastFound>>
         ELSE Call("erase", {x}, x) /\ EraseByIterator(f)
  BY DEF EraseByItem
<1>2. lastFound \in Linked \cup {Null} BY <1>1 DEF ListInv, FoundOK
<1>3. /\ f \in Linked \cup {Null}
      /\ f # Null <=> x \in Abstract!Held
      /\ f # Null => node[f].item = x
  BY <1>2, LookUp
<1> HIDE DEF f
<1>4. CallOK' BY <1>1 DEF CallOK, Call
<1>5. CASE f = Null
  <2>1. ListInv' /\ ItemsInOrder' = ItemsInOrder BY <1>1, <1>2, <1>4, <1>5, SameItems
  <2> QED BY <1>1, <1>3, <1>5, <2>1 DEF Abstract!EraseByItem, Abstract!Call, Call
<1>6. CASE f # Null
  <2>1. PICK c : Chain(c) BY DEF ListInv
  <2>2. PICK k \in 1 .. Len(c) : f = c[k] /\ ItemsInOrder[k] = node[f].item
    BY <1>3, <1>6, <2>1, Place
  <2>3. ListInv' /\ ItemsInOrder' = RemoveAt(ItemsInOrder, k)
    BY <1>1, <1>4, <1>6, <2>1, <2>2, Erased
  <2>4. /\ ItemsInOrder \in Seq(Items) /\ Len(ItemsInOrder) = Len(c)
        /\ \A i, j \in 1 .. Len(c) : ItemsInOrder[i] = ItemsInOrder[j] => i = j
    BY <2>1, ItemsNow DEF ListInv
  <2>5. Abstract!RemoveFirst(ItemsInOrder, x) = RemoveAt(ItemsInOrder, k)
    <3>1. ItemsInOrder[k] = x BY <1>3, <1>6, <2>2
    <3>2. \A i \in 1 .. Len(ItemsInOrder) : ItemsInOrder[i] = x => i = k BY <2>4, <3>1
    <3>3. k \in 1 .. Len(ItemsInOrder) BY <2>4
    <3> QED BY <2>4, <3>1, <3>2, <3>3, RemoveTheOne
  <2> QED BY <1>1, <1>3, <1>6, <2>3, <2>5 DEF Abstract!EraseByItem, Abstract!Call, Call
<1> QED BY <1>5, <1>6

(* The first element of a sequence goes. *)
LEMMA TailIsRemoveAt ==
    ASSUME NEW S, NEW s \in Seq(S), s # <<>>
    PROVE  1 \in 1 .. Len(s) /\ Head(s) = s[1] /\ Tail(s) = RemoveAt(s, 1)
<1> DEFINE u == Tail(s)
<1>1. /\ u \in Seq(S) /\ Len(u) = Len(s) - 1
      /\ \A i \in 1 .. Len(u) : u[i] = s[i + 1]
  BY HeadTailProperties
<1>2. Len(s) \in Nat /\ Len(s) # 0 BY LenProperties, EmptySeq
<1> HIDE DEF u
<1>3. 1 \in 1 .. Len(s) BY <1>2
<1>4. \A i \in 1 .. Len(s) - 1 : u[i] = IF i < 1 THEN s[i] ELSE s[i + 1]
  BY <1>1, <1>2
<1>5. u = RemoveAt(s, 1) BY <1>1, <1>3, <1>4, IsRemoveAt
<1> QED BY <1>3, <1>5 DEF u

LEMMA PopStep ==
    ASSUME ListInv, Pop
    PROVE  ListInv' /\ Abstract!Pop
<1>1. /\ alive /\ UNCHANGED alive
      /\ IF head = Null THEN Call("pop", {}, Null) /\ UNCHANGED <<listVars, lastFound>>
         ELSE Call("pop", {}, node[head].item) /\ EraseByIterator(head)
  BY DEF Pop
<1>2. lastFound \in Linked \cup {Null} BY <1>1 DEF ListInv, FoundOK
<1>3. PICK c : Chain(c) BY DEF ListInv
<1>4. /\ c = <<>> <=> Len(c) = 0
      /\ c \in [1 .. Len(c) -> Nodes]
      /\ head = IF c = <<>> THEN Null ELSE c[1]
      /\ \A i \in 1 .. Len(c) : node[c[i]].item \in Items
  BY <1>3, ChainFacts DEF Chain, Linking
<1>5. /\ ItemsInOrder \in Seq(Items) /\ Len(c) \in Nat /\ Len(ItemsInOrder) = Len(c)
      /\ \A i \in 1 .. Len(c) : ItemsInOrder[i] = node[c[i]].item
  BY <1>3, ItemsNow DEF ListInv
<1>6. ItemsInOrder = <<>> <=> c = <<>> BY <1>4, <1>5, EmptySeq
<1>7. CASE c = <<>>
  <2>1. CallOK' BY <1>1, <1>4, <1>7 DEF CallOK, Call
  <2>2. ListInv' /\ ItemsInOrder' = ItemsInOrder BY <1>1, <1>2, <1>4, <1>7, <2>1, SameItems
  <2> QED BY <1>1, <1>4, <1>6, <1>7, <2>2 DEF Abstract!Pop, Abstract!Call, Call
<1>8. CASE c # <<>>
  <2>1. 1 \in 1 .. Len(c) /\ head = c[1] /\ head # Null
    <3>1. 1 \in 1 .. Len(c) BY <1>4, <1>5, <1>8
    <3> QED BY <1>4, <1>8, <3>1, ListAssumption
  <2>2. /\ Head(ItemsInOrder) = node[head].item
        /\ Tail(ItemsInOrder) = RemoveAt(ItemsInOrder, 1)
    BY <1>5, <1>6, <1>8, <2>1, TailIsRemoveAt
  <2>3. CallOK' BY <1>1, <1>4, <2>1 DEF CallOK, Call
  <2>4. ListInv' /\ ItemsInOrder' = RemoveAt(ItemsInOrder, 1)
    BY <1>1, <1>3, <2>1, <2>3, Erased
  <2> QED BY <1>1, <1>6, <1>8, <2>1, <2>2, <2>4 DEF Abstract!Pop, Abstract!Call, Call
<1> QED BY <1>7, <1>8

LEMMA FindStep ==
    ASSUME ListInv, NEW S \in SUBSET Items, FindItemIf(S)
    PROVE  ListInv' /\ Abstract!FindItemIf(S)
<1> DEFINE f == FindRangeIf(lastFound, S)
<1>1. /\ alive /\ UNCHANGED alive /\ UNCHANGED listVars /\ lastFound' = Found(lastFound, f)
      /\ Call("find", S, IF f = Null THEN Null ELSE node[f].item)
  BY DEF FindItemIf
<1>2. lastFound \in Linked \cup {Null} BY <1>1 DEF ListInv, FoundOK
<1>3. PICK c : Chain(c) BY DEF ListInv
<1>4. node \in [Nodes -> Node] BY DEF ListInv
<1>5. /\ f \in Linked \cup {Null}
      /\ f # Null => node[f].item \in S
      /\ f = Null => \A n \in Linked : node[n].item \notin S
  BY <1>2, <1>3, <1>4, SearchFinds
<1>6. \A y : y \in Abstract!Held <=> \E n \in Linked : node[n].item = y
  BY <1>3, <1>4, ItemsNow
<1> HIDE DEF f
<1>7. CallOK' BY <1>1, <1>5 DEF CallOK, Call
<1>8. lastFound' \in Linked \cup {Null} BY <1>1, <1>2, <1>5 DEF Found
<1>9. ListInv' /\ ItemsInOrder' = ItemsInOrder BY <1>1, <1>7, <1>8, SameItems
<1>10. CASE f = Null
  <2>1. S \cap Abstract!Held = {} BY <1>5, <1>6, <1>10
  <2> QED BY <1>1, <1>9, <1>10, <2>1 DEF Abstract!FindItemIf, Abstract!Call, Call
<1>11. CASE f # Null
  <2>1. node[f].item \in S \cap Abstract!Held BY <1>5, <1>6, <1>11
  <2> QED BY <1>1, <1>9, <1>11, <2>1 DEF Abstract!FindItemIf, Abstract!Call, Call
<1> QED BY <1>10, <1>11
LEMMA NextStep ==
    ASSUME ListInv, NEW x \in Items, GetNextItem(x)
    PROVE  ListInv' /\ Abstract!GetNextItem(x)
<1> DEFINE f == FindRangeIf(lastFound, {x})
           m == IF f = Null THEN Null ELSE node[f].next
<1>1. /\ alive /\ UNCHANGED alive /\ UNCHANGED listVars /\ lastFound' = Found(lastFound, f)
      /\ Call("next", {x}, IF m = Null THEN Null ELSE node[m].item)
  BY DEF GetNextItem, Neighbour
<1>2. lastFound \in Linked \cup {Null} BY <1>1 DEF ListInv, FoundOK
<1>3. /\ f \in Linked \cup {Null} /\ Found(lastFound, f) \in Linked \cup {Null}
      /\ f # Null <=> x \in Abstract!Held
      /\ f # Null => node[f].item = x
  BY <1>2, LookUp
<1> HIDE DEF f
<1>4. PICK c : Chain(c) BY DEF ListInv
<1>5. /\ ItemsInOrder \in Seq(Items) /\ Len(c) \in Nat /\ Len(ItemsInOrder) = Len(c)
      /\ DOMAIN ItemsInOrder = 1 .. Len(c)
      /\ \A i \in 1 .. Len(c) : ItemsInOrder[i] = node[c[i]].item
      /\ \A i, j \in 1 .. Len(c) : ItemsInOrder[i] = ItemsInOrder[j] => i = j
  BY <1>4, ItemsNow DEF ListInv
<1>6. \A i \in 1 .. Len(c) : c[i] # Null /\ node[c[i]].item \in Items
  BY <1>4, ChainFacts, ListAssumption DEF Chain
<1>7. CASE f = Null
  <2>1. m = Null BY <1>7
  <2>2. CallOK' BY <1>1, <2>1 DEF CallOK, Call
  <2>3. ListInv' /\ ItemsInOrder' = ItemsInOrder BY <1>1, <1>3, <2>2, SameItems
  <2>4. ~\E i \in DOMAIN ItemsInOrder : ItemsInOrder[i] = x
    BY <1>3, <1>7 DEF Abstract!Held, Abstract!ToSet
  <2> QED BY <1>1, <2>1, <2>3, <2>4 DEF Abstract!GetNextItem, Abstract!Call, Call
<1>8. CASE f # Null
  <2>1. PICK k \in 1 .. Len(c) : /\ ItemsInOrder[k] = x
                                 /\ m = IF k = Len(c) THEN Null ELSE c[k + 1]
    BY <1>3, <1>4, <1>8, Place
  <2> HIDE DEF m
  <2>2. \A i \in DOMAIN ItemsInOrder : ItemsInOrder[i] = x => i = k BY <1>5, <2>1
  <2>3. CASE k = Len(c)
    <3>1. CallOK' BY <1>1, <2>1, <2>3 DEF CallOK, Call
    <3>2. ListInv' /\ ItemsInOrder' = ItemsInOrder BY <1>1, <1>3, <3>1, SameItems
    <3>3. ~\E i \in DOMAIN ItemsInOrder : ItemsInOrder[i] = x /\ i < Len(ItemsInOrder)
      BY <1>5, <2>2, <2>3
    <3> QED BY <1>1, <2>1, <2>3, <3>2, <3>3 DEF Abstract!GetNextItem, Abstract!Call, Call
  <2>4. CASE k # Len(c)
    <3>0. Len(c) \in Nat /\ Len(ItemsInOrder) = Len(c) BY <1>5
    <3>1. k + 1 \in 1 .. Len(c) /\ k < Len(ItemsInOrder) BY <2>4, <3>0
    <3>2. m # Null /\ node[m].item = ItemsInOrder[k + 1] /\ node[m].item \in Items
      BY <1>5, <1>6, <2>1, <2>4, <3>1
    <3>3. CallOK' BY <1>1, <3>2 DEF CallOK, Call
    <3>4. ListInv' /\ ItemsInOrder' = ItemsInOrder BY <1>1, <1>3, <3>3, SameItems
    <3>5. k \in DOMAIN ItemsInOrder BY <1>5
    <3> QED BY <1>1, <2>1, <3>1, <3>2, <3>4, <3>5 DEF Abstract!GetNextItem, Abstract!Call, Call
  <2> QED BY <2>3, <2>4
<1> QED BY <1>7, <1>8

LEMMA PreviousStep ==
    ASSUME ListInv, NEW x \in Items, GetPreviousItem(x)
    PROVE  ListInv' /\ Abstract!GetPreviousItem(x)
<1> DEFINE f == FindRangeIf(lastFound, {x})
           m == IF f = Null THEN Null ELSE node[f].previous
<1>1. /\ alive /\ UNCHANGED alive /\ UNCHANGED listVars /\ lastFound' = Found(lastFound, f)
      /\ Call("previous", {x}, IF m = Null THEN Null ELSE node[m].item)
  BY DEF GetPreviousItem, Neighbour
<1>2. lastFound \in Linked \cup {Null} BY <1>1 DEF ListInv, FoundOK
<1>3. /\ f \in Linked \cup {Null} /\ Found(lastFound, f) \in Linked \cup {Null}
      /\ f # Null <=> x \in Abstract!Held
      /\ f # Null => node[f].item = x
  BY <1>2, LookUp
<1> HIDE DEF f
<1>4. PICK c : Chain(c) BY DEF ListInv
<1>5. /\ ItemsInOrder \in Seq(Items) /\ Len(c) \in Nat /\ Len(ItemsInOrder) = Len(c)
      /\ DOMAIN ItemsInOrder = 1 .. Len(c)
      /\ \A i \in 1 .. Len(c) : ItemsInOrder[i] = node[c[i]].item
      /\ \A i, j \in 1 .. Len(c) : ItemsInOrder[i] = ItemsInOrder[j] => i = j
  BY <1>4, ItemsNow DEF ListInv
<1>6. \A i \in 1 .. Len(c) : c[i] # Null /\ node[c[i]].item \in Items
  BY <1>4, ChainFacts, ListAssumption DEF Chain
<1>7. CASE f = Null
  <2>1. m = Null BY <1>7
  <2>2. CallOK' BY <1>1, <2>1 DEF CallOK, Call
  <2>3. ListInv' /\ ItemsInOrder' = ItemsInOrder BY <1>1, <1>3, <2>2, SameItems
  <2>4. ~\E i \in DOMAIN ItemsInOrder : ItemsInOrder[i] = x
    BY <1>3, <1>7 DEF Abstract!Held, Abstract!ToSet
  <2> QED BY <1>1, <2>1, <2>3, <2>4 DEF Abstract!GetPreviousItem, Abstract!Call, Call
<1>8. CASE f # Null
  <2>1. PICK k \in 1 .. Len(c) : /\ ItemsInOrder[k] = x
                                 /\ m = IF k = 1 THEN Null ELSE c[k - 1]
    BY <1>3, <1>4, <1>8, Place
  <2> HIDE DEF m
  <2>2. \A i \in DOMAIN ItemsInOrder : ItemsInOrder[i] = x => i = k BY <1>5, <2>1
  <2>3. CASE k = 1
    <3>1. CallOK' BY <1>1, <2>1, <2>3 DEF CallOK, Call
    <3>2. ListInv' /\ ItemsInOrder' = ItemsInOrder BY <1>1, <1>3, <3>1, SameItems
    <3>3. ~\E i \in DOMAIN ItemsInOrder : ItemsInOrder[i] = x /\ i > 1
      BY <1>5, <2>2, <2>3
    <3> QED BY <1>1, <2>1, <2>3, <3>2, <3>3 DEF Abstract!GetPreviousItem, Abstract!Call, Call
  <2>4. CASE k # 1
    <3>1. k - 1 \in 1 .. Len(c) /\ k > 1 BY <1>5, <2>4
    <3>2. m # Null /\ node[m].item = ItemsInOrder[k - 1] /\ node[m].item \in Items
      BY <1>5, <1>6, <2>1, <2>4, <3>1
    <3>3. CallOK' BY <1>1, <3>2 DEF CallOK, Call
    <3>4. ListInv' /\ ItemsInOrder' = ItemsInOrder BY <1>1, <1>3, <3>3, SameItems
    <3>5. k \in DOMAIN ItemsInOrder BY <1>5
    <3> QED BY <1>1, <2>1, <3>1, <3>2, <3>4, <3>5
            DEF Abstract!GetPreviousItem, Abstract!Call, Call
  <2> QED BY <2>3, <2>4
<1> QED BY <1>7, <1>8

(* An empty list has an empty chain. *)
LEMMA EmptyChain ==
    ASSUME Empty
    PROVE  /\ node' \in [Nodes -> Node] /\ Chain(<<>>)'
           /\ ItemsInOrder' = <<>>
<1>1. /\ head' = Null /\ tail' = Null /\ size' = 0 /\ node' = [n \in Nodes |-> Blank]
  BY DEF Empty
<1>2. node' \in [Nodes -> Node] /\ Linked' = {} BY <1>1 DEF Blank, Node, Linked
<1>3. PICK e : e = <<>> OBVIOUS
<1>4. e \in Seq(Nodes) /\ Len(e) = 0 /\ DOMAIN e = {} /\ 1 .. Len(e) = {} BY <1>3
<1>5. Range(e) = {} /\ IsInjective(e) BY <1>4 DEF Range, IsInjective
<1>6. Chain(e)' BY <1>1, <1>2, <1>3, <1>4, <1>5 DEF Chain, Linking
<1>7. ItemsInOrder' \in Seq(Items) /\ Len(ItemsInOrder') = 0 BY <1>2, <1>4, <1>6, ItemsThen
<1>8. ItemsInOrder' = <<>> BY <1>7, EmptySeq
<1> QED BY <1>2, <1>3, <1>6, <1>8

LEMMA ClearStep ==
    ASSUME ListInv, Clear \/ Destroy
    PROVE  ListInv' /\ Abstract!Clear
<1>1. Empty /\ lastFound' = lastFound BY DEF Clear, Destroy
<1>2. /\ node' \in [Nodes -> Node] /\ Chain(<<>>)' /\ ItemsInOrder' = <<>>
  BY <1>1, EmptyChain
<1>3. Call("clear", {}, Null) \/ Call("destroy", {}, Null) BY DEF Clear, Destroy
<1>4. CallOK' BY <1>3 DEF CallOK, Call
<1>5. FoundOK' /\ alive' \in BOOLEAN
  BY <1>1 DEF ListInv, FoundOK, Clear, Destroy
<1>6. ListInv' BY <1>2, <1>4, <1>5 DEF ListInv
<1> QED BY <1>2, <1>3, <1>6 DEF Abstract!Clear, Abstract!Call, Call

-----------------------------------------------------------------------------
(* The specification. *)

LEMMA ListInit == Init => ListInv /\ Abstract!Init
<1> SUFFICES ASSUME Init PROVE ListInv /\ Abstract!Init OBVIOUS
<1>1. /\ head = Null /\ tail = Null /\ size = 0 /\ lastFound = Null
      /\ node = [n \in Nodes |-> Blank] /\ alive = TRUE
      /\ last = [op |-> "create", args |-> {}, ret |-> Null]
  BY DEF Init
<1>2. node \in [Nodes -> Node] /\ Linked = {} BY <1>1 DEF Blank, Node, Linked
<1>3. PICK e : e = <<>> OBVIOUS
<1>4. e \in Seq(Nodes) /\ Len(e) = 0 /\ DOMAIN e = {} /\ 1 .. Len(e) = {} BY <1>3
<1>5. Range(e) = {} /\ IsInjective(e) BY <1>4 DEF Range, IsInjective
<1>6. Chain(e) BY <1>1, <1>2, <1>3, <1>4, <1>5 DEF Chain, Linking
<1>7. ItemsInOrder \in Seq(Items) /\ Len(ItemsInOrder) = 0 BY <1>2, <1>4, <1>6, ItemsNow
<1>8. ItemsInOrder = <<>> BY <1>7, EmptySeq
<1>9. FoundOK /\ CallOK BY <1>1 DEF FoundOK, CallOK, NodeOrNull
<1> QED BY <1>1, <1>2, <1>6, <1>8, <1>9 DEF ListInv, Abstract!Init

LEMMA ListStep == ListInv /\ [Next]_vars => ListInv' /\ [Abstract!Next]_(Abstract!vars)
<1> SUFFICES ASSUME ListInv, [Next]_vars
             PROVE  ListInv' /\ [Abstract!Next]_(Abstract!vars)
  OBVIOUS
<1>1. CASE Pop BY <1>1, PopStep DEF Abstract!Next
<1>2. CASE Clear \/ Destroy BY <1>2, ClearStep DEF Abstract!Next
<1>3. ASSUME NEW x \in Items, Push(x) PROVE ListInv' /\ [Abstract!Next]_(Abstract!vars)
  BY <1>3, PushStep DEF Abstract!Next
<1>4. ASSUME NEW x \in Items, EraseByItem(x)
      PROVE  ListInv' /\ [Abstract!Next]_(Abstract!vars)
  BY <1>4, EraseItemStep DEF Abstract!Next
<1>5. ASSUME NEW x \in Items, GetNextItem(x)
      PROVE  ListInv' /\ [Abstract!Next]_(Abstract!vars)
  BY <1>5, NextStep DEF Abstract!Next
<1>6. ASSUME NEW x \in Items, GetPreviousItem(x)
      PROVE  ListInv' /\ [Abstract!Next]_(Abstract!vars)
  BY <1>6, PreviousStep DEF Abstract!Next
<1>7. ASSUME NEW x \in Items, NEW y \in Items, InsertByItem(y, x)
      PROVE  ListInv' /\ [Abstract!Next]_(Abstract!vars)
  BY <1>7, InsertStep DEF Abstract!Next
<1>8. ASSUME NEW S \in SUBSET Items, FindItemIf(S)
      PROVE  ListInv' /\ [Abstract!Next]_(Abstract!vars)
  BY <1>8, FindStep DEF Abstract!Next
<1>9. CASE UNCHANGED vars
  <2>1. /\ UNCHANGED listVars /\ lastFound' = lastFound /\ alive' = alive /\ last' = last
    BY <1>9 DEF vars
  <2>2. ItemsInOrder' = ItemsInOrder /\ Linked' = Linked
    BY <2>1 DEF listVars, ItemsInOrder, Linked
  <2>3. PICK c : Chain(c) BY DEF ListInv
  <2>4. Chain(c)' BY <2>1, <2>2, <2>3 DEF Chain, Linking, listVars
  <2>5. ListInv' BY <2>1, <2>2, <2>4 DEF ListInv, FoundOK, CallOK, listVars
  <2> QED BY <2>1, <2>2, <2>5 DEF Abstract!vars
<1> QED BY <1>1, <1>2, <1>3, <1>4, <1>5, <1>6, <1>7, <1>8, <1>9 DEF Next

(* What the chain says of the nodes one by one. *)
LEMMA ListFacts == ListInv => TypeOK /\ WellLinked
<1> SUFFICES ASSUME ListInv PROVE TypeOK /\ WellLinked OBVIOUS
<1>1. PICK c : Chain(c) BY DEF ListInv
<1> DEFINE L == Len(c)
<1>2. /\ L \in 0 .. N /\ L = Cardinality(Linked) /\ (c = <<>> <=> L = 0)
      /\ \A i \in 1 .. L : c[i] \in Linked
      /\ \A n \in Linked : \E i \in 1 .. L : n = c[i]
      /\ \A i, j \in 1 .. L : c[i] = c[j] => i = j
  BY <1>1, ChainFacts
<1>3. /\ size = L
      /\ head = (IF c = <<>> THEN Null ELSE c[1])
      /\ tail = (IF c = <<>> THEN Null ELSE c[L])
      /\ \A i \in 1 .. L : /\ node[c[i]].next = IF i = L THEN Null ELSE c[i + 1]
                           /\ node[c[i]].previous = IF i = 1 THEN Null ELSE c[i - 1]
      /\ \A i \in 1 .. L : node[c[i]].item \in Items
  BY <1>1 DEF Chain, Linking
<1> HIDE DEF L
<1>4. L \in Nat /\ (L # 0 => 1 \in 1 .. L /\ L \in 1 .. L) BY <1>2, NodeCount
<1>5. Linked \subseteq Nodes /\ Null \notin Linked BY ListAssumption DEF Linked
<1>6. {head, tail} \subseteq Linked \cup {Null} /\ (head = Null <=> tail = Null)
  BY <1>2, <1>3, <1>4, <1>5
<1>7. TypeOK
  BY <1>2, <1>3, <1>5, <1>6 DEF TypeOK, ListInv, FoundOK, CallOK, NodeOrNull, N
<1>8. ASSUME NEW n \in Linked
      PROVE  /\ node[n].item # Null
             /\ IF node[n].next = Null THEN n = tail
                ELSE node[n].next \in Linked /\ node[node[n].next].previous = n
             /\ IF node[n].previous = Null THEN n = head
                ELSE node[n].previous \in Linked /\ node[node[n].previous].next = n
  <2>1. PICK i \in 1 .. L : n = c[i] BY <1>2
  <2>2. L # 0 /\ c # <<>> BY <1>2, <1>4
  <2>3. node[n].item # Null BY <1>3, <2>1, ListAssumption
  <2>4. IF node[n].next = Null THEN n = tail
        ELSE node[n].next \in Linked /\ node[node[n].next].previous = n
    <3>1. CASE i = L BY <1>3, <2>1, <2>2, <3>1
    <3>2. CASE i # L
      <4>1. i + 1 \in 1 .. L /\ i + 1 # 1 /\ (i + 1) - 1 = i BY <1>4, <3>2
      <4>2. node[n].next = c[i + 1] /\ c[i + 1] \in Linked BY <1>2, <1>3, <2>1, <3>2, <4>1
      <4>3. node[c[i + 1]].previous = c[(i + 1) - 1] BY <1>3, <4>1
      <4> QED BY <1>5, <2>1, <4>1, <4>2, <4>3
    <3> QED BY <3>1, <3>2
  <2>5. IF node[n].previous = Null THEN n = head
        ELSE node[n].previous \in Linked /\ node[node[n].previous].next = n
    <3>1. CASE i = 1 BY <1>3, <2>1, <2>2, <3>1
    <3>2. CASE i # 1
      <4>1. i - 1 \in 1 .. L /\ i - 1 # L /\ (i - 1) + 1 = i BY <1>4, <3>2
      <4>2. node[n].previous = c[i - 1] /\ c[i - 1] \in Linked BY <1>2, <1>3, <2>1, <3>2, <4>1
      <4>3. node[c[i - 1]].next = c[(i - 1) + 1] BY <1>3, <4>1
      <4> QED BY <1>5, <2>1, <4>1, <4>2, <4>3
    <3> QED BY <3>1, <3>2
  <2> QED BY <2>3, <2>4, <2>5
<1>9. WellLinked BY <1>2, <1>3, <1>6, <1>8 DEF WellLinked, ListInv, FoundOK
<1> QED BY <1>7, <1>9

LEMMA ListInvariant == Spec => []ListInv
<1>1. Init => ListInv BY ListInit
<1>2. ListInv /\ [Next]_vars => ListInv' BY ListStep
<1> QED BY <1>1, <1>2, PTL DEF Spec

(* Every variable of the list holds a value of its kind, whatever the nodes are. *)
THEOREM ListTypeCorrect == Spec => []TypeOK
<1>1. ListInv => TypeOK BY ListFacts
<1> QED BY <1>1, ListInvariant, PTL

(* The list keeps its structure through every call: size counts the nodes, the two
   directions agree, and lastFound never leads to a node that was freed. *)
THEOREM ListStaysLinked == Spec => []WellLinked
<1>1. ListInv => WellLinked BY ListFacts
<1> QED BY <1>1, ListInvariant, PTL

(* Wherever lastFound points, the list does what the sequence of ItemSeq does: every
   call returns what it returns there, and changes the items as it does. *)
THEOREM ListImplementsItemSeq == Spec => ImplementsItemSeq
<1>1. Init => Abstract!Init BY ListInit
<1>2. ListInv /\ [Next]_vars => [Abstract!Next]_(Abstract!vars) BY ListStep
<1> QED BY <1>1, <1>2, ListInvariant, PTL DEF Spec, ImplementsItemSeq, Abstract!Spec
=============================================================================
