-------------------------- MODULE BufferPool_proofs --------------------------
(* Theorems about BufferPool, for every number of pools, slots, descriptors and
   addresses, and whatever allocations fail. *)
EXTENDS BufferPool, Integers, SequencesExt, SequenceTheorems, FiniteSetTheorems,
        TLAPS

-----------------------------------------------------------------------------
(* Sequences. *)

(* The head of a sequence, and the rest of it. *)
LEMMA TailRange ==
    ASSUME NEW S, NEW s \in Seq(S), s # <<>>
    PROVE  /\ Head(s) \in S /\ Tail(s) \in Seq(S)
           /\ Len(s) \in Nat /\ Len(Tail(s)) = Len(s) - 1
           /\ Range(s) = {Head(s)} \cup Range(Tail(s))
           /\ IsInjective(s) => IsInjective(Tail(s)) /\ Head(s) \notin Range(Tail(s))
<1> DEFINE t == Tail(s)
<1>1. /\ Head(s) \in S /\ t \in Seq(S) /\ Len(t) = Len(s) - 1
      /\ \A p \in 1 .. Len(t) : t[p] = s[p + 1]
  BY HeadTailProperties
<1>2. DOMAIN s = 1 .. Len(s) /\ Len(s) \in Nat /\ Len(s) # 0 /\ DOMAIN t = 1 .. Len(t)
  BY <1>1, LenProperties, EmptySeq
<1>3. Head(s) = s[1] OBVIOUS
<1> HIDE DEF t
<1>4. \A p \in DOMAIN t : p + 1 \in DOMAIN s /\ t[p] = s[p + 1] /\ p + 1 # 1 BY <1>1, <1>2
<1>5. \A p \in DOMAIN s \ {1} : p - 1 \in DOMAIN t /\ t[p - 1] = s[p]
  <2> TAKE p \in DOMAIN s \ {1}
  <2>1. p - 1 \in DOMAIN t /\ p - 1 + 1 = p BY <1>1, <1>2
  <2> QED BY <1>4, <2>1
<1>6. 1 \in DOMAIN s BY <1>2
<1>7. Range(s) = {Head(s)} \cup Range(t) BY <1>3, <1>4, <1>5, <1>6 DEF Range
<1>8. ASSUME IsInjective(s) PROVE IsInjective(t) /\ Head(s) \notin Range(t)
  <2>1. \A p, q \in DOMAIN t : p + 1 = q + 1 => p = q BY <1>2, <1>1
  <2>2. IsInjective(t) BY <1>4, <1>8, <2>1 DEF IsInjective
  <2>3. Head(s) \notin Range(t) BY <1>3, <1>4, <1>6, <1>8 DEF IsInjective, Range
  <2> QED BY <2>2, <2>3
<1> QED BY <1>1, <1>2, <1>7, <1>8 DEF t

(* An element that goes to the end. *)
LEMMA AppendRange ==
    ASSUME NEW S, NEW s \in Seq(S), NEW x \in S
    PROVE  /\ Append(s, x) \in Seq(S)
           /\ Len(s) \in Nat /\ Len(Append(s, x)) = Len(s) + 1
           /\ Range(Append(s, x)) = Range(s) \cup {x}
           /\ IsInjective(s) /\ x \notin Range(s) => IsInjective(Append(s, x))
<1> DEFINE t == Append(s, x)
<1>1. /\ t \in Seq(S) /\ Len(t) = Len(s) + 1
      /\ \A p \in 1 .. Len(s) : t[p] = s[p]
      /\ t[Len(s) + 1] = x
  BY AppendProperties
<1>2. DOMAIN s = 1 .. Len(s) /\ Len(s) \in Nat /\ DOMAIN t = 1 .. Len(s) + 1
  BY <1>1, LenProperties
<1> HIDE DEF t
<1>3. DOMAIN t = DOMAIN s \cup {Len(s) + 1} /\ Len(s) + 1 \notin DOMAIN s BY <1>2
<1>4. Range(t) = Range(s) \cup {x} BY <1>1, <1>2, <1>3 DEF Range
<1>5. ASSUME IsInjective(s), x \notin Range(s) PROVE IsInjective(t)
  BY <1>1, <1>2, <1>3, <1>5 DEF IsInjective, Range
<1> QED BY <1>1, <1>2, <1>4, <1>5 DEF t

(* A sequence that holds the numbers up to n, each once, has n elements. *)
LEMMA InjectiveLength ==
    ASSUME NEW S, NEW s \in Seq(S), NEW n \in Nat, IsInjective(s), Range(s) = 1 .. n
    PROVE  Len(s) = n
<1>1. DOMAIN s = 1 .. Len(s) /\ Len(s) \in Nat /\ s \in [1 .. Len(s) -> S]
  BY LenProperties
<1>2. s \in [1 .. Len(s) -> 1 .. n] BY <1>1 DEF Range
<1>3. s \in Bijection(1 .. Len(s), 1 .. n)
  <2>1. s \in Injection(1 .. Len(s), 1 .. n) BY <1>1, <1>2 DEF Injection, IsInjective
  <2>2. \A x \in 1 .. n : \E k \in 1 .. Len(s) : s[k] = x BY <1>1 DEF Range
  <2>3. s \in Surjection(1 .. Len(s), 1 .. n) BY <1>2, <2>2 DEF Surjection
  <2> QED BY <2>1, <2>3 DEF Bijection
<1>4. ASSUME NEW m \in Nat PROVE IsFiniteSet(1 .. m) /\ Cardinality(1 .. m) = m
  <2>1. 1 \in Int /\ m \in Int OBVIOUS
  <2>2. IsFiniteSet(1 .. m) /\ Cardinality(1 .. m) = IF 1 > m THEN 0 ELSE m - 1 + 1
    BY <2>1, FS_Interval, Zenon
  <2> QED BY <2>2
<1>5. Cardinality(1 .. n) = Cardinality(1 .. Len(s))
  BY <1>1, <1>3, <1>4, FS_Bijection DEF ExistsBijection
<1> QED BY <1>1, <1>4, <1>5

-----------------------------------------------------------------------------
(* The index of an allocation's loop is bounded by the number asked for. *)
IndexBound == \A p \in Pools : p \notin OnePools /\ Filling(p) => i[p] <= count[p]

(* The size of a pool whose allocations went well is of the array, and bounds the loop
   that frees: alloc_one has counted its calls, alloc has set what it was asked for. *)
SizeBound ==
    \A p \in Pools : ~broken[p] =>
      /\ Freeing(p) => i[p] <= size[p] /\ life[p] = "freed"
      /\ p \in OnePools => size[p] <= count[p] /\ (Filling(p) => size[p] < count[p])
      /\ p \notin OnePools /\ life[p] # "new" /\ ~Filling(p) => size[p] <= MaxSize

(* A thread between two steps of an allocation or a release holds a descriptor, or a
   descriptor and an address, of its own. *)
HasFd(p)   == pc[p] \in {"map", "register", "unmap", "close"}
HasAddr(p) == pc[p] \in {"register", "unmap"}

HeldExact ==
    /\ \A p \in Pools : HasFd(p) =>
         /\ own[p].fd \in open
         /\ \A r \in g_bufferList : r.fd # own[p].fd
         /\ \A q \in Pools : HasFd(q) /\ own[p].fd = own[q].fd => p = q
    /\ \A p \in Pools : HasAddr(p) =>
         /\ own[p].addr \in mapped
         /\ \A r \in g_bufferList : r.addr # own[p].addr
         /\ \A q \in Pools : HasAddr(q) /\ own[p].addr = own[q].addr => p = q

(* Slots are positive numbers, the first is 1. *)
LEMMA SlotType == 1 \in Slots /\ Slots \subseteq Nat
BY PoolAssumption DEF Slots

(* A block with another address is a block. *)
LEMMA BlockUpdate ==
    ASSUME NEW b \in Block, NEW a \in Addrs \cup {Null}
    PROVE  [b EXCEPT !.addr = a] \in Block
BY DEF Block

(* Every step keeps the state well typed and the indices in bounds. *)
LEMMA TypeStep ==
    ASSUME TypeOK, IndexBound, SizeBound, HeldExact, Next
    PROVE  TypeOK' /\ IndexBound'
<1> USE PoolAssumption, SlotType DEF Filling, Freeing
<1>1. PICK p \in Pools :
        \/ \E n \in Slots : AllocCall(p, n)
        \/ AllocOneCall(p) \/ HeapAlloc(p) \/ Map(p) \/ AllocFails(p) \/ Register(p)
        \/ FreeCall(p) \/ Find(p) \/ Unmap(p) \/ Close(p) \/ Recreate(p)
        \/ Get(p) \/ \E s \in Slots : Put(p, s)
  BY DEF Next
<1> USE DEF heapVars, poolVars, threadVars, callerVars, Goto
<1>0. ~Freeing(p) => i[p] \in Slots BY DEF TypeOK
(* The index stays where it is and the pool does not begin or end to be freed. *)
<1>16. ASSUME UNCHANGED <<i, broken>>, NEW l \in {"idle", "map", "register", "close"},
              pc' = [pc EXCEPT ![p] = l], Freeing(p) <=> l = "close"
       PROVE  /\ i' \in [Pools -> Nat \ {0}]
              /\ \A q \in Pools : i'[q] \in Slots \/ (Freeing(q)' /\ broken'[q])
  BY <1>16 DEF TypeOK
<1>2. ASSUME NEW n \in Slots, AllocCall(p, n) PROVE TypeOK' /\ IndexBound'
  <2>1. TypeOK' BY <1>2 DEF AllocCall, TypeOK
  <2>2. IndexBound' BY <1>2, <2>1 DEF AllocCall, TypeOK, IndexBound, Slots
  <2> QED BY <2>1, <2>2
<1>3. CASE AllocOneCall(p)
  <2>1. Len(buf_list[p]) + 1 \in Slots
    <3>1. buf_list[p] \in Seq(Slots) BY DEF TypeOK
    <3>2. Len(buf_list[p]) \in Nat BY <3>1, LenProperties
    <3> QED BY <1>3, <3>2 DEF AllocOneCall, Slots
  <2>2. count[p] + 1 \in Slots
    <3>1. count[p] \in Slots \cup {0} BY DEF TypeOK
    <3>2. count[p] < MaxSize BY <1>3 DEF AllocOneCall
    <3> QED BY <3>1, <3>2 DEF Slots
  <2>3. TypeOK' BY <1>3, <2>1, <2>2 DEF AllocOneCall, TypeOK
  <2>4. IndexBound' BY <1>3, <2>3 DEF AllocOneCall, TypeOK, IndexBound
  <2> QED BY <2>3, <2>4
<1>4. CASE HeapAlloc(p)
  <2>3. i[p] \in Slots BY <1>0, <1>4 DEF HeapAlloc
  <2>4. /\ i' \in [Pools -> Nat \ {0}]
        /\ \A q \in Pools : i'[q] \in Slots \/ (Freeing(q)' /\ broken'[q])
    BY <1>4, <1>16 DEF HeapAlloc
  <2>5. mem_block' \in [Pools -> [Slots -> Block \cup {Junk}]]
    <3>1. NoBlock \in Block BY DEF Block, NoBlock
    <3>2. mem_block' = [mem_block EXCEPT ![p][i[p]] = NoBlock] BY <1>4 DEF HeapAlloc
    <3> QED BY <3>1, <3>2, <2>3 DEF TypeOK
  <2>1. TypeOK' BY <1>4, <2>4, <2>5 DEF HeapAlloc, TypeOK, Block
  <2>2. IndexBound' BY <1>4, <2>1 DEF HeapAlloc, TypeOK, IndexBound
  <2> QED BY <2>1, <2>2
<1>5. CASE Map(p)
  <2>1. own' \in [Pools -> Block]
    <3>1. PICK a \in Addrs : own' = [own EXCEPT ![p].addr = a] BY <1>5 DEF Map
    <3>2. own[p] \in Block BY DEF TypeOK
    <3>3. [own[p] EXCEPT !.addr = a] \in Block BY <3>2, BlockUpdate
    <3> QED BY <3>1, <3>3 DEF TypeOK
  <2>2. TypeOK' BY <1>5, <2>1 DEF Map, TypeOK
  <2>3. IndexBound' BY <1>5, <2>2 DEF Map, TypeOK, IndexBound
  <2> QED BY <2>2, <2>3
<1>6. CASE AllocFails(p)
  <2>3. i[p] \in Slots BY <1>0, <1>6 DEF AllocFails
  <2>4. /\ i' \in [Pools -> Nat \ {0}]
        /\ \A q \in Pools : i'[q] \in Slots \/ (Freeing(q)' /\ broken'[q])
    <3>1. i' = [i EXCEPT ![p] = 1] /\ pc' = [pc EXCEPT ![p] = "idle"]
          /\ broken' = [broken EXCEPT ![p] = TRUE]
      BY <1>6 DEF AllocFails, Return
    <3> QED BY <3>1 DEF TypeOK
  <2>5. mem_block' \in [Pools -> [Slots -> Block \cup {Junk}]]
    <3>1. NoBlock \in Block BY DEF Block, NoBlock
    <3>2. mem_block' = [mem_block EXCEPT ![p][i[p]] = NoBlock] BY <1>6 DEF AllocFails
    <3> QED BY <3>1, <3>2, <2>3 DEF TypeOK
  <2>1. TypeOK' BY <1>6, <2>4, <2>5 DEF AllocFails, Return, TypeOK, Block, NoBlock
  <2>2. IndexBound' BY <1>6, <2>1 DEF AllocFails, Return, TypeOK, IndexBound
  <2> QED BY <2>1, <2>2
<1>7. CASE Register(p)
  <2>1. own[p] \in [fd : Fds, addr : Addrs]
    BY <1>7 DEF Register, HeldExact, HasFd, HasAddr, TypeOK, Block
  <2>9. i[p] \in Slots BY <1>0, <1>7 DEF Register
  <2>2. SizeAfter(p) \in Nat BY DEF SizeAfter, TypeOK, Slots
  <2>3. /\ open' \subseteq Fds /\ mapped' \subseteq Addrs
        /\ g_bufferList' \subseteq [fd : Fds, addr : Addrs]
    BY <1>7, <2>1 DEF Register, TypeOK
  <2>4. size' \in [Pools -> Nat] BY <1>7, <2>2 DEF Register, TypeOK
  <2>5. /\ mem_block' \in [Pools -> [Slots -> Block \cup {Junk}]]
        /\ virAddr' \in [Pools -> [Slots -> Addrs \cup {Null}]]
        /\ own' \in [Pools -> Block]
    BY <1>7, <2>1, <2>9 DEF Register, TypeOK, Block, NoBlock
  <2>6. buf_list' \in [Pools -> Seq(Slots)]
    <3>1. Append(buf_list[p], i[p]) \in Seq(Slots)
      BY <2>9, AppendProperties DEF TypeOK
    <3> QED BY <1>7, <3>1 DEF Register, TypeOK
  <2>7. CASE p \in OnePools \/ i[p] = count[p]
    <3>1. /\ pc' = [pc EXCEPT ![p] = "idle"]
          /\ i' = [i EXCEPT ![p] = 1]
          /\ count' = IF p \in OnePools THEN count ELSE [count EXCEPT ![p] = 0]
      BY <1>7, <2>7 DEF Register, Return
    <3>2. TypeOK' BY <1>7, <3>1, <2>3, <2>4, <2>5, <2>6 DEF Register, TypeOK
    <3>3. IndexBound' BY <3>1, <3>2 DEF TypeOK, IndexBound
    <3> QED BY <3>2, <3>3
  <2>8. CASE ~(p \in OnePools \/ i[p] = count[p])
    <3>1. /\ pc' = [pc EXCEPT ![p] = "heap"]
          /\ i' = [i EXCEPT ![p] = @ + 1]
          /\ count' = count
      BY <1>7, <2>8 DEF Register
    <3>2. i[p] + 1 <= count[p] /\ i[p] + 1 \in Slots
      <4>1. i[p] <= count[p] BY <1>7, <2>8 DEF Register, IndexBound
      <4>2. i[p] \in Slots /\ count[p] \in Slots \cup {0} BY <2>9 DEF TypeOK
      <4> QED BY <4>1, <4>2, <2>8 DEF Slots
    <3>3. TypeOK' BY <1>7, <3>1, <3>2, <2>3, <2>4, <2>5, <2>6 DEF Register, TypeOK
    <3>4. IndexBound' BY <3>1, <3>2, <3>3 DEF TypeOK, IndexBound
    <3> QED BY <3>3, <3>4
  <2> QED BY <2>7, <2>8
<1>8. CASE FreeCall(p)
  <2>1. TypeOK' BY <1>8 DEF FreeCall, TypeOK
  <2>2. IndexBound' BY <1>8, <2>1 DEF FreeCall, TypeOK, IndexBound
  <2> QED BY <2>1, <2>2
<1>9. ASSUME NextBlock(p), Freeing(p), UNCHANGED broken
      PROVE  /\ i' \in [Pools -> Nat \ {0}]
             /\ \A q \in Pools : i'[q] \in Slots \/ (Freeing(q)' /\ broken'[q])
  <2>1. \A q \in Pools : q # p => i'[q] = i[q] /\ pc'[q] = pc[q]
    BY <1>9 DEF NextBlock, TypeOK
  <2>2. CASE i[p] < size[p]
    <3>1. i'[p] = i[p] + 1 /\ pc'[p] = "find" BY <1>9, <2>2 DEF NextBlock, TypeOK
    <3>2. ASSUME ~broken[p] PROVE size[p] <= MaxSize
      <4>1. pc[p] \notin {"heap", "map", "register"} /\ life[p] # "new"
        BY <1>9, <3>2 DEF SizeBound
      <4>2. p \in OnePools => size[p] <= count[p] BY <3>2 DEF SizeBound
      <4>3. p \notin OnePools => size[p] <= MaxSize BY <3>2, <4>1 DEF SizeBound
      <4>4. count[p] \in Slots \cup {0} /\ size[p] \in Nat BY DEF TypeOK
      <4>5. count[p] <= MaxSize /\ count[p] \in Nat BY <4>4 DEF Slots
      <4> QED BY <4>2, <4>3, <4>4, <4>5
    <3>3. ~broken[p] => i'[p] \in Slots BY <2>2, <3>1, <3>2 DEF TypeOK, Slots
    <3>4. i' = [i EXCEPT ![p] = @ + 1] BY <1>9, <2>2 DEF NextBlock
    <3>5. i' \in [Pools -> Nat \ {0}]
      <4>1. i[p] + 1 \in Nat \ {0} BY DEF TypeOK
      <4> QED BY <3>4, <4>1 DEF TypeOK
    <3>6. broken[p] \in BOOLEAN BY DEF TypeOK
    <3>7. i'[p] \in Slots \/ (Freeing(p)' /\ broken'[p]) BY <1>9, <3>1, <3>3, <3>6
    <3>8. ASSUME NEW q \in Pools, q # p PROVE i'[q] \in Slots \/ (Freeing(q)' /\ broken'[q])
      BY <1>9, <2>1, <3>8 DEF TypeOK
    <3> QED BY <3>5, <3>7, <3>8
  <2>3. CASE ~(i[p] < size[p])
    <3>1. i'[p] = 1 BY <1>9, <2>3 DEF NextBlock, TypeOK
    <3> QED BY <1>9, <2>1, <2>3, <3>1 DEF NextBlock, TypeOK
  <2> QED BY <2>2, <2>3
<1>10. CASE Find(p)
  <2>1. \/ /\ i' = i /\ pc' = [pc EXCEPT ![p] = "unmap"]
           /\ \E r \in g_bufferList : own' = [own EXCEPT ![p] = r]
        \/ /\ own' = own /\ NextBlock(p)
    BY <1>10 DEF Find
  <2>0. pc[p] = "find" /\ UNCHANGED broken BY <1>10 DEF Find
  <2>2. g_bufferList' \subseteq g_bufferList BY <1>10 DEF Find
  <2>3. /\ i' \in [Pools -> Nat \ {0}]
        /\ \A q \in Pools : i'[q] \in Slots \/ (Freeing(q)' /\ broken'[q])
    <3>1. CASE i' = i /\ pc' = [pc EXCEPT ![p] = "unmap"]
      <4>1. \A q \in Pools : Freeing(q)' <=> Freeing(q) BY <2>0, <3>1 DEF TypeOK
      <4> QED BY <2>0, <3>1, <4>1 DEF TypeOK
    <3>2. CASE NextBlock(p) BY <2>0, <3>2, <1>9
    <3> QED BY <2>1, <3>1, <3>2
  <2>4. own' \in [Pools -> Block]
    <3>1. \A r \in g_bufferList : r \in Block BY DEF TypeOK, Block
    <3>2. own \in [Pools -> Block] BY DEF TypeOK
    <3> QED BY <2>1, <3>1, <3>2
  <2>5. \/ pc' = [pc EXCEPT ![p] = "unmap"]
        \/ pc' = [pc EXCEPT ![p] = "find"]
        \/ pc' = [pc EXCEPT ![p] = "idle"]
    BY <2>1 DEF NextBlock
  <2>6. TypeOK' BY <1>10, <2>2, <2>3, <2>4, <2>5 DEF Find, TypeOK
  <2>7. IndexBound'
    <3>1. ~Filling(p)' BY <2>5 DEF TypeOK
    <3>2. \A q \in Pools : q # p => Filling(q)' = Filling(q) BY <2>5 DEF TypeOK
    <3>3. \A q \in Pools : q # p => i'[q] = i[q] BY <2>1 DEF NextBlock, TypeOK
    <3>4. count' = count BY <1>10 DEF Find
    <3> QED BY <3>1, <3>2, <3>3, <3>4 DEF IndexBound
  <2> QED BY <2>6, <2>7
<1>11. CASE Unmap(p)
  <2>1. [own[p] EXCEPT !.addr = Null] \in Block
    <3>1. own[p] \in Block BY DEF TypeOK
    <3> QED BY <3>1, BlockUpdate
  <2>2. TypeOK' BY <1>11, <2>1 DEF Unmap, TypeOK
  <2>3. IndexBound' BY <1>11, <2>2 DEF Unmap, TypeOK, IndexBound
  <2> QED BY <2>2, <2>3
<1>12. CASE Close(p)
  <2>1. /\ i' \in [Pools -> Nat \ {0}]
        /\ \A q \in Pools : i'[q] \in Slots \/ (Freeing(q)' /\ broken'[q])
    BY <1>12, <1>9 DEF Close
  <2>2. TypeOK' BY <1>12, <2>1 DEF Close, NextBlock, TypeOK, Block, NoBlock
  <2>3. IndexBound'
    <3>1. ~Filling(p)' BY <1>12 DEF Close, NextBlock, TypeOK
    <3>2. \A q \in Pools : q # p => /\ Filling(q)' = Filling(q)
                                     /\ i'[q] = i[q]
      BY <1>12 DEF Close, NextBlock, TypeOK
    <3>3. count' = count BY <1>12 DEF Close
    <3> QED BY <3>1, <3>2, <3>3 DEF IndexBound
  <2> QED BY <2>2, <2>3
<1>13. CASE Recreate(p)
  <2>1. TypeOK' BY <1>13 DEF Recreate, TypeOK
  <2>2. IndexBound' BY <1>13, <2>1 DEF Recreate, TypeOK, IndexBound
  <2> QED BY <2>1, <2>2
<1>14. CASE Get(p)
  <2>1. Tail(buf_list[p]) \in Seq(Slots) /\ Head(buf_list[p]) \in Slots
    BY <1>14, HeadTailProperties DEF Get, TypeOK
  <2>2. TypeOK' BY <1>14, <2>1 DEF Get, TypeOK
  <2>3. IndexBound' BY <1>14, <2>2 DEF Get, TypeOK, IndexBound
  <2> QED BY <2>2, <2>3
<1>15. ASSUME NEW s \in Slots, Put(p, s) PROVE TypeOK' /\ IndexBound'
  <2>1. buf_list' \in [Pools -> Seq(Slots)]
    <3>1. CASE buf_list' = buf_list BY <3>1 DEF TypeOK
    <3>2. ASSUME NEW first \in Slots,
                 buf_list' = [buf_list EXCEPT ![p] =
                               IF Contains(@, first) THEN @ ELSE Append(@, first)]
          PROVE  buf_list' \in [Pools -> Seq(Slots)]
      <4>1. Append(buf_list[p], first) \in Seq(Slots) BY AppendProperties DEF TypeOK
      <4> QED BY <3>2, <4>1 DEF TypeOK
    <3> QED BY <1>15, <3>1, <3>2 DEF Put, SlotsAt
  <2>2. TypeOK' BY <1>15, <2>1 DEF Put, TypeOK
  <2>3. IndexBound' BY <1>15, <2>2 DEF Put, TypeOK, IndexBound
  <2> QED BY <2>2, <2>3
<1> QED BY <1>1, <1>2, <1>3, <1>4, <1>5, <1>6, <1>7, <1>8, <1>10, <1>11, <1>12, <1>13,
        <1>14, <1>15

(* The steps keep the sizes bounded. *)
LEMMA SizeStep ==
    ASSUME TypeOK, TypeOK', SizeBound, Next PROVE SizeBound'
<1> USE PoolAssumption DEF Filling, Freeing, Goto, heapVars, poolVars, threadVars, callerVars
<1>1. PICK p \in Pools :
        \/ \E n \in Slots : AllocCall(p, n)
        \/ AllocOneCall(p) \/ HeapAlloc(p) \/ Map(p) \/ AllocFails(p) \/ Register(p)
        \/ FreeCall(p) \/ Find(p) \/ Unmap(p) \/ Close(p) \/ Recreate(p)
        \/ Get(p) \/ \E s \in Slots : Put(p, s)
  BY DEF Next
<1>2. ASSUME NEW n \in Slots, AllocCall(p, n) PROVE SizeBound'
  BY <1>2 DEF AllocCall, TypeOK, SizeBound
<1>3. CASE AllocOneCall(p)
  <2>1. /\ pc[p] = "idle" /\ UNCHANGED <<size, broken>> /\ p \in OnePools
        /\ count' = [count EXCEPT ![p] = @ + 1] /\ pc' = [pc EXCEPT ![p] = "heap"]
        /\ life' = [life EXCEPT ![p] = "filled"]
        /\ \A q \in Pools \ {p} : i'[q] = i[q]
    BY <1>3 DEF AllocOneCall, TypeOK
  <2>2. count[p] \in Nat /\ size[p] \in Nat BY DEF TypeOK, Slots
  <2> QED BY <2>1, <2>2 DEF TypeOK, SizeBound
<1>4. CASE HeapAlloc(p) BY <1>4 DEF HeapAlloc, TypeOK, SizeBound
<1>5. CASE Map(p) BY <1>5 DEF Map, TypeOK, SizeBound
<1>6. CASE AllocFails(p) BY <1>6 DEF AllocFails, Return, TypeOK, SizeBound
<1>7. CASE Register(p)
  <2>1. CASE p \in OnePools \/ i[p] = count[p]
    BY <1>7, <2>1 DEF Register, Return, SizeAfter, TypeOK, SizeBound, Slots
  <2>2. CASE ~(p \in OnePools \/ i[p] = count[p])
    BY <1>7, <2>2 DEF Register, SizeAfter, TypeOK, SizeBound
  <2> QED BY <2>1, <2>2
<1>8. CASE FreeCall(p) BY <1>8 DEF FreeCall, TypeOK, SizeBound
<1>9. CASE Find(p)
  <2>1. /\ pc[p] = "find" /\ UNCHANGED <<size, count, life, broken>>
        /\ \/ i' = i /\ pc' = [pc EXCEPT ![p] = "unmap"]
           \/ NextBlock(p)
    BY <1>9 DEF Find
  <2> QED BY <2>1 DEF NextBlock, TypeOK, SizeBound
<1>10. CASE Unmap(p) BY <1>10 DEF Unmap, TypeOK, SizeBound
<1>11. CASE Close(p) BY <1>11 DEF Close, NextBlock, TypeOK, SizeBound
<1>12. CASE Recreate(p)
  <2>1. PICK n \in Garbage :
          /\ size' = [size EXCEPT ![p] = n]
          /\ broken' = [broken EXCEPT ![p] = @ \/ (p \in OnePools /\ n # 0)]
    BY <1>12 DEF Recreate
  <2>2. \A q \in Pools : ~broken'[q] => ~broken[q] /\ (q = p => ~(p \in OnePools /\ n # 0))
    BY <2>1, Zenon DEF TypeOK
  <2>3. /\ UNCHANGED <<pc, i>> /\ pc[p] = "idle" /\ size'[p] = n /\ count'[p] = 0
        /\ life'[p] = "new"
        /\ \A q \in Pools \ {p} : size'[q] = size[q] /\ count'[q] = count[q]
                                   /\ life'[q] = life[q]
    BY <1>12, <2>1 DEF Recreate, TypeOK
  <2>4. ASSUME NEW q \in Pools, q # p, ~broken'[q]
        PROVE  /\ Freeing(q)' => i'[q] <= size'[q] /\ life'[q] = "freed"
               /\ q \in OnePools => size'[q] <= count'[q] /\ (Filling(q)' => size'[q] < count'[q])
               /\ q \notin OnePools /\ life'[q] # "new" /\ ~Filling(q)' => size'[q] <= MaxSize
    BY <2>2, <2>3, <2>4 DEF SizeBound
  <2>5. ASSUME ~broken'[p]
        PROVE  /\ ~Freeing(p)' /\ ~Filling(p)' /\ life'[p] = "new"
               /\ p \in OnePools => size'[p] <= count'[p]
    BY <2>2, <2>3, <2>5
  <2> QED BY <2>4, <2>5 DEF SizeBound
<1>13. CASE Get(p) BY <1>13 DEF Get, TypeOK, SizeBound
<1>14. ASSUME NEW s \in Slots, Put(p, s) PROVE SizeBound'
  <2>1. UNCHANGED <<size, count, life, broken, pc, i>> BY <1>14 DEF Put
  <2> QED BY <2>1 DEF SizeBound
<1> QED BY <1>1, <1>2, <1>3, <1>4, <1>5, <1>6, <1>7, <1>8, <1>9, <1>10, <1>11, <1>12, <1>13,
        <1>14

(* The steps keep the registry exact and what the threads hold their own. *)
LEMMA ExactStep ==
    ASSUME TypeOK, RegistryExact, HeldExact, Next
    PROVE  RegistryExact' /\ HeldExact'
<1> USE PoolAssumption DEF HasFd, HasAddr
<1>1. PICK p \in Pools :
        \/ \E n \in Slots : AllocCall(p, n)
        \/ AllocOneCall(p) \/ HeapAlloc(p) \/ Map(p) \/ AllocFails(p) \/ Register(p)
        \/ FreeCall(p) \/ Find(p) \/ Unmap(p) \/ Close(p) \/ Recreate(p)
        \/ Get(p) \/ \E s \in Slots : Put(p, s)
  BY DEF Next
(* A step that neither touches the kernel or the registry nor takes or drops
   anything. *)
<1>2. ASSUME UNCHANGED <<heapVars, own>>,
             \/ UNCHANGED pc
             \/ \E l \in {"idle", "heap", "find"} : pc' = [pc EXCEPT ![p] = l]
      PROVE  RegistryExact' /\ HeldExact'
  <2>1. \A q \in Pools : (HasFd(q)' => HasFd(q)) /\ (HasAddr(q)' => HasAddr(q))
    BY <1>2 DEF TypeOK
  <2>2. RegistryExact' BY <1>2 DEF RegistryExact, heapVars
  <2>3. HeldExact' BY <1>2, <2>1 DEF HeldExact, heapVars
  <2> QED BY <2>2, <2>3
<1>3. ASSUME NEW n \in Slots, AllocCall(p, n) PROVE RegistryExact' /\ HeldExact'
  BY <1>2, <1>3 DEF AllocCall, Goto
<1>4. CASE AllocOneCall(p) BY <1>2, <1>4 DEF AllocOneCall, Goto
<1>5. CASE FreeCall(p) BY <1>2, <1>5 DEF FreeCall, Goto
<1>6. CASE Recreate(p) BY <1>2, <1>6 DEF Recreate
<1>7. CASE Get(p) BY <1>2, <1>7 DEF Get, threadVars
<1>8. ASSUME NEW s \in Slots, Put(p, s) PROVE RegistryExact' /\ HeldExact'
  BY <1>2, <1>8 DEF Put, threadVars
<1>9. CASE HeapAlloc(p)
  <2>1. PICK f \in Fds \ open :
          /\ open' = open \cup {f}
          /\ own' = [own EXCEPT ![p] = [fd |-> f, addr |-> Null]]
    BY <1>9 DEF HeapAlloc
  <2>2. /\ pc' = [pc EXCEPT ![p] = "map"]
        /\ UNCHANGED <<mapped, g_bufferList>>
    BY <1>9 DEF HeapAlloc, Goto
  <2>3. RegistryExact' BY <2>1, <2>2 DEF RegistryExact
  <2>4. HeldExact' BY <2>1, <2>2 DEF HeldExact, RegistryExact, TypeOK
  <2> QED BY <2>3, <2>4
<1>10. CASE Map(p)
  <2>1. PICK a \in Addrs \ mapped :
          /\ mapped' = mapped \cup {a}
          /\ own' = [own EXCEPT ![p].addr = a]
    BY <1>10 DEF Map
  <2>2. /\ pc[p] = "map" /\ pc' = [pc EXCEPT ![p] = "register"]
        /\ UNCHANGED <<open, g_bufferList>>
    BY <1>10 DEF Map, Goto
  <2>3. /\ own'[p].addr = a /\ own'[p].fd = own[p].fd
        /\ \A q \in Pools \ {p} : own'[q] = own[q]
    BY <2>1 DEF TypeOK, Block
  <2>4. RegistryExact' BY <2>1, <2>2 DEF RegistryExact
  <2>5. \A q \in Pools : own'[q].fd = own[q].fd BY <2>3
  <2>6. HeldExact' BY <2>1, <2>2, <2>3, <2>5 DEF HeldExact, RegistryExact, TypeOK
  <2> QED BY <2>4, <2>6
<1>11. CASE AllocFails(p)
  <2>1. /\ pc' = [pc EXCEPT ![p] = "idle"]
        /\ own' = [own EXCEPT ![p] = NoBlock]
        /\ UNCHANGED <<open, mapped, g_bufferList>>
    BY <1>11 DEF AllocFails, Return, Goto, heapVars
  <2>2. RegistryExact' BY <2>1 DEF RegistryExact
  <2>3. HeldExact' BY <2>1 DEF HeldExact, TypeOK
  <2> QED BY <2>2, <2>3
<1>12. CASE Register(p)
  <2>1. /\ pc[p] = "register" /\ g_bufferList' = g_bufferList \cup {own[p]}
        /\ own' = [own EXCEPT ![p] = NoBlock]
        /\ UNCHANGED <<open, mapped>>
    BY <1>12 DEF Register
  <2>2. \E l \in {"idle", "heap"} : pc' = [pc EXCEPT ![p] = l]
    BY <1>12 DEF Register, Return, Goto
  <2>3. RegistryExact' BY <2>1 DEF RegistryExact, HeldExact
  <2>4. HeldExact' BY <2>1, <2>2 DEF HeldExact, TypeOK
  <2> QED BY <2>3, <2>4
<1>13. CASE Find(p)
  <2>1. CASE own' = own /\ NextBlock(p) /\ UNCHANGED g_bufferList
    BY <1>2, <1>13, <2>1 DEF Find, NextBlock, Goto, heapVars
  <2>2. ASSUME NEW r \in g_bufferList, g_bufferList' = g_bufferList \ {r},
               own' = [own EXCEPT ![p] = r], pc' = [pc EXCEPT ![p] = "unmap"]
        PROVE  RegistryExact' /\ HeldExact'
    <3>1. UNCHANGED <<open, mapped>> BY <1>13 DEF Find
    <3>2. RegistryExact' BY <2>2, <3>1 DEF RegistryExact
    <3>3. HeldExact' BY <2>2, <3>1 DEF HeldExact, RegistryExact, TypeOK
    <3> QED BY <3>2, <3>3
  <2> QED BY <1>13, <2>1, <2>2 DEF Find, Goto
<1>14. CASE Unmap(p)
  <2>1. /\ pc[p] = "unmap" /\ pc' = [pc EXCEPT ![p] = "close"]
        /\ mapped' = mapped \ {own[p].addr}
        /\ own' = [own EXCEPT ![p].addr = Null]
        /\ UNCHANGED <<open, g_bufferList>>
    BY <1>14 DEF Unmap, Goto
  <2>2. \A q \in Pools : own'[q].fd = own[q].fd BY <2>1 DEF TypeOK, Block
  <2>3. \A q \in Pools \ {p} : own'[q] = own[q] BY <2>1 DEF TypeOK
  <2>4. RegistryExact' BY <2>1 DEF RegistryExact, HeldExact
  <2>5. HeldExact' BY <2>1, <2>2, <2>3 DEF HeldExact, TypeOK
  <2> QED BY <2>4, <2>5
<1>15. CASE Close(p)
  <2>1. /\ pc[p] = "close" /\ open' = open \ {own[p].fd}
        /\ own' = [own EXCEPT ![p] = NoBlock]
        /\ UNCHANGED <<mapped, g_bufferList>>
    BY <1>15 DEF Close
  <2>2. \E l \in {"idle", "find"} : pc' = [pc EXCEPT ![p] = l]
    BY <1>15 DEF Close, NextBlock, Goto
  <2>3. RegistryExact' BY <2>1 DEF RegistryExact, HeldExact
  <2>4. HeldExact' BY <2>1, <2>2 DEF HeldExact, TypeOK
  <2> QED BY <2>3, <2>4
<1> QED BY <1>1, <1>3, <1>4, <1>5, <1>6, <1>7, <1>8, <1>9, <1>10, <1>11, <1>12, <1>13,
        <1>14, <1>15

IInv == TypeOK /\ IndexBound /\ SizeBound /\ HeldExact /\ RegistryExact

LEMMA PoolInit == Init => IInv
<1> SUFFICES ASSUME Init PROVE IInv OBVIOUS
<1> USE PoolAssumption, SlotType DEF Init
<1>1. TypeOK
  <2>1. NoBlock \in Block BY DEF Block, NoBlock
  <2>2. buf_list \in [Pools -> Seq(Slots)]
    <3>1. << >> \in Seq(Slots) BY EmptySeq
    <3> QED BY <3>1
  <2>3. size \in [Pools -> Nat] OBVIOUS
  <2>4. mem_block \in [Pools -> [Slots -> Block \cup {Junk}]] OBVIOUS
  <2> QED BY <2>1, <2>2, <2>3, <2>4 DEF TypeOK
<1>2. IndexBound BY DEF IndexBound, Filling
<1>4. SizeBound
  <2>1. \A p \in Pools : ~broken[p] => ~(p \in OnePools /\ size[p] # 0) BY Zenon
  <2> QED BY <2>1 DEF SizeBound, Filling, Freeing
<1>3. HeldExact /\ RegistryExact BY DEF HeldExact, RegistryExact, HasFd, HasAddr
<1> QED BY <1>1, <1>2, <1>3, <1>4 DEF IInv

LEMMA PoolStep == IInv /\ [Next]_vars => IInv'
<1> SUFFICES ASSUME IInv, [Next]_vars PROVE IInv' OBVIOUS
<1>1. CASE Next BY <1>1, TypeStep, SizeStep, ExactStep DEF IInv
<1>2. CASE UNCHANGED vars
  BY <1>2 DEF IInv, TypeOK, IndexBound, SizeBound, Filling, Freeing, HeldExact, HasFd, HasAddr, RegistryExact, vars,
     heapVars, poolVars, threadVars, callerVars
<1> QED BY <1>1, <1>2

LEMMA PoolInductive == Spec => []IInv
BY PoolInit, PoolStep, PTL DEF Spec

(* The pools, the registry and the threads always hold values of their kinds, and the
   loop of buffer_pool_free leaves mem_block only for a pool of which an allocation
   failed or whose size alloc_one counted from garbage: in every other pool size has
   become, by the time it bounds the loop, a number of blocks that were asked for. *)
THEOREM PoolTypeCorrect == Spec => []TypeOK
<1>1. IInv => TypeOK BY DEF IInv
<1> QED BY <1>1, PoolInductive, PTL

(* For any number of threads, and whatever fails, every record of g_bufferList is an
   open, mapped buffer that no other record shares: freeDmabufHeapBuffer erases the
   record before it closes the descriptor, and the invariant that makes this enough
   is that what a thread holds between its steps is in no record and held by no
   other thread. *)
THEOREM RegistryStaysExact == Spec => []RegistryExact
<1>1. IInv => RegistryExact BY DEF IInv
<1> QED BY <1>1, PoolInductive, PTL

-----------------------------------------------------------------------------
(* The slots whose blocks a pool owns: those filled, less those freed. *)
Owned(p) ==
    {s \in Slots :
       \/ life[p] = "filled" /\ (IF Filling(p) THEN s < i[p] ELSE s <= size[p])
       \/ pc[p] = "find" /\ s \in i[p] .. size[p]
       \/ pc[p] \in {"unmap", "close"} /\ s \in i[p] + 1 .. size[p]}

(* A call works on a pool in its phase of life, and then the size is of the array. *)
Phase(p) ==
    /\ Filling(p) => life[p] = "filled"
    /\ Freeing(p) => life[p] = "freed" /\ i[p] <= size[p]
    /\ life[p] # "new" /\ ~Filling(p) => size[p] <= MaxSize
    /\ p \in OnePools => (life[p] = "new" => size[p] = 0) /\ (Filling(p) => size[p] = i[p] - 1)
PhaseInv == \A p \in Pools : Phase(p)

(* The blocks are records of the registry, each in one place ... *)
BlockInv ==
    /\ \A p \in Pools : \A s \in Owned(p) :
         mem_block[p][s] \in g_bufferList /\ virAddr[p][s] = mem_block[p][s].addr
    /\ \A p, q \in Pools : \A s \in Owned(p), t \in Owned(q) :
         mem_block[p][s] = mem_block[q][t] => p = q /\ s = t

(* ... every record is one of them, and what the kernel has given is in a record or
   with a thread. *)
LeakInv ==
    /\ \A r \in g_bufferList : \E p \in Pools : \E s \in Owned(p) : mem_block[p][s] = r
    /\ \A f \in open : \/ \E r \in g_bufferList : r.fd = f
                       \/ \E p \in Pools : HasFd(p) /\ own[p].fd = f
    /\ \A a \in mapped : \/ \E r \in g_bufferList : r.addr = a
                         \/ \E p \in Pools : HasAddr(p) /\ own[p].addr = a

(* The list and what is lent make up the filled slots. *)
Listed(p) ==
    /\ IsInjective(buf_list[p]) /\ Range(buf_list[p]) \cap lent[p] = {}
    /\ Range(buf_list[p]) \cup lent[p] = IF life[p] = "filled" THEN Owned(p) ELSE {}
    /\ Filling(p) => lent[p] = {}
ListedInv == \A p \in Pools : Listed(p)

Action(p) ==
    \/ \E n \in Slots : AllocCall(p, n)
    \/ AllocOneCall(p) \/ HeapAlloc(p) \/ Map(p) \/ AllocFails(p) \/ Register(p)
    \/ FreeCall(p) \/ Find(p) \/ Unmap(p) \/ Close(p) \/ Recreate(p)
    \/ Get(p) \/ \E s \in Slots : Put(p, s)

(* A step of one pool leaves the others' variables alone. *)
LEMMA Local ==
    ASSUME TypeOK, NEW p \in Pools, Action(p), NEW q \in Pools, q # p
    PROVE  /\ life'[q] = life[q] /\ pc'[q] = pc[q] /\ i'[q] = i[q] /\ size'[q] = size[q]
           /\ mem_block'[q] = mem_block[q] /\ virAddr'[q] = virAddr[q]
           /\ buf_list'[q] = buf_list[q] /\ lent'[q] = lent[q] /\ own'[q] = own[q]
<1> USE DEF TypeOK, heapVars, poolVars, threadVars, callerVars, Goto, Return, NextBlock
<1>1. CASE (\E n \in Slots : AllocCall(p, n)) \/ AllocOneCall(p) \/ FreeCall(p) \/ Recreate(p)
  BY <1>1 DEF AllocCall, AllocOneCall, FreeCall, Recreate
<1>2. CASE HeapAlloc(p) \/ Map(p) \/ AllocFails(p)
  BY <1>2 DEF HeapAlloc, Map, AllocFails
<1>3. CASE Register(p) BY <1>3 DEF Register
<1>4. CASE Find(p) \/ Unmap(p) \/ Close(p) BY <1>4 DEF Find, Unmap, Close
<1>5. CASE Get(p) BY <1>5 DEF Get
<1>6. CASE \E s \in Slots : Put(p, s)
  <2>1. UNCHANGED <<heapVars, size, mem_block, virAddr, threadVars, life>> /\ lent'[q] = lent[q]
    BY <1>6 DEF Put
  <2>2. buf_list'[q] = buf_list[q] BY <1>6 DEF Put
  <2> QED BY <2>1, <2>2
<1> QED BY <1>1, <1>2, <1>3, <1>4, <1>5, <1>6 DEF Action

LEMMA OwnedLocal ==
    ASSUME TypeOK, NEW p \in Pools, Action(p), NEW q \in Pools, q # p
    PROVE  Owned(q)' = Owned(q)
BY Local DEF Owned, Filling

(* A pool that has its blocks and has lent none has them in its list. *)
LEMMA AllListed ==
    ASSUME TypeOK, NEW p \in Pools, Phase(p), Listed(p), life[p] = "filled", pc[p] = "idle",
           lent[p] = {}
    PROVE  Len(buf_list[p]) = size[p]
<1>1. size[p] \in Nat /\ size[p] <= MaxSize /\ MaxSize \in Nat
  BY PoolAssumption DEF TypeOK, Phase, Filling
<1>2. Owned(p) = 1 .. size[p] BY <1>1 DEF Owned, Filling, Slots
<1>3. Range(buf_list[p]) = 1 .. size[p] /\ IsInjective(buf_list[p]) BY <1>2 DEF Listed
<1>4. buf_list[p] \in Seq(Slots) BY DEF TypeOK
<1> QED BY <1>1, <1>3, <1>4, InjectiveLength

LEMMA NothingListed ==
    ASSUME TypeOK, NEW p \in Pools, Listed(p), life[p] # "filled"
    PROVE  buf_list[p] = <<>> /\ Len(buf_list[p]) = 0
<1>1. Range(buf_list[p]) = {} BY DEF Listed
<1>2. buf_list[p] \in Seq(Slots) BY DEF TypeOK
<1>3. ASSUME buf_list[p] # <<>> PROVE FALSE
  <2>1. Range(buf_list[p]) = {Head(buf_list[p])} \cup Range(Tail(buf_list[p]))
    BY <1>2, <1>3, TailRange
  <2> QED BY <1>1, <2>1
<1> QED BY <1>3, EmptySeq

(* A call is made in its phase of life. *)
LEMMA PhaseStep ==
    ASSUME TypeOK, TypeOK', IndexBound, NoneBroken, NoneBroken', PhaseInv, ListedInv,
           NEW p \in Pools, Action(p)
    PROVE  PhaseInv'
<1> USE PoolAssumption DEF Filling, Freeing, Goto, Slots
<1> SUFFICES Phase(p)'
  <2>1. ASSUME NEW q \in Pools, q # p PROVE Phase(q)'
    BY <2>1, Local DEF PhaseInv, Phase
  <2> QED BY <2>1 DEF PhaseInv
<1>0. Phase(p) /\ Listed(p) BY DEF PhaseInv, ListedInv
<1>1. ASSUME NEW n \in Slots, AllocCall(p, n) PROVE Phase(p)'
  BY <1>1 DEF AllocCall, TypeOK, Phase
<1>2. CASE AllocOneCall(p)
  <2>1. CASE life[p] = "filled"
    <3>1. Len(buf_list[p]) = size[p] BY <1>0, <1>2, <2>1, AllListed DEF AllocOneCall
    <3> QED BY <1>2, <3>1 DEF AllocOneCall, TypeOK, Phase, poolVars
  <2>2. CASE life[p] = "new"
    <3>1. Len(buf_list[p]) = 0 BY <1>0, <2>2, NothingListed
    <3>2. size[p] = 0 BY <1>0, <1>2, <2>2 DEF AllocOneCall, Phase
    <3> QED BY <1>2, <3>1, <3>2 DEF AllocOneCall, TypeOK, Phase, poolVars
  <2> QED BY <1>2, <2>1, <2>2 DEF AllocOneCall, TypeOK
<1>3. CASE HeapAlloc(p) BY <1>0, <1>3 DEF HeapAlloc, TypeOK, Phase, callerVars
<1>4. CASE Map(p) BY <1>0, <1>4 DEF Map, TypeOK, Phase, callerVars, poolVars
<1>5. CASE AllocFails(p) BY <1>5 DEF AllocFails, NoneBroken, TypeOK
<1>6. CASE Register(p)
  <2>1. life'[p] = "filled" /\ size'[p] = SizeAfter(p) /\ i[p] \in 1 .. MaxSize
    BY <1>0, <1>6 DEF Register, callerVars, TypeOK, Phase
  <2>2. CASE p \in OnePools \/ i[p] = count[p]
    <3>1. pc'[p] = "idle" BY <1>6, <2>2 DEF Register, Return, TypeOK
    <3>2. SizeAfter(p) = i[p] BY <1>0, <1>6, <2>2 DEF SizeAfter, Phase, Register, TypeOK
    <3> QED BY <2>1, <3>1, <3>2 DEF Phase
  <2>3. CASE ~(p \in OnePools \/ i[p] = count[p])
    <3>1. pc'[p] = "heap" BY <1>6, <2>3 DEF Register, TypeOK
    <3> QED BY <2>1, <2>3, <3>1 DEF Phase
  <2> QED BY <2>2, <2>3
<1>7. CASE FreeCall(p) BY <1>0, <1>7 DEF FreeCall, TypeOK, Phase
<1>8. ASSUME NextBlock(p), UNCHANGED <<size, life>>, Freeing(p) PROVE Phase(p)'
  BY <1>0, <1>8 DEF NextBlock, TypeOK, Phase
<1>9. CASE Find(p)
  BY <1>0, <1>8, <1>9 DEF Find, TypeOK, Phase, callerVars, poolVars
<1>10. CASE Unmap(p) BY <1>0, <1>10 DEF Unmap, TypeOK, Phase, callerVars, poolVars
<1>11. CASE Close(p) BY <1>8, <1>11 DEF Close, callerVars, poolVars
<1>12. CASE Recreate(p)
  <2>1. p \in OnePools => size'[p] = 0
    <3>1. PICK n \in Garbage :
            /\ size' = [size EXCEPT ![p] = n]
            /\ broken' = [broken EXCEPT ![p] = @ \/ (p \in OnePools /\ n # 0)]
      BY <1>12 DEF Recreate
    <3>2. p \in DOMAIN broken BY DEF TypeOK
    <3>3. broken'[p] = (broken[p] \/ (p \in OnePools /\ n # 0)) BY <3>1, <3>2, Zenon
    <3>4. ~(p \in OnePools /\ n # 0) BY <3>3, Zenon DEF NoneBroken
    <3> QED BY <3>1, <3>4 DEF TypeOK
  <2> QED BY <1>12, <2>1 DEF Recreate, Phase, TypeOK
<1>13. CASE Get(p) BY <1>0, <1>13 DEF Get, TypeOK, Phase, threadVars
<1>14. ASSUME NEW s \in Slots, Put(p, s) PROVE Phase(p)'
  <2>1. UNCHANGED <<size, pc, i, life>> BY <1>14 DEF Put, threadVars
  <2> QED BY <1>0, <2>1 DEF Phase
<1> QED BY <1>1, <1>2, <1>3, <1>4, <1>5, <1>6, <1>7, <1>9, <1>10, <1>11, <1>12, <1>13, <1>14
        DEF Action

(* A pool that is freed finds the record of its block, and that one. *)
LEMMA FindFinds ==
    ASSUME TypeOK, RegistryExact, BlockInv, NEW p \in Pools, Phase(p), Find(p)
    PROVE  /\ i[p] \in Owned(p) /\ mem_block[p][i[p]] \in g_bufferList
           /\ i' = i /\ pc' = [pc EXCEPT ![p] = "unmap"]
           /\ own' = [own EXCEPT ![p] = mem_block[p][i[p]]]
           /\ g_bufferList' = g_bufferList \ {mem_block[p][i[p]]}
<1> DEFINE b == mem_block[p][i[p]]
<1>1. pc[p] = "find" /\ i[p] \in Slots /\ i[p] <= size[p] /\ size[p] \in Nat
  BY PoolAssumption DEF Find, TypeOK, Phase, Freeing, Filling, Slots
<1>2. i[p] \in Owned(p) BY <1>1, PoolAssumption DEF Owned, Slots
<1>3. b \in g_bufferList BY <1>2 DEF BlockInv
<1>4. b.fd \in Fds BY <1>3 DEF TypeOK
<1>5. b.fd # Null BY <1>4, PoolAssumption
<1>6. \A r \in g_bufferList : Matches(r, b.fd) <=> r = b
  BY <1>3, <1>5 DEF Matches, RegistryExact
<1>7. \E r \in g_bufferList : Matches(r, b.fd) BY <1>3, <1>6
<1>8. b # Junk BY <1>3, PoolAssumption DEF TypeOK
<1>9. DescriptorsAt(p, i[p]) = {b.fd} BY <1>1, <1>8 DEF DescriptorsAt
<1> HIDE DEF b
<1>10. PICK r \in g_bufferList :
         /\ Matches(r, b.fd) /\ g_bufferList' = g_bufferList \ {r}
         /\ own' = [own EXCEPT ![p] = r]
         /\ pc' = [pc EXCEPT ![p] = "unmap"] /\ i' = i
  BY <1>7, <1>9 DEF Find, Goto
<1> QED BY <1>2, <1>3, <1>6, <1>10 DEF b

(* What a pool owns changes when a block is registered and when one is found. *)
LEMMA OwnedStep ==
    ASSUME TypeOK, TypeOK', IndexBound, RegistryExact, NoneBroken, NoneBroken', PhaseInv,
           PhaseInv', BlockInv, ListedInv, NEW p \in Pools, Action(p)
    PROVE  Owned(p)' = IF pc[p] = "register" THEN Owned(p) \cup {i[p]}
                       ELSE IF pc[p] = "find" THEN Owned(p) \ {i[p]}
                       ELSE Owned(p)
<1> USE PoolAssumption DEF Filling, Freeing, Goto, Slots
<1>0. Phase(p) /\ Phase(p)' /\ Listed(p) BY DEF PhaseInv, ListedInv
<1>1. ASSUME NEW n \in Slots, AllocCall(p, n) PROVE Owned(p)' = Owned(p) /\ pc[p] = "idle"
  BY <1>1 DEF AllocCall, TypeOK, Owned
<1>2. CASE AllocOneCall(p)
  <2>1. CASE life[p] = "filled"
    <3>1. Len(buf_list[p]) = size[p] BY <1>0, <1>2, <2>1, AllListed DEF AllocOneCall
    <3> QED BY <1>2, <2>1, <3>1 DEF AllocOneCall, TypeOK, Owned, poolVars
  <2>2. CASE life[p] = "new"
    <3>1. Len(buf_list[p]) = 0 BY <1>0, <2>2, NothingListed
    <3> QED BY <1>2, <2>2, <3>1 DEF AllocOneCall, TypeOK, Owned, poolVars
  <2> QED BY <1>2, <2>1, <2>2 DEF AllocOneCall, TypeOK
<1>3. CASE HeapAlloc(p) BY <1>3 DEF HeapAlloc, TypeOK, Owned, callerVars
<1>4. CASE Map(p) BY <1>4 DEF Map, TypeOK, Owned, callerVars, poolVars
<1>5. CASE AllocFails(p) BY <1>5 DEF AllocFails, NoneBroken, TypeOK
<1>6. CASE Register(p)
  <2>1. life'[p] = "filled" /\ size'[p] = SizeAfter(p) /\ i[p] \in 1 .. MaxSize
        /\ life[p] = "filled" /\ pc[p] = "register"
    BY <1>0, <1>6 DEF Register, callerVars, TypeOK, Phase
  <2>2. CASE p \in OnePools \/ i[p] = count[p]
    <3>1. pc'[p] = "idle" BY <1>6, <2>2 DEF Register, Return, TypeOK
    <3>2. SizeAfter(p) = i[p] BY <1>0, <1>6, <2>2 DEF SizeAfter, Phase, Register, TypeOK
    <3> QED BY <2>1, <3>1, <3>2 DEF Owned
  <2>3. CASE ~(p \in OnePools \/ i[p] = count[p])
    <3>1. pc'[p] = "heap" /\ i'[p] = i[p] + 1 BY <1>6, <2>3 DEF Register, TypeOK
    <3> QED BY <2>1, <2>3, <3>1 DEF Owned
  <2> QED BY <2>2, <2>3
<1>7. CASE FreeCall(p) BY <1>0, <1>7 DEF FreeCall, TypeOK, Phase, Owned
<1>8. CASE Find(p)
  <2>1. i' = i /\ pc' = [pc EXCEPT ![p] = "unmap"] BY <1>0, <1>8, FindFinds
  <2> QED BY <1>0, <1>8, <2>1 DEF Find, TypeOK, Phase, Owned, callerVars, poolVars
<1>9. CASE Unmap(p) BY <1>0, <1>9 DEF Unmap, TypeOK, Phase, Owned, callerVars, poolVars
<1>10. CASE Close(p)
  BY <1>0, <1>10 DEF Close, NextBlock, TypeOK, Phase, Owned, callerVars, poolVars
<1>11. CASE Recreate(p) BY <1>0, <1>11 DEF Recreate, TypeOK, Phase, Owned, threadVars
<1>12. CASE Get(p) BY <1>12 DEF Get, TypeOK, Owned, threadVars
<1>13. ASSUME NEW s \in Slots, Put(p, s) PROVE Owned(p)' = Owned(p) /\ pc[p] = "idle"
  <2>1. UNCHANGED <<size, pc, i, life>> /\ pc[p] = "idle" BY <1>13 DEF Put, threadVars
  <2> QED BY <2>1 DEF Owned
<1> QED BY <1>1, <1>2, <1>3, <1>4, <1>5, <1>6, <1>7, <1>8, <1>9, <1>10, <1>11, <1>12, <1>13
        DEF Action, AllocOneCall, HeapAlloc, Map, AllocFails, Register, FreeCall, Unmap,
            Close, Recreate, Get

(* The steps that touch neither a block that is owned nor the registry. *)
Apart(p) ==
    \/ \E n \in Slots : AllocCall(p, n)
    \/ AllocOneCall(p) \/ Map(p) \/ FreeCall(p) \/ Unmap(p) \/ Close(p) \/ Recreate(p)
    \/ Get(p) \/ \E s \in Slots : Put(p, s)

LEMMA ApartSame ==
    ASSUME TypeOK, NEW p \in Pools, Apart(p)
    PROVE  /\ UNCHANGED <<virAddr, g_bufferList>> /\ pc[p] \notin {"register", "find"}
           /\ \A q \in Pools : \A s \in Owned(q) : mem_block'[q][s] = mem_block[q][s]
<1>1. CASE Recreate(p)
  <2>1. Owned(p) = {} BY <1>1 DEF Recreate, Owned
  <2>2. \A q \in Pools \ {p} : mem_block'[q] = mem_block[q] BY <1>1 DEF Recreate, TypeOK
  <2> QED BY <1>1, <2>1, <2>2 DEF Recreate, heapVars
<1>2. CASE ~Recreate(p)
  BY <1>2 DEF Apart, AllocCall, AllocOneCall, Map, FreeCall, Unmap, Close, Get, Put,
     heapVars, poolVars, threadVars
<1> QED BY <1>1, <1>2

LEMMA BlockStep ==
    ASSUME TypeOK, TypeOK', IndexBound, HeldExact, RegistryExact, NoneBroken, NoneBroken',
           PhaseInv, PhaseInv', BlockInv, ListedInv, NEW p \in Pools, Action(p)
    PROVE  BlockInv'
<1>1. Owned(p)' = IF pc[p] = "register" THEN Owned(p) \cup {i[p]}
                  ELSE IF pc[p] = "find" THEN Owned(p) \ {i[p]}
                  ELSE Owned(p)
  BY OwnedStep
<1>2. \A q \in Pools \ {p} : /\ Owned(q)' = Owned(q)
                             /\ mem_block'[q] = mem_block[q] /\ virAddr'[q] = virAddr[q]
  BY OwnedLocal, Local
<1>3. CASE Apart(p)
  <2>1. /\ UNCHANGED <<virAddr, g_bufferList>> /\ \A q \in Pools : Owned(q)' = Owned(q)
        /\ \A q \in Pools : \A s \in Owned(q) : mem_block'[q][s] = mem_block[q][s]
    BY <1>1, <1>2, <1>3, ApartSame
  <2> QED BY <2>1 DEF BlockInv
<1>4. CASE HeapAlloc(p)
  <2>1. /\ pc[p] = "heap" /\ mem_block' = [mem_block EXCEPT ![p][i[p]] = NoBlock]
        /\ UNCHANGED <<virAddr, g_bufferList, life>>
    BY <1>4 DEF HeapAlloc, callerVars
  <2>2. i[p] \notin Owned(p) /\ Owned(p) \subseteq Slots
    <3>1. life[p] = "filled" BY <2>1 DEF PhaseInv, Phase, Filling
    <3>2. i[p] \in Slots BY <2>1 DEF TypeOK, Freeing
    <3> QED BY <2>1, <3>1, <3>2, PoolAssumption DEF Owned, Filling, Slots
  <2>3. \A q \in Pools : Owned(q)' = Owned(q) BY <1>1, <1>2, <2>1
  <2>4. \A s \in Owned(p) : mem_block'[p][s] = mem_block[p][s] BY <2>1, <2>2 DEF TypeOK
  <2>5. \A q \in Pools : \A s \in Owned(q) : mem_block'[q][s] = mem_block[q][s]
    BY <1>2, <2>4
  <2> QED BY <2>1, <2>3, <2>5 DEF BlockInv
<1>5. CASE Register(p)
  <2>1. /\ g_bufferList' = g_bufferList \cup {own[p]} /\ pc[p] = "register"
        /\ mem_block' = [mem_block EXCEPT ![p][i[p]] = own[p]]
        /\ virAddr' = [virAddr EXCEPT ![p][i[p]] = own[p].addr]
    BY <1>5 DEF Register
  <2>2. own[p] \notin g_bufferList BY <2>1 DEF HeldExact, HasFd
  <2>3. i[p] \in Slots /\ Owned(p) \subseteq Slots BY <2>1 DEF TypeOK, Owned, Freeing
  <2>4. i[p] \notin Owned(p)
    <3>1. life[p] = "filled" BY <2>1 DEF PhaseInv, Phase, Filling
    <3> QED BY <2>1, <2>3, <3>1, PoolAssumption DEF Owned, Filling, Slots
  <2>5. /\ mem_block'[p][i[p]] = own[p] /\ virAddr'[p][i[p]] = own[p].addr
        /\ \A s \in Owned(p) :
             mem_block'[p][s] = mem_block[p][s] /\ virAddr'[p][s] = virAddr[p][s]
    BY <2>1, <2>3, <2>4 DEF TypeOK
  <2>6. Owned(p)' = Owned(p) \cup {i[p]} BY <1>1, <2>1
  <2>7. \A q \in Pools : \A s \in Owned(q) :
          mem_block'[q][s] = mem_block[q][s] /\ virAddr'[q][s] = virAddr[q][s]
    BY <1>2, <2>5
  <2>8. \A q \in Pools : \A s \in Owned(q)' : (q = p /\ s = i[p]) \/ s \in Owned(q)
    BY <1>2, <2>6
  <2>9. \A q \in Pools : \A s \in Owned(q) : mem_block[q][s] \in g_bufferList
    BY DEF BlockInv
  <2>10. \A q \in Pools : \A s \in Owned(q)' :
          mem_block'[q][s] \in g_bufferList' /\ virAddr'[q][s] = mem_block'[q][s].addr
    BY <2>1, <2>5, <2>7, <2>8 DEF BlockInv
  <2>11. ASSUME NEW q \in Pools, NEW r \in Pools, NEW s \in Owned(q)', NEW t \in Owned(r)',
               mem_block'[q][s] = mem_block'[r][t]
        PROVE  q = r /\ s = t
    <3>1. CASE s \in Owned(q) /\ t \in Owned(r)
      BY <2>7, <2>11, <3>1 DEF BlockInv
    <3>2. CASE q = p /\ s = i[p] /\ t \in Owned(r)
      BY <2>2, <2>5, <2>7, <2>9, <2>11, <3>2
    <3>3. CASE r = p /\ t = i[p] /\ s \in Owned(q)
      BY <2>2, <2>5, <2>7, <2>9, <2>11, <3>3
    <3> QED BY <2>8, <3>1, <3>2, <3>3
  <2> QED BY <2>10, <2>11 DEF BlockInv
<1>6. CASE Find(p)
  <2>1. /\ i[p] \in Owned(p) /\ UNCHANGED <<mem_block, virAddr>> /\ pc[p] = "find"
        /\ g_bufferList' = g_bufferList \ {mem_block[p][i[p]]}
    BY <1>6, FindFinds DEF PhaseInv, Find, poolVars
  <2>2. Owned(p)' = Owned(p) \ {i[p]} BY <1>1, <2>1
  <2>3. \A q \in Pools : \A s \in Owned(q)' : s \in Owned(q) /\ ~(q = p /\ s = i[p])
    BY <1>2, <2>2
  <2>4. \A q \in Pools : \A s \in Owned(q)' : mem_block[q][s] # mem_block[p][i[p]]
    BY <2>1, <2>3 DEF BlockInv
  <2> QED BY <2>1, <2>3, <2>4 DEF BlockInv
<1>7. CASE AllocFails(p) BY <1>7 DEF AllocFails, NoneBroken, TypeOK
<1> QED BY <1>3, <1>4, <1>5, <1>6, <1>7 DEF Action, Apart

-----------------------------------------------------------------------------
(* The step of one pool, as the kernel and the registry see it. *)
LEMMA LeakStep ==
    ASSUME TypeOK, TypeOK', IndexBound, HeldExact, RegistryExact, NoneBroken, NoneBroken',
           PhaseInv, PhaseInv', BlockInv, ListedInv, LeakInv, NEW p \in Pools, Action(p)
    PROVE  LeakInv'
<1>1. Owned(p)' = IF pc[p] = "register" THEN Owned(p) \cup {i[p]}
                  ELSE IF pc[p] = "find" THEN Owned(p) \ {i[p]}
                  ELSE Owned(p)
  BY OwnedStep
<1>2. \A q \in Pools \ {p} : /\ Owned(q)' = Owned(q) /\ mem_block'[q] = mem_block[q]
                             /\ own'[q] = own[q] /\ (HasFd(q)' <=> HasFd(q))
                             /\ (HasAddr(q)' <=> HasAddr(q))
  BY OwnedLocal, Local DEF HasFd, HasAddr
<1>3. CASE Apart(p)
  <2>1. /\ UNCHANGED g_bufferList /\ \A q \in Pools : Owned(q)' = Owned(q)
        /\ \A q \in Pools : \A s \in Owned(q) : mem_block'[q][s] = mem_block[q][s]
    BY <1>1, <1>2, <1>3, ApartSame
  <2>2. \A r \in g_bufferList' : \E q \in Pools : \E s \in Owned(q)' : mem_block'[q][s] = r
    BY <2>1 DEF LeakInv
  <2>3. CASE Map(p)
    <3>1. PICK a \in Addrs \ mapped :
            mapped' = mapped \cup {a} /\ own' = [own EXCEPT ![p].addr = a]
      BY <2>3 DEF Map
    <3>2. /\ own'[p].fd = own[p].fd /\ own'[p].addr = a
          /\ HasFd(p) /\ ~HasAddr(p) /\ HasFd(p)' /\ HasAddr(p)' /\ open' = open
      BY <2>3, <3>1 DEF Map, HasFd, HasAddr, TypeOK, Block, Goto
    <3> QED BY <1>2, <2>1, <2>2, <3>1, <3>2 DEF LeakInv
  <2>4. CASE Unmap(p)
    <3>1. /\ mapped' = mapped \ {own[p].addr} /\ open' = open
          /\ own'[p].fd = own[p].fd /\ HasFd(p) /\ HasFd(p)'
      BY <2>4 DEF Unmap, HasFd, HasAddr, TypeOK, Block, Goto
    <3> QED BY <1>2, <2>1, <2>2, <3>1 DEF LeakInv
  <2>5. CASE Close(p)
    <3>1. open' = open \ {own[p].fd} /\ mapped' = mapped /\ ~HasAddr(p)
      BY <2>5 DEF Close, HasAddr
    <3> QED BY <1>2, <2>1, <2>2, <3>1 DEF LeakInv
  <2>6. CASE UNCHANGED <<open, mapped, own>> /\ ~HasFd(p)
    <3>1. ~HasAddr(p) BY <2>6 DEF HasFd, HasAddr
    <3> QED BY <1>2, <2>1, <2>2, <2>6, <3>1 DEF LeakInv
  <2>7. Map(p) \/ Unmap(p) \/ Close(p) \/ (UNCHANGED <<open, mapped, own>> /\ ~HasFd(p))
    BY <1>3 DEF Apart, AllocCall, AllocOneCall, FreeCall, Recreate, Get, Put, heapVars,
       threadVars, HasFd
  <2> QED BY <2>3, <2>4, <2>5, <2>6, <2>7
<1>4. CASE HeapAlloc(p)
  <2>1. PICK f \in Fds \ open :
          open' = open \cup {f} /\ own' = [own EXCEPT ![p] = [fd |-> f, addr |-> Null]]
    BY <1>4 DEF HeapAlloc
  <2>2. /\ pc[p] = "heap" /\ mem_block' = [mem_block EXCEPT ![p][i[p]] = NoBlock]
        /\ UNCHANGED <<g_bufferList, mapped, life>> /\ HasFd(p)' /\ ~HasFd(p) /\ ~HasAddr(p)
    BY <1>4 DEF HeapAlloc, callerVars, HasFd, HasAddr, Goto, TypeOK
  <2>3. own'[p].fd = f BY <2>1 DEF TypeOK
  <2>4. i[p] \notin Owned(p) /\ Owned(p) \subseteq Slots
    <3>1. life[p] = "filled" BY <2>2 DEF PhaseInv, Phase, Filling
    <3>2. i[p] \in Slots BY <2>1, <2>2 DEF TypeOK, Freeing
    <3> QED BY <2>2, <3>1, <3>2, PoolAssumption DEF Owned, Filling, Slots
  <2>5. \A q \in Pools : Owned(q)' = Owned(q) BY <1>1, <1>2, <2>2
  <2>6. \A s \in Owned(p) : mem_block'[p][s] = mem_block[p][s] BY <2>2, <2>4 DEF TypeOK
  <2>7. \A q \in Pools : \A s \in Owned(q) : mem_block'[q][s] = mem_block[q][s]
    BY <1>2, <2>6
  <2>8. \A r \in g_bufferList' : \E q \in Pools : \E s \in Owned(q)' : mem_block'[q][s] = r
    BY <2>2, <2>5, <2>7 DEF LeakInv
  <2> QED BY <1>2, <2>1, <2>2, <2>3, <2>8 DEF LeakInv
<1>5. CASE Register(p)
  <2>1. /\ g_bufferList' = g_bufferList \cup {own[p]} /\ pc[p] = "register"
        /\ mem_block' = [mem_block EXCEPT ![p][i[p]] = own[p]]
        /\ UNCHANGED <<open, mapped>>
    BY <1>5 DEF Register
  <2>2. i[p] \in Slots /\ Owned(p) \subseteq Slots BY <2>1 DEF TypeOK, Owned, Freeing
  <2>3. i[p] \notin Owned(p)
    <3>1. life[p] = "filled" BY <2>1 DEF PhaseInv, Phase, Filling
    <3> QED BY <2>1, <2>2, <3>1, PoolAssumption DEF Owned, Filling, Slots
  <2>4. /\ mem_block'[p][i[p]] = own[p]
        /\ \A s \in Owned(p) : mem_block'[p][s] = mem_block[p][s]
    BY <2>1, <2>2, <2>3 DEF TypeOK
  <2>5. Owned(p)' = Owned(p) \cup {i[p]} BY <1>1, <2>1
  <2>6. \A q \in Pools : \A s \in Owned(q) :
          s \in Owned(q)' /\ mem_block'[q][s] = mem_block[q][s]
    BY <1>2, <2>4, <2>5
  <2>7. \A r \in g_bufferList' : \E q \in Pools : \E s \in Owned(q)' : mem_block'[q][s] = r
    BY <2>1, <2>4, <2>5, <2>6 DEF LeakInv
  <2> QED BY <1>2, <2>1, <2>7 DEF LeakInv
<1>6. CASE Find(p)
  <2>1. /\ i[p] \in Owned(p) /\ UNCHANGED <<mem_block, open, mapped>> /\ pc[p] = "find"
        /\ g_bufferList' = g_bufferList \ {mem_block[p][i[p]]}
        /\ own' = [own EXCEPT ![p] = mem_block[p][i[p]]] /\ pc' = [pc EXCEPT ![p] = "unmap"]
    BY <1>6, FindFinds DEF PhaseInv, Find, poolVars
  <2>2. own'[p] = mem_block[p][i[p]] /\ HasFd(p)' /\ HasAddr(p)' /\ ~HasFd(p) /\ ~HasAddr(p)
    BY <2>1 DEF TypeOK, HasFd, HasAddr
  <2>3. Owned(p)' = Owned(p) \ {i[p]} BY <1>1, <2>1
  <2>4. ASSUME NEW r \in g_bufferList'
        PROVE  \E q \in Pools : \E s \in Owned(q)' : mem_block'[q][s] = r
    <3>1. PICK q \in Pools : \E s \in Owned(q) : mem_block[q][s] = r
      BY <2>1, <2>4 DEF LeakInv
    <3>2. PICK s \in Owned(q) : mem_block[q][s] = r BY <3>1
    <3>3. ~(q = p /\ s = i[p]) BY <2>1, <2>4, <3>2
    <3>4. s \in Owned(q)' BY <1>2, <2>3, <3>3
    <3> QED BY <2>1, <3>2, <3>4
  <2> QED BY <1>2, <2>1, <2>2, <2>4 DEF LeakInv
<1>7. CASE AllocFails(p) BY <1>7 DEF AllocFails, NoneBroken, TypeOK
<1> QED BY <1>3, <1>4, <1>5, <1>6, <1>7 DEF Action, Apart

-----------------------------------------------------------------------------
(* What a pool has in its list and what it has lent. *)
LEMMA ListedStep ==
    ASSUME TypeOK, TypeOK', IndexBound, RegistryExact, NoneBroken, NoneBroken', PhaseInv,
           PhaseInv', BlockInv, ListedInv, NEW p \in Pools, Action(p)
    PROVE  ListedInv'
<1>1. Owned(p)' = IF pc[p] = "register" THEN Owned(p) \cup {i[p]}
                  ELSE IF pc[p] = "find" THEN Owned(p) \ {i[p]}
                  ELSE Owned(p)
  BY OwnedStep
<1> SUFFICES Listed(p)'
  <2>1. ASSUME NEW q \in Pools, q # p PROVE Listed(q)'
    BY <2>1, Local, OwnedLocal DEF ListedInv, Listed, Filling
  <2> QED BY <2>1 DEF ListedInv
<1>0. Phase(p) /\ Listed(p) /\ buf_list[p] \in Seq(Slots) /\ p \in DOMAIN buf_list
  BY DEF PhaseInv, ListedInv, TypeOK
<1> USE DEF Goto
<1>2. ASSUME \E n \in Slots : AllocCall(p, n) PROVE Listed(p)'
  <2>1. UNCHANGED <<buf_list, lent>> /\ pc[p] = "idle" /\ life[p] # "filled"
    BY <1>2 DEF AllocCall, poolVars
  <2>2. Owned(p) = {} BY <2>1 DEF Owned
  <2> QED BY <1>0, <1>1, <2>1, <2>2 DEF Listed
<1>3. CASE AllocOneCall(p)
  <2>1. /\ UNCHANGED <<buf_list, lent>> /\ pc[p] = "idle" /\ lent[p] = {}
        /\ life' = [life EXCEPT ![p] = "filled"]
    BY <1>3 DEF AllocOneCall, poolVars
  <2>2. life[p] # "filled" => Owned(p) = {} BY <2>1 DEF Owned
  <2>3. life'[p] = "filled" BY <2>1 DEF TypeOK
  <2> QED BY <1>0, <1>1, <2>1, <2>2, <2>3 DEF Listed
<1>4. CASE HeapAlloc(p) \/ Map(p)
  <2>1. UNCHANGED <<buf_list, lent, life>> /\ pc[p] \in {"heap", "map"}
    BY <1>4 DEF HeapAlloc, Map, poolVars, callerVars
  <2> QED BY <1>0, <1>1, <2>1 DEF Listed, Filling
<1>5. CASE AllocFails(p) BY <1>5 DEF AllocFails, NoneBroken, TypeOK
<1>6. CASE Register(p)
  <2>1. /\ pc[p] = "register" /\ i[p] \in Slots /\ UNCHANGED <<life, lent>>
        /\ buf_list' = [buf_list EXCEPT ![p] = IF Contains(@, i[p]) THEN @ ELSE Append(@, i[p])]
    BY <1>6 DEF Register, callerVars, TypeOK
  <2>2. lent[p] = {} /\ life[p] = "filled" /\ Range(buf_list[p]) = Owned(p)
    BY <1>0, <2>1 DEF Listed, Phase, Filling
  <2>3. i[p] \notin Owned(p) BY <2>1, <2>2, PoolAssumption DEF Owned, Filling, Slots
  <2>4. ~Contains(buf_list[p], i[p]) BY <1>0, <2>2, <2>3, LenProperties DEF Contains, Range
  <2>5. buf_list'[p] = Append(buf_list[p], i[p]) BY <1>0, <2>1, <2>4
  <2>6. /\ Range(buf_list'[p]) = Range(buf_list[p]) \cup {i[p]}
        /\ IsInjective(buf_list'[p])
    BY <1>0, <2>1, <2>2, <2>3, <2>5, AppendRange DEF Listed
  <2> QED BY <1>1, <2>1, <2>2, <2>6 DEF Listed
<1>7. CASE FreeCall(p)
  <2>1. /\ buf_list' = [buf_list EXCEPT ![p] = <<>>] /\ lent' = [lent EXCEPT ![p] = {}]
        /\ life' = [life EXCEPT ![p] = "freed"]
    BY <1>7 DEF FreeCall
  <2>2. buf_list'[p] = <<>> /\ lent'[p] = {} /\ life'[p] = "freed" BY <2>1 DEF TypeOK
  <2> QED BY <2>2 DEF Listed, IsInjective, Range
<1>8. CASE Find(p) \/ Unmap(p) \/ Close(p)
  <2>1. UNCHANGED <<buf_list, lent, life>> /\ Freeing(p)
    BY <1>8 DEF Find, Unmap, Close, poolVars, callerVars, Freeing
  <2>2. life[p] = "freed" BY <1>0, <2>1 DEF Phase
  <2>3. Range(buf_list[p]) = {} /\ lent[p] = {} BY <1>0, <2>2 DEF Listed
  <2> QED BY <1>0, <2>1, <2>2, <2>3 DEF Listed
<1>9. CASE Recreate(p)
  <2>1. /\ buf_list' = [buf_list EXCEPT ![p] = <<>>] /\ UNCHANGED lent
        /\ life' = [life EXCEPT ![p] = "new"] /\ life[p] = "freed"
    BY <1>9 DEF Recreate
  <2>2. buf_list'[p] = <<>> /\ life'[p] = "new" BY <2>1 DEF TypeOK
  <2>3. lent[p] = {} BY <1>0, <2>1 DEF Listed
  <2> QED BY <2>1, <2>2, <2>3 DEF Listed, IsInjective, Range
<1>10. CASE Get(p)
  <2> DEFINE b == buf_list[p]
  <2>1. /\ b # <<>> /\ life[p] = "filled" /\ pc[p] = "idle" /\ UNCHANGED <<life, pc>>
        /\ buf_list' = [buf_list EXCEPT ![p] = Tail(b)]
        /\ lent' = [lent EXCEPT ![p] = @ \cup {Head(b)}]
    BY <1>10 DEF Get, threadVars
  <2>2. buf_list'[p] = Tail(b) /\ lent'[p] = lent[p] \cup {Head(b)} BY <2>1 DEF TypeOK
  <2>3. /\ Range(b) = {Head(b)} \cup Range(Tail(b))
        /\ IsInjective(Tail(b)) /\ Head(b) \notin Range(Tail(b))
    BY <1>0, <2>1, TailRange DEF Listed
  <2> HIDE DEF b
  <2>4. IsInjective(b) /\ Range(b) \cap lent[p] = {} /\ Range(b) \cup lent[p] = Owned(p)
    BY <1>0, <2>1 DEF Listed, b
  <2> QED BY <1>1, <2>1, <2>2, <2>3, <2>4 DEF Listed, Filling
<1>11. ASSUME NEW s \in Slots, Put(p, s) PROVE Listed(p)'
  <2> DEFINE at == SlotsAt(p, virAddr[p][s])
             b == buf_list[p]
  <2>1. /\ life[p] = "filled" /\ pc[p] = "idle" /\ UNCHANGED <<life, pc, i, size>>
        /\ s \in lent[p] /\ lent' = [lent EXCEPT ![p] = @ \ {s}]
    BY <1>11 DEF Put, threadVars
  <2>2. Range(b) \cap lent[p] = {} /\ Range(b) \cup lent[p] = Owned(p) /\ IsInjective(b)
    BY <1>0, <2>1 DEF Listed
  <2>3. at \subseteq Owned(p) BY <2>1 DEF SlotsAt, Owned, Filling
  <2>4. s \in Owned(p) /\ s \notin Range(b) /\ s \in at
    BY <2>1, <2>2 DEF SlotsAt, Owned, Filling
  <2>5. ASSUME NEW t \in at PROVE t = s
    <3>1. virAddr[p][t] = virAddr[p][s] BY DEF SlotsAt
    <3>2. mem_block[p][t].addr = mem_block[p][s].addr
      BY <2>3, <2>4, <3>1 DEF BlockInv
    <3>3. mem_block[p][t] = mem_block[p][s]
      BY <2>3, <2>4, <3>2 DEF BlockInv, RegistryExact
    <3> QED BY <2>3, <2>4, <3>3 DEF BlockInv
  <2>6. buf_list' = [buf_list EXCEPT ![p] = IF Contains(@, s) THEN @ ELSE Append(@, s)]
    BY <1>11, <2>4, <2>5 DEF Put
  <2>7. ~Contains(b, s) BY <1>0, <2>4, LenProperties DEF Contains, Range
  <2>8. buf_list'[p] = Append(b, s) BY <1>0, <2>6, <2>7
  <2>9. Range(buf_list'[p]) = Range(b) \cup {s} /\ IsInjective(buf_list'[p])
    BY <1>0, <2>2, <2>4, <2>8, AppendRange
  <2>10. lent'[p] = lent[p] \ {s} BY <2>1 DEF TypeOK
  <2> HIDE DEF b, at
  <2> QED BY <1>1, <2>1, <2>2, <2>9, <2>10 DEF Listed, Filling
<1> QED BY <1>2, <1>3, <1>4, <1>5, <1>6, <1>7, <1>8, <1>9, <1>10, <1>11 DEF Action

-----------------------------------------------------------------------------
(* A pool whose allocation failed stays marked. *)
LEMMA StaysBroken == ASSUME TypeOK, NEW p \in Pools, Action(p), NoneBroken' PROVE NoneBroken
<1> SUFFICES ASSUME NEW q \in Pools, broken[q] PROVE broken'[q]
  BY DEF NoneBroken
<1>1. CASE UNCHANGED broken BY <1>1
<1>2. CASE AllocFails(p) BY <1>2 DEF AllocFails, TypeOK
<1>3. CASE Recreate(p)
  <2>1. PICK n \in Garbage :
          broken' = [broken EXCEPT ![p] = @ \/ (p \in OnePools /\ n # 0)]
    BY <1>3 DEF Recreate
  <2>2. q \in DOMAIN broken /\ p \in DOMAIN broken BY DEF TypeOK
  <2>3. broken'[q] = IF q = p THEN broken[p] \/ (p \in OnePools /\ n # 0) ELSE broken[q]
    BY <2>1, <2>2, Zenon
  <2> QED BY <2>3, Zenon
<1> QED BY <1>1, <1>2, <1>3 DEF Action, AllocCall, AllocOneCall, HeapAlloc, Map, Register,
        FreeCall, Find, Unmap, Close, Get, Put, callerVars

(* The inductive invariant of the pools whose allocations have not failed. *)
SoundInv == PhaseInv /\ BlockInv /\ LeakInv /\ ListedInv
PoolsInv == IInv /\ (NoneBroken => SoundInv)

LEMMA SoundInit == Init => SoundInv \/ ~NoneBroken
<1> SUFFICES ASSUME Init, NoneBroken PROVE SoundInv OBVIOUS
<1> USE DEF Init
<1>1. \A p \in Pools : p \in OnePools => size[p] = 0 BY DEF NoneBroken
<1>2. PhaseInv BY <1>1 DEF PhaseInv, Phase, Filling, Freeing
<1>3. \A p \in Pools : Owned(p) = {} BY DEF Owned
<1>4. BlockInv BY <1>3 DEF BlockInv
<1>5. LeakInv BY DEF LeakInv
<1>6. ListedInv BY DEF ListedInv, Listed, IsInjective, Range, Filling
<1> QED BY <1>2, <1>4, <1>5, <1>6 DEF SoundInv

LEMMA SoundStep == PoolsInv /\ [Next]_vars => PoolsInv'
<1> SUFFICES ASSUME PoolsInv, [Next]_vars PROVE PoolsInv' OBVIOUS
<1>1. IInv /\ IInv' BY PoolStep DEF PoolsInv
<1>2. CASE UNCHANGED vars
  <2>1. NoneBroken' => NoneBroken BY <1>2 DEF vars, callerVars, NoneBroken
  <2> SUFFICES ASSUME SoundInv PROVE SoundInv' BY <1>1, <2>1 DEF PoolsInv
  <2> USE <1>2 DEF vars, heapVars, poolVars, threadVars, callerVars
  <2>2. \A p \in Pools : Owned(p)' = Owned(p) BY DEF Owned, Filling
  <2>3. PhaseInv' BY DEF SoundInv, PhaseInv, Phase, Filling, Freeing
  <2>4. BlockInv' BY <2>2 DEF SoundInv, BlockInv
  <2>5. LeakInv' BY <2>2 DEF SoundInv, LeakInv, HasFd, HasAddr
  <2>6. ListedInv' BY <2>2 DEF SoundInv, ListedInv, Listed, Filling
  <2> QED BY <2>3, <2>4, <2>5, <2>6 DEF SoundInv
<1>3. CASE Next
  <2>1. PICK p \in Pools : Action(p) BY <1>3 DEF Next, Action
  <2> SUFFICES ASSUME NoneBroken' PROVE SoundInv' BY <1>1 DEF PoolsInv
  <2>2. NoneBroken /\ SoundInv BY <1>1, <2>1, StaysBroken DEF PoolsInv, IInv
  <2>3. PhaseInv' BY <1>1, <2>1, <2>2, PhaseStep DEF IInv, SoundInv
  <2>4. BlockInv' BY <1>1, <2>1, <2>2, <2>3, BlockStep DEF IInv, SoundInv
  <2>5. LeakInv' BY <1>1, <2>1, <2>2, <2>3, LeakStep DEF IInv, SoundInv
  <2>6. ListedInv' BY <1>1, <2>1, <2>2, <2>3, ListedStep DEF IInv, SoundInv
  <2> QED BY <2>3, <2>4, <2>5, <2>6 DEF SoundInv
<1> QED BY <1>2, <1>3

LEMMA PoolsSound == Spec => []PoolsInv
<1>1. Init => PoolsInv BY PoolInit, SoundInit DEF PoolsInv
<1> QED BY <1>1, SoundStep, PTL DEF Spec

(* A filled pool owns the slots up to its size. *)
LEMMA ReadyOwns ==
    ASSUME IInv, PhaseInv, NEW p \in Pools, Ready(p) PROVE Owned(p) = 1 .. size[p]
<1>1. size[p] \in Nat /\ size[p] <= MaxSize /\ life[p] = "filled" /\ pc[p] = "idle"
  BY DEF IInv, TypeOK, PhaseInv, Phase, Ready, Filling
<1> QED BY <1>1, PoolAssumption DEF Owned, Filling, Slots

(* While no allocation has failed, every block of every filled pool is a registered
   buffer of its own, whatever the threads of the other pools allocate and free. *)
THEOREM PoolsKeepTheirBlocks == Spec => []PoolsOwnTheirBlocks
<1>1. PoolsInv => PoolsOwnTheirBlocks
  <2> SUFFICES ASSUME IInv, SoundInv PROVE PoolsOwnTheirBlocks
    BY DEF PoolsInv, PoolsOwnTheirBlocks
  <2>1. \A p \in {r \in Pools : Ready(r)} : Owned(p) = 1 .. size[p]
    BY ReadyOwns DEF SoundInv
  <2> SUFFICES ASSUME NEW p \in {r \in Pools : Ready(r)}, NEW q \in {r \in Pools : Ready(r)},
                      NEW s \in 1 .. size[p], NEW t \in 1 .. size[q]
               PROVE  /\ mem_block[p][s] \in g_bufferList
                      /\ mem_block[p][s] = mem_block[q][t] => p = q /\ s = t
    BY DEF PoolsOwnTheirBlocks
  <2>2. p \in Pools /\ q \in Pools /\ s \in Owned(p) /\ t \in Owned(q) BY <2>1
  <2> QED BY <2>2, Zenon DEF SoundInv, BlockInv
<1> QED BY <1>1, PoolsSound, PTL

(* While no allocation has failed, a filled pool has each of its buffers in its list or
   has lent it, once: the address buffer_pool_put_buffer looks for is in one slot. *)
THEOREM BuffersLentOnce == Spec => []LentOnce
<1>1. PoolsInv => LentOnce
  <2> SUFFICES ASSUME IInv, SoundInv PROVE LentOnce
    BY DEF PoolsInv, LentOnce
  <2> SUFFICES ASSUME NEW p \in {r \in Pools : Ready(r)}
               PROVE  /\ IsInjective(buf_list[p])
                      /\ ToSet(buf_list[p]) \cap lent[p] = {}
                      /\ ToSet(buf_list[p]) \cup lent[p] = 1 .. size[p]
    BY DEF LentOnce
  <2>1. Owned(p) = 1 .. size[p] BY ReadyOwns DEF SoundInv
  <2>2. Listed(p) /\ life[p] = "filled" BY DEF SoundInv, ListedInv, Ready
  <2>3. ToSet(buf_list[p]) = Range(buf_list[p]) BY DEF ToSet, Range
  <2> QED BY <2>1, <2>2, <2>3 DEF Listed
<1> QED BY <1>1, PoolsSound, PTL

(* While no allocation has failed, pools that are freed have given everything back to
   the kernel. *)
THEOREM FreedPoolsLeakNothing == Spec => []NothingLeaks
<1>1. PoolsInv => NothingLeaks
  <2> SUFFICES ASSUME IInv, SoundInv, \A p \in Pools : life[p] # "filled" /\ pc[p] = "idle"
               PROVE  open = {} /\ mapped = {} /\ g_bufferList = {}
    BY DEF PoolsInv, NothingLeaks
  <2>1. \A p \in Pools : Owned(p) = {} /\ ~HasFd(p) /\ ~HasAddr(p)
    BY DEF Owned, HasFd, HasAddr
  <2> QED BY <2>1 DEF SoundInv, LeakInv
<1> QED BY <1>1, PoolsSound, PTL
=============================================================================
