----------------------------- MODULE BufferPool -----------------------------
(***************************************************************************)
(* The buffer pools of demo/include/bufferPool.c on the dma-buf heap       *)
(* allocator of demo/include/dmabufheapAllocator.c.  The pools share one   *)
(* registry of buffers, g_bufferList, under g_mutex; everything else of an *)
(* allocation or a release happens outside the mutex, and every pool is    *)
(* filled and freed by a thread of its own (the main thread for the        *)
(* pipelines, the tuning server's thread for the raw dump).                *)
(*                                                                         *)
(* The kernel hands out any descriptor and any address that is not in use, *)
(* so both come back after a close or a munmap.  A pool is malloc'ed and   *)
(* its size is read before it is written by alloc_one, and by anyone after *)
(* a first allocation that fails: it starts with any of the Garbage        *)
(* values, and its blocks with whatever the memory holds.                  *)
(***************************************************************************)
EXTENDS Integers, Sequences, SequencesExt

CONSTANTS Pools,        \* the pools, each with its thread
          OnePools,     \* those filled by buffer_pool_alloc_one (V4L2's)
          MaxSize,      \* BUFFER_POOL_MAX_SIZE
          Fds, Addrs,   \* what the kernel hands out
          Garbage,      \* what malloc leaves in a pool's size
          Null,         \* descriptor 0 and no address
          Junk          \* a block nobody has written since the malloc

ASSUME PoolAssumption ==
    /\ OnePools \subseteq Pools
    /\ MaxSize \in Nat \ {0}
    /\ Garbage \subseteq Nat
    /\ Null \notin Fds \cup Addrs
    /\ Junk \notin [fd : Fds \cup {Null}, addr : Addrs \cup {Null}]

Slots == 1 .. MaxSize   \* of mem_block and buffers

VARIABLES
    \* the kernel and the registry
    open,       \* descriptors of dma-bufs the process has open
    mapped,     \* addresses that are mapped
    g_bufferList,
    \* the pools
    size, mem_block,
    virAddr,    \* planes[0].virAddr of each of the pool's buffers
    buf_list,   \* the slots that are free to be taken
    \* their threads
    pc, i,
    count,      \* the buffers the call at work asks for; the calls of alloc_one so far
    own,        \* the descriptor and the address the thread holds
    \* the callers
    life,       \* of the pool: new, filled (in part or in whole) or freed
    lent,       \* slots taken and not given back
    broken      \* an allocation for this pool failed, or alloc_one counts from garbage

heapVars   == <<open, mapped, g_bufferList>>
poolVars   == <<size, mem_block, virAddr, buf_list>>
threadVars == <<pc, i, count, own>>
callerVars == <<life, lent, broken>>
vars == <<heapVars, poolVars, threadVars, callerVars>>

Block == [fd : Fds \cup {Null}, addr : Addrs \cup {Null}]
NoBlock == [fd |-> Null, addr |-> Null]

Init ==
    /\ open = {} /\ mapped = {} /\ g_bufferList = {}
    /\ size \in [Pools -> Garbage]
    /\ mem_block = [p \in Pools |-> [s \in Slots |-> Junk]]
    /\ virAddr = [p \in Pools |-> [s \in Slots |-> Null]]
    /\ buf_list = [p \in Pools |-> <<>>]
    /\ pc = [p \in Pools |-> "idle"]
    /\ i = [p \in Pools |-> 1]
    /\ count = [p \in Pools |-> 0]
    /\ own = [p \in Pools |-> NoBlock]
    /\ life = [p \in Pools |-> "new"]
    /\ lent = [p \in Pools |-> {}]
    /\ broken = [p \in Pools |-> p \in OnePools /\ size[p] # 0]

Goto(p, l) == pc' = [pc EXCEPT ![p] = l]

-----------------------------------------------------------------------------
(* Allocation. *)

(* buffer_pool_alloc, which every caller calls on a pool that is new or freed. *)
AllocCall(p, n) ==
    /\ pc[p] = "idle" /\ p \notin OnePools /\ life[p] # "filled"
    /\ count' = [count EXCEPT ![p] = n]
    /\ i' = [i EXCEPT ![p] = 1]
    /\ life' = [life EXCEPT ![p] = "filled"]
    /\ Goto(p, "heap")
    /\ UNCHANGED <<heapVars, poolVars, own, lent, broken>>

(* buffer_pool_alloc_one: the next slot is the number of buffers in the list, so
   V4L2 takes none before it has them all. *)
AllocOneCall(p) ==
    /\ pc[p] = "idle" /\ p \in OnePools /\ life[p] # "freed" /\ lent[p] = {}
    /\ Len(buf_list[p]) < MaxSize /\ count[p] < MaxSize
    /\ count' = [count EXCEPT ![p] = @ + 1]
    /\ i' = [i EXCEPT ![p] = Len(buf_list[p]) + 1]
    /\ life' = [life EXCEPT ![p] = "filled"]
    /\ Goto(p, "heap")
    /\ UNCHANGED <<heapVars, poolVars, own, lent, broken>>

(* dmabufheapAlloc clears the block and asks the kernel for a buffer. *)
HeapAlloc(p) ==
    /\ pc[p] = "heap"
    /\ mem_block' = [mem_block EXCEPT ![p][i[p]] = NoBlock]
    /\ \E f \in Fds \ open :
         /\ open' = open \cup {f}
         /\ own' = [own EXCEPT ![p] = [fd |-> f, addr |-> Null]]
    /\ Goto(p, "map")
    /\ UNCHANGED <<mapped, g_bufferList, size, virAddr, buf_list, i, count, callerVars>>

Map(p) ==
    /\ pc[p] = "map"
    /\ \E a \in Addrs \ mapped :
         /\ mapped' = mapped \cup {a}
         /\ own' = [own EXCEPT ![p].addr = a]
    /\ Goto(p, "register")
    /\ UNCHANGED <<open, g_bufferList, poolVars, i, count, callerVars>>

(* The call at work ends. *)
Return(p) ==
    /\ i' = [i EXCEPT ![p] = 1]
    /\ count' = IF p \in OnePools THEN count ELSE [count EXCEPT ![p] = 0]
    /\ Goto(p, "idle")

(* The heap or mmap fails: the call returns, with size as it was and, when it was
   mmap, the descriptor open. *)
AllocFails(p) ==
    /\ pc[p] \in {"heap", "map"}
    /\ mem_block' = [mem_block EXCEPT ![p][i[p]] = NoBlock]
    /\ own' = [own EXCEPT ![p] = NoBlock]
    /\ broken' = [broken EXCEPT ![p] = TRUE]
    /\ Return(p)
    /\ UNCHANGED <<heapVars, size, virAddr, buf_list, life, lent>>

(* Mutant: the size is the index of the last buffer. *)
SizeAfterIndex(p) ==
    IF p \in OnePools THEN size[p] + 1 ELSE IF i[p] = count[p] THEN i[p] - 1 ELSE size[p]

(* The size once slot i[p] is filled: a call that asks for count buffers sets it
   after the last one. *)
SizeAfter(p) ==
    IF p \in OnePools THEN size[p] + 1 ELSE IF i[p] = count[p] THEN count[p] ELSE size[p]

(* Under g_mutex the buffer is registered; then the pool takes it, and the loop
   goes on or ends. *)
Register(p) ==
    /\ pc[p] = "register"
    /\ g_bufferList' = g_bufferList \cup {own[p]}
    /\ mem_block' = [mem_block EXCEPT ![p][i[p]] = own[p]]
    /\ virAddr' = [virAddr EXCEPT ![p][i[p]] = own[p].addr]
    /\ buf_list' = [buf_list EXCEPT ![p] = IF Contains(@, i[p]) THEN @ ELSE Append(@, i[p])]
    /\ size' = [size EXCEPT ![p] = SizeAfter(p)]
    /\ own' = [own EXCEPT ![p] = NoBlock]
    /\ IF p \in OnePools \/ i[p] = count[p] THEN Return(p)
       ELSE /\ i' = [i EXCEPT ![p] = @ + 1]
            /\ Goto(p, "heap")
            /\ UNCHANGED count
    /\ UNCHANGED <<open, mapped, callerVars>>

-----------------------------------------------------------------------------
(* Release. *)

(* Mutant: the list is not cleared. *)
FreeCallKeepsList(p) ==
    /\ pc[p] = "idle" /\ life[p] = "filled"
    /\ UNCHANGED buf_list
    /\ i' = [i EXCEPT ![p] = 1]
    /\ life' = [life EXCEPT ![p] = "freed"]
    /\ lent' = [lent EXCEPT ![p] = {}]
    /\ Goto(p, IF size[p] = 0 THEN "idle" ELSE "find")
    /\ UNCHANGED <<heapVars, size, mem_block, virAddr, count, own, broken>>

(* buffer_pool_free: nobody uses the pool's buffers any more.  The size stays. *)
FreeCall(p) ==
    /\ pc[p] = "idle" /\ life[p] = "filled"
    /\ buf_list' = [buf_list EXCEPT ![p] = <<>>]
    /\ i' = [i EXCEPT ![p] = 1]
    /\ life' = [life EXCEPT ![p] = "freed"]
    /\ lent' = [lent EXCEPT ![p] = {}]
    /\ Goto(p, IF size[p] = 0 THEN "idle" ELSE "find")
    /\ UNCHANGED <<heapVars, size, mem_block, virAddr, count, own, broken>>

(* Mutant: the loop runs to the size and not to the last block. *)
NextBlockBeyond(p) ==
    LET more == i[p] <= size[p] IN
    /\ i' = [i EXCEPT ![p] = IF more THEN @ + 1 ELSE 1]
    /\ Goto(p, IF more THEN "find" ELSE "idle")

(* The loop over the blocks goes to the next one or ends.  Only size bounds it: what
   alloc_one counts up from garbage leads it past mem_block. *)
NextBlock(p) ==
    LET more == i[p] < size[p] IN
    /\ i' = [i EXCEPT ![p] = IF more THEN @ + 1 ELSE 1]
    /\ Goto(p, IF more THEN "find" ELSE "idle")

(* The descriptor that block s is read to hold: any, where nobody has written a block
   or where there is none. *)
DescriptorsAt(p, s) ==
    IF s \in Slots /\ mem_block[p][s] # Junk THEN {mem_block[p][s].fd}
    ELSE Fds \cup {Null}

(* Mutant: any registered buffer will do. *)
MatchesAny(r, fd) == r.fd # Null

(* findDmabufheapBuffer. *)
Matches(r, fd) == r.fd # Null /\ r.fd = fd

(* Mutant: the record stays in the registry. *)
FindKeeps(p) ==
    /\ pc[p] = "find"
    /\ \E fd \in DescriptorsAt(p, i[p]) :
         \/ /\ \E r \in g_bufferList :
                 /\ Matches(r, fd)
                 /\ own' = [own EXCEPT ![p] = r]
            /\ Goto(p, "unmap")
            /\ UNCHANGED <<i, g_bufferList>>
         \/ /\ ~\E r \in g_bufferList : Matches(r, fd)
            /\ NextBlock(p)
            /\ UNCHANGED <<own, g_bufferList>>
    /\ UNCHANGED <<open, mapped, poolVars, count, callerVars>>

(* freeDmabufHeapBuffer under g_mutex: the record with the block's descriptor is
   taken out of the registry; a block without one is passed over. *)
Find(p) ==
    /\ pc[p] = "find"
    /\ \E fd \in DescriptorsAt(p, i[p]) :
         \/ /\ \E r \in g_bufferList :
                 /\ Matches(r, fd)
                 /\ g_bufferList' = g_bufferList \ {r}
                 /\ own' = [own EXCEPT ![p] = r]
            /\ Goto(p, "unmap")
            /\ UNCHANGED i
         \/ /\ ~\E r \in g_bufferList : Matches(r, fd)
            /\ NextBlock(p)
            /\ UNCHANGED <<own, g_bufferList>>
    /\ UNCHANGED <<open, mapped, poolVars, count, callerVars>>

Unmap(p) ==
    /\ pc[p] = "unmap"
    /\ mapped' = mapped \ {own[p].addr}
    /\ own' = [own EXCEPT ![p].addr = Null]
    /\ Goto(p, "close")
    /\ UNCHANGED <<open, g_bufferList, poolVars, i, count, callerVars>>

Close(p) ==
    /\ pc[p] = "close"
    /\ open' = open \ {own[p].fd}
    /\ own' = [own EXCEPT ![p] = NoBlock]
    /\ NextBlock(p)
    /\ UNCHANGED <<mapped, g_bufferList, poolVars, count, callerVars>>

(* destroy_buffer_pool, and create_buffer_pool for the next run of the test: the
   memory holds anything again.  (An address is read where one was written only.) *)
Recreate(p) ==
    /\ pc[p] = "idle" /\ life[p] = "freed"
    /\ buf_list' = [buf_list EXCEPT ![p] = <<>>]
    /\ \E n \in Garbage :
         /\ size' = [size EXCEPT ![p] = n]
         /\ broken' = [broken EXCEPT ![p] = @ \/ (p \in OnePools /\ n # 0)]
    /\ life' = [life EXCEPT ![p] = "new"]
    /\ count' = [count EXCEPT ![p] = 0]
    /\ mem_block' = [mem_block EXCEPT ![p] = [s \in Slots |-> Junk]]
    /\ UNCHANGED <<heapVars, virAddr, pc, i, own, lent>>

-----------------------------------------------------------------------------
(* Use, from the callbacks: while the pool is filled, whether or not its
   allocation went well (test_buffer_init does not look). *)

Get(p) ==
    /\ pc[p] = "idle" /\ life[p] = "filled" /\ buf_list[p] # <<>>
    /\ buf_list' = [buf_list EXCEPT ![p] = Tail(@)]
    /\ lent' = [lent EXCEPT ![p] = @ \cup {Head(buf_list[p])}]
    /\ UNCHANGED <<heapVars, size, mem_block, virAddr, threadVars, life, broken>>

(* The slots with this address that buffer_pool_put_buffer may look at.  The loop runs
   to size, and needs no other bound: it stops at the buffer's own slot at the latest,
   or before it when the size is less. *)
SlotsAt(p, a) == {s \in Slots : s <= size[p] /\ virAddr[p][s] = a}

(* buffer_pool_put_buffer: the first slot with the buffer's address goes back. *)
Put(p, s) ==
    LET at == SlotsAt(p, virAddr[p][s]) IN
    /\ pc[p] = "idle" /\ life[p] = "filled" /\ s \in lent[p]
    /\ lent' = [lent EXCEPT ![p] = @ \ {s}]
    /\ \/ at = {} /\ UNCHANGED buf_list
       \/ \E first \in at :
            /\ \A t \in at : first <= t
            /\ buf_list' = [buf_list EXCEPT ![p] =
                              IF Contains(@, first) THEN @ ELSE Append(@, first)]
    /\ UNCHANGED <<heapVars, size, mem_block, virAddr, threadVars, life, broken>>

Next == \E p \in Pools :
    \/ \E n \in Slots : AllocCall(p, n)
    \/ AllocOneCall(p) \/ HeapAlloc(p) \/ Map(p) \/ AllocFails(p) \/ Register(p)
    \/ FreeCall(p) \/ Find(p) \/ Unmap(p) \/ Close(p) \/ Recreate(p)
    \/ Get(p) \/ \E s \in Slots : Put(p, s)

Spec == Init /\ [][Next]_vars

-----------------------------------------------------------------------------
Filling(p) == pc[p] \in {"heap", "map", "register"}
Freeing(p) == pc[p] \in {"find", "unmap", "close"}

(* Every variable holds a value of its kind.  The loops that fill stay in the arrays
   whatever size holds; the one that frees leaves mem_block only for a pool one of
   whose allocations failed or whose size alloc_one counted from garbage. *)
TypeOK ==
    /\ open \subseteq Fds /\ mapped \subseteq Addrs
    /\ g_bufferList \subseteq [fd : Fds, addr : Addrs]
    /\ size \in [Pools -> Nat]
    /\ mem_block \in [Pools -> [Slots -> Block \cup {Junk}]]
    /\ virAddr \in [Pools -> [Slots -> Addrs \cup {Null}]]
    /\ buf_list \in [Pools -> Seq(Slots)]
    /\ pc \in [Pools -> {"idle", "heap", "map", "register", "find", "unmap", "close"}]
    /\ i \in [Pools -> Nat \ {0}]
    /\ \A p \in Pools : i[p] \in Slots \/ (Freeing(p) /\ broken[p])
    /\ count \in [Pools -> Slots \cup {0}]
    /\ own \in [Pools -> Block]
    /\ life \in [Pools -> {"new", "filled", "freed"}]
    /\ lent \in [Pools -> SUBSET Slots]
    /\ broken \in [Pools -> BOOLEAN]

(* Whatever fails and however the threads overlap, a record of g_bufferList is a
   buffer that is open and mapped, and no two records share a descriptor or an
   address although the kernel hands both out again: a free by descriptor releases
   one buffer, and the right one where the block it reads was filled. *)
RegistryExact ==
    /\ \A r \in g_bufferList : r.fd \in open /\ r.addr \in mapped
    /\ \A r, q \in g_bufferList : r.fd = q.fd \/ r.addr = q.addr => r = q

Ready(p) == life[p] = "filled" /\ pc[p] = "idle"

NoneBroken == \A p \in Pools : ~broken[p]

(* While no allocation has failed, every block of every filled pool is a registered
   buffer, and no two slots, of one pool or of two, share one: what the threads of
   the other pools allocate and free takes nothing away from it. *)
PoolsOwnTheirBlocks ==
    NoneBroken =>
      \A p, q \in {r \in Pools : Ready(r)} : \A s \in 1 .. size[p], t \in 1 .. size[q] :
        /\ mem_block[p][s] \in g_bufferList
        /\ mem_block[p][s] = mem_block[q][t] => p = q /\ s = t

(* While no allocation has failed, a filled pool has lent each of its buffers or has
   it in its list, once; what a former filling left behind is neither. *)
LentOnce ==
    NoneBroken =>
      \A p \in {r \in Pools : Ready(r)} :
        /\ IsInjective(buf_list[p])
        /\ ToSet(buf_list[p]) \cap lent[p] = {}
        /\ ToSet(buf_list[p]) \cup lent[p] = 1 .. size[p]

(* While no allocation has failed, freeing the pools gives every buffer back to the
   kernel: a raw dump can be repeated for ever. *)
NothingLeaks ==
    NoneBroken /\ (\A p \in Pools : life[p] # "filled" /\ pc[p] = "idle")
      => open = {} /\ mapped = {} /\ g_bufferList = {}
=============================================================================
