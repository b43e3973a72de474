------------------------- MODULE SliceCapture_proofs -------------------------
(***************************************************************************)
(* Proofs about SliceCapture, for any numbers of buffers, records and      *)
(* frames.  SliceInv is inductive; its parts, in the order of the proof:   *)
(*                                                                         *)
(*   TypeInv      the types, and what threads and callbacks hold;          *)
(*   MainInv      what still runs when the main thread has got that far;   *)
(*   FlagInv      one capture at a time, by flag_tirg;                     *)
(*   RawPlaceInv  a raw buffer is in at most one place, and BackInv the    *)
(*                one of the capture in the back list;                     *)
(*   InfoInv      a record is in exactly one place until it is freed;      *)
(*   FoundInv     the lists the raw thread has found filled;               *)
(*   OutPlaceInv  a buffer for an image is in at most one place;           *)
(*   NumberInv    the frame numbers and their order;                       *)
(*   MatchInv     each image in flight has its record in the repeat list.  *)
(*                                                                         *)
(* The parts that a race can break say so, as the properties do.           *)
(***************************************************************************)
EXTENDS SliceCapture, Integers, SequencesExt, SequenceTheorems, FiniteSetTheorems,
        TLAPS, WellFoundedInduction

-----------------------------------------------------------------------------
(* Sequences. *)

(* Taking one element out of a sequence leaves a sequence over the same set. *)
LEMMA RemoveAtType ==
    ASSUME NEW S, NEW s \in Seq(S), NEW i \in DOMAIN s
    PROVE  RemoveAt(s, i) \in Seq(S)
BY DEF RemoveAt

(* The elements after it move up by one. *)
LEMMA RemoveAtIndex ==
    ASSUME NEW S, NEW s \in Seq(S), NEW k \in DOMAIN s
    PROVE  /\ RemoveAt(s, k) \in Seq(S)
           /\ Len(s) \in Nat /\ Len(RemoveAt(s, k)) = Len(s) - 1
           /\ DOMAIN RemoveAt(s, k) = 1 .. Len(s) - 1
           /\ \A i \in 1 .. k - 1 : RemoveAt(s, k)[i] = s[i]
           /\ \A i \in k .. Len(s) - 1 : RemoveAt(s, k)[i] = s[i + 1]
<1> DEFINE a == SubSeq(s, 1, k - 1)
           b == SubSeq(s, k + 1, Len(s))
           r == RemoveAt(s, k)
<1>1. DOMAIN s = 1 .. Len(s) /\ Len(s) \in Nat /\ k \in 1 .. Len(s)
  BY LenProperties
<1>2. /\ a \in Seq(S) /\ Len(a) = k - 1
      /\ \A n \in 1 .. k - 1 : a[n] = s[n]
  BY <1>1, SubSeqProperties
<1>3. /\ b \in Seq(S) /\ Len(b) = Len(s) - k
      /\ \A n \in 1 .. Len(s) - k : b[n] = s[k + n]
  <2>1. \A n \in k + 1 .. Len(s) : s[n] \in S BY <1>1
  <2>2. /\ b \in Seq(S) /\ Len(b) = IF k + 1 <= Len(s) THEN Len(s) - (k + 1) + 1 ELSE 0
        /\ \A n \in 1 .. Len(s) - (k + 1) + 1 : b[n] = s[(k + 1) + n - 1]
    BY <1>1, <2>1, SubSeqProperties
  <2> HIDE DEF b
  <2>3. ASSUME NEW n \in 1 .. Len(s) - k PROVE b[n] = s[k + n]
    <3>1. n \in 1 .. Len(s) - (k + 1) + 1 /\ (k + 1) + n - 1 = k + n BY <1>1
    <3> QED BY <2>2, <3>1
  <2>4. Len(b) = Len(s) - k BY <1>1, <2>2
  <2> QED BY <2>2, <2>3, <2>4
<1>4. r = a \o b BY DEF RemoveAt
<1> HIDE DEF a, b, r
<1>5. /\ r \in Seq(S) /\ Len(r) = Len(a) + Len(b)
      /\ \A n \in 1 .. Len(a) + Len(b) : r[n] = IF n <= Len(a) THEN a[n] ELSE b[n - Len(a)]
  BY <1>2, <1>3, <1>4, ConcatProperties
<1>6. DOMAIN r = 1 .. Len(s) - 1 /\ Len(r) = Len(s) - 1
  BY <1>1, <1>2, <1>3, <1>5, LenProperties
<1>7. ASSUME NEW i \in 1 .. k - 1 PROVE r[i] = s[i]
  <2>1. i \in 1 .. Len(a) + Len(b) /\ i <= Len(a) BY <1>1, <1>2, <1>3
  <2> QED BY <1>2, <1>5, <2>1
<1>8. ASSUME NEW i \in k .. Len(s) - 1 PROVE r[i] = s[i + 1]
  <2>1. i \in 1 .. Len(a) + Len(b) /\ ~(i <= Len(a)) /\ i - Len(a) = i + 1 - k
    BY <1>1, <1>2, <1>3
  <2>2. i + 1 - k \in 1 .. Len(s) - k /\ k + (i + 1 - k) = i + 1 BY <1>1
  <2>3. r[i] = b[i + 1 - k] BY <1>5, <2>1
  <2> QED BY <1>3, <2>2, <2>3
<1> QED BY <1>1, <1>5, <1>6, <1>7, <1>8 DEF r

(* Every other element is still in it, and nothing new. *)
LEMMA RemoveAtKeeps ==
    ASSUME NEW S, NEW s \in Seq(S), NEW k \in DOMAIN s
    PROVE  /\ \A i \in DOMAIN s \ {k} :
                  \E j \in DOMAIN RemoveAt(s, k) : RemoveAt(s, k)[j] = s[i]
           /\ \A j \in DOMAIN RemoveAt(s, k) :
                  \E i \in DOMAIN s \ {k} : RemoveAt(s, k)[j] = s[i]
<1> DEFINE r == RemoveAt(s, k)
<1>1. DOMAIN s = 1 .. Len(s) /\ Len(s) \in Nat /\ k \in 1 .. Len(s) BY LenProperties
<1>2. /\ DOMAIN r = 1 .. Len(s) - 1
      /\ \A i \in 1 .. k - 1 : r[i] = s[i]
      /\ \A i \in k .. Len(s) - 1 : r[i] = s[i + 1]
  BY RemoveAtIndex
<1> HIDE DEF r
<1>3. ASSUME NEW i \in DOMAIN s \ {k} PROVE \E j \in DOMAIN r : r[j] = s[i]
  <2>1. CASE i < k
    <3>1. i \in 1 .. k - 1 /\ i \in 1 .. Len(s) - 1 BY <1>1, <2>1
    <3> QED BY <1>2, <3>1
  <2>2. CASE ~(i < k)
    <3>1. i - 1 \in k .. Len(s) - 1 /\ i - 1 \in 1 .. Len(s) - 1 /\ i - 1 + 1 = i
      BY <1>1, <2>2
    <3> QED BY <1>2, <3>1
  <2> QED BY <2>1, <2>2
<1>4. ASSUME NEW j \in DOMAIN r PROVE \E i \in DOMAIN s \ {k} : r[j] = s[i]
  <2>1. CASE j < k
    <3>1. j \in 1 .. k - 1 /\ j \in 1 .. Len(s) /\ j # k BY <1>1, <1>2, <2>1
    <3> QED BY <1>1, <1>2, <3>1
  <2>2. CASE ~(j < k)
    <3>1. j \in k .. Len(s) - 1 /\ j + 1 \in 1 .. Len(s) /\ j + 1 # k BY <1>1, <1>2, <2>2
    <3> QED BY <1>1, <1>2, <3>1
  <2> QED BY <2>1, <2>2
<1> QED BY <1>3, <1>4 DEF r

(* So the set of its elements loses nothing but that one. *)
LEMMA RemoveAtRange ==
    ASSUME NEW S, NEW s \in Seq(S), NEW k \in DOMAIN s
    PROVE  Range(RemoveAt(s, k)) \cup {s[k]} = Range(s)
<1> DEFINE r == RemoveAt(s, k)
<1>1. /\ \A i \in DOMAIN s \ {k} : \E j \in DOMAIN r : r[j] = s[i]
      /\ \A j \in DOMAIN r : \E i \in DOMAIN s \ {k} : r[j] = s[i]
  BY RemoveAtKeeps
<1> HIDE DEF r
<1>2. Range(r) \cup {s[k]} = Range(s) BY <1>1 DEF Range
<1> QED BY <1>2 DEF r

(* A sequence that holds nothing twice loses that element for good. *)
LEMMA RemoveAtInjective ==
    ASSUME NEW S, NEW s \in Seq(S), NEW k \in DOMAIN s, IsInjective(s)
    PROVE  IsInjective(RemoveAt(s, k)) /\ s[k] \notin Range(RemoveAt(s, k))
<1> DEFINE r == RemoveAt(s, k)
           at(i) == IF i < k THEN i ELSE i + 1
<1>1. DOMAIN s = 1 .. Len(s) /\ Len(s) \in Nat /\ k \in 1 .. Len(s) BY LenProperties
<1>2. /\ DOMAIN r = 1 .. Len(s) - 1
      /\ \A i \in 1 .. k - 1 : r[i] = s[i]
      /\ \A i \in k .. Len(s) - 1 : r[i] = s[i + 1]
  BY RemoveAtIndex
<1> HIDE DEF r
<1>3. ASSUME NEW i \in DOMAIN r
      PROVE  at(i) \in DOMAIN s /\ at(i) # k /\ r[i] = s[at(i)]
  <2>1. CASE i < k
    <3>1. i \in 1 .. k - 1 /\ i \in 1 .. Len(s) /\ i # k BY <1>1, <1>2, <2>1
    <3> QED BY <1>1, <1>2, <2>1, <3>1
  <2>2. CASE ~(i < k)
    <3>1. i \in k .. Len(s) - 1 /\ i + 1 \in 1 .. Len(s) /\ i + 1 # k BY <1>1, <1>2, <2>2
    <3> QED BY <1>1, <1>2, <2>2, <3>1
  <2> QED BY <2>1, <2>2
<1>4. \A i, j \in DOMAIN r : at(i) = at(j) => i = j BY <1>1, <1>2
<1> HIDE DEF at
<1>5. IsInjective(r) BY <1>3, <1>4 DEF IsInjective
<1>6. s[k] \notin Range(r) BY <1>3 DEF IsInjective, Range
<1> QED BY <1>5, <1>6 DEF r

(* The head of a sequence, and the rest of it. *)
LEMMA TailRange ==
    ASSUME NEW S, NEW s \in Seq(S), s # <<>>
    PROVE  /\ Head(s) \in S /\ Tail(s) \in Seq(S)
           /\ Len(s) \in Nat /\ Len(Tail(s)) = Len(s) - 1
           /\ Range(s) = {Head(s)} \cup Range(Tail(s))
           /\ IsInjective(s) => IsInjective(Tail(s)) /\ Head(s) \notin Range(Tail(s))
<1> DEFINE t == Tail(s)
<1>1. /\ Head(s) \in S /\ t \in Seq(S) /\ Len(t) = Len(s) - 1
      /\ \A i \in 1 .. Len(t) : t[i] = s[i + 1]
  BY HeadTailProperties
<1>2. DOMAIN s = 1 .. Len(s) /\ Len(s) \in Nat /\ Len(s) # 0 /\ DOMAIN t = 1 .. Len(t)
  BY <1>1, LenProperties, EmptySeq
<1>3. Head(s) = s[1] OBVIOUS
<1> HIDE DEF t
<1>4. \A i \in DOMAIN t : i + 1 \in DOMAIN s /\ t[i] = s[i + 1] /\ i + 1 # 1 BY <1>1, <1>2
<1>5. \A i \in DOMAIN s \ {1} : i - 1 \in DOMAIN t /\ t[i - 1] = s[i]
  <2> TAKE i \in DOMAIN s \ {1}
  <2>1. i - 1 \in DOMAIN t /\ i - 1 + 1 = i BY <1>1, <1>2
  <2> QED BY <1>4, <2>1
<1>6. 1 \in DOMAIN s BY <1>2
<1>7. Range(s) = {Head(s)} \cup Range(t) BY <1>3, <1>4, <1>5, <1>6 DEF Range
<1>8. ASSUME IsInjective(s) PROVE IsInjective(t) /\ Head(s) \notin Range(t)
  <2>1. \A i, j \in DOMAIN t : i + 1 = j + 1 => i = j BY <1>2, <1>1
  <2>2. IsInjective(t) BY <1>4, <1>8, <2>1 DEF IsInjective
  <2>3. Head(s) \notin Range(t) BY <1>3, <1>4, <1>6, <1>8 DEF IsInjective, Range
  <2> QED BY <2>2, <2>3
<1> QED BY <1>1, <1>2, <1>7, <1>8 DEF t

(* An element that goes to the end. *)
LEMMA AppendRange ==
    ASSUME NEW S, NEW s \in Seq(S), NEW x \in S
    PROVE  /\ Append(s, x) \in Seq(S)
           /\ Len(s) \in Nat /\ Len(Append(s, x)) = Len(s) + 1
           /\ Range(Append(s, x)) = Range(s) \cup {x}
           /\ IsInjective(s) /\ x \notin Range(s) => IsInjective(Append(s, x))
<1> DEFINE t == Append(s, x)
<1>1. /\ t \in Seq(S) /\ Len(t) = Len(s) + 1
      /\ \A i \in 1 .. Len(s) : t[i] = s[i]
      /\ t[Len(s) + 1] = x
  BY AppendProperties
<1>2. DOMAIN s = 1 .. Len(s) /\ Len(s) \in Nat /\ DOMAIN t = 1 .. Len(s) + 1
  BY <1>1, LenProperties
<1> HIDE DEF t
<1>3. DOMAIN t = DOMAIN s \cup {Len(s) + 1} /\ Len(s) + 1 \notin DOMAIN s BY <1>2
<1>4. Range(t) = Range(s) \cup {x} BY <1>1, <1>2, <1>3 DEF Range
<1>5. ASSUME IsInjective(s), x \notin Range(s) PROVE IsInjective(t)
  BY <1>1, <1>2, <1>3, <1>5 DEF IsInjective, Range
<1> QED BY <1>1, <1>2, <1>4, <1>5 DEF t

-----------------------------------------------------------------------------
(* The operations on the lists. *)

LEMMA ContainsRange ==
    ASSUME NEW S, NEW s \in Seq(S), NEW x PROVE Contains(s, x) <=> x \in Range(s)
<1>1. DOMAIN s = 1 .. Len(s) BY LenProperties
<1> QED BY <1>1 DEF Contains, Range

LEMMA PushRange ==
    ASSUME NEW S, NEW s \in Seq(S), NEW x \in S
    PROVE  /\ Push(s, x) \in Seq(S) /\ Range(Push(s, x)) = Range(s) \cup {x}
           /\ IsInjective(s) => IsInjective(Push(s, x))
           /\ x \notin Range(s) => Push(s, x) = Append(s, x)
<1>1. CASE x \in Range(s)
  <2>1. Push(s, x) = s BY <1>1, ContainsRange DEF Push
  <2> QED BY <1>1, <2>1
<1>2. CASE x \notin Range(s)
  <2>1. Push(s, x) = Append(s, x) BY <1>2, ContainsRange DEF Push
  <2> QED BY <1>2, <2>1, AppendRange
<1> QED BY <1>1, <1>2

(* The item is taken out; the others keep their order. *)
LEMMA EraseAt ==
    ASSUME NEW S, NEW s \in Seq(S), NEW x
    PROVE  \/ x \notin Range(s) /\ Erase(s, x) = s
           \/ \E k \in DOMAIN s : s[k] = x /\ Erase(s, x) = RemoveAt(s, k)
<1>1. CASE x \in Range(s)
  <2> DEFINE k == CHOOSE k \in DOMAIN s : s[k] = x
  <2>1. k \in DOMAIN s /\ s[k] = x BY <1>1 DEF Range
  <2>2. Erase(s, x) = RemoveAt(s, k) BY <1>1, ContainsRange DEF Erase
  <2> QED BY <2>1, <2>2
<1>2. CASE x \notin Range(s) BY <1>2, ContainsRange DEF Erase
<1> QED BY <1>1, <1>2

LEMMA EraseRange ==
    ASSUME NEW S, NEW s \in Seq(S), NEW x, IsInjective(s)
    PROVE  /\ Erase(s, x) \in Seq(S) /\ IsInjective(Erase(s, x))
           /\ Range(Erase(s, x)) = Range(s) \ {x}
<1>1. CASE x \notin Range(s) /\ Erase(s, x) = s BY <1>1
<1>2. ASSUME NEW k \in DOMAIN s, s[k] = x, Erase(s, x) = RemoveAt(s, k)
      PROVE  /\ Erase(s, x) \in Seq(S) /\ IsInjective(Erase(s, x))
             /\ Range(Erase(s, x)) = Range(s) \ {x}
  <2>1. RemoveAt(s, k) \in Seq(S) BY RemoveAtType
  <2>2. IsInjective(RemoveAt(s, k)) /\ s[k] \notin Range(RemoveAt(s, k))
    BY RemoveAtInjective
  <2>3. Range(RemoveAt(s, k)) \cup {s[k]} = Range(s) BY RemoveAtRange
  <2> QED BY <1>2, <2>1, <2>2, <2>3
<1> QED BY <1>1, <1>2, EraseAt

(* A list of the members of a set. *)
LEMMA SetToSeqRange ==
    ASSUME NEW S, IsFiniteSet(S)
    PROVE  SetToSeq(S) \in Seq(S) /\ IsInjective(SetToSeq(S)) /\ Range(SetToSeq(S)) = S
<1> DEFINE n == Cardinality(S)
<1>1. n \in Nat /\ ExistsBijection(1 .. n, S) BY FS_CardinalityType
<1>2. PICK f : f \in Bijection(1 .. n, S) BY <1>1 DEF ExistsBijection
<1>3. f \in [1 .. n -> S] /\ IsInjective(f)
  BY <1>2 DEF Bijection, Injection, IsInjective
<1>4. SetToSeq(S) \in [1 .. n -> S] /\ IsInjective(SetToSeq(S)) BY <1>3 DEF SetToSeq
<1>5. SetToSeq(S) \in Injection(1 .. n, S) BY <1>4 DEF Injection, IsInjective
<1>6. Cardinality(1 .. n) = n
  <2>1. 1 \in Int /\ n \in Int BY <1>1
  <2>2. Cardinality(1 .. n) = IF 1 > n THEN 0 ELSE n - 1 + 1 BY <2>1, FS_Interval, Zenon
  <2> QED BY <1>1, <2>2
<1>7. SetToSeq(S) \in Surjection(1 .. n, S) BY <1>5, <1>6, FS_Injection
<1> HIDE DEF n
<1>8. Range(SetToSeq(S)) = S BY <1>4, <1>7 DEF Surjection, Range
<1> QED BY <1>1, <1>4, <1>8, SeqDef

(* A list in the order of its numbers. *)
Rising(list, id) == \A j, k \in DOMAIN list : j < k => id[list[j]] < id[list[k]]

LEMMA RisingSame ==
    ASSUME NEW s, NEW f, NEW g, Rising(s, f), \A x \in Range(s) : g[x] = f[x]
    PROVE  Rising(s, g)
BY DEF Rising, Range

LEMMA RisingTail ==
    ASSUME NEW S, NEW s \in Seq(S), NEW f, s # <<>>, Rising(s, f)
    PROVE  Rising(Tail(s), f) /\ \A x \in Range(Tail(s)) : f[Head(s)] < f[x]
<1> DEFINE t == Tail(s)
<1>1. /\ t \in Seq(S) /\ Len(t) = Len(s) - 1
      /\ \A i \in 1 .. Len(t) : t[i] = s[i + 1]
  BY HeadTailProperties
<1>2. DOMAIN s = 1 .. Len(s) /\ Len(s) \in Nat /\ Len(s) # 0 /\ DOMAIN t = 1 .. Len(t)
  BY <1>1, LenProperties, EmptySeq
<1>3. Head(s) = s[1] OBVIOUS
<1> HIDE DEF t
<1>4. 1 \in DOMAIN s BY <1>2
<1>5. \A i \in DOMAIN t : i + 1 \in DOMAIN s /\ t[i] = s[i + 1] /\ 1 < i + 1
  BY <1>1, <1>2
<1>6. \A j, k \in DOMAIN t : j < k => j + 1 < k + 1 BY <1>1, <1>2
<1>7. Rising(t, f) BY <1>5, <1>6 DEF Rising
<1>8. \A x \in Range(t) : f[Head(s)] < f[x] BY <1>3, <1>4, <1>5 DEF Rising, Range
<1> QED BY <1>7, <1>8 DEF t

LEMMA RisingAppend ==
    ASSUME NEW S, NEW s \in Seq(S), NEW f, NEW x \in S, Rising(s, f),
           \A y \in Range(s) : f[y] < f[x]
    PROVE  Rising(Append(s, x), f)
<1> DEFINE t == Append(s, x)
<1>1. /\ t \in Seq(S) /\ Len(t) = Len(s) + 1
      /\ \A i \in 1 .. Len(s) : t[i] = s[i]
      /\ t[Len(s) + 1] = x
  BY AppendProperties
<1>2. DOMAIN s = 1 .. Len(s) /\ Len(s) \in Nat /\ DOMAIN t = 1 .. Len(s) + 1
  BY <1>1, LenProperties
<1> HIDE DEF t
<1> SUFFICES ASSUME NEW j \in DOMAIN t, NEW k \in DOMAIN t, j < k PROVE f[t[j]] < f[t[k]]
  BY DEF Rising, t
<1>3. j \in DOMAIN s /\ t[j] = s[j] BY <1>1, <1>2
<1>4. CASE k \in DOMAIN s BY <1>1, <1>2, <1>3, <1>4 DEF Rising
<1>5. CASE k \notin DOMAIN s
  <2>1. k = Len(s) + 1 BY <1>2, <1>5
  <2> QED BY <1>1, <1>3, <2>1 DEF Range
<1> QED BY <1>4, <1>5

LEMMA RisingErase ==
    ASSUME NEW S, NEW s \in Seq(S), NEW f, NEW x, Rising(s, f)
    PROVE  Rising(Erase(s, x), f)
<1> SUFFICES ASSUME NEW at \in DOMAIN s PROVE Rising(RemoveAt(s, at), f)
  BY EraseAt
<1> DEFINE r == RemoveAt(s, at)
           from(i) == IF i < at THEN i ELSE i + 1
<1>1. /\ Len(s) \in Nat /\ DOMAIN r = 1 .. Len(s) - 1
      /\ \A i \in 1 .. at - 1 : r[i] = s[i]
      /\ \A i \in at .. Len(s) - 1 : r[i] = s[i + 1]
  BY RemoveAtIndex
<1>2. DOMAIN s = 1 .. Len(s) /\ at \in 1 .. Len(s) BY <1>1, LenProperties
<1> HIDE DEF r
<1>3. \A i \in DOMAIN r : from(i) \in DOMAIN s /\ r[i] = s[from(i)] BY <1>1, <1>2
<1>4. \A j, k \in DOMAIN r : j < k => from(j) < from(k) BY <1>1, <1>2
<1> HIDE DEF from
<1>5. Rising(r, f) BY <1>3, <1>4 DEF Rising
<1> QED BY <1>5 DEF r

LEMMA Lowest == ASSUME NEW I \in SUBSET Nat, I # {} PROVE \E k \in I : \A j \in I : k <= j
<1>1. PICK x \in I : \A y \in I : <<y, x>> \notin OpToRel(<, Nat)
  BY NatLessThanWellFounded, WFMin
<1>2. \A y \in I : ~(y < x) BY <1>1, Zenon DEF OpToRel
<1> QED BY <1>2

(* pop_near_item_to_capture finds a record when there is one, and the one with the
   number itself in a list that rises. *)
LEMMA NearFinds ==
    ASSUME NEW list \in Seq(Infos), NEW id \in [Infos -> Int], NEW f \in Int
    PROVE  /\ list = <<>> => Near(list, id, f) = NULL
           /\ list # <<>> => Near(list, id, f) \in Range(list)
           /\ \A r \in Range(list) : Rising(list, id) /\ id[r] = f
                => id[Near(list, id, f)] = f
<1> DEFINE at == {k \in DOMAIN list : id[list[k]] >= f}
           low == CHOOSE k \in at : \A j \in at : k <= j
<1>1. DOMAIN list = 1 .. Len(list) /\ Len(list) \in Nat
      /\ \A k \in DOMAIN list : list[k] \in Infos
  BY LenProperties, ElementOfSeq
<1>2. CASE list = <<>> BY <1>1, <1>2, EmptySeq DEF Near, Range
<1>3. CASE list # <<>> /\ at = {}
  <2>1. Near(list, id, f) = list[Len(list)] BY <1>3 DEF Near, Last
  <2>2. Len(list) \in DOMAIN list BY <1>1, <1>3, EmptySeq
  <2>3. \A r \in Range(list) : id[r] # f BY <1>1, <1>3 DEF Range
  <2> QED BY <1>3, <2>1, <2>2, <2>3 DEF Range
<1>4. CASE list # <<>> /\ at # {}
  <2>1. Near(list, id, f) = list[low] BY <1>4 DEF Near
  <2>2. low \in at /\ \A j \in at : low <= j
    <3>1. at \in SUBSET Nat BY <1>1
    <3> HIDE DEF at
    <3>2. \E k \in at : \A j \in at : k <= j BY <1>4, <3>1, Lowest
    <3> QED BY <3>2
  <2> HIDE DEF low
  <2>3. ASSUME NEW r \in Range(list), Rising(list, id), id[r] = f
        PROVE  id[list[low]] = f
    <3>1. PICK k \in DOMAIN list : list[k] = r BY DEF Range
    <3>2. k \in at /\ low <= k BY <2>2, <2>3, <3>1
    <3>3. low < k => id[list[low]] < id[list[k]] BY <2>2, <2>3 DEF Rising
    <3>4. id[list[low]] >= f BY <2>2
    <3>5. low \in Int /\ k \in Int /\ id[list[low]] \in Int BY <1>1, <2>2
    <3> QED BY <2>3, <3>1, <3>2, <3>3, <3>4, <3>5
  <2> QED BY <1>4, <2>1, <2>2, <2>3 DEF Range
<1> QED BY <1>2, <1>3, <1>4

-----------------------------------------------------------------------------
(* Types. *)

(* What the threads and the callbacks hold in each of their states. *)
HoldInv ==
    /\ rawCb.pc # "idle" => rawCb.raw \in Raws
    /\ rawCb.pc = "idle" => rawCb = NoRawCb
    /\ viCb.pc \in {"flag", "push", "back"} => viCb.out \in Outs
    /\ viCb.pc = "idle" => viCb = NoViCb
    /\ capture # NoCapture => capture.raw \in Raws /\ capture.out \in Outs
    /\ rawThread.pc \in {"peek", "erase", "trigger", "back", "repeat", "store"} =>
         rawThread.in \in Raws /\ rawThread.out \in Outs
    /\ rawThread.pc \in {"erase", "trigger", "back", "repeat", "store"} =>
         rawThread.info \in Infos
    /\ cppThread.pc \in {"peek", "erase", "post"} =>
         cppThread.in \in Outs /\ cppThread.out \in CppOuts
    /\ cppThread.pc \in {"erase", "post"} => cppThread.info \in Infos

(* The parts of TypeOK. *)
CondsOK == rawCond \in BOOLEAN /\ cppCond \in BOOLEAN /\ streamOnFlag \in BOOLEAN
CtlOK ==
    /\ main \in {"idle", "run", "stopping", "viOff", "cppOff", "rawOff", "quitCpp", "joinCpp",
                 "quitRaw", "joinRaw", "release", "ended"}
    /\ flag_tirg \in {0, 1}
    /\ threadRunning \in [raw : BOOLEAN, cpp : BOOLEAN]
    /\ frames \in 0 .. MaxFrame /\ ispFrames \in 0 .. MaxIspFrame
    /\ ispCb \in {"idle", "copy", "again", "oldest"}
    /\ raced \subseteq Races
SetsOK == viPool \cup cppIn \subseteq Outs /\ cppPool \cup cppOut \subseteq CppOuts
RawListsOK ==
    /\ rawdump_capture_list \in Seq(Raws) /\ IsInjective(rawdump_capture_list)
    /\ rawdump_capture_back_list \in Seq(Raws) /\ IsInjective(rawdump_capture_back_list)
    /\ rawdump_capture_origin_list \in Seq(Raws) /\ IsInjective(rawdump_capture_origin_list)
    /\ rawQueue \in Seq(Raws)
InfoListsOK ==
    /\ isp_capture_list \in Seq(Infos) /\ IsInjective(isp_capture_list)
    /\ isp_capture_repeat_list \in Seq(Infos) /\ IsInjective(isp_capture_repeat_list)
    /\ isp_capture_origin_list \in Seq(Infos) /\ IsInjective(isp_capture_origin_list)
OutListOK == vi_capture_list \in Seq(Outs) /\ IsInjective(vi_capture_list)
IdsOK ==
    /\ frameId \in [Raws \cup Outs -> 0 .. MaxFrame]
    /\ ispId \in [Infos -> -1 .. MaxIspFrame] /\ viId \in [Infos -> -1 .. MaxFrame]
HoldersOK ==
    /\ capture \in [raw : Buffers(Raws), out : Buffers(Outs)]
    /\ rawCb \in [pc : {"idle", "empty", "oldest", "fill"}, raw : Buffers(Raws),
                  queued : BOOLEAN]
    /\ viCb \in [pc : {"idle", "flag", "push", "back"}, out : Buffers(Outs)]
    /\ rawThread \in [pc : {"wait", "check", "get", "peek", "erase", "trigger", "back",
                            "repeat", "store", "segv", "exited"},
                      in : Buffers(Raws), out : Buffers(Outs), info : Buffers(Infos)]
    /\ cppThread \in [pc : {"wait", "check", "peek", "erase", "post", "segv", "exited"},
                      in : Buffers(Outs), out : Buffers(CppOuts), info : Buffers(Infos)]
FreesOK == frees \in [Infos -> 0 .. 3]

Parts == /\ CondsOK /\ CtlOK /\ SetsOK /\ RawListsOK /\ InfoListsOK /\ OutListOK
         /\ IdsOK /\ HoldersOK /\ FreesOK

LEMMA TypeParts == Parts => TypeOK
<1> SUFFICES ASSUME Parts PROVE TypeOK OBVIOUS
<1>1. \A l \in {rawdump_capture_list, rawdump_capture_back_list,
                rawdump_capture_origin_list} : l \in Seq(Raws) /\ IsInjective(l)
  BY DEF Parts, RawListsOK
<1>2. \A l \in {isp_capture_list, isp_capture_repeat_list, isp_capture_origin_list} :
        l \in Seq(Infos) /\ IsInjective(l)
  BY DEF Parts, InfoListsOK
<1>3. streamOnFlag \in BOOLEAN /\ {rawCond, cppCond} \subseteq BOOLEAN
  BY Zenon DEF Parts, CondsOK
<1> QED BY <1>1, <1>2, <1>3
        DEF TypeOK, Parts, CtlOK, SetsOK, RawListsOK, OutListOK, IdsOK, HoldersOK, FreesOK

TypeInv == Parts /\ HoldInv

LEMMA TypeInit == Init => TypeInv
<1> SUFFICES ASSUME Init PROVE TypeInv OBVIOUS
<1> USE SliceAssumption DEF Init
<1>1. SetToSeq(Infos) \in Seq(Infos) /\ IsInjective(SetToSeq(Infos))
  BY SetToSeqRange
<1>2. CondsOK /\ CtlOK
  <2>1. CondsOK BY Zenon DEF CondsOK
  <2>2. threadRunning \in [raw : BOOLEAN, cpp : BOOLEAN] BY Zenon
  <2>3. 0 \in 0 .. MaxFrame /\ 0 \in 0 .. MaxIspFrame OBVIOUS
  <2>4. CtlOK BY <2>2, <2>3 DEF CtlOK
  <2> QED BY <2>1, <2>4
<1>3. SetsOK BY DEF SetsOK
<1>4. RawListsOK BY DEF RawListsOK, IsInjective
<1>5. InfoListsOK BY <1>1 DEF InfoListsOK, IsInjective
<1>6. OutListOK BY DEF OutListOK, IsInjective
<1>7. IdsOK BY DEF IdsOK
<1>8. HoldersOK BY DEF HoldersOK, NoCapture, NoRawCb, NoViCb, AtWait, Buffers
<1>9. FreesOK BY DEF FreesOK
<1>10. HoldInv BY DEF HoldInv, NoCapture, NoRawCb, NoViCb, AtWait
<1> QED BY <1>2, <1>3, <1>4, <1>5, <1>6, <1>7, <1>8, <1>9, <1>10 DEF TypeInv, Parts

(* The steps that change the lists, and those that leave them alone. *)
RawMoves ==
    StreamOn \/ CaptureDeInit \/ RawFrame \/ RawCb \/ ViCbBack \/ RawGet \/ RawBack
InfoMoves == CaptureDeInit \/ IspCb \/ RawErase \/ RawRepeat \/ CppErase \/ CppPost
OutMoves  == CaptureDeInit \/ ViCbPush \/ CppPop

LEMMA ListsSame ==
    ASSUME [Next]_vars
    PROVE  /\ RawMoves \/ UNCHANGED <<rawLists, rawQueue>>
           /\ InfoMoves \/ UNCHANGED infoLists
           /\ OutMoves \/ UNCHANGED vi_capture_list
<1> USE DEF Next, Main, IspCb, ViCb, RawThread, CppThread, StreamOn, StreamOff,
        StopUnits, ProcThreadDeinit, ProcThreadJoin, IspFrame, CaptureDone, ViCbFlag, RawWait,
        RawCheck, RawPeek, RawTrigger, RawStore, CppWait, CppPeek, CppInDone, CppOutDone,
        vars, hwVars, outVars
<1>1. RawMoves \/ UNCHANGED <<rawLists, rawQueue>>
  BY DEF RawMoves, IspCbCopy, IspCbOldest, ViCbPush, RawErase, RawRepeat, CppPop, CppErase,
         CppPost
<1>2. InfoMoves \/ UNCHANGED infoLists
  BY DEF InfoMoves, RawCb, RawFrame, RawCbEmpty, RawCbOldest, RawCbFill, ViCbPush, ViCbBack,
         RawGet, RawBack, CppPop
<1>3. OutMoves \/ UNCHANGED vi_capture_list
  BY DEF OutMoves, RawCb, RawFrame, RawCbEmpty, RawCbOldest, RawCbFill, IspCbCopy, IspCbOldest,
         ViCbBack, RawGet, RawErase, RawBack, RawRepeat, CppErase, CppPost
<1> QED BY <1>1, <1>2, <1>3

(* An element that goes from the head of one list to the end of another. *)
LEMMA HeadPushed ==
    ASSUME NEW S, NEW s \in Seq(S), NEW t \in Seq(S), s # <<>>
    PROVE  /\ Head(s) \in S /\ Tail(s) \in Seq(S) /\ Push(t, Head(s)) \in Seq(S)
           /\ Range(s) = {Head(s)} \cup Range(Tail(s))
           /\ Range(Push(t, Head(s))) = Range(t) \cup {Head(s)}
           /\ IsInjective(s) => IsInjective(Tail(s)) /\ Head(s) \notin Range(Tail(s))
           /\ IsInjective(t) => IsInjective(Push(t, Head(s)))
<1> DEFINE x == Head(s)
<1>1. /\ x \in S /\ Tail(s) \in Seq(S)
      /\ Range(s) = {Head(s)} \cup Range(Tail(s))
      /\ IsInjective(s) => IsInjective(Tail(s)) /\ Head(s) \notin Range(Tail(s))
  BY TailRange
<1>2. /\ Push(t, x) \in Seq(S) /\ Range(Push(t, x)) = Range(t) \cup {x}
      /\ IsInjective(t) => IsInjective(Push(t, x))
  <2> HIDE DEF x
  <2> QED BY <1>1, PushRange
<1> QED BY <1>1, <1>2, Zenon

LEMMA HeadAppended ==
    ASSUME NEW S, NEW s \in Seq(S), NEW t \in Seq(S), s # <<>>
    PROVE  /\ Head(s) \in S /\ Tail(s) \in Seq(S) /\ Append(t, Head(s)) \in Seq(S)
           /\ Range(s) = {Head(s)} \cup Range(Tail(s))
           /\ Range(Append(t, Head(s))) = Range(t) \cup {Head(s)}
           /\ IsInjective(s) => IsInjective(Tail(s)) /\ Head(s) \notin Range(Tail(s))
BY AppendRange, TailRange

LEMMA CondsStep == ASSUME CondsOK, [Next]_vars PROVE CondsOK'
<1>1. /\ rawCond' \in {TRUE, FALSE, rawCond} /\ cppCond' \in {TRUE, FALSE, cppCond}
      /\ streamOnFlag' \in {TRUE, FALSE, streamOnFlag}
  BY DEF Next, Main, RawCb, IspCb, ViCb, RawThread, CppThread, StreamOn, StreamOff,
        StopUnits, ProcThreadDeinit, ProcThreadJoin, CaptureDeInit, RawFrame, RawCbEmpty,
        RawCbOldest, RawCbFill, IspFrame, IspCbCopy, IspCbOldest, IspCbEnd, CaptureDone,
        ViCbFlag, ViCbPush, ViCbBack, RawWait, RawCheck, RawGet, RawPeek, RawErase, RawTrigger,
        RawBack, RawRepeat, RawStore, CppWait, CppPop, CppPeek, CppErase, CppPost, CppInDone,
        CppOutDone, vars, condVars, ctlVars
<1> QED BY <1>1, Zenon DEF CondsOK

LEMMA CtlStep == ASSUME CtlOK, CondsOK, [Next]_vars PROVE CtlOK'
<1>1. /\ main' \in {"idle", "run", "stopping", "viOff", "cppOff", "rawOff", "quitCpp", "joinCpp",
                   "quitRaw", "joinRaw", "release", "ended"}
      /\ flag_tirg' \in {0, 1} /\ ispCb' \in {"idle", "copy", "again", "oldest"}
      /\ threadRunning' \in [raw : BOOLEAN, cpp : BOOLEAN]
      /\ raced' \subseteq Races
      /\ frames' = frames \/ (frames < MaxFrame /\ frames' = frames + 1)
      /\ ispFrames' = ispFrames \/ (ispFrames < MaxIspFrame /\ ispFrames' = ispFrames + 1)
  <2> USE DEF Next, Main, RawCb, IspCb, ViCb, RawThread, CppThread, StreamOn, StreamOff,
        StopUnits, ProcThreadDeinit, ProcThreadJoin, CaptureDeInit, RawFrame, RawCbEmpty,
        RawCbOldest, RawCbFill, IspFrame, IspCbCopy, IspCbOldest, IspCbEnd, CaptureDone,
        ViCbFlag, ViCbPush, ViCbBack, RawWait, RawCheck, RawGet, RawPeek, RawErase, RawTrigger,
        RawBack, RawRepeat, RawStore, CppWait, CppPop, CppPeek, CppErase, CppPost, CppInDone,
        CppOutDone, vars, cbVars, ctlVars, hwVars, endVars, CtlOK
  <2>1. main' \in {"idle", "run", "stopping", "viOff", "cppOff", "rawOff", "quitCpp", "joinCpp",
                   "quitRaw", "joinRaw", "release", "ended"} OBVIOUS
  <2>2. flag_tirg' \in {0, 1} /\ ispCb' \in {"idle", "copy", "again", "oldest"} OBVIOUS
  <2>3. threadRunning' \in [raw : BOOLEAN, cpp : BOOLEAN] OBVIOUS
  <2>4. raced' \subseteq Races BY DEF Races
  <2>5. frames' = frames \/ (frames < MaxFrame /\ frames' = frames + 1) OBVIOUS
  <2>6. ispFrames' = ispFrames \/ (ispFrames < MaxIspFrame /\ ispFrames' = ispFrames + 1)
    OBVIOUS
  <2> HIDE DEF Next, vars
  <2> QED BY ONLY <2>1, <2>2, <2>3, <2>4, <2>5, <2>6
<1>2. frames' \in 0 .. MaxFrame /\ ispFrames' \in 0 .. MaxIspFrame
  BY <1>1, SliceAssumption DEF CtlOK
<1> QED BY <1>1, <1>2 DEF CtlOK

LEMMA SetsStep == ASSUME Parts, HoldInv, [Next]_vars PROVE SetsOK'
BY DEF Next, Main, RawCb, IspCb, ViCb, RawThread, CppThread, StreamOn, StreamOff,
        StopUnits, ProcThreadDeinit, ProcThreadJoin, CaptureDeInit, RawFrame, RawCbEmpty,
        RawCbOldest, RawCbFill, IspFrame, IspCbCopy, IspCbOldest, IspCbEnd, CaptureDone,
        ViCbFlag, ViCbPush, ViCbBack, RawWait, RawCheck, RawGet, RawPeek, RawErase, RawTrigger,
        RawBack, RawRepeat, RawStore, CppWait, CppPop, CppPeek, CppErase, CppPost, CppInDone,
        CppOutDone, vars, outVars, hwVars, SetsOK, Parts, HoldInv

LEMMA OutListStep == ASSUME Parts, HoldInv, [Next]_vars PROVE OutListOK'
<1> USE DEF Parts, OutListOK
<1>1. CASE CaptureDeInit BY <1>1 DEF CaptureDeInit, IsInjective
<1>2. CASE ViCbPush BY <1>2, PushRange DEF ViCbPush, HoldInv
<1>3. CASE CppPop
  <2>1. CASE vi_capture_list = <<>> \/ cppPool = {} BY <1>3, <2>1 DEF CppPop
  <2>2. CASE vi_capture_list # <<>> /\ cppPool # {}
    <3>1. vi_capture_list' = Tail(vi_capture_list) BY <1>3, <2>2 DEF CppPop
    <3> QED BY <2>2, <3>1, TailRange
  <2> QED BY <2>1, <2>2
<1>4. CASE UNCHANGED vi_capture_list BY <1>4
<1> QED BY <1>1, <1>2, <1>3, <1>4, ListsSame DEF OutMoves

LEMMA InfoListsStep == ASSUME Parts, HoldInv, [Next]_vars PROVE InfoListsOK'
<1> USE DEF Parts, InfoListsOK
<1>1. CASE CaptureDeInit BY <1>1 DEF CaptureDeInit, IsInjective
<1>2. CASE IspCbCopy
  <2>1. CASE isp_capture_origin_list = <<>>
    BY <1>2, <2>1 DEF IspCbCopy, infoLists
  <2>2. CASE isp_capture_origin_list # <<>>
    <3>1. /\ isp_capture_list' = Push(isp_capture_list, Head(isp_capture_origin_list))
          /\ isp_capture_origin_list' = Tail(isp_capture_origin_list)
          /\ UNCHANGED isp_capture_repeat_list
      BY <1>2, <2>2 DEF IspCbCopy
    <3> QED BY <2>2, <3>1, HeadPushed
  <2> QED BY <2>1, <2>2
<1>3. CASE IspCbOldest
  <2>1. CASE isp_capture_list = <<>> BY <1>3, <2>1 DEF IspCbOldest
  <2>2. CASE isp_capture_list # <<>>
    <3>1. /\ isp_capture_origin_list' = Push(isp_capture_origin_list, Head(isp_capture_list))
          /\ isp_capture_list' = Tail(isp_capture_list)
          /\ UNCHANGED isp_capture_repeat_list
      BY <1>3, <2>2 DEF IspCbOldest
    <3> QED BY <2>2, <3>1, HeadPushed
  <2> QED BY <2>1, <2>2
<1>4. CASE RawErase BY <1>4, EraseRange DEF RawErase, infoLists
<1>5. CASE RawRepeat BY <1>5, PushRange DEF RawRepeat, infoLists, HoldInv
<1>6. CASE CppErase BY <1>6, EraseRange DEF CppErase, infoLists
<1>7. CASE CppPost BY <1>7, PushRange DEF CppPost, infoLists, HoldInv
<1>8. CASE UNCHANGED infoLists BY <1>8 DEF infoLists
<1> QED BY <1>1, <1>2, <1>3, <1>4, <1>5, <1>6, <1>7, <1>8, ListsSame DEF InfoMoves, IspCb

LEMMA RawListsStep == ASSUME Parts, HoldInv, [Next]_vars PROVE RawListsOK'
<1> USE DEF Parts, RawListsOK, rawLists
<1>1. CASE CaptureDeInit BY <1>1 DEF CaptureDeInit, IsInjective, hwVars
<1>2. CASE StreamOn BY <1>2, SetToSeqRange, SliceAssumption DEF StreamOn
<1>3. CASE RawFrame BY <1>3, TailRange DEF RawFrame
<1>4. CASE RawCbEmpty
  <2>1. CASE rawdump_capture_origin_list = <<>> BY <1>4, <2>1 DEF RawCbEmpty
  <2>2. CASE rawdump_capture_origin_list # <<>>
    <3>1. /\ rawQueue' = Append(rawQueue, Head(rawdump_capture_origin_list))
          /\ rawdump_capture_origin_list' = Tail(rawdump_capture_origin_list)
          /\ UNCHANGED <<rawdump_capture_list, rawdump_capture_back_list>>
      BY <1>4, <2>2 DEF RawCbEmpty
    <3> QED BY <2>2, <3>1, HeadAppended
  <2> QED BY <2>1, <2>2
<1>5. CASE RawCbOldest
  <2>1. CASE rawdump_capture_list = <<>> BY <1>5, <2>1 DEF RawCbOldest
  <2>2. CASE rawdump_capture_list # <<>>
    <3>1. /\ rawQueue' = Append(rawQueue, Head(rawdump_capture_list))
          /\ rawdump_capture_list' = Tail(rawdump_capture_list)
          /\ UNCHANGED <<rawdump_capture_origin_list, rawdump_capture_back_list>>
      BY <1>5, <2>2 DEF RawCbOldest
    <3> QED BY <2>2, <3>1, HeadAppended
  <2> QED BY <2>1, <2>2
<1>6. CASE RawCbFill BY <1>6, PushRange DEF RawCbFill, HoldInv, hwVars
<1>7. CASE ViCbBack
  <2>1. CASE rawdump_capture_back_list = <<>> BY <1>7, <2>1 DEF ViCbBack, hwVars
  <2>2. CASE rawdump_capture_back_list # <<>>
    <3>1. /\ rawdump_capture_origin_list' =
               Push(rawdump_capture_origin_list, Head(rawdump_capture_back_list))
          /\ rawdump_capture_back_list' = Tail(rawdump_capture_back_list)
          /\ UNCHANGED <<rawdump_capture_list, rawQueue>>
      BY <1>7, <2>2 DEF ViCbBack, hwVars
    <3> QED BY <2>2, <3>1, HeadPushed
  <2> QED BY <2>1, <2>2
<1>8. CASE RawGet BY <1>8, TailRange DEF RawGet, hwVars
<1>9. CASE RawBack BY <1>9, PushRange DEF RawBack, HoldInv, hwVars
<1>10. CASE UNCHANGED <<rawLists, rawQueue>> BY <1>10
<1> QED BY <1>1, <1>2, <1>3, <1>4, <1>5, <1>6, <1>7, <1>8, <1>9, <1>10, ListsSame
        DEF RawMoves, RawCb

LEMMA IdsStep == ASSUME Parts, HoldInv, [Next]_vars PROVE IdsOK'
<1> USE DEF Parts, IdsOK
<1>1. CASE RawCbFill BY <1>1 DEF RawCbFill, CtlOK
<1>2. CASE RawGet
  <2>1. CASE viPool = {} \/ rawdump_capture_list = <<>> BY <1>2, <2>1 DEF RawGet
  <2>2. CASE viPool # {} /\ rawdump_capture_list # <<>>
    <3>1. UNCHANGED <<ispId, viId>> BY <1>2 DEF RawGet
    <3>2. Head(rawdump_capture_list) \in Raws BY <2>2, TailRange DEF RawListsOK
    <3>3. PICK o \in viPool :
            frameId' = [frameId EXCEPT ![o] = frameId[Head(rawdump_capture_list)]]
      BY <1>2, <2>2 DEF RawGet
    <3> QED BY <3>1, <3>2, <3>3
  <2> QED BY <2>1, <2>2
<1>3. CASE IspCbCopy
  <2>1. CASE isp_capture_origin_list = <<>> BY <1>3, <2>1 DEF IspCbCopy
  <2>2. CASE isp_capture_origin_list # <<>>
    <3>1. Head(isp_capture_origin_list) \in Infos BY <2>2, TailRange DEF InfoListsOK
    <3>2. /\ ispId' = [ispId EXCEPT ![Head(isp_capture_origin_list)] = ispFrames]
          /\ viId' = [viId EXCEPT ![Head(isp_capture_origin_list)] = -1]
          /\ UNCHANGED frameId
      BY <1>3, <2>2 DEF IspCbCopy
    <3> QED BY <3>1, <3>2, SliceAssumption DEF CtlOK
  <2> QED BY <2>1, <2>2
<1>4. CASE RawErase
  <2>1. frameId[rawThread.out] \in 0 .. MaxFrame BY <1>4 DEF RawErase, HoldInv
  <2>2. /\ viId' = [viId EXCEPT ![rawThread.info] = frameId[rawThread.out]]
        /\ UNCHANGED <<frameId, ispId>>
    BY <1>4 DEF RawErase
  <2>3. frameId[rawThread.out] \in -1 .. MaxFrame BY <2>1, SliceAssumption
  <2> QED BY <2>2, <2>3
<1>5. CASE UNCHANGED idVars BY <1>5 DEF idVars
<1>6. RawCbFill \/ RawGet \/ IspCbCopy \/ RawErase \/ UNCHANGED idVars
  BY DEF Next, Main, RawCb, IspCb, ViCb, RawThread, CppThread, StreamOn, StreamOff,
        StopUnits, ProcThreadDeinit, ProcThreadJoin, CaptureDeInit, RawFrame, RawCbEmpty,
        RawCbOldest, IspFrame, IspCbOldest, CaptureDone, ViCbFlag, ViCbPush, ViCbBack, RawWait,
        RawCheck, RawPeek, RawTrigger, RawBack, RawRepeat, RawStore, CppWait, CppPop, CppPeek,
        CppErase, CppPost, CppInDone, CppOutDone, vars, idVars
<1> QED BY <1>1, <1>2, <1>3, <1>4, <1>5, <1>6

LEMMA FreesStep == ASSUME Parts, [Next]_vars PROVE FreesOK'
<1>1. CASE CaptureDeInit
  <2>1. ASSUME NEW A \in SUBSET (1 .. 3) PROVE Cardinality(A) \in 0 .. 3
    <3>1. 1 \in Int /\ 3 \in Int OBVIOUS
    <3>2. IsFiniteSet(1 .. 3) /\ Cardinality(1 .. 3) = IF 1 > 3 THEN 0 ELSE 3 - 1 + 1
      BY <3>1, FS_Interval, Zenon
    <3>3. Cardinality(A) \in Nat /\ Cardinality(A) <= Cardinality(1 .. 3)
      BY <3>2, FS_Subset, FS_CardinalityType
    <3> QED BY <3>2, <3>3
  <2>2. frees' = [r \in Infos |-> Cardinality({l \in 1 .. 3 : Contains(infoLists[l], r)})]
    BY <1>1 DEF CaptureDeInit
  <2>3. \A r \in Infos : {l \in 1 .. 3 : Contains(infoLists[l], r)} \in SUBSET (1 .. 3)
    OBVIOUS
  <2>4. \A r \in Infos : Cardinality({l \in 1 .. 3 : Contains(infoLists[l], r)}) \in 0 .. 3
    BY <2>1, <2>3, Zenon
  <2> QED BY <2>2, <2>4, Zenon DEF FreesOK
<1>2. CaptureDeInit \/ UNCHANGED frees
  BY DEF Next, Main, RawCb, IspCb, ViCb, RawThread, CppThread, StreamOn, StreamOff,
        StopUnits, ProcThreadDeinit, ProcThreadJoin, RawFrame, RawCbEmpty,
        RawCbOldest, RawCbFill, IspFrame, IspCbCopy, IspCbOldest, CaptureDone,
        ViCbFlag, ViCbPush, ViCbBack, RawWait, RawCheck, RawGet, RawPeek, RawErase, RawTrigger,
        RawBack, RawRepeat, RawStore, CppWait, CppPop, CppPeek, CppErase, CppPost, CppInDone,
        CppOutDone, vars, endVars
<1> QED BY <1>1, <1>2 DEF Parts, FreesOK

(* What the callbacks hold. *)
CallbackOK ==
    /\ capture \in [raw : Buffers(Raws), out : Buffers(Outs)]
    /\ rawCb \in [pc : {"idle", "empty", "oldest", "fill"}, raw : Buffers(Raws),
                  queued : BOOLEAN]
    /\ viCb \in [pc : {"idle", "flag", "push", "back"}, out : Buffers(Outs)]
    /\ rawCb.pc # "idle" => rawCb.raw \in Raws
    /\ rawCb.pc = "idle" => rawCb = NoRawCb
    /\ viCb.pc \in {"flag", "push", "back"} => viCb.out \in Outs
    /\ viCb.pc = "idle" => viCb = NoViCb
    /\ capture # NoCapture => capture.raw \in Raws /\ capture.out \in Outs

LEMMA CallbackStep == ASSUME Parts, HoldInv, [Next]_vars PROVE CallbackOK'
<1> USE DEF CallbackOK, Buffers, NoRawCb, NoViCb, NoCapture
<1>0. CallbackOK BY DEF Parts, HoldersOK, HoldInv
<1>1. CASE RawFrame
  <2>1. Head(rawQueue) \in Raws BY <1>1, TailRange DEF RawFrame, Parts, RawListsOK
  <2>2. rawCb' = [pc |-> "empty", raw |-> Head(rawQueue), queued |-> FALSE]
        /\ UNCHANGED <<capture, viCb>>
    BY <1>1 DEF RawFrame
  <2> QED BY <1>0, <2>1, <2>2
<1>2. CASE RawCbEmpty
  <2>1. rawCb.pc = "empty" /\ UNCHANGED <<capture, viCb>> BY <1>2 DEF RawCbEmpty
  <2>2. \/ rawCb' = [rawCb EXCEPT !.queued = TRUE]
        \/ rawCb' = [rawCb EXCEPT !.pc = "fill"]
        \/ rawCb' = [rawCb EXCEPT !.pc = "oldest"]
    BY <1>2 DEF RawCbEmpty
  <2> QED BY <1>0, <2>1, <2>2
<1>3. CASE RawCbOldest BY <1>0, <1>3 DEF RawCbOldest
<1>4. CASE RawCbFill BY <1>0, <1>4 DEF RawCbFill, hwVars
<1>5. CASE CaptureDone BY <1>0, <1>5 DEF CaptureDone
<1>6. CASE ViCbFlag BY <1>0, <1>6 DEF ViCbFlag, hwVars
<1>7. CASE ViCbPush BY <1>0, <1>7 DEF ViCbPush, hwVars
<1>8. CASE ViCbBack BY <1>0, <1>8 DEF ViCbBack, hwVars
<1>9. CASE StopUnits BY <1>0, <1>9 DEF StopUnits, cbVars
<1>10. CASE RawTrigger BY <1>0, <1>10 DEF RawTrigger, cbVars, HoldInv
<1>11. CASE UNCHANGED <<capture, rawCb, viCb>> BY <1>0, <1>11
<1>12. \/ RawFrame \/ RawCbEmpty \/ RawCbOldest \/ RawCbFill \/ CaptureDone \/ ViCbFlag
       \/ ViCbPush \/ ViCbBack \/ StopUnits \/ RawTrigger \/ UNCHANGED <<capture, rawCb, viCb>>
  BY DEF Next, Main, RawCb, IspCb, ViCb, RawThread, CppThread, StreamOn, StreamOff,
        ProcThreadDeinit, ProcThreadJoin, CaptureDeInit, IspFrame, IspCbCopy, IspCbOldest,
        RawWait, RawCheck, RawGet, RawPeek, RawErase, RawBack, RawRepeat, RawStore, CppWait,
        CppPop, CppPeek, CppErase, CppPost, CppInDone, CppOutDone, vars, cbVars, hwVars
<1> QED BY <1>1, <1>2, <1>3, <1>4, <1>5, <1>6, <1>7, <1>8, <1>9, <1>10, <1>11, <1>12

(* What the raw thread holds. *)
RawThreadOK ==
    /\ rawThread \in [pc : {"wait", "check", "get", "peek", "erase", "trigger", "back",
                            "repeat", "store", "segv", "exited"},
                      in : Buffers(Raws), out : Buffers(Outs), info : Buffers(Infos)]
    /\ rawThread.pc \in {"peek", "erase", "trigger", "back", "repeat", "store"} =>
         rawThread.in \in Raws /\ rawThread.out \in Outs
    /\ rawThread.pc \in {"erase", "trigger", "back", "repeat", "store"} =>
         rawThread.info \in Infos

LEMMA RawThreadStep == ASSUME Parts, HoldInv, [Next]_vars PROVE RawThreadOK'
<1> USE DEF RawThreadOK, Buffers, AtWait, RawLoop
<1>0. RawThreadOK BY DEF Parts, HoldersOK, HoldInv
<1>1. CASE RawWait \/ RawCheck BY <1>0, <1>1 DEF RawWait, RawCheck
<1>2. CASE RawGet
  <2>1. CASE viPool = {} BY <1>0, <1>2, <2>1 DEF RawGet
  <2>2. CASE viPool # {}
    <3>1. PICK o \in viPool :
            IF rawdump_capture_list = <<>>
              THEN rawThread' = [rawThread EXCEPT !.pc = "segv", !.out = o]
              ELSE rawThread' = [rawThread EXCEPT !.pc = "peek", !.out = o,
                                   !.in = Head(rawdump_capture_list)]
      BY <1>2, <2>2 DEF RawGet
    <3>2. o \in Outs BY DEF Parts, SetsOK
    <3>3. CASE rawdump_capture_list = <<>> BY <1>0, <3>1, <3>2, <3>3
    <3>4. CASE rawdump_capture_list # <<>>
      <4>1. Head(rawdump_capture_list) \in Raws BY <3>4, TailRange DEF Parts, RawListsOK
      <4> QED BY <1>0, <3>1, <3>2, <3>4, <4>1
    <3> QED BY <3>3, <3>4
  <2> QED BY <2>1, <2>2
<1>3. CASE RawPeek
  <2> DEFINE r == Near(isp_capture_list, ispId, frameId[rawThread.in])
  <2>1. rawThread.pc = "peek"
        /\ rawThread' = [rawThread EXCEPT !.pc = IF r = NULL THEN "segv" ELSE "erase",
                                          !.info = r]
    BY <1>3 DEF RawPeek
  <2>2. r = NULL \/ r \in Infos
    <3>1. /\ isp_capture_list \in Seq(Infos) /\ ispId \in [Infos -> Int]
          /\ frameId[rawThread.in] \in Int
      BY <1>0, <2>1, SliceAssumption DEF Parts, InfoListsOK, IdsOK
    <3>2. Range(isp_capture_list) \subseteq Infos BY <3>1, ElementOfSeq, LenProperties DEF Range
    <3> QED BY <3>1, <3>2, NearFinds
  <2> HIDE DEF r
  <2> QED BY <1>0, <2>1, <2>2
<1>4. CASE RawErase \/ RawTrigger \/ RawBack \/ RawRepeat \/ RawStore
  BY <1>0, <1>4 DEF RawErase, RawTrigger, RawBack, RawRepeat, RawStore
<1>5. CASE UNCHANGED rawThread BY <1>0, <1>5
<1>6. RawThread \/ UNCHANGED rawThread
  BY DEF Next, Main, RawCb, IspCb, ViCb, CppThread, StreamOn, StreamOff,
        StopUnits, ProcThreadDeinit, ProcThreadJoin, CaptureDeInit, RawFrame, RawCbEmpty,
        RawCbOldest, RawCbFill, IspFrame, IspCbCopy, IspCbOldest, CaptureDone,
        ViCbFlag, ViCbPush, ViCbBack, CppWait, CppPop, CppPeek, CppErase, CppPost, CppInDone,
        CppOutDone, vars, thrVars
<1> QED BY <1>1, <1>2, <1>3, <1>4, <1>5, <1>6 DEF RawThread

(* What the CPP thread holds. *)
CppThreadOK ==
    /\ cppThread \in [pc : {"wait", "check", "peek", "erase", "post", "segv", "exited"},
                      in : Buffers(Outs), out : Buffers(CppOuts), info : Buffers(Infos)]
    /\ cppThread.pc \in {"peek", "erase", "post"} =>
         cppThread.in \in Outs /\ cppThread.out \in CppOuts
    /\ cppThread.pc \in {"erase", "post"} => cppThread.info \in Infos

LEMMA CppThreadStep == ASSUME Parts, HoldInv, [Next]_vars PROVE CppThreadOK'
<1> USE DEF CppThreadOK, Buffers, AtWait, CppLoop
<1>0. CppThreadOK BY DEF Parts, HoldersOK, HoldInv
<1>1. CASE CppWait BY <1>0, <1>1 DEF CppWait
<1>2. CASE CppPop
  <2>1. CASE vi_capture_list = <<>> \/ cppPool = {} BY <1>0, <1>2, <2>1 DEF CppPop
  <2>2. CASE vi_capture_list # <<>> /\ cppPool # {}
    <3>1. PICK o \in cppPool :
            cppThread' = [cppThread EXCEPT !.pc = "peek", !.in = Head(vi_capture_list),
                                           !.out = o]
      BY <1>2, <2>2 DEF CppPop
    <3>2. o \in CppOuts BY DEF Parts, SetsOK
    <3>3. Head(vi_capture_list) \in Outs BY <2>2, TailRange DEF Parts, OutListOK
    <3> QED BY <1>0, <3>1, <3>2, <3>3
  <2> QED BY <2>1, <2>2
<1>3. CASE CppPeek
  <2> DEFINE r == Near(isp_capture_repeat_list, viId, frameId[cppThread.in])
  <2>1. cppThread.pc = "peek"
        /\ cppThread' = [cppThread EXCEPT !.pc = IF r = NULL THEN "segv" ELSE "erase",
                                          !.info = r]
    BY <1>3 DEF CppPeek
  <2>2. r = NULL \/ r \in Infos
    <3>1. /\ isp_capture_repeat_list \in Seq(Infos) /\ viId \in [Infos -> Int]
          /\ frameId[cppThread.in] \in Int
      BY <1>0, <2>1, SliceAssumption DEF Parts, InfoListsOK, IdsOK
    <3>2. Range(isp_capture_repeat_list) \subseteq Infos
      BY <3>1, ElementOfSeq, LenProperties DEF Range
    <3> QED BY <3>1, <3>2, NearFinds
  <2> HIDE DEF r
  <2> QED BY <1>0, <2>1, <2>2
<1>4. CASE CppErase \/ CppPost BY <1>0, <1>4 DEF CppErase, CppPost
<1>5. CASE UNCHANGED cppThread BY <1>0, <1>5
<1>6. CppThread \/ UNCHANGED cppThread
  BY DEF Next, Main, RawCb, IspCb, ViCb, RawThread, StreamOn, StreamOff,
        StopUnits, ProcThreadDeinit, ProcThreadJoin, CaptureDeInit, RawFrame, RawCbEmpty,
        RawCbOldest, RawCbFill, IspFrame, IspCbCopy, IspCbOldest, CaptureDone,
        ViCbFlag, ViCbPush, ViCbBack, RawWait, RawCheck, RawGet, RawPeek, RawErase, RawTrigger,
        RawBack, RawRepeat, RawStore, CppInDone, CppOutDone, vars, thrVars
<1> QED BY <1>1, <1>2, <1>3, <1>4, <1>5, <1>6 DEF CppThread

LEMMA TypeStep == TypeInv /\ [Next]_vars => TypeInv'
<1> SUFFICES ASSUME Parts, HoldInv, [Next]_vars PROVE TypeInv' BY DEF TypeInv
<1>1. HoldersOK' /\ HoldInv'
  BY CallbackStep, RawThreadStep, CppThreadStep
     DEF CallbackOK, RawThreadOK, CppThreadOK, HoldersOK, HoldInv
<1>2. CondsOK' /\ CtlOK' BY CondsStep, CtlStep DEF Parts
<1> QED BY <1>1, <1>2, SetsStep, RawListsStep, InfoListsStep, OutListStep, IdsStep, FreesStep
        DEF TypeInv, Parts

(* Every variable keeps its type, for every number of buffers and records. *)
THEOREM SliceTypeCorrect == Spec => []TypeOK
<1>1. TypeInv => TypeOK BY TypeParts DEF TypeInv
<1> QED BY <1>1, TypeInit, TypeStep, PTL DEF Spec

-----------------------------------------------------------------------------
(* The main thread, and the flag. *)

(* Before the streams go on nothing happens. *)
Idle ==
    /\ flag_tirg = 1 /\ ~rawCond /\ ~cppCond /\ ~streamOnFlag
    /\ rawThread = AtWait /\ cppThread = AtWait
    /\ rawCb = NoRawCb /\ viCb = NoViCb /\ ispCb = "idle" /\ capture = NoCapture
    /\ rawdump_capture_list = <<>> /\ rawdump_capture_back_list = <<>>
    /\ rawdump_capture_origin_list = <<>>

(* How far the main thread has got tells what still runs. *)
MainInv ==
    /\ main = "idle" => Idle
    /\ main # "run" => ~streamOnFlag
    /\ ~ViOn => capture = NoCapture /\ viCb = NoViCb
    /\ main \in {"quitRaw", "joinRaw", "release", "ended"} => cppThread.pc = "exited"
    /\ main \in {"release", "ended"} => rawThread.pc = "exited"

LEMMA IdleStep == ASSUME main = "idle", Idle, Next PROVE StreamOn
BY DEF Idle, Next, Main, RawCb, IspCb, ViCb, RawThread, CppThread, StreamOff,
       StopUnits, ProcThreadDeinit, ProcThreadJoin, CaptureDeInit, RawFrame, RawCbEmpty,
       RawCbOldest, RawCbFill, IspFrame, IspCbCopy, IspCbOldest, CaptureDone,
       ViCbFlag, ViCbPush, ViCbBack, RawWait, RawCheck, RawGet, RawPeek, RawErase, RawTrigger,
       RawBack, RawRepeat, RawStore, CppWait, CppPop, CppPeek, CppErase, CppPost, CppInDone,
       CppOutDone, CppOn, RawOn, IspOn, NoRawCb, NoViCb, AtWait

(* The main thread's steps, and those of the others. *)
LEMMA MainStep == ASSUME TypeInv, MainInv, [Next]_vars PROVE MainInv'
<1>1. CASE UNCHANGED vars
  BY <1>1 DEF MainInv, Idle, ViOn, vars, ctlVars, condVars, rawLists, hwVars, cbVars, thrVars
<1>2. CASE StreamOn
  BY <1>2 DEF StreamOn, MainInv, Idle, ViOn, ctlVars, cbVars, thrVars
<1>3. CASE Next /\ ~StreamOn
  <2>1. main # "idle" BY <1>3, IdleStep DEF MainInv
  <2> USE <1>3, <2>1
      DEF Next, Main, RawCb, IspCb, ViCb, RawThread, CppThread, StreamOff,
        StopUnits, ProcThreadDeinit, ProcThreadJoin, CaptureDeInit, RawFrame, RawCbEmpty,
        RawCbOldest, RawCbFill, IspFrame, IspCbCopy, IspCbOldest, IspCbEnd, CaptureDone,
        ViCbFlag, ViCbPush, ViCbBack, RawWait, RawCheck, RawGet, RawPeek, RawErase, RawTrigger,
        RawBack, RawRepeat, RawStore, CppWait, CppPop, CppPeek, CppErase, CppPost, CppInDone,
        CppOutDone, MainInv, ViOn, ctlVars, cbVars, thrVars, hwVars
  <2>2. main' # "idle" OBVIOUS
  <2>3. main' # "run" => main # "run" \/ ~streamOnFlag' OBVIOUS
  <2>4. main # "run" => main' # "run" /\ ~streamOnFlag' OBVIOUS
  <2>5. ~ViOn' => capture' = NoCapture OBVIOUS
  <2>6. ~ViOn' => viCb' = NoViCb
    <3>1. ~ViOn' => ~ViOn \/ (viCb = NoViCb /\ UNCHANGED viCb) OBVIOUS
    <3>2. ASSUME ~ViOn PROVE UNCHANGED viCb
      <4>1. capture = NoCapture /\ viCb.pc = "idle" BY ONLY <3>2, MainInv DEF MainInv, NoViCb
      <4> QED BY <3>2, <4>1
    <3> QED BY ONLY <3>1, <3>2, MainInv DEF MainInv
  <2>7. main' \in {"quitRaw", "joinRaw", "release", "ended"} => cppThread'.pc = "exited"
    OBVIOUS
  <2>8. main' \in {"release", "ended"} => rawThread'.pc = "exited" OBVIOUS
  <2> QED BY ONLY <2>2, <2>3, <2>4, <2>5, <2>6, <2>7, <2>8 DEF MainInv, ViOn
<1> QED BY <1>1, <1>2, <1>3

(* A capture is under way: VI works on it or is about to answer. *)
Busy == capture # NoCapture \/ viCb.pc = "flag"

Starting == rawThread.pc \in {"get", "peek", "erase", "trigger"}
Noting   == rawThread.pc \in {"back", "repeat", "store"}

(* There is one capture at a time, and while it is under way the flag is down or the
   raw thread is about to lower it. *)
FlagInv ==
    /\ viCb.pc = "flag" => capture = NoCapture
    /\ Busy => flag_tirg = 0 \/ Noting
    /\ Starting => ~Busy /\ flag_tirg = 1
    /\ Noting => capture # NoCapture \/ ~streamOnFlag \/ "overtook" \in raced
    /\ LoweredFlagIsAnswered

(* How the raw thread gets from one state to the next. *)
LEMMA RawPc ==
    ASSUME TypeInv
    PROVE  /\ RawWait => rawThread.pc = "wait" /\ rawThread'.pc \in {"check", "exited"}
           /\ RawCheck => /\ rawThread.pc = "check"
                          /\ rawThread'.pc \in {"get", "wait", "exited"}
                          /\ rawThread'.pc = "get" => Ready
           /\ RawGet => /\ rawThread.pc = "get"
                        /\ rawThread'.pc \in {"peek", "segv", "wait", "exited"}
           /\ RawPeek => rawThread.pc = "peek" /\ rawThread'.pc \in {"erase", "segv"}
           /\ RawErase => rawThread.pc = "erase" /\ rawThread'.pc = "trigger"
           /\ RawTrigger => rawThread.pc = "trigger" /\ rawThread'.pc = "back"
           /\ RawBack => rawThread.pc = "back" /\ rawThread'.pc = "repeat"
           /\ RawRepeat => rawThread.pc = "repeat" /\ rawThread'.pc = "store"
           /\ RawStore => rawThread.pc = "store" /\ rawThread'.pc \in {"wait", "exited"}
BY DEF TypeInv, Parts, HoldersOK, AtWait, RawLoop, RawWait, RawCheck, RawGet, RawPeek,
       RawErase, RawTrigger, RawBack, RawRepeat, RawStore

LEMMA FlagStep == ASSUME TypeInv, MainInv, FlagInv, [Next]_vars PROVE FlagInv'
<1> USE DEF FlagInv, Busy, Starting, Noting, LoweredFlagIsAnswered
<1>1. CASE UNCHANGED vars
  BY <1>1 DEF vars, ctlVars, hwVars, cbVars, thrVars, endVars
<1>2. CASE StreamOn BY <1>2 DEF StreamOn, MainInv, Idle, AtWait, ctlVars, cbVars, thrVars
<1>3. CASE StreamOff BY <1>3 DEF StreamOff, hwVars, cbVars, thrVars, endVars
<1>4. CASE StopUnits BY <1>4 DEF StopUnits, MainInv, NoViCb, cbVars, thrVars, endVars
<1>5. CASE ProcThreadDeinit \/ ProcThreadJoin \/ CaptureDeInit
  BY <1>5 DEF ProcThreadDeinit, ProcThreadJoin, CaptureDeInit, hwVars, cbVars, thrVars, endVars
<1>6. CASE RawFrame \/ RawCb \/ IspFrame \/ IspCb
  BY <1>6 DEF RawFrame, RawCb, RawCbEmpty, RawCbOldest, RawCbFill, IspFrame, IspCb, IspCbCopy,
              IspCbOldest, IspCbEnd, ctlVars, hwVars, cbVars, thrVars, endVars
<1>7. CASE CaptureDone
  <2>1. UNCHANGED <<streamOnFlag, flag_tirg, rawThread>> /\ capture # NoCapture
        /\ capture' = NoCapture
    BY <1>7 DEF CaptureDone, ctlVars, thrVars
  <2>2. viCb'.pc = "flag" \/ (~streamOnFlag /\ viCb'.pc = "idle")
    BY <1>7 DEF CaptureDone, NoViCb
  <2>3. raced \subseteq raced' /\ (Noting => "overtook" \in raced')
    BY <1>7 DEF CaptureDone
  <2> QED BY <2>1, <2>2, <2>3
<1>8. CASE ViCb
  <2>1. /\ UNCHANGED <<capture, rawThread, raced>> /\ viCb'.pc # "flag"
        /\ viCb.pc = "flag" => flag_tirg' = 1
        /\ viCb.pc # "flag" => flag_tirg' = flag_tirg
    BY <1>8 DEF ViCb, ViCbFlag, ViCbPush, ViCbBack, hwVars, thrVars, endVars, TypeInv,
                Parts, HoldersOK, NoViCb
  <2>2. streamOnFlag' => streamOnFlag
    BY <1>8 DEF ViCb, ViCbFlag, ViCbPush, ViCbBack, ctlVars
  <2> QED BY <2>1, <2>2
<1>9. CASE RawWait \/ RawCheck \/ RawGet \/ RawPeek \/ RawErase
  <2>1. UNCHANGED <<streamOnFlag, flag_tirg, capture, viCb>> /\ raced \subseteq raced'
    BY <1>9 DEF RawWait, RawCheck, RawGet, RawPeek, RawErase, ctlVars, hwVars, cbVars, endVars
  <2>2. flag_tirg \in {0, 1} BY DEF TypeInv, Parts, CtlOK
  <2> QED BY <1>9, <2>1, <2>2, RawPc DEF Ready
<1>10. CASE RawTrigger
  <2>1. UNCHANGED <<streamOnFlag, flag_tirg, viCb, raced>>
    BY <1>10 DEF RawTrigger, ctlVars, cbVars, endVars
  <2>2. capture' # NoCapture \/ ~streamOnFlag
    <3>1. rawThread.in # NULL
      BY <1>10, SliceAssumption DEF RawTrigger, TypeInv, HoldInv
    <3> QED BY <1>10, <3>1 DEF RawTrigger, MainInv, ViOn, NoCapture
  <2> QED BY <1>10, <2>1, <2>2, RawPc
<1>11. CASE RawBack \/ RawRepeat \/ RawStore
  <2>1. UNCHANGED <<streamOnFlag, capture, viCb, raced>>
        /\ flag_tirg' = IF RawStore THEN 0 ELSE flag_tirg
    BY <1>11, RawPc DEF RawBack, RawRepeat, RawStore, ctlVars, hwVars, cbVars, endVars
  <2> QED BY <1>11, <2>1, RawPc
<1>12. CASE CppThread \/ (\E o \in Outs : CppInDone(o)) \/ (\E o \in CppOuts : CppOutDone(o))
  <2>1. UNCHANGED <<streamOnFlag, flag_tirg, capture, viCb, rawThread, raced>>
    BY <1>12 DEF CppThread, CppWait, CppPop, CppPeek, CppErase, CppPost, CppInDone, CppOutDone,
                 ctlVars, hwVars, cbVars, thrVars, endVars
  <2> QED BY <2>1
<1> QED BY <1>1, <1>2, <1>3, <1>4, <1>5, <1>6, <1>7, <1>8, <1>9, <1>10, <1>11, <1>12
        DEF Next, Main, RawThread

-----------------------------------------------------------------------------
(* The raw buffers. *)

(* Where a raw buffer is. *)
RawAt(b, w) ==
    \/ w = 1 /\ b \in Range(rawQueue)
    \/ w = 2 /\ b \in Range(rawdump_capture_list)
    \/ w = 3 /\ b \in Range(rawdump_capture_origin_list)
    \/ w = 4 /\ b \in Range(rawdump_capture_back_list)
    \/ w = 5 /\ rawCb.pc # "idle" /\ rawCb.raw = b
    \/ w = 6 /\ rawThread.pc \in {"peek", "erase", "trigger", "back"} /\ rawThread.in = b

RawPlaceInv ==
    /\ IsInjective(rawQueue)
    /\ \A b \in Raws : \A v, w \in 1 .. 6 : RawAt(b, v) /\ RawAt(b, w) => v = w

(* Steps that leave every buffer where it is, or move one. *)
LEMMA RawStays ==
    ASSUME RawPlaceInv, IsInjective(rawQueue'),
           \A b \in Raws : \A w \in 1 .. 6 : RawAt(b, w)' => RawAt(b, w)
    PROVE  RawPlaceInv'
BY DEF RawPlaceInv

LEMMA RawMoved ==
    ASSUME RawPlaceInv, IsInjective(rawQueue'), NEW x, NEW n,
           \A b \in Raws \ {x} : \A w \in 1 .. 6 : RawAt(b, w)' => RawAt(b, w),
           \A w \in 1 .. 6 : RawAt(x, w)' => w = n
    PROVE  RawPlaceInv'
BY DEF RawPlaceInv

(* What the raw thread holds stays with it. *)
LEMMA RawKeeps ==
    ASSUME TypeInv
    PROVE  /\ RawPeek \/ RawErase \/ RawTrigger \/ RawBack \/ RawRepeat =>
                rawThread'.in = rawThread.in /\ rawThread'.out = rawThread.out
           /\ RawErase \/ RawTrigger \/ RawBack \/ RawRepeat =>
                rawThread'.info = rawThread.info
           /\ RawPeek /\ rawThread'.pc = "erase" =>
                rawThread'.info = Near(isp_capture_list, ispId, frameId[rawThread.in])
BY DEF TypeInv, Parts, HoldersOK, RawPeek, RawErase, RawTrigger, RawBack, RawRepeat

(* The raw thread takes the head of rawdump_capture_list and a buffer for the image. *)
LEMMA RawGetTakes ==
    ASSUME TypeInv, RawGet
    PROVE  \/ /\ rawThread'.pc \in {"wait", "exited", "segv"}
              /\ UNCHANGED <<rawdump_capture_list, frameId>> /\ viPool' \subseteq viPool
              /\ rawThread'.pc = "segv" => rawdump_capture_list = <<>>
           \/ \E o \in viPool :
              /\ rawdump_capture_list # <<>> /\ rawThread'.pc = "peek"
              /\ rawThread'.in = Head(rawdump_capture_list) /\ rawThread'.out = o
              /\ viPool' = viPool \ {o}
              /\ rawdump_capture_list' = Tail(rawdump_capture_list)
              /\ frameId' = [frameId EXCEPT ![o] = frameId[Head(rawdump_capture_list)]]
<1>1. CASE viPool = {}
  BY <1>1 DEF RawGet, TypeInv, Parts, HoldersOK, AtWait, RawLoop
<1>2. CASE viPool # {}
  <2>1. PICK o \in viPool :
          /\ viPool' = viPool \ {o}
          /\ IF rawdump_capture_list = <<>>
               THEN /\ rawThread' = [rawThread EXCEPT !.pc = "segv", !.out = o]
                    /\ UNCHANGED <<rawdump_capture_list, frameId>>
               ELSE LET raw == Head(rawdump_capture_list) IN
                    /\ rawThread' = [rawThread EXCEPT !.pc = "peek", !.in = raw, !.out = o]
                    /\ rawdump_capture_list' = Tail(rawdump_capture_list)
                    /\ frameId' = [frameId EXCEPT ![o] = frameId[raw]]
    BY <1>2 DEF RawGet
  <2>2. CASE rawdump_capture_list = <<>>
    BY <2>1, <2>2 DEF TypeInv, Parts, HoldersOK
  <2>3. CASE rawdump_capture_list # <<>>
    BY <2>1, <2>3 DEF TypeInv, Parts, HoldersOK
  <2> QED BY <2>2, <2>3
<1> QED BY <1>1, <1>2

LEMMA RawPlaceStep == ASSUME TypeInv, MainInv, RawPlaceInv, [Next]_vars PROVE RawPlaceInv'
<1>0. RawListsOK BY DEF TypeInv, Parts
<1>1. CASE StreamOn
  <2>1. main = "idle" /\ rawQueue' = SetToSeq(Raws)
        /\ UNCHANGED <<rawdump_capture_list, rawdump_capture_origin_list,
                       rawdump_capture_back_list, rawCb, rawThread>>
    BY <1>1 DEF StreamOn, rawLists, cbVars, thrVars
  <2>2. IsInjective(rawQueue') BY <2>1, SetToSeqRange, SliceAssumption
  <2>3. Idle BY <2>1 DEF MainInv
  <2>4. Range(<<>>) = {} BY DEF Range
  <2>5. \A b \in Raws : \A w \in 1 .. 6 : RawAt(b, w)' => w = 1
    BY <2>1, <2>3, <2>4 DEF RawAt, Idle, NoRawCb, AtWait
  <2> QED BY <2>2, <2>5 DEF RawPlaceInv
<1>2. CASE CaptureDeInit
  <2>1. UNCHANGED <<rawQueue, rawCb, rawThread>> /\ rawdump_capture_list' = <<>>
        /\ rawdump_capture_origin_list' = <<>> /\ rawdump_capture_back_list' = <<>>
    BY <1>2 DEF CaptureDeInit, hwVars, cbVars, thrVars
  <2>2. Range(<<>>) = {} BY DEF Range
  <2>3. \A b \in Raws : \A w \in 1 .. 6 : RawAt(b, w)' => RawAt(b, w)
    BY <2>1, <2>2 DEF RawAt
  <2> QED BY <2>1, <2>3, RawStays DEF RawPlaceInv
<1>3. CASE RawFrame
  <2>0. PICK x \in Raws : x = Head(rawQueue)
    BY <1>0, <1>3, TailRange DEF RawFrame, RawListsOK
  <2>1. /\ rawQueue # <<>> /\ rawQueue' = Tail(rawQueue) /\ rawCb.pc = "idle"
        /\ rawCb'.pc = "empty" /\ rawCb'.raw = x
        /\ UNCHANGED <<rawdump_capture_list, rawdump_capture_origin_list,
                       rawdump_capture_back_list, rawThread>>
    BY <2>0, <1>3 DEF RawFrame, rawLists, thrVars, NoRawCb
  <2>2. /\ x \in Raws /\ IsInjective(rawQueue') /\ x \notin Range(rawQueue')
        /\ Range(rawQueue) = {x} \cup Range(rawQueue')
    BY <2>0, <1>0, <2>1, TailRange DEF RawListsOK, RawPlaceInv
  <2>3. RawAt(x, 1) BY <2>0, <2>2 DEF RawAt
  <2>4. \A b \in Raws \ {x} : \A w \in 1 .. 6 : RawAt(b, w)' => RawAt(b, w)
    BY <2>0, <2>1, <2>2 DEF RawAt
  <2>5. \A w \in 1 .. 6 : RawAt(x, w)' => w = 5 \/ (w # 1 /\ RawAt(x, w))
    BY <2>0, <2>1, <2>2 DEF RawAt
  <2>6. \A w \in 1 .. 6 : RawAt(x, w)' => w = 5
    BY <2>0, <2>2, <2>3, <2>5 DEF RawPlaceInv
  <2> QED BY <2>2, <2>4, <2>6, RawMoved
<1>4. CASE RawCbEmpty
  <2>1. CASE rawdump_capture_origin_list = <<>>
    <3>1. /\ UNCHANGED <<rawQueue, rawdump_capture_list, rawdump_capture_origin_list,
                         rawdump_capture_back_list, rawThread>>
          /\ rawCb.pc = "empty" /\ rawCb'.raw = rawCb.raw
      BY <1>4, <2>1 DEF RawCbEmpty, thrVars, TypeInv, Parts, HoldersOK
    <3>2. \A b \in Raws : \A w \in 1 .. 6 : RawAt(b, w)' => RawAt(b, w)
      BY <3>1 DEF RawAt
    <3> QED BY <3>1, <3>2, RawStays DEF RawPlaceInv
  <2>2. CASE rawdump_capture_origin_list # <<>>
    <3>0. PICK x \in Raws : x = Head(rawdump_capture_origin_list)
      BY <1>0, <2>2, TailRange DEF RawListsOK
    <3>1. /\ rawQueue' = Append(rawQueue, x)
          /\ rawdump_capture_origin_list' = Tail(rawdump_capture_origin_list)
          /\ UNCHANGED <<rawdump_capture_list, rawdump_capture_back_list, rawThread>>
          /\ rawCb.pc = "empty" /\ rawCb'.pc = "empty" /\ rawCb'.raw = rawCb.raw
      BY <3>0, <1>4, <2>2 DEF RawCbEmpty, thrVars, TypeInv, Parts, HoldersOK
    <3>2. /\ x \in Raws
          /\ Range(rawdump_capture_origin_list) = {x} \cup Range(rawdump_capture_origin_list')
          /\ x \notin Range(rawdump_capture_origin_list')
          /\ Range(rawQueue') = Range(rawQueue) \cup {x}
      BY <3>0, <1>0, <2>2, <3>1, HeadAppended DEF RawListsOK
    <3>3. RawAt(x, 3) BY <3>0, <3>2 DEF RawAt
    <3>4. x \notin Range(rawQueue) BY <3>0, <3>2, <3>3 DEF RawPlaceInv, RawAt
    <3>5. IsInjective(rawQueue')
      BY <3>0, <1>0, <3>1, <3>2, <3>4, AppendRange DEF RawListsOK, RawPlaceInv
    <3>6. \A b \in Raws \ {x} : \A w \in 1 .. 6 : RawAt(b, w)' => RawAt(b, w)
      BY <3>0, <3>1, <3>2 DEF RawAt
    <3>7. \A w \in 1 .. 6 : RawAt(x, w)' => w = 1 \/ (w # 3 /\ RawAt(x, w))
      BY <3>0, <3>1, <3>2 DEF RawAt
    <3>8. \A w \in 1 .. 6 : RawAt(x, w)' => w = 1
      BY <3>0, <3>2, <3>3, <3>7 DEF RawPlaceInv
    <3> QED BY <3>5, <3>6, <3>8, RawMoved
  <2> QED BY <2>1, <2>2
<1>5. CASE RawCbOldest
  <2>1. CASE rawdump_capture_list = <<>>
    <3>1. /\ UNCHANGED <<rawQueue, rawdump_capture_list, rawdump_capture_origin_list,
                         rawdump_capture_back_list, rawThread>>
          /\ rawCb.pc = "oldest" /\ rawCb'.raw = rawCb.raw
      BY <1>5, <2>1 DEF RawCbOldest, thrVars, TypeInv, Parts, HoldersOK
    <3>2. \A b \in Raws : \A w \in 1 .. 6 : RawAt(b, w)' => RawAt(b, w)
      BY <3>1 DEF RawAt
    <3> QED BY <3>1, <3>2, RawStays DEF RawPlaceInv
  <2>2. CASE rawdump_capture_list # <<>>
    <3>0. PICK x \in Raws : x = Head(rawdump_capture_list)
      BY <1>0, <2>2, TailRange DEF RawListsOK
    <3>1. /\ rawQueue' = Append(rawQueue, x)
          /\ rawdump_capture_list' = Tail(rawdump_capture_list)
          /\ UNCHANGED <<rawdump_capture_origin_list, rawdump_capture_back_list, rawThread>>
          /\ rawCb.pc = "oldest" /\ rawCb'.pc = "fill" /\ rawCb'.raw = rawCb.raw
      BY <3>0, <1>5, <2>2 DEF RawCbOldest, thrVars, TypeInv, Parts, HoldersOK
    <3>2. /\ x \in Raws
          /\ Range(rawdump_capture_list) = {x} \cup Range(rawdump_capture_list')
          /\ x \notin Range(rawdump_capture_list')
          /\ Range(rawQueue') = Range(rawQueue) \cup {x}
      BY <3>0, <1>0, <2>2, <3>1, HeadAppended DEF RawListsOK
    <3>3. RawAt(x, 2) BY <3>0, <3>2 DEF RawAt
    <3>4. x \notin Range(rawQueue) BY <3>0, <3>2, <3>3 DEF RawPlaceInv, RawAt
    <3>5. IsInjective(rawQueue')
      BY <3>0, <1>0, <3>1, <3>2, <3>4, AppendRange DEF RawListsOK, RawPlaceInv
    <3>6. \A b \in Raws \ {x} : \A w \in 1 .. 6 : RawAt(b, w)' => RawAt(b, w)
      BY <3>0, <3>1, <3>2 DEF RawAt
    <3>7. \A w \in 1 .. 6 : RawAt(x, w)' => w = 1 \/ (w # 2 /\ RawAt(x, w))
      BY <3>0, <3>1, <3>2 DEF RawAt
    <3>8. \A w \in 1 .. 6 : RawAt(x, w)' => w = 1
      BY <3>0, <3>2, <3>3, <3>7 DEF RawPlaceInv
    <3> QED BY <3>5, <3>6, <3>8, RawMoved
  <2> QED BY <2>1, <2>2
<1>6. CASE RawCbFill
  <2>0. PICK x \in Raws : x = rawCb.raw
    BY <1>6 DEF RawCbFill, TypeInv, HoldInv
  <2>1. /\ rawCb.pc = "fill" /\ rawCb'.pc = "idle"
        /\ rawdump_capture_list' = Push(rawdump_capture_list, x)
        /\ UNCHANGED <<rawQueue, rawdump_capture_origin_list, rawdump_capture_back_list,
                       rawThread>>
    BY <2>0, <1>6 DEF RawCbFill, hwVars, thrVars, NoRawCb
  <2>2. x \in Raws BY <2>0, <2>1 DEF TypeInv, HoldInv
  <2>3. RawAt(x, 5) BY <2>0, <2>1 DEF RawAt
  <2>4. Range(rawdump_capture_list') = Range(rawdump_capture_list) \cup {x}
    BY <2>0, <1>0, <2>1, <2>2, PushRange DEF RawListsOK
  <2>5. \A b \in Raws \ {x} : \A w \in 1 .. 6 : RawAt(b, w)' => RawAt(b, w)
    BY <2>0, <2>1, <2>4 DEF RawAt
  <2>6. \A w \in 1 .. 6 : RawAt(x, w)' => w = 2 \/ (w # 5 /\ RawAt(x, w))
    BY <2>0, <2>1, <2>4 DEF RawAt
  <2>7. \A w \in 1 .. 6 : RawAt(x, w)' => w = 2
    BY <2>0, <2>2, <2>3, <2>6 DEF RawPlaceInv
  <2> QED BY <2>1, <2>5, <2>7, RawMoved DEF RawPlaceInv
<1>7. CASE ViCbBack
  <2>0. UNCHANGED <<rawQueue, rawdump_capture_list, rawCb, rawThread>>
    BY <1>7 DEF ViCbBack, hwVars, thrVars
  <2>1. CASE rawdump_capture_back_list = <<>>
    <3>1. UNCHANGED <<rawdump_capture_origin_list, rawdump_capture_back_list>>
      BY <1>7, <2>1 DEF ViCbBack
    <3>2. \A b \in Raws : \A w \in 1 .. 6 : RawAt(b, w)' => RawAt(b, w)
      BY <2>0, <3>1 DEF RawAt
    <3> QED BY <2>0, <3>2, RawStays DEF RawPlaceInv
  <2>2. CASE rawdump_capture_back_list # <<>>
    <3>0. PICK x \in Raws : x = Head(rawdump_capture_back_list)
      BY <1>0, <2>2, TailRange DEF RawListsOK
    <3>1. /\ rawdump_capture_origin_list' = Push(rawdump_capture_origin_list, x)
          /\ rawdump_capture_back_list' = Tail(rawdump_capture_back_list)
      BY <3>0, <1>7, <2>2 DEF ViCbBack
    <3>2. /\ x \in Raws
          /\ Range(rawdump_capture_back_list) = {x} \cup Range(rawdump_capture_back_list')
          /\ x \notin Range(rawdump_capture_back_list')
          /\ Range(rawdump_capture_origin_list') = Range(rawdump_capture_origin_list) \cup {x}
      BY <3>0, <1>0, <2>2, <3>1, HeadPushed DEF RawListsOK
    <3>3. RawAt(x, 4) BY <3>0, <3>2 DEF RawAt
    <3>4. \A b \in Raws \ {x} : \A w \in 1 .. 6 : RawAt(b, w)' => RawAt(b, w)
      BY <3>0, <2>0, <3>1, <3>2 DEF RawAt
    <3>5. \A w \in 1 .. 6 : RawAt(x, w)' => w = 3 \/ (w # 4 /\ RawAt(x, w))
      BY <3>0, <2>0, <3>1, <3>2 DEF RawAt
    <3>6. \A w \in 1 .. 6 : RawAt(x, w)' => w = 3
      BY <3>0, <3>2, <3>3, <3>5 DEF RawPlaceInv
    <3> QED BY <2>0, <3>4, <3>6, RawMoved DEF RawPlaceInv
  <2> QED BY <2>1, <2>2
<1>8. CASE RawGet
  <2>0. rawThread.pc = "get" BY <1>8, RawPc
  <2>1. UNCHANGED <<rawQueue, rawdump_capture_origin_list, rawdump_capture_back_list, rawCb>>
    BY <1>8 DEF RawGet, hwVars, cbVars
  <2>2. CASE /\ rawThread'.pc \in {"wait", "exited", "segv"}
             /\ UNCHANGED rawdump_capture_list
    <3>1. \A b \in Raws : \A w \in 1 .. 6 : RawAt(b, w)' => RawAt(b, w)
      BY <2>1, <2>2 DEF RawAt
    <3> QED BY <2>1, <3>1, RawStays DEF RawPlaceInv
  <2>3. CASE /\ rawdump_capture_list # <<>> /\ rawThread'.pc = "peek"
             /\ rawThread'.in = Head(rawdump_capture_list)
             /\ rawdump_capture_list' = Tail(rawdump_capture_list)
    <3>0. PICK x \in Raws : x = Head(rawdump_capture_list)
      BY <1>0, <2>3, TailRange DEF RawListsOK
    <3>2. /\ x \in Raws
          /\ Range(rawdump_capture_list) = {x} \cup Range(rawdump_capture_list')
          /\ x \notin Range(rawdump_capture_list')
      BY <3>0, <1>0, <2>3, TailRange DEF RawListsOK
    <3>3. RawAt(x, 2) BY <3>0, <3>2 DEF RawAt
    <3>4. rawThread'.in = x BY <3>0, <2>3
    <3>5. \A b \in Raws \ {x} : \A w \in 1 .. 6 : RawAt(b, w)' => RawAt(b, w)
      BY <3>0, <2>1, <2>3, <3>2, <3>4 DEF RawAt
    <3>6. \A w \in 1 .. 6 : RawAt(x, w)' => w = 6 \/ (w # 2 /\ RawAt(x, w))
      BY <3>0, <2>1, <2>3, <3>2, <3>4 DEF RawAt
    <3>7. \A w \in 1 .. 6 : RawAt(x, w)' => w = 6
      BY <3>0, <3>2, <3>3, <3>6 DEF RawPlaceInv
    <3> QED BY <2>1, <3>5, <3>7, RawMoved DEF RawPlaceInv
  <2> QED BY <1>8, <2>2, <2>3, RawGetTakes
<1>9. CASE RawBack
  <2>0. PICK x \in Raws : x = rawThread.in
    BY <1>9 DEF RawBack, TypeInv, HoldInv
  <2>1. /\ rawThread.pc = "back" /\ rawThread'.pc = "repeat"
        /\ rawdump_capture_back_list' = Push(rawdump_capture_back_list, x)
        /\ UNCHANGED <<rawQueue, rawdump_capture_list, rawdump_capture_origin_list, rawCb>>
    BY <2>0, <1>9, RawPc DEF RawBack, hwVars, cbVars
  <2>2. x \in Raws BY <2>0, <2>1 DEF TypeInv, HoldInv
  <2>3. RawAt(x, 6) BY <2>0, <2>1 DEF RawAt
  <2>4. Range(rawdump_capture_back_list') = Range(rawdump_capture_back_list) \cup {x}
    BY <2>0, <1>0, <2>1, <2>2, PushRange DEF RawListsOK
  <2>5. \A b \in Raws \ {x} : \A w \in 1 .. 6 : RawAt(b, w)' => RawAt(b, w)
    BY <2>0, <2>1, <2>4 DEF RawAt
  <2>6. \A w \in 1 .. 6 : RawAt(x, w)' => w = 4 \/ (w # 6 /\ RawAt(x, w))
    BY <2>0, <2>1, <2>4 DEF RawAt
  <2>7. \A w \in 1 .. 6 : RawAt(x, w)' => w = 4
    BY <2>0, <2>2, <2>3, <2>6 DEF RawPlaceInv
  <2> QED BY <2>1, <2>5, <2>7, RawMoved DEF RawPlaceInv
<1>10. CASE UNCHANGED <<rawLists, rawQueue>> /\ ~RawMoves
  <2>1. UNCHANGED rawCb
    BY <1>10 DEF RawMoves, Next, Main, RawCb, IspCb, ViCb, RawThread, CppThread, StreamOn,
        StreamOff, StopUnits, ProcThreadDeinit, ProcThreadJoin, CaptureDeInit, IspFrame,
        IspCbCopy, IspCbOldest, CaptureDone, ViCbFlag, ViCbPush, RawWait, RawCheck, RawPeek,
        RawErase, RawTrigger, RawRepeat, RawStore, CppWait, CppPop, CppPeek, CppErase, CppPost,
        CppInDone, CppOutDone, vars, cbVars
  <2>2. RawThread \/ UNCHANGED rawThread
    BY <1>10 DEF RawMoves, Next, Main, RawCb, IspCb, ViCb, CppThread, StreamOn,
        StreamOff, StopUnits, ProcThreadDeinit, ProcThreadJoin, CaptureDeInit, IspFrame,
        IspCbCopy, IspCbOldest, CaptureDone, ViCbFlag, ViCbPush, CppWait, CppPop, CppPeek,
        CppErase, CppPost, CppInDone, CppOutDone, vars, thrVars, RawFrame
  <2>3. rawThread'.pc \in {"peek", "erase", "trigger", "back"} =>
          rawThread.pc \in {"peek", "erase", "trigger", "back"} /\ rawThread'.in = rawThread.in
    BY <1>10, <2>2, RawPc, RawKeeps DEF RawThread, RawMoves
  <2>4. \A b \in Raws : \A w \in 1 .. 6 : RawAt(b, w)' => RawAt(b, w)
    BY <1>10, <2>1, <2>3 DEF RawAt, rawLists
  <2> QED BY <1>10, <2>4, RawStays DEF RawPlaceInv
<1> QED BY <1>1, <1>2, <1>3, <1>4, <1>5, <1>6, <1>7, <1>8, <1>9, <1>10, ListsSame
        DEF RawMoves, RawCb

LEMMA RacedGrows == ASSUME [Next]_vars PROVE raced \subseteq raced'
BY DEF Next, Main, RawCb, IspCb, ViCb, RawThread, CppThread, StreamOn, StreamOff,
       StopUnits, ProcThreadDeinit, ProcThreadJoin, CaptureDeInit, RawFrame, RawCbEmpty,
       RawCbOldest, RawCbFill, IspFrame, IspCbCopy, IspCbOldest, CaptureDone,
       ViCbFlag, ViCbPush, ViCbBack, RawWait, RawCheck, RawGet, RawPeek, RawErase, RawTrigger,
       RawBack, RawRepeat, RawStore, CppWait, CppPop, CppPeek, CppErase, CppPost, CppInDone,
       CppOutDone, vars, endVars

(* The steps that do not belong to the raw thread, and its state. *)
LEMMA RawThreadSame == ASSUME [Next]_vars, ~RawThread PROVE UNCHANGED rawThread
BY DEF Next, Main, RawCb, IspCb, ViCb, CppThread, StreamOn, StreamOff,
       StopUnits, ProcThreadDeinit, ProcThreadJoin, CaptureDeInit, RawFrame, RawCbEmpty,
       RawCbOldest, RawCbFill, IspFrame, IspCbCopy, IspCbOldest, CaptureDone,
       ViCbFlag, ViCbPush, ViCbBack, CppWait, CppPop, CppPeek, CppErase, CppPost, CppInDone,
       CppOutDone, vars, thrVars

(* The steps that change what VI works on, or its callback. *)
LEMMA CaptureSame ==
    ASSUME [Next]_vars
    PROVE  /\ \/ StopUnits \/ CaptureDone \/ RawTrigger
              \/ UNCHANGED capture
           /\ CaptureDone \/ ViCb \/ UNCHANGED viCb
<1>1. StopUnits \/ CaptureDone \/ RawTrigger \/ UNCHANGED capture
  BY DEF Next, Main, RawCb, IspCb, ViCb, RawThread, CppThread, StreamOn, StreamOff,
       ProcThreadDeinit, ProcThreadJoin, CaptureDeInit, RawFrame, RawCbEmpty,
       RawCbOldest, RawCbFill, IspFrame, IspCbCopy, IspCbOldest,
       ViCbFlag, ViCbPush, ViCbBack, RawWait, RawCheck, RawGet, RawPeek, RawErase,
       RawBack, RawRepeat, RawStore, CppWait, CppPop, CppPeek, CppErase, CppPost, CppInDone,
       CppOutDone, vars, hwVars
<1>2. CaptureDone \/ ViCb \/ UNCHANGED viCb
  BY DEF Next, Main, RawCb, IspCb, RawThread, CppThread, StreamOn, StreamOff, StopUnits,
       ProcThreadDeinit, ProcThreadJoin, CaptureDeInit, RawFrame, RawCbEmpty,
       RawCbOldest, RawCbFill, IspFrame, IspCbCopy, IspCbOldest,
       RawWait, RawCheck, RawGet, RawPeek, RawErase, RawTrigger,
       RawBack, RawRepeat, RawStore, CppWait, CppPop, CppPeek, CppErase, CppPost, CppInDone,
       CppOutDone, vars, cbVars
<1> QED BY <1>1, <1>2

(* The capture's raw buffer stays in the back list, or with the thread on its way
   there, until VI's callback empties that list. *)
BackInv ==
    "early" \in raced \/
        /\ Starting => viCb.pc = "idle"
        /\ capture # NoCapture =>
             /\ viCb.pc = "idle"
             /\ \/ capture.raw \in Range(rawdump_capture_back_list)
                \/ rawThread.pc = "back" /\ rawThread.in = capture.raw

LEMMA BackStep == ASSUME TypeInv, MainInv, FlagInv, BackInv, [Next]_vars PROVE BackInv'
<1> SUFFICES ASSUME "early" \notin raced' PROVE BackInv' BY DEF BackInv
<1>0. "early" \notin raced BY RacedGrows
<1>1. /\ Starting => viCb.pc = "idle"
      /\ capture # NoCapture =>
           /\ viCb.pc = "idle"
           /\ \/ capture.raw \in Range(rawdump_capture_back_list)
              \/ rawThread.pc = "back" /\ rawThread.in = capture.raw
  BY <1>0 DEF BackInv
<1>2. CASE CaptureDone
  <2>1. capture # NoCapture /\ capture' = NoCapture /\ UNCHANGED rawThread
    BY <1>2 DEF CaptureDone, thrVars
  <2> QED BY <2>1 DEF BackInv, FlagInv, Busy, Starting
<1>3. CASE ViCb
  <2>1. viCb.pc # "idle" BY <1>3 DEF ViCb, ViCbFlag, ViCbPush, ViCbBack
  <2>2. UNCHANGED <<capture, rawThread>>
    BY <1>3 DEF ViCb, ViCbFlag, ViCbPush, ViCbBack, hwVars, thrVars
  <2> QED BY <1>1, <2>1, <2>2 DEF BackInv, Starting
<1>4. CASE StopUnits
  <2>1. /\ UNCHANGED <<viCb, rawThread, rawdump_capture_back_list>>
        /\ capture' \in {capture, NoCapture}
    BY <1>4 DEF StopUnits, cbVars, thrVars, rawLists
  <2> QED BY <1>1, <2>1 DEF BackInv, Starting
<1>5. CASE CaptureDeInit
  <2>1. main = "release" /\ UNCHANGED <<capture, viCb>>
    BY <1>5 DEF CaptureDeInit, hwVars, cbVars
  <2>2. capture = NoCapture /\ viCb.pc = "idle" BY <2>1 DEF MainInv, ViOn, NoViCb
  <2> QED BY <2>1, <2>2 DEF BackInv
<1>6. CASE RawCheck
  <2>1. UNCHANGED <<capture, viCb, rawdump_capture_back_list>>
    BY <1>6 DEF RawCheck, hwVars, cbVars, rawLists
  <2>2. rawThread.pc = "check" /\ rawThread'.pc \in {"get", "wait", "exited"}
        /\ (rawThread'.pc = "get" => Ready)
    BY <1>6, RawPc
  <2>3. Ready => viCb.pc = "idle"
    <3>1. Ready => viCb.pc \notin {"push", "back"} BY <1>6 DEF RawCheck
    <3>2. Ready => viCb.pc # "flag" BY <2>2 DEF FlagInv, Busy, Noting, Ready
    <3> QED BY <3>1, <3>2 DEF TypeInv, Parts, HoldersOK
  <2> QED BY <1>1, <2>1, <2>2, <2>3 DEF BackInv, Starting
<1>7. CASE RawTrigger
  <2>1. rawThread.pc = "trigger" /\ rawThread'.pc = "back" /\ rawThread'.in = rawThread.in
    BY <1>7, RawPc, RawKeeps
  <2>2. UNCHANGED viCb /\ viCb.pc = "idle" /\ capture = NoCapture
    BY <1>1, <1>7, <2>1 DEF RawTrigger, cbVars, Starting, FlagInv, Busy
  <2>3. capture' # NoCapture => capture'.raw = rawThread.in
    BY <1>7, <2>2 DEF RawTrigger
  <2> QED BY <2>1, <2>2, <2>3 DEF BackInv
<1>8. CASE RawBack
  <2>1. rawThread.pc = "back" /\ rawThread'.pc = "repeat" /\ rawThread.in \in Raws
    BY <1>8, RawPc DEF TypeInv, HoldInv
  <2>2. UNCHANGED <<capture, viCb>>
        /\ rawdump_capture_back_list' = Push(rawdump_capture_back_list, rawThread.in)
    BY <1>8 DEF RawBack, hwVars, cbVars
  <2>3. Range(rawdump_capture_back_list') = Range(rawdump_capture_back_list) \cup {rawThread.in}
    BY <2>1, <2>2, PushRange DEF TypeInv, Parts, RawListsOK
  <2> QED BY <1>1, <2>1, <2>2, <2>3 DEF BackInv, Starting
<1>9. CASE RawThread /\ ~RawCheck /\ ~RawTrigger /\ ~RawBack
  <2>1. UNCHANGED <<capture, viCb, rawdump_capture_back_list>>
    BY <1>9 DEF RawThread, RawWait, RawGet, RawPeek, RawErase, RawRepeat, RawStore, hwVars,
                cbVars, rawLists
  <2>2. (Starting' => Starting) /\ rawThread.pc # "back"
    BY <1>9, RawPc DEF RawThread, Starting
  <2> QED BY <1>1, <2>1, <2>2 DEF BackInv
<1>10. CASE ~(CaptureDone \/ ViCb \/ StopUnits \/ CaptureDeInit \/ RawThread)
  <2>1. UNCHANGED <<capture, viCb, rawThread>>
    BY <1>10, CaptureSame, RawThreadSame DEF RawThread
  <2>2. UNCHANGED rawdump_capture_back_list
    BY <1>10, ListsSame DEF RawMoves, rawLists, RawThread, ViCb, StreamOn, RawFrame, RawCb,
       RawCbEmpty, RawCbOldest, RawCbFill
  <2> QED BY <1>1, <2>1, <2>2 DEF BackInv, Starting
<1> QED BY <1>2, <1>3, <1>4, <1>5, <1>6, <1>7, <1>8, <1>9, <1>10

(* A capture reads a raw buffer that no one else has. *)
LEMMA ReadAlone ==
    ASSUME TypeInv, FlagInv, RawPlaceInv, BackInv PROVE RawReadAlone
<1> SUFFICES ASSUME "early" \notin raced, capture # NoCapture
             PROVE  /\ capture.raw \notin Range(rawQueue) \cup Range(rawdump_capture_list)
                                       \cup Range(rawdump_capture_origin_list)
                    /\ capture.raw # rawCb.raw
                    /\ rawThread.pc \in {"peek", "erase", "trigger"} =>
                         rawThread.in # capture.raw
  BY DEF RawReadAlone
<1>1. capture.raw \in Raws BY DEF TypeInv, HoldInv
<1>2. RawAt(capture.raw, 4) \/ RawAt(capture.raw, 6) BY DEF BackInv, RawAt
<1>3. \A w \in {1, 2, 3, 5} : ~RawAt(capture.raw, w) BY <1>1, <1>2 DEF RawPlaceInv
<1>4. capture.raw # rawCb.raw
  <2>1. CASE rawCb.pc = "idle"
    <3>1. rawCb.raw = NULL BY <2>1 DEF TypeInv, HoldInv, NoRawCb
    <3> QED BY <1>1, <3>1, SliceAssumption
  <2>2. CASE rawCb.pc # "idle" BY <1>3, <2>2 DEF RawAt
  <2> QED BY <2>1, <2>2
<1>5. ~Starting BY DEF FlagInv, Busy
<1> QED BY <1>3, <1>4, <1>5 DEF RawAt, Starting

-----------------------------------------------------------------------------
(* The frame information records. *)

(* Where a record is; the numbers are those of Places. *)
InfoAt(r, w) ==
    \/ w = 1 /\ r \in Range(isp_capture_list)
    \/ w = 2 /\ r \in Range(isp_capture_repeat_list)
    \/ w = 3 /\ r \in Range(isp_capture_origin_list)
    \/ w = 4 /\ HeldByRaw(r)
    \/ w = 5 /\ HeldByCpp(r)

AtOnce(r, w) == \A v \in 1 .. 5 : InfoAt(r, v) <=> v = w
InfoPlaceInv == \A r \in Infos : \E w \in 1 .. 5 : AtOnce(r, w)

LEMMA OncePlace ==
    ASSUME InfoPlaceInv, NEW r \in Infos, NEW w \in 1 .. 5, InfoAt(r, w) PROVE AtOnce(r, w)
BY DEF InfoPlaceInv, AtOnce

LEMMA InfoStays ==
    ASSUME InfoPlaceInv, \A r \in Infos : \A w \in 1 .. 5 : InfoAt(r, w)' <=> InfoAt(r, w)
    PROVE  InfoPlaceInv'
BY DEF InfoPlaceInv, AtOnce

LEMMA InfoMoved ==
    ASSUME InfoPlaceInv, NEW x, NEW n \in 1 .. 5,
           \A r \in Infos \ {x} : \A w \in 1 .. 5 : InfoAt(r, w)' <=> InfoAt(r, w),
           \A w \in 1 .. 5 : InfoAt(x, w)' <=> w = n
    PROVE  InfoPlaceInv'
BY DEF InfoPlaceInv, AtOnce

LEMMA InfoRanges ==
    ASSUME TypeInv
    PROVE  /\ Range(isp_capture_list) \subseteq Infos
           /\ Range(isp_capture_repeat_list) \subseteq Infos
           /\ Range(isp_capture_origin_list) \subseteq Infos
BY ElementOfSeq, LenProperties DEF TypeInv, Parts, InfoListsOK, Range

(* How the CPP thread gets from one state to the next, and what it keeps. *)
LEMMA CppPc ==
    ASSUME TypeInv
    PROVE  /\ CppWait => cppThread.pc = "wait" /\ cppThread'.pc \in {"check", "exited"}
           /\ CppPop => cppThread.pc = "check" /\ cppThread'.pc \in {"peek", "wait", "exited"}
           /\ CppPeek => cppThread.pc = "peek" /\ cppThread'.pc \in {"erase", "segv"}
           /\ CppErase => cppThread.pc = "erase" /\ cppThread'.pc = "post"
           /\ CppPost => cppThread.pc = "post" /\ cppThread'.pc \in {"wait", "exited"}
           /\ CppPeek \/ CppErase => cppThread'.in = cppThread.in
           /\ CppErase => cppThread'.info = cppThread.info
           /\ CppPeek =>
                LET r == Near(isp_capture_repeat_list, viId, frameId[cppThread.in]) IN
                cppThread'.info = r /\ (cppThread'.pc = "segv" <=> r = NULL)
BY DEF TypeInv, Parts, HoldersOK, AtWait, CppLoop, CppWait, CppPop, CppPeek, CppErase, CppPost

LEMMA CppThreadSame == ASSUME [Next]_vars, ~CppThread PROVE UNCHANGED cppThread
BY DEF Next, Main, RawCb, IspCb, ViCb, RawThread, StreamOn, StreamOff,
       StopUnits, ProcThreadDeinit, ProcThreadJoin, CaptureDeInit, RawFrame, RawCbEmpty,
       RawCbOldest, RawCbFill, IspFrame, IspCbCopy, IspCbOldest, CaptureDone,
       ViCbFlag, ViCbPush, ViCbBack, RawWait, RawCheck, RawGet, RawPeek, RawErase, RawTrigger,
       RawBack, RawRepeat, RawStore, CppInDone, CppOutDone, vars, thrVars

(* The steps that move no record. *)
LEMMA InfoSame ==
    ASSUME TypeInv, [Next]_vars, ~InfoMoves
    PROVE  /\ UNCHANGED infoLists
           /\ \A r : \A w \in 1 .. 5 : InfoAt(r, w)' <=> InfoAt(r, w)
<1>1. UNCHANGED infoLists BY ListsSame
<1>2. \A r : HeldByRaw(r)' <=> HeldByRaw(r)
  BY RawPc, RawKeeps, RawThreadSame DEF RawThread, HeldByRaw, InfoMoves
<1>3. \A r : HeldByCpp(r)' <=> HeldByCpp(r)
  BY CppPc, CppThreadSame DEF CppThread, HeldByCpp, InfoMoves
<1> QED BY <1>1, <1>2, <1>3 DEF InfoAt, infoLists

(* Each record is in one place; one that a thread is about to erase is still in its
   list. *)
InfoHeldInv ==
    /\ main # "ended" => InfoPlaceInv
    /\ main = "ended" => \A r \in Infos : frees[r] = 1
    /\ rawThread.pc = "erase" => rawThread.info \in Range(isp_capture_list)
    /\ cppThread.pc = "erase" => cppThread.info \in Range(isp_capture_repeat_list)
InfoInv == "recycled" \in raced \/ InfoHeldInv

LEMMA PlaceStep ==
    ASSUME TypeInv, MainInv, InfoHeldInv, main # "ended", main' # "ended",
           "recycled" \notin raced', [Next]_vars
    PROVE  InfoPlaceInv'
<1>0. InfoListsOK /\ InfoPlaceInv BY DEF TypeInv, Parts, InfoHeldInv
<1>1. CASE IspCbCopy
  <2>0. UNCHANGED <<isp_capture_repeat_list, rawThread, cppThread>>
    BY <1>1 DEF IspCbCopy, thrVars
  <2>1. CASE isp_capture_origin_list = <<>>
    <3>1. UNCHANGED <<isp_capture_list, isp_capture_origin_list>>
      BY <1>1, <2>1 DEF IspCbCopy
    <3> QED BY <1>0, <2>0, <3>1, InfoStays DEF InfoAt, HeldByRaw, HeldByCpp
  <2>2. CASE isp_capture_origin_list # <<>>
    <3>0. PICK x \in Infos : x = Head(isp_capture_origin_list)
      BY <1>0, <2>2, TailRange DEF InfoListsOK
    <3>1. /\ isp_capture_list' = Push(isp_capture_list, x)
          /\ isp_capture_origin_list' = Tail(isp_capture_origin_list)
      BY <1>1, <2>2, <3>0 DEF IspCbCopy
    <3>2. /\ Range(isp_capture_origin_list) = {x} \cup Range(isp_capture_origin_list')
          /\ x \notin Range(isp_capture_origin_list')
          /\ Range(isp_capture_list') = Range(isp_capture_list) \cup {x}
      BY <1>0, <2>2, <3>0, <3>1, HeadPushed DEF InfoListsOK
    <3>3. AtOnce(x, 3) BY <1>0, <3>2, OncePlace DEF InfoAt
    <3>4. \A r \in Infos \ {x} : \A w \in 1 .. 5 : InfoAt(r, w)' <=> InfoAt(r, w)
      BY <2>0, <3>2 DEF InfoAt, HeldByRaw, HeldByCpp
    <3>5. \A w \in 1 .. 5 : InfoAt(x, w)' <=> w = 1
      BY <2>0, <3>2, <3>3 DEF AtOnce, InfoAt, HeldByRaw, HeldByCpp
    <3> QED BY <1>0, <3>4, <3>5, InfoMoved
  <2> QED BY <2>1, <2>2
<1>2. CASE IspCbOldest
  <2>0. UNCHANGED <<isp_capture_repeat_list, rawThread, cppThread>>
    BY <1>2 DEF IspCbOldest, thrVars
  <2>1. CASE isp_capture_list = <<>>
    <3>1. UNCHANGED <<isp_capture_list, isp_capture_origin_list>>
      BY <1>2, <2>1 DEF IspCbOldest
    <3> QED BY <1>0, <2>0, <3>1, InfoStays DEF InfoAt, HeldByRaw, HeldByCpp
  <2>2. CASE isp_capture_list # <<>>
    <3>0. PICK x \in Infos : x = Head(isp_capture_list)
      BY <1>0, <2>2, TailRange DEF InfoListsOK
    <3>1. /\ isp_capture_origin_list' = Push(isp_capture_origin_list, x)
          /\ isp_capture_list' = Tail(isp_capture_list)
      BY <1>2, <2>2, <3>0 DEF IspCbOldest
    <3>2. /\ Range(isp_capture_list) = {x} \cup Range(isp_capture_list')
          /\ x \notin Range(isp_capture_list')
          /\ Range(isp_capture_origin_list') = Range(isp_capture_origin_list) \cup {x}
      BY <1>0, <2>2, <3>0, <3>1, HeadPushed DEF InfoListsOK
    <3>3. AtOnce(x, 1) BY <1>0, <3>2, OncePlace DEF InfoAt
    <3>4. \A r \in Infos \ {x} : \A w \in 1 .. 5 : InfoAt(r, w)' <=> InfoAt(r, w)
      BY <2>0, <3>2 DEF InfoAt, HeldByRaw, HeldByCpp
    <3>5. \A w \in 1 .. 5 : InfoAt(x, w)' <=> w = 3
      BY <2>0, <3>2, <3>3 DEF AtOnce, InfoAt, HeldByRaw, HeldByCpp
    <3> QED BY <1>0, <3>4, <3>5, InfoMoved
  <2> QED BY <2>1, <2>2
<1>3. CASE RawErase
  <2>0. PICK x \in Infos : x = rawThread.info
    BY <1>3 DEF RawErase, TypeInv, HoldInv
  <2>1. /\ UNCHANGED <<isp_capture_repeat_list, isp_capture_origin_list, cppThread>>
        /\ isp_capture_list' = Erase(isp_capture_list, x)
    BY <1>3, <2>0 DEF RawErase
  <2>2. /\ rawThread.pc = "erase" /\ rawThread'.pc = "trigger" /\ rawThread'.info = x
        /\ x \in Range(isp_capture_list)
    BY <1>3, <2>0, RawPc, RawKeeps DEF InfoHeldInv
  <2>3. Range(isp_capture_list') = Range(isp_capture_list) \ {x}
    BY <1>0, <2>1, EraseRange DEF InfoListsOK
  <2>4. AtOnce(x, 1) BY <1>0, <2>2, OncePlace DEF InfoAt
  <2>5. \A r \in Infos \ {x} : \A w \in 1 .. 5 : InfoAt(r, w)' <=> InfoAt(r, w)
    BY <2>0, <2>1, <2>2, <2>3 DEF InfoAt, HeldByRaw, HeldByCpp
  <2>6. \A w \in 1 .. 5 : InfoAt(x, w)' <=> w = 4
    BY <2>1, <2>2, <2>3, <2>4 DEF AtOnce, InfoAt, HeldByRaw, HeldByCpp
  <2> QED BY <1>0, <2>5, <2>6, InfoMoved
<1>4. CASE RawRepeat
  <2>0. PICK x \in Infos : x = rawThread.info
    BY <1>4 DEF RawRepeat, TypeInv, HoldInv
  <2>1. /\ UNCHANGED <<isp_capture_list, isp_capture_origin_list, cppThread>>
        /\ isp_capture_repeat_list' = Push(isp_capture_repeat_list, x)
    BY <1>4, <2>0 DEF RawRepeat
  <2>2. rawThread.pc = "repeat" /\ rawThread'.pc = "store" BY <1>4, RawPc
  <2>3. Range(isp_capture_repeat_list') = Range(isp_capture_repeat_list) \cup {x}
    BY <1>0, <2>1, PushRange DEF InfoListsOK
  <2>4. AtOnce(x, 4) BY <1>0, <2>0, <2>2, OncePlace DEF InfoAt, HeldByRaw
  <2>5. \A r \in Infos \ {x} : \A w \in 1 .. 5 : InfoAt(r, w)' <=> InfoAt(r, w)
    BY <2>0, <2>1, <2>2, <2>3 DEF InfoAt, HeldByRaw, HeldByCpp
  <2>6. \A w \in 1 .. 5 : InfoAt(x, w)' <=> w = 2
    BY <2>1, <2>2, <2>3, <2>4 DEF AtOnce, InfoAt, HeldByRaw, HeldByCpp
  <2> QED BY <1>0, <2>5, <2>6, InfoMoved
<1>5. CASE CppErase
  <2>0. PICK x \in Infos : x = cppThread.info
    BY <1>5 DEF CppErase, TypeInv, HoldInv
  <2>1. /\ UNCHANGED <<isp_capture_list, isp_capture_origin_list, rawThread>>
        /\ isp_capture_repeat_list' = Erase(isp_capture_repeat_list, x)
    BY <1>5, <2>0 DEF CppErase
  <2>2. /\ cppThread.pc = "erase" /\ cppThread'.pc = "post" /\ cppThread'.info = x
        /\ x \in Range(isp_capture_repeat_list)
    BY <1>5, <2>0, CppPc DEF InfoHeldInv
  <2>3. Range(isp_capture_repeat_list') = Range(isp_capture_repeat_list) \ {x}
    BY <1>0, <2>1, EraseRange DEF InfoListsOK
  <2>4. AtOnce(x, 2) BY <1>0, <2>2, OncePlace DEF InfoAt
  <2>5. \A r \in Infos \ {x} : \A w \in 1 .. 5 : InfoAt(r, w)' <=> InfoAt(r, w)
    BY <2>0, <2>1, <2>2, <2>3 DEF InfoAt, HeldByRaw, HeldByCpp
  <2>6. \A w \in 1 .. 5 : InfoAt(x, w)' <=> w = 5
    BY <2>1, <2>2, <2>3, <2>4 DEF AtOnce, InfoAt, HeldByRaw, HeldByCpp
  <2> QED BY <1>0, <2>5, <2>6, InfoMoved
<1>6. CASE CppPost
  <2>0. PICK x \in Infos : x = cppThread.info
    BY <1>6 DEF CppPost, TypeInv, HoldInv
  <2>1. /\ UNCHANGED <<isp_capture_list, isp_capture_repeat_list, rawThread>>
        /\ isp_capture_origin_list' = Push(isp_capture_origin_list, x)
    BY <1>6, <2>0 DEF CppPost
  <2>2. cppThread.pc = "post" /\ cppThread'.pc \in {"wait", "exited"} BY <1>6, CppPc
  <2>3. Range(isp_capture_origin_list') = Range(isp_capture_origin_list) \cup {x}
    BY <1>0, <2>1, PushRange DEF InfoListsOK
  <2>4. AtOnce(x, 5) BY <1>0, <2>0, <2>2, OncePlace DEF InfoAt, HeldByCpp
  <2>5. \A r \in Infos \ {x} : \A w \in 1 .. 5 : InfoAt(r, w)' <=> InfoAt(r, w)
    BY <2>0, <2>1, <2>2, <2>3 DEF InfoAt, HeldByRaw, HeldByCpp
  <2>6. \A w \in 1 .. 5 : InfoAt(x, w)' <=> w = 3
    BY <2>1, <2>2, <2>3, <2>4 DEF AtOnce, InfoAt, HeldByRaw, HeldByCpp
  <2> QED BY <1>0, <2>5, <2>6, InfoMoved
<1>7. CASE ~InfoMoves BY <1>0, <1>7, InfoSame, InfoStays
<1>8. ~CaptureDeInit BY DEF CaptureDeInit
<1> QED BY <1>1, <1>2, <1>3, <1>4, <1>5, <1>6, <1>7, <1>8 DEF InfoMoves, IspCb

LEMMA InfoIn ==
    ASSUME TypeInv, NEW r, NEW l \in 1 .. 3 PROVE Contains(infoLists[l], r) <=> InfoAt(r, l)
<1> USE DEF TypeInv, Parts, InfoListsOK, infoLists, InfoAt
<1>1. CASE l = 1 BY <1>1, ContainsRange
<1>2. CASE l = 2 BY <1>2, ContainsRange
<1>3. CASE l = 3 BY <1>3, ContainsRange
<1> QED BY <1>1, <1>2, <1>3

(* The end: every record is in one of the lists, and freed from there. *)
LEMMA FreedOnce ==
    ASSUME TypeInv, MainInv, InfoHeldInv, CaptureDeInit PROVE \A r \in Infos : frees'[r] = 1
<1> SUFFICES ASSUME NEW r \in Infos PROVE frees'[r] = 1 OBVIOUS
<1>1. main = "release" BY DEF CaptureDeInit
<1>2. ~HeldByRaw(r) /\ ~HeldByCpp(r) BY <1>1 DEF MainInv, HeldByRaw, HeldByCpp
<1>3. PICK w \in 1 .. 5 : AtOnce(r, w) BY <1>1 DEF InfoHeldInv, InfoPlaceInv
<1>4. w \in 1 .. 3 /\ \A l \in 1 .. 3 : InfoAt(r, l) <=> l = w
  BY <1>2, <1>3 DEF AtOnce, InfoAt
<1>5. {l \in 1 .. 3 : Contains(infoLists[l], r)} = {w} BY <1>4, InfoIn
<1>6. frees'[r] = Cardinality({l \in 1 .. 3 : Contains(infoLists[l], r)})
  BY DEF CaptureDeInit
<1> QED BY <1>5, <1>6, FS_Singleton

LEMMA EraseStep ==
    ASSUME TypeInv, MainInv, InfoHeldInv, "recycled" \notin raced', [Next]_vars
    PROVE  /\ rawThread'.pc = "erase" => rawThread'.info \in Range(isp_capture_list')
           /\ cppThread'.pc = "erase" => cppThread'.info \in Range(isp_capture_repeat_list')
<1>0. InfoListsOK BY DEF TypeInv, Parts
<1>1. ASSUME rawThread'.pc = "erase" PROVE rawThread'.info \in Range(isp_capture_list')
  <2>1. CASE RawPeek
    <3>1. /\ isp_capture_list \in Seq(Infos) /\ ispId \in [Infos -> Int]
          /\ frameId[rawThread.in] \in Int
      BY <2>1, SliceAssumption DEF RawPeek, TypeInv, Parts, InfoListsOK, IdsOK, HoldInv
    <3>2. /\ UNCHANGED isp_capture_list
          /\ rawThread'.info = Near(isp_capture_list, ispId, frameId[rawThread.in])
      BY <1>1, <2>1, RawKeeps DEF RawPeek, infoLists
    <3>3. rawThread'.info # NULL
      BY <1>1, <2>1 DEF RawPeek, TypeInv, Parts, HoldersOK
    <3> QED BY <3>1, <3>2, <3>3, NearFinds
  <2>2. CASE ~RawPeek
    <3>1. UNCHANGED rawThread BY <1>1, <2>2, RawPc, RawThreadSame DEF RawThread
    <3>2. rawThread.info \in Range(isp_capture_list) BY <1>1, <3>1 DEF InfoHeldInv
    <3>3. Range(isp_capture_list) \subseteq Range(isp_capture_list')
      <4>1. ~IspCbOldest \/ isp_capture_list = <<>>
        BY <1>1, <3>1 DEF IspCbOldest
      <4>2. ~CaptureDeInit BY <1>1, <3>1 DEF CaptureDeInit, MainInv
      <4>3. ~RawErase BY <1>1, RawPc
      <4>4. CASE UNCHANGED isp_capture_list BY <4>4
      <4>5. CASE IspCbCopy /\ isp_capture_origin_list # <<>>
        BY <1>0, <4>5, HeadPushed DEF IspCbCopy, InfoListsOK
      <4>6. IspCbCopy /\ isp_capture_origin_list = <<>> => UNCHANGED isp_capture_list
        BY DEF IspCbCopy
      <4>7. IspCbOldest /\ isp_capture_list = <<>> => UNCHANGED isp_capture_list
        BY DEF IspCbOldest
      <4>8. RawRepeat \/ CppErase \/ CppPost => UNCHANGED isp_capture_list
        BY DEF RawRepeat, CppErase, CppPost
      <4> QED BY <4>1, <4>2, <4>3, <4>4, <4>5, <4>6, <4>7, <4>8, ListsSame
              DEF InfoMoves, IspCb, infoLists
    <3> QED BY <3>1, <3>2, <3>3
  <2> QED BY <2>1, <2>2
<1>2. ASSUME cppThread'.pc = "erase" PROVE cppThread'.info \in Range(isp_capture_repeat_list')
  <2>1. CASE CppPeek
    <3>1. /\ isp_capture_repeat_list \in Seq(Infos) /\ viId \in [Infos -> Int]
          /\ frameId[cppThread.in] \in Int
      BY <2>1, SliceAssumption DEF CppPeek, TypeInv, Parts, InfoListsOK, IdsOK, HoldInv
    <3>2. /\ UNCHANGED isp_capture_repeat_list
          /\ cppThread'.info = Near(isp_capture_repeat_list, viId, frameId[cppThread.in])
          /\ cppThread'.info # NULL
      BY <1>2, <2>1, CppPc DEF CppPeek, infoLists
    <3> QED BY <3>1, <3>2, NearFinds
  <2>2. CASE ~CppPeek
    <3>1. UNCHANGED cppThread BY <1>2, <2>2, CppPc, CppThreadSame DEF CppThread
    <3>2. cppThread.info \in Range(isp_capture_repeat_list) BY <1>2, <3>1 DEF InfoHeldInv
    <3>3. Range(isp_capture_repeat_list) \subseteq Range(isp_capture_repeat_list')
      <4>1. ~CaptureDeInit BY <1>2, <3>1 DEF CaptureDeInit, MainInv
      <4>2. ~CppErase BY <1>2, CppPc
      <4>3. CASE UNCHANGED isp_capture_repeat_list BY <4>3
      <4>4. CASE RawRepeat
        BY <1>0, <4>4, PushRange DEF RawRepeat, InfoListsOK, TypeInv, HoldInv
      <4>5. IspCb \/ RawErase \/ CppPost => UNCHANGED isp_capture_repeat_list
        BY DEF IspCb, IspCbCopy, IspCbOldest, RawErase, CppPost
      <4> QED BY <4>1, <4>2, <4>3, <4>4, <4>5, ListsSame DEF InfoMoves, infoLists
    <3> QED BY <3>1, <3>2, <3>3
  <2> QED BY <2>1, <2>2
<1> QED BY <1>1, <1>2

LEMMA InfoStep == ASSUME TypeInv, MainInv, InfoInv, [Next]_vars PROVE InfoInv'
<1> SUFFICES ASSUME "recycled" \notin raced' PROVE InfoHeldInv' BY DEF InfoInv
<1>1. InfoHeldInv BY RacedGrows DEF InfoInv
<1>2. main' # "ended" => main # "ended" /\ InfoPlaceInv'
  <2>1. main = "ended" => main' = "ended"
    BY DEF Next, Main, RawCb, IspCb, ViCb, RawThread, CppThread, StreamOn, StreamOff,
       StopUnits, ProcThreadDeinit, ProcThreadJoin, CaptureDeInit, RawFrame, RawCbEmpty,
       RawCbOldest, RawCbFill, IspFrame, IspCbCopy, IspCbOldest, CaptureDone,
       ViCbFlag, ViCbPush, ViCbBack, RawWait, RawCheck, RawGet, RawPeek, RawErase, RawTrigger,
       RawBack, RawRepeat, RawStore, CppWait, CppPop, CppPeek, CppErase, CppPost, CppInDone,
       CppOutDone, vars, ctlVars
  <2> QED BY <1>1, <2>1, PlaceStep
<1>3. main' = "ended" => \A r \in Infos : frees'[r] = 1
  <2>1. CaptureDeInit \/ (UNCHANGED frees /\ (main' = "ended" => main = "ended"))
    BY DEF Next, Main, RawCb, IspCb, ViCb, RawThread, CppThread, StreamOn, StreamOff,
       StopUnits, ProcThreadDeinit, ProcThreadJoin, RawFrame, RawCbEmpty,
       RawCbOldest, RawCbFill, IspFrame, IspCbCopy, IspCbOldest, CaptureDone,
       ViCbFlag, ViCbPush, ViCbBack, RawWait, RawCheck, RawGet, RawPeek, RawErase, RawTrigger,
       RawBack, RawRepeat, RawStore, CppWait, CppPop, CppPeek, CppErase, CppPost, CppInDone,
       CppOutDone, vars, ctlVars, endVars
  <2> QED BY <1>1, <2>1, FreedOnce DEF InfoHeldInv
<1> QED BY <1>1, <1>2, <1>3, EraseStep DEF InfoHeldInv

LEMMA OnePlace == ASSUME TypeInv, InfoInv PROVE InfoInOnePlace
<1> SUFFICES ASSUME InfoHeldInv, NEW r \in Infos, main # "ended"
             PROVE  Cardinality(Places(r)) = 1
  BY DEF InfoInOnePlace, InfoInv, InfoHeldInv
<1>1. PICK w \in 1 .. 5 : AtOnce(r, w) BY DEF InfoHeldInv, InfoPlaceInv
<1>2. \A v : v \in Places(r) <=> v \in 1 .. 5 /\ InfoAt(r, v)
  <2>1. \A l \in 1 .. 3 : Contains(infoLists[l], r) <=> InfoAt(r, l) BY InfoIn
  <2>2. (InfoAt(r, 4) <=> HeldByRaw(r)) /\ (InfoAt(r, 5) <=> HeldByCpp(r)) BY DEF InfoAt
  <2> QED BY <2>1, <2>2 DEF Places
<1>3. Places(r) = {w} BY <1>1, <1>2 DEF AtOnce
<1> QED BY <1>3, FS_Singleton

-----------------------------------------------------------------------------
(* The crashes of the raw thread. *)

(* The lists it has found filled stay so, but for the races. *)
FoundInv ==
    /\ "stolen" \notin raced /\ rawThread.pc = "get" => rawdump_capture_list # <<>>
    /\ "recycled" \notin raced /\ rawThread.pc \in {"get", "peek"} => isp_capture_list # <<>>
    /\ rawThread.pc = "segv" => raced \cap {"stolen", "recycled"} # {}

LEMMA PushFills ==
    ASSUME NEW S, NEW s \in Seq(S), NEW x \in S PROVE Push(s, x) # <<>>
<1>1. x \in Range(Push(s, x)) BY PushRange
<1>2. Range(<<>>) = {} BY DEF Range
<1> QED BY <1>1, <1>2

LEMMA FoundStep == ASSUME TypeInv, MainInv, FoundInv, [Next]_vars PROVE FoundInv'
<1>0. raced \subseteq raced' BY RacedGrows
<1>1. ASSUME "stolen" \notin raced', rawThread'.pc = "get" PROVE rawdump_capture_list' # <<>>
  <2>1. CASE RawCheck
    <3>1. Ready /\ UNCHANGED rawdump_capture_list
      BY <1>1, <2>1, RawPc DEF RawCheck, rawLists
    <3> QED BY <3>1 DEF Ready
  <2>2. CASE ~RawCheck
    <3>1. UNCHANGED rawThread BY <1>1, <2>2, RawPc, RawThreadSame DEF RawThread
    <3>2. rawdump_capture_list # <<>> BY <1>0, <1>1, <3>1 DEF FoundInv
    <3>3. ~CaptureDeInit BY <1>1, <3>1 DEF CaptureDeInit, MainInv
    <3>4. ~RawGet /\ ~RawBack BY <1>1, RawPc
    <3>5. ~RawCbOldest BY <1>1, <3>1, <3>2 DEF RawCbOldest
    <3>6. CASE RawCbFill
      BY <3>6, PushFills DEF RawCbFill, TypeInv, Parts, RawListsOK, HoldInv
    <3>7. StreamOn \/ RawFrame \/ RawCbEmpty \/ ViCbBack => UNCHANGED rawdump_capture_list
      BY DEF StreamOn, RawFrame, RawCbEmpty, ViCbBack, rawLists
    <3> QED BY <3>2, <3>3, <3>4, <3>5, <3>6, <3>7, ListsSame DEF RawMoves, RawCb, rawLists
  <2> QED BY <2>1, <2>2
<1>2. ASSUME "recycled" \notin raced', rawThread'.pc \in {"get", "peek"}
      PROVE  isp_capture_list' # <<>>
  <2>1. CASE RawCheck
    <3>1. Ready /\ UNCHANGED isp_capture_list
      BY <1>2, <2>1, RawPc DEF RawCheck, infoLists
    <3> QED BY <3>1 DEF Ready
  <2>2. CASE RawGet
    <3>1. rawThread.pc = "get" /\ UNCHANGED isp_capture_list
      BY <2>2, RawPc DEF RawGet, infoLists
    <3> QED BY <1>0, <1>2, <3>1 DEF FoundInv
  <2>3. CASE ~RawCheck /\ ~RawGet
    <3>1. UNCHANGED rawThread BY <1>2, <2>3, RawPc, RawThreadSame DEF RawThread
    <3>2. isp_capture_list # <<>> BY <1>0, <1>2, <3>1 DEF FoundInv
    <3>3. ~CaptureDeInit BY <1>2, <3>1 DEF CaptureDeInit, MainInv
    <3>4. ~RawErase BY <1>2, RawPc
    <3>5. ~IspCbOldest BY <1>2, <3>1, <3>2 DEF IspCbOldest
    <3>6. CASE IspCbCopy
      <4>1. CASE isp_capture_origin_list = <<>> BY <3>2, <3>6, <4>1 DEF IspCbCopy
      <4>2. CASE isp_capture_origin_list # <<>>
        <5>1. PICK x \in Infos : x = Head(isp_capture_origin_list)
          BY <4>2, TailRange DEF TypeInv, Parts, InfoListsOK
        <5>2. isp_capture_list' = Push(isp_capture_list, x)
          BY <3>6, <4>2, <5>1 DEF IspCbCopy
        <5> QED BY <5>2, PushFills DEF TypeInv, Parts, InfoListsOK
      <4> QED BY <4>1, <4>2
    <3>7. RawRepeat \/ CppErase \/ CppPost => UNCHANGED isp_capture_list
      BY DEF RawRepeat, CppErase, CppPost
    <3> QED BY <3>2, <3>3, <3>4, <3>5, <3>6, <3>7, ListsSame DEF InfoMoves, IspCb, infoLists
  <2> QED BY <2>1, <2>2, <2>3
<1>3. ASSUME rawThread'.pc = "segv" PROVE raced' \cap {"stolen", "recycled"} # {}
  <2>1. CASE RawGet
    <3>1. rawThread.pc = "get" /\ rawdump_capture_list = <<>>
      BY <1>3, <2>1, RawPc, RawGetTakes
    <3> QED BY <1>0, <3>1 DEF FoundInv
  <2>2. CASE RawPeek
    <3>1. rawThread.pc = "peek" /\ Near(isp_capture_list, ispId, frameId[rawThread.in]) = NULL
      BY <1>3, <2>2 DEF RawPeek, TypeInv, Parts, HoldersOK
    <3>2. /\ isp_capture_list \in Seq(Infos) /\ ispId \in [Infos -> Int]
          /\ frameId[rawThread.in] \in Int
      BY <3>1, SliceAssumption DEF TypeInv, Parts, InfoListsOK, IdsOK, HoldInv
    <3>3. isp_capture_list = <<>>
      BY <3>1, <3>2, NearFinds, InfoRanges, SliceAssumption
    <3> QED BY <1>0, <3>1, <3>3 DEF FoundInv
  <2>3. CASE ~RawGet /\ ~RawPeek
    <3>1. UNCHANGED rawThread BY <1>3, <2>3, RawPc, RawThreadSame DEF RawThread
    <3> QED BY <1>0, <1>3, <3>1 DEF FoundInv
  <2> QED BY <2>1, <2>2, <2>3
<1> QED BY <1>1, <1>2, <1>3 DEF FoundInv

-----------------------------------------------------------------------------
(* The buffers for the images. *)

(* Where such a buffer is. *)
OutAt(o, w) ==
    \/ w = 1 /\ o \in viPool
    \/ w = 2 /\ rawThread.pc \in {"peek", "erase", "trigger"} /\ rawThread.out = o
    \/ w = 3 /\ capture # NoCapture /\ capture.out = o
    \/ w = 4 /\ viCb.pc \in {"flag", "push"} /\ viCb.out = o
    \/ w = 5 /\ o \in Range(vi_capture_list)
    \/ w = 6 /\ cppThread.pc \in {"peek", "erase", "post"} /\ cppThread.in = o
    \/ w = 7 /\ o \in cppIn

OutPlaceInv == \A o \in Outs : \A v, w \in 1 .. 7 : OutAt(o, v) /\ OutAt(o, w) => v = w

LEMMA OutStays ==
    ASSUME OutPlaceInv, \A o \in Outs : \A w \in 1 .. 7 : OutAt(o, w)' => OutAt(o, w)
    PROVE  OutPlaceInv'
BY DEF OutPlaceInv

(* One buffer leaves its place m for n. *)
LEMMA OutMoved ==
    ASSUME OutPlaceInv, NEW x \in Outs, NEW m \in 1 .. 7, NEW n, OutAt(x, m),
           \A o \in Outs \ {x} : \A w \in 1 .. 7 : OutAt(o, w)' => OutAt(o, w),
           \A w \in 1 .. 7 : OutAt(x, w)' => w = n \/ (w # m /\ OutAt(x, w))
    PROVE  OutPlaceInv'
<1>1. \A w \in 1 .. 7 : OutAt(x, w)' => w = n BY DEF OutPlaceInv
<1> QED BY <1>1 DEF OutPlaceInv

(* The steps that change the pool or what the CPP reads. *)
PoolSteps == \/ RawGet \/ StopUnits \/ CppPost
             \/ (\E o \in Outs : CppInDone(o))
LEMMA PoolSame == ASSUME [Next]_vars, ~PoolSteps PROVE UNCHANGED <<viPool, cppIn>>
BY DEF PoolSteps, Next, Main, RawCb, IspCb, ViCb, RawThread, CppThread, StreamOn, StreamOff,
       ProcThreadDeinit, ProcThreadJoin, CaptureDeInit, RawFrame, RawCbEmpty,
       RawCbOldest, RawCbFill, IspFrame, IspCbCopy, IspCbOldest, CaptureDone,
       ViCbFlag, ViCbPush, ViCbBack, RawWait, RawCheck, RawPeek, RawErase, RawTrigger,
       RawBack, RawRepeat, RawStore, CppWait, CppPop, CppPeek, CppErase,
       CppOutDone, vars, outVars, hwVars

(* The CPP thread takes the head of vi_capture_list, or nothing. *)
LEMMA CppPopTakes ==
    ASSUME TypeInv, CppPop
    PROVE  \/ cppThread'.pc \in {"wait", "exited"} /\ UNCHANGED vi_capture_list
           \/ /\ vi_capture_list # <<>> /\ cppThread'.pc = "peek"
              /\ cppThread'.in = Head(vi_capture_list)
              /\ vi_capture_list' = Tail(vi_capture_list)
<1>1. CASE vi_capture_list = <<>> \/ cppPool = {}
  BY <1>1 DEF CppPop, TypeInv, Parts, HoldersOK, CppLoop
<1>2. CASE vi_capture_list # <<>> /\ cppPool # {}
  BY <1>2 DEF CppPop, TypeInv, Parts, HoldersOK
<1> QED BY <1>1, <1>2

LEMMA OutPlaceStep ==
    ASSUME TypeInv, MainInv, FlagInv, OutPlaceInv, [Next]_vars PROVE OutPlaceInv'
<1>1. CASE RawGet
  <2>0. UNCHANGED <<capture, viCb, vi_capture_list, cppThread, cppIn>> /\ rawThread.pc = "get"
    BY <1>1, RawPc DEF RawGet, hwVars, cbVars
  <2>1. CASE rawThread'.pc \in {"wait", "exited", "segv"} /\ viPool' \subseteq viPool
    BY <2>0, <2>1, OutStays DEF OutAt
  <2>2. ASSUME NEW x \in viPool, rawThread'.pc = "peek", rawThread'.out = x,
               viPool' = viPool \ {x}
        PROVE  OutPlaceInv'
    <3>1. x \in Outs /\ OutAt(x, 1) BY DEF TypeInv, Parts, SetsOK, OutAt
    <3>2. \A o \in Outs \ {x} : \A w \in 1 .. 7 : OutAt(o, w)' => OutAt(o, w)
      BY <2>0, <2>2 DEF OutAt
    <3>3. \A w \in 1 .. 7 : OutAt(x, w)' => w = 2 \/ (w # 1 /\ OutAt(x, w))
      BY <2>0, <2>2 DEF OutAt
    <3> QED BY <3>1, <3>2, <3>3, OutMoved
  <2> QED BY <1>1, <2>1, <2>2, RawGetTakes
<1>2. CASE StopUnits
  <2>1. /\ UNCHANGED <<viPool, rawThread, viCb, vi_capture_list, cppThread>>
        /\ capture' \in {capture, NoCapture} /\ cppIn' \subseteq cppIn
    BY <1>2 DEF StopUnits, outVars, cbVars, thrVars
  <2> QED BY <2>1, OutStays DEF OutAt
<1>3. CASE CppPost
  <2>0. PICK x \in Outs : x = cppThread.in BY <1>3 DEF CppPost, TypeInv, HoldInv
  <2>1. /\ UNCHANGED <<viPool, rawThread, capture, viCb, vi_capture_list>>
        /\ cppIn' \subseteq cppIn \cup {x}
        /\ cppThread.pc = "post" /\ cppThread'.pc \in {"wait", "exited"}
    BY <1>3, <2>0, CppPc DEF CppPost, outVars, cbVars
  <2>2. OutAt(x, 6) BY <2>0, <2>1 DEF OutAt
  <2>3. \A o \in Outs \ {x} : \A w \in 1 .. 7 : OutAt(o, w)' => OutAt(o, w)
    BY <2>1 DEF OutAt
  <2>4. \A w \in 1 .. 7 : OutAt(x, w)' => w = 7 \/ (w # 6 /\ OutAt(x, w))
    BY <2>1 DEF OutAt
  <2> QED BY <2>2, <2>3, <2>4, OutMoved
<1>4. ASSUME NEW x \in Outs, CppInDone(x) PROVE OutPlaceInv'
  <2>1. /\ UNCHANGED <<rawThread, capture, viCb, vi_capture_list, cppThread>>
        /\ x \in cppIn /\ cppIn' = cppIn \ {x} /\ viPool' \subseteq viPool \cup {x}
    BY <1>4 DEF CppInDone, cbVars, thrVars
  <2>2. OutAt(x, 7) BY <2>1 DEF OutAt
  <2>3. \A o \in Outs \ {x} : \A w \in 1 .. 7 : OutAt(o, w)' => OutAt(o, w)
    BY <2>1 DEF OutAt
  <2>4. \A w \in 1 .. 7 : OutAt(x, w)' => w = 1 \/ (w # 7 /\ OutAt(x, w))
    BY <2>1 DEF OutAt
  <2> QED BY <2>2, <2>3, <2>4, OutMoved
<1>5. CASE RawTrigger
  <2>0. PICK x \in Outs : x = rawThread.out BY <1>5 DEF RawTrigger, TypeInv, HoldInv
  <2>1. /\ UNCHANGED <<viPool, viCb, vi_capture_list, cppThread, cppIn>>
        /\ rawThread.pc = "trigger" /\ rawThread'.pc = "back"
        /\ capture = NoCapture /\ (capture' # NoCapture => capture'.out = x)
    BY <1>5, <2>0, RawPc DEF RawTrigger, outVars, cbVars, FlagInv, Starting, Busy
  <2>2. OutAt(x, 2) BY <2>0, <2>1 DEF OutAt
  <2>3. \A o \in Outs \ {x} : \A w \in 1 .. 7 : OutAt(o, w)' => OutAt(o, w)
    BY <2>1 DEF OutAt
  <2>4. \A w \in 1 .. 7 : OutAt(x, w)' => w = 3 \/ (w # 2 /\ OutAt(x, w))
    BY <2>1 DEF OutAt
  <2> QED BY <2>2, <2>3, <2>4, OutMoved
<1>6. CASE CaptureDone
  <2>0. PICK x \in Outs : x = capture.out BY <1>6 DEF CaptureDone, TypeInv, HoldInv
  <2>1. /\ UNCHANGED <<viPool, rawThread, vi_capture_list, cppThread, cppIn>>
        /\ capture # NoCapture /\ capture' = NoCapture
        /\ viCb'.pc = "idle" \/ viCb'.out = x
    BY <1>6, <2>0 DEF CaptureDone, outVars, thrVars, NoViCb
  <2>2. OutAt(x, 3) BY <2>0, <2>1 DEF OutAt
  <2>3. \A o \in Outs \ {x} : \A w \in 1 .. 7 : OutAt(o, w)' => OutAt(o, w)
    BY <2>1 DEF OutAt
  <2>4. \A w \in 1 .. 7 : OutAt(x, w)' => w = 4 \/ (w # 3 /\ OutAt(x, w))
    BY <2>1 DEF OutAt
  <2> QED BY <2>2, <2>3, <2>4, OutMoved
<1>7. CASE ViCbPush
  <2>0. PICK x \in Outs : x = viCb.out BY <1>7 DEF ViCbPush, TypeInv, HoldInv
  <2>1. /\ UNCHANGED <<viPool, rawThread, capture, cppThread, cppIn>>
        /\ viCb.pc = "push" /\ viCb'.pc = "back"
        /\ vi_capture_list' = Push(vi_capture_list, x)
    BY <1>7, <2>0 DEF ViCbPush, hwVars, thrVars, TypeInv, Parts, HoldersOK
  <2>2. Range(vi_capture_list') = Range(vi_capture_list) \cup {x}
    BY <2>1, PushRange DEF TypeInv, Parts, OutListOK
  <2>3. OutAt(x, 4) BY <2>0, <2>1 DEF OutAt
  <2>4. \A o \in Outs \ {x} : \A w \in 1 .. 7 : OutAt(o, w)' => OutAt(o, w)
    BY <2>1, <2>2 DEF OutAt
  <2>5. \A w \in 1 .. 7 : OutAt(x, w)' => w = 5 \/ (w # 4 /\ OutAt(x, w))
    BY <2>1, <2>2 DEF OutAt
  <2> QED BY <2>3, <2>4, <2>5, OutMoved
<1>8. CASE CppPop
  <2>0. UNCHANGED <<viPool, rawThread, capture, viCb, cppIn>>
    BY <1>8 DEF CppPop, hwVars, cbVars
  <2>1. CASE cppThread'.pc \in {"wait", "exited"} /\ UNCHANGED vi_capture_list
    BY <2>0, <2>1, OutStays DEF OutAt
  <2>2. CASE /\ vi_capture_list # <<>> /\ cppThread'.pc = "peek"
             /\ cppThread'.in = Head(vi_capture_list)
             /\ vi_capture_list' = Tail(vi_capture_list)
    <3>0. PICK x \in Outs : x = Head(vi_capture_list)
      BY <2>2, TailRange DEF TypeInv, Parts, OutListOK
    <3>1. /\ Range(vi_capture_list) = {x} \cup Range(vi_capture_list')
          /\ x \notin Range(vi_capture_list') /\ cppThread'.in = x /\ cppThread.pc = "check"
      BY <1>8, <2>2, <3>0, TailRange, CppPc DEF TypeInv, Parts, OutListOK
    <3>2. OutAt(x, 5) BY <3>1 DEF OutAt
    <3>3. \A o \in Outs \ {x} : \A w \in 1 .. 7 : OutAt(o, w)' => OutAt(o, w)
      BY <2>0, <3>1 DEF OutAt
    <3>4. \A w \in 1 .. 7 : OutAt(x, w)' => w = 6 \/ (w # 5 /\ OutAt(x, w))
      BY <2>0, <3>1 DEF OutAt
    <3> QED BY <3>2, <3>3, <3>4, OutMoved
  <2> QED BY <1>8, <2>1, <2>2, CppPopTakes
<1>9. CASE CaptureDeInit
  <2>1. /\ UNCHANGED <<viPool, rawThread, capture, viCb, cppThread, cppIn>>
        /\ vi_capture_list' = <<>>
    BY <1>9 DEF CaptureDeInit, hwVars, cbVars, thrVars
  <2>2. Range(<<>>) = {} BY DEF Range
  <2> QED BY <2>1, <2>2, OutStays DEF OutAt
<1>10. CASE ~(PoolSteps \/ OutMoves \/ RawTrigger \/ CaptureDone)
  <2>1. UNCHANGED <<viPool, cppIn, vi_capture_list, capture>>
    BY <1>10, PoolSame, ListsSame, CaptureSame DEF PoolSteps
  <2>2. viCb'.pc \in {"flag", "push"} => viCb.pc \in {"flag", "push"} /\ viCb'.out = viCb.out
    <3>1. ViCb \/ UNCHANGED viCb BY <1>10, CaptureSame
    <3> QED BY <1>10, <3>1
            DEF ViCb, ViCbFlag, ViCbPush, ViCbBack, OutMoves, NoViCb, TypeInv, Parts, HoldersOK
  <2>3. rawThread'.pc \in {"peek", "erase", "trigger"} =>
          rawThread.pc \in {"peek", "erase", "trigger"} /\ rawThread'.out = rawThread.out
    BY <1>10, RawPc, RawKeeps, RawThreadSame DEF RawThread, PoolSteps
  <2>4. cppThread'.pc \in {"peek", "erase", "post"} =>
          cppThread.pc \in {"peek", "erase", "post"} /\ cppThread'.in = cppThread.in
    BY <1>10, CppPc, CppThreadSame DEF CppThread, OutMoves, PoolSteps
  <2>5. \A o \in Outs : \A w \in 1 .. 7 : OutAt(o, w)' => OutAt(o, w)
    BY <2>1, <2>2, <2>3, <2>4 DEF OutAt
  <2> QED BY <2>5, OutStays
<1> QED BY <1>1, <1>2, <1>3, <1>4, <1>5, <1>6, <1>7, <1>8, <1>9, <1>10 DEF PoolSteps, OutMoves

-----------------------------------------------------------------------------
(* The frame numbers. *)

(* Raw frames are numbered as they come; while one is being delivered its number is
   still unused. *)
NumberInv ==
    /\ \A b \in Raws \cup Outs :
         frameId[b] <= frames /\ (rawCb.pc # "idle" => frameId[b] < frames)
    /\ \A r \in Infos : viId[r] <= frames /\ (rawCb.pc # "idle" => viId[r] < frames)
    /\ Rising(rawdump_capture_list, frameId)

(* The steps that number something. *)
LEMMA NumberSame ==
    ASSUME [Next]_vars
    PROVE  /\ RawCbFill \/ RawGet \/ UNCHANGED frameId
           /\ IspCbCopy \/ RawErase \/ UNCHANGED viId
           /\ RawFrame \/ UNCHANGED frames
           /\ RawFrame \/ RawCb \/ UNCHANGED rawCb
<1> USE DEF Next, Main, RawCb, IspCb, ViCb, RawThread, CppThread, StreamOn, StreamOff,
       StopUnits, ProcThreadDeinit, ProcThreadJoin, CaptureDeInit,
       RawCbOldest, IspFrame, IspCbOldest, CaptureDone,
       ViCbFlag, ViCbPush, ViCbBack, RawWait, RawCheck, RawPeek, RawTrigger,
       RawBack, RawRepeat, RawStore, CppWait, CppPop, CppPeek, CppErase, CppPost, CppInDone,
       CppOutDone, vars, idVars, hwVars, cbVars, RawCbEmpty
<1>1. RawCbFill \/ RawGet \/ UNCHANGED frameId BY DEF RawFrame, IspCbCopy, RawErase
<1>2. IspCbCopy \/ RawErase \/ UNCHANGED viId BY DEF RawFrame, RawCbFill, RawGet
<1>3. RawFrame \/ UNCHANGED frames BY DEF RawCbFill, IspCbCopy, RawGet, RawErase
<1>4. RawFrame \/ RawCb \/ UNCHANGED rawCb BY DEF IspCbCopy, RawGet, RawErase
<1> QED BY ONLY <1>1, <1>2, <1>3, <1>4

(* What they number, and how. *)
LEMMA FillNumbers ==
    ASSUME TypeInv, RawPlaceInv, RawCbFill
    PROVE  /\ rawCb.raw \in Raws /\ rawCb.raw \notin Range(rawdump_capture_list)
           /\ rawCb.pc # "idle" /\ rawCb'.pc = "idle"
           /\ frameId'[rawCb.raw] = frames
           /\ \A b \in (Raws \cup Outs) \ {rawCb.raw} : frameId'[b] = frameId[b]
           /\ rawdump_capture_list' = Append(rawdump_capture_list, rawCb.raw)
<1>1. PICK x \in Raws : x = rawCb.raw BY DEF RawCbFill, TypeInv, HoldInv
<1>2. RawAt(x, 5) /\ rawCb.pc # "idle" /\ rawCb'.pc = "idle"
  BY <1>1 DEF RawAt, RawCbFill, NoRawCb
<1>3. x \notin Range(rawdump_capture_list) BY <1>2 DEF RawPlaceInv, RawAt
<1>4. rawdump_capture_list' = Append(rawdump_capture_list, x)
  <2>1. rawdump_capture_list' = Push(rawdump_capture_list, x) BY <1>1 DEF RawCbFill
  <2>2. rawdump_capture_list \in Seq(Raws) BY DEF TypeInv, Parts, RawListsOK
  <2> QED BY <1>3, <2>1, <2>2, PushRange
<1>5. frameId' = [frameId EXCEPT ![x] = frames] /\ frameId \in [Raws \cup Outs -> 0 .. MaxFrame]
  BY <1>1 DEF RawCbFill, TypeInv, Parts, IdsOK
<1>6. /\ frameId'[x] = frames
      /\ \A b \in (Raws \cup Outs) \ {x} : frameId'[b] = frameId[b]
  BY <1>5
<1> QED BY ONLY <1>1, <1>2, <1>3, <1>4, <1>6

LEMMA GetNumbers ==
    ASSUME TypeInv, RawGet
    PROVE  \/ /\ UNCHANGED <<rawdump_capture_list, frameId>>
              /\ rawThread'.pc \in {"wait", "exited", "segv"}
           \/ \E o \in viPool :
              /\ rawdump_capture_list # <<>> /\ Head(rawdump_capture_list) \in Raws
              /\ rawdump_capture_list' = Tail(rawdump_capture_list)
              /\ rawThread'.pc = "peek" /\ rawThread'.out = o /\ o \in Outs
              /\ frameId'[o] = frameId[Head(rawdump_capture_list)]
              /\ \A b \in (Raws \cup Outs) \ {o} : frameId'[b] = frameId[b]
<1>1. viPool \subseteq Outs /\ frameId \in [Raws \cup Outs -> 0 .. MaxFrame]
  BY DEF TypeInv, Parts, SetsOK, IdsOK
<1>2. rawdump_capture_list # <<>> => Head(rawdump_capture_list) \in Raws
  BY TailRange DEF TypeInv, Parts, RawListsOK
<1> QED BY <1>1, <1>2, RawGetTakes

LEMMA EraseNumbers ==
    ASSUME TypeInv, RawErase
    PROVE  /\ rawThread.info \in Infos /\ rawThread.out \in Outs
           /\ viId'[rawThread.info] = frameId[rawThread.out]
           /\ \A r \in Infos \ {rawThread.info} : viId'[r] = viId[r]
BY DEF TypeInv, Parts, IdsOK, HoldInv, RawErase

LEMMA CopyNumbers ==
    ASSUME TypeInv, IspCbCopy
    PROVE  \/ UNCHANGED viId
           \/ \E x \in Range(isp_capture_origin_list) :
                viId'[x] = -1 /\ \A r \in Infos \ {x} : viId'[r] = viId[r]
<1>1. CASE isp_capture_origin_list = <<>> BY <1>1 DEF IspCbCopy
<1>2. CASE isp_capture_origin_list # <<>>
  <2>1. PICK x \in Infos : x = Head(isp_capture_origin_list)
    BY <1>2, TailRange DEF TypeInv, Parts, InfoListsOK
  <2>2. x \in Range(isp_capture_origin_list)
    BY <1>2, <2>1, TailRange DEF TypeInv, Parts, InfoListsOK
  <2>3. viId' = [viId EXCEPT ![x] = -1] /\ viId \in [Infos -> -1 .. MaxFrame]
    BY <1>2, <2>1 DEF IspCbCopy, TypeInv, Parts, IdsOK
  <2> QED BY <2>1, <2>2, <2>3
<1> QED BY <1>1, <1>2

(* rawdump_capture_list gets a buffer at its end or loses the first. *)
LEMMA RawListSame ==
    ASSUME TypeInv, [Next]_vars
    PROVE  \/ RawCbFill \/ RawGet
           \/ UNCHANGED rawdump_capture_list
           \/ rawdump_capture_list' = <<>>
           \/ rawdump_capture_list # <<>> /\ rawdump_capture_list' = Tail(rawdump_capture_list)
<1>1. RawFrame \/ RawCbEmpty \/ StreamOn \/ ViCbBack \/ RawBack =>
        UNCHANGED rawdump_capture_list
  BY DEF RawFrame, RawCbEmpty, StreamOn, ViCbBack, RawBack, rawLists
<1>2. CaptureDeInit => rawdump_capture_list' = <<>> BY DEF CaptureDeInit
<1>3. RawCbOldest =>
        \/ UNCHANGED rawdump_capture_list
        \/ rawdump_capture_list # <<>> /\ rawdump_capture_list' = Tail(rawdump_capture_list)
  BY DEF RawCbOldest
<1> QED BY <1>1, <1>2, <1>3, ListsSame DEF RawMoves, RawCb, rawLists

LEMMA RawRange == ASSUME TypeInv PROVE Range(rawdump_capture_list) \subseteq Raws
BY ElementOfSeq, LenProperties DEF TypeInv, Parts, RawListsOK, Range

LEMMA NumberStep ==
    ASSUME TypeInv, RawPlaceInv, NumberInv, [Next]_vars PROVE NumberInv'
<1>0. /\ frameId \in [Raws \cup Outs -> Int] /\ viId \in [Infos -> Int] /\ frames \in Int
      /\ rawdump_capture_list \in Seq(Raws)
  BY SliceAssumption DEF TypeInv, Parts, IdsOK, CtlOK, RawListsOK
<1>1. CASE RawFrame
  <2>1. frames' = frames + 1 /\ UNCHANGED <<frameId, viId, rawdump_capture_list>>
    BY <1>1 DEF RawFrame, idVars, rawLists
  <2> QED BY <1>0, <2>1 DEF NumberInv
<1>2. CASE RawCbFill
  <2>1. UNCHANGED <<frames, viId>> /\ rawCb'.pc = "idle"
    BY <1>2, FillNumbers DEF RawCbFill, hwVars
  <2>2. \A b \in Raws \cup Outs : frameId'[b] <= frames
    BY <1>0, <1>2, FillNumbers DEF NumberInv
  <2>3. Rising(rawdump_capture_list', frameId')
    <3>1. \A x \in Range(rawdump_capture_list) : frameId'[x] = frameId[x]
      BY <1>2, FillNumbers, RawRange
    <3>2. Rising(rawdump_capture_list, frameId') BY <3>1, RisingSame DEF NumberInv
    <3>3. \A x \in Range(rawdump_capture_list) : frameId'[x] < frameId'[rawCb.raw]
      BY <1>2, <3>1, FillNumbers, RawRange DEF NumberInv
    <3> QED BY <1>0, <1>2, <3>2, <3>3, FillNumbers, RisingAppend
  <2> QED BY <2>1, <2>2, <2>3 DEF NumberInv
<1>3. CASE RawGet
  <2>1. UNCHANGED <<frames, viId, rawCb>> BY <1>3 DEF RawGet, hwVars, cbVars
  <2>2. CASE UNCHANGED <<rawdump_capture_list, frameId>> BY <2>1, <2>2 DEF NumberInv
  <2>3. ASSUME NEW o \in Outs,
               rawdump_capture_list # <<>>, Head(rawdump_capture_list) \in Raws,
               rawdump_capture_list' = Tail(rawdump_capture_list),
               frameId'[o] = frameId[Head(rawdump_capture_list)],
               \A b \in (Raws \cup Outs) \ {o} : frameId'[b] = frameId[b]
        PROVE  NumberInv'
    <3>1. \A b \in Raws \cup Outs :
            frameId'[b] <= frames /\ (rawCb.pc # "idle" => frameId'[b] < frames)
      BY <2>3 DEF NumberInv
    <3>2. Rising(rawdump_capture_list', frameId)
      BY <1>0, <2>3, RisingTail DEF NumberInv
    <3>3. Range(rawdump_capture_list') \subseteq Raws
      BY <1>0, <2>3, RawRange, TailRange
    <3>4. Rising(rawdump_capture_list', frameId')
      BY <2>3, <3>2, <3>3, RisingSame, SliceAssumption
    <3> QED BY <2>1, <3>1, <3>4 DEF NumberInv
  <2> QED BY <1>3, <2>2, <2>3, GetNumbers
<1>4. CASE IspCbCopy \/ RawErase
  <2>1. UNCHANGED <<frames, frameId, rawCb, rawdump_capture_list>>
    BY <1>4 DEF IspCbCopy, RawErase, hwVars, cbVars, rawLists
  <2>2. \A r \in Infos : viId'[r] <= frames /\ (rawCb.pc # "idle" => viId'[r] < frames)
    <3>1. CASE IspCbCopy
      <4>1. 0 <= frames BY DEF TypeInv, Parts, CtlOK
      <4>2. rawCb.pc # "idle" => 0 < frames
        <5>1. rawCb.pc # "idle" =>
                frameId[rawCb.raw] \in 0 .. MaxFrame /\ frameId[rawCb.raw] < frames
          BY DEF NumberInv, TypeInv, HoldInv, Parts, IdsOK
        <5> QED BY <1>0, <5>1
      <4> QED BY <1>0, <3>1, <4>1, <4>2, CopyNumbers DEF NumberInv
    <3>2. CASE RawErase BY <1>0, <3>2, EraseNumbers DEF NumberInv
    <3> QED BY <1>4, <3>1, <3>2
  <2> QED BY <2>1, <2>2 DEF NumberInv
<1>5. CASE ~(RawFrame \/ RawCbFill \/ RawGet \/ IspCbCopy \/ RawErase)
  <2>1. UNCHANGED <<frames, frameId, viId>> BY <1>5, NumberSame
  <2>2. rawCb'.pc # "idle" => rawCb.pc # "idle"
    BY <1>5, NumberSame DEF RawCb, RawCbEmpty, RawCbOldest
  <2>3. Rising(rawdump_capture_list', frameId)
    <3>1. Rising(<<>>, frameId) BY DEF Rising
    <3> QED BY <1>0, <1>5, <3>1, RawListSame, RisingTail DEF NumberInv
  <2> QED BY <2>1, <2>2, <2>3 DEF NumberInv
<1> QED BY <1>1, <1>2, <1>3, <1>4, <1>5

-----------------------------------------------------------------------------
(* The images and their records. *)

(* The images between the trigger and the CPP thread's erasing. *)
Flying == {o \in Outs : OutAt(o, 3) \/ OutAt(o, 4) \/ OutAt(o, 5) \/
                         (OutAt(o, 6) /\ cppThread.pc # "post")}

(* The raw thread has a buffer for an image whose record is not yet in the repeat
   list. *)
Carrying == rawThread.pc \in {"peek", "erase", "trigger", "back", "repeat"}

(* A raw frame that waits is newer than everything whose capture has begun ... *)
AheadInv ==
    \A x \in Range(rawdump_capture_list) :
        /\ \A r \in Range(isp_capture_repeat_list) : viId[r] < frameId[x]
        /\ \A o \in Flying : frameId[o] < frameId[x]
        /\ Carrying => frameId[rawThread.out] < frameId[x]

(* ... and the capture that begins is newer than the ones before it. *)
TriggerInv ==
    /\ Carrying => \A r \in Range(isp_capture_repeat_list) : viId[r] < frameId[rawThread.out]
    /\ rawThread.pc \in {"peek", "erase", "trigger"} =>
         \A o \in Flying : frameId[o] < frameId[rawThread.out]
    /\ rawThread.pc \in {"trigger", "back", "repeat"} =>
         viId[rawThread.info] = frameId[rawThread.out]

(* The repeat list has a record for each image, or will have it in time. *)
RecordInv ==
    /\ Rising(isp_capture_repeat_list, viId)
    /\ \A o \in Flying :
         \/ rawThread.pc \in {"back", "repeat"} /\ o = capture.out /\ o = rawThread.out
         \/ \E r \in Range(isp_capture_repeat_list) : viId[r] = frameId[o]
    /\ \A o, q \in Flying : frameId[o] = frameId[q] => o = q

(* So the CPP thread finds it. *)
FindInv ==
    /\ cppThread.pc \in {"erase", "post"} => viId[cppThread.info] = frameId[cppThread.in]
    /\ cppThread.pc # "segv"

MatchHolds == AheadInv /\ TriggerInv /\ RecordInv /\ FindInv
MatchInv == main = "ended" \/ raced \cap {"overtook", "recycled"} # {} \/ MatchHolds

LEMMA MatchStays ==
    ASSUME MatchHolds,
           Range(rawdump_capture_list') \subseteq Range(rawdump_capture_list),
           UNCHANGED <<isp_capture_repeat_list, frameId>>,
           Flying' \subseteq Flying,
           \A r \in Range(isp_capture_repeat_list) : viId'[r] = viId[r],
           Carrying' => Carrying /\ rawThread'.out = rawThread.out,
           rawThread'.pc \in {"peek", "erase", "trigger"} =>
             rawThread.pc \in {"peek", "erase", "trigger"},
           rawThread'.pc \in {"trigger", "back", "repeat"} =>
             /\ rawThread.pc \in {"trigger", "back", "repeat"}
             /\ viId'[rawThread'.info] = viId[rawThread.info],
           \A o \in Flying' :
             rawThread.pc \in {"back", "repeat"} /\ o = capture.out /\ o = rawThread.out =>
               rawThread'.pc \in {"back", "repeat"} /\ o = capture'.out /\ o = rawThread'.out,
           cppThread'.pc \in {"erase", "post"} =>
             /\ cppThread.pc \in {"erase", "post"} /\ cppThread'.in = cppThread.in
             /\ viId'[cppThread'.info] = viId[cppThread.info],
           cppThread'.pc # "segv"
    PROVE  MatchHolds'
<1>1. AheadInv' BY DEF MatchHolds, AheadInv
<1>2. TriggerInv'
  <2>1. Carrying' => \A r \in Range(isp_capture_repeat_list) : viId'[r] < frameId[rawThread'.out]
    BY DEF MatchHolds, TriggerInv
  <2>2. rawThread'.pc \in {"peek", "erase", "trigger"} =>
          \A o \in Flying' : frameId[o] < frameId[rawThread'.out]
    BY DEF MatchHolds, TriggerInv, Carrying
  <2>3. rawThread'.pc \in {"trigger", "back", "repeat"} =>
          viId'[rawThread'.info] = frameId[rawThread'.out]
    BY DEF MatchHolds, TriggerInv, Carrying
  <2> QED BY <2>1, <2>2, <2>3 DEF TriggerInv
<1>3. RecordInv'
  <2>1. Rising(isp_capture_repeat_list', viId') BY RisingSame DEF MatchHolds, RecordInv
  <2> QED BY <2>1 DEF MatchHolds, RecordInv
<1>4. FindInv' BY DEF MatchHolds, FindInv
<1> QED BY <1>1, <1>2, <1>3, <1>4 DEF MatchHolds

(* Images only leave, but for the trigger. *)
LEMMA FlyingLess ==
    ASSUME TypeInv, [Next]_vars, ~RawTrigger PROVE Flying' \subseteq Flying
<1>0. (Flying \subseteq Outs) /\ \A o \in Outs : o \in Flying <=>
        \/ capture # NoCapture /\ capture.out = o
        \/ viCb.pc \in {"flag", "push"} /\ viCb.out = o
        \/ o \in Range(vi_capture_list)
        \/ cppThread.pc \in {"peek", "erase"} /\ cppThread.in = o
  BY DEF Flying, OutAt
<1>1. \A o \in Flying' : o \in Outs /\
        \/ capture' # NoCapture /\ capture'.out = o
        \/ viCb'.pc \in {"flag", "push"} /\ viCb'.out = o
        \/ o \in Range(vi_capture_list')
        \/ cppThread'.pc \in {"peek", "erase"} /\ cppThread'.in = o
  BY DEF Flying, OutAt
<1>2. /\ capture' # NoCapture => UNCHANGED capture
      /\ CaptureDone => /\ capture # NoCapture
                        /\ viCb'.pc \in {"flag", "push"} => viCb'.out = capture.out
  BY CaptureSame DEF StopUnits, CaptureDone, NoViCb
<1>3. ~CaptureDone /\ viCb'.pc \in {"flag", "push"} =>
        viCb.pc \in {"flag", "push"} /\ viCb'.out = viCb.out
  <2>1. CASE ViCb
    BY <2>1 DEF ViCb, ViCbFlag, ViCbPush, ViCbBack, NoViCb, TypeInv, Parts, HoldersOK
  <2> QED BY <2>1, CaptureSame
<1>4. \A o \in Range(vi_capture_list') :
        o \in Range(vi_capture_list) \/ (viCb.pc \in {"flag", "push"} /\ viCb.out = o)
  <2>1. CASE ViCbPush
    BY <2>1, PushRange DEF ViCbPush, TypeInv, Parts, OutListOK, HoldInv
  <2>2. CASE CppPop BY <2>2, CppPopTakes, TailRange DEF TypeInv, Parts, OutListOK
  <2>3. CASE CaptureDeInit BY <2>3 DEF CaptureDeInit, Range
  <2> QED BY <2>1, <2>2, <2>3, ListsSame DEF OutMoves
<1>5. cppThread'.pc \in {"peek", "erase"} =>
        \/ cppThread.pc \in {"peek", "erase"} /\ cppThread'.in = cppThread.in
        \/ cppThread'.in \in Range(vi_capture_list)
  <2>1. CASE CppPop BY <2>1, CppPopTakes, TailRange DEF TypeInv, Parts, OutListOK
  <2>2. CASE ~CppPop BY <2>2, CppPc, CppThreadSame DEF CppThread
  <2> QED BY <2>1, <2>2
<1> QED BY <1>0, <1>1, <1>2, <1>3, <1>4, <1>5

(* The numbers are integers. *)
LEMMA Numbers ==
    ASSUME TypeInv
    PROVE  /\ frameId \in [Raws \cup Outs -> Int] /\ viId \in [Infos -> Int]
           /\ rawdump_capture_list \in Seq(Raws) /\ isp_capture_repeat_list \in Seq(Infos)
BY SliceAssumption DEF TypeInv, Parts, IdsOK, RawListsOK, InfoListsOK

(* An image whose capture the raw thread has yet to note stays with VI. *)
LEMMA NotedInTime ==
    ASSUME TypeInv, OutPlaceInv, [Next]_vars, "overtook" \notin raced', ~RawRepeat,
           NEW o \in Flying, o \in Flying', rawThread.pc \in {"back", "repeat"}, o = capture.out,
           o = rawThread.out
    PROVE  rawThread'.pc \in {"back", "repeat"} /\ o = capture'.out /\ o = rawThread'.out
<1>0. o \in Outs /\ OutAt(o, 3)
  <2>1. o \in Outs BY DEF Flying
  <2>2. NULL \notin Outs BY SliceAssumption
  <2>3. NoCapture.out = NULL BY DEF NoCapture
  <2>4. capture # NoCapture BY <2>1, <2>2, <2>3
  <2> QED BY <2>1, <2>4 DEF OutAt
<1>1. rawThread'.pc \in {"back", "repeat"} /\ rawThread'.out = rawThread.out
  BY RawPc, RawKeeps, RawThreadSame DEF RawThread
<1>2. ~CaptureDone /\ ~RawTrigger BY RawPc DEF CaptureDone
<1>3. CASE StopUnits
  <2>1. UNCHANGED <<viCb, vi_capture_list, cppThread>> /\ capture' \in {capture, NoCapture}
    BY <1>3 DEF StopUnits, outVars, cbVars, thrVars
  <2>2. capture' = NoCapture => \E w \in 4 .. 6 : OutAt(o, w)
    BY <2>1 DEF Flying, OutAt
  <2>3. \A w \in 4 .. 6 : ~OutAt(o, w) BY <1>0 DEF OutPlaceInv
  <2> QED BY <1>1, <2>1, <2>2, <2>3
<1>4. CASE UNCHANGED capture BY <1>1, <1>4
<1> QED BY <1>2, <1>3, <1>4, CaptureSame

LEMMA MatchQuiet ==
    ASSUME TypeInv, MainInv, InfoHeldInv, OutPlaceInv, MatchHolds,
           "overtook" \notin raced', "recycled" \notin raced', [Next]_vars,
           ~(RawCbFill \/ RawGet \/ RawErase \/ RawTrigger \/ RawRepeat \/ CppPeek \/ CppErase
             \/ CaptureDeInit), main # "ended"
    PROVE  MatchHolds'
<1>1. Range(rawdump_capture_list') \subseteq Range(rawdump_capture_list)
  <2>1. Range(<<>>) = {} BY DEF Range
  <2>2. rawdump_capture_list # <<>> =>
          Range(Tail(rawdump_capture_list)) \subseteq Range(rawdump_capture_list)
    BY Numbers, TailRange
  <2> QED BY <2>1, <2>2, RawListSame
<1>2. UNCHANGED <<isp_capture_repeat_list, frameId>>
  BY ListsSame, NumberSame DEF InfoMoves, IspCb, IspCbCopy, IspCbOldest, CppPost, infoLists
<1>3. Flying' \subseteq Flying BY FlyingLess
<1>4. /\ \A r \in Range(isp_capture_repeat_list) : viId'[r] = viId[r]
      /\ rawThread.pc \in {"trigger", "back", "repeat"} =>
           viId'[rawThread.info] = viId[rawThread.info]
      /\ cppThread.pc \in {"erase", "post"} => viId'[cppThread.info] = viId[cppThread.info]
  <2>1. CASE IspCbCopy
    <3>1. /\ UNCHANGED <<rawThread, cppThread>>
          /\ \A r \in Infos : ~InfoAt(r, 3) => viId'[r] = viId[r]
      BY <2>1, CopyNumbers DEF IspCbCopy, thrVars, InfoAt
    <3>2. \A r \in Infos : \A w \in {1, 2, 4, 5} : InfoAt(r, w) => ~InfoAt(r, 3)
      BY DEF InfoHeldInv, InfoPlaceInv, AtOnce
    <3>3. \A r \in Range(isp_capture_repeat_list) : viId'[r] = viId[r]
      BY <3>1, <3>2, InfoRanges DEF InfoAt
    <3>4. rawThread.pc \in {"trigger", "back", "repeat"} =>
            viId'[rawThread.info] = viId[rawThread.info]
      <4>1. rawThread.pc \in {"trigger", "back", "repeat"} =>
              rawThread.info \in Infos /\ InfoAt(rawThread.info, 4)
        BY DEF InfoAt, HeldByRaw, TypeInv, HoldInv
      <4> QED BY <3>1, <3>2, <4>1
    <3>5. cppThread.pc \in {"erase", "post"} => viId'[cppThread.info] = viId[cppThread.info]
      <4>1. cppThread.pc \in {"erase", "post"} => cppThread.info \in Infos /\
              (InfoAt(cppThread.info, 2) \/ InfoAt(cppThread.info, 5))
        BY DEF InfoAt, HeldByCpp, TypeInv, HoldInv, InfoHeldInv
      <4> QED BY <3>1, <3>2, <4>1
    <3> QED BY <3>3, <3>4, <3>5
  <2>2. CASE ~IspCbCopy BY <2>2, NumberSame
  <2> QED BY <2>1, <2>2
<1>5. /\ Carrying' => Carrying /\ rawThread'.out = rawThread.out
      /\ rawThread'.pc \in {"peek", "erase", "trigger"} =>
           rawThread.pc \in {"peek", "erase", "trigger"}
      /\ rawThread'.pc \in {"trigger", "back", "repeat"} =>
           rawThread.pc \in {"trigger", "back", "repeat"} /\ rawThread'.info = rawThread.info
  BY RawPc, RawKeeps, RawThreadSame DEF RawThread, Carrying
<1>6. \A o \in Flying' :
        rawThread.pc \in {"back", "repeat"} /\ o = capture.out /\ o = rawThread.out =>
          rawThread'.pc \in {"back", "repeat"} /\ o = capture'.out /\ o = rawThread'.out
  BY <1>3, NotedInTime
<1>7. /\ cppThread'.pc \in {"erase", "post"} =>
           /\ cppThread.pc \in {"erase", "post"} /\ cppThread'.in = cppThread.in
           /\ cppThread'.info = cppThread.info
      /\ cppThread'.pc # "segv"
  BY CppPc, CppThreadSame DEF CppThread, MatchHolds, FindInv
<1> QED BY <1>1, <1>2, <1>3, <1>4, <1>5, <1>6, <1>7, MatchStays

(* A new raw frame has the newest number. *)
LEMMA MatchFill ==
    ASSUME TypeInv, RawPlaceInv, NumberInv, MatchHolds, [Next]_vars, RawCbFill
    PROVE  MatchHolds'
<1>1. UNCHANGED <<isp_capture_repeat_list, viId, rawThread, cppThread, capture>>
  BY DEF RawCbFill, infoLists, thrVars, hwVars
<1>2. Flying' \subseteq Flying /\ Flying \subseteq Outs
  <2>1. ~RawTrigger BY <1>1, RawPc
  <2> QED BY <2>1, FlyingLess DEF Flying
<1>3. \A b \in (Raws \cup Outs) \ {rawCb.raw} : frameId'[b] = frameId[b]
  BY FillNumbers
<1>4. rawCb.raw \in Raws /\ frameId'[rawCb.raw] = frames BY FillNumbers
<1>5. /\ \A o \in Outs : frameId'[o] = frameId[o] /\ frameId[o] < frames
      /\ \A r \in Infos : viId[r] < frames
  BY <1>3, <1>4, FillNumbers, SliceAssumption DEF NumberInv
<1>6. \A x \in Range(rawdump_capture_list') :
        x = rawCb.raw \/ (x \in Range(rawdump_capture_list) /\ frameId'[x] = frameId[x])
  <2>1. rawdump_capture_list' = Append(rawdump_capture_list, rawCb.raw) BY FillNumbers
  <2>2. Range(rawdump_capture_list') = Range(rawdump_capture_list) \cup {rawCb.raw}
    BY <1>4, <2>1, Numbers, AppendRange
  <2> QED BY <1>3, <2>2, RawRange
<1>7. Carrying => rawThread.out \in Outs BY DEF Carrying, TypeInv, HoldInv
<1>8. AheadInv'
  <2> SUFFICES ASSUME NEW x \in Range(rawdump_capture_list')
               PROVE  /\ \A r \in Range(isp_capture_repeat_list) : viId[r] < frameId'[x]
                      /\ \A o \in Flying' : frameId'[o] < frameId'[x]
                      /\ Carrying => frameId'[rawThread.out] < frameId'[x]
    BY <1>1 DEF AheadInv, Carrying
  <2>1. CASE x = rawCb.raw BY <1>2, <1>4, <1>5, <1>7, <2>1, InfoRanges
  <2>2. CASE x \in Range(rawdump_capture_list) /\ frameId'[x] = frameId[x]
    BY <1>2, <1>5, <1>7, <2>2 DEF MatchHolds, AheadInv
  <2> QED BY <1>6, <2>1, <2>2
<1>9. TriggerInv'
  BY <1>1, <1>2, <1>5, <1>7 DEF MatchHolds, TriggerInv, Carrying
<1>10. RecordInv'
  BY <1>1, <1>2, <1>5 DEF MatchHolds, RecordInv
<1>11. FindInv'
  <2>1. cppThread.pc \in {"erase", "post"} => cppThread.in \in Outs BY DEF TypeInv, HoldInv
  <2> QED BY <1>1, <1>5, <2>1 DEF MatchHolds, FindInv
<1> QED BY <1>8, <1>9, <1>10, <1>11 DEF MatchHolds

(* The raw thread takes the oldest frame; the image has its number. *)
LEMMA MatchGet ==
    ASSUME TypeInv, OutPlaceInv, NumberInv, MatchHolds, [Next]_vars, RawGet
    PROVE  MatchHolds'
<1>0. rawThread.pc = "get" BY RawPc
<1>1. UNCHANGED <<isp_capture_repeat_list, viId, cppThread, capture>>
  BY DEF RawGet, infoLists, hwVars
<1>2. Flying' \subseteq Flying /\ Flying \subseteq Outs
  BY <1>0, FlyingLess DEF RawTrigger, Flying
<1>3. CASE UNCHANGED <<rawdump_capture_list, frameId>>
           /\ rawThread'.pc \in {"wait", "exited", "segv"}
  <2>1. AheadInv' BY <1>1, <1>2, <1>3 DEF MatchHolds, AheadInv, Carrying
  <2>2. TriggerInv' BY <1>3 DEF TriggerInv, Carrying
  <2>3. RecordInv' BY <1>0, <1>1, <1>2, <1>3 DEF MatchHolds, RecordInv
  <2>4. FindInv' BY <1>1, <1>3 DEF MatchHolds, FindInv
  <2> QED BY <2>1, <2>2, <2>3, <2>4 DEF MatchHolds
<1>4. ASSUME NEW p \in viPool,
             rawdump_capture_list # <<>>, Head(rawdump_capture_list) \in Raws,
             rawdump_capture_list' = Tail(rawdump_capture_list),
             rawThread'.pc = "peek", rawThread'.out = p, p \in Outs,
             frameId'[p] = frameId[Head(rawdump_capture_list)],
             \A b \in (Raws \cup Outs) \ {p} : frameId'[b] = frameId[b]
      PROVE  MatchHolds'
  <2>1. PICK h \in Raws : h = Head(rawdump_capture_list) BY <1>4
  <2>2. /\ h \in Range(rawdump_capture_list)
        /\ Range(rawdump_capture_list') \subseteq Range(rawdump_capture_list)
        /\ \A x \in Range(rawdump_capture_list') : frameId[h] < frameId[x]
    BY <1>4, <2>1, Numbers, TailRange, RisingTail DEF NumberInv
  <2>3. OutAt(p, 1) BY <1>4 DEF OutAt
  <2>4. p \notin Flying BY <2>3 DEF OutPlaceInv, Flying
  <2>5. \A o \in Flying : frameId'[o] = frameId[o] BY <1>2, <1>4, <2>4
  <2>6. \A x \in Range(rawdump_capture_list') : frameId'[x] = frameId[x]
    BY <1>4, <2>2, RawRange, SliceAssumption
  <2>7. frameId'[p] = frameId[h] BY <1>4, <2>1
  <2>8. AheadInv'
    BY <1>1, <1>2, <1>4, <2>2, <2>5, <2>6, <2>7 DEF MatchHolds, AheadInv, Carrying
  <2>9. TriggerInv'
    <3>1. \A r \in Range(isp_capture_repeat_list) : viId[r] < frameId[h]
      BY <2>2 DEF MatchHolds, AheadInv
    <3>2. \A o \in Flying : frameId[o] < frameId[h] BY <2>2 DEF MatchHolds, AheadInv
    <3> QED BY <1>1, <1>2, <1>4, <2>5, <2>7, <3>1, <3>2 DEF TriggerInv, Carrying
  <2>10. RecordInv' BY <1>0, <1>1, <1>2, <2>5 DEF MatchHolds, RecordInv
  <2>11. FindInv'
    <3>1. cppThread.pc \in {"erase", "post"} => cppThread.in \in Outs /\ OutAt(cppThread.in, 6)
      BY DEF TypeInv, HoldInv, OutAt
    <3>2. cppThread.pc \in {"erase", "post"} => cppThread.in # p
      BY <1>4, <2>3, <3>1 DEF OutPlaceInv
    <3> QED BY <1>1, <1>4, <3>1, <3>2 DEF MatchHolds, FindInv
  <2> QED BY <2>8, <2>9, <2>10, <2>11 DEF MatchHolds
<1> QED BY <1>3, <1>4, GetNumbers

(* The record it takes gets the number of the image. *)
LEMMA MatchRawErase ==
    ASSUME TypeInv, InfoHeldInv, main # "ended", MatchHolds, [Next]_vars, RawErase
    PROVE  MatchHolds'
<1>1. /\ rawThread.pc = "erase" /\ rawThread'.pc = "trigger"
      /\ rawThread'.out = rawThread.out /\ rawThread'.info = rawThread.info
  BY RawPc, RawKeeps
<1>2. UNCHANGED <<isp_capture_repeat_list, frameId, rawdump_capture_list, cppThread, capture>>
  BY DEF RawErase, rawLists, hwVars
<1>3. Flying' \subseteq Flying BY <1>1, FlyingLess, RawPc
<1>4. PICK n \in Infos : n = rawThread.info BY EraseNumbers
<1>5. viId'[n] = frameId[rawThread.out] /\ \A r \in Infos \ {n} : viId'[r] = viId[r]
  BY <1>4, EraseNumbers
<1>6. AtOnce(n, 1) BY <1>1, <1>4, OncePlace DEF InfoHeldInv, InfoAt
<1>7. \A r \in Range(isp_capture_repeat_list) : viId'[r] = viId[r]
  BY <1>5, <1>6, InfoRanges DEF AtOnce, InfoAt
<1>8. cppThread.pc \in {"erase", "post"} => viId'[cppThread.info] = viId[cppThread.info]
  <2>1. cppThread.pc \in {"erase", "post"} => cppThread.info \in Infos /\
          (InfoAt(cppThread.info, 2) \/ InfoAt(cppThread.info, 5))
    BY DEF InfoAt, HeldByCpp, TypeInv, HoldInv, InfoHeldInv
  <2> QED BY <1>5, <1>6, <2>1 DEF AtOnce
<1>9. AheadInv' BY <1>1, <1>2, <1>3, <1>7 DEF MatchHolds, AheadInv, Carrying
<1>10. TriggerInv'
  BY <1>1, <1>2, <1>3, <1>4, <1>5, <1>7 DEF MatchHolds, TriggerInv, Carrying
<1>11. RecordInv'
  <2>1. Rising(isp_capture_repeat_list, viId') BY <1>7, RisingSame DEF MatchHolds, RecordInv
  <2> QED BY <1>1, <1>2, <1>3, <1>7, <2>1 DEF MatchHolds, RecordInv
<1>12. FindInv' BY <1>2, <1>8 DEF MatchHolds, FindInv
<1> QED BY <1>9, <1>10, <1>11, <1>12 DEF MatchHolds

(* The image flies, the newest of all. *)
LEMMA MatchTrigger ==
    ASSUME TypeInv, FlagInv, MatchHolds, [Next]_vars, RawTrigger
    PROVE  MatchHolds'
<1>1. /\ rawThread.pc = "trigger" /\ rawThread'.pc = "back"
      /\ rawThread'.out = rawThread.out /\ rawThread'.info = rawThread.info
  BY RawPc, RawKeeps
<1>2. UNCHANGED <<isp_capture_repeat_list, frameId, viId, rawdump_capture_list, cppThread,
                  viCb, vi_capture_list>>
  BY DEF RawTrigger, rawLists, infoLists, outVars, idVars, cbVars
<1>3. capture = NoCapture /\ (capture' # NoCapture => capture'.out = rawThread.out)
  BY <1>1 DEF RawTrigger, FlagInv, Starting, Busy
<1>4. Flying' \subseteq Flying \cup {rawThread.out}
  BY <1>2, <1>3 DEF Flying, OutAt
<1>5. \A o \in Flying' : o \notin Flying => o = capture'.out /\ o = rawThread'.out
  BY <1>1, <1>2, <1>3 DEF Flying, OutAt
<1>6. \A o \in Flying : frameId[o] < frameId[rawThread.out]
  BY <1>1 DEF MatchHolds, TriggerInv
<1>7. AheadInv' BY <1>1, <1>2, <1>4 DEF MatchHolds, AheadInv, Carrying
<1>8. TriggerInv' BY <1>1, <1>2 DEF MatchHolds, TriggerInv, Carrying
<1>9. RecordInv'
  <2>1. \A o \in Flying' :
          \/ rawThread'.pc \in {"back", "repeat"} /\ o = capture'.out /\ o = rawThread'.out
          \/ \E r \in Range(isp_capture_repeat_list) : viId[r] = frameId[o]
    BY <1>1, <1>5 DEF MatchHolds, RecordInv
  <2>2. ASSUME NEW o \in Flying', NEW q \in Flying', frameId[o] = frameId[q] PROVE o = q
    <3>1. Flying \subseteq Outs /\ rawThread.out \in Outs
      BY <1>1 DEF Flying, TypeInv, HoldInv
    <3>2. frameId[o] \in Int /\ frameId[q] \in Int BY <1>4, <3>1, Numbers
    <3>3. CASE o \in Flying /\ q \in Flying BY <2>2, <3>3 DEF MatchHolds, RecordInv
    <3>4. CASE o \notin Flying \/ q \notin Flying
      BY <1>4, <1>6, <2>2, <3>2, <3>4
    <3> QED BY <3>3, <3>4
  <2>3. Rising(isp_capture_repeat_list, viId) BY DEF MatchHolds, RecordInv
  <2> QED BY <1>2, <2>1, <2>2, <2>3 DEF RecordInv
<1>10. FindInv' BY <1>2 DEF MatchHolds, FindInv
<1> QED BY <1>7, <1>8, <1>9, <1>10 DEF MatchHolds

(* The record follows it into the repeat list. *)
LEMMA MatchRepeat ==
    ASSUME TypeInv, InfoHeldInv, main # "ended", MatchHolds, [Next]_vars, RawRepeat
    PROVE  MatchHolds'
<1>1. rawThread.pc = "repeat" /\ rawThread'.pc = "store" BY RawPc
<1>2. UNCHANGED <<frameId, viId, rawdump_capture_list, cppThread>>
  BY DEF RawRepeat, rawLists, idVars
<1>3. Flying' \subseteq Flying BY <1>1, FlyingLess, RawPc
<1>4. PICK n \in Infos : n = rawThread.info BY <1>1 DEF TypeInv, HoldInv
<1>5. viId[n] = frameId[rawThread.out] BY <1>1, <1>4 DEF MatchHolds, TriggerInv
<1>6. AtOnce(n, 4) BY <1>1, <1>4, OncePlace DEF InfoHeldInv, InfoAt, HeldByRaw
<1>7. n \notin Range(isp_capture_repeat_list) BY <1>6 DEF AtOnce, InfoAt
<1>8. /\ isp_capture_repeat_list' = Append(isp_capture_repeat_list, n)
      /\ Range(isp_capture_repeat_list') = Range(isp_capture_repeat_list) \cup {n}
  <2>1. isp_capture_repeat_list' = Push(isp_capture_repeat_list, n) BY <1>4 DEF RawRepeat
  <2>2. isp_capture_repeat_list \in Seq(Infos) BY Numbers
  <2>3. Push(isp_capture_repeat_list, n) = Append(isp_capture_repeat_list, n)
    BY <1>7, <2>2, PushRange
  <2>4. Range(Push(isp_capture_repeat_list, n)) = Range(isp_capture_repeat_list) \cup {n}
    BY <2>2, PushRange
  <2> QED BY <2>1, <2>3, <2>4
<1>9. AheadInv'
  BY <1>1, <1>2, <1>3, <1>5, <1>8 DEF MatchHolds, AheadInv, Carrying
<1>10. TriggerInv' BY <1>1 DEF TriggerInv, Carrying
<1>11. RecordInv'
  <2>1. \A r \in Range(isp_capture_repeat_list) : viId[r] < viId[n]
    BY <1>1, <1>5 DEF MatchHolds, TriggerInv, Carrying
  <2>2. Rising(isp_capture_repeat_list', viId')
    BY <1>2, <1>8, <2>1, Numbers, RisingAppend DEF MatchHolds, RecordInv
  <2>3. \A o \in Flying' : \E r \in Range(isp_capture_repeat_list') : viId'[r] = frameId'[o]
    BY <1>2, <1>3, <1>5, <1>8 DEF MatchHolds, RecordInv
  <2> QED BY <1>2, <1>3, <2>2, <2>3 DEF MatchHolds, RecordInv
<1>12. FindInv' BY <1>2 DEF MatchHolds, FindInv
<1> QED BY <1>9, <1>10, <1>11, <1>12 DEF MatchHolds

(* The CPP thread finds it ... *)
LEMMA MatchPeek ==
    ASSUME TypeInv, OutPlaceInv, MatchHolds, [Next]_vars, CppPeek
    PROVE  MatchHolds'
<1>1. cppThread.pc = "peek" /\ cppThread'.pc \in {"erase", "segv"} /\ cppThread'.in = cppThread.in
  BY CppPc
<1>2. UNCHANGED <<isp_capture_repeat_list, frameId, viId, rawdump_capture_list, rawThread,
                  capture>>
  BY DEF CppPeek, rawLists, infoLists, idVars, hwVars
<1>3. Flying' \subseteq Flying
  <2>1. ~RawTrigger BY <1>1, CppThreadSame DEF RawTrigger
  <2> QED BY <2>1, FlyingLess
<1>4. PICK i \in Outs : i = cppThread.in BY <1>1 DEF TypeInv, HoldInv
<1>5. OutAt(i, 6) /\ i \in Flying BY <1>1, <1>4 DEF OutAt, Flying
<1>6. PICK r \in Range(isp_capture_repeat_list) : viId[r] = frameId[i]
  <2>1. capture.out # i
    <3>1. NULL \notin Outs /\ NoCapture.out = NULL BY SliceAssumption DEF NoCapture
    <3>2. capture.out = i => OutAt(i, 3) BY <3>1 DEF OutAt
    <3> QED BY <1>5, <3>2 DEF OutPlaceInv
  <2> QED BY <1>5, <2>1 DEF MatchHolds, RecordInv
<1>7. cppThread'.pc # "segv" /\ viId[cppThread'.info] = frameId[i]
  <2>1. frameId[i] \in Int BY Numbers
  <2>2. isp_capture_repeat_list # <<>> BY <1>6 DEF Range
  <2>3. Rising(isp_capture_repeat_list, viId) BY DEF MatchHolds, RecordInv
  <2>4. /\ Near(isp_capture_repeat_list, viId, frameId[i]) \in Range(isp_capture_repeat_list)
        /\ viId[Near(isp_capture_repeat_list, viId, frameId[i])] = frameId[i]
    BY <1>6, <2>1, <2>2, <2>3, Numbers, NearFinds
  <2>5. NULL \notin Infos BY SliceAssumption
  <2> QED BY <1>4, <2>4, <2>5, CppPc, InfoRanges
<1>8. AheadInv' BY <1>2, <1>3 DEF MatchHolds, AheadInv, Carrying
<1>9. TriggerInv' BY <1>2, <1>3 DEF MatchHolds, TriggerInv, Carrying
<1>10. RecordInv' BY <1>2, <1>3 DEF MatchHolds, RecordInv
<1>11. FindInv' BY <1>1, <1>2, <1>4, <1>7 DEF FindInv
<1> QED BY <1>8, <1>9, <1>10, <1>11 DEF MatchHolds

(* ... and takes it, and no other image needs it. *)
LEMMA MatchCppErase ==
    ASSUME TypeInv, OutPlaceInv, MatchHolds, [Next]_vars, CppErase
    PROVE  MatchHolds'
<1>1. /\ cppThread.pc = "erase" /\ cppThread'.pc = "post"
      /\ cppThread'.in = cppThread.in /\ cppThread'.info = cppThread.info
  BY CppPc
<1>2. UNCHANGED <<frameId, viId, rawdump_capture_list, rawThread, capture, viCb,
                  vi_capture_list>>
  BY DEF CppErase, rawLists, idVars, hwVars, cbVars, outVars
<1>3. PICK i \in Outs : i = cppThread.in BY <1>1 DEF TypeInv, HoldInv
<1>4. PICK n \in Infos : n = cppThread.info BY <1>1 DEF TypeInv, HoldInv
<1>5. OutAt(i, 6) /\ i \in Flying BY <1>1, <1>3 DEF OutAt, Flying
<1>6. Flying' \subseteq Flying \ {i}
  <2>1. \A o \in Flying' : o \in Outs /\ (OutAt(o, 3) \/ OutAt(o, 4) \/ OutAt(o, 5))
    BY <1>1, <1>2 DEF Flying, OutAt
  <2> QED BY <1>5, <2>1 DEF OutPlaceInv, Flying
<1>7. /\ Range(isp_capture_repeat_list') = Range(isp_capture_repeat_list) \ {n}
      /\ Rising(isp_capture_repeat_list', viId)
  <2>1. isp_capture_repeat_list' = Erase(isp_capture_repeat_list, n) BY <1>4 DEF CppErase
  <2>2. isp_capture_repeat_list \in Seq(Infos) /\ IsInjective(isp_capture_repeat_list)
    BY DEF TypeInv, Parts, InfoListsOK
  <2>3. Rising(isp_capture_repeat_list, viId) BY DEF MatchHolds, RecordInv
  <2> QED BY <2>1, <2>2, <2>3, EraseRange, RisingErase
<1>8. viId[n] = frameId[i] BY <1>1, <1>3, <1>4 DEF MatchHolds, FindInv
<1>9. AheadInv' BY <1>2, <1>6, <1>7 DEF MatchHolds, AheadInv, Carrying
<1>10. TriggerInv' BY <1>2, <1>6, <1>7 DEF MatchHolds, TriggerInv, Carrying
<1>11. RecordInv'
  <2>1. \A o \in Flying' : frameId[o] # frameId[i]
    BY <1>5, <1>6 DEF MatchHolds, RecordInv
  <2>2. \A o \in Flying' :
          \/ rawThread.pc \in {"back", "repeat"} /\ o = capture.out /\ o = rawThread.out
          \/ \E r \in Range(isp_capture_repeat_list') : viId[r] = frameId[o]
    BY <1>6, <1>7, <1>8, <2>1 DEF MatchHolds, RecordInv
  <2> QED BY <1>2, <1>6, <1>7, <2>2 DEF MatchHolds, RecordInv
<1>12. FindInv' BY <1>1, <1>2 DEF MatchHolds, FindInv
<1> QED BY <1>9, <1>10, <1>11, <1>12 DEF MatchHolds

LEMMA MatchStep ==
    ASSUME TypeInv, MainInv, FlagInv, RawPlaceInv, InfoInv, OutPlaceInv, NumberInv, MatchInv,
           [Next]_vars
    PROVE  MatchInv'
<1>1. main = "ended" => main' = "ended"
  BY DEF Next, Main, RawCb, IspCb, ViCb, RawThread, CppThread, StreamOn, StreamOff,
       StopUnits, ProcThreadDeinit, ProcThreadJoin, CaptureDeInit, RawFrame, RawCbEmpty,
       RawCbOldest, RawCbFill, IspFrame, IspCbCopy, IspCbOldest, CaptureDone,
       ViCbFlag, ViCbPush, ViCbBack, RawWait, RawCheck, RawGet, RawPeek, RawErase, RawTrigger,
       RawBack, RawRepeat, RawStore, CppWait, CppPop, CppPeek, CppErase, CppPost, CppInDone,
       CppOutDone, vars, ctlVars
<1> SUFFICES ASSUME main' # "ended", "overtook" \notin raced', "recycled" \notin raced'
             PROVE  MatchHolds'
  BY DEF MatchInv
<1>2. main # "ended" /\ "overtook" \notin raced /\ "recycled" \notin raced BY <1>1, RacedGrows
<1>3. InfoHeldInv /\ MatchHolds BY <1>2 DEF InfoInv, MatchInv
<1>4. ~CaptureDeInit BY DEF CaptureDeInit
<1>5. RawCbFill => MatchHolds' BY <1>3, MatchFill
<1>6. RawGet => MatchHolds' BY <1>3, MatchGet
<1>7. RawErase => MatchHolds' BY <1>2, <1>3, MatchRawErase
<1>8. RawTrigger => MatchHolds' BY <1>3, MatchTrigger
<1>9. RawRepeat => MatchHolds' BY <1>2, <1>3, MatchRepeat
<1>10. CppPeek => MatchHolds' BY <1>3, MatchPeek
<1>11. CppErase => MatchHolds' BY <1>3, MatchCppErase
<1> QED BY <1>2, <1>3, <1>4, <1>5, <1>6, <1>7, <1>8, <1>9, <1>10, <1>11, MatchQuiet

-----------------------------------------------------------------------------
(* Everything together. *)

SliceInv == /\ TypeInv /\ MainInv /\ FlagInv /\ RawPlaceInv /\ BackInv /\ FoundInv /\ InfoInv
            /\ OutPlaceInv /\ NumberInv /\ MatchInv

LEMMA SliceInit == Init => SliceInv
<1> SUFFICES ASSUME Init PROVE SliceInv OBVIOUS
<1>1. TypeInv BY TypeInit
<1>2. Range(<<>>) = {} BY DEF Range
<1>3. /\ main = "idle" /\ ~streamOnFlag /\ flag_tirg = 1 /\ ~rawCond /\ ~cppCond
      /\ rawThread = AtWait /\ cppThread = AtWait /\ rawCb = NoRawCb /\ viCb = NoViCb
      /\ ispCb = "idle" /\ capture = NoCapture /\ raced = {} /\ frames = 0
      /\ rawdump_capture_list = <<>> /\ rawdump_capture_back_list = <<>>
      /\ rawdump_capture_origin_list = <<>> /\ isp_capture_list = <<>>
      /\ isp_capture_repeat_list = <<>> /\ isp_capture_origin_list = SetToSeq(Infos)
      /\ vi_capture_list = <<>> /\ rawQueue = <<>> /\ cppIn = {}
      /\ frameId = [b \in Raws \cup Outs |-> 0] /\ viId = [r \in Infos |-> -1]
  BY DEF Init
<1>4. /\ rawThread.pc = "wait" /\ cppThread.pc = "wait" /\ rawCb.pc = "idle"
      /\ viCb.pc = "idle"
  BY <1>3 DEF AtWait, NoRawCb, NoViCb
<1>5. MainInv BY <1>3 DEF MainInv, Idle, ViOn
<1>6. FlagInv BY <1>3, <1>4 DEF FlagInv, Busy, Starting, Noting, LoweredFlagIsAnswered
<1>7. RawPlaceInv
  <2>1. \A b \in Raws : \A w \in 1 .. 6 : ~RawAt(b, w) BY <1>2, <1>3, <1>4 DEF RawAt
  <2>2. IsInjective(rawQueue) BY <1>3 DEF IsInjective
  <2> QED BY <2>1, <2>2 DEF RawPlaceInv
<1>8. BackInv BY <1>3, <1>4 DEF BackInv, Starting
<1>9. FoundInv BY <1>4 DEF FoundInv
<1>10. InfoInv
  <2>1. Range(isp_capture_origin_list) = Infos BY <1>3, SetToSeqRange, SliceAssumption
  <2>2. \A r \in Infos : AtOnce(r, 3)
    BY <1>2, <1>3, <1>4, <2>1 DEF AtOnce, InfoAt, HeldByRaw, HeldByCpp
  <2> QED BY <1>3, <1>4, <2>2 DEF InfoInv, InfoHeldInv, InfoPlaceInv
<1>11. OutPlaceInv
  <2>1. \A o \in Outs : \A w \in 2 .. 7 : ~OutAt(o, w) BY <1>2, <1>3, <1>4 DEF OutAt
  <2> QED BY <2>1 DEF OutPlaceInv
<1>12. NumberInv
  <2>1. Rising(rawdump_capture_list, frameId) BY <1>3 DEF Rising
  <2> QED BY <1>3, <1>4, <2>1 DEF NumberInv
<1>13. MatchInv
  <2>1. Flying = {} BY <1>2, <1>3, <1>4 DEF Flying, OutAt
  <2>2. Rising(isp_capture_repeat_list, viId) BY <1>3 DEF Rising
  <2> QED BY <1>2, <1>3, <1>4, <2>1, <2>2
          DEF MatchInv, MatchHolds, AheadInv, TriggerInv, RecordInv, FindInv, Carrying
<1> QED BY <1>1, <1>5, <1>6, <1>7, <1>8, <1>9, <1>10, <1>11, <1>12, <1>13 DEF SliceInv

LEMMA SliceStep == ASSUME SliceInv, [Next]_vars PROVE SliceInv'
BY TypeStep, MainStep, FlagStep, RawPlaceStep, BackStep, FoundStep, InfoStep, OutPlaceStep,
   NumberStep, MatchStep
   DEF SliceInv

LEMMA SliceInvariant == Spec => []SliceInv
BY SliceInit, SliceStep, PTL DEF Spec

(* VI reads a raw buffer for a capture alone, unless the raw thread has started that
   capture while VI's callback still gave back the buffers of the last one: RawThread
   against vi_buffer_callback, for any numbers of buffers and frames. *)
THEOREM RawsReadAlone == Spec => []RawReadAlone
<1>1. SliceInv => RawReadAlone BY ReadAlone DEF SliceInv
<1> QED BY <1>1, SliceInvariant, PTL

(* Each frame information record is in one of the lists or with one of the threads,
   and test_buffer_capture_deInit frees it exactly once, unless isp_buffer_callback
   has recycled one while the raw thread was about to take it. *)
THEOREM InfosInOnePlace == Spec => []InfoInOnePlace
<1>1. SliceInv => InfoInOnePlace BY OnePlace DEF SliceInv
<1> QED BY <1>1, SliceInvariant, PTL

(* While the flag is down and the test runs, a capture is under way that will raise
   it, unless VI's callback has overtaken the raw thread. *)
THEOREM LoweredFlagsAnswered == Spec => []LoweredFlagIsAnswered
<1>1. SliceInv => LoweredFlagIsAnswered BY DEF SliceInv, FlagInv
<1> QED BY <1>1, SliceInvariant, PTL

(* cppProcessThreadFunc sends an image to the CPP with the record its capture used,
   found by the frame's number in the repeat list, unless one of the races "overtook"
   and "recycled" has happened. *)
THEOREM CppGetsItsInfo == Spec => []CppHasItsInfo
<1>1. SliceInv => CppHasItsInfo
  <2> SUFFICES ASSUME SliceInv, cppThread.pc = "post",
                      raced \cap {"overtook", "recycled"} = {}
               PROVE  viId[cppThread.info] = frameId[cppThread.in]
    BY DEF CppHasItsInfo
  <2>1. main # "ended" BY DEF SliceInv, MainInv
  <2> QED BY <2>1 DEF SliceInv, MatchInv, MatchHolds, FindInv
<1> QED BY <1>1, SliceInvariant, PTL

(* Neither thread reads through NULL unless a callback has come between its look at
   the lists and its use of them. *)
THEOREM CrashesNeedRaces == Spec => []OnlyRacesCrash
<1>1. SliceInv => OnlyRacesCrash
  <2> SUFFICES ASSUME SliceInv PROVE OnlyRacesCrash OBVIOUS
  <2>1. rawThread.pc = "segv" => raced \cap {"stolen", "recycled"} # {}
    BY DEF SliceInv, FoundInv
  <2>2. cppThread.pc = "segv" => raced \cap {"overtook", "recycled"} # {}
    <3>1. cppThread.pc = "segv" => main # "ended" BY DEF SliceInv, MainInv
    <3> QED BY <3>1 DEF SliceInv, MatchInv, MatchHolds, FindInv
  <2> QED BY <2>1, <2>2 DEF OnlyRacesCrash
<1> QED BY <1>1, SliceInvariant, PTL
=============================================================================
