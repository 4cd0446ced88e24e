----------------------------- MODULE MemoryProofs -----------------------------
(***************************************************************************)
(* Lemmas about GuestMemory, for every window, direct memory, length and   *)
(* alignment, and its inductive invariant MemIInv, which KernelProofs puts *)
(* to use.  An extent or a block is uniform when no page of it differs     *)
(* from the one before it; an unmap's noted ranges stay whole extents,     *)
(* mapped and nobody else's until it ends; and every alias that is         *)
(* recorded lies on pages of mapped extents.                               *)
(***************************************************************************)
EXTENDS GuestMemory, Integers, FiniteSetTheorems, WellFoundedInduction, TLAPS

-----------------------------------------------------------------------------
\* Least and greatest elements.
LEMMA LeastOf ==
  ASSUME NEW S, S \subseteq Nat, S # {}
  PROVE  Min(S) \in S /\ \A y \in S : Min(S) <= y
<1> DEFINE R == OpToRel(<, Nat)
<1>1. IsWellFoundedOn(R, Nat)
  BY NatLessThanWellFounded
<1>2. \A x, y \in Nat : <<y, x>> \in R <=> y < x
  BY DEF OpToRel
<1> HIDE DEF R
<1>3. PICK x \in S : \A y \in S : ~(<<y, x>> \in R)
  BY <1>1, WFMin
<1>4. ASSUME NEW y \in S PROVE x <= y
  <2>1. x \in Nat /\ y \in Nat /\ ~(<<y, x>> \in R)
    BY <1>3
  <2>2. ~(y < x)
    BY <1>2, <2>1
  <2> QED  BY <2>1, <2>2
<1>5. QED
  BY <1>3, <1>4 DEF Min

\* The greatest element of a bounded set is in it.
LEMMA GreatestOf ==
  ASSUME NEW n \in Nat, NEW S, S \subseteq 0..n, S # {}
  PROVE  Max(S) \in S /\ \A y \in S : y <= Max(S)
<1> DEFINE U == {n - s : s \in S}
<1>1. U \subseteq Nat /\ U # {}
  <2>1. PICK s \in S : TRUE
    OBVIOUS
  <2>2. n - s \in U
    BY <2>1
  <2>3. \A x \in S : x \in Int /\ 0 <= x /\ x <= n
    OBVIOUS
  <2> QED  BY <2>2, <2>3
<1>2. Min(U) \in U /\ \A y \in U : Min(U) <= y
  <2> HIDE DEF U
  <2> QED  BY <1>1, LeastOf
<1>3. PICK d \in S : Min(U) = n - d
  BY <1>2
<1>4. \A e \in S : d >= e
  <2>1. SUFFICES ASSUME NEW e \in S PROVE d >= e
    OBVIOUS
  <2>2. n - e \in U
    OBVIOUS
  <2>3. n - d <= n - e
    BY <1>2, <1>3, <2>2
  <2> QED  BY <2>3
<1>5. Max(S) \in S /\ \A y \in S : Max(S) >= y
  BY <1>3, <1>4 DEF Max
<1> QED  BY <1>5

\* A member that is below all others is the least.
LEMMA MinIs == ASSUME NEW S, S \subseteq Nat, NEW m \in S, \A y \in S : m <= y PROVE Min(S) = m
<1>1. Min(S) \in S /\ \A y \in S : Min(S) <= y
  BY LeastOf
<1>2. Min(S) <= m /\ m <= Min(S) /\ Min(S) \in Nat /\ m \in Nat
  BY <1>1
<1>3. QED
  BY <1>2

\* A whole number of units that is enough, and no less.
LEMMA AlignUpEnough ==
  ASSUME NEW a \in Nat, NEW al \in Nat \ {0}
  PROVE  AlignUp(a, al) \in Nat /\ AlignUp(a, al) >= a
<1> DEFINE q == (a + al - 1) \div al
<1>1. a + al - 1 \in Nat /\ q \in Nat
  OBVIOUS
<1>2. al * q <= a + al - 1 /\ a + al - 1 < al * (q + 1)
  OBVIOUS
<1>3. q * al \in Nat /\ q * al = al * q /\ al * (q + 1) = al * q + al
  BY <1>1
<1> HIDE DEF q
<1>4. q * al >= a
  BY <1>1, <1>2, <1>3
<1>5. QED
  BY <1>3, <1>4 DEF AlignUp, q

-----------------------------------------------------------------------------
\* The extents: a page belongs to the last start before it.
LEMMA ExtentIs ==
  ASSUME NEW S, S \subseteq Pages, NEW s \in S
  PROVE  /\ ExtentOf(S, s) = {p \in Pages : s <= p /\ \A e \in S : e <= s \/ p < e}
         /\ \E b \in Pages : s <= b /\ ExtentOf(S, s) = s..b /\ (b = VmPages \/ b + 1 \in S)
<1> DEFINE T == {VmPages + 1} \cup {e \in S : e > s}
           m == Min(T)
<1>0. VmPages \in Nat /\ s \in Nat /\ s <= VmPages /\ s >= 1
  BY VmAssumption DEF Pages
<1>1. T \subseteq Nat /\ T # {} /\ s \in Nat /\ VmPages \in Nat
  <2>1. VmPages + 1 \in T /\ VmPages + 1 \in Nat
    BY <1>0
  <2>2. \A e \in S : e \in Nat
    BY DEF Pages
  <2> QED  BY <1>0, <2>1, <2>2
<1>2. m \in T /\ \A y \in T : m <= y
  <2> HIDE DEF T
  <2> QED  BY <1>1, LeastOf
<1>3. m \in Nat /\ m <= VmPages + 1 /\ s < m
  BY <1>1, <1>2 DEF Pages
<1>4. ExtentOf(S, s) = s..m - 1
  BY DEF ExtentOf
<1>5. \A p \in Pages : p < m <=> \A e \in S : e <= s \/ p < e
  <2>1. ASSUME NEW p \in Pages, p < m, NEW e \in S PROVE e <= s \/ p < e
    <3>1. e \in Nat /\ p \in Nat
      BY DEF Pages
    <3>2. e > s => m <= e
      BY <1>2
    <3> QED  BY <1>1, <1>3, <2>1, <3>1, <3>2
  <2>2. ASSUME NEW p \in Pages, \A e \in S : e <= s \/ p < e PROVE p < m
    <3>1. p \in Nat /\ p <= VmPages
      BY <1>0 DEF Pages
    <3>2. CASE m = VmPages + 1
      BY <1>0, <3>1, <3>2
    <3>3. CASE m \in S
      BY <1>3, <2>2, <3>3, <3>1
    <3> QED  BY <1>2, <3>2, <3>3
  <2> QED  BY <2>1, <2>2
<1>6. \A p : p \in s..m - 1 => p \in Pages
  BY <1>1, <1>3 DEF Pages
<1>7. \A p \in Pages : p \in s..m - 1 <=> s <= p /\ p < m
  BY <1>1, <1>3 DEF Pages
<1>8. m - 1 \in Pages /\ s <= m - 1 /\ (m - 1 = VmPages \/ (m - 1) + 1 \in S)
  BY <1>1, <1>2, <1>3 DEF Pages
<1> HIDE DEF m
<1>9. QED
  BY <1>4, <1>5, <1>6, <1>7, <1>8

\* What is known of the starts.
StartsOK == 1 \in vm_start /\ vm_start \subseteq Pages

\* A page is in exactly one extent.
LEMMA ExtentAtIs ==
  ASSUME StartsOK, NEW p \in Pages
  PROVE  ExtentAt(p) \in vm_start /\ p \in Extent(ExtentAt(p)) /\ \A s \in vm_start : p \in Extent(s) => ExtentAt(p) = s
<1> DEFINE T == {s \in vm_start : s <= p}
<1>1. T \subseteq 0..VmPages /\ T # {} /\ VmPages \in Nat
  <2>1. VmPages \in Nat /\ 1 \in T
    BY VmAssumption DEF StartsOK, Pages
  <2>2. \A s \in T : s \in 0..VmPages
    BY <2>1 DEF StartsOK, Pages
  <2> QED  BY <2>1, <2>2
<1>2. ExtentAt(p) = Max(T) /\ Max(T) \in T /\ \A y \in T : y <= Max(T)
  <2>1. ExtentAt(p) = Max(T)
    BY DEF ExtentAt
  <2> HIDE DEF T
  <2> QED  BY <1>1, <2>1, GreatestOf
<1>3. ExtentAt(p) \in vm_start /\ ExtentAt(p) <= p /\ \A e \in vm_start : e <= ExtentAt(p) \/ p < e
  BY <1>2 DEF StartsOK, Pages
<1>4. \A s \in vm_start : Extent(s) = {q \in Pages : s <= q /\ \A e \in vm_start : e <= s \/ q < e}
  BY ExtentIs DEF Extent, StartsOK
<1>5. ASSUME NEW s \in vm_start, p \in Extent(s) PROVE ExtentAt(p) = s
  <2>1. s <= p /\ (ExtentAt(p) <= s \/ p < ExtentAt(p)) /\ (s <= ExtentAt(p) \/ p < s)
    BY <1>3, <1>4, <1>5
  <2>2. s \in Nat /\ ExtentAt(p) \in Nat /\ p \in Nat
    BY <1>1, <1>3 DEF StartsOK, Pages
  <2> QED  BY <1>3, <2>1, <2>2
<1>6. QED
  BY <1>3, <1>4, <1>5

\* Extents are uniform when no page differs from the one before it that does
\* not start one.
Uniform == \A p \in Pages : p \notin vm_start => vm_name[p] = vm_name[p - 1]

\* That is what ExtentsUniform says of whole extents.
LEMMA UniformExtents ==
  ASSUME StartsOK, vm_name = [p \in Pages |-> vm_name[p]]
  PROVE  Uniform <=> \A s \in vm_start : \A p \in Extent(s) : vm_name[p] = vm_name[s]
<1>0. VmPages \in Nat
  BY VmAssumption
<1>1. \A s \in vm_start : Extent(s) = {q \in Pages : s <= q /\ \A e \in vm_start : e <= s \/ q < e}
  BY ExtentIs DEF Extent, StartsOK
<1>2. ASSUME Uniform, NEW s \in vm_start PROVE \A p \in Extent(s) : vm_name[p] = vm_name[s]
  <2> DEFINE T == {p \in Extent(s) : vm_name[p] # vm_name[s]}
  <2>1. CASE T = {}
    BY <2>1
  <2>2. CASE T # {}
    <3>1. T \subseteq Nat
      BY <1>1 DEF Pages
    <3>2. Min(T) \in T /\ \A y \in T : Min(T) <= y
      <4> HIDE DEF T
      <4> QED  BY <2>2, <3>1, LeastOf
    <3>3. PICK p \in Extent(s) : vm_name[p] # vm_name[s] /\ \A y \in T : p <= y
      BY <3>2
    <3>4. p \in Pages /\ s <= p /\ p # s /\ s \in Nat /\ s >= 1 /\ p \in Nat
      BY <1>1, <3>3 DEF StartsOK, Pages
    <3>5. p - 1 \in Pages /\ s <= p - 1 /\ p - 1 \in Nat
      BY <1>0, <3>4 DEF Pages
    <3>6. \A e \in vm_start : e <= s \/ p - 1 < e
      BY <1>1, <3>3, <3>4 DEF StartsOK, Pages
    <3>7. p - 1 \in Extent(s)
      BY <1>1, <3>5, <3>6
    <3>8. p \notin vm_start
      BY <1>1, <3>3, <3>4
    <3>9. vm_name[p - 1] # vm_name[s]
      BY <1>2, <3>3, <3>4, <3>8 DEF Uniform
    <3>10. p <= p - 1
      BY <3>3, <3>7, <3>9
    <3>11. QED
      BY <3>4, <3>10
  <2>3. QED
    BY <2>1, <2>2
<1>3. ASSUME \A s \in vm_start : \A p \in Extent(s) : vm_name[p] = vm_name[s], NEW p \in Pages, p \notin vm_start
      PROVE  vm_name[p] = vm_name[p - 1]
  <2>1. ExtentAt(p) \in vm_start /\ p \in Extent(ExtentAt(p))
    BY ExtentAtIs
  <2>2. ExtentAt(p) \in Nat /\ ExtentAt(p) >= 1 /\ p \in Nat /\ ExtentAt(p) <= p /\ ExtentAt(p) # p
    BY <1>1, <1>3, <2>1 DEF StartsOK, Pages
  <2>3. p - 1 \in Pages /\ ExtentAt(p) <= p - 1
    BY <1>0, <2>2 DEF Pages
  <2>4. \A e \in vm_start : e <= ExtentAt(p) \/ p - 1 < e
    BY <1>1, <2>1, <2>2 DEF StartsOK, Pages
  <2>5. p - 1 \in Extent(ExtentAt(p))
    BY <1>1, <2>1, <2>3, <2>4
  <2>6. QED
    BY <1>3, <2>1, <2>5
<1>4. QED
  BY <1>2, <1>3 DEF Uniform

\* What pages an extent has.
LEMMA ExtentHas ==
  ASSUME StartsOK, NEW s \in vm_start
  PROVE  /\ Extent(s) \subseteq Pages /\ s \in Extent(s)
         /\ \A p \in Pages : p \in Extent(s) <=> (s <= p /\ \A e \in vm_start : e <= s \/ p < e)
<1>1. Extent(s) = {q \in Pages : s <= q /\ \A e \in vm_start : e <= s \/ q < e}
  BY ExtentIs DEF Extent, StartsOK
<1>2. s \in Nat /\ s \in Pages /\ vm_start \subseteq Nat
  BY DEF StartsOK, Pages
<1>3. \A e \in vm_start : e <= s \/ s < e
  BY <1>2
<1>4. QED
  BY <1>1, <1>2, <1>3

\* The page before one that starts no extent is in the same extent.
LEMMA BackWithin ==
  ASSUME StartsOK, NEW s \in vm_start, NEW p \in Pages, p \notin vm_start
  PROVE  p - 1 \in Pages /\ (p \in Extent(s) <=> p - 1 \in Extent(s))
<1>0. VmPages \in Nat /\ \A x \in Pages : x \in Nat /\ x >= 1 /\ x <= VmPages
  BY VmAssumption DEF Pages
<1>1. 1 \in vm_start /\ vm_start \subseteq Pages
  BY DEF StartsOK
<1>2. p # 1 /\ p \in Nat /\ s \in Nat /\ s # p
  BY <1>0, <1>1
<1>3. p - 1 \in Pages
  BY <1>0, <1>2 DEF Pages
<1>4. \A e \in vm_start : p < e <=> p - 1 < e
  <2>1. \A e \in vm_start : e \in Nat /\ e # p
    BY <1>0, <1>1
  <2> QED  BY <1>2, <2>1
<1>5. s <= p <=> s <= p - 1
  BY <1>2
<1> QED  BY <1>3, <1>4, <1>5, ExtentHas
-----------------------------------------------------------------------------
VmNames == {"free", "mapped", "reserved", "pool_reserved"}
VmCalls == [at : {"idle", "detach"}, range : SUBSET Pages, noted : SUBSET (SUBSET Pages), todo : SUBSET (SUBSET Pages)]
VmTypes ==
  /\ StartsOK /\ vm_name \in [Pages -> VmNames] /\ vm_gen \in {0, 1}
  /\ vm_freeing \in [VmThreads -> VmCalls]

\* Pages from a on that one extent has: VmTake keeps the extents uniform.
Room(a, n) == a \in Pages /\ n \in Nat \ {0} /\ Span(a, n) \subseteq Extent(ExtentAt(a))

\* What VmTake does to the pages of that extent and to the others.
LEMMA TakeUniform ==
  ASSUME VmTypes, Uniform, NEW a, NEW n, Room(a, n), NEW name \in VmNames, VmTake(a, n, name)
  PROVE  /\ VmTypes' /\ Uniform' /\ vm_gen' # vm_gen /\ vm_freeing' = vm_freeing
         /\ vm_start \subseteq vm_start'
         /\ \A p \in vm_start' \ vm_start : p \in Extent(ExtentAt(a))
         /\ \A p \in Span(a, n) : vm_name'[p] = name
         /\ \A p \in Extent(ExtentAt(a)) \ Span(a, n) : vm_name'[p] = "free"
         /\ \A p \in Pages \ Extent(ExtentAt(a)) : vm_name'[p] = vm_name[p]
<1> DEFINE W == Extent(ExtentAt(a))
           q == a + n
<1>0. VmPages \in Nat /\ a \in Nat /\ n \in Nat /\ n >= 1 /\ a >= 1 /\ StartsOK
  BY VmAssumption DEF Room, Pages, VmTypes
<1>1. ExtentAt(a) \in vm_start /\ a \in W
  BY <1>0, ExtentAtIs DEF Room
<1>2. W \subseteq Pages /\ \A p \in Pages : p \in W <=> (ExtentAt(a) <= p /\ \A e \in vm_start : e <= ExtentAt(a) \/ p < e)
  BY <1>0, <1>1, ExtentHas
<1>3. \A p \in Pages : p \in Span(a, n) <=> a <= p /\ p < q
  BY <1>0 DEF Span, Pages
<1>4. \A p \in Span(a, n) : p \in W
  BY DEF Room
<1>5. vm_name' = [p \in Pages |-> IF p \in Span(a, n) THEN name ELSE IF p \in W THEN "free" ELSE vm_name[p]]
  BY DEF VmTake
<1>6. vm_start' = vm_start \cup ({a, q} \cap W) /\ vm_freeing' = vm_freeing
  BY DEF VmTake
<1>7. vm_gen' = 1 - vm_gen
  BY DEF VmTake, recomp_vm_note_change
<1>8. VmTypes' /\ vm_gen' # vm_gen
  <2>1. StartsOK'
    BY <1>0, <1>2, <1>6 DEF StartsOK
  <2>2. vm_name' \in [Pages -> VmNames]
    BY <1>5 DEF VmTypes, VmNames
  <2>3. vm_gen' \in {0, 1} /\ vm_gen' # vm_gen
    BY <1>7 DEF VmTypes
  <2>4. QED
    BY <1>6, <2>1, <2>2, <2>3 DEF VmTypes
\* A page and the one before it are in the extent together, or one starts one.
<1>9. ASSUME NEW p \in Pages, p \notin vm_start PROVE p - 1 \in Pages /\ (p \in W <=> p - 1 \in W)
  BY <1>0, <1>1, <1>9, BackWithin
<1>10. Uniform'
  <2>1. SUFFICES ASSUME NEW p \in Pages, p \notin vm_start' PROVE vm_name'[p] = vm_name'[p - 1]
    BY DEF Uniform
  <2>2. p \notin vm_start /\ (p \in W => p # a /\ p # q)
    BY <1>6, <2>1
  <2>3. p - 1 \in Pages /\ (p \in W <=> p - 1 \in W) /\ vm_name[p] = vm_name[p - 1]
    BY <1>9, <2>2 DEF Uniform
  <2>4. p \in W => (p \in Span(a, n) <=> p - 1 \in Span(a, n))
    <3>1. p \in Nat /\ q \in Nat
      BY <1>0 DEF Pages
    <3>2. QED
      BY <1>0, <1>3, <2>2, <2>3, <3>1
  <2>5. CASE p \in W
    BY <1>5, <2>3, <2>4, <2>5
  <2>6. CASE p \notin W
    BY <1>4, <1>5, <2>3, <2>6
  <2>7. QED
    BY <2>5, <2>6
<1>11. QED
  BY <1>2, <1>4, <1>5, <1>6, <1>8, <1>10

\* What the allocator finds has room.
Taken(a, n) ==
  /\ Room(a, n)
  /\ LET s == ExtentAt(a)
     IN  vm_name[s] = "free" \/ (Reservation(s) /\ (MapWhileFreed \/ ~BeingFreed(s)))

\* A fixed address is only taken with room for all pages.
LEMMA FixedTaken ==
  ASSUME VmTypes, NEW a \in 0..VmPages, a # 0, NEW n \in Nat \ {0}, FixedFits(a, n)
  PROVE  Taken(a, n)
  BY VmAssumption DEF FixedFits, Taken, Room, Pages, Reservation

\* So is the best fit.
LEMMA BestFitTaken ==
  ASSUME VmTypes, NEW n \in Nat \ {0}, NEW al \in Nat \ {0}, NEW any, NEW a \in BestFit(n, al, any)
  PROVE  Taken(a, n)
<1>1. PICK s \in Fits(n, al) : a = AlignUp(s, al)
  BY DEF BestFit, Smallest
<1>2. s \in vm_start /\ vm_name[s] = "free" /\ Span(a, n) \subseteq Extent(s) /\ s \in Nat
  BY <1>1 DEF Fits, VmTypes, StartsOK, Pages
<1>3. a \in Nat
  BY <1>1, <1>2, AlignUpEnough
<1>4. a \in Span(a, n)
  BY <1>3 DEF Span
<1>5. a \in Extent(s) /\ a \in Pages
  BY <1>2, <1>4, ExtentHas DEF VmTypes
<1>6. ExtentAt(a) = s
  BY <1>2, <1>5, ExtentAtIs DEF VmTypes
<1>7. QED
  BY <1>2, <1>5, <1>6 DEF Taken, Room

\* And either one.
LEMMA PlacesTaken ==
  ASSUME VmTypes, NEW req \in 0..VmPages, NEW n \in Nat \ {0}, NEW al \in Nat \ {0}, NEW a \in Places(req, n, al)
  PROVE  Taken(a, n)
  BY FixedTaken, BestFitTaken DEF Places

\* Lengths are rounded up to a positive length.
LEMMA LengthUp ==
  ASSUME NEW n \in VmLengths, NEW al \in VmAligns
  PROVE  AlignUp(n, al) \in Nat \ {0} /\ AlignUp(n, al) >= n /\ al \in Nat \ {0} /\ n \in Nat \ {0}
<1>1. n \in Nat \ {0} /\ al \in Nat \ {0}
  BY VmAssumption
<1>2. QED
  BY <1>1, AlignUpEnough

-----------------------------------------------------------------------------
\* The steps on extents keep them uniform, and a page changes only with the
\* generation.
VmKept == VmTypes' /\ Uniform' /\ (vm_name' # vm_name => vm_gen' # vm_gen)

\* VmMap takes pages of one extent.
LEMMA MapKeeps ==
  ASSUME VmTypes, Uniform, VmMap
  PROVE  \E a \in Pages, n \in Nat \ {0}, name \in VmNames : Taken(a, n) /\ VmTake(a, n, name)
<1>1. PICK req \in 0..VmPages, n \in VmLengths, al \in VmAligns, name \in {"mapped", "reserved"} :
        \E a \in Places(req, AlignUp(n, al), al) : VmTake(a, AlignUp(n, al), name)
  BY DEF VmMap
<1>2. PICK a \in Places(req, AlignUp(n, al), al) : VmTake(a, AlignUp(n, al), name)
  BY <1>1
<1>3. AlignUp(n, al) \in Nat \ {0} /\ al \in Nat \ {0}
  BY LengthUp
<1>4. Taken(a, AlignUp(n, al))
  BY <1>3, PlacesTaken
<1>5. a \in Pages
  BY <1>4 DEF Taken, Room
<1> QED  BY <1>2, <1>3, <1>4, <1>5 DEF VmNames

\* So does sceKernelMemoryPoolReserve.
LEMMA ReserveKeeps ==
  ASSUME VmTypes, Uniform, sceKernelMemoryPoolReserve
  PROVE  \E a \in Pages, n \in Nat \ {0}, name \in VmNames : Taken(a, n) /\ VmTake(a, n, name)
<1>1. PICK req \in 0..VmPages, n \in VmLengths, al \in VmAligns :
        \E a \in IF req = 0 THEN BestFit(AlignUp(n, al), al, TRUE) ELSE {p \in {req} : FixedFits(p, AlignUp(n, al))} :
           VmTake(a, AlignUp(n, al), "pool_reserved")
  BY DEF sceKernelMemoryPoolReserve
<1>2. PICK a \in IF req = 0 THEN BestFit(AlignUp(n, al), al, TRUE) ELSE {p \in {req} : FixedFits(p, AlignUp(n, al))} :
         VmTake(a, AlignUp(n, al), "pool_reserved")
  BY <1>1
<1>3. AlignUp(n, al) \in Nat \ {0} /\ al \in Nat \ {0}
  BY LengthUp
<1>4. Taken(a, AlignUp(n, al))
  <2>1. CASE req = 0
    BY <1>2, <1>3, <2>1, BestFitTaken
  <2>2. CASE req # 0
    BY <1>2, <1>3, <2>2, FixedTaken
  <2> QED  BY <2>1, <2>2
<1>5. a \in Pages
  BY <1>4 DEF Taken, Room
<1> QED  BY <1>2, <1>3, <1>4, <1>5 DEF VmNames

\* Splitting only adds starts.
LEMMA SplitAdds ==
  ASSUME VmTypes, NEW a, NEW n
  PROVE  /\ vm_start \subseteq SplitRange(a, n) /\ SplitRange(a, n) \subseteq Pages
         /\ \A p \in SplitRange(a, n) \ vm_start : vm_name[p] # "free"
  BY DEF SplitRange, recomp_vm_split_extent_at, VmTypes, StartsOK

\* A step that only adds starts keeps the extents uniform.
LEMMA MoreStarts ==
  ASSUME VmTypes, Uniform, vm_start \subseteq vm_start', vm_start' \subseteq Pages, UNCHANGED <<vm_name, vm_gen>>,
         vm_freeing' \in [VmThreads -> VmCalls]
  PROVE  VmKept
<1>1. VmTypes' /\ vm_name' = vm_name
  BY DEF VmTypes, StartsOK
<1>2. Uniform'
  BY DEF Uniform
<1> QED  BY <1>1, <1>2 DEF VmKept

\* The first phase of an unmap splits and notes.
LEMMA FreeKeeps ==
  ASSUME VmTypes, Uniform, NEW t \in VmThreads, recomp_vm_free(t)
  PROVE  VmKept
<1>1. PICK a \in Pages, n \in Pages :
        LET cut == SplitRange(a, n)
            noted == {r \in {ExtentOf(cut, s) : s \in {s \in cut : vm_name[s] # "free"}} : r \subseteq Span(a, n)}
        IN  /\ a + n <= VmPages + 1
            /\ vm_start' = cut
            /\ vm_freeing' = IF noted = {} THEN vm_freeing
                             ELSE [vm_freeing EXCEPT ![t] = [at |-> "detach", range |-> Span(a, n),
                                                             noted |-> noted, todo |-> noted]]
  BY DEF recomp_vm_free
<1> DEFINE cut == SplitRange(a, n)
           noted == {r \in {ExtentOf(cut, s) : s \in {s \in cut : vm_name[s] # "free"}} : r \subseteq Span(a, n)}
<1>2. vm_start \subseteq cut /\ cut \subseteq Pages
  BY SplitAdds
<1>3. Span(a, n) \subseteq Pages
  BY <1>1, VmAssumption DEF Span, Pages
<1>4. noted \subseteq SUBSET Pages
  BY <1>3
<1>5. vm_freeing' \in [VmThreads -> VmCalls]
  <2>1. [at |-> "detach", range |-> Span(a, n), noted |-> noted, todo |-> noted] \in VmCalls
    <3> HIDE DEF noted
    <3> QED  BY <1>3, <1>4 DEF VmCalls
  <2>2. vm_freeing' = vm_freeing \/ vm_freeing' = [vm_freeing EXCEPT ![t] = [at |-> "detach", range |-> Span(a, n), noted |-> noted, todo |-> noted]]
    BY <1>1
  <2> HIDE DEF noted
  <2>3. QED
    BY <2>1, <2>2 DEF VmTypes
<1>6. vm_start' = cut /\ UNCHANGED <<vm_name, vm_gen>>
  BY <1>1 DEF recomp_vm_free
<1> HIDE DEF cut
<1> QED  BY <1>2, <1>5, <1>6, MoreStarts

\* Detaching changes no extent.
LEMMA DetachKeeps ==
  ASSUME VmTypes, Uniform, NEW t \in VmThreads, NEW r \in vm_freeing[t].todo, VmDetach(t, r)
  PROVE  VmKept
<1>1. vm_freeing' = [vm_freeing EXCEPT ![t].todo = vm_freeing[t].todo \ {r}] /\ UNCHANGED <<vm_start, vm_name, vm_gen>>
  BY DEF VmDetach
<1>2. vm_freeing' \in [VmThreads -> VmCalls]
  BY <1>1 DEF VmTypes, VmCalls
<1>3. vm_start' \subseteq Pages /\ vm_start \subseteq vm_start'
  BY <1>1 DEF VmTypes, StartsOK
<1> QED  BY <1>1, <1>2, <1>3, MoreStarts

\* A change of memory type splits.
LEMMA ProtectKeeps ==
  ASSUME VmTypes, Uniform, sceKernelMtypeprotect
  PROVE  VmKept
<1>1. PICK a \in Pages, n \in Pages : vm_start' = SplitRange(a, n)
  BY DEF sceKernelMtypeprotect
<1>2. UNCHANGED <<vm_name, vm_gen, vm_freeing>>
  BY DEF sceKernelMtypeprotect
<1>3. vm_freeing' \in [VmThreads -> VmCalls]
  BY <1>2 DEF VmTypes
<1>4. vm_start \subseteq vm_start' /\ vm_start' \subseteq Pages
  BY <1>1, SplitAdds
<1> QED  BY <1>2, <1>3, <1>4, MoreStarts

\* A rename changes whole extents, none that is free.
LEMMA RenameKeeps ==
  ASSUME VmTypes, Uniform, sceKernelSetVirtualRangeName
  PROVE  VmKept /\ \A p \in Pages : (vm_name[p] = "free" <=> vm_name'[p] = "free") /\ vm_name'[p] \in {vm_name[p], "mapped"}
<1>1. PICK a \in Pages, n \in Pages :
        vm_name' = [p \in Pages |-> IF vm_name[p] # "free" /\ Extent(ExtentAt(p)) \cap Span(a, n) # {}
                                    THEN "mapped" ELSE vm_name[p]]
  BY DEF sceKernelSetVirtualRangeName
<1>2. vm_gen' = 1 - vm_gen /\ UNCHANGED <<vm_start, vm_freeing>>
  BY DEF sceKernelSetVirtualRangeName, recomp_vm_note_change
<1>3. VmTypes' /\ vm_gen' # vm_gen
  BY <1>1, <1>2 DEF VmTypes, StartsOK, VmNames
<1>4. Uniform'
  <2>1. SUFFICES ASSUME NEW p \in Pages, p \notin vm_start PROVE vm_name'[p] = vm_name'[p - 1]
    BY <1>2 DEF Uniform
  <2>2. StartsOK
    BY DEF VmTypes
  <2>3. ExtentAt(p) \in vm_start /\ p \in Extent(ExtentAt(p))
    BY <2>2, ExtentAtIs
  <2>4. p - 1 \in Pages /\ p - 1 \in Extent(ExtentAt(p))
    BY <2>1, <2>2, <2>3, BackWithin
  <2>5. ExtentAt(p - 1) = ExtentAt(p)
    BY <2>2, <2>3, <2>4, ExtentAtIs
  <2>6. vm_name[p] = vm_name[p - 1]
    BY <2>1 DEF Uniform
  <2> QED  BY <1>1, <2>4, <2>5, <2>6
<1>5. \A p \in Pages : (vm_name[p] = "free" <=> vm_name'[p] = "free") /\ vm_name'[p] \in {vm_name[p], "mapped"}
  BY <1>1
<1> QED  BY <1>3, <1>4, <1>5 DEF VmKept

\* The end of an unmap: noted pages become free, and starts go between free
\* pages only.
LEMMA EndKeeps ==
  ASSUME VmTypes, Uniform, NEW t \in VmThreads, free_end(t)
  PROVE  /\ VmKept
         /\ \A p \in Pages : vm_name'[p] = vm_name[p] \/ (vm_name'[p] = "free" /\ p \in UNION vm_freeing[t].noted)
         /\ vm_start' \subseteq vm_start
         /\ \A b \in vm_start \ vm_start' : b - 1 \in Pages /\ vm_name'[b] = "free" /\ vm_name'[b - 1] = "free"
         /\ vm_freeing' = [vm_freeing EXCEPT ![t] = NoFree] /\ vm_freeing[t].todo = {}
<1> DEFINE gone == UNION {e \in {Extent(s) : s \in vm_start} : \E r \in vm_freeing[t].noted : e \subseteq r}
           name == [p \in Pages |-> IF p \in gone THEN "free" ELSE vm_name[p]]
           joined == vm_coalesce_free(name, vm_freeing[t].range)
<1>1. vm_name' = name /\ vm_start' = vm_start \ joined /\ vm_gen' = 1 - vm_gen
      /\ vm_freeing' = [vm_freeing EXCEPT ![t] = NoFree] /\ vm_freeing[t].todo = {}
  BY DEF free_end, recomp_vm_note_change
<1>2. StartsOK /\ 1 \in vm_start /\ vm_start \subseteq Pages
  BY DEF VmTypes, StartsOK
<1>3. \A p \in Pages : p \in gone <=> \E s \in vm_start : p \in Extent(s) /\ \E r \in vm_freeing[t].noted : Extent(s) \subseteq r
  OBVIOUS
<1>4. \A p \in Pages : p \in gone => p \in UNION vm_freeing[t].noted
  BY <1>3
<1>5. ASSUME NEW p \in Pages, p \notin vm_start PROVE name[p] = name[p - 1]
  <2>1. p - 1 \in Pages /\ \A s \in vm_start : p \in Extent(s) <=> p - 1 \in Extent(s)
    BY <1>2, <1>5, BackWithin
  <2>2. p \in gone <=> p - 1 \in gone
    BY <1>3, <2>1
  <2>3. vm_name[p] = vm_name[p - 1]
    BY <1>5 DEF Uniform
  <2> HIDE DEF gone
  <2> QED  BY <2>1, <2>2, <2>3
<1>6. ASSUME NEW b \in joined PROVE b \in vm_start /\ b # 1 /\ b - 1 \in Pages /\ name[b] = "free" /\ name[b - 1] = "free"
  <2>1. b \in vm_start /\ \E s \in vm_start : s < b /\ \A p \in s..b : name[p] = "free"
    <3> HIDE DEF name
    <3> QED  BY <1>6 DEF vm_coalesce_free
  <2>2. PICK s \in vm_start : s < b /\ \A p \in s..b : name[p] = "free"
    BY <2>1
  <2>3. \A x \in Pages : x \in Nat /\ x >= 1 /\ x <= VmPages
    BY VmAssumption DEF Pages
  <2>4. s \in Nat /\ b \in Nat /\ s >= 1 /\ b <= VmPages /\ VmPages \in Nat
    BY <1>2, <2>1, <2>3, VmAssumption
  <2>5. b \in s..b /\ b - 1 \in s..b /\ b # 1 /\ b - 1 \in Pages
    BY <2>2, <2>4 DEF Pages
  <2> HIDE DEF name
  <2> QED  BY <2>1, <2>2, <2>5
<1> HIDE DEF gone, joined
<1>7. VmTypes'
  <2>1. vm_name' \in [Pages -> VmNames]
    BY <1>1 DEF VmTypes, VmNames
  <2>2. StartsOK'
    BY <1>1, <1>2, <1>6 DEF StartsOK
  <2>3. vm_gen' \in {0, 1} /\ vm_gen' # vm_gen
    BY <1>1 DEF VmTypes
  <2>4. vm_freeing' \in [VmThreads -> VmCalls]
    BY <1>1 DEF VmTypes, VmCalls, NoFree
  <2> QED  BY <2>1, <2>2, <2>3, <2>4 DEF VmTypes
<1>8. Uniform'
  <2>1. SUFFICES ASSUME NEW p \in Pages, p \notin vm_start' PROVE name[p] = name[p - 1]
    BY <1>1 DEF Uniform
  <2>2. CASE p \notin vm_start
    BY <1>5, <2>2
  <2>3. CASE p \in joined
    BY <1>6, <2>3
  <2> QED  BY <1>1, <2>1, <2>2, <2>3
<1>9. vm_gen' # vm_gen
  BY <1>1 DEF VmTypes
<1>10. \A p \in Pages : vm_name'[p] = vm_name[p] \/ (vm_name'[p] = "free" /\ p \in UNION vm_freeing[t].noted)
  BY <1>1, <1>4
<1>11. \A b \in vm_start \ vm_start' : b - 1 \in Pages /\ vm_name'[b] = "free" /\ vm_name'[b - 1] = "free"
  BY <1>1, <1>6
<1>12. vm_start' \subseteq vm_start
  BY <1>1
<1> QED  BY <1>1, <1>7, <1>8, <1>9, <1>10, <1>11, <1>12 DEF VmKept

\* A step on extents alone.
LEMMA TakeKeeps ==
  ASSUME VmTypes, Uniform, NEW a, NEW n, NEW name \in VmNames, Taken(a, n), VmTake(a, n, name)
  PROVE  VmKept
  BY TakeUniform DEF Taken, VmKept

\* Every step on extents.
LEMMA VmStepKeeps ==
  ASSUME VmTypes, Uniform, VmNext \/ \E t \in VmThreads : \E r \in vm_freeing[t].todo : VmDetach(t, r)
  PROVE  VmKept
<1>1. CASE VmMap
  BY <1>1, MapKeeps, TakeKeeps
<1>2. CASE sceKernelMemoryPoolReserve
  BY <1>2, ReserveKeeps, TakeKeeps
<1>3. CASE sceKernelSetVirtualRangeName
  BY <1>3, RenameKeeps
<1>4. CASE sceKernelMtypeprotect
  BY <1>4, ProtectKeeps
<1>5. CASE \E t \in VmThreads : recomp_vm_free(t) \/ free_end(t)
  BY <1>5, FreeKeeps, EndKeeps
<1>6. CASE \E t \in VmThreads : \E r \in vm_freeing[t].todo : VmDetach(t, r)
  BY <1>6, DetachKeeps
<1> QED  BY <1>1, <1>2, <1>3, <1>4, <1>5, <1>6 DEF VmNext

-----------------------------------------------------------------------------
(* Unmapping: what a call noted stays mapped and its own until it ends,    *)
(* when nothing is mapped into a reservation that is being unmapped.       *)
Whole(r) ==
  \E a, b \in Pages : a <= b /\ r = a..b /\ a \in vm_start /\ (b = VmPages \/ b + 1 \in vm_start)
FreeingInv ==
  \A t \in VmThreads :
    /\ vm_freeing[t].at = "idle" => vm_freeing[t] = NoFree
    /\ vm_freeing[t].todo \subseteq vm_freeing[t].noted
    /\ \A r \in vm_freeing[t].noted :
         Whole(r) /\ r \subseteq vm_freeing[t].range /\ \A g \in r : vm_name[g] # "free"
    /\ \A u \in VmThreads \ {t} : vm_freeing[t].range \cap vm_freeing[u].range = {}

\* An extent that has a page of a noted range is all in it.
LEMMA WholeExtents ==
  ASSUME StartsOK, NEW r, Whole(r), NEW s \in vm_start, NEW g \in r, g \in Extent(s)
  PROVE  Extent(s) \subseteq r /\ s \in r
<1>1. PICK a \in Pages, b \in Pages : a <= b /\ r = a..b /\ a \in vm_start /\ (b = VmPages \/ b + 1 \in vm_start)
  BY DEF Whole
<1>2. VmPages \in Nat /\ \A x \in Pages : x \in Nat /\ x >= 1 /\ x <= VmPages
  BY VmAssumption DEF Pages
<1>3. Extent(s) \subseteq Pages /\ s \in Extent(s)
      /\ \A p \in Pages : p \in Extent(s) <=> (s <= p /\ \A e \in vm_start : e <= s \/ p < e)
  BY ExtentHas
<1>4. s \in Pages /\ g \in Pages /\ a <= g /\ g <= b
  BY <1>1, <1>3
<1>5. a <= s
  <2>1. a <= s \/ g < a
    BY <1>1, <1>3, <1>4
  <2> QED  BY <1>2, <1>4, <2>1
<1>6. ASSUME NEW p \in Extent(s) PROVE p \in r
  <2>1. p \in Pages /\ s <= p
    BY <1>3
  <2>2. p <= b
    <3>1. CASE b = VmPages
      BY <1>2, <2>1, <3>1
    <3>2. CASE b + 1 \in vm_start
      <4>1. b + 1 <= s \/ p < b + 1
        BY <1>3, <2>1, <3>2
      <4>2. s <= g
        BY <1>3, <1>4
      <4> QED  BY <1>2, <1>4, <2>1, <4>1, <4>2
    <3> QED  BY <1>1, <3>1, <3>2
  <2> QED  BY <1>1, <1>2, <1>4, <1>5, <2>1, <2>2
<1> QED  BY <1>3, <1>6

\* A step that takes no start away and frees no noted page.
LEMMA FreeingSame ==
  ASSUME FreeingInv, vm_start \subseteq vm_start', vm_freeing' = vm_freeing,
         \A t \in VmThreads : \A r \in vm_freeing[t].noted : \A g \in r : vm_name'[g] # "free"
  PROVE  FreeingInv'
<1>1. \A r : Whole(r) => Whole(r)'
  BY DEF Whole
<1> QED  BY <1>1 DEF FreeingInv

\* Pages noted by nobody are taken.
LEMMA TakenUnnoted ==
  ASSUME VmTypes, FreeingInv, ~MapWhileFreed, Uniform, NEW a, NEW n, Taken(a, n),
         NEW t \in VmThreads, NEW r \in vm_freeing[t].noted
  PROVE  r \cap Extent(ExtentAt(a)) = {}
<1>1. SUFFICES ASSUME NEW g \in r, g \in Extent(ExtentAt(a)) PROVE FALSE
  OBVIOUS
<1>2. StartsOK /\ ExtentAt(a) \in vm_start
  BY ExtentAtIs DEF VmTypes, Taken, Room
<1>3. Whole(r) /\ \A p \in r : vm_name[p] # "free"
  BY DEF FreeingInv
<1>4. ExtentAt(a) \in r
  BY <1>1, <1>2, <1>3, WholeExtents
<1>5. BeingFreed(ExtentAt(a))
  BY <1>4 DEF BeingFreed
<1> QED  BY <1>3, <1>4, <1>5 DEF Taken

\* Taking pages leaves what is noted alone.
LEMMA TakeFreeing ==
  ASSUME VmTypes, Uniform, FreeingInv, ~MapWhileFreed, NEW a, NEW n, NEW name \in VmNames, Taken(a, n), VmTake(a, n, name)
  PROVE  FreeingInv'
<1>1. /\ vm_freeing' = vm_freeing /\ vm_start \subseteq vm_start'
      /\ \A p \in Pages \ Extent(ExtentAt(a)) : vm_name'[p] = vm_name[p]
  BY TakeUniform DEF Taken
<1>2. ASSUME NEW t \in VmThreads, NEW r \in vm_freeing[t].noted, NEW g \in r PROVE vm_name'[g] # "free"
  <2>1. r \cap Extent(ExtentAt(a)) = {}
    BY TakenUnnoted
  <2>2. r \subseteq Pages
    BY DEF VmTypes, VmCalls
  <2>3. vm_name[g] # "free"
    BY DEF FreeingInv
  <2> QED  BY <1>1, <2>1, <2>2, <2>3
<1> QED  BY <1>1, <1>2, FreeingSame

\* After a split an extent's pages are still what its first page is.
LEMMA CutNonfree ==
  ASSUME VmTypes, Uniform, NEW S, vm_start \subseteq S, S \subseteq Pages, NEW s \in S, NEW g \in ExtentOf(S, s)
  PROVE  g \in Pages /\ vm_name[g] = vm_name[s]
<1>1. g \in Pages /\ s <= g /\ \A e \in S : e <= s \/ g < e
  BY ExtentIs
<1>2. StartsOK /\ s \in Pages /\ ExtentAt(s) \in vm_start /\ s \in Extent(ExtentAt(s))
  BY ExtentAtIs DEF VmTypes
<1>3. ExtentAt(s) <= s /\ \A e \in vm_start : e <= ExtentAt(s) \/ s < e
  BY <1>2, ExtentHas
<1>4. ExtentAt(s) <= g /\ \A e \in vm_start : e <= ExtentAt(s) \/ g < e
  <2>1. \A x \in Pages : x \in Nat
    BY VmAssumption DEF Pages
  <2>2. \A e \in vm_start : e \in Nat
    BY <1>2, <2>1 DEF StartsOK
  <2> QED  BY <1>1, <1>2, <1>3, <2>1, <2>2
<1>5. g \in Extent(ExtentAt(s))
  BY <1>1, <1>2, <1>4, ExtentHas
<1>6. \A e \in vm_start : \A p \in Extent(e) : vm_name[p] = vm_name[e]
  BY <1>2, UniformExtents DEF VmTypes
<1> QED  BY <1>1, <1>2, <1>5, <1>6

\* What an unmap notes is whole, mapped and its own.
LEMMA FreeFreeing ==
  ASSUME VmTypes, Uniform, FreeingInv, NEW t \in VmThreads, recomp_vm_free(t)
  PROVE  /\ FreeingInv' /\ vm_name' = vm_name
         /\ \A u \in VmThreads : vm_freeing'[u] = vm_freeing[u] \/ vm_freeing'[u].todo = vm_freeing'[u].noted
<1>1. PICK a \in Pages, n \in Pages :
        LET cut == SplitRange(a, n)
            noted == {r \in {ExtentOf(cut, s) : s \in {s \in cut : vm_name[s] # "free"}} : r \subseteq Span(a, n)}
        IN  /\ a + n <= VmPages + 1
            /\ \A u \in VmThreads : vm_freeing[u].range \cap Span(a, n) = {}
            /\ vm_start' = cut
            /\ vm_freeing' = IF noted = {} THEN vm_freeing
                             ELSE [vm_freeing EXCEPT ![t] = [at |-> "detach", range |-> Span(a, n),
                                                             noted |-> noted, todo |-> noted]]
  BY DEF recomp_vm_free
<1> DEFINE cut == SplitRange(a, n)
           noted == {r \in {ExtentOf(cut, s) : s \in {s \in cut : vm_name[s] # "free"}} : r \subseteq Span(a, n)}
           call == [at |-> "detach", range |-> Span(a, n), noted |-> noted, todo |-> noted]
<1>2. vm_start \subseteq cut /\ cut \subseteq Pages
  BY SplitAdds
<1>3. vm_start' = cut /\ vm_name' = vm_name /\ \A u \in VmThreads : vm_freeing[u].range \cap Span(a, n) = {}
  BY <1>1 DEF recomp_vm_free
<1>4. vm_freeing' = vm_freeing \/ vm_freeing' = [vm_freeing EXCEPT ![t] = call]
  BY <1>1
<1>5. \A r : Whole(r) => Whole(r)'
  BY <1>2, <1>3 DEF Whole
<1>6. ASSUME NEW r \in noted PROVE Whole(r)' /\ r \subseteq Span(a, n) /\ \A g \in r : vm_name[g] # "free"
  <2>1. PICK s \in cut : vm_name[s] # "free" /\ r = ExtentOf(cut, s) /\ r \subseteq Span(a, n)
    OBVIOUS
  <2> HIDE DEF cut
  <2>2. \E b \in Pages : s <= b /\ r = s..b /\ (b = VmPages \/ b + 1 \in cut)
    BY <1>2, <2>1, ExtentIs
  <2>3. Whole(r)'
    BY <1>2, <1>3, <2>1, <2>2 DEF Whole
  <2>4. \A g \in r : vm_name[g] # "free"
    BY <1>2, <2>1, CutNonfree
  <2> QED  BY <2>1, <2>3, <2>4
<1> HIDE DEF noted, cut
<1>7. CASE vm_freeing' = vm_freeing
  BY <1>2, <1>3, <1>7, FreeingSame DEF FreeingInv
<1>8. CASE vm_freeing' = [vm_freeing EXCEPT ![t] = call]
  <2>1. vm_freeing'[t] = call /\ \A u \in VmThreads \ {t} : vm_freeing'[u] = vm_freeing[u]
    BY <1>8 DEF VmTypes
  <2>2. ASSUME NEW u \in VmThreads
        PROVE  /\ vm_freeing'[u].at = "idle" => vm_freeing'[u] = NoFree
               /\ vm_freeing'[u].todo \subseteq vm_freeing'[u].noted
               /\ \A r \in vm_freeing'[u].noted :
                    Whole(r)' /\ r \subseteq vm_freeing'[u].range /\ \A g \in r : vm_name'[g] # "free"
               /\ \A w \in VmThreads \ {u} : vm_freeing'[u].range \cap vm_freeing'[w].range = {}
    <3>1. CASE u = t
      BY <1>3, <1>6, <2>1, <3>1
    <3>2. CASE u # t
      <4>1. vm_freeing'[u] = vm_freeing[u]
        BY <2>1, <3>2
      <4>2. \A w \in VmThreads \ {u} : vm_freeing'[u].range \cap vm_freeing'[w].range = {}
        BY <1>3, <2>1, <4>1 DEF FreeingInv
      <4> QED  BY <1>3, <1>5, <4>1, <4>2 DEF FreeingInv
    <3> QED  BY <3>1, <3>2
  <2>3. FreeingInv'
    BY <2>2 DEF FreeingInv
  <2> QED  BY <1>3, <2>1, <2>3
<1> QED  BY <1>3, <1>4, <1>7, <1>8

\* Detaching takes one range from what is to do.
LEMMA DetachFreeing ==
  ASSUME VmTypes, FreeingInv, NEW t \in VmThreads, NEW r \in vm_freeing[t].todo, VmDetach(t, r)
  PROVE  /\ FreeingInv' /\ vm_name' = vm_name /\ Whole(r)
         /\ \A u \in VmThreads : vm_freeing'[u].noted = vm_freeing[u].noted
         /\ \A u \in VmThreads : vm_freeing'[u].todo = IF u = t THEN vm_freeing[u].todo \ {r} ELSE vm_freeing[u].todo
<1>1. vm_freeing' = [vm_freeing EXCEPT ![t].todo = vm_freeing[t].todo \ {r}] /\ UNCHANGED <<vm_start, vm_name, vm_gen>>
      /\ vm_freeing[t].at = "detach"
  BY DEF VmDetach
<1>2. ASSUME NEW u \in VmThreads
      PROVE  /\ vm_freeing'[u].at = vm_freeing[u].at /\ vm_freeing'[u].range = vm_freeing[u].range
             /\ vm_freeing'[u].noted = vm_freeing[u].noted
             /\ vm_freeing'[u].todo = IF u = t THEN vm_freeing[u].todo \ {r} ELSE vm_freeing[u].todo
             /\ (u # t => vm_freeing'[u] = vm_freeing[u])
  BY <1>1 DEF VmTypes, VmCalls
<1>3. \A q : Whole(q)' <=> Whole(q)
  BY <1>1 DEF Whole
<1>4. FreeingInv'
  <2>1. \A u \in VmThreads : vm_freeing'[u].at = "idle" => vm_freeing'[u] = NoFree
    BY <1>1, <1>2 DEF FreeingInv
  <2>2. ASSUME NEW u \in VmThreads PROVE vm_freeing'[u].todo \subseteq vm_freeing'[u].noted
    <3>1. vm_freeing[u].todo \subseteq vm_freeing[u].noted
      BY DEF FreeingInv
    <3>2. vm_freeing'[u].todo \subseteq vm_freeing[u].todo
      BY <1>2
    <3> QED  BY <1>2, <3>1, <3>2
  <2> QED  BY <1>1, <1>2, <1>3, <2>1, <2>2 DEF FreeingInv
<1>5. Whole(r)
  BY DEF FreeingInv
<1> QED  BY <1>1, <1>2, <1>4, <1>5

\* The end of one unmap leaves the ranges of the others as noted.
LEMMA EndFreeing ==
  ASSUME VmTypes, Uniform, FreeingInv, NEW t \in VmThreads, free_end(t)
  PROVE  FreeingInv'
<1>1. /\ \A p \in Pages : vm_name'[p] = vm_name[p] \/ (vm_name'[p] = "free" /\ p \in UNION vm_freeing[t].noted)
      /\ \A b \in vm_start \ vm_start' : b - 1 \in Pages /\ vm_name'[b] = "free" /\ vm_name'[b - 1] = "free"
      /\ vm_freeing' = [vm_freeing EXCEPT ![t] = NoFree]
  BY EndKeeps
<1>2. vm_freeing'[t] = NoFree /\ \A u \in VmThreads \ {t} : vm_freeing'[u] = vm_freeing[u]
  BY <1>1 DEF VmTypes
<1>3. ASSUME NEW u \in VmThreads \ {t}, NEW r \in vm_freeing[u].noted
      PROVE  Whole(r)' /\ \A g \in r : vm_name'[g] # "free"
  <2>1. r \subseteq Pages /\ r \cap UNION vm_freeing[t].noted = {} /\ \A g \in r : vm_name[g] # "free"
    <3>1. r \subseteq Pages
      BY DEF VmTypes, VmCalls
    <3>2. r \subseteq vm_freeing[u].range /\ UNION vm_freeing[t].noted \subseteq vm_freeing[t].range
          /\ vm_freeing[u].range \cap vm_freeing[t].range = {}
      BY DEF FreeingInv
    <3> QED  BY <3>1, <3>2 DEF FreeingInv
  <2>2. \A g \in r : vm_name'[g] # "free"
    BY <1>1, <2>1
  <2>3. PICK a \in Pages, b \in Pages : a <= b /\ r = a..b /\ a \in vm_start /\ (b = VmPages \/ b + 1 \in vm_start)
    BY DEF FreeingInv, Whole
  <2>4. a \in r /\ b \in r /\ b \in Nat /\ (b + 1) - 1 = b
    BY <2>3 DEF Pages
  <2>5. a \in vm_start' /\ (b = VmPages \/ b + 1 \in vm_start')
    BY <1>1, <2>2, <2>3, <2>4
  <2> QED  BY <2>2, <2>3, <2>5 DEF Whole
<1>4. ASSUME NEW u \in VmThreads
      PROVE  /\ vm_freeing'[u].at = "idle" => vm_freeing'[u] = NoFree
             /\ vm_freeing'[u].todo \subseteq vm_freeing'[u].noted
             /\ \A r \in vm_freeing'[u].noted :
                  Whole(r)' /\ r \subseteq vm_freeing'[u].range /\ \A g \in r : vm_name'[g] # "free"
             /\ \A w \in VmThreads \ {u} : vm_freeing'[u].range \cap vm_freeing'[w].range = {}
  <2>1. CASE u = t
    BY <1>2, <2>1 DEF NoFree
  <2>2. CASE u # t
    <3>1. vm_freeing'[u] = vm_freeing[u]
      BY <1>2, <2>2
    <3>2. \A w \in VmThreads \ {u} : vm_freeing'[u].range \cap vm_freeing'[w].range = {}
      BY <1>2, <3>1 DEF FreeingInv, NoFree
    <3>3. \A r \in vm_freeing'[u].noted :
            Whole(r)' /\ r \subseteq vm_freeing'[u].range /\ \A g \in r : vm_name'[g] # "free"
      BY <1>3, <2>2, <3>1 DEF FreeingInv
    <3> QED  BY <3>1, <3>2, <3>3 DEF FreeingInv
  <2> QED  BY <2>1, <2>2
<1> QED  BY <1>4 DEF FreeingInv

-----------------------------------------------------------------------------
(* Direct memory: its blocks.                                              *)
DmTypes ==
  /\ dm_total \in 0..DmMax /\ dm_start \subseteq 0..dm_total /\ dm_used \subseteq 0..dm_total - 1 /\ 0 \in dm_start
\* A page that starts no block is used when the one before it is, and one of
\* two that touch at a start is used.
BlocksUniform ==
  /\ \A p \in 1..dm_total - 1 : p \notin dm_start => (p \in dm_used <=> p - 1 \in dm_used)
  /\ \A s \in dm_start \ {0} : s \in dm_used \/ s - 1 \in dm_used

\* What pages a block has.
LEMMA BlockIs ==
  ASSUME DmTypes, NEW s \in dm_start
  PROVE  /\ \A p : p \in Block(s) <=> (p \in 0..dm_total - 1 /\ s <= p /\ \A e \in dm_start : e <= s \/ p < e)
         /\ \E b \in 0..dm_total : s <= b /\ Block(s) = s..b - 1 /\ (b = dm_total \/ b \in dm_start)
<1> DEFINE T == {dm_total} \cup {e \in dm_start : e > s}
           m == Min(T)
<1>0. DmMax \in Nat /\ dm_total \in Nat /\ s \in Nat /\ s <= dm_total /\ \A e \in dm_start : e \in Nat /\ e <= dm_total
  BY DmAssumption DEF DmTypes
<1>1. T \subseteq Nat /\ T # {}
  BY <1>0
<1>2. m \in T /\ \A y \in T : m <= y
  <2> HIDE DEF T
  <2> QED  BY <1>1, LeastOf
<1>3. m \in Nat /\ s <= m /\ m <= dm_total /\ (m = dm_total \/ m \in dm_start)
  BY <1>0, <1>1, <1>2
<1>4. Block(s) = s..m - 1
  BY DEF Block
<1>5. ASSUME NEW p \in 0..dm_total - 1 PROVE p < m <=> \A e \in dm_start : e <= s \/ p < e
  <2>1. ASSUME p < m, NEW e \in dm_start PROVE e <= s \/ p < e
    <3>1. e \in Nat /\ p \in Nat
      BY <1>0
    <3>2. e > s => m <= e
      BY <1>2
    <3> QED  BY <1>0, <1>3, <2>1, <3>1, <3>2
  <2>2. ASSUME \A e \in dm_start : e <= s \/ p < e PROVE p < m
    <3>1. p \in Nat /\ p < dm_total
      BY <1>0
    <3>2. CASE m = dm_total
      BY <1>0, <3>1, <3>2
    <3>3. CASE m \in dm_start /\ m > s
      BY <1>0, <1>3, <2>2, <3>3, <3>1
    <3> QED  BY <1>2, <3>2, <3>3
  <2> QED  BY <2>1, <2>2
<1> HIDE DEF m
<1>6. \A p : p \in s..m - 1 <=> p \in 0..dm_total - 1 /\ s <= p /\ p < m
  BY <1>0, <1>3
<1>7. m \in 0..dm_total
  BY <1>0, <1>3
<1> QED  BY <1>3, <1>4, <1>5, <1>6, <1>7

\* A page is in exactly one block.
LEMMA BlockAtIs ==
  ASSUME DmTypes, NEW p \in 0..dm_total - 1
  PROVE  \E s \in dm_start : p \in Block(s) /\ s = Max({e \in dm_start : e <= p}) /\ \A e \in dm_start : p \in Block(e) => e = s
<1> DEFINE T == {e \in dm_start : e <= p}
<1>0. dm_total \in Nat /\ p \in Nat /\ p < dm_total /\ (\A e \in dm_start : e \in Nat /\ e <= dm_total) /\ 0 \in dm_start
  BY DmAssumption DEF DmTypes
<1>1. T \subseteq 0..dm_total /\ T # {}
  BY <1>0
<1>2. Max(T) \in T /\ \A y \in T : y <= Max(T)
  <2> HIDE DEF T
  <2> QED  BY <1>0, <1>1, GreatestOf
<1> DEFINE s == Max(T)
<1> HIDE DEF s
<1>3. s \in dm_start /\ s <= p /\ \A e \in dm_start : e <= s \/ p < e
  BY <1>0, <1>2 DEF s
<1>4. p \in Block(s)
  BY <1>3, BlockIs
<1>5. ASSUME NEW e \in dm_start, p \in Block(e) PROVE e = s
  <2>1. e <= p /\ (s <= e \/ p < s)
    BY <1>3, <1>5, BlockIs
  <2> QED  BY <1>0, <1>3, <2>1
<1> QED  BY <1>3, <1>4, <1>5 DEF s

\* The page before one that starts no block is in the same block.
LEMMA BackInBlock ==
  ASSUME DmTypes, NEW s \in dm_start, NEW p \in 1..dm_total - 1, p \notin dm_start
  PROVE  p - 1 \in 0..dm_total - 1 /\ (p \in Block(s) <=> p - 1 \in Block(s))
<1>0. dm_total \in Nat /\ p \in Nat /\ p >= 1 /\ p <= dm_total - 1 /\ s \in Nat /\ \A e \in dm_start : e \in Nat /\ e # p
  BY DmAssumption DEF DmTypes
<1>1. p - 1 \in 0..dm_total - 1 /\ p \in 0..dm_total - 1
  BY <1>0
<1>2. (\A e \in dm_start : p < e <=> p - 1 < e) /\ (s <= p <=> s <= p - 1)
  BY <1>0
<1> QED  BY <1>1, <1>2, BlockIs

\* One block is all used or all free.
LEMMA UniformBlocks ==
  ASSUME DmTypes, BlocksUniform, NEW s \in dm_start, NEW p \in Block(s)
  PROVE  p \in dm_used <=> s \in dm_used
<1> DEFINE T == {q \in Block(s) : ~(q \in dm_used <=> s \in dm_used)}
<1>0. dm_total \in Nat /\ s \in Nat /\ \A q \in Block(s) : q \in Nat /\ s <= q /\ q < dm_total
  BY BlockIs, DmAssumption DEF DmTypes
<1>1. CASE T = {}
  BY <1>1
<1>2. CASE T # {}
  <2>1. T \subseteq Nat
    BY <1>0
  <2>2. Min(T) \in T /\ \A y \in T : Min(T) <= y
    <3> HIDE DEF T
    <3> QED  BY <1>2, <2>1, LeastOf
  <2>3. PICK q \in Block(s) : ~(q \in dm_used <=> s \in dm_used) /\ \A y \in T : q <= y
    BY <2>2
  <2>4. q \in Nat /\ s <= q /\ q < dm_total /\ q # s
    BY <1>0, <2>3
  <2>5. \A e \in dm_start : e <= s \/ q < e
    BY <2>3, BlockIs
  <2>6. q \in 1..dm_total - 1 /\ q \notin dm_start
    <3>1. q \notin dm_start
      BY <1>0, <2>4, <2>5
    <3> QED  BY <1>0, <2>4, <3>1
  <2>7. q - 1 \in Block(s) /\ (q \in dm_used <=> q - 1 \in dm_used)
    BY <2>3, <2>6, BackInBlock DEF BlocksUniform
  <2>8. q - 1 \in T
    BY <2>3, <2>7
  <2>9. q <= q - 1
    BY <2>3, <2>8
  <2> QED  BY <2>4, <2>9
<1> QED  BY <1>1, <1>2

\* That is what BlocksSound says of whole blocks.
LEMMA BlocksAreSound ==
  ASSUME DmTypes, BlocksUniform
  PROVE  BlocksSound
<1>1. \A s \in dm_start : Block(s) \subseteq dm_used \/ Block(s) \cap dm_used = {}
  BY UniformBlocks
<1> QED  BY <1>1 DEF BlocksSound, BlocksUniform, DmTypes

\* What the allocator's search finds.
LEMMA RoomHas ==
  ASSUME NEW lo, NEW n, NEW al, NEW c \in DmRoom(lo, n, al)
  PROVE  c[1] \in dm_start /\ c[1] \notin dm_used /\ c[2] = AlignUp(Max({c[1], lo}), al) /\ Span(c[2], n) \subseteq Block(c[1])
<1>1. c \in {<<s, AlignUp(Max({s, lo}), al)>> : s \in {s \in dm_start : s \notin dm_used}} /\ Span(c[2], n) \subseteq Block(c[1])
  BY DEF DmRoom
<1>2. PICK s \in {e \in dm_start : e \notin dm_used} : c = <<s, AlignUp(Max({s, lo}), al)>>
  BY <1>1
<1> QED  BY <1>1, <1>2
DmKept == DmTypes' /\ BlocksUniform'

\* An allocation splits one free block.
LEMMA AllocateKeeps ==
  ASSUME DmTypes, BlocksUniform, NEW lengths, lengths \subseteq Nat \ {0}, sceKernelAllocateDirectMemory(lengths)
  PROVE  DmKept
<1>1. PICK r \in DmSearches, len \in lengths, al \in VmAligns :
        LET lo == r[1]
            hi == r[2]
            n == AlignUp(len, al)
            at == Min({c[2] : c \in DmRoom(lo, n, al)})
            b == Block(Max({s \in dm_start : s <= at}))
        IN  /\ lo + n <= hi /\ DmRoom(lo, n, al) # {} /\ at + n <= hi
            /\ dm_start' = dm_start \cup ({at, at + n} \cap b)
            /\ dm_used' = dm_used \cup Span(at, n)
            /\ UNCHANGED <<dm_total, g_direct_configured, g_dmaps, host>> /\ UNCHANGED vm_vars
  BY DEF sceKernelAllocateDirectMemory
<1> DEFINE lo == r[1]
           n == AlignUp(len, al)
           room == DmRoom(lo, n, al)
           at == Min({c[2] : c \in room})
           b == Block(Max({s \in dm_start : s <= at}))
<1>2. dm_start' = dm_start \cup ({at, at + n} \cap b) /\ dm_used' = dm_used \cup Span(at, n) /\ dm_total' = dm_total /\ room # {}
  BY <1>1
<1>3. n \in Nat /\ n >= 1 /\ al \in Nat \ {0} /\ lo \in Nat
  <2>1. len \in Nat \ {0} /\ al \in Nat \ {0}
    BY VmAssumption
  <2>2. lo \in 0..DmMax /\ DmMax \in Nat
    BY DmAssumption
  <2> QED  BY <2>1, <2>2, AlignUpEnough
<1>4. ASSUME NEW c \in room
      PROVE  c[1] \in dm_start /\ c[1] \notin dm_used /\ c[2] \in Nat /\ Span(c[2], n) \subseteq Block(c[1])
  <2>1. c[1] \in dm_start /\ c[1] \notin dm_used /\ c[2] = AlignUp(Max({c[1], lo}), al) /\ Span(c[2], n) \subseteq Block(c[1])
    BY RoomHas
  <2>2. c[1] \in 0..DmMax /\ DmMax \in Nat
    <3>1. dm_total \in 0..DmMax /\ c[1] \in 0..dm_total
      BY <2>1 DEF DmTypes
    <3> QED  BY <3>1, DmAssumption
  <2>3. Max({c[1], lo}) \in Nat
    <3>1. {c[1], lo} \subseteq 0..(c[1] + lo) /\ c[1] + lo \in Nat
      BY <1>3, <2>2
    <3>2. Max({c[1], lo}) \in {c[1], lo}
      BY <3>1, GreatestOf
    <3> QED  BY <1>3, <2>2, <3>2
  <2> QED  BY <1>3, <2>1, <2>3, AlignUpEnough
<1>5. at \in {c[2] : c \in room}
  <2>1. {c[2] : c \in room} \subseteq Nat /\ {c[2] : c \in room} # {}
    BY <1>2, <1>4
  <2> HIDE DEF room
  <2> QED  BY <2>1, LeastOf
<1>6. PICK c \in room : at = c[2]
  BY <1>5
<1> DEFINE s == c[1]
<1> HIDE DEF at, n, room
<1>7. s \in dm_start /\ s \notin dm_used /\ at \in Nat /\ Span(at, n) \subseteq Block(s)
  BY <1>4, <1>6
<1>8. \A p : p \in Span(at, n) <=> p \in Int /\ at <= p /\ p < at + n
  BY <1>3, <1>7 DEF Span
<1>9. at \in Block(s) /\ at + n - 1 \in Block(s) /\ at + n - 1 \in Span(at, n)
  BY <1>3, <1>7, <1>8
<1>10. at \in 0..dm_total - 1
  BY <1>7, <1>9, BlockIs
<1>11. b = Block(s)
  BY <1>7, <1>9, <1>10, BlockAtIs
<1> HIDE DEF b, s
<1>12. \A p \in Block(s) : p \notin dm_used /\ p \in 0..dm_total - 1
  BY <1>7, UniformBlocks, BlockIs
<1>13. DmTypes'
  <2>1. Span(at, n) \subseteq 0..dm_total - 1 /\ {at, at + n} \cap b \subseteq 0..dm_total
    <3>1. dm_total \in Nat
      BY DmAssumption DEF DmTypes
    <3> QED  BY <1>7, <1>11, <1>12, <3>1
  <2> QED  BY <1>2, <2>1 DEF DmTypes
<1>14. ASSUME NEW p \in 1..dm_total - 1, p \notin dm_start' PROVE p \in dm_used' <=> p - 1 \in dm_used'
  <2>1. p \notin dm_start /\ (p \in Block(s) => p # at /\ p # at + n)
    BY <1>2, <1>11, <1>14
  <2>2. (p \in dm_used <=> p - 1 \in dm_used) /\ (p \in Block(s) <=> p - 1 \in Block(s))
    BY <1>7, <2>1, BackInBlock DEF BlocksUniform
  <2>3. CASE p \in Block(s)
    <3>1. p \in Span(at, n) <=> p - 1 \in Span(at, n)
      <4>1. p \in Int /\ at + n \in Int /\ p # at /\ p # at + n
        BY <1>3, <1>7, <2>1, <2>3
      <4> QED  BY <1>3, <1>7, <1>8, <4>1
    <3> QED  BY <1>2, <2>2, <3>1
  <2>4. CASE p \notin Block(s)
    BY <1>2, <1>7, <2>2, <2>4
  <2> QED  BY <2>3, <2>4
<1>15. ASSUME NEW q \in dm_start' \ {0} PROVE q \in dm_used' \/ q - 1 \in dm_used'
  <2>1. CASE q \in dm_start
    BY <1>2, <1>15, <2>1 DEF BlocksUniform
  <2>2. CASE q = at
    BY <1>2, <1>3, <1>7, <1>8, <2>2
  <2>3. CASE q = at + n
    BY <1>2, <1>3, <1>7, <1>9, <2>3
  <2> QED  BY <1>2, <1>15, <2>1, <2>2, <2>3
<1> QED  BY <1>2, <1>13, <1>14, <1>15 DEF DmKept, BlocksUniform

\* A release joins the block with the free ones it touches.
LEMMA ReleaseKeeps ==
  ASSUME DmTypes, BlocksUniform, sceKernelReleaseDirectMemory
  PROVE  DmKept
<1>1. PICK p \in dm_start \cap dm_used :
    LET next == Max(Block(p)) + 1
        before == {s \in dm_start : s < p}
        merged == (IF next \in dm_start \ dm_used THEN {next} ELSE {})
                    \cup (IF before # {} /\ Max(before \cup {0}) \notin dm_used THEN {p} ELSE {})
    IN  /\ dm_start' = dm_start \ merged
        /\ dm_used' = dm_used \ Block(p)
        /\ UNCHANGED <<dm_total, g_direct_configured, g_dmaps, host>> /\ UNCHANGED vm_vars
  BY DEF sceKernelReleaseDirectMemory
<1> DEFINE next == Max(Block(p)) + 1
           before == {s \in dm_start : s < p}
           merged == (IF next \in dm_start \ dm_used THEN {next} ELSE {})
                       \cup (IF before # {} /\ Max(before \cup {0}) \notin dm_used THEN {p} ELSE {})
<1>0. dm_total \in Nat /\ p \in Nat /\ p < dm_total /\ (\A e \in dm_start : e \in Nat /\ e <= dm_total) /\ 0 \in dm_start
  BY DmAssumption DEF DmTypes
<1>2. PICK b \in 0..dm_total : p <= b /\ Block(p) = p..b - 1 /\ (b = dm_total \/ b \in dm_start)
  BY BlockIs
<1>3. p \in Block(p) /\ p < b /\ b \in Nat
  <2>1. p \in Block(p)
    BY <1>0, BlockIs
  <2> QED  BY <1>0, <1>2, <2>1
<1>4. next = b
  <2>1. Max(Block(p)) = b - 1
    <3>1. Block(p) \subseteq 0..dm_total /\ Block(p) # {}
      <4>1. \A y \in Block(p) : y \in 0..dm_total - 1
        BY BlockIs
      <4> QED  BY <1>0, <1>3, <4>1
    <3>2. Max(Block(p)) \in Block(p) /\ \A y \in Block(p) : y <= Max(Block(p))
      BY <1>0, <3>1, GreatestOf
    <3>3. b - 1 \in Block(p)
      BY <1>0, <1>2, <1>3
    <3> QED  BY <1>2, <1>3, <3>2, <3>3
  <2> QED  BY <1>3, <2>1
<1>5. before # {} <=> p # 0
  <2>1. p # 0 => 0 \in before
    BY <1>0
  <2>2. p = 0 => before = {}
    <3>1. \A e \in dm_start : e >= 0 /\ e \in Nat
      BY <1>0
    <3>2. p = 0 => \A e \in dm_start : ~(e < p)
      BY <3>1
    <3> QED  BY <3>2
  <2> QED  BY <2>1, <2>2
<1>6. ASSUME p # 0
      PROVE  Max(before \cup {0}) \in dm_start /\ p - 1 \in Block(Max(before \cup {0}))
  <2>1. p - 1 \in 0..dm_total - 1
    BY <1>0, <1>6
  <2>2. PICK s \in dm_start : p - 1 \in Block(s) /\ s = Max({e \in dm_start : e <= p - 1})
    BY <2>1, BlockAtIs
  <2>3. before \cup {0} = {e \in dm_start : e <= p - 1}
    <3>1. 0 \in before
      BY <1>0, <1>6
    <3>2. \A e \in dm_start : e < p <=> e <= p - 1
      BY <1>0
    <3> QED  BY <3>1, <3>2
  <2> QED  BY <2>2, <2>3
<1>7. p # 0 => (Max(before \cup {0}) \in dm_used <=> p - 1 \in dm_used)
  BY <1>6, UniformBlocks
<1>8. dm_start' = dm_start \ merged /\ dm_used' = dm_used \ Block(p) /\ dm_total' = dm_total
  BY <1>1
<1>9. \A q : q \in merged <=> (q = b /\ b \in dm_start /\ b \notin dm_used) \/ (q = p /\ p # 0 /\ p - 1 \notin dm_used)
  BY <1>4, <1>5, <1>7
<1> HIDE DEF merged, before, next
<1>10. DmTypes'
  <2>1. 0 \notin merged
    BY <1>0, <1>3, <1>9
  <2> QED  BY <1>8, <2>1 DEF DmTypes
<1>11. ASSUME NEW q \in 1..dm_total - 1, q \notin dm_start' PROVE q \in dm_used' <=> q - 1 \in dm_used'
  <2>0. q \in Nat
    OBVIOUS
  <2>1. CASE q \notin dm_start
    <3>1. (q \in dm_used <=> q - 1 \in dm_used) /\ (q \in Block(p) <=> q - 1 \in Block(p))
      BY <2>1, BackInBlock DEF BlocksUniform
    <3> QED  BY <1>8, <3>1
  <2>2. CASE q = b /\ b \notin dm_used
    <3>1. b - 1 \in Block(p)
      BY <1>0, <1>2, <1>3
    <3> QED  BY <1>8, <2>2, <3>1
  <2>3. CASE q = p /\ p - 1 \notin dm_used
    BY <1>3, <1>8, <2>3
  <2> QED  BY <1>8, <1>9, <1>11, <2>1, <2>2, <2>3
<1>12. ASSUME NEW q \in dm_start' \ {0} PROVE q \in dm_used' \/ q - 1 \in dm_used'
  <2>1. q \in dm_start /\ q \notin merged /\ q \in Nat /\ q >= 1 /\ (q \in dm_used \/ q - 1 \in dm_used)
    BY <1>0, <1>8, <1>12 DEF BlocksUniform
  <2>2. CASE q \in Block(p)
    <3>1. q = p
      <4>1. p <= q /\ (q <= p \/ q < q)
        BY <2>1, <2>2, BlockIs
      <4> QED  BY <1>0, <2>1, <4>1
    <3>2. p - 1 \in dm_used /\ p - 1 \notin Block(p)
      BY <1>0, <1>2, <1>9, <2>1, <3>1
    <3> QED  BY <1>8, <3>1, <3>2
  <2>3. CASE q - 1 \in Block(p) /\ q \notin Block(p)
    <3>1. q = b
      BY <1>0, <1>2, <1>3, <2>1, <2>3
    <3>2. q \in dm_used
      BY <1>9, <2>1, <3>1
    <3> QED  BY <1>8, <2>3, <3>2
  <2>4. CASE q - 1 \notin Block(p) /\ q \notin Block(p)
    BY <1>8, <2>1, <2>4
  <2> QED  BY <2>2, <2>3, <2>4
<1> QED  BY <1>8, <1>10, <1>11, <1>12 DEF DmKept, BlocksUniform

\* Configuring resizes a free end only.
LEMMA ConfigureKeeps ==
  ASSUME DmTypes, BlocksUniform, ps4_direct_mem_configure
  PROVE  DmKept
<1>1. PICK total \in DmTotals :
         dm_total' = IF Max(dm_start) \notin dm_used /\ total >= Max(dm_start) THEN total ELSE dm_total
  BY DEF ps4_direct_mem_configure
<1>2. UNCHANGED <<dm_start, dm_used>>
  BY DEF ps4_direct_mem_configure
<1>3. dm_total \in Nat /\ DmMax \in Nat /\ total \in 0..DmMax /\ dm_total \in 0..DmMax
  BY DmAssumption DEF DmTypes
<1>4. CASE dm_total' = dm_total
  BY <1>2, <1>4 DEF DmKept, DmTypes, BlocksUniform
<1>5. CASE Max(dm_start) \notin dm_used /\ total >= Max(dm_start) /\ dm_total' = total
  <2>1. Max(dm_start) \in dm_start /\ \A y \in dm_start : y <= Max(dm_start)
    BY <1>3, GreatestOf DEF DmTypes
  <2> DEFINE last == Max(dm_start)
  <2>2. last \in dm_start /\ last \in Nat /\ last <= dm_total /\ \A y \in dm_start : y <= last /\ y \in Nat
    <3>1. \A y \in dm_start : y \in Nat /\ y <= dm_total
      BY <1>3 DEF DmTypes
    <3> QED  BY <2>1, <3>1
  <2>3. last \notin dm_used /\ total >= last
    BY <1>5
  <2> HIDE DEF last
  <2>4. ASSUME NEW p \in dm_used PROVE p \in Nat /\ p < last
    <3>1. p \in 0..dm_total - 1
      BY DEF DmTypes
    <3>2. p >= last => p \in Block(last)
      BY <2>2, <3>1, BlockIs
    <3>3. ~(p >= last)
      BY <2>2, <2>3, <3>2, UniformBlocks
    <3> QED  BY <2>2, <3>1, <3>3
  <2>5. DmTypes'
    <3>1. dm_start \subseteq 0..total /\ dm_used \subseteq 0..total - 1
      BY <1>3, <2>2, <2>3, <2>4
    <3> QED  BY <1>2, <1>3, <1>5, <3>1 DEF DmTypes
  <2>6. ASSUME NEW p \in 1..total - 1, p \notin dm_start PROVE p \in dm_used <=> p - 1 \in dm_used
    <3>1. p \in Nat /\ p >= 1 /\ p # last
      BY <2>2, <2>6
    <3>2. CASE p < last
      <4>1. p \in 1..dm_total - 1
        BY <1>3, <2>2, <3>1, <3>2
      <4> QED  BY <2>6, <4>1 DEF BlocksUniform
    <3>3. CASE p > last
      <4>1. p \notin dm_used /\ p - 1 \notin dm_used
        BY <2>2, <2>4, <3>1, <3>3
      <4> QED  BY <4>1
    <3> QED  BY <2>2, <3>1, <3>2, <3>3
  <2> QED  BY <1>2, <1>5, <2>5, <2>6 DEF DmKept, BlocksUniform
<1> QED  BY <1>1, <1>4, <1>5

\* The range reported as available is the first that the search finds.
LEMMA AvailableIsRoom ==
  ASSUME DmTypes
  PROVE  AvailableAllocates
<1>1. SUFFICES ASSUME NEW r \in DmSearches, NEW al \in VmAligns, NEW c \in Available(r[1], r[2], al)
               PROVE  c[1] = Min({d[2] : d \in DmRoom(r[1], c[2] - c[1], al)} \cup {DmMax})
  BY DEF AvailableAllocates
<1> DEFINE lo == r[1]
           hi == r[2]
           end == Min({hi, dm_total})
           first(s) == AlignUp(Max({s, lo}), al)
           last(s) == Max(Block(s) \cup {0}) + 1
           free == {s \in dm_start : s \notin dm_used /\ Block(s) # {}}
           cand == {d \in {<<first(s), Min({end, last(s)})>> : s \in free} : d[1] < d[2]}
           n == c[2] - c[1]
<1>0. /\ lo \in Nat /\ hi \in Nat /\ al \in Nat \ {0} /\ DmMax \in Nat /\ dm_total \in Nat /\ dm_total <= DmMax
      /\ \A e \in dm_start : e \in Nat /\ e <= dm_total
  <2>1. r \in (0..DmMax) \X (1..DmMax) /\ DmMax \in Nat /\ al \in Nat \ {0}
    BY DmAssumption, VmAssumption
  <2>2. dm_total \in 0..DmMax
    BY DEF DmTypes
  <2>3. \A e \in dm_start : e \in 0..dm_total
    BY DEF DmTypes
  <2> QED  BY <2>1, <2>2, <2>3
<1>2. \A a, b \in Nat : Min({a, b}) \in {a, b} /\ Min({a, b}) <= a /\ Min({a, b}) <= b
  <2>1. SUFFICES ASSUME NEW a \in Nat, NEW b \in Nat
                 PROVE  Min({a, b}) \in {a, b} /\ Min({a, b}) <= a /\ Min({a, b}) <= b
    OBVIOUS
  <2>2. {a, b} \subseteq Nat /\ {a, b} # {}
    OBVIOUS
  <2>3. Min({a, b}) \in {a, b} /\ \A y \in {a, b} : Min({a, b}) <= y
    BY <2>2, LeastOf
  <2> QED  BY <2>3
<1>3. end \in Nat /\ end <= hi /\ end <= dm_total /\ (end = hi \/ end = dm_total)
  BY <1>0, <1>2
<1>4. ASSUME NEW s \in free
      PROVE  first(s) \in Nat /\ s <= first(s) /\ last(s) \in Nat /\ \A p \in Nat : p \in Block(s) <=> s <= p /\ p < last(s)
  <2>1. PICK b \in 0..dm_total : s <= b /\ Block(s) = s..b - 1
    BY BlockIs
  <2>2. s \in Nat /\ b \in Nat /\ s < b
    <3>1. Block(s) # {} /\ s \in Nat /\ b \in Nat
      BY <1>0
    <3> QED  BY <2>1, <3>1
  <2>3. Block(s) \cup {0} \subseteq 0..dm_total /\ Block(s) \cup {0} # {}
    <3>1. \A y \in Block(s) : y \in 0..dm_total - 1
      BY BlockIs
    <3> QED  BY <1>0, <3>1
  <2>4. Max(Block(s) \cup {0}) \in Block(s) \cup {0} /\ \A y \in Block(s) \cup {0} : y <= Max(Block(s) \cup {0})
    BY <1>0, <2>3, GreatestOf
  <2>5. b - 1 \in Block(s) /\ \A y \in Block(s) \cup {0} : y <= b - 1 /\ y \in Nat
    BY <2>1, <2>2
  <2>6. last(s) = b
    <3>1. Max(Block(s) \cup {0}) = b - 1
      <4>1. Max(Block(s) \cup {0}) <= b - 1 /\ Max(Block(s) \cup {0}) \in Nat
        BY <2>4, <2>5
      <4>2. b - 1 <= Max(Block(s) \cup {0})
        BY <2>4, <2>5
      <4> QED  BY <2>2, <4>1, <4>2
    <3> QED  BY <2>2, <3>1
  <2>7. Max({s, lo}) \in Nat /\ s <= Max({s, lo})
    <3>1. {s, lo} \subseteq 0..(s + lo) /\ s + lo \in Nat /\ {s, lo} # {}
      BY <1>0, <2>2
    <3>2. Max({s, lo}) \in {s, lo} /\ \A y \in {s, lo} : y <= Max({s, lo})
      BY <3>1, GreatestOf
    <3> QED  BY <1>0, <2>2, <3>2
  <2>8. first(s) \in Nat /\ Max({s, lo}) <= first(s)
    BY <1>0, <2>7, AlignUpEnough
  <2>9. s <= first(s)
    BY <2>2, <2>7, <2>8
  <2>10. \A p \in Nat : p \in Block(s) <=> s <= p /\ p < b
    BY <2>1, <2>2
  <2> QED  BY <2>2, <2>6, <2>8, <2>9, <2>10
<1>5. Available(lo, hi, al) = IF cand = {} THEN {} ELSE {CHOOSE d \in cand : \A e \in cand : d[1] <= e[1]}
  BY DEF Available
<1> HIDE DEF end, first, last, free
<1>6. ASSUME NEW d \in cand
      PROVE  \E s \in free : d[1] = first(s) /\ d[2] = Min({end, last(s)}) /\ d[1] < d[2] /\ d[1] \in Nat
  BY <1>4
<1>7. c \in cand /\ \A e \in cand : c[1] <= e[1]
  <2>1. cand # {} /\ c = CHOOSE d \in cand : \A e \in cand : d[1] <= e[1]
    BY <1>5
  <2>2. {d[1] : d \in cand} \subseteq Nat /\ {d[1] : d \in cand} # {}
    <3> HIDE DEF cand
    <3> QED  BY <1>6, <2>1
  <2>3. \E d \in cand : \A e \in cand : d[1] <= e[1]
    <3> HIDE DEF cand
    <3>1. Min({d[1] : d \in cand}) \in {d[1] : d \in cand} /\ \A y \in {d[1] : d \in cand} : Min({d[1] : d \in cand}) <= y
      BY <2>2, LeastOf
    <3> QED  BY <3>1
  <2> HIDE DEF cand
  <2> QED  BY <2>1, <2>3
<1>8. PICK s \in free : c[1] = first(s) /\ c[2] = Min({end, last(s)}) /\ c[1] < c[2] /\ c[1] \in Nat
  BY <1>6, <1>7
<1>9. c[2] \in Nat /\ c[2] <= end /\ c[2] <= last(s)
  BY <1>2, <1>3, <1>4, <1>8
<1>10. n \in Nat /\ n >= 1 /\ c[1] + n = c[2]
  BY <1>8, <1>9
<1> HIDE DEF n, cand
<1>11. Span(c[1], n) \subseteq Block(s) /\ s \in dm_start /\ s \notin dm_used
  <2>1. \A p \in Span(c[1], n) : p \in Nat /\ c[1] <= p /\ p < c[2]
    BY <1>8, <1>9, <1>10 DEF Span
  <2>2. s <= c[1] /\ s \in Nat /\ last(s) \in Nat
    BY <1>0, <1>4, <1>8 DEF free
  <2>3. \A p \in Span(c[1], n) : p \in Nat /\ s <= p /\ p < last(s)
    BY <1>8, <1>9, <2>1, <2>2
  <2>4. s \in free
    OBVIOUS
  <2> QED  BY <1>4, <2>3, <2>4 DEF free
<1>12. <<s, c[1]>> \in DmRoom(lo, n, al)
  BY <1>8, <1>11 DEF DmRoom, first
<1>13. ASSUME NEW d \in DmRoom(lo, n, al) PROVE d[2] \in Nat /\ c[1] <= d[2]
  <2>1. d[1] \in dm_start /\ d[1] \notin dm_used /\ d[2] = first(d[1]) /\ Span(d[2], n) \subseteq Block(d[1])
    BY RoomHas DEF first
  <2>2. d[2] \in Nat
    <3>1. Max({d[1], lo}) \in Nat
      <4>1. {d[1], lo} \subseteq 0..(d[1] + lo) /\ d[1] + lo \in Nat /\ {d[1], lo} # {}
        BY <1>0, <2>1
      <4>2. Max({d[1], lo}) \in {d[1], lo}
        BY <4>1, GreatestOf
      <4> QED  BY <1>0, <2>1, <4>2
    <3> QED  BY <1>0, <2>1, <3>1, AlignUpEnough DEF first
  <2>3. d[2] \in Block(d[1])
    BY <1>10, <2>1, <2>2 DEF Span
  <2>4. d[1] \in free /\ d[2] < last(d[1]) /\ d[2] < dm_total
    <3>1. d[1] \in free
      BY <2>1, <2>3 DEF free
    <3>2. d[2] \in 0..dm_total - 1
      BY <2>1, <2>3, BlockIs
    <3> QED  BY <1>0, <1>4, <2>2, <2>3, <3>1, <3>2
  <2>5. CASE d[2] < end
    <3>1. d[2] < Min({end, last(d[1])})
      BY <1>2, <1>3, <1>4, <2>4, <2>5
    <3>2. <<d[2], Min({end, last(d[1])})>> \in cand
      BY <2>1, <2>4, <3>1 DEF cand
    <3> QED  BY <1>7, <2>2, <3>2
  <2>6. CASE ~(d[2] < end)
    BY <1>3, <1>8, <1>9, <2>2, <2>6
  <2> QED  BY <2>2, <2>5, <2>6
<1>14. c[1] <= DmMax
  BY <1>0, <1>3, <1>8, <1>9
<1> DEFINE T == {d[2] : d \in DmRoom(lo, n, al)} \cup {DmMax}
<1>15. c[1] \in T /\ T \subseteq Nat /\ \A y \in T : c[1] <= y
  BY <1>0, <1>12, <1>13, <1>14
<1>16. Min(T) = c[1]
  <2> HIDE DEF T
  <2> QED  BY <1>15, MinIs
<1> QED  BY <1>16 DEF n

-----------------------------------------------------------------------------
(* Direct memory: its aliases.                                             *)
AliasTypes ==
  \A m \in g_dmaps :
    /\ m.v \in Pages /\ m.n \in Nat \ {0} /\ m.p \in Nat
    /\ m.v + m.n <= VmPages + 1 /\ m.p + m.n <= DmMax
AliasInv ==
  /\ AliasTypes
  /\ \A g \in Pages : host[g] # Private => \E m \in g_dmaps : g \in Span(m.v, m.n) /\ host[g] = m.p + (g - m.v)
  /\ \A m \in g_dmaps : \A g \in Span(m.v, m.n) : host[g] = m.p + (g - m.v)
  /\ \A g \in Pages : vm_name[g] # "mapped" => host[g] = Private
  /\ \A t \in VmThreads : \A r \in vm_freeing[t].noted \ vm_freeing[t].todo : \A g \in r : host[g] = Private

\* Least, greatest and number of the members of an interval.
LEMMA IntervalIs ==
  ASSUME NEW x \in Nat, NEW y \in Nat, x <= y
  PROVE  Min(x..y) = x /\ Max(x..y) = y /\ Cardinality(x..y) = y - x + 1
<1>1. x..y \subseteq Nat /\ x \in x..y /\ \A z \in x..y : x <= z
  OBVIOUS
<1>2. Min(x..y) = x
  BY <1>1, MinIs
<1>3. x..y \subseteq 0..y /\ x..y # {} /\ y \in x..y /\ \A z \in x..y : z <= y /\ z \in Nat
  OBVIOUS
<1>4. Max(x..y) \in x..y /\ \A z \in x..y : z <= Max(x..y)
  BY <1>3, GreatestOf
<1>5. Max(x..y) = y
  <2>1. Max(x..y) <= y /\ Max(x..y) \in Nat /\ y <= Max(x..y)
    BY <1>3, <1>4
  <2> QED  BY <2>1
<1>6. Cardinality(x..y) = y - x + 1
  BY FS_Interval
<1> QED  BY <1>2, <1>5, <1>6

\* What is left of an alias is within it, off the range, and all that is off
\* the range.
LEMMA RemainsIs ==
  ASSUME NEW m, m.v \in Nat, m.n \in Nat \ {0}, m.p \in Nat, NEW a \in Nat, NEW b \in Nat, a <= b
  PROVE  /\ \A k \in Remains(m, a..b) :
              /\ k.v \in Nat /\ k.n \in Nat \ {0} /\ k.p \in Nat
              /\ m.v <= k.v /\ k.v + k.n <= m.v + m.n /\ k.p = m.p + (k.v - m.v)
              /\ Span(k.v, k.n) \cap a..b = {}
         /\ \A g \in Span(m.v, m.n) \ (a..b) : \E k \in Remains(m, a..b) : g \in Span(k.v, k.n)
<1> DEFINE r == a..b
           keep == Span(m.v, m.n) \ r
           low == {g \in keep : g < Min(r)}
           high == {g \in keep : g > Max(r)}
           part(S) == IF S = {} THEN {} ELSE {[v |-> Min(S), n |-> Cardinality(S), p |-> m.p + (Min(S) - m.v)]}
           whole == m.v + m.n
<1>1. Min(r) = a /\ Max(r) = b
  BY IntervalIs
<1>2. Remains(m, r) = part(low) \cup part(high)
  BY DEF Remains
<1>3. \A g : g \in Span(m.v, m.n) <=> g \in Int /\ m.v <= g /\ g < whole
  BY DEF Span
<1>4. whole \in Nat /\ m.v < whole
  OBVIOUS
<1>5. \A g : g \in low <=> g \in Int /\ m.v <= g /\ g < whole /\ g < a
  BY <1>1, <1>3
<1>6. \A g : g \in high <=> g \in Int /\ m.v <= g /\ g < whole /\ g > b
  BY <1>1, <1>3
<1>7. low # {} => \E y \in Nat : m.v <= y /\ low = m.v..y
  <2>1. SUFFICES ASSUME low # {} PROVE \E y \in Nat : m.v <= y /\ low = m.v..y
    OBVIOUS
  <2>2. m.v < a
    BY <1>5, <2>1
  <2>3. CASE whole <= a
    <3>1. \A g : g \in low <=> g \in m.v..whole - 1
      BY <1>4, <1>5, <2>3
    <3> HIDE DEF low, whole
    <3>2. low = m.v..whole - 1
      BY <3>1
    <3>3. whole - 1 \in Nat /\ m.v <= whole - 1
      BY <1>4
    <3> QED  BY <3>2, <3>3
  <2>4. CASE a < whole
    <3>1. \A g : g \in low <=> g \in m.v..a - 1
      BY <1>4, <1>5, <2>4
    <3> HIDE DEF low, whole
    <3>2. low = m.v..a - 1
      BY <3>1
    <3>3. a - 1 \in Nat /\ m.v <= a - 1
      BY <2>2
    <3> QED  BY <3>2, <3>3
  <2> QED  BY <1>4, <2>3, <2>4
<1>8. high # {} => \E x \in Nat : m.v <= x /\ x <= whole - 1 /\ high = x..whole - 1
  <2>1. SUFFICES ASSUME high # {} PROVE \E x \in Nat : m.v <= x /\ x <= whole - 1 /\ high = x..whole - 1
    OBVIOUS
  <2>2. b < whole - 1 /\ whole - 1 \in Nat
    <3>1. PICK g \in high : TRUE
      BY <2>1
    <3>2. g \in Int /\ g < whole /\ g > b
      BY <1>6
    <3> QED  BY <1>4, <3>2
  <2>3. CASE b < m.v
    <3>1. \A g : g \in high <=> g \in m.v..whole - 1
      BY <1>4, <1>6, <2>3
    <3> HIDE DEF high, whole
    <3>2. high = m.v..whole - 1
      BY <3>1
    <3>3. m.v <= m.v /\ m.v <= whole - 1
      BY <1>4
    <3> QED  BY <3>2, <3>3
  <2>4. CASE m.v <= b
    <3>1. \A g : g \in high <=> g \in (b + 1)..whole - 1
      BY <1>4, <1>6, <2>4
    <3> HIDE DEF high, whole
    <3>2. b + 1 \in Nat /\ m.v <= b + 1 /\ b + 1 <= whole - 1
      BY <1>4, <2>2, <2>4
    <3> QED  BY <3>1, <3>2
  <2> QED  BY <2>3, <2>4
<1> HIDE DEF low, high
<1>9. ASSUME NEW S, NEW x \in Nat, NEW y \in Nat, x <= y, S = x..y, m.v <= x, y < whole, S \cap r = {}, NEW k \in part(S)
      PROVE  /\ k.v \in Nat /\ k.n \in Nat \ {0} /\ k.p \in Nat
             /\ m.v <= k.v /\ k.v + k.n <= whole /\ k.p = m.p + (k.v - m.v)
             /\ Span(k.v, k.n) = S
  <2>1. x \in S /\ Min(S) = x /\ Cardinality(S) = y - x + 1
    BY <1>9, IntervalIs
  <2>2. k = [v |-> x, n |-> y - x + 1, p |-> m.p + (x - m.v)]
    BY <2>1
  <2>3. k.v = x /\ k.n = y - x + 1 /\ k.p = m.p + (x - m.v)
    BY <2>2
  <2>4. y - x + 1 \in Nat \ {0} /\ x + (y - x + 1) <= whole /\ m.p + (x - m.v) \in Nat /\ x + (y - x + 1) - 1 = y
    BY <1>4, <1>9
  <2>5. Span(k.v, k.n) = S
    BY <1>9, <2>3, <2>4 DEF Span
  <2> QED  BY <1>9, <2>3, <2>4, <2>5
<1>10. low # {} => \E x, y \in Nat : x <= y /\ low = x..y /\ m.v <= x /\ y < whole
  <2>1. SUFFICES ASSUME low # {} PROVE \E x, y \in Nat : x <= y /\ low = x..y /\ m.v <= x /\ y < whole
    OBVIOUS
  <2>2. PICK y \in Nat : m.v <= y /\ low = m.v..y
    BY <1>7, <2>1
  <2>3. y \in low
    BY <2>2
  <2>4. y < whole
    BY <1>5, <2>3
  <2> QED  BY <2>2, <2>4
<1>11. high # {} => \E x, y \in Nat : x <= y /\ high = x..y /\ m.v <= x /\ y < whole
  <2>1. SUFFICES ASSUME high # {} PROVE \E x, y \in Nat : x <= y /\ high = x..y /\ m.v <= x /\ y < whole
    OBVIOUS
  <2>2. PICK x \in Nat : m.v <= x /\ x <= whole - 1 /\ high = x..whole - 1
    BY <1>8, <2>1
  <2>3. whole - 1 \in Nat /\ whole - 1 < whole
    BY <1>4, <2>2
  <2> QED  BY <2>2, <2>3
<1>12. low \cap r = {} /\ high \cap r = {}
  BY <1>5, <1>6
<1> HIDE DEF part
<1>13. ASSUME NEW k \in Remains(m, r)
       PROVE  /\ k.v \in Nat /\ k.n \in Nat \ {0} /\ k.p \in Nat
              /\ m.v <= k.v /\ k.v + k.n <= whole /\ k.p = m.p + (k.v - m.v)
              /\ Span(k.v, k.n) \cap r = {}
  <2>1. CASE k \in part(low)
    <3>1. low # {}
      BY <2>1 DEF part
    <3> QED  BY <1>9, <1>10, <1>12, <2>1, <3>1
  <2>2. CASE k \in part(high)
    <3>1. high # {}
      BY <2>2 DEF part
    <3> QED  BY <1>9, <1>11, <1>12, <2>2, <3>1
  <2> QED  BY <1>2, <2>1, <2>2
<1>14. ASSUME NEW S \in {low, high}, NEW g \in S PROVE \E k \in Remains(m, r) : g \in Span(k.v, k.n)
  <2>1. \E x, y \in Nat : x <= y /\ S = x..y /\ m.v <= x /\ y < whole
    BY <1>10, <1>11, <1>14
  <2>2. PICK k : k \in part(S)
    BY <1>14 DEF part
  <2>3. Span(k.v, k.n) = S
    BY <1>9, <1>12, <1>14, <2>1, <2>2
  <2> QED  BY <1>2, <1>14, <2>2, <2>3
<1>15. ASSUME NEW g \in Span(m.v, m.n) \ r PROVE g \in low \/ g \in high
  <2>1. g \in Int /\ m.v <= g /\ g < whole
    BY <1>3
  <2>2. g < a \/ g > b
    BY <2>1
  <2> QED  BY <1>5, <1>6, <2>1, <2>2
<1> QED  BY <1>13, <1>14, <1>15

\* No page of an extent that is taken from aliases physical memory.
LEMMA TakenPrivate ==
  ASSUME VmTypes, Uniform, AliasInv, NEW a, NEW n, Taken(a, n), NEW g \in Extent(ExtentAt(a))
  PROVE  g \in Pages /\ host[g] = Private
<1>1. StartsOK /\ ExtentAt(a) \in vm_start
  BY ExtentAtIs DEF VmTypes, Taken, Room
<1>2. g \in Pages
  BY <1>1, ExtentHas
<1>3. vm_name[g] = vm_name[ExtentAt(a)]
  BY <1>1, UniformExtents DEF VmTypes
<1>4. vm_name[ExtentAt(a)] # "mapped"
  BY DEF Taken, Reservation
<1> QED  BY <1>2, <1>3, <1>4 DEF AliasInv

\* A step that leaves the aliases alone.
LEMMA AliasSame ==
  ASSUME AliasInv, UNCHANGED aliases,
         \A g \in Pages : vm_name'[g] # "mapped" => host[g] = Private,
         \A t \in VmThreads : \A r \in vm_freeing'[t].noted \ vm_freeing'[t].todo : \A g \in r : host[g] = Private
  PROVE  AliasInv'
<1>1. g_dmaps' = g_dmaps /\ host' = host
  BY DEF aliases
<1> QED  BY <1>1 DEF AliasInv, AliasTypes

\* Taking pages leaves the aliases alone.
LEMMA AliasTake ==
  ASSUME VmTypes, Uniform, AliasInv, NEW a, NEW n, NEW name \in VmNames, Taken(a, n), VmTake(a, n, name), UNCHANGED aliases
  PROVE  AliasInv'
<1>1. vm_freeing' = vm_freeing /\ \A p \in Pages \ Extent(ExtentAt(a)) : vm_name'[p] = vm_name[p]
  BY TakeUniform DEF Taken
<1>2. \A g \in Pages : vm_name'[g] # "mapped" => host[g] = Private
  BY <1>1, TakenPrivate DEF AliasInv
<1> QED  BY <1>1, <1>2, AliasSame DEF AliasInv

\* Every step on extents alone.
LEMMA AliasStep ==
  ASSUME VmTypes, Uniform, FreeingInv, AliasInv, VmNext, UNCHANGED aliases
  PROVE  AliasInv'
<1>1. CASE VmMap
  BY <1>1, MapKeeps, AliasTake
<1>2. CASE sceKernelMemoryPoolReserve
  BY <1>2, ReserveKeeps, AliasTake
<1>3. CASE sceKernelSetVirtualRangeName
  <2>1. \A p \in Pages : vm_name'[p] \in {vm_name[p], "mapped"}
    BY <1>3, RenameKeeps
  <2>2. vm_freeing' = vm_freeing
    BY <1>3 DEF sceKernelSetVirtualRangeName
  <2> QED  BY <2>1, <2>2, AliasSame DEF AliasInv
<1>4. CASE sceKernelMtypeprotect
  <2>1. vm_freeing' = vm_freeing /\ vm_name' = vm_name
    BY <1>4 DEF sceKernelMtypeprotect
  <2> QED  BY <2>1, AliasSame DEF AliasInv
<1>5. ASSUME NEW t \in VmThreads, recomp_vm_free(t) PROVE AliasInv'
  <2>1. vm_name' = vm_name /\ \A u \in VmThreads : vm_freeing'[u] = vm_freeing[u] \/ vm_freeing'[u].todo = vm_freeing'[u].noted
    BY <1>5, FreeFreeing
  <2>2. \A u \in VmThreads : \A r \in vm_freeing'[u].noted \ vm_freeing'[u].todo : \A g \in r : host[g] = Private
    BY <2>1 DEF AliasInv
  <2> QED  BY <2>1, <2>2, AliasSame DEF AliasInv
<1>6. ASSUME NEW t \in VmThreads, free_end(t) PROVE AliasInv'
  <2>1. /\ \A p \in Pages : vm_name'[p] = vm_name[p] \/ (vm_name'[p] = "free" /\ p \in UNION vm_freeing[t].noted)
        /\ vm_freeing' = [vm_freeing EXCEPT ![t] = NoFree] /\ vm_freeing[t].todo = {}
    BY <1>6, EndKeeps
  <2>2. \A g \in UNION vm_freeing[t].noted : host[g] = Private
    BY <2>1 DEF AliasInv
  <2>3. \A g \in Pages : vm_name'[g] # "mapped" => host[g] = Private
    BY <2>1, <2>2 DEF AliasInv
  <2>4. \A u \in VmThreads : vm_freeing'[u] = IF u = t THEN NoFree ELSE vm_freeing[u]
    BY <2>1 DEF VmTypes
  <2>5. \A u \in VmThreads : \A r \in vm_freeing'[u].noted \ vm_freeing'[u].todo : \A g \in r : host[g] = Private
    BY <2>4 DEF AliasInv, NoFree
  <2> QED  BY <2>3, <2>5, AliasSame
<1> QED  BY <1>1, <1>2, <1>3, <1>4, <1>5, <1>6 DEF VmNext

\* A mapping of direct memory takes pages.
LEMMA DmMapTakes ==
  ASSUME VmTypes, Uniform, sceKernelMapDirectMemory
  PROVE  \E a \in Pages, n \in Nat \ {0}, name \in VmNames : Taken(a, n) /\ VmTake(a, n, name)
<1>1. PICK n \in VmLengths, req \in 0..VmPages, al \in VmAligns :
        \E v \in Places(req, AlignUp(n, al), al) : VmTake(v, AlignUp(n, al), "mapped")
  BY DEF sceKernelMapDirectMemory
<1>2. PICK v \in Places(req, AlignUp(n, al), al) : VmTake(v, AlignUp(n, al), "mapped")
  BY <1>1
<1>3. AlignUp(n, al) \in Nat \ {0} /\ al \in Nat \ {0}
  BY LengthUp
<1>4. Taken(v, AlignUp(n, al))
  BY <1>3, PlacesTaken
<1>5. v \in Pages /\ "mapped" \in VmNames
  BY <1>4 DEF Taken, Room, VmNames
<1> QED  BY <1>2, <1>3, <1>4, <1>5

\* A mapping of direct memory adds one alias over private pages.
LEMMA AliasMap ==
  ASSUME VmTypes, Uniform, FreeingInv, AliasInv, DmTypes, ~MapWhileFreed, sceKernelMapDirectMemory
  PROVE  AliasInv' /\ FreeingInv' /\ VmKept
<1>1. PICK s \in dm_start \cap dm_used : \E p \in Block(s), n \in VmLengths :
         /\ Span(p, n) \subseteq Block(s)
         /\ \E req \in 0..VmPages, al \in VmAligns : \E v \in Places(req, AlignUp(n, al), al) :
              VmTake(v, AlignUp(n, al), "mapped") /\ dm_alias(v, p, n)
  BY DEF sceKernelMapDirectMemory
<1>2. PICK p \in Block(s), n \in VmLengths :
         /\ Span(p, n) \subseteq Block(s)
         /\ \E req \in 0..VmPages, al \in VmAligns : \E v \in Places(req, AlignUp(n, al), al) :
              VmTake(v, AlignUp(n, al), "mapped") /\ dm_alias(v, p, n)
  BY <1>1
<1>3. PICK req \in 0..VmPages, al \in VmAligns : \E v \in Places(req, AlignUp(n, al), al) :
              VmTake(v, AlignUp(n, al), "mapped") /\ dm_alias(v, p, n)
  BY <1>2
<1>4. PICK v \in Places(req, AlignUp(n, al), al) : VmTake(v, AlignUp(n, al), "mapped") /\ dm_alias(v, p, n)
  BY <1>3
<1> DEFINE len == AlignUp(n, al)
           W == Extent(ExtentAt(v))
<1>5. len \in Nat \ {0} /\ len >= n /\ al \in Nat \ {0} /\ n \in Nat \ {0}
  BY LengthUp
<1>6. Taken(v, len)
  BY <1>5, PlacesTaken
<1> HIDE DEF len
<1>7. v \in Pages /\ Span(v, len) \subseteq W
  BY <1>6 DEF Taken, Room
<1>8. \A g \in W : g \in Pages /\ host[g] = Private
  BY <1>6, TakenPrivate
<1>9. VmTake(v, len, "mapped") /\ "mapped" \in VmNames
  BY <1>4 DEF len, VmNames
<1>10. VmKept
  BY <1>6, <1>9, TakeKeeps
<1>11. FreeingInv'
  BY <1>6, <1>9, TakeFreeing
<1>12. /\ vm_freeing' = vm_freeing /\ \A g \in Span(v, len) : vm_name'[g] = "mapped"
       /\ \A g \in Pages \ W : vm_name'[g] = vm_name[g]
  BY <1>6, <1>9, TakeUniform DEF Taken
<1>13. /\ g_dmaps' = g_dmaps \cup {[v |-> v, n |-> n, p |-> p]}
       /\ host' = [g \in Pages |-> IF g \in Span(v, n) THEN p + (g - v) ELSE host[g]]
  BY <1>4 DEF dm_alias
<1>14. VmPages \in Nat /\ v \in Nat /\ \A x \in Pages : x \in Nat /\ x >= 1 /\ x <= VmPages
  BY <1>7, VmAssumption DEF Pages
<1>15. Span(v, n) \subseteq Span(v, len) /\ v + n - 1 \in Span(v, n)
  BY <1>5, <1>14 DEF Span
<1>16. v + n <= VmPages + 1
  <2>1. v + n - 1 \in Pages
    BY <1>7, <1>8, <1>15
  <2>2. v + n - 1 <= VmPages
    BY <1>14, <2>1
  <2> QED  BY <1>5, <1>14, <2>2
<1>17. p \in Nat /\ p + n <= DmMax /\ DmMax \in Nat
  <2>1. p \in 0..dm_total - 1 /\ dm_total \in 0..DmMax /\ DmMax \in Nat
    BY BlockIs, DmAssumption DEF DmTypes
  <2>2. p + n - 1 \in Span(p, n)
    BY <1>5, <2>1 DEF Span
  <2>3. p + n - 1 \in 0..dm_total - 1
    BY <1>2, <2>2, BlockIs
  <2> QED  BY <1>5, <2>1, <2>3
<1> DEFINE k == [v |-> v, n |-> n, p |-> p]
<1>18. k.v = v /\ k.n = n /\ k.p = p
  OBVIOUS
<1> HIDE DEF k, W
<1>19. g_dmaps' = g_dmaps \cup {k}
  BY <1>13 DEF k
<1>20. \A g \in Pages : host'[g] = IF g \in Span(v, n) THEN p + (g - v) ELSE host[g]
  BY <1>13
<1>21. AliasTypes'
  <2>1. AliasTypes
    BY DEF AliasInv
  <2> QED  BY <1>5, <1>7, <1>16, <1>17, <1>18, <1>19, <2>1 DEF AliasTypes
<1>22. \A m \in g_dmaps : \A g \in Span(m.v, m.n) : g \in Pages /\ host[g] # Private
  <2>1. SUFFICES ASSUME NEW m \in g_dmaps, NEW g \in Span(m.v, m.n) PROVE g \in Pages /\ host[g] # Private
    OBVIOUS
  <2>2. m.v \in Pages /\ m.n \in Nat \ {0} /\ m.p \in Nat /\ m.v + m.n <= VmPages + 1 /\ m.p + m.n <= DmMax
    BY DEF AliasInv, AliasTypes
  <2>3. m.v \in Nat /\ m.v >= 1 /\ g \in Int /\ m.v <= g /\ g < m.v + m.n
    BY <1>14, <2>2 DEF Span
  <2>4. g \in Pages
    BY <1>14, <2>2, <2>3 DEF Pages
  <2>5. host[g] = m.p + (g - m.v) /\ m.p + (g - m.v) < DmMax
    BY <1>17, <2>2, <2>3 DEF AliasInv
  <2> QED  BY <1>17, <2>4, <2>5 DEF Private
<1>23. \A m \in g_dmaps : Span(m.v, m.n) \cap Span(v, n) = {}
  BY <1>7, <1>8, <1>15, <1>22
<1>24. ASSUME NEW g \in Pages, host'[g] # Private
       PROVE  \E m \in g_dmaps' : g \in Span(m.v, m.n) /\ host'[g] = m.p + (g - m.v)
  <2>1. CASE g \in Span(v, n)
    BY <1>18, <1>19, <1>20, <2>1
  <2>2. CASE g \notin Span(v, n)
    BY <1>19, <1>20, <1>24, <2>2 DEF AliasInv
  <2> QED  BY <2>1, <2>2
<1>25. ASSUME NEW m \in g_dmaps', NEW g \in Span(m.v, m.n) PROVE host'[g] = m.p + (g - m.v)
  <2>1. CASE m = k
    BY <1>7, <1>8, <1>15, <1>18, <1>20, <1>25, <2>1
  <2>2. CASE m \in g_dmaps
    BY <1>20, <1>22, <1>23, <1>25, <2>2 DEF AliasInv
  <2> QED  BY <1>19, <2>1, <2>2
<1>26. ASSUME NEW g \in Pages, vm_name'[g] # "mapped" PROVE host'[g] = Private
  <2>1. g \notin Span(v, n)
    BY <1>12, <1>15, <1>26
  <2>2. host'[g] = host[g]
    BY <1>20, <2>1
  <2> QED  BY <1>8, <1>12, <1>26, <2>2 DEF AliasInv
<1>27. ASSUME NEW t \in VmThreads, NEW r \in vm_freeing'[t].noted \ vm_freeing'[t].todo, NEW g \in r
       PROVE  host'[g] = Private
  <2>1. r \in vm_freeing[t].noted /\ host[g] = Private
    BY <1>12 DEF AliasInv
  <2>2. r \cap W = {} /\ r \subseteq Pages
    <3>1. r \subseteq Pages
      BY <2>1 DEF VmTypes, VmCalls
    <3> QED  BY <1>6, <2>1, <3>1, TakenUnnoted DEF W
  <2> QED  BY <1>7, <1>15, <1>20, <2>1, <2>2
<1> QED  BY <1>10, <1>11, <1>21, <1>24, <1>25, <1>26, <1>27 DEF AliasInv

\* Detaching a range leaves of every alias what is off the range.
LEMMA AliasDetach ==
  ASSUME VmTypes, FreeingInv, AliasInv, NEW t \in VmThreads, NEW r \in vm_freeing[t].todo,
         VmDetach(t, r), ps4_direct_mem_on_unmap(r)
  PROVE  AliasInv'
<1>1. /\ vm_name' = vm_name /\ Whole(r)
      /\ \A u \in VmThreads : vm_freeing'[u].noted = vm_freeing[u].noted
      /\ \A u \in VmThreads : vm_freeing'[u].todo = IF u = t THEN vm_freeing[u].todo \ {r} ELSE vm_freeing[u].todo
  BY DetachFreeing
<1>2. /\ g_dmaps' = UNION {Remains(m, r) : m \in g_dmaps}
      /\ host' = [g \in Pages |-> IF g \in r /\ \E m \in g_dmaps : g \in Span(m.v, m.n) THEN Private ELSE host[g]]
  BY DEF ps4_direct_mem_on_unmap
<1>3. PICK a \in Pages, b \in Pages : a <= b /\ r = a..b
  BY <1>1 DEF Whole
<1>4. VmPages \in Nat /\ (\A x \in Pages : x \in Nat /\ x >= 1 /\ x <= VmPages) /\ a \in Nat /\ b \in Nat
  BY <1>3, VmAssumption DEF Pages
<1>5. DmMax \in Nat
  BY DmAssumption
<1>6. ASSUME NEW m \in g_dmaps
      PROVE  m.v \in Pages /\ m.v \in Nat /\ m.n \in Nat \ {0} /\ m.p \in Nat /\ m.v + m.n <= VmPages + 1 /\ m.p + m.n <= DmMax
  BY <1>4 DEF AliasInv, AliasTypes
<1>7. ASSUME NEW m \in g_dmaps
      PROVE  /\ \A k \in Remains(m, r) :
                 /\ k.v \in Nat /\ k.n \in Nat \ {0} /\ k.p \in Nat
                 /\ m.v <= k.v /\ k.v + k.n <= m.v + m.n /\ k.p = m.p + (k.v - m.v)
                 /\ Span(k.v, k.n) \cap r = {}
             /\ \A g \in Span(m.v, m.n) \ r : \E k \in Remains(m, r) : g \in Span(k.v, k.n)
  BY <1>3, <1>4, <1>6, RemainsIs
<1>8. ASSUME NEW m \in g_dmaps, NEW k \in Remains(m, r)
      PROVE  /\ k.v \in Pages /\ k.n \in Nat \ {0} /\ k.p \in Nat /\ k.v + k.n <= VmPages + 1 /\ k.p + k.n <= DmMax
             /\ \A g \in Span(k.v, k.n) : g \in Pages /\ g \in Span(m.v, m.n) /\ g \notin r /\ m.p + (g - m.v) = k.p + (g - k.v)
  <2>1. /\ k.v \in Nat /\ k.n \in Nat \ {0} /\ k.p \in Nat
        /\ m.v <= k.v /\ k.v + k.n <= m.v + m.n /\ k.p = m.p + (k.v - m.v)
        /\ Span(k.v, k.n) \cap r = {}
    BY <1>7
  <2>2. m.v \in Nat /\ m.v >= 1 /\ m.n \in Nat /\ m.p \in Nat /\ m.v + m.n <= VmPages + 1 /\ m.p + m.n <= DmMax
    BY <1>4, <1>6
  <2>3. k.v \in Pages /\ k.v + k.n <= VmPages + 1 /\ k.p + k.n <= DmMax
    BY <1>4, <1>5, <2>1, <2>2 DEF Pages
  <2>4. ASSUME NEW g \in Span(k.v, k.n)
        PROVE  g \in Pages /\ g \in Span(m.v, m.n) /\ g \notin r /\ m.p + (g - m.v) = k.p + (g - k.v)
    <3>1. g \in Int /\ k.v <= g /\ g < k.v + k.n
      BY <2>1 DEF Span
    <3>2. g \in Pages
      BY <1>4, <2>1, <2>2, <3>1 DEF Pages
    <3>3. g \in Span(m.v, m.n)
      BY <2>1, <2>2, <3>1 DEF Span
    <3>4. m.p + (g - m.v) = k.p + (g - k.v)
      BY <2>1, <2>2, <3>1
    <3> QED  BY <2>1, <3>2, <3>3, <3>4
  <2> QED  BY <2>1, <2>3, <2>4
<1>9. \A g \in Pages : host'[g] = IF g \in r /\ \E m \in g_dmaps : g \in Span(m.v, m.n) THEN Private ELSE host[g]
  BY <1>2
<1>10. \A k : k \in g_dmaps' <=> \E m \in g_dmaps : k \in Remains(m, r)
  BY <1>2
<1>11. AliasTypes'
  BY <1>8, <1>10 DEF AliasTypes
<1>12. ASSUME NEW g \in Pages, host'[g] # Private
       PROVE  \E k \in g_dmaps' : g \in Span(k.v, k.n) /\ host'[g] = k.p + (g - k.v)
  <2>1. host'[g] = host[g] /\ ~(g \in r /\ \E m \in g_dmaps : g \in Span(m.v, m.n))
    BY <1>9, <1>12
  <2>2. PICK m \in g_dmaps : g \in Span(m.v, m.n) /\ host[g] = m.p + (g - m.v)
    BY <1>12, <2>1 DEF AliasInv
  <2>3. PICK k \in Remains(m, r) : g \in Span(k.v, k.n)
    BY <1>7, <2>1, <2>2
  <2> QED  BY <1>8, <1>10, <2>1, <2>2, <2>3
<1>13. ASSUME NEW k \in g_dmaps', NEW g \in Span(k.v, k.n) PROVE host'[g] = k.p + (g - k.v)
  <2>1. PICK m \in g_dmaps : k \in Remains(m, r)
    BY <1>10
  <2>2. g \in Pages /\ g \in Span(m.v, m.n) /\ g \notin r /\ m.p + (g - m.v) = k.p + (g - k.v)
    BY <1>8, <2>1
  <2> QED  BY <1>9, <2>2 DEF AliasInv
<1>14. \A g \in Pages : host[g] = Private => host'[g] = Private
  BY <1>9
<1>15. \A g \in Pages : vm_name'[g] # "mapped" => host'[g] = Private
  BY <1>1, <1>14 DEF AliasInv
<1>16. ASSUME NEW u \in VmThreads, NEW q \in vm_freeing'[u].noted \ vm_freeing'[u].todo, NEW g \in q
       PROVE  host'[g] = Private
  <2>1. q \in vm_freeing[u].noted /\ q \subseteq Pages
    BY <1>1 DEF VmTypes, VmCalls
  <2>2. CASE q \notin vm_freeing[u].todo
    BY <1>14, <2>1, <2>2 DEF AliasInv
  <2>3. CASE q = r
    <3>1. host[g] # Private => \E m \in g_dmaps : g \in Span(m.v, m.n)
      BY <2>1 DEF AliasInv
    <3> QED  BY <1>9, <2>1, <2>3, <3>1
  <2> QED  BY <1>1, <2>2, <2>3
<1> QED  BY <1>11, <1>12, <1>13, <1>15, <1>16 DEF AliasInv

-----------------------------------------------------------------------------
(* Both together.                                                          *)
MemIInv ==
  /\ VmTypes /\ Uniform
  /\ DmTypes /\ BlocksUniform
  /\ MapWhileFreed \/ (FreeingInv /\ AliasInv)

\* The initial states.
LEMMA MemInitInv == DmInit => MemIInv
<1>1. SUFFICES ASSUME DmInit PROVE MemIInv
  OBVIOUS
<1>2. VmPages \in Nat \ {0} /\ DmMax \in Nat /\ DmDefault \in 1..DmMax /\ 1 \in Pages
  BY VmAssumption, DmAssumption DEF Pages
<1>3. /\ vm_start = {1} /\ vm_name = [p \in Pages |-> "free"] /\ vm_gen = 0
      /\ vm_freeing = [t \in VmThreads |-> NoFree]
  BY <1>1 DEF DmInit, VmInit
<1>4. /\ dm_start = {0} /\ dm_used = {} /\ dm_total = DmDefault /\ g_dmaps = {} /\ host = [p \in Pages |-> Private]
  BY <1>1 DEF DmInit
<1>5. VmTypes
  <2>1. StartsOK
    BY <1>2, <1>3 DEF StartsOK
  <2>2. NoFree \in VmCalls
    BY DEF NoFree, VmCalls
  <2> QED  BY <1>3, <2>1, <2>2 DEF VmTypes, VmNames
<1>6. Uniform
  <2>1. SUFFICES ASSUME NEW p \in Pages, p # 1 PROVE p - 1 \in Pages
    BY <1>3 DEF Uniform
  <2> QED  BY <1>2, <2>1 DEF Pages
<1>7. DmTypes
  BY <1>2, <1>4 DEF DmTypes
<1>8. BlocksUniform
  BY <1>2, <1>4 DEF BlocksUniform
<1>9. FreeingInv
  BY <1>3 DEF FreeingInv, NoFree
<1>10. AliasInv
  BY <1>3, <1>4 DEF AliasInv, AliasTypes, NoFree
<1> QED  BY <1>5, <1>6, <1>7, <1>8, <1>9, <1>10 DEF MemIInv

\* What an unmap notes is kept by a step on extents alone.
LEMMA FreeingStep ==
  ASSUME VmTypes, Uniform, FreeingInv, ~MapWhileFreed, VmNext
  PROVE  FreeingInv'
<1>1. CASE VmMap
  BY <1>1, MapKeeps, TakeFreeing
<1>2. CASE sceKernelMemoryPoolReserve
  BY <1>2, ReserveKeeps, TakeFreeing
<1>3. ASSUME UNCHANGED vm_freeing, vm_start \subseteq vm_start', \A p \in Pages : vm_name[p] = "free" <=> vm_name'[p] = "free"
      PROVE  FreeingInv'
  <2>1. \A t \in VmThreads : \A r \in vm_freeing[t].noted : r \subseteq Pages /\ \A g \in r : vm_name[g] # "free"
    BY DEF FreeingInv, VmTypes, VmCalls
  <2> QED  BY <1>3, <2>1, FreeingSame
<1>4. CASE sceKernelSetVirtualRangeName
  <2>1. UNCHANGED <<vm_start, vm_freeing>>
    BY <1>4 DEF sceKernelSetVirtualRangeName
  <2> QED  BY <1>3, <1>4, <2>1, RenameKeeps
<1>5. CASE sceKernelMtypeprotect
  <2>1. \E a, n \in Pages : vm_start' = SplitRange(a, n)
    BY <1>5 DEF sceKernelMtypeprotect
  <2>2. vm_start \subseteq vm_start' /\ UNCHANGED <<vm_name, vm_freeing>>
    BY <1>5, <2>1, SplitAdds DEF sceKernelMtypeprotect
  <2> QED  BY <1>3, <2>2
<1>6. CASE \E t \in VmThreads : recomp_vm_free(t) \/ free_end(t)
  BY <1>6, FreeFreeing, EndFreeing
<1> QED  BY <1>1, <1>2, <1>4, <1>5, <1>6 DEF VmNext

\* A step of another component.
LEMMA MemSameInv == MemIInv /\ UNCHANGED dm_vars => MemIInv'
<1>1. SUFFICES ASSUME MemIInv, UNCHANGED dm_vars PROVE MemIInv'
  OBVIOUS
<1>2. UNCHANGED <<vm_start, vm_name, vm_gen, vm_freeing, dm_start, dm_used, dm_total, g_dmaps, host>>
  BY <1>1 DEF dm_vars
<1>3. VmTypes' /\ Uniform' /\ DmTypes' /\ BlocksUniform'
  BY <1>1, <1>2 DEF MemIInv, VmTypes, StartsOK, Uniform, DmTypes, BlocksUniform
<1>4. ~MapWhileFreed => FreeingInv' /\ AliasInv'
  BY <1>1, <1>2 DEF MemIInv, FreeingInv, Whole, AliasInv, AliasTypes
<1> QED  BY <1>3, <1>4 DEF MemIInv

\* Every step keeps the invariant and notes a change of a page.
LEMMA MemStepInv ==
  ASSUME MemIInv, NEW lengths, lengths \subseteq Nat \ {0}, DmNext(lengths) \/ DmBlockNext(lengths)
  PROVE  MemIInv' /\ (vm_name' # vm_name => vm_gen' # vm_gen)
<1>0. VmTypes /\ Uniform /\ DmTypes /\ BlocksUniform /\ (MapWhileFreed \/ (FreeingInv /\ AliasInv))
  BY DEF MemIInv
<1>1. ASSUME DmKept, UNCHANGED <<g_dmaps, host>>, UNCHANGED vm_vars
      PROVE  MemIInv' /\ vm_name' = vm_name
  <2>1. UNCHANGED <<vm_start, vm_name, vm_gen, vm_freeing, g_dmaps, host>>
    BY <1>1 DEF vm_vars
  <2>2. VmTypes' /\ Uniform'
    BY <1>0, <2>1 DEF VmTypes, StartsOK, Uniform
  <2>3. MapWhileFreed \/ (FreeingInv' /\ AliasInv')
    BY <1>0, <2>1 DEF FreeingInv, Whole, AliasInv, AliasTypes
  <2> QED  BY <1>1, <2>1, <2>2, <2>3 DEF MemIInv, DmKept
<1>2. ASSUME VmKept, UNCHANGED blocks, MapWhileFreed \/ (FreeingInv' /\ AliasInv')
      PROVE  MemIInv' /\ (vm_name' # vm_name => vm_gen' # vm_gen)
  <2>1. DmTypes' /\ BlocksUniform'
    BY <1>0, <1>2 DEF DmTypes, BlocksUniform, blocks
  <2> QED  BY <1>2, <2>1 DEF MemIInv, VmKept
<1>3. CASE sceKernelAllocateDirectMemory(lengths)
  <2>1. UNCHANGED <<g_dmaps, host>> /\ UNCHANGED vm_vars
    BY <1>3 DEF sceKernelAllocateDirectMemory
  <2> QED  BY <1>0, <1>1, <1>3, <2>1, AllocateKeeps
<1>4. CASE sceKernelReleaseDirectMemory
  <2>1. UNCHANGED <<g_dmaps, host>> /\ UNCHANGED vm_vars
    BY <1>4 DEF sceKernelReleaseDirectMemory
  <2> QED  BY <1>0, <1>1, <1>4, <2>1, ReleaseKeeps
<1>5. CASE ps4_direct_mem_configure
  <2>1. UNCHANGED <<g_dmaps, host>> /\ UNCHANGED vm_vars
    BY <1>5 DEF ps4_direct_mem_configure
  <2> QED  BY <1>0, <1>1, <1>5, <2>1, ConfigureKeeps
<1>6. CASE VmNext /\ UNCHANGED blocks /\ UNCHANGED aliases
  <2>1. VmKept
    BY <1>0, <1>6, VmStepKeeps
  <2>2. MapWhileFreed \/ (FreeingInv' /\ AliasInv')
    BY <1>0, <1>6, FreeingStep, AliasStep
  <2> QED  BY <1>2, <1>6, <2>1, <2>2
<1>7. CASE sceKernelMapDirectMemory
  <2>1. UNCHANGED blocks
    BY <1>7 DEF sceKernelMapDirectMemory
  <2>2. VmKept
    BY <1>0, <1>7, DmMapTakes, TakeKeeps
  <2>3. MapWhileFreed \/ (FreeingInv' /\ AliasInv')
    BY <1>0, <1>7, AliasMap
  <2> QED  BY <1>2, <2>1, <2>2, <2>3
<1>8. CASE \E t \in VmThreads : free_detach(t)
  <2>1. PICK t \in VmThreads : free_detach(t)
    BY <1>8
  <2>2. PICK r \in vm_freeing[t].todo : VmDetach(t, r) /\ ps4_direct_mem_on_unmap(r) /\ UNCHANGED blocks
    BY <2>1 DEF free_detach
  <2>3. VmKept
    BY <1>0, <2>2, DetachKeeps
  <2>4. MapWhileFreed \/ (FreeingInv' /\ AliasInv')
    BY <1>0, <2>2, DetachFreeing, AliasDetach
  <2> QED  BY <1>2, <2>2, <2>3, <2>4
<1> QED  BY <1>3, <1>4, <1>5, <1>6, <1>7, <1>8 DEF DmNext, DmBlockNext

\* What the invariant gives.
LEMMA MemIs == MemIInv => ExtentsUniform /\ BlocksSound /\ AvailableAllocates /\ (~MapWhileFreed => AliasesExact)
<1>1. SUFFICES ASSUME MemIInv
               PROVE  ExtentsUniform /\ BlocksSound /\ AvailableAllocates /\ (~MapWhileFreed => AliasesExact)
  OBVIOUS
<1>2. ExtentsUniform
  BY <1>1, UniformExtents DEF MemIInv, ExtentsUniform, VmTypes, StartsOK
<1>3. BlocksSound /\ AvailableAllocates
  BY <1>1, BlocksAreSound, AvailableIsRoom DEF MemIInv
<1>4. ~MapWhileFreed => AliasesExact
  BY <1>1 DEF MemIInv, AliasInv, AliasesExact
<1> QED  BY <1>2, <1>3, <1>4
=============================================================================
