---------------------------- MODULE LibraryProofs ---------------------------
(***************************************************************************)
(* Proofs about the graphics and media libraries of MCLibraries.           *)
(***************************************************************************)
EXTENDS MCLibraries, Integers, FiniteSetTheorems, SequenceTheorems, WellFoundedInduction, TLAPS

\* Least and greatest elements.
LEMMA LeastOf ==
  ASSUME NEW S, S \subseteq Nat, S # {}
  PROVE  Min(S) \in S /\ \A y \in S : Min(S) <= y
<1> DEFINE R == OpToRel(<, Nat)
<1>1. IsWellFoundedOn(R, Nat)
  BY NatLessThanWellFounded
<1>2. \A x, y \in Nat : <<y, x>> \in R <=> y < x
  BY DEF OpToRel
<1> HIDE DEF R
<1>3. PICK x \in S : \A y \in S : ~(<<y, x>> \in R)
  BY <1>1, WFMin
<1>4. ASSUME NEW y \in S PROVE x <= y
  <2>1. x \in Nat /\ y \in Nat /\ ~(<<y, x>> \in R)
    BY <1>3
  <2>2. ~(y < x)
    BY <1>2, <2>1
  <2> QED  BY <2>1, <2>2
<1>5. QED
  BY <1>3, <1>4 DEF Min

\* A finite set without one element.
LEMMA CountMember ==
  ASSUME NEW A, IsFiniteSet(A), NEW a
  PROVE  Cardinality(A) = Cardinality(A \ {a}) + (IF a \in A THEN 1 ELSE 0)
<1>1. CASE a \in A
  <2>1. Cardinality(A) \in Nat /\ Cardinality(A \ {a}) = Cardinality(A) - 1
    BY <1>1, FS_RemoveElement, FS_CardinalityType
  <2>2. QED
    BY <1>1, <2>1
<1>2. CASE a \notin A
  <2>1. A \ {a} = A
    BY <1>2
  <2>2. Cardinality(A \ {a}) = Cardinality(A)
    BY <2>1, Zenon
  <2>3. Cardinality(A) \in Nat
    BY FS_CardinalityType
  <2>4. QED
    BY <1>2, <2>2, <2>3
<1>3. QED
  BY <1>1, <1>2

\* Two parts of a finite set that differ in one element at most.
LEMMA CountOne ==
  ASSUME NEW S, IsFiniteSet(S), NEW A \in SUBSET S, NEW B \in SUBSET S, NEW a \in S, A \ {a} = B \ {a}
  PROVE  /\ Cardinality(A) \in Nat /\ Cardinality(B) \in Nat
         /\ Cardinality(B) = Cardinality(A) + (IF a \in B THEN 1 ELSE 0) - (IF a \in A THEN 1 ELSE 0)
<1>1. IsFiniteSet(A) /\ IsFiniteSet(B) /\ IsFiniteSet(A \ {a})
  BY FS_Subset
<1>2. Cardinality(A) \in Nat /\ Cardinality(B) \in Nat /\ Cardinality(A \ {a}) \in Nat
  BY <1>1, FS_CardinalityType
<1>3. Cardinality(A) = Cardinality(A \ {a}) + (IF a \in A THEN 1 ELSE 0)
  BY <1>1, CountMember
<1>4. Cardinality(B) = Cardinality(B \ {a}) + (IF a \in B THEN 1 ELSE 0)
  BY <1>1, CountMember
<1>5. Cardinality(A \ {a}) = Cardinality(B \ {a})
  BY Zenon
<1>6. QED
  BY <1>2, <1>3, <1>4, <1>5

\* A part of a finite set that has a member, and the part of none.
LEMMA CountSome ==
  ASSUME NEW S, IsFiniteSet(S), NEW A \in SUBSET S
  PROVE  Cardinality(A) \in Nat /\ (Cardinality(A) > 0 <=> A # {})
<1>1. IsFiniteSet(A)
  BY FS_Subset
<1>2. QED
  BY <1>1, FS_CardinalityType, FS_EmptySet

-----------------------------------------------------------------------------
(* Compute rings and interrupts (GnmDriver)                                *)

GnmSpans == {s \in [at : 0..RingSize - 1, end : 1..RingSize] : s.at < s.end}
CqRecs == [pending : Seq(GnmSpans), suspended : BOOLEAN]
SlotRecs == [hw : GnmQueues \cup {"none"}, next_offs : 0..RingSize, read_ptr : 0..RingSize - 1]
BellRecs == [slot : CqSlots \cup {0}, spans : Seq(GnmSpans), next : 0..RingSize, waiting : BOOLEAN]
RingTypes ==
  /\ cqueue \in [CqSlots -> SlotRecs] /\ cq \in [CqSlots -> CqRecs] /\ bell \in BellRecs
  /\ DOMAIN g_eq_regs = 1..GNM_MAX_EQ_REGS

\* The spans of p follow one another in the ring from r up to l.
Chain(p, r, l) ==
  /\ \A j \in 1..Len(p) - 1 : p[j].end % RingSize = p[j + 1].at
  /\ p # <<>> => p[1].at = r /\ p[Len(p)].end % RingSize = l % RingSize
  /\ p = <<>> => r = l % RingSize
\* What the doorbell has for a queue, and the offset its spans end at.
BellSpans(i) == IF bell.slot = i THEN bell.spans ELSE <<>>
LastOf(i) == IF bell.slot = i THEN bell.next ELSE cqueue[i].next_offs
Ahead(i) == cq[i].pending \o BellSpans(i)
RingInv(i) ==
  /\ Chain(Ahead(i), cqueue[i].read_ptr, LastOf(i))
  /\ cq[i].suspended <=> cq[i].pending # <<>>
BellInv ==
  /\ bell.slot = 0 <=> bell = NoBell
  /\ bell # NoBell /\ bell.spans = <<>> /\ ~bell.waiting => cq[bell.slot].pending = <<>>
OneSlot == \A i, j \in CqSlots : i # j /\ cqueue[i].hw # "none" => cqueue[i].hw # cqueue[j].hw
OneReg == \A i, j \in DOMAIN g_eq_regs : i # j /\ g_eq_regs[i] # NoReg => g_eq_regs[i] # g_eq_regs[j]

RingIInv ==
  /\ RingTypes
  /\ \A i \in CqSlots : RingInv(i)
  /\ BellInv /\ OneSlot /\ OneReg

LEMMA RingFacts ==
  ASSUME RingIInv
  PROVE  /\ cqueue \in [CqSlots -> SlotRecs] /\ cq \in [CqSlots -> CqRecs] /\ bell \in BellRecs
         /\ RingSize \in Nat \ {0} /\ CqSlots \subseteq Nat \ {0} /\ 0 \notin CqSlots
         /\ \A i \in CqSlots : RingInv(i)
         /\ BellInv /\ OneSlot /\ OneReg
  BY GnmAssumption DEF RingIInv, RingTypes, CqSlots

LEMMA RingExactInv == RingIInv => RingRunsInOrder
<1> SUFFICES ASSUME RingIInv PROVE RingRunsInOrder
  OBVIOUS
<1>1. ASSUME NEW i \in CqSlots
      PROVE  LET p == cq[i].pending \o (IF bell.slot = i THEN bell.spans ELSE <<>>)
                 last == IF bell.slot = i THEN bell.next ELSE cqueue[i].next_offs
             IN  /\ \A j \in 1..Len(p) - 1 : p[j].end % RingSize = p[j + 1].at
                 /\ p # <<>> => p[1].at = cqueue[i].read_ptr /\ p[Len(p)].end % RingSize = last % RingSize
                 /\ p = <<>> => cqueue[i].read_ptr = last % RingSize
  <2>1. Chain(Ahead(i), cqueue[i].read_ptr, LastOf(i))
    BY RingFacts DEF RingInv
  <2>2. Ahead(i) = cq[i].pending \o (IF bell.slot = i THEN bell.spans ELSE <<>>)
    BY DEF Ahead, BellSpans
  <2>3. LastOf(i) = IF bell.slot = i THEN bell.next ELSE cqueue[i].next_offs
    BY DEF LastOf
  <2> SUFFICES ASSUME NEW p, p = cq[i].pending \o (IF bell.slot = i THEN bell.spans ELSE <<>>),
                      NEW last, last = IF bell.slot = i THEN bell.next ELSE cqueue[i].next_offs,
                      Chain(p, cqueue[i].read_ptr, last)
               PROVE  /\ \A j \in 1..Len(p) - 1 : p[j].end % RingSize = p[j + 1].at
                      /\ p # <<>> => p[1].at = cqueue[i].read_ptr /\ p[Len(p)].end % RingSize = last % RingSize
                      /\ p = <<>> => cqueue[i].read_ptr = last % RingSize
    BY <2>1, <2>2, <2>3, Zenon
  <2>4. QED
    BY Zenon DEF Chain
<1>2. QED
  BY <1>1, RingFacts, Zenon DEF OneSlot, OneReg, RingRunsInOrder

LEMMA RingInitInv == GnmInit => RingIInv
<1> SUFFICES ASSUME GnmInit PROVE RingIInv
  OBVIOUS
<1>1. RingSize \in Nat \ {0} /\ 0 \notin CqSlots
  BY GnmAssumption DEF CqSlots
<1>2. EmptyCq \in CqRecs /\ Unmapped \in SlotRecs /\ NoBell \in BellRecs
  BY <1>1 DEF EmptyCq, CqRecs, Unmapped, SlotRecs, NoBell, BellRecs
<1>3. RingTypes
  BY <1>2 DEF RingTypes, GnmInit
<1>4. ASSUME NEW i \in CqSlots PROVE RingInv(i)
  <2>1. /\ cq[i].pending = <<>> /\ cq[i].suspended = FALSE /\ bell.slot = 0 /\ cqueue[i].read_ptr = 0 /\ cqueue[i].next_offs = 0
    BY DEF GnmInit, EmptyCq, NoBell, Unmapped
  <2>2. Ahead(i) = <<>> /\ LastOf(i) = 0
    BY <1>1, <2>1 DEF Ahead, BellSpans, LastOf
  <2>3. Chain(<<>>, 0, 0)
    BY <1>1 DEF Chain
  <2>4. QED
    BY <2>1, <2>2, <2>3 DEF RingInv
<1>5. BellInv
  BY DEF GnmInit, BellInv, NoBell
<1>6. OneSlot /\ OneReg
  BY DEF GnmInit, OneSlot, OneReg, Unmapped
<1>7. QED
  BY <1>3, <1>4, <1>5, <1>6 DEF RingIInv

LEMMA SpanOf ==
  ASSUME RingSize \in Nat \ {0}, NEW s \in GnmSpans
  PROVE  s.at \in Nat /\ s.end \in Nat /\ s.at < s.end /\ s.at < RingSize /\ s.end <= RingSize /\ s.end # 0
  BY DEF GnmSpans

\* d is c without the spans that have run, and the read pointer is where it begins.
SpansDropped(c, d, done, n) ==
  /\ Len(d) = Len(c) - done
  /\ \A j \in 1..Len(d) : d[j].end = c[j + done].end /\ d[j].at = c[j + done].at + (IF j = 1 THEN n ELSE 0)
Moved(c, d, done, n, r, r2) ==
  /\ n > 0 => d # <<>> /\ r2 = d[1].at
  /\ n = 0 /\ done > 0 => r2 = c[done].end % RingSize
  /\ n = 0 /\ done = 0 => r2 = r
\* Spans that have run are dropped, and the first one left may begin later.
LEMMA ChainDrop ==
  ASSUME RingSize \in Nat \ {0}, NEW c \in Seq(GnmSpans), NEW d \in Seq(GnmSpans), NEW r, NEW l,
         NEW done \in 0..Len(c), NEW n \in Nat, NEW r2,
         SpansDropped(c, d, done, n), Chain(c, r, l), Moved(c, d, done, n, r, r2)
  PROVE  Chain(d, r2, l)
<1>d. /\ Len(d) = Len(c) - done
      /\ \A j \in 1..Len(d) : d[j].end = c[j + done].end /\ d[j].at = c[j + done].at + (IF j = 1 THEN n ELSE 0)
  BY DEF SpansDropped
<1>m. /\ n > 0 => d # <<>> /\ r2 = d[1].at
      /\ n = 0 /\ done > 0 => r2 = c[done].end % RingSize
      /\ n = 0 /\ done = 0 => r2 = r
  BY DEF Moved
<1>1. Len(c) \in Nat /\ Len(d) \in Nat /\ (c = <<>> <=> Len(c) = 0) /\ (d = <<>> <=> Len(d) = 0) /\ done \in Nat
  BY <1>d
<1>2. \A j \in 1..Len(c) - 1 : c[j].end % RingSize = c[j + 1].at
  BY DEF Chain
<1>3. \A j \in 1..Len(d) : j + done \in 1..Len(c) /\ d[j] \in GnmSpans /\ c[j + done] \in GnmSpans
  BY <1>1, <1>d
<1>a. \A j \in 1..Len(d) : d[j].at \in Nat /\ c[j + done].at \in Nat
  BY <1>3, SpanOf
<1>4. ASSUME NEW j \in 1..Len(d) - 1 PROVE d[j].end % RingSize = d[j + 1].at
  <2>1. j \in 1..Len(d) /\ j + 1 \in 1..Len(d) /\ j + 1 # 1 /\ j + done \in 1..Len(c) - 1 /\ (j + done) + 1 = (j + 1) + done
    BY <1>1, <1>d
  <2>2. c[j + done].end % RingSize = c[(j + 1) + done].at
    BY <1>2, <2>1
  <2>3. d[j + 1].at = c[(j + 1) + done].at + 0 /\ d[j].end = c[j + done].end /\ c[(j + 1) + done].at \in Nat
    BY <1>a, <1>d, <2>1
  <2>4. QED
    BY <2>2, <2>3
<1>5. CASE d = <<>>
  <2>1. done = Len(c) /\ n = 0
    BY <1>1, <1>5, <1>d, <1>m
  <2>2. CASE done = 0
    <3>1. c = <<>> /\ r2 = r
      BY <1>1, <1>m, <2>1, <2>2
    <3>2. r = l % RingSize
      BY <3>1 DEF Chain
    <3>3. QED
      BY <1>1, <1>4, <1>5, <3>1, <3>2 DEF Chain
  <2>3. CASE done > 0
    <3>1. c # <<>> /\ r2 = c[Len(c)].end % RingSize
      BY <1>1, <1>m, <2>1, <2>3
    <3>2. r2 = l % RingSize
      BY <3>1 DEF Chain
    <3>3. QED
      BY <1>1, <1>4, <1>5, <3>2 DEF Chain
  <2>4. QED
    BY <1>1, <2>2, <2>3
<1>6. CASE d # <<>>
  <2>1. Len(d) \in 1..Len(d) /\ 1 \in 1..Len(d) /\ Len(d) + done = Len(c) /\ c # <<>> /\ 1 + done \in 1..Len(c)
    BY <1>1, <1>6, <1>d
  <2>2. d[Len(d)].end % RingSize = l % RingSize
    <3>1. d[Len(d)].end = c[Len(c)].end
      BY <1>d, <2>1
    <3>2. c[Len(c)].end % RingSize = l % RingSize
      BY <2>1 DEF Chain
    <3>3. QED
      BY <3>1, <3>2
  <2>3. d[1].at = r2
    <3>1. CASE n > 0
      BY <1>m, <3>1
    <3>2. CASE n = 0 /\ done = 0
      <4>1. d[1].at = c[1].at /\ r2 = r
        BY <1>a, <1>d, <1>m, <2>1, <3>2
      <4>2. QED
        BY <2>1, <4>1 DEF Chain
    <3>3. CASE n = 0 /\ done > 0
      <4>1. done \in 1..Len(c) - 1 /\ done + 1 = 1 + done
        BY <1>1, <2>1, <3>3
      <4>2. c[done].end % RingSize = c[1 + done].at
        BY <1>2, <4>1
      <4>3. d[1].at = c[1 + done].at
        <5>1. d[1].at = c[1 + done].at + n /\ c[1 + done].at \in Nat
          BY <1>a, <1>d, <2>1
        <5>2. QED
          BY <3>3, <5>1
      <4>4. QED
        BY <1>m, <3>3, <4>2, <4>3
    <3>4. QED
      BY <1>1, <3>1, <3>2, <3>3
  <2>4. QED
    BY <1>4, <1>6, <2>2, <2>3 DEF Chain
<1>7. QED
  BY <1>5, <1>6

\* Two chains that meet.
LEMMA ChainCat ==
  ASSUME RingSize \in Nat \ {0}, NEW p \in Seq(GnmSpans), NEW s \in Seq(GnmSpans), NEW r, NEW m, NEW l,
         Chain(p, r, m), Chain(s, m % RingSize, l)
  PROVE  Chain(p \o s, r, l)
<1> DEFINE q == p \o s
<1>1. /\ q \in Seq(GnmSpans) /\ Len(q) = Len(p) + Len(s)
      /\ \A j \in 1..Len(p) : q[j] = p[j]
      /\ \A j \in 1..Len(s) : q[Len(p) + j] = s[j]
      /\ Len(p) \in Nat /\ Len(s) \in Nat /\ Len(q) \in Nat
  OBVIOUS
<1> HIDE DEF q
<1>2. (p = <<>> <=> Len(p) = 0) /\ (s = <<>> <=> Len(s) = 0) /\ (q = <<>> <=> Len(q) = 0)
  BY <1>1
<1>3. ASSUME NEW j \in 1..Len(q) - 1 PROVE q[j].end % RingSize = q[j + 1].at
  <2>1. CASE j < Len(p)
    <3>1. j \in 1..Len(p) - 1 /\ j \in 1..Len(p) /\ j + 1 \in 1..Len(p)
      BY <1>1, <2>1
    <3>2. QED
      BY <1>1, <3>1 DEF Chain
  <2>2. CASE j = Len(p)
    <3>1. j \in 1..Len(p) /\ 1 \in 1..Len(s) /\ p # <<>> /\ s # <<>>
      BY <1>1, <1>2, <2>2
    <3>2. q[j] = p[Len(p)] /\ q[j + 1] = s[1]
      BY <1>1, <2>2, <3>1
    <3>3. p[Len(p)].end % RingSize = m % RingSize /\ s[1].at = m % RingSize
      BY <3>1 DEF Chain
    <3>4. QED
      BY <3>2, <3>3
  <2>3. CASE j > Len(p)
    <3> DEFINE k == j - Len(p)
    <3>1. k \in 1..Len(s) - 1 /\ k \in 1..Len(s) /\ k + 1 \in 1..Len(s) /\ Len(p) + k = j /\ Len(p) + (k + 1) = j + 1
      BY <1>1, <2>3
    <3> HIDE DEF k
    <3>2. q[j] = s[k] /\ q[j + 1] = s[k + 1]
      BY <1>1, <3>1
    <3>3. s[k].end % RingSize = s[k + 1].at
      BY <3>1 DEF Chain
    <3>4. QED
      BY <3>2, <3>3
  <2>4. QED
    BY <1>1, <2>1, <2>2, <2>3
<1>4. q # <<>> => q[1].at = r /\ q[Len(q)].end % RingSize = l % RingSize
  <2> SUFFICES ASSUME q # <<>> PROVE q[1].at = r /\ q[Len(q)].end % RingSize = l % RingSize
    OBVIOUS
  <2>1. q[1].at = r
    <3>1. CASE p # <<>>
      <4>1. 1 \in 1..Len(p)
        BY <1>1, <1>2, <3>1
      <4>2. q[1] = p[1] /\ p[1].at = r
        BY <1>1, <3>1, <4>1 DEF Chain
      <4>3. QED
        BY <4>2
    <3>2. CASE p = <<>>
      <4>1. s # <<>> /\ 1 \in 1..Len(s) /\ Len(p) + 1 = 1 /\ r = m % RingSize
        BY <1>1, <1>2, <3>2 DEF Chain
      <4>2. q[1] = s[1] /\ s[1].at = m % RingSize
        BY <1>1, <4>1 DEF Chain
      <4>3. QED
        BY <4>1, <4>2
    <3>3. QED
      BY <3>1, <3>2
  <2>2. q[Len(q)].end % RingSize = l % RingSize
    <3>1. CASE s # <<>>
      <4>1. Len(s) \in 1..Len(s) /\ Len(q) = Len(p) + Len(s)
        BY <1>1, <1>2, <3>1
      <4>2. q[Len(q)] = s[Len(s)] /\ s[Len(s)].end % RingSize = l % RingSize
        BY <1>1, <3>1, <4>1 DEF Chain
      <4>3. QED
        BY <4>2
    <3>2. CASE s = <<>>
      <4>1. p # <<>> /\ Len(p) \in 1..Len(p) /\ Len(q) = Len(p) /\ m % RingSize = l % RingSize
        BY <1>1, <1>2, <3>2 DEF Chain
      <4>2. q[Len(q)] = p[Len(p)] /\ p[Len(p)].end % RingSize = m % RingSize
        BY <1>1, <4>1 DEF Chain
      <4>3. QED
        BY <4>1, <4>2
    <3>3. QED
      BY <3>1, <3>2
  <2>3. QED
    BY <2>1, <2>2
<1>5. q = <<>> => r = l % RingSize
  BY <1>1, <1>2 DEF Chain
<1>6. QED
  BY <1>3, <1>4, <1>5 DEF Chain, q

LEMMA NoneBefore ==
  ASSUME NEW S, NEW x \in S
  PROVE  <<>> \o <<x>> = <<x>>
  OBVIOUS

LEMMA TwoSpans ==
  ASSUME NEW S, NEW x \in S, NEW y \in S
  PROVE  <<x>> \o <<y>> = <<x, y>>
<1> DEFINE p == <<x>> \o <<y>>
<1>1. p \in Seq(S) /\ Len(p) = 2 /\ p[1] = x /\ p[2] = y
  OBVIOUS
<1>2. <<x, y>> \in Seq(S) /\ Len(<<x, y>>) = 2 /\ <<x, y>>[1] = x /\ <<x, y>>[2] = y
  OBVIOUS
<1> HIDE DEF p
<1> SUFFICES ASSUME NEW q, q = <<x, y>>, q \in Seq(S), Len(q) = 2, q[1] = x, q[2] = y PROVE p = q
  BY <1>2 DEF p
<1>3. \A i \in 1..Len(p) : p[i] = q[i]
  BY <1>1
<1>4. QED
  BY <1>1, <1>3

\* The spans a doorbell takes are a chain from the last offset to the new one.
LEMMA SpansChain ==
  ASSUME RingSize \in Nat \ {0}, NEW offs \in 0..RingSize, NEW next \in 0..RingSize,
         (next + RingSize - offs) % RingSize > 0
  PROVE  /\ Spans(offs, next) \in Seq(GnmSpans) /\ Spans(offs, next) # <<>>
         /\ Chain(Spans(offs, next), offs % RingSize, next)
<1>1. next # offs
  <2>1. RingSize % RingSize = 0
    OBVIOUS
  <2>2. CASE next = offs
    <3>1. next + RingSize - offs = RingSize
      BY <2>2
    <3>2. QED
      BY <2>1, <3>1
  <2>3. QED
    BY <2>2
<1>2. ~(next = 0 /\ offs = RingSize)
  <2>1. 0 % RingSize = 0
    OBVIOUS
  <2>2. CASE next = 0 /\ offs = RingSize
    <3>1. next + RingSize - offs = 0
      BY <2>2
    <3>2. QED
      BY <2>1, <3>1
  <2>3. QED
    BY <2>2
<1>3. 0 % RingSize = 0 /\ RingSize % RingSize = 0 /\ (offs < RingSize => offs % RingSize = offs)
  OBVIOUS
<1>4. ASSUME NEW a \in 0..RingSize - 1, NEW b \in 1..RingSize, a < b
      PROVE  Span2(a, b) \in GnmSpans /\ Span2(a, b).at = a /\ Span2(a, b).end = b
  BY <1>4 DEF Span2, GnmSpans
<1>5. ASSUME NEW s \in GnmSpans, s.at = offs % RingSize, s.end % RingSize = next % RingSize
      PROVE  <<s>> \in Seq(GnmSpans) /\ <<s>> # <<>> /\ Chain(<<s>>, offs % RingSize, next)
  <2>1. Len(<<s>>) = 1 /\ <<s>>[1] = s /\ 1..Len(<<s>>) - 1 = {}
    OBVIOUS
  <2>2. QED
    BY <1>5, <2>1 DEF Chain
<1>a. \A x \in GnmSpans : <<>> \o <<x>> = <<x>>
  BY NoneBefore
<1>6. CASE next > offs
  <2>a. next # offs /\ next # 0 /\ ~(next < offs) /\ Span2(offs, next) \in GnmSpans
    BY <1>4, <1>6
  <2>b. Spans(offs, next) = <<>> \o <<Span2(offs, next)>>
    BY <1>6, <2>a, Zenon DEF Spans
  <2>1. Spans(offs, next) = <<Span2(offs, next)>>
    BY <1>a, <2>a, <2>b
  <2>2. offs \in 0..RingSize - 1 /\ next \in 1..RingSize /\ offs < RingSize
    BY <1>6
  <2>3. QED
    BY <1>3, <1>4, <1>5, <1>6, <2>1, <2>2
<1>7. CASE next = 0
  <2>1. offs > 0 /\ offs < RingSize /\ offs \in 0..RingSize - 1 /\ RingSize \in 1..RingSize
    BY <1>1, <1>2, <1>7
  <2>2. Spans(offs, next) = <<Span2(offs, RingSize)>>
    BY <1>7, <2>1 DEF Spans
  <2>3. QED
    BY <1>3, <1>4, <1>5, <1>7, <2>1, <2>2, ZenonT(40)
<1>8. CASE next < offs /\ next # 0 /\ offs = RingSize
  <2>a. next # offs /\ next # 0 /\ next < offs /\ ~(offs < RingSize) /\ next > 0 /\ Span2(0, next) \in GnmSpans
    BY <1>4, <1>8
  <2>b. Spans(offs, next) = <<>> \o <<Span2(0, next)>>
    BY <2>a, Zenon DEF Spans
  <2>1. Spans(offs, next) = <<Span2(0, next)>>
    BY <1>a, <2>a, <2>b
  <2>2. 0 \in 0..RingSize - 1 /\ next \in 1..RingSize /\ 0 < next
    BY <1>8
  <2>3. QED
    BY <1>3, <1>4, <1>5, <1>8, <2>1, <2>2
<1>9. CASE next < offs /\ next # 0 /\ offs < RingSize
  <2> DEFINE x == Span2(offs, RingSize)
             y == Span2(0, next)
  <2>a. next # offs /\ next # 0 /\ next < offs /\ offs < RingSize /\ next > 0
    BY <1>9
  <2>b. Spans(offs, next) = <<x>> \o <<y>>
    BY <2>a, Zenon DEF Spans
  <2>2. offs \in 0..RingSize - 1 /\ RingSize \in 1..RingSize /\ 0 \in 0..RingSize - 1 /\ next \in 1..RingSize /\ 0 < next
    BY <1>9
  <2>3. x \in GnmSpans /\ x.at = offs /\ x.end = RingSize /\ y \in GnmSpans /\ y.at = 0 /\ y.end = next
    BY <1>4, <1>9, <2>2
  <2>1. Spans(offs, next) = <<x, y>>
    BY <2>b, <2>3, TwoSpans
  <2> HIDE DEF x, y
  <2>4. Len(<<x, y>>) = 2 /\ <<x, y>>[1] = x /\ <<x, y>>[2] = y /\ <<x, y>> # <<>> /\ <<x, y>> \in Seq(GnmSpans)
    BY <2>3
  <2>5. \A j \in 1..2 - 1 : j = 1 /\ j + 1 = 2
    OBVIOUS
  <2> SUFFICES ASSUME NEW p, p = <<x, y>>, Len(p) = 2, p[1] = x, p[2] = y, p # <<>> PROVE Chain(p, offs % RingSize, next)
    BY <2>1, <2>4
  <2>6. QED
    BY <1>3, <1>9, <2>3, <2>5 DEF Chain
<1>10. QED
  BY <1>1, <1>6, <1>7, <1>8, <1>9

LEMMA RestOf ==
  ASSUME NEW S, NEW p \in Seq(S), NEW d \in 0..Len(p)
  PROVE  LET r == SubSeq(p, d + 1, Len(p))
         IN  r \in Seq(S) /\ Len(r) = Len(p) - d /\ \A j \in 1..Len(p) - d : r[j] = p[j + d]
<1>1. Len(p) \in Nat /\ d \in Nat
  OBVIOUS
<1>2. \A j \in d + 1..Len(p) : p[j] \in S
  BY <1>1
<1>3. QED
  BY <1>1, <1>2

LEMMA FirstLater ==
  ASSUME NEW S, NEW r \in Seq(S), r # <<>>, NEW x \in S
  PROVE  LET l == [r EXCEPT ![1] = x] IN l \in Seq(S) /\ Len(l) = Len(r) /\ \A j \in 1..Len(r) : l[j] = IF j = 1 THEN x ELSE r[j]
  OBVIOUS

\* What is left of a queue's submissions when some have run and one in part.
LEMMA LeftOf ==
  ASSUME RingSize \in Nat \ {0}, NEW p \in Seq(GnmSpans), NEW done \in 0..Len(p), NEW n \in Nat,
         n > 0 => done < Len(p) /\ p[done + 1].at + n < p[done + 1].end
  PROVE  /\ Left(p, done, n) \in Seq(GnmSpans) /\ Len(Left(p, done, n)) = Len(p) - done
         /\ \A j \in 1..Len(p) - done : /\ Left(p, done, n)[j].end = p[j + done].end
                                        /\ Left(p, done, n)[j].at = p[j + done].at + (IF j = 1 THEN n ELSE 0)
<1> DEFINE rest == SubSeq(p, done + 1, Len(p))
<1>1. Len(p) \in Nat /\ done \in Nat
  OBVIOUS
<1>2. rest \in Seq(GnmSpans) /\ Len(rest) = Len(p) - done /\ \A j \in 1..Len(p) - done : rest[j] = p[j + done]
  BY RestOf
<1>3. Left(p, done, n) = IF rest = <<>> THEN <<>> ELSE [rest EXCEPT ![1].at = @ + n]
  BY DEF Left
<1> HIDE DEF rest
<1>4. rest = <<>> <=> Len(rest) = 0
  BY <1>2
<1>5. CASE rest = <<>>
  <2>1. Left(p, done, n) = <<>>
    BY <1>3, <1>5
  <2>2. Len(p) - done = 0
    BY <1>2, <1>4, <1>5
  <2>3. QED
    BY <2>1, <2>2
<1>6. CASE rest # <<>>
  <2>1. 1 \in 1..Len(p) - done /\ 1 + done = done + 1 /\ done + 1 \in 1..Len(p)
    BY <1>1, <1>2, <1>4, <1>6
  <2>2. rest[1] = p[done + 1] /\ p[done + 1] \in GnmSpans
    BY <1>2, <2>1
  <2> DEFINE s == [rest[1] EXCEPT !.at = @ + n]
  <2>3. s \in GnmSpans /\ s.end = rest[1].end /\ s.at = rest[1].at + n
    <3> SUFFICES ASSUME NEW x \in GnmSpans, n > 0 => x.at + n < x.end
                 PROVE  LET y == [x EXCEPT !.at = @ + n] IN y \in GnmSpans /\ y.end = x.end /\ y.at = x.at + n
      BY <2>2
    <3>1. x.at \in Nat /\ x.end \in Nat /\ x.at < x.end /\ x.end <= RingSize
      BY SpanOf
    <3>2. x.at + n < x.end /\ x.at + n \in 0..RingSize - 1
      BY <3>1
    <3>3. QED
      BY <3>2 DEF GnmSpans
  <2>4. Left(p, done, n) = [rest EXCEPT ![1] = s]
    BY <1>3, <1>6
  <2> HIDE DEF s
  <2>5. /\ Left(p, done, n) \in Seq(GnmSpans) /\ Len(Left(p, done, n)) = Len(rest)
        /\ \A j \in 1..Len(rest) : Left(p, done, n)[j] = IF j = 1 THEN s ELSE rest[j]
    BY <1>2, <1>6, <2>3, <2>4, FirstLater
  <2>6. ASSUME NEW j \in 1..Len(p) - done
        PROVE  Left(p, done, n)[j].end = p[j + done].end /\ Left(p, done, n)[j].at = p[j + done].at + (IF j = 1 THEN n ELSE 0)
    <3>1. j \in 1..Len(rest) /\ rest[j] = p[j + done] /\ rest[j] \in GnmSpans
      BY <1>2
    <3>2. rest[j].at \in Nat
      BY <3>1, SpanOf
    <3>3. CASE j = 1
      BY <2>3, <2>5, <3>1, <3>3
    <3>4. CASE j # 1
      BY <2>5, <3>1, <3>2, <3>4
    <3>5. QED
      BY <3>3, <3>4
  <2>7. QED
    BY <1>2, <2>5, <2>6
<1>7. QED
  BY <1>5, <1>6

\* A queue runs: what is ahead of it stays a chain from its read pointer.
LEMMA RunKeeps ==
  ASSUME RingSize \in Nat \ {0}, cqueue \in [CqSlots -> SlotRecs], cq \in [CqSlots -> CqRecs],
         NEW i \in CqSlots, NEW q \in CqRecs, Run(i, q), NEW t \in Seq(GnmSpans), NEW l,
         Chain(q.pending \o t, cqueue[i].read_ptr, l)
  PROVE  /\ cqueue' \in [CqSlots -> SlotRecs] /\ cq' \in [CqSlots -> CqRecs]
         /\ \A j \in CqSlots : j # i => cqueue'[j] = cqueue[j] /\ cq'[j] = cq[j]
         /\ cqueue'[i].hw = cqueue[i].hw /\ cqueue'[i].next_offs = cqueue[i].next_offs
         /\ cq'[i].suspended <=> cq'[i].pending # <<>>
         /\ q.pending = <<>> => cq'[i].pending = <<>>
         /\ Chain(cq'[i].pending \o t, cqueue'[i].read_ptr, l)
<1> DEFINE p == q.pending
<1>1. p \in Seq(GnmSpans)
  BY DEF CqRecs
<1>2. PICK done \in 0..Len(p), n \in 0..RingSize - 1 :
        /\ n > 0 => done < Len(p) /\ p[done + 1].at + n < p[done + 1].end
        /\ cq' = [cq EXCEPT ![i] = [pending |-> Left(p, done, n), suspended |-> Left(p, done, n) # <<>>]]
        /\ cqueue' = IF done = 0 /\ n = 0 THEN cqueue
                     ELSE [cqueue EXCEPT ![i].read_ptr = (IF n > 0 THEN Left(p, done, n)[1].at ELSE p[done].end) % RingSize]
  BY Zenon DEF Run
<1>a. n \in Nat /\ done \in 0..Len(p) /\ (n > 0 => done < Len(p) /\ p[done + 1].at + n < p[done + 1].end)
  BY <1>2
<1> DEFINE left == Left(p, done, n)
           ran == IF n > 0 THEN left[1].at ELSE p[done].end
<1>b. /\ cq' = [cq EXCEPT ![i] = [pending |-> left, suspended |-> left # <<>>]]
      /\ cqueue' = IF done = 0 /\ n = 0 THEN cqueue ELSE [cqueue EXCEPT ![i].read_ptr = ran % RingSize]
  BY <1>2, Zenon
<1>c. (n > 0 => ran = left[1].at) /\ (n = 0 => ran = p[done].end)
  <2>1. (n > 0 => ran = left[1].at) /\ (~(n > 0) => ran = p[done].end)
    BY Zenon
  <2>2. n = 0 => ~(n > 0)
    OBVIOUS
  <2>3. QED
    BY <2>1, <2>2, Zenon
<1> HIDE DEF p, left, ran
<1>3. /\ left \in Seq(GnmSpans) /\ Len(left) = Len(p) - done
      /\ \A j \in 1..Len(p) - done : left[j].end = p[j + done].end /\ left[j].at = p[j + done].at + (IF j = 1 THEN n ELSE 0)
  BY <1>1, <1>a, LeftOf DEF left
<1>4. Len(p) \in Nat /\ Len(left) \in Nat /\ done \in Nat /\ (p = <<>> <=> Len(p) = 0) /\ Len(t) \in Nat /\ (left = <<>> <=> Len(left) = 0)
  <2>1. Len(p) \in Nat /\ done \in Nat /\ (p = <<>> <=> Len(p) = 0)
    BY <1>1
  <2>2. Len(left) \in Nat /\ (left = <<>> <=> Len(left) = 0)
    BY <1>3
  <2>3. QED
    BY <2>1, <2>2
<1>e. left \in Seq(GnmSpans)
  BY <1>3
<1>d. n > 0 => left # <<>>
  BY <1>a, <1>3, <1>4
<1>5. /\ n > 0 => ran = left[1].at /\ ran \in Nat /\ ran < RingSize
      /\ n = 0 /\ done > 0 => ran = p[done].end /\ ran \in Nat
  <2>1. CASE n > 0
    <3>1. 1 \in 1..Len(left)
      BY <1>4, <1>d, <2>1
    <3>a. left[1] \in GnmSpans
      BY <1>3, <3>1
    <3>2. left[1].at \in Nat /\ left[1].at < RingSize
      BY <3>a, SpanOf
    <3>3. QED
      BY <1>c, <2>1, <3>2
  <2>2. CASE n = 0 /\ done > 0
    <3>1. done \in 1..Len(p)
      BY <1>4, <2>2
    <3>a. p[done] \in GnmSpans
      BY <1>1, <3>1
    <3>2. p[done].end \in Nat
      BY <3>a, SpanOf
    <3>3. QED
      BY <1>c, <2>2, <3>2
  <2>3. QED
    BY <2>1, <2>2
<1>6. [pending |-> left, suspended |-> left # <<>>] \in CqRecs
  BY <1>3 DEF CqRecs
<1>7. /\ cq' \in [CqSlots -> CqRecs] /\ cq'[i].pending = left /\ (cq'[i].suspended <=> left # <<>>)
      /\ \A j \in CqSlots : j # i => cq'[j] = cq[j]
  <2> DEFINE r == [pending |-> left, suspended |-> left # <<>>]
  <2>1. r.pending = left /\ r.suspended = (left # <<>>) /\ r \in CqRecs
    BY <1>6
  <2>2. cq' = [cq EXCEPT ![i] = r]
    BY <1>b
  <2> HIDE DEF r
  <2>3. cq' \in [CqSlots -> CqRecs] /\ cq'[i] = r /\ \A j \in CqSlots : j # i => cq'[j] = cq[j]
    BY <2>1, <2>2
  <2>4. QED
    BY <2>1, <2>3
<1>8. /\ cqueue' \in [CqSlots -> SlotRecs] /\ \A j \in CqSlots : j # i => cqueue'[j] = cqueue[j]
      /\ cqueue'[i].hw = cqueue[i].hw /\ cqueue'[i].next_offs = cqueue[i].next_offs
      /\ cqueue'[i].read_ptr = IF done = 0 /\ n = 0 THEN cqueue[i].read_ptr ELSE ran % RingSize
  <2>1. CASE done = 0 /\ n = 0
    <3>1. cqueue' = cqueue
      BY <1>b, <2>1
    <3>2. QED
      BY <2>1, <3>1
  <2>2. CASE ~(done = 0 /\ n = 0)
    <3>1. ran % RingSize \in 0..RingSize - 1
      BY <1>a, <1>4, <1>5, <2>2
    <3>2. cqueue' = [cqueue EXCEPT ![i].read_ptr = ran % RingSize]
      BY <1>b, <2>2
    <3> SUFFICES ASSUME NEW x \in 0..RingSize - 1, cqueue' = [cqueue EXCEPT ![i].read_ptr = x]
                 PROVE  /\ cqueue' \in [CqSlots -> SlotRecs] /\ \A j \in CqSlots : j # i => cqueue'[j] = cqueue[j]
                        /\ cqueue'[i].hw = cqueue[i].hw /\ cqueue'[i].next_offs = cqueue[i].next_offs
                        /\ cqueue'[i].read_ptr = x
      BY <2>2, <3>1, <3>2
    <3>3. QED
      BY DEF SlotRecs
  <2>3. QED
    BY <2>1, <2>2
<1>9. p = <<>> => left = <<>>
  BY <1>3, <1>4
<1> DEFINE c == p \o t
           d == left \o t
<1>10. /\ c \in Seq(GnmSpans) /\ Len(c) = Len(p) + Len(t) /\ (\A j \in 1..Len(p) : c[j] = p[j])
       /\ \A j \in 1..Len(t) : c[Len(p) + j] = t[j]
  BY <1>1
<1>11. /\ d \in Seq(GnmSpans) /\ Len(d) = Len(left) + Len(t) /\ (\A j \in 1..Len(left) : d[j] = left[j])
       /\ \A j \in 1..Len(t) : d[Len(left) + j] = t[j]
  BY <1>e
<1>12. Chain(c, cqueue[i].read_ptr, l)
  BY DEF p
<1> HIDE DEF c, d
<1>13. ASSUME NEW j \in 1..Len(d)
       PROVE  d[j].end = c[j + done].end /\ d[j].at = c[j + done].at + (IF j = 1 THEN n ELSE 0)
  <2>1. CASE j <= Len(left)
    <3>1. j \in 1..Len(left) /\ j \in 1..Len(p) - done /\ j + done \in 1..Len(p)
      BY <1>3, <1>4, <2>1
    <3>2. QED
      BY <1>3, <1>10, <1>11, <3>1
  <2>2. CASE j > Len(left)
    <3> DEFINE k == j - Len(left)
    <3>1. k \in 1..Len(t) /\ Len(left) + k = j /\ Len(p) + k = j + done
      BY <1>3, <1>4, <1>11, <2>2
    <3> HIDE DEF k
    <3>2. d[j] = t[k] /\ c[j + done] = t[k] /\ t[k] \in GnmSpans
      BY <1>10, <1>11, <3>1
    <3>3. t[k].at \in Nat
      BY <3>2, SpanOf
    <3>4. j = 1 => n = 0
      BY <1>a, <1>d, <1>4, <2>2
    <3>5. QED
      BY <3>2, <3>3, <3>4
  <2>3. QED
    BY <1>4, <2>1, <2>2
<1>14. /\ n > 0 => d # <<>> /\ cqueue'[i].read_ptr = d[1].at
       /\ n = 0 /\ done > 0 => cqueue'[i].read_ptr = c[done].end % RingSize
       /\ n = 0 /\ done = 0 => cqueue'[i].read_ptr = cqueue[i].read_ptr
  <2>1. CASE n > 0
    <3>1. 1 \in 1..Len(left) /\ d[1] = left[1] /\ Len(d) > 0
      BY <1>d, <1>4, <1>11, <2>1
    <3>a. ran \in Nat /\ ran < RingSize
      BY <1>5, <2>1
    <3>2. ran % RingSize = ran
      BY <3>a
    <3>3. d # <<>>
      BY <3>1, <1>11
    <3>4. cqueue'[i].read_ptr = ran % RingSize
      BY <1>8, <2>1
    <3>5. ran = d[1].at
      BY <1>5, <2>1, <3>1
    <3>6. cqueue'[i].read_ptr = d[1].at
      BY <3>2, <3>4, <3>5
    <3>7. QED
      BY <2>1, <3>3, <3>6
  <2>2. CASE n = 0 /\ done > 0
    <3>1. done \in 1..Len(p) /\ c[done] = p[done]
      BY <1>4, <1>10, <2>2
    <3>2. QED
      BY <1>5, <1>8, <2>2, <3>1
  <2>3. QED
    BY <1>a, <1>4, <1>8, <2>1, <2>2
<1>15. done \in 0..Len(c) /\ Len(d) = Len(c) - done
  BY <1>3, <1>4, <1>10, <1>11
<1>16. Chain(d, cqueue'[i].read_ptr, l)
  <2>1. SpansDropped(c, d, done, n)
    BY <1>13, <1>15 DEF SpansDropped
  <2>2. Moved(c, d, done, n, cqueue[i].read_ptr, cqueue'[i].read_ptr)
    BY <1>14 DEF Moved
  <2>3. c \in Seq(GnmSpans) /\ d \in Seq(GnmSpans) /\ done \in 0..Len(c) /\ n \in Nat
    BY <1>a, <1>10, <1>11, <1>15
  <2>4. QED
    BY <1>12, <2>1, <2>2, <2>3, ChainDrop
<1>17. Chain(cq'[i].pending \o t, cqueue'[i].read_ptr, l)
  BY <1>7, <1>16 DEF d
<1>18. QED
  BY <1>7, <1>8, <1>9, <1>17 DEF p

LEMMA AheadIs ==
  ASSUME RingIInv, NEW i \in CqSlots
  PROVE  /\ cq[i] \in CqRecs /\ cq[i].pending \in Seq(GnmSpans) /\ BellSpans(i) \in Seq(GnmSpans)
         /\ cqueue[i] \in SlotRecs /\ LastOf(i) \in 0..RingSize
         /\ Chain(cq[i].pending \o BellSpans(i), cqueue[i].read_ptr, LastOf(i))
         /\ cq[i].suspended <=> cq[i].pending # <<>>
<1>1. cq[i] \in CqRecs /\ cqueue[i] \in SlotRecs /\ bell \in BellRecs /\ RingInv(i)
  BY RingFacts
<1>2. cq[i].pending \in Seq(GnmSpans) /\ cqueue[i].next_offs \in 0..RingSize
  BY <1>1 DEF CqRecs, SlotRecs
<1>3. bell.spans \in Seq(GnmSpans) /\ bell.next \in 0..RingSize
  BY <1>1 DEF BellRecs
<1>4. BellSpans(i) \in Seq(GnmSpans) /\ LastOf(i) \in 0..RingSize
  BY <1>2, <1>3 DEF BellSpans, LastOf
<1>5. QED
  BY <1>1, <1>2, <1>4 DEF RingInv, Ahead

LEMMA RingResumeKeeps == ASSUME RingIInv, NEW i \in CqSlots, ResumeComputeQueues(i) PROVE RingIInv'
<1>1. Run(i, cq[i]) /\ UNCHANGED <<bell, g_eq_regs, irq_hits>>
  BY DEF ResumeComputeQueues
<1>2. /\ RingSize \in Nat \ {0} /\ cqueue \in [CqSlots -> SlotRecs] /\ cq \in [CqSlots -> CqRecs] /\ BellInv /\ OneSlot /\ OneReg
  BY RingFacts
<1>3. /\ cqueue' \in [CqSlots -> SlotRecs] /\ cq' \in [CqSlots -> CqRecs]
      /\ \A j \in CqSlots : j # i => cqueue'[j] = cqueue[j] /\ cq'[j] = cq[j]
      /\ cqueue'[i].hw = cqueue[i].hw /\ cqueue'[i].next_offs = cqueue[i].next_offs
      /\ cq'[i].suspended <=> cq'[i].pending # <<>>
      /\ cq[i].pending = <<>> => cq'[i].pending = <<>>
      /\ Chain(cq'[i].pending \o BellSpans(i), cqueue'[i].read_ptr, LastOf(i))
  BY <1>1, <1>2, AheadIs, RunKeeps
<1>4. ASSUME NEW j \in CqSlots PROVE RingInv(j)'
  <2>1. BellSpans(j)' = BellSpans(j) /\ LastOf(j)' = LastOf(j)
    BY <1>1, <1>3 DEF BellSpans, LastOf
  <2>2. CASE j = i
    BY <1>3, <2>1, <2>2, Zenon DEF RingInv, Ahead
  <2>3. CASE j # i
    <3>1. cq'[j] = cq[j] /\ cqueue'[j] = cqueue[j] /\ RingInv(j)
      BY <1>3, <2>3, RingFacts
    <3>2. QED
      BY <2>1, <3>1, Zenon DEF RingInv, Ahead
  <2>4. QED
    BY <2>2, <2>3
<1>5. BellInv'
  <2>1. bell.slot \in CqSlots \cup {0}
    BY RingFacts DEF BellRecs
  <2>2. bell # NoBell => bell.slot \in CqSlots
    BY <1>2, <2>1 DEF BellInv
  <2>3. \A j \in CqSlots : cq[j].pending = <<>> => cq'[j].pending = <<>>
    BY <1>3
  <2>4. QED
    BY <1>1, <1>2, <2>2, <2>3 DEF BellInv
<1>6. OneSlot'
  <2>1. \A j \in CqSlots : cqueue'[j].hw = cqueue[j].hw
    BY <1>3
  <2>2. QED
    BY <1>2, <2>1 DEF OneSlot
<1>7. OneReg' /\ RingTypes'
  BY <1>1, <1>2, <1>3 DEF OneReg, RingTypes, RingIInv
<1>8. QED
  BY <1>4, <1>5, <1>6, <1>7 DEF RingIInv

\* A doorbell is rung: the spans from the last offset come after what is ahead.
LEMMA RingDingdongKeeps == ASSUME RingIInv, NEW i \in CqSlots, ps4_gnm_dingdong(i) PROVE RingIInv'
<1>1. PICK next \in 0..RingSize :
        /\ Room(i, next)
        /\ bell' = [slot |-> i, spans |-> Spans(cqueue[i].next_offs, next), next |-> next, waiting |-> FALSE]
  BY DEF ps4_gnm_dingdong
<1>2. bell = NoBell /\ cqueue' = cqueue /\ cq' = cq /\ g_eq_regs' = g_eq_regs
  BY DEF ps4_gnm_dingdong
<1>3. RingSize \in Nat \ {0} /\ 0 \notin CqSlots /\ bell.slot = 0 /\ OneSlot /\ OneReg
  BY <1>2, RingFacts DEF BellInv
<1>4. cqueue[i].next_offs \in 0..RingSize /\ cqueue[i].read_ptr \in Nat
  BY AheadIs DEF SlotRecs
<1> SUFFICES ASSUME NEW s, s = Spans(cqueue[i].next_offs, next), NEW o, o = cqueue[i].next_offs PROVE RingIInv'
  OBVIOUS
<1>5. s \in Seq(GnmSpans) /\ s # <<>> /\ Chain(s, o % RingSize, next)
  <2>1. (next + RingSize - o) % RingSize > 0
    BY <1>1 DEF Room
  <2>2. QED
    BY <1>3, <1>4, <2>1, SpansChain
<1>6. bell' \in BellRecs /\ bell'.slot = i /\ bell'.spans = s /\ bell'.next = next
  BY <1>1, <1>5 DEF BellRecs
<1>7. ASSUME NEW j \in CqSlots PROVE RingInv(j)'
  <2>1. BellSpans(j) = <<>> /\ LastOf(j) = cqueue[j].next_offs
    BY <1>3 DEF BellSpans, LastOf
  <2>2. cq[j].pending \o <<>> = cq[j].pending
    BY AheadIs
  <2>3. Chain(cq[j].pending, cqueue[j].read_ptr, cqueue[j].next_offs) /\ (cq[j].suspended <=> cq[j].pending # <<>>)
    BY <2>1, <2>2, AheadIs
  <2>4. CASE j = i
    <3>1. BellSpans(j)' = s /\ LastOf(j)' = next
      BY <1>6, <2>4 DEF BellSpans, LastOf
    <3>2. Chain(cq[i].pending \o s, cqueue[i].read_ptr, next)
      BY <1>3, <1>5, <2>3, <2>4, AheadIs, ChainCat
    <3>3. QED
      BY <1>2, <2>3, <2>4, <3>1, <3>2 DEF RingInv, Ahead
  <2>5. CASE j # i
    <3>1. BellSpans(j)' = <<>> /\ LastOf(j)' = cqueue[j].next_offs
      BY <1>2, <1>6, <2>5 DEF BellSpans, LastOf
    <3>2. Ahead(j)' = cq[j].pending
      BY <1>2, <2>2, <3>1, Zenon DEF Ahead
    <3>3. QED
      BY <1>2, <2>3, <3>1, <3>2 DEF RingInv
  <2>6. QED
    BY <2>4, <2>5
<1>8. BellInv'
  BY <1>3, <1>5, <1>6 DEF BellInv, NoBell
<1>9. OneSlot' /\ OneReg' /\ RingTypes'
  BY <1>2, <1>3, <1>6 DEF OneSlot, OneReg, RingTypes, RingIInv
<1>10. QED
  BY <1>7, <1>8, <1>9 DEF RingIInv

\* The first span of a doorbell moves behind what waits, or runs.
LEMMA HeadMoves ==
  ASSUME NEW S, NEW p \in Seq(S), NEW t \in Seq(S), t # <<>>
  PROVE  /\ Head(t) \in S /\ Tail(t) \in Seq(S) /\ Append(p, Head(t)) \in Seq(S) /\ Append(p, Head(t)) # <<>>
         /\ p \o t = Append(p, Head(t)) \o Tail(t)
<1>1. /\ Head(t) \in S /\ Tail(t) \in Seq(S) /\ Append(p, Head(t)) \in Seq(S) /\ Len(t) \in Nat \ {0} /\ Len(p) \in Nat
      /\ Len(Append(p, Head(t))) = Len(p) + 1 /\ Len(Tail(t)) = Len(t) - 1
  OBVIOUS
<1> DEFINE a == p \o t
           b == Append(p, Head(t)) \o Tail(t)
<1>2. a \in Seq(S) /\ b \in Seq(S) /\ Len(a) = Len(p) + Len(t) /\ Len(b) = Len(p) + 1 + (Len(t) - 1)
  BY <1>1
<1>3. ASSUME NEW j \in 1..Len(p) + Len(t) PROVE a[j] = b[j]
  <2>1. CASE j <= Len(p)
    BY <1>1, <2>1
  <2>2. CASE j = Len(p) + 1
    BY <1>1, <2>2
  <2>3. CASE j > Len(p) + 1
    BY <1>1, <2>3
  <2>4. QED
    BY <1>1, <2>1, <2>2, <2>3
<1>4. a = b
  <2> HIDE DEF a, b
  <2>1. Len(a) = Len(b) /\ \A j \in 1..Len(a) : a[j] = b[j]
    BY <1>1, <1>2, <1>3
  <2>2. QED
    BY <1>2, <2>1
<1>5. QED
  BY <1>1, <1>4

LEMMA RingSpanKeeps == ASSUME RingIInv, gnm_process_ring_span PROVE RingIInv'
<1> DEFINE s == Head(bell.spans)
<1>1. /\ bell # NoBell /\ bell.spans # <<>> /\ g_eq_regs' = g_eq_regs /\ process_compute_packets(bell.slot, s)
      /\ bell' = [bell EXCEPT !.spans = Tail(@), !.waiting = @ \/ cq'[bell.slot].pending # <<>>]
  BY DEF gnm_process_ring_span
<1>2. /\ RingSize \in Nat \ {0} /\ cqueue \in [CqSlots -> SlotRecs] /\ cq \in [CqSlots -> CqRecs] /\ BellInv /\ OneSlot /\ OneReg
      /\ bell \in BellRecs /\ 0 \notin CqSlots
  BY RingFacts
<1>3. bell.slot \in CqSlots /\ bell.spans \in Seq(GnmSpans)
  BY <1>1, <1>2 DEF BellInv, BellRecs
<1> SUFFICES ASSUME NEW i \in CqSlots, i = bell.slot PROVE RingIInv'
  BY <1>3
<1>4. BellSpans(i) = bell.spans /\ LastOf(i) = bell.next
  BY DEF BellSpans, LastOf
<1> DEFINE q == [cq[i] EXCEPT !.pending = Append(@, s)]
           t == Tail(bell.spans)
<1>5. /\ s \in GnmSpans /\ t \in Seq(GnmSpans) /\ Append(cq[i].pending, s) \in Seq(GnmSpans) /\ Append(cq[i].pending, s) # <<>>
      /\ cq[i].pending \o bell.spans = Append(cq[i].pending, s) \o t
  <2>1. cq[i].pending \in Seq(GnmSpans)
    BY AheadIs
  <2>2. bell.spans \in Seq(GnmSpans) /\ bell.spans # <<>>
    BY <1>1, <1>3
  <2>3. ASSUME NEW b \in Seq(GnmSpans), b # <<>>, NEW p \in Seq(GnmSpans)
        PROVE  /\ Head(b) \in GnmSpans /\ Tail(b) \in Seq(GnmSpans) /\ Append(p, Head(b)) \in Seq(GnmSpans)
               /\ Append(p, Head(b)) # <<>> /\ p \o b = Append(p, Head(b)) \o Tail(b)
    BY <2>3, HeadMoves, Zenon
  <2>4. QED
    BY <2>1, <2>2, <2>3, Zenon
<1>6. Chain(Append(cq[i].pending, s) \o t, cqueue[i].read_ptr, bell.next)
  BY <1>4, <1>5, AheadIs
<1>7. q \in CqRecs /\ q.pending = Append(cq[i].pending, s) /\ q.suspended = cq[i].suspended
  BY <1>2, <1>5 DEF CqRecs
<1>8. \/ cq[i].suspended /\ cq' = [cq EXCEPT ![i] = q] /\ cqueue' = cqueue
      \/ Run(i, q)
  BY <1>1 DEF process_compute_packets
<1>9. /\ bell'.slot = i /\ bell'.spans = t /\ bell'.next = bell.next
      /\ bell'.waiting = (bell.waiting \/ cq'[i].pending # <<>>) /\ bell' \in BellRecs
  <2>1. bell' \in BellRecs
    BY <1>1, <1>2, <1>5 DEF BellRecs
  <2>2. QED
    BY <1>1, <1>2, <2>1 DEF BellRecs
<1> HIDE DEF q, t, s
<1>10. /\ cqueue' \in [CqSlots -> SlotRecs] /\ cq' \in [CqSlots -> CqRecs]
       /\ \A j \in CqSlots : j # i => cqueue'[j] = cqueue[j] /\ cq'[j] = cq[j]
       /\ cqueue'[i].hw = cqueue[i].hw
       /\ cq'[i].suspended <=> cq'[i].pending # <<>>
       /\ Chain(cq'[i].pending \o t, cqueue'[i].read_ptr, bell.next)
  <2>1. CASE cq[i].suspended /\ cq' = [cq EXCEPT ![i] = q] /\ cqueue' = cqueue
    <3>1. cq' \in [CqSlots -> CqRecs] /\ cq'[i] = q /\ \A j \in CqSlots : j # i => cq'[j] = cq[j]
      BY <1>2, <1>7, <2>1
    <3>2. QED
      BY <1>2, <1>5, <1>6, <1>7, <2>1, <3>1, Zenon
  <2>2. CASE Run(i, q)
    <3>1. Chain(q.pending \o t, cqueue[i].read_ptr, bell.next)
      BY <1>6, <1>7
    <3>2. QED
      BY <1>2, <1>5, <1>7, <2>2, <3>1, RunKeeps
  <2>3. QED
    BY <1>8, <2>1, <2>2
<1>11. ASSUME NEW j \in CqSlots PROVE RingInv(j)'
  <2>1. CASE j = i
    <3>1. BellSpans(j)' = t /\ LastOf(j)' = bell.next
      BY <1>9, <2>1 DEF BellSpans, LastOf
    <3>2. QED
      BY <1>10, <2>1, <3>1, Zenon DEF RingInv, Ahead
  <2>2. CASE j # i
    <3>1. cq'[j] = cq[j] /\ cqueue'[j] = cqueue[j] /\ RingInv(j)
      BY <1>10, <2>2, RingFacts
    <3>2. BellSpans(j)' = BellSpans(j) /\ LastOf(j)' = LastOf(j)
      BY <1>9, <2>2, <3>1 DEF BellSpans, LastOf
    <3>3. QED
      BY <3>1, <3>2, Zenon DEF RingInv, Ahead
  <2>3. QED
    BY <2>1, <2>2
<1>12. BellInv'
  <2>1. bell'.slot # 0 /\ bell' # NoBell
    BY <1>2, <1>9 DEF NoBell
  <2>2. ~bell'.waiting => cq'[i].pending = <<>>
    BY <1>9
  <2>3. QED
    BY <1>9, <2>1, <2>2 DEF BellInv
<1>13. OneSlot'
  <2>1. \A j \in CqSlots : cqueue'[j].hw = cqueue[j].hw
    BY <1>10
  <2>2. QED
    BY <1>2, <2>1 DEF OneSlot
<1>14. OneReg' /\ RingTypes'
  BY <1>1, <1>2, <1>9, <1>10 DEF OneReg, RingTypes, RingIInv
<1>15. QED
  BY <1>11, <1>12, <1>13, <1>14 DEF RingIInv

LEMMA RingEndKeeps == ASSUME RingIInv, dingdong_end PROVE RingIInv'
<1>1. /\ bell # NoBell /\ bell.spans = <<>> /\ bell' = NoBell /\ cq' = cq /\ g_eq_regs' = g_eq_regs
      /\ cqueue' = [cqueue EXCEPT ![bell.slot].next_offs = bell.next,
                                  ![bell.slot].read_ptr = IF bell.waiting THEN @ ELSE bell.next % RingSize]
  BY DEF dingdong_end
<1>2. /\ RingSize \in Nat \ {0} /\ cqueue \in [CqSlots -> SlotRecs] /\ cq \in [CqSlots -> CqRecs] /\ BellInv /\ OneSlot /\ OneReg
      /\ bell \in BellRecs /\ 0 \notin CqSlots
  BY RingFacts
<1>3. bell.slot \in CqSlots /\ bell.next \in 0..RingSize
  BY <1>1, <1>2 DEF BellInv, BellRecs
<1> SUFFICES ASSUME NEW i \in CqSlots, i = bell.slot PROVE RingIInv'
  BY <1>3
<1>4. BellSpans(i) = <<>> /\ LastOf(i) = bell.next /\ (~bell.waiting => cq[i].pending = <<>>)
  BY <1>1, <1>2 DEF BellSpans, LastOf, BellInv
<1>5. cq[i].pending \o <<>> = cq[i].pending
  BY AheadIs
<1>6. Chain(cq[i].pending, cqueue[i].read_ptr, bell.next)
  BY <1>4, <1>5, AheadIs
<1>7. bell.next % RingSize \in 0..RingSize - 1
  BY <1>2, <1>3
<1>8. /\ cqueue' \in [CqSlots -> SlotRecs] /\ \A j \in CqSlots : j # i => cqueue'[j] = cqueue[j]
      /\ cqueue'[i].hw = cqueue[i].hw /\ cqueue'[i].next_offs = bell.next
      /\ cqueue'[i].read_ptr = IF bell.waiting THEN cqueue[i].read_ptr ELSE bell.next % RingSize
  <2> SUFFICES ASSUME NEW x \in 0..RingSize - 1, NEW y \in 0..RingSize,
                      cqueue' = [cqueue EXCEPT ![i].next_offs = y, ![i].read_ptr = IF bell.waiting THEN @ ELSE x]
               PROVE  /\ cqueue' \in [CqSlots -> SlotRecs] /\ \A j \in CqSlots : j # i => cqueue'[j] = cqueue[j]
                      /\ cqueue'[i].hw = cqueue[i].hw /\ cqueue'[i].next_offs = y
                      /\ cqueue'[i].read_ptr = IF bell.waiting THEN cqueue[i].read_ptr ELSE x
    BY <1>1, <1>3, <1>7
  <2>1. QED
    BY <1>2 DEF SlotRecs
<1>9. cqueue'[i].read_ptr = cqueue[i].read_ptr
  <2>1. CASE bell.waiting
    BY <1>8, <2>1
  <2>2. CASE ~bell.waiting
    <3>1. cqueue[i].read_ptr = bell.next % RingSize
      BY <1>4, <1>6, <2>2 DEF Chain
    <3>2. QED
      BY <1>8, <2>2, <3>1
  <2>3. QED
    BY <2>1, <2>2
<1>10. NoBell.slot = 0 /\ NoBell.spans = <<>> /\ NoBell \in BellRecs
  BY <1>2 DEF NoBell, BellRecs
<1>11. ASSUME NEW j \in CqSlots PROVE RingInv(j)'
  <2>1. BellSpans(j)' = <<>> /\ LastOf(j)' = cqueue'[j].next_offs
    BY <1>1, <1>2, <1>10 DEF BellSpans, LastOf
  <2>2. CASE j = i
    <3>1. cq[i].suspended <=> cq[i].pending # <<>>
      BY AheadIs
    <3>2. cq'[i] = cq[i] /\ LastOf(i)' = bell.next /\ BellSpans(i)' = <<>>
      BY <1>1, <1>8, <2>1, <2>2
    <3>3. Ahead(i)' = cq[i].pending
      BY <1>5, <3>2, Zenon DEF Ahead
    <3>4. QED
      BY <1>6, <1>9, <2>2, <3>1, <3>2, <3>3 DEF RingInv
  <2>3. CASE j # i
    <3>1. BellSpans(j) = <<>> /\ LastOf(j) = cqueue[j].next_offs /\ cqueue'[j] = cqueue[j]
      BY <1>8, <2>3 DEF BellSpans, LastOf
    <3>2. RingInv(j)
      BY RingFacts
    <3>3. QED
      BY <1>1, <2>1, <3>1, <3>2, Zenon DEF RingInv, Ahead
  <2>4. QED
    BY <2>2, <2>3
<1>12. BellInv'
  BY <1>1, <1>10 DEF BellInv
<1>13. OneSlot'
  <2>1. \A j \in CqSlots : cqueue'[j].hw = cqueue[j].hw
    BY <1>8
  <2>2. QED
    BY <1>2, <2>1 DEF OneSlot
<1>14. OneReg' /\ RingTypes'
  BY <1>1, <1>2, <1>8, <1>10 DEF OneReg, RingTypes, RingIInv
<1>15. QED
  BY <1>11, <1>12, <1>13, <1>14 DEF RingIInv

\* A slot is mapped or unmapped, with no doorbell held.
LEMMA RingSlotMove ==
  ASSUME RingIInv, bell = NoBell, UNCHANGED <<bell, g_eq_regs>>, NEW i \in CqSlots, NEW h \in GnmQueues \cup {"none"},
         cqueue' = [cqueue EXCEPT ![i] = [Unmapped EXCEPT !.hw = h]], cq' = [cq EXCEPT ![i] = EmptyCq],
         h = "none" \/ \A j \in CqSlots : j # i => cqueue[j].hw # h
  PROVE  RingIInv'
<1>1. /\ RingSize \in Nat \ {0} /\ cqueue \in [CqSlots -> SlotRecs] /\ cq \in [CqSlots -> CqRecs] /\ BellInv /\ OneSlot /\ OneReg
      /\ bell \in BellRecs /\ 0 \notin CqSlots /\ bell.slot = 0
  BY RingFacts DEF BellInv
<1> DEFINE u == [Unmapped EXCEPT !.hw = h]
<1>2. u \in SlotRecs /\ u.hw = h /\ u.next_offs = 0 /\ u.read_ptr = 0
  BY <1>1 DEF Unmapped, SlotRecs
<1>3. EmptyCq \in CqRecs /\ EmptyCq.pending = <<>> /\ EmptyCq.suspended = FALSE
  BY DEF EmptyCq, CqRecs
<1> HIDE DEF u
<1>4. /\ cqueue' \in [CqSlots -> SlotRecs] /\ cq' \in [CqSlots -> CqRecs] /\ cqueue'[i] = u /\ cq'[i] = EmptyCq
      /\ \A j \in CqSlots : j # i => cqueue'[j] = cqueue[j] /\ cq'[j] = cq[j]
  BY <1>1, <1>2, <1>3 DEF u
<1>5. ASSUME NEW j \in CqSlots PROVE RingInv(j)'
  <2>1. BellSpans(j)' = <<>> /\ LastOf(j)' = cqueue'[j].next_offs
    BY <1>1 DEF BellSpans, LastOf
  <2>2. CASE j = i
    <3>1. <<>> \o <<>> = <<>> /\ Chain(<<>>, 0, 0)
      BY <1>1 DEF Chain
    <3>2. QED
      BY <1>2, <1>3, <1>4, <2>1, <2>2, <3>1, Zenon DEF RingInv, Ahead
  <2>3. CASE j # i
    <3>1. BellSpans(j) = <<>> /\ LastOf(j) = cqueue[j].next_offs /\ cqueue'[j] = cqueue[j] /\ cq'[j] = cq[j]
      BY <1>1, <1>4, <2>3 DEF BellSpans, LastOf
    <3>2. RingInv(j)
      BY RingFacts
    <3>3. QED
      BY <2>1, <3>1, <3>2, Zenon DEF RingInv, Ahead
  <2>4. QED
    BY <2>2, <2>3
<1>6. BellInv'
  BY <1>1 DEF BellInv
<1>7. OneSlot'
  BY <1>1, <1>2, <1>4 DEF OneSlot
<1>8. OneReg' /\ RingTypes'
  BY <1>1, <1>4 DEF OneReg, RingTypes, RingIInv
<1>9. QED
  BY <1>5, <1>6, <1>7, <1>8 DEF RingIInv

LEMMA RingMapKeeps == ASSUME RingIInv, NEW h \in GnmQueues, sceGnmMapComputeQueue(h) PROVE RingIInv'
<1> DEFINE same == {i \in CqSlots : cqueue[i].hw = h}
           free == {i \in CqSlots : cqueue[i].hw = "none"}
           s == IF same # {} THEN same ELSE free
<1>1. s \subseteq Nat /\ s # {} /\ s \subseteq CqSlots
  BY RingFacts DEF sceGnmMapComputeQueue
<1>2. PICK i \in s : i = Min(s)
  BY <1>1, LeastOf
<1>3. /\ bell = NoBell /\ UNCHANGED <<bell, g_eq_regs>>
      /\ cqueue' = [cqueue EXCEPT ![i] = [Unmapped EXCEPT !.hw = h]] /\ cq' = [cq EXCEPT ![i] = EmptyCq]
  BY <1>2 DEF sceGnmMapComputeQueue
<1>4. \A j \in CqSlots : j # i => cqueue[j].hw # h
  <2>1. CASE same # {}
    <3>1. i \in CqSlots /\ cqueue[i].hw = h
      BY <1>2, <2>1
    <3>2. h # "none"
      BY GnmAssumption
    <3>3. QED
      BY <3>1, <3>2, RingFacts DEF OneSlot
  <2>2. CASE same = {}
    BY <2>2, GnmAssumption
  <2>3. QED
    BY <2>1, <2>2
<1>5. i \in CqSlots
  BY <1>1, <1>2
<1> HIDE DEF s, same, free
<1>6. QED
  BY <1>3, <1>4, <1>5, RingSlotMove

LEMMA RingUnmapKeeps == ASSUME RingIInv, NEW i \in CqSlots, sceGnmUnmapComputeQueue(i) PROVE RingIInv'
<1>1. [Unmapped EXCEPT !.hw = "none"] = Unmapped
  BY DEF Unmapped
<1>2. /\ bell = NoBell /\ UNCHANGED <<bell, g_eq_regs>>
      /\ cqueue' = [cqueue EXCEPT ![i] = [Unmapped EXCEPT !.hw = "none"]] /\ cq' = [cq EXCEPT ![i] = EmptyCq]
  BY <1>1 DEF sceGnmUnmapComputeQueue
<1>3. QED
  BY <1>2, RingSlotMove

LEMMA RingRegs ==
  ASSUME RingIInv, UNCHANGED <<cqueue, cq, bell>>, OneReg', DOMAIN g_eq_regs' = 1..GNM_MAX_EQ_REGS
  PROVE  RingIInv'
<1>1. \A i \in CqSlots : RingInv(i)'
  BY RingFacts, Zenon DEF RingInv, Ahead, BellSpans, LastOf
<1>2. QED
  BY <1>1, RingFacts DEF RingIInv, RingTypes, BellInv, OneSlot

LEMMA RingAddKeeps == ASSUME RingIInv, NEW q \in GnmEqs, NEW id \in GnmIrqs, sceGnmAddEqEvent(q, id) PROVE RingIInv'
<1> DEFINE same == {i \in DOMAIN g_eq_regs : g_eq_regs[i] = <<q, id>>}
           free == {i \in DOMAIN g_eq_regs : g_eq_regs[i] = NoReg}
<1>1. DOMAIN g_eq_regs = 1..GNM_MAX_EQ_REGS /\ GNM_MAX_EQ_REGS \in Nat
  BY GnmAssumption DEF RingIInv, RingTypes
<1>2. same = {} /\ free # {} /\ free \subseteq Nat
  BY <1>1 DEF sceGnmAddEqEvent
<1>3. PICK k \in free : k = Min(free)
  BY <1>2, LeastOf
<1>4. g_eq_regs' = [g_eq_regs EXCEPT ![k] = <<q, id>>] /\ UNCHANGED <<cqueue, cq, bell>>
  BY <1>3 DEF sceGnmAddEqEvent
<1>5. OneReg'
  BY <1>2, <1>4, RingFacts DEF OneReg
<1>6. QED
  BY <1>1, <1>4, <1>5, RingRegs

LEMMA RingDeleteKeeps == ASSUME RingIInv, NEW q \in GnmEqs, NEW id \in GnmIrqs, sceGnmDeleteEqEvent(q, id) PROVE RingIInv'
<1>1. OneReg'
  BY RingFacts DEF OneReg, sceGnmDeleteEqEvent
<1>2. DOMAIN g_eq_regs' = 1..GNM_MAX_EQ_REGS
  BY DEF sceGnmDeleteEqEvent, RingIInv, RingTypes
<1>3. QED
  BY <1>1, <1>2, RingRegs DEF sceGnmDeleteEqEvent

LEMMA RingStepInv ==
  ASSUME RingIInv, GnmRingNext \/ GnmIrqNext \/ UNCHANGED gnm_vars
  PROVE  RingIInv'
<1>1. CASE UNCHANGED <<cqueue, cq, bell, g_eq_regs>>
  <2>1. OneReg'
    BY <1>1, RingFacts DEF OneReg
  <2>2. DOMAIN g_eq_regs' = 1..GNM_MAX_EQ_REGS
    BY <1>1 DEF RingIInv, RingTypes
  <2>3. QED
    BY <1>1, <2>1, <2>2, RingRegs
<1>2. CASE gnm_process_ring_span
  BY <1>2, RingSpanKeeps
<1>3. CASE dingdong_end
  BY <1>3, RingEndKeeps
<1>4. CASE \E i \in CqSlots : ps4_gnm_dingdong(i)
  BY <1>4, RingDingdongKeeps
<1>5. CASE \E i \in CqSlots : ResumeComputeQueues(i)
  BY <1>5, RingResumeKeeps
<1>6. CASE \E i \in CqSlots : sceGnmUnmapComputeQueue(i)
  BY <1>6, RingUnmapKeeps
<1>7. CASE \E h \in GnmQueues : sceGnmMapComputeQueue(h)
  BY <1>7, RingMapKeeps
<1>8. CASE \E q \in GnmEqs, id \in GnmIrqs : sceGnmAddEqEvent(q, id)
  BY <1>8, RingAddKeeps
<1>9. CASE \E q \in GnmEqs, id \in GnmIrqs : sceGnmDeleteEqEvent(q, id)
  BY <1>9, RingDeleteKeeps
<1>10. CASE trigger_hit \/ \E id \in GnmIrqs : ps4_gnm_signal_interrupt(id)
  BY <1>1, <1>10 DEF trigger_hit, ps4_gnm_signal_interrupt
<1>11. CASE UNCHANGED gnm_vars
  BY <1>1, <1>11 DEF gnm_vars
<1>12. QED
  BY <1>2, <1>3, <1>4, <1>5, <1>6, <1>7, <1>8, <1>9, <1>10, <1>11 DEF GnmRingNext, GnmIrqNext

-----------------------------------------------------------------------------
(* Video output (VideoOut)                                                 *)

VoFields == {"handle", "in_use", "set", "count", "pending", "label", "prev", "held", "vblanks", "eqs"}
VoFlipRecs == [handle : Nat, slot : Ports, index : Frames \cup {Blank}, arg : VoArgs, lock : BOOLEAN,
               queued : BOOLEAN, reached : BOOLEAN, sole : BOOLEAN]
\* A port; whatever queues it lists.
PortRec(v) ==
  /\ DOMAIN v = VoFields
  /\ v.handle \in Nat /\ v.in_use \in BOOLEAN /\ v.pending \in Nat /\ v.prev \in Frames \cup {Blank}
  /\ v.set \in [Frames -> 0..MAX_BUFFER_SETS] /\ v.count \in [1..MAX_BUFFER_SETS -> Nat]
  /\ v.label \in [Frames -> {0, 1}] /\ v.held \in BOOLEAN
VoTypes ==
  /\ DOMAIN vport = Ports /\ \A p \in Ports : PortRec(vport[p])
  /\ vhandles \in Nat /\ vflips \in Seq(VoFlipRecs)

\* The flips of a handle among those of s, and the indices of a set.
FlipsOf(s, h) == {j \in 1..Len(s) : s[j].handle = h}
Holding(set, k) == {i \in Frames : set[i] = k}
\* A label that is locked has a flip that will release it or hand it on.
LabelHeld(s, h, prev, i) == prev = i \/ \E j \in 1..Len(s) : s[j].reached /\ s[j].handle = h /\ s[j].index = i
LabelsKept(v, s) == \A i \in Frames : v.label[i] = 1 => LabelHeld(s, v.handle, v.prev, i)
CountsPending(v, s) == v.pending = Cardinality(FlipsOf(s, v.handle))
CountsSets(v) == \A k \in 1..MAX_BUFFER_SETS : v.count[k] = Cardinality(Holding(v.set, k))
PortInv(v, s) == v.in_use => v.handle \in 1..vhandles /\ LabelsKept(v, s) /\ CountsPending(v, s) /\ CountsSets(v)
\* The same flips, but for the history they carry.
SameFlips(r, s) ==
  /\ r \in Seq(VoFlipRecs) /\ Len(r) = Len(s)
  /\ \A k \in 1..Len(s) : /\ r[k].handle = s[k].handle /\ r[k].slot = s[k].slot /\ r[k].index = s[k].index
                          /\ r[k].lock = s[k].lock /\ r[k].reached = s[k].reached
\* A flip is one of an open port, whose handle it has.
FlipOf(f) == vport[f.slot].in_use /\ vport[f.slot].handle = f.handle /\ (f.lock => f.index # Blank)
OnePort == \A p, q \in Ports : p # q /\ vport[p].in_use /\ vport[q].in_use => vport[p].handle # vport[q].handle
EventKept == sceVideoOutGetEventData(vevent.data) = vevent.arg

VoIInv ==
  /\ VoTypes
  /\ \A p \in Ports : PortInv(vport[p], vflips)
  /\ \A j \in 1..Len(vflips) : FlipOf(vflips[j])
  /\ OnePort /\ EventKept

LEMMA VoSets == /\ Frames \subseteq Nat /\ Ports \subseteq Nat /\ Blank \in Int /\ Blank \notin Frames /\ IsFiniteSet(Frames)
                /\ MAX_BUFFER_SETS \in Nat /\ 1..MAX_BUFFER_SETS \subseteq Nat \ {0} /\ VoLow \in Nat \ {0}
<1>1. MAX_FRAME_BUFFERS \in Nat /\ MAX_FRAME_BUFFERS - 1 \in Int /\ MAX_VIDEO_HANDLES \in Nat /\ VoLow \in Nat \ {0}
  BY VoAssumption
<1>2. IsFiniteSet(Frames)
  BY <1>1, FS_Interval DEF Frames
<1>3. QED
  BY <1>1, <1>2, VoAssumption DEF Frames, Ports, Blank

\* Nothing is held of a set that counts nothing.
LEMMA VoNothing ==
  ASSUME NEW A, IsFiniteSet(A), Cardinality(A) = 0
  PROVE  A = {}
  BY FS_EmptySet

\* A port just opened.
LEMMA VoFresh ==
  ASSUME NEW h \in Nat, NEW s, \A j \in 1..Len(s) : s[j].handle # h
  PROVE  /\ PortRec(FreshPort(h)) /\ FreshPort(h).handle = h /\ FreshPort(h).in_use = (h # 0)
         /\ LabelsKept(FreshPort(h), s) /\ CountsPending(FreshPort(h), s) /\ CountsSets(FreshPort(h))
<1> DEFINE v == FreshPort(h)
<1>1. /\ v.handle = h /\ v.in_use = (h # 0) /\ v.pending = 0 /\ v.prev = Blank /\ v.held \in BOOLEAN /\ DOMAIN v = VoFields
      /\ v.set = [i \in Frames |-> 0] /\ v.count = [k \in 1..MAX_BUFFER_SETS |-> 0] /\ v.label = [i \in Frames |-> 0]
  BY DEF FreshPort, VoFields
<1> HIDE DEF v
<1>2. PortRec(v)
  BY <1>1, VoSets DEF PortRec
<1>3. LabelsKept(v, s)
  BY <1>1 DEF LabelsKept
<1>4. FlipsOf(s, h) = {}
  BY DEF FlipsOf
<1>5. CountsPending(v, s)
  BY <1>1, <1>4, FS_EmptySet DEF CountsPending
<1>6. CountsSets(v)
  <2> SUFFICES ASSUME NEW k \in 1..MAX_BUFFER_SETS PROVE v.count[k] = Cardinality(Holding(v.set, k))
    BY DEF CountsSets
  <2>1. Holding(v.set, k) = {}
    BY <1>1, VoSets DEF Holding
  <2>2. QED
    BY <1>1, <2>1, FS_EmptySet
<1>7. QED
  BY <1>1, <1>2, <1>3, <1>5, <1>6 DEF v

\* What leaves no rest is a multiple.
LEMMA NoRest ==
  ASSUME NEW l \in Nat \ {0}, NEW n \in Nat, n % l = 0
  PROVE  \E m \in Nat : n = m * l
  OBVIOUS

\* The argument comes back from the event.
LEMMA VoEvent ==
  ASSUME NEW low \in 0..VoLow - 1, NEW a \in VoArgs
  PROVE  sceVideoOutGetEventData(EventData(low, a)) = a
<1>1. VoLow \in Nat \ {0} /\ VoHalf \in Nat /\ VoHalf % VoLow = 0 /\ a \in Int /\ a * VoLow < VoHalf
  BY VoAssumption
<1>2. PICK m \in Nat : VoHalf = m * VoLow
  BY <1>1, NoRest
<1>3. a < m
  BY <1>1, <1>2
<1>4. a * VoLow + VoLow <= VoHalf
  BY <1>1, <1>2, <1>3
<1>5. EventData(low, a) = low + a * VoLow
  BY <1>1, <1>4 DEF EventData
<1>6. (low + a * VoLow) % VoLow = low
  BY <1>1
<1>7. (a * VoLow) \div VoLow = a
  BY <1>1
<1>8. (low + a * VoLow) - low = a * VoLow
  BY <1>1
<1>9. QED
  BY <1>5, <1>6, <1>7, <1>8 DEF sceVideoOutGetEventData

LEMMA VoInitInv == VoInit => VoIInv
<1> SUFFICES ASSUME VoInit PROVE VoIInv
  OBVIOUS
<1>1. vflips = <<>> /\ Len(vflips) = 0 /\ vhandles = 0 /\ \A p \in Ports : vport[p] = FreshPort(0)
  BY DEF VoInit
<1>2. PortRec(FreshPort(0)) /\ FreshPort(0).in_use = FALSE
  <2>1. \A j \in 1..Len(vflips) : vflips[j].handle # 0
    BY <1>1
  <2>2. QED
    BY <2>1, VoFresh, Zenon
<1>3. VoTypes
  BY <1>1, <1>2 DEF VoInit, VoTypes
<1>4. EventKept
  BY VoSets DEF VoInit, EventKept, NoEvent, sceVideoOutGetEventData
<1>5. QED
  BY <1>1, <1>2, <1>3, <1>4 DEF VoIInv, PortInv, OnePort

\* Flip k of s locks its label alone, and the buffer shown was flipped so.
SoleOf(s, k) ==
  LET f == s[k]
  IN  /\ f.reached /\ f.index \in Frames /\ vport[f.slot].label[f.index] = 1 /\ vport[f.slot].prev # f.index
      /\ \A m \in 1..Len(s) : m # k => ~(s[m].reached /\ s[m].slot = f.slot /\ s[m].index = f.index)
HeldOf(v) == v.held => v.prev \in Frames /\ v.label[v.prev] = 1
VoSole ==
  /\ \A k \in 1..Len(vflips) : vflips[k].sole => SoleOf(vflips, k)
  /\ \A p \in Ports : HeldOf(vport[p])

LEMMA VoExactInv == VoIInv /\ VoSole => LabelsReleased
<1> SUFFICES ASSUME VoIInv, VoSole PROVE LabelsReleased
  OBVIOUS
<1>1. DOMAIN vflips = 1..Len(vflips)
  BY DEF VoIInv, VoTypes
<1>2. ASSUME NEW p \in Ports, vport[p].in_use
      PROVE  /\ \A i \in Frames : vport[p].label[i] = 1 =>
                   \/ vport[p].prev = i
                   \/ \E j \in DOMAIN vflips : vflips[j].reached /\ vflips[j].handle = vport[p].handle /\ vflips[j].index = i
             /\ vport[p].pending = Cardinality({j \in DOMAIN vflips : vflips[j].handle = vport[p].handle})
             /\ \A k \in 1..MAX_BUFFER_SETS : vport[p].count[k] = Cardinality({i \in Frames : vport[p].set[i] = k})
  <2>1. LabelsKept(vport[p], vflips) /\ CountsPending(vport[p], vflips) /\ CountsSets(vport[p])
    BY <1>2 DEF VoIInv, PortInv
  <2>2. {j \in DOMAIN vflips : vflips[j].handle = vport[p].handle} = FlipsOf(vflips, vport[p].handle)
    BY <1>1 DEF FlipsOf
  <2>3. vport[p].pending = Cardinality({j \in DOMAIN vflips : vflips[j].handle = vport[p].handle})
    BY <2>1, <2>2, Zenon DEF CountsPending
  <2>4. QED
    BY <1>1, <2>1, <2>3 DEF LabelsKept, LabelHeld, CountsSets, Holding
<1>3. ASSUME NEW p \in Ports, vport[p].in_use
      PROVE  /\ \A j \in DOMAIN vflips : vflips[j].sole /\ vflips[j].handle = vport[p].handle => vport[p].label[vflips[j].index] = 1
             /\ vport[p].held => vport[p].label[vport[p].prev] = 1
  <2>1. ASSUME NEW j \in DOMAIN vflips, vflips[j].sole, vflips[j].handle = vport[p].handle
        PROVE  vport[p].label[vflips[j].index] = 1
    <3>1. j \in 1..Len(vflips)
      BY <1>1, <2>1
    <3>2. vflips[j] \in VoFlipRecs /\ FlipOf(vflips[j]) /\ SoleOf(vflips, j)
      BY <2>1, <3>1 DEF VoIInv, VoTypes, VoSole
    <3>3. vflips[j].slot \in Ports
      BY <3>2 DEF VoFlipRecs
    <3>4. vflips[j].slot = p
      BY <1>3, <2>1, <3>2, <3>3 DEF FlipOf, VoIInv, OnePort
    <3>5. QED
      BY <3>2, <3>4 DEF SoleOf
  <2>2. QED
    BY <2>1 DEF VoSole, HeldOf
<1>4. QED
  BY <1>2, <1>3 DEF VoIInv, EventKept, LabelsReleased

LEMMA VoFlipsSame ==
  ASSUME NEW r, NEW s, s \in Seq(VoFlipRecs), SameFlips(r, s)
  PROVE  /\ \A h : Cardinality(FlipsOf(r, h)) = Cardinality(FlipsOf(s, h))
         /\ \A v : LabelsKept(v, s) => LabelsKept(v, r)
<1>1. Len(r) = Len(s) /\ Len(s) \in Nat
  BY DEF SameFlips
<1>2. ASSUME NEW h PROVE Cardinality(FlipsOf(r, h)) = Cardinality(FlipsOf(s, h))
  <2>1. FlipsOf(r, h) = FlipsOf(s, h)
    BY <1>1 DEF SameFlips, FlipsOf
  <2>2. QED
    BY <2>1, Zenon
<1>3. ASSUME NEW v, LabelsKept(v, s) PROVE LabelsKept(v, r)
  <2>1. \A h, q, i : LabelHeld(s, h, q, i) => LabelHeld(r, h, q, i)
    BY <1>1 DEF SameFlips, LabelHeld
  <2>2. QED
    BY <1>3, <2>1 DEF LabelsKept
<1>4. QED
  BY <1>2, <1>3

\* One port changes, and stays the port it is.
LEMMA VoPortMove ==
  ASSUME VoIInv, NEW p \in Ports, vhandles' = vhandles, SameFlips(vflips', vflips), EventKept',
         DOMAIN vport' = Ports, \A q \in Ports \ {p} : vport'[q] = vport[q],
         PortRec(vport'[p]), vport'[p].handle = vport[p].handle, vport'[p].in_use = vport[p].in_use,
         vport[p].in_use => LabelsKept(vport'[p], vflips) /\ CountsSets(vport'[p]) /\ vport'[p].pending = vport[p].pending
  PROVE  VoIInv'
<1>0. vflips \in Seq(VoFlipRecs) /\ Len(vflips') = Len(vflips) /\ vflips' \in Seq(VoFlipRecs)
  BY DEF VoIInv, VoTypes, SameFlips
<1>1. VoTypes'
  BY <1>0 DEF VoIInv, VoTypes
<1>2. ASSUME NEW q \in Ports PROVE PortInv(vport[q], vflips)'
  <2>1. PortInv(vport[q], vflips)
    BY DEF VoIInv
  <2>2. /\ \A h : Cardinality(FlipsOf(vflips', h)) = Cardinality(FlipsOf(vflips, h))
        /\ \A v : LabelsKept(v, vflips) => LabelsKept(v, vflips')
    BY <1>0, VoFlipsSame
  <2>3. CASE q = p
    BY <2>1, <2>2, <2>3 DEF PortInv, CountsPending
  <2>4. CASE q # p
    BY <2>1, <2>2, <2>4 DEF PortInv, CountsPending
  <2>5. QED
    BY <2>3, <2>4
<1>3. ASSUME NEW j \in 1..Len(vflips') PROVE FlipOf(vflips[j])'
  <2>1. vflips[j] \in VoFlipRecs /\ FlipOf(vflips[j]) /\ j \in 1..Len(vflips)
    BY <1>0 DEF VoIInv, VoTypes
  <2>2. vflips[j].slot \in Ports
    BY <2>1 DEF VoFlipRecs
  <2>3. QED
    BY <2>1, <2>2 DEF FlipOf, SameFlips
<1>4. OnePort'
  <2>1. \A q \in Ports : vport'[q].handle = vport[q].handle /\ vport'[q].in_use = vport[q].in_use
    OBVIOUS
  <2>2. QED
    BY <2>1 DEF VoIInv, OnePort
<1>5. QED
  BY <1>1, <1>2, <1>3, <1>4 DEF VoIInv

LEMMA VoFacts ==
  ASSUME VoIInv, NEW p \in Ports
  PROVE  /\ DOMAIN vport = Ports /\ PortRec(vport[p]) /\ PortInv(vport[p], vflips)
         /\ vhandles \in Nat /\ vflips \in Seq(VoFlipRecs)
         /\ \A j \in 1..Len(vflips) : vflips[j] \in VoFlipRecs /\ FlipOf(vflips[j])
         /\ OnePort /\ EventKept
  BY DEF VoIInv, VoTypes
LEMMA VoState ==
  ASSUME VoIInv
  PROVE  /\ DOMAIN vport = Ports /\ vhandles \in Nat /\ vflips \in Seq(VoFlipRecs)
         /\ \A p \in Ports : PortRec(vport[p])
         /\ \A j \in 1..Len(vflips) : vflips[j] \in VoFlipRecs /\ FlipOf(vflips[j])
         /\ OnePort /\ EventKept
  BY DEF VoIInv, VoTypes

LEMMA VoFlipsKept == ASSUME VoIInv PROVE SameFlips(vflips, vflips)
  BY VoState DEF SameFlips

LEMMA VoListKeeps ==
  ASSUME VoIInv, NEW p \in Ports,
         vblank(p) \/ \E q \in VoEqs : sceVideoOutAddFlipEvent(p, q) \/ sceVideoOutDeleteFlipEvent(p, q)
  PROVE  VoIInv'
<1>1. PICK x, y : vport' = [vport EXCEPT ![p].vblanks = x] \/ vport' = [vport EXCEPT ![p].eqs = y]
  BY DEF vblank, sceVideoOutAddFlipEvent, sceVideoOutDeleteFlipEvent
<1>2. UNCHANGED <<vhandles, vflips, vevent>>
  BY DEF vblank, sceVideoOutAddFlipEvent, sceVideoOutDeleteFlipEvent
<1>3. DOMAIN vport' = Ports /\ \A q \in Ports \ {p} : vport'[q] = vport[q]
  BY <1>1, VoFacts
<1>4. /\ DOMAIN vport'[p] = VoFields
      /\ \A f \in VoFields \ {"vblanks", "eqs"} : vport'[p][f] = vport[p][f]
  BY <1>1, VoFacts DEF PortRec
<1>5. /\ vport'[p].handle = vport[p].handle /\ vport'[p].in_use = vport[p].in_use /\ vport'[p].pending = vport[p].pending
      /\ vport'[p].prev = vport[p].prev /\ vport'[p].set = vport[p].set /\ vport'[p].count = vport[p].count
      /\ vport'[p].label = vport[p].label /\ vport'[p].held = vport[p].held
  BY <1>4 DEF VoFields
<1>6. PortRec(vport'[p])
  BY <1>4, <1>5, VoFacts DEF PortRec
<1>7. vport[p].in_use => LabelsKept(vport'[p], vflips) /\ CountsSets(vport'[p])
  BY <1>5, VoFacts DEF PortInv, LabelsKept, CountsSets
<1>8. EventKept'
  BY <1>2, VoFacts DEF EventKept
<1>9. QED
  BY <1>2, <1>3, <1>5, <1>6, <1>7, <1>8, VoFlipsKept, VoPortMove

\* Only the history changes.
LEMMA VoShared ==
  ASSUME NEW s \in Seq(VoFlipRecs), NEW p, NEW I
  PROVE  /\ SameFlips(Shared(s, p, I), s)
         /\ \A k \in 1..Len(s) : Shared(s, p, I)[k].sole = (s[k].sole /\ ~(s[k].slot = p /\ s[k].index \in I))
<1> DEFINE r == Shared(s, p, I)
           g(f) == [f EXCEPT !.sole = FALSE]
<1>1. ASSUME NEW f \in VoFlipRecs
      PROVE  /\ g(f) \in VoFlipRecs /\ g(f).handle = f.handle /\ g(f).slot = f.slot /\ g(f).index = f.index
             /\ g(f).lock = f.lock /\ g(f).reached = f.reached /\ g(f).sole = FALSE
  BY DEF VoFlipRecs
<1>2. \A k \in 1..Len(s) : s[k] \in VoFlipRecs /\ s[k].sole \in BOOLEAN
  <2>1. \A k \in 1..Len(s) : s[k] \in VoFlipRecs
    OBVIOUS
  <2>2. \A f \in VoFlipRecs : f.sole \in BOOLEAN
    BY DEF VoFlipRecs
  <2>3. QED
    BY <2>1, <2>2
<1>3. r = [k \in 1..Len(s) |-> IF s[k].slot = p /\ s[k].index \in I THEN g(s[k]) ELSE s[k]]
  BY DEF Shared
<1> HIDE DEF r, g
<1>4. \A k \in 1..Len(s) : r[k] \in VoFlipRecs
  BY <1>1, <1>2, <1>3
<1>5. r \in Seq(VoFlipRecs) /\ Len(r) = Len(s)
  BY <1>3, <1>4
<1>6. \A k \in 1..Len(s) : /\ r[k].handle = s[k].handle /\ r[k].slot = s[k].slot /\ r[k].index = s[k].index
                            /\ r[k].lock = s[k].lock /\ r[k].reached = s[k].reached
                            /\ r[k].sole = (s[k].sole /\ ~(s[k].slot = p /\ s[k].index \in I))
  BY <1>1, <1>2, <1>3, ZenonT(40)
<1>7. QED
  BY <1>5, <1>6 DEF r, SameFlips

\* A set is counted, or no longer.
LEMMA VoRegisterKeeps ==
  ASSUME VoIInv, NEW p \in Ports, NEW start \in Frames, NEW n \in 1..MAX_FRAME_BUFFERS,
         sceVideoOutRegisterBuffers(p, start, n)
  PROVE  VoIInv'
<1> DEFINE free == {k \in 1..MAX_BUFFER_SETS : vport[p].count[k] = 0}
           span == start..start + n - 1
<1>1. free # {} /\ free \subseteq Nat
  BY VoSets, Zenon DEF sceVideoOutRegisterBuffers
<1>2. PICK g \in free : g = Min(free)
  BY <1>1, LeastOf
<1>3. /\ vport[p].in_use /\ span \subseteq Frames /\ \A i \in span : vport[p].set[i] = 0
      /\ vport' = [vport EXCEPT ![p].set = [i \in Frames |-> IF i \in span THEN g ELSE @[i]],
                                ![p].label = [i \in Frames |-> IF i \in span THEN 0 ELSE @[i]],
                                ![p].count[g] = n, ![p].held = @ /\ vport[p].prev \notin span]
      /\ vflips' = Shared(vflips, p, span) /\ UNCHANGED <<vhandles, vevent>>
  BY <1>2, ZenonT(40) DEF sceVideoOutRegisterBuffers
<1> DEFINE v == vport[p]
           w == vport'[p]
<1>4. PortRec(v) /\ DOMAIN vport = Ports /\ LabelsKept(v, vflips) /\ CountsSets(v)
  BY <1>3, VoFacts DEF PortInv
<1>5. g \in 1..MAX_BUFFER_SETS /\ v.count[g] = 0 /\ n \in Nat
  BY <1>2, VoAssumption
<1>6. /\ DOMAIN vport' = Ports /\ \A q \in Ports \ {p} : vport'[q] = vport[q]
      /\ DOMAIN w = VoFields /\ w.handle = v.handle /\ w.in_use = v.in_use /\ w.pending = v.pending /\ w.prev = v.prev
      /\ w.set = [i \in Frames |-> IF i \in span THEN g ELSE v.set[i]]
      /\ w.label = [i \in Frames |-> IF i \in span THEN 0 ELSE v.label[i]]
      /\ w.count = [v.count EXCEPT ![g] = n] /\ w.held = (v.held /\ v.prev \notin span)
  <2> HIDE DEF free, span
  <2>1. DOMAIN v = VoFields
    BY <1>4 DEF PortRec
  <2>2. QED
    BY <1>3, <1>4, <2>1, Zenon DEF VoFields
<1> SUFFICES ASSUME NEW z, z = w PROVE VoIInv'
  OBVIOUS
<1>a. \A i \in Frames : z.set[i] = IF i \in span THEN g ELSE v.set[i]
  BY <1>6
<1>b. span \subseteq Frames /\ \A i \in span : v.set[i] = 0
  BY <1>3
<1> HIDE DEF span, free
<1>7. PortRec(z)
  BY <1>4, <1>5, <1>6 DEF PortRec
<1>8. LabelsKept(z, vflips)
  BY <1>4, <1>6 DEF LabelsKept, LabelHeld
<1>9. CountsSets(z)
  <2> SUFFICES ASSUME NEW k \in 1..MAX_BUFFER_SETS PROVE z.count[k] = Cardinality(Holding(z.set, k))
    BY DEF CountsSets
  <2>1. v.count[k] = Cardinality(Holding(v.set, k)) /\ IsFiniteSet(Holding(v.set, g))
    BY <1>4, VoSets, FS_Subset DEF CountsSets, Holding
  <2>2. CASE k = g
    <3>1. Holding(v.set, g) = {}
      BY <1>5, <2>1, <2>2, VoNothing
    <3>2. Holding(z.set, g) = span
      BY <1>a, <1>b, <3>1 DEF Holding
    <3>3. Cardinality(span) = n
      <4>1. start \in Int /\ start + n - 1 \in Int /\ n >= 1 /\ n \in Nat
        BY VoSets, <1>5
      <4>2. QED
        BY <4>1, FS_Interval DEF span
    <3>4. Cardinality(Holding(z.set, g)) = n
      BY <3>2, <3>3, Zenon
    <3>5. z.count[g] = n
      BY <1>4, <1>5, <1>6 DEF PortRec
    <3>6. QED
      BY <2>2, <3>4, <3>5
  <2>3. CASE k # g
    <3>1. Holding(z.set, k) = Holding(v.set, k)
      BY <1>a, <1>b, <1>5, <2>3, VoSets DEF Holding
    <3>2. z.count[k] = v.count[k]
      BY <1>4, <1>6, <2>3 DEF PortRec
    <3>3. Cardinality(Holding(z.set, k)) = Cardinality(Holding(v.set, k))
      BY <3>1, Zenon
    <3>4. QED
      BY <2>1, <3>2, <3>3
  <2>4. QED
    BY <2>2, <2>3
<1>10. EventKept'
  BY <1>3, VoFacts DEF EventKept
<1>11. SameFlips(vflips', vflips)
  BY <1>3, VoState, VoShared, ZenonT(40)
<1>12. QED
  BY <1>3, <1>6, <1>7, <1>8, <1>9, <1>10, <1>11, VoPortMove, Zenon

LEMMA VoUnregisterKeeps ==
  ASSUME VoIInv, NEW p \in Ports, NEW g \in 1..MAX_BUFFER_SETS, sceVideoOutUnregisterBuffers(p, g)
  PROVE  VoIInv'
<1> DEFINE v == vport[p]
           w == vport'[p]
<1>1. PortRec(v) /\ DOMAIN vport = Ports /\ vport[p].in_use /\ LabelsKept(v, vflips) /\ CountsSets(v)
  BY VoFacts DEF PortInv, sceVideoOutUnregisterBuffers
<1>2. /\ vport' = [vport EXCEPT ![p].set = [i \in Frames |-> IF @[i] = g THEN 0 ELSE @[i]], ![p].count[g] = 0]
      /\ UNCHANGED <<vhandles, vflips, vwaits, vevent>>
  BY DEF sceVideoOutUnregisterBuffers
<1>3. /\ DOMAIN vport' = Ports /\ \A q \in Ports \ {p} : vport'[q] = vport[q]
      /\ DOMAIN w = VoFields /\ w.handle = v.handle /\ w.in_use = v.in_use /\ w.pending = v.pending /\ w.prev = v.prev
      /\ w.label = v.label /\ w.held = v.held
      /\ w.set = [i \in Frames |-> IF v.set[i] = g THEN 0 ELSE v.set[i]] /\ w.count = [v.count EXCEPT ![g] = 0]
  <2>1. DOMAIN v = VoFields
    BY <1>1 DEF PortRec
  <2>2. QED
    BY <1>1, <1>2, <2>1 DEF VoFields
<1> SUFFICES ASSUME NEW z, z = w PROVE VoIInv'
  OBVIOUS
<1>4. PortRec(z)
  <2>1. z.set \in [Frames -> 0..MAX_BUFFER_SETS]
    BY <1>1, <1>3, VoSets DEF PortRec
  <2>2. z.count \in [1..MAX_BUFFER_SETS -> Nat]
    BY <1>1, <1>3 DEF PortRec
  <2>3. QED
    BY <1>1, <1>3, <2>1, <2>2 DEF PortRec
<1>5. LabelsKept(z, vflips)
  BY <1>1, <1>3 DEF LabelsKept
<1>6. CountsSets(z)
  <2> SUFFICES ASSUME NEW k \in 1..MAX_BUFFER_SETS PROVE z.count[k] = Cardinality(Holding(z.set, k))
    BY DEF CountsSets
  <2>1. v.count[k] = Cardinality(Holding(v.set, k))
    BY <1>1 DEF CountsSets
  <2>2. CASE k = g
    <3>1. Holding(z.set, g) = {}
      BY <1>3, VoSets DEF Holding
    <3>2. z.count[g] = 0
      BY <1>1, <1>3 DEF PortRec
    <3>3. QED
      BY <2>2, <3>1, <3>2, FS_EmptySet
  <2>3. CASE k # g
    <3>1. Holding(z.set, k) = Holding(v.set, k)
      BY <1>3, <2>3, VoSets DEF Holding
    <3>2. z.count[k] = v.count[k]
      BY <1>1, <1>3, <2>3 DEF PortRec
    <3>3. Cardinality(Holding(z.set, k)) = Cardinality(Holding(v.set, k))
      BY <3>1, Zenon
    <3>4. QED
      BY <2>1, <3>2, <3>3
  <2>4. QED
    BY <2>2, <2>3
<1>7. EventKept'
  BY <1>2, VoFacts DEF EventKept
<1>8. QED
  BY <1>1, <1>2, <1>3, <1>4, <1>5, <1>6, <1>7, VoFlipsKept, VoPortMove, Zenon

LEMMA VoSame == ASSUME VoIInv, UNCHANGED <<vport, vhandles, vflips, vevent>> PROVE VoIInv'
  BY DEF VoIInv, VoTypes, PortInv, FlipOf, OnePort, EventKept

\* The lowest free slot, under a handle no flip has.
LEMMA VoOpenKeeps == ASSUME VoIInv, sceVideoOutOpen PROVE VoIInv'
<1> DEFINE free == {p \in Ports : ~vport[p].in_use}
<1>1. free # {} /\ free \subseteq Nat
  BY VoSets DEF sceVideoOutOpen
<1>2. PICK p \in free : p = Min(free)
  BY <1>1, LeastOf
<1> DEFINE h == vhandles + 1
<1>3. /\ p \in Ports /\ ~vport[p].in_use /\ vport' = [vport EXCEPT ![p] = FreshPort(h)] /\ vhandles' = h
      /\ UNCHANGED <<vflips, vevent>>
  BY <1>2 DEF sceVideoOutOpen
<1>4. DOMAIN vport' = Ports /\ vport'[p] = FreshPort(h) /\ \A q \in Ports \ {p} : vport'[q] = vport[q]
  BY <1>3, VoFacts
<1>5. vhandles \in Nat /\ h \in Nat /\ h # 0 /\ h \in 1..h /\ \A k \in 1..vhandles : k \in 1..h /\ k # h
  BY <1>3, VoFacts
<1>6. \A j \in 1..Len(vflips) : vflips[j].slot \in Ports /\ vflips[j].handle \in 1..vhandles /\ vflips[j].slot # p
  <2> SUFFICES ASSUME NEW j \in 1..Len(vflips)
               PROVE  vflips[j].slot \in Ports /\ vflips[j].handle \in 1..vhandles /\ vflips[j].slot # p
    OBVIOUS
  <2>1. vflips[j] \in VoFlipRecs /\ FlipOf(vflips[j])
    BY <1>3, VoFacts
  <2>2. vflips[j].slot \in Ports
    BY <2>1 DEF VoFlipRecs
  <2>3. PortInv(vport[vflips[j].slot], vflips)
    BY <2>2, VoFacts
  <2>4. QED
    BY <1>3, <2>1, <2>2, <2>3 DEF FlipOf, PortInv
<1>7. \A j \in 1..Len(vflips) : vflips[j].handle # h
  BY <1>5, <1>6
<1>8. /\ PortRec(vport'[p]) /\ vport'[p].handle = h /\ vport'[p].in_use
      /\ LabelsKept(vport'[p], vflips) /\ CountsPending(vport'[p], vflips) /\ CountsSets(vport'[p])
  BY <1>4, <1>5, <1>7, VoFresh, ZenonT(40)
<1> HIDE DEF h
<1>9. VoTypes'
  <2>1. \A q \in Ports : PortRec(vport'[q])
    BY <1>4, <1>8, VoFacts
  <2>2. QED
    BY <1>3, <1>4, <1>5, <2>1, VoFacts DEF VoTypes
<1>10. ASSUME NEW q \in Ports PROVE PortInv(vport[q], vflips)'
  BY <1>3, <1>4, <1>5, <1>8, VoFacts DEF PortInv
<1>11. ASSUME NEW j \in 1..Len(vflips) PROVE FlipOf(vflips[j])'
  BY <1>3, <1>4, <1>6, VoFacts DEF FlipOf
<1>12. OnePort'
  <2> SUFFICES ASSUME NEW q \in Ports, NEW r \in Ports, q # r, vport'[q].in_use, vport'[r].in_use
               PROVE  vport'[q].handle # vport'[r].handle
    BY DEF OnePort
  <2>1. \A o \in Ports \ {p} : vport'[o].in_use => vport'[o].handle # h
    BY <1>4, <1>5, VoFacts DEF PortInv
  <2>2. CASE q # p /\ r # p
    BY <1>4, <2>2, VoFacts DEF OnePort
  <2>3. QED
    BY <1>8, <2>1, <2>2
<1>13. EventKept'
  BY <1>3, VoFacts DEF EventKept
<1>14. QED
  BY <1>3, <1>9, <1>10, <1>11, <1>12, <1>13 DEF VoIInv

\* A port is closed without flips of its own.
LEMMA VoCloseKeeps == ASSUME ~CloseBusy, VoIInv, NEW p \in Ports, sceVideoOutClose(p) PROVE VoIInv'
<1>1. /\ vport' = [vport EXCEPT ![p].in_use = FALSE] /\ UNCHANGED <<vhandles, vflips, vevent>>
      /\ \A j \in 1..Len(vflips) : vflips[j].slot # p
  BY VoFacts DEF sceVideoOutClose
<1>2. /\ DOMAIN vport' = Ports /\ \A q \in Ports \ {p} : vport'[q] = vport[q]
      /\ DOMAIN vport'[p] = VoFields /\ vport'[p].in_use = FALSE
      /\ \A f \in VoFields \ {"in_use"} : vport'[p][f] = vport[p][f]
  BY <1>1, VoFacts DEF PortRec, VoFields
<1>3. PortRec(vport'[p])
  <2>1. /\ vport'[p].handle = vport[p].handle /\ vport'[p].pending = vport[p].pending
        /\ vport'[p].prev = vport[p].prev /\ vport'[p].set = vport[p].set /\ vport'[p].count = vport[p].count
        /\ vport'[p].label = vport[p].label /\ vport'[p].held = vport[p].held
    BY <1>2 DEF VoFields
  <2>2. QED
    BY <1>2, <2>1, VoFacts DEF PortRec
<1>4. VoTypes'
  BY <1>1, <1>2, <1>3, VoFacts DEF VoTypes
<1>5. ASSUME NEW q \in Ports PROVE PortInv(vport[q], vflips)'
  BY <1>1, <1>2, VoFacts DEF PortInv
<1>6. ASSUME NEW j \in 1..Len(vflips) PROVE FlipOf(vflips[j])'
  <2>1. vflips[j] \in VoFlipRecs /\ FlipOf(vflips[j]) /\ vflips[j].slot # p
    BY <1>1, VoFacts
  <2>2. vflips[j].slot \in Ports
    BY <2>1 DEF VoFlipRecs
  <2>3. QED
    BY <1>1, <1>2, <2>1, <2>2 DEF FlipOf
<1>7. OnePort'
  BY <1>2, VoFacts DEF OnePort
<1>8. EventKept'
  BY <1>1, VoFacts DEF EventKept
<1>9. QED
  BY <1>1, <1>4, <1>5, <1>6, <1>7, <1>8 DEF VoIInv

\* One flip more of a handle.
LEMMA OfMore ==
  ASSUME NEW s \in Seq(VoFlipRecs), NEW f \in VoFlipRecs, NEW h
  PROVE  /\ Append(s, f) \in Seq(VoFlipRecs) /\ Len(Append(s, f)) = Len(s) + 1 /\ Append(s, f)[Len(s) + 1] = f
         /\ \A j \in 1..Len(s) : Append(s, f)[j] = s[j]
         /\ Cardinality(FlipsOf(s, h)) \in Nat /\ Cardinality(FlipsOf(Append(s, f), h)) = Cardinality(FlipsOf(s, h)) + (IF f.handle = h THEN 1 ELSE 0)
<1> DEFINE n == Len(s) + 1
           r == Append(s, f)
<1>1. r \in Seq(VoFlipRecs) /\ Len(r) = n /\ r[n] = f /\ (\A j \in 1..Len(s) : r[j] = s[j]) /\ Len(s) \in Nat /\ n \in Nat
  OBVIOUS
<1> HIDE DEF r
<1>2. IsFiniteSet(1..n)
  BY <1>1, FS_Interval
<1>3. FlipsOf(s, h) \in SUBSET (1..n) /\ FlipsOf(r, h) \in SUBSET (1..n) /\ n \in 1..n /\ n \notin FlipsOf(s, h)
  BY <1>1 DEF FlipsOf
<1>4. FlipsOf(r, h) \ {n} = FlipsOf(s, h) \ {n} /\ (n \in FlipsOf(r, h) <=> f.handle = h)
  BY <1>1 DEF FlipsOf
<1> HIDE DEF n
<1>5. /\ Cardinality(FlipsOf(s, h)) \in Nat
      /\ Cardinality(FlipsOf(r, h)) = Cardinality(FlipsOf(s, h)) + (IF n \in FlipsOf(r, h) THEN 1 ELSE 0) - (IF n \in FlipsOf(s, h) THEN 1 ELSE 0)
  BY <1>2, <1>3, <1>4, CountOne
<1>6. Cardinality(FlipsOf(r, h)) = Cardinality(FlipsOf(s, h)) + (IF f.handle = h THEN 1 ELSE 0)
  BY <1>3, <1>4, <1>5
<1>7. QED
  BY <1>1, <1>5, <1>6 DEF n, r

\* One flip less.
LEMMA LessOne ==
  ASSUME NEW s \in Seq(VoFlipRecs), NEW j \in 1..Len(s)
  PROVE  /\ RemoveAt(s, j) \in Seq(VoFlipRecs) /\ Len(RemoveAt(s, j)) = Len(s) - 1
         /\ \A k \in 1..Len(s) - 1 : RemoveAt(s, j)[k] = s[IF k < j THEN k ELSE k + 1]
<1> DEFINE a == SubSeq(s, 1, j - 1)
           b == SubSeq(s, j + 1, Len(s))
<1>1. Len(s) \in Nat /\ j \in Nat /\ 1 <= j /\ j <= Len(s)
  OBVIOUS
<1>2. a \in Seq(VoFlipRecs) /\ Len(a) = j - 1 /\ \A k \in 1..j - 1 : a[k] = s[k]
  BY <1>1
<1>3. b \in Seq(VoFlipRecs) /\ Len(b) = Len(s) - j /\ \A k \in 1..Len(s) - j : b[k] = s[j + k]
  BY <1>1
<1> HIDE DEF a, b
<1>4. /\ a \o b \in Seq(VoFlipRecs) /\ Len(a \o b) = Len(s) - 1
      /\ \A k \in 1..Len(s) - 1 : (a \o b)[k] = IF k < j THEN a[k] ELSE b[k - (j - 1)]
  <2>1. a \o b \in Seq(VoFlipRecs) /\ Len(a \o b) = Len(a) + Len(b)
    BY <1>2, <1>3, ConcatProperties
  <2>2. \A k \in 1..Len(a) + Len(b) : (a \o b)[k] = IF k <= Len(a) THEN a[k] ELSE b[k - Len(a)]
    BY <1>2, <1>3, ConcatProperties
  <2>3. Len(a) + Len(b) = Len(s) - 1 /\ \A k \in 1..Len(s) - 1 : k <= Len(a) <=> k < j
    BY <1>1, <1>2, <1>3
  <2>4. \A k \in 1..Len(s) - 1 : (a \o b)[k] = IF k < j THEN a[k] ELSE b[k - (j - 1)]
    BY <1>2, <2>2, <2>3
  <2>5. QED
    BY <2>1, <2>3, <2>4
<1>5. \A k \in 1..Len(s) - 1 : (a \o b)[k] = s[IF k < j THEN k ELSE k + 1]
  <2> SUFFICES ASSUME NEW k \in 1..Len(s) - 1 PROVE (a \o b)[k] = s[IF k < j THEN k ELSE k + 1]
    OBVIOUS
  <2>1. CASE k < j
    BY <1>1, <1>2, <1>4, <2>1
  <2>2. CASE ~(k < j)
    <3>1. k - (j - 1) \in 1..Len(s) - j /\ j + (k - (j - 1)) = k + 1
      BY <1>1, <2>2
    <3>2. QED
      BY <1>3, <1>4, <2>2, <3>1
  <2>3. QED
    BY <2>1, <2>2
<1>6. QED
  BY <1>4, <1>5 DEF RemoveAt, a, b

LEMMA OfLess ==
  ASSUME NEW s \in Seq(VoFlipRecs), NEW j \in 1..Len(s), NEW h
  PROVE  /\ Cardinality(FlipsOf(RemoveAt(s, j), h)) \in Nat
         /\ Cardinality(FlipsOf(s, h)) = Cardinality(FlipsOf(RemoveAt(s, j), h)) + (IF s[j].handle = h THEN 1 ELSE 0)
<1> DEFINE r == RemoveAt(s, j)
<1>1. /\ Len(r) = Len(s) - 1 /\ Len(s) \in Nat /\ j \in Nat /\ 1 <= j /\ j <= Len(s)
      /\ \A k \in 1..Len(s) - 1 : r[k] = s[IF k < j THEN k ELSE k + 1]
  BY LessOne
<1> HIDE DEF r
<1>2. IsFiniteSet(1..Len(s)) /\ IsFiniteSet(1..Len(r))
  BY <1>1, FS_Interval
<1>3. IsFiniteSet(FlipsOf(s, h)) /\ IsFiniteSet(FlipsOf(r, h)) /\ IsFiniteSet(FlipsOf(s, h) \ {j})
  BY <1>2, FS_Subset DEF FlipsOf
<1>4. Cardinality(FlipsOf(s, h)) = Cardinality(FlipsOf(s, h) \ {j}) + (IF j \in FlipsOf(s, h) THEN 1 ELSE 0)
  BY <1>3, CountMember
<1>5. j \in FlipsOf(s, h) <=> s[j].handle = h
  BY <1>1 DEF FlipsOf
<1>6. Cardinality(FlipsOf(r, h)) = Cardinality(FlipsOf(s, h) \ {j})
  <2> DEFINE A == FlipsOf(r, h)
             B == FlipsOf(s, h) \ {j}
             m == [k \in A |-> IF k < j THEN k ELSE k + 1]
  <2>1. \A k \in A : k \in Nat /\ (IF k < j THEN k ELSE k + 1) \in B
    BY <1>1 DEF FlipsOf
  <2>2. \A k \in B : k \in Nat /\ k # j /\ (IF k < j THEN k ELSE k - 1) \in A
    BY <1>1 DEF FlipsOf
  <2> HIDE DEF A, B
  <2>3. m \in Bijection(A, B)
    <3>1. m \in [A -> B]
      BY <2>1
    <3>2. \A k, l \in A : m[k] = m[l] => k = l
      BY <1>1, <2>1
    <3>3. \A k \in B : m[IF k < j THEN k ELSE k - 1] = k
      BY <1>1, <2>2
    <3>4. \A k \in B : \E l \in A : m[l] = k
      BY <2>2, <3>3
    <3>5. QED
      BY <3>1, <3>2, <3>4 DEF Bijection, Injection, IsInjective, Surjection
  <2>4. ExistsBijection(A, B)
    BY <2>3 DEF ExistsBijection
  <2>5. QED
    BY <1>3, <2>4, FS_Bijection DEF A, B
<1>7. Cardinality(FlipsOf(r, h)) \in Nat
  BY <1>3, FS_CardinalityType
<1>8. QED
  BY <1>4, <1>5, <1>6, <1>7 DEF r

\* What is left of the flips without one: no flip but that one is lost.
FlipTaken(r, s, j) ==
  /\ r \in Seq(VoFlipRecs)
  /\ \A k \in 1..Len(r) : \E m \in 1..Len(s) : m # j /\ r[k] = s[m]
  /\ \A m \in 1..Len(s) : m # j => \E k \in 1..Len(r) : r[k] = s[m]
  /\ \A k, l \in 1..Len(r) : k # l => \E m, n \in 1..Len(s) : m # n /\ m # j /\ n # j /\ r[k] = s[m] /\ r[l] = s[n]
LEMMA FlipTakenOf ==
  ASSUME NEW s \in Seq(VoFlipRecs), NEW j \in 1..Len(s)
  PROVE  FlipTaken(RemoveAt(s, j), s, j)
<1> DEFINE r == RemoveAt(s, j)
           e(k) == IF k < j THEN k ELSE k + 1
<1>1. /\ r \in Seq(VoFlipRecs) /\ Len(r) = Len(s) - 1 /\ Len(s) \in Nat /\ j \in Nat /\ 1 <= j /\ j <= Len(s)
      /\ \A k \in 1..Len(s) - 1 : r[k] = s[e(k)]
  BY LessOne
<1> HIDE DEF r
<1>2. \A k \in 1..Len(r) : e(k) \in 1..Len(s) /\ e(k) # j /\ r[k] = s[e(k)]
  BY <1>1
<1>3. \A k, l \in 1..Len(r) : k # l => e(k) # e(l)
  BY <1>1
<1>4. \A m \in 1..Len(s) : m # j => (IF m < j THEN m ELSE m - 1) \in 1..Len(r) /\ e(IF m < j THEN m ELSE m - 1) = m
  BY <1>1
<1> HIDE DEF e
<1>5. \A m \in 1..Len(s) : m # j => \E k \in 1..Len(r) : r[k] = s[m]
  BY <1>2, <1>4
<1>6. \A k \in 1..Len(r) : \E m \in 1..Len(s) : m # j /\ r[k] = s[m]
  BY <1>2
<1>7. \A k, l \in 1..Len(r) : k # l => \E m, n \in 1..Len(s) : m # n /\ m # j /\ n # j /\ r[k] = s[m] /\ r[l] = s[n]
  BY <1>2, <1>3
<1>8. FlipTaken(r, s, j)
  BY <1>1, <1>5, <1>6, <1>7, Zenon DEF FlipTaken
<1>9. QED
  BY <1>8 DEF r

LEMMA VoSubmitKeeps ==
  ASSUME VoIInv, NEW p \in Ports, NEW i \in Frames \cup {Blank}, NEW a \in VoArgs, NEW gpu \in BOOLEAN,
         ps4_videoout_submit_flip(p, i, a, gpu)
  PROVE  VoIInv'
<1> DEFINE f == [handle |-> vport[p].handle, slot |-> p, index |-> i, arg |-> a, lock |-> gpu /\ i # Blank,
                 queued |-> FALSE, reached |-> FALSE, sole |-> FALSE]
<1>1. f \in VoFlipRecs /\ f.handle = vport[p].handle /\ f.slot = p /\ (f.lock => f.index # Blank)
  BY VoFacts DEF VoFlipRecs, PortRec
<1>2. vport[p].in_use /\ UNCHANGED <<vhandles, vevent>> /\ vport' = [vport EXCEPT ![p].pending = @ + 1] /\ vflips' = Append(vflips, f)
  BY DEF ps4_videoout_submit_flip
<1> HIDE DEF f
<1>3. /\ DOMAIN vport' = Ports /\ \A q \in Ports \ {p} : vport'[q] = vport[q]
      /\ DOMAIN vport'[p] = VoFields /\ vport'[p].pending = vport[p].pending + 1
      /\ \A x \in VoFields \ {"pending"} : vport'[p][x] = vport[p][x]
  BY <1>2, VoFacts DEF PortRec, VoFields
<1>4. /\ vport'[p].handle = vport[p].handle /\ vport'[p].in_use = vport[p].in_use
      /\ vport'[p].prev = vport[p].prev /\ vport'[p].set = vport[p].set /\ vport'[p].count = vport[p].count
      /\ vport'[p].label = vport[p].label /\ vport'[p].held = vport[p].held
  BY <1>3 DEF VoFields
<1>5. PortRec(vport'[p])
  BY <1>3, <1>4, VoFacts DEF PortRec
<1>6. vflips \in Seq(VoFlipRecs) /\ Len(vflips) \in Nat
  BY VoFacts
<1>7. /\ vflips' \in Seq(VoFlipRecs) /\ Len(vflips') = Len(vflips) + 1 /\ vflips'[Len(vflips) + 1] = f
      /\ \A j \in 1..Len(vflips) : vflips'[j] = vflips[j]
      /\ \A h : Cardinality(FlipsOf(vflips, h)) \in Nat /\ Cardinality(FlipsOf(vflips', h)) = Cardinality(FlipsOf(vflips, h)) + (IF f.handle = h THEN 1 ELSE 0)
  BY <1>1, <1>2, <1>6, OfMore
<1>8. VoTypes'
  BY <1>2, <1>3, <1>5, <1>7, VoFacts DEF VoTypes
<1>9. ASSUME NEW q \in Ports PROVE PortInv(vport[q], vflips)'
  <2> SUFFICES ASSUME vport'[q].in_use
               PROVE  /\ vport'[q].handle \in 1..vhandles /\ LabelsKept(vport'[q], vflips') /\ CountsPending(vport'[q], vflips')
                      /\ CountsSets(vport'[q])
    BY <1>2 DEF PortInv
  <2>1. /\ vport'[q].handle = vport[q].handle /\ vport[q].in_use /\ vport'[q].prev = vport[q].prev
        /\ vport'[q].set = vport[q].set /\ vport'[q].count = vport[q].count /\ vport'[q].label = vport[q].label
        /\ vport'[q].pending = vport[q].pending + (IF p = q THEN 1 ELSE 0)
    <3>1. CASE q = p
      BY <1>3, <1>4, <3>1
    <3>2. CASE q # p
      BY <1>3, <3>2, VoFacts DEF PortRec
    <3>3. QED
      BY <3>1, <3>2
  <2>2. /\ vport[q].handle \in 1..vhandles /\ LabelsKept(vport[q], vflips) /\ CountsPending(vport[q], vflips)
        /\ CountsSets(vport[q])
    BY <2>1, VoFacts DEF PortInv
  <2>3. LabelsKept(vport'[q], vflips')
    <3>1. \A j \in 1..Len(vflips) : j \in 1..Len(vflips')
      BY <1>6, <1>7
    <3>2. QED
      BY <1>7, <2>1, <2>2, <3>1 DEF LabelsKept, LabelHeld
  <2>4. f.handle = vport[q].handle <=> p = q
    BY <1>1, <1>2, <2>1, VoFacts DEF OnePort
  <2>5. CountsPending(vport'[q], vflips')
    BY <1>7, <2>1, <2>2, <2>4 DEF CountsPending
  <2>6. QED
    BY <2>1, <2>2, <2>3, <2>5 DEF CountsSets
<1>10. \A q \in Ports : vport'[q].handle = vport[q].handle /\ vport'[q].in_use = vport[q].in_use
  BY <1>3, <1>4
<1>11. ASSUME NEW j \in 1..Len(vflips') PROVE FlipOf(vflips[j])'
  <2>1. CASE j = Len(vflips) + 1
    BY <1>1, <1>2, <1>7, <1>10, <2>1 DEF FlipOf
  <2>2. CASE j # Len(vflips) + 1
    <3>1. j \in 1..Len(vflips)
      BY <1>6, <1>7, <2>2
    <3>2. vflips[j] \in VoFlipRecs /\ FlipOf(vflips[j]) /\ vflips'[j] = vflips[j]
      BY <1>7, <3>1, VoFacts
    <3>3. vflips[j].slot \in Ports
      BY <3>2 DEF VoFlipRecs
    <3>4. QED
      BY <1>10, <3>2, <3>3 DEF FlipOf
  <2>3. QED
    BY <2>1, <2>2
<1>12. OnePort' /\ EventKept'
  BY <1>2, <1>10, VoFacts DEF OnePort, EventKept
<1>13. QED
  BY <1>8, <1>9, <1>11, <1>12 DEF VoIInv

\* A flip is queued behind the others, before it is reached.
LEMMA VoPresentKeeps ==
  ASSUME VoIInv, NEW j \in DOMAIN vflips, ps4_gnm_metal_present(j)
  PROVE  VoIInv'
<1> DEFINE left == RemoveAt(vflips, j)
           e == [vflips[j] EXCEPT !.queued = TRUE]
<1>1. j \in 1..Len(vflips) /\ vflips \in Seq(VoFlipRecs)
  BY VoState
<1>2. /\ vflips[j] \in VoFlipRecs /\ FlipOf(vflips[j]) /\ ~vflips[j].reached /\ UNCHANGED <<vport, vhandles, vevent>>
      /\ vflips' = Append(left, e)
  BY <1>1, VoState DEF ps4_gnm_metal_present
<1>3. e \in VoFlipRecs /\ e.handle = vflips[j].handle /\ e.slot = vflips[j].slot /\ e.index = vflips[j].index /\ e.lock = vflips[j].lock
  BY <1>2 DEF VoFlipRecs
<1>4. FlipTaken(left, vflips, j)
  BY <1>1, FlipTakenOf
<1>a. \A h : Cardinality(FlipsOf(vflips, h)) = Cardinality(FlipsOf(left, h)) + (IF vflips[j].handle = h THEN 1 ELSE 0)
  BY <1>1, OfLess
<1> HIDE DEF left, e
<1> SUFFICES ASSUME NEW r, r = left, NEW g \in VoFlipRecs, g = e PROVE VoIInv'
  BY <1>3
<1>b. /\ r \in Seq(VoFlipRecs) /\ Len(r) \in Nat /\ FlipTaken(r, vflips, j) /\ vflips' = Append(r, g)
      /\ g.handle = vflips[j].handle /\ g.slot = vflips[j].slot /\ g.index = vflips[j].index /\ g.lock = vflips[j].lock
  <2>1. r \in Seq(VoFlipRecs)
    BY <1>4 DEF FlipTaken
  <2>2. QED
    BY <1>2, <1>3, <1>4, <2>1
<1>5. /\ vflips' \in Seq(VoFlipRecs) /\ Len(vflips') = Len(r) + 1 /\ vflips'[Len(r) + 1] = g
      /\ \A k \in 1..Len(r) : vflips'[k] = r[k]
      /\ \A h : /\ Cardinality(FlipsOf(r, h)) \in Nat
                /\ Cardinality(FlipsOf(vflips', h)) = Cardinality(FlipsOf(r, h)) + (IF g.handle = h THEN 1 ELSE 0)
  <2>1. vflips' = Append(r, g) /\ r \in Seq(VoFlipRecs) /\ g \in VoFlipRecs
    BY <1>b
  <2>2. /\ Append(r, g) \in Seq(VoFlipRecs) /\ Len(Append(r, g)) = Len(r) + 1 /\ Append(r, g)[Len(r) + 1] = g
        /\ \A k \in 1..Len(r) : Append(r, g)[k] = r[k]
    BY <2>1, OfMore
  <2>3. ASSUME NEW h
        PROVE  /\ Cardinality(FlipsOf(r, h)) \in Nat
               /\ Cardinality(FlipsOf(Append(r, g), h)) = Cardinality(FlipsOf(r, h)) + (IF g.handle = h THEN 1 ELSE 0)
    BY <2>1, OfMore
  <2>4. QED
    BY <2>1, <2>2, <2>3, Zenon
<1>6. \A h : Cardinality(FlipsOf(vflips', h)) = Cardinality(FlipsOf(vflips, h))
  <2> SUFFICES ASSUME NEW h PROVE Cardinality(FlipsOf(vflips', h)) = Cardinality(FlipsOf(vflips, h))
    OBVIOUS
  <2>1. Cardinality(FlipsOf(vflips, h)) = Cardinality(FlipsOf(r, h)) + (IF g.handle = h THEN 1 ELSE 0)
    BY <1>a, <1>b
  <2>2. QED
    BY <1>5, <2>1
<1>7. VoTypes'
  BY <1>2, <1>5, VoState DEF VoTypes
<1>8. ASSUME NEW h, NEW q, NEW i, LabelHeld(vflips, h, q, i) PROVE LabelHeld(vflips', h, q, i)
  <2>1. CASE q = i
    BY <2>1 DEF LabelHeld
  <2>2. CASE q # i
    <3>1. PICK m \in 1..Len(vflips) : vflips[m].reached /\ vflips[m].handle = h /\ vflips[m].index = i
      BY <1>8, <2>2 DEF LabelHeld
    <3>2. PICK k \in 1..Len(r) : r[k] = vflips[m]
      BY <1>2, <1>b, <3>1 DEF FlipTaken
    <3>3. k \in 1..Len(vflips') /\ vflips'[k] = vflips[m]
      BY <1>5, <1>b, <3>2
    <3>4. QED
      BY <3>1, <3>3 DEF LabelHeld
  <2>3. QED
    BY <2>1, <2>2
<1>9. ASSUME NEW q \in Ports PROVE PortInv(vport[q], vflips)'
  <2>1. PortInv(vport[q], vflips) /\ vport' = vport /\ vhandles' = vhandles
    BY <1>2, VoFacts
  <2>2. LabelsKept(vport[q], vflips) => LabelsKept(vport[q], vflips')
    BY <1>8 DEF LabelsKept
  <2>3. QED
    BY <1>6, <2>1, <2>2 DEF PortInv, CountsPending
<1>10. ASSUME NEW k \in 1..Len(vflips') PROVE FlipOf(vflips[k])'
  <2>1. vport' = vport
    BY <1>2
  <2>2. CASE k = Len(r) + 1
    BY <1>2, <1>5, <1>b, <2>1, <2>2 DEF FlipOf
  <2>3. CASE k # Len(r) + 1
    <3>1. k \in 1..Len(r)
      BY <1>5, <1>b, <2>3
    <3>2. PICK m \in 1..Len(vflips) : r[k] = vflips[m]
      BY <1>b, <3>1 DEF FlipTaken
    <3>3. vflips'[k] = vflips[m] /\ FlipOf(vflips[m])
      BY <1>5, <3>1, <3>2, VoState
    <3>4. QED
      BY <2>1, <3>3 DEF FlipOf
  <2>4. QED
    BY <2>2, <2>3
<1>11. OnePort' /\ EventKept'
  BY <1>2, VoState DEF OnePort, EventKept
<1>12. QED
  BY <1>7, <1>9, <1>10, <1>11 DEF VoIInv

\* A flip is reached.
LEMMA VoReached ==
  ASSUME VoIInv, NEW j \in DOMAIN vflips, lock_flip_label(j)
  PROVE  /\ j \in 1..Len(vflips) /\ vflips' \in Seq(VoFlipRecs) /\ Len(vflips') = Len(vflips)
         /\ \A k \in 1..Len(vflips) : /\ vflips'[k].handle = vflips[k].handle /\ vflips'[k].slot = vflips[k].slot
                                      /\ vflips'[k].index = vflips[k].index /\ vflips'[k].lock = vflips[k].lock
                                      /\ (k # j => vflips'[k].reached = vflips[k].reached)
                                      /\ (k # j /\ vflips'[k].sole =>
                                            vflips[k].sole /\ ~(vflips[k].slot = vflips[j].slot /\ vflips[k].index = vflips[j].index))
         /\ vflips'[j].reached
         /\ vflips'[j].sole =>
              /\ vflips[j].lock /\ vport[vflips[j].slot].prev # vflips[j].index
              /\ \A k \in 1..Len(vflips) : k # j => ~(vflips[k].reached /\ vflips[k].slot = vflips[j].slot /\ vflips[k].index = vflips[j].index)
<1>1. j \in 1..Len(vflips) /\ vflips \in Seq(VoFlipRecs) /\ DOMAIN vflips = 1..Len(vflips)
  BY VoState
<1> DEFINE again == {k \in DOMAIN vflips : k # j /\ vflips[k].reached /\ vflips[k].slot = vflips[j].slot /\ vflips[k].index = vflips[j].index}
           alone == vflips[j].lock /\ again = {} /\ vport[vflips[j].slot].prev # vflips[j].index
<1>2. alone => /\ vflips[j].lock /\ vport[vflips[j].slot].prev # vflips[j].index
               /\ \A k \in 1..Len(vflips) : k # j => ~(vflips[k].reached /\ vflips[k].slot = vflips[j].slot /\ vflips[k].index = vflips[j].index)
  BY <1>1
<1>3. vflips[j] \in VoFlipRecs /\ alone \in BOOLEAN
  <2>1. vflips[j] \in VoFlipRecs
    BY <1>1, VoState
  <2>2. vflips[j].lock \in BOOLEAN
    BY <2>1 DEF VoFlipRecs
  <2>3. QED
    BY <2>1, <2>2
<1>4. vflips' = [Shared(vflips, vflips[j].slot, {vflips[j].index}) EXCEPT ![j] = [vflips[j] EXCEPT !.reached = TRUE, !.sole = alone]]
  BY DEF lock_flip_label
<1> HIDE DEF again, alone
<1> SUFFICES ASSUME NEW f, f = vflips[j], NEW r, r = Shared(vflips, f.slot, {f.index}), NEW g, g = [f EXCEPT !.reached = TRUE, !.sole = alone]
             PROVE  /\ vflips' \in Seq(VoFlipRecs) /\ Len(vflips') = Len(vflips)
                    /\ \A k \in 1..Len(vflips) :
                         /\ vflips'[k].handle = vflips[k].handle /\ vflips'[k].slot = vflips[k].slot
                         /\ vflips'[k].index = vflips[k].index /\ vflips'[k].lock = vflips[k].lock
                         /\ (k # j => vflips'[k].reached = vflips[k].reached)
                         /\ (k # j /\ vflips'[k].sole => vflips[k].sole /\ ~(vflips[k].slot = f.slot /\ vflips[k].index = f.index))
                    /\ vflips'[j].reached /\ (vflips'[j].sole => alone)
  BY <1>1, <1>2
<1>5. g \in VoFlipRecs /\ g.handle = f.handle /\ g.slot = f.slot /\ g.index = f.index /\ g.lock = f.lock /\ g.reached /\ (g.sole => alone)
  BY <1>3 DEF VoFlipRecs
<1>6. /\ SameFlips(r, vflips) /\ r \in Seq(VoFlipRecs) /\ Len(r) = Len(vflips)
      /\ \A k \in 1..Len(vflips) : r[k].sole = (vflips[k].sole /\ ~(vflips[k].slot = f.slot /\ vflips[k].index \in {f.index}))
  BY <1>1, VoShared DEF SameFlips
<1>7. vflips' \in Seq(VoFlipRecs) /\ Len(vflips') = Len(r) /\ \A k \in 1..Len(r) : vflips'[k] = IF k = j THEN g ELSE r[k]
  <2>1. r \in Seq(VoFlipRecs) /\ vflips' = [r EXCEPT ![j] = g] /\ j \in 1..Len(r) /\ g \in VoFlipRecs
    BY <1>1, <1>4, <1>5, <1>6
  <2>2. QED
    BY <2>1
<1>8. \A k \in 1..Len(vflips) : k # j => /\ vflips'[k].handle = vflips[k].handle /\ vflips'[k].slot = vflips[k].slot
                                        /\ vflips'[k].index = vflips[k].index /\ vflips'[k].lock = vflips[k].lock
                                        /\ vflips'[k].reached = vflips[k].reached
                                        /\ (vflips'[k].sole => vflips[k].sole /\ ~(vflips[k].slot = f.slot /\ vflips[k].index = f.index))
  <2> SUFFICES ASSUME NEW k \in 1..Len(vflips), k # j
               PROVE  /\ vflips'[k].handle = vflips[k].handle /\ vflips'[k].slot = vflips[k].slot
                      /\ vflips'[k].index = vflips[k].index /\ vflips'[k].lock = vflips[k].lock
                      /\ vflips'[k].reached = vflips[k].reached
                      /\ (vflips'[k].sole => vflips[k].sole /\ ~(vflips[k].slot = f.slot /\ vflips[k].index = f.index))
    OBVIOUS
  <2>1. vflips'[k] = r[k]
    BY <1>6, <1>7
  <2>2. /\ r[k].handle = vflips[k].handle /\ r[k].slot = vflips[k].slot /\ r[k].index = vflips[k].index
        /\ r[k].lock = vflips[k].lock /\ r[k].reached = vflips[k].reached
    BY <1>6 DEF SameFlips
  <2>3. r[k].sole = (vflips[k].sole /\ ~(vflips[k].slot = f.slot /\ vflips[k].index \in {f.index}))
    BY <1>6
  <2>4. r[k].sole => vflips[k].sole /\ ~(vflips[k].slot = f.slot /\ vflips[k].index = f.index)
    BY <2>3, Zenon
  <2>5. QED
    BY <2>1, <2>2, <2>4, Zenon
<1>9. vflips'[j] = g
  BY <1>1, <1>6, <1>7
<1>10. QED
  BY <1>5, <1>6, <1>7, <1>8, <1>9

\* A flip is reached: the same flips, of the same handles.
LEMMA VoLockKeeps ==
  ASSUME VoIInv, NEW j \in DOMAIN vflips, lock_flip_label(j)
  PROVE  VoIInv'
<1>1. j \in 1..Len(vflips) /\ vflips \in Seq(VoFlipRecs) /\ DOMAIN vflips = 1..Len(vflips)
  BY VoFacts DEF VoIInv, VoTypes
<1>2. vflips[j] \in VoFlipRecs /\ FlipOf(vflips[j])
  BY <1>1 DEF VoIInv, VoTypes
<1> SUFFICES ASSUME NEW f, f = vflips[j] PROVE VoIInv'
  OBVIOUS
<1>3. f.slot \in Ports /\ f.index \in Frames \cup {Blank} /\ (f.lock => f.index \in Frames) /\ f.lock \in BOOLEAN
  BY <1>2 DEF VoFlipRecs, FlipOf
<1>4. /\ UNCHANGED <<vhandles, vevent>>
      /\ vport' = IF f.lock THEN [vport EXCEPT ![f.slot].label[f.index] = 1] ELSE vport
  BY DEF lock_flip_label
<1>5. /\ vflips' \in Seq(VoFlipRecs) /\ Len(vflips') = Len(vflips)
      /\ \A k \in 1..Len(vflips) : /\ vflips'[k].handle = vflips[k].handle /\ vflips'[k].slot = vflips[k].slot
                                   /\ vflips'[k].index = vflips[k].index /\ vflips'[k].lock = vflips[k].lock
                                   /\ (vflips[k].reached => vflips'[k].reached)
      /\ vflips'[j].reached
  BY VoReached
<1>6. /\ DOMAIN vport' = Ports /\ \A q \in Ports \ {f.slot} : vport'[q] = vport[q]
      /\ DOMAIN vport'[f.slot] = VoFields
      /\ \A x \in VoFields \ {"label"} : vport'[f.slot][x] = vport[f.slot][x]
      /\ vport'[f.slot].label = IF f.lock THEN [vport[f.slot].label EXCEPT ![f.index] = 1] ELSE vport[f.slot].label
  <2>1. DOMAIN vport = Ports /\ DOMAIN vport[f.slot] = VoFields
    BY <1>3, VoFacts DEF PortRec
  <2>2. CASE f.lock
    <3>1. vport' = [vport EXCEPT ![f.slot].label[f.index] = 1]
      BY <1>4, <2>2
    <3>2. QED
      BY <1>3, <2>1, <2>2, <3>1 DEF VoFields
  <2>3. CASE ~f.lock
    BY <1>3, <1>4, <2>1, <2>3
  <2>4. QED
    BY <2>2, <2>3
<1>7. \A q \in Ports : /\ vport'[q].handle = vport[q].handle /\ vport'[q].in_use = vport[q].in_use
                       /\ vport'[q].prev = vport[q].prev /\ vport'[q].set = vport[q].set /\ vport'[q].count = vport[q].count
                       /\ vport'[q].pending = vport[q].pending /\ vport'[q].held = vport[q].held
  <2> SUFFICES ASSUME NEW q \in Ports
               PROVE  /\ vport'[q].handle = vport[q].handle /\ vport'[q].in_use = vport[q].in_use
                      /\ vport'[q].prev = vport[q].prev /\ vport'[q].set = vport[q].set /\ vport'[q].count = vport[q].count
                      /\ vport'[q].pending = vport[q].pending /\ vport'[q].held = vport[q].held
    OBVIOUS
  <2>1. CASE q = f.slot
    BY <1>6, <2>1 DEF VoFields
  <2>2. CASE q # f.slot
    BY <1>6, <2>2
  <2>3. QED
    BY <2>1, <2>2
<1>8. vport'[f.slot].label \in [Frames -> {0, 1}]
  BY <1>3, <1>6, VoFacts DEF PortRec
<1>9. VoTypes'
  <2>1. ASSUME NEW q \in Ports PROVE PortRec(vport'[q])
    <3>1. PortRec(vport[q]) /\ DOMAIN vport'[q] = VoFields
      BY <1>6, VoState DEF PortRec
    <3>2. vport'[q].label \in [Frames -> {0, 1}]
      BY <1>6, <1>8, <3>1 DEF PortRec
    <3>3. QED
      BY <1>7, <3>1, <3>2 DEF PortRec
  <2>2. QED
    BY <1>4, <1>5, <1>6, <2>1, VoState DEF VoTypes
<1>10. ASSUME NEW q \in Ports PROVE PortInv(vport[q], vflips)'
  <2> SUFFICES ASSUME vport'[q].in_use
               PROVE  /\ vport'[q].handle \in 1..vhandles /\ LabelsKept(vport'[q], vflips') /\ CountsPending(vport'[q], vflips')
                      /\ CountsSets(vport'[q])
    BY <1>4 DEF PortInv
  <2>1. /\ vport[q].handle \in 1..vhandles /\ LabelsKept(vport[q], vflips) /\ CountsPending(vport[q], vflips)
        /\ CountsSets(vport[q])
    BY <1>7, VoFacts DEF PortInv
  <2>2. LabelsKept(vport'[q], vflips')
    <3> SUFFICES ASSUME NEW i \in Frames, vport'[q].label[i] = 1 PROVE LabelHeld(vflips', vport'[q].handle, vport'[q].prev, i)
      BY DEF LabelsKept
    <3>1. CASE vport[q].label[i] = 1
      BY <1>5, <1>7, <2>1, <3>1 DEF LabelsKept, LabelHeld
    <3>2. CASE vport[q].label[i] # 1
      <4>1. q = f.slot /\ f.lock /\ i = f.index
        BY <1>3, <1>6, <3>2, VoFacts DEF PortRec
      <4>2. vflips'[j].reached /\ vflips'[j].handle = vport'[q].handle /\ vflips'[j].index = i
        BY <1>1, <1>2, <1>5, <1>7, <4>1 DEF FlipOf
      <4>3. QED
        BY <1>1, <1>5, <4>2 DEF LabelHeld
    <3>3. QED
      BY <3>1, <3>2
  <2>3. CountsPending(vport'[q], vflips')
    <3>1. FlipsOf(vflips', vport'[q].handle) = FlipsOf(vflips, vport[q].handle)
      BY <1>5, <1>7 DEF FlipsOf
    <3>2. Cardinality(FlipsOf(vflips', vport'[q].handle)) = Cardinality(FlipsOf(vflips, vport[q].handle))
      BY <3>1, Zenon
    <3>3. QED
      BY <1>7, <2>1, <3>2 DEF CountsPending
  <2>4. QED
    BY <1>7, <2>1, <2>2, <2>3 DEF CountsSets
<1>11. ASSUME NEW k \in 1..Len(vflips') PROVE FlipOf(vflips[k])'
  <2>1. k \in 1..Len(vflips) /\ vflips[k] \in VoFlipRecs /\ FlipOf(vflips[k])
    BY <1>5, VoState
  <2>2. vflips[k].slot \in Ports
    BY <2>1 DEF VoFlipRecs
  <2>3. QED
    BY <1>5, <1>7, <2>1, <2>2 DEF FlipOf
<1>12. OnePort' /\ EventKept'
  BY <1>4, <1>7, VoState DEF OnePort, EventKept
<1>13. QED
  BY <1>9, <1>10, <1>11, <1>12 DEF VoIInv

LEMMA VoDone ==
  ASSUME NEW v, PortRec(v), NEW w, w.pending = (IF v.pending > 0 THEN v.pending - 1 ELSE v.pending),
         w.label = [i \in Frames |-> IF i = v.prev THEN 0 ELSE v.label[i]]
  PROVE  /\ \A i \in Frames : w.label[i] = IF i = v.prev THEN 0 ELSE v.label[i]
         /\ w.label \in [Frames -> {0, 1}]
         /\ w.pending \in Nat /\ (v.pending > 0 => w.pending = v.pending - 1)
<1>1. v.label \in [Frames -> {0, 1}] /\ v.pending \in Nat
  BY DEF PortRec
<1>2. QED
  BY <1>1

\* A flip is over: the label before it is released, its own has become the
\* buffer shown.
LEMMA VoFinishKeeps == ASSUME VoIInv, NEW j \in DOMAIN vflips, finish_flip(j) PROVE VoIInv'
<1> DEFINE ps == {p \in Ports : vport[p].in_use /\ vport[p].handle = vflips[j].handle}
           done(v) == [v EXCEPT !.pending = IF @ > 0 THEN @ - 1 ELSE @, !.prev = vflips[j].index, !.held = vflips[j].sole,
                                !.label = [i \in Frames |-> IF i = v.prev THEN 0 ELSE @[i]]]
<1>1. /\ vflips[j].reached /\ vflips' = RemoveAt(vflips, j) /\ vhandles' = vhandles
      /\ vport' = [p \in Ports |-> IF p \in ps THEN done(vport[p]) ELSE vport[p]]
  BY DEF finish_flip
<1>0. j \in 1..Len(vflips) /\ vflips[j] \in VoFlipRecs /\ FlipOf(vflips[j])
  BY VoState
<1>2. EventKept'
  <2>1. CASE UNCHANGED vevent
    BY <2>1, VoState DEF EventKept
  <2>2. CASE \E low \in 0..VoLow - 1 : vevent' = [data |-> EventData(low, vflips[j].arg), arg |-> vflips[j].arg]
    <3>1. PICK low \in 0..VoLow - 1 : vevent' = [data |-> EventData(low, vflips[j].arg), arg |-> vflips[j].arg]
      BY <2>2
    <3>3. vflips[j].arg \in VoArgs
      BY <1>0 DEF VoFlipRecs
    <3>4. vevent'.data = EventData(low, vflips[j].arg) /\ vevent'.arg = vflips[j].arg
      BY <3>1
    <3>5. QED
      BY <3>3, <3>4, VoEvent DEF EventKept
  <2>3. QED
    BY <2>1, <2>2 DEF finish_flip
<1>3. vflips \in Seq(VoFlipRecs) /\ vflips[j] \in VoFlipRecs /\ FlipOf(vflips[j])
  BY <1>0, VoState
<1> SUFFICES ASSUME NEW f, f = vflips[j] PROVE VoIInv'
  OBVIOUS
<1>4. f.slot \in Ports /\ f.index \in Frames \cup {Blank} /\ f.sole \in BOOLEAN
  BY <1>3 DEF VoFlipRecs
<1>5. /\ vflips' \in Seq(VoFlipRecs) /\ FlipTaken(vflips', vflips, j)
      /\ \A h : /\ Cardinality(FlipsOf(vflips', h)) \in Nat
                /\ Cardinality(FlipsOf(vflips, h)) = Cardinality(FlipsOf(vflips', h)) + (IF f.handle = h THEN 1 ELSE 0)
  <2>1. vflips' = RemoveAt(vflips, j) /\ vflips \in Seq(VoFlipRecs) /\ j \in 1..Len(vflips)
    BY <1>0, <1>1, <1>3
  <2>2. FlipTaken(vflips', vflips, j)
    BY <2>1, FlipTakenOf
  <2>3. vflips' \in Seq(VoFlipRecs)
    BY <2>2 DEF FlipTaken
  <2>4. QED
    BY <2>1, <2>2, <2>3, OfLess
<1>6. DOMAIN vport' = Ports /\ \A q \in Ports \ ps : vport'[q] = vport[q]
  BY <1>1
<1>7. ASSUME NEW q \in ps
      PROVE  /\ DOMAIN vport'[q] = VoFields /\ vport'[q].pending = (IF vport[q].pending > 0 THEN vport[q].pending - 1 ELSE vport[q].pending)
             /\ vport'[q].prev = f.index /\ vport'[q].held = f.sole /\ vport'[q].label = [i \in Frames |-> IF i = vport[q].prev THEN 0 ELSE vport[q].label[i]]
             /\ vport'[q].handle = vport[q].handle /\ vport'[q].in_use = vport[q].in_use
             /\ vport'[q].set = vport[q].set /\ vport'[q].count = vport[q].count
  <2>1. q \in Ports /\ vport'[q] = done(vport[q])
    BY <1>1
  <2>2. DOMAIN vport[q] = VoFields
    BY <2>1, VoFacts DEF PortRec
  <2> SUFFICES ASSUME NEW v, v = vport[q], vport'[q] = done(v), DOMAIN v = VoFields
               PROVE  /\ DOMAIN vport'[q] = VoFields /\ vport'[q].pending = (IF v.pending > 0 THEN v.pending - 1 ELSE v.pending)
                      /\ vport'[q].prev = f.index /\ vport'[q].held = f.sole /\ vport'[q].label = [i \in Frames |-> IF i = v.prev THEN 0 ELSE v.label[i]]
                      /\ vport'[q].handle = v.handle /\ vport'[q].in_use = v.in_use
                      /\ vport'[q].set = v.set /\ vport'[q].count = v.count
    BY <2>1, <2>2, Zenon
  <2>3. QED
    BY DEF VoFields
<1>a. ASSUME NEW q \in ps
      PROVE  /\ \A i \in Frames : vport'[q].label[i] = IF i = vport[q].prev THEN 0 ELSE vport[q].label[i]
             /\ vport'[q].label \in [Frames -> {0, 1}]
             /\ vport'[q].pending \in Nat /\ (vport[q].pending > 0 => vport'[q].pending = vport[q].pending - 1)
  <2>1. q \in Ports
    OBVIOUS
  <2>2. PortRec(vport[q])
    BY <2>1, VoFacts
  <2>3. /\ vport'[q].pending = (IF vport[q].pending > 0 THEN vport[q].pending - 1 ELSE vport[q].pending)
        /\ vport'[q].label = [i \in Frames |-> IF i = vport[q].prev THEN 0 ELSE vport[q].label[i]]
    BY <1>7
  <2>4. QED
    BY <2>2, <2>3, VoDone
<1>8. \A q \in Ports : vport'[q].handle = vport[q].handle /\ vport'[q].in_use = vport[q].in_use
                       /\ vport'[q].set = vport[q].set /\ vport'[q].count = vport[q].count
  BY <1>6, <1>7
<1>9. \A q \in Ports : q \in ps <=> vport[q].in_use /\ vport[q].handle = f.handle
  OBVIOUS
<1> HIDE DEF ps, done
<1>10. VoTypes'
  <2>1. ASSUME NEW q \in Ports PROVE PortRec(vport'[q])
    <3>1. PortRec(vport[q])
      BY VoState
    <3>2. CASE q \in ps
      <4>1. QED
        BY <1>4, <1>7, <1>a, <3>1, <3>2 DEF PortRec
    <3>3. QED
      BY <1>6, <3>1, <3>2
  <2>2. QED
    BY <1>1, <1>5, <1>6, <2>1, VoState DEF VoTypes
<1>11. ASSUME NEW q \in Ports PROVE PortInv(vport[q], vflips)'
  <2> SUFFICES ASSUME vport'[q].in_use
               PROVE  /\ vport'[q].handle \in 1..vhandles /\ LabelsKept(vport'[q], vflips') /\ CountsPending(vport'[q], vflips')
                      /\ CountsSets(vport'[q])
    BY <1>1 DEF PortInv
  <2>1. /\ vport[q].handle \in 1..vhandles /\ LabelsKept(vport[q], vflips) /\ CountsPending(vport[q], vflips)
        /\ CountsSets(vport[q]) /\ PortRec(vport[q])
    BY <1>8, VoFacts DEF PortInv
  <2>2. LabelsKept(vport'[q], vflips')
    <3> SUFFICES ASSUME NEW i \in Frames, vport'[q].label[i] = 1 PROVE LabelHeld(vflips', vport'[q].handle, vport'[q].prev, i)
      BY DEF LabelsKept
    <3>1. vport[q].label[i] = 1
      <4>1. CASE q \in ps
        BY <1>a, <4>1
      <4>2. CASE q \notin ps
        BY <1>6, <4>2
      <4>3. QED
        BY <4>1, <4>2
    <3>2. LabelHeld(vflips, vport[q].handle, vport[q].prev, i)
      BY <2>1, <3>1 DEF LabelsKept
    <3>3. ASSUME NEW m \in 1..Len(vflips), vflips[m].reached, vflips[m].handle = vport[q].handle, vflips[m].index = i, m # j
          PROVE  LabelHeld(vflips', vport'[q].handle, vport'[q].prev, i)
      <4>1. PICK k \in 1..Len(vflips') : vflips'[k] = vflips[m]
        BY <1>5, <3>3 DEF FlipTaken
      <4>2. QED
        BY <1>8, <3>3, <4>1 DEF LabelHeld
    <3>4. CASE q \in ps
      <4>1. vport[q].prev # i
        BY <1>a, <3>4
      <4>2. PICK m \in 1..Len(vflips) : vflips[m].reached /\ vflips[m].handle = vport[q].handle /\ vflips[m].index = i
        BY <3>2, <4>1 DEF LabelHeld
      <4>3. CASE m = j
        BY <1>7, <3>4, <4>2, <4>3 DEF LabelHeld
      <4>4. QED
        BY <3>3, <4>2, <4>3
    <3>5. CASE q \notin ps
      <4>1. vport'[q] = vport[q] /\ f.handle # vport[q].handle
        BY <1>6, <1>8, <1>9, <3>5
      <4>2. CASE vport[q].prev = i
        BY <4>1, <4>2 DEF LabelHeld
      <4>3. CASE vport[q].prev # i
        <5>1. PICK m \in 1..Len(vflips) : vflips[m].reached /\ vflips[m].handle = vport[q].handle /\ vflips[m].index = i
          BY <3>2, <4>3 DEF LabelHeld
        <5>2. QED
          BY <3>3, <4>1, <5>1
      <4>4. QED
        BY <4>2, <4>3
    <3>6. QED
      BY <3>4, <3>5
  <2>3. CountsPending(vport'[q], vflips')
    <3> SUFFICES ASSUME NEW h, h = vport[q].handle PROVE vport'[q].pending = Cardinality(FlipsOf(vflips', h))
      BY <1>8 DEF CountsPending
    <3>1. vport[q].pending = Cardinality(FlipsOf(vflips, h)) /\ vport[q].pending \in Nat
      BY <2>1 DEF CountsPending, PortRec
    <3>2. /\ Cardinality(FlipsOf(vflips', h)) \in Nat
          /\ Cardinality(FlipsOf(vflips, h)) = Cardinality(FlipsOf(vflips', h)) + (IF f.handle = h THEN 1 ELSE 0)
      BY <1>5
    <3>3. CASE q \in ps
      BY <1>a, <1>9, <3>1, <3>2, <3>3
    <3>4. CASE q \notin ps
      BY <1>6, <1>8, <1>9, <3>1, <3>2, <3>4
    <3>5. QED
      BY <3>3, <3>4
  <2>4. QED
    BY <1>8, <2>1, <2>2, <2>3 DEF CountsSets
<1>12. ASSUME NEW k \in 1..Len(vflips') PROVE FlipOf(vflips[k])'
  <2>1. PICK m \in 1..Len(vflips) : vflips'[k] = vflips[m]
    BY <1>5 DEF FlipTaken
  <2>2. vflips[m] \in VoFlipRecs /\ FlipOf(vflips[m])
    BY VoState
  <2>3. vflips[m].slot \in Ports
    BY <2>2 DEF VoFlipRecs
  <2>4. QED
    BY <1>8, <2>1, <2>2, <2>3 DEF FlipOf
<1>13. OnePort'
  BY <1>8, VoState DEF OnePort
<1>14. QED
  BY <1>2, <1>10, <1>11, <1>12, <1>13 DEF VoIInv

LEMMA VoStepInv == ASSUME ~CloseBusy, VoIInv, VoNext \/ VoVblankNext \/ UNCHANGED vo_vars PROVE VoIInv'
<1>1. CASE UNCHANGED vo_vars
  BY <1>1, VoSame DEF vo_vars
<1>2. CASE sceVideoOutOpen
  BY <1>2, VoOpenKeeps
<1>3. CASE \E j \in DOMAIN vflips : finish_flip(j)
  BY <1>3, VoFinishKeeps
<1>4. CASE \E p \in Ports : sceVideoOutClose(p)
  BY <1>4, VoCloseKeeps
<1>5. CASE \E p \in Ports, i \in Frames, n \in 1..MAX_FRAME_BUFFERS : sceVideoOutRegisterBuffers(p, i, n)
  BY <1>5, VoRegisterKeeps
<1>6. CASE \E p \in Ports, k \in 1..MAX_BUFFER_SETS : sceVideoOutUnregisterBuffers(p, k)
  BY <1>6, VoUnregisterKeeps
<1>7. CASE \E p \in Ports : vblank(p) \/ \E q \in VoEqs : sceVideoOutAddFlipEvent(p, q) \/ sceVideoOutDeleteFlipEvent(p, q)
  BY <1>7, VoListKeeps
<1>8. CASE \E p \in Ports, i \in Frames \cup {Blank}, a \in VoArgs, gpu \in BOOLEAN : ps4_videoout_submit_flip(p, i, a, gpu)
  BY <1>8, VoSubmitKeeps
<1>9. CASE \E j \in DOMAIN vflips : lock_flip_label(j) \/ ps4_gnm_metal_present(j)
  BY <1>9, VoLockKeeps, VoPresentKeeps
<1>10. CASE \E t \in VoThreads : wait_over(t) \/ \E p \in Ports : sceVideoOutWaitVblank(t, p)
  BY <1>10, VoSame DEF wait_over, sceVideoOutWaitVblank
<1>11. QED
  BY <1>1, <1>2, <1>3, <1>4, <1>5, <1>6, <1>7, <1>8, <1>9, <1>10 DEF VoNext, VoVblankNext

-----------------------------------------------------------------------------
(* No label is cleared early.                                              *)

LEMMA VoSoleInit == VoInit => VoSole
<1> SUFFICES ASSUME VoInit PROVE VoSole
  OBVIOUS
<1>1. Len(vflips) = 0 /\ \A p \in Ports : vport[p] = FreshPort(0)
  BY DEF VoInit
<1>2. FreshPort(0).held = FALSE
  BY DEF FreshPort
<1>3. QED
  BY <1>1, <1>2 DEF VoSole, HeldOf

\* What leaves the flips alone, and the labels and the buffer shown.
LEMMA VoSoleSame ==
  ASSUME VoIInv, VoSole, vflips' = vflips,
         \A q \in Ports : vport'[q].label = vport[q].label /\ vport'[q].prev = vport[q].prev /\ vport'[q].held = vport[q].held
  PROVE  VoSole'
<1>1. ASSUME NEW k \in 1..Len(vflips), vflips[k].sole PROVE SoleOf(vflips, k)'
  <2>1. vflips[k] \in VoFlipRecs /\ SoleOf(vflips, k)
    BY <1>1, VoState DEF VoSole
  <2>2. vflips[k].slot \in Ports
    BY <2>1 DEF VoFlipRecs
  <2>3. QED
    BY <2>1, <2>2 DEF SoleOf
<1>2. ASSUME NEW q \in Ports PROVE HeldOf(vport'[q])
  BY DEF VoSole, HeldOf
<1>3. QED
  BY <1>1, <1>2 DEF VoSole

LEMMA VoSoleQuiet ==
  ASSUME VoIInv, VoSole, NEW p \in Ports,
         \/ sceVideoOutClose(p) \/ vblank(p) \/ \E k \in 1..MAX_BUFFER_SETS : sceVideoOutUnregisterBuffers(p, k)
         \/ \E q \in VoEqs : sceVideoOutAddFlipEvent(p, q) \/ sceVideoOutDeleteFlipEvent(p, q)
  PROVE  VoSole'
<1>1. DOMAIN vport = Ports /\ DOMAIN vport[p] = VoFields
  BY VoState DEF PortRec
<1> DEFINE Same(q) == vport'[q].label = vport[q].label /\ vport'[q].prev = vport[q].prev /\ vport'[q].held = vport[q].held
<1>2. CASE sceVideoOutClose(p) \/ vblank(p)
  <2>1. PICK x, y : vport' = [vport EXCEPT ![p].in_use = x] \/ vport' = [vport EXCEPT ![p].vblanks = y]
    BY <1>2 DEF sceVideoOutClose, vblank
  <2>2. \A q \in Ports : Same(q)
    BY <1>1, <2>1 DEF VoFields
  <2>3. vflips' = vflips
    BY <1>2 DEF sceVideoOutClose, vblank
  <2>4. QED
    BY <2>2, <2>3, VoSoleSame
<1>3. CASE \E k \in 1..MAX_BUFFER_SETS : sceVideoOutUnregisterBuffers(p, k)
  <2>1. PICK x, k, n : vflips' = vflips /\ vport' = [vport EXCEPT ![p].set = x, ![p].count[k] = n]
    BY <1>3 DEF sceVideoOutUnregisterBuffers
  <2>2. \A q \in Ports : Same(q)
    BY <1>1, <2>1 DEF VoFields
  <2>3. QED
    BY <2>1, <2>2, VoSoleSame
<1>4. CASE \E q \in VoEqs : sceVideoOutAddFlipEvent(p, q) \/ sceVideoOutDeleteFlipEvent(p, q)
  <2>1. PICK x : vflips' = vflips /\ vport' = [vport EXCEPT ![p].eqs = x]
    BY <1>4 DEF sceVideoOutAddFlipEvent, sceVideoOutDeleteFlipEvent
  <2>2. \A q \in Ports : Same(q)
    BY <1>1, <2>1 DEF VoFields
  <2>3. QED
    BY <2>1, <2>2, VoSoleSame
<1>5. QED
  BY <1>2, <1>3, <1>4

\* No flip is of a slot that is free.
LEMMA VoSoleOpen == ASSUME VoIInv, VoSole, sceVideoOutOpen PROVE VoSole'
<1> DEFINE free == {p \in Ports : ~vport[p].in_use}
<1>1. free # {} /\ free \subseteq Nat
  BY VoSets DEF sceVideoOutOpen
<1>2. PICK p \in free : p = Min(free)
  BY <1>1, LeastOf
<1>3. p \in Ports /\ ~vport[p].in_use /\ vport' = [vport EXCEPT ![p] = FreshPort(vhandles + 1)] /\ vflips' = vflips
  BY <1>2 DEF sceVideoOutOpen
<1>4. vport'[p] = FreshPort(vhandles + 1) /\ \A q \in Ports \ {p} : vport'[q] = vport[q]
  BY <1>3, VoState
<1>5. ASSUME NEW k \in 1..Len(vflips), vflips[k].sole PROVE SoleOf(vflips, k)'
  <2>1. vflips[k] \in VoFlipRecs /\ FlipOf(vflips[k]) /\ SoleOf(vflips, k)
    BY <1>5, VoState DEF VoSole
  <2>2. vflips[k].slot \in Ports /\ vflips[k].slot # p
    BY <1>3, <2>1 DEF VoFlipRecs, FlipOf
  <2>3. QED
    BY <1>3, <1>4, <2>1, <2>2 DEF SoleOf
<1>6. ASSUME NEW q \in Ports PROVE HeldOf(vport'[q])
  <2>1. HeldOf(FreshPort(vhandles + 1))
    BY DEF HeldOf, FreshPort
  <2>2. QED
    BY <1>4, <2>1 DEF VoSole
<1>7. QED
  BY <1>3, <1>5, <1>6 DEF VoSole

\* The labels of the buffers registered are no flip's.
LEMMA VoSoleRegister ==
  ASSUME VoIInv, VoSole, NEW p \in Ports, NEW start \in Frames, NEW n \in 1..MAX_FRAME_BUFFERS,
         sceVideoOutRegisterBuffers(p, start, n)
  PROVE  VoSole'
<1> DEFINE span == start..start + n - 1
<1>1. DOMAIN vport = Ports /\ DOMAIN vport[p] = VoFields /\ vport[p].held \in BOOLEAN /\ vflips \in Seq(VoFlipRecs)
  BY VoState DEF PortRec
<1> DEFINE lab == [i \in Frames |-> IF i \in span THEN 0 ELSE vport[p].label[i]]
           hld == vport[p].held /\ vport[p].prev \notin span
<1>2. /\ vflips' = Shared(vflips, p, span)
      /\ \E x, y, k : vport' = [vport EXCEPT ![p].set = x, ![p].label = lab, ![p].count[k] = y, ![p].held = hld]
  BY <1>1, ZenonT(40) DEF sceVideoOutRegisterBuffers, VoFields
<1>a. /\ \A i \in Frames : lab[i] = IF i \in span THEN 0 ELSE vport[p].label[i]
      /\ hld => vport[p].held /\ vport[p].prev \notin span
  OBVIOUS
<1> HIDE DEF span, lab, hld
<1>3. /\ \A q \in Ports \ {p} : vport'[q] = vport[q]
      /\ vport'[p].label = lab /\ vport'[p].prev = vport[p].prev /\ vport'[p].held = hld
  <2>1. PICK x, y, k : vport' = [vport EXCEPT ![p].set = x, ![p].label = lab, ![p].count[k] = y, ![p].held = hld]
    BY <1>2
  <2>2. QED
    BY <1>1, <2>1 DEF VoFields
<1>4. /\ SameFlips(vflips', vflips) /\ Len(vflips') = Len(vflips)
      /\ \A k \in 1..Len(vflips) : vflips'[k].sole => vflips[k].sole /\ ~(vflips[k].slot = p /\ vflips[k].index \in span)
  <2>1. SameFlips(vflips', vflips) /\ Len(vflips') = Len(vflips)
    BY <1>1, <1>2, VoShared DEF SameFlips
  <2>2. \A k \in 1..Len(vflips) : vflips'[k].sole = (vflips[k].sole /\ ~(vflips[k].slot = p /\ vflips[k].index \in span))
    BY <1>1, <1>2, VoShared
  <2>3. QED
    BY <2>1, <2>2, Zenon
<1>5. ASSUME NEW k \in 1..Len(vflips'), vflips'[k].sole PROVE SoleOf(vflips, k)'
  <2>1. /\ k \in 1..Len(vflips) /\ SoleOf(vflips, k) /\ ~(vflips[k].slot = p /\ vflips[k].index \in span)
        /\ vflips[k] \in VoFlipRecs
    BY <1>4, <1>5, VoState DEF VoSole
  <2>2. vflips[k].slot \in Ports /\ vflips[k].index \in Frames
    BY <2>1 DEF VoFlipRecs, SoleOf
  <2>3. /\ vport'[vflips[k].slot].label[vflips[k].index] = vport[vflips[k].slot].label[vflips[k].index]
        /\ vport'[vflips[k].slot].prev = vport[vflips[k].slot].prev
    BY <1>3, <1>a, <2>1, <2>2
  <2>4. QED
    BY <1>4, <2>1, <2>3 DEF SoleOf, SameFlips
<1>6. ASSUME NEW q \in Ports PROVE HeldOf(vport'[q])
  <2>1. HeldOf(vport[q])
    BY DEF VoSole
  <2>2. CASE q = p
    <3> SUFFICES ASSUME vport'[p].held PROVE vport'[p].prev \in Frames /\ vport'[p].label[vport'[p].prev] = 1
      BY <2>2 DEF HeldOf
    <3>1. vport[p].held /\ vport[p].prev \notin span
      BY <1>3, <1>a
    <3>2. QED
      BY <1>3, <1>a, <2>1, <2>2, <3>1 DEF HeldOf
  <2>3. CASE q # p
    BY <1>3, <2>1, <2>3
  <2>4. QED
    BY <2>2, <2>3
<1>7. QED
  BY <1>5, <1>6 DEF VoSole

\* A flip that is not reached shares no label.
LEMMA VoSoleAdded ==
  ASSUME VoIInv, VoSole, NEW g, ~g.reached, ~g.sole, vflips' \in Seq(VoFlipRecs),
         \A k \in 1..Len(vflips') : vflips'[k] = g \/ \E m \in 1..Len(vflips) : vflips'[k] = vflips[m],
         \A k, l \in 1..Len(vflips') : k # l => \/ vflips'[k] = g \/ vflips'[l] = g
                                            \/ \E m, n \in 1..Len(vflips) : m # n /\ vflips'[k] = vflips[m] /\ vflips'[l] = vflips[n],
         \A q \in Ports : vport'[q].label = vport[q].label /\ vport'[q].prev = vport[q].prev /\ vport'[q].held = vport[q].held
  PROVE  VoSole'
<1>1. ASSUME NEW k \in 1..Len(vflips'), vflips'[k].sole PROVE SoleOf(vflips, k)'
  <2>1. PICK m \in 1..Len(vflips) : vflips'[k] = vflips[m]
    BY <1>1
  <2>2. vflips[m] \in VoFlipRecs /\ SoleOf(vflips, m)
    BY <1>1, <2>1, VoState DEF VoSole
  <2>3. vflips[m].slot \in Ports
    BY <2>2 DEF VoFlipRecs
  <2>4. ASSUME NEW l \in 1..Len(vflips'), l # k, vflips'[l].reached, vflips'[l].slot = vflips'[k].slot, vflips'[l].index = vflips'[k].index
        PROVE  FALSE
    <3>1. vflips'[k] # g /\ vflips'[l] # g
      BY <1>1, <2>4
    <3>2. PICK i, n \in 1..Len(vflips) : i # n /\ vflips'[k] = vflips[i] /\ vflips'[l] = vflips[n]
      BY <2>4, <3>1
    <3>3. SoleOf(vflips, i)
      BY <1>1, <3>2 DEF VoSole
    <3>4. QED
      BY <2>4, <3>2, <3>3 DEF SoleOf
  <2>5. QED
    BY <2>1, <2>2, <2>3, <2>4 DEF SoleOf
<1>2. ASSUME NEW q \in Ports PROVE HeldOf(vport'[q])
  BY DEF VoSole, HeldOf
<1>3. QED
  BY <1>1, <1>2 DEF VoSole

LEMMA VoSoleSubmit ==
  ASSUME VoIInv, VoSole, NEW p \in Ports, NEW i \in Frames \cup {Blank}, NEW a \in VoArgs, NEW gpu \in BOOLEAN,
         ps4_videoout_submit_flip(p, i, a, gpu)
  PROVE  VoSole'
<1> DEFINE f == [handle |-> vport[p].handle, slot |-> p, index |-> i, arg |-> a, lock |-> gpu /\ i # Blank,
                 queued |-> FALSE, reached |-> FALSE, sole |-> FALSE]
<1>1. f \in VoFlipRecs /\ ~f.reached /\ ~f.sole
  BY VoState DEF VoFlipRecs, PortRec
<1>2. vport' = [vport EXCEPT ![p].pending = @ + 1] /\ vflips' = Append(vflips, f)
  BY DEF ps4_videoout_submit_flip
<1> HIDE DEF f
<1>3. /\ vflips \in Seq(VoFlipRecs) /\ vflips' \in Seq(VoFlipRecs) /\ Len(vflips') = Len(vflips) + 1 /\ Len(vflips) \in Nat
      /\ vflips'[Len(vflips) + 1] = f /\ \A k \in 1..Len(vflips) : vflips'[k] = vflips[k]
  BY <1>1, <1>2, VoState, OfMore
<1>4. \A k \in 1..Len(vflips') : vflips'[k] = f \/ (k \in 1..Len(vflips) /\ vflips'[k] = vflips[k])
  BY <1>3
<1>5. \A q \in Ports : vport'[q].label = vport[q].label /\ vport'[q].prev = vport[q].prev /\ vport'[q].held = vport[q].held
  BY <1>2, VoState DEF PortRec, VoFields
<1>6. QED
  BY <1>1, <1>3, <1>4, <1>5, VoSoleAdded

LEMMA VoSolePresent ==
  ASSUME VoIInv, VoSole, NEW j \in DOMAIN vflips, ps4_gnm_metal_present(j)
  PROVE  VoSole'
<1> DEFINE q == RemoveAt(vflips, j)
           e == [vflips[j] EXCEPT !.queued = TRUE]
<1>1. j \in 1..Len(vflips) /\ vflips \in Seq(VoFlipRecs)
  BY VoState
<1>2. vflips[j] \in VoFlipRecs /\ ~vflips[j].reached /\ vport' = vport /\ vflips' = Append(q, e)
  BY <1>1, VoState DEF ps4_gnm_metal_present
<1>3. ~vflips[j].sole
  BY <1>1, <1>2 DEF VoSole, SoleOf
<1>4. e \in VoFlipRecs /\ ~e.reached /\ ~e.sole
  BY <1>2, <1>3 DEF VoFlipRecs
<1>5. FlipTaken(q, vflips, j)
  BY <1>1, FlipTakenOf
<1> HIDE DEF q, e
<1> SUFFICES ASSUME NEW r, r = q, NEW g \in VoFlipRecs, g = e PROVE VoSole'
  BY <1>4
<1>6. r \in Seq(VoFlipRecs) /\ Len(r) \in Nat
  <2>1. r \in Seq(VoFlipRecs)
    BY <1>5 DEF FlipTaken
  <2>2. QED
    BY <2>1
<1>7. /\ vflips' \in Seq(VoFlipRecs) /\ Len(vflips') = Len(r) + 1 /\ vflips'[Len(r) + 1] = g
      /\ \A k \in 1..Len(r) : vflips'[k] = r[k]
  <2>1. vflips' = Append(r, g)
    BY <1>2
  <2>2. QED
    BY <1>6, <2>1, OfMore
<1>8. \A k \in 1..Len(vflips') : vflips'[k] = g \/ (k \in 1..Len(r) /\ vflips'[k] = r[k])
  BY <1>6, <1>7
<1>9. FlipTaken(r, vflips, j)
  BY <1>5
<1>10. \A k \in 1..Len(vflips') : vflips'[k] = g \/ \E m \in 1..Len(vflips) : vflips'[k] = vflips[m]
  BY <1>8, <1>9 DEF FlipTaken
<1>11. \A k, l \in 1..Len(vflips') : k # l => \/ vflips'[k] = g \/ vflips'[l] = g
                                             \/ \E m, n \in 1..Len(vflips) : m # n /\ vflips'[k] = vflips[m] /\ vflips'[l] = vflips[n]
  BY <1>8, <1>9 DEF FlipTaken
<1>12. QED
  BY <1>2, <1>4, <1>7, <1>10, <1>11, VoSoleAdded

\* A flip is alone with its label, or the one that was is not any more.
LEMMA VoSoleLock ==
  ASSUME VoIInv, VoSole, NEW j \in DOMAIN vflips, lock_flip_label(j)
  PROVE  VoSole'
<1>1. j \in 1..Len(vflips) /\ vflips[j] \in VoFlipRecs /\ FlipOf(vflips[j]) /\ DOMAIN vport = Ports
  BY VoState, VoReached
<1>2. vflips[j].slot \in Ports /\ (vflips[j].lock => vflips[j].index \in Frames)
  BY <1>1 DEF VoFlipRecs, FlipOf
<1>3. /\ DOMAIN vport[vflips[j].slot] = VoFields /\ DOMAIN vport[vflips[j].slot].label = Frames
  BY <1>2, VoState DEF PortRec
<1>4. vport' = IF vflips[j].lock THEN [vport EXCEPT ![vflips[j].slot].label[vflips[j].index] = 1] ELSE vport
  BY DEF lock_flip_label
<1>5. /\ \A q \in Ports : vport'[q].prev = vport[q].prev /\ vport'[q].held = vport[q].held
      /\ \A q \in Ports, i \in Frames : vport[q].label[i] = 1 => vport'[q].label[i] = 1
      /\ vflips[j].lock => vport'[vflips[j].slot].label[vflips[j].index] = 1
  BY <1>1, <1>2, <1>3, <1>4 DEF VoFields
<1>6. ASSUME NEW k \in 1..Len(vflips'), vflips'[k].sole PROVE SoleOf(vflips, k)'
  <2>1. k \in 1..Len(vflips) /\ vflips[k] \in VoFlipRecs
    BY <1>6, VoReached, VoState
  <2>2. vflips[k].slot \in Ports
    BY <2>1 DEF VoFlipRecs
  <2>3. CASE k = j
    <3>1. /\ vflips[j].lock /\ vport[vflips[j].slot].prev # vflips[j].index
          /\ \A m \in 1..Len(vflips) : m # j => ~(vflips[m].reached /\ vflips[m].slot = vflips[j].slot /\ vflips[m].index = vflips[j].index)
      BY <1>6, <2>3, VoReached
    <3>2. QED
      BY <1>1, <1>2, <1>5, <2>3, <3>1, VoReached DEF SoleOf
  <2>4. CASE k # j
    <3>1. SoleOf(vflips, k) /\ ~(vflips[k].slot = vflips[j].slot /\ vflips[k].index = vflips[j].index)
      BY <1>6, <2>1, <2>4, VoReached DEF VoSole
    <3>2. QED
      BY <1>5, <2>1, <2>2, <2>4, <3>1, VoReached DEF SoleOf
  <2>5. QED
    BY <2>3, <2>4
<1>7. ASSUME NEW q \in Ports PROVE HeldOf(vport'[q])
  BY <1>5 DEF VoSole, HeldOf
<1>8. QED
  BY <1>6, <1>7 DEF VoSole

\* A flip is over: only its own port moves, and only the label of the buffer
\* shown before is cleared.
LEMMA VoFinished ==
  ASSUME VoIInv, NEW j \in DOMAIN vflips, finish_flip(j)
  PROVE  /\ j \in 1..Len(vflips) /\ vflips[j].reached /\ vflips[j].slot \in Ports /\ FlipTaken(vflips', vflips, j)
         /\ \A q \in Ports : q # vflips[j].slot => vport'[q] = vport[q]
         /\ vport'[vflips[j].slot].prev = vflips[j].index /\ vport'[vflips[j].slot].held = vflips[j].sole
         /\ \A i \in Frames : i # vport[vflips[j].slot].prev => vport'[vflips[j].slot].label[i] = vport[vflips[j].slot].label[i]
<1> DEFINE ps == {p \in Ports : vport[p].in_use /\ vport[p].handle = vflips[j].handle}
           done(v) == [v EXCEPT !.pending = IF @ > 0 THEN @ - 1 ELSE @, !.prev = vflips[j].index, !.held = vflips[j].sole,
                                !.label = [i \in Frames |-> IF i = v.prev THEN 0 ELSE @[i]]]
<1>1. /\ vflips[j].reached /\ vflips' = RemoveAt(vflips, j)
      /\ vport' = [p \in Ports |-> IF p \in ps THEN done(vport[p]) ELSE vport[p]]
  BY DEF finish_flip
<1>2. j \in 1..Len(vflips) /\ vflips \in Seq(VoFlipRecs) /\ vflips[j] \in VoFlipRecs /\ FlipOf(vflips[j]) /\ OnePort
  BY VoState
<1>3. FlipTaken(vflips', vflips, j)
  BY <1>1, <1>2, FlipTakenOf
<1>4. vflips[j].slot \in Ports
  BY <1>2 DEF VoFlipRecs
<1>5. \A q \in Ports : q \in ps <=> q = vflips[j].slot
  BY <1>2, <1>4 DEF FlipOf, OnePort
<1> HIDE DEF ps
<1>6. DOMAIN vport[vflips[j].slot] = VoFields
  BY <1>4, VoState DEF PortRec
<1>7. vport'[vflips[j].slot] = done(vport[vflips[j].slot]) /\ \A q \in Ports : q # vflips[j].slot => vport'[q] = vport[q]
  BY <1>1, <1>4, <1>5
<1>8. \A v : DOMAIN v = VoFields => /\ done(v).prev = vflips[j].index /\ done(v).held = vflips[j].sole
                                   /\ \A i \in Frames : i # v.prev => done(v).label[i] = v.label[i]
  BY DEF VoFields
<1> HIDE DEF done
<1>9. QED
  BY <1>1, <1>2, <1>3, <1>4, <1>6, <1>7, <1>8

LEMMA VoSoleFinish ==
  ASSUME VoIInv, VoSole, NEW j \in DOMAIN vflips, finish_flip(j)
  PROVE  VoSole'
<1>1. ASSUME NEW k \in 1..Len(vflips'), vflips'[k].sole PROVE SoleOf(vflips, k)'
  <2>1. PICK m \in 1..Len(vflips) : m # j /\ vflips'[k] = vflips[m]
    BY VoFinished DEF FlipTaken
  <2>2. vflips[m] \in VoFlipRecs /\ SoleOf(vflips, m)
    BY <1>1, <2>1, VoState DEF VoSole
  <2>3. vflips[m].slot \in Ports /\ vflips[m].index \in Frames
    BY <2>2 DEF VoFlipRecs, SoleOf
  <2>4. ~(vflips[j].slot = vflips[m].slot /\ vflips[j].index = vflips[m].index)
    BY <2>1, <2>2, VoFinished DEF SoleOf
  <2>5. /\ vport'[vflips[m].slot].label[vflips[m].index] = 1
        /\ vport'[vflips[m].slot].prev # vflips[m].index
    <3>1. CASE vflips[m].slot = vflips[j].slot
      BY <2>2, <2>3, <2>4, <3>1, VoFinished DEF SoleOf
    <3>2. CASE vflips[m].slot # vflips[j].slot
      BY <2>2, <2>3, <3>2, VoFinished DEF SoleOf
    <3>3. QED
      BY <3>1, <3>2
  <2>6. ASSUME NEW l \in 1..Len(vflips'), l # k, vflips'[l].reached, vflips'[l].slot = vflips'[k].slot, vflips'[l].index = vflips'[k].index
        PROVE  FALSE
    <3>a. \A a, b \in 1..Len(vflips') : a # b => \E x, y \in 1..Len(vflips) : x # y /\ x # j /\ y # j /\ vflips'[a] = vflips[x] /\ vflips'[b] = vflips[y]
      <4>1. FlipTaken(vflips', vflips, j)
        BY VoFinished
      <4>2. QED
        BY <4>1, Zenon DEF FlipTaken
    <3>1. PICK i, n \in 1..Len(vflips) : i # n /\ vflips'[k] = vflips[i] /\ vflips'[l] = vflips[n]
      BY <2>6, <3>a
    <3>2. SoleOf(vflips, i)
      BY <1>1, <3>1 DEF VoSole
    <3>3. QED
      BY <2>6, <3>1, <3>2 DEF SoleOf
  <2>7. QED
    BY <2>1, <2>2, <2>3, <2>5, <2>6 DEF SoleOf
<1>2. ASSUME NEW q \in Ports PROVE HeldOf(vport'[q])
  <2>1. CASE q = vflips[j].slot
    <3> SUFFICES ASSUME vport'[q].held PROVE vport'[q].prev \in Frames /\ vport'[q].label[vport'[q].prev] = 1
      BY DEF HeldOf
    <3>1. SoleOf(vflips, j)
      BY <2>1, VoFinished DEF VoSole
    <3>2. QED
      BY <2>1, <3>1, VoFinished DEF SoleOf
  <2>2. CASE q # vflips[j].slot
    BY <2>2, VoFinished DEF VoSole
  <2>3. QED
    BY <2>1, <2>2
<1>3. QED
  BY <1>1, <1>2 DEF VoSole

LEMMA VoSoleStep == ASSUME VoIInv, VoSole, VoNext \/ VoVblankNext \/ UNCHANGED vo_vars PROVE VoSole'
<1>1. CASE UNCHANGED vo_vars
  BY <1>1, VoSoleSame DEF vo_vars
<1>2. CASE sceVideoOutOpen
  BY <1>2, VoSoleOpen
<1>3. CASE \E p \in Ports : \/ sceVideoOutClose(p) \/ vblank(p) \/ \E k \in 1..MAX_BUFFER_SETS : sceVideoOutUnregisterBuffers(p, k)
                           \/ \E q \in VoEqs : sceVideoOutAddFlipEvent(p, q) \/ sceVideoOutDeleteFlipEvent(p, q)
  BY <1>3, VoSoleQuiet
<1>4. CASE \E p \in Ports, i \in Frames, n \in 1..MAX_FRAME_BUFFERS : sceVideoOutRegisterBuffers(p, i, n)
  BY <1>4, VoSoleRegister
<1>5. CASE \E p \in Ports, i \in Frames \cup {Blank}, a \in VoArgs, gpu \in BOOLEAN : ps4_videoout_submit_flip(p, i, a, gpu)
  BY <1>5, VoSoleSubmit
<1>6. CASE \E j \in DOMAIN vflips : ps4_gnm_metal_present(j)
  BY <1>6, VoSolePresent
<1>7. CASE \E j \in DOMAIN vflips : lock_flip_label(j)
  BY <1>7, VoSoleLock
<1>8. CASE \E j \in DOMAIN vflips : finish_flip(j)
  BY <1>8, VoSoleFinish
<1>9. CASE \E t \in VoThreads : wait_over(t) \/ \E p \in Ports : sceVideoOutWaitVblank(t, p)
  BY <1>9, VoSoleSame DEF wait_over, sceVideoOutWaitVblank
<1>10. QED
  BY <1>1, <1>2, <1>3, <1>4, <1>5, <1>6, <1>7, <1>8, <1>9 DEF VoNext, VoVblankNext

-----------------------------------------------------------------------------
(* The batches of the audio job manager. *)
BatchRecs == [in_use : BOOLEAN, id : Nat, ctx : Nat, jobs : Seq(InstSlots), finished : BOOLEAN, canceled : BOOLEAN,
              error : Nat]
CtxRecs == [in_use : BOOLEAN, codecs : SUBSET AjmCodecs, stop : BOOLEAN, queue : Seq(BatchSlots)]
WorkerRecs == [at : {"none", "idle", "look", "jobs", "done"}, slot : BatchSlots \cup {0}, job : Nat]
WaitRecs == [at : {"idle", "look", "asleep", "free"}, slot : BatchSlots \cup {0}, id : Nat, timed : BOOLEAN]

AjmTypes ==
  /\ actx \in [Contexts -> CtxRecs] /\ aworker \in [Contexts -> WorkerRecs]
  /\ abatch \in [BatchSlots -> BatchRecs] /\ await \in [AjmThreads -> WaitRecs]
  /\ ajm_ids \in Nat /\ aholder \in Contexts \cup {0}

\* The slots of a queue are in the order of their batches' ids, and s is before them.
InOrder(f, q) == \A j, k \in 1..Len(q) : j < k => f[q[j]].id < f[q[k]].id
Before(f, s, q) == \A k \in 1..Len(q) : f[s].id < f[q[k]].id
\* The batches the worker has and will take.
Todo(s, q) == (IF s = 0 THEN <<>> ELSE <<s>>) \o q
\* Batch b waits for context c's worker, or is with it.
Unfinished(b, c) == abatch[b].in_use /\ abatch[b].ctx = c /\ ~abatch[b].finished
\* The batches of a context: those of its queue are in the order of the starts
\* and behind the worker's; the two hold what is unfinished.
AjmQueueInv(c) ==
  LET q == actx[c].queue
      s == aworker[c].slot
  IN  /\ InOrder(abatch, q)
      /\ s # 0 => Before(abatch, s, q)
      /\ \A b \in BatchSlots : Unfinished(b, c) <=> b = s \/ \E k \in 1..Len(q) : q[k] = b
AjmCtxInv(c) ==
  /\ aworker[c].slot = 0 <=> aworker[c].at \in {"none", "idle"}
  /\ aholder = c => actx[c].stop /\ Quiescent(c)
  /\ ~actx[c].in_use => Quiescent(c) /\ aworker[c].at = "none"
\* A waiter's slot holds its batch.
AjmWaitInv(t) ==
  await[t].at # "idle" =>
    /\ await[t].slot \in BatchSlots
    /\ abatch[await[t].slot].in_use /\ abatch[await[t].slot].id = await[t].id
    /\ await[t].at = "asleep" => ~abatch[await[t].slot].finished
    /\ await[t].at = "free" => abatch[await[t].slot].finished
AjmOneWaiter == \A t, u \in AjmThreads : t # u /\ await[t].at # "idle" /\ await[u].at # "idle" => await[t].id # await[u].id

AjmIInv ==
  /\ AjmTypes
  /\ \A b \in BatchSlots : abatch[b].id <= ajm_ids
  /\ \A c \in Contexts : AjmQueueInv(c) /\ AjmCtxInv(c)
  /\ \A t \in AjmThreads : AjmWaitInv(t)
  /\ AjmOneWaiter

LEMMA AjmSlots == BatchSlots \subseteq Nat \ {0} /\ Contexts \subseteq Nat \ {0} /\ AjmStarts \in Nat
  BY AjmAssumption DEF BatchSlots, Contexts

LEMMA AjmInitInv == AjmInit => AjmIInv
<1> SUFFICES ASSUME AjmInit PROVE AjmIInv
  OBVIOUS
<1>1. NoCtx \in CtxRecs /\ NoCtx.queue = <<>> /\ ~NoCtx.in_use
  BY DEF NoCtx, CtxRecs
<1>2. NoWorker \in WorkerRecs /\ NoWorker.slot = 0 /\ NoWorker.at = "none"
  BY DEF NoWorker, WorkerRecs
<1>3. NoBatch \in BatchRecs /\ ~NoBatch.in_use /\ NoBatch.id = 0
  BY DEF NoBatch, BatchRecs
<1>4. NotWaiting \in WaitRecs /\ NotWaiting.at = "idle"
  BY DEF NotWaiting, WaitRecs
<1>5. AjmTypes
  BY <1>1, <1>2, <1>3, <1>4 DEF AjmInit, AjmTypes
<1>6. ASSUME NEW c \in Contexts PROVE AjmQueueInv(c) /\ AjmCtxInv(c)
  <2>1. actx[c] = NoCtx /\ aworker[c] = NoWorker /\ (\A b \in BatchSlots : abatch[b] = NoBatch) /\ aholder = 0
    BY DEF AjmInit
  <2>2. c # 0 /\ 0 \notin BatchSlots
    BY AjmSlots
  <2>3. AjmQueueInv(c)
    BY <1>1, <1>2, <1>3, <2>1, <2>2 DEF AjmQueueInv, Unfinished, InOrder, Before
  <2>4. AjmCtxInv(c)
    BY <1>1, <1>2, <1>3, <2>1, <2>2 DEF AjmCtxInv, Quiescent
  <2>5. QED
    BY <2>3, <2>4
<1>7. \A b \in BatchSlots : abatch[b].id <= ajm_ids
  BY <1>3 DEF AjmInit
<1>8. (\A t \in AjmThreads : AjmWaitInv(t)) /\ AjmOneWaiter
  BY <1>4 DEF AjmInit, AjmWaitInv, AjmOneWaiter
<1>9. QED
  BY <1>5, <1>6, <1>7, <1>8 DEF AjmIInv

\* What a sequence holds.
LEMMA HeldBy ==
  ASSUME NEW S, NEW q \in Seq(S)
  PROVE  \A b : b \in ToSet(q) <=> \E k \in 1..Len(q) : q[k] = b
<1>1. DOMAIN q = 1..Len(q)
  OBVIOUS
<1>2. QED
  BY <1>1 DEF ToSet

\* One element in front of a sequence.
LEMMA InFront ==
  ASSUME NEW S, NEW q \in Seq(S), NEW s \in S, NEW r, r = <<s>> \o q
  PROVE  /\ r \in Seq(S) /\ Len(r) = Len(q) + 1 /\ r[1] = s
         /\ \A k \in 1..Len(q) : r[k + 1] = q[k]
         /\ \A j \in 1..Len(q) + 1 : j # 1 => j - 1 \in 1..Len(q) /\ r[j] = q[j - 1]
<1>1. r \in Seq(S) /\ Len(r) = Len(q) + 1 /\ r[1] = s
  OBVIOUS
<1>2. \A k \in 1..Len(q) : r[k + 1] = q[k]
  OBVIOUS
<1>3. ASSUME NEW j \in 1..Len(q) + 1, j # 1 PROVE j - 1 \in 1..Len(q) /\ r[j] = q[j - 1]
  <2>1. j - 1 \in 1..Len(q) /\ j - 1 + 1 = j
    BY <1>3
  <2>2. QED
    BY <1>2, <2>1
<1>4. QED
  BY <1>1, <1>2, <1>3

LEMMA TodoOf ==
  ASSUME NEW S, 0 \notin S, NEW q \in Seq(S), NEW s \in S \cup {0}, NEW f, InOrder(f, q), s # 0 => Before(f, s, q)
  PROVE  /\ \A b : b \in ToSet(Todo(s, q)) <=> (s # 0 /\ b = s) \/ \E k \in 1..Len(q) : q[k] = b
         /\ \A j \in 1..Len(Todo(s, q)) - 1 : f[Todo(s, q)[j]].id < f[Todo(s, q)[j + 1]].id
<1>1. Len(q) \in Nat
  OBVIOUS
<1>2. CASE s = 0
  <2>1. Todo(s, q) = q
    BY <1>2 DEF Todo
  <2>2. ASSUME NEW j \in 1..Len(q) - 1 PROVE f[q[j]].id < f[q[j + 1]].id
    <3>1. j \in 1..Len(q) /\ j + 1 \in 1..Len(q) /\ j < j + 1
      BY <1>1
    <3>2. QED
      BY <3>1 DEF InOrder
  <2>3. \A b : b \in ToSet(q) <=> \E k \in 1..Len(q) : q[k] = b
    BY HeldBy
  <2>4. QED
    BY <1>2, <2>1, <2>2, <2>3
<1>3. CASE s # 0
  <2>1. s \in S /\ Todo(s, q) = <<s>> \o q
    BY <1>3 DEF Todo
  <2> SUFFICES ASSUME NEW r, r = Todo(s, q)
               PROVE  /\ \A b : b \in ToSet(r) <=> (s # 0 /\ b = s) \/ \E k \in 1..Len(q) : q[k] = b
                      /\ \A j \in 1..Len(r) - 1 : f[r[j]].id < f[r[j + 1]].id
    OBVIOUS
  <2>2. /\ r \in Seq(S) /\ Len(r) = Len(q) + 1 /\ r[1] = s
        /\ \A k \in 1..Len(q) : r[k + 1] = q[k]
        /\ \A j \in 1..Len(q) + 1 : j # 1 => j - 1 \in 1..Len(q) /\ r[j] = q[j - 1]
    BY <2>1, InFront
  <2>3. \A b : b \in ToSet(r) <=> \E k \in 1..Len(r) : r[k] = b
    BY <2>2, HeldBy
  <2>4. ASSUME NEW b, NEW k \in 1..Len(r), r[k] = b PROVE b = s \/ \E j \in 1..Len(q) : q[j] = b
    <3>1. CASE k = 1
      BY <2>2, <2>4, <3>1
    <3>2. CASE k # 1
      BY <2>2, <2>4, <3>2
    <3>3. QED
      BY <3>1, <3>2
  <2>5. \E k \in 1..Len(r) : r[k] = s
    BY <1>1, <2>2
  <2>6. ASSUME NEW k \in 1..Len(q) PROVE \E j \in 1..Len(r) : r[j] = q[k]
    <3>1. k + 1 \in 1..Len(r) /\ r[k + 1] = q[k]
      BY <1>1, <2>2
    <3>2. QED
      BY <3>1
  <2>7. \A b : b \in ToSet(r) <=> b = s \/ \E k \in 1..Len(q) : q[k] = b
    BY <2>3, <2>4, <2>5, <2>6
  <2>8. ASSUME NEW j \in 1..Len(r) - 1 PROVE f[r[j]].id < f[r[j + 1]].id
    <3>1. j \in 1..Len(q) /\ r[j + 1] = q[j] /\ j \in 1..Len(q) + 1
      BY <1>1, <2>2
    <3>2. CASE j = 1
      BY <1>3, <2>2, <3>1, <3>2 DEF Before
    <3>3. CASE j # 1
      <4>1. j - 1 \in 1..Len(q) /\ r[j] = q[j - 1] /\ j - 1 < j
        BY <2>2, <3>1, <3>3
      <4>2. QED
        BY <3>1, <4>1 DEF InOrder
    <3>4. QED
      BY <3>2, <3>3
  <2>9. QED
    BY <1>3, <2>7, <2>8
<1>4. QED
  BY <1>2, <1>3

LEMMA AjmExactInv == AjmIInv => BatchesServed
<1> SUFFICES ASSUME AjmIInv PROVE BatchesServed
  OBVIOUS
<1>1. ASSUME NEW c \in Contexts, NEW todo, todo = Todo(aworker[c].slot, actx[c].queue)
      PROVE  /\ \A j \in 1..Len(todo) - 1 : abatch[todo[j]].id < abatch[todo[j + 1]].id
             /\ ToSet(todo) = {b \in BatchSlots : Unfinished(b, c)}
             /\ aholder = c => aworker[c].at # "jobs"
  <2> SUFFICES ASSUME NEW q, q = actx[c].queue, NEW s, s = aworker[c].slot
               PROVE  /\ \A j \in 1..Len(todo) - 1 : abatch[todo[j]].id < abatch[todo[j + 1]].id
                      /\ ToSet(todo) = {b \in BatchSlots : Unfinished(b, c)}
                      /\ aholder = c => aworker[c].at # "jobs"
    OBVIOUS
  <2>1. q \in Seq(BatchSlots) /\ s \in BatchSlots \cup {0} /\ AjmCtxInv(c) /\ AjmQueueInv(c)
    BY DEF AjmIInv, AjmTypes, CtxRecs, WorkerRecs
  <2>2. 0 \notin BatchSlots
    BY AjmSlots
  <2>3. InOrder(abatch, q) /\ (s # 0 => Before(abatch, s, q))
      BY <2>1 DEF AjmQueueInv
  <2>4. /\ \A b : b \in ToSet(Todo(s, q)) <=> (s # 0 /\ b = s) \/ \E k \in 1..Len(q) : q[k] = b
        /\ \A j \in 1..Len(Todo(s, q)) - 1 : abatch[Todo(s, q)[j]].id < abatch[Todo(s, q)[j + 1]].id
    BY <2>1, <2>2, <2>3, TodoOf
  <2>5. ToSet(todo) = {b \in BatchSlots : Unfinished(b, c)}
    <3>1. \A b \in BatchSlots : Unfinished(b, c) <=> b = s \/ \E k \in 1..Len(q) : q[k] = b
      BY <2>1 DEF AjmQueueInv
    <3>2. \A k \in 1..Len(q) : q[k] \in BatchSlots
      BY <2>1
    <3>3. QED
      BY <1>1, <2>1, <2>2, <2>4, <3>1, <3>2
  <2>6. ~(aholder = c /\ aworker[c].at = "jobs")
    BY <2>1, <2>2 DEF AjmCtxInv, AjmQueueInv, Quiescent, Unfinished
  <2>7. QED
    BY <1>1, <2>4, <2>5, <2>6
<1>2. QED
  BY <1>1 DEF AjmIInv, AjmWaitInv, BatchesServed, Unfinished, Todo

\* A context whose queue and worker keep their batches.
LEMMA AjmQueueKeeps ==
  ASSUME AjmIInv, NEW c \in Contexts, actx'[c].queue = actx[c].queue, aworker'[c].slot = aworker[c].slot,
         \A b \in BatchSlots : (Unfinished(b, c)' <=> Unfinished(b, c)) /\ (Unfinished(b, c) => abatch'[b].id = abatch[b].id)
  PROVE  AjmQueueInv(c)'
<1> SUFFICES ASSUME NEW q, q = actx[c].queue, NEW s, s = aworker[c].slot PROVE AjmQueueInv(c)'
  OBVIOUS
<1>1. q \in Seq(BatchSlots) /\ s \in BatchSlots \cup {0} /\ 0 \notin BatchSlots /\ \A k \in 1..Len(q) : q[k] \in BatchSlots
  BY AjmSlots DEF AjmIInv, AjmTypes, CtxRecs, WorkerRecs
<1>2. InOrder(abatch, q) /\ (s # 0 => Before(abatch, s, q))
      /\ \A b \in BatchSlots : Unfinished(b, c) <=> b = s \/ \E k \in 1..Len(q) : q[k] = b
  BY DEF AjmIInv, AjmQueueInv
<1>3. \A k \in 1..Len(q) : abatch'[q[k]].id = abatch[q[k]].id
  BY <1>1, <1>2
<1>4. s # 0 => abatch'[s].id = abatch[s].id
  BY <1>1, <1>2
<1>5. InOrder(abatch', q) /\ (s # 0 => Before(abatch', s, q))
  BY <1>2, <1>3, <1>4 DEF InOrder, Before
<1>6. \A b \in BatchSlots : Unfinished(b, c)' <=> b = s \/ \E k \in 1..Len(q) : q[k] = b
  BY <1>2
<1>7. actx'[c].queue = q /\ aworker'[c].slot = s
  OBVIOUS
<1> HIDE DEF AjmIInv
<1>8. QED
  BY <1>5, <1>6, <1>7 DEF AjmQueueInv

\* What the invariant says of a context.
LEMMA AjmFacts ==
  ASSUME AjmIInv
  PROVE  /\ actx \in [Contexts -> CtxRecs] /\ aworker \in [Contexts -> WorkerRecs]
         /\ abatch \in [BatchSlots -> BatchRecs] /\ await \in [AjmThreads -> WaitRecs]
         /\ ajm_ids \in Nat /\ aholder \in Contexts \cup {0}
         /\ \A c \in Contexts : AjmQueueInv(c) /\ AjmCtxInv(c)
         /\ \A t \in AjmThreads : AjmWaitInv(t)
         /\ \A b \in BatchSlots : abatch[b].id <= ajm_ids /\ abatch[b].id \in Nat
  BY DEF AjmIInv, AjmTypes, BatchRecs

\* The batches stay as they are.
LEMMA AjmSameBatches ==
  ASSUME AjmIInv, UNCHANGED <<abatch, ajm_ids, await>>, actx' \in [Contexts -> CtxRecs],
         aworker' \in [Contexts -> WorkerRecs], aholder' \in Contexts \cup {0},
         \A c \in Contexts : AjmCtxInv(c)',
         \A c \in Contexts : AjmQueueInv(c)' \/ (actx'[c].queue = actx[c].queue /\ aworker'[c].slot = aworker[c].slot)
  PROVE  AjmIInv'
<1>1. \A c \in Contexts : AjmQueueInv(c)'
  <2> SUFFICES ASSUME NEW c \in Contexts PROVE AjmQueueInv(c)'
    OBVIOUS
  <2>1. CASE AjmQueueInv(c)'
    BY <2>1
  <2>2. CASE actx'[c].queue = actx[c].queue /\ aworker'[c].slot = aworker[c].slot
    <3>1. \A b \in BatchSlots : (Unfinished(b, c)' <=> Unfinished(b, c)) /\ abatch'[b].id = abatch[b].id
      BY DEF Unfinished
    <3>2. QED
      BY <2>2, <3>1, AjmQueueKeeps
  <2>3. QED
    BY <2>1, <2>2
<1>2. AjmTypes'
  BY AjmFacts DEF AjmTypes
<1>3. \A t \in AjmThreads : AjmWaitInv(t)'
  BY AjmFacts DEF AjmWaitInv
<1>4. AjmOneWaiter'
  BY DEF AjmIInv, AjmOneWaiter
<1>5. \A b \in BatchSlots : abatch'[b].id <= ajm_ids'
  BY AjmFacts
<1>6. QED
  BY <1>1, <1>2, <1>3, <1>4, <1>5 DEF AjmIInv

\* A context is set up, in the lowest free slot.
LEMMA AjmInitializeKeeps == ASSUME AjmIInv, shim_sceAjmInitialize PROVE AjmIInv'
<1> DEFINE free == {c \in Contexts : ~actx[c].in_use}
<1> SUFFICES ASSUME NEW m, m = Min(free) PROVE AjmIInv'
  OBVIOUS
<1>1. m \in Contexts /\ ~actx[m].in_use
  <2>1. free \subseteq Nat /\ free # {}
    BY AjmSlots DEF shim_sceAjmInitialize
  <2>2. m \in free
    <3> HIDE DEF free
    <3> QED
      BY <2>1, LeastOf
  <2>3. QED
    BY <2>2
<1> DEFINE x == [NoCtx EXCEPT !.in_use = TRUE]
           w == [NoWorker EXCEPT !.at = "idle"]
<1>2. x \in CtxRecs /\ x.queue = <<>> /\ x.in_use /\ ~x.stop /\ w \in WorkerRecs /\ w.slot = 0 /\ w.at = "idle"
  <2>1. x \in CtxRecs /\ x.queue = <<>> /\ x.in_use /\ ~x.stop
    <3>1. NoCtx \in CtxRecs /\ NoCtx.queue = <<>> /\ ~NoCtx.stop
      BY DEF NoCtx, CtxRecs
    <3>2. QED
      BY <3>1 DEF CtxRecs
  <2>2. w \in WorkerRecs /\ w.slot = 0 /\ w.at = "idle"
    BY DEF NoWorker, WorkerRecs
  <2>3. QED
    BY <2>1, <2>2
<1>3. actx' = [actx EXCEPT ![m] = x] /\ aworker' = [aworker EXCEPT ![m] = w] /\ UNCHANGED <<abatch, ajm_ids, aholder, await>>
      /\ aholder = 0
  BY DEF shim_sceAjmInitialize, Unlocked
<1> HIDE DEF x, w, free
<1>4. actx' \in [Contexts -> CtxRecs] /\ aworker' \in [Contexts -> WorkerRecs] /\ aholder' \in Contexts \cup {0}
      /\ actx'[m] = x /\ aworker'[m] = w
      /\ \A c \in Contexts : c # m => actx'[c] = actx[c] /\ aworker'[c] = aworker[c]
  BY <1>1, <1>2, <1>3, AjmFacts
<1>5. Quiescent(m) /\ \A c \in Contexts : Quiescent(c)' <=> Quiescent(c)
  BY <1>1, <1>3, AjmFacts DEF AjmCtxInv, Quiescent
<1>6. \A c \in Contexts : AjmCtxInv(c)'
  <2> SUFFICES ASSUME NEW c \in Contexts PROVE AjmCtxInv(c)'
    OBVIOUS
  <2>1. aholder' # c
    BY <1>3, AjmSlots
  <2>2. CASE c = m
    BY <1>2, <1>4, <2>1, <2>2 DEF AjmCtxInv
  <2>3. CASE c # m
    BY <1>4, <1>5, <2>1, <2>3, AjmFacts DEF AjmCtxInv
  <2>4. QED
    BY <2>2, <2>3
<1>7. AjmQueueInv(m)'
  <2>1. \A b \in BatchSlots : ~Unfinished(b, m)'
    BY <1>3, <1>5 DEF Quiescent, Unfinished
  <2>2. actx'[m].queue = <<>> /\ aworker'[m].slot = 0 /\ 0 \notin BatchSlots
    BY <1>2, <1>4, AjmSlots
  <2>3. QED
    BY <2>1, <2>2 DEF AjmQueueInv, InOrder
<1>8. QED
  BY <1>3, <1>4, <1>6, <1>7, AjmSameBatches

\* The contexts' other steps that leave the batches alone.
LEMMA AjmFinalizeKeeps ==
  ASSUME AjmIInv, NEW c \in Contexts, shim_sceAjmFinalize(c) \/ finalize_joined(c) PROVE AjmIInv'
<1>1. actx \in [Contexts -> CtxRecs] /\ actx[c] \in CtxRecs /\ aworker \in [Contexts -> WorkerRecs]
      /\ UNCHANGED <<abatch, ajm_ids, await, aworker>>
      /\ \A d \in Contexts : Quiescent(d)' <=> Quiescent(d)
  BY AjmFacts DEF shim_sceAjmFinalize, finalize_joined, Quiescent
<1>2. CASE shim_sceAjmFinalize(c)
  <2> DEFINE x == [actx[c] EXCEPT !.stop = TRUE]
  <2>1. actx' = [actx EXCEPT ![c] = x] /\ aholder' = c /\ Quiescent(c)
    BY <1>1, <1>2 DEF shim_sceAjmFinalize
  <2>2. x \in CtxRecs /\ x.queue = actx[c].queue /\ x.in_use = actx[c].in_use /\ x.stop
    BY <1>1 DEF CtxRecs
  <2> HIDE DEF x
  <2>3. actx' \in [Contexts -> CtxRecs] /\ actx'[c] = x /\ \A d \in Contexts : d # c => actx'[d] = actx[d]
    BY <1>1, <2>1, <2>2
  <2>4. \A d \in Contexts : AjmCtxInv(d)'
    BY <1>1, <2>1, <2>2, <2>3, AjmFacts DEF AjmCtxInv
  <2>5. \A d \in Contexts : actx'[d].queue = actx[d].queue /\ aworker'[d].slot = aworker[d].slot
    BY <1>1, <2>2, <2>3
  <2>6. QED
    BY <1>1, <2>1, <2>3, <2>4, <2>5, AjmSameBatches
<1>3. CASE finalize_joined(c)
  <2> DEFINE x == [actx[c] EXCEPT !.in_use = FALSE]
  <2>1. actx' = [actx EXCEPT ![c] = x] /\ aholder = c /\ aholder' = 0 /\ aworker[c].at = "none" /\ Quiescent(c)
    BY <1>1, <1>3, AjmFacts DEF finalize_joined, AjmCtxInv
  <2>2. x \in CtxRecs /\ x.queue = actx[c].queue /\ ~x.in_use /\ x.stop = actx[c].stop
    BY <1>1 DEF CtxRecs
  <2> HIDE DEF x
  <2>3. actx' \in [Contexts -> CtxRecs] /\ actx'[c] = x /\ \A d \in Contexts : d # c => actx'[d] = actx[d]
    BY <1>1, <2>1, <2>2
  <2>4. 0 \notin Contexts
    BY AjmSlots
  <2>5. \A d \in Contexts : AjmCtxInv(d)'
    BY <1>1, <2>1, <2>2, <2>3, <2>4, AjmFacts DEF AjmCtxInv
  <2>6. \A d \in Contexts : actx'[d].queue = actx[d].queue /\ aworker'[d].slot = aworker[d].slot
    BY <1>1, <2>2, <2>3
  <2>7. QED
    BY <1>1, <2>1, <2>3, <2>5, <2>6, AjmSameBatches
<1>4. QED
  BY <1>2, <1>3

LEMMA AjmModuleKeeps ==
  ASSUME AjmIInv, NEW c \in Contexts, NEW k \in AjmCodecs,
         shim_sceAjmModuleRegister(c, k) \/ shim_sceAjmModuleUnregister(c, k)
  PROVE  AjmIInv'
<1>1. actx \in [Contexts -> CtxRecs] /\ actx[c] \in CtxRecs /\ aworker \in [Contexts -> WorkerRecs]
      /\ UNCHANGED <<abatch, ajm_ids, await, aworker, aholder>> /\ aholder \in Contexts \cup {0}
      /\ \A d \in Contexts : Quiescent(d)' <=> Quiescent(d)
  BY AjmFacts DEF shim_sceAjmModuleRegister, shim_sceAjmModuleUnregister, Quiescent
<1>2. PICK ks \in SUBSET AjmCodecs : actx' = [actx EXCEPT ![c] = [actx[c] EXCEPT !.codecs = ks]]
  <2>1. actx[c].codecs \in SUBSET AjmCodecs
    BY <1>1 DEF CtxRecs
  <2>2. actx[c].codecs \cup {k} \in SUBSET AjmCodecs /\ actx[c].codecs \ {k} \in SUBSET AjmCodecs
    BY <2>1
  <2>3. actx' = [actx EXCEPT ![c] = [actx[c] EXCEPT !.codecs = actx[c].codecs \cup {k}]]
        \/ actx' = [actx EXCEPT ![c] = [actx[c] EXCEPT !.codecs = actx[c].codecs \ {k}]]
    BY <1>1 DEF shim_sceAjmModuleRegister, shim_sceAjmModuleUnregister
  <2>4. QED
    BY <2>2, <2>3
<1> DEFINE x == [actx[c] EXCEPT !.codecs = ks]
<1>3. x \in CtxRecs /\ x.queue = actx[c].queue /\ x.in_use = actx[c].in_use /\ x.stop = actx[c].stop
  BY <1>1 DEF CtxRecs
<1>4. actx' = [actx EXCEPT ![c] = x]
  BY <1>2
<1> HIDE DEF x
<1>5. actx' \in [Contexts -> CtxRecs] /\ actx'[c] = x /\ \A d \in Contexts : d # c => actx'[d] = actx[d]
  BY <1>1, <1>3, <1>4
<1>6. \A d \in Contexts : AjmCtxInv(d)'
  BY <1>1, <1>3, <1>5, AjmFacts DEF AjmCtxInv
<1>7. \A d \in Contexts : actx'[d].queue = actx[d].queue /\ aworker'[d].slot = aworker[d].slot
  BY <1>1, <1>3, <1>5
<1>8. QED
  BY <1>1, <1>5, <1>6, <1>7, AjmSameBatches

\* The worker's steps that leave the batches alone.
LEMMA AjmWorkerMove ==
  ASSUME AjmIInv, NEW c \in Contexts, NEW w \in WorkerRecs, aworker' = [aworker EXCEPT ![c] = w],
         w.slot = aworker[c].slot, UNCHANGED <<actx, abatch, ajm_ids, aholder, await>>,
         w.slot = 0 <=> w.at \in {"none", "idle"}, aworker[c].at # "none"
  PROVE  AjmIInv'
<1>1. aworker \in [Contexts -> WorkerRecs] /\ actx \in [Contexts -> CtxRecs] /\ aholder \in Contexts \cup {0}
  BY AjmFacts
<1>2. aworker' \in [Contexts -> WorkerRecs] /\ aworker'[c] = w /\ \A d \in Contexts : d # c => aworker'[d] = aworker[d]
  BY <1>1
<1>3. \A d \in Contexts : Quiescent(d)' <=> Quiescent(d)
  BY DEF Quiescent
<1>4. \A d \in Contexts : AjmCtxInv(d)'
  BY <1>2, <1>3, AjmFacts DEF AjmCtxInv
<1>5. QED
  BY <1>1, <1>2, <1>4, AjmSameBatches

LEMMA AjmLookExitKeeps == ASSUME AjmIInv, NEW c \in Contexts, worker_look(c) \/ worker_exit(c) PROVE AjmIInv'
<1>1. aworker \in [Contexts -> WorkerRecs] /\ aworker[c] \in WorkerRecs /\ AjmCtxInv(c)
  BY AjmFacts
<1>2. CASE worker_look(c)
  <2> DEFINE w == [aworker[c] EXCEPT !.at = IF abatch[aworker[c].slot].canceled THEN "done" ELSE "jobs"]
  <2>1. aworker' = [aworker EXCEPT ![c] = w] /\ UNCHANGED <<actx, abatch, ajm_ids, aholder, await>> /\ aworker[c].at = "look"
    BY <1>1, <1>2 DEF worker_look
  <2>2. w \in WorkerRecs /\ w.slot = aworker[c].slot /\ w.at \in {"done", "jobs"}
    BY <1>1 DEF WorkerRecs
  <2> HIDE DEF w
  <2>3. QED
    BY <1>1, <2>1, <2>2, AjmWorkerMove DEF AjmCtxInv
<1>3. CASE worker_exit(c)
  <2>1. aworker' = [aworker EXCEPT ![c] = NoWorker] /\ UNCHANGED <<actx, abatch, ajm_ids, aholder, await>> /\ aworker[c].at = "idle"
    BY <1>3 DEF worker_exit
  <2>2. NoWorker \in WorkerRecs /\ NoWorker.slot = 0 /\ NoWorker.at = "none"
    BY DEF NoWorker, WorkerRecs
  <2>3. QED
    BY <1>1, <2>1, <2>2, AjmWorkerMove DEF AjmCtxInv
<1>4. QED
  BY <1>2, <1>3

\* The worker takes the batch at the head of its queue.
LEMMA TailOf ==
  ASSUME NEW S, NEW q \in Seq(S), q # <<>>
  PROVE  /\ Head(q) = q[1] /\ Tail(q) \in Seq(S) /\ Len(Tail(q)) = Len(q) - 1 /\ Len(q) \in Nat /\ 1 \in 1..Len(q)
         /\ \A k \in 1..Len(q) - 1 : k + 1 \in 1..Len(q) /\ Tail(q)[k] = q[k + 1]
         /\ \A k \in 1..Len(q) : k # 1 => k - 1 \in 1..Len(q) - 1 /\ Tail(q)[k - 1] = q[k]
<1>1. Head(q) = q[1] /\ Tail(q) \in Seq(S) /\ Len(Tail(q)) = Len(q) - 1 /\ Len(q) \in Nat /\ 1 \in 1..Len(q)
  OBVIOUS
<1>2. \A k \in 1..Len(q) - 1 : k + 1 \in 1..Len(q) /\ Tail(q)[k] = q[k + 1]
  OBVIOUS
<1>3. ASSUME NEW k \in 1..Len(q), k # 1 PROVE k - 1 \in 1..Len(q) - 1 /\ Tail(q)[k - 1] = q[k]
  <2>1. k - 1 \in 1..Len(q) - 1 /\ k - 1 + 1 = k
    BY <1>1, <1>3
  <2>2. QED
    BY <1>2, <2>1
<1>4. QED
  BY <1>1, <1>2, <1>3

LEMMA AjmTakeKeeps == ASSUME AjmIInv, NEW c \in Contexts, worker_take(c) PROVE AjmIInv'
<1> SUFFICES ASSUME NEW q, q = actx[c].queue PROVE AjmIInv'
  OBVIOUS
<1> DEFINE x == [actx[c] EXCEPT !.queue = Tail(q)]
           w == [at |-> "look", slot |-> Head(q), job |-> 1]
<1>1. actx \in [Contexts -> CtxRecs] /\ actx[c] \in CtxRecs /\ aworker \in [Contexts -> WorkerRecs]
      /\ aholder \in Contexts \cup {0} /\ AjmQueueInv(c) /\ AjmCtxInv(c)
  BY AjmFacts
<1>2. q \in Seq(BatchSlots) /\ q # <<>> /\ aworker[c].at = "idle" /\ UNCHANGED <<abatch, ajm_ids, aholder, await>>
  BY <1>1 DEF worker_take, CtxRecs
<1>3. /\ Head(q) = q[1] /\ Tail(q) \in Seq(BatchSlots) /\ Len(Tail(q)) = Len(q) - 1 /\ Len(q) \in Nat /\ 1 \in 1..Len(q)
      /\ \A k \in 1..Len(q) - 1 : k + 1 \in 1..Len(q) /\ Tail(q)[k] = q[k + 1]
      /\ \A k \in 1..Len(q) : k # 1 => k - 1 \in 1..Len(q) - 1 /\ Tail(q)[k - 1] = q[k]
  BY <1>2, TailOf
<1>4. Head(q) \in BatchSlots /\ Head(q) # 0
  BY <1>2, <1>3, AjmSlots
<1>5. x \in CtxRecs /\ x.queue = Tail(q) /\ x.in_use = actx[c].in_use /\ x.stop = actx[c].stop
  BY <1>1, <1>3 DEF CtxRecs
<1>6. w \in WorkerRecs /\ w.slot = Head(q) /\ w.at = "look"
  BY <1>4 DEF WorkerRecs
<1>7. actx' = [actx EXCEPT ![c] = x] /\ aworker' = [aworker EXCEPT ![c] = w]
  BY <1>1 DEF worker_take
<1> HIDE DEF x, w
<1>8. actx' \in [Contexts -> CtxRecs] /\ aworker' \in [Contexts -> WorkerRecs] /\ actx'[c] = x /\ aworker'[c] = w
      /\ \A d \in Contexts : d # c => actx'[d] = actx[d] /\ aworker'[d] = aworker[d]
  BY <1>1, <1>5, <1>6, <1>7
<1>9. \A d \in Contexts : Quiescent(d)' <=> Quiescent(d)
  BY <1>2 DEF Quiescent
<1>10. \A d \in Contexts : AjmCtxInv(d)'
  BY <1>1, <1>2, <1>4, <1>5, <1>6, <1>8, <1>9, AjmFacts DEF AjmCtxInv
<1>11. AjmQueueInv(c)'
  <2>1. InOrder(abatch, q) /\ aworker[c].slot = 0 /\ 0 \notin BatchSlots
        /\ \A b \in BatchSlots : Unfinished(b, c) <=> \E k \in 1..Len(q) : q[k] = b
    BY <1>1, <1>2, AjmSlots DEF AjmQueueInv, AjmCtxInv
  <2>2. \A j, k \in 1..Len(q) : j < k => abatch[q[j]].id < abatch[q[k]].id
    BY <2>1 DEF InOrder
  <2>3. InOrder(abatch, Tail(q))
    <3>1. \A j, k \in 1..Len(q) - 1 : j < k => abatch[q[j + 1]].id < abatch[q[k + 1]].id
      BY <1>3, <2>2
    <3>2. ASSUME NEW j \in 1..Len(Tail(q)), NEW k \in 1..Len(Tail(q)), j < k
          PROVE  abatch[Tail(q)[j]].id < abatch[Tail(q)[k]].id
      <4>1. j \in 1..Len(q) - 1 /\ k \in 1..Len(q) - 1
        BY <1>3
      <4>2. Tail(q)[j] = q[j + 1] /\ Tail(q)[k] = q[k + 1]
        BY <1>3, <4>1
      <4>3. QED
        BY <3>1, <3>2, <4>1, <4>2
    <3>3. QED
      BY <3>2 DEF InOrder
  <2>4. Before(abatch, Head(q), Tail(q))
    <3>1. \A k \in 1..Len(q) - 1 : abatch[q[1]].id < abatch[q[k + 1]].id
      BY <1>3, <2>2
    <3>2. QED
      BY <1>3, <3>1 DEF Before
  <2>5. ASSUME NEW b \in BatchSlots
        PROVE (\E k \in 1..Len(q) : q[k] = b) <=> b = Head(q) \/ \E k \in 1..Len(Tail(q)) : Tail(q)[k] = b
    <3>1. ASSUME NEW k \in 1..Len(q), q[k] = b PROVE b = Head(q) \/ \E j \in 1..Len(Tail(q)) : Tail(q)[j] = b
      <4>1. CASE k = 1
        BY <1>3, <3>1, <4>1
      <4>2. CASE k # 1
        BY <1>3, <3>1, <4>2
      <4>3. QED
        BY <4>1, <4>2
    <3>2. ASSUME NEW k \in 1..Len(Tail(q)), Tail(q)[k] = b PROVE \E j \in 1..Len(q) : q[j] = b
      BY <1>3, <3>2
    <3>3. QED
      BY <1>3, <3>1, <3>2
  <2>6. \A b \in BatchSlots : Unfinished(b, c)' <=> b = Head(q) \/ \E k \in 1..Len(Tail(q)) : Tail(q)[k] = b
    <3>1. \A b \in BatchSlots : Unfinished(b, c)' <=> Unfinished(b, c)
      BY <1>2 DEF Unfinished
    <3>2. QED
      BY <2>1, <2>5, <3>1
  <2>7. actx'[c].queue = Tail(q) /\ aworker'[c].slot = Head(q)
    BY <1>5, <1>6, <1>8
  <2>8. abatch' = abatch
    BY <1>2
  <2>9. QED
    BY <2>3, <2>4, <2>6, <2>7, <2>8 DEF AjmQueueInv
<1>12. \A d \in Contexts : d # c => actx'[d].queue = actx[d].queue /\ aworker'[d].slot = aworker[d].slot
  BY <1>8
<1>13. QED
  BY <1>1, <1>2, <1>8, <1>10, <1>11, <1>12, AjmSameBatches

\* Waking the threads asleep on a batch.
LEMMA AjmWake ==
  ASSUME await \in [AjmThreads -> WaitRecs], NEW b
  PROVE  /\ WakeBatch(b) \in [AjmThreads -> WaitRecs]
         /\ \A t \in AjmThreads : /\ WakeBatch(b)[t].slot = await[t].slot /\ WakeBatch(b)[t].id = await[t].id
                                  /\ WakeBatch(b)[t].at = (IF await[t].at = "asleep" /\ await[t].slot = b THEN "look" ELSE await[t].at)
<1>1. ASSUME NEW t \in AjmThreads
      PROVE  /\ [await[t] EXCEPT !.at = "look"] \in WaitRecs /\ await[t] \in WaitRecs
             /\ [await[t] EXCEPT !.at = "look"].slot = await[t].slot
             /\ [await[t] EXCEPT !.at = "look"].id = await[t].id
             /\ [await[t] EXCEPT !.at = "look"].at = "look"
  BY DEF WaitRecs
<1>2. QED
  BY <1>1 DEF WakeBatch

\* A batch notes something that its queue and its waiters do not look at.
LEMMA AjmBatchNote ==
  ASSUME AjmIInv, NEW b \in BatchSlots, NEW r \in BatchRecs, abatch' = [abatch EXCEPT ![b] = r],
         r.in_use = abatch[b].in_use, r.id = abatch[b].id, r.ctx = abatch[b].ctx, r.finished = abatch[b].finished,
         UNCHANGED <<actx, ajm_ids, aholder>>, aworker' \in [Contexts -> WorkerRecs],
         \A c \in Contexts : aworker'[c].slot = aworker[c].slot /\ aworker'[c].at = aworker[c].at,
         await' \in [AjmThreads -> WaitRecs],
         \A t \in AjmThreads : /\ await'[t].slot = await[t].slot /\ await'[t].id = await[t].id
                               /\ await'[t].at = await[t].at \/ (await[t].at = "asleep" /\ await'[t].at = "look")
  PROVE  AjmIInv'
<1>1. abatch' \in [BatchSlots -> BatchRecs]
      /\ \A x \in BatchSlots : /\ abatch'[x].in_use = abatch[x].in_use /\ abatch'[x].id = abatch[x].id
                               /\ abatch'[x].ctx = abatch[x].ctx /\ abatch'[x].finished = abatch[x].finished
  BY AjmFacts
<1>2. \A c \in Contexts : AjmQueueInv(c)'
  <2> SUFFICES ASSUME NEW c \in Contexts PROVE AjmQueueInv(c)'
    OBVIOUS
  <2>1. \A x \in BatchSlots : (Unfinished(x, c)' <=> Unfinished(x, c)) /\ abatch'[x].id = abatch[x].id
    BY <1>1 DEF Unfinished
  <2>2. QED
    BY <2>1, AjmQueueKeeps
<1>3. \A c \in Contexts : AjmCtxInv(c)'
  <2>1. \A c \in Contexts : Quiescent(c)' <=> Quiescent(c)
    BY <1>1 DEF Quiescent
  <2>2. QED
    BY <2>1, AjmFacts DEF AjmCtxInv
<1>4. AjmTypes'
  BY <1>1, AjmFacts DEF AjmTypes
<1>5. \A t \in AjmThreads : AjmWaitInv(t)'
  <2> SUFFICES ASSUME NEW t \in AjmThreads, await'[t].at # "idle" PROVE AjmWaitInv(t)'
    BY DEF AjmWaitInv
  <2>1. AjmWaitInv(t) /\ await[t].at # "idle" /\ await'[t].slot = await[t].slot /\ await'[t].id = await[t].id
        /\ (await'[t].at = await[t].at \/ await'[t].at = "look")
    BY AjmFacts
  <2>2. await[t].slot \in BatchSlots /\ abatch[await[t].slot].in_use /\ abatch[await[t].slot].id = await[t].id
        /\ (await[t].at = "asleep" => ~abatch[await[t].slot].finished)
        /\ (await[t].at = "free" => abatch[await[t].slot].finished)
    BY <2>1 DEF AjmWaitInv
  <2>3. QED
    BY <1>1, <2>1, <2>2 DEF AjmWaitInv
<1>6. AjmOneWaiter'
  BY DEF AjmIInv, AjmOneWaiter
<1>7. \A x \in BatchSlots : abatch'[x].id <= ajm_ids'
  BY <1>1, AjmFacts
<1>8. QED
  BY <1>2, <1>3, <1>4, <1>5, <1>6, <1>7 DEF AjmIInv

LEMMA AjmJobKeeps == ASSUME AjmIInv, NEW c \in Contexts, worker_job(c) PROVE AjmIInv'
<1> SUFFICES ASSUME NEW b, b = aworker[c].slot PROVE AjmIInv'
  OBVIOUS
<1>1. aworker \in [Contexts -> WorkerRecs] /\ aworker[c] \in WorkerRecs /\ aworker[c].job \in Nat /\ AjmCtxInv(c)
      /\ abatch \in [BatchSlots -> BatchRecs] /\ await \in [AjmThreads -> WaitRecs]
  BY AjmFacts DEF WorkerRecs
<1>2. b \in BatchSlots /\ abatch[b] \in BatchRecs
  BY <1>1 DEF worker_job, AjmCtxInv, WorkerRecs
<1>3. PICK e \in Nat : abatch' = [abatch EXCEPT ![b] = [abatch[b] EXCEPT !.error = e]]
  <2>1. abatch[b].error \in Nat
    BY <1>2 DEF BatchRecs
  <2>2. abatch' = [abatch EXCEPT ![b] = [abatch[b] EXCEPT !.error = abatch[b].error]]
        \/ abatch' = [abatch EXCEPT ![b] = [abatch[b] EXCEPT !.error = aworker[c].job]]
    BY <1>1, <1>2 DEF worker_job
  <2>3. QED
    BY <1>1, <2>1, <2>2
<1> DEFINE r == [abatch[b] EXCEPT !.error = e]
           w == [aworker[c] EXCEPT !.job = @ + 1]
<1>4. r \in BatchRecs /\ r.in_use = abatch[b].in_use /\ r.id = abatch[b].id /\ r.ctx = abatch[b].ctx
      /\ r.finished = abatch[b].finished
  BY <1>2 DEF BatchRecs
<1>5. w \in WorkerRecs /\ w.slot = aworker[c].slot /\ w.at = aworker[c].at
  <2>1. aworker[c].job + 1 \in Nat
    BY <1>1
  <2>2. QED
    BY <1>1, <2>1 DEF WorkerRecs
<1>6. aworker' = [aworker EXCEPT ![c] = w] /\ UNCHANGED <<actx, ajm_ids, aholder, await>>
  BY <1>1 DEF worker_job
<1>7. abatch' = [abatch EXCEPT ![b] = r]
  BY <1>3
<1> HIDE DEF r, w
<1>8. aworker' \in [Contexts -> WorkerRecs]
      /\ \A d \in Contexts : aworker'[d].slot = aworker[d].slot /\ aworker'[d].at = aworker[d].at
  BY <1>1, <1>5, <1>6
<1>9. await' \in [AjmThreads -> WaitRecs] /\ \A t \in AjmThreads : await'[t] = await[t]
  BY <1>1, <1>6
<1>10. QED
  BY <1>2, <1>4, <1>6, <1>7, <1>8, <1>9, AjmBatchNote

LEMMA AjmCancelKeeps == ASSUME AjmIInv, NEW b \in BatchSlots, shim_sceAjmBatchCancel(b) PROVE AjmIInv'
<1> DEFINE r == [abatch[b] EXCEPT !.canceled = TRUE]
<1>1. abatch \in [BatchSlots -> BatchRecs] /\ abatch[b] \in BatchRecs /\ await \in [AjmThreads -> WaitRecs]
      /\ aworker \in [Contexts -> WorkerRecs]
  BY AjmFacts
<1>2. r \in BatchRecs /\ r.in_use = abatch[b].in_use /\ r.id = abatch[b].id /\ r.ctx = abatch[b].ctx
      /\ r.finished = abatch[b].finished
  BY <1>1 DEF BatchRecs
<1>3. abatch' = [abatch EXCEPT ![b] = r] /\ UNCHANGED <<actx, aworker, ajm_ids, aholder>> /\ await' = WakeBatch(b)
  BY <1>1 DEF shim_sceAjmBatchCancel
<1> HIDE DEF r
<1>4. /\ await' \in [AjmThreads -> WaitRecs]
      /\ \A t \in AjmThreads : /\ await'[t].slot = await[t].slot /\ await'[t].id = await[t].id
                               /\ await'[t].at = await[t].at \/ (await[t].at = "asleep" /\ await'[t].at = "look")
  BY <1>1, <1>3, AjmWake
<1>5. aworker' \in [Contexts -> WorkerRecs] /\ \A c \in Contexts : aworker'[c] = aworker[c]
  BY <1>1, <1>3
<1>6. QED
  BY <1>2, <1>3, <1>4, <1>5, AjmBatchNote

\* The worker is done with its batch: no longer in the context's todo.
LEMMA AjmFinishKeeps == ASSUME AjmIInv, NEW c \in Contexts, worker_finish(c) PROVE AjmIInv'
<1> SUFFICES ASSUME NEW b, b = aworker[c].slot, NEW q, q = actx[c].queue PROVE AjmIInv'
  OBVIOUS
<1> DEFINE r == [abatch[b] EXCEPT !.finished = TRUE]
           w == [NoWorker EXCEPT !.at = "idle"]
<1>1. aworker \in [Contexts -> WorkerRecs] /\ aworker[c] \in WorkerRecs /\ AjmCtxInv(c) /\ AjmQueueInv(c)
      /\ abatch \in [BatchSlots -> BatchRecs] /\ await \in [AjmThreads -> WaitRecs] /\ actx \in [Contexts -> CtxRecs]
      /\ aholder \in Contexts \cup {0}
  BY AjmFacts
<1>2. b \in BatchSlots /\ b # 0 /\ abatch[b] \in BatchRecs /\ aworker[c].at \in {"jobs", "done"}
  BY <1>1, AjmSlots DEF worker_finish, AjmCtxInv, WorkerRecs
<1>3. q \in Seq(BatchSlots) /\ 0 \notin BatchSlots /\ InOrder(abatch, q) /\ Before(abatch, b, q)
      /\ \A x \in BatchSlots : Unfinished(x, c) <=> x = b \/ \E k \in 1..Len(q) : q[k] = x
  BY <1>1, <1>2, AjmSlots DEF AjmQueueInv, CtxRecs
<1>4. Unfinished(b, c)
  BY <1>2, <1>3
<1>5. r \in BatchRecs /\ r.in_use = abatch[b].in_use /\ r.id = abatch[b].id /\ r.ctx = abatch[b].ctx /\ r.finished
  BY <1>2 DEF BatchRecs
<1>6. w \in WorkerRecs /\ w.slot = 0 /\ w.at = "idle"
  BY DEF NoWorker, WorkerRecs
<1>7. abatch' = [abatch EXCEPT ![b] = r] /\ await' = WakeBatch(b) /\ aworker' = [aworker EXCEPT ![c] = w]
      /\ UNCHANGED <<actx, ajm_ids, aholder>>
  BY <1>1, <1>2 DEF worker_finish
<1> HIDE DEF r, w
<1>8. abatch' \in [BatchSlots -> BatchRecs] /\ abatch'[b] = r /\ \A x \in BatchSlots : x # b => abatch'[x] = abatch[x]
  BY <1>1, <1>2, <1>5, <1>7
<1>9. aworker' \in [Contexts -> WorkerRecs] /\ aworker'[c] = w /\ \A d \in Contexts : d # c => aworker'[d] = aworker[d]
  BY <1>1, <1>6, <1>7
<1>10. /\ await' \in [AjmThreads -> WaitRecs]
       /\ \A t \in AjmThreads : /\ await'[t].slot = await[t].slot /\ await'[t].id = await[t].id
                                /\ await'[t].at = (IF await[t].at = "asleep" /\ await[t].slot = b THEN "look" ELSE await[t].at)
  BY <1>1, <1>7, AjmWake
<1>11. \A x \in BatchSlots : abatch'[x].in_use = abatch[x].in_use /\ abatch'[x].ctx = abatch[x].ctx /\ abatch'[x].id = abatch[x].id
                              /\ (x # b => abatch'[x].finished = abatch[x].finished)
  BY <1>5, <1>8
<1>12. AjmQueueInv(c)'
  <2>1. \A k \in 1..Len(q) : q[k] \in BatchSlots /\ q[k] # b
    <3>1. \A k \in 1..Len(q) : q[k] \in BatchSlots /\ abatch[q[k]].id \in Nat
      BY <1>3, AjmFacts
    <3>2. \A k \in 1..Len(q) : abatch[b].id < abatch[q[k]].id
      BY <1>3 DEF Before
    <3>3. abatch[b].id \in Nat
      BY <1>2, AjmFacts
    <3>4. QED
      BY <3>1, <3>2, <3>3
  <2>2. InOrder(abatch', q)
    <3>1. \A k \in 1..Len(q) : abatch'[q[k]].id = abatch[q[k]].id
      BY <1>11, <2>1
    <3>2. QED
      BY <1>3, <3>1 DEF InOrder
  <2>3. \A x \in BatchSlots : Unfinished(x, c)' <=> Unfinished(x, c) /\ x # b
    BY <1>5, <1>8, <1>11 DEF Unfinished
  <2>4. \A x \in BatchSlots : Unfinished(x, c)' <=> \E k \in 1..Len(q) : q[k] = x
    BY <1>3, <2>1, <2>3
  <2>5. actx'[c].queue = q /\ aworker'[c].slot = 0
    BY <1>6, <1>7, <1>9
  <2>6. QED
    BY <1>3, <2>2, <2>4, <2>5 DEF AjmQueueInv
<1>13. ASSUME NEW d \in Contexts, d # c PROVE AjmQueueInv(d)'
  <2>1. abatch[b].ctx = c
    BY <1>4 DEF Unfinished
  <2>2. \A x \in BatchSlots : (Unfinished(x, d)' <=> Unfinished(x, d)) /\ abatch'[x].id = abatch[x].id
    BY <1>11, <1>13, <2>1 DEF Unfinished
  <2>3. actx'[d].queue = actx[d].queue /\ aworker'[d].slot = aworker[d].slot
    BY <1>7, <1>9, <1>13
  <2>4. QED
    BY <2>2, <2>3, AjmQueueKeeps
<1>14. \A d \in Contexts : AjmCtxInv(d)'
  <2>1. \A d \in Contexts : Quiescent(d)' <=> Quiescent(d)
    BY <1>11 DEF Quiescent
  <2>2. \A d \in Contexts : AjmCtxInv(d)
    BY AjmFacts
  <2>3. actx' = actx /\ aholder' = aholder
    BY <1>7
  <2>4. AjmCtxInv(c)'
    BY <1>2, <1>6, <1>9, <2>1, <2>2, <2>3 DEF AjmCtxInv
  <2>5. \A d \in Contexts : d # c => AjmCtxInv(d)'
    BY <1>9, <2>1, <2>2, <2>3 DEF AjmCtxInv
  <2>6. QED
    BY <2>4, <2>5
<1>15. AjmTypes'
  BY <1>7, <1>8, <1>9, <1>10, AjmFacts DEF AjmTypes
<1>16. ASSUME NEW t \in AjmThreads, await'[t].at # "idle" PROVE AjmWaitInv(t)'
  <2>1. AjmWaitInv(t) /\ await[t].at # "idle" /\ await'[t].slot = await[t].slot /\ await'[t].id = await[t].id
        /\ await'[t].at = (IF await[t].at = "asleep" /\ await[t].slot = b THEN "look" ELSE await[t].at)
    BY <1>10, <1>16, AjmFacts
  <2>2. await[t].slot \in BatchSlots /\ abatch[await[t].slot].in_use /\ abatch[await[t].slot].id = await[t].id
        /\ (await[t].at = "asleep" => ~abatch[await[t].slot].finished)
        /\ (await[t].at = "free" => abatch[await[t].slot].finished)
    BY <2>1 DEF AjmWaitInv
  <2>3. await'[t].at = "free" => abatch'[await[t].slot].finished
    BY <1>5, <1>8, <1>11, <2>1, <2>2
  <2>4. await'[t].at = "asleep" => ~abatch'[await[t].slot].finished
    BY <1>11, <2>1, <2>2
  <2>5. QED
    BY <1>11, <2>1, <2>2, <2>3, <2>4 DEF AjmWaitInv
<1>17. AjmOneWaiter'
  BY <1>10 DEF AjmIInv, AjmOneWaiter
<1>18. \A x \in BatchSlots : abatch'[x].id <= ajm_ids'
  BY <1>7, <1>11, AjmFacts
<1>19. \A t \in AjmThreads : AjmWaitInv(t)'
  BY <1>16 DEF AjmWaitInv
<1>20. QED
  BY <1>12, <1>13, <1>14, <1>15, <1>17, <1>18, <1>19 DEF AjmIInv

\* One element behind a sequence.
LEMMA Behind ==
  ASSUME NEW S, NEW q \in Seq(S), NEW m \in S, NEW r, r = Append(q, m)
  PROVE  /\ r \in Seq(S) /\ Len(q) \in Nat /\ Len(r) = Len(q) + 1 /\ r[Len(q) + 1] = m
         /\ \A k \in 1..Len(q) : k \in 1..Len(r) /\ r[k] = q[k]
         /\ \A k \in 1..Len(r) : k = Len(q) + 1 \/ k \in 1..Len(q)
  OBVIOUS

\* A started batch takes the lowest free slot and the next id.
LEMMA AjmStartKeeps ==
  ASSUME AjmIInv, NEW c \in Contexts, NEW n \in Nat, NEW jobs \in [1..n -> InstSlots], shim_sceAjmBatchStartBuffer(c, jobs)
  PROVE  AjmIInv'
<1> DEFINE free == {b \in BatchSlots : ~abatch[b].in_use}
<1> SUFFICES ASSUME NEW m, m = Min(free), NEW q, q = actx[c].queue PROVE AjmIInv'
  OBVIOUS
<1>1. m \in BatchSlots /\ ~abatch[m].in_use
  <2>1. free \subseteq Nat /\ free # {}
    BY AjmSlots DEF shim_sceAjmBatchStartBuffer
  <2>2. m \in free
    <3> HIDE DEF free
    <3> QED
      BY <2>1, LeastOf
  <2>3. QED
    BY <2>2
<1> DEFINE r == [NoBatch EXCEPT !.in_use = TRUE, !.id = ajm_ids + 1, !.ctx = c, !.jobs = jobs]
           x == [actx[c] EXCEPT !.queue = Append(q, m)]
<1>2. actx \in [Contexts -> CtxRecs] /\ actx[c] \in CtxRecs /\ abatch \in [BatchSlots -> BatchRecs]
      /\ await \in [AjmThreads -> WaitRecs] /\ aworker \in [Contexts -> WorkerRecs] /\ aworker[c] \in WorkerRecs
      /\ ajm_ids \in Nat /\ AjmQueueInv(c) /\ c \in Nat /\ c # 0
  BY AjmFacts, AjmSlots
<1>3. r \in BatchRecs /\ r.in_use /\ r.id = ajm_ids + 1 /\ r.ctx = c /\ ~r.finished
  <2>1. jobs \in Seq(InstSlots)
    OBVIOUS
  <2>2. NoBatch \in BatchRecs /\ ~NoBatch.finished
    BY DEF NoBatch, BatchRecs
  <2>3. ajm_ids + 1 \in Nat
    BY <1>2
  <2>4. QED
    BY <1>2, <2>1, <2>2, <2>3 DEF BatchRecs
<1>4. q \in Seq(BatchSlots)
  BY <1>2 DEF CtxRecs
<1> DEFINE z == Append(q, m)
<1>5. /\ z \in Seq(BatchSlots) /\ Len(q) \in Nat /\ Len(z) = Len(q) + 1 /\ z[Len(q) + 1] = m
      /\ \A k \in 1..Len(q) : k \in 1..Len(z) /\ z[k] = q[k]
      /\ \A k \in 1..Len(z) : k = Len(q) + 1 \/ k \in 1..Len(q)
  BY <1>1, <1>4, Behind
<1>6. x \in CtxRecs /\ x.queue = z /\ x.in_use = actx[c].in_use /\ x.stop = actx[c].stop
  BY <1>2, <1>5 DEF CtxRecs
<1>7. actx' = [actx EXCEPT ![c] = x] /\ abatch' = [abatch EXCEPT ![m] = r] /\ ajm_ids' = ajm_ids + 1
      /\ UNCHANGED <<aworker, aholder, await>> /\ aholder = 0 /\ actx[c].in_use
  BY <1>2 DEF shim_sceAjmBatchStartBuffer, Unlocked
<1> HIDE DEF r, x, free, z
<1>8. abatch' \in [BatchSlots -> BatchRecs] /\ abatch'[m] = r /\ \A b \in BatchSlots : b # m => abatch'[b] = abatch[b]
  BY <1>1, <1>2, <1>3, <1>7
<1>9. actx' \in [Contexts -> CtxRecs] /\ actx'[c] = x /\ \A d \in Contexts : d # c => actx'[d] = actx[d]
  BY <1>2, <1>6, <1>7
<1>10. AjmTypes'
  BY <1>2, <1>7, <1>8, <1>9, AjmFacts DEF AjmTypes
<1>11. \A b \in BatchSlots : abatch'[b].id <= ajm_ids'
  BY <1>2, <1>3, <1>7, <1>8, AjmFacts
<1>12. \A d \in Contexts : AjmCtxInv(d)'
  <2>1. \A d \in Contexts : d # c => (Quiescent(d)' <=> Quiescent(d))
    BY <1>1, <1>3, <1>8 DEF Quiescent
  <2>2. \A d \in Contexts : AjmCtxInv(d) /\ d # 0
    BY AjmFacts, AjmSlots
  <2>3. AjmCtxInv(c)'
    BY <1>6, <1>7, <1>9, <2>2 DEF AjmCtxInv
  <2>4. \A d \in Contexts : d # c => AjmCtxInv(d)'
    BY <1>7, <1>9, <2>1, <2>2 DEF AjmCtxInv
  <2>5. QED
    BY <2>3, <2>4
<1>13. ASSUME NEW d \in Contexts, d # c PROVE AjmQueueInv(d)'
  <2>1. \A b \in BatchSlots : (Unfinished(b, d)' <=> Unfinished(b, d)) /\ (Unfinished(b, d) => abatch'[b].id = abatch[b].id)
    BY <1>1, <1>3, <1>8, <1>13 DEF Unfinished
  <2>2. actx'[d].queue = actx[d].queue /\ aworker'[d].slot = aworker[d].slot
    BY <1>7, <1>9, <1>13
  <2>3. QED
    BY <2>1, <2>2, AjmQueueKeeps
<1>14. AjmQueueInv(c)'
  <2> SUFFICES ASSUME NEW s, s = aworker[c].slot PROVE AjmQueueInv(c)'
    OBVIOUS
  <2>1. InOrder(abatch, q) /\ (s # 0 => Before(abatch, s, q)) /\ s \in BatchSlots \cup {0} /\ 0 \notin BatchSlots
        /\ \A b \in BatchSlots : Unfinished(b, c) <=> b = s \/ \E k \in 1..Len(q) : q[k] = b
    BY <1>2, AjmSlots DEF AjmQueueInv, WorkerRecs
  <2>2. ~Unfinished(m, c) /\ Unfinished(m, c)' /\ \A b \in BatchSlots : b # m => (Unfinished(b, c)' <=> Unfinished(b, c))
    BY <1>1, <1>3, <1>8 DEF Unfinished
  <2>3. \A k \in 1..Len(q) : q[k] \in BatchSlots /\ q[k] # m
    BY <1>1, <1>4, <2>1, <2>2
  <2>4. s # m /\ (s # 0 => s \in BatchSlots)
    BY <1>1, <2>1, <2>2
  <2>5. \A b \in BatchSlots : b # m => abatch'[b].id = abatch[b].id /\ abatch[b].id < abatch'[m].id
    <3>1. abatch'[m].id = ajm_ids + 1
      BY <1>3, <1>8
    <3>2. QED
      BY <1>2, <1>8, <3>1, AjmFacts
  <2>6. InOrder(abatch', z)
    <3> SUFFICES ASSUME NEW j \in 1..Len(z), NEW k \in 1..Len(z), j < k PROVE abatch'[z[j]].id < abatch'[z[k]].id
      BY DEF InOrder
    <3>1. j \in 1..Len(q) /\ z[j] = q[j] /\ q[j] \in BatchSlots /\ q[j] # m
      BY <1>5, <2>3
    <3>2. CASE k = Len(q) + 1
      BY <1>5, <2>5, <3>1, <3>2
    <3>3. CASE k \in 1..Len(q)
      <4>1. abatch[q[j]].id < abatch[q[k]].id
        BY <2>1, <3>1, <3>3 DEF InOrder
      <4>2. QED
        BY <1>5, <2>3, <2>5, <3>1, <3>3, <4>1
    <3>4. QED
      BY <1>5, <3>2, <3>3
  <2>7. s # 0 => Before(abatch', s, z)
    <3> SUFFICES ASSUME s # 0, NEW k \in 1..Len(z) PROVE abatch'[s].id < abatch'[z[k]].id
      BY DEF Before
    <3>1. CASE k = Len(q) + 1
      BY <1>5, <2>4, <2>5, <3>1
    <3>2. CASE k \in 1..Len(q)
      <4>1. abatch[s].id < abatch[q[k]].id
        BY <2>1, <3>2 DEF Before
      <4>2. QED
        BY <1>5, <2>3, <2>4, <2>5, <3>2, <4>1
    <3>3. QED
      BY <1>5, <3>1, <3>2
  <2>8. ASSUME NEW b \in BatchSlots PROVE Unfinished(b, c)' <=> b = s \/ \E k \in 1..Len(z) : z[k] = b
    <3>1. CASE b = m
      <4>1. Len(q) + 1 \in 1..Len(z)
        BY <1>5
      <4>2. QED
        BY <1>5, <2>2, <3>1, <4>1
    <3>2. CASE b # m
      <4>1. Unfinished(b, c)' <=> b = s \/ \E k \in 1..Len(q) : q[k] = b
        BY <2>1, <2>2, <3>2
      <4>2. (\E k \in 1..Len(q) : q[k] = b) <=> \E k \in 1..Len(z) : z[k] = b
        BY <1>5, <3>2
      <4>3. QED
        BY <4>1, <4>2
    <3>3. QED
      BY <3>1, <3>2
  <2>9. actx'[c].queue = z /\ aworker'[c].slot = s
    BY <1>6, <1>7, <1>9
  <2>10. QED
    BY <2>6, <2>7, <2>8, <2>9 DEF AjmQueueInv
<1>15. ASSUME NEW t \in AjmThreads PROVE AjmWaitInv(t)'
  BY <1>1, <1>7, <1>8, AjmFacts DEF AjmWaitInv
<1>16. AjmOneWaiter'
  BY <1>7 DEF AjmIInv, AjmOneWaiter
<1>17. QED
  BY <1>10, <1>11, <1>12, <1>13, <1>14, <1>15, <1>16 DEF AjmIInv

\* A thread's wait moves on; the batches stay.
LEMMA AjmWaitMove ==
  ASSUME AjmIInv, NEW t \in AjmThreads, NEW w \in WaitRecs, await' = [await EXCEPT ![t] = w],
         UNCHANGED <<actx, aworker, abatch, ajm_ids, aholder>>, AjmWaitInv(t)',
         w.at # "idle" => \A u \in AjmThreads : u # t /\ await[u].at # "idle" => await[u].id # w.id
  PROVE  AjmIInv'
<1>1. await' \in [AjmThreads -> WaitRecs] /\ await'[t] = w /\ \A u \in AjmThreads : u # t => await'[u] = await[u]
  BY AjmFacts
<1>2. \A u \in AjmThreads : AjmWaitInv(u)'
  BY <1>1, AjmFacts DEF AjmWaitInv
<1>3. AjmOneWaiter'
  BY <1>1 DEF AjmIInv, AjmOneWaiter
<1>4. AjmTypes'
  BY <1>1, AjmFacts DEF AjmTypes
<1>5. \A c \in Contexts : AjmQueueInv(c)' /\ AjmCtxInv(c)'
  BY AjmFacts DEF AjmQueueInv, AjmCtxInv, Unfinished, Quiescent, InOrder, Before
<1>6. \A b \in BatchSlots : abatch'[b].id <= ajm_ids'
  BY AjmFacts
<1>7. QED
  BY <1>2, <1>3, <1>4, <1>5, <1>6 DEF AjmIInv

LEMMA AjmWaitKeeps ==
  ASSUME AjmIInv, NEW t \in AjmThreads,
         wait_look(t) \/ wait_timeout(t) \/ \E b \in BatchSlots, timed \in BOOLEAN : shim_sceAjmBatchWait(t, b, timed)
  PROVE  AjmIInv'
<1>1. await \in [AjmThreads -> WaitRecs] /\ await[t] \in WaitRecs /\ AjmWaitInv(t)
  BY AjmFacts
<1>2. \A u \in AjmThreads : u # t /\ await[u].at # "idle" /\ await[t].at # "idle" => await[u].id # await[t].id
  BY DEF AjmIInv, AjmOneWaiter
<1>3. CASE wait_look(t)
  <2> DEFINE w == [await[t] EXCEPT !.at = IF abatch[await[t].slot].finished THEN "free" ELSE "asleep"]
  <2>1. w \in WaitRecs /\ w.slot = await[t].slot /\ w.id = await[t].id
        /\ w.at = (IF abatch[await[t].slot].finished THEN "free" ELSE "asleep")
    BY <1>1 DEF WaitRecs
  <2>2. await' = [await EXCEPT ![t] = w] /\ UNCHANGED <<actx, aworker, abatch, ajm_ids, aholder>> /\ await[t].at = "look"
    BY <1>1, <1>3 DEF wait_look
  <2> HIDE DEF w
  <2>3. await'[t] = w
    BY <1>1, <2>2
  <2>4. AjmWaitInv(t)'
    BY <1>1, <2>1, <2>2, <2>3 DEF AjmWaitInv
  <2>5. QED
    BY <1>2, <2>1, <2>2, <2>4, AjmWaitMove
<1>4. CASE wait_timeout(t)
  <2>1. NotWaiting \in WaitRecs /\ NotWaiting.at = "idle"
    BY DEF NotWaiting, WaitRecs
  <2>2. await' = [await EXCEPT ![t] = NotWaiting] /\ UNCHANGED <<actx, aworker, abatch, ajm_ids, aholder>>
    BY <1>4 DEF wait_timeout
  <2>3. await'[t] = NotWaiting
    BY <1>1, <2>2
  <2>4. AjmWaitInv(t)'
    BY <2>1, <2>3 DEF AjmWaitInv
  <2>5. QED
    BY <2>1, <2>2, <2>4, AjmWaitMove
<1>5. ASSUME NEW b \in BatchSlots, NEW timed \in BOOLEAN, shim_sceAjmBatchWait(t, b, timed) PROVE AjmIInv'
  <2> DEFINE w == [at |-> "look", slot |-> b, id |-> abatch[b].id, timed |-> timed]
  <2>1. w \in WaitRecs /\ w.at = "look" /\ w.slot = b /\ w.id = abatch[b].id
    BY AjmFacts DEF WaitRecs
  <2>2. await' = [await EXCEPT ![t] = w] /\ UNCHANGED <<actx, aworker, abatch, ajm_ids, aholder>> /\ abatch[b].in_use
        /\ \A u \in AjmThreads : await[u].at # "idle" => await[u].id # abatch[b].id
    BY <1>5 DEF shim_sceAjmBatchWait
  <2> HIDE DEF w
  <2>3. await'[t] = w
    BY <1>1, <2>2
  <2>4. AjmWaitInv(t)'
    BY <2>1, <2>2, <2>3 DEF AjmWaitInv
  <2>5. QED
    BY <2>1, <2>2, <2>4, AjmWaitMove
<1>6. QED
  BY <1>3, <1>4, <1>5

\* The waiter frees its batch, which is nobody else's.
LEMMA AjmFreeKeeps == ASSUME AjmIInv, NEW t \in AjmThreads, wait_free(t) PROVE AjmIInv'
<1> SUFFICES ASSUME NEW b, b = await[t].slot PROVE AjmIInv'
  OBVIOUS
<1> DEFINE r == [NoBatch EXCEPT !.id = abatch[b].id]
<1>1. await \in [AjmThreads -> WaitRecs] /\ abatch \in [BatchSlots -> BatchRecs] /\ AjmWaitInv(t) /\ await[t].at = "free"
  BY AjmFacts DEF wait_free
<1>2. b \in BatchSlots /\ abatch[b].finished /\ abatch[b].in_use /\ abatch[b].id = await[t].id /\ abatch[b].id \in Nat
  BY <1>1, AjmFacts DEF AjmWaitInv
<1>3. r \in BatchRecs /\ r.id = abatch[b].id /\ ~r.in_use
  <2>1. NoBatch \in BatchRecs /\ ~NoBatch.in_use
    BY DEF NoBatch, BatchRecs
  <2>2. QED
    BY <1>2, <2>1 DEF BatchRecs
<1>4. abatch' = [abatch EXCEPT ![b] = r] /\ await' = [await EXCEPT ![t] = NotWaiting]
      /\ UNCHANGED <<actx, aworker, ajm_ids, aholder>>
  BY DEF wait_free
<1> HIDE DEF r
<1>5. NotWaiting \in WaitRecs /\ NotWaiting.at = "idle"
  BY DEF NotWaiting, WaitRecs
<1>6. abatch' \in [BatchSlots -> BatchRecs] /\ abatch'[b] = r /\ \A x \in BatchSlots : x # b => abatch'[x] = abatch[x]
  BY <1>1, <1>2, <1>3, <1>4
<1>7. await' \in [AjmThreads -> WaitRecs] /\ await'[t] = NotWaiting /\ \A u \in AjmThreads : u # t => await'[u] = await[u]
  BY <1>1, <1>4, <1>5
<1>8. \A c \in Contexts : AjmQueueInv(c)'
  <2> SUFFICES ASSUME NEW c \in Contexts PROVE AjmQueueInv(c)'
    OBVIOUS
  <2>1. \A x \in BatchSlots : (Unfinished(x, c)' <=> Unfinished(x, c)) /\ (Unfinished(x, c) => abatch'[x].id = abatch[x].id)
    BY <1>2, <1>3, <1>6 DEF Unfinished
  <2>2. QED
    BY <1>4, <2>1, AjmQueueKeeps
<1>9. \A c \in Contexts : AjmCtxInv(c)'
  <2>1. \A c \in Contexts : Quiescent(c) => Quiescent(c)'
    BY <1>3, <1>6 DEF Quiescent
  <2>2. QED
    BY <1>4, <2>1, AjmFacts DEF AjmCtxInv
<1>10. AjmTypes'
  BY <1>4, <1>6, <1>7, AjmFacts DEF AjmTypes
<1>11. ASSUME NEW u \in AjmThreads PROVE AjmWaitInv(u)'
  <2>1. CASE u = t
    BY <1>5, <1>7, <2>1 DEF AjmWaitInv
  <2>2. CASE u # t
    <3>1. await'[u] = await[u] /\ AjmWaitInv(u)
      BY <1>7, <2>2, AjmFacts
    <3>2. await[u].at # "idle" => await[u].id # await[t].id
      BY <1>1, <2>2 DEF AjmIInv, AjmOneWaiter
    <3>3. await[u].at # "idle" => await[u].slot # b
      BY <1>2, <3>1, <3>2 DEF AjmWaitInv
    <3>4. QED
      BY <1>6, <3>1, <3>3 DEF AjmWaitInv
  <2>3. QED
    BY <2>1, <2>2
<1>12. AjmOneWaiter'
  BY <1>5, <1>7 DEF AjmIInv, AjmOneWaiter
<1>13. \A x \in BatchSlots : abatch'[x].id <= ajm_ids'
  BY <1>3, <1>4, <1>6, AjmFacts
<1>14. QED
  BY <1>8, <1>9, <1>10, <1>11, <1>12, <1>13 DEF AjmIInv

\* Every step keeps the invariant.
LEMMA AjmStepInv == AjmIInv /\ (AjmNext \/ UNCHANGED ajm_vars) => AjmIInv'
<1> SUFFICES ASSUME AjmIInv, AjmNext \/ UNCHANGED ajm_vars PROVE AjmIInv'
  OBVIOUS
<1>1. CASE UNCHANGED <<actx, aworker, abatch, ajm_ids, aholder, await>>
  <2>1. \A c \in Contexts : AjmCtxInv(c)'
    BY <1>1, AjmFacts DEF AjmCtxInv, Quiescent
  <2>2. QED
    BY <1>1, <2>1, AjmFacts, AjmSameBatches
<1>2. CASE \E c \in Contexts, k \in AjmCodecs : shim_sceAjmInstanceCreate(c, k)
  BY <1>1, <1>2 DEF shim_sceAjmInstanceCreate
<1>3. CASE \E i \in InstSlots : shim_sceAjmInstanceDestroy(i)
  BY <1>1, <1>3 DEF shim_sceAjmInstanceDestroy
<1>4. CASE \E c \in Contexts, n \in 0..AjmJobs : \E jobs \in [1..n -> InstSlots] : shim_sceAjmBatchStartBuffer(c, jobs)
  BY <1>4, AjmStartKeeps
<1>5. QED
  BY <1>1, <1>2, <1>3, <1>4, AjmInitializeKeeps, AjmFinalizeKeeps, AjmModuleKeeps, AjmTakeKeeps, AjmLookExitKeeps, AjmJobKeeps,
     AjmFinishKeeps, AjmWaitKeeps, AjmFreeKeeps, AjmCancelKeeps
  DEF AjmNext, ajm_vars

-----------------------------------------------------------------------------
(* The audio decoders. *)
AdecFinite == IsFiniteSet(AdecThreads) /\ IsFiniteSet(AdecSlots) /\ AdecSlots \subseteq Nat
LEMMA AdecFin == AdecFinite
<1>1. 0 \in Int /\ AUDIODEC_MAX_DECODERS - 1 \in Int
  BY AdecAssumption
<1>2. IsFiniteSet(0..(AUDIODEC_MAX_DECODERS - 1))
  BY <1>1, FS_Interval
<1>3. QED
  BY <1>1, <1>2, AdecAssumption DEF AdecFinite, AdecSlots

AdecUnits == {NoUnit} \cup {in.unit : in \in AdecInputs}
Convs == [rate : AdecRates \cup {0}, channels : 0..7]
AdecRecs == [alive : BOOLEAN, refs : Nat, lock : AdecThreads \cup {0}, slot : AdecSlots, gen : Nat, param : Params,
             conv : Convs]
AdecLabels == {"idle", "delete", "decode", "check", "convert", "unlock", "release"}
AdecCalls == [at : AdecLabels, d : Nat, unit : AdecUnits, room : Nat,
              rc : {"OK", "INVALID_HANDLE", "INVALID_SIZE", "UNSUPPORTED", "CH_SHORTAGE", "API_FAIL"},
              pcm : Nat, consumed : {"none", "frame", "all"}]

SlotRefs(i) == {s \in AdecSlots : adec_table[s] = i}
CallRefs(i) == {t \in AdecThreads : adcall[t].d = i}

AdecTypes ==
  /\ adec \in Seq(AdecRecs) /\ adec_gen \in Nat
  /\ adec_table \in [AdecSlots -> 0..Len(adec)]
  /\ adcall \in [AdecThreads -> AdecCalls]

\* A call in progress: which decoder it holds, what it has done so far.
AdecCallInv(t) ==
  LET c == adcall[t] IN
  /\ c.at = "idle" <=> c.d = 0
  /\ c.d <= Len(adec)
  /\ c.at \in {"check", "convert"} => adec[c.d].lock = t
  /\ c.at \in {"idle", "delete", "decode", "check", "convert"} => c.rc = "OK" /\ c.pcm = 0 /\ c.consumed = "none"
  /\ c.at \in {"decode", "check", "convert"} => c.unit \in AdecUnits \ {NoUnit}
  /\ c.at = "convert" => /\ adec[c.d].conv = Format(adec[c.d].param, c.unit)
                         /\ Refusal(adec[c.d].param, c.unit, c.room) = "OK"
  /\ c.rc # "OK" => c.pcm = 0 /\ c.consumed = "none"
  /\ c.pcm <= c.room

AdecRefInv(i) ==
  /\ adec[i].alive <=> adec[i].refs > 0
  /\ adec[i].refs = Cardinality(SlotRefs(i)) + Cardinality(CallRefs(i))

AdecIInv ==
  /\ AdecTypes
  /\ \A s \in AdecSlots : adec_table[s] # 0 => adec[adec_table[s]].slot = s
  /\ \A t \in AdecThreads : AdecCallInv(t)
  /\ \A i \in DOMAIN adec : AdecRefInv(i)

LEMMA AdecInitInv == AdecInit => AdecIInv
<1> SUFFICES ASSUME AdecInit PROVE AdecIInv
  OBVIOUS
<1>1. NotCalling \in AdecCalls /\ NotCalling.at = "idle" /\ NotCalling.d = 0 /\ NotCalling.rc = "OK"
      /\ NotCalling.pcm = 0 /\ NotCalling.room = 0 /\ NotCalling.consumed = "none"
  BY DEF NotCalling, AdecCalls, AdecUnits, AdecLabels
<1>2. adec = <<>> /\ Len(adec) = 0 /\ DOMAIN adec = {} /\ adec \in Seq(AdecRecs)
  BY DEF AdecInit
<1>3. AdecTypes
  BY <1>1, <1>2 DEF AdecInit, AdecTypes
<1>4. \A t \in AdecThreads : AdecCallInv(t)
  BY <1>1, <1>2 DEF AdecInit, AdecCallInv
<1>5. QED
  BY <1>2, <1>3, <1>4 DEF AdecIInv, AdecInit

\* What is claimed of the decoders follows.
LEMMA AdecExactInv == AdecIInv => AudiodecExact
<1> SUFFICES ASSUME AdecIInv PROVE AudiodecExact
  OBVIOUS
<1>1. ASSUME NEW t \in AdecThreads, adcall[t].at # "idle"
      PROVE  adcall[t].d \in DOMAIN adec /\ adec[adcall[t].d].alive
  <2>1. adcall[t].d \in DOMAIN adec
    BY <1>1 DEF AdecIInv, AdecCallInv, AdecTypes, AdecCalls
  <2>2. t \in CallRefs(adcall[t].d)
    BY DEF CallRefs
  <2>3. Cardinality(CallRefs(adcall[t].d)) \in Nat /\ Cardinality(CallRefs(adcall[t].d)) > 0
    <3>1. CallRefs(adcall[t].d) \in SUBSET AdecThreads
      BY DEF CallRefs
    <3>2. QED
      BY <2>2, <3>1, CountSome, AdecFin DEF AdecFinite
  <2>4. Cardinality(SlotRefs(adcall[t].d)) \in Nat
    <3>1. SlotRefs(adcall[t].d) \in SUBSET AdecSlots
      BY DEF SlotRefs
    <3>2. QED
      BY <3>1, CountSome, AdecFin DEF AdecFinite
  <2>5. QED
    BY <2>1, <2>3, <2>4 DEF AdecIInv, AdecRefInv
<1>2. QED
  BY <1>1 DEF AdecIInv, AdecCallInv, AdecRefInv, AudiodecExact, SlotRefs, CallRefs

\* A call of thread t on decoder i: the other decoders and calls stay, and the
\* invariant is to be shown for the two.
LEMMA AdecOneCall ==
  ASSUME AdecIInv, NEW t \in AdecThreads, NEW i \in DOMAIN adec, NEW c \in AdecCalls, NEW r \in AdecRecs,
         adcall' = [adcall EXCEPT ![t] = c], adec' = [adec EXCEPT ![i] = r], adec_gen' = adec_gen,
         adcall[t].d \in {0, i}, c.d \in {0, i}, r.slot = adec[i].slot, r.param = adec[i].param,
         adec_table' \in [AdecSlots -> 0..Len(adec)],
         \A s \in AdecSlots : adec_table'[s] # adec_table[s] => adec_table[s] = i /\ adec_table'[s] = 0,
         \A u \in AdecThreads \ {t} : adcall[u].d = i /\ adcall[u].at \in {"check", "convert"}
            => r.lock = adec[i].lock /\ r.conv = adec[i].conv,
         AdecCallInv(t)', AdecRefInv(i)'
  PROVE  AdecIInv'
<1>1. adec \in Seq(AdecRecs) /\ adcall \in [AdecThreads -> AdecCalls]
      /\ adec_table \in [AdecSlots -> 0..Len(adec)] /\ DOMAIN adec = 1..Len(adec) /\ Len(adec) \in Nat
  BY DEF AdecIInv, AdecTypes
<1>2. adec' \in Seq(AdecRecs) /\ Len(adec') = Len(adec) /\ DOMAIN adec' = DOMAIN adec /\ adec'[i] = r
      /\ \A j \in DOMAIN adec : j # i => adec'[j] = adec[j]
  BY <1>1
<1>3. adcall' \in [AdecThreads -> AdecCalls] /\ \A u \in AdecThreads : u # t => adcall'[u] = adcall[u]
  BY <1>1
<1>4. AdecTypes'
  BY <1>1, <1>2, <1>3 DEF AdecTypes, AdecIInv
<1>5. ASSUME NEW s \in AdecSlots, adec_table'[s] # 0 PROVE adec'[adec_table'[s]].slot = s
  <2>1. adec_table'[s] = adec_table[s] /\ adec_table[s] \in DOMAIN adec /\ adec[adec_table[s]].slot = s
    BY <1>1, <1>5 DEF AdecIInv
  <2>2. QED
    BY <1>2, <2>1
<1>6. ASSUME NEW u \in AdecThreads PROVE AdecCallInv(u)'
  <2>1. CASE u = t
    BY <2>1
  <2>2. CASE u # t
    <3>1. adcall'[u] = adcall[u] /\ AdecCallInv(u) /\ adcall[u] \in AdecCalls
      BY <1>1, <1>3, <2>2 DEF AdecIInv
    <3>2. CASE adcall[u].d = i
      <4>1. r.param = adec[i].param /\ (adcall[u].at \in {"check", "convert"} => r.lock = adec[i].lock /\ r.conv = adec[i].conv)
        BY <2>2, <3>2
      <4>2. QED
        BY <1>2, <3>1, <3>2, <4>1 DEF AdecCallInv
    <3>3. CASE adcall[u].d # i
      <4>1. adcall[u].d = 0 \/ adec'[adcall[u].d] = adec[adcall[u].d]
        BY <1>1, <1>2, <3>1, <3>3 DEF AdecCallInv, AdecCalls
      <4>2. adcall[u].at \in {"check", "convert"} => adec'[adcall[u].d] = adec[adcall[u].d]
        BY <3>1, <4>1 DEF AdecCallInv
      <4>3. QED
        BY <1>2, <3>1, <4>2 DEF AdecCallInv
    <3>4. QED
      BY <3>2, <3>3
  <2>3. QED
    BY <2>1, <2>2
<1>7. ASSUME NEW j \in DOMAIN adec PROVE AdecRefInv(j)'
  <2>1. CASE j = i
    BY <2>1
  <2>2. CASE j # i
    <3>1. SlotRefs(j)' = SlotRefs(j)
      <4>1. j # 0
        BY <1>1
      <4>2. \A s \in AdecSlots : adec_table'[s] = j <=> adec_table[s] = j
        BY <2>2, <4>1
      <4>3. QED
        BY <4>2 DEF SlotRefs
    <3>2. CallRefs(j)' = CallRefs(j)
      <4>1. j # 0 /\ adcall'[t] = c
        BY <1>1
      <4>2. \A u \in AdecThreads : adcall'[u].d = j <=> adcall[u].d = j
        BY <1>3, <2>2, <4>1
      <4>3. QED
        BY <4>2 DEF CallRefs
    <3>3. adec'[j] = adec[j] /\ AdecRefInv(j)
      BY <1>2, <2>2 DEF AdecIInv
    <3>4. QED
      BY <3>1, <3>2, <3>3 DEF AdecRefInv
  <2>3. QED
    BY <2>1, <2>2
<1>8. QED
  BY <1>2, <1>4, <1>5, <1>6, <1>7 DEF AdecIInv

\* A step of a call that keeps its decoder, and the decoder its references.
LEMMA AdecSameRefs ==
  ASSUME AdecIInv, NEW t \in AdecThreads, NEW c \in AdecCalls, NEW r \in AdecRecs,
         adcall[t].at # "idle", c.d = adcall[t].d,
         adcall' = [adcall EXCEPT ![t] = c], adec' = [adec EXCEPT ![adcall[t].d] = r], UNCHANGED <<adec_table, adec_gen>>,
         r.slot = adec[adcall[t].d].slot, r.param = adec[adcall[t].d].param,
         r.refs = adec[adcall[t].d].refs, r.alive = adec[adcall[t].d].alive,
         \A u \in AdecThreads \ {t} : adcall[u].d = adcall[t].d /\ adcall[u].at \in {"check", "convert"}
            => r.lock = adec[adcall[t].d].lock /\ r.conv = adec[adcall[t].d].conv,
         AdecCallInv(t)'
  PROVE  AdecIInv'
<1> SUFFICES ASSUME NEW i, i = adcall[t].d PROVE AdecIInv'
  OBVIOUS
<1>1. adec \in Seq(AdecRecs) /\ adcall \in [AdecThreads -> AdecCalls] /\ adec_table \in [AdecSlots -> 0..Len(adec)]
      /\ i \in DOMAIN adec /\ AdecRefInv(i)
  BY DEF AdecIInv, AdecTypes, AdecCallInv, AdecCalls
<1>2. adec'[i] = r /\ \A u \in AdecThreads : adcall'[u].d = adcall[u].d
  BY <1>1
<1>3. CallRefs(i)' = CallRefs(i) /\ SlotRefs(i)' = SlotRefs(i)
  BY <1>2 DEF CallRefs, SlotRefs
<1>4. AdecRefInv(i)'
  BY <1>1, <1>2, <1>3 DEF AdecRefInv
<1>5. adec_table' \in [AdecSlots -> 0..Len(adec)]
  BY <1>1
<1>6. QED
  BY <1>1, <1>4, <1>5, AdecOneCall

\* What a call knows of itself and its decoder.
LEMMA AdecCallFacts ==
  ASSUME AdecIInv, NEW t \in AdecThreads, adcall[t].at # "idle"
  PROVE  /\ adec \in Seq(AdecRecs) /\ adcall \in [AdecThreads -> AdecCalls] /\ adcall[t] \in AdecCalls
         /\ adcall[t].d \in DOMAIN adec /\ adec[adcall[t].d] \in AdecRecs
         /\ AdecCallInv(t) /\ AdecRefInv(adcall[t].d)
  BY DEF AdecIInv, AdecTypes, AdecCallInv, AdecCalls

\* d->lock is taken: no other call is between the checks and the unlock.
LEMMA AdecLockKeeps == ASSUME AdecIInv, NEW t \in AdecThreads, decode_lock(t) PROVE AdecIInv'
<1> DEFINE i == adcall[t].d
           r == [adec[i] EXCEPT !.lock = t]
           c == [adcall[t] EXCEPT !.at = "check"]
<1>1. adcall[t].at = "decode" /\ adec[i].lock = 0
  BY DEF decode_lock
<1>2. adec \in Seq(AdecRecs) /\ adcall \in [AdecThreads -> AdecCalls] /\ adcall[t] \in AdecCalls
      /\ i \in DOMAIN adec /\ adec[i] \in AdecRecs /\ AdecCallInv(t)
  BY <1>1, AdecCallFacts
<1>3. r \in AdecRecs /\ c \in AdecCalls
  BY <1>2 DEF AdecRecs, AdecCalls, AdecLabels
<1>4. adcall' = [adcall EXCEPT ![t] = c] /\ adec' = [adec EXCEPT ![i] = r] /\ UNCHANGED <<adec_table, adec_gen>>
  BY <1>2 DEF decode_lock
<1>5. \A u \in AdecThreads \ {t} : ~(adcall[u].d = i /\ adcall[u].at \in {"check", "convert"})
  BY <1>1, AdecAssumption DEF AdecIInv, AdecCallInv
<1>6. adec'[i] = r /\ adcall'[t] = c /\ Len(adec') = Len(adec)
  BY <1>2, <1>4
<1>7. r.slot = adec[i].slot /\ r.param = adec[i].param /\ r.refs = adec[i].refs /\ r.alive = adec[i].alive
      /\ r.lock = t /\ r.conv = adec[i].conv
  BY <1>2 DEF AdecRecs
<1>8. c.d = i /\ c.at = "check" /\ c.unit = adcall[t].unit /\ c.room = adcall[t].room /\ c.rc = adcall[t].rc
      /\ c.pcm = adcall[t].pcm /\ c.consumed = adcall[t].consumed
  BY <1>2 DEF AdecCalls
<1>9. AdecCallInv(t)'
  <2> HIDE DEF i, r, c
  <2> QED
    BY <1>1, <1>2, <1>6, <1>7, <1>8 DEF AdecCallInv
<1>10. QED
  <2> HIDE DEF r, c
  <2> QED
    BY <1>1, <1>3, <1>4, <1>5, <1>7, <1>8, <1>9, AdecSameRefs

\* A step that changes only the call.
LEMMA AdecOnlyCall ==
  ASSUME AdecIInv, NEW t \in AdecThreads, NEW c \in AdecCalls, adcall[t].at # "idle", c.d = adcall[t].d,
         adcall' = [adcall EXCEPT ![t] = c], UNCHANGED <<adec, adec_table, adec_gen>>, AdecCallInv(t)'
  PROVE  AdecIInv'
<1>1. adec \in Seq(AdecRecs) /\ adcall[t].d \in DOMAIN adec /\ adec[adcall[t].d] \in AdecRecs
  BY AdecCallFacts
<1>2. adec' = [adec EXCEPT ![adcall[t].d] = adec[adcall[t].d]]
  BY <1>1
<1>3. QED
  BY <1>1, <1>2, AdecSameRefs

\* The lock is given up by its holder.
LEMMA AdecUnlockKeeps == ASSUME AdecIInv, NEW t \in AdecThreads, decode_unlock(t) PROVE AdecIInv'
<1> DEFINE i == adcall[t].d
           r == [adec[i] EXCEPT !.lock = IF @ = t THEN 0 ELSE @]
           c == [adcall[t] EXCEPT !.at = "release"]
<1>1. adcall[t].at = "unlock"
  BY DEF decode_unlock
<1>2. adec \in Seq(AdecRecs) /\ adcall \in [AdecThreads -> AdecCalls] /\ adcall[t] \in AdecCalls
      /\ i \in DOMAIN adec /\ adec[i] \in AdecRecs /\ AdecCallInv(t)
  BY <1>1, AdecCallFacts
<1>3. r \in AdecRecs /\ c \in AdecCalls
  BY <1>2 DEF AdecRecs, AdecCalls, AdecLabels
<1>4. adcall' = [adcall EXCEPT ![t] = c] /\ adec' = [adec EXCEPT ![i] = r] /\ UNCHANGED <<adec_table, adec_gen>>
  BY <1>2 DEF decode_unlock
<1>5. r.slot = adec[i].slot /\ r.param = adec[i].param /\ r.refs = adec[i].refs /\ r.alive = adec[i].alive
      /\ r.lock = (IF adec[i].lock = t THEN 0 ELSE adec[i].lock) /\ r.conv = adec[i].conv
  BY <1>2 DEF AdecRecs
<1>6. \A u \in AdecThreads \ {t} : adcall[u].d = i /\ adcall[u].at \in {"check", "convert"} => r.lock = adec[i].lock
  BY <1>5 DEF AdecIInv, AdecCallInv
<1>7. adec'[i] = r /\ adcall'[t] = c /\ Len(adec') = Len(adec)
  BY <1>2, <1>4
<1>8. c.d = i /\ c.at = "release" /\ c.unit = adcall[t].unit /\ c.room = adcall[t].room /\ c.rc = adcall[t].rc
      /\ c.pcm = adcall[t].pcm /\ c.consumed = adcall[t].consumed
  BY <1>2 DEF AdecCalls
<1>9. AdecCallInv(t)'
  <2> HIDE DEF i, r, c
  <2> QED
    BY <1>1, <1>2, <1>7, <1>8 DEF AdecCallInv
<1>10. QED
  <2> HIDE DEF r, c
  <2> QED
    BY <1>1, <1>3, <1>4, <1>5, <1>6, <1>8, <1>9, AdecSameRefs

\* A call that ends with an error has produced nothing.
LEMMA AdecFails ==
  ASSUME AdecIInv, NEW t \in AdecThreads, adcall[t].at \in {"check", "convert"},
         NEW rc \in {"INVALID_SIZE", "UNSUPPORTED", "CH_SHORTAGE", "API_FAIL"}, Fails(t, rc), Len(adec') = Len(adec)
  PROVE  /\ [adcall[t] EXCEPT !.at = "unlock", !.rc = rc] \in AdecCalls
         /\ [adcall[t] EXCEPT !.at = "unlock", !.rc = rc].d = adcall[t].d
         /\ adcall' = [adcall EXCEPT ![t] = [adcall[t] EXCEPT !.at = "unlock", !.rc = rc]]
         /\ AdecCallInv(t)'
<1> DEFINE c == [adcall[t] EXCEPT !.at = "unlock", !.rc = rc]
<1>1. adcall \in [AdecThreads -> AdecCalls] /\ adcall[t] \in AdecCalls /\ AdecCallInv(t) /\ adcall[t].d \in DOMAIN adec
      /\ adec \in Seq(AdecRecs)
  BY AdecCallFacts
<1>2. c \in AdecCalls /\ c.d = adcall[t].d /\ c.at = "unlock" /\ c.rc = rc /\ c.pcm = adcall[t].pcm
      /\ c.consumed = adcall[t].consumed /\ c.room = adcall[t].room
  BY <1>1 DEF AdecCalls, AdecLabels
<1>3. adcall' = [adcall EXCEPT ![t] = c]
  BY <1>1 DEF Fails
<1>4. adcall'[t] = c
  BY <1>1, <1>3
<1>5. AdecCallInv(t)'
  <2> HIDE DEF c
  <2> QED
    BY <1>1, <1>2, <1>4 DEF AdecCallInv
<1>6. QED
  BY <1>2, <1>3, <1>5

\* The units a decode call may have, and what they are by their headers.
LEMMA AdecFormats ==
  ASSUME NEW u \in AdecUnits, NEW p \in Params
  PROVE  Format(p, u) \in Convs
<1>1. u.rate \in AdecRates \cup {0} /\ u.channels \in 0..7
  BY AdecAssumption DEF AdecUnits, NoUnit
<1>2. p.rate \in AdecRates
  BY DEF Params
<1>3. QED
  BY <1>1, <1>2 DEF Format, Convs

\* The converter is kept, rebuilt for the unit's format, or lost.
LEMMA AdecOpenKeeps == ASSUME AdecIInv, NEW t \in AdecThreads, audiodec_open_converter(t) PROVE AdecIInv'
<1> DEFINE i == adcall[t].d
           u == adcall[t].unit
           f == Format(adec[i].param, u)
           rc == Refusal(adec[i].param, u, adcall[t].room)
<1>1. adcall[t].at = "check"
  BY DEF audiodec_open_converter
<1>2. adec \in Seq(AdecRecs) /\ adcall \in [AdecThreads -> AdecCalls] /\ adcall[t] \in AdecCalls
      /\ i \in DOMAIN adec /\ adec[i] \in AdecRecs /\ AdecCallInv(t)
  BY <1>1, AdecCallFacts
<1>3. f \in Convs /\ NoConverter \in Convs
  <2>1. u \in AdecUnits /\ adec[i].param \in Params
    BY <1>2 DEF AdecCalls, AdecRecs
  <2>2. QED
    BY <2>1, AdecFormats DEF NoConverter, Convs
<1>4. \A v \in AdecThreads \ {t} : ~(adcall[v].d = i /\ adcall[v].at \in {"check", "convert"})
  BY <1>1, <1>2 DEF AdecIInv, AdecCallInv
<1>5. UNCHANGED <<adec_table, adec_gen>>
  BY DEF audiodec_open_converter
<1>6. CASE rc # "OK" /\ Fails(t, rc) /\ UNCHANGED adec
  <2>1. rc \in {"INVALID_SIZE", "UNSUPPORTED", "CH_SHORTAGE", "API_FAIL"}
    BY <1>6, Zenon DEF Refusal
  <2> HIDE DEF rc
  <2>2. QED
    BY <1>1, <1>5, <1>6, <2>1, AdecFails, AdecOnlyCall, ZenonT(40)
<1>7. CASE rc = "OK" /\ adec' = [adec EXCEPT ![i].conv = f] /\ adcall' = [adcall EXCEPT ![t].at = "convert"]
  <2> DEFINE r == [adec[i] EXCEPT !.conv = f]
             c == [adcall[t] EXCEPT !.at = "convert"]
  <2>1. r \in AdecRecs /\ c \in AdecCalls
    BY <1>2, <1>3 DEF AdecRecs, AdecCalls, AdecLabels
  <2>2. adcall' = [adcall EXCEPT ![t] = c] /\ adec' = [adec EXCEPT ![i] = r]
    BY <1>2, <1>7
  <2>3. r.slot = adec[i].slot /\ r.param = adec[i].param /\ r.refs = adec[i].refs /\ r.alive = adec[i].alive
        /\ r.lock = adec[i].lock /\ r.conv = f
    BY <1>2 DEF AdecRecs
  <2>4. c.d = i /\ c.at = "convert" /\ c.unit = adcall[t].unit /\ c.room = adcall[t].room /\ c.rc = adcall[t].rc
        /\ c.pcm = adcall[t].pcm /\ c.consumed = adcall[t].consumed
    BY <1>2 DEF AdecCalls
  <2>5. adec'[i] = r /\ adcall'[t] = c /\ Len(adec') = Len(adec)
    BY <1>2, <2>2
  <2>6. AdecCallInv(t)'
    <3> HIDE DEF c, r
    <3>1. adec'[i].conv = Format(adec'[i].param, c.unit) /\ Refusal(adec'[i].param, c.unit, c.room) = "OK"
      BY <1>7, <2>3, <2>4, <2>5
    <3> HIDE DEF f, rc, u
    <3>2. QED
      BY <1>1, <1>2, <2>3, <2>4, <2>5, <3>1 DEF AdecCallInv
  <2>7. QED
    <3> HIDE DEF r, c, f, rc
    <3> QED
      BY <1>1, <1>4, <1>5, <2>1, <2>2, <2>3, <2>4, <2>6, AdecSameRefs
<1>8. CASE adec' = [adec EXCEPT ![i].conv = NoConverter] /\ Fails(t, "API_FAIL")
  <2> DEFINE r == [adec[i] EXCEPT !.conv = NoConverter]
             c == [adcall[t] EXCEPT !.at = "unlock", !.rc = "API_FAIL"]
  <2>1. r \in AdecRecs /\ adec' = [adec EXCEPT ![i] = r] /\ Len(adec') = Len(adec)
    <3>1. adec' = [adec EXCEPT ![i] = r]
      BY <1>2, <1>8
    <3>2. r \in AdecRecs
      BY <1>2, <1>3, Zenon DEF AdecRecs
    <3>3. QED
      BY <1>2, <3>1, <3>2
  <2>2. r.slot = adec[i].slot /\ r.param = adec[i].param /\ r.refs = adec[i].refs /\ r.alive = adec[i].alive
    BY <1>2 DEF AdecRecs
  <2>3. c \in AdecCalls /\ c.d = i /\ adcall' = [adcall EXCEPT ![t] = c] /\ AdecCallInv(t)'
    BY <1>1, <1>8, <2>1, AdecFails, Zenon
  <2>4. QED
    <3> HIDE DEF r, c, f, rc
    <3> QED
      BY <1>1, <1>4, <1>5, <2>1, <2>2, <2>3, AdecSameRefs
<1>9. QED
  BY <1>6, <1>7, <1>8 DEF audiodec_open_converter

\* What fits a frame fits none and one.
LEMMA FrameFits ==
  ASSUME NEW k \in Nat, NEW c \in Nat, NEW w \in Nat, NEW room \in Nat, ~(room < k * c * w), NEW frames \in {0, k}
  PROVE  frames * c * w \in Nat /\ frames * c * w <= room
<1>1. CASE frames = 0
  <2>1. 0 * c * w = 0
    OBVIOUS
  <2>2. QED
    BY <1>1, <2>1
<1>2. CASE frames = k
  <2>1. k * c \in Nat
    OBVIOUS
  <2>2. k * c * w \in Nat
    BY <2>1
  <2>3. QED
    BY <1>2, <2>2
<1>3. QED
  BY <1>1, <1>2

\* One packet is converted, by the converter the call holds the lock for.
LEMMA AdecRawKeeps == ASSUME AdecIInv, NEW t \in AdecThreads, audiodec_decode_raw(t) PROVE AdecIInv'
<1> DEFINE i == adcall[t].d
           d == adec[i]
           u == adcall[t].unit
<1>1. adcall[t].at = "convert" /\ UNCHANGED <<adec, adec_table, adec_gen>>
  BY DEF audiodec_decode_raw
<1>2. adec \in Seq(AdecRecs) /\ adcall \in [AdecThreads -> AdecCalls] /\ adcall[t] \in AdecCalls
      /\ i \in DOMAIN adec /\ d \in AdecRecs /\ AdecCallInv(t)
  BY <1>1, AdecCallFacts
<1>3. CASE Fails(t, "API_FAIL")
  BY <1>1, <1>3, AdecFails, AdecOnlyCall, Zenon
<1>4. ASSUME NEW frames \in {0, AUDIODEC_FRAME},
             adcall' = [adcall EXCEPT ![t].at = "unlock", ![t].pcm = frames * d.conv.channels * d.param.word_bytes,
                              ![t].consumed = IF d.param.config = "ADTS" THEN "frame" ELSE "all"]
      PROVE  AdecIInv'
  <2> DEFINE pcm == frames * d.conv.channels * d.param.word_bytes
             c == [adcall[t] EXCEPT !.at = "unlock", !.pcm = pcm,
                                    !.consumed = IF d.param.config = "ADTS" THEN "frame" ELSE "all"]
  <2>1. d.conv = Format(d.param, u) /\ ~(adcall[t].room < AUDIODEC_FRAME * d.conv.channels * d.param.word_bytes)
    BY <1>1, <1>2 DEF AdecCallInv, Refusal
  <2>2. d.conv.channels \in Nat /\ d.param.word_bytes \in Nat /\ adcall[t].room \in Nat
    <3>1. adcall[t].room \in Nat
      BY <1>2 DEF AdecCalls
    <3>2. d.conv \in Convs /\ d.param \in Params
      BY <1>2 DEF AdecRecs
    <3> HIDE DEF d
    <3>3. d.conv.channels \in Nat /\ d.param.word_bytes \in Nat
      BY <3>2 DEF Convs, Params
    <3>4. QED
      BY <3>1, <3>3
  <2>3. pcm \in Nat /\ pcm <= adcall[t].room
    <3> HIDE DEF d
    <3> QED
      BY <2>1, <2>2, FrameFits, AdecAssumption
  <2> HIDE DEF pcm
  <2>4. c \in AdecCalls /\ c.d = i /\ c.at = "unlock" /\ c.pcm = pcm /\ c.room = adcall[t].room /\ c.rc = adcall[t].rc
    BY <1>2, <2>3 DEF AdecCalls, AdecLabels
  <2>5. adcall' = [adcall EXCEPT ![t] = c]
    BY <1>2, <1>4 DEF pcm
  <2>6. adcall'[t] = c
    BY <1>2, <2>5
  <2>7. AdecCallInv(t)'
    <3> HIDE DEF c
    <3> QED
      BY <1>1, <1>2, <2>3, <2>4, <2>6 DEF AdecCallInv
  <2>8. QED
    <3> HIDE DEF c
    <3> QED
      BY <1>1, <2>4, <2>5, <2>7, AdecOnlyCall
<1>5. QED
  BY <1>3, <1>4, Zenon DEF audiodec_decode_raw

\* The references of a decoder, counted before and after a step in which one
\* slot, or one call, changes.
LEMMA AdecSlotCount ==
  ASSUME NEW i, NEW s \in AdecSlots, \A x \in AdecSlots \ {s} : adec_table'[x] = adec_table[x]
  PROVE  /\ Cardinality(SlotRefs(i)) \in Nat /\ Cardinality(SlotRefs(i)') \in Nat
         /\ Cardinality(SlotRefs(i)') = Cardinality(SlotRefs(i)) + (IF adec_table'[s] = i THEN 1 ELSE 0)
                                        - (IF adec_table[s] = i THEN 1 ELSE 0)
<1>1. SlotRefs(i) \in SUBSET AdecSlots /\ SlotRefs(i)' \in SUBSET AdecSlots /\ SlotRefs(i) \ {s} = SlotRefs(i)' \ {s}
      /\ (s \in SlotRefs(i) <=> adec_table[s] = i) /\ (s \in SlotRefs(i)' <=> adec_table'[s] = i)
  BY DEF SlotRefs
<1>2. \A A, B : A \in SUBSET AdecSlots /\ B \in SUBSET AdecSlots /\ A \ {s} = B \ {s} =>
        /\ Cardinality(A) \in Nat /\ Cardinality(B) \in Nat
        /\ Cardinality(B) = Cardinality(A) + (IF s \in B THEN 1 ELSE 0) - (IF s \in A THEN 1 ELSE 0)
  BY AdecFin, CountOne DEF AdecFinite
<1>3. QED
  BY <1>1, <1>2
LEMMA AdecCallCount ==
  ASSUME NEW i, NEW t \in AdecThreads, \A u \in AdecThreads \ {t} : adcall'[u] = adcall[u]
  PROVE  /\ Cardinality(CallRefs(i)) \in Nat /\ Cardinality(CallRefs(i)') \in Nat
         /\ Cardinality(CallRefs(i)') = Cardinality(CallRefs(i)) + (IF adcall'[t].d = i THEN 1 ELSE 0)
                                        - (IF adcall[t].d = i THEN 1 ELSE 0)
         /\ (Cardinality(CallRefs(i)') > 0 <=> CallRefs(i)' # {})
<1>1. CallRefs(i) \in SUBSET AdecThreads /\ CallRefs(i)' \in SUBSET AdecThreads /\ CallRefs(i) \ {t} = CallRefs(i)' \ {t}
      /\ (t \in CallRefs(i) <=> adcall[t].d = i) /\ (t \in CallRefs(i)' <=> adcall'[t].d = i)
  BY DEF CallRefs
<1>2. \A A, B : A \in SUBSET AdecThreads /\ B \in SUBSET AdecThreads /\ A \ {t} = B \ {t} =>
        /\ Cardinality(A) \in Nat /\ Cardinality(B) \in Nat
        /\ Cardinality(B) = Cardinality(A) + (IF t \in B THEN 1 ELSE 0) - (IF t \in A THEN 1 ELSE 0)
  BY AdecFin, CountOne DEF AdecFinite
<1>3. Cardinality(CallRefs(i)') > 0 <=> CallRefs(i)' # {}
  BY <1>1, CountSome, AdecFin DEF AdecFinite
<1>4. QED
  BY <1>1, <1>2, <1>3

\* The last reference frees the decoder, and no other call has it.
LEMMA AdecReleaseKeeps == ASSUME AdecIInv, NEW t \in AdecThreads, audiodec_release(t) PROVE AdecIInv'
<1> SUFFICES ASSUME NEW i, i = adcall[t].d PROVE AdecIInv'
  OBVIOUS
<1> DEFINE last == adec[i].refs = 1
           r == [adec[i] EXCEPT !.refs = @ - 1, !.alive = ~last, !.conv = IF last THEN NoConverter ELSE @]
<1>1. adcall[t].at = "release"
  BY DEF audiodec_release
<1>2. adec \in Seq(AdecRecs) /\ adcall \in [AdecThreads -> AdecCalls] /\ adcall[t] \in AdecCalls
      /\ i \in DOMAIN adec /\ adec[i] \in AdecRecs /\ AdecCallInv(t) /\ AdecRefInv(i) /\ adec[i].alive
  BY <1>1, AdecCallFacts, AdecExactInv DEF AudiodecExact
<1>3. adec[i].refs \in Nat /\ adec[i].refs > 0
  BY <1>2 DEF AdecRefInv, AdecRecs
<1>4. r \in AdecRecs
  <2>1. NoConverter \in Convs /\ adec[i].refs - 1 \in Nat
    BY <1>3 DEF NoConverter, Convs
  <2>2. QED
    BY <1>2, <2>1 DEF AdecRecs
<1>5. NotCalling \in AdecCalls /\ NotCalling.at = "idle" /\ NotCalling.d = 0 /\ NotCalling.rc = "OK"
      /\ NotCalling.pcm = 0 /\ NotCalling.room = 0 /\ NotCalling.consumed = "none"
  BY DEF NotCalling, AdecCalls, AdecUnits, AdecLabels
<1>6. adcall' = [adcall EXCEPT ![t] = NotCalling] /\ UNCHANGED <<adec_table, adec_gen>>
  BY DEF audiodec_release
<1>7. adec' = [adec EXCEPT ![i] = r]
  BY <1>2 DEF audiodec_release
<1>8. r.slot = adec[i].slot /\ r.param = adec[i].param /\ r.refs = adec[i].refs - 1 /\ r.alive = ~last
      /\ r.lock = adec[i].lock /\ (~last => r.conv = adec[i].conv)
  BY <1>2 DEF AdecRecs
<1>9. adec'[i] = r /\ adcall'[t] = NotCalling /\ \A u \in AdecThreads \ {t} : adcall'[u] = adcall[u]
  BY <1>2, <1>6, <1>7
<1> HIDE DEF r
<1>10. i # 0
  BY <1>2
<1>11. adec[i].slot \in AdecSlots
  BY <1>2 DEF AdecRecs
<1>12. /\ Cardinality(SlotRefs(i)) \in Nat /\ Cardinality(CallRefs(i)) \in Nat /\ Cardinality(CallRefs(i)') \in Nat
       /\ Cardinality(SlotRefs(i)') = Cardinality(SlotRefs(i))
       /\ Cardinality(CallRefs(i)') = Cardinality(CallRefs(i)) - 1
       /\ (Cardinality(CallRefs(i)') > 0 <=> CallRefs(i)' # {})
  <2>1. adcall'[t].d # i /\ adcall[t].d = i
    BY <1>5, <1>9, <1>10
  <2>2. SlotRefs(i)' = SlotRefs(i)
    BY <1>6 DEF SlotRefs
  <2>3. QED
    <3>1. Cardinality(SlotRefs(i)) \in Nat
      BY <1>6, <1>11, AdecSlotCount
    <3>2. Cardinality(SlotRefs(i)') = Cardinality(SlotRefs(i))
      BY <2>2, Zenon
    <3>3. QED
      BY <1>9, <2>1, <3>1, <3>2, AdecCallCount
<1>13. AdecRefInv(i)'
  <2>1. adec'[i].refs = adec[i].refs - 1 /\ (adec'[i].alive <=> adec[i].refs # 1)
    BY <1>8, <1>9
  <2>2. adec[i].refs = Cardinality(SlotRefs(i)) + Cardinality(CallRefs(i))
    BY <1>2 DEF AdecRefInv
  <2>3. adec'[i].alive <=> adec'[i].refs > 0
    BY <1>3, <2>1
  <2>4. adec'[i].refs = Cardinality(SlotRefs(i)') + Cardinality(CallRefs(i)')
    BY <1>12, <2>1, <2>2
  <2>5. QED
    BY <2>3, <2>4 DEF AdecRefInv
<1>14. ASSUME last, NEW u \in AdecThreads \ {t}, adcall[u].d = i PROVE FALSE
  <2>1. u \in CallRefs(i)'
    BY <1>9, <1>14 DEF CallRefs
  <2>2. QED
    BY <1>2, <1>12, <1>14, <2>1 DEF AdecRefInv
<1>15. \A u \in AdecThreads \ {t} : adcall[u].d = i /\ adcall[u].at \in {"check", "convert"}
            => r.lock = adec[i].lock /\ r.conv = adec[i].conv
  BY <1>8, <1>14
<1>16. AdecCallInv(t)'
  BY <1>5, <1>9 DEF AdecCallInv
<1>17. adec_table' \in [AdecSlots -> 0..Len(adec)]
  BY <1>6 DEF AdecIInv, AdecTypes
<1>18. QED
  BY <1>2, <1>4, <1>5, <1>6, <1>7, <1>8, <1>13, <1>15, <1>16, <1>17, AdecOneCall

\* The table gives up its reference, if it has one; the call keeps its own.
LEMMA AdecDeleteKeeps == ASSUME AdecIInv, NEW t \in AdecThreads, shim_sceAudiodecDeleteDecoder(t) PROVE AdecIInv'
<1> SUFFICES ASSUME NEW i, i = adcall[t].d, NEW s, s = adec[i].slot PROVE AdecIInv'
  OBVIOUS
<1> DEFINE mine == adec_table[s] = i
           r == [adec[i] EXCEPT !.refs = IF mine THEN @ - 1 ELSE @]
           c == [adcall[t] EXCEPT !.at = "release", !.rc = IF mine THEN "OK" ELSE "INVALID_HANDLE"]
<1>1. adcall[t].at = "delete"
  BY DEF shim_sceAudiodecDeleteDecoder
<1>2. adec \in Seq(AdecRecs) /\ adcall \in [AdecThreads -> AdecCalls] /\ adcall[t] \in AdecCalls
      /\ i \in DOMAIN adec /\ adec[i] \in AdecRecs /\ AdecCallInv(t) /\ AdecRefInv(i) /\ adec[i].alive
  BY <1>1, AdecCallFacts, AdecExactInv DEF AudiodecExact
<1>3. adec[i].refs \in Nat /\ adec[i].refs > 0 /\ s \in AdecSlots
  BY <1>2 DEF AdecRefInv, AdecRecs
<1>4. r \in AdecRecs
  <2>1. adec[i].refs - 1 \in Nat
    BY <1>3
  <2>2. QED
    BY <1>2, <2>1 DEF AdecRecs
<1>5. c \in AdecCalls /\ c.d = i /\ c.at = "release" /\ c.pcm = adcall[t].pcm /\ c.consumed = adcall[t].consumed
      /\ c.room = adcall[t].room
  BY <1>2 DEF AdecCalls, AdecLabels
<1>6. adec_table \in [AdecSlots -> 0..Len(adec)] /\ Len(adec) \in Nat
  BY <1>2 DEF AdecIInv, AdecTypes
<1>7. adcall' = [adcall EXCEPT ![t] = c] /\ adec' = [adec EXCEPT ![i] = r] /\ adec_gen' = adec_gen
      /\ adec_table' = [adec_table EXCEPT ![s] = IF mine THEN 0 ELSE @]
  BY <1>2, <1>3, <1>6 DEF shim_sceAudiodecDeleteDecoder
<1>8. r.slot = adec[i].slot /\ r.param = adec[i].param /\ r.refs = (IF mine THEN adec[i].refs - 1 ELSE adec[i].refs)
      /\ r.alive = adec[i].alive /\ r.lock = adec[i].lock /\ r.conv = adec[i].conv
  BY <1>2 DEF AdecRecs
<1> HIDE DEF r, c
<1>9. adec'[i] = r /\ adcall'[t] = c /\ Len(adec') = Len(adec) /\ \A u \in AdecThreads \ {t} : adcall'[u] = adcall[u]
  BY <1>2, <1>7
<1>10. adec_table' \in [AdecSlots -> 0..Len(adec)] /\ adec_table'[s] = (IF mine THEN 0 ELSE adec_table[s])
       /\ \A x \in AdecSlots \ {s} : adec_table'[x] = adec_table[x]
  BY <1>3, <1>6, <1>7
<1>11. /\ Cardinality(SlotRefs(i)) \in Nat /\ Cardinality(CallRefs(i)) \in Nat /\ Cardinality(SlotRefs(i)') \in Nat
       /\ Cardinality(SlotRefs(i)') = Cardinality(SlotRefs(i)) - (IF mine THEN 1 ELSE 0)
       /\ Cardinality(CallRefs(i)') = Cardinality(CallRefs(i)) /\ Cardinality(CallRefs(i)') > 0
  <2>1. adcall'[t].d = i /\ adcall[t].d = i /\ i # 0
    BY <1>2, <1>5, <1>9
  <2>2. CallRefs(i)' # {}
    BY <2>1 DEF CallRefs
  <2>3. adec_table'[s] # i /\ (adec_table[s] = i <=> mine)
    BY <1>10, <2>1
  <2>4. /\ Cardinality(SlotRefs(i)) \in Nat /\ Cardinality(SlotRefs(i)') \in Nat
        /\ Cardinality(SlotRefs(i)') = Cardinality(SlotRefs(i)) - (IF mine THEN 1 ELSE 0)
    BY <1>3, <1>10, <2>3, AdecSlotCount
  <2>5. QED
    BY <1>9, <2>1, <2>2, <2>4, AdecCallCount
<1>12. AdecRefInv(i)'
  <2>1. adec'[i].refs = (IF mine THEN adec[i].refs - 1 ELSE adec[i].refs) /\ adec'[i].alive
    BY <1>2, <1>8, <1>9
  <2>2. adec[i].refs = Cardinality(SlotRefs(i)) + Cardinality(CallRefs(i))
    BY <1>2 DEF AdecRefInv
  <2>3. adec'[i].refs = Cardinality(SlotRefs(i)') + Cardinality(CallRefs(i)') /\ adec'[i].refs > 0
    BY <1>11, <2>1, <2>2
  <2>4. QED
    BY <2>1, <2>3 DEF AdecRefInv
<1>13. AdecCallInv(t)'
  BY <1>1, <1>2, <1>5, <1>9 DEF AdecCallInv
<1>14. \A x \in AdecSlots : adec_table'[x] # adec_table[x] => adec_table[x] = i /\ adec_table'[x] = 0
  BY <1>10
<1>15. QED
  BY <1>2, <1>4, <1>5, <1>7, <1>8, <1>10, <1>12, <1>13, <1>14, AdecOneCall

\* A call finds the decoder of its handle and takes a reference.
LEMMA AdecAcquireKeeps ==
  ASSUME AdecIInv, NEW t \in AdecThreads, NEW h \in AdecHandles, NEW c0 \in AdecCalls,
         c0.at \in {"delete", "decode"}, c0.rc = "OK", c0.pcm = 0, c0.consumed = "none",
         c0.at = "decode" => c0.unit \in AdecUnits \ {NoUnit}, audiodec_acquire(t, h, c0)
  PROVE  AdecIInv'
<1> SUFFICES ASSUME NEW i, i = adec_table[h.slot] PROVE AdecIInv'
  OBVIOUS
<1> DEFINE r == [adec[i] EXCEPT !.refs = @ + 1]
           c == [c0 EXCEPT !.d = i]
<1>1. adec \in Seq(AdecRecs) /\ adec_table \in [AdecSlots -> 0..Len(adec)] /\ adcall \in [AdecThreads -> AdecCalls]
      /\ Len(adec) \in Nat /\ DOMAIN adec = 1..Len(adec)
  BY DEF AdecIInv, AdecTypes
<1>2. h.slot \in AdecSlots
  <2>1. PICK k \in DOMAIN adec : h = [slot |-> adec[k].slot, gen |-> adec[k].gen]
    BY DEF AdecHandles
  <2>2. adec[k] \in AdecRecs /\ h.slot = adec[k].slot
    BY <1>1, <2>1
  <2>3. QED
    BY <2>2 DEF AdecRecs
<1>3. adcall[t].at = "idle" /\ i # 0 /\ adcall[t].d = 0 /\ AdecCallInv(t)
  BY DEF audiodec_acquire, AdecIInv, AdecCallInv
<1>4. i \in DOMAIN adec /\ adec[i] \in AdecRecs /\ AdecRefInv(i)
  BY <1>1, <1>2, <1>3 DEF AdecIInv
<1>5. adec[i].refs \in Nat
  BY <1>4 DEF AdecRecs
<1>6. r \in AdecRecs /\ r.slot = adec[i].slot /\ r.param = adec[i].param /\ r.refs = adec[i].refs + 1
      /\ r.alive = adec[i].alive /\ r.lock = adec[i].lock /\ r.conv = adec[i].conv
  <2>1. adec[i].refs + 1 \in Nat
    BY <1>5
  <2>2. QED
    BY <1>4, <2>1 DEF AdecRecs
<1>7. c \in AdecCalls /\ c.d = i /\ c.at = c0.at /\ c.rc = c0.rc /\ c.pcm = c0.pcm /\ c.consumed = c0.consumed
      /\ c.room = c0.room /\ c.unit = c0.unit /\ c.room \in Nat
  <2>1. i \in Nat
    BY <1>1, <1>4
  <2>2. c \in AdecCalls
    BY <2>1 DEF AdecCalls
  <2>3. QED
    BY <2>2 DEF AdecCalls
<1>8. adcall' = [adcall EXCEPT ![t] = c] /\ adec' = [adec EXCEPT ![i] = r] /\ UNCHANGED <<adec_table, adec_gen>>
  BY <1>4 DEF audiodec_acquire
<1> HIDE DEF r, c
<1>9. adec'[i] = r /\ adcall'[t] = c /\ Len(adec') = Len(adec) /\ \A u \in AdecThreads \ {t} : adcall'[u] = adcall[u]
  BY <1>1, <1>4, <1>8
<1>10. /\ Cardinality(SlotRefs(i)) \in Nat /\ Cardinality(CallRefs(i)) \in Nat
       /\ Cardinality(SlotRefs(i)') = Cardinality(SlotRefs(i)) /\ Cardinality(SlotRefs(i)) > 0
       /\ Cardinality(CallRefs(i)') = Cardinality(CallRefs(i)) + 1
  <2>1. adcall'[t].d = i /\ adcall[t].d # i
    BY <1>3, <1>7, <1>9
  <2>2. SlotRefs(i)' = SlotRefs(i) /\ SlotRefs(i) # {} /\ SlotRefs(i) \in SUBSET AdecSlots
    BY <1>2, <1>8 DEF SlotRefs
  <2>3. Cardinality(SlotRefs(i)) > 0
    BY <2>2, CountSome, AdecFin DEF AdecFinite
  <2>4. QED
    BY <1>2, <1>8, <1>9, <2>1, <2>2, <2>3, AdecSlotCount, AdecCallCount
<1>11. AdecRefInv(i)'
  <2>1. adec'[i].refs = adec[i].refs + 1 /\ adec'[i].alive = adec[i].alive
    BY <1>6, <1>9
  <2>2. adec[i].refs = Cardinality(SlotRefs(i)) + Cardinality(CallRefs(i)) /\ (adec[i].alive <=> adec[i].refs > 0)
    BY <1>4 DEF AdecRefInv
  <2>3. adec'[i].refs = Cardinality(SlotRefs(i)') + Cardinality(CallRefs(i)') /\ (adec'[i].alive <=> adec'[i].refs > 0)
    BY <1>5, <1>10, <2>1, <2>2
  <2>4. QED
    BY <2>3 DEF AdecRefInv
<1>12. AdecCallInv(t)'
  <2>1. c.d \in 1..Len(adec') /\ Len(adec') \in Nat
    BY <1>1, <1>4, <1>7, <1>9
  <2>2. QED
    BY <1>7, <1>9, <2>1 DEF AdecCallInv
<1>13. adec_table' \in [AdecSlots -> 0..Len(adec)]
  BY <1>1, <1>8
<1>14. QED
  BY <1>3, <1>4, <1>6, <1>7, <1>8, <1>11, <1>12, <1>13, AdecOneCall

\* A new decoder takes the lowest free slot and is the table's alone.
LEMMA AdecCreateKeeps ==
  ASSUME AdecIInv, NEW t \in AdecThreads, NEW p \in Params, shim_sceAudiodecCreateDecoder(t, p)
  PROVE  AdecIInv'
<1> DEFINE free == {s \in AdecSlots : adec_table[s] = 0}
           g == (adec_gen + 1) % AdecGenerations
<1> SUFFICES ASSUME NEW m, m = Min(free), NEW n, n = Len(adec) + 1 PROVE AdecIInv'
  OBVIOUS
<1> DEFINE r == [alive |-> TRUE, refs |-> 1, lock |-> 0, slot |-> m, gen |-> g, param |-> p, conv |-> NoConverter]
<1>1. adec \in Seq(AdecRecs) /\ adec_table \in [AdecSlots -> 0..Len(adec)] /\ adcall \in [AdecThreads -> AdecCalls]
      /\ Len(adec) \in Nat /\ DOMAIN adec = 1..Len(adec) /\ adec_gen \in Nat
  BY DEF AdecIInv, AdecTypes
<1>2. m \in free
  <2>1. free # {} /\ free \subseteq Nat
    BY AdecFin DEF AdecFinite, shim_sceAudiodecCreateDecoder
  <2> HIDE DEF free
  <2>2. QED
    BY <2>1, LeastOf
<1>3. m \in AdecSlots /\ adec_table[m] = 0
  BY <1>2
<1>4. g \in Nat
  BY <1>1, AdecAssumption
<1>5. r \in AdecRecs
  <2>1. NoConverter \in Convs
    BY DEF NoConverter, Convs
  <2> HIDE DEF g
  <2>2. QED
    BY <1>3, <1>4, <2>1 DEF AdecRecs
<1>6. adec' = Append(adec, r) /\ adec_table' = [adec_table EXCEPT ![m] = n] /\ adec_gen' = g /\ adcall' = adcall
  BY DEF shim_sceAudiodecCreateDecoder
<1>7. r.slot = m /\ r.refs = 1 /\ r.alive
  OBVIOUS
<1> HIDE DEF r, g, free
<1>8. adec' \in Seq(AdecRecs) /\ Len(adec') = n /\ adec'[n] = r /\ DOMAIN adec' = DOMAIN adec \cup {n} /\ n \notin DOMAIN adec
      /\ n # 0 /\ \A j \in DOMAIN adec : adec'[j] = adec[j]
  BY <1>1, <1>5, <1>6
<1>9. adec_table' \in [AdecSlots -> 0..n] /\ adec_table'[m] = n /\ \A s \in AdecSlots : s # m => adec_table'[s] = adec_table[s]
  BY <1>1, <1>3, <1>6
<1>10. AdecTypes'
  BY <1>1, <1>4, <1>6, <1>8, <1>9 DEF AdecTypes
<1>11. ASSUME NEW s \in AdecSlots, adec_table'[s] # 0 PROVE adec'[adec_table'[s]].slot = s
  <2>1. CASE s = m
    BY <1>7, <1>8, <1>9, <2>1
  <2>2. CASE s # m
    <3>1. adec_table'[s] = adec_table[s] /\ adec_table[s] \in DOMAIN adec /\ adec[adec_table[s]].slot = s
      BY <1>1, <1>9, <1>11, <2>2 DEF AdecIInv
    <3>2. QED
      BY <1>8, <3>1
  <2>3. QED
    BY <2>1, <2>2
<1>12. ASSUME NEW u \in AdecThreads PROVE AdecCallInv(u)'
  <2>1. adcall'[u] = adcall[u] /\ AdecCallInv(u) /\ adcall[u] \in AdecCalls
    BY <1>1, <1>6 DEF AdecIInv
  <2>2. adcall[u].at = "idle" \/ adec'[adcall[u].d] = adec[adcall[u].d]
    BY <1>1, <1>8, <2>1 DEF AdecCallInv, AdecCalls
  <2>3. adcall[u].d <= n
    BY <1>1, <2>1 DEF AdecCallInv, AdecCalls
  <2>4. QED
    BY <1>8, <2>1, <2>2, <2>3 DEF AdecCallInv
<1>13. \A i : CallRefs(i)' = CallRefs(i)
  BY <1>6 DEF CallRefs
<1>14. ASSUME NEW j \in DOMAIN adec' PROVE AdecRefInv(j)'
  <2>1. Cardinality(SlotRefs(j)) \in Nat
        /\ Cardinality(SlotRefs(j)') = Cardinality(SlotRefs(j)) + (IF n = j THEN 1 ELSE 0) - (IF 0 = j THEN 1 ELSE 0)
    BY <1>3, <1>9, AdecSlotCount
  <2>2. j # 0
    BY <1>1, <1>8, <1>14
  <2>3. Cardinality(CallRefs(j)') = Cardinality(CallRefs(j))
    BY <1>13, Zenon
  <2>4. CASE j \in DOMAIN adec
    <3>1. adec'[j] = adec[j] /\ AdecRefInv(j) /\ j # n
      BY <1>8, <2>4 DEF AdecIInv
    <3>2. Cardinality(SlotRefs(j)') = Cardinality(SlotRefs(j))
      BY <2>1, <2>2, <3>1
    <3>3. QED
      BY <2>3, <3>1, <3>2 DEF AdecRefInv
  <2>5. CASE j = n
    <3>1. SlotRefs(n) = {} /\ CallRefs(n) = {}
      <4>1. \A s \in AdecSlots : adec_table[s] # n
        BY <1>1
      <4>2. \A u \in AdecThreads : adcall[u].d # n
        BY <1>1 DEF AdecIInv, AdecCallInv, AdecCalls
      <4>3. QED
        BY <4>1, <4>2 DEF SlotRefs, CallRefs
    <3>2. Cardinality(SlotRefs(n)) = 0 /\ Cardinality(CallRefs(n)) = 0
      BY <3>1, FS_EmptySet
    <3>3. QED
      BY <1>7, <1>8, <2>1, <2>2, <2>3, <2>5, <3>2 DEF AdecRefInv
  <2>6. QED
    BY <1>8, <1>14, <2>4, <2>5
<1>15. QED
  BY <1>10, <1>11, <1>12, <1>14 DEF AdecIInv

\* Every step keeps the invariant.
LEMMA AdecStepInv == AdecIInv /\ (AdecNext \/ UNCHANGED adec_vars) => AdecIInv'
<1> SUFFICES ASSUME AdecIInv, AdecNext \/ UNCHANGED adec_vars PROVE AdecIInv'
  OBVIOUS
<1>1. CASE UNCHANGED <<adec, adec_table, adec_gen, adcall>>
  BY <1>1 DEF AdecIInv, AdecTypes, AdecCallInv, AdecRefInv, SlotRefs, CallRefs
<1>2. ASSUME NEW t \in AdecThreads, NEW h \in AdecHandles,
             audiodec_acquire(t, h, [NotCalling EXCEPT !.at = "delete"])
      PROVE  AdecIInv'
  <2> DEFINE c0 == [NotCalling EXCEPT !.at = "delete"]
  <2>1. c0 \in AdecCalls /\ c0.at = "delete" /\ c0.rc = "OK" /\ c0.pcm = 0 /\ c0.consumed = "none"
    BY DEF NotCalling, AdecCalls, AdecLabels, AdecUnits
  <2>2. audiodec_acquire(t, h, c0)
    BY <1>2
  <2> HIDE DEF c0
  <2>3. QED
    BY <2>1, <2>2, AdecAcquireKeeps
<1>3. ASSUME NEW t \in AdecThreads, NEW h \in AdecHandles, NEW in \in AdecInputs,
             audiodec_acquire(t, h, [NotCalling EXCEPT !.at = "decode", !.unit = in.unit, !.room = in.room])
      PROVE  AdecIInv'
  <2> DEFINE c0 == [NotCalling EXCEPT !.at = "decode", !.unit = in.unit, !.room = in.room]
  <2>1. in.unit \in AdecUnits \ {NoUnit} /\ in.room \in Nat
    BY AdecAssumption DEF AdecUnits, NoUnit
  <2>2. c0 \in AdecCalls /\ c0.at = "decode" /\ c0.rc = "OK" /\ c0.pcm = 0 /\ c0.consumed = "none" /\ c0.unit = in.unit
    BY <2>1 DEF NotCalling, AdecCalls, AdecLabels
  <2>3. audiodec_acquire(t, h, c0)
    BY <1>3
  <2> HIDE DEF c0
  <2>4. QED
    BY <2>1, <2>2, <2>3, AdecAcquireKeeps
<1>4. QED
  BY <1>1, <1>2, <1>3, AdecCreateKeeps, AdecReleaseKeeps, AdecDeleteKeeps, AdecLockKeeps, AdecOpenKeeps, AdecRawKeeps,
     AdecUnlockKeeps
  DEF AdecNext, adec_vars, shim_sceAudiodecInitLibrary, shim_sceAudiodecTermLibrary

-----------------------------------------------------------------------------
(* The Vdecsw decoders.  A decoder's units, its core's pictures and its    *)
(* completions are runs of consecutive numbers (StreamInv); a call that    *)
(* has in_lock is alone in changing what the core holds back.              *)

\* s is the numbers that follow a.
Consecutive(s, a) == \A k \in 1..Len(s) : s[k] = a + k

\* A run and the run that follows it.
LEMMA RunCat ==
  ASSUME NEW s \in Seq(Nat), NEW u \in Seq(Nat), NEW a \in Nat, Consecutive(s, a), Consecutive(u, a + Len(s))
  PROVE  s \o u \in Seq(Nat) /\ Len(s \o u) = Len(s) + Len(u) /\ Consecutive(s \o u, a)
<1>1. /\ s \o u \in Seq(Nat) /\ Len(s \o u) = Len(s) + Len(u)
      /\ \A i \in 1..Len(s) + Len(u) : (s \o u)[i] = IF i <= Len(s) THEN s[i] ELSE u[i - Len(s)]
  BY ConcatProperties
<1>2. Len(s) \in Nat /\ Len(u) \in Nat
  OBVIOUS
<1>3. ASSUME NEW k \in 1..Len(s \o u) PROVE (s \o u)[k] = a + k
  <2>1. CASE k <= Len(s)
    BY <1>1, <1>2, <1>3, <2>1 DEF Consecutive
  <2>2. CASE ~(k <= Len(s))
    <3>1. (s \o u)[k] = u[k - Len(s)] /\ k - Len(s) \in 1..Len(u)
      BY <1>1, <1>2, <1>3, <2>2
    <3>2. u[k - Len(s)] = a + Len(s) + (k - Len(s))
      BY <3>1 DEF Consecutive
    <3>3. QED
      BY <1>2, <3>1, <3>2
  <2>3. QED
    BY <2>1, <2>2
<1>4. QED
  BY <1>1, <1>3 DEF Consecutive

\* The number after a run.
LEMMA RunAppend ==
  ASSUME NEW s \in Seq(Nat), NEW a \in Nat, Consecutive(s, a), NEW n \in Nat, n = a + Len(s) + 1
  PROVE  Append(s, n) \in Seq(Nat) /\ Len(Append(s, n)) = Len(s) + 1 /\ Consecutive(Append(s, n), a)
  BY DEF Consecutive

\* A run without its first number.
LEMMA RunTail ==
  ASSUME NEW s \in Seq(Nat), s # <<>>, NEW a \in Nat, Consecutive(s, a)
  PROVE  /\ Head(s) = a + 1 /\ Tail(s) \in Seq(Nat) /\ Len(Tail(s)) = Len(s) - 1 /\ Len(s) > 0
         /\ Consecutive(Tail(s), a + 1)
<1>1. Tail(s) \in Seq(Nat) /\ Len(Tail(s)) = Len(s) - 1 /\ \A i \in 1..Len(Tail(s)) : Tail(s)[i] = s[i + 1]
  BY HeadTailProperties
<1>2. Len(s) \in Nat /\ Len(s) > 0 /\ Head(s) = s[1]
  BY EmptySeq
<1>3. Head(s) = a + 1
  BY <1>2 DEF Consecutive
<1>4. ASSUME NEW k \in 1..Len(Tail(s)) PROVE Tail(s)[k] = a + 1 + k
  <2>1. k + 1 \in 1..Len(s) /\ Tail(s)[k] = s[k + 1]
    BY <1>1, <1>2, <1>4
  <2>2. QED
    BY <1>4, <2>1 DEF Consecutive
<1>5. QED
  BY <1>1, <1>2, <1>3, <1>4 DEF Consecutive

\* A part of a run.
LEMMA RunSub ==
  ASSUME NEW s \in Seq(Nat), NEW a \in Nat, Consecutive(s, a), NEW m \in Nat, m >= 1, NEW n \in Nat, n <= Len(s), m <= n + 1
  PROVE  SubSeq(s, m, n) \in Seq(Nat) /\ Len(SubSeq(s, m, n)) = n - m + 1 /\ Consecutive(SubSeq(s, m, n), a + m - 1)
<1>1. m \in Int /\ n \in Int /\ \A i \in m..n : s[i] \in Nat
  OBVIOUS
<1>2. /\ SubSeq(s, m, n) \in Seq(Nat) /\ Len(SubSeq(s, m, n)) = IF m <= n THEN n - m + 1 ELSE 0
      /\ \A i \in 1..n - m + 1 : SubSeq(s, m, n)[i] = s[m + i - 1]
  BY <1>1, SubSeqProperties
<1>3. Len(SubSeq(s, m, n)) = n - m + 1
  BY <1>2
<1>4. ASSUME NEW k \in 1..n - m + 1 PROVE SubSeq(s, m, n)[k] = a + m - 1 + k
  <2>1. SubSeq(s, m, n)[k] = s[m + k - 1] /\ m + k - 1 \in 1..Len(s)
    BY <1>2, <1>4
  <2>2. QED
    BY <1>4, <2>1 DEF Consecutive
<1>5. QED
  BY <1>2, <1>3, <1>4 DEF Consecutive

\* The numbers of a run.
LEMMA RunRange ==
  ASSUME NEW s \in Seq(Nat), NEW a \in Nat, Consecutive(s, a)
  PROVE  Range(s) = (a + 1)..(a + Len(s)) /\ Len(s) \in Nat
<1>1. Len(s) \in Nat /\ DOMAIN s = 1..Len(s)
  OBVIOUS
<1>2. ASSUME NEW x \in Range(s) PROVE x \in (a + 1)..(a + Len(s))
  BY <1>1 DEF Range, Consecutive
<1>3. ASSUME NEW x \in (a + 1)..(a + Len(s)) PROVE x \in Range(s)
  <2>1. x - a \in 1..Len(s) /\ s[x - a] = a + (x - a)
    BY <1>1, <1>3 DEF Consecutive
  <2>2. QED
    BY <1>1, <1>3, <2>1 DEF Range
<1>4. QED
  BY <1>1, <1>2, <1>3

\* The members of two sequences.
LEMMA RangeCat ==
  ASSUME NEW s \in Seq(Nat), NEW u \in Seq(Nat)
  PROVE  Range(s \o u) = Range(s) \cup Range(u)
<1>1. /\ s \o u \in Seq(Nat) /\ Len(s \o u) = Len(s) + Len(u)
      /\ \A i \in 1..Len(s) + Len(u) : (s \o u)[i] = IF i <= Len(s) THEN s[i] ELSE u[i - Len(s)]
  BY ConcatProperties
<1>2. Len(s) \in Nat /\ Len(u) \in Nat /\ DOMAIN s = 1..Len(s) /\ DOMAIN u = 1..Len(u) /\ DOMAIN (s \o u) = 1..Len(s) + Len(u)
  <2>1. DOMAIN (s \o u) = 1..Len(s \o u)
    BY <1>1
  <2>2. QED
    BY <1>1, <2>1
<1>3. ASSUME NEW i \in 1..Len(s) + Len(u) PROVE (s \o u)[i] \in Range(s) \cup Range(u)
  <2>1. CASE i <= Len(s)
    BY <1>1, <1>2, <2>1 DEF Range
  <2>2. CASE ~(i <= Len(s))
    <3>1. i - Len(s) \in DOMAIN u /\ (s \o u)[i] = u[i - Len(s)]
      BY <1>1, <1>2, <2>2
    <3>2. QED
      BY <3>1 DEF Range
  <2>3. QED
    BY <2>1, <2>2
<1>4. ASSUME NEW i \in DOMAIN s PROVE s[i] \in Range(s \o u)
  <2>1. i \in 1..Len(s) + Len(u) /\ (s \o u)[i] = s[i]
    BY <1>1, <1>2
  <2>2. QED
    BY <1>2, <2>1 DEF Range
<1>5. ASSUME NEW i \in DOMAIN u PROVE u[i] \in Range(s \o u)
  <2>1. i + Len(s) \in 1..Len(s) + Len(u) /\ ~(i + Len(s) <= Len(s)) /\ i + Len(s) - Len(s) = i
    BY <1>2
  <2>2. (s \o u)[i + Len(s)] = u[i]
    BY <1>1, <2>1
  <2>3. QED
    BY <1>2, <2>1, <2>2 DEF Range
<1>6. QED
  BY <1>2, <1>3, <1>4, <1>5 DEF Range

\* What a decoder, and what is recorded of it, can be.
VswRecs == [alive : BOOLEAN, refs : Nat, in_lock : VswThreads \cup {0}, done : Seq(Nat), held : Seq(Nat), queue : Seq(Nat),
            have_output : BOOLEAN, finalized : BOOLEAN, ended : BOOLEAN, units : Nat]
VswLogs == [reported : Seq(Nat), pictures : Seq(Nat), dropped : SUBSET Nat, stale : BOOLEAN]

\* Of decoder d, with starting a unit decoded whose completion is not yet
\* listed: what was shown, dropped, is queued and is held back are its units
\* in order, what was reported and what is done its completions.
StreamInv(d, log, starting) ==
  LET base == d.units - Len(d.held) - Len(d.queue)
  IN  /\ base \in Nat
      /\ Consecutive(d.queue, base) /\ Consecutive(d.held, base + Len(d.queue))
      /\ Range(log.pictures) \cup log.dropped = 1..base
      /\ \A j, k \in DOMAIN log.pictures : j < k => log.pictures[j] < log.pictures[k]
      /\ Consecutive(log.reported, 0) /\ Consecutive(d.done, Len(log.reported))
      /\ Len(log.reported) + Len(d.done) = d.units - (IF starting THEN 1 ELSE 0)
      /\ d.finalized /\ ~starting => d.held = <<>>
      /\ ~log.stale

\* The fields StreamInv reads, their types and what it says of them.
LEMMA StreamFacts ==
  ASSUME NEW d \in VswRecs, NEW log \in VswLogs, NEW st \in BOOLEAN, StreamInv(d, log, st)
  PROVE  /\ d.units \in Nat /\ d.held \in Seq(Nat) /\ d.queue \in Seq(Nat) /\ d.done \in Seq(Nat)
         /\ Len(d.held) \in Nat /\ Len(d.queue) \in Nat /\ Len(d.done) \in Nat /\ Len(log.reported) \in Nat
         /\ log.reported \in Seq(Nat) /\ log.pictures \in Seq(Nat) /\ log.dropped \in SUBSET Nat
         /\ d.units - Len(d.held) - Len(d.queue) \in Nat
         /\ \A k \in DOMAIN log.pictures : log.pictures[k] <= d.units - Len(d.held) - Len(d.queue)
<1>1. d.units \in Nat /\ d.held \in Seq(Nat) /\ d.queue \in Seq(Nat) /\ d.done \in Seq(Nat) /\ log.reported \in Seq(Nat)
      /\ log.pictures \in Seq(Nat) /\ log.dropped \in SUBSET Nat
  BY DEF VswRecs, VswLogs
<1>2. d.units - Len(d.held) - Len(d.queue) \in Nat
      /\ Range(log.pictures) \cup log.dropped = 1..(d.units - Len(d.held) - Len(d.queue))
  BY DEF StreamInv
<1>3. ASSUME NEW k \in DOMAIN log.pictures PROVE log.pictures[k] <= d.units - Len(d.held) - Len(d.queue)
  <2>1. log.pictures[k] \in Range(log.pictures)
    BY DEF Range
  <2>2. log.pictures[k] \in 1..(d.units - Len(d.held) - Len(d.queue))
    BY <1>2, <2>1
  <2>3. QED
    BY <1>2, <2>2
<1>4. QED
  BY <1>1, <1>2, <1>3

\* Three intervals that meet.
LEMMA Intervals ==
  ASSUME NEW b \in Nat, NEW m \in Nat, NEW n \in Nat
  PROVE  1..b \cup (b + 1)..(b + m) \cup (b + m + 1)..(b + m + n) = 1..(b + m + n)
  OBVIOUS

\* What the property says of it.
LEMMA StreamIs ==
  ASSUME NEW d \in VswRecs, NEW log \in VswLogs, NEW st \in BOOLEAN, StreamInv(d, log, st)
  PROVE  /\ log.reported \o d.done = [k \in 1..Len(log.reported \o d.done) |-> k]
         /\ Range(log.pictures \o d.queue \o d.held) \cup log.dropped = 1..d.units
         /\ \A j, k \in DOMAIN log.pictures : j < k => log.pictures[j] < log.pictures[k]
         /\ ~log.stale
<1> SUFFICES ASSUME NEW base, base = d.units - Len(d.held) - Len(d.queue)
             PROVE  /\ log.reported \o d.done = [k \in 1..Len(log.reported \o d.done) |-> k]
                    /\ Range(log.pictures \o d.queue \o d.held) \cup log.dropped = 1..d.units
                    /\ \A j, k \in DOMAIN log.pictures : j < k => log.pictures[j] < log.pictures[k]
                    /\ ~log.stale
  OBVIOUS
<1> DEFINE all == log.reported \o d.done
<1>1. /\ d.units \in Nat /\ d.held \in Seq(Nat) /\ d.queue \in Seq(Nat) /\ d.done \in Seq(Nat)
      /\ Len(d.held) \in Nat /\ Len(d.queue) \in Nat /\ Len(d.done) \in Nat /\ Len(log.reported) \in Nat
      /\ log.reported \in Seq(Nat) /\ log.pictures \in Seq(Nat) /\ base \in Nat
  BY StreamFacts
<1>2. /\ Consecutive(d.queue, base) /\ Consecutive(d.held, base + Len(d.queue))
      /\ Range(log.pictures) \cup log.dropped = 1..base
      /\ Consecutive(log.reported, 0) /\ Consecutive(d.done, 0 + Len(log.reported))
  BY <1>1 DEF StreamInv
<1>3. all \in Seq(Nat) /\ Consecutive(all, 0)
  BY <1>1, <1>2, RunCat
<1>4. all = [k \in 1..Len(all) |-> k]
  <2> HIDE DEF all
  <2>1. all = [k \in 1..Len(all) |-> all[k]]
    BY <1>3
  <2>2. \A k \in 1..Len(all) : all[k] = k
    BY <1>3 DEF Consecutive
  <2>3. QED
    BY <2>1, <2>2
<1>5. Range(d.queue) = (base + 1)..(base + Len(d.queue))
      /\ Range(d.held) = (base + Len(d.queue) + 1)..(base + Len(d.queue) + Len(d.held))
  <2>1. base + Len(d.queue) \in Nat
    BY <1>1
  <2>2. QED
    BY <1>1, <1>2, <2>1, RunRange
<1>6. Range(log.pictures \o d.queue \o d.held) = Range(log.pictures) \cup Range(d.queue) \cup Range(d.held)
  <2>1. log.pictures \o d.queue \in Seq(Nat)
    BY <1>1, ConcatProperties
  <2>2. QED
    BY <1>1, <2>1, RangeCat
<1>7. base + Len(d.queue) + Len(d.held) = d.units
  BY <1>1
<1>8. 1..base \cup (base + 1)..(base + Len(d.queue)) \cup (base + Len(d.queue) + 1)..(base + Len(d.queue) + Len(d.held))
        = 1..(base + Len(d.queue) + Len(d.held))
  <2>0. base \in Nat
    BY <1>1
  <2>1. ASSUME NEW q \in Nat, NEW h \in Nat
        PROVE  1..base \cup (base + 1)..(base + q) \cup (base + q + 1)..(base + q + h) = 1..(base + q + h)
    BY <2>0
  <2>2. QED
    BY <1>1, <2>1, Zenon
<1>9. Range(log.pictures \o d.queue \o d.held) \cup log.dropped = 1..d.units
  BY <1>2, <1>5, <1>6, <1>7, <1>8
<1>10. QED
  BY <1>4, <1>9 DEF StreamInv

\* A step that writes none of these.
StreamStays(d, log, st, r) ==
  /\ d \in VswRecs /\ log \in VswLogs /\ st \in BOOLEAN /\ StreamInv(d, log, st) /\ r \in VswRecs
  /\ r.units = d.units /\ r.held = d.held /\ r.queue = d.queue /\ r.done = d.done
  /\ r.finalized => d.finalized \/ d.held = <<>>
  => StreamInv(r, log, st)
LEMMA StreamSame == ASSUME NEW d, NEW log, NEW st, NEW r PROVE StreamStays(d, log, st, r)
  BY DEF StreamInv, StreamStays

\* A new decoder, and one that was freed.
LEMMA StreamFresh ==
  ASSUME NEW r \in VswRecs, r.units = 0, r.held = <<>>, r.queue = <<>>, r.done = <<>>
  PROVE  StreamInv(r, NothingSeen, FALSE) /\ NothingSeen \in VswLogs
<1>1. Len(<<>>) = 0 /\ DOMAIN <<>> = {} /\ <<>> \in Seq(Nat) /\ Range(<<>>) = {} /\ 1..0 = {}
  BY DEF Range
<1>2. NothingSeen.reported = <<>> /\ NothingSeen.pictures = <<>> /\ NothingSeen.dropped = {} /\ NothingSeen.stale = FALSE
  BY DEF NothingSeen
<1>3. NothingSeen \in VswLogs
  BY <1>1 DEF NothingSeen, VswLogs
<1>4. QED
  BY <1>1, <1>2, <1>3 DEF StreamInv, Consecutive

\* h264vt_reset drops what the core has.
LEMMA StreamReset ==
  ASSUME NEW d \in VswRecs, NEW log \in VswLogs, StreamInv(d, log, FALSE), NEW r \in VswRecs, NEW l \in VswLogs,
         r.units = d.units, r.held = <<>>, r.queue = <<>>, r.done = d.done, r.finalized = d.finalized,
         l.reported = log.reported, l.pictures = log.pictures, l.stale = log.stale,
         l.dropped = log.dropped \cup Range(d.held) \cup Range(d.queue)
  PROVE  StreamInv(r, l, FALSE)
<1> SUFFICES ASSUME NEW base, base = d.units - Len(d.held) - Len(d.queue) PROVE StreamInv(r, l, FALSE)
  OBVIOUS
<1>1. /\ d.units \in Nat /\ d.held \in Seq(Nat) /\ d.queue \in Seq(Nat) /\ Len(d.held) \in Nat /\ Len(d.queue) \in Nat
      /\ base \in Nat
  BY StreamFacts
<1>2. /\ Consecutive(d.queue, base) /\ Consecutive(d.held, base + Len(d.queue))
      /\ Range(log.pictures) \cup log.dropped = 1..base
      /\ \A j, k \in DOMAIN log.pictures : j < k => log.pictures[j] < log.pictures[k]
      /\ Consecutive(log.reported, 0) /\ Consecutive(d.done, Len(log.reported))
      /\ Len(log.reported) + Len(d.done) = d.units - 0 /\ ~log.stale
  BY DEF StreamInv
<1>3. Range(d.queue) = (base + 1)..(base + Len(d.queue))
      /\ Range(d.held) = (base + Len(d.queue) + 1)..(base + Len(d.queue) + Len(d.held))
  <2>1. base + Len(d.queue) \in Nat
    BY <1>1
  <2>2. QED
    BY <1>1, <1>2, <2>1, RunRange
<1>4. Range(l.pictures) \cup l.dropped = 1..d.units
  <2>1. base + Len(d.queue) + Len(d.held) = d.units
    BY <1>1
  <2>2. 1..base \cup Range(d.queue) \cup Range(d.held) = 1..(base + Len(d.queue) + Len(d.held))
    <3>0. base \in Nat
      BY <1>1
    <3>1. ASSUME NEW q \in Nat, NEW h \in Nat
          PROVE  1..base \cup (base + 1)..(base + q) \cup (base + q + 1)..(base + q + h) = 1..(base + q + h)
      BY <3>0
    <3>2. 1..base \cup (base + 1)..(base + Len(d.queue)) \cup (base + Len(d.queue) + 1)..(base + Len(d.queue) + Len(d.held))
            = 1..(base + Len(d.queue) + Len(d.held))
      BY <1>1, <3>1, Zenon
    <3>3. QED
      BY <1>3, <3>2, Zenon
  <2>3. Range(l.pictures) \cup l.dropped = 1..base \cup Range(d.queue) \cup Range(d.held)
    BY <1>2
  <2>4. QED
    BY <2>1, <2>2, <2>3
<1>5. Len(r.held) = 0 /\ Len(r.queue) = 0 /\ r.units - Len(r.held) - Len(r.queue) = d.units
  BY <1>1
<1>6. Consecutive(r.queue, d.units) /\ Consecutive(r.held, d.units + Len(r.queue))
  BY <1>1, <1>5 DEF Consecutive
<1>7. QED
  BY <1>1, <1>2, <1>4, <1>5, <1>6 DEF StreamInv

\* A reset reports the completions that are done.
LEMMA StreamReported ==
  ASSUME NEW d \in VswRecs, NEW log \in VswLogs, StreamInv(d, log, FALSE), NEW r \in VswRecs, NEW l \in VswLogs,
         r.units = d.units, r.held = d.held, r.queue = d.queue, r.done = <<>>, ~r.finalized,
         Consecutive(l.reported, 0), Len(l.reported) = Len(log.reported) + Len(d.done), l.pictures = log.pictures, l.stale = log.stale, l.dropped = log.dropped
  PROVE  StreamInv(r, l, FALSE)
<1>1. Len(d.done) \in Nat /\ Len(log.reported) \in Nat /\ d.units \in Nat
  BY StreamFacts
<1>2. Len(l.reported) + Len(r.done) = d.units - 0 /\ Consecutive(r.done, Len(l.reported))
  <2>1. Len(r.done) = 0 /\ Len(log.reported) + Len(d.done) = d.units - 0
    BY DEF StreamInv
  <2>2. Len(l.reported) + Len(r.done) = d.units - 0
    <3>1. Len(l.reported) = Len(log.reported) + Len(d.done)
      OBVIOUS
    <3>2. Len(l.reported) + Len(r.done) = Len(log.reported) + Len(d.done)
      BY <1>1, <2>1, <3>1
    <3>3. QED
      BY <2>1, <3>2
  <2>3. Consecutive(r.done, Len(l.reported))
    BY <2>1 DEF Consecutive
  <2>4. QED
    BY <2>2, <2>3
<1>3. QED
  BY <1>2 DEF StreamInv

\* The core takes a picture and releases the first k it has.
SplitRuns(s, a, p, all, n, b, k, c) ==
  s \in Seq(Nat) /\ a \in Nat /\ Consecutive(s, a) /\ p \in Nat /\ Len(s) = p /\ all \in Seq(Nat) /\ n \in Nat
  /\ Len(all) = n /\ b = a + p /\ Consecutive(all, b) /\ k \in 0..n /\ c = b + k
  => /\ SubSeq(all, k + 1, n) \in Seq(Nat) /\ Len(SubSeq(all, k + 1, n)) = n - k
     /\ Consecutive(SubSeq(all, k + 1, n), c)
     /\ s \o SubSeq(all, 1, k) \in Seq(Nat) /\ Len(s \o SubSeq(all, 1, k)) = p + k
     /\ Consecutive(s \o SubSeq(all, 1, k), a)
LEMMA RunsSplit == ASSUME NEW s, NEW a, NEW p, NEW all, NEW n, NEW b, NEW k, NEW c PROVE SplitRuns(s, a, p, all, n, b, k, c)
<1> SUFFICES ASSUME s \in Seq(Nat), a \in Nat, Consecutive(s, a), p \in Nat, Len(s) = p, all \in Seq(Nat), n \in Nat,
                    Len(all) = n, b = a + p, Consecutive(all, b), k \in 0..n, c = b + k
             PROVE  /\ SubSeq(all, k + 1, n) \in Seq(Nat) /\ Len(SubSeq(all, k + 1, n)) = n - k
                    /\ Consecutive(SubSeq(all, k + 1, n), c)
                    /\ s \o SubSeq(all, 1, k) \in Seq(Nat) /\ Len(s \o SubSeq(all, 1, k)) = p + k
                    /\ Consecutive(s \o SubSeq(all, 1, k), a)
  BY DEF SplitRuns
<1>1. b \in Nat /\ k \in Nat /\ k + 1 \in Nat /\ 1 \in Nat /\ k <= n /\ k + 1 <= n + 1 /\ 1 <= k + 1 /\ k + 1 >= 1 /\ 1 >= 1
      /\ n <= n
  OBVIOUS
<1>2. /\ SubSeq(all, k + 1, n) \in Seq(Nat) /\ Len(SubSeq(all, k + 1, n)) = n - (k + 1) + 1
      /\ Consecutive(SubSeq(all, k + 1, n), b + (k + 1) - 1)
  BY <1>1, RunSub
<1>3. /\ SubSeq(all, 1, k) \in Seq(Nat) /\ Len(SubSeq(all, 1, k)) = k - 1 + 1
      /\ Consecutive(SubSeq(all, 1, k), b + 1 - 1)
  BY <1>1, RunSub
<1> DEFINE x == SubSeq(all, k + 1, n)
           y == SubSeq(all, 1, k)
<1>4. x \in Seq(Nat) /\ Len(x) = n - k /\ Consecutive(x, c)
  <2>1. n - (k + 1) + 1 = n - k /\ b + (k + 1) - 1 = c
    BY <1>1
  <2>2. QED
    BY <1>2, <2>1
<1>5. y \in Seq(Nat) /\ Len(y) = k /\ Consecutive(y, a + Len(s))
  <2>1. k - 1 + 1 = k /\ b + 1 - 1 = a + Len(s)
    BY <1>1
  <2>2. QED
    BY <1>3, <2>1
<1>6. s \o y \in Seq(Nat) /\ Len(s \o y) = p + k /\ Consecutive(s \o y, a)
  <2> HIDE DEF y
  <2>1. s \o y \in Seq(Nat) /\ Len(s \o y) = Len(s) + Len(y) /\ Consecutive(s \o y, a)
    BY <1>5, RunCat
  <2>2. QED
    BY <1>5, <2>1
<1>7. QED
  BY <1>4, <1>6

\* A unit is decoded, and the core releases the first k pictures it has: the
\* completion is not listed yet.
LEMMA StreamDecode ==
  ASSUME NEW d \in VswRecs, NEW log \in VswLogs, StreamInv(d, log, FALSE), NEW r \in VswRecs,
         NEW u \in Nat, NEW h \in Nat, NEW q \in Nat, NEW n \in Nat, NEW m \in Nat, NEW base,
         d.units = u, Len(d.held) = h, Len(d.queue) = q, Len(d.done) = n, Len(log.reported) = m, base = u - h - q,
         NEW k \in 0..h + 1, r.units = u + 1, r.done = d.done,
         Len(r.held) = h + 1 - k, Consecutive(r.held, base + q + k), Len(r.queue) = q + k, Consecutive(r.queue, base)
  PROVE  StreamInv(r, log, TRUE)
<1>1. /\ Range(log.pictures) \cup log.dropped = 1..base /\ base \in Nat
      /\ \A i, j \in DOMAIN log.pictures : i < j => log.pictures[i] < log.pictures[j]
      /\ Consecutive(log.reported, 0) /\ Consecutive(d.done, Len(log.reported)) /\ m + n = u - 0 /\ ~log.stale
  BY DEF StreamInv
<1>2. r.units - Len(r.held) - Len(r.queue) = base
  OBVIOUS
<1>3. base + Len(r.queue) = base + q + k
  OBVIOUS
<1>4. Consecutive(r.held, base + Len(r.queue))
  BY <1>3
<1>5. Len(log.reported) + Len(r.done) = r.units - 1
  <2>1. m + n = u - 0
    BY <1>1
  <2>2. Len(r.done) = n /\ r.units = u + 1 /\ Len(log.reported) = m
    OBVIOUS
  <2>3. m + n = (u + 1) - 1
    BY <2>1
  <2>4. QED
    BY <2>2, <2>3, Zenon
<1>6. Consecutive(r.done, Len(log.reported))
  BY <1>1
<1>7. QED
  BY <1>1, <1>2, <1>4, <1>5, <1>6 DEF StreamInv

\* Its completion is listed, and the sequence goes on.
StreamLists(d, log, r, u, n, m) ==
  /\ d \in VswRecs /\ log \in VswLogs /\ StreamInv(d, log, TRUE) /\ r \in VswRecs
  /\ u \in Nat /\ n \in Nat /\ m \in Nat /\ d.units = u /\ Len(d.done) = n /\ Len(log.reported) = m
  /\ r.units = u /\ r.held = d.held /\ r.queue = d.queue /\ ~r.finalized
  /\ Len(r.done) = n + 1 /\ Consecutive(r.done, m)
  => StreamInv(r, log, FALSE)
LEMMA StreamDone == ASSUME NEW d, NEW log, NEW r, NEW u, NEW n, NEW m PROVE StreamLists(d, log, r, u, n, m)
<1> SUFFICES ASSUME d \in VswRecs, log \in VswLogs, StreamInv(d, log, TRUE), r \in VswRecs,
                    u \in Nat, n \in Nat, m \in Nat, d.units = u, Len(d.done) = n, Len(log.reported) = m,
                    r.units = u, r.held = d.held, r.queue = d.queue, ~r.finalized,
                    Len(r.done) = n + 1, Consecutive(r.done, m)
             PROVE  StreamInv(r, log, FALSE)
  BY DEF StreamLists
<1>1. m + n = u - 1
  BY DEF StreamInv
<1>2. Len(log.reported) + Len(r.done) = r.units - 0
  BY <1>1
<1>3. Consecutive(r.done, Len(log.reported))
  OBVIOUS
<1>4. QED
  BY <1>2, <1>3 DEF StreamInv

\* The first completion is reported.
LEMMA StreamSyncInput ==
  ASSUME NEW d \in VswRecs, NEW log \in VswLogs, NEW st \in BOOLEAN, StreamInv(d, log, st), NEW r \in VswRecs, NEW l \in VswLogs,
         NEW n \in Nat, NEW m \in Nat, Len(d.done) = n, Len(log.reported) = m,
         r.units = d.units, r.held = d.held, r.queue = d.queue, r.finalized = d.finalized,
         Len(r.done) = n - 1, Consecutive(r.done, m + 1), Len(l.reported) = m + 1, Consecutive(l.reported, 0),
         l.pictures = log.pictures, l.stale = log.stale, l.dropped = log.dropped
  PROVE  StreamInv(r, l, st)
<1>1. Consecutive(r.done, Len(l.reported))
  OBVIOUS
<1>2. Len(l.reported) + Len(r.done) = Len(log.reported) + Len(d.done)
  OBVIOUS
<1>3. QED
  BY <1>1, <1>2 DEF StreamInv

\* A picture more than those that were shown is the last of them.
LEMMA RunsOn ==
  ASSUME NEW s \in Seq(Nat), NEW dropped, NEW b \in Nat, Range(s) \cup dropped = 1..b,
         \A j, k \in DOMAIN s : j < k => s[j] < s[k], NEW ps, ps = Append(s, b + 1)
  PROVE  Range(ps) \cup dropped = 1..(b + 1) /\ \A j, k \in DOMAIN ps : j < k => ps[j] < ps[k]
<1>1. /\ DOMAIN s = 1..Len(s) /\ Len(s) \in Nat /\ DOMAIN ps = 1..Len(s) + 1
      /\ ps[Len(s) + 1] = b + 1 /\ \A k \in DOMAIN s : ps[k] = s[k]
  OBVIOUS
<1>2. ASSUME NEW k \in DOMAIN s PROVE s[k] \in Nat /\ s[k] <= b
  <2>1. s[k] \in Range(s)
    BY DEF Range
  <2>2. s[k] \in 1..b
    BY <2>1
  <2>3. QED
    BY <2>2
<1>3. Range(ps) = Range(s) \cup {b + 1}
  BY <1>1 DEF Range
<1>4. 1..(b + 1) = 1..b \cup {b + 1}
  OBVIOUS
<1>5. ASSUME NEW j \in DOMAIN ps, NEW k \in DOMAIN ps, j < k PROVE ps[j] < ps[k]
  <2>1. j \in DOMAIN s
    BY <1>1, <1>5
  <2>2. CASE k \in DOMAIN s
    BY <1>1, <1>5, <2>1, <2>2
  <2>3. CASE k \notin DOMAIN s
    <3>1. k = Len(s) + 1
      BY <1>1, <2>3
    <3>2. ps[k] = b + 1 /\ ps[j] = s[j]
      BY <1>1, <2>1, <3>1
    <3>3. s[j] < b + 1
      BY <1>2, <2>1
    <3>4. QED
      BY <3>2, <3>3
  <2>4. QED
    BY <2>2, <2>3
<1>6. QED
  BY <1>3, <1>4, <1>5

\* The first picture is handed out.
LEMMA StreamSyncOutput ==
  ASSUME NEW d \in VswRecs, NEW log \in VswLogs, StreamInv(d, log, FALSE), NEW r \in VswRecs, NEW l \in VswLogs,
         NEW u \in Nat, NEW h \in Nat, NEW q \in Nat, NEW base,
         d.units = u, Len(d.held) = h, Len(d.queue) = q, base = u - h - q, q > 0,
         r.units = u, r.held = d.held, r.done = d.done, r.finalized = d.finalized,
         Len(r.queue) = q - 1, Consecutive(r.queue, base + 1),
         l.reported = log.reported, ~l.stale, Range(l.pictures) \cup l.dropped = 1..(base + 1),
         \A j, k \in DOMAIN l.pictures : j < k => l.pictures[j] < l.pictures[k]
  PROVE  StreamInv(r, l, FALSE)
<1>1. base \in Nat /\ Consecutive(d.held, base + q)
  BY DEF StreamInv
<1>2. r.units - Len(r.held) - Len(r.queue) = base + 1
  <2>1. Len(r.held) = h /\ Len(r.queue) = q - 1 /\ r.units = u
    OBVIOUS
  <2>2. u - h - (q - 1) = base + 1
    OBVIOUS
  <2>3. QED
    BY <2>1, <2>2, Zenon
<1>3. base + 1 \in Nat
  BY <1>1
<1>4. base + 1 + Len(r.queue) = base + q
  OBVIOUS
<1>5. Consecutive(r.held, base + 1 + Len(r.queue))
  BY <1>1, <1>4
<1>6. /\ Consecutive(l.reported, 0) /\ Consecutive(r.done, Len(l.reported))
      /\ Len(l.reported) + Len(r.done) = r.units - 0 /\ (r.finalized => r.held = <<>>)
  BY DEF StreamInv
<1>7. QED
  BY <1>2, <1>3, <1>5, <1>6 DEF StreamInv

\* The core hands over all that it holds back.
LEMMA StreamFinal ==
  ASSUME NEW d \in VswRecs, NEW log \in VswLogs, NEW st \in BOOLEAN, StreamInv(d, log, st), NEW r \in VswRecs,
         NEW u \in Nat, NEW h \in Nat, NEW q \in Nat, NEW base,
         d.units = u, Len(d.held) = h, Len(d.queue) = q, base = u - h - q,
         r.units = u, r.done = d.done, r.held = <<>>, Len(r.queue) = q + h, Consecutive(r.queue, base)
  PROVE  StreamInv(r, log, st)
<1>1. base \in Nat
  BY DEF StreamInv
<1>2. Len(r.held) = 0
  OBVIOUS
<1>3. r.units - Len(r.held) - Len(r.queue) = base
  BY <1>2
<1>4. Consecutive(r.held, base + Len(r.queue))
  BY <1>2 DEF Consecutive
<1>5. QED
  BY <1>1, <1>3, <1>4 DEF StreamInv

\* The table and the threads are finite.
VswFinite == IsFiniteSet(VswThreads) /\ IsFiniteSet(VswSlots) /\ VswSlots \subseteq Nat
LEMMA VswFin == VswFinite
<1>1. 1 \in Int /\ VDECSW_MAX_DECODERS \in Int
  BY VswAssumption
<1>2. IsFiniteSet(1..VDECSW_MAX_DECODERS)
  BY <1>1, FS_Interval
<1>3. QED
  BY <1>1, <1>2, VswAssumption DEF VswFinite, VswSlots

\* Where a call has in_lock.
LockLabels == {"reset_locked", "reset_done", "input_locked", "input_decode", "input_done", "input_unlock",
               "finalize_locked", "finalize_done"}
VswLabels == VswCalls \cup LockLabels \cup {"idle", "release"}
VswCallRecs == [at : VswLabels, d : Nat, handle : Nat]

\* The references to a decoder: of the table and of calls.
VswSlotsOf(i) == {s \in VswSlots : g_decoders[s] = i}
VswCallsOf(i) == {t \in VswThreads : vcall[t].d = i}

\* The inductive invariant: types, a slot of its own for each decoder, a call
\* in progress keeps the decoder of its handle and in_lock where it has it, and
\* a decoder counts its references and keeps its stream.
VswTypes ==
  /\ vsw \in Seq(VswRecs) /\ vsw_log \in Seq(VswLogs) /\ Len(vsw_log) = Len(vsw)
  /\ g_decoders \in [VswSlots -> 0..Len(vsw)] /\ vcall \in [VswThreads -> VswCallRecs]

VswCallInv(t) ==
  LET c == vcall[t] IN
  /\ c.at = "idle" <=> c.d = 0
  /\ c.d <= Len(vsw) /\ c.handle = c.d
  /\ c.at \in LockLabels => vsw[c.d].in_lock = t
  /\ c.at = "finalize_done" => vsw[c.d].held = <<>>

VswRefInv(i) ==
  /\ vsw[i].alive <=> vsw[i].refs > 0
  /\ vsw[i].refs = Cardinality(VswSlotsOf(i)) + Cardinality(VswCallsOf(i))
VswStream(i) == StreamInv(vsw[i], vsw_log[i], Starting(i))

VswIInv ==
  /\ VswTypes
  /\ \A s, u \in VswSlots : g_decoders[s] = g_decoders[u] /\ g_decoders[s] # 0 => s = u
  /\ \A t \in VswThreads : VswCallInv(t)
  /\ \A i \in DOMAIN vsw : VswRefInv(i) /\ VswStream(i)

\* The invariant holds initially.
LEMMA VswInitInv == VswInit => VswIInv
<1> SUFFICES ASSUME VswInit PROVE VswIInv
  OBVIOUS
<1>1. NoCall \in VswCallRecs /\ NoCall.at = "idle" /\ NoCall.d = 0 /\ NoCall.handle = 0
  BY DEF NoCall, VswCallRecs, VswLabels
<1>2. vsw = <<>> /\ Len(vsw) = 0 /\ DOMAIN vsw = {} /\ vsw \in Seq(VswRecs) /\ vsw_log \in Seq(VswLogs) /\ Len(vsw_log) = 0
  BY DEF VswInit
<1>3. VswTypes
  BY <1>1, <1>2 DEF VswInit, VswTypes, NoDecoder
<1>4. \A t \in VswThreads : VswCallInv(t)
  BY <1>1, <1>2 DEF VswInit, VswCallInv, LockLabels
<1>5. \A s \in VswSlots : g_decoders[s] = 0
  BY DEF VswInit, NoDecoder
<1>6. QED
  BY <1>2, <1>3, <1>4, <1>5 DEF VswIInv

\* What a call in progress knows of itself and its decoder.
LEMMA VswCallFacts ==
  ASSUME VswIInv, NEW t \in VswThreads, vcall[t].at # "idle"
  PROVE  /\ vsw \in Seq(VswRecs) /\ vsw_log \in Seq(VswLogs) /\ vcall \in [VswThreads -> VswCallRecs] /\ vcall[t] \in VswCallRecs
         /\ DOMAIN vsw_log = DOMAIN vsw
         /\ vcall[t].d \in DOMAIN vsw /\ vsw[vcall[t].d] \in VswRecs /\ vsw_log[vcall[t].d] \in VswLogs
         /\ VswCallInv(t) /\ VswRefInv(vcall[t].d) /\ VswStream(vcall[t].d) /\ Starting(vcall[t].d) \in BOOLEAN
<1>1. vsw \in Seq(VswRecs) /\ vsw_log \in Seq(VswLogs) /\ Len(vsw_log) = Len(vsw) /\ vcall \in [VswThreads -> VswCallRecs]
      /\ DOMAIN vsw_log = DOMAIN vsw /\ DOMAIN vsw = 1..Len(vsw)
  BY DEF VswIInv, VswTypes
<1>2. vcall[t].d \in DOMAIN vsw /\ VswCallInv(t)
  BY <1>1 DEF VswIInv, VswCallInv, VswCallRecs
<1>3. vsw[vcall[t].d] \in VswRecs /\ vsw_log[vcall[t].d] \in VswLogs
  BY <1>1, <1>2
<1>4. Starting(vcall[t].d) \in BOOLEAN
  BY DEF Starting
<1>5. QED
  BY <1>1, <1>2, <1>3, <1>4 DEF VswIInv

\* Its decoder is not freed.
LEMMA VswAlive == ASSUME VswIInv, NEW t \in VswThreads, vcall[t].at # "idle" PROVE vsw[vcall[t].d].alive
<1>1. t \in VswCallsOf(vcall[t].d) /\ VswRefInv(vcall[t].d)
  BY VswCallFacts DEF VswCallsOf
<1>2. Cardinality(VswCallsOf(vcall[t].d)) \in Nat /\ Cardinality(VswCallsOf(vcall[t].d)) > 0
  <2>1. VswCallsOf(vcall[t].d) \in SUBSET VswThreads
    BY DEF VswCallsOf
  <2>2. QED
    BY <1>1, <2>1, CountSome, VswFin DEF VswFinite
<1>3. Cardinality(VswSlotsOf(vcall[t].d)) \in Nat
  <2>1. VswSlotsOf(vcall[t].d) \in SUBSET VswSlots
    BY DEF VswSlotsOf
  <2>2. QED
    BY <2>1, CountSome, VswFin DEF VswFinite
<1>4. QED
  BY <1>1, <1>2, <1>3 DEF VswRefInv

\* What is claimed of the decoders follows.
LEMMA VswExactInv == VswIInv => CallsKeepDecoders
<1> SUFFICES ASSUME VswIInv PROVE CallsKeepDecoders
  OBVIOUS
<1>1. ASSUME NEW t \in VswThreads, vcall[t].at # "idle"
      PROVE  vsw[vcall[t].d].alive /\ vcall[t].d = vcall[t].handle
  BY <1>1, VswAlive, VswCallFacts DEF VswCallInv
<1>2. ASSUME NEW i \in DOMAIN vsw
      PROVE  /\ vsw_log[i].reported \o vsw[i].done = [k \in 1..Len(vsw_log[i].reported \o vsw[i].done) |-> k]
             /\ Range(vsw_log[i].pictures \o vsw[i].queue \o vsw[i].held) \cup vsw_log[i].dropped = 1..vsw[i].units
             /\ \A j, k \in DOMAIN vsw_log[i].pictures : j < k => vsw_log[i].pictures[j] < vsw_log[i].pictures[k]
             /\ ~vsw_log[i].stale
  <2>1. vsw[i] \in VswRecs /\ vsw_log[i] \in VswLogs /\ Starting(i) \in BOOLEAN
    BY DEF VswIInv, VswTypes, Starting
  <2>2. StreamInv(vsw[i], vsw_log[i], Starting(i))
    BY DEF VswIInv, VswStream
  <2>3. QED
    BY <2>1, <2>2, StreamIs
<1>3. ASSUME NEW i \in DOMAIN vsw
      PROVE  /\ vsw[i].refs = Cardinality({s \in VswSlots : g_decoders[s] = i}) + Cardinality({t \in VswThreads : vcall[t].d = i})
             /\ vsw[i].alive <=> vsw[i].refs > 0
  BY DEF VswIInv, VswRefInv, VswSlotsOf, VswCallsOf
<1>4. QED
  BY <1>1, <1>2, <1>3 DEF CallsKeepDecoders

\* A call of thread t on decoder i: the other decoders and calls stay, and the
\* invariant is to be shown for the two.
OneCall(t, i, c, r, l) ==
  /\ vcall' = [vcall EXCEPT ![t] = c] /\ vsw' = [vsw EXCEPT ![i] = r] /\ vsw_log' = [vsw_log EXCEPT ![i] = l]
  /\ vcall[t].d \in {0, i} /\ c.d \in {0, i}
  /\ g_decoders' \in [VswSlots -> 0..Len(vsw)]
  /\ \A s \in VswSlots : g_decoders'[s] # g_decoders[s] => g_decoders[s] = i /\ g_decoders'[s] = 0
  /\ \A u \in VswThreads \ {t} : vcall[u].d = i /\ vcall[u].at \in LockLabels
        => r.in_lock = vsw[i].in_lock /\ r.held = vsw[i].held
  /\ VswCallInv(t)' /\ VswRefInv(i)' /\ VswStream(i)'
LEMMA VswOneCall ==
  ASSUME VswIInv, NEW t \in VswThreads, NEW i \in DOMAIN vsw, NEW c \in VswCallRecs, NEW r \in VswRecs, NEW l \in VswLogs,
         OneCall(t, i, c, r, l)
  PROVE  VswIInv'
<1> SUFFICES ASSUME vcall' = [vcall EXCEPT ![t] = c], vsw' = [vsw EXCEPT ![i] = r], vsw_log' = [vsw_log EXCEPT ![i] = l],
                    vcall[t].d \in {0, i}, c.d \in {0, i},
                    g_decoders' \in [VswSlots -> 0..Len(vsw)],
                    \A s \in VswSlots : g_decoders'[s] # g_decoders[s] => g_decoders[s] = i /\ g_decoders'[s] = 0,
                    \A u \in VswThreads \ {t} : vcall[u].d = i /\ vcall[u].at \in LockLabels
                       => r.in_lock = vsw[i].in_lock /\ r.held = vsw[i].held,
                    VswCallInv(t)', VswRefInv(i)', VswStream(i)'
             PROVE  VswIInv'
  BY Zenon DEF OneCall
<1>1. vsw \in Seq(VswRecs) /\ vsw_log \in Seq(VswLogs) /\ Len(vsw_log) = Len(vsw) /\ vcall \in [VswThreads -> VswCallRecs]
      /\ g_decoders \in [VswSlots -> 0..Len(vsw)] /\ DOMAIN vsw = 1..Len(vsw) /\ Len(vsw) \in Nat /\ DOMAIN vsw_log = DOMAIN vsw
  BY DEF VswIInv, VswTypes
<1>2. vsw' \in Seq(VswRecs) /\ Len(vsw') = Len(vsw) /\ DOMAIN vsw' = DOMAIN vsw /\ vsw'[i] = r
      /\ \A j \in DOMAIN vsw : j # i => vsw'[j] = vsw[j]
  BY <1>1
<1>3. vsw_log' \in Seq(VswLogs) /\ Len(vsw_log') = Len(vsw) /\ \A j \in DOMAIN vsw : j # i => vsw_log'[j] = vsw_log[j]
  BY <1>1
<1>4. vcall' \in [VswThreads -> VswCallRecs] /\ vcall'[t] = c /\ \A u \in VswThreads : u # t => vcall'[u] = vcall[u]
  BY <1>1
<1>5. VswTypes'
  BY <1>1, <1>2, <1>3, <1>4 DEF VswTypes
<1>6. ASSUME NEW s \in VswSlots, NEW u \in VswSlots, g_decoders'[s] = g_decoders'[u], g_decoders'[s] # 0 PROVE s = u
  <2>1. g_decoders'[s] = g_decoders[s] /\ g_decoders'[u] = g_decoders[u]
    BY <1>6
  <2>2. QED
    BY <1>6, <2>1 DEF VswIInv
<1>7. ASSUME NEW u \in VswThreads PROVE VswCallInv(u)'
  <2>1. CASE u = t
    BY <2>1
  <2>2. CASE u # t
    <3>1. vcall'[u] = vcall[u] /\ VswCallInv(u) /\ vcall[u] \in VswCallRecs
      BY <1>1, <1>4, <2>2 DEF VswIInv
    <3>2. CASE vcall[u].d = i
      <4>1. vcall[u].at \in LockLabels => r.in_lock = vsw[i].in_lock /\ r.held = vsw[i].held
        BY <2>2, <3>2
      <4>2. "finalize_done" \in LockLabels
        BY DEF LockLabels
      <4>3. QED
        BY <1>2, <3>1, <3>2, <4>1, <4>2 DEF VswCallInv
    <3>3. CASE vcall[u].d # i
      <4>1. vcall[u].d = 0 \/ vsw'[vcall[u].d] = vsw[vcall[u].d]
        BY <1>1, <1>2, <3>1, <3>3 DEF VswCallInv, VswCallRecs
      <4>2. vcall[u].at \in LockLabels => vcall[u].at # "idle"
        BY DEF LockLabels
      <4>3. "finalize_done" \in LockLabels
        BY DEF LockLabels
      <4>4. QED
        BY <1>2, <3>1, <4>1, <4>2, <4>3 DEF VswCallInv
    <3>4. QED
      BY <3>2, <3>3
  <2>3. QED
    BY <2>1, <2>2
<1>8. ASSUME NEW j \in DOMAIN vsw PROVE VswRefInv(j)' /\ VswStream(j)'
  <2>1. CASE j = i
    BY <2>1
  <2>2. CASE j # i
    <3>1. j # 0
      BY <1>1
    <3>2. VswSlotsOf(j)' = VswSlotsOf(j)
      <4>1. \A s \in VswSlots : g_decoders'[s] = j <=> g_decoders[s] = j
        BY <2>2, <3>1
      <4>2. QED
        BY <4>1 DEF VswSlotsOf
    <3>3. \A u \in VswThreads : vcall'[u].d = j => vcall'[u] = vcall[u]
      BY <1>4, <2>2, <3>1
    <3>4. \A u \in VswThreads : vcall[u].d = j => vcall'[u] = vcall[u]
      BY <1>4, <2>2, <3>1
    <3>5. VswCallsOf(j)' = VswCallsOf(j)
      BY <3>3, <3>4 DEF VswCallsOf
    <3>6. Starting(j)' = Starting(j)
      BY <3>3, <3>4 DEF Starting
    <3>7. vsw'[j] = vsw[j] /\ vsw_log'[j] = vsw_log[j] /\ VswRefInv(j) /\ VswStream(j)
      BY <1>2, <1>3, <2>2 DEF VswIInv
    <3>8. VswRefInv(j)'
      BY <3>2, <3>5, <3>7 DEF VswRefInv
    <3>9. VswStream(j)'
      BY <3>6, <3>7, Zenon DEF VswStream
    <3>10. QED
      BY <3>8, <3>9
  <2>3. QED
    BY <2>1, <2>2
<1>9. QED
  BY <1>2, <1>5, <1>6, <1>7, <1>8 DEF VswIInv

\* A call of another thread is about to list a unit of decoder i.
OthersStart(t, i) == \E u \in VswThreads \ {t} : vcall[u].at = "input_done" /\ vcall[u].d = i

\* r leaves to a call that has in_lock what is its own.
LeavesOthers(t, r) ==
  \A u \in VswThreads \ {t} : vcall[u].d = vcall[t].d /\ vcall[u].at \in LockLabels
     => r.in_lock = vsw[vcall[t].d].in_lock /\ r.held = vsw[vcall[t].d].held

\* A step of a call that keeps its decoder, and the decoder its references.
LEMMA VswSameRefs ==
  ASSUME VswIInv, NEW t \in VswThreads, NEW c \in VswCallRecs, NEW r \in VswRecs, NEW l \in VswLogs, NEW st \in BOOLEAN,
         vcall[t].at # "idle", c.at # "idle", c.d = vcall[t].d, c.handle = vcall[t].handle,
         vcall' = [vcall EXCEPT ![t] = c], vsw' = [vsw EXCEPT ![vcall[t].d] = r],
         vsw_log' = [vsw_log EXCEPT ![vcall[t].d] = l], g_decoders' = g_decoders,
         r.refs = vsw[vcall[t].d].refs, r.alive = vsw[vcall[t].d].alive,
         LeavesOthers(t, r), c.at \in LockLabels => r.in_lock = t, c.at = "finalize_done" => r.held = <<>>,
         st <=> c.at = "input_done" \/ OthersStart(t, vcall[t].d),
         StreamInv(r, l, st)
  PROVE  VswIInv'
<1> SUFFICES ASSUME NEW i, i = vcall[t].d PROVE VswIInv'
  OBVIOUS
<1>1. vsw \in Seq(VswRecs) /\ vsw_log \in Seq(VswLogs) /\ vcall \in [VswThreads -> VswCallRecs] /\ DOMAIN vsw_log = DOMAIN vsw
      /\ i \in DOMAIN vsw /\ VswRefInv(i) /\ VswCallInv(t)
  BY VswCallFacts
<1>2. vsw'[i] = r /\ vsw_log'[i] = l /\ vcall'[t] = c /\ Len(vsw') = Len(vsw)
      /\ \A u \in VswThreads : u # t => vcall'[u] = vcall[u]
  BY <1>1
<1>3. VswCallsOf(i)' = VswCallsOf(i) /\ VswSlotsOf(i)' = VswSlotsOf(i)
  BY <1>2 DEF VswCallsOf, VswSlotsOf
<1>4. VswRefInv(i)'
  BY <1>1, <1>2, <1>3 DEF VswRefInv
<1>5. Starting(i)' = st
  <2>1. Starting(i)' <=> st
    BY <1>2 DEF Starting, OthersStart
  <2>2. QED
    BY <2>1 DEF Starting
<1>6. VswStream(i)'
  BY <1>2, <1>5, Zenon DEF VswStream
<1>7. VswCallInv(t)'
  BY <1>1, <1>2 DEF VswCallInv
<1>8. g_decoders' \in [VswSlots -> 0..Len(vsw)]
  BY DEF VswIInv, VswTypes
<1>9. \A u \in VswThreads \ {t} : vcall[u].d = i /\ vcall[u].at \in LockLabels
         => r.in_lock = vsw[i].in_lock /\ r.held = vsw[i].held
  BY DEF LeavesOthers
<1>10. OneCall(t, i, c, r, l)
  BY <1>4, <1>6, <1>7, <1>8, <1>9 DEF OneCall
<1>11. QED
  BY <1>1, <1>10, VswOneCall

\* A step of the call that has in_lock: no other is at work in the core.
LEMMA VswHeldFacts ==
  ASSUME VswIInv, NEW t \in VswThreads, vcall[t].at \in LockLabels
  PROVE  /\ vcall[t].at # "idle" /\ vsw[vcall[t].d].in_lock = t
         /\ \A u \in VswThreads \ {t} : ~(vcall[u].d = vcall[t].d /\ vcall[u].at \in LockLabels)
         /\ StreamInv(vsw[vcall[t].d], vsw_log[vcall[t].d], vcall[t].at = "input_done")
<1>1. vcall[t].at # "idle"
  BY DEF LockLabels
<1>2. vsw[vcall[t].d].in_lock = t /\ VswStream(vcall[t].d)
  BY <1>1, VswCallFacts DEF VswCallInv
<1>3. \A u \in VswThreads \ {t} : ~(vcall[u].d = vcall[t].d /\ vcall[u].at \in LockLabels)
  BY <1>2 DEF VswIInv, VswCallInv
<1>4. Starting(vcall[t].d) = (vcall[t].at = "input_done")
  <2>1. "input_done" \in LockLabels
    BY DEF LockLabels
  <2>2. Starting(vcall[t].d) <=> vcall[t].at = "input_done"
    BY <1>3, <2>1 DEF Starting
  <2>3. QED
    BY <2>2 DEF Starting
<1>5. StreamInv(vsw[vcall[t].d], vsw_log[vcall[t].d], vcall[t].at = "input_done")
  BY <1>2, <1>4, Zenon DEF VswStream
<1>6. QED
  BY <1>1, <1>2, <1>3, <1>5

\* The same for the calls that have in_lock.
LEMMA VswHeld ==
  ASSUME VswIInv, NEW t \in VswThreads, NEW c \in VswCallRecs, NEW r \in VswRecs, NEW l \in VswLogs,
         vcall[t].at \in LockLabels, c.at # "idle", c.d = vcall[t].d, c.handle = vcall[t].handle,
         vcall' = [vcall EXCEPT ![t] = c], vsw' = [vsw EXCEPT ![vcall[t].d] = r],
         vsw_log' = [vsw_log EXCEPT ![vcall[t].d] = l], g_decoders' = g_decoders,
         r.refs = vsw[vcall[t].d].refs, r.alive = vsw[vcall[t].d].alive,
         c.at \in LockLabels => r.in_lock = t, c.at = "finalize_done" => r.held = <<>>,
         StreamInv(r, l, c.at = "input_done")
  PROVE  VswIInv'
<1>1. vcall[t].at # "idle"
      /\ \A u \in VswThreads \ {t} : ~(vcall[u].d = vcall[t].d /\ vcall[u].at \in LockLabels)
  BY VswHeldFacts
<1> SUFFICES ASSUME NEW st \in BOOLEAN, st = (c.at = "input_done") PROVE VswIInv'
  OBVIOUS
<1>2. "input_done" \in LockLabels
  BY DEF LockLabels
<1>3. st <=> c.at = "input_done" \/ OthersStart(t, vcall[t].d)
  BY <1>1, <1>2 DEF OthersStart
<1>4. StreamInv(r, l, st)
  BY Zenon
<1>5. LeavesOthers(t, r)
  BY <1>1 DEF LeavesOthers
<1>6. QED
  BY <1>1, <1>3, <1>4, <1>5, VswSameRefs

\* A step of a call without in_lock leaves it and what the core holds back.
LEMMA VswShared ==
  ASSUME VswIInv, NEW t \in VswThreads, NEW c \in VswCallRecs, NEW r \in VswRecs, NEW l \in VswLogs,
         vcall[t].at # "idle", vcall[t].at \notin LockLabels, c.at # "idle", c.at \notin LockLabels,
         c.d = vcall[t].d, c.handle = vcall[t].handle,
         vcall' = [vcall EXCEPT ![t] = c], vsw' = [vsw EXCEPT ![vcall[t].d] = r],
         vsw_log' = [vsw_log EXCEPT ![vcall[t].d] = l], g_decoders' = g_decoders,
         r.refs = vsw[vcall[t].d].refs, r.alive = vsw[vcall[t].d].alive,
         r.in_lock = vsw[vcall[t].d].in_lock, r.held = vsw[vcall[t].d].held,
         StreamInv(r, l, Starting(vcall[t].d))
  PROVE  VswIInv'
<1>1. c.at # "input_done" /\ vcall[t].at # "input_done" /\ c.at # "finalize_done"
  BY DEF LockLabels
<1>2. Starting(vcall[t].d) \in BOOLEAN
  BY DEF Starting
<1>3. Starting(vcall[t].d) <=> c.at = "input_done" \/ OthersStart(t, vcall[t].d)
  BY <1>1 DEF Starting, OthersStart
<1>4. LeavesOthers(t, r) /\ (c.at \in LockLabels => r.in_lock = t) /\ (c.at = "finalize_done" => r.held = <<>>)
  BY <1>1 DEF LeavesOthers
<1>5. QED
  BY <1>2, <1>3, <1>4, VswSameRefs

\* The next program counter of a call in progress.
LEMMA VswGoto ==
  ASSUME VswIInv, NEW t \in VswThreads, vcall[t].at # "idle", NEW pc \in VswLabels, Goto(t, pc),
         NEW c, c = [vcall[t] EXCEPT !.at = pc]
  PROVE  c \in VswCallRecs /\ c.at = pc /\ c.d = vcall[t].d /\ c.handle = vcall[t].handle /\ vcall' = [vcall EXCEPT ![t] = c]
<1>1. vcall[t] \in VswCallRecs /\ vcall \in [VswThreads -> VswCallRecs]
  BY VswCallFacts
<1>2. QED
  BY <1>1 DEF Goto, VswCallRecs

\* The same, by program counter.
LEMMA VswHeldGoto ==
  ASSUME VswIInv, NEW t \in VswThreads, NEW pc \in VswLabels, Goto(t, pc), NEW r \in VswRecs, NEW l \in VswLogs,
         vcall[t].at \in LockLabels, pc # "idle", vsw' = [vsw EXCEPT ![vcall[t].d] = r],
         vsw_log' = [vsw_log EXCEPT ![vcall[t].d] = l], g_decoders' = g_decoders,
         r.refs = vsw[vcall[t].d].refs, r.alive = vsw[vcall[t].d].alive,
         pc \in LockLabels => r.in_lock = t, pc = "finalize_done" => r.held = <<>>,
         StreamInv(r, l, pc = "input_done")
  PROVE  VswIInv'
<1> SUFFICES ASSUME NEW c, c = [vcall[t] EXCEPT !.at = pc] PROVE VswIInv'
  OBVIOUS
<1>1. vcall[t].at # "idle"
  BY VswHeldFacts
<1>2. c \in VswCallRecs /\ c.at = pc /\ c.d = vcall[t].d /\ c.handle = vcall[t].handle /\ vcall' = [vcall EXCEPT ![t] = c]
  BY <1>1, VswGoto
<1>3. StreamInv(r, l, c.at = "input_done")
  BY <1>2, Zenon
<1>4. QED
  BY <1>2, <1>3, VswHeld

LEMMA VswSharedGoto ==
  ASSUME VswIInv, NEW t \in VswThreads, NEW pc \in VswLabels, Goto(t, pc), NEW r \in VswRecs, NEW l \in VswLogs,
         vcall[t].at # "idle", vcall[t].at \notin LockLabels, pc # "idle", pc \notin LockLabels,
         vsw' = [vsw EXCEPT ![vcall[t].d] = r], vsw_log' = [vsw_log EXCEPT ![vcall[t].d] = l], g_decoders' = g_decoders,
         r.refs = vsw[vcall[t].d].refs, r.alive = vsw[vcall[t].d].alive,
         r.in_lock = vsw[vcall[t].d].in_lock, r.held = vsw[vcall[t].d].held,
         StreamInv(r, l, Starting(vcall[t].d))
  PROVE  VswIInv'
<1> SUFFICES ASSUME NEW c, c = [vcall[t] EXCEPT !.at = pc] PROVE VswIInv'
  OBVIOUS
<1>1. c \in VswCallRecs /\ c.at = pc /\ c.d = vcall[t].d /\ c.handle = vcall[t].handle /\ vcall' = [vcall EXCEPT ![t] = c]
  BY VswGoto
<1>2. QED
  BY <1>1, VswShared

\* in_lock is taken: no other call of the decoder is at work in its core.
LEMMA VswLockKeeps ==
  ASSUME VswIInv, NEW t \in VswThreads, NEW fn \in {"reset", "input", "finalize"}, lock_input(t, fn)
  PROVE  VswIInv'
<1> SUFFICES ASSUME NEW i, i = vcall[t].d, NEW pc, pc = [reset |-> "reset_locked", input |-> "input_locked", finalize |-> "finalize_locked"][fn],
                    NEW c, c = [vcall[t] EXCEPT !.at = pc]
             PROVE  VswIInv'
  OBVIOUS
<1> DEFINE r == [vsw[i] EXCEPT !.in_lock = t]
<1>1. vcall[t].at = fn /\ vcall[t].at # "idle" /\ vcall[t].at \notin LockLabels /\ vsw[i].in_lock = 0 /\ g_decoders' = g_decoders
      /\ vsw' = [vsw EXCEPT ![i] = r] /\ vsw_log' = vsw_log /\ Goto(t, pc)
  BY DEF lock_input, At, D, Update, NoDecoder, LockLabels
<1>2. pc \in {"reset_locked", "input_locked", "finalize_locked"}
  OBVIOUS
<1>3. pc \in VswLabels /\ pc # "idle" /\ pc # "input_done" /\ pc # "finalize_done"
  BY <1>2 DEF VswLabels, LockLabels
<1>4. /\ vsw \in Seq(VswRecs) /\ vsw_log \in Seq(VswLogs) /\ i \in DOMAIN vsw /\ DOMAIN vsw_log = DOMAIN vsw
      /\ vsw[i] \in VswRecs /\ vsw_log[i] \in VswLogs /\ VswStream(i) /\ Starting(i) \in BOOLEAN
  BY <1>1, VswCallFacts
<1>5. r \in VswRecs /\ r.refs = vsw[i].refs /\ r.alive = vsw[i].alive /\ r.in_lock = t /\ r.units = vsw[i].units
      /\ r.held = vsw[i].held /\ r.queue = vsw[i].queue /\ r.done = vsw[i].done /\ r.finalized = vsw[i].finalized
  BY <1>4 DEF VswRecs
<1> HIDE DEF r
<1>6. vsw_log' = [vsw_log EXCEPT ![i] = vsw_log[i]]
  BY <1>1, <1>4
<1>7. StreamInv(r, vsw_log[i], Starting(i))
  <2>1. StreamStays(vsw[i], vsw_log[i], Starting(i), r)
    BY StreamSame
  <2>2. QED
    BY <1>4, <1>5, <2>1, Zenon DEF StreamStays, VswStream
<1>8. c \in VswCallRecs /\ c.at = pc /\ c.d = i /\ c.handle = vcall[t].handle /\ vcall' = [vcall EXCEPT ![t] = c]
  BY <1>1, <1>3, VswGoto
<1>9. \A u \in VswThreads : ~(vcall[u].d = i /\ vcall[u].at \in LockLabels)
  BY <1>1, VswAssumption DEF VswIInv, VswCallInv
<1>10. LeavesOthers(t, r)
  BY <1>9 DEF LeavesOthers
<1>11. Starting(i) <=> c.at = "input_done" \/ OthersStart(t, i)
  <2>1. "input_done" \in LockLabels
    BY DEF LockLabels
  <2>2. QED
    BY <1>3, <1>8, <1>9, <2>1 DEF Starting, OthersStart
<1>12. /\ c.at \in LockLabels => r.in_lock = t
       /\ c.at = "finalize_done" => r.held = <<>>
       /\ c.at # "idle" /\ c.d = vcall[t].d /\ c.handle = vcall[t].handle /\ c \in VswCallRecs
  BY <1>3, <1>5, <1>8
<1>13. vcall[t].at # "idle" /\ g_decoders' = g_decoders /\ vsw' = [vsw EXCEPT ![i] = r]
  BY <1>1
<1>14. vsw_log[i] \in VswLogs /\ Starting(i) \in BOOLEAN
  BY <1>4
<1>15. vcall' = [vcall EXCEPT ![t] = c] /\ r \in VswRecs /\ r.refs = vsw[i].refs /\ r.alive = vsw[i].alive
  BY <1>5, <1>8
<1>16. QED
  BY <1>6, <1>7, <1>10, <1>11, <1>12, <1>13, <1>14, <1>15, VswSameRefs

\* The completions of a decoder are taken.
LEMMA VswDoneEmptied ==
  ASSUME NEW d \in VswRecs, NEW x \in Seq(Nat),
         NEW r, r = [d EXCEPT !.done = x, !.have_output = FALSE, !.finalized = FALSE, !.ended = FALSE, !.in_lock = 0]
  PROVE  r \in VswRecs /\ r.refs = d.refs /\ r.alive = d.alive /\ r.units = d.units
         /\ r.held = d.held /\ r.queue = d.queue /\ r.done = x /\ ~r.finalized
  BY DEF VswRecs

\* A record read field by field.
LEMMA VswSeqs ==
  ASSUME NEW d \in VswRecs
  PROVE  d.held \in Seq(Nat) /\ d.queue \in Seq(Nat) /\ d.done \in Seq(Nat) /\ d.units \in Nat
         /\ Len(d.held) \in Nat /\ Len(d.queue) \in Nat /\ Len(d.done) \in Nat
<1>1. d.held \in Seq(Nat) /\ d.queue \in Seq(Nat) /\ d.done \in Seq(Nat) /\ d.units \in Nat
  BY DEF VswRecs
<1>2. QED
  BY <1>1

\* h264vt_reset drops what the core has; then the completions are reported.
LEMMA VswResetKeeps == ASSUME VswIInv, NEW t \in VswThreads, vdecsw_ResetDecoder(t) PROVE VswIInv'
<1> SUFFICES ASSUME NEW i, i = vcall[t].d PROVE VswIInv'
  OBVIOUS
<1>1. vcall[t].at \in {"reset_locked", "reset_done"}
  BY DEF vdecsw_ResetDecoder, At
<1>2. vcall[t].at \in LockLabels /\ (vcall[t].at = "input_done") = FALSE
  BY <1>1 DEF LockLabels
<1>3. vcall[t].at # "idle" /\ vsw[i].in_lock = t /\ StreamInv(vsw[i], vsw_log[i], FALSE)
  BY <1>2, VswHeldFacts, Zenon
<1>4. /\ vsw \in Seq(VswRecs) /\ vsw_log \in Seq(VswLogs) /\ i \in DOMAIN vsw /\ DOMAIN vsw_log = DOMAIN vsw
      /\ vsw[i] \in VswRecs /\ vsw_log[i] \in VswLogs
  BY <1>3, VswCallFacts
<1>5. CASE vcall[t].at = "reset_locked"
  <2> DEFINE r == [vsw[i] EXCEPT !.held = <<>>, !.queue = <<>>]
             l == [vsw_log[i] EXCEPT !.dropped = @ \cup Range(vsw[i].held \o vsw[i].queue)]
  <2>1. vsw' = [vsw EXCEPT ![i] = r] /\ vsw_log' = [vsw_log EXCEPT ![i] = l] /\ g_decoders' = g_decoders
        /\ Goto(t, "reset_done")
    BY <1>4, <1>5 DEF vdecsw_ResetDecoder, At, D, Update, Dropped
  <2>2. r \in VswRecs /\ r.refs = vsw[i].refs /\ r.alive = vsw[i].alive /\ r.in_lock = vsw[i].in_lock /\ r.units = vsw[i].units
        /\ r.held = <<>> /\ r.queue = <<>> /\ r.done = vsw[i].done /\ r.finalized = vsw[i].finalized
    <3>1. <<>> \in Seq(Nat)
      OBVIOUS
    <3>2. r = [vsw[i] EXCEPT !.held = <<>>, !.queue = <<>>]
      OBVIOUS
    <3>3. vsw[i] \in VswRecs
      BY <1>4
    <3> HIDE DEF r, l
    <3>4. QED
      BY <3>1, <3>2, <3>3 DEF VswRecs
  <2>3. vsw[i].held \in Seq(Nat) /\ vsw[i].queue \in Seq(Nat) /\ vsw_log[i].dropped \in SUBSET Nat
    BY <1>4 DEF VswRecs, VswLogs
  <2>4. Range(vsw[i].held \o vsw[i].queue) = Range(vsw[i].held) \cup Range(vsw[i].queue)
    BY <2>3, RangeCat
  <2>5. Range(vsw[i].held) \in SUBSET Nat /\ Range(vsw[i].queue) \in SUBSET Nat
    BY <2>3 DEF Range
  <2> DEFINE dropped == vsw_log[i].dropped \cup Range(vsw[i].held) \cup Range(vsw[i].queue)
  <2>6. l = [vsw_log[i] EXCEPT !.dropped = dropped]
    BY <2>4
  <2>7. dropped \in SUBSET Nat
    BY <2>3, <2>5
  <2>8. l \in VswLogs /\ l.reported = vsw_log[i].reported /\ l.pictures = vsw_log[i].pictures /\ l.stale = vsw_log[i].stale
        /\ l.dropped = dropped
    <3> HIDE DEF l, dropped
    <3> QED
      BY <1>4, <2>6, <2>7 DEF VswLogs
  <2> HIDE DEF r, l
  <2>9. StreamInv(r, l, FALSE)
    BY <1>3, <1>4, <2>2, <2>8, StreamReset
  <2>10. StreamInv(r, l, "reset_done" = "input_done")
    BY <2>9, Zenon
  <2>11. "reset_done" \in VswLabels /\ "reset_done" # "idle" /\ "reset_done" # "finalize_done"
    BY DEF VswLabels, LockLabels
  <2>12. QED
    BY <1>2, <1>3, <2>1, <2>2, <2>8, <2>10, <2>11, VswHeldGoto
<1>6. CASE vcall[t].at = "reset_done"
  <2> DEFINE done == vsw_log[i].reported \o vsw[i].done
             r == [vsw[i] EXCEPT !.done = <<>>, !.have_output = FALSE, !.finalized = FALSE, !.ended = FALSE, !.in_lock = 0]
             l == [vsw_log[i] EXCEPT !.reported = done]
  <2>1. vsw' = [vsw EXCEPT ![i] = r] /\ vsw_log' = [vsw_log EXCEPT ![i] = l] /\ g_decoders' = g_decoders
        /\ Goto(t, "release")
    BY <1>4, <1>6 DEF vdecsw_ResetDecoder, At, D, Update, NoDecoder
  <2>2. r \in VswRecs /\ r.refs = vsw[i].refs /\ r.alive = vsw[i].alive /\ r.units = vsw[i].units
        /\ r.held = vsw[i].held /\ r.queue = vsw[i].queue /\ r.done = <<>> /\ ~r.finalized
    <3>1. <<>> \in Seq(Nat)
      OBVIOUS
    <3>2. QED
      BY <1>4, <3>1, VswDoneEmptied, Zenon
  <2>3. vsw[i].done \in Seq(Nat) /\ vsw_log[i].reported \in Seq(Nat) /\ Len(vsw_log[i].reported) \in Nat
        /\ Consecutive(vsw_log[i].reported, 0) /\ Consecutive(vsw[i].done, Len(vsw_log[i].reported))
    BY <1>3, <1>4, StreamFacts DEF StreamInv
  <2>4. Consecutive(vsw[i].done, 0 + Len(vsw_log[i].reported))
    BY <2>3
  <2>5. done \in Seq(Nat) /\ Len(done) = Len(vsw_log[i].reported) + Len(vsw[i].done) /\ Consecutive(done, 0)
    BY <2>3, <2>4, RunCat
  <2> HIDE DEF done
  <2>6. l \in VswLogs /\ l.reported = done /\ l.pictures = vsw_log[i].pictures /\ l.stale = vsw_log[i].stale
        /\ l.dropped = vsw_log[i].dropped
    BY <1>4, <2>5 DEF VswLogs
  <2> HIDE DEF r, l
  <2>7. Consecutive(l.reported, 0) /\ Len(l.reported) = Len(vsw_log[i].reported) + Len(vsw[i].done)
    BY <2>5, <2>6, Zenon
  <2>8. StreamInv(r, l, FALSE)
    BY <1>3, <1>4, <2>2, <2>6, <2>7, StreamReported
  <2>9. StreamInv(r, l, "release" = "input_done")
    BY <2>8, Zenon
  <2>10. "release" \in VswLabels /\ "release" # "idle" /\ "release" # "finalize_done" /\ "release" \notin LockLabels
    BY DEF VswLabels, LockLabels
  <2>11. QED
    BY <1>2, <2>1, <2>2, <2>6, <2>9, <2>10, VswHeldGoto
<1>7. QED
  BY <1>1, <1>5, <1>6

\* The core hands over what it holds back; then the sequence is finalized.
LEMMA VswFinalizeKeeps == ASSUME VswIInv, NEW t \in VswThreads, vdecsw_FinalizeDecodeSequence(t) PROVE VswIInv'
<1> SUFFICES ASSUME NEW i, i = vcall[t].d PROVE VswIInv'
  OBVIOUS
<1>1. vcall[t].at \in {"finalize_locked", "finalize_done"}
  BY DEF vdecsw_FinalizeDecodeSequence, At
<1>2. vcall[t].at \in LockLabels /\ (vcall[t].at = "input_done") = FALSE
  BY <1>1 DEF LockLabels
<1>3. vcall[t].at # "idle" /\ vsw[i].in_lock = t /\ StreamInv(vsw[i], vsw_log[i], FALSE)
  BY <1>2, VswHeldFacts, Zenon
<1>4. /\ vsw \in Seq(VswRecs) /\ vsw_log \in Seq(VswLogs) /\ i \in DOMAIN vsw /\ DOMAIN vsw_log = DOMAIN vsw
      /\ vsw[i] \in VswRecs /\ vsw_log[i] \in VswLogs /\ VswCallInv(t)
  BY <1>3, VswCallFacts
<1>5. vsw_log' = vsw_log /\ vsw_log' = [vsw_log EXCEPT ![i] = vsw_log[i]] /\ g_decoders' = g_decoders
  BY <1>4 DEF vdecsw_FinalizeDecodeSequence
<1>6. CASE vcall[t].at = "finalize_locked"
  <2> DEFINE all == vsw[i].queue \o vsw[i].held
             r == [vsw[i] EXCEPT !.held = <<>>, !.queue = all]
  <2>1. vsw' = [vsw EXCEPT ![i] = r] /\ Goto(t, "finalize_done")
    BY <1>4, <1>6 DEF vdecsw_FinalizeDecodeSequence, At, D, Update
  <2>2. vsw[i].held \in Seq(Nat) /\ vsw[i].queue \in Seq(Nat) /\ vsw[i].units \in Nat
        /\ Len(vsw[i].held) \in Nat /\ Len(vsw[i].queue) \in Nat
    BY <1>4, VswSeqs, Zenon
  <2> SUFFICES ASSUME NEW u \in Nat, NEW h \in Nat, NEW q \in Nat, NEW base, vsw[i].units = u, Len(vsw[i].held) = h,
                      Len(vsw[i].queue) = q, base = u - h - q
               PROVE  VswIInv'
    BY <2>2
  <2>3. base \in Nat /\ Consecutive(vsw[i].queue, base) /\ Consecutive(vsw[i].held, base + Len(vsw[i].queue))
    BY <1>3 DEF StreamInv
  <2>4. all \in Seq(Nat) /\ Len(all) = Len(vsw[i].queue) + Len(vsw[i].held) /\ Consecutive(all, base)
    BY <2>2, <2>3, RunCat
  <2> HIDE DEF all
  <2>5. r \in VswRecs /\ r.refs = vsw[i].refs /\ r.alive = vsw[i].alive /\ r.in_lock = vsw[i].in_lock /\ r.units = vsw[i].units
        /\ r.held = <<>> /\ r.queue = all /\ r.done = vsw[i].done
    <3>1. <<>> \in Seq(Nat)
      OBVIOUS
    <3>2. r = [vsw[i] EXCEPT !.held = <<>>, !.queue = all] /\ all \in Seq(Nat)
      BY <2>4
    <3>3. vsw[i] \in VswRecs
      BY <1>4
    <3> HIDE DEF r
    <3>4. QED
      BY <3>1, <3>2, <3>3 DEF VswRecs
  <2> HIDE DEF r
  <2>6. Len(r.queue) = q + h /\ Consecutive(r.queue, base) /\ r.units = u
    BY <2>4, <2>5
  <2>7. StreamInv(r, vsw_log[i], FALSE)
    BY <1>3, <1>4, <2>5, <2>6, StreamFinal
  <2>8. StreamInv(r, vsw_log[i], "finalize_done" = "input_done")
    BY <2>7, Zenon
  <2>9. "finalize_done" \in VswLabels /\ "finalize_done" # "idle"
    BY DEF VswLabels, LockLabels
  <2>10. QED
    BY <1>2, <1>3, <1>4, <1>5, <2>1, <2>5, <2>8, <2>9, VswHeldGoto
<1>7. CASE vcall[t].at = "finalize_done"
  <2> DEFINE r == [vsw[i] EXCEPT !.finalized = TRUE, !.in_lock = 0]
  <2>1. vsw' = [vsw EXCEPT ![i] = r] /\ Goto(t, "release")
    BY <1>4, <1>7 DEF vdecsw_FinalizeDecodeSequence, At, D, Update, NoDecoder
  <2>2. r \in VswRecs /\ r.refs = vsw[i].refs /\ r.alive = vsw[i].alive /\ r.units = vsw[i].units
        /\ r.held = vsw[i].held /\ r.queue = vsw[i].queue /\ r.done = vsw[i].done /\ vsw[i].held = <<>>
    BY <1>4, <1>7 DEF VswRecs, VswCallInv
  <2> HIDE DEF r
  <2>3. StreamInv(r, vsw_log[i], FALSE)
    <3>1. StreamStays(vsw[i], vsw_log[i], FALSE, r)
      BY StreamSame
    <3>2. QED
      BY <1>3, <1>4, <2>2, <3>1, Zenon DEF StreamStays
  <2>4. StreamInv(r, vsw_log[i], "release" = "input_done")
    BY <2>3, Zenon
  <2>5. "release" \in VswLabels /\ "release" # "idle" /\ "release" # "finalize_done" /\ "release" \notin LockLabels
    BY DEF VswLabels, LockLabels
  <2>6. QED
    BY <1>2, <1>4, <1>5, <2>1, <2>2, <2>4, <2>5, VswHeldGoto
<1>8. QED
  BY <1>1, <1>6, <1>7

\* A step of the call that has in_lock which writes only its program counter.
LEMMA VswOnlyGoto ==
  ASSUME VswIInv, NEW t \in VswThreads, NEW pc \in VswLabels, Goto(t, pc), UNCHANGED <<vsw, g_decoders, vsw_log>>,
         vcall[t].at \in LockLabels, vcall[t].at # "input_done", pc \notin {"idle", "finalize_done", "input_done"}
  PROVE  VswIInv'
<1> SUFFICES ASSUME NEW i, i = vcall[t].d PROVE VswIInv'
  OBVIOUS
<1>1. (vcall[t].at = "input_done") = FALSE /\ (pc = "input_done") = FALSE
  OBVIOUS
<1>2. vcall[t].at # "idle" /\ vsw[i].in_lock = t /\ StreamInv(vsw[i], vsw_log[i], FALSE)
  BY <1>1, VswHeldFacts, Zenon
<1>3. /\ vsw \in Seq(VswRecs) /\ vsw_log \in Seq(VswLogs) /\ i \in DOMAIN vsw /\ DOMAIN vsw_log = DOMAIN vsw
      /\ vsw[i] \in VswRecs /\ vsw_log[i] \in VswLogs
  BY <1>2, VswCallFacts
<1>4. vsw' = [vsw EXCEPT ![i] = vsw[i]] /\ vsw_log' = [vsw_log EXCEPT ![i] = vsw_log[i]]
  BY <1>3
<1>5. StreamInv(vsw[i], vsw_log[i], pc = "input_done")
  BY <1>1, <1>2, Zenon
<1>6. vsw[i] \in VswRecs /\ vsw_log[i] \in VswLogs
  BY <1>3
<1>7. QED
  BY <1>2, <1>4, <1>5, <1>6, VswHeldGoto

\* A unit goes to the core: what it then has, and of that, with the first k
\* released, what it holds back and has queued.
CoreHas(d) == Append(d.held, d.units + 1)
HeldBack(d, k) == SubSeq(CoreHas(d), k + 1, Len(CoreHas(d)))
Queued(d, k) == d.queue \o SubSeq(CoreHas(d), 1, k)

\* What decoding a unit and releasing k pictures leaves.
DecodedRuns(d, log, u, h, q, base, b, n, k, c) ==
  d \in VswRecs /\ log \in VswLogs /\ StreamInv(d, log, FALSE) /\ u \in Nat /\ h \in Nat /\ q \in Nat
  /\ d.units = u /\ Len(d.held) = h /\ Len(d.queue) = q /\ base = u - h - q /\ b = base + q /\ n = h + 1 /\ k \in 0..n /\ c = b + k
  => /\ HeldBack(d, k) \in Seq(Nat) /\ Len(HeldBack(d, k)) = n - k /\ Consecutive(HeldBack(d, k), c)
     /\ Queued(d, k) \in Seq(Nat) /\ Len(Queued(d, k)) = q + k /\ Consecutive(Queued(d, k), base)
LEMMA RunsDecoded ==
  ASSUME NEW d, NEW log, NEW u, NEW h, NEW q, NEW base, NEW b, NEW n, NEW k, NEW c
  PROVE  DecodedRuns(d, log, u, h, q, base, b, n, k, c)
<1> SUFFICES ASSUME d \in VswRecs, log \in VswLogs, StreamInv(d, log, FALSE), u \in Nat, h \in Nat, q \in Nat,
                    d.units = u, Len(d.held) = h, Len(d.queue) = q, base = u - h - q, b = base + q, n = h + 1,
                    k \in 0..n, c = b + k
             PROVE  /\ HeldBack(d, k) \in Seq(Nat) /\ Len(HeldBack(d, k)) = n - k /\ Consecutive(HeldBack(d, k), c)
                    /\ Queued(d, k) \in Seq(Nat) /\ Len(Queued(d, k)) = q + k /\ Consecutive(Queued(d, k), base)
  BY DEF DecodedRuns
<1>1. d.held \in Seq(Nat) /\ d.queue \in Seq(Nat)
  BY StreamFacts
<1>2. base \in Nat /\ Consecutive(d.queue, base) /\ Consecutive(d.held, b)
  BY DEF StreamInv
<1>3. b \in Nat /\ u + 1 \in Nat /\ u + 1 = b + Len(d.held) + 1 /\ n \in Nat /\ k \in Nat /\ k + 1 \in Nat /\ k <= n
      /\ k + 1 <= n + 1 /\ k + 1 >= 1 /\ 1 >= 1 /\ 1 \in Nat /\ 1 <= k + 1 /\ n <= n
  BY <1>2
<1>4. CoreHas(d) \in Seq(Nat) /\ Len(CoreHas(d)) = n /\ Consecutive(CoreHas(d), b)
  <2>1. /\ Append(d.held, u + 1) \in Seq(Nat) /\ Len(Append(d.held, u + 1)) = Len(d.held) + 1
        /\ Consecutive(Append(d.held, u + 1), b)
    BY <1>1, <1>2, <1>3, RunAppend
  <2>2. CoreHas(d) = Append(d.held, u + 1)
    BY DEF CoreHas
  <2>3. CoreHas(d) \in Seq(Nat) /\ Len(CoreHas(d)) = Len(d.held) + 1 /\ Consecutive(CoreHas(d), b)
    BY <2>1, <2>2, Zenon
  <2>4. QED
    BY <2>3
<1> SUFFICES ASSUME NEW all \in Seq(Nat), all = CoreHas(d), NEW s \in Seq(Nat), s = d.queue
             PROVE  /\ HeldBack(d, k) \in Seq(Nat) /\ Len(HeldBack(d, k)) = n - k /\ Consecutive(HeldBack(d, k), c)
                    /\ Queued(d, k) \in Seq(Nat) /\ Len(Queued(d, k)) = q + k /\ Consecutive(Queued(d, k), base)
  BY <1>1, <1>4
<1>5. Len(all) = n /\ Consecutive(all, b) /\ Len(s) = q /\ Consecutive(s, base)
  BY <1>2, <1>4, Zenon
<1>6. SplitRuns(s, base, q, all, n, b, k, c)
  BY RunsSplit
<1>7. k \in 0..n /\ n \in Nat
  BY <1>3
<1> DEFINE x == SubSeq(all, k + 1, n)
           y == s \o SubSeq(all, 1, k)
<1>8. x \in Seq(Nat) /\ Len(x) = n - k /\ Consecutive(x, c) /\ y \in Seq(Nat) /\ Len(y) = q + k /\ Consecutive(y, base)
  BY <1>2, <1>5, <1>6, <1>7, Zenon DEF SplitRuns
<1>9. HeldBack(d, k) = x /\ Queued(d, k) = y
  BY <1>5, Zenon DEF HeldBack, Queued
<1> HIDE DEF x, y
<1>10. QED
  BY <1>8, <1>9, Zenon

\* Of decoder records.
LEMMA DecodeTypes ==
  ASSUME NEW d \in VswRecs, NEW log \in VswLogs, StreamInv(d, log, FALSE), NEW k \in 0..Len(d.held) + 1
  PROVE  HeldBack(d, k) \in Seq(Nat) /\ Queued(d, k) \in Seq(Nat)
<1>1. d.units \in Nat /\ Len(d.held) \in Nat /\ Len(d.queue) \in Nat
  BY StreamFacts
<1> SUFFICES ASSUME NEW u \in Nat, NEW h \in Nat, NEW q \in Nat, NEW base, NEW b, NEW c, NEW a,
                    d.units = u, Len(d.held) = h, Len(d.queue) = q, base = u - h - q, b = base + q, c = b + k, a = h + 1
             PROVE  HeldBack(d, k) \in Seq(Nat) /\ Queued(d, k) \in Seq(Nat)
  BY <1>1
<1>2. k \in 0..a
  OBVIOUS
<1>3. DecodedRuns(d, log, u, h, q, base, b, a, k, c)
  BY RunsDecoded
<1>4. QED
  BY <1>2, <1>3, Zenon DEF DecodedRuns

StreamDecodes(d, log, k, r) ==
  /\ d \in VswRecs /\ log \in VswLogs /\ StreamInv(d, log, FALSE) /\ k \in 0..Len(d.held) + 1
  /\ r \in VswRecs /\ r.units = d.units + 1 /\ r.done = d.done /\ r.held = HeldBack(d, k) /\ r.queue = Queued(d, k)
  => StreamInv(r, log, TRUE)
LEMMA DecodeStream == ASSUME NEW d, NEW log, NEW k, NEW r PROVE StreamDecodes(d, log, k, r)
<1> SUFFICES ASSUME d \in VswRecs, log \in VswLogs, StreamInv(d, log, FALSE), k \in 0..Len(d.held) + 1,
                    r \in VswRecs, r.units = d.units + 1, r.done = d.done, r.held = HeldBack(d, k), r.queue = Queued(d, k)
             PROVE  StreamInv(r, log, TRUE)
  BY DEF StreamDecodes
<1>1. Len(d.done) \in Nat /\ Len(log.reported) \in Nat /\ d.units \in Nat /\ Len(d.held) \in Nat /\ Len(d.queue) \in Nat
  BY StreamFacts
<1> SUFFICES ASSUME NEW n \in Nat, NEW m \in Nat, NEW u \in Nat, NEW h \in Nat, NEW q \in Nat, NEW base, NEW b, NEW c, NEW a,
                    Len(d.done) = n, Len(log.reported) = m, d.units = u, Len(d.held) = h, Len(d.queue) = q,
                    base = u - h - q, b = base + q, c = b + k, a = h + 1
             PROVE  StreamInv(r, log, TRUE)
  BY <1>1
<1>2. k \in 0..a
  OBVIOUS
<1>3. /\ HeldBack(d, k) \in Seq(Nat) /\ Len(HeldBack(d, k)) = a - k /\ Consecutive(HeldBack(d, k), c)
      /\ Queued(d, k) \in Seq(Nat) /\ Len(Queued(d, k)) = q + k /\ Consecutive(Queued(d, k), base)
  <2>1. DecodedRuns(d, log, u, h, q, base, b, a, k, c)
    BY RunsDecoded
  <2>2. QED
    BY <1>2, <2>1, Zenon DEF DecodedRuns
<1>4. Len(r.held) = a - k /\ Consecutive(r.held, c) /\ Len(r.queue) = q + k /\ Consecutive(r.queue, base)
  BY <1>3, Zenon
<1>5. Len(r.held) = h + 1 - k /\ Consecutive(r.held, base + q + k) /\ r.units = u + 1
  BY <1>4
<1>6. k \in 0..h + 1
  OBVIOUS
<1>7. QED
  BY <1>4, <1>5, <1>6, StreamDecode

\* The step of the call.
LEMMA VswDecodeKeeps ==
  ASSUME VswIInv, NEW t \in VswThreads, vcall[t].at = "input_decode", NEW i, i = vcall[t].d, NEW r \in VswRecs,
         r.refs = vsw[i].refs, r.alive = vsw[i].alive, r.in_lock = vsw[i].in_lock, StreamInv(r, vsw_log[i], TRUE),
         vsw' = [vsw EXCEPT ![i] = r], UNCHANGED <<g_decoders, vsw_log>>, Goto(t, "input_done")
  PROVE  VswIInv'
<1>1. vcall[t].at \in LockLabels /\ vcall[t].at # "idle"
  BY DEF LockLabels
<1>2. vsw[i].in_lock = t
  BY <1>1, VswHeldFacts
<1>3. /\ vsw_log \in Seq(VswLogs) /\ i \in DOMAIN vsw_log /\ vsw_log[i] \in VswLogs
  BY <1>1, VswCallFacts
<1>4. StreamInv(r, vsw_log[i], "input_done" = "input_done")
  BY Zenon
<1>5. "input_done" \in VswLabels /\ "input_done" # "idle" /\ "input_done" # "finalize_done"
  BY DEF VswLabels, LockLabels
<1>6. vsw_log' = [vsw_log EXCEPT ![i] = vsw_log[i]]
  BY <1>3
<1>7. r.in_lock = t
  BY <1>2
<1>8. vsw_log[i] \in VswLogs
  BY <1>3
<1>9. QED
  BY <1>1, <1>4, <1>5, <1>6, <1>7, <1>8, VswHeldGoto

\* The decoder with a unit more.
UnitAdded(d, n, x, y) == [d EXCEPT !.units = n, !.held = x, !.queue = y]
UnitAdds(d, r, n, x, y) ==
  /\ r \in VswRecs /\ r.refs = d.refs /\ r.alive = d.alive /\ r.in_lock = d.in_lock /\ r.units = n
  /\ r.held = x /\ r.queue = y /\ r.done = d.done
LEMMA VswUnitWritten ==
  ASSUME NEW d \in VswRecs, NEW n \in Nat, NEW x \in Seq(Nat), NEW y \in Seq(Nat)
  PROVE  UnitAdds(d, UnitAdded(d, n, x, y), n, x, y)
  BY DEF VswRecs, UnitAdded, UnitAdds

\* A unit is decoded; its completion is listed; a full pipeline refuses it.
LEMMA VswUnitKeeps ==
  ASSUME VswIInv, NEW t \in VswThreads, vcall[t].at = "input_decode", NEW i, i = vcall[t].d, NEW d, d = vsw[i],
         NEW k \in 0..Len(d.held) + 1,
         NEW r, r = UnitAdded(d, d.units + 1, HeldBack(d, k), Queued(d, k)),
         vsw' = [vsw EXCEPT ![i] = r], UNCHANGED <<g_decoders, vsw_log>>, Goto(t, "input_done")
  PROVE  VswIInv'
<1>1. vcall[t].at \in LockLabels /\ (vcall[t].at = "input_done") = FALSE /\ vcall[t].at # "idle"
  BY DEF LockLabels
<1>2. StreamInv(d, vsw_log[i], FALSE) /\ d \in VswRecs /\ vsw_log[i] \in VswLogs
  BY <1>1, VswHeldFacts, VswCallFacts, Zenon
<1>3. d.units \in Nat /\ d.units + 1 \in Nat
  <2>1. d.units \in Nat
    BY <1>2, VswSeqs, Zenon
  <2>2. \A n \in Nat : n + 1 \in Nat
    OBVIOUS
  <2>3. QED
    BY <2>1, <2>2, Zenon
<1>4. HeldBack(d, k) \in Seq(Nat) /\ Queued(d, k) \in Seq(Nat)
  BY <1>2, DecodeTypes
<1>5. r \in VswRecs /\ r.refs = d.refs /\ r.alive = d.alive /\ r.in_lock = d.in_lock /\ r.units = d.units + 1
       /\ r.held = HeldBack(d, k) /\ r.queue = Queued(d, k) /\ r.done = d.done
  <2>1. ASSUME NEW n \in Nat, NEW x \in Seq(Nat), NEW y \in Seq(Nat), r = UnitAdded(d, n, x, y)
        PROVE  r \in VswRecs /\ r.refs = d.refs /\ r.alive = d.alive /\ r.in_lock = d.in_lock /\ r.units = n
               /\ r.held = x /\ r.queue = y /\ r.done = d.done
    <3>1. d \in VswRecs
      BY <1>2
    <3>2. UnitAdds(d, UnitAdded(d, n, x, y), n, x, y)
      BY <3>1, VswUnitWritten, Zenon
    <3>3. QED
      BY <2>1, <3>2, Zenon DEF UnitAdds
  <2>2. QED
    BY <1>3, <1>4, <2>1, Zenon
<1>6. StreamInv(r, vsw_log[i], TRUE)
  <2>1. StreamDecodes(d, vsw_log[i], k, r)
    BY DecodeStream
  <2>2. QED
    BY <1>2, <1>5, <2>1, Zenon DEF StreamDecodes
<1>7. QED
  BY <1>5, <1>6, VswDecodeKeeps, Zenon

\* Its completion is listed, and the sequence goes on.
UnitListed(d, x) == [d EXCEPT !.finalized = FALSE, !.ended = FALSE, !.done = x]
LEMMA VswUnitListed ==
  ASSUME NEW d \in VswRecs, NEW x \in Seq(Nat)
  PROVE  /\ UnitListed(d, x) \in VswRecs /\ UnitListed(d, x).refs = d.refs /\ UnitListed(d, x).alive = d.alive
         /\ UnitListed(d, x).in_lock = d.in_lock /\ UnitListed(d, x).units = d.units /\ UnitListed(d, x).held = d.held
         /\ UnitListed(d, x).queue = d.queue /\ UnitListed(d, x).done = x /\ ~UnitListed(d, x).finalized
  BY DEF VswRecs, UnitListed

\* The completions with the unit's.
WithUnit(d) == Append(d.done, d.units)
LEMMA WithUnitIs ==
  ASSUME NEW d \in VswRecs, NEW log \in VswLogs, StreamInv(d, log, TRUE)
  PROVE  /\ WithUnit(d) \in Seq(Nat) /\ Len(WithUnit(d)) = Len(d.done) + 1 /\ Consecutive(WithUnit(d), Len(log.reported))
<1>1. d.done \in Seq(Nat) /\ d.units \in Nat /\ Len(log.reported) \in Nat
  BY StreamFacts
<1>2. Consecutive(d.done, Len(log.reported)) /\ Len(log.reported) + Len(d.done) = d.units - 1
  BY DEF StreamInv
<1>3. d.units = Len(log.reported) + Len(d.done) + 1
  <2>1. \A u, m, n \in Nat : m + n = u - 1 => u = m + n + 1
    OBVIOUS
  <2>2. Len(d.done) \in Nat
    BY <1>1
  <2>3. QED
    BY <1>1, <1>2, <2>1, <2>2
<1>4. QED
  BY <1>1, <1>2, <1>3, RunAppend DEF WithUnit

LEMMA VswListKeeps ==
  ASSUME VswIInv, NEW t \in VswThreads, vcall[t].at = "input_done", NEW i, i = vcall[t].d, NEW d, d = vsw[i],
         NEW r, r = UnitListed(d, WithUnit(d)),
         vsw' = [vsw EXCEPT ![i] = r], UNCHANGED <<g_decoders, vsw_log>>, Goto(t, "input_unlock")
  PROVE  VswIInv'
<1>1. vcall[t].at \in LockLabels /\ (vcall[t].at = "input_done") = TRUE /\ vcall[t].at # "idle"
  BY DEF LockLabels
<1>2. StreamInv(d, vsw_log[i], TRUE) /\ d \in VswRecs /\ vsw_log[i] \in VswLogs /\ d.in_lock = t
  BY <1>1, VswHeldFacts, VswCallFacts, Zenon
<1>3. WithUnit(d) \in Seq(Nat) /\ Len(WithUnit(d)) = Len(d.done) + 1 /\ Consecutive(WithUnit(d), Len(vsw_log[i].reported))
  BY <1>2, WithUnitIs, Zenon
<1>4. r \in VswRecs /\ r.refs = d.refs /\ r.alive = d.alive /\ r.in_lock = d.in_lock /\ r.units = d.units
       /\ r.held = d.held /\ r.queue = d.queue /\ r.done = WithUnit(d) /\ ~r.finalized
  BY <1>2, <1>3, VswUnitListed, ZenonT(40)
<1>5. StreamInv(r, vsw_log[i], FALSE)
  <2>1. Len(d.done) \in Nat /\ Len(vsw_log[i].reported) \in Nat /\ d.units \in Nat
    BY <1>2, StreamFacts
  <2>2. Len(r.done) = Len(d.done) + 1 /\ Consecutive(r.done, Len(vsw_log[i].reported))
    BY <1>3, <1>4, Zenon
  <2>3. StreamLists(d, vsw_log[i], r, d.units, Len(d.done), Len(vsw_log[i].reported))
    BY StreamDone
  <2>4. QED
    BY <1>2, <1>4, <2>1, <2>2, <2>3, Zenon DEF StreamLists
<1>6. StreamInv(r, vsw_log[i], "input_unlock" = "input_done")
  BY <1>5, Zenon
<1>7. "input_unlock" \in VswLabels /\ "input_unlock" # "idle" /\ "input_unlock" # "finalize_done"
  BY DEF VswLabels, LockLabels
<1>8. vsw_log' = [vsw_log EXCEPT ![i] = vsw_log[i]] /\ g_decoders' = g_decoders
  BY <1>1, VswCallFacts
<1>9. r.in_lock = t
  BY <1>2, <1>4
<1>10. QED
  BY <1>1, <1>2, <1>4, <1>6, <1>7, <1>8, <1>9, VswHeldGoto, Zenon

\* in_lock is let go.
InputUnlocked(d) == [d EXCEPT !.in_lock = NoDecoder]
LEMMA VswUnlockKeeps ==
  ASSUME VswIInv, NEW t \in VswThreads, vcall[t].at = "input_unlock", NEW i, i = vcall[t].d, NEW d, d = vsw[i],
         NEW r, r = InputUnlocked(d),
         vsw' = [vsw EXCEPT ![i] = r], UNCHANGED <<g_decoders, vsw_log>>, Goto(t, "release")
  PROVE  VswIInv'
<1>1. vcall[t].at \in LockLabels /\ (vcall[t].at = "input_done") = FALSE /\ vcall[t].at # "idle"
  BY DEF LockLabels
<1>2. StreamInv(d, vsw_log[i], FALSE) /\ d \in VswRecs /\ vsw_log[i] \in VswLogs
  BY <1>1, VswHeldFacts, VswCallFacts, Zenon
<1>3. r \in VswRecs /\ r.refs = d.refs /\ r.alive = d.alive /\ r.units = d.units
       /\ r.held = d.held /\ r.queue = d.queue /\ r.done = d.done /\ r.finalized = d.finalized
  BY <1>2 DEF VswRecs, NoDecoder, InputUnlocked
<1>4. StreamInv(r, vsw_log[i], FALSE)
  <2>1. StreamStays(d, vsw_log[i], FALSE, r)
    BY StreamSame
  <2>2. QED
    BY <1>2, <1>3, <2>1, Zenon DEF StreamStays
<1>5. StreamInv(r, vsw_log[i], "release" = "input_done")
  BY <1>4, Zenon
<1>6. "release" \in VswLabels /\ "release" # "idle" /\ "release" # "finalize_done" /\ "release" \notin LockLabels
  BY DEF VswLabels, LockLabels
<1>7. vsw_log' = [vsw_log EXCEPT ![i] = vsw_log[i]] /\ g_decoders' = g_decoders
  BY <1>1, VswCallFacts
<1>8. QED
  BY <1>1, <1>2, <1>3, <1>5, <1>6, <1>7, VswHeldGoto

\* Every step of the input call.
LEMMA VswInputKeeps == ASSUME VswIInv, NEW t \in VswThreads, vdecsw_SetDecodeInput(t) PROVE VswIInv'
<1> SUFFICES ASSUME NEW i, i = vcall[t].d, NEW d, d = vsw[i] PROVE VswIInv'
  OBVIOUS
<1>1. ASSUME At(t, "input_locked"), NEW pc \in {"input_unlock", "input_decode"}, Goto(t, pc), UNCHANGED <<vsw, g_decoders, vsw_log>>
      PROVE  VswIInv'
  BY <1>1, VswOnlyGoto DEF At, LockLabels, VswLabels
<1>2. ASSUME At(t, "input_decode"), Goto(t, "input_unlock"), UNCHANGED <<vsw, g_decoders, vsw_log>> PROVE VswIInv'
  BY <1>2, VswOnlyGoto DEF At, LockLabels, VswLabels
<1>3. ASSUME vcall[t].at = "input_decode", NEW k \in 0..Len(CoreHas(d)), UNCHANGED <<g_decoders, vsw_log>>, Goto(t, "input_done"),
             Update(t, UnitAdded(d, d.units + 1, HeldBack(d, k), Queued(d, k)))
      PROVE  VswIInv'
  <2>1. d \in VswRecs
    <3>1. vcall[t].at # "idle"
      BY <1>3
    <3>2. QED
      BY <3>1, VswCallFacts
  <2>2. Len(CoreHas(d)) = Len(d.held) + 1
    <3>1. d.held \in Seq(Nat) /\ d.units \in Nat
      BY <2>1, VswSeqs
    <3>2. d.units + 1 \in Nat
      BY <3>1
    <3>3. QED
      BY <3>1, <3>2 DEF CoreHas
  <2>3. k \in 0..Len(d.held) + 1
    BY <1>3, <2>2, Zenon
  <2>4. vsw' = [vsw EXCEPT ![i] = UnitAdded(d, d.units + 1, HeldBack(d, k), Queued(d, k))]
    BY <1>3, Zenon DEF Update
  <2>5. QED
    BY <1>3, <2>3, <2>4, VswUnitKeeps, Zenon
<1>4. ASSUME vcall[t].at = "input_done", UNCHANGED <<g_decoders, vsw_log>>, Goto(t, "input_unlock"),
             Update(t, UnitListed(d, WithUnit(d)))
      PROVE  VswIInv'
  <2>1. vsw' = [vsw EXCEPT ![i] = UnitListed(d, WithUnit(d))]
    BY <1>4, Zenon DEF Update
  <2>2. QED
    BY <1>4, <2>1, VswListKeeps, Zenon
<1>5. ASSUME vcall[t].at = "input_unlock", UNCHANGED <<g_decoders, vsw_log>>, Goto(t, "release"),
             Update(t, InputUnlocked(d))
      PROVE  VswIInv'
  <2>1. vsw' = [vsw EXCEPT ![i] = InputUnlocked(d)]
    BY <1>5, Zenon DEF Update
  <2>2. QED
    BY <1>5, <2>1, VswUnlockKeeps, Zenon
<1>6. \/ At(t, "input_locked") /\ (\E pc \in {"input_unlock", "input_decode"} : Goto(t, pc)) /\ UNCHANGED <<vsw, g_decoders, vsw_log>>
      \/ At(t, "input_decode") /\ (\E k \in 0..Len(CoreHas(d)) : Update(t, UnitAdded(d, d.units + 1, HeldBack(d, k), Queued(d, k))))
         /\ Goto(t, "input_done") /\ UNCHANGED <<g_decoders, vsw_log>>
      \/ At(t, "input_decode") /\ Goto(t, "input_unlock") /\ UNCHANGED <<vsw, g_decoders, vsw_log>>
      \/ At(t, "input_done") /\ Update(t, UnitListed(d, WithUnit(d))) /\ Goto(t, "input_unlock") /\ UNCHANGED <<g_decoders, vsw_log>>
      \/ At(t, "input_unlock") /\ Update(t, InputUnlocked(d)) /\ Goto(t, "release") /\ UNCHANGED <<g_decoders, vsw_log>>
  BY Zenon DEF vdecsw_SetDecodeInput, D, CoreHas, UnitAdded, HeldBack, Queued, UnitListed, WithUnit, InputUnlocked
<1>7. QED
  BY <1>1, <1>2, <1>3, <1>4, <1>5, <1>6, Zenon DEF At

\* The first completion that is done is reported.
InputSynced(d) == [d EXCEPT !.done = Tail(@)]
LogSynced(log, d) == [log EXCEPT !.reported = Append(@, Head(d.done))]
LEMMA VswInputSynced ==
  ASSUME NEW d \in VswRecs, Tail(d.done) \in Seq(Nat)
  PROVE  /\ InputSynced(d) \in VswRecs /\ InputSynced(d).refs = d.refs /\ InputSynced(d).alive = d.alive
         /\ InputSynced(d).in_lock = d.in_lock /\ InputSynced(d).units = d.units /\ InputSynced(d).held = d.held
         /\ InputSynced(d).queue = d.queue /\ InputSynced(d).done = Tail(d.done) /\ InputSynced(d).finalized = d.finalized
<1> SUFFICES ASSUME NEW x \in Seq(Nat), x = Tail(d.done), NEW r, r = [d EXCEPT !.done = x]
             PROVE  /\ r \in VswRecs /\ r.refs = d.refs /\ r.alive = d.alive
                    /\ r.in_lock = d.in_lock /\ r.units = d.units /\ r.held = d.held
                    /\ r.queue = d.queue /\ r.done = x /\ r.finalized = d.finalized
  BY Zenon DEF InputSynced
<1> HIDE DEF InputSynced
<1> QED
  BY DEF VswRecs

LEMMA VswLogSynced ==
  ASSUME NEW d, NEW log \in VswLogs, Append(log.reported, Head(d.done)) \in Seq(Nat)
  PROVE  /\ LogSynced(log, d) \in VswLogs /\ LogSynced(log, d).reported = Append(log.reported, Head(d.done))
         /\ LogSynced(log, d).pictures = log.pictures /\ LogSynced(log, d).stale = log.stale /\ LogSynced(log, d).dropped = log.dropped
<1> SUFFICES ASSUME NEW x \in Seq(Nat), x = Append(log.reported, Head(d.done)), NEW r, r = [log EXCEPT !.reported = x]
             PROVE  r \in VswLogs /\ r.reported = x /\ r.pictures = log.pictures /\ r.stale = log.stale /\ r.dropped = log.dropped
  BY Zenon DEF LogSynced
<1> QED
  BY DEF VswLogs

\* What is done and what is reported stay runs.
LEMMA SyncedRuns ==
  ASSUME NEW d \in VswRecs, NEW log \in VswLogs, NEW st \in BOOLEAN, StreamInv(d, log, st), d.done # <<>>
  PROVE  /\ Tail(d.done) \in Seq(Nat) /\ Len(Tail(d.done)) = Len(d.done) - 1
         /\ Consecutive(Tail(d.done), Len(log.reported) + 1)
         /\ Append(log.reported, Head(d.done)) \in Seq(Nat) /\ Len(Append(log.reported, Head(d.done))) = Len(log.reported) + 1
         /\ Consecutive(Append(log.reported, Head(d.done)), 0)
<1>1. d.done \in Seq(Nat) /\ log.reported \in Seq(Nat) /\ Len(log.reported) \in Nat
  BY StreamFacts
<1>2. Consecutive(log.reported, 0) /\ Consecutive(d.done, Len(log.reported))
  BY DEF StreamInv
<1>3. /\ Head(d.done) = Len(log.reported) + 1 /\ Tail(d.done) \in Seq(Nat) /\ Len(Tail(d.done)) = Len(d.done) - 1
      /\ Consecutive(Tail(d.done), Len(log.reported) + 1)
  BY <1>1, <1>2, RunTail
<1>4. Head(d.done) \in Nat /\ Head(d.done) = 0 + Len(log.reported) + 1 /\ 0 \in Nat
  BY <1>1, <1>3
<1>5. /\ Append(log.reported, Head(d.done)) \in Seq(Nat) /\ Len(Append(log.reported, Head(d.done))) = Len(log.reported) + 1
      /\ Consecutive(Append(log.reported, Head(d.done)), 0)
  <2>1. ASSUME NEW n \in Nat, n = 0 + Len(log.reported) + 1
        PROVE  /\ Append(log.reported, n) \in Seq(Nat) /\ Len(Append(log.reported, n)) = Len(log.reported) + 1
               /\ Consecutive(Append(log.reported, n), 0)
    BY <1>1, <1>2, <2>1, RunAppend
  <2>2. QED
    BY <1>4, <2>1, Zenon
<1>6. QED
  BY <1>3, <1>5, Zenon

LEMMA SyncedStream ==
  ASSUME NEW d \in VswRecs, NEW log \in VswLogs, NEW st \in BOOLEAN, StreamInv(d, log, st), d.done # <<>>
  PROVE  InputSynced(d) \in VswRecs /\ LogSynced(log, d) \in VswLogs /\ StreamInv(InputSynced(d), LogSynced(log, d), st)
<1>1. Tail(d.done) \in Seq(Nat) /\ Append(log.reported, Head(d.done)) \in Seq(Nat)
  BY SyncedRuns
<1> SUFFICES ASSUME NEW r, r = InputSynced(d), NEW l, l = LogSynced(log, d)
             PROVE  r \in VswRecs /\ l \in VswLogs /\ StreamInv(r, l, st)
  OBVIOUS
<1>2. /\ r \in VswRecs /\ r.units = d.units /\ r.held = d.held /\ r.queue = d.queue /\ r.done = Tail(d.done)
      /\ r.finalized = d.finalized
  BY <1>1, VswInputSynced
<1>3. /\ l \in VswLogs /\ l.reported = Append(log.reported, Head(d.done))
      /\ l.pictures = log.pictures /\ l.stale = log.stale /\ l.dropped = log.dropped
  BY <1>1, VswLogSynced
<1>4. Len(d.done) \in Nat /\ Len(log.reported) \in Nat
  BY StreamFacts
<1> SUFFICES ASSUME NEW n \in Nat, NEW m \in Nat, Len(d.done) = n, Len(log.reported) = m PROVE StreamInv(r, l, st)
  BY <1>2, <1>3, <1>4
<1>5. Len(r.done) = n - 1 /\ Consecutive(r.done, m + 1) /\ Len(l.reported) = m + 1 /\ Consecutive(l.reported, 0)
  BY <1>2, <1>3, SyncedRuns, Zenon
<1>6. QED
  BY <1>2, <1>3, <1>5, StreamSyncInput, Zenon

\* sceVdecswTrySyncDecodeInput.
LEMMA VswSyncInputKeeps == ASSUME VswIInv, NEW t \in VswThreads, vdecsw_TrySyncDecodeInput(t) PROVE VswIInv'
<1> SUFFICES ASSUME NEW i, i = vcall[t].d, NEW d, d = vsw[i], NEW log, log = vsw_log[i] PROVE VswIInv'
  OBVIOUS
<1>1. vcall[t].at = "sync_input" /\ Goto(t, "release") /\ g_decoders' = g_decoders
  BY DEF vdecsw_TrySyncDecodeInput, At
<1>2. vcall[t].at # "idle" /\ vcall[t].at \notin LockLabels /\ "release" \in VswLabels /\ "release" # "idle" /\ "release" \notin LockLabels
  BY <1>1 DEF LockLabels, VswLabels
<1>3. /\ vsw \in Seq(VswRecs) /\ vsw_log \in Seq(VswLogs) /\ i \in DOMAIN vsw /\ DOMAIN vsw_log = DOMAIN vsw
      /\ d \in VswRecs /\ log \in VswLogs /\ StreamInv(d, log, Starting(i)) /\ Starting(i) \in BOOLEAN
  BY <1>2, VswCallFacts DEF VswStream
<1>4. CASE d.done = <<>>
  <2>1. UNCHANGED <<vsw, vsw_log>>
    BY <1>4, Zenon DEF vdecsw_TrySyncDecodeInput, D
  <2>2. vsw' = [vsw EXCEPT ![i] = d] /\ vsw_log' = [vsw_log EXCEPT ![i] = log]
    BY <1>3, <2>1
  <2>3. QED
    BY <1>1, <1>2, <1>3, <2>2, VswSharedGoto
<1>5. CASE d.done # <<>>
  <2>1. vsw' = [vsw EXCEPT ![i] = InputSynced(d)] /\ vsw_log' = [vsw_log EXCEPT ![i].reported = Append(@, Head(d.done))]
    BY <1>5, Zenon DEF vdecsw_TrySyncDecodeInput, D, Update, InputSynced
  <2>2. vsw_log' = [vsw_log EXCEPT ![i] = LogSynced(log, d)]
    BY <2>1 DEF LogSynced
  <2>3. InputSynced(d) \in VswRecs /\ LogSynced(log, d) \in VswLogs /\ StreamInv(InputSynced(d), LogSynced(log, d), Starting(i))
    BY <1>3, <1>5, SyncedStream, Zenon
  <2>4. Tail(d.done) \in Seq(Nat)
    BY <1>3, <1>5, SyncedRuns
  <2>5. /\ InputSynced(d).refs = d.refs /\ InputSynced(d).alive = d.alive
        /\ InputSynced(d).in_lock = d.in_lock /\ InputSynced(d).held = d.held
    BY <1>3, <2>4, VswInputSynced, Zenon
  <2>6. QED
    BY <1>1, <1>2, <2>1, <2>2, <2>3, <2>5, VswSharedGoto, Zenon
<1>6. QED
  BY <1>4, <1>5

\* A buffer for the output, and its end.
OutputMark(d, have, ended) == [d EXCEPT !.have_output = have, !.ended = ended]
LEMMA VswMarkKeeps ==
  ASSUME VswIInv, NEW t \in VswThreads, vcall[t].at \in {"output", "sync_output"}, NEW i, i = vcall[t].d, NEW d, d = vsw[i],
         NEW have \in BOOLEAN, NEW ended \in BOOLEAN,
         vsw' = [vsw EXCEPT ![i] = OutputMark(d, have, ended)], UNCHANGED <<g_decoders, vsw_log>>, Goto(t, "release")
  PROVE  VswIInv'
<1>1. vcall[t].at # "idle" /\ vcall[t].at \notin LockLabels /\ "release" \in VswLabels /\ "release" # "idle" /\ "release" \notin LockLabels
  BY DEF LockLabels, VswLabels
<1>2. /\ vsw \in Seq(VswRecs) /\ vsw_log \in Seq(VswLogs) /\ i \in DOMAIN vsw /\ DOMAIN vsw_log = DOMAIN vsw
      /\ d \in VswRecs /\ vsw_log[i] \in VswLogs /\ StreamInv(d, vsw_log[i], Starting(i)) /\ Starting(i) \in BOOLEAN
  BY <1>1, VswCallFacts DEF VswStream
<1> SUFFICES ASSUME NEW r, r = OutputMark(d, have, ended) PROVE VswIInv'
  OBVIOUS
<1>3. r \in VswRecs /\ r.refs = d.refs /\ r.alive = d.alive /\ r.in_lock = d.in_lock /\ r.units = d.units
       /\ r.held = d.held /\ r.queue = d.queue /\ r.done = d.done /\ r.finalized = d.finalized
  BY <1>2 DEF VswRecs, OutputMark
<1>4. StreamInv(r, vsw_log[i], Starting(i))
  <2>1. StreamStays(d, vsw_log[i], Starting(i), r)
    BY StreamSame
  <2>2. QED
    BY <1>2, <1>3, <2>1, Zenon DEF StreamStays
<1>5. vsw_log' = [vsw_log EXCEPT ![i] = vsw_log[i]] /\ g_decoders' = g_decoders
  BY <1>2
<1>6. QED
  BY <1>1, <1>2, <1>3, <1>4, <1>5, VswSharedGoto, Zenon

\* sceVdecswSetDecodeOutput.
LEMMA VswSetOutputKeeps == ASSUME VswIInv, NEW t \in VswThreads, vdecsw_SetDecodeOutput(t) PROVE VswIInv'
<1> SUFFICES ASSUME NEW i, i = vcall[t].d, NEW d, d = vsw[i] PROVE VswIInv'
  OBVIOUS
<1>1. vcall[t].at = "output" /\ Goto(t, "release") /\ UNCHANGED <<g_decoders, vsw_log>>
  BY Zenon DEF vdecsw_SetDecodeOutput, At
<1>2. vsw' = [vsw EXCEPT ![i] = [d EXCEPT !.have_output = TRUE]]
  BY Zenon DEF vdecsw_SetDecodeOutput, D, Update
<1>3. d \in VswRecs
  BY <1>1, VswCallFacts
<1>4. OutputMark(d, TRUE, d.ended) = [d EXCEPT !.have_output = TRUE] /\ d.ended \in BOOLEAN
  BY <1>3 DEF VswRecs, OutputMark
<1>5. ASSUME NEW have \in BOOLEAN, NEW ended \in BOOLEAN, vsw' = [vsw EXCEPT ![i] = OutputMark(d, have, ended)] PROVE VswIInv'
  BY <1>1, <1>5, VswMarkKeeps
<1>6. vsw' = [vsw EXCEPT ![i] = OutputMark(d, TRUE, d.ended)]
  BY <1>2, <1>4, Zenon
<1>7. TRUE \in BOOLEAN
  OBVIOUS
<1>8. QED
  BY <1>4, <1>5, <1>6, <1>7, Zenon

\* The first picture is handed out.
OutputTaken(d, ended) == [d EXCEPT !.queue = Tail(@), !.have_output = FALSE, !.ended = ended]
LogShown(log, d, stale) == [log EXCEPT !.pictures = Append(@, Head(d.queue)), !.stale = stale]
LEMMA VswOutputTaken ==
  ASSUME NEW d \in VswRecs, Tail(d.queue) \in Seq(Nat), NEW ended \in BOOLEAN, NEW r, r = OutputTaken(d, ended)
  PROVE  /\ r \in VswRecs /\ r.refs = d.refs /\ r.alive = d.alive
         /\ r.in_lock = d.in_lock /\ r.units = d.units /\ r.held = d.held
         /\ r.queue = Tail(d.queue) /\ r.done = d.done /\ r.finalized = d.finalized
<1> SUFFICES ASSUME NEW x \in Seq(Nat), x = Tail(d.queue), r = [d EXCEPT !.queue = x, !.have_output = FALSE, !.ended = ended]
             PROVE  /\ r \in VswRecs /\ r.refs = d.refs /\ r.alive = d.alive
                    /\ r.in_lock = d.in_lock /\ r.units = d.units /\ r.held = d.held
                    /\ r.queue = x /\ r.done = d.done /\ r.finalized = d.finalized
  BY Zenon DEF OutputTaken
<1> QED
  BY DEF VswRecs

LogShows(d, log, l) ==
  log \in VswLogs /\ Append(log.pictures, Head(d.queue)) \in Seq(Nat) /\ l = LogShown(log, d, FALSE)
  => /\ l \in VswLogs /\ l.reported = log.reported /\ l.pictures = Append(log.pictures, Head(d.queue))
     /\ l.dropped = log.dropped /\ ~l.stale
LEMMA VswLogShown == ASSUME NEW d, NEW log, NEW l PROVE LogShows(d, log, l)
<1> SUFFICES ASSUME log \in VswLogs, Append(log.pictures, Head(d.queue)) \in Seq(Nat), l = LogShown(log, d, FALSE)
             PROVE  /\ l \in VswLogs /\ l.reported = log.reported /\ l.pictures = Append(log.pictures, Head(d.queue))
                    /\ l.dropped = log.dropped /\ ~l.stale
  BY Zenon DEF LogShows
<1> SUFFICES ASSUME NEW x \in Seq(Nat), x = Append(log.pictures, Head(d.queue)), l = [log EXCEPT !.pictures = x, !.stale = FALSE]
             PROVE  l \in VswLogs /\ l.reported = log.reported /\ l.pictures = x /\ l.dropped = log.dropped /\ ~l.stale
  BY Zenon DEF LogShown
<1> QED
  BY DEF VswLogs

\* The queue and the pictures shown after it.
LEMMA TakenRuns ==
  ASSUME NEW d \in VswRecs, NEW log \in VswLogs, StreamInv(d, log, FALSE), d.queue # <<>>,
         NEW base, base = d.units - Len(d.held) - Len(d.queue)
  PROVE  /\ Tail(d.queue) \in Seq(Nat) /\ Len(Tail(d.queue)) = Len(d.queue) - 1 /\ Len(d.queue) > 0
         /\ Consecutive(Tail(d.queue), base + 1) /\ Head(d.queue) = base + 1 /\ base + 1 \in Nat
<1>1. d.queue \in Seq(Nat)
  BY StreamFacts
<1>2. Consecutive(d.queue, base) /\ base \in Nat
  BY DEF StreamInv
<1>3. base + 1 \in Nat
  BY <1>2
<1>4. QED
  BY <1>1, <1>2, <1>3, RunTail

RunsOnIs(s, dropped, b, ps) ==
  /\ Range(s) \cup dropped = 1..b /\ (\A j, k \in DOMAIN s : j < k => s[j] < s[k]) /\ ps = Append(s, b + 1)
  /\ s \in Seq(Nat) /\ b \in Nat
  => Range(ps) \cup dropped = 1..(b + 1) /\ \A j, k \in DOMAIN ps : j < k => ps[j] < ps[k]
LEMMA RunsGoOn == ASSUME NEW s, NEW dropped, NEW b, NEW ps PROVE RunsOnIs(s, dropped, b, ps)
  BY RunsOn DEF RunsOnIs

LEMMA TakenShows ==
  ASSUME NEW d \in VswRecs, NEW log \in VswLogs, StreamInv(d, log, FALSE), d.queue # <<>>,
         NEW base, base = d.units - Len(d.held) - Len(d.queue), NEW ps, ps = Append(log.pictures, Head(d.queue))
  PROVE  /\ ps \in Seq(Nat) /\ Range(ps) \cup log.dropped = 1..(base + 1)
         /\ \A j, k \in DOMAIN ps : j < k => ps[j] < ps[k]
<1>1. log.pictures \in Seq(Nat)
  BY StreamFacts
<1>2. Range(log.pictures) \cup log.dropped = 1..base /\ base \in Nat
      /\ \A j, k \in DOMAIN log.pictures : j < k => log.pictures[j] < log.pictures[k]
  BY DEF StreamInv
<1>3. Head(d.queue) = base + 1 /\ base + 1 \in Nat
  BY TakenRuns
<1>4. ps = Append(log.pictures, base + 1)
  BY <1>3, Zenon
<1>5. ps \in Seq(Nat)
  <2>1. \A n \in Nat : Append(log.pictures, n) \in Seq(Nat)
    BY <1>1
  <2>2. QED
    BY <1>3, <1>4, <2>1, Zenon
<1>6. Range(ps) \cup log.dropped = 1..(base + 1) /\ \A j, k \in DOMAIN ps : j < k => ps[j] < ps[k]
  <2>1. RunsOnIs(log.pictures, log.dropped, base, ps)
    BY RunsGoOn, Zenon
  <2>2. QED
    BY <1>1, <1>2, <1>4, <2>1, Zenon DEF RunsOnIs
<1>7. QED
  BY <1>5, <1>6

StreamTakes(d, log, ended, r, l) ==
  /\ d \in VswRecs /\ log \in VswLogs /\ StreamInv(d, log, FALSE) /\ d.queue # <<>> /\ ended \in BOOLEAN
  /\ r = OutputTaken(d, ended) /\ l = LogShown(log, d, FALSE)
  => /\ r \in VswRecs /\ l \in VswLogs /\ StreamInv(r, l, FALSE)
     /\ r.refs = d.refs /\ r.alive = d.alive /\ r.in_lock = d.in_lock /\ r.held = d.held
LEMMA TakenStream == ASSUME NEW d, NEW log, NEW ended, NEW r, NEW l PROVE StreamTakes(d, log, ended, r, l)
<1> SUFFICES ASSUME d \in VswRecs, log \in VswLogs, StreamInv(d, log, FALSE), d.queue # <<>>, ended \in BOOLEAN,
                    r = OutputTaken(d, ended), l = LogShown(log, d, FALSE)
             PROVE  /\ r \in VswRecs /\ l \in VswLogs /\ StreamInv(r, l, FALSE)
                    /\ r.refs = d.refs /\ r.alive = d.alive /\ r.in_lock = d.in_lock /\ r.held = d.held
  BY Zenon DEF StreamTakes
<1>1. d.units \in Nat /\ Len(d.held) \in Nat /\ Len(d.queue) \in Nat
  BY StreamFacts
<1> SUFFICES ASSUME NEW u \in Nat, NEW h \in Nat, NEW q \in Nat, NEW base,
                    d.units = u, Len(d.held) = h, Len(d.queue) = q, base = u - h - q
             PROVE  /\ r \in VswRecs /\ l \in VswLogs /\ StreamInv(r, l, FALSE)
                    /\ r.refs = d.refs /\ r.alive = d.alive /\ r.in_lock = d.in_lock /\ r.held = d.held
  BY <1>1
<1>2. base = d.units - Len(d.held) - Len(d.queue)
  BY Zenon
<1>3. /\ Tail(d.queue) \in Seq(Nat) /\ Len(Tail(d.queue)) = Len(d.queue) - 1 /\ Len(d.queue) > 0
      /\ Consecutive(Tail(d.queue), base + 1)
  BY <1>2, TakenRuns, Zenon
<1>4. /\ Append(log.pictures, Head(d.queue)) \in Seq(Nat)
      /\ Range(Append(log.pictures, Head(d.queue))) \cup log.dropped = 1..(base + 1)
      /\ \A j, k \in DOMAIN Append(log.pictures, Head(d.queue)) :
           j < k => Append(log.pictures, Head(d.queue))[j] < Append(log.pictures, Head(d.queue))[k]
  BY <1>2, TakenShows, Zenon
<1>5. /\ r \in VswRecs /\ r.units = d.units /\ r.held = d.held /\ r.refs = d.refs /\ r.alive = d.alive /\ r.in_lock = d.in_lock
      /\ r.queue = Tail(d.queue) /\ r.done = d.done /\ r.finalized = d.finalized
  BY <1>3, VswOutputTaken, ZenonT(30)
<1>6. /\ l \in VswLogs /\ l.reported = log.reported /\ l.pictures = Append(log.pictures, Head(d.queue))
      /\ l.dropped = log.dropped /\ ~l.stale
  <2>1. LogShows(d, log, l)
    BY VswLogShown
  <2>2. QED
    BY <1>4, <2>1, Zenon DEF LogShows
<1>7. Len(r.queue) = q - 1 /\ Consecutive(r.queue, base + 1) /\ r.units = u /\ q > 0
  BY <1>3, <1>5, Zenon
<1>8. Range(l.pictures) \cup l.dropped = 1..(base + 1) /\ \A j, k \in DOMAIN l.pictures : j < k => l.pictures[j] < l.pictures[k]
  BY <1>4, <1>6, Zenon
<1>9. StreamInv(r, l, FALSE)
  BY <1>5, <1>6, <1>7, <1>8, StreamSyncOutput, Zenon
<1>10. QED
  BY <1>5, <1>6, <1>9

\* A picture is taken.
LEMMA VswTakenKeeps ==
  ASSUME VswIInv, NEW t \in VswThreads, NEW i, i = vcall[t].d, NEW d, d = vsw[i], NEW log, log = vsw_log[i], NEW ended \in BOOLEAN,
         vcall[t].at = "sync_output", Goto(t, "release"), g_decoders' = g_decoders, d.queue # <<>>, Starting(i) = FALSE,
         vsw' = [vsw EXCEPT ![i] = OutputTaken(d, ended)], vsw_log' = [vsw_log EXCEPT ![i] = LogShown(log, d, FALSE)]
  PROVE  VswIInv'
<1>1. vcall[t].at # "idle" /\ vcall[t].at \notin LockLabels /\ "release" \in VswLabels /\ "release" # "idle" /\ "release" \notin LockLabels
  BY DEF LockLabels, VswLabels
<1>2. d \in VswRecs /\ log \in VswLogs /\ StreamInv(d, log, Starting(i))
  BY <1>1, VswCallFacts DEF VswStream
<1>3. StreamInv(d, log, FALSE)
  BY <1>2, Zenon
<1> SUFFICES ASSUME NEW r, r = OutputTaken(d, ended), NEW l, l = LogShown(log, d, FALSE) PROVE VswIInv'
  OBVIOUS
<1>4. /\ r \in VswRecs /\ l \in VswLogs /\ StreamInv(r, l, FALSE)
      /\ r.refs = d.refs /\ r.alive = d.alive /\ r.in_lock = d.in_lock /\ r.held = d.held
  <2>1. StreamTakes(d, log, ended, r, l)
    BY TakenStream
  <2>2. QED
    BY <1>2, <1>3, <2>1, Zenon DEF StreamTakes
<1>5. StreamInv(r, l, Starting(i))
  BY <1>4, Zenon
<1>6. vsw' = [vsw EXCEPT ![i] = r] /\ vsw_log' = [vsw_log EXCEPT ![i] = l]
  BY Zenon
<1>7. QED
  BY <1>1, <1>4, <1>5, <1>6, VswSharedGoto, Zenon

\* sceVdecswTrySyncDecodeOutput: no input is between decoding and listing a unit.
LEMMA VswSyncOutputKeeps ==
  ASSUME ~VswOverlap, VswIInv, NEW t \in VswThreads, vdecsw_TrySyncDecodeOutput(t), UNCHANGED g_decoders
  PROVE  VswIInv'
<1> SUFFICES ASSUME NEW i, i = vcall[t].d, NEW d, d = vsw[i], NEW log, log = vsw_log[i] PROVE VswIInv'
  OBVIOUS
<1>1. vcall[t].at = "sync_output" /\ Goto(t, "release") /\ g_decoders' = g_decoders
  BY Zenon DEF vdecsw_TrySyncDecodeOutput, At
<1>2. vcall[t].at # "idle" /\ vcall[t].at \notin LockLabels /\ "release" \in VswLabels /\ "release" # "idle" /\ "release" \notin LockLabels
  BY <1>1 DEF LockLabels, VswLabels
<1>3. /\ vsw \in Seq(VswRecs) /\ vsw_log \in Seq(VswLogs) /\ i \in DOMAIN vsw /\ DOMAIN vsw_log = DOMAIN vsw
      /\ d \in VswRecs /\ log \in VswLogs /\ StreamInv(d, log, Starting(i)) /\ Starting(i) \in BOOLEAN
  BY <1>2, VswCallFacts DEF VswStream
<1>4. d.have_output \in BOOLEAN /\ d.ended \in BOOLEAN /\ d.finalized \in BOOLEAN
  BY <1>3 DEF VswRecs
<1>5. ASSUME Update(t, [d EXCEPT !.have_output = FALSE, !.ended = TRUE]), UNCHANGED vsw_log PROVE VswIInv'
  <2>1. vsw' = [vsw EXCEPT ![i] = OutputMark(d, FALSE, TRUE)]
    BY <1>5, Zenon DEF Update, OutputMark
  <2>2. QED
    BY <1>1, <1>5, <2>1, VswMarkKeeps
<1>6. ASSUME UNCHANGED <<vsw, vsw_log>> PROVE VswIInv'
  <2>1. vsw' = [vsw EXCEPT ![i] = d] /\ vsw_log' = [vsw_log EXCEPT ![i] = log]
    BY <1>3, <1>6
  <2>2. QED
    BY <1>1, <1>2, <1>3, <2>1, VswSharedGoto
<1>7. ASSUME d.queue # <<>>, ~Starting(i), NEW last, last = (d.finalized /\ Len(d.queue) = 1),
             Update(t, [d EXCEPT !.queue = Tail(@), !.have_output = FALSE, !.ended = @ \/ last]),
             vsw_log' = [vsw_log EXCEPT ![i].pictures = Append(@, Head(d.queue)),
                                        ![i].stale = @ \/ (last /\ (d.held # <<>> \/ Starting(i)))]
      PROVE  VswIInv'
  <2>1. Starting(i) = FALSE
    BY <1>3, <1>7
  <2>2. StreamInv(d, log, FALSE)
    BY <1>3, <2>1, Zenon
  <2>3. (d.finalized => d.held = <<>>) /\ ~log.stale
    BY <2>2, Zenon DEF StreamInv
  <2>4. (log.stale \/ (last /\ (d.held # <<>> \/ Starting(i)))) = FALSE
    <3>1. log.stale \in BOOLEAN
      BY <1>3 DEF VswLogs
    <3>2. last => d.finalized
      BY <1>7, Zenon
    <3>3. QED
      BY <1>7, <2>3, <3>2
  <2>5. vsw_log' = [vsw_log EXCEPT ![i] = [log EXCEPT !.pictures = Append(@, Head(d.queue)),
                                                      !.stale = @ \/ (last /\ (d.held # <<>> \/ Starting(i)))]]
    BY <1>3, <1>7
  <2>6. [log EXCEPT !.pictures = Append(@, Head(d.queue)), !.stale = @ \/ (last /\ (d.held # <<>> \/ Starting(i)))]
          = LogShown(log, d, FALSE)
    BY <2>4, Zenon DEF LogShown
  <2>7. vsw_log' = [vsw_log EXCEPT ![i] = LogShown(log, d, FALSE)]
    BY <2>5, <2>6, Zenon
  <2>8. ASSUME NEW ended \in BOOLEAN, vsw' = [vsw EXCEPT ![i] = OutputTaken(d, ended)] PROVE VswIInv'
    BY <1>1, <1>7, <2>1, <2>7, <2>8, VswTakenKeeps, Zenon
  <2>9. vsw' = [vsw EXCEPT ![i] = OutputTaken(d, d.ended \/ last)]
    BY <1>7, Zenon DEF Update, OutputTaken
  <2>10. (d.ended \/ last) \in BOOLEAN
    OBVIOUS
  <2>11. QED
    BY <2>8, <2>9, <2>10
<1>8. \/ Update(t, [d EXCEPT !.have_output = FALSE, !.ended = TRUE]) /\ UNCHANGED vsw_log
      \/ UNCHANGED <<vsw, vsw_log>>
      \/ /\ d.queue # <<>> /\ ~Starting(i)
         /\ Update(t, [d EXCEPT !.queue = Tail(@), !.have_output = FALSE, !.ended = @ \/ (d.finalized /\ Len(d.queue) = 1)])
         /\ vsw_log' = [vsw_log EXCEPT ![i].pictures = Append(@, Head(d.queue)),
                          ![i].stale = @ \/ ((d.finalized /\ Len(d.queue) = 1) /\ (d.held # <<>> \/ Starting(i)))]
  BY Zenon DEF vdecsw_TrySyncDecodeOutput, D
<1>9. QED
  BY <1>5, <1>6, <1>7, <1>8, Zenon

\* The references of a decoder before and after a step in which one slot, or
\* one call, changes.
LEMMA VswSlotCount ==
  ASSUME NEW i, NEW s \in VswSlots, \A x \in VswSlots \ {s} : g_decoders'[x] = g_decoders[x]
  PROVE  /\ Cardinality(VswSlotsOf(i)) \in Nat /\ Cardinality(VswSlotsOf(i)') \in Nat
         /\ Cardinality(VswSlotsOf(i)') = Cardinality(VswSlotsOf(i)) + (IF g_decoders'[s] = i THEN 1 ELSE 0)
                                        - (IF g_decoders[s] = i THEN 1 ELSE 0)
<1>1. VswSlotsOf(i) \in SUBSET VswSlots /\ VswSlotsOf(i)' \in SUBSET VswSlots /\ VswSlotsOf(i) \ {s} = VswSlotsOf(i)' \ {s}
      /\ (s \in VswSlotsOf(i) <=> g_decoders[s] = i) /\ (s \in VswSlotsOf(i)' <=> g_decoders'[s] = i)
  BY DEF VswSlotsOf
<1>2. \A A, B : A \in SUBSET VswSlots /\ B \in SUBSET VswSlots /\ A \ {s} = B \ {s} =>
        /\ Cardinality(A) \in Nat /\ Cardinality(B) \in Nat
        /\ Cardinality(B) = Cardinality(A) + (IF s \in B THEN 1 ELSE 0) - (IF s \in A THEN 1 ELSE 0)
  BY VswFin, CountOne DEF VswFinite
<1>3. QED
  BY <1>1, <1>2

LEMMA VswCallCount ==
  ASSUME NEW i, NEW t \in VswThreads, \A u \in VswThreads \ {t} : vcall'[u] = vcall[u]
  PROVE  /\ Cardinality(VswCallsOf(i)) \in Nat /\ Cardinality(VswCallsOf(i)') \in Nat
         /\ Cardinality(VswCallsOf(i)') = Cardinality(VswCallsOf(i)) + (IF vcall'[t].d = i THEN 1 ELSE 0)
                                        - (IF vcall[t].d = i THEN 1 ELSE 0)
         /\ (Cardinality(VswCallsOf(i)') > 0 <=> VswCallsOf(i)' # {})
<1>1. VswCallsOf(i) \in SUBSET VswThreads /\ VswCallsOf(i)' \in SUBSET VswThreads /\ VswCallsOf(i) \ {t} = VswCallsOf(i)' \ {t}
      /\ (t \in VswCallsOf(i) <=> vcall[t].d = i) /\ (t \in VswCallsOf(i)' <=> vcall'[t].d = i)
  BY DEF VswCallsOf
<1>2. \A A, B : A \in SUBSET VswThreads /\ B \in SUBSET VswThreads /\ A \ {t} = B \ {t} =>
        /\ Cardinality(A) \in Nat /\ Cardinality(B) \in Nat
        /\ Cardinality(B) = Cardinality(A) + (IF t \in B THEN 1 ELSE 0) - (IF t \in A THEN 1 ELSE 0)
  BY VswFin, CountOne DEF VswFinite
<1>3. Cardinality(VswCallsOf(i)') > 0 <=> VswCallsOf(i)' # {}
  BY <1>1, CountSome, VswFin DEF VswFinite
<1>4. QED
  BY <1>1, <1>2, <1>3

\* A new decoder has nothing yet.
LEMMA VswFresh ==
  /\ FreshVdecsw \in VswRecs /\ FreshVdecsw.units = 0 /\ FreshVdecsw.held = <<>> /\ FreshVdecsw.queue = <<>>
  /\ FreshVdecsw.done = <<>> /\ FreshVdecsw.refs = 1 /\ FreshVdecsw.alive = TRUE /\ FreshVdecsw.in_lock = 0
<1>1. <<>> \in Seq(Nat)
  OBVIOUS
<1>2. ASSUME NEW x \in Seq(Nat), NEW f, f = [alive |-> TRUE, refs |-> 1, in_lock |-> 0, done |-> x, held |-> x, queue |-> x,
                   have_output |-> FALSE, finalized |-> FALSE, ended |-> FALSE, units |-> 0]
      PROVE  f \in VswRecs /\ f.units = 0 /\ f.held = x /\ f.queue = x /\ f.done = x /\ f.refs = 1 /\ f.alive = TRUE /\ f.in_lock = 0
  BY <1>2 DEF VswRecs
<1>3. QED
  BY <1>1, <1>2, Zenon DEF FreshVdecsw, NoDecoder

\* The last reference frees the decoder, and no other call has it.
Released(d) == [d EXCEPT !.refs = @ - 1]
Freed == [FreshVdecsw EXCEPT !.refs = 0, !.alive = FALSE]
LEMMA VswReleased ==
  ASSUME NEW d \in VswRecs, d.refs - 1 \in Nat
  PROVE  /\ Released(d) \in VswRecs /\ Released(d).refs = d.refs - 1 /\ Released(d).alive = d.alive
         /\ Released(d).in_lock = d.in_lock /\ Released(d).units = d.units /\ Released(d).held = d.held
         /\ Released(d).queue = d.queue /\ Released(d).done = d.done /\ Released(d).finalized = d.finalized
  BY DEF VswRecs, Released

LEMMA VswFreed ==
  /\ Freed \in VswRecs /\ Freed.refs = 0 /\ Freed.alive = FALSE /\ Freed.units = 0 /\ Freed.held = <<>>
  /\ Freed.queue = <<>> /\ Freed.done = <<>>
<1>1. /\ FreshVdecsw \in VswRecs /\ FreshVdecsw.units = 0 /\ FreshVdecsw.held = <<>> /\ FreshVdecsw.queue = <<>>
      /\ FreshVdecsw.done = <<>> /\ FreshVdecsw.refs = 1 /\ FreshVdecsw.alive = TRUE /\ FreshVdecsw.in_lock = 0
  BY VswFresh
<1>2. ASSUME NEW f \in VswRecs, NEW r, r = [f EXCEPT !.refs = 0, !.alive = FALSE]
      PROVE  r \in VswRecs /\ r.refs = 0 /\ r.alive = FALSE /\ r.units = f.units /\ r.held = f.held /\ r.queue = f.queue /\ r.done = f.done
  BY <1>2 DEF VswRecs
<1>3. QED
  BY <1>1, <1>2, Zenon DEF Freed

\* The call is over.
LEMMA VswEndCall ==
  ASSUME VswIInv, NEW t \in VswThreads, NEW i \in DOMAIN vsw, NEW r \in VswRecs, NEW l \in VswLogs,
         vcall[t].d = i, vcall' = [vcall EXCEPT ![t] = NoCall], vsw' = [vsw EXCEPT ![i] = r], vsw_log' = [vsw_log EXCEPT ![i] = l],
         g_decoders' = g_decoders,
         \A u \in VswThreads \ {t} : vcall[u].d = i /\ vcall[u].at \in LockLabels
            => r.in_lock = vsw[i].in_lock /\ r.held = vsw[i].held,
         VswRefInv(i)', VswStream(i)'
  PROVE  VswIInv'
<1> SUFFICES ASSUME NEW c \in VswCallRecs, c = NoCall, c.at = "idle", c.d = 0, c.handle = 0 PROVE VswIInv'
  <2>1. NoCall \in VswCallRecs /\ NoCall.at = "idle" /\ NoCall.d = 0 /\ NoCall.handle = 0
    BY DEF NoCall, VswCallRecs, VswLabels
  <2>2. QED
    BY <2>1, Zenon
<1>1. vcall' = [vcall EXCEPT ![t] = c]
  OBVIOUS
<1>2. g_decoders' \in [VswSlots -> 0..Len(vsw)] /\ vsw \in Seq(VswRecs) /\ vcall \in [VswThreads -> VswCallRecs]
  BY DEF VswIInv, VswTypes
<1>3. Len(vsw') \in Nat /\ vcall'[t] = c
  BY <1>1, <1>2
<1>4. VswCallInv(t)'
  BY <1>3 DEF VswCallInv, LockLabels
<1>5. \A s \in VswSlots : g_decoders'[s] # g_decoders[s] => g_decoders[s] = i /\ g_decoders'[s] = 0
  OBVIOUS
<1>6. vcall[t].d \in {0, i} /\ c.d \in {0, i}
  OBVIOUS
<1>7. g_decoders' \in [VswSlots -> 0..Len(vsw)]
  BY <1>2
<1>8. OneCall(t, i, c, r, l)
  BY <1>1, <1>4, <1>5, <1>6, <1>7, Zenon DEF OneCall
<1>9. QED
  BY <1>8, VswOneCall

\* vdecsw_release.
LEMMA VswReleaseKeeps == ASSUME VswIInv, NEW t \in VswThreads, vdecsw_release(t) PROVE VswIInv'
<1> SUFFICES ASSUME NEW i, i = vcall[t].d, NEW d, d = vsw[i], NEW log, log = vsw_log[i] PROVE VswIInv'
  OBVIOUS
<1>1. vcall[t].at = "release" /\ vcall[t].at # "idle" /\ vcall[t].at \notin LockLabels /\ g_decoders' = g_decoders
      /\ vcall' = [vcall EXCEPT ![t] = NoCall]
  BY DEF vdecsw_release, At, LockLabels
<1>2. /\ vsw \in Seq(VswRecs) /\ vsw_log \in Seq(VswLogs) /\ vcall \in [VswThreads -> VswCallRecs] /\ i \in DOMAIN vsw
      /\ DOMAIN vsw_log = DOMAIN vsw /\ d \in VswRecs /\ log \in VswLogs /\ VswRefInv(i) /\ StreamInv(d, log, Starting(i))
      /\ Starting(i) \in BOOLEAN
  BY <1>1, VswCallFacts DEF VswStream
<1>3. NoCall \in VswCallRecs /\ NoCall.at = "idle" /\ NoCall.d = 0 /\ NoCall.handle = 0
  BY DEF NoCall, VswCallRecs, VswLabels
<1>4. vcall'[t] = NoCall /\ \A u \in VswThreads \ {t} : vcall'[u] = vcall[u]
  BY <1>1, <1>2
<1>5. i # 0 /\ d.refs \in Nat /\ d.alive \in BOOLEAN
  <2>1. i # 0
    BY <1>1, VswCallFacts DEF VswCallInv
  <2>2. \A x \in VswRecs : x.refs \in Nat /\ x.alive \in BOOLEAN
    BY DEF VswRecs
  <2>3. QED
    BY <1>2, <2>1, <2>2
<1>6. /\ Cardinality(VswSlotsOf(i)) \in Nat /\ Cardinality(VswCallsOf(i)) \in Nat /\ Cardinality(VswCallsOf(i)') \in Nat
      /\ Cardinality(VswSlotsOf(i)') = Cardinality(VswSlotsOf(i))
      /\ Cardinality(VswCallsOf(i)') = Cardinality(VswCallsOf(i)) - 1
      /\ (Cardinality(VswCallsOf(i)') > 0 <=> VswCallsOf(i)' # {})
  <2>1. vcall'[t].d # i /\ vcall[t].d = i
    BY <1>3, <1>4, <1>5
  <2>2. VswSlotsOf(i)' = VswSlotsOf(i) /\ VswSlotsOf(i) \in SUBSET VswSlots
    BY <1>1 DEF VswSlotsOf
  <2>3. Cardinality(VswSlotsOf(i)') = Cardinality(VswSlotsOf(i))
    BY <2>2, Zenon
  <2>4. Cardinality(VswSlotsOf(i)) \in Nat
    BY <2>2, CountSome, VswFin DEF VswFinite
  <2>5. /\ Cardinality(VswCallsOf(i)) \in Nat /\ Cardinality(VswCallsOf(i)') \in Nat
        /\ Cardinality(VswCallsOf(i)') = Cardinality(VswCallsOf(i)) + (IF vcall'[t].d = i THEN 1 ELSE 0)
                                       - (IF vcall[t].d = i THEN 1 ELSE 0)
        /\ (Cardinality(VswCallsOf(i)') > 0 <=> VswCallsOf(i)' # {})
    BY <1>4, VswCallCount
  <2>6. Cardinality(VswCallsOf(i)') = Cardinality(VswCallsOf(i)) - 1
    BY <2>1, <2>5
  <2>7. QED
    BY <2>3, <2>4, <2>5, <2>6
<1>7. d.refs = Cardinality(VswSlotsOf(i)) + Cardinality(VswCallsOf(i)) /\ (d.alive <=> d.refs > 0)
  BY <1>2 DEF VswRefInv
<1>8. d.refs > 0
  BY <1>6, <1>7
<1>9. ASSUME NEW r \in VswRecs, vsw' = [vsw EXCEPT ![i] = r], r.refs = d.refs - 1, r.alive <=> r.refs > 0 PROVE VswRefInv(i)'
  <2>1. vsw'[i] = r
    BY <1>2, <1>9
  <2>2. r.refs = Cardinality(VswSlotsOf(i)') + Cardinality(VswCallsOf(i)')
    BY <1>6, <1>7, <1>9
  <2>3. QED
    BY <1>9, <2>1, <2>2 DEF VswRefInv
<1>13. CASE d.refs > 1
  <2>1. vsw' = [vsw EXCEPT ![i] = Released(d)] /\ vsw_log' = vsw_log
    BY <1>13, Zenon DEF vdecsw_release, D, Update, Released
  <2> SUFFICES ASSUME NEW r, r = Released(d) PROVE VswIInv'
    OBVIOUS
  <2>2. d.refs - 1 \in Nat /\ d.refs - 1 > 0
    BY <1>5, <1>13
  <2>3. r \in VswRecs /\ r.refs = d.refs - 1 /\ r.alive = d.alive /\ r.in_lock = d.in_lock /\ r.units = d.units
        /\ r.held = d.held /\ r.queue = d.queue /\ r.done = d.done /\ r.finalized = d.finalized
    BY <1>2, <2>2, VswReleased
  <2>4. vsw' = [vsw EXCEPT ![i] = r] /\ vsw_log' = [vsw_log EXCEPT ![i] = log]
    BY <1>2, <2>1
  <2>5. r.alive <=> r.refs > 0
    BY <1>7, <1>8, <2>2, <2>3
  <2>6. VswRefInv(i)'
    BY <1>9, <2>3, <2>4, <2>5
  <2>7. StreamInv(r, log, Starting(i))
    <3>1. StreamStays(d, log, Starting(i), r)
      BY StreamSame
    <3>2. QED
      BY <1>2, <2>3, <3>1, Zenon DEF StreamStays
  <2>8. Starting(i)' = Starting(i)
    <3>1. \A u \in VswThreads : vcall'[u].at = "input_done" /\ vcall'[u].d = i <=> vcall[u].at = "input_done" /\ vcall[u].d = i
      BY <1>1, <1>3, <1>4
    <3>2. QED
      BY <3>1 DEF Starting
  <2>9. vsw'[i] = r /\ vsw_log'[i] = log
    BY <1>2, <2>4
  <2>10. VswStream(i)'
    BY <2>7, <2>8, <2>9, Zenon DEF VswStream
  <2>11. \A u \in VswThreads \ {t} : vcall[u].d = i /\ vcall[u].at \in LockLabels
            => r.in_lock = vsw[i].in_lock /\ r.held = vsw[i].held
    BY <2>3
  <2>12. QED
    BY <1>1, <1>2, <2>3, <2>4, <2>6, <2>10, <2>11, VswEndCall
<1>14. CASE ~(d.refs > 1)
  <2>1. vsw' = [vsw EXCEPT ![i] = Freed] /\ vsw_log' = [vsw_log EXCEPT ![i] = NothingSeen]
    BY <1>14, Zenon DEF vdecsw_release, D, Update, Freed
  <2> SUFFICES ASSUME NEW r, r = Freed PROVE VswIInv'
    OBVIOUS
  <2>2. r \in VswRecs /\ r.refs = 0 /\ r.alive = FALSE /\ r.units = 0 /\ r.held = <<>> /\ r.queue = <<>> /\ r.done = <<>>
    BY VswFreed
  <2>3. d.refs = 1
    BY <1>5, <1>8, <1>14
  <2>4. vsw' = [vsw EXCEPT ![i] = r] /\ r.refs = d.refs - 1 /\ (r.alive <=> r.refs > 0)
    BY <2>1, <2>2, <2>3
  <2>5. VswRefInv(i)'
    BY <1>9, <2>2, <2>4
  <2>6. StreamInv(r, NothingSeen, FALSE) /\ NothingSeen \in VswLogs
    BY <2>2, StreamFresh
  <2>7. ASSUME NEW u \in VswThreads \ {t}, vcall[u].d = i PROVE FALSE
    <3>1. u \in VswCallsOf(i)'
      BY <1>4, <2>7 DEF VswCallsOf
    <3>2. Cardinality(VswCallsOf(i)') > 0
      BY <1>6, <3>1
    <3>3. Cardinality(VswSlotsOf(i)) + Cardinality(VswCallsOf(i)) = 1 /\ Cardinality(VswSlotsOf(i)) >= 0
      BY <1>6, <1>7, <2>3
    <3>4. QED
      BY <1>6, <3>2, <3>3
  <2>8. Starting(i)' = FALSE
    <3>1. \A u \in VswThreads : ~(vcall'[u].at = "input_done" /\ vcall'[u].d = i)
      BY <1>3, <1>4, <2>7
    <3>2. QED
      BY <3>1 DEF Starting
  <2>9. vsw'[i] = r /\ vsw_log'[i] = NothingSeen
    BY <1>2, <2>1, <2>4
  <2>10. VswStream(i)'
    BY <2>6, <2>8, <2>9, Zenon DEF VswStream
  <2>11. \A u \in VswThreads \ {t} : vcall[u].d = i /\ vcall[u].at \in LockLabels
            => r.in_lock = vsw[i].in_lock /\ r.held = vsw[i].held
    BY <2>7
  <2>12. vsw_log' = [vsw_log EXCEPT ![i] = NothingSeen]
    BY <2>1
  <2>13. QED
    BY <1>1, <1>2, <2>2, <2>4, <2>5, <2>6, <2>10, <2>11, <2>12, VswEndCall
<1>15. QED
  BY <1>13, <1>14

\* The table gives up its reference, if it has one; the call keeps its own.
Deleted(d, mine) == [d EXCEPT !.refs = IF mine THEN @ - 1 ELSE @]
DeletedFields(d, mine, r) ==
  /\ r \in VswRecs /\ (mine => r.refs = d.refs - 1) /\ (~mine => r.refs = d.refs) /\ r.alive = d.alive
  /\ r.in_lock = d.in_lock /\ r.units = d.units /\ r.held = d.held
  /\ r.queue = d.queue /\ r.done = d.done /\ r.finalized = d.finalized
LEMMA VswDeletedRec ==
  ASSUME NEW d \in VswRecs, NEW mine \in BOOLEAN, d.refs - 1 \in Nat
  PROVE  DeletedFields(d, mine, Deleted(d, mine))
<1>1. CASE mine
  BY <1>1 DEF VswRecs, Deleted, DeletedFields
<1>2. CASE ~mine
  BY <1>2 DEF VswRecs, Deleted, DeletedFields
<1>3. QED
  BY <1>1, <1>2

\* Its references are counted anew.
DeletedCounts(refs, refs1, slots, slots1, calls, calls1, mine) ==
  /\ slots = (IF mine THEN 1 ELSE 0) /\ slots1 = 0 /\ calls \in Nat /\ calls1 = calls /\ calls1 > 0
  /\ refs = slots + calls /\ (mine => refs1 = refs - 1) /\ (~mine => refs1 = refs)
  => refs1 = slots1 + calls1 /\ refs1 > 0
LEMMA VswDeletedCounts ==
  ASSUME NEW refs, NEW refs1, NEW slots, NEW slots1, NEW calls, NEW calls1, NEW mine \in BOOLEAN
  PROVE  DeletedCounts(refs, refs1, slots, slots1, calls, calls1, mine)
<1>1. CASE mine
  BY <1>1 DEF DeletedCounts
<1>2. CASE ~mine
  BY <1>2 DEF DeletedCounts
<1>3. QED
  BY <1>1, <1>2

\* sceVdecswDeleteDecoder.
LEMMA VswDeleteKeeps == ASSUME VswIInv, NEW t \in VswThreads, shim_sceVdecswDeleteDecoder(t) PROVE VswIInv'
<1> SUFFICES ASSUME NEW i, i = vcall[t].d, NEW d, d = vsw[i], NEW log, log = vsw_log[i], NEW mine \in BOOLEAN,
                    mine = (\E s \in VswSlots : g_decoders[s] = i)
             PROVE  VswIInv'
  OBVIOUS
<1>1. vcall[t].at = "delete" /\ Goto(t, "release") /\ vsw_log' = vsw_log
      /\ g_decoders' = [s \in VswSlots |-> IF g_decoders[s] = i THEN NoDecoder ELSE g_decoders[s]]
  BY DEF shim_sceVdecswDeleteDecoder, At
<1>2. vsw' = [vsw EXCEPT ![i] = Deleted(d, mine)]
  BY Zenon DEF shim_sceVdecswDeleteDecoder, Update, D, Deleted
<1>3. vcall[t].at # "idle" /\ vcall[t].at \notin LockLabels /\ "release" \in VswLabels /\ "release" # "idle" /\ "release" \notin LockLabels
  BY <1>1 DEF LockLabels, VswLabels
<1>4. /\ vsw \in Seq(VswRecs) /\ vsw_log \in Seq(VswLogs) /\ vcall \in [VswThreads -> VswCallRecs] /\ i \in DOMAIN vsw
      /\ DOMAIN vsw_log = DOMAIN vsw /\ d \in VswRecs /\ log \in VswLogs /\ VswRefInv(i) /\ VswCallInv(t)
      /\ Starting(i) \in BOOLEAN
  BY <1>3, VswCallFacts
<1>5. StreamInv(d, log, Starting(i)) /\ d.alive
  BY <1>3, VswCallFacts, VswAlive DEF VswStream
<1>6. i # 0 /\ d.refs \in Nat /\ d.refs > 0
  <2>1. \A x \in VswRecs : x.refs \in Nat
    BY DEF VswRecs
  <2>2. i # 0
    BY <1>3, <1>4 DEF VswCallInv
  <2>3. d.refs > 0
    BY <1>4, <1>5 DEF VswRefInv
  <2>4. QED
    BY <1>4, <2>1, <2>2, <2>3
<1> SUFFICES ASSUME NEW r, r = Deleted(d, mine), NEW c, c = [vcall[t] EXCEPT !.at = "release"] PROVE VswIInv'
  OBVIOUS
<1>7. c \in VswCallRecs /\ c.at = "release" /\ c.d = i /\ c.handle = vcall[t].handle /\ vcall' = [vcall EXCEPT ![t] = c]
  BY <1>1, <1>3, VswGoto
<1>8. d.refs - 1 \in Nat
  BY <1>6
<1>9. /\ r \in VswRecs /\ (mine => r.refs = d.refs - 1) /\ (~mine => r.refs = d.refs) /\ r.alive = d.alive
      /\ r.in_lock = d.in_lock /\ r.units = d.units /\ r.held = d.held
      /\ r.queue = d.queue /\ r.done = d.done /\ r.finalized = d.finalized
  <2>1. ASSUME NEW m \in BOOLEAN PROVE DeletedFields(d, m, Deleted(d, m))
    BY <1>4, <1>8, VswDeletedRec
  <2>2. DeletedFields(d, mine, r)
    BY <2>1
  <2>3. QED
    BY <2>2, Zenon DEF DeletedFields
<1>10. vsw' = [vsw EXCEPT ![i] = r]
  BY <1>2, Zenon
<1>11. vsw'[i] = r /\ vcall'[t] = c /\ Len(vsw') = Len(vsw) /\ \A u \in VswThreads \ {t} : vcall'[u] = vcall[u]
  BY <1>4, <1>7, <1>10
<1>12. vsw_log' = [vsw_log EXCEPT ![i] = log] /\ vsw_log'[i] = log
  BY <1>1, <1>4
<1>13. g_decoders \in [VswSlots -> 0..Len(vsw)] /\ Len(vsw) \in Nat
       /\ \A s, u \in VswSlots : g_decoders[s] = g_decoders[u] /\ g_decoders[s] # 0 => s = u
  BY <1>4 DEF VswIInv, VswTypes
<1>14. g_decoders' \in [VswSlots -> 0..Len(vsw)]
       /\ \A s \in VswSlots : g_decoders'[s] # g_decoders[s] => g_decoders[s] = i /\ g_decoders'[s] = 0
  BY <1>1, <1>13 DEF NoDecoder
<1>15. Cardinality(VswSlotsOf(i)) = (IF mine THEN 1 ELSE 0) /\ Cardinality(VswSlotsOf(i)') = 0
  <2>1. VswSlotsOf(i)' = {}
    BY <1>1, <1>6 DEF VswSlotsOf, NoDecoder
  <2>2. Cardinality(VswSlotsOf(i)') = Cardinality({})
    BY <2>1, Zenon
  <2>3. Cardinality(VswSlotsOf(i)') = 0
    BY <2>2, FS_EmptySet
  <2>4. ASSUME mine PROVE Cardinality(VswSlotsOf(i)) = 1
    <3>1. PICK s \in VswSlots : g_decoders[s] = i
      BY <2>4
    <3>2. VswSlotsOf(i) = {s}
      BY <1>6, <1>13, <3>1 DEF VswSlotsOf
    <3>3. Cardinality(VswSlotsOf(i)) = Cardinality({s})
      BY <3>2, Zenon
    <3>4. QED
      BY <3>3, FS_Singleton
  <2>5. ASSUME ~mine PROVE Cardinality(VswSlotsOf(i)) = 0
    <3>1. VswSlotsOf(i) = {}
      BY <2>5 DEF VswSlotsOf
    <3>2. Cardinality(VswSlotsOf(i)) = Cardinality({})
      BY <3>1, Zenon
    <3>3. QED
      BY <3>2, FS_EmptySet
  <2>6. QED
    BY <2>3, <2>4, <2>5
<1>16. Cardinality(VswCallsOf(i)) \in Nat /\ Cardinality(VswCallsOf(i)') = Cardinality(VswCallsOf(i)) /\ Cardinality(VswCallsOf(i)') > 0
  <2>1. vcall'[t].d = i /\ vcall[t].d = i
    BY <1>7, <1>11
  <2>2. VswCallsOf(i)' # {}
    BY <2>1 DEF VswCallsOf
  <2>3. /\ Cardinality(VswCallsOf(i)) \in Nat /\ Cardinality(VswCallsOf(i)') \in Nat
        /\ Cardinality(VswCallsOf(i)') = Cardinality(VswCallsOf(i)) + (IF vcall'[t].d = i THEN 1 ELSE 0)
                                       - (IF vcall[t].d = i THEN 1 ELSE 0)
        /\ (Cardinality(VswCallsOf(i)') > 0 <=> VswCallsOf(i)' # {})
    BY <1>11, VswCallCount
  <2>4. QED
    BY <2>1, <2>2, <2>3
<1>17. VswRefInv(i)'
  <2>1. d.refs = Cardinality(VswSlotsOf(i)) + Cardinality(VswCallsOf(i))
    BY <1>4 DEF VswRefInv
  <2>2. (mine => r.refs = d.refs - 1) /\ (~mine => r.refs = d.refs)
    BY <1>9
  <2>5. r.refs = Cardinality(VswSlotsOf(i)') + Cardinality(VswCallsOf(i)') /\ r.refs > 0
    <3>1. DeletedCounts(d.refs, r.refs, Cardinality(VswSlotsOf(i)), Cardinality(VswSlotsOf(i)'),
                        Cardinality(VswCallsOf(i)), Cardinality(VswCallsOf(i)'), mine)
      BY VswDeletedCounts
    <3>2. QED
      BY <1>15, <1>16, <2>1, <2>2, <3>1, Zenon DEF DeletedCounts
  <2>6. r.alive
    BY <1>5, <1>9
  <2>7. QED
    BY <1>11, <2>5, <2>6 DEF VswRefInv
<1>18. VswCallInv(t)'
  <2>1. c.d <= Len(vsw) /\ c.handle = c.d
    BY <1>4, <1>7 DEF VswCallInv
  <2>2. QED
    BY <1>3, <1>6, <1>7, <1>11, <2>1 DEF VswCallInv
<1>19. Starting(i)' = Starting(i)
  <2>1. \A u \in VswThreads : vcall'[u].at = "input_done" /\ vcall'[u].d = i <=> vcall[u].at = "input_done" /\ vcall[u].d = i
    BY <1>1, <1>7, <1>11
  <2>2. QED
    BY <2>1 DEF Starting
<1>20. VswStream(i)'
  <2>1. StreamInv(r, log, Starting(i))
    <3>1. StreamStays(d, log, Starting(i), r)
      BY StreamSame
    <3>2. QED
      BY <1>4, <1>5, <1>9, <3>1, Zenon DEF StreamStays
  <2>2. QED
    BY <1>11, <1>12, <1>19, <2>1, Zenon DEF VswStream
<1>21. OneCall(t, i, c, r, log)
  <2>1. vcall[t].d \in {0, i} /\ c.d \in {0, i}
    BY <1>7
  <2>2. \A u \in VswThreads \ {t} : vcall[u].d = i /\ vcall[u].at \in LockLabels => r.in_lock = vsw[i].in_lock /\ r.held = vsw[i].held
    BY <1>9
  <2>3. QED
    BY <1>7, <1>10, <1>12, <1>14, <1>17, <1>18, <1>20, <2>1, <2>2, Zenon DEF OneCall
<1>22. QED
  BY <1>4, <1>7, <1>9, <1>21, VswOneCall

\* A call finds the decoder of its handle and takes a reference.
Acquired(d) == [d EXCEPT !.refs = @ + 1]
LEMMA VswAcquiredRec ==
  ASSUME NEW d \in VswRecs, NEW r, r = Acquired(d)
  PROVE  /\ r \in VswRecs /\ r.refs = d.refs + 1 /\ r.alive = d.alive /\ d.refs \in Nat
         /\ r.in_lock = d.in_lock /\ r.units = d.units /\ r.held = d.held
         /\ r.queue = d.queue /\ r.done = d.done /\ r.finalized = d.finalized
<1>1. d.refs \in Nat /\ d.refs + 1 \in Nat
  BY DEF VswRecs
<1>2. QED
  BY <1>1 DEF VswRecs, Acquired

\* vdecsw_acquire.
LEMMA VswAcquireKeeps ==
  ASSUME VswIInv, NEW t \in VswThreads, vcall[t].at = "idle", NEW i \in DOMAIN vsw, NEW fn \in VswCalls,
         vdecsw_acquire(t, i, fn), UNCHANGED <<g_decoders, vsw_log>>
  PROVE  VswIInv'
<1> SUFFICES ASSUME NEW d, d = vsw[i], NEW log, log = vsw_log[i], NEW c, c = [at |-> fn, d |-> i, handle |-> i] PROVE VswIInv'
  OBVIOUS
<1>1. PICK s \in VswSlots : /\ g_decoders[s] = i /\ vcall' = [vcall EXCEPT ![t] = c]
                            /\ vsw' = [vsw EXCEPT ![i].refs = @ + 1]
  BY Zenon DEF vdecsw_acquire
<1>2. /\ vsw \in Seq(VswRecs) /\ vsw_log \in Seq(VswLogs) /\ Len(vsw_log) = Len(vsw) /\ vcall \in [VswThreads -> VswCallRecs]
      /\ g_decoders \in [VswSlots -> 0..Len(vsw)] /\ DOMAIN vsw = 1..Len(vsw) /\ Len(vsw) \in Nat /\ DOMAIN vsw_log = DOMAIN vsw
  BY DEF VswIInv, VswTypes
<1>3. d \in VswRecs /\ log \in VswLogs /\ VswRefInv(i) /\ VswCallInv(t) /\ i \in Nat /\ i # 0 /\ i <= Len(vsw)
  BY <1>2 DEF VswIInv
<1>4. StreamInv(d, log, Starting(i)) /\ Starting(i) \in BOOLEAN /\ vcall[t].d = 0
  BY <1>3 DEF VswIInv, VswStream, Starting, VswCallInv
<1>5. fn \in VswLabels /\ fn # "idle" /\ fn \notin LockLabels /\ fn # "input_done" /\ fn # "finalize_done"
  BY DEF VswCalls, VswLabels, LockLabels
<1>6. c \in VswCallRecs /\ c.at = fn /\ c.d = i /\ c.handle = i
  BY <1>3, <1>5 DEF VswCallRecs
<1> SUFFICES ASSUME NEW r, r = Acquired(d) PROVE VswIInv'
  OBVIOUS
<1>7. vsw' = [vsw EXCEPT ![i] = r]
  BY <1>1 DEF Acquired
<1>8. /\ r \in VswRecs /\ r.refs = d.refs + 1 /\ r.alive = d.alive /\ d.refs \in Nat
      /\ r.in_lock = d.in_lock /\ r.units = d.units /\ r.held = d.held
      /\ r.queue = d.queue /\ r.done = d.done /\ r.finalized = d.finalized
  BY <1>3, VswAcquiredRec
<1>9. vsw'[i] = r /\ Len(vsw') = Len(vsw)
  BY <1>2, <1>7
<1>10. vcall' = [vcall EXCEPT ![t] = c] /\ vcall'[t] = c /\ \A u \in VswThreads \ {t} : vcall'[u] = vcall[u]
  BY <1>1, <1>2
<1>11. vsw_log' = [vsw_log EXCEPT ![i] = log] /\ vsw_log'[i] = log
  BY <1>2
<1>12. VswSlotsOf(i)' = VswSlotsOf(i) /\ VswSlotsOf(i) # {} /\ VswSlotsOf(i) \in SUBSET VswSlots
  BY <1>1 DEF VswSlotsOf
<1>13. Cardinality(VswSlotsOf(i)') = Cardinality(VswSlotsOf(i)) /\ Cardinality(VswSlotsOf(i)) \in Nat /\ Cardinality(VswSlotsOf(i)) > 0
  <2>1. Cardinality(VswSlotsOf(i)') = Cardinality(VswSlotsOf(i))
    BY <1>12, Zenon
  <2>2. Cardinality(VswSlotsOf(i)) \in Nat /\ Cardinality(VswSlotsOf(i)) > 0
    BY <1>12, CountSome, VswFin DEF VswFinite
  <2>3. QED
    BY <2>1, <2>2
<1>14. Cardinality(VswCallsOf(i)) \in Nat /\ Cardinality(VswCallsOf(i)') = Cardinality(VswCallsOf(i)) + 1
  <2>1. vcall'[t].d = i /\ vcall[t].d # i
    BY <1>3, <1>4, <1>6, <1>10
  <2>2. /\ Cardinality(VswCallsOf(i)) \in Nat /\ Cardinality(VswCallsOf(i)') \in Nat
        /\ Cardinality(VswCallsOf(i)') = Cardinality(VswCallsOf(i)) + (IF vcall'[t].d = i THEN 1 ELSE 0)
                                       - (IF vcall[t].d = i THEN 1 ELSE 0)
    BY <1>10, VswCallCount
  <2>3. QED
    BY <2>1, <2>2
<1>15. VswRefInv(i)'
  <2>1. d.refs = Cardinality(VswSlotsOf(i)) + Cardinality(VswCallsOf(i)) /\ (d.alive <=> d.refs > 0)
    BY <1>3 DEF VswRefInv
  <2>2. r.refs = Cardinality(VswSlotsOf(i)') + Cardinality(VswCallsOf(i)')
    BY <1>8, <1>13, <1>14, <2>1
  <2>3. r.alive <=> r.refs > 0
    BY <1>8, <1>13, <1>14, <2>1
  <2>4. QED
    BY <1>9, <2>2, <2>3 DEF VswRefInv
<1>16. VswCallInv(t)'
  BY <1>3, <1>5, <1>6, <1>9, <1>10 DEF VswCallInv
<1>17. Starting(i)' = Starting(i)
  <2>1. \A u \in VswThreads : vcall'[u].at = "input_done" /\ vcall'[u].d = i <=> vcall[u].at = "input_done" /\ vcall[u].d = i
    BY <1>5, <1>6, <1>10
  <2>2. QED
    BY <2>1 DEF Starting
<1>18. VswStream(i)'
  <2>1. StreamInv(r, log, Starting(i))
    <3>1. StreamStays(d, log, Starting(i), r)
      BY StreamSame
    <3>2. QED
      BY <1>3, <1>4, <1>8, <3>1, Zenon DEF StreamStays
  <2>2. QED
    BY <1>9, <1>11, <1>17, <2>1, Zenon DEF VswStream
<1>19. OneCall(t, i, c, r, log)
  <2>1. vcall[t].d \in {0, i} /\ c.d \in {0, i}
    BY <1>4, <1>6
  <2>2. \A u \in VswThreads \ {t} : vcall[u].d = i /\ vcall[u].at \in LockLabels => r.in_lock = vsw[i].in_lock /\ r.held = vsw[i].held
    BY <1>8
  <2>3. g_decoders' \in [VswSlots -> 0..Len(vsw)]
        /\ \A x \in VswSlots : g_decoders'[x] # g_decoders[x] => g_decoders[x] = i /\ g_decoders'[x] = 0
    BY <1>2
  <2>4. QED
    BY <1>7, <1>10, <1>11, <1>15, <1>16, <1>18, <2>1, <2>2, <2>3, Zenon DEF OneCall
<1>20. QED
  BY <1>3, <1>6, <1>8, <1>19, VswOneCall

\* sceVdecswCreateDecoder.
LEMMA VswCreateKeeps == ASSUME VswIInv, NEW t \in VswThreads, shim_sceVdecswCreateDecoder(t) PROVE VswIInv'
<1> DEFINE free == {s \in VswSlots : g_decoders[s] = 0}
<1> SUFFICES ASSUME NEW m, m = Min(free), NEW n, n = Len(vsw) + 1, NEW r, r = FreshVdecsw, NEW l, l = NothingSeen PROVE VswIInv'
  OBVIOUS
<1>1. /\ vsw \in Seq(VswRecs) /\ vsw_log \in Seq(VswLogs) /\ Len(vsw_log) = Len(vsw) /\ vcall \in [VswThreads -> VswCallRecs]
      /\ g_decoders \in [VswSlots -> 0..Len(vsw)] /\ Len(vsw) \in Nat /\ DOMAIN vsw = 1..Len(vsw) /\ DOMAIN vsw_log = 1..Len(vsw)
  BY DEF VswIInv, VswTypes
<1>2. m \in free
  <2>1. free # {} /\ free \subseteq Nat
    BY VswFin DEF VswFinite, shim_sceVdecswCreateDecoder, NoDecoder
  <2> HIDE DEF free
  <2>2. QED
    BY <2>1, LeastOf
<1>3. m \in VswSlots /\ g_decoders[m] = 0
  BY <1>2
<1>4. vsw' = Append(vsw, r) /\ vsw_log' = Append(vsw_log, l) /\ g_decoders' = [g_decoders EXCEPT ![m] = n] /\ vcall' = vcall
  BY DEF shim_sceVdecswCreateDecoder, NoDecoder
<1> HIDE DEF free
<1>5. r \in VswRecs /\ r.units = 0 /\ r.held = <<>> /\ r.queue = <<>> /\ r.done = <<>> /\ r.refs = 1 /\ r.alive = TRUE
  BY VswFresh
<1>6. StreamInv(r, l, FALSE) /\ l \in VswLogs
  BY <1>5, StreamFresh
<1>7. vsw' \in Seq(VswRecs) /\ Len(vsw') = n /\ vsw'[n] = r /\ DOMAIN vsw' = DOMAIN vsw \cup {n} /\ n \notin DOMAIN vsw
      /\ n # 0 /\ \A j \in DOMAIN vsw : vsw'[j] = vsw[j]
  BY <1>1, <1>4, <1>5
<1>8. vsw_log' \in Seq(VswLogs) /\ Len(vsw_log') = n /\ vsw_log'[n] = l /\ \A j \in DOMAIN vsw : vsw_log'[j] = vsw_log[j]
  BY <1>1, <1>4, <1>6
<1>9. g_decoders' \in [VswSlots -> 0..n] /\ g_decoders'[m] = n /\ \A s \in VswSlots : s # m => g_decoders'[s] = g_decoders[s]
  BY <1>1, <1>3, <1>4
<1>10. VswTypes'
  BY <1>1, <1>4, <1>7, <1>8, <1>9 DEF VswTypes
<1>11. ASSUME NEW s \in VswSlots, NEW u \in VswSlots, g_decoders'[s] = g_decoders'[u], g_decoders'[s] # 0 PROVE s = u
  <2>1. \A x \in VswSlots : g_decoders[x] # n
    BY <1>1
  <2>2. CASE s = m \/ u = m
    BY <1>9, <1>11, <2>1, <2>2
  <2>3. CASE s # m /\ u # m
    <3>1. g_decoders'[s] = g_decoders[s] /\ g_decoders'[u] = g_decoders[u]
      BY <1>9, <2>3
    <3>2. QED
      BY <1>11, <3>1 DEF VswIInv
  <2>4. QED
    BY <2>2, <2>3
<1>12. ASSUME NEW u \in VswThreads PROVE VswCallInv(u)'
  <2>1. vcall'[u] = vcall[u] /\ VswCallInv(u) /\ vcall[u].d \in Nat
    BY <1>1, <1>4 DEF VswIInv, VswCallRecs
  <2>2. vcall[u].at = "idle" \/ vsw'[vcall[u].d] = vsw[vcall[u].d]
    BY <1>1, <1>7, <2>1 DEF VswCallInv
  <2>3. vcall[u].d <= n
    BY <1>1, <2>1 DEF VswCallInv
  <2>4. "idle" \notin LockLabels /\ "finalize_done" # "idle"
    BY DEF LockLabels
  <2>5. QED
    BY <1>7, <2>1, <2>2, <2>3, <2>4 DEF VswCallInv
<1>13. \A i : VswCallsOf(i)' = VswCallsOf(i)
  BY <1>4 DEF VswCallsOf
<1>14. \A i : Starting(i)' = Starting(i)
  BY <1>4 DEF Starting
<1>15. ASSUME NEW j \in DOMAIN vsw' PROVE VswRefInv(j)'
  <2>1. Cardinality(VswSlotsOf(j)) \in Nat
        /\ Cardinality(VswSlotsOf(j)') = Cardinality(VswSlotsOf(j)) + (IF n = j THEN 1 ELSE 0) - (IF 0 = j THEN 1 ELSE 0)
    BY <1>3, <1>9, VswSlotCount
  <2>2. j # 0
    BY <1>1, <1>7, <1>15
  <2>3. Cardinality(VswCallsOf(j)') = Cardinality(VswCallsOf(j))
    BY <1>13, Zenon
  <2>4. CASE j \in DOMAIN vsw
    <3>1. vsw'[j] = vsw[j] /\ VswRefInv(j) /\ j # n
      BY <1>7, <2>4 DEF VswIInv
    <3>2. Cardinality(VswSlotsOf(j)') = Cardinality(VswSlotsOf(j))
      BY <2>1, <2>2, <3>1
    <3>3. QED
      BY <2>3, <3>1, <3>2 DEF VswRefInv
  <2>5. CASE j = n
    <3>1. VswSlotsOf(n) = {} /\ VswCallsOf(n) = {}
      <4>1. \A s \in VswSlots : g_decoders[s] # n
        BY <1>1
      <4>2. \A u \in VswThreads : vcall[u].d # n
        BY <1>1 DEF VswIInv, VswCallInv, VswCallRecs
      <4>3. QED
        BY <4>1, <4>2 DEF VswSlotsOf, VswCallsOf
    <3>2. Cardinality(VswSlotsOf(n)) = 0 /\ Cardinality(VswCallsOf(n)) = 0
      BY <3>1, FS_EmptySet
    <3>3. vsw'[j].refs = 1 /\ vsw'[j].alive
      BY <1>5, <1>7, <2>5
    <3>4. QED
      BY <2>1, <2>2, <2>3, <2>5, <3>2, <3>3 DEF VswRefInv
  <2>6. QED
    BY <1>7, <1>15, <2>4, <2>5
<1>16. ASSUME NEW j \in DOMAIN vsw' PROVE VswStream(j)'
  <2>1. CASE j \in DOMAIN vsw
    <3>1. vsw'[j] = vsw[j] /\ vsw_log'[j] = vsw_log[j] /\ VswStream(j) /\ Starting(j)' = Starting(j)
      BY <1>7, <1>8, <1>14, <2>1 DEF VswIInv
    <3>2. QED
      BY <3>1, Zenon DEF VswStream
  <2>2. CASE j = n
    <3>1. \A u \in VswThreads : vcall[u].d # n
      BY <1>1 DEF VswIInv, VswCallInv, VswCallRecs
    <3>2. Starting(n)' = FALSE
      BY <1>14, <3>1 DEF Starting
    <3>3. vsw'[n] = r /\ vsw_log'[n] = l
      BY <1>7, <1>8
    <3>4. QED
      BY <1>6, <2>2, <3>2, <3>3, Zenon DEF VswStream
  <2>3. QED
    BY <1>7, <1>16, <2>1, <2>2
<1>17. QED
  BY <1>10, <1>11, <1>12, <1>15, <1>16 DEF VswIInv

\* Every step keeps the invariant.
LEMMA VswStepInv == ASSUME ~VswOverlap PROVE VswIInv /\ (VswNext \/ UNCHANGED vsw_vars) => VswIInv'
<1> SUFFICES ASSUME VswIInv, VswNext \/ UNCHANGED vsw_vars PROVE VswIInv'
  OBVIOUS
<1>1. CASE UNCHANGED <<vsw, g_decoders, vcall, vsw_log>>
  <2>1. \A i : Starting(i)' = Starting(i) /\ VswSlotsOf(i)' = VswSlotsOf(i) /\ VswCallsOf(i)' = VswCallsOf(i)
    BY <1>1 DEF Starting, VswSlotsOf, VswCallsOf
  <2>2. \A i : VswStream(i)' <=> VswStream(i)
    BY <1>1, <2>1, Zenon DEF VswStream
  <2>3. \A i : VswRefInv(i)' <=> VswRefInv(i)
    BY <1>1, <2>1, Zenon DEF VswRefInv
  <2>4. \A t : VswCallInv(t)' <=> VswCallInv(t)
    BY <1>1 DEF VswCallInv
  <2>5. VswTypes' <=> VswTypes
    BY <1>1 DEF VswTypes
  <2>6. QED
    BY <1>1, <2>2, <2>3, <2>4, <2>5 DEF VswIInv
<1>2. ASSUME NEW t \in VswThreads, begin_call(t) PROVE VswIInv'
  <2>1. vcall[t].at = "idle" /\ UNCHANGED <<g_decoders, vsw_log>>
        /\ \E h \in DOMAIN vsw, fn \in VswCalls : vdecsw_acquire(t, h, fn)
    BY <1>2 DEF begin_call
  <2>2. QED
    BY <2>1, VswAcquireKeeps
<1>3. ASSUME NEW t \in VswThreads, NEW fn \in {"reset", "input", "finalize"}, lock_input(t, fn) PROVE VswIInv'
  BY <1>3, VswLockKeeps
<1>4. ASSUME NEW t \in VswThreads, vdecsw_TrySyncDecodeOutput(t), UNCHANGED g_decoders PROVE VswIInv'
  BY <1>4, VswSyncOutputKeeps
<1>5. ASSUME NEW t \in VswThreads,
             \/ shim_sceVdecswCreateDecoder(t) \/ vdecsw_release(t) \/ shim_sceVdecswDeleteDecoder(t) \/ vdecsw_ResetDecoder(t)
             \/ vdecsw_SetDecodeInput(t) \/ vdecsw_TrySyncDecodeInput(t) \/ vdecsw_SetDecodeOutput(t)
             \/ vdecsw_FinalizeDecodeSequence(t)
      PROVE  VswIInv'
  BY <1>5, VswCreateKeeps, VswReleaseKeeps, VswDeleteKeeps, VswResetKeeps, VswInputKeeps, VswSyncInputKeeps,
     VswSetOutputKeeps, VswFinalizeKeeps
<1>6. CASE VswNext
  BY <1>2, <1>3, <1>4, <1>5, <1>6, Zenon DEF VswNext
<1>7. QED
  BY <1>1, <1>6 DEF vsw_vars

-----------------------------------------------------------------------------
(* The specification that TLC runs: a library the behaviour is not about   *)
(* does not move.                                                          *)

\* The invariants of the libraries hold always.
LEMMA RingInvariant == Spec => []RingIInv
<1>1. Init => RingIInv
  BY RingInitInv DEF Init
<1>2. RingIInv /\ [Next]_vars => RingIInv'
  <2>1. [Next]_vars => GnmRingNext \/ GnmIrqNext \/ UNCHANGED gnm_vars
    BY DEF Next, vars
  <2>2. QED
    BY <2>1, RingStepInv
<1>3. QED
  BY <1>1, <1>2, PTL DEF Spec

LEMMA VideoOutInvariant == ASSUME ~CloseBusy PROVE Spec => [](VoIInv /\ VoSole)
<1>1. Init => VoIInv /\ VoSole
  BY VoInitInv, VoSoleInit DEF Init
<1>2. VoIInv /\ VoSole /\ [Next]_vars => (VoIInv /\ VoSole)'
  <2>1. [Next]_vars => VoNext \/ VoVblankNext \/ UNCHANGED vo_vars
    BY DEF Next, vars
  <2>2. QED
    BY <2>1, VoStepInv, VoSoleStep
<1>3. QED
  BY <1>1, <1>2, PTL DEF Spec

LEMMA AjmInvariant == Spec => []AjmIInv
<1>1. Init => AjmIInv
  BY AjmInitInv DEF Init
<1>2. AjmIInv /\ [Next]_vars => AjmIInv'
  <2>1. [Next]_vars => AjmNext \/ UNCHANGED ajm_vars
    BY DEF Next, vars
  <2>2. QED
    BY <2>1, AjmStepInv
<1>3. QED
  BY <1>1, <1>2, PTL DEF Spec

LEMMA AudiodecInvariant == Spec => []AdecIInv
<1>1. Init => AdecIInv
  BY AdecInitInv DEF Init
<1>2. AdecIInv /\ [Next]_vars => AdecIInv'
  <2>1. [Next]_vars => AdecNext \/ UNCHANGED adec_vars
    BY DEF Next, vars
  <2>2. QED
    BY <2>1, AdecStepInv
<1>3. QED
  BY <1>1, <1>2, PTL DEF Spec

LEMMA VdecswInvariant == ASSUME ~VswOverlap PROVE Spec => []VswIInv
<1>1. Init => VswIInv
  BY VswInitInv DEF Init
<1>2. VswIInv /\ [Next]_vars => VswIInv'
  <2>1. [Next]_vars => VswNext \/ UNCHANGED vsw_vars
    BY DEF Next, vars
  <2>2. QED
    BY <2>1, VswStepInv
<1>3. QED
  BY <1>1, <1>2, PTL DEF Spec

(* A compute queue runs what the guest rang for, span after span from the  *)
(* read pointer to the last offset, whatever stops, resumes or wraps; and  *)
(* an interrupt is registered once for a queue.                            *)
THEOREM RingsInOrder == Spec => []RingRunsInOrder
  BY RingInvariant, RingExactInv, PTL

(* A locked buffer label is that of a flip that was reached and is not     *)
(* finished, or of the buffer shown; it is not cleared before the flip     *)
(* that follows is done, unless its buffer is registered or flipped again; *)
(* and the counts of pending flips are exact, where no port is closed      *)
(* while flips of it are pending.                                          *)
THEOREM LabelsFollowFlips == ASSUME ~CloseBusy PROVE Spec => []LabelsReleased
  BY VideoOutInvariant, VoExactInv, PTL

(* An AJM batch that was started and not waited for is queued in start     *)
(* order, with the worker or finished, and in one of these only; the slot  *)
(* a waiter watches holds its batch, and no call that finalizes waits for  *)
(* a worker that waits for it.                                             *)
THEOREM BatchesRun == Spec => []BatchesServed
  BY AjmInvariant, AjmExactInv, PTL

(* An audio decoder lives exactly while the table or a call refers to it,  *)
(* converts with a converter of the unit's own format, writes no more than *)
(* the guest's buffer has room for, and a call that fails reports nothing. *)
THEOREM DecodersExact == Spec => []AudiodecExact
  BY AudiodecInvariant, AdecExactInv, PTL

(* A video decoder outlives the calls on it and no more than them and the  *)
(* table; every unit accepted is reported once, in order, and its picture  *)
(* shown once, in order, unless a reset dropped it, where no output is     *)
(* taken while an input call is between decoding a unit and listing it.    *)
THEOREM VideoCallsKeepDecoders == ASSUME ~VswOverlap PROVE Spec => []CallsKeepDecoders
  BY VdecswInvariant, VswExactInv, PTL

(* All five, as the run checks them.                                       *)
THEOREM HandOversHold == ASSUME ~CloseBusy, ~VswOverlap PROVE Spec => []HandOversExact
<1>1. Spec => [](RingRunsInOrder /\ LabelsReleased /\ BatchesServed /\ AudiodecExact /\ CallsKeepDecoders)
  BY RingsInOrder, LabelsFollowFlips, BatchesRun, DecodersExact, VideoCallsKeepDecoders, PTL
<1>2. RingRunsInOrder /\ LabelsReleased /\ BatchesServed /\ AudiodecExact /\ CallsKeepDecoders => HandOversExact
  BY DEF HandOversExact
<1>3. QED
  BY <1>1, <1>2, PTL
=============================================================================
