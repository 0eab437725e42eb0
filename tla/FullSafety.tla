------------------------------ MODULE FullSafety ------------------------------
(***************************************************************************)
(* What full mode guarantees, for every number of nodes, every finite set  *)
(* of blocks, every size of the L1 caches and each of the five protocols.  *)
(*                                                                         *)
(* The first half is about L1s that hold every block.  The protocols'      *)
(* invariant then survives below cores with several misses outstanding;    *)
(* FitInv joins to it where each miss is (OnePlace), what its agent asked  *)
(* for (AgentAsked) and what backs a line of the L1 (LineBacked).  A core  *)
(* never waits for more blocks than there are, so that a fill finds room   *)
(* (RoomLeft) and nothing is evicted.                                      *)
(*                                                                         *)
(* The second half admits evictions and writebacks: the lists of lines,    *)
(* the pending stores and the directory's entries keep their shape         *)
(* (FullShape).  What a writeback by a node whose agent still holds the    *)
(* block does to the protocols is not claimed here.                        *)
(***************************************************************************)
EXTENDS FullMode, CoherenceSafety

Lines == [block : Blocks, dirty : BOOLEAN]

\* No two elements of s are about one block; an L1 is such a list of lines.
OneEach(s) == \A i, j \in DOMAIN s : s[i].block = s[j].block => i = j
IsL1(s)    == s \in Seq(Lines) /\ OneEach(s)
DirtyIn(s, b) == \E i \in DOMAIN s : s[i].block = b /\ s[i].dirty

-----------------------------------------------------------------------------
(* The L1 as a list.                                                       *)

\* The search finds a line of the block.
LEMMA PlaceFound ==
  ASSUME NEW s, NEW b, Has(s, b)
  PROVE  PlaceOf(s, b) \in DOMAIN s /\ s[PlaceOf(s, b)].block = b
  BY DEF Has, PlaceOf

\* Erasing closes the gap.
LEMMA WithoutAt ==
  ASSUME NEW S, NEW s \in Seq(S), NEW b, Has(s, b), NEW p, p = PlaceOf(s, b)
  PROVE  /\ p \in 1 .. Len(s)
         /\ Without(s, b) \in Seq(S) /\ Len(Without(s, b)) = Len(s) - 1
         /\ \A i \in 1 .. Len(s) - 1 : Without(s, b)[i] = IF i < p THEN s[i] ELSE s[i + 1]
<1> DEFINE u == SubSeq(s, 1, p - 1)
           v == SubSeq(s, p + 1, Len(s))
<1>1. p \in 1 .. Len(s) /\ Len(s) \in Nat
  BY PlaceFound
<1>2. \A i \in 1 .. Len(s) : s[i] \in S
  OBVIOUS
<1>3. /\ u \in Seq(S) /\ Len(u) = p - 1
      /\ \A i \in 1 .. p - 1 : u[i] = s[i]
  <2>1. /\ 1 \in Int /\ p - 1 \in Int /\ \A i \in 1 .. p - 1 : s[i] \in S
        /\ p - 1 - 1 + 1 = p - 1 /\ \A i \in 1 .. p - 1 : 1 + i - 1 = i
        /\ ~(1 <= p - 1) => p - 1 = 0
    BY <1>1, <1>2
  <2>2. /\ u \in Seq(S) /\ Len(u) = IF 1 <= p - 1 THEN p - 1 - 1 + 1 ELSE 0
        /\ \A i \in 1 .. p - 1 - 1 + 1 : u[i] = s[1 + i - 1]
    BY <2>1, SubSeqProperties
  <2> HIDE DEF u
  <2> QED BY <1>1, <2>1, <2>2
<1>4. /\ v \in Seq(S) /\ Len(v) = Len(s) - p
      /\ \A i \in 1 .. Len(s) - p : v[i] = s[p + i]
  <2>0. \A i \in p + 1 .. Len(s) : s[i] \in S
    <3>1. \A i \in p + 1 .. Len(s) : i \in 1 .. Len(s)
      BY <1>1
    <3> QED BY <1>2, <3>1
  <2>1. /\ p + 1 \in Int /\ Len(s) \in Int
        /\ Len(s) - (p + 1) + 1 = Len(s) - p
        /\ \A i \in 1 .. Len(s) - p : p + 1 + i - 1 = p + i
        /\ ~(p + 1 <= Len(s)) => Len(s) - p = 0
    BY <1>1
  <2>2. /\ v \in Seq(S) /\ Len(v) = IF p + 1 <= Len(s) THEN Len(s) - (p + 1) + 1 ELSE 0
        /\ \A i \in 1 .. Len(s) - (p + 1) + 1 : v[i] = s[p + 1 + i - 1]
    BY <2>0, <2>1, SubSeqProperties
  <2> HIDE DEF v
  <2> QED BY <1>1, <2>1, <2>2
<1>5. Without(s, b) = u \o v
  BY DEF Without
<1> HIDE DEF u, v
<1>6. /\ u \o v \in Seq(S) /\ Len(u \o v) = Len(u) + Len(v)
      /\ \A i \in 1 .. Len(u) + Len(v) : (u \o v)[i] = IF i <= Len(u) THEN u[i] ELSE v[i - Len(u)]
  BY <1>3, <1>4, ConcatProperties
<1>7. Len(u) + Len(v) = Len(s) - 1
  BY <1>1, <1>3, <1>4
<1>8. ASSUME NEW i \in 1 .. Len(s) - 1
      PROVE  (u \o v)[i] = IF i < p THEN s[i] ELSE s[i + 1]
  <2>1. CASE i < p
    BY <1>1, <1>3, <1>6, <1>7, <2>1
  <2>2. CASE ~(i < p)
    <3>1. /\ ~(i <= Len(u)) /\ i - Len(u) \in 1 .. Len(s) - p /\ p + (i - Len(u)) = i + 1
      BY <1>1, <1>3, <2>2
    <3> QED BY <1>4, <1>6, <1>7, <2>2, <3>1
  <2> QED BY <2>1, <2>2
<1> QED BY <1>1, <1>5, <1>6, <1>7, <1>8

\* coherence_invalidate takes the block's line and no other.
LEMMA WithoutLine ==
  ASSUME NEW s, IsL1(s), NEW b
  PROVE  /\ IsL1(Without(s, b)) /\ Len(Without(s, b)) <= Len(s)
         /\ \A c : Has(Without(s, b), c) <=> c # b /\ Has(s, c)
         /\ \A c : DirtyIn(Without(s, b), c) <=> c # b /\ DirtyIn(s, c)
<1> DEFINE w == Without(s, b)
           p == PlaceOf(s, b)
<1>0. s \in Seq(Lines) /\ Len(s) \in Nat /\ DOMAIN s = 1 .. Len(s)
  BY DEF IsL1
<1>1. CASE ~Has(s, b)
  <2>1. w = s
    BY <1>1 DEF Without
  <2>2. \A i \in DOMAIN s : s[i].block # b
    BY <1>1 DEF Has
  <2> QED BY <1>0, <2>1, <2>2 DEF Has, DirtyIn
<1>2. CASE Has(s, b)
  <2>1. /\ p \in 1 .. Len(s) /\ s[p].block = b
        /\ w \in Seq(Lines) /\ Len(w) = Len(s) - 1
        /\ \A i \in 1 .. Len(s) - 1 : w[i] = IF i < p THEN s[i] ELSE s[i + 1]
    BY <1>0, <1>2, WithoutAt, PlaceFound
  <2>2. DOMAIN w = 1 .. Len(s) - 1
    BY <1>0, <2>1
  <2> HIDE DEF w, p
  <2>3. \A i \in 1 .. Len(s) : s[i].block = b => i = p
    BY <1>0, <2>1 DEF IsL1, OneEach
  <2>4. ASSUME NEW i \in 1 .. Len(s), i # p
        PROVE  \E j \in 1 .. Len(s) - 1 : w[j] = s[i]
    <3>1. CASE i < p
      BY <1>0, <2>1, <3>1
    <3>2. CASE i > p
      <4>1. i - 1 \in 1 .. Len(s) - 1 /\ ~(i - 1 < p) /\ i - 1 + 1 = i
        BY <1>0, <2>1, <3>2
      <4>2. w[i - 1] = s[i]
        BY <2>1, <4>1
      <4> QED BY <4>1, <4>2
    <3> QED BY <1>0, <2>1, <2>4, <3>1, <3>2
  <2>5. ASSUME NEW j \in 1 .. Len(s) - 1
        PROVE  \E i \in 1 .. Len(s) : i # p /\ w[j] = s[i]
    <3>1. CASE j < p
      BY <1>0, <2>1, <3>1
    <3>2. CASE ~(j < p)
      <4>1. j + 1 \in 1 .. Len(s) /\ j + 1 # p
        BY <1>0, <2>1, <3>2
      <4>2. w[j] = s[j + 1]
        BY <2>1, <3>2
      <4> QED BY <4>1, <4>2
    <3> QED BY <3>1, <3>2
  <2>6. OneEach(w)
    <3> SUFFICES ASSUME NEW i \in 1 .. Len(s) - 1, NEW j \in 1 .. Len(s) - 1,
                        w[i].block = w[j].block
                 PROVE  i = j
      BY <2>2 DEF OneEach
    <3> DEFINE i1 == IF i < p THEN i ELSE i + 1
               j1 == IF j < p THEN j ELSE j + 1
    <3>1. i1 \in 1 .. Len(s) /\ j1 \in 1 .. Len(s) /\ w[i] = s[i1] /\ w[j] = s[j1]
      BY <1>0, <2>1
    <3>2. i1 = j1
      <4> HIDE DEF i1, j1
      <4> QED BY <1>0, <3>1 DEF IsL1, OneEach
    <3> QED BY <1>0, <2>1, <3>2
  <2>7. ASSUME NEW c
        PROVE  /\ Has(w, c) <=> c # b /\ Has(s, c)
               /\ DirtyIn(w, c) <=> c # b /\ DirtyIn(s, c)
    <3>1. Has(w, c) => c # b /\ Has(s, c)
      BY <1>0, <2>2, <2>3, <2>5 DEF Has
    <3>2. DirtyIn(w, c) => c # b /\ DirtyIn(s, c)
      BY <1>0, <2>2, <2>3, <2>5 DEF DirtyIn
    <3>3. c # b /\ Has(s, c) => Has(w, c)
      BY <1>0, <2>1, <2>2, <2>4 DEF Has
    <3>4. c # b /\ DirtyIn(s, c) => DirtyIn(w, c)
      BY <1>0, <2>1, <2>2, <2>4 DEF DirtyIn
    <3> QED BY <3>1, <3>2, <3>3, <3>4
  <2>8. IsL1(w) /\ Len(w) <= Len(s)
    BY <1>0, <2>1, <2>6 DEF IsL1
  <2>9. \A c : Has(w, c) <=> c # b /\ Has(s, c)
    BY <2>7
  <2>10. \A c : DirtyIn(w, c) <=> c # b /\ DirtyIn(s, c)
    BY <2>7
  <2> QED BY <2>8, <2>9, <2>10, ZenonT(30) DEF w
<1> QED BY <1>1, <1>2

\* A new line goes to the front of a list that does not have it.
LEMMA FrontLine ==
  ASSUME NEW s, IsL1(s), NEW l \in Lines, ~Has(s, l.block)
  PROVE  /\ IsL1(<<l>> \o s) /\ Len(<<l>> \o s) = Len(s) + 1
         /\ \A c : Has(<<l>> \o s, c) <=> c = l.block \/ Has(s, c)
         /\ \A c : DirtyIn(<<l>> \o s, c) <=> (c = l.block /\ l.dirty) \/ DirtyIn(s, c)
<1> DEFINE w == <<l>> \o s
<1>0. s \in Seq(Lines) /\ Len(s) \in Nat /\ DOMAIN s = 1 .. Len(s)
  BY DEF IsL1
<1>1. <<l>> \in Seq(Lines) /\ Len(<<l>>) = 1 /\ <<l>>[1] = l
  OBVIOUS
<1>2. /\ w \in Seq(Lines) /\ Len(w) = 1 + Len(s)
      /\ \A i \in 1 .. 1 + Len(s) : w[i] = IF i <= 1 THEN <<l>>[i] ELSE s[i - 1]
  BY <1>0, <1>1, ConcatProperties
<1>3. DOMAIN w = 1 .. 1 + Len(s)
  BY <1>0, <1>2
<1> HIDE DEF w
<1>4. w[1] = l
  BY <1>0, <1>1, <1>2
<1>5. ASSUME NEW i \in 1 .. 1 + Len(s), i # 1
      PROVE  i - 1 \in 1 .. Len(s) /\ w[i] = s[i - 1]
  BY <1>0, <1>2, <1>5
<1>6. ASSUME NEW j \in 1 .. Len(s)
      PROVE  j + 1 \in 1 .. 1 + Len(s) /\ w[j + 1] = s[j]
  <2>1. j + 1 \in 1 .. 1 + Len(s) /\ ~(j + 1 <= 1) /\ j + 1 - 1 = j
    BY <1>0
  <2> QED BY <1>2, <2>1
<1>7. \A j \in 1 .. Len(s) : s[j].block # l.block
  BY <1>0 DEF Has
<1>8. OneEach(w)
  <2> SUFFICES ASSUME NEW i \in 1 .. 1 + Len(s), NEW j \in 1 .. 1 + Len(s), w[i].block = w[j].block
               PROVE  i = j
    BY <1>3 DEF OneEach
  <2>1. CASE i = 1 \/ j = 1
    BY <1>4, <1>5, <1>7, <2>1
  <2>2. CASE i # 1 /\ j # 1
    <3>1. s[i - 1].block = s[j - 1].block /\ i - 1 \in DOMAIN s /\ j - 1 \in DOMAIN s
      BY <1>0, <1>5, <2>2
    <3>2. i - 1 = j - 1
      BY <3>1 DEF IsL1, OneEach
    <3> QED BY <1>0, <3>2
  <2> QED BY <2>1, <2>2
<1>9. ASSUME NEW c
      PROVE  /\ Has(w, c) <=> c = l.block \/ Has(s, c)
             /\ DirtyIn(w, c) <=> (c = l.block /\ l.dirty) \/ DirtyIn(s, c)
  <2>1. Has(w, c) => c = l.block \/ Has(s, c)
    BY <1>0, <1>3, <1>4, <1>5 DEF Has
  <2>2. DirtyIn(w, c) => (c = l.block /\ l.dirty) \/ DirtyIn(s, c)
    BY <1>0, <1>3, <1>4, <1>5 DEF DirtyIn
  <2>3. 1 \in DOMAIN w
    BY <1>0, <1>3
  <2>4. Has(s, c) => Has(w, c)
    BY <1>0, <1>3, <1>6 DEF Has
  <2>5. DirtyIn(s, c) => DirtyIn(w, c)
    BY <1>0, <1>3, <1>6 DEF DirtyIn
  <2>6. c = l.block => Has(w, c) /\ (l.dirty => DirtyIn(w, c))
    BY <1>4, <2>3 DEF Has, DirtyIn
  <2> QED BY <2>1, <2>2, <2>4, <2>5, <2>6
<1>10. IsL1(w) /\ Len(w) = Len(s) + 1
  BY <1>0, <1>2, <1>8 DEF IsL1
<1> QED BY <1>9, <1>10 DEF w

\* A touched line moves to the front, and nothing else changes.
LEMMA PromotedLine ==
  ASSUME NEW s, IsL1(s), NEW b
  PROVE  /\ IsL1(Promoted(s, b)) /\ Len(Promoted(s, b)) = Len(s)
         /\ \A c : Has(Promoted(s, b), c) <=> Has(s, c)
         /\ \A c : DirtyIn(Promoted(s, b), c) <=> DirtyIn(s, c)
<1> DEFINE p == PlaceOf(s, b)
           l == s[p]
           w == Without(s, b)
<1>0. s \in Seq(Lines) /\ Len(s) \in Nat /\ DOMAIN s = 1 .. Len(s)
  BY DEF IsL1
<1>1. CASE ~Has(s, b)
  BY <1>0, <1>1 DEF Promoted
<1>2. CASE Has(s, b)
  <2>1. p \in DOMAIN s /\ l.block = b /\ l \in Lines
    BY <1>0, <1>2, PlaceFound
  <2>2. /\ IsL1(w)
        /\ \A c : Has(w, c) <=> c # b /\ Has(s, c)
        /\ \A c : DirtyIn(w, c) <=> c # b /\ DirtyIn(s, c)
    BY WithoutLine, ZenonT(30)
  <2>3. Len(w) = Len(s) - 1
    BY <1>0, <1>2, WithoutAt
  <2>4. ~Has(w, l.block)
    BY <2>1, <2>2
  <2>5. DirtyIn(s, b) <=> l.dirty
    <3>1. \A i \in DOMAIN s : s[i].block = b => i = p
      BY <2>1 DEF IsL1, OneEach
    <3> QED BY <2>1, <3>1 DEF DirtyIn
  <2>6. Promoted(s, b) = <<l>> \o w
    BY <1>2 DEF Promoted
  <2> HIDE DEF w, l, p
  <2>7. /\ IsL1(<<l>> \o w) /\ Len(<<l>> \o w) = Len(w) + 1
        /\ \A c : Has(<<l>> \o w, c) <=> c = l.block \/ Has(w, c)
        /\ \A c : DirtyIn(<<l>> \o w, c) <=> (c = l.block /\ l.dirty) \/ DirtyIn(w, c)
    BY <2>1, <2>2, <2>4, FrontLine
  <2> DEFINE v == <<l>> \o w
  <2>8. Promoted(s, b) = v /\ IsL1(v) /\ Len(v) = Len(w) + 1
        /\ (\A c : Has(v, c) <=> c = l.block \/ Has(w, c))
        /\ \A c : DirtyIn(v, c) <=> (c = l.block /\ l.dirty) \/ DirtyIn(w, c)
    BY <2>6, <2>7
  <2> HIDE DEF v
  <2>9. Len(v) = Len(s)
    BY <1>0, <2>3, <2>8
  <2> QED BY <1>2, <2>1, <2>2, <2>5, <2>8, <2>9
<1> QED BY <1>1, <1>2

\* coherence_set_dirty and coherence_clean set one line's bit.
LEMMA MarkedLine ==
  ASSUME NEW s, IsL1(s), NEW b, NEW d \in BOOLEAN
  PROVE  /\ IsL1(Marked(s, b, d)) /\ Len(Marked(s, b, d)) = Len(s)
         /\ \A c : Has(Marked(s, b, d), c) <=> Has(s, c)
         /\ \A c : c # b => (DirtyIn(Marked(s, b, d), c) <=> DirtyIn(s, c))
         /\ DirtyIn(Marked(s, b, d), b) <=> Has(s, b) /\ d
<1> DEFINE w == Marked(s, b, d)
<1>0. /\ s \in Seq(Lines) /\ Len(s) \in Nat /\ DOMAIN s = 1 .. Len(s)
      /\ \A i \in DOMAIN s : s[i] \in Lines
  BY DEF IsL1
<1>1. DOMAIN w = DOMAIN s
  BY DEF Marked
<1>2. ASSUME NEW i \in DOMAIN s
      PROVE  /\ w[i] \in Lines /\ w[i].block = s[i].block
             /\ w[i].dirty = IF s[i].block = b THEN d ELSE s[i].dirty
  <2>1. s[i] \in Lines
    BY <1>0
  <2>2. w[i] = IF s[i].block = b THEN [s[i] EXCEPT !.dirty = d] ELSE s[i]
    BY DEF Marked
  <2> HIDE DEF w
  <2> QED BY <2>1, <2>2 DEF Lines
<1> HIDE DEF w
<1>3. w \in Seq(Lines) /\ Len(w) = Len(s)
  <2>1. w = [i \in 1 .. Len(s) |-> w[i]]
    BY <1>0, <1>1 DEF w, Marked
  <2>2. \A i \in 1 .. Len(s) : w[i] \in Lines
    BY <1>0, <1>2
  <2>3. w \in [1 .. Len(s) -> Lines]
    BY <2>1, <2>2
  <2> QED BY <1>0, <2>3
<1>4. OneEach(w)
  BY <1>1, <1>2 DEF OneEach, IsL1
<1>5. \A c : Has(w, c) <=> Has(s, c)
  BY <1>1, <1>2 DEF Has
<1>6. \A c : c # b => (DirtyIn(w, c) <=> DirtyIn(s, c))
  BY <1>1, <1>2 DEF DirtyIn
<1>7. DirtyIn(w, b) <=> Has(s, b) /\ d
  BY <1>1, <1>2 DEF DirtyIn, Has
<1> QED BY <1>3, <1>4, <1>5, <1>6, <1>7 DEF w, IsL1

\* A list without an element for the block has room for one: there are no more
\* elements than blocks.
LEMMA RoomLeft ==
  ASSUME NEW s, IsL1(s), NEW b \in Blocks, ~Has(s, b)
  PROVE  Len(s) < Cardinality(Blocks)
<1> DEFINE T == Blocks \ {b}
           f == [i \in 1 .. Len(s) |-> s[i].block]
<1>0. s \in Seq(Lines) /\ Len(s) \in Nat /\ DOMAIN s = 1 .. Len(s)
  BY DEF IsL1
<1>1. IsFiniteSet(T) /\ Cardinality(T) = Cardinality(Blocks) - 1 /\ Cardinality(Blocks) \in Nat
  <2>1. IsFiniteSet(Blocks)
    BY FullModeAssumption
  <2>2. Cardinality(Blocks) \in Nat
    BY <2>1, FS_CardinalityType
  <2>3. IsFiniteSet(T) /\ Cardinality(T) = Cardinality(Blocks) - 1
    BY <2>1, FS_RemoveElement
  <2> QED BY <2>2, <2>3
<1>2. f \in Injection(1 .. Len(s), T)
  <2>1. ASSUME NEW i \in 1 .. Len(s)
        PROVE  s[i].block \in T
    <3>1. s[i] \in Lines /\ i \in DOMAIN s
      BY <1>0
    <3>2. s[i].block # b
      BY <3>1 DEF Has
    <3> QED BY <3>1, <3>2 DEF Lines
  <2>2. \A i, j \in 1 .. Len(s) : s[i].block = s[j].block => i = j
    BY <1>0 DEF IsL1, OneEach
  <2> QED BY <2>1, <2>2 DEF Injection, IsInjective
<1>3. Cardinality(1 .. Len(s)) <= Cardinality(T)
  <2> HIDE DEF f, T
  <2> QED BY <1>1, <1>2, FS_Injection
<1>4. Cardinality(1 .. Len(s)) = Len(s)
  <2>1. 1 \in Int /\ Len(s) \in Int /\ Len(s) >= 0 /\ Len(s) - 1 + 1 = Len(s)
    BY <1>0
  <2>2. Cardinality(1 .. Len(s)) = IF 1 > Len(s) THEN 0 ELSE Len(s) - 1 + 1
    BY <2>1, FS_Interval
  <2> QED BY <2>1, <2>2
<1> QED BY <1>0, <1>1, <1>3, <1>4

\* The queue of misses: its head leaves it, a new miss joins it.
LEMMA QueueTail ==
  ASSUME NEW S, NEW s \in Seq(S), s # <<>>, OneEach(s)
  PROVE  /\ Head(s) \in In(s) /\ Tail(s) \in Seq(S) /\ OneEach(Tail(s))
         /\ In(Tail(s)) \subseteq In(s)
         /\ \A c : Has(Tail(s), c) <=> Has(s, c) /\ c # Head(s).block
         /\ Has(s, Head(s).block)
<1>1. /\ Len(s) \in Nat \ {0} /\ DOMAIN s = 1 .. Len(s) /\ Head(s) = s[1]
      /\ Tail(s) \in Seq(S) /\ Len(Tail(s)) = Len(s) - 1 /\ DOMAIN Tail(s) = 1 .. Len(s) - 1
      /\ \A i \in 1 .. Len(s) - 1 : Tail(s)[i] = s[i + 1]
  BY HeadTailProperties
<1>2. \A i \in 1 .. Len(s) - 1 : i + 1 \in 1 .. Len(s) /\ i + 1 # 1
  BY <1>1
<1>3. OneEach(Tail(s))
  <2> SUFFICES ASSUME NEW i \in 1 .. Len(s) - 1, NEW j \in 1 .. Len(s) - 1,
                      Tail(s)[i].block = Tail(s)[j].block
               PROVE  i = j
    BY <1>1 DEF OneEach
  <2>1. i + 1 = j + 1
    BY <1>1, <1>2 DEF OneEach
  <2> QED BY <1>1, <2>1
<1>4. ASSUME NEW i \in 1 .. Len(s), i # 1
      PROVE  i - 1 \in 1 .. Len(s) - 1 /\ Tail(s)[i - 1] = s[i]
  <2>1. i - 1 \in 1 .. Len(s) - 1 /\ i - 1 + 1 = i
    BY <1>1, <1>4
  <2> QED BY <1>1, <2>1
<1>5. ASSUME NEW c
      PROVE  Has(Tail(s), c) <=> Has(s, c) /\ c # Head(s).block
  <2>1. Has(Tail(s), c) => Has(s, c) /\ c # Head(s).block
    BY <1>1, <1>2 DEF Has, OneEach
  <2>2. Has(s, c) /\ c # Head(s).block => Has(Tail(s), c)
    BY <1>1, <1>4 DEF Has
  <2> QED BY <2>1, <2>2
<1>6. Head(s) \in In(s) /\ Has(s, Head(s).block)
  BY <1>1 DEF In, Has
<1>7. In(Tail(s)) \subseteq In(s)
  BY <1>1, <1>2 DEF In
<1> QED BY <1>1, <1>3, <1>5, <1>6, <1>7

\* A new miss joins it at its end.
LEMMA QueueAppend ==
  ASSUME NEW S, NEW s \in Seq(S), OneEach(s), NEW z \in S, ~Has(s, z.block)
  PROVE  /\ Append(s, z) \in Seq(S) /\ OneEach(Append(s, z))
         /\ In(Append(s, z)) = In(s) \cup {z}
         /\ \A c : Has(Append(s, z), c) <=> Has(s, c) \/ c = z.block
<1> DEFINE w == Append(s, z)
<1>1. /\ Len(s) \in Nat /\ DOMAIN s = 1 .. Len(s)
      /\ w \in Seq(S) /\ DOMAIN w = 1 .. Len(s) + 1
      /\ w[Len(s) + 1] = z
      /\ \A i \in 1 .. Len(s) : i \in 1 .. Len(s) + 1 /\ w[i] = s[i]
  OBVIOUS
<1>2. \A i \in 1 .. Len(s) + 1 : i # Len(s) + 1 => i \in 1 .. Len(s)
  BY <1>1
<1>3. Len(s) + 1 \in 1 .. Len(s) + 1
  BY <1>1
<1>4. In(w) = In(s) \cup {z}
  BY AppendIn
<1> HIDE DEF w
<1>5. OneEach(w)
  BY <1>1, <1>2 DEF OneEach, Has
<1>6. \A c : Has(w, c) <=> Has(s, c) \/ c = z.block
  <2> TAKE c
  <2>1. Has(w, c) => Has(s, c) \/ c = z.block
    BY <1>1, <1>2 DEF Has
  <2>2. Has(s, c) => Has(w, c)
    BY <1>1 DEF Has
  <2>3. c = z.block => Has(w, c)
    BY <1>1, <1>3 DEF Has
  <2> QED BY <2>1, <2>2, <2>3
<1> QED BY <1>1, <1>4, <1>5, <1>6 DEF w

-----------------------------------------------------------------------------
(* The invariant.                                                          *)

FullTypes ==
  /\ ways \in Nat
  /\ lines \in [Procs -> Seq(Lines)]
  /\ waiting \in [Procs -> SUBSET Blocks]
  /\ outbound \in [Procs -> Seq(Instrs)]
  /\ pendingStores \in [Procs -> SUBSET Blocks]
  /\ fill \in [Procs -> Blocks]
  /\ half \in [Procs -> {"none", "proc", "ntwk"}]

\* Where a miss can be.
Queued(n, b)    == Has(outbound[n], b)
InSlot(n, b)    == cpuIn[n] # NoReq /\ cpuIn[n].block = b
WithAgent(n, b) == agent[n][b] \notin DirStable
Filled(n, b)    == cacheIn[n] /\ fill[n] = b

\* A block that is waited for has its miss in one of these places.
OnePlace(n, b) ==
  /\ b \in waiting[n] <=> Queued(n, b) \/ InSlot(n, b) \/ WithAgent(n, b) \/ Filled(n, b)
  /\ Queued(n, b) => ~InSlot(n, b) /\ ~WithAgent(n, b) /\ ~Filled(n, b)
  /\ InSlot(n, b) => ~WithAgent(n, b) /\ ~Filled(n, b)
  /\ WithAgent(n, b) => ~Filled(n, b)

\* A miss that its agent has not seen is one: a load of a block the agent does
\* not have, or a store to one it does not own.
StillMissing(n, b) ==
  Queued(n, b) \/ InSlot(n, b) =>
    IF b \in pendingStores[n] THEN protocol = "MI" \/ agent[n][b] # "M" ELSE agent[n][b] = "I"

\* The agents wait for what the miss asked for.
AgentAsked(n, b) ==
  WithAgent(n, b) /\ protocol # "MI" => (agent[n][b] = "IS" <=> b \notin pendingStores[n])

\* A fill brings what the agent still has.
FillBacked(n, b) ==
  Filled(n, b) /\ protocol # "MI" =>
    IF b \in pendingStores[n] THEN agent[n][b] = "M" ELSE agent[n][b] \in {"S", "E"}

\* The L1 has what the agent has.
LineKnown(n, b) ==
  /\ Level(agent[n][b]) >= 1 /\ b \notin waiting[n] => Has(lines[n], b)
  /\ agent[n][b] = "M" /\ b \notin waiting[n] /\ protocol # "MI" => DirtyIn(lines[n], b)

\* And, but for MI, the agent has what the L1 has.
LineBacked(n, b) ==
  protocol # "MI" => /\ Has(lines[n], b) => Level(agent[n][b]) >= 1
                     /\ DirtyIn(lines[n], b) => agent[n][b] \in {"M", "O", "OM"}

BlockFits(n, b) ==
  /\ OnePlace(n, b) /\ StillMissing(n, b) /\ AgentAsked(n, b)
  /\ FillBacked(n, b) /\ LineKnown(n, b) /\ LineBacked(n, b)

\* A store waits alone, and the misses know that they are stores.
MissesFit(n) ==
  /\ OneEach(outbound[n])
  /\ pendingStores[n] \subseteq waiting[n]
  /\ \A b \in pendingStores[n] : waiting[n] = {b}
  /\ \A i \in In(outbound[n]) : i.op = "STORE" <=> i.block \in pendingStores[n]
  /\ cpuIn[n] # NoReq => (cpuIn[n].op = "STORE" <=> cpuIn[n].block \in pendingStores[n])

\* The slot for fills is filled by the network half of a cache's tick, which is
\* its last; under MI a store may be answered by the CPU half.
FillSlot(n) ==
  cacheIn[n] => \/ half[n] = "ntwk"
                \/ half[n] = "proc" /\ protocol = "MI" /\ fill[n] \in pendingStores[n]

NodeFits(n) ==
  /\ OneEach(lines[n]) /\ MissesFit(n) /\ FillSlot(n)
  /\ \A b \in Blocks : BlockFits(n, b)

\* As long as nothing is evicted.
FitInv == TypeOK /\ ProtocolInv /\ FullTypes /\ \A n \in Procs : NodeFits(n)

-----------------------------------------------------------------------------
(* Nodes that a step leaves alone.                                         *)

NodeSame(n) ==
  /\ lines'[n] = lines[n] /\ waiting'[n] = waiting[n] /\ outbound'[n] = outbound[n]
  /\ pendingStores'[n] = pendingStores[n] /\ fill'[n] = fill[n] /\ half'[n] = half[n]
  /\ cpuIn'[n] = cpuIn[n] /\ cacheIn'[n] = cacheIn[n]
  /\ \A b \in Blocks : agent'[n][b] = agent[n][b]
  /\ protocol' = protocol

\* They stay as they should be.
LEMMA SameNodeFits ==
  ASSUME NEW n, NodeFits(n), NodeSame(n)
  PROVE  NodeFits(n)'
<1>1. MissesFit(n)' /\ FillSlot(n)' /\ OneEach(lines[n])'
  BY DEF NodeFits, NodeSame, MissesFit, FillSlot
<1>2. ASSUME NEW b \in Blocks
      PROVE  BlockFits(n, b)'
  <2>1. BlockFits(n, b)
    BY DEF NodeFits
  <2>2. /\ Queued(n, b)' <=> Queued(n, b)
        /\ InSlot(n, b)' <=> InSlot(n, b)
        /\ WithAgent(n, b)' <=> WithAgent(n, b)
        /\ Filled(n, b)' <=> Filled(n, b)
    BY DEF NodeSame, Queued, InSlot, WithAgent, Filled
  <2>3. OnePlace(n, b)' /\ StillMissing(n, b)' /\ AgentAsked(n, b)'
    BY <2>1, <2>2 DEF BlockFits, NodeSame, OnePlace, StillMissing, AgentAsked
  <2>4. FillBacked(n, b)' /\ LineKnown(n, b)' /\ LineBacked(n, b)'
    BY <2>1, <2>2 DEF BlockFits, NodeSame, FillBacked, LineKnown, LineBacked
  <2> QED BY <2>3, <2>4 DEF BlockFits
<1> QED BY <1>1, <1>2 DEF NodeFits

\* What a block's part of the invariant needs, fact by fact.
LEMMA BlockSplit ==
  ASSUME NEW n, NEW b, BlockFits(n, b)
  PROVE  /\ OnePlace(n, b) /\ StillMissing(n, b) /\ AgentAsked(n, b)
         /\ FillBacked(n, b) /\ LineKnown(n, b) /\ LineBacked(n, b)
  BY DEF BlockFits


\* A block about which the step changes nothing but that its miss may have moved
\* from the adapter's queue to the agents' slot.
BlockSame(n, b) ==
  /\ b \in waiting'[n] <=> b \in waiting[n]
  /\ b \in pendingStores'[n] <=> b \in pendingStores[n]
  /\ Queued(n, b)' \/ InSlot(n, b)' <=> Queued(n, b) \/ InSlot(n, b)
  /\ ~(Queued(n, b)' /\ InSlot(n, b)')
  /\ Filled(n, b)' <=> Filled(n, b)
  /\ agent'[n][b] = agent[n][b]
  /\ Has(lines'[n], b) <=> Has(lines[n], b)
  /\ DirtyIn(lines'[n], b) <=> DirtyIn(lines[n], b)
  /\ protocol' = protocol

\* Such a block stays as it should be.
LEMMA SameBlockFits ==
  ASSUME NEW n, NEW b, BlockFits(n, b), BlockSame(n, b)
  PROVE  BlockFits(n, b)'
<1>1. WithAgent(n, b)' <=> WithAgent(n, b)
  BY DEF WithAgent, BlockSame
<1>2. OnePlace(n, b)'
  BY <1>1 DEF BlockFits, BlockSame, OnePlace
<1>3. StillMissing(n, b)' /\ AgentAsked(n, b)' /\ FillBacked(n, b)'
  BY <1>1 DEF BlockFits, BlockSame, StillMissing, AgentAsked, FillBacked
<1>4. LineKnown(n, b)' /\ LineBacked(n, b)'
  BY DEF BlockFits, BlockSame, LineKnown, LineBacked
<1> QED BY <1>2, <1>3, <1>4 DEF BlockFits

OthersSame(n) == \A m \in Procs : m # n => NodeSame(m)

\* It is enough to look at the node that acts.
LEMMA FitFrom ==
  ASSUME FitInv, NEW n \in Procs, OthersSame(n), TypeOK', ProtocolInv', FullTypes', NodeFits(n)'
  PROVE  FitInv'
<1>1. ASSUME NEW m \in Procs
      PROVE  NodeFits(m)'
  <2>1. CASE m = n
    BY <2>1
  <2>2. CASE m # n
    BY <2>2, SameNodeFits DEF OthersSame, FitInv
  <2> QED BY <2>1, <2>2
<1> QED BY <1>1 DEF FitInv

\* What the invariant says of one node.
LEMMA NodeKnown ==
  ASSUME FitInv, NEW n \in Procs
  PROVE  /\ NodeFits(n) /\ IsL1(lines[n]) /\ outbound[n] \in Seq(Instrs)
         /\ MissesFit(n) /\ FillSlot(n) /\ NetworkTypes
         /\ cpuIn[n] \in Instrs \cup {NoReq} /\ waiting[n] \subseteq Blocks /\ fill[n] \in Blocks
         /\ \A b \in Blocks : agent[n][b] \in AgentStates /\ BlockFits(n, b)
<1>1. NetworkTypes
  BY NetworkTyped DEF FitInv
<1> QED BY <1>1 DEF FitInv, FullTypes, NodeFits, IsL1, NetworkTypes, TypeOK

\* The L1's list holds the lines that the model's search finds.
LEMMA SameSearch ==
  \A n, b : /\ Resident(n, b) <=> Has(lines[n], b)
            /\ Dirty(n, b) <=> DirtyIn(lines[n], b)
  BY DEF Resident, Dirty, Places, Has, DirtyIn

-----------------------------------------------------------------------------
(* The core.                                                               *)

\* A hit changes the order of the lines.
LEMMA CoreHitFits ==
  ASSUME FitInv, NEW n \in Procs, NEW i \in Instrs, CoreHit(n, i)
  PROVE  FitInv'
<1>1. UNCHANGED <<vars, ways, waiting, outbound, pendingStores, fill, half>>
  BY DEF CoreHit
<1>2. TypeOK' /\ ProtocolInv'
  <2>1. UNCHANGED <<protocol, agent, toDir, toNode, queue, entry, resp, thrown>>
    BY <1>1 DEF vars
  <2>2. ProtocolInv'
    BY <2>1, ProtocolIdle DEF FitInv
  <2> QED BY <1>1, <2>2 DEF FitInv, TypeOK, vars
<1> DEFINE s == Promoted(lines[n], i.block)
<1>3. /\ lines' = [lines EXCEPT ![n] = s] /\ IsL1(s)
      /\ \A c : (Has(s, c) <=> Has(lines[n], c)) /\ (DirtyIn(s, c) <=> DirtyIn(lines[n], c))
  BY NodeKnown, PromotedLine DEF CoreHit
<1> HIDE DEF s
<1>4. FullTypes'
  BY <1>1, <1>3 DEF FitInv, FullTypes, IsL1
<1>5. lines'[n] = s /\ \A m \in Procs : m # n => lines'[m] = lines[m]
  BY <1>3 DEF FitInv, FullTypes
<1>6. OthersSame(n)
  BY <1>1, <1>5 DEF OthersSame, NodeSame, vars
<1>7. MissesFit(n)' /\ FillSlot(n)' /\ OneEach(lines[n])'
  BY <1>1, <1>3, <1>5, NodeKnown DEF MissesFit, FillSlot, IsL1, vars
<1>8. ASSUME NEW b \in Blocks
      PROVE  BlockFits(n, b)'
  <2>1. BlockFits(n, b) /\ OnePlace(n, b)
    BY NodeKnown DEF BlockFits
  <2>2. BlockSame(n, b)
    BY <1>1, <1>3, <1>5, <2>1 DEF BlockSame, OnePlace, Queued, InSlot, Filled, vars
  <2> QED BY <2>1, <2>2, SameBlockFits
<1>9. NodeFits(n)'
  BY <1>7, <1>8 DEF NodeFits
<1> QED BY <1>2, <1>4, <1>6, <1>9, FitFrom

\* A miss is one that its agent must be asked about.
LEMMA CoreMissFits ==
  ASSUME FitInv, NEW n \in Procs, NEW i \in Instrs, CoreMiss(n, i)
  PROVE  FitInv'
<1> DEFINE b0 == i.block
           s  == Promoted(lines[n], b0)
           u  == Append(outbound[n], i)
           st == IF i.op = "STORE" THEN pendingStores[n] \cup {b0} ELSE pendingStores[n]
<1>0. b0 \in Blocks /\ i.op \in {"LOAD", "STORE"}
  BY DEF Instrs
<1>1. UNCHANGED <<protocol, req, cpuIn, cacheIn, agent, toDir, toNode, queue,
                  entry, resp, thrown, ways, fill, half>>
  BY DEF CoreMiss
<1>2. TypeOK' /\ ProtocolInv'
  <2>1. ProtocolInv'
    BY <1>1, ProtocolIdle DEF FitInv
  <2>2. left' \in [Procs -> 0..TraceLen]
    <3>1. left[n] \in 0..TraceLen /\ left[n] > 0 /\ left' = [left EXCEPT ![n] = left[n] - 1]
      BY DEF CoreMiss, FitInv, TypeOK
    <3>2. left[n] - 1 \in 0..TraceLen
      BY <3>1, TraceLenAssumption
    <3> QED BY <3>1, <3>2 DEF FitInv, TypeOK
  <2> QED BY <1>1, <2>1, <2>2 DEF FitInv, TypeOK
<1>3. /\ lines' = [lines EXCEPT ![n] = s] /\ IsL1(s)
      /\ \A c : (Has(s, c) <=> Has(lines[n], c)) /\ (DirtyIn(s, c) <=> DirtyIn(lines[n], c))
  BY NodeKnown, PromotedLine DEF CoreMiss
<1>4. /\ waiting' = [waiting EXCEPT ![n] = waiting[n] \cup {b0}]
      /\ outbound' = [outbound EXCEPT ![n] = u]
      /\ pendingStores' = [pendingStores EXCEPT ![n] = st]
  BY DEF CoreMiss
<1>5. /\ ~Queued(n, b0) /\ ~InSlot(n, b0) /\ ~WithAgent(n, b0) /\ ~Filled(n, b0)
      /\ b0 \notin waiting[n]
  BY <1>0, NodeKnown DEF CoreMiss, MayIssue, BlockFits, OnePlace
<1>6. /\ u \in Seq(Instrs) /\ OneEach(u) /\ In(u) = In(outbound[n]) \cup {i}
      /\ \A c : Has(u, c) <=> Has(outbound[n], c) \/ c = b0
  BY <1>5, NodeKnown, QueueAppend DEF Queued, MissesFit
<1>7. /\ i.op = "STORE" => waiting[n] = {} /\ pendingStores[n] = {} /\ ~DirtyIn(lines[n], b0)
      /\ i.op = "LOAD" => pendingStores[n] = {} /\ ~Has(lines[n], b0)
  <2>1. pendingStores[n] \subseteq waiting[n]
    BY NodeKnown DEF MissesFit
  <2> QED BY <1>0, <2>1, SameSearch DEF CoreMiss, MayIssue, Hits
<1> HIDE DEF s, u
<1>8. FullTypes'
  <2>1. st \in SUBSET Blocks
    BY <1>0 DEF FitInv, FullTypes
  <2> QED BY <1>0, <1>1, <1>3, <1>4, <1>6, <2>1 DEF FitInv, FullTypes, IsL1
<1>9. /\ lines'[n] = s /\ waiting'[n] = waiting[n] \cup {b0} /\ outbound'[n] = u
      /\ pendingStores'[n] = st
      /\ \A m \in Procs : m # n => /\ lines'[m] = lines[m] /\ waiting'[m] = waiting[m]
                                   /\ outbound'[m] = outbound[m]
                                   /\ pendingStores'[m] = pendingStores[m]
  BY <1>3, <1>4 DEF FitInv, FullTypes
<1>10. OthersSame(n)
  BY <1>1, <1>9 DEF OthersSame, NodeSame
<1>11. FillSlot(n)' /\ OneEach(lines[n])'
  <2>1. FillSlot(n)
    BY NodeKnown
  <2>2. cacheIn[n] => fill[n] # b0
    BY <1>5 DEF Filled
  <2> QED BY <1>1, <1>3, <1>9, <2>1, <2>2 DEF FillSlot, IsL1
<1>12. MissesFit(n)'
  <2>1. MissesFit(n)
    BY NodeKnown
  <2>2. CASE i.op = "STORE"
    <3>1. st = {b0} /\ waiting'[n] = {b0}
      BY <1>7, <1>9, <2>2
    <3>2. In(outbound[n]) = {}
      <4> SUFFICES ASSUME NEW j \in In(outbound[n])
                   PROVE  FALSE
        OBVIOUS
      <4>1. j.block \in Blocks /\ Queued(n, j.block)
        <5>1. PICK x \in DOMAIN outbound[n] : outbound[n][x] = j
          BY DEF In
        <5>2. j \in Instrs
          BY <5>1, NodeKnown
        <5> QED BY <5>1, <5>2 DEF Queued, Has, Instrs
      <4> QED BY <1>7, <2>2, <4>1, NodeKnown DEF BlockFits, OnePlace
    <3>3. cpuIn[n] = NoReq
      <4> SUFFICES ASSUME cpuIn[n] # NoReq
                   PROVE  FALSE
        OBVIOUS
      <4>1. cpuIn[n].block \in Blocks /\ InSlot(n, cpuIn[n].block)
        BY NodeKnown DEF InSlot, Instrs
      <4> QED BY <1>7, <2>2, <4>1, NodeKnown DEF BlockFits, OnePlace
    <3> QED BY <1>1, <1>6, <1>9, <2>2, <3>1, <3>2, <3>3 DEF MissesFit
  <2>3. CASE i.op = "LOAD"
    <3>1. st = {} /\ pendingStores[n] = {}
      BY <1>7, <2>3
    <3> QED BY <1>1, <1>6, <1>9, <2>1, <2>3, <3>1 DEF MissesFit
  <2> QED BY <1>0, <2>2, <2>3
<1>13. ASSUME NEW b \in Blocks, b # b0
       PROVE  BlockFits(n, b)'
  <2>1. BlockFits(n, b) /\ OnePlace(n, b)
    BY NodeKnown DEF BlockFits
  <2>2. /\ b \in waiting'[n] <=> b \in waiting[n]
        /\ b \in pendingStores'[n] <=> b \in pendingStores[n]
    BY <1>9, <1>13
  <2>3. /\ Queued(n, b)' <=> Queued(n, b)
        /\ InSlot(n, b)' <=> InSlot(n, b) 
        /\ Filled(n, b)' <=> Filled(n, b)
    BY <1>1, <1>6, <1>9, <1>13 DEF Queued, InSlot, Filled
  <2>4. BlockSame(n, b)
    BY <1>1, <1>3, <1>9, <2>1, <2>2, <2>3 DEF BlockSame, OnePlace
  <2> QED BY <2>1, <2>4, SameBlockFits
<1>14. BlockFits(n, b0)'
  <2>1. Queued(n, b0)' /\ ~InSlot(n, b0)' /\ ~WithAgent(n, b0)' /\ ~Filled(n, b0)'
    BY <1>1, <1>5, <1>6, <1>9 DEF Queued, InSlot, WithAgent, Filled
  <2>2. b0 \in waiting'[n]
    BY <1>9
  <2>3. agent[n][b0] \in DirStable /\ agent[n][b0] \in AgentStates
    BY <1>0, <1>5, NodeKnown DEF WithAgent
  <2>4. LineKnown(n, b0) /\ LineBacked(n, b0)
    BY <1>0, NodeKnown DEF BlockFits
  <2>5. OnePlace(n, b0)' /\ AgentAsked(n, b0)' /\ FillBacked(n, b0)' /\ LineKnown(n, b0)'
    BY <2>1, <2>2 DEF OnePlace, AgentAsked, FillBacked, LineKnown
  <2>6. LineBacked(n, b0)'
    BY <1>1, <1>3, <1>9, <2>4 DEF LineBacked
  <2>7. CASE i.op = "STORE"
    <3>1. b0 \in pendingStores'[n]
      BY <1>9, <2>7
    <3>2. protocol = "MI" \/ agent[n][b0] # "M"
      BY <1>5, <1>7, <2>4, <2>7 DEF LineKnown
    <3>3. StillMissing(n, b0)'
      BY <1>1, <3>1, <3>2 DEF StillMissing
    <3> QED BY <2>5, <2>6, <3>3 DEF BlockFits
  <2>8. CASE i.op = "LOAD"
    <3>1. b0 \notin pendingStores'[n]
      BY <1>7, <1>9, <2>8
    <3>2. Level(agent[n][b0]) \in 0..3 /\ ~(Level(agent[n][b0]) >= 1)
      BY <1>5, <1>7, <2>3, <2>4, <2>8, LevelValues DEF LineKnown
    <3>3. agent[n][b0] = "I"
      <4>1. Level(agent[n][b0]) = 0
        BY <3>2
      <4> QED BY <2>3, <4>1, LevelValues DEF DirStable
    <3>4. StillMissing(n, b0)'
      BY <1>1, <3>1, <3>3 DEF StillMissing
    <3> QED BY <2>5, <2>6, <3>4 DEF BlockFits
  <2> QED BY <1>0, <2>7, <2>8
<1>15. NodeFits(n)'
  BY <1>0, <1>11, <1>12, <1>13, <1>14 DEF NodeFits
<1> QED BY <1>2, <1>8, <1>10, <1>15, FitFrom

-----------------------------------------------------------------------------
(* The adapter's tick.                                                     *)

\* The misses of n move one place on, at most.
Drained(n) ==
  /\ outbound' \in [Procs -> Seq(Instrs)] /\ cpuIn' \in [Procs -> Instrs \cup {NoReq}]
  /\ \A m \in Procs : m # n => outbound'[m] = outbound[m] /\ cpuIn'[m] = cpuIn[m]
  /\ OneEach(outbound'[n]) /\ In(outbound'[n]) \subseteq In(outbound[n])
  /\ cpuIn'[n] \in In(outbound[n]) \/ cpuIn'[n] = cpuIn[n]
  /\ \A c \in Blocks : /\ Queued(n, c)' \/ InSlot(n, c)' <=> Queued(n, c) \/ InSlot(n, c)
                       /\ ~(Queued(n, c)' /\ InSlot(n, c)')

\* One miss per tick goes into the agents' slot, if that is free.
LEMMA DrainMoves ==
  ASSUME FitInv, NEW n \in Procs, Drain(n)
  PROVE  Drained(n)
<1>1. /\ outbound \in [Procs -> Seq(Instrs)] /\ cpuIn \in [Procs -> Instrs \cup {NoReq}]
      /\ outbound[n] \in Seq(Instrs) /\ OneEach(outbound[n])
  BY DEF FitInv, FullTypes, TypeOK, NodeFits, MissesFit
<1>2. CASE outbound[n] # <<>> /\ cpuIn[n] = NoReq
  <2> DEFINE h == Head(outbound[n])
             t == Tail(outbound[n])
  <2>1. /\ h \in In(outbound[n]) /\ t \in Seq(Instrs) /\ OneEach(t)
        /\ In(t) \subseteq In(outbound[n])
        /\ \A c : Has(t, c) <=> Has(outbound[n], c) /\ c # h.block
        /\ Has(outbound[n], h.block)
    BY <1>1, <1>2, QueueTail
  <2>2. h \in Instrs /\ h # NoReq
    <3>1. h \in Instrs
      BY <1>1, <1>2, HeadTailProperties
    <3> QED BY <3>1 DEF Instrs, NoReq
  <2>3. cpuIn' = [cpuIn EXCEPT ![n] = h] /\ outbound' = [outbound EXCEPT ![n] = t]
    BY <1>2 DEF Drain
  <2> HIDE DEF h, t
  <2>4. /\ outbound' \in [Procs -> Seq(Instrs)] /\ cpuIn' \in [Procs -> Instrs \cup {NoReq}]
        /\ outbound'[n] = t /\ cpuIn'[n] = h
        /\ \A m \in Procs : m # n => outbound'[m] = outbound[m] /\ cpuIn'[m] = cpuIn[m]
    BY <1>1, <2>1, <2>2, <2>3
  <2>5. ASSUME NEW c \in Blocks
        PROVE  /\ Queued(n, c)' \/ InSlot(n, c)' <=> Queued(n, c) \/ InSlot(n, c)
               /\ ~(Queued(n, c)' /\ InSlot(n, c)')
    BY <1>2, <2>1, <2>2, <2>4 DEF Queued, InSlot
  <2> QED BY <2>1, <2>4, <2>5 DEF Drained
<1>3. CASE ~(outbound[n] # <<>> /\ cpuIn[n] = NoReq)
  <2>1. outbound' = outbound /\ cpuIn' = cpuIn
    BY <1>3 DEF Drain
  <2>2. ASSUME NEW c \in Blocks
        PROVE  /\ Queued(n, c)' \/ InSlot(n, c)' <=> Queued(n, c) \/ InSlot(n, c)
               /\ ~(Queued(n, c)' /\ InSlot(n, c)')
    <3>1. OnePlace(n, c)
      BY NodeKnown DEF BlockFits
    <3> QED BY <2>1, <3>1 DEF Queued, InSlot, OnePlace
  <2> QED BY <1>1, <2>1, <2>2 DEF Drained
<1> QED BY <1>2, <1>3

\* The lines of n become s: the filled block is in it, dirty if a store waited.
Refilled(n, s) ==
  /\ lines' = [lines EXCEPT ![n] = s] /\ toDir' = toDir /\ IsL1(s)
  /\ \A c : Has(s, c) <=> Has(lines[n], c) \/ c = fill[n]
  /\ \A c : c # fill[n] => (DirtyIn(s, c) <=> DirtyIn(lines[n], c))
  /\ DirtyIn(s, fill[n]) <=> fill[n] \in pendingStores[n] \/ DirtyIn(lines[n], fill[n])

\* The L1 has room for the line, so that nothing is evicted.
LEMMA FillFinds ==
  ASSUME FitInv, FitsInL1, NEW n \in Procs, NEW d \in BOOLEAN, d <=> fill[n] \in pendingStores[n],
         CacheFill(n, fill[n], d)
  PROVE  \E s : Refilled(n, s)
<1> DEFINE b == fill[n]
<1>1. IsL1(lines[n]) /\ b \in Blocks /\ lines[n] \in Seq(Lines)
  BY NodeKnown DEF IsL1
<1>2. Resident(n, b) <=> Has(lines[n], b)
  BY SameSearch
<1>3. CASE Has(lines[n], b) /\ d
  <2> DEFINE s == Marked(lines[n], b, TRUE)
  <2>1. lines' = [lines EXCEPT ![n] = s] /\ toDir' = toDir
    BY <1>2, <1>3 DEF CacheFill
  <2>2. \E t \in BOOLEAN : t = TRUE
    OBVIOUS
  <2>3. PICK t \in BOOLEAN : t = TRUE
    BY <2>2
  <2>4. /\ IsL1(Marked(lines[n], b, t)) /\ Len(Marked(lines[n], b, t)) = Len(lines[n])
        /\ \A c : Has(Marked(lines[n], b, t), c) <=> Has(lines[n], c)
        /\ \A c : c # b => (DirtyIn(Marked(lines[n], b, t), c) <=> DirtyIn(lines[n], c))
        /\ DirtyIn(Marked(lines[n], b, t), b) <=> Has(lines[n], b) /\ t
    BY <1>1, MarkedLine
  <2>5. Marked(lines[n], b, t) = s
    BY <2>3
  <2> HIDE DEF s
  <2>6. Refilled(n, s)
    BY <1>3, <2>1, <2>3, <2>4, <2>5 DEF Refilled
  <2> QED BY <2>6
<1>4. CASE Has(lines[n], b) /\ ~d
  <2>1. lines' = [lines EXCEPT ![n] = lines[n]] /\ toDir' = toDir
    BY <1>2, <1>4 DEF CacheFill
  <2>2. Refilled(n, lines[n])
    BY <1>1, <1>4, <2>1 DEF Refilled
  <2> QED BY <2>2
<1>5. CASE ~Has(lines[n], b)
  <2> DEFINE l == [block |-> b, dirty |-> d]
             s == <<l>> \o lines[n]
  <2>1. Len(lines[n]) < ways
    <3>1. Len(lines[n]) < Cardinality(Blocks)
      BY <1>1, <1>5, RoomLeft
    <3>2. Cardinality(Blocks) \in Nat
      BY FullModeAssumption, FS_CardinalityType
    <3> QED BY <1>1, <3>1, <3>2 DEF FitsInL1, FitInv, FullTypes
  <2>2. Len(lines[n]) # ways
    BY <1>1, <2>1 DEF FitInv, FullTypes
  <2>3. lines' = [lines EXCEPT ![n] = s] /\ toDir' = toDir
    BY <1>2, <1>5, <2>2 DEF CacheFill
  <2>4. l \in Lines /\ l.block = b /\ l.dirty = d
    BY <1>1 DEF Lines
  <2> HIDE DEF l
  <2>5. /\ IsL1(<<l>> \o lines[n]) /\ Len(<<l>> \o lines[n]) = Len(lines[n]) + 1
        /\ \A c : Has(<<l>> \o lines[n], c) <=> c = l.block \/ Has(lines[n], c)
        /\ \A c : DirtyIn(<<l>> \o lines[n], c) <=> (c = l.block /\ l.dirty) \/ DirtyIn(lines[n], c)
    BY <1>1, <1>5, <2>4, FrontLine
  <2>6. IsL1(s) /\ (\A c : Has(s, c) <=> c = l.block \/ Has(lines[n], c))
        /\ \A c : DirtyIn(s, c) <=> (c = l.block /\ l.dirty) \/ DirtyIn(lines[n], c)
    BY <2>5
  <2> HIDE DEF s
  <2>7. Refilled(n, s)
    BY <2>3, <2>4, <2>6 DEF Refilled
  <2> QED BY <2>7
<1> QED BY <1>3, <1>4, <1>5

\* What the second half of the tick changes, with and without a fill.
Consumed(n, s) ==
  /\ lines' = [lines EXCEPT ![n] = s] /\ toDir' = toDir /\ IsL1(s)
  /\ waiting' \in [Procs -> SUBSET Blocks] /\ pendingStores' \in [Procs -> SUBSET Blocks]
  /\ cacheIn' \in [Procs -> BOOLEAN] /\ ~cacheIn'[n]
  /\ \A m \in Procs : m # n => /\ waiting'[m] = waiting[m] /\ cacheIn'[m] = cacheIn[m]
                               /\ pendingStores'[m] = pendingStores[m]
  /\ IF cacheIn[n]
     THEN /\ waiting'[n] = waiting[n] \ {fill[n]}
          /\ pendingStores'[n] = pendingStores[n] \ {fill[n]}
          /\ Refilled(n, s)
     ELSE s = lines[n] /\ waiting'[n] = waiting[n] /\ pendingStores'[n] = pendingStores[n]

\* One of the two.
LEMMA ConsumeFinds ==
  ASSUME FitInv, FitsInL1, NEW n \in Procs, ConsumeFill(n)
  PROVE  \E s : Consumed(n, s)
<1>1. /\ waiting \in [Procs -> SUBSET Blocks] /\ pendingStores \in [Procs -> SUBSET Blocks]
      /\ cacheIn \in [Procs -> BOOLEAN] /\ lines \in [Procs -> Seq(Lines)]
  BY DEF FitInv, FullTypes, TypeOK
<1>2. CASE cacheIn[n]
  <2>1. /\ CacheFill(n, fill[n], fill[n] \in pendingStores[n])
        /\ pendingStores' = [pendingStores EXCEPT ![n] = pendingStores[n] \ {fill[n]}]
        /\ waiting' = [waiting EXCEPT ![n] = waiting[n] \ {fill[n]}]
        /\ cacheIn' = [cacheIn EXCEPT ![n] = FALSE]
    BY <1>2 DEF ConsumeFill
  <2>2. PICK d \in BOOLEAN : d = (fill[n] \in pendingStores[n])
    <3> DEFINE asked == fill[n] \in pendingStores[n]
    <3> asked \in BOOLEAN
      OBVIOUS
    <3> WITNESS asked \in BOOLEAN
    <3> QED OBVIOUS
  <2>3. CacheFill(n, fill[n], d) /\ (d <=> fill[n] \in pendingStores[n])
    BY <2>1, <2>2
  <2>4. PICK s : Refilled(n, s)
    BY <2>3, FillFinds
  <2>5. lines' = [lines EXCEPT ![n] = s] /\ toDir' = toDir /\ IsL1(s)
    BY <2>4 DEF Refilled
  <2>6. /\ waiting' \in [Procs -> SUBSET Blocks] /\ pendingStores' \in [Procs -> SUBSET Blocks]
        /\ cacheIn' \in [Procs -> BOOLEAN] /\ ~cacheIn'[n]
        /\ waiting'[n] = waiting[n] \ {fill[n]}
        /\ pendingStores'[n] = pendingStores[n] \ {fill[n]}
        /\ \A m \in Procs : m # n => /\ waiting'[m] = waiting[m] /\ cacheIn'[m] = cacheIn[m]
                                     /\ pendingStores'[m] = pendingStores[m]
    BY <1>1, <2>1
  <2>7. Consumed(n, s)
    BY <1>2, <2>4, <2>5, <2>6 DEF Consumed
  <2> QED BY <2>7
<1>3. CASE ~cacheIn[n]
  <2>1. UNCHANGED <<lines, toDir, pendingStores, waiting, cacheIn>>
    BY <1>3 DEF ConsumeFill
  <2>2. IsL1(lines[n]) /\ lines' = [lines EXCEPT ![n] = lines[n]]
    BY <1>1, <2>1, NodeKnown
  <2>3. Consumed(n, lines[n])
    BY <1>1, <1>3, <2>1, <2>2 DEF Consumed
  <2> QED BY <2>3
<1> QED BY <1>2, <1>3

\* The filled block is no longer waited for; its line is backed by its agent.
LEMMA FillFits ==
  ASSUME FitInv, NEW n \in Procs, Drained(n), NEW s, Consumed(n, s), cacheIn[n],
         UNCHANGED <<protocol, agent, fill>>
  PROVE  BlockFits(n, fill[n])'
<1> DEFINE b == fill[n]
<1>1. /\ b \in Blocks /\ BlockFits(n, b) /\ Filled(n, b) /\ agent[n][b] \in AgentStates
  BY NodeKnown DEF Filled
<1>2. /\ ~Queued(n, b)' /\ ~InSlot(n, b)' /\ ~WithAgent(n, b)' /\ ~Filled(n, b)'
      /\ ~WithAgent(n, b)
  <2>1. ~Queued(n, b) /\ ~InSlot(n, b) /\ ~WithAgent(n, b)
    BY <1>1 DEF BlockFits, OnePlace
  <2>2. ~Queued(n, b)' /\ ~InSlot(n, b)'
    BY <1>1, <2>1 DEF Drained
  <2> QED BY <2>1, <2>2 DEF WithAgent, Filled, Consumed
<1>3. /\ b \notin waiting'[n] /\ lines'[n] = s
      /\ Has(s, b)
      /\ DirtyIn(s, b) <=> b \in pendingStores[n] \/ DirtyIn(lines[n], b)
  BY DEF Consumed, Refilled, FitInv, FullTypes
<1>4. OnePlace(n, b)' /\ StillMissing(n, b)' /\ AgentAsked(n, b)' /\ FillBacked(n, b)'
  BY <1>2, <1>3 DEF OnePlace, StillMissing, AgentAsked, FillBacked
<1>5. FillBacked(n, b) /\ LineBacked(n, b)
  BY <1>1 DEF BlockFits
<1>6. LineKnown(n, b)'
  BY <1>1, <1>3, <1>5 DEF FillBacked, LineKnown
<1>7. LineBacked(n, b)'
  <2> SUFFICES ASSUME protocol # "MI"
               PROVE  /\ Level(agent[n][b]) >= 1
                      /\ DirtyIn(s, b) => agent[n][b] \in {"M", "O", "OM"}
    BY <1>3 DEF LineBacked
  <2>1. agent[n][b] \in {"M", "S", "E"} /\ (b \in pendingStores[n] => agent[n][b] = "M")
    BY <1>1, <1>5 DEF FillBacked
  <2>2. Level(agent[n][b]) >= 1
    BY <2>1 DEF Level
  <2> QED BY <1>3, <1>5, <2>1, <2>2 DEF LineBacked
<1> QED BY <1>4, <1>6, <1>7 DEF BlockFits

\* The other blocks only see their miss move on.
LEMMA RestFits ==
  ASSUME FitInv, NEW n \in Procs, Drained(n), NEW s, Consumed(n, s),
         UNCHANGED <<protocol, agent, fill>>, NEW c \in Blocks, cacheIn[n] => c # fill[n]
  PROVE  BlockFits(n, c)'
<1>1. BlockFits(n, c)
  BY NodeKnown
<1>2. lines'[n] = s
  BY DEF Consumed, FitInv, FullTypes
<1>3. /\ c \in waiting'[n] <=> c \in waiting[n]
      /\ c \in pendingStores'[n] <=> c \in pendingStores[n]
      /\ Has(s, c) <=> Has(lines[n], c)
      /\ DirtyIn(s, c) <=> DirtyIn(lines[n], c)
  BY DEF Consumed, Refilled
<1>4. Filled(n, c)' <=> Filled(n, c)
  BY DEF Consumed, Filled
<1>5. BlockSame(n, c)
  BY <1>2, <1>3, <1>4 DEF BlockSame, Drained
<1> QED BY <1>1, <1>5, SameBlockFits

\* A fill that a store waited for leaves no store pending.
LEMMA MissesStillFit ==
  ASSUME FitInv, NEW n \in Procs, Drained(n), NEW s, Consumed(n, s), fill' = fill
  PROVE  MissesFit(n)'
<1>1. MissesFit(n)
  BY NodeKnown
<1>2. OneEach(outbound'[n]) /\ pendingStores'[n] \subseteq waiting'[n]
  BY <1>1 DEF MissesFit, Drained, Consumed
<1>3. cacheIn[n] => fill[n] \in waiting[n] /\ ~Queued(n, fill[n]) /\ ~InSlot(n, fill[n])
  <2>1. OnePlace(n, fill[n])
    BY NodeKnown DEF BlockFits
  <2> QED BY <2>1 DEF OnePlace, Filled
<1>4. \A b \in pendingStores'[n] : waiting'[n] = {b}
  <2>1. CASE cacheIn[n]
    <3> SUFFICES ASSUME NEW b \in pendingStores'[n]
                 PROVE  FALSE
      OBVIOUS
    <3>1. b \in pendingStores[n] /\ b # fill[n]
      BY <2>1 DEF Consumed
    <3>2. waiting[n] = {b}
      BY <1>1, <3>1 DEF MissesFit
    <3> QED BY <1>3, <2>1, <3>1, <3>2
  <2>2. CASE ~cacheIn[n]
    BY <1>1, <2>2 DEF MissesFit, Consumed
  <2> QED BY <2>1, <2>2
<1>5. ASSUME NEW i, i \in In(outbound[n]) \/ (i = cpuIn[n] /\ i # NoReq)
      PROVE  i.op = "STORE" <=> i.block \in pendingStores'[n]
  <2>1. i.op = "STORE" <=> i.block \in pendingStores[n]
    BY <1>1, <1>5 DEF MissesFit
  <2>2. Queued(n, i.block) \/ InSlot(n, i.block)
    BY <1>5 DEF In, Queued, Has, InSlot
  <2>3. cacheIn[n] => i.block # fill[n]
    BY <1>3, <2>2
  <2> QED BY <2>1, <2>3 DEF Consumed
<1>6. \A i \in In(outbound'[n]) : i.op = "STORE" <=> i.block \in pendingStores'[n]
  BY <1>5 DEF Drained
<1>7. cpuIn'[n] # NoReq => (cpuIn'[n].op = "STORE" <=> cpuIn'[n].block \in pendingStores'[n])
  BY <1>5 DEF Drained
<1> QED BY <1>2, <1>4, <1>6, <1>7 DEF MissesFit

\* The adapter's tick.
LEMMA AdapterTickFits ==
  ASSUME FitInv, FitsInL1, NEW n \in Procs, AdapterTick(n)
  PROVE  FitInv'
<1>1. UNCHANGED <<protocol, left, req, agent, toNode, queue, entry, resp, thrown, ways, fill>>
  BY DEF AdapterTick
<1>2. half' = [half EXCEPT ![n] = "none"]
  BY DEF AdapterTick
<1>3. Drained(n)
  BY DrainMoves DEF AdapterTick
<1>4. PICK s : Consumed(n, s)
  BY ConsumeFinds DEF AdapterTick
<1>5. lines' = [lines EXCEPT ![n] = s] /\ IsL1(s) /\ toDir' = toDir
  BY <1>4 DEF Consumed
<1>6. TypeOK'
  BY <1>1, <1>3, <1>4, <1>5 DEF FitInv, TypeOK, Drained, Consumed
<1>7. ProtocolInv'
  BY <1>1, <1>5, ProtocolIdle DEF FitInv
<1>8. FullTypes'
  <2>1. lines' \in [Procs -> Seq(Lines)] /\ half' \in [Procs -> {"none", "proc", "ntwk"}]
    BY <1>2, <1>5 DEF FitInv, FullTypes, IsL1
  <2> QED BY <1>1, <1>3, <1>4, <2>1 DEF FitInv, FullTypes, Drained, Consumed
<1>9. lines'[n] = s /\ \A m \in Procs : m # n => lines'[m] = lines[m] /\ half'[m] = half[m]
  BY <1>2, <1>5 DEF FitInv, FullTypes
<1>10. OthersSame(n)
  BY <1>1, <1>3, <1>4, <1>9 DEF OthersSame, NodeSame, Drained, Consumed
<1>11. FillSlot(n)' /\ OneEach(lines[n])'
  BY <1>4, <1>5, <1>9 DEF FillSlot, Consumed, IsL1
<1>12. MissesFit(n)'
  BY <1>1, <1>3, <1>4, MissesStillFit
<1>13. ASSUME NEW b \in Blocks
       PROVE  BlockFits(n, b)'
  <2>1. CASE cacheIn[n] /\ b = fill[n]
    <3>1. BlockFits(n, fill[n])'
      BY <1>1, <1>3, <1>4, <2>1, FillFits
    <3> QED BY <1>1, <2>1, <3>1
  <2>2. CASE cacheIn[n] => b # fill[n]
    BY <1>1, <1>3, <1>4, <2>2, RestFits
  <2> QED BY <2>1, <2>2
<1>14. NodeFits(n)'
  BY <1>11, <1>12, <1>13 DEF NodeFits
<1> QED BY <1>6, <1>7, <1>8, <1>10, <1>14, FitFrom

-----------------------------------------------------------------------------
(* The CPU's half of a cache's tick.                                       *)

\* What the rest of the proof needs of a step of the cache: only n's agent for
\* b, its slots and its L1 may change.
CacheActs(n, b, t) ==
  /\ UNCHANGED <<protocol, ways, waiting, outbound, pendingStores>>
  /\ \A m \in Procs, c \in Blocks : ~(m = n /\ c = b) => agent'[m][c] = agent[m][c]
  /\ agent'[n][b] = t
  /\ \A m \in Procs : m # n => /\ cpuIn'[m] = cpuIn[m] /\ cacheIn'[m] = cacheIn[m]
                               /\ lines'[m] = lines[m] /\ fill'[m] = fill[m]
                               /\ half'[m] = half[m]

\* Then the other nodes stay as they are.
LEMMA ActsOthers ==
  ASSUME NEW n, NEW b, NEW t, CacheActs(n, b, t)
  PROVE  OthersSame(n)
  BY DEF CacheActs, OthersSame, NodeSame

\* And so do the node's other blocks, if the slots and lines are not about them.
LEMMA ActsRest ==
  ASSUME FitInv, NEW n \in Procs, NEW b, NEW t, CacheActs(n, b, t),
         NEW c \in Blocks, c # b,
         InSlot(n, c)' <=> InSlot(n, c), Filled(n, c)' <=> Filled(n, c),
         Has(lines'[n], c) <=> Has(lines[n], c), DirtyIn(lines'[n], c) <=> DirtyIn(lines[n], c)
  PROVE  BlockFits(n, c)'
<1>1. BlockFits(n, c) /\ OnePlace(n, c)
  BY NodeKnown DEF BlockFits
<1>2. Queued(n, c)' <=> Queued(n, c)
  BY DEF CacheActs, Queued
<1>3. BlockSame(n, c)
  BY <1>1, <1>2 DEF BlockSame, CacheActs, OnePlace
<1> QED BY <1>1, <1>3, SameBlockFits

\* A message to the directory is a change of its channels.
LEMMA SendsChange ==
  ASSUME FitInv, NEW n \in Procs, NEW z, SentUp(n, z)
  PROVE  toDir' # toDir
<1>1. toDir \in [Procs -> Seq(ToDirMsg)] /\ toDir[n] \in Seq(ToDirMsg)
  BY DEF FitInv, TypeOK
<1>2. toDir'[n] = Append(toDir[n], z)
  BY <1>1 DEF SentUp
<1>3. Len(Append(toDir[n], z)) = Len(toDir[n]) + 1 /\ Len(toDir[n]) \in Nat
  BY <1>1
<1> QED BY <1>2, <1>3

\* The agent that is asked does not wait, and its cache's slot for fills is free.
LEMMA AskedReady ==
  ASSUME FitInv, NEW n \in Procs, half[n] = "none", cpuIn[n] # NoReq, NEW b, b = cpuIn[n].block
  PROVE  /\ b \in Blocks /\ cpuIn[n].op \in {"LOAD", "STORE"}
         /\ cpuIn[n].op = "STORE" <=> b \in pendingStores[n]
         /\ InSlot(n, b) /\ ~Queued(n, b) /\ ~WithAgent(n, b) /\ ~cacheIn[n]
         /\ b \in waiting[n] /\ agent[n][b] \in DirStable /\ BlockFits(n, b)
<1>1. cpuIn[n] \in Instrs
  BY NodeKnown
<1>2. b \in Blocks /\ cpuIn[n].op \in {"LOAD", "STORE"}
  BY <1>1 DEF Instrs
<1>3. InSlot(n, b) /\ BlockFits(n, b)
  BY <1>2, NodeKnown DEF InSlot
<1>4. ~cacheIn[n] /\ (cpuIn[n].op = "STORE" <=> b \in pendingStores[n])
  BY NodeKnown DEF FillSlot, MissesFit
<1> QED BY <1>2, <1>3, <1>4 DEF BlockFits, OnePlace, WithAgent

\* A hit answers from the CPU's half; only a store under MI can hit.
LEMMA HitFits ==
  ASSUME FitInv, NEW n \in Procs, half[n] = "none", cpuIn[n] # NoReq,
         NEW b, b = cpuIn[n].block, CacheActs(n, b, agent[n][b]),
         Hit(n, b, cpuIn[n].op), cpuIn'[n] = NoReq, cacheIn'[n], fill'[n] = b,
         lines' = lines, half'[n] = "proc"
  PROVE  NodeFits(n)'
<1>1. /\ b \in Blocks /\ cpuIn[n].op \in {"LOAD", "STORE"}
      /\ cpuIn[n].op = "STORE" <=> b \in pendingStores[n]
      /\ InSlot(n, b) /\ ~Queued(n, b) /\ ~WithAgent(n, b) /\ ~cacheIn[n]
      /\ b \in waiting[n] /\ agent[n][b] \in DirStable /\ BlockFits(n, b)
  BY AskedReady
<1>2. protocol = "MI" /\ b \in pendingStores[n]
  <2>1. StillMissing(n, b)
    BY <1>1 DEF BlockFits
  <2> QED BY <1>1, <2>1 DEF StillMissing, Hit
<1>3. UNCHANGED <<protocol, ways, waiting, outbound, pendingStores>> /\ agent'[n][b] = agent[n][b]
  BY DEF CacheActs
<1>4. FillSlot(n)' /\ OneEach(lines[n])' /\ MissesFit(n)'
  <2>1. MissesFit(n) /\ OneEach(lines[n])
    BY NodeKnown DEF IsL1
  <2>2. FillSlot(n)'
    BY <1>2, <1>3 DEF FillSlot
  <2> QED BY <1>3, <2>1, <2>2 DEF MissesFit
<1>5. BlockFits(n, b)'
  <2>1. ~Queued(n, b)' /\ ~InSlot(n, b)' /\ ~WithAgent(n, b)' /\ Filled(n, b)'
    BY <1>1, <1>3 DEF Queued, InSlot, WithAgent, Filled
  <2>2. OnePlace(n, b)' /\ StillMissing(n, b)' /\ AgentAsked(n, b)'
    BY <1>1, <1>3, <2>1 DEF OnePlace, StillMissing, AgentAsked
  <2>3. FillBacked(n, b)' /\ LineKnown(n, b)' /\ LineBacked(n, b)'
    BY <1>1, <1>2, <1>3 DEF FillBacked, LineKnown, LineBacked, BlockFits
  <2> QED BY <2>2, <2>3 DEF BlockFits
<1>6. ASSUME NEW c \in Blocks, c # b
      PROVE  BlockFits(n, c)'
  <2>1. /\ InSlot(n, c)' <=> InSlot(n, c)
        /\ Filled(n, c)' <=> Filled(n, c)
    BY <1>1, <1>6 DEF InSlot, Filled
  <2>2. /\ Has(lines'[n], c) <=> Has(lines[n], c)
        /\ DirtyIn(lines'[n], c) <=> DirtyIn(lines[n], c)
    OBVIOUS
  <2> QED BY <1>6, <2>1, <2>2, ActsRest
<1> QED BY <1>1, <1>4, <1>5, <1>6 DEF NodeFits

\* A miss leaves the agent waiting for what was asked.
LEMMA MissFits ==
  ASSUME FitInv, NEW n \in Procs, half[n] = "none", cpuIn[n] # NoReq,
         NEW b, b = cpuIn[n].block, NEW k, NEW t, CacheActs(n, b, t),
         Miss(n, b, cpuIn[n].op, k, t), cpuIn'[n] = NoReq, cacheIn'[n] = cacheIn[n], fill' = fill,
         lines' = lines
  PROVE  NodeFits(n)'
<1>1. /\ b \in Blocks /\ cpuIn[n].op \in {"LOAD", "STORE"}
      /\ cpuIn[n].op = "STORE" <=> b \in pendingStores[n]
      /\ InSlot(n, b) /\ ~Queued(n, b) /\ ~WithAgent(n, b) /\ ~cacheIn[n]
      /\ b \in waiting[n] /\ agent[n][b] \in DirStable /\ BlockFits(n, b)
  BY AskedReady
<1>2. /\ AskRow(agent[n][b], k, t)
      /\ t = "IS" <=> cpuIn[n].op = "LOAD" /\ protocol # "MI"
  BY DEF Miss
<1>3. UNCHANGED <<protocol, ways, waiting, outbound, pendingStores>> /\ agent'[n][b] = t
  BY DEF CacheActs
<1>4. FillSlot(n)' /\ OneEach(lines[n])' /\ MissesFit(n)'
  <2>1. MissesFit(n) /\ OneEach(lines[n])
    BY NodeKnown DEF IsL1
  <2>2. FillSlot(n)'
    BY <1>1 DEF FillSlot
  <2> QED BY <1>3, <2>1, <2>2 DEF MissesFit
<1>5. BlockFits(n, b)'
  <2>1. t \notin DirStable
    BY <1>2 DEF AskRow, DirStable
  <2>2. ~Queued(n, b)' /\ ~InSlot(n, b)' /\ WithAgent(n, b)' /\ ~Filled(n, b)'
    BY <1>1, <1>3, <2>1 DEF Queued, InSlot, WithAgent, Filled
  <2>3. OnePlace(n, b)' /\ StillMissing(n, b)' /\ FillBacked(n, b)' /\ LineKnown(n, b)'
    BY <1>1, <1>3, <2>2 DEF OnePlace, StillMissing, FillBacked, LineKnown
  <2>4. AgentAsked(n, b)'
    BY <1>1, <1>2, <1>3 DEF AgentAsked
  <2>5. LineBacked(n, b)'
    <3> SUFFICES ASSUME protocol # "MI"
                 PROVE  /\ Has(lines[n], b) => Level(t) >= 1
                        /\ DirtyIn(lines[n], b) => t \in {"M", "O", "OM"}
      BY <1>3 DEF LineBacked
    <3>1. LineBacked(n, b)
      BY <1>1 DEF BlockFits
    <3>2. Level(agent[n][b]) >= 1 => Level(t) >= 1
      BY <1>2 DEF AskRow, Level
    <3>3. agent[n][b] \in {"M", "O", "OM"} => t = "OM"
      BY <1>2 DEF AskRow
    <3> QED BY <3>1, <3>2, <3>3 DEF LineBacked
  <2> QED BY <2>3, <2>4, <2>5 DEF BlockFits
<1>6. ASSUME NEW c \in Blocks, c # b
      PROVE  BlockFits(n, c)'
  <2>1. /\ InSlot(n, c)' <=> InSlot(n, c)
        /\ Filled(n, c)' <=> Filled(n, c)
    BY <1>1, <1>6 DEF InSlot, Filled
  <2>2. /\ Has(lines'[n], c) <=> Has(lines[n], c)
        /\ DirtyIn(lines'[n], c) <=> DirtyIn(lines[n], c)
    OBVIOUS
  <2> QED BY <1>6, <2>1, <2>2, ActsRest
<1> QED BY <1>1, <1>4, <1>5, <1>6 DEF NodeFits

\* The CPU's half.
LEMMA AgentProcFits ==
  ASSUME FitInv, NEW n \in Procs, AgentProc(n)
  PROVE  FitInv'
<1> DEFINE b == cpuIn[n].block
<1>1. /\ half[n] = "none" /\ half' = [half EXCEPT ![n] = "proc"]
      /\ cpuIn[n] # NoReq /\ cpuIn' = [cpuIn EXCEPT ![n] = NoReq]
      /\ AgentStep(n, b, cpuIn[n].op, ProcRows)
      /\ UNCHANGED <<protocol, left, req, toNode, queue, entry, resp>>
      /\ UNCHANGED <<ways, lines, waiting, outbound, pendingStores>>
      /\ fill' = IF ~thrown' /\ toDir' = toDir THEN [fill EXCEPT ![n] = b] ELSE fill
  BY DEF AgentProc, CacheProc, Deposit, l1Vars
<1>2. /\ b \in Blocks /\ cpuIn[n].op \in {"LOAD", "STORE"} /\ agent[n][b] \in DirStable
      /\ NetworkTypes /\ ProtocolInv
  BY <1>1, AskedReady, NodeKnown DEF FitInv
<1>3. TypeOK'
  <2>1. SystemTypes(ToDirMsg)
    BY SameTypes DEF FitInv
  <2>2. SystemTypes(ToDirMsg)'
    BY <2>1, CacheTypes DEF AgentProc
  <2> QED BY <2>2 DEF TypeOK, SystemTypes
<1>4. ProtocolInv'
  BY <1>1, <1>2, ProcKeeps
<1> HIDE DEF b
<1>5. FullTypes'
  BY <1>1, <1>2 DEF FitInv, FullTypes
<1>6. /\ cpuIn'[n] = NoReq /\ half'[n] = "proc"
      /\ \A m \in Procs : m # n => cpuIn'[m] = cpuIn[m] /\ half'[m] = half[m] /\ fill'[m] = fill[m]
  BY <1>1 DEF FitInv, FullTypes, TypeOK
<1>7. CASE Hit(n, b, cpuIn[n].op)
  <2>1. /\ cacheIn' = [cacheIn EXCEPT ![n] = TRUE] /\ UNCHANGED <<agent, toDir, thrown>>
    BY <1>7 DEF Hit
  <2>2. /\ cacheIn'[n] /\ \A m \in Procs : m # n => cacheIn'[m] = cacheIn[m]
    BY <2>1 DEF FitInv, TypeOK
  <2>3. fill'[n] = b
    BY <1>1, <1>4, <2>1 DEF FitInv, FullTypes, ProtocolInv
  <2>4. CacheActs(n, b, agent[n][b])
    BY <1>1, <1>6, <2>1, <2>2 DEF CacheActs
  <2>5. NodeFits(n)'
    BY <1>1, <1>6, <1>7, <2>2, <2>3, <2>4, HitFits DEF b
  <2> QED BY <1>3, <1>4, <1>5, <2>4, <2>5, FitFrom, ActsOthers
<1>8. ASSUME NEW k, NEW t, Miss(n, b, cpuIn[n].op, k, t)
      PROVE  FitInv'
  <2>1. /\ AgentGoes(n, b, t) /\ cacheIn' = cacheIn /\ SentUp(n, Upward(n, b, k))
    BY <1>8 DEF Miss
  <2>2. fill' = fill
    BY <1>1, <2>1, SendsChange
  <2>3. CacheActs(n, b, t)
    BY <1>1, <1>2, <1>6, <2>1, AgentChanges DEF CacheActs
  <2>4. NodeFits(n)'
    BY <1>1, <1>6, <1>8, <2>1, <2>2, <2>3, MissFits DEF b
  <2> QED BY <1>3, <1>4, <1>5, <2>3, <2>4, FitFrom, ActsOthers
<1> QED BY <1>1, <1>2, <1>7, <1>8, ProcAgent

-----------------------------------------------------------------------------
(* The network's half of a cache's tick.                                   *)

\* An answer is the fill of the block that was asked for.
LEMMA AnswerFits ==
  ASSUME FitInv, NEW n \in Procs, half[n] # "ntwk", NEW b \in Blocks, NEW k, AnswerComes(n, b, k),
         NEW t, t = Due(agent[n][b], {k}), CacheActs(n, b, t),
         cpuIn' = cpuIn, cacheIn'[n], fill'[n] = b, lines' = lines, half'[n] = "ntwk"
  PROVE  NodeFits(n)'
<1>1. /\ NetworkTypes /\ ProtocolInv /\ BlockFits(n, b) /\ agent[n][b] \in AgentStates
      /\ MissesFit(n) /\ OneEach(lines[n]) /\ FillSlot(n)
  BY NodeKnown DEF FitInv, IsL1
<1>2. /\ WithAgent(n, b) /\ t \in DirStable
      /\ t \in {"S", "E", "M"} /\ Level(t) >= Level(agent[n][b])
      /\ agent[n][b] # "IS" => t = "M"
  BY <1>1, AnswerWaited, AnswerLevels DEF WithAgent
<1>3. agent[n][b] = "IS" => t \in {"S", "E"}
  <2>1. RequestKind(protocol, n, agent[n][b], Ups(b)[n], Downs(b)[n], entry[b])
        /\ k \in AnsKinds /\ k \in Downs(b)[n]
    BY <1>1, NodeRight DEF NodeOK, AnswerComes
  <2>2. agent[n][b] = "IS" => k # "ACK"
    BY <2>1 DEF RequestKind
  <2> QED BY <2>1, <2>2 DEF Due, AnsKinds
<1>4. /\ ~Queued(n, b) /\ ~InSlot(n, b) /\ ~Filled(n, b) /\ b \in waiting[n]
  BY <1>1, <1>2 DEF BlockFits, OnePlace
<1>5. UNCHANGED <<protocol, ways, waiting, outbound, pendingStores>> /\ agent'[n][b] = t
  BY DEF CacheActs
\* The slot was free: a hit under MI belongs to a store, which waits alone.
<1>6. ~cacheIn[n]
  <2> SUFFICES ASSUME cacheIn[n]
               PROVE  FALSE
    OBVIOUS
  <2>1. fill[n] \in pendingStores[n]
    BY <1>1 DEF FillSlot
  <2>2. waiting[n] = {fill[n]}
    BY <1>1, <2>1 DEF MissesFit
  <2> QED BY <1>4, <2>2 DEF Filled
<1>7. FillSlot(n)' /\ OneEach(lines[n])' /\ MissesFit(n)'
  BY <1>1, <1>5 DEF MissesFit, FillSlot
<1>8. BlockFits(n, b)'
  <2>1. ~Queued(n, b)' /\ ~InSlot(n, b)' /\ ~WithAgent(n, b)' /\ Filled(n, b)'
    BY <1>2, <1>4, <1>5 DEF Queued, InSlot, WithAgent, Filled
  <2>2. OnePlace(n, b)' /\ StillMissing(n, b)' /\ AgentAsked(n, b)' /\ LineKnown(n, b)'
    BY <1>4, <1>5, <2>1 DEF OnePlace, StillMissing, AgentAsked, LineKnown
  <2>3. FillBacked(n, b)'
    <3>1. AgentAsked(n, b)
      BY <1>1 DEF BlockFits
    <3>2. protocol # "MI" => IF b \in pendingStores[n] THEN t = "M" ELSE t \in {"S", "E"}
      BY <1>2, <1>3, <3>1 DEF AgentAsked
    <3> QED BY <1>5, <3>2 DEF FillBacked
  <2>4. LineBacked(n, b)'
    <3> SUFFICES ASSUME protocol # "MI"
                 PROVE  /\ Has(lines[n], b) => Level(t) >= 1
                        /\ DirtyIn(lines[n], b) => t \in {"M", "O", "OM"}
      BY <1>5 DEF LineBacked
    <3>1. LineBacked(n, b)
      BY <1>1 DEF BlockFits
    <3>2. Level(t) >= 1
      BY <1>2 DEF Level
    <3>3. agent[n][b] \in {"M", "O", "OM"} => t = "M"
      BY <1>2
    <3> QED BY <3>1, <3>2, <3>3 DEF LineBacked
  <2> QED BY <2>2, <2>3, <2>4 DEF BlockFits
<1>9. ASSUME NEW c \in Blocks, c # b
      PROVE  BlockFits(n, c)'
  <2>1. /\ InSlot(n, c)' <=> InSlot(n, c)
        /\ Filled(n, c)' <=> Filled(n, c)
    BY <1>6, <1>9 DEF InSlot, Filled
  <2>2. /\ Has(lines'[n], c) <=> Has(lines[n], c)
        /\ DirtyIn(lines'[n], c) <=> DirtyIn(lines[n], c)
    OBVIOUS
  <2> QED BY <1>9, <2>1, <2>2, ActsRest
<1> QED BY <1>7, <1>8, <1>9 DEF NodeFits

\* What a recall or an invalidation leaves of the line in s.
Yielded(n, b, r, s) ==
  /\ IsL1(s)
  /\ \A c : c # b => (Has(s, c) <=> Has(lines[n], c)) /\ (DirtyIn(s, c) <=> DirtyIn(lines[n], c))
  /\ IF r = "RECALL_GOTO_S"
     THEN /\ Has(s, b) <=> Has(lines[n], b)
          /\ DirtyIn(s, b) <=> StaysOwner(b) /\ DirtyIn(lines[n], b)
     ELSE ~Has(s, b)

\* on_ntwk_event leaves that.
LEMMA EventYields ==
  ASSUME NEW n, NEW b \in Blocks, NEW r \in ProbeKinds, IsL1(lines[n])
  PROVE  Yielded(n, b, r, NtwkEvent(n, Downward(b, r)))
<1> DEFINE s == NtwkEvent(n, Downward(b, r))
<1>0. Downward(b, r).block = b /\ Downward(b, r).kind = r
  BY DEF Downward
<1>1. CASE r \in {"REQ_INVALID", "RECALL_GOTO_I"}
  <2>1. s = Without(lines[n], b)
    BY <1>0, <1>1 DEF NtwkEvent
  <2>2. /\ IsL1(Without(lines[n], b)) /\ Len(Without(lines[n], b)) <= Len(lines[n])
        /\ \A c : Has(Without(lines[n], b), c) <=> c # b /\ Has(lines[n], c)
        /\ \A c : DirtyIn(Without(lines[n], b), c) <=> c # b /\ DirtyIn(lines[n], c)
    BY WithoutLine
  <2> HIDE DEF s
  <2> QED BY <1>1, <2>1, <2>2 DEF Yielded, s
<1>2. CASE r = "RECALL_GOTO_S" /\ ~StaysOwner(b)
  <2>1. s = Marked(lines[n], b, FALSE)
    BY <1>0, <1>2 DEF NtwkEvent
  <2>2. \E d \in BOOLEAN : d = FALSE
    OBVIOUS
  <2>3. PICK d \in BOOLEAN : d = FALSE
    BY <2>2
  <2>4. /\ IsL1(Marked(lines[n], b, d)) /\ Len(Marked(lines[n], b, d)) = Len(lines[n])
        /\ \A c : Has(Marked(lines[n], b, d), c) <=> Has(lines[n], c)
        /\ \A c : c # b => (DirtyIn(Marked(lines[n], b, d), c) <=> DirtyIn(lines[n], c))
        /\ DirtyIn(Marked(lines[n], b, d), b) <=> Has(lines[n], b) /\ d
    BY MarkedLine
  <2>5. Marked(lines[n], b, d) = s
    BY <2>1, <2>3
  <2> HIDE DEF s
  <2> QED BY <1>2, <2>3, <2>4, <2>5 DEF Yielded, s
<1>3. CASE r = "RECALL_GOTO_S" /\ StaysOwner(b)
  <2>1. s = lines[n]
    BY <1>0, <1>3 DEF NtwkEvent
  <2> HIDE DEF s
  <2> QED BY <1>3, <2>1 DEF Yielded, s
<1> QED BY <1>1, <1>2, <1>3 DEF ProbeKinds

\* A recalled or invalidated copy goes with its line.
LEMMA ProbeFits ==
  ASSUME FitInv, NEW n \in Procs, half[n] # "ntwk", NEW b \in Blocks, NEW r, NEW k, NEW t,
         ProbeComes(n, b, r, k, t), CacheActs(n, b, t),
         cpuIn' = cpuIn, cacheIn'[n] = cacheIn[n], fill' = fill, half'[n] = "ntwk",
         Yielded(n, b, r, lines'[n])
  PROVE  NodeFits(n)'
<1>1. /\ BlockFits(n, b) /\ agent[n][b] \in AgentStates /\ protocol \in Protocol
      /\ MissesFit(n) /\ FillSlot(n)
  BY NodeKnown DEF NetworkTypes
<1>2. /\ ProbeRow(protocol, agent[n][b], r, k, t) /\ r \in ProbeKinds
      /\ Level(t) <= Level(agent[n][b]) /\ Level(agent[n][b]) \in 0..3 /\ t \in AgentStates
  <2>1. ProbeRow(protocol, agent[n][b], r, k, t) /\ r \in ProbeKinds
    BY DEF ProbeComes, Yields
  <2>2. t \in AgentStates /\ (Level(t) < Level(agent[n][b]) \/ Level(t) = Level(agent[n][b]))
    BY <2>1, ProbeLevels
  <2> QED BY <1>1, <2>1, <2>2, LevelValues
<1>3. UNCHANGED <<protocol, ways, waiting, outbound, pendingStores>> /\ agent'[n][b] = t
  BY DEF CacheActs
<1>4. FillSlot(n)' /\ OneEach(lines[n])' /\ MissesFit(n)'
  BY <1>1, <1>3 DEF MissesFit, FillSlot, Yielded, IsL1
<1>5. /\ Queued(n, b)' <=> Queued(n, b)
      /\ InSlot(n, b)' <=> InSlot(n, b)
      /\ WithAgent(n, b)' <=> WithAgent(n, b)
      /\ Filled(n, b)' <=> Filled(n, b)
  <2>1. t \in DirStable <=> agent[n][b] \in DirStable
    BY <1>2 DEF ProbeRow, DirStable
  <2> QED BY <1>3, <2>1 DEF Queued, InSlot, WithAgent, Filled
<1>6. t # "M" /\ t # "IS" /\ agent[n][b] # "IS" /\ (agent[n][b] = "I" => FALSE)
  BY <1>2 DEF ProbeRow
<1>7. BlockFits(n, b)'
  <2>1. OnePlace(n, b)' /\ AgentAsked(n, b)'
    BY <1>1, <1>3, <1>5, <1>6 DEF BlockFits, OnePlace, AgentAsked
  <2>2. StillMissing(n, b)'
    BY <1>1, <1>3, <1>5, <1>6 DEF BlockFits, StillMissing
\* A fill is in the slot only between the two halves of a tick under MI.
  <2>3. FillBacked(n, b)'
    BY <1>1, <1>3, <1>5 DEF FillSlot, Filled, FillBacked
  <2>4. LineKnown(n, b)'
    <3>1. Level(t) >= 1 => r = "RECALL_GOTO_S" /\ Level(agent[n][b]) >= 1
      BY <1>2 DEF ProbeRow, Level
    <3>2. LineKnown(n, b)
      BY <1>1 DEF BlockFits
    <3> QED BY <1>3, <1>6, <3>1, <3>2 DEF LineKnown, Yielded
  <2>5. LineBacked(n, b)'
    <3> SUFFICES ASSUME protocol # "MI"
                 PROVE  /\ Has(lines'[n], b) => Level(t) >= 1
                        /\ DirtyIn(lines'[n], b) => t \in {"M", "O", "OM"}
      BY <1>3 DEF LineBacked
    <3>1. LineBacked(n, b)
      BY <1>1 DEF BlockFits
    <3>2. CASE r = "RECALL_GOTO_S"
      <4>1. Level(t) >= 1
        BY <1>2, <3>2 DEF ProbeRow, Level
      <4>2. StaysOwner(b) => protocol \in {"MOSI", "MOESIF"}
        BY DEF StaysOwner
      <4>3. agent[n][b] \in {"M", "O", "OM"} /\ protocol \in {"MOSI", "MOESIF"} =>
              t \in {"M", "O", "OM"}
        BY <1>2, <3>2 DEF ProbeRow
      <4> QED BY <3>1, <3>2, <4>1, <4>2, <4>3 DEF LineBacked, Yielded
    <3>3. CASE r # "RECALL_GOTO_S"
      <4>1. ~Has(lines'[n], b) /\ ~DirtyIn(lines'[n], b)
        BY <3>3 DEF Yielded, Has, DirtyIn
      <4> QED BY <4>1
    <3> QED BY <3>2, <3>3
  <2> QED BY <2>1, <2>2, <2>3, <2>4, <2>5 DEF BlockFits
<1>8. ASSUME NEW c \in Blocks, c # b
      PROVE  BlockFits(n, c)'
  <2>1. /\ InSlot(n, c)' <=> InSlot(n, c)
        /\ Filled(n, c)' <=> Filled(n, c)
    BY DEF InSlot, Filled
  <2>2. /\ Has(lines'[n], c) <=> Has(lines[n], c)
        /\ DirtyIn(lines'[n], c) <=> DirtyIn(lines[n], c)
    BY <1>8 DEF Yielded
  <2> QED BY <1>8, <2>1, <2>2, ActsRest
<1> QED BY <1>4, <1>7, <1>8 DEF NodeFits

\* The network's half.
LEMMA AgentNtwkFits ==
  ASSUME FitInv, NEW n \in Procs, AgentNtwk(n)
  PROVE  FitInv'
<1> DEFINE m == Head(toNode[n])
           s == NtwkEvent(n, m)
<1>1. /\ half[n] # "ntwk" /\ half' = [half EXCEPT ![n] = "ntwk"] /\ TakenDown(n)
      /\ AgentStep(n, m.block, m.kind, NtwkRows)
      /\ UNCHANGED <<protocol, left, req, cpuIn, queue, entry, resp>>
      /\ UNCHANGED <<ways, waiting, outbound, pendingStores>>
      /\ lines' = [lines EXCEPT ![n] = s]
      /\ fill' = IF ~thrown' /\ toDir' = toDir THEN [fill EXCEPT ![n] = m.block] ELSE fill
  BY DEF AgentNtwk, CacheNtwk, Deposit, TakenDown
<1>2. NetworkTypes /\ ProtocolInv /\ IsL1(lines[n])
  BY NodeKnown DEF FitInv
<1>3. TypeOK'
  <2>1. SystemTypes(ToDirMsg)
    BY SameTypes DEF FitInv
  <2>2. SystemTypes(ToDirMsg)'
    BY <2>1, CacheTypes DEF AgentNtwk
  <2> QED BY <2>2 DEF TypeOK, SystemTypes
<1>4. ProtocolInv'
  BY <1>1, <1>2, NtwkKeeps
<1>5. PICK b \in Blocks : \/ \E k : AnswerComes(n, b, k)
                          \/ \E r, k, t : ProbeComes(n, b, r, k, t)
  BY <1>1, <1>2, NtwkCases
<1> HIDE DEF s
<1>6. /\ half'[n] = "ntwk" /\ lines'[n] = s
      /\ \A q \in Procs : q # n => lines'[q] = lines[q] /\ half'[q] = half[q] /\ fill'[q] = fill[q]
  BY <1>1 DEF FitInv, FullTypes
<1>7. ASSUME NEW k, AnswerComes(n, b, k)
      PROVE  FitInv'
  <2> DEFINE t == Due(agent[n][b], {k})
  <2>1. /\ AgentGoes(n, b, t) /\ cacheIn' = [cacheIn EXCEPT ![n] = TRUE] /\ toDir' = toDir
        /\ k \in AnsKinds /\ m = Downward(b, k)
    BY <1>7 DEF AnswerComes, GetsAnswer
  <2>2. /\ cacheIn'[n] /\ \A q \in Procs : q # n => cacheIn'[q] = cacheIn[q]
    BY <2>1 DEF FitInv, TypeOK
  <2>3. m.block = b /\ m.kind = k
    BY <2>1 DEF Downward
  <2>4. s = lines[n]
    BY <2>1, <2>3 DEF s, NtwkEvent, AnsKinds
  <2>5. lines' = lines
    BY <1>1, <2>4 DEF FitInv, FullTypes
  <2>6. fill' = [fill EXCEPT ![n] = b] /\ fill'[n] = b
    BY <1>1, <1>4, <2>1, <2>3 DEF FitInv, FullTypes, ProtocolInv
  <2>7. FullTypes'
    BY <1>1, <2>5, <2>6 DEF FitInv, FullTypes
  <2>8. t = Due(agent[n][b], {k})
    OBVIOUS
  <2> HIDE DEF t, m
  <2>9. CacheActs(n, b, t)
    BY <1>1, <1>2, <1>6, <2>1, <2>2, AgentChanges DEF CacheActs
  <2>10. NodeFits(n)'
    BY <1>1, <1>6, <1>7, <2>2, <2>5, <2>6, <2>8, <2>9, AnswerFits
  <2> QED BY <1>3, <1>4, <2>7, <2>9, <2>10, FitFrom, ActsOthers
<1>8. ASSUME NEW r, NEW k, NEW t, ProbeComes(n, b, r, k, t)
      PROVE  FitInv'
  <2>1. /\ AgentGoes(n, b, t) /\ cacheIn' = cacheIn /\ SentUp(n, Upward(n, b, k))
        /\ r \in ProbeKinds /\ m = Downward(b, r)
    BY <1>8 DEF ProbeComes, Yields
  <2>2. fill' = fill
    BY <1>1, <2>1, SendsChange
  <2>3. Yielded(n, b, r, s)
    BY <1>2, <2>1, EventYields DEF s
  <2>4. FullTypes'
    BY <1>1, <2>2, <2>3 DEF FitInv, FullTypes, Yielded, IsL1
  <2> HIDE DEF m
  <2>5. CacheActs(n, b, t)
    BY <1>1, <1>2, <1>6, <2>1, AgentChanges DEF CacheActs
  <2>6. Yielded(n, b, r, lines'[n])
    BY <1>6, <2>3
  <2>7. NodeFits(n)'
    BY <1>1, <1>6, <1>8, <2>1, <2>2, <2>5, <2>6, ProbeFits
  <2> QED BY <1>3, <1>4, <2>4, <2>5, <2>7, FitFrom, ActsOthers
<1> QED BY <1>5, <1>7, <1>8

-----------------------------------------------------------------------------
(* The directory.                                                          *)

\* The directory's steps change nothing of a node but its channels.
LEMMA DirectorySide ==
  ASSUME FitInv, TypeOK', ProtocolInv',
         UNCHANGED <<protocol, cpuIn, cacheIn, agent>>,
         UNCHANGED <<ways, l1Vars, fill, half>>
  PROVE  FitInv'
<1>1. FullTypes'
  BY DEF FitInv, FullTypes, l1Vars
<1>2. ASSUME NEW m \in Procs
      PROVE  NodeFits(m)'
  <2>1. NodeSame(m)
    BY DEF NodeSame, l1Vars
  <2> QED BY <2>1, SameNodeFits DEF FitInv
<1> QED BY <1>1, <1>2 DEF FitInv

\* A message arrives.
LEMMA ArriveFits ==
  ASSUME FitInv, NEW n \in Procs, Arrive(n)
  PROVE  FitInv'
<1>1. TypeOK'
  <2>1. SystemTypes(ToDirMsg)
    BY SameTypes DEF FitInv
  <2>2. SystemTypes(ToDirMsg)'
    BY <2>1, ArriveTypes DEF Arrive
  <2> QED BY <2>2 DEF TypeOK, SystemTypes
<1>2. ProtocolInv'
  BY NodeKnown, ArriveStep DEF Arrive, FitInv
<1> QED BY <1>1, <1>2, DirectorySide DEF Arrive, DirArrive

\* The directory handles the protocols' messages, for nothing is written back.
LEMMA DirectoryFits ==
  ASSUME FitInv, Directory
  PROVE  FitInv'
<1>1. SystemTypes(ToDirMsg) /\ NetworkTypes /\ ProtocolInv
  BY SameTypes, NetworkTyped DEF FitInv
<1>2. queue # <<>> => Head(queue) \in ToDirMsg
  BY HeadTailProperties DEF FitInv, TypeOK
<1>3. CASE HandleWriteback
  <2>1. queue # <<>> /\ Head(queue).kind = "DATA_WB"
    BY <1>3 DEF HandleWriteback
  <2> QED BY <1>2, <2>1 DEF ToDirMsg, ReqKinds
<1>4. CASE ProtocolTick
  <2>1. SystemTypes(ToDirMsg)' /\ ProtocolInv'
    BY <1>1, <1>2, <1>4, DirTickTypes, DirectoryStep DEF ProtocolTick
  <2>2. TypeOK'
    BY <2>1 DEF TypeOK, SystemTypes
  <2> QED BY <1>4, <2>1, <2>2, DirectorySide DEF Directory, ProtocolTick, DirTick
<1>5. CASE DirRespond
  <2>1. SystemTypes(ToDirMsg)' /\ ProtocolInv'
    BY <1>1, <1>5, RespondTypes, RespondStep
  <2>2. TypeOK'
    BY <2>1 DEF TypeOK, SystemTypes
  <2> QED BY <1>5, <2>1, <2>2, DirectorySide DEF Directory, DirRespond
<1> QED BY <1>3, <1>4, <1>5 DEF Directory

-----------------------------------------------------------------------------
(* The invariant, as long as nothing is evicted.                           *)

\* An empty system has no misses, no lines and no copies.
LEMMA StartFits ==
  ASSUME FullInit
  PROVE  FitInv
<1>1. SystemInit
  BY DEF FullInit
<1>2. TypeOK /\ ProtocolInv
  BY <1>1, InitTypes, Initially
<1>3. (CHOOSE b \in Blocks : TRUE) \in Blocks
  BY FullModeAssumption
<1>4. FullTypes
  BY <1>3, FullModeAssumption DEF FullInit, FullTypes
<1>5. ASSUME NEW n \in Procs
      PROVE  NodeFits(n)
  <2>1. /\ lines[n] = <<>> /\ waiting[n] = {} /\ outbound[n] = <<>> /\ pendingStores[n] = {}
        /\ cpuIn[n] = NoReq /\ ~cacheIn[n] /\ \A b \in Blocks : agent[n][b] = "I"
    BY <1>1 DEF FullInit, SystemInit, Init
  <2>2. DOMAIN <<>> = {}
    OBVIOUS
  <2>3. OneEach(<<>>) /\ In(<<>>) = {} /\ \A b : ~Has(<<>>, b) /\ ~DirtyIn(<<>>, b)
    BY <2>2 DEF OneEach, In, Has, DirtyIn
  <2>4. MissesFit(n) /\ FillSlot(n) /\ OneEach(lines[n])
    BY <2>1, <2>3 DEF MissesFit, FillSlot
  <2>5. ASSUME NEW b \in Blocks
        PROVE  BlockFits(n, b)
    <3>1. ~Queued(n, b) /\ ~InSlot(n, b) /\ ~WithAgent(n, b) /\ ~Filled(n, b)
      BY <2>1, <2>3 DEF Queued, InSlot, WithAgent, Filled, DirStable
    <3>2. Level("I") = 0
      BY DEF Level
    <3>3. OnePlace(n, b) /\ StillMissing(n, b) /\ AgentAsked(n, b) /\ FillBacked(n, b)
      BY <2>1, <3>1 DEF OnePlace, StillMissing, AgentAsked, FillBacked
    <3>4. LineKnown(n, b) /\ LineBacked(n, b)
      BY <2>1, <2>3, <3>2 DEF LineKnown, LineBacked
    <3> QED BY <3>3, <3>4 DEF BlockFits
  <2> QED BY <2>4, <2>5 DEF NodeFits
<1> QED BY <1>2, <1>4, <1>5 DEF FitInv

\* The capacity is fixed for a run.
LEMMA WaysFixed ==
  ASSUME [FullNext]_fullVars
  PROVE  ways' = ways
  BY DEF FullNext, fullVars, Core, CoreHit, CoreMiss, AdapterTick, AgentProc, AgentNtwk, Arrive,
         Directory

\* Every step of a system whose L1s hold every block.
LEMMA StepFits ==
  ASSUME FitInv, FitsInL1, [FullNext]_fullVars
  PROVE  FitInv'
<1>1. CASE UNCHANGED fullVars
  <2>1. UNCHANGED vars /\ UNCHANGED <<ways, l1Vars, fill, half>>
    BY <1>1 DEF fullVars, l1Vars
  <2>2. TypeOK' /\ ProtocolInv'
    BY <2>1, ProtocolIdle DEF FitInv, TypeOK, vars
  <2> QED BY <2>1, <2>2, DirectorySide DEF vars
<1>2. ASSUME NEW n \in Procs, Core(n)
      PROVE  FitInv'
  BY <1>2, CoreHitFits, CoreMissFits DEF Core
<1>3. ASSUME NEW n \in Procs, AdapterTick(n)
      PROVE  FitInv'
  BY <1>3, AdapterTickFits
<1>4. ASSUME NEW n \in Procs, AgentProc(n)
      PROVE  FitInv'
  BY <1>4, AgentProcFits
<1>5. ASSUME NEW n \in Procs, AgentNtwk(n)
      PROVE  FitInv'
  BY <1>5, AgentNtwkFits
<1>6. ASSUME NEW n \in Procs, Arrive(n)
      PROVE  FitInv'
  BY <1>6, ArriveFits
<1>7. CASE Directory
  BY <1>7, DirectoryFits
<1> QED BY <1>1, <1>2, <1>3, <1>4, <1>5, <1>6, <1>7 DEF FullNext

\* Below L1s that hold every block the five protocols keep their invariant, with
\* several misses of a core under way; every miss is in one place and every line
\* is backed by its agent.
THEOREM FullInvariant == FullSpec => [](FitsInL1 => FitInv)
<1>1. FullInit => (FitsInL1 => FitInv)
  BY StartFits
<1>2. (FitsInL1 => FitInv) /\ [FullNext]_fullVars => (FitsInL1 => FitInv)'
  <2> SUFFICES ASSUME FitsInL1 => FitInv, [FullNext]_fullVars, FitsInL1'
               PROVE  FitInv'
    OBVIOUS
  <2>1. FitsInL1
    BY WaysFixed DEF FitsInL1
  <2> QED BY <2>1, StepFits
<1> QED BY <1>1, <1>2, PTL DEF FullSpec

\* With several misses outstanding per core, one writer or many readers, and
\* nobody throws.
THEOREM FullCoherent == FullSpec => []CoherentWhileResident
<1>1. (FitsInL1 => FitInv) => CoherentWhileResident
  <2> SUFFICES ASSUME FitInv
               PROVE  SWMR /\ NoThrow
    BY DEF CoherentWhileResident
  <2>1. TypeOK /\ ProtocolInv
    BY DEF FitInv
  <2>2. SWMR
    BY <2>1, OneWriter
  <2>3. NoThrow
    BY <2>1 DEF ProtocolInv, NoThrow
  <2> QED BY <2>2, <2>3
<1> QED BY <1>1, FullInvariant, PTL

\* Fills, recalls and invalidations cross in adapter and cache, and leave no
\* line that the agent does not back.
THEOREM FullLinesBacked == FullSpec => []LinesBacked
<1>1. (FitsInL1 => FitInv) => LinesBacked
  <2> SUFFICES ASSUME FitInv, protocol # "MI", NEW n \in Procs, NEW b \in Blocks
               PROVE  /\ Resident(n, b) => Level(agent[n][b]) >= 1
                      /\ Dirty(n, b) => agent[n][b] \in {"M", "O", "OM"}
    BY DEF LinesBacked, BackedLines
  <2>1. LineBacked(n, b)
    BY NodeKnown DEF BlockFits
  <2> QED BY <2>1, SameSearch DEF LineBacked
<1> QED BY <1>1, FullInvariant, PTL

\* The queued misses for a block are one or none.
LEMMA QueuedOnce ==
  ASSUME NEW s, OneEach(s), NEW b, NEW D, D = {i \in DOMAIN s : s[i].block = b}
  PROVE  Cardinality(D) = CountBool(Has(s, b))
<1>1. CASE Has(s, b)
  <2>1. PICK i \in DOMAIN s : s[i].block = b
    BY <1>1 DEF Has
  <2>2. D = {i}
    BY <2>1 DEF OneEach
  <2>3. Cardinality({i}) = 1
    BY FS_Singleton
  <2> QED BY <1>1, <2>2, <2>3 DEF CountBool
<1>2. CASE ~Has(s, b)
  <2>1. D = {}
    BY <1>2 DEF Has
  <2> QED BY <1>2, <2>1, FS_EmptySet DEF CountBool
<1> QED BY <1>1, <1>2

\* A miss is never lost, doubled or overwritten on its way through adapter,
\* slot, agent and fill.
THEOREM FullMissConserved == FullSpec => []MissConserved
<1>1. (FitsInL1 => FitInv) => MissConserved
  <2> SUFFICES ASSUME FitInv, NEW n \in Procs, NEW b \in Blocks
               PROVE  AskedFor(n, b) = CountBool(b \in waiting[n])
    BY DEF MissConserved
  <2> DEFINE D == {i \in DOMAIN outbound[n] : outbound[n][i].block = b}
  <2>1. /\ OnePlace(n, b) /\ agent[n][b] \in AgentStates /\ OneEach(outbound[n])
    BY NodeKnown DEF BlockFits, MissesFit
  <2>2. Cardinality(D) = CountBool(Queued(n, b))
    BY <2>1, QueuedOnce DEF Queued
  <2>3. agent[n][b] \in {"IS", "IM", "SM", "EM", "OM", "FM"} <=> WithAgent(n, b)
    BY <2>1 DEF WithAgent, AgentStates, DirStable
  <2>4. AskedFor(n, b) = Cardinality(D) + CountBool(InSlot(n, b)) + CountBool(WithAgent(n, b))
                         + CountBool(Filled(n, b))
    BY <2>3 DEF AskedFor, InSlot, Filled, CountBool
  <2> HIDE DEF D
  <2> QED BY <2>1, <2>2, <2>4 DEF OnePlace, CountBool
<1> QED BY <1>1, FullInvariant, PTL

-----------------------------------------------------------------------------
(* The shape of the system, evictions included.                            *)

\* The lines of one L1, and the stores that wait for it.
NodeShape(n) ==
  /\ OneEach(lines[n]) /\ Len(lines[n]) <= ways
  /\ pendingStores[n] \subseteq waiting[n]

FullShape == /\ SystemTypes(UpMsg) /\ FullTypes /\ ways # 0
             /\ \A n \in Procs : NodeShape(n)

\* The protocols' messages are among those to the directory.
LEMMA UpMessages == ToDirMsg \subseteq UpMsg
  BY DEF ToDirMsg, UpMsg

\* What it says of one node.
LEMMA ShapeKnown ==
  ASSUME FullShape, NEW n \in Procs
  PROVE  /\ IsL1(lines[n]) /\ lines[n] \in Seq(Lines) /\ Len(lines[n]) \in Nat
         /\ Len(lines[n]) <= ways /\ ways \in Nat \ {0}
         /\ pendingStores[n] \subseteq waiting[n] /\ waiting[n] \subseteq Blocks
         /\ outbound[n] \in Seq(Instrs) /\ fill[n] \in Blocks
         /\ cpuIn[n] \in Instrs \cup {NoReq}
  BY DEF FullShape, FullTypes, NodeShape, IsL1, SystemTypes

\* A step that touches one node's L1 at most.
LEMMA ShapeFrom ==
  ASSUME FullShape, NEW n \in Procs, SystemTypes(UpMsg)', ways' = ways,
         NEW s, lines' = [lines EXCEPT ![n] = s], IsL1(s), Len(s) <= ways,
         NEW w \in SUBSET Blocks, waiting' = [waiting EXCEPT ![n] = w],
         NEW p, pendingStores' = [pendingStores EXCEPT ![n] = p], p \subseteq w,
         outbound' \in [Procs -> Seq(Instrs)], fill' \in [Procs -> Blocks],
         half' \in [Procs -> {"none", "proc", "ntwk"}]
  PROVE  FullShape'
<1>1. /\ lines \in [Procs -> Seq(Lines)] /\ waiting \in [Procs -> SUBSET Blocks]
      /\ pendingStores \in [Procs -> SUBSET Blocks] /\ ways \in Nat /\ ways # 0
  BY DEF FullShape, FullTypes
<1>2. FullTypes'
  BY <1>1 DEF FullTypes, IsL1
<1>3. ASSUME NEW m \in Procs
      PROVE  NodeShape(m)'
  <2>1. NodeShape(m)
    BY DEF FullShape
  <2>2. CASE m = n
    BY <1>1, <2>2 DEF NodeShape, IsL1
  <2>3. CASE m # n
    BY <1>1, <2>1, <2>3 DEF NodeShape
  <2> QED BY <2>2, <2>3
<1> QED BY <1>1, <1>2, <1>3 DEF FullShape

\* A step that touches none of them.
LEMMA ShapeKept ==
  ASSUME FullShape, SystemTypes(UpMsg)', UNCHANGED <<ways, l1Vars, fill, half>>
  PROVE  FullShape'
  BY DEF FullShape, FullTypes, NodeShape, l1Vars

\* Hits and misses of the core.
LEMMA CoreShape ==
  ASSUME FullShape, NEW n \in Procs, NEW i \in Instrs, CoreHit(n, i) \/ CoreMiss(n, i)
  PROVE  FullShape'
<1> DEFINE s == Promoted(lines[n], i.block)
           w == waiting[n] \cup {i.block}
           p == IF i.op = "STORE" THEN pendingStores[n] \cup {i.block} ELSE pendingStores[n]
<1>1. /\ IsL1(s) /\ Len(s) = Len(lines[n])
  BY ShapeKnown, PromotedLine
<1>2. Len(s) <= ways
  BY <1>1, ShapeKnown
<1>3. CASE CoreHit(n, i)
  <2>1. /\ UNCHANGED <<vars, ways, waiting, outbound, pendingStores, fill, half>>
        /\ lines' = [lines EXCEPT ![n] = s]
    BY <1>3 DEF CoreHit
  <2>2. SystemTypes(UpMsg)'
    BY <2>1 DEF FullShape, SystemTypes, vars
  <2>3. /\ waiting' = [waiting EXCEPT ![n] = waiting[n]]
        /\ pendingStores' = [pendingStores EXCEPT ![n] = pendingStores[n]]
        /\ outbound' \in [Procs -> Seq(Instrs)] /\ fill' \in [Procs -> Blocks]
        /\ half' \in [Procs -> {"none", "proc", "ntwk"}]
    BY <2>1 DEF FullShape, FullTypes
  <2>4. waiting[n] \in SUBSET Blocks /\ pendingStores[n] \subseteq waiting[n]
    BY ShapeKnown
  <2> HIDE DEF s
  <2> QED BY <1>1, <1>2, <2>1, <2>2, <2>3, <2>4, ShapeFrom
<1>4. CASE CoreMiss(n, i)
  <2>1. /\ UNCHANGED <<protocol, req, cpuIn, cacheIn, agent, toDir, toNode, queue,
                       entry, resp, thrown, ways, fill, half>>
        /\ lines' = [lines EXCEPT ![n] = s] /\ waiting' = [waiting EXCEPT ![n] = w]
        /\ pendingStores' = [pendingStores EXCEPT ![n] = p]
        /\ outbound' = [outbound EXCEPT ![n] = Append(outbound[n], i)]
        /\ left[n] > 0 /\ left' = [left EXCEPT ![n] = left[n] - 1]
    BY <1>4 DEF CoreMiss
  <2>2. SystemTypes(UpMsg)'
    <3>1. left \in [Procs -> 0..TraceLen] /\ left[n] \in 0..TraceLen
      BY DEF FullShape, SystemTypes
    <3>2. left[n] - 1 \in 0..TraceLen
      BY <2>1, <3>1, TraceLenAssumption
    <3>3. left' \in [Procs -> 0..TraceLen]
      BY <2>1, <3>1, <3>2
    <3> QED BY <2>1, <3>3 DEF FullShape, SystemTypes
  <2>3. /\ outbound' \in [Procs -> Seq(Instrs)] /\ fill' \in [Procs -> Blocks]
        /\ half' \in [Procs -> {"none", "proc", "ntwk"}]
    BY <2>1 DEF FullShape, FullTypes
  <2>4. w \in SUBSET Blocks /\ p \subseteq w
    BY ShapeKnown DEF Instrs
  <2> HIDE DEF s, w, p
  <2> QED BY <1>1, <1>2, <2>1, <2>2, <2>3, <2>4, ShapeFrom
<1> QED BY <1>3, <1>4

\* A full L1 gives up its last line.
LEMMA EvictedLine ==
  ASSUME NEW s, IsL1(s), NEW k \in Nat \ {0}, Len(s) = k
  PROVE  /\ IsL1(SubSeq(s, 1, k - 1)) /\ Len(SubSeq(s, 1, k - 1)) = k - 1
         /\ \A c : ~Has(s, c) => ~Has(SubSeq(s, 1, k - 1), c)
<1> DEFINE t == SubSeq(s, 1, k - 1)
<1>1. s \in Seq(Lines) /\ DOMAIN s = 1 .. k /\ \A i \in 1 .. k : s[i] \in Lines
  BY DEF IsL1
<1>2. /\ 1 \in Int /\ k - 1 \in Int /\ \A i \in 1 .. k - 1 : s[i] \in Lines
      /\ k - 1 - 1 + 1 = k - 1 /\ \A i \in 1 .. k - 1 : 1 + i - 1 = i
      /\ ~(1 <= k - 1) => k - 1 = 0
  BY <1>1
<1>3. /\ t \in Seq(Lines) /\ Len(t) = IF 1 <= k - 1 THEN k - 1 - 1 + 1 ELSE 0
      /\ \A i \in 1 .. k - 1 - 1 + 1 : t[i] = s[1 + i - 1]
  BY <1>2, SubSeqProperties
<1> HIDE DEF t
<1>4. Len(t) = k - 1 /\ \A i \in 1 .. k - 1 : t[i] = s[i]
  BY <1>2, <1>3
<1>5. DOMAIN t = 1 .. k - 1 /\ \A i \in 1 .. k - 1 : i \in 1 .. k
  BY <1>3, <1>4
<1>6. OneEach(t)
  BY <1>1, <1>4, <1>5 DEF OneEach, IsL1
<1>7. \A c : ~Has(s, c) => ~Has(t, c)
  BY <1>1, <1>4, <1>5 DEF Has
<1> QED BY <1>3, <1>4, <1>6, <1>7 DEF t, IsL1

\* A fill puts at most one line in, and takes one out if there is no room.
LEMMA FillShape ==
  ASSUME FullShape, NEW n \in Procs, NEW d \in BOOLEAN, CacheFill(n, fill[n], d)
  PROVE  /\ \E s : lines' = [lines EXCEPT ![n] = s] /\ IsL1(s) /\ Len(s) <= ways
         /\ toDir' \in [Procs -> Seq(UpMsg)]
<1> DEFINE b == fill[n]
<1>1. /\ IsL1(lines[n]) /\ lines[n] \in Seq(Lines) /\ Len(lines[n]) \in Nat
      /\ Len(lines[n]) <= ways /\ ways \in Nat \ {0} /\ b \in Blocks
      /\ toDir \in [Procs -> Seq(UpMsg)] /\ lines \in [Procs -> Seq(Lines)]
  BY ShapeKnown DEF FullShape, SystemTypes, FullTypes
<1>2. Resident(n, b) <=> Has(lines[n], b)
  BY SameSearch
<1>3. CASE Has(lines[n], b) /\ d
  <2> DEFINE s == Marked(lines[n], b, TRUE)
  <2>1. lines' = [lines EXCEPT ![n] = s] /\ toDir' = toDir
    BY <1>2, <1>3 DEF CacheFill
  <2>2. \E t \in BOOLEAN : t = TRUE
    OBVIOUS
  <2>3. PICK t \in BOOLEAN : t = TRUE
    BY <2>2
  <2>4. /\ IsL1(Marked(lines[n], b, t)) /\ Len(Marked(lines[n], b, t)) = Len(lines[n])
        /\ \A c : Has(Marked(lines[n], b, t), c) <=> Has(lines[n], c)
        /\ \A c : c # b => (DirtyIn(Marked(lines[n], b, t), c) <=> DirtyIn(lines[n], c))
        /\ DirtyIn(Marked(lines[n], b, t), b) <=> Has(lines[n], b) /\ t
    BY <1>1, MarkedLine
  <2>5. Marked(lines[n], b, t) = s
    BY <2>3
  <2> HIDE DEF s
  <2> QED BY <1>1, <2>1, <2>4, <2>5
<1>4. CASE Has(lines[n], b) /\ ~d
  <2>1. lines' = [lines EXCEPT ![n] = lines[n]] /\ toDir' = toDir
    BY <1>2, <1>4 DEF CacheFill
  <2> QED BY <1>1, <2>1
<1> DEFINE l == [block |-> b, dirty |-> d]
<1>5. l \in Lines /\ l.block = b
  BY <1>1 DEF Lines
<1>6. CASE ~Has(lines[n], b) /\ Len(lines[n]) < ways
  <2> DEFINE s == <<l>> \o lines[n]
  <2>1. lines' = [lines EXCEPT ![n] = s] /\ toDir' = toDir
    <3>1. Len(lines[n]) # ways
      BY <1>1, <1>6
    <3> QED BY <1>2, <1>6, <3>1 DEF CacheFill
  <2> HIDE DEF l
  <2>2. /\ IsL1(<<l>> \o lines[n]) /\ Len(<<l>> \o lines[n]) = Len(lines[n]) + 1
        /\ \A c : Has(<<l>> \o lines[n], c) <=> c = l.block \/ Has(lines[n], c)
        /\ \A c : DirtyIn(<<l>> \o lines[n], c) <=> (c = l.block /\ l.dirty) \/ DirtyIn(lines[n], c)
    BY <1>1, <1>5, <1>6, FrontLine
  <2>3. IsL1(s) /\ Len(s) = Len(lines[n]) + 1
    BY <2>2
  <2> HIDE DEF s
  <2>4. Len(s) <= ways
    BY <1>1, <1>6, <2>3
  <2> QED BY <1>1, <2>1, <2>3, <2>4
<1>7. CASE ~Has(lines[n], b) /\ Len(lines[n]) = ways
  <2> DEFINE r == SubSeq(lines[n], 1, ways - 1)
             s == <<l>> \o r
             z == [kind |-> "DATA_WB", src |-> n, block |-> lines[n][ways].block]
  <2>1. /\ lines' = [lines EXCEPT ![n] = s]
        /\ toDir' = [toDir EXCEPT ![n] = Append(toDir[n], z)]
    <3>1. ~(Len(lines[n]) < ways) /\ ~Resident(n, b)
      BY <1>1, <1>2, <1>7
    <3>2. /\ lines' = [lines EXCEPT ![n] = <<[block |-> fill[n], dirty |-> d]>>
                                            \o SubSeq(lines[n], 1, ways - 1)]
          /\ OnEvict(n, lines[n][ways].block)
      BY <3>1 DEF CacheFill
    <3> QED BY <3>2 DEF OnEvict
  <2>2. /\ IsL1(r) /\ Len(r) = ways - 1
        /\ \A c : ~Has(lines[n], c) => ~Has(r, c)
    BY <1>1, <1>7, EvictedLine
  <2>3. z \in UpMsg
    <3>1. ways \in 1 .. Len(lines[n])
      BY <1>1, <1>7
    <3>2. lines[n][ways] \in Lines
      BY <1>1, <3>1
    <3> QED BY <3>2 DEF UpMsg, Lines
  <2>4. toDir' \in [Procs -> Seq(UpMsg)]
    <3> HIDE DEF z
    <3> QED BY <1>1, <2>1, <2>3
  <2> HIDE DEF l, r
  <2>5. ~Has(r, l.block)
    BY <1>5, <1>7, <2>2
  <2>6. /\ IsL1(<<l>> \o r) /\ Len(<<l>> \o r) = Len(r) + 1
        /\ \A c : Has(<<l>> \o r, c) <=> c = l.block \/ Has(r, c)
        /\ \A c : DirtyIn(<<l>> \o r, c) <=> (c = l.block /\ l.dirty) \/ DirtyIn(r, c)
    BY <1>5, <2>2, <2>5, FrontLine
  <2>7. IsL1(s) /\ Len(s) = Len(r) + 1
    BY <2>6
  <2> HIDE DEF s, z
  <2>8. Len(s) <= ways
    BY <1>1, <2>2, <2>7
  <2> QED BY <2>1, <2>4, <2>7, <2>8
<1>8. Len(lines[n]) < ways \/ Len(lines[n]) = ways
  BY <1>1
<1> QED BY <1>3, <1>4, <1>6, <1>7, <1>8

\* The adapter's tick.
LEMMA AdapterShape ==
  ASSUME FullShape, NEW n \in Procs, AdapterTick(n)
  PROVE  FullShape'
<1>1. /\ UNCHANGED <<protocol, left, req, agent, toNode, queue, entry, resp, thrown, ways, fill>>
      /\ half' = [half EXCEPT ![n] = "none"] /\ Drain(n) /\ ConsumeFill(n)
  BY DEF AdapterTick
<1>2. cpuIn' \in [Procs -> Instrs \cup {NoReq}] /\ outbound' \in [Procs -> Seq(Instrs)]
  <2>1. cpuIn \in [Procs -> Instrs \cup {NoReq}] /\ outbound \in [Procs -> Seq(Instrs)]
    BY DEF FullShape, FullTypes, SystemTypes
  <2>2. outbound[n] # <<>> => Head(outbound[n]) \in Instrs /\ Tail(outbound[n]) \in Seq(Instrs)
    BY <2>1, HeadTailProperties
  <2> QED BY <1>1, <2>1, <2>2 DEF Drain
<1>3. half' \in [Procs -> {"none", "proc", "ntwk"}] /\ fill' \in [Procs -> Blocks]
  BY <1>1 DEF FullShape, FullTypes
<1>4. pendingStores[n] \subseteq waiting[n] /\ waiting[n] \subseteq Blocks
  BY ShapeKnown
<1>5. CASE cacheIn[n]
  <2>1. /\ CacheFill(n, fill[n], fill[n] \in pendingStores[n])
        /\ pendingStores' = [pendingStores EXCEPT ![n] = pendingStores[n] \ {fill[n]}]
        /\ waiting' = [waiting EXCEPT ![n] = waiting[n] \ {fill[n]}]
        /\ cacheIn' = [cacheIn EXCEPT ![n] = FALSE]
    BY <1>1, <1>5 DEF ConsumeFill
  <2>2. PICK d \in BOOLEAN : d = (fill[n] \in pendingStores[n])
    <3> DEFINE asked == fill[n] \in pendingStores[n]
    <3> asked \in BOOLEAN
      OBVIOUS
    <3> WITNESS asked \in BOOLEAN
    <3> QED OBVIOUS
  <2>3. CacheFill(n, fill[n], d)
    BY <2>1, <2>2
  <2>4. toDir' \in [Procs -> Seq(UpMsg)]
        /\ \E s : lines' = [lines EXCEPT ![n] = s] /\ IsL1(s) /\ Len(s) <= ways
    BY <2>3, FillShape
  <2>5. PICK s : lines' = [lines EXCEPT ![n] = s] /\ IsL1(s) /\ Len(s) <= ways
    BY <2>4
  <2>6. SystemTypes(UpMsg)'
    BY <1>1, <1>2, <2>1, <2>4 DEF FullShape, SystemTypes
  <2>7. /\ waiting[n] \ {fill[n]} \in SUBSET Blocks
        /\ pendingStores[n] \ {fill[n]} \subseteq waiting[n] \ {fill[n]}
    BY <1>4
  <2> QED BY <1>1, <1>2, <1>3, <2>1, <2>5, <2>6, <2>7, ShapeFrom
<1>6. CASE ~cacheIn[n]
  <2>1. UNCHANGED <<lines, toDir, pendingStores, waiting, cacheIn>>
    BY <1>1, <1>6 DEF ConsumeFill
  <2>2. SystemTypes(UpMsg)'
    BY <1>1, <1>2, <2>1 DEF FullShape, SystemTypes
  <2> QED BY <1>1, <1>2, <1>3, <2>1, <2>2 DEF FullShape, FullTypes, NodeShape
<1> QED BY <1>5, <1>6

\* A cache's tick.
LEMMA AgentShape ==
  ASSUME FullShape, NEW n \in Procs, AgentProc(n) \/ AgentNtwk(n)
  PROVE  FullShape'
<1>1. SystemTypes(UpMsg)'
  <2>1. SystemTypes(UpMsg)
    BY DEF FullShape
  <2> QED BY <2>1, UpMessages, CacheTypes DEF AgentProc, AgentNtwk
<1>2. UNCHANGED <<ways, waiting, outbound, pendingStores>>
  BY DEF AgentProc, AgentNtwk, l1Vars
<1>3. half' \in [Procs -> {"none", "proc", "ntwk"}]
  BY DEF AgentProc, AgentNtwk, FullShape, FullTypes
<1>4. /\ waiting' = [waiting EXCEPT ![n] = waiting[n]] /\ outbound' \in [Procs -> Seq(Instrs)]
      /\ pendingStores' = [pendingStores EXCEPT ![n] = pendingStores[n]]
      /\ waiting[n] \in SUBSET Blocks /\ pendingStores[n] \subseteq waiting[n]
  BY <1>2, ShapeKnown DEF FullShape, FullTypes
<1>5. CASE AgentProc(n)
  <2>1. cpuIn[n].block \in Blocks
    BY <1>5, ShapeKnown DEF AgentProc, CacheProc, Instrs
  <2>2. fill' \in [Procs -> Blocks]
    BY <1>5, <2>1 DEF AgentProc, Deposit, FullShape, FullTypes
  <2>3. lines' = [lines EXCEPT ![n] = lines[n]]
    BY <1>5 DEF AgentProc, l1Vars, FullShape, FullTypes
  <2>4. IsL1(lines[n]) /\ Len(lines[n]) <= ways
    BY ShapeKnown
  <2> QED BY <1>1, <1>2, <1>3, <1>4, <2>2, <2>3, <2>4, ShapeFrom
<1>6. CASE AgentNtwk(n)
  <2> DEFINE m == Head(toNode[n])
             s == NtwkEvent(n, m)
  <2>1. m \in ToNodeMsg /\ m.block \in Blocks
    <3>1. toNode[n] \in Seq(ToNodeMsg) /\ toNode[n] # <<>>
      BY <1>6 DEF AgentNtwk, CacheNtwk, FullShape, SystemTypes
    <3>2. m \in ToNodeMsg
      BY <3>1, HeadTailProperties
    <3> QED BY <3>2 DEF ToNodeMsg
  <2>2. fill' \in [Procs -> Blocks] /\ lines' = [lines EXCEPT ![n] = s]
    BY <1>6, <2>1 DEF AgentNtwk, Deposit, FullShape, FullTypes
  <2>3. IsL1(s) /\ Len(s) <= ways
    <3>1. IsL1(lines[n]) /\ Len(lines[n]) \in Nat /\ Len(lines[n]) <= ways /\ ways \in Nat
      BY ShapeKnown
    <3>2. CASE s = lines[n]
      BY <3>1, <3>2
    <3>3. CASE s = Without(lines[n], m.block)
      <4>1. IsL1(Without(lines[n], m.block)) /\ Len(Without(lines[n], m.block)) <= Len(lines[n])
        BY <3>1, WithoutLine
      <4>2. IsL1(s) /\ Len(s) <= Len(lines[n]) /\ Len(s) \in Nat
        BY <3>3, <4>1 DEF IsL1
      <4> HIDE DEF s, m
      <4> QED BY <3>1, <4>2
    <3>4. CASE s = Marked(lines[n], m.block, FALSE)
      <4>1. \E d \in BOOLEAN : d = FALSE
        OBVIOUS
      <4>2. PICK d \in BOOLEAN : d = FALSE
        BY <4>1
      <4>3. IsL1(Marked(lines[n], m.block, d)) /\ Len(Marked(lines[n], m.block, d)) = Len(lines[n])
        BY <3>1, MarkedLine
      <4>4. s = Marked(lines[n], m.block, d)
        BY <3>4, <4>2
      <4> HIDE DEF s, m
      <4> QED BY <3>1, <4>3, <4>4
    <3> QED BY <3>2, <3>3, <3>4 DEF NtwkEvent
  <2> HIDE DEF s, m
  <2> QED BY <1>1, <1>2, <1>3, <1>4, <2>2, <2>3, ShapeFrom
<1> QED BY <1>5, <1>6

\* A writeback leaves an entry an entry.
LEMMA WritebackEntry ==
  ASSUME NEW e \in DirEntry, NEW n \in Procs
  PROVE  AfterWriteback(e, n) \in DirEntry
<1> DEFINE held  == n \in e.presence
           owner == held /\ (e.state = "M" \/ (e.state \in {"O", "F"} /\ n = e.o_f_id))
           k  == IF e.active_sharers > 0 THEN e.active_sharers - 1 ELSE e.active_sharers
           e1 == IF held THEN [e EXCEPT !.presence = e.presence \ {n}, !.active_sharers = k] ELSE e
<1>1. e1 \in DirEntry
  <2>1. k \in Int /\ e.presence \ {n} \in SUBSET Procs
    BY DEF DirEntry
  <2> HIDE DEF k
  <2>2. [e EXCEPT !.presence = e.presence \ {n}, !.active_sharers = k] \in DirEntry
    BY <2>1 DEF DirEntry
  <2> QED BY <2>2
<1>2. AfterWriteback(e, n) = IF e1.active_sharers = 0 THEN [e1 EXCEPT !.state = "I"]
                             ELSE IF owner THEN [e1 EXCEPT !.state = "S", !.o_f_id = NoNode]
                             ELSE e1
  BY DEF AfterWriteback
<1> HIDE DEF e1, owner
<1>3. "I" \in DirStates /\ "S" \in DirStates /\ NoNode \in Procs \cup {NoNode}
  BY DEF DirStates
<1>4. [e1 EXCEPT !.state = "I"] \in DirEntry
  BY <1>1, <1>3 DEF DirEntry
<1>5. [e1 EXCEPT !.state = "S", !.o_f_id = NoNode] \in DirEntry
  BY <1>1, <1>3 DEF DirEntry
<1> QED BY <1>1, <1>2, <1>4, <1>5

\* The directory.
LEMMA DirectoryShape ==
  ASSUME FullShape, Directory
  PROVE  FullShape'
<1>1. SystemTypes(UpMsg) /\ UNCHANGED <<ways, l1Vars, fill, half>>
  BY DEF FullShape, Directory
<1>2. queue # <<>> => Head(queue) \in UpMsg
  BY <1>1, HeadTailProperties DEF SystemTypes
<1>3. CASE HandleWriteback
  <2> DEFINE b == Head(queue).block
             e == AfterWriteback(entry[b], Head(queue).src)
  <2>1. /\ queue # <<>> /\ UNCHANGED <<protocol, left, req, cpuIn, cacheIn, agent, toDir>>
        /\ Note(b, e) \/ CycleQueue
    BY <1>3 DEF HandleWriteback
  <2>2. b \in Blocks /\ e \in DirEntry
    <3>1. b \in Blocks /\ Head(queue).src \in Procs
      BY <1>2, <2>1 DEF UpMsg
    <3>2. entry[b] \in DirEntry
      BY <1>1, <3>1 DEF SystemTypes
    <3> QED BY <3>1, <3>2, WritebackEntry
  <2>3. DirTypeOK(UpMsg)
    BY <1>1 DEF SystemTypes, DirTypeOK
  <2> HIDE DEF b, e
  <2>4. DirTypeOK(UpMsg)'
    <3>1. CASE Note(b, e)
      BY <2>1, <2>2, <2>3, <3>1, NoteType
    <3>2. CASE CycleQueue
      BY <2>1, <2>3, <3>2, CycleOrThrowType
    <3> QED BY <2>1, <3>1, <3>2
  <2>5. SystemTypes(UpMsg)'
    BY <1>1, <2>1, <2>4 DEF SystemTypes, DirTypeOK
  <2> QED BY <1>1, <2>5, ShapeKept
<1>4. CASE ProtocolTick
  <2>1. Head(queue) \in ToDirMsg
    BY <1>2, <1>4 DEF ProtocolTick, ToDirMsg, UpMsg
  <2>2. SystemTypes(UpMsg)'
    BY <1>1, <1>4, <2>1, DirTickTypes DEF ProtocolTick
  <2> QED BY <1>1, <2>2, ShapeKept
<1>5. CASE DirRespond
  <2>1. SystemTypes(UpMsg)'
    BY <1>1, <1>5, RespondTypes
  <2> QED BY <1>1, <2>1, ShapeKept
<1> QED BY <1>3, <1>4, <1>5 DEF Directory

\* Evictions and writebacks included: no set of an L1 exceeds its ways or holds a
\* block twice, no store is pending that no MSHR entry waits for, and the
\* directory's entries stay entries.
THEOREM FullTypeCorrect == FullSpec => []FullTypeOK
<1>1. FullInit => FullShape
  <2> SUFFICES ASSUME FullInit
               PROVE  FullShape
    OBVIOUS
  <2>1. FitInv
    BY StartFits
  <2>2. SystemTypes(UpMsg)
    <3>1. toDir = [n \in Procs |-> <<>>] /\ queue = <<>>
      BY DEF FullInit, SystemInit, Init
    <3>2. <<>> \in Seq(UpMsg)
      OBVIOUS
    <3> QED BY <2>1, <3>1, <3>2 DEF FitInv, TypeOK, SystemTypes
  <2>3. ways # 0 /\ ways \in Nat
    BY FullModeAssumption DEF FullInit
  <2>4. ASSUME NEW n \in Procs
        PROVE  NodeShape(n)
    <3>1. lines[n] = <<>> /\ Len(<<>>) = 0 /\ pendingStores[n] = {}
      BY DEF FullInit
    <3>2. OneEach(<<>>)
      BY DEF OneEach
    <3> QED BY <2>3, <3>1, <3>2 DEF NodeShape
  <2> QED BY <2>1, <2>2, <2>3, <2>4 DEF FullShape, FitInv
<1>2. FullShape /\ [FullNext]_fullVars => FullShape'
  <2> SUFFICES ASSUME FullShape, [FullNext]_fullVars
               PROVE  FullShape'
    OBVIOUS
  <2>1. CASE UNCHANGED fullVars
    <3>1. UNCHANGED vars /\ UNCHANGED <<ways, l1Vars, fill, half>>
      BY <2>1 DEF fullVars, l1Vars
    <3>2. SystemTypes(UpMsg)'
      BY <3>1 DEF FullShape, SystemTypes, vars
    <3> QED BY <3>1, <3>2, ShapeKept
  <2>2. ASSUME NEW n \in Procs, Core(n)
        PROVE  FullShape'
    BY <2>2, CoreShape DEF Core
  <2>3. ASSUME NEW n \in Procs, AdapterTick(n)
        PROVE  FullShape'
    BY <2>3, AdapterShape
  <2>4. ASSUME NEW n \in Procs, AgentProc(n) \/ AgentNtwk(n)
        PROVE  FullShape'
    BY <2>4, AgentShape
  <2>5. ASSUME NEW n \in Procs, Arrive(n)
        PROVE  FullShape'
    <3>1. SystemTypes(UpMsg)'
      BY <2>5, ArriveTypes DEF Arrive, FullShape
    <3> QED BY <2>5, <3>1, ShapeKept DEF Arrive
  <2>6. CASE Directory
    BY <2>6, DirectoryShape
  <2> QED BY <2>1, <2>2, <2>3, <2>4, <2>5, <2>6 DEF FullNext
<1>3. FullShape => FullTypeOK
  <2> SUFFICES ASSUME FullShape
               PROVE  FullTypeOK
    OBVIOUS
  <2>1. /\ toDir \in [Procs -> Seq(UpMsg)] /\ queue \in Seq(UpMsg)
        /\ entry \in [Blocks -> DirEntry]
    BY DEF FullShape, SystemTypes
  <2>2. ASSUME NEW n \in Procs
        PROVE  /\ Len(lines[n]) <= ways
               /\ \A i, j \in DOMAIN lines[n] :
                    lines[n][i].block = lines[n][j].block => i = j
               /\ waiting[n] \subseteq Blocks
               /\ pendingStores[n] \subseteq waiting[n]
               /\ fill[n] \in Blocks
    BY ShapeKnown DEF IsL1, OneEach
  <2> QED BY <2>1, <2>2 DEF FullTypeOK
<1> QED BY <1>1, <1>2, <1>3, PTL DEF FullSpec
=============================================================================
