----------------------------- MODULE PanesProofs -----------------------------
(***************************************************************************)
(* Proofs about Panes: types; tabs are conserved; the focus and its copy   *)
(* agree; one tab per session.                                             *)
(*                                                                         *)
(* First what the operators on sequences return, then what each operation  *)
(* of PaneLayout does to a well-formed layout, then one lemma per action.  *)
(***************************************************************************)
EXTENDS Panes, SequenceTheorems, WellFoundedInduction, TLAPS

\* Induction, as a statement about sets.
LEMMA Induction ==
  ASSUME NEW S, 0 \in S, \A n \in Nat : n \in S => n + 1 \in S
  PROVE  Nat \subseteq S
<1> SUFFICES ASSUME Nat \ S # {} PROVE FALSE
  OBVIOUS
<1>1. PICK x \in Nat \ S : \A y \in Nat \ S : ~(<<y, x>> \in OpToRel(<, Nat))
  <2> DEFINE T == Nat \ S
  <2>1. T \subseteq Nat /\ T # {}
    OBVIOUS
  <2> HIDE DEF T
  <2>2. \E x \in T : \A y \in T : ~(<<y, x>> \in OpToRel(<, Nat))
    BY <2>1, NatLessThanWellFounded, WFMin, Zenon
  <2> QED
    BY <2>2 DEF T
<1>2. x # 0 /\ x - 1 \in Nat /\ x - 1 < x /\ (x - 1) + 1 = x
  OBVIOUS
<1>3. x - 1 \notin S
  BY <1>2
<1>4. <<x - 1, x>> \in OpToRel(<, Nat)
  BY <1>2 DEF OpToRel
<1> QED
  BY <1>1, <1>2, <1>3, <1>4

LEMMA MinOf ==
  ASSUME NEW S \in SUBSET Nat, S # {}
  PROVE  Min(S) \in S /\ \A y \in S : Min(S) <= y
<1>1. PICK x \in S : \A y \in S : ~(<<y, x>> \in OpToRel(<, Nat))
  BY NatLessThanWellFounded, WFMin, Zenon
<1>2. \A y \in S : ~(y < x)
  BY <1>1 DEF OpToRel
<1>3. \A y \in S : x <= y
  BY <1>2
<1> QED
  BY <1>3 DEF Min

LEMMA MaxOf ==
  ASSUME NEW n \in Nat, NEW S \in SUBSET (0..n), S # {}
  PROVE  Max(S) \in S /\ \A y \in S : Max(S) >= y
<1> DEFINE T == {n - x : x \in S}
<1>1. T \in SUBSET Nat /\ T # {}
  <2>1. \A x \in S : n - x \in Nat
    OBVIOUS
  <2> QED
    BY <2>1
<1>2. PICK m \in T : \A y \in T : m <= y
  <2> HIDE DEF T
  <2> QED
    BY <1>1, MinOf
<1>3. \E x \in S : \A y \in S : x >= y
  <2>1. PICK x \in S : m = n - x
    OBVIOUS
  <2>2. \A y \in S : n - x <= n - y
    BY <1>2, <2>1
  <2> QED
    BY <2>2
<1> QED
  BY <1>3 DEF Max
-----------------------------------------------------------------------------
(***************************************************************************)
(* Sequences.                                                              *)
(***************************************************************************)
Injective(s) == \A k, m \in DOMAIN s : s[k] = s[m] => k = m

LEMMA SetOf ==
  ASSUME NEW S, NEW s \in Seq(S)
  PROVE  /\ ToSet(s) \subseteq S
         /\ \A x : x \in ToSet(s) <=> \E k \in 1..Len(s) : s[k] = x
         /\ \A x : Contains(s, x) <=> x \in ToSet(s)
         /\ ToSet(s) = {} <=> s = <<>>
<1>1. DOMAIN s = 1..Len(s) /\ \A k \in 1..Len(s) : s[k] \in S
  OBVIOUS
<1>2. s = <<>> <=> Len(s) = 0
  OBVIOUS
<1>3. Len(s) # 0 => 1 \in 1..Len(s)
  OBVIOUS
<1>4. Len(s) = 0 => 1..Len(s) = {}
  OBVIOUS
<1> QED
  BY <1>1, <1>2, <1>3, <1>4 DEF ToSet, Contains

LEMMA RemovedAt ==
  ASSUME NEW S, NEW s \in Seq(S), NEW i \in 1..Len(s)
  PROVE  /\ RemoveAt(s, i) \in Seq(S)
         /\ Len(RemoveAt(s, i)) = Len(s) - 1
         /\ \A k \in 1..Len(s) - 1 : RemoveAt(s, i)[k] = IF k < i THEN s[k] ELSE s[k + 1]
<1> DEFINE a == SubSeq(s, 1, i - 1)
           b == SubSeq(s, i + 1, Len(s))
<1>1. a \in Seq(S) /\ Len(a) = i - 1 /\ \A k \in 1..i - 1 : a[k] = s[k]
  OBVIOUS
<1>2. b \in Seq(S) /\ Len(b) = Len(s) - i /\ \A k \in 1..Len(s) - i : b[k] = s[k + i]
  OBVIOUS
<1>3. RemoveAt(s, i) = a \o b
  BY DEF RemoveAt
<1> HIDE DEF a, b
<1>4. \A k \in 1..Len(s) - 1 : (a \o b)[k] = IF k <= i - 1 THEN a[k] ELSE b[k - (i - 1)]
  BY <1>1, <1>2, ConcatProperties
<1>5. \A k \in 1..Len(s) - 1 : k >= i => k - (i - 1) \in 1..Len(s) - i /\ (k - (i - 1)) + i = k + 1
  OBVIOUS
<1>6. a \o b \in Seq(S) /\ Len(a \o b) = Len(s) - 1
  <2>1. (i - 1) + (Len(s) - i) = Len(s) - 1
    OBVIOUS
  <2>2. a \o b \in Seq(S) /\ Len(a \o b) = Len(a) + Len(b)
    BY <1>1, <1>2, ConcatProperties
  <2> QED
    BY <1>1, <1>2, <2>1, <2>2
<1> QED
  BY <1>1, <1>2, <1>3, <1>4, <1>5, <1>6

LEMMA InsertedAt ==
  ASSUME NEW S, NEW s \in Seq(S), NEW i \in 1..Len(s) + 1, NEW e \in S
  PROVE  /\ InsertAt(s, i, e) \in Seq(S)
         /\ Len(InsertAt(s, i, e)) = Len(s) + 1
         /\ \A k \in 1..Len(s) + 1 :
              InsertAt(s, i, e)[k] = IF k < i THEN s[k] ELSE IF k = i THEN e ELSE s[k - 1]
<1> DEFINE a == SubSeq(s, 1, i - 1)
           b == SubSeq(s, i, Len(s))
           c == a \o <<e>>
<1>1. a \in Seq(S) /\ Len(a) = i - 1 /\ \A k \in 1..i - 1 : a[k] = s[k]
  OBVIOUS
<1>2. b \in Seq(S) /\ Len(b) = Len(s) - i + 1 /\ \A k \in 1..Len(s) - i + 1 : b[k] = s[k + i - 1]
  OBVIOUS
<1>3. InsertAt(s, i, e) = c \o b
  BY DEF InsertAt
<1> HIDE DEF a, b
<1>4. c \in Seq(S) /\ Len(c) = i /\ c[i] = e /\ \A k \in 1..i - 1 : c[k] = a[k]
  BY <1>1
<1> HIDE DEF c
<1>5. \A k \in 1..Len(s) + 1 : (c \o b)[k] = IF k <= i THEN c[k] ELSE b[k - i]
  BY <1>2, <1>4, ConcatProperties
<1>6. \A k \in 1..Len(s) + 1 : k > i => k - i \in 1..Len(s) - i + 1 /\ (k - i) + i - 1 = k - 1
  OBVIOUS
<1>7. c \o b \in Seq(S) /\ Len(c \o b) = Len(s) + 1
  <2>1. i + (Len(s) - i + 1) = Len(s) + 1
    OBVIOUS
  <2>2. c \o b \in Seq(S) /\ Len(c \o b) = Len(c) + Len(b)
    BY <1>2, <1>4, ConcatProperties
  <2> QED
    BY <1>2, <1>4, <2>1, <2>2
<1>8. ASSUME NEW k \in 1..Len(s) + 1, k > i PROVE (c \o b)[k] = s[k - 1]
  <2>1. (c \o b)[k] = b[k - i]
    <3>1. ~(k <= i)
      BY <1>8
    <3> QED
      BY <1>5, <3>1
  <2>2. b[k - i] = s[(k - i) + i - 1]
    BY <1>2, <1>6, <1>8
  <2> QED
    BY <1>6, <1>8, <2>1, <2>2
<1>9. \A k \in 1..Len(s) + 1 : k < i => (c \o b)[k] = s[k]
  BY <1>1, <1>4, <1>5
<1>10. i \in 1..Len(s) + 1 /\ (c \o b)[i] = e
  BY <1>4, <1>5
<1> QED
  BY <1>3, <1>7, <1>8, <1>9, <1>10

\* Array.filter: the recursion is well defined.
Kept(tabs, ids, g, n) ==
  IF n = 0 THEN <<>> ELSE IF tabs[n] \in ids THEN g[n - 1] ELSE Append(g[n - 1], tabs[n])

LEMMA WithoutIsDefined ==
  ASSUME NEW tabs, NEW ids, Len(tabs) \in Nat
  PROVE  \E g : /\ g = [n \in 0..Len(tabs) |-> Kept(tabs, ids, g, n)]
                /\ Without(tabs, ids) = g[Len(tabs)]
<1> DEFINE Solves(g, m) == g = [n \in 0..m |-> Kept(tabs, ids, g, n)]
           S == {m \in Nat : \E g : Solves(g, m)}
<1>1. 0 \in S
  <2> DEFINE g == [n \in 0..0 |-> <<>>]
  <2>1. Solves(g, 0)
    BY DEF Kept
  <2> QED
    BY <2>1
<1>2. ASSUME NEW m \in Nat, m \in S PROVE m + 1 \in S
  <2>1. PICK g : Solves(g, m)
    BY <1>2
  <2> DEFINE h == [n \in 0..m + 1 |-> IF n = m + 1 THEN Kept(tabs, ids, g, m + 1) ELSE g[n]]
  <2>2. \A n \in 0..m : h[n] = g[n]
    OBVIOUS
  <2>3. \A n \in 0..m : g[n] = Kept(tabs, ids, g, n)
    BY <2>1
  <2>4. \A n \in 0..m + 1 : Kept(tabs, ids, h, n) = Kept(tabs, ids, g, n)
    BY <2>2 DEF Kept
  <2>5. \A n \in 0..m + 1 : h[n] = Kept(tabs, ids, h, n)
    BY <2>3, <2>4
  <2>6. h = [n \in 0..m + 1 |-> h[n]]
    OBVIOUS
  <2> HIDE DEF h
  <2>7. Solves(h, m + 1)
    BY <2>5, <2>6
  <2> QED
    BY <2>7
<1>3. Nat \subseteq S
  <2> HIDE DEF S
  <2> QED
    BY <1>1, <1>2, Induction
<1>4. PICK g : Solves(g, Len(tabs))
  BY <1>3
<1>5. Without(tabs, ids) = (CHOOSE f : f = [n \in 0..Len(tabs) |-> Kept(tabs, ids, f, n)])[Len(tabs)]
  BY DEF Without, Kept
<1> QED
  BY <1>4, <1>5
LEMMA Appended ==
  ASSUME NEW S, NEW s \in Seq(S), NEW e \in S
  PROVE  /\ Append(s, e) \in Seq(S)
         /\ Len(Append(s, e)) = Len(s) + 1
         /\ ToSet(Append(s, e)) = ToSet(s) \cup {e}
         /\ Injective(s) /\ e \notin ToSet(s) => Injective(Append(s, e))
<1> DEFINE t == Append(s, e)
<1>1. t \in Seq(S) /\ Len(t) = Len(s) + 1 /\ t[Len(s) + 1] = e /\ \A k \in 1..Len(s) : t[k] = s[k]
  OBVIOUS
<1>2. DOMAIN t = 1..Len(s) + 1 /\ DOMAIN s = 1..Len(s) /\ Len(s) \in Nat
  BY <1>1
<1>3. 1..Len(s) + 1 = 1..Len(s) \cup {Len(s) + 1}
  BY <1>2
<1> HIDE DEF t
<1>4. ToSet(t) = ToSet(s) \cup {e}
  BY <1>1, <1>2, <1>3 DEF ToSet
<1>5. ASSUME Injective(s), e \notin ToSet(s) PROVE Injective(t)
  BY <1>1, <1>2, <1>3, <1>5 DEF Injective, ToSet
<1> QED
  BY <1>1, <1>4, <1>5 DEF t

LEMMA Filtered ==
  ASSUME NEW S, NEW s \in Seq(S), NEW ids
  PROVE  /\ Without(s, ids) \in Seq(S)
         /\ ToSet(Without(s, ids)) = ToSet(s) \ ids
         /\ Injective(s) => Injective(Without(s, ids))
         /\ Injective(s) /\ (\E k \in 1..Len(s) : ids = {s[k]}) => Len(Without(s, ids)) = Len(s) - 1
<1>1. Len(s) \in Nat /\ DOMAIN s = 1..Len(s) /\ \A k \in 1..Len(s) : s[k] \in S
  OBVIOUS
<1>2. PICK g : /\ g = [n \in 0..Len(s) |-> Kept(s, ids, g, n)]
               /\ Without(s, ids) = g[Len(s)]
  BY <1>1, WithoutIsDefined
<1>3. \A n \in 0..Len(s) : g[n] = Kept(s, ids, g, n)
  BY <1>2
<1> DEFINE Upto(n) == {s[k] : k \in 1..n}
           P(n) == /\ g[n] \in Seq(S)
                   /\ ToSet(g[n]) = Upto(n) \ ids
                   /\ Injective(s) => Injective(g[n])
                   /\ \A k \in 1..Len(s) : Injective(s) /\ ids = {s[k]} => Len(g[n]) = IF n < k THEN n ELSE n - 1
           N == {n \in Nat : n <= Len(s) => P(n)}
<1>4. 0 \in N
  <2>1. g[0] = <<>>
    BY <1>1, <1>3 DEF Kept
  <2>2. <<>> \in Seq(S) /\ ToSet(<<>>) = {} /\ Injective(<<>>) /\ Len(<<>>) = 0
    BY DEF ToSet, Injective
  <2>3. Upto(0) = {}
    OBVIOUS
  <2>4. \A k \in 1..Len(s) : 0 < k
    OBVIOUS
  <2>5. P(0)
    BY <2>1, <2>2, <2>3, <2>4
  <2> QED
    BY <2>5
<1>5. ASSUME NEW n \in Nat, n \in N PROVE n + 1 \in N
  <2> SUFFICES ASSUME n + 1 <= Len(s) PROVE P(n + 1)
    OBVIOUS
  <2>1. P(n) /\ n + 1 \in 1..Len(s) /\ n + 1 \in 0..Len(s)
    BY <1>1, <1>5
  <2>2. g[n + 1] = IF s[n + 1] \in ids THEN g[n] ELSE Append(g[n], s[n + 1])
    <3>1. n + 1 # 0 /\ (n + 1) - 1 = n
      OBVIOUS
    <3> QED
      BY <1>3, <2>1, <3>1 DEF Kept
  <2>3. Upto(n + 1) = Upto(n) \cup {s[n + 1]}
    <3>1. 1..n + 1 = 1..n \cup {n + 1}
      OBVIOUS
    <3> QED
      BY <3>1
  <2>4. s[n + 1] \in S /\ \A k \in 1..Len(s) : Injective(s) /\ s[k] = s[n + 1] => k = n + 1
    BY <1>1, <2>1 DEF Injective
  <2>5. Injective(s) => s[n + 1] \notin Upto(n)
    <3>1. \A k \in 1..n : k \in 1..Len(s) /\ k # n + 1
      BY <1>1
    <3> QED
      BY <2>4, <3>1
  <2>6. CASE s[n + 1] \in ids
    <3>1. g[n + 1] = g[n] /\ Upto(n + 1) \ ids = Upto(n) \ ids
      BY <2>2, <2>3, <2>6
    <3>2. ASSUME NEW k \in 1..Len(s), Injective(s), ids = {s[k]} PROVE Len(g[n + 1]) = IF n + 1 < k THEN n + 1 ELSE (n + 1) - 1
      <4>1. k = n + 1
        BY <2>4, <2>6, <3>2
      <4>2. Len(g[n]) = n
        BY <2>1, <3>2, <4>1
      <4> QED
        BY <3>1, <4>1, <4>2
    <3> QED
      BY <2>1, <3>1, <3>2
  <2>7. CASE s[n + 1] \notin ids
    <3>1. g[n + 1] = Append(g[n], s[n + 1])
      BY <2>2, <2>7
    <3>2. g[n] \in Seq(S) /\ ToSet(g[n]) = Upto(n) \ ids
      BY <2>1
    <3>3. ToSet(g[n + 1]) = Upto(n + 1) \ ids
      <4>1. ToSet(g[n + 1]) = ToSet(g[n]) \cup {s[n + 1]}
        BY <2>4, <3>1, <3>2, Appended
      <4> QED
        BY <2>3, <2>7, <3>2, <4>1
    <3>4. g[n + 1] \in Seq(S) /\ Len(g[n + 1]) = Len(g[n]) + 1
      BY <2>4, <3>1, <3>2, Appended
    <3>5. Injective(s) => Injective(g[n + 1])
      <4>1. Injective(s) => Injective(g[n]) /\ s[n + 1] \notin ToSet(g[n])
        BY <2>1, <2>5, <3>2
      <4> QED
        BY <2>4, <3>1, <3>2, <4>1, Appended
    <3>6. ASSUME NEW k \in 1..Len(s), Injective(s), ids = {s[k]} PROVE Len(g[n + 1]) = IF n + 1 < k THEN n + 1 ELSE (n + 1) - 1
      <4>1. k # n + 1
        BY <2>7, <3>6
      <4>2. Len(g[n]) = IF n < k THEN n ELSE n - 1
        BY <2>1, <3>6
      <4> QED
        BY <1>1, <3>4, <4>1, <4>2
    <3> QED
      BY <3>3, <3>4, <3>5, <3>6
  <2> QED
    BY <2>6, <2>7
<1>6. Nat \subseteq N
  <2> HIDE DEF N
  <2> QED
    BY <1>4, <1>5, Induction
<1>7. P(Len(s))
  <2>1. Len(s) <= Len(s)
    BY <1>1
  <2>2. Len(s) \in N
    <3> HIDE DEF N
    <3> QED
      BY <1>1, <1>6
  <2> QED
    BY <2>1, <2>2
<1>8. Upto(Len(s)) = ToSet(s)
  BY <1>1 DEF ToSet
<1>9. ASSUME Injective(s), NEW k \in 1..Len(s), ids = {s[k]} PROVE Len(g[Len(s)]) = Len(s) - 1
  <2>1. ~(Len(s) < k)
    BY <1>1
  <2> QED
    BY <1>7, <1>9, <2>1
<1> QED
  BY <1>2, <1>7, <1>8, <1>9
-----------------------------------------------------------------------------
(***************************************************************************)
(* Layouts.                                                                *)
(***************************************************************************)
Apart(panes) ==
  /\ \A i \in DOMAIN panes : Injective(panes[i].tabs)
  /\ \A i, j \in DOMAIN panes : i # j => ToSet(panes[i].tabs) \cap ToSet(panes[j].tabs) = {}

WellFormed(l) ==
  /\ l \in [panes : Seq(PaneRecords), focused : PaneIds]
  /\ l.panes # <<>>
  /\ \A i, j \in DOMAIN l.panes : l.panes[i].id = l.panes[j].id => i = j
  /\ Apart(l.panes)
  /\ \A i \in DOMAIN l.panes : ActiveInPane(l.panes[i])

LEMMA PanesTyped ==
  ASSUME NEW l, WellFormed(l)
  PROVE  /\ l.panes \in Seq(PaneRecords) /\ l.focused \in PaneIds
         /\ Len(l.panes) \in Nat /\ DOMAIN l.panes = 1..Len(l.panes)
         /\ 1 \in DOMAIN l.panes
         /\ \A i \in DOMAIN l.panes :
              /\ l.panes[i] \in PaneRecords
              /\ l.panes[i].tabs \in Seq(TabIds)
              /\ l.panes[i].id \in PaneIds
              /\ Injective(l.panes[i].tabs)
              /\ ActiveInPane(l.panes[i])
<1>1. l.panes \in Seq(PaneRecords) /\ l.focused \in PaneIds /\ l.panes # <<>>
  BY DEF WellFormed
<1>2. Len(l.panes) \in Nat /\ DOMAIN l.panes = 1..Len(l.panes) /\ 1 \in DOMAIN l.panes
  BY <1>1
<1>3. \A i \in DOMAIN l.panes : l.panes[i] \in PaneRecords
  BY <1>1
<1>4. \A p \in PaneRecords : p.tabs \in Seq(TabIds) /\ p.id \in PaneIds
  BY DEF PaneRecords
<1> QED
  BY <1>1, <1>2, <1>3, <1>4 DEF WellFormed, Apart

LEMMA FoundAt ==
  ASSUME NEW l, WellFormed(l), NEW i \in DOMAIN l.panes
  PROVE  PaneIndex(l, l.panes[i].id) = i /\ FindPane(l, l.panes[i].id) = l.panes[i]
<1> DEFINE I == {k \in 1..Len(l.panes) : l.panes[k].id = l.panes[i].id}
<1>1. I = {i}
  BY PanesTyped DEF WellFormed
<1>2. PaneIndex(l, l.panes[i].id) = IF I # {} THEN Min(I) ELSE 0
  BY DEF PaneIndex, SelectInSeq
<1>3. Min(I) = i
  <2>1. I \in SUBSET Nat /\ I # {}
    BY <1>1, PanesTyped
  <2> HIDE DEF I
  <2> QED
    BY <1>1, <2>1, MinOf
<1> QED
  BY <1>1, <1>2, <1>3 DEF FindPane

LEMMA NotFound ==
  ASSUME NEW l, WellFormed(l), NEW id
  PROVE  PaneIndex(l, id) = 0 <=> id \notin PaneIdsOf(l)
<1>1. CASE id \in PaneIdsOf(l)
  <2>1. PICK i \in DOMAIN l.panes : l.panes[i].id = id
    BY <1>1 DEF PaneIdsOf
  <2>2. PaneIndex(l, id) = i /\ i \in 1..Len(l.panes)
    BY <2>1, FoundAt, PanesTyped
  <2> QED
    BY <1>1, <2>2
<1>2. CASE id \notin PaneIdsOf(l)
  <2> DEFINE I == {k \in 1..Len(l.panes) : l.panes[k].id = id}
  <2>1. I = {}
    BY <1>2, PanesTyped DEF PaneIdsOf
  <2>2. PaneIndex(l, id) = IF I # {} THEN Min(I) ELSE 0
    BY DEF PaneIndex, SelectInSeq
  <2> QED
    BY <1>2, <2>1, <2>2
<1> QED
  BY <1>1, <1>2

\* The pane of an id, and the one a tab is in.
LEMMA Found ==
  ASSUME NEW l, WellFormed(l), NEW id \in PaneIdsOf(l)
  PROVE  \E i \in DOMAIN l.panes : l.panes[i].id = id /\ PaneIndex(l, id) = i /\ FindPane(l, id) = l.panes[i]
  BY FoundAt DEF PaneIdsOf

LEMMA FoundByTab ==
  ASSUME NEW l, WellFormed(l), NEW tab \in OpenIn(l)
  PROVE  /\ \E i \in DOMAIN l.panes : FindPaneByTabId(l, tab) = l.panes[i] /\ tab \in ToSet(l.panes[i].tabs)
         /\ tab \in TabIds
<1> DEFINE I == {k \in 1..Len(l.panes) : Contains(l.panes[k].tabs, tab)}
<1>1. \A k \in DOMAIN l.panes : Contains(l.panes[k].tabs, tab) <=> tab \in ToSet(l.panes[k].tabs)
  BY PanesTyped, SetOf
<1>2. I # {} /\ I \in SUBSET Nat
  BY <1>1, PanesTyped DEF OpenIn
<1>3. FindPaneByTabId(l, tab) = l.panes[IF I # {} THEN Min(I) ELSE 0]
  BY DEF FindPaneByTabId, SelectInSeq
<1>4. Min(I) \in I
  <2> HIDE DEF I
  <2> QED
    BY <1>2, MinOf
<1>5. PICK i \in DOMAIN l.panes : i = Min(I) /\ tab \in ToSet(l.panes[i].tabs)
  BY <1>1, <1>4, PanesTyped
<1>6. tab \in TabIds
  <2>1. PICK s \in Seq(TabIds) : tab \in ToSet(s)
    BY <1>5, PanesTyped
  <2> QED
    BY <2>1, SetOf
<1> QED
  BY <1>2, <1>3, <1>5, <1>6

LEMMA Updated ==
  ASSUME NEW l, WellFormed(l), NEW i \in DOMAIN l.panes,
         NEW pane \in PaneRecords, pane.id = l.panes[i].id,
         Injective(pane.tabs), ActiveInPane(pane),
         \A j \in DOMAIN l.panes : j # i => ToSet(l.panes[j].tabs) \cap ToSet(pane.tabs) = {}
  PROVE  /\ WellFormed(UpdatePane(l, pane))
         /\ UpdatePane(l, pane).focused = l.focused
         /\ DOMAIN UpdatePane(l, pane).panes = DOMAIN l.panes
         /\ Len(UpdatePane(l, pane).panes) = Len(l.panes)
         /\ \A j \in DOMAIN l.panes : UpdatePane(l, pane).panes[j] = IF j = i THEN pane ELSE l.panes[j]
         /\ PaneIdsOf(UpdatePane(l, pane)) = PaneIdsOf(l)
         /\ OpenIn(UpdatePane(l, pane)) = (OpenIn(l) \ ToSet(l.panes[i].tabs)) \cup ToSet(pane.tabs)
<1> DEFINE n == UpdatePane(l, pane)
           D == DOMAIN l.panes
<1>1. l \in [panes : Seq(PaneRecords), focused : PaneIds] /\ l.panes # <<>>
  BY DEF WellFormed
<1>2. /\ n.panes = [j \in D |-> IF l.panes[j].id = pane.id THEN pane ELSE l.panes[j]]
      /\ n.focused = l.focused
      /\ n = [panes |-> n.panes, focused |-> n.focused]
  BY <1>1 DEF UpdatePane
<1>3. D = 1..Len(l.panes) /\ Len(l.panes) \in Nat /\ \A j \in D : l.panes[j] \in PaneRecords
  BY PanesTyped
<1>4. \A j \in D : l.panes[j].id = pane.id <=> j = i
  BY DEF WellFormed
<1>5. DOMAIN n.panes = D /\ \A j \in D : n.panes[j] = IF j = i THEN pane ELSE l.panes[j]
  BY <1>2, <1>4
<1>6. n.panes \in Seq(PaneRecords) /\ Len(n.panes) = Len(l.panes)
  <2>1. n.panes \in [1..Len(l.panes) -> PaneRecords]
    BY <1>2, <1>3
  <2> QED
    BY <1>3, <2>1
<1> HIDE DEF n
<1>7. n \in [panes : Seq(PaneRecords), focused : PaneIds] /\ n.panes # <<>>
  BY <1>1, <1>2, <1>6
<1>8. Apart(n.panes)
  BY <1>5 DEF Apart, WellFormed
<1>9. \A j, k \in D : n.panes[j].id = n.panes[k].id => j = k
  BY <1>4, <1>5 DEF WellFormed
<1>10. \A j \in D : ActiveInPane(n.panes[j])
  BY <1>5 DEF WellFormed
<1>11. WellFormed(n)
  BY <1>5, <1>7, <1>8, <1>9, <1>10 DEF WellFormed
<1>12. PaneIdsOf(n) = PaneIdsOf(l)
  BY <1>5 DEF PaneIdsOf
<1>13. OpenIn(n) = (OpenIn(l) \ ToSet(l.panes[i].tabs)) \cup ToSet(pane.tabs)
  <2>1. \A x : x \in OpenIn(n) <=> \E j \in D : x \in ToSet(n.panes[j].tabs)
    BY <1>5 DEF OpenIn
  <2>2. \A x : x \in OpenIn(l) <=> \E j \in D : x \in ToSet(l.panes[j].tabs)
    BY DEF OpenIn
  <2>3. \A j \in D : j # i => ToSet(l.panes[j].tabs) \cap ToSet(l.panes[i].tabs) = {}
    BY DEF WellFormed, Apart
  <2> QED
    BY <1>5, <2>1, <2>2, <2>3
<1> QED
  BY <1>2, <1>5, <1>6, <1>11, <1>12, <1>13 DEF n
LEMMA Removed ==
  ASSUME NEW l, WellFormed(l), NEW i \in DOMAIN l.panes, Len(l.panes) > 1,
         NEW n, n = RemovePane(l, l.panes[i].id)
  PROVE  /\ WellFormed(n)
         /\ Len(n.panes) = Len(l.panes) - 1
         /\ PaneIdsOf(n) = PaneIdsOf(l) \ {l.panes[i].id}
         /\ OpenIn(n) = OpenIn(l) \ ToSet(l.panes[i].tabs)
         /\ IF l.focused = l.panes[i].id THEN n.focused \in PaneIdsOf(n) ELSE n.focused = l.focused
         /\ \A j \in DOMAIN n.panes : n.panes[j] = l.panes[IF j < i THEN j ELSE j + 1]
<1> DEFINE rest == RemoveAt(l.panes, i)
           D == DOMAIN l.panes
           old(j) == IF j < i THEN j ELSE j + 1
<1>1. l.panes \in Seq(PaneRecords) /\ l.focused \in PaneIds /\ D = 1..Len(l.panes) /\ Len(l.panes) \in Nat
  BY PanesTyped
<1>2. i \in 1..Len(l.panes) /\ i # 0
  BY <1>1
<1>3. PaneIndex(l, l.panes[i].id) = i
  BY FoundAt
<1>4. /\ rest \in Seq(PaneRecords) /\ Len(rest) = Len(l.panes) - 1
      /\ \A j \in 1..Len(l.panes) - 1 : rest[j] = IF j < i THEN l.panes[j] ELSE l.panes[j + 1]
  BY <1>1, <1>2, RemovedAt
<1>5. ~(i = 0 \/ Len(l.panes) <= 1)
  BY <1>1, <1>2
<1>6. /\ n.panes = rest
      /\ n.focused = IF l.focused = l.panes[i].id
                     THEN rest[IF i <= Len(rest) THEN i ELSE Len(rest)].id ELSE l.focused
      /\ n = [panes |-> n.panes, focused |-> n.focused]
  <2> HIDE DEF rest
  <2>1. n = [panes |-> rest,
             focused |-> IF l.focused = l.panes[i].id
                         THEN rest[IF i <= Len(rest) THEN i ELSE Len(rest)].id ELSE l.focused]
    BY <1>3, <1>5 DEF RemovePane, rest
  <2> QED
    BY <2>1
<1> HIDE DEF rest
<1>7. DOMAIN n.panes = 1..Len(l.panes) - 1 /\ Len(n.panes) = Len(l.panes) - 1
  BY <1>4, <1>6
<1>8. \A j \in DOMAIN n.panes : old(j) \in D /\ old(j) # i
  BY <1>1, <1>2, <1>7
<1>9. \A j \in DOMAIN n.panes : n.panes[j] = l.panes[old(j)]
  BY <1>4, <1>6, <1>7
<1>10. \A j, k \in DOMAIN n.panes : old(j) = old(k) => j = k
  BY <1>2, <1>7
<1>11. \A k \in D : k # i => \E j \in DOMAIN n.panes : old(j) = k
  <2> SUFFICES ASSUME NEW k \in D, k # i PROVE \E j \in DOMAIN n.panes : old(j) = k
    OBVIOUS
  <2>1. CASE k < i
    <3>1. k \in DOMAIN n.panes /\ old(k) = k
      BY <1>1, <1>2, <1>7, <2>1
    <3> QED
      BY <3>1
  <2>2. CASE k > i
    <3>1. k - 1 \in DOMAIN n.panes /\ old(k - 1) = k
      BY <1>1, <1>2, <1>7, <2>2
    <3> QED
      BY <3>1
  <2> QED
    BY <1>1, <1>2, <2>1, <2>2
<1>12. \E at \in DOMAIN n.panes : n.focused = IF l.focused = l.panes[i].id THEN n.panes[at].id ELSE l.focused
  <2> DEFINE at == IF i <= Len(rest) THEN i ELSE Len(rest)
  <2>1. at \in DOMAIN n.panes
    BY <1>1, <1>2, <1>4, <1>7
  <2>2. n.focused = IF l.focused = l.panes[i].id THEN n.panes[at].id ELSE l.focused
    BY <1>6
  <2> QED
    BY <2>1, <2>2
<1> HIDE DEF old
<1>13. PaneIdsOf(n) = PaneIdsOf(l) \ {l.panes[i].id}
  <2>1. \A j \in D : j # i => l.panes[j].id # l.panes[i].id
    BY DEF WellFormed
  <2> QED
    BY <1>8, <1>9, <1>11, <2>1 DEF PaneIdsOf
<1>14. OpenIn(n) = OpenIn(l) \ ToSet(l.panes[i].tabs)
  <2>1. \A x : x \in OpenIn(n) <=> \E j \in DOMAIN n.panes : x \in ToSet(n.panes[j].tabs)
    BY DEF OpenIn
  <2>2. \A x : x \in OpenIn(l) <=> \E j \in D : x \in ToSet(l.panes[j].tabs)
    BY DEF OpenIn
  <2>3. \A j \in D : j # i => ToSet(l.panes[j].tabs) \cap ToSet(l.panes[i].tabs) = {}
    BY DEF WellFormed, Apart
  <2> QED
    BY <1>8, <1>9, <1>11, <2>1, <2>2, <2>3
<1>15. n \in [panes : Seq(PaneRecords), focused : PaneIds] /\ n.panes # <<>>
  <2>1. n.focused \in PaneIds
    BY <1>1, <1>8, <1>9, <1>12, PanesTyped
  <2>2. n.panes # <<>>
    BY <1>12
  <2> QED
    BY <1>4, <1>6, <2>1, <2>2
<1>16. Apart(n.panes)
  <2>1. \A j \in DOMAIN n.panes : Injective(n.panes[j].tabs)
    BY <1>8, <1>9, PanesTyped
  <2>2. \A j, k \in D : j # k => ToSet(l.panes[j].tabs) \cap ToSet(l.panes[k].tabs) = {}
    BY DEF WellFormed, Apart
  <2>3. ASSUME NEW j \in DOMAIN n.panes, NEW k \in DOMAIN n.panes, j # k
        PROVE  ToSet(n.panes[j].tabs) \cap ToSet(n.panes[k].tabs) = {}
    <3>1. old(j) # old(k) /\ old(j) \in D /\ old(k) \in D
      BY <1>8, <1>10, <2>3
    <3> QED
      BY <1>9, <2>2, <3>1
  <2> QED
    BY <2>1, <2>3 DEF Apart
<1>17. \A j, k \in DOMAIN n.panes : n.panes[j].id = n.panes[k].id => j = k
  BY <1>8, <1>9, <1>10 DEF WellFormed
<1>18. \A j \in DOMAIN n.panes : ActiveInPane(n.panes[j])
  BY <1>8, <1>9 DEF WellFormed
<1>19. IF l.focused = l.panes[i].id THEN n.focused \in PaneIdsOf(n) ELSE n.focused = l.focused
  BY <1>12 DEF PaneIdsOf
<1>20. WellFormed(n)
  BY <1>15, <1>16, <1>17, <1>18 DEF WellFormed
<1> QED
  BY <1>7, <1>9, <1>13, <1>14, <1>19, <1>20 DEF old

LEMMA Inserted ==
  ASSUME NEW l, WellFormed(l), NEW adjacent \in PaneIdsOf(l), NEW direction,
         NEW pane \in PaneRecords, pane.id \notin PaneIdsOf(l), Injective(pane.tabs), ActiveInPane(pane),
         ToSet(pane.tabs) \cap OpenIn(l) = {},
         NEW n, n = InsertPane(l, adjacent, pane, direction)
  PROVE  /\ WellFormed(n)
         /\ Len(n.panes) = Len(l.panes) + 1
         /\ PaneIdsOf(n) = PaneIdsOf(l) \cup {pane.id}
         /\ OpenIn(n) = OpenIn(l) \cup ToSet(pane.tabs)
         /\ n.focused = l.focused
<1> DEFINE D == DOMAIN l.panes
<1>1. l.panes \in Seq(PaneRecords) /\ l.focused \in PaneIds /\ D = 1..Len(l.panes) /\ Len(l.panes) \in Nat
  BY PanesTyped
<1>2. PICK i \in D : PaneIndex(l, adjacent) = i
  BY Found
<1> DEFINE at == IF direction = "right" THEN i + 1 ELSE i
           all == InsertAt(l.panes, at, pane)
           old(j) == IF j < at THEN j ELSE j - 1
<1>3. at \in 1..Len(l.panes) + 1 /\ i # 0
  BY <1>1
<1>4. n.panes = all /\ n.focused = l.focused /\ n = [panes |-> n.panes, focused |-> n.focused]
  <2>1. l = [panes |-> l.panes, focused |-> l.focused]
    BY DEF WellFormed
  <2>2. n = [l EXCEPT !.panes = all]
    BY <1>2, <1>3 DEF InsertPane
  <2> HIDE DEF all
  <2> QED
    BY <2>1, <2>2
<1> HIDE DEF at
<1>5. /\ all \in Seq(PaneRecords) /\ Len(all) = Len(l.panes) + 1
      /\ \A j \in 1..Len(l.panes) + 1 :
           all[j] = IF j < at THEN l.panes[j] ELSE IF j = at THEN pane ELSE l.panes[j - 1]
  <2> DEFINE s == l.panes
  <2>1. s \in Seq(PaneRecords) /\ at \in 1..Len(s) + 1
    BY <1>1, <1>3
  <2> HIDE DEF s
  <2>2. /\ InsertAt(s, at, pane) \in Seq(PaneRecords) /\ Len(InsertAt(s, at, pane)) = Len(s) + 1
        /\ \A j \in 1..Len(s) + 1 :
             InsertAt(s, at, pane)[j] = IF j < at THEN s[j] ELSE IF j = at THEN pane ELSE s[j - 1]
    BY <2>1, InsertedAt
  <2> QED
    BY <2>2 DEF s
<1> HIDE DEF all
<1>6. DOMAIN n.panes = 1..Len(l.panes) + 1 /\ Len(n.panes) = Len(l.panes) + 1
  BY <1>4, <1>5
<1>7. at \in DOMAIN n.panes /\ n.panes[at] = pane
  BY <1>3, <1>4, <1>5, <1>6
<1>8. \A j \in DOMAIN n.panes : j # at => old(j) \in D
  BY <1>1, <1>3, <1>6
<1>9. \A j \in DOMAIN n.panes : j # at => n.panes[j] = l.panes[old(j)]
  BY <1>3, <1>4, <1>5, <1>6
<1>10. \A j, k \in DOMAIN n.panes : j # at /\ k # at /\ old(j) = old(k) => j = k
  BY <1>3, <1>6
<1>11. \A k \in D : \E j \in DOMAIN n.panes : j # at /\ old(j) = k
  <2> SUFFICES ASSUME NEW k \in D PROVE \E j \in DOMAIN n.panes : j # at /\ old(j) = k
    OBVIOUS
  <2>1. CASE k < at
    <3>1. k \in DOMAIN n.panes /\ k # at /\ old(k) = k
      BY <1>1, <1>3, <1>6, <2>1
    <3> QED
      BY <3>1
  <2>2. CASE ~(k < at)
    <3>1. k + 1 \in DOMAIN n.panes /\ k + 1 # at /\ old(k + 1) = k
      BY <1>1, <1>3, <1>6, <2>2
    <3> QED
      BY <3>1
  <2> QED
    BY <2>1, <2>2
<1> HIDE DEF old
<1>12. PaneIdsOf(n) = PaneIdsOf(l) \cup {pane.id}
  BY <1>7, <1>8, <1>9, <1>11 DEF PaneIdsOf
<1>13. OpenIn(n) = OpenIn(l) \cup ToSet(pane.tabs)
  <2>1. \A x : x \in OpenIn(n) <=> \E j \in DOMAIN n.panes : x \in ToSet(n.panes[j].tabs)
    BY DEF OpenIn
  <2>2. \A x : x \in OpenIn(l) <=> \E j \in D : x \in ToSet(l.panes[j].tabs)
    BY DEF OpenIn
  <2> QED
    BY <1>7, <1>8, <1>9, <1>11, <2>1, <2>2
<1>14. n \in [panes : Seq(PaneRecords), focused : PaneIds] /\ n.panes # <<>>
  <2>1. n.panes # <<>>
    BY <1>7
  <2> QED
    BY <1>1, <1>4, <1>5, <2>1
<1>15. \A j \in D : ToSet(l.panes[j].tabs) \cap ToSet(pane.tabs) = {}
  BY DEF OpenIn
<1>16. Apart(n.panes)
  <2>1. \A j \in DOMAIN n.panes : Injective(n.panes[j].tabs)
    BY <1>7, <1>8, <1>9, PanesTyped
  <2>2. \A j, k \in D : j # k => ToSet(l.panes[j].tabs) \cap ToSet(l.panes[k].tabs) = {}
    BY DEF WellFormed, Apart
  <2> QED
    BY <1>7, <1>8, <1>9, <1>10, <1>15, <2>1, <2>2 DEF Apart
<1>17. \A j \in D : l.panes[j].id # pane.id
  BY DEF PaneIdsOf
<1>18. \A j, k \in DOMAIN n.panes : n.panes[j].id = n.panes[k].id => j = k
  BY <1>7, <1>8, <1>9, <1>10, <1>17 DEF WellFormed
<1>19. \A j \in DOMAIN n.panes : ActiveInPane(n.panes[j])
  BY <1>7, <1>8, <1>9 DEF WellFormed
<1>20. WellFormed(n)
  BY <1>14, <1>16, <1>18, <1>19 DEF WellFormed
<1> QED
  BY <1>4, <1>6, <1>12, <1>13, <1>20
\* A pane without some of its tabs: the tab that becomes active is one kept.
LEMMA TabTaken ==
  ASSUME NEW pane \in PaneRecords, Injective(pane.tabs), ActiveInPane(pane),
         NEW tab \in ToSet(pane.tabs), NEW n, n = WithoutTab(pane, tab)
  PROVE  /\ n \in PaneRecords /\ n.id = pane.id
         /\ ToSet(n.tabs) = ToSet(pane.tabs) \ {tab}
         /\ Injective(n.tabs) /\ ActiveInPane(n)
<1> DEFINE tabs == pane.tabs
           rest == Without(tabs, {tab})
           I == {k \in 1..Len(tabs) : tabs[k] = tab}
           i == SelectInSeq(tabs, LAMBDA t : t = tab)
           next == IF i <= Len(rest) THEN rest[i] ELSE IF i > 1 THEN rest[i - 1] ELSE None
<1>1. /\ tabs \in Seq(TabIds) /\ pane.selected \in SUBSET TabIds /\ pane.active \in TabIds \cup {None}
      /\ pane = [id |-> pane.id, tabs |-> tabs, active |-> pane.active, selected |-> pane.selected]
      /\ pane.id \in PaneIds
  BY DEF PaneRecords
<1>2. n = [id |-> pane.id, tabs |-> rest, active |-> IF pane.active = tab THEN next ELSE pane.active,
           selected |-> pane.selected \ {tab}]
  <2>1. n = [pane EXCEPT !.tabs = rest, !.active = IF @ = tab THEN next ELSE @, !.selected = @ \ {tab}]
    BY DEF WithoutTab
  <2> HIDE DEF rest, next
  <2> QED
    BY <1>1, <2>1
<1> HIDE DEF tabs
<1>3. PICK k \in 1..Len(tabs) : tabs[k] = tab
  BY <1>1, SetOf DEF tabs
<1>4. \A m \in 1..Len(tabs) : tabs[m] = tab => m = k
  BY <1>1, <1>3 DEF Injective, tabs
<1>5. i = k
  <2>1. i = IF I # {} THEN Min(I) ELSE 0
    BY DEF SelectInSeq
  <2>2. I = {k}
    BY <1>3, <1>4
  <2>3. I # {} /\ I \in SUBSET Nat
    BY <2>2
  <2> HIDE DEF I
  <2> QED
    BY <2>1, <2>2, <2>3, MinOf
<1>6. /\ rest \in Seq(TabIds) /\ ToSet(rest) = ToSet(tabs) \ {tab} /\ Injective(rest)
      /\ Len(rest) = Len(tabs) - 1
  <2>1. Injective(tabs)
    BY DEF tabs
  <2> QED
    BY <1>1, <1>3, <2>1, Filtered
<1> HIDE DEF i, rest
<1>7. IF rest = <<>> THEN next = None ELSE next \in ToSet(rest)
  <2>1. /\ Len(tabs) \in Nat /\ Len(rest) \in Nat /\ (rest = <<>> <=> Len(rest) = 0)
        /\ Len(rest) = Len(tabs) - 1 /\ k \in 1..Len(tabs)
    BY <1>1, <1>6
  <2>2. \A m \in 1..Len(rest) : rest[m] \in ToSet(rest)
    BY <1>6 DEF ToSet
  <2>3. CASE rest = <<>>
    <3>1. Len(rest) = 0 /\ k = 1
      <4>1. Len(rest) = 0
        BY <2>1, <2>3
      <4>2. Len(tabs) = 1
        BY <2>1, <4>1
      <4> QED
        BY <2>1, <4>1, <4>2
    <3> QED
      BY <1>5, <2>3, <3>1
  <2>4. CASE rest # <<>> /\ k <= Len(rest)
    BY <1>5, <2>2, <2>4
  <2>5. CASE rest # <<>> /\ ~(k <= Len(rest))
    <3>1. k > 1 /\ k - 1 \in 1..Len(rest)
      BY <1>6, <2>1, <2>5
    <3> QED
      BY <1>5, <2>2, <2>5, <3>1
  <2> QED
    BY <2>3, <2>4, <2>5
<1> HIDE DEF next
<1>8. pane.active # tab => rest # <<>> /\ pane.active \in ToSet(rest)
  <2>1. pane.active \in ToSet(tabs)
    <3>1. tabs # <<>>
      BY <1>1, <1>3
    <3> QED
      BY <1>1, <3>1, SetOf DEF ActiveInPane, tabs
  <2>2. rest = <<>> => ToSet(rest) = {}
    BY <1>6, SetOf
  <2> QED
    BY <1>6, <2>1, <2>2
<1>9. /\ n.tabs = rest /\ n.id = pane.id /\ n.selected = pane.selected \ {tab}
      /\ n.active = IF pane.active = tab THEN next ELSE pane.active
  BY <1>2
<1>10. n \in PaneRecords
  <2>1. next \in TabIds \cup {None}
    BY <1>6, <1>7, SetOf
  <2> QED
    BY <1>1, <1>2, <1>6, <2>1 DEF PaneRecords
<1>11. ActiveInPane(n)
  <2>1. IF n.tabs = <<>> THEN n.active = None ELSE n.active \in ToSet(n.tabs)
    BY <1>7, <1>8, <1>9
  <2>2. n.selected \subseteq ToSet(n.tabs)
    BY <1>6, <1>9 DEF ActiveInPane, tabs
  <2>3. n.tabs \in Seq(TabIds)
    BY <1>6, <1>9
  <2> QED
    BY <2>1, <2>2, <2>3, SetOf DEF ActiveInPane
<1> QED
  BY <1>6, <1>9, <1>10, <1>11 DEF tabs
LEMMA TabsTaken ==
  ASSUME NEW pane \in PaneRecords, Injective(pane.tabs), ActiveInPane(pane), pane.tabs # <<>>,
         NEW ids, NEW n, n = WithoutTabs(pane, ids)
  PROVE  /\ n \in PaneRecords /\ n.id = pane.id
         /\ ToSet(n.tabs) = ToSet(pane.tabs) \ ids
         /\ Injective(n.tabs) /\ ActiveInPane(n)
<1> DEFINE tabs == pane.tabs
           rest == Without(tabs, ids)
           old == SelectInSeq(tabs, LAMBDA t : t = pane.active)
           right == SelectInSubSeq(tabs, old, Len(tabs), LAMBDA t : t \notin ids)
           left == SelectLastInSubSeq(tabs, 1, old - 1, LAMBDA t : t \notin ids)
           next == IF right # 0 THEN tabs[right] ELSE IF left # 0 THEN tabs[left] ELSE None
<1>1. /\ tabs \in Seq(TabIds) /\ pane.selected \in SUBSET TabIds /\ pane.active \in TabIds \cup {None}
      /\ pane = [id |-> pane.id, tabs |-> tabs, active |-> pane.active, selected |-> pane.selected]
      /\ pane.id \in PaneIds
  BY DEF PaneRecords
<1>2. n = [id |-> pane.id, tabs |-> rest, active |-> IF pane.active \in ids THEN next ELSE pane.active,
           selected |-> pane.selected \ ids]
  <2>1. n = [pane EXCEPT !.tabs = rest, !.active = IF @ \in ids THEN next ELSE @, !.selected = @ \ ids]
    BY DEF WithoutTabs
  <2> HIDE DEF rest, next
  <2> QED
    BY <1>1, <2>1
<1>3. pane.active \in ToSet(tabs) /\ Len(tabs) \in Nat
  BY <1>1, SetOf DEF ActiveInPane
<1> HIDE DEF tabs
<1>4. old \in 1..Len(tabs) /\ tabs[old] = pane.active
  <2> DEFINE I == {k \in 1..Len(tabs) : tabs[k] = pane.active}
  <2>1. old = IF I # {} THEN Min(I) ELSE 0
    BY DEF SelectInSeq
  <2>2. I # {} /\ I \in SUBSET Nat
    BY <1>1, <1>3, SetOf
  <2>3. old \in I
    <3> HIDE DEF I
    <3> QED
      BY <2>1, <2>2, MinOf
  <2> QED
    BY <2>3
<1>5. /\ rest \in Seq(TabIds) /\ ToSet(rest) = ToSet(tabs) \ ids /\ Injective(rest)
  <2>1. Injective(tabs)
    BY DEF tabs
  <2> QED
    BY <1>1, <2>1, Filtered
<1> HIDE DEF old, rest
<1>6. \/ right \in 1..Len(tabs) /\ tabs[right] \notin ids
      \/ right = 0 /\ \A k \in old..Len(tabs) : tabs[k] \in ids
  <2> DEFINE I == {k \in old..Len(tabs) : tabs[k] \notin ids}
  <2>1. right = IF I # {} THEN Min(I) ELSE 0
    BY DEF SelectInSubSeq
  <2>2. I \in SUBSET Nat /\ I \subseteq 1..Len(tabs)
    BY <1>3, <1>4
  <2>3. I # {} => right \in I
    <3> HIDE DEF I
    <3> QED
      BY <2>1, <2>2, MinOf
  <2> QED
    BY <2>1, <2>2, <2>3
<1>7. \/ left \in 1..Len(tabs) /\ tabs[left] \notin ids
      \/ left = 0 /\ \A k \in 1..old - 1 : tabs[k] \in ids
  <2> DEFINE I == {k \in 1..old - 1 : tabs[k] \notin ids}
  <2>1. left = IF I # {} THEN Max(I) ELSE 0
    BY DEF SelectLastInSubSeq
  <2>2. I \in SUBSET (0..Len(tabs)) /\ I \subseteq 1..Len(tabs)
    BY <1>3, <1>4
  <2>3. I # {} => left \in I
    <3> HIDE DEF I
    <3> QED
      BY <1>3, <2>1, <2>2, MaxOf
  <2> QED
    BY <2>1, <2>2, <2>3
<1> HIDE DEF right, left
<1>8. \A k \in 1..Len(tabs) : tabs[k] \notin ids => tabs[k] \in ToSet(rest) /\ tabs[k] \in TabIds
  BY <1>1, <1>5, SetOf
<1>9. IF rest = <<>> THEN next = None ELSE next \in ToSet(rest)
  <2>1. rest = <<>> <=> ToSet(rest) = {}
    BY <1>5, SetOf
  <2>2. CASE right # 0
    BY <1>6, <1>8, <2>1, <2>2
  <2>3. CASE right = 0 /\ left # 0
    BY <1>7, <1>8, <2>1, <2>3
  <2>4. CASE right = 0 /\ left = 0
    <3>1. \A k \in 1..Len(tabs) : k \in old..Len(tabs) \/ k \in 1..old - 1
      BY <1>3, <1>4
    <3>2. 0 \notin 1..Len(tabs)
      OBVIOUS
    <3>3. \A k \in 1..Len(tabs) : tabs[k] \in ids
      BY <1>6, <1>7, <2>4, <3>1, <3>2
    <3>4. ToSet(rest) = {}
      BY <1>1, <1>5, <3>3, SetOf
    <3> QED
      BY <2>1, <2>4, <3>4
  <2> QED
    BY <2>2, <2>3, <2>4
<1> HIDE DEF next
<1>10. pane.active \notin ids => rest # <<>> /\ pane.active \in ToSet(rest)
  <2>1. rest = <<>> => ToSet(rest) = {}
    BY <1>5, SetOf
  <2> QED
    BY <1>3, <1>5, <2>1
<1>11. /\ n.tabs = rest /\ n.id = pane.id /\ n.selected = pane.selected \ ids
       /\ n.active = IF pane.active \in ids THEN next ELSE pane.active
  BY <1>2
<1>12. n \in PaneRecords
  <2>1. next \in TabIds \cup {None}
    BY <1>5, <1>9, SetOf
  <2> QED
    BY <1>1, <1>2, <1>5, <2>1 DEF PaneRecords
<1>13. ActiveInPane(n)
  <2>1. IF n.tabs = <<>> THEN n.active = None ELSE n.active \in ToSet(n.tabs)
    BY <1>9, <1>10, <1>11
  <2>2. n.selected \subseteq ToSet(n.tabs)
    BY <1>5, <1>11 DEF ActiveInPane, tabs
  <2>3. n.tabs \in Seq(TabIds)
    BY <1>5, <1>11
  <2> QED
    BY <2>1, <2>2, <2>3, SetOf DEF ActiveInPane
<1> QED
  BY <1>5, <1>11, <1>12, <1>13 DEF tabs
\* What moves no tab between panes.
Alike(n, l) ==
  /\ WellFormed(n)
  /\ Len(n.panes) = Len(l.panes)
  /\ PaneIdsOf(n) = PaneIdsOf(l)
  /\ OpenIn(n) = OpenIn(l)

HasFocusIn(l) == l.focused \in PaneIdsOf(l)

LEMMA Refocused ==
  ASSUME NEW l, WellFormed(l), NEW p \in PaneIds
  PROVE  Alike([l EXCEPT !.focused = p], l) /\ [l EXCEPT !.focused = p].focused = p
<1> DEFINE n == [l EXCEPT !.focused = p]
<1>1. l \in [panes : Seq(PaneRecords), focused : PaneIds]
  BY DEF WellFormed
<1>2. n.panes = l.panes /\ n.focused = p /\ n \in [panes : Seq(PaneRecords), focused : PaneIds]
  BY <1>1
<1> HIDE DEF n
<1>3. WellFormed(n)
  BY <1>2 DEF WellFormed
<1> QED
  BY <1>2, <1>3 DEF Alike, PaneIdsOf, OpenIn, n

\* A pane of a layout, replaced by one of the same tabs.
LEMMA SameTabs ==
  ASSUME NEW l, WellFormed(l), NEW i \in DOMAIN l.panes,
         NEW pane \in PaneRecords, pane.id = l.panes[i].id,
         Injective(pane.tabs), ActiveInPane(pane), ToSet(pane.tabs) = ToSet(l.panes[i].tabs)
  PROVE  Alike(UpdatePane(l, pane), l) /\ UpdatePane(l, pane).focused = l.focused
<1>1. \A j \in DOMAIN l.panes : j # i => ToSet(l.panes[j].tabs) \cap ToSet(pane.tabs) = {}
  BY DEF WellFormed, Apart
<1>2. ToSet(l.panes[i].tabs) \subseteq OpenIn(l)
  BY DEF OpenIn
<1>3. /\ WellFormed(UpdatePane(l, pane)) /\ UpdatePane(l, pane).focused = l.focused
      /\ Len(UpdatePane(l, pane).panes) = Len(l.panes)
      /\ PaneIdsOf(UpdatePane(l, pane)) = PaneIdsOf(l)
      /\ OpenIn(UpdatePane(l, pane)) = (OpenIn(l) \ ToSet(l.panes[i].tabs)) \cup ToSet(pane.tabs)
  BY <1>1, Updated
<1> QED
  BY <1>2, <1>3 DEF Alike

LEMMA PaneActivated ==
  ASSUME NEW pane \in PaneRecords, Injective(pane.tabs), ActiveInPane(pane), NEW tab \in ToSet(pane.tabs),
         NEW n, n = [pane EXCEPT !.active = tab]
  PROVE  n \in PaneRecords /\ n.id = pane.id /\ n.tabs = pane.tabs /\ ActiveInPane(n)
<1>1. pane.tabs \in Seq(TabIds)
  BY DEF PaneRecords
<1>2. tab \in TabIds /\ Contains(pane.tabs, tab) /\ pane.tabs # <<>>
  BY <1>1, SetOf
<1>3. n.id = pane.id /\ n.tabs = pane.tabs /\ n.selected = pane.selected /\ n.active = tab /\ n \in PaneRecords
  BY <1>2 DEF PaneRecords
<1> QED
  BY <1>2, <1>3 DEF ActiveInPane

LEMMA Activated ==
  ASSUME NEW l, WellFormed(l), NEW tab \in OpenIn(l), NEW n, n = Activate(l, tab)
  PROVE  Alike(n, l) /\ HasFocusIn(n)
<1>1. PICK i \in DOMAIN l.panes : FindPaneByTabId(l, tab) = l.panes[i] /\ tab \in ToSet(l.panes[i].tabs)
  BY FoundByTab
<1>2. PICK pane : pane = [l.panes[i] EXCEPT !.active = tab]
  OBVIOUS
<1>3. pane \in PaneRecords /\ pane.id = l.panes[i].id /\ pane.tabs = l.panes[i].tabs /\ ActiveInPane(pane)
  BY <1>1, <1>2, PaneActivated, PanesTyped
<1>4. PICK m : m = UpdatePane(l, pane)
  OBVIOUS
<1>5. Alike(m, l)
  BY <1>3, <1>4, SameTabs, PanesTyped
<1>6. n = [m EXCEPT !.focused = pane.id]
  BY <1>1, <1>2, <1>3, <1>4 DEF Activate
<1>7. pane.id \in PaneIds /\ pane.id \in PaneIdsOf(l)
  BY <1>3, PanesTyped DEF PaneIdsOf
<1>8. Alike(n, m) /\ n.focused = pane.id
  BY <1>5, <1>6, <1>7, Refocused DEF Alike
<1> QED
  BY <1>5, <1>7, <1>8 DEF Alike, HasFocusIn

LEMMA FocusActivated ==
  ASSUME NEW l, WellFormed(l), NEW n, n = ActivateFocused(l)
  PROVE  Alike(n, l) /\ (HasFocusIn(l) => HasFocusIn(n)) /\ (~HasFocusIn(l) => n = l)
<1>1. Alike(l, l)
  BY DEF Alike
<1>2. CASE l.focused \notin PaneIdsOf(l)
  BY <1>1, <1>2 DEF ActivateFocused, HasFocusIn
<1>3. CASE l.focused \in PaneIdsOf(l)
  <2>1. PICK i \in DOMAIN l.panes : FindPane(l, l.focused) = l.panes[i]
    BY <1>3, Found
  <2>2. PICK tab : tab = l.panes[i].active
    OBVIOUS
  <2>3. n = IF tab = None THEN l ELSE Activate(l, tab)
    BY <1>3, <2>1, <2>2 DEF ActivateFocused
  <2>4. CASE tab = None
    BY <1>1, <1>3, <2>3, <2>4 DEF HasFocusIn
  <2>5. CASE tab # None
    <3>1. ActiveInPane(l.panes[i]) /\ l.panes[i].tabs \in Seq(TabIds)
      BY PanesTyped
    <3>2. tab \in ToSet(l.panes[i].tabs)
      <4>1. PICK s \in Seq(TabIds) : s = l.panes[i].tabs
        BY <3>1
      <4>2. Contains(s, tab)
        BY <2>2, <2>5, <3>1, <4>1 DEF ActiveInPane
      <4> QED
        BY <4>1, <4>2, SetOf
    <3>3. tab \in OpenIn(l)
      BY <3>2 DEF OpenIn
    <3> QED
      BY <1>3, <2>3, <2>5, <3>3, Activated DEF HasFocusIn
  <2> QED
    BY <2>4, <2>5
<1> QED
  BY <1>2, <1>3

LEMMA PaneClosed ==
  ASSUME NEW l, WellFormed(l), NEW i \in DOMAIN l.panes, Len(l.panes) > 1,
         NEW n, n = ClosePaneIn(l, l.panes[i].id)
  PROVE  /\ WellFormed(n)
         /\ Len(n.panes) = Len(l.panes) - 1
         /\ OpenIn(n) = OpenIn(l) \ ToSet(l.panes[i].tabs)
         /\ HasFocusIn(l) => HasFocusIn(n)
<1>1. PICK m : m = RemovePane(l, l.panes[i].id)
  OBVIOUS
<1>2. /\ WellFormed(m)
      /\ Len(m.panes) = Len(l.panes) - 1
      /\ PaneIdsOf(m) = PaneIdsOf(l) \ {l.panes[i].id}
      /\ OpenIn(m) = OpenIn(l) \ ToSet(l.panes[i].tabs)
      /\ IF l.focused = l.panes[i].id THEN m.focused \in PaneIdsOf(m) ELSE m.focused = l.focused
  BY <1>1, Removed
<1>3. HasFocusIn(l) => HasFocusIn(m)
  BY <1>2 DEF HasFocusIn
<1>4. Alike(n, m) /\ (HasFocusIn(m) => HasFocusIn(n))
  BY <1>1, <1>2, FocusActivated DEF ClosePaneIn
<1> QED
  BY <1>2, <1>3, <1>4 DEF Alike
-----------------------------------------------------------------------------
(***************************************************************************)
(* The inductive invariant.                                                *)
(***************************************************************************)
RootFollows ==
  IF HasFocus
  THEN /\ openTabs = FocusedPane.tabs
       /\ activeTabId = FocusedPane.active
       /\ selectedTabIds = FocusedPane.selected
  ELSE /\ dropped # {}
       /\ openTabs = <<>> /\ activeTabId = None /\ selectedTabIds = {}

Opened == {t \in TabIds : content[t] # None}

\* A tab closed or dropped was opened once: its id is not used again.
IInv ==
  /\ WellFormed(layout)
  /\ Len(layout.panes) <= MaxPanes
  /\ content \in [TabIds -> Sessions \cup {Page, None}]
  /\ forced \subseteq TabIds
  /\ closed \cup dropped \subseteq Opened
  /\ Open = Opened \ (closed \cup dropped)
  /\ RootFollows
  /\ OneTabPerSession

LEMMA Synced ==
  ASSUME NEW new, SyncRootState(new), HasFocusIn(new) \/ dropped' # {}
  PROVE  layout' = new /\ RootFollows'
<1>1. layout' = new
  BY DEF SyncRootState
<1>2. CASE new.focused \in PaneIdsOf(new)
  BY <1>1, <1>2 DEF SyncRootState, RootFollows, HasFocus, FocusedPane
<1>3. CASE new.focused \notin PaneIdsOf(new)
  BY <1>1, <1>3 DEF SyncRootState, RootFollows, HasFocus, FocusedPane, HasFocusIn, EmptyPane
<1> QED
  BY <1>1, <1>2, <1>3

\* The actions that open no tab.
LEMMA NoneOpened ==
  ASSUME IInv, NEW new, SyncRootState(new), WellFormed(new), Len(new.panes) <= MaxPanes,
         HasFocusIn(layout) => HasFocusIn(new) \/ dropped' # {},
         UNCHANGED <<content, forced>>,
         NEW shut \in SUBSET Open, NEW lost \in SUBSET Open,
         closed' = closed \cup shut, dropped' = dropped \cup lost,
         OpenIn(new) = Open \ (shut \cup lost)
  PROVE  IInv'
<1>1. ~HasFocusIn(layout) => dropped # {}
  BY DEF IInv, RootFollows, HasFocus, HasFocusIn
<1>2. HasFocusIn(new) \/ dropped' # {}
  BY <1>1
<1>3. layout' = new /\ RootFollows'
  BY <1>2, Synced
<1>4. Opened' = Opened
  BY DEF Opened
<1>5. Open' = OpenIn(new)
  BY <1>3 DEF Open
<1>6. Open' = Opened' \ (closed' \cup dropped')
  BY <1>4, <1>5 DEF IInv
<1>7. closed' \cup dropped' \subseteq Opened'
  BY <1>4 DEF IInv
<1>8. OneTabPerSession'
  <2>1. Open' \ forced' \subseteq Open \ forced
    BY <1>5
  <2> QED
    BY <2>1 DEF IInv, OneTabPerSession
<1> QED
  BY <1>3, <1>6, <1>7, <1>8 DEF IInv

LEMMA OpenIsTyped ==
  ASSUME IInv
  PROVE  Open \subseteq TabIds /\ Open \subseteq Opened
  BY DEF IInv, Opened

\* The actions that leave every tab in its place.
LEMMA NoneMoved ==
  ASSUME IInv, NEW new, SyncRootState(new), Alike(new, layout),
         HasFocusIn(layout) => HasFocusIn(new), Keep
  PROVE  IInv'
<1>1. closed' = closed \cup {} /\ dropped' = dropped \cup {} /\ UNCHANGED <<content, forced>>
  BY DEF Keep
<1>2. {} \in SUBSET Open
  OBVIOUS
<1>3. OpenIn(new) = Open \ ({} \cup {})
  BY DEF Alike, Open
<1>4. WellFormed(new) /\ Len(new.panes) <= MaxPanes
  BY DEF Alike, IInv
<1> QED
  BY <1>1, <1>2, <1>3, <1>4, NoneOpened
-----------------------------------------------------------------------------
(***************************************************************************)
(* Opening and focusing.                                                   *)
(***************************************************************************)
LEMMA ActivatedAny ==
  ASSUME NEW l, WellFormed(l), NEW tab, NEW n, n = Activate(l, tab)
  PROVE  Alike(n, l) /\ (HasFocusIn(l) => HasFocusIn(n))
<1>1. CASE tab \in OpenIn(l)
  BY <1>1, Activated
<1>2. CASE tab \notin OpenIn(l)
  BY <1>2 DEF Activate, Alike
<1> QED
  BY <1>1, <1>2

LEMMA FocusedIs ==
  ASSUME IInv, HasFocus
  PROVE  \E i \in DOMAIN layout.panes :
           FocusedPane = layout.panes[i] /\ layout.focused = layout.panes[i].id
  BY Found DEF IInv, HasFocus, FocusedPane

LEMMA SessionFound ==
  ASSUME IInv, NEW s, SessionOpen(s)
  PROVE  TabOfSession(s) \in Open
<1> DEFINE shows(tab) == content[tab] = s
           I == {i \in 1..Len(layout.panes) : \E tab \in ToSet(layout.panes[i].tabs) : shows(tab)}
           i == Min(I)
           tabs == layout.panes[i].tabs
           K == {k \in 1..Len(tabs) : shows(tabs[k])}
<1>1. WellFormed(layout)
  BY DEF IInv
<1>2. I # {} /\ I \in SUBSET Nat
  <2>1. PICK tab \in Open : content[tab] = s
    BY DEF SessionOpen
  <2>2. PICK j \in DOMAIN layout.panes : tab \in ToSet(layout.panes[j].tabs)
    BY DEF Open, OpenIn
  <2>3. j \in 1..Len(layout.panes)
    BY <1>1, <2>2, PanesTyped
  <2>4. j \in I
    BY <2>1, <2>2, <2>3
  <2> QED
    BY <2>4
<1>3. i \in I
  <2> HIDE DEF I
  <2> QED
    BY <1>2, MinOf
<1>4. TabOfSession(s) = tabs[IF K # {} THEN Min(K) ELSE 0]
  <2>1. SelectInSeq(layout.panes, LAMBDA p : \E tab \in ToSet(p.tabs) : shows(tab)) = i
    BY <1>2 DEF SelectInSeq
  <2> QED
    BY <2>1 DEF TabOfSession, SelectInSeq
<1>5. i \in DOMAIN layout.panes /\ \E tab \in ToSet(layout.panes[i].tabs) : shows(tab)
  BY <1>1, <1>3, PanesTyped
<1> HIDE DEF i
<1>6. tabs \in Seq(TabIds)
  BY <1>1, <1>5, PanesTyped
<1> HIDE DEF tabs
<1>7. K # {} /\ K \in SUBSET Nat
  <2>1. PICK tab \in ToSet(tabs) : shows(tab)
    BY <1>5 DEF tabs
  <2> QED
    BY <1>6, <2>1, SetOf
<1>8. Min(K) \in K
  <2> HIDE DEF K
  <2> QED
    BY <1>7, MinOf
<1>9. TabOfSession(s) \in ToSet(tabs)
  BY <1>4, <1>6, <1>7, <1>8, SetOf
<1> QED
  BY <1>5, <1>9 DEF Open, OpenIn, tabs

\* A tab opened in the focused pane.
LEMMA TabAdded ==
  ASSUME IInv, HasFocus, NEW tab \in TabIds, NEW shows \in Sessions \cup {Page}, AddTab(tab, shows),
         UNCHANGED <<closed, dropped>>, forced \subseteq forced', forced' \subseteq TabIds,
         shows = Page \/ ~SessionOpen(shows) \/ tab \in forced'
  PROVE  IInv'
<1>1. PICK i \in DOMAIN layout.panes : FocusedPane = layout.panes[i] /\ layout.focused = layout.panes[i].id
  BY FocusedIs
<1>2. PICK old : old = layout.panes[i]
  OBVIOUS
<1>3. WellFormed(layout) /\ tab \notin Opened /\ tab \notin Open
  BY OpenIsTyped DEF IInv, AddTab, Opened
<1>4. old \in PaneRecords /\ Injective(old.tabs) /\ ActiveInPane(old) /\ old.tabs \in Seq(TabIds)
  BY <1>2, <1>3, PanesTyped
<1>5. ToSet(old.tabs) \subseteq Open
  BY <1>2 DEF Open, OpenIn
<1>6. PICK pane : pane = [old EXCEPT !.tabs = Append(@, tab), !.active = tab]
  OBVIOUS
<1>7. /\ Append(old.tabs, tab) \in Seq(TabIds)
      /\ ToSet(Append(old.tabs, tab)) = ToSet(old.tabs) \cup {tab}
      /\ Injective(Append(old.tabs, tab))
  BY <1>3, <1>4, <1>5, Appended
<1>8. /\ pane.id = old.id /\ pane.tabs = Append(old.tabs, tab) /\ pane.active = tab
      /\ pane.selected = old.selected /\ pane \in PaneRecords
  BY <1>4, <1>6, <1>7 DEF PaneRecords
<1>9. ActiveInPane(pane)
  <2>1. tab \in ToSet(pane.tabs) /\ pane.tabs \in Seq(TabIds)
    BY <1>7, <1>8
  <2>2. Contains(pane.tabs, tab) /\ pane.tabs # <<>>
    BY <2>1, SetOf
  <2>3. pane.selected \subseteq ToSet(pane.tabs)
    BY <1>4, <1>7, <1>8 DEF ActiveInPane
  <2> QED
    BY <1>8, <2>2, <2>3 DEF ActiveInPane
<1>10. PICK new : new = UpdatePane(layout, pane)
  OBVIOUS
<1>11. \A j \in DOMAIN layout.panes : j # i => ToSet(layout.panes[j].tabs) \cap ToSet(pane.tabs) = {}
  <2>1. \A j \in DOMAIN layout.panes : tab \notin ToSet(layout.panes[j].tabs)
    BY <1>3 DEF Open, OpenIn
  <2>2. \A j \in DOMAIN layout.panes : j # i => ToSet(layout.panes[j].tabs) \cap ToSet(old.tabs) = {}
    BY <1>2, <1>3 DEF WellFormed, Apart
  <2> QED
    BY <1>7, <1>8, <2>1, <2>2
<1>12. /\ WellFormed(new) /\ new.focused = layout.focused /\ Len(new.panes) = Len(layout.panes)
       /\ PaneIdsOf(new) = PaneIdsOf(layout)
       /\ OpenIn(new) = (OpenIn(layout) \ ToSet(old.tabs)) \cup ToSet(pane.tabs)
  <2>1. /\ WellFormed(layout) /\ pane \in PaneRecords /\ pane.id = layout.panes[i].id
        /\ Injective(pane.tabs) /\ ActiveInPane(pane)
    BY <1>2, <1>3, <1>7, <1>8, <1>9
  <2>2. /\ WellFormed(UpdatePane(layout, pane)) /\ UpdatePane(layout, pane).focused = layout.focused
        /\ Len(UpdatePane(layout, pane).panes) = Len(layout.panes)
        /\ PaneIdsOf(UpdatePane(layout, pane)) = PaneIdsOf(layout)
        /\ OpenIn(UpdatePane(layout, pane)) = (OpenIn(layout) \ ToSet(layout.panes[i].tabs)) \cup ToSet(pane.tabs)
    BY <1>11, <2>1, Updated
  <2> QED
    BY <1>2, <1>10, <2>2
<1>13. HasFocusIn(new) /\ SyncRootState(new)
  BY <1>1, <1>2, <1>6, <1>10, <1>12 DEF HasFocusIn, HasFocus, AddTab
<1>14. layout' = new /\ RootFollows'
  BY <1>13, Synced
<1>15. Open' = Open \cup {tab}
  BY <1>5, <1>7, <1>8, <1>12, <1>14 DEF Open
<1>16. content' \in [TabIds -> Sessions \cup {Page, None}] /\ content' = [content EXCEPT ![tab] = shows]
  BY DEF IInv, AddTab
<1>17. Opened' = Opened \cup {tab}
  <2>1. shows # None
    BY PanesAssumption
  <2> QED
    BY <1>16, <2>1 DEF Opened, IInv
<1>18. Open' = Opened' \ (closed' \cup dropped') /\ closed' \cup dropped' \subseteq Opened'
  BY <1>3, <1>15, <1>17 DEF IInv
<1>19. WellFormed(layout') /\ Len(layout'.panes) <= MaxPanes
  BY <1>12, <1>14 DEF IInv
<1>20. OneTabPerSession'
  <2>1. content'[tab] = shows /\ \A t \in Open : t # tab /\ content'[t] = content[t]
    BY <1>3, <1>16, OpenIsTyped DEF IInv
  <2> SUFFICES ASSUME NEW t \in Open' \ forced', NEW u \in Open' \ forced', t # u, content'[t] = content'[u],
                      content'[t] # Page
               PROVE  FALSE
    BY DEF OneTabPerSession
  <2>2. CASE t \in Open /\ u \in Open
    BY <2>1, <2>2 DEF IInv, OneTabPerSession
  <2>3. CASE t = tab \/ u = tab
    BY <1>15, <2>1, <2>3 DEF SessionOpen
  <2> QED
    BY <1>15, <2>2, <2>3
<1> QED
  BY <1>14, <1>16, <1>18, <1>19, <1>20 DEF IInv

LEMMA OpeningKeeps ==
  ASSUME IInv, Opening
  PROVE  IInv'
<1>0. WellFormed(layout) /\ forced \subseteq TabIds
  BY DEF IInv
<1>1. CASE OpenPage
  <2>1. PICK tab \in TabIds : AddTab(tab, Page) /\ HasFocus /\ UNCHANGED <<forced, closed, dropped>>
    BY <1>1 DEF OpenPage
  <2>2. Page \in Sessions \cup {Page}
    OBVIOUS
  <2> QED
    BY <1>0, <2>1, <2>2, TabAdded
<1>2. ASSUME NEW s \in Sessions, OpenExisting(s) PROVE IInv'
  <2>1. PICK new : new = Activate(layout, TabOfSession(s))
    OBVIOUS
  <2>2. SyncRootState(new) /\ SessionOpen(s) /\ Keep
    BY <1>2, <2>1 DEF OpenExisting
  <2> QED
    BY <1>0, <2>1, <2>2, ActivatedAny, NoneMoved
<1>3. ASSUME NEW s \in Sessions, OpenReplacing(s) PROVE IInv'
  <2>1. PICK tab : tab = FocusedPane.active
    OBVIOUS
  <2>2. PICK new : new = Activate(layout, tab)
    OBVIOUS
  <2>3. /\ HasFocus /\ tab # None /\ ~SessionOpen(s)
        /\ content' = [content EXCEPT ![tab] = s] /\ forced' = forced \ {tab}
        /\ SyncRootState(new) /\ UNCHANGED <<closed, dropped>>
    BY <1>3, <2>1, <2>2 DEF OpenReplacing
  <2>4. tab \in Open
    <3>1. PICK i \in DOMAIN layout.panes : FocusedPane = layout.panes[i]
      BY <2>3, FocusedIs
    <3>2. PICK pane : pane = layout.panes[i]
      OBVIOUS
    <3>3. pane.tabs \in Seq(TabIds) /\ ActiveInPane(pane) /\ pane.active # None /\ pane.active = tab
      BY <1>0, <2>1, <2>3, <3>1, <3>2, PanesTyped
    <3>4. tab \in ToSet(pane.tabs)
      BY <3>3, SetOf DEF ActiveInPane
    <3> QED
      BY <3>2, <3>4 DEF Open, OpenIn
  <2>5. tab \in TabIds /\ tab \in Opened
    BY <2>4, OpenIsTyped
  <2>6. Alike(new, layout) /\ (HasFocusIn(layout) => HasFocusIn(new))
    BY <1>0, <2>2, ActivatedAny
  <2>7. layout' = new /\ RootFollows'
    BY <2>3, <2>6, Synced DEF HasFocus, HasFocusIn
  <2>8. content' \in [TabIds -> Sessions \cup {Page, None}] /\ content'[tab] = s
        /\ \A t \in TabIds : t # tab => content'[t] = content[t]
    BY <2>3, <2>5 DEF IInv
  <2>9. s # None
    BY PanesAssumption
  <2>10. Opened' = Opened
    BY <2>5, <2>8, <2>9 DEF Opened
  <2>11. Open' = Open
    BY <2>6, <2>7 DEF Open, Alike
  <2>12. OneTabPerSession'
    <3> SUFFICES ASSUME NEW t \in Open \ forced', NEW u \in Open \ forced', t # u, content'[t] = content'[u],
                        content'[t] # Page
                 PROVE  FALSE
      BY <2>11 DEF OneTabPerSession
    <3>1. t \in TabIds /\ u \in TabIds
      BY OpenIsTyped
    <3>2. CASE t # tab /\ u # tab
      BY <2>3, <2>8, <3>1, <3>2 DEF IInv, OneTabPerSession
    <3>3. CASE t = tab \/ u = tab
      BY <2>3, <2>8, <3>1, <3>3 DEF SessionOpen
    <3> QED
      BY <3>2, <3>3
  <2>13. WellFormed(layout') /\ Len(layout'.panes) <= MaxPanes
    BY <2>6, <2>7 DEF IInv, Alike
  <2>14. Open' = Opened' \ (closed' \cup dropped') /\ closed' \cup dropped' \subseteq Opened'
         /\ forced' \subseteq TabIds
    BY <2>3, <2>10, <2>11 DEF IInv
  <2> QED
    BY <2>7, <2>8, <2>12, <2>13, <2>14 DEF IInv
<1>4. ASSUME NEW s \in Sessions, OpenSession(s) PROVE IInv'
  <2>1. PICK tab \in TabIds : /\ AddTab(tab, s) /\ HasFocus /\ UNCHANGED <<closed, dropped>>
                              /\ \/ ~SessionOpen(s) /\ forced' = forced
                                 \/ forced' = forced \cup {tab}
    BY <1>4 DEF OpenSession
  <2>2. s \in Sessions \cup {Page} /\ forced \subseteq forced' /\ forced' \subseteq TabIds
        /\ (~SessionOpen(s) \/ tab \in forced')
    BY <1>0, <2>1
  <2> QED
    BY <2>1, <2>2, TabAdded
<1> QED
  BY <1>1, <1>2, <1>3, <1>4 DEF Opening
LEMMA Reordered ==
  ASSUME NEW S, NEW s \in Seq(S), NEW i \in 1..Len(s), NEW j \in 1..Len(s),
         NEW n, n = InsertAt(RemoveAt(s, i), j, s[i])
  PROVE  n \in Seq(S) /\ ToSet(n) = ToSet(s) /\ (Injective(s) => Injective(n))
<1> DEFINE L == Len(s)
           M(k) == IF k < j THEN k ELSE k - 1
           G(k) == IF k = j THEN i ELSE IF M(k) < i THEN M(k) ELSE M(k) + 1
<1>1. L \in Nat /\ s[i] \in S /\ DOMAIN s = 1..L
  OBVIOUS
<1>2. PICK r : r = RemoveAt(s, i)
  OBVIOUS
<1>3. r \in Seq(S) /\ Len(r) = L - 1 /\ \A k \in 1..L - 1 : r[k] = IF k < i THEN s[k] ELSE s[k + 1]
  BY <1>2, RemovedAt
<1>4. j \in 1..Len(r) + 1 /\ Len(r) + 1 = L
  BY <1>1, <1>3
<1>5. n \in Seq(S) /\ Len(n) = L
      /\ \A k \in 1..L : n[k] = IF k < j THEN r[k] ELSE IF k = j THEN s[i] ELSE r[k - 1]
  <2>1. n \in Seq(S) /\ Len(n) = Len(r) + 1
        /\ \A k \in 1..Len(r) + 1 : n[k] = IF k < j THEN r[k] ELSE IF k = j THEN s[i] ELSE r[k - 1]
    <3>1. PICK e : e = s[i]
      OBVIOUS
    <3>2. e \in S /\ r \in Seq(S) /\ j \in 1..Len(r) + 1
      BY <1>1, <1>3, <1>4, <3>1
    <3>3. /\ InsertAt(r, j, e) \in Seq(S) /\ Len(InsertAt(r, j, e)) = Len(r) + 1
          /\ \A k \in 1..Len(r) + 1 :
               InsertAt(r, j, e)[k] = IF k < j THEN r[k] ELSE IF k = j THEN e ELSE r[k - 1]
      BY <3>2, InsertedAt
    <3> QED
      BY <1>2, <3>1, <3>3
  <2> QED
    BY <1>4, <2>1
<1>6. DOMAIN n = 1..L
  BY <1>5
<1>7. \A k \in 1..L : k # j => M(k) \in 1..L - 1
  BY <1>1
<1>8. \A k \in 1..L : G(k) \in 1..L
  BY <1>1, <1>7
<1>9. \A k \in 1..L : n[k] = s[G(k)]
  <2>1. \A k \in 1..L : k # j => n[k] = r[M(k)]
    BY <1>1, <1>5
  <2>2. n[j] = s[i]
    BY <1>1, <1>5
  <2>3. ASSUME NEW k \in 1..L, k # j PROVE r[M(k)] = s[G(k)]
    <3>1. M(k) \in 1..L - 1
      BY <1>7, <2>3
    <3>2. G(k) = IF M(k) < i THEN M(k) ELSE M(k) + 1
      BY <2>3
    <3> HIDE DEF M, G
    <3> QED
      BY <1>3, <3>1, <3>2
  <2>4. G(j) = i
    OBVIOUS
  <2> HIDE DEF M, G
  <2> QED
    BY <2>1, <2>2, <2>3, <2>4
<1>10. \A k, m \in 1..L : G(k) = G(m) => k = m
  BY <1>1
<1>11. \A q \in 1..L : \E k \in 1..L : G(k) = q
  <2> SUFFICES ASSUME NEW q \in 1..L PROVE \E k \in 1..L : G(k) = q
    OBVIOUS
  <2>1. CASE q = i
    <3>1. j \in 1..L /\ G(j) = q
      BY <2>1
    <3> QED
      BY <3>1
  <2>2. CASE q # i
    <3> DEFINE m == IF q < i THEN q ELSE q - 1
               k == IF m < j THEN m ELSE m + 1
    <3>1. k \in 1..L /\ G(k) = q
      BY <1>1, <2>2
    <3> QED
      BY <3>1
  <2> QED
    BY <2>1, <2>2
<1> HIDE DEF G
<1>12. ToSet(n) = ToSet(s)
  <2>1. \A x \in ToSet(n) : x \in ToSet(s)
    BY <1>1, <1>6, <1>8, <1>9 DEF ToSet
  <2>2. \A x \in ToSet(s) : x \in ToSet(n)
    <3> SUFFICES ASSUME NEW q \in 1..L PROVE s[q] \in ToSet(n)
      BY <1>1 DEF ToSet
    <3>1. PICK k \in 1..L : G(k) = q
      BY <1>11
    <3>2. n[k] = s[q]
      BY <1>9, <3>1
    <3> QED
      BY <1>6, <3>2 DEF ToSet
  <2> QED
    BY <2>1, <2>2
<1>13. Injective(s) => Injective(n)
  BY <1>1, <1>6, <1>8, <1>9, <1>10 DEF Injective
<1> QED
  BY <1>5, <1>12, <1>13

LEMMA FocusingKeeps ==
  ASSUME IInv, Focusing
  PROVE  IInv'
<1>0. WellFormed(layout)
  BY DEF IInv
<1>1. ASSUME NEW tab \in Open, SetActiveTab(tab) PROVE IInv'
  <2>1. PICK new : new = Activate(layout, tab)
    OBVIOUS
  <2>2. SyncRootState(new) /\ Keep
    BY <1>1, <2>1 DEF SetActiveTab
  <2> QED
    BY <1>0, <2>1, <2>2, ActivatedAny, NoneMoved
<1>2. ASSUME NEW p \in PaneIdsOf(layout), FocusPane(p) PROVE IInv'
  <2>1. PICK at : at = [layout EXCEPT !.focused = p]
    OBVIOUS
  <2>2. p \in PaneIds
    BY <1>0, PanesTyped DEF PaneIdsOf
  <2>3. Alike(at, layout) /\ at.focused = p
    BY <1>0, <2>1, <2>2, Refocused
  <2>4. PICK new : new = ActivateFocused(at)
    OBVIOUS
  <2>5. Alike(new, at) /\ HasFocusIn(new)
    BY <2>3, <2>4, FocusActivated DEF Alike, HasFocusIn
  <2>6. Alike(new, layout)
    BY <2>3, <2>5 DEF Alike
  <2>7. SyncRootState(new) /\ Keep
    BY <1>2, <2>1, <2>4 DEF FocusPane
  <2> QED
    BY <2>5, <2>6, <2>7, NoneMoved
<1>3. ASSUME NEW ids \in SUBSET ToSet(openTabs), SetSelectedTabIds(ids) PROVE IInv'
  <2>1. HasFocus
    BY <1>3 DEF SetSelectedTabIds
  <2>2. PICK i \in DOMAIN layout.panes : FocusedPane = layout.panes[i]
    BY <2>1, FocusedIs
  <2>3. PICK old : old = layout.panes[i]
    OBVIOUS
  <2>4. old \in PaneRecords /\ Injective(old.tabs) /\ ActiveInPane(old) /\ old.tabs \in Seq(TabIds)
    BY <1>0, <2>3, PanesTyped
  <2>5. ids \subseteq ToSet(old.tabs)
    BY <2>1, <2>2, <2>3 DEF IInv, RootFollows
  <2>6. ids \subseteq TabIds
    BY <2>4, <2>5, SetOf
  <2>7. PICK pane : pane = [old EXCEPT !.selected = ids]
    OBVIOUS
  <2>8. pane \in PaneRecords /\ pane.id = old.id /\ pane.tabs = old.tabs /\ pane.active = old.active /\ pane.selected = ids
    BY <2>4, <2>6, <2>7 DEF PaneRecords
  <2>9. ActiveInPane(pane)
    BY <2>4, <2>5, <2>8 DEF ActiveInPane
  <2>10. PICK new : new = UpdatePane(layout, pane)
    OBVIOUS
  <2>11. Alike(new, layout) /\ new.focused = layout.focused
    BY <1>0, <2>3, <2>4, <2>8, <2>9, <2>10, SameTabs
  <2>12. SyncRootState(new) /\ Keep
    BY <1>3, <2>2, <2>3, <2>7, <2>10 DEF SetSelectedTabIds
  <2>13. HasFocusIn(layout) => HasFocusIn(new)
    BY <2>11 DEF HasFocusIn, Alike
  <2> QED
    BY <2>11, <2>12, <2>13, NoneMoved
<1> QED
  BY <1>1, <1>2, <1>3 DEF Focusing
-----------------------------------------------------------------------------
(***************************************************************************)
(* Moving.                                                                 *)
(***************************************************************************)
LEMMA ReorderKeeps ==
  ASSUME IInv, NEW p \in PaneIdsOf(layout),
         NEW from \in DOMAIN FindPane(layout, p).tabs, NEW to \in DOMAIN FindPane(layout, p).tabs,
         ReorderTabInPane(p, from, to)
  PROVE  IInv'
<1>1. WellFormed(layout)
  BY DEF IInv
<1>2. PICK i \in DOMAIN layout.panes : FindPane(layout, p) = layout.panes[i]
  BY <1>1, Found
<1>3. PICK old : old = layout.panes[i]
  OBVIOUS
<1>4. old \in PaneRecords /\ Injective(old.tabs) /\ ActiveInPane(old) /\ old.tabs \in Seq(TabIds)
  BY <1>1, <1>3, PanesTyped
<1>5. PICK tabs : tabs = InsertAt(RemoveAt(old.tabs, from), to, old.tabs[from])
  OBVIOUS
<1>6. from \in 1..Len(old.tabs) /\ to \in 1..Len(old.tabs)
  BY <1>2, <1>3, <1>4
<1>7. tabs \in Seq(TabIds) /\ ToSet(tabs) = ToSet(old.tabs) /\ Injective(tabs)
  BY <1>4, <1>5, <1>6, Reordered
<1>8. PICK pane : pane = [old EXCEPT !.tabs = tabs]
  OBVIOUS
<1>9. /\ pane \in PaneRecords /\ pane.id = old.id /\ pane.tabs = tabs
      /\ pane.active = old.active /\ pane.selected = old.selected
  BY <1>4, <1>7, <1>8 DEF PaneRecords
<1>10. ActiveInPane(pane)
  <2>1. tabs = <<>> <=> old.tabs = <<>>
    BY <1>4, <1>7, SetOf
  <2>2. Contains(tabs, old.active) <=> Contains(old.tabs, old.active)
    BY <1>4, <1>7, SetOf
  <2> QED
    BY <1>4, <1>7, <1>9, <2>1, <2>2 DEF ActiveInPane
<1>11. PICK new : new = UpdatePane(layout, pane)
  OBVIOUS
<1>12. Alike(new, layout) /\ new.focused = layout.focused
  BY <1>1, <1>3, <1>7, <1>9, <1>10, <1>11, SameTabs
<1>13. SyncRootState(new) /\ Keep
  BY <1>2, <1>3, <1>5, <1>8, <1>11 DEF ReorderTabInPane
<1>14. HasFocusIn(layout) => HasFocusIn(new)
  BY <1>12 DEF HasFocusIn, Alike
<1> QED
  BY <1>12, <1>13, <1>14, NoneMoved
\* A layout without one of its tabs.
TakenFrom(n, l, i, tab, without) ==
  /\ WellFormed(n) /\ n.focused = l.focused
  /\ DOMAIN n.panes = DOMAIN l.panes /\ Len(n.panes) = Len(l.panes)
  /\ \A j \in DOMAIN l.panes : n.panes[j] = IF j = i THEN without ELSE l.panes[j]
  /\ PaneIdsOf(n) = PaneIdsOf(l)
  /\ OpenIn(n) = OpenIn(l) \ {tab}
  /\ without.id = l.panes[i].id
  /\ without.active = None <=> without.tabs = <<>>
  /\ without.tabs = <<>> <=> ToSet(l.panes[i].tabs) = {tab}
  /\ without.active # None => without.active \in OpenIn(n)

LEMMA TabTakenFrom ==
  ASSUME NEW l, WellFormed(l), NEW i \in DOMAIN l.panes, NEW tab \in ToSet(l.panes[i].tabs),
         NEW without, without = WithoutTab(l.panes[i], tab),
         NEW n, n = UpdatePane(l, without)
  PROVE  TakenFrom(n, l, i, tab, without)
<1>1. PICK old : old = l.panes[i]
  OBVIOUS
<1>2. old \in PaneRecords /\ Injective(old.tabs) /\ ActiveInPane(old) /\ tab \in ToSet(old.tabs)
  BY <1>1, PanesTyped
<1>3. /\ without \in PaneRecords /\ without.id = old.id
      /\ ToSet(without.tabs) = ToSet(old.tabs) \ {tab}
      /\ Injective(without.tabs) /\ ActiveInPane(without)
  BY <1>1, <1>2, TabTaken
<1>4. ASSUME NEW j \in DOMAIN l.panes, j # i
      PROVE  ToSet(l.panes[j].tabs) \cap ToSet(old.tabs) = {}
  BY <1>1, <1>4 DEF WellFormed, Apart
<1>5. \A j \in DOMAIN l.panes : j # i => ToSet(l.panes[j].tabs) \cap ToSet(without.tabs) = {}
  BY <1>3, <1>4
<1>6. without.id = l.panes[i].id
  BY <1>1, <1>3
<1>7. /\ WellFormed(UpdatePane(l, without))
      /\ UpdatePane(l, without).focused = l.focused
      /\ DOMAIN UpdatePane(l, without).panes = DOMAIN l.panes
      /\ Len(UpdatePane(l, without).panes) = Len(l.panes)
      /\ \A j \in DOMAIN l.panes : UpdatePane(l, without).panes[j] = IF j = i THEN without ELSE l.panes[j]
      /\ PaneIdsOf(UpdatePane(l, without)) = PaneIdsOf(l)
      /\ OpenIn(UpdatePane(l, without)) = (OpenIn(l) \ ToSet(l.panes[i].tabs)) \cup ToSet(without.tabs)
  BY <1>3, <1>5, <1>6, Updated
<1>8. OpenIn(n) = OpenIn(l) \ {tab}
  <2>1. ToSet(old.tabs) \subseteq OpenIn(l)
    BY <1>1 DEF OpenIn
  <2> QED
    BY <1>1, <1>2, <1>3, <1>7, <2>1
<1>9. without.tabs \in Seq(TabIds)
  BY <1>3 DEF PaneRecords
<1>10. without.tabs = <<>> <=> ToSet(old.tabs) = {tab}
  <2>1. without.tabs = <<>> <=> ToSet(without.tabs) = {}
    BY <1>9, SetOf
  <2> QED
    BY <1>2, <1>3, <2>1
<1>11. IF without.tabs = <<>> THEN without.active = None ELSE without.active \in ToSet(without.tabs)
  BY <1>3, <1>9, SetOf DEF ActiveInPane
<1>12. ToSet(without.tabs) \subseteq TabIds
  BY <1>9, SetOf
<1>13. None \notin TabIds
  BY PanesAssumption
<1>14. ToSet(without.tabs) \subseteq OpenIn(n)
  BY <1>1, <1>3, <1>8 DEF OpenIn
<1> QED
  BY <1>1, <1>6, <1>7, <1>8, <1>10, <1>11, <1>12, <1>13, <1>14 DEF TakenFrom

\* Where the pane of the tab goes when it was alone in it.
LEMMA EmptiedRemoved ==
  ASSUME NEW l, WellFormed(l), NEW i \in DOMAIN l.panes, l.panes[i].tabs = <<>>,
         NEW n, n = RemovePane(l, l.panes[i].id)
  PROVE  /\ WellFormed(n) /\ Len(n.panes) <= Len(l.panes) /\ OpenIn(n) = OpenIn(l)
         /\ PaneIdsOf(n) = IF Len(l.panes) > 1 THEN PaneIdsOf(l) \ {l.panes[i].id} ELSE PaneIdsOf(l)
<1>1. CASE Len(l.panes) > 1
  <2>1. /\ WellFormed(n) /\ Len(n.panes) = Len(l.panes) - 1
        /\ PaneIdsOf(n) = PaneIdsOf(l) \ {l.panes[i].id}
        /\ OpenIn(n) = OpenIn(l) \ ToSet(l.panes[i].tabs)
    <3>1. n = RemovePane(l, l.panes[i].id)
      OBVIOUS
    <3> QED
      BY ONLY <1>1, <3>1, WellFormed(l), i \in DOMAIN l.panes, Removed
  <2>2. ToSet(l.panes[i].tabs) = {}
    BY DEF ToSet
  <2>3. Len(l.panes) \in Nat
    BY PanesTyped
  <2> QED
    BY <1>1, <2>1, <2>2, <2>3
<1>2. CASE ~(Len(l.panes) > 1)
  <2>1. Len(l.panes) <= 1 /\ Len(l.panes) \in Nat
    BY <1>2, PanesTyped
  <2>2. n = l
    BY <2>1 DEF RemovePane
  <2> QED
    BY <1>2, <2>1, <2>2
<1> QED
  BY <1>1, <1>2

NewPaneId(new) == new \in PaneIds /\ new \notin PaneIdsOf(layout) /\ new # layout.focused

\* The case that drops the tab: it is alone in the pane the new one would be
\* put beside, and another pane is open.
AloneBeside(tab, pane, adjacent) ==
  adjacent = pane.id /\ ToSet(pane.tabs) = {tab} /\ Len(layout.panes) > 1

SplitOff(n, tab, pane, adjacent) ==
  /\ WellFormed(n)
  /\ Len(n.panes) <= Len(layout.panes) + 1
  /\ IF AloneBeside(tab, pane, adjacent) THEN OpenIn(n) = Open \ {tab}
     ELSE OpenIn(n) = Open /\ HasFocusIn(n)

LEMMA IntoNew ==
  ASSUME WellFormed(layout), NEW i \in DOMAIN layout.panes, NEW tab \in ToSet(layout.panes[i].tabs),
         NEW adjacent \in PaneIdsOf(layout), NEW direction, NEW new, NewPaneId(new),
         NEW n, n = IntoNewPane(tab, layout.panes[i].id, adjacent, direction, new)
  PROVE  SplitOff(n, tab, layout.panes[i], adjacent)
<1>1. PICK source : source = layout.panes[i].id
  OBVIOUS
<1>2. PICK without : without = WithoutTab(layout.panes[i], tab)
  OBVIOUS
<1>3. PICK taken : taken = UpdatePane(layout, without)
  OBVIOUS
<1>4. PICK left : left = IF without.tabs = <<>> THEN RemovePane(taken, source) ELSE taken
  OBVIOUS
<1>5. PICK pane : pane = [EmptyPane(new) EXCEPT !.tabs = <<tab>>, !.active = tab]
  OBVIOUS
<1>6. FindPane(layout, source) = layout.panes[i]
  BY <1>1, FoundAt
<1>7. n = [InsertPane(left, adjacent, pane, direction) EXCEPT !.focused = new]
  BY <1>1, <1>2, <1>3, <1>4, <1>5, <1>6 DEF IntoNewPane
<1>8. /\ WellFormed(taken) /\ DOMAIN taken.panes = DOMAIN layout.panes /\ Len(taken.panes) = Len(layout.panes)
      /\ \A j \in DOMAIN layout.panes : taken.panes[j] = IF j = i THEN without ELSE layout.panes[j]
      /\ PaneIdsOf(taken) = PaneIdsOf(layout) /\ OpenIn(taken) = OpenIn(layout) \ {tab}
      /\ without.id = source /\ (without.tabs = <<>> <=> ToSet(layout.panes[i].tabs) = {tab})
  <2>1. TakenFrom(taken, layout, i, tab, without)
    BY <1>2, <1>3, TabTakenFrom
  <2> QED
    BY <1>1, <2>1 DEF TakenFrom
<1>9. Len(layout.panes) \in Nat
  BY PanesTyped
<1>10. /\ WellFormed(left) /\ Len(left.panes) <= Len(layout.panes) /\ OpenIn(left) = OpenIn(layout) \ {tab}
       /\ PaneIdsOf(left) = IF without.tabs = <<>> /\ Len(layout.panes) > 1
                            THEN PaneIdsOf(layout) \ {source} ELSE PaneIdsOf(layout)
  <2>1. CASE without.tabs = <<>>
    <3>1. i \in DOMAIN taken.panes /\ taken.panes[i] = without
      BY <1>8
    <3>2. left = RemovePane(taken, taken.panes[i].id) /\ taken.panes[i].tabs = <<>>
      BY <1>4, <1>8, <2>1, <3>1
    <3>3. /\ WellFormed(left) /\ Len(left.panes) <= Len(taken.panes) /\ OpenIn(left) = OpenIn(taken)
          /\ PaneIdsOf(left) = IF Len(taken.panes) > 1 THEN PaneIdsOf(taken) \ {taken.panes[i].id} ELSE PaneIdsOf(taken)
      BY <1>8, <3>1, <3>2, EmptiedRemoved
    <3> QED
      BY <1>8, <2>1, <3>1, <3>3
  <2>2. CASE without.tabs # <<>>
    BY <1>4, <1>8, <1>9, <2>2
  <2> QED
    BY <2>1, <2>2
<1>11. tab \in TabIds /\ tab \in OpenIn(layout)
  <2>1. tab \in OpenIn(layout)
    BY DEF OpenIn
  <2> QED
    BY <2>1, FoundByTab
<1>12. /\ pane \in PaneRecords /\ pane.id = new /\ ToSet(pane.tabs) = {tab}
       /\ Injective(pane.tabs) /\ ActiveInPane(pane)
  <2>1. pane = [id |-> new, tabs |-> <<tab>>, active |-> tab, selected |-> {}]
    BY <1>5 DEF EmptyPane
  <2>2. <<tab>> \in Seq(TabIds) /\ ToSet(<<tab>>) = {tab} /\ Injective(<<tab>>) /\ <<tab>> # <<>>
    BY <1>11 DEF ToSet, Injective
  <2>3. Contains(<<tab>>, tab)
    BY <2>2, SetOf
  <2> QED
    BY <1>11, <2>1, <2>2, <2>3 DEF PaneRecords, ActiveInPane, NewPaneId
<1>13. new \in PaneIds
  BY DEF NewPaneId
<1>14. CASE adjacent \in PaneIdsOf(left)
  <2>1. PICK with : with = InsertPane(left, adjacent, pane, direction)
    OBVIOUS
  <2>2. pane.id \notin PaneIdsOf(left) /\ ToSet(pane.tabs) \cap OpenIn(left) = {}
    BY <1>10, <1>12 DEF NewPaneId
  <2>3. /\ WellFormed(with) /\ Len(with.panes) = Len(left.panes) + 1
        /\ PaneIdsOf(with) = PaneIdsOf(left) \cup {pane.id}
        /\ OpenIn(with) = OpenIn(left) \cup ToSet(pane.tabs)
    BY <1>10, <1>12, <1>14, <2>1, <2>2, Inserted
  <2>4. Alike(n, with) /\ n.focused = new
    BY <1>7, <1>13, <2>1, <2>3, Refocused
  <2>5. OpenIn(n) = Open /\ HasFocusIn(n)
    BY <1>10, <1>11, <1>12, <2>3, <2>4 DEF Alike, Open, HasFocusIn
  <2>6. Len(left.panes) \in Nat
    BY <1>10, PanesTyped
  <2>7. ~(adjacent = source /\ without.tabs = <<>> /\ Len(layout.panes) > 1)
    BY <1>10, <1>14
  <2>8. WellFormed(n) /\ Len(n.panes) <= Len(layout.panes) + 1
    BY <1>9, <1>10, <2>3, <2>4, <2>6 DEF Alike
  <2> QED
    BY <1>1, <1>8, <2>5, <2>7, <2>8 DEF SplitOff, AloneBeside
<1>15. CASE adjacent \notin PaneIdsOf(left)
  <2>1. adjacent = source /\ without.tabs = <<>> /\ Len(layout.panes) > 1
    BY <1>10, <1>15
  <2>2. InsertPane(left, adjacent, pane, direction) = left
    BY <1>10, <1>15, NotFound DEF InsertPane
  <2>3. Alike(n, left)
    BY <1>7, <1>10, <1>13, <2>2, Refocused
  <2>4. OpenIn(n) = Open \ {tab} /\ WellFormed(n)
    BY <1>10, <2>3 DEF Alike, Open
  <2>5. Len(left.panes) \in Nat
    BY <1>10, PanesTyped
  <2>6. Len(n.panes) <= Len(layout.panes) + 1
    BY <1>9, <1>10, <2>3, <2>5 DEF Alike
  <2> QED
    BY <1>1, <1>8, <2>1, <2>4, <2>6 DEF SplitOff, AloneBeside
<1> QED
  BY <1>14, <1>15
LEMMA NewPaneKeeps ==
  ASSUME IInv, NEW i \in DOMAIN layout.panes, NEW tab \in ToSet(layout.panes[i].tabs),
         NEW adjacent \in PaneIdsOf(layout), NEW direction, NEW new, NewPaneId(new),
         NEW n, n = IntoNewPane(tab, layout.panes[i].id, adjacent, direction, new),
         NEW m, Alike(m, n), HasFocusIn(n) => HasFocusIn(m), SyncRootState(m),
         Len(layout.panes) < MaxPanes,
         NoteDropped(tab, layout.panes[i].id, adjacent), UNCHANGED <<content, forced, closed>>
  PROVE  IInv'
<1> DEFINE lost == IF AloneBeside(tab, layout.panes[i], adjacent) THEN {tab} ELSE {}
<1>1. WellFormed(layout)
  BY DEF IInv
<1>2. WellFormed(n) /\ Len(n.panes) <= Len(layout.panes) + 1
      /\ IF AloneBeside(tab, layout.panes[i], adjacent) THEN OpenIn(n) = Open \ {tab}
         ELSE OpenIn(n) = Open /\ HasFocusIn(n)
  BY <1>1, IntoNew DEF SplitOff
<1>3. FindPane(layout, layout.panes[i].id) = layout.panes[i]
  BY <1>1, FoundAt
<1>4. dropped' = dropped \cup lost
  BY <1>3 DEF NoteDropped, AloneBeside
<1>5. closed' = closed \cup {} /\ UNCHANGED <<content, forced>> /\ {} \in SUBSET Open
  OBVIOUS
<1>6. tab \in Open
  BY DEF Open, OpenIn
<1>7. lost \in SUBSET Open
  BY <1>6
<1>8. OpenIn(m) = Open \ ({} \cup lost)
  BY <1>2 DEF Alike
<1>9. HasFocusIn(layout) => HasFocusIn(m) \/ dropped' # {}
  BY <1>2, <1>4
<1>10. WellFormed(m) /\ Len(m.panes) <= MaxPanes
  <2>1. WellFormed(m) /\ Len(m.panes) = Len(n.panes)
    BY DEF Alike
  <2>2. Len(n.panes) \in Nat /\ Len(layout.panes) \in Nat
    BY <1>1, <1>2, PanesTyped
  <2> QED
    BY <1>2, <2>1, <2>2, PanesAssumption
<1> HIDE DEF lost
<1> QED
  BY <1>4, <1>5, <1>7, <1>8, <1>9, <1>10, NoneOpened

LEMMA TabInserted ==
  ASSUME NEW S, NEW s \in Seq(S), NEW at \in 1..Len(s) + 1, NEW e \in S, e \notin ToSet(s), Injective(s),
         NEW n, n = InsertAt(s, at, e)
  PROVE  n \in Seq(S) /\ ToSet(n) = ToSet(s) \cup {e} /\ Injective(n)
<1> DEFINE L == Len(s)
           G(k) == IF k < at THEN k ELSE k - 1
<1>1. L \in Nat /\ DOMAIN s = 1..L
  OBVIOUS
<1> HIDE DEF L, G
<1>2. n \in Seq(S) /\ Len(n) = Len(s) + 1
      /\ \A k \in 1..Len(s) + 1 : n[k] = IF k < at THEN s[k] ELSE IF k = at THEN e ELSE s[k - 1]
  <2>1. PICK t : t = s
    OBVIOUS
  <2>2. t \in Seq(S) /\ at \in 1..Len(t) + 1 /\ e \in S
    BY <2>1
  <2>3. /\ InsertAt(t, at, e) \in Seq(S) /\ Len(InsertAt(t, at, e)) = Len(t) + 1
        /\ \A k \in 1..Len(t) + 1 :
             InsertAt(t, at, e)[k] = IF k < at THEN t[k] ELSE IF k = at THEN e ELSE t[k - 1]
    BY ONLY <2>2, InsertedAt
  <2> QED
    BY <2>1, <2>3
<1> USE DEF L, G
<1>3. n \in Seq(S) /\ Len(n) = L + 1 /\ DOMAIN n = 1..L + 1
  BY <1>1, <1>2
<1>4. at \in 1..L + 1 /\ n[at] = e
  BY <1>1, <1>2
<1>5. \A k \in 1..L + 1 : k # at => n[k] = s[G(k)]
  BY <1>1, <1>2
<1>6. \A k \in 1..L + 1 : k # at => G(k) \in 1..L
  BY <1>1
<1>7. \A k, m \in 1..L + 1 : k # at /\ m # at /\ G(k) = G(m) => k = m
  BY <1>1
<1>8. \A q \in 1..L : \E k \in 1..L + 1 : k # at /\ G(k) = q
  <2> SUFFICES ASSUME NEW q \in 1..L PROVE \E k \in 1..L + 1 : k # at /\ G(k) = q
    OBVIOUS
  <2> DEFINE k == IF q < at THEN q ELSE q + 1
  <2>1. k \in 1..L + 1 /\ k # at /\ G(k) = q
    BY <1>1
  <2> QED
    BY <2>1
<1> HIDE DEF G
<1>9. \A x \in ToSet(n) : x \in ToSet(s) \cup {e}
  BY <1>1, <1>3, <1>4, <1>5, <1>6 DEF ToSet
<1>10. \A x \in ToSet(s) : x \in ToSet(n)
  <2> SUFFICES ASSUME NEW q \in 1..L PROVE s[q] \in ToSet(n)
    BY <1>1 DEF ToSet
  <2>1. PICK k \in 1..L + 1 : k # at /\ G(k) = q
    BY <1>8
  <2>2. n[k] = s[q]
    BY <1>5, <2>1
  <2> QED
    BY <1>3, <2>2 DEF ToSet
<1>11. e \in ToSet(n)
  BY <1>3, <1>4 DEF ToSet
<1>12. Injective(n)
  <2>1. \A k \in 1..L + 1 : k # at => n[k] \in ToSet(s)
    BY <1>1, <1>5, <1>6 DEF ToSet
  <2>2. \A k, m \in 1..L + 1 : k # at /\ m # at /\ n[k] = n[m] => k = m
    BY <1>1, <1>5, <1>6, <1>7 DEF Injective
  <2> QED
    BY <1>3, <1>4, <2>1, <2>2 DEF Injective
<1> QED
  BY <1>3, <1>9, <1>10, <1>11, <1>12

LEMMA TabMoved ==
  ASSUME IInv, NEW i \in DOMAIN layout.panes, NEW q \in DOMAIN layout.panes, i # q,
         NEW tab \in ToSet(layout.panes[i].tabs), NEW at \in 1..Len(layout.panes[q].tabs) + 1,
         MoveTabToPane(tab, layout.panes[i].id, layout.panes[q].id, at)
  PROVE  IInv'
<1>1. PICK source, target : source = layout.panes[i].id /\ target = layout.panes[q].id
  OBVIOUS
<1>2. PICK without : without = WithoutTab(layout.panes[i], tab)
  OBVIOUS
<1>3. PICK taken : taken = UpdatePane(layout, without)
  OBVIOUS
<1>4. PICK to : to = layout.panes[q]
  OBVIOUS
<1>5. PICK pane : pane = [to EXCEPT !.tabs = InsertAt(@, at, tab), !.active = tab]
  OBVIOUS
<1>6. PICK moved : moved = UpdatePane(taken, pane)
  OBVIOUS
<1>7. PICK left : left = IF without.tabs = <<>> THEN RemovePane(moved, source) ELSE moved
  OBVIOUS
<1>8. PICK new : new = [left EXCEPT !.focused = target]
  OBVIOUS
<1>9. WellFormed(layout)
  BY DEF IInv
<1>10. FindPane(layout, source) = layout.panes[i] /\ FindPane(layout, target) = to
  BY <1>1, <1>4, <1>9, FoundAt
<1>11. SyncRootState(new) /\ Keep
  BY <1>1, <1>2, <1>3, <1>5, <1>6, <1>7, <1>8, <1>10 DEF MoveTabToPane
<1>12. TakenFrom(taken, layout, i, tab, without)
  BY <1>2, <1>3, <1>9, TabTakenFrom
<1>13. /\ WellFormed(taken) /\ q \in DOMAIN taken.panes /\ taken.panes[q] = to
       /\ i \in DOMAIN taken.panes /\ taken.panes[i] = without /\ without.id = source
       /\ Len(taken.panes) = Len(layout.panes) /\ PaneIdsOf(taken) = PaneIdsOf(layout)
       /\ OpenIn(taken) = Open \ {tab}
  BY <1>1, <1>4, <1>12 DEF TakenFrom, Open
<1>14. to \in PaneRecords /\ Injective(to.tabs) /\ ActiveInPane(to) /\ to.tabs \in Seq(TabIds)
  BY <1>4, <1>9, PanesTyped
<1>15. tab \in Open /\ tab \in TabIds /\ tab \notin ToSet(to.tabs)
  <2>1. tab \in Open
    BY DEF Open, OpenIn
  <2>2. ToSet(layout.panes[i].tabs) \cap ToSet(layout.panes[q].tabs) = {}
    BY <1>9 DEF WellFormed, Apart
  <2> QED
    BY <1>4, <2>1, <2>2, OpenIsTyped
<1>16. PICK tabs : tabs = InsertAt(to.tabs, at, tab)
  OBVIOUS
<1>17. tabs \in Seq(TabIds) /\ ToSet(tabs) = ToSet(to.tabs) \cup {tab} /\ Injective(tabs)
  <2>1. at \in 1..Len(to.tabs) + 1
    BY <1>4
  <2> QED
    BY <1>14, <1>15, <1>16, <2>1, TabInserted
<1>18. /\ pane \in PaneRecords /\ pane.id = to.id /\ pane.tabs = tabs /\ pane.active = tab
       /\ pane.selected = to.selected
  BY <1>5, <1>14, <1>15, <1>16, <1>17 DEF PaneRecords
<1>19. ActiveInPane(pane)
  <2>1. Contains(tabs, tab) /\ tabs # <<>>
    BY <1>17, SetOf
  <2> QED
    BY <1>14, <1>17, <1>18, <2>1 DEF ActiveInPane
<1>20. \A j \in DOMAIN taken.panes : j # q => ToSet(taken.panes[j].tabs) \cap ToSet(pane.tabs) = {}
  <2>1. \A j \in DOMAIN taken.panes : j # q => ToSet(taken.panes[j].tabs) \cap ToSet(to.tabs) = {}
    BY <1>13 DEF WellFormed, Apart
  <2>2. \A j \in DOMAIN taken.panes : tab \notin ToSet(taken.panes[j].tabs)
    BY <1>13 DEF OpenIn
  <2> QED
    BY <1>17, <1>18, <2>1, <2>2
<1>21. /\ WellFormed(moved) /\ Len(moved.panes) = Len(taken.panes) /\ DOMAIN moved.panes = DOMAIN taken.panes
       /\ \A j \in DOMAIN taken.panes : moved.panes[j] = IF j = q THEN pane ELSE taken.panes[j]
       /\ PaneIdsOf(moved) = PaneIdsOf(taken)
       /\ OpenIn(moved) = (OpenIn(taken) \ ToSet(to.tabs)) \cup ToSet(pane.tabs)
  <2>1. pane.id = taken.panes[q].id /\ Injective(pane.tabs)
    BY <1>13, <1>17, <1>18
  <2>2. /\ WellFormed(UpdatePane(taken, pane))
        /\ DOMAIN UpdatePane(taken, pane).panes = DOMAIN taken.panes
        /\ Len(UpdatePane(taken, pane).panes) = Len(taken.panes)
        /\ \A j \in DOMAIN taken.panes : UpdatePane(taken, pane).panes[j] = IF j = q THEN pane ELSE taken.panes[j]
        /\ PaneIdsOf(UpdatePane(taken, pane)) = PaneIdsOf(taken)
        /\ OpenIn(UpdatePane(taken, pane)) = (OpenIn(taken) \ ToSet(taken.panes[q].tabs)) \cup ToSet(pane.tabs)
    BY <1>13, <1>18, <1>19, <1>20, <2>1, Updated
  <2> QED
    BY <1>6, <1>13, <2>2
<1>22. OpenIn(moved) = Open
  <2>1. ToSet(to.tabs) \subseteq OpenIn(taken)
    BY <1>13 DEF OpenIn
  <2> QED
    BY <1>13, <1>15, <1>17, <1>18, <1>21, <2>1
<1>23. i \in DOMAIN moved.panes /\ moved.panes[i] = without
  BY <1>13, <1>21
<1>24. source # target /\ target \in PaneIdsOf(layout)
  BY <1>1, <1>9 DEF WellFormed, PaneIdsOf
<1>25. /\ WellFormed(left) /\ Len(left.panes) <= Len(layout.panes) /\ OpenIn(left) = Open
       /\ target \in PaneIdsOf(left)
  <2>1. CASE without.tabs = <<>>
    <3>1. left = RemovePane(moved, moved.panes[i].id) /\ moved.panes[i].tabs = <<>>
      BY <1>7, <1>13, <1>23, <2>1
    <3>2. /\ WellFormed(left) /\ Len(left.panes) <= Len(moved.panes) /\ OpenIn(left) = OpenIn(moved)
          /\ PaneIdsOf(left) = IF Len(moved.panes) > 1 THEN PaneIdsOf(moved) \ {moved.panes[i].id} ELSE PaneIdsOf(moved)
      BY <1>21, <1>23, <3>1, EmptiedRemoved
    <3> QED
      BY <1>13, <1>21, <1>22, <1>23, <1>24, <3>2
  <2>2. CASE without.tabs # <<>>
    <3>1. left = moved /\ Len(layout.panes) \in Nat
      BY <1>7, <1>9, <2>2, PanesTyped
    <3> QED
      BY <1>13, <1>21, <1>22, <1>24, <3>1
  <2> QED
    BY <2>1, <2>2
<1>26. Alike(new, left) /\ new.focused = target
  <2>1. target \in PaneIds
    BY <1>1, <1>9, PanesTyped
  <2> QED
    BY <1>8, <1>25, <2>1, Refocused
<1>27. /\ WellFormed(new) /\ OpenIn(new) = Open \ ({} \cup {}) /\ HasFocusIn(new)
       /\ Len(new.panes) <= MaxPanes
  <2>1. Len(left.panes) \in Nat /\ Len(layout.panes) \in Nat
    BY <1>9, <1>25, PanesTyped
  <2>2. Len(new.panes) <= MaxPanes
    BY <1>25, <1>26, <2>1, PanesAssumption DEF IInv, Alike
  <2> QED
    BY <1>25, <1>26, <2>2 DEF Alike, HasFocusIn
<1>28. closed' = closed \cup {} /\ dropped' = dropped \cup {} /\ UNCHANGED <<content, forced>>
       /\ {} \in SUBSET Open
  BY <1>11 DEF Keep
<1> QED
  BY <1>11, <1>27, <1>28, NoneOpened

LEMMA MovingKeeps ==
  ASSUME IInv, Moving
  PROVE  IInv'
<1>1. WellFormed(layout)
  BY DEF IInv
<1>2. PICK p \in PaneIdsOf(layout) :
        \/ \E j, k \in DOMAIN FindPane(layout, p).tabs : ReorderTabInPane(p, j, k)
        \/ \E k \in DOMAIN FindPane(layout, p).tabs, direction \in Directions :
             \/ SplitPane(FindPane(layout, p).tabs[k], p, direction)
             \/ \E a \in PaneIdsOf(layout) : MoveTabToNewPane(FindPane(layout, p).tabs[k], p, a, direction)
        \/ \E k \in DOMAIN FindPane(layout, p).tabs, t \in PaneIdsOf(layout) :
             \E at \in 1..(Len(FindPane(layout, t).tabs) + 1) : MoveTabToPane(FindPane(layout, p).tabs[k], p, t, at)
  BY DEF Moving
<1>3. PICK i \in DOMAIN layout.panes : layout.panes[i].id = p /\ FindPane(layout, p) = layout.panes[i]
  BY <1>1, Found
<1>4. PICK tabs : tabs = layout.panes[i].tabs
  OBVIOUS
<1>5. \A k \in DOMAIN tabs : tabs[k] \in ToSet(tabs)
  BY DEF ToSet
<1>6. CASE \E j, k \in DOMAIN tabs : ReorderTabInPane(p, j, k)
  BY <1>3, <1>4, <1>6, ReorderKeeps
<1>7. ASSUME NEW k \in DOMAIN tabs, NEW direction \in Directions, SplitPane(tabs[k], p, direction)
      PROVE  IInv'
  <2>1. PICK tab \in ToSet(layout.panes[i].tabs) : tab = tabs[k]
    BY <1>4, <1>5
  <2>2. PICK new \in PaneIds \ (PaneIdsOf(layout) \cup {layout.focused}) :
          SyncRootState(IF content[tab] = Page THEN IntoNewPane(tab, p, p, direction, new)
                        ELSE Activate(IntoNewPane(tab, p, p, direction, new), tab))
    BY <1>7, <2>1 DEF SplitPane
  <2>3. PICK n : n = IntoNewPane(tab, p, p, direction, new)
    OBVIOUS
  <2>4. PICK m : m = IF content[tab] = Page THEN n ELSE Activate(n, tab)
    OBVIOUS
  <2>5. NewPaneId(new)
    BY DEF NewPaneId
  <2>6. WellFormed(n)
    BY <1>1, <1>3, <2>3, <2>5, IntoNew DEF SplitOff
  <2>7. Alike(m, n) /\ (HasFocusIn(n) => HasFocusIn(m))
    <3>1. Alike(n, n)
      BY <2>6 DEF Alike
    <3> QED
      BY <2>4, <2>6, <3>1, ActivatedAny
  <2>8. SyncRootState(m)
    BY <2>2, <2>3, <2>4
  <2>9. Len(layout.panes) < MaxPanes /\ NoteDropped(tab, p, p) /\ UNCHANGED <<content, forced, closed>>
    BY <1>7, <2>1 DEF SplitPane
  <2> QED
    BY <1>3, <2>3, <2>5, <2>7, <2>8, <2>9, NewPaneKeeps
<1>8. ASSUME NEW k \in DOMAIN tabs, NEW direction \in Directions, NEW a \in PaneIdsOf(layout),
             MoveTabToNewPane(tabs[k], p, a, direction)
      PROVE  IInv'
  <2>1. PICK tab \in ToSet(layout.panes[i].tabs) : tab = tabs[k]
    BY <1>4, <1>5
  <2>2. PICK new \in PaneIds \ (PaneIdsOf(layout) \cup {layout.focused}) :
          SyncRootState(IntoNewPane(tab, p, a, direction, new))
    BY <1>8, <2>1 DEF MoveTabToNewPane
  <2>3. PICK n : n = IntoNewPane(tab, p, a, direction, new)
    OBVIOUS
  <2>4. NewPaneId(new)
    BY DEF NewPaneId
  <2>5. Alike(n, n) /\ SyncRootState(n)
    BY <1>1, <1>3, <2>2, <2>3, <2>4, IntoNew DEF Alike, SplitOff
  <2>6. Len(layout.panes) < MaxPanes /\ NoteDropped(tab, p, a) /\ UNCHANGED <<content, forced, closed>>
    BY <1>8, <2>1 DEF MoveTabToNewPane
  <2> QED
    BY <1>3, <2>3, <2>4, <2>5, <2>6, NewPaneKeeps
<1>9. ASSUME NEW k \in DOMAIN tabs, NEW t \in PaneIdsOf(layout),
             NEW at \in 1..(Len(FindPane(layout, t).tabs) + 1), MoveTabToPane(tabs[k], p, t, at)
      PROVE  IInv'
  <2>1. PICK tab \in ToSet(layout.panes[i].tabs) : tab = tabs[k]
    BY <1>4, <1>5
  <2>2. PICK q \in DOMAIN layout.panes : layout.panes[q].id = t /\ FindPane(layout, t) = layout.panes[q]
    BY <1>1, Found
  <2>3. i # q
    BY <1>3, <1>9, <2>2 DEF MoveTabToPane
  <2>4. at \in 1..Len(layout.panes[q].tabs) + 1
    BY <2>2
  <2> QED
    BY <1>3, <1>9, <2>1, <2>2, <2>3, <2>4, TabMoved
<1> QED
  BY <1>2, <1>3, <1>4, <1>6, <1>7, <1>8, <1>9
-----------------------------------------------------------------------------
(***************************************************************************)
(* Closing.                                                                *)
(***************************************************************************)
LEMMA ShutKeeps ==
  ASSUME IInv, NEW new, SyncRootState(new), WellFormed(new), Len(new.panes) <= Len(layout.panes),
         HasFocusIn(layout) => HasFocusIn(new),
         NEW shut \in SUBSET Open, NoteClosed(shut), OpenIn(new) = Open \ shut
  PROVE  IInv'
<1>1. closed' = closed \cup shut /\ dropped' = dropped \cup {} /\ UNCHANGED <<content, forced>>
      /\ {} \in SUBSET Open
  BY DEF NoteClosed
<1>2. OpenIn(new) = Open \ (shut \cup {})
  OBVIOUS
<1>3. Len(new.panes) <= MaxPanes
  <2>1. Len(new.panes) \in Nat /\ Len(layout.panes) \in Nat
    BY PanesTyped DEF IInv
  <2> QED
    BY <2>1, PanesAssumption DEF IInv
<1> QED
  BY <1>1, <1>2, <1>3, NoneOpened

\* A pane of the layout, replaced by one of some of its tabs.
LEMMA FewerTabs ==
  ASSUME NEW l, WellFormed(l), NEW i \in DOMAIN l.panes,
         NEW pane \in PaneRecords, pane.id = l.panes[i].id,
         Injective(pane.tabs), ActiveInPane(pane), ToSet(pane.tabs) \subseteq ToSet(l.panes[i].tabs),
         NEW n, n = UpdatePane(l, pane)
  PROVE  /\ WellFormed(n) /\ n.focused = l.focused /\ Len(n.panes) = Len(l.panes)
         /\ PaneIdsOf(n) = PaneIdsOf(l)
         /\ OpenIn(n) = OpenIn(l) \ (ToSet(l.panes[i].tabs) \ ToSet(pane.tabs))
<1>1. \A j \in DOMAIN l.panes : j # i => ToSet(l.panes[j].tabs) \cap ToSet(pane.tabs) = {}
  <2>1. \A j \in DOMAIN l.panes : j # i => ToSet(l.panes[j].tabs) \cap ToSet(l.panes[i].tabs) = {}
    BY DEF WellFormed, Apart
  <2> QED
    BY <2>1
<1>2. ToSet(l.panes[i].tabs) \subseteq OpenIn(l)
  BY DEF OpenIn
<1>3. /\ WellFormed(UpdatePane(l, pane)) /\ UpdatePane(l, pane).focused = l.focused
      /\ Len(UpdatePane(l, pane).panes) = Len(l.panes)
      /\ PaneIdsOf(UpdatePane(l, pane)) = PaneIdsOf(l)
      /\ OpenIn(UpdatePane(l, pane)) = (OpenIn(l) \ ToSet(l.panes[i].tabs)) \cup ToSet(pane.tabs)
  BY <1>1, Updated
<1> QED
  BY <1>2, <1>3

LEMMA FewerThenActive ==
  ASSUME IInv, NEW i \in DOMAIN layout.panes,
         NEW pane \in PaneRecords, pane.id = layout.panes[i].id,
         Injective(pane.tabs), ActiveInPane(pane), ToSet(pane.tabs) \subseteq ToSet(layout.panes[i].tabs),
         NEW tab, SyncRootState(Activate(UpdatePane(layout, pane), tab)),
         NoteClosed(ToSet(layout.panes[i].tabs) \ ToSet(pane.tabs))
  PROVE  IInv'
<1> DEFINE shut == ToSet(layout.panes[i].tabs) \ ToSet(pane.tabs)
<1>1. WellFormed(layout)
  BY DEF IInv
<1>2. PICK n : n = UpdatePane(layout, pane)
  OBVIOUS
<1>3. /\ WellFormed(n) /\ n.focused = layout.focused /\ Len(n.panes) = Len(layout.panes)
      /\ PaneIdsOf(n) = PaneIdsOf(layout) /\ OpenIn(n) = OpenIn(layout) \ shut
  BY <1>1, <1>2, FewerTabs
<1>4. PICK new : new = Activate(n, tab)
  OBVIOUS
<1>5. Alike(new, n) /\ (HasFocusIn(n) => HasFocusIn(new))
  BY <1>3, <1>4, ActivatedAny
<1>6. SyncRootState(new)
  BY <1>2, <1>4
<1>7. shut \in SUBSET Open
  BY DEF Open, OpenIn
<1>8. /\ WellFormed(new) /\ OpenIn(new) = Open \ shut /\ (HasFocusIn(layout) => HasFocusIn(new))
      /\ Len(new.panes) = Len(layout.panes)
  BY <1>3, <1>5 DEF Alike, HasFocusIn, Open
<1>9. Len(new.panes) <= Len(layout.panes)
  <2>1. Len(layout.panes) \in Nat
    BY <1>1, PanesTyped
  <2> QED
    BY <1>8, <2>1
<1> HIDE DEF shut
<1>10. NoteClosed(shut)
  BY DEF shut
<1> QED
  BY <1>6, <1>7, <1>8, <1>9, <1>10, ShutKeeps

LEMMA CloseTabKeeps ==
  ASSUME IInv, NEW tab \in Open, CloseTab(tab)
  PROVE  IInv'
<1>1. WellFormed(layout) /\ tab \in OpenIn(layout) /\ Len(layout.panes) \in Nat
  BY PanesTyped DEF IInv, Open
<1>2. PICK i \in DOMAIN layout.panes :
        FindPaneByTabId(layout, tab) = layout.panes[i] /\ tab \in ToSet(layout.panes[i].tabs)
  BY <1>1, FoundByTab
<1>3. PICK without : without = WithoutTab(layout.panes[i], tab)
  OBVIOUS
<1>4. PICK rest : rest = UpdatePane(layout, without)
  OBVIOUS
<1>5. TakenFrom(rest, layout, i, tab, without)
  BY <1>1, <1>2, <1>3, <1>4, TabTakenFrom
<1>6. PICK new : new = IF without.tabs = <<>> /\ Len(layout.panes) > 1 THEN ClosePaneIn(layout, layout.panes[i].id)
                       ELSE IF without.active = None THEN rest ELSE Activate(rest, without.active)
  OBVIOUS
<1>7. SyncRootState(new) /\ NoteClosed({tab})
  BY <1>2, <1>3, <1>4, <1>6 DEF CloseTab
<1>8. /\ WellFormed(new) /\ Len(new.panes) <= Len(layout.panes) /\ OpenIn(new) = Open \ {tab}
      /\ (HasFocusIn(layout) => HasFocusIn(new))
  <2>1. CASE without.tabs = <<>> /\ Len(layout.panes) > 1
    <3>1. new = ClosePaneIn(layout, layout.panes[i].id)
      BY <1>6, <2>1
    <3>2. /\ WellFormed(new) /\ Len(new.panes) = Len(layout.panes) - 1
          /\ OpenIn(new) = OpenIn(layout) \ ToSet(layout.panes[i].tabs)
          /\ HasFocusIn(layout) => HasFocusIn(new)
      BY <1>1, <2>1, <3>1, PaneClosed
    <3>3. ToSet(layout.panes[i].tabs) = {tab}
      BY <1>5, <2>1 DEF TakenFrom
    <3> QED
      BY <1>1, <3>2, <3>3 DEF Open
  <2>2. CASE ~(without.tabs = <<>> /\ Len(layout.panes) > 1)
    <3>1. Alike(rest, rest)
      BY <1>5 DEF TakenFrom, Alike
    <3>2. Alike(new, rest) /\ (HasFocusIn(rest) => HasFocusIn(new))
      <4>1. WellFormed(rest)
        BY <1>5 DEF TakenFrom
      <4>2. CASE without.active = None
        BY <1>6, <2>2, <3>1, <4>2
      <4>3. CASE without.active # None
        BY <1>6, <2>2, <4>1, <4>3, ActivatedAny
      <4> QED
        BY <4>2, <4>3
    <3>3. /\ Len(new.panes) = Len(layout.panes) /\ WellFormed(new) /\ OpenIn(new) = Open \ {tab}
          /\ (HasFocusIn(layout) => HasFocusIn(new))
      BY <1>5, <3>2 DEF TakenFrom, Alike, HasFocusIn, Open
    <3> QED
      BY <1>1, <3>3
  <2> QED
    BY <2>1, <2>2
<1>9. {tab} \in SUBSET Open
  OBVIOUS
<1> QED
  BY <1>7, <1>8, <1>9, ShutKeeps

LEMMA CloseOtherTabsKeeps ==
  ASSUME IInv, NEW tab \in Open, CloseOtherTabs(tab)
  PROVE  IInv'
<1>1. WellFormed(layout) /\ tab \in OpenIn(layout)
  BY DEF IInv, Open
<1>2. PICK i \in DOMAIN layout.panes :
        FindPaneByTabId(layout, tab) = layout.panes[i] /\ tab \in ToSet(layout.panes[i].tabs)
  BY <1>1, FoundByTab
<1>3. PICK old : old = layout.panes[i]
  OBVIOUS
<1>4. old \in PaneRecords /\ tab \in TabIds
  BY <1>1, <1>3, PanesTyped, FoundByTab
<1>5. PICK alone : alone = [old EXCEPT !.tabs = <<tab>>, !.active = tab, !.selected = {}]
  OBVIOUS
<1>6. <<tab>> \in Seq(TabIds) /\ ToSet(<<tab>>) = {tab} /\ Injective(<<tab>>) /\ <<tab>> # <<>>
  BY <1>4 DEF ToSet, Injective
<1>7. /\ alone \in PaneRecords /\ alone.id = old.id /\ alone.tabs = <<tab>> /\ alone.active = tab
      /\ alone.selected = {}
  BY <1>4, <1>5, <1>6 DEF PaneRecords
<1>8. ActiveInPane(alone) /\ ToSet(alone.tabs) = {tab} /\ Injective(alone.tabs)
  <2>1. Contains(<<tab>>, tab)
    BY <1>6, SetOf
  <2> QED
    BY <1>6, <1>7, <2>1 DEF ActiveInPane
<1>9. /\ SyncRootState(Activate(UpdatePane(layout, alone), tab))
      /\ NoteClosed(ToSet(layout.panes[i].tabs) \ ToSet(alone.tabs))
  BY <1>2, <1>3, <1>5, <1>8 DEF CloseOtherTabs
<1>10. alone.id = layout.panes[i].id /\ ToSet(alone.tabs) \subseteq ToSet(layout.panes[i].tabs)
  BY <1>2, <1>3, <1>7, <1>8
<1> QED
  BY <1>7, <1>8, <1>9, <1>10, FewerThenActive

LEMMA CloseTabsToRightKeeps ==
  ASSUME IInv, NEW tab \in Open, CloseTabsToRight(tab)
  PROVE  IInv'
<1>1. WellFormed(layout) /\ tab \in OpenIn(layout)
  BY DEF IInv, Open
<1>2. PICK i \in DOMAIN layout.panes :
        FindPaneByTabId(layout, tab) = layout.panes[i] /\ tab \in ToSet(layout.panes[i].tabs)
  BY <1>1, FoundByTab
<1>3. PICK old : old = layout.panes[i]
  OBVIOUS
<1>4. old \in PaneRecords /\ old.tabs \in Seq(TabIds) /\ Injective(old.tabs) /\ tab \in TabIds
  BY <1>1, <1>3, PanesTyped, FoundByTab
<1> DEFINE at == SelectInSeq(old.tabs, LAMBDA t : t = tab)
<1>5. at \in 1..Len(old.tabs) /\ old.tabs[at] = tab
  <2> DEFINE I == {k \in 1..Len(old.tabs) : old.tabs[k] = tab}
  <2>1. at = IF I # {} THEN Min(I) ELSE 0
    BY DEF SelectInSeq
  <2>2. PICK k \in 1..Len(old.tabs) : old.tabs[k] = tab
    BY <1>2, <1>3, <1>4, SetOf
  <2>3. I # {} /\ I \in SUBSET Nat
    BY <2>2
  <2>4. at \in I
    <3> HIDE DEF I
    <3> QED
      BY <2>1, <2>3, MinOf
  <2> QED
    BY <2>4
<1>6. PICK kept : kept = SubSeq(old.tabs, 1, at)
  OBVIOUS
<1>7. PICK cut : cut = [old EXCEPT !.tabs = kept, !.selected = {},
                                   !.active = IF Contains(kept, @) THEN @ ELSE tab]
  OBVIOUS
<1>8. /\ SyncRootState(Activate(UpdatePane(layout, cut), cut.active))
      /\ NoteClosed(ToSet(layout.panes[i].tabs) \ ToSet(kept))
  BY <1>2, <1>3, <1>6, <1>7 DEF CloseTabsToRight
<1> HIDE DEF at
<1>9. kept \in Seq(TabIds) /\ Len(kept) = at /\ \A k \in 1..at : kept[k] = old.tabs[k]
  BY <1>4, <1>5, <1>6
<1>10. DOMAIN kept = 1..at /\ DOMAIN old.tabs = 1..Len(old.tabs) /\ 1..at \subseteq 1..Len(old.tabs)
       /\ at \in 1..at
  BY <1>4, <1>5, <1>9
<1>11. ToSet(kept) \subseteq ToSet(old.tabs) /\ tab \in ToSet(kept)
  BY <1>5, <1>9, <1>10 DEF ToSet
<1>12. Injective(kept)
  BY <1>4, <1>9, <1>10 DEF Injective
<1>13. /\ cut \in PaneRecords /\ cut.id = old.id /\ cut.tabs = kept /\ cut.selected = {}
       /\ cut.active = IF Contains(kept, old.active) THEN old.active ELSE tab
  BY <1>4, <1>7, <1>9 DEF PaneRecords
<1>14. ActiveInPane(cut)
  <2>1. Contains(kept, tab) /\ kept # <<>>
    BY <1>9, <1>11, SetOf
  <2> QED
    BY <1>13, <2>1 DEF ActiveInPane
<1>15. /\ cut.id = layout.panes[i].id /\ Injective(cut.tabs)
       /\ ToSet(cut.tabs) \subseteq ToSet(layout.panes[i].tabs)
       /\ NoteClosed(ToSet(layout.panes[i].tabs) \ ToSet(cut.tabs))
  BY <1>3, <1>8, <1>11, <1>12, <1>13
<1> QED
  BY <1>8, <1>13, <1>14, <1>15, FewerThenActive

LEMMA NoTabsIs ==
  ASSUME WellFormed(layout)
  PROVE  WellFormed(NoTabs) /\ Len(NoTabs.panes) = 1 /\ OpenIn(NoTabs) = {} /\ HasFocusIn(NoTabs)
<1>1. PICK id \in PaneIds : id = layout.panes[1].id
  BY PanesTyped
<1>2. PICK pane : pane = EmptyPane(id)
  OBVIOUS
<1>3. pane \in PaneRecords /\ pane.tabs = <<>> /\ pane.id = id /\ pane.active = None /\ pane.selected = {}
  BY <1>2 DEF EmptyPane, PaneRecords
<1>4. NoTabs = [panes |-> <<pane>>, focused |-> id]
  BY <1>1, <1>2 DEF NoTabs
<1>5. NoTabs.panes = <<pane>> /\ NoTabs.focused = id /\ NoTabs \in [panes : Seq(PaneRecords), focused : PaneIds]
  BY <1>3, <1>4
<1>6. DOMAIN NoTabs.panes = {1} /\ NoTabs.panes[1] = pane /\ Len(NoTabs.panes) = 1 /\ NoTabs.panes # <<>>
  BY <1>5
<1>7. Injective(<<>>) /\ ToSet(<<>>) = {} /\ {} \subseteq ToSet(<<>>)
  BY DEF Injective, ToSet
<1>8. ActiveInPane(pane)
  BY <1>3, <1>7 DEF ActiveInPane
<1>9. WellFormed(NoTabs)
  BY <1>3, <1>5, <1>6, <1>7, <1>8 DEF WellFormed, Apart
<1>10. OpenIn(NoTabs) = {}
  BY <1>3, <1>6, <1>7 DEF OpenIn
<1>11. HasFocusIn(NoTabs)
  BY <1>3, <1>5, <1>6 DEF HasFocusIn, PaneIdsOf
<1> QED
  BY <1>6, <1>9, <1>10, <1>11
LEMMA CloseAllTabsKeeps ==
  ASSUME IInv, CloseAllTabs
  PROVE  IInv'
<1>1. WellFormed(layout) /\ Len(layout.panes) \in Nat /\ Len(layout.panes) >= 1
  BY PanesTyped DEF IInv
<1>2. PICK new : new = NoTabs
  OBVIOUS
<1>3. SyncRootState(new) /\ NoteClosed(Open) /\ Open \in SUBSET Open
  BY <1>2 DEF CloseAllTabs
<1>4. WellFormed(new) /\ Len(new.panes) <= Len(layout.panes) /\ OpenIn(new) = Open \ Open /\ HasFocusIn(new)
  BY <1>1, <1>2, NoTabsIs
<1> QED
  BY <1>3, <1>4, ShutKeeps

LEMMA ClosePaneKeeps ==
  ASSUME IInv, NEW p \in PaneIdsOf(layout), ClosePane(p)
  PROVE  IInv'
<1>1. WellFormed(layout) /\ Len(layout.panes) \in Nat
  BY PanesTyped DEF IInv
<1>2. PICK i \in DOMAIN layout.panes : layout.panes[i].id = p /\ FindPane(layout, p) = layout.panes[i]
  BY <1>1, Found
<1>3. PICK new : new = ClosePaneIn(layout, layout.panes[i].id)
  OBVIOUS
<1>4. PICK shut : shut = ToSet(layout.panes[i].tabs)
  OBVIOUS
<1>5. Len(layout.panes) > 1 /\ SyncRootState(new) /\ NoteClosed(shut)
  BY <1>2, <1>3, <1>4 DEF ClosePane
<1>6. /\ WellFormed(new) /\ Len(new.panes) = Len(layout.panes) - 1
      /\ OpenIn(new) = OpenIn(layout) \ ToSet(layout.panes[i].tabs)
      /\ HasFocusIn(layout) => HasFocusIn(new)
  BY <1>1, <1>3, <1>5, PaneClosed
<1>7. Len(new.panes) <= Len(layout.panes)
  BY <1>1, <1>6
<1>8. OpenIn(new) = Open \ shut /\ shut \in SUBSET Open
  BY <1>4, <1>6 DEF Open, OpenIn
<1> QED
  BY <1>5, <1>6, <1>7, <1>8, ShutKeeps

\* The tabs of closeTabs are of one pane: no other is emptied by it.
LEMMA OnePaneEmptied ==
  ASSUME NEW l, WellFormed(l), NEW i \in DOMAIN l.panes,
         NEW ids \in SUBSET ToSet(l.panes[i].tabs), NEW j \in DOMAIN l.panes, j # i
  PROVE  /\ ToSet(l.panes[j].tabs) \cap ids = {}
         /\ l.panes[j].tabs # <<>> => ~(ToSet(l.panes[j].tabs) \subseteq ids)
<1>1. ToSet(l.panes[j].tabs) \cap ToSet(l.panes[i].tabs) = {}
  BY DEF WellFormed, Apart
<1>2. ASSUME l.panes[j].tabs # <<>> PROVE ToSet(l.panes[j].tabs) # {}
  <2>1. PICK s \in Seq(TabIds) : s = l.panes[j].tabs
    BY PanesTyped
  <2>2. s[1] \in ToSet(s)
    BY <1>2, <2>1 DEF ToSet
  <2> QED
    BY <2>1, <2>2
<1> QED
  BY <1>1, <1>2

LEMMA ClosingTabsIs ==
  ASSUME WellFormed(layout), NEW i \in DOMAIN layout.panes,
         NEW ids \in SUBSET ToSet(layout.panes[i].tabs), ids # {},
         NEW new, new = ClosingTabs(ids)
  PROVE  /\ WellFormed(new)
         /\ Len(new.panes) <= Len(layout.panes)
         /\ OpenIn(new) = OpenIn(layout) \ ids
         /\ HasFocusIn(layout) => HasFocusIn(new)
<1> DEFINE several == Len(layout.panes) > 1
           Emptied(p) == several /\ p.tabs # <<>> /\ ToSet(p.tabs) \subseteq ids
           D == DOMAIN layout.panes
           old == layout.panes[i]
           rest == [layout EXCEPT !.panes =
                      [k \in DOMAIN @ |->
                         IF Emptied(@[k]) \/ ToSet(@[k].tabs) \cap ids = {} THEN @[k]
                         ELSE WithoutTabs(@[k], ids)]]
           at == SelectInSeq(layout.panes, Emptied)
<1>1. new = IF OpenIn(rest) = {} THEN NoTabs
            ELSE IF at = 0 THEN rest
            ELSE RemovePane(rest, layout.panes[at].id)
  BY DEF ClosingTabs
<1>2. /\ D = 1..Len(layout.panes) /\ Len(layout.panes) \in Nat /\ i \in D
      /\ old \in PaneRecords /\ old.tabs \in Seq(TabIds) /\ Injective(old.tabs) /\ ActiveInPane(old)
      /\ layout = [panes |-> layout.panes, focused |-> layout.focused]
  BY PanesTyped DEF WellFormed
<1>3. layout.panes = [k \in D |-> layout.panes[k]]
  BY PanesTyped
<1>4. old.tabs # <<>> /\ ToSet(old.tabs) \cap ids # {}
  <2>1. ToSet(<<>>) = {}
    BY DEF ToSet
  <2> QED
    BY <2>1
<1>5. \A k \in D : k # i => ~Emptied(layout.panes[k]) /\ ToSet(layout.panes[k].tabs) \cap ids = {}
  BY OnePaneEmptied
<1>6. rest = [panes |-> [k \in D |-> IF Emptied(layout.panes[k]) \/ ToSet(layout.panes[k].tabs) \cap ids = {}
                                     THEN layout.panes[k] ELSE WithoutTabs(layout.panes[k], ids)],
              focused |-> layout.focused]
  <2>1. PICK all : all = [k \in D |-> IF Emptied(layout.panes[k]) \/ ToSet(layout.panes[k].tabs) \cap ids = {}
                                      THEN layout.panes[k] ELSE WithoutTabs(layout.panes[k], ids)]
    OBVIOUS
  <2>2. rest = [layout EXCEPT !.panes = all]
    BY <2>1
  <2> HIDE DEF rest
  <2>3. rest = [panes |-> all, focused |-> layout.focused]
    BY <1>2, <2>2
  <2> QED
    BY <2>1, <2>3
<1>7. CASE Emptied(old)
  <2>1. \A k \in D : rest.panes[k] = layout.panes[k]
    BY <1>5, <1>6, <1>7
  <2>2. rest = layout
    BY <1>2, <1>3, <1>5, <1>6, <1>7
  <2>3. at = i
    <3> DEFINE I == {k \in 1..Len(layout.panes) : Emptied(layout.panes[k])}
    <3>1. I = {i}
      BY <1>2, <1>5, <1>7
    <3>2. at = IF I # {} THEN Min(I) ELSE 0
      BY DEF SelectInSeq
    <3>3. I \in SUBSET Nat /\ I # {}
      BY <1>2, <3>1
    <3> HIDE DEF I
    <3> QED
      BY <3>1, <3>2, <3>3, MinOf
  <2>4. ids = ToSet(old.tabs) /\ several
    BY <1>7
  <2>5. OpenIn(rest) # {}
    <3>1. OpenIn(layout) = UNION {ToSet(layout.panes[k].tabs) : k \in D}
      BY DEF OpenIn
    <3>2. ToSet(old.tabs) \subseteq OpenIn(layout)
      BY <1>2, <3>1
    <3> HIDE DEF rest
    <3> QED
      BY <1>4, <2>2, <3>2
  <2>6. i # 0
    BY <1>2
  <2> HIDE DEF rest, at, Emptied
  <2>7. new = RemovePane(layout, layout.panes[i].id)
    BY <1>1, <2>2, <2>3, <2>5, <2>6
  <2>8. /\ WellFormed(new)
        /\ Len(new.panes) = Len(layout.panes) - 1
        /\ PaneIdsOf(new) = PaneIdsOf(layout) \ {layout.panes[i].id}
        /\ OpenIn(new) = OpenIn(layout) \ ToSet(layout.panes[i].tabs)
        /\ IF layout.focused = layout.panes[i].id THEN new.focused \in PaneIdsOf(new) ELSE new.focused = layout.focused
    BY <2>4, <2>7, Removed
  <2>9. HasFocusIn(layout) => HasFocusIn(new)
    BY <2>8 DEF HasFocusIn
  <2>10. Len(new.panes) <= Len(layout.panes)
    BY <1>2, <2>8
  <2> QED
    BY <2>4, <2>8, <2>9, <2>10
<1>8. CASE ~Emptied(old)
  <2>1. PICK pane : pane = WithoutTabs(old, ids)
    OBVIOUS
  <2>2. /\ pane \in PaneRecords /\ pane.id = old.id
        /\ ToSet(pane.tabs) = ToSet(old.tabs) \ ids
        /\ Injective(pane.tabs) /\ ActiveInPane(pane)
    BY <1>2, <1>4, <2>1, TabsTaken
  <2>3. \A k \in D : layout.panes[k].id = pane.id <=> k = i
    BY <1>2, <2>2 DEF WellFormed
  <2>4. rest = UpdatePane(layout, pane)
    <3>1. \A k \in D : (IF Emptied(layout.panes[k]) \/ ToSet(layout.panes[k].tabs) \cap ids = {}
                        THEN layout.panes[k] ELSE WithoutTabs(layout.panes[k], ids))
                       = (IF layout.panes[k].id = pane.id THEN pane ELSE layout.panes[k])
      BY <1>4, <1>5, <1>8, <2>1, <2>3
    <3>2. UpdatePane(layout, pane) =
            [panes |-> [k \in D |-> IF layout.panes[k].id = pane.id THEN pane ELSE layout.panes[k]],
             focused |-> layout.focused]
      <4>1. PICK all : all = [k \in D |-> IF layout.panes[k].id = pane.id THEN pane ELSE layout.panes[k]]
        OBVIOUS
      <4>2. UpdatePane(layout, pane) = [layout EXCEPT !.panes = all]
        BY <4>1 DEF UpdatePane
      <4> QED
        BY <1>2, <4>1, <4>2
    <3> HIDE DEF Emptied, rest
    <3> QED
      BY <1>6, <3>1, <3>2
  <2>5. /\ WellFormed(rest) /\ rest.focused = layout.focused /\ Len(rest.panes) = Len(layout.panes)
        /\ PaneIdsOf(rest) = PaneIdsOf(layout)
        /\ OpenIn(rest) = OpenIn(layout) \ (ToSet(old.tabs) \ ToSet(pane.tabs))
    <3>1. ToSet(pane.tabs) \subseteq ToSet(old.tabs)
      BY <2>2
    <3> HIDE DEF rest, Emptied
    <3> QED
      BY <2>2, <2>4, <3>1, FewerTabs
  <2>6. OpenIn(rest) = OpenIn(layout) \ ids
    BY <2>2, <2>5
  <2>7. at = 0
    <3> DEFINE I == {k \in 1..Len(layout.panes) : Emptied(layout.panes[k])}
    <3>1. I = {}
      BY <1>2, <1>5, <1>8
    <3>2. at = IF I # {} THEN Min(I) ELSE 0
      BY DEF SelectInSeq
    <3> QED
      BY <3>1, <3>2
  <2> HIDE DEF rest, at, Emptied
  <2>8. CASE OpenIn(rest) = {}
    <3>1. /\ new = NoTabs /\ WellFormed(NoTabs) /\ Len(NoTabs.panes) = 1 /\ OpenIn(NoTabs) = {}
          /\ HasFocusIn(NoTabs)
      BY <1>1, <2>8, NoTabsIs
    <3> QED
      BY <1>2, <2>6, <2>8, <3>1
  <2>9. CASE OpenIn(rest) # {}
    <3>1. new = rest /\ (HasFocusIn(layout) => HasFocusIn(new))
      BY <1>1, <2>5, <2>7, <2>9 DEF HasFocusIn
    <3> QED
      BY <1>2, <2>5, <2>6, <3>1
  <2> QED
    BY <2>8, <2>9
<1> QED
  BY <1>7, <1>8

LEMMA CloseTabsKeeps ==
  ASSUME IInv, NEW p \in PaneIdsOf(layout), CloseTabs(FindPane(layout, p).selected)
  PROVE  IInv'
<1>1. WellFormed(layout) /\ Len(layout.panes) \in Nat
  BY PanesTyped DEF IInv
<1>2. PICK i \in DOMAIN layout.panes : layout.panes[i].id = p /\ FindPane(layout, p) = layout.panes[i]
  BY <1>1, Found
<1>3. PICK ids : ids = layout.panes[i].selected
  OBVIOUS
<1>4. ids \in SUBSET ToSet(layout.panes[i].tabs)
  BY <1>1, <1>3, PanesTyped DEF ActiveInPane
<1>5. PICK left : left = ClosingTabs(ids)
  OBVIOUS
<1>6. PICK new : new = ActivateFocused(left)
  OBVIOUS
<1>7. ids # {} /\ SyncRootState(new) /\ NoteClosed(ids)
  BY <1>2, <1>3, <1>5, <1>6 DEF CloseTabs
<1>8. /\ WellFormed(left) /\ Len(left.panes) <= Len(layout.panes) /\ OpenIn(left) = OpenIn(layout) \ ids
      /\ HasFocusIn(layout) => HasFocusIn(left)
  BY <1>1, <1>4, <1>5, <1>7, ClosingTabsIs
<1>9. Alike(new, left) /\ (HasFocusIn(left) => HasFocusIn(new))
  BY <1>6, <1>8, FocusActivated
<1>10. /\ WellFormed(new) /\ Len(new.panes) <= Len(layout.panes) /\ OpenIn(new) = Open \ ids
       /\ HasFocusIn(layout) => HasFocusIn(new)
  BY <1>8, <1>9 DEF Alike, Open
<1>11. ids \in SUBSET Open
  BY <1>4 DEF Open, OpenIn
<1> QED
  BY <1>7, <1>10, <1>11, ShutKeeps

LEMMA ClosingKeeps ==
  ASSUME IInv, Closing
  PROVE  IInv'
<1>1. ASSUME NEW tab \in Open, CloseTab(tab) \/ CloseOtherTabs(tab) \/ CloseTabsToRight(tab)
      PROVE  IInv'
  BY <1>1, CloseTabKeeps, CloseOtherTabsKeeps, CloseTabsToRightKeeps
<1>2. ASSUME NEW p \in PaneIdsOf(layout), ClosePane(p) \/ CloseTabs(FindPane(layout, p).selected)
      PROVE  IInv'
  BY <1>2, ClosePaneKeeps, CloseTabsKeeps
<1> QED
  BY <1>1, <1>2, CloseAllTabsKeeps DEF Closing
-----------------------------------------------------------------------------
(***************************************************************************)
(* The theorems.                                                           *)
(***************************************************************************)
LEMMA InitIInv == Init => IInv
<1> SUFFICES ASSUME Init PROVE IInv
  OBVIOUS
<1>1. PICK id \in PaneIds : layout = [panes |-> <<EmptyPane(id)>>, focused |-> id]
  BY DEF Init
<1>2. PICK pane : pane = EmptyPane(id)
  OBVIOUS
<1>3. pane \in PaneRecords /\ pane.tabs = <<>> /\ pane.id = id /\ pane.active = None /\ pane.selected = {}
  BY <1>2 DEF EmptyPane, PaneRecords
<1>4. /\ layout.panes = <<pane>> /\ layout.focused = id
      /\ layout \in [panes : Seq(PaneRecords), focused : PaneIds]
  BY <1>1, <1>2, <1>3
<1>5. DOMAIN layout.panes = {1} /\ layout.panes[1] = pane /\ Len(layout.panes) = 1 /\ layout.panes # <<>>
  BY <1>4
<1>6. Injective(<<>>) /\ ToSet(<<>>) = {} /\ {} \subseteq ToSet(<<>>)
  BY DEF Injective, ToSet
<1>7. WellFormed(layout)
  BY <1>3, <1>4, <1>5, <1>6 DEF WellFormed, Apart, ActiveInPane
<1>8. Len(layout.panes) <= MaxPanes
  BY <1>5, PanesAssumption
<1>9. Open = {} /\ HasFocus
  BY <1>3, <1>4, <1>5, <1>6 DEF Open, OpenIn, HasFocus, PaneIdsOf
<1>10. FocusedPane = pane
  <2>1. PaneIndex(layout, layout.panes[1].id) = 1 /\ FindPane(layout, layout.panes[1].id) = layout.panes[1]
    BY <1>5, <1>7, FoundAt
  <2> QED
    BY <1>3, <1>4, <1>5, <2>1 DEF FocusedPane
<1>11. RootFollows
  BY <1>3, <1>9, <1>10 DEF RootFollows, Init
<1>12. content \in [TabIds -> Sessions \cup {Page, None}] /\ forced = {} /\ closed = {} /\ dropped = {}
       /\ Opened = {}
  BY DEF Init, Opened
<1> QED
  BY <1>7, <1>8, <1>9, <1>11, <1>12 DEF IInv, OneTabPerSession

LEMMA NextIInv == IInv /\ [Next]_vars => IInv'
<1> SUFFICES ASSUME IInv, [Next]_vars PROVE IInv'
  OBVIOUS
<1>1. CASE Opening
  BY <1>1, OpeningKeeps
<1>2. CASE Focusing
  BY <1>2, FocusingKeeps
<1>3. CASE Moving
  BY <1>3, MovingKeeps
<1>4. CASE Closing
  BY <1>4, ClosingKeeps
<1>5. CASE UNCHANGED vars
  BY <1>5 DEF vars, IInv, RootFollows, HasFocus, FocusedPane, Open, Opened, OneTabPerSession
<1> QED
  BY <1>1, <1>2, <1>3, <1>4, <1>5 DEF Next

LEMMA PlacesApart ==
  ASSUME NEW l, WellFormed(l)
  PROVE  InOnePlace(l.panes)
<1> SUFFICES ASSUME NEW i \in DOMAIN l.panes, NEW j \in DOMAIN l.panes,
                    NEW k \in DOMAIN l.panes[i].tabs, NEW m \in DOMAIN l.panes[j].tabs,
                    l.panes[i].tabs[k] = l.panes[j].tabs[m]
             PROVE  i = j /\ k = m
  BY DEF InOnePlace
<1>1. l.panes[i].tabs[k] \in ToSet(l.panes[i].tabs) /\ l.panes[j].tabs[m] \in ToSet(l.panes[j].tabs)
  BY DEF ToSet
<1>2. i = j
  BY <1>1 DEF WellFormed, Apart
<1>3. Injective(l.panes[i].tabs)
  BY DEF WellFormed, Apart
<1> QED
  BY <1>2, <1>3 DEF Injective

LEMMA TypedWhenSound == IInv => TypeOK
<1> SUFFICES ASSUME IInv PROVE TypeOK
  OBVIOUS
<1>1. WellFormed(layout) /\ RootFollows
  BY DEF IInv
<1>2. /\ layout \in [panes : Seq(PaneRecords), focused : PaneIds]
      /\ \A i, j \in DOMAIN layout.panes : layout.panes[i].id = layout.panes[j].id => i = j
  BY <1>1 DEF WellFormed
<1>3. Len(layout.panes) \in 1..MaxPanes
  BY <1>1, PanesTyped, PanesAssumption DEF IInv
<1>4. openTabs \in Seq(TabIds) /\ activeTabId \in TabIds \cup {None} /\ selectedTabIds \subseteq TabIds
  <2>1. CASE HasFocus
    <3>1. PICK i \in DOMAIN layout.panes : FocusedPane = layout.panes[i]
      BY <1>1, <2>1, Found DEF FocusedPane, HasFocus
    <3>2. FocusedPane \in PaneRecords
      BY <1>1, <3>1, PanesTyped
    <3> QED
      BY <1>1, <2>1, <3>2 DEF RootFollows, PaneRecords
  <2>2. CASE ~HasFocus
    BY <1>1, <2>2 DEF RootFollows
  <2> QED
    BY <2>1, <2>2
<1>5. /\ content \in [TabIds -> Sessions \cup {Page, None}]
      /\ forced \cup closed \cup dropped \subseteq TabIds
  BY DEF IInv, Opened
<1> QED
  BY <1>2, <1>3, <1>4, <1>5 DEF TypeOK

\* The invariant holds of every reachable state.
THEOREM PanesInvariance == Spec => []IInv
  BY InitIInv, NextIInv, PTL DEF Spec

\* The state stays well typed: whatever is split, moved and closed, there is a
\* pane, there are never more than MaxPanes, and no two have the same id.
THEOREM PanesTypeCorrect == Spec => []TypeOK
  BY TypedWhenSound, PanesInvariance, PTL

\* The panes hold the tabs that were opened, but for the closed and the dropped
\* ones, and none in two places: no operation of paneSlice or tabSlice loses or
\* duplicates a tab, with the one exception `dropped' records.
THEOREM PanesConserveTabs == Spec => []TabsConserved
<1>1. IInv => TabsConserved
  BY PlacesApart DEF IInv, TabsConserved, Opened
<1> QED
  BY <1>1, PanesInvariance, PTL

\* The active tab of every pane is one of its tabs, and the root's copy is the
\* focused pane's, whatever sequence of operations led there.
THEOREM PanesAgreeOnFocus == Spec => []FocusAgrees
<1>1. IInv => FocusAgrees
  BY DEF IInv, WellFormed, RootFollows, FocusAgrees
<1> QED
  BY <1>1, PanesInvariance, PTL

\* openTab never shows a session in a second tab unless it was asked to, across
\* panes, moves and replaced tabs.
THEOREM PanesOneTabPerSession == Spec => []OneTabPerSession
<1>1. IInv => OneTabPerSession
  BY DEF IInv
<1> QED
  BY <1>1, PanesInvariance, PTL
=============================================================================
