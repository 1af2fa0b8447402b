---------------------------- MODULE LocoSlotProofs ----------------------------
(***************************************************************************)
(* What the operations on the table do to it, for any table size and any   *)
(* table: it stays well-formed, and the pointers of the consists in it     *)
(* stay Linked, until parse writes to a null pointer.                      *)
(*                                                                         *)
(* Linked is stronger than ConsistsWellFormed and can be checked slot by   *)
(* slot: instead of following chains it asks for a numbering of the slots  *)
(* that grows along them.                                                  *)
(***************************************************************************)
EXTENDS LocoSlot, SequenceTheorems, WellFoundedInduction, FiniteSetTheorems, TLAPS

-----------------------------------------------------------------------------
(* The provers have no induction of their own: it is stated for a set      *)
(* instead of a predicate, and follows from the library's WFMin.           *)

\* A set that holds 0 and the successor of each natural it holds, holds them all.
LEMMA SetInduction ==
    ASSUME NEW T, 0 \in T, \A n \in Nat : n \in T => n + 1 \in T
    PROVE  \A n \in Nat : n \in T
<1> DEFINE R == OpToRel(<, Nat)
<1>1. /\ Nat \ T # {} => \E k \in Nat \ T : \A i \in Nat \ T : <<i, k>> \notin R
      /\ \A i, k \in Nat : i < k => <<i, k>> \in R
  BY NatLessThanWellFounded, WFMin DEF OpToRel
<1> HIDE DEF R
<1> QED
  BY <1>1, \A k \in Nat \ {0} : k - 1 \in Nat /\ k - 1 < k /\ (k - 1) + 1 = k

-----------------------------------------------------------------------------
(* The table of slots and the consists in it. *)

Slot == [loco : Nat, speed : SpeedCode, target : SpeedCode, saved : SpeedCode,
         base : Nat, momA : Nat, momD : Nat, functions : SUBSET Nat, groups : SUBSET Nat,
         lead : 0..MAX_LOCOS, next : 0..MAX_LOCOS, rev : BOOLEAN]

Table == [list : Seq(Cells), recycler : Seq(Cells), count : Nat, modified : BOOLEAN,
          slot : [Cells -> Slot]]

\* The pointers of the consists, cell by cell; r numbers the members of a consist
\* from its lead on, so that no chain is a cycle.
Ranked(t, r) ==
    /\ \A c \in Cells : c \notin Listed(t) => t.slot[c].lead = Null /\ t.slot[c].next = Null
    /\ \A c \in Cells : t.slot[c].next # Null =>
          /\ t.slot[c].next \in Listed(t)
          /\ t.slot[t.slot[c].next].lead = IF t.slot[c].lead = Null THEN c ELSE t.slot[c].lead
          /\ r[t.slot[c].next] = r[c] + 1
    /\ \A c, d \in Cells : t.slot[c].next = t.slot[d].next /\ t.slot[c].next # Null => c = d
    /\ \A c \in Cells : t.slot[c].lead # Null =>
          /\ t.slot[c].lead \in Listed(t)
          /\ t.slot[t.slot[c].lead].lead = Null
          /\ \E p \in Cells : t.slot[p].next = c

Linked(t) == \E r \in [Cells -> Nat] : Ranked(t, r)

LEMMA CellFacts == Cells \subseteq Nat /\ Null \notin Cells /\ 0..MAX_LOCOS = Cells \cup {Null}
  BY SlotAssumption DEF Cells, Null

LEMMA ListedFacts ==
    ASSUME NEW t \in Table
    PROVE  /\ Listed(t) \subseteq Cells /\ Recycled(t) \subseteq Cells
           /\ t.list \in Seq(Cells) /\ t.recycler \in Seq(Cells)
           /\ DOMAIN t.list = 1..Len(t.list) /\ DOMAIN t.recycler = 1..Len(t.recycler)
           /\ Len(t.list) \in Nat /\ Len(t.recycler) \in Nat
<1>1. t.list \in Seq(Cells) /\ t.recycler \in Seq(Cells)
  BY DEF Table
<1>2. /\ DOMAIN t.list = 1..Len(t.list) /\ DOMAIN t.recycler = 1..Len(t.recycler)
      /\ Len(t.list) \in Nat /\ Len(t.recycler) \in Nat
  BY <1>1, LenProperties
<1>3. /\ \A i \in 1..Len(t.list) : t.list[i] \in Cells
      /\ \A i \in 1..Len(t.recycler) : t.recycler[i] \in Cells
  BY <1>1, ElementOfSeq
<1> QED
  BY <1>1, <1>2, <1>3 DEF Listed, Recycled, Range

LEMMA SlotFacts ==
    ASSUME NEW t \in Table, NEW c \in Cells
    PROVE  /\ t.slot[c] \in Slot
           /\ t.slot[c].lead \in Cells \cup {Null} /\ t.slot[c].next \in Cells \cup {Null}
           /\ t.slot[c].loco \in Nat
<1>1. t.slot[c] \in Slot
  BY DEF Table
<1> QED
  BY <1>1, CellFacts DEF Slot

-----------------------------------------------------------------------------
(* The chain of consistNext. *)

Walk(t, w) == IF t.slot[Last(w)].next = Null THEN w ELSE Append(w, t.slot[Last(w)].next)

\* f is the function that Chain defines, up to n.
IsWalk(f, t, c, n) == f = [m \in 0..n |-> IF m = 0 THEN <<c>> ELSE Walk(t, f[m - 1])]

LEMMA WalkExists ==
    ASSUME NEW t, NEW c PROVE \A n \in Nat : \E f : IsWalk(f, t, c, n)
<1> DEFINE T == {n \in Nat : \E f : IsWalk(f, t, c, n)}
<1>1. 0 \in T
  <2>1. IsWalk([m \in 0..0 |-> <<c>>], t, c, 0)
    BY DEF IsWalk
  <2> QED
    BY <2>1
<1>2. ASSUME NEW n \in Nat, n \in T PROVE n + 1 \in T
  <2>1. PICK f : IsWalk(f, t, c, n)
    BY <1>2
  <2> DEFINE g == [m \in 0..(n + 1) |-> IF m <= n THEN f[m] ELSE Walk(t, f[n])]
  <2>2. \A m \in 0..n : f[m] = IF m = 0 THEN <<c>> ELSE Walk(t, f[m - 1])
    BY <2>1 DEF IsWalk
  <2>3. ASSUME NEW m \in 0..(n + 1)
        PROVE  g[m] = IF m = 0 THEN <<c>> ELSE Walk(t, g[m - 1])
    <3>1. CASE m = n + 1
      <4>1. g[m] = Walk(t, f[n]) /\ g[m - 1] = f[n] /\ m # 0
        BY <3>1
      <4> QED
        BY <4>1
    <3>2. CASE m <= n /\ m # 0
      <4>1. g[m] = f[m] /\ g[m - 1] = f[m - 1]
        BY <3>2
      <4> QED
        BY <3>2, <4>1, <2>2
    <3>3. CASE m = 0
      BY <3>3, <2>2
    <3> QED
      BY <3>1, <3>2, <3>3
  <2>4. g = [m \in 0..(n + 1) |-> IF m = 0 THEN <<c>> ELSE Walk(t, g[m - 1])]
    <3> HIDE DEF g
    <3>1. DOMAIN g = 0..(n + 1) /\ g = [m \in 0..(n + 1) |-> g[m]]
      BY DEF g
    <3> QED
      BY <3>1, <2>3, Zenon
  <2>5. IsWalk(g, t, c, n + 1)
    BY Zenon, <2>4 DEF IsWalk
  <2> QED
    BY <2>5
<1> HIDE DEF T
<1>3. \A n \in Nat : n \in T
  BY <1>1, <1>2, SetInduction
<1> QED
  BY <1>3 DEF T

\* w leads from c from slot to slot, n times or until there is no next.
Path(t, c, w, n) ==
    /\ w \in Seq(Cells) /\ Len(w) \in 1..(n + 1)
    /\ w[1] = c
    /\ \A i \in 1..(Len(w) - 1) : w[i + 1] = t.slot[w[i]].next /\ w[i + 1] # Null
    /\ Len(w) = n + 1 \/ t.slot[w[Len(w)]].next = Null

LEMMA WalkIsPath ==
    ASSUME NEW t \in Table, NEW c \in Cells, NEW w, NEW n \in Nat, Path(t, c, w, n)
    PROVE  Path(t, c, Walk(t, w), n + 1)
<1>1. /\ w \in Seq(Cells) /\ Len(w) \in Nat /\ Len(w) >= 1 /\ Len(w) <= n + 1
      /\ \A i \in 1..Len(w) : w[i] \in Cells
  BY LenProperties, ElementOfSeq DEF Path
<1> DEFINE e == t.slot[w[Len(w)]].next
<1>2. e \in Cells \cup {Null}
  BY <1>1, SlotFacts
<1>3. Last(w) = w[Len(w)]
  BY DEF Last
<1>4. CASE e = Null
  <2>1. Walk(t, w) = w
    BY <1>3, <1>4 DEF Walk
  <2>2. Len(w) \in 1..(n + 1 + 1)
    BY <1>1
  <2> QED
    BY <2>1, <2>2, <1>4 DEF Path
<1>5. CASE e # Null
  <2> DEFINE v == Append(w, e)
  <2>1. Walk(t, w) = v
    BY <1>3, <1>5 DEF Walk
  <2>2. e \in Cells
    BY <1>2, <1>5
  <2>3. /\ v \in Seq(Cells) /\ Len(v) = Len(w) + 1 /\ v[Len(w) + 1] = e
        /\ \A i \in 1..Len(w) : v[i] = w[i]
    BY <1>1, <2>2, AppendProperties
  <2>4. Len(w) = n + 1
    BY <1>5 DEF Path
  <2> HIDE DEF v
  <2>5. ASSUME NEW i \in 1..(Len(v) - 1)
        PROVE  v[i + 1] = t.slot[v[i]].next /\ v[i + 1] # Null
    <3>1. CASE i = Len(w)
      <4>1. v[i] = w[Len(w)] /\ v[i + 1] = e
        BY <3>1, <2>3, <1>1
      <4> QED
        BY <4>1, <1>5
    <3>2. CASE i # Len(w)
      <4>1. i \in 1..(Len(w) - 1) /\ i \in 1..Len(w) /\ i + 1 \in 1..Len(w)
        BY <3>2, <2>3, <1>1
      <4>2. v[i] = w[i] /\ v[i + 1] = w[i + 1]
        BY <4>1, <2>3
      <4> QED
        BY <4>1, <4>2 DEF Path
    <3> QED
      BY <3>1, <3>2
  <2>6. Len(v) \in 1..(n + 1 + 1) /\ Len(v) = n + 1 + 1
    BY <2>3, <2>4, <1>1
  <2>7. v[1] = c
    BY <2>3, <1>1 DEF Path
  <2> QED
    BY <2>1, <2>3, <2>5, <2>6, <2>7 DEF Path
<1> QED
  BY <1>4, <1>5

LEMMA ChainIsPath ==
    ASSUME NEW t \in Table, NEW c \in Cells
    PROVE  Path(t, c, Chain(t, c), MAX_LOCOS)
<1> DEFINE f == CHOOSE f : IsWalk(f, t, c, MAX_LOCOS)
<1>1. MAX_LOCOS \in Nat
  BY SlotAssumption
<1>2. IsWalk(f, t, c, MAX_LOCOS)
  BY <1>1, WalkExists, Zenon
<1>3. Chain(t, c) = f[MAX_LOCOS]
  BY Zenon DEF Chain, IsWalk, Walk
<1> HIDE DEF f
<1> DEFINE T == {n \in Nat : n <= MAX_LOCOS => Path(t, c, f[n], n)}
<1>4. 0 \in T
  <2>1. f[0] = <<c>>
    BY <1>1, <1>2 DEF IsWalk
  <2>2. Path(t, c, <<c>>, 0)
    BY DEF Path
  <2> QED
    BY <2>1, <2>2
<1>5. ASSUME NEW n \in Nat, n \in T PROVE n + 1 \in T
  <2> SUFFICES ASSUME n + 1 <= MAX_LOCOS PROVE Path(t, c, f[n + 1], n + 1)
    OBVIOUS
  <2>1. Path(t, c, f[n], n)
    BY <1>1, <1>5
  <2>2. f[n + 1] = Walk(t, f[n])
    <3>1. n + 1 \in 0..MAX_LOCOS /\ n + 1 # 0 /\ (n + 1) - 1 = n
      BY <1>1
    <3>2. \A m \in 0..MAX_LOCOS : f[m] = IF m = 0 THEN <<c>> ELSE Walk(t, f[m - 1])
      BY Zenon, <1>2 DEF IsWalk
    <3> QED
      BY <3>1, <3>2
  <2> QED
    BY <2>1, <2>2, WalkIsPath
<1> HIDE DEF T
<1>6. MAX_LOCOS \in T
  BY <1>1, <1>4, <1>5, SetInduction
<1> QED
  BY <1>1, <1>3, <1>6 DEF T

\* On a chain the numbers rise by one, and all but its first slot have the same lead.
LEMMA PathRanks ==
    ASSUME NEW t \in Table, NEW r \in [Cells -> Nat], Ranked(t, r),
           NEW c \in Cells, NEW w, NEW n \in Nat, Path(t, c, w, n)
    PROVE  \A i \in 1..Len(w) :
              /\ w[i] \in Cells
              /\ r[w[i]] = r[c] + i - 1
              /\ i > 1 => /\ w[i] \in Listed(t)
                          /\ t.slot[w[i]].lead = IF t.slot[c].lead = Null THEN c ELSE t.slot[c].lead
<1>1. w \in Seq(Cells) /\ Len(w) \in Nat /\ \A i \in 1..Len(w) : w[i] \in Cells
  BY LenProperties, ElementOfSeq DEF Path
<1> DEFINE top == IF t.slot[c].lead = Null THEN c ELSE t.slot[c].lead
           Good(i) == /\ r[w[i]] = r[c] + i - 1
                      /\ i > 1 => w[i] \in Listed(t) /\ t.slot[w[i]].lead = top
           T == {k \in Nat : k + 1 <= Len(w) => Good(k + 1)}
<1>2. 0 \in T
  <2>1. w[1] = c
    BY DEF Path
  <2> QED
    BY <2>1
<1>3. ASSUME NEW k \in Nat, k \in T PROVE k + 1 \in T
  <2> SUFFICES ASSUME (k + 1) + 1 <= Len(w) PROVE Good((k + 1) + 1)
    OBVIOUS
  <2>1. k + 1 \in 1..Len(w) /\ k + 1 \in 1..(Len(w) - 1) /\ k + 1 <= Len(w)
    BY <1>1
  <2>2. Good(k + 1)
    BY <1>3, <2>1
  <2> DEFINE d == w[k + 1]
             e == w[(k + 1) + 1]
  <2>3. d \in Cells /\ e = t.slot[d].next /\ e # Null
    BY <2>1, <1>1 DEF Path
  <2>4. /\ e \in Listed(t) /\ r[e] = r[d] + 1
        /\ t.slot[e].lead = IF t.slot[d].lead = Null THEN d ELSE t.slot[d].lead
    <3> HIDE DEF d, e
    <3> QED
      BY <2>3 DEF Ranked
  <2>5. t.slot[e].lead = top
    <3>1. CASE k = 0
      <4>1. d = c
        BY <3>1 DEF Path
      <4> QED
        BY <4>1, <2>4
    <3>2. CASE k # 0
      <4>1. d \in Listed(t) /\ t.slot[d].lead = top
        BY <2>2, <3>2
      <4>2. top # Null
        BY CellFacts
      <4> QED
        BY <4>1, <4>2, <2>4
    <3> QED
      BY <3>1, <3>2
  <2>6. r[e] = r[c] + ((k + 1) + 1) - 1
    <3>1. r[d] = r[c] + (k + 1) - 1 /\ r[c] \in Nat
      BY <2>2
    <3> QED
      BY <3>1, <2>4
  <2> QED
    BY <2>4, <2>5, <2>6
<1> HIDE DEF T
<1>4. \A k \in Nat : k \in T
  BY <1>2, <1>3, SetInduction
<1>5. ASSUME NEW i \in 1..Len(w) PROVE Good(i)
  <2>1. i - 1 \in T /\ i - 1 \in Nat /\ (i - 1) + 1 = i
    BY <1>1, <1>4
  <2> HIDE DEF Good
  <2> QED
    BY <2>1 DEF T
<1> QED
  BY <1>1, <1>5

\* A chain meets no slot twice, and MAX_LOCOS steps are enough to come to its end.
LEMMA ChainEnds ==
    ASSUME NEW t \in Table, NEW r \in [Cells -> Nat], Ranked(t, r), NEW c \in Cells
    PROVE  /\ IsInjective(Chain(t, c))
           /\ Len(Chain(t, c)) \in Nat /\ Len(Chain(t, c)) >= 1
           /\ DOMAIN Chain(t, c) = 1..Len(Chain(t, c))
           /\ t.slot[Chain(t, c)[Len(Chain(t, c))]].next = Null
<1> DEFINE w == Chain(t, c)
<1>1. MAX_LOCOS \in Nat /\ Path(t, c, w, MAX_LOCOS)
  BY SlotAssumption, ChainIsPath
<1> HIDE DEF w
<1>2. w \in Seq(Cells) /\ Len(w) \in Nat /\ Len(w) >= 1 /\ DOMAIN w = 1..Len(w)
  BY <1>1, LenProperties DEF Path
<1>3. \A i \in 1..Len(w) : w[i] \in Cells /\ r[w[i]] = r[c] + i - 1
  BY <1>1, PathRanks
<1>4. \A i, j \in 1..Len(w) : w[i] = w[j] => i = j
  <2> SUFFICES ASSUME NEW i \in 1..Len(w), NEW j \in 1..Len(w), w[i] = w[j] PROVE i = j
    OBVIOUS
  <2>1. r[w[i]] = r[c] + i - 1 /\ r[w[j]] = r[c] + j - 1 /\ r[c] \in Nat /\ i \in Nat /\ j \in Nat
    BY <1>2, <1>3
  <2> QED
    BY <2>1
<1>5. IsInjective(w)
  BY <1>2, <1>4 DEF IsInjective
<1>6. Len(w) # MAX_LOCOS + 1
  <2> SUFFICES ASSUME Len(w) = MAX_LOCOS + 1 PROVE FALSE
    OBVIOUS
  <2>1. /\ IsFiniteSet(1..Len(w)) /\ Cardinality(1..Len(w)) = MAX_LOCOS + 1
        /\ IsFiniteSet(Cells) /\ Cardinality(Cells) = MAX_LOCOS
    <3>1. MAX_LOCOS \in Nat /\ MAX_LOCOS >= 1
      BY SlotAssumption
    <3> QED
      BY <3>1, <1>2, FS_Interval DEF Cells
  <2>2. w \in [1..Len(w) -> Cells]
    BY <1>2, LenProperties
  <2>3. \E x, y \in 1..Len(w) : x # y /\ w[x] = w[y]
    <3>1. Cardinality(Cells) < Cardinality(1..Len(w))
      BY <2>1, <1>1
    <3> QED
      BY <2>1, <2>2, <3>1, FS_PigeonHole
  <2> QED
    BY <2>3, <1>4
<1>7. t.slot[w[Len(w)]].next = Null
  BY <1>1, <1>6 DEF Path
<1> QED
  BY <1>2, <1>5, <1>7 DEF w

\* The chain that starts at a slot without a lead is that slot and its followers.
LEMMA ChainMembers ==
    ASSUME NEW t \in Table, NEW r \in [Cells -> Nat], Ranked(t, r), NEW c \in Cells,
           t.slot[c].lead = Null
    PROVE  Range(Chain(t, c)) = {d \in Cells : d = c \/ t.slot[d].lead = c}
<1> DEFINE w == Chain(t, c)
<1>1. MAX_LOCOS \in Nat /\ Path(t, c, w, MAX_LOCOS)
  BY SlotAssumption, ChainIsPath
<1>2. /\ Len(w) \in Nat /\ Len(w) >= 1 /\ DOMAIN w = 1..Len(w)
      /\ t.slot[w[Len(w)]].next = Null
  BY ChainEnds
<1> HIDE DEF w
<1>3. \A i \in 1..Len(w) : w[i] \in Cells /\ (i > 1 => t.slot[w[i]].lead = c)
  BY <1>1, PathRanks
<1>4. w[1] = c /\ 1 \in 1..Len(w)
  BY <1>1, <1>2 DEF Path
<1>5. ASSUME NEW d \in Range(w) PROVE d \in Cells /\ (d = c \/ t.slot[d].lead = c)
  <2>1. PICK i \in 1..Len(w) : d = w[i]
    BY <1>2 DEF Range
  <2>2. i = 1 \/ i > 1
    BY <1>2
  <2> QED
    BY <2>1, <2>2, <1>3, <1>4
<1> DEFINE T == {n \in Nat : \A d \in Cells : t.slot[d].lead = c /\ r[d] = n => d \in Range(w)}
<1>6. ASSUME NEW d \in Cells, t.slot[d].lead = c
      PROVE  \E p \in Cells : /\ t.slot[p].next = d /\ r[d] = r[p] + 1
                              /\ p = c \/ t.slot[p].lead = c
  <2>1. c # Null /\ d # Null
    BY CellFacts
  <2>2. PICK p \in Cells : t.slot[p].next = d
    BY <1>6, <2>1 DEF Ranked
  <2>3. r[d] = r[p] + 1 /\ t.slot[d].lead = IF t.slot[p].lead = Null THEN p ELSE t.slot[p].lead
    BY <2>1, <2>2 DEF Ranked
  <2> QED
    BY <1>6, <2>2, <2>3
<1>7. ASSUME NEW p \in Range(w), NEW d \in Cells, t.slot[p].next = d PROVE d \in Range(w)
  <2>1. PICK i \in 1..Len(w) : p = w[i]
    BY <1>2 DEF Range
  <2>2. i # Len(w)
    <3>1. t.slot[w[i]].next # Null
      BY <1>7, <2>1, CellFacts
    <3> QED
      BY <3>1, <1>2
  <2>3. i \in 1..(Len(w) - 1) /\ i + 1 \in 1..Len(w)
    <3>1. Len(w) \in Nat
      BY <1>2
    <3> QED
      BY <3>1, <2>2
  <2>4. w[i + 1] = d
    BY <1>1, <1>7, <2>1, <2>3 DEF Path
  <2> QED
    BY <1>2, <2>3, <2>4 DEF Range
<1>8. c \in Range(w)
  BY <1>2, <1>4 DEF Range
<1>9. 0 \in T
  <2> SUFFICES ASSUME NEW d \in Cells, t.slot[d].lead = c, r[d] = 0 PROVE FALSE
    OBVIOUS
  <2>1. PICK p \in Cells : r[d] = r[p] + 1
    BY <1>6
  <2>2. r[p] \in Nat
    OBVIOUS
  <2> QED
    BY <2>1, <2>2
<1>10. ASSUME NEW n \in Nat, n \in T PROVE n + 1 \in T
  <2> SUFFICES ASSUME NEW d \in Cells, t.slot[d].lead = c, r[d] = n + 1 PROVE d \in Range(w)
    OBVIOUS
  <2>1. PICK p \in Cells : /\ t.slot[p].next = d /\ r[d] = r[p] + 1
                           /\ p = c \/ t.slot[p].lead = c
    BY <1>6
  <2>2. r[p] = n
    <3>1. r[p] \in Nat
      OBVIOUS
    <3> QED
      BY <2>1, <3>1
  <2>3. p \in Range(w)
    BY <1>8, <1>10, <2>1, <2>2
  <2> QED
    BY <1>7, <2>1, <2>3
<1> HIDE DEF T
<1>11. \A n \in Nat : n \in T
  BY <1>9, <1>10, SetInduction
<1>12. ASSUME NEW d \in Cells, d = c \/ t.slot[d].lead = c PROVE d \in Range(w)
  <2>1. r[d] \in Nat
    OBVIOUS
  <2> QED
    BY <1>8, <1>11, <1>12, <2>1 DEF T
<1>13. Range(w) = {d \in Cells : d = c \/ t.slot[d].lead = c}
  BY <1>5, <1>12
<1> QED
  BY <1>13 DEF w

\* Pointers that are numbered make well-formed consists.
LEMMA LinkedConsists ==
    ASSUME NEW t \in Table, Linked(t)
    PROVE  ConsistsWellFormed(t)
<1>1. PICK r \in [Cells -> Nat] : Ranked(t, r)
  BY DEF Linked
<1> SUFFICES ASSUME NEW c \in Listed(t)
             PROVE  /\ t.slot[c].lead \in Listed(t) \cup {Null}
                    /\ t.slot[c].next \in Listed(t) \cup {Null}
                    /\ IsInjective(Chain(t, c))
                    /\ \A d \in Listed(t) :
                          t.slot[c].lead = d <=>
                            c # d /\ t.slot[d].lead = Null /\ c \in Range(Chain(t, d))
  BY DEF ConsistsWellFormed
<1>2. Listed(t) \subseteq Cells
  BY ListedFacts
<1>3. t.slot[c].lead \in Listed(t) \cup {Null} /\ t.slot[c].next \in Listed(t) \cup {Null}
  BY <1>1, <1>2 DEF Ranked
<1>4. IsInjective(Chain(t, c))
  BY <1>1, <1>2, ChainEnds
<1>5. ASSUME NEW d \in Listed(t)
      PROVE  t.slot[c].lead = d <=>
                c # d /\ t.slot[d].lead = Null /\ c \in Range(Chain(t, d))
  <2>1. d \in Cells /\ c \in Cells /\ d # Null
    BY <1>2, CellFacts
  <2>2. ASSUME t.slot[c].lead = d
        PROVE  c # d /\ t.slot[d].lead = Null /\ c \in Range(Chain(t, d))
    <3>1. t.slot[d].lead = Null
      BY <1>1, <2>1, <2>2 DEF Ranked
    <3> QED
      BY <1>1, <2>1, <2>2, <3>1, ChainMembers
  <2>3. ASSUME c # d, t.slot[d].lead = Null, c \in Range(Chain(t, d))
        PROVE  t.slot[c].lead = d
    BY <1>1, <2>1, <2>3, ChainMembers
  <2> QED
    BY <2>2, <2>3
<1> QED
  BY <1>3, <1>4, <1>5

-----------------------------------------------------------------------------
(* The lists of slots. *)

LEMMA ConsFacts ==
    ASSUME NEW S, NEW q \in Seq(S), NEW x \in S
    PROVE  /\ Cons(x, q) \in Seq(S) /\ Len(Cons(x, q)) = Len(q) + 1
           /\ Range(Cons(x, q)) = Range(q) \cup {x}
           /\ IsInjective(q) /\ x \notin Range(q) => IsInjective(Cons(x, q))
<1> DEFINE v == Cons(x, q)
<1>1. Len(q) \in Nat /\ DOMAIN q = 1..Len(q)
  BY LenProperties
<1>2. /\ v \in Seq(S) /\ Len(v) = Len(q) + 1
      /\ \A i \in 1..(Len(q) + 1) : v[i] = IF i = 1 THEN x ELSE q[i - 1]
  <2>1. <<x>> \in Seq(S) /\ Len(<<x>>) = 1 /\ <<x>>[1] = x
    OBVIOUS
  <2>2. /\ <<x>> \o q \in Seq(S) /\ Len(<<x>> \o q) = 1 + Len(q)
        /\ \A i \in 1..(1 + Len(q)) :
              (<<x>> \o q)[i] = IF i <= 1 THEN <<x>>[i] ELSE q[i - 1]
    BY <2>1, ConcatProperties
  <2> QED
    BY <1>1, <2>1, <2>2 DEF Cons
<1>3. DOMAIN v = 1..(Len(q) + 1)
  BY <1>2, LenProperties
<1> HIDE DEF v
<1>4. ASSUME NEW y \in Range(v) PROVE y \in Range(q) \cup {x}
  <2>1. PICK i \in 1..(Len(q) + 1) : y = v[i]
    BY <1>3 DEF Range
  <2>2. CASE i = 1
    BY <1>1, <1>2, <2>1, <2>2
  <2>3. CASE i # 1
    <3>1. i - 1 \in DOMAIN q /\ y = q[i - 1]
      BY <1>1, <1>2, <2>1, <2>3
    <3> QED
      BY <3>1 DEF Range
  <2> QED
    BY <2>2, <2>3
<1>5. ASSUME NEW y \in Range(q) PROVE y \in Range(v)
  <2>1. PICK i \in DOMAIN q : y = q[i]
    BY DEF Range
  <2>2. i + 1 \in DOMAIN v /\ v[i + 1] = y
    <3>1. i + 1 \in 1..(Len(q) + 1) /\ i + 1 # 1 /\ (i + 1) - 1 = i
      BY <1>1
    <3> QED
      BY <1>2, <1>3, <2>1, <3>1
  <2> QED
    BY <2>2 DEF Range
<1>6. x \in Range(v)
  <2>1. 1 \in DOMAIN v /\ v[1] = x
    BY <1>1, <1>2, <1>3
  <2> QED
    BY <2>1 DEF Range
<1>7. ASSUME IsInjective(q), x \notin Range(q) PROVE IsInjective(v)
  <2> SUFFICES ASSUME NEW a \in 1..(Len(q) + 1), NEW b \in 1..(Len(q) + 1), v[a] = v[b]
               PROVE  a = b
    BY <1>3 DEF IsInjective
  <2>1. \A i \in DOMAIN q : q[i] # x
    BY <1>7 DEF Range
  <2>2. a \in Nat /\ b \in Nat /\ (a # 1 => a - 1 \in DOMAIN q) /\ (b # 1 => b - 1 \in DOMAIN q)
    BY <1>1
  <2>3. v[a] = (IF a = 1 THEN x ELSE q[a - 1]) /\ v[b] = (IF b = 1 THEN x ELSE q[b - 1])
    BY <1>2
  <2>4. CASE a = 1 \/ b = 1
    BY Zenon, <2>1, <2>2, <2>3, <2>4
  <2>5. CASE a # 1 /\ b # 1
    <3>1. a - 1 = b - 1
      BY Zenon, <1>7, <2>2, <2>3, <2>5 DEF IsInjective
    <3> QED
      BY <2>2, <3>1
  <2> QED
    BY <2>4, <2>5
<1>8. Range(v) = Range(q) \cup {x}
  BY <1>4, <1>5, <1>6
<1> QED
  BY <1>2, <1>7, <1>8 DEF v

LEMMA RemoveFacts ==
    ASSUME NEW S, NEW q \in Seq(S), NEW k \in DOMAIN q, IsInjective(q)
    PROVE  /\ RemoveAt(q, k) \in Seq(S) /\ Len(RemoveAt(q, k)) = Len(q) - 1
           /\ Range(RemoveAt(q, k)) = Range(q) \ {q[k]}
           /\ IsInjective(RemoveAt(q, k))
<1> DEFINE v == RemoveAt(q, k)
           n == Len(q)
<1>1. n \in Nat /\ DOMAIN q = 1..n /\ k \in 1..n /\ n = Len(q)
  BY LenProperties
<1> HIDE DEF n
<1>2. /\ v \in Seq(S) /\ Len(v) = n - 1
      /\ \A i \in 1..(n - 1) : v[i] = IF i < k THEN q[i] ELSE q[i + 1]
  <2> DEFINE a == SubSeq(q, 1, k - 1)
             b == SubSeq(q, k + 1, n)
  <2>1. /\ a \in Seq(S) /\ Len(a) = k - 1
        /\ \A i \in 1..(k - 1) : a[i] = q[i]
    <3>1. /\ a \in Seq(S) /\ Len(a) = IF 1 <= k - 1 THEN (k - 1) - 1 + 1 ELSE 0
          /\ \A i \in 1..(k - 1 - 1 + 1) : a[i] = q[1 + i - 1]
      <4>1. k - 1 \in 1..(n + 1) \/ k - 1 = 0
        BY <1>1
      <4>2. 1 \in 1..(n + 1) /\ k - 1 \in 0..n
        BY <1>1
      <4> QED
        BY <1>1, <4>2, SubSeqProperties
    <3> QED
      BY <3>1, <1>1
  <2>2. /\ b \in Seq(S) /\ Len(b) = n - k
        /\ \A i \in 1..(n - k) : b[i] = q[k + i]
    <3>1. k + 1 \in 1..(n + 1) /\ n \in 0..n
      BY <1>1
    <3>2. /\ b \in Seq(S) /\ Len(b) = IF k + 1 <= n THEN n - (k + 1) + 1 ELSE 0
          /\ \A i \in 1..(n - (k + 1) + 1) : b[i] = q[(k + 1) + i - 1]
      BY <1>1, <3>1, SubSeqProperties
    <3>3. n - (k + 1) + 1 = n - k /\ (k + 1 <= n \/ n - k = 0)
      BY <1>1
    <3>4. \A i \in 1..(n - k) : (k + 1) + i - 1 = k + i
      BY <1>1
    <3> HIDE DEF b
    <3> QED
      BY <3>2, <3>3, <3>4
  <2> HIDE DEF a, b
  <2>3. /\ a \o b \in Seq(S) /\ Len(a \o b) = Len(a) + Len(b)
        /\ \A i \in 1..(Len(a) + Len(b)) :
              (a \o b)[i] = IF i <= Len(a) THEN a[i] ELSE b[i - Len(a)]
    BY Zenon, <2>1, <2>2, ConcatProperties
  <2>4. v = a \o b
    BY DEF RemoveAt, a, b, n
  <2> HIDE DEF v
  <2>5. ASSUME NEW i \in 1..(n - 1) PROVE v[i] = IF i < k THEN q[i] ELSE q[i + 1]
    <3>1. i \in 1..(Len(a) + Len(b))
      BY <1>1, <2>1, <2>2
    <3>2. CASE i < k
      <4>1. i \in 1..(k - 1) /\ i <= Len(a)
        BY <1>1, <2>1, <3>2
      <4> QED
        BY <2>1, <2>3, <2>4, <3>1, <3>2, <4>1
    <3>3. CASE ~(i < k)
      <4>1. i - Len(a) \in 1..(n - k) /\ ~(i <= Len(a)) /\ k + (i - Len(a)) = i + 1
        BY <1>1, <2>1, <3>3
      <4> QED
        BY <2>2, <2>3, <2>4, <3>1, <3>3, <4>1
    <3> QED
      BY <3>2, <3>3
  <2> QED
    <3>1. Len(a) + Len(b) = n - 1
      BY <1>1, <2>1, <2>2
    <3> QED
      BY <2>3, <2>4, <2>5, <3>1
<1>3. DOMAIN v = 1..(n - 1)
  BY <1>2, LenProperties
<1> HIDE DEF v
<1>4. ASSUME NEW i \in 1..(n - 1)
      PROVE  \E j \in 1..n : v[i] = q[j] /\ j # k /\ j = IF i < k THEN i ELSE i + 1
  <2>1. CASE i < k
    BY <1>1, <1>2, <2>1
  <2>2. CASE ~(i < k)
    <3>1. i + 1 \in 1..n /\ i + 1 # k
      BY <1>1, <2>2
    <3> QED
      BY <1>2, <2>2, <3>1
  <2> QED
    BY <2>1, <2>2
<1>5. ASSUME NEW y \in Range(v) PROVE y \in Range(q) \ {q[k]}
  <2>1. PICK i \in 1..(n - 1) : y = v[i]
    BY <1>3 DEF Range
  <2>2. PICK j \in 1..n : v[i] = q[j] /\ j # k
    BY <1>4
  <2> QED
    BY <1>1, <2>1, <2>2 DEF Range, IsInjective
<1>6. ASSUME NEW y \in Range(q) \ {q[k]} PROVE y \in Range(v)
  <2>1. PICK j \in 1..n : y = q[j]
    BY <1>1 DEF Range
  <2>2. j # k
    BY <2>1
  <2>3. \E i \in 1..(n - 1) : v[i] = q[j]
    <3>1. CASE j < k
      <4>1. j \in 1..(n - 1)
        BY <1>1, <3>1
      <4> QED
        BY <1>2, <3>1, <4>1
    <3>2. CASE j > k
      <4>1. j - 1 \in 1..(n - 1) /\ ~(j - 1 < k) /\ (j - 1) + 1 = j
        BY <1>1, <3>2
      <4> QED
        BY <1>2, <4>1
    <3> QED
      BY <1>1, <2>2, <3>1, <3>2
  <2> QED
    BY <1>3, <2>1, <2>3 DEF Range
<1>7. IsInjective(v)
  <2> SUFFICES ASSUME NEW a \in 1..(n - 1), NEW b \in 1..(n - 1), v[a] = v[b] PROVE a = b
    BY <1>3 DEF IsInjective
  <2>1. PICK i \in 1..n : v[a] = q[i] /\ i = IF a < k THEN a ELSE a + 1
    BY <1>4
  <2>2. PICK j \in 1..n : v[b] = q[j] /\ j = IF b < k THEN b ELSE b + 1
    BY <1>4
  <2>3. i = j
    BY ZenonT(30), <1>1, <2>1, <2>2 DEF IsInjective
  <2> QED
    BY <1>1, <2>1, <2>2, <2>3
<1>8. Range(v) = Range(q) \ {q[k]}
  BY <1>5, <1>6
<1> QED
  BY <1>2, <1>7, <1>8 DEF v, n

LEMMA TailFacts ==
    ASSUME NEW S, NEW q \in Seq(S), q # <<>>, IsInjective(q)
    PROVE  /\ Tail(q) \in Seq(S) /\ Len(Tail(q)) = Len(q) - 1 /\ q[1] \in S
           /\ Len(q) \in Nat \ {0}
           /\ Range(Tail(q)) = Range(q) \ {q[1]} /\ q[1] \in Range(q)
           /\ IsInjective(Tail(q))
<1>1. Len(q) \in Nat \ {0} /\ DOMAIN q = 1..Len(q) /\ 1 \in DOMAIN q
  BY LenProperties, EmptySeq
<1>2. /\ Tail(q) \in Seq(S) /\ Len(Tail(q)) = Len(q) - 1
      /\ \A i \in 1..(Len(q) - 1) : Tail(q)[i] = q[i + 1]
  BY HeadTailProperties, LenProperties
<1>3. DOMAIN Tail(q) = 1..(Len(q) - 1)
  BY <1>2, LenProperties
<1>4. Range(Tail(q)) = Range(q) \ {q[1]}
  <2>1. ASSUME NEW y \in Range(Tail(q)) PROVE y \in Range(q) \ {q[1]}
    <3>1. PICK i \in 1..(Len(q) - 1) : y = q[i + 1]
      BY <1>2, <1>3 DEF Range
    <3>2. i + 1 \in DOMAIN q /\ i + 1 # 1
      BY <1>1
    <3> QED
      BY <1>1, <3>1, <3>2 DEF Range, IsInjective
  <2>2. ASSUME NEW y \in Range(q) \ {q[1]} PROVE y \in Range(Tail(q))
    <3>1. PICK j \in DOMAIN q : y = q[j]
      BY DEF Range
    <3>2. j - 1 \in 1..(Len(q) - 1) /\ (j - 1) + 1 = j
      BY <1>1, <2>2, <3>1
    <3>3. Tail(q)[j - 1] = y
      BY <1>2, <3>1, <3>2
    <3> QED
      BY <1>3, <3>2, <3>3 DEF Range
  <2> QED
    BY <2>1, <2>2
<1>5. IsInjective(Tail(q))
  <2> SUFFICES ASSUME NEW a \in 1..(Len(q) - 1), NEW b \in 1..(Len(q) - 1), q[a + 1] = q[b + 1]
               PROVE  a = b
    BY <1>2, <1>3 DEF IsInjective
  <2>1. a + 1 \in DOMAIN q /\ b + 1 \in DOMAIN q
    BY <1>1
  <2> QED
    BY <2>1 DEF IsInjective
<1>6. q[1] \in Range(q) /\ q[1] \in S
  BY <1>1, ElementOfSeq DEF Range
<1> QED
  BY <1>1, <1>2, <1>4, <1>5, <1>6

-----------------------------------------------------------------------------
(* LocoSlot: finding, making and forgetting slots. *)

LEMMA FindFacts ==
    ASSUME NEW t \in Table, TableWellFormed(t), NEW id
    PROVE  /\ Find(t, id) \in Listed(t) \cup {Null}
           /\ Find(t, id) \in Cells \cup {Null}
           /\ Find(t, id) # Null => t.slot[Find(t, id)].loco = id /\ id # 0
           /\ \A c \in Listed(t) : t.slot[c].loco = id => Find(t, id) = c /\ Find(t, id) # Null
<1>1. Listed(t) \subseteq Cells /\ Null \notin Cells
  BY ListedFacts, CellFacts
<1>2. CASE \E c \in Listed(t) : t.slot[c].loco = id
  <2>1. Find(t, id) = CHOOSE c \in Listed(t) : t.slot[c].loco = id
    BY <1>2, Zenon DEF Find
  <2>2. Find(t, id) \in Listed(t) /\ t.slot[Find(t, id)].loco = id
    BY <1>2, <2>1, Zenon
  <2> QED
    BY <1>1, <2>2 DEF TableWellFormed
<1>3. CASE ~(\E c \in Listed(t) : t.slot[c].loco = id)
  <2>1. Find(t, id) = Null
    BY <1>3, Zenon DEF Find
  <2> QED
    BY <1>3, <2>1
<1> QED
  BY <1>2, <1>3

\* Which cells are listed and where their pointers lead is all that matters to a consist.
LEMMA RankedKept ==
    ASSUME NEW t \in Table, NEW u \in Table, NEW r \in [Cells -> Nat], Ranked(t, r),
           Listed(t) \subseteq Listed(u),
           \A c \in Cells : u.slot[c].lead = t.slot[c].lead /\ u.slot[c].next = t.slot[c].next
    PROVE  Ranked(u, r)
<1>1. \A c \in Cells : c \notin Listed(u) => u.slot[c].lead = Null /\ u.slot[c].next = Null
  BY DEF Ranked
<1>2. ASSUME NEW c \in Cells, u.slot[c].next # Null
      PROVE  /\ u.slot[c].next \in Listed(u)
             /\ u.slot[u.slot[c].next].lead = IF u.slot[c].lead = Null THEN c ELSE u.slot[c].lead
             /\ r[u.slot[c].next] = r[c] + 1
  <2>1. t.slot[c].next \in Cells
    BY <1>2, SlotFacts
  <2> QED
    BY <1>2, <2>1 DEF Ranked
<1>3. \A c, d \in Cells : u.slot[c].next = u.slot[d].next /\ u.slot[c].next # Null => c = d
  BY DEF Ranked
<1>4. ASSUME NEW c \in Cells, u.slot[c].lead # Null
      PROVE  /\ u.slot[c].lead \in Listed(u)
             /\ u.slot[u.slot[c].lead].lead = Null
             /\ \E p \in Cells : u.slot[p].next = c
  <2>1. t.slot[c].lead \in Cells
    BY <1>4, SlotFacts
  <2>2. PICK p \in Cells : t.slot[p].next = c
    BY <1>4 DEF Ranked
  <2>3. u.slot[p].next = c
    BY <2>2
  <2> QED
    BY <1>4, <2>1, <2>3 DEF Ranked
<1> QED
  BY <1>1, <1>2, <1>3, <1>4 DEF Ranked

\* The table u is t, or t with one more slot, which prepare has made for id.
Grown(t, u, id) ==
    /\ u \in Table /\ TableWellFormed(u)
    /\ Listed(t) \subseteq Listed(u)
    /\ \A c \in Cells : u.slot[c] = IF c \in Listed(u) /\ c \notin Listed(t)
                                    THEN Prepared(id) ELSE t.slot[c]
    /\ u = t \/ u.modified

LEMMA PreparedFacts ==
    ASSUME NEW id \in Nat
    PROVE  Prepared(id) \in Slot /\ Prepared(id).loco = id
           /\ Prepared(id).lead = Null /\ Prepared(id).next = Null
<1>1. \A b \in BOOLEAN : Code(0, b) \in SpeedCode
  BY SlotAssumption DEF Code, SpeedCode
<1>2. Null \in 0..MAX_LOCOS /\ UseDefault \in Nat
  BY SlotAssumption DEF Null
<1> HIDE DEF Null
<1> QED
  BY Zenon, <1>1, <1>2 DEF Prepared, Slot

LEMMA PrepareGrows ==
    ASSUME NEW t \in Table, TableWellFormed(t), NEW id \in Nat, id # 0, Find(t, id) = Null,
           NEW c \in Cells, c \notin Listed(t),
           NEW rec \in Seq(Cells), NEW n \in Nat, n <= MAX_LOCOS,
           IsInjective(rec), Range(rec) \subseteq Recycled(t), c \notin Range(rec),
           Len(t.list) + 1 + Len(rec) = n,
           NEW u, u = [list |-> Cons(c, t.list), recycler |-> rec, count |-> n,
                       modified |-> TRUE, slot |-> [t.slot EXCEPT ![c] = Prepared(id)]]
    PROVE  Grown(t, u, id)
<1>1. /\ t.list \in Seq(Cells) /\ t.slot \in [Cells -> Slot] /\ Listed(t) \subseteq Cells
      /\ Len(t.list) \in Nat
  BY ListedFacts DEF Table
<1>2. /\ Cons(c, t.list) \in Seq(Cells) /\ Len(Cons(c, t.list)) = Len(t.list) + 1
      /\ Range(Cons(c, t.list)) = Listed(t) \cup {c}
      /\ IsInjective(Cons(c, t.list))
  BY Zenon, <1>1, ConsFacts DEF Listed, TableWellFormed
<1>3. /\ u.list = Cons(c, t.list) /\ u.recycler = rec /\ u.count = n /\ u.modified = TRUE
      /\ u.slot = [t.slot EXCEPT ![c] = Prepared(id)]
  OBVIOUS
<1>4. /\ u.slot \in [Cells -> Slot] /\ u.slot[c] = Prepared(id)
      /\ \A d \in Cells : d # c => u.slot[d] = t.slot[d]
  BY <1>1, <1>3, PreparedFacts
<1>5. u \in Table
  BY <1>2, <1>3, <1>4 DEF Table
<1>6. Listed(u) = Listed(t) \cup {c} /\ Recycled(u) = Range(rec)
  BY <1>2, <1>3 DEF Listed, Recycled
<1>7. \A d \in Listed(t) : t.slot[d].loco # id
  BY FindFacts
<1>8. TableWellFormed(u)
  <2>1. IsInjective(u.list) /\ IsInjective(u.recycler) /\ Listed(u) \cap Recycled(u) = {}
    BY ZenonT(30), <1>2, <1>3, <1>6 DEF TableWellFormed
  <2>2. Len(u.list) + Len(u.recycler) = u.count /\ u.count <= MAX_LOCOS
    BY Zenon, <1>2, <1>3
  <2>3. u.slot[c].loco = id
    BY <1>4, PreparedFacts
  <2>4. \A d \in Listed(t) : u.slot[d].loco = t.slot[d].loco
    BY <1>1, <1>4
  <2>5. ASSUME NEW d \in Listed(u) PROVE u.slot[d].loco # 0
    BY Zenon, <1>6, <2>3, <2>4 DEF TableWellFormed
  <2>6. ASSUME NEW d \in Listed(u), NEW e \in Listed(u), u.slot[d].loco = u.slot[e].loco
        PROVE  d = e
    <3>1. \A x, y \in Listed(t) : t.slot[x].loco = t.slot[y].loco => x = y
      BY DEF TableWellFormed
    <3>2. CASE d = c \/ e = c
      BY ZenonT(30), <1>6, <1>7, <2>3, <2>4, <2>6, <3>2
    <3>3. CASE d \in Listed(t) /\ e \in Listed(t)
      BY <2>4, <2>6, <3>1, <3>3
    <3> QED
      BY Zenon, <1>6, <3>2, <3>3
  <2> QED
    BY Zenon, <2>1, <2>2, <2>5, <2>6 DEF TableWellFormed
<1>9. \A d \in Cells : u.slot[d] = IF d \in Listed(u) /\ d \notin Listed(t)
                                   THEN Prepared(id) ELSE t.slot[d]
  BY Zenon, <1>4, <1>6
<1> QED
  BY Zenon, <1>3, <1>5, <1>6, <1>8, <1>9 DEF Grown

LEMMA UpToFacts ==
    ASSUME NEW n \in Nat PROVE IsFiniteSet(1..n) /\ Cardinality(1..n) = n
<1>1. /\ IsFiniteSet(1..n)
      /\ Cardinality(1..n) = IF 1 > n THEN 0 ELSE n - 1 + 1
  BY FS_Interval
<1> QED
  BY <1>1

\* While slotCount is below MAX_LOCOS there is a cell that is not in use.
LEMMA RoomLeft ==
    ASSUME NEW t \in Table, Len(t.list) < MAX_LOCOS
    PROVE  \E c \in Cells : c \notin Listed(t)
<1> SUFFICES ASSUME Cells \subseteq Listed(t) PROVE FALSE
  OBVIOUS
<1>1. /\ Len(t.list) \in Nat /\ DOMAIN t.list = 1..Len(t.list)
      /\ MAX_LOCOS \in Nat /\ MAX_LOCOS >= 1
  BY ListedFacts, SlotAssumption
<1> DEFINE f == [c \in Cells |-> CHOOSE i \in 1..Len(t.list) : t.list[i] = c]
<1>2. \A c \in Cells : f[c] \in 1..Len(t.list) /\ t.list[f[c]] = c
  <2> SUFFICES ASSUME NEW c \in Cells PROVE f[c] \in 1..Len(t.list) /\ t.list[f[c]] = c
    OBVIOUS
  <2>1. \E i \in 1..Len(t.list) : t.list[i] = c
    BY <1>1 DEF Listed, Range
  <2> QED
    BY <2>1, Zenon
<1>3. f \in [Cells -> 1..Len(t.list)]
  BY <1>2
<1> HIDE DEF f
<1>4. /\ IsFiniteSet(Cells) /\ IsFiniteSet(1..Len(t.list))
      /\ Cardinality(1..Len(t.list)) < Cardinality(Cells)
  <2>1. IsFiniteSet(Cells) /\ Cardinality(Cells) = MAX_LOCOS
    BY <1>1, UpToFacts DEF Cells
  <2>2. IsFiniteSet(1..Len(t.list)) /\ Cardinality(1..Len(t.list)) = Len(t.list)
    BY <1>1, UpToFacts
  <2> QED
    BY <1>1, <2>1, <2>2
<1>5. \E x, y \in Cells : x # y /\ f[x] = f[y]
  BY <1>3, <1>4, FS_PigeonHole
<1> QED
  BY <1>2, <1>5

LEMMA GetSlotGrows ==
    ASSUME NEW t \in Table, TableWellFormed(t), NEW id \in Nat
    PROVE  Grown(t, getSlot(t, id), id)
<1>1. /\ t.list \in Seq(Cells) /\ t.recycler \in Seq(Cells) /\ t.count \in Nat
      /\ Len(t.list) \in Nat /\ Len(t.recycler) \in Nat
      /\ t = [list |-> t.list, recycler |-> t.recycler, count |-> t.count,
              modified |-> t.modified, slot |-> t.slot]
  BY ListedFacts DEF Table
<1>2. /\ IsInjective(t.recycler) /\ Listed(t) \cap Recycled(t) = {}
      /\ Len(t.list) + Len(t.recycler) = t.count /\ t.count <= MAX_LOCOS
  BY Zenon DEF TableWellFormed
<1>3. CASE getSlot(t, id) = t
  BY <1>3 DEF Grown
<1>4. CASE id # 0 /\ Find(t, id) = Null /\ t.recycler # <<>>
  <2> DEFINE c == t.recycler[1]
             u == [list |-> Cons(c, t.list), recycler |-> Tail(t.recycler), count |-> t.count,
                   modified |-> TRUE, slot |-> [t.slot EXCEPT ![c] = Prepared(id)]]
  <2>1. getSlot(t, id) = u
    <3>1. getSlot(t, id) = prepare([t EXCEPT !.recycler = Tail(t.recycler)], c, id)
      BY <1>4 DEF getSlot
    <3>2. \A x : [t EXCEPT !.recycler = x] =
                     [list |-> t.list, recycler |-> x, count |-> t.count,
                      modified |-> t.modified, slot |-> t.slot]
      BY DEF Table
    <3> QED
      BY ZenonT(30), <3>1, <3>2 DEF prepare
  <2>2. /\ Tail(t.recycler) \in Seq(Cells) /\ Len(Tail(t.recycler)) = Len(t.recycler) - 1
        /\ c \in Cells /\ Len(t.recycler) \in Nat \ {0}
        /\ Range(Tail(t.recycler)) = Recycled(t) \ {c} /\ c \in Recycled(t)
        /\ IsInjective(Tail(t.recycler))
    BY <1>1, <1>2, <1>4, TailFacts DEF Recycled
  <2>3. Len(t.list) + 1 + Len(Tail(t.recycler)) = t.count
    BY <1>1, <1>2, <2>2
  <2>4. c \notin Listed(t) /\ c \notin Range(Tail(t.recycler))
        /\ Range(Tail(t.recycler)) \subseteq Recycled(t)
    BY <1>2, <2>2
  <2> HIDE DEF c
  <2>5. Grown(t, u, id)
    BY Zenon, <1>1, <1>2, <1>4, <2>2, <2>3, <2>4, PrepareGrows
  <2> QED
    BY <2>1, <2>5
<1>5. CASE id # 0 /\ Find(t, id) = Null /\ t.recycler = <<>> /\ t.count < MAX_LOCOS
  <2> DEFINE c == CHOOSE c \in Cells : c \notin Listed(t)
             u == [list |-> Cons(c, t.list), recycler |-> t.recycler, count |-> t.count + 1,
                   modified |-> TRUE, slot |-> [t.slot EXCEPT ![c] = Prepared(id)]]
  <2>1. getSlot(t, id) = u
    <3>1. getSlot(t, id) = prepare([t EXCEPT !.count = t.count + 1], c, id)
      BY <1>5, Zenon DEF getSlot
    <3>2. [t EXCEPT !.count = t.count + 1] =
             [list |-> t.list, recycler |-> t.recycler, count |-> t.count + 1,
              modified |-> t.modified, slot |-> t.slot]
      BY DEF Table
    <3> HIDE DEF c
    <3> QED
      BY ZenonT(30), <3>1, <3>2 DEF prepare
  <2>2. Len(t.recycler) = 0 /\ Len(t.list) < MAX_LOCOS
    BY <1>1, <1>2, <1>5, EmptySeq, SlotAssumption
  <2>3. c \in Cells /\ c \notin Listed(t)
    BY <2>2, RoomLeft, Zenon
  <2>4. Range(t.recycler) \subseteq Recycled(t) /\ c \notin Range(t.recycler)
    BY <1>5 DEF Recycled, Range
  <2>5. Len(t.list) + 1 + Len(t.recycler) = t.count + 1 /\ t.count + 1 \in Nat
        /\ t.count + 1 <= MAX_LOCOS
    BY <1>1, <1>2, <1>5, SlotAssumption
  <2> HIDE DEF c
  <2>6. Grown(t, u, id)
    BY Zenon, <1>1, <1>2, <1>5, <2>3, <2>4, <2>5, PrepareGrows
  <2> QED
    BY <2>1, <2>6
<1>6. CASE ~(id # 0 /\ Find(t, id) = Null /\ t.recycler # <<>>)
           /\ ~(id # 0 /\ Find(t, id) = Null /\ t.recycler = <<>> /\ t.count < MAX_LOCOS)
  <2>1. getSlot(t, id) = t
    BY <1>6, Zenon DEF getSlot
  <2> QED
    BY <2>1, <1>3
<1> QED
  BY <1>4, <1>5, <1>6

LEMMA GrownRanked ==
    ASSUME NEW t \in Table, NEW u, NEW id \in Nat, Grown(t, u, id),
           NEW r \in [Cells -> Nat], Ranked(t, r)
    PROVE  Ranked(u, r)
<1>1. u \in Table /\ Listed(t) \subseteq Listed(u)
  BY DEF Grown
<1>2. \A c \in Cells : u.slot[c].lead = t.slot[c].lead /\ u.slot[c].next = t.slot[c].next
  <2> SUFFICES ASSUME NEW c \in Cells
               PROVE  u.slot[c].lead = t.slot[c].lead /\ u.slot[c].next = t.slot[c].next
    OBVIOUS
  <2>1. CASE c \in Listed(u) /\ c \notin Listed(t)
    <3>1. u.slot[c] = Prepared(id)
      BY <2>1 DEF Grown
    <3>2. t.slot[c].lead = Null /\ t.slot[c].next = Null
      BY <2>1 DEF Ranked
    <3> QED
      BY <3>1, <3>2, PreparedFacts
  <2>2. CASE ~(c \in Listed(u) /\ c \notin Listed(t))
    BY <2>2 DEF Grown
  <2> QED
    BY <2>1, <2>2
<1> QED
  BY <1>1, <1>2, RankedKept

\* From t to u the contents of slots have changed, but not the lists and the locos.
SlotsOnly(t, u) ==
    /\ u \in Table /\ u.list = t.list /\ u.recycler = t.recycler /\ u.count = t.count
    /\ u.modified = t.modified
    /\ \A c \in Cells : u.slot[c].loco = t.slot[c].loco

LEMMA SlotsOnlyFacts ==
    ASSUME NEW t \in Table, TableWellFormed(t), NEW u, SlotsOnly(t, u)
    PROVE  /\ TableWellFormed(u) /\ Listed(u) = Listed(t)
           /\ \A id : Find(u, id) = Find(t, id)
<1>1. Listed(u) = Listed(t) /\ Recycled(u) = Recycled(t)
  BY DEF SlotsOnly, Listed, Recycled
<1>2. \A c \in Listed(t) : c \in Cells /\ u.slot[c].loco = t.slot[c].loco
  BY ListedFacts DEF SlotsOnly
<1>3. TableWellFormed(u)
  <2>1. IsInjective(u.list) /\ IsInjective(u.recycler) /\ Listed(u) \cap Recycled(u) = {}
    BY <1>1 DEF SlotsOnly, TableWellFormed
  <2>2. Len(u.list) + Len(u.recycler) = u.count /\ u.count <= MAX_LOCOS
    BY Zenon DEF SlotsOnly, TableWellFormed
  <2>3. \A c, d \in Listed(u) : u.slot[c].loco = u.slot[d].loco => c = d
    BY <1>1, <1>2 DEF TableWellFormed
  <2>4. \A c \in Listed(u) : u.slot[c].loco # 0
    BY <1>1, <1>2 DEF TableWellFormed
  <2> QED
    BY Zenon, <2>1, <2>2, <2>3, <2>4 DEF TableWellFormed
<1>4. ASSUME NEW id PROVE Find(u, id) = Find(t, id)
  <2>1. u \in Table
    BY DEF SlotsOnly
  <2>2. /\ Find(u, id) \in Listed(t) \cup {Null}
        /\ Find(u, id) # Null => u.slot[Find(u, id)].loco = id
        /\ \A c \in Listed(t) : u.slot[c].loco = id => Find(u, id) = c /\ Find(u, id) # Null
    BY <1>1, <1>3, <2>1, FindFacts
  <2>3. /\ Find(t, id) \in Listed(t) \cup {Null}
        /\ Find(t, id) # Null => t.slot[Find(t, id)].loco = id
        /\ \A c \in Listed(t) : t.slot[c].loco = id => Find(t, id) = c /\ Find(t, id) # Null
    BY FindFacts
  <2> QED
    BY <1>2, <2>2, <2>3
<1> QED
  BY <1>1, <1>3, <1>4

\* A slot that is in no consist is nobody's lead and nobody's next.
LEMMA NobodyPointsAt ==
    ASSUME NEW t \in Table, NEW r \in [Cells -> Nat], Ranked(t, r), NEW c \in Cells,
           t.slot[c].lead = Null, t.slot[c].next = Null
    PROVE  \A d \in Cells : t.slot[d].lead # c /\ t.slot[d].next # c
<1> SUFFICES ASSUME NEW d \in Cells PROVE t.slot[d].lead # c /\ t.slot[d].next # c
  OBVIOUS
<1>1. c # Null /\ d # Null
  BY CellFacts
<1>2. t.slot[d].next # c
  <2> SUFFICES ASSUME t.slot[d].next = c PROVE FALSE
    OBVIOUS
  <2>1. t.slot[c].lead = IF t.slot[d].lead = Null THEN d ELSE t.slot[d].lead
    BY <1>1 DEF Ranked
  <2> QED
    BY <1>1, <2>1
<1>3. t.slot[d].lead # c
  <2> SUFFICES ASSUME t.slot[d].lead = c PROVE FALSE
    OBVIOUS
  <2> DEFINE w == Chain(t, c)
  <2>1. d \in Range(w)
    BY ChainMembers
  <2>2. Path(t, c, w, MAX_LOCOS) /\ Len(w) \in Nat /\ Len(w) >= 1 /\ DOMAIN w = 1..Len(w)
    BY ChainIsPath, ChainEnds
  <2> HIDE DEF w
  <2>3. Len(w) = 1
    <3> SUFFICES ASSUME Len(w) # 1 PROVE FALSE
      OBVIOUS
    <3>1. Len(w) \in Nat /\ Len(w) >= 1
      BY <2>2
    <3>2. \A n \in Nat : n >= 1 /\ n # 1 => 1 \in 1..(n - 1)
      OBVIOUS
    <3>3. 1 \in 1..(Len(w) - 1)
      BY Zenon, <3>1, <3>2
    <3> QED
      BY <2>2, <3>3 DEF Path
  <2>4. d = c
    BY <2>1, <2>2, <2>3 DEF Path, Range
  <2> QED
    BY <1>1, <2>4
<1> QED
  BY <1>2, <1>3

-----------------------------------------------------------------------------
(* DCCConsist. *)

LEMMA UnchainKeeps ==
    ASSUME NEW t \in Table, TableWellFormed(t), NEW r \in [Cells -> Nat], Ranked(t, r),
           NEW top \in Cells, t.slot[top].lead = Null
    PROVE  /\ SlotsOnly(t, Unchain(t, top)) /\ Ranked(Unchain(t, top), r)
           /\ \A d \in Cells :
                 d = top \/ t.slot[d].lead = top =>
                    Unchain(t, top).slot[d].lead = Null /\ Unchain(t, top).slot[d].next = Null
           /\ \A d \in Cells :
                 ~(d = top \/ t.slot[d].lead = top) => Unchain(t, top).slot[d] = t.slot[d]
<1> DEFINE members == Range(Chain(t, top))
           Free(s) == [s EXCEPT !.lead = Null, !.next = Null, !.rev = FALSE]
           u == Unchain(t, top)
<1>1. members = {d \in Cells : d = top \/ t.slot[d].lead = top}
  BY ChainMembers
<1> HIDE DEF members
<1>2. \A s \in Slot : /\ Free(s) \in Slot /\ Free(s).lead = Null /\ Free(s).next = Null
                      /\ Free(s).loco = s.loco
  <2>1. Null \in 0..MAX_LOCOS
    BY SlotAssumption DEF Null
  <2> HIDE DEF Null
  <2> QED
    BY Zenon, <2>1 DEF Slot
<1>3. u = [t EXCEPT !.slot = [d \in Cells |-> IF d \in members THEN Free(t.slot[d])
                                                               ELSE t.slot[d]]]
  BY DEF Unchain, members
<1> HIDE DEF u, Free
<1>4. /\ u.list = t.list /\ u.recycler = t.recycler /\ u.count = t.count /\ u.modified = t.modified
      /\ u.slot = [d \in Cells |-> IF d \in members THEN Free(t.slot[d]) ELSE t.slot[d]]
  BY <1>3 DEF Table
<1>5. \A d \in Cells : u.slot[d] = IF d \in members THEN Free(t.slot[d]) ELSE t.slot[d]
  BY <1>4
<1>6. \A d \in Cells : t.slot[d] \in Slot
  BY SlotFacts
<1>7. u \in Table
  <2>1. u.slot \in [Cells -> Slot]
    BY <1>2, <1>4, <1>6
  <2>2. u = [list |-> t.list, recycler |-> t.recycler, count |-> t.count,
             modified |-> t.modified, slot |-> u.slot]
    BY Zenon, <1>3, <1>4 DEF Table
  <2> QED
    BY <2>1, <2>2 DEF Table
<1>8. SlotsOnly(t, u)
  BY <1>2, <1>4, <1>5, <1>6, <1>7 DEF SlotsOnly
<1>9. \A d \in Cells : d \in members => u.slot[d].lead = Null /\ u.slot[d].next = Null
  BY <1>2, <1>5, <1>6
<1>10. \A d \in Cells : d \notin members => u.slot[d] = t.slot[d]
  BY <1>5
<1>11. Listed(u) = Listed(t) /\ top # Null /\ Listed(t) \subseteq Cells
  BY SMTT(30), <1>8, SlotsOnlyFacts, CellFacts, ListedFacts
<1>12. Ranked(u, r)
  <2>1. \A c \in Cells : c \notin Listed(u) => u.slot[c].lead = Null /\ u.slot[c].next = Null
    BY <1>9, <1>10, <1>11 DEF Ranked
  <2>2. ASSUME NEW c \in Cells, u.slot[c].next # Null
        PROVE  /\ u.slot[c].next \in Listed(u)
               /\ u.slot[u.slot[c].next].lead = IF u.slot[c].lead = Null THEN c ELSE u.slot[c].lead
               /\ r[u.slot[c].next] = r[c] + 1
    <3>1. c \notin members /\ u.slot[c] = t.slot[c]
      BY <1>9, <1>10, <2>2
    <3> DEFINE d == t.slot[c].next
    <3>2. /\ d \in Listed(t) /\ r[d] = r[c] + 1
          /\ t.slot[d].lead = IF t.slot[c].lead = Null THEN c ELSE t.slot[c].lead
      BY <2>2, <3>1 DEF Ranked
    <3> HIDE DEF d
    <3>3. t.slot[d].lead # top /\ t.slot[d].lead # Null /\ d \in Cells
      BY <1>1, <1>11, <3>1, <3>2, CellFacts
    <3>4. d \notin members
      BY <1>1, <3>3
    <3> QED
      BY <1>10, <1>11, <3>1, <3>2, <3>3, <3>4 DEF d
  <2>3. \A c, d \in Cells : u.slot[c].next = u.slot[d].next /\ u.slot[c].next # Null => c = d
    BY <1>9, <1>10 DEF Ranked
  <2>4. ASSUME NEW c \in Cells, u.slot[c].lead # Null
        PROVE  /\ u.slot[c].lead \in Listed(u)
               /\ u.slot[u.slot[c].lead].lead = Null
               /\ \E p \in Cells : u.slot[p].next = c
    <3>1. c \notin members /\ u.slot[c] = t.slot[c]
      BY <1>9, <1>10, <2>4
    <3>2. /\ t.slot[c].lead \in Listed(t) /\ t.slot[t.slot[c].lead].lead = Null
          /\ \E p \in Cells : t.slot[p].next = c
      BY <2>4, <3>1 DEF Ranked
    <3>3. PICK p \in Cells : t.slot[p].next = c
      BY <3>2
    <3>4. t.slot[c].lead = IF t.slot[p].lead = Null THEN p ELSE t.slot[p].lead
      BY <3>3, CellFacts DEF Ranked
    <3>5. p \notin members
      BY <1>1, <1>11, <3>1, <3>4
    <3>6. u.slot[p].next = c
      BY <1>10, <3>3, <3>5
    <3>7. u.slot[t.slot[c].lead].lead = Null
      BY <1>9, <1>10, <1>11, <3>2
    <3> QED
      BY <1>11, <3>1, <3>2, <3>6, <3>7
  <2> QED
    BY <2>1, <2>2, <2>3, <2>4 DEF Ranked
<1>13. \A d \in Cells : d \in members <=> d = top \/ t.slot[d].lead = top
  BY <1>1
<1> QED
  BY <1>8, <1>9, <1>10, <1>12, <1>13 DEF u

LEMMA DeleteKeeps ==
    ASSUME NEW t \in Table, TableWellFormed(t), NEW r \in [Cells -> Nat], Ranked(t, r), NEW id
    PROVE  /\ SlotsOnly(t, deleteAnyConsist(t, id)) /\ Ranked(deleteAnyConsist(t, id), r)
           /\ Find(t, id) # Null =>
                /\ deleteAnyConsist(t, id).slot[Find(t, id)].lead = Null
                /\ deleteAnyConsist(t, id).slot[Find(t, id)].next = Null
<1> DEFINE c == Find(t, id)
           top == IF c = Null THEN Null ELSE IF isConsistLead(t.slot[c]) THEN c ELSE t.slot[c].lead
           u == deleteAnyConsist(t, id)
<1>1. c \in Cells \cup {Null}
  BY FindFacts
<1> HIDE DEF c
<1>2. u = IF top = Null THEN t ELSE Unchain(t, top)
  BY DEF deleteAnyConsist, c
<1> HIDE DEF u
<1>3. SlotsOnly(t, t)
  BY DEF SlotsOnly
<1>4. CASE c = Null
  <2>1. u = t
    BY <1>2, <1>4
  <2> QED
    BY <1>3, <1>4, <2>1 DEF u, c
<1>5. CASE c # Null /\ top = Null
  <2>1. u = t
    BY <1>2, <1>5
  <2>2. t.slot[c].lead = Null /\ t.slot[c].next = Null
    BY <1>5 DEF isConsistLead
  <2> QED
    BY <1>3, <2>1, <2>2 DEF u, c
<1>6. CASE c # Null /\ top # Null
  <2>1. u = Unchain(t, top)
    BY <1>2, <1>6
  <2>2. c \in Cells
    BY <1>1, <1>6
  <2>3. top \in Cells /\ t.slot[top].lead = Null /\ (c = top \/ t.slot[c].lead = top)
    <3>1. CASE isConsistLead(t.slot[c])
      BY <1>6, <2>2, <3>1 DEF isConsistLead
    <3>2. CASE ~isConsistLead(t.slot[c])
      <4>1. top = t.slot[c].lead /\ top # Null
        BY <1>6, <3>2
      <4> HIDE DEF top
      <4> QED
        BY <2>2, <4>1, ListedFacts DEF Ranked
    <3> QED
      BY <3>1, <3>2
  <2> HIDE DEF top
  <2>4. /\ SlotsOnly(t, u) /\ Ranked(u, r)
        /\ \A d \in Cells : d = top \/ t.slot[d].lead = top =>
              u.slot[d].lead = Null /\ u.slot[d].next = Null
    BY <2>1, <2>3, UnchainKeeps
  <2>5. u.slot[c].lead = Null /\ u.slot[c].next = Null
    BY <2>2, <2>3, <2>4
  <2> QED
    BY <2>4, <2>5 DEF u, c
<1> QED
  BY <1>4, <1>5, <1>6

LEMMA ForgetKeeps ==
    ASSUME NEW t \in Table, TableWellFormed(t), NEW c \in Listed(t)
    PROVE  /\ forget(t, c) \in Table /\ TableWellFormed(forget(t, c)) /\ forget(t, c).modified
           /\ \A r \in [Cells -> Nat] :
                 Ranked(t, r) /\ t.slot[c].lead = Null /\ t.slot[c].next = Null
                    => Ranked(forget(t, c), r)
<1> DEFINE u == forget(t, c)
           k == Index(t, c)
<1>1. /\ t.list \in Seq(Cells) /\ t.recycler \in Seq(Cells) /\ t.count \in Nat
      /\ t.slot \in [Cells -> Slot] /\ Len(t.list) \in Nat /\ Len(t.recycler) \in Nat
      /\ Listed(t) \subseteq Cells /\ Recycled(t) \subseteq Cells
  BY ListedFacts DEF Table
<1>2. k \in DOMAIN t.list /\ t.list[k] = c
  <2>1. \E i \in DOMAIN t.list : t.list[i] = c
    BY DEF Listed, Range
  <2> QED
    BY <2>1, Zenon DEF Index
<1>3. u = [t EXCEPT !.list = RemoveAt(t.list, k), !.recycler = Cons(c, t.recycler),
                    !.modified = TRUE]
  BY DEF forget
<1> HIDE DEF u, k
<1>4. /\ RemoveAt(t.list, k) \in Seq(Cells) /\ Len(RemoveAt(t.list, k)) = Len(t.list) - 1
      /\ Range(RemoveAt(t.list, k)) = Listed(t) \ {c} /\ IsInjective(RemoveAt(t.list, k))
  BY <1>1, <1>2, RemoveFacts DEF TableWellFormed, Listed
<1>5. c \in Cells /\ c \notin Recycled(t)
  BY <1>1 DEF TableWellFormed
<1>6. /\ Cons(c, t.recycler) \in Seq(Cells) /\ Len(Cons(c, t.recycler)) = Len(t.recycler) + 1
      /\ Range(Cons(c, t.recycler)) = Recycled(t) \cup {c} /\ IsInjective(Cons(c, t.recycler))
  BY Zenon, <1>1, <1>5, ConsFacts DEF TableWellFormed, Recycled
<1>7. /\ u \in Table /\ u.count = t.count /\ u.modified = TRUE /\ u.slot = t.slot
      /\ u.list = RemoveAt(t.list, k) /\ u.recycler = Cons(c, t.recycler)
  <2> DEFINE x == RemoveAt(t.list, k)
             y == Cons(c, t.recycler)
  <2>1. x \in Seq(Cells) /\ y \in Seq(Cells) /\ u = [t EXCEPT !.list = x, !.recycler = y,
                                                        !.modified = TRUE]
    BY <1>3, <1>4, <1>6
  <2> HIDE DEF x, y
  <2>2. /\ u \in Table /\ u.count = t.count /\ u.modified = TRUE /\ u.slot = t.slot
        /\ u.list = x /\ u.recycler = y
    BY Zenon, <2>1 DEF Table
  <2> QED
    BY <2>2 DEF x, y
<1>8. Listed(u) = Listed(t) \ {c} /\ Recycled(u) = Recycled(t) \cup {c}
  BY <1>7, <1>4, <1>6 DEF Listed, Recycled
<1>9. TableWellFormed(u)
  <2>1. IsInjective(u.list) /\ IsInjective(u.recycler) /\ Listed(u) \cap Recycled(u) = {}
    BY <1>7, <1>4, <1>6, <1>8 DEF TableWellFormed
  <2>2. Len(u.list) + Len(u.recycler) = u.count /\ u.count <= MAX_LOCOS
    <3>1. Len(t.list) + Len(t.recycler) = t.count /\ t.count <= MAX_LOCOS
      BY Zenon DEF TableWellFormed
    <3>2. u.count = t.count /\ Len(u.list) = Len(t.list) - 1 /\ Len(u.recycler) = Len(t.recycler) + 1
      BY <1>7, <1>4, <1>6
    <3>3. Len(t.list) \in Nat /\ Len(t.recycler) \in Nat
      BY <1>1
    <3> DEFINE a == Len(t.list)
               b == Len(t.recycler)
               x == Len(u.list)
               y == Len(u.recycler)
    <3>4. a + b = t.count /\ x = a - 1 /\ y = b + 1 /\ a \in Nat /\ b \in Nat
      BY ZenonT(30), <3>1, <3>2, <3>3
    <3>5. x + y = u.count
      <4> HIDE DEF a, b, x, y
      <4> QED
        BY <3>2, <3>4
    <3> QED
      BY Zenon, <3>1, <3>2, <3>5
  <2>3. /\ \A d, e \in Listed(u) : u.slot[d].loco = u.slot[e].loco => d = e
        /\ \A d \in Listed(u) : u.slot[d].loco # 0
    BY <1>7, <1>8 DEF TableWellFormed
  <2> QED
    BY Zenon, <2>1, <2>2, <2>3 DEF TableWellFormed
<1>10. ASSUME NEW r \in [Cells -> Nat], Ranked(t, r), t.slot[c].lead = Null, t.slot[c].next = Null
       PROVE  Ranked(u, r)
  <2>1. \A d \in Cells : t.slot[d].lead # c /\ t.slot[d].next # c
    BY <1>5, <1>10, NobodyPointsAt
  <2>2. \A d \in Cells : d \notin Listed(u) => u.slot[d].lead = Null /\ u.slot[d].next = Null
    BY <1>7, <1>8, <1>10 DEF Ranked
  <2>3. ASSUME NEW d \in Cells, u.slot[d].next # Null
        PROVE  /\ u.slot[d].next \in Listed(u)
               /\ u.slot[u.slot[d].next].lead = IF u.slot[d].lead = Null THEN d ELSE u.slot[d].lead
               /\ r[u.slot[d].next] = r[d] + 1
    <3> DEFINE e == t.slot[d].next
    <3>1. e # Null /\ e # c /\ u.slot[d].next = e
      BY <1>7, <2>1, <2>3
    <3>2. /\ e \in Listed(t) /\ r[e] = r[d] + 1
          /\ t.slot[e].lead = IF t.slot[d].lead = Null THEN d ELSE t.slot[d].lead
      BY <1>10, <3>1 DEF Ranked
    <3> HIDE DEF e
    <3> QED
      BY <1>7, <1>8, <3>1, <3>2
  <2>4. \A d, e \in Cells : u.slot[d].next = u.slot[e].next /\ u.slot[d].next # Null => d = e
    BY <1>7, <1>10 DEF Ranked
  <2>5. ASSUME NEW d \in Cells, u.slot[d].lead # Null
        PROVE  /\ u.slot[d].lead \in Listed(u)
               /\ u.slot[u.slot[d].lead].lead = Null
               /\ \E p \in Cells : u.slot[p].next = d
    BY <1>7, <1>8, <1>10, <2>1, <2>5 DEF Ranked
  <2> QED
    BY <2>2, <2>3, <2>4, <2>5 DEF Ranked
<1> QED
  BY <1>7, <1>7, <1>9, <1>10 DEF u

\* tail is the end of top's consist, or top is in none; add is in none.
Ending(t, top, tail, add) ==
    /\ top \in Listed(t) /\ tail \in Listed(t) /\ add \in Listed(t) /\ add # top
    /\ t.slot[top].lead = Null /\ (tail = top \/ t.slot[tail].lead = top)
    /\ t.slot[tail].next = Null
    /\ t.slot[add].lead = Null /\ t.slot[add].next = Null

\* In u, add follows tail: what both commands do to a consist.
Followed(t, u, top, tail, add) ==
    /\ SlotsOnly(t, u)
    /\ \A d \in Cells : u.slot[d].lead = IF d = add THEN top ELSE t.slot[d].lead
    /\ \A d \in Cells : u.slot[d].next = IF d = tail THEN add ELSE t.slot[d].next

LEMMA FollowKeeps ==
    ASSUME NEW t \in Table, TableWellFormed(t), NEW r \in [Cells -> Nat], Ranked(t, r),
           NEW top, NEW tail, NEW add, Ending(t, top, tail, add),
           NEW u, Followed(t, u, top, tail, add)
    PROVE  Linked(u)
<1> DEFINE q == [r EXCEPT ![add] = r[tail] + 1]
<1>0. /\ top \in Listed(t) /\ tail \in Listed(t) /\ add \in Listed(t) /\ add # top
      /\ t.slot[top].lead = Null /\ (tail = top \/ t.slot[tail].lead = top)
      /\ t.slot[tail].next = Null
      /\ t.slot[add].lead = Null /\ t.slot[add].next = Null
      /\ SlotsOnly(t, u)
  BY DEF Ending, Followed
<1>1. Listed(u) = Listed(t) /\ Listed(t) \subseteq Cells /\ Null \notin Cells
  BY <1>0, SlotsOnlyFacts, ListedFacts, CellFacts
<1>2. add # tail
  <2>1. top # Null
    BY <1>0, <1>1
  <2> QED
    BY <1>0, <2>1
<1>3. \A d \in Cells : t.slot[d].lead # add /\ t.slot[d].next # add
  BY <1>0, <1>1, NobodyPointsAt
<1>4. /\ add \in Cells /\ tail \in Cells /\ top \in Cells
      /\ q \in [Cells -> Nat] /\ q[add] = r[tail] + 1 /\ \A d \in Cells : d # add => q[d] = r[d]
  <2>1. add \in Cells /\ tail \in Cells /\ top \in Cells
    BY <1>0, <1>1
  <2>2. r[tail] + 1 \in Nat
    BY <2>1
  <2> QED
    BY <2>1, <2>2
<1> HIDE DEF q
<1>5. /\ \A d \in Cells : u.slot[d].lead = IF d = add THEN top ELSE t.slot[d].lead
      /\ \A d \in Cells : u.slot[d].next = IF d = tail THEN add ELSE t.slot[d].next
  BY DEF Followed
<1>6. \A d \in Cells : d \notin Listed(u) => u.slot[d].lead = Null /\ u.slot[d].next = Null
  BY SMTT(30), <1>0, <1>1, <1>5 DEF Ranked
<1>7. ASSUME NEW d \in Cells, u.slot[d].next # Null
      PROVE  /\ u.slot[d].next \in Listed(u)
             /\ u.slot[u.slot[d].next].lead = IF u.slot[d].lead = Null THEN d ELSE u.slot[d].lead
             /\ q[u.slot[d].next] = q[d] + 1
  <2>1. CASE d = tail
    <3>1. u.slot[d].next = add /\ u.slot[add].lead = top /\ q[d] = r[tail]
      BY <1>2, <1>4, <1>5, <2>1
    <3>2. u.slot[d].lead = t.slot[tail].lead
      BY <1>2, <1>4, <1>5, <2>1
    <3>3. top = IF u.slot[d].lead = Null THEN d ELSE u.slot[d].lead
      BY <1>0, <1>1, <1>4, <2>1, <3>2
    <3> QED
      BY SMTT(30), <1>0, <1>1, <1>4, <3>1, <3>3
  <2>2. CASE d # tail
    <3> DEFINE e == t.slot[d].next
    <3>1. u.slot[d].next = e /\ e # Null /\ e # add
      BY <1>3, <1>5, <1>7, <2>2
    <3>2. d # add
      BY <1>0, <3>1
    <3>3. /\ e \in Listed(t) /\ r[e] = r[d] + 1
          /\ t.slot[e].lead = IF t.slot[d].lead = Null THEN d ELSE t.slot[d].lead
      BY <3>1 DEF Ranked
    <3> HIDE DEF e
    <3>4. e \in Cells /\ u.slot[e].lead = t.slot[e].lead /\ u.slot[d].lead = t.slot[d].lead
          /\ q[e] = r[e] /\ q[d] = r[d]
      BY SMTT(30), <1>1, <1>4, <1>5, <3>1, <3>2, <3>3
    <3> QED
      BY <1>1, <3>1, <3>3, <3>4
  <2> QED
    BY SMTT(30), <2>1, <2>2
<1>8. \A d, e \in Cells : u.slot[d].next = u.slot[e].next /\ u.slot[d].next # Null => d = e
  BY <1>3, <1>5 DEF Ranked
<1>9. ASSUME NEW d \in Cells, u.slot[d].lead # Null
      PROVE  /\ u.slot[d].lead \in Listed(u)
             /\ u.slot[u.slot[d].lead].lead = Null
             /\ \E p \in Cells : u.slot[p].next = d
  <2>1. CASE d = add
    BY SMTT(30), <1>0, <1>1, <1>4, <1>5, <2>1
  <2>2. CASE d # add
    <3>1. /\ t.slot[d].lead # Null /\ u.slot[d].lead = t.slot[d].lead
      BY SMTT(30), <1>5, <1>9, <2>2
    <3>2. /\ t.slot[d].lead \in Listed(t) /\ t.slot[t.slot[d].lead].lead = Null
          /\ \E p \in Cells : t.slot[p].next = d
      BY <3>1 DEF Ranked
    <3>3. PICK p \in Cells : t.slot[p].next = d
      BY <3>2
    <3>4. p # tail
      BY <1>0, <1>1, <3>3
    <3>5. u.slot[p].next = d
      BY SMTT(30), <1>5, <3>3, <3>4
    <3>6. t.slot[d].lead # add /\ t.slot[d].lead \in Cells
      BY SMTT(30), <1>1, <1>3, <3>2
    <3> QED
      BY SMTT(30), <1>1, <1>5, <3>1, <3>2, <3>5, <3>6
  <2> QED
    BY <2>1, <2>2
<1>10. Ranked(u, q)
  BY Zenon, <1>6, <1>7, <1>8, <1>9 DEF Ranked
<1> QED
  BY <1>4, <1>10 DEF Linked

\* A change of slots that does not touch the locos.
LEMMA SlotsSet ==
    ASSUME NEW t \in Table, NEW f \in [Cells -> Slot],
           \A c \in Cells : f[c].loco = t.slot[c].loco
    PROVE  SlotsOnly(t, [t EXCEPT !.slot = f]) /\ [t EXCEPT !.slot = f].slot = f
  BY DEF SlotsOnly, Table

RevSet(t, c, v) == [t EXCEPT !.slot[c].rev = v]
LeadSet(t, c, v) == [t EXCEPT !.slot[c].lead = v]
NextSet(t, c, v) == [t EXCEPT !.slot[c].next = v]

\* From t to u only contents that are no pointers have changed.
Refilled(t, u) ==
    /\ SlotsOnly(t, u)
    /\ \A d \in Cells : u.slot[d].lead = t.slot[d].lead /\ u.slot[d].next = t.slot[d].next

PutSlot(t, c, s) == [t EXCEPT !.slot[c] = s]

LEMMA SlotSet ==
    ASSUME NEW t \in Table, NEW c \in Cells, NEW s \in Slot, s.loco = t.slot[c].loco,
           NEW u, u = PutSlot(t, c, s)
    PROVE  /\ SlotsOnly(t, u) /\ u.slot[c] = s
           /\ \A d \in Cells : d # c => u.slot[d] = t.slot[d]
<1> DEFINE f == [t.slot EXCEPT ![c] = s]
<1>1. t.slot \in [Cells -> Slot]
  BY DEF Table
<1>2. /\ f \in [Cells -> Slot] /\ f[c] = s /\ \A d \in Cells : d # c => f[d] = t.slot[d]
  BY <1>1
<1> HIDE DEF f
<1>3. \A d \in Cells : f[d].loco = t.slot[d].loco
  BY <1>2
<1>4. SlotsOnly(t, u) /\ u.slot = f
  BY Zenon, <1>2, <1>3, SlotsSet DEF f, PutSlot
<1> QED
  BY <1>2, <1>4

LEMMA RevSetFacts ==
    ASSUME NEW t \in Table, NEW c \in Cells, NEW v \in BOOLEAN
    PROVE  Refilled(t, RevSet(t, c, v))
<1> DEFINE s == [t.slot[c] EXCEPT !.rev = v]
<1>1. s \in Slot /\ s.loco = t.slot[c].loco /\ s.lead = t.slot[c].lead /\ s.next = t.slot[c].next
  <2>1. t.slot[c] \in Slot
    BY SlotFacts
  <2> QED
    BY <2>1 DEF Slot
<1>2. RevSet(t, c, v) = PutSlot(t, c, s)
  BY DEF RevSet, PutSlot
<1> HIDE DEF s
<1>3. /\ SlotsOnly(t, RevSet(t, c, v)) /\ RevSet(t, c, v).slot[c] = s
      /\ \A d \in Cells : d # c => RevSet(t, c, v).slot[d] = t.slot[d]
  BY <1>1, <1>2, SlotSet
<1> QED
  BY <1>1, <1>3 DEF Refilled

LEMMA LeadSetFacts ==
    ASSUME NEW t \in Table, NEW c \in Cells, NEW v \in Cells
    PROVE  /\ SlotsOnly(t, LeadSet(t, c, v))
           /\ \A d \in Cells : /\ LeadSet(t, c, v).slot[d].lead = IF d = c THEN v ELSE t.slot[d].lead
                               /\ LeadSet(t, c, v).slot[d].next = t.slot[d].next
<1> DEFINE s == [t.slot[c] EXCEPT !.lead = v]
<1>1. s \in Slot /\ s.loco = t.slot[c].loco /\ s.lead = v /\ s.next = t.slot[c].next
  <2>1. t.slot[c] \in Slot /\ v \in 0..MAX_LOCOS
    BY SlotFacts, CellFacts
  <2> QED
    BY <2>1 DEF Slot
<1>2. LeadSet(t, c, v) = PutSlot(t, c, s)
  BY DEF LeadSet, PutSlot
<1> HIDE DEF s
<1>3. /\ SlotsOnly(t, LeadSet(t, c, v)) /\ LeadSet(t, c, v).slot[c] = s
      /\ \A d \in Cells : d # c => LeadSet(t, c, v).slot[d] = t.slot[d]
  BY <1>1, <1>2, SlotSet
<1> QED
  BY <1>1, <1>3

LEMMA NextSetFacts ==
    ASSUME NEW t \in Table, NEW c \in Cells, NEW v \in Cells
    PROVE  /\ SlotsOnly(t, NextSet(t, c, v))
           /\ \A d \in Cells : /\ NextSet(t, c, v).slot[d].next = IF d = c THEN v ELSE t.slot[d].next
                               /\ NextSet(t, c, v).slot[d].lead = t.slot[d].lead
<1> DEFINE s == [t.slot[c] EXCEPT !.next = v]
<1>1. s \in Slot /\ s.loco = t.slot[c].loco /\ s.next = v /\ s.lead = t.slot[c].lead
  <2>1. t.slot[c] \in Slot /\ v \in 0..MAX_LOCOS
    BY SlotFacts, CellFacts
  <2> QED
    BY <2>1 DEF Slot
<1>2. NextSet(t, c, v) = PutSlot(t, c, s)
  BY DEF NextSet, PutSlot
<1> HIDE DEF s
<1>3. /\ SlotsOnly(t, NextSet(t, c, v)) /\ NextSet(t, c, v).slot[c] = s
      /\ \A d \in Cells : d # c => NextSet(t, c, v).slot[d] = t.slot[d]
  BY <1>1, <1>2, SlotSet
<1> QED
  BY <1>1, <1>3

\* What every operation on the table guarantees: a well-formed table, in which the
\* reminder's slot is still listed unless chainModified is set.
Keeps(t, u) ==
    /\ u \in Table /\ TableWellFormed(u)
    /\ u.modified \/ (~t.modified /\ Listed(t) \subseteq Listed(u))

LEMMA KeepsTransitive ==
    ASSUME NEW t, NEW u, NEW v, Keeps(t, u), Keeps(u, v) PROVE Keeps(t, v)
  BY DEF Keeps

LEMMA GrownKeeps ==
    ASSUME NEW t \in Table, NEW u, NEW id, Grown(t, u, id), TableWellFormed(t)
    PROVE  Keeps(t, u)
  BY DEF Grown, Keeps

LEMMA SlotsOnlyKeeps ==
    ASSUME NEW t \in Table, TableWellFormed(t), NEW u, SlotsOnly(t, u)
    PROVE  Keeps(t, u)
<1>1. TableWellFormed(u) /\ Listed(u) = Listed(t)
  BY SlotsOnlyFacts
<1>2. u \in Table /\ u.modified = t.modified
  BY DEF SlotsOnly
<1> QED
  BY <1>1, <1>2 DEF Keeps

LEMMA SlotsOnlyTransitive ==
    ASSUME NEW t, NEW u, NEW v, SlotsOnly(t, u), SlotsOnly(u, v) PROVE SlotsOnly(t, v)
  BY DEF SlotsOnly

LEMMA AddKeeps ==
    ASSUME NEW t \in Table, TableWellFormed(t), Linked(t), NEW consistId \in Nat, NEW id \in Nat,
           NEW rev \in BOOLEAN, NEW res, res = addLocoToConsist(t, consistId, id, rev)
    PROVE  Keeps(t, res.tab) /\ Linked(res.tab) /\ res.ub = FALSE
<1> DEFINE t1 == getSlot(t, consistId)
           c == Find(t1, consistId)
           top == IF t1.slot[c].lead # Null THEN t1.slot[c].lead ELSE c
           tail == Last(Chain(t1, top))
           t2 == getSlot(t1, id)
           add == Find(t2, id)
           t3 == [t2 EXCEPT !.slot[add].rev = rev]
           t4 == IF add # top THEN [t3 EXCEPT !.slot[add].lead = top] ELSE t3
           t5 == IF tail # add THEN [t4 EXCEPT !.slot[tail].next = add] ELSE t4
<1>0. res = IF id = consistId THEN Done(t)
            ELSE IF c = Null THEN Done(t1)
            ELSE IF add = Null \/ inConsist(t2, id) THEN Done(t2)
            ELSE Done(t5)
  BY Zenon DEF addLocoToConsist
<1>1. PICK r \in [Cells -> Nat] : Ranked(t, r)
  BY DEF Linked
<1>2. Grown(t, t1, consistId) /\ t1 \in Table /\ TableWellFormed(t1)
  BY GetSlotGrows DEF Grown
<1>3. Ranked(t1, r) /\ Keeps(t, t1)
  BY <1>1, <1>2, GrownRanked, GrownKeeps
<1>4. c \in Listed(t1) \cup {Null} /\ (c # Null => t1.slot[c].loco = consistId)
  BY <1>2, FindFacts
<1> HIDE DEF t1
<1>5. Grown(t1, t2, id) /\ t2 \in Table /\ TableWellFormed(t2)
  BY <1>2, GetSlotGrows DEF Grown
<1>6. Ranked(t2, r) /\ Keeps(t1, t2) /\ Keeps(t, t2)
  BY SMTT(30), <1>2, <1>3, <1>5, GrownRanked, GrownKeeps, KeepsTransitive
<1>7. add \in Listed(t2) \cup {Null} /\ (add # Null => t2.slot[add].loco = id)
  BY <1>5, FindFacts
<1> HIDE DEF t2, c
<1>8. \A u : Done(u).tab = u /\ Done(u).ub = FALSE
  BY DEF Done
<1>9. Linked(t1) /\ Linked(t2)
  BY <1>3, <1>6 DEF Linked
<1>10. CASE id = consistId \/ c = Null \/ add = Null \/ inConsist(t2, id)
  <2>1. Keeps(t, t)
    BY DEF Keeps
  <2>2. res = Done(t) \/ res = Done(t1) \/ res = Done(t2)
    <3> HIDE DEF t5
    <3> QED
      BY <1>0, <1>10
  <2> QED
    BY <1>3, <1>6, <1>8, <1>9, <2>1, <2>2
<1>11. CASE id # consistId /\ c # Null /\ add # Null /\ ~inConsist(t2, id)
  <2>1. c \in Listed(t1) /\ c \in Cells /\ add \in Listed(t2) /\ add \in Cells
    BY SMTT(30), <1>2, <1>4, <1>5, <1>7, <1>11, ListedFacts
  <2>2. top \in Listed(t1) /\ top \in Cells /\ t1.slot[top].lead = Null
        /\ (c = top \/ t1.slot[c].lead = top)
    <3> HIDE DEF tail, add, t3, t4, t5
    <3>1. CASE t1.slot[c].lead = Null
      BY SMTT(30), <2>1, <3>1
    <3>2. CASE t1.slot[c].lead # Null
      <4>1. t1.slot[c].lead \in Listed(t1) /\ t1.slot[t1.slot[c].lead].lead = Null
        BY ZenonT(30), <1>3, <2>1, <3>2 DEF Ranked
      <4>2. t1.slot[c].lead \in Cells
        BY Zenon, <1>2, <4>1, ListedFacts
      <4> QED
        BY Zenon, <3>2, <4>1, <4>2
    <3> QED
      BY <3>1, <3>2
  <2> HIDE DEF top
  <2>3. /\ tail \in Cells /\ (tail = top \/ t1.slot[tail].lead = top) /\ t1.slot[tail].next = Null
    <3> DEFINE w == Chain(t1, top)
    <3>1. /\ Len(w) \in Nat /\ Len(w) >= 1 /\ DOMAIN w = 1..Len(w)
          /\ t1.slot[w[Len(w)]].next = Null
      BY SMTT(30), <1>2, <1>3, <2>2, ChainEnds
    <3>2. Range(w) = {d \in Cells : d = top \/ t1.slot[d].lead = top}
      BY <1>2, <1>3, <2>2, ChainMembers
    <3> HIDE DEF w
    <3>3. tail = w[Len(w)]
      BY DEF Last, w
    <3>4. w[Len(w)] \in Range(w)
      <4>1. Len(w) \in DOMAIN w
        BY <3>1
      <4> QED
        BY <4>1 DEF Range
    <3> HIDE DEF tail
    <3> QED
      BY SMTT(30), <3>1, <3>2, <3>3, <3>4
  <2> HIDE DEF tail
  <2>4. tail \in Listed(t1)
    <3>1. CASE tail = top
      BY SMTT(30), <2>2, <3>1
    <3>2. CASE tail # top
      <4>1. t1.slot[tail].lead # Null
        BY SMTT(30), <2>2, <2>3, <3>2, CellFacts
      <4> QED
        BY <1>3, <2>3, <4>1 DEF Ranked
    <3> QED
      BY <3>1, <3>2
  <2>5. /\ \A d \in Listed(t1) : t2.slot[d] = t1.slot[d]
        /\ Listed(t1) \subseteq Listed(t2)
    BY <1>2, <1>5, ListedFacts DEF Grown
  <2>6. t2.slot[add].lead = Null /\ t2.slot[add].next = Null
    BY <1>11 DEF inConsist, isConsistLead, isConsistFollower, add
  <2> HIDE DEF add
  <2>7. add # c
    BY <1>4, <1>7, <1>11, <2>1, <2>5
  <2>8. add # top
    <3> SUFFICES ASSUME add = top PROVE FALSE
      OBVIOUS
    <3>1. t1.slot[top].next = Null
      BY <2>2, <2>5, <2>6
    <3>2. \A d \in Cells : t1.slot[d].lead # top
      BY SMTT(30), <1>2, <1>3, <2>2, <3>1, NobodyPointsAt
    <3> QED
      BY <2>1, <2>2, <2>7, <3>2
  <2>9. add # tail
    BY <2>2, <2>3, <2>4, <2>5, <2>6, <2>8, CellFacts
  <2>10. Ending(t2, top, tail, add)
    BY <2>1, <2>2, <2>3, <2>4, <2>5, <2>6, <2>8 DEF Ending
  <2> DEFINE u3 == RevSet(t2, add, rev)
             u4 == LeadSet(u3, add, top)
             u5 == NextSet(u4, tail, add)
  <2>11. t3 = u3
    BY DEF RevSet
  <2>12. t4 = u4
    <3> HIDE DEF t3, u3
    <3> QED
      BY <2>8, <2>11 DEF LeadSet
  <2>13. t5 = u5
    <3> HIDE DEF t4, u4
    <3> QED
      BY <2>9, <2>12 DEF NextSet
  <2>14. SlotsOnly(t2, u5) /\ Linked(u5)
    <3>1. Refilled(t2, u3) /\ u3 \in Table
      BY SMTT(30), <1>5, <2>1, RevSetFacts DEF Refilled, SlotsOnly
    <3> HIDE DEF u3
    <3>2. /\ SlotsOnly(u3, u4)
          /\ \A d \in Cells : /\ u4.slot[d].lead = IF d = add THEN top ELSE u3.slot[d].lead
                              /\ u4.slot[d].next = u3.slot[d].next
      BY SMTT(30), <2>1, <2>2, <3>1, LeadSetFacts
    <3> HIDE DEF u4
    <3>2a. u4 \in Table
      BY <3>2 DEF SlotsOnly
    <3>3. /\ SlotsOnly(u4, u5)
          /\ \A d \in Cells : /\ u5.slot[d].next = IF d = tail THEN add ELSE u4.slot[d].next
                              /\ u5.slot[d].lead = u4.slot[d].lead
      BY SMTT(30), <2>1, <2>3, <3>2a, NextSetFacts
    <3> HIDE DEF u5
    <3>4. SlotsOnly(t2, u5)
      BY SMTT(30), <3>1, <3>2, <3>3, SlotsOnlyTransitive DEF Refilled
    <3>5. Followed(t2, u5, top, tail, add)
      BY <3>1, <3>2, <3>3, <3>4 DEF Followed, Refilled
    <3> QED
      BY <1>5, <1>6, <2>10, <3>4, <3>5, FollowKeeps, Zenon
  <2> HIDE DEF t5, u5
  <2>15. Keeps(t, u5)
    BY <1>5, <1>6, <2>14, SlotsOnlyKeeps, KeepsTransitive
  <2>16. res = Done(u5)
    BY <1>0, <1>11, <2>13
  <2> QED
    BY <1>8, <2>14, <2>15, <2>16
<1> QED
  BY ZenonT(30), <1>10, <1>11

-----------------------------------------------------------------------------
(* DCCConsist::parse. *)

\* The other slots are where they were, and a new one is in no consist.
LEMMA GrownFind ==
    ASSUME NEW t \in Table, TableWellFormed(t), NEW id \in Nat, NEW u, Grown(t, u, id), NEW x
    PROVE  /\ Find(t, x) # Null => Find(u, x) = Find(t, x) /\ u.slot[Find(t, x)] = t.slot[Find(t, x)]
           /\ ~inConsist(t, x) => ~inConsist(u, x)
<1>1. /\ u \in Table /\ TableWellFormed(u) /\ Listed(t) \subseteq Listed(u)
      /\ Listed(t) \subseteq Cells /\ Listed(u) \subseteq Cells
  BY ListedFacts DEF Grown
<1>2. \A c \in Listed(t) : u.slot[c] = t.slot[c]
  BY <1>1 DEF Grown
<1>3. \A c \in Listed(u) : c \notin Listed(t) => u.slot[c] = Prepared(id)
  BY <1>1 DEF Grown
<1>4. ASSUME Find(t, x) # Null
      PROVE  Find(u, x) = Find(t, x) /\ u.slot[Find(t, x)] = t.slot[Find(t, x)]
  <2>1. Find(t, x) \in Listed(t) /\ t.slot[Find(t, x)].loco = x
    BY <1>4, FindFacts
  <2>2. u.slot[Find(t, x)] = t.slot[Find(t, x)] /\ Find(t, x) \in Listed(u)
    BY <1>1, <1>2, <2>1
  <2> QED
    BY <1>1, <2>1, <2>2, FindFacts
<1>5. ASSUME ~inConsist(t, x), inConsist(u, x) PROVE FALSE
  <2>1. CASE Find(t, x) # Null
    BY SMTT(30), <1>4, <1>5, <2>1 DEF inConsist
  <2>2. CASE Find(t, x) = Null
    <3> DEFINE c == Find(u, x)
    <3>1. c # Null
      BY <1>5 DEF inConsist
    <3>2. c \in Listed(u) /\ u.slot[c].loco = x
      BY SMTT(30), <1>1, <3>1, FindFacts
    <3>3. c \notin Listed(t)
      BY SMTT(30), <1>2, <2>2, <3>2, FindFacts
    <3>4. u.slot[c].lead = Null /\ u.slot[c].next = Null
      BY <1>3, <3>2, <3>3, PreparedFacts
    <3> QED
      BY <1>5, <3>4 DEF inConsist, isConsistLead, isConsistFollower
  <2> QED
    BY <2>1, <2>2
<1> QED
  BY <1>4, <1>5

\* The parameters of a consist command.
ConsistParams(p, n) ==
    /\ n \in Nat /\ n >= 1 /\ p \in [1..n -> [loco : Nat \ {0}, rev : BOOLEAN]]
    /\ \A i, j \in 1..n : p[i].loco = p[j].loco => i = j

\* After i parameters: the first i are a consist, the rest are in none.
Joined(t, res, p, n, i, lead) ==
    /\ Keeps(t, res.tab) /\ res.ub \in BOOLEAN
    /\ ~res.ub =>
          /\ Linked(res.tab)
          /\ lead \in Listed(res.tab) /\ Find(res.tab, p[1].loco) = lead
          /\ res.tab.slot[lead].lead = Null
          /\ Find(res.tab, p[i].loco) # Null
          /\ res.tab.slot[Find(res.tab, p[i].loco)].next = Null
          /\ \/ Find(res.tab, p[i].loco) = lead
             \/ res.tab.slot[Find(res.tab, p[i].loco)].lead = lead
          /\ \A j \in (i + 1)..n : ~inConsist(res.tab, p[j].loco)

LEMMA AloneFacts ==
    ASSUME NEW t, NEW id, Find(t, id) # Null
    PROVE  ~inConsist(t, id) <=> t.slot[Find(t, id)].lead = Null /\ t.slot[Find(t, id)].next = Null
  BY DEF inConsist, isConsistLead, isConsistFollower

LEMMA JoinKeeps ==
    ASSUME NEW t, NEW res, NEW p, NEW n, ConsistParams(p, n), NEW k \in 1..(n - 1),
           NEW lead, Joined(t, res, p, n, k, lead)
    PROVE  Joined(t, Join(res, p, k + 1, lead), p, n, k + 1, lead)
<1> DEFINE i == k + 1
           t0 == res.tab
           t1 == getSlot(t0, p[i].loco)
           c == Find(t1, p[i].loco)
           prev == Find(t1, p[i - 1].loco)
           u == [t1 EXCEPT !.slot[c].lead = lead, !.slot[c].rev = p[i].rev, !.slot[prev].next = c]
<1>1. /\ n \in Nat /\ i \in 1..n /\ i - 1 = k /\ k \in 1..n /\ 1 \in 1..n /\ i # 1 /\ i # k
      /\ k \in Nat
  BY DEF ConsistParams
<1>2. /\ p[i].loco \in Nat /\ p[i].rev \in BOOLEAN /\ p[i].loco # p[k].loco /\ p[i].loco # p[1].loco
      /\ \A j \in 1..n : j # i => p[j].loco # p[i].loco
  BY <1>1 DEF ConsistParams
<1>3. Join(res, p, i, lead) = IF res.ub \/ c = Null THEN [tab |-> t1, ub |-> TRUE] ELSE Done(u)
  BY Zenon DEF Join
<1>4. t0 \in Table /\ TableWellFormed(t0) /\ Keeps(t, t0)
  BY SMTT(30) DEF Joined, Keeps
<1> HIDE DEF t0
<1>5. Grown(t0, t1, p[i].loco) /\ t1 \in Table /\ TableWellFormed(t1)
  BY ZenonT(30), <1>2, <1>4, GetSlotGrows DEF Grown
<1> HIDE DEF t1
<1>6. Keeps(t, t1)
  BY <1>4, <1>5, GrownKeeps, KeepsTransitive
<1>7. CASE res.ub \/ c = Null
  <2>1. Join(res, p, i, lead) = [tab |-> t1, ub |-> TRUE]
    <3> HIDE DEF u
    <3> QED
      BY <1>3, <1>7
  <2>2. Join(res, p, i, lead).tab = t1 /\ Join(res, p, i, lead).ub = TRUE
    BY <2>1
  <2> QED
    BY ZenonT(30), <1>6, <2>2 DEF Joined
<1>8. CASE ~res.ub /\ c # Null
  <2> HIDE DEF u
  <2>1. /\ Linked(t0) /\ lead \in Listed(t0) /\ Find(t0, p[1].loco) = lead
        /\ t0.slot[lead].lead = Null /\ Find(t0, p[k].loco) # Null
        /\ t0.slot[Find(t0, p[k].loco)].next = Null
        /\ Find(t0, p[k].loco) = lead \/ t0.slot[Find(t0, p[k].loco)].lead = lead
        /\ \A j \in (k + 1)..n : ~inConsist(t0, p[j].loco)
    BY SMTT(30), <1>8 DEF Joined, t0
  <2>2. PICK r \in [Cells -> Nat] : Ranked(t0, r)
    BY <2>1 DEF Linked
  <2>3. Ranked(t1, r)
    BY SMTT(30), <1>2, <1>4, <1>5, <2>2, GrownRanked
  <2>4. /\ lead # Null /\ lead \in Cells /\ Listed(t1) \subseteq Cells
    BY SMTT(30), <1>4, <1>5, <2>1, ListedFacts, CellFacts
  <2>g. ASSUME NEW x
        PROVE  /\ Find(t0, x) # Null => Find(t1, x) = Find(t0, x) /\ t1.slot[Find(t0, x)] = t0.slot[Find(t0, x)]
               /\ ~inConsist(t0, x) => ~inConsist(t1, x)
    <3> HIDE DEF c, prev
    <3> QED
      BY SMTT(30), <1>2, <1>4, <1>5, GrownFind
  <2>5. prev = Find(t0, p[k].loco) /\ t1.slot[prev] = t0.slot[prev] /\ prev # Null
    <3>1. /\ Find(t1, p[k].loco) = Find(t0, p[k].loco)
          /\ t1.slot[Find(t0, p[k].loco)] = t0.slot[Find(t0, p[k].loco)]
      BY Zenon, <2>1, <2>g
    <3>2. prev = Find(t1, p[k].loco)
      BY <1>1
    <3> HIDE DEF prev
    <3> QED
      BY SMTT(30), <2>1, <3>1, <3>2
  <2>6. Find(t1, p[1].loco) = lead /\ t1.slot[lead] = t0.slot[lead]
    <3>1. Find(t0, p[1].loco) = lead /\ Find(t0, p[1].loco) # Null
      BY SMTT(30), <2>1, <2>4
    <3>2. /\ Find(t1, p[1].loco) = Find(t0, p[1].loco)
          /\ t1.slot[Find(t0, p[1].loco)] = t0.slot[Find(t0, p[1].loco)]
      BY Zenon, <3>1, <2>g
    <3> QED
      BY <3>1, <3>2
  <2>7. /\ c \in Listed(t1) /\ t1.slot[c].loco = p[i].loco
        /\ prev \in Listed(t1) /\ t1.slot[prev].loco = p[k].loco
        /\ lead \in Listed(t1) /\ t1.slot[lead].loco = p[1].loco
    <3>1. ASSUME NEW x, Find(t1, x) # Null
          PROVE  Find(t1, x) \in Listed(t1) /\ t1.slot[Find(t1, x)].loco = x
      BY SMTT(30), <1>5, <3>1, FindFacts
    <3>2. prev = Find(t1, p[k].loco)
      BY <1>1
    <3>3. c = Find(t1, p[i].loco) /\ c # Null /\ prev # Null /\ lead # Null /\ lead = Find(t1, p[1].loco)
      BY SMTT(30), <1>8, <2>4, <2>5, <2>6
    <3> HIDE DEF c, prev
    <3> QED
      BY SMTT(30), <3>1, <3>2, <3>3
  <2>8. c # prev /\ c # lead
    BY SMTT(30), <1>2, <2>7
  <2>9. \A j \in i..n : ~inConsist(t1, p[j].loco)
    BY ZenonT(30), <2>1, <2>g
  <2>10. t1.slot[c].lead = Null /\ t1.slot[c].next = Null
    <3>1. ~inConsist(t1, p[i].loco)
      BY SMTT(30), <1>1, <2>9
    <3> QED
      BY <1>8, <3>1, AloneFacts
  <2> HIDE DEF c, prev
  <2>11. Ending(t1, lead, prev, c)
    BY ZenonT(30), <2>1, <2>5, <2>6, <2>7, <2>8, <2>10 DEF Ending
  <2>12. c \in Cells /\ prev \in Cells
    BY <2>4, <2>7
  <2> DEFINE u1 == LeadSet(t1, c, lead)
             u2 == RevSet(u1, c, p[i].rev)
             u3 == NextSet(u2, prev, c)
  <2>13. u = u3
    BY SMTT(30) DEF u, LeadSet, RevSet, NextSet
  <2>14. Followed(t1, u3, lead, prev, c)
    <3>1. /\ SlotsOnly(t1, u1)
          /\ \A d \in Cells : /\ u1.slot[d].lead = IF d = c THEN lead ELSE t1.slot[d].lead
                              /\ u1.slot[d].next = t1.slot[d].next
      BY SMTT(30), <1>5, <2>4, <2>12, LeadSetFacts
    <3> HIDE DEF u1
    <3>2. u1 \in Table
      BY <3>1 DEF SlotsOnly
    <3>3. Refilled(u1, u2)
      BY <1>2, <2>12, <3>2, RevSetFacts
    <3> HIDE DEF u2
    <3>4. u2 \in Table /\ SlotsOnly(u1, u2)
      BY <3>3 DEF Refilled, SlotsOnly
    <3>5. /\ SlotsOnly(u2, u3)
          /\ \A d \in Cells : /\ u3.slot[d].next = IF d = prev THEN c ELSE u2.slot[d].next
                              /\ u3.slot[d].lead = u2.slot[d].lead
      BY SMTT(30), <2>12, <3>4, NextSetFacts
    <3> HIDE DEF u3
    <3>6. SlotsOnly(t1, u3)
      BY <3>1, <3>4, <3>5, SlotsOnlyTransitive
    <3> QED
      BY SMTT(30), <3>1, <3>3, <3>5, <3>6 DEF Followed, Refilled
  <2> HIDE DEF u3
  <2>15. Followed(t1, u, lead, prev, c)
    BY <2>13, <2>14
  <2>16. Linked(u)
    BY SMTT(30), <1>5, <2>3, <2>11, <2>15, FollowKeeps
  <2>17. SlotsOnly(t1, u)
    BY <2>15 DEF Followed
  <2>18. /\ TableWellFormed(u) /\ Listed(u) = Listed(t1) /\ \A x : Find(u, x) = Find(t1, x)
    BY SMTT(30), <1>5, <2>17, SlotsOnlyFacts
  <2>19. Keeps(t, u)
    BY SMTT(30), <1>5, <1>6, <2>17, SlotsOnlyKeeps, KeepsTransitive
  <2>20. /\ u.slot[lead].lead = Null /\ u.slot[c].lead = lead /\ u.slot[c].next = Null
    BY <2>1, <2>4, <2>6, <2>8, <2>10, <2>12, <2>15 DEF Followed
  <2>21. ASSUME NEW j \in (i + 1)..n PROVE ~inConsist(u, p[j].loco)
    <3> DEFINE d == Find(t1, p[j].loco)
    <3>1. CASE d = Null
      BY SMTT(30), <2>18, <3>1 DEF inConsist
    <3>2. CASE d # Null
      <4>1. j \in 1..n /\ j \in i..n /\ j # i /\ j # k
        BY SMTT(30), <1>1
      <4>2. d \in Cells /\ t1.slot[d].loco = p[j].loco
        BY <1>5, <2>4, <3>2, FindFacts
      <4>3. p[j].loco # p[i].loco /\ p[j].loco # p[k].loco
        BY SMTT(30), <1>1, <4>1 DEF ConsistParams
      <4>4. d # c /\ d # prev
        BY SMTT(30), <2>7, <4>2, <4>3
      <4>5. t1.slot[d].lead = Null /\ t1.slot[d].next = Null
        BY SMTT(30), <2>9, <3>2, <4>1, AloneFacts
      <4>6. u.slot[d].lead = Null /\ u.slot[d].next = Null
        BY <2>15, <4>2, <4>4, <4>5 DEF Followed
      <4>7. Find(u, p[j].loco) = d
        BY <2>18
      <4> QED
        BY <3>2, <4>6, <4>7, AloneFacts
    <3> QED
      BY <3>1, <3>2
  <2>22. Join(res, p, i, lead) = Done(u) /\ Done(u).tab = u /\ Done(u).ub = FALSE
    BY SMTT(30), <1>3, <1>8 DEF Done
  <2>23. Find(u, p[i].loco) = c /\ Find(u, p[1].loco) = lead
    BY SMTT(30), <2>6, <2>18 DEF c
  <2>24. Joined(t, Done(u), p, n, i, lead)
    BY ZenonT(30), <1>8, <2>7, <2>16, <2>18, <2>19, <2>20, <2>21, <2>22, <2>23 DEF Joined
  <2> QED
    BY SMTT(30), <2>22, <2>24
<1> QED
  BY <1>7, <1>8

\* f is the function that parse defines, up to parameter n.
IsJoining(f, first, p, n, lead) ==
    f = [i \in 1..n |-> IF i = 1 THEN first ELSE Join(f[i - 1], p, i, lead)]

LEMMA JoiningExists ==
    ASSUME NEW first, NEW p, NEW lead PROVE \A n \in Nat : \E f : IsJoining(f, first, p, n, lead)
<1> DEFINE T == {n \in Nat : \E f : IsJoining(f, first, p, n, lead)}
<1>1. 0 \in T
  <2>1. IsJoining([i \in 1..0 |-> first], first, p, 0, lead)
    BY DEF IsJoining
  <2> QED
    BY <2>1
<1>2. ASSUME NEW n \in Nat, n \in T PROVE n + 1 \in T
  <2>1. PICK f : IsJoining(f, first, p, n, lead)
    BY <1>2
  <2> DEFINE last == IF n = 0 THEN first ELSE Join(f[n], p, n + 1, lead)
             g == [i \in 1..(n + 1) |-> IF i <= n THEN f[i] ELSE last]
  <2>2. \A i \in 1..n : f[i] = IF i = 1 THEN first ELSE Join(f[i - 1], p, i, lead)
    BY <2>1 DEF IsJoining
  <2>3. ASSUME NEW i \in 1..(n + 1)
        PROVE  g[i] = IF i = 1 THEN first ELSE Join(g[i - 1], p, i, lead)
    <3>1. CASE i = n + 1 /\ n # 0
      <4>1. g[i] = Join(f[n], p, n + 1, lead) /\ g[i - 1] = f[n] /\ i # 1
        BY <3>1
      <4> QED
        BY <3>1, <4>1
    <3>2. CASE i <= n /\ i # 1
      <4>1. g[i] = f[i] /\ g[i - 1] = f[i - 1] /\ i \in 1..n
        BY <3>2
      <4> QED
        BY <3>2, <4>1, <2>2
    <3>3. CASE i = 1
      BY <3>3, <2>2
    <3> QED
      BY <3>1, <3>2, <3>3
  <2>4. g = [i \in 1..(n + 1) |-> IF i = 1 THEN first ELSE Join(g[i - 1], p, i, lead)]
    <3> HIDE DEF g
    <3>1. DOMAIN g = 1..(n + 1) /\ g = [i \in 1..(n + 1) |-> g[i]]
      BY DEF g
    <3> QED
      BY <3>1, <2>3, Zenon
  <2>5. IsJoining(g, first, p, n + 1, lead)
    BY <2>4 DEF IsJoining
  <2> QED
    BY <2>5
<1> HIDE DEF T
<1>3. \A n \in Nat : n \in T
  BY <1>1, <1>2, SetInduction
<1> QED
  BY <1>3 DEF T

LEMMA JoiningKeeps ==
    ASSUME NEW t, NEW first, NEW p, NEW n, ConsistParams(p, n), NEW lead,
           Joined(t, first, p, n, 1, lead), NEW f, IsJoining(f, first, p, n, lead)
    PROVE  Joined(t, f[n], p, n, n, lead)
<1> DEFINE T == {k \in Nat : k + 1 <= n => Joined(t, f[k + 1], p, n, k + 1, lead)}
<1>1. n \in Nat /\ n >= 1
  BY DEF ConsistParams
<1>2. \A i \in 1..n : f[i] = IF i = 1 THEN first ELSE Join(f[i - 1], p, i, lead)
  BY ZenonT(30) DEF IsJoining
<1>3. 0 \in T
  <2>1. f[1] = first
    BY <1>1, <1>2
  <2> QED
    BY <2>1
<1>4. ASSUME NEW k \in Nat, k \in T PROVE k + 1 \in T
  <2> DEFINE m == k + 1
  <2> SUFFICES ASSUME m + 1 <= n PROVE Joined(t, f[m + 1], p, n, m + 1, lead)
    OBVIOUS
  <2>1. m \in 1..(n - 1) /\ m + 1 \in 1..n /\ m + 1 # 1 /\ (m + 1) - 1 = m
    BY <1>1
  <2>2. Joined(t, f[m], p, n, m, lead)
    BY <1>1, <1>4
  <2>3. f[m + 1] = Join(f[m], p, m + 1, lead)
    BY <1>2, <2>1
  <2> HIDE DEF m
  <2> QED
    BY <2>1, <2>2, <2>3, JoinKeeps
<1> HIDE DEF T
<1>5. \A k \in Nat : k \in T
  BY <1>3, <1>4, SetInduction
<1>6. n - 1 \in T /\ n - 1 \in Nat /\ (n - 1) + 1 = n
  BY <1>1, <1>5
<1> QED
  BY <1>1, <1>6 DEF T

LEMMA ParseKeeps ==
    ASSUME NEW t \in Table, TableWellFormed(t), Linked(t), NEW p, NEW n, ConsistParams(p, n),
           NEW res, res = parse(t, p)
    PROVE  Keeps(t, res.tab) /\ res.ub \in BOOLEAN /\ (~res.ub => Linked(res.tab))
<1> DEFINE c == Find(t, p[1].loco)
           t1 == IF c # Null /\ isConsistLead(t.slot[c])
                 THEN deleteAnyConsist(t, p[1].loco) ELSE t
           t2 == getSlot(t1, p[1].loco)
           lead == Find(t2, p[1].loco)
           first == Done([t2 EXCEPT !.slot[lead].rev = p[1].rev])
           f == CHOOSE f : IsJoining(f, first, p, Len(p), lead)
<1>1. /\ n \in Nat /\ n >= 1 /\ 1 \in 1..n /\ p[1].loco \in Nat /\ p[1].rev \in BOOLEAN
      /\ p \in [1..n -> [loco : Nat \ {0}, rev : BOOLEAN]]
  BY DEF ConsistParams
<1>2. Len(p) = n /\ DOMAIN p = 1..n
  <2> DEFINE P == [loco : Nat \ {0}, rev : BOOLEAN]
  <2>1. p \in [1..n -> P] /\ n \in Nat
    BY <1>1
  <2> HIDE DEF P
  <2>2. \E m \in Nat : p \in [1..m -> P]
    BY <2>1
  <2>3. p \in Seq(P)
    BY <2>1, IsASeq
  <2> QED
    BY <2>1, <2>3, LenProperties
<1>3. res = IF Len(p) < 2 \/ \E i \in DOMAIN p : inConsist(t1, p[i].loco) THEN Done(t1)
            ELSE IF lead = Null THEN [tab |-> t2, ub |-> TRUE]
            ELSE f[Len(p)]
  BY Zenon DEF parse, IsJoining
<1>4. PICK r \in [Cells -> Nat] : Ranked(t, r)
  BY DEF Linked
<1>5. t1 \in Table /\ TableWellFormed(t1) /\ Ranked(t1, r) /\ Keeps(t, t1)
  <2>1. Keeps(t, t)
    BY DEF Keeps
  <2>2. SlotsOnly(t, deleteAnyConsist(t, p[1].loco)) /\ Ranked(deleteAnyConsist(t, p[1].loco), r)
    BY <1>4, DeleteKeeps
  <2>3. Keeps(t, deleteAnyConsist(t, p[1].loco))
    BY <2>2, SlotsOnlyKeeps
  <2>4. Keeps(t, t1) /\ Ranked(t1, r)
    BY SMTT(30), <1>4, <2>1, <2>2, <2>3
  <2> HIDE DEF t1
  <2> QED
    BY <2>4 DEF Keeps
<1> HIDE DEF t1, c
<1>6. Grown(t1, t2, p[1].loco) /\ t2 \in Table /\ TableWellFormed(t2)
  BY ZenonT(30), <1>1, <1>5, GetSlotGrows DEF Grown
<1>7. Ranked(t2, r) /\ Keeps(t, t2)
  BY <1>1, <1>5, <1>6, GrownRanked, GrownKeeps, KeepsTransitive
<1> HIDE DEF t2
<1>8. CASE Len(p) < 2 \/ \E i \in DOMAIN p : inConsist(t1, p[i].loco)
  <2>1. res = Done(t1)
    <3> HIDE DEF f, lead
    <3> QED
      BY Zenon, <1>3, <1>8
  <2>2. res.tab = t1 /\ res.ub = FALSE
    BY <2>1 DEF Done
  <2>3. Linked(t1)
    BY <1>5 DEF Linked
  <2> QED
    BY ZenonT(30), <1>5, <2>2, <2>3
<1>9. CASE ~(Len(p) < 2 \/ \E i \in DOMAIN p : inConsist(t1, p[i].loco)) /\ lead = Null
  <2>1. res = [tab |-> t2, ub |-> TRUE]
    <3> HIDE DEF f, lead
    <3> QED
      BY <1>3, <1>9
  <2>2. res.tab = t2 /\ res.ub = TRUE
    BY SMTT(30), <2>1
  <2> QED
    BY Zenon, <1>7, <2>2
<1>10. CASE ~(Len(p) < 2 \/ \E i \in DOMAIN p : inConsist(t1, p[i].loco)) /\ lead # Null
  <2>1. res = f[n]
    <3> HIDE DEF f, lead
    <3> QED
      BY ZenonT(30), <1>2, <1>3, <1>10
  <2>2. IsJoining(f, first, p, n, lead)
    <3> HIDE DEF first, lead
    <3>1. \E g : IsJoining(g, first, p, Len(p), lead)
      BY ZenonT(30), <1>1, <1>2, JoiningExists
    <3>2. IsJoining(f, first, p, Len(p), lead)
      BY <3>1, ZenonT(30)
    <3> QED
      BY <1>2, <3>2
  <2> HIDE DEF f
  <2>3. lead \in Listed(t2) /\ lead \in Cells /\ t2.slot[lead].loco = p[1].loco
    BY <1>6, <1>10, FindFacts, ListedFacts
  <2>4. \A i \in 1..n : ~inConsist(t2, p[i].loco)
    BY <1>1, <1>2, <1>5, <1>6, <1>10, GrownFind
  <2>5. t2.slot[lead].lead = Null /\ t2.slot[lead].next = Null
    BY <1>1, <1>10, <2>4, AloneFacts
  <2> DEFINE u == RevSet(t2, lead, p[1].rev)
  <2>6. first = Done(u)
    BY DEF RevSet
  <2>7. Find(t2, p[1].loco) = lead
    OBVIOUS
  <2> HIDE DEF lead, first
  <2>8. Refilled(t2, u)
    BY <1>1, <1>6, <2>3, RevSetFacts
  <2> HIDE DEF u
  <2>9. SlotsOnly(t2, u) /\ u \in Table
    BY <2>8 DEF Refilled, SlotsOnly
  <2>10. TableWellFormed(u) /\ Listed(u) = Listed(t2) /\ \A x : Find(u, x) = Find(t2, x)
    BY SMTT(30), <1>6, <2>9, SlotsOnlyFacts
  <2>11. Keeps(t, u)
    BY SMTT(30), <1>6, <1>7, <2>9, SlotsOnlyKeeps, KeepsTransitive
  <2>12. Ranked(u, r)
    <3>1. /\ Listed(t2) \subseteq Listed(u)
          /\ \A d \in Cells : u.slot[d].lead = t2.slot[d].lead /\ u.slot[d].next = t2.slot[d].next
      BY <2>8, <2>10 DEF Refilled
    <3> QED
      BY <1>6, <1>7, <2>9, <3>1, RankedKept
  <2>13. Linked(u)
    BY SMTT(30), <2>12 DEF Linked
  <2>14. u.slot[lead].lead = Null /\ u.slot[lead].next = Null
    BY <2>3, <2>5, <2>8 DEF Refilled
  <2>15. ASSUME NEW j \in (1 + 1)..n PROVE ~inConsist(u, p[j].loco)
    <3>1. j \in 1..n
      BY <1>1
    <3>2. Find(u, p[j].loco) = Find(t2, p[j].loco)
      BY <2>10
    <3>3. CASE Find(t2, p[j].loco) = Null
      BY SMTT(30), <3>2, <3>3 DEF inConsist
    <3>4. CASE Find(t2, p[j].loco) # Null
      <4>1. Find(t2, p[j].loco) \in Cells
        BY SMTT(30), <1>6, <3>4, FindFacts
      <4>2. /\ t2.slot[Find(t2, p[j].loco)].lead = Null /\ t2.slot[Find(t2, p[j].loco)].next = Null
        BY SMTT(30), <2>4, <3>1, <3>4, AloneFacts
      <4>3. /\ u.slot[Find(t2, p[j].loco)].lead = Null /\ u.slot[Find(t2, p[j].loco)].next = Null
        BY <2>8, <4>1, <4>2 DEF Refilled
      <4> QED
        BY SMTT(30), <3>2, <3>4, <4>3, AloneFacts
    <3> QED
      BY <3>3, <3>4
  <2>16. first.tab = u /\ first.ub = FALSE
    BY SMTT(30), <2>6 DEF Done
  <2>17. Joined(t, first, p, n, 1, lead)
    BY ZenonT(30), <1>10, <2>3, <2>7, <2>10, <2>11, <2>13, <2>14, <2>15, <2>16 DEF Joined
  <2>18. Joined(t, f[n], p, n, n, lead)
    BY <2>2, <2>17, JoiningKeeps
  <2> QED
    BY ZenonT(30), <2>1, <2>18 DEF Joined
<1> QED
  BY <1>8, <1>9, <1>10
=============================================================================
