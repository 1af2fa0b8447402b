---------------------------- MODULE DCCQueueProofs ----------------------------
(***************************************************************************)
(* Theorems about DCCQueue, for every value of its constants.              *)
(***************************************************************************)
EXTENDS DCCQueue, SequenceTheorems, WellFoundedInduction, TLAPS

-----------------------------------------------------------------------------
(* The provers have no induction of their own: it is stated for a set      *)
(* instead of a predicate, and follows from the library's WFMin.           *)

\* A set that holds 0 and the successor of each natural it holds, holds them all.
LEMMA SetInduction ==
    ASSUME NEW T, 0 \in T, \A n \in Nat : n \in T => n + 1 \in T
    PROVE  \A n \in Nat : n \in T
<1> DEFINE R == OpToRel(<, Nat)
<1>1. /\ Nat \ T # {} => \E k \in Nat \ T : \A i \in Nat \ T : <<i, k>> \notin R
      /\ \A i, k \in Nat : i < k => <<i, k>> \in R
  BY NatLessThanWellFounded, WFMin DEF OpToRel
<1> HIDE DEF R
<1> QED
  BY <1>1, \A k \in Nat \ {0} : k - 1 \in Nat /\ k - 1 < k /\ (k - 1) + 1 = k

SentItem == [pkt : Packet, due : Nat, repeats : Nat]

-----------------------------------------------------------------------------
(* What SubSeqAt returns, for every sequence and every set of positions.   *)

Pick(q, K, n, x) == IF n \in K THEN Append(x, q[n]) ELSE x

\* f is the function that SubSeqAt defines, up to position n.
IsUpTo(f, q, K, n) ==
    f = [m \in 0..n |-> IF m = 0 THEN <<>> ELSE Pick(q, K, m, f[m - 1])]

LEMMA UpToExists ==
    ASSUME NEW q, NEW K PROVE \A n \in Nat : \E f : IsUpTo(f, q, K, n)
<1> DEFINE T == {n \in Nat : \E f : IsUpTo(f, q, K, n)}
<1>1. 0 \in T
  <2>1. IsUpTo([m \in 0..0 |-> <<>>], q, K, 0)
    BY DEF IsUpTo
  <2> QED
    BY <2>1
<1>2. ASSUME NEW n \in Nat, n \in T PROVE n + 1 \in T
  <2>1. PICK f : IsUpTo(f, q, K, n)
    BY <1>2
  <2> DEFINE g == [m \in 0..(n + 1) |->
                     IF m <= n THEN f[m] ELSE Pick(q, K, n + 1, f[n])]
  <2>2. ASSUME NEW m \in 0..(n + 1)
        PROVE  g[m] = IF m = 0 THEN <<>> ELSE Pick(q, K, m, g[m - 1])
    <3>1. CASE m = 0
      BY <2>1, <3>1 DEF IsUpTo
    <3>2. CASE m # 0 /\ m <= n
      <4>1. m \in 0..n /\ m - 1 \in 0..n /\ m - 1 \in 0..(n + 1) /\ m - 1 <= n
        BY <3>2
      <4>2. f[m] = Pick(q, K, m, f[m - 1])
        BY <2>1, <3>2, <4>1 DEF IsUpTo
      <4>3. g[m] = f[m] /\ g[m - 1] = f[m - 1]
        BY <3>2, <4>1
      <4> QED
        BY <3>2, <4>2, <4>3
    <3>3. CASE m = n + 1
      <4>1. g[n + 1] = Pick(q, K, n + 1, f[n])
        OBVIOUS
      <4>2. g[n] = f[n] /\ (n + 1) - 1 = n
        OBVIOUS
      <4> QED
        BY <3>3, <4>1, <4>2
    <3> QED
      BY <3>1, <3>2, <3>3
  <2>3. IsUpTo(g, q, K, n + 1)
    <3> DEFINE h == [m \in 0..(n + 1) |->
                       IF m = 0 THEN <<>> ELSE Pick(q, K, m, g[m - 1])]
    <3>1. \A m \in 0..(n + 1) : g[m] = h[m]
      <4> HIDE DEF g
      <4> QED
        BY <2>2
    <3>2. g = h
      <4>1. g = [m \in 0..(n + 1) |-> g[m]]
        OBVIOUS
      <4>2. h = [m \in 0..(n + 1) |-> h[m]]
        OBVIOUS
      <4> HIDE DEF g, h
      <4> QED
        BY <3>1, <4>1, <4>2
    <3> QED
      BY <3>2 DEF IsUpTo
  <2> QED
    BY <2>3
<1> HIDE DEF T
<1>3. \A n \in Nat : n \in T
  BY <1>1, <1>2, SetInduction
<1> QED
  BY <1>3 DEF T

\* SubSeqAt's value is the last value of such a function.
LEMMA SubSeqAtDef ==
    ASSUME NEW S, NEW q \in Seq(S), NEW K
    PROVE  \E f : IsUpTo(f, q, K, Len(q)) /\ SubSeqAt(q, K) = f[Len(q)]
<1> DEFINE u == CHOOSE f : IsUpTo(f, q, K, Len(q))
<1>1. IsUpTo(u, q, K, Len(q))
  BY UpToExists
<1>2. SubSeqAt(q, K) = u[Len(q)]
  BY DEF SubSeqAt, IsUpTo, Pick
<1> HIDE DEF u
<1> QED
  BY <1>1, <1>2

\* g tells from which positions of q, all in K and in increasing order, the
\* elements of r come.
Embeds(g, r, q, K) ==
    /\ g \in [1..Len(r) -> 1..Len(q)]
    /\ \A j \in 1..Len(r) : g[j] \in K /\ r[j] = q[g[j]]
    /\ \A j, k \in 1..Len(r) : j < k => g[j] < g[k]

\* SubSeqAt(q, K) is a sequence over the same elements, not longer than q; it
\* holds the elements of q at positions in K, each once and in their order.
LEMMA SubSeqAtProperties ==
    ASSUME NEW S, NEW q \in Seq(S), NEW K
    PROVE  /\ SubSeqAt(q, K) \in Seq(S)
           /\ Len(SubSeqAt(q, K)) <= Len(q)
           /\ \E g : Embeds(g, SubSeqAt(q, K), q, K)
           /\ \A i \in 1..Len(q) : i \in K =>
                 \E j \in 1..Len(SubSeqAt(q, K)) : SubSeqAt(q, K)[j] = q[i]
<1>1. PICK f : IsUpTo(f, q, K, Len(q)) /\ SubSeqAt(q, K) = f[Len(q)]
  BY SubSeqAtDef
<1> DEFINE N == Len(q)
           Placed(r, n) == \E g : /\ g \in [1..Len(r) -> 1..n]
                                  /\ \A j \in 1..Len(r) : g[j] \in K /\ r[j] = q[g[j]]
                                  /\ \A j, k \in 1..Len(r) : j < k => g[j] < g[k]
           Covers(r, n) == \A i \in 1..n : i \in K => \E j \in 1..Len(r) : r[j] = q[i]
           Good(n) == f[n] \in Seq(S) /\ Len(f[n]) <= n /\ Placed(f[n], n) /\ Covers(f[n], n)
           T == {n \in Nat : n <= N => Good(n)}
<1>2. N \in Nat /\ q \in [1..N -> S]
  BY LenProperties
<1>3. 0 \in T
  <2>1. f[0] = <<>>
    BY <1>1, <1>2 DEF IsUpTo
  <2>2. f[0] \in Seq(S) /\ Len(f[0]) = 0
    BY <2>1, EmptySeq
  <2>3. 1..0 = {}
    OBVIOUS
  <2>4. Placed(f[0], 0)
    <3> DEFINE g == [j \in {} |-> 0]
    <3>1. g \in [1..Len(f[0]) -> 1..0]
      BY <2>2, <2>3
    <3> HIDE DEF g
    <3> QED
      BY <2>2, <2>3, <3>1
  <2>5. Good(0)
    BY <2>2, <2>3, <2>4
  <2> HIDE DEF Good
  <2> QED
    BY <2>5
<1>4. ASSUME NEW n \in Nat, n \in T PROVE n + 1 \in T
  <2>1. SUFFICES ASSUME n + 1 <= N PROVE Good(n + 1)
    BY DEF T
  <2> HIDE DEF Placed, Covers
  <2>2. Good(n) /\ n + 1 \in 1..N /\ n \in 0..N
    BY <1>2, <1>4, <2>1
  <2>3. f[n + 1] = Pick(q, K, n + 1, f[n])
    <3>1. f[n + 1] = Pick(q, K, n + 1, f[(n + 1) - 1])
      BY <1>1, <1>2, <2>2 DEF IsUpTo
    <3> QED
      BY <3>1
  <2>4. q[n + 1] \in S
    BY <1>2, <2>2
  <2> DEFINE x == f[n]
  <2>5. x \in Seq(S) /\ Len(x) <= n /\ Len(x) \in Nat /\ Covers(x, n)
    BY <2>2, LenProperties
  <2>6. PICK g : /\ g \in [1..Len(x) -> 1..n]
                 /\ \A j \in 1..Len(x) : g[j] \in K /\ x[j] = q[g[j]]
                 /\ \A j, k \in 1..Len(x) : j < k => g[j] < g[k]
    BY Zenon, <2>2 DEF Placed
  <2>7. CASE n + 1 \notin K
    <3>1. f[n + 1] = x
      BY <2>3, <2>7 DEF Pick
    <3> HIDE DEF x
    <3>2. Covers(x, n + 1)
      BY <2>5, <2>7 DEF Covers
    <3>3. g \in [1..Len(x) -> 1..(n + 1)]
      BY <2>5, <2>6
    <3>4. Placed(x, n + 1)
      BY <2>6, <3>3 DEF Placed
    <3>5. Len(x) <= n + 1
      BY <2>5
    <3> QED
      BY <2>5, <3>1, <3>2, <3>4, <3>5
  <2>8. CASE n + 1 \in K
    <3> DEFINE y == Append(x, q[n + 1])
    <3>1. f[n + 1] = y
      BY <2>3, <2>8 DEF Pick
    <3> HIDE DEF x
    <3>2. /\ y \in Seq(S) /\ Len(y) = Len(x) + 1
          /\ \A j \in 1..Len(x) : y[j] = x[j]
          /\ y[Len(x) + 1] = q[n + 1]
      BY <2>4, <2>5, AppendProperties
    <3> HIDE DEF y
    <3>3. Covers(y, n + 1)
      <4>1. SUFFICES ASSUME NEW i \in 1..(n + 1), i \in K
                     PROVE  \E j \in 1..Len(y) : y[j] = q[i]
        BY DEF Covers
      <4>2. CASE i \in 1..n
        <5>1. PICK j \in 1..Len(x) : x[j] = q[i]
          BY <2>5, <4>1, <4>2 DEF Covers
        <5>2. j \in 1..Len(y) /\ y[j] = q[i]
          BY <2>5, <3>2, <5>1
        <5> QED
          BY <5>2
      <4>3. CASE i = n + 1
        <5>1. Len(x) + 1 \in 1..Len(y)
          BY <2>5, <3>2
        <5> QED
          BY <3>2, <4>3, <5>1
      <4> QED
        BY <4>2, <4>3
    <3>4. Placed(y, n + 1)
      <4> DEFINE h == [j \in 1..Len(y) |-> IF j <= Len(x) THEN g[j] ELSE n + 1]
      <4>1. h \in [1..Len(y) -> 1..(n + 1)]
        BY <2>5, <2>6, <3>2
      <4>2. ASSUME NEW j \in 1..Len(y) PROVE h[j] \in K /\ y[j] = q[h[j]]
        <5>1. CASE j \in 1..Len(x)
          BY <2>5, <2>6, <3>2, <5>1
        <5>2. CASE j = Len(x) + 1
          BY <2>5, <2>8, <3>2, <5>2
        <5> QED
          BY <2>5, <3>2, <5>1, <5>2
      <4>3. ASSUME NEW j \in 1..Len(y), NEW k \in 1..Len(y), j < k PROVE h[j] < h[k]
        <5>1. j \in 1..Len(x) /\ h[j] = g[j] /\ g[j] \in 1..n
          BY <2>5, <2>6, <3>2, <4>3
        <5>2. CASE k \in 1..Len(x)
          BY <2>5, <2>6, <3>2, <4>3, <5>1, <5>2
        <5>3. CASE k = Len(x) + 1
          <6>1. h[k] = n + 1
            BY <2>5, <3>2, <5>3
          <6> QED
            BY <5>1, <6>1
        <5> QED
          BY <2>5, <3>2, <5>2, <5>3
      <4> HIDE DEF h
      <4> QED
        BY <4>1, <4>2, <4>3 DEF Placed
    <3>5. Len(y) <= n + 1
      BY <2>5, <3>2
    <3> QED
      BY <3>1, <3>2, <3>3, <3>4, <3>5
  <2> QED
    BY <2>7, <2>8
<1>5. \A n \in Nat : n \in T
  <2> HIDE DEF T
  <2> QED
    BY <1>3, <1>4, SetInduction
<1>6. Good(N)
  <2> HIDE DEF Good, N
  <2>1. N \in Nat /\ N <= N
    BY <1>2
  <2>2. N \in T
    <3> HIDE DEF T
    <3> QED
      BY <1>5, <2>1
  <2> QED
    BY <2>1, <2>2
<1>7. \E g : Embeds(g, f[N], q, K)
  BY <1>6 DEF Embeds
<1> QED
  BY <1>1, <1>6, <1>7

-----------------------------------------------------------------------------
(* Facts about the operators of the model.                                 *)

LEMMA RemoveFacts ==
    ASSUME NEW S, NEW q \in Seq(S), NEW i \in DOMAIN q
    PROVE  /\ remove(q, i) \in Seq(S)
           /\ Len(remove(q, i)) = Len(q) - 1
           /\ \A j \in 1..(Len(q) - 1) :
                 remove(q, i)[j] = IF j < i THEN q[j] ELSE q[j + 1]
<1>1. i \in 1..Len(q) /\ Len(q) \in Nat /\ q \in [1..Len(q) -> S]
  BY LenProperties
<1> DEFINE a == SubSeq(q, 1, i - 1)
           b == SubSeq(q, i + 1, Len(q))
<1>2. /\ a \in Seq(S) /\ Len(a) = i - 1
      /\ \A j \in 1..(i - 1) : a[j] = q[j]
  BY <1>1, SubSeqProperties
<1>3. /\ b \in Seq(S) /\ Len(b) = Len(q) - i
      /\ \A j \in 1..(Len(q) - i) : b[j] = q[i + j]
  <2>1. /\ i + 1 \in 1..(Len(q) + 1) /\ Len(q) \in i..Len(q)
        /\ (Len(q) - (i + 1)) + 1 = Len(q) - i
    BY <1>1
  <2>2. \A k \in (i + 1)..Len(q) : q[k] \in S
    BY <1>1
  <2>3. /\ b \in Seq(S)
        /\ Len(b) = IF i + 1 <= Len(q) THEN (Len(q) - (i + 1)) + 1 ELSE 0
        /\ \A j \in 1..((Len(q) - (i + 1)) + 1) : b[j] = q[((i + 1) + j) - 1]
    BY <1>1, <2>1, <2>2, SubSeqProperties
  <2>4. Len(b) = Len(q) - i
    BY <1>1, <2>3
  <2>5. ASSUME NEW j \in 1..(Len(q) - i) PROVE b[j] = q[i + j]
    <3>1. ((i + 1) + j) - 1 = i + j
      BY <1>1
    <3> QED
      BY <2>1, <2>3, <3>1
  <2> QED
    BY <2>3, <2>4, <2>5
<1> HIDE DEF a, b
<1>4. /\ a \o b \in Seq(S) /\ Len(a \o b) = Len(a) + Len(b)
      /\ \A j \in 1..(Len(a) + Len(b)) :
            (a \o b)[j] = IF j <= Len(a) THEN a[j] ELSE b[j - Len(a)]
  BY Zenon, <1>2, <1>3, ConcatProperties
<1>5. remove(q, i) = a \o b
  BY DEF remove, a, b
<1>6. Len(a) + Len(b) = Len(q) - 1
  BY <1>1, <1>2, <1>3
<1>7. ASSUME NEW j \in 1..(Len(q) - 1)
      PROVE  (a \o b)[j] = IF j < i THEN q[j] ELSE q[j + 1]
  <2>1. CASE j < i
    BY <1>1, <1>2, <1>4, <1>6, <2>1
  <2>2. CASE ~(j < i)
    <3>1. (a \o b)[j] = b[j - (i - 1)]
      BY <1>1, <1>2, <1>4, <1>6, <2>2
    <3>2. j - (i - 1) \in 1..(Len(q) - i) /\ i + (j - (i - 1)) = j + 1
      BY <1>1, <2>2
    <3> QED
      BY <1>3, <2>2, <3>1, <3>2
  <2> QED
    BY Zenon, <2>1, <2>2
<1> QED
  BY <1>4, <1>5, <1>6, <1>7

LEMMA JumpFacts ==
    ASSUME NEW S, NEW q \in Seq(S), NEW x \in S
    PROVE  /\ jumpQueue(x, q) \in Seq(S)
           /\ Len(jumpQueue(x, q)) = Len(q) + 1
           /\ jumpQueue(x, q)[1] = x
           /\ \A j \in 1..Len(q) : jumpQueue(x, q)[j + 1] = q[j]
<1>1. <<x>> \in Seq(S) /\ Len(<<x>>) = 1 /\ Len(q) \in Nat
  BY LenProperties
<1>2. /\ <<x>> \o q \in Seq(S) /\ Len(<<x>> \o q) = 1 + Len(q)
      /\ \A j \in 1..(1 + Len(q)) :
            (<<x>> \o q)[j] = IF j <= 1 THEN <<x>>[j] ELSE q[j - 1]
  BY <1>1, ConcatProperties
<1>3. ASSUME NEW j \in 1..Len(q) PROVE (<<x>> \o q)[j + 1] = q[j]
  <2>1. j + 1 \in 1..(1 + Len(q)) /\ ~(j + 1 <= 1) /\ (j + 1) - 1 = j
    BY <1>1
  <2> QED
    BY <1>2, <2>1
<1>4. (<<x>> \o q)[1] = x
  BY <1>1, <1>2
<1> QED
  BY <1>1, <1>2, <1>3, <1>4 DEF jumpQueue

LEMMA FunctionTypes == \A g \in Groups : FunctionType(g) \in PendingType
  BY QueueAssumption DEF PendingType

LEMMA NewSlotType ==
    ASSUME NEW type \in PendingType, NEW pkt \in Packet, NEW r \in Nat, NEW l \in Nat
    PROVE  NewSlot(type, pkt, r, l) \in Slot
  BY DEF NewSlot, Slot

LEMMA OverwriteFacts ==
    ASSUME NEW q \in Seq(Slot), NEW i \in DOMAIN q, NEW pkt \in Packet, NEW r \in Nat
    PROVE  /\ Overwrite(q, i, pkt, r) \in Seq(Slot)
           /\ Len(Overwrite(q, i, pkt, r)) = Len(q)
           /\ \A j \in DOMAIN q : j # i => Overwrite(q, i, pkt, r)[j] = q[j]
<1>1. i \in 1..Len(q) /\ q \in [1..Len(q) -> Slot] /\ Len(q) \in Nat
  BY LenProperties
<1>2. q[i] \in Slot
  BY <1>1
<1>3. [q[i] EXCEPT !.pkt = pkt, !.repeat = r] \in Slot
  BY Zenon, <1>2 DEF Slot
<1> QED
  BY <1>1, <1>3, ExceptSeq DEF Overwrite

LEMMA CoilOffType ==
    ASSUME NEW p \in Slot, ticks \in Nat PROVE CoilOff(p) \in Slot
<1>1. delayOff(p) \in Nat /\ millis \in Nat
  BY QueueAssumption DEF delayOff, millis, Slot
<1>2. (millis + delayOff(p)) % TimeMod \in Nat /\ ticks + delayOff(p) \in Nat
  BY <1>1, QueueAssumption
<1>3. [p.pkt EXCEPT !.kind = "accOff"] \in Packet
  BY DEF Slot, Packet
<1>4. "ACC_OFF" \in PendingType
  BY DEF PendingType
<1> QED
  BY Zenon, <1>2, <1>3, <1>4 DEF CoilOff, Slot

LEMMA LocoIdType == \A p \in Slot : LocoId(p) \in 0..(LocoMod - 1)
  BY QueueAssumption DEF LocoId, Slot

\* The slots an estop keeps.
Kept(l) == SubSeqAt(high, {i \in DOMAIN high : Survives(high[i], l)})

LEMMA KeptFacts ==
    ASSUME TypeOK, NEW l
    PROVE  Kept(l) \in Seq(Slot) /\ Len(Kept(l)) \in 0..Len(high)
  BY SubSeqAtProperties, LenProperties DEF TypeOK, Kept

\* What handing over the slot p = q[i] leaves of the queue q.
Rest(q, i) ==
    IF Stays(q[i]) THEN [q EXCEPT ![i] = OneRepeatLess(q[i])]
                   ELSE remove(q, i)

LEMMA RestFacts ==
    ASSUME NEW q \in Seq(Slot), NEW i \in DOMAIN q
    PROVE  /\ Rest(q, i) \in Seq(Slot)
           /\ Len(Rest(q, i)) = IF Stays(q[i]) THEN Len(q) ELSE Len(q) - 1
<1>1. i \in 1..Len(q) /\ q \in [1..Len(q) -> Slot] /\ Len(q) \in Nat /\ q[i] \in Slot
  BY LenProperties
<1>2. CASE Stays(q[i])
  <2>1. q[i].repeat - 1 \in Nat
    BY <1>1, <1>2 DEF Stays, Slot
  <2>2. OneRepeatLess(q[i]) \in Slot
    BY Zenon, <1>1, <2>1 DEF OneRepeatLess, Slot
  <2> QED
    BY <1>1, <1>2, <2>2, ExceptSeq DEF Rest
<1>3. CASE ~Stays(q[i])
  BY <1>3, RemoveFacts DEF Rest
<1> QED
  BY <1>2, <1>3

-----------------------------------------------------------------------------
(* Type correctness and conservation of slots.                             *)

LEMMA RecordType ==
    ASSUME TypeOK, NEW pkt \in Packet, Record(pkt)
    PROVE  lastTx' \in [Locos -> Nat] /\ coilOn' \subseteq Nat
<1>1. pkt.val \in Nat /\ pkt.loco \in Nat
  BY DEF Packet
<1>2. lastTx' \in [Locos -> Nat]
  BY <1>1 DEF Record, TypeOK
<1>4. coilOn' \subseteq Nat
  <2>1. coilOn' = coilOn \cup {pkt.val} \/ coilOn' = coilOn \ {pkt.val} \/ coilOn' = coilOn
    BY DEF Record
  <2> QED
    BY Zenon, <1>1, <2>1 DEF TypeOK
<1> QED
  BY <1>2, <1>4

LEMMA AcceptType ==
    ASSUME TypeOK, Accept
    PROVE  /\ cmds' \in 0..MaxCmds /\ sent' \in Seq(SentItem) /\ Len(sent') <= 1
           /\ lastSent' \in 0..(LocoMod - 1) /\ ticks' \in Nat
           /\ lastTx' \in [Locos -> Nat] /\ coilOn' \subseteq Nat
<1>1. sent' \in Seq(SentItem) /\ Len(sent') <= 1
  BY EmptySeq DEF Accept
<1> QED
  BY <1>1, QueueAssumption DEF TypeOK, Accept

Bookkeeping == TypeOK /\ SlotConservation

LEMMA Packets ==
    /\ \A l \in Nat, v \in Nat : SpeedPacket(l, v) \in Packet
    /\ \A l \in Nat : [kind |-> "other", loco |-> l, val |-> 0] \in Packet
    /\ \A l \in Nat, v \in {0, 1} : [kind |-> "function", loco |-> l, val |-> v] \in Packet
    /\ \A a \in Nat : [kind |-> "accOn", loco |-> 0, val |-> a] \in Packet
    /\ IdlePacket \in Packet
  BY DEF Packet, SpeedPacket, IdlePacket

\* getSlot takes one slot, whatever the length of the recycle list.
LEMMA GetSlotFacts ==
    ASSUME NEW avail \in Nat, created \in Nat, getSlot(avail)
    PROVE  /\ free' \in Nat /\ created' \in Nat
           /\ created' = free' + ((created - avail) + 1)
  BY DEF getSlot

LEMMA AppendFacts ==
    ASSUME NEW q \in Seq(Slot), NEW x \in Slot
    PROVE  Append(q, x) \in Seq(Slot) /\ Len(Append(q, x)) = Len(q) + 1 /\ Len(q) \in Nat
  BY AppendProperties, LenProperties

LEMMA CommandKeepsBookkeeping ==
    ASSUME Bookkeeping, Command PROVE Bookkeeping'
<1> USE DEF Bookkeeping
<1>0. high \in Seq(Slot) /\ low \in Seq(Slot) /\ cmd \in [Locos -> Nat]
  BY DEF TypeOK
<1>n. /\ free \in Nat /\ created \in Nat /\ Len(high) \in Nat /\ Len(low) \in Nat
      /\ Len(high) + Len(low) + free = created
  BY LenProperties DEF TypeOK, SlotConservation
<1>l. \A l \in Locos \cup {0} : l \in Nat
  BY QueueAssumption
<1>s. {"NORMAL", "SPEED", "ACC_ON", "ACC_OFF"} \subseteq PendingType
  BY DEF PendingType
<1>1. ASSUME NEW l \in Locos \cup {0}, NEW r \in PacketRepeats, scheduleDCCPacket(l, r)
      PROVE  Bookkeeping'
  <2> DEFINE x == NewSlot("NORMAL", [kind |-> "other", loco |-> l, val |-> 0], r, l)
  <2>1. r \in Nat /\ x \in Slot
    BY <1>l, <1>s, Packets, NewSlotType, QueueAssumption
  <2> HIDE DEF x
  <2>2. low' = Append(low, x) /\ high' = high /\ cmd' = cmd /\ Accept /\ getSlot(free)
    BY <1>1 DEF scheduleDCCPacket, x
  <2>3. low' \in Seq(Slot)
    BY <1>0, <2>1, <2>2, AppendFacts
  <2>l. Len(low') = Len(low) + 1
    BY <1>0, <2>1, <2>2, AppendFacts
  <2>4. free' \in Nat /\ created' \in Nat /\ created' = free' + ((created - free) + 1)
    BY <1>n, <2>2, GetSlotFacts
  <2>5. Len(high) + Len(low') + free' = created'
    BY ONLY <1>n, <2>l, <2>4
  <2> QED
    BY Zenon, <1>0, <2>2, <2>3, <2>4, <2>5, AcceptType DEF TypeOK, SlotConservation, SentItem
<1>2. ASSUME NEW l \in Locos, NEW v \in Speeds, scheduleDCCSpeedPacket(l, v)
      PROVE  Bookkeeping'
  <2>1. v \in Nat /\ SpeedPacket(l, v) \in Packet
    BY <1>l, Packets, QueueAssumption
  <2> DEFINE x == NewSlot("SPEED", SpeedPacket(l, v), 0, l)
  <2>2. x \in Slot
    BY <1>l, <1>s, <2>1, NewSlotType
  <2> HIDE DEF x
  <2>3. low' = low /\ cmd' = [cmd EXCEPT ![l] = v] /\ Accept
    BY <1>2 DEF scheduleDCCSpeedPacket
  <2>4. high' \in Seq(Slot) /\ free' \in Nat /\ created' \in Nat /\ Len(high') + Len(low) + free' = created'
    <3>1. CASE \E i \in DOMAIN high : /\ high' = Overwrite(high, i, SpeedPacket(l, v), 0)
                                      /\ UNCHANGED <<free, created>>
      <4>1. PICK i \in DOMAIN high : /\ high' = Overwrite(high, i, SpeedPacket(l, v), 0)
                                   /\ UNCHANGED <<free, created>>
        BY <3>1
      <4>2. high' \in Seq(Slot) /\ Len(high') = Len(high)
        BY <1>0, <2>1, <4>1, OverwriteFacts
      <4> QED
        BY <1>n, <4>1, <4>2
    <3>2. CASE high' = Append(high, x) /\ getSlot(free)
      <4>1. high' \in Seq(Slot)
        BY <1>0, <2>2, <3>2, AppendFacts
      <4>2. Len(high') = Len(high) + 1
        BY <1>0, <2>2, <3>2, AppendFacts
      <4>3. free' \in Nat /\ created' \in Nat /\ created' = free' + ((created - free) + 1)
        BY <1>n, <3>2, GetSlotFacts
      <4>4. Len(high') + Len(low) + free' = created'
        BY ONLY <1>n, <4>2, <4>3
      <4> QED
        BY <4>1, <4>3, <4>4
    <3> QED
      BY <1>2, <3>1, <3>2 DEF scheduleDCCSpeedPacket, x
  <2>5. cmd' \in [Locos -> Nat]
    BY <1>0, <2>1, <2>3
  <2>6. SlotConservation'
    BY <2>3, <2>4 DEF SlotConservation
  <2> QED
    BY Zenon, <1>0, <2>3, <2>4, <2>5, <2>6, AcceptType DEF TypeOK, SentItem
<1>3. ASSUME NEW l \in Locos, NEW g \in Groups, NEW v \in {0, 1},
             scheduleDCCFunctionPacket(l, g, v)
      PROVE  Bookkeeping'
  <2> DEFINE pkt == [kind |-> "function", loco |-> l, val |-> v]
             x == NewSlot(FunctionType(g), pkt, 0, l)
  <2>1. pkt \in Packet
    BY Zenon, <1>l, Packets
  <2>2. x \in Slot
    BY <1>l, <2>1, FunctionTypes, NewSlotType
  <2>3. high' = high /\ cmd' = cmd /\ Accept
    BY <1>3 DEF scheduleDCCFunctionPacket
  <2>4. \/ \E i \in DOMAIN low : /\ low' = Overwrite(low, i, pkt, 0)
                                 /\ UNCHANGED <<free, created>>
        \/ low' = Append(low, x) /\ getSlot(free)
    BY <1>3 DEF scheduleDCCFunctionPacket
  <2> HIDE DEF pkt, x
  <2>5. low' \in Seq(Slot) /\ free' \in Nat /\ created' \in Nat /\ Len(high) + Len(low') + free' = created'
    <3>1. CASE \E i \in DOMAIN low : /\ low' = Overwrite(low, i, pkt, 0)
                                     /\ UNCHANGED <<free, created>>
      <4>1. PICK i \in DOMAIN low : /\ low' = Overwrite(low, i, pkt, 0)
                                   /\ UNCHANGED <<free, created>>
        BY <3>1
      <4>2. low' \in Seq(Slot) /\ Len(low') = Len(low)
        BY <1>0, <2>1, <4>1, OverwriteFacts
      <4> QED
        BY <1>n, <4>1, <4>2
    <3>2. CASE low' = Append(low, x) /\ getSlot(free)
      <4>1. low' \in Seq(Slot)
        BY <1>0, <2>2, <3>2, AppendFacts
      <4>2. Len(low') = Len(low) + 1
        BY <1>0, <2>2, <3>2, AppendFacts
      <4>3. free' \in Nat /\ created' \in Nat /\ created' = free' + ((created - free) + 1)
        BY <1>n, <3>2, GetSlotFacts
      <4>4. Len(high) + Len(low') + free' = created'
        BY ONLY <1>n, <4>2, <4>3
      <4> QED
        BY <4>1, <4>3, <4>4
    <3> QED
      BY <2>4, <3>1, <3>2
  <2>6. SlotConservation'
    BY <2>3, <2>5 DEF SlotConservation
  <2> QED
    BY Zenon, <1>0, <2>3, <2>5, <2>6, AcceptType DEF TypeOK, SentItem
<1>4. ASSUME NEW l \in Locos \cup {0}, scheduleEstopPacket(l) PROVE Bookkeeping'
  <2> DEFINE x == NewSlot("SPEED", SpeedPacket(l, Estop), EstopRepeats, 0)
             avail == free + Len(high) - Len(Kept(l))
  <2>1. x \in Slot
    <3>1. SpeedPacket(l, Estop) \in Packet /\ EstopRepeats \in Nat
      BY <1>l, Packets, QueueAssumption DEF Estop
    <3> QED
      BY <1>s, <3>1, NewSlotType
  <2>2. Kept(l) \in Seq(Slot) /\ Len(Kept(l)) \in 0..Len(high)
    BY KeptFacts
  <2>3. /\ high' = jumpQueue(x, Kept(l)) /\ getSlot(avail) /\ low' = low /\ Accept
        /\ cmd' = [k \in Locos |-> IF l \in {0, k} THEN Estop ELSE cmd[k]]
    BY <1>4 DEF scheduleEstopPacket, Kept
  <2> HIDE DEF x
  <2>4. high' \in Seq(Slot)
    BY <2>1, <2>2, <2>3, JumpFacts
  <2>l. Len(high') = Len(Kept(l)) + 1 /\ Len(Kept(l)) \in 0..Len(high)
    BY <2>1, <2>2, <2>3, JumpFacts
  <2>5. avail \in Nat
    BY ONLY <1>n, <2>l
  <2>6. free' \in Nat /\ created' \in Nat /\ created' = free' + ((created - avail) + 1)
    BY <1>n, <2>3, <2>5, GetSlotFacts
  <2>7. Len(high') + Len(low) + free' = created'
    BY ONLY SMTT(30), <1>n, <2>l, <2>6
  <2>8. cmd' \in [Locos -> Nat]
    BY <1>0, <2>3 DEF Estop
  <2> QED
    BY Zenon, <1>0, <2>3, <2>4, <2>6, <2>7, <2>8, AcceptType DEF TypeOK, SlotConservation, SentItem
<1>5. ASSUME NEW a \in Accs, scheduleAccOnOffPacket(a) PROVE Bookkeeping'
  <2> DEFINE new == NewSlot("ACC_ON", [kind |-> "accOn", loco |-> 0, val |-> a],
                            AccRepeats, 0)
             x == [new EXCEPT !.u = Delay]
  <2>1. new \in Slot
    BY <1>s, Packets, NewSlotType, QueueAssumption
  <2>2. x \in Slot
    BY <2>1, QueueAssumption DEF Slot
  <2>3. low' = Append(low, x) /\ high' = high /\ cmd' = cmd /\ Accept /\ getSlot(free)
    BY <1>5 DEF scheduleAccOnOffPacket
  <2> HIDE DEF new, x
  <2>4. low' \in Seq(Slot)
    BY <1>0, <2>2, <2>3, AppendFacts
  <2>l. Len(low') = Len(low) + 1
    BY <1>0, <2>2, <2>3, AppendFacts
  <2>5. free' \in Nat /\ created' \in Nat /\ created' = free' + ((created - free) + 1)
    BY <1>n, <2>3, GetSlotFacts
  <2>6. Len(high) + Len(low') + free' = created'
    BY ONLY <1>n, <2>l, <2>5
  <2> QED
    BY Zenon, <1>0, <2>3, <2>4, <2>5, <2>6, AcceptType DEF TypeOK, SlotConservation, SentItem
<1> QED
  BY <1>1, <1>2, <1>3, <1>4, <1>5 DEF Command

LEMMA SendKeepsBookkeeping ==
    ASSUME Bookkeeping, NEW force \in BOOLEAN, scheduleNext(force)
    PROVE  Bookkeeping'
<1> USE DEF Bookkeeping
<1>0. high \in Seq(Slot) /\ low \in Seq(Slot) /\ ticks \in Nat /\ TypeOK
  BY DEF TypeOK
<1>n. /\ free \in Nat /\ created \in Nat /\ Len(high) \in Nat /\ Len(low) \in Nat
      /\ Len(high) + Len(low) + free = created
  BY LenProperties DEF TypeOK, SlotConservation
<1>1. ASSUME NEW q, NEW i, q \in Seq(Slot), i \in DOMAIN q, NEW isHigh \in BOOLEAN,
             q = IF isHigh THEN high ELSE low, SendFrom(q, i, isHigh)
      PROVE  Bookkeeping'
  <2> DEFINE rest == Rest(q, i)
             others == IF isHigh THEN rest ELSE high
             convert == ~Stays(q[i]) /\ q[i].type = "ACC_ON"
  <2>1. q[i] \in Slot /\ q[i].pkt \in Packet /\ LocoId(q[i]) \in 0..(LocoMod - 1)
    <3>1. q[i] \in Slot
      BY <1>1, ElementOfSeq
    <3> QED
      BY <3>1, LocoIdType DEF Slot
  <2>2. rest \in Seq(Slot)
    BY <1>1, RestFacts
  <2>3. /\ Len(rest) = IF Stays(q[i]) THEN Len(q) ELSE Len(q) - 1
        /\ Len(q) \in Nat /\ Len(q) >= 1
    BY <1>1, RestFacts, LenProperties
  <2>4. /\ high' = IF convert THEN jumpQueue(CoilOff(q[i]), others) ELSE others
        /\ low' = IF isHigh THEN low ELSE rest
        /\ free' = IF Stays(q[i]) \/ convert THEN free ELSE free + 1
        /\ lastSent' = LocoId(q[i]) /\ Record(q[i].pkt)
        /\ created' = created /\ ticks' = ticks /\ cmds' = cmds /\ cmd' = cmd
    BY <1>1 DEF SendFrom, Rest
  <2>5. sent' \in Seq(SentItem) /\ Len(sent') <= 1
    <3> DEFINE x == [pkt |-> q[i].pkt, due |-> q[i].due,
                     repeats |-> IF LocoId(q[i]) # 0 THEN 0 ELSE q[i].repeat]
    <3>1. x \in SentItem
      BY <2>1 DEF SentItem, Slot
    <3>2. sent' = <<x>>
      BY <1>1 DEF SendFrom
    <3> HIDE DEF x
    <3> QED
      BY <3>1, <3>2
  <2>6. CoilOff(q[i]) \in Slot
    BY SMTT(30), <1>0, <2>1, CoilOffType
  <2> HIDE DEF rest
  <2>7. high' \in Seq(Slot) /\ low' \in Seq(Slot)
    <3>1. others \in Seq(Slot)
      BY <1>0, <2>2
    <3> HIDE DEF others
    <3> QED
      BY <1>0, <2>2, <2>4, <2>6, <3>1, JumpFacts
  <2>8. /\ Len(high') = IF convert THEN Len(others) + 1 ELSE Len(others)
        /\ Len(low') = IF isHigh THEN Len(low) ELSE Len(rest)
        /\ Len(others) = IF isHigh THEN Len(rest) ELSE Len(high)
        /\ Len(q) = IF isHigh THEN Len(high) ELSE Len(low)
    <3>1. others \in Seq(Slot)
      BY <1>0, <2>2
    <3>2. Len(others) = IF isHigh THEN Len(rest) ELSE Len(high)
      OBVIOUS
    <3> HIDE DEF others
    <3>3. Len(high') = IF convert THEN Len(others) + 1 ELSE Len(others)
      BY <2>4, <2>6, <3>1, JumpFacts
    <3> QED
      BY <1>1, <2>4, <3>2, <3>3
  <2>9. free' \in Nat
    BY <1>n, <2>4
  <2>10. Len(high') + Len(low') + free' = created'
    <3>1. free' = IF Stays(q[i]) \/ convert THEN free ELSE free + 1
      BY <2>4
    <3>2. created' = created
      BY <2>4
    <3>3. ~(convert /\ Stays(q[i]))
      OBVIOUS
    <3> HIDE DEF others, convert
    <3>4. Len(rest) \in Nat /\ Len(rest) = (IF Stays(q[i]) THEN Len(q) ELSE Len(q) - 1)
      BY ONLY <2>3
    <3>5. CASE Stays(q[i])
      <4>1. Len(high') = Len(high) /\ Len(low') = Len(low) /\ free' = free
        BY ONLY <2>8, <3>1, <3>3, <3>4, <3>5
      <4> QED
        BY ONLY <1>n, <3>2, <4>1
    <3>6. CASE convert /\ ~Stays(q[i])
      <4>1. CASE isHigh
        <5>1. Len(high') = (Len(high) - 1) + 1 /\ Len(low') = Len(low) /\ free' = free
          BY ONLY <2>8, <3>1, <3>4, <3>6, <4>1
        <5> QED
          BY ONLY <1>n, <3>2, <5>1
      <4>2. CASE ~isHigh
        <5>1. Len(high') = Len(high) + 1 /\ Len(low') = Len(low) - 1 /\ free' = free
          BY ONLY <2>8, <3>1, <3>4, <3>6, <4>2
        <5> QED
          BY ONLY <1>n, <3>2, <5>1
      <4> QED
        BY <4>1, <4>2
    <3>7. CASE ~convert /\ ~Stays(q[i])
      <4>1. CASE isHigh
        <5>1. Len(high') = Len(high) - 1 /\ Len(low') = Len(low) /\ free' = free + 1
          BY ONLY <2>8, <3>1, <3>4, <3>7, <4>1
        <5> QED
          BY ONLY <1>n, <3>2, <5>1
      <4>2. CASE ~isHigh
        <5>1. Len(high') = Len(high) /\ Len(low') = Len(low) - 1 /\ free' = free + 1
          BY ONLY <2>8, <3>1, <3>4, <3>7, <4>2
        <5> QED
          BY ONLY <1>n, <3>2, <5>1
      <4> QED
        BY <4>1, <4>2
    <3> QED
      BY <3>3, <3>5, <3>6, <3>7
  <2>11. lastTx' \in [Locos -> Nat] /\ coilOn' \subseteq Nat
    BY <1>0, <2>1, <2>4, RecordType
  <2> QED
    BY Zenon, <1>0, <1>n, <2>1, <2>4, <2>5, <2>7, <2>9, <2>10, <2>11
       DEF TypeOK, SlotConservation, SentItem
<1>2. ASSUME scheduleIdle PROVE Bookkeeping'
  <2>1. lastTx' \in [Locos -> Nat] /\ coilOn' \subseteq Nat
    BY <1>0, <1>2, Packets, RecordType DEF scheduleIdle
  <2>2. sent' \in Seq(SentItem) /\ Len(sent') <= 1
    <3> DEFINE x == [pkt |-> IdlePacket, due |-> 0, repeats |-> 0]
    <3>1. x \in SentItem
      BY Packets DEF SentItem
    <3>2. sent' = <<x>>
      BY <1>2 DEF scheduleIdle
    <3> HIDE DEF x
    <3> QED
      BY <3>1, <3>2
  <2>3. 0 \in 0..(LocoMod - 1)
    BY QueueAssumption
  <2> QED
    BY <1>0, <1>2, <2>1, <2>2, <2>3 DEF scheduleIdle, TypeOK, SlotConservation, SentItem
<1>3. CASE scheduleNextInternal(high, TRUE)
  <2>1. PICK i \in DOMAIN high : SendFrom(high, i, TRUE)
    BY Zenon, <1>3 DEF scheduleNextInternal
  <2> QED
    BY Zenon, <1>0, <1>1, <2>1
<1>4. CASE scheduleNextInternal(low, FALSE)
  <2>1. PICK i \in DOMAIN low : SendFrom(low, i, FALSE)
    BY Zenon, <1>4 DEF scheduleNextInternal
  <2> QED
    BY Zenon, <1>0, <1>1, <2>1
<1> QED
  BY Zenon, <1>2, <1>3, <1>4 DEF scheduleNext

\* Init, every step of DCCQueue.cpp and stuttering keep the bookkeeping.
LEMMA BookkeepingInductive ==
    /\ Init => Bookkeeping
    /\ Bookkeeping /\ [Next]_vars => Bookkeeping'
<1>1. ASSUME Init PROVE Bookkeeping
  <2>1. <<>> \in Seq(Slot) /\ <<>> \in Seq(SentItem) /\ Len(<<>>) = 0
    BY EmptySeq
  <2> QED
    BY <1>1, <2>1, QueueAssumption DEF Init, Bookkeeping, TypeOK, SlotConservation, SentItem
<1>2. ASSUME Bookkeeping, Tick PROVE Bookkeeping'
  <2>1. <<>> \in Seq(SentItem) /\ Len(<<>>) <= 1
    BY EmptySeq
  <2> QED
    BY <1>2, <2>1 DEF Tick, code, history, Bookkeeping, TypeOK, SlotConservation, SentItem
<1>3. ASSUME Bookkeeping, UNCHANGED vars PROVE Bookkeeping'
  BY <1>3 DEF vars, code, history, Bookkeeping, TypeOK, SlotConservation, SentItem
<1> QED
  BY <1>1, <1>2, <1>3, CommandKeepsBookkeeping, SendKeepsBookkeeping DEF Next

\* Every variable of the model keeps the type of the field it stands for.
THEOREM TypeCorrect == Spec => []TypeOK
<1>1. Bookkeeping => TypeOK
  BY DEF Bookkeeping
<1> QED
  BY <1>1, BookkeepingInductive, PTL DEF Spec

\* No queue operation leaks a slot or links it into two lists: the leak that
\* getSlot reports by counting its queues cannot happen, for any number of
\* locos, accessories and repeats.
THEOREM SlotsConserved == Spec => []SlotConservation
<1>1. Bookkeeping => SlotConservation
  BY DEF Bookkeeping
<1> QED
  BY <1>1, BookkeepingInductive, PTL DEF Spec

-----------------------------------------------------------------------------
(* Freshness of the speeds that are sent.                                  *)

\* A slot of the high queue, when c[l] is the speed last commanded for l: a
\* coil-off, an estop queued as loco 0, or the current speed of one loco.
GoodSlot(s, c) ==
    /\ s.type \in {"SPEED", "ACC_OFF"}
    /\ s.pkt.kind = "speed" <=> s.type = "SPEED"
    /\ s.type = "SPEED" => \/ s.pkt.val = Estop /\ s.u = 0
                           \/ s.u \in Locos /\ s.pkt.loco = s.u /\ s.pkt.val = c[s.u]

GoodQueue(q, c) ==
    /\ \A i \in DOMAIN q : GoodSlot(q[i], c)
    /\ \A i, j \in DOMAIN q :
         /\ q[i].type = "SPEED" /\ q[j].type = "SPEED"
         /\ q[i].u \in Locos /\ q[i].u = q[j].u
         => i = j

\* The inductive invariant behind SentSpeedIsLatest.
Fresh ==
    /\ GoodQueue(high, cmd)
    /\ \A i \in DOMAIN low : low[i].pkt.kind # "speed"
    /\ SentSpeedIsLatest

\* Every slot of r is, but for its repeats, a slot of q of its own.
Within(r, q, g) ==
    /\ g \in [DOMAIN r -> DOMAIN q]
    /\ \A i, j \in DOMAIN r : g[i] = g[j] => i = j
    /\ \A i \in DOMAIN r : /\ r[i].type = q[g[i]].type
                           /\ r[i].u = q[g[i]].u /\ r[i].pkt = q[g[i]].pkt

LEMMA GoodWithin ==
    ASSUME NEW q, NEW r, NEW c, NEW g, GoodQueue(q, c), Within(r, q, g)
    PROVE  GoodQueue(r, c)
<1>1. ASSUME NEW i \in DOMAIN r PROVE GoodSlot(r[i], c)
  <2>1. g[i] \in DOMAIN q
    BY DEF Within
  <2>2. GoodSlot(q[g[i]], c)
    BY <2>1 DEF GoodQueue
  <2>3. r[i].type = q[g[i]].type /\ r[i].u = q[g[i]].u /\ r[i].pkt = q[g[i]].pkt
    BY DEF Within
  <2> QED
    BY <2>2, <2>3 DEF GoodSlot
<1>2. ASSUME NEW i \in DOMAIN r, NEW j \in DOMAIN r,
             r[i].type = "SPEED", r[j].type = "SPEED", r[i].u \in Locos, r[i].u = r[j].u
      PROVE  i = j
  <2>1. g[i] \in DOMAIN q /\ g[j] \in DOMAIN q
    BY DEF Within
  <2>2. /\ q[g[i]].type = "SPEED" /\ q[g[j]].type = "SPEED"
        /\ q[g[i]].u \in Locos /\ q[g[i]].u = q[g[j]].u
    BY <1>2 DEF Within
  <2>3. g[i] = g[j]
    BY <2>1, <2>2 DEF GoodQueue
  <2> QED
    BY <2>3 DEF Within
<1> QED
  BY SMTT(30), <1>1, <1>2 DEF GoodQueue

LEMMA RestWithin ==
    ASSUME NEW q \in Seq(Slot), NEW i \in DOMAIN q
    PROVE  \E g : Within(Rest(q, i), q, g)
<1>1. i \in 1..Len(q) /\ Len(q) \in Nat /\ DOMAIN q = 1..Len(q)
  BY LenProperties
<1>2. CASE Stays(q[i])
  <2> DEFINE r == [q EXCEPT ![i] = OneRepeatLess(q[i])]
             g == [j \in DOMAIN q |-> j]
  <2>1. DOMAIN r = DOMAIN q /\ \A j \in DOMAIN q : j # i => r[j] = q[j]
    OBVIOUS
  <2>2. r[i] = OneRepeatLess(q[i])
    BY <1>1
  <2>3. q[i] \in Slot
    BY ElementOfSeq
  <2>4. /\ r[i].type = q[i].type
        /\ r[i].u = q[i].u /\ r[i].pkt = q[i].pkt
    BY Zenon, <2>2, <2>3 DEF OneRepeatLess, Slot
  <2> HIDE DEF r
  <2>5. Within(r, q, g)
    BY <2>1, <2>4 DEF Within
  <2> QED
    BY <1>2, <2>5 DEF Rest, r
<1>3. CASE ~Stays(q[i])
  <2> DEFINE r == remove(q, i)
             g == [j \in 1..(Len(q) - 1) |-> IF j < i THEN j ELSE j + 1]
  <2>1. /\ Len(r) = Len(q) - 1 /\ r \in Seq(Slot)
        /\ \A j \in 1..(Len(q) - 1) : r[j] = IF j < i THEN q[j] ELSE q[j + 1]
    BY Zenon, RemoveFacts
  <2>2. DOMAIN r = 1..(Len(q) - 1)
    BY <2>1, LenProperties
  <2> HIDE DEF r
  <2>3. \A j \in 1..(Len(q) - 1) : g[j] \in 1..Len(q) /\ r[j] = q[g[j]]
    BY <1>1, <2>1
  <2>4. \A j, k \in 1..(Len(q) - 1) : g[j] = g[k] => j = k
    BY <1>1
  <2>5. g \in [1..(Len(q) - 1) -> 1..Len(q)]
    BY <2>3
  <2> HIDE DEF g
  <2>6. Within(r, q, g)
    BY Zenon, <1>1, <2>2, <2>3, <2>4, <2>5 DEF Within
  <2> QED
    BY <1>3, <2>6 DEF Rest, r
<1> QED
  BY <1>2, <1>3

\* What an estop keeps lies within the queue and survives the estop.
LEMMA KeptWithin ==
    ASSUME TypeOK, NEW l
    PROVE  \E g : /\ Within(Kept(l), high, g)
                  /\ \A i \in DOMAIN Kept(l) : Survives(Kept(l)[i], l)
<1> DEFINE K == {i \in DOMAIN high : Survives(high[i], l)}
<1>1. high \in Seq(Slot) /\ DOMAIN high = 1..Len(high)
  BY LenProperties DEF TypeOK
<1>2. Kept(l) = SubSeqAt(high, K)
  BY DEF Kept
<1> DEFINE r == SubSeqAt(high, K)
<1> HIDE DEF K
<1>3. r \in Seq(Slot) /\ \E g : Embeds(g, r, high, K)
  BY <1>1, SubSeqAtProperties
<1> HIDE DEF r
<1>4. PICK g : Embeds(g, r, high, K)
  BY <1>3
<1>5. DOMAIN r = 1..Len(r) /\ Len(r) \in Nat
  BY <1>3, LenProperties
<1>6. /\ g \in [DOMAIN r -> DOMAIN high]
      /\ \A j \in DOMAIN r : g[j] \in K /\ r[j] = high[g[j]]
  BY <1>1, <1>4, <1>5 DEF Embeds
<1>7. ASSUME NEW i \in DOMAIN r, NEW j \in DOMAIN r, g[i] = g[j] PROVE i = j
  <2>1. i \in Nat /\ j \in Nat /\ g[i] \in 1..Len(high) /\ Len(high) \in Nat
    BY <1>1, <1>5, <1>6, LenProperties
  <2>2. /\ i < j => g[i] < g[j]
        /\ j < i => g[j] < g[i]
    BY <1>4, <1>5 DEF Embeds
  <2> QED
    BY <1>7, <2>1, <2>2
<1>8. Within(r, high, g)
  BY <1>6, <1>7 DEF Within
<1>9. \A i \in DOMAIN r : Survives(r[i], l)
  BY <1>6 DEF K
<1> QED
  BY <1>2, <1>8, <1>9 DEF r

\* A slot put in front keeps a queue good if it reads as none of the locos.
LEMMA GoodJump ==
    ASSUME NEW q \in Seq(Slot), NEW x \in Slot, NEW c, GoodQueue(q, c),
           GoodSlot(x, c), x.type = "SPEED" => x.u \notin Locos
    PROVE  GoodQueue(jumpQueue(x, q), c)
<1> DEFINE r == jumpQueue(x, q)
<1>1. /\ r[1] = x /\ \A j \in 1..Len(q) : r[j + 1] = q[j]
      /\ DOMAIN r = 1..(Len(q) + 1) /\ DOMAIN q = 1..Len(q) /\ Len(q) \in Nat
  BY JumpFacts, LenProperties
<1> HIDE DEF r
<1>2. \A i \in DOMAIN r : i = 1 \/ (i - 1 \in DOMAIN q /\ r[i] = q[i - 1])
  <2>1. ASSUME NEW i \in DOMAIN r, i # 1 PROVE i - 1 \in DOMAIN q /\ r[i] = q[i - 1]
    <3>1. i - 1 \in 1..Len(q) /\ (i - 1) + 1 = i
      BY <1>1, <2>1
    <3> QED
      BY <1>1, <3>1
  <2> QED
    BY <2>1
<1>3. \A i \in DOMAIN r : GoodSlot(r[i], c)
  BY <1>1, <1>2 DEF GoodQueue
<1>4. ASSUME NEW i \in DOMAIN r, NEW j \in DOMAIN r,
             r[i].type = "SPEED", r[j].type = "SPEED", r[i].u \in Locos, r[i].u = r[j].u
      PROVE  i = j
  <2>1. i # 1 /\ j # 1
    BY <1>1, <1>4
  <2>2. /\ i - 1 \in DOMAIN q /\ r[i] = q[i - 1]
        /\ j - 1 \in DOMAIN q /\ r[j] = q[j - 1]
    BY <1>2, <2>1
  <2>3. i - 1 = j - 1
    BY <1>4, <2>2 DEF GoodQueue
  <2>4. i \in Nat /\ j \in Nat
    BY <1>1
  <2> QED
    BY <2>3, <2>4
<1> QED
  BY SMTT(30), <1>3, <1>4 DEF GoodQueue, r

\* A queue good for c is good for any d that agrees with c on its speeds.
LEMMA GoodAgrees ==
    ASSUME NEW q, NEW c, NEW d, GoodQueue(q, c),
           \A i \in DOMAIN q : q[i].type = "SPEED" /\ q[i].u \in Locos => d[q[i].u] = c[q[i].u]
    PROVE  GoodQueue(q, d)
  BY DEF GoodQueue, GoodSlot

LEMMA LocoIdOfLoco == \A s \in Slot : s.u \in Locos \cup {0} => LocoId(s) = s.u
<1>1. ASSUME NEW n \in Nat, n < LocoMod PROVE n % LocoMod = n
  BY <1>1, QueueAssumption
<1>2. \A n \in Locos \cup {0} : n \in Nat /\ n < LocoMod
  BY QueueAssumption
<1> QED
  BY <1>1, <1>2 DEF LocoId

LEMMA SpeedKeepsFresh ==
    ASSUME TypeOK, Fresh, NoAlias, NEW l \in Locos, NEW v \in Speeds,
           scheduleDCCSpeedPacket(l, v)
    PROVE  GoodQueue(high', cmd')
<1>1. high \in Seq(Slot) /\ cmd \in [Locos -> Nat] /\ GoodQueue(high, cmd)
  BY DEF TypeOK, Fresh
<1>2. cmd' = [cmd EXCEPT ![l] = v] /\ l \in Nat /\ l # 0 /\ v \in Nat
  BY QueueAssumption DEF scheduleDCCSpeedPacket
<1>3. cmd'[l] = v /\ \A k \in Locos : k # l => cmd'[k] = cmd[k]
  BY <1>1, <1>2
<1>4. SpeedPacket(l, v) \in Packet
  BY <1>2, Packets
<1>5. \A i \in DOMAIN high : high[i] \in Slot /\ GoodSlot(high[i], cmd)
  BY <1>1, ElementOfSeq DEF GoodQueue
<1>6. ASSUME NEW i \in DOMAIN high, LocoId(high[i]) = l,
             high' = Overwrite(high, i, SpeedPacket(l, v), 0)
      PROVE  GoodQueue(high', cmd')
  <2>1. high[i].type = "SPEED" /\ high[i].u = l
    <3>1. high[i].type = "SPEED"
      BY <1>5, <1>6 DEF NoAlias, GoodSlot
    <3>2. high[i].u \in Locos \cup {0}
      BY <1>5, <3>1 DEF GoodSlot
    <3> QED
      BY <1>5, <1>6, <3>1, <3>2, LocoIdOfLoco
  <2>2. DOMAIN high' = DOMAIN high /\ \A j \in DOMAIN high : j # i => high'[j] = high[j]
    BY <1>1, <1>6 DEF Overwrite
  <2>3. high'[i] = [high[i] EXCEPT !.pkt = SpeedPacket(l, v), !.repeat = 0]
    BY <1>1, <1>6 DEF Overwrite
  <2>4. high'[i].type = "SPEED" /\ high'[i].u = l /\ high'[i].pkt = SpeedPacket(l, v)
    BY <1>5, <2>1, <2>3 DEF Slot
  <2>5. GoodSlot(high'[i], cmd')
    BY <1>3, <2>4 DEF GoodSlot, SpeedPacket
  <2>6. ASSUME NEW j \in DOMAIN high, j # i PROVE GoodSlot(high'[j], cmd')
    <3>1. high'[j] = high[j] /\ GoodSlot(high[j], cmd)
      BY <1>5, <2>2, <2>6
    <3>2. high[j].type = "SPEED" => high[j].u # l
      BY <1>1, <2>1, <2>6 DEF GoodQueue
    <3> QED
      BY <1>3, <3>1, <3>2 DEF GoodSlot
  <2>7. \A j \in DOMAIN high : high'[j].type = high[j].type /\ high'[j].u = high[j].u
    BY <2>1, <2>2, <2>4
  <2> QED
    BY <1>1, <2>2, <2>5, <2>6, <2>7 DEF GoodQueue
<1>7. ASSUME \A i \in DOMAIN high : LocoId(high[i]) # l,
             high' = Append(high, NewSlot("SPEED", SpeedPacket(l, v), 0, l))
      PROVE  GoodQueue(high', cmd')
  <2> DEFINE x == NewSlot("SPEED", SpeedPacket(l, v), 0, l)
             n == Len(high) + 1
  <2>1. GoodSlot(x, cmd') /\ x.type = "SPEED" /\ x.u = l
    BY <1>3 DEF GoodSlot, SpeedPacket, NewSlot
  <2>x. x \in Slot
    BY <1>2, <1>4, NewSlotType DEF PendingType
  <2> HIDE DEF x
  <2>2. /\ DOMAIN high' = DOMAIN high \cup {n} /\ n \notin DOMAIN high
        /\ high'[n] = x /\ \A j \in DOMAIN high : high'[j] = high[j]
    <3>1. high' = Append(high, x)
      BY <1>7 DEF x
    <3>2. /\ Len(high) \in Nat /\ Len(high') = n /\ high' \in Seq(Slot)
          /\ \A j \in 1..Len(high) : high'[j] = high[j]
          /\ high'[n] = x
      BY <1>1, <2>x, <3>1, AppendProperties, LenProperties
    <3>3. DOMAIN high = 1..Len(high) /\ DOMAIN high' = 1..n
      BY <1>1, <3>2, LenProperties
    <3>4. 1..n = (1..Len(high)) \cup {n} /\ n \notin 1..Len(high)
      BY ONLY <3>2
    <3> QED
      BY <3>2, <3>3, <3>4
  <2> HIDE DEF n
  <2>3. ASSUME NEW j \in DOMAIN high PROVE high[j].type = "SPEED" => high[j].u # l
    BY SMTT(30), <1>2, <1>5, <1>7, LocoIdOfLoco
  <2>4. \A j \in DOMAIN high : GoodSlot(high[j], cmd')
    BY SMTT(30), <1>3, <1>5, <2>3 DEF GoodSlot
  <2>5. \A j \in DOMAIN high' : GoodSlot(high'[j], cmd')
    BY <2>1, <2>2, <2>4
  <2>6. ASSUME NEW j \in DOMAIN high', NEW k \in DOMAIN high',
               high'[j].type = "SPEED", high'[k].type = "SPEED",
               high'[j].u \in Locos, high'[j].u = high'[k].u
        PROVE  j = k
    <3>1. CASE j = n \/ k = n
      BY SMTT(30), <2>1, <2>2, <2>3, <2>6, <3>1
    <3>2. CASE j # n /\ k # n
      BY <1>1, <2>2, <2>6, <3>2 DEF GoodQueue
    <3> QED
      BY SMTT(30), <3>1, <3>2
  <2> QED
    BY <2>5, <2>6 DEF GoodQueue
<1> QED
  BY Zenon, <1>6, <1>7 DEF scheduleDCCSpeedPacket

LEMMA EstopKeepsFresh ==
    ASSUME TypeOK, Fresh, NEW l \in Locos \cup {0}, scheduleEstopPacket(l)
    PROVE  GoodQueue(high', cmd')
<1> DEFINE x == NewSlot("SPEED", SpeedPacket(l, Estop), EstopRepeats, 0)
           r == Kept(l)
<1>1. /\ high' = jumpQueue(x, r)
      /\ cmd' = [k \in Locos |-> IF l \in {0, k} THEN Estop ELSE cmd[k]]
  BY DEF scheduleEstopPacket, Kept
<1>2. x \in Slot /\ GoodSlot(x, cmd') /\ x.u = 0
  <2>1. SpeedPacket(l, Estop) \in Packet /\ EstopRepeats \in Nat
    BY Packets, QueueAssumption DEF Estop
  <2>2. x \in Slot
    BY <2>1, NewSlotType DEF PendingType
  <2> QED
    BY <2>2 DEF GoodSlot, NewSlot, SpeedPacket
<1> HIDE DEF x
<1>3. r \in Seq(Slot)
  BY KeptFacts
<1>4. PICK g : Within(r, high, g) /\ \A i \in DOMAIN r : Survives(r[i], l)
  BY KeptWithin
<1> HIDE DEF r
<1>5. GoodQueue(r, cmd)
  BY <1>4, GoodWithin DEF Fresh
<1>6. ASSUME NEW i \in DOMAIN r, r[i].type = "SPEED", r[i].u \in Locos
      PROVE  cmd'[r[i].u] = cmd[r[i].u]
  <2>1. r[i] \in Slot
    BY <1>3, ElementOfSeq
  <2>2. l # 0 /\ LocoId(r[i]) # l
    BY <1>4, <1>6 DEF Survives
  <2>3. r[i].u # l
    BY <1>6, <2>1, <2>2, LocoIdOfLoco
  <2> QED
    BY <1>1, <1>6, <2>2, <2>3
<1>7. GoodQueue(r, cmd')
  BY <1>5, <1>6, GoodAgrees
<1>8. 0 \notin Locos
  BY SMTT(30), QueueAssumption
<1> QED
  BY SMTT(30), <1>1, <1>2, <1>3, <1>7, <1>8, GoodJump

\* The low queue gains no speed packets.
LEMMA LowKeepsNoSpeed ==
    ASSUME TypeOK, \A i \in DOMAIN low : low[i].pkt.kind # "speed", Command
    PROVE  \A i \in DOMAIN low' : low'[i].pkt.kind # "speed"
<1>0. low \in Seq(Slot)
  BY DEF TypeOK
<1>1. ASSUME NEW x, x.pkt.kind # "speed", low' = Append(low, x)
      PROVE  \A i \in DOMAIN low' : low'[i].pkt.kind # "speed"
  <2>1. Len(low) \in Nat /\ DOMAIN low = 1..Len(low)
    BY <1>0, LenProperties
  <2>2. /\ DOMAIN low' = 1..(Len(low) + 1) /\ low'[Len(low) + 1] = x
        /\ \A i \in 1..Len(low) : low'[i] = low[i]
    BY <1>0, <1>1, <2>1
  <2> QED
    BY <1>1, <2>1, <2>2
<1>2. ASSUME NEW l \in Locos \cup {0}, NEW r \in PacketRepeats, scheduleDCCPacket(l, r)
      PROVE  \A i \in DOMAIN low' : low'[i].pkt.kind # "speed"
  <2> DEFINE x == NewSlot("NORMAL", [kind |-> "other", loco |-> l, val |-> 0], r, l)
  <2>1. x.pkt.kind # "speed" /\ low' = Append(low, x)
    BY <1>2 DEF scheduleDCCPacket, NewSlot
  <2> HIDE DEF x
  <2> QED
    BY <1>1, <2>1
<1>3. ASSUME NEW l \in Locos, NEW g \in Groups, NEW v \in {0, 1},
             scheduleDCCFunctionPacket(l, g, v)
      PROVE  \A i \in DOMAIN low' : low'[i].pkt.kind # "speed"
  <2> DEFINE pkt == [kind |-> "function", loco |-> l, val |-> v]
             x == NewSlot(FunctionType(g), pkt, 0, l)
  <2>1. x.pkt.kind # "speed" /\ pkt.kind # "speed"
    BY DEF NewSlot
  <2>2. \/ \E i \in DOMAIN low : low' = Overwrite(low, i, pkt, 0)
        \/ low' = Append(low, x)
    BY <1>3 DEF scheduleDCCFunctionPacket
  <2> HIDE DEF pkt, x
  <2>3. ASSUME NEW i \in DOMAIN low, low' = Overwrite(low, i, pkt, 0)
        PROVE  \A j \in DOMAIN low' : low'[j].pkt.kind # "speed"
    <3>1. DOMAIN low' = DOMAIN low /\ \A j \in DOMAIN low : j # i => low'[j] = low[j]
      BY <1>0, <2>3 DEF Overwrite
    <3>2. low'[i] = [low[i] EXCEPT !.pkt = pkt, !.repeat = 0] /\ low[i] \in Slot
      BY <1>0, <2>3, ElementOfSeq DEF Overwrite
    <3>3. low'[i].pkt = pkt
      BY <3>2 DEF Slot
    <3> QED
      BY <2>1, <3>1, <3>3
  <2> QED
    BY SMTT(30), <1>1, <2>1, <2>2, <2>3
<1>4. ASSUME NEW a \in Accs, scheduleAccOnOffPacket(a)
      PROVE  \A i \in DOMAIN low' : low'[i].pkt.kind # "speed"
  <2> DEFINE new == NewSlot("ACC_ON", [kind |-> "accOn", loco |-> 0, val |-> a],
                            AccRepeats, 0)
             x == [new EXCEPT !.u = Delay]
  <2>1. x.pkt = new.pkt
    BY DEF NewSlot
  <2>2. new.pkt.kind # "speed"
    BY DEF NewSlot
  <2>3. low' = Append(low, x)
    BY <1>4 DEF scheduleAccOnOffPacket
  <2> HIDE DEF new, x
  <2> QED
    BY <1>1, <2>1, <2>2, <2>3
<1> QED
  BY Zenon, <1>2, <1>3, <1>4 DEF Command, scheduleDCCSpeedPacket, scheduleEstopPacket

LEMMA CommandKeepsFresh ==
    ASSUME TypeOK, Fresh, NoAlias, Command PROVE Fresh'
<1>1. \A i \in DOMAIN low' : low'[i].pkt.kind # "speed"
  BY LowKeepsNoSpeed DEF Fresh
<1>2. SentSpeedIsLatest'
  <2>1. sent' = <<>>
    BY Zenon DEF Command, scheduleDCCPacket, scheduleDCCSpeedPacket, scheduleDCCFunctionPacket,
           scheduleEstopPacket, scheduleAccOnOffPacket, Accept
  <2>2. DOMAIN sent' = {}
    BY <2>1
  <2> QED
    BY SMTT(30), <2>2 DEF SentSpeedIsLatest
<1>3. high' = high /\ cmd' = cmd => GoodQueue(high', cmd')
  BY SMTT(30) DEF Fresh
<1>4. GoodQueue(high', cmd')
  BY Zenon, <1>3, SpeedKeepsFresh, EstopKeepsFresh
     DEF Fresh, Command, scheduleDCCPacket, scheduleDCCFunctionPacket, scheduleAccOnOffPacket
<1> QED
  BY <1>1, <1>2, <1>4 DEF Fresh

LEMMA SendKeepsFresh ==
    ASSUME TypeOK, Fresh, NEW force \in BOOLEAN, scheduleNext(force) PROVE Fresh'
<1>0. high \in Seq(Slot) /\ low \in Seq(Slot) /\ ticks \in Nat /\ GoodQueue(high, cmd)
  BY DEF TypeOK, Fresh
<1>1. ASSUME NEW i \in DOMAIN high, SendFrom(high, i, TRUE) PROVE Fresh'
  <2>1. high[i] \in Slot /\ GoodSlot(high[i], cmd)
    BY <1>0, ElementOfSeq DEF GoodQueue
  <2>2. high[i].type # "ACC_ON"
    BY <2>1 DEF GoodSlot
  <2>3. /\ high' = Rest(high, i) /\ low' = low /\ cmd' = cmd
        /\ sent' = <<[pkt |-> high[i].pkt, due |-> high[i].due,
                      repeats |-> IF LocoId(high[i]) # 0 THEN 0 ELSE high[i].repeat]>>
    BY <1>1, <2>2 DEF SendFrom, Rest
  <2>4. GoodQueue(high', cmd')
    BY <1>0, <2>3, RestWithin, GoodWithin
  <2>5. DOMAIN sent' = {1} /\ sent'[1].pkt = high[i].pkt
    BY SMTT(30), <2>3
  <2>6. SentSpeedIsLatest'
    BY <2>1, <2>3, <2>5 DEF SentSpeedIsLatest, GoodSlot
  <2> QED
    BY <2>3, <2>4, <2>6 DEF Fresh
<1>2. ASSUME NEW i \in DOMAIN low, SendFrom(low, i, FALSE) PROVE Fresh'
  <2> DEFINE p == low[i]
  <2>1. p \in Slot /\ p.pkt.kind # "speed"
    BY <1>0, ElementOfSeq DEF Fresh
  <2>2. /\ low' = Rest(low, i) /\ cmd' = cmd
        /\ high' = high \/ high' = jumpQueue(CoilOff(p), high)
        /\ sent' = <<[pkt |-> p.pkt, due |-> p.due,
                      repeats |-> IF LocoId(p) # 0 THEN 0 ELSE p.repeat]>>
    BY <1>2 DEF SendFrom, Rest
  <2>3. CoilOff(p) \in Slot
    BY <1>0, <2>1, CoilOffType
  <2>4. CoilOff(p).type = "ACC_OFF" /\ CoilOff(p).pkt.kind = "accOff"
    BY <2>1 DEF CoilOff, Slot, Packet
  <2>5. GoodSlot(CoilOff(p), cmd)
    BY SMTT(30), <2>4 DEF GoodSlot
  <2>6. GoodQueue(high', cmd')
    BY <1>0, <2>2, <2>3, <2>4, <2>5, GoodJump
  <2>7. PICK g : Within(Rest(low, i), low, g)
    BY SMTT(30), <1>0, RestWithin
  <2>8. \A j \in DOMAIN low' : low'[j].pkt.kind # "speed"
    BY <2>2, <2>7 DEF Within, Fresh
  <2>9. DOMAIN sent' = {1} /\ sent'[1].pkt = p.pkt
    BY <2>2
  <2>10. SentSpeedIsLatest'
    BY <2>1, <2>9 DEF SentSpeedIsLatest
  <2> QED
    BY <2>6, <2>8, <2>10 DEF Fresh
<1>3. ASSUME scheduleIdle PROVE Fresh'
  <2>1. high' = high /\ low' = low /\ cmd' = cmd
    BY <1>3 DEF scheduleIdle
  <2>2. DOMAIN sent' = {1} /\ sent'[1].pkt = IdlePacket
    BY <1>3 DEF scheduleIdle
  <2>3. SentSpeedIsLatest'
    BY <2>2 DEF SentSpeedIsLatest, IdlePacket
  <2> QED
    BY <2>1, <2>3 DEF Fresh
<1> QED
  BY Zenon, <1>1, <1>2, <1>3 DEF scheduleNext, scheduleNextInternal

\* As long as no coil-off start time reads as the address of a loco in use,
\* every speed packet that leaves the queue carries the speed last commanded
\* for its loco: no speed commanded before an estop is sent after it.
THEOREM FreshUnlessAlias == Spec /\ []NoAlias => []SentSpeedIsLatest
<1>1. Init => Fresh
  <2>1. DOMAIN <<>> = {}
    OBVIOUS
  <2> QED
    BY <2>1 DEF Init, Fresh, GoodQueue, SentSpeedIsLatest
<1>2. TypeOK /\ Fresh /\ NoAlias /\ [Next]_vars => Fresh'
  <2>1. ASSUME TypeOK, Fresh, Tick PROVE Fresh'
    <3>1. high' = high /\ low' = low /\ cmd' = cmd /\ DOMAIN sent' = {}
      BY <2>1 DEF Tick, code, history
    <3>2. SentSpeedIsLatest'
      BY <3>1 DEF SentSpeedIsLatest
    <3> QED
      BY <2>1, <3>1, <3>2 DEF Fresh
  <2>2. ASSUME Fresh, UNCHANGED vars PROVE Fresh'
    BY <2>2 DEF vars, code, history, Fresh, SentSpeedIsLatest
  <2> QED
    BY <2>1, <2>2, CommandKeepsFresh, SendKeepsFresh DEF Next
<1>3. Fresh => SentSpeedIsLatest
  BY DEF Fresh
<1> QED
  BY <1>1, <1>2, <1>3, TypeCorrect, PTL DEF Spec

-----------------------------------------------------------------------------
(* The coil pulses.  The slots of a queue, without their order.            *)
Slots(q) == {q[i] : i \in DOMAIN q}

LEMMA SlotsJump ==
    ASSUME NEW q \in Seq(Slot), NEW x \in Slot
    PROVE  Slots(jumpQueue(x, q)) = Slots(q) \cup {x}
<1> DEFINE r == jumpQueue(x, q)
<1>1. /\ r[1] = x /\ \A j \in 1..Len(q) : r[j + 1] = q[j]
      /\ DOMAIN r = 1..(Len(q) + 1) /\ DOMAIN q = 1..Len(q) /\ Len(q) \in Nat
  BY JumpFacts, LenProperties
<1> HIDE DEF r
<1>2. ASSUME NEW i \in DOMAIN r PROVE r[i] \in Slots(q) \cup {x}
  <2>1. CASE i = 1
    BY <1>1, <2>1
  <2>2. CASE i # 1
    <3>1. i - 1 \in 1..Len(q) /\ (i - 1) + 1 = i
      BY <1>1, <2>2
    <3>2. r[i] = q[i - 1]
      BY <1>1, <3>1
    <3> QED
      BY <1>1, <3>1, <3>2 DEF Slots
  <2> QED
    BY <2>1, <2>2
<1>3. x \in Slots(r)
  BY <1>1 DEF Slots
<1>4. ASSUME NEW j \in DOMAIN q PROVE q[j] \in Slots(r)
  <2>1. j + 1 \in DOMAIN r /\ r[j + 1] = q[j]
    BY <1>1
  <2> QED
    BY <2>1 DEF Slots
<1>5. Slots(r) \subseteq Slots(q) \cup {x}
  BY <1>2 DEF Slots
<1>6. Slots(q) \subseteq Slots(r)
  BY <1>4 DEF Slots
<1> QED
  BY <1>3, <1>5, <1>6 DEF r

LEMMA SlotsAppend ==
    ASSUME NEW q \in Seq(Slot), NEW x \in Slot
    PROVE  Slots(Append(q, x)) = Slots(q) \cup {x}
<1> DEFINE r == Append(q, x)
           n == Len(q) + 1
<1>1. /\ Len(q) \in Nat /\ Len(r) = n /\ r \in Seq(Slot)
      /\ \A j \in 1..Len(q) : r[j] = q[j]
      /\ r[n] = x
  BY AppendProperties, LenProperties
<1>2. DOMAIN q = 1..Len(q) /\ DOMAIN r = 1..n
  BY <1>1, LenProperties
<1>3. 1..n = (1..Len(q)) \cup {n}
  BY ONLY <1>1
<1> HIDE DEF r, n
<1>4. Slots(r) \subseteq Slots(q) \cup {x}
  BY <1>1, <1>2, <1>3 DEF Slots
<1>5. Slots(q) \cup {x} \subseteq Slots(r)
  BY <1>1, <1>2, <1>3 DEF Slots
<1> QED
  BY <1>4, <1>5 DEF r

LEMMA SlotsOverwrite ==
    ASSUME NEW q \in Seq(Slot), NEW i \in DOMAIN q, NEW pkt \in Packet, NEW n \in Nat
    PROVE  LET r == Overwrite(q, i, pkt, n)
               x == [q[i] EXCEPT !.pkt = pkt, !.repeat = n]
           IN  /\ Slots(r) \subseteq Slots(q) \cup {x}
               /\ \A s \in Slots(q) : s # q[i] => s \in Slots(r)
<1> DEFINE x == [q[i] EXCEPT !.pkt = pkt, !.repeat = n]
           r == Overwrite(q, i, pkt, n)
<1>1. r = [q EXCEPT ![i] = x]
  BY DEF Overwrite
<1> HIDE DEF x, r
<1>2. DOMAIN r = DOMAIN q /\ r[i] = x /\ \A j \in DOMAIN q : j # i => r[j] = q[j]
  BY <1>1
<1>3. Slots(r) \subseteq Slots(q) \cup {x}
  BY <1>2 DEF Slots
<1>4. \A s \in Slots(q) : s # q[i] => s \in Slots(r)
  BY SMTT(30), <1>2 DEF Slots
<1> QED
  BY <1>3, <1>4 DEF x, r

\* Handing over q[i] leaves every other slot, and q[i] itself if it has repeats left.
LEMMA SlotsRest ==
    ASSUME NEW q \in Seq(Slot), NEW i \in DOMAIN q
    PROVE  /\ \A s \in Slots(Rest(q, i)) :
                 s \in Slots(q) \/ (Stays(q[i]) /\ s = OneRepeatLess(q[i]))
           /\ \A s \in Slots(q) : s # q[i] => s \in Slots(Rest(q, i))
           /\ Stays(q[i]) => OneRepeatLess(q[i]) \in Slots(Rest(q, i))
<1>1. i \in 1..Len(q) /\ Len(q) \in Nat /\ DOMAIN q = 1..Len(q)
  BY LenProperties
<1> DEFINE r == Rest(q, i)
<1>2. CASE Stays(q[i])
  <2> DEFINE x == OneRepeatLess(q[i])
  <2>1. r = [q EXCEPT ![i] = x]
    BY <1>2 DEF Rest
  <2> HIDE DEF r, x
  <2>2. DOMAIN r = DOMAIN q /\ r[i] = x /\ \A j \in DOMAIN q : j # i => r[j] = q[j]
    BY <2>1
  <2>3. Slots(r) \subseteq Slots(q) \cup {x} /\ x \in Slots(r)
    BY <2>2 DEF Slots
  <2>4. \A s \in Slots(q) : s # q[i] => s \in Slots(r)
    BY <2>2 DEF Slots
  <2> QED
    BY <1>2, <2>3, <2>4 DEF r, x
<1>3. CASE ~Stays(q[i])
  <2>1. r = remove(q, i)
    BY <1>3 DEF Rest
  <2>2. /\ Len(r) = Len(q) - 1 /\ r \in Seq(Slot)
        /\ \A j \in 1..(Len(q) - 1) : r[j] = IF j < i THEN q[j] ELSE q[j + 1]
    BY <2>1, RemoveFacts
  <2>3. DOMAIN r = 1..(Len(q) - 1)
    BY <2>2, LenProperties
  <2> HIDE DEF r
  <2>4. ASSUME NEW j \in DOMAIN r PROVE r[j] \in Slots(q)
    <3>1. j \in DOMAIN q /\ j + 1 \in DOMAIN q
      BY <1>1, <2>3
    <3> QED
      BY <2>2, <2>3, <3>1 DEF Slots
  <2>5. ASSUME NEW j \in DOMAIN q, j # i PROVE q[j] \in Slots(r)
    <3>1. CASE j < i
      <4>1. j \in 1..(Len(q) - 1)
        BY <1>1, <3>1
      <4>2. r[j] = q[j]
        BY <2>2, <3>1, <4>1
      <4> QED
        BY <2>3, <4>1, <4>2 DEF Slots
    <3>2. CASE ~(j < i)
      <4>1. j - 1 \in 1..(Len(q) - 1) /\ ~(j - 1 < i) /\ (j - 1) + 1 = j
        BY <1>1, <2>5, <3>2
      <4>2. r[j - 1] = q[j]
        BY <2>2, <4>1
      <4> QED
        BY <2>3, <4>1, <4>2 DEF Slots
    <3> QED
      BY <3>1, <3>2
  <2>6. \A s \in Slots(r) : s \in Slots(q)
    BY <2>4 DEF Slots
  <2>7. \A s \in Slots(q) : s # q[i] => s \in Slots(r)
    BY <2>5 DEF Slots
  <2> QED
    BY <1>3, <2>6, <2>7 DEF r
<1> QED
  BY SMTT(30), <1>2, <1>3

LEMMA SlotsKept ==
    ASSUME TypeOK, NEW l
    PROVE  /\ Slots(Kept(l)) \subseteq Slots(high)
           /\ \A s \in Slots(high) : Survives(s, l) => s \in Slots(Kept(l))
<1> DEFINE K == {i \in DOMAIN high : Survives(high[i], l)}
           r == SubSeqAt(high, K)
<1>1. high \in Seq(Slot) /\ DOMAIN high = 1..Len(high)
  BY LenProperties DEF TypeOK
<1>2. Kept(l) = r
  BY DEF Kept
<1>3. \A i \in DOMAIN high : Survives(high[i], l) => i \in K
  OBVIOUS
<1> HIDE DEF K
<1>4. /\ r \in Seq(Slot) /\ \E g : Embeds(g, r, high, K)
      /\ \A i \in 1..Len(high) : i \in K => \E j \in 1..Len(r) : r[j] = high[i]
  BY SMTT(30), <1>1, SubSeqAtProperties
<1> HIDE DEF r
<1>5. DOMAIN r = 1..Len(r)
  BY <1>4, LenProperties
<1>6. PICK g : Embeds(g, r, high, K)
  BY <1>4
<1>7. \A j \in DOMAIN r : g[j] \in DOMAIN high /\ r[j] = high[g[j]]
  BY <1>1, <1>5, <1>6 DEF Embeds
<1>8. Slots(r) \subseteq Slots(high)
  BY <1>7 DEF Slots
<1>9. \A s \in Slots(high) : Survives(s, l) => s \in Slots(r)
  BY <1>1, <1>3, <1>4, <1>5 DEF Slots
<1> QED
  BY <1>2, <1>8, <1>9

OnPacket(a) == [kind |-> "accOn", loco |-> 0, val |-> a]
OffPacket(a) == [kind |-> "accOff", loco |-> 0, val |-> a]

\* millis() has not wrapped, and does not before the last coil-off is due.
NoWrap ==
    /\ ticks < TimeMod
    /\ \A i \in DOMAIN high : high[i].type = "ACC_OFF" => high[i].due < TimeMod

\* What the high queue holds: speeds, and coil-offs with the low 32 bits of the time
\* they are due.
HighSlot(s) ==
    \/ s.type = "SPEED" /\ s.pkt.kind = "speed"
    \/ s.type = "ACC_OFF" /\ s.pkt = OffPacket(s.pkt.val) /\ s.u = s.due % TimeMod

\* What the low queue holds: coil-ons, and packets that are none of a coil.
LowSlot(s) ==
    \/ s.type = "ACC_ON" /\ s.pkt = OnPacket(s.pkt.val)
    \/ s.type \notin {"ACC_ON", "ACC_OFF"} /\ s.pkt.kind \in {"other", "function"}

\* A coil that is on has a slot that is its coil-off, or will become it.
Awaited(c, h, lo) ==
    \A a \in c : \/ \E s \in h : s.pkt = OffPacket(a)
                 \/ \E s \in lo : s.pkt = OnPacket(a)

NotHurried == \A i \in DOMAIN sent : sent[i].pkt.kind = "accOff" => ticks >= sent[i].due

Coils ==
    /\ \A s \in Slots(high) : HighSlot(s)
    /\ \A s \in Slots(low) : LowSlot(s)
    /\ Awaited(coilOn, Slots(high), Slots(low))
    /\ NotHurried

LEMMA SlotsAreSlots == ASSUME NEW q \in Seq(Slot) PROVE Slots(q) \subseteq Slot
  BY ElementOfSeq DEF Slots

\* A queue that gains and loses slots of no coil.
LEMMA AwaitedMore ==
    ASSUME NEW c, NEW h, NEW lo, NEW hh, NEW ll, Awaited(c, h, lo),
           \A a \in c, s \in h : s.pkt = OffPacket(a) => s \in hh,
           \A a \in c, s \in lo : s.pkt = OnPacket(a) => s \in ll
    PROVE  Awaited(c, hh, ll)
  BY DEF Awaited

LEMMA CommandKeepsCoils ==
    ASSUME TypeOK, Coils, NoAlias, Command PROVE Coils'
<1>0. /\ high \in Seq(Slot) /\ low \in Seq(Slot)
      /\ Slots(high) \subseteq Slot /\ Slots(low) \subseteq Slot
  BY SlotsAreSlots DEF TypeOK
<1>l. \A l \in Locos \cup {0} : l \in Nat
  BY QueueAssumption
<1>s. {"NORMAL", "SPEED", "ACC_ON", "ACC_OFF"} \subseteq PendingType
  BY DEF PendingType
<1>1. coilOn' = coilOn /\ NotHurried'
  <2>1. sent' = <<>> /\ coilOn' = coilOn
    BY Zenon DEF Command, scheduleDCCPacket, scheduleDCCSpeedPacket, scheduleDCCFunctionPacket,
           scheduleEstopPacket, scheduleAccOnOffPacket, Accept
  <2>2. DOMAIN sent' = {}
    BY <2>1
  <2> QED
    BY SMTT(30), <2>1, <2>2 DEF NotHurried
<1>2. ASSUME NEW x \in Slot, LowSlot(x), low' = Append(low, x), high' = high
      PROVE  Coils'
  <2>1. Slots(low') = Slots(low) \cup {x} /\ Slots(high') = Slots(high)
    BY SMTT(30), <1>0, <1>2, SlotsAppend
  <2>2. Awaited(coilOn, Slots(high'), Slots(low'))
    BY <2>1, AwaitedMore DEF Coils
  <2> QED
    BY SMTT(30), <1>1, <1>2, <2>1, <2>2 DEF Coils
<1>3. ASSUME NEW l \in Locos \cup {0}, NEW r \in PacketRepeats, scheduleDCCPacket(l, r)
      PROVE  Coils'
  <2> DEFINE x == NewSlot("NORMAL", [kind |-> "other", loco |-> l, val |-> 0], r, l)
  <2>1. r \in Nat /\ x \in Slot
    BY <1>l, <1>s, Packets, NewSlotType, QueueAssumption
  <2>2. LowSlot(x)
    BY DEF LowSlot, NewSlot
  <2>3. low' = Append(low, x) /\ high' = high
    BY <1>3 DEF scheduleDCCPacket
  <2> HIDE DEF x
  <2> QED
    BY <1>2, <2>1, <2>2, <2>3
<1>4. ASSUME NEW l \in Locos, NEW v \in Speeds, scheduleDCCSpeedPacket(l, v)
      PROVE  Coils'
  <2>1. v \in Nat /\ SpeedPacket(l, v) \in Packet
    BY <1>l, Packets, QueueAssumption
  <2>2. low' = low
    BY <1>4 DEF scheduleDCCSpeedPacket
  <2>3. ASSUME NEW i \in DOMAIN high, LocoId(high[i]) = l,
               high' = Overwrite(high, i, SpeedPacket(l, v), 0)
        PROVE  Coils'
    <3> DEFINE x == [high[i] EXCEPT !.pkt = SpeedPacket(l, v), !.repeat = 0]
    <3>1. high[i] \in Slots(high) /\ high[i] \in Slot
      BY <1>0 DEF Slots
    <3>2. high[i].type = "SPEED" /\ high[i].pkt.kind = "speed"
      BY <2>3, <3>1 DEF Coils, HighSlot, NoAlias
    <3>3. x.type = "SPEED" /\ x.pkt = SpeedPacket(l, v)
      BY <3>1, <3>2 DEF Slot
    <3>4. HighSlot(x)
      BY SMTT(30), <3>3 DEF HighSlot, SpeedPacket
    <3>5. /\ Slots(high') \subseteq Slots(high) \cup {x}
          /\ \A s \in Slots(high) : s # high[i] => s \in Slots(high')
      BY ZenonT(30), <1>0, <2>1, <2>3, SlotsOverwrite
    <3> HIDE DEF x
    <3>6. \A a \in coilOn, s \in Slots(high) : s.pkt = OffPacket(a) => s \in Slots(high')
      BY <3>2, <3>5 DEF OffPacket
    <3>7. Awaited(coilOn, Slots(high'), Slots(low))
      BY <3>6, AwaitedMore DEF Coils
    <3> QED
      BY <1>1, <2>2, <3>4, <3>5, <3>7 DEF Coils
  <2>4. ASSUME high' = Append(high, NewSlot("SPEED", SpeedPacket(l, v), 0, l))
        PROVE  Coils'
    <3> DEFINE x == NewSlot("SPEED", SpeedPacket(l, v), 0, l)
    <3>1. x \in Slot
      BY <1>l, <1>s, <2>1, NewSlotType
    <3>2. HighSlot(x)
      BY DEF HighSlot, NewSlot, SpeedPacket
    <3>3. high' = Append(high, x)
      BY <2>4
    <3> HIDE DEF x
    <3>4. Slots(high') = Slots(high) \cup {x}
      BY <1>0, <3>1, <3>3, SlotsAppend
    <3>5. Awaited(coilOn, Slots(high'), Slots(low))
      BY <3>4, AwaitedMore DEF Coils
    <3> QED
      BY <1>1, <2>2, <3>2, <3>4, <3>5 DEF Coils
  <2> QED
    BY <1>4, <2>3, <2>4 DEF scheduleDCCSpeedPacket
<1>5. ASSUME NEW l \in Locos, NEW g \in Groups, NEW v \in {0, 1},
             scheduleDCCFunctionPacket(l, g, v)
      PROVE  Coils'
  <2> DEFINE pkt == [kind |-> "function", loco |-> l, val |-> v]
             x == NewSlot(FunctionType(g), pkt, 0, l)
  <2>1. pkt \in Packet /\ pkt.kind = "function"
    BY ZenonT(30), <1>l, Packets
  <2>2. FunctionType(g) \notin {"ACC_ON", "ACC_OFF"} /\ FunctionType(g) \in PendingType
    <3>1. g \in 1..5
      BY QueueAssumption
    <3> QED
      BY <3>1, FunctionTypes DEF FunctionType
  <2>3. x \in Slot /\ LowSlot(x)
    <3> HIDE DEF pkt
    <3>1. x \in Slot
      BY SMTT(30), <1>l, <2>1, <2>2, NewSlotType
    <3> QED
      BY <2>1, <2>2, <3>1 DEF LowSlot, NewSlot
  <2>4. /\ high' = high
        /\ \/ \E i \in DOMAIN low : /\ FunctionSlot(low[i], l, g)
                                    /\ low' = Overwrite(low, i, pkt, 0)
           \/ low' = Append(low, x)
    BY <1>5 DEF scheduleDCCFunctionPacket
  <2> HIDE DEF pkt, x
  <2>5. ASSUME NEW i \in DOMAIN low, FunctionSlot(low[i], l, g),
               low' = Overwrite(low, i, pkt, 0)
        PROVE  Coils'
    <3> DEFINE y == [low[i] EXCEPT !.pkt = pkt, !.repeat = 0]
    <3>1. low[i] \in Slots(low) /\ low[i] \in Slot
      BY <1>0 DEF Slots
    <3>2. low[i].type = FunctionType(g)
      BY <2>5 DEF FunctionSlot
    <3>3. low[i].type \notin {"ACC_ON", "ACC_OFF"} /\ low[i].pkt.kind # "accOn"
      BY <2>2, <3>1, <3>2 DEF Coils, LowSlot
    <3>4. y.type = low[i].type /\ y.pkt = pkt
      BY <3>1 DEF Slot
    <3>5. LowSlot(y)
      BY SMTT(30), <2>1, <3>3, <3>4 DEF LowSlot
    <3>6. /\ Slots(low') \subseteq Slots(low) \cup {y}
          /\ \A s \in Slots(low) : s # low[i] => s \in Slots(low')
      BY ZenonT(30), <1>0, <2>1, <2>5, SlotsOverwrite
    <3> HIDE DEF y
    <3>7. \A a \in coilOn, s \in Slots(low) : s.pkt = OnPacket(a) => s \in Slots(low')
      BY <3>3, <3>6 DEF OnPacket
    <3>8. Awaited(coilOn, Slots(high), Slots(low'))
      BY <3>7, AwaitedMore DEF Coils
    <3> QED
      BY <1>1, <2>4, <3>5, <3>6, <3>8 DEF Coils
  <2> QED
    BY <1>2, <2>3, <2>4, <2>5
<1>6. ASSUME NEW l \in Locos \cup {0}, scheduleEstopPacket(l) PROVE Coils'
  <2> DEFINE x == NewSlot("SPEED", SpeedPacket(l, Estop), EstopRepeats, 0)
  <2>1. x \in Slot
    <3>1. SpeedPacket(l, Estop) \in Packet /\ EstopRepeats \in Nat
      BY <1>l, Packets, QueueAssumption DEF Estop
    <3> QED
      BY SMTT(30), <1>s, <3>1, NewSlotType
  <2>2. HighSlot(x)
    BY DEF HighSlot, NewSlot, SpeedPacket
  <2>3. high' = jumpQueue(x, Kept(l)) /\ low' = low
    BY <1>6 DEF scheduleEstopPacket, Kept
  <2> HIDE DEF x
  <2>4. Slots(high') = Slots(Kept(l)) \cup {x}
    BY <2>1, <2>3, KeptFacts, SlotsJump
  <2>5. /\ Slots(Kept(l)) \subseteq Slots(high)
        /\ \A s \in Slots(high) : Survives(s, l) => s \in Slots(Kept(l))
    BY SlotsKept
  <2>6. \A a \in coilOn, s \in Slots(high) : s.pkt = OffPacket(a) => s \in Slots(high')
    <3> SUFFICES ASSUME NEW a \in coilOn, NEW s \in Slots(high), s.pkt = OffPacket(a)
                 PROVE  s \in Slots(high')
      BY SMTT(30)
    <3>1. s.type = "ACC_OFF"
      BY DEF Coils, HighSlot, OffPacket
    <3> QED
      BY SMTT(30), <2>4, <2>5, <3>1 DEF Survives
  <2>7. Awaited(coilOn, Slots(high'), Slots(low))
    BY <2>6, AwaitedMore DEF Coils
  <2> QED
    BY <1>1, <2>2, <2>3, <2>4, <2>5, <2>7 DEF Coils
<1>7. ASSUME NEW a \in Accs, scheduleAccOnOffPacket(a) PROVE Coils'
  <2> DEFINE new == NewSlot("ACC_ON", [kind |-> "accOn", loco |-> 0, val |-> a],
                            AccRepeats, 0)
             x == [new EXCEPT !.u = Delay]
  <2>1. new \in Slot
    BY <1>s, Packets, NewSlotType, QueueAssumption
  <2>2. x \in Slot
    BY <2>1, QueueAssumption DEF Slot
  <2>3. x.type = "ACC_ON" /\ x.pkt = OnPacket(a)
    BY DEF NewSlot, OnPacket
  <2>4. low' = Append(low, x) /\ high' = high
    BY <1>7 DEF scheduleAccOnOffPacket
  <2> HIDE DEF new, x
  <2>5. LowSlot(x)
    BY <2>3 DEF LowSlot, OnPacket
  <2> QED
    BY SMTT(30), <1>2, <2>2, <2>4, <2>5
<1> QED
  BY <1>3, <1>4, <1>5, <1>6, <1>7 DEF Command

LEMMA KeepsRepeats ==
    ASSUME NEW p \in Slot
    PROVE  LET s == OneRepeatLess(p)
           IN  s.type = p.type /\ s.pkt = p.pkt /\ s.u = p.u /\ s.due = p.due
  BY DEF OneRepeatLess, Slot

LEMMA CoilOffIs ==
    ASSUME TypeOK, ticks < TimeMod, NEW p \in Slot, NEW a, p.pkt = OnPacket(a)
    PROVE  HighSlot(CoilOff(p)) /\ CoilOff(p).pkt = OffPacket(a)
<1>1. millis = ticks
  <2>1. ASSUME NEW n \in Nat, n < TimeMod PROVE n % TimeMod = n
    BY <2>1, QueueAssumption
  <2> QED
    BY <2>1 DEF millis, TypeOK
<1> DEFINE k == [p.pkt EXCEPT !.kind = "accOff"]
           v == (millis + delayOff(p)) % TimeMod
           w == ticks + delayOff(p)
<1>2. k = OffPacket(a)
  BY DEF OnPacket, OffPacket
<1>3. v = w % TimeMod
  BY <1>1
<1>4. CoilOff(p) = [p EXCEPT !.type = "ACC_OFF", !.pkt = k, !.u = v, !.due = w]
  BY ZenonT(30) DEF CoilOff, Slot
<1> HIDE DEF k, v, w
<1>5. CoilOff(p).type = "ACC_OFF" /\ CoilOff(p).pkt = k /\ CoilOff(p).u = v /\ CoilOff(p).due = w
  BY <1>4 DEF Slot
<1> QED
  BY <1>2, <1>3, <1>5 DEF HighSlot, OffPacket

LEMMA SendHighKeepsCoils ==
    ASSUME TypeOK, Coils, NoWrap, NEW i \in DOMAIN high, Eligible(high[i]),
           SendFrom(high, i, TRUE)
    PROVE  Coils'
<1> DEFINE p == high[i]
<1>0. /\ high \in Seq(Slot) /\ p \in Slot /\ p \in Slots(high) /\ ticks \in Nat
      /\ HighSlot(p)
  BY ElementOfSeq DEF TypeOK, Slots, Coils
<1>1. p.type # "ACC_ON"
  BY SMTT(30), <1>0 DEF HighSlot
<1>2. /\ high' = Rest(high, i) /\ low' = low /\ Record(p.pkt) /\ ticks' = ticks
      /\ sent' = <<[pkt |-> p.pkt, due |-> p.due,
                    repeats |-> IF LocoId(p) # 0 THEN 0 ELSE p.repeat]>>
  BY SMTT(30), <1>1 DEF SendFrom, Rest
<1>3. /\ \A s \in Slots(high') :
            s \in Slots(high) \/ (Stays(p) /\ s = OneRepeatLess(p))
      /\ \A s \in Slots(high) : s # p => s \in Slots(high')
  BY ZenonT(30), <1>0, <1>2, SlotsRest
<1>4. ASSUME NEW s \in Slots(high') PROVE HighSlot(s)
  <2>1. CASE s \in Slots(high)
    BY <2>1 DEF Coils
  <2>2. CASE s = OneRepeatLess(p)
    <3>1. s.type = p.type /\ s.pkt = p.pkt /\ s.u = p.u /\ s.due = p.due
      BY <1>0, <2>2, KeepsRepeats
    <3> QED
      BY <1>0, <3>1 DEF HighSlot
  <2> QED
    BY <1>3, <2>1, <2>2
<1>5. coilOn' \subseteq coilOn /\ (p.pkt.kind = "accOff" => p.pkt.val \notin coilOn')
  <2>1. p.pkt.kind \in {"speed", "accOff"}
    BY <1>0 DEF HighSlot, OffPacket
  <2>2. p.pkt.kind = "speed" => coilOn' = coilOn
    BY <1>2 DEF Record
  <2>3. p.pkt.kind = "accOff" => coilOn' = coilOn \ {p.pkt.val}
    BY SMTT(30), <1>2 DEF Record
  <2> QED
    BY SMTT(30), <2>1, <2>2, <2>3
<1>6. Awaited(coilOn', Slots(high'), Slots(low'))
  <2>1. Awaited(coilOn', Slots(high), Slots(low))
    BY <1>5 DEF Coils, Awaited
  <2>2. ASSUME NEW a \in coilOn', NEW s \in Slots(high), s.pkt = OffPacket(a)
        PROVE  s # p
    BY SMTT(30), <1>5, <2>2 DEF OffPacket
  <2> QED
    BY ZenonT(30), <1>2, <1>3, <2>1, <2>2, AwaitedMore
<1>7. NotHurried'
  <2>1. DOMAIN sent' = {1} /\ sent'[1].pkt = p.pkt /\ sent'[1].due = p.due
    BY <1>2
  <2>2. ASSUME p.pkt.kind = "accOff" PROVE ticks >= p.due
    <3>1. p.type = "ACC_OFF" /\ p.u = p.due % TimeMod
      BY SMTT(30), <1>0, <2>2 DEF HighSlot
    <3>2. p.due \in Nat /\ p.due < TimeMod /\ ticks < TimeMod
      BY ZenonT(30), <1>0, <3>1 DEF Slot, NoWrap
    <3>3. ASSUME NEW n \in Nat, n < TimeMod PROVE n % TimeMod = n
      BY <3>3, QueueAssumption
    <3>4. p.u = p.due /\ millis = ticks
      BY SMTT(30), <1>0, <3>1, <3>2, <3>3 DEF millis
    <3>5. ~(millis < p.u)
      BY <3>1 DEF Eligible
    <3> QED
      BY SMTT(30), <1>0, <3>2, <3>4, <3>5
  <2> QED
    BY SMTT(30), <1>2, <2>1, <2>2 DEF NotHurried
<1> QED
  BY Zenon, <1>2, <1>4, <1>6, <1>7 DEF Coils

LEMMA SendLowKeepsCoils ==
    ASSUME TypeOK, Coils, NoWrap, NEW i \in DOMAIN low, SendFrom(low, i, FALSE)
    PROVE  Coils'
<1> DEFINE p == low[i]
<1>0. /\ high \in Seq(Slot) /\ low \in Seq(Slot) /\ p \in Slot /\ p \in Slots(low)
      /\ LowSlot(p) /\ ticks \in Nat /\ ticks < TimeMod
  BY ElementOfSeq DEF TypeOK, Slots, Coils, NoWrap
<1>1. /\ low' = Rest(low, i) /\ Record(p.pkt) /\ ticks' = ticks
      /\ high' = IF ~Stays(p) /\ p.type = "ACC_ON" THEN jumpQueue(CoilOff(p), high) ELSE high
      /\ sent' = <<[pkt |-> p.pkt, due |-> p.due,
                    repeats |-> IF LocoId(p) # 0 THEN 0 ELSE p.repeat]>>
  BY SMTT(30) DEF SendFrom, Rest
<1>2. /\ \A s \in Slots(low') :
            s \in Slots(low) \/ (Stays(p) /\ s = OneRepeatLess(p))
      /\ \A s \in Slots(low) : s # p => s \in Slots(low')
      /\ Stays(p) => OneRepeatLess(p) \in Slots(low')
  BY ZenonT(30), <1>0, <1>1, SlotsRest
<1>3. /\ OneRepeatLess(p).type = p.type /\ OneRepeatLess(p).pkt = p.pkt
  BY SMTT(30), <1>0, KeepsRepeats
<1>4. \A s \in Slots(low') : LowSlot(s)
  BY ZenonT(30), <1>0, <1>2, <1>3 DEF LowSlot, Coils
<1>5. NotHurried'
  <2>1. DOMAIN sent' = {1} /\ sent'[1].pkt = p.pkt
    BY SMTT(30), <1>1
  <2>2. p.pkt.kind # "accOff"
    BY SMTT(30), <1>0 DEF LowSlot, OnPacket
  <2> QED
    BY SMTT(30), <2>1, <2>2 DEF NotHurried
<1>6. CASE p.type = "ACC_ON"
  <2> DEFINE a == p.pkt.val
  <2>1. p.pkt = OnPacket(a) /\ p.pkt.kind = "accOn"
    BY <1>0, <1>6 DEF LowSlot, OnPacket
  <2>2. coilOn' = coilOn \cup {a}
    BY SMTT(30), <1>1, <2>1 DEF Record
  <2>3. CoilOff(p) \in Slot /\ HighSlot(CoilOff(p)) /\ CoilOff(p).pkt = OffPacket(a)
    BY SMTT(30), <1>0, <2>1, CoilOffIs, CoilOffType
  <2>4. CASE Stays(p)
    <3>1. high' = high
      BY <1>1, <2>4
    <3>2. ASSUME NEW b \in coilOn'
          PROVE  \/ \E s \in Slots(high) : s.pkt = OffPacket(b)
                 \/ \E s \in Slots(low') : s.pkt = OnPacket(b)
      <4>1. CASE b = a
        BY <1>2, <1>3, <2>1, <2>4, <4>1
      <4>2. CASE b # a
        <5>1. OnPacket(b) # OnPacket(a)
          BY <4>2 DEF OnPacket
        <5>2. \/ \E s \in Slots(high) : s.pkt = OffPacket(b)
              \/ \E s \in Slots(low) : s.pkt = OnPacket(b)
          BY SMTT(30), <2>2, <3>2, <4>2 DEF Coils, Awaited
        <5> QED
          BY <1>2, <2>1, <5>1, <5>2
      <4> QED
        BY SMTT(30), <4>1, <4>2
    <3> QED
      BY SMTT(30), <1>4, <1>5, <3>1, <3>2 DEF Coils, Awaited
  <2>5. CASE ~Stays(p)
    <3> DEFINE x == CoilOff(p)
    <3>1. Slots(high') = Slots(high) \cup {x}
      BY ZenonT(30), <1>0, <1>1, <1>6, <2>3, <2>5, SlotsJump
    <3>2. x.pkt = OffPacket(a) /\ HighSlot(x)
      BY <2>3
    <3> HIDE DEF x
    <3>3. ASSUME NEW b \in coilOn'
          PROVE  \/ \E s \in Slots(high') : s.pkt = OffPacket(b)
                 \/ \E s \in Slots(low') : s.pkt = OnPacket(b)
      <4>1. CASE b = a
        BY SMTT(30), <3>1, <3>2, <4>1
      <4>2. CASE b # a
        <5>1. OnPacket(b) # OnPacket(a)
          BY <4>2 DEF OnPacket
        <5>2. \/ \E s \in Slots(high) : s.pkt = OffPacket(b)
              \/ \E s \in Slots(low) : s.pkt = OnPacket(b)
          BY <2>2, <3>3, <4>2 DEF Coils, Awaited
        <5> QED
          BY <1>2, <2>1, <3>1, <5>1, <5>2
      <4> QED
        BY <4>1, <4>2
    <3>4. \A s \in Slots(high') : HighSlot(s)
      BY <3>1, <3>2 DEF Coils
    <3> QED
      BY SMTT(30), <1>4, <1>5, <3>3, <3>4 DEF Coils, Awaited
  <2> QED
    BY <2>4, <2>5
<1>7. CASE p.type # "ACC_ON"
  <2>1. high' = high
    BY <1>1, <1>7
  <2>2. p.pkt.kind \in {"other", "function"}
    BY <1>0, <1>7 DEF LowSlot
  <2>3. coilOn' = coilOn
    BY SMTT(30), <1>1, <2>2 DEF Record
  <2>4. \A b \in coilOn, s \in Slots(low) : s.pkt = OnPacket(b) => s \in Slots(low')
    BY SMTT(30), <1>2, <2>2 DEF OnPacket
  <2>5. Awaited(coilOn, Slots(high), Slots(low'))
    BY <2>4, AwaitedMore DEF Coils
  <2> QED
    BY SMTT(30), <1>4, <1>5, <2>1, <2>3, <2>5 DEF Coils
<1> QED
  BY SMTT(30), <1>6, <1>7

\* A coil that was switched on has a slot queued that will switch it off, and that
\* slot is not sent before the pulse length has passed, for any number of commands,
\* estops and repeats: as long as no coil-off start time reads as the address of a
\* loco in use, and until millis() wraps (scheduleAccOnOffPacket, the conversion
\* to ACC_OFF in scheduleNextInternal).
THEOREM CoilsReleased == Spec /\ [](NoAlias /\ NoWrap) => []CoilPulsed
<1>1. Init => Coils
  <2> SUFFICES ASSUME Init PROVE Coils
    OBVIOUS
  <2>1. DOMAIN <<>> = {}
    OBVIOUS
  <2>2. Slots(high) = {} /\ Slots(low) = {} /\ DOMAIN sent = {} /\ coilOn = {}
    BY <2>1 DEF Init, Slots
  <2> QED
    BY <2>2 DEF Coils, Awaited, NotHurried
<1>2. TypeOK /\ Coils /\ (NoAlias /\ NoWrap) /\ [Next]_vars => Coils'
  <2> SUFFICES ASSUME TypeOK, Coils, NoAlias, NoWrap, [Next]_vars PROVE Coils'
    OBVIOUS
  <2>1. ASSUME NEW force \in BOOLEAN, scheduleNext(force) PROVE Coils'
    <3>1. ASSUME scheduleIdle PROVE Coils'
      <4>1. high' = high /\ low' = low /\ coilOn' = coilOn
        BY <3>1 DEF scheduleIdle, Record, IdlePacket
      <4>2. DOMAIN sent' = {1} /\ sent'[1].pkt = IdlePacket
        BY <3>1 DEF scheduleIdle
      <4>3. NotHurried'
        BY <4>2 DEF NotHurried, IdlePacket
      <4> QED
        BY <4>1, <4>3 DEF Coils
    <3> QED
      BY Zenon, <2>1, <3>1, SendHighKeepsCoils, SendLowKeepsCoils
         DEF scheduleNext, scheduleNextInternal, Candidate
  <2>2. ASSUME Tick PROVE Coils'
    <3>1. high' = high /\ low' = low /\ coilOn' = coilOn /\ DOMAIN sent' = {}
      BY SMTT(30), <2>2 DEF Tick, code, history
    <3> QED
      BY <3>1 DEF Coils, NotHurried
  <2>3. ASSUME UNCHANGED vars PROVE Coils'
    BY SMTT(30), <2>3 DEF vars, code, history, Coils, NotHurried
  <2> QED
    BY <2>1, <2>2, <2>3, CommandKeepsCoils DEF Next
<1>3. Coils => CoilPulsed
  BY DEF Coils, CoilPulsed, Awaited, NotHurried, Slots, OnPacket, OffPacket
<1> QED
  BY <1>1, <1>2, <1>3, TypeCorrect, PTL DEF Spec
=============================================================================
