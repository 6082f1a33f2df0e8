---------------------------- MODULE ServicesProofs ----------------------------
(***************************************************************************)
(* Proofs about the services behind the web shop, for every value of the    *)
(* constants: what the consumers of order-events earn, take and revoke      *)
(* (OrderEvents), the documents of products and the search index            *)
(* (Catalogue), and members and their welcome points (Members).             *)
(***************************************************************************)
EXTENDS OrderEvents, Catalogue, Members, FiniteSetTheorems, SequenceTheorems, WellFoundedInduction, TLAPS

-----------------------------------------------------------------------------
(* The consumers of order-events                                           *)

(* What is earned is a sum over the events, which the model writes as a    *)
(* fold.  It is counted here: a function of natural numbers has a cell     *)
(* <<x, k>> for every k from 1 to its value at x, and the fold over a      *)
(* finite domain is the number of cells.                                   *)
Cells(f, S, bound) == {cell \in S \X (1..bound) : cell[2] <= f[cell[1]]}

(* What the fold chooses: a function that sums every subset. *)
Sums(f, S, sum) ==
  sum = [s \in SUBSET S |-> IF s = {} THEN 0
           ELSE LET x == CHOOSE x \in s : TRUE IN f[x] + sum[s \ {x}]]

SumOf(f) == (CHOOSE sum : Sums(f, DOMAIN f, sum))[DOMAIN f]

(* There is one such function, as a smallest set of two sums shows. *)
LEMMA SumsOnce ==
  ASSUME NEW f, NEW S, IsFiniteSet(S), NEW g, NEW h, Sums(f, S, g), Sums(f, S, h)
  PROVE  g[S] = h[S]
<1> SUFFICES ASSUME g[S] # h[S] PROVE FALSE
  OBVIOUS
<1> DEFINE Differ == {s \in SUBSET S : g[s] # h[s]}
<1>1. IsWellFoundedOn(StrictSubsetOrdering(S), SUBSET S)
  BY FS_StrictSubsetOrderingWellFounded, FS_FiniteSubsetsOfFinite
<1>2. Differ \subseteq SUBSET S /\ Differ # {}
  OBVIOUS
<1>3. PICK s \in Differ : \A u \in Differ : <<u, s>> \notin StrictSubsetOrdering(S)
  <2> HIDE DEF Differ
  <2> QED
    BY <1>1, <1>2, WFMin
<1>4. \A u \in SUBSET S : u \subseteq s /\ u # s => g[u] = h[u]
  BY <1>3 DEF StrictSubsetOrdering
<1>5. s # {}
  BY <1>3 DEF Sums
<1> DEFINE x == CHOOSE x \in s : TRUE
<1>6. x \in s
  BY <1>5
<1>7. g[s \ {x}] = h[s \ {x}]
  BY <1>3, <1>4, <1>6
<1>8. g[s] = f[x] + g[s \ {x}] /\ h[s] = f[x] + h[s \ {x}]
  BY <1>3, <1>5 DEF Sums
<1> QED
  BY <1>3, <1>7, <1>8

LEMMA CellsFinite ==
  ASSUME NEW f, NEW S, IsFiniteSet(S), NEW bound \in Nat
  PROVE  IsFiniteSet(Cells(f, S, bound)) /\ Cardinality(Cells(f, S, bound)) \in Nat
<1>1. IsFiniteSet(1..bound)
  BY 1 \in Int, bound \in Int, FS_Interval
<1>3. IsFiniteSet(S \X (1..bound))
  BY <1>1, FS_Product
<1>2. Cells(f, S, bound) \in SUBSET (S \X (1..bound))
  BY DEF Cells
<1> QED
  BY <1>2, <1>3, FS_Subset, FS_CardinalityType

(* The cells of one element, and of the others. *)
LEMMA CellsOfOne ==
  ASSUME NEW S, IsFiniteSet(S), NEW bound \in Nat, NEW f \in [S -> 0..bound], NEW s \in SUBSET S, NEW x \in s
  PROVE  Cardinality(Cells(f, s, bound)) = f[x] + Cardinality(Cells(f, s \ {x}, bound))
<1> DEFINE own == {x} \X (1..f[x])
           others == Cells(f, s \ {x}, bound)
<1>1. f[x] \in Nat /\ f[x] <= bound
  OBVIOUS
<1>2. IsFiniteSet(own) /\ Cardinality(own) = f[x]
  <2>1. ASSUME NEW n \in Nat PROVE IsFiniteSet(1..n) /\ Cardinality(1..n) = n
    <3>1. 1 \in Int /\ n \in Int /\ (IF 1 > n THEN 0 ELSE n - 1 + 1) = n
      OBVIOUS
    <3> QED
      BY <3>1, FS_Interval
  <2>2. IsFiniteSet({x}) /\ Cardinality({x}) = 1
    BY FS_Singleton
  <2> QED
    <3>1. IsFiniteSet(1..f[x]) /\ Cardinality(1..f[x]) = f[x]
      BY <1>1, <2>1
    <3>2. IsFiniteSet(own) /\ Cardinality(own) = Cardinality({x}) * Cardinality(1..f[x])
      BY <2>2, <3>1, FS_Product
    <3> QED
      BY <1>1, <2>2, <3>1, <3>2
<1>3. IsFiniteSet(others) /\ Cardinality(others) \in Nat
  <2>1. IsFiniteSet(s \ {x})
    BY FS_Subset
  <2> QED
    BY <2>1, CellsFinite
<1>4. Cells(f, s, bound) = own \cup others
  <2>1. ASSUME NEW cell \in Cells(f, s, bound) PROVE cell \in own \cup others
    <3>1. cell[1] \in s /\ cell[2] \in 1..bound /\ cell[2] <= f[cell[1]] /\ cell = <<cell[1], cell[2]>>
      BY DEF Cells
    <3>2. CASE cell[1] = x
      <4>1. cell[2] \in 1..f[x]
        BY <1>1, <3>1, <3>2
      <4> QED
        BY <3>1, <3>2, <4>1
    <3>3. CASE cell[1] # x
      BY <3>1, <3>3 DEF Cells
    <3> QED
      BY <3>2, <3>3
  <2>2. ASSUME NEW cell \in own PROVE cell \in Cells(f, s, bound)
    <3>1. cell[1] = x /\ cell[2] \in 1..f[x] /\ cell = <<cell[1], cell[2]>>
      OBVIOUS
    <3>2. cell[2] \in 1..bound /\ cell[2] <= f[x]
      BY <1>1, <3>1
    <3> QED
      BY <3>1, <3>2 DEF Cells
  <2>3. others \subseteq Cells(f, s, bound)
    BY DEF Cells
  <2> QED
    BY <2>1, <2>2, <2>3
<1>5. own \cap others = {}
  BY DEF Cells
<1>6. Cardinality(own \cap others) = 0
  BY <1>5, FS_EmptySet
<1> HIDE DEF own, others
<1>7. Cardinality(own \cup others) = Cardinality(own) + Cardinality(others) - Cardinality(own \cap others)
  BY <1>2, <1>3, FS_Union
<1>8. Cardinality(Cells(f, s, bound)) = f[x] + Cardinality(others)
  BY <1>1, <1>2, <1>3, <1>4, <1>6, <1>7
<1> QED
  BY <1>8 DEF others

(* The sum of a function is the number of its cells. *)
LEMMA SumIsCells ==
  ASSUME NEW S, IsFiniteSet(S), NEW bound \in Nat, NEW f \in [S -> 0..bound]
  PROVE  SumOf(f) = Cardinality(Cells(f, S, bound))
<1> DEFINE count == [s \in SUBSET S |-> Cardinality(Cells(f, s, bound))]
<1>1. Sums(f, S, count)
  <2>1. ASSUME NEW s \in SUBSET S
        PROVE  count[s] = IF s = {} THEN 0
                            ELSE LET x == CHOOSE x \in s : TRUE IN f[x] + count[s \ {x}]
    <3>1. CASE s = {}
      <4>1. Cells(f, s, bound) = {}
        BY <3>1 DEF Cells
      <4> QED
        BY <3>1, <4>1, FS_EmptySet
    <3>2. CASE s # {}
      <4> DEFINE x == CHOOSE x \in s : TRUE
      <4>1. x \in s
        BY <3>2
      <4> HIDE DEF x
      <4>2. s \ {x} \in SUBSET S
        OBVIOUS
      <4>3. count[s] = f[x] + count[s \ {x}]
        BY <4>1, <4>2, CellsOfOne
      <4> QED
        BY <3>2, <4>3 DEF x
    <3> QED
      BY <3>1, <3>2
  <2> HIDE DEF count
  <2>2. count = [s \in SUBSET S |-> count[s]]
    BY DEF count
  <2>3. [s \in SUBSET S |-> count[s]]
          = [s \in SUBSET S |-> IF s = {} THEN 0 ELSE LET x == CHOOSE x \in s : TRUE IN f[x] + count[s \ {x}]]
    BY <2>1
  <2> QED
    BY <2>2, <2>3 DEF Sums
<1> DEFINE iter == CHOOSE iter : Sums(f, S, iter)
<1>2. Sums(f, S, iter)
  <2> HIDE DEF count
  <2> QED
    BY <1>1
<1>3. iter[S] = count[S]
  <2> HIDE DEF count, iter
  <2> QED
    BY <1>1, <1>2, SumsOnce
<1>4. DOMAIN f = S
  OBVIOUS
<1> QED
  BY <1>3, <1>4 DEF SumOf

CountsUpTo(S, bound) == [S -> 0..bound]

OneMore(f, x) == [f EXCEPT ![x] = f[x] + 1]

(* One more of one element is one more of the sum, and nothing sums to nothing. *)
LEMMA SumOfOneMore ==
  ASSUME NEW S, IsFiniteSet(S), NEW bound \in Nat, NEW f \in CountsUpTo(S, bound), NEW x \in S, f[x] < bound
  PROVE  SumOf(f) \in Nat /\ SumOf(OneMore(f, x)) = SumOf(f) + 1
<1> DEFINE g == OneMore(f, x)
           new == <<x, f[x] + 1>>
<1>1. f \in [S -> 0..bound] /\ g \in [S -> 0..bound] /\ f[x] \in 0..bound
  BY DEF CountsUpTo, OneMore
<1>2. g[x] = f[x] + 1 /\ \A y \in S : y # x => g[y] = f[y]
  BY <1>1 DEF OneMore
<1> HIDE DEF g
<1>3. Cells(g, S, bound) = Cells(f, S, bound) \cup {new}
  <2>1. ASSUME NEW cell \in S \X (1..bound)
        PROVE  cell[2] <= g[cell[1]] <=> cell[2] <= f[cell[1]] \/ cell = new
    <3>1. cell[1] \in S /\ cell[2] \in Nat /\ cell = <<cell[1], cell[2]>> /\ f[cell[1]] \in Nat
      BY <1>1
    <3>2. CASE cell[1] = x
      BY <1>1, <1>2, <3>1, <3>2
    <3>3. CASE cell[1] # x
      BY <1>1, <1>2, <3>1, <3>3
    <3> QED
      BY <3>2, <3>3
  <2>2. new \in S \X (1..bound)
    BY <1>1
  <2> HIDE DEF new
  <2> QED
    BY <2>1, <2>2 DEF Cells
<1>4. new \notin Cells(f, S, bound)
  BY <1>1 DEF Cells
<1>5. IsFiniteSet(Cells(f, S, bound)) /\ Cardinality(Cells(f, S, bound)) \in Nat
  BY CellsFinite
<1>6. Cardinality(Cells(g, S, bound)) = Cardinality(Cells(f, S, bound)) + 1
  <2> HIDE DEF new
  <2> QED
    BY <1>3, <1>4, <1>5, FS_AddElement
<1>7. SumOf(g) = Cardinality(Cells(g, S, bound)) /\ SumOf(f) = Cardinality(Cells(f, S, bound))
  BY <1>1, SumIsCells
<1> QED
  BY <1>5, <1>6, <1>7 DEF g

LEMMA SumOfNothing ==
  ASSUME NEW S, IsFiniteSet(S)
  PROVE  SumOf([x \in S |-> 0]) = 0
<1> DEFINE f == [x \in S |-> 0]
<1>1. f \in [S -> 0..0] /\ Cells(f, S, 0) = {}
  BY DEF Cells
<1> HIDE DEF f
<1>2. SumOf(f) = Cardinality(Cells(f, S, 0))
  BY <1>1, SumIsCells
<1> QED
  BY <1>1, <1>2, FS_EmptySet DEF f
-----------------------------------------------------------------------------
(* order-events                                                            *)

(* A delivery of an event that the consumer has not passed was followed by *)
(* a death, each of which lets every event be delivered once more.         *)
PassedAndDelivered ==
  \A g \in Groups :
    /\ oeCommitted[g] <= oePosition[g] /\ oePosition[g] <= oeLog
    /\ \A e \in Events :
         /\ e <= oePosition[g] => oeApplied[g][e] > 0 \/ e \in oeSkipped[g]
         /\ e <= oePosition[g] => oeApplied[g][e] <= 1 + oeFaults
         /\ e > oePosition[g] => oeApplied[g][e] <= oeFaults

(* Without faults nothing was skipped, and what was revoked, or tried to   *)
(* be, had been earned, unless it was tried early.                         *)
RevokedWhenEarned ==
  oeFaults = 0 =>
    /\ \A g \in Groups : oeSkipped[g] = {}
    /\ ~oeEarly => \A e \in Events : oeRevoke[e].status # "none" => e <= oePosition["point"]

(* A revocation is pending while it has tries left. *)
TriesLeft ==
  \A e \in Events :
    /\ oeRevoke[e].status = "none" => oeRevoke[e].tries = 0
    /\ oeRevoke[e].status = "pending" => oeRevoke[e].tries < MaxTries

PointsBalance == Deliveries("point") = oePoints + oeSpent + Cardinality(Revoked)

GivenUpForAReason ==
  (\E e \in Events : oeRevoke[e].status = "failed") => oeEarly \/ oeSpent > 0 \/ oeFaults > 0

OrderEventsInv ==
  OrderEventsTypeOK /\ PassedAndDelivered /\ RevokedWhenEarned /\ TriesLeft /\ PointsBalance /\ GivenUpForAReason

LEMMA DeliveriesAreSum ==
  ASSUME NEW g
  PROVE  Deliveries(g) = SumOf(oeApplied[g]) /\ Deliveries(g)' = SumOf(oeApplied'[g])
  BY DEF Deliveries, FoldFunction, FoldFunctionOnSet, MapThenFoldSet, SumOf, Sums

LEMMA EventsFinite ==
  IsFiniteSet(Events) /\ \A R \in SUBSET Events : IsFiniteSet(R) /\ Cardinality(R) \in Nat
<1>1. 1 \in Int /\ MaxEvents \in Int
  BY EventsAssumption
<1>2. IsFiniteSet(Events)
  BY <1>1, FS_Interval DEF Events
<1> QED
  BY <1>2, FS_Subset, FS_CardinalityType

(* Events that were all delivered are no more than the deliveries. *)
LEMMA DeliveredAreDeliveries ==
  ASSUME OrderEventsTypeOK, NEW R \in SUBSET Events, \A e \in R : oeApplied["point"][e] > 0
  PROVE  Cardinality(R) <= Deliveries("point")
<1> DEFINE f == oeApplied["point"]
           bound == MaxFaults + 1
<1>1. f \in [Events -> 0..bound] /\ bound \in Nat /\ IsFiniteSet(Events)
  BY EventsFinite, EventsAssumption DEF OrderEventsTypeOK, Groups
<1>2. Deliveries("point") = Cardinality(Cells(f, Events, bound))
  <2> HIDE DEF bound
  <2> QED
    BY <1>1, SumIsCells, DeliveriesAreSum
<1>3. R \X {1} \in SUBSET Cells(f, Events, bound)
  <2>1. 1 \in 1..bound /\ \A e \in R : 1 <= f[e]
    BY <1>1, EventsAssumption
  <2> HIDE DEF f, bound
  <2> QED
    BY <2>1 DEF Cells
<1>4. IsFiniteSet(Cells(f, Events, bound)) /\ Cardinality(Cells(f, Events, bound)) \in Nat
  <2> HIDE DEF f, bound
  <2> QED
    BY <1>1, CellsFinite
<1>5. Cardinality(R \X {1}) <= Cardinality(Cells(f, Events, bound))
  <2> HIDE DEF f, bound
  <2> QED
    BY <1>3, <1>4, FS_Subset
<1>6. Cardinality(R \X {1}) = Cardinality(R)
  <2>1. IsFiniteSet({1}) /\ Cardinality({1}) = 1
    BY FS_Singleton
  <2>2. IsFiniteSet(R) /\ Cardinality(R) \in Nat
    BY EventsFinite
  <2>3. Cardinality(R \X {1}) = Cardinality(R) * Cardinality({1})
    BY <2>1, <2>2, FS_Product
  <2> QED
    BY <2>1, <2>2, <2>3
<1> QED
  BY <1>2, <1>5, <1>6

LEMMA OrderEventsInitInv == ASSUME OrderEventsInit PROVE OrderEventsInv
<1> USE EventsAssumption, TriesAssumption DEF OrderEventsInit
<1>1. OrderEventsTypeOK
  <2>1. /\ NotRevoked \in [status : {"none", "pending", "revoked", "failed"}, tries : 0..MaxTries]
        /\ 0 \in 0..MaxEvents /\ 0 \in 0..(MaxFaults + 1) /\ 0 \in 0..MaxFaults
    BY DEF NotRevoked
  <2> QED
    BY <2>1 DEF OrderEventsTypeOK
<1>2. PassedAndDelivered
  BY DEF PassedAndDelivered, Events
<1>3. RevokedWhenEarned /\ TriesLeft /\ GivenUpForAReason
  BY DEF RevokedWhenEarned, TriesLeft, GivenUpForAReason, NotRevoked
<1>4. PointsBalance
  <2>1. oeApplied["point"] = [e \in Events |-> 0]
    BY DEF Groups
  <2>2. Deliveries("point") = 0
    BY <2>1, EventsFinite, SumOfNothing, DeliveriesAreSum
  <2>3. Revoked = {}
    BY DEF Revoked, NotRevoked
  <2> QED
    BY <2>2, <2>3, FS_EmptySet DEF PointsBalance
<1> QED
  BY <1>1, <1>2, <1>3, <1>4 DEF OrderEventsInv

(* A delivery to a group, what it does to its events and to the sum. *)
LEMMA HandleKeeps ==
  ASSUME OrderEventsInv, NEW g \in Groups, Handle(g),
         oePoints' = oePoints + (IF g = "point" THEN 1 ELSE 0)
  PROVE  OrderEventsInv'
<1> DEFINE next == oePosition[g] + 1
<1>1. /\ OrderEventsTypeOK /\ PassedAndDelivered /\ RevokedWhenEarned /\ TriesLeft
      /\ PointsBalance /\ GivenUpForAReason
  BY DEF OrderEventsInv
<1>2. /\ oeLog \in 0..MaxEvents /\ oePosition[g] \in 0..MaxEvents /\ oePosition[g] < oeLog
      /\ MaxEvents \in Nat /\ oeFaults \in 0..MaxFaults /\ MaxFaults \in Nat /\ oePoints \in Nat
  BY <1>1, EventsAssumption DEF OrderEventsTypeOK, Handle
<1>3. next \in Events /\ next <= oeLog /\ next > oePosition[g] /\ next \in 0..MaxEvents
  BY <1>2 DEF Events
<1>4. oeApplied[g][next] \in 0..(MaxFaults + 1) /\ oeApplied[g][next] <= oeFaults
  BY <1>1, <1>3 DEF OrderEventsTypeOK, PassedAndDelivered
<1>5. oeApplied[g][next] + 1 \in 0..(MaxFaults + 1) /\ oeApplied[g][next] + 1 <= 1 + oeFaults
  BY <1>2, <1>4
<1>6. /\ oeApplied' = [oeApplied EXCEPT ![g] = [oeApplied[g] EXCEPT ![next] = oeApplied[g][next] + 1]]
      /\ oePosition' = [oePosition EXCEPT ![g] = next]
      /\ UNCHANGED <<oeLog, oeCommitted, oeSkipped, oeRevoke, oeEarly, oeSpent, oeFaults>>
  BY DEF Handle
<1>7. OrderEventsTypeOK'
  <2>1. oePoints' \in Nat
    BY <1>2
  <2>2. [oeApplied[g] EXCEPT ![next] = oeApplied[g][next] + 1] \in [Events -> 0..(MaxFaults + 1)]
    BY <1>1, <1>5 DEF OrderEventsTypeOK
  <2> HIDE DEF next
  <2>3. oeApplied' \in [Groups -> [Events -> 0..(MaxFaults + 1)]] /\ oePosition' \in [Groups -> 0..MaxEvents]
    BY <1>1, <1>3, <1>6, <2>2 DEF OrderEventsTypeOK
  <2> QED
    BY <1>1, <1>6, <2>1, <2>3 DEF OrderEventsTypeOK
<1>8. PassedAndDelivered'
  <2>1. ASSUME NEW h \in Groups
        PROVE  (/\ oeCommitted[h] <= oePosition[h] /\ oePosition[h] <= oeLog
                /\ \A e \in Events :
                     /\ e <= oePosition[h] => oeApplied[h][e] > 0 \/ e \in oeSkipped[h]
                     /\ e <= oePosition[h] => oeApplied[h][e] <= 1 + oeFaults
                     /\ e > oePosition[h] => oeApplied[h][e] <= oeFaults)'
    <3>1. CASE h # g
      <4>1. oePosition'[h] = oePosition[h] /\ oeApplied'[h] = oeApplied[h]
        BY <1>1, <1>6, <3>1 DEF OrderEventsTypeOK
      <4> QED
        BY <1>1, <1>6, <4>1 DEF PassedAndDelivered
    <3>2. CASE h = g
      <4>1. oePosition'[g] = next /\ oeCommitted[g] \in 0..MaxEvents
        BY <1>1, <1>6 DEF OrderEventsTypeOK
      <4>2. oeCommitted'[g] <= oePosition'[g] /\ oePosition'[g] <= oeLog'
        BY <1>1, <1>2, <1>3, <1>6, <4>1 DEF PassedAndDelivered
      <4>3. ASSUME NEW e \in Events
            PROVE  (/\ e <= oePosition[g] => oeApplied[g][e] > 0 \/ e \in oeSkipped[g]
                    /\ e <= oePosition[g] => oeApplied[g][e] <= 1 + oeFaults
                    /\ e > oePosition[g] => oeApplied[g][e] <= oeFaults)'
        <5>1. CASE e = next
          <6>1. oeApplied'[g][e] = oeApplied[g][next] + 1
            BY <1>1, <1>3, <1>6, <5>1 DEF OrderEventsTypeOK
          <6> QED
            BY <1>3, <1>4, <1>5, <1>6, <4>1, <5>1, <6>1
        <5>2. CASE e # next
          <6>1. oeApplied'[g][e] = oeApplied[g][e]
            BY <1>1, <1>3, <1>6, <5>2 DEF OrderEventsTypeOK
          <6>2. (e <= next <=> e <= oePosition[g]) /\ (e > next <=> e > oePosition[g])
            BY <1>2, <5>2 DEF Events
          <6> QED
            BY <1>1, <1>6, <4>1, <6>1, <6>2 DEF PassedAndDelivered
        <5> QED
          BY <5>1, <5>2
      <4> QED
        BY <3>2, <4>2, <4>3
    <3> QED
      BY <3>1, <3>2
  <2> QED
    BY <2>1 DEF PassedAndDelivered
<1>9. RevokedWhenEarned'
  <2>1. oePosition["point"] \in Nat /\ oePosition'["point"] \in Nat /\ oePosition["point"] <= oePosition'["point"]
    BY <1>1, <1>2, <1>3, <1>6 DEF OrderEventsTypeOK, Groups
  <2>2. \A e \in Events : e <= oePosition["point"] => e <= oePosition'["point"]
    BY <2>1 DEF Events
  <2> QED
    BY <1>1, <1>6, <2>2 DEF RevokedWhenEarned
<1>10. TriesLeft' /\ GivenUpForAReason'
  BY <1>1, <1>6 DEF TriesLeft, GivenUpForAReason
<1>11. PointsBalance'
  <2>1. Revoked' = Revoked
    BY <1>6 DEF Revoked
  <2>2. Cardinality(Revoked) \in Nat /\ oeSpent \in Nat
    BY <1>1, EventsFinite DEF Revoked, OrderEventsTypeOK
  <2>3. CASE g # "point"
    <3>1. oeApplied'["point"] = oeApplied["point"] /\ oePoints' = oePoints
      BY <1>1, <1>2, <1>6, <2>3 DEF OrderEventsTypeOK, Groups
    <3>2. Deliveries("point")' = Deliveries("point")
      BY <3>1, DeliveriesAreSum
    <3> QED
      BY <1>1, <1>6, <2>1, <3>1, <3>2 DEF PointsBalance
  <2>4. CASE g = "point"
    <3> DEFINE f == oeApplied["point"]
               after == oeApplied'["point"]
               bound == MaxFaults + 1
    <3>1. after = OneMore(f, next)
      BY <1>1, <1>6, <2>4 DEF OrderEventsTypeOK, Groups, OneMore
    <3>2. f \in CountsUpTo(Events, bound) /\ bound \in Nat /\ f[next] < bound
      BY <1>1, <1>2, <1>4, <2>4 DEF OrderEventsTypeOK, CountsUpTo
    <3> HIDE DEF f, bound, next
    <3>3. SumOf(f) \in Nat /\ SumOf(after) = SumOf(f) + 1
      <4>1. IsFiniteSet(Events) /\ next \in Events
        BY <1>3, EventsFinite
      <4> HIDE DEF after
      <4> QED
        BY <3>1, <3>2, <4>1, SumOfOneMore
    <3>4. Deliveries("point")' = Deliveries("point") + 1
      BY <3>1, <3>3, DeliveriesAreSum DEF f
    <3> QED
      BY <1>1, <1>2, <1>6, <2>1, <2>2, <2>4, <3>4 DEF PointsBalance
  <2> QED
    BY <2>3, <2>4
<1> QED
  BY <1>7, <1>8, <1>9, <1>10, <1>11 DEF OrderEventsInv

(* The steps of a consumer that deliver nothing. *)
LEMMA NoDeliveryKeeps ==
  ASSUME OrderEventsInv, NEW g \in Groups, HandlingFails(g) \/ CommitOffset(g) \/ ConsumerDies(g)
  PROVE  OrderEventsInv'
<1>1. /\ OrderEventsTypeOK /\ PassedAndDelivered /\ RevokedWhenEarned /\ TriesLeft
      /\ PointsBalance /\ GivenUpForAReason
  BY DEF OrderEventsInv
<1>2. /\ UNCHANGED <<oeLog, oeApplied, oePoints, oeRevoke, oeEarly, oeSpent>>
      /\ oeFaults' \in {oeFaults, oeFaults + 1} /\ oeFaults' \in 0..MaxFaults /\ oeFaults \in 0..MaxFaults
      /\ MaxFaults \in Nat /\ MaxEvents \in Nat
  BY <1>1, EventsAssumption DEF OrderEventsTypeOK, HandlingFails, CommitOffset, ConsumerDies, Fault
<1>3. /\ oeLog \in 0..MaxEvents /\ oePosition[g] \in 0..MaxEvents /\ oeCommitted[g] \in 0..MaxEvents
      /\ oeCommitted[g] <= oePosition[g] /\ oePosition[g] <= oeLog
  BY <1>1 DEF OrderEventsTypeOK, PassedAndDelivered
<1>4. \A h \in Groups : oePosition[h] \in Nat /\ oeCommitted[h] \in Nat /\ \A e \in Events : oeApplied[h][e] \in Nat /\ e \in Nat
  BY <1>1, <1>2 DEF OrderEventsTypeOK, Events
<1>5. PointsBalance' /\ TriesLeft' /\ GivenUpForAReason'
  <2>1. Deliveries("point")' = Deliveries("point") /\ Revoked' = Revoked
    BY <1>2, DeliveriesAreSum DEF Revoked
  <2>2. PointsBalance'
    BY <1>1, <1>2, <2>1 DEF PointsBalance
  <2>3. TriesLeft' /\ GivenUpForAReason'
    BY <1>1, <1>2 DEF TriesLeft, GivenUpForAReason
  <2> QED
    BY <2>2, <2>3
<1>6. CASE HandlingFails(g)
  <2> DEFINE next == oePosition[g] + 1
  <2>1. next \in Events /\ next \in 0..MaxEvents /\ next <= oeLog
    BY <1>2, <1>3, <1>6 DEF HandlingFails, Events
  <2>2. /\ oePosition' = [oePosition EXCEPT ![g] = next]
        /\ oeSkipped' = [oeSkipped EXCEPT ![g] = oeSkipped[g] \cup {next}]
        /\ UNCHANGED oeCommitted /\ oeFaults' = oeFaults + 1
    BY <1>6 DEF HandlingFails, Fault
  <2>3. OrderEventsTypeOK'
    BY <1>1, <1>2, <2>1, <2>2 DEF OrderEventsTypeOK
  <2>4. PassedAndDelivered'
    <3>1. ASSUME NEW h \in Groups
          PROVE  /\ oeCommitted'[h] <= oePosition'[h] /\ oePosition'[h] <= oeLog'
                 /\ \A e \in Events :
                      /\ e <= oePosition'[h] => oeApplied'[h][e] > 0 \/ e \in oeSkipped'[h]
                      /\ e <= oePosition'[h] => oeApplied'[h][e] <= 1 + oeFaults'
                      /\ e > oePosition'[h] => oeApplied'[h][e] <= oeFaults'
      <4>1. CASE h # g
        <5>1. oePosition'[h] = oePosition[h] /\ oeSkipped'[h] = oeSkipped[h]
          BY <1>1, <2>2, <4>1 DEF OrderEventsTypeOK
        <5> QED
          BY <1>1, <1>2, <1>4, <2>2, <5>1 DEF PassedAndDelivered
      <4>2. CASE h = g
        <5>1. oePosition'[g] = next /\ oeSkipped'[g] = oeSkipped[g] \cup {next}
          BY <1>1, <2>2 DEF OrderEventsTypeOK
        <5>2. \A e \in Events : e <= next => e <= oePosition[g] \/ e = next
          BY <1>4
        <5>3. \A e \in Events : e > next => e > oePosition[g]
          BY <1>4
        <5>4. ASSUME NEW e \in Events, e <= oePosition'[h]
              PROVE  (oeApplied'[h][e] > 0 \/ e \in oeSkipped'[h]) /\ oeApplied'[h][e] <= 1 + oeFaults'
          BY <1>1, <1>2, <1>3, <1>4, <2>2, <4>2, <5>1, <5>2, <5>4 DEF PassedAndDelivered
        <5>5. ASSUME NEW e \in Events, e > oePosition'[h]
              PROVE  oeApplied'[h][e] <= oeFaults'
          BY <1>1, <1>2, <1>4, <2>2, <4>2, <5>1, <5>3, <5>5 DEF PassedAndDelivered
        <5> QED
          BY <1>1, <1>2, <1>3, <2>1, <2>2, <4>2, <5>1, <5>4, <5>5
      <4> QED
        BY <4>1, <4>2
    <3> QED
      BY <3>1 DEF PassedAndDelivered
  <2>5. RevokedWhenEarned'
    BY <1>2, <2>2 DEF RevokedWhenEarned
  <2> QED
    BY <1>5, <2>3, <2>4, <2>5 DEF OrderEventsInv
<1>7. CASE CommitOffset(g)
  <2>1. /\ oeCommitted' = [oeCommitted EXCEPT ![g] = oePosition[g]]
        /\ UNCHANGED <<oePosition, oeSkipped, oeFaults>>
    BY <1>7 DEF CommitOffset
  <2>2. OrderEventsTypeOK'
    BY <1>1, <1>2, <1>3, <2>1 DEF OrderEventsTypeOK
  <2>3. PassedAndDelivered'
    BY <1>1, <1>2, <1>3, <2>1 DEF PassedAndDelivered, OrderEventsTypeOK
  <2>4. RevokedWhenEarned'
    BY <1>1, <1>2, <2>1 DEF RevokedWhenEarned
  <2> QED
    BY <1>5, <2>2, <2>3, <2>4 DEF OrderEventsInv
<1>8. CASE ConsumerDies(g)
  <2>1. /\ oePosition' = [oePosition EXCEPT ![g] = oeCommitted[g]]
        /\ UNCHANGED <<oeCommitted, oeSkipped>> /\ oeFaults' = oeFaults + 1
    BY <1>8 DEF ConsumerDies, Fault
  <2>2. OrderEventsTypeOK'
    BY <1>1, <1>2, <1>3, <2>1 DEF OrderEventsTypeOK
  <2>3. PassedAndDelivered'
    <3>1. ASSUME NEW h \in Groups
          PROVE  /\ oeCommitted'[h] <= oePosition'[h] /\ oePosition'[h] <= oeLog'
                 /\ \A e \in Events :
                      /\ e <= oePosition'[h] => oeApplied'[h][e] > 0 \/ e \in oeSkipped'[h]
                      /\ e <= oePosition'[h] => oeApplied'[h][e] <= 1 + oeFaults'
                      /\ e > oePosition'[h] => oeApplied'[h][e] <= oeFaults'
      <4>1. oePosition'[h] \in {oePosition[h], oeCommitted[h]}
        BY <1>1, <2>1 DEF OrderEventsTypeOK
      <4>2. oePosition'[h] <= oePosition[h] /\ oeCommitted[h] <= oePosition'[h] /\ oePosition'[h] \in Nat
        BY <1>1, <1>4, <4>1 DEF PassedAndDelivered
      <4>3. ASSUME NEW e \in Events PROVE oeApplied[h][e] <= 1 + oeFaults
        BY <1>1, <1>2, <1>4 DEF PassedAndDelivered
      <4>4. \A e \in Events : e <= oePosition'[h] => e <= oePosition[h]
        BY <1>4, <4>2
      <4>5. oePosition[h] <= oeLog /\ oeLog \in Nat
        BY <1>1, <1>3 DEF PassedAndDelivered
      <4> QED
        BY <1>1, <1>2, <1>4, <2>1, <4>2, <4>3, <4>4, <4>5 DEF PassedAndDelivered
    <3> QED
      BY <3>1 DEF PassedAndDelivered
  <2>4. RevokedWhenEarned'
    BY <1>2, <2>1 DEF RevokedWhenEarned
  <2> QED
    BY <1>5, <2>2, <2>3, <2>4 DEF OrderEventsInv
<1> QED
  BY <1>6, <1>7, <1>8

(* An order's points are taken back, in the balance and in its row. *)
LEMMA UsePointsKeeps ==
  ASSUME OrderEventsTypeOK, PointsBalance, NEW e \in Events, UsePoints(e), e \notin Revoked,
         UNCHANGED <<oeApplied, oeSpent>>
  PROVE  PointsBalance'
<1>1. Revoked' = Revoked \cup {e}
  BY DEF Revoked, UsePoints, OrderEventsTypeOK
<1>2. IsFiniteSet(Revoked) /\ Cardinality(Revoked) \in Nat
  BY EventsFinite DEF Revoked
<1>3. Cardinality(Revoked') = Cardinality(Revoked) + 1
  BY <1>1, <1>2, FS_AddElement
<1>4. Deliveries("point")' = Deliveries("point")
  BY DeliveriesAreSum
<1>5. oePoints \in Nat /\ oeSpent \in Nat /\ oePoints' = oePoints - 1
  BY DEF OrderEventsTypeOK, UsePoints
<1> QED
  BY <1>2, <1>3, <1>4, <1>5 DEF PointsBalance

(* Without points an order can only be left if some were taken too early,  *)
(* or spent, or a call failed: all orders whose points were taken back had *)
(* been delivered, and this one as well.                                   *)
LEMMA NoPointsForAReason ==
  ASSUME OrderEventsInv, NEW e \in Events, e \notin Revoked, Tried(e), oePoints < 1
  PROVE  oeEarly' \/ oeSpent > 0 \/ oeFaults > 0
<1> SUFFICES ASSUME ~oeEarly', ~(oeSpent > 0), ~(oeFaults > 0) PROVE FALSE
  OBVIOUS
<1>1. /\ OrderEventsTypeOK /\ PassedAndDelivered /\ RevokedWhenEarned /\ PointsBalance
  BY DEF OrderEventsInv
<1>2. oePoints = 0 /\ oeSpent = 0 /\ oeFaults = 0
  BY <1>1, EventsAssumption DEF OrderEventsTypeOK
<1>3. ~oeEarly /\ ~(oePosition["point"] < e)
  BY DEF Tried
<1>4. e <= oePosition["point"]
  BY <1>1, <1>3 DEF OrderEventsTypeOK, Groups, Events
<1>5. \A d \in Revoked \cup {e} : d \in Events /\ d <= oePosition["point"]
  BY <1>1, <1>2, <1>3, <1>4 DEF RevokedWhenEarned, Revoked
<1>6. oeSkipped["point"] = {}
  BY <1>1, <1>2 DEF RevokedWhenEarned, Groups
<1>7. \A d \in Revoked \cup {e} : oeApplied["point"][d] > 0
  BY <1>1, <1>5, <1>6 DEF PassedAndDelivered, Groups
<1>8. Revoked \cup {e} \in SUBSET Events
  BY <1>5
<1>9. Cardinality(Revoked \cup {e}) <= Deliveries("point")
  BY <1>1, <1>7, <1>8, DeliveredAreDeliveries
<1>10. IsFiniteSet(Revoked) /\ Cardinality(Revoked) \in Nat
  BY EventsFinite DEF Revoked
<1>11. Cardinality(Revoked \cup {e}) = Cardinality(Revoked) + 1
  BY <1>10, FS_AddElement
<1>12. Deliveries("point") = Cardinality(Revoked)
  BY <1>1, <1>2, <1>10 DEF PointsBalance
<1> QED
  BY <1>9, <1>10, <1>11, <1>12

(* A revocation, tried for the first time or again: it takes the points, or *)
(* it is left or given up.                                                 *)
LEMMA RevocationKeeps ==
  ASSUME OrderEventsInv, NEW e \in Events, RevokeEarned(e) \/ RetryRevocation(e)
  PROVE  OrderEventsInv'
<1>1. /\ OrderEventsTypeOK /\ PassedAndDelivered /\ RevokedWhenEarned /\ TriesLeft
      /\ PointsBalance /\ GivenUpForAReason
  BY DEF OrderEventsInv
<1> DEFINE before == oeRevoke[e]
           after == oeRevoke'[e]
           Revocations == [status : {"none", "pending", "revoked", "failed"}, tries : 0..MaxTries]
<1>2. /\ UNCHANGED <<oeLog, oePosition, oeCommitted, oeApplied, oeSkipped, oeSpent>>
      /\ Tried(e) /\ before.status \in {"none", "pending"} /\ e \notin Revoked
  BY DEF RevokeEarned, RetryRevocation, Revoked
<1>3. before \in Revocations /\ before.tries < MaxTries /\ MaxTries \in Nat \ {0}
  BY <1>1, <1>2, TriesAssumption DEF OrderEventsTypeOK, TriesLeft
<1>4. /\ oeFaults \in 0..MaxFaults /\ MaxFaults \in Nat /\ oeFaults' \in 0..MaxFaults
      /\ oeFaults' \in {oeFaults, oeFaults + 1} /\ oePoints \in Nat /\ oeSpent \in Nat
  BY <1>1, EventsAssumption DEF OrderEventsTypeOK, RevokeEarned, RetryRevocation, Fault
<1>5. oeRevoke' = [oeRevoke EXCEPT ![e] = after]
  BY <1>1 DEF OrderEventsTypeOK, RevokeEarned, RetryRevocation, UsePoints
<1>6. \/ /\ UsePoints(e) /\ after = [before EXCEPT !.status = "revoked"]
      \/ /\ oePoints < 1 \/ oeFaults' > 0
         /\ oePoints' = oePoints
         /\ after = [before EXCEPT !.status = "pending"] \/ after = GivenUp(before)
  <2>1. DOMAIN oeRevoke = Events
    BY <1>1 DEF OrderEventsTypeOK
  <2>2. oeFaults' = oeFaults + 1 => oeFaults' > 0
    BY <1>4
  <2> QED
    BY <2>1, <2>2 DEF RevokeEarned, RetryRevocation, UsePoints, Fault
<1>7. after \in Revocations /\ after.status # "none" /\ (after.status = "pending" => after.tries < MaxTries)
  <2>1. CASE after = [before EXCEPT !.status = "revoked"] \/ after = [before EXCEPT !.status = "pending"]
    <3>1. \A s \in {"revoked", "pending"} :
            /\ [before EXCEPT !.status = s] \in Revocations
            /\ [before EXCEPT !.status = s].status = s /\ [before EXCEPT !.status = s].tries = before.tries
      BY <1>3
    <3> QED
      BY <1>3, <2>1, <3>1
  <2>2. CASE after = GivenUp(before)
    <3>1. /\ before.tries + 1 \in 0..MaxTries
          /\ GivenUp(before).tries = before.tries + 1
          /\ GivenUp(before).status = IF before.tries + 1 >= MaxTries THEN "failed" ELSE "pending"
          /\ GivenUp(before) = [tries |-> GivenUp(before).tries, status |-> GivenUp(before).status]
      BY <1>3 DEF GivenUp
    <3> QED
      BY <1>3, <2>2, <3>1
  <2> QED
    BY <1>6, <2>1, <2>2
<1> HIDE DEF after, before
<1>8. OrderEventsTypeOK'
  <2>1. oePoints' \in Nat
    BY <1>4, <1>6 DEF UsePoints
  <2>2. oeEarly' \in BOOLEAN
    BY DEF Tried, RevokeEarned, RetryRevocation
  <2>3. oeRevoke' \in [Events -> Revocations]
    BY <1>1, <1>5, <1>7 DEF OrderEventsTypeOK
  <2> QED
    BY <1>1, <1>2, <1>4, <2>1, <2>2, <2>3 DEF OrderEventsTypeOK
<1>9. PassedAndDelivered'
  <2>1. \A g \in Groups, d \in Events : oeApplied[g][d] \in Nat
    BY <1>1, <1>4 DEF OrderEventsTypeOK
  <2> QED
    BY <1>1, <1>2, <1>4, <2>1 DEF PassedAndDelivered
<1>10. RevokedWhenEarned'
  <2> SUFFICES ASSUME oeFaults' = 0
               PROVE  /\ \A g \in Groups : oeSkipped'[g] = {}
                      /\ ~oeEarly' => \A d \in Events : oeRevoke'[d].status # "none" => d <= oePosition'["point"]
    BY DEF RevokedWhenEarned
  <2>1. oeFaults = 0
    BY <1>4
  <2>2. ASSUME ~oeEarly', NEW d \in Events, oeRevoke'[d].status # "none"
        PROVE  d <= oePosition["point"]
    <3>1. ~oeEarly /\ ~(oePosition["point"] < e)
      BY <1>2, <2>2 DEF Tried
    <3>2. CASE d = e
      BY <1>1, <3>1, <3>2 DEF OrderEventsTypeOK, Groups, Events
    <3>3. CASE d # e
      <4>1. oeRevoke'[d] = oeRevoke[d]
        BY <1>1, <1>5, <3>3 DEF OrderEventsTypeOK
      <4> QED
        BY <1>1, <2>1, <2>2, <3>1, <4>1 DEF RevokedWhenEarned
    <3> QED
      BY <3>2, <3>3
  <2> QED
    BY <1>1, <1>2, <2>1, <2>2 DEF RevokedWhenEarned
<1>11. TriesLeft'
  <2>1. \A d \in Events : oeRevoke'[d] = IF d = e THEN after ELSE oeRevoke[d]
    BY <1>1, <1>5 DEF OrderEventsTypeOK
  <2> QED
    BY <1>1, <1>7, <2>1 DEF TriesLeft
<1>12. PointsBalance'
  <2>1. CASE UsePoints(e)
    BY <1>1, <1>2, <2>1, UsePointsKeeps
  <2>2. CASE oePoints' = oePoints /\ after.status # "revoked"
    <3>1. Revoked' = Revoked
      BY <1>1, <1>2, <1>5, <2>2 DEF Revoked, OrderEventsTypeOK
    <3>2. Deliveries("point")' = Deliveries("point")
      BY <1>2, DeliveriesAreSum
    <3> QED
      BY <1>1, <1>2, <2>2, <3>1, <3>2 DEF PointsBalance
  <2>3. [before EXCEPT !.status = "pending"].status # "revoked" /\ GivenUp(before).status # "revoked"
    BY <1>3 DEF GivenUp
  <2> QED
    BY <1>6, <2>1, <2>2, <2>3
<1>13. GivenUpForAReason'
  <2> SUFFICES ASSUME NEW d \in Events, oeRevoke'[d].status = "failed"
               PROVE  oeEarly' \/ oeSpent' > 0 \/ oeFaults' > 0
    BY DEF GivenUpForAReason
  <2>1. oeEarly => oeEarly'
    BY <1>2 DEF Tried
  <2>2. oeFaults > 0 => oeFaults' > 0
    BY <1>4
  <2>3. CASE d # e
    <3>1. oeRevoke'[d] = oeRevoke[d]
      BY <1>1, <1>5, <2>3 DEF OrderEventsTypeOK
    <3> QED
      BY <1>1, <1>2, <2>1, <2>2, <3>1 DEF GivenUpForAReason
  <2>4. CASE d = e
    <3>1. after.status = "failed"
      BY <2>4 DEF after
    <3>2. [before EXCEPT !.status = "revoked"].status # "failed"
      BY <1>3
    <3>3. oePoints < 1 \/ oeFaults' > 0
      BY <1>6, <3>1, <3>2
    <3> QED
      BY <1>2, <2>2, <3>3, NoPointsForAReason
  <2> QED
    BY <2>3, <2>4
<1> QED
  BY <1>8, <1>9, <1>10, <1>11, <1>12, <1>13 DEF OrderEventsInv

LEMMA OrderEventsStep ==
  ASSUME OrderEventsInv, [OrderEventsNext]_oeVars
  PROVE  OrderEventsInv'
<1>1. /\ OrderEventsTypeOK /\ PassedAndDelivered /\ RevokedWhenEarned /\ TriesLeft
      /\ PointsBalance /\ GivenUpForAReason
  BY DEF OrderEventsInv
<1>2. CASE OrderPlaced
  <2>1. UNCHANGED <<oePosition, oeCommitted, oeApplied, oeSkipped, oePoints, oeRevoke, oeEarly, oeSpent, oeFaults>>
    BY <1>2 DEF OrderPlaced
  <2>2. oeLog' \in 0..MaxEvents /\ oeLog' = oeLog + 1 /\ oeLog \in Nat
    BY <1>1, <1>2, EventsAssumption DEF OrderPlaced, OrderEventsTypeOK
  <2>3. OrderEventsTypeOK'
    BY <1>1, <2>1, <2>2 DEF OrderEventsTypeOK
  <2>4. PassedAndDelivered'
    <3>1. \A g \in Groups : oePosition[g] \in Nat
      BY <1>1 DEF OrderEventsTypeOK
    <3> QED
      BY <1>1, <2>1, <2>2, <3>1 DEF PassedAndDelivered
  <2>5. RevokedWhenEarned' /\ TriesLeft' /\ GivenUpForAReason'
    BY <1>1, <2>1 DEF RevokedWhenEarned, TriesLeft, GivenUpForAReason
  <2>6. PointsBalance'
    <3>1. Deliveries("point")' = Deliveries("point") /\ Revoked' = Revoked
      BY <2>1, DeliveriesAreSum DEF Revoked
    <3> QED
      BY <1>1, <2>1, <3>1 DEF PointsBalance
  <2> QED
    BY <2>3, <2>4, <2>5, <2>6 DEF OrderEventsInv
<1>3. CASE EarnPoints \/ IncrementOrderCount \/ RecordOrder
  <2>1. oePoints \in Nat
    BY <1>1 DEF OrderEventsTypeOK
  <2>2. PICK g \in Groups : Handle(g) /\ oePoints' = oePoints + (IF g = "point" THEN 1 ELSE 0)
    BY <1>3, <2>1 DEF EarnPoints, IncrementOrderCount, RecordOrder, Groups
  <2> QED
    BY <2>2, HandleKeeps
<1>4. ASSUME NEW g \in Groups, HandlingFails(g) \/ CommitOffset(g) \/ ConsumerDies(g) PROVE OrderEventsInv'
  BY <1>4, NoDeliveryKeeps
<1>5. ASSUME NEW e \in Events, RevokeEarned(e) \/ RetryRevocation(e) PROVE OrderEventsInv'
  BY <1>5, RevocationKeeps
<1>6. CASE SpendPoints
  <2>1. /\ UNCHANGED <<oeLog, oePosition, oeCommitted, oeApplied, oeSkipped, oeRevoke, oeEarly, oeFaults>>
        /\ oePoints \in Nat /\ oePoints' \in Nat /\ oePoints' = oePoints - 1
        /\ oeSpent \in Nat /\ oeSpent' = oeSpent + 1
    BY <1>1, <1>6 DEF SpendPoints, OrderEventsTypeOK
  <2>2. OrderEventsTypeOK'
    BY <1>1, <2>1 DEF OrderEventsTypeOK
  <2>3. PassedAndDelivered' /\ RevokedWhenEarned' /\ TriesLeft'
    BY <1>1, <2>1 DEF PassedAndDelivered, RevokedWhenEarned, TriesLeft
  <2>4. GivenUpForAReason'
    BY <2>1 DEF GivenUpForAReason
  <2>5. PointsBalance'
    <3>1. Deliveries("point")' = Deliveries("point") /\ Revoked' = Revoked
      BY <2>1, DeliveriesAreSum DEF Revoked
    <3>2. Cardinality(Revoked) \in Nat
      BY EventsFinite DEF Revoked
    <3> QED
      BY <1>1, <2>1, <3>1, <3>2 DEF PointsBalance
  <2> QED
    BY <2>2, <2>3, <2>4, <2>5 DEF OrderEventsInv
<1>7. CASE UNCHANGED oeVars
  <2>1. OrderEventsTypeOK' /\ PassedAndDelivered' /\ RevokedWhenEarned' /\ TriesLeft' /\ GivenUpForAReason'
    BY <1>1, <1>7 DEF oeVars, OrderEventsTypeOK, PassedAndDelivered, RevokedWhenEarned, TriesLeft, GivenUpForAReason
  <2>2. Deliveries("point")' = Deliveries("point") /\ Revoked' = Revoked
    BY <1>7, DeliveriesAreSum DEF Revoked, oeVars
  <2>3. PointsBalance'
    BY <1>1, <1>7, <2>2 DEF PointsBalance, oeVars
  <2> QED
    BY <2>1, <2>3 DEF OrderEventsInv
<1> QED
  BY <1>2, <1>3, <1>4, <1>5, <1>6, <1>7 DEF OrderEventsNext

LEMMA OrderEventsInvEnough == OrderEventsInv => OrderEventsTypeOK /\ EarnedByDeliveries
<1> SUFFICES ASSUME OrderEventsInv PROVE EarnedByDeliveries
  BY DEF OrderEventsInv
<1>1. /\ OrderEventsTypeOK /\ PassedAndDelivered /\ PointsBalance /\ GivenUpForAReason
  BY DEF OrderEventsInv
<1>2. ASSUME NEW g \in Groups, NEW e \in Events
      PROVE  /\ e <= oePosition[g] => oeApplied[g][e] > 0 \/ e \in oeSkipped[g]
             /\ oeApplied[g][e] <= 1 + oeFaults
  <2>1. e \in Nat /\ oePosition[g] \in Nat /\ oeApplied[g][e] \in Nat /\ oeFaults \in Nat
    BY <1>1, EventsAssumption DEF OrderEventsTypeOK, Events
  <2> QED
    BY <1>1, <2>1 DEF PassedAndDelivered
<1> QED
  BY <1>1, <1>2 DEF EarnedByDeliveries, PointsBalance, GivenUpForAReason

(* What has been delivered, revoked and earned fits together at every step *)
(* of the consumers and of the retry job: the strengthening of EarnedOnce. *)
THEOREM OrderEventsInductive == OrderEventsSpec => []OrderEventsInv
<1>1. OrderEventsInit => OrderEventsInv
  BY OrderEventsInitInv
<1>2. OrderEventsInv /\ [OrderEventsNext]_oeVars => OrderEventsInv'
  BY OrderEventsStep
<1> QED
  BY <1>1, <1>2, PTL DEF OrderEventsSpec

(* Types, for any number of orders, tries and faults: no balance is negative *)
(* and no event takes effect more than MaxFaults + 1 times.                 *)
THEOREM OrderEventsTypes == OrderEventsSpec => []OrderEventsTypeOK
  BY OrderEventsInductive, OrderEventsInvEnough, PTL

(* What point-service earned is what the user has, has spent or was revoked, *)
(* however often consumers die and handlers fail; every event passed took    *)
(* effect or failed; a revocation is given up only for a reason.             *)
THEOREM EarnedOnce == OrderEventsSpec => []EarnedByDeliveries
  BY OrderEventsInductive, OrderEventsInvEnough, PTL

-----------------------------------------------------------------------------
(* product-service's documents and the search index                        *)

SellCall == [step : {"idle", "find", "insert", "read", "write", "send"}, id : 0..MaxDocuments,
             title : SaleTitles \cup {NoDocument}]
ProductEvent == [id : Documents, title : SaleTitles]

CallsAreMeant ==
  \A s \in Sellers :
    /\ caCalls[s].step = "idle" => caCalls[s] = NoRequest
    /\ caCalls[s].step # "idle" => caCalls[s].title \in SaleTitles
    /\ caCalls[s].step \in {"read", "write"} => caCalls[s].id \in Documents
    /\ caCalls[s].step = "send" => caCalls[s].id \in Inserted

(* Every event was written by a call that has sent it, and every call that *)
(* is sending has written.                                                 *)
Sending == {s \in Sellers : caCalls[s].step = "send"}
WrittenOnce == IsFiniteSet(Sending) /\ Len(caEvents) + Cardinality(Sending) <= caWrites

(* Without a race there is one call: what it found is so until it writes,  *)
(* and what it wrote is there until it has sent it.                        *)
OneCall ==
  ~caRaced =>
    /\ \A s, t \in Sellers : caCalls[s] # NoRequest /\ caCalls[t] # NoRequest => s = t
    /\ \A s \in Sellers :
         /\ caCalls[s].step = "insert" => ~Taken(caCalls[s].title)
         /\ caCalls[s].step = "send" => caSell[caCalls[s].id] = caCalls[s].title
    /\ \A c, d \in Inserted : caSell[c] = caSell[d] => c = d

OnlyInserted ==
  /\ \A i \in 1..Len(caEvents) : caEvents[i].id \in Inserted
  /\ \A d \in Documents : caIndex[d] # NoDocument => d \in Inserted

(* The events say last of d that it has this title. *)
LastSaid(events, d, title) ==
  \/ title = NoDocument /\ \A i \in 1..Len(events) : events[i].id # d
  \/ \E i \in 1..Len(events) :
       /\ events[i].id = d /\ events[i].title = title
       /\ \A j \in 1..Len(events) : j > i => events[j].id # d

(* The events follow the documents, and the index follows the events: of a *)
(* document that no event to come is about it has what was said last.  A   *)
(* consumer that died goes back, and then those events are to come again.  *)
EventsFollow ==
  ~caRaced /\ ~caLost =>
    \A d \in Documents : (\A s \in Sending : caCalls[s].id # d) => LastSaid(caEvents, d, caSell[d])

IndexFollows ==
  ~caLost =>
    \A d \in Documents :
      (\A i \in 1..Len(caEvents) : i > caPosition => caEvents[i].id # d) => LastSaid(caEvents, d, caIndex[d])

CatalogueInv ==
  /\ CatalogueTypeOK
  /\ CallsAreMeant /\ WrittenOnce /\ OneCall /\ OnlyInserted /\ EventsFollow /\ IndexFollows

LEMMA CatalogueInitInv == ASSUME CatalogueInit PROVE CatalogueInv
<1> USE DEF CatalogueInit
<1>1. caCalls \in [Sellers -> SellCall] /\ \A s \in Sellers : caCalls[s] = NoRequest
  <2>1. NoRequest \in SellCall
    BY DocumentsAssumption DEF NoRequest, SellCall
  <2> QED
    BY <2>1
<1>2. CatalogueTypeOK
  <2>1. 0 \in 0..MaxWrites /\ caEvents \in Seq(ProductEvent) /\ Len(caEvents) = 0
    BY DocumentsAssumption
  <2>2. caPosition \in 0..Len(caEvents) /\ caCommitted \in 0..caPosition /\ Len(caEvents) <= MaxWrites
    BY <2>1, DocumentsAssumption
  <2> QED
    BY <1>1, <2>1, <2>2 DEF CatalogueTypeOK, SellCall, ProductEvent
<1>3. CallsAreMeant /\ OneCall
  BY <1>1 DEF CallsAreMeant, OneCall, NoRequest, Inserted
<1>4. WrittenOnce
  <2>1. Sending = {} /\ Len(caEvents) = 0
    BY <1>1 DEF Sending, NoRequest
  <2> QED
    BY <2>1, FS_EmptySet DEF WrittenOnce
<1>5. OnlyInserted /\ EventsFollow /\ IndexFollows
  BY DEF OnlyInserted, EventsFollow, IndexFollows, LastSaid
<1> QED
  BY <1>2, <1>3, <1>4, <1>5 DEF CatalogueInv

(* The parts of the invariant, as facts about one call. *)
LEMMA CatalogueFacts ==
  ASSUME CatalogueInv
  PROVE  /\ caSell \in [Documents -> SaleTitles \cup {NoDocument}] /\ caIndex \in [Documents -> SaleTitles \cup {NoDocument}]
         /\ caCalls \in [Sellers -> SellCall]
         /\ caWrites \in 0..MaxWrites /\ caEvents \in Seq(ProductEvent) /\ Len(caEvents) <= MaxWrites
         /\ Len(caEvents) \in Nat /\ caPosition \in 0..Len(caEvents) /\ caCommitted \in 0..caPosition
         /\ caRaced \in BOOLEAN /\ caLost \in BOOLEAN
         /\ CallsAreMeant /\ WrittenOnce /\ OneCall /\ OnlyInserted /\ EventsFollow /\ IndexFollows
  BY DEF CatalogueInv, CatalogueTypeOK, SellCall, ProductEvent

(* A call goes on, or begins, or ends, without touching a document. *)
LEMMA CallMoves ==
  ASSUME CatalogueInv, NEW s \in Sellers, NEW call \in SellCall,
         caCalls' = [caCalls EXCEPT ![s] = call],
         UNCHANGED <<caSell, caWrites, caEvents, caBroker, caLost>>,
         caRaced' \in BOOLEAN, caRaced => caRaced',
         caCalls[s].step # "send", call.step # "send",
         call.step = "idle" => call = NoRequest,
         call.step # "idle" => call.title \in SaleTitles,
         call.step \in {"read", "write"} => call.id \in Documents,
         call.step = "insert" => ~Taken(call.title),
         ~caRaced' => \A t \in Sellers : t # s => caCalls[t] = NoRequest
  PROVE  CatalogueInv'
<1>1. /\ caCalls' \in [Sellers -> SellCall] /\ caCalls'[s] = call
      /\ \A t \in Sellers : t # s => caCalls'[t] = caCalls[t]
  BY CatalogueFacts
<1>2. Inserted' = Inserted /\ \A title : Taken(title)' = Taken(title)
  BY DEF Inserted, Taken
<1>3. Sending' = Sending /\ s \notin Sending
  BY <1>1 DEF Sending
<1>4. UNCHANGED <<caPosition, caCommitted, caIndex>>
  BY DEF caBroker
<1>5. CatalogueTypeOK'
  BY <1>1, <1>4, CatalogueFacts DEF CatalogueTypeOK, SellCall, ProductEvent, Documents
<1>6. CallsAreMeant'
  BY <1>1, <1>2, CatalogueFacts DEF CallsAreMeant
<1>7. WrittenOnce'
  BY <1>3, CatalogueFacts DEF WrittenOnce
<1>8. OneCall'
  <2> SUFFICES ASSUME ~caRaced'
               PROVE  /\ \A t, u \in Sellers : caCalls'[t] # NoRequest /\ caCalls'[u] # NoRequest => t = u
                      /\ \A t \in Sellers :
                           /\ caCalls'[t].step = "insert" => ~Taken(caCalls'[t].title)
                           /\ caCalls'[t].step = "send" => caSell[caCalls'[t].id] = caCalls'[t].title
                      /\ \A c, d \in Inserted : caSell[c] = caSell[d] => c = d
    BY <1>2 DEF OneCall, Taken
  <2>1. \A t \in Sellers : t # s => caCalls'[t] = NoRequest
    BY <1>1
  <2>2. \A c, d \in Inserted : caSell[c] = caSell[d] => c = d
    BY CatalogueFacts DEF OneCall
  <2>3. NoRequest.step = "idle"
    BY DEF NoRequest
  <2> QED
    BY <1>1, <2>1, <2>2, <2>3
<1>9. OnlyInserted'
  BY <1>2, <1>4, CatalogueFacts DEF OnlyInserted
<1>10. EventsFollow'
  <2>1. \A t \in Sending : caCalls'[t] = caCalls[t]
    BY <1>1, <1>3 DEF Sending
  <2>2. ASSUME ~caRaced', ~caLost', NEW d \in Documents, \A t \in Sending : caCalls'[t].id # d
        PROVE  LastSaid(caEvents, d, caSell[d])
    BY <2>1, <2>2, CatalogueFacts DEF EventsFollow
  <2> QED
    BY <1>3, <2>2 DEF EventsFollow
<1>11. IndexFollows'
  BY <1>4, CatalogueFacts DEF IndexFollows
<1> QED
  BY <1>5, <1>6, <1>7, <1>8, <1>9, <1>10, <1>11 DEF CatalogueInv

LEMMA RequestKeeps ==
  ASSUME CatalogueInv, NEW s \in Sellers, NEW title \in SaleTitles,
         PostSell(s, title) \/ \E d \in Documents : PutSell(s, d, title)
  PROVE  CatalogueInv'
<1>1. PICK call \in SellCall :
        Request(s, call) /\ call.title = title /\ call.step \in {"find", "read"} /\ (call.step = "read" => call.id \in Documents)
  <2>1. \A d \in Documents : [step |-> "read", id |-> d, title |-> title] \in SellCall
    BY DocumentsAssumption DEF Documents, SellCall
  <2>2. [step |-> "find", id |-> 0, title |-> title] \in SellCall
    BY DocumentsAssumption DEF SellCall
  <2> QED
    BY <2>1, <2>2 DEF PostSell, PutSell
<1>2. caCalls[s].step # "send"
  BY <1>1 DEF Request, NoRequest
<1>3. caRaced' \in BOOLEAN /\ (caRaced => caRaced') /\ (~caRaced' => \A t \in Sellers : t # s => caCalls[t] = NoRequest)
  BY <1>1 DEF Request
<1> QED
  BY <1>1, <1>2, <1>3, CallMoves DEF Request

(* The single call of a behaviour without a race. *)
LEMMA OthersRest ==
  ASSUME CatalogueInv, NEW s \in Sellers, caCalls[s].step # "idle", ~caRaced
  PROVE  \A t \in Sellers : t # s => caCalls[t] = NoRequest
  BY CatalogueFacts DEF OneCall, NoRequest

LEMMA FindKeeps ==
  ASSUME CatalogueInv, NEW s \in Sellers, FindByTitleAndManagerId(s) \/ FindSellById(s)
  PROVE  CatalogueInv'
<1> DEFINE on(step) == [caCalls[s] EXCEPT !.step = step]
<1>1. caCalls[s] \in SellCall /\ caCalls[s].step \in {"find", "read"} /\ caCalls[s].title \in SaleTitles
      /\ (caCalls[s].step = "read" => caCalls[s].id \in Documents)
  BY CatalogueFacts DEF FindByTitleAndManagerId, FindSellById, CallsAreMeant
<1>2. \A step \in {"insert", "write"} :
        /\ on(step) \in SellCall /\ on(step).step = step /\ on(step).title = caCalls[s].title /\ on(step).id = caCalls[s].id
  BY <1>1 DEF SellCall
<1>3. NoRequest \in SellCall /\ NoRequest.step = "idle"
  BY DocumentsAssumption DEF NoRequest, SellCall
<1>4. PICK call \in SellCall :
        /\ caCalls' = [caCalls EXCEPT ![s] = call]
        /\ \/ call = NoRequest
           \/ call = on("insert") /\ ~Taken(call.title)
           \/ call = on("write") /\ caCalls[s].step = "read"
  <2>1. \A step : [caCalls EXCEPT ![s].step = step] = [caCalls EXCEPT ![s] = on(step)]
    BY CatalogueFacts
  <2> QED
    BY <1>2, <1>3, <2>1 DEF FindByTitleAndManagerId, FindSellById, Finish, Proceed
<1>5. /\ UNCHANGED <<caSell, caWrites, caEvents, caBroker, caRaced, caLost>>
  BY DEF FindByTitleAndManagerId, FindSellById
<1>6. caRaced' \in BOOLEAN /\ (caRaced => caRaced') /\ (~caRaced' => \A t \in Sellers : t # s => caCalls[t] = NoRequest)
  BY <1>1, <1>5, OthersRest, CatalogueFacts
<1>7. /\ call.step # "send" /\ (call.step = "idle" => call = NoRequest)
      /\ (call.step # "idle" => call.title \in SaleTitles)
      /\ (call.step \in {"read", "write"} => call.id \in Documents)
      /\ (call.step = "insert" => ~Taken(call.title))
  BY <1>1, <1>2, <1>3, <1>4
<1> QED
  BY <1>1, <1>4, <1>5, <1>6, <1>7, CallMoves

(* The request of a call that has just written document d. *)
LEMMA SavedRequest ==
  ASSUME NEW c \in SellCall, NEW d \in Documents
  PROVE  /\ [c EXCEPT !.step = "send", !.id = d] \in SellCall
         /\ [c EXCEPT !.step = "send", !.id = d].step = "send"
         /\ [c EXCEPT !.step = "send", !.id = d].id = d
         /\ [c EXCEPT !.step = "send", !.id = d].title = c.title
<1> DEFINE sending == [c EXCEPT !.step = "send"]
<1>1. sending \in SellCall /\ sending.step = "send" /\ sending.title = c.title
  BY DEF SellCall
<1>2. [c EXCEPT !.step = "send", !.id = d] = [sending EXCEPT !.id = d]
  OBVIOUS
<1> HIDE DEF sending
<1>3. /\ [sending EXCEPT !.id = d] \in SellCall /\ [sending EXCEPT !.id = d].id = d
      /\ [sending EXCEPT !.id = d].step = sending.step /\ [sending EXCEPT !.id = d].title = sending.title
  BY <1>1, DocumentsAssumption DEF SellCall, Documents
<1> QED
  BY <1>1, <1>2, <1>3, Zenon

(* A document is written: its call is now sending, nothing is said yet. *)
LEMMA SaveKeeps ==
  ASSUME CatalogueInv, NEW s \in Sellers, NEW d \in Documents, SaveSell(s, d),
         caCalls[s].step \in {"insert", "write"},
         caRaced' \in BOOLEAN, caRaced => caRaced',
         ~caRaced' => \A c \in Inserted : c # d => caSell[c] # caCalls[s].title
  PROVE  CatalogueInv'
<1> DEFINE title == caCalls[s].title
           call == [caCalls[s] EXCEPT !.step = "send", !.id = d]
<1>1. /\ caCalls[s] \in SellCall /\ title \in SaleTitles /\ title # NoDocument
  BY CatalogueFacts, TitlesAssumption DEF CallsAreMeant
<1>2. call \in SellCall /\ call.step = "send" /\ call.id = d /\ call.title = title
  BY <1>1, SavedRequest
<1>3. /\ caCalls' = [caCalls EXCEPT ![s] = call]
      /\ caSell' = [caSell EXCEPT ![d] = title]
      /\ caWrites < MaxWrites /\ caWrites' = caWrites + 1
      /\ UNCHANGED <<caEvents, caPosition, caCommitted, caIndex, caLost>>
  BY CatalogueFacts DEF SaveSell, caBroker
<1> HIDE DEF call, title
<1>4. /\ caCalls' \in [Sellers -> SellCall] /\ caCalls'[s] = call
      /\ \A t \in Sellers : t # s => caCalls'[t] = caCalls[t]
  BY <1>2, <1>3, CatalogueFacts
<1>5. /\ caSell' \in [Documents -> SaleTitles \cup {NoDocument}] /\ caSell'[d] = title
      /\ \A c \in Documents : c # d => caSell'[c] = caSell[c]
  BY <1>1, <1>3, CatalogueFacts
<1>6. Inserted' = Inserted \cup {d}
  BY <1>1, <1>5 DEF Inserted
<1>7. Sending' = Sending \cup {s} /\ s \notin Sending
  BY <1>2, <1>4 DEF Sending
<1>8. CatalogueTypeOK'
  <2>1. caWrites' \in 0..MaxWrites
    BY <1>3, CatalogueFacts, DocumentsAssumption
  <2> QED
    BY <1>3, <1>4, <1>5, <2>1, CatalogueFacts DEF CatalogueTypeOK, SellCall, ProductEvent
<1>9. CallsAreMeant'
  <2>1. caCalls'[s].step = "send" /\ caCalls'[s].title \in SaleTitles /\ caCalls'[s].id \in Inserted'
    BY <1>1, <1>2, <1>4, <1>6
  <2> QED
    BY <1>4, <1>6, <2>1, CatalogueFacts DEF CallsAreMeant
<1>10. WrittenOnce'
  <2>1. IsFiniteSet(Sending) /\ Cardinality(Sending) \in Nat /\ Len(caEvents) + Cardinality(Sending) <= caWrites
    BY CatalogueFacts, FS_CardinalityType DEF WrittenOnce
  <2>2. IsFiniteSet(Sending') /\ Cardinality(Sending') = Cardinality(Sending) + 1
    BY <1>7, <2>1, FS_AddElement
  <2>3. Len(caEvents) \in Nat /\ caWrites \in Nat
    BY CatalogueFacts
  <2> QED
    BY <1>3, <2>1, <2>2, <2>3 DEF WrittenOnce
<1>11. OneCall'
  <2> SUFFICES ASSUME ~caRaced'
               PROVE  /\ \A t, u \in Sellers : caCalls'[t] # NoRequest /\ caCalls'[u] # NoRequest => t = u
                      /\ \A t \in Sellers :
                           /\ caCalls'[t].step # "insert"
                           /\ caCalls'[t].step = "send" => caSell'[caCalls'[t].id] = caCalls'[t].title
                      /\ \A c, e \in Inserted' : caSell'[c] = caSell'[e] => c = e
    BY DEF OneCall, Taken
  <2>1. ~caRaced /\ \A t \in Sellers : t # s => caCalls'[t] = NoRequest
    BY <1>4, OthersRest
  <2>2. NoRequest.step = "idle"
    BY DEF NoRequest
  <2>3. ASSUME NEW c \in Inserted', NEW e \in Inserted', caSell'[c] = caSell'[e] PROVE c = e
    <3>1. \A f \in Inserted' : f \in Documents /\ (f # d => f \in Inserted)
      BY <1>6 DEF Inserted
    <3>2. \A f \in Inserted' : f # d => caSell'[f] = caSell[f] /\ caSell[f] # title
      BY <1>5, <3>1 DEF title
    <3>3. CASE c # d /\ e # d
      BY <2>1, <2>3, <3>1, <3>2, <3>3, CatalogueFacts DEF OneCall
    <3>4. CASE c = d \/ e = d
      BY <1>5, <2>3, <3>2, <3>4
    <3> QED
      BY <3>3, <3>4
  <2> QED
    BY <1>2, <1>4, <1>5, <2>1, <2>2, <2>3
<1>12. OnlyInserted'
  BY <1>3, <1>6, CatalogueFacts DEF OnlyInserted
<1>13. EventsFollow'
  <2> SUFFICES ASSUME ~caRaced', ~caLost', NEW e \in Documents, \A t \in Sending' : caCalls'[t].id # e
               PROVE  LastSaid(caEvents', e, caSell'[e])
    BY DEF EventsFollow
  <2>1. e # d
    BY <1>2, <1>4, <1>7
  <2>2. \A t \in Sending : caCalls[t].id # e
    BY <1>4, <1>7 DEF Sending
  <2>3. LastSaid(caEvents, e, caSell[e])
    BY <1>3, <2>2, CatalogueFacts DEF EventsFollow
  <2> QED
    BY <1>3, <1>5, <2>1, <2>3
<1>14. IndexFollows'
  BY <1>3, CatalogueFacts DEF IndexFollows
<1> QED
  BY <1>8, <1>9, <1>10, <1>11, <1>12, <1>13, <1>14 DEF CatalogueInv

LEMMA WriteKeeps ==
  ASSUME CatalogueInv, NEW s \in Sellers, InsertSell(s) \/ UpdateSell(s)
  PROVE  CatalogueInv'
<1>1. CASE InsertSell(s)
  <2> DEFINE d == Cardinality(Inserted) + 1
  <2>1. SaveSell(s, d) /\ caCalls[s].step = "insert" /\ UNCHANGED caRaced /\ Cardinality(Inserted) < MaxDocuments
    BY <1>1 DEF InsertSell
  <2>2. Cardinality(Inserted) \in Nat
    <3>1. IsFiniteSet(1..MaxDocuments)
      <4>1. 1 \in Int /\ MaxDocuments \in Int
        BY DocumentsAssumption
      <4> QED
        BY <4>1, FS_Interval
    <3>2. Inserted \in SUBSET (1..MaxDocuments)
      BY DEF Inserted, Documents
    <3> QED
      BY <3>1, <3>2, FS_Subset, FS_CardinalityType
  <2>3. d \in Documents
    BY <2>1, <2>2, DocumentsAssumption DEF Documents
  <2>4. ~caRaced' => \A c \in Inserted : c # d => caSell[c] # caCalls[s].title
    BY <2>1, CatalogueFacts DEF OneCall, Taken
  <2>5. caRaced' \in BOOLEAN /\ (caRaced => caRaced')
    BY <2>1, CatalogueFacts
  <2> HIDE DEF d
  <2> QED
    BY <2>1, <2>3, <2>4, <2>5, SaveKeeps
<1>2. CASE UpdateSell(s)
  <2>1. /\ SaveSell(s, caCalls[s].id) /\ caCalls[s].step = "write"
        /\ caRaced' = (caRaced \/ \E d \in Inserted : d # caCalls[s].id /\ caSell[d] = caCalls[s].title)
    BY <1>2 DEF UpdateSell
  <2>2. caCalls[s].id \in Documents
    BY <2>1, CatalogueFacts DEF CallsAreMeant
  <2>3. /\ caRaced' \in BOOLEAN /\ (caRaced => caRaced')
        /\ ~caRaced' => \A c \in Inserted : c # caCalls[s].id => caSell[c] # caCalls[s].title
    BY <2>1
  <2> QED
    BY <2>1, <2>2, <2>3, SaveKeeps
<1> QED
  BY <1>1, <1>2

(* A call that was sending ends: nothing else about the calls changes. *)
LEMMA SenderEnds ==
  ASSUME CatalogueInv, NEW s \in Sellers, caCalls[s].step = "send", Finish(s),
         UNCHANGED <<caSell, caWrites, caPosition, caCommitted, caIndex, caRaced>>
  PROVE  /\ caCalls' \in [Sellers -> SellCall] /\ CallsAreMeant' /\ OneCall'
         /\ Sending' = Sending \ {s} /\ Inserted' = Inserted
         /\ IsFiniteSet(Sending') /\ Len(caEvents) + Cardinality(Sending') + 1 <= caWrites
         /\ \A t \in Sending' : caCalls'[t] = caCalls[t]
<1>1. caCalls' = [caCalls EXCEPT ![s] = NoRequest] /\ NoRequest \in SellCall /\ NoRequest.step = "idle"
  BY DocumentsAssumption DEF Finish, NoRequest, SellCall
<1>2. /\ caCalls' \in [Sellers -> SellCall] /\ caCalls'[s] = NoRequest
      /\ \A t \in Sellers : t # s => caCalls'[t] = caCalls[t]
  BY <1>1, CatalogueFacts
<1>3. Inserted' = Inserted /\ \A title : Taken(title)' = Taken(title)
  BY DEF Inserted, Taken
<1>4. Sending' = Sending \ {s} /\ s \in Sending
  BY <1>1, <1>2 DEF Sending
<1>5. CallsAreMeant'
  BY <1>1, <1>2, <1>3, CatalogueFacts DEF CallsAreMeant
<1>6. OneCall'
  BY <1>1, <1>2, <1>3, CatalogueFacts DEF OneCall, Taken
<1>7. IsFiniteSet(Sending') /\ Len(caEvents) + Cardinality(Sending') + 1 <= caWrites
  <2>1. IsFiniteSet(Sending) /\ Cardinality(Sending) \in Nat /\ Len(caEvents) + Cardinality(Sending) <= caWrites
    BY CatalogueFacts, FS_CardinalityType DEF WrittenOnce
  <2>2. IsFiniteSet(Sending') /\ Cardinality(Sending') = Cardinality(Sending) - 1
    BY <1>4, <2>1, FS_RemoveElement
  <2>3. Len(caEvents) \in Nat /\ caWrites \in Nat
    BY CatalogueFacts
  <2> QED
    BY <2>1, <2>2, <2>3
<1>8. \A t \in Sending' : caCalls'[t] = caCalls[t]
  BY <1>2, <1>4 DEF Sending
<1> QED
  BY <1>2, <1>3, <1>4, <1>5, <1>6, <1>7, <1>8

LEMMA SendKeeps ==
  ASSUME CatalogueInv, NEW s \in Sellers, SendProductEvent(s)
  PROVE  CatalogueInv'
<1> DEFINE event == [id |-> caCalls[s].id, title |-> caCalls[s].title]
           last == Len(caEvents) + 1
<1>1. /\ caCalls[s].step = "send" /\ Finish(s) /\ caEvents' = Append(caEvents, event)
      /\ UNCHANGED <<caSell, caWrites, caPosition, caCommitted, caIndex, caRaced, caLost>>
  BY DEF SendProductEvent, caBroker
<1>2. /\ caCalls' \in [Sellers -> SellCall] /\ CallsAreMeant' /\ OneCall'
      /\ Sending' = Sending \ {s} /\ Inserted' = Inserted
      /\ IsFiniteSet(Sending') /\ Len(caEvents) + Cardinality(Sending') + 1 <= caWrites
      /\ \A t \in Sending' : caCalls'[t] = caCalls[t]
  BY <1>1, SenderEnds
<1>3. event.id \in Inserted /\ event.id \in Documents /\ event.title \in SaleTitles /\ event \in ProductEvent
  BY <1>1, CatalogueFacts DEF CallsAreMeant, Inserted, ProductEvent
<1> HIDE DEF event
<1>4. /\ caEvents' \in Seq(ProductEvent) /\ Len(caEvents') = last /\ caEvents'[last] = event
      /\ \A i \in 1..Len(caEvents) : caEvents'[i] = caEvents[i]
  BY <1>1, <1>3, CatalogueFacts
<1>5. Len(caEvents) \in Nat /\ caWrites \in Nat /\ caWrites <= MaxWrites /\ caPosition \in 0..Len(caEvents)
      /\ Cardinality(Sending') \in Nat /\ MaxWrites \in Nat
  BY <1>2, CatalogueFacts, DocumentsAssumption, FS_CardinalityType
<1>6. 1..last = (1..Len(caEvents)) \cup {last} /\ last \in Nat /\ last > caPosition
      /\ \A i \in 1..Len(caEvents) : i # last /\ i < last
  BY <1>5
<1>7. CatalogueTypeOK'
  <2>1. Len(caEvents') <= MaxWrites /\ caPosition' \in 0..Len(caEvents')
    BY <1>1, <1>2, <1>4, <1>5
  <2> HIDE DEF last
  <2> QED
    BY <1>1, <1>2, <1>4, <2>1, CatalogueFacts DEF CatalogueTypeOK, SellCall, ProductEvent
<1>8. WrittenOnce'
  BY <1>1, <1>2, <1>4, <1>5 DEF WrittenOnce
<1> HIDE DEF last
<1>9. OnlyInserted'
  BY <1>1, <1>2, <1>3, <1>4, <1>6, CatalogueFacts DEF OnlyInserted
<1>10. ASSUME NEW d, NEW title, d # event.id, LastSaid(caEvents, d, title) PROVE LastSaid(caEvents', d, title)
  <2>1. CASE title = NoDocument /\ \A i \in 1..Len(caEvents) : caEvents[i].id # d
    BY <1>4, <1>6, <1>10, <2>1 DEF LastSaid
  <2>2. ASSUME NEW i \in 1..Len(caEvents), caEvents[i].id = d /\ caEvents[i].title = title,
               \A j \in 1..Len(caEvents) : j > i => caEvents[j].id # d
        PROVE  LastSaid(caEvents', d, title)
    <3>1. i \in 1..Len(caEvents') /\ caEvents'[i].id = d /\ caEvents'[i].title = title
      BY <1>4, <1>6, <2>2
    <3>2. \A j \in 1..Len(caEvents') : j > i => caEvents'[j].id # d
      BY <1>4, <1>6, <1>10, <2>2
    <3> QED
      BY <3>1, <3>2 DEF LastSaid
  <2> QED
    BY <1>10, <2>1, <2>2 DEF LastSaid
<1>11. LastSaid(caEvents', event.id, event.title)
  <2>1. last \in 1..Len(caEvents') /\ \A j \in 1..Len(caEvents') : ~(j > last)
    BY <1>4, <1>6
  <2> QED
    BY <1>4, <2>1 DEF LastSaid
<1>12. EventsFollow'
  <2> SUFFICES ASSUME ~caRaced', ~caLost', NEW d \in Documents, \A t \in Sending' : caCalls'[t].id # d
               PROVE  LastSaid(caEvents', d, caSell[d])
    BY <1>1 DEF EventsFollow
  <2>1. CASE d = event.id
    <3>1. caSell[d] = event.title
      BY <1>1, <2>1, CatalogueFacts DEF OneCall, event
    <3> QED
      BY <1>11, <2>1, <3>1
  <2>2. CASE d # event.id
    <3>1. \A t \in Sending : caCalls[t].id # d
      BY <1>2, <2>2 DEF event
    <3>2. LastSaid(caEvents, d, caSell[d])
      BY <1>1, <3>1, CatalogueFacts DEF EventsFollow
    <3> QED
      BY <1>10, <2>2, <3>2
  <2> QED
    BY <2>1, <2>2
<1>13. IndexFollows'
  <2> SUFFICES ASSUME ~caLost', NEW d \in Documents,
                      \A i \in 1..Len(caEvents') : i > caPosition => caEvents'[i].id # d
               PROVE  LastSaid(caEvents', d, caIndex[d])
    BY <1>1 DEF IndexFollows
  <2>1. d # event.id
    BY <1>4, <1>6
  <2>2. \A i \in 1..Len(caEvents) : i > caPosition => caEvents[i].id # d
    BY <1>4, <1>6
  <2>3. LastSaid(caEvents, d, caIndex[d])
    BY <1>1, <2>2, CatalogueFacts DEF IndexFollows
  <2> QED
    BY <1>10, <2>1, <2>3
<1> QED
  BY <1>2, <1>7, <1>8, <1>9, <1>12, <1>13 DEF CatalogueInv

LEMMA LostKeeps ==
  ASSUME CatalogueInv, NEW s \in Sellers, EventLost(s)
  PROVE  CatalogueInv'
<1>1. /\ caCalls[s].step = "send" /\ Finish(s) /\ caLost'
      /\ UNCHANGED <<caSell, caWrites, caEvents, caPosition, caCommitted, caIndex, caRaced>>
  BY DEF EventLost, caBroker
<1>2. /\ caCalls' \in [Sellers -> SellCall] /\ CallsAreMeant' /\ OneCall'
      /\ Sending' = Sending \ {s} /\ Inserted' = Inserted
      /\ IsFiniteSet(Sending') /\ Len(caEvents) + Cardinality(Sending') + 1 <= caWrites
  BY <1>1, SenderEnds
<1>3. CatalogueTypeOK'
  <2>1. caLost' \in BOOLEAN
    BY DEF EventLost
  <2> QED
    BY <1>1, <1>2, <2>1, CatalogueFacts DEF CatalogueTypeOK, SellCall, ProductEvent
<1>4. WrittenOnce'
  BY <1>1, <1>2, CatalogueFacts, FS_CardinalityType DEF WrittenOnce
<1>5. OnlyInserted' /\ EventsFollow' /\ IndexFollows'
  BY <1>1, <1>2, CatalogueFacts DEF OnlyInserted, EventsFollow, IndexFollows
<1> QED
  BY <1>2, <1>3, <1>4, <1>5 DEF CatalogueInv

(* The consumer goes on, or back: calls and documents are as they were. *)
LEMMA ConsumerKeeps ==
  ASSUME CatalogueInv, IndexProduct \/ CommitIndexed
  PROVE  CatalogueInv'
<1>1. UNCHANGED <<caSell, caCalls, caWrites, caEvents, caRaced>>
  BY DEF IndexProduct, CommitIndexed
<1>2. Inserted' = Inserted /\ Sending' = Sending /\ \A title : Taken(title)' = Taken(title)
  BY <1>1 DEF Inserted, Sending, Taken
<1>3. CallsAreMeant' /\ WrittenOnce' /\ OneCall'
  BY <1>1, <1>2, CatalogueFacts DEF CallsAreMeant, WrittenOnce, OneCall, Taken
<1>4. caLost => caLost'
  BY DEF IndexProduct, CommitIndexed
<1>5. EventsFollow'
  <2>1. ASSUME ~caRaced', ~caLost', NEW d \in Documents, \A s \in Sending' : caCalls'[s].id # d
        PROVE  LastSaid(caEvents, d, caSell[d])
    BY <1>1, <1>2, <1>4, <2>1, CatalogueFacts DEF EventsFollow
  <2> QED
    BY <1>1, <2>1 DEF EventsFollow
<1>6. CASE IndexProduct
  <2> DEFINE next == caPosition + 1
             event == caEvents[next]
  <2>1. /\ caPosition < Len(caEvents) /\ caPosition' = next /\ UNCHANGED caCommitted
        /\ \/ caIndex' = [caIndex EXCEPT ![event.id] = event.title] /\ UNCHANGED caLost
           \/ UNCHANGED caIndex /\ caLost'
    BY <1>6 DEF IndexProduct
  <2>2. next \in 1..Len(caEvents) /\ Len(caEvents) \in Nat /\ caPosition \in Nat /\ next \in 0..Len(caEvents)
        /\ caCommitted \in 0..next
    BY <2>1, CatalogueFacts
  <2>3. event \in ProductEvent /\ event.id \in Documents /\ event.title \in SaleTitles /\ event.id \in Inserted
    <3>1. \A i \in 1..Len(caEvents) : caEvents[i] \in ProductEvent /\ caEvents[i].id \in Inserted
      BY CatalogueFacts DEF OnlyInserted
    <3>2. \A e \in ProductEvent : e.id \in Documents /\ e.title \in SaleTitles
      BY DEF ProductEvent
    <3> QED
      BY <2>2, <3>1, <3>2
  <2>4. caLost' \in BOOLEAN
    BY <1>6, CatalogueFacts DEF IndexProduct
  <2>5. caIndex' \in [Documents -> SaleTitles \cup {NoDocument}]
    BY <2>1, <2>3, CatalogueFacts
  <2>6. CatalogueTypeOK'
    <3> HIDE DEF event
    <3> QED
      BY <1>1, <2>1, <2>2, <2>4, <2>5, CatalogueFacts DEF CatalogueTypeOK, SellCall, ProductEvent
  <2>7. OnlyInserted'
    <3>1. \A d \in Documents : caIndex'[d] # NoDocument => d \in Inserted
      BY <2>1, <2>3, CatalogueFacts DEF OnlyInserted
    <3> QED
      BY <1>1, <1>2, <3>1, CatalogueFacts DEF OnlyInserted
  <2>8. IndexFollows'
    <3> SUFFICES ASSUME ~caLost', NEW d \in Documents, \A i \in 1..Len(caEvents) : i > next => caEvents[i].id # d
                 PROVE  LastSaid(caEvents, d, caIndex'[d])
      BY <1>1, <2>1 DEF IndexFollows
    <3>1. caIndex' = [caIndex EXCEPT ![event.id] = event.title] /\ ~caLost
      BY <1>4, <2>1
    <3>2. CASE d = event.id
      <4>1. caIndex'[d] = event.title
        BY <2>3, <3>1, <3>2, CatalogueFacts
      <4> QED
        BY <2>2, <3>2, <4>1 DEF LastSaid
    <3>3. CASE d # event.id
      <4>1. caIndex'[d] = caIndex[d]
        BY <3>1, <3>3, CatalogueFacts
      <4>2. \A i \in 1..Len(caEvents) : i > caPosition => i = next \/ i > next
        BY <2>2
      <4>3. \A i \in 1..Len(caEvents) : i > caPosition => caEvents[i].id # d
        BY <3>3, <4>2
      <4> QED
        BY <3>1, <4>1, <4>3, CatalogueFacts DEF IndexFollows
    <3> QED
      BY <3>2, <3>3
  <2> QED
    BY <1>3, <1>5, <2>6, <2>7, <2>8 DEF CatalogueInv
<1>7. CASE CommitIndexed
  <2>1. UNCHANGED <<caIndex, caLost>> /\ caPosition' \in {caPosition, caCommitted} /\ caCommitted' \in {caPosition, caCommitted}
        /\ (caPosition' = caCommitted => caCommitted' = caCommitted)
    BY <1>7 DEF CommitIndexed
  <2>2. /\ caPosition' \in 0..Len(caEvents) /\ caCommitted' \in 0..caPosition' /\ caPosition' <= caPosition
        /\ caPosition' \in Nat /\ caPosition \in Nat
    BY <1>7, CatalogueFacts DEF CommitIndexed
  <2>3. CatalogueTypeOK'
    BY <1>1, <2>1, <2>2, CatalogueFacts DEF CatalogueTypeOK, SellCall, ProductEvent
  <2>4. OnlyInserted'
    BY <1>1, <1>2, <2>1, CatalogueFacts DEF OnlyInserted
  <2>5. IndexFollows'
    <3> SUFFICES ASSUME ~caLost, NEW d \in Documents, \A i \in 1..Len(caEvents) : i > caPosition' => caEvents[i].id # d
                 PROVE  LastSaid(caEvents, d, caIndex[d])
      BY <1>1, <2>1 DEF IndexFollows
    <3>1. \A i \in 1..Len(caEvents) : i > caPosition => i > caPosition'
      BY <2>2
    <3> QED
      BY <3>1, CatalogueFacts DEF IndexFollows
  <2> QED
    BY <1>3, <1>5, <2>3, <2>4, <2>5 DEF CatalogueInv
<1> QED
  BY <1>6, <1>7

LEMMA CatalogueStep ==
  ASSUME CatalogueInv, [CatalogueNext]_caVars
  PROVE  CatalogueInv'
<1>1. CASE UNCHANGED caVars
  BY <1>1 DEF caVars, CatalogueInv, CatalogueTypeOK, CallsAreMeant, WrittenOnce, Sending, OneCall, Taken, Inserted,
     OnlyInserted, EventsFollow, IndexFollows, LastSaid
<1>2. CASE CatalogueNext
  BY <1>2, RequestKeeps, FindKeeps, WriteKeeps, SendKeeps, LostKeeps, ConsumerKeeps DEF CatalogueNext
<1> QED
  BY <1>1, <1>2

(* Where the events follow the documents and the index the events, the     *)
(* index has what the documents are.                                       *)
LEMMA LastSaidOnce ==
  ASSUME NEW d, NEW t, NEW u, LastSaid(caEvents, d, t), LastSaid(caEvents, d, u), Len(caEvents) \in Nat
  PROVE  t = u
<1>1. ASSUME NEW i \in 1..Len(caEvents), NEW j \in 1..Len(caEvents), caEvents[i].id = d, caEvents[j].id = d,
             \A k \in 1..Len(caEvents) : k > i => caEvents[k].id # d,
             \A k \in 1..Len(caEvents) : k > j => caEvents[k].id # d
      PROVE  i = j
  <2>1. ~(i > j) /\ ~(j > i)
    BY <1>1
  <2> QED
    BY <2>1
<1> QED
  BY <1>1 DEF LastSaid

LEMMA CatalogueInvEnough == CatalogueInv => CatalogueTypeOK /\ CatalogueAgrees
<1> SUFFICES ASSUME CatalogueInv PROVE CatalogueAgrees
  BY DEF CatalogueInv
<1>1. ~caRaced => \A c, d \in Inserted : caSell[c] = caSell[d] => c = d
  BY CatalogueFacts DEF OneCall
<1>2. ASSUME ~caRaced, ~caLost, caPosition = Len(caEvents), NEW d \in Documents, caIndex[d] # caSell[d]
      PROVE  \E s \in Sellers : caCalls[s].step = "send" /\ caCalls[s].id = d
  <2> SUFFICES ASSUME \A s \in Sending : caCalls[s].id # d PROVE FALSE
    BY DEF Sending
  <2>1. LastSaid(caEvents, d, caSell[d])
    BY <1>2, CatalogueFacts DEF EventsFollow
  <2>2. \A i \in 1..Len(caEvents) : ~(i > caPosition)
    BY <1>2, CatalogueFacts
  <2>3. LastSaid(caEvents, d, caIndex[d])
    BY <1>2, <2>2, CatalogueFacts DEF IndexFollows
  <2> QED
    BY <1>2, <2>1, <2>3, LastSaidOnce, CatalogueFacts
<1> QED
  BY <1>1, <1>2, CatalogueFacts DEF CatalogueAgrees, OnlyInserted

(* Documents, events and index follow one another at every step of the     *)
(* sellers' calls and of the consumer: the strengthening of                *)
(* IndexShowsDocuments.                                                    *)
THEOREM CatalogueInductive == CatalogueSpec => []CatalogueInv
<1>1. CatalogueInit => CatalogueInv
  BY CatalogueInitInv
<1>2. CatalogueInv /\ [CatalogueNext]_caVars => CatalogueInv'
  BY CatalogueStep
<1> QED
  BY <1>1, <1>2, PTL DEF CatalogueSpec

(* One seller's titles stay apart and the index shows the documents, as     *)
(* soon as all events are handled, unless calls race or an event is lost:   *)
(* however often the consumer dies and handles events again.                *)
THEOREM IndexShowsDocuments == CatalogueSpec => [](CatalogueTypeOK /\ CatalogueAgrees)
  BY CatalogueInductive, CatalogueInvEnough, PTL

-----------------------------------------------------------------------------
(* member-service and the pages of the client                              *)

Stored == Fillings \cup {NoMember}
JoinCall == [step : {"idle", "validate", "save", "welcome"}, pid : Pids \cup {NoMember}, pwd : Fillings]
MemberPage == [name : {"other", "login", "join", "privacy"}, pid : Pids \cup {NoMember}, pwd : Fillings,
               confirmed : BOOLEAN]

(* Every welcome was for a call that has ended, and there are no more calls *)
(* than were started.                                                       *)
JoiningAs(p) == {j \in Joiners : mbJoins[j].pid = p}
JoinsCounted ==
  \A p \in Pids : IsFiniteSet(JoiningAs(p)) /\ mbEarned[p] + Cardinality(JoiningAs(p)) <= mbStarted

JoinsAreMeant ==
  \A j \in Joiners :
    /\ mbJoins[j].step = "idle" => mbJoins[j] = NoJoin
    /\ mbJoins[j].step # "idle" => mbJoins[j].pid \in Pids
    /\ mbJoins[j].step = "welcome" => mbJoins[j].pid \in Joined

(* Without a race there is one call of join, and until it ends nobody was  *)
(* welcomed as its member.                                                 *)
OneJoin ==
  ~mbRaced =>
    /\ \A j, k \in Joiners : mbJoins[j] # NoJoin /\ mbJoins[k] # NoJoin => j = k
    /\ \A j \in Joiners : mbJoins[j].step \in {"save", "welcome"} => mbEarned[mbJoins[j].pid] = 0
    /\ \A p \in Pids : mbEarned[p] <= 1

JoinsInv ==
  /\ mbMembers \in [Pids -> Stored]
  /\ mbJoins \in [Joiners -> JoinCall]
  /\ mbStarted \in 0..MaxJoins /\ mbEarned \in [Pids -> Nat] /\ mbRaced \in BOOLEAN
  /\ JoinsCounted /\ JoinsAreMeant /\ OneJoin
  /\ \A p \in Pids : mbEarned[p] > 0 => p \in Joined

TabInv ==
  /\ mbUser \in Pids \cup {NoMember} /\ mbLogins \subseteq Pids
  /\ mbPage \in MemberPage
  /\ mbPatch \in [pid : Pids \cup {NoMember}, pwd : Fillings]
  /\ mbUser # NoMember => mbUser \in Joined
  /\ mbPage.confirmed => mbPage.pid = mbUser

MembersInv == JoinsInv /\ TabInv

LEMMA MembersConstants == NoMember \notin Pids /\ NoMember \notin Fillings /\ Blanked \in Fillings /\ MaxJoins \in Nat
  BY MembersAssumption DEF Fillings

LEMMA RestingRecords ==
  /\ NoJoin \in JoinCall /\ NoJoin.step = "idle" /\ NoJoin.pid = NoMember
  /\ NoMemberPage \in MemberPage /\ ~NoMemberPage.confirmed
  /\ NoPatch \in [pid : Pids \cup {NoMember}, pwd : Fillings]
  BY MembersConstants DEF NoJoin, NoMemberPage, NoPatch, JoinCall, MemberPage

LEMMA MembersInitInv == ASSUME MembersInit PROVE MembersInv
<1> USE DEF MembersInit
<1>1. mbJoins \in [Joiners -> JoinCall] /\ \A j \in Joiners : mbJoins[j] = NoJoin
  BY RestingRecords
<1>2. JoinsCounted
  <2> SUFFICES ASSUME NEW p \in Pids
               PROVE  IsFiniteSet(JoiningAs(p)) /\ mbEarned[p] + Cardinality(JoiningAs(p)) <= mbStarted
    BY DEF JoinsCounted
  <2>1. JoiningAs(p) = {}
    BY <1>1, RestingRecords, MembersConstants DEF JoiningAs
  <2>2. mbEarned[p] = 0 /\ mbStarted = 0
    OBVIOUS
  <2>3. IsFiniteSet(JoiningAs(p)) /\ Cardinality(JoiningAs(p)) = 0
    BY <2>1, FS_EmptySet, Zenon
  <2>4. \A n : n = 0 => mbEarned[p] + n <= mbStarted
    BY <2>2
  <2> QED
    BY <2>3, <2>4, Zenon
<1>3. JoinsAreMeant /\ OneJoin
  BY <1>1, RestingRecords DEF JoinsAreMeant, OneJoin
<1>4. JoinsInv
  <2>1. mbMembers \in [Pids -> Stored]
    BY DEF Stored
  <2>2. mbStarted \in 0..MaxJoins /\ mbRaced \in BOOLEAN
    <3>1. 0 \in 0..MaxJoins
      BY MembersConstants
    <3> QED
      BY <3>1
  <2>3. mbEarned \in [Pids -> Nat] /\ \A p \in Pids : ~(mbEarned[p] > 0)
    OBVIOUS
  <2> QED
    BY <1>1, <1>2, <1>3, <2>1, <2>2, <2>3 DEF JoinsInv
<1>5. TabInv
  BY RestingRecords DEF TabInv
<1> QED
  BY <1>4, <1>5 DEF MembersInv

LEMMA TabRests ==
  ASSUME TabInv, UNCHANGED mbTab, Joined \subseteq Joined'
  PROVE  TabInv'
  BY DEF TabInv, mbTab

LEMMA TabAnswered ==
  ASSUME TabInv, SentAnswered, UNCHANGED <<mbUser, mbLogins>>, mbPatch' \in {mbPatch, NoPatch}, Joined \subseteq Joined'
  PROVE  TabInv'
  BY RestingRecords DEF TabInv, SentAnswered

LEMMA JoinsRest ==
  ASSUME JoinsInv, UNCHANGED mbService
  PROVE  JoinsInv' /\ Joined' = Joined
<1>1. UNCHANGED <<mbMembers, mbJoins, mbStarted, mbEarned, mbRaced>>
  BY DEF mbService
<1>2. Joined' = Joined /\ \A p : JoiningAs(p)' = JoiningAs(p)
  BY <1>1 DEF Joined, JoiningAs
<1>3. JoinsCounted' /\ JoinsAreMeant' /\ OneJoin'
  BY <1>1, <1>2 DEF JoinsInv, JoinsCounted, JoinsAreMeant, OneJoin
<1> QED
  BY <1>1, <1>2, <1>3 DEF JoinsInv

(* A call of join ends, with points for its member or without. *)
LEMMA JoinEndsKeeps ==
  ASSUME JoinsInv, NEW j \in Joiners, mbJoins[j] # NoJoin, JoinEnds(j),
         UNCHANGED <<mbMembers, mbStarted, mbRaced>>,
         NEW earned \in {0, 1}, earned = 1 => mbJoins[j].step = "welcome",
         mbEarned' \in [Pids -> Nat], mbEarned'[mbJoins[j].pid] = mbEarned[mbJoins[j].pid] + earned,
         \A p \in Pids : p # mbJoins[j].pid => mbEarned'[p] = mbEarned[p]
  PROVE  JoinsInv' /\ Joined' = Joined
<1> DEFINE pid == mbJoins[j].pid
<1>1. mbJoins[j] \in JoinCall /\ pid \in Pids /\ mbEarned \in [Pids -> Nat]
  BY RestingRecords DEF JoinsInv, JoinsAreMeant, JoinCall
<1>2. mbJoins' \in [Joiners -> JoinCall] /\ mbJoins'[j] = NoJoin /\ \A k \in Joiners : k # j => mbJoins'[k] = mbJoins[k]
  BY RestingRecords DEF JoinsInv, JoinEnds
<1>3. mbEarned' \in [Pids -> Nat] /\ mbEarned'[pid] = mbEarned[pid] + earned /\ \A p \in Pids : p # pid => mbEarned'[p] = mbEarned[p]
  OBVIOUS
<1>4. Joined' = Joined
  BY DEF Joined
<1> HIDE DEF pid
<1>5. JoinsCounted'
  <2> SUFFICES ASSUME NEW p \in Pids
               PROVE  IsFiniteSet(JoiningAs(p)') /\ mbEarned'[p] + Cardinality(JoiningAs(p)') <= mbStarted'
    BY DEF JoinsCounted, JoiningAs
  <2>1. IsFiniteSet(JoiningAs(p)) /\ mbEarned[p] + Cardinality(JoiningAs(p)) <= mbStarted /\ Cardinality(JoiningAs(p)) \in Nat
    BY FS_CardinalityType DEF JoinsInv, JoinsCounted
  <2>2. mbStarted \in Nat /\ mbEarned[p] \in Nat
    BY <1>1 DEF JoinsInv
  <2>3. CASE p = pid
    <3>1. JoiningAs(p)' = JoiningAs(p) \ {j} /\ j \in JoiningAs(p)
      BY <1>1, <1>2, <2>3, RestingRecords, MembersConstants DEF JoiningAs, pid
    <3>2. IsFiniteSet(JoiningAs(p)') /\ Cardinality(JoiningAs(p)') = Cardinality(JoiningAs(p)) - 1
      BY <2>1, <3>1, FS_RemoveElement
    <3> QED
      BY <1>3, <2>1, <2>2, <2>3, <3>2
  <2>4. CASE p # pid
    <3>1. JoiningAs(p)' = JoiningAs(p)
      BY <1>1, <1>2, <2>4, RestingRecords, MembersConstants DEF JoiningAs, pid
    <3> QED
      BY <1>3, <2>1, <2>2, <2>4, <3>1
  <2> QED
    BY <2>3, <2>4
<1>6. JoinsAreMeant'
  BY <1>2, <1>4, RestingRecords DEF JoinsInv, JoinsAreMeant
<1>7. OneJoin'
  <2> SUFFICES ASSUME ~mbRaced'
               PROVE  /\ \A k, l \in Joiners : mbJoins'[k] # NoJoin /\ mbJoins'[l] # NoJoin => k = l
                      /\ \A k \in Joiners : mbJoins'[k].step \in {"save", "welcome"} => mbEarned'[mbJoins'[k].pid] = 0
                      /\ \A p \in Pids : mbEarned'[p] <= 1
    BY DEF OneJoin
  <2>1. OneJoin /\ ~mbRaced
    BY DEF JoinsInv
  <2>2. \A k \in Joiners : mbJoins'[k] = NoJoin
    BY <1>2, <2>1 DEF OneJoin
  <2>3. \A p \in Pids : mbEarned'[p] <= 1
    BY <1>1, <1>3, <2>1 DEF OneJoin, pid
  <2> QED
    BY <2>2, <2>3, RestingRecords
<1>8. \A p \in Pids : mbEarned'[p] > 0 => p \in Joined'
  <2>1. \A p \in Pids : mbEarned[p] > 0 => p \in Joined
    BY DEF JoinsInv
  <2>2. mbJoins[j].step = "welcome" => pid \in Joined
    BY DEF JoinsInv, JoinsAreMeant, pid
  <2> QED
    BY <1>1, <1>3, <1>4, <2>1, <2>2
<1> QED
  BY <1>2, <1>3, <1>4, <1>5, <1>6, <1>7, <1>8 DEF JoinsInv

(* A call of join goes on with its member, who may be saved by it. *)
LEMMA JoinGoesKeeps ==
  ASSUME JoinsInv, NEW j \in Joiners, NEW step \in {"save", "welcome"}, JoinGoes(j, step),
         mbJoins[j].step \in {"validate", "save"},
         UNCHANGED <<mbStarted, mbEarned, mbRaced>>,
         mbMembers' \in [Pids -> Stored], Joined \subseteq Joined',
         step = "welcome" => mbJoins[j].pid \in Joined' /\ mbJoins[j].step = "save",
         step = "save" => mbJoins[j].pid \notin Joined
  PROVE  JoinsInv'
<1>1. mbJoins[j] \in JoinCall /\ mbJoins[j] # NoJoin /\ mbJoins[j].pid \in Pids /\ mbEarned \in [Pids -> Nat]
  BY RestingRecords DEF JoinsInv, JoinsAreMeant, JoinCall
<1>2. /\ mbJoins' \in [Joiners -> JoinCall]
      /\ mbJoins'[j].step = step /\ mbJoins'[j].pid = mbJoins[j].pid
      /\ \A k \in Joiners : k # j => mbJoins'[k] = mbJoins[k]
  <2>1. mbJoins' = [mbJoins EXCEPT ![j] = [mbJoins[j] EXCEPT !.step = step]]
    BY DEF JoinsInv, JoinGoes
  <2>2. /\ [mbJoins[j] EXCEPT !.step = step] \in JoinCall /\ [mbJoins[j] EXCEPT !.step = step].step = step
        /\ [mbJoins[j] EXCEPT !.step = step].pid = mbJoins[j].pid
    BY <1>1 DEF JoinCall
  <2> HIDE DEF JoinCall
  <2> QED
    BY <2>1, <2>2 DEF JoinsInv
<1>3. \A p : JoiningAs(p)' = JoiningAs(p)
  BY <1>2 DEF JoiningAs
<1>4. JoinsCounted'
  BY <1>3 DEF JoinsInv, JoinsCounted
<1>5. JoinsAreMeant'
  BY <1>1, <1>2 DEF JoinsInv, JoinsAreMeant
<1>6. OneJoin'
  <2> SUFFICES ASSUME ~mbRaced'
               PROVE  /\ \A k, l \in Joiners : mbJoins'[k] # NoJoin /\ mbJoins'[l] # NoJoin => k = l
                      /\ \A k \in Joiners : mbJoins'[k].step \in {"save", "welcome"} => mbEarned'[mbJoins'[k].pid] = 0
                      /\ \A p \in Pids : mbEarned'[p] <= 1
    BY DEF OneJoin
  <2>1. OneJoin /\ ~mbRaced /\ \A p \in Pids : mbEarned[p] > 0 => p \in Joined
    BY DEF JoinsInv
  <2>2. \A k \in Joiners : k # j => mbJoins'[k] = NoJoin
    BY <1>1, <1>2, <2>1 DEF OneJoin
  <2>3. mbEarned[mbJoins[j].pid] = 0
    BY <1>1, <2>1 DEF OneJoin
  <2> QED
    BY <1>2, <2>1, <2>2, <2>3, RestingRecords DEF OneJoin
<1>7. \A p \in Pids : mbEarned'[p] > 0 => p \in Joined'
  BY DEF JoinsInv
<1> QED
  BY <1>2, <1>4, <1>5, <1>6, <1>7 DEF JoinsInv
LEMMA SubmitJoinKeeps ==
  ASSUME MembersInv, NEW j \in Joiners, SubmitJoin(j)
  PROVE  MembersInv'
<1>1. PICK pid \in Pids, pwd \in Fillings : mbJoins' = [mbJoins EXCEPT ![j] = [step |-> "validate", pid |-> pid, pwd |-> pwd]]
  BY DEF SubmitJoin
<1> DEFINE call == [step |-> "validate", pid |-> pid, pwd |-> pwd]
<1>2. call \in JoinCall /\ call.step = "validate" /\ call.pid = pid
  BY DEF JoinCall
<1>3. /\ mbJoins[j] = NoJoin /\ mbStarted < MaxJoins /\ mbStarted' = mbStarted + 1
      /\ mbRaced' = (mbRaced \/ \E k \in Joiners : mbJoins[k] # NoJoin)
      /\ UNCHANGED <<mbMembers, mbEarned, mbTab>>
  BY DEF SubmitJoin
<1>4. JoinsInv /\ TabInv
  BY DEF MembersInv
<1> HIDE DEF call
<1>5. /\ mbJoins' \in [Joiners -> JoinCall] /\ mbJoins'[j] = call
      /\ \A k \in Joiners : k # j => mbJoins'[k] = mbJoins[k]
  BY <1>1, <1>2, <1>4 DEF JoinsInv, call
<1>6. Joined' = Joined
  BY <1>3 DEF Joined
<1>7. mbStarted' \in 0..MaxJoins /\ mbRaced' \in BOOLEAN
  BY <1>3, <1>4, MembersConstants DEF JoinsInv
<1>8. JoinsCounted'
  <2> SUFFICES ASSUME NEW p \in Pids
               PROVE  IsFiniteSet(JoiningAs(p)') /\ mbEarned'[p] + Cardinality(JoiningAs(p)') <= mbStarted'
    BY DEF JoinsCounted, JoiningAs
  <2>1. IsFiniteSet(JoiningAs(p)) /\ mbEarned[p] + Cardinality(JoiningAs(p)) <= mbStarted /\ Cardinality(JoiningAs(p)) \in Nat
    BY <1>4, FS_CardinalityType DEF JoinsInv, JoinsCounted
  <2>2. mbStarted \in Nat /\ mbEarned[p] \in Nat /\ mbEarned'[p] = mbEarned[p]
    BY <1>3, <1>4 DEF JoinsInv
  <2>3. j \notin JoiningAs(p)
    BY <1>3, RestingRecords, MembersConstants DEF JoiningAs
  <2>4. JoiningAs(p)' = JoiningAs(p) \/ JoiningAs(p)' = JoiningAs(p) \cup {j}
    BY <1>5, <2>3 DEF JoiningAs
  <2>5. IsFiniteSet(JoiningAs(p)') /\ Cardinality(JoiningAs(p)') <= Cardinality(JoiningAs(p)) + 1 /\ Cardinality(JoiningAs(p)') \in Nat
    <3>1. IsFiniteSet(JoiningAs(p) \cup {j}) /\ Cardinality(JoiningAs(p) \cup {j}) = Cardinality(JoiningAs(p)) + 1
      BY <2>1, <2>3, FS_AddElement
    <3>2. CASE JoiningAs(p)' = JoiningAs(p)
      <4>1. IsFiniteSet(JoiningAs(p)') /\ Cardinality(JoiningAs(p)') = Cardinality(JoiningAs(p))
        BY <2>1, <3>2, Zenon
      <4> QED
        BY <2>1, <4>1
    <3>3. CASE JoiningAs(p)' = JoiningAs(p) \cup {j}
      <4>1. IsFiniteSet(JoiningAs(p)') /\ Cardinality(JoiningAs(p)') = Cardinality(JoiningAs(p)) + 1
        BY <3>1, <3>3, Zenon
      <4> QED
        BY <2>1, <4>1
    <3> QED
      BY <2>4, <3>2, <3>3
  <2> QED
    BY <1>3, <2>1, <2>2, <2>5
<1>9. JoinsAreMeant'
  BY <1>2, <1>4, <1>5, <1>6 DEF JoinsInv, JoinsAreMeant
<1>10. OneJoin'
  <2> SUFFICES ASSUME ~mbRaced'
               PROVE  /\ \A k, l \in Joiners : mbJoins'[k] # NoJoin /\ mbJoins'[l] # NoJoin => k = l
                      /\ \A k \in Joiners : mbJoins'[k].step \in {"save", "welcome"} => mbEarned'[mbJoins'[k].pid] = 0
                      /\ \A p \in Pids : mbEarned'[p] <= 1
    BY DEF OneJoin
  <2>1. ~mbRaced /\ \A k \in Joiners : k # j => mbJoins'[k] = NoJoin
    BY <1>3, <1>5
  <2> QED
    BY <1>2, <1>3, <1>4, <1>5, <2>1, RestingRecords DEF JoinsInv, OneJoin
<1>11. JoinsInv'
  BY <1>3, <1>4, <1>5, <1>6, <1>7, <1>8, <1>9, <1>10 DEF JoinsInv
<1>12. TabInv'
  BY <1>3, <1>4, <1>6, TabRests
<1> QED
  BY <1>11, <1>12 DEF MembersInv

LEMMA JoinDiesKeeps ==
  ASSUME MembersInv, NEW j \in Joiners, JoinDies(j)
  PROVE  MembersInv'
<1>1. mbJoins[j] # NoJoin /\ JoinEnds(j) /\ UNCHANGED <<mbMembers, mbStarted, mbEarned, mbRaced, mbTab>>
  BY DEF JoinDies
<1> DEFINE earned == 0
<1>2. /\ earned \in {0, 1} /\ earned # 1
      /\ mbEarned' \in [Pids -> Nat] /\ mbEarned'[mbJoins[j].pid] = mbEarned[mbJoins[j].pid] + earned
      /\ \A p \in Pids : p # mbJoins[j].pid => mbEarned'[p] = mbEarned[p]
  <2>1. mbJoins[j].pid \in Pids
    BY <1>1, RestingRecords DEF MembersInv, JoinsInv, JoinsAreMeant
  <2>2. mbEarned \in [Pids -> Nat] /\ mbEarned' = mbEarned
    BY <1>1 DEF MembersInv, JoinsInv
  <2>3. mbEarned[mbJoins[j].pid] \in Nat
    BY <2>1, <2>2
  <2> QED
    BY <2>2, <2>3
<1> HIDE DEF earned
<1>3. JoinsInv' /\ Joined' = Joined
  BY <1>1, <1>2, JoinEndsKeeps DEF MembersInv
<1> QED
  BY <1>1, <1>3, TabRests DEF MembersInv

LEMMA ValidateKeeps ==
  ASSUME MembersInv, NEW j \in Joiners, ValidateDuplicateMember(j)
  PROVE  MembersInv'
<1>1. mbJoins[j].step = "validate" /\ UNCHANGED <<mbMembers, mbStarted, mbEarned, mbRaced, mbTab>> /\ Joined' = Joined
  BY DEF ValidateDuplicateMember, Joined
<1>2. CASE mbJoins[j].pid \in Joined /\ JoinEnds(j)
  <2>1. JoinDies(j)
    BY <1>1, <1>2, RestingRecords DEF JoinDies
  <2> QED
    BY <2>1, JoinDiesKeeps
<1>3. CASE mbJoins[j].pid \notin Joined /\ JoinGoes(j, "save")
  <2>1. mbMembers' \in [Pids -> Stored]
    BY <1>1 DEF MembersInv, JoinsInv
  <2>2. JoinsInv'
    BY <1>1, <1>3, <2>1, JoinGoesKeeps DEF MembersInv
  <2> QED
    BY <1>1, <2>2, TabRests DEF MembersInv
<1> QED
  BY <1>2, <1>3 DEF ValidateDuplicateMember

(* A document that is written is there. *)
LEMMA WrittenJoined ==
  ASSUME mbMembers \in [Pids -> Stored], NEW pid \in Pids, NEW pwd \in Fillings,
         mbMembers' = [mbMembers EXCEPT ![pid] = pwd]
  PROVE  mbMembers' \in [Pids -> Stored] /\ Joined \subseteq Joined' /\ pid \in Joined'
<1>1. /\ mbMembers' \in [Pids -> Stored] /\ mbMembers'[pid] = pwd
      /\ \A p \in Pids : p # pid => mbMembers'[p] = mbMembers[p]
  BY DEF Stored
<1>2. pwd # NoMember
  BY MembersConstants
<1> QED
  BY <1>1, <1>2 DEF Joined

LEMMA SaveMemberKeeps ==
  ASSUME MembersInv, NEW j \in Joiners, SaveMember(j)
  PROVE  MembersInv'
<1>1. /\ mbJoins[j].step = "save" /\ mbMembers' = [mbMembers EXCEPT ![mbJoins[j].pid] = mbJoins[j].pwd]
      /\ JoinGoes(j, "welcome") /\ UNCHANGED <<mbStarted, mbEarned, mbRaced, mbTab>>
  BY DEF SaveMember
<1>2. mbJoins[j].pid \in Pids /\ mbJoins[j].pwd \in Fillings
  BY <1>1 DEF MembersInv, JoinsInv, JoinsAreMeant, JoinCall
<1>3. mbMembers' \in [Pids -> Stored] /\ Joined \subseteq Joined' /\ mbJoins[j].pid \in Joined'
  BY <1>1, <1>2, WrittenJoined DEF MembersInv, JoinsInv
<1>4. JoinsInv'
  BY <1>1, <1>3, JoinGoesKeeps DEF MembersInv
<1> QED
  BY <1>1, <1>3, <1>4, TabRests DEF MembersInv

LEMMA WelcomeKeeps ==
  ASSUME MembersInv, NEW j \in Joiners, WelcomePoints(j)
  PROVE  MembersInv'
<1>1. /\ mbJoins[j].step = "welcome" /\ JoinEnds(j) /\ SentAnswered
      /\ UNCHANGED <<mbMembers, mbStarted, mbRaced, mbUser, mbLogins, mbPatch>>
  BY DEF WelcomePoints
<1>2. mbJoins[j] # NoJoin /\ mbJoins[j].pid \in Pids
  BY <1>1, RestingRecords DEF MembersInv, JoinsInv, JoinsAreMeant
<1>3. PICK earned \in {0, 1} : mbEarned' = [mbEarned EXCEPT ![mbJoins[j].pid] = mbEarned[mbJoins[j].pid] + earned]
  BY DEF WelcomePoints
<1>4. /\ mbEarned' \in [Pids -> Nat] /\ mbEarned'[mbJoins[j].pid] = mbEarned[mbJoins[j].pid] + earned
      /\ \A p \in Pids : p # mbJoins[j].pid => mbEarned'[p] = mbEarned[p]
  <2>1. mbEarned[mbJoins[j].pid] + earned \in Nat
    BY <1>2 DEF MembersInv, JoinsInv
  <2> QED
    BY <1>2, <1>3, <2>1 DEF MembersInv, JoinsInv
<1>5. JoinsInv' /\ Joined' = Joined
  BY <1>1, <1>2, <1>4, JoinEndsKeeps DEF MembersInv
<1> QED
  BY <1>1, <1>5, TabAnswered DEF MembersInv

LEMMA UpdateMemberKeeps ==
  ASSUME MembersInv, UpdateMember
  PROVE  MembersInv'
<1>1. /\ mbPatch' = NoPatch /\ SentAnswered
      /\ UNCHANGED <<mbJoins, mbStarted, mbEarned, mbRaced, mbUser, mbLogins>>
  BY DEF UpdateMember
<1>2. mbMembers' \in [Pids -> Stored] /\ Joined \subseteq Joined'
  <2>1. mbMembers \in [Pids -> Stored] /\ mbPatch.pwd \in Fillings
    BY DEF MembersInv, JoinsInv, TabInv
  <2>2. CASE mbPatch.pid \in Joined
    BY <2>1, <2>2, WrittenJoined DEF UpdateMember, Joined
  <2>3. CASE mbPatch.pid \notin Joined
    BY <2>1, <2>3 DEF UpdateMember, Joined
  <2> QED
    BY <2>2, <2>3
<1>3. \A p : JoiningAs(p)' = JoiningAs(p)
  BY <1>1 DEF JoiningAs
<1>4. JoinsCounted' /\ JoinsAreMeant' /\ OneJoin'
  BY <1>1, <1>2, <1>3 DEF MembersInv, JoinsInv, JoinsCounted, JoinsAreMeant, OneJoin
<1>5. JoinsInv'
  BY <1>1, <1>2, <1>4 DEF MembersInv, JoinsInv
<1> QED
  BY <1>1, <1>2, <1>5, TabAnswered DEF MembersInv

(* What the pages do leaves the service alone. *)
LEMMA PagesKeep ==
  ASSUME MembersInv,
         \/ \E name \in {"login", "join", "privacy", "other"} : GoTo(name)
         \/ OnLogout
         \/ \E pid \in Pids : OnClickLogin(pid) \/ LoginAnswered(pid)
         \/ PrivacyForm
  PROVE  MembersInv'
<1>1. UNCHANGED mbService
  BY DEF GoTo, OnLogout, OnClickLogin, LoginAnswered, PrivacyForm, ConfirmPassword, TypePassword, SubmitPrivacy
<1>2. JoinsInv' /\ Joined' = Joined
  BY <1>1, JoinsRest DEF MembersInv
<1>3. TabInv
  BY DEF MembersInv
<1> SUFFICES TabInv'
  BY <1>2 DEF MembersInv
<1>4. ASSUME NEW name \in {"login", "join", "privacy", "other"}, GoTo(name) PROVE TabInv'
  <2>1. [NoMemberPage EXCEPT !.name = name] \in MemberPage /\ ~[NoMemberPage EXCEPT !.name = name].confirmed
    BY MembersConstants DEF NoMemberPage, MemberPage
  <2>2. mbPage' = [NoMemberPage EXCEPT !.name = name] /\ UNCHANGED <<mbUser, mbLogins, mbPatch>>
    BY <1>4 DEF GoTo
  <2> HIDE DEF MemberPage
  <2> QED
    BY <1>2, <1>3, <2>1, <2>2 DEF TabInv
<1>5. ASSUME OnLogout PROVE TabInv'
  BY <1>2, <1>3, <1>5, RestingRecords DEF OnLogout, TabInv
<1>6. ASSUME NEW pid \in Pids, OnClickLogin(pid) PROVE TabInv'
  BY <1>2, <1>3, <1>6 DEF OnClickLogin, TabInv
<1>7. ASSUME NEW pid \in Pids, LoginAnswered(pid) PROVE TabInv'
  BY <1>2, <1>3, <1>7, RestingRecords DEF LoginAnswered, TabInv
<1>8. ASSUME ConfirmPassword PROVE TabInv'
  <2>1. mbPage' = [mbPage EXCEPT !.confirmed = TRUE, !.pid = mbUser] /\ UNCHANGED <<mbUser, mbLogins, mbPatch>>
    BY <1>8 DEF ConfirmPassword
  <2>2. mbPage' \in MemberPage /\ mbPage'.pid = mbUser
    BY <1>3, <2>1 DEF TabInv, MemberPage
  <2> QED
    BY <1>2, <1>3, <2>1, <2>2 DEF TabInv
<1>9. ASSUME NEW pwd \in Fillings, TypePassword(pwd) PROVE TabInv'
  <2>1. mbPage' = [mbPage EXCEPT !.pwd = pwd] /\ mbPage.confirmed /\ UNCHANGED <<mbUser, mbLogins, mbPatch>>
    BY <1>9 DEF TypePassword
  <2>2. mbPage' \in MemberPage /\ mbPage'.pid = mbPage.pid
    BY <1>3, <2>1 DEF TabInv, MemberPage
  <2> QED
    BY <1>2, <1>3, <2>1, <2>2 DEF TabInv
<1>10. ASSUME SubmitPrivacy PROVE TabInv'
  <2>1. mbPatch' = [pid |-> mbPage.pid, pwd |-> mbPage.pwd] /\ UNCHANGED <<mbUser, mbLogins, mbPage>>
    BY <1>10 DEF SubmitPrivacy
  <2>2. mbPatch' \in [pid : Pids \cup {NoMember}, pwd : Fillings]
    BY <1>3, <2>1 DEF TabInv, MemberPage
  <2> QED
    BY <1>2, <1>3, <2>1, <2>2 DEF TabInv
<1> QED
  BY <1>4, <1>5, <1>6, <1>7, <1>8, <1>9, <1>10 DEF PrivacyForm

LEMMA MembersStep == ASSUME MembersInv, [MembersNext]_mbVars PROVE MembersInv'
<1>1. CASE MembersNext
  BY <1>1, SubmitJoinKeeps, JoinDiesKeeps, ValidateKeeps, SaveMemberKeeps, WelcomeKeeps, UpdateMemberKeeps, PagesKeep
  DEF MembersNext
<1>2. CASE UNCHANGED mbVars
  <2>1. UNCHANGED mbService /\ UNCHANGED mbTab
    BY <1>2 DEF mbVars
  <2> QED
    BY <2>1, JoinsRest, TabRests DEF MembersInv
<1> QED
  BY <1>1, <1>2

LEMMA MembersInvEnough == ASSUME MembersInv PROVE MembersTypeOK /\ MembersAgree
<1>1. mbEarned \in [Pids -> 0..MaxJoins]
  <2>1. ASSUME NEW p \in Pids PROVE mbEarned[p] \in 0..MaxJoins
    <3>1. mbEarned[p] \in Nat /\ mbStarted \in 0..MaxJoins
      BY DEF MembersInv, JoinsInv
    <3>2. Cardinality(JoiningAs(p)) \in Nat /\ mbEarned[p] + Cardinality(JoiningAs(p)) <= mbStarted
      BY FS_CardinalityType DEF MembersInv, JoinsInv, JoinsCounted
    <3> QED
      BY <3>1, <3>2, MembersConstants
  <2> QED
    BY <2>1 DEF MembersInv, JoinsInv
<1>2. MembersTypeOK
  BY <1>1 DEF MembersInv, JoinsInv, TabInv, MembersTypeOK, Stored, JoinCall, MemberPage
<1>3. MembersAgree
  BY DEF MembersInv, JoinsInv, OneJoin, TabInv, MembersAgree
<1> QED
  BY <1>2, <1>3

(* Calls of join and what they have stored and welcomed fit together, and  *)
(* so does the session with its pages: the strengthening of                *)
(* MembersWelcomedOnce.                                                    *)
THEOREM MembersInductive == MembersSpec => []MembersInv
<1>1. MembersInit => MembersInv
  BY MembersInitInv
<1>2. MembersInv /\ [MembersNext]_mbVars => MembersInv'
  BY MembersStep
<1> QED
  BY <1>1, <1>2, PTL DEF MembersSpec

(* Every member was saved once and welcomed at most once unless calls of join *)
(* overlapped, and the open form is the user's (MemberService.join, Login.js, *)
(* Privacy.js), for any number of ids, passwords and calls.                   *)
THEOREM MembersWelcomedOnce == MembersSpec => [](MembersTypeOK /\ MembersAgree)
  BY MembersInductive, MembersInvEnough, PTL
=============================================================================
