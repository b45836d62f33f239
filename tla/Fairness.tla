------------------------------ MODULE Fairness ------------------------------
(***************************************************************************)
(* Hierarchical weighted max-min fairness by progressive filling           *)
(* (fairness.cpp): capacity is shared in whole quanta, first among the     *)
(* branches and then among the leaves of each branch.  Participants are    *)
(* numbered in the order of the vectors, which breaks every tie.           *)
(***************************************************************************)
EXTENDS Naturals, FiniteSets, FiniteSetsExt

Sum(f, S) == MapThenSumSet(LAMBDA i : f[i], S)

(* A filling in progress: what is left to give, the units each participant *)
(* still wants, what it has, and who takes part.                           *)
Start(capacity, units, weight) ==
  [remaining |-> capacity, units |-> units,
   allocated |-> [i \in DOMAIN units |-> 0],
   active |-> {i \in DOMAIN units : units[i] > 0 /\ weight[i] > 0}]

(* Mutant of Before: demands are compared without their weights. *)
BeforeUnweighted(f, weight, i, j) ==
  f.units[i] < f.units[j] \/ (f.units[i] = f.units[j] /\ i <= j)

(* compare_ratio: i wants less per weight than j, without dividing. *)
Before(f, weight, i, j) ==
  LET a == f.units[i] * weight[j]
      b == f.units[j] * weight[i]
  IN  a < b \/ (a = b /\ i <= j)

(* The participant that is satisfied first as the level rises. *)
Bottleneck(f, weight) ==
  CHOOSE i \in f.active : \A j \in f.active : Before(f, weight, i, j)

(* What each active participant gets when the bottleneck is satisfied. *)
AtLevel(f, weight) ==
  LET b == Bottleneck(f, weight)
  IN  [i \in f.active |-> (f.units[b] * weight[i]) \div weight[b]]

(* The level is reached: everyone is lifted to it, the bottleneck leaves. *)
Lift(f, weight) ==
  LET share == AtLevel(f, weight)
      given == [i \in DOMAIN f.units |-> IF i \in f.active THEN share[i] ELSE 0]
  IN  [remaining |-> f.remaining - Sum(share, f.active),
       units |-> [i \in DOMAIN f.units |-> f.units[i] - given[i]],
       allocated |-> [i \in DOMAIN f.units |-> f.allocated[i] + given[i]],
       active |-> f.active \ {Bottleneck(f, weight)}]


(* Mutant of Spread: the indivisible rest is not handed out. *)
SpreadFloor(f, weight) ==
  LET total == Sum(weight, f.active)
  IN  [f EXCEPT !.remaining = 0,
         !.allocated = [i \in DOMAIN f.units |->
           IF i \in f.active
           THEN f.allocated[i] + (f.remaining * weight[i]) \div total
           ELSE f.allocated[i]]]

(* It is not: what is left is shared in proportion, and the indivisible    *)
(* rest goes one unit each by largest remainder, then lowest position.     *)
Spread(f, weight) ==
  LET total == Sum(weight, f.active)
      quotient == [i \in f.active |-> (f.remaining * weight[i]) \div total]
      remainder == [i \in f.active |-> (f.remaining * weight[i]) % total]
      leftover == f.remaining - Sum(quotient, f.active)
      ahead(i) == {j \in f.active : \/ remainder[j] > remainder[i]
                                    \/ remainder[j] = remainder[i] /\ j < i}
      extra(i) == IF Cardinality(ahead(i)) < leftover THEN 1 ELSE 0
  IN  [f EXCEPT !.remaining = 0,
         !.allocated = [i \in DOMAIN f.units |->
           IF i \in f.active THEN f.allocated[i] + quotient[i] + extra(i)
           ELSE f.allocated[i]]]

(* One turn of the filling loop; it does nothing once the loop has ended. *)
Step(f, weight) ==
  IF f.active = {} \/ f.remaining = 0 THEN f
  ELSE IF f.remaining >= Sum(AtLevel(f, weight), f.active) THEN Lift(f, weight)
  ELSE Spread(f, weight)

(* Every turn satisfies a participant or ends the loop. *)
Fill(start, weight) == FoldSet(LAMBDA i, f : Step(f, weight), start, start.active)

(* wmmf_units *)
Shares(capacity, units, weight) ==
  Fill(Start(capacity, units, weight), weight).allocated

(* The shares of the leaves, unit by unit: the branches first, each with   *)
(* the units of its leaves, then the leaves of each branch.                *)
Leaves(of, b) == {i \in DOMAIN of : of[i] = b}

SharesWithin(branch, units, weight, of) ==
  [b \in DOMAIN branch |->
     Shares(branch[b], [i \in Leaves(of, b) |-> units[i]], weight)]

LeafShares(capacity, units, weight, of, branchWeight) ==
  LET within == SharesWithin(
        Shares(capacity, [b \in DOMAIN branchWeight |-> Sum(units, Leaves(of, b))],
               branchWeight),
        units, weight, of)
  IN  [i \in DOMAIN units |-> within[of[i]][i]]

(* Mutant of FairShare: the quantum is ignored. *)
FairShareOfBits(capacity, quantum, demand, weight, of, branchWeight) ==
  LeafShares(capacity, demand, weight, of, branchWeight)

(* weighted_max_min_fair_share over branches, in bits per second.  The     *)
(* leaf i is in branch of[i]; what is below one quantum is not a unit.     *)
FairShare(capacity, quantum, demand, weight, of, branchWeight) ==
  LET units == LeafShares(capacity \div quantum,
                          [i \in DOMAIN demand |-> demand[i] \div quantum],
                          weight, of, branchWeight)
  IN  [i \in DOMAIN demand |-> quantum * units[i]]
=============================================================================
