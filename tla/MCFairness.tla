----------------------------- MODULE MCFairness -----------------------------
(***************************************************************************)
(* The fair share of every small input: leaves in branches, with weights,  *)
(* demands, an offered capacity and a quantum.                             *)
(***************************************************************************)
EXTENDS Fairness

CONSTANTS
  MaxLeaves,  \* number of leaves
  Weights,    \* weights of leaves and branches
  Demands,    \* demands, in bits per second
  MaxOffer,   \* largest capacity offered
  Quanta      \* allocation quanta

ASSUME InputsAssumption ==
  /\ MaxLeaves \in Nat \ {0} /\ MaxOffer \in Nat
  /\ Weights \subseteq Nat \ {0} /\ Demands \subseteq Nat
  /\ Quanta \subseteq Nat \ {0}

VARIABLES input, shares

vars == <<input, shares>>

Leaf == 1 .. MaxLeaves
Branch == {1, 2}

Input == [capacity: 0 .. MaxOffer, quantum: Quanta, demand: [Leaf -> Demands],
          weight: [Leaf -> Weights], of: [Leaf -> Branch],
          branchWeight: [Branch -> Weights]]

Computed(i, capacity) ==
  FairShare(capacity, i.quantum, i.demand, i.weight, i.of, i.branchWeight)

(* Leaves are listed branch by branch, as the vector of branches has them. *)
Init ==
  /\ input \in Input
  /\ \A i, j \in Leaf : i < j => input.of[i] <= input.of[j]
  /\ shares = <<>>

Compute ==
  /\ shares = <<>>
  /\ shares' = Computed(input, input.capacity)
  /\ UNCHANGED input

Next == Compute

Spec == Init /\ [][Next]_vars

-----------------------------------------------------------------------------

Done == shares # <<>>

Units(x) == x \div input.quantum
LeavesOf(b) == {i \in Leaf : input.of[i] = b}
WantedBy(S) == Sum([i \in Leaf |-> Units(input.demand[i])], S)
GivenTo(S) == Sum([i \in Leaf |-> Units(shares[i])], S)

(* The input is an input, and the shares are amounts in whole quanta. *)
TypeOK ==
  /\ input \in Input
  /\ Done => \A i \in Leaf : shares[i] \in Nat /\ shares[i] % input.quantum = 0

(* No allocation exceeds its demand, although the shares of a level and of *)
(* the rest are rounded (wmmf_units, "Demand safety").                     *)
DemandSafety == Done => \A i \in Leaf : shares[i] <= input.demand[i]

(* No unit is invented and none is left over while someone wants it, in    *)
(* spite of two levels of rounding ("Conservation").                       *)
WorkConserving ==
  Done => GivenTo(Leaf) = Min({Units(input.capacity), WantedBy(Leaf)})

(* Max-min up to one unit: handing one unit from a leaf, or a branch, to   *)
(* an unsatisfied one of the same level would put the receiver at least    *)
(* level with the giver, whatever was rounded on the way (wmmf_units).     *)
NoBetterTransfer(given, wanted, weight, i, j) ==
  given[i] < wanted[i] => given[j] * weight[i]
                            <= (given[i] + 1) * weight[j] + weight[i]


-----------------------------------------------------------------------------
(* What the documentation says of the engine and the code does not do. *)

(* Offering one more quantum never decreases an allocation. *)
Monotone ==
  Done => \A i \in Leaf :
    shares[i] <= Computed(input, input.capacity + input.quantum)[i]

(* With a quantum for each active demand, each receives at least one. *)
NoneStarved ==
  LET active == {i \in Leaf : Units(input.demand[i]) > 0}
  IN  Done /\ Units(input.capacity) >= Cardinality(active) =>
        \A i \in active : shares[i] > 0
=============================================================================
