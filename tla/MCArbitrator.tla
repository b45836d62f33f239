---------------------------- MODULE MCArbitrator ----------------------------
(***************************************************************************)
(* Small instances of Arbitrator: two or three requests of a few shapes    *)
(* under a few policies.                                                   *)
(***************************************************************************)
EXTENDS Arbitrator

Bulk == [rank |-> 1, weight |-> 1, emergency |-> FALSE, discretionary |-> TRUE,
         borrowing |-> TRUE]
Urgent == [Bulk EXCEPT !.rank = 2, !.weight = 2, !.emergency = TRUE]

Plain ==
  [classes |-> <<Bulk, Urgent>>,
   groups |-> <<[weight |-> 1, cap |-> 0, borrowing |-> FALSE],
                [weight |-> 2, cap |-> 0, borrowing |-> FALSE]>>,
   scheduling |-> "StrictPriority", quantum |-> 1,
   headroom_target |-> 0, headroom_permille |-> 0, emergency_permille |-> 0,
   oversubscription |-> 1000,
   borrow |-> [enabled |-> FALSE, max_lend |-> 1000, max_borrow |-> 1000],
   starvation |-> [enabled |-> FALSE, threshold |-> 1, promotions |-> 1, multiplier |-> 2],
   recall_grace |-> 0]

Fair == [Plain EXCEPT !.scheduling = "WeightedFairShare"]
Lending == [Fair EXCEPT !.borrow.enabled = TRUE, !.oversubscription = 1500, !.recall_grace = 1]
Reserving == [Plain EXCEPT !.emergency_permille = 250, !.headroom_permille = 250]
Aging == [Plain EXCEPT !.starvation.enabled = TRUE]
Coarse == [Fair EXCEPT !.quantum = 2, !.groups[1].cap = 2]

Shape(class, group, minimum, desired, maximum) ==
  [class |-> class, group |-> group, reservation |-> 0, minimum |-> minimum,
   desired |-> desired, maximum |-> maximum, borrowing |-> TRUE, revocable |-> TRUE]

Best == Shape(1, 1, 0, 3, 4)
Firm == Shape(1, 2, 2, 2, 3)
Alarm == Shape(2, 1, 1, 3, 4)
Owner == [Shape(1, 2, 2, 2, 3) EXCEPT !.reservation = 1, !.revocable = FALSE]

Supply(n) == [physical |-> n, headroom_target |-> 0, evidence |-> "Known"]

PoolAsks == {Best, Alarm} \X {Firm, Owner} \X {Alarm, Owner}
PoolPolicies == {Lending, Reserving, Coarse}
PoolSupplies == {Supply(4)}

BookAsks == {<<Best, Owner>>}
BookPolicies == {Lending}
BookSupplies == {Supply(3), Supply(5), NoSupply("Stale")}

AgingAsks == {<<Best, Shape(2, 1, 1, 4, 4)>>}
AgingPolicies == {[Aging EXCEPT !.starvation.threshold = n] : n \in 1 .. 2}
AgingSupplies == {Supply(4)}

(* One policy and few requests for each disagreement with the documents. *)
ReservingOnly == {Reserving}
LendingOnly == {Lending}
PlainOnly == {Plain}
MinimaOnly == {[Plain EXCEPT !.classes[1].discretionary = FALSE]}
CappedOnly == {[Fair EXCEPT !.groups[1].cap = 2]}
FlooredOnly == {[Plain EXCEPT !.headroom_target = 2]}
AlarmOnly == {<<Alarm>>}
BestOnly == {<<Best>>}
TwoBest == {<<Best, Best>>}
Ample == {Supply(8)}
=============================================================================
