----------------------------- MODULE Accounting -----------------------------
(***************************************************************************)
(* The capacity books of one target (accounting.cpp): the identities that  *)
(* ResourceAccounting::validate checks, and the change that retiring one   *)
(* grant outside a round makes to them.                                    *)
(***************************************************************************)
EXTENDS Integers

(* Bandwidth::saturating_sub and Bandwidth::min *)
Less(a, b) == IF a >= b THEN a - b ELSE 0
Least(a, b) == IF a <= b THEN a ELSE b

(* ResourceAccounting, without the identity of the target. *)
Books ==
  [known: BOOLEAN, effective_physical: Nat, obligations_reserved: Nat,
   capacity_deficit: Nat, allocatable: Nat,
   emergency_reserve: Nat, emergency_reserve_unused: Nat, headroom: Nat,
   arbitrable: Nat, guaranteed_granted: Nat, discretionary_granted: Nat,
   borrowed_granted: Nat, contingent_granted: Nat, obligations_consumed: Nat,
   obligations_lent: Nat, obligations_idle: Nat, unallocated: Nat,
   contingent_pool: Nat, contingent_unallocated: Nat,
   authorized_consumption: Nat]

(* GrantAllocation, with the funding provenance that a Grant records. *)
Allocation ==
  [guaranteed: Nat, discretionary: Nat, borrowed: Nat, contingent: Nat,
   obligation_backed: Nat, reserve_backed: Nat]

Total(g) == g.guaranteed + g.discretionary + g.borrowed + g.contingent

HasRevocable(g) == g.discretionary > 0 \/ g.borrowed > 0 \/ g.contingent > 0

Authorized(a) ==
  a.obligations_consumed + a.guaranteed_granted + a.discretionary_granted
    + a.borrowed_granted + a.contingent_granted

(* The identities that hold of usable evidence, and of any other. *)
KnownCloses(a) ==
  /\ a.effective_physical + a.capacity_deficit = a.obligations_reserved + a.allocatable
  /\ a.allocatable = a.emergency_reserve + a.headroom + a.arbitrable
  /\ a.allocatable = a.emergency_reserve_unused + a.headroom + a.guaranteed_granted
                       + a.discretionary_granted + a.unallocated
  /\ a.emergency_reserve_unused <= a.emergency_reserve

UnknownCloses(a) ==
  /\ a.emergency_reserve = 0 /\ a.effective_physical = 0
  /\ a.allocatable = 0 /\ a.arbitrable = 0
  /\ a.authorized_consumption = 0

(* ResourceAccounting::validate reports nothing. *)
Closes(a) ==
  /\ IF a.known THEN KnownCloses(a) ELSE UnknownCloses(a)
  /\ a.obligations_reserved = a.obligations_consumed + a.obligations_lent + a.obligations_idle
  /\ a.contingent_pool = a.contingent_granted + a.contingent_unallocated
  /\ a.borrowed_granted = a.obligations_lent
  /\ a.authorized_consumption = Authorized(a)
  /\ a.authorized_consumption <= a.effective_physical + a.contingent_pool

(* How apply_grant_retirement splits a grant by the pool that funded it. *)
FromObligation(g) == Least(g.obligation_backed, g.guaranteed)
ReserveInGuaranteed(g) == Least(g.reserve_backed, Less(g.guaranteed, FromObligation(g)))
ArbitrableGuaranteed(g) ==
  Less(Less(g.guaranteed, FromObligation(g)), ReserveInGuaranteed(g))
ArbitrableDiscretionary(g) ==
  Less(g.discretionary, Less(g.reserve_backed, ReserveInGuaranteed(g)))

(* Mutant of Retired: borrowed capacity does not go back to its obligation. *)
RetiredKeepsLoan(a, g) ==
  LET b == [a EXCEPT
        !.obligations_consumed = Less(@, FromObligation(g)),
        !.obligations_idle = @ + FromObligation(g),
        !.guaranteed_granted = Less(@, ArbitrableGuaranteed(g)),
        !.discretionary_granted = Less(@, ArbitrableDiscretionary(g)),
        !.unallocated = @ + ArbitrableGuaranteed(g) + ArbitrableDiscretionary(g),
        !.emergency_reserve_unused = @ + g.reserve_backed,
        !.borrowed_granted = Less(@, g.borrowed),
        !.contingent_granted = Less(@, g.contingent),
        !.contingent_unallocated = @ + g.contingent]
  IN  [b EXCEPT !.authorized_consumption = Authorized(b)]

(* apply_grant_retirement: the books after g is retired, whether or not    *)
(* they still close.                                                       *)
Retired(a, g) ==
  LET b == [a EXCEPT
        !.obligations_consumed = Less(@, FromObligation(g)),
        !.obligations_idle = @ + FromObligation(g) + g.borrowed,
        !.obligations_lent = Less(@, g.borrowed),
        !.guaranteed_granted = Less(@, ArbitrableGuaranteed(g)),
        !.discretionary_granted = Less(@, ArbitrableDiscretionary(g)),
        !.unallocated = @ + ArbitrableGuaranteed(g) + ArbitrableDiscretionary(g),
        !.emergency_reserve_unused = @ + g.reserve_backed,
        !.borrowed_granted = Less(@, g.borrowed),
        !.contingent_granted = Less(@, g.contingent),
        !.contingent_unallocated = @ + g.contingent]
  IN  [b EXCEPT !.authorized_consumption = Authorized(b)]
=============================================================================
