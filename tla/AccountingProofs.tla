-------------------------- MODULE AccountingProofs --------------------------
(***************************************************************************)
(* What retiring a grant outside a round does to books that close, for     *)
(* every amount.                                                           *)
(***************************************************************************)
EXTENDS Accounting, TLAPS

(* The books carry everything the grant says it holds, in the pools it     *)
(* says it holds it from.                                                  *)
Carries(a, g) ==
  /\ g.obligation_backed <= g.guaranteed
  /\ g.obligation_backed <= a.obligations_consumed
  /\ g.guaranteed - g.obligation_backed <= a.guaranteed_granted
  /\ g.discretionary <= a.discretionary_granted
  /\ g.borrowed <= a.borrowed_granted
  /\ g.contingent <= a.contingent_granted

(* The pools that paid for a grant without reserve capacity. *)
LEMMA Pools ==
  ASSUME NEW g \in Allocation, g.obligation_backed <= g.guaranteed,
         g.reserve_backed = 0
  PROVE  /\ FromObligation(g) = g.obligation_backed
         /\ ArbitrableGuaranteed(g) = g.guaranteed - g.obligation_backed
         /\ ArbitrableDiscretionary(g) = g.discretionary
  BY DEF Allocation, FromObligation, ReserveInGuaranteed, ArbitrableGuaranteed,
         ArbitrableDiscretionary, Less, Least

(* The arbitrable parts of any grant lie within its two amounts. *)
LEMMA ReservePools ==
  ASSUME NEW g \in Allocation, g.obligation_backed <= g.guaranteed
  PROVE  /\ ArbitrableGuaranteed(g) \in Nat
         /\ ArbitrableGuaranteed(g) <= g.guaranteed - g.obligation_backed
         /\ ArbitrableDiscretionary(g) \in Nat
         /\ ArbitrableDiscretionary(g) <= g.discretionary
<1>1. FromObligation(g) = g.obligation_backed
  BY DEF Allocation, FromObligation, Least
<1>2. ReserveInGuaranteed(g) \in Nat
  BY <1>1 DEF Allocation, ReserveInGuaranteed, Least, Less
<1>3. QED
  BY <1>1, <1>2 DEF Allocation, ArbitrableGuaranteed, ArbitrableDiscretionary, Less

(* What each field of the books becomes. *)
LEMMA RetiredFields ==
  ASSUME NEW a \in Books, NEW g
  PROVE  LET b == Retired(a, g)
         IN  /\ b.known = a.known
             /\ b.effective_physical = a.effective_physical
             /\ b.obligations_reserved = a.obligations_reserved
             /\ b.capacity_deficit = a.capacity_deficit
             /\ b.allocatable = a.allocatable
             /\ b.emergency_reserve = a.emergency_reserve
             /\ b.headroom = a.headroom
             /\ b.arbitrable = a.arbitrable
             /\ b.contingent_pool = a.contingent_pool
             /\ b.obligations_consumed = Less(a.obligations_consumed, FromObligation(g))
             /\ b.obligations_idle = a.obligations_idle + FromObligation(g) + g.borrowed
             /\ b.obligations_lent = Less(a.obligations_lent, g.borrowed)
             /\ b.guaranteed_granted = Less(a.guaranteed_granted, ArbitrableGuaranteed(g))
             /\ b.discretionary_granted
                  = Less(a.discretionary_granted, ArbitrableDiscretionary(g))
             /\ b.unallocated
                  = a.unallocated + ArbitrableGuaranteed(g) + ArbitrableDiscretionary(g)
             /\ b.emergency_reserve_unused = a.emergency_reserve_unused + g.reserve_backed
             /\ b.borrowed_granted = Less(a.borrowed_granted, g.borrowed)
             /\ b.contingent_granted = Less(a.contingent_granted, g.contingent)
             /\ b.contingent_unallocated = a.contingent_unallocated + g.contingent
             /\ b.authorized_consumption = Authorized(b)
  BY DEF Books, Retired, Authorized

(* apply_grant_retirement changes the books of a grant that holds no       *)
(* reserve capacity to books that close again and authorise exactly the    *)
(* grant's total less.                                                     *)
THEOREM RetirementCloses ==
  ASSUME NEW a \in Books, NEW g \in Allocation,
         Closes(a), a.known, Carries(a, g), g.reserve_backed = 0
  PROVE  /\ Closes(Retired(a, g))
         /\ Retired(a, g).authorized_consumption = a.authorized_consumption - Total(g)
<1>1. /\ FromObligation(g) = g.obligation_backed
      /\ ArbitrableGuaranteed(g) = g.guaranteed - g.obligation_backed
      /\ ArbitrableDiscretionary(g) = g.discretionary
  BY Pools DEF Carries
<1>2. QED
  BY <1>1, RetiredFields
     DEF Books, Allocation, Closes, KnownCloses, Carries, Total, Authorized, Less

(* A grant that holds reserve capacity leaves the books open: the reserve  *)
(* gets back what was never taken off the granted amounts.                 *)
THEOREM ReserveRetirementNeverCloses ==
  ASSUME NEW a \in Books, NEW g \in Allocation,
         Closes(a), a.known, Carries(a, g), g.reserve_backed > 0,
         g.reserve_backed + g.obligation_backed <= g.guaranteed + g.discretionary
  PROVE  ~Closes(Retired(a, g))
<1> DEFINE b == Retired(a, g)
<1>1. PICK x, y \in Nat :
        /\ x = ArbitrableGuaranteed(g) /\ y = ArbitrableDiscretionary(g)
        /\ x <= a.guaranteed_granted /\ y <= a.discretionary_granted
  BY ReservePools DEF Carries, Books, Allocation
<1>2. /\ b.guaranteed_granted = a.guaranteed_granted - x
      /\ b.discretionary_granted = a.discretionary_granted - y
      /\ b.unallocated = a.unallocated + x + y
  BY <1>1, RetiredFields DEF Books, Less
<1>3. /\ b.known = a.known
      /\ b.allocatable = a.allocatable
      /\ b.headroom = a.headroom
      /\ b.emergency_reserve_unused = a.emergency_reserve_unused + g.reserve_backed
  BY RetiredFields, Zenon
<1>4. /\ a.allocatable = a.emergency_reserve_unused + a.headroom + a.guaranteed_granted
                            + a.discretionary_granted + a.unallocated
      /\ a.emergency_reserve_unused \in Nat /\ a.headroom \in Nat
      /\ a.guaranteed_granted \in Nat /\ a.discretionary_granted \in Nat
      /\ a.unallocated \in Nat /\ g.reserve_backed \in Nat
  BY DEF Closes, KnownCloses, Books, Allocation
<1>5. b.allocatable # b.emergency_reserve_unused + b.headroom + b.guaranteed_granted
                        + b.discretionary_granted + b.unallocated
  <2> HIDE DEF b
  <2> QED  BY <1>1, <1>2, <1>3, <1>4
<1>6. ~KnownCloses(b)
  <2> HIDE DEF b
  <2> QED  BY <1>5 DEF KnownCloses
<1>7. b.known
  BY <1>3
<1>8. QED
  <2> HIDE DEF b
  <2>1. ~Closes(b)  BY <1>6, <1>7, Zenon DEF Closes
  <2> QED  BY <2>1, Zenon DEF b
=============================================================================
