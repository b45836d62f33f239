----------------------------- MODULE Arbitrator -----------------------------
(***************************************************************************)
(* One target's arbitration rounds (arbitrator.cpp) and what the broker    *)
(* does to the books between them: the phases of arbitrate() as operators  *)
(* on the run in progress, the decision about each candidate's grant, and  *)
(* the release, revocation and revalidation of grants outside a round.     *)
(* Authority is the Coordinator module's subject: every request here has   *)
(* current authority, and every record is durable.                         *)
(***************************************************************************)
EXTENDS Accounting, Fairness, Grants, SequencesExt

CONSTANTS
  Requests,    \* request identities, numbered as the request map orders them
  Asks,        \* what the requests may ask for, together
  Policies,    \* policies that may be installed
  Supplies,    \* usable capacity snapshots that may be published
  Obligations, \* reservation references
  Amounts,     \* amounts an obligation may reserve
  Generations, \* generations an obligation may carry; requests bind to 1
  MaxRounds,   \* bound on committed rounds that change anything
  MaxPublished \* bound on publications

ASSUME ArbitratorAssumption ==
  /\ Requests \subseteq Nat \ {0} /\ IsFiniteSet(Requests)
  /\ Amounts \subseteq Nat \ {0}
  /\ MaxRounds \in Nat /\ MaxPublished \in Nat
  /\ \A a \in Asks : /\ DOMAIN a = Requests
                     /\ \A r \in Requests : /\ a[r].minimum <= a[r].desired
                                            /\ a[r].desired <= a[r].maximum
                                            /\ a[r].maximum > 0

VARIABLES
  policy,      \* the installed policy
  ask,         \* what each request asks for
  requests,    \* the broker's request map
  submitted,   \* requests ever accepted; an identity is not accepted twice
  supply,      \* the published capacity snapshot
  published,   \* number of publications: the capacity generation
  obligations, \* reservation -> [amount, generation], amount 0 when absent
  wait,        \* rounds each request has been unsatisfied
  grants,      \* the latest grant of each request
  accounting,  \* the books of the target, or NoBooks
  run,         \* the last committed round
  rounds       \* number of committed rounds that changed anything

vars == <<policy, ask, requests, submitted, supply, published, obligations, wait,
          grants, accounting, run, rounds>>

NoSupply(evidence) == [physical |-> 0, headroom_target |-> 0, evidence |-> evidence]
NoBooks == [known |-> FALSE]
NoRun == [order |-> <<>>]
Nothing == [guaranteed |-> 0, discretionary |-> 0, borrowed |-> 0, contingent |-> 0,
            obligation_backed |-> 0, reserve_backed |-> 0]
NoGrant == [id |-> 0, state |-> "None", generation |-> 0, bound |-> 0, holds |-> Nothing]

Permille(amount, p) == (amount * p) \div 1000

Class(r) == policy.classes[ask[r].class]
Group(r) == policy.groups[ask[r].group]

Live(g) == g.state \in LiveStates
IsLive(r) == Live(grants[r])

-----------------------------------------------------------------------------
(* Which candidates take part, and in which order. *)

(* Policy::effective_rank and Policy::effective_class_weight *)
Aged(r) ==
  /\ policy.starvation.enabled /\ policy.starvation.promotions > 0
  /\ wait[r] >= policy.starvation.threshold

Strongest == Max({policy.classes[c].rank : c \in DOMAIN policy.classes})


Rank(r) ==
  IF Aged(r) THEN Least(Class(r).rank + policy.starvation.promotions, Strongest)
  ELSE Class(r).rank

Weight(r) ==
  IF Aged(r) THEN Class(r).weight * policy.starvation.multiplier ELSE Class(r).weight

(* BandwidthRequest::ceiling *)
Ceiling(r) == Least(ask[r].desired, ask[r].maximum)

Bound(r) == ask[r].reservation # 0

(* Phase A: a binding to an obligation must name its current generation,   *)
(* and a request below one quantum cannot be served.                       *)
StaleReservation(r) ==
  /\ Bound(r)
  /\ LET o == obligations[ask[r].reservation]
     IN  o.amount = 0 \/ o.generation # 1

Refused(r) == StaleReservation(r) \/ Ceiling(r) = 0 \/ Ceiling(r) < policy.quantum

Usable == supply.evidence = "Known"

Admitted == {r \in requests : Usable /\ ~Refused(r)}

(* Phase D: the order of every phase that serves one request at a time. *)
Precedes(a, b) ==
  \/ Rank(a) > Rank(b)
  \/ /\ Rank(a) = Rank(b)
     /\ \/ Group(a).weight > Group(b).weight
        \/ /\ Group(a).weight = Group(b).weight
           /\ \/ ask[a].group < ask[b].group
              \/ ask[a].group = ask[b].group /\ a < b

Order == SetToSortSeq(Admitted, Precedes)

-----------------------------------------------------------------------------
(* The run in progress: the pools still to give and what each request has. *)

(* Phase C *)
Reserved == Sum([o \in Obligations |-> obligations[o].amount], Obligations)
Allocatable == Less(supply.physical, Reserved)
EmergencyReserve == Permille(Allocatable, policy.emergency_permille)
Headroom ==
  LET wanted == {supply.headroom_target, Permille(Allocatable, policy.headroom_permille)}
  IN  Least(Max(wanted), Less(Allocatable, EmergencyReserve))
Arbitrable == Less(Less(Allocatable, EmergencyReserve), Headroom)
ContingentPool == (supply.physical * (policy.oversubscription - 1000)) \div 1000
BorrowCeiling == Permille(supply.physical, policy.borrow.max_borrow)

FirstRun ==
  [order |-> Order, waited |-> wait, rank |-> [r \in requests |-> Rank(r)],
   weight |-> [r \in requests |-> Weight(r)],
   remaining |-> Arbitrable, reserve |-> EmergencyReserve,
   consumed |-> [o \in Obligations |-> 0],
   holds |-> [r \in Requests |-> Nothing]]

Held(u, r) == Total(u.holds[r])

(* RunState::remaining_budget; cap 0 means uncapped. *)
InGroup(u, k) == {r \in ToSet(u.order) : ask[r].group = k}
Capped(k) == policy.groups[k].cap > 0
Budget(u, k) ==
  Less(policy.groups[k].cap, Sum([r \in Requests |-> Held(u, r)], InGroup(u, k)))

(* Phase E for one request: its minimum, from its obligation or else from  *)
(* the reserve, if its class may, and then the arbitrable pool.            *)
FromReservation(u, r) ==
  LET o == ask[r].reservation
      given == Least(ask[r].minimum, Less(obligations[o].amount, u.consumed[o]))
  IN  [u EXCEPT !.consumed[o] = @ + given,
                !.holds[r].guaranteed = given,
                !.holds[r].obligation_backed = given]

FromPools(u, r) ==
  LET reserve == IF Class(r).emergency THEN Least(ask[r].minimum, u.reserve) ELSE 0
      pool == Least(ask[r].minimum - reserve, u.remaining)
  IN  [u EXCEPT !.reserve = @ - reserve,
                !.remaining = @ - pool,
                !.holds[r].guaranteed = reserve + pool,
                !.holds[r].reserve_backed = reserve]

Guarantee(u, r) ==
  IF ask[r].minimum = 0 THEN u
  ELSE IF Bound(r) THEN FromReservation(u, r)
  ELSE FromPools(u, r)

(* distribute: the hierarchical fair share of an amount among the          *)
(* selected positions of the order, each wanting what it lacks to its      *)
(* limit, within its group's budget.  The limit is the ceiling in Phase F, *)
(* and the maximum for borrowed (G) and contingent (H) capacity.           *)
Limit(r, toMaximum) == IF toMaximum THEN ask[r].maximum ELSE Ceiling(r)

Demand(u, k, toMaximum) ==
  LET r == u.order[k]
      lacks == Less(Limit(r, toMaximum), Held(u, r))
  IN  IF Capped(ask[r].group) THEN Least(lacks, Budget(u, ask[r].group)) ELSE lacks

ShareOut(u, demand, amount) ==
  FairShare(amount, policy.quantum, demand,
            [k \in DOMAIN demand |-> u.weight[u.order[k]]],
            [k \in DOMAIN demand |-> ask[u.order[k]].group],
            [g \in DOMAIN policy.groups |-> policy.groups[g].weight])

ByRequest(u, share) ==
  [r \in Requests |-> Sum(share, {k \in DOMAIN share : u.order[k] = r})]

Distribute(u, selected, toMaximum, amount) ==
  ByRequest(u, ShareOut(u, [k \in {j \in selected : Demand(u, j, toMaximum) > 0} |->
                              Demand(u, k, toMaximum)], amount))

Given(share) == Sum(share, Requests)

Positions(u) == DOMAIN u.order

(* Phase F, one pass: the reserve to the emergency classes, then the       *)
(* arbitrable pool rank by rank or all at once.  Both passes distribute    *)
(* toward the ceiling.                                                     *)

(* Mutant of Selected: only requests short of their minimum are served. *)
SelectedBelowMinimum(u, burst) ==
  {k \in Positions(u) : LET r == u.order[k]
                        IN  Held(u, r) < ask[r].minimum /\ Class(r).discretionary}

(* Who takes part in a pass. *)
Selected(u, burst) ==
  {k \in Positions(u) :
     LET r == u.order[k]
     IN  IF burst THEN Held(u, r) < ask[r].maximum
         ELSE Held(u, r) < ask[r].desired /\ Class(r).discretionary}

Discretionary(u, share) ==
  [u EXCEPT !.remaining = @ - Given(share),
            !.holds = [r \in Requests |-> [@[r] EXCEPT !.discretionary = @ + share[r]]]]

FromReserve(u, share) ==
  [u EXCEPT !.reserve = @ - Given(share),
            !.holds = [r \in Requests |-> [@[r] EXCEPT !.discretionary = @ + share[r],
                                                      !.reserve_backed = @ + share[r]]]]

DrawReserve(u, selected) ==
  FromReserve(u, Distribute(u, {k \in selected : Class(u.order[k]).emergency}, FALSE,
                            u.reserve))

ServeRank(selected, u, n) ==
  Discretionary(u, Distribute(u, {k \in selected : u.rank[u.order[k]] = n}, FALSE,
                              u.remaining))

(* Mutant of Serve: the weakest rank is served first. *)
ServeWeakestFirst(u, selected) ==
  FoldLeft(LAMBDA v, n : ServeRank(selected, v, n), u,
           SetToSortSeq({u.rank[r] : r \in ToSet(u.order)}, <))

Serve(u, selected) ==
  IF policy.scheduling = "StrictPriority"
  THEN FoldLeft(LAMBDA v, n : ServeRank(selected, v, n), u,
                SetToSortSeq({u.rank[r] : r \in ToSet(u.order)}, >))
  ELSE Discretionary(u, Distribute(u, selected, FALSE, u.remaining))

Pass(u, burst) ==
  LET selected == Selected(u, burst)
  IN  Serve(IF burst THEN u ELSE DrawReserve(u, selected), selected)

(* Phase G: the unused share of lendable obligations, to those that may    *)
(* borrow.                                                                 *)
Lendable(u, o) ==
  Less(Permille(obligations[o].amount, policy.borrow.max_lend), u.consumed[o])

BorrowPool(u) ==
  Least(Sum([o \in Obligations |-> Lendable(u, o)], Obligations), BorrowCeiling)

MayBorrow(r) ==
  /\ ask[r].borrowing /\ ask[r].revocable
  /\ Class(r).borrowing \/ Group(r).borrowing

Lent(u, share) ==
  [u EXCEPT !.holds = [r \in Requests |-> [@[r] EXCEPT !.borrowed = share[r]]]]

Borrow(u) ==
  IF policy.borrow.enabled
  THEN Lent(u, Distribute(u, {k \in Positions(u) : MayBorrow(u.order[k])}, TRUE,
                          BorrowPool(u)))
  ELSE u

(* Phase H: contingent capacity, to revocable requests. *)
Contingent(u, share) ==
  [u EXCEPT !.holds = [r \in Requests |-> [@[r] EXCEPT !.contingent = share[r]]]]

Oversubscribe(u) ==
  Contingent(u, Distribute(u, {k \in Positions(u) : ask[u.order[k]].revocable}, TRUE,
                           ContingentPool))

(* Mutant of Round: the surplus is shared out before the minima. *)
RoundSurplusFirst ==
  Oversubscribe(Borrow(FoldLeft(Guarantee, Pass(Pass(FirstRun, FALSE), TRUE), Order)))

(* Phases E to H *)
Round ==
  Oversubscribe(Borrow(Pass(Pass(FoldLeft(Guarantee, FirstRun, Order), FALSE), TRUE)))

(* Phase I *)
Assembled(u) ==
  LET sum(f(_)) == Sum([r \in Requests |-> f(u.holds[r])], Requests)
      consumed == sum(LAMBDA h : h.obligation_backed)
      lent == sum(LAMBDA h : h.borrowed)
      contingent == sum(LAMBDA h : h.contingent)
      books ==
        [known |-> Usable, effective_physical |-> supply.physical,
         obligations_reserved |-> Reserved,
         capacity_deficit |-> IF Usable THEN Less(Reserved, supply.physical) ELSE 0,
         allocatable |-> Allocatable,
         emergency_reserve |-> EmergencyReserve, emergency_reserve_unused |-> u.reserve,
         headroom |-> Headroom, arbitrable |-> Arbitrable,
         guaranteed_granted |-> sum(LAMBDA h : h.guaranteed - h.obligation_backed),
         discretionary_granted |-> sum(LAMBDA h : h.discretionary),
         borrowed_granted |-> lent, contingent_granted |-> contingent,
         obligations_consumed |-> consumed, obligations_lent |-> lent,
         obligations_idle |-> Less(Less(Reserved, consumed), lent),
         unallocated |-> u.remaining, contingent_pool |-> ContingentPool,
         contingent_unallocated |-> Less(ContingentPool, contingent),
         authorized_consumption |-> 0]
  IN  [books EXCEPT !.authorized_consumption = Authorized(books)]

-----------------------------------------------------------------------------
(* Phase J: what the round makes of a candidate's grant. *)

NextGrantId(gs) == 1 + Max({gs[r].id : r \in Requests})

(* A live grant whose request gets nothing ends. *)
Ended(g, r) ==
  [g EXCEPT !.generation = @ + 1,
            !.state = IF \/ StaleReservation(r)
                         \/ supply.evidence = "Stale" /\ ~Refused(r)
                      THEN "Stale" ELSE "Revoked"]

(* Mutant of SameGrant: the amounts are not compared. *)
SameGrantAnyAmount(g, h) ==
  /\ g.bound = published
  /\ (g.state = "GrantedGuaranteed") <=> ~HasRevocable(h)
  /\ g.state # "RecallPending"

(* A grant of the same amount under the same binding is kept as it is. *)
SameGrant(g, h) ==
  /\ g.bound = published /\ Total(g.holds) = Total(h)
  /\ (g.state = "GrantedGuaranteed") <=> ~HasRevocable(h)
  /\ g.state # "RecallPending"

(* Mutant of Updated: a smaller grant keeps its generation. *)
UpdatedInPlace(g, h) ==
  [g EXCEPT !.bound = published, !.holds = h, !.state = GrantedState(HasRevocable(h))]

(* Any other grant advances; a shrunken one may first be recalled. *)
Updated(g, h) ==
  [g EXCEPT !.generation = @ + 1, !.bound = published, !.holds = h,
            !.state = IF Total(h) < Total(g.holds) /\ policy.recall_grace > 0
                      THEN "RecallPending" ELSE GrantedState(HasRevocable(h))]

Issued(h, id) ==
  [id |-> id, state |-> GrantedState(HasRevocable(h)), generation |-> 1,
   bound |-> published, holds |-> h]

Decided(u, gs, r) ==
  LET g == gs[r]
      h == u.holds[r]
      new == {q \in requests : ~Live(gs[q]) /\ Held(u, q) > 0}
  IN  IF r \notin requests THEN g
      ELSE IF Live(g)
      THEN IF Total(h) = 0 THEN Ended(g, r)
           ELSE IF SameGrant(g, h) THEN g
           ELSE Updated(g, h)
      ELSE IF Total(h) > 0
      THEN Issued(h, NextGrantId(gs) + Cardinality({q \in new : q < r}))
      ELSE g

-----------------------------------------------------------------------------
(* The broker's methods that touch the books of the target. *)

Submit(r) ==
  /\ r \notin submitted
  /\ requests' = requests \cup {r}
  /\ submitted' = submitted \cup {r}
  /\ wait' = [wait EXCEPT ![r] = 0]
  /\ UNCHANGED <<policy, ask, supply, published, obligations, grants, accounting, run, rounds>>

RetireRequest(r) ==
  /\ r \in requests
  /\ requests' = requests \ {r}
  /\ wait' = [wait EXCEPT ![r] = 0]
  /\ UNCHANGED <<policy, ask, submitted, supply, published, obligations, grants, accounting,
                 run, rounds>>

UpsertObligation(o, amount, generation) ==
  /\ obligations[o].amount = 0 \/ generation >= obligations[o].generation
  /\ obligations' = [obligations EXCEPT ![o] = [amount |-> amount, generation |-> generation]]
  /\ UNCHANGED <<policy, ask, requests, submitted, supply, published, wait, grants, accounting,
                 run, rounds>>

RetireObligation(o) ==
  /\ obligations[o].amount > 0
  /\ obligations' = [obligations EXCEPT ![o].amount = 0]
  /\ UNCHANGED <<policy, ask, requests, submitted, supply, published, wait, grants, accounting,
                 run, rounds>>

(* A publication suspends every live grant and forgets the books. *)
PublishCapacity(s) ==
  /\ published < MaxPublished
  /\ published' = published + 1
  /\ supply' = s
  /\ grants' = [r \in Requests |-> IF IsLive(r)
                                    THEN [grants[r] EXCEPT !.state = "RevalidationRequired"]
                                    ELSE grants[r]]
  /\ accounting' = NoBooks
  /\ UNCHANGED <<policy, ask, requests, submitted, obligations, wait, run, rounds>>

(* A grant retired outside a round, with the books it was booked in. *)
Retire(g, state) == [g EXCEPT !.generation = @ + 1, !.state = state]

Unbook(books, g) == IF books = NoBooks THEN NoBooks ELSE Retired(books, g.holds)

InOrder(books) == books = NoBooks \/ Closes(books)

(* release withdraws the request too, unless the books do not close. *)
Release(r) ==
  /\ IsLive(r)
  /\ grants' = [grants EXCEPT ![r] = Retire(@, "Released")]
  /\ accounting' = Unbook(accounting, grants[r])
  /\ requests' = IF InOrder(accounting') THEN requests \ {r} ELSE requests
  /\ wait' = IF InOrder(accounting') THEN [wait EXCEPT ![r] = 0] ELSE wait
  /\ UNCHANGED <<policy, ask, submitted, supply, published, obligations, run, rounds>>

Revoke(r) ==
  /\ IsLive(r)
  /\ grants' = [grants EXCEPT ![r] = Retire(@, "Revoked")]
  /\ accounting' = Unbook(accounting, grants[r])
  /\ UNCHANGED <<policy, ask, requests, submitted, supply, published, obligations, wait, run,
                 rounds>>

(* revalidate reinstates a suspended grant for what it held, or ends it    *)
(* when its request is gone.                                               *)
Revalidate(r) ==
  /\ grants[r].state = "RevalidationRequired"
  /\ \/ /\ r \notin requests
        /\ grants' = [grants EXCEPT ![r] = Retire(@, "Stale")]
        /\ accounting' = Unbook(accounting, grants[r])
     \/ /\ r \in requests /\ Usable
        /\ grants' = [grants EXCEPT ![r] =
              [@ EXCEPT !.generation = @ + 1, !.bound = published,
                        !.state = GrantedState(HasRevocable(grants[r].holds))]]
        /\ UNCHANGED accounting
  /\ UNCHANGED <<policy, ask, requests, submitted, supply, published, obligations, wait, run,
                 rounds>>

(* arbitrate first revokes the live grants whose request is gone, in the   *)
(* order of their identities, and gives up if the books do not close.      *)
Orphans == SetToSortSeq({r \in Requests : IsLive(r) /\ r \notin requests},
                        LAMBDA a, b : grants[a].id < grants[b].id)

Sweep(s, r) ==
  LET books == Unbook(s.books, s.grants[r])
  IN  IF ~s.ok THEN s
      ELSE [grants |-> [s.grants EXCEPT ![r] = Retire(@, "Revoked")],
            books |-> books, ok |-> InOrder(books)]

Swept == FoldLeft(Sweep, [grants |-> grants, books |-> accounting, ok |-> TRUE], Orphans)

(* Rounds waited; the code only compares them with the threshold. *)
NextWait(u, r) ==
  IF r \notin requests \/ Held(u, r) >= ask[r].desired THEN 0
  ELSE Least(wait[r] + 1, policy.starvation.threshold)

CommitRound(gs, u, books) ==
  /\ run' = u
  /\ accounting' = books
  /\ grants' = [r \in Requests |-> Decided(u, gs, r)]
  /\ wait' = [r \in Requests |-> NextWait(u, r)]
  /\ IF <<run, accounting, grants, wait>>' = <<run, accounting, grants, wait>>
     THEN rounds' = rounds
     ELSE rounds < MaxRounds /\ rounds' = rounds + 1

(* A round whose books would not close fails; the revoked orphans stay so. *)
FailRound(s) ==
  /\ grants' = s.grants
  /\ accounting' = s.books
  /\ UNCHANGED <<run, wait, rounds>>

Conclude(s, u, books) ==
  IF s.ok /\ Closes(books) THEN CommitRound(s.grants, u, books) ELSE FailRound(s)

ArbitrateFrom(s, u) == Conclude(s, u, Assembled(u))

Arbitrate ==
  /\ ArbitrateFrom(Swept, Round)
  /\ UNCHANGED <<policy, ask, requests, submitted, supply, published, obligations>>

-----------------------------------------------------------------------------

Init ==
  /\ policy \in Policies
  /\ ask \in Asks
  /\ requests = {} /\ submitted = {}
  /\ supply = NoSupply("Unknown") /\ published = 0
  /\ obligations = [o \in Obligations |-> [amount |-> 0, generation |-> 1]]
  /\ wait = [r \in Requests |-> 0]
  /\ grants = [r \in Requests |-> NoGrant]
  /\ accounting = NoBooks /\ run = NoRun /\ rounds = 0

Next ==
  \/ \E r \in Requests :
       Submit(r) \/ RetireRequest(r) \/ Release(r) \/ Revoke(r) \/ Revalidate(r)
  \/ \E o \in Obligations : \/ \E n \in Amounts, k \in Generations : UpsertObligation(o, n, k)
                             \/ RetireObligation(o)
  \/ \E s \in Supplies : PublishCapacity(s)
  \/ Arbitrate

Spec == Init /\ [][Next]_vars

-----------------------------------------------------------------------------
(* Properties.  The order, ranks and pools of the last round are in run.   *)

(* Every variable holds a value of its type, and a live grant has amounts  *)
(* that validate_grant accepts.                                            *)
TypeOK ==
  /\ policy \in Policies /\ ask \in Asks
  /\ requests \subseteq submitted /\ submitted \subseteq Requests
  /\ published \in 0 .. MaxPublished /\ rounds \in 0 .. MaxRounds
  /\ wait \in [Requests -> 0 .. policy.starvation.threshold]
  /\ accounting = NoBooks \/ accounting \in Books
  /\ \A r \in Requests :
       LET g == grants[r]
       IN  /\ g.state \in {"None"} \cup LiveStates \cup Terminal
           /\ g.holds \in Allocation
           /\ Total(g.holds) <= ask[r].maximum /\ g.holds.guaranteed <= ask[r].minimum
           /\ g.holds.obligation_backed <= g.holds.guaranteed
           /\ g.holds.reserve_backed <= g.holds.guaranteed + g.holds.discretionary
           /\ g.state = "GrantedGuaranteed" => ~HasRevocable(g.holds)
           /\ g.state = "GrantedBorrowed" => HasRevocable(g.holds)

Booked == accounting # NoBooks /\ run # NoRun

(* While the books are kept, the grants that authorise consumption hold no *)
(* more than the effective physical capacity and the declared contingent   *)
(* pool, whatever was renewed, shrunk, released or revoked since           *)
(* (no_silent_oversubscription of validate, over the grants themselves).   *)
NoOversubscription ==
  LET authorised == {r \in Requests : grants[r].state \in Authorising}
  IN  Booked => Sum([r \in Requests |-> Total(grants[r].holds)], authorised)
                  <= accounting.effective_physical + accounting.contingent_pool

(* The grant of r records the funding that the last round gave it, and     *)
(* none of it is reserve capacity.                                         *)
Provenanced(r) == grants[r].holds = run.holds[r] /\ grants[r].holds.reserve_backed = 0

(* Out-of-round release, revocation and recall leave books that close      *)
(* again, as long as each retired grant recorded its funding               *)
(* (apply_grant_retirement, accounting.cpp).                               *)
RetirementRestores ==
  Booked /\ (\A r \in Requests : run.holds[r] # Nothing => Provenanced(r))
    => /\ Closes(accounting)
       /\ accounting.authorized_consumption
            = Sum([r \in Requests |-> Total(grants[r].holds)],
                  {r \in Requests : IsLive(r)})

FromPool(h) == h.guaranteed + h.discretionary - h.obligation_backed - h.reserve_backed
OrderedBefore(a, b) == \E i, j \in DOMAIN run.order : i < j /\ run.order[i] = a /\ run.order[j] = b

(* Guaranteed minima come first: when a request that is not paid by an     *)
(* obligation misses its minimum, nobody holds discretionary pool capacity *)
(* and nobody after it in the order holds any pool capacity at all         *)
(* (phases E and F of arbitrate).                                          *)
MinimaFirst ==
  run # NoRun =>
    \A r \in ToSet(run.order) :
      ~Bound(r) /\ run.holds[r].guaranteed < ask[r].minimum =>
        \A q \in ToSet(run.order) :
          /\ OrderedBefore(r, q) => FromPool(run.holds[q]) = 0
          /\ run.holds[q].discretionary <= run.holds[q].reserve_backed

(* Under strict priority a request short of what it desires leaves no      *)
(* discretionary pool capacity to a weaker rank, unless its class may not  *)
(* have any or its group's cap stops it (ServeRank, phase F1).             *)
StrictPriority ==
  run # NoRun /\ policy.scheduling = "StrictPriority" =>
    \A r, q \in ToSet(run.order) :
      /\ run.rank[r] > run.rank[q]
      /\ Held(run, r) + policy.quantum <= Ceiling(r)
      /\ Class(r).discretionary /\ ~Capped(ask[r].group)
      => run.holds[q].discretionary <= run.holds[q].reserve_backed

(* No round leaves a whole quantum of the pool unallocated while a request *)
(* that could use it is short of its ceiling (both passes of phase F).     *)
WorkConserving ==
  run # NoRun =>
    \A r \in ToSet(run.order) :
      Held(run, r) + policy.quantum <= Ceiling(r) /\ ~Capped(ask[r].group)
        => run.remaining < policy.quantum

(* A live grant never changes what it holds without a new generation, so a *)
(* superseded amount cannot be presented again (README 3.8, Updated).      *)
NeverShrunkInPlace ==
  [][\A r \in Requests :
       IsLive(r) /\ grants'[r].id = grants[r].id /\ grants'[r].holds # grants[r].holds
         => grants'[r].generation > grants[r].generation]_vars


-----------------------------------------------------------------------------
(* What the documentation says and the code does not do. *)

(* The books close after every round, release and revocation (README,      *)
(* accounting identity; apply_grant_retirement).                           *)
BooksAlwaysClose == InOrder(accounting)

(* Pool capacity that remains goes toward each request's maximum (README   *)
(* 3.6; the burst pass of phase F).                                        *)
BurstTowardMaximum ==
  run # NoRun =>
    \A r \in ToSet(run.order) :
      Held(run, r) + policy.quantum <= ask[r].maximum => run.remaining < policy.quantum

(* Only a class with allow_discretionary holds pool capacity above its     *)
(* minimum (PriorityClass; the burst pass of phase F).                     *)
DiscretionaryOnlyIfAllowed ==
  run # NoRun =>
    \A r \in ToSet(run.order) : run.holds[r].discretionary > 0 => Class(r).discretionary

(* A fairness group holds no more than its cap (FairnessGroupConfig;       *)
(* distribute).                                                            *)
GroupCapHolds ==
  run # NoRun =>
    \A k \in DOMAIN policy.groups :
      Capped(k) => Sum([r \in Requests |-> Held(run, r)], InGroup(run, k))
                     <= policy.groups[k].cap

(* The policy's absolute headroom floor is withheld, as far as there is    *)
(* capacity to withhold (Policy::headroom_target; phase C).                *)
HeadroomFloor ==
  Booked /\ accounting.known =>
    accounting.headroom >= Least(policy.headroom_target,
                                 Less(accounting.allocatable, accounting.emergency_reserve))

(* Authoritative grants never exceed the published capacity and the        *)
(* declared contingent pool, books or no books (README, "No silent         *)
(* oversubscription"; revalidate).                                         *)
NeverOversubscribed ==
  Usable => Sum([r \in Requests |-> Total(grants[r].holds)],
                {r \in Requests : grants[r].state \in Authorising})
              <= supply.physical + ContingentPool
=============================================================================
