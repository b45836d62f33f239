------------------------- MODULE CoordinatorProofs --------------------------
(* The theorems about the coordinator. *)
EXTENDS CoordinatorAuthority, CoordinatorBookSteps

LEMMA AuthNext ==
  ASSUME TInv, PlanInv, BookInv, AuthInv, Stored, [Next]_vars
  PROVE  AuthInv'
<1>0. TypeOK /\ grants \in GrantMap /\ disk \in DiskType /\ op \in Ops
  BY TypeParts DEF TInv
<1>1. ASSUME NEW t \in Target, NEW n \in 1 .. MaxCapacityGeneration,
             NEW e \in Published, PublishCapacity(t, n, e)
      PROVE  AuthInv'
  <2> DEFINE c == [generation |-> n, evidence |-> e, epoch |-> epoch]
  <2>1. capacity' = [capacity EXCEPT ![t] = c] /\ UNCHANGED <<epoch, op>>
        /\ op.kind = "idle"
    BY <1>1 DEF PublishCapacity, Free
  <2>2. \A s \in Target : capacity'[s].evidence = "Known" => Current(s)'
    BY <1>0, <2>1 DEF TypeOK, AuthInv, Current
  <2>3. ASSUME NEW g \in GrantId PROVE Justified(grants[g])'
    <3>1. grants'[g] = IF grants[g] # NoGrant /\ grants[g].target = t
                       THEN Demoted(grants[g]) ELSE grants[g]
      BY <1>1 DEF PublishCapacity
    <3>2. CASE grants[g] # NoGrant /\ grants[g].target = t
      BY <1>0, <3>1, <3>2, DemotedJustified DEF Justified, GrantMap
    <3>3. CASE grants[g] = NoGrant
      BY <3>1, <3>3 DEF Justified
    <3>4. CASE grants[g] # NoGrant /\ grants[g].target # t
      <4>1. grants'[g] = grants[g] /\ grants[g].target \in Target
        BY <1>0, <3>1, <3>4 DEF GrantMap, Grant
      <4>2. capacity'[grants[g].target] = capacity[grants[g].target]
        BY <1>0, <2>1, <3>4, <4>1 DEF TypeOK
      <4>3. QED
        BY <2>1, <4>1, <4>2 DEF AuthInv, Justified, Usable, Current
    <3>5. QED
      BY <3>2, <3>3, <3>4
  <2>4. QED
    BY <2>1, <2>2, <2>3 DEF AuthInv
<1>2. ASSUME NEW gs \in GrantMap, grants' = Demote(gs), op'.kind # "round",
             NEW cs \in [Target -> Capacity], capacity' = StaleCapacity(cs),
             \A t \in Target : cs[t].generation = 0 => cs[t].evidence # "Known"
      PROVE  AuthInv'
  <2>1. \A g \in GrantId : Justified(grants[g])'
    BY <1>2, DemotedJustified DEF Demote, Justified, GrantMap
  <2>2. \A t \in Target : capacity'[t].evidence # "Known"
    BY <1>2 DEF StaleCapacity, Capacity
  <2>3. QED
    BY <1>2, <2>1, <2>2 DEF AuthInv
<1>3. \A g \in GrantId, to \in Terminal : grants[g] # NoGrant =>
        Retired(grants[g], to) \in Grant /\ Justified(Retired(grants[g], to))
  BY <1>0, RetiredJustified DEF GrantMap
<1>4. \A g \in GrantId, w \in Outcome : RevokeOrphan(g, w) => AuthInv'
  <2> SUFFICES ASSUME NEW g \in GrantId, NEW w \in Outcome, RevokeOrphan(g, w)
               PROVE  AuthInv'
    OBVIOUS
  <2>1. op \in OrphansOp /\ grants[g] # NoGrant
    BY <1>0, OpKinds DEF RevokeOrphan, First, TInv, OpOK, Live
  <2>2. op'.kind # "round"
    BY <2>1 DEF RevokeOrphan, OrphansOp, Idle
  <2>3. QED
    BY <1>3, <2>1, <2>2, AuthPut DEF RevokeOrphan, Terminal
<1>5. \A g \in GrantId, w \in Outcome : FenceGrant(g, w) => AuthInv'
  <2> SUFFICES ASSUME NEW g \in GrantId, NEW w \in Outcome, FenceGrant(g, w)
               PROVE  AuthInv'
    OBVIOUS
  <2>1. op \in FenceOp /\ grants[g] # NoGrant
    BY <1>0, OpKinds DEF FenceGrant, First, TInv, OpOK, Live
  <2>2. op'.kind # "round"
    BY <2>1 DEF FenceGrant, FenceOp, Idle
  <2>3. QED
    BY <1>3, <2>1, <2>2, AuthPut DEF FenceGrant, Terminal
<1>6. \A g \in GrantId, w \in Outcome : Release(g, w) \/ Revoke(g, w) => AuthInv'
  <2> SUFFICES ASSUME NEW g \in GrantId, NEW w \in Outcome,
                      Release(g, w) \/ Revoke(g, w)
               PROVE  AuthInv'
    OBVIOUS
  <2>1. grants[g] # NoGrant /\ op'.kind # "round"
    BY DEF Release, Revoke, Live, Idle, Free
  <2>2. QED
    BY <1>3, <2>1, AuthPut DEF Release, Revoke, Terminal
<1>7. \A g \in GrantId, w \in Outcome : Revalidate(g, w) => AuthInv'
  <2> SUFFICES ASSUME NEW g \in GrantId, NEW w \in Outcome, Revalidate(g, w)
               PROVE  AuthInv'
    OBVIOUS
  <2> DEFINE q == requests[grants[g].key]
             r == [key |-> grants[g].key, target |-> grants[g].target,
                   generation |-> grants[g].generation + 1,
                   state |-> GrantedState(grants[g].revocable),
                   revocable |-> grants[g].revocable,
                   authority |->
                     [boot |-> q.boot, epoch |-> epoch,
                      policy |-> policy.generation,
                      capacity |-> capacity[grants[g].target].generation]]
  <2>1. grants[g] \in Grant /\ UNCHANGED <<epoch, capacity, op>>
        /\ op.kind = "idle"
    BY <1>0 DEF Revalidate, GrantMap, Free
  <2>2. GrantedState(grants[g].revocable) \in LiveStates \cup Terminal
    BY DEF GrantedState, LiveStates
  <2>3. ASSUME q # NoRequest PROVE r \in Grant
    BY <1>0, <2>1, <2>2, <2>3
       DEF Grant, Authority, TypeOK, Policy, Capacity, Request
  <2>4. \/ PutGrant(g, Retired(grants[g], "Stale"), w)
        \/ /\ q # NoRequest /\ PutGrant(g, r, w)
           /\ capacity[grants[g].target].evidence = "Known"
    BY DEF Revalidate
  <2>5. CASE PutGrant(g, Retired(grants[g], "Stale"), w)
    BY <1>3, <2>1, <2>5, ConstantsAssumption, AuthPut, Zenon DEF Terminal
  <2>6. CASE /\ q # NoRequest /\ PutGrant(g, r, w)
             /\ capacity[grants[g].target].evidence = "Known"
    <3>1. Usable(grants[g].target)
      BY <2>1, <2>6, Zenon DEF Grant, AuthInv, Usable
    <3>2. Justified(r)
      BY <3>1 DEF Justified
    <3>3. QED
      BY <2>1, <2>3, <2>6, <3>2, AuthPut, Zenon
  <2>7. QED
    BY <2>4, <2>5, <2>6, Zenon
<1>8. AdvanceEpoch => AuthInv'
  BY <1>0, <1>2 DEF AdvanceEpoch, AuthInv, Current, TypeOK, Free
<1>9. \A n : Restart(n) => AuthInv'
  BY <1>0, <1>2
     DEF Restart, Reload, AboveRecovered, Idle, Stored, DiskType, GrantMap
<1>10. RefuseRound => AuthInv'
  BY AuthRoundCapacity DEF RefuseRound, Idle
<1>11. \A ids, n : PlanRound(ids, n) => AuthInv'
  BY AuthRoundCapacity DEF PlanRound
<1>12. \A k \in Key : DecideNothing(k) => AuthInv'
  <2> SUFFICES ASSUME NEW k \in Key, DecideNothing(k)
               PROVE  AuthInv'
    OBVIOUS
  <2>1. op \in RoundOp
    BY <1>0, OpKinds DEF DecideNothing, Deciding
  <2>2. QED
    BY <2>1, AuthSame DEF DecideNothing, Deciding, RoundOp
<1>13. /\ \A p : SetPolicy(p) => AuthInv'
       /\ \A k, c : Submit(k, c) => AuthInv'
       /\ \A w : FinishSubmit(w) => AuthInv'
       /\ \A k, w : RetireRequest(k, w) => AuthInv'
       /\ \A t : Arbitrate(t) => AuthInv'
       /\ \A compact : CommitRound(compact) => AuthInv'
       /\ \A w : FinishRelease(w) => AuthInv'
       /\ \A g : ReleaseAgain(g) => AuthInv'
       /\ \A b : FencePublisher(b) => AuthInv'
       /\ UnsyncedStep => AuthInv'
  BY <1>0, AuthSame, UnsyncedEffect
     DEF SetPolicy, Submit, FinishSubmit, RetireRequest, Arbitrate, CommitRound,
         FinishRelease, ReleaseAgain, FencePublisher, Idle, Free
<1>14. UNCHANGED vars => AuthInv'
  BY DEF vars, AuthInv, Justified, Usable, Current
<1>15. CASE Next
  BY <1>1, <1>4, <1>5, <1>6, <1>7, <1>8, <1>9, <1>10,
     <1>11, <1>12, <1>13, <1>14, <1>15, AuthRound, Zenon DEF Next, Query, UnsyncedStep
<1>16. QED
  BY <1>14, <1>15

(* The inductive invariant of the coordinator under every failure. *)
IInv == TInv /\ PlanInv /\ BookInv /\ AuthInv /\ Stored

LEMMA IInvariant == Spec => []IInv
<1>1. Init => IInv
  <2>1. Init => PlanInv /\ Stored
    BY DEF Init, PlanInv, Stored, Idle
  <2>2. QED
    BY <2>1, TypeInit, BookInit, AuthInit DEF IInv
<1>2. IInv /\ [Next]_vars => IInv'
  BY TypeNext, PlanNext, BookNext, AuthNext, StoredNext DEF IInv
<1>3. QED
  BY <1>1, <1>2, PTL DEF Spec

(* Authority is always current: an authorising grant is bound to the       *)
(* current epoch and to the installed, Known capacity of its target, under *)
(* every failed append and every crash (arbitrate, revalidate,             *)
(* publish_capacity, advance_epoch, open).                                 *)
THEOREM AuthorityTheorem == Spec => []AuthorityIsCurrent
<1>1. IInv => AuthorityIsCurrent
  BY DEF IInv, AuthInv, Justified, AuthorityIsCurrent, Authorises
<1>2. QED
  BY <1>1, IInvariant, PTL

(* An acknowledged submission is never lost or replaced, under every       *)
(* failed append and every crash (submit, open).                           *)
THEOREM SubmissionTheorem == Spec => []SubmissionIsDurable
<1>1. IInv => SubmissionIsDurable
  BY DEF IInv, BookInv, Submitted, SubmissionIsDurable
<1>2. QED
  BY <1>1, IInvariant, PTL
=============================================================================
