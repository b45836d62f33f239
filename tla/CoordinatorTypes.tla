-------------------------- MODULE CoordinatorTypes --------------------------
(* The types of the coordinator, proved for every value of its constants. *)
EXTENDS Coordinator, TLAPS

(* The grant types and the durable record, named once. *)
Ops == {Idle} \cup FenceOp \cup OrphansOp \cup RoundOp \cup SubmitOp \cup ReleaseOp

GrantMap == [GrantId -> Grant \cup {NoGrant}]

(* Demotion keeps a grant a grant, and touches nothing but its state. *)
LEMMA DemotedType ==
  ASSUME NEW r \in Grant \cup {NoGrant}
  PROVE  Demoted(r) \in Grant \cup {NoGrant}
BY ConstantsAssumption DEF Demoted, Grant, LiveStates

LEMMA DemoteType ==
  ASSUME NEW gs \in GrantMap
  PROVE  Demote(gs) \in GrantMap
BY DemotedType DEF Demote, GrantMap

(* Retiring a grant yields a grant: only generation and state change. *)
LEMMA RetiredType ==
  ASSUME NEW r \in Grant, NEW to \in Terminal
  PROVE  /\ Retired(r, to) \in Grant
         /\ Retired(r, to).key = r.key
         /\ Retired(r, to).target = r.target
         /\ Retired(r, to).authority = r.authority
         /\ Retired(r, to).generation = r.generation + 1
         /\ Retired(r, to).state = to
<1> DEFINE q == [r EXCEPT !.generation = @ + 1]
<1>1. q \in Grant
  BY DEF Grant
<1>2. [q EXCEPT !.state = to] \in Grant
  BY <1>1, Zenon DEF Grant
<1>3. Retired(r, to) = [q EXCEPT !.state = to]
  BY DEF Retired
<1>4. QED
  BY <1>2, <1>3 DEF Grant, Retired

LEMMA StaleCapacityType ==
  ASSUME NEW cs \in [Target -> Capacity]
  PROVE  StaleCapacity(cs) \in [Target -> Capacity]
BY DEF StaleCapacity, Capacity, Evidence

(* The durable image that recovery rebuilds. *)
DiskType ==
  [epoch: Nat, incarnation: Nat, policy: Policy,
   capacity: [Target -> Capacity],
   requests: [Key -> Request \cup {NoRequest}],
   idempotency: [Key -> Request \cup {NoRequest}],
   grants: [GrantId -> Grant \cup {NoGrant}],
   fences: SUBSET Boot]

LEMMA PutGrantType ==
  ASSUME TypeOK, NEW g \in GrantId, NEW r \in Grant, NEW w, PutGrant(g, r, w)
  PROVE  /\ grants' \in GrantMap
         /\ disk' \in DiskType
         /\ faults' \in Nat
BY DEF TypeOK, PutGrant, Charge, GrantMap, DiskType

LEMMA EraseRequestType ==
  ASSUME TypeOK, NEW k \in Key, NEW w, EraseRequest(k, w)
  PROVE  /\ requests' \in [Key -> Request \cup {NoRequest}]
         /\ disk' \in DiskType
         /\ faults' \in Nat
BY DEF TypeOK, EraseRequest, Charge, DiskType

(* What the parts of TypeOK say, under shorter names. *)
LEMMA TypeParts ==
  ASSUME TypeOK
  PROVE  grants \in GrantMap /\ disk \in DiskType /\ op \in Ops
BY DEF TypeOK, GrantMap, DiskType, Ops

(* A method in the middle of a loop has the operands of its kind. *)
LEMMA OpKinds ==
  ASSUME op \in Ops
  PROVE  /\ op.kind = "fence" => op \in FenceOp
         /\ op.kind = "orphans" => op \in OrphansOp
         /\ op.kind = "round" => op \in RoundOp
         /\ op.kind = "submit" => op \in SubmitOp
         /\ op.kind = "release" => op \in ReleaseOp
BY DEF Ops, Idle, FenceOp, OrphansOp, RoundOp, SubmitOp, ReleaseOp

(* What a method in progress relies on: the grants it has left to withdraw *)
(* are live, and the requests it has left to decide exist.                 *)
OpOK ==
  /\ op.kind \in {"fence", "orphans"} => \A g \in op.todo : Live(grants, g)
  /\ op.kind = "round" => \A k \in op.todo :
       requests[k] # NoRequest /\ requests[k].target = op.target
  /\ op.kind = "release" => grants[op.grant] # NoGrant

TInv == TypeOK /\ OpOK

LEMMA LiveIsGrant ==
  ASSUME NEW gs \in GrantMap, NEW g \in GrantId, Live(gs, g)
  PROVE  gs[g] \in Grant
BY DEF Live, GrantMap

LEMMA BoundType ==
  ASSUME TypeOK, NEW r \in Request
  PROVE  Bound(r) \in Authority
BY DEF TypeOK, Bound, Authority, Request, Capacity

(* Every decision of a round that writes a grant. *)
LEMMA ApplyType ==
  ASSUME TInv, NEW k \in Key, NEW g \in GrantId, NEW r \in Grant, NEW w,
         op.kind = "round", Apply(k, g, r, w)
  PROVE  TInv'
<1>1. op \in RoundOp
  BY TypeParts, OpKinds DEF TInv
<1>2. op' \in Ops
  BY <1>1 DEF Apply, Ops, RoundOp
<1>3. /\ grants' \in GrantMap /\ disk' \in DiskType /\ faults' \in Nat
  BY PutGrantType DEF Apply, TInv
<1>4. OpOK'
  BY <1>1 DEF Apply, TInv, OpOK, RoundOp, Idle
<1>5. QED
  BY <1>2, <1>3, <1>4 DEF TInv, TypeOK, Apply, Ops, GrantMap, DiskType

LEMMA TypeInit == Init => TInv
BY ConstantsAssumption
   DEF Init, TInv, TypeOK, OpOK, Policy, Capacity, Evidence, GrantId, Idle, Key

(* Steps that start or finish a method without writing a grant. *)
PlainStep ==
  \/ \E n \in 1 .. MaxPolicyGeneration, grace \in Graces :
       SetPolicy([generation |-> n, grace |-> grace])
  \/ \E k \in Key, t \in Target, b \in Boot,
        n \in 1 .. MaxPolicyGeneration :
       Submit(k, [target |-> t, boot |-> b, epoch |-> epoch, policy |-> n])
  \/ \E w \in {"ok", "append"} : FinishSubmit(w)
  \/ \E k \in Key, w \in Outcome : RetireRequest(k, w)
  \/ \E t \in Target : Arbitrate(t)
  \/ RefuseRound
  \/ \E ids \in [Key -> 0 .. MaxGrants], n \in 1 .. MaxGrants + 1 :
       PlanRound(ids, n)
  \/ \E k \in Key : DecideNothing(k)
  \/ \E compact \in BOOLEAN : CommitRound(compact)
  \/ \E w \in Outcome : FinishRelease(w)
  \/ \E g \in GrantId : ReleaseAgain(g)
  \/ \E b \in Boot : FencePublisher(b)
  \/ Query

LEMMA TypePlain ==
  ASSUME TInv, PlainStep
  PROVE  TInv'
<1>0. TypeOK /\ grants \in GrantMap /\ disk \in DiskType /\ op \in Ops
  BY TypeParts DEF TInv
<1>1. ASSUME NEW n \in 1 .. MaxPolicyGeneration, NEW grace \in Graces,
             SetPolicy([generation |-> n, grace |-> grace])
      PROVE  TInv'
  BY <1>1, ConstantsAssumption DEF SetPolicy, TInv, TypeOK, OpOK, Policy, Live
<1>3. ASSUME NEW k \in Key, NEW t \in Target, NEW b \in Boot,
             NEW n \in 1 .. MaxPolicyGeneration,
             Submit(k, [target |-> t, boot |-> b, epoch |-> epoch, policy |-> n])
      PROVE  TInv'
  <2> DEFINE c == [target |-> t, boot |-> b, epoch |-> epoch, policy |-> n]
  <2>1. c \in Request
    BY DEF TypeOK, TInv, Request
  <2>2. disk' \in DiskType /\ op' \in Ops /\ OpOK'
    BY <1>0, <1>3, <2>1, Zenon DEF Submit, DiskType, Ops, SubmitOp, OpOK
  <2>3. QED
    BY <1>3, <2>2, Zenon DEF Submit, TInv, TypeOK, DiskType, Ops
<1>4. ASSUME NEW w \in {"ok", "append"}, FinishSubmit(w)
      PROVE  TInv'
  <2>1. op.key \in Key /\ op.content \in Request
    BY <1>0, <1>4, OpKinds DEF FinishSubmit, SubmitOp
  <2>2. disk' \in DiskType /\ faults' \in Nat
    BY <1>0, <1>4, <2>1 DEF FinishSubmit, DiskType, Charge, TypeOK
  <2>3. QED
    BY <1>4, <2>1, <2>2 DEF FinishSubmit, TInv, TypeOK, OpOK, Idle, DiskType
<1>5. ASSUME NEW k \in Key, NEW w \in Outcome, RetireRequest(k, w)
      PROVE  TInv'
  BY <1>0, <1>5, EraseRequestType, Zenon
     DEF RetireRequest, TInv, TypeOK, OpOK, Free, DiskType
<1>6. ASSUME NEW t \in Target, Arbitrate(t)
      PROVE  TInv'
  <2>1. op' \in Ops /\ OpOK'
    BY <1>6 DEF Arbitrate, Ops, OrphansOp, OpOK, Live
  <2>2. QED
    BY <1>6, <2>1, Zenon DEF Arbitrate, TInv, TypeOK, Ops
<1>7. ASSUME op.kind = "orphans"
      PROVE  RoundCapacity(op.target) \in [Target -> Capacity]
  <2>1. op.target \in Target
    BY <1>0, <1>7, OpKinds DEF OrphansOp
  <2>2. QED
    BY <1>0, <2>1 DEF TypeOK, RoundCapacity, Capacity, Evidence
<1>8. ASSUME RefuseRound
      PROVE  TInv'
  BY <1>0, <1>7, <1>8 DEF RefuseRound, TInv, TypeOK, OpOK, Idle
<1>9. ASSUME NEW ids \in [Key -> 0 .. MaxGrants], NEW n \in 1 .. MaxGrants + 1,
             PlanRound(ids, n)
      PROVE  TInv'
  <2>1. op.target \in Target
    BY <1>0, <1>9, OpKinds DEF PlanRound, OrphansOp
  <2>2. op' \in RoundOp
    BY <1>0, <1>9, <2>1, ConstantsAssumption, Zenon
       DEF PlanRound, RoundOp, GrantMap
  <2>3. OpOK'
    BY <1>9 DEF PlanRound, OpOK
  <2>4. QED
    BY <1>7, <1>9, <2>2, <2>3, Zenon DEF PlanRound, TInv, TypeOK
<1>10. ASSUME NEW k \in Key, DecideNothing(k)
       PROVE  TInv'
  <2>1. op \in RoundOp
    BY <1>0, <1>10, OpKinds DEF DecideNothing, Deciding
  <2>2. op' \in RoundOp /\ OpOK'
    BY <1>10, <2>1 DEF DecideNothing, RoundOp, OpOK, TInv
  <2>3. QED
    BY <1>10, <2>2 DEF DecideNothing, TInv, TypeOK
<1>11. ASSUME NEW compact \in BOOLEAN, CommitRound(compact)
       PROVE  TInv'
  <2>1. op \in RoundOp
    BY <1>0, <1>11, OpKinds DEF CommitRound
  <2>2. Image \in DiskType
    BY <1>0 DEF Image, DiskType, TypeOK
  <2>3. disk' \in DiskType
    BY <1>0, <1>11, <2>2 DEF CommitRound
  <2>4. QED
    BY <1>11, <2>1, <2>3
       DEF CommitRound, TInv, TypeOK, OpOK, Idle, RoundOp, DiskType
<1>12. ASSUME NEW w \in Outcome, FinishRelease(w)
       PROVE  TInv'
  <2>1. op.grant \in GrantId
    BY <1>0, <1>12, OpKinds, Zenon DEF FinishRelease, ReleaseOp
  <2>2. grants[op.grant].key \in Key
    BY <1>0, <1>12, <2>1 DEF FinishRelease, TInv, OpOK, GrantMap, Grant
  <2>3. QED
    BY <1>0, <1>12, <2>1, <2>2, EraseRequestType, Zenon
       DEF FinishRelease, TInv, TypeOK, OpOK, Idle, DiskType
<1>13. ASSUME NEW g \in GrantId, ReleaseAgain(g)
       PROVE  TInv'
  BY <1>13 DEF ReleaseAgain, TInv, TypeOK, OpOK, Live
<1>14. ASSUME NEW b \in Boot, FencePublisher(b)
       PROVE  TInv'
  <2>1. op' \in Ops /\ OpOK'
    BY <1>14 DEF FencePublisher, Ops, FenceOp, Idle, OpOK, Live
  <2>2. disk' \in DiskType
    BY <1>0, <1>14 DEF FencePublisher, DiskType
  <2>3. QED
    BY <1>14, <2>1, <2>2, Zenon DEF FencePublisher, TInv, TypeOK, Ops, DiskType
<1>15. ASSUME Query
       PROVE  TInv'
  BY <1>15 DEF Query, vars, TInv, TypeOK, OpOK, Live
<1>16. QED
  BY <1>1, <1>3, <1>4, <1>5, <1>6, <1>8, <1>9, <1>10, <1>11, <1>12, <1>13,
     <1>14, <1>15, Zenon DEF PlainStep

(* Steps that change nothing but the store, and return an error. *)
UnsyncedStep ==
  \/ \E n \in 1 .. MaxPolicyGeneration, grace \in Graces :
       UnsyncedPolicy([generation |-> n, grace |-> grace])
  \/ \E t \in Target, n \in 1 .. MaxCapacityGeneration, e \in Published :
       UnsyncedCapacity(t, n, e)
  \/ UnsyncedSubmit
  \/ \E b \in Boot : UnsyncedFence(b)
  \/ UnsyncedEpoch

(* What such a step can leave in the store. *)
LEMMA UnsyncedEffect ==
  ASSUME TypeOK, UnsyncedStep
  PROVE  /\ Charge("late") /\ op' = Idle
         /\ UNCHANGED <<epoch, incarnation, policy, capacity, requests,
                        idempotency, grants, fences, nextGrantId, accepted,
                        released>>
         /\ disk' \in DiskType
         /\ disk'.requests = disk.requests /\ disk'.grants = disk.grants
         /\ disk'.epoch \in {disk.epoch, epoch + 1}
         /\ disk'.capacity = disk.capacity \/
              \E t \in Target, n \in 1 .. MaxCapacityGeneration, e \in Evidence :
                disk'.capacity = [disk.capacity EXCEPT ![t] =
                  [generation |-> n, evidence |-> e, epoch |-> epoch]]
         /\ disk'.idempotency = disk.idempotency \/
              (op.kind = "submit" /\ disk'.idempotency =
                 [disk.idempotency EXCEPT ![op.key] = op.content])
<1>0. disk \in DiskType /\ op \in Ops
  BY TypeParts
<1>1. CASE \E n \in 1 .. MaxPolicyGeneration, grace \in Graces :
             UnsyncedPolicy([generation |-> n, grace |-> grace])
  BY <1>0, <1>1, ConstantsAssumption
     DEF UnsyncedPolicy, Unsynced, DiskType, Policy
<1>2. CASE \E t \in Target, n \in 1 .. MaxCapacityGeneration, e \in Published :
             UnsyncedCapacity(t, n, e)
  <2> PICK t \in Target, n \in 1 .. MaxCapacityGeneration, e \in Published :
             UnsyncedCapacity(t, n, e)
    BY <1>2
  <2> DEFINE c == [generation |-> n, evidence |-> e, epoch |-> epoch]
  <2>1. c \in Capacity /\ e \in Evidence
    BY ConstantsAssumption DEF TypeOK, Capacity
  <2>2. /\ disk' = [disk EXCEPT !.capacity[t] = c]
        /\ disk'.capacity = [disk.capacity EXCEPT ![t] = c]
    BY <1>0 DEF UnsyncedCapacity, Unsynced, DiskType
  <2>3. disk' \in DiskType
    BY <1>0, <2>1, <2>2, Zenon DEF DiskType
  <2>4. /\ disk'.requests = disk.requests /\ disk'.grants = disk.grants
        /\ disk'.epoch = disk.epoch /\ disk'.idempotency = disk.idempotency
    BY <1>0, <2>2 DEF DiskType
  <2>5. /\ Charge("late") /\ op' = Idle
        /\ UNCHANGED <<epoch, incarnation, policy, capacity, requests, idempotency,
                       grants, fences, nextGrantId, accepted, released>>
    BY DEF UnsyncedCapacity, Unsynced
  <2>6. QED
    BY <2>1, <2>2, <2>3, <2>4, <2>5
<1>3. CASE UnsyncedSubmit
  <2>1. op.key \in Key /\ op.content \in Request
    BY <1>0, <1>3, OpKinds DEF UnsyncedSubmit, SubmitOp
  <2>2. QED
    BY <1>0, <1>3, <2>1, Zenon DEF UnsyncedSubmit, Unsynced, DiskType
<1>4. CASE \E b \in Boot : UnsyncedFence(b)
  BY <1>0, <1>4 DEF UnsyncedFence, Unsynced, DiskType
<1>5. CASE UnsyncedEpoch
  BY <1>0, <1>5 DEF UnsyncedEpoch, Unsynced, DiskType, TypeOK
<1>6. QED
  BY <1>1, <1>2, <1>3, <1>4, <1>5, Zenon DEF UnsyncedStep

LEMMA TypeUnsynced ==
  ASSUME TInv, UnsyncedStep
  PROVE  TInv'
<1>1. TypeOK
  BY DEF TInv
<1>2. faults' \in Nat /\ op' = Idle /\ disk' \in DiskType
  BY <1>1, UnsyncedEffect DEF Charge, TypeOK
<1>3. UNCHANGED <<epoch, incarnation, policy, capacity, requests, idempotency,
                  grants, fences, nextGrantId, accepted, released>>
  BY <1>1, UnsyncedEffect
<1>4. QED
  BY <1>1, <1>2, <1>3 DEF TInv, TypeOK, OpOK, Idle, DiskType

(* Steps that write grants. *)
GrantStep ==
  \/ \E t \in Target, n \in 1 .. MaxCapacityGeneration, e \in Published :
       PublishCapacity(t, n, e)
  \/ \E g \in GrantId, w \in Outcome : RevokeOrphan(g, w)
  \/ \E k \in Key, revocable \in BOOLEAN, w \in Outcome :
       DecideIssue(k, revocable, w)
  \/ \E k \in Key, g \in GrantId, to \in Terminal, w \in Outcome :
       DecideWithdraw(k, g, to, w)
  \/ \E k \in Key, g \in GrantId, w \in Outcome : DecideRenew(k, g, w)
  \/ \E k \in Key, g \in GrantId, revocable, shrinking \in BOOLEAN,
        w \in Outcome : DecideUpdate(k, g, revocable, shrinking, w)
  \/ \E g \in GrantId, w \in Outcome : Release(g, w)
  \/ \E g \in GrantId, w \in Outcome : Revoke(g, w)
  \/ \E g \in GrantId, w \in Outcome : Revalidate(g, w)
  \/ \E g \in GrantId, w \in Outcome : FenceGrant(g, w)
  \/ \E n \in 1 .. MaxGrants + 1 : Restart(n)
  \/ AdvanceEpoch

LEMMA TypeGrants ==
  ASSUME TInv, GrantStep
  PROVE  TInv'
<1>0. TypeOK /\ grants \in GrantMap /\ disk \in DiskType /\ op \in Ops
  BY TypeParts DEF TInv
<1>1. \A r \in Terminal : \A g \in GrantId :
        Live(grants, g) => Retired(grants[g], r) \in Grant
  BY <1>0, LiveIsGrant, RetiredType
<1>2. \A revocable \in BOOLEAN :
        GrantedState(revocable) \in LiveStates \cup Terminal
  BY DEF GrantedState, LiveStates
<1>3. ASSUME NEW t \in Target, NEW n \in 1 .. MaxCapacityGeneration,
             NEW e \in Published, PublishCapacity(t, n, e)
      PROVE  TInv'
  <2> DEFINE c == [generation |-> n, evidence |-> e, epoch |-> epoch]
  <2>1. c \in Capacity
    BY <1>0, ConstantsAssumption DEF TypeOK, Capacity
  <2>2. grants' \in GrantMap
    BY <1>0, <1>3, DemotedType DEF PublishCapacity, GrantMap
  <2>3. capacity' \in [Target -> Capacity] /\ disk' \in DiskType
    BY <1>0, <1>3, <2>1, Zenon DEF PublishCapacity, TypeOK, DiskType
  <2>4. OpOK'
    BY <1>3 DEF PublishCapacity, OpOK, Free
  <2>5. QED
    BY <1>3, <2>2, <2>3, <2>4, Zenon
       DEF PublishCapacity, TInv, TypeOK, GrantMap, DiskType
<1>4. ASSUME NEW g \in GrantId, NEW w \in Outcome, RevokeOrphan(g, w)
      PROVE  TInv'
  <2>1. op \in OrphansOp /\ g \in op.todo /\ Live(grants, g)
    BY <1>0, <1>4, OpKinds DEF RevokeOrphan, First, TInv, OpOK
  <2>2. Retired(grants[g], "Revoked") \in Grant
    BY <1>1, <2>1 DEF Terminal
  <2>3. op' \in Ops
    BY <1>4, <2>1 DEF RevokeOrphan, OrphansOp, Ops
  <2>4. OpOK'
    BY <1>0, <1>4, <2>1
       DEF RevokeOrphan, PutGrant, TInv, OpOK, Live, Idle, OrphansOp, GrantMap
  <2>5. grants' \in GrantMap /\ disk' \in DiskType /\ faults' \in Nat
    BY <1>0, <1>4, <2>2, PutGrantType DEF RevokeOrphan
  <2>6. QED
    BY <1>4, <2>3, <2>4, <2>5
       DEF RevokeOrphan, TInv, TypeOK, Ops, GrantMap, DiskType
<1>5. ASSUME NEW k \in Key, NEW revocable \in BOOLEAN, NEW w \in Outcome,
             DecideIssue(k, revocable, w)
      PROVE  TInv'
  <2> DEFINE r == [key |-> k, target |-> op.target, generation |-> 1,
                   state |-> GrantedState(revocable), revocable |-> revocable,
                   authority |-> Bound(requests[k])]
  <2>1. op \in RoundOp /\ k \in op.todo /\ op.ids[k] # 0
    BY <1>0, <1>5, OpKinds DEF DecideIssue, Deciding, First
  <2>2. op.ids[k] \in GrantId /\ requests[k] \in Request
    BY <1>0, <2>1, ConstantsAssumption
       DEF RoundOp, GrantId, TInv, OpOK, TypeOK
  <2>3. r \in Grant
    BY <1>0, <1>2, <2>1, <2>2, BoundType DEF Grant, RoundOp
  <2>4. QED
    BY <1>5, <2>1, <2>2, <2>3, ApplyType DEF DecideIssue, RoundOp
<1>6. ASSUME NEW k \in Key, NEW g \in GrantId, Deciding(k),
             First(g, Holds(op.before, k))
      PROVE  /\ op \in RoundOp /\ op.kind = "round"
             /\ op.before[g] \in Grant /\ requests[k] \in Request
  <2>1. op \in RoundOp /\ k \in op.todo
    BY <1>0, <1>6, OpKinds DEF Deciding, First
  <2>2. QED
    BY <1>0, <1>6, <2>1
       DEF RoundOp, First, Holds, Live, TInv, OpOK, TypeOK, Deciding
<1>7. ASSUME NEW k \in Key, NEW g \in GrantId, NEW to \in Terminal,
             NEW w \in Outcome, DecideWithdraw(k, g, to, w)
      PROVE  TInv'
  BY <1>6, <1>7, RetiredType, ApplyType DEF DecideWithdraw
<1>8. ASSUME NEW k \in Key, NEW g \in GrantId, NEW w \in Outcome,
             DecideRenew(k, g, w)
      PROVE  TInv'
  BY <1>6, <1>8, ApplyType DEF DecideRenew
<1>9. ASSUME NEW k \in Key, NEW g \in GrantId, NEW revocable \in BOOLEAN,
             NEW shrinking \in BOOLEAN, NEW w \in Outcome,
             DecideUpdate(k, g, revocable, shrinking, w)
      PROVE  TInv'
  <2> DEFINE st == IF shrinking /\ policy.grace THEN "RecallPending"
                   ELSE GrantedState(revocable)
             r == [key |-> op.before[g].key, target |-> op.before[g].target,
                   generation |-> op.before[g].generation + 1, state |-> st,
                   revocable |-> revocable, authority |-> Bound(requests[k])]
  <2>1. op.kind = "round" /\ op.before[g] \in Grant /\ requests[k] \in Request
    BY <1>6, <1>9 DEF DecideUpdate
  <2>2. st \in LiveStates \cup Terminal
    BY <1>2 DEF LiveStates
  <2>3. r \in Grant
    BY <1>0, <2>1, <2>2, BoundType DEF Grant
  <2>4. Apply(k, g, r, w)
    BY <1>9 DEF DecideUpdate
  <2>5. QED
    BY <2>1, <2>3, <2>4, ApplyType
<1>10. ASSUME NEW g \in GrantId, NEW w \in Outcome, Release(g, w)
       PROVE  TInv'
  <2>1. Retired(grants[g], "Released") \in Grant
    BY <1>1, <1>10 DEF Release, Terminal
  <2>2. grants' \in GrantMap /\ disk' \in DiskType /\ faults' \in Nat
    BY <1>0, <1>10, <2>1, PutGrantType DEF Release
  <2>3. op' \in Ops /\ OpOK'
    BY <1>0, <1>10, <2>1, ConstantsAssumption, Zenon
       DEF Release, PutGrant, Ops, ReleaseOp, Idle, OpOK, GrantMap
  <2>4. QED
    BY <1>10, <2>2, <2>3, Zenon
       DEF Release, TInv, TypeOK, Ops, GrantMap, DiskType
<1>11. ASSUME NEW g \in GrantId, NEW w \in Outcome, Revoke(g, w)
       PROVE  TInv'
  <2>1. Retired(grants[g], "Revoked") \in Grant
    BY <1>1, <1>11 DEF Revoke, Terminal
  <2>2. grants' \in GrantMap /\ disk' \in DiskType /\ faults' \in Nat
    BY <1>0, <1>11, <2>1, PutGrantType, Zenon DEF Revoke
  <2>3. QED
    BY <1>11, <2>2, Zenon
       DEF Revoke, TInv, TypeOK, OpOK, Free, GrantMap, DiskType
<1>12. ASSUME NEW g \in GrantId, NEW w \in Outcome, Revalidate(g, w)
       PROVE  TInv'
  <2> DEFINE q == requests[grants[g].key]
             r == [key |-> grants[g].key, target |-> grants[g].target,
                   generation |-> grants[g].generation + 1,
                   state |-> GrantedState(grants[g].revocable),
                   revocable |-> grants[g].revocable,
                   authority |->
                     [boot |-> q.boot, epoch |-> epoch,
                      policy |-> policy.generation,
                      capacity |-> capacity[grants[g].target].generation]]
  <2>1. grants[g] \in Grant
    BY <1>0, <1>12 DEF Revalidate, GrantMap
  <2>2. Retired(grants[g], "Stale") \in Grant
    BY <2>1, RetiredType DEF Terminal
  <2>3. ASSUME q # NoRequest PROVE r \in Grant
    BY <1>0, <1>2, <2>1, <2>3
       DEF Grant, Authority, TypeOK, Policy, Capacity, Request
  <2>4. PutGrant(g, Retired(grants[g], "Stale"), w)
        \/ (q # NoRequest /\ PutGrant(g, r, w))
    BY <1>12, Zenon DEF Revalidate
  <2>5. grants' \in GrantMap /\ disk' \in DiskType /\ faults' \in Nat
    BY <1>0, <2>2, <2>3, <2>4, PutGrantType
  <2>6. QED
    BY <1>12, <2>5, Zenon
       DEF Revalidate, TInv, TypeOK, OpOK, Free, GrantMap, DiskType
<1>13. ASSUME NEW g \in GrantId, NEW w \in Outcome, FenceGrant(g, w)
       PROVE  TInv'
  <2>1. op \in FenceOp /\ g \in op.todo /\ Live(grants, g)
    BY <1>0, <1>13, OpKinds DEF FenceGrant, First, TInv, OpOK
  <2>2. Retired(grants[g], "Fenced") \in Grant
    BY <1>1, <2>1 DEF Terminal
  <2>3. op' \in Ops
    BY <1>13, <2>1 DEF FenceGrant, FenceOp, Ops
  <2>4. OpOK'
    BY <1>0, <1>13, <2>1
       DEF FenceGrant, PutGrant, TInv, OpOK, Live, Idle, FenceOp, GrantMap
  <2>5. grants' \in GrantMap /\ disk' \in DiskType /\ faults' \in Nat
    BY <1>0, <1>13, <2>2, PutGrantType DEF FenceGrant
  <2>6. QED
    BY <1>13, <2>3, <2>4, <2>5
       DEF FenceGrant, TInv, TypeOK, Ops, GrantMap, DiskType
<1>14. ASSUME NEW n \in 1 .. MaxGrants + 1, Restart(n)
       PROVE  TInv'
  <2>1. grants' \in GrantMap /\ capacity' \in [Target -> Capacity]
    BY <1>0, <1>14, DemoteType, StaleCapacityType
       DEF Restart, Reload, AboveRecovered, DiskType, GrantMap
  <2>2. disk' \in DiskType /\ epoch' \in Nat /\ incarnation' \in Nat
    BY <1>0, <1>14 DEF Restart, Reload, AboveRecovered, DiskType
  <2>3. QED
    BY <1>0, <1>14, <2>1, <2>2, Zenon
       DEF Restart, Reload, AboveRecovered, TInv, TypeOK, OpOK, Idle, GrantMap, DiskType
<1>15. ASSUME AdvanceEpoch
       PROVE  TInv'
  <2>1. grants' \in GrantMap /\ capacity' \in [Target -> Capacity]
    BY <1>0, <1>15, DemoteType, StaleCapacityType DEF AdvanceEpoch, TypeOK
  <2>2. disk' \in DiskType /\ epoch' \in Nat
    BY <1>0, <1>15 DEF AdvanceEpoch, DiskType, TypeOK
  <2>3. QED
    BY <1>15, <2>1, <2>2, Zenon
       DEF AdvanceEpoch, TInv, TypeOK, OpOK, Free, GrantMap, DiskType
<1>16. QED
  BY <1>3, <1>4, <1>5, <1>7, <1>8, <1>9, <1>10, <1>11, <1>12, <1>13, <1>14,
     <1>15 DEF GrantStep

LEMMA TypeNext == TInv /\ [Next]_vars => TInv'
<1> SUFFICES ASSUME TInv, [Next]_vars
             PROVE  TInv'
  OBVIOUS
<1>1. CASE Next
  BY <1>1, TypePlain, TypeUnsynced, TypeGrants, Zenon
     DEF Next, PlainStep, GrantStep, UnsyncedStep
<1>2. CASE UNCHANGED vars
  BY <1>2, Zenon DEF vars, TInv, TypeOK, OpOK, Live
<1>3. QED
  BY <1>1, <1>2

(* Every variable keeps its type in every behaviour of the coordinator,    *)
(* whatever appends fail and wherever the process dies.                    *)
THEOREM TypeCorrect == Spec => []TypeOK
<1>1. Spec => []TInv
  BY TypeInit, TypeNext, PTL DEF Spec
<1>2. TInv => TypeOK
  BY DEF TInv
<1>3. QED
  BY <1>1, <1>2, PTL

=============================================================================
