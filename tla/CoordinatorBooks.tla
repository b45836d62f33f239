-------------------------- MODULE CoordinatorBooks --------------------------
(* What the store knows of the requests and grants in memory. *)
EXTENDS CoordinatorTypes

(* Whatever fails, the store knows at least the epoch and the idempotency  *)
(* entries of memory, because both are appended before memory changes.  A  *)
(* request of the current epoch is one whose identity was recorded: the    *)
(* request that a crash between the two appends of submit leaves behind is *)
(* of an older epoch once it is recovered.  Every grant therefore belongs  *)
(* to a recorded identity and is on that request's target.                 *)

Recorded(gs) ==
  \A g \in GrantId : gs[g] # NoGrant =>
    /\ idempotency[gs[g].key] # NoRequest
    /\ idempotency[gs[g].key].target = gs[g].target

Submitted(rs) ==
  \A k \in Key : rs[k] # NoRequest =>
    /\ rs[k].epoch <= epoch
    /\ accepted[k] # NoRequest => rs[k] = accepted[k]

BookInv ==
  /\ epoch <= disk.epoch
  /\ \A k \in Key : idempotency[k] # NoRequest =>
       disk.idempotency[k] = idempotency[k]
  /\ Submitted(requests) /\ Submitted(disk.requests)
  /\ \A k \in Key : requests[k] # NoRequest /\ requests[k].epoch = epoch =>
       idempotency[k] = requests[k]
  /\ \A k \in Key : accepted[k] # NoRequest => idempotency[k] = accepted[k]
  /\ Recorded(grants) /\ Recorded(disk.grants)
  /\ op.kind = "round" => Recorded(op.before)
  /\ op.kind = "submit" =>
       /\ op.content.epoch = epoch
       /\ idempotency[op.key] = NoRequest
       /\ disk.requests[op.key] = op.content

(* Nothing a round's admissions rest on changes while the round holds the  *)
(* mutex: a request that was given a new id is still admissible when its   *)
(* grant is written.                                                       *)
PlanInv ==
  op.kind = "round" =>
    \A k \in op.todo : op.ids[k] # 0 => Admissible(requests[k])

LEMMA PlanNext ==
  ASSUME TInv, PlanInv, [Next]_vars
  PROVE  PlanInv'
<1>0. TypeOK /\ op \in Ops
  BY TypeParts DEF TInv
<1>1. ASSUME NEW ids \in [Key -> 0 .. MaxGrants], NEW n, PlanRound(ids, n)
      PROVE  PlanInv'
  <2>1. op.target \in Target
    BY <1>0, <1>1, OpKinds DEF PlanRound, OrphansOp
  <2>2. ASSUME NEW k \in op'.todo, op'.ids[k] # 0
        PROVE  Admissible(requests[k])'
    <3>1. k \in Key /\ Admissible(requests[k]) /\ requests[k].target = op.target
      BY <1>1, <2>2 DEF PlanRound
    <3>2. capacity' = capacity
      BY <1>1, <3>1 DEF PlanRound, RoundCapacity, Admissible, Usable
    <3>3. QED
      BY <1>1, <3>1, <3>2 DEF PlanRound, Admissible, Usable, Current
  <2>3. QED
    BY <1>1, <2>2 DEF PlanInv
<1>2. ASSUME op.kind = "round",
             op'.kind = "round" => op' = [op EXCEPT !.todo = op'.todo],
             op'.kind = "round" => op'.todo \subseteq op.todo,
             UNCHANGED <<epoch, policy, capacity, requests, fences>>
      PROVE  PlanInv'
  <2>1. op \in RoundOp
    BY <1>0, <1>2, OpKinds
  <2>2. op'.kind = "round" => op'.ids = op.ids
    BY <1>2, <2>1 DEF RoundOp
  <2>3. QED
    BY <1>2, <2>2 DEF PlanInv, Admissible, Usable, Current
<1>3. ASSUME NEW k \in Key, DecideNothing(k)
      PROVE  PlanInv'
  <2>1. op \in RoundOp
    BY <1>0, <1>3, OpKinds DEF DecideNothing, Deciding
  <2>2. QED
    BY <1>2, <1>3, <2>1 DEF DecideNothing, Deciding, RoundOp
<1>4. ASSUME NEW k \in Key, NEW g, NEW r, NEW w, Deciding(k), Apply(k, g, r, w)
      PROVE  PlanInv'
  <2>1. op \in RoundOp
    BY <1>0, <1>4, OpKinds DEF Deciding
  <2>2. QED
    BY <1>2, <1>4, <2>1 DEF Apply, Deciding, RoundOp, Idle
<1>5. \A k \in Key :
        /\ \A revocable, w : DecideIssue(k, revocable, w) => PlanInv'
        /\ \A g, to, w : DecideWithdraw(k, g, to, w) => PlanInv'
        /\ \A g, w : DecideRenew(k, g, w) => PlanInv'
        /\ \A g, revocable, shrinking, w :
             DecideUpdate(k, g, revocable, shrinking, w) => PlanInv'
  BY <1>4 DEF DecideIssue, DecideWithdraw, DecideRenew, DecideUpdate
<1>6. ASSUME op' = op, op.kind = "idle"
      PROVE  PlanInv'
  BY <1>6 DEF PlanInv
<1>7. ASSUME op'.kind # "round"
      PROVE  PlanInv'
  BY <1>7 DEF PlanInv
<1>8. CASE Next
  <2>1. \A g, w : RevokeOrphan(g, w) => op'.kind # "round"
    BY <1>0, OpKinds DEF RevokeOrphan, OrphansOp, Idle
  <2>2. \A g, w : FenceGrant(g, w) => op'.kind # "round"
    BY <1>0, OpKinds DEF FenceGrant, FenceOp, Idle
  <2>3. \A g, w : Release(g, w) => op'.kind # "round"
    BY DEF Release, Idle
  <2>4. /\ \A p : SetPolicy(p) => op' = op /\ op.kind = "idle"
        /\ \A t, n, e : PublishCapacity(t, n, e) => op' = op /\ op.kind = "idle"
        /\ \A k, w : RetireRequest(k, w) => op' = op /\ op.kind = "idle"
        /\ \A g : ReleaseAgain(g) => op' = op /\ op.kind = "idle"
        /\ \A g, w : Revoke(g, w) => op' = op /\ op.kind = "idle"
        /\ \A g, w : Revalidate(g, w) => op' = op /\ op.kind = "idle"
        /\ AdvanceEpoch \/ Query => op' = op /\ op.kind = "idle"
    BY DEF SetPolicy, PublishCapacity, RetireRequest, ReleaseAgain, Revoke,
           Revalidate, AdvanceEpoch, Query, vars, Free
  <2>5. /\ \A k, c : Submit(k, c) => op'.kind # "round"
        /\ \A w : FinishSubmit(w) => op'.kind # "round"
        /\ \A t : Arbitrate(t) => op'.kind # "round"
        /\ RefuseRound => op'.kind # "round"
        /\ \A compact : CommitRound(compact) => op'.kind # "round"
        /\ \A w : FinishRelease(w) => op'.kind # "round"
        /\ \A b : FencePublisher(b) => op'.kind # "round"
        /\ \A n : Restart(n) => op'.kind # "round"
    BY DEF Submit, FinishSubmit, Arbitrate, RefuseRound, CommitRound,
           FinishRelease, FencePublisher, Restart, Reload, AboveRecovered, Idle
  <2>6. UnsyncedStep => op'.kind # "round"
    BY <1>0, UnsyncedEffect DEF Idle
  <2>7. QED
    BY Zenon, <1>1, <1>3, <1>5, <1>6, <1>7, <1>8, <2>1, <2>2, <2>3, <2>4, <2>5, <2>6
       DEF Next, UnsyncedStep
<1>9. CASE UNCHANGED vars
  BY <1>9 DEF vars, PlanInv, Admissible, Usable, Current
<1>10. QED
  BY <1>8, <1>9

(* Writing a grant of a recorded identity keeps the books. *)
LEMMA BookPut ==
  ASSUME TInv, BookInv,
         NEW g \in GrantId, NEW r \in Grant, NEW w, PutGrant(g, r, w),
         idempotency[r.key] # NoRequest,
         idempotency[r.key].target = r.target,
         UNCHANGED <<epoch, requests, idempotency, accepted>>,
         op' = op \/ op'.kind \notin {"round", "submit"}
           \/ (op.kind = "round" /\ op'.kind = "round" /\ op'.before = op.before)
  PROVE  BookInv'
<1>0. TypeOK /\ grants \in GrantMap /\ disk \in DiskType /\ op \in Ops
  BY TypeParts DEF TInv
<1>1. /\ disk'.epoch = disk.epoch /\ disk'.idempotency = disk.idempotency
      /\ disk'.requests = disk.requests
      /\ disk'.grants = disk.grants \/ disk'.grants = [disk.grants EXCEPT ![g] = r]
  BY <1>0 DEF PutGrant, DiskType
<1>2. Recorded(grants)'
  BY <1>0, Zenon DEF BookInv, Recorded, PutGrant, GrantMap
<1>3. Recorded(disk.grants)'
  BY <1>0, <1>1 DEF BookInv, Recorded, DiskType
<1>4. Submitted(requests)' /\ Submitted(disk.requests)'
  BY <1>1 DEF BookInv, Submitted
<1>5. op'.kind = "round" => Recorded(op.before)'
  BY DEF BookInv, Recorded
<1>6. QED
  BY <1>1, <1>2, <1>3, <1>4, <1>5 DEF BookInv

LEMMA BookInit == Init => BookInv
BY ConstantsAssumption
   DEF Init, BookInv, Submitted, Recorded, Idle, GrantId, Key

(* What the type invariant says of memory, the store and the method. *)
LEMMA Parts ==
  ASSUME TInv
  PROVE  TypeOK /\ grants \in GrantMap /\ disk \in DiskType /\ op \in Ops
BY TypeParts DEF TInv

LEMMA RetiredRecorded ==
  ASSUME TInv, BookInv
  PROVE  \A g \in GrantId, to \in Terminal : grants[g] # NoGrant =>
            /\ Retired(grants[g], to) \in Grant
            /\ idempotency[Retired(grants[g], to).key] # NoRequest
            /\ idempotency[Retired(grants[g], to).key].target
                 = Retired(grants[g], to).target
BY Parts, RetiredType DEF GrantMap, BookInv, Recorded

(* A step that leaves the books of memory and of the store alone. *)
LEMMA BookSame ==
  ASSUME BookInv, UNCHANGED <<epoch, requests, idempotency, grants, accepted>>,
         disk'.epoch = disk.epoch, disk'.idempotency = disk.idempotency,
         disk'.requests = disk.requests, disk'.grants = disk.grants,
         \/ op' = op
         \/ op'.kind \notin {"round", "submit"}
         \/ /\ op'.kind = "round"
            /\ op'.before = grants \/ (op.kind = "round" /\ op'.before = op.before)
  PROVE  BookInv'
<1>1. Submitted(requests)' /\ Submitted(disk.requests)'
  BY DEF BookInv, Submitted
<1>2. Recorded(grants)' /\ Recorded(disk.grants)'
  BY DEF BookInv, Recorded
<1>3. op'.kind = "round" => Recorded(op.before)'
  BY <1>2 DEF BookInv, Recorded
<1>4. QED
  BY <1>1, <1>2, <1>3 DEF BookInv

LEMMA BookSetPolicy ==
  ASSUME TInv, BookInv,
         NEW p, SetPolicy(p)
  PROVE  BookInv'
BY Parts, BookSame, Zenon DEF SetPolicy, DiskType

LEMMA BookPublish ==
  ASSUME TInv, BookInv,
         NEW t \in Target, NEW n, NEW e, PublishCapacity(t, n, e)
  PROVE  BookInv'
<1>1. Recorded(grants)'
  BY Parts
     DEF PublishCapacity, BookInv, Recorded, Demoted, GrantMap, Grant
<1>2. disk'.epoch = disk.epoch /\ disk'.idempotency = disk.idempotency
      /\ disk'.requests = disk.requests /\ disk'.grants = disk.grants
  BY Parts, Zenon DEF PublishCapacity, DiskType
<1>3. QED
  <2>1. Submitted(requests)' /\ Submitted(disk.requests)' /\ Recorded(disk.grants)'
    BY <1>2 DEF PublishCapacity, BookInv, Submitted, Recorded
  <2>2. op' = op /\ op.kind = "idle"
    BY DEF PublishCapacity, Free
  <2>3. UNCHANGED <<epoch, requests, idempotency, accepted>>
    BY DEF PublishCapacity
  <2>4. QED
    BY <1>1, <1>2, <2>1, <2>2, <2>3, Zenon DEF BookInv

LEMMA BookSubmit ==
  ASSUME TInv, BookInv,
         NEW k \in Key, NEW c \in Request, Submit(k, c)
  PROVE  BookInv'
<1>1. idempotency[k] = NoRequest /\ c.epoch = epoch /\ accepted[k] = NoRequest
  BY ConstantsAssumption DEF Submit, SubmitAnswer, BookInv
<1>2. disk'.epoch = disk.epoch /\ disk'.idempotency = disk.idempotency
      /\ disk'.grants = disk.grants
      /\ disk'.requests = [disk.requests EXCEPT ![k] = c]
  BY Parts DEF Submit, DiskType
<1>3. Submitted(disk.requests)'
  BY Parts, <1>1, <1>2 DEF Submit, BookInv, Submitted, DiskType, TypeOK
<1>4. QED
  BY Parts, <1>1, <1>2, <1>3
     DEF Submit, BookInv, Submitted, Recorded, DiskType

LEMMA BookFinishSubmit ==
  ASSUME TInv, BookInv,
         NEW w \in {"ok", "append"}, FinishSubmit(w)
  PROVE  BookInv'
<1>1. op.key \in Key /\ op.content \in Request
  BY Parts, OpKinds DEF FinishSubmit, SubmitOp
<1>2. CASE w = "append"
  BY <1>2, BookSame DEF FinishSubmit, Idle
<1>3. CASE w = "ok"
  <2>1. disk'.epoch = disk.epoch /\ disk'.grants = disk.grants
        /\ disk'.requests = disk.requests
        /\ disk'.idempotency = [disk.idempotency EXCEPT ![op.key] = op.content]
    BY Parts, <1>3, Zenon DEF FinishSubmit, DiskType
  <2>2. Recorded(grants)' /\ Recorded(disk.grants)'
    <3>1. \A k \in Key : idempotency[k] # NoRequest =>
            idempotency'[k] = idempotency[k]
      BY Parts, <1>1, <1>3 DEF FinishSubmit, BookInv, TypeOK
    <3>2. Recorded(grants) /\ Recorded(disk.grants)
      BY DEF BookInv
    <3>3. grants' = grants /\ disk'.grants = disk.grants
      BY <2>1 DEF FinishSubmit
    <3>4. QED
      BY Parts, <3>1, <3>2, <3>3 DEF Recorded, GrantMap, DiskType, Grant
  <2>3. Submitted(requests)' /\ Submitted(disk.requests)'
    BY Parts, <1>1, <1>3, <2>1, ConstantsAssumption
       DEF FinishSubmit, BookInv, Submitted, TypeOK
  <2>4. QED
    BY Parts, <1>1, <1>3, <2>1, <2>2, <2>3, ConstantsAssumption
       DEF FinishSubmit, BookInv, TypeOK, Idle
<1>4. QED
  BY <1>2, <1>3

LEMMA BookErase ==
  ASSUME TInv, BookInv,
         NEW k \in Key, NEW w, EraseRequest(k, w), op' = op \/ op' = Idle,
         op.kind \in {"idle", "release"},
         UNCHANGED <<epoch, idempotency, grants, accepted>>
  PROVE  BookInv'
<1>1. disk'.epoch = disk.epoch /\ disk'.idempotency = disk.idempotency
      /\ disk'.grants = disk.grants
      /\ (disk'.requests = disk.requests
           \/ disk'.requests = [disk.requests EXCEPT ![k] = NoRequest])
  BY Parts DEF EraseRequest, DiskType
<1>2. Submitted(requests)' /\ Submitted(disk.requests)'
  BY Parts, <1>1 DEF EraseRequest, BookInv, Submitted, TypeOK, DiskType
<1>3. QED
  BY Parts, <1>1, <1>2 DEF EraseRequest, BookInv, Recorded, TypeOK, Idle

LEMMA BookArbitrate ==
  ASSUME TInv, BookInv,
         NEW t \in Target, Arbitrate(t)
  PROVE  BookInv'
BY BookSame DEF Arbitrate

LEMMA BookRevokeOrphan ==
  ASSUME TInv, BookInv,
         NEW g \in GrantId, NEW w \in Outcome, RevokeOrphan(g, w)
  PROVE  BookInv'
<1>1. op \in OrphansOp /\ grants[g] # NoGrant
  BY Parts, OpKinds DEF RevokeOrphan, First, TInv, OpOK, Live
<1>2. op'.kind \notin {"round", "submit"}
  BY <1>1 DEF RevokeOrphan, OrphansOp, Idle
<1>3. QED
  BY RetiredRecorded, <1>1, <1>2, BookPut DEF RevokeOrphan, Terminal

LEMMA BookRefuse ==
  ASSUME TInv, BookInv, RefuseRound
  PROVE  BookInv'
BY BookSame DEF RefuseRound, Idle

LEMMA BookPlan ==
  ASSUME TInv, BookInv,
         NEW ids, NEW n, PlanRound(ids, n)
  PROVE  BookInv'
BY BookSame DEF PlanRound

LEMMA BookDecideNothing ==
  ASSUME TInv, BookInv,
         NEW k \in Key, DecideNothing(k)
  PROVE  BookInv'
<1>1. op \in RoundOp
  BY Parts, OpKinds DEF DecideNothing, Deciding
<1>2. op'.kind = "round" /\ op'.before = op.before
  BY <1>1 DEF DecideNothing, RoundOp
<1>3. QED
  BY <1>1, <1>2, BookSame DEF DecideNothing, Deciding

LEMMA BookApply ==
  ASSUME TInv, BookInv,
         NEW k \in Key, NEW g \in GrantId, NEW r \in Grant, NEW w,
         Deciding(k), Apply(k, g, r, w),
         idempotency[r.key] # NoRequest,
         idempotency[r.key].target = r.target
  PROVE  BookInv'
<1>1. op \in RoundOp
  BY Parts, OpKinds DEF Deciding
<1>2. op'.kind = "idle" \/ (op'.kind = "round" /\ op'.before = op.before)
  BY <1>1 DEF Apply, RoundOp, Idle
<1>3. QED
  BY <1>2, BookPut DEF Apply, Deciding

(* The request a round is deciding is one of the round's target. *)
LEMMA DecidedRequest ==
  ASSUME TInv, NEW k \in Key, Deciding(k)
  PROVE  /\ op \in RoundOp /\ op.kind = "round" /\ k \in op.todo
         /\ requests[k] \in Request /\ requests[k].target = op.target
<1>1. op \in RoundOp /\ op.kind = "round" /\ k \in op.todo
  BY Parts, OpKinds DEF Deciding, First
<1>2. requests[k] # NoRequest /\ requests[k].target = op.target
  BY <1>1 DEF TInv, OpOK
<1>3. requests[k] \in Request
  BY Parts, <1>2, Zenon DEF TypeOK
<1>4. QED
  BY <1>1, <1>2, <1>3

LEMMA BookIssue ==
  ASSUME TInv, PlanInv, BookInv,
         NEW k \in Key, NEW revocable \in BOOLEAN, NEW w \in Outcome,
         DecideIssue(k, revocable, w)
  PROVE  BookInv'
<1> DEFINE r == [key |-> k, target |-> op.target, generation |-> 1,
                 state |-> GrantedState(revocable), revocable |-> revocable,
                 authority |-> Bound(requests[k])]
<1>1. op \in RoundOp /\ k \in op.todo /\ op.ids[k] # 0 /\ Deciding(k)
  BY DecidedRequest DEF DecideIssue
<1>2. /\ op.ids[k] \in GrantId /\ requests[k] \in Request
      /\ requests[k].target = op.target
  BY <1>1, DecidedRequest, ConstantsAssumption DEF RoundOp, GrantId
<1>3. requests[k].epoch = epoch
  BY <1>1, Zenon DEF PlanInv, Admissible, RoundOp
<1>4. idempotency[k] = requests[k]
  BY <1>2, <1>3, ConstantsAssumption DEF BookInv
<1>5. GrantedState(revocable) \in LiveStates \cup Terminal
  BY DEF GrantedState, LiveStates
<1>6. r \in Grant
  BY Parts, <1>1, <1>2, <1>5, BoundType, Zenon DEF Grant, RoundOp
<1>7. Apply(k, op.ids[k], r, w)
  BY Zenon DEF DecideIssue
<1>8. idempotency[r.key] # NoRequest /\ idempotency[r.key].target = r.target
  BY <1>2, <1>4, ConstantsAssumption, Zenon
<1>9. QED
  BY BookApply, <1>1, <1>2, <1>6, <1>7, <1>8, Zenon

LEMMA HeldRecorded ==
  ASSUME TInv, BookInv,
         NEW k \in Key, NEW g \in GrantId, Deciding(k),
         First(g, Holds(op.before, k))
  PROVE  /\ op.before[g] \in Grant /\ requests[k] \in Request
         /\ idempotency[op.before[g].key] # NoRequest
         /\ idempotency[op.before[g].key].target = op.before[g].target
<1>1. op.before[g] \in Grant /\ requests[k] \in Request
  BY DecidedRequest DEF RoundOp, First, Holds, Live
<1>2. QED
  BY <1>1, ConstantsAssumption, Zenon DEF BookInv, Recorded, Deciding

LEMMA BookWithdraw ==
  ASSUME TInv, BookInv,
         NEW k \in Key, NEW g \in GrantId, NEW to \in Terminal,
         NEW w \in Outcome, DecideWithdraw(k, g, to, w)
  PROVE  BookInv'
<1>1. Deciding(k) /\ First(g, Holds(op.before, k))
      /\ Apply(k, g, Retired(op.before[g], to), w)
  BY Zenon DEF DecideWithdraw
<1>2. op.before[g] \in Grant /\ idempotency[op.before[g].key] # NoRequest
      /\ idempotency[op.before[g].key].target = op.before[g].target
  BY HeldRecorded, <1>1, Zenon
<1>3. /\ Retired(op.before[g], to) \in Grant
      /\ Retired(op.before[g], to).key = op.before[g].key
      /\ Retired(op.before[g], to).target = op.before[g].target
  BY <1>2, RetiredType, Zenon
<1>4. QED
  BY BookApply, <1>1, <1>2, <1>3, Zenon

LEMMA BookRenew ==
  ASSUME TInv, BookInv,
         NEW k \in Key, NEW g \in GrantId, NEW w \in Outcome,
         DecideRenew(k, g, w)
  PROVE  BookInv'
BY BookApply, HeldRecorded, Zenon DEF DecideRenew

LEMMA BookUpdate ==
  ASSUME TInv, BookInv,
         NEW k \in Key, NEW g \in GrantId, NEW revocable \in BOOLEAN,
         NEW shrinking \in BOOLEAN, NEW w \in Outcome,
         DecideUpdate(k, g, revocable, shrinking, w)
  PROVE  BookInv'
<1> DEFINE st == IF shrinking /\ policy.grace THEN "RecallPending"
                 ELSE GrantedState(revocable)
           r == [key |-> op.before[g].key, target |-> op.before[g].target,
                 generation |-> op.before[g].generation + 1, state |-> st,
                 revocable |-> revocable, authority |-> Bound(requests[k])]
<1>1. Deciding(k) /\ First(g, Holds(op.before, k)) /\ Apply(k, g, r, w)
  BY Zenon DEF DecideUpdate
<1>2. /\ op.before[g] \in Grant /\ requests[k] \in Request
      /\ idempotency[op.before[g].key] # NoRequest
      /\ idempotency[op.before[g].key].target = op.before[g].target
  BY HeldRecorded, <1>1
<1>3. st \in LiveStates \cup Terminal
  BY Zenon DEF LiveStates, GrantedState
<1>4. r \in Grant
  BY Parts, <1>2, <1>3, BoundType DEF Grant
<1>5. QED
  BY BookApply, <1>1, <1>2, <1>4, Zenon
=============================================================================
