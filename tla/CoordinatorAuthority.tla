------------------------ MODULE CoordinatorAuthority ------------------------
(* What justifies the authority of a grant, and the steps of a round. *)
EXTENDS CoordinatorBooks

(* A grant record that authorises is bound to the current epoch and to the *)
(* usable capacity of its target.                                          *)
Justified(r) ==
  r # NoGrant /\ r.state \in Authorising =>
    /\ r.authority.epoch = epoch
    /\ r.authority.capacity = capacity[r.target].generation
    /\ Usable(r.target)

AuthInv ==
  /\ \A t \in Target : capacity[t].evidence = "Known" => Current(t)
  /\ \A g \in GrantId : Justified(grants[g])
  /\ op.kind = "round" => \A g \in GrantId : Justified(op.before[g])

LEMMA AuthInit == Init => AuthInv
BY DEF Init, AuthInv, Justified, Idle

(* Writing a justified grant. *)
LEMMA AuthPut ==
  ASSUME TInv, AuthInv,
         NEW g \in GrantId, NEW r \in Grant, NEW w, PutGrant(g, r, w),
         Justified(r), UNCHANGED <<epoch, capacity>>,
         op'.kind # "round" \/ (op.kind = "round" /\ op'.before = op.before)
  PROVE  AuthInv'
<1>0. TypeOK /\ grants \in GrantMap
  BY TypeParts DEF TInv
<1>1. \A q : Justified(q) => Justified(q)'
  BY DEF Justified, Usable, Current
<1>2. \A h \in GrantId : Justified(grants'[h])
  BY <1>0 DEF PutGrant, AuthInv, GrantMap
<1>3. \A t \in Target : capacity'[t].evidence = "Known" => Current(t)'
  BY DEF AuthInv, Current
<1>4. QED
  BY <1>1, <1>2, <1>3 DEF AuthInv, Justified, Usable, Current

(* Steps that change neither grants nor what justifies them. *)
LEMMA AuthSame ==
  ASSUME AuthInv, UNCHANGED <<epoch, capacity, grants>>,
         \/ op'.kind # "round"
         \/ op.kind = "round" /\ op'.before = op.before
         \/ op'.before = grants
  PROVE  AuthInv'
BY DEF AuthInv, Justified, Usable, Current

(* A decision of a round writes a justified grant. *)
LEMMA AuthApply ==
  ASSUME TInv, AuthInv, NEW k \in Key, NEW g \in GrantId, NEW r \in Grant, NEW w,
         Deciding(k), Apply(k, g, r, w), Justified(r)
  PROVE  AuthInv'
<1>1. op \in RoundOp
  BY TypeParts, OpKinds DEF TInv, Deciding
<1>2. op'.kind = "idle" \/ (op'.kind = "round" /\ op'.before = op.before)
  BY <1>1 DEF Apply, RoundOp, Idle
<1>3. QED
  BY <1>2, AuthPut DEF Apply, Deciding

(* A round that has not been given usable evidence leaves no grant of its  *)
(* target authorising, so demoting that evidence takes nothing from anyone.*)
LEMMA AuthRoundCapacity ==
  ASSUME TInv, AuthInv, op.kind = "orphans", capacity' = RoundCapacity(op.target),
         UNCHANGED <<epoch, grants>>,
         op'.kind # "round" \/ op'.before = grants
  PROVE  AuthInv'
<1>0. TypeOK /\ grants \in GrantMap /\ op.target \in Target
  BY TypeParts, OpKinds DEF TInv, OrphansOp
<1>1. CASE capacity' = capacity
  BY <1>1, AuthSame
<1>2. CASE capacity' # capacity
  <2>1. ~Current(op.target)
        /\ capacity' = [capacity EXCEPT ![op.target].evidence = "Stale"]
    BY <1>2 DEF RoundCapacity
  <2>2. \A t \in Target : /\ capacity'[t].generation = capacity[t].generation
                          /\ capacity'[t].epoch = capacity[t].epoch
                          /\ t # op.target => capacity'[t] = capacity[t]
    BY <1>0, <2>1 DEF TypeOK, Capacity
  <2>3. \A t \in Target : capacity'[t].evidence = "Known" => Current(t)'
    <3>1. capacity'[op.target].evidence = "Stale"
      BY <1>0, <2>1 DEF TypeOK, Capacity
    <3>2. QED
      BY <2>2, <3>1 DEF AuthInv, Current
  <2>4. \A g \in GrantId : grants[g] # NoGrant => grants[g].target \in Target
    BY <1>0 DEF GrantMap, Grant
  <2>5. \A g \in GrantId : Justified(grants[g])'
    BY <2>1, <2>2, <2>4 DEF AuthInv, Justified, Usable, Current
  <2>6. QED
    BY <2>3, <2>5, Zenon DEF AuthInv, Justified, Usable, Current
<1>3. QED
  BY <1>1, <1>2

LEMMA RetiredJustified ==
  ASSUME NEW r \in Grant, NEW to \in Terminal
  PROVE  Retired(r, to) \in Grant /\ Justified(Retired(r, to))
BY RetiredType DEF Justified, Terminal, Authorising

LEMMA DemotedJustified ==
  ASSUME NEW r \in Grant \cup {NoGrant}
  PROVE  /\ Demoted(r) # NoGrant => Demoted(r).state \notin Authorising
         /\ r # NoGrant => Demoted(r) # NoGrant /\ Demoted(r).target = r.target
BY ConstantsAssumption
   DEF Demoted, Grant, LiveStates, Terminal, Authorising

(* Rounds. *)
LEMMA AuthRound ==
  ASSUME TInv, PlanInv, BookInv, AuthInv,
         \/ \E k \in Key, revocable \in BOOLEAN, w \in Outcome :
              DecideIssue(k, revocable, w)
         \/ \E k \in Key, g \in GrantId, to \in Terminal, w \in Outcome :
              DecideWithdraw(k, g, to, w)
         \/ \E k \in Key, g \in GrantId, w \in Outcome : DecideRenew(k, g, w)
         \/ \E k \in Key, g \in GrantId, revocable, shrinking \in BOOLEAN,
               w \in Outcome : DecideUpdate(k, g, revocable, shrinking, w)
  PROVE  AuthInv'
<1>0. TypeOK /\ grants \in GrantMap /\ disk \in DiskType /\ op \in Ops
  BY TypeParts DEF TInv
<1>1. ASSUME NEW k \in Key, Deciding(k)
      PROVE  /\ op \in RoundOp /\ op.kind = "round" /\ k \in op.todo
             /\ requests[k] \in Request /\ requests[k].target = op.target
             /\ Bound(requests[k]) \in Authority
  BY <1>0, <1>1, DecidedRequest, BoundType
<1>2. ASSUME NEW k \in Key, NEW g \in GrantId, Deciding(k),
             First(g, Holds(op.before, k))
      PROVE  op.before[g] \in Grant /\ op.before[g].key = k
  BY <1>1, <1>2 DEF RoundOp, First, Holds, Live
<1>3. ASSUME NEW r \in Grant, NEW q \in Request, Admissible(q),
             r.authority = Bound(q), r.target = q.target
      PROVE  Justified(r)
  BY <1>3 DEF Justified, Bound, Admissible
<1>4. ASSUME NEW k \in Key, NEW revocable \in BOOLEAN, NEW w \in Outcome,
             DecideIssue(k, revocable, w)
      PROVE  AuthInv'
  <2> DEFINE r == [key |-> k, target |-> op.target, generation |-> 1,
                   state |-> GrantedState(revocable), revocable |-> revocable,
                   authority |-> Bound(requests[k])]
  <2>1. Deciding(k) /\ op.ids[k] # 0 /\ Apply(k, op.ids[k], r, w)
    BY <1>4 DEF DecideIssue
  <2>2. op.ids[k] \in GrantId
    BY <1>1, <2>1, ConstantsAssumption DEF RoundOp, GrantId
  <2>3. GrantedState(revocable) \in LiveStates \cup Terminal
    BY DEF GrantedState, LiveStates
  <2>4. r \in Grant
    BY <1>1, <2>1, <2>3, Zenon DEF Grant, RoundOp
  <2>5. Admissible(requests[k])
    BY <1>1, <2>1, Zenon DEF PlanInv
  <2>6. Justified(r)
    BY <1>1, <1>3, <2>1, <2>4, <2>5, Zenon
  <2>7. QED
    BY <2>1, <2>2, <2>4, <2>6, AuthApply, Zenon
<1>5. ASSUME NEW k \in Key, NEW g \in GrantId, NEW to \in Terminal,
             NEW w \in Outcome, DecideWithdraw(k, g, to, w)
      PROVE  AuthInv'
  BY <1>2, <1>5, RetiredJustified, AuthApply DEF DecideWithdraw
<1>6. ASSUME NEW k \in Key, NEW g \in GrantId, NEW w \in Outcome,
             DecideRenew(k, g, w)
      PROVE  AuthInv'
  <2>1. Deciding(k) /\ Apply(k, g, op.before[g], w) /\ op.before[g] \in Grant
    BY <1>2, <1>6 DEF DecideRenew
  <2>2. Justified(op.before[g])
    BY <1>1, <2>1 DEF AuthInv
  <2>3. QED
    BY <2>1, <2>2, AuthApply
<1>7. ASSUME NEW k \in Key, NEW g \in GrantId, NEW revocable \in BOOLEAN,
             NEW shrinking \in BOOLEAN, NEW w \in Outcome,
             DecideUpdate(k, g, revocable, shrinking, w)
      PROVE  AuthInv'
  <2> DEFINE st == IF shrinking /\ policy.grace THEN "RecallPending"
                   ELSE GrantedState(revocable)
             r == [key |-> op.before[g].key, target |-> op.before[g].target,
                   generation |-> op.before[g].generation + 1, state |-> st,
                   revocable |-> revocable, authority |-> Bound(requests[k])]
  <2>1. Deciding(k) /\ First(g, Holds(op.before, k)) /\ Apply(k, g, r, w)
        /\ Admissible(requests[k])
    BY <1>7 DEF DecideUpdate
  <2>2. op.before[g] \in Grant /\ op.before[g].key = k
    BY <1>2, <2>1
  <2>3. st \in LiveStates \cup Terminal
    BY Zenon DEF GrantedState, LiveStates
  <2>4. r \in Grant
    BY <1>1, <2>1, <2>2, <2>3 DEF Grant
  <2>5. idempotency[k] = requests[k]
    BY <1>1, <2>1, ConstantsAssumption, Zenon DEF BookInv, Admissible
  <2>6. op.before[g].target = requests[k].target
    BY <1>1, <2>1, <2>2, <2>5, ConstantsAssumption, HeldRecorded, Zenon
  <2>7. Justified(r)
    BY <1>1, <1>3, <2>1, <2>4, <2>6
  <2>8. QED
    BY <2>1, <2>4, <2>7, AuthApply, Zenon
<1>8. QED
  BY <1>4, <1>5, <1>6, <1>7

(* Only evidence that was published is recovered as Known. *)
Stored ==
  \A t \in Target : disk.capacity[t].evidence = "Known" =>
    disk.capacity[t].generation > 0

LEMMA StoredNext ==
  ASSUME TInv, AuthInv, Stored, [Next]_vars
  PROVE  Stored'
<1>0. TypeOK /\ disk \in DiskType
  BY TypeParts DEF TInv
<1>1. ASSUME disk'.capacity = disk.capacity
      PROVE  Stored'
  BY <1>1 DEF Stored
<1>2. ASSUME NEW g, NEW r, NEW w, PutGrant(g, r, w)
      PROVE  disk'.capacity = disk.capacity
  BY <1>0, <1>2 DEF PutGrant, DiskType
<1>3. ASSUME NEW k, NEW w, EraseRequest(k, w)
      PROVE  disk'.capacity = disk.capacity
  BY <1>0, <1>3 DEF EraseRequest, DiskType
<1>4. ASSUME NEW t \in Target, NEW n \in 1 .. MaxCapacityGeneration, NEW e,
             PublishCapacity(t, n, e)
      PROVE  Stored'
  <2> DEFINE c == [generation |-> n, evidence |-> e, epoch |-> epoch]
  <2>1. disk'.capacity = [disk.capacity EXCEPT ![t] = c]
    BY <1>0, <1>4 DEF PublishCapacity, DiskType
  <2>2. QED
    BY <1>0, <2>1 DEF Stored, DiskType
<1>5. ASSUME NEW compact, CommitRound(compact)
      PROVE  Stored'
  <2>1. disk' = disk \/ disk'.capacity = capacity
    BY <1>5 DEF CommitRound, Image
  <2>2. QED
    BY <2>1 DEF AuthInv, Current, Stored
<1>9. ASSUME UnsyncedStep
      PROVE  Stored'
  BY <1>0, <1>9, UnsyncedEffect DEF Stored, DiskType
<1>6. CASE Next
  <2>1. /\ \A p : SetPolicy(p) => disk'.capacity = disk.capacity
        /\ \A k, c : Submit(k, c) => disk'.capacity = disk.capacity
        /\ \A w : FinishSubmit(w) => disk'.capacity = disk.capacity
        /\ \A b : FencePublisher(b) => disk'.capacity = disk.capacity
        /\ \A n : Restart(n) => disk'.capacity = disk.capacity
        /\ AdvanceEpoch => disk'.capacity = disk.capacity
    BY <1>0
       DEF SetPolicy, Submit, FinishSubmit, FencePublisher, Restart, Reload,
                AboveRecovered, AdvanceEpoch, DiskType
  <2>2. /\ \A t : Arbitrate(t) => disk' = disk
        /\ RefuseRound => disk' = disk
        /\ \A ids, n : PlanRound(ids, n) => disk' = disk
        /\ \A k : DecideNothing(k) => disk' = disk
        /\ \A g : ReleaseAgain(g) => disk' = disk
        /\ Query => disk' = disk
    BY DEF Arbitrate, RefuseRound, PlanRound, DecideNothing, ReleaseAgain, Query,
           vars
  <2>3. /\ \A k, w : RetireRequest(k, w) => disk'.capacity = disk.capacity
        /\ \A w : FinishRelease(w) => disk'.capacity = disk.capacity
    BY <1>3 DEF RetireRequest, FinishRelease
  <2>4. /\ \A g, w : RevokeOrphan(g, w) => disk'.capacity = disk.capacity
        /\ \A g, w : Release(g, w) => disk'.capacity = disk.capacity
        /\ \A g, w : Revoke(g, w) => disk'.capacity = disk.capacity
        /\ \A g, w : Revalidate(g, w) => disk'.capacity = disk.capacity
        /\ \A g, w : FenceGrant(g, w) => disk'.capacity = disk.capacity
    BY <1>2 DEF RevokeOrphan, Release, Revoke, Revalidate, FenceGrant
  <2>5. /\ \A k, g, w : DecideRenew(k, g, w) => disk'.capacity = disk.capacity
        /\ \A k, v, w : DecideIssue(k, v, w) => disk'.capacity = disk.capacity
        /\ \A k, g, to, w :
             DecideWithdraw(k, g, to, w) => disk'.capacity = disk.capacity
        /\ \A k, g, v, u, w :
             DecideUpdate(k, g, v, u, w) => disk'.capacity = disk.capacity
    BY <1>2 DEF DecideRenew, DecideIssue, DecideWithdraw, DecideUpdate, Apply
  <2>6. QED
    BY <1>1, <1>4, <1>5, <1>6, <1>9, <2>1, <2>2, <2>3, <2>4, <2>5, Zenon
       DEF Next, UnsyncedStep
<1>7. CASE UNCHANGED vars
  BY <1>7 DEF vars, Stored
<1>8. QED
  BY <1>6, <1>7
=============================================================================
