------------------------ MODULE CoordinatorBookSteps ------------------------
(* The remaining steps keep the books: the end of a round, releases,         *)
(* revocations, revalidation, fences, epochs and recovery.                  *)
EXTENDS CoordinatorBooks

LEMMA BookCommit ==
  ASSUME TInv, BookInv,
         NEW compact \in BOOLEAN, CommitRound(compact)
  PROVE  BookInv'
<1>1. CASE compact
  <2>1. disk'.epoch = epoch /\ disk'.idempotency = idempotency
        /\ disk'.requests = requests /\ disk'.grants = grants
    BY <1>1 DEF CommitRound, Image
  <2>2. /\ UNCHANGED <<epoch, requests, idempotency, grants, accepted>>
        /\ op'.kind = "idle"
    BY DEF CommitRound, Idle
  <2>3. epoch \in Nat
    BY Parts DEF TypeOK
  <2>4. Submitted(requests)' /\ Submitted(disk.requests)'
    BY <2>1, <2>2 DEF BookInv, Submitted
  <2>5. Recorded(grants)' /\ Recorded(disk.grants)'
    BY <2>1, <2>2 DEF BookInv, Recorded
  <2>6. QED
    BY <2>1, <2>2, <2>3, <2>4, <2>5 DEF BookInv
<1>2. CASE ~compact
  BY <1>2, BookSame, Zenon DEF CommitRound, Idle
<1>3. QED
  BY <1>1, <1>2

LEMMA BookRelease ==
  ASSUME TInv, BookInv,
         NEW g \in GrantId, NEW w \in Outcome, Release(g, w)
  PROVE  BookInv'
<1>1. grants[g] # NoGrant /\ op'.kind \notin {"round", "submit"}
  BY DEF Release, Live, Idle
<1>2. QED
  BY RetiredRecorded, <1>1, BookPut DEF Release, Terminal

LEMMA BookFinishRelease ==
  ASSUME TInv, BookInv,
         NEW w, FinishRelease(w)
  PROVE  BookInv'
<1>1. op.grant \in GrantId
  BY Parts, OpKinds DEF FinishRelease, ReleaseOp
<1>2. grants[op.grant].key \in Key
  BY Parts, <1>1 DEF FinishRelease, TInv, OpOK, GrantMap, Grant
<1>3. QED
  BY BookErase, <1>2 DEF FinishRelease

LEMMA BookRetire ==
  ASSUME TInv, BookInv,
         NEW k \in Key, NEW w, RetireRequest(k, w)
  PROVE  BookInv'
BY BookErase DEF RetireRequest, Free

LEMMA BookReleaseAgain ==
  ASSUME TInv, BookInv,
         NEW g \in GrantId, ReleaseAgain(g)
  PROVE  BookInv'
BY BookSame DEF ReleaseAgain

LEMMA BookRevoke ==
  ASSUME TInv, BookInv,
         NEW g \in GrantId, NEW w \in Outcome, Revoke(g, w)
  PROVE  BookInv'
<1>1. grants[g] # NoGrant /\ op' = op
  BY DEF Revoke, Live
<1>2. QED
  BY RetiredRecorded, <1>1, BookPut DEF Revoke, Terminal

LEMMA BookRevalidate ==
  ASSUME TInv, BookInv,
         NEW g \in GrantId, NEW w \in Outcome, Revalidate(g, w)
  PROVE  BookInv'
<1> DEFINE q == requests[grants[g].key]
           r == [key |-> grants[g].key, target |-> grants[g].target,
                 generation |-> grants[g].generation + 1,
                 state |-> GrantedState(grants[g].revocable),
                 revocable |-> grants[g].revocable,
                 authority |->
                   [boot |-> q.boot, epoch |-> epoch,
                    policy |-> policy.generation,
                    capacity |-> capacity[grants[g].target].generation]]
<1>1. grants[g] \in Grant /\ idempotency[grants[g].key] # NoRequest
      /\ idempotency[grants[g].key].target = grants[g].target
  BY Parts DEF Revalidate, GrantMap, BookInv, Recorded
<1>2. GrantedState(grants[g].revocable) \in LiveStates \cup Terminal
  BY DEF GrantedState, LiveStates
<1>3. ASSUME q # NoRequest PROVE r \in Grant
  BY Parts, <1>1, <1>2, <1>3
     DEF Grant, Authority, TypeOK, Policy, Capacity, Request
<1>4. PutGrant(g, Retired(grants[g], "Stale"), w)
      \/ (q # NoRequest /\ PutGrant(g, r, w))
  BY DEF Revalidate
<1>5. op' = op /\ UNCHANGED <<epoch, requests, idempotency, accepted>>
  BY Zenon DEF Revalidate
<1>6. CASE PutGrant(g, Retired(grants[g], "Stale"), w)
  BY RetiredRecorded, <1>1, <1>5, <1>6, ConstantsAssumption, BookPut, Zenon
     DEF Terminal
<1>7. CASE q # NoRequest /\ PutGrant(g, r, w)
  BY <1>1, <1>3, <1>5, <1>7, BookPut
<1>8. QED
  BY <1>4, <1>6, <1>7, Zenon

LEMMA BookFence ==
  ASSUME TInv, BookInv,
         NEW b \in Boot, FencePublisher(b)
  PROVE  BookInv'
<1>1. disk'.epoch = disk.epoch /\ disk'.idempotency = disk.idempotency
      /\ disk'.requests = disk.requests /\ disk'.grants = disk.grants
  BY Parts DEF FencePublisher, DiskType
<1>2. op'.kind \notin {"round", "submit"}
  BY DEF FencePublisher, Idle
<1>3. UNCHANGED <<epoch, requests, idempotency, grants, accepted>>
  BY DEF FencePublisher
<1>4. QED
  BY <1>1, <1>2, <1>3, BookSame

LEMMA BookFenceGrant ==
  ASSUME TInv, BookInv,
         NEW g \in GrantId, NEW w \in Outcome, FenceGrant(g, w)
  PROVE  BookInv'
<1>1. op \in FenceOp /\ grants[g] # NoGrant
  BY Parts, OpKinds DEF FenceGrant, First, TInv, OpOK, Live
<1>2. op'.kind \notin {"round", "submit"}
  BY <1>1 DEF FenceGrant, FenceOp, Idle
<1>3. QED
  BY RetiredRecorded, <1>1, <1>2, BookPut DEF FenceGrant, Terminal

LEMMA DemotedRecorded ==
  ASSUME NEW gs \in GrantMap, Recorded(gs)
  PROVE  Recorded(Demote(gs))
BY DEF Recorded, Demote, Demoted, GrantMap, Grant

LEMMA BookAdvance ==
  ASSUME TInv, BookInv, AdvanceEpoch
  PROVE  BookInv'
<1>1. disk'.epoch = epoch' /\ disk'.idempotency = disk.idempotency
      /\ disk'.requests = disk.requests /\ disk'.grants = disk.grants
  BY Parts, Zenon DEF AdvanceEpoch, DiskType
<1>2. Recorded(grants)' /\ Recorded(disk.grants)'
  BY Parts, DemotedRecorded, <1>1 DEF AdvanceEpoch, BookInv, Recorded
<1>3. Submitted(requests)' /\ Submitted(disk.requests)'
  BY Parts, <1>1
     DEF AdvanceEpoch, BookInv, Submitted, TypeOK, DiskType, Request
<1>4. \A k \in Key : requests[k] # NoRequest => requests[k].epoch # epoch'
  BY Parts DEF AdvanceEpoch, BookInv, Submitted, TypeOK, Request
<1>5. epoch' \in Nat /\ UNCHANGED <<idempotency, requests, accepted, op>>
  BY Parts DEF AdvanceEpoch, TypeOK
<1>6. op'.kind = "idle"
  BY <1>5 DEF AdvanceEpoch, Free
<1>7. QED
  BY <1>1, <1>2, <1>3, <1>4, <1>5, <1>6 DEF BookInv

LEMMA BookRestart ==
  ASSUME TInv, BookInv,
         NEW n, Restart(n)
  PROVE  BookInv'
<1>1. disk'.epoch = disk.epoch + 1 /\ disk'.idempotency = disk.idempotency
      /\ disk'.requests = disk.requests /\ disk'.grants = disk.grants
  BY Parts DEF Restart, Reload, AboveRecovered, DiskType
<1>2. epoch' = disk.epoch + 1 /\ idempotency' = disk.idempotency
      /\ requests' = disk.requests /\ accepted' = accepted
      /\ grants' = Demote(disk.grants) /\ op' = Idle
  BY Zenon DEF Restart, Reload, AboveRecovered
<1>a. epoch \in Nat /\ disk.epoch \in Nat /\ epoch <= disk.epoch
  BY Parts, Zenon DEF BookInv, TypeOK, DiskType
<1>b. \A k \in Key : idempotency[k] # NoRequest => idempotency'[k] = idempotency[k]
  BY <1>2, Zenon DEF BookInv
<1>c. Recorded(disk.grants)'
  BY Parts, <1>1, <1>b DEF BookInv, Recorded, DiskType, Grant
<1>3. Recorded(grants)'
  BY Parts, <1>1, <1>2, <1>c DEF Recorded, Demote, Demoted, DiskType, Grant
<1>4. Submitted(disk.requests)'
  BY Parts, <1>1, <1>2, <1>a DEF BookInv, Submitted, DiskType, Request
<1>5. Submitted(requests)'
  BY <1>1, <1>2, <1>4, Zenon DEF Submitted
<1>6. \A k \in Key : requests'[k] # NoRequest => requests'[k].epoch # epoch'
  BY Parts, <1>2, <1>a DEF BookInv, Submitted, DiskType, Request
<1>7. epoch' <= disk'.epoch /\ disk'.idempotency = idempotency'
  BY <1>1, <1>2, <1>a
<1>8. \A k \in Key : accepted'[k] # NoRequest => idempotency'[k] = accepted'[k]
  BY <1>2, <1>b DEF BookInv
<1>9. QED
  BY <1>2, <1>3, <1>4, <1>5, <1>6, <1>7, <1>8, <1>c DEF BookInv, Idle

LEMMA BookStutter ==
  ASSUME TInv, BookInv,
         UNCHANGED vars
  PROVE  BookInv'
BY BookSame DEF vars

LEMMA ContentType ==
  ASSUME TInv,
         NEW t \in Target, NEW b \in Boot,
         NEW n \in 1 .. MaxPolicyGeneration
  PROVE  [target |-> t, boot |-> b, epoch |-> epoch, policy |-> n] \in Request
BY Parts DEF TypeOK, Request

LEMMA BookUnsynced ==
  ASSUME TInv, BookInv, UnsyncedStep
  PROVE  BookInv'
<1>1. UNCHANGED <<epoch, requests, idempotency, grants, accepted>>
      /\ op' = Idle /\ disk'.requests = disk.requests
      /\ disk'.grants = disk.grants /\ disk'.epoch \in {disk.epoch, epoch + 1}
  BY Parts, UnsyncedEffect, Zenon
<1>2. epoch' <= disk'.epoch
  BY Parts, <1>1 DEF BookInv, TypeOK, DiskType
<1>3. \A k \in Key : idempotency[k] # NoRequest =>
        disk'.idempotency[k] = idempotency[k]
  <2>1. CASE disk'.idempotency = disk.idempotency
    BY <2>1, Zenon DEF BookInv
  <2>2. CASE op.kind = "submit" /\ disk'.idempotency =
               [disk.idempotency EXCEPT ![op.key] = op.content]
    BY Parts, <2>2, Zenon DEF BookInv, DiskType
  <2>3. QED
    BY Parts, <2>1, <2>2, UnsyncedEffect
<1>4. Submitted(requests)' /\ Submitted(disk.requests)'
  BY <1>1, Zenon DEF BookInv, Submitted
<1>5. Recorded(grants)' /\ Recorded(disk.grants)'
  BY <1>1 DEF BookInv, Recorded
<1>6. QED
  BY <1>1, <1>2, <1>3, <1>4, <1>5, Zenon DEF BookInv, Idle

(* Every step keeps the books. *)
LEMMA BookNext ==
  ASSUME TInv, PlanInv, BookInv, [Next]_vars
  PROVE  BookInv'
<1>1. CASE Next
  BY <1>1, BookSetPolicy, BookPublish, BookSubmit, BookFinishSubmit,
     BookArbitrate, BookRevokeOrphan, BookRefuse, BookPlan, BookDecideNothing,
     BookIssue, BookWithdraw, BookRenew, BookUpdate, BookCommit, BookRelease,
     BookFinishRelease, BookRetire, BookReleaseAgain, BookRevoke,
     BookRevalidate, BookFence, BookFenceGrant, BookAdvance, BookRestart,
     BookStutter, ContentType, BookUnsynced, Zenon
     DEF Next, Query, UnsyncedStep
<1>2. QED
  BY <1>1, BookStutter
=============================================================================
