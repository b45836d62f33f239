---------------------------- MODULE Coordinator ----------------------------
(***************************************************************************)
(* The authority state of the coordinator (class Broker, broker.cpp):      *)
(* policy and capacity generations, accepted requests, the idempotency     *)
(* table, grants, boot fences and the fabric epoch, each held in memory    *)
(* and in the durable store.                                               *)
(*                                                                         *)
(* Every Broker method holds one mutex, so two methods never interleave.   *)
(* What does interleave with a method is the failure of one of its journal *)
(* appends and the death of the process between two appends.  A method     *)
(* that appends once is one action.  A method that appends several times   *)
(* is one action per append: `op' names the method that holds the mutex    *)
(* and what it has left to do, and no other method starts until `op' is    *)
(* Idle again.                                                             *)
(*                                                                         *)
(* `disk' is the state that recovering the store would rebuild.  How much  *)
(* a round gives to a request is left open here; this module is about who  *)
(* may consume, not how much.                                              *)
(***************************************************************************)
EXTENDS Grants, FiniteSets

CONSTANTS
  Target,                 \* capacity targets
  Boot,                   \* boot identities of requesters
  MaxKey,                 \* request identities (id, generation), in map order
  MaxGrants,              \* bound on grant ids
  MaxGeneration,          \* bound on grant generations
  MaxEpoch,               \* bound on the fabric epoch
  MaxCapacityGeneration,  \* bound on capacity snapshot generations
  MaxPolicyGeneration,    \* bound on policy generations
  MaxIdempotency,         \* BrokerConfig::max_idempotency_entries
  MaxFences,              \* limits::kMaxBootFenceRecords
  Published,              \* evidence states that publishers publish
  Graces,                 \* whether policies grant a recall grace
  MaxFaults,              \* bound on failed appends and accounting errors
  NoGrant,                \* an id no grant has been issued under
  NoRequest               \* a key with no request, or no recorded content

Key == 1 .. MaxKey
GrantId == 1 .. MaxGrants
Evidence == {"Unknown", "Known", "Stale"}

(* A request, reduced to what its authority is judged by. *)
Request == [target: Target, boot: Boot, epoch: Nat, policy: Nat]

(* What a grant is bound to: the generations that justified it. *)
Authority == [boot: Boot, epoch: Nat, policy: Nat, capacity: Nat]

(* A grant: its identity, its state, whether its allocation holds a        *)
(* revocable amount, and its authority.                                    *)
Grant == [key: Key, target: Target, generation: Nat,
          state: LiveStates \cup Terminal, revocable: BOOLEAN,
          authority: Authority]

(* Generation 0 stands for "none installed". *)
Policy == [generation: Nat, grace: BOOLEAN]
Capacity == [generation: Nat, evidence: Evidence, epoch: Nat]

ASSUME ConstantsAssumption ==
  /\ MaxKey \in Nat /\ MaxGrants \in Nat /\ MaxGeneration \in Nat
  /\ MaxEpoch \in Nat /\ MaxCapacityGeneration \in Nat
  /\ MaxPolicyGeneration \in Nat /\ MaxFaults \in Nat
  /\ Published \subseteq Evidence /\ Graces \subseteq BOOLEAN
  /\ NoGrant \notin Grant
  /\ NoRequest \notin Request

VARIABLES
  epoch, incarnation,  \* Impl::epoch, Impl::incarnation
  policy,              \* Impl::policy
  capacity,            \* Impl::capacities
  requests,            \* Impl::requests
  idempotency,         \* Impl::idempotency with Impl::content_hashes
  grants,              \* Impl::grants
  fences,              \* Impl::fence_hashes
  nextGrantId,         \* Impl::next_grant_id
  op,                  \* the method holding the mutex, and what it has left
  disk,                \* what Store::recover and replay would rebuild
  faults,              \* history: appends and accountings that failed
  accepted,            \* history: content of every acknowledged submission
  released             \* history: grants whose release was acknowledged

vars == <<epoch, incarnation, policy, capacity, requests, idempotency, grants,
          fences, nextGrantId, op, disk, faults, accepted, released>>

-----------------------------------------------------------------------------
(* Helpers *)

Idle == [kind |-> "idle"]
FenceOp == [kind: {"fence"}, todo: SUBSET GrantId]
OrphansOp == [kind: {"orphans"}, target: Target, todo: SUBSET GrantId]
RoundOp == [kind: {"round"}, target: Target, todo: SUBSET Key,
            before: [GrantId -> Grant \cup {NoGrant}],
            ids: [Key -> 0 .. MaxGrants], next: 1 .. MaxGrants + 1]
SubmitOp == [kind: {"submit"}, key: Key, content: Request]
ReleaseOp == [kind: {"release"}, grant: GrantId]

Free == op.kind = "idle"

Live(gs, g) == gs[g] # NoGrant /\ gs[g].state \in LiveStates
Authorises(g) == grants[g] # NoGrant /\ grants[g].state \in Authorising

(* Capacity evidence published under the current epoch. *)
Current(t) == capacity[t].generation > 0 /\ capacity[t].epoch = epoch
Usable(t) == Current(t) /\ capacity[t].evidence = "Known"

(* Mutant of Demoted: terminal grants are demoted as well. *)
DemotedAlsoTerminal(r) ==
  IF r # NoGrant THEN [r EXCEPT !.state = "RevalidationRequired"] ELSE r

(* Live grants lose authority when what they are bound to is superseded. *)
Demoted(r) ==
  IF r # NoGrant /\ r.state \in LiveStates
  THEN [r EXCEPT !.state = "RevalidationRequired"]
  ELSE r

(* Mutant of Demote: recovery keeps grants as they were journalled. *)
DemoteNothing(gs) == gs

Demote(gs) == [g \in GrantId |-> Demoted(gs[g])]

(* Mutant of StaleCapacity: evidence stays Known across an epoch change. *)
StaleNoCapacity(cs) == cs

(* Snapshots that were published before become Stale. *)
StaleCapacity(cs) ==
  [t \in Target |-> IF cs[t].generation = 0 THEN cs[t]
                    ELSE [cs[t] EXCEPT !.evidence = "Stale"]]

(* advance_generation followed by transition_to a terminal state. *)
Retired(r, to) == [r EXCEPT !.generation = @ + 1, !.state = to]

(* How a step that appends a record can end: it completes, the append      *)
(* fails, or the record is written and the step fails later, in the sync   *)
(* of the journal or in a check of its own (apply_grant_retirement, or in  *)
(* a round the explanation's validation).                                  *)
Outcome == {"ok", "append", "late"}

(* The bound on generations, applied where a method starts: it advances a  *)
(* grant at most once.                                                     *)
Room(gs) == \A g \in gs : Live(grants, g) => grants[g].generation < MaxGeneration

Charge(w) ==
  /\ w = "ok" \/ faults < MaxFaults
  /\ faults' = IF w = "ok" THEN faults ELSE faults + 1

(* Mutant of PutGrant: the grant record is not journalled. *)
PutGrantUnjournalled(g, r, w) ==
  /\ grants' = [grants EXCEPT ![g] = r]
  /\ disk' = disk
  /\ Charge(w)

(* Memory is written first, then the journal. *)
PutGrant(g, r, w) ==
  /\ grants' = [grants EXCEPT ![g] = r]
  /\ disk' = IF w = "append" THEN disk ELSE [disk EXCEPT !.grants[g] = r]
  /\ Charge(w)

EraseRequest(k, w) ==
  /\ requests' = [requests EXCEPT ![k] = NoRequest]
  /\ disk' = IF w = "append" THEN disk
             ELSE [disk EXCEPT !.requests[k] = NoRequest]
  /\ Charge(w)

(* Loops run over ordered maps. *)
First(x, S) == x \in S /\ \A y \in S : x <= y

-----------------------------------------------------------------------------
(* A coordinator that has just been opened on an empty store: its first    *)
(* epoch is journalled and nothing else.                                   *)

Init ==
  /\ epoch = 1 /\ incarnation = 1
  /\ policy = [generation |-> 0, grace |-> FALSE]
  /\ capacity = [t \in Target |->
                   [generation |-> 0, evidence |-> "Unknown", epoch |-> 0]]
  /\ requests = [k \in Key |-> NoRequest]
  /\ idempotency = [k \in Key |-> NoRequest]
  /\ grants = [g \in GrantId |-> NoGrant]
  /\ fences = {}
  /\ nextGrantId = 1
  /\ op = Idle
  /\ disk = [epoch |-> 1, incarnation |-> 0, policy |-> policy,
             capacity |-> capacity, requests |-> requests,
             idempotency |-> idempotency, grants |-> grants, fences |-> {}]
  /\ faults = 0
  /\ accepted = [k \in Key |-> NoRequest]
  /\ released = {}

(* Broker::set_policy: a higher generation, persisted and then installed.  *)
(* Live grants are left as they are.                                       *)
SetPolicy(p) ==
  /\ Free
  /\ p.generation > policy.generation
  /\ policy' = p
  /\ disk' = [disk EXCEPT !.policy = p]
  /\ UNCHANGED <<epoch, incarnation, capacity, requests, idempotency, grants,
                 fences, nextGrantId, op, faults, accepted, released>>

(* Broker::publish_capacity: a snapshot of the current epoch with a higher *)
(* generation supersedes every live grant on its target, in memory only.   *)
PublishCapacity(t, n, evidence) ==
  /\ Free
  /\ n > capacity[t].generation
  /\ LET c == [generation |-> n, evidence |-> evidence, epoch |-> epoch]
     IN  /\ capacity' = [capacity EXCEPT ![t] = c]
         /\ disk' = [disk EXCEPT !.capacity[t] = c]
  /\ grants' = [g \in GrantId |->
                  IF grants[g] # NoGrant /\ grants[g].target = t
                  THEN Demoted(grants[g]) ELSE grants[g]]
  /\ UNCHANGED <<epoch, incarnation, policy, requests, idempotency, fences,
                 nextGrantId, op, faults, accepted, released>>

(* What Broker::submit answers, in the order it checks. *)
SubmitAnswer(k, content) ==
  IF policy.generation = 0 THEN "PolicyInvalid"
  ELSE IF content.epoch # epoch THEN "EpochMismatch"
  ELSE IF idempotency[k] # NoRequest
       THEN IF idempotency[k] = content THEN "Replay" ELSE "IdentityConflict"
  ELSE IF Cardinality({j \in Key : idempotency[j] # NoRequest}) >= MaxIdempotency
       THEN "ResourceExhausted"
  ELSE "New"

(* Broker::submit, first append.  The other answers change nothing. *)
Submit(k, content) ==
  /\ Free
  /\ SubmitAnswer(k, content) = "New"
  /\ disk' = [disk EXCEPT !.requests[k] = content]
  /\ op' = [kind |-> "submit", key |-> k, content |-> content]
  /\ UNCHANGED <<epoch, incarnation, policy, capacity, requests, idempotency,
                 grants, fences, nextGrantId, faults, accepted, released>>

(* Mutant of FinishSubmit: the result of the second append is ignored. *)
FinishSubmitUnchecked(w) ==
  /\ op.kind = "submit"
  /\ Charge(w)
  /\ disk' = IF w = "ok" THEN [disk EXCEPT !.idempotency[op.key] = op.content]
             ELSE disk
  /\ requests' = [requests EXCEPT ![op.key] = op.content]
  /\ idempotency' = [idempotency EXCEPT ![op.key] = op.content]
  /\ accepted' = [accepted EXCEPT ![op.key] = op.content]
  /\ op' = Idle
  /\ UNCHANGED <<epoch, incarnation, policy, capacity, grants, fences,
                 nextGrantId, released>>

(* Broker::submit, second append: memory changes only when both records    *)
(* are durable, and then the submission is acknowledged.                   *)
FinishSubmit(w) ==
  /\ op.kind = "submit"
  /\ Charge(w)
  /\ IF w = "ok"
     THEN /\ disk' = [disk EXCEPT !.idempotency[op.key] = op.content]
          /\ requests' = [requests EXCEPT ![op.key] = op.content]
          /\ idempotency' = [idempotency EXCEPT ![op.key] = op.content]
          /\ accepted' = [accepted EXCEPT ![op.key] = op.content]
     ELSE UNCHANGED <<disk, requests, idempotency, accepted>>
  /\ op' = Idle
  /\ UNCHANGED <<epoch, incarnation, policy, capacity, grants, fences,
                 nextGrantId, released>>

(* Broker::retire_request: erased from memory, then journalled. *)
RetireRequest(k, w) ==
  /\ Free
  /\ requests[k] # NoRequest
  /\ EraseRequest(k, w)
  /\ UNCHANGED <<epoch, incarnation, policy, capacity, idempotency, grants,
                 fences, nextGrantId, op, accepted, released>>

-----------------------------------------------------------------------------
(* The methods that append before they change memory, when the record is   *)
(* written but its sync fails: the caller gets the error and memory is as  *)
(* before, yet recovery will find the record.                              *)

Unsynced(image) ==
  /\ Charge("late")
  /\ disk' = image
  /\ op' = Idle
  /\ UNCHANGED <<epoch, incarnation, policy, capacity, requests, idempotency,
                 grants, fences, nextGrantId, accepted, released>>

UnsyncedPolicy(p) ==
  /\ Free
  /\ p.generation > policy.generation
  /\ Unsynced([disk EXCEPT !.policy = p])

UnsyncedCapacity(t, n, evidence) ==
  /\ Free
  /\ n > capacity[t].generation
  /\ Unsynced([disk EXCEPT !.capacity[t] =
                 [generation |-> n, evidence |-> evidence, epoch |-> epoch]])

UnsyncedSubmit ==
  /\ op.kind = "submit"
  /\ Unsynced([disk EXCEPT !.idempotency[op.key] = op.content])

UnsyncedFence(b) ==
  /\ Free
  /\ b \notin fences
  /\ Cardinality(fences) < MaxFences
  /\ Unsynced([disk EXCEPT !.fences = @ \cup {b}])

UnsyncedEpoch ==
  /\ Free
  /\ epoch < MaxEpoch
  /\ Unsynced([disk EXCEPT !.epoch = epoch + 1])

-----------------------------------------------------------------------------
(* Broker::arbitrate *)

(* The live grants of the target whose request is gone are collected. *)
Arbitrate(t) ==
  /\ Free
  /\ policy.generation > 0
  /\ Room(GrantId)
  /\ op' = [kind |-> "orphans", target |-> t,
            todo |-> {g \in GrantId : /\ Live(grants, g)
                                      /\ grants[g].target = t
                                      /\ requests[grants[g].key] = NoRequest}]
  /\ UNCHANGED <<epoch, incarnation, policy, capacity, requests, idempotency,
                 grants, fences, nextGrantId, disk, faults, accepted, released>>

(* Each of them is revoked before the round is computed. *)
RevokeOrphan(g, w) ==
  /\ op.kind = "orphans" /\ First(g, op.todo)
  /\ PutGrant(g, Retired(grants[g], "Revoked"), w)
  /\ op' = IF w = "ok" THEN [op EXCEPT !.todo = @ \ {g}] ELSE Idle
  /\ UNCHANGED <<epoch, incarnation, policy, capacity, requests, idempotency,
                 fences, nextGrantId, accepted, released>>

(* Evidence of a superseded epoch is demoted before the round. *)
RoundCapacity(t) ==
  IF Current(t) \/ capacity[t].generation = 0 THEN capacity
  ELSE [capacity EXCEPT ![t].evidence = "Stale"]

(* The stand-in snapshot of a superseded one keeps its generation under an *)
(* authority that claims generation 1, which CapacitySnapshot::validate    *)
(* accepts only when they are equal.                                       *)
StandInInvalid(t) == ~Current(t) /\ capacity[t].generation > 1

(* Mutant of Holds: a demoted grant is not seen as held. *)
HoldsAuthorising(gs, k) ==
  {g \in GrantId : gs[g] # NoGrant /\ gs[g].state \in Authorising /\ gs[g].key = k}

(* The live grants of a request; a candidate brings along the first. *)
Holds(gs, k) == {g \in GrantId : Live(gs, g) /\ gs[g].key = k}

(* Mutant of Admissible: the boot fence is not consulted. *)
AdmissibleFenced(r) ==
  /\ r.epoch = epoch
  /\ r.policy = policy.generation
  /\ Usable(r.target)

(* A request can hold capacity in this round: it passes the authority      *)
(* checks and the evidence is usable.                                      *)
Admissible(r) ==
  /\ r.boot \notin fences
  /\ r.epoch = epoch
  /\ r.policy = policy.generation
  /\ Usable(r.target)

(* The terminal states a round can give to a grant it does not renew.      *)
WithdrawnStates(r) ==
  IF r.boot \in fences THEN {"Fenced"}
  ELSE IF r.epoch # epoch \/ r.policy # policy.generation THEN {"Stale"}
  ELSE {"Stale", "Revoked"}

(* The pure arbitrate call succeeds.  It sees one copy of the grants, and  *)
(* gives a fresh id to each request that is to hold a new grant, in the    *)
(* order of the request map; `ids' is 0 for the others.                    *)
PlanRound(ids, next) ==
  LET t == op.target
      todo == {k \in Key : requests[k] # NoRequest /\ requests[k].target = t}
  IN  /\ op.kind = "orphans" /\ op.todo = {}
      /\ ~StandInInvalid(t)
      /\ \A k \in Key : ids[k] # 0 =>
            /\ k \in todo
            /\ Admissible(requests[k])
            /\ Holds(grants, k) = {}
      /\ \A j, k \in Key : ids[j] # 0 /\ ids[k] # 0 /\ j < k => ids[j] < ids[k]
      /\ next >= nextGrantId
      /\ {ids[k] : k \in Key} \ {0} = nextGrantId .. next - 1
      /\ capacity' = RoundCapacity(t)
      /\ op' = [kind |-> "round", target |-> t, todo |-> todo,
                before |-> grants, ids |-> ids, next |-> next]
      /\ UNCHANGED <<epoch, incarnation, policy, requests, idempotency, grants,
                     fences, nextGrantId, disk, faults, accepted, released>>

(* The pure arbitrate call fails: on its input, or on the accounting it    *)
(* would have produced.                                                    *)
RefuseRound ==
  /\ op.kind = "orphans" /\ op.todo = {}
  /\ StandInInvalid(op.target) \/ Usable(op.target)
  /\ capacity' = RoundCapacity(op.target)
  /\ op' = Idle
  /\ UNCHANGED <<epoch, incarnation, policy, requests, idempotency, grants,
                 fences, nextGrantId, disk, faults, accepted, released>>

(* The authority a round binds the grant of request r to. *)
Bound(r) ==
  [boot |-> r.boot, epoch |-> r.epoch, policy |-> r.policy,
   capacity |-> capacity[r.target].generation]

(* Applying the decision for request k: memory, then journal. *)
Deciding(k) == op.kind = "round" /\ First(k, op.todo)

Apply(k, g, r, w) ==
  /\ PutGrant(g, r, w)
  /\ op' = IF w = "ok" THEN [op EXCEPT !.todo = @ \ {k}] ELSE Idle
  /\ UNCHANGED <<epoch, incarnation, policy, capacity, requests, idempotency,
                 fences, nextGrantId, accepted, released>>

(* A request with no grant is refused, or waits: no grant is written. *)
DecideNothing(k) ==
  /\ Deciding(k)
  /\ op.ids[k] = 0 /\ Holds(op.before, k) = {}
  /\ op' = [op EXCEPT !.todo = @ \ {k}]
  /\ UNCHANGED <<epoch, incarnation, policy, capacity, requests, idempotency,
                 grants, fences, nextGrantId, disk, faults, accepted, released>>

(* A new grant, generation 1, under the id the plan gave it. *)
DecideIssue(k, revocable, w) ==
  /\ Deciding(k)
  /\ op.ids[k] # 0
  /\ Apply(k, op.ids[k],
           [key |-> k, target |-> op.target, generation |-> 1,
            state |-> GrantedState(revocable), revocable |-> revocable,
            authority |-> Bound(requests[k])], w)

(* A grant whose request is refused, or is left with nothing. *)
DecideWithdraw(k, g, to, w) ==
  /\ Deciding(k) /\ First(g, Holds(op.before, k))
  /\ to \in WithdrawnStates(requests[k])
  /\ Apply(k, g, Retired(op.before[g], to), w)

(* Same binding, amount and class: the grant is kept as it is. *)
DecideRenew(k, g, w) ==
  /\ Deciding(k) /\ First(g, Holds(op.before, k))
  /\ Admissible(requests[k])
  /\ op.before[g].authority = Bound(requests[k])
  /\ op.before[g].state # "RecallPending"
  /\ Apply(k, g, op.before[g], w)

(* Anything else replaces the allocation under the next generation.  A     *)
(* grant that shrinks while the policy grants a recall grace is recalled.  *)
DecideUpdate(k, g, revocable, shrinking, w) ==
  /\ Deciding(k) /\ First(g, Holds(op.before, k))
  /\ Admissible(requests[k])
  /\ LET before == op.before[g]
     IN  Apply(k, g,
               [key |-> before.key, target |-> before.target,
                generation |-> before.generation + 1,
                state |-> IF shrinking /\ policy.grace THEN "RecallPending"
                          ELSE GrantedState(revocable),
                revocable |-> revocable,
                authority |-> Bound(requests[k])], w)

(* The state image a compaction writes. *)
Image ==
  [epoch |-> epoch, incarnation |-> incarnation, policy |-> policy,
   capacity |-> capacity, requests |-> requests, idempotency |-> idempotency,
   grants |-> grants, fences |-> fences]

(* The round is over: the id counter advances, RoundCommitted is appended  *)
(* (it carries nothing the grant records do not), and a journal that has   *)
(* grown enough is compacted into a snapshot.                              *)
CommitRound(compact) ==
  /\ op.kind = "round" /\ op.todo = {}
  /\ nextGrantId' = op.next
  /\ disk' = IF compact THEN Image ELSE disk
  /\ op' = Idle
  /\ UNCHANGED <<epoch, incarnation, policy, capacity, requests, idempotency,
                 grants, fences, faults, accepted, released>>

-----------------------------------------------------------------------------
(* Broker::release, revoke, revalidate: the caller presents the current    *)
(* generation of the grant; any other is refused and changes nothing.      *)

Release(g, w) ==
  /\ Free
  /\ Live(grants, g)
  /\ Room({g})
  /\ PutGrant(g, Retired(grants[g], "Released"), w)
  /\ op' = IF w = "ok" THEN [kind |-> "release", grant |-> g] ELSE Idle
  /\ UNCHANGED <<epoch, incarnation, policy, capacity, requests, idempotency,
                 fences, nextGrantId, accepted, released>>

(* Releasing withdraws the request as well; then the caller is answered. *)
FinishRelease(w) ==
  /\ op.kind = "release"
  /\ EraseRequest(grants[op.grant].key, w)
  /\ released' = IF w = "ok" THEN released \cup {op.grant} ELSE released
  /\ op' = Idle
  /\ UNCHANGED <<epoch, incarnation, policy, capacity, idempotency, grants,
                 fences, nextGrantId, accepted>>

(* Releasing a released grant again is acknowledged and changes nothing. *)
ReleaseAgain(g) ==
  /\ Free
  /\ grants[g] # NoGrant /\ grants[g].state = "Released"
  /\ released' = released \cup {g}
  /\ UNCHANGED <<epoch, incarnation, policy, capacity, requests, idempotency,
                 grants, fences, nextGrantId, op, disk, faults, accepted>>

Revoke(g, w) ==
  /\ Free
  /\ Live(grants, g)
  /\ Room({g})
  /\ PutGrant(g, Retired(grants[g], "Revoked"), w)
  /\ UNCHANGED <<epoch, incarnation, policy, capacity, requests, idempotency,
                 fences, nextGrantId, op, accepted, released>>

(* A demoted grant whose request is gone becomes stale.  Otherwise, under  *)
(* known capacity, a policy and an unfenced boot, it is re-bound and       *)
(* authorises again under its next generation.                             *)
Revalidate(g, w) ==
  /\ Free
  /\ grants[g] # NoGrant /\ grants[g].state = "RevalidationRequired"
  /\ Room({g})
  /\ LET r == requests[grants[g].key]
         t == grants[g].target
     IN  IF r = NoRequest
         THEN PutGrant(g, Retired(grants[g], "Stale"), w)
         ELSE /\ capacity[t].generation > 0 /\ capacity[t].evidence = "Known"
              /\ policy.generation > 0
              /\ r.boot \notin fences
              /\ w # "late"
              /\ PutGrant(g,
                   [key |-> grants[g].key, target |-> t,
                    generation |-> grants[g].generation + 1,
                    state |-> GrantedState(grants[g].revocable),
                    revocable |-> grants[g].revocable,
                    authority |-> [boot |-> r.boot, epoch |-> epoch,
                                   policy |-> policy.generation,
                                   capacity |-> capacity[t].generation]], w)
  /\ UNCHANGED <<epoch, incarnation, policy, capacity, requests, idempotency,
                 fences, nextGrantId, op, accepted, released>>

-----------------------------------------------------------------------------
(* Broker::fence_publisher: the fence is journalled, then every live grant *)
(* of the boot is withdrawn, one append each, in id order.                 *)

FencePublisher(b) ==
  /\ Free
  /\ b \notin fences
  /\ Cardinality(fences) < MaxFences
  /\ Room(GrantId)
  /\ fences' = fences \cup {b}
  /\ disk' = [disk EXCEPT !.fences = @ \cup {b}]
  /\ LET held == {g \in GrantId : Live(grants, g) /\ grants[g].authority.boot = b}
     IN  op' = IF held = {} THEN Idle ELSE [kind |-> "fence", todo |-> held]
  /\ UNCHANGED <<epoch, incarnation, policy, capacity, requests, idempotency,
                 grants, nextGrantId, faults, accepted, released>>

FenceGrant(g, w) ==
  /\ op.kind = "fence" /\ First(g, op.todo)
  /\ PutGrant(g, Retired(grants[g], "Fenced"), w)
  /\ op' = IF w # "ok" \/ op.todo = {g} THEN Idle
           ELSE [op EXCEPT !.todo = @ \ {g}]
  /\ UNCHANGED <<epoch, incarnation, policy, capacity, requests, idempotency,
                 fences, nextGrantId, accepted, released>>

(* Broker::advance_epoch *)
AdvanceEpoch ==
  /\ Free
  /\ epoch < MaxEpoch
  /\ epoch' = epoch + 1
  /\ disk' = [disk EXCEPT !.epoch = epoch + 1]
  /\ grants' = Demote(grants)
  /\ capacity' = StaleCapacity(capacity)
  /\ UNCHANGED <<incarnation, policy, requests, idempotency, fences,
                 nextGrantId, op, faults, accepted, released>>

(* Ids continue above every grant that was recovered. *)
AboveRecovered(next) ==
  /\ \A g \in GrantId : g >= next => disk.grants[g] = NoGrant
  /\ next > 1 => disk.grants[next - 1] # NoGrant
  /\ nextGrantId' = next

(* What is read back as it was written.  A snapshot also brings back the   *)
(* incarnation it names.                                                   *)
Reload ==
  /\ incarnation' = IF disk.incarnation = 0 THEN disk.epoch + 1
                    ELSE disk.incarnation
  /\ policy' = disk.policy
  /\ requests' = disk.requests
  /\ idempotency' = disk.idempotency
  /\ fences' = disk.fences

(* The process dies at any point, also while a method is between two       *)
(* appends, and Broker::open recovers the store: live grants and evidence  *)
(* are demoted, and the next epoch is journalled.                          *)
Restart(next) ==
  /\ epoch < MaxEpoch /\ disk.epoch < MaxEpoch
  /\ AboveRecovered(next) /\ Reload
  /\ epoch' = disk.epoch + 1
  /\ capacity' = StaleCapacity(disk.capacity)
  /\ grants' = Demote(disk.grants)
  /\ disk' = [disk EXCEPT !.epoch = @ + 1]
  /\ op' = Idle
  /\ UNCHANGED <<faults, accepted, released>>

(* The read-only methods, and calls that are refused or already done. *)
Query == Free /\ UNCHANGED vars

-----------------------------------------------------------------------------

Next ==
  \/ \E n \in 1 .. MaxPolicyGeneration, grace \in Graces :
       SetPolicy([generation |-> n, grace |-> grace])
  \/ \E t \in Target, n \in 1 .. MaxCapacityGeneration, e \in Published :
       PublishCapacity(t, n, e)
  \/ \E k \in Key, t \in Target, b \in Boot, n \in 1 .. MaxPolicyGeneration :
       Submit(k, [target |-> t, boot |-> b, epoch |-> epoch, policy |-> n])
  \/ \E w \in {"ok", "append"} : FinishSubmit(w)
  \/ \E k \in Key, w \in Outcome : RetireRequest(k, w)
  \/ \E n \in 1 .. MaxPolicyGeneration, grace \in Graces :
       UnsyncedPolicy([generation |-> n, grace |-> grace])
  \/ \E t \in Target, n \in 1 .. MaxCapacityGeneration, e \in Published :
       UnsyncedCapacity(t, n, e)
  \/ UnsyncedSubmit
  \/ \E b \in Boot : UnsyncedFence(b)
  \/ UnsyncedEpoch
  \/ \E t \in Target : Arbitrate(t)
  \/ \E g \in GrantId, w \in Outcome : RevokeOrphan(g, w)
  \/ RefuseRound
  \/ \E ids \in [Key -> 0 .. MaxGrants], n \in 1 .. MaxGrants + 1 :
       PlanRound(ids, n)
  \/ \E k \in Key : DecideNothing(k)
  \/ \E k \in Key, revocable \in BOOLEAN, w \in Outcome :
       DecideIssue(k, revocable, w)
  \/ \E k \in Key, g \in GrantId, to \in Terminal, w \in Outcome :
       DecideWithdraw(k, g, to, w)
  \/ \E k \in Key, g \in GrantId, w \in Outcome : DecideRenew(k, g, w)
  \/ \E k \in Key, g \in GrantId, revocable, shrinking \in BOOLEAN,
        w \in Outcome : DecideUpdate(k, g, revocable, shrinking, w)
  \/ \E compact \in BOOLEAN : CommitRound(compact)
  \/ \E g \in GrantId, w \in Outcome : Release(g, w)
  \/ \E w \in Outcome : FinishRelease(w)
  \/ \E g \in GrantId : ReleaseAgain(g)
  \/ \E g \in GrantId, w \in Outcome : Revoke(g, w)
  \/ \E g \in GrantId, w \in Outcome : Revalidate(g, w)
  \/ \E b \in Boot : FencePublisher(b)
  \/ \E g \in GrantId, w \in Outcome : FenceGrant(g, w)
  \/ \E n \in 1 .. MaxGrants + 1 : Restart(n)
  \/ AdvanceEpoch
  \/ Query

Spec == Init /\ [][Next]_vars

-----------------------------------------------------------------------------
(* Properties *)

(* Every variable has its type. *)
TypeOK ==
  /\ epoch \in Nat /\ incarnation \in Nat
  /\ policy \in Policy
  /\ capacity \in [Target -> Capacity]
  /\ requests \in [Key -> Request \cup {NoRequest}]
  /\ idempotency \in [Key -> Request \cup {NoRequest}]
  /\ grants \in [GrantId -> Grant \cup {NoGrant}]
  /\ fences \in SUBSET Boot
  /\ nextGrantId \in 1 .. MaxGrants + 1
  /\ op \in {Idle} \cup FenceOp \cup OrphansOp \cup RoundOp
              \cup SubmitOp \cup ReleaseOp
  /\ disk \in [epoch: Nat, incarnation: Nat, policy: Policy,
               capacity: [Target -> Capacity],
               requests: [Key -> Request \cup {NoRequest}],
               idempotency: [Key -> Request \cup {NoRequest}],
               grants: [GrantId -> Grant \cup {NoGrant}],
               fences: SUBSET Boot]
  /\ faults \in Nat
  /\ accepted \in [Key -> Request \cup {NoRequest}]
  /\ released \in SUBSET GrantId

(* A grant that authorises consumption is bound to the current epoch and   *)
(* to the installed, Known capacity generation of its target, whatever     *)
(* append failures and crashes happened before (publish_capacity,          *)
(* advance_epoch, open and arbitrate together).                            *)
AuthorityIsCurrent ==
  \A g \in GrantId : Authorises(g) =>
    LET t == grants[g].target
    IN  /\ grants[g].authority.epoch = epoch
        /\ grants[g].authority.capacity = capacity[t].generation
        /\ Usable(t)

(* An acknowledged submission stays recorded with exactly its content      *)
(* across crashes and failed appends, and no other content is ever held    *)
(* for that identity (submit, load_snapshot, replay_records).              *)
SubmissionIsDurable ==
  \A k \in Key : accepted[k] # NoRequest =>
    /\ idempotency[k] = accepted[k]
    /\ requests[k] \in {NoRequest, accepted[k]}

(* A request never holds two live grants, also not after a crash in the    *)
(* middle of a round (arbitrate looks only at the first live one).         *)
OneLiveGrantPerRequest ==
  \A g, h \in GrantId :
    Live(grants, g) /\ Live(grants, h) /\ grants[g].key = grants[h].key => g = h

(* Once fence_publisher has returned, nothing of the fenced boot           *)
(* authorises consumption again: no round, revalidation or recovery brings *)
(* it back.                                                                *)
FencedNeverAuthorises ==
  op.kind # "fence" =>
    \A g \in GrantId : Authorises(g) => grants[g].authority.boot \notin fences

(* A release that was acknowledged is never undone. *)
ReleasedStaysReleased ==
  \A g \in released : grants[g] # NoGrant /\ grants[g].state = "Released"

(* A grant id always names the same request, its generation never goes     *)
(* back and a terminal grant is final, across rounds and recoveries.       *)
GrantHistoryIsKept ==
  [][\A g \in GrantId : grants[g] # NoGrant =>
       /\ grants'[g] # NoGrant
       /\ grants'[g].key = grants[g].key
       /\ grants'[g].generation >= grants[g].generation
       /\ grants[g].state \in Terminal => grants'[g] = grants[g]]_vars

(* A grant that has lost its authority regains it only under a higher      *)
(* generation: a holder that kept the old generation stays refused.        *)
OldGenerationNeverAuthorises ==
  [][\A g \in GrantId :
       grants[g] # NoGrant /\ ~Authorises(g) /\ Authorises(g)' =>
         grants'[g].generation > grants[g].generation]_vars

-----------------------------------------------------------------------------
(* What the documentation says and the code does not do.  Each of these is *)
(* violated; README.md tells the behaviour behind each counterexample.     *)

(* Every state change of a grant is in the lifecycle table. *)
TransitionsAreLegal ==
  [][\A g \in GrantId : grants[g] # NoGrant /\ grants'[g] # NoGrant =>
       LegalTransition(grants[g].state, grants'[g].state)]_vars

(* A restarted coordinator has a new incarnation. *)
RestartTakesNewIncarnation ==
  [][(\E n \in 1 .. MaxGrants + 1 : Restart(n)) => incarnation' # incarnation]_vars

(* Revalidation re-binds the restored request to the current epoch. *)
RevalidationRebindsRequest ==
  \A g \in GrantId :
    Authorises(g) /\ requests[grants[g].key] # NoRequest =>
      requests[grants[g].key].epoch = epoch

(* A round over superseded evidence proceeds instead of failing outright. *)
SupersededEvidenceFailsNoRound ==
  [][RefuseRound => Current(op.target)]_vars

(* An id and a generation never come to name the grant of another request, *)
(* also not after a round that stopped at a failed append (arbitrate       *)
(* advances next_grant_id only when it has applied every decision).        *)
GenerationNeverReused ==
  [][\A g \in GrantId : grants[g] # NoGrant /\ grants'[g] # NoGrant =>
       /\ grants'[g].generation >= grants[g].generation
       /\ grants'[g].key = grants[g].key]_vars

(* Submitting byte-identical content again returns the recorded outcome. *)
DuplicateIsReplayed ==
  \A k \in Key : Free /\ accepted[k] # NoRequest =>
    SubmitAnswer(k, accepted[k]) = "Replay"
=============================================================================
