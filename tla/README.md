# A verification project for Bandwidth Broker

TLA+ models of the coordinator, its arbitration engine, its durable store and
the sessions of its clients, the TLC runs that check them on small instances, and TLAPS proofs of the
properties that matter most. Paths below are relative to the repository.

## The system

| Part | Source | Model |
| --- | --- | --- |
| Grant lifecycle: states, which are live, which authorise, legal transitions | `src/grant.cpp` | `Grants` |
| Coordinator: one mutex, one method per operation, each method a series of journal appends and memory changes | `src/broker.cpp` | `Coordinator` |
| Arbitration round: admission, pools, minima, discretionary passes, borrowing, contingent capacity, decisions | `src/arbitrator.cpp`, `src/policy.cpp` | `Arbitrator` |
| Hierarchical weighted max-min fair share | `src/fairness.cpp` | `Fairness` |
| Books of a resource and out-of-round retirement | `src/accounting.cpp` | `Accounting` |
| Store: journals, snapshots, manifest, compaction, recovery | `src/persistence.cpp` | `Store`, `DurableLog` |
| Obligations, capacity evidence, policy, requests | `src/obligation.cpp`, `src/capacity.cpp`, `src/policy.cpp`, `src/request.cpp` | as data of `Coordinator` and `Arbitrator`; field validation is left out |
| Frames and the incremental decoder | `src/wire.cpp` (the framing) | `Framing` |
| Clients, connections, the server's threads, shutdown | `src/server.cpp`, `src/client.cpp`, `src/net.cpp` | `Session` |
| Encoding of the payloads | `src/wire.cpp` (the codecs) | not modelled: a payload decodes, fails at its end or fails before it |
| Explanations, checksums, text, errors, tools | `src/explanation.cpp`, ... | not modelled: pure or cosmetic |

A requester submits a request; a round reads the policy, the capacity
evidence, the obligations and the requests of one target and decides a grant
for each; releases, revocations, fences, epoch changes and revalidations change
grants between rounds. Each change is a record in the store, and a restart
rebuilds the coordinator from the records. Requesters and operators are
processes of their own: each has a connection, the server has a thread for each
connection, and every request becomes one or two calls of the broker.

## Modules

**Grants** holds the lifecycle and nothing else; `Coordinator` and `Arbitrator`
extend it.

**Coordinator** is about *authority*: epochs, incarnations, generations, fences
and durability. Amounts are left out; which requests a round serves is an
arbitrary choice among those the arbitrator may serve. The variable `disk` is
what replaying the store would yield, and every method that appends more than
once is split into steps at its appends (`op` says where the method is), since
a crash or a failed append falls there. The broker's mutex makes methods atomic
with respect to each other, so `op` admits one at a time. An append has three
outcomes: it succeeds, it fails and nothing is written, or it fails after the
record reached the file (`Outcome`, the `Unsynced...` actions); `MaxFaults`
bounds the failures and 0 gives the reliable instance. `Restart` is a crash at
any point followed by `Broker::open`: `Reload` is what the snapshot and the
records restore, `AboveRecovered` the counter that keeps grant ids fresh, and
live grants are demoted and the epoch advanced as `open` does. `accepted` and
`released` are history variables: the submissions and the releases that were
acknowledged.

**Arbitrator** is about *amounts*. One round is a function from the state to a
run record that goes through the phases of `arbitrate` in order, and the
broker's other methods are actions between rounds. Appends succeed here:
failures are the coordinator's and the store's subject.

**Fairness** is progressive filling by whole quanta, with the tie-breaking and
the rounding of the code. `Step` is one turn of the filling loop and `Fill` folds
it over the participants, since every turn satisfies one of them or is the last.

**Accounting** has the books, the equations `validate` checks, and retirement.

**Store** keeps files as functions from sequence numbers: a snapshot holds the
list of records whose effect it contains, a journal the list of its entries,
`Torn` standing for bytes that are not a record. `compact` and `recover` are
split at their file operations. `DurableLog` is what a store promises, and
`Recovered`, what recovery would read from the present files, is the refinement
mapping. What may go wrong besides a clean crash is a constant, `Faults`:
`unsynced` (the record is in the file, the call fails), `torn` (part of it is),
`tail` (the process dies half way through a record), `header` (it dies between
creating a journal and writing its header), `io` (a step of compaction fails)
and `rot` (the newest snapshot fails its checksum). Directory-entry durability
after a rename is assumed.

**Framing** is `encode_frame` and `FrameDecoder` over cells instead of bytes: a
frame is a header cell and as many cells as its payload is long. A cell that is
not intact is one the header check or the payload checksum refuses. `feed` and
`next` keep the buffer, the read offset and the failed flag of the code.

**Session** has one client per connection, which makes one call at a time
(`Connect`, `Call`, `TakeReply`, `ClientReceive`, `Close`), the acceptor thread
(`AcceptOne`, `Admit`, `AcceptorExit`), one handler thread per accepted
connection and the thread that calls `stop()` (`StopFlag`, `StopListener`,
`StopJoin`, `StopDrained`). A handler is `serve_connection`: its field `pc` says
whether it polls, looks for the next frame, is between the two broker calls of a
request, sends a reply, or ends. A stream is a sequence of cells in each
direction that arrives in arbitrary chunks. Messages that the server treats
alike share an action: `Change` is PublishCapacity, SetPolicy, Release and
Revoke, `Query` is QueryGrant, QueryAccounting and Explain. Of a payload only
its form matters: it decodes, the handshake rejects what it says, decoding fails
at the end, or decoding fails and leaves bytes behind, in which case the server
answers twice. Of the broker, `Session` keeps the fenced boots and `version`,
the number of calls made so far that may have changed something, which dates
what a reply was read from. A send waits while the socket is full, fails or goes
unnoticed when the client has gone, and is not made at all when the reply does
not fit into a frame. `effects`, `began`, `knew` and `unsent` are history
variables. The situation (options, scripts of calls, which clients may die,
whether frames are damaged, whether the owner stops the server) is chosen in
`Init` among `Setups`, so that one run adds small situations up instead of
multiplying them.

`MCCoordinator`, `MCArbitrator`, `MCFairness` and `MCSession` instantiate the models;
`CoordinatorTypes` (types), `CoordinatorBooks` and `CoordinatorBookSteps`
(memory against store), `CoordinatorAuthority` (what justifies a grant) and
`CoordinatorProofs` (the inductive invariant and its consequences) hold the
proofs about the coordinator, each extending the ones before; `AccountingProofs`
those about the arbitrator's books and `SessionProofs` those about the server's
threads.

## What is checked

| Run | Bounds | Shows |
| --- | --- | --- |
| `Coordinator_reliable` | 2 requests, 2 grants, 2 epochs, crashes anywhere | authority is current, one live grant per request, fences and releases stay, history is kept, old generations never authorise |
| `Coordinator_single` | 1 request, 2 boots, 4 generations, 3 epochs, all evidence states, recall grace | fences, releases, history and old generations over long histories |
| `Coordinator_faulty` | 2 targets, one failed append | types, authority is current and submissions are durable in spite of failures |
| `Fairness` | 3 leaves, 2 branches, weights 1 and 3, demands up to 4, offers up to 8, quanta 1 and 2 | demand safety, work conservation, max-min up to a quantum |
| `Arbitrator_pools` | 3 requests in 8 mixes of 4 shapes, 3 policies, 1 round | minima first, strict priority, nothing left that could be used |
| `Arbitrator_books` | a borrower and the owner of an obligation, 2 rounds, 3 supplies | no oversubscription, exact retirement, no shrinking in place |
| `Arbitrator_aging` | 2 classes, thresholds 1 and 2, 4 rounds | waiting is bounded by the aging threshold |
| `Store` | 7 records, 3 crashes or failures, compaction after 2 | acknowledged records are recovered, memory has nothing the files lack, recovery is never refused, and the files implement `DurableLog` |
| `Store_damaged` | all kinds of damage | what is recovered is never out of order or repeated |
| `Session` | 2 clients, up to 5 calls, frames of up to 3 cells in chunks of up to 2, budgets of 1 and 2, 4 situations | requests are taken in order and once, an answer belongs to its call and is not older than it, only greeted sessions change anything, the count of handlers is right, calls return, `stop()` returns and leaves no thread |

The bounds are the smallest at which the cases occur: two requests for a
conflict over a grant, two grants for a fence or a round that stops half way,
three compactions for the third snapshot to push out the first, three epochs
for a demoted grant to be revalidated and demoted again, two sessions for a
call that falls between the two broker calls of another, a frame longer than a
chunk for the decoder to wait, a second client for the budget. Counters (generations,
epochs, records) are cut off by guards and are named by the constants. Deadlock
is checked except where the model ends by design: a fair share is computed
once, a damaged store may refuse to open, and sessions end.

Fairness is assumed in two places. In `Store!FairSpec` a method that started
goes on (it holds the mutex and waits for nobody) and rounds keep being
requested. In `Session!FairSpec` a thread that can go on does: the acceptor and
the handlers poll with a timeout and broker calls return, a `stop()` that has
begun proceeds, and a client that waits in `exchange` reads what has arrived;
nobody has to connect, call, close or stop. The bound on waiting for a grant is
a safety property over rounds, so that it needs none. `CallsReturn` and
`StopReturns` are checked with sockets that take all replies of the instance:
a client that leaves a surplus reply unread can otherwise block its handler
(`Session_blocked`).

## Where the code and its documents differ

Each of these configurations checks one statement of a document or a comment,
quoted where the property is defined, and TLC refutes it. Two of them,
`Coordinator_reissue` and `Store_tail`, are among the
project's runs and have a finding in `PROJECT.json`; the others are kept for
reference and are run by hand (`tlc -config <name>.cfg <module>`, the module
being `MCCoordinator`, `MCFairness`, `MCArbitrator`, `MCSession` or `Store`).

- `Coordinator_fence_fault`: after a failed append a fenced boot keeps grants.
- `Coordinator_release_fault`: a release that was never journalled is confirmed
  and undone by a restart.
- `Coordinator_reissue`: a round that stopped at a failed append hands out its
  grant ids and generations again.
- `Coordinator_transitions`: a round takes transitions outside the table.
- `Coordinator_incarnation`: a restart from a snapshot keeps the old incarnation.
- `Coordinator_rebind`: revalidation leaves the request in its old epoch.
- `Coordinator_standin`: superseded evidence fails the round.
- `Coordinator_duplicate`: a repeated submission is refused after a restart.
- `Fairness_monotone`, `Fairness_starved`: the rounding takes a quantum away as
  capacity grows, and can leave a demand with none.
- `Arbitrator_reserve`, `Arbitrator_renewal`: retirement after reserve use or
  after a renewal leaves books that do not close.
- `Arbitrator_burst`, `Arbitrator_minima`, `Arbitrator_cap`,
  `Arbitrator_headroom`: the burst pass gives nothing above `desired`, ignores
  `allow_discretionary`, a group cap binds each request alone, and the policy's
  headroom target is not used.
- `Arbitrator_revalidate`: revalidated grants are not added up.
- `Store_torn`, `Store_tail`, `Store_rot`, `Store_header`, `Store_full`: records
  behind a damaged one are lost, now or at the second restart; the previous
  snapshot lacks its journals; a half-created journal blocks recovery; a full
  journal is never compacted.
- `Session_unsent`: a reply that does not fit into a frame is dropped and the
  connection stays open, so that its client waits for ever; the comment at
  `src/server.cpp:28` says that a failure closes the connection.
- `Session_handshake`: a client that connects after a Shutdown request waits for
  ever, since the acceptor has ended and the listener is still open;
  `include/bandwidth_broker/client.hpp:30` calls the wait bounded.
- `Session_shutdown`: a Shutdown request ends the threads but not the process,
  which goes on reading its input (`tools/bb_coordinator.cpp:109`).
- `Session_surplus`: after a request that was answered twice every later call of
  the session fails, for `exchange` returns at the first reply instead of waiting
  for the matching one (`src/client.cpp:18`).
- `Session_blocked`: a handler that waits for a client to read keeps `stop()`
  from returning; the comment at `src/server.cpp:515` knows only of handlers
  inside a broker call.

The session model also shows behaviour that no document rules out: two operators
who fence the same boot at the same time may both be told that it was not fenced
before, the grants in the reply to Arbitrate may be of a later state than its
round, and a session goes on after its boot has been fenced.

## What is proved

About the coordinator, for every set of targets and boots, all bounds and any
number of faults, from the assumptions on the constants alone:

- `TypeCorrect` (in `CoordinatorTypes`): the type invariant;
- `AuthorityTheorem` (in `CoordinatorProofs`): a grant that authorises consumption is bound to the
  present epoch and to the generation of its target's capacity evidence, and
  that evidence is usable;
- `SubmissionTheorem` (in `CoordinatorProofs`): an acknowledged submission stays in the idempotency
  table with its content, and no other content is held for its identity.

The last two rest on one inductive invariant, the conjunction `IInv` of five
parts. `TInv` is the types and what a method in progress relies on (the grants it has left to
withdraw are live, the requests it has left to decide exist). `BookInv` relates
memory and disk: the disk knows the epoch and every idempotency entry of
memory, because both are appended before memory changes; without it a restart
could return to an epoch in which an old grant would authorise again. It also
says that every grant, in memory, on disk or in the copy a round keeps to fall
back on, belongs to a recorded identity. `AuthInv` states the property for the
grants and for that copy. `PlanInv` says that a request for which the round in
progress has reserved a grant id is still admissible when the grant is written,
since nothing that admission rests on changes while the round holds the mutex.
`Stored` says that evidence recovered as Known was once published.

`AccountingProofs`, for all amounts: `RetirementCloses`, that retiring a grant
whose funding is booked and free of reserve capacity keeps the books closed;
and `ReserveRetirementNeverCloses`, that with reserve capacity it never does.

`SessionProofs`, for any number of connections, any budget and any scripts:
`ConnectionsAreCounted`, that the counter is the number of handlers that run and
respects `max_connections`; `StoppedServerIsQuiet`, that no thread is left when
`stop()` has returned; and `SessionBeforeChange`, that no broker call succeeds for
a connection whose handshake was not accepted. The first two need the invariant `Places`: a connection is in
one place only (not made yet, in the backlog, in the hand of the acceptor, or
served), for otherwise a handler could be started, and counted, twice; and
`Stopping`: once `stop()` has joined the acceptor it stays ended, so that nobody
raises the counter after it was seen to be 0. Every other step of a handler only
moves a running handler on (`Moves`). The third adds `Greeted`: a handler between
two broker calls of one request has its session already, and no step of a handler
takes a session away (`Keeps`).

Only model-checked: everything about the fair share (an induction over the
turns of its loop), the arbitrator's properties, the store and its refinement,
the liveness of calls and of `stop()` (fairness is out of the proof system's
reach), frames and answers, and of the coordinator the properties that hold only
when appends succeed.

## Not modelled

- The payload codecs (`src/wire.cpp`, from the primitives on): pure functions
  between records and bytes, and a model of them would repeat the field lists.
  Their only effect on control, whether a payload decodes and whether bytes are
  left, is in `Session`.
- Explanations (`src/explanation.cpp`) and the helpers for text, checksums and
  errors: they change no state; a checksum appears as intact or damaged.
- Validation of the fields of policies, capacities, requests and obligations:
  the models start from values that pass it.
- The command line tools, except for how `bb_coordinator` stops the server.
- A message type that no client method sends (the `default` of the server's
  switch), and a well-formed request with bytes behind it.
- Arithmetic at the limits of 64-bit amounts, which the limits of the inputs
  exclude, and the durability of directory entries.
- SIGPIPE: a send to a closed connection is taken to return an error. The race
  between `stop()` and the acceptor on the listener's handle is taken to end in
  a failed or a completed accept.

## Plan

1. Proofs of the reliable coordinator's properties (one live grant per request,
   fences, releases, old generations) from an inductive invariant that relates
   memory and `disk`.
2. Proof that the store's recovery holds every acknowledged record.
3. An abstract lease specification (who may consume, under which generation)
   that the coordinator implements.
4. Wait counters across a restart.
5. Proof that an answer belongs to its call.
