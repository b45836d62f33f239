------------------------------- MODULE Store -------------------------------
(***************************************************************************)
(* The durable store (persistence.cpp) as the broker drives it: journals   *)
(* of records, full snapshots that retire the journals they cover, and the *)
(* recovery that reads them back.  Crashes fall between the file           *)
(* operations of a method.  A record is known by the order in which it was *)
(* handed to append; payloads are not modelled.                            *)
(***************************************************************************)
EXTENDS Naturals, Sequences, FiniteSets, FiniteSetsExt, SequencesExt, Functions, TLC

CONSTANTS
  MaxWrites,        \* bound: records ever handed to append
  CompactAt,        \* StoreOptions::compaction_records
  MaxJournal,       \* StoreOptions::max_journal_records
  MaxSnapshots,     \* limits::kMaxSnapshotCount
  Faults,           \* what may go wrong besides a crash between two operations
  MaxFaults         \* bound: how often it does

ASSUME StoreBounds ==
  /\ MaxWrites \in Nat /\ CompactAt \in Nat \ {0} /\ MaxJournal \in Nat \ {0}
  /\ MaxSnapshots \in Nat \ {0} /\ MaxFaults \in Nat
  /\ Faults \subseteq {"unsynced", "torn", "tail", "header", "io", "rot"}

VARIABLES
  manifest,         \* a manifest file exists
  snapshots,        \* sequence -> snapshot file
  journals,         \* first sequence -> journal file
  stage,            \* where the process is: down, serving, or inside a method
  journal,          \* first sequence of the open journal, 0 for none
  records,          \* Impl::journal_records
  full,             \* Impl::at_capacity
  reported,         \* report.last_sequence, set by recover
  audit,            \* the broker's audit_sequence
  memory,           \* the records whose effect the broker's state has
  image,            \* sequence of the snapshot being written
  written,          \* records handed to append so far
  acked,            \* records whose append returned success
  faults            \* faults so far

disk == <<manifest, snapshots, journals>>
process == <<stage, journal, records, full, reported, audit, memory, image>>
vars == <<disk, process, written, acked, faults>>

Id == 1 .. MaxWrites
Sequence == 0 .. MaxWrites

(* The bytes of a record whose write stopped part way. *)
Torn == [sequence |-> 0, id |-> 0]
Entry == [sequence : Sequence, id : Id] \cup {Torn}
Snapshot == [audit : Sequence, log : Seq(Id), intact : BOOLEAN]
Journal == [header : BOOLEAN, entries : Seq(Entry)]

(* "recovered" is the end of recover, "compact" to "create" the points of  *)
(* compact, both on their way to create_journal; "header" is the moment    *)
(* its file is empty.                                                      *)
Stages == {"down", "recovered", "ready", "compact", "saved", "closed", "create",
           "header"}

(* Something goes wrong, as often as the bound allows. *)
Fault(kind) == kind \in Faults /\ faults < MaxFaults /\ faults' = faults + 1

(***************************************************************************)
(* Reading the files back                                                  *)
(***************************************************************************)
(* read_snapshot and the loop over the snapshots: the newest intact one. *)
Newest ==
  LET intact == {s \in DOMAIN snapshots : snapshots[s].intact}
  IN  IF intact = {} THEN 0 ELSE Max(intact)

Base == IF Newest = 0 THEN << >> ELSE snapshots[Newest].log

Damaged(f) == Torn \in ToSet(journals[f].entries)

(* Mutant of Scan: the record the snapshot ends with is read again. *)
ScanInclusive(f) ==
  LET entries == journals[f].entries
      after == Newest
      stop == SelectInSeq(entries, LAMBDA e : e = Torn)
      whole == IF stop = 0 THEN entries ELSE SubSeq(entries, 1, stop - 1)
  IN  SelectSeq(whole, LAMBDA e : e.sequence >= after)

(* scan_journal: the records before the first damaged one, newer than the  *)
(* snapshot.                                                               *)
Scan(f) ==
  LET entries == journals[f].entries
      after == Newest
      stop == SelectInSeq(entries, LAMBDA e : e = Torn)
      whole == IF stop = 0 THEN entries ELSE SubSeq(entries, 1, stop - 1)
  IN  SelectSeq(whole, LAMBDA e : e.sequence > after)

(* Mutant of Scanned: the journals are read from the last to the first. *)
ScannedBackwards ==
  SetToSortSeq(DOMAIN journals, LAMBDA f, g : f > g)

(* The journals recovery opens: in order, up to the first damaged one. *)
Scanned ==
  SetToSortSeq({f \in DOMAIN journals :
                  \A g \in DOMAIN journals : g < f => ~Damaged(g)},
               LAMBDA f, g : f < g)

Replayed ==
  LET order == Scanned IN FlattenSeq([i \in DOMAIN order |-> Scan(order[i])])

(* The state recovery rebuilds, and the sequence it ends at. *)
Recovered ==
  LET tail == Replayed IN Base \o [i \in DOMAIN tail |-> tail[i].id]
LastSequence ==
  LET tail == Replayed IN IF tail = << >> THEN Newest ELSE Last(tail).sequence

(* recover goes through: the manifest is there unless the directory is     *)
(* empty, and every journal it opens has its header.                       *)
Empty == DOMAIN snapshots = {} /\ DOMAIN journals = {}
Readable ==
  /\ manifest \/ Empty
  /\ \A i \in DOMAIN Scanned : journals[Scanned[i]].header

(***************************************************************************)
(* Actions                                                                 *)
(***************************************************************************)
Init ==
  /\ manifest = FALSE /\ snapshots = << >> /\ journals = << >>
  /\ stage = "down" /\ journal = 0 /\ records = 0 /\ full = FALSE
  /\ reported = 0 /\ audit = 0 /\ memory = << >> /\ image = 0
  /\ written = 0 /\ acked = {} /\ faults = 0



(* recover, up to the creation of the journal it goes on with, and the     *)
(* broker's load_snapshot and replay_records.                              *)
Recover ==
  /\ stage = "down" /\ Readable
  /\ manifest' = TRUE
  /\ reported' = LastSequence
  /\ audit' = Max({IF Newest = 0 THEN 0 ELSE snapshots[Newest].audit}
                  \cup {Replayed[i].sequence : i \in DOMAIN Replayed})
  /\ memory' = Recovered
  /\ image' = LastSequence /\ stage' = "recovered" /\ full' = FALSE
  /\ UNCHANGED <<snapshots, journals, journal, records, written, acked, faults>>

(* create_journal opens its file with "wb+": a file of that name is        *)
(* emptied.                                                                *)
OpenJournal ==
  /\ stage \in {"recovered", "create"} /\ stage' = "header"
  /\ journals' = (image + 1 :> [header |-> FALSE, entries |-> << >>]) @@ journals
  /\ UNCHANGED <<manifest, snapshots, journal, records, full, reported, audit,
                 memory, image, written, acked, faults>>

WriteHeader ==
  /\ stage = "header" /\ stage' = "ready"
  /\ journals' = [journals EXCEPT ![image + 1].header = TRUE]
  /\ journal' = image + 1 /\ records' = 0
  /\ UNCHANGED <<manifest, snapshots, full, reported, audit, memory, image,
                 written, acked, faults>>

(* create_journal cannot open the file: compact returns and the broker     *)
(* goes on without a journal.  (recover returns too, but its caller gives  *)
(* up: that is Crash.)                                                     *)
CreateFails ==
  /\ stage = "create" /\ Fault("io") /\ stage' = "ready"
  /\ UNCHANGED <<disk, journal, records, full, reported, audit, memory, image,
                 written, acked>>

Put(entry) == journals' = [journals EXCEPT ![journal].entries = Append(@, entry)]

(* Store::needs_compaction. *)
NeedsCompaction(n) == full \/ n >= CompactAt

(* persist and append succeed.  The record that commits a round is         *)
(* followed by the compaction check of arbitrate; other callers never      *)
(* compact.                                                                *)
Persist(commit) ==
  /\ stage = "ready" /\ journal # 0 /\ records < MaxJournal
  /\ written < MaxWrites /\ written' = written + 1
  /\ Put([sequence |-> audit + 1, id |-> written'])
  /\ records' = records + 1 /\ audit' = audit + 1
  /\ memory' = Append(memory, written') /\ acked' = acked \cup {written'}
  /\ stage' = IF commit /\ NeedsCompaction(records') THEN "compact" ELSE "ready"
  /\ UNCHANGED <<manifest, snapshots, journal, full, reported, image, faults>>

(* append fails after its first byte: the whole record is in the file but  *)
(* was not synced, or only a part of it is.  Nothing else advances, and    *)
(* the next record takes the same sequence.                                *)
PersistFails ==
  /\ stage = "ready" /\ journal # 0 /\ records < MaxJournal
  /\ written < MaxWrites /\ written' = written + 1
  /\ \/ Fault("unsynced") /\ Put([sequence |-> audit + 1, id |-> written'])
     \/ Fault("torn") /\ Put(Torn)
  /\ UNCHANGED <<manifest, snapshots, process, acked>>

(* Store::flush syncs what append already wrote. *)
Flush == stage = "ready" /\ UNCHANGED vars

(* append refuses a record of a full journal before it writes a byte. *)
PersistRefused ==
  /\ stage = "ready" /\ journal # 0 /\ records >= MaxJournal
  /\ full' = TRUE
  /\ UNCHANGED <<disk, stage, journal, records, reported, audit, memory, image,
                 written, acked, faults>>

(* Mutant of SaveSnapshot: the image is numbered by the next record. *)
SaveSnapshotAhead ==
  /\ stage = "compact" /\ stage' = "saved"
  /\ image' = Max({reported, audit}) + 1
  /\ snapshots' = (image' :> [audit |-> audit, log |-> memory, intact |-> TRUE])
                  @@ snapshots
  /\ UNCHANGED <<manifest, journals, journal, records, full, reported, audit,
                 memory, written, acked, faults>>

(* maybe_compact numbers the image; compact writes it under a temporary    *)
(* name and renames it, which is one step.                                 *)
SaveSnapshot ==
  /\ stage = "compact" /\ stage' = "saved"
  /\ image' = Max({reported, audit})
  /\ snapshots' = (image' :> [audit |-> audit, log |-> memory, intact |-> TRUE])
                  @@ snapshots
  /\ UNCHANGED <<manifest, journals, journal, records, full, reported, audit,
                 memory, written, acked, faults>>

(* The snapshot, or the manifest after it, cannot be written: compact      *)
(* returns with the journal still open.                                    *)
CompactFails ==
  /\ stage \in {"compact", "saved"} /\ Fault("io") /\ stage' = "ready"
  /\ UNCHANGED <<disk, journal, records, full, reported, audit, memory, image,
                 written, acked>>

(* The manifest is rewritten, then the journal is closed. *)
CloseJournal ==
  /\ stage = "saved" /\ stage' = "closed"
  /\ manifest' = TRUE /\ journal' = 0
  /\ UNCHANGED <<snapshots, journals, records, full, reported, audit, memory,
                 image, written, acked, faults>>

(* The journals that begin at or before the image, removed one by one. *)
Stale == {f \in DOMAIN journals : f <= image}
RemoveJournal(f) ==
  /\ stage = "closed" /\ f \in Stale
  /\ journals' = Restrict(journals, DOMAIN journals \ {f})
  /\ UNCHANGED <<manifest, snapshots, process, written, acked, faults>>


(* Only the newest snapshots are kept. *)
Prune ==
  /\ stage = "closed" /\ Stale = {} /\ stage' = "create"
  /\ snapshots' =
       Restrict(snapshots,
                {s \in DOMAIN snapshots :
                   Cardinality({t \in DOMAIN snapshots : t > s}) < MaxSnapshots})
  /\ records' = 0 /\ full' = FALSE
  /\ UNCHANGED <<manifest, journals, journal, reported, audit, memory, image,
                 written, acked, faults>>

(* The process ends with whatever is in the files.  A crash that finds a   *)
(* record half written, or a new journal without its header, is a fault of *)
(* its own.                                                                *)
Stop ==
  /\ stage' = "down" /\ journal' = 0 /\ records' = 0 /\ full' = FALSE
  /\ reported' = 0 /\ audit' = 0 /\ memory' = << >> /\ image' = 0
  /\ UNCHANGED <<manifest, snapshots, written, acked>>

Crash ==
  /\ stage \notin {"down", "header"}
  /\ faults < MaxFaults /\ faults' = faults + 1
  /\ UNCHANGED journals /\ Stop

CrashInHeader == stage = "header" /\ Fault("header") /\ UNCHANGED journals /\ Stop

CrashInRecord ==
  /\ stage = "ready" /\ journal # 0 /\ records < MaxJournal
  /\ Fault("tail") /\ Put(Torn) /\ Stop

(* The newest snapshot fails its checksum when it is read back. *)
Rot ==
  /\ stage = "down" /\ Newest # 0 /\ Fault("rot")
  /\ snapshots' = [snapshots EXCEPT ![Newest].intact = FALSE]
  /\ UNCHANGED <<manifest, journals, process, written, acked>>

Next ==
  \/ Recover \/ OpenJournal \/ WriteHeader \/ CreateFails
  \/ \E commit \in BOOLEAN : Persist(commit)
  \/ PersistFails \/ PersistRefused \/ Flush
  \/ SaveSnapshot \/ CompactFails \/ CloseJournal
  \/ \E f \in DOMAIN journals : RemoveJournal(f)
  \/ Prune \/ Crash \/ CrashInHeader \/ CrashInRecord \/ Rot

Spec == Init /\ [][Next]_vars

(* A method that has started runs on under its mutex, and rounds keep      *)
(* being requested.                                                        *)
Fairness ==
  /\ WF_vars(Recover) /\ WF_vars(OpenJournal) /\ WF_vars(WriteHeader)
  /\ WF_vars(Persist(TRUE)) /\ WF_vars(SaveSnapshot) /\ WF_vars(CloseJournal)
  /\ WF_vars(\E f \in DOMAIN journals : RemoveJournal(f)) /\ WF_vars(Prune)

FairSpec == Spec /\ Fairness

(***************************************************************************)
(* Properties                                                              *)
(***************************************************************************)
(* Every variable has its type; the journal never passes its limit, and    *)
(* outside compact at most MaxSnapshots snapshots are kept.                *)
TypeOK ==
  /\ manifest \in BOOLEAN /\ full \in BOOLEAN
  /\ DOMAIN snapshots \subseteq Id
  /\ \A s \in DOMAIN snapshots : snapshots[s] \in Snapshot
  /\ DOMAIN journals \subseteq 1 .. MaxWrites + 1
  /\ \A f \in DOMAIN journals : journals[f] \in Journal
  /\ stage \in Stages /\ journal \in {0} \cup DOMAIN journals
  /\ records \in 0 .. MaxJournal
  /\ {reported, audit, image, written} \subseteq Sequence
  /\ memory \in Seq(Id) /\ acked \subseteq 1 .. written
  /\ faults \in 0 .. MaxFaults
  /\ Cardinality(DOMAIN snapshots) > MaxSnapshots => stage # "create"

(* "a mutation is acknowledged only after its record has been written,     *)
(* flushed and synced": whenever the process ends, what recovery reads     *)
(* back contains every record whose append returned success.               *)
NothingLost == acked \subseteq ToSet(Recovered)

(* Recovery replays the records in the order they were written and none of *)
(* them twice, whatever mix of snapshots and journals a crash inside       *)
(* compact leaves behind.                                                  *)
ReplayedInOrder ==
  LET log == Recovered IN \A i, j \in DOMAIN log : i < j => log[i] < log[j]



(* The files implement a durable log: each step of the store writes a      *)
(* record, drops unacknowledged ones, or leaves the log as it is - which   *)
(* is all that a crash, a recovery or a compaction may do.                 *)
Log == INSTANCE DurableLog WITH log <- Recovered
ImplementsLog == Log!Spec

(* "The store is compacted automatically when the journal reaches its      *)
(* configured bound": a full journal is eventually replaced.               *)
FullIsCompacted == (records >= MaxJournal) ~> (records < MaxJournal)
=============================================================================
