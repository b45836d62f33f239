----------------------------- MODULE DurableLog -----------------------------
(***************************************************************************)
(* What a durable store promises, whatever files it keeps: a log of        *)
(* records in the order they were written.  A record that was acknowledged *)
(* stays; one whose write was never acknowledged may be kept or dropped.   *)
(***************************************************************************)
EXTENDS Naturals, Sequences, SequencesExt

VARIABLES log, acked

Init == log = << >> /\ acked = {}

(* A write reaches the log and is acknowledged, or its caller never hears  *)
(* of it.  Records are numbered in the order they were handed over.        *)
Write(before, after) ==
  /\ after # << >> /\ before = Front(after)
  /\ \A i \in ToSet(before) : i < Last(after)
  /\ acked' \in {acked, acked \cup {Last(after)}}

(* The log is rewritten without records that were not acknowledged. *)
Drop(before, after) ==
  /\ after = SelectSeq(before, LAMBDA i : i \in ToSet(after))
  /\ acked \subseteq ToSet(after)
  /\ UNCHANGED acked

Next ==
  \E before \in {log}, after \in {log'} :
    Write(before, after) \/ Drop(before, after)

Spec == Init /\ [][Next]_<<log, acked>>
=============================================================================
