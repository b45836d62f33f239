------------------------------- MODULE Grants -------------------------------
(***************************************************************************)
(* The grant lifecycle vocabulary of grant.cpp: the states a grant can be  *)
(* in, which of them are terminal, live or authorise consumption, and the  *)
(* transition table that Grant::transition_to consults.                    *)
(***************************************************************************)
EXTENDS Naturals

Terminal == {"Released", "Expired", "Revoked", "Fenced", "Stale", "Rejected"}

LiveStates == {"GrantedGuaranteed", "GrantedBorrowed", "RecallPending",
               "RevalidationRequired"}

(* A recall-pending grant is live, but authorises nothing. *)
Authorising == {"GrantedGuaranteed", "GrantedBorrowed"}

GrantStates == {"Requested", "Validated", "Queued"} \cup LiveStates \cup Terminal

(* The successors that is_legal_grant_transition lists for a live state; a *)
(* terminal state has none.                                                *)
Exits == {"Released", "Expired", "Revoked", "Fenced", "Stale"}

LegalSuccessors(s) ==
  CASE s = "Requested" -> {"Validated", "Rejected", "Stale"}
    [] s = "Validated" -> {"Queued", "Rejected", "Stale"}
    [] s = "Queued" -> Authorising \cup {"Rejected", "Stale", "RevalidationRequired"}
    [] s \in Authorising -> Exits \cup {"RecallPending", "RevalidationRequired"}
    [] s = "RecallPending" -> Exits \cup {"RevalidationRequired"}
    [] s = "RevalidationRequired" -> Exits \cup Authorising
    [] OTHER -> {}

LegalTransition(from, to) == from = to \/ to \in LegalSuccessors(from)

(* Mutant of GrantedState: a new grant is left as Queued. *)
GrantedStateQueued(revocable) ==
  IF revocable THEN "GrantedBorrowed" ELSE "Queued"

(* A grant holding any revocable amount carries GrantedBorrowed. *)
GrantedState(revocable) ==
  IF revocable THEN "GrantedBorrowed" ELSE "GrantedGuaranteed"
=============================================================================
