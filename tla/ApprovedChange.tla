--------------------------- MODULE ApprovedChange ---------------------------
(***************************************************************************)
(* What an agent proposal promises whoever approves it, without calls,     *)
(* pages, leases or ledger rows: one change, made at most once, while the  *)
(* proposal is being applied and never before an approval or after the     *)
(* outcome was recorded; and an outcome that tells the truth and stays.    *)
(* It may be withdrawn late, with the conversation it came from: that does *)
(* not undo or prevent the change, but nobody records it as applied then.  *)
(***************************************************************************)
EXTENDS Naturals

VARIABLES
  verdict,    \* where the proposal is in its life
  withdrawn,  \* it was cancelled after somebody had begun to apply it
  changes,    \* how often it has changed the page
  reached,    \* the page has been what the proposal asks for
  overtaken   \* others changed the page after it did

vars == <<verdict, withdrawn, changes, reached, overtaken>>

Underway == {"applying", "recovery_required"}

Init ==
  /\ verdict = "pending" /\ withdrawn = FALSE /\ changes = 0
  /\ reached = FALSE /\ overtaken = FALSE

Turns(from, to) ==
  /\ verdict \in from /\ verdict' = to
  /\ UNCHANGED <<withdrawn, changes, reached, overtaken>>

Approve == Turns({"pending"}, "approved")

(* Denied, expired or cancelled: before anybody has begun to apply it. *)
Refuse == Turns({"pending", "approved"}, "refused")

Start == Turns({"approved"}, "applying")

(* Whoever applied it may be gone, and nobody knows how far it came. *)
Suspect == Turns({"applying"}, "recovery_required")

(* The one change, which may come after others have begun to ask about it. *)
Change ==
  /\ verdict \in Underway /\ changes = 0
  /\ changes' = 1 /\ reached' = TRUE
  /\ UNCHANGED <<verdict, withdrawn, overtaken>>

Succeed == reached /\ ~withdrawn /\ Turns(Underway, "applied")

Fail == (changes = 0 \/ overtaken) /\ Turns({"applying"}, "failed")

(* Too late for a refusal, before or after the outcome. *)
Withdraw ==
  /\ verdict \in Underway \cup {"applied", "failed"}
  /\ withdrawn' = TRUE
  /\ UNCHANGED <<verdict, changes, reached, overtaken>>

(* Everybody else changes the page, perhaps into what was asked for. *)
Elsewhere ==
  /\ reached' \in {reached, TRUE}
  /\ overtaken' = (overtaken \/ changes > 0)
  /\ UNCHANGED <<verdict, withdrawn, changes>>

Next ==
  \/ Approve \/ Refuse \/ Start \/ Suspect
  \/ Change \/ Succeed \/ Fail \/ Withdraw \/ Elsewhere

Spec == Init /\ [][Next]_vars
=============================================================================
