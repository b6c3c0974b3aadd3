---------------------- MODULE MCProposalExecution ----------------------
(* Three calls that apply one proposal while others change its page.      *)
EXTENDS ProposalExecution

CONSTANTS call1, call2, call3

MCAppliers == {call1, call2, call3}
=========================================================================
