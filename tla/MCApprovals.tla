---------------------------- MODULE MCApprovals -----------------------------
(* Approvals on two ordered tasks. *)
EXTENDS Approvals

TwoTasks == {1, 2}
=============================================================================
