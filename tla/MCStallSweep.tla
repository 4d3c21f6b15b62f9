---------------------------- MODULE MCStallSweep ----------------------------
(* Two tasks of a company with a lead and a worker. *)
EXTENDS StallSweep, TLC

CONSTANTS lead, worker

LeadAbove == (lead :> {}) @@ (worker :> {lead})
=============================================================================
