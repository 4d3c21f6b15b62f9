----------------------------- MODULE MCTaskWake -----------------------------
(* Two tasks, their assignments and the monitors of the servers. *)
EXTENDS TaskWake

CalmOrTroubled == {{}, {"fail", "stop"}}
FailingPosts == {{"fail"}}
=============================================================================
