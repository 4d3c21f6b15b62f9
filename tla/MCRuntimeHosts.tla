--------------------------- MODULE MCRuntimeHosts ----------------------------
(* One host and one agent, each behaviour with one of a few mixes of faults and requests. *)
EXTENDS RuntimeHosts

Begins(begins, mixes) == {[begins |-> begins, may |-> mix] : mix \in mixes}

Mixes ==
    Begins("hired", {{"drop", "short"}, {"drop", "startFail"}, {"drop", "delete"},
                     {"crash", "corrupt"}, {"delete", "slow"}, {"kill", "drop"}, {"fail", "retry"},
                     {"expire", "retry"}, {"away", "refuse"},
                     {"stopFail", "retry"}, {"stopFail", "delete"}, {"startLate", "retry"},
                     {"startLate", "delete"}})
    \cup
    Begins("refused", {{"retry", "delete"}, {"retry", "crash", "short"}, {"retry", "revoke"},
                       {"delete", "crash"}, {"delete", "drop", "fail", "redo"}})
    \cup
    Begins("setUp", {{"restart", "drop", "kill", "progress"}, {"restart", "drop", "delete"},
                     {"restart", "delete", "revoke"}, {"restart", "stopFail", "delete"},
                     {"delete", "redo", "drop"}, {"delete", "redo", "cancel"}, {"delete", "away"}})
==============================================================================
