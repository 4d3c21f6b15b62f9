--------------------------- MODULE MCConversation ---------------------------
(* The scenarios of the runs about one direct thread. *)
EXTENDS HermesBridge

Scenario(prompts, stops, cancels, resends, opens, days, faults) ==
    [prompts |-> prompts, stops |-> stops, cancels |-> cancels, resends |-> resends,
     opens |-> opens, days |-> days, faults |-> faults]

\* Two prompts with a stop, a cancel or a failure; one prompt with more of them.
Conversations ==
    {Scenario(2, 1, 0, 0, 0, 0, 0), Scenario(2, 0, 1, 0, 0, 0, 0), Scenario(2, 0, 0, 0, 0, 0, 1),
     Scenario(1, 1, 0, 1, 1, 0, 0), Scenario(1, 1, 0, 0, 0, 0, 1), Scenario(1, 0, 1, 1, 0, 0, 0),
     Scenario(1, 0, 1, 0, 0, 0, 1), Scenario(1, 0, 0, 0, 0, 1, 1), Scenario(1, 0, 0, 0, 0, 0, 2)}

=============================================================================
