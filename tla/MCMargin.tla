------------------------------ MODULE MCMargin ------------------------------
(***************************************************************************)
(* Margin on a pool of forty coins a side.                                 *)
(***************************************************************************)
EXTENDS Margin

Balanced == [a \in Assets |-> 40]
Fees == [a \in Assets |-> 2]

Defaults ==
    [enabled |-> TRUE, closed |-> FALSE, whitelisting |-> FALSE, furyCollateral |-> TRUE,
     incremental |-> TRUE, maxOpen |-> 2, leverageMax |-> 200, safetyFactor |-> 105,
     openThreshold |-> 10, minRate |-> 50, fundPercentage |-> 50, epochLength |-> 1]

Tables ==
    {Defaults,
     [Defaults EXCEPT !.incremental = FALSE, !.epochLength = 2, !.whitelisting = TRUE]}

\* Either four messages, of one trader and an administrator who keeps to the
\* defaults, at one interest rate; or three messages of any while the rate changes,
\* with the pool left open and no foreign custody.
VARIABLE scope

MCInit ==
    /\ Init
    /\ scope \in {"messages", "rates"}
    /\ scope = "messages" => params.incremental

MCNext ==
    /\ \/ (scope = "rates" => txs < 3) /\ Message
       \/ BeginBlock
    /\ scope = "messages" => /\ pool'.rate \in {0, Precision}
                              /\ \A id \in DOMAIN mtps' : mtps'[id].address = 1
                              /\ params'.incremental /\ whitelist' = {}
    /\ scope = "rates" => /\ ~params'.closed
                          /\ \A id \in DOMAIN mtps' : mtps'[id].borrow \in Assets
    /\ UNCHANGED scope

MCSpec == MCInit /\ [][MCNext]_<<vars, scope>> /\ BlocksKeepComing
=============================================================================
