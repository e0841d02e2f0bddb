------------------------------ MODULE MCParity ------------------------------
(* Model-checking instance of RuntimeParity.  Amounts are in units of ten      *)
(* thousand rupees and weights in hundreds of kilograms, as in the fixtures:   *)
(* a refrigerated large vehicle and a small one, a certified carrier and a     *)
(* cheap one, here with a second certified carrier and an unavailable vehicle. *)
EXTENDS RuntimeParity

Vehicle(a, r, c) == [available |-> a, refrigerated |-> r, capacity |-> c]
Quote(a, c) == [amount |-> a, certified |-> c, lane |-> TRUE]

MCVehicles == {1, 2, 3, 4}
MCVehicleData ==
  <<Vehicle(TRUE, FALSE, 10), Vehicle(TRUE, TRUE, 10), Vehicle(TRUE, FALSE, 1),
    Vehicle(FALSE, TRUE, 10)>>

MCQuotes == {1, 2, 3}
MCQuoteData == <<Quote(9, TRUE), Quote(7, FALSE), Quote(8, TRUE)>>

\* Scenarios from the fixtures (benign, adversarial) and around them, each run by
\* the agents and then by the recorded model; and runs of both whose policy
\* engine may raise.
MCRuns ==
  [enforce : BOOLEAN, perishable : BOOLEAN,
   effects : {EffectClasses, EffectClasses \ {"EXTERNAL_DISCLOSURE"}}, threshold : {40},
   prior : {25, 36}, weight : {1, 5}, vehicle : MCVehicles, quote : MCQuotes,
   runtime : {"legacy"}, engineMayFail : {FALSE},
   released : {{}, {1}}]
  \cup
  [enforce : BOOLEAN, perishable : {TRUE}, effects : {EffectClasses}, threshold : {40},
   prior : {25, 36}, weight : {5}, vehicle : {2, 3}, quote : {1, 2},
   runtime : {"legacy", "recorded"}, engineMayFail : {TRUE},
   released : {{}}]
=============================================================================
