------------------------------- MODULE MCRun -------------------------------
(* Model-checking instance of GovernedRun with a hosted model, and with the    *)
(* agents and the recorded model beside it.  Amounts are in units of ten       *)
(* thousand rupees and weights in hundreds of kilograms: a dry and a           *)
(* refrigerated vehicle, two certified carriers, and a prior spend that leaves *)
(* room for both bookings exactly, or only for the cheaper one.                *)
EXTENDS Projection

ModelVehicles == {1, 2}
ModelVehicleData ==
  <<[available |-> TRUE, refrigerated |-> FALSE, capacity |-> 10],
    [available |-> TRUE, refrigerated |-> TRUE, capacity |-> 10]>>

ModelQuotes == {1, 2}
ModelQuoteData ==
  <<[amount |-> 9, certified |-> TRUE, lane |-> TRUE],
    [amount |-> 7, certified |-> TRUE, lane |-> TRUE]>>

ModelRuns ==
  [enforce : {TRUE}, perishable : {TRUE}, effects : {EffectClasses}, threshold : {40},
   prior : {24, 33}, weight : {5}, vehicle : {1}, quote : {1},
   runtime : {"strands"}, engineMayFail : {FALSE},
   released : {{}, {2}}]
  \cup
  [enforce : {TRUE}, perishable : BOOLEAN, effects : {EffectClasses}, threshold : {40},
   prior : {24, 33}, weight : {1, 5}, vehicle : {1, 2}, quote : {1, 2},
   runtime : {"legacy", "recorded"}, engineMayFail : BOOLEAN,
   released : {{}, {1}}]
=============================================================================
