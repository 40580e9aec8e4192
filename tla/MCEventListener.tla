--------------------------- MODULE MCEventListener ---------------------------
(* Model checking the event listener with its leader election.             *)
EXTENDS EventListenerProps, TLC

CONSTANTS
    MaxMishaps,     \* bound: lapses, rejections and departures together
    Departures      \* how they go: a subset of {"stopped", "dead"}

Symmetry == Permutations(Instance) \cup Permutations(Caller)

Gone == {i \in Instance : mode[i] \in {"stopped", "dead"} \/ stopSave[i] # NoEvent}

Bounded ==
    /\ lapses' + errors' + Cardinality(Gone') <= MaxMishaps
    /\ \A i \in Gone' \ Gone : mode'[i] \in Departures \/ "stopped" \in Departures

MCSpec == StaleInit /\ [][EventNext /\ Recording /\ Bounded]_<<eventVars, history>>
FairMCSpec == MCSpec /\ EventFairness
=============================================================================
