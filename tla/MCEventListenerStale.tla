------------------------- MODULE MCEventListenerStale ------------------------
(***************************************************************************)
(* The event listener in cases: one poll loop per process or overlapping   *)
(* ones, one event or two, and what goes wrong meanwhile.                  *)
(***************************************************************************)
EXTENDS MCEventListener

VARIABLE case

Quiet == [loops |-> Caller, events |-> 2, lapses |-> 0, errors |-> 0, leave |-> 0]

Cases ==
    {[Quiet EXCEPT !.loops = {c}, !.lapses = 2] : c \in Caller}
    \cup {[Quiet EXCEPT !.loops = {c}, !.leave = 1] : c \in Caller}
    \cup {[Quiet EXCEPT !.loops = {c}, !.lapses = 1, !.errors = 1] : c \in Caller}
    \cup {[Quiet EXCEPT !.loops = {c}, !.events = 1, !.lapses = 1, !.errors = 1, !.leave = 1] :
             c \in Caller}
    \cup {[Quiet EXCEPT !.events = 1, !.lapses = 2], [Quiet EXCEPT !.lapses = 1]}

WithinCase ==
    /\ tip' <= case.events /\ lapses' <= case.lapses /\ errors' <= case.errors
    /\ Cardinality(Gone') <= case.leave
    /\ {c \in Caller : \E i \in Instance : task'[i][c] # task[i][c]} \subseteq case.loops

CaseInit == StaleInit /\ case \in Cases

CaseSpec ==
    /\ CaseInit
    /\ [][EventNext /\ Recording /\ Bounded /\ WithinCase /\ UNCHANGED case
         ]_<<eventVars, history, case>>

StaleSymmetry == {p @@ q : p \in Permutations(Instance), q \in Permutations(Caller)}
=============================================================================
