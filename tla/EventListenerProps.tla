------------------------- MODULE EventListenerProps --------------------------
(***************************************************************************)
(* What the event listener must guarantee, and what its comments claim.    *)
(***************************************************************************)
EXTENDS EventListener, LeaderElectionProps, FiniteSets

ASSUME FiniteAssumption == IsFiniteSet(Instance) /\ IsFiniteSet(Caller)

HandledUpTo(n) == 1..n \subseteq handled

(* Resuming is gap-free: whatever loops overlapped, were demoted, failed   *)
(* or crashed, every event up to the durable cursor, and up to any cursor  *)
(* in memory or under way, has been processed (eventCursorStore.ts:15-16). *)
GapFree ==
    /\ HandledUpTo(cursor)
    /\ \A i \in Instance :
          /\ HandledUpTo(lastCursor[i]) /\ HandledUpTo(stopSave[i])
          /\ \A c \in Caller :
                /\ task[i][c].pc \in {"fetch", "validate", "process"} =>
                      HandledUpTo(task[i][c].ev - 1)
                /\ task[i][c].pc = "save" => HandledUpTo(task[i][c].ev)

(* The token a listener presents is one that its own process won, and no   *)
(* two listeners present the same: at most one is let through.             *)
FencesAreOwn ==
    \A i \in Instance : fence[i] # NoToken =>
        /\ fence[i] \in DOMAIN winners /\ winners[fence[i]] = i
        /\ fencingToken[i] # NoToken => fence[i] <= fencingToken[i]

(* Code against documentation: onBecameLeader is "Called by the            *)
(* LeaderElection heartbeat when this instance wins (or regains)           *)
(* leadership." (stellarEventListener.ts:209), and a demoted process stays *)
(* "ready to resume if this instance re-acquires leadership later"         *)
(* (234-238).  So while one process beats for good, every event is         *)
(* processed in the end.  An attempt that is rejected leaves or makes its  *)
(* process a standby, also when Redis has granted or renewed the lease;    *)
(* the next one finds the lease its own and makes the process leader       *)
(* without that call (leaderElection.ts:185-208): it holds the lease from  *)
(* then on, and nobody ingests.                                            *)
Ingests == (\E i \in Instance : <>[]Beating(i)) => <>(handled = 1..MaxEvents)

(* Nobody else was elected since this process last won.                    *)
NotSuperseded(i) == winners # <<>> /\ winners[Counter] = i

-----------------------------------------------------------------------------
(* History: how many cursor writes came from loops whose process had been  *)
(* superseded by then, and which loops have ever run.                      *)
VARIABLES staleWrites, active

history == <<staleWrites, active>>

StaleSave == \E i \in Instance, c \in Caller : ~NotSuperseded(i) /\ Save(i, c)

StaleInit == EventInit /\ staleWrites = 0 /\ active = {}

Recording ==
    /\ staleWrites' = IF StaleSave THEN staleWrites + 1 ELSE staleWrites
    /\ active' = active \cup {c \in Caller : \E i \in Instance : task'[i][c] # task[i][c]}

StaleSpec == StaleInit /\ [][EventNext /\ Recording]_<<eventVars, history>>

Takeovers == {t \in DOMAIN winners : t > 1 /\ winners[t] # winners[t - 1]}

(* Validating every event before it is processed leaves a demoted process  *)
(* one stale cursor write per loop and takeover, the one that was already  *)
(* validated, however large the batch (stellarEventListener.ts:340-357).   *)
StaleWritesBounded == staleWrites <= Cardinality(active) * Cardinality(Takeovers)
=============================================================================
