----------------------------- MODULE VerifyPhase -----------------------------
(***************************************************************************)
(* The verification phase as one step: the logs of the given states become *)
(* readable all at once.  This is what the main loop relies on.            *)
(***************************************************************************)
EXTENDS Verification

VARIABLES
    states,       \* the mixed states of the candidate
    outcome       \* {what is read in their logs}, {} before

phaseVars == <<states, outcome>>

Pending == outcome = {}

PhaseInit ==
    /\ states \in SUBSET (States \ {{}, Component})
    /\ Pending

VerifyAll ==
    /\ Pending /\ ~Pending'
    /\ \E logs \in VerifyOutcomes(states) : outcome' = {logs}
    /\ UNCHANGED states

PhaseSpec == PhaseInit /\ [][VerifyAll]_phaseVars
=============================================================================
