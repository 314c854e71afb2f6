----------------------------- MODULE UpdatePlan -----------------------------
(***************************************************************************)
(* The synthesis problem: what an update plan is, and the formula that     *)
(* synthesizer_spec.py builds for a plan of a given length.                *)
(*                                                                         *)
(* A program is updated by switching each changing component (a version    *)
(* bit "version_x") from its old to its new code.  A state is the set of   *)
(* components that run their new code; {} is the old program, Component    *)
(* the new one.  A plan of length n is a sequence of n intermediate        *)
(* states.  While the switch moves from S to T the components of T \ S     *)
(* are loaded in both versions.                                            *)
(***************************************************************************)
EXTENDS Integers, FiniteSets

CONSTANTS
    Component,    \* the changing components (versiondata.pickle)
    OldUsage,     \* OldUsage[S]: summed resource use of the old code of S
    NewUsage,     \* NewUsage[S]: summed resource use of the new code of S
    Headroom,     \* --headroom: resource that is free before the update
    Packet,       \* the packets a program can be tested with
    Violates,     \* the <<packet, state>> pairs that violate the user's spec
    Word,         \* resource arithmetic is modulo Word      (2^32 in the code)
    Byte,         \* counts of changes are modulo Byte       (2^8 in the code)
    DiffInit      \* the initial value of DIFF         (1000000 in the code)

States == SUBSET Component

(***************************************************************************)
(* OldUsage and NewUsage are sums over the components of a state.          *)
(***************************************************************************)
IsSum(f) ==
    /\ f \in [States -> Nat]
    /\ f[{}] = 0
    /\ \A S, T \in States : S \cap T = {} => f[S \cup T] = f[S] + f[T]

ASSUME UsageAssumption == IsSum(OldUsage) /\ IsSum(NewUsage)

ASSUME ComponentAssumption == Component # {} /\ IsFiniteSet(Component)

ASSUME HeadroomAssumption == Headroom \in Nat

ASSUME WidthAssumption ==
    /\ {Word, Byte, DiffInit} \subseteq Nat \ {0}
    /\ DiffInit < Word

(***************************************************************************)
(* No sum of resources reaches the word size.                              *)
(***************************************************************************)
ASSUME NoOverflowAssumption ==
    Headroom + OldUsage[Component] + NewUsage[Component] < Word

ASSUME ViolatesAssumption ==
    /\ Packet # {}
    /\ Violates \subseteq Packet \X States

Plans(n) == [1..n -> States]

(***************************************************************************)
(* State i of a plan: 0 is the old program (index total+1 in the code) and *)
(* n + 1 the new one (index total+2).                                      *)
(***************************************************************************)
StateAt(n, plan, i) ==
    IF i = 0 THEN {} ELSE IF i = n + 1 THEN Component ELSE plan[i]

-----------------------------------------------------------------------------
(***************************************************************************)
(* The counters the instrumented program computes for a state, as          *)
(* unsigned machine words.                                                 *)
(***************************************************************************)
RESOURCE(S) == NewUsage[S] % Word

REAL(S) == (Headroom + OldUsage[S] - NewUsage[S]) % Word

CURR(S) == Cardinality(S) % Byte

total_changes == Cardinality(Component) % Byte

(***************************************************************************)
(* The 8-bit count of all changes is not 0: with 256 components the old    *)
(* program would count as complete.                                        *)
(***************************************************************************)
ASSUME ChangesAssumption == total_changes # 0

(***************************************************************************)
(* What a transition from S to T leaves free while both versions of T \ S  *)
(* are loaded, and DIFF, the least of these over a plan.                   *)
(***************************************************************************)
Slack(S, T) == (REAL(S) - RESOURCE(T) + RESOURCE(S)) % Word

Slacks(n, plan) ==
    {Slack(StateAt(n, plan, i - 1), StateAt(n, plan, i)) : i \in 1..n+1}

DIFF(n, plan) ==
    LET slacks == {DiffInit} \cup Slacks(n, plan)
    IN  CHOOSE d \in slacks : \A e \in slacks : d <= e

-----------------------------------------------------------------------------
(***************************************************************************)
(* The conditions of the synthesis formula.                                *)
(***************************************************************************)
\* Mutant of Fits: the old code of T counts as unloaded before the transition.
FitsUnloaded(S, T) ==
    (RESOURCE(T) - RESOURCE(S)) % Word <= (Headroom + OldUsage[T] - NewUsage[S]) % Word

Fits(S, T) == (RESOURCE(T) - RESOURCE(S)) % Word <= REAL(S)

Progress(S, T) ==
    \/ (CURR(T) - CURR(S)) % Byte >= 1
    \/ CURR(T) = total_changes

\* Mutant of Needed: no exception for states that are the new program.
NeededAlways(n, plan, i) ==
    Slack(StateAt(n, plan, i - 2), StateAt(n, plan, i)) <= DIFF(n, plan)

(***************************************************************************)
(* Diagnosis mode (lengths above 1): a state is kept only when jumping     *)
(* over the one before it would not leave more slack than the plan has.    *)
(***************************************************************************)
Needed(n, plan, i) ==
    \/ Slack(StateAt(n, plan, i - 2), StateAt(n, plan, i)) <= DIFF(n, plan)
    \/ CURR(StateAt(n, plan, i)) = total_changes

Diagnosis(n, plan) == n = 1 \/ \A i \in 2..n+1 : Needed(n, plan, i)

Monotone(n, plan) ==
    \A i \in 1..n+1 : StateAt(n, plan, i - 1) \subseteq StateAt(n, plan, i)

Feasible(n, plan) ==
    \A i \in 1..n+1 : Fits(StateAt(n, plan, i - 1), StateAt(n, plan, i))

Progressing(n, plan) ==
    \A i \in 1..n+1 : Progress(StateAt(n, plan, i - 1), StateAt(n, plan, i))

(***************************************************************************)
(* The plans of length n that satisfy every condition but the user's spec. *)
(***************************************************************************)
WellFormed(n) ==
    {plan \in Plans(n) :
        /\ Monotone(n, plan)
        /\ Feasible(n, plan)
        /\ Diagnosis(n, plan)
        /\ DIFF(n, plan) > 0
        /\ Progressing(n, plan)}

(***************************************************************************)
(* The spec holds of packet p in every intermediate state of the plan.     *)
(***************************************************************************)
Passes(n, plan, p) == \A i \in 1..n : <<p, plan[i]>> \notin Violates

-----------------------------------------------------------------------------
(***************************************************************************)
(* Reference definitions, in plain arithmetic.                             *)
(***************************************************************************)

(***************************************************************************)
(* The resource in use during the transition from S to T: the new code of  *)
(* T, and the old code of everything that does not yet run new in S.       *)
(***************************************************************************)
TransientUsage(S, T) == NewUsage[T] + OldUsage[Component \ S]

Capacity == OldUsage[Component] + Headroom

StaysWithinHeadroom(n, plan) ==
    \A i \in 1..n+1 :
        TransientUsage(StateAt(n, plan, i - 1), StateAt(n, plan, i)) <= Capacity

(***************************************************************************)
(* No packet can tell an intermediate state of the plan from a correct     *)
(* program.  The new program itself is not the plan's choice.              *)
(***************************************************************************)
SafePlan(n, plan) ==
    \A i \in 1..n : plan[i] # Component =>
        \A p \in Packet : <<p, plan[i]>> \notin Violates

NewProgramIsSafe == \A p \in Packet : <<p, Component>> \notin Violates
=============================================================================
