-------------------------- MODULE UpdatePlanProofs --------------------------
(***************************************************************************)
(* What the synthesis formula guarantees, for every update, headroom and   *)
(* plan length.                                                            *)
(***************************************************************************)
EXTENDS UpdatePlan, WellFoundedInduction, FiniteSetTheorems, TLAPS

(***************************************************************************)
(* The constants.                                                          *)
(***************************************************************************)

\* The widths are positive.
LEMMA Widths == Word \in Nat \ {0} /\ Byte \in Nat \ {0} /\ DiffInit \in Nat \ {0}
  BY WidthAssumption

\* No sum of a headroom, an old and a new usage overflows.
LEMMA NoOverflow ==
    /\ Headroom \in Nat /\ Word \in Nat
    /\ Headroom + OldUsage[Component] + NewUsage[Component] < Word
  BY HeadroomAssumption, Widths, NoOverflowAssumption

(***************************************************************************)
(* Sums over states.                                                       *)
(***************************************************************************)

\* A sum is split at a subset: the resource of T is that of S and of the rest.
LEMMA SumSplits ==
    ASSUME NEW f, IsSum(f), NEW S \in States, NEW T \in States, S \subseteq T
    PROVE  /\ f[S] \in Nat /\ f[T] \in Nat /\ f[T \ S] \in Nat
           /\ f[T] = f[S] + f[T \ S]
           /\ f[S] <= f[T]
  <1>1. T \ S \in States /\ S \cap (T \ S) = {} /\ S \cup (T \ S) = T
    BY DEF States
  <1>2. f[S] \in Nat /\ f[T] \in Nat /\ f[T \ S] \in Nat
    BY <1>1 DEF IsSum
  <1>3. f[S \cup (T \ S)] = f[S] + f[T \ S]
    BY <1>1 DEF IsSum
  <1> QED BY <1>1, <1>2, <1>3

\* Component is a state, and no state uses more resource than all components.
LEMMA SumBounds ==
    ASSUME NEW S \in States
    PROVE  /\ Component \in States
           /\ OldUsage[S] \in Nat /\ NewUsage[S] \in Nat
           /\ OldUsage[Component] \in Nat /\ NewUsage[Component] \in Nat
           /\ OldUsage[Component \ S] \in Nat
           /\ OldUsage[Component] = OldUsage[S] + OldUsage[Component \ S]
           /\ OldUsage[S] <= OldUsage[Component]
           /\ NewUsage[S] <= NewUsage[Component]
  <1>1. Component \in States /\ S \subseteq Component BY DEF States
  <1> QED BY <1>1, SumSplits, UsageAssumption

\* What the counters of a state add up stays below the word size.
LEMMA Bounds ==
    ASSUME NEW S \in States
    PROVE  NewUsage[S] \in 0..Word-1 /\ Headroom + OldUsage[S] \in 0..Word-1
  <1> DEFINE x == NewUsage[S]
             y == NewUsage[Component]
             u == OldUsage[S]
             v == OldUsage[Component]
  <1>1. x \in Nat /\ y \in Nat /\ u \in Nat /\ v \in Nat /\ x <= y /\ u <= v
    BY SumBounds
  <1>2. Headroom + v + y < Word
    BY NoOverflow
  <1> HIDE DEF x, y, u, v
  <1>3. x \in 0..Word-1 /\ Headroom + u \in 0..Word-1
    BY <1>1, <1>2, NoOverflow
  <1> QED BY <1>3 DEF x, u

\* RESOURCE counts the new code of a state without overflow.
LEMMA RESOURCEExact ==
    ASSUME NEW S \in States
    PROVE  RESOURCE(S) = NewUsage[S]
  <1> DEFINE x == NewUsage[S]
  <1>1. x \in 0..Word-1 BY Bounds
  <1> HIDE DEF x
  <1>2. x % Word = x BY <1>1, Widths
  <1> QED BY <1>2 DEF RESOURCE, x

\* REAL counts what is free in a state, unless the state is overfull.
LEMMA REALExact ==
    ASSUME NEW S \in States, NewUsage[S] <= Headroom + OldUsage[S]
    PROVE  REAL(S) = Headroom + OldUsage[S] - NewUsage[S]
  <1> DEFINE x == NewUsage[S]
             u == OldUsage[S]
             free == Headroom + u - x
  <1>1. x \in 0..Word-1 /\ Headroom + u \in 0..Word-1 /\ x <= Headroom + u /\ u \in Nat
    BY Bounds, SumBounds
  <1>2. REAL(S) = free % Word
    BY DEF REAL
  <1> HIDE DEF x, u
  <1>3. free % Word = free
    BY <1>1, NoOverflow, Widths
  <1> QED BY <1>2, <1>3 DEF x, u

(***************************************************************************)
(* One transition.                                                         *)
(***************************************************************************)

\* The states of a plan, with the old and the new program around them.
LEMMA StateAtType ==
    ASSUME NEW n \in Nat, NEW plan \in Plans(n), NEW i \in 0..n+1
    PROVE  StateAt(n, plan, i) \in States
  BY DEF StateAt, Plans, States

\* From a state that is not overfull, the formula's condition on a transition
\* leaves room for both versions of what the transition changes.
LEMMA FitsExact ==
    ASSUME NEW S \in States, NEW T \in States, S \subseteq T,
           NewUsage[S] <= Headroom + OldUsage[S], Fits(S, T)
    PROVE  NewUsage[T] <= Headroom + OldUsage[S]
  <1> DEFINE s == NewUsage[S]
             t == NewUsage[T]
             h == OldUsage[S]
  <1>1. s \in 0..Word-1 /\ t \in 0..Word-1 /\ h \in Nat
    BY Bounds, SumBounds
  <1>2. s <= t
    BY SumSplits, UsageAssumption
  <1>3. (t - s) % Word <= Headroom + h - s
    <2>1. RESOURCE(S) = s /\ RESOURCE(T) = t /\ REAL(S) = Headroom + h - s
      BY RESOURCEExact, REALExact
    <2> QED BY <2>1, Zenon DEF Fits
  <1> HIDE DEF s, t, h
  <1>4. (t - s) % Word = t - s
    BY <1>1, <1>2, Widths
  <1>5. t <= Headroom + h
    BY <1>1, <1>3, <1>4, NoOverflow
  <1> QED BY <1>5 DEF t, h

\* Room for the new code of T next to the old code that S still runs.
LEMMA RoomIsCapacity ==
    ASSUME NEW S \in States, NEW T \in States
    PROVE  NewUsage[T] <= Headroom + OldUsage[S] <=> TransientUsage(S, T) <= Capacity
  <1> DEFINE t == NewUsage[T]
             u == OldUsage[S]
             v == OldUsage[Component]
             w == OldUsage[Component \ S]
  <1>1. t \in Nat /\ u \in Nat /\ v \in Nat /\ w \in Nat /\ v = u + w
    BY SumBounds
  <1>2. TransientUsage(S, T) = t + w /\ Capacity = v + Headroom
    BY DEF TransientUsage, Capacity
  <1> HIDE DEF t, u, v, w
  <1>3. t <= Headroom + u <=> t + w <= v + Headroom
    BY <1>1, HeadroomAssumption
  <1> QED BY <1>2, <1>3 DEF t, u

(***************************************************************************)
(* The plan.                                                               *)
(***************************************************************************)

\* The resource conditions of synthesizer_spec.py, computed with unsigned
\* counters that wrap around, admit only plans each of whose transitions stays
\* within the old program's use plus the headroom.  The state before the first
\* transition that did not would not be overfull, so its counters were exact.
THEOREM FeasiblePlansStayWithinHeadroom ==
    ASSUME NEW n \in Nat, NEW plan \in Plans(n), Monotone(n, plan), Feasible(n, plan)
    PROVE  StaysWithinHeadroom(n, plan)
  <1> DEFINE st(i) == StateAt(n, plan, i)
             Bad == {i \in 1..n+1 : ~(TransientUsage(st(i-1), st(i)) <= Capacity)}
  <1>1. SUFFICES ASSUME Bad # {} PROVE FALSE
    BY DEF StaysWithinHeadroom
  <1>2. PICK i \in Bad : \A j \in Bad : ~(j < i)
    <2>1. PICK i \in Bad : \A j \in Bad : <<j, i>> \notin OpToRel(<, Nat)
      <3>1. Bad \subseteq Nat OBVIOUS
      <3> HIDE DEF Bad
      <3> QED BY <1>1, <3>1, WFMin, NatLessThanWellFounded
    <2>2. \A j \in Bad : ~(j < i)
      <3> TAKE j \in Bad
      <3>1. i \in Nat /\ j \in Nat OBVIOUS
      <3>2. <<j, i>> \notin OpToRel(<, Nat) BY <2>1
      <3> QED BY <3>1, <3>2 DEF OpToRel
    <2> QED BY <2>2
  <1>3. i \in 1..n+1 /\ i-1 \in 0..n+1
    OBVIOUS
  <1>4. st(i-1) \in States /\ st(i) \in States /\ st(i-1) \subseteq st(i)
    BY <1>3, StateAtType DEF Monotone
  <1>5. NewUsage[st(i-1)] <= Headroom + OldUsage[st(i-1)]
    <2>1. CASE i = 1
      <3>1. st(i-1) = {} BY <2>1 DEF StateAt
      <3>2. NewUsage[{}] = 0 /\ OldUsage[{}] = 0 BY UsageAssumption DEF IsSum
      <3> QED BY <3>1, <3>2, HeadroomAssumption
    <2>2. CASE i > 1
      <3>1. i-1 \in 1..n+1 /\ i-1 \notin Bad /\ i-2 \in 0..n+1
        BY <1>2, <1>3, <2>2
      <3>2. TransientUsage(st((i-1)-1), st(i-1)) <= Capacity
        BY <3>1
      <3>3. st((i-1)-1) \in States /\ st((i-1)-1) \subseteq st(i-1)
        BY <3>1, StateAtType DEF Monotone
      <3>4. NewUsage[st(i-1)] <= Headroom + OldUsage[st((i-1)-1)]
        BY <1>4, <3>2, <3>3, RoomIsCapacity
      <3>5. /\ OldUsage[st((i-1)-1)] <= OldUsage[st(i-1)]
            /\ OldUsage[st((i-1)-1)] \in Nat /\ OldUsage[st(i-1)] \in Nat
        BY <1>4, <3>3, SumSplits, UsageAssumption
      <3>6. NewUsage[st(i-1)] \in Nat BY <1>4, SumBounds
      <3> QED BY <3>4, <3>5, <3>6, HeadroomAssumption
    <2> QED BY <1>3, <2>1, <2>2
  <1>6. Fits(st(i-1), st(i))
    BY <1>3 DEF Feasible
  <1>7. TransientUsage(st(i-1), st(i)) <= Capacity
    BY <1>4, <1>5, <1>6, FitsExact, RoomIsCapacity
  <1> QED BY <1>7, <1>2

\* Every plan that the formula for a length admits stays within the headroom.
THEOREM WellFormedPlansStayWithinHeadroom ==
    ASSUME NEW n \in Nat, NEW plan \in WellFormed(n)
    PROVE  plan \in Plans(n) /\ StaysWithinHeadroom(n, plan)
  BY FeasiblePlansStayWithinHeadroom DEF WellFormed

\* The progress condition keeps the old program out of a plan, as long as
\* the 8-bit total_changes does not wrap to 0.
THEOREM PlansLeaveOldProgram ==
    ASSUME NEW n \in Nat, NEW plan \in WellFormed(n), NEW i \in 1..n
    PROVE  plan[i] # {}
  <1> SUFFICES ASSUME plan[i] = {} PROVE FALSE
    OBVIOUS
  <1>1. i \in 1..n+1 /\ StateAt(n, plan, i) = {}
    BY DEF StateAt
  <1>2. StateAt(n, plan, i-1) = {}
    BY <1>1 DEF WellFormed, Monotone
  <1>3. Progress({}, {})
    BY <1>1, <1>2 DEF WellFormed, Progressing
  <1>4. CURR({}) = 0
    <2>1. Cardinality({}) = 0 BY FS_EmptySet
    <2>2. 0 % Byte = 0 BY Widths
    <2> QED BY <2>1, <2>2 DEF CURR
  <1>5. (CURR({}) - CURR({})) % Byte = 0
    <2>1. 0 % Byte = 0 /\ 0 - 0 = 0 BY Widths
    <2> QED BY <1>4, <2>1
  <1>6. total_changes = 0
    BY <1>3, <1>4, <1>5 DEF Progress
  <1> QED BY <1>6, ChangesAssumption

(***************************************************************************)
(* Longer plans.                                                           *)
(***************************************************************************)

\* The plan of length n that follows p for its m states and then stays at the
\* new program.
Extend(m, p, n) == [i \in 1..n |-> IF i <= m THEN p[i] ELSE Component]

\* A nonempty set of numbers has a least element, and only one.
LEMMA LeastExists ==
    ASSUME NEW D \in SUBSET Nat, D # {}
    PROVE  \E d \in D : \A e \in D : d <= e
  <1>1. PICK d \in D : \A e \in D : <<e, d>> \notin OpToRel(<, Nat)
    BY WFMin, NatLessThanWellFounded
  <1>2. \A e \in D : d <= e
    <2> TAKE e \in D
    <2>1. d \in Nat /\ e \in Nat OBVIOUS
    <2>2. <<e, d>> \notin OpToRel(<, Nat) BY <1>1
    <2> QED BY <2>1, <2>2 DEF OpToRel
  <1> QED BY <1>2

\* The counters are machine words.
LEMMA SlackType ==
    ASSUME NEW S \in States, NEW T \in States
    PROVE  RESOURCE(S) \in Nat /\ REAL(S) \in Nat /\ Slack(S, T) \in Nat
  <1>1. RESOURCE(S) \in Nat /\ RESOURCE(T) \in Nat
    BY SumBounds, RESOURCEExact
  <1>2. REAL(S) \in Nat
    <2> DEFINE u == OldUsage[S]
               s == NewUsage[S]
    <2>1. u \in Nat /\ s \in Nat BY SumBounds
    <2> HIDE DEF u, s
    <2>2. Headroom + u - s \in Int BY <2>1, HeadroomAssumption
    <2>3. (Headroom + u - s) % Word \in Nat BY <2>2, Widths
    <2> QED BY <2>3 DEF REAL, u, s
  <1>3. Slack(S, T) \in Nat
    <2> DEFINE x == REAL(S) - RESOURCE(T) + RESOURCE(S)
    <2>1. x \in Int BY <1>1, <1>2
    <2> HIDE DEF x
    <2>2. x % Word \in Nat BY <2>1, Widths
    <2> QED BY <2>2 DEF Slack, x
  <1> QED BY <1>1, <1>2, <1>3

\* DIFF is the least slack of a plan.
LEMMA DIFFIsLeast ==
    ASSUME NEW n \in Nat, NEW plan \in Plans(n)
    PROVE  /\ DIFF(n, plan) \in {DiffInit} \cup Slacks(n, plan)
           /\ \A e \in {DiffInit} \cup Slacks(n, plan) : DIFF(n, plan) <= e
           /\ DIFF(n, plan) \in Nat
           /\ {DiffInit} \cup Slacks(n, plan) \subseteq Nat
  <1> DEFINE D == {DiffInit} \cup Slacks(n, plan)
  <1>1. D \subseteq Nat
    <2>1. \A i \in 1..n+1 : Slack(StateAt(n, plan, i-1), StateAt(n, plan, i)) \in Nat
      <3> TAKE i \in 1..n+1
      <3>1. i-1 \in 0..n+1 /\ i \in 0..n+1 OBVIOUS
      <3> QED BY <3>1, StateAtType, SlackType
    <2> QED BY <2>1, Widths DEF Slacks
  <1>2. D # {} OBVIOUS
  <1>3. DIFF(n, plan) = CHOOSE d \in D : \A e \in D : d <= e
    BY DEF DIFF
  <1> HIDE DEF D
  <1>4. \E d \in D : \A e \in D : d <= e
    BY <1>1, <1>2, LeastExists
  <1>5. DIFF(n, plan) \in D /\ \A e \in D : DIFF(n, plan) <= e
    BY <1>3, <1>4
  <1> QED BY <1>1, <1>5 DEF D

\* An extended plan goes through the same states, then stays.
LEMMA ExtendStates ==
    ASSUME NEW m \in Nat, NEW p \in Plans(m), NEW n \in Nat, m <= n
    PROVE  /\ Extend(m, p, n) \in Plans(n)
           /\ \A i \in 0..m+1 : StateAt(n, Extend(m, p, n), i) = StateAt(m, p, i)
           /\ \A i \in m+1..n+1 : StateAt(n, Extend(m, p, n), i) = Component
  BY DEF Extend, Plans, StateAt, States

\* A plan within the headroom leaves no more room before its last transition than
\* the new program leaves.
LEMMA StayingIsFree ==
    ASSUME NEW S \in States, TransientUsage(S, Component) <= Capacity
    PROVE  Slack(S, Component) <= Slack(Component, Component)
  <1> DEFINE s == NewUsage[S]
             t == NewUsage[Component]
             u == OldUsage[S]
             v == OldUsage[Component]
  <1>1. s \in Nat /\ t \in Nat /\ u \in Nat /\ v \in Nat /\ s <= t /\ u <= v
    BY SumBounds
  <1>2. Component \in States BY SumBounds
  <1>3. t <= Headroom + u
    BY <1>2, RoomIsCapacity
  <1>4. Headroom + v + t < Word /\ Headroom \in Nat /\ Word \in Nat
    BY NoOverflow
  <1>5. s <= Headroom + u /\ t <= Headroom + v
    <2> HIDE DEF s, t, u, v
    <2> QED BY <1>1, <1>3, <1>4
  <1>6. RESOURCE(S) = s /\ RESOURCE(Component) = t
    BY <1>2, RESOURCEExact
  <1>7. REAL(S) = Headroom + u - s /\ REAL(Component) = Headroom + v - t
    BY <1>2, <1>5, REALExact
  <1> DEFINE rs == REAL(S)
             rc == REAL(Component)
  <1>8. Slack(S, Component) = (rs - t + s) % Word /\ Slack(Component, Component) = (rc - t + t) % Word
    BY <1>6, Zenon DEF Slack
  <1>12. rs = Headroom + u - s /\ rc = Headroom + v - t
    BY <1>7
  <1> HIDE DEF s, t, u, v, rs, rc
  <1>9. /\ rs - t + s = Headroom + u - t
        /\ rc - t + t = Headroom + v - t
        /\ Headroom + u - t \in 0..Word-1 /\ Headroom + v - t \in 0..Word-1
    BY <1>1, <1>3, <1>4, <1>5, <1>12
  <1>10. \A x \in 0..Word-1 : x % Word = x
    BY Widths
  <1>11. Slack(S, Component) = Headroom + u - t /\ Slack(Component, Component) = Headroom + v - t
    BY <1>8, <1>9, <1>10
  <1> QED BY <1>1, <1>4, <1>11

\* Staying at the new program does not change the least slack.
LEMMA ExtendDIFF ==
    ASSUME NEW m \in Nat, NEW p \in WellFormed(m), NEW n \in Nat, m <= n
    PROVE  DIFF(n, Extend(m, p, n)) = DIFF(m, p)
  <1> DEFINE e == Extend(m, p, n)
             d == DIFF(m, p)
  <1>1. p \in Plans(m) /\ StaysWithinHeadroom(m, p)
    BY WellFormedPlansStayWithinHeadroom
  <1>2. e \in Plans(n) BY <1>1, ExtendStates
  <1>3. \A i \in 1..m+1 : /\ StateAt(n, e, i-1) = StateAt(m, p, i-1)
                           /\ StateAt(n, e, i) = StateAt(m, p, i)
    <2> TAKE i \in 1..m+1
    <2>1. i-1 \in 0..m+1 /\ i \in 0..m+1 OBVIOUS
    <2> QED BY <1>1, <2>1, ExtendStates
  <1>4. Slacks(m, p) \subseteq Slacks(n, e)
    <2> SUFFICES ASSUME NEW i \in 1..m+1
                 PROVE  Slack(StateAt(m, p, i-1), StateAt(m, p, i)) \in Slacks(n, e)
      BY DEF Slacks
    <2>1. i \in 1..n+1 OBVIOUS
    <2>2. Slack(StateAt(n, e, i-1), StateAt(n, e, i)) \in Slacks(n, e) BY <2>1 DEF Slacks
    <2> QED BY <1>3, <2>2
  <1>5. \A x \in Slacks(m, p) : d <= x
    BY <1>1, DIFFIsLeast
  <1>6. \A x \in Slacks(n, e) : d <= x
    <2> SUFFICES ASSUME NEW i \in 1..n+1
                 PROVE  d <= Slack(StateAt(n, e, i-1), StateAt(n, e, i))
      BY DEF Slacks
    <2>1. CASE i <= m+1
      <3>1. i \in 1..m+1 BY <2>1
      <3>2. Slack(StateAt(m, p, i-1), StateAt(m, p, i)) \in Slacks(m, p) BY <3>1 DEF Slacks
      <3> QED BY <1>3, <1>5, <3>1, <3>2
    <2>2. CASE i > m+1
      <3>1. i-1 \in m+1..n+1 /\ i \in m+1..n+1 BY <2>2
      <3>2. StateAt(n, e, i-1) = Component /\ StateAt(n, e, i) = Component
        BY <1>1, <3>1, ExtendStates
      <3>3. m+1 \in 1..m+1 /\ (m+1)-1 = m /\ m \in 0..m+1 OBVIOUS
      <3>4. StateAt(m, p, m+1) = Component BY DEF StateAt
      <3> DEFINE S == StateAt(m, p, m)
      <3>5. S \in States BY <1>1, <3>3, StateAtType
      <3>6. TransientUsage(S, Component) <= Capacity
        BY <1>1, <3>3, <3>4 DEF StaysWithinHeadroom
      <3>7. d <= Slack(S, Component)
        BY <1>5, <3>3, <3>4 DEF Slacks
      <3> HIDE DEF S
      <3>8. Slack(S, Component) <= Slack(Component, Component)
        BY <3>5, <3>6, StayingIsFree
      <3>9. d \in Nat /\ Slack(S, Component) \in Nat /\ Slack(Component, Component) \in Nat
        BY <1>1, <3>5, SumBounds, SlackType, DIFFIsLeast
      <3> HIDE DEF d
      <3> QED BY <3>2, <3>7, <3>8, <3>9
    <2> QED BY <2>1, <2>2
  <1>7. d \in {DiffInit} \cup Slacks(n, e) /\ d <= DiffInit /\ d \in Nat
    BY <1>1, <1>4, DIFFIsLeast
  <1>8. /\ DIFF(n, e) \in {DiffInit} \cup Slacks(n, e)
        /\ DIFF(n, e) <= d /\ DIFF(n, e) \in Nat
    BY <1>2, <1>7, DIFFIsLeast
  <1>9. d <= DIFF(n, e)
    BY <1>6, <1>7, <1>8
  <1> HIDE DEF d, e
  <1>10. DIFF(n, e) = d
    BY <1>7, <1>8, <1>9
  <1> QED BY <1>10 DEF d, e

\* Every plan is also a plan of each greater length: the conditions of
\* synthesizer_spec.py, diagnosis mode included, let a plan stay at the new
\* program, at the same least slack.
THEOREM PlansExtend ==
    ASSUME NEW m \in Nat \ {0}, NEW p \in WellFormed(m), NEW n \in Nat, m <= n
    PROVE  /\ Extend(m, p, n) \in WellFormed(n)
           /\ DIFF(n, Extend(m, p, n)) = DIFF(m, p)
  <1> DEFINE e == Extend(m, p, n)
  <1>1. p \in Plans(m) /\ Monotone(m, p) /\ Feasible(m, p) /\ Diagnosis(m, p)
        /\ DIFF(m, p) > 0 /\ Progressing(m, p)
    BY DEF WellFormed
  <1>2. e \in Plans(n) BY <1>1, ExtendStates
  <1>3. DIFF(n, e) = DIFF(m, p) BY ExtendDIFF
  <1>4. CURR(Component) = total_changes BY DEF CURR, total_changes
  <1>5. ASSUME NEW i \in 1..n+1
        PROVE  \/ /\ i \in 1..m+1 /\ StateAt(n, e, i-1) = StateAt(m, p, i-1)
                  /\ StateAt(n, e, i) = StateAt(m, p, i)
               \/ StateAt(n, e, i-1) = Component /\ StateAt(n, e, i) = Component
    <2>1. CASE i <= m+1
      <3>1. i-1 \in 0..m+1 /\ i \in 0..m+1 BY <2>1
      <3> QED BY <1>1, <2>1, <3>1, ExtendStates
    <2>2. CASE i > m+1
      <3>1. i-1 \in m+1..n+1 /\ i \in m+1..n+1 BY <2>2
      <3> QED BY <1>1, <3>1, ExtendStates
    <2> QED BY <2>1, <2>2
  <1>6. Monotone(n, e) BY <1>1, <1>5 DEF Monotone
  <1>7. Progressing(n, e) BY <1>1, <1>4, <1>5 DEF Progressing, Progress
  <1>8. Feasible(n, e)
    <2>1. Fits(Component, Component)
      <3>1. RESOURCE(Component) \in Nat /\ REAL(Component) \in Nat BY SumBounds, SlackType
           DEF States
      <3> DEFINE r == RESOURCE(Component)
      <3> HIDE DEF r
      <3>2. r \in Nat => (r - r) % Word = 0 BY Widths
      <3> QED BY <3>1, <3>2 DEF Fits, r
    <2> QED BY <1>1, <1>5, <2>1 DEF Feasible
  <1>9. Diagnosis(n, e)
    <2> SUFFICES ASSUME n # 1, NEW i \in 2..n+1 PROVE Needed(n, e, i)
      BY DEF Diagnosis
    <2>1. CASE i <= m
      <3>1. i-2 \in 0..m+1 /\ i \in 0..m+1 /\ i \in 2..m+1 /\ m # 1 BY <2>1
      <3>2. StateAt(n, e, i-2) = StateAt(m, p, i-2) /\ StateAt(n, e, i) = StateAt(m, p, i)
        BY <1>1, <3>1, ExtendStates
      <3>3. Needed(m, p, i) BY <1>1, <3>1 DEF Diagnosis
      <3> QED BY <1>3, <3>2, <3>3 DEF Needed
    <2>2. CASE i > m
      <3>1. i \in m+1..n+1 BY <2>2
      <3>2. StateAt(n, e, i) = Component BY <1>1, <3>1, ExtendStates
      <3> QED BY <1>4, <3>2 DEF Needed
    <2> QED BY <2>1, <2>2
  <1> QED BY <1>1, <1>2, <1>3, <1>6, <1>7, <1>8, <1>9 DEF WellFormed
=============================================================================
