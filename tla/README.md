# FlexPlan in TLA+

FlexPlan (`src/synthesizer`) computes update plans for runtime programmable
switches: an order in which the changing components of a P4 program are switched
from their old to their new code, so that every transition stays within the free
resource and every intermediate program satisfies the user's spec. It searches by
counterexample-guided synthesis (CEGIS) with z3, on formulas that bf4 (`src/bf4`)
compiles from an instrumented P4 program.

This directory models the search (the formula that describes a plan, the loop that
proposes and verifies plans, the parallel verifiers, the background process that
learns unsat cores), what comes before it (the spec language, and bf4's way from a
control-flow graph to SSA form), what comes after it (the report), and the processes
and files of one run and of several. TLC checks the models on small instances, and
TLAPS proves the main safety properties for every instance.

## 1. The system

`FlexPlan.py` calls `cegis.sh`, which runs these parts, all in one working directory:

| Part | Source | State | Operations |
|---|---|---|---|
| Instrumentation | `clean_p4`, `instrumentation`, `random_annotation`, `annotation_expand`, `nondeterministic_action`, `integrate_p4`, `replace_action_run`, `ingres_egress_merge`, `extract_metadata`, `table_dependency_analysis` | P4 text, pickles with names | rewrite text, one after the other |
| Spec language | `parser.py`, `utils.py`, `spec_interpret.py`, `distill_spec.py` | definitions, assumptions, assertions | reverse assertions, join violation conditions |
| Formula of a plan | `synthesizer_spec.py`, `concat_states.py` | counters RESOURCE, REAL, CURR, DIFF per state | conditions on resource, progress, order, redundancy |
| Frontend | `parallel-p4c-analysis.py` | one folder and one SMT file per length | compile; longer lengths in the background |
| bf4 | `src/bf4/backends/analysis` | control-flow graph, basic blocks, versions | prune, split branches, build blocks, dominators, SSA |
| Unsat core learner | `distill_uc.py`, `distill_example.py` | lists of cores, `output-fin`, `result` | find a violation, distil a core, dump, save |
| Length loop | `cegis.sh` | length, `termination`, `output-plan` | start a length, wait, next length, report |
| CEGIS loop | `cegis_loop.py` with `concat_smt`, `extract_plan`, `incremental_verify`, `extract_packet`, `extract_simple`, `termination`, `interpret` | round, counterexamples, candidate, logs, `result` | propose, prepare, verify or skip, scan, decide |
| Parallel verification | `parallel-smt-analysis.py` | workers, z3 processes, queue, logs | start, solve, report, terminate on the first sat |
| Free variables | `free_extract.py` | `constrained_variables.pickle`, `output-ready` | regenerate P4 texts once the learner is done |
| Report | `interpret.py`, `final_result.py` | `output-plan` | list the instructions of each transition |
| Clean-up | `kill_uc.py`, `clean_repo.sh` | pid files, all files | kill, remove |

**Interactions.** Everything is shared through files opened by name, without
locks. The learner runs once before the loop and once in its background. The two
processes share `result` (the learner opens it for writing; the loop decides on
it), `output-fin` (written by the learner, tested by the loop) and
`unsat_lists.pickle` (rewritten in place by the learner, read by the loop). The
verifiers share their logs with the loop and can outlive the program that started
them. Learner, frontend and killer are started with `nohup` and can outlive the run
that started them, in the directory the next run uses.

**What is hard.** Verifiers that are stopped leave empty or missing logs. A scan
can end early. A crash of `cegis_loop.py` does not stop `cegis.sh`, and leaves the
files of an older length behind. FIN is tested later than the cores were read. The
learner empties `result` at any time. Workers die. Resource arithmetic is unsigned.
Rounds, periods and timeouts run out. Compilations fail, and the script waits for
their output. Processes of one run meet the files of another. In bf4, each pass
relies on a shape of the graph that an earlier pass has to leave. `PROJECT.json`
lists these hazards with the line at which each bites.

**What should hold.** A reported plan stays within the headroom and violates the
spec for no packet; "no plan" is only said when there is none; learned cores and
counterexamples exclude no correct plan; each round makes progress; longer lengths
do not make the plan worse; the formulas and cores of a run are its own; the
violation condition means what the spec says; the printed steps add up to the plan;
the passes of bf4 preserve what the program computes; everything ends.

## 2. Modules

In the modules of the search, components are abstract elements, a program state is
the set of components that run new code, a packet is a model value, and the user's
spec is the constant `Violates`: the packet and state pairs that violate it. Text,
names, pickles and SMT syntax are abstracted away; files are variables.

| Module | Models |
|---|---|
| `UpdatePlan` | The conditions of the synthesis formula with their word sizes, and reference definitions in exact arithmetic |
| `WorkDir` | The shared files and what an unsat core is |
| `Verification` | What the verification phase promises about the logs |
| `VerifyPhase` | The verification phase as one step (abstract specification) |
| `ParallelVerify` | `parallel-smt-analysis.py` in detail; implements `VerifyPhase` |
| `CegisLoop` | `cegis.sh` from the first length on, `cegis_loop.py` and the programs it calls |
| `UnsatCoreLearner` | `distill_uc.py` and `distill_example.py`, both runs |
| `FlexPlan` | `CegisLoop` and `UnsatCoreLearner` interleaved on `WorkDir` |
| `SpecLang` | `parser.py`, `spec_interpret.py`: from a spec to the violation condition |
| `PlanReport` | `interpret.py`, `final_result.py`: from z3's model to the printed transitions |
| `SynthesisInput` | `UpdatePlan`, `SpecLang` and `PlanReport` over all small updates and specs |
| `Lifecycle` | The runs of `cegis.sh` in one directory: script, frontends, learners, killers |
| `CfgGraph` | Graphs as bf4 keeps them: edges in order, reverse edges, subgraphs, reachability |
| `BasicBlocks` | `removeDeadNodes`, `push_ifs`, `basic_blocks` |
| `DomFrontier` | `topo_sort`, `dom_frontier` |
| `MakeSsa` | `LiveVariables`, `make_ssa`; composes the passes |
| `MC*` | Instances for TLC |
| `*Proofs` | Theorems about the module they are named after |

### UpdatePlan

`StateAt(n, plan, i)` is state `i` of a plan of length `n`; 0 is the old program
(index `total+1` in the code) and `n+1` the new one (`total+2`), fixed to all
zeros and all ones by `concat_states.py`. `RESOURCE`, `REAL` and `CURR` are the
counters of the instrumented program modulo `Word` and `Byte`, `DIFF` the least
slack of a plan. `Fits`, `Progress`, `Needed` (the diagnosis condition, used for
lengths above 1), `Monotone` and `DIFF > 0` make up `WellFormed`. The conditions
on free additions and deletions are left out: without `--free_var on` there are
none, and with it the formulas a run works with have none either
(`RegenerationComesTooLate` in `Lifecycle`). `Passes` is the spec for one packet. `TransientUsage`, `Capacity` and
`StaysWithinHeadroom` say in exact arithmetic what "within the headroom" means:
during a transition from `S` to `T` the new code of `T` and the old code of all that
is not yet new in `S` are loaded.

### CegisLoop

The program counter `pc` follows the scripts: `length` (start a length), `propose`
(`concat_smt.py`, z3, `extract_plan.py`), `prepare` (`incremental_verify.py` and
the removals), `checkFin`, `scan`, `decide`, `endLength`, `done`. An action covers
everything the code does between two points at which the learner's files can be
seen: for instance `Accept` writes `output-plan`, and ENDED or EXIT.

- `Candidates`: the formula, one copy per counterexample, one copy with a free
  packet, and the cores read at that moment.
- `Preferred`: the objectives, lexicographically; the order of the CURR objectives
  is that of a Python dict, hence any.
- `ProposeFails`: at the lengths in `SolverFails` z3 may end without an answer.
  `cegis_loop.py:103` looks only for "unsat", so an empty plan is extracted.
- `Verify` takes any outcome of `VerifyOutcomes`; the scan reads the logs in plan
  order (the code sorts the names, which is the same up to ten states).
- `ScanCrash`: a missing log makes `cp` fail and `cegis_loop.py` exit. The next
  length then finds an old `solve_prev.smt`, and any counterexample may be lost
  (`extract_prev`).

### UnsatCoreLearner

`Violations` is what `solve-distill.smt` admits, `MinimalCores` what z3 can return
for an example. Opening a file for a dump and finishing the dump are two steps
(`LearnCore`, `Dump`; `SaveLists`, `SaveResults`), between which the loop reads no
cores. `OpenResult` and `WriteResult` are the two steps on `result`; an `rm` in
between leaves the learner writing to an unlinked file (`handle`). `GiveUp` stands
for the period, the z3 timeout and the limit of `flag_sat`.

### ParallelVerify

One worker per state, its z3, its log; the bounded queue; the parent, which first
starts all workers and then waits; termination of the workers, which leaves their
z3 processes running and writing. `Leftover` gives the logs and the z3 processes of
an earlier round: `rm` unlinks a log that such a process still writes to. `Mortal`
gives the sets of workers that may die before they report. `seen` collects what the
main loop reads afterwards. With `outcome <- IF AllRead THEN seen ELSE <<>>` it
implements `VerifyPhase`, whose single step is the one `CegisLoop!Verify` takes.

### SpecLang, PlanReport, SynthesisInput

A spec is a sequence of definitions with assumption and assertion lines; a line is
one literal, or literals joined by one connective; an atom is a comparison of fields
that an environment makes true or false. `parse_assertion`, `concatenator`,
`assume_string`, `condition`, `SUBVIOLATION` and `violation_cond` follow the two
programs, overwriting and missing parentheses included, and so do the literals that
`spec_interpret.py` drops: from assumptions those whose text is "placeholder" or has
"packet" anywhere in it (`Skipped`, line 18), which is meant for the comparison of
packets (`SamePacket`) and also hits a field such as `packet_color`; from assumptions
and assertions those of a metadata field without `.eg.` or `.ig.` (`Unplaced`, lines
37 and 100). An environment makes the `SamePacket` atoms true and any other atom true
or false. `Violated` is the reference: the spec as it reads. `Translatable` describes
the definitions of which nothing is lost, `Covered` the larger class of which no
alternative of a disjunction is lost. Both are stated on the spec, not on what the
code keeps of it. Not in the model: a literal with `.ig.` keeps its `$cur.ig` name and
an assertion line that loses all literals leaves an empty operand, neither of which
compiles; and the search for the real name of a metadata field is taken to find it.
`PlanReport` goes from the values of z3's model, keyed by copy
number, to `output-plan` and to the list of instructions of each transition.
`SynthesisInput` chooses one input, an update with a headroom or a spec, and its
properties compare the code's definitions with the references.

### Lifecycle

A file is modelled by the run whose program it comes from (and, for P4 text and
formulas, by whether it was regenerated with free variables; the mark READY in
`output-ready` lets this happen once in a run). The script cleans the
directory in the order of `clean_repo.sh` (`CleanSmt`, `CleanPickle`, `CleanP4`,
`CleanOutput`, `CleanFolders`), compiles length 1, writes the longer P4 texts and
starts the frontend, starts the learner, and then waits, takes a formula and loops
for each length; it reports, starts the killer and cleans again. A frontend's job is
the sequence of commands of `check_call`, any of which may find its files gone. A
folder that is removed under a running compilation takes the compilation's output
with it (`cwd`). `Interrupt` is the user who stops the script and starts it again.

### CfgGraph, BasicBlocks, DomFrontier, MakeSsa

A graph maps a node to its edges, in the order in which they are stored; as in the
code, a node without edges need not be a key. `kind` tells `if`s and `select`s from
other nodes. `<<n, 0>>` is a node of the program and `<<n, i>>` the node that
`push_ifs` puts on branch `i` of `n`. The loops over stacks and edges are actions
(`Visit`, `PushNeighbor`, `PopHead`, `Meet`, `Extend`, `Split`, `PushSucc`); the state
"bug" is a failing `BUG_CHECK`. `topo_sort` may start from the blocks in any order,
since the code's map is ordered by addresses; "unsorted" is the second `BUG_CHECK`,
and "undefined" the read of an empty vector. `make_ssa` treats every variable on its
own, so the model has one; `code` says what each node does to it, and is chosen when
the earlier passes, which do not look at it, are done. `rename` is a recursion with
an explicit stack of calls. `Faults` is the reference: it runs the resulting
statements along every path and compares each version read with the value that the
original program reads there.

## 3. Runs

| Run | Checks | Result |
|---|---|---|
| `cegis` | `TypeOK`, `OutputStaysWithinHeadroom`, `CompleteScanIsSafe`, `DeadIsSound`, `LengthIsDecided`, `RoundsMakeProgress`, `LongerPlansAreNoWorse`, `Termination` | hold |
| `cegis_early_stop` | `OutputIsSafe` | violated |
| `cegis_exit` | `ExitIsOptimal` | violated |
| `learner` | `LearnerTypeOK`, `FinIsComplete`, `LearnerTermination` | hold |
| `flexplan` | `SysTypeOK`, `OutputStaysWithinHeadroom`, `CompleteScanIsSafe`, `CoresAreSound`, `DeadIsSound` | hold |
| `flexplan_fin` | `SkippedVerificationIsSafe` | violated |
| `flexplan_result` | `RefutedPlanIsRejected` | violated |
| `parallel` | `PTypeOK`, `LogsAreOfThisRound`, `ImplementsVerifyPhase`, `VerificationEnds` | hold |
| `synthesis_input` | `WellFormedIsFeasible`, `DiagnosisKeepsOptimum`, `ReportReplaysPlan`, `TranslationIsExact`, `NoViolationIsMissed` | hold |
| `spec_or` | `DisjunctionIsHonoured` | violated |
| `lifecycle` | `LTypeOK`, `FormulaIsFresh`, `CoresAreFresh`, `RegenerationComesTooLate`, `WaitEnds` | hold |
| `control_flow` | `BTypeOK`, `PruningIsExact`, `NoNodeTwice`, `BlocksKeepTheEdges`, `SortIsTopological`, `DominatorsAreExact`, `FrontierIsExact`, `ReadsKeepTheirValues`, `VersionsAreWrittenOnce`, `AnalysisEnds` | hold |

**Bounds.** No symmetry is used: the usages tell the components apart. `Word` 256,
`Byte` 16 and `DiffInit` 100 keep the relations of 2^32, 2^8 and 1000000 to the
resources.

- `cegis`: four components, two that grow and two that shrink; a headroom of 12
  excludes many orders. No plan of one state is correct, some of two and of three
  are, with different spikes, and each of the four packets is needed. Four rounds are
  used up when one length finds all four. z3 may fail at lengths 2 and 3, with and
  without a plan of an earlier length.
- `cegis_early_stop`: three components, two states; `cegis_exit`: four components
  whose least spike over lengths 1, 2, 3 is 10, worse, 9.
- `learner`: three components, of which the new program fails; `MaxFlag` 4 and
  `BigCore` 2 stand for 20 and 5. Cores of every size occur, the empty one included,
  and the limit of `flag_sat` is met.
- `flexplan`: three components, lengths up to 2, three rounds, every interleaving
  with the learner; a plan of length 1 is accepted or refused, and length 2 is DEAD.
  The two violations need only two components.
- `parallel`: every chain of up to three mixed states of four components, with
  violated, correct and unanswered ones; a queue of two places for three workers;
  logs and a z3 left from the round before; four sets of workers that may die.
- `synthesis_input`: three components, each an addition, a deletion or a modification
  that grows, shrinks or stays, with headrooms from too little to plenty and plans of
  up to three states; specs of one definition with up to two assumption and two
  assertion lines of up to two literals, and specs of two shorter definitions. The
  lines have literals that are dropped rightly, a field with "packet" in its name, and
  a metadata field without a place, in assumptions and in assertions.
- `lifecycle`: two runs and plans of up to two states, which is one background
  compilation per run (448 thousand states; with three runs there are more than 40
  million). That two runs are not all is why the invariants are proved for any number
  of runs and lengths; the exception in `RegenerationComesTooLate` only matters from
  the third run on. `WaitEnds` is checked for two runs only.
- `control_flow`: all 336 loop-free programs of four nodes with plain nodes, `if`s
  and a three-way `select`, dead nodes, parallel edges and early ends, and twelve
  assignments of reads and writes. bf4 unrolls loops before these passes.

Deadlock is not checked in `lifecycle` (a wait can be without end) and in
`control_flow` (the analysis is over).

**Fairness.** `cegis` assumes weak fairness of the main process: a shell script
whose commands end (z3 is called without a timeout and assumed to end). `learner`
assumes it of the learner. `parallel` assumes it of each worker with its z3, and of
the parent; not of deaths and not of z3 processes of earlier rounds. `lifecycle`
assumes it of the script and of each frontend's job; not of the user, the killers and
the learners. `control_flow` is one thread. `flexplan` checks safety only.

**What the violations show.**

- `cegis_early_stop`: the first sat stops the other verifiers. A state earlier in
  the plan whose verifier was stopped has an empty log; the scan ends there
  (`cegis_loop.py:181`), `result` does not say SAT, and the refuted plan is
  accepted.
- `cegis_exit`: `interpret.py:76` stops at a plan whose last state is the new
  program. On an instance where two states do not beat one but three do, the exit
  misses the smaller spike.
- `flexplan_fin`: FIN arrives after the candidate was proposed; it is accepted
  unverified (`cegis_loop.py:123`).
- `flexplan_result`: `distill_example.py:12` empties `result` after SAT was written
  and before it is tested.
- `spec_or`: `synthesizer_spec.py:255` joins the violation conditions of all
  definitions with one connective, " || " unless the file has a concatenator line. For
  `assert program_all_old || program_all_new` (`spec/program.spec:21`) a packet that
  violates one of the two then counts as a violation.

**Observations without a run of their own.**

- A verifier without an answer is accepted through the branch at
  `cegis_loop.py:208` (`Undecided` gives the states for which this happens). A z3
  that fails in the proposal leads to an empty plan that is accepted
  (`ProposeFails`). `LengthIsDecided` lists these exceptions.
- `DIFF > 0` (`synthesizer_spec.py:328`) refuses a plan that uses the headroom up
  exactly. With a tight headroom the slack of a jump that does not fit wraps
  (`synthesizer_spec.py:268`), and the diagnosis condition refuses the plans whose
  states are needed: `DiagnosisKeepsOptimum` is about headrooms in which the whole
  new program fits at once.
- CURR counts changes in 8 bits (`synthesizer_spec.py:230`): with a multiple of 256
  components the old program would count as complete (`ChangesAssumption`).
- FIN leaves at most one failing state uncovered, and none if the new program is
  correct (`FinIsComplete`).
- Of several assumption lines only the last that keeps a literal counts
  (`spec_interpret.py:63`), in a reversed conjunction the assumption guards only the
  first literal (`spec_interpret.py:122`), and literals are dropped
  (`spec_interpret.py:18`, 37, 100). The condition is then not the violation
  (`Translatable` excludes this), but it is implied by it: packets may count as
  violations that are none, and plans be refused (`NoViolationIsMissed`).
- The other direction is lost with an alternative: when a literal is dropped from an
  assumption line joined by ||, or a metadata literal from an assertion line joined by
  && (or from a `!( ... || ... )` one), packets that violate the spec count as correct
  and a plan that lets them pass is accepted. `Covered` excludes these specs.
- `--free_var on` changes no formula a run works with. The regeneration at
  `cegis_loop.py:133` writes the P4 texts of the lengths up to the current one, whose
  formulas have been taken; nothing compiles them again for this run, and READY keeps
  it from being repeated at a greater length. `src/README.md:37` calls the option an
  "extra optimization for early stopping", and the message at `cegis_loop.py:132`
  promises "faster failure introspection": `RegenerationComesTooLate` says that
  neither can happen. It makes one exception. After an interrupt the next run may take
  the formula of a leftover compilation and so regenerate a text before its own
  compilation has copied it; after a second interrupt, a third run may take the
  formula with free variables that comes of it.
- After an interrupt, a compilation of the stopped run can export its formula after
  `clean_repo.sh:4` removed the formulas and before `clean_repo.sh:23` removes its
  folder: `FormulaIsFresh` makes an exception for the run after an interrupted one.
- A delayed killer of one run can read the pid files of the next and end its
  frontend; the wait at `cegis.sh:117` is then without end. So is it after a failed
  compilation, also that of length 1, where `cegis.sh:66` announces an exit and does
  not exit. `WaitEnds` assumes that neither happens.
- The final clean-up removes the pid files (`clean_repo.sh:5`), possibly before
  `kill_uc.py` has read them: learner and frontend then outlive the run
  (`outlived` in `CoresAreFresh`).
- `basic_blocks` does not look at the stack before it pushes a block head; that no
  head is pushed twice rests on `push_ifs` leaving no edge from a node with several
  successors to one with several predecessors. The same keeps the copies of
  `make_ssa` right. `sorted.back()` (`cfg_algos.cpp:1038`) reads an empty vector when
  the program is a single block.

## 4. Proofs

All theorems hold for every value of the constants that satisfies the named
assumptions: usages are sums over a finite, non-empty set of components
(`UsageAssumption`, `ComponentAssumption`), no sum of resources reaches the word
size (`NoOverflowAssumption`, `WidthAssumption`), the 8-bit number of changes is
not 0 (`ChangesAssumption`), the bounds are naturals, a spec
file has one or two definitions (`SpecFilesAssumption`), the atoms that compare
packets are skipped ones (`AtomAssumption`), and a node of a program has the edges its kind allows
(`ProgramsAssumption`).

- `UpdatePlanProofs`. `FeasiblePlansStayWithinHeadroom`: the unsigned test `Fits`
  is exact as long as the state before it is within the capacity, since then REAL
  does not wrap. The argument takes the first transition of a monotone plan that
  exceeds the capacity; the transition before it does not, which makes the test
  exact and contradicts it. `WellFormedPlansStayWithinHeadroom` follows.
  `PlansExtend`: a plan continued with the new program is a plan of every greater
  length, with the same DIFF.
- `CegisLoopProofs`. The inductive invariant `SoloInv` strengthens `TypeOK` by:
  the formula is `WellFormed(len)` (`FormulaInv`); until a counterexample is added
  the candidate passes all of them (`PlanInv`); the states no longer in `todo` were
  answered unsat, hence are correct (`ScanInv`); the plan in `output-plan` is
  within the headroom; and no core or FIN was contributed. `TypeCorrect`,
  `OutputFeasible`, `CompleteScanSafe`, `DeadSound`, `RoundsProgress` and
  `LengthDecided` follow. `LongerPlans` combines it with `PlansExtend`: the plan in
  `output-plan`, continued, was among the candidates of the longer length.
- `UnsatCoreLearnerProofs`. Every core in `lists`, `results`, `saved`,
  `known` and the file is sound (`SoundInv`). A new core is distilled relative to
  the states the earlier ones leave open; a state it matches is either open, then
  violated by the packet, or matched by an earlier core, then violated by
  induction. What is excluded by hand is one state at a time, and none if the new
  program is correct, where the empty core is never minimal; this gives
  `FinComplete`.
- `FlexPlanProofs`. Both invariants together are inductive for the composition: the
  loop writes nothing the learner's invariant depends on, and the learner's writes
  to `result` do not disturb the loop's. `SysSafety`, `SysDeadSound`.
- `ParallelVerifyProofs`. `PInv`: once the logs are removed no z3 of an earlier round
  writes to one (`LogsInv`); a z3 that ended wrote its answer (`SolverInv`); `count`
  is the number of reports still to be taken (`CountInv`, with the cardinality
  theorems); the parent returns on a sat or with all answers (`ReturnInv`). Hence
  `LogsOfThisRound`, and the refinement `ParallelImplementsPhase`: the step that
  reads the last log is the abstract step, every other one a stutter.
- `LifecycleProofs`, for any number of runs and lengths. `FreshInv`: after the
  clean-up at the start all P4 texts, folders and compilations that can still write
  are of this run or hold nothing, and after an orderly end they hold nothing
  (`Blank`), which protects the time in which the next run has removed formulas and
  not yet folders. `CoreInv`: after the pickles are removed, a learner of an earlier
  run that is alive is in `outlived`. `TypesHold`: a compilation writes into its
  folder only while that folder exists (`FolderInv`). `FormulasArePlain`: texts with
  free variables exist only for lengths that the loop has left behind (`Behind`,
  `PlainAt`), and a text of one length only ever becomes a formula of that length, so
  they cannot reach a length ahead (`FreeInv`). Until the second run has cleaned up
  there is a single worker, which has copied each text before the loop can regenerate
  it (`SingleInv`); after that a run that follows an orderly end is protected by
  `FreshInv`.
- `SynthesisInputProofs`. `Translation`: the reversed line is the negation of the
  line, the kept assumption is the assumption, and so line by line the condition is
  the violation; `OneDefinition` puts this as the synthesis formula of a file of one
  definition. `NoneMissed`: dropping a conjunct of an assumption or of a violation,
  overwriting an assumption line and letting the assumption guard less all make the
  condition weaker, so that it still holds of every violation.
  `DisjunctionIsConjunction` shows that what `spec_or` finds holds of every
  translatable spec. `Report`: an instruction is printed in the transition to the first
  state that has it, so the transitions up to a state add up to it.
- `BasicBlocksProofs`, for every graph, loops included. `Pruning`: the visited
  nodes and those on the stack lie in every closed set that holds the start, and each
  edge of a visited node leads to a known one or is still to be pushed.
  `NodesMetOnce`: after `push_ifs` no edge is critical; block heads on the stack are
  distinct, not yet in a block, and have one predecessor, except for the one that was
  pushed last.

**Only model-checked.** `Termination`, `LearnerTermination`, `VerificationEnds`,
`WaitEnds` and `AnalysisEnds` (liveness is out of the prover's reach);
`DominatorsAreExact`, `FrontierIsExact`, `SortIsTopological`, `ReadsKeepTheirValues`
and `VersionsAreWrittenOnce` (about recursive functions, which would need induction
over data); `BlocksKeepTheEdges`, `BTypeOK`, `DiagnosisKeepsOptimum`; `WellFormedIsFeasible` restates for all small updates what
`WellFormedPlansStayWithinHeadroom` proves. `SysTypeOK` is part of `SysSafety`.

## 5. Not modelled

- **Instrumentation** and the names and layout in all other scripts: line by line
  rewriting of P4 text without other state. `--incremental on` is never used by
  `cegis.sh`. `free_extract.py` computes names from the text of one formula; the
  regeneration it triggers is in `Lifecycle`.
- **Definition concatenation** (`output-or` says OR): its formulas are in `SpecLang`,
  the search is not. The mode verifies twice per state but keeps one counterexample
  per round of the two it appends (`extract_simple.py:75`, `concat_smt.py`), does not
  remove the logs of its verifiers between rounds (`cegis_loop.py:155`), writes FIN
  after the first of two formulas (`distill_uc.py:100`), and drops new cores when
  there are no old ones. A model would have no settled meaning to be checked against.
- **Partial files**: a formula seen by `cegis.sh:117` while `cp` is writing it, or a
  log with half of z3's model. What follows depends on where the text breaks off.
- **bf4 beyond the passes above**, p4c, and z3. `src/bf4` is a P4 compiler of some
  260,000 lines, nearly all of it p4c's parser, type checker, IR, passes and back ends
  for other targets, which FlexPlan calls and does not change. The models cover the
  passes between the control-flow graph and SSA form, where the shape that one pass
  leaves is what the next relies on, composed as in `BugReport.cpp:28-31`:
  `basic_blocks`, then `make_ssa`. `ExplicitUB.cpp:787-799`, which the plain
  `p4c-analysis` call goes through, runs `solve_lookaheads`, `rminstrIf` and
  `ensure_basic_blocks` (`cfg_algos.cpp:1169`) in between; they are not modelled, and
  there the results about `make_ssa` rest on their leaving no edge from a block with
  several successors to one with several predecessors. The other algorithms of `cfg_algos` and
  `AnalysisContext` (`compute_dominators`, `chaotic_iterations`, inlining, unrolling)
  and the symbolic encoding are not. Measured in lines the map is therefore a small
  part of the tree, and a large part of `src/synthesizer`'s control.
