# A TLA+ verification project for caffeine

Caffeine is a symbolic executor for LLVM IR. This directory models, checks and
proves three parts of its engine that are under `src/`:

* **the parallel executor** (`src/src/Interpreter/Executor.cpp`). Worker
  threads pop execution contexts from a shared store. Each runs them in a
  backing list, spills the forks back to the store, and registers a solver
  that `Executor::interrupt` can stop from another thread;
* **the integer smart constructors** (`src/src/IR/Operation.cpp`). They
  propagate `undef`, apply identity folds and fold constants before they
  allocate a node;
* **the e-matcher builder** (`src/src/IR/EGraphMatching.cpp`). It
  hash-conses sub-clauses into ids, records clauses, and builds the matcher
  vector and its opcode index.

These parts meet in the interpreter, and the interpreter is not under `src/`.
It builds expressions with the constructors. The executor drives it one
step-batch at a time, and the e-graph it simplifies with is matched by the
built `EMatcher`. The models compose at those interfaces only: the executor
treats a step-batch as a nondeterministic outcome.

## Modules

| Module | Models | Used by |
|---|---|---|
| `Executor` | `run`, `run_worker`, `interrupt`, and the context store (from the spec) | `MCExecutor`, `ExecutorProofs` |
| `ExecutorProofs` | TLAPS proofs about `Executor` | tlapm |
| `ContextPool` | the abstract promise about contexts (spec sections 4.4 and 5) | `Executor` (the mapping `Pool`) |
| `ContextPoolProofs` | TLAPS proof that the pool keeps each context in one place | tlapm |
| `ExecutorRefinement` | TLAPS proofs that `Executor` implements `ContextPool` and loses no context | tlapm |
| `Operation` | the `Create*` constructors of integer operations, and a reference semantics | `MCOperation`, `OperationProofs` |
| `OperationProofs` | TLAPS proof that every constructor's result has the right width | tlapm |
| `EMatcherBuilder` | `add_clause`, `add_matcher`, `build`, `EMatcher::builder` | `MCEMatcherBuilder` |
| `EMatcherBuilderProofs` | TLAPS proofs about `EMatcherBuilder` | tlapm |
| `SubClauseVector` | the abstract promise of the builder: an append-only vector of sub-clauses | `EMatcherBuilder` (the mapping `Vector`) |
| `EMatcherRefinement` | TLAPS proof that `EMatcherBuilder` implements `SubClauseVector` | tlapm |
| `MC*` | model values and bounds for TLC | the runs |

### Executor

**State**

| Variable | Code |
|---|---|
| `store`, `shut` | the store's FIFO queue and its shutdown flag. `Store.h` is not under `src/`, so both follow spec section 5. |
| `stop` | `*should_stop` |
| `solvers` | `Executor::solvers`, as the set of workers whose solver is registered |
| `interrupted` | the solvers that have been interrupted |
| `queue[w]` | each worker's backing list |
| `pc[w]` | where each worker is in `run_worker`: before line 16, in `next_context` (line 21), at the loop head (line 29), inside `execute` (lines 37-59), in the spill loop (lines 61-64), or returned |
| `ipc` | where the interrupting thread is in `interrupt` |
| `nextCtx` | the next context identifier |
| `finished` | the contexts the interpreter marked dead |
| `log` | the `log_failure` calls |

**Actions**

| Action | Code |
|---|---|
| `Register` | lines 14-18 |
| `NextContext` | lines 21-24. It clears the list and pushes the popped context. |
| `Exit` | `next_context` returns empty and the worker returns |
| `LoopTop` | lines 29-35. It checks `should_stop`, then drops a dead front entry or goes on to execute. |
| `Execute` | lines 37-59. One of: the step-batch kills the active entry and appends up to `MaxForks` forks, it only appends forks, or it throws one of the two caught failures. A throw logs, then breaks out. |
| `Spill`, `SpillDone` | lines 61-65 |
| `InterruptStop`, `InterruptShutdown`, `InterruptSolvers` | the three blocks of `interrupt` (lines 93-95, 98, 101-109). The solver loop and `solvers.clear()` run under `mutex_` and form one step. |

Each action is one step at the granularity of the code's critical sections.
`next_context` and `add_context` lock the store, and `register`/`interrupt`
lock `mutex_`.

`caffeine_builtin_resolve`
(`src/src/Interpreter/ExternalFuncs/CaffeineBuiltinResolve.cpp`) kills the
active context and forks once per resolved pointer. That is the
"dies with k forks" outcome of `Execute`.

`Entries` is the number of contexts in the store when `run` is called
(one, the entry point, in the usual case). `Workers` may be empty: that is
`num_threads == 0`.

### ContextPool, and the refinement

`ContextPool` states what the executor promises about contexts, without the
store's order, the program counters, the solvers or the log. Each context
is pending, held by one worker, dead, or gone. Its actions:

* `Take(w, c)`: a worker takes a pending context. The store must be open
  and the worker's hand empty.
* `Run(w, c, F, dies)`: a step on a held context. It forks the fresh
  contexts `F` to the same worker and may kill `c`.
* `Yield(w, c)`: a worker gives a context back. The context is dropped if
  the store is closed.
* `Abandon(w, F)`: a worker drops everything it holds, together with the
  contexts `F` that the failing step created.
* `Close`: the store is shut.

`Executor`'s `Pool == INSTANCE ContextPool WITH ...` maps the state as
follows:

* `pending` is the elements of `store`;
* `held[w]` is the elements of `queue[w]`;
* `dead` is `finished`;
* `born` is the identifiers below `nextCtx`;
* `closed` is `shut`.

The actions correspond as follows:

* `NextContext` is `Take` of the store's head.
* An `Execute` that returns is `Run`: it forks `Forks(k)`, killing the head
  or not.
* An `Execute` that throws is `Abandon` with its forks. A `should_stop`
  break is `Abandon` with nothing.
* `Spill` is `Yield` of the list's last entry.
* `InterruptShutdown` is `Close`.
* Every other step is a stutter.

`Abandon` has to carry `F` because of the finding `NoForkLost`: a failing
step first creates forks and then loses them.

### Operation

Expressions are records:

* `ConstantInt(w, v)`;
* `Constant(w, name)`;
* `Undef(w)`;
* `Node(op, w, args)`, a node the constructor allocated;
* `Crash`, an `APInt` assertion.

Each `Create*` operator translates its C++ function. The order of tests is
the code's:

1. undef propagation;
2. identity folds (`x+0`, `x*1`, `x udiv 1`, the i1 special cases of
   `sdiv`/`srem` at lines 500 and 538);
3. constant folding with `APInt` arithmetic (`APUDiv`, `APSDiv`, `APShl`, ...);
4. allocation of a node.

`APInt` is LLVM code, so those helpers are spec-modelled. Widths are kept:
every result is reduced modulo `2^w`.

The state of a run is one constructor call and its result. `OpNext`
enumerates every call on every leaf (`ConstantInt`, `Constant`, `Undef`) of
widths 1-3. `RefDen`/`Den` give what an expression may evaluate to under an
assignment of its symbols. A division by zero, a signed overflow of
`sdiv`/`srem` and a shift of at least the width are undefined: every value
is allowed.

The int64-literal overloads of `CreateICmp` (lines 835-856) are
`CreateICmpLitL`/`CreateICmpLitR`. They build `APInt(64, n)`
(`LiteralBits`, a `LitWidth`-bit word), `sextOrTrunc` it to the operand's
width, and call the two-operand `CreateICmp`. `BuildICmpLit` enumerates
every literal of `LitWidth` bits on either side.

`ICmpOp::is_signed`/`is_unsigned` (`Operation.inl:328-335`) are range
tests on the `ICmpOpcode` numbering. That numbering is declared in
`Operation.h`, outside `src/`. The model names predicates directly, so
those tests are not modelled.

`and`, `or` and `xor` of two constants are `APBitwise`: the sum over the
bits `i < w` of `2^i` times the arithmetic form of the bit operation
(`x*y`, `x+y-x*y`, `x+y-2*x*y`), written as a recursive function so that
the module can be reasoned about with TLAPS. The reference semantics
checks it against `BitwiseRef`, an independent bit-by-bit definition, in
`FoldSound`.

### EMatcherBuilder

**State**

| Variable | Code |
|---|---|
| `subclauses` | the `unordered_map<SubClause, size_t>`, as a function from sub-clause records to ids |
| `subclause_id` | `subclause_id` |
| `clauses` | `clauses` |
| `matcher` | the last built matcher |
| `issued` | a ghost: the sub-clause each returned id stood for |

A filter is a record of its contents (`kind`) and its address (`addr`). This
is because `SubClause::operator==` (line 34) compares the `unique_ptr`s.
`FreshAddr` is the allocator: it gives any address not held by a live filter,
so freed addresses are reused.

**Actions**

| Action | Code |
|---|---|
| `AddClause` | lines 72-87. When `emplace` finds an equal key, the call changes nothing and is a stutter. |
| `AddMatcher` | lines 89-92 |
| `Build` | lines 94-122: the sort by id, the sub-index, and the reset of the builder |

**The abstract vector.** `SubClauseVector` says what the builder promises
its callers, without the hash map, the addresses or the sub-index. The
ids are positions of an append-only vector `vec`:

* `AddClause(c)` appends a sub-clause whose sub-matchers are earlier
  positions;
* `AddMatcher(i, f)` records a clause on position `i`;
* `Build` hands `vec` and the clauses to the matcher and empties both.

`EMatcherBuilder`'s `Vector == INSTANCE SubClauseVector WITH ...` maps
`vec` to `ByIdOrder(subclauses)`, the hash map read in id order, which is
what `build` sorts into. An `add_clause` that finds its key is a stutter.

## Runs

| Run | Expect | Shows |
|---|---|---|
| `executor_safety` | pass | `TypeOK`; `ContextOwnership`: no context is in two backing lists, or in the store and a list, and no dead context is pending; `RunningSolversInterrupted`: once `interrupt` has returned, every worker still in the loop has had its solver interrupted; `InterruptTerminates`: after `interrupt`, every worker returns |
| `executor_safety` (cont.) | | `PoolRefinement`: `Executor` implements `ContextPool` under `Pool`, which TLC checks as a property; `FailureAbandons` (spec section 7): no context is logged as failed twice, and a failed context is never held again nor marked dead |
| `executor_safety` (cont.) | | `NoContextLost` (spec section 5): until interrupt begins and while nothing has failed, every created context is in the store, in a backing list, or dead; `ExitOnlyWhenIdle` (the store's termination detection, line 21): while the store is open, a worker has returned from `run_worker` only if the store and every backing list are empty |
| `executor_liveness` | pass | `ContextsProcessed` (spec section 8): if `interrupt` is never called, then eventually every worker has returned and every created context has ended or is the failing context of a logged failure |
| `executor_fork_lost` | violation | `NoForkLost` |
| `executor_failure_context` | violation | `FailureNamesFailingContext` |
| `executor_no_stop_flag` | violation | `InterruptTerminates` with `HasStopFlag = FALSE` |
| `operation_folds` | pass | `OpTypeOK` (results and nodes have the right widths); `FoldSound`: whatever a constructor returns takes only values the operation's LLVM meaning allows, for every assignment of its symbols. The reference meaning of `icmp` (`SemICmp`, which flips the sign bit for a signed predicate) is written apart from the model of `constant_int_compare` (`IntCompare`), so a wrong predicate in the fold is caught |
| `operation_icmp_literal` | pass | `LiteralCompare`: when the literal's value fits the operand's width, the result compares the operand with that value, for every predicate and both sides, including the signed predicates on negative literals |
| `operation_sext_undef` | violation | `FoldSound` for `CreateSExt` |
| `operation_total` | violation | `FoldTotal`: two constant operands always fold, and never crash |
| `ematcher_build` | pass | `TypeOK`; `MatcherIndexesIds`: in the built matcher, every clause's id indexes the sub-clause it was returned for, every sub-clause's sub-matchers precede it, and every sub-clause is in the sub-index under its opcode; `VectorRefinement`: the builder implements `SubClauseVector` under `Vector` |
| `ematcher_hashcons` | violation | `HashConsed` |

`operation_folds` leaves `SExt` out, because its `undef` fold is the
finding of `operation_sext_undef`. Its constant fold (`APSExt`) is
therefore only reached by that violation run and is not shown sound.

### Bounds

| Run | Bounds | Why they are enough |
|---|---|---|
| `executor_safety` | 2 workers, `MaxCtx = 4`, up to 2 forks per step-batch, 42,240 states | Enough to have both workers hold contexts while a third is in the store, to spill, and to interrupt at every point. Every action and every outcome of `Execute` fires. |
| `executor_liveness` | 2 workers, 3 entry contexts, `MaxCtx = 3`, no forks, 3,986 states | Both workers run contexts and meet the termination detection of the store. Spec section 8 claims liveness for runs without forks, and with forks the property fails through the fork loss of `executor_fork_lost`. That an idle worker never returns while another still executes or spills forks is `ExitOnlyWhenIdle`, which `executor_safety` checks with forks. |
| `operation_icmp_literal` | widths 1..3, `LitWidth = 2`, 1,841 states | Literals -2..1 are negative, zero and positive. They are sign-extended into width 3, kept at width 2 and truncated to width 1, where -2 and 0 coincide. |
| `operation_folds` | widths 1..3, two symbol names | Width 1 is where `1 = -1`. Width 3 has shift amounts both inside and past the width. |
| `ematcher_build` | 2 opcodes, 1 filter kind, `MaxSub = 2`, arity up to 2, 1 clause, repeated builds, 193,185 states | Covers a sub-clause with a sub-matcher, two filtered sub-clauses, and the reuse of addresses after a build. |

### Fairness

Each worker is an OS thread, so `WF_vars(Worker(w))` holds. The thread that
called `interrupt` runs its three blocks to completion under weak fairness.
The store's `next_context` is modelled as blocking with no fairness on
contexts.

`executor_liveness` uses `LiveSpec`, which adds `ProgramTerminates` to
`Spec`: strong fairness on `ContextEnds(w)`, a step-batch of worker `w` that
kills its active entry. This is an assumption on the program under
analysis, not on the executor. The program terminates, so a context that is
stepped again and again is eventually ended. It is the premise of spec
section 8's "every context is processed to completion". Without it, a
context that forks forever or never ends would be a counterexample, and
the executor could not prevent that.

## Findings

* **Forks lost on a failure** (`Executor.cpp:45`, `NoForkLost`). When the
  interpreter throws after it has forked, the worker breaks out of its loop.
  Line 22 then clears the backing list, forks included.
* **Failure reports name an empty context** (`Executor.cpp:43` and `:51`,
  `FailureNamesFailingContext`). `log_failure` receives `ctx.value()`, which
  line 24 has moved from.
* **`interrupt` does not end a running context without a `should_stop` flag**
  (`Executor.cpp:30`, `InterruptTerminates`).
* **`sext(undef)` is folded to a wider `undef`** (`Operation.cpp:727`,
  `FoldSound`). That `undef` takes values no sign extension gives. Spec
  section 4.1 lists sign extension among the opcodes whose `undef`
  propagates, so the code follows the spec; the rule itself is unsound
  for `sext`.
* **Constant division by zero aborts** (`Operation.cpp:486`, and lines 505,
  524 and 543 for the other divisions, `FoldTotal`).
* **Filtered sub-clauses are never hash-consed** (`EGraphMatching.cpp:34`,
  `HashConsed`). The filters are compared by address but hashed by contents.

The spec asks whether the 1-bit guards of `CreateSDiv`/`CreateSRem` (lines
500 and 538) are needed. In i1 the constant 1 is -1. `x sdiv -1` is `-x`,
which equals `x` modulo 2, and `x srem -1` is 0. The only other case,
`-1 sdiv -1`, is a signed overflow, which is undefined. So dropping the
guards would still be sound. `FoldSound` passes with them in place, and
the guards only keep a 1-bit node from being folded.

## Proofs (tlapm 1.4.5)

The executor theorems hold for every finite set of workers and every
`Entries`, `MaxCtx`, `MaxForks` and `HasStopFlag` allowed by
`ExecutorAssumption`.

### `TypeCorrect`: `Spec => []TypeOK`

`TypeOK` is not inductive on its own: `Execute` takes `Head(queue[w])`. The
inductive invariant `TypeInv` adds `ExecReady`: a worker in `exec` has a
non-empty list. Lemmas on `Forks`, `AllButLast` and the elements of a
sequence carry the sequence reasoning.

### `SolversInterrupted`: `Spec => []RunningSolversInterrupted`

The inductive invariant `SolverInv` says three things:

* every worker past `register` is in `solvers \cup interrupted`;
* `interrupt` shuts the store before it reaches the solver step;
* once `interrupt` is done, every worker whose solver was still registered
  is in `pop` or `done`.

The third is the heart of the proof. Such a worker can never leave `pop`,
because the store is shut.

### `Ownership`: `Spec => []ContextOwnership`

The inductive invariant `OwnInv` adds two facts to `ContextOwnership`:
every held or finished context is below `nextCtx`. This is why a fork's
fresh identifier is never already held.

The step proofs have one lemma per action: `NextContextOwnership`,
`SpillOwnership`, `AppendForksOwnership`, `ExecuteOwnership`, and frame
lemmas.

### `Refinement` (`ExecutorRefinement`): `Spec => PoolRefinement`

The proof follows the usual pattern:

1. `Init` maps to `Pool!Init`.
2. Under the invariant `RInv`, every `Next` step maps to a `Pool!Next`
   step or to a stutter of the mapped state.
3. `PTL` combines the two.

`RInv` is `TypeInv /\ OwnInv /\ PopEmpty`. `PopEmpty`, which TLC checked
first, says that a worker in `register`, `pop` or `done` has an empty
backing list. `Take` needs it, because `Take` requires an empty hand.

`OwnInv` supplies two facts:

* No repetitions in the store and the lists. This is why removing the head
  or the last entry removes exactly that context.
* Everything held is below `nextCtx`. This is why `Forks(k)` is fresh.

There is one lemma per action that moves contexts: `NextContextTakes`,
`ExecuteMaps`, `SpillYields`, `LoopTopMaps` and `InterruptMaps`.

### `PoolExclusive` (`ContextPoolProofs`): `ContextPool!Spec => []Exclusive`

`Exclusive` says four things:

* no context is in two places;
* nothing dead is pending or held;
* everything pending, held or dead was born.

It is inductive together with the typing of `held`. A fork is fresh
because it was not born, and everything in a place was born. With
`Refinement`, this carries over to `Executor` through the mapping.

### `EMatcherBuilderProofs`: `TypeCorrect` and `BuildIndexesIds`

Both hold for every set of opcodes and filter kinds and every bound:
`Spec => []TypeOK` and `Spec => []MatcherIndexesIds`. The inductive
invariant `BInv` is `TypeOK /\ IdsInv /\ MatcherInv`, checked with TLC
first.

`IdsInv` relates the hash map to the ghost `issued`:

* the keys are exactly `issued[1..subclause_id]`;
* `issued[i]` has id `i-1`, and there are `subclause_id` keys;
* every sub-matcher of `issued[i]` is an earlier id;
* every recorded clause names an issued id and the sub-clause returned
  for it.

Two lemmas carry the proof:

* `ByIdOrderIssued`: `build`'s sort by id gives back `issued`.
* `SubIndexLists`: every position is in the sub-index, at the place given
  by the number of earlier positions with the same opcode.

`TypeOK` also needs `FreshAddrFree`: at most `2 * MaxSub - 1` filters are
alive, the builder's keys and the last matcher's vector, so a free address
exists. `MatcherInv` keeps that vector within `MaxSub`. That lemma counts
images and unions of finite sets with `FiniteSetTheorems`.

### `FailuresAbandoned` (`ExecutorProofs`): `Spec => []FailureAbandons`

`FailureAbandons` is not inductive alone: a fresh fork could, as far as
the invariant says, carry an identifier already logged. The inductive
invariant `FailInv` adds `Failed \subseteq Created`, and is used together
with `TypeInv` and `OwnInv`. A throwing `Execute` logs the head of the
worker's list (`ExecuteFailLogs`). The head is held, so it was not in
`Failed` before, and it is logged once. `OwnInv` says it is held nowhere
else, and the step clears the whole list (`ClearHeld`), so the logged
context leaves `Held`. Its forks
are at or above `nextCtx`, so none is in `Failed` (`AppendForksFail`).
`NextContext` and `Spill` only move contexts between places already held
(`NextContextHeld`, `SpillHeld`). Each other step leaves `log` and the
held sets alone (`FailFrame`).

### `ExitsIdle` (`ExecutorRefinement`): `Spec => []ExitOnlyWhenIdle`

`ExitOnlyWhenIdle` is not inductive. A state with one worker done and
another executing breaks no list, yet its next step can push a fork. The
strengthening `Idle` says that once a worker has returned before
shutdown, the store is empty and every worker waits in `next_context` or
has returned. `IdleStep` proves it is kept, with one step per action.
`Exit` establishes it from its guard. `Register`, `LoopTop`, `Execute`
and `SpillDone` contradict it before the step, because their worker is
not in `pop` or `done`. `NextContext` and `Spill` contradict it too.
`InterruptShutdown` falsifies the premise. With `PopEmpty` from `RInv`,
every list is empty, so `Held = {}`. The mutant `ExitStoreEmpty` answers
empty as soon as the store is empty, and TLC finds a worker returning
while the other holds a context.

### `ContextsKept` (`ExecutorRefinement`): `Spec => []NoContextLost`

`NoContextLost` is inductive together with `RInv`. Its premise
`Undisturbed` (no `stop`, no `shut`, an empty log) holds after a step only
if it held before: the flags are never lowered and the log never shrinks.
`LostFrame` reduces each step to three facts. What the step held is
still held or dead. Nothing dead is revived. What it creates it holds.

* `NextContext` needs `PopEmpty`, because it overwrites the backing list.
* `Spill` needs the open store, so `Append` keeps the context.
* A `should_stop` break and a throwing step-batch are excluded by the
  premise.

With the violation run `executor_fork_lost` this shows that the failure
handler's `break` is the only place forks are lost.

### `ResultTyped` (`OperationProofs`): `OpSpec => []OpTypeOK`

The proof holds for every set of widths and every literal width. One
lemma per constructor family states the width of the result:
`BinaryWidth`, `UnaryWidth`, `SelectWidth` and `ICmpWidth`. `OpTypeStep`
has one case per `Build*` action. `OpTypeOK` is inductive as it stands,
because each state holds one call and its result.

### `BuilderRefinement` (`EMatcherRefinement`): `Spec => VectorRefinement`

The proof uses `BInv` from `EMatcherBuilderProofs`. The lemma
`ByIdOrderOf` says that a map whose keys are `iss[1..n]`, with `iss[i]`
at id `i-1`, reads back in id order as `iss`. It is stated over constants,
so it applies to the state after a step as well as before. With it:

* `AddClause` maps to `Vector!AddClause`: the vector before is `issued`,
  the vector after is `Append(issued, clause)`, and the sub-matchers are
  earlier ids (`AddClauseMaps`);
* `AddMatcher` maps to `Vector!AddMatcher` on the same id, because the
  target `issued[c+1]` is `vec[c+1]` (`AddMatcherMaps`);
* `Build` empties the map, so the vector after is `<<>>` (`BuildMaps`).

### Only model-checked

* The liveness properties `InterruptTerminates` and `ContextsProcessed`:
  tlapm cannot reason about `ENABLED` and fairness.
* `FoldSound` and `LiteralCompare` in `Operation`. Both are about values
  modulo `2^w` for every width. tlapm treats `^` with a variable exponent
  as an opaque operator: it cannot show `2^(k+1) = 2 * 2^k`. Facts about
  `APBitwise` or `sextOrTrunc` for every width would also need induction
  over `Nat`. The library's induction theorems take an operator
  parameter, and the installed provers cannot instantiate it. TLC checks
  both properties on widths 1..3.

Each property of a passing run is also checked against a mutant of the code
it is about (see `mutants` in `PROJECT.json`).

## Not modelled

* The e-graph, the rewrite engine, the interpreter and the store. They are
  not under `src/`. The store is modelled from the spec inside `Executor`.
* Printing, opcode names and hashing in `Operation.cpp`, and
  `PrintingFailureLogger`, which are formatting. `PrintingFailureLogger.cpp:79`
  dereferences the empty `check` of the `Assertion()` the executor logs, and
  this is recorded as a hazard.
* The float, memory and array constructors.
* The inline accessors of `Operation.inl`: the opcode bit-field getters and
  `is_signed`. They depend on the opcode numbering in `Operation.h`, outside
  `src/`.
* `MatchData` and `is_potential_match`, which are read-only lookups.
* The opt-plugin's `GenBuiltinsPass`, which rewrites LLVM IR.
* The external function headers, which are declarations.

## Plan for later sittings

1. A spec-modelled e-graph (union-find with congruence closure) with an
   abstract specification. The builder's matcher would be shown to
   implement an abstract "set of patterns" spec with `INSTANCE ... WITH`.
2. Forks in the liveness run, with a bound on fork depth.
3. State the sub-index facts of `MatcherIndexesIds` over
   `SubClauseVector`, and carry them to the builder through `Vector`.
