------------------------------ MODULE Executor ------------------------------
(***************************************************************************)
(* The parallel executor of src/src/Interpreter/Executor.cpp: worker       *)
(* threads running Executor::run_worker, the shared context store they pop *)
(* from and spill forks back to, and Executor::interrupt called from       *)
(* another thread.                                                         *)
(*                                                                         *)
(* An execution context is an identifier from Ctx.  The interpreter's      *)
(* step-batch (Interpreter::execute, not under src/) is a nondeterministic *)
(* choice over what it may do to the backing list: kill the active entry,  *)
(* append forks, or throw one of the two failures the worker catches.      *)
(* The context store (Store.h, not under src/) is modelled from the spec:  *)
(* a mutex-guarded FIFO queue with a shutdown flag.                        *)
(***************************************************************************)
EXTENDS Naturals, Sequences, FiniteSets

CONSTANTS
    Workers,      \* the worker threads started by Executor::run
    Entries,      \* the contexts in the store when run is called
    MaxCtx,       \* bound on the number of contexts created in a run
    MaxForks,     \* bound on the forks one step-batch appends
    HasStopFlag   \* whether the executor was given a should_stop flag

ASSUME ExecutorAssumption ==
    /\ IsFiniteSet(Workers)
    /\ MaxCtx \in Nat \ {0}
    /\ Entries \in 1..MaxCtx
    /\ MaxForks \in Nat
    /\ HasStopFlag \in BOOLEAN

Ctx == 1..MaxCtx

\* The worker's program counter: before registering its solver, waiting in
\* next_context, at the head of the backing-list loop, inside execute, in
\* the spill loop, and returned from run_worker.
WorkerPC == {"register", "pop", "top", "exec", "spill", "done"}

\* Where the thread that called Executor::interrupt is.
InterruptPC == {"idle", "shutdown", "solvers", "done"}

VARIABLES
    store,        \* the store's queue of pending contexts
    shut,         \* the store's shutdown flag
    stop,         \* *should_stop
    solvers,      \* the workers whose solver is in Executor::solvers
    interrupted,  \* the workers whose solver has been interrupted
    pc,           \* each worker's place in run_worker
    queue,        \* each worker's backing list (InterpreterContext::BackingList)
    ipc,          \* the interrupting thread's place in Executor::interrupt
    nextCtx,      \* the identifier the next fork receives
    finished,     \* contexts the interpreter marked dead
    log           \* the failures logged: [logged |-> context passed to
                  \* log_failure (NoCtx: a moved-from, empty context),
                  \* failed |-> context that threw]

vars == <<store, shut, stop, solvers, interrupted, pc, queue, ipc,
          nextCtx, finished, log>>

NoCtx == 0

\* The elements of a sequence.
Elems(s) == {s[i] : i \in DOMAIN s}

\* A sequence without repeated elements.
NoDup(s) == \A i, j \in DOMAIN s : s[i] = s[j] => i = j

\* All but the last element of a non-empty sequence.
AllButLast(s) == SubSeq(s, 1, Len(s) - 1)

\* The contexts created so far.
Created == 1..(nextCtx - 1)

\* The contexts held by the store or by some worker's backing list.
Held == Elems(store) \cup UNION {Elems(queue[w]) : w \in Workers}

-----------------------------------------------------------------------------
(* Executor::run starts with the contexts submitted to the store (the     *)
(* entry point, in the usual case of one).                                *)

Init ==
    /\ store = [i \in 1..Entries |-> i]
    /\ shut = FALSE
    /\ stop = FALSE
    /\ solvers = {}
    /\ interrupted = {}
    /\ pc = [w \in Workers |-> "register"]
    /\ queue = [w \in Workers |-> <<>>]
    /\ ipc = "idle"
    /\ nextCtx = Entries + 1
    /\ finished = {}
    /\ log = <<>>

-----------------------------------------------------------------------------
(* run_worker, lines 14-18: build a solver and register it under mutex_.  *)
Register(w) ==
    /\ pc[w] = "register"
    /\ solvers' = solvers \cup {w}
    /\ pc' = [pc EXCEPT ![w] = "pop"]
    /\ UNCHANGED <<store, shut, stop, interrupted, queue, ipc, nextCtx,
                   finished, log>>

(* Faulty variant of NextContext: the store keeps handing out contexts    *)
(* after shutdown.                                                        *)
NextContextAfterShutdown(w) ==
    /\ pc[w] = "pop"
    /\ store # <<>>
    /\ queue' = [queue EXCEPT ![w] = <<Head(store)>>]
    /\ store' = Tail(store)
    /\ pc' = [pc EXCEPT ![w] = "top"]
    /\ UNCHANGED <<shut, stop, solvers, interrupted, ipc, nextCtx, finished,
                   log>>

(* Faulty variant of NextContext: the store hands out its head without    *)
(* removing it.                                                           *)
NextContextKeepsHead(w) ==
    /\ pc[w] = "pop"
    /\ ~shut
    /\ store # <<>>
    /\ queue' = [queue EXCEPT ![w] = <<Head(store)>>]
    /\ pc' = [pc EXCEPT ![w] = "top"]
    /\ UNCHANGED <<store, shut, stop, solvers, interrupted, ipc, nextCtx,
                   finished, log>>

(* Lines 21-24: next_context returns a context; the backing list is       *)
(* cleared and holds it alone, moved out of `ctx`.  The store hands out   *)
(* nothing once shut.                                                     *)
NextContext(w) ==
    /\ pc[w] = "pop"
    /\ ~shut
    /\ store # <<>>
    /\ queue' = [queue EXCEPT ![w] = <<Head(store)>>]
    /\ store' = Tail(store)
    /\ pc' = [pc EXCEPT ![w] = "top"]
    /\ UNCHANGED <<shut, stop, solvers, interrupted, ipc, nextCtx, finished,
                   log>>

(* Faulty variant of Exit: next_context answers empty as soon as the     *)
(* store is empty, while other workers may still be executing.            *)
ExitStoreEmpty(w) ==
    /\ pc[w] = "pop"
    /\ shut \/ store = <<>>
    /\ pc' = [pc EXCEPT ![w] = "done"]
    /\ UNCHANGED <<store, shut, stop, solvers, interrupted, queue, ipc,
                   nextCtx, finished, log>>

(* Line 21: next_context returns empty, and run_worker returns.  It does  *)
(* so after shutdown, or when no context is pending and every other       *)
(* worker is waiting in next_context as well (the store's termination     *)
(* detection).                                                            *)
Exit(w) ==
    /\ pc[w] = "pop"
    /\ \/ shut
       \/ /\ store = <<>>
          /\ \A v \in Workers \ {w} : pc[v] \in {"pop", "done"}
    /\ pc' = [pc EXCEPT ![w] = "done"]
    /\ UNCHANGED <<store, shut, stop, solvers, interrupted, queue, ipc,
                   nextCtx, finished, log>>

(* Faulty variant of LoopTop without the should_stop check of line 30.   *)
LoopTopNoStopCheck(w) ==
    /\ pc[w] = "top"
    /\ \/ /\ queue[w] = <<>>
          /\ pc' = [pc EXCEPT ![w] = "pop"]
       \/ /\ queue[w] # <<>>
          /\ pc' = [pc EXCEPT ![w] = "exec"]
    /\ UNCHANGED <<store, shut, stop, solvers, interrupted, queue, ipc,
                   nextCtx, finished, log>>

(* Lines 29-35: the head of the backing-list loop.  An empty list ends    *)
(* the loop; a set should_stop clears the list and breaks; otherwise the  *)
(* front entry becomes the active context.                                *)
LoopTop(w) ==
    /\ pc[w] = "top"
    /\ \/ /\ queue[w] = <<>>
          /\ pc' = [pc EXCEPT ![w] = "pop"]
          /\ UNCHANGED queue
       \/ /\ queue[w] # <<>>
          /\ HasStopFlag /\ stop
          /\ queue' = [queue EXCEPT ![w] = <<>>]
          /\ pc' = [pc EXCEPT ![w] = "pop"]
       \/ /\ queue[w] # <<>>
          /\ ~(HasStopFlag /\ stop)
          /\ pc' = [pc EXCEPT ![w] = "exec"]
          /\ UNCHANGED queue
    /\ UNCHANGED <<store, shut, stop, solvers, interrupted, ipc, nextCtx,
                   finished, log>>

(* Faulty variant of Forks numbering the forks from nextCtx - 1, the last *)
(* context created.                                                       *)
ForksFromLast(k) == [i \in 1..k |-> nextCtx + i - 2]

(* Faulty variant of Forks numbering the forks from nextCtx + 1.          *)
ForksFromNext(k) == [i \in 1..k |-> nextCtx + i]

(* The k forks a step-batch appends, numbered from nextCtx.              *)
Forks(k) == [i \in 1..k |-> nextCtx + i - 1]

(* Faulty variant of Execute leaving the dead entry in the backing list    *)
(* (lines 57-59 dropped).                                                 *)
ExecuteKeepsDead(w) ==
    /\ pc[w] = "exec"
    /\ \E k \in 0..MaxForks :
         /\ nextCtx + k <= MaxCtx + 1
         /\ nextCtx' = nextCtx + k
         /\ queue' = [queue EXCEPT ![w] = queue[w] \o Forks(k)]
         /\ finished' = finished \cup {Head(queue[w])}
         /\ pc' = [pc EXCEPT ![w] = "spill"]
         /\ UNCHANGED log
    /\ UNCHANGED <<store, shut, stop, solvers, interrupted, ipc>>

(* Faulty variant of Execute whose failure handlers `continue` instead  *)
(* of `break` (lines 45 and 54): the loop goes back to line 29 with the   *)
(* backing list as it was, the failed context still at its front.        *)
ExecuteContinues(w) ==
    /\ pc[w] = "exec"
    /\ \E k \in 0..MaxForks :
         /\ nextCtx + k <= MaxCtx + 1
         /\ nextCtx' = nextCtx + k
         /\ \/ /\ queue' = [queue EXCEPT ![w] = Tail(queue[w]) \o Forks(k)]
               /\ finished' = finished \cup {Head(queue[w])}
               /\ pc' = [pc EXCEPT ![w] = "spill"]
               /\ UNCHANGED log
            \/ /\ queue' = [queue EXCEPT ![w] = queue[w] \o Forks(k)]
               /\ pc' = [pc EXCEPT ![w] = "spill"]
               /\ UNCHANGED <<finished, log>>
            \/ /\ log' = Append(log, [logged |-> NoCtx,
                                      failed |-> Head(queue[w])])
               /\ pc' = [pc EXCEPT ![w] = "top"]
               /\ UNCHANGED <<queue, finished>>
    /\ UNCHANGED <<store, shut, stop, solvers, interrupted, ipc>>

(* Lines 37-59: one step-batch of the interpreter on the front entry,     *)
(* appending k forks.  Returning normally, the dead entries are removed   *)
(* (lines 57-59) and the spill loop follows.  Throwing Unevaluatable or   *)
(* UnsupportedOperationException, log_failure is called with              *)
(* ctx.value(), whose context was moved into the list at line 24, and the *)
(* loop is left by `break`; what is left in the backing list is never     *)
(* read again, since line 22 clears it on the next pop.                   *)
Execute(w) ==
    /\ pc[w] = "exec"
    /\ \E k \in 0..MaxForks :
         /\ nextCtx + k <= MaxCtx + 1
         /\ nextCtx' = nextCtx + k
         /\ \/ \* the active entry is marked dead
               /\ queue' = [queue EXCEPT ![w] = Tail(queue[w]) \o Forks(k)]
               /\ finished' = finished \cup {Head(queue[w])}
               /\ pc' = [pc EXCEPT ![w] = "spill"]
               /\ UNCHANGED log
            \/ \* the active entry stays live
               /\ queue' = [queue EXCEPT ![w] = queue[w] \o Forks(k)]
               /\ pc' = [pc EXCEPT ![w] = "spill"]
               /\ UNCHANGED <<finished, log>>
            \/ \* a failure is thrown and caught
               /\ log' = Append(log, [logged |-> NoCtx,
                                      failed |-> Head(queue[w])])
               /\ queue' = [queue EXCEPT ![w] = <<>>]
               /\ pc' = [pc EXCEPT ![w] = "pop"]
               /\ UNCHANGED finished
    /\ UNCHANGED <<store, shut, stop, solvers, interrupted, ipc>>

(* Faulty variant of Spill with the shutdown test of add_context         *)
(* inverted: the context is dropped while the store is open.              *)
SpillDropsOpen(w) ==
    /\ pc[w] = "spill"
    /\ Len(queue[w]) > 1
    /\ store' = IF shut THEN Append(store, queue[w][Len(queue[w])]) ELSE store
    /\ queue' = [queue EXCEPT ![w] = AllButLast(queue[w])]
    /\ UNCHANGED <<shut, stop, solvers, interrupted, pc, ipc, nextCtx,
                   finished, log>>

(* Lines 61-64: while more than one entry remains, the last one is moved  *)
(* to the store; add_context drops it once the store is shut.             *)
Spill(w) ==
    /\ pc[w] = "spill"
    /\ Len(queue[w]) > 1
    /\ store' = IF shut THEN store ELSE Append(store, queue[w][Len(queue[w])])
    /\ queue' = [queue EXCEPT ![w] = AllButLast(queue[w])]
    /\ UNCHANGED <<shut, stop, solvers, interrupted, pc, ipc, nextCtx,
                   finished, log>>

(* Line 61: the spill loop ends, back to the head of the loop (line 29). *)
SpillDone(w) ==
    /\ pc[w] = "spill"
    /\ Len(queue[w]) <= 1
    /\ pc' = [pc EXCEPT ![w] = "top"]
    /\ UNCHANGED <<store, shut, stop, solvers, interrupted, queue, ipc,
                   nextCtx, finished, log>>

Worker(w) ==
    \/ Register(w) \/ NextContext(w) \/ Exit(w) \/ LoopTop(w)
    \/ Execute(w) \/ Spill(w) \/ SpillDone(w)

-----------------------------------------------------------------------------
(* Executor::interrupt, lines 93-95: set should_stop, if there is one.    *)
InterruptStop ==
    /\ ipc = "idle"
    /\ stop' = (stop \/ HasStopFlag)
    /\ ipc' = "shutdown"
    /\ UNCHANGED <<store, shut, solvers, interrupted, pc, queue, nextCtx,
                   finished, log>>

(* Line 98: shut the store down.                                         *)
InterruptShutdown ==
    /\ ipc = "shutdown"
    /\ shut' = TRUE
    /\ ipc' = "solvers"
    /\ UNCHANGED <<store, stop, solvers, interrupted, pc, queue, nextCtx,
                   finished, log>>

(* Lines 101-109: under mutex_, interrupt every registered solver and     *)
(* clear the list.                                                        *)
InterruptSolvers ==
    /\ ipc = "solvers"
    /\ interrupted' = interrupted \cup solvers
    /\ solvers' = {}
    /\ ipc' = "done"
    /\ UNCHANGED <<store, shut, stop, pc, queue, nextCtx, finished, log>>

Interrupt == InterruptStop \/ InterruptShutdown \/ InterruptSolvers

(* Executor::run has returned and interrupt has run or will not run.      *)
Terminated ==
    /\ \A w \in Workers : pc[w] = "done"
    /\ ipc = "done"
    /\ UNCHANGED vars

Next ==
    \/ \E w \in Workers : Worker(w)
    \/ Interrupt
    \/ Terminated

(* Each worker is an OS thread, scheduled fairly; the thread that called  *)
(* interrupt runs it to the end.  Whether interrupt is called at all is   *)
(* left open: InterruptStop has no fairness.                              *)
Fairness ==
    /\ \A w \in Workers : WF_vars(Worker(w))
    /\ WF_vars(InterruptShutdown \/ InterruptSolvers)

Spec == Init /\ [][Next]_vars /\ Fairness

(* A step-batch that ends the active context: the interpreter marks it    *)
(* dead.                                                                  *)
ContextEnds(w) == Execute(w) /\ Head(queue[w]) \in finished'

(* The premise of spec section 8's liveness: the program under analysis   *)
(* terminates, so a context that keeps being stepped is eventually ended. *)
(* This is an assumption on the interpreted program, not on the executor. *)
ProgramTerminates == \A w \in Workers : SF_vars(ContextEnds(w))

LiveSpec == Spec /\ ProgramTerminates

-----------------------------------------------------------------------------
LogEntry == [logged : Ctx \cup {NoCtx}, failed : Ctx]

TypeOK ==
    /\ store \in Seq(Ctx)
    /\ shut \in BOOLEAN
    /\ stop \in BOOLEAN
    /\ solvers \subseteq Workers
    /\ interrupted \subseteq Workers
    /\ pc \in [Workers -> WorkerPC]
    /\ queue \in [Workers -> Seq(Ctx)]
    /\ ipc \in InterruptPC
    /\ nextCtx \in 2..(MaxCtx + 1)
    /\ finished \subseteq Ctx
    /\ log \in Seq(LogEntry)

(* Contexts are move-only (spec section 5): a context is never in two     *)
(* places at once, neither twice in the store, nor in the store and a     *)
(* backing list, nor in two workers' backing lists; and a context the     *)
(* interpreter killed is never held again, so the spill loop of lines     *)
(* 57-64 never hands a dead entry to another worker.                      *)
ContextOwnership ==
    /\ NoDup(store)
    /\ \A w \in Workers : NoDup(queue[w]) /\ Elems(queue[w]) \cap Elems(store) = {}
    /\ \A v, w \in Workers : v # w => Elems(queue[v]) \cap Elems(queue[w]) = {}
    /\ finished \cap Held = {}

(* Once interrupt has run to the end, every worker returns from           *)
(* run_worker: the should_stop check of line 30 ends a context that       *)
(* would run forever, and the shut store ends next_context.               *)
InterruptTerminates ==
    (ipc = "done") ~> (\A w \in Workers : pc[w] = "done")

(* Spec section 8, executor liveness: when interrupt is never called and  *)
(* every context ends, all the contexts are processed (each is marked dead *)
(* or logged as failed) and every worker returns from run_worker.  The   *)
(* spec claims it for runs without forks (a step-batch that throws after  *)
(* forking loses its forks, see NoForkLost); it needs the removal of dead *)
(* entries at lines 57-59 and that idle workers wait in next_context     *)
(* while another still executes.                                          *)
ContextsProcessed ==
    [](ipc = "idle") =>
        <>[](/\ \A w \in Workers : pc[w] = "done"
             /\ Created \subseteq finished \cup {log[i].failed : i \in DOMAIN log})

(* Executor::interrupt stops every solver in use: once it has returned,   *)
(* a worker that is still running contexts has its solver interrupted.   *)
(* A worker registering its solver (lines 14-18) after the loop of lines  *)
(* 101-109 is missed by it; this holds only because such a worker finds  *)
(* the store already shut at line 21 and never runs a context.            *)
RunningSolversInterrupted ==
    ipc = "done" =>
        \A w \in Workers : pc[w] \in {"top", "exec", "spill"} => w \in interrupted

(* The executor implements the context pool of ContextPool: the store's   *)
(* queue read as a set is the pool, a backing list read as a set is what  *)
(* its worker holds, and the contexts marked dead, created, and the       *)
(* store's shutdown flag are the pool's.  Every step of run_worker and    *)
(* interrupt is a step of the pool or leaves it unchanged: a pop takes,   *)
(* a step-batch runs the front entry, one iteration of the spill loop     *)
(* gives one context back, a failure or should_stop abandons the list.    *)
Pool == INSTANCE ContextPool WITH
    Contexts <- Ctx,
    Initial <- 1..Entries,
    pending <- Elems(store),
    held <- [w \in Workers |-> Elems(queue[w])],
    dead <- finished,
    born <- Created,
    closed <- shut

PoolRefinement == Pool!Spec

(* Spec section 7: a failure abandons the failing context and nothing     *)
(* else.  Until interrupt begins, every context created is pending in the *)
(* store or a backing list, finished, or logged as failed; the `break` of *)
(* lines 45 and 54 must not discard the forks the step-batch appended.    *)
NoForkLost ==
    ~(stop \/ shut) =>
        Created \subseteq Held \cup finished \cup {log[i].failed : i \in DOMAIN log}

(* Spec section 5: the store and the backing lists lose no context on     *)
(* their own.  Until interrupt begins and as long as no step-batch has     *)
(* thrown, every context created is in the store or a backing list, or     *)
(* marked dead: next_context (lines 21-24) moves the popped context into   *)
(* the list, the spill loop (lines 61-64) moves it back to the open store, *)
(* and a step-batch keeps what it does not kill.  With NoForkLost, whose   *)
(* run fails, this says a failure is the only way a fork is lost.         *)
NoContextLost ==
    (~(stop \/ shut) /\ log = <<>>) => Created \subseteq Held \cup finished

(* Line 21: a worker's run_worker returns before shutdown only when the   *)
(* whole run is over.  next_context answering empty while another worker  *)
(* is still executing, or spilling forks back to the store, would let the *)
(* exiting worker leave contexts behind that nobody may be left to take;  *)
(* so once some worker is done and the store is not shut, no context is   *)
(* pending in the store or in any backing list.                          *)
ExitOnlyWhenIdle ==
    (~shut /\ \E w \in Workers : pc[w] = "done") => Held = {}

\* The contexts logged as failed.
Failed == {log[i].failed : i \in DOMAIN log}

(* Spec section 7: a context whose step-batch throws Unevaluatable or    *)
(* UnsupportedOperationException is logged once and abandoned: no context *)
(* is logged as failed twice, and a failed context is never held again,  *)
(* in the store or any worker's backing list, nor later marked dead by a  *)
(* step-batch.  This rests on the `break` of lines 45 and 54 leaving the  *)
(* loop, and on contexts being in one place only, so that no other worker *)
(* or the store still has the failed context to run.                      *)
FailureAbandons ==
    /\ \A i, j \in DOMAIN log : log[i].failed = log[j].failed => i = j
    /\ Failed \cap (Held \cup finished) = {}

(* The failure record names the context that failed: log_failure at lines *)
(* 43 and 51 receives the context that was active when the interpreter    *)
(* threw.                                                                 *)
FailureNamesFailingContext ==
    \A i \in DOMAIN log : log[i].logged = log[i].failed

=============================================================================
