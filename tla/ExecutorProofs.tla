---------------------------- MODULE ExecutorProofs ----------------------------
(***************************************************************************)
(* Proofs about the executor of Executor.tla, for every set of workers and *)
(* every bound on contexts and forks.                                      *)
(***************************************************************************)
EXTENDS Executor, SequenceTheorems, TLAPS

-----------------------------------------------------------------------------
(* Lemmas on the sequence operators the backing list is updated with.     *)

\* The forks a step-batch appends are contexts when they stay within MaxCtx.
LEMMA ForksType ==
    ASSUME NEW k \in Nat, nextCtx \in Nat, nextCtx >= 1, nextCtx + k <= MaxCtx + 1
    PROVE  Forks(k) \in Seq(Ctx)
<1>1. \A i \in 1..k : nextCtx + i - 1 \in Ctx
  BY ExecutorAssumption DEF Ctx
<1>. QED
  BY <1>1, IsASeq DEF Forks

\* Removing the last entry of a backing list leaves a backing list.
LEMMA AllButLastType ==
    ASSUME NEW S, NEW s \in Seq(S), s # <<>>
    PROVE  AllButLast(s) \in Seq(S)
<1>1. \A i \in 1..(Len(s) - 1) : s[i] \in S
  BY LenProperties
<1>. QED
  BY <1>1, SubSeqProperties, LenProperties DEF AllButLast

-----------------------------------------------------------------------------
(* Lemmas on the contexts a backing list holds (Elems) and on its having   *)
(* no context twice (NoDup), for the operations the worker applies to it.  *)

LEMMA ElemsSingle ==
    ASSUME NEW x
    PROVE  Elems(<<x>>) = {x} /\ NoDup(<<x>>)
BY DEF Elems, NoDup

\* Taking the front entry off splits the elements into the front and the
\* rest, and without repetitions the front is not in the rest.
LEMMA ElemsTail ==
    ASSUME NEW S, NEW s \in Seq(S), s # <<>>, NoDup(s)
    PROVE  /\ Elems(s) = {Head(s)} \cup Elems(Tail(s))
           /\ Head(s) \notin Elems(Tail(s))
           /\ NoDup(Tail(s))
<1>1. /\ Len(s) \in Nat \ {0}
      /\ DOMAIN s = 1..Len(s)
      /\ DOMAIN Tail(s) = 1..(Len(s) - 1)
      /\ \A i \in 1..(Len(s) - 1) : Tail(s)[i] = s[i + 1]
  BY HeadTailProperties, LenProperties, EmptySeq
<1>2. Head(s) = s[1]
  OBVIOUS
<1>3. Elems(s) = {Head(s)} \cup Elems(Tail(s))
  <2>1. Elems(s) \subseteq {Head(s)} \cup Elems(Tail(s))
    <3> SUFFICES ASSUME NEW i \in 1..Len(s) PROVE s[i] \in {Head(s)} \cup Elems(Tail(s))
      BY <1>1 DEF Elems
    <3>1. CASE i = 1
      BY <1>2, <3>1
    <3>2. CASE i > 1
      <4>1. i - 1 \in DOMAIN Tail(s) /\ Tail(s)[i - 1] = s[i]
        BY <1>1, <3>2
      <4>. QED
        BY <4>1 DEF Elems
    <3>. QED
      BY <3>1, <3>2, <1>1
  <2>2. {Head(s)} \cup Elems(Tail(s)) \subseteq Elems(s)
    BY <1>1, <1>2 DEF Elems
  <2>. QED
    BY <2>1, <2>2
<1>4. Head(s) \notin Elems(Tail(s))
  BY <1>1, <1>2 DEF Elems, NoDup
<1>5. NoDup(Tail(s))
  BY <1>1 DEF NoDup
<1>. QED
  BY <1>3, <1>4, <1>5

\* Appending a context adds it to the elements, and keeps them free of
\* repetitions when it is new.
LEMMA ElemsAppend ==
    ASSUME NEW S, NEW s \in Seq(S), NEW x \in S
    PROVE  /\ Elems(Append(s, x)) = Elems(s) \cup {x}
           /\ NoDup(s) /\ x \notin Elems(s) => NoDup(Append(s, x))
<1>1. /\ DOMAIN s = 1..Len(s)
      /\ DOMAIN Append(s, x) = 1..(Len(s) + 1)
      /\ \A i \in 1..Len(s) : Append(s, x)[i] = s[i]
      /\ Append(s, x)[Len(s) + 1] = x
  BY AppendProperties, LenProperties
<1>. QED
  BY <1>1 DEF Elems, NoDup

\* Moving the last entry out (the spill loop) splits the elements likewise.
LEMMA ElemsAllButLast ==
    ASSUME NEW S, NEW s \in Seq(S), s # <<>>, NoDup(s)
    PROVE  /\ Elems(s) = Elems(AllButLast(s)) \cup {s[Len(s)]}
           /\ s[Len(s)] \notin Elems(AllButLast(s))
           /\ NoDup(AllButLast(s))
<1>1. /\ Len(s) \in Nat \ {0}
      /\ DOMAIN s = 1..Len(s)
  BY LenProperties, EmptySeq
<1>2. /\ DOMAIN AllButLast(s) = 1..(Len(s) - 1)
      /\ \A i \in 1..(Len(s) - 1) : AllButLast(s)[i] = s[i]
  <2>1. \A i \in 1..(Len(s) - 1) : s[i] \in S
    BY <1>1, ElementOfSeq
  <2>. QED
    BY <1>1, <2>1, SubSeqProperties, LenProperties DEF AllButLast
<1>. QED
  BY <1>1, <1>2 DEF Elems, NoDup

\* Appending forks: the elements are the union, and the result is free of
\* repetitions when both parts are and they are disjoint.
LEMMA ElemsConcat ==
    ASSUME NEW S, NEW s \in Seq(S), NEW t \in Seq(S)
    PROVE  /\ Elems(s \o t) = Elems(s) \cup Elems(t)
           /\ NoDup(s) /\ NoDup(t) /\ Elems(s) \cap Elems(t) = {} => NoDup(s \o t)
<1>1. /\ DOMAIN s = 1..Len(s)
      /\ DOMAIN t = 1..Len(t)
      /\ Len(s) \in Nat /\ Len(t) \in Nat
      /\ DOMAIN (s \o t) = 1..(Len(s) + Len(t))
      /\ \A i \in 1..(Len(s) + Len(t)) :
            (s \o t)[i] = IF i <= Len(s) THEN s[i] ELSE t[i - Len(s)]
  BY ConcatProperties, LenProperties
<1>2. Elems(s \o t) = Elems(s) \cup Elems(t)
  <2>1. Elems(s \o t) \subseteq Elems(s) \cup Elems(t)
    BY <1>1 DEF Elems
  <2>2. Elems(s) \subseteq Elems(s \o t)
    BY <1>1 DEF Elems
  <2>3. Elems(t) \subseteq Elems(s \o t)
    <3> SUFFICES ASSUME NEW j \in 1..Len(t) PROVE t[j] \in Elems(s \o t)
      BY <1>1 DEF Elems
    <3>1. (s \o t)[Len(s) + j] = t[j] /\ Len(s) + j \in DOMAIN (s \o t)
      BY <1>1
    <3>. QED
      BY <3>1 DEF Elems
  <2>. QED
    BY <2>1, <2>2, <2>3
<1>3. NoDup(s) /\ NoDup(t) /\ Elems(s) \cap Elems(t) = {} => NoDup(s \o t)
  <2> SUFFICES ASSUME NoDup(s), NoDup(t), Elems(s) \cap Elems(t) = {},
                      NEW i \in 1..(Len(s) + Len(t)), NEW j \in 1..(Len(s) + Len(t)),
                      (s \o t)[i] = (s \o t)[j]
               PROVE  i = j
    BY <1>1 DEF NoDup
  <2>1. CASE i <= Len(s) /\ j <= Len(s)
    BY <1>1, <2>1 DEF NoDup
  <2>2. CASE i > Len(s) /\ j > Len(s)
    <3>1. i - Len(s) \in DOMAIN t /\ j - Len(s) \in DOMAIN t
          /\ t[i - Len(s)] = t[j - Len(s)]
      BY <1>1, <2>2
    <3>. QED
      BY <1>1, <3>1 DEF NoDup
  <2>3. CASE i <= Len(s) /\ j > Len(s)
    <3>1. s[i] = t[j - Len(s)] /\ i \in DOMAIN s /\ j - Len(s) \in DOMAIN t
      BY <1>1, <2>3
    <3>. QED
      BY <3>1 DEF Elems
  <2>4. CASE i > Len(s) /\ j <= Len(s)
    <3>1. t[i - Len(s)] = s[j] /\ j \in DOMAIN s /\ i - Len(s) \in DOMAIN t
      BY <1>1, <2>4
    <3>. QED
      BY <3>1 DEF Elems
  <2>. QED
    BY <1>1, <2>1, <2>2, <2>3, <2>4
<1>. QED
  BY <1>2, <1>3

\* The forks of one step-batch are the next k identifiers, each once.
LEMMA ElemsForks ==
    ASSUME NEW k \in Nat, nextCtx \in Nat
    PROVE  Elems(Forks(k)) = nextCtx..(nextCtx + k - 1) /\ NoDup(Forks(k))
<1>1. Elems(Forks(k)) = nextCtx..(nextCtx + k - 1)
  <2>1. Elems(Forks(k)) \subseteq nextCtx..(nextCtx + k - 1)
    BY DEF Elems, Forks
  <2>2. nextCtx..(nextCtx + k - 1) \subseteq Elems(Forks(k))
    <3> SUFFICES ASSUME NEW c \in nextCtx..(nextCtx + k - 1)
                 PROVE  c \in Elems(Forks(k))
      OBVIOUS
    <3>1. c - nextCtx + 1 \in 1..k /\ Forks(k)[c - nextCtx + 1] = c
      BY DEF Forks
    <3>. QED
      BY <3>1 DEF Elems, Forks
  <2>. QED
    BY <2>1, <2>2
<1>2. NoDup(Forks(k))
  BY DEF NoDup, Forks
<1>. QED
  BY <1>1, <1>2

-----------------------------------------------------------------------------
(* TypeOK is not inductive: Execute takes the Head of the backing list,    *)
(* which LoopTop guarantees is non-empty when it moves to "exec".          *)
ExecReady == \A w \in Workers : pc[w] = "exec" => queue[w] # <<>>

TypeInv == TypeOK /\ ExecReady

LEMMA TypeInit == Init => TypeInv
<1> SUFFICES ASSUME Init PROVE TypeInv
  OBVIOUS
<1>1. [i \in 1..Entries |-> i] \in Seq(Ctx)
  <2>1. \A i \in 1..Entries : i \in Ctx
    BY ExecutorAssumption DEF Ctx
  <2>. QED
    BY <2>1, IsASeq, ExecutorAssumption
<1>2. /\ [w \in Workers |-> <<>>] \in [Workers -> Seq(Ctx)]
      /\ <<>> \in Seq(LogEntry)
  BY EmptySeq
<1>3. Entries + 1 \in 2..(MaxCtx + 1)
  BY ExecutorAssumption
<1>. QED
  BY <1>1, <1>2, <1>3 DEF Init, TypeInv, TypeOK, ExecReady, WorkerPC, InterruptPC

\* One step-batch keeps the types: what it appends are fresh contexts and
\* what it logs names the context at the front.
LEMMA ExecuteType ==
    ASSUME TypeInv, NEW w \in Workers, Execute(w)
    PROVE  TypeInv'
<1>. USE DEF TypeInv, TypeOK, WorkerPC
<1>1. PICK k \in 0..MaxForks :
            /\ nextCtx + k <= MaxCtx + 1
            /\ nextCtx' = nextCtx + k
            /\ \/ /\ queue' = [queue EXCEPT ![w] = Tail(queue[w]) \o Forks(k)]
                  /\ finished' = finished \cup {Head(queue[w])}
                  /\ pc' = [pc EXCEPT ![w] = "spill"]
                  /\ UNCHANGED log
               \/ /\ queue' = [queue EXCEPT ![w] = queue[w] \o Forks(k)]
                  /\ pc' = [pc EXCEPT ![w] = "spill"]
                  /\ UNCHANGED <<finished, log>>
               \/ /\ log' = Append(log, [logged |-> NoCtx,
                                         failed |-> Head(queue[w])])
                  /\ queue' = [queue EXCEPT ![w] = <<>>]
                  /\ pc' = [pc EXCEPT ![w] = "pop"]
                  /\ UNCHANGED finished
  BY DEF Execute
<1>2. /\ Forks(k) \in Seq(Ctx)
      /\ Head(queue[w]) \in Ctx
      /\ Tail(queue[w]) \in Seq(Ctx)
  BY <1>1, ForksType, HeadTailProperties DEF Execute, ExecReady
<1>3. [logged |-> NoCtx, failed |-> Head(queue[w])] \in LogEntry
  BY <1>2 DEF LogEntry
<1>4. nextCtx' \in 2..(MaxCtx + 1)
  BY <1>1
<1>5. queue' \in [Workers -> Seq(Ctx)]
  <2>1. /\ Tail(queue[w]) \o Forks(k) \in Seq(Ctx)
        /\ queue[w] \o Forks(k) \in Seq(Ctx)
        /\ <<>> \in Seq(Ctx)
    BY <1>2, ConcatProperties, EmptySeq
  <2>2. CASE queue' = [queue EXCEPT ![w] = Tail(queue[w]) \o Forks(k)]
    BY <2>1, <2>2
  <2>3. CASE queue' = [queue EXCEPT ![w] = queue[w] \o Forks(k)]
    BY <2>1, <2>3
  <2>4. CASE queue' = [queue EXCEPT ![w] = <<>>]
    BY <2>1, <2>4
  <2>. QED
    BY <1>1, <2>2, <2>3, <2>4
<1>6. log' \in Seq(LogEntry) /\ finished' \subseteq Ctx
  <2>1. Append(log, [logged |-> NoCtx, failed |-> Head(queue[w])]) \in Seq(LogEntry)
    BY <1>3, AppendProperties
  <2>2. finished \cup {Head(queue[w])} \subseteq Ctx
    BY <1>2
  <2>. QED
    BY <1>1, <2>1, <2>2
<1>7. pc' \in [Workers -> WorkerPC]
  BY <1>1
<1>8. UNCHANGED <<store, shut, stop, solvers, interrupted, ipc>>
  BY DEF Execute
<1>4a. TypeOK'
  BY <1>4, <1>5, <1>6, <1>7, <1>8
<1>9. ExecReady'
  BY <1>1 DEF ExecReady
<1>. QED
  BY <1>4a, <1>9

LEMMA TypeStep == TypeInv /\ [Next]_vars => TypeInv'
<1> SUFFICES ASSUME TypeInv, [Next]_vars PROVE TypeInv'
  OBVIOUS
<1>. USE DEF TypeInv, TypeOK, ExecReady, WorkerPC, InterruptPC
<1>1. ASSUME NEW w \in Workers, Register(w) PROVE TypeInv'
  BY <1>1 DEF Register
<1>2. ASSUME NEW w \in Workers, NextContext(w) PROVE TypeInv'
  BY <1>2, HeadTailProperties DEF NextContext
<1>3. ASSUME NEW w \in Workers, Exit(w) PROVE TypeInv'
  BY <1>3 DEF Exit
<1>4. ASSUME NEW w \in Workers, LoopTop(w) PROVE TypeInv'
  BY <1>4, EmptySeq DEF LoopTop
<1>5. ASSUME NEW w \in Workers, Execute(w) PROVE TypeInv'
  BY <1>5, ExecuteType
<1>6. ASSUME NEW w \in Workers, Spill(w) PROVE TypeInv'
  <2>1. queue[w] \in Seq(Ctx) /\ Len(queue[w]) > 1
    BY <1>6 DEF Spill
  <2>2. /\ AllButLast(queue[w]) \in Seq(Ctx)
        /\ queue[w][Len(queue[w])] \in Ctx
    BY <2>1, AllButLastType, ElementOfSeq, LenProperties
  <2>. QED
    BY <1>6, <2>2, AppendProperties DEF Spill
<1>7. ASSUME NEW w \in Workers, SpillDone(w) PROVE TypeInv'
  BY <1>7 DEF SpillDone
<1>8. CASE Interrupt
  BY <1>8 DEF Interrupt, InterruptStop, InterruptShutdown, InterruptSolvers
<1>9. CASE Terminated \/ UNCHANGED vars
  BY <1>9 DEF Terminated, vars
<1>. QED
  BY <1>1, <1>2, <1>3, <1>4, <1>5, <1>6, <1>7, <1>8, <1>9 DEF Next, Worker

(* Each worker thread's and the interrupting thread's steps keep every     *)
(* variable of the executor within its type: contexts handed out, spilled  *)
(* or forked stay within 1..MaxCtx, and the fork counter within its bound. *)
THEOREM TypeCorrect == Spec => []TypeOK
<1>1. TypeInv => TypeOK
  BY DEF TypeInv
<1>. QED
  BY TypeInit, TypeStep, <1>1, PTL DEF Spec

-----------------------------------------------------------------------------
(* RunningSolversInterrupted is not inductive: it rests on every worker    *)
(* past registration having its solver in the list or interrupted, on the  *)
(* store being shut before the solvers are interrupted, and on a worker    *)
(* that registers after that being unable to leave next_context.           *)
SolverInv ==
    /\ \A w \in Workers : pc[w] # "register" => w \in solvers \cup interrupted
    /\ ipc \in {"solvers", "done"} => shut
    /\ ipc = "done" => \A w \in solvers \ interrupted : pc[w] \in {"pop", "done"}
    /\ RunningSolversInterrupted

LEMMA SolverInit == Init => SolverInv
BY DEF Init, SolverInv, RunningSolversInterrupted

LEMMA SolverStep == TypeInv /\ SolverInv /\ [Next]_vars => SolverInv'
<1> SUFFICES ASSUME TypeInv, SolverInv, [Next]_vars PROVE SolverInv'
  OBVIOUS
<1>. USE DEF SolverInv, RunningSolversInterrupted, TypeInv, TypeOK
<1>1. ASSUME NEW w \in Workers, Register(w) PROVE SolverInv'
  BY <1>1 DEF Register
<1>2. ASSUME NEW w \in Workers, NextContext(w) PROVE SolverInv'
  BY <1>2 DEF NextContext
<1>3. ASSUME NEW w \in Workers, Exit(w) PROVE SolverInv'
  BY <1>3 DEF Exit
<1>4. ASSUME NEW w \in Workers, LoopTop(w) PROVE SolverInv'
  BY <1>4 DEF LoopTop
<1>5. ASSUME NEW w \in Workers, Execute(w) PROVE SolverInv'
  BY <1>5 DEF Execute
<1>6. ASSUME NEW w \in Workers, Spill(w) PROVE SolverInv'
  BY <1>6 DEF Spill
<1>7. ASSUME NEW w \in Workers, SpillDone(w) PROVE SolverInv'
  BY <1>7 DEF SpillDone
<1>8. CASE InterruptStop
  BY <1>8 DEF InterruptStop
<1>9. CASE InterruptShutdown
  BY <1>9 DEF InterruptShutdown
<1>10. CASE InterruptSolvers
  BY <1>10 DEF InterruptSolvers
<1>11. CASE Terminated \/ UNCHANGED vars
  BY <1>11 DEF Terminated, vars
<1>. QED
  BY <1>1, <1>2, <1>3, <1>4, <1>5, <1>6, <1>7, <1>8, <1>9, <1>10, <1>11
     DEF Next, Worker, Interrupt

(* Once Executor::interrupt has returned, every worker still running       *)
(* contexts (lines 29-64) has had its solver interrupted, whatever the     *)
(* number of workers and the order their registration (lines 14-18)        *)
(* interleaves with the interrupt (lines 93-109).                          *)
THEOREM SolversInterrupted == Spec => []RunningSolversInterrupted
<1>1. TypeInv /\ SolverInv => RunningSolversInterrupted
  BY DEF SolverInv
<1>. QED
  BY TypeInit, TypeStep, SolverInit, SolverStep, <1>1, PTL DEF Spec

-----------------------------------------------------------------------------
(* ContextOwnership is not inductive: a fork must be known to be new,      *)
(* which it is because every context held or finished has an identifier    *)
(* below nextCtx.                                                          *)
OwnInv ==
    /\ ContextOwnership
    /\ Held \subseteq Created
    /\ finished \subseteq Created

LEMMA OwnInit == Init => OwnInv
<1> SUFFICES ASSUME Init PROVE OwnInv
  OBVIOUS
<1>1. Elems(store) = 1..Entries /\ NoDup(store)
  BY ExecutorAssumption DEF Init, Elems, NoDup
<1>2. \A w \in Workers : Elems(queue[w]) = {} /\ NoDup(queue[w])
  BY DEF Init, Elems, NoDup
<1>3. Held = 1..Entries
  BY <1>1, <1>2 DEF Init, Held
<1>4. Created = 1..Entries
  BY ExecutorAssumption DEF Init, Created
<1>. QED
  BY <1>1, <1>2, <1>3, <1>4 DEF Init, OwnInv, ContextOwnership

\* A step that empties one backing list, leaves the store and the finished
\* contexts alone and does not lower nextCtx keeps the ownership invariant.
LEMMA ClearKeepsOwnership ==
    ASSUME TypeInv, OwnInv, NEW w \in Workers,
           queue' = [queue EXCEPT ![w] = <<>>],
           store' = store, finished' = finished,
           NEW n \in Nat, n >= nextCtx, nextCtx' = n
    PROVE  OwnInv'
<1>. USE DEF TypeInv, TypeOK
<1>1. \A v \in Workers : Elems(queue'[v]) \subseteq Elems(queue[v])
  BY DEF Elems
<1>2. \A v \in Workers : NoDup(queue'[v])
  BY DEF OwnInv, ContextOwnership, NoDup
<1>3. Held' \subseteq Held
  BY <1>1 DEF Held
<1>4. Created \subseteq Created'
  BY DEF Created
<1>5. \A v \in Workers : Elems(queue'[v]) \cap Elems(store') = {}
  BY <1>1 DEF OwnInv, ContextOwnership
<1>6. \A u, v \in Workers : u # v => Elems(queue'[u]) \cap Elems(queue'[v]) = {}
  BY <1>1 DEF OwnInv, ContextOwnership
<1>7. ContextOwnership'
  BY <1>2, <1>3, <1>5, <1>6 DEF OwnInv, ContextOwnership
<1>. QED
  BY <1>3, <1>4, <1>7 DEF OwnInv

\* A step that leaves the store, the backing lists, the finished contexts
\* and nextCtx alone keeps the ownership invariant.
LEMMA FrameKeepsOwnership ==
    ASSUME OwnInv, UNCHANGED <<store, queue, finished, nextCtx>>
    PROVE  OwnInv'
BY DEF OwnInv, ContextOwnership, Held, Created

\* next_context (lines 21-24) moves the store's head into a backing list
\* that is cleared first: the context leaves the store as it enters the list.
LEMMA NextContextOwnership ==
    ASSUME TypeInv, OwnInv, NEW w \in Workers, NextContext(w)
    PROVE  OwnInv'
<1>. DEFINE h == Head(store)
<1>1. /\ store \in Seq(Ctx) /\ store # <<>> /\ NoDup(store)
      /\ queue \in [Workers -> Seq(Ctx)]
      /\ store' = Tail(store)
      /\ queue' = [queue EXCEPT ![w] = <<h>>]
      /\ UNCHANGED <<finished, nextCtx>>
  BY DEF TypeInv, TypeOK, OwnInv, ContextOwnership, NextContext
<1>2. /\ Elems(store) = {h} \cup Elems(store')
      /\ h \notin Elems(store')
      /\ NoDup(store')
  BY <1>1, ElemsTail
<1>3. Elems(queue'[w]) = {h} /\ NoDup(queue'[w])
  BY <1>1, ElemsSingle
<1>4. \A v \in Workers \ {w} : queue'[v] = queue[v]
  BY <1>1
<1>5. \A v \in Workers : NoDup(queue'[v]) /\ Elems(queue'[v]) \cap Elems(store') = {}
  BY <1>2, <1>3, <1>4 DEF OwnInv, ContextOwnership
<1>6. \A u, v \in Workers : u # v => Elems(queue'[u]) \cap Elems(queue'[v]) = {}
  <2> SUFFICES ASSUME NEW u \in Workers, NEW v \in Workers, u # v
               PROVE  Elems(queue'[u]) \cap Elems(queue'[v]) = {}
    OBVIOUS
  <2>1. CASE u = w
    BY <2>1, <1>2, <1>3, <1>4 DEF OwnInv, ContextOwnership
  <2>2. CASE v = w
    BY <2>2, <1>2, <1>3, <1>4 DEF OwnInv, ContextOwnership
  <2>3. CASE u # w /\ v # w
    BY <2>3, <1>4 DEF OwnInv, ContextOwnership
  <2>. QED
    BY <2>1, <2>2, <2>3
<1>7. Held' \subseteq Held
  <2>1. \A v \in Workers : Elems(queue'[v]) \subseteq Held
    BY <1>2, <1>3, <1>4 DEF Held
  <2>2. Elems(store') \subseteq Held
    BY <1>2 DEF Held
  <2>. QED
    BY <2>1, <2>2 DEF Held
<1>. QED
  BY <1>1, <1>2, <1>5, <1>6, <1>7 DEF OwnInv, ContextOwnership, Created

\* The spill loop (lines 61-64) moves the last entry of a backing list to
\* the store, or drops it when the store is shut: it is never in both.
LEMMA SpillOwnership ==
    ASSUME TypeInv, OwnInv, NEW w \in Workers, Spill(w)
    PROVE  OwnInv'
<1>. DEFINE q == queue[w]
            l == q[Len(q)]
<1>1. /\ q \in Seq(Ctx) /\ q # <<>> /\ NoDup(q)
      /\ store \in Seq(Ctx)
      /\ queue \in [Workers -> Seq(Ctx)]
      /\ store' = IF shut THEN store ELSE Append(store, l)
      /\ queue' = [queue EXCEPT ![w] = AllButLast(q)]
      /\ UNCHANGED <<finished, nextCtx>>
  BY EmptySeq DEF TypeInv, TypeOK, OwnInv, ContextOwnership, Spill
<1>2. /\ Elems(q) = Elems(queue'[w]) \cup {l}
      /\ l \notin Elems(queue'[w])
      /\ NoDup(queue'[w])
  BY <1>1, ElemsAllButLast
<1>3. /\ l \in Ctx
      /\ l \notin Elems(store)
      /\ \A v \in Workers \ {w} : l \notin Elems(queue[v])
  <2>1. l \in Elems(q)
    BY <1>2
  <2>2. Len(q) \in 1..Len(q)
    BY <1>1, EmptySeq
  <2>3. l \in Ctx
    BY <1>1, <2>2, ElementOfSeq
  <2>. QED
    BY <2>1, <2>3, <1>1 DEF OwnInv, ContextOwnership
<1>4. /\ Elems(store') \subseteq Elems(store) \cup {l}
      /\ NoDup(store')
  <2>1. CASE shut
    BY <2>1, <1>1 DEF OwnInv, ContextOwnership
  <2>2. CASE ~shut
    BY <2>2, <1>1, <1>3, ElemsAppend DEF OwnInv, ContextOwnership
  <2>. QED
    BY <2>1, <2>2
<1>5. \A v \in Workers \ {w} : queue'[v] = queue[v]
  BY <1>1
<1>6. \A v \in Workers : NoDup(queue'[v]) /\ Elems(queue'[v]) \cap Elems(store') = {}
  BY <1>2, <1>3, <1>4, <1>5 DEF OwnInv, ContextOwnership
<1>7. \A u, v \in Workers : u # v => Elems(queue'[u]) \cap Elems(queue'[v]) = {}
  <2> SUFFICES ASSUME NEW u \in Workers, NEW v \in Workers, u # v
               PROVE  Elems(queue'[u]) \cap Elems(queue'[v]) = {}
    OBVIOUS
  <2>1. CASE u = w
    BY <2>1, <1>2, <1>5 DEF OwnInv, ContextOwnership
  <2>2. CASE v = w
    BY <2>2, <1>2, <1>5 DEF OwnInv, ContextOwnership
  <2>3. CASE u # w /\ v # w
    BY <2>3, <1>5 DEF OwnInv, ContextOwnership
  <2>. QED
    BY <2>1, <2>2, <2>3
<1>8. Held' \subseteq Held
  <2>1. \A v \in Workers : Elems(queue'[v]) \subseteq Held
    BY <1>2, <1>5 DEF Held
  <2>2. Elems(store') \subseteq Held
    BY <1>2, <1>4 DEF Held
  <2>. QED
    BY <2>1, <2>2 DEF Held
<1>. QED
  BY <1>1, <1>4, <1>6, <1>7, <1>8 DEF OwnInv, ContextOwnership, Created

\* A step-batch that keeps part r of the backing list, appends k forks to
\* it and marks the rest D finished keeps the ownership invariant, because
\* the forks are numbered from nextCtx and so are new.
LEMMA AppendForksOwnership ==
    ASSUME TypeInv, OwnInv, NEW w \in Workers,
           NEW k \in Nat, nextCtx + k <= MaxCtx + 1,
           NEW r \in Seq(Ctx), NoDup(r), Elems(r) \subseteq Elems(queue[w]),
           NEW D \in SUBSET (Elems(queue[w]) \ Elems(r)),
           queue' = [queue EXCEPT ![w] = r \o Forks(k)],
           finished' = finished \cup D,
           store' = store, nextCtx' = nextCtx + k
    PROVE  OwnInv'
<1>. DEFINE F == Forks(k)
            Fresh == nextCtx..(nextCtx + k - 1)
<1>1. /\ nextCtx \in Nat /\ nextCtx >= 1 /\ F \in Seq(Ctx)
      /\ Elems(F) = Fresh /\ NoDup(F)
      /\ queue \in [Workers -> Seq(Ctx)]
      /\ queue'[w] = r \o F
  BY ForksType, ElemsForks DEF TypeInv, TypeOK
<1>2. Fresh \cap (Held \cup finished) = {}
  <2>1. Held \cup finished \subseteq 1..(nextCtx - 1)
    BY DEF OwnInv, Created
  <2>. QED
    BY <1>1, <2>1
<1>3. Elems(r) \subseteq Held
  BY DEF Held
<1>4. Elems(queue'[w]) = Elems(r) \cup Fresh /\ NoDup(queue'[w])
  <2>1. Elems(r) \cap Elems(F) = {}
    BY <1>1, <1>2, <1>3
  <2>2. /\ Elems(r \o F) = Elems(r) \cup Elems(F)
        /\ NoDup(r) /\ NoDup(F) /\ Elems(r) \cap Elems(F) = {} => NoDup(r \o F)
    BY <1>1, ElemsConcat
  <2>. QED
    BY <1>1, <2>1, <2>2
<1>5. \A v \in Workers \ {w} : queue'[v] = queue[v]
  BY <1>1
<1>6. \A v \in Workers : Elems(queue[v]) \subseteq Held
  BY DEF Held
<1>7. \A v \in Workers : NoDup(queue'[v]) /\ Elems(queue'[v]) \cap Elems(store') = {}
  <2>1. Elems(store) \subseteq Held
    BY DEF Held
  <2>. QED
    BY <1>2, <1>4, <1>5, <2>1 DEF OwnInv, ContextOwnership
<1>8. \A u, v \in Workers : u # v => Elems(queue'[u]) \cap Elems(queue'[v]) = {}
  <2> SUFFICES ASSUME NEW u \in Workers, NEW v \in Workers, u # v
               PROVE  Elems(queue'[u]) \cap Elems(queue'[v]) = {}
    OBVIOUS
  <2>1. CASE u = w
    BY <2>1, <1>2, <1>4, <1>5, <1>6 DEF OwnInv, ContextOwnership
  <2>2. CASE v = w
    BY <2>2, <1>2, <1>4, <1>5, <1>6 DEF OwnInv, ContextOwnership
  <2>3. CASE u # w /\ v # w
    BY <2>3, <1>5 DEF OwnInv, ContextOwnership
  <2>. QED
    BY <2>1, <2>2, <2>3
<1>9. Held' = Elems(store) \cup (Elems(r) \cup Fresh)
                \cup UNION {Elems(queue[v]) : v \in Workers \ {w}}
  BY <1>4, <1>5 DEF Held
<1>10. finished' \cap Held' = {}
  <2>1. D \cap Elems(store) = {}
    BY DEF OwnInv, ContextOwnership
  <2>2. \A v \in Workers \ {w} : D \cap Elems(queue[v]) = {}
    BY DEF OwnInv, ContextOwnership
  <2>3. D \subseteq Held
    BY DEF Held
  <2>4. D \cap (Elems(r) \cup Fresh) = {}
    BY <1>2, <2>3
  <2>5. D \cap Held' = {}
    BY <1>9, <2>1, <2>2, <2>4
  <2>6. finished \cap Held' = {}
    <3>1. finished \cap Fresh = {}
      BY <1>2
    <3>2. finished \cap Held = {}
      BY DEF OwnInv, ContextOwnership
    <3>3. Elems(r) \subseteq Held /\ Elems(store) \subseteq Held
          /\ \A v \in Workers : Elems(queue[v]) \subseteq Held
      BY <1>3, <1>6 DEF Held
    <3>. QED
      BY <1>9, <3>1, <3>2, <3>3
  <2>. QED
    BY <2>5, <2>6
<1>11. Held' \subseteq Created' /\ finished' \subseteq Created'
  <2>1. Created' = Created \cup Fresh
    <3>1. nextCtx' - 1 = nextCtx + k - 1
      BY <1>1
    <3>2. Created' = 1..(nextCtx + k - 1)
      BY <3>1 DEF Created
    <3>. QED
      BY <1>1, <3>2 DEF Created
  <2>2. D \subseteq Held
    BY DEF Held
  <2>3. Elems(store) \subseteq Held
    BY DEF Held
  <2>4. Held \subseteq Created /\ finished \subseteq Created
    BY DEF OwnInv
  <2>. QED
    BY <1>3, <1>6, <1>9, <2>1, <2>2, <2>3, <2>4
<1>. QED
  BY <1>7, <1>8, <1>10, <1>11 DEF OwnInv, ContextOwnership

\* A step-batch (lines 37-59) keeps the ownership invariant in each of its
\* outcomes.
LEMMA ExecuteOwnership ==
    ASSUME TypeInv, OwnInv, NEW w \in Workers, Execute(w)
    PROVE  OwnInv'
<1>. DEFINE q == queue[w]
<1>1. PICK k \in 0..MaxForks :
            /\ nextCtx + k <= MaxCtx + 1
            /\ nextCtx' = nextCtx + k
            /\ \/ /\ queue' = [queue EXCEPT ![w] = Tail(q) \o Forks(k)]
                  /\ finished' = finished \cup {Head(q)}
               \/ /\ queue' = [queue EXCEPT ![w] = q \o Forks(k)]
                  /\ finished' = finished
               \/ /\ queue' = [queue EXCEPT ![w] = <<>>]
                  /\ finished' = finished
  BY DEF Execute
<1>2. /\ q \in Seq(Ctx) /\ q # <<>> /\ NoDup(q)
      /\ store' = store
      /\ k \in Nat /\ nextCtx \in Nat
  BY DEF Execute, TypeInv, TypeOK, ExecReady, OwnInv, ContextOwnership
<1>3. /\ Elems(q) = {Head(q)} \cup Elems(Tail(q))
      /\ Head(q) \notin Elems(Tail(q))
      /\ NoDup(Tail(q))
      /\ Tail(q) \in Seq(Ctx)
  BY <1>2, ElemsTail, HeadTailProperties
<1>4. CASE /\ queue' = [queue EXCEPT ![w] = Tail(q) \o Forks(k)]
           /\ finished' = finished \cup {Head(q)}
  BY <1>1, <1>2, <1>3, <1>4, AppendForksOwnership
<1>5. CASE /\ queue' = [queue EXCEPT ![w] = q \o Forks(k)]
           /\ finished' = finished
  <2>1. finished' = finished \cup {}
    BY <1>5
  <2>2. {} \in SUBSET (Elems(q) \ Elems(q))
    OBVIOUS
  <2>. QED
    BY <1>1, <1>2, <1>5, <2>1, <2>2, AppendForksOwnership
<1>6. CASE /\ queue' = [queue EXCEPT ![w] = <<>>]
           /\ finished' = finished
  <2>. DEFINE n == nextCtx + k
  <2>1. n \in Nat /\ n >= nextCtx /\ nextCtx' = n
    BY <1>1, <1>2
  <2>. HIDE DEF n
  <2>. QED
    BY <1>2, <1>6, <2>1, ClearKeepsOwnership
<1>. QED
  BY <1>1, <1>4, <1>5, <1>6

LEMMA OwnStep == TypeInv /\ OwnInv /\ [Next]_vars => OwnInv'
<1> SUFFICES ASSUME TypeInv, OwnInv, [Next]_vars PROVE OwnInv'
  OBVIOUS
<1>1. ASSUME NEW w \in Workers, Register(w) PROVE OwnInv'
  BY <1>1, FrameKeepsOwnership DEF Register
<1>2. ASSUME NEW w \in Workers, NextContext(w) PROVE OwnInv'
  BY <1>2, NextContextOwnership
<1>3. ASSUME NEW w \in Workers, Exit(w) PROVE OwnInv'
  BY <1>3, FrameKeepsOwnership DEF Exit
<1>4. ASSUME NEW w \in Workers, LoopTop(w) PROVE OwnInv'
  <2>1. CASE UNCHANGED queue
    BY <1>4, <2>1, FrameKeepsOwnership DEF LoopTop
  <2>2. CASE queue' = [queue EXCEPT ![w] = <<>>]
    <3>1. /\ nextCtx \in Nat /\ nextCtx >= nextCtx /\ nextCtx' = nextCtx
          /\ store' = store /\ finished' = finished
      BY <1>4 DEF LoopTop, TypeInv, TypeOK
    <3>. QED
      BY <2>2, <3>1, ClearKeepsOwnership
  <2>. QED
    BY <1>4, <2>1, <2>2 DEF LoopTop
<1>5. ASSUME NEW w \in Workers, Execute(w) PROVE OwnInv'
  BY <1>5, ExecuteOwnership
<1>6. ASSUME NEW w \in Workers, Spill(w) PROVE OwnInv'
  BY <1>6, SpillOwnership
<1>7. ASSUME NEW w \in Workers, SpillDone(w) PROVE OwnInv'
  BY <1>7, FrameKeepsOwnership DEF SpillDone
<1>8. CASE Interrupt
  BY <1>8, FrameKeepsOwnership
     DEF Interrupt, InterruptStop, InterruptShutdown, InterruptSolvers
<1>9. CASE Terminated \/ UNCHANGED vars
  BY <1>9, FrameKeepsOwnership DEF Terminated, vars
<1>. QED
  BY <1>1, <1>2, <1>3, <1>4, <1>5, <1>6, <1>7, <1>8, <1>9 DEF Next, Worker

(* Contexts are move-only, for any number of workers and any bound: the   *)
(* hand-off of next_context (lines 21-24), the step-batch with its forks  *)
(* (lines 37-59) and the spill loop (lines 61-64), interleaved in any     *)
(* order across threads, never put one context in two places, nor hand   *)
(* out again a context the interpreter killed.                            *)
THEOREM Ownership == Spec => []ContextOwnership
<1>1. OwnInv => ContextOwnership
  BY DEF OwnInv
<1>2. Init => TypeInv /\ OwnInv
  BY TypeInit, OwnInit
<1>3. TypeInv /\ OwnInv /\ [Next]_vars => TypeInv' /\ OwnInv'
  BY TypeStep, OwnStep
<1>. QED
  BY <1>1, <1>2, <1>3, PTL DEF Spec


-----------------------------------------------------------------------------
(* FailureAbandons is not inductive: a fork must be known not to have      *)
(* failed before, which it is because every failed context has an         *)
(* identifier below nextCtx.                                               *)
FailInv ==
    /\ FailureAbandons
    /\ Failed \subseteq Created

LEMMA FailInit == Init => FailInv
BY DEF Init, FailInv, FailureAbandons, Failed

\* A step that logs nothing, marks nothing dead, creates no context it
\* holds and lowers no identifier keeps the failure invariant.
LEMMA FailFrame ==
    ASSUME FailInv, log' = log, finished' = finished,
           Held' \subseteq Held, Created \subseteq Created'
    PROVE  FailInv'
BY DEF FailInv, FailureAbandons, Failed

\* Emptying one backing list, the store left alone, drops contexts only.
LEMMA ClearHeld ==
    ASSUME NEW w \in Workers, queue \in [Workers -> Seq(Ctx)],
           queue' = [queue EXCEPT ![w] = <<>>], store' = store
    PROVE  Held' \subseteq Held
<1>1. \A v \in Workers : Elems(queue'[v]) \subseteq Elems(queue[v])
  BY DEF Elems
<1>. QED
  BY <1>1 DEF Held

\* next_context moves a context held by the store into a backing list.
LEMMA NextContextHeld ==
    ASSUME TypeInv, OwnInv, NEW w \in Workers, NextContext(w)
    PROVE  Held' \subseteq Held
<1>1. /\ store \in Seq(Ctx) /\ store # <<>> /\ NoDup(store)
      /\ queue \in [Workers -> Seq(Ctx)]
      /\ store' = Tail(store)
      /\ queue' = [queue EXCEPT ![w] = <<Head(store)>>]
  BY DEF TypeInv, TypeOK, OwnInv, ContextOwnership, NextContext
<1>2. Elems(store) = {Head(store)} \cup Elems(store')
  BY <1>1, ElemsTail
<1>3. Elems(queue'[w]) = {Head(store)}
  BY <1>1, ElemsSingle
<1>4. \A v \in Workers \ {w} : queue'[v] = queue[v]
  BY <1>1
<1>. QED
  BY <1>2, <1>3, <1>4 DEF Held

\* The spill loop moves a context of a backing list to the store, or drops it.
LEMMA SpillHeld ==
    ASSUME TypeInv, OwnInv, NEW w \in Workers, Spill(w)
    PROVE  Held' \subseteq Held
<1>. DEFINE q == queue[w]
            l == q[Len(q)]
<1>1. /\ q \in Seq(Ctx) /\ q # <<>> /\ NoDup(q)
      /\ store \in Seq(Ctx)
      /\ queue \in [Workers -> Seq(Ctx)]
      /\ store' = IF shut THEN store ELSE Append(store, l)
      /\ queue' = [queue EXCEPT ![w] = AllButLast(q)]
  BY EmptySeq DEF TypeInv, TypeOK, OwnInv, ContextOwnership, Spill
<1>2. Elems(q) = Elems(queue'[w]) \cup {l}
  BY <1>1, ElemsAllButLast
<1>3. l \in Ctx
  <2>1. Len(q) \in 1..Len(q)
    BY <1>1, EmptySeq
  <2>. QED
    BY <1>1, <2>1, ElementOfSeq
<1>4. Elems(store') \subseteq Elems(store) \cup {l}
  <2>1. CASE shut
    BY <2>1, <1>1
  <2>2. CASE ~shut
    BY <2>2, <1>1, <1>3, ElemsAppend
  <2>. QED
    BY <2>1, <2>2
<1>5. \A v \in Workers \ {w} : queue'[v] = queue[v]
  BY <1>1
<1>. QED
  BY <1>2, <1>4, <1>5 DEF Held


\* A step-batch that returns keeps part r of the backing list with k forks
\* and marks the rest D dead: none of them has failed.
LEMMA AppendForksFail ==
    ASSUME TypeInv, OwnInv, FailInv, NEW w \in Workers,
           NEW k \in Nat, nextCtx + k <= MaxCtx + 1,
           NEW r \in Seq(Ctx), Elems(r) \subseteq Elems(queue[w]),
           NEW D \in SUBSET Elems(queue[w]),
           queue' = [queue EXCEPT ![w] = r \o Forks(k)],
           finished' = finished \cup D,
           store' = store, nextCtx' = nextCtx + k, log' = log
    PROVE  FailInv'
<1>. DEFINE Fresh == nextCtx..(nextCtx + k - 1)
<1>1. /\ nextCtx \in Nat /\ nextCtx >= 1 /\ Forks(k) \in Seq(Ctx)
      /\ Elems(Forks(k)) = Fresh
      /\ queue \in [Workers -> Seq(Ctx)]
  BY ForksType, ElemsForks DEF TypeInv, TypeOK
<1>2. Elems(queue'[w]) = Elems(r) \cup Fresh
  BY <1>1, ElemsConcat
<1>3. Held' \subseteq Held \cup Fresh
  <2>1. \A v \in Workers \ {w} : queue'[v] = queue[v]
    OBVIOUS
  <2>. QED
    BY <1>2, <2>1 DEF Held
<1>4. Created' = Created \cup Fresh
  <2>1. Created' = 1..(nextCtx + k - 1)
    BY <1>1 DEF Created
  <2>. QED
    BY <1>1, <2>1 DEF Created
<1>5. Failed' = Failed /\ Failed \cap Fresh = {}
  <2>1. Failed' = Failed
    BY DEF Failed
  <2>2. Failed \subseteq 1..(nextCtx - 1)
    BY DEF FailInv, Created
  <2>. QED
    BY <1>1, <2>1, <2>2
<1>6. D \subseteq Held
  BY DEF Held
<1>. QED
  BY <1>3, <1>4, <1>5, <1>6 DEF FailInv, FailureAbandons

\* A step-batch that throws logs its front context, which no other worker
\* and not the store holds, and abandons the backing list.
LEMMA ExecuteFailLogs ==
    ASSUME TypeInv, OwnInv, FailInv, NEW w \in Workers,
           queue[w] # <<>>,
           log' = Append(log, [logged |-> NoCtx, failed |-> Head(queue[w])]),
           queue' = [queue EXCEPT ![w] = <<>>],
           finished' = finished, store' = store,
           NEW k \in Nat, nextCtx' = nextCtx + k
    PROVE  FailInv'
<1>. DEFINE h == Head(queue[w])
            e == [logged |-> NoCtx, failed |-> h]
<1>1. /\ queue \in [Workers -> Seq(Ctx)] /\ log \in Seq(LogEntry)
      /\ nextCtx \in Nat
  BY DEF TypeInv, TypeOK
<1>2. h \in Held /\ h \in Ctx
  <2>1. h = queue[w][1] /\ 1 \in DOMAIN queue[w]
    BY <1>1, EmptySeq
  <2>. QED
    BY <1>1, <2>1 DEF Held, Elems
<1>3. h \notin Failed
  BY <1>2 DEF FailInv, FailureAbandons
<1>4. /\ DOMAIN log' = 1..(Len(log) + 1)
      /\ \A i \in 1..Len(log) : log'[i] = log[i]
      /\ log'[Len(log) + 1] = e
      /\ DOMAIN log = 1..Len(log)
  <2>1. e \in LogEntry
    BY <1>2 DEF LogEntry, NoCtx
  <2>. QED
    BY <1>1, <2>1, AppendProperties
<1>5. Failed' = Failed \cup {h}
  BY <1>4 DEF Failed
<1>6. \A i, j \in DOMAIN log' : log'[i].failed = log'[j].failed => i = j
  BY <1>3, <1>4 DEF FailInv, FailureAbandons, Failed
<1>7. Held' \subseteq Held \ {h}
  <2>1. Held' \subseteq Held
    BY <1>1, ClearHeld
  <2>2. h \notin Elems(store) /\ \A v \in Workers \ {w} : h \notin Elems(queue[v])
    <3>1. h \in Elems(queue[w])
      BY <1>1, EmptySeq DEF Elems
    <3>. QED
      BY <3>1 DEF OwnInv, ContextOwnership
  <2>3. Elems(queue'[w]) = {}
    BY <1>1 DEF Elems
  <2>4. \A v \in Workers \ {w} : queue'[v] = queue[v]
    OBVIOUS
  <2>. QED
    BY <2>2, <2>3, <2>4 DEF Held
<1>8. h \notin finished /\ Held \subseteq Created /\ Created \subseteq Created'
  <2>1. h \notin finished /\ Held \subseteq Created
    BY <1>2 DEF OwnInv, ContextOwnership
  <2>2. Created \subseteq Created'
    <3>1. Created' = 1..(nextCtx + k - 1)
      BY <1>1 DEF Created
    <3>. QED
      BY <1>1, <3>1 DEF Created
  <2>. QED
    BY <2>1, <2>2
<1>. QED
  BY <1>5, <1>6, <1>7, <1>8, <1>2 DEF FailInv, FailureAbandons

\* A step-batch (lines 37-59), in each of its outcomes.
LEMMA ExecuteFail ==
    ASSUME TypeInv, OwnInv, FailInv, NEW w \in Workers, Execute(w)
    PROVE  FailInv'
<1>. DEFINE q == queue[w]
<1>1. PICK k \in 0..MaxForks :
            /\ nextCtx + k <= MaxCtx + 1
            /\ nextCtx' = nextCtx + k
            /\ \/ /\ queue' = [queue EXCEPT ![w] = Tail(q) \o Forks(k)]
                  /\ finished' = finished \cup {Head(q)}
                  /\ log' = log
               \/ /\ queue' = [queue EXCEPT ![w] = q \o Forks(k)]
                  /\ finished' = finished /\ log' = log
               \/ /\ log' = Append(log, [logged |-> NoCtx, failed |-> Head(q)])
                  /\ queue' = [queue EXCEPT ![w] = <<>>]
                  /\ finished' = finished
  BY DEF Execute
<1>2. /\ q \in Seq(Ctx) /\ q # <<>> /\ NoDup(q)
      /\ store' = store
      /\ k \in Nat
  BY DEF Execute, TypeInv, TypeOK, ExecReady, OwnInv, ContextOwnership
<1>3. /\ Elems(q) = {Head(q)} \cup Elems(Tail(q))
      /\ Tail(q) \in Seq(Ctx)
  BY <1>2, ElemsTail, HeadTailProperties
<1>4. CASE /\ queue' = [queue EXCEPT ![w] = Tail(q) \o Forks(k)]
           /\ finished' = finished \cup {Head(q)} /\ log' = log
  BY <1>1, <1>2, <1>3, <1>4, AppendForksFail
<1>5. CASE /\ queue' = [queue EXCEPT ![w] = q \o Forks(k)]
           /\ finished' = finished /\ log' = log
  <2>1. finished' = finished \cup {} /\ {} \in SUBSET Elems(q)
    BY <1>5
  <2>. QED
    BY <1>1, <1>2, <1>5, <2>1, AppendForksFail
<1>6. CASE /\ log' = Append(log, [logged |-> NoCtx, failed |-> Head(q)])
           /\ queue' = [queue EXCEPT ![w] = <<>>]
           /\ finished' = finished
  BY <1>1, <1>2, <1>6, ExecuteFailLogs
<1>. QED
  BY <1>1, <1>4, <1>5, <1>6

LEMMA FailStep == TypeInv /\ OwnInv /\ FailInv /\ [Next]_vars => FailInv'
<1> SUFFICES ASSUME TypeInv, OwnInv, FailInv, [Next]_vars PROVE FailInv'
  OBVIOUS
<1>1. ASSUME NEW w \in Workers,
             Register(w) \/ Exit(w) \/ SpillDone(w)
      PROVE  FailInv'
  BY <1>1, FailFrame DEF Register, Exit, SpillDone, Held, Created
<1>2. ASSUME NEW w \in Workers, NextContext(w) PROVE FailInv'
  BY <1>2, NextContextHeld, FailFrame DEF NextContext, Created
<1>3. ASSUME NEW w \in Workers, LoopTop(w) PROVE FailInv'
  <2>1. CASE UNCHANGED queue
    BY <1>3, <2>1, FailFrame DEF LoopTop, Held, Created
  <2>2. CASE queue' = [queue EXCEPT ![w] = <<>>]
    <3>1. Held' \subseteq Held
      BY <1>3, <2>2, ClearHeld DEF LoopTop, TypeInv, TypeOK
    <3>. QED
      BY <1>3, <3>1, FailFrame DEF LoopTop, Created
  <2>. QED
    BY <1>3, <2>1, <2>2 DEF LoopTop
<1>4. ASSUME NEW w \in Workers, Execute(w) PROVE FailInv'
  BY <1>4, ExecuteFail
<1>5. ASSUME NEW w \in Workers, Spill(w) PROVE FailInv'
  BY <1>5, SpillHeld, FailFrame DEF Spill, Created
<1>6. CASE Interrupt
  BY <1>6, FailFrame
     DEF Interrupt, InterruptStop, InterruptShutdown, InterruptSolvers, Held, Created
<1>7. CASE Terminated \/ UNCHANGED vars
  BY <1>7, FailFrame DEF Terminated, vars, Held, Created
<1>. QED
  BY <1>1, <1>2, <1>3, <1>4, <1>5, <1>6, <1>7 DEF Next, Worker

(* A failed context is logged once and abandoned, for any number of       *)
(* workers and any bound: the `break` of lines 45 and 54 leaves the loop, *)
(* and since contexts are move-only no other worker, nor the store, still *)
(* holds it; it is never run, spilled or marked dead again.               *)
THEOREM FailuresAbandoned == Spec => []FailureAbandons
<1>1. FailInv => FailureAbandons
  BY DEF FailInv
<1>2. Init => TypeInv /\ OwnInv /\ FailInv
  BY TypeInit, OwnInit, FailInit
<1>3. TypeInv /\ OwnInv /\ FailInv /\ [Next]_vars => TypeInv' /\ OwnInv' /\ FailInv'
  BY TypeStep, OwnStep, FailStep
<1>. QED
  BY <1>1, <1>2, <1>3, PTL DEF Spec

=============================================================================
