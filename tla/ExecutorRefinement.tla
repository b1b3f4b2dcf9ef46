-------------------------- MODULE ExecutorRefinement --------------------------
(***************************************************************************)
(* Executor implements ContextPool under the mapping Pool of Executor.tla: *)
(* the store's elements are the pending contexts, each backing list's      *)
(* elements are what its worker holds, the contexts the interpreter marked *)
(* dead are the dead ones and the identifiers below nextCtx the born ones. *)
(* next_context is Take, a step-batch that returns is Run, one that throws *)
(* and a should_stop break are Abandon, a spill is Yield and the store's   *)
(* shutdown is Close; every other step leaves the mapped state alone.      *)
(***************************************************************************)
EXTENDS ExecutorProofs

(* Take requires an empty hand: a worker that asks the store for a context *)
(* (line 21) has nothing in its backing list, nor has one that has not yet *)
(* started or has returned.                                                *)
PopEmpty ==
    \A w \in Workers : pc[w] \in {"register", "pop", "done"} => queue[w] = <<>>

RInv == TypeInv /\ OwnInv /\ PopEmpty

\* The elements of a backing list are contexts.
LEMMA ElemsType ==
    ASSUME NEW S, NEW s \in Seq(S)
    PROVE  Elems(s) \subseteq S
BY DEF Elems

\* A non-empty backing list holds something.
LEMMA ElemsNonEmpty ==
    ASSUME NEW S, NEW s \in Seq(S), s # <<>>
    PROVE  Elems(s) # {}
<1>1. Len(s) \in Nat \ {0} /\ DOMAIN s = 1..Len(s)
  BY LenProperties, EmptySeq
<1>2. s[1] \in Elems(s)
  BY <1>1 DEF Elems
<1>. QED
  BY <1>2

\* Replacing one worker's backing list replaces that worker's hand alone.
LEMMA HeldUpdate ==
    ASSUME NEW w \in Workers, NEW s, queue \in [Workers -> Seq(Ctx)],
           queue' = [queue EXCEPT ![w] = s]
    PROVE  [v \in Workers |-> Elems(queue'[v])]
             = [[v \in Workers |-> Elems(queue[v])] EXCEPT ![w] = Elems(s)]
OBVIOUS

\* A step that leaves the store, the backing lists, the dead contexts,
\* nextCtx and the shutdown flag alone is a stutter of the pool.
LEMMA PoolFrame ==
    ASSUME UNCHANGED <<store, queue, finished, nextCtx, shut>>
    PROVE  UNCHANGED Pool!poolvars
BY DEF Pool!poolvars, Created

LEMMA RInvInit == Init => RInv
<1>1. Init => PopEmpty
  BY DEF Init, PopEmpty
<1>. QED
  BY <1>1, TypeInit, OwnInit DEF RInv

LEMMA PopEmptyStep == TypeInv /\ PopEmpty /\ [Next]_vars => PopEmpty'
<1> SUFFICES ASSUME TypeInv, PopEmpty, [Next]_vars PROVE PopEmpty'
  OBVIOUS
<1>. USE DEF PopEmpty, TypeInv, TypeOK
<1>1. ASSUME NEW w \in Workers, Register(w) PROVE PopEmpty'
  BY <1>1 DEF Register
<1>2. ASSUME NEW w \in Workers, NextContext(w) PROVE PopEmpty'
  BY <1>2 DEF NextContext
<1>3. ASSUME NEW w \in Workers, Exit(w) PROVE PopEmpty'
  BY <1>3 DEF Exit
<1>4. ASSUME NEW w \in Workers, LoopTop(w) PROVE PopEmpty'
  BY <1>4 DEF LoopTop
<1>5. ASSUME NEW w \in Workers, Execute(w) PROVE PopEmpty'
  BY <1>5 DEF Execute
<1>6. ASSUME NEW w \in Workers, Spill(w) PROVE PopEmpty'
  BY <1>6 DEF Spill
<1>7. ASSUME NEW w \in Workers, SpillDone(w) PROVE PopEmpty'
  BY <1>7 DEF SpillDone
<1>8. CASE Interrupt
  BY <1>8 DEF Interrupt, InterruptStop, InterruptShutdown, InterruptSolvers
<1>9. CASE Terminated \/ UNCHANGED vars
  BY <1>9 DEF Terminated, vars
<1>. QED
  BY <1>1, <1>2, <1>3, <1>4, <1>5, <1>6, <1>7, <1>8, <1>9 DEF Next, Worker

LEMMA RInvStep == RInv /\ [Next]_vars => RInv'
BY TypeStep, OwnStep, PopEmptyStep DEF RInv

\* next_context (lines 21-24) is Take of the store's head.
LEMMA NextContextTakes ==
    ASSUME RInv, NEW w \in Workers, NextContext(w)
    PROVE  [Pool!Next]_Pool!poolvars
<1>. DEFINE h == Head(store)
<1>1. /\ store \in Seq(Ctx) /\ store # <<>> /\ NoDup(store)
      /\ queue \in [Workers -> Seq(Ctx)]
      /\ queue[w] = <<>>
      /\ ~shut
  BY DEF NextContext, RInv, TypeInv, TypeOK, OwnInv, ContextOwnership, PopEmpty
<1>2. Elems(store) = {h} \cup Elems(Tail(store)) /\ h \notin Elems(Tail(store))
  BY <1>1, ElemsTail
<1>3. h \in Ctx
  BY <1>1, <1>2, ElemsType
<1>4. [v \in Workers |-> Elems(queue'[v])]
        = [[v \in Workers |-> Elems(queue[v])] EXCEPT ![w] = {h}]
  BY <1>1, ElemsSingle, HeldUpdate DEF NextContext
<1>5. Elems(queue[w]) = {}
  BY <1>1 DEF Elems
<1>6. Elems(store') = Elems(store) \ {h}
  BY <1>2 DEF NextContext
<1>7. Pool!Take(w, h)
  BY <1>1, <1>2, <1>4, <1>5, <1>6 DEF Pool!Take, NextContext, Created
<1>. QED
  BY <1>3, <1>7 DEF Pool!Next

\* The spill loop (lines 61-64) is Yield of the list's last entry.
LEMMA SpillYields ==
    ASSUME RInv, NEW w \in Workers, Spill(w)
    PROVE  [Pool!Next]_Pool!poolvars
<1>. DEFINE q == queue[w]
            c == q[Len(q)]
<1>1. /\ store \in Seq(Ctx) /\ q \in Seq(Ctx) /\ q # <<>> /\ NoDup(q)
      /\ queue \in [Workers -> Seq(Ctx)]
  BY DEF Spill, RInv, TypeInv, TypeOK, OwnInv, ContextOwnership
<1>2. /\ Elems(q) = Elems(AllButLast(q)) \cup {c}
      /\ c \notin Elems(AllButLast(q))
  BY <1>1, ElemsAllButLast
<1>3. c \in Ctx
  BY <1>1, <1>2, ElemsType
<1>4. [v \in Workers |-> Elems(queue'[v])]
        = [[v \in Workers |-> Elems(queue[v])] EXCEPT ![w] = Elems(q) \ {c}]
  <2>1. Elems(AllButLast(q)) = Elems(q) \ {c}
    BY <1>2
  <2>. QED
    BY <1>1, <2>1, HeldUpdate DEF Spill
<1>5. Elems(store') = IF shut THEN Elems(store) ELSE Elems(store) \cup {c}
  <2>1. Elems(Append(store, c)) = Elems(store) \cup {c}
    BY <1>1, <1>3, ElemsAppend
  <2>. QED
    BY <2>1 DEF Spill
<1>6. Pool!Yield(w, c)
  BY <1>2, <1>4, <1>5 DEF Pool!Yield, Spill, Created
<1>. QED
  BY <1>3, <1>6 DEF Pool!Next

\* The head of the loop (lines 29-35) is a stutter, except the should_stop
\* break, which abandons the list with nothing forked.
LEMMA LoopTopMaps ==
    ASSUME RInv, NEW w \in Workers, LoopTop(w)
    PROVE  [Pool!Next]_Pool!poolvars
<1>1. CASE UNCHANGED queue
  BY <1>1, PoolFrame DEF LoopTop
<1>2. CASE queue[w] # <<>> /\ queue' = [queue EXCEPT ![w] = <<>>]
  <2>1. queue \in [Workers -> Seq(Ctx)]
    BY DEF RInv, TypeInv, TypeOK
  <2>2. Elems(queue[w]) # {}
    BY <1>2, <2>1, ElemsNonEmpty
  <2>3. [v \in Workers |-> Elems(queue'[v])]
          = [[v \in Workers |-> Elems(queue[v])] EXCEPT ![w] = {}]
    <3>1. Elems(<<>>) = {}
      BY DEF Elems
    <3>. QED
      BY <1>2, <2>1, <3>1, HeldUpdate
  <2>4. Pool!Abandon(w, {})
    BY <2>2, <2>3 DEF Pool!Abandon, LoopTop, Created
  <2>. QED
    BY <2>4 DEF Pool!Next
<1>. QED
  BY <1>1, <1>2 DEF LoopTop

\* Executor::interrupt's shutdown of the store (line 98) is Close; its
\* other steps are stutters.
LEMMA InterruptMaps ==
    ASSUME Interrupt PROVE [Pool!Next]_Pool!poolvars
<1>1. CASE InterruptShutdown
  <2>1. Pool!Close
    BY <1>1 DEF Pool!Close, InterruptShutdown, Created
  <2>. QED
    BY <2>1 DEF Pool!Next
<1>2. CASE InterruptStop \/ InterruptSolvers
  BY <1>2, PoolFrame DEF InterruptStop, InterruptSolvers
<1>. QED
  BY <1>1, <1>2 DEF Interrupt

\* A step-batch (lines 37-59) with k forks: returning, it is Run of the
\* active entry with the forks (dead or not); throwing, it is Abandon with
\* the forks it created before the throw.
LEMMA ExecuteMaps ==
    ASSUME RInv, NEW w \in Workers, Execute(w)
    PROVE  [Pool!Next]_Pool!poolvars
<1>. DEFINE q == queue[w]
            h == Head(q)
            heldBar == [v \in Workers |-> Elems(queue[v])]
<1>1. PICK k \in 0..MaxForks :
        /\ nextCtx + k <= MaxCtx + 1
        /\ nextCtx' = nextCtx + k
        /\ \/ /\ queue' = [queue EXCEPT ![w] = Tail(q) \o Forks(k)]
              /\ finished' = finished \cup {h}
           \/ /\ queue' = [queue EXCEPT ![w] = q \o Forks(k)]
              /\ finished' = finished
           \/ queue' = [queue EXCEPT ![w] = <<>>] /\ finished' = finished
  BY DEF Execute
<1>. DEFINE F == Elems(Forks(k))
<1>2. /\ q \in Seq(Ctx) /\ q # <<>> /\ NoDup(q)
      /\ queue \in [Workers -> Seq(Ctx)]
      /\ nextCtx \in Nat /\ nextCtx >= 1
  BY DEF Execute, RInv, TypeInv, TypeOK, ExecReady, OwnInv, ContextOwnership
<1>3. /\ F = nextCtx..(nextCtx + k - 1)
      /\ Forks(k) \in Seq(Ctx)
      /\ F \subseteq Ctx
      /\ F \cap Created = {}
      /\ Created' = Created \cup F
  <2>1. k \in Nat /\ F = nextCtx..(nextCtx + k - 1)
    BY <1>2, ElemsForks
  <2>2. Forks(k) \in Seq(Ctx)
    BY <1>1, <1>2, <2>1, ForksType
  <2>3. F \subseteq Ctx
    BY <2>2, ElemsType
  <2>4. F \cap Created = {} /\ Created' = Created \cup F
    BY <1>1, <1>2, <2>1 DEF Created
  <2>. QED
    BY <2>1, <2>2, <2>3, <2>4
<1>4. /\ Elems(q) = {h} \cup Elems(Tail(q)) /\ h \notin Elems(Tail(q))
      /\ Tail(q) \in Seq(Ctx)
      /\ h \in Elems(q)
  BY <1>2, ElemsTail, HeadTailProperties, ElemsType
<1>5. UNCHANGED <<store, shut>>
  BY DEF Execute
<1>6. CASE queue' = [queue EXCEPT ![w] = Tail(q) \o Forks(k)]
           /\ finished' = finished \cup {h}
  <2>1. Elems(Tail(q) \o Forks(k)) = (Elems(q) \ {h}) \cup F
    <3>1. Elems(Tail(q) \o Forks(k)) = Elems(Tail(q)) \cup F
      <4>1. Tail(q) \in Seq(Ctx) /\ Forks(k) \in Seq(Ctx)
        BY <1>3, <1>4
      <4>. QED
        BY <4>1, ElemsConcat, Zenon
    <3>2. Elems(Tail(q)) = Elems(q) \ {h}
      BY <1>4
    <3>. QED
      BY <3>1, <3>2
  <2>2. queue'[w] = Tail(q) \o Forks(k)
    BY <1>2, <1>6
  <2>3. [v \in Workers |-> Elems(queue'[v])]
          = [heldBar EXCEPT ![w] = (heldBar[w] \ {h}) \cup F]
    BY <1>2, <1>6, <2>1, HeldUpdate
  <2>4. Pool!Run(w, h, F, TRUE)
    BY <1>3, <1>4, <1>5, <1>6, <2>3 DEF Pool!Run
  <2>. QED
    BY <1>3, <1>4, <1>2, <2>4, ElemsType DEF Pool!Next
<1>7. CASE queue' = [queue EXCEPT ![w] = q \o Forks(k)] /\ finished' = finished
  <2>1. Elems(q \o Forks(k)) = Elems(q) \cup F
    BY <1>2, <1>3, ElemsConcat
  <2>3. [v \in Workers |-> Elems(queue'[v])]
          = [heldBar EXCEPT ![w] = (heldBar[w] \ {}) \cup F]
    BY <1>2, <1>7, <2>1, HeldUpdate
  <2>4. Pool!Run(w, h, F, FALSE)
    BY <1>3, <1>4, <1>5, <1>7, <2>3 DEF Pool!Run
  <2>. QED
    BY <1>3, <1>4, <1>2, <2>4, ElemsType DEF Pool!Next
<1>8. CASE queue' = [queue EXCEPT ![w] = <<>>] /\ finished' = finished
  <2>1. [v \in Workers |-> Elems(queue'[v])] = [heldBar EXCEPT ![w] = {}]
    <3>1. Elems(<<>>) = {}
      BY DEF Elems
    <3>. QED
      BY <1>2, <1>8, <3>1, HeldUpdate
  <2>2. Pool!Abandon(w, F)
    BY <1>3, <1>4, <1>5, <1>8, <2>1 DEF Pool!Abandon
  <2>. QED
    BY <1>3, <2>2 DEF Pool!Next
<1>. QED
  BY <1>1, <1>6, <1>7, <1>8

LEMMA RefineStep == RInv /\ [Next]_vars => [Pool!Next]_Pool!poolvars
<1> SUFFICES ASSUME RInv, [Next]_vars PROVE [Pool!Next]_Pool!poolvars
  OBVIOUS
<1>1. ASSUME NEW w \in Workers, Register(w) \/ Exit(w) \/ SpillDone(w)
      PROVE  [Pool!Next]_Pool!poolvars
  BY <1>1, PoolFrame DEF Register, Exit, SpillDone
<1>2. CASE Terminated \/ UNCHANGED vars
  BY <1>2, PoolFrame DEF Terminated, vars
<1>. QED
  BY <1>1, <1>2, NextContextTakes, LoopTopMaps, ExecuteMaps, SpillYields,
     InterruptMaps DEF Next, Worker

\* Whatever the interleaving of the workers' run_worker loops with each
\* other and with Executor::interrupt, and for every number of workers and
\* bound on contexts and forks, the executor implements the context pool:
\* a worker takes a context only with an empty backing list and an open
\* store, a step-batch forks only fresh contexts, and a spilled context
\* returns to the store unless the store is shut.
THEOREM Refinement == Spec => PoolRefinement
<1>1. Init => Pool!Init
  <2> SUFFICES ASSUME Init PROVE Pool!Init
    OBVIOUS
  <2>1. Elems(store) = 1..Entries
    BY ExecutorAssumption DEF Init, Elems
  <2>2. [v \in Workers |-> Elems(queue[v])] = [v \in Workers |-> {}]
    BY DEF Init, Elems
  <2>3. Created = 1..Entries
    BY ExecutorAssumption DEF Init, Created
  <2>. QED
    BY <2>1, <2>2, <2>3 DEF Init, Pool!Init
<1>. QED
  BY <1>1, RInvInit, RInvStep, RefineStep, PTL
     DEF Spec, PoolRefinement, Pool!Spec

-----------------------------------------------------------------------------
(* NoContextLost is inductive under RInv.  The flags shut and stop are    *)
(* never lowered and the log never shrinks, so a state after which the    *)
(* premise holds was one in which it held; each step then keeps every     *)
(* context it takes out of a place in another place or marks it dead.     *)

\* Until interrupt begins and as long as nothing has failed.
Undisturbed == ~(stop \/ shut) /\ log = <<>>

\* A step that loses nothing it held and holds every context it creates.
LEMMA LostFrame ==
    ASSUME NoContextLost, Undisturbed', Undisturbed,
           Held \subseteq Held' \cup finished', finished \subseteq finished',
           Created' \subseteq Created \cup Held'
    PROVE  NoContextLost'
BY DEF NoContextLost, Undisturbed

\* The step-batch keeps the rest of the backing list and its forks, and
\* the front entry stays or is marked dead.
LEMMA ExecuteKeeps ==
    ASSUME TypeInv, OwnInv, NoContextLost, Undisturbed', NEW w \in Workers,
           Execute(w)
    PROVE  NoContextLost'
<1>. DEFINE q == queue[w]
<1>1. PICK k \in 0..MaxForks :
            /\ nextCtx + k <= MaxCtx + 1
            /\ nextCtx' = nextCtx + k
            /\ \/ /\ queue' = [queue EXCEPT ![w] = Tail(q) \o Forks(k)]
                  /\ finished' = finished \cup {Head(q)}
                  /\ log' = log
               \/ /\ queue' = [queue EXCEPT ![w] = q \o Forks(k)]
                  /\ finished' = finished /\ log' = log
               \/ /\ log' = Append(log, [logged |-> NoCtx, failed |-> Head(q)])
                  /\ queue' = [queue EXCEPT ![w] = <<>>]
                  /\ finished' = finished
  BY DEF Execute
<1>. DEFINE Fresh == nextCtx..(nextCtx + k - 1)
<1>2. /\ q \in Seq(Ctx) /\ q # <<>> /\ NoDup(q)
      /\ queue \in [Workers -> Seq(Ctx)] /\ log \in Seq(LogEntry)
      /\ store' = store /\ stop' = stop /\ shut' = shut
      /\ k \in Nat /\ nextCtx \in Nat /\ nextCtx >= 1
  BY <1>1 DEF Execute, TypeInv, TypeOK, ExecReady, OwnInv, ContextOwnership
<1>9. Forks(k) \in Seq(Ctx) /\ Elems(Forks(k)) = Fresh
  BY <1>1, <1>2, ForksType, ElemsForks
<1>3. /\ Elems(q) = {Head(q)} \cup Elems(Tail(q))
      /\ Tail(q) \in Seq(Ctx)
  BY <1>2, ElemsTail, HeadTailProperties
<1>4. Created' = Created \cup Fresh
  <2>0. k \in Nat /\ nextCtx \in Nat /\ nextCtx >= 1
    BY <1>2
  <2>1. Created' = 1..(nextCtx + k - 1)
    BY <1>1, <2>0 DEF Created
  <2>2. 1..(nextCtx + k - 1) = 1..(nextCtx - 1) \cup nextCtx..(nextCtx + k - 1)
    BY <2>0
  <2>. QED
    BY <2>1, <2>2 DEF Created, Fresh
<1>5. \A v \in Workers \ {w} : queue'[v] = queue[v]
  BY <1>1, <1>2
<1>6. CASE /\ queue' = [queue EXCEPT ![w] = Tail(q) \o Forks(k)]
           /\ finished' = finished \cup {Head(q)} /\ log' = log
  <2>0. queue'[w] = Tail(q) \o Forks(k)
    BY <1>2, <1>6
  <2>a. Elems(Tail(q) \o Forks(k)) = Elems(Tail(q)) \cup Elems(Forks(k))
    <3>1. \A s, t \in Seq(Ctx) : Elems(s \o t) = Elems(s) \cup Elems(t)
      BY ElemsConcat
    <3>. QED
      BY <1>3, <1>9, <3>1
  <2>1. Elems(queue'[w]) = Elems(Tail(q)) \cup Fresh
    BY <1>9, <2>0, <2>a
  <2>2. Held \subseteq Held' \cup finished' /\ Fresh \subseteq Held'
    <3>1. Elems(q) \subseteq Elems(queue'[w]) \cup finished'
      BY <1>3, <1>6, <2>1
    <3>2. Fresh \subseteq Elems(queue'[w])
      BY <2>1
    <3>. QED
      BY <1>2, <1>5, <3>1, <3>2 DEF Held
  <2>. QED
    BY <1>2, <1>4, <1>6, <2>2, LostFrame DEF Undisturbed
<1>7. CASE /\ queue' = [queue EXCEPT ![w] = q \o Forks(k)]
           /\ finished' = finished /\ log' = log
  <2>0. queue'[w] = q \o Forks(k)
    BY <1>2, <1>7
  <2>1. Elems(queue'[w]) = Elems(q) \cup Fresh
    BY <1>2, <1>9, <2>0, ElemsConcat
  <2>2. Held \subseteq Held' /\ Fresh \subseteq Held'
    BY <1>2, <1>5, <1>7, <2>1 DEF Held
  <2>. QED
    BY <1>2, <1>4, <1>7, <2>2, LostFrame DEF Undisturbed
<1>8. CASE log' = Append(log, [logged |-> NoCtx, failed |-> Head(q)])
  <2>1. log' # <<>>
    BY <1>2, <1>8, AppendProperties, EmptySeq
  <2>. QED
    BY <2>1 DEF Undisturbed
<1>. QED
  BY <1>1, <1>6, <1>7, <1>8

LEMMA LostStep ==
    RInv /\ NoContextLost /\ [Next]_vars => NoContextLost'
<1> SUFFICES ASSUME RInv, NoContextLost, [Next]_vars PROVE NoContextLost'
  OBVIOUS
<1>0. CASE ~Undisturbed'
  BY <1>0 DEF NoContextLost, Undisturbed
<1>. USE DEF RInv
<1>. SUFFICES ASSUME Undisturbed' PROVE NoContextLost'
  BY <1>0
<1>1. ASSUME NEW w \in Workers,
             Register(w) \/ Exit(w) \/ SpillDone(w)
      PROVE  NoContextLost'
  BY <1>1, LostFrame DEF Register, Exit, SpillDone, Held, Created, Undisturbed
<1>2. ASSUME NEW w \in Workers, NextContext(w) PROVE NoContextLost'
  <2>1. /\ store \in Seq(Ctx) /\ store # <<>> /\ NoDup(store)
        /\ queue \in [Workers -> Seq(Ctx)] /\ queue[w] = <<>>
        /\ store' = Tail(store)
        /\ queue' = [queue EXCEPT ![w] = <<Head(store)>>]
    BY <1>2 DEF NextContext, TypeInv, TypeOK, OwnInv, ContextOwnership, PopEmpty
  <2>2. Elems(store) = {Head(store)} \cup Elems(store')
    BY <2>1, ElemsTail
  <2>3. Elems(queue'[w]) = {Head(store)} /\ Elems(queue[w]) = {}
    BY <2>1, ElemsSingle DEF Elems
  <2>4. \A v \in Workers \ {w} : queue'[v] = queue[v]
    BY <2>1
  <2>5. Held \subseteq Held'
    BY <2>2, <2>3, <2>4 DEF Held
  <2>. QED
    BY <1>2, <2>5, LostFrame DEF NextContext, Created, Undisturbed
<1>3. ASSUME NEW w \in Workers, LoopTop(w) PROVE NoContextLost'
  <2>1. UNCHANGED <<store, shut, stop, nextCtx, finished, log>>
    BY <1>3 DEF LoopTop
  <2>2. CASE UNCHANGED queue
    BY <2>1, <2>2, LostFrame DEF Held, Created, Undisturbed
  <2>3. CASE HasStopFlag /\ stop
    \* the list is cleared only under a set should_stop, which stays set
    BY <2>1, <2>3 DEF Undisturbed
  <2>. QED
    BY <1>3, <2>2, <2>3 DEF LoopTop
<1>4. ASSUME NEW w \in Workers, Execute(w) PROVE NoContextLost'
  BY <1>4, ExecuteKeeps
<1>5. ASSUME NEW w \in Workers, Spill(w) PROVE NoContextLost'
  <2>. DEFINE q == queue[w]
              l == q[Len(q)]
  <2>1. /\ q \in Seq(Ctx) /\ q # <<>> /\ NoDup(q)
        /\ store \in Seq(Ctx)
        /\ queue \in [Workers -> Seq(Ctx)]
        /\ shut' = shut /\ ~shut
        /\ store' = Append(store, l)
        /\ queue' = [queue EXCEPT ![w] = AllButLast(q)]
    BY <1>5, EmptySeq DEF TypeInv, TypeOK, OwnInv, ContextOwnership, Spill,
                          Undisturbed
  <2>2. Elems(q) = Elems(queue'[w]) \cup {l}
    BY <2>1, ElemsAllButLast
  <2>3. l \in Ctx
    <3>1. Len(q) \in 1..Len(q)
      BY <2>1, EmptySeq
    <3>. QED
      BY <2>1, <3>1, ElementOfSeq
  <2>4. Elems(store') = Elems(store) \cup {l}
    BY <2>1, <2>3, ElemsAppend
  <2>5. Held \subseteq Held'
    <3>1. \A v \in Workers \ {w} : queue'[v] = queue[v]
      BY <2>1
    <3>. QED
      BY <2>2, <2>4, <3>1 DEF Held
  <2>. QED
    BY <1>5, <2>5, LostFrame DEF Spill, Created, Undisturbed
<1>6. CASE Interrupt
  <2>1. UNCHANGED <<store, queue, nextCtx, finished, log>>
    BY <1>6 DEF Interrupt, InterruptStop, InterruptShutdown, InterruptSolvers
  <2>2. (stop => stop') /\ (shut => shut')
    <3>1. CASE InterruptStop
      BY <3>1, Zenon DEF InterruptStop
    <3>2. CASE InterruptShutdown \/ InterruptSolvers
      BY <3>2 DEF InterruptShutdown, InterruptSolvers
    <3>. QED
      BY <1>6, <3>1, <3>2 DEF Interrupt
  <2>3. Undisturbed
    BY <2>1, <2>2 DEF Undisturbed
  <2>. QED
    BY <2>1, <2>3, LostFrame DEF Held, Created
<1>7. CASE Terminated \/ UNCHANGED vars
  BY <1>7, LostFrame DEF Terminated, vars, Held, Created, Undisturbed
<1>. QED
  BY <1>1, <1>2, <1>3, <1>4, <1>5, <1>6, <1>7 DEF Next, Worker

(* The store and the backing lists lose no context, for any number of     *)
(* workers and any bound: until interrupt begins and while no step-batch  *)
(* has thrown, every context created is pending, held or dead.  So the   *)
(* forks the executor_fork_lost run sees vanish are lost by the failure   *)
(* handler's break alone.                                                 *)
THEOREM ContextsKept == Spec => []NoContextLost
<1>1. Init => NoContextLost
  <2> SUFFICES ASSUME Init PROVE Created \subseteq Elems(store)
    BY DEF NoContextLost, Held
  <2>. QED
    BY ExecutorAssumption DEF Init, Created, Elems
<1>2. Init => RInv
  BY RInvInit
<1>. QED
  BY <1>1, <1>2, RInvStep, LostStep, PTL DEF Spec

-----------------------------------------------------------------------------
(* ExitOnlyWhenIdle is not inductive: that the lists are empty needs the  *)
(* stronger fact that, once a worker has returned before shutdown, the    *)
(* store is empty and every worker waits in next_context or has returned, *)
(* so that none can push a fork or take a context again.                  *)
Idle ==
    (~shut /\ \E w \in Workers : pc[w] = "done") =>
        /\ store = <<>>
        /\ \A v \in Workers : pc[v] \in {"pop", "done"}

LEMMA IdleStep == TypeInv /\ Idle /\ [Next]_vars => Idle'
<1> SUFFICES ASSUME TypeInv, Idle, [Next]_vars,
                    ~shut', NEW u \in Workers, pc'[u] = "done"
             PROVE  /\ store' = <<>>
                    /\ \A v \in Workers : pc'[v] \in {"pop", "done"}
  BY DEF Idle
<1>. USE DEF TypeInv, TypeOK
\* Steps that leave pc alone keep the premise, and then the conclusion.
<1>1. ASSUME UNCHANGED <<pc, store, shut>> PROVE Idle'
  BY <1>1 DEF Idle
<1>3. ASSUME NEW w \in Workers, Register(w) PROVE FALSE
  <2>1. pc[u] = "done"
    BY <1>3 DEF Register
  <2>. QED
    BY <1>3, <2>1 DEF Register, Idle
<1>4. ASSUME NEW w \in Workers, NextContext(w) PROVE FALSE
  <2>1. pc[u] = "done"
    BY <1>4 DEF NextContext
  <2>. QED
    BY <1>4, <2>1 DEF NextContext, Idle
<1>5. ASSUME NEW w \in Workers, Exit(w)
      PROVE  /\ store' = <<>>
             /\ \A v \in Workers : pc'[v] \in {"pop", "done"}
  BY <1>5 DEF Exit
<1>6. ASSUME NEW w \in Workers, LoopTop(w) PROVE FALSE
  <2>1. pc'[w] # "done"
    BY <1>6 DEF LoopTop
  <2>2. pc[u] = "done"
    BY <1>6, <2>1 DEF LoopTop
  <2>. QED
    BY <1>6, <2>2 DEF LoopTop, Idle
<1>7. ASSUME NEW w \in Workers, Execute(w) PROVE FALSE
  <2>1. pc'[w] # "done"
    BY <1>7 DEF Execute
  <2>2. pc[u] = "done"
    BY <1>7, <2>1 DEF Execute
  <2>. QED
    BY <1>7, <2>2 DEF Execute, Idle
<1>8. ASSUME NEW w \in Workers, Spill(w) PROVE FALSE
  <2>1. pc[u] = "done"
    BY <1>8 DEF Spill
  <2>. QED
    BY <1>8, <2>1 DEF Spill, Idle
<1>9. ASSUME NEW w \in Workers, SpillDone(w) PROVE FALSE
  <2>1. pc'[w] # "done"
    BY <1>9 DEF SpillDone
  <2>2. pc[u] = "done"
    BY <1>9, <2>1 DEF SpillDone
  <2>. QED
    BY <1>9, <2>2 DEF SpillDone, Idle
<1>10. CASE InterruptStop \/ InterruptSolvers \/ Terminated \/ UNCHANGED vars
  BY <1>10, <1>1 DEF InterruptStop, InterruptSolvers, Terminated, vars, Idle
<1>11. CASE InterruptShutdown
  BY <1>11 DEF InterruptShutdown
<1>. QED
  BY <1>3, <1>4, <1>5, <1>6, <1>7, <1>8, <1>9, <1>10, <1>11
     DEF Next, Worker, Interrupt

(* Spec section 5, the store's termination detection (line 21): on every *)
(* run, while the store is open, a worker has returned from run_worker    *)
(* only if no context is pending in the store or in any backing list.     *)
THEOREM ExitsIdle == Spec => []ExitOnlyWhenIdle
<1>1. Init => Idle
  BY DEF Init, Idle
<1>2. TypeInv /\ PopEmpty /\ Idle => ExitOnlyWhenIdle
  <2> SUFFICES ASSUME TypeInv, PopEmpty, Idle, ~shut,
                      NEW u \in Workers, pc[u] = "done"
               PROVE  Held = {}
    BY DEF ExitOnlyWhenIdle
  <2>1. store = <<>> /\ \A v \in Workers : queue[v] = <<>>
    BY DEF Idle, PopEmpty
  <2>. QED
    BY <2>1 DEF Held, Elems
<1>. QED
  BY <1>1, <1>2, RInvInit, RInvStep, IdleStep, PTL DEF Spec, RInv

====
