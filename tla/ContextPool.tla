----------------------------- MODULE ContextPool -----------------------------
(***************************************************************************)
(* What the executor promises about execution contexts (spec sections 4.4 *)
(* and 5), without the order of the store's queue, the threads' program   *)
(* counters, the solvers or the failure log.  Contexts are move-only      *)
(* units of work: each is pending in the store, held by one worker, dead, *)
(* or gone.  A worker takes a pending context only while the store is     *)
(* open and only with nothing in hand, runs one it holds (which may end   *)
(* it and may fork fresh contexts to it), gives one back (dropped once    *)
(* the store is closed), or abandons all it holds, with the contexts the  *)
(* failing step forked.                                                   *)
(***************************************************************************)
EXTENDS Naturals

CONSTANTS
    Workers,   \* the worker threads
    Contexts,  \* the identifiers a context can have
    Initial    \* the contexts pending at the start

VARIABLES
    pending,   \* the contexts in the store
    held,      \* the contexts each worker holds
    dead,      \* the contexts that have ended
    born,      \* the contexts that exist or have existed
    closed     \* whether the store has been shut down

poolvars == <<pending, held, dead, born, closed>>

Init ==
    /\ pending = Initial
    /\ held = [w \in Workers |-> {}]
    /\ dead = {}
    /\ born = Initial
    /\ closed = FALSE

Take(w, c) ==
    /\ ~closed
    /\ c \in pending
    /\ held[w] = {}
    /\ pending' = pending \ {c}
    /\ held' = [held EXCEPT ![w] = {c}]
    /\ UNCHANGED <<dead, born, closed>>

\* Running c forks the fresh contexts F to the same worker; if c dies it is
\* no longer held.
Run(w, c, F, dies) ==
    /\ c \in held[w]
    /\ F \cap born = {}
    /\ born' = born \cup F
    /\ held' = [held EXCEPT ![w] = (held[w] \ (IF dies THEN {c} ELSE {})) \cup F]
    /\ dead' = IF dies THEN dead \cup {c} ELSE dead
    /\ UNCHANGED <<pending, closed>>

Yield(w, c) ==
    /\ c \in held[w]
    /\ held' = [held EXCEPT ![w] = held[w] \ {c}]
    /\ pending' = IF closed THEN pending ELSE pending \cup {c}
    /\ UNCHANGED <<dead, born, closed>>

\* Abandoning what a worker holds; the step that fails may have created
\* the fresh contexts F first, which are lost with the rest.
Abandon(w, F) ==
    /\ held[w] # {}
    /\ F \cap born = {}
    /\ born' = born \cup F
    /\ held' = [held EXCEPT ![w] = {}]
    /\ UNCHANGED <<pending, dead, closed>>

Close ==
    /\ closed' = TRUE
    /\ UNCHANGED <<pending, held, dead, born>>

Next ==
    \/ \E w \in Workers :
         \/ \E c \in Contexts : Take(w, c) \/ Yield(w, c)
         \/ \E c \in Contexts, F \in SUBSET Contexts, dies \in BOOLEAN : Run(w, c, F, dies)
         \/ \E F \in SUBSET Contexts : Abandon(w, F)
    \/ Close

Spec == Init /\ [][Next]_poolvars

-----------------------------------------------------------------------------
(* A context is in one place at a time: no context is both pending and    *)
(* held, or held by two workers; a dead context is neither pending nor    *)
(* held; and everything pending or held has been created.                 *)
Exclusive ==
    /\ \A w \in Workers : held[w] \cap pending = {}
    /\ \A v, w \in Workers : v # w => held[v] \cap held[w] = {}
    /\ \A w \in Workers : held[w] \cap dead = {}
    /\ pending \cap dead = {}
    /\ dead \subseteq born
    /\ pending \subseteq born
    /\ \A w \in Workers : held[w] \subseteq born

\* Each worker's hand is a set of contexts.
PoolTypeOK == held \in [Workers -> SUBSET Contexts]

=============================================================================
