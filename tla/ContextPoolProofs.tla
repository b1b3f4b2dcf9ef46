-------------------------- MODULE ContextPoolProofs --------------------------
(***************************************************************************)
(* The context pool keeps every context in one place, for every set of     *)
(* workers and identifiers.  Exclusive is inductive by itself once the     *)
(* hands are known to be a function on the workers: a fresh fork is in no  *)
(* place because everything in a place has been born.                      *)
(***************************************************************************)
EXTENDS ContextPool, TLAPS

PInv == PoolTypeOK /\ Exclusive

LEMMA PInvInit == Init => PInv
BY DEF Init, PInv, PoolTypeOK, Exclusive

LEMMA PInvNext == PInv /\ [Next]_poolvars => PInv'
<1> SUFFICES ASSUME PInv, [Next]_poolvars PROVE PInv'
  OBVIOUS
<1>1. ASSUME NEW w \in Workers, NEW c \in Contexts, Take(w, c) PROVE PInv'
  BY <1>1 DEF Take, PInv, PoolTypeOK, Exclusive
<1>2. ASSUME NEW w \in Workers, NEW c \in Contexts, Yield(w, c) PROVE PInv'
  BY <1>2 DEF Yield, PInv, PoolTypeOK, Exclusive
<1>3. ASSUME NEW w \in Workers, NEW c \in Contexts, NEW F \in SUBSET Contexts,
             NEW dies \in BOOLEAN, Run(w, c, F, dies)
      PROVE PInv'
  BY <1>3 DEF Run, PInv, PoolTypeOK, Exclusive
<1>4. ASSUME NEW w \in Workers, NEW F \in SUBSET Contexts, Abandon(w, F) PROVE PInv'
  BY <1>4 DEF Abandon, PInv, PoolTypeOK, Exclusive
<1>5. CASE Close
  BY <1>5 DEF Close, PInv, PoolTypeOK, Exclusive
<1>6. CASE UNCHANGED poolvars
  BY <1>6 DEF poolvars, PInv, PoolTypeOK, Exclusive
<1>7. CASE \E w \in Workers :
             \/ \E c \in Contexts : Take(w, c) \/ Yield(w, c)
             \/ \E c \in Contexts, F \in SUBSET Contexts, dies \in BOOLEAN : Run(w, c, F, dies)
             \/ \E F \in SUBSET Contexts : Abandon(w, F)
  <2>1. PICK w \in Workers :
             \/ \E c \in Contexts : Take(w, c) \/ Yield(w, c)
             \/ \E c \in Contexts, F \in SUBSET Contexts, dies \in BOOLEAN : Run(w, c, F, dies)
             \/ \E F \in SUBSET Contexts : Abandon(w, F)
    BY <1>7
  <2>2. CASE \E c \in Contexts : Take(w, c) \/ Yield(w, c)
    BY <2>2, <1>1, <1>2
  <2>3. CASE \E c \in Contexts, F \in SUBSET Contexts, dies \in BOOLEAN : Run(w, c, F, dies)
    BY <2>3, <1>3
  <2>4. CASE \E F \in SUBSET Contexts : Abandon(w, F)
    BY <2>4, <1>4
  <2> QED
    BY <2>1, <2>2, <2>3, <2>4
<1> QED
  BY <1>5, <1>6, <1>7 DEF Next

\* Whatever the workers do, no context is ever in two places at once, nor
\* pending or held after it has ended (the move-only contexts of the store
\* and the thread queues, Executor.cpp's NextContext and the spill loop).
THEOREM PoolExclusive == Spec => []Exclusive
<1>1. PInv => Exclusive
  BY DEF PInv
<1> QED
  BY PInvInit, PInvNext, <1>1, PTL DEF Spec
====
