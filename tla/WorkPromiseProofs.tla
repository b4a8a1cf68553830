-------------------------- MODULE WorkPromiseProofs --------------------------
(***************************************************************************)
(* What follows from the promise alone, for any set of work: the daemon's  *)
(* tables implement the promise (ImplementsPromise), so it holds of them.  *)
(***************************************************************************)
EXTENDS WorkPromise, TLAPS

\* The phases in which a dispatch may still be unpaid.
Owing == {"dispatched", "parked", "done", "abandoned"}

PromiseTypeOK ==
    /\ phase \in [Work -> Phases]
    /\ dispatches \in [Work -> Nat]
    /\ decisions \in [Work -> Nat]

\* Work that waits or is held has paid for all its dispatches.
PromiseInv ==
    /\ PromiseTypeOK
    /\ \A w \in Work :
          /\ dispatches[w] <= decisions[w] + 1
          /\ phase[w] \notin Owing => dispatches[w] <= decisions[w]

\* One step of one piece of work keeps its account.
LEMMA AccountIsKept ==
    ASSUME NEW w \in Work, PromiseInv, Next
    PROVE  /\ dispatches'[w] <= decisions'[w] + 1
           /\ phase'[w] \notin Owing => dispatches'[w] <= decisions'[w]
<1>1. /\ dispatches[w] \in Nat /\ decisions[w] \in Nat
      /\ dispatches[w] <= decisions[w] + 1
      /\ phase[w] \notin Owing => dispatches[w] <= decisions[w]
  BY DEF PromiseInv, PromiseTypeOK
<1>2. Move(w) \/ Dispatch(w) \/ Decide(w)
  BY DEF Next
<1>3. CASE Move(w)
  <2>1. phase[w] \in Owing => phase'[w] \in Owing
    BY <1>3 DEF Move, Moves, Owing
  <2>2. QED
    BY <1>1, <1>3, <2>1 DEF Move
<1>4. CASE Dispatch(w)
  BY <1>1, <1>4 DEF Dispatch, Owing
<1>5. CASE Decide(w)
  BY <1>1, <1>5 DEF Decide, Owing
<1>6. QED
  BY <1>2, <1>3, <1>4, <1>5

\* Every dispatch of a piece of work but its first was paid for by a decision of an
\* operator (resolve_delivery_block), over its whole life and for any set of work.
THEOREM PromiseKeepsAccount == Spec => []DispatchesArePaidFor
<1>1. Init => PromiseInv
  BY DEF Init, PromiseInv, PromiseTypeOK, Phases, Owing
<1>2. PromiseInv /\ [Next]_promiseVars => PromiseInv'
  <2>1. SUFFICES ASSUME PromiseInv, [Next]_promiseVars
                 PROVE  PromiseInv'
    OBVIOUS
  <2>2. CASE UNCHANGED promiseVars
    BY <2>1, <2>2 DEF promiseVars, PromiseInv, PromiseTypeOK
  <2>3. CASE Next
    <3>1. PromiseTypeOK'
      BY <2>3 DEF Next, PromiseTypeOK
    <3>2. ASSUME NEW w \in Work
          PROVE  /\ dispatches'[w] <= decisions'[w] + 1
                 /\ phase'[w] \notin Owing => dispatches'[w] <= decisions'[w]
      BY <2>1, <2>3, AccountIsKept
    <3>3. QED
      BY <3>1, <3>2 DEF PromiseInv
  <2>4. QED
    BY <2>1, <2>2, <2>3
<1>3. PromiseInv => DispatchesArePaidFor
  BY DEF PromiseInv, DispatchesArePaidFor
<1>4. QED
  BY <1>1, <1>2, <1>3, PTL DEF Spec
=============================================================================
