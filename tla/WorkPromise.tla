----------------------------- MODULE WorkPromise -----------------------------
(***************************************************************************)
(* What the daemon promises about one piece of work, without leases,       *)
(* clocks, attempts, invocations or sessions: work waits, is held by       *)
(* somebody, is dispatched at most once, and then either settles or is     *)
(* parked until an operator decides.  docs/adr/0008 and 0010.              *)
(*                                                                         *)
(* A transaction may move several pieces of work at once (a batch, or the  *)
(* recovery in front of it), so a step is a move or a stutter of each.     *)
(***************************************************************************)
EXTENDS Naturals

CONSTANT Work

VARIABLES
    phase,       \* where the work is
    dispatches,  \* how often its effect was authorised
    decisions    \* how often an operator requeued it

promiseVars == <<phase, dispatches, decisions>>

Phases == {"absent", "waiting", "held", "dispatched", "parked", "done", "abandoned"}

Init ==
    /\ phase = [w \in Work |-> "absent"]
    /\ dispatches = [w \in Work |-> 0]
    /\ decisions = [w \in Work |-> 0]

Dispatch(w) ==
    /\ phase[w] = "held" /\ phase'[w] = "dispatched"
    /\ dispatches'[w] = dispatches[w] + 1
    /\ decisions'[w] = decisions[w]

Decide(w) ==
    /\ phase[w] = "parked" /\ phase'[w] = "waiting"
    /\ dispatches'[w] = dispatches[w]
    /\ decisions'[w] = decisions[w] + 1

\* The moves that neither authorise an effect nor take a decision to repeat it.
Moves ==
    {<<"absent", "waiting">>, <<"waiting", "held">>,
     <<"held", "waiting">>, <<"held", "done">>, <<"held", "parked">>,
     <<"dispatched", "done">>, <<"dispatched", "parked">>,
     <<"parked", "abandoned">>}

Move(w) ==
    /\ phase'[w] = phase[w] \/ <<phase[w], phase'[w]>> \in Moves
    /\ dispatches'[w] = dispatches[w]
    /\ decisions'[w] = decisions[w]

Next ==
    /\ phase' \in [Work -> Phases]
    /\ dispatches' \in [Work -> Nat]
    /\ decisions' \in [Work -> Nat]
    /\ \A w \in Work : Move(w) \/ Dispatch(w) \/ Decide(w)

Spec == Init /\ [][Next]_promiseVars

\* Every dispatch but the first is paid for by an operator's decision.
DispatchesArePaidFor == \A w \in Work : dispatches[w] <= decisions[w] + 1
====
