---------------------------- MODULE EvidencePages ----------------------------
(***************************************************************************)
(* The two evidence listings an operator archives (crates/execution/src/   *)
(* operations.rs, served by crates/http/src/operations.rs): plugin         *)
(* generations ordered by last_heartbeat_at_ms and invocation observations *)
(* ordered by updated_at_ms, each read a page at a time after a            *)
(* (clock, id) cursor while workers keep writing.                          *)
(*                                                                         *)
(* A generation's own writes bind the time before the statement waits for  *)
(* the database's write lock; the writes of an observation read the time   *)
(* inside their transaction.                                               *)
(***************************************************************************)
EXTENDS Integers, FiniteSets

CONSTANTS
    Generations, Observations,   \* ids, ordered as the database orders them
    MaxTime,                     \* bound: the clock, in milliseconds
    MaxEvents,                   \* bound: events folded into one observation
    PageLimit                    \* the page size the collector asks for

VARIABLES
    clock,     \* now_ms
    row,       \* plugin_generations and invocation_observations
    bound,     \* the write of each generation that waits for the lock
    cursor,    \* the collector's position in each listing
    archive    \* the rows it has copied

vars == <<clock, row, bound, cursor, archive>>

Rows == Generations \cup Observations
Tables == {Generations, Observations}
NoWrite == [kind |-> "none", at |-> 0]

Init ==
    /\ clock = 0
    /\ row = [r \in Rows |-> [state |-> "absent", changed |-> 0, events |-> 0, gen |-> 0]]
    /\ bound = [g \in Generations |-> NoWrite]
    /\ cursor = [t \in Tables |-> <<-1, 0>>]
    /\ archive = {}

Tick ==
    /\ clock < MaxTime
    /\ clock' = clock + 1
    /\ UNCHANGED <<row, bound, cursor, archive>>

-----------------------------------------------------------------------------
(* A worker's writes.  It records a generation, beats while the generation   *)
(* runs, and retires it after its heartbeat task has ended.                  *)

\* now_ms() is bound to the statement, which then waits for the write lock.
BindWrite(g) ==
    /\ bound[g] = NoWrite
    /\ \E kind \in IF row[g].state = "absent" THEN {"record"}
                   ELSE IF row[g].state = "active" THEN {"heartbeat", "stop"} ELSE {} :
          bound' = [bound EXCEPT ![g] = [kind |-> kind, at |-> clock]]
    /\ UNCHANGED <<clock, row, cursor, archive>>

\* record_plugin_generation, heartbeat_plugin_generation, stop_plugin_generation:
\* the last two write an active row only.
CommitWrite(g) ==
    /\ bound[g] # NoWrite
    /\ bound[g].kind = "record" \/ row[g].state = "active"
    /\ row' = [row EXCEPT ![g].changed = bound[g].at,
                          ![g].state = IF bound[g].kind = "stop" THEN "settled" ELSE "active"]
    /\ bound' = [bound EXCEPT ![g] = NoWrite]
    /\ UNCHANGED <<clock, cursor, archive>>

\* begin_invocation_observation: only under an active generation, with the time
\* arm_session_invocation read before its transaction.
BeginObservation(o, g) ==
    /\ row[o].state = "absent" /\ row[g].state = "active"
    /\ \E at \in 0 .. clock :
          row' = [row EXCEPT ![o] = [@ EXCEPT !.state = "active", !.changed = at, !.gen = g]]
    /\ UNCHANGED <<clock, bound, cursor, archive>>

\* A write of an observation advances its generation's clock with it.
Touch(o, new) ==
    LET g == row[o].gen
        r == [row EXCEPT ![o] = new]
    IN  IF row[g].state = "active" THEN [r EXCEPT ![g].changed = clock] ELSE r

RecordEvent(o) ==
    /\ row[o].state = "active" /\ row[row[o].gen].state = "active"
    /\ row[o].events < MaxEvents
    /\ row' = Touch(o, [row[o] EXCEPT !.changed = clock, !.events = @ + 1])
    /\ UNCHANGED <<clock, bound, cursor, archive>>

RecordTerminal(o) ==
    /\ row[o].state = "active"
    /\ row' = Touch(o, [row[o] EXCEPT !.changed = clock, !.state = "settled"])
    /\ UNCHANGED <<clock, bound, cursor, archive>>

-----------------------------------------------------------------------------
(* The collector: order=oldest, settled=true, from its last row. *)

Position(r) == <<row[r].changed, r>>
After(p, q) == p[1] > q[1] \/ (p[1] = q[1] /\ p[2] > q[2])

Settled(t) == {r \in t : row[r].state = "settled"}

\* evidence_sql: the rows after the cursor, in order, up to the limit.
Page(t) ==
    LET ahead == {r \in Settled(t) : After(Position(r), cursor[t])}
    IN  {r \in ahead :
           Cardinality({s \in ahead : After(Position(r), Position(s))}) < PageLimit}

ReadPage(t) ==
    /\ Page(t) # {}
    /\ archive' = archive \cup Page(t)
    /\ cursor' = [cursor EXCEPT ![t] =
          Position(CHOOSE r \in Page(t) :
              \A s \in Page(t) \ {r} : After(Position(r), Position(s)))]
    /\ UNCHANGED <<clock, row, bound>>

Next ==
    \/ Tick
    \/ \E g \in Generations : BindWrite(g) \/ CommitWrite(g)
    \/ \E o \in Observations :
          \/ \E g \in Generations : BeginObservation(o, g)
          \/ RecordEvent(o) \/ RecordTerminal(o)
    \/ \E t \in Tables : ReadPage(t)

Spec == Init /\ [][Next]_vars

\* A collector that walks the settled rows from the oldest copies every one of them:
\* no settled row is behind its cursor and not in its archive (docs/OPERATIONS.md,
\* "Archiving evidence").  A row that settles in the millisecond of the last row read
\* with a smaller id, or whose time was read before its statement got the write lock,
\* takes its place behind the cursor.
CollectorLosesNothing ==
    \A t \in Tables : \A r \in Settled(t) \ archive : After(Position(r), cursor[t])
==============================================================================
