------------------------------ MODULE TaskPool ------------------------------
(***************************************************************************)
(* What the thread pool promises to the accept loop, with no thread, lock  *)
(* or condition variable in sight: tasks handed over one at a time are     *)
(* started in the order they were handed over, at most Capacity of them    *)
(* run at once, each runs once, and the pool stops only after everything   *)
(* it accepted has finished.  ThreadPool implements this specification.    *)
(***************************************************************************)
EXTENDS Naturals, Sequences, FiniteSets

CONSTANTS Tasks,      \* the closures the accept loop may hand over
          Capacity    \* how many of them may run at once

VARIABLES pending,    \* accepted and not started, oldest first
          active,     \* started and not finished
          done,       \* finished
          phase       \* "open", then "closing", then "stopped"

vars == <<pending, active, done, phase>>

Accepted == {pending[i] : i \in DOMAIN pending} \cup active \cup done

Init == /\ pending = <<>>
        /\ active = {}
        /\ done = {}
        /\ phase = "open"

Accept(t) == /\ phase = "open"
             /\ t \notin Accepted
             /\ pending' = Append(pending, t)
             /\ UNCHANGED <<active, done, phase>>

Start == /\ pending # <<>>
         /\ Cardinality(active) < Capacity
         /\ active' = active \cup {Head(pending)}
         /\ pending' = Tail(pending)
         /\ UNCHANGED <<done, phase>>

Finish(t) == /\ t \in active
             /\ active' = active \ {t}
             /\ done' = done \cup {t}
             /\ UNCHANGED <<pending, phase>>

Close == /\ phase = "open"
         /\ phase' = "closing"
         /\ UNCHANGED <<pending, active, done>>

Stop == /\ phase = "closing"
        /\ pending = <<>>
        /\ active = {}
        /\ phase' = "stopped"
        /\ UNCHANGED <<pending, active, done>>

Next == \/ \E t \in Tasks : Accept(t) \/ Finish(t)
        \/ Start
        \/ Close
        \/ Stop

Spec == Init /\ [][Next]_vars
=============================================================================
