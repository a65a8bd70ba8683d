---------------------------- MODULE TaskExecutor ----------------------------
(***************************************************************************)
(* What dpool::ThreadPool promises to the code that submits to it, with    *)
(* neither threads nor mutex: tasks start in the order they were           *)
(* submitted, each one exactly once, at most Capacity of them run at a     *)
(* time, and the executor shuts down only when every task has run.         *)
(***************************************************************************)
EXTENDS Naturals, Sequences, FiniteSets

CONSTANTS
  Capacity,     \* how many tasks may run at the same time (maxThreads_)
  MaxTasks      \* bound on the number of submitted tasks

VARIABLES
  submitted,    \* number of tasks submitted so far; task n is the n-th one
  queue,        \* tasks that have not started, oldest first
  active,       \* tasks that are running
  completed,    \* tasks whose future is ready
  phase         \* "open", "closing" or "closed"

execVars == <<submitted, queue, active, completed, phase>>

Init ==
  /\ submitted = 0
  /\ queue = <<>>
  /\ active = {}
  /\ completed = {}
  /\ phase = "open"

Submit ==
  /\ phase = "open"
  /\ submitted < MaxTasks
  /\ submitted' = submitted + 1
  /\ queue' = Append(queue, submitted + 1)
  /\ UNCHANGED <<active, completed, phase>>

Start ==
  /\ queue # <<>>
  /\ Cardinality(active) < Capacity
  /\ active' = active \union {Head(queue)}
  /\ queue' = Tail(queue)
  /\ UNCHANGED <<submitted, completed, phase>>

Finish(k) ==
  /\ k \in active
  /\ active' = active \ {k}
  /\ completed' = completed \union {k}
  /\ UNCHANGED <<submitted, queue, phase>>

Close ==
  /\ phase = "open"
  /\ phase' = "closing"
  /\ UNCHANGED <<submitted, queue, active, completed>>

Closed ==
  /\ phase = "closing"
  /\ queue = <<>>
  /\ active = {}
  /\ phase' = "closed"
  /\ UNCHANGED <<submitted, queue, active, completed>>

Next ==
  \/ Submit
  \/ Start
  \/ \E k \in 1..MaxTasks : Finish(k)
  \/ Close
  \/ Closed

Spec == Init /\ [][Next]_execVars
=============================================================================
