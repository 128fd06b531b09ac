----------------------------- MODULE RoundRobin -----------------------------
(***************************************************************************)
(* What the scheduler promises, without lists of pointers, stacks or page  *)
(* directories: admitted tasks stand in a queue in the order of admission, *)
(* the CPU goes round that queue, an exited task never gets the CPU again  *)
(* and leaves the queue only when it is off the CPU.                       *)
(***************************************************************************)
EXTENDS Naturals, SequencesExt

CONSTANTS Task, Idle, NULL

VARIABLES
  queue,   \* the admitted tasks that have not been removed, oldest first
  status,  \* what each task is allowed to do
  cpu      \* the task on the CPU, Idle, or NULL during boot

vars == <<queue, status, cpu>>

Status == {"out", "new", "ready", "blocked", "exited"}

Init ==
  /\ queue = <<>>
  /\ status = [t \in Task |-> "out"]
  /\ cpu = NULL

(* The first ready task of queue q behind the one on the CPU, or else from *)
(* the head of the queue on.                                               *)
Pick(q, st) ==
  LET ready == {i \in DOMAIN q : st[q[i]] = "ready"}
      behind == {i \in ready : \E k \in DOMAIN q : k < i /\ q[k] = cpu}
  IN  IF ready = {} THEN Idle ELSE q[Min(IF behind = {} THEN ready ELSE behind)]

(* An exited task that is off the CPU may leave the queue; NULL: nobody.   *)
Leaving == {t \in Task : status[t] = "exited" /\ t # cpu} \cup {NULL}

Without(t) ==
  IF t = NULL THEN queue
  ELSE RemoveAt(queue, CHOOSE i \in DOMAIN queue : queue[i] = t)

Gone(st, t) == [u \in Task |-> IF u = t THEN "out" ELSE st[u]]

----------------------------------------------------------------------------
(* The first task admitted takes the CPU at once and is started later.     *)
Admit(t) ==
  /\ status[t] = "out"
  /\ queue' = Append(queue, t)
  /\ status' = [status EXCEPT ![t] = IF cpu = NULL THEN "new" ELSE "ready"]
  /\ cpu' = IF cpu = NULL THEN t ELSE cpu

Start ==
  /\ cpu \in Task
  /\ status[cpu] \in {"new", "ready"}
  /\ status' = [status EXCEPT ![cpu] = "ready"]
  /\ UNCHANGED <<queue, cpu>>

(* The task on the CPU is preempted.                                       *)
Rotate ==
  /\ cpu # NULL
  /\ \E t \in Leaving :
       /\ queue' = Without(t)
       /\ cpu' = Pick(queue', status)
       /\ status' = Gone(IF cpu' # cpu /\ cpu \in Task
                         THEN [status EXCEPT ![cpu] = "ready"] ELSE status, t)

(* The task on the CPU gives it up.                                        *)
Block ==
  /\ cpu \in Task
  /\ LET st == [status EXCEPT ![cpu] = "blocked"]
     IN  \E t \in Leaving :
           /\ queue' = Without(t)
           /\ cpu' = Pick(queue, st)
           /\ status' = Gone(st, t)

Suspend(t) ==
  /\ t # cpu
  /\ status[t] = "ready"
  /\ status' = [status EXCEPT ![t] = "blocked"]
  /\ UNCHANGED <<queue, cpu>>

Wake(t) ==
  /\ status[t] = "blocked"
  /\ status' = [status EXCEPT ![t] = "ready"]
  /\ UNCHANGED <<queue, cpu>>

Exit ==
  /\ cpu \in Task
  /\ LET st == [status EXCEPT ![cpu] = "exited"]
     IN  /\ cpu' = Pick(queue, st)
         /\ status' = st
  /\ UNCHANGED queue

Next ==
  \/ \E t \in Task : Admit(t) \/ Suspend(t) \/ Wake(t)
  \/ Start \/ Rotate \/ Block \/ Exit

Steps == Init /\ [][Next]_vars

(* Some other task's turn comes as long as there is one.                   *)
Spec == Steps /\ WF_vars(Rotate /\ cpu' # cpu)
=============================================================================
