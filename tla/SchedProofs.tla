---------------------------- MODULE SchedProofs ----------------------------
(***************************************************************************)
(* Proofs that the safety invariants of Sched hold, and that its steps are *)
(* those of RoundRobin, for every set of tasks, tick interval and range of *)
(* the tick counter.                                                       *)
(***************************************************************************)
EXTENDS Sched, Integers, Sequences, FiniteSetTheorems, SequenceTheorems,
        WellFoundedInduction, TLAPS

USE DEF TASK_NEW, TASK_READY, TASK_RUNNING, TASK_BLOCKED, TASK_ZOMBIE

(* The pointers, stacks and page directories are different things.         *)
LEMMA Distinct ==
  /\ Idle \notin Task /\ Boot \notin Task /\ NULL \notin Task
  /\ Idle # Boot /\ Idle # NULL /\ Boot # NULL
  /\ Idle \in AllTask /\ NULL \notin AllTask /\ Boot \notin AllTask
  /\ \A t \in Task : t \in AllTask
  /\ \A t \in AllTask : t = Idle \/ t \in Task
BY SchedAssumption DEF AllTask, Stack

ListType ==
  /\ task_ptr \in AllTask \cup {NULL}
  /\ next \in [AllTask -> AllTask \cup {NULL}]
  /\ prev \in [AllTask -> AllTask \cup {NULL}]

(* The list once init_idle_task has run.                                   *)
ListInv == ListType /\ Linked(Idle) /\ DoublyLinked /\ OneRing

LinkedTasks == {t \in Task : Linked(t)}

(* The number of enqueued tasks, which OneRing counts, is a natural.       *)
LEMMA LinkedTasksFinite ==
  IsFiniteSet(LinkedTasks) /\ Cardinality(LinkedTasks) \in Nat
<1>1. LinkedTasks \subseteq Task
  BY DEF LinkedTasks
<1>2. IsFiniteSet(LinkedTasks)
  BY <1>1, SchedAssumption, FS_Subset
<1> QED
  BY <1>2, FS_CardinalityType

(* enqueue_task on a task that is in no list keeps the list a doubly       *)
(* linked ring and adds exactly that task.                                 *)
LEMMA LinkKeepsList ==
  ASSUME NEW t \in Task, ListInv, ~Linked(t), Link(t)
  PROVE  ListInv' /\ \A u \in AllTask : Linked(u)' <=> (Linked(u) \/ u = t)
<1> PICK n \in Nat : n = Cardinality(LinkedTasks)
  BY LinkedTasksFinite
<1>a. Idle \notin Task /\ NULL \notin AllTask /\ t \in AllTask /\ Idle \in AllTask
      /\ t # Idle /\ t # NULL /\ Idle # NULL
  BY SchedAssumption DEF AllTask, Stack
<1>b. /\ task_ptr \in AllTask /\ task_ptr # NULL /\ task_ptr # t
      /\ next[task_ptr] = Idle /\ task_ptr = prev[Idle]
  BY <1>a DEF ListInv, DoublyLinked, Linked
<1>c. /\ next' = [next EXCEPT ![t] = Idle, ![task_ptr] = t]
      /\ prev' = [prev EXCEPT ![t] = task_ptr, ![Idle] = t]
      /\ task_ptr' = t
  BY <1>b DEF Link
<1>1. ListType'
  BY <1>a, <1>b, <1>c DEF ListInv, ListType
<1>2. \A u \in AllTask : Linked(u)' <=> (Linked(u) \/ u = t)
  BY <1>a, <1>b, <1>c DEF ListInv, ListType, Linked
<1>3. Linked(Idle)'
  BY <1>2, <1>a DEF ListInv
<1>4. DoublyLinked'
  BY <1>a, <1>b, <1>c DEF ListInv, ListType, Linked, DoublyLinked
<1>5. OneRing'
  <2>1. PICK q \in [0..n -> AllTask] : IsRing(next, n, q)
    BY <1>b DEF ListInv, OneRing, LinkedTasks
  <2>3. LinkedTasks' = LinkedTasks \cup {t}
    BY <1>2, <1>a DEF LinkedTasks, AllTask
  <2>4. Cardinality(LinkedTasks') = n + 1
    <3>1. t \notin LinkedTasks
      BY DEF LinkedTasks
    <3> QED
      BY <3>1, <2>3, LinkedTasksFinite, FS_AddElement
  <2> DEFINE r == [i \in 0..(n + 1) |-> IF i = n + 1 THEN t ELSE q[i]]
  <2>5. r \in [0..(n + 1) -> AllTask]
    BY <2>1, <1>a
  <2>6. q[n] = task_ptr
    <3>1. q[n] \in AllTask /\ next[q[n]] = Idle /\ Linked(q[n])
      BY <2>1 DEF IsRing, Linked
    <3> QED
      BY <3>1 DEF ListInv, DoublyLinked
  <2>7. \A i \in 0..n : q[i] # t
    BY <2>1 DEF IsRing, Linked
  <2>8. IsRing(next', n + 1, r)
    <3>1. r[0] = Idle
      BY <2>1 DEF IsRing
    <3>2. \A i \in 0..n : next'[r[i]] = r[i + 1]
      <4> SUFFICES ASSUME NEW i \in 0..n PROVE next'[r[i]] = r[i + 1]
        OBVIOUS
      <4>1. CASE i = n
        BY <4>1, <2>6, <2>7, <1>a, <1>b, <1>c DEF ListInv, ListType
      <4>2. CASE i # n
        <5>1. i \in 0..(n - 1) /\ i + 1 \in 0..n /\ q[i] \in AllTask
          BY <4>2, <2>1
        <5>2. q[i] # task_ptr /\ q[i] # t /\ next[q[i]] = q[i + 1]
          BY <5>1, <4>2, <2>1, <2>6, <2>7 DEF IsRing
        <5> QED
          BY <5>1, <5>2, <1>c DEF ListInv, ListType
      <4> QED
        BY <4>1, <4>2
    <3>3. next'[r[n + 1]] = Idle
      BY <1>a, <1>b, <1>c DEF ListInv, ListType
    <3>4. \A i, j \in 0..(n + 1) : r[i] = r[j] => i = j
      BY <2>1, <2>7 DEF IsRing
    <3>5. \A u \in AllTask : next'[u] # NULL <=> \E i \in 0..(n + 1) : r[i] = u
      <4> SUFFICES ASSUME NEW u \in AllTask
                   PROVE  next'[u] # NULL <=> \E i \in 0..(n + 1) : r[i] = u
        OBVIOUS
      <4>1. next[u] # NULL <=> \E i \in 0..n : q[i] = u
        BY <2>1 DEF IsRing
      <4>2. (\E i \in 0..(n + 1) : r[i] = u) <=> (u = t \/ \E i \in 0..n : q[i] = u)
        OBVIOUS
      <4> QED
        BY <4>1, <4>2, <1>2 DEF Linked
    <3>6. (n + 1) - 1 = n
      OBVIOUS
    <3> QED
      BY <3>1, <3>2, <3>3, <3>4, <3>5, <3>6, Zenon DEF IsRing
  <2> QED
    BY <2>4, <2>5, <2>8 DEF OneRing, LinkedTasks
<1> QED
  BY <1>1, <1>2, <1>3, <1>4, <1>5 DEF ListInv

(* dequeue_task on an enqueued task other than the idle task keeps the     *)
(* list a doubly linked ring and removes exactly that task.                *)
LEMMA UnlinkKeepsList ==
  ASSUME NEW t \in Task, ListInv, Linked(t), Unlink(t)
  PROVE  ListInv' /\ \A u \in AllTask : Linked(u)' <=> (Linked(u) /\ u # t)
<1> PICK n \in Nat : n = Cardinality(LinkedTasks)
  BY LinkedTasksFinite
<1> DEFINE x == next[t]
           y == prev[t]
<1>a. Idle \notin Task /\ NULL \notin AllTask /\ t \in AllTask /\ Idle \in AllTask
      /\ t # Idle /\ t # NULL /\ Idle # NULL
  BY SchedAssumption DEF AllTask, Stack
<1>q. PICK q \in [0..n -> AllTask] : IsRing(next, n, q)
  <2>1. task_ptr # NULL
    BY <1>a DEF ListInv, DoublyLinked, Linked
  <2> QED
    BY <2>1 DEF ListInv, OneRing, LinkedTasks
<1>k. PICK k \in 0..n : q[k] = t
  BY <1>q, <1>a DEF IsRing, Linked
<1>m. k # 0
  BY <1>q, <1>k, <1>a DEF IsRing
<1>b. /\ x \in AllTask /\ y \in AllTask /\ prev[x] = t /\ next[y] = t
      /\ Linked(x) /\ Linked(y)
  BY <1>a DEF ListInv, DoublyLinked
<1>c. x # t
  <2>1. CASE k = n
    BY <2>1, <1>q, <1>k, <1>a DEF IsRing
  <2>2. CASE k # n
    <3>1. k \in 0..(n - 1) /\ k + 1 \in 0..n /\ k + 1 # k
      BY <2>2
    <3> QED
      BY <3>1, <1>q, <1>k DEF IsRing
  <2> QED
    BY <2>1, <2>2
<1>d. y # t
  BY <1>b, <1>c
<1>e. /\ next' = [next EXCEPT ![y] = x, ![t] = NULL]
      /\ prev' = [prev EXCEPT ![x] = y, ![t] = NULL]
      /\ task_ptr' = IF task_ptr = t THEN y ELSE task_ptr
  BY <1>c DEF Unlink
<1> HIDE DEF x, y
<1>f. /\ task_ptr \in AllTask /\ task_ptr = prev[Idle] /\ next[task_ptr] = Idle
      /\ next[t] = x /\ prev[t] = y
      /\ next \in [AllTask -> AllTask \cup {NULL}]
      /\ prev \in [AllTask -> AllTask \cup {NULL}]
  BY <1>a DEF ListInv, ListType, DoublyLinked, x, y
<1>1. ListType'
  BY <1>a, <1>b, <1>e, <1>f DEF ListType
<1>2. \A u \in AllTask : Linked(u)' <=> (Linked(u) /\ u # t)
  BY <1>a, <1>b, <1>d, <1>e, <1>f DEF Linked
<1>3. Linked(Idle)'
  BY <1>2, <1>a DEF ListInv
<1>4. DoublyLinked'
  <2>1. \A u \in AllTask : next[u] = t => u = y
    BY <1>a, <1>f DEF ListInv, DoublyLinked, Linked
  <2>2. \A u \in AllTask : prev[u] = t => u = x
    BY <1>a, <1>f DEF ListInv, DoublyLinked, Linked
  <2>3. \A u \in AllTask : Linked(u)' =>
          /\ next'[u] \in AllTask /\ next'[next'[u]] # NULL /\ prev'[next'[u]] = u
    <3> SUFFICES ASSUME NEW u \in AllTask, Linked(u), u # t
                 PROVE  /\ next'[u] \in AllTask /\ next'[next'[u]] # NULL
                        /\ prev'[next'[u]] = u
      BY <1>2
    <3>1. CASE u = y
      <4>1. next'[u] = x
        BY <3>1, <1>a, <1>d, <1>e, <1>f
      <4> QED
        BY <4>1, <3>1, <1>a, <1>b, <1>c, <1>e, <1>f, <1>2 DEF Linked
    <3>2. CASE u # y
      <4>1. next'[u] = next[u]
        BY <3>2, <1>a, <1>e, <1>f
      <4>2. next[u] \in AllTask /\ Linked(next[u]) /\ prev[next[u]] = u
        BY DEF ListInv, DoublyLinked
      <4>3. next[u] # t /\ next[u] # x
        BY <4>2, <3>2, <2>1, <1>b
      <4> QED
        BY <4>1, <4>2, <4>3, <1>e, <1>f, <1>2 DEF Linked
    <3> QED
      BY <3>1, <3>2
  <2>4. \A u \in AllTask : Linked(u)' =>
          /\ prev'[u] \in AllTask /\ next'[prev'[u]] # NULL /\ next'[prev'[u]] = u
    <3> SUFFICES ASSUME NEW u \in AllTask, Linked(u), u # t
                 PROVE  /\ prev'[u] \in AllTask /\ next'[prev'[u]] # NULL
                        /\ next'[prev'[u]] = u
      BY <1>2
    <3>1. CASE u = x
      <4>1. prev'[u] = y
        BY <3>1, <1>a, <1>c, <1>e, <1>f
      <4> QED
        BY <4>1, <3>1, <1>a, <1>b, <1>d, <1>e, <1>f, <1>2 DEF Linked
    <3>2. CASE u # x
      <4>1. prev'[u] = prev[u]
        BY <3>2, <1>a, <1>e, <1>f
      <4>2. prev[u] \in AllTask /\ Linked(prev[u]) /\ next[prev[u]] = u
        BY DEF ListInv, DoublyLinked
      <4>3. prev[u] # t /\ prev[u] # y
        BY <4>2, <3>2, <2>2, <1>b
      <4> QED
        BY <4>1, <4>2, <4>3, <1>e, <1>f, <1>2 DEF Linked
    <3> QED
      BY <3>1, <3>2
  <2>5. \A u \in AllTask : ~Linked(u)' => prev'[u] = NULL
    BY <1>2, <1>a, <1>b, <1>e, <1>f DEF ListInv, DoublyLinked
  <2>6. task_ptr' = prev'[Idle]
    <3>1. CASE task_ptr = t
      <4>1. x = Idle
        BY <3>1, <1>f
      <4> QED
        BY <4>1, <3>1, <1>a, <1>e, <1>f
    <3>2. CASE task_ptr # t
      <4>1. x # Idle
        BY <3>2, <1>b, <1>f
      <4> QED
        BY <4>1, <3>2, <1>a, <1>e, <1>f
    <3> QED
      BY <3>1, <3>2
  <2> QED
    BY <2>3, <2>4, <2>5, <2>6 DEF DoublyLinked, Linked
<1>5. OneRing'
  <2>1. LinkedTasks' = LinkedTasks \ {t}
    BY <1>2, <1>a DEF LinkedTasks, AllTask
  <2>2. Cardinality(LinkedTasks') = n - 1
    <3>1. t \in LinkedTasks
      BY DEF LinkedTasks
    <3> QED
      BY <3>1, <2>1, LinkedTasksFinite, FS_RemoveElement
  <2>3. n - 1 \in Nat /\ k - 1 \in 0..n
    BY <1>m
  <2> DEFINE r == [i \in 0..(n - 1) |-> IF i < k THEN q[i] ELSE q[i + 1]]
  <2>4. r \in [0..(n - 1) -> AllTask]
    BY <2>3
  <2>5. q[k - 1] = y
    <3>1. k - 1 \in 0..(n - 1) /\ (k - 1) + 1 = k
      BY <1>m
    <3>2. next[q[k - 1]] = t /\ q[k - 1] \in AllTask
      BY <3>1, <2>3, <1>q, <1>k DEF IsRing
    <3> QED
      BY <3>2, <1>a, <1>f DEF ListInv, DoublyLinked, Linked
  <2>6. IsRing(next', n - 1, r)
    <3>1. r[0] = Idle
      BY <1>q, <1>m, <2>3 DEF IsRing
    <3>2. \A i \in 0..((n - 1) - 1) : next'[r[i]] = r[i + 1]
      <4> SUFFICES ASSUME NEW i \in 0..((n - 1) - 1) PROVE next'[r[i]] = r[i + 1]
        OBVIOUS
      <4>0. /\ i \in 0..(n - 1) /\ i + 1 \in 0..(n - 1) /\ i \in 0..n
            /\ i + 1 \in 0..n /\ (i + 1) + 1 \in 0..n
        OBVIOUS
      <4>1. CASE i = k - 1
        <5>1. r[i] = y /\ r[i + 1] = q[k + 1] /\ k \in 0..(n - 1)
          BY <4>1, <4>0, <2>5
        <5>2. x = q[k + 1]
          BY <5>1, <1>q, <1>k, <1>f DEF IsRing
        <5> QED
          BY <5>1, <5>2, <1>b, <1>d, <1>e, <1>f
      <4>2. CASE i < k - 1
        <5>1. r[i] = q[i] /\ r[i + 1] = q[i + 1]
          BY <4>2, <4>0
        <5>2. q[i] # y /\ q[i] # t /\ q[i] \in AllTask
          BY <4>2, <4>0, <2>3, <2>5, <1>q, <1>k DEF IsRing
        <5>3. next[q[i]] = q[i + 1]
          BY <4>0, <1>q DEF IsRing
        <5> QED
          BY <5>1, <5>2, <5>3, <1>e, <1>f
      <4>3. CASE i >= k
        <5>1. r[i] = q[i + 1] /\ r[i + 1] = q[(i + 1) + 1]
          BY <4>3, <4>0
        <5>2. q[i + 1] # y /\ q[i + 1] # t /\ q[i + 1] \in AllTask
          <6>1. i + 1 \in 0..n /\ k \in 0..n /\ k - 1 \in 0..n /\ i + 1 # k /\ i + 1 # k - 1
            BY <4>3, <4>0, <2>3, <1>m
          <6>2. q[k] = t /\ q[k - 1] = y
            BY <2>5, <1>k
          <6>3. \A a, b \in 0..n : q[a] = q[b] => a = b
            BY <1>q DEF IsRing
          <6> QED BY <6>1, <6>2, <6>3, <1>q
        <5>3. next[q[i + 1]] = q[(i + 1) + 1]
          BY <4>0, <1>q DEF IsRing
        <5> QED
          BY <5>1, <5>2, <5>3, <1>e, <1>f
      <4> QED
        BY <4>1, <4>2, <4>3
    <3>3. next'[r[n - 1]] = Idle
      <4>1. CASE k = n
        <5>1. r[n - 1] = y /\ x = Idle
          BY <4>1, <2>3, <2>5, <1>q, <1>k, <1>f DEF IsRing
        <5> QED
          BY <5>1, <1>b, <1>d, <1>e, <1>f
      <4>2. CASE k # n
        <5>1. r[n - 1] = q[n]
          BY <4>2, <2>3
        <5>2. q[n] # y /\ q[n] # t /\ q[n] \in AllTask
          BY <4>2, <2>3, <2>5, <1>q, <1>k DEF IsRing
        <5> QED
          BY <5>1, <5>2, <1>q, <1>e, <1>f DEF IsRing
      <4> QED
        BY <4>1, <4>2
    <3>4. \A i, j \in 0..(n - 1) : r[i] = r[j] => i = j
      BY <1>q, <2>3 DEF IsRing
    <3>5. \A u \in AllTask : next'[u] # NULL <=> \E i \in 0..(n - 1) : r[i] = u
      <4> SUFFICES ASSUME NEW u \in AllTask
                   PROVE  next'[u] # NULL <=> \E i \in 0..(n - 1) : r[i] = u
        OBVIOUS
      <4>1. next[u] # NULL <=> \E i \in 0..n : q[i] = u
        BY <1>q DEF IsRing
      <4>2. ASSUME NEW i \in 0..(n - 1), r[i] = u
            PROVE  u # t /\ \E j \in 0..n : q[j] = u
        BY <4>2, <1>q, <1>k DEF IsRing
      <4>3. ASSUME NEW i \in 0..n, q[i] = u, u # t
            PROVE  \E j \in 0..(n - 1) : r[j] = u
        <5>1. CASE i < k
          BY <5>1, <4>3
        <5>2. CASE i > k
          <6>1. i - 1 \in 0..(n - 1) /\ r[i - 1] = u
            BY <5>2, <4>3
          <6> QED
            BY <6>1
        <5> QED
          BY <5>1, <5>2, <4>3, <1>k
      <4> QED
        BY <4>1, <4>2, <4>3, <1>2 DEF Linked
    <3> QED
      BY <3>1, <3>2, <3>3, <3>4, <3>5, Zenon DEF IsRing
  <2> QED
    BY <2>2, <2>4, <2>6 DEF OneRing, LinkedTasks
<1> QED
  BY <1>1, <1>2, <1>3, <1>4, <1>5 DEF ListInv

----------------------------------------------------------------------------
(* The inductive invariant.                                                *)

(* What each step of the boot code has set up, and where the boot stack is *)
(* still in use.                                                           *)
BootInv ==
  /\ boot = "init" => task_ptr = NULL /\ \A t \in AllTask : ~Linked(t)
  /\ boot # "init" =>
       /\ Linked(Idle)
       /\ kernel_esp[Idle] = Idle
       /\ Runnable(state, Idle)
  /\ boot \in {"init", "idle_ready"} => current_task = NULL
  /\ current_task = NULL =>
       /\ esp = Boot /\ esp0 = Boot /\ cr3 = Idle /\ dead_task = NULL
       /\ \A t \in Task : mem[t] = "free" /\ ~Linked(t)
       /\ boot \notin {"enqueued", "loading", "user"}
  /\ current_task = Idle => esp = Idle
  /\ boot = "user" =>
       \A t \in Task : (Linked(t) /\ t # current_task /\ state[t] # TASK_ZOMBIE)
                        => kernel_esp[t] = t

(* How a task's state goes with the list, its memory and its page          *)
(* directory.                                                              *)
TaskInv ==
  /\ \A t \in Task :
       /\ ~Linked(t) => state[t] \in {TASK_NEW, TASK_ZOMBIE}
       /\ (Linked(t) /\ state[t] = TASK_NEW) => (boot = "enqueued" /\ t = current_task)
       /\ (mem[t] = "live" /\ ~Linked(t)) => (state[t] = TASK_NEW /\ kernel_esp[t] = t)
       /\ t \in mm <=> (mem[t] = "live" /\ state[t] # TASK_ZOMBIE)
       /\ mem[t] = "live" =>
            task_cr3[t] = IF state[t] = TASK_ZOMBIE THEN Idle ELSE t
  /\ task_cr3[Idle] = Idle
  /\ dead_task # NULL => state[dead_task] = TASK_ZOMBIE
  /\ current_task # NULL => state[current_task] \in {TASK_NEW, TASK_RUNNING}

Inv ==
  /\ TypeOK /\ DoublyLinked /\ OneRing
  /\ NoUseAfterFree /\ CpuBelongsToCurrent /\ PrivateStacks
  /\ BootInv /\ TaskInv

(* next_task returns the idle task or a task that may run.                 *)
LEMMA NextTaskResult ==
  ASSUME NEW links, NEW tail, NEW st, tail # NULL
  PROVE  NextTask(links, tail, st) \in {Idle} \cup {t \in Task : Runnable(st, t)}
<1> DEFINE w == Walk(links, links[IF current_task # NULL THEN current_task ELSE tail])
           First(t) == \E n \in DOMAIN w :
                         /\ w[n] = t
                         /\ \A m \in 0..(n - 1) : w[m] \in Task => ~Runnable(st, w[m])
           found == {t \in Task : Runnable(st, t) /\ First(t)}
<1>1. NextTask(links, tail, st) = IF found = {} THEN Idle ELSE CHOOSE t \in found : TRUE
  BY DEF NextTask
<1>2. found \subseteq {t \in Task : Runnable(st, t)}
  OBVIOUS
<1> HIDE DEF found
<1>3. found # {} => (CHOOSE t \in found : TRUE) \in found
  OBVIOUS
<1> QED
  BY <1>1, <1>2, <1>3

(* R is the set of tasks, at most one, that a call of reap_dead_task frees. *)
Reaped(R) ==
  /\ R \subseteq Task
  /\ \A t \in R : state[t] = TASK_ZOMBIE
  /\ ListInv'
  /\ \A u \in AllTask : Linked(u)' <=> (Linked(u) /\ u \notin R)
  /\ mem' = [t \in Task |-> IF t \in R THEN "free" ELSE mem[t]]

(* reap_dead_task frees an exited task other than its caller, or nothing.  *)
LEMMA ReapStep ==
  ASSUME ListInv, mem \in [Task -> {"free", "live"}], NEW p,
         NEW d \in Task \cup {NULL},
         d \notin {NULL, p} => (Linked(d) /\ state[d] = TASK_ZOMBIE),
         ReapDeadTask(d, p)
  PROVE  \E R : /\ Reaped(R)
                /\ p \notin R
                /\ dead_task' = NULL \/ (dead_task' = d /\ d = p)
<1>1. CASE d \in {NULL, p}
  <2>1. UNCHANGED <<task_ptr, next, prev, mem>> /\ dead_task' = d
    BY <1>1 DEF ReapDeadTask, list
  <2>2. ListInv' /\ \A u \in AllTask : Linked(u)' <=> Linked(u)
    BY <2>1 DEF ListInv, ListType, DoublyLinked, OneRing, Linked
  <2>3. mem' = [t \in Task |-> IF t \in {} THEN "free" ELSE mem[t]]
    BY <2>1
  <2>4. Reaped({})
    BY <2>2, <2>3 DEF Reaped
  <2> QED
    BY <2>1, <2>4, <1>1
<1>2. CASE d \notin {NULL, p}
  <2>1. /\ d \in Task /\ Unlink(d) /\ mem' = [mem EXCEPT ![d] = "free"]
        /\ dead_task' = NULL
    BY <1>2 DEF ReapDeadTask
  <2>2. ListInv' /\ \A u \in AllTask : Linked(u)' <=> (Linked(u) /\ u # d)
    BY <2>1, <1>2, UnlinkKeepsList
  <2>3. mem' = [t \in Task |-> IF t \in {d} THEN "free" ELSE mem[t]]
    BY <2>1
  <2>4. Reaped({d})
    BY <2>1, <2>2, <2>3, <1>2 DEF Reaped
  <2> QED
    BY <2>1, <2>4, <1>2
<1> QED
  BY <1>1, <1>2

(* Preemption, block_task and exit_task all end in the same switch, from   *)
(* the current task, left in state st, to another one.                     *)
LEMMA SwitchStep ==
  ASSUME Inv, NEW R, Reaped(R), current_task \in AllTask, current_task \notin R,
         NEW n \in AllTask, n # current_task, Runnable(state, n),
         NEW st \in {TASK_READY, TASK_BLOCKED, TASK_ZOMBIE},
         st # TASK_READY => (current_task \in Task /\ esp = current_task),
         IF st = TASK_ZOMBIE
         THEN /\ task_cr3' = [task_cr3 EXCEPT ![current_task] = task_cr3[Idle]]
              /\ mm' = mm \ {current_task}
              /\ dead_task' = current_task
         ELSE UNCHANGED <<task_cr3, mm>> /\ dead_task' = NULL,
         SwitchTo(current_task, n, st),
         timer_ticks' \in 0..(TICK_RANGE - 1), UNCHANGED boot
  PROVE  Inv'
<1> DEFINE p == current_task
<1>a. /\ current_task' = n /\ esp0' = n /\ esp' = kernel_esp[n]
      /\ cr3' = task_cr3'[n]
      /\ state' = [state EXCEPT ![p] = st, ![n] = TASK_RUNNING]
      /\ kernel_esp' = [kernel_esp EXCEPT ![p] = esp]
  BY DEF SwitchTo
<1>t. TypeOK /\ n # p /\ p \in AllTask /\ n \in AllTask /\ p # NULL /\ n # NULL
  BY Distinct DEF Inv
<1>b. state' \in [AllTask -> {TASK_NEW, TASK_READY, TASK_RUNNING, TASK_BLOCKED,
                               TASK_ZOMBIE}]
      /\ state'[p] = st /\ state'[n] = TASK_RUNNING
      /\ \A u \in AllTask \ {p, n} : state'[u] = state[u]
  BY <1>a, <1>t DEF TypeOK
<1>c. /\ kernel_esp' \in [AllTask -> Stack \cup {NULL}]
      /\ kernel_esp'[p] = esp
      /\ \A u \in AllTask \ {p} : kernel_esp'[u] = kernel_esp[u]
  BY <1>a, <1>t DEF TypeOK
<1>d. /\ task_cr3' \in [AllTask -> AllTask]
      /\ \A u \in AllTask \ {p} : task_cr3'[u] = task_cr3[u]
      /\ task_cr3'[p] = IF st = TASK_ZOMBIE THEN Idle ELSE task_cr3[p]
      /\ mm' = IF st = TASK_ZOMBIE THEN mm \ {p} ELSE mm
  BY <1>t, Distinct DEF TypeOK, Inv, TaskInv
<1>e. /\ ListInv' /\ mem' \in [Task -> {"free", "live"}]
      /\ \A u \in AllTask : Linked(u)' <=> (Linked(u) /\ u \notin R)
      /\ \A u \in Task : u \notin R => mem'[u] = mem[u]
      /\ \A u \in R : u \in Task /\ mem'[u] = "free" /\ state[u] = TASK_ZOMBIE
                     /\ u \notin {p, n}
  BY <1>t DEF Reaped, TypeOK, Runnable
<1>f. Linked(p) /\ Linked(n) /\ next'[n] # NULL /\ next'[p] # NULL
  <2>1. Linked(n)
    BY <1>t, Distinct DEF Inv, TaskInv, Runnable, BootInv
  <2>2. Linked(p)
    BY <1>t DEF Inv, NoUseAfterFree
  <2> QED
    BY <2>1, <2>2, <1>e, <1>t DEF Linked
<1>g. boot # "init" /\ boot # "idle_ready"
  BY <1>t DEF Inv, BootInv
<1>h. kernel_esp[n] \in {n, Boot} \ {esp} /\ esp \in {p, Boot}
  <2>1. state[n] # TASK_ZOMBIE
    BY DEF Runnable
  <2> QED
    BY <1>t, <1>f, <2>1 DEF Inv, PrivateStacks, CpuBelongsToCurrent
<1>1. TypeOK'
  <2>1. esp' \in Stack /\ esp0' \in Stack /\ cr3' \in AllTask
    BY <1>a, <1>d, <1>h, <1>t DEF Stack
  <2>2. dead_task' \in Task \cup {NULL}
    OBVIOUS
  <2>3. mm' \subseteq Task
    BY <1>d, <1>t DEF TypeOK
  <2> QED
    BY <1>a, <1>b, <1>c, <1>d, <1>e, <1>t, <2>1, <2>2, <2>3
    DEF TypeOK, ListInv, ListType
<1>2. DoublyLinked' /\ OneRing'
  BY <1>e DEF ListInv
<1>3. NoUseAfterFree'
  <2>1. {esp', esp0'} \cap Task \subseteq {t \in Task : mem'[t] = "live"}
    BY <1>a, <1>e, <1>f, <1>h, <1>t, Distinct DEF Inv, NoUseAfterFree
  <2>2. cr3' \in mm' \cup {Idle}
    BY <1>a, <1>d, <1>f, <1>t, Distinct DEF Inv, TaskInv, NoUseAfterFree, Runnable
  <2>3. \A t \in Task : Linked(t)' =>
          mem'[t] = "live" /\ task_cr3'[t] \in mm' \cup {Idle}
    BY <1>d, <1>e, <1>t, Distinct DEF Inv, TaskInv, NoUseAfterFree
  <2>4. (dead_task' # NULL => next'[dead_task'] # NULL) /\ next'[current_task'] # NULL
    BY <1>a, <1>f
  <2> QED
    BY <2>1, <2>2, <2>3, <2>4 DEF NoUseAfterFree, Linked
<1>4. CpuBelongsToCurrent'
  <2>1. esp' = n \/ (esp' = Boot /\ boot' # "user")
    BY <1>a, <1>f, <1>h, <1>t, <1>g, Distinct DEF Inv, BootInv, Runnable
  <2>2. \A t \in AllTask : state'[t] = TASK_RUNNING => t = n
    BY <1>b, <1>t DEF Inv, CpuBelongsToCurrent
  <2> QED
    BY <1>a, <1>b, <2>1, <2>2 DEF CpuBelongsToCurrent
<1>5. PrivateStacks'
  <2> DEFINE Susp == {t \in AllTask : Linked(t) /\ t # p /\ state[t] # TASK_ZOMBIE}
             Susp1 == {t \in AllTask : Linked(t)' /\ t # n /\ state'[t] # TASK_ZOMBIE}
  <2>1. \A t \in Susp1 : t = p \/ (t \in Susp /\ t # n /\ t # p)
    BY <1>b, <1>e
  <2>2. n \in Susp
    BY <1>f, <1>t DEF Runnable
  <2>3. /\ \A t \in Susp : kernel_esp[t] \in {t, Boot} \ {esp}
        /\ \A t, u \in Susp : kernel_esp[t] = kernel_esp[u] => t = u
    BY DEF Inv, PrivateStacks
  <2>4. \A t \in Susp1 : kernel_esp'[t] \in {t, Boot} \ {esp'}
    BY <1>a, <1>c, <1>h, <1>t, <2>1, <2>2, <2>3
  <2>5. \A t, u \in Susp1 : kernel_esp'[t] = kernel_esp'[u] => t = u
    BY <1>a, <1>c, <1>h, <1>t, <2>1, <2>2, <2>3
  <2> QED
    BY <2>4, <2>5, <1>a DEF PrivateStacks
<1>6. BootInv'
  <2>1. kernel_esp'[Idle] = Idle /\ Runnable(state', Idle)
    BY <1>b, <1>c, <1>g, <1>t, Distinct DEF Inv, BootInv, Runnable
  <2>2. n = Idle => esp' = Idle
    BY <1>a, <1>g DEF Inv, BootInv
  <2>3. boot' = "user" =>
          \A t \in Task : (Linked(t)' /\ t # n /\ state'[t] # TASK_ZOMBIE)
                           => kernel_esp'[t] = t
    BY <1>b, <1>c, <1>e, <1>t, <1>h, Distinct DEF Inv, BootInv, CpuBelongsToCurrent
  <2> QED
    BY <1>a, <1>e, <1>g, <1>t, <2>1, <2>2, <2>3 DEF BootInv, ListInv
<1>7. TaskInv'
  <2> SUFFICES ASSUME NEW t \in Task
               PROVE
       /\ ~Linked(t)' => state'[t] \in {TASK_NEW, TASK_ZOMBIE}
       /\ (Linked(t)' /\ state'[t] = TASK_NEW) => (boot' = "enqueued" /\ t = n)
       /\ (mem'[t] = "live" /\ ~Linked(t)') => (state'[t] = TASK_NEW /\ kernel_esp'[t] = t)
       /\ t \in mm' <=> (mem'[t] = "live" /\ state'[t] # TASK_ZOMBIE)
       /\ mem'[t] = "live" =>
            task_cr3'[t] = IF state'[t] = TASK_ZOMBIE THEN Idle ELSE t
    <3>1. task_cr3'[Idle] = Idle
      BY <1>d, <1>t, Distinct DEF Inv, TaskInv
    <3>2. dead_task' # NULL => state'[dead_task'] = TASK_ZOMBIE
      BY <1>b
    <3> QED
      BY <1>a, <1>b, <3>1, <3>2 DEF TaskInv
  <2>0. t \in AllTask /\ TaskInv
    BY Distinct DEF Inv
  <2>1. CASE t \in R
    BY <2>0, <2>1, <1>b, <1>d, <1>e, <1>t DEF TaskInv
  <2>2. CASE t = p
    <3>1. state[t] \in {TASK_NEW, TASK_RUNNING} /\ mem[t] = "live"
      BY <2>2, <1>f, <1>t DEF Inv, TaskInv, NoUseAfterFree
    <3> QED
      BY <2>0, <2>2, <3>1, <1>b, <1>c, <1>d, <1>e, <1>f, <1>t DEF TaskInv
  <2>3. CASE t = n
    <3>1. state[t] \in {TASK_READY, TASK_RUNNING} /\ mem[t] = "live"
      BY <2>3, <1>f, <1>t DEF Inv, Runnable, NoUseAfterFree
    <3> QED
      BY <2>0, <2>3, <3>1, <1>b, <1>c, <1>d, <1>e, <1>f, <1>t DEF TaskInv
  <2>4. CASE t \notin R /\ t # p /\ t # n
    BY <2>0, <2>4, <1>b, <1>c, <1>d, <1>e, <1>t DEF TaskInv
  <2> QED
    BY <2>1, <2>2, <2>3, <2>4
<1> QED
  BY <1>1, <1>2, <1>3, <1>4, <1>5, <1>6, <1>7 DEF Inv

----------------------------------------------------------------------------
(* Every step keeps the invariant: one lemma per kind of step.             *)

(* init_scheduler leaves no task, and the CPU on the boot stack.           *)
LEMMA InitInv == Init => Inv
<1> SUFFICES ASSUME Init PROVE Inv
  OBVIOUS
<1>1. TypeOK
  BY SchedAssumption, Distinct DEF Init, TypeOK, Stack
<1>2. DoublyLinked /\ OneRing /\ BootInv /\ TaskInv
  BY Distinct DEF Init, DoublyLinked, OneRing, BootInv, TaskInv, Linked
<1>3. NoUseAfterFree /\ CpuBelongsToCurrent /\ PrivateStacks
  BY Distinct DEF Init, NoUseAfterFree, CpuBelongsToCurrent, PrivateStacks, Linked
<1> QED
  BY <1>1, <1>2, <1>3 DEF Inv

(* The part of the invariant about the list, once there is one.            *)
LEMMA ListFromInv == (Inv /\ boot # "init") => ListInv
BY DEF Inv, ListInv, ListType, TypeOK, BootInv

(* timer_ticks wraps inside its range.                                     *)
LEMMA TickRange == (TypeOK /\ Tick) => timer_ticks' \in 0..(TICK_RANGE - 1)
BY SchedAssumption DEF TypeOK, Tick

(* A step that changes nothing.                                            *)
LEMMA StutterInv == (Inv /\ UNCHANGED vars) => Inv'
<1> SUFFICES ASSUME Inv, UNCHANGED vars PROVE Inv'
  OBVIOUS
<1> USE DEF vars, list, cpu, Linked
<1>1. TypeOK' /\ DoublyLinked' /\ OneRing'
  BY DEF Inv, TypeOK, DoublyLinked, OneRing
<1>2. NoUseAfterFree' /\ CpuBelongsToCurrent' /\ PrivateStacks'
  BY DEF Inv, NoUseAfterFree, CpuBelongsToCurrent, PrivateStacks, Started
<1>3. BootInv' /\ TaskInv'
  BY DEF Inv, BootInv, TaskInv
<1> QED
  BY <1>1, <1>2, <1>3 DEF Inv

(* timer_irq_handler on a tick that does not call schedule().              *)
LEMMA TimerTickInv == (Inv /\ TimerTick) => Inv'
<1> SUFFICES ASSUME Inv, TimerTick PROVE Inv'
  OBVIOUS
<1>1. timer_ticks' \in 0..(TICK_RANGE - 1)
  BY TickRange DEF Inv, TimerTick
<1> QED
  BY <1>1 DEF TimerTick, Inv, TypeOK, DoublyLinked, OneRing, NoUseAfterFree,
              CpuBelongsToCurrent, PrivateStacks, BootInv, TaskInv, Linked, Started,
              list, cpu

(* The timer interrupt that calls schedule().                              *)
LEMMA TimerScheduleInv == (Inv /\ TimerSchedule) => Inv'
<1> SUFFICES ASSUME Inv, TimerSchedule PROVE Inv'
  OBVIOUS
<1>a. /\ timer_ticks' \in 0..(TICK_RANGE - 1) /\ UNCHANGED <<task_cr3, mm, boot>>
      /\ current_task \in AllTask /\ TypeOK /\ Schedule
  BY TickRange DEF Inv, TimerSchedule, Due, TypeOK
<1>b. boot # "init" /\ ListInv
  BY <1>a, ListFromInv, Distinct DEF Inv, BootInv
<1>c. dead_task \in Task \cup {NULL} /\ mem \in [Task -> {"free", "live"}]
  BY <1>a DEF TypeOK
<1>d. dead_task \notin {NULL, current_task} =>
        (Linked(dead_task) /\ state[dead_task] = TASK_ZOMBIE)
  BY DEF Inv, NoUseAfterFree, TaskInv
<1>e. dead_task # current_task
  BY <1>a, Distinct DEF Inv, TaskInv
<1>f. ReapDeadTask(dead_task, current_task)
  BY <1>a DEF Schedule
<1>g. PICK R : Reaped(R) /\ current_task \notin R /\ dead_task' = NULL
  BY <1>b, <1>c, <1>d, <1>e, <1>f, ReapStep
<1> PICK n : n = NextTask(next', task_ptr', state)
  OBVIOUS
<1>h. n \in AllTask /\ (n = Idle \/ (n \in Task /\ Runnable(state, n))) /\ Runnable(state, n)
  <2>1. task_ptr' # NULL
    BY <1>g, Distinct DEF Reaped, ListInv, DoublyLinked, Linked
  <2>2. n \in {Idle} \cup {t \in Task : Runnable(state, t)}
    BY <2>1, NextTaskResult
  <2> QED
    BY <2>2, <1>b, Distinct DEF Inv, BootInv
<1>1. CASE n = current_task
  <2>1. UNCHANGED <<current_task, state, kernel_esp, esp, esp0, cr3>>
    BY <1>1, <1>a DEF Schedule, cpu
  <2>2. /\ ListInv' /\ mem' \in [Task -> {"free", "live"}]
        /\ \A u \in AllTask : Linked(u)' <=> (Linked(u) /\ u \notin R)
        /\ \A u \in Task : u \notin R => mem'[u] = mem[u]
        /\ \A u \in R : u \in Task /\ mem'[u] = "free" /\ state[u] = TASK_ZOMBIE
    BY <1>c, <1>g DEF Reaped
  <2>3. TypeOK'
    BY <1>a, <1>g, <2>1, <2>2 DEF TypeOK, ListInv, ListType
  <2>4. DoublyLinked' /\ OneRing'
    BY <2>2 DEF ListInv
  <2>5. NoUseAfterFree'
    <3>1. {esp, esp0} \cap Task \subseteq {t \in Task : mem'[t] = "live"}
      BY <1>a, <1>g, <2>2, Distinct DEF Inv, NoUseAfterFree, CpuBelongsToCurrent
    <3>2. next'[current_task] # NULL
      BY <1>a, <1>g, <2>2, Distinct DEF Inv, NoUseAfterFree, Linked
    <3>3. \A t \in Task : Linked(t)' =>
            mem'[t] = "live" /\ task_cr3'[t] \in mm' \cup {Idle}
      BY <1>a, <2>2, Distinct DEF Inv, NoUseAfterFree
    <3> QED
      BY <3>1, <3>2, <3>3, <1>a, <1>g, <2>1 DEF Inv, NoUseAfterFree, Linked
  <2>6. CpuBelongsToCurrent'
    BY <1>a, <2>1 DEF Inv, CpuBelongsToCurrent, Started
  <2>7. PrivateStacks'
    BY <2>1, <2>2 DEF Inv, PrivateStacks
  <2>8. BootInv'
    BY <1>a, <1>b, <1>g, <2>1, <2>2, Distinct DEF Inv, BootInv, ListInv
  <2>9. TaskInv'
    BY <1>a, <1>g, <2>1, <2>2, Distinct DEF Inv, TaskInv
  <2> QED
    BY <2>3, <2>4, <2>5, <2>6, <2>7, <2>8, <2>9 DEF Inv
<1>2. CASE n # current_task
  <2>1. SwitchTo(current_task, n, TASK_READY)
    BY <1>2, <1>a, <1>h, Distinct DEF Schedule
  <2> QED
    BY <2>1, <1>2, <1>a, <1>g, <1>h, SwitchStep
<1> QED
  BY <1>1, <1>2

(* block_task on the current task, which switches to another one.          *)
LEMMA BlockCurrentInv == (Inv /\ BlockCurrent) => Inv'
<1> SUFFICES ASSUME Inv, BlockCurrent PROVE Inv'
  OBVIOUS
<1> DEFINE st == [state EXCEPT ![current_task] = TASK_BLOCKED]
<1> PICK n : n = NextTask(next, task_ptr, st)
  OBVIOUS
<1>a. /\ UNCHANGED <<task_cr3, mm, timer_ticks, boot>> /\ n # current_task
      /\ current_task \in Task /\ esp = current_task /\ current_task \in AllTask
      /\ ReapDeadTask(dead_task, current_task)
      /\ SwitchTo(current_task, n, TASK_BLOCKED) /\ TypeOK
  BY Distinct DEF Inv, BlockCurrent, TaskRuns
<1>b. boot # "init" /\ ListInv
  BY <1>a, ListFromInv, Distinct DEF Inv, BootInv
<1>c. dead_task \in Task \cup {NULL} /\ mem \in [Task -> {"free", "live"}]
  BY <1>a DEF TypeOK
<1>d. dead_task \notin {NULL, current_task} =>
        (Linked(dead_task) /\ state[dead_task] = TASK_ZOMBIE)
  BY DEF Inv, NoUseAfterFree, TaskInv
<1>e. dead_task # current_task
  BY <1>a, Distinct DEF Inv, TaskInv
<1>g. PICK R : Reaped(R) /\ current_task \notin R /\ dead_task' = NULL
  BY <1>a, <1>b, <1>c, <1>d, <1>e, ReapStep
<1>h. n \in AllTask /\ Runnable(state, n)
  <2>1. task_ptr # NULL
    BY <1>b, Distinct DEF ListInv, DoublyLinked, Linked
  <2>2. n \in {Idle} \cup {t \in Task : Runnable(st, t)}
    BY <2>1, NextTaskResult
  <2> QED
    BY <2>2, <1>a, <1>b, Distinct DEF Inv, BootInv, Runnable, TypeOK
<1>i. timer_ticks' \in 0..(TICK_RANGE - 1)
  BY <1>a DEF TypeOK
<1> QED
  BY <1>a, <1>g, <1>h, <1>i, SwitchStep

(* exit_task: the address space goes, the stack stays until someone else   *)
(* reaps it.                                                               *)
LEMMA ExitTaskInv == (Inv /\ ExitTask) => Inv'
<1> SUFFICES ASSUME Inv, ExitTask PROVE Inv'
  OBVIOUS
<1> DEFINE st == [state EXCEPT ![current_task] = TASK_ZOMBIE]
<1> PICK n : n = NextTask(next, task_ptr, st)
  OBVIOUS
<1>a. /\ UNCHANGED <<timer_ticks, boot>>
      /\ task_cr3' = [task_cr3 EXCEPT ![current_task] = task_cr3[Idle]]
      /\ mm' = mm \ {current_task}
      /\ current_task \in Task /\ esp = current_task /\ current_task \in AllTask
      /\ ReapDeadTask(current_task, current_task)
      /\ SwitchTo(current_task, n, TASK_ZOMBIE) /\ TypeOK
  BY Distinct DEF Inv, ExitTask, TaskRuns
<1>b. boot # "init" /\ ListInv
  BY <1>a, ListFromInv, Distinct DEF Inv, BootInv
<1>c. mem \in [Task -> {"free", "live"}]
  BY <1>a DEF TypeOK
<1>d. dead_task' = current_task
  BY <1>a DEF ReapDeadTask
<1>g. PICK R : Reaped(R) /\ current_task \notin R
  BY <1>a, <1>b, <1>c, ReapStep
<1>h. n \in AllTask /\ Runnable(state, n) /\ n # current_task
  <2>1. task_ptr # NULL
    BY <1>b, Distinct DEF ListInv, DoublyLinked, Linked
  <2>2. n \in {Idle} \cup {t \in Task : Runnable(st, t)}
    BY <2>1, NextTaskResult
  <2> QED
    BY <2>2, <1>a, <1>b, Distinct DEF Inv, BootInv, Runnable, TypeOK
<1>i. timer_ticks' \in 0..(TICK_RANGE - 1)
  BY <1>a DEF TypeOK
<1> QED
  BY <1>a, <1>d, <1>g, <1>h, <1>i, SwitchStep

(* init_idle_task makes a ring of the idle task alone.                     *)
LEMMA InitIdleTaskInv == (Inv /\ InitIdleTask) => Inv'
<1> SUFFICES ASSUME Inv, InitIdleTask PROVE Inv'
  OBVIOUS
<1>a. /\ TypeOK /\ current_task = NULL /\ esp = Boot /\ esp0 = Boot /\ cr3 = Idle
      /\ dead_task = NULL /\ \A t \in Task : mem[t] = "free" /\ ~Linked(t)
      /\ \A t \in AllTask : ~Linked(t) /\ prev[t] = NULL
  BY DEF Inv, InitIdleTask, BootInv, DoublyLinked
<1>b. /\ next' = [next EXCEPT ![Idle] = Idle] /\ prev' = [prev EXCEPT ![Idle] = Idle]
      /\ task_ptr' = Idle /\ boot' = "idle_ready"
      /\ state' = [state EXCEPT ![Idle] = TASK_READY]
      /\ kernel_esp' = [kernel_esp EXCEPT ![Idle] = Idle]
      /\ task_cr3' = [task_cr3 EXCEPT ![Idle] = Idle]
      /\ UNCHANGED <<current_task, dead_task, mem, mm, esp, esp0, cr3, timer_ticks>>
  BY <1>a DEF InitIdleTask, cpu
<1>1. TypeOK'
  BY <1>a, <1>b, Distinct DEF TypeOK, Stack
<1>2. \A t \in AllTask : Linked(t)' <=> t = Idle
  BY <1>a, <1>b, Distinct DEF TypeOK, Linked
<1>3. DoublyLinked'
  BY <1>a, <1>b, <1>2, Distinct DEF TypeOK, DoublyLinked, Linked
<1>4. OneRing'
  <2>1. LinkedTasks' = {}
    BY <1>2, Distinct DEF LinkedTasks
  <2>2. Cardinality(LinkedTasks') = 0
    BY <2>1, FS_EmptySet
  <2> DEFINE q == [i \in 0..0 |-> Idle]
  <2>3. q \in [0..0 -> AllTask]
    BY Distinct
  <2>4. q[0] = Idle /\ next'[q[0]] = Idle
    BY <1>a, <1>b, Distinct DEF TypeOK
  <2>5. \A t \in AllTask : next'[t] # NULL <=> \E i \in 0..0 : q[i] = t
    BY <1>2 DEF Linked
  <2>6. IsRing(next', 0, q)
    BY <2>4, <2>5 DEF IsRing
  <2> QED
    BY <2>2, <2>3, <2>6 DEF OneRing, LinkedTasks
<1>5. NoUseAfterFree' /\ CpuBelongsToCurrent'
  BY <1>a, <1>b, <1>2, Distinct
  DEF Inv, TypeOK, NoUseAfterFree, CpuBelongsToCurrent, Started
<1>6. PrivateStacks'
  BY <1>a, <1>b, <1>2, Distinct DEF TypeOK, PrivateStacks
<1>7. BootInv' /\ TaskInv'
  BY <1>a, <1>b, <1>2, Distinct DEF Inv, TypeOK, BootInv, TaskInv, Runnable
<1> QED
  BY <1>1, <1>3, <1>4, <1>5, <1>6, <1>7 DEF Inv

(* proc1 becomes current on the boot stack, still TASK_NEW.                *)
LEMMA EnterProc1Inv == ASSUME NEW p \in Task, Inv, EnterProc1(p) PROVE Inv'
<1>a. /\ TypeOK /\ current_task = NULL /\ esp = Boot /\ cr3 = Idle
      /\ dead_task = NULL /\ \A t \in Task : mem[t] = "free" /\ ~Linked(t)
      /\ Linked(Idle) /\ kernel_esp[Idle] = Idle /\ Runnable(state, Idle)
      /\ task_cr3[Idle] = Idle /\ ListInv
  BY ListFromInv DEF Inv, EnterProc1, BootInv, TaskInv
<1>b. /\ mem' = [mem EXCEPT ![p] = "live"] /\ mm' = mm \cup {p}
      /\ task_cr3' = [task_cr3 EXCEPT ![p] = p]
      /\ state' = [state EXCEPT ![p] = TASK_NEW]
      /\ esp0' = p /\ Link(p) /\ current_task' = p /\ boot' = "enqueued"
      /\ UNCHANGED <<dead_task, kernel_esp, esp, cr3, timer_ticks>>
  BY DEF EnterProc1, CreateTask
<1>c. ListInv' /\ \A u \in AllTask : Linked(u)' <=> (Linked(u) \/ u = p)
  BY <1>a, <1>b, LinkKeepsList
<1>1. TypeOK'
  <2>1. ListType'
    BY <1>c DEF ListInv
  <2>2. /\ state' \in [AllTask -> {TASK_NEW, TASK_READY, TASK_RUNNING, TASK_BLOCKED,
                                   TASK_ZOMBIE}]
        /\ task_cr3' \in [AllTask -> AllTask] /\ mem' \in [Task -> {"free", "live"}]
        /\ mm' \subseteq Task
    BY <1>a, <1>b, Distinct DEF TypeOK
  <2>3. current_task' \in AllTask \cup {NULL} /\ esp0' \in Stack
    BY <1>b, Distinct DEF Stack
  <2> QED BY <1>a, <1>b, <2>1, <2>2, <2>3 DEF TypeOK, ListType
<1>2. DoublyLinked' /\ OneRing'
  BY <1>c DEF ListInv
<1>3. NoUseAfterFree'
  <2>1. next'[p] # NULL
    BY <1>c, Distinct DEF Linked
  <2> QED
    BY <2>1, <1>a, <1>b, <1>c, Distinct DEF TypeOK, NoUseAfterFree, Linked
<1>4. CpuBelongsToCurrent'
  <2>1. \A t \in AllTask : state[t] # TASK_RUNNING
    BY <1>a, Distinct DEF Inv, CpuBelongsToCurrent
  <2> QED
    BY <2>1, <1>a, <1>b, Distinct DEF TypeOK, CpuBelongsToCurrent, Started
<1>5. PrivateStacks'
  BY <1>a, <1>b, <1>c, Distinct DEF TypeOK, PrivateStacks
<1>6. BootInv'
  BY <1>a, <1>b, <1>c, Distinct DEF TypeOK, BootInv, Runnable, ListInv
<1>7. TaskInv'
  BY <1>a, <1>b, <1>c, Distinct DEF Inv, TypeOK, TaskInv
<1> QED
  BY <1>1, <1>2, <1>3, <1>4, <1>5, <1>6, <1>7 DEF Inv

(* The rest of enter_proc1: proc1 runs, enters user mode, or gives up.     *)
LEMMA BootStepInv == (Inv /\ (BootSetRunning \/ EnterUserTask \/ BootFail)) => Inv'
<1> SUFFICES ASSUME Inv, BootSetRunning \/ EnterUserTask \/ BootFail PROVE Inv'
  OBVIOUS
<1>1. CASE BootSetRunning
  <2>a. /\ TypeOK /\ current_task \in AllTask /\ current_task # Idle /\ current_task \in Task
        /\ boot = "enqueued" /\ esp = Boot /\ boot' = "loading"
        /\ state[current_task] \in {TASK_NEW, TASK_RUNNING} /\ Linked(current_task)
    BY <1>1, Distinct DEF BootSetRunning, Inv, BootInv, TypeOK, TaskInv, NoUseAfterFree
  <2>b. /\ state' = [state EXCEPT ![current_task] = TASK_RUNNING]
        /\ UNCHANGED <<task_ptr, next, prev, current_task, dead_task, kernel_esp, task_cr3,
                       mem, mm, esp, esp0, cr3, timer_ticks>>
    BY <1>1 DEF BootSetRunning, list, cpu
  <2>1. TypeOK'
    BY <2>a, <2>b DEF TypeOK
  <2>2. DoublyLinked' /\ OneRing' /\ NoUseAfterFree'
    BY <2>b DEF Inv, DoublyLinked, OneRing, NoUseAfterFree, Linked
  <2>3. CpuBelongsToCurrent' /\ PrivateStacks'
    BY <2>a, <2>b, Distinct
    DEF Inv, TypeOK, CpuBelongsToCurrent, PrivateStacks, Linked
  <2>4. BootInv'
    BY <2>a, <2>b, Distinct DEF Inv, TypeOK, BootInv, Linked, Runnable
  <2>5. TaskInv'
    BY <2>a, <2>b, Distinct DEF Inv, TypeOK, TaskInv, Linked
  <2> QED
    BY <2>1, <2>2, <2>3, <2>4, <2>5 DEF Inv
<1>2. CASE EnterUserTask
  <2>a. /\ TypeOK /\ current_task \in AllTask /\ current_task # Idle /\ current_task \in Task
        /\ boot = "loading" /\ esp = Boot /\ esp0 = current_task
        /\ state[current_task] = TASK_RUNNING /\ Linked(current_task)
        /\ mem[current_task] = "live" /\ task_cr3[current_task] \in mm \cup {Idle}
    BY <1>2, Distinct DEF EnterUserTask, Inv, BootInv, TypeOK, TaskInv, NoUseAfterFree,
                          CpuBelongsToCurrent, Started
  <2>b. /\ cr3' = task_cr3[current_task] /\ esp' = current_task /\ boot' = "user"
        /\ UNCHANGED <<task_ptr, next, prev, current_task, dead_task, state, kernel_esp,
                       task_cr3, mem, mm, esp0, timer_ticks>>
    BY <1>2, <2>a DEF EnterUserTask, list
  <2>1. TypeOK'
    BY <2>a, <2>b DEF TypeOK, Stack
  <2>2. DoublyLinked' /\ OneRing' /\ NoUseAfterFree'
    BY <2>a, <2>b DEF Inv, DoublyLinked, OneRing, NoUseAfterFree, Linked
  <2>3. CpuBelongsToCurrent'
    BY <2>a, <2>b DEF Inv, CpuBelongsToCurrent, Started
  <2>4. \A t \in AllTask : (Linked(t) /\ t # current_task /\ state[t] # TASK_ZOMBIE)
                            => kernel_esp[t] = t
    BY <2>a DEF Inv, PrivateStacks
  <2>5. PrivateStacks'
    BY <2>a, <2>b, <2>4 DEF Inv, PrivateStacks, Linked
  <2>6. BootInv'
    BY <2>a, <2>b, <2>4, Distinct DEF Inv, BootInv, Linked
  <2>7. TaskInv'
    BY <2>a, <2>b DEF Inv, TaskInv, Linked
  <2> QED
    BY <2>1, <2>2, <2>3, <2>5, <2>6, <2>7 DEF Inv
<1>3. CASE BootFail
  <2>a. /\ boot' = "spin" /\ boot \in {"idle_ready", "loading"}
        /\ UNCHANGED <<task_ptr, next, prev, current_task, dead_task, state, kernel_esp,
                       task_cr3, mem, mm, esp, esp0, cr3, timer_ticks>>
    BY <1>3 DEF BootFail, list, cpu
  <2>1. TypeOK' /\ DoublyLinked' /\ OneRing' /\ NoUseAfterFree'
    BY <2>a DEF Inv, TypeOK, DoublyLinked, OneRing, NoUseAfterFree, Linked
  <2>2. CpuBelongsToCurrent' /\ PrivateStacks'
    BY <2>a DEF Inv, CpuBelongsToCurrent, PrivateStacks, Linked, Started, BootInv
  <2>3. BootInv' /\ TaskInv'
    BY <2>a DEF Inv, BootInv, TaskInv, Linked
  <2> QED
    BY <2>1, <2>2, <2>3 DEF Inv
<1> QED
  BY <1>1, <1>2, <1>3

(* What the running task may do to another task's memory and list entry.   *)
LEMMA SpawnTaskInv == ASSUME NEW p \in Task, Inv, SpawnTask(p) PROVE Inv'
<1>a. /\ TypeOK /\ TaskInv /\ mem[p] = "free" /\ ~Linked(p) /\ prev[p] = NULL
      /\ current_task \in Task /\ esp = current_task /\ p # current_task /\ p # dead_task
      /\ boot # "init"
  BY Distinct DEF SpawnTask, CreateTask, TaskRuns, Inv, NoUseAfterFree, DoublyLinked, BootInv
<1>b. /\ mem' = [mem EXCEPT ![p] = "live"] /\ mm' = mm \cup {p}
      /\ task_cr3' = [task_cr3 EXCEPT ![p] = p]
      /\ state' = [state EXCEPT ![p] = TASK_NEW]
      /\ kernel_esp' = [kernel_esp EXCEPT ![p] = p]
      /\ UNCHANGED <<task_ptr, current_task, dead_task, esp, esp0, cr3, timer_ticks, boot>>
  BY DEF SpawnTask, CreateTask, cpu
<1>c. next' = next /\ prev' = prev
  BY <1>a DEF SpawnTask, TypeOK, Linked
<1>d. \A t \in AllTask \ {p} : state'[t] = state[t] /\ kernel_esp'[t] = kernel_esp[t]
                               /\ task_cr3'[t] = task_cr3[t]
  BY <1>a, <1>b DEF TypeOK
<1>1. TypeOK'
  BY <1>a, <1>b, <1>c, Distinct DEF TypeOK, Stack
<1>2. DoublyLinked' /\ OneRing'
  BY <1>b, <1>c DEF Inv, DoublyLinked, OneRing, Linked
<1>3. NoUseAfterFree'
  BY <1>a, <1>b, <1>c, <1>d, Distinct DEF Inv, TypeOK, NoUseAfterFree, Linked
<1>4. CpuBelongsToCurrent'
  BY <1>a, <1>b, <1>d, Distinct DEF Inv, TypeOK, CpuBelongsToCurrent, Started
<1>5. PrivateStacks'
  BY <1>a, <1>b, <1>c, <1>d DEF Inv, PrivateStacks, Linked
<1>6. BootInv'
  BY <1>a, <1>b, <1>c, <1>d, Distinct DEF Inv, BootInv, Linked, Runnable
<1>7. TaskInv'
  BY <1>a, <1>b, <1>c, <1>d, Distinct DEF TypeOK, TaskInv, Linked
<1> QED
  BY <1>1, <1>2, <1>3, <1>4, <1>5, <1>6, <1>7 DEF Inv

(* enqueue_task on a task that create_task made.                           *)
LEMMA EnqueueTaskInv == ASSUME NEW p \in Task, Inv, EnqueueTask(p) PROVE Inv'
<1>a. /\ TypeOK /\ TaskInv /\ mem[p] = "live" /\ ~Linked(p)
      /\ kernel_esp[p] = p /\ task_cr3[p] = p /\ p \in mm /\ state[p] = TASK_NEW
      /\ current_task \in Task /\ esp = current_task /\ Linked(current_task)
      /\ p # current_task /\ boot # "init" /\ ListInv
  BY Distinct, ListFromInv
  DEF EnqueueTask, TaskRuns, Inv, NoUseAfterFree, TaskInv, BootInv, Linked
<1>b. /\ Link(p) /\ state' = [state EXCEPT ![p] = TASK_READY]
      /\ UNCHANGED <<current_task, dead_task, kernel_esp, task_cr3, mem, mm, esp, esp0, cr3,
                     timer_ticks, boot>>
  BY DEF EnqueueTask, cpu
<1>c. ListInv' /\ \A u \in AllTask : Linked(u)' <=> (Linked(u) \/ u = p)
  BY <1>a, <1>b, LinkKeepsList
<1>d. \A t \in AllTask : state'[t] = IF t = p THEN TASK_READY ELSE state[t]
  BY <1>a, <1>b DEF TypeOK
<1>1. TypeOK'
  BY <1>a, <1>b, <1>c DEF TypeOK, ListInv, ListType
<1>2. DoublyLinked' /\ OneRing'
  BY <1>c DEF ListInv
<1>3. NoUseAfterFree'
  <2>1. next'[current_task] # NULL /\ (dead_task # NULL => next'[dead_task] # NULL)
    BY <1>a, <1>c, Distinct DEF Inv, NoUseAfterFree, Linked, TypeOK
  <2> QED
    BY <2>1, <1>a, <1>b, <1>c, Distinct DEF Inv, NoUseAfterFree, Linked
<1>4. CpuBelongsToCurrent'
  BY <1>a, <1>b, <1>d, Distinct DEF Inv, CpuBelongsToCurrent, Started
<1>5. PrivateStacks'
  <2> DEFINE Susp == {t \in AllTask : Linked(t) /\ t # current_task /\ state[t] # TASK_ZOMBIE}
             Susp1 == {t \in AllTask : Linked(t)' /\ t # current_task /\ state'[t] # TASK_ZOMBIE}
  <2>1. \A t \in Susp1 : t = p \/ t \in Susp
    BY <1>c, <1>d
  <2>2. /\ \A t \in Susp : kernel_esp[t] \in {t, Boot} \ {esp}
        /\ \A t, u \in Susp : kernel_esp[t] = kernel_esp[u] => t = u
    BY DEF Inv, PrivateStacks
  <2>3. p \notin Susp /\ p # Boot
    BY <1>a, Distinct
  <2> QED
    BY <2>1, <2>2, <2>3, <1>a, <1>b DEF PrivateStacks
<1>6. BootInv'
  BY <1>a, <1>b, <1>c, <1>d, Distinct DEF Inv, BootInv, ListInv, Runnable
<1>7. TaskInv'
  BY <1>a, <1>b, <1>c, <1>d, Distinct DEF Inv, TypeOK, NoUseAfterFree, TaskInv
<1> QED
  BY <1>1, <1>2, <1>3, <1>4, <1>5, <1>6, <1>7 DEF Inv

(* destroy_task on a task that was never enqueued.                         *)
LEMMA DestroyTaskInv == ASSUME NEW p \in Task, Inv, DestroyTask(p) PROVE Inv'
<1>a. /\ TypeOK /\ TaskInv /\ ~Linked(p) /\ state[p] = TASK_NEW
      /\ current_task \in Task /\ esp = current_task /\ esp0 = current_task
      /\ p # current_task /\ p # dead_task /\ task_cr3[current_task] # p /\ p # cr3
  BY Distinct
  DEF DestroyTask, TaskRuns, Inv, NoUseAfterFree, CpuBelongsToCurrent, TaskInv, Linked
<1>b. /\ mem' = [mem EXCEPT ![p] = "free"] /\ mm' = mm \ {p}
      /\ UNCHANGED <<task_ptr, next, prev, current_task, dead_task, state, kernel_esp, task_cr3,
                     esp, esp0, cr3, timer_ticks, boot>>
  BY DEF DestroyTask, list, cpu
<1>1. TypeOK'
  BY <1>a, <1>b DEF TypeOK
<1>2. DoublyLinked' /\ OneRing' /\ CpuBelongsToCurrent' /\ PrivateStacks'
  BY <1>b DEF Inv, DoublyLinked, OneRing, Linked, CpuBelongsToCurrent, Started, PrivateStacks
<1>3. NoUseAfterFree'
  <2>1. \A t \in Task : Linked(t) => t # p /\ task_cr3[t] # p
    BY <1>a, Distinct DEF Inv, NoUseAfterFree, TaskInv
  <2> QED
    BY <2>1, <1>a, <1>b DEF Inv, TypeOK, NoUseAfterFree, Linked
<1>4. BootInv'
  BY <1>a, <1>b, Distinct DEF Inv, BootInv, Linked
<1>5. TaskInv'
  BY <1>a, <1>b DEF TypeOK, TaskInv, Linked
<1> QED
  BY <1>1, <1>2, <1>3, <1>4, <1>5 DEF Inv

(* block_task on another task and wake_task change one state and nothing   *)
(* else.                                                                   *)
LEMMA BlockWakeInv ==
  ASSUME NEW p \in Task, Inv, BlockOther(p) \/ WakeTask(p)
  PROVE  Inv'
<1>a. /\ TypeOK /\ p # current_task /\ p # dead_task /\ Linked(p)
      /\ state[p] \in {TASK_READY, TASK_BLOCKED}
  <2>1. CASE BlockOther(p)
    BY <2>1, Distinct
    DEF BlockOther, Inv, TaskInv, Runnable, CpuBelongsToCurrent
  <2>2. CASE WakeTask(p)
    BY <2>2, Distinct DEF WakeTask, Inv, TaskInv, Runnable
  <2> QED
    BY <2>1, <2>2
<1>b. /\ \E st \in {TASK_READY, TASK_BLOCKED} : state' = [state EXCEPT ![p] = st]
      /\ UNCHANGED <<task_ptr, next, prev, current_task, dead_task, kernel_esp, task_cr3, mem, mm,
                     esp, esp0, cr3, timer_ticks, boot>>
  BY DEF BlockOther, WakeTask, list, cpu
<1>c. /\ \A t \in AllTask \ {p} : state'[t] = state[t]
      /\ state'[p] \in {TASK_READY, TASK_BLOCKED}
      /\ state' \in [AllTask -> {TASK_NEW, TASK_READY, TASK_RUNNING, TASK_BLOCKED,
                                  TASK_ZOMBIE}]
  BY <1>a, <1>b, Distinct DEF TypeOK
<1>1. TypeOK'
  BY <1>a, <1>b, <1>c DEF TypeOK
<1>2. DoublyLinked' /\ OneRing' /\ NoUseAfterFree'
  BY <1>b DEF Inv, DoublyLinked, OneRing, Linked, NoUseAfterFree
<1>3. CpuBelongsToCurrent'
  BY <1>a, <1>b, <1>c, Distinct DEF Inv, TypeOK, CpuBelongsToCurrent, Started
<1>4. PrivateStacks'
  BY <1>a, <1>b, <1>c DEF Inv, PrivateStacks, Linked
<1>5. BootInv'
  BY <1>a, <1>b, <1>c, Distinct DEF Inv, BootInv, Linked, Runnable
<1>6. TaskInv'
  BY <1>a, <1>b, <1>c, Distinct DEF Inv, TypeOK, TaskInv, Linked
<1> QED
  BY <1>1, <1>2, <1>3, <1>4, <1>5, <1>6 DEF Inv

----------------------------------------------------------------------------
(* The invariant is inductive.                                             *)
THEOREM Inductive == Spec => []Inv
<1>1. Init => Inv
  BY InitInv
<1>2. Inv /\ [Next]_vars => Inv'
  <2> SUFFICES ASSUME Inv, [Next]_vars PROVE Inv'
    OBVIOUS
  <2>1. CASE TimerTick
    BY <2>1, TimerTickInv
  <2>2. CASE TimerSchedule
    BY <2>2, TimerScheduleInv
  <2>3. CASE InitIdleTask
    BY <2>3, InitIdleTaskInv
  <2>4. ASSUME NEW t \in Task, EnterProc1(t) PROVE Inv'
    BY <2>4, EnterProc1Inv
  <2>5. CASE BootSetRunning \/ EnterUserTask \/ BootFail
    BY <2>5, BootStepInv
  <2>6. ASSUME NEW t \in Task, SpawnTask(t) PROVE Inv'
    BY <2>6, SpawnTaskInv
  <2>7. ASSUME NEW t \in Task, EnqueueTask(t) PROVE Inv'
    BY <2>7, EnqueueTaskInv
  <2>8. ASSUME NEW t \in Task, DestroyTask(t) PROVE Inv'
    BY <2>8, DestroyTaskInv
  <2>9. ASSUME NEW t \in Task, BlockOther(t) \/ WakeTask(t) PROVE Inv'
    BY <2>9, BlockWakeInv
  <2>10. CASE BlockCurrent
    BY <2>10, BlockCurrentInv
  <2>11. CASE ExitTask
    BY <2>11, ExitTaskInv
  <2>12. CASE UNCHANGED vars
    BY <2>12, StutterInv
  <2> QED
    BY <2>1, <2>2, <2>3, <2>4, <2>5, <2>6, <2>7, <2>8, <2>9, <2>10, <2>11, <2>12
    DEF Next
<1> QED
  BY <1>1, <1>2, PTL DEF Spec

(* Every pointer, stack, page directory, state and counter keeps its type. *)
THEOREM TypeCorrect == Spec => []TypeOK
<1>1. Inv => TypeOK
  BY DEF Inv
<1> QED
  BY <1>1, Inductive, PTL

(* enqueue_task and dequeue_task keep the task list one doubly linked ring *)
(* through the idle task, for every number of tasks.                       *)
THEOREM RingCorrect == Spec => []RingSound
<1>1. Inv => RingSound
  BY DEF Inv, RingSound
<1> QED
  BY <1>1, Inductive, PTL

(* exit_task and reap_dead_task never free a stack, a page directory or a  *)
(* task_t that the CPU or the scheduler still uses.                        *)
THEOREM MemorySafe == Spec => []NoUseAfterFree
<1>1. Inv => NoUseAfterFree
  BY DEF Inv
<1> QED
  BY <1>1, Inductive, PTL

(* A switch always leaves the CPU with the stack, TSS and CR3 of the task  *)
(* that is current.                                                        *)
THEOREM CpuConsistent == Spec => []CpuBelongsToCurrent
<1>1. Inv => CpuBelongsToCurrent
  BY DEF Inv
<1> QED
  BY <1>1, Inductive, PTL

(* Every context that switch_to saved is on a stack of its own.            *)
THEOREM StacksPrivate == Spec => []PrivateStacks
<1>1. Inv => PrivateStacks
  BY DEF Inv
<1> QED
  BY <1>1, Inductive, PTL

----------------------------------------------------------------------------
(* The life cycle of a task.                                               *)

(* What a call of schedule(), block_task() or exit_task() does to states   *)
(* and memory: it reaps R, and perhaps switches to n.                      *)
Switches(R) ==
  /\ Reaped(R) /\ current_task \notin R /\ current_task \in AllTask
  /\ \/ UNCHANGED state
     \/ \E n \in AllTask, st \in {TASK_READY, TASK_BLOCKED, TASK_ZOMBIE} :
          /\ Runnable(state, n)
          /\ state' = [state EXCEPT ![current_task] = st, ![n] = TASK_RUNNING]

LEMMA ScheduleSwitches ==
  ASSUME Inv, TimerSchedule \/ BlockCurrent \/ ExitTask
  PROVE  \E R : Switches(R)
<1>a. TypeOK /\ current_task \in AllTask
  BY Distinct DEF Inv, TypeOK, TimerSchedule, Due, BlockCurrent, ExitTask, TaskRuns
<1>b. boot # "init" /\ ListInv
  BY <1>a, ListFromInv, Distinct DEF Inv, BootInv
<1>c. dead_task \in Task \cup {NULL} /\ mem \in [Task -> {"free", "live"}]
  BY <1>a DEF TypeOK
<1>d. dead_task \notin {NULL, current_task} =>
        (Linked(dead_task) /\ state[dead_task] = TASK_ZOMBIE)
  BY DEF Inv, NoUseAfterFree, TaskInv
<1>e. task_ptr # NULL /\ Runnable(state, Idle)
  BY <1>b, Distinct DEF Inv, BootInv, ListInv, DoublyLinked, Linked
<1>1. CASE TimerSchedule
  <2>1. Schedule /\ ReapDeadTask(dead_task, current_task)
    BY <1>1 DEF TimerSchedule, Schedule
  <2>2. PICK R : Reaped(R) /\ current_task \notin R
    BY <1>b, <1>c, <1>d, <2>1, ReapStep
  <2> PICK n : n = NextTask(next', task_ptr', state)
    OBVIOUS
  <2>3. task_ptr' # NULL
    BY <2>2, Distinct DEF Reaped, ListInv, DoublyLinked, Linked
  <2>4. n \in {Idle} \cup {t \in Task : Runnable(state, t)}
    BY <2>3, NextTaskResult
  <2>5. n \in AllTask /\ Runnable(state, n)
    BY <1>e, <2>4, Distinct
  <2>6. UNCHANGED state \/ SwitchTo(current_task, n, TASK_READY)
    BY <2>1 DEF Schedule
  <2> QED
    BY <1>a, <2>2, <2>5, <2>6 DEF Switches, SwitchTo
<1>2. CASE BlockCurrent
  <2> DEFINE st == [state EXCEPT ![current_task] = TASK_BLOCKED]
  <2> PICK n : n = NextTask(next, task_ptr, st)
    OBVIOUS
  <2>1. ReapDeadTask(dead_task, current_task) /\ SwitchTo(current_task, n, TASK_BLOCKED)
        /\ n # current_task
    BY <1>2 DEF BlockCurrent
  <2>2. PICK R : Reaped(R) /\ current_task \notin R
    BY <1>b, <1>c, <1>d, <2>1, ReapStep
  <2>3. n \in {Idle} \cup {t \in Task : Runnable(st, t)}
    BY <1>e, NextTaskResult
  <2>4. n \in AllTask /\ Runnable(state, n)
    BY <1>a, <1>e, <2>1, <2>3, Distinct DEF Runnable, TypeOK
  <2> QED
    BY <1>a, <2>1, <2>2, <2>4 DEF Switches, SwitchTo
<1>3. CASE ExitTask
  <2> DEFINE st == [state EXCEPT ![current_task] = TASK_ZOMBIE]
  <2> PICK n : n = NextTask(next, task_ptr, st)
    OBVIOUS
  <2>1. /\ ReapDeadTask(current_task, current_task) /\ SwitchTo(current_task, n, TASK_ZOMBIE)
        /\ current_task \in Task
    BY <1>3 DEF ExitTask, TaskRuns
  <2>2. PICK R : Reaped(R) /\ current_task \notin R
    BY <1>b, <1>c, <2>1, ReapStep
  <2>3. n \in {Idle} \cup {t \in Task : Runnable(st, t)}
    BY <1>e, NextTaskResult
  <2>4. n \in AllTask /\ Runnable(state, n)
    BY <1>a, <1>e, <2>1, <2>3, Distinct DEF Runnable, TypeOK
  <2> QED
    BY <1>a, <2>1, <2>2, <2>4 DEF Switches, SwitchTo
<1> QED
  BY <1>1, <1>2, <1>3

(* What no step does to the state and the memory of a task.                *)
Lives(t) ==
  mem[t] = "live" =>
    /\ state[t] = TASK_ZOMBIE => state'[t] = TASK_ZOMBIE \/ mem'[t] = "free"
    /\ state[t] = TASK_BLOCKED =>
         mem'[t] = "live" /\ (state'[t] = TASK_BLOCKED \/ current_task' = current_task)
    /\ mem'[t] = "free" => t # current_task

LEMMA StepLives ==
  ASSUME Inv, Next, NEW t \in Task
  PROVE  Lives(t)
<1>a. /\ TypeOK /\ t \in AllTask
      /\ current_task = NULL \/ (current_task \in AllTask
                                 /\ state[current_task] \in {TASK_NEW, TASK_RUNNING})
  BY Distinct DEF Inv, TypeOK, TaskInv
<1>1. CASE TimerSchedule \/ BlockCurrent \/ ExitTask
  <2>1. PICK R : Switches(R)
    BY <1>1, ScheduleSwitches
  <2>2. mem'[t] = IF t \in R THEN "free" ELSE mem[t]
    BY <2>1 DEF Switches, Reaped
  <2>3. t \in R => state[t] = TASK_ZOMBIE
    BY <2>1 DEF Switches, Reaped
  <2>4. (state[t] \in {TASK_ZOMBIE, TASK_BLOCKED}) => state'[t] = state[t]
    BY <1>a, <2>1, Distinct DEF Switches, Runnable, TypeOK
  <2>5. t \in R => t # current_task
    BY <2>1 DEF Switches
  <2> QED BY <2>2, <2>3, <2>4, <2>5 DEF Lives
<1>2. CASE TimerTick \/ InitIdleTask \/ BootSetRunning \/ EnterUserTask \/ BootFail
  <2>1. UNCHANGED mem
    BY <1>2 DEF TimerTick, InitIdleTask, BootSetRunning, EnterUserTask, BootFail
  <2>2. (state[t] \in {TASK_ZOMBIE, TASK_BLOCKED}) => state'[t] = state[t]
    BY <1>2, <1>a, Distinct DEF TypeOK, TimerTick, InitIdleTask, BootSetRunning, EnterUserTask, BootFail
  <2> QED BY <2>1, <2>2 DEF Lives
<1>3. ASSUME NEW u \in Task, EnterProc1(u) \/ SpawnTask(u)
      PROVE  Lives(t)
  <2>1. CreateTask(u)
    BY <1>3 DEF EnterProc1, SpawnTask
  <2>2. mem[t] = "live" => t # u
    BY <2>1 DEF CreateTask
  <2>3. t # u => mem'[t] = mem[t] /\ state'[t] = state[t]
    BY <1>a, <2>1 DEF CreateTask, TypeOK
  <2> QED BY <2>2, <2>3 DEF Lives
<1>4. ASSUME NEW u \in Task, EnqueueTask(u) \/ BlockOther(u) \/ WakeTask(u)
      PROVE  Lives(t)
  <2>1. UNCHANGED <<mem, current_task>>
    BY <1>4 DEF EnqueueTask, BlockOther, WakeTask
  <2>2. state[t] = TASK_ZOMBIE => state'[t] = TASK_ZOMBIE
    BY <1>4, <1>a DEF EnqueueTask, BlockOther, WakeTask, Runnable, TypeOK
  <2> QED BY <2>1, <2>2 DEF Lives
<1>5. ASSUME NEW u \in Task, DestroyTask(u)
      PROVE  Lives(t)
  <2>1. /\ mem' = [mem EXCEPT ![u] = "free"] /\ UNCHANGED <<state, current_task>>
        /\ state[u] = TASK_NEW /\ ~Linked(u) /\ current_task \in Task
    BY <1>5 DEF DestroyTask, TaskRuns, Linked
  <2>2. u # current_task
    BY <2>1, Distinct DEF Inv, NoUseAfterFree
  <2>3. t # u => mem'[t] = mem[t]
    BY <1>a, <2>1 DEF TypeOK
  <2> QED BY <2>1, <2>2, <2>3 DEF Lives
<1> QED
  BY <1>1, <1>2, <1>3, <1>4, <1>5 DEF Next

(* schedule, block_task, exit_task and reap_dead_task: an exited task is   *)
(* never current again, a blocked one only after wake_task, and a task     *)
(* that is freed is on no side of a switch and in nobody's links.          *)
THEOREM LifeCycleKept == Spec => LifeCycle
<1> DEFINE Step ==
      \A t \in Task : mem[t] = "live" =>
        /\ state[t] = TASK_ZOMBIE =>
             current_task' # t /\ (state'[t] = TASK_ZOMBIE \/ mem'[t] = "free")
        /\ state[t] = TASK_BLOCKED => current_task' # t /\ mem'[t] = "live"
        /\ mem'[t] = "free" =>
             /\ t \notin {current_task, current_task', dead_task'}
             /\ \A u \in AllTask : t \notin {next'[u], prev'[u]}
<1>1. Inv /\ Inv' /\ [Next]_vars => [Step]_vars
  <2> SUFFICES ASSUME Inv, Inv', Next, NEW t \in Task, mem[t] = "live"
               PROVE  /\ state[t] = TASK_ZOMBIE =>
                           current_task' # t /\ (state'[t] = TASK_ZOMBIE \/ mem'[t] = "free")
                      /\ state[t] = TASK_BLOCKED => current_task' # t /\ mem'[t] = "live"
                      /\ mem'[t] = "free" =>
                           /\ t \notin {current_task, current_task', dead_task'}
                           /\ \A u \in AllTask : t \notin {next'[u], prev'[u]}
    BY DEF vars
  <2>1. Lives(t)
    BY StepLives
  <2>2. t \in AllTask /\ t # NULL
    BY Distinct
  <2>3. current_task' = t => state'[t] \in {TASK_NEW, TASK_RUNNING} /\ next'[t] # NULL
    BY <2>2 DEF Inv, TaskInv, NoUseAfterFree, Linked
  <2>4. next'[t] # NULL => mem'[t] = "live"
    BY DEF Inv, NoUseAfterFree, Linked
  <2>5. dead_task' = t => next'[t] # NULL
    BY <2>2 DEF Inv, NoUseAfterFree, Linked
  <2>6. current_task = t => state[t] \in {TASK_NEW, TASK_RUNNING}
    BY <2>2 DEF Inv, TaskInv
  <2>7. ASSUME next'[t] = NULL, NEW u \in AllTask
        PROVE  t \notin {next'[u], prev'[u]}
    BY <2>2, <2>7, Distinct DEF Inv, DoublyLinked, Linked
  <2> QED
    BY <2>1, <2>3, <2>4, <2>5, <2>6, <2>7 DEF Lives
<1> QED
  BY <1>1, Inductive, PTL DEF LifeCycle, Spec

----------------------------------------------------------------------------
(* The steps of RoundRobin.                                                *)

LEMMA Least ==
  ASSUME NEW S \in SUBSET Nat, S # {}
  PROVE  \E x \in S : \A y \in S : x <= y
<1>1. IsWellFoundedOn(OpToRel(<, Nat), Nat)
  BY NatLessThanWellFounded
<1>2. PICK x \in S : \A y \in S : ~(<<y, x>> \in OpToRel(<, Nat))
  BY <1>1, WFMin
<1>3. \A y \in S : ~(y < x)
  BY <1>2 DEF OpToRel
<1> QED
  BY <1>3

(* What holds at 0 and at every next number holds up to n.                 *)
Climbs(P, n) == 0 \in P /\ \A k \in 1..n : k - 1 \in P => k \in P

LEMMA Climb ==
  ASSUME NEW P, NEW n \in Nat, Climbs(P, n)
  PROVE  0..n \subseteq P
<1> DEFINE T == {k \in 0..n : k \notin P}
<1>1. T \in SUBSET Nat
  OBVIOUS
<1>2. T = {}
  <2>1. SUFFICES ASSUME T # {} PROVE FALSE
    OBVIOUS
  <2>2. PICK k \in T : \A j \in T : k <= j
    BY <1>1, <2>1, Least
  <2>3. k \in Nat /\ k <= n /\ k \notin P
    OBVIOUS
  <2>4. k # 0
    BY <2>3 DEF Climbs
  <2>5. k \in 1..n /\ k - 1 \in 0..n /\ k - 1 < k
    BY <2>3, <2>4
  <2>6. k - 1 \in P
    BY <2>2, <2>3, <2>5
  <2> QED BY <2>3, <2>5, <2>6 DEF Climbs
<1> QED BY <1>2

(* n steps along the links, from a.                                        *)
Goes(f, a, links, n) == f[0] = a /\ \A k \in 1..n : f[k] = links[f[k - 1]]

(* Links that lead from R to R can be followed from there.                 *)
LEMMA GoesExists ==
  ASSUME NEW R, NEW a \in R, NEW links, \A x \in R : links[x] \in R, NEW n \in Nat
  PROVE  \E f \in [0..n -> R] : Goes(f, a, links, n)
<1> DEFINE P == {k \in Nat : \E f \in [0..k -> R] : Goes(f, a, links, k)}
<1>1. 0 \in P
  <2> DEFINE f == [j \in 0..0 |-> a]
  <2>1. f \in [0..0 -> R] /\ f[0] = a /\ 1..0 = {}
    OBVIOUS
  <2>2. Goes(f, a, links, 0)
    BY <2>1 DEF Goes
  <2> QED BY <2>1, <2>2
<1>2. ASSUME NEW k \in 1..n, k - 1 \in P PROVE k \in P
  <2>1. PICK m \in Nat : m = k - 1 /\ k = m + 1
    <3>1. k - 1 \in Nat /\ k = k - 1 + 1
      OBVIOUS
    <3> QED BY <3>1
  <2>2. PICK g \in [0..m -> R] : Goes(g, a, links, m)
    BY <1>2, <2>1
  <2> DEFINE f == [j \in 0..k |-> IF j = k THEN links[g[m]] ELSE g[j]]
  <2>3. f \in [0..k -> R]
    <3>1. ASSUME NEW j \in 0..k PROVE (IF j = k THEN links[g[m]] ELSE g[j]) \in R
      <4>1. g[m] \in R /\ (j # k => j \in 0..m)
        BY <2>1
      <4> QED BY <4>1
    <3> QED BY <3>1
  <2>4. f[0] = a
    BY <2>1, <2>2 DEF Goes
  <2>5. ASSUME NEW j \in 1..k PROVE f[j] = links[f[j - 1]]
    <3>1. CASE j = k
      BY <2>1, <3>1
    <3>2. CASE j # k
      <4>1. j \in 1..m /\ j \in 0..k /\ j - 1 \in 0..k /\ j - 1 # k
        BY <2>1, <3>2
      <4>2. g[j] = links[g[j - 1]]
        BY <2>2, <4>1 DEF Goes
      <4> QED BY <3>2, <4>1, <4>2
    <3> QED BY <3>1, <3>2
  <2>6. Goes(f, a, links, k)
    <3> HIDE DEF f
    <3> QED BY <2>4, <2>5 DEF Goes
  <2> QED BY <2>3, <2>6
<1>3. PICK Q : Q = P
  OBVIOUS
<1>4. Climbs(Q, n)
  BY <1>1, <1>2, <1>3 DEF Climbs
<1>5. n \in Q
  <2>1. 0..n \subseteq Q
    BY <1>4, Climb
  <2> QED BY <2>1
<1> QED BY <1>3, <1>5

(* The loop of next_task, on a set of tasks that the links do not leave.   *)
SIZE == Cardinality(Task)

IsWalk(w, links, start) == w = [n \in 0..SIZE |-> IF n = 0 THEN start ELSE links[w[n - 1]]]

LEMMA SizeIsNat == SIZE \in Nat
BY SchedAssumption, FS_CardinalityType DEF SIZE

LEMMA WalkGoes ==
  ASSUME NEW R, NEW start \in R, NEW links, \A x \in R : links[x] \in R
  PROVE  /\ Walk(links, start) \in [0..SIZE -> R]
         /\ Goes(Walk(links, start), start, links, SIZE)
<1>1. PICK N \in Nat : N = SIZE
  BY SizeIsNat
<1>2. PICK f \in [0..N -> R] : Goes(f, start, links, N)
  BY GoesExists
<1>3. IsWalk(f, links, start)
  <2>1. ASSUME NEW n \in 0..N PROVE f[n] = IF n = 0 THEN start ELSE links[f[n - 1]]
    BY <1>2, <2>1 DEF Goes
  <2>2. f = [n \in 0..N |-> f[n]]
    OBVIOUS
  <2> QED BY <1>1, <2>1, <2>2 DEF IsWalk
<1>4. PICK w : w = Walk(links, start)
  OBVIOUS
<1>5. IsWalk(w, links, start)
  <2>1. w = CHOOSE u : IsWalk(u, links, start)
    BY <1>4, Zenon DEF Walk, IsWalk, SIZE
  <2> QED BY <1>3, <2>1, Zenon
<1>6. DOMAIN w = 0..N /\ Goes(w, start, links, N)
  <2>1. w = [n \in 0..N |-> IF n = 0 THEN start ELSE links[w[n - 1]]]
    BY <1>1, <1>5 DEF IsWalk
  <2> QED BY <2>1 DEF Goes
<1>7. PICK P : P = {n \in 0..N : w[n] \in R}
  OBVIOUS
<1>8. Climbs(P, N)
  BY <1>6, <1>7 DEF Climbs, Goes
<1>9. \A n \in 0..N : w[n] \in R
  BY <1>7, <1>8, Climb
<1>10. w = [n \in 0..N |-> w[n]]
  BY <1>1, <1>5 DEF IsWalk
<1> QED BY <1>1, <1>4, <1>6, <1>9, <1>10

(* The ring of n enqueued tasks, which fits the loop.                      *)
Ring(links, n, q) ==
  n \in Nat /\ n <= SIZE /\ q \in [0..n -> AllTask] /\ IsRing(links, n, q)

Members(n, q) == {q[i] : i \in 0..n}

(* The m-th task of the ring behind the one at place k.                    *)
After(q, n, k, m) == IF m < n - k THEN q[k + 1 + m] ELSE q[m - (n - k)]

LEMMA RingClosed ==
  ASSUME NEW links, NEW n, NEW q, Ring(links, n, q), NEW x \in Members(n, q)
  PROVE  links[x] \in Members(n, q)
<1>1. n \in Nat /\ IsRing(links, n, q)
  BY DEF Ring
<1>2. PICK i \in 0..n : x = q[i]
  BY DEF Members
<1>3. CASE i = n
  <2>1. links[x] = q[0] /\ 0 \in 0..n
    BY <1>1, <1>2, <1>3 DEF IsRing
  <2> QED BY <2>1 DEF Members
<1>4. CASE i # n
  <2>1. links[x] = q[i + 1] /\ i + 1 \in 0..n
    BY <1>1, <1>2, <1>4 DEF IsRing
  <2> QED BY <2>1 DEF Members
<1> QED BY <1>3, <1>4

(* The walk of next_task goes round the ring.                              *)
LEMMA WalkRound ==
  ASSUME NEW links, NEW n, NEW q, Ring(links, n, q), NEW k \in 0..n,
         NEW w, w = Walk(links, links[q[k]])
  PROVE  /\ w \in [0..SIZE -> Members(n, q)]
         /\ \A m \in 0..n : w[m] = After(q, n, k, m)
<1>1. n \in Nat /\ n <= SIZE /\ SIZE \in Nat /\ IsRing(links, n, q)
  BY SizeIsNat DEF Ring
<1>2. PICK R : R = Members(n, q)
  OBVIOUS
<1>3. PICK a \in R : a = links[q[k]]
  <2>1. q[k] \in Members(n, q)
    BY DEF Members
  <2> QED BY <1>2, <2>1, RingClosed
<1>4. \A x \in R : links[x] \in R
  BY <1>2, RingClosed
<1>5. w \in [0..SIZE -> R] /\ Goes(w, a, links, SIZE)
  BY <1>3, <1>4, WalkGoes
<1>6. /\ links[q[n]] = q[0]
      /\ \A i \in 0..(n - 1) : links[q[i]] = q[i + 1]
  BY <1>1 DEF IsRing
<1>7. PICK P : P = {m \in 0..n : w[m] = After(q, n, k, m)}
  OBVIOUS
<1>8. 0 \in P
  <2>1. w[0] = links[q[k]]
    BY <1>3, <1>5 DEF Goes
  <2>2. CASE k = n
    <3>1. After(q, n, k, 0) = q[0]
      BY <1>1, <2>2 DEF After
    <3> QED BY <1>1, <1>6, <1>7, <2>1, <2>2, <3>1
  <2>3. CASE k # n
    <3>1. After(q, n, k, 0) = q[k + 1] /\ k \in 0..(n - 1)
      BY <1>1, <2>3 DEF After
    <3> QED BY <1>1, <1>6, <1>7, <2>1, <3>1
  <2> QED BY <2>2, <2>3
<1>9. ASSUME NEW m \in 1..n, m - 1 \in P PROVE m \in P
  <2>1. PICK j \in 0..n : j = m - 1 /\ m = j + 1 /\ j < n
    BY <1>1
  <2>2. w[j] = After(q, n, k, j)
    BY <1>7, <1>9, <2>1
  <2>3. w[m] = links[After(q, n, k, j)]
    <3>1. m \in 1..SIZE
      BY <1>1
    <3> QED BY <1>5, <2>1, <2>2, <3>1 DEF Goes
  <2>4. links[After(q, n, k, j)] = After(q, n, k, m)
    <3>1. CASE m < n - k
      <4>1. /\ After(q, n, k, j) = q[k + 1 + j] /\ After(q, n, k, m) = q[k + 1 + m]
            /\ k + 1 + j \in 0..(n - 1) /\ (k + 1 + j) + 1 = k + 1 + m
        BY <1>1, <2>1, <3>1 DEF After
      <4>2. PICK i \in 0..(n - 1) : i = k + 1 + j /\ i + 1 = k + 1 + m
        BY <4>1
      <4> QED BY <1>6, <4>1, <4>2
    <3>2. CASE m = n - k
      <4>1. /\ After(q, n, k, j) = q[n] /\ After(q, n, k, m) = q[0]
        BY <1>1, <2>1, <3>2 DEF After
      <4> QED BY <1>6, <4>1
    <3>3. CASE m > n - k
      <4>1. /\ After(q, n, k, j) = q[j - (n - k)] /\ After(q, n, k, m) = q[m - (n - k)]
            /\ j - (n - k) \in 0..(n - 1) /\ (j - (n - k)) + 1 = m - (n - k)
        BY <1>1, <2>1, <3>3 DEF After
      <4>2. PICK i \in 0..(n - 1) : i = j - (n - k) /\ i + 1 = m - (n - k)
        BY <4>1
      <4> QED BY <1>6, <4>1, <4>2
    <3> QED BY <1>1, <2>1, <3>1, <3>2, <3>3
  <2> QED BY <1>7, <2>3, <2>4
<1>10. 0..n \subseteq P
  BY <1>1, <1>8, <1>9, Climb DEF Climbs
<1> QED BY <1>2, <1>5, <1>7, <1>10

----------------------------------------------------------------------------
(* What next_task returns.                                                 *)

Fit(st) == {t \in Task : Runnable(st, t)}

(* The places of tasks that may run; the ones that count when the task at  *)
(* place k runs: those behind it, or else all.                             *)
ReadyAt(q, n, R) == {i \in 1..n : q[i] \in R}
Counts(q, n, k, R) ==
  IF {i \in ReadyAt(q, n, R) : k < i} = {} THEN ReadyAt(q, n, R)
  ELSE {i \in ReadyAt(q, n, R) : k < i}

Lowest(S, b) == b \in S /\ \A j \in S : b <= j

(* The loop of next_task stops at the first task of the walk that fits.    *)
Stops(w, R, m) == w[m] \in R /\ \A j \in 0..(m - 1) : w[j] \notin R

LEMMA NextTaskStops ==
  ASSUME NEW links, NEW tail, tail # NULL, NEW st, current_task # NULL,
         NEW w, w = Walk(links, links[current_task]), DOMAIN w = 0..SIZE,
         NEW R, R = Fit(st)
  PROVE  /\ \A m \in 0..SIZE : Stops(w, R, m) => NextTask(links, tail, st) = w[m]
         /\ (\A m \in 0..SIZE : w[m] \notin R) => NextTask(links, tail, st) = Idle
<1> DEFINE First(t) == \E n \in DOMAIN w :
                         /\ w[n] = t
                         /\ \A m \in 0..(n - 1) : w[m] \in Task => ~Runnable(st, w[m])
           found == {t \in Task : Runnable(st, t) /\ First(t)}
<1>1. NextTask(links, tail, st) = IF found = {} THEN Idle ELSE CHOOSE t \in found : TRUE
  BY Zenon DEF NextTask
<1>2. \A x : x \in R <=> (x \in Task /\ Runnable(st, x))
  BY DEF Fit
<1>3. \A t : t \in found <=> \E n \in 0..SIZE : w[n] = t /\ Stops(w, R, n)
  BY <1>2 DEF Stops
<1> HIDE DEF found
<1>4. ASSUME NEW m \in 0..SIZE, Stops(w, R, m) PROVE NextTask(links, tail, st) = w[m]
  <2>1. w[m] \in found
    BY <1>3, <1>4
  <2>2. ASSUME NEW t \in found PROVE t = w[m]
    <3>1. PICK n \in 0..SIZE : w[n] = t /\ Stops(w, R, n)
      BY <1>3, <2>2
    <3>2. n = m
      BY <1>4, <3>1, SizeIsNat DEF Stops
    <3> QED BY <3>1, <3>2
  <2>3. (CHOOSE t \in found : TRUE) \in found
    BY <2>1
  <2> QED BY <1>1, <2>1, <2>2, <2>3
<1>5. ASSUME \A m \in 0..SIZE : w[m] \notin R PROVE NextTask(links, tail, st) = Idle
  <2>1. found = {}
    BY <1>3, <1>5 DEF Stops
  <2> QED BY <1>1, <2>1
<1> QED BY <1>4, <1>5

(* next_task returns the first task that may run behind the current one,   *)
(* or else from the head of the ring on, the current one itself last.      *)
LEMMA NextTaskRound ==
  ASSUME NEW links, NEW n, NEW q, Ring(links, n, q), NEW k \in 0..n,
         current_task = q[k], current_task # NULL, NEW tail, tail # NULL, NEW st,
         NEW R, R = Fit(st)
  PROVE  /\ ReadyAt(q, n, R) = {} => NextTask(links, tail, st) = Idle
         /\ \A b : Lowest(Counts(q, n, k, R), b) => NextTask(links, tail, st) = q[b]
<1>1. n \in Nat /\ n <= SIZE /\ SIZE \in Nat /\ q \in [0..n -> AllTask] /\ q[0] = Idle
  BY SizeIsNat DEF Ring, IsRing
<1>2. PICK w : w = Walk(links, links[current_task])
  OBVIOUS
<1>3. w \in [0..SIZE -> Members(n, q)] /\ \A m \in 0..n : w[m] = After(q, n, k, m)
  BY <1>2, WalkRound
<1>4. Idle \notin R
  BY Distinct DEF Fit
<1>5. /\ \A m \in 0..SIZE : Stops(w, R, m) => NextTask(links, tail, st) = w[m]
      /\ (\A m \in 0..SIZE : w[m] \notin R) => NextTask(links, tail, st) = Idle
  BY <1>2, <1>3, NextTaskStops
<1>6. ASSUME ReadyAt(q, n, R) = {} PROVE NextTask(links, tail, st) = Idle
  <2>1. ASSUME NEW i \in 0..n PROVE q[i] \notin R
    <3>1. CASE i = 0
      BY <1>1, <1>4, <3>1
    <3>2. CASE i # 0
      <4>1. i \in 1..n
        BY <1>1, <3>2
      <4> QED BY <1>6, <4>1 DEF ReadyAt
    <3> QED BY <3>1, <3>2
  <2>2. \A m \in 0..SIZE : w[m] \notin R
    BY <1>3, <2>1 DEF Members
  <2> QED BY <1>5, <2>2
<1>7. ASSUME NEW b, Lowest(Counts(q, n, k, R), b) PROVE NextTask(links, tail, st) = q[b]
  <2> DEFINE behind == {i \in ReadyAt(q, n, R) : k < i}
  <2>1. b \in 1..n /\ q[b] \in R
    BY <1>7 DEF Lowest, Counts, ReadyAt
  <2>2. CASE behind # {}
    <3>1. k < b /\ \A j \in 1..n : (k < j /\ q[j] \in R) => b <= j
      BY <1>7, <2>2 DEF Lowest, Counts, ReadyAt
    <3>2. PICK m \in 0..n : m = b - k - 1 /\ m < n - k /\ k + 1 + m = b
      <4>1. b - k - 1 \in 0..n /\ b - k - 1 < n - k /\ k + 1 + (b - k - 1) = b
        BY <1>1, <2>1, <3>1
      <4> QED BY <4>1
    <3>3. w[m] = q[b]
      BY <1>3, <3>2 DEF After
    <3>4. ASSUME NEW j \in 0..(m - 1) PROVE w[j] \notin R
      <4>1. PICK i \in 1..n : i = k + 1 + j /\ k < i /\ i < b /\ j \in 0..n /\ j < n - k
        <5>1. k + 1 + j \in 1..n /\ k < k + 1 + j /\ k + 1 + j < b /\ j \in 0..n /\ j < n - k
          BY <1>1, <2>1, <3>2
        <5> QED BY <5>1
      <4>2. w[j] = q[i]
        BY <1>3, <4>1 DEF After
      <4> QED BY <2>1, <3>1, <4>1, <4>2
    <3>5. m \in 0..SIZE /\ Stops(w, R, m)
      BY <1>1, <2>1, <3>3, <3>4 DEF Stops
    <3> QED BY <1>5, <3>3, <3>5
  <2>3. CASE behind = {}
    <3>1. \A j \in 1..n : q[j] \in R => (~(k < j) /\ b <= j)
      BY <1>7, <2>3 DEF Lowest, Counts, ReadyAt
    <3>2. b <= k
      BY <1>1, <2>1, <3>1
    <3>3. PICK m \in 0..n : m = b + (n - k) /\ ~(m < n - k) /\ m - (n - k) = b
      <4>1. b + (n - k) \in 0..n /\ ~(b + (n - k) < n - k) /\ (b + (n - k)) - (n - k) = b
        BY <1>1, <2>1, <3>2
      <4> QED BY <4>1
    <3>4. w[m] = q[b]
      BY <1>3, <3>3 DEF After
    <3>5. ASSUME NEW j \in 0..(m - 1) PROVE w[j] \notin R
      <4>1. j \in 0..n
        BY <1>1, <3>3
      <4>2. CASE j < n - k
        <5>1. PICK i \in 1..n : i = k + 1 + j /\ k < i
          <6>1. k + 1 + j \in 1..n /\ k < k + 1 + j
            BY <1>1, <4>2
          <6> QED BY <6>1
        <5>2. w[j] = q[i]
          BY <1>3, <4>1, <4>2, <5>1 DEF After
        <5> QED BY <3>1, <5>1, <5>2
      <4>3. CASE ~(j < n - k)
        <5>1. PICK i \in 0..n : i = j - (n - k) /\ i < b
          <6>1. j - (n - k) \in 0..n /\ j - (n - k) < b
            BY <1>1, <2>1, <3>3, <4>3
          <6> QED BY <6>1
        <5>2. w[j] = q[i]
          BY <1>3, <4>1, <4>3, <5>1 DEF After
        <5>3. CASE i = 0
          BY <1>1, <1>4, <5>2, <5>3
        <5>4. CASE i # 0
          <6>1. i \in 1..n
            BY <1>1, <5>4
          <6> QED BY <2>1, <3>1, <5>1, <5>2, <6>1
        <5> QED BY <5>3, <5>4
      <4> QED BY <4>2, <4>3
    <3>6. m \in 0..SIZE /\ Stops(w, R, m)
      BY <1>1, <2>1, <3>4, <3>5 DEF Stops
    <3> QED BY <1>5, <3>4, <3>6
  <2> QED BY <2>2, <2>3
<1> QED BY <1>6, <1>7

----------------------------------------------------------------------------
(* The queue that the ring stands for, and whom RoundRobin picks from it.  *)

Queue(q, n) == [i \in 1..n |-> q[i]]

Order(links, n) == LET w == Walk(links, Idle) IN [i \in 1..n |-> w[i]]

LEMMA OrderIs ==
  ASSUME NEW links, NEW n, NEW q, Ring(links, n, q)
  PROVE  Order(links, n) = Queue(q, n)
<1>1. n \in Nat /\ n <= SIZE /\ SIZE \in Nat /\ links[q[n]] = Idle
  BY SizeIsNat DEF Ring, IsRing
<1>2. PICK w : w = Walk(links, links[q[n]])
  OBVIOUS
<1>3. \A m \in 0..n : w[m] = After(q, n, n, m)
  <2>1. n \in 0..n
    BY <1>1
  <2> QED BY <1>2, <2>1, WalkRound
<1>4. \A m \in 1..n : w[m] = q[m]
  BY <1>1, <1>3 DEF After
<1>5. w = Walk(links, Idle)
  BY <1>1, <1>2
<1> QED BY <1>4, <1>5, Zenon DEF Order, Queue

LEMMA MinIs ==
  ASSUME NEW S \in SUBSET Nat, NEW b, Lowest(S, b)
  PROVE  Promise!Min(S) = b
<1>1. b \in S /\ \A y \in S : b <= y
  BY DEF Lowest
<1>2. PICK c : c = CHOOSE x \in S : \A y \in S : x <= y
  OBVIOUS
<1>3. c \in S /\ \A y \in S : c <= y
  BY <1>1, <1>2
<1>4. c = b
  BY <1>1, <1>3
<1> QED BY <1>2, <1>4 DEF Promise!Min

(* Status s says of the tasks of the ring which are in R.                  *)
Agrees(s, q, n, R) == \A i \in 1..n : s[q[i]] = "ready" <=> q[i] \in R

LEMMA PickIs ==
  ASSUME NEW links, NEW n, NEW q, Ring(links, n, q), NEW k \in 0..n, current_task = q[k],
         NEW R, NEW s, Agrees(s, q, n, R)
  PROVE  /\ ReadyAt(q, n, R) = {} => Promise!Pick(Queue(q, n), s) = Idle
         /\ \A b : Lowest(Counts(q, n, k, R), b) => Promise!Pick(Queue(q, n), s) = q[b]
<1>1. /\ n \in Nat /\ \A i, j \in 0..n : q[i] = q[j] => i = j
  BY DEF Ring, IsRing
<1>2. PICK u : u = Queue(q, n)
  OBVIOUS
<1>3. DOMAIN u = 1..n /\ \A i \in 1..n : u[i] = q[i]
  BY <1>2 DEF Queue
<1> DEFINE ready == {i \in DOMAIN u : s[u[i]] = "ready"}
           behind == {i \in ready : \E j \in DOMAIN u : j < i /\ u[j] = current_task}
<1>4. Promise!Pick(u, s) =
        IF ready = {} THEN Idle ELSE u[Promise!Min(IF behind = {} THEN ready ELSE behind)]
  BY DEF Promise!Pick
<1>5. ready = ReadyAt(q, n, R) /\ ready \in SUBSET Nat
  BY <1>1, <1>3 DEF ReadyAt, Agrees
<1>6. \A i \in 1..n : (\E j \in DOMAIN u : j < i /\ u[j] = current_task) <=> (k # 0 /\ k < i)
  <2>1. ASSUME NEW i \in 1..n, NEW j \in DOMAIN u, j < i, u[j] = current_task
        PROVE  k # 0 /\ k < i
    <3>1. j \in 1..n /\ j \in 0..n /\ q[j] = q[k]
      BY <1>1, <1>3, <2>1
    <3> QED BY <1>1, <2>1, <3>1
  <2>2. ASSUME NEW i \in 1..n, k # 0, k < i
        PROVE  \E j \in DOMAIN u : j < i /\ u[j] = current_task
    <3>1. k \in DOMAIN u /\ u[k] = current_task
      BY <1>1, <1>3, <2>2
    <3> QED BY <2>2, <3>1
  <2> QED BY <2>1, <2>2
<1>7. (IF behind = {} THEN ready ELSE behind) = Counts(q, n, k, R)
  <2>1. CASE k = 0
    <3>1. behind = {}
      BY <1>3, <1>6, <2>1
    <3>2. {i \in ready : k < i} = ready
      BY <1>1, <1>3, <2>1
    <3> QED BY <1>5, <3>1, <3>2 DEF Counts
  <2>2. CASE k # 0
    <3>1. behind = {i \in ready : k < i}
      BY <1>3, <1>6, <2>2
    <3> QED BY <1>5, <3>1 DEF Counts
  <2> QED BY <2>1, <2>2
<1>8. PICK C : C = Counts(q, n, k, R)
  OBVIOUS
<1>9. C \in SUBSET (1..n) /\ (C # {} => ready # {})
  BY <1>5, <1>8 DEF Counts, ReadyAt
<1>10. Promise!Pick(u, s) = IF ready = {} THEN Idle ELSE u[Promise!Min(C)]
  BY <1>4, <1>7, <1>8, Zenon
<1> HIDE DEF ready, behind
<1>11. ASSUME NEW b, Lowest(C, b) PROVE Promise!Pick(u, s) = q[b]
  <2>1. b \in 1..n /\ ready # {}
    BY <1>9, <1>11 DEF Lowest
  <2>2. Promise!Min(C) = b
    <3>1. C \in SUBSET Nat
      BY <1>9
    <3> QED BY <1>11, <3>1, MinIs
  <2> QED BY <1>3, <1>10, <2>1, <2>2
<1> QED BY <1>2, <1>5, <1>8, <1>10, <1>11

(* next_task picks whom RoundRobin picks.                                  *)
LEMMA NextTaskPicks ==
  ASSUME NEW links, NEW n, NEW q, Ring(links, n, q), NEW k \in 0..n,
         current_task = q[k], current_task # NULL, NEW tail, tail # NULL, NEW st, NEW s,
         Agrees(s, q, n, Fit(st))
  PROVE  NextTask(links, tail, st) = Promise!Pick(Queue(q, n), s)
<1>1. PICK R : R = Fit(st)
  OBVIOUS
<1>2. /\ ReadyAt(q, n, R) = {} => NextTask(links, tail, st) = Idle
      /\ \A b : Lowest(Counts(q, n, k, R), b) => NextTask(links, tail, st) = q[b]
  BY <1>1, NextTaskRound
<1>3. /\ ReadyAt(q, n, R) = {} => Promise!Pick(Queue(q, n), s) = Idle
      /\ \A b : Lowest(Counts(q, n, k, R), b) => Promise!Pick(Queue(q, n), s) = q[b]
  BY <1>1, PickIs
<1>4. CASE ReadyAt(q, n, R) # {}
  <2>1. PICK C : C = Counts(q, n, k, R)
    OBVIOUS
  <2>2. C \in SUBSET Nat /\ C # {}
    BY <1>4, <2>1 DEF Counts, ReadyAt
  <2>3. PICK b \in C : \A j \in C : b <= j
    BY <2>2, Least
  <2>4. Lowest(C, b)
    BY <2>3 DEF Lowest
  <2> QED BY <1>2, <1>3, <2>1, <2>4
<1> QED BY <1>2, <1>3, <1>4

----------------------------------------------------------------------------
(* How the queue changes.                                                  *)

Held(links) == {t \in Task : links[t] # NULL}
Size(links) == Cardinality(Held(links))

LEMMA RingHeld ==
  ASSUME NEW links, \E q \in [0..Size(links) -> AllTask] : IsRing(links, Size(links), q)
  PROVE  \E q : Ring(links, Size(links), q) /\ Order(links, Size(links)) = Queue(q, Size(links))
<1>1. Held(links) \subseteq Task /\ IsFiniteSet(Task)
  BY SchedAssumption DEF Held
<1>2. IsFiniteSet(Held(links)) /\ Size(links) <= SIZE
  BY <1>1, FS_Subset DEF Size, SIZE
<1>3. PICK n \in Nat : n = Size(links)
  BY <1>2, FS_CardinalityType DEF Size
<1>4. PICK q \in [0..n -> AllTask] : IsRing(links, n, q)
  BY <1>3
<1>5. Ring(links, n, q)
  BY <1>2, <1>3, <1>4 DEF Ring
<1>6. Order(links, n) = Queue(q, n)
  BY <1>5, OrderIs
<1> QED BY <1>3, <1>5, <1>6

LEMMA OrderOfState ==
  /\ RingOrder = Order(next, Size(next)) /\ LinkedTasks = Held(next)
  /\ RingOrder' = Order(next', Size(next')) /\ LinkedTasks' = Held(next')
BY Zenon DEF RingOrder, Order, Size, Held, Linked, LinkedTasks

(* The ring of a list, and the queue it stands for.                        *)
LEMMA RingNow ==
  ASSUME ListInv
  PROVE  \E q : Ring(next, Size(next), q) /\ RingOrder = Queue(q, Size(next))
<1>1. task_ptr # NULL
  BY Distinct DEF ListInv, DoublyLinked, Linked
<1>2. \E q \in [0..Size(next) -> AllTask] : IsRing(next, Size(next), q)
  BY <1>1 DEF ListInv, OneRing, Size, Held, Linked
<1> QED BY <1>2, RingHeld, OrderOfState

LEMMA RingThen ==
  ASSUME ListInv'
  PROVE  \E q : Ring(next', Size(next'), q) /\ RingOrder' = Queue(q, Size(next'))
<1>1. task_ptr' # NULL
  BY Distinct DEF ListInv, DoublyLinked, Linked
<1>2. \E q \in [0..Size(next') -> AllTask] : IsRing(next', Size(next'), q)
  BY <1>1 DEF ListInv, OneRing, Size, Held, Linked
<1>3. PICK links : links = next'
  OBVIOUS
<1>4. \E q : Ring(links, Size(links), q) /\ Order(links, Size(links)) = Queue(q, Size(links))
  BY <1>2, <1>3, RingHeld
<1> QED BY <1>3, <1>4, OrderOfState

(* A task is linked behind the tail.                                       *)
LinksTail(long, links, tail, t) == long = [links EXCEPT ![t] = Idle, ![tail] = t]
Extends(r, q, n, t) == r[n + 1] = t /\ \A i \in 0..n : r[i] = q[i]

LEMMA RingLonger ==
  ASSUME NEW links \in [AllTask -> AllTask \cup {NULL}], NEW n, NEW q, Ring(links, n, q),
         NEW t \in AllTask, t \notin Members(n, q),
         NEW tail, tail = q[n], NEW long, LinksTail(long, links, tail, t),
         NEW m, m = n + 1, NEW r, Ring(long, m, r)
  PROVE  Extends(r, q, n, t)
<1>0. long = [links EXCEPT ![t] = Idle, ![q[n]] = t]
  BY DEF LinksTail
<1>1. /\ n \in Nat /\ q \in [0..n -> AllTask] /\ q[0] = Idle
      /\ \A i \in 0..(n - 1) : links[q[i]] = q[i + 1]
      /\ \A i, j \in 0..n : q[i] = q[j] => i = j
  BY DEF Ring, IsRing
<1>2. /\ r[0] = Idle
      /\ \A i \in 0..n : long[r[i]] = r[i + 1]
  <2>1. n + 1 - 1 = n
    BY <1>1
  <2> QED BY <2>1 DEF Ring, IsRing
<1>3. \A i \in 0..n : q[i] # t
  BY DEF Members
<1>4. PICK P : P = {i \in 0..n : r[i] = q[i]}
  OBVIOUS
<1>5. 0 \in P
  BY <1>1, <1>2, <1>4
<1>6. ASSUME NEW i \in 1..n, i - 1 \in P PROVE i \in P
  <2>1. PICK j \in 0..(n - 1) : j = i - 1 /\ i = j + 1 /\ j \in 0..n /\ j # n
    <3>1. i - 1 \in 0..(n - 1) /\ i = i - 1 + 1 /\ i - 1 \in 0..n /\ i - 1 # n
      BY <1>1
    <3> QED BY <3>1
  <2>2. r[j] = q[j] /\ r[i] = long[q[j]]
    BY <1>2, <1>4, <1>6, <2>1
  <2>3. q[j] # t /\ q[j] # q[n] /\ q[j] \in AllTask
    BY <1>1, <1>3, <2>1
  <2>4. long[q[j]] = links[q[j]]
    BY <1>0, <2>3
  <2> QED BY <1>1, <1>4, <2>1, <2>2, <2>4
<1>7. \A i \in 0..n : r[i] = q[i]
  BY <1>1, <1>4, <1>5, <1>6, Climb DEF Climbs
<1>8. r[n + 1] = t
  <2>1. n \in 0..n /\ q[n] \in AllTask /\ q[n] # t
    BY <1>1, <1>3
  <2>2. long[q[n]] = t
    BY <1>0, <2>1
  <2> QED BY <1>2, <1>7, <2>1, <2>2
<1> QED BY <1>7, <1>8 DEF Extends

(* The task at place k is taken out.                                       *)
Bridges(short, links, before, t) == short = [links EXCEPT ![before] = links[t], ![t] = NULL]
Skips(r, q, n, k) == \A i \in 0..(n - 1) : r[i] = IF i < k THEN q[i] ELSE q[i + 1]

LEMMA RingShorter ==
  ASSUME NEW links \in [AllTask -> AllTask \cup {NULL}], NEW n, NEW q, Ring(links, n, q),
         NEW k \in 1..n, NEW t, t = q[k], NEW before, before = q[k - 1],
         NEW short, Bridges(short, links, before, t),
         NEW p, p = n - 1, NEW r, Ring(short, p, r)
  PROVE  Skips(r, q, n, k)
<1>0. short = [links EXCEPT ![q[k - 1]] = links[q[k]], ![q[k]] = NULL]
  BY DEF Bridges
<1>1. /\ n \in Nat /\ q \in [0..n -> AllTask] /\ q[0] = Idle
      /\ \A i \in 0..(n - 1) : links[q[i]] = q[i + 1]
      /\ \A i, j \in 0..n : q[i] = q[j] => i = j
  BY DEF Ring, IsRing
<1>2. PICK m \in Nat : m = n - 1 /\ n = m + 1
  <2>1. n - 1 \in Nat /\ n = n - 1 + 1
    BY <1>1
  <2> QED BY <2>1
<1>3. /\ r[0] = Idle
      /\ \A i \in 0..(m - 1) : short[r[i]] = r[i + 1]
  BY <1>2 DEF Ring, IsRing
<1>4. PICK P : P = {i \in 0..m : r[i] = IF i < k THEN q[i] ELSE q[i + 1]}
  OBVIOUS
<1>5. 0 \in P
  BY <1>1, <1>2, <1>3, <1>4
<1>a. ASSUME NEW j \in 0..n, j # k, j # k - 1 PROVE short[q[j]] = links[q[j]]
  <2>1. k \in 0..n /\ k - 1 \in 0..n
    BY <1>1
  <2>2. q[j] # q[k] /\ q[j] # q[k - 1] /\ q[j] \in AllTask
    BY <1>1, <1>a, <2>1
  <2> QED BY <1>0, <2>2
<1>6. ASSUME NEW i \in 1..m, i - 1 \in P PROVE i \in P
  <2>1. PICK j \in 0..(m - 1) : j = i - 1 /\ i = j + 1 /\ j \in 0..n /\ i \in 0..n
    <3>1. i - 1 \in 0..(m - 1) /\ i = i - 1 + 1 /\ i - 1 \in 0..n /\ i \in 0..n
      BY <1>2
    <3> QED BY <3>1
  <2>2. r[j] = (IF j < k THEN q[j] ELSE q[j + 1]) /\ r[i] = short[r[j]]
    BY <1>3, <1>4, <1>6, <2>1
  <2>3. CASE i < k
    <3>1. j # k /\ j # k - 1 /\ j < k /\ j \in 0..(n - 1)
      BY <1>1, <1>2, <2>1, <2>3
    <3>2. r[i] = links[q[j]]
      BY <1>a, <2>1, <2>2, <3>1
    <3> QED BY <1>1, <1>4, <2>1, <2>3, <3>1, <3>2
  <2>4. CASE i = k
    <3>1. j = k - 1 /\ j < k /\ k \in 0..(n - 1) /\ k \in 0..n /\ k - 1 \in 0..n /\ k # k - 1
      BY <1>1, <1>2, <2>1, <2>4
    <3>2. q[k - 1] \in AllTask /\ q[k] \in AllTask /\ q[k - 1] # q[k]
      BY <1>1, <3>1
    <3>3. short[q[k - 1]] = links[q[k]]
      BY <1>0, <3>2
    <3>4. r[i] = links[q[k]]
      BY <2>2, <3>1, <3>3
    <3> QED BY <1>1, <1>4, <2>1, <2>4, <3>1, <3>4
  <2>5. CASE i > k
    <3>1. i # k /\ i # k - 1 /\ ~(j < k) /\ i \in 0..(n - 1)
      BY <1>1, <1>2, <2>1, <2>5
    <3>2. r[i] = links[q[i]]
      BY <1>a, <2>1, <2>2, <3>1
    <3> QED BY <1>1, <1>4, <2>1, <2>5, <3>1, <3>2
  <2> QED BY <1>1, <2>3, <2>4, <2>5
<1>7. 0..m \subseteq P
  BY <1>5, <1>6, Climb DEF Climbs
<1> QED BY <1>2, <1>4, <1>7 DEF Skips

(* enqueue_task appends to the queue.                                      *)
LEMMA LinkOrder ==
  ASSUME NEW t \in Task, ListInv, ~Linked(t), Link(t)
  PROVE  RingOrder' = Append(RingOrder, t)
<1>a. t \in AllTask /\ t # Idle /\ t # NULL /\ Idle \in AllTask
  BY Distinct
<1>b. /\ task_ptr \in AllTask /\ task_ptr # NULL /\ task_ptr # t
      /\ next[task_ptr] = Idle /\ next \in [AllTask -> AllTask \cup {NULL}]
      /\ \A u \in AllTask : next[u] = Idle => u = task_ptr
  BY <1>a, Distinct DEF ListInv, ListType, DoublyLinked, Linked
<1>1. ListInv' /\ \A u \in AllTask : Linked(u)' <=> (Linked(u) \/ u = t)
  BY LinkKeepsList
<1>2. PICK n : n = Size(next)
  OBVIOUS
<1>3. PICK q : Ring(next, n, q) /\ RingOrder = Queue(q, n)
  BY <1>2, RingNow
<1>4. n \in Nat /\ q \in [0..n -> AllTask] /\ next[q[n]] = Idle /\ \A i \in 0..n : next[q[i]] # NULL
  BY <1>3 DEF Ring, IsRing
<1>5. Size(next') = n + 1
  <2>1. LinkedTasks' = LinkedTasks \cup {t} /\ t \notin LinkedTasks
    BY <1>1, <1>a, Distinct DEF LinkedTasks
  <2>2. Cardinality(LinkedTasks') = Cardinality(LinkedTasks) + 1
    BY <2>1, LinkedTasksFinite, FS_AddElement
  <2> QED BY <1>2, <2>2, OrderOfState DEF Size
<1>6. PICK r : Ring(next', n + 1, r) /\ RingOrder' = Queue(r, n + 1)
  BY <1>1, <1>5, RingThen
<1>7. q[n] = task_ptr
  BY <1>b, <1>4
<1>8. t \notin Members(n, q)
  BY <1>4 DEF Members, Linked
<1>9. LinksTail(next', next, task_ptr, t)
  BY <1>b DEF Link, LinksTail
<1>10. r[n + 1] = t /\ \A i \in 0..n : r[i] = q[i]
  <2>1. PICK links, long, m, tail : links = next /\ long = next' /\ m = n + 1 /\ tail = task_ptr
    OBVIOUS
  <2>2. /\ Ring(links, n, q) /\ Ring(long, m, r) /\ LinksTail(long, links, tail, t)
        /\ links \in [AllTask -> AllTask \cup {NULL}] /\ tail = q[n]
    BY <1>b, <1>3, <1>6, <1>7, <1>9, <2>1
  <2>3. Extends(r, q, n, t)
    BY <1>a, <1>8, <2>1, <2>2, RingLonger
  <2> QED BY <2>3 DEF Extends
<1>11. Queue(q, n) \in Seq(AllTask) /\ Len(Queue(q, n)) = n
  BY <1>4 DEF Queue
<1>12. Append(Queue(q, n), t) = Queue(r, n + 1)
  <2>1. PICK u \in Seq(AllTask) : u = Queue(q, n)
    BY <1>11
  <2>2. PICK v : v = Append(u, t)
    OBVIOUS
  <2>3. v \in Seq(AllTask) /\ Len(v) = n + 1 /\ v[n + 1] = t /\ \A i \in 1..n : v[i] = u[i]
    BY <1>a, <1>4, <1>11, <2>1, <2>2
  <2>4. v = [i \in 1..(n + 1) |-> v[i]]
    BY <2>3
  <2>5. ASSUME NEW i \in 1..(n + 1) PROVE v[i] = r[i]
    <3>1. CASE i = n + 1
      BY <1>10, <2>3, <3>1
    <3>2. CASE i # n + 1
      <4>1. i \in 1..n /\ i \in 0..n
        BY <1>4, <3>2
      <4>2. u[i] = q[i]
        BY <2>1, <4>1 DEF Queue
      <4> QED BY <1>10, <2>3, <4>1, <4>2
    <3> QED BY <3>1, <3>2
  <2>6. v = Queue(r, n + 1)
    BY <2>4, <2>5 DEF Queue
  <2> QED BY <2>1, <2>2, <2>6
<1> QED BY <1>3, <1>6, <1>12

(* dequeue_task takes its task out of the queue.                           *)
LEMMA UnlinkOrder ==
  ASSUME NEW t \in Task, ListInv, Linked(t), Unlink(t)
  PROVE  RingOrder' = Promise!Without(t)
<1>a. t \in AllTask /\ t # Idle /\ t # NULL /\ Idle \in AllTask
  BY Distinct
<1>b. /\ next \in [AllTask -> AllTask \cup {NULL}] /\ prev[t] \in AllTask /\ next[prev[t]] = t
      /\ \A u \in AllTask : next[u] = t => u = prev[t]
  BY <1>a, Distinct DEF ListInv, ListType, DoublyLinked, Linked
<1>1. ListInv' /\ \A u \in AllTask : Linked(u)' <=> (Linked(u) /\ u # t)
  BY UnlinkKeepsList
<1>2. PICK n : n = Size(next)
  OBVIOUS
<1>3. PICK q : Ring(next, n, q) /\ RingOrder = Queue(q, n)
  BY <1>2, RingNow
<1>4. /\ n \in Nat /\ q \in [0..n -> AllTask] /\ q[0] = Idle
      /\ \A i \in 0..(n - 1) : next[q[i]] = q[i + 1]
      /\ \A i, j \in 0..n : q[i] = q[j] => i = j
      /\ \A u \in AllTask : next[u] # NULL <=> \E i \in 0..n : q[i] = u
  BY <1>3 DEF Ring, IsRing
<1>5. PICK k \in 1..n : q[k] = t
  <2>1. PICK k \in 0..n : q[k] = t
    BY <1>a, <1>4 DEF Linked
  <2>2. k \in 1..n
    BY <1>a, <1>4, <2>1
  <2> QED BY <2>1, <2>2
<1>6. Size(next') = n - 1
  <2>1. LinkedTasks' = LinkedTasks \ {t} /\ t \in LinkedTasks
    BY <1>1, <1>a, Distinct DEF LinkedTasks
  <2>2. Cardinality(LinkedTasks') = Cardinality(LinkedTasks) - 1
    BY <2>1, LinkedTasksFinite, FS_RemoveElement
  <2> QED BY <1>2, <2>2, OrderOfState DEF Size
<1>7. PICK r : Ring(next', n - 1, r) /\ RingOrder' = Queue(r, n - 1)
  BY <1>1, <1>6, RingThen
<1>8. q[k - 1] = prev[t]
  <2>1. k - 1 \in 0..(n - 1) /\ k - 1 \in 0..n /\ k - 1 + 1 = k
    BY <1>4
  <2> QED BY <1>b, <1>4, <1>5, <2>1
<1>9. Bridges(next', next, prev[t], t)
  BY DEF Unlink, Bridges
<1>10. \A i \in 0..(n - 1) : r[i] = IF i < k THEN q[i] ELSE q[i + 1]
  <2>1. PICK links, short, p, before :
          links = next /\ short = next' /\ p = n - 1 /\ before = prev[t]
    OBVIOUS
  <2>2. /\ Ring(links, n, q) /\ Ring(short, p, r) /\ Bridges(short, links, before, t)
        /\ links \in [AllTask -> AllTask \cup {NULL}] /\ before = q[k - 1]
    BY <1>b, <1>3, <1>7, <1>8, <1>9, <2>1
  <2>3. Skips(r, q, n, k)
    BY <1>5, <2>1, <2>2, RingShorter
  <2> QED BY <2>3 DEF Skips
<1>11. PICK u : u = Queue(q, n) /\ u \in Seq(AllTask) /\ Len(u) = n /\ \A i \in 1..n : u[i] = q[i]
  <2>1. Queue(q, n) \in Seq(AllTask) /\ Len(Queue(q, n)) = n /\ \A i \in 1..n : Queue(q, n)[i] = q[i]
    BY <1>4 DEF Queue
  <2> QED BY <2>1
<1>12. (CHOOSE i \in DOMAIN u : u[i] = t) = k
  <2>1. DOMAIN u = 1..n /\ u[k] = t
    BY <1>5, <1>11
  <2>2. \A i \in DOMAIN u : u[i] = t => i = k
    BY <1>4, <1>5, <1>11, <2>1
  <2> QED BY <2>1, <2>2
<1>13. SubSeq(u, 1, k - 1) \o SubSeq(u, k + 1, n) = Queue(r, n - 1)
  <2>1. PICK a, b : a = SubSeq(u, 1, k - 1) /\ b = SubSeq(u, k + 1, n)
    OBVIOUS
  <2>2. a \in Seq(AllTask) /\ Len(a) = k - 1 /\ \A i \in 1..(k - 1) : a[i] = u[i]
    BY <1>4, <1>11, <2>1
  <2>3. b \in Seq(AllTask) /\ Len(b) = n - k /\ \A i \in 1..(n - k) : b[i] = u[k + i]
    BY <1>4, <1>11, <2>1
  <2>4. PICK v : v = a \o b
    OBVIOUS
  <2>a. v \in Seq(AllTask) /\ Len(v) = n - 1
    <3>1. a \o b \in Seq(AllTask) /\ Len(a \o b) = Len(a) + Len(b)
      BY <2>2, <2>3, ConcatProperties
    <3>2. k - 1 + (n - k) = n - 1
      BY <1>4
    <3> QED BY <2>2, <2>3, <2>4, <3>1, <3>2
  <2>b. \A i \in 1..(n - 1) : v[i] = IF i <= k - 1 THEN a[i] ELSE b[i - (k - 1)]
    BY <1>4, <2>2, <2>3, <2>4
  <2>c. v = [i \in 1..(n - 1) |-> v[i]]
    BY <2>a
  <2>5. ASSUME NEW i \in 1..(n - 1)
        PROVE  v[i] = r[i]
    <3>1. CASE i <= k - 1
      <4>1. i \in 1..(k - 1) /\ i \in 1..n /\ i < k /\ i \in 0..(n - 1)
        BY <1>4, <3>1
      <4> QED BY <1>10, <1>11, <2>2, <2>b, <3>1, <4>1
    <3>2. CASE ~(i <= k - 1)
      <4>1. PICK j \in 1..(n - k) : j = i - (k - 1) /\ k + j = i + 1
        <5>1. i - (k - 1) \in 1..(n - k) /\ k + (i - (k - 1)) = i + 1
          BY <1>4, <3>2
        <5> QED BY <5>1
      <4>2. ~(i < k) /\ i + 1 \in 1..n /\ i \in 0..(n - 1)
        BY <1>4, <3>2
      <4>3. b[j] = q[i + 1]
        BY <1>11, <2>3, <4>1, <4>2
      <4> QED BY <1>10, <2>b, <3>2, <4>1, <4>2, <4>3
    <3> QED BY <3>1, <3>2
  <2>6. v = Queue(r, n - 1)
    BY <2>c, <2>5 DEF Queue
  <2> QED BY <2>1, <2>4, <2>6
<1>14. Promise!Without(t) = Promise!RemoveAt(u, k)
  <2>1. Promise!Without(t) = Promise!RemoveAt(u, CHOOSE i \in DOMAIN u : u[i] = t)
    BY <1>a, <1>3, <1>11, Zenon DEF Promise!Without
  <2> QED BY <1>12, <2>1
<1> QED BY <1>7, <1>11, <1>13, <1>14 DEF Promise!RemoveAt

----------------------------------------------------------------------------
(* Every step is a step of RoundRobin.                                     *)

Stat == [t \in Task |-> TaskStatus(t)]

LEMMA OrderSame == UNCHANGED next => UNCHANGED RingOrder
BY OrderOfState

LEMMA OrderEmpty ==
  /\ (\A t \in Task : next[t] = NULL) => RingOrder = <<>>
  /\ (\A t \in Task : next'[t] = NULL) => RingOrder' = <<>>
<1>1. ASSUME NEW links, \A t \in Task : links[t] = NULL PROVE Order(links, Size(links)) = <<>>
  <2>1. Held(links) = {}
    BY <1>1 DEF Held
  <2>2. Size(links) = 0
    BY <2>1, FS_EmptySet DEF Size
  <2>3. PICK w : w = Walk(links, Idle)
    OBVIOUS
  <2>4. Order(links, 0) = [i \in 1..0 |-> w[i]]
    BY <2>3 DEF Order
  <2>5. [i \in 1..0 |-> w[i]] = <<>>
    OBVIOUS
  <2> QED BY <2>2, <2>4, <2>5
<1>2. PICK links : links = next'
  OBVIOUS
<1>3. (\A t \in Task : links[t] = NULL) => Order(links, Size(links)) = <<>>
  BY <1>1
<1> QED BY <1>1, <1>2, <1>3, OrderOfState

(* A step that leaves the list and the states alone, or changes them only  *)
(* for tasks that are in no list, changes no status.                       *)
LEMMA StatusSame ==
  ASSUME NEW t, next'[t] = next[t], state'[t] = state[t] \/ next[t] = NULL
  PROVE  TaskStatus(t)' = TaskStatus(t)
BY DEF TaskStatus, Linked, Runnable

(* A step that changes the status of one task.                             *)
LEMMA StatusOfOne ==
  ASSUME NEW t \in Task, NEW s, TaskStatus(t)' = s,
         \A u \in Task : u # t => TaskStatus(u)' = TaskStatus(u)
  PROVE  Stat' = [Stat EXCEPT ![t] = s]
BY DEF Stat

(* s calls ready the tasks in the list that may run according to st.       *)
Tells(links, s, st) ==
  \A t \in Task : links[t] # NULL => (s[t] = "ready" <=> Runnable(st, t))

LEMMA PicksOfRing ==
  ASSUME NEW links, NEW n, NEW q, Ring(links, n, q), current_task \in AllTask,
         links[current_task] # NULL, NEW tail, tail # NULL, NEW st, NEW s, Tells(links, s, st)
  PROVE  NextTask(links, tail, st) = Promise!Pick(Queue(q, n), s)
<1>1. /\ n \in Nat /\ q \in [0..n -> AllTask] /\ q[0] = Idle
      /\ \A i, j \in 0..n : q[i] = q[j] => i = j
      /\ \A t \in AllTask : links[t] # NULL <=> \E i \in 0..n : q[i] = t
  BY DEF Ring, IsRing
<1>2. PICK k \in 0..n : current_task = q[k]
  BY <1>1
<1>3. current_task # NULL
  BY Distinct
<1>4. ASSUME NEW i \in 1..n PROVE s[q[i]] = "ready" <=> q[i] \in Fit(st)
  <2>1. i \in 0..n /\ 0 \in 0..n /\ i # 0
    BY <1>1
  <2>2. q[i] \in AllTask /\ q[i] # Idle /\ links[q[i]] # NULL
    BY <1>1, <2>1
  <2>3. q[i] \in Task
    BY <2>2, Distinct
  <2> QED BY <2>2, <2>3 DEF Tells, Fit
<1>5. Agrees(s, q, n, Fit(st))
  BY <1>4 DEF Agrees
<1> QED BY <1>2, <1>3, <1>5, NextTaskPicks

(* next_task on the list before and after the step.                        *)
LEMMA PicksNow ==
  ASSUME ListInv, current_task \in AllTask, Linked(current_task), NEW st, NEW s, Tells(next, s, st)
  PROVE  NextTask(next, task_ptr, st) = Promise!Pick(RingOrder, s)
<1>1. PICK q : Ring(next, Size(next), q) /\ RingOrder = Queue(q, Size(next))
  BY RingNow
<1>2. PICK n : n = Size(next)
  OBVIOUS
<1>3. task_ptr # NULL /\ next[current_task] # NULL
  BY Distinct DEF ListInv, DoublyLinked, Linked
<1>4. NextTask(next, task_ptr, st) = Promise!Pick(Queue(q, n), s)
  BY <1>1, <1>2, <1>3, PicksOfRing
<1> QED BY <1>1, <1>2, <1>4

LEMMA PicksThen ==
  ASSUME ListInv', current_task \in AllTask, next'[current_task] # NULL, NEW st, NEW s,
         Tells(next', s, st)
  PROVE  NextTask(next', task_ptr', st) = Promise!Pick(RingOrder', s)
<1>1. PICK q : Ring(next', Size(next'), q) /\ RingOrder' = Queue(q, Size(next'))
  BY RingThen
<1>2. PICK links, tail, n : links = next' /\ tail = task_ptr' /\ n = Size(next')
  OBVIOUS
<1>3. task_ptr' # NULL
  BY Distinct DEF ListInv, DoublyLinked, Linked
<1>4. Ring(links, n, q) /\ Tells(links, s, st) /\ links[current_task] # NULL /\ tail # NULL
  BY <1>1, <1>2, <1>3
<1>5. NextTask(links, tail, st) = Promise!Pick(Queue(q, n), s)
  BY <1>4, PicksOfRing
<1>6. PICK o : o = RingOrder' /\ o = Queue(q, n)
  BY <1>1, <1>2
<1>7. NextTask(next', task_ptr', st) = Promise!Pick(o, s)
  BY <1>2, <1>5, <1>6
<1> QED BY <1>6, <1>7

(* The steps that a reader of the queue does not see.                      *)
LEMMA HiddenSteps ==
  ASSUME Inv, \/ TimerTick \/ InitIdleTask \/ EnterUserTask \/ BootFail
              \/ \E t \in Task : SpawnTask(t) \/ DestroyTask(t)
  PROVE  UNCHANGED Promise!vars
<1> SUFFICES UNCHANGED <<RingOrder, current_task>> /\ \A u \in Task : TaskStatus(u)' = TaskStatus(u)
  BY DEF Promise!vars
<1>1. CASE TimerTick \/ EnterUserTask \/ BootFail
  <2>1. UNCHANGED <<next, state, current_task>>
    BY <1>1 DEF TimerTick, EnterUserTask, BootFail, list
  <2> QED BY <2>1, OrderSame, StatusSame
<1>2. CASE InitIdleTask
  <2>1. /\ current_task = NULL /\ \A t \in Task : next[t] = NULL
        /\ next' = [next EXCEPT ![Idle] = Idle] /\ next \in [AllTask -> AllTask \cup {NULL}]
        /\ current_task' = current_task
    BY <1>2 DEF Inv, TypeOK, InitIdleTask, BootInv, Linked
  <2>2. \A t \in Task : next'[t] = NULL
    BY <2>1, Distinct
  <2>3. RingOrder' = RingOrder
    BY <2>1, <2>2, OrderEmpty
  <2> QED BY <2>1, <2>2, <2>3, StatusSame
<1>3. ASSUME NEW t \in Task, SpawnTask(t)
      PROVE  UNCHANGED <<RingOrder, current_task>> /\ \A u \in Task : TaskStatus(u)' = TaskStatus(u)
  <2>1. /\ t \in AllTask /\ next[t] = NULL /\ next \in [AllTask -> AllTask \cup {NULL}]
        /\ next' = [next EXCEPT ![t] = NULL] /\ current_task' = current_task
        /\ state' = [state EXCEPT ![t] = TASK_NEW] /\ DOMAIN state = AllTask
    BY <1>3, Distinct DEF Inv, TypeOK, NoUseAfterFree, Linked, SpawnTask, CreateTask
  <2>2. next' = next
    BY <2>1
  <2>3. ASSUME NEW u \in Task PROVE TaskStatus(u)' = TaskStatus(u)
    <3>1. u \in AllTask /\ (u # t => state'[u] = state[u])
      BY <2>1, Distinct
    <3> QED BY <2>1, <2>2, <3>1, StatusSame
  <2> QED BY <2>1, <2>2, <2>3, OrderSame
<1>4. ASSUME NEW t \in Task, DestroyTask(t)
      PROVE  UNCHANGED <<RingOrder, current_task>> /\ \A u \in Task : TaskStatus(u)' = TaskStatus(u)
  <2>1. UNCHANGED <<next, state, current_task>>
    BY <1>4 DEF DestroyTask, list
  <2> QED BY <2>1, OrderSame, StatusSame
<1> QED BY <1>1, <1>2, <1>3, <1>4

(* enqueue_task, from enter_proc1 or later.                                *)
LEMMA AdmitSteps ==
  ASSUME Inv, NEW t \in Task, EnterProc1(t) \/ EnqueueTask(t)
  PROVE  Promise!Admit(t)
<1>1. /\ TypeOK /\ boot # "init" /\ Link(t) /\ ~Linked(t) /\ t \in AllTask
  BY Distinct DEF Inv, TypeOK, BootInv, NoUseAfterFree, Linked, EnterProc1, CreateTask, EnqueueTask, TaskRuns
<1>2. ListInv
  BY <1>1, ListFromInv
<1>3. RingOrder' = Append(RingOrder, t)
  BY <1>1, <1>2, LinkOrder
<1>4. \A u \in AllTask : Linked(u)' <=> (Linked(u) \/ u = t)
  BY <1>1, <1>2, LinkKeepsList
<1>5. \A u \in AllTask : u # t => state'[u] = state[u]
  BY <1>1 DEF TypeOK, EnterProc1, CreateTask, EnqueueTask
<1>6. ASSUME NEW u \in Task, u # t PROVE TaskStatus(u)' = TaskStatus(u)
  BY <1>4, <1>5, <1>6, Distinct DEF TaskStatus, Runnable
<1>7. Stat[t] = "out"
  BY <1>1 DEF Stat, TaskStatus
<1>8. CASE EnterProc1(t)
  <2>1. current_task = NULL /\ current_task' = t /\ state'[t] = TASK_NEW
    BY <1>1, <1>8, Distinct DEF Inv, TypeOK, BootInv, EnterProc1, CreateTask
  <2>2. TaskStatus(t)' = "new"
    BY <1>1, <1>4, <2>1 DEF TaskStatus, Runnable
  <2>3. Stat' = [Stat EXCEPT ![t] = "new"]
    BY <1>6, <2>2, StatusOfOne
  <2> QED BY <1>3, <1>7, <2>1, <2>3 DEF Promise!Admit, Stat
<1>9. CASE EnqueueTask(t)
  <2>1. current_task # NULL /\ current_task' = current_task /\ state'[t] = TASK_READY
    BY <1>1, <1>9, Distinct DEF TypeOK, EnqueueTask, TaskRuns
  <2>2. TaskStatus(t)' = "ready"
    BY <1>1, <1>4, <2>1 DEF TaskStatus, Runnable
  <2>3. Stat' = [Stat EXCEPT ![t] = "ready"]
    BY <1>6, <2>2, StatusOfOne
  <2> QED BY <1>3, <1>7, <2>1, <2>3 DEF Promise!Admit, Stat
<1> QED BY <1>8, <1>9

(* The writes of a state that end no turn: enqueue_task on proc1, and      *)
(* block_task and wake_task on a task that is not the current one.         *)
LEMMA StatusSteps ==
  ASSUME Inv
  PROVE  /\ BootSetRunning => Promise!Start
         /\ \A t \in Task : BlockOther(t) => Promise!Suspend(t)
         /\ \A t \in Task : WakeTask(t) => Promise!Wake(t)
<1>1. ASSUME NEW t \in Task, NEW st, state' = [state EXCEPT ![t] = st], UNCHANGED next
      PROVE  /\ UNCHANGED RingOrder /\ state'[t] = st /\ Linked(t)' = Linked(t)
             /\ \A u \in Task : u # t => TaskStatus(u)' = TaskStatus(u)
  <2>1. DOMAIN state = AllTask /\ t \in AllTask
    BY Distinct DEF Inv, TypeOK
  <2>2. ASSUME NEW u \in Task, u # t PROVE TaskStatus(u)' = TaskStatus(u)
    <3>1. u \in AllTask /\ state'[u] = state[u]
      BY <1>1, <2>1, <2>2, Distinct
    <3> QED BY <1>1, <3>1, StatusSame
  <2> QED BY <1>1, <2>1, <2>2, OrderSame DEF Linked
<1>2. ASSUME BootSetRunning PROVE Promise!Start
  <2>1. PICK t \in Task : t = current_task /\ Linked(t) /\ state[t] \in {TASK_NEW, TASK_RUNNING}
    BY <1>2, Distinct DEF Inv, TypeOK, BootInv, NoUseAfterFree, TaskInv, BootSetRunning
  <2>2. /\ state' = [state EXCEPT ![t] = TASK_RUNNING] /\ UNCHANGED next /\ current_task' = t
    BY <1>2, <2>1 DEF BootSetRunning, list
  <2>3. /\ UNCHANGED RingOrder /\ state'[t] = TASK_RUNNING /\ Linked(t)' = Linked(t)
        /\ \A u \in Task : u # t => TaskStatus(u)' = TaskStatus(u)
    BY <1>1, <2>2
  <2>4. TaskStatus(t)' = "ready" /\ Stat[t] \in {"new", "ready"}
    BY <2>1, <2>3 DEF Stat, TaskStatus, Runnable
  <2>5. Stat' = [Stat EXCEPT ![t] = "ready"]
    BY <2>3, <2>4, StatusOfOne
  <2> QED BY <2>1, <2>2, <2>3, <2>4, <2>5 DEF Promise!Start, Stat
<1>3. ASSUME NEW t \in Task, BlockOther(t) PROVE Promise!Suspend(t)
  <2>1. /\ state' = [state EXCEPT ![t] = TASK_BLOCKED] /\ UNCHANGED <<next, current_task>>
        /\ t # current_task /\ Runnable(state, t)
    BY <1>3 DEF BlockOther, list
  <2>2. Linked(t)
    BY <2>1 DEF Inv, TaskInv, Runnable
  <2>3. /\ UNCHANGED RingOrder /\ state'[t] = TASK_BLOCKED /\ Linked(t)' = Linked(t)
        /\ \A u \in Task : u # t => TaskStatus(u)' = TaskStatus(u)
    BY <1>1, <2>1
  <2>4. TaskStatus(t)' = "blocked" /\ Stat[t] = "ready"
    BY <2>1, <2>2, <2>3 DEF Stat, TaskStatus, Runnable
  <2>5. Stat' = [Stat EXCEPT ![t] = "blocked"]
    BY <2>3, <2>4, StatusOfOne
  <2> QED BY <2>1, <2>3, <2>4, <2>5 DEF Promise!Suspend, Stat
<1>4. ASSUME NEW t \in Task, WakeTask(t) PROVE Promise!Wake(t)
  <2>1. /\ state' = [state EXCEPT ![t] = TASK_READY] /\ UNCHANGED <<next, current_task>>
        /\ state[t] = TASK_BLOCKED
    BY <1>4 DEF WakeTask, list
  <2>2. Linked(t)
    BY <2>1 DEF Inv, TaskInv
  <2>3. /\ UNCHANGED RingOrder /\ state'[t] = TASK_READY /\ Linked(t)' = Linked(t)
        /\ \A u \in Task : u # t => TaskStatus(u)' = TaskStatus(u)
    BY <1>1, <2>1
  <2>4. TaskStatus(t)' = "ready" /\ Stat[t] = "blocked"
    BY <2>1, <2>2, <2>3 DEF Stat, TaskStatus, Runnable
  <2>5. Stat' = [Stat EXCEPT ![t] = "ready"]
    BY <2>3, <2>4, StatusOfOne
  <2> QED BY <2>1, <2>3, <2>4, <2>5 DEF Promise!Wake, Stat
<1> QED BY <1>2, <1>3, <1>4

(* What reap_dead_task does to the queue: d, if there is one, leaves it.   *)
LEMMA ReapOrder ==
  ASSUME Inv, current_task \in AllTask, ReapDeadTask(dead_task, current_task)
  PROVE  /\ ListInv /\ ListInv' /\ RingOrder' = Promise!Without(dead_task)
         /\ dead_task \in Promise!Leaving /\ dead_task # current_task
         /\ \A u \in AllTask : Linked(u)' <=> (Linked(u) /\ u # dead_task)
<1>1. boot # "init" /\ dead_task # current_task /\ dead_task \in Task \cup {NULL}
  BY Distinct DEF Inv, TypeOK, TaskInv, BootInv
<1>2. ListInv
  BY <1>1, ListFromInv
<1>3. CASE dead_task = NULL
  <2>1. UNCHANGED <<task_ptr, next, prev>>
    BY <1>3 DEF ReapDeadTask, list
  <2>2. ListInv'
    BY <1>2, <2>1 DEF ListInv, ListType, DoublyLinked, OneRing, Linked
  <2>3. RingOrder' = RingOrder
    BY <2>1, OrderSame
  <2>4. Promise!Without(dead_task) = RingOrder
    BY <1>3, Zenon DEF Promise!Without
  <2>5. dead_task \in Promise!Leaving
    BY <1>3 DEF Promise!Leaving
  <2>6. \A u \in AllTask : Linked(u)' <=> (Linked(u) /\ u # dead_task)
    BY <1>3, <2>1, Distinct DEF Linked
  <2> QED BY <1>1, <1>2, <2>2, <2>3, <2>4, <2>5, <2>6
<1>4. CASE dead_task # NULL
  <2>1. dead_task \in Task /\ Unlink(dead_task) /\ Linked(dead_task)
        /\ state[dead_task] = TASK_ZOMBIE
    BY <1>1, <1>4 DEF ReapDeadTask, Inv, NoUseAfterFree, TaskInv
  <2>2. ListInv' /\ \A u \in AllTask : Linked(u)' <=> (Linked(u) /\ u # dead_task)
    BY <1>2, <2>1, UnlinkKeepsList
  <2>3. RingOrder' = Promise!Without(dead_task)
    BY <1>2, <2>1, UnlinkOrder
  <2>4. TaskStatus(dead_task) = "exited"
    BY <2>1 DEF TaskStatus, Runnable
  <2>5. dead_task \in Promise!Leaving
    BY <1>1, <2>1, <2>4 DEF Promise!Leaving
  <2> QED BY <1>1, <1>2, <2>2, <2>3, <2>5
<1> QED BY <1>3, <1>4

(* What the switch to n does to the status of every task.                  *)
LEMMA SwitchStatus ==
  ASSUME TypeOK, NEW d, NEW n \in AllTask, current_task \in AllTask, n # current_task,
         Runnable(state, n), NEW st, NEW s, SwitchTo(current_task, n, st),
         \A u \in AllTask : Linked(u)' <=> (Linked(u) /\ u # d),
         Linked(current_task), d # current_task,
         <<st, s>> \in {<<TASK_READY, "ready">>, <<TASK_BLOCKED, "blocked">>, <<TASK_ZOMBIE, "exited">>}
  PROVE  \A u \in Task : TaskStatus(u)' =
           IF u = d THEN "out" ELSE IF u = current_task THEN s ELSE TaskStatus(u)
<1> SUFFICES ASSUME NEW u \in Task
             PROVE  TaskStatus(u)' = IF u = d THEN "out" ELSE IF u = current_task THEN s ELSE TaskStatus(u)
  OBVIOUS
<1>1. u \in AllTask /\ state' = [state EXCEPT ![current_task] = st, ![n] = TASK_RUNNING]
      /\ DOMAIN state = AllTask
  BY Distinct DEF SwitchTo, TypeOK
<1>2. CASE u = d
  BY <1>1, <1>2 DEF TaskStatus
<1>3. CASE u # d /\ u = current_task
  <2>1. state'[u] = st /\ Linked(u)'
    BY <1>1, <1>3
  <2> QED BY <1>3, <2>1 DEF TaskStatus, Runnable
<1>4. CASE u # d /\ u = n
  <2>1. state'[u] = TASK_RUNNING /\ (Linked(u)' <=> Linked(u)) /\ Runnable(state, u)
    BY <1>1, <1>4
  <2>2. Runnable(state', u)
    BY <2>1 DEF Runnable
  <2> QED BY <1>4, <2>1, <2>2 DEF TaskStatus
<1>5. CASE u # d /\ u # current_task /\ u # n
  <2>1. state'[u] = state[u] /\ (Linked(u)' <=> Linked(u))
    BY <1>1, <1>5
  <2> QED BY <1>5, <2>1 DEF TaskStatus, Runnable
<1> QED BY <1>2, <1>3, <1>4, <1>5

(* schedule                                                                *)
LEMMA ScheduleStep ==
  ASSUME Inv, TimerSchedule
  PROVE  Promise!Rotate
<1>1. /\ TypeOK /\ current_task \in AllTask /\ current_task # NULL /\ Linked(current_task)
      /\ Schedule /\ ReapDeadTask(dead_task, current_task)
  BY Distinct DEF Inv, TypeOK, NoUseAfterFree, TimerSchedule, Due, Schedule
<1>2. /\ ListInv /\ ListInv' /\ RingOrder' = Promise!Without(dead_task)
      /\ dead_task \in Promise!Leaving /\ dead_task # current_task
      /\ \A u \in AllTask : Linked(u)' <=> (Linked(u) /\ u # dead_task)
  BY <1>1, ReapOrder
<1>3. PICK n : n = NextTask(next', task_ptr', state)
  OBVIOUS
<1>4. n = Promise!Pick(RingOrder', Stat)
  <2>1. Tells(next', Stat, state)
    <3>1. ASSUME NEW t \in Task, next'[t] # NULL PROVE Stat[t] = "ready" <=> Runnable(state, t)
      <4>1. Linked(t)
        BY <1>2, <3>1, Distinct DEF Linked
      <4> QED BY <4>1 DEF Stat, TaskStatus
    <3> QED BY <3>1 DEF Tells
  <2>2. next'[current_task] # NULL
    BY <1>1, <1>2 DEF Linked
  <2> QED BY <1>1, <1>2, <1>3, <2>1, <2>2, PicksThen
<1>5. n \in AllTask /\ Runnable(state, n) /\ n # NULL
  <2>1. task_ptr' # NULL
    BY <1>2, Distinct DEF ListInv, DoublyLinked, Linked
  <2>2. n \in {Idle} \cup {t \in Task : Runnable(state, t)}
    BY <1>3, <2>1, NextTaskResult
  <2> QED BY <1>1, <2>2, Distinct DEF Inv, BootInv
<1>6. current_task' = n
  BY <1>1, <1>3, <1>5 DEF Schedule, SwitchTo
<1>7. PICK s : s = IF n # current_task /\ current_task \in Task
                   THEN [Stat EXCEPT ![current_task] = "ready"] ELSE Stat
  OBVIOUS
<1>8. \A u \in Task : TaskStatus(u)' = IF u = dead_task THEN "out" ELSE s[u]
  <2>1. CASE n = current_task
    <3>1. UNCHANGED state
      BY <1>1, <1>3, <2>1 DEF Schedule
    <3>2. ASSUME NEW u \in Task PROVE TaskStatus(u)' = IF u = dead_task THEN "out" ELSE TaskStatus(u)
      <4>1. Linked(u)' <=> (Linked(u) /\ u # dead_task)
        BY <1>2, Distinct
      <4> QED BY <3>1, <4>1 DEF TaskStatus, Runnable
    <3> QED BY <1>7, <2>1, <3>2 DEF Stat
  <2>2. CASE n # current_task
    <3>1. SwitchTo(current_task, n, TASK_READY)
      BY <1>1, <1>3, <1>5, <2>2 DEF Schedule
    <3>2. \A u \in Task : TaskStatus(u)' =
            IF u = dead_task THEN "out" ELSE IF u = current_task THEN "ready" ELSE TaskStatus(u)
      <4>1. PICK d, st : d = dead_task /\ st = TASK_READY
        OBVIOUS
      <4>2. /\ SwitchTo(current_task, n, st) /\ d # current_task
            /\ \A u \in AllTask : Linked(u)' <=> (Linked(u) /\ u # d)
            /\ <<st, "ready">> \in {<<TASK_READY, "ready">>, <<TASK_BLOCKED, "blocked">>,
                                     <<TASK_ZOMBIE, "exited">>}
        BY <1>2, <3>1, <4>1
      <4>3. \A u \in Task : TaskStatus(u)' =
              IF u = d THEN "out" ELSE IF u = current_task THEN "ready" ELSE TaskStatus(u)
        BY <1>1, <1>5, <2>2, <4>2, SwitchStatus
      <4> QED BY <4>1, <4>3
    <3>3. \A u \in Task : s[u] = IF u = current_task THEN "ready" ELSE TaskStatus(u)
      BY <1>7, <2>2 DEF Stat
    <3> QED BY <3>2, <3>3
  <2> QED BY <2>1, <2>2
<1>9. Stat' = Promise!Gone(s, dead_task)
  BY <1>8 DEF Stat, Promise!Gone
<1>10. /\ RingOrder' = Promise!Without(dead_task) /\ current_task' = Promise!Pick(RingOrder', Stat)
       /\ Stat' = Promise!Gone(IF current_task' # current_task /\ current_task \in Task
                                THEN [Stat EXCEPT ![current_task] = "ready"] ELSE Stat, dead_task)
  BY <1>2, <1>4, <1>6, <1>7, <1>9
<1> QED BY <1>1, <1>2, <1>10, Zenon DEF Promise!Rotate, Stat

Given(g, st) == g = [state EXCEPT ![current_task] = st]
Marked(f, s) == f = [Stat EXCEPT ![current_task] = s]

(* next_task when the current task has just been given state st.           *)
LEMMA PicksOther ==
  ASSUME Inv, ListInv, current_task \in Task, NEW st, NEW s,
         <<st, s>> \in {<<TASK_BLOCKED, "blocked">>, <<TASK_ZOMBIE, "exited">>},
         NEW g, Given(g, st),
         NEW f, Marked(f, s),
         NEW n, n = NextTask(next, task_ptr, g)
  PROVE  /\ n = Promise!Pick(RingOrder, f)
         /\ n \in AllTask /\ n # current_task /\ Runnable(state, n)
<1>1. /\ TypeOK /\ current_task \in AllTask /\ current_task # NULL /\ Linked(current_task)
      /\ DOMAIN state = AllTask /\ Runnable(state, Idle) /\ current_task # Idle
  BY Distinct DEF Inv, TypeOK, NoUseAfterFree, BootInv
<1>2. ASSUME NEW t \in Task
      PROVE  /\ g[t] = (IF t = current_task THEN st ELSE state[t])
             /\ f[t] = (IF t = current_task THEN s ELSE TaskStatus(t))
  BY <1>1, Distinct DEF Stat, Given, Marked
<1>3. Tells(next, f, g)
  <2>1. ASSUME NEW t \in Task, next[t] # NULL PROVE f[t] = "ready" <=> Runnable(g, t)
    <3>1. CASE t = current_task
      BY <1>2, <3>1 DEF Runnable
    <3>2. CASE t # current_task
      <4>1. f[t] = TaskStatus(t) /\ g[t] = state[t] /\ Linked(t)
        BY <1>2, <2>1, <3>2 DEF Linked
      <4> QED BY <4>1 DEF TaskStatus, Runnable
    <3> QED BY <3>1, <3>2
  <2> QED BY <2>1 DEF Tells
<1>4. n = Promise!Pick(RingOrder, f)
  BY <1>1, <1>3, PicksNow
<1>5. n \in {Idle} \cup {t \in Task : Runnable(g, t)}
  <2>1. task_ptr # NULL
    BY Distinct DEF ListInv, DoublyLinked, Linked
  <2> QED BY <2>1, NextTaskResult
<1>6. n \in AllTask /\ n # current_task /\ Runnable(state, n)
  <2>1. CASE n = Idle
    BY <1>1, <2>1, Distinct
  <2>2. CASE n \in Task /\ Runnable(g, n)
    BY <1>2, <2>2, Distinct DEF Runnable
  <2> QED BY <1>5, <2>1, <2>2
<1> QED BY <1>4, <1>6

(* block_task on the current task                                          *)
LEMMA BlockStep ==
  ASSUME Inv, BlockCurrent
  PROVE  Promise!Block
<1>1. PICK g, n : g = [state EXCEPT ![current_task] = TASK_BLOCKED] /\ n = NextTask(next, task_ptr, g)
  OBVIOUS
<1>2. /\ TypeOK /\ current_task \in Task /\ current_task \in AllTask /\ Linked(current_task)
      /\ ReapDeadTask(dead_task, current_task) /\ SwitchTo(current_task, n, TASK_BLOCKED)
  BY <1>1, Distinct DEF Inv, TypeOK, NoUseAfterFree, BlockCurrent, TaskRuns
<1>3. /\ ListInv /\ ListInv' /\ RingOrder' = Promise!Without(dead_task)
      /\ dead_task \in Promise!Leaving /\ dead_task # current_task
      /\ \A u \in AllTask : Linked(u)' <=> (Linked(u) /\ u # dead_task)
  BY <1>2, ReapOrder
<1>4. PICK st, d, s : st = TASK_BLOCKED /\ d = dead_task /\ s = [Stat EXCEPT ![current_task] = "blocked"]
  OBVIOUS
<1>5. /\ n = Promise!Pick(RingOrder, s)
      /\ n \in AllTask /\ n # current_task /\ Runnable(state, n)
  <2>1. <<st, "blocked">> \in {<<TASK_BLOCKED, "blocked">>, <<TASK_ZOMBIE, "exited">>}
    BY <1>4
  <2>2. Given(g, st) /\ Marked(s, "blocked") /\ n = NextTask(next, task_ptr, g)
    BY <1>1, <1>4 DEF Given, Marked
  <2> QED BY <1>2, <1>3, <2>1, <2>2, PicksOther
<1>6. \A u \in Task : TaskStatus(u)' =
        IF u = d THEN "out" ELSE IF u = current_task THEN "blocked" ELSE TaskStatus(u)
  <2>1. /\ SwitchTo(current_task, n, st) /\ d # current_task
        /\ \A u \in AllTask : Linked(u)' <=> (Linked(u) /\ u # d)
        /\ <<st, "blocked">> \in {<<TASK_READY, "ready">>, <<TASK_BLOCKED, "blocked">>,
                                   <<TASK_ZOMBIE, "exited">>}
    BY <1>2, <1>3, <1>4
  <2> QED BY <1>2, <1>5, <2>1, SwitchStatus
<1>7. \A u \in Task : s[u] = IF u = current_task THEN "blocked" ELSE TaskStatus(u)
  BY <1>4 DEF Stat
<1>8. Stat' = Promise!Gone(s, d)
  BY <1>6, <1>7 DEF Stat, Promise!Gone
<1>9. current_task' = n
  BY <1>2 DEF SwitchTo
<1>10. /\ RingOrder' = Promise!Without(dead_task)
       /\ current_task' = Promise!Pick(RingOrder, [Stat EXCEPT ![current_task] = "blocked"])
       /\ Stat' = Promise!Gone([Stat EXCEPT ![current_task] = "blocked"], dead_task)
  BY <1>3, <1>4, <1>5, <1>8, <1>9
<1> QED BY <1>2, <1>3, <1>10, Zenon DEF Promise!Block, Stat

(* exit_task                                                               *)
LEMMA ExitStep ==
  ASSUME Inv, ExitTask
  PROVE  Promise!Exit
<1>1. PICK g, n : g = [state EXCEPT ![current_task] = TASK_ZOMBIE] /\ n = NextTask(next, task_ptr, g)
  OBVIOUS
<1>2. /\ TypeOK /\ current_task \in Task /\ current_task \in AllTask /\ Linked(current_task)
      /\ boot # "init" /\ UNCHANGED next /\ SwitchTo(current_task, n, TASK_ZOMBIE)
  BY <1>1, Distinct DEF Inv, TypeOK, NoUseAfterFree, BootInv, ExitTask, TaskRuns, ReapDeadTask, list
<1>3. ListInv /\ UNCHANGED RingOrder
  BY <1>2, ListFromInv, OrderSame
<1>4. PICK st, s : st = TASK_ZOMBIE /\ s = [Stat EXCEPT ![current_task] = "exited"]
  OBVIOUS
<1>5. /\ n = Promise!Pick(RingOrder, s)
      /\ n \in AllTask /\ n # current_task /\ Runnable(state, n)
  <2>1. <<st, "exited">> \in {<<TASK_BLOCKED, "blocked">>, <<TASK_ZOMBIE, "exited">>}
    BY <1>4
  <2>2. Given(g, st) /\ Marked(s, "exited") /\ n = NextTask(next, task_ptr, g)
    BY <1>1, <1>4 DEF Given, Marked
  <2> QED BY <1>2, <1>3, <2>1, <2>2, PicksOther
<1>6. \A u \in Task : TaskStatus(u)' =
        IF u = NULL THEN "out" ELSE IF u = current_task THEN "exited" ELSE TaskStatus(u)
  <2>1. /\ SwitchTo(current_task, n, st) /\ NULL # current_task
        /\ \A u \in AllTask : Linked(u)' <=> (Linked(u) /\ u # NULL)
        /\ <<st, "exited">> \in {<<TASK_READY, "ready">>, <<TASK_BLOCKED, "blocked">>,
                                  <<TASK_ZOMBIE, "exited">>}
    BY <1>2, <1>4, Distinct DEF Linked
  <2> QED BY <1>2, <1>5, <2>1, SwitchStatus
<1>7. Stat' = s
  BY <1>4, <1>6, Distinct DEF Stat
<1>8. current_task' = n
  BY <1>2 DEF SwitchTo
<1>9. /\ current_task' = Promise!Pick(RingOrder, [Stat EXCEPT ![current_task] = "exited"])
      /\ Stat' = [Stat EXCEPT ![current_task] = "exited"]
  BY <1>4, <1>5, <1>7, <1>8
<1> QED BY <1>2, <1>3, <1>9, Zenon DEF Promise!Exit, Stat

(* The lists, links and context switches of sched.c are round robin: every *)
(* step of the scheduler is a step of RoundRobin, under the mapping that   *)
(* reads the ring as a queue, or leaves all that RoundRobin speaks of as   *)
(* it was.  enqueue_task appends, dequeue_task removes an exited task that *)
(* is off the CPU, and whoever next_task returns is the first ready task   *)
(* behind the running one.                                                 *)
THEOREM SchedulerIsRoundRobin == Spec => Promise!Steps
<1>1. Init => Promise!Init
  <2> SUFFICES ASSUME Init PROVE Promise!Init
    OBVIOUS
  <2>1. current_task = NULL /\ \A t \in Task : next[t] = NULL
    BY Distinct DEF Init
  <2>2. RingOrder = <<>>
    BY <2>1, OrderEmpty
  <2>3. Stat = [t \in Task |-> "out"]
    BY <2>1 DEF Stat, TaskStatus, Linked
  <2> QED BY <2>1, <2>2, <2>3 DEF Promise!Init, Stat
<1>2. Inv /\ [Next]_vars => [Promise!Next]_(Promise!vars)
  <2> SUFFICES ASSUME Inv, [Next]_vars PROVE Promise!Next \/ UNCHANGED Promise!vars
    OBVIOUS
  <2>1. CASE \/ TimerTick \/ InitIdleTask \/ EnterUserTask \/ BootFail
             \/ \E t \in Task : SpawnTask(t) \/ DestroyTask(t)
    BY <2>1, HiddenSteps
  <2>2. CASE \E t \in Task : EnterProc1(t) \/ EnqueueTask(t)
    BY <2>2, AdmitSteps DEF Promise!Next
  <2>3. CASE BootSetRunning \/ \E t \in Task : BlockOther(t) \/ WakeTask(t)
    BY <2>3, StatusSteps DEF Promise!Next
  <2>4. CASE TimerSchedule
    BY <2>4, ScheduleStep DEF Promise!Next
  <2>5. CASE BlockCurrent
    BY <2>5, BlockStep DEF Promise!Next
  <2>6. CASE ExitTask
    BY <2>6, ExitStep DEF Promise!Next
  <2>7. CASE UNCHANGED vars
    <3>1. UNCHANGED <<next, state, current_task>>
      BY <2>7 DEF vars, list
    <3>2. UNCHANGED RingOrder /\ \A t \in Task : TaskStatus(t)' = TaskStatus(t)
      BY <3>1, OrderSame, StatusSame
    <3> QED BY <3>1, <3>2 DEF Promise!vars
  <2> QED BY <2>1, <2>2, <2>3, <2>4, <2>5, <2>6, <2>7 DEF Next
<1> QED BY <1>1, <1>2, Inductive, PTL DEF Spec, Promise!Steps
=============================================================================
