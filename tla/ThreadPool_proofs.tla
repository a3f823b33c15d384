-------------------------- MODULE ThreadPool_proofs --------------------------
(***************************************************************************)
(* The safety properties of ThreadPool, and the step simulation by which   *)
(* it implements TaskPool, proved for every set of workers and tasks.      *)
(***************************************************************************)
EXTENDS ThreadPool, TLAPS, FiniteSetTheorems, SequenceTheorems

\* shutdown_ is set exactly from the destructor's first step on: submit()
\* never runs after it.
ShutdownByOwner == shutdown <=> owner \in {"notify_all", "join", "joined"}

\* The destructor returns only after joining every worker.
JoinedMeansExited == owner = "joined" => \A w \in Workers : worker[w] = "exited"

\* A worker in a call holds a submitted task.
CarriesTask == \A w \in In("running") : running[w] \in Tasks

\* The inductive invariant.
IInv == /\ TypeOK
        /\ WorkConserving
        /\ NeverTwice
        /\ DrainedBeforeExit
        /\ ShutdownByOwner
        /\ JoinedMeansExited
        /\ CarriesTask
-----------------------------------------------------------------------------
(* Lemmas. *)

\* push and pop on the queue, as facts about the set of queued elements.
LEMMA PushAddsToQueue ==
    ASSUME NEW S, NEW q \in Seq(S), NEW e \in S
    PROVE  LET r == Append(q, e)
           IN  /\ r \in Seq(S)
               /\ Len(r) = Len(q) + 1
               /\ {r[i] : i \in DOMAIN r} = {q[i] : i \in DOMAIN q} \cup {e}
               /\ (/\ \A i, j \in DOMAIN q : q[i] = q[j] => i = j
                   /\ e \notin {q[i] : i \in DOMAIN q})
                     => \A i, j \in DOMAIN r : r[i] = r[j] => i = j
<1> DEFINE r == Append(q, e)
<1>1. /\ r \in Seq(S)
      /\ Len(r) = Len(q) + 1
      /\ \A i \in 1 .. Len(q) : r[i] = q[i]
      /\ r[Len(q) + 1] = e
  BY AppendProperties
<1>2. DOMAIN r = DOMAIN q \cup {Len(q) + 1} /\ DOMAIN q = 1 .. Len(q)
  BY <1>1
<1> HIDE DEF r
<1>3. {r[i] : i \in DOMAIN r} = {q[i] : i \in DOMAIN q} \cup {e}
  BY <1>1, <1>2
<1>4. ASSUME \A i, j \in DOMAIN q : q[i] = q[j] => i = j,
             e \notin {q[i] : i \in DOMAIN q},
             NEW i \in DOMAIN r, NEW j \in DOMAIN r, r[i] = r[j]
      PROVE  i = j
  BY <1>1, <1>2, <1>4
<1>5. QED
  BY <1>1, <1>3, <1>4 DEF r

LEMMA PopTakesFromQueue ==
    ASSUME NEW S, NEW q \in Seq(S), q # <<>>
    PROVE  LET r == Tail(q)
           IN  /\ r \in Seq(S)
               /\ Len(r) = Len(q) - 1
               /\ Head(q) \in S
               /\ Head(q) \in {q[i] : i \in DOMAIN q}
               /\ {q[i] : i \in DOMAIN q} = {r[i] : i \in DOMAIN r} \cup {Head(q)}
               /\ (\A i, j \in DOMAIN q : q[i] = q[j] => i = j)
                     => /\ \A i, j \in DOMAIN r : r[i] = r[j] => i = j
                        /\ Head(q) \notin {r[i] : i \in DOMAIN r}
<1> DEFINE r == Tail(q)
<1>1. /\ r \in Seq(S)
      /\ Len(r) = Len(q) - 1
      /\ Head(q) \in S
      /\ \A i \in 1 .. Len(r) : r[i] = q[i + 1]
      /\ Len(q) \in Nat \ {0}
      /\ Head(q) = q[1]
  BY HeadTailProperties
<1>2. DOMAIN r = 1 .. Len(q) - 1 /\ DOMAIN q = 1 .. Len(q)
  BY <1>1
<1> HIDE DEF r
<1>3. ASSUME NEW x \in {q[i] : i \in DOMAIN q}
      PROVE  x \in {r[i] : i \in DOMAIN r} \cup {Head(q)}
  <2>1. PICK i \in 1 .. Len(q) : x = q[i]
    BY <1>2, <1>3
  <2>2. CASE i = 1
    BY <1>1, <2>1, <2>2
  <2>3. CASE i # 1
    <3>1. i - 1 \in DOMAIN r /\ r[i - 1] = q[i]
      BY <1>1, <1>2, <2>3
    <3>2. QED
      BY <2>1, <3>1
  <2>4. QED
    BY <2>2, <2>3
<1>4. {r[i] : i \in DOMAIN r} \cup {Head(q)} \subseteq {q[i] : i \in DOMAIN q}
  BY <1>1, <1>2
<1>5. ASSUME \A i, j \in DOMAIN q : q[i] = q[j] => i = j
      PROVE  /\ \A i, j \in DOMAIN r : r[i] = r[j] => i = j
             /\ Head(q) \notin {r[i] : i \in DOMAIN r}
  <2>1. ASSUME NEW i \in DOMAIN r, NEW j \in DOMAIN r, r[i] = r[j]
        PROVE  i = j
    BY <1>1, <1>2, <1>5, <2>1
  <2>2. ASSUME NEW i \in DOMAIN r, r[i] = Head(q)
        PROVE  FALSE
    BY <1>1, <1>2, <1>5, <2>2
  <2>3. QED
    BY <2>1, <2>2
<1>6. Head(q) \in {q[i] : i \in DOMAIN q}
  BY <1>1, <1>2
<1>7. QED
  BY <1>1, <1>3, <1>4, <1>5, <1>6 DEF r

\* The number of awake workers, when one worker comes to the lock or leaves.
LEMMA AwakeIsNat ==
    ASSUME TypeOK
    PROVE  IsFiniteSet(In("ready")) /\ Awake \in Nat
BY WorkersAssumption, FS_Subset, FS_CardinalityType DEF In, Awake

LEMMA AwakeGrows ==
    ASSUME TypeOK, NEW w \in Workers, worker[w] # "ready",
           worker' = [worker EXCEPT ![w] = "ready"]
    PROVE  Awake' = Awake + 1
<1>1. In("ready")' = In("ready") \cup {w} /\ w \notin In("ready")
  BY DEF TypeOK, In
<1>2. QED
  BY <1>1, AwakeIsNat, FS_AddElement DEF Awake

LEMMA AwakeShrinks ==
    ASSUME TypeOK, NEW w \in Workers, worker[w] = "ready",
           NEW s \in WorkerStates, s # "ready",
           worker' = [worker EXCEPT ![w] = s]
    PROVE  Awake' = Awake - 1
<1>1. In("ready")' = In("ready") \ {w} /\ w \in In("ready")
  BY DEF TypeOK, In
<1>2. QED
  BY <1>1, AwakeIsNat, FS_RemoveElement DEF Awake
-----------------------------------------------------------------------------
(* The inductive invariant is preserved by every step of the pool. *)

LEMMA InitIInv == Init => IInv
<1> SUFFICES ASSUME Init PROVE IInv
  OBVIOUS
<1>1. /\ tasks \in Seq(Tasks)
      /\ DOMAIN tasks = {}
  BY DEF Init
<1>2. In("waiting") = {} /\ In("running") = {} /\ In("exited") = {}
  BY DEF Init, In
<1>3. TypeOK
  BY <1>1 DEF Init, TypeOK, OwnerStates, WorkerStates
<1>4. WorkConserving
  BY <1>2 DEF WorkConserving
<1>5. NeverTwice
  BY <1>1, <1>2 DEF Init, NeverTwice, Queued, Active
<1>6. DrainedBeforeExit
  BY <1>2 DEF Init, DrainedBeforeExit
<1>7. ShutdownByOwner /\ JoinedMeansExited /\ CarriesTask
  BY <1>2 DEF Init, ShutdownByOwner, JoinedMeansExited, CarriesTask
<1>8. QED
  BY <1>3, <1>4, <1>5, <1>6, <1>7 DEF IInv

LEMMA SubmitIInv ==
    ASSUME IInv, NEW t \in Tasks, Submit(t)
    PROVE  IInv'
<1> USE DEF IInv
<1>1. /\ tasks' \in Seq(Tasks)
      /\ Len(tasks') = Len(tasks) + 1
      /\ Queued' = Queued \cup {t}
      /\ \A i, j \in DOMAIN tasks' : tasks'[i] = tasks'[j] => i = j
  <2>1. tasks' = Append(tasks, t) /\ tasks \in Seq(Tasks) /\ t \notin Queued
    BY DEF Submit, Submitted, TypeOK
  <2>2. \A i, j \in DOMAIN tasks : tasks[i] = tasks[j] => i = j
    BY DEF NeverTwice
  <2>3. QED
    BY <2>1, <2>2, PushAddsToQueue DEF Queued
<1>2. /\ \A s : In(s)' = In(s)
      /\ Active' = Active
      /\ Awake' = Awake
  BY DEF Submit, In, Active, Awake
<1>3. TypeOK'
  BY <1>1 DEF Submit, TypeOK, OwnerStates
<1>4. WorkConserving'
  BY <1>1, <1>2, AwakeIsNat DEF Submit, WorkConserving, TypeOK
<1>5. NeverTwice'
  BY <1>1, <1>2 DEF Submit, Submitted, NeverTwice, TypeOK
<1>6. DrainedBeforeExit'
  BY <1>2 DEF Submit, DrainedBeforeExit, ShutdownByOwner
<1>7. ShutdownByOwner' /\ JoinedMeansExited' /\ CarriesTask'
  BY <1>2 DEF Submit, ShutdownByOwner, JoinedMeansExited, CarriesTask
<1>8. QED
  BY <1>3, <1>4, <1>5, <1>6, <1>7

\* A step that leaves the queue, the calls and the finished tasks alone
\* disturbs only the bookkeeping of who is awake.
LEMMA NoTaskMoves ==
    ASSUME IInv, UNCHANGED <<tasks, running, done>>, In("running")' = In("running")
    PROVE  NeverTwice' /\ CarriesTask' /\ Queued' = Queued /\ Active' = Active
BY DEF IInv, NeverTwice, CarriesTask, Queued, Active

LEMMA NotifyOneIInv ==
    ASSUME IInv, NotifyOne
    PROVE  IInv'
<1> USE DEF IInv
<1>1. CASE \E w \in In("waiting") : worker' = [worker EXCEPT ![w] = "ready"]
  <2>1. PICK w \in In("waiting") : worker' = [worker EXCEPT ![w] = "ready"]
    BY <1>1
  <2>2. /\ w \in Workers
        /\ worker[w] = "waiting"
        /\ In("running")' = In("running")
        /\ In("exited")' = In("exited")
        /\ In("waiting")' \subseteq In("waiting")
    BY <2>1 DEF In, TypeOK
  <2>3. TypeOK'
    BY <2>1 DEF NotifyOne, TypeOK, OwnerStates, WorkerStates
  <2>4. WorkConserving'
    <3>1. Awake' = Awake + 1
      BY <2>1, <2>2, AwakeGrows
    <3>2. QED
      BY <3>1, <2>2, AwakeIsNat DEF NotifyOne, WorkConserving, TypeOK
  <2>5. NeverTwice' /\ CarriesTask' /\ Queued' = Queued /\ Active' = Active
    BY <2>2, NoTaskMoves DEF NotifyOne
  <2>6. DrainedBeforeExit' /\ ShutdownByOwner' /\ JoinedMeansExited'
    BY <2>2 DEF NotifyOne, DrainedBeforeExit, ShutdownByOwner, JoinedMeansExited
  <2>7. QED
    BY <2>3, <2>4, <2>5, <2>6
<1>2. CASE In("waiting") = {} /\ UNCHANGED worker
  <2>1. \A s : In(s)' = In(s)
    BY <1>2 DEF In
  <2>2. TypeOK' /\ WorkConserving'
    BY <1>2, <2>1 DEF NotifyOne, TypeOK, OwnerStates, WorkConserving
  <2>3. NeverTwice' /\ CarriesTask' /\ Queued' = Queued /\ Active' = Active
    BY <2>1, NoTaskMoves DEF NotifyOne
  <2>4. DrainedBeforeExit' /\ ShutdownByOwner' /\ JoinedMeansExited'
    BY <2>1 DEF NotifyOne, DrainedBeforeExit, ShutdownByOwner, JoinedMeansExited
  <2>5. QED
    BY <2>2, <2>3, <2>4
<1>3. QED
  BY <1>1, <1>2 DEF NotifyOne

LEMMA ShutdownIInv ==
    ASSUME IInv, Shutdown
    PROVE  IInv'
<1> USE DEF IInv
<1>1. (\A s : In(s)' = In(s)) /\ Awake' = Awake
  BY DEF Shutdown, In, Awake
<1>2. TypeOK' /\ WorkConserving'
  BY <1>1 DEF Shutdown, TypeOK, OwnerStates, WorkConserving
<1>3. NeverTwice' /\ CarriesTask' /\ Queued' = Queued /\ Active' = Active
  BY <1>1, NoTaskMoves DEF Shutdown
<1>4. DrainedBeforeExit' /\ ShutdownByOwner' /\ JoinedMeansExited'
  BY <1>1 DEF Shutdown, DrainedBeforeExit, ShutdownByOwner, JoinedMeansExited
<1>5. QED
  BY <1>2, <1>3, <1>4

LEMMA NotifyAllIInv ==
    ASSUME IInv, NotifyAll
    PROVE  IInv'
<1> USE DEF IInv
<1>1. /\ In("waiting")' = {}
      /\ In("running")' = In("running")
      /\ In("exited")' = In("exited")
  BY DEF NotifyAll, In, TypeOK
<1>2. TypeOK' /\ WorkConserving'
  BY <1>1 DEF NotifyAll, TypeOK, OwnerStates, WorkerStates, WorkConserving
<1>3. NeverTwice' /\ CarriesTask' /\ Queued' = Queued /\ Active' = Active
  BY <1>1, NoTaskMoves DEF NotifyAll
<1>4. DrainedBeforeExit' /\ ShutdownByOwner' /\ JoinedMeansExited'
  BY <1>1 DEF NotifyAll, DrainedBeforeExit, ShutdownByOwner, JoinedMeansExited
<1>5. QED
  BY <1>2, <1>3, <1>4

LEMMA JoinIInv ==
    ASSUME IInv, Join
    PROVE  IInv'
<1> USE DEF IInv
<1>1. (\A s : In(s)' = In(s)) /\ Awake' = Awake
  BY DEF Join, In, Awake
<1>2. TypeOK' /\ WorkConserving'
  BY <1>1 DEF Join, TypeOK, OwnerStates, WorkConserving
<1>3. NeverTwice' /\ CarriesTask' /\ Queued' = Queued /\ Active' = Active
  BY <1>1, NoTaskMoves DEF Join
<1>4. DrainedBeforeExit'
  <2>1. In("running") = {} /\ In("exited") = Workers
    BY DEF Join, In
  <2>2. tasks = <<>>
    BY <2>1, WorkersAssumption DEF DrainedBeforeExit
  <2>3. Queued = {} /\ Active = {}
    BY <2>1, <2>2 DEF Queued, Active
  <2>4. QED
    BY <1>1, <1>3, <2>3 DEF Join, DrainedBeforeExit
<1>5. ShutdownByOwner' /\ JoinedMeansExited'
  BY DEF Join, ShutdownByOwner, JoinedMeansExited
<1>6. QED
  BY <1>2, <1>3, <1>4, <1>5
\* A worker that is in no call goes to sleep, wakes up or leaves: the three
\* differ in where it ends up, and in what they tell of the queue.
LEMMA WaitIInv ==
    ASSUME IInv, NEW w \in Workers, Wait(w)
    PROVE  IInv'
<1> USE DEF IInv
<1>1. In("running")' = In("running") /\ In("exited")' = In("exited")
  BY DEF Wait, In, TypeOK
<1>2. TypeOK'
  BY DEF Wait, TypeOK, WorkerStates
<1>3. WorkConserving'
  <2>1. Awake' \in Nat /\ Len(tasks') = 0
    BY <1>2, AwakeIsNat, AwakeShrinks, FS_Subset, FS_CardinalityType, WorkersAssumption
       DEF Wait, Awake, In
  <2>2. PICK n \in Nat : n = Awake'
    BY <2>1
  <2>3. Len(tasks') <= n + (IF owner' = "notify" THEN 1 ELSE 0)
    BY <2>1
  <2>4. QED
    BY <2>2, <2>3 DEF WorkConserving
<1>4. NeverTwice' /\ CarriesTask' /\ Queued' = Queued /\ Active' = Active
  BY <1>1, NoTaskMoves DEF Wait
<1>5. DrainedBeforeExit' /\ ShutdownByOwner' /\ JoinedMeansExited'
  BY <1>1 DEF Wait, DrainedBeforeExit, ShutdownByOwner, JoinedMeansExited, TypeOK
<1>6. QED
  BY <1>2, <1>3, <1>4, <1>5

LEMMA SpuriousWakeupIInv ==
    ASSUME IInv, NEW w \in Workers, SpuriousWakeup(w)
    PROVE  IInv'
<1> USE DEF IInv
<1>1. /\ In("running")' = In("running")
      /\ In("exited")' = In("exited")
      /\ In("waiting")' \subseteq In("waiting")
  BY DEF SpuriousWakeup, In, TypeOK
<1>2. TypeOK'
  BY DEF SpuriousWakeup, TypeOK, WorkerStates
<1>3. WorkConserving'
  <2>1. Awake' = Awake + 1
    BY AwakeGrows DEF SpuriousWakeup
  <2>2. QED
    BY <1>1, <2>1, AwakeIsNat DEF SpuriousWakeup, WorkConserving, TypeOK
<1>4. NeverTwice' /\ CarriesTask' /\ Queued' = Queued /\ Active' = Active
  BY <1>1, NoTaskMoves DEF SpuriousWakeup
<1>5. DrainedBeforeExit' /\ ShutdownByOwner' /\ JoinedMeansExited'
  BY <1>1 DEF SpuriousWakeup, DrainedBeforeExit, ShutdownByOwner, JoinedMeansExited, TypeOK
<1>6. QED
  BY <1>2, <1>3, <1>4, <1>5

LEMMA ExitIInv ==
    ASSUME IInv, NEW w \in Workers, Exit(w)
    PROVE  IInv'
<1> USE DEF IInv
<1>1. /\ In("running")' = In("running")
      /\ In("exited")' = In("exited") \cup {w}
  BY DEF Exit, In, TypeOK
<1>2. TypeOK'
  BY DEF Exit, TypeOK, WorkerStates
<1>3. WorkConserving'
  <2>1. Awake' \in Nat /\ Len(tasks') = 0
    BY <1>2, FS_Subset, FS_CardinalityType, WorkersAssumption DEF Exit, Awake, In
  <2>2. PICK n \in Nat : n = Awake'
    BY <2>1
  <2>3. Len(tasks') <= n + (IF owner' = "notify" THEN 1 ELSE 0)
    BY <2>1
  <2>4. QED
    BY <2>2, <2>3 DEF WorkConserving
<1>4. NeverTwice' /\ CarriesTask' /\ Queued' = Queued /\ Active' = Active
  BY <1>1, NoTaskMoves DEF Exit
<1>5. DrainedBeforeExit' /\ ShutdownByOwner' /\ JoinedMeansExited'
  <2>1. owner # "joined"
    BY DEF Exit, JoinedMeansExited
  <2>2. QED
    BY <1>1, <2>1 DEF Exit, DrainedBeforeExit, ShutdownByOwner, JoinedMeansExited
<1>6. QED
  BY <1>2, <1>3, <1>4, <1>5

LEMMA TakeIInv ==
    ASSUME IInv, NEW w \in Workers, Take(w)
    PROVE  IInv'
<1> USE DEF IInv
<1> DEFINE t == Head(tasks)
<1>1. /\ tasks' \in Seq(Tasks)
      /\ Len(tasks') = Len(tasks) - 1
      /\ t \in Tasks
      /\ Queued = Queued' \cup {t}
      /\ \A i, j \in DOMAIN tasks' : tasks'[i] = tasks'[j] => i = j
      /\ t \notin Queued'
  <2>1. tasks' = Tail(tasks) /\ tasks \in Seq(Tasks) /\ tasks # <<>>
    BY DEF Take, TypeOK
  <2>2. \A i, j \in DOMAIN tasks : tasks[i] = tasks[j] => i = j
    BY DEF NeverTwice
  <2> DEFINE r == Tail(tasks)
  <2>3. /\ r \in Seq(Tasks)
        /\ Len(r) = Len(tasks) - 1
        /\ Head(tasks) \in Tasks
        /\ {tasks[i] : i \in DOMAIN tasks} = {r[i] : i \in DOMAIN r} \cup {Head(tasks)}
        /\ \A i, j \in DOMAIN r : r[i] = r[j] => i = j
        /\ Head(tasks) \notin {r[i] : i \in DOMAIN r}
    BY <2>1, <2>2, PopTakesFromQueue
  <2>4. QED
    BY <2>1, <2>3 DEF Queued
<1> HIDE DEF t
<1>2. /\ w \notin In("running")
      /\ In("running")' = In("running") \cup {w}
      /\ In("exited")' = In("exited")
      /\ In("waiting")' = In("waiting")
  BY DEF Take, In, TypeOK
<1>3. /\ running'[w] = t
      /\ \A v \in In("running") : running'[v] = running[v]
  BY <1>2 DEF Take, TypeOK, In, t
<1>4. Active' = Active \cup {t}
  BY <1>2, <1>3 DEF Active
<1>5. TypeOK'
  BY <1>1 DEF Take, TypeOK, WorkerStates, t
<1>6. WorkConserving'
  <2>1. Awake' = Awake - 1
    BY AwakeShrinks DEF Take, WorkerStates
  <2>2. QED
    BY <1>1, <1>2, <2>1, AwakeIsNat DEF Take, WorkConserving, TypeOK
<1>7. NeverTwice'
  <2>1. t \notin Active /\ t \notin done
    BY <1>1 DEF NeverTwice
  <2>2. \A u, v \in In("running")' : running'[u] = running'[v] => u = v
    BY <1>2, <1>3, <2>1 DEF NeverTwice, Active
  <2>3. QED
    BY <1>1, <1>4, <2>1, <2>2 DEF Take, NeverTwice
<1>8. CarriesTask'
  BY <1>1, <1>2, <1>3 DEF CarriesTask
<1>9. DrainedBeforeExit' /\ ShutdownByOwner' /\ JoinedMeansExited'
  <2>1. owner # "joined" /\ In("exited") = {}
    BY DEF Take, JoinedMeansExited, DrainedBeforeExit
  <2>2. QED
    BY <1>2, <2>1 DEF Take, DrainedBeforeExit, ShutdownByOwner, JoinedMeansExited
<1>10. QED
  BY <1>5, <1>6, <1>7, <1>8, <1>9

LEMMA FinishIInv ==
    ASSUME IInv, NEW w \in Workers, Finish(w)
    PROVE  IInv'
<1> USE DEF IInv
<1>1. /\ w \in In("running")
      /\ In("running")' = In("running") \ {w}
      /\ In("exited")' = In("exited")
      /\ In("waiting")' = In("waiting")
      /\ running[w] \in Tasks
  BY DEF Finish, In, TypeOK, CarriesTask
<1>2. \A v \in In("running")' : running'[v] = running[v]
  BY <1>1 DEF Finish, TypeOK, In
<1>3. Active' = Active \ {running[w]} /\ running[w] \in Active /\ Queued' = Queued
  BY <1>1, <1>2 DEF Active, NeverTwice, Queued, Finish
<1>4. TypeOK'
  BY <1>1 DEF Finish, TypeOK, WorkerStates
<1>5. WorkConserving'
  <2>1. Awake' = Awake + 1
    BY AwakeGrows DEF Finish
  <2>2. QED
    BY <1>1, <2>1, AwakeIsNat DEF Finish, WorkConserving, TypeOK
<1>6. NeverTwice'
  BY <1>1, <1>2, <1>3 DEF Finish, NeverTwice
<1>7. CarriesTask'
  BY <1>1, <1>2 DEF CarriesTask
<1>8. DrainedBeforeExit' /\ ShutdownByOwner' /\ JoinedMeansExited'
  <2>1. owner # "joined"
    BY DEF Finish, JoinedMeansExited
  <2>2. QED
    BY <1>1, <2>1 DEF Finish, DrainedBeforeExit, ShutdownByOwner, JoinedMeansExited
<1>9. QED
  BY <1>4, <1>5, <1>6, <1>7, <1>8

LEMMA StutterIInv ==
    ASSUME IInv, UNCHANGED vars
    PROVE  IInv'
BY DEF IInv, vars, TypeOK, WorkConserving, NeverTwice, DrainedBeforeExit,
       ShutdownByOwner, JoinedMeansExited, CarriesTask, Awake, In, Queued, Active

LEMMA NextIInv == IInv /\ [Next]_vars => IInv'
<1> SUFFICES ASSUME IInv, [Next]_vars PROVE IInv'
  OBVIOUS
<1>1. ASSUME NEW t \in Tasks, Submit(t) PROVE IInv'
  BY <1>1, SubmitIInv
<1>2. CASE OwnerStep
  BY <1>2, NotifyOneIInv, NotifyAllIInv, JoinIInv DEF OwnerStep
<1>3. CASE Shutdown
  BY <1>3, ShutdownIInv
<1>4. ASSUME NEW w \in Workers, WorkerLoop(w) \/ SpuriousWakeup(w) PROVE IInv'
  BY <1>4, WaitIInv, ExitIInv, TakeIInv, FinishIInv, SpuriousWakeupIInv DEF WorkerLoop
<1>5. CASE Destroyed \/ UNCHANGED vars
  BY <1>5, StutterIInv DEF Destroyed
<1>6. QED
  BY <1>1, <1>2, <1>3, <1>4, <1>5 DEF Next
-----------------------------------------------------------------------------
(* The theorems. *)

\* The inductive invariant holds of every reachable state, whatever the
\* number of workers and of tasks.
THEOREM PoolInvariant == Spec => []IInv
<1>1. QED
  BY InitIInv, NextIInv, PTL DEF Spec

\* The pool's variables keep their types.
THEOREM PoolTypes == Spec => []TypeOK
<1>1. IInv => TypeOK
  BY DEF IInv
<1>2. QED
  BY <1>1, PoolInvariant, PTL

\* The protocol of submit(), notify_one() and cv_.wait never leaves a task
\* queued behind sleeping workers without a wakeup on its way.
THEOREM PoolConservesWork == Spec => []WorkConserving
<1>1. IInv => WorkConserving
  BY DEF IInv
<1>2. QED
  BY <1>1, PoolInvariant, PTL

\* The destructor returns with every submitted task finished.
THEOREM PoolDrains == Spec => []DrainedBeforeExit
<1>1. IInv => DrainedBeforeExit
  BY DEF IInv
<1>2. QED
  BY <1>1, PoolInvariant, PTL
-----------------------------------------------------------------------------
(* The refinement. *)

\* While a worker is at the lock, fewer calls are running than there are
\* workers: it is the capacity that TaskPool grants.
LEMMA FreeCapacity ==
    ASSUME IInv, NEW w \in Workers, worker[w] = "ready"
    PROVE  Cardinality(Active) < Cardinality(Workers)
<1> DEFINE busy == In("running")
           call == [v \in busy |-> running[v]]
<1>1. busy \subseteq Workers \ {w}
  BY DEF In
<1>2. /\ IsFiniteSet(Workers \ {w})
      /\ Cardinality(Workers \ {w}) = Cardinality(Workers) - 1
      /\ Cardinality(Workers) \in Nat
  BY WorkersAssumption, FS_RemoveElement, FS_CardinalityType
<1>3. /\ IsFiniteSet(busy)
      /\ Cardinality(busy) <= Cardinality(Workers) - 1
      /\ Cardinality(busy) \in Nat
  BY <1>1, <1>2, FS_Subset, FS_CardinalityType
<1>4. call \in Surjection(busy, Active)
  BY DEF Active, Surjection
<1>5. Cardinality(Active) <= Cardinality(busy) /\ Cardinality(Active) \in Nat
  BY <1>3, <1>4, FS_Surjection, FS_CardinalityType
<1>6. QED
  BY <1>2, <1>3, <1>5

LEMMA PhaseValues ==
    /\ owner = "joined" => Phase = "stopped"
    /\ (shutdown /\ owner # "joined") => Phase = "closing"
    /\ (~shutdown /\ owner # "joined") => Phase = "open"
    /\ owner' = "joined" => Phase' = "stopped"
    /\ (shutdown' /\ owner' # "joined") => Phase' = "closing"
    /\ (~shutdown' /\ owner' # "joined") => Phase' = "open"
BY DEF Phase

LEMMA InitRefines == Init => Abstract!Init
<1> SUFFICES ASSUME Init PROVE Abstract!Init
  OBVIOUS
<1>1. Active = {}
  BY DEF Init, Active, In
<1>2. Phase = "open"
  BY PhaseValues DEF Init
<1>3. QED
  BY <1>1, <1>2 DEF Init, Abstract!Init

\* Steps in which no task moves and the phase stays are invisible.
LEMMA Invisible ==
    ASSUME UNCHANGED <<tasks, running, done>>, In("running")' = In("running"),
           Phase' = Phase
    PROVE  UNCHANGED Abstract!vars
BY DEF Abstract!vars, Active

LEMMA SubmitRefines ==
    ASSUME IInv, NEW t \in Tasks, Submit(t)
    PROVE  Abstract!Accept(t)
<1>1. Phase = "open" /\ Phase' = "open"
  BY PhaseValues DEF Submit, IInv, ShutdownByOwner
<1>2. Active' = Active
  BY DEF Submit, Active, In
<1>3. t \notin Abstract!Accepted
  BY DEF Submit, Submitted, Queued, Abstract!Accepted
<1>4. QED
  BY <1>1, <1>2, <1>3 DEF Submit, Abstract!Accept

LEMMA TakeRefines ==
    ASSUME IInv, NEW w \in Workers, Take(w)
    PROVE  Abstract!Start
<1>1. Cardinality(Active) < Cardinality(Workers)
  BY FreeCapacity DEF Take
<1>2. /\ w \notin In("running")
      /\ In("running")' = In("running") \cup {w}
  BY DEF Take, In, IInv, TypeOK
<1>3. /\ running'[w] = Head(tasks)
      /\ \A v \in In("running") : running'[v] = running[v]
  BY <1>2 DEF Take, IInv, TypeOK, In
<1>4. Active' = Active \cup {Head(tasks)}
  BY <1>2, <1>3 DEF Active
<1>5. Phase' = Phase
  BY DEF Take, Phase
<1>6. tasks # <<>> /\ tasks' = Tail(tasks) /\ done' = done
  BY DEF Take
<1>7. Abstract!Cardinality(Active) = Cardinality(Active)
  BY DEF Abstract!Cardinality, Cardinality
<1>8. QED
  BY <1>1, <1>4, <1>5, <1>6, <1>7 DEF Abstract!Start

LEMMA FinishRefines ==
    ASSUME IInv, NEW w \in Workers, Finish(w)
    PROVE  running[w] \in Tasks /\ Abstract!Finish(running[w])
<1>1. /\ w \in In("running")
      /\ In("running")' = In("running") \ {w}
      /\ running[w] \in Tasks
  BY DEF Finish, In, IInv, TypeOK, CarriesTask
<1>2. \A v \in In("running")' : running'[v] = running[v]
  BY <1>1 DEF Finish, IInv, TypeOK, In
<1>3. Active' = Active \ {running[w]} /\ running[w] \in Active
  BY <1>1, <1>2 DEF Active, IInv, NeverTwice
<1>4. Phase' = Phase
  BY DEF Finish, Phase
<1>5. QED
  BY <1>1, <1>3, <1>4 DEF Finish, Abstract!Finish

LEMMA ShutdownRefines ==
    ASSUME IInv, Shutdown
    PROVE  Abstract!Close
<1>1. Phase = "open" /\ Phase' = "closing"
  BY PhaseValues DEF Shutdown, IInv, ShutdownByOwner
<1>2. Active' = Active
  BY DEF Shutdown, Active, In
<1>3. QED
  BY <1>1, <1>2 DEF Shutdown, Abstract!Close

LEMMA JoinRefines ==
    ASSUME IInv, Join
    PROVE  Abstract!Stop
<1>1. Phase = "closing" /\ Phase' = "stopped"
  BY PhaseValues DEF Join, IInv, ShutdownByOwner
<1>2. tasks = <<>> /\ Active = {} /\ Active' = {}
  <2>1. In("running") = {} /\ In("running")' = {} /\ In("exited") = Workers
    BY DEF Join, In
  <2>2. QED
    BY <2>1, WorkersAssumption DEF Active, IInv, DrainedBeforeExit
<1>3. QED
  BY <1>1, <1>2 DEF Join, Abstract!Stop

LEMMA NextRefines == IInv /\ [Next]_vars => [Abstract!Next]_(Abstract!vars)
<1> SUFFICES ASSUME IInv, [Next]_vars PROVE [Abstract!Next]_(Abstract!vars)
  OBVIOUS
<1>1. ASSUME NEW t \in Tasks, Submit(t) PROVE Abstract!Next
  BY <1>1, SubmitRefines DEF Abstract!Next
<1>2. CASE NotifyOne
  <2>1. UNCHANGED <<tasks, running, done>> /\ In("running")' = In("running")
    BY <1>2 DEF NotifyOne, In, IInv, TypeOK
  <2>2. Phase' = Phase
    BY <1>2, PhaseValues DEF NotifyOne, IInv, ShutdownByOwner, Phase
  <2>3. QED
    BY <2>1, <2>2, Invisible
<1>3. CASE NotifyAll
  <2>1. UNCHANGED <<tasks, running, done>> /\ In("running")' = In("running")
    BY <1>3 DEF NotifyAll, In, IInv, TypeOK
  <2>2. Phase' = Phase
    BY <1>3 DEF NotifyAll, Phase
  <2>3. QED
    BY <2>1, <2>2, Invisible
<1>4. CASE Join
  BY <1>4, JoinRefines DEF Abstract!Next
<1>5. CASE Shutdown
  BY <1>5, ShutdownRefines DEF Abstract!Next
<1>6. ASSUME NEW w \in Workers, Wait(w) \/ Exit(w) \/ SpuriousWakeup(w)
      PROVE  UNCHANGED Abstract!vars
  <2>1. UNCHANGED <<tasks, running, done>> /\ In("running")' = In("running")
    BY <1>6 DEF Wait, Exit, SpuriousWakeup, In, IInv, TypeOK
  <2>2. Phase' = Phase
    BY <1>6 DEF Wait, Exit, SpuriousWakeup, Phase
  <2>3. QED
    BY <2>1, <2>2, Invisible
<1>7. ASSUME NEW w \in Workers, Take(w) PROVE Abstract!Next
  BY <1>7, TakeRefines DEF Abstract!Next
<1>8. ASSUME NEW w \in Workers, Finish(w) PROVE Abstract!Next
  BY <1>8, FinishRefines DEF Abstract!Next
<1>9. CASE Destroyed \/ UNCHANGED vars
  BY <1>9 DEF Destroyed, vars, Abstract!vars, Active, In, Phase
<1>10. QED
  BY <1>1, <1>2, <1>3, <1>4, <1>5, <1>6, <1>7, <1>8, <1>9
     DEF Next, OwnerStep, WorkerLoop

\* The pool of threads, lock and condition variable behaves as TaskPool
\* says: tasks start in the order of submission, at most one per worker at a
\* time, each runs once, and the pool stops after all of them.
THEOREM PoolImplementsTaskPool == Spec => ImplementsTaskPool
<1>1. Init => Abstract!Init
  BY InitRefines
<1>2. IInv /\ [Next]_vars => [Abstract!Next]_(Abstract!vars)
  BY NextRefines
<1>3. QED
  BY <1>1, <1>2, PoolInvariant, PTL DEF Spec, ImplementsTaskPool, Abstract!Spec

\* What TaskPool has accepted stays accepted: a task that leaves the queue is
\* active, and one that is no longer active is done.
LEMMA NothingLost ==
    ASSUME IInv, [Abstract!Next]_(Abstract!vars)
    PROVE  Submitted \subseteq Submitted'
<1>1. tasks \in Seq(Tasks)
  BY DEF IInv, TypeOK
<1>2. ASSUME NEW t \in Tasks, Abstract!Accept(t)
      PROVE  Submitted \subseteq Submitted'
  <2>1. tasks' = Append(tasks, t) /\ Active' = Active /\ done' = done
    BY <1>2 DEF Abstract!Accept
  <2> DEFINE q == tasks
  <2>2. LET r == Append(q, t) IN {r[i] : i \in DOMAIN r} = {q[i] : i \in DOMAIN q} \cup {t}
    BY <1>1, PushAddsToQueue
  <2>3. QED
    BY <2>1, <2>2 DEF Submitted, Queued
<1>3. ASSUME Abstract!Start
      PROVE  Submitted \subseteq Submitted'
  <2>1. /\ tasks # <<>> /\ tasks' = Tail(tasks)
        /\ Active' = Active \cup {Head(tasks)} /\ done' = done
    BY <1>3 DEF Abstract!Start
  <2> DEFINE q == tasks
  <2>2. LET r == Tail(q) IN {q[i] : i \in DOMAIN q} = {r[i] : i \in DOMAIN r} \cup {Head(q)}
    BY <1>1, <2>1, PopTakesFromQueue
  <2>3. QED
    BY <2>1, <2>2 DEF Submitted, Queued
<1>4. ASSUME NEW t \in Tasks, Abstract!Finish(t)
      PROVE  Submitted \subseteq Submitted'
  BY <1>4 DEF Abstract!Finish, Submitted, Queued
<1>5. ASSUME Abstract!Close \/ Abstract!Stop \/ UNCHANGED Abstract!vars
      PROVE  Submitted \subseteq Submitted'
  BY <1>5 DEF Abstract!Close, Abstract!Stop, Abstract!vars, Submitted, Queued
<1>6. QED
  BY <1>2, <1>3, <1>4, <1>5 DEF Abstract!Next

\* push and pop under the lock never lose, duplicate or share a task, whatever
\* the owner and the workers do in between.
THEOREM PoolRunsEachTaskOnce == Spec => EachTaskOnce
<1>1. IInv => NeverTwice
  BY DEF IInv
<1>2. IInv /\ [Next]_vars => Submitted \subseteq Submitted'
  BY NextRefines, NothingLost
<1>3. IInv /\ [Next]_vars => [Submitted \subseteq Submitted']_vars
  BY <1>2
<1>4. QED
  BY <1>1, <1>3, PoolInvariant, PTL DEF Spec, EachTaskOnce
=============================================================================
