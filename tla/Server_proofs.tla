---------------------------- MODULE Server_proofs ----------------------------
(***************************************************************************)
(* The safety of Server for every number of workers, connections and       *)
(* descriptors: whose a descriptor is, that it comes back, that nobody is  *)
(* accepted twice or forgotten at the end, and that ThreadPool's own       *)
(* specification covers all that the server does with its pool.            *)
(***************************************************************************)
EXTENDS Server, TLAPS, SequenceTheorems

Stages == {"idle", "recv", "dispatch", "upload"}

Types == /\ tasks \in Seq(Conns)
         /\ worker \in [Workers -> Pool!WorkerStates]
         /\ running \in [Workers -> Conns \cup {NoConn}]
         /\ done \subseteq Conns
         /\ stage \in [Workers -> Stages]
         /\ sock \in [Conns -> Nat]
         /\ open \in [Fds -> Conns \cup {NoConn}]
         /\ backlog \in Seq(Conns)
         /\ DOMAIN peer = Conns

\* A worker is in a closure exactly while the pool has it running a task, and
\* then it holds a connection.
InClosure == \A w \in Workers : /\ stage[w] # "idle" <=> worker[w] = "running"
                                /\ worker[w] = "running" => running[w] \in Conns

\* The connections of queued and running closures have a descriptor.
OwnDescriptor == \A c \in Pool!Queued \cup Pool!Active : sock[c] \in Fds /\ open[sock[c]] = c

\* What waits in the backlog was never submitted, and waits there once: the
\* closures that capture a connection are one.
AcceptedOnce == /\ \A i, j \in DOMAIN backlog : backlog[i] = backlog[j] => i = j
                /\ Waiting \cap Pool!Submitted = {}
                /\ \A c \in Conns : peer[c] = "absent" => c \notin Waiting \cup Pool!Submitted
                /\ main = "accept" => backlog # <<>>

\* The inductive invariant.
IInv == Types /\ InClosure /\ Pool!NeverTwice /\ OwnDescriptor /\ AcceptedOnce
-----------------------------------------------------------------------------
(* Lemmas. *)

Elements(s) == {s[i] : i \in DOMAIN s}
Distinct(s) == \A i, j \in DOMAIN s : s[i] = s[j] => i = j

\* push and pop, as facts about the elements of a sequence.
LEMMA AppendElements ==
    ASSUME NEW S, NEW q \in Seq(S), NEW e \in S
    PROVE  /\ Append(q, e) \in Seq(S) /\ Append(q, e) # <<>>
           /\ Elements(Append(q, e)) = Elements(q) \cup {e}
           /\ Distinct(q) /\ e \notin Elements(q) => Distinct(Append(q, e))
<1> DEFINE r == Append(q, e)
<1>1. /\ r \in Seq(S) /\ r # <<>>
      /\ Len(r) = Len(q) + 1 /\ Len(q) \in Nat
      /\ \A i \in 1 .. Len(q) : r[i] = q[i]
      /\ r[Len(q) + 1] = e
  BY AppendProperties
<1>2. DOMAIN q = 1 .. Len(q) /\ DOMAIN r = 1 .. Len(q) + 1
  BY <1>1
<1> HIDE DEF r
<1>3. Elements(r) = Elements(q) \cup {e}
  BY <1>1, <1>2 DEF Elements
<1>4. ASSUME Distinct(q), e \notin Elements(q),
             NEW i \in DOMAIN r, NEW j \in DOMAIN r, r[i] = r[j]
      PROVE  i = j
  BY <1>1, <1>2, <1>4 DEF Distinct, Elements
<1>5. QED
  BY <1>1, <1>3, <1>4 DEF Distinct, r

LEMMA TailElements ==
    ASSUME NEW S, NEW q \in Seq(S), q # <<>>, Distinct(q)
    PROVE  /\ Tail(q) \in Seq(S) /\ Head(q) \in S /\ Distinct(Tail(q))
           /\ Elements(Tail(q)) = Elements(q) \ {Head(q)} /\ Head(q) \in Elements(q)
<1> DEFINE r == Tail(q)
<1>1. /\ r \in Seq(S) /\ Head(q) \in S
      /\ Len(r) = Len(q) - 1 /\ Len(q) \in Nat \ {0}
      /\ \A i \in 1 .. Len(r) : r[i] = q[i + 1]
      /\ Head(q) = q[1]
  BY HeadTailProperties
<1>2. DOMAIN q = 1 .. Len(q) /\ DOMAIN r = 1 .. Len(q) - 1
  BY <1>1
<1> HIDE DEF r
<1>3. ASSUME NEW i \in DOMAIN q, q[i] # Head(q)
      PROVE  q[i] \in Elements(r)
  <2>1. i - 1 \in DOMAIN r /\ r[i - 1] = q[i]
    BY <1>1, <1>2, <1>3
  <2>2. QED
    BY <2>1 DEF Elements
<1>4. ASSUME NEW i \in DOMAIN r
      PROVE  r[i] \in Elements(q) \ {Head(q)}
  <2>1. /\ i + 1 \in DOMAIN q /\ 1 \in DOMAIN q /\ i + 1 # 1
        /\ r[i] = q[i + 1] /\ Head(q) = q[1]
    BY <1>1, <1>2
  <2>2. q[i + 1] # q[1]
    BY <2>1, Zenon DEF Distinct
  <2>3. q[i + 1] \in Elements(q)
    BY <2>1 DEF Elements
  <2>4. QED
    BY <2>1, <2>2, <2>3, Zenon
<1>5. ASSUME NEW i \in DOMAIN r, NEW j \in DOMAIN r, r[i] = r[j]
      PROVE  i = j
  <2>1. /\ i + 1 \in DOMAIN q /\ j + 1 \in DOMAIN q
        /\ q[i + 1] = q[j + 1] /\ i \in Int /\ j \in Int
    BY <1>1, <1>2, <1>5
  <2>2. i + 1 = j + 1
    BY <2>1, Zenon DEF Distinct
  <2>3. QED
    BY <2>1, <2>2
<1>6. Elements(r) = Elements(q) \ {Head(q)} /\ Head(q) \in Elements(q)
  <2>1. 1 \in DOMAIN q /\ Head(q) = q[1]
    BY <1>1, <1>2
  <2>2. Head(q) \in Elements(q)
    BY <2>1 DEF Elements
  <2>3. ASSUME NEW x \in Elements(r)
        PROVE  x \in Elements(q) \ {Head(q)}
    <3>1. PICK i \in DOMAIN r : x = r[i]
      BY <2>3, Zenon DEF Elements
    <3>2. QED
      BY <3>1, <1>4, Zenon
  <2>4. ASSUME NEW x \in Elements(q), x # Head(q)
        PROVE  x \in Elements(r)
    <3>1. PICK i \in DOMAIN q : x = q[i]
      BY <2>4, Zenon DEF Elements
    <3>2. QED
      BY <3>1, <2>4, <1>3, Zenon
  <2>5. QED
    BY <2>2, <2>3, <2>4, Zenon
<1>7. Distinct(r)
  BY <1>5, Zenon DEF Distinct
<1>8. QED
  BY <1>1, <1>6, <1>7, Zenon DEF r
-----------------------------------------------------------------------------
(* The inductive invariant is preserved. *)

LEMMA InitIInv == Init => IInv
<1> SUFFICES ASSUME Init PROVE IInv
  OBVIOUS
<1>1. /\ tasks = <<>> /\ backlog = <<>> /\ done = {}
      /\ worker = [w \in Workers |-> "ready"]
      /\ running = [w \in Workers |-> NoConn]
      /\ stage = [w \in Workers |-> "idle"]
      /\ sock = [c \in Conns |-> 0]
      /\ open = [f \in Fds |-> NoConn]
      /\ peer = [c \in Conns |-> "absent"]
      /\ main = "check"
  BY DEF Init, Pool!Init
<1>2. /\ tasks \in Seq(Conns) /\ DOMAIN tasks = {}
      /\ backlog \in Seq(Conns) /\ DOMAIN backlog = {}
  BY <1>1
<1>3. Pool!Queued = {} /\ Pool!Active = {} /\ Waiting = {} /\ Pool!Submitted = {}
  BY <1>1, <1>2 DEF Pool!Queued, Pool!Active, Pool!In, Pool!Submitted, Waiting
<1>4. Types
  BY <1>1, <1>2 DEF Types, Stages, Pool!WorkerStates
<1>5. InClosure
  BY <1>1 DEF InClosure
<1>6. Pool!NeverTwice
  BY <1>1, <1>2, <1>3 DEF Pool!NeverTwice, Pool!In
<1>7. OwnDescriptor
  BY <1>3 DEF OwnDescriptor
<1>8. AcceptedOnce
  BY <1>1, <1>2, <1>3 DEF AcceptedOnce
<1>9. QED
  BY <1>4, <1>5, <1>6, <1>7, <1>8 DEF IInv

\* A step that neither begins nor ends a closure keeps everything but, perhaps,
\* what AcceptedOnce says of the backlog.
LEMMA PoolAtRest ==
    ASSUME IInv,
           UNCHANGED <<tasks, running, done, sock, open>>,
           worker' \in [Workers -> Pool!WorkerStates],
           \A w \in Workers : worker'[w] = "running" <=> worker[w] = "running",
           stage' \in [Workers -> Stages],
           \A w \in Workers : stage'[w] = "idle" <=> stage[w] = "idle",
           backlog' \in Seq(Conns), DOMAIN peer' = Conns
    PROVE  /\ Types' /\ InClosure' /\ Pool!NeverTwice' /\ OwnDescriptor'
           /\ Pool!Submitted' = Pool!Submitted
<1> USE DEF IInv
<1>1. Pool!In("running")' = Pool!In("running")
  BY DEF Pool!In
<1>2. /\ Pool!Queued' = Pool!Queued
      /\ Pool!Active' = Pool!Active
      /\ Pool!Submitted' = Pool!Submitted
  BY <1>1 DEF Pool!Queued, Pool!Active, Pool!Submitted
<1>3. Types'
  BY DEF Types
<1>4. InClosure'
  BY DEF InClosure
<1>5. Pool!NeverTwice'
  BY <1>1, <1>2 DEF Pool!NeverTwice
<1>6. OwnDescriptor'
  BY <1>2 DEF OwnDescriptor
<1>7. QED
  BY <1>2, <1>3, <1>4, <1>5, <1>6

\* The end of a closure: its descriptor is closed, or leaked by an exception.
LEMMA ClosureEndsIInv ==
    ASSUME IInv, NEW w \in Workers, ClosureEnds(w), stage[w] # "idle",
           CloseSocket(w) \/ UNCHANGED open,
           UNCHANGED <<sock, backlog, peer, main>>
    PROVE  IInv'
<1> USE DEF IInv
<1>1. /\ worker[w] = "running" /\ worker' = [worker EXCEPT ![w] = "ready"]
      /\ running' = [running EXCEPT ![w] = NoConn]
      /\ done' = done \cup {running[w]} /\ tasks' = tasks
      /\ stage' = [stage EXCEPT ![w] = "idle"]
      /\ running[w] \in Conns
  BY DEF ClosureEnds, Pool!Finish, InClosure
<1>2. /\ w \in Pool!In("running")
      /\ Pool!In("running")' = Pool!In("running") \ {w}
      /\ \A v \in Pool!In("running")' : running'[v] = running[v]
  BY <1>1 DEF Types, Pool!In
<1>3. /\ Pool!Queued' = Pool!Queued
      /\ Pool!Active' = Pool!Active \ {running[w]}
      /\ running[w] \in Pool!Active
      /\ Pool!Submitted' = Pool!Submitted
  BY <1>1, <1>2 DEF Pool!Queued, Pool!Active, Pool!Submitted, Pool!NeverTwice
<1>4. sock[running[w]] \in Fds /\ open[sock[running[w]]] = running[w]
  BY <1>3 DEF OwnDescriptor
<1>5. Types'
  <2>1. open' \in [Fds -> Conns \cup {NoConn}]
    BY DEF Types, CloseSocket
  <2>2. QED
    BY <1>1, <2>1 DEF Types, Stages, Pool!WorkerStates
<1>6. InClosure'
  BY <1>1 DEF InClosure, Types
<1>7. Pool!NeverTwice'
  BY <1>1, <1>2, <1>3 DEF Pool!NeverTwice
<1>8. ASSUME NEW c \in Pool!Queued' \cup Pool!Active'
      PROVE  sock'[c] \in Fds /\ open'[sock'[c]] = c
  <2>1. c \in Pool!Queued \cup Pool!Active /\ c # running[w]
    BY <1>3 DEF Pool!NeverTwice
  <2>2. sock[c] \in Fds /\ open[sock[c]] = c /\ sock[c] # sock[running[w]]
    BY <1>4, <2>1 DEF OwnDescriptor
  <2>3. QED
    BY <2>2 DEF CloseSocket, Types
<1>9. AcceptedOnce'
  BY <1>3 DEF AcceptedOnce, Waiting
<1>10. QED
  BY <1>5, <1>6, <1>7, <1>8, <1>9 DEF OwnDescriptor

\* A worker takes the oldest closure: its connection changes hands, no more.
LEMMA TakeConnIInv ==
    ASSUME IInv, NEW w \in Workers, TakeConn(w)
    PROVE  IInv'
<1> USE DEF IInv
<1>1. /\ worker[w] = "ready" /\ worker' = [worker EXCEPT ![w] = "running"]
      /\ tasks # <<>> /\ tasks' = Tail(tasks)
      /\ running' = [running EXCEPT ![w] = Head(tasks)]
      /\ stage' = [stage EXCEPT ![w] = "recv"]
      /\ UNCHANGED <<done, sock, open, backlog, peer, main>>
  BY DEF TakeConn, Pool!Take, netVars
<1>2. Distinct(tasks) /\ tasks \in Seq(Conns)
  BY DEF Pool!NeverTwice, Distinct, Types
<1>3. /\ tasks' \in Seq(Conns) /\ Head(tasks) \in Conns /\ Distinct(tasks')
      /\ Pool!Queued' = Pool!Queued \ {Head(tasks)} /\ Head(tasks) \in Pool!Queued
  <2>1. Pool!Queued = Elements(tasks) /\ Pool!Queued' = Elements(tasks')
    BY DEF Pool!Queued, Elements
  <2>2. QED
    BY <1>1, <1>2, <2>1, TailElements
<1>4. /\ Pool!In("running")' = Pool!In("running") \cup {w}
      /\ w \notin Pool!In("running")
      /\ running'[w] = Head(tasks)
      /\ \A v \in Pool!In("running") : running'[v] = running[v]
  BY <1>1 DEF Types, Pool!In
<1>5. Pool!Active' = Pool!Active \cup {Head(tasks)}
  BY <1>4 DEF Pool!Active
<1>6. /\ Pool!Queued' \cup Pool!Active' = Pool!Queued \cup Pool!Active
      /\ Pool!Submitted' = Pool!Submitted
  BY <1>1, <1>3, <1>5 DEF Pool!Submitted
<1>7. Types'
  BY <1>1, <1>3 DEF Types, Stages, Pool!WorkerStates
<1>8. InClosure'
  BY <1>1, <1>3 DEF InClosure, Types
<1>9. Pool!NeverTwice'
  <2>1. Head(tasks) \notin Pool!Active
    BY <1>3 DEF Pool!NeverTwice
  <2>2. \A u, v \in Pool!In("running")' : running'[u] = running'[v] => u = v
    BY <1>4, <2>1 DEF Pool!NeverTwice, Pool!Active
  <2>3. Pool!Queued' \cap Pool!Active' = {}
    BY <1>3, <1>5 DEF Pool!NeverTwice
  <2>4. (Pool!Queued' \cup Pool!Active') \cap done' = {}
    BY <1>1, <1>6 DEF Pool!NeverTwice
  <2>5. QED
    BY <1>3, <2>2, <2>3, <2>4 DEF Pool!NeverTwice, Distinct
<1>10. OwnDescriptor'
  BY <1>1, <1>6 DEF OwnDescriptor
<1>11. AcceptedOnce'
  BY <1>1, <1>6 DEF AcceptedOnce, Waiting
<1>12. QED
  BY <1>7, <1>8, <1>9, <1>10, <1>11

\* accept() gives a free descriptor to a connection that no closure knows.
LEMMA AcceptIInv ==
    ASSUME IInv, AcceptAndSubmit
    PROVE  IInv'
<1> USE DEF IInv
<1> DEFINE c == Head(backlog)
<1>1. PICK fd \in FreeFds : /\ sock' = [sock EXCEPT ![c] = fd]
                            /\ open' = [open EXCEPT ![fd] = c]
  BY DEF AcceptAndSubmit
<1>2. /\ main = "accept" /\ main' = "submit"
      /\ tasks' = Append(tasks, c) /\ c \notin Pool!Submitted
      /\ backlog' = Tail(backlog)
      /\ UNCHANGED <<worker, running, done, peer, stage>>
  BY DEF AcceptAndSubmit, Pool!Submit
<1>3. backlog \in Seq(Conns) /\ backlog # <<>> /\ Distinct(backlog)
  BY <1>2 DEF AcceptedOnce, Types, Distinct
<1>4. /\ backlog' \in Seq(Conns) /\ c \in Conns /\ Distinct(backlog')
      /\ Waiting' = Waiting \ {c} /\ c \in Waiting
  <2>1. Waiting = Elements(backlog) /\ Waiting' = Elements(backlog')
    BY DEF Waiting, Elements
  <2>2. QED
    BY <1>2, <1>3, <2>1, TailElements
<1>5. /\ tasks' \in Seq(Conns) /\ Distinct(tasks')
      /\ Pool!Queued' = Pool!Queued \cup {c}
  <2>1. tasks \in Seq(Conns) /\ Distinct(tasks)
    BY DEF Types, Pool!NeverTwice, Distinct
  <2>2. Pool!Queued = Elements(tasks) /\ Pool!Queued' = Elements(tasks')
    BY DEF Pool!Queued, Elements
  <2>3. c \notin Elements(tasks)
    BY <1>2, <2>2 DEF Pool!Submitted
  <2>4. QED
    BY <1>2, <1>4, <2>1, <2>2, <2>3, AppendElements
<1>6. /\ Pool!In("running")' = Pool!In("running")
      /\ Pool!Active' = Pool!Active
      /\ Pool!Submitted' = Pool!Submitted \cup {c}
  BY <1>2, <1>5 DEF Pool!In, Pool!Active, Pool!Submitted
<1>7. fd \in Fds /\ fd \in Nat /\ open[fd] = NoConn
  BY FdsAssumption DEF FreeFds
<1>8. Types'
  BY <1>1, <1>2, <1>4, <1>5, <1>7 DEF Types
<1>9. InClosure'
  BY <1>2 DEF InClosure
<1>10. Pool!NeverTwice'
  BY <1>2, <1>5, <1>6 DEF Pool!NeverTwice, Pool!Submitted, Distinct
<1>11. ASSUME NEW d \in Pool!Queued' \cup Pool!Active'
       PROVE  sock'[d] \in Fds /\ open'[sock'[d]] = d
  <2>1. CASE d = c
    BY <1>1, <1>4, <1>7, <2>1 DEF Types
  <2>2. CASE d # c
    <3>1. d \in Pool!Queued \cup Pool!Active
      BY <1>5, <1>6, <2>2
    <3>2. d \in Conns /\ sock[d] \in Fds /\ open[sock[d]] = d
      BY <3>1 DEF OwnDescriptor, Types, Pool!Queued, Pool!Active, Pool!In, InClosure
    <3>3. sock[d] # fd
      BY <1>7, <3>2, ConnsAssumption
    <3>4. QED
      BY <1>1, <2>2, <3>2, <3>3 DEF Types
  <2>3. QED
    BY <2>1, <2>2
<1>12. AcceptedOnce'
  <2>1. Waiting' \cap Pool!Submitted' = {}
    BY <1>4, <1>6 DEF AcceptedOnce
  <2>2. \A d \in Conns : peer'[d] = "absent" => d \notin Waiting' \cup Pool!Submitted'
    BY <1>2, <1>4, <1>6 DEF AcceptedOnce
  <2>3. QED
    BY <1>2, <1>4, <2>1, <2>2 DEF AcceptedOnce, Distinct
<1>13. QED
  BY <1>8, <1>9, <1>10, <1>11, <1>12 DEF OwnDescriptor

\* Clients change the backlog only by entering it, once.
LEMMA ConnectIInv ==
    ASSUME IInv, NEW c \in Conns, Connect(c)
    PROVE  IInv'
<1> USE DEF IInv
<1>1. /\ peer[c] = "absent" /\ peer' = [peer EXCEPT ![c] = "connected"]
      /\ backlog' = Append(backlog, c) /\ main' = main
      /\ UNCHANGED <<poolVars, sock, open, stage>>
  BY DEF Connect
<1>2. backlog \in Seq(Conns) /\ Distinct(backlog) /\ c \notin Waiting
  BY <1>1 DEF AcceptedOnce, Types, Distinct
<1>3. /\ backlog' \in Seq(Conns) /\ backlog' # <<>> /\ Distinct(backlog')
      /\ Waiting' = Waiting \cup {c}
  <2>1. Waiting = Elements(backlog) /\ Waiting' = Elements(backlog')
    BY DEF Waiting, Elements
  <2>2. QED
    BY <1>1, <1>2, <2>1, AppendElements
<1>4. /\ Types' /\ InClosure' /\ Pool!NeverTwice' /\ OwnDescriptor'
      /\ Pool!Submitted' = Pool!Submitted
  <2>1. DOMAIN peer' = Conns
    BY <1>1 DEF Types
  <2>2. worker \in [Workers -> Pool!WorkerStates] /\ stage \in [Workers -> Stages]
    BY DEF Types
  <2>3. UNCHANGED <<tasks, running, done, sock, open, worker, stage>>
    BY <1>1 DEF poolVars
  <2>4. QED
    BY <1>3, <2>1, <2>2, <2>3, PoolAtRest
<1>5. AcceptedOnce'
  <2>1. Waiting' \cap Pool!Submitted' = {}
    BY <1>1, <1>3, <1>4 DEF AcceptedOnce
  <2>2. \A d \in Conns : peer'[d] = "absent" => d \notin Waiting' \cup Pool!Submitted'
    BY <1>1, <1>3, <1>4 DEF AcceptedOnce, Types
  <2>3. QED
    BY <1>3, <2>1, <2>2 DEF Distinct, AcceptedOnce
<1>6. QED
  BY <1>4, <1>5

LEMMA ClientIInv ==
    ASSUME IInv, NEW c \in Conns, Client(c) \/ SendRest(c) \/ GiveUp(c)
    PROVE  IInv'
<1> USE DEF IInv
<1>1. /\ peer[c] # "absent"
      /\ \E s : s # "absent" /\ peer' = [peer EXCEPT ![c] = s]
      /\ UNCHANGED <<tasks, worker, running, done, sock, open, stage, backlog, main>>
  <2>1. CASE Client(c)
    BY <2>1 DEF Client, poolVars
  <2>2. CASE SendRest(c)
    BY <2>2 DEF SendRest, poolVars
  <2>3. CASE GiveUp(c)
    BY <2>3 DEF GiveUp, poolVars
  <2>4. QED
    BY <2>1, <2>2, <2>3
<1>2. /\ DOMAIN peer' = Conns
      /\ \A d \in Conns : peer'[d] = "absent" => peer[d] = "absent"
  BY <1>1 DEF Types
<1>3. /\ Types' /\ InClosure' /\ Pool!NeverTwice' /\ OwnDescriptor'
      /\ Pool!Submitted' = Pool!Submitted
  <2>1. /\ worker \in [Workers -> Pool!WorkerStates] /\ stage \in [Workers -> Stages]
        /\ backlog \in Seq(Conns)
    BY DEF Types
  <2>2. QED
    BY <1>1, <1>2, <2>1, PoolAtRest
<1>4. AcceptedOnce'
  BY <1>1, <1>2, <1>3 DEF AcceptedOnce, Waiting
<1>5. QED
  BY <1>3, <1>4

\* The other steps of main(), and a worker's wait, exit or spurious wakeup:
\* workers at rest stay at rest, and the backlog at most empties.
LEMMA RestIInv ==
    ASSUME IInv,
           UNCHANGED <<tasks, running, done, sock, open, stage>>,
           worker' \in [Workers -> Pool!WorkerStates],
           \A w \in Workers : worker'[w] = "running" <=> worker[w] = "running",
           DOMAIN peer' = Conns,
           \A d \in Conns : peer'[d] = "absent" => peer[d] = "absent",
           backlog' \in {backlog, <<>>},
           main' = "accept" => backlog' # <<>>
    PROVE  IInv'
<1> USE DEF IInv
<1>1. /\ backlog' \in Seq(Conns) /\ Waiting' \subseteq Waiting
      /\ Distinct(backlog) => Distinct(backlog')
  <2>1. CASE backlog' = backlog
    BY <2>1 DEF Types, Waiting
  <2>2. CASE backlog' = <<>>
    <3>1. backlog' \in Seq(Conns) /\ DOMAIN backlog' = {}
      BY <2>2
    <3>2. QED
      BY <3>1 DEF Waiting, Distinct
  <2>3. QED
    BY <2>1, <2>2
<1>2. stage \in [Workers -> Stages]
  BY DEF Types
<1>3. /\ Types' /\ InClosure' /\ Pool!NeverTwice' /\ OwnDescriptor'
      /\ Pool!Submitted' = Pool!Submitted
  BY <1>1, <1>2, PoolAtRest
<1>4. AcceptedOnce'
  BY <1>1, <1>3 DEF AcceptedOnce, Distinct
<1>5. QED
  BY <1>3, <1>4

LEMMA MainIInv ==
    ASSUME IInv, MainStep
    PROVE  IInv'
<1> USE DEF IInv
<1> DEFINE AtRest(W) == /\ W \in [Workers -> Pool!WorkerStates]
                        /\ \A w \in Workers : W[w] = "running" <=> worker[w] = "running"
<1>1. AtRest(worker) /\ DOMAIN peer = Conns
  BY DEF Types
<1>2. CASE CheckFlag \/ Poll \/ AcceptFails
  <2>1. /\ UNCHANGED <<tasks, worker, running, done, sock, open, stage, peer, backlog>>
        /\ main' = "accept" => backlog # <<>>
    BY <1>2 DEF CheckFlag, Poll, AcceptFails, poolVars, netVars
  <2>2. QED
    BY <1>1, <2>1, RestIInv
<1>3. CASE AcceptAndSubmit
  BY <1>3, AcceptIInv
<1>4. CASE SubmitNotifies
  <2>1. /\ UNCHANGED <<tasks, running, done, sock, open, stage, peer, backlog>>
        /\ main' = "check"
        /\ \/ \E w \in Workers : /\ worker[w] = "waiting"
                                 /\ worker' = [worker EXCEPT ![w] = "ready"]
           \/ worker' = worker
    BY <1>4 DEF SubmitNotifies, Pool!NotifyOne, Pool!In, netVars
  <2>2. AtRest(worker')
    BY <2>1 DEF Types, Pool!WorkerStates
  <2>3. QED
    BY <1>1, <2>1, <2>2, RestIInv
<1>5. CASE CloseListener
  <2>1. /\ UNCHANGED <<tasks, worker, running, done, sock, open, stage>>
        /\ backlog' = <<>> /\ main' = "destroy"
        /\ peer' = [c \in Conns |-> IF c \in Waiting THEN "refused" ELSE peer[c]]
    BY <1>5 DEF CloseListener, poolVars
  <2>2. DOMAIN peer' = Conns /\ \A d \in Conns : peer'[d] = "absent" => peer[d] = "absent"
    BY <2>1
  <2>3. QED
    BY <1>1, <2>1, <2>2, RestIInv
<1>6. CASE DestroyPool
  <2>1. /\ UNCHANGED <<tasks, running, done, sock, open, stage, peer, backlog>>
        /\ main' # "accept"
    BY <1>6 DEF DestroyPool, Pool!Shutdown, Pool!NotifyAll, Pool!Join, netVars
  <2>2. AtRest(worker')
    <3>1. \/ worker' = worker
          \/ worker' = [w \in Workers |->
                          IF worker[w] = "waiting" THEN "ready" ELSE worker[w]]
      BY <1>6 DEF DestroyPool, Pool!Shutdown, Pool!NotifyAll, Pool!Join
    <3>2. QED
      BY <3>1 DEF Types, Pool!WorkerStates
  <2>3. QED
    BY <1>1, <2>1, <2>2, RestIInv
<1>7. QED
  BY <1>2, <1>3, <1>4, <1>5, <1>6 DEF MainStep

LEMMA WorkerIInv ==
    ASSUME IInv, NEW w \in Workers, WorkerStep(w) \/ Spurious(w)
    PROVE  IInv'
<1> USE DEF IInv
<1>1. CASE TakeConn(w)
  BY <1>1, TakeConnIInv
<1>2. CASE RecvRequest(w)
  <2>1. /\ UNCHANGED <<tasks, worker, running, done, sock, open, peer, backlog, main>>
        /\ \E s \in {"dispatch", "upload"} : stage' = [stage EXCEPT ![w] = s]
        /\ stage[w] = "recv"
    BY <1>2 DEF RecvRequest, poolVars
  <2>2. /\ stage' \in [Workers -> Stages]
        /\ \A v \in Workers : stage'[v] = "idle" <=> stage[v] = "idle"
    BY <2>1 DEF Types, Stages
  <2>3. /\ worker \in [Workers -> Pool!WorkerStates]
        /\ backlog \in Seq(Conns) /\ DOMAIN peer = Conns
    BY DEF Types
  <2>4. /\ Types' /\ InClosure' /\ Pool!NeverTwice' /\ OwnDescriptor'
        /\ Pool!Submitted' = Pool!Submitted
    BY <2>1, <2>2, <2>3, PoolAtRest
  <2>5. AcceptedOnce'
    BY <2>1, <2>4 DEF AcceptedOnce, Waiting
  <2>6. QED
    BY <2>4, <2>5
<1>3. CASE RecvFails(w) \/ UploadReceives(w) \/ HandlerReturns(w) \/ HandlerThrows(w)
  <2>1. /\ ClosureEnds(w) /\ stage[w] # "idle"
        /\ CloseSocket(w) \/ UNCHANGED open
        /\ UNCHANGED <<sock, backlog, peer, main>>
    BY <1>3 DEF RecvFails, UploadReceives, HandlerReturns, HandlerThrows, netVars
  <2>2. QED
    BY <2>1, ClosureEndsIInv
<1>4. CASE Idle(w) \/ Spurious(w)
  <2>1. /\ UNCHANGED <<tasks, running, done, sock, open, stage, peer, backlog, main>>
        /\ worker[w] \in {"ready", "waiting"}
        /\ \E s \in {"ready", "waiting", "exited"} : worker' = [worker EXCEPT ![w] = s]
    BY <1>4 DEF Idle, Spurious, Pool!Wait, Pool!Exit, Pool!SpuriousWakeup, netVars
  <2>2. /\ worker' \in [Workers -> Pool!WorkerStates]
        /\ \A v \in Workers : worker'[v] = "running" <=> worker[v] = "running"
    BY <2>1 DEF Types, Pool!WorkerStates
  <2>3. DOMAIN peer = Conns /\ (main = "accept" => backlog # <<>>)
    BY DEF Types, AcceptedOnce
  <2>4. QED
    BY <2>1, <2>2, <2>3, RestIInv
<1>5. QED
  BY <1>1, <1>2, <1>3, <1>4 DEF WorkerStep

LEMMA NextIInv == IInv /\ [Next]_vars => IInv'
<1> SUFFICES ASSUME IInv, [Next]_vars PROVE IInv'
  OBVIOUS
<1>1. ASSUME NEW c \in Conns, Connect(c) \/ Client(c) \/ SendRest(c) \/ GiveUp(c)
      PROVE  IInv'
  BY <1>1, ConnectIInv, ClientIInv
<1>2. CASE RequestShutdown
  <2>1. UNCHANGED <<tasks, worker, running, done, sock, open, stage, peer, backlog, main>>
    BY <1>2 DEF RequestShutdown, poolVars, netVars
  <2>2. /\ worker \in [Workers -> Pool!WorkerStates] /\ DOMAIN peer = Conns
        /\ main = "accept" => backlog # <<>>
    BY DEF IInv, Types, AcceptedOnce
  <2>3. QED
    BY <2>1, <2>2, RestIInv
<1>3. CASE MainStep
  BY <1>3, MainIInv
<1>4. ASSUME NEW w \in Workers, WorkerStep(w) \/ Spurious(w)
      PROVE  IInv'
  BY <1>4, WorkerIInv
<1>5. CASE UNCHANGED vars
  <2>1. UNCHANGED <<tasks, worker, running, done, sock, open, stage, peer, backlog, main>>
    BY <1>5 DEF vars, poolVars, netVars
  <2>2. /\ worker \in [Workers -> Pool!WorkerStates] /\ DOMAIN peer = Conns
        /\ main = "accept" => backlog # <<>>
    BY DEF IInv, Types, AcceptedOnce
  <2>3. QED
    BY <2>1, <2>2, RestIInv
<1>6. QED
  BY <1>1, <1>2, <1>3, <1>4, <1>5 DEF Next, Exited
-----------------------------------------------------------------------------
(* What becomes of every client, and of every descriptor: facts that follow  *)
(* once IInv is known to hold on both sides of a step.                       *)

\* The pool stops as ThreadPool_proofs shows of it, main() waits for that, and
\* has closed the listening socket before.
WindsUp == /\ shutdown <=> owner \in {"notify_all", "join", "joined"}
           /\ \A w \in Workers : worker[w] = "exited" => shutdown /\ tasks = <<>>
           /\ owner = "joined" => \A w \in Workers : worker[w] = "exited"
           /\ main = "exited" => owner = "joined"
           /\ ~Listening => backlog = <<>>

\* A client that got through connect() is in the backlog or in a closure, or
\* was reset.
Accounted == \A c \in Conns : \/ peer[c] \in {"absent", "refused"}
                              \/ c \in Waiting \cup Pool!Submitted

\* A descriptor in use is the one its connection was accepted on.
AcceptedOn == \A f \in Fds : open[f] # NoConn =>
                  open[f] \in Pool!Submitted /\ sock[open[f]] = f

\* A step accepts a connection, begins a closure, ends one, or leaves the
\* closures and the descriptors alone.
EndsClosure(w) ==
    /\ ClosureEnds(w) /\ stage[w] # "idle"
    /\ CloseSocket(w) \/ (UNCHANGED open /\ running[w] \in Throwing)
    /\ UNCHANGED <<sock, backlog, peer, main>>
LeavesClosures ==
    /\ UNCHANGED <<tasks, running, done, sock, open>>
    /\ \A w \in Workers : worker'[w] = "running" <=> worker[w] = "running"

LEMMA StepKinds ==
    ASSUME IInv, [Next]_vars
    PROVE  \/ AcceptAndSubmit
           \/ \E w \in Workers : TakeConn(w) \/ EndsClosure(w)
           \/ LeavesClosures
<1> USE DEF IInv
<1>1. CASE UNCHANGED vars \/ Exited
  BY <1>1 DEF Exited, vars, poolVars, netVars, LeavesClosures
<1>2. ASSUME NEW c \in Conns, Connect(c) \/ Client(c) \/ SendRest(c) \/ GiveUp(c)
      PROVE  LeavesClosures
  BY <1>2 DEF Connect, Client, SendRest, GiveUp, poolVars, LeavesClosures
<1>3. CASE RequestShutdown \/ CheckFlag \/ Poll \/ AcceptFails \/ CloseListener
  BY <1>3 DEF RequestShutdown, CheckFlag, Poll, AcceptFails, CloseListener, poolVars, netVars,
              LeavesClosures
<1>4. CASE SubmitNotifies
  BY <1>4 DEF SubmitNotifies, Pool!NotifyOne, Pool!In, netVars, LeavesClosures, Types
<1>5. CASE DestroyPool
  <2>1. /\ UNCHANGED <<tasks, running, done, sock, open>>
        /\ \/ worker' = worker
           \/ worker' = [w \in Workers |->
                           IF worker[w] = "waiting" THEN "ready" ELSE worker[w]]
    BY <1>5 DEF DestroyPool, Pool!Shutdown, Pool!NotifyAll, Pool!Join, netVars
  <2>2. QED
    BY <2>1 DEF LeavesClosures, Types
<1>6. ASSUME NEW w \in Workers, RecvRequest(w)
      PROVE  LeavesClosures
  BY <1>6 DEF RecvRequest, poolVars, LeavesClosures
<1>7. ASSUME NEW w \in Workers, Idle(w) \/ Spurious(w)
      PROVE  LeavesClosures
  BY <1>7 DEF Idle, Spurious, Pool!Wait, Pool!Exit, Pool!SpuriousWakeup, netVars,
              LeavesClosures, Types
<1>8. ASSUME NEW w \in Workers,
             RecvFails(w) \/ UploadReceives(w) \/ HandlerReturns(w) \/ HandlerThrows(w)
      PROVE  EndsClosure(w)
  BY <1>8 DEF RecvFails, UploadReceives, HandlerReturns, HandlerThrows, netVars, EndsClosure
<1>9. QED
  BY <1>1, <1>2, <1>3, <1>4, <1>5, <1>6, <1>7, <1>8 DEF Next, MainStep, WorkerStep

\* A connection that was submitted stays so, and accept()'s joins them.
LEMMA SubmittedGrows ==
    ASSUME IInv, [Next]_vars
    PROVE  /\ Pool!Submitted \subseteq Pool!Submitted'
           /\ AcceptAndSubmit => /\ backlog \in Seq(Conns) /\ backlog # <<>>
                                 /\ Head(backlog) \in Conns
                                 /\ Waiting = Waiting' \cup {Head(backlog)}
                                 /\ Head(backlog) \in Pool!Submitted'
<1> USE DEF IInv
<1>1. CASE AcceptAndSubmit
  <2> DEFINE c == Head(backlog)
  <2>1. /\ tasks' = Append(tasks, c) /\ backlog' = Tail(backlog)
        /\ main = "accept" /\ UNCHANGED <<worker, running, done>>
    BY <1>1 DEF AcceptAndSubmit, Pool!Submit
  <2>2. backlog \in Seq(Conns) /\ backlog # <<>> /\ Distinct(backlog) /\ tasks \in Seq(Conns)
    BY <2>1 DEF AcceptedOnce, Types, Distinct
  <2>3. c \in Conns /\ Elements(backlog') = Elements(backlog) \ {c} /\ c \in Elements(backlog)
    BY <2>1, <2>2, TailElements
  <2>4. Elements(tasks') = Elements(tasks) \cup {c}
    BY <2>1, <2>2, <2>3, AppendElements
  <2>5. /\ Pool!Queued = Elements(tasks) /\ Pool!Queued' = Elements(tasks')
        /\ Waiting = Elements(backlog) /\ Waiting' = Elements(backlog')
    BY DEF Pool!Queued, Waiting, Elements
  <2>6. Pool!Active' = Pool!Active /\ done' = done
    BY <2>1 DEF Pool!Active, Pool!In
  <2>7. QED
    BY <2>2, <2>3, <2>4, <2>5, <2>6 DEF Pool!Submitted
<1>2. ASSUME NEW w \in Workers, TakeConn(w)
      PROVE  Pool!Submitted \subseteq Pool!Submitted' /\ ~AcceptAndSubmit
  <2>1. /\ worker[w] = "ready" /\ worker' = [worker EXCEPT ![w] = "running"]
        /\ tasks # <<>> /\ tasks' = Tail(tasks) /\ done' = done
        /\ running' = [running EXCEPT ![w] = Head(tasks)]
        /\ main' = main
    BY <1>2 DEF TakeConn, Pool!Take
  <2>2. Distinct(tasks) /\ tasks \in Seq(Conns)
    BY DEF Pool!NeverTwice, Distinct, Types
  <2>3. Pool!Queued' = Pool!Queued \ {Head(tasks)}
    <3>1. Pool!Queued = Elements(tasks) /\ Pool!Queued' = Elements(tasks')
      BY DEF Pool!Queued, Elements
    <3>2. QED
      BY <2>1, <2>2, <3>1, TailElements
  <2>4. Pool!Active \cup {Head(tasks)} \subseteq Pool!Active'
    <3>1. /\ w \in Pool!In("running")' /\ running'[w] = Head(tasks)
          /\ \A v \in Pool!In("running") : /\ v \in Pool!In("running")'
                                           /\ running'[v] = running[v]
      BY <2>1 DEF Types, Pool!In
    <3>2. QED
      BY <3>1 DEF Pool!Active
  <2>5. ~AcceptAndSubmit
    BY <2>1 DEF AcceptAndSubmit
  <2>6. QED
    BY <2>1, <2>3, <2>4, <2>5 DEF Pool!Submitted
<1>3. ASSUME NEW w \in Workers, EndsClosure(w)
      PROVE  Pool!Submitted \subseteq Pool!Submitted' /\ ~AcceptAndSubmit
  <2>1. /\ worker[w] = "running" /\ worker' = [worker EXCEPT ![w] = "ready"]
        /\ running' = [running EXCEPT ![w] = NoConn]
        /\ done' = done \cup {running[w]} /\ tasks' = tasks /\ main' = main
    BY <1>3 DEF EndsClosure, ClosureEnds, Pool!Finish
  <2>2. \A v \in Pool!In("running") : \/ v = w
                                      \/ v \in Pool!In("running")' /\ running'[v] = running[v]
    BY <2>1 DEF Types, Pool!In
  <2>3. Pool!Active \subseteq Pool!Active' \cup {running[w]}
    BY <2>2 DEF Pool!Active
  <2>4. Pool!Queued' = Pool!Queued
    BY <2>1 DEF Pool!Queued
  <2>5. ~AcceptAndSubmit
    BY <2>1 DEF AcceptAndSubmit
  <2>6. QED
    BY <2>1, <2>3, <2>4, <2>5 DEF Pool!Submitted
<1>4. CASE LeavesClosures /\ ~AcceptAndSubmit
  <2>1. Pool!In("running")' = Pool!In("running")
    BY <1>4 DEF LeavesClosures, Pool!In
  <2>2. QED
    BY <1>4, <2>1 DEF LeavesClosures, Pool!Queued, Pool!Active, Pool!Submitted
<1>5. QED
  BY <1>1, <1>2, <1>3, <1>4, StepKinds

LEMMA WindsUpKept ==
    ASSUME IInv, WindsUp, [Next]_vars
    PROVE  WindsUp'
<1> USE DEF IInv, WindsUp
<1> DEFINE Same == UNCHANGED <<tasks, shutdown, owner, worker>>
<1>1. ASSUME Same, main' = main, ~Listening => backlog' = backlog
      PROVE  WindsUp'
  BY <1>1 DEF Listening
<1>2. CASE UNCHANGED vars \/ Exited \/ RequestShutdown
  BY <1>1, <1>2 DEF Exited, RequestShutdown, vars, poolVars, netVars
<1>3. ASSUME NEW c \in Conns, Connect(c) \/ Client(c) \/ SendRest(c) \/ GiveUp(c)
      PROVE  WindsUp'
  BY <1>1, <1>3 DEF Connect, Client, SendRest, GiveUp, poolVars
<1>4. CASE CheckFlag \/ Poll \/ AcceptFails
  BY <1>4 DEF CheckFlag, Poll, AcceptFails, poolVars, netVars, Listening
<1>5. CASE CloseListener
  BY <1>5 DEF CloseListener, poolVars, Listening
<1>6. CASE AcceptAndSubmit
  BY <1>6 DEF AcceptAndSubmit, Pool!Submit, Listening
<1>7. CASE SubmitNotifies
  <2>1. /\ owner = "notify" /\ owner' = "open"
        /\ main = "submit" /\ main' = "check"
        /\ UNCHANGED <<tasks, shutdown, backlog>>
        /\ \A w \in Workers : worker'[w] = "exited" => worker[w] = "exited"
    BY <1>7 DEF SubmitNotifies, Pool!NotifyOne, Pool!In, netVars, Types
  <2>2. QED
    BY <2>1 DEF Listening
<1>8. CASE DestroyPool
  <2>1. CASE Pool!Shutdown /\ UNCHANGED main
    BY <1>8, <2>1 DEF DestroyPool, Pool!Shutdown, netVars, Listening
  <2>2. CASE Pool!NotifyAll /\ UNCHANGED main
    <3>1. /\ owner = "notify_all" /\ owner' = "join"
          /\ UNCHANGED <<tasks, shutdown, backlog, main>>
          /\ \A w \in Workers : worker'[w] = "exited" => worker[w] = "exited"
      BY <1>8, <2>2 DEF DestroyPool, Pool!NotifyAll, netVars, Types
    <3>2. QED
      BY <3>1 DEF Listening
  <2>3. CASE Pool!Join /\ main' = "exited"
    BY <1>8, <2>3 DEF DestroyPool, Pool!Join, netVars, Listening
  <2>4. QED
    BY <1>8, <2>1, <2>2, <2>3 DEF DestroyPool
<1>9. ASSUME NEW w \in Workers, RecvRequest(w)
      PROVE  WindsUp'
  BY <1>1, <1>9 DEF RecvRequest, poolVars
<1>10. ASSUME NEW w \in Workers, TakeConn(w) \/ EndsClosure(w) \/ Idle(w) \/ Spurious(w)
       PROVE  WindsUp'
  <2>1. /\ worker[w] # "exited"
        /\ UNCHANGED <<shutdown, owner, backlog, main>>
        /\ tasks = <<>> => tasks' = <<>>
        /\ \E s \in Pool!WorkerStates : /\ worker' = [worker EXCEPT ![w] = s]
                                        /\ s = "exited" => shutdown /\ tasks = <<>>
    BY <1>10 DEF TakeConn, EndsClosure, ClosureEnds, Idle, Spurious, Pool!Take, Pool!Finish,
                 Pool!Wait, Pool!Exit, Pool!SpuriousWakeup, Pool!WorkerStates, netVars
  <2>2. \A v \in Workers : worker'[v] = "exited" =>
            worker[v] = "exited" \/ (shutdown /\ tasks = <<>>)
    BY <2>1 DEF Types
  <2>3. owner # "joined"
    BY <2>1
  <2>4. QED
    BY <2>1, <2>2, <2>3 DEF Listening
<1>11. ASSUME NEW w \in Workers,
              RecvFails(w) \/ UploadReceives(w) \/ HandlerReturns(w) \/ HandlerThrows(w)
       PROVE  WindsUp'
  <2>1. EndsClosure(w)
    BY <1>11 DEF RecvFails, UploadReceives, HandlerReturns, HandlerThrows, netVars, EndsClosure
  <2>2. QED
    BY <1>10, <2>1
<1>12. QED
  BY <1>2, <1>3, <1>4, <1>5, <1>6, <1>7, <1>8, <1>9, <1>10, <1>11
     DEF Next, MainStep, WorkerStep

LEMMA AccountedKept ==
    ASSUME IInv, Accounted, [Next]_vars
    PROVE  Accounted'
<1> USE DEF IInv
<1>1. Pool!Submitted \subseteq Pool!Submitted'
  BY SubmittedGrows
<1>2. ASSUME UNCHANGED <<peer, backlog>>
      PROVE  Accounted'
  BY <1>1, <1>2 DEF Accounted, Waiting
<1>3. ASSUME NEW d \in Conns, Connect(d)
      PROVE  Accounted'
  <2>1. /\ peer' = [peer EXCEPT ![d] = "connected"] /\ backlog' = Append(backlog, d)
        /\ peer[d] = "absent"
    BY <1>3 DEF Connect
  <2>2. Waiting' = Waiting \cup {d}
    <3>1. Waiting = Elements(backlog) /\ Waiting' = Elements(backlog')
      BY DEF Waiting, Elements
    <3>2. QED
      BY <2>1, <3>1, AppendElements DEF Types
  <2>3. QED
    BY <1>1, <2>1, <2>2 DEF Accounted, Types
<1>4. ASSUME NEW d \in Conns, Client(d) \/ SendRest(d) \/ GiveUp(d)
      PROVE  Accounted'
  <2>1. /\ peer[d] \notin {"absent", "refused"} /\ backlog' = backlog
        /\ \E s : peer' = [peer EXCEPT ![d] = s]
    BY <1>4 DEF Client, SendRest, GiveUp
  <2>2. \A c \in Conns : c # d => peer'[c] = peer[c]
    BY <2>1
  <2>3. Waiting' = Waiting
    BY <2>1 DEF Waiting
  <2>4. QED
    BY <1>1, <2>1, <2>2, <2>3 DEF Accounted
<1>5. CASE CloseListener
  <2>1. peer' = [c \in Conns |-> IF c \in Waiting THEN "refused" ELSE peer[c]]
    BY <1>5 DEF CloseListener
  <2>2. QED
    BY <1>1, <2>1 DEF Accounted
<1>6. CASE AcceptAndSubmit
  <2>1. Waiting \subseteq Waiting' \cup Pool!Submitted' /\ peer' = peer
    BY <1>6, SubmittedGrows DEF AcceptAndSubmit
  <2>2. QED
    BY <1>1, <2>1 DEF Accounted
<1>7. CASE UNCHANGED vars \/ Exited \/ RequestShutdown
  BY <1>2, <1>7 DEF Exited, RequestShutdown, vars, netVars
<1>8. CASE CheckFlag \/ Poll \/ AcceptFails \/ SubmitNotifies \/ DestroyPool
  BY <1>2, <1>8 DEF CheckFlag, Poll, AcceptFails, SubmitNotifies, DestroyPool, netVars
<1>9. ASSUME NEW w \in Workers, WorkerStep(w) \/ Spurious(w)
      PROVE  Accounted'
  BY <1>2, <1>9 DEF WorkerStep, TakeConn, RecvRequest, RecvFails, UploadReceives,
                    HandlerReturns, HandlerThrows, Idle, Spurious, netVars
<1>10. QED
  BY <1>3, <1>4, <1>5, <1>6, <1>7, <1>8, <1>9 DEF Next, MainStep

LEMMA DescriptorsKept ==
    ASSUME IInv, AcceptedOn, OnlyThrowsLeak, [Next]_vars
    PROVE  AcceptedOn' /\ OnlyThrowsLeak'
<1> USE DEF IInv
<1>1. CASE AcceptAndSubmit
  <2> DEFINE c == Head(backlog)
  <2>1. PICK fd \in FreeFds : /\ sock' = [sock EXCEPT ![c] = fd]
                              /\ open' = [open EXCEPT ![fd] = c]
    BY <1>1 DEF AcceptAndSubmit
  <2>2. c \in Conns /\ c \in Pool!Submitted' /\ Pool!Submitted \subseteq Pool!Submitted'
    BY <1>1, SubmittedGrows
  <2>3. c \notin Pool!Submitted /\ done' = done
    BY <1>1 DEF AcceptAndSubmit, Pool!Submit
  <2>4. fd \in Fds /\ fd \in Nat
    BY FdsAssumption DEF FreeFds
  <2>5. ASSUME NEW f \in Fds, open'[f] # NoConn
        PROVE  /\ open'[f] \in Pool!Submitted' /\ sock'[open'[f]] = f
               /\ open'[f] \in done' => open'[f] \in Throwing
    <3>1. CASE f = fd
      <4>1. open'[f] = c /\ sock'[c] = f
        BY <2>1, <2>2, <2>4, <3>1 DEF Types
      <4>2. c \notin done
        BY <2>3 DEF Pool!Submitted
      <4>3. QED
        BY <2>2, <2>3, <4>1, <4>2
    <3>2. CASE f # fd
      <4>1. open'[f] = open[f] /\ open[f] \in Conns
        BY <2>1, <2>4, <2>5, <3>2 DEF Types
      <4>2. open[f] \in Pool!Submitted /\ sock[open[f]] = f
        BY <2>5, <4>1 DEF AcceptedOn
      <4>3. open[f] # c
        BY <2>3, <4>2
      <4>4. sock'[open[f]] = f
        BY <2>1, <4>1, <4>2, <4>3 DEF Types
      <4>5. QED
        BY <2>2, <2>3, <4>1, <4>2, <4>4 DEF OnlyThrowsLeak
    <3>3. QED
      BY <3>1, <3>2
  <2>6. NoConn \notin done'
    BY <2>3, ConnsAssumption DEF Types
  <2>7. QED
    BY <2>5, <2>6 DEF AcceptedOn, OnlyThrowsLeak
<1>2. ASSUME NEW w \in Workers, TakeConn(w)
      PROVE  AcceptedOn' /\ OnlyThrowsLeak'
  <2>1. UNCHANGED <<sock, open, done>> /\ Pool!Submitted \subseteq Pool!Submitted'
    BY <1>2, SubmittedGrows DEF TakeConn, Pool!Take, netVars
  <2>2. QED
    BY <2>1 DEF AcceptedOn, OnlyThrowsLeak
<1>3. ASSUME NEW w \in Workers, EndsClosure(w)
      PROVE  AcceptedOn' /\ OnlyThrowsLeak'
  <2> DEFINE c == running[w]
  <2>1. /\ done' = done \cup {c} /\ sock' = sock
        /\ \/ open' = [open EXCEPT ![sock[c]] = NoConn]
           \/ open' = open /\ c \in Throwing
    BY <1>3 DEF EndsClosure, ClosureEnds, CloseSocket, Pool!Finish
  <2>2. c \in Conns /\ sock[c] \in Fds
    <3>1. worker[w] = "running" /\ c \in Conns
      BY <1>3 DEF EndsClosure, ClosureEnds, Pool!Finish, InClosure
    <3>2. QED
      BY <3>1 DEF OwnDescriptor, Pool!Active, Pool!In
  <2>3. Pool!Submitted \subseteq Pool!Submitted'
    BY SubmittedGrows
  <2>4. ASSUME NEW f \in Fds, open'[f] # NoConn
        PROVE  /\ open'[f] = open[f]
               /\ open[f] = c => c \in Throwing
    <3>1. CASE open' = open /\ c \in Throwing
      BY <3>1
    <3>2. CASE open' = [open EXCEPT ![sock[c]] = NoConn]
      <4>1. f # sock[c] /\ open'[f] = open[f]
        BY <2>2, <2>4, <3>2 DEF Types
      <4>2. open[f] # c
        BY <2>4, <4>1 DEF AcceptedOn
      <4>3. QED
        BY <4>1, <4>2
    <3>3. QED
      BY <2>1, <3>1, <3>2
  <2>5. AcceptedOn'
    BY <2>1, <2>3, <2>4 DEF AcceptedOn
  <2>6. NoConn \notin done'
    BY <2>1, <2>2, ConnsAssumption DEF Types
  <2>7. OnlyThrowsLeak'
    BY <2>1, <2>4, <2>6 DEF OnlyThrowsLeak
  <2>8. QED
    BY <2>5, <2>7
<1>4. CASE LeavesClosures
  <2>1. UNCHANGED <<sock, open, done>> /\ Pool!Submitted \subseteq Pool!Submitted'
    BY <1>4, SubmittedGrows DEF LeavesClosures
  <2>2. QED
    BY <2>1 DEF AcceptedOn, OnlyThrowsLeak
<1>5. QED
  BY <1>1, <1>2, <1>3, <1>4, StepKinds
-----------------------------------------------------------------------------
(* The theorems. *)

\* The types of the server's state, the pool's bookkeeping of closures, and
\* what ties a captured descriptor to its connection, hold in every reachable
\* state of the accept loop and its workers (main.cpp:119-165).
THEOREM ServerInvariant == Spec => []IInv
<1>1. QED
  BY InitIInv, NextIInv, PTL DEF Spec

\* Whatever the numbers of workers, connections and descriptors, the clients'
\* behaviour, the exceptions that leak descriptors and the moment of the
\* shutdown: a worker reads from, answers and closes only the connection that
\* main() accepted for its closure (main.cpp:138-151), although descriptor
\* numbers are reused as soon as another worker closes them.
THEOREM ServerDescriptorIsMine == Spec => []DescriptorIsMine
<1>1. IInv => DescriptorIsMine
  <2> SUFFICES ASSUME IInv, NEW c \in StillToBeUsed
               PROVE  open[sock[c]] = c
    BY DEF DescriptorIsMine
  <2>1. \A w \in Workers : stage[w] # "idle" => w \in Pool!In("running")
    BY DEF IInv, InClosure, Pool!In
  <2>2. c \in Pool!Queued \cup Pool!Active
    BY <2>1 DEF StillToBeUsed, Pool!Active
  <2>3. QED
    BY <2>2 DEF IInv, OwnDescriptor
<1>2. QED
  BY <1>1, ServerInvariant, PTL

\* The loop of main() never hands one connection to two closures: what
\* accept() returns was never submitted (main.cpp:128-138), so that at most
\* one worker ever owns, and closes, a client's socket.
THEOREM AcceptedConnectionIsNew ==
    Spec => [](main = "accept" => backlog # <<>> /\ Head(backlog) \notin Pool!Submitted)
<1>1. IInv => (main = "accept" => backlog # <<>> /\ Head(backlog) \notin Pool!Submitted)
  <2> SUFFICES ASSUME IInv, main = "accept"
               PROVE  backlog # <<>> /\ Head(backlog) \notin Pool!Submitted
    OBVIOUS
  <2>1. backlog # <<>> /\ backlog \in Seq(Conns) /\ Distinct(backlog)
    BY DEF IInv, AcceptedOnce, Types, Distinct
  <2>2. Head(backlog) \in Elements(backlog)
    BY <2>1, TailElements
  <2>3. QED
    BY <2>1, <2>2 DEF IInv, AcceptedOnce, Waiting, Elements
<1>2. QED
  BY <1>1, ServerInvariant, PTL

\* Whatever becomes of a connection, and however numbers are reused meanwhile,
\* its descriptor is closed when its closure ends, unless the handler threw
\* (main.cpp:138-151, thread_pool.cpp:42).
THEOREM ServerOnlyThrowsLeak == Spec => []OnlyThrowsLeak
<1>1. Init => AcceptedOn /\ OnlyThrowsLeak
  BY ConnsAssumption DEF Init, Pool!Init, AcceptedOn, OnlyThrowsLeak
<1>2. IInv /\ AcceptedOn /\ OnlyThrowsLeak /\ [Next]_vars => AcceptedOn' /\ OnlyThrowsLeak'
  BY DescriptorsKept
<1>3. QED
  BY <1>1, <1>2, ServerInvariant, PTL DEF Spec

\* The process ends with every client that got through connect() served or
\* reset (main.cpp:23-28): no closure is dropped by a signal at any moment, for
\* any number of workers, descriptors and clients.
THEOREM ServerServesBeforeExit == Spec => []ServedBeforeExit
<1>1. Init => WindsUp /\ Accounted
  BY DEF Init, Pool!Init, WindsUp, Accounted, Listening
<1>2. IInv /\ WindsUp /\ Accounted /\ [Next]_vars => WindsUp' /\ Accounted'
  BY WindsUpKept, AccountedKept
<1>3. IInv /\ WindsUp /\ Accounted => ServedBeforeExit
  <2> SUFFICES ASSUME IInv, WindsUp, Accounted, main = "exited"
               PROVE  Waiting \cup Pool!Submitted \subseteq done
    BY DEF Accounted, Owed, ServedBeforeExit
  <2>1. /\ \A w \in Workers : worker[w] = "exited"
        /\ tasks = <<>> /\ backlog = <<>>
    BY WorkersAssumption DEF WindsUp, Listening
  <2>2. DOMAIN tasks = {} /\ DOMAIN backlog = {}
    BY <2>1
  <2>3. Waiting = {} /\ Pool!Queued = {} /\ Pool!Active = {}
    BY <2>1, <2>2 DEF Waiting, Pool!Queued, Pool!Active, Pool!In
  <2>4. QED
    BY <2>3 DEF Pool!Submitted
<1>4. QED
  BY <1>1, <1>2, <1>3, ServerInvariant, PTL DEF Spec

\* The server is a pool with a loop around it: whatever main() and the
\* closures do, their calls are submit()s of connections not submitted before
\* and one destruction, as ThreadPool supposes of its owner.
THEOREM ServerDrivesPool == Spec => Pool!Spec
<1>1. Init => Pool!Init
  BY DEF Init
<1>2. IInv /\ [Next]_vars => [Pool!Next]_Pool!vars
  <2> SUFFICES ASSUME IInv, [Next]_vars
               PROVE  Pool!Next \/ UNCHANGED Pool!vars
    OBVIOUS
  <2>1. CASE UNCHANGED vars \/ Exited \/ RequestShutdown
    BY <2>1 DEF Exited, RequestShutdown, vars, poolVars, Pool!vars
  <2>2. ASSUME NEW c \in Conns, Connect(c) \/ Client(c) \/ SendRest(c) \/ GiveUp(c)
        PROVE  UNCHANGED Pool!vars
    BY <2>2 DEF Connect, Client, SendRest, GiveUp, poolVars, Pool!vars
  <2>3. CASE CheckFlag \/ Poll \/ AcceptFails \/ CloseListener
    BY <2>3 DEF CheckFlag, Poll, AcceptFails, CloseListener, poolVars, Pool!vars
  <2>4. CASE AcceptAndSubmit
    <3>1. Head(backlog) \in Conns /\ Pool!Submit(Head(backlog))
      BY <2>4, SubmittedGrows DEF AcceptAndSubmit
    <3>2. QED
      BY <3>1 DEF Pool!Next
  <2>5. CASE SubmitNotifies \/ DestroyPool
    BY <2>5 DEF SubmitNotifies, DestroyPool, Pool!Next, Pool!OwnerStep
  <2>6. ASSUME NEW w \in Workers, RecvRequest(w)
        PROVE  UNCHANGED Pool!vars
    BY <2>6 DEF RecvRequest, poolVars, Pool!vars
  <2>7. ASSUME NEW w \in Workers, ~RecvRequest(w), WorkerStep(w) \/ Spurious(w)
        PROVE  Pool!WorkerLoop(w) \/ Pool!SpuriousWakeup(w)
    BY <2>7 DEF WorkerStep, TakeConn, RecvFails, UploadReceives, HandlerReturns, HandlerThrows,
                ClosureEnds, Idle, Spurious, Pool!WorkerLoop
  <2>8. QED
    BY <2>1, <2>2, <2>3, <2>4, <2>5, <2>6, <2>7 DEF Next, MainStep, Pool!Next
<1>3. QED
  BY <1>1, <1>2, ServerInvariant, PTL DEF Spec, Pool!Spec
=============================================================================
