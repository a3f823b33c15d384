------------------------------- MODULE Server -------------------------------
(***************************************************************************)
(* The life of a connection: src/main.cpp's accept loop, the worker pool   *)
(* it feeds, the descriptor each connection occupies from accept() to      *)
(* close(), and the shutdown by signal.  The pool is ThreadPool, its tasks *)
(* the closures that capture one accepted connection each.  What a handler *)
(* does between recv() and the end of dispatch() is the business of other  *)
(* modules: here it ends by returning or by throwing.                      *)
(***************************************************************************)
EXTENDS Integers, Sequences, FiniteSets, Functions

CONSTANTS Workers,    \* the pool's threads
          Conns,      \* connections that clients may open
          NoConn,     \* no connection: an idle worker, a free descriptor
          Fds,        \* the descriptors the process may use for connections
          BacklogMax, \* listen()'s backlog
          Throwing,   \* connections whose request may make a handler throw
          Uploads,    \* connections whose request may be an upload
          Slow,       \* connections whose request may come in two parts
          Silent      \* connections whose client may never send nor hang up

ASSUME WorkersAssumption == IsFiniteSet(Workers) /\ Workers # {}
ASSUME ConnsAssumption == NoConn \notin Conns /\ Throwing \subseteq Conns
                              /\ Uploads \cup Slow \cup Silent \subseteq Conns
ASSUME FdsAssumption == Fds \subseteq Nat /\ IsFiniteSet(Fds) /\ Fds # {}
ASSUME BacklogAssumption == BacklogMax \in Nat \ {0}

VARIABLES tasks, shutdown, owner, worker, running, done,    \* the pool
          flag,       \* g_shutdown_requested
          main,       \* where main() is in its loop, or in its return
          backlog,    \* connections the kernel holds for accept()
          peer,       \* the client's end of each connection
          unread,     \* connections on which bytes wait for a recv()
          sock,       \* client_socket: the descriptor captured by the closure
          open,       \* the process's descriptor table
          stage       \* how far each worker is in the closure

poolVars == <<tasks, shutdown, owner, worker, running, done>>
netVars == <<backlog, peer, unread, sock, open>>
vars == <<poolVars, netVars, flag, main, stage>>

Pool == INSTANCE ThreadPool WITH Tasks <- Conns, NoTask <- NoConn

FreeFds == {f \in Fds : open[f] = NoConn}
Waiting == {backlog[i] : i \in DOMAIN backlog}
Listening == main \notin {"destroy", "exited"}

Init == /\ Pool!Init
        /\ flag = FALSE
        /\ main = "check"
        /\ backlog = <<>>
        /\ peer = [c \in Conns |-> "absent"]
        /\ unread = {}
        /\ sock = [c \in Conns |-> 0]
        /\ open = [f \in Fds |-> NoConn]
        /\ stage = [w \in Workers |-> "idle"]
-----------------------------------------------------------------------------
(* Clients, the kernel and the operator. *)

Connect(c) == /\ Listening
              /\ peer[c] = "absent"
              /\ Len(backlog) < BacklogMax
              /\ backlog' = Append(backlog, c)
              /\ peer' = [peer EXCEPT ![c] = "connected"]
              /\ UNCHANGED <<poolVars, flag, main, unread, sock, open, stage>>

\* A request arrives, or only its first part ("talking"), or the client leaves
\* without a word.
Client(c) == /\ peer[c] = "connected"
             /\ \E s \in {"talking", "sent", "gone"} :
                  /\ s = "talking" => c \in Slow
                  /\ peer' = [peer EXCEPT ![c] = s]
             /\ unread' = IF peer'[c] = "gone" THEN unread ELSE unread \cup {c}
             /\ UNCHANGED <<poolVars, flag, main, backlog, sock, open, stage>>

\* The server has not closed the connection: after that, nothing the client
\* does reaches it.
Alive(c) == c \in Waiting \cup Range(open)

\* The rest of a request, such as the body of an upload.
SendRest(c) == /\ peer[c] = "talking"
               /\ Alive(c)
               /\ peer' = [peer EXCEPT ![c] = "sent"]
               /\ unread' = unread \cup {c}
               /\ UNCHANGED <<poolVars, flag, main, backlog, sock, open, stage>>

\* The client of an upload may stop waiting for its answer.
GiveUp(c) == /\ peer[c] = "sent"
             /\ Alive(c)
             /\ c \in Uploads
             /\ peer' = [peer EXCEPT ![c] = "gone"]
             /\ UNCHANGED <<poolVars, flag, main, backlog, unread, sock, open, stage>>

\* SIGTERM or SIGINT.
RequestShutdown == /\ ~flag
                   /\ flag' = TRUE
                   /\ UNCHANGED <<poolVars, netVars, main, stage>>
-----------------------------------------------------------------------------
(* main(). *)

\* `while (!g_shutdown_requested)`
CheckFlag == /\ main = "check"
             /\ main' = IF flag THEN "closing" ELSE "poll"
             /\ UNCHANGED <<poolVars, netVars, flag, stage>>

\* Faulty variant: poll() without a timeout, entered after the signal came.
PollForever == /\ main = "poll"
               /\ backlog # <<>>
               /\ main' = "accept"
               /\ UNCHANGED <<poolVars, netVars, flag, stage>>

\* poll() reports a pending connection, times out on an empty backlog, or is
\* interrupted by the signal; only the first leads to accept().
Poll == /\ main = "poll"
        /\ \/ backlog # <<>> /\ main' = "accept"
           \/ (backlog = <<>> \/ flag) /\ main' = "check"
        /\ UNCHANGED <<poolVars, netVars, flag, stage>>

\* accept() takes the oldest connection, on the lowest free descriptor, and
\* the closure that captures it is pushed on the pool's queue.  No other
\* thread knows the descriptor in between.
AcceptAndSubmit ==
    /\ main = "accept"
    /\ \E fd \in FreeFds :
         /\ \A f \in FreeFds : fd <= f
         /\ sock' = [sock EXCEPT ![Head(backlog)] = fd]
         /\ open' = [open EXCEPT ![fd] = Head(backlog)]
    /\ Pool!Submit(Head(backlog))
    /\ backlog' = Tail(backlog)
    /\ main' = "submit"
    /\ UNCHANGED <<peer, unread, flag, stage>>

\* EMFILE: the connection stays in the backlog and the loop goes on.
AcceptFails == /\ main = "accept"
               /\ FreeFds = {}
               /\ main' = "check"
               /\ UNCHANGED <<poolVars, netVars, flag, stage>>

SubmitNotifies == /\ main = "submit"
                  /\ Pool!NotifyOne
                  /\ main' = "check"
                  /\ UNCHANGED <<netVars, flag, stage>>

\* close(server_socket): the kernel resets what nobody accepted.
CloseListener ==
    /\ main = "closing"
    /\ peer' = [c \in Conns |-> IF c \in Waiting THEN "refused" ELSE peer[c]]
    /\ backlog' = <<>>
    /\ main' = "destroy"
    /\ unread' = unread \ Waiting
    /\ UNCHANGED <<poolVars, sock, open, flag, stage>>

\* Faulty variant: the destructor tells the workers to stop, but detaches them.
DestroyWithoutJoin == /\ main = "destroy"
                      /\ \/ Pool!Shutdown /\ UNCHANGED main
                         \/ Pool!NotifyAll /\ main' = "exited"
                      /\ UNCHANGED <<netVars, flag, stage>>

\* The pool is a local of main(): returning destroys it, then the process ends.
DestroyPool == /\ main = "destroy"
               /\ \/ Pool!Shutdown /\ UNCHANGED main
                  \/ Pool!NotifyAll /\ UNCHANGED main
                  \/ Pool!Join /\ main' = "exited"
               /\ UNCHANGED <<netVars, flag, stage>>

MainStep == CheckFlag \/ Poll \/ AcceptAndSubmit \/ AcceptFails
                \/ SubmitNotifies \/ CloseListener \/ DestroyPool
-----------------------------------------------------------------------------
(* A worker: the pool's loop around the closure of main.cpp. *)

\* close(client_socket): the number is free again, whatever it denoted, and
\* what has not been read by then never is.
CloseSocket(w) == /\ open' = [open EXCEPT ![sock[running[w]]] = NoConn]
                  /\ unread' = unread \ {running[w]}

\* The closure returns, or is left by an exception that the pool's loop
\* catches: nothing of the connection remains with the worker.
ClosureEnds(w) == /\ Pool!Finish(w)
                  /\ stage' = [stage EXCEPT ![w] = "idle"]

TakeConn(w) == /\ Pool!Take(w)
               /\ stage' = [stage EXCEPT ![w] = "recv"]
               /\ UNCHANGED <<netVars, flag, main>>

\* recv() returns the bytes that have arrived, the whole request or not, and
\* dispatch() is called with them; it may lead to upload_file().
RecvRequest(w) == /\ stage[w] = "recv"
                  /\ running[w] \in unread
                  /\ unread' = unread \ {running[w]}
                  /\ \E s \in {"dispatch", "upload"} :
                       /\ s = "upload" => running[w] \in Uploads
                       /\ stage' = [stage EXCEPT ![w] = s]
                  /\ UNCHANGED <<poolVars, backlog, peer, sock, open, flag, main>>

\* Faulty variants: after a failed recv() the closure closes the descriptor
\* but goes on to dispatch(); it returns without closing it.
RecvFailsGoesOn(w) == /\ stage[w] = "recv"
                      /\ peer[running[w]] = "gone"
                      /\ running[w] \notin unread
                      /\ CloseSocket(w)
                      /\ stage' = [stage EXCEPT ![w] = "dispatch"]
                      /\ UNCHANGED <<poolVars, backlog, peer, sock, flag, main>>

RecvFailsLeaks(w) == /\ stage[w] = "recv"
                     /\ peer[running[w]] = "gone"
                     /\ running[w] \notin unread
                     /\ ClosureEnds(w)
                     /\ UNCHANGED <<netVars, flag, main>>

\* recv() returns 0 or an error: close and return, without dispatch().
RecvFails(w) == /\ stage[w] = "recv"
                /\ peer[running[w]] = "gone"
                /\ running[w] \notin unread
                /\ CloseSocket(w)
                /\ ClosureEnds(w)
                /\ UNCHANGED <<backlog, peer, sock, flag, main>>

\* upload_file() calls recv() again, for the body.  It takes whatever else has
\* arrived, or 0 after a hang-up, and is answered alike; but the body may have
\* come with the head, and then recv() waits for a client that waits for the
\* answer.
UploadReceives(w) == /\ stage[w] = "upload"
                     /\ running[w] \in unread \/ peer[running[w]] = "gone"
                     /\ CloseSocket(w)
                     /\ ClosureEnds(w)
                     /\ UNCHANGED <<backlog, peer, sock, flag, main>>

\* Every path through dispatch() ends with close(client_socket) ...
HandlerReturns(w) == /\ stage[w] = "dispatch"
                     /\ CloseSocket(w)
                     /\ ClosureEnds(w)
                     /\ UNCHANGED <<backlog, peer, sock, flag, main>>

\* ... except an exception, such as std::out_of_range from the substr() of
\* extract_username_password, which leaves dispatch() from the middle.
HandlerThrows(w) == /\ stage[w] = "dispatch"
                    /\ running[w] \in Throwing
                    /\ ClosureEnds(w)
                    /\ UNCHANGED <<netVars, flag, main>>

Idle(w) == /\ Pool!Wait(w) \/ Pool!Exit(w)
           /\ UNCHANGED <<netVars, flag, main, stage>>

Spurious(w) == /\ Pool!SpuriousWakeup(w)
               /\ UNCHANGED <<netVars, flag, main, stage>>

WorkerStep(w) == TakeConn(w) \/ RecvRequest(w) \/ RecvFails(w) \/ UploadReceives(w)
                     \/ HandlerReturns(w) \/ HandlerThrows(w) \/ Idle(w)
-----------------------------------------------------------------------------
Exited == main = "exited" /\ UNCHANGED vars

Next == \/ \E c \in Conns : Connect(c) \/ Client(c) \/ SendRest(c) \/ GiveUp(c)
        \/ RequestShutdown
        \/ MainStep
        \/ \E w \in Workers : WorkerStep(w) \/ Spurious(w)
        \/ Exited

Spec == Init /\ [][Next]_vars

\* Every thread of the server that can run is scheduled, and the handlers
\* return.  A client that is not Silent sends or hangs up once connected; a
\* Silent one owes nothing, and recv() has no timeout.  Whoever has begun a
\* request sends the rest; nobody has to give up waiting for an answer.
Fairness == /\ WF_vars(MainStep)
            /\ \A w \in Workers : WF_vars(WorkerStep(w))
            /\ \A c \in Conns \ Silent : WF_vars(Client(c))
            /\ \A c \in Conns : WF_vars(SendRest(c))

FairSpec == Spec /\ Fairness
-----------------------------------------------------------------------------
\* Connections whose descriptor a queued or running closure will still use.
StillToBeUsed ==
    Pool!Queued \cup {running[w] : w \in {v \in Workers : stage[v] # "idle"}}

\* Descriptor numbers are reused as soon as they are closed.  A number that
\* is captured in a queued closure, or that a worker has still to read,
\* write or close, denotes the connection it was accepted for: no worker
\* ever answers or closes somebody else's connection (main.cpp:138-151,
\* and the close() on every path of dispatch() in router.cpp).
DescriptorIsMine == \A c \in StillToBeUsed : open[sock[c]] = c

\* "The worker owns closing client_socket" (main.cpp:138): once the closure
\* of a connection has ended, no descriptor denotes it.
WorkerClosesItsSocket == \A c \in done, f \in Fds : open[f] # c

\* That holds but for handlers that throw: whatever else becomes of a
\* connection, and whoever gets its number next, its descriptor comes back.
OnlyThrowsLeak == \A f \in Fds : open[f] \in done => open[f] \in Throwing

\* A client that got through connect() and was neither served nor reset.
Owed(c) == peer[c] \notin {"absent", "refused"} /\ c \notin done

\* "Then drains workers before exiting" (main.cpp:23-26): when the process
\* ends, the closure of every client that got through connect() has run to its
\* end, those that were queued or in the kernel's hands when the signal came
\* included, or the listening socket's close has reset it.
ServedBeforeExit ==
    main = "exited" => \A c \in Conns : ~Owed(c)

\* A worker is held in recv(), which has no timeout, by a client that never
\* sends nor hangs up, or, for the body of an upload, by one that has sent it
\* all at once and waits for the answer (handlers/admin.cpp:128).
Held(c) == \E w \in Workers :
             /\ running[w] = c
             /\ c \notin unread
             /\ \/ stage[w] = "recv" /\ c \in Silent /\ peer[c] = "connected"
                \/ stage[w] = "upload" /\ peer[c] = "sent"

\* Graceful shutdown: a shutdown request ends the process, unless a worker is
\* held by a client; then it waits for that client, for ever if need be, and
\* ends after the last of them has let go.
ShutdownExits == []<>(flag => main = "exited" \/ \E c \in Conns : Held(c))

\* A connection in the backlog is accepted, even if the descriptors were all
\* in use when it came, and its closure runs to the end, a request in parts
\* and an upload whose body follows its head included; or the shutdown resets
\* it; or its own client holds its worker.  Other clients may hold workers,
\* and the handlers of others throw, for ever.
ConnectionIsServed == \A c \in Conns : []<>(Owed(c) => Held(c))
=============================================================================
