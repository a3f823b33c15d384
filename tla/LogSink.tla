------------------------------- MODULE LogSink -------------------------------
(***************************************************************************)
(* The asynchronous log of src/logging_sink.cpp, with its callers          *)
(* log_request_response() (src/request_logger.cpp) and the admin handler   *)
(* logging() (src/handlers/admin.cpp).  Request threads capture g_sink     *)
(* with a record; an admin request replaces and deletes the sink; a        *)
(* detached worker writes each record, a while later, to the sink that was *)
(* captured with it.                                                       *)
(*                                                                         *)
(* g_queue is only touched under g_queue_mtx; g_sink is not protected at   *)
(* all, so each read and write of it is an action.  Sinks live on the      *)
(* heap: an address is reused after delete, and an object is told from     *)
(* another at the same address by the number of its construction.          *)
(***************************************************************************)
EXTENDS Naturals, Sequences, FiniteSets

CONSTANTS Records,    \* the calls of log_request_response(), one record each
          Installers, \* the threads that run the admin handler
          Addrs,      \* heap addresses at which a sink may be constructed
          Null,       \* nullptr
          MaxSinks,   \* bound on the sinks ever constructed
          FlushTicks, \* kFlushInterval, in ticks of the model's clock
          MayExit     \* whether main() may return in this instance

ASSUME NullAssumption == Null \notin Addrs
ASSUME BoundsAssumption == MaxSinks \in Nat /\ FlushTicks \in Nat /\ MayExit \in BOOLEAN

VARIABLES gSink,      \* g_sink
          heap,       \* the object at each address, 0 when it is free
          born,       \* how many sinks were constructed
          installer,  \* where each installer is, with its locals
          overlapped, \* history: two installations were once under way together
          request,    \* where each call of log_request_response() is
          queue,      \* g_queue
          due,        \* the worker's local `due`: what it has still to write
          written,    \* what was written, with the object that wrote it
          process     \* "running", "exited", "faulted" by a call on freed memory
                      \* or "aborted" by the allocator

sinkVars == <<gSink, heap, born, installer, overlapped>>
logVars == <<request, queue, due, written>>
vars == <<sinkVars, logVars, process>>

Objects == 1 .. MaxSinks
Free == {a \in Addrs : heap[a] = 0}
Live == {heap[a] : a \in Addrs \ Free}
At(p) == IF p = Null THEN 0 ELSE heap[p]

Idle == [at |-> "idle", new |-> Null, old |-> Null]

Init == /\ gSink = Null
        /\ heap = [a \in Addrs |-> 0]
        /\ born = 0
        /\ installer = [i \in Installers |-> Idle]
        /\ overlapped = FALSE
        /\ request = [r \in Records |-> "start"]
        /\ queue = <<>>
        /\ due = <<>>
        /\ written = <<>>
        /\ process = "running"
-----------------------------------------------------------------------------
(* The admin handler: install_log_sink(new ...). *)

Construct(i) == /\ installer[i].at = "idle"
                /\ born < MaxSinks
                /\ \E a \in Free :
                     /\ heap' = [heap EXCEPT ![a] = born + 1]
                     /\ installer' = [installer EXCEPT
                                        ![i] = [at |-> "read", new |-> a, old |-> Null]]
                /\ born' = born + 1
                /\ overlapped' = (overlapped \/ \E j \in Installers : installer[j].at # "idle")
                /\ UNCHANGED <<gSink, logVars, process>>

\* Faulty variants: the outgoing sink is deleted before it is replaced, or is
\* not deleted; g_sink is cleared while the outgoing sink is deleted.
DeleteFirst(i) == /\ installer[i].at = "read"
                  /\ installer' = [installer EXCEPT ![i].at = "swap"]
                  /\ heap' = IF gSink = Null THEN heap ELSE [heap EXCEPT ![gSink] = 0]
                  /\ UNCHANGED <<gSink, born, overlapped, logVars, process>>

DeleteNothing(i) == /\ installer[i].at = "delete"
                    /\ installer' = [installer EXCEPT ![i] = Idle]
                    /\ UNCHANGED <<gSink, heap, born, overlapped, logVars, process>>

ReadOldAndClear(i) ==
    /\ installer[i].at = "read"
    /\ installer' = [installer EXCEPT ![i].at = "swap", ![i].old = gSink]
    /\ gSink' = Null
    /\ UNCHANGED <<heap, born, overlapped, logVars, process>>

ReadOld(i) == /\ installer[i].at = "read"
              /\ installer' = [installer EXCEPT ![i].at = "swap", ![i].old = gSink]
              /\ UNCHANGED <<gSink, heap, born, overlapped, logVars, process>>

Swap(i) == /\ installer[i].at = "swap"
           /\ gSink' = installer[i].new
           /\ installer' = [installer EXCEPT ![i].at = "delete"]
           /\ UNCHANGED <<heap, born, overlapped, logVars, process>>

\* delete of a null pointer does nothing; of a free address, the allocator
\* notices and aborts the process.
DeleteOld(i) ==
    /\ installer[i].at = "delete"
    /\ LET old == installer[i].old
       IN  \/ /\ old = Null
              /\ UNCHANGED <<heap, process>>
           \/ /\ old # Null /\ old \notin Free
              /\ heap' = [heap EXCEPT ![old] = 0]
              /\ UNCHANGED process
           \/ /\ old \in Free
              /\ process' = "aborted"
              /\ UNCHANGED heap
    /\ installer' = [installer EXCEPT ![i] = Idle]
    /\ UNCHANGED <<gSink, born, overlapped, logVars>>

Install(i) == Construct(i) \/ ReadOld(i) \/ Swap(i) \/ DeleteOld(i)
-----------------------------------------------------------------------------
(* A request thread in log_request_response(). *)

\* `if (current_log_sink() != nullptr)`: without a sink the record goes to
\* the file synchronously, which is the business of LogRotation.
CheckSink(r) == /\ request[r] = "start"
                /\ request' = [request EXCEPT
                                 ![r] = IF gSink # Null THEN "enqueue" ELSE "sync"]
                /\ UNCHANGED <<sinkVars, queue, due, written, process>>

\* enqueue_log_record(): under the queue's lock, but g_sink is read again.
\* `of` records which object the captured address denoted.
Enqueue(r) == /\ request[r] = "enqueue"
              /\ queue' = Append(queue, [record |-> r, sink |-> gSink,
                                         of |-> At(gSink), age |-> 0])
              /\ request' = [request EXCEPT ![r] = "queued"]
              /\ UNCHANGED <<sinkVars, due, written, process>>
-----------------------------------------------------------------------------
(* The worker, and the time it waits for. *)

\* Time passes for the queued entries; ages beyond kFlushInterval are alike.
Tick == /\ \E k \in DOMAIN queue : queue[k].age < FlushTicks
        /\ queue' = [k \in DOMAIN queue |->
                       [queue[k] EXCEPT !.age = IF @ < FlushTicks THEN @ + 1 ELSE @]]
        /\ UNCHANGED <<sinkVars, request, due, written, process>>

\* The positions of the entries that are due, and the entries at some positions,
\* in their order.
DueAt == {k \in DOMAIN queue : queue[k].age >= FlushTicks}
Picked(positions) ==
    [n \in 1 .. Cardinality(positions) |->
       queue[CHOOSE k \in positions : Cardinality({j \in positions : j <= k}) = n]]

\* Faulty variants: the due entries come out newest first; the entries that
\* are kept are forgotten as soon as others are due.
CollectNewestFirst ==
    /\ due = <<>>
    /\ due' = [n \in DOMAIN Picked(DueAt) |-> Picked(DueAt)[Cardinality(DueAt) + 1 - n]]
    /\ queue' = Picked(DOMAIN queue \ DueAt)
    /\ UNCHANGED <<sinkVars, request, written, process>>

CollectForgets == /\ due = <<>>
                  /\ due' = Picked(DueAt)
                  /\ queue' = IF due' = <<>> THEN queue ELSE <<>>
                  /\ UNCHANGED <<sinkVars, request, written, process>>

\* After 50 ms of sleep, one pass over the queue under its lock, which parts
\* it into `due` and `keep`; a pass that finds nothing due changes nothing.
Collect == /\ due = <<>>
           /\ due' = Picked(DueAt)
           /\ queue' = Picked(DOMAIN queue \ DueAt)
           /\ UNCHANGED <<sinkVars, request, written, process>>

\* entry.sink->write(entry.record), outside any lock: whatever lives at the
\* captured address by now gets the record.  On freed memory (0) the call is
\* undefined: it goes through what is left of the object, or it ends the
\* process.  A null sink is skipped.
WriteDue ==
    /\ due # <<>>
    /\ LET e == Head(due)
       IN  written' = IF e.sink = Null THEN written
                      ELSE Append(written, [record |-> e.record, of |-> e.of,
                                            by |-> heap[e.sink]])
    /\ due' = Tail(due)
    /\ UNCHANGED <<sinkVars, request, queue, process>>

WriteFaults == /\ due # <<>>
               /\ Head(due).sink \in Free
               /\ process' = "faulted"
               /\ UNCHANGED <<sinkVars, logVars>>

Worker == Collect \/ WriteDue \/ WriteFaults
-----------------------------------------------------------------------------
\* main() returns when the pool has drained: no request is left in a handler.
\* The detached worker dies with the process.
Exit == /\ MayExit
        /\ \A i \in Installers : installer[i].at = "idle"
        /\ \A r \in Records : request[r] # "enqueue"
        /\ process' = "exited"
        /\ UNCHANGED <<sinkVars, logVars>>

Running == \/ \E i \in Installers : Install(i)
           \/ \E r \in Records : CheckSink(r) \/ Enqueue(r)
           \/ Tick
           \/ Worker
           \/ Exit

\* Nothing of a process that has ended takes a step.
Ended == process # "running" /\ UNCHANGED vars

Next == (process = "running" /\ Running) \/ Ended

Spec == Init /\ [][Next]_vars

\* Time passes and the worker thread is scheduled; a request thread finishes
\* the call it is in.
Fairness == /\ WF_vars(process = "running" /\ Tick)
            /\ WF_vars(process = "running" /\ Worker)
            /\ \A r \in Records : WF_vars(process = "running" /\ Enqueue(r))

FairSpec == Spec /\ Fairness
-----------------------------------------------------------------------------
\* install_log_sink() publishes the new sink before it deletes the old one
\* (logging_sink.cpp:110-112), so that a request thread, which reads g_sink
\* at any moment and without a lock, never finds a deleted object there, and
\* no sink is deleted twice.  It takes installations that do not overlap,
\* which the eight workers do not ensure.
CurrentSinkLives ==
    ~overlapped => (gSink # Null => heap[gSink] # 0) /\ process # "aborted"

\* enqueue_log_record() reads g_sink again after its caller has compared it
\* with nullptr.  Nothing ever resets it, so that what is captured is never
\* null, and as long as installations do not overlap it is a live object.
CapturedSinkWasAlive ==
    \A s \in {queue, due} : \A k \in DOMAIN s :
        s[k].sink # Null /\ (~overlapped => s[k].of # 0)

\* Between installations exactly the installed sink exists: the others were
\* deleted, once each.
NoSinkLeaks ==
    ~overlapped /\ (\A i \in Installers : installer[i].at = "idle")
        => Live = {At(gSink)} \ {0}

\* Records come out in the order of their capture, each once: splitting the
\* queue into what is due and what is kept neither reorders nor drops any,
\* whatever happens to the sinks meanwhile.
RecordsOf(s) == [k \in DOMAIN s |-> s[k].record]
Pipe == INSTANCE LogPipe WITH buffer <- RecordsOf(due \o queue),
                              out <- RecordsOf(written)
ImplementsPipe == Pipe!Spec

\* Whatever is captured is written while the process lives: the worker does
\* not forget a record that was too young for the pass that saw it first.
EveryRecordWritten ==
    \A r \in Records :
        request[r] = "queued" ~> \/ \E k \in DOMAIN written : written[k].record = r
                                \/ process # "running"
=============================================================================
