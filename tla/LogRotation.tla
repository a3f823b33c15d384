----------------------------- MODULE LogRotation -----------------------------
(***************************************************************************)
(* The access log on disk: src/request_logger.cpp's rotation followed by   *)
(* an append, executed by any number of workers at a time and without a    *)
(* lock, and the appends of the file sink (src/logging_sink.cpp), which    *)
(* never rotate.  Each stat(), remove(), rename() and fopen() is an action *)
(* of the file system; what a call prints is buffered until fclose().      *)
(*                                                                         *)
(* Generation 0 is the log, generation i its rotation ".i".  Files are     *)
(* numbered in the order of their creation.                                *)
(***************************************************************************)
EXTENDS Naturals, FiniteSets

CONSTANTS Loggers,    \* workers in log_request_response() without a sink
          SinkWriters,\* threads in FileLogSink::write()
          Keep,       \* kRotationKeep
          MaxSize,    \* kMaxLogBytes, in records
          MaxCalls,   \* bound on the calls of either kind
          MaxCrashes  \* bound on the crashes of the process

ASSUME KeepAssumption == Keep \in Nat \ {0}
ASSUME BoundsAssumption == MaxSize \in Nat \ {0} /\ MaxCalls \in Nat /\ MaxCrashes \in Nat
ASSUME WritersAssumption == IsFiniteSet(Loggers \cup SinkWriters) /\ Loggers \cap SinkWriters = {}

VARIABLES dir,        \* the file of each generation, 0 when there is none
          size,       \* the records in each file
          born,       \* how many files were created
          dropped,    \* files that no name leads to any more
          at,         \* where each thread is
          step,       \* the local i of the rename loop
          file,       \* log_file: the file a thread has open
          calls, sinkCalls, crashes,
          overlapped  \* history: two workers once rotated or appended together

history == <<sinkCalls, overlapped>>
vars == <<dir, size, born, dropped, at, step, file, calls, crashes, history>>

Threads == Loggers \cup SinkWriters
Files == 1 .. MaxCalls
Generations == 0 .. Keep

Init == /\ dir = [g \in Generations |-> 0]
        /\ size = [f \in Files |-> 0]
        /\ born = 0
        /\ dropped = {}
        /\ at = [t \in Threads |-> "idle"]
        /\ step = [t \in Threads |-> 0]
        /\ file = [t \in Threads |-> 0]
        /\ calls = 0 /\ sinkCalls = 0
        /\ crashes = 0
        /\ overlapped = FALSE
-----------------------------------------------------------------------------
\* Faulty variant: the file must exceed the threshold.
TooBigStrict(n) == n > MaxSize

TooBig(n) == n >= MaxSize

\* stat() and the comparison; a missing log needs no rotation.
Stat(t) == /\ at[t] = "idle"
           /\ t \in Loggers
           /\ calls < MaxCalls
           /\ at' = [at EXCEPT ![t] = IF dir[0] # 0 /\ TooBig(size[dir[0]])
                                      THEN "remove" ELSE "open"]
           /\ calls' = calls + 1
           /\ overlapped' = (overlapped \/ \E u \in Loggers : at[u] # "idle")
           /\ UNCHANGED <<dir, size, born, dropped, step, file, sinkCalls, crashes>>

\* Faulty variant: the loop starts one rotation too early.
RemoveStartsEarly(t) == /\ at[t] = "remove"
                        /\ dir' = [dir EXCEPT ![Keep] = 0]
                        /\ dropped' = dropped \cup ({dir[Keep]} \ {0})
                        /\ at' = [at EXCEPT ![t] = "rename"]
                        /\ step' = [step EXCEPT ![t] = Keep - 2]
                        /\ UNCHANGED <<size, born, file, calls, crashes, history>>

\* remove() of the last rotation; then the loop starts at the one before.
RemoveLast(t) == /\ at[t] = "remove"
                 /\ dir' = [dir EXCEPT ![Keep] = 0]
                 /\ dropped' = dropped \cup ({dir[Keep]} \ {0})
                 /\ at' = [at EXCEPT ![t] = "rename"]
                 /\ step' = [step EXCEPT ![t] = Keep - 1]
                 /\ UNCHANGED <<size, born, file, calls, crashes, history>>

\* rename(g, g + 1) replaces what g + 1 named, atomically; it fails, and the
\* code goes on, when there is no g.
Renamed(g) == /\ dir' = IF dir[g] = 0 THEN dir
                        ELSE [dir EXCEPT ![g] = 0, ![g + 1] = dir[g]]
              /\ dropped' = IF dir[g] = 0 THEN dropped
                            ELSE dropped \cup ({dir[g + 1]} \ {0})

\* The loop from .Keep-1 down to .1, and after it the log itself.
Rename(t) == /\ at[t] = "rename"
             /\ Renamed(step[t])
             /\ IF step[t] > 0
                THEN /\ step' = [step EXCEPT ![t] = @ - 1]
                     /\ UNCHANGED at
                ELSE /\ at' = [at EXCEPT ![t] = "open"]
                     /\ UNCHANGED step
             /\ UNCHANGED <<size, born, file, calls, crashes, history>>

\* Faulty variant: the file sink opens with "w", which loses what the log held.
SinkTruncates(t) == /\ at[t] = "open"
                    /\ \/ /\ dir[0] = 0 \/ t \in SinkWriters
                          /\ born' = born + 1
                          /\ dir' = [dir EXCEPT ![0] = born + 1]
                          /\ dropped' = dropped \cup ({dir[0]} \ {0})
                       \/ /\ dir[0] # 0 /\ t \notin SinkWriters
                          /\ UNCHANGED <<born, dir, dropped>>
                    /\ file' = [file EXCEPT ![t] = dir'[0]]
                    /\ at' = [at EXCEPT ![t] = "append"]
                    /\ UNCHANGED <<size, step, calls, crashes, history>>

\* fopen(kLogPath, "a") creates the log when it is missing.  It may fail,
\* and the record is given up.
Open(t) == /\ at[t] = "open"
           /\ \/ /\ dir[0] = 0
                 /\ born' = born + 1
                 /\ dir' = [dir EXCEPT ![0] = born + 1]
              \/ /\ dir[0] # 0
                 /\ UNCHANGED <<born, dir>>
           /\ file' = [file EXCEPT ![t] = dir'[0]]
           /\ at' = [at EXCEPT ![t] = "append"]
           /\ UNCHANGED <<size, dropped, step, calls, crashes, history>>

OpenFails(t) == /\ at[t] = "open"
                /\ at' = [at EXCEPT ![t] = "idle"]
                /\ UNCHANGED <<dir, size, born, dropped, step, file, calls, crashes, history>>

\* fclose() writes the buffer to the open file, wherever it is named now.
Append(t) == /\ at[t] = "append"
             /\ size' = [size EXCEPT ![file[t]] = @ + 1]
             /\ at' = [at EXCEPT ![t] = "idle"]
             /\ file' = [file EXCEPT ![t] = 0]
             /\ UNCHANGED <<dir, born, dropped, step, calls, crashes, history>>

\* FileLogSink::write() opens without looking at the size.
SinkWrite(t) == /\ at[t] = "idle"
                /\ t \in SinkWriters
                /\ calls < MaxCalls
                /\ at' = [at EXCEPT ![t] = "open"]
                /\ calls' = calls + 1
                /\ sinkCalls' = sinkCalls + 1
                /\ UNCHANGED <<dir, size, born, dropped, step, file, overlapped, crashes>>

\* The process dies between two system calls and is started again: the files
\* stay, what was buffered and the loops under way are gone.
Crash == /\ crashes < MaxCrashes
         /\ \E t \in Threads : at[t] # "idle"
         /\ at' = [t \in Threads |-> "idle"]
         /\ step' = [t \in Threads |-> 0]
         /\ file' = [t \in Threads |-> 0]
         /\ crashes' = crashes + 1
         /\ UNCHANGED <<dir, size, born, dropped, calls, history>>

\* No request is being logged.
Quiet == (\A t \in Threads : at[t] = "idle") /\ UNCHANGED vars

Next == \/ \E t \in Threads : \/ Stat(t) \/ RemoveLast(t) \/ Rename(t)
                              \/ Open(t) \/ OpenFails(t) \/ Append(t)
                              \/ SinkWrite(t)
        \/ Crash
        \/ Quiet

Spec == Init /\ [][Next]_vars
-----------------------------------------------------------------------------
Kept == {dir[g] : g \in Generations} \ {0}

\* "the log file is rotated when it grows past a threshold"
\* (request_logger.cpp:19-20): as stat() and the append are apart, a file may
\* exceed the threshold, but by no more than one record of each worker, and
\* the appends of the file sink, which are not counted against it.
LogStaysBounded ==
    \A f \in Files : size[f] < MaxSize + Cardinality(Loggers) + sinkCalls

\* "Shift .N-1 -> .N, drop the oldest" (request_logger.cpp:33): whatever was
\* dropped is older than everything that is kept.
OnlyOldestDropped == \A d \in dropped, f \in Kept : d < f

\* The rotation of one worker at a time does that, wherever the file sink
\* appends meanwhile and wherever a crash leaves the loop halfway.
SerialRotationDropsOldest == ~overlapped => OnlyOldestDropped

\* kRotationKeep: the newest Keep files always exist, even in the middle of a
\* rotation, while workers rotate one at a time and the process survives.
NewestRetained ==
    ~overlapped /\ crashes = 0 /\ sinkCalls = 0
        => \A f \in 1 .. born : f > born - Keep => f \in Kept
=============================================================================
