-------------------------- MODULE LogRotation_proofs --------------------------
(***************************************************************************)
(* The safety of LogRotation for any number of workers, sink threads,      *)
(* rotations and crashes: how large a log grows, and which files are lost. *)
(***************************************************************************)
EXTENDS LogRotation, Integers, TLAPS, FiniteSetTheorems

Places == {"idle", "remove", "rename", "open", "append"}

Types == /\ dir \in [Generations -> 0 .. born]
         /\ size \in [Files -> Nat]
         /\ born \in Nat
         /\ dropped \subseteq 1 .. born
         /\ at \in [Threads -> Places]
         /\ step \in [Threads -> 0 .. Keep - 1]
         /\ file \in [Threads -> 0 .. born]
         /\ calls \in Nat /\ sinkCalls \in Nat /\ crashes \in Nat
         /\ calls <= MaxCalls
         /\ overlapped \in BOOLEAN

\* A thread has a file open while it appends; the file sink does not rotate.
WhoAppends == /\ \A t \in Threads : at[t] = "append" => file[t] # 0
              /\ \A t \in SinkWriters : at[t] \in {"idle", "open", "append"}

\* A call creates one file at most, before it appends.
Opening == {t \in Threads : at[t] \in {"remove", "rename", "open"}}
FilesSuffice == born + Cardinality(Opening) <= calls

\* The threads of the file sink are in a call that was counted.
SinksBusy == {t \in SinkWriters : at[t] # "idle"}
SinksCounted == Cardinality(SinksBusy) <= sinkCalls

\* The threads that will append to a file without looking at its size again:
\* what they add is part of the bound.
Pending(f) == {t \in Threads : \/ at[t] = "open" /\ dir[0] = f
                               \/ at[t] = "append" /\ file[t] = f}
Bound == MaxSize - 1 + Cardinality(Loggers) + sinkCalls
SizesBounded == \A f \in Files : /\ size[f] + Cardinality(Pending(f)) <= Bound
                                 /\ f > born => size[f] = 0

\* While one worker rotates at a time, the generations are in the order of
\* their age, and the loop has made room for the next rename.
Serial ==
    ~overlapped =>
        /\ \A t, u \in Loggers : at[t] # "idle" /\ at[u] # "idle" => t = u
        /\ \A g, h \in Generations : g < h /\ dir[g] # 0 /\ dir[h] # 0 => dir[h] < dir[g]
        /\ OnlyOldestDropped
        /\ \A t \in Loggers : at[t] = "rename" => dir[step[t] + 1] = 0

\* While the process survives as well, the generations hold the newest files
\* without a gap, but for one hole that the loop moves from the end to the
\* beginning.
Nth(n) == IF born > n THEN born - n ELSE 0
Hole(h) == \A g \in Generations :
               dir[g] = IF g < h THEN Nth(g) ELSE IF g = h THEN 0 ELSE Nth(g - 1)
Undisturbed ==
    ~overlapped /\ crashes = 0 /\ sinkCalls = 0 =>
        /\ (\A t \in Loggers : at[t] \notin {"remove", "rename"}) => Hole(0) \/ Hole(Keep + 1)
        /\ \A t \in Loggers : /\ at[t] = "remove" => Hole(Keep + 1)
                              /\ at[t] = "rename" => Hole(step[t] + 1)

\* The inductive invariant.
IInv == /\ Types /\ WhoAppends /\ FilesSuffice /\ SinksCounted /\ SizesBounded
        /\ Serial /\ Undisturbed
-----------------------------------------------------------------------------
(* Types and counts. *)

LEMMA Finite ==
    ASSUME NEW S \in SUBSET Threads
    PROVE  IsFiniteSet(S) /\ Cardinality(S) \in Nat
BY WritersAssumption, FS_Subset, FS_CardinalityType DEF Threads

LEMMA Smaller ==
    ASSUME NEW S \in SUBSET Threads, NEW R \in SUBSET S
    PROVE  Cardinality(R) <= Cardinality(S)
BY Finite, FS_Subset

LEMMA OneMore ==
    ASSUME NEW S \in SUBSET Threads, NEW t \in Threads, t \notin S
    PROVE  Cardinality(S \cup {t}) = Cardinality(S) + 1
BY Finite, FS_AddElement

LEMMA OneLess ==
    ASSUME NEW S \in SUBSET Threads, NEW t \in S
    PROVE  Cardinality(S \ {t}) = Cardinality(S) - 1
BY Finite, FS_RemoveElement

\* Whoever may append is a worker, or a sink thread in a call.
LEMMA AtMostThreads ==
    ASSUME NEW S \in SUBSET (Loggers \cup SinksBusy)
    PROVE  Cardinality(S) <= Cardinality(Loggers) + Cardinality(SinksBusy)
<1>1. Loggers \in SUBSET Threads /\ SinksBusy \in SUBSET Threads
  BY DEF Threads, SinksBusy
<1>2. /\ IsFiniteSet(Loggers) /\ IsFiniteSet(SinksBusy)
      /\ Cardinality(Loggers) \in Nat /\ Cardinality(SinksBusy) \in Nat
  BY <1>1, Finite
<1>3. Cardinality(Loggers \cup SinksBusy) =
          Cardinality(Loggers) + Cardinality(SinksBusy) - Cardinality(Loggers \cap SinksBusy)
  BY <1>2, FS_Union
<1>4. Cardinality(Loggers \cap SinksBusy) \in Nat
  BY <1>1, Finite
<1>5. Loggers \cup SinksBusy \in SUBSET Threads
  BY <1>1
<1>6. Cardinality(S) <= Cardinality(Loggers \cup SinksBusy) /\ Cardinality(S) \in Nat
  BY <1>5, Smaller, Finite
<1>7. QED
  BY <1>2, <1>3, <1>4, <1>6

LEMMA MoveTypes ==
    ASSUME Types, NEW t \in Threads, NEW p \in Places, at' = [at EXCEPT ![t] = p]
    PROVE  /\ at' \in [Threads -> Places] /\ at'[t] = p
           /\ \A u \in Threads : u # t => at'[u] = at[u]
BY DEF Types

LEMMA InitIInv == Init => IInv
<1> SUFFICES ASSUME Init PROVE IInv
  OBVIOUS
<1>1. Types
  <2>1. /\ dir \in [Generations -> 0 .. born] /\ size \in [Files -> Nat]
        /\ step \in [Threads -> 0 .. Keep - 1] /\ file \in [Threads -> 0 .. born]
    BY KeepAssumption DEF Init
  <2>2. at \in [Threads -> Places]
    BY DEF Init, Places
  <2>3. dropped = {} /\ overlapped = FALSE /\ calls = 0 /\ calls <= MaxCalls
    BY BoundsAssumption DEF Init
  <2>4. born \in Nat /\ calls \in Nat /\ sinkCalls \in Nat /\ crashes \in Nat
    BY DEF Init
  <2>5. QED
    BY <2>1, <2>2, <2>3, <2>4 DEF Types
<1>2. WhoAppends /\ Serial
  BY DEF Init, WhoAppends, Serial, Threads, OnlyOldestDropped
<1>3. Opening = {} /\ SinksBusy = {} /\ \A f \in Files : Pending(f) = {}
  BY DEF Init, Opening, SinksBusy, Pending, Threads
<1>4. FilesSuffice /\ SinksCounted
  BY <1>3, FS_EmptySet DEF Init, FilesSuffice, SinksCounted
<1>5. Cardinality(Loggers) \in Nat
  BY Finite DEF Threads
<1>6. SizesBounded
  <2>1. Bound \in Nat
    BY <1>5, BoundsAssumption DEF Init, Bound
  <2>2. ASSUME NEW f \in Files PROVE size[f] = 0 /\ Cardinality(Pending(f)) = 0
    BY <1>3, FS_EmptySet DEF Init
  <2>3. QED
    BY <2>1, <2>2 DEF SizesBounded
<1>7. Undisturbed
  <2>1. Hole(0)
    BY DEF Init, Hole, Nth, Generations
  <2>2. QED
    BY <2>1 DEF Init, Undisturbed, Threads
<1>8. QED
  BY <1>1, <1>2, <1>4, <1>6, <1>7 DEF IInv

\* What a creation adds to the directory.
LEMMA OpenTypes ==
    ASSUME Types, NEW t \in Threads, Open(t)
    PROVE  /\ Types' /\ file'[t] = dir'[0]
           /\ \A u \in Threads : u # t => file'[u] = file[u] /\ at'[u] = at[u]
           /\ at[t] = "open" /\ at'[t] = "append"
           /\ \/ /\ dir[0] = 0 /\ born' = born + 1 /\ dir'[0] = born + 1
                 /\ \A g \in Generations : g # 0 => dir'[g] = dir[g]
              \/ dir[0] # 0 /\ born' = born /\ dir' = dir
<1>1. /\ at[t] = "open" /\ at' = [at EXCEPT ![t] = "append"]
      /\ file' = [file EXCEPT ![t] = dir'[0]]
      /\ UNCHANGED <<size, dropped, step, calls, crashes, history>>
      /\ \/ dir[0] = 0 /\ born' = born + 1 /\ dir' = [dir EXCEPT ![0] = born + 1]
         \/ dir[0] # 0 /\ UNCHANGED <<born, dir>>
  BY DEF Open
<1>2. 0 \in Generations
  BY KeepAssumption DEF Generations
<1>3. /\ dir' \in [Generations -> 0 .. born'] /\ born' \in Nat /\ born <= born'
      /\ \/ /\ dir[0] = 0 /\ born' = born + 1 /\ dir'[0] = born + 1
            /\ \A g \in Generations : g # 0 => dir'[g] = dir[g]
         \/ dir[0] # 0 /\ born' = born /\ dir' = dir
  <2>1. CASE dir[0] = 0 /\ born' = born + 1 /\ dir' = [dir EXCEPT ![0] = born + 1]
    BY <1>2, <2>1 DEF Types
  <2>2. CASE dir[0] # 0 /\ UNCHANGED <<born, dir>>
    BY <2>2 DEF Types
  <2>3. QED
    BY <1>1, <2>1, <2>2
<1>4. /\ file' \in [Threads -> 0 .. born'] /\ file'[t] = dir'[0]
      /\ \A u \in Threads : u # t => file'[u] = file[u]
  <2>1. dir'[0] \in 0 .. born'
    BY <1>2, <1>3
  <2>2. \A u \in Threads : file[u] \in 0 .. born'
    BY <1>3 DEF Types
  <2>3. QED
    BY <1>1, <2>1, <2>2 DEF Types
<1>5. /\ at' \in [Threads -> Places] /\ at'[t] = "append"
      /\ \A u \in Threads : u # t => at'[u] = at[u]
  BY <1>1, MoveTypes DEF Places
<1>6. dropped' \subseteq 1 .. born'
  BY <1>1, <1>3 DEF Types
<1>7. Types'
  BY <1>1, <1>3, <1>4, <1>5, <1>6 DEF Types, history
<1>8. QED
  BY <1>1, <1>3, <1>4, <1>5, <1>7

LEMMA RemoveLastTypes ==
    ASSUME Types, NEW t \in Threads, RemoveLast(t)
    PROVE  /\ Types' /\ at[t] = "remove" /\ at'[t] = "rename" /\ step'[t] = Keep - 1
           /\ \A u \in Threads : u # t => at'[u] = at[u] /\ step'[u] = step[u]
           /\ dir'[Keep] = 0 /\ \A g \in Generations : g # Keep => dir'[g] = dir[g]
<1>1. /\ at[t] = "remove" /\ at' = [at EXCEPT ![t] = "rename"]
      /\ step' = [step EXCEPT ![t] = Keep - 1]
      /\ dir' = [dir EXCEPT ![Keep] = 0] /\ dropped' = dropped \cup ({dir[Keep]} \ {0})
      /\ UNCHANGED <<size, born, file, calls, crashes, history>>
  BY DEF RemoveLast
<1>2. Keep \in Generations
  BY KeepAssumption DEF Generations
<1>3. /\ dir' \in [Generations -> 0 .. born] /\ dir'[Keep] = 0
      /\ \A g \in Generations : g # Keep => dir'[g] = dir[g]
  BY <1>1, <1>2 DEF Types
<1>4. dropped' \subseteq 1 .. born
  <2>1. dir[Keep] \in 0 .. born /\ dropped \subseteq 1 .. born /\ born \in Nat
    BY <1>2 DEF Types
  <2>2. {dir[Keep]} \ {0} \subseteq 1 .. born
    BY <2>1
  <2>3. QED
    BY <1>1, <2>1, <2>2
<1>5. /\ step' \in [Threads -> 0 .. Keep - 1] /\ step'[t] = Keep - 1
      /\ \A u \in Threads : u # t => step'[u] = step[u]
  BY <1>1, KeepAssumption DEF Types
<1>6. /\ at' \in [Threads -> Places] /\ at'[t] = "rename"
      /\ \A u \in Threads : u # t => at'[u] = at[u]
  BY <1>1, MoveTypes DEF Places
<1>7. Types'
  BY <1>1, <1>3, <1>4, <1>5, <1>6 DEF Types, history
<1>8. QED
  BY <1>1, <1>3, <1>5, <1>6, <1>7

LEMMA RenameTypes ==
    ASSUME Types, NEW t \in Threads, Rename(t)
    PROVE  /\ Types' /\ at[t] = "rename"
           /\ \A u \in Threads : u # t => at'[u] = at[u] /\ step'[u] = step[u]
           /\ IF step[t] > 0 THEN at'[t] = "rename" /\ step'[t] = step[t] - 1
              ELSE at'[t] = "open"
           /\ dir'[step[t]] = 0
           /\ dir'[step[t] + 1] = IF dir[step[t]] = 0 THEN dir[step[t] + 1] ELSE dir[step[t]]
           /\ \A g \in Generations : g \notin {step[t], step[t] + 1} => dir'[g] = dir[g]
<1> DEFINE s == step[t]
<1>1. /\ at[t] = "rename"
      /\ dir' = IF dir[s] = 0 THEN dir ELSE [dir EXCEPT ![s] = 0, ![s + 1] = dir[s]]
      /\ dropped' = IF dir[s] = 0 THEN dropped ELSE dropped \cup ({dir[s + 1]} \ {0})
      /\ IF s > 0 THEN step' = [step EXCEPT ![t] = @ - 1] /\ at' = at
         ELSE at' = [at EXCEPT ![t] = "open"] /\ step' = step
      /\ UNCHANGED <<size, born, file, calls, crashes, history>>
  BY DEF Rename, Renamed
<1>2. s \in 0 .. Keep - 1 /\ s \in Generations /\ s + 1 \in Generations /\ s # s + 1
  BY KeepAssumption DEF Types, Generations
<1>3. /\ dir' \in [Generations -> 0 .. born] /\ dir'[s] = 0
      /\ dir'[s + 1] = IF dir[s] = 0 THEN dir[s + 1] ELSE dir[s]
      /\ \A g \in Generations : g \notin {s, s + 1} => dir'[g] = dir[g]
  <2> HIDE DEF s
  <2>1. QED
    BY <1>1, <1>2 DEF Types
<1>4. dropped' \subseteq 1 .. born
  <2>1. dir[s + 1] \in 0 .. born /\ dropped \subseteq 1 .. born /\ born \in Nat
    BY <1>2 DEF Types
  <2>2. {dir[s + 1]} \ {0} \subseteq 1 .. born
    BY <2>1
  <2>3. QED
    BY <1>1, <2>1, <2>2
<1>5. /\ step' \in [Threads -> 0 .. Keep - 1] /\ at' \in [Threads -> Places]
      /\ \A u \in Threads : u # t => at'[u] = at[u] /\ step'[u] = step[u]
      /\ IF s > 0 THEN at'[t] = "rename" /\ step'[t] = s - 1 ELSE at'[t] = "open"
  <2>1. CASE s > 0
    <3>1. s - 1 \in 0 .. Keep - 1 /\ step \in [Threads -> 0 .. Keep - 1]
      BY <1>2, <2>1, KeepAssumption DEF Types
    <3>2. step' = [step EXCEPT ![t] = s - 1] /\ at' = at
      BY <1>1, <2>1
    <3>3. step' \in [Threads -> 0 .. Keep - 1] /\ step'[t] = s - 1
      BY <3>1, <3>2
    <3>4. QED
      BY <1>1, <2>1, <3>2, <3>3 DEF Types
  <2>2. CASE ~(s > 0)
    BY <1>1, <2>2, MoveTypes DEF Places, Types
  <2>3. QED
    BY <2>1, <2>2
<1>6. Types'
  BY <1>1, <1>3, <1>4, <1>5 DEF Types, history
<1>7. QED
  BY <1>1, <1>3, <1>5, <1>6

LEMMA StatTypes ==
    ASSUME Types, NEW t \in Threads, Stat(t)
    PROVE  /\ Types' /\ at[t] = "idle" /\ t \in Loggers
           /\ at'[t] = IF dir[0] # 0 /\ TooBig(size[dir[0]]) THEN "remove" ELSE "open"
           /\ \A u \in Threads : u # t => at'[u] = at[u]
<1>1. /\ at[t] = "idle" /\ t \in Loggers /\ calls < MaxCalls /\ calls' = calls + 1
      /\ at' = [at EXCEPT ![t] = IF dir[0] # 0 /\ TooBig(size[dir[0]]) THEN "remove" ELSE "open"]
      /\ overlapped' = (overlapped \/ \E u \in Loggers : at[u] # "idle")
      /\ UNCHANGED <<dir, size, born, dropped, step, file, sinkCalls, crashes>>
  BY DEF Stat
<1>2. /\ at' \in [Threads -> Places]
      /\ at'[t] = IF dir[0] # 0 /\ TooBig(size[dir[0]]) THEN "remove" ELSE "open"
      /\ \A u \in Threads : u # t => at'[u] = at[u]
  BY <1>1, MoveTypes DEF Places
<1>3. calls' \in Nat /\ calls' <= MaxCalls /\ overlapped' \in BOOLEAN
  BY <1>1, BoundsAssumption DEF Types
<1>4. Types'
  BY <1>1, <1>2, <1>3 DEF Types
<1>5. QED
  BY <1>1, <1>2, <1>4

LEMMA SinkWriteTypes ==
    ASSUME Types, NEW t \in Threads, SinkWrite(t)
    PROVE  /\ Types' /\ at[t] = "idle" /\ t \in SinkWriters /\ at'[t] = "open"
           /\ \A u \in Threads : u # t => at'[u] = at[u]
<1>1. /\ at[t] = "idle" /\ t \in SinkWriters /\ calls < MaxCalls /\ calls' = calls + 1
      /\ at' = [at EXCEPT ![t] = "open"] /\ sinkCalls' = sinkCalls + 1
      /\ UNCHANGED <<dir, size, born, dropped, step, file, overlapped, crashes>>
  BY DEF SinkWrite
<1>2. /\ at' \in [Threads -> Places] /\ at'[t] = "open"
      /\ \A u \in Threads : u # t => at'[u] = at[u]
  BY <1>1, MoveTypes DEF Places
<1>3. calls' \in Nat /\ calls' <= MaxCalls /\ sinkCalls' \in Nat
  BY <1>1, BoundsAssumption DEF Types
<1>4. Types'
  BY <1>1, <1>2, <1>3 DEF Types
<1>5. QED
  BY <1>1, <1>2, <1>4

LEMMA AppendTypes ==
    ASSUME Types, NEW t \in Threads, Append(t)
    PROVE  /\ Types' /\ at[t] = "append" /\ at'[t] = "idle" /\ file'[t] = 0
           /\ \A u \in Threads : u # t => at'[u] = at[u] /\ file'[u] = file[u]
           /\ \A f \in Files : size'[f] = IF f = file[t] THEN size[f] + 1 ELSE size[f]
<1>1. /\ at[t] = "append" /\ at' = [at EXCEPT ![t] = "idle"]
      /\ size' = [size EXCEPT ![file[t]] = @ + 1]
      /\ file' = [file EXCEPT ![t] = 0]
      /\ UNCHANGED <<dir, born, dropped, step, calls, crashes, history>>
  BY DEF Append
<1>2. /\ at' \in [Threads -> Places] /\ at'[t] = "idle"
      /\ \A u \in Threads : u # t => at'[u] = at[u]
  BY <1>1, MoveTypes DEF Places
<1>3. /\ file' \in [Threads -> 0 .. born] /\ file'[t] = 0
      /\ \A u \in Threads : u # t => file'[u] = file[u]
  BY <1>1 DEF Types
<1>4. /\ size' \in [Files -> Nat]
      /\ \A f \in Files : size'[f] = IF f = file[t] THEN size[f] + 1 ELSE size[f]
  <2>1. \A f \in Files : size[f] \in Nat
    BY DEF Types
  <2>2. /\ DOMAIN size' = Files
        /\ \A f \in Files : size'[f] = IF f = file[t] THEN size[f] + 1 ELSE size[f]
    BY <1>1 DEF Types
  <2>3. size' = [f \in Files |-> size'[f]]
    BY <1>1 DEF Types
  <2>4. \A f \in Files : size'[f] \in Nat
    BY <2>1, <2>2
  <2>5. QED
    BY <2>2, <2>3, <2>4
<1>5. Types'
  BY <1>1, <1>2, <1>3, <1>4 DEF Types, history
<1>6. QED
  BY <1>1, <1>2, <1>3, <1>4, <1>5

LEMMA NextTypes == Types /\ [Next]_vars => Types'
<1> SUFFICES ASSUME Types, [Next]_vars PROVE Types'
  OBVIOUS
<1>1. ASSUME NEW t \in Threads, OpenFails(t) PROVE Types'
  <2>1. at' \in [Threads -> Places]
    BY <1>1, MoveTypes DEF OpenFails, Places
  <2>2. QED
    BY <1>1, <2>1 DEF OpenFails, Types, history
<1>2. CASE Crash
  <2>1. at' \in [Threads -> Places] /\ file' \in [Threads -> 0 .. born]
    BY <1>2 DEF Crash, Places, Types
  <2>2. step' \in [Threads -> 0 .. Keep - 1]
    BY <1>2, KeepAssumption DEF Crash
  <2>3. crashes' \in Nat
    BY <1>2 DEF Crash, Types
  <2>4. QED
    BY <1>2, <2>1, <2>2, <2>3 DEF Crash, Types, history
<1>3. CASE UNCHANGED vars
  BY <1>3 DEF vars, history, Types
<1>4. QED
  BY <1>1, <1>2, <1>3, StatTypes, RemoveLastTypes, RenameTypes, OpenTypes, AppendTypes,
     SinkWriteTypes DEF Next, Quiet

LEMMA OpenFailsMoves ==
    ASSUME Types, NEW t \in Threads, OpenFails(t)
    PROVE  /\ at[t] = "open" /\ at'[t] = "idle"
           /\ \A u \in Threads : u # t => at'[u] = at[u]
           /\ UNCHANGED <<dir, size, born, dropped, step, file, calls, crashes, sinkCalls, overlapped>>
<1>1. at[t] = "open" /\ at' = [at EXCEPT ![t] = "idle"]
  BY DEF OpenFails
<1>2. at'[t] = "idle" /\ \A u \in Threads : u # t => at'[u] = at[u]
  BY <1>1, MoveTypes DEF Places
<1>3. QED
  BY <1>1, <1>2 DEF OpenFails, history
-----------------------------------------------------------------------------
(* Who appends, and how many files and calls there are. *)

LEMMA NextWhoAppends == IInv /\ [Next]_vars => WhoAppends'
<1> SUFFICES ASSUME IInv, [Next]_vars PROVE WhoAppends'
  OBVIOUS
<1>1. Types /\ WhoAppends /\ Types'
  BY NextTypes DEF IInv
<1>2. ASSUME NEW t \in Threads,
             \A u \in Threads : u # t => at'[u] = at[u] /\ file'[u] = file[u],
             at'[t] = "append" => file'[t] # 0,
             t \in Loggers \/ at'[t] \in {"idle", "open", "append"}
      PROVE  WhoAppends'
  <2>1. \A u \in Threads : at'[u] = "append" => file'[u] # 0
    BY <1>1, <1>2 DEF WhoAppends
  <2>2. \A u \in SinkWriters : at'[u] \in {"idle", "open", "append"}
    BY <1>1, <1>2, WritersAssumption DEF WhoAppends, Threads
  <2>3. QED
    BY <2>1, <2>2 DEF WhoAppends
<1>3. ASSUME NEW t \in Threads, Stat(t) PROVE WhoAppends'
  BY <1>1, <1>2, <1>3, StatTypes DEF Stat
<1>4. ASSUME NEW t \in Threads, RemoveLast(t) PROVE WhoAppends'
  <2>1. t \in Loggers
    BY <1>1, <1>4, RemoveLastTypes DEF WhoAppends, Threads
  <2>2. file' = file
    BY <1>4 DEF RemoveLast
  <2>3. QED
    BY <1>1, <1>2, <1>4, <2>1, <2>2, RemoveLastTypes
<1>5. ASSUME NEW t \in Threads, Rename(t) PROVE WhoAppends'
  <2>1. t \in Loggers
    BY <1>1, <1>5, RenameTypes DEF WhoAppends, Threads
  <2>2. file' = file
    BY <1>5 DEF Rename
  <2>3. at'[t] # "append"
    BY <1>1, <1>5, RenameTypes
  <2>4. QED
    BY <1>1, <1>2, <1>5, <2>1, <2>2, <2>3, RenameTypes
<1>6. ASSUME NEW t \in Threads, Open(t) PROVE WhoAppends'
  <2>1. dir'[0] # 0
    BY <1>1, <1>6, OpenTypes DEF Types
  <2>2. QED
    BY <1>1, <1>2, <1>6, <2>1, OpenTypes
<1>7. ASSUME NEW t \in Threads, OpenFails(t) PROVE WhoAppends'
  BY <1>1, <1>2, <1>7, OpenFailsMoves
<1>8. ASSUME NEW t \in Threads, Append(t) PROVE WhoAppends'
  BY <1>1, <1>2, <1>8, AppendTypes
<1>9. ASSUME NEW t \in Threads, SinkWrite(t) PROVE WhoAppends'
  <2>1. file' = file
    BY <1>9 DEF SinkWrite
  <2>2. QED
    BY <1>1, <1>2, <1>9, <2>1, SinkWriteTypes
<1>10. CASE Crash
  BY <1>10 DEF Crash, WhoAppends, Threads
<1>11. CASE UNCHANGED vars
  BY <1>1, <1>11 DEF vars, WhoAppends
<1>12. QED
  BY <1>3, <1>4, <1>5, <1>6, <1>7, <1>8, <1>9, <1>10, <1>11 DEF Next, Quiet

LEMMA NextFilesSuffice == IInv /\ [Next]_vars => FilesSuffice'
<1> SUFFICES ASSUME IInv, [Next]_vars PROVE FilesSuffice'
  OBVIOUS
<1>1. Types /\ FilesSuffice /\ Types'
  BY NextTypes DEF IInv
<1>2. /\ Opening \in SUBSET Threads /\ Opening' \in SUBSET Threads
      /\ Cardinality(Opening) \in Nat /\ Cardinality(Opening') \in Nat
      /\ born \in Nat /\ calls \in Nat
  <2>1. Opening \in SUBSET Threads /\ Opening' \in SUBSET Threads
    BY DEF Opening
  <2>2. QED
    BY <1>1, <2>1, Finite DEF Types
<1>3. ASSUME Opening' \subseteq Opening, UNCHANGED <<born, calls>>
      PROVE  FilesSuffice'
  <2>1. Cardinality(Opening') <= Cardinality(Opening)
    BY <1>2, <1>3, Smaller
  <2>2. QED
    BY <1>1, <1>2, <1>3, <2>1 DEF FilesSuffice
<1>4. ASSUME NEW t \in Threads, at[t] = "idle", born' = born, calls' = calls + 1,
             \A u \in Threads : u # t => at'[u] = at[u]
      PROVE  FilesSuffice'
  <2>1. t \notin Opening /\ Opening' \subseteq Opening \cup {t}
    BY <1>4 DEF Opening
  <2>2. Cardinality(Opening \cup {t}) = Cardinality(Opening) + 1
    BY <1>2, <2>1, OneMore
  <2>3. Cardinality(Opening') <= Cardinality(Opening \cup {t})
    BY <1>2, <2>1, Smaller
  <2>4. QED
    BY <1>1, <1>2, <1>4, <2>2, <2>3 DEF FilesSuffice
<1>5. ASSUME NEW t \in Threads, Stat(t) PROVE FilesSuffice'
  BY <1>1, <1>4, <1>5, StatTypes DEF Stat
<1>6. ASSUME NEW t \in Threads, SinkWrite(t) PROVE FilesSuffice'
  BY <1>1, <1>4, <1>6, SinkWriteTypes DEF SinkWrite
<1>7. ASSUME NEW t \in Threads, RemoveLast(t) PROVE FilesSuffice'
  <2>1. Opening' \subseteq Opening
    BY <1>1, <1>7, RemoveLastTypes DEF Opening
  <2>2. QED
    BY <1>3, <1>7, <2>1 DEF RemoveLast
<1>8. ASSUME NEW t \in Threads, Rename(t) PROVE FilesSuffice'
  <2>1. Opening' \subseteq Opening
    BY <1>1, <1>8, RenameTypes DEF Opening
  <2>2. QED
    BY <1>3, <1>8, <2>1 DEF Rename
<1>9. ASSUME NEW t \in Threads, Open(t) PROVE FilesSuffice'
  <2>1. t \in Opening /\ Opening' \subseteq Opening \ {t}
    BY <1>1, <1>9, OpenTypes DEF Opening
  <2>2. Cardinality(Opening \ {t}) = Cardinality(Opening) - 1
    BY <1>2, <2>1, OneLess
  <2>3. Cardinality(Opening') <= Cardinality(Opening \ {t})
    BY <1>2, <2>1, Smaller
  <2>4. born' <= born + 1 /\ born' \in Nat /\ calls' = calls
    BY <1>1, <1>9, OpenTypes DEF Open, Types
  <2>5. QED
    BY <1>1, <1>2, <2>2, <2>3, <2>4 DEF FilesSuffice
<1>10. ASSUME NEW t \in Threads, OpenFails(t) PROVE FilesSuffice'
  <2>1. Opening' \subseteq Opening
    BY <1>1, <1>10, OpenFailsMoves DEF Opening
  <2>2. QED
    BY <1>3, <1>10, <2>1 DEF OpenFails
<1>11. ASSUME NEW t \in Threads, Append(t) PROVE FilesSuffice'
  <2>1. Opening' \subseteq Opening
    BY <1>1, <1>11, AppendTypes DEF Opening
  <2>2. QED
    BY <1>3, <1>11, <2>1 DEF Append
<1>12. CASE Crash
  <2>1. Opening' \subseteq Opening
    BY <1>12 DEF Crash, Opening
  <2>2. QED
    BY <1>3, <1>12, <2>1 DEF Crash
<1>13. CASE UNCHANGED vars
  BY <1>1, <1>13 DEF vars, FilesSuffice, Opening
<1>14. QED
  BY <1>5, <1>6, <1>7, <1>8, <1>9, <1>10, <1>11, <1>12, <1>13 DEF Next, Quiet

LEMMA NextSinksCounted == IInv /\ [Next]_vars => SinksCounted'
<1> SUFFICES ASSUME IInv, [Next]_vars PROVE SinksCounted'
  OBVIOUS
<1>1. Types /\ WhoAppends /\ SinksCounted /\ Types'
  BY NextTypes DEF IInv
<1>2. /\ SinksBusy \in SUBSET Threads /\ SinksBusy' \in SUBSET Threads
      /\ Cardinality(SinksBusy) \in Nat /\ Cardinality(SinksBusy') \in Nat
      /\ sinkCalls \in Nat
  <2>1. SinksBusy \in SUBSET Threads /\ SinksBusy' \in SUBSET Threads
    BY DEF SinksBusy, Threads
  <2>2. QED
    BY <1>1, <2>1, Finite DEF Types
<1>3. ASSUME SinksBusy' \subseteq SinksBusy, sinkCalls' = sinkCalls
      PROVE  SinksCounted'
  <2>1. Cardinality(SinksBusy') <= Cardinality(SinksBusy)
    BY <1>2, <1>3, Smaller
  <2>2. QED
    BY <1>1, <1>2, <1>3, <2>1 DEF SinksCounted
<1>4. ASSUME NEW t \in Threads, t \in Loggers \/ at[t] # "idle", sinkCalls' = sinkCalls,
             \A u \in Threads : u # t => at'[u] = at[u]
      PROVE  SinksCounted'
  <2>1. SinksBusy' \subseteq SinksBusy
    BY <1>4, WritersAssumption DEF SinksBusy, Threads
  <2>2. QED
    BY <1>3, <1>4, <2>1
<1>5. ASSUME NEW t \in Threads, Stat(t) PROVE SinksCounted'
  BY <1>1, <1>4, <1>5, StatTypes DEF Stat
<1>6. ASSUME NEW t \in Threads, RemoveLast(t) PROVE SinksCounted'
  BY <1>1, <1>4, <1>6, RemoveLastTypes DEF RemoveLast, history
<1>7. ASSUME NEW t \in Threads, Rename(t) PROVE SinksCounted'
  <2>1. at[t] = "rename" /\ \A u \in Threads : u # t => at'[u] = at[u]
    BY <1>1, <1>7, RenameTypes
  <2>2. sinkCalls' = sinkCalls
    BY <1>7 DEF Rename, history
  <2>3. QED
    BY <1>4, <2>1, <2>2
<1>8. ASSUME NEW t \in Threads, Open(t) PROVE SinksCounted'
  <2>1. at[t] = "open" /\ \A u \in Threads : u # t => at'[u] = at[u]
    BY <1>1, <1>8, OpenTypes
  <2>2. sinkCalls' = sinkCalls
    BY <1>8 DEF Open, history
  <2>3. QED
    BY <1>4, <2>1, <2>2
<1>9. ASSUME NEW t \in Threads, OpenFails(t) PROVE SinksCounted'
  BY <1>1, <1>4, <1>9, OpenFailsMoves
<1>10. ASSUME NEW t \in Threads, Append(t) PROVE SinksCounted'
  <2>1. at[t] = "append" /\ \A u \in Threads : u # t => at'[u] = at[u]
    BY <1>1, <1>10, AppendTypes
  <2>2. sinkCalls' = sinkCalls
    BY <1>10 DEF Append, history
  <2>3. QED
    BY <1>4, <2>1, <2>2
<1>11. ASSUME NEW t \in Threads, SinkWrite(t) PROVE SinksCounted'
  <2>1. t \notin SinksBusy /\ SinksBusy' \subseteq SinksBusy \cup {t}
    BY <1>1, <1>11, SinkWriteTypes DEF SinksBusy, Threads
  <2>2. Cardinality(SinksBusy \cup {t}) = Cardinality(SinksBusy) + 1
    BY <1>2, <2>1, OneMore
  <2>3. Cardinality(SinksBusy') <= Cardinality(SinksBusy \cup {t})
    BY <1>2, <2>1, Smaller
  <2>4. sinkCalls' = sinkCalls + 1
    BY <1>11 DEF SinkWrite
  <2>5. QED
    BY <1>1, <1>2, <2>2, <2>3, <2>4 DEF SinksCounted
<1>12. CASE Crash
  <2>1. SinksBusy' \subseteq SinksBusy
    BY <1>12 DEF Crash, SinksBusy, Threads
  <2>2. QED
    BY <1>3, <1>12, <2>1 DEF Crash, history
<1>13. CASE UNCHANGED vars
  BY <1>1, <1>13 DEF vars, history, SinksCounted, SinksBusy
<1>14. QED
  BY <1>5, <1>6, <1>7, <1>8, <1>9, <1>10, <1>11, <1>12, <1>13 DEF Next, Quiet
-----------------------------------------------------------------------------
(* How large a file grows. *)

LEMMA Numbers ==
    ASSUME Types
    PROVE  /\ \A f \in Files : Pending(f) \in SUBSET Threads /\ size[f] \in Nat
           /\ \A f \in Files : Cardinality(Pending(f)) \in Nat
           /\ Bound \in Nat /\ Cardinality(Loggers) \in Nat /\ sinkCalls \in Nat
           /\ MaxSize - 1 \in Nat
<1>1. \A f \in Files : Pending(f) \in SUBSET Threads
  BY DEF Pending
<1>2. \A f \in Files : Cardinality(Pending(f)) \in Nat
  BY <1>1, Finite
<1>3. Cardinality(Loggers) \in Nat
  BY Finite DEF Threads
<1>4. /\ sinkCalls \in Nat /\ MaxSize - 1 \in Nat
      /\ \A f \in Files : size[f] \in Nat
  BY BoundsAssumption DEF Types
<1>5. Bound \in Nat
  BY <1>3, <1>4 DEF Bound
<1>6. QED
  BY <1>1, <1>2, <1>3, <1>4, <1>5

\* The threads that will append are all workers or sink threads in a call.
LEMMA PendingFits ==
    ASSUME Types, SinksCounted, NEW S \in SUBSET (Loggers \cup SinksBusy)
    PROVE  Cardinality(S) + MaxSize - 1 <= Bound
<1>1. Cardinality(S) <= Cardinality(Loggers) + Cardinality(SinksBusy)
  BY AtMostThreads
<1>2. S \in SUBSET Threads /\ SinksBusy \in SUBSET Threads
  BY DEF SinksBusy, Threads
<1>3. Cardinality(S) \in Nat /\ Cardinality(SinksBusy) \in Nat
  BY <1>2, Finite
<1>4. QED
  BY <1>1, <1>3, Numbers DEF SinksCounted, Bound

LEMMA SizeKept ==
    ASSUME Types, Types', SizesBounded, NEW f \in Files,
           Pending(f)' \subseteq Pending(f), size'[f] = size[f],
           born <= born', Bound' = Bound
    PROVE  /\ size'[f] + Cardinality(Pending(f)') <= Bound'
           /\ f > born' => size'[f] = 0
<1>1. /\ Pending(f) \in SUBSET Threads /\ size[f] \in Nat /\ Bound \in Nat
      /\ Cardinality(Pending(f)) \in Nat
  BY Numbers
<1>2. Pending(f)' \in SUBSET Threads
  BY DEF Pending
<1>3. Cardinality(Pending(f)') \in Nat /\ Cardinality(Pending(f)') <= Cardinality(Pending(f))
  BY <1>1, <1>2, Finite, Smaller
<1>4. size[f] + Cardinality(Pending(f)) <= Bound
  BY DEF SizesBounded
<1>5. size'[f] + Cardinality(Pending(f)') <= Bound'
  BY <1>1, <1>3, <1>4
<1>6. ASSUME f > born' PROVE size'[f] = 0
  <2>1. f > born
    BY <1>6 DEF Types, Files
  <2>2. QED
    BY <2>1 DEF SizesBounded
<1>7. QED
  BY <1>5, <1>6

LEMMA SizesKept ==
    ASSUME Types, Types', SizesBounded, UNCHANGED <<size, born, sinkCalls>>,
           \A f \in Files : Pending(f)' \subseteq Pending(f)
    PROVE  SizesBounded'
<1>1. Bound' = Bound /\ born <= born'
  BY DEF Bound, Types
<1>2. \A f \in Files : /\ size'[f] + Cardinality(Pending(f)') <= Bound'
                       /\ f > born' => size'[f] = 0
  BY <1>1, SizeKept
<1>3. QED
  BY <1>2 DEF SizesBounded

LEMMA OpenSizes ==
    ASSUME Types, Types', WhoAppends, SinksCounted, SizesBounded, NEW t \in Threads, Open(t)
    PROVE  SizesBounded'
<1>1. /\ size' = size /\ sinkCalls' = sinkCalls /\ file'[t] = dir'[0] /\ at[t] = "open"
      /\ at'[t] = "append"
      /\ \A u \in Threads : u # t => at'[u] = at[u] /\ file'[u] = file[u]
  BY OpenTypes DEF Open, history
<1>2. Bound' = Bound
  BY <1>1 DEF Bound
<1>3. CASE dir[0] # 0 /\ born' = born /\ dir' = dir
  <2>1. \A f \in Files : Pending(f)' \subseteq Pending(f)
    BY <1>1, <1>3 DEF Pending
  <2>2. QED
    BY <1>1, <1>3, <2>1, SizesKept
<1>4. CASE dir[0] = 0 /\ born' = born + 1 /\ dir'[0] = born + 1
  <2> SUFFICES ASSUME NEW f \in Files
               PROVE  /\ size'[f] + Cardinality(Pending(f)') <= Bound'
                      /\ f > born' => size'[f] = 0
    BY DEF SizesBounded
  <2>1. born \in Nat /\ born <= born' /\ f \in Nat /\ f # 0
    BY <1>4 DEF Types, Files
  <2>2. CASE f # born + 1
    <3>1. Pending(f)' \subseteq Pending(f)
      BY <1>1, <1>4, <2>2 DEF Pending
    <3>2. QED
      BY <1>1, <1>2, <2>1, <3>1, SizeKept
  <2>3. CASE f = born + 1
    <3>1. size'[f] = 0
      BY <1>1, <2>1, <2>3 DEF SizesBounded
    <3>2. Pending(f)' \subseteq Loggers \cup SinksBusy
      BY <1>1 DEF Pending, SinksBusy, Threads
    <3>3. Cardinality(Pending(f)') + MaxSize - 1 <= Bound
      BY <3>2, PendingFits
    <3>4. Pending(f)' \in SUBSET Threads
      BY DEF Pending
    <3>5. Cardinality(Pending(f)') \in Nat /\ Bound \in Nat /\ MaxSize - 1 \in Nat
      BY <3>4, Finite, Numbers
    <3>6. f <= born'
      BY <1>4, <2>1, <2>3
    <3>7. QED
      BY <1>2, <2>1, <3>1, <3>3, <3>5, <3>6
  <2>4. QED
    BY <2>2, <2>3
<1>5. QED
  BY <1>3, <1>4, OpenTypes

LEMMA AppendSizes ==
    ASSUME Types, Types', WhoAppends, SizesBounded, NEW t \in Threads, Append(t)
    PROVE  SizesBounded'
<1>1. /\ born' = born /\ dir' = dir /\ sinkCalls' = sinkCalls
      /\ at[t] = "append" /\ at'[t] = "idle" /\ file'[t] = 0
      /\ \A u \in Threads : u # t => at'[u] = at[u] /\ file'[u] = file[u]
      /\ \A f \in Files : size'[f] = IF f = file[t] THEN size[f] + 1 ELSE size[f]
  BY AppendTypes DEF Append, history
<1>2. Bound' = Bound /\ born <= born' /\ born \in Nat
  BY <1>1 DEF Bound, Types
<1> SUFFICES ASSUME NEW f \in Files
             PROVE  /\ size'[f] + Cardinality(Pending(f)') <= Bound'
                    /\ f > born' => size'[f] = 0
  BY DEF SizesBounded
<1>3. CASE f # file[t]
  <2>1. Pending(f)' \subseteq Pending(f)
    BY <1>1 DEF Pending
  <2>2. QED
    BY <1>1, <1>2, <1>3, <2>1, SizeKept
<1>4. CASE f = file[t]
  <2>1. t \in Pending(f) /\ Pending(f)' \subseteq Pending(f) \ {t}
    BY <1>1, <1>4 DEF Pending
  <2>2. /\ Pending(f) \in SUBSET Threads /\ size[f] \in Nat /\ Bound \in Nat
        /\ Cardinality(Pending(f)) \in Nat
    BY Numbers
  <2>3. Cardinality(Pending(f) \ {t}) = Cardinality(Pending(f)) - 1
    BY <2>1, <2>2, OneLess
  <2>4. Pending(f)' \in SUBSET Threads /\ Pending(f) \ {t} \in SUBSET Threads
    BY <2>1, <2>2
  <2>5. /\ Cardinality(Pending(f)') <= Cardinality(Pending(f) \ {t})
        /\ Cardinality(Pending(f)') \in Nat
    BY <2>1, <2>4, Smaller, Finite
  <2>6. size[f] + Cardinality(Pending(f)) <= Bound
    BY DEF SizesBounded
  <2>7. size'[f] + Cardinality(Pending(f)') <= Bound'
    <3>1. size'[f] = size[f] + 1
      BY <1>1, <1>4
    <3>2. QED
      BY <1>2, <2>2, <2>3, <2>5, <2>6, <3>1
  <2>8. f <= born'
    BY <1>1, <1>2, <1>4 DEF Types
  <2>9. QED
    BY <1>1, <1>2, <2>7, <2>8 DEF Files
<1>5. QED
  BY <1>3, <1>4

LEMMA SinkWriteSizes ==
    ASSUME Types, Types', SizesBounded, NEW t \in Threads, SinkWrite(t)
    PROVE  SizesBounded'
<1>1. /\ born' = born /\ dir' = dir /\ file' = file /\ size' = size
      /\ sinkCalls' = sinkCalls + 1
      /\ at[t] = "idle" /\ \A u \in Threads : u # t => at'[u] = at[u]
  BY SinkWriteTypes DEF SinkWrite
<1> SUFFICES ASSUME NEW f \in Files
             PROVE  /\ size'[f] + Cardinality(Pending(f)') <= Bound'
                    /\ f > born' => size'[f] = 0
  BY DEF SizesBounded
<1>2. t \notin Pending(f) /\ Pending(f)' \subseteq Pending(f) \cup {t}
  BY <1>1 DEF Pending
<1>3. /\ Pending(f) \in SUBSET Threads /\ size[f] \in Nat /\ Bound \in Nat
      /\ Cardinality(Pending(f)) \in Nat
  BY Numbers
<1>4. Cardinality(Pending(f) \cup {t}) = Cardinality(Pending(f)) + 1
  BY <1>2, <1>3, OneMore
<1>5. Pending(f)' \in SUBSET Threads /\ Pending(f) \cup {t} \in SUBSET Threads
  BY <1>2, <1>3
<1>6. /\ Cardinality(Pending(f)') <= Cardinality(Pending(f) \cup {t})
      /\ Cardinality(Pending(f)') \in Nat
  BY <1>2, <1>5, Smaller, Finite
<1>7. Bound' = Bound + 1
  <2>1. MaxSize - 1 \in Nat /\ Cardinality(Loggers) \in Nat /\ sinkCalls \in Nat
    BY Numbers
  <2>2. QED
    BY <1>1, <2>1 DEF Bound
<1>8. QED
  BY <1>1, <1>3, <1>4, <1>6, <1>7 DEF SizesBounded

LEMMA StatSizes ==
    ASSUME Types, Types', WhoAppends, SinksCounted, SizesBounded, NEW t \in Threads, Stat(t)
    PROVE  SizesBounded'
<1>1. /\ born' = born /\ dir' = dir /\ file' = file /\ size' = size
      /\ sinkCalls' = sinkCalls /\ t \in Loggers
      /\ at[t] = "idle" /\ \A u \in Threads : u # t => at'[u] = at[u]
      /\ at'[t] = IF dir[0] # 0 /\ TooBig(size[dir[0]]) THEN "remove" ELSE "open"
  BY StatTypes DEF Stat
<1>2. Bound' = Bound /\ born <= born'
  BY <1>1 DEF Bound, Types
<1> SUFFICES ASSUME NEW f \in Files
             PROVE  /\ size'[f] + Cardinality(Pending(f)') <= Bound'
                    /\ f > born' => size'[f] = 0
  BY DEF SizesBounded
<1>3. CASE at'[t] = "remove" \/ dir[0] # f
  <2>1. Pending(f)' \subseteq Pending(f)
    BY <1>1, <1>3 DEF Pending
  <2>2. QED
    BY <1>1, <1>2, <2>1, SizeKept
<1>4. CASE at'[t] # "remove" /\ dir[0] = f
  <2>1. f \in Nat /\ f # 0 /\ size[f] \in Nat
    BY Numbers DEF Files
  <2>2. size[f] <= MaxSize - 1
    BY <1>1, <1>4, <2>1, BoundsAssumption DEF TooBig
  <2>3. Pending(f)' \subseteq Loggers \cup SinksBusy
    BY <1>1 DEF Pending, SinksBusy, Threads
  <2>4. Cardinality(Pending(f)') + MaxSize - 1 <= Bound
    BY <2>3, PendingFits
  <2>5. Pending(f)' \in SUBSET Threads
    BY DEF Pending
  <2>6. Cardinality(Pending(f)') \in Nat /\ Bound \in Nat /\ MaxSize - 1 \in Nat
    BY <2>5, Finite, Numbers
  <2>7. QED
    BY <1>1, <1>2, <2>1, <2>2, <2>4, <2>6 DEF SizesBounded
<1>5. QED
  BY <1>3, <1>4

LEMMA NextSizesBounded == IInv /\ [Next]_vars => SizesBounded'
<1> SUFFICES ASSUME IInv, [Next]_vars PROVE SizesBounded'
  OBVIOUS
<1>1. Types /\ WhoAppends /\ SinksCounted /\ SizesBounded /\ Types'
  BY NextTypes DEF IInv
<1>2. 0 \in Generations /\ Keep \in Generations /\ Keep # 0
  BY KeepAssumption DEF Generations
<1>3. ASSUME NEW t \in Threads, RemoveLast(t) PROVE SizesBounded'
  <2>1. dir'[0] = dir[0] /\ file' = file /\ UNCHANGED <<size, born, sinkCalls>>
    BY <1>1, <1>2, <1>3, RemoveLastTypes DEF RemoveLast, history
  <2>2. \A f \in Files : Pending(f)' \subseteq Pending(f)
    BY <1>1, <1>3, <2>1, RemoveLastTypes DEF Pending
  <2>3. QED
    BY <1>1, <2>1, <2>2, SizesKept
<1>4. ASSUME NEW t \in Threads, Rename(t) PROVE SizesBounded'
  <2>1. file' = file /\ UNCHANGED <<size, born, sinkCalls>>
    BY <1>4 DEF Rename, history
  <2>2. \/ step[t] = 0 /\ dir'[0] = 0
        \/ step[t] # 0 /\ dir'[0] = dir[0] /\ at'[t] = "rename"
    <3>1. step[t] \in 0 .. Keep - 1
      BY <1>1 DEF Types
    <3>2. CASE step[t] = 0
      BY <1>1, <1>4, <3>2, RenameTypes
    <3>3. CASE step[t] # 0
      <4>1. step[t] > 0 /\ 0 \notin {step[t], step[t] + 1}
        BY <3>1, <3>3, KeepAssumption
      <4>2. QED
        BY <1>1, <1>2, <1>4, <3>3, <4>1, RenameTypes
    <3>4. QED
      BY <3>2, <3>3
  <2>3. \A f \in Files : f # 0
    BY DEF Files
  <2>4. \A u \in Threads : u # t => at'[u] = at[u]
    BY <1>1, <1>4, RenameTypes
  <2>5. at'[t] # "append"
    BY <1>1, <1>4, RenameTypes
  <2>6. \A f \in Files : Pending(f)' \subseteq Pending(f)
    BY <2>1, <2>2, <2>3, <2>4, <2>5 DEF Pending
  <2>7. QED
    BY <1>1, <2>1, <2>6, SizesKept
<1>5. ASSUME NEW t \in Threads, OpenFails(t) PROVE SizesBounded'
  <2>1. \A f \in Files : Pending(f)' \subseteq Pending(f)
    BY <1>1, <1>5, OpenFailsMoves DEF Pending
  <2>2. QED
    BY <1>1, <1>5, <2>1, OpenFailsMoves, SizesKept
<1>6. CASE Crash
  <2>1. \A f \in Files : Pending(f)' \subseteq Pending(f)
    BY <1>6 DEF Crash, Pending
  <2>2. QED
    BY <1>1, <1>6, <2>1, SizesKept DEF Crash, history
<1>7. CASE UNCHANGED vars
  BY <1>1, <1>7 DEF vars, history, SizesBounded, Pending, Bound
<1>8. QED
  BY <1>1, <1>3, <1>4, <1>5, <1>6, <1>7, OpenSizes, AppendSizes, SinkWriteSizes, StatSizes
     DEF Next, Quiet
-----------------------------------------------------------------------------
(* One worker at a time. *)

LEMMA SerialKept ==
    ASSUME Types, Serial, UNCHANGED <<dir, dropped>>, ~overlapped' => ~overlapped,
           \A u \in Loggers : at'[u] # "idle" => at[u] # "idle",
           \A u \in Loggers : at'[u] = "rename" => at[u] = "rename" /\ step'[u] = step[u]
    PROVE  Serial'
<1> SUFFICES ASSUME ~overlapped', Serial PROVE Serial'
  BY DEF Serial
<1>1. ~overlapped
  OBVIOUS
<1>2. OnlyOldestDropped'
  BY <1>1 DEF Serial, OnlyOldestDropped, Kept
<1>3. QED
  BY <1>1, <1>2 DEF Serial

LEMMA RemoveLastSerial ==
    ASSUME Types, Types', WhoAppends, Serial, NEW t \in Threads, RemoveLast(t)
    PROVE  Serial'
<1>1. /\ at[t] = "remove" /\ at'[t] = "rename" /\ step'[t] = Keep - 1
      /\ \A u \in Threads : u # t => at'[u] = at[u] /\ step'[u] = step[u]
      /\ dir'[Keep] = 0 /\ \A g \in Generations : g # Keep => dir'[g] = dir[g]
      /\ dropped' = dropped \cup ({dir[Keep]} \ {0}) /\ overlapped' = overlapped
  BY RemoveLastTypes DEF RemoveLast, history
<1>2. t \in Loggers
  BY <1>1 DEF WhoAppends, Threads
<1>3. Keep \in Generations /\ \A g \in Generations : g \in Nat /\ (g # Keep => g < Keep)
  BY KeepAssumption DEF Generations
<1> SUFFICES ASSUME ~overlapped PROVE Serial'
  BY <1>1 DEF Serial
<1>4. /\ \A u, v \in Loggers : at[u] # "idle" /\ at[v] # "idle" => u = v
      /\ \A g, h \in Generations : g < h /\ dir[g] # 0 /\ dir[h] # 0 => dir[h] < dir[g]
      /\ OnlyOldestDropped
  BY DEF Serial
<1>5. \A u, v \in Loggers : at'[u] # "idle" /\ at'[v] # "idle" => u = v
  BY <1>1, <1>2, <1>4 DEF Threads
<1>6. \A g, h \in Generations : g < h /\ dir'[g] # 0 /\ dir'[h] # 0 => dir'[h] < dir'[g]
  BY <1>1, <1>4
<1>7. ASSUME NEW d \in dropped', NEW f \in Kept' PROVE d < f
  <2>1. PICK g \in Generations : g # Keep /\ f = dir[g] /\ f # 0
    BY <1>1, <1>7 DEF Kept
  <2>2. CASE d \in dropped
    BY <1>4, <2>1, <2>2 DEF OnlyOldestDropped, Kept
  <2>3. CASE d = dir[Keep] /\ d # 0
    BY <1>3, <1>4, <2>1, <2>3
  <2>4. QED
    BY <1>1, <2>2, <2>3
<1>8. OnlyOldestDropped'
  BY <1>7 DEF OnlyOldestDropped
<1>9. \A u \in Loggers : at'[u] = "rename" => dir'[step'[u] + 1] = 0
  <2> SUFFICES ASSUME NEW u \in Loggers, at'[u] = "rename" PROVE dir'[step'[u] + 1] = 0
    OBVIOUS
  <2>1. u = t
    BY <1>1, <1>2, <1>5
  <2>2. step'[u] + 1 = Keep
    BY <1>1, <2>1, KeepAssumption
  <2>3. QED
    BY <1>1, <2>2
<1>10. QED
  BY <1>5, <1>6, <1>8, <1>9 DEF Serial

LEMMA RenameSerial ==
    ASSUME Types, Types', WhoAppends, Serial, NEW t \in Threads, Rename(t)
    PROVE  Serial'
<1> PICK s \in 0 .. Keep - 1 : s = step[t]
  BY DEF Types
<1>1. /\ at[t] = "rename"
      /\ \A u \in Threads : u # t => at'[u] = at[u] /\ step'[u] = step[u]
      /\ IF s > 0 THEN at'[t] = "rename" /\ step'[t] = s - 1 ELSE at'[t] = "open"
      /\ dir'[s] = 0 /\ dir'[s + 1] = IF dir[s] = 0 THEN dir[s + 1] ELSE dir[s]
      /\ \A g \in Generations : g \notin {s, s + 1} => dir'[g] = dir[g]
  BY RenameTypes
<1>2. /\ dropped' = IF dir[s] = 0 THEN dropped ELSE dropped \cup ({dir[s + 1]} \ {0})
      /\ overlapped' = overlapped
  BY DEF Rename, Renamed, history
<1>3. t \in Loggers
  BY <1>1 DEF WhoAppends, Threads
<1>4. s \in Generations /\ s + 1 \in Generations /\ s \in Nat /\ Generations \subseteq Nat
  BY KeepAssumption DEF Generations
<1> SUFFICES ASSUME ~overlapped PROVE Serial'
  BY <1>2 DEF Serial
<1>5. /\ \A u, v \in Loggers : at[u] # "idle" /\ at[v] # "idle" => u = v
      /\ \A g, h \in Generations : g < h /\ dir[g] # 0 /\ dir[h] # 0 => dir[h] < dir[g]
      /\ OnlyOldestDropped /\ dir[s + 1] = 0
  BY <1>1, <1>3 DEF Serial
<1>6. \A u, v \in Loggers : at'[u] # "idle" /\ at'[v] # "idle" => u = v
  BY <1>1, <1>3, <1>5 DEF Threads
\* The file of a generation was there before, no younger than its neighbours allow.
<1>7. ASSUME NEW g \in Generations, dir'[g] # 0
      PROVE  \/ g \notin {s, s + 1} /\ dir'[g] = dir[g]
             \/ g = s + 1 /\ dir'[g] = dir[s] /\ dir[s] # 0
  BY <1>1, <1>4, <1>5, <1>7
<1>8. \A g, h \in Generations : g < h /\ dir'[g] # 0 /\ dir'[h] # 0 => dir'[h] < dir'[g]
  <2> SUFFICES ASSUME NEW g \in Generations, NEW h \in Generations,
                      g < h, dir'[g] # 0, dir'[h] # 0
               PROVE  dir'[h] < dir'[g]
    OBVIOUS
  <2>1. CASE g = s + 1
    <3>1. h \notin {s, s + 1} /\ s < h
      BY <1>4, <2>1
    <3>2. QED
      BY <1>4, <1>5, <1>7, <2>1, <3>1
  <2>2. CASE h = s + 1 /\ g # s + 1
    <3>1. g \notin {s, s + 1} /\ g < s
      BY <1>4, <1>7, <2>2
    <3>2. QED
      BY <1>4, <1>5, <1>7, <2>2, <3>1
  <2>3. CASE g # s + 1 /\ h # s + 1
    BY <1>5, <1>7, <2>3
  <2>4. QED
    BY <2>1, <2>2, <2>3
<1>9. OnlyOldestDropped'
  <2>1. dropped' = dropped
    BY <1>2, <1>5
  <2>2. \A f \in Kept' : f \in Kept
    BY <1>4, <1>7 DEF Kept
  <2>3. QED
    BY <1>5, <2>1, <2>2 DEF OnlyOldestDropped
<1>10. \A u \in Loggers : at'[u] = "rename" => dir'[step'[u] + 1] = 0
  <2> SUFFICES ASSUME NEW u \in Loggers, at'[u] = "rename" PROVE dir'[step'[u] + 1] = 0
    OBVIOUS
  <2>1. u = t
    BY <1>1, <1>3, <1>6
  <2>2. step'[u] + 1 = s
    BY <1>1, <1>4, <2>1
  <2>3. QED
    BY <1>1, <2>2
<1>11. QED
  BY <1>6, <1>8, <1>9, <1>10 DEF Serial

LEMMA OpenSerial ==
    ASSUME Types, Types', Serial, NEW t \in Threads, Open(t)
    PROVE  Serial'
<1>1. /\ at[t] = "open" /\ at'[t] = "append"
      /\ \A u \in Threads : u # t => at'[u] = at[u]
      /\ UNCHANGED <<dropped, step, overlapped>>
      /\ \/ /\ dir[0] = 0 /\ born' = born + 1 /\ dir'[0] = born + 1
            /\ \A g \in Generations : g # 0 => dir'[g] = dir[g]
         \/ dir[0] # 0 /\ born' = born /\ dir' = dir
  BY OpenTypes DEF Open, history
<1>2. \A u \in Loggers : /\ at'[u] # "idle" => at[u] # "idle"
                         /\ at'[u] = "rename" => at[u] = "rename"
  BY <1>1 DEF Threads
<1>3. CASE dir' = dir
  BY <1>1, <1>2, <1>3, SerialKept
<1>4. CASE /\ dir'[0] = born + 1
           /\ \A g \in Generations : g # 0 => dir'[g] = dir[g]
  <2> SUFFICES ASSUME ~overlapped PROVE Serial'
    BY <1>1 DEF Serial
  <2>1. /\ \A u, v \in Loggers : at[u] # "idle" /\ at[v] # "idle" => u = v
        /\ \A g, h \in Generations : g < h /\ dir[g] # 0 /\ dir[h] # 0 => dir[h] < dir[g]
        /\ OnlyOldestDropped
        /\ \A u \in Loggers : at[u] = "rename" => dir[step[u] + 1] = 0
    BY DEF Serial
  <2>2. /\ \A g \in Generations : g \in Nat /\ dir[g] \in 0 .. born
        /\ born \in Nat /\ dropped \subseteq 1 .. born
    BY DEF Types, Generations
  <2>3. \A g, h \in Generations : g < h /\ dir'[g] # 0 /\ dir'[h] # 0 => dir'[h] < dir'[g]
    <3> SUFFICES ASSUME NEW g \in Generations, NEW h \in Generations,
                        g < h, dir'[g] # 0, dir'[h] # 0
                 PROVE  dir'[h] < dir'[g]
      OBVIOUS
    <3>1. h # 0 /\ dir'[h] = dir[h]
      BY <1>4, <2>2
    <3>2. CASE g = 0
      BY <1>4, <2>2, <3>1, <3>2
    <3>3. CASE g # 0
      BY <1>4, <2>1, <3>1, <3>3
    <3>4. QED
      BY <3>2, <3>3
  <2>4. ASSUME NEW d \in dropped', NEW f \in Kept' PROVE d < f
    <3>1. PICK g \in Generations : f = dir'[g] /\ f # 0
      BY <2>4 DEF Kept
    <3>2. d \in dropped
      BY <1>1
    <3>3. CASE g = 0
      BY <1>4, <2>2, <3>1, <3>2, <3>3
    <3>4. CASE g # 0
      BY <1>4, <2>1, <3>1, <3>2, <3>4 DEF OnlyOldestDropped, Kept
    <3>5. QED
      BY <3>3, <3>4
  <2>5. OnlyOldestDropped'
    BY <2>4 DEF OnlyOldestDropped
  <2>6. \A u \in Loggers : at'[u] = "rename" => dir'[step'[u] + 1] = 0
    <3> SUFFICES ASSUME NEW u \in Loggers, at'[u] = "rename" PROVE dir'[step'[u] + 1] = 0
      OBVIOUS
    <3>1. dir[step[u] + 1] = 0 /\ step'[u] = step[u]
      BY <1>1, <1>2, <2>1
    <3>2. step[u] \in 0 .. Keep - 1
      BY DEF Types, Threads
    <3>3. step[u] + 1 \in Generations /\ step[u] + 1 # 0
      BY <3>2, KeepAssumption DEF Generations
    <3>4. QED
      BY <1>4, <3>1, <3>3
  <2>7. \A u, v \in Loggers : at'[u] # "idle" /\ at'[v] # "idle" => u = v
    BY <1>2, <2>1
  <2>8. QED
    BY <2>3, <2>5, <2>6, <2>7 DEF Serial
<1>5. QED
  BY <1>1, <1>3, <1>4

LEMMA StatSerial ==
    ASSUME Types, Types', Serial, NEW t \in Threads, Stat(t)
    PROVE  Serial'
<1>1. /\ t \in Loggers /\ at'[t] \in {"remove", "open"}
      /\ \A u \in Threads : u # t => at'[u] = at[u]
      /\ UNCHANGED <<dir, dropped, step>>
      /\ overlapped' = (overlapped \/ \E u \in Loggers : at[u] # "idle")
  BY StatTypes DEF Stat
<1> SUFFICES ASSUME ~overlapped, \A u \in Loggers : at[u] = "idle" PROVE Serial'
  BY <1>1 DEF Serial
<1>2. \A u \in Loggers : u # t => at'[u] = "idle"
  BY <1>1 DEF Threads
<1>3. OnlyOldestDropped'
  BY <1>1 DEF Serial, OnlyOldestDropped, Kept
<1>4. QED
  BY <1>1, <1>2, <1>3 DEF Serial

LEMMA NextSerial == IInv /\ [Next]_vars => Serial'
<1> SUFFICES ASSUME IInv, [Next]_vars PROVE Serial'
  OBVIOUS
<1>1. Types /\ WhoAppends /\ Serial /\ Types'
  BY NextTypes DEF IInv
<1>2. ASSUME NEW t \in Threads, OpenFails(t) PROVE Serial'
  <2>1. \A u \in Loggers : /\ at'[u] # "idle" => at[u] # "idle"
                           /\ at'[u] = "rename" => at[u] = "rename"
    BY <1>1, <1>2, OpenFailsMoves DEF Threads
  <2>2. UNCHANGED <<dir, dropped, step, overlapped>>
    BY <1>2 DEF OpenFails, history
  <2>3. QED
    BY <1>1, <2>1, <2>2, SerialKept
<1>3. ASSUME NEW t \in Threads, Append(t) PROVE Serial'
  <2>1. \A u \in Loggers : /\ at'[u] # "idle" => at[u] # "idle"
                           /\ at'[u] = "rename" => at[u] = "rename"
    BY <1>1, <1>3, AppendTypes DEF Threads
  <2>2. UNCHANGED <<dir, dropped, step, overlapped>>
    BY <1>3 DEF Append, history
  <2>3. QED
    BY <1>1, <2>1, <2>2, SerialKept
<1>4. ASSUME NEW t \in Threads, SinkWrite(t) PROVE Serial'
  <2>1. t \notin Loggers /\ \A u \in Threads : u # t => at'[u] = at[u]
    BY <1>1, <1>4, SinkWriteTypes, WritersAssumption
  <2>2. \A u \in Loggers : /\ at'[u] # "idle" => at[u] # "idle"
                           /\ at'[u] = "rename" => at[u] = "rename"
    BY <2>1 DEF Threads
  <2>3. UNCHANGED <<dir, dropped, step, overlapped>>
    BY <1>4 DEF SinkWrite
  <2>4. QED
    BY <1>1, <2>2, <2>3, SerialKept
<1>5. CASE Crash
  <2>1. \A u \in Loggers : at'[u] = "idle"
    BY <1>5 DEF Crash, Threads
  <2>2. UNCHANGED <<dir, dropped, overlapped>>
    BY <1>5 DEF Crash, history
  <2>3. QED
    BY <1>1, <2>1, <2>2, SerialKept
<1>6. CASE UNCHANGED vars
  BY <1>1, <1>6, SerialKept DEF vars, history
<1>7. QED
  BY <1>1, <1>2, <1>3, <1>4, <1>5, <1>6, StatSerial, RemoveLastSerial, RenameSerial, OpenSerial
     DEF Next, Quiet
-----------------------------------------------------------------------------
(* One worker at a time, no sink and no crash. *)

Calm == ~overlapped /\ crashes = 0 /\ sinkCalls = 0

\* Nobody but one worker is in a call.
LEMMA CalmIsAlone ==
    ASSUME Types, SinksCounted, Serial, Calm, NEW t \in Threads, at[t] # "idle"
    PROVE  t \in Loggers /\ \A u \in Threads : u # t => at[u] = "idle"
<1>1. SinksBusy = {}
  <2>1. SinksBusy \in SUBSET Threads
    BY DEF SinksBusy, Threads
  <2>2. IsFiniteSet(SinksBusy) /\ Cardinality(SinksBusy) \in Nat
    BY <2>1, Finite
  <2>3. Cardinality(SinksBusy) = 0
    BY <2>2 DEF SinksCounted, Calm
  <2>4. QED
    BY <2>2, <2>3, FS_EmptySet
<1>2. \A u \in SinkWriters : at[u] = "idle"
  BY <1>1 DEF SinksBusy
<1>3. \A u, v \in Loggers : at[u] # "idle" /\ at[v] # "idle" => u = v
  BY DEF Serial, Calm
<1>4. QED
  BY <1>2, <1>3 DEF Threads

LEMMA UndisturbedKept ==
    ASSUME Undisturbed, UNCHANGED <<dir, born, step>>, Calm' => Calm,
           \A u \in Loggers : \/ at'[u] = at[u]
                              \/ /\ at[u] \notin {"remove", "rename"}
                                 /\ at'[u] \notin {"remove", "rename"}
    PROVE  Undisturbed'
<1> SUFFICES ASSUME Calm, Calm' PROVE Undisturbed'
  BY DEF Undisturbed, Calm
<1>1. /\ (\A u \in Loggers : at[u] \notin {"remove", "rename"}) => Hole(0) \/ Hole(Keep + 1)
      /\ \A u \in Loggers : /\ at[u] = "remove" => Hole(Keep + 1)
                            /\ at[u] = "rename" => Hole(step[u] + 1)
  BY DEF Undisturbed, Calm
<1>2. \A h : Hole(h) => Hole(h)'
  BY DEF Hole, Nth
<1>3. (\A u \in Loggers : at'[u] \notin {"remove", "rename"}) => Hole(0)' \/ Hole(Keep + 1)'
  BY <1>1, <1>2
<1>4. ASSUME NEW u \in Loggers
      PROVE  /\ at'[u] = "remove" => Hole(Keep + 1)'
             /\ at'[u] = "rename" => Hole(step[u] + 1)'
  <2>1. CASE at'[u] = at[u]
    <3>1. at[u] = "rename" => Hole(step[u] + 1)
      BY <1>1
    <3>2. PICK h : h = step[u] + 1
      OBVIOUS
    <3>3. h = step'[u] + 1
      BY <3>2
    <3>4. QED
      BY <1>1, <1>2, <2>1, <3>1 DEF Hole, Nth
  <2>2. CASE at'[u] \notin {"remove", "rename"}
    BY <2>2
  <2>3. QED
    BY <2>1, <2>2
<1>5. QED
  BY <1>3, <1>4 DEF Undisturbed

\* What is left of a step of the only worker in a call.
LEMMA OnlyMe ==
    ASSUME NEW t \in Loggers, \A u \in Loggers : u # t => at'[u] = "idle",
           Calm' => /\ at'[t] \notin {"remove", "rename"} => Hole(0)' \/ Hole(Keep + 1)'
                    /\ at'[t] = "remove" => Hole(Keep + 1)'
                    /\ at'[t] = "rename" => Hole(step[t] + 1)'
    PROVE  Undisturbed'
<1> SUFFICES ASSUME Calm' PROVE Undisturbed'
  BY DEF Undisturbed, Calm
<1>1. (\A u \in Loggers : at'[u] \notin {"remove", "rename"}) => Hole(0)' \/ Hole(Keep + 1)'
  OBVIOUS
<1>2. \A u \in Loggers : /\ at'[u] = "remove" => Hole(Keep + 1)'
                         /\ at'[u] = "rename" => Hole(step[u] + 1)'
  OBVIOUS
<1>3. QED
  BY <1>1, <1>2 DEF Undisturbed

LEMMA StatUndisturbed ==
    ASSUME Types, Types', Undisturbed, NEW t \in Threads, Stat(t)
    PROVE  Undisturbed'
<1>1. /\ t \in Loggers
      /\ at'[t] = IF dir[0] # 0 /\ TooBig(size[dir[0]]) THEN "remove" ELSE "open"
      /\ \A u \in Threads : u # t => at'[u] = at[u]
      /\ UNCHANGED <<dir, born, sinkCalls, crashes>>
      /\ overlapped' = (overlapped \/ \E u \in Loggers : at[u] # "idle")
  BY StatTypes DEF Stat
<1> SUFFICES ASSUME Calm' PROVE Undisturbed'
  BY DEF Undisturbed, Calm
<1>2. Calm /\ \A u \in Loggers : at[u] = "idle"
  BY <1>1 DEF Calm
<1>3. Hole(0) \/ Hole(Keep + 1)
  BY <1>2 DEF Undisturbed, Calm
<1>4. Hole(0) => dir[0] = 0
  BY KeepAssumption DEF Hole, Generations
<1>5. (Hole(0) => Hole(0)') /\ (Hole(Keep + 1) => Hole(Keep + 1)')
  BY <1>1 DEF Hole, Nth
<1>6. at'[t] = "remove" => Hole(Keep + 1)'
  BY <1>1, <1>3, <1>4, <1>5
<1>7. QED
  BY <1>1, <1>2, <1>3, <1>5, <1>6, OnlyMe DEF Threads

LEMMA RemoveLastUndisturbed ==
    ASSUME Types, Types', SinksCounted, Serial, Undisturbed, NEW t \in Threads, RemoveLast(t)
    PROVE  Undisturbed'
<1>1. /\ at[t] = "remove" /\ at'[t] = "rename" /\ step'[t] = Keep - 1
      /\ \A u \in Threads : u # t => at'[u] = at[u]
      /\ dir'[Keep] = 0 /\ \A g \in Generations : g # Keep => dir'[g] = dir[g]
      /\ UNCHANGED <<born, sinkCalls, crashes, overlapped>>
  BY RemoveLastTypes DEF RemoveLast, history
<1> SUFFICES ASSUME Calm PROVE Undisturbed'
  BY <1>1 DEF Undisturbed, Calm
<1>2. t \in Loggers /\ \A u \in Threads : u # t => at[u] = "idle"
  BY <1>1, CalmIsAlone
<1>3. Hole(Keep + 1)
  BY <1>1, <1>2 DEF Undisturbed, Calm
<1>4. \A g \in Generations : dir'[g] = IF g < Keep THEN Nth(g) ELSE 0
  BY <1>1, <1>3, KeepAssumption DEF Hole, Generations
<1>5. Hole(step[t] + 1)'
  <2>1. step'[t] + 1 = Keep
    BY <1>1, KeepAssumption
  <2>2. \A g \in Generations : Nth(g)' = Nth(g)
    BY <1>1 DEF Nth
  <2>3. \A g \in Generations : g \in Nat /\ g <= Keep
    BY KeepAssumption DEF Generations
  <2>4. QED
    BY <1>4, <2>1, <2>2, <2>3, KeepAssumption DEF Hole
<1>6. QED
  BY <1>1, <1>2, <1>5, OnlyMe DEF Threads

LEMMA RenameUndisturbed ==
    ASSUME Types, Types', SinksCounted, Serial, Undisturbed, NEW t \in Threads, Rename(t)
    PROVE  Undisturbed'
<1> PICK s \in 0 .. Keep - 1 : s = step[t]
  BY DEF Types
<1>1. /\ at[t] = "rename"
      /\ \A u \in Threads : u # t => at'[u] = at[u]
      /\ IF s > 0 THEN at'[t] = "rename" /\ step'[t] = s - 1 ELSE at'[t] = "open"
      /\ dir'[s] = 0 /\ dir'[s + 1] = IF dir[s] = 0 THEN dir[s + 1] ELSE dir[s]
      /\ \A g \in Generations : g \notin {s, s + 1} => dir'[g] = dir[g]
  BY RenameTypes
<1>2. UNCHANGED <<born, sinkCalls, crashes, overlapped>>
  BY DEF Rename, history
<1> SUFFICES ASSUME Calm PROVE Undisturbed'
  BY <1>2 DEF Undisturbed, Calm
<1>3. t \in Loggers /\ \A u \in Threads : u # t => at[u] = "idle"
  BY <1>1, CalmIsAlone
<1>4. Hole(s + 1)
  BY <1>1, <1>3 DEF Undisturbed, Calm
<1>5. /\ s \in Nat /\ s \in Generations /\ s + 1 \in Generations
      /\ \A g \in Generations : g \in Nat
  BY KeepAssumption DEF Generations
<1>6. dir[s + 1] = 0 /\ dir[s] = Nth(s)
  BY <1>4, <1>5 DEF Hole
<1>7. \A g \in Generations : dir'[g] = IF g < s THEN Nth(g) ELSE IF g = s THEN 0 ELSE Nth(g - 1)
  <2> SUFFICES ASSUME NEW g \in Generations
               PROVE  dir'[g] = IF g < s THEN Nth(g) ELSE IF g = s THEN 0 ELSE Nth(g - 1)
    OBVIOUS
  <2>1. CASE g = s
    BY <1>1, <1>5, <2>1
  <2>2. CASE g = s + 1
    <3>1. g - 1 = s /\ ~(g < s) /\ g # s
      BY <1>5, <2>2
    <3>2. QED
      BY <1>1, <1>6, <2>2, <3>1
  <2>3. CASE g \notin {s, s + 1}
    <3>1. dir'[g] = dir[g]
      BY <1>1, <2>3
    <3>2. dir[g] = IF g < s + 1 THEN Nth(g) ELSE Nth(g - 1)
      BY <1>4, <2>3 DEF Hole
    <3>3. (g < s + 1) = (g < s)
      BY <1>5, <2>3
    <3>4. QED
      BY <2>3, <3>1, <3>2, <3>3
  <2>4. QED
    BY <2>1, <2>2, <2>3
<1>8. \A g : Nth(g)' = Nth(g)
  BY <1>2 DEF Nth
<1>9. CASE s > 0
  <2>1. step'[t] + 1 = s
    BY <1>1, <1>5, <1>9
  <2>2. Hole(step[t] + 1)'
    BY <1>7, <1>8, <2>1 DEF Hole
  <2>3. QED
    BY <1>1, <1>3, <1>9, <2>2, OnlyMe DEF Threads
<1>10. CASE s = 0
  <2>1. Hole(0)'
    BY <1>7, <1>8, <1>10 DEF Hole
  <2>2. QED
    BY <1>1, <1>3, <1>10, <2>1, OnlyMe DEF Threads
<1>11. QED
  BY <1>5, <1>9, <1>10

LEMMA OpenUndisturbed ==
    ASSUME Types, Types', SinksCounted, Serial, Undisturbed, NEW t \in Threads, Open(t)
    PROVE  Undisturbed'
<1>1. /\ at[t] = "open" /\ at'[t] = "append"
      /\ \A u \in Threads : u # t => at'[u] = at[u]
      /\ UNCHANGED <<step, sinkCalls, crashes, overlapped>>
      /\ \/ /\ dir[0] = 0 /\ born' = born + 1 /\ dir'[0] = born + 1
            /\ \A g \in Generations : g # 0 => dir'[g] = dir[g]
         \/ dir[0] # 0 /\ born' = born /\ dir' = dir
  BY OpenTypes DEF Open, history
<1> SUFFICES ASSUME Calm PROVE Undisturbed'
  BY <1>1 DEF Undisturbed, Calm
<1>2. t \in Loggers /\ \A u \in Threads : u # t => at[u] = "idle"
  BY <1>1, CalmIsAlone
<1>3. Hole(0) \/ Hole(Keep + 1)
  BY <1>1, <1>2 DEF Undisturbed, Calm, Threads
<1>4. CASE born' = born /\ dir' = dir
  <2>1. Hole(0)' \/ Hole(Keep + 1)'
    BY <1>3, <1>4 DEF Hole, Nth
  <2>2. QED
    BY <1>1, <1>2, <2>1, OnlyMe DEF Threads
<1>5. CASE /\ dir[0] = 0 /\ born' = born + 1 /\ dir'[0] = born + 1
           /\ \A g \in Generations : g # 0 => dir'[g] = dir[g]
  <2>1. born \in Nat /\ 0 \in Generations /\ \A g \in Generations : g \in Nat /\ g <= Keep
    BY KeepAssumption DEF Types, Generations
  <2>2. ASSUME NEW g \in Generations, g # 0 PROVE dir[g] = Nth(g - 1)
    <3>1. CASE Hole(0)
      BY <2>1, <2>2, <3>1 DEF Hole
    <3>2. CASE Hole(Keep + 1)
      <4>1. dir[0] = Nth(0) /\ dir[g] = Nth(g)
        BY <2>1, <3>2, KeepAssumption DEF Hole
      <4>2. born = 0
        BY <1>5, <2>1, <4>1 DEF Nth
      <4>3. QED
        BY <2>1, <2>2, <4>1, <4>2 DEF Nth
    <3>3. QED
      BY <1>3, <3>1, <3>2
  <2>3. \A g \in Generations : dir'[g] = Nth(g)'
    <3> SUFFICES ASSUME NEW g \in Generations PROVE dir'[g] = Nth(g)'
      OBVIOUS
    <3>1. CASE g = 0
      BY <1>5, <2>1, <3>1 DEF Nth
    <3>2. CASE g # 0
      BY <1>5, <2>1, <2>2, <3>2 DEF Nth
    <3>3. QED
      BY <3>1, <3>2
  <2>4. Hole(Keep + 1)'
    BY <2>1, <2>3, KeepAssumption DEF Hole
  <2>5. QED
    BY <1>1, <1>2, <2>4, OnlyMe DEF Threads
<1>6. QED
  BY <1>1, <1>4, <1>5

LEMMA NextUndisturbed == IInv /\ [Next]_vars => Undisturbed'
<1> SUFFICES ASSUME IInv, [Next]_vars PROVE Undisturbed'
  OBVIOUS
<1>1. Types /\ SinksCounted /\ Serial /\ Undisturbed /\ Types'
  BY NextTypes DEF IInv
<1>2. ASSUME NEW t \in Threads, OpenFails(t) PROVE Undisturbed'
  <2>1. \A u \in Loggers : at'[u] = at[u] \/ (at[u] = "open" /\ at'[u] = "idle")
    BY <1>1, <1>2, OpenFailsMoves DEF Threads
  <2>2. UNCHANGED <<dir, born, step>> /\ (Calm' => Calm)
    BY <1>2 DEF OpenFails, history, Calm
  <2>3. QED
    BY <1>1, <2>1, <2>2, UndisturbedKept
<1>3. ASSUME NEW t \in Threads, Append(t) PROVE Undisturbed'
  <2>1. \A u \in Loggers : at'[u] = at[u] \/ (at[u] = "append" /\ at'[u] = "idle")
    BY <1>1, <1>3, AppendTypes DEF Threads
  <2>2. UNCHANGED <<dir, born, step>> /\ (Calm' => Calm)
    BY <1>3 DEF Append, history, Calm
  <2>3. QED
    BY <1>1, <2>1, <2>2, UndisturbedKept
<1>4. ASSUME NEW t \in Threads, SinkWrite(t) PROVE Undisturbed'
  <2>1. sinkCalls' # 0
    BY <1>1, <1>4 DEF SinkWrite, Types
  <2>2. QED
    BY <2>1 DEF Undisturbed
<1>5. CASE Crash
  <2>1. crashes' # 0
    BY <1>1, <1>5 DEF Crash, Types
  <2>2. QED
    BY <2>1 DEF Undisturbed
<1>6. CASE UNCHANGED vars
  BY <1>1, <1>6, UndisturbedKept DEF vars, history, Calm
<1>7. QED
  BY <1>1, <1>2, <1>3, <1>4, <1>5, <1>6, StatUndisturbed, RemoveLastUndisturbed,
     RenameUndisturbed, OpenUndisturbed DEF Next, Quiet
-----------------------------------------------------------------------------
LEMMA NextIInv == IInv /\ [Next]_vars => IInv'
BY NextTypes, NextWhoAppends, NextFilesSuffice, NextSinksCounted, NextSizesBounded, NextSerial,
   NextUndisturbed DEF IInv

\* The inductive invariant holds in every state of the access log on disk.
THEOREM RotationInvariant == Spec => []IInv
BY InitIInv, NextIInv, PTL DEF Spec

\* request_logger.cpp:19-20: a log outgrows the threshold by less than one
\* record of each worker and one of each call of the file sink.
THEOREM RotationLogStaysBounded == Spec => []LogStaysBounded
<1>1. IInv => LogStaysBounded
  <2> SUFFICES ASSUME IInv, NEW f \in Files
               PROVE  size[f] < MaxSize + Cardinality(Loggers) + sinkCalls
    BY DEF LogStaysBounded
  <2>1. Types /\ size[f] + Cardinality(Pending(f)) <= Bound
    BY DEF IInv, SizesBounded
  <2>2. /\ size[f] \in Nat /\ Cardinality(Pending(f)) \in Nat
        /\ Cardinality(Loggers) \in Nat /\ sinkCalls \in Nat
    BY <2>1, Numbers
  <2>3. QED
    BY <2>1, <2>2, BoundsAssumption DEF Bound
<1>2. QED
  BY <1>1, RotationInvariant, PTL

\* The bound is about every file there is: a call creates at most one.
THEOREM RotationEveryFileCounted == Spec => [](1 .. born \subseteq Files)
<1>1. IInv => 1 .. born \subseteq Files
  <2> SUFFICES ASSUME IInv PROVE 1 .. born \subseteq Files
    OBVIOUS
  <2>1. born \in Nat /\ calls \in Nat /\ calls <= MaxCalls
    BY DEF IInv, Types
  <2>2. Opening \in SUBSET Threads
    BY DEF Opening
  <2>3. Cardinality(Opening) \in Nat /\ born + Cardinality(Opening) <= calls
    BY <2>2, Finite DEF IInv, FilesSuffice
  <2>4. born <= MaxCalls
    BY <2>1, <2>3, BoundsAssumption
  <2>5. QED
    BY <2>1, <2>4, BoundsAssumption DEF Files
<1>2. QED
  BY <1>1, RotationInvariant, PTL

\* request_logger.cpp:33: the rotation of one worker at a time drops nothing
\* but the oldest, whatever the file sink does and wherever a crash stops it.
THEOREM RotationDropsOldest == Spec => []SerialRotationDropsOldest
<1>1. IInv => SerialRotationDropsOldest
  BY DEF IInv, Serial, SerialRotationDropsOldest
<1>2. QED
  BY <1>1, RotationInvariant, PTL

\* kRotationKeep: the newest files are all there, even halfway a rotation.
THEOREM RotationRetainsNewest == Spec => []NewestRetained
<1>1. IInv => NewestRetained
  <2> SUFFICES ASSUME IInv, Calm, NEW f \in 1 .. born, f > born - Keep
               PROVE  f \in Kept
    BY DEF NewestRetained, Calm
  <2>1. \E h \in Nat : Hole(h)
    <3>1. CASE \A t \in Loggers : at[t] \notin {"remove", "rename"}
      BY <3>1, KeepAssumption DEF IInv, Undisturbed, Calm
    <3>2. CASE \E t \in Loggers : at[t] \in {"remove", "rename"}
      <4>1. PICK t \in Loggers : at[t] \in {"remove", "rename"}
        BY <3>2
      <4>2. Hole(Keep + 1) \/ Hole(step[t] + 1)
        BY <4>1 DEF IInv, Undisturbed, Calm
      <4>3. step[t] + 1 \in Nat /\ Keep + 1 \in Nat
        BY KeepAssumption DEF IInv, Types, Threads
      <4>4. QED
        BY <4>2, <4>3
    <3>3. QED
      BY <3>1, <3>2
  <2>2. PICK h \in Nat : Hole(h)
    BY <2>1
  <2>3. PICK g \in Nat : g = born - f /\ g < Keep /\ f = born - g /\ born > g
    BY KeepAssumption DEF IInv, Types
  <2>4. g \in Generations /\ g + 1 \in Generations /\ Nth(g) = f /\ f # 0
    BY <2>3, KeepAssumption DEF Generations, Nth
  <2>5. dir[g] = f \/ dir[g + 1] = f
    <3>1. CASE g < h
      BY <2>2, <2>4, <3>1 DEF Hole
    <3>2. CASE ~(g < h)
      <4>1. ~(g + 1 < h) /\ g + 1 # h /\ (g + 1) - 1 = g
        BY <3>2
      <4>2. QED
        BY <2>2, <2>4, <4>1 DEF Hole
    <3>3. QED
      BY <3>1, <3>2
  <2>6. QED
    BY <2>4, <2>5 DEF Kept
<1>2. QED
  BY <1>1, RotationInvariant, PTL
=============================================================================
