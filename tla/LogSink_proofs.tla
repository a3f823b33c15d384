---------------------------- MODULE LogSink_proofs ----------------------------
(***************************************************************************)
(* The safety of LogSink for any number of records, installers, addresses  *)
(* and sinks: what becomes of the sinks, and that the asynchronous log     *)
(* implements LogPipe.                                                     *)
(***************************************************************************)
EXTENDS LogSink, TLAPS, SequenceTheorems, FiniteSetTheorems

Places == {"idle", "read", "swap", "delete"}
Entries == [record : Records, sink : Addrs \cup {Null}, of : Nat, age : Nat]
Lines == [record : Records, of : Nat, by : Nat]

Types == /\ gSink \in Addrs \cup {Null}
         /\ heap \in [Addrs -> Nat]
         /\ born \in Nat
         /\ installer \in [Installers -> [at : Places, new : Addrs \cup {Null},
                                          old : Addrs \cup {Null}]]
         /\ overlapped \in BOOLEAN
         /\ request \in [Records -> {"start", "enqueue", "sync", "queued"}]
         /\ queue \in Seq(Entries)
         /\ due \in Seq(Entries)
         /\ written \in Seq(Lines)

\* g_sink is never reset, and what an installation publishes is an object.
NeverNull == /\ \A i \in Installers : installer[i].at # "idle" => installer[i].new # Null
             /\ \A r \in Records : request[r] = "enqueue" => gSink # Null

\* While installations do not overlap, one is under way at most, nothing was
\* deleted twice, and the objects that exist are those that it and g_sink name.
InTurn ==
    ~overlapped =>
        /\ \A i, j \in Installers : installer[i].at # "idle" /\ installer[j].at # "idle" => i = j
        /\ process # "aborted"
        /\ gSink # Null => heap[gSink] # 0
        /\ (\A i \in Installers : installer[i].at = "idle") =>
               \A a \in Addrs : heap[a] # 0 => a = gSink
        /\ \A i \in Installers :
             /\ installer[i].at \in {"read", "swap"} =>
                    /\ installer[i].new # gSink
                    /\ heap[installer[i].new] # 0
                    /\ \A a \in Addrs : heap[a] # 0 => a \in {gSink, installer[i].new}
             /\ installer[i].at = "swap" => installer[i].old = gSink
             /\ installer[i].at = "delete" =>
                    /\ installer[i].new = gSink /\ installer[i].old # gSink
                    /\ installer[i].old # Null => heap[installer[i].old] # 0
                    /\ \A a \in Addrs : heap[a] # 0 => a \in {gSink, installer[i].old}

\* What has been captured: a record that was queued, older entries first, none
\* younger than what follows it.
Captured ==
    /\ \A k \in DOMAIN due : request[due[k].record] = "queued"
    /\ \A k \in DOMAIN queue : request[queue[k].record] = "queued"
    /\ \A k \in DOMAIN written : request[written[k].record] = "queued"
    /\ \A j, k \in DOMAIN queue : j <= k => queue[k].age <= queue[j].age

\* The inductive invariant.
IInv == Types /\ NeverNull /\ InTurn /\ CapturedSinkWasAlive /\ Captured
-----------------------------------------------------------------------------
(* Picking entries out of the queue. *)

LEMMA IntervalSize ==
    ASSUME NEW a \in Int, NEW b \in Int, a <= b + 1
    PROVE  IsFiniteSet(a .. b) /\ Cardinality(a .. b) = b - a + 1
<1>1. CASE a > b
  <2>1. IsFiniteSet(a .. b) /\ Cardinality(a .. b) = 0
    BY <1>1, FS_Interval
  <2>2. QED
    BY <1>1, <2>1
<1>2. CASE ~(a > b)
  BY <1>2, FS_Interval
<1>3. QED
  BY <1>1, <1>2

\* A stretch of positions picks that stretch of the queue.
LEMMA PickedStretch ==
    ASSUME NEW S, queue \in Seq(S), NEW m \in 0 .. Len(queue), NEW n \in m .. Len(queue)
    PROVE  Picked(m + 1 .. n) = SubSeq(queue, m + 1, n)
<1> DEFINE P == m + 1 .. n
<1>1. /\ m \in Nat /\ n \in Nat /\ Len(queue) \in Nat /\ m <= n /\ n <= Len(queue)
      /\ DOMAIN queue = 1 .. Len(queue)
  OBVIOUS
<1>2. Cardinality(P) = n - m
  <2>1. m + 1 \in Int /\ n \in Int /\ m + 1 <= n + 1 /\ n - (m + 1) + 1 = n - m
    BY <1>1
  <2>2. QED
    BY ONLY <2>1, IntervalSize DEF P
<1>3. ASSUME NEW k \in P
      PROVE  Cardinality({j \in P : j <= k}) = k - m
  <2>1. {j \in P : j <= k} = m + 1 .. k
    BY <1>1
  <2>2. m + 1 \in Int /\ k \in Int /\ m + 1 <= k + 1 /\ k - (m + 1) + 1 = k - m
    BY <1>1
  <2>3. Cardinality(m + 1 .. k) = k - m
    BY ONLY <2>2, IntervalSize
  <2>4. QED
    BY <2>1, <2>3
<1>4. ASSUME NEW i \in 1 .. n - m
      PROVE  queue[CHOOSE k \in P : Cardinality({j \in P : j <= k}) = i] = queue[m + i]
  <2>1. m + i \in P
    BY <1>1
  <2>2. \A k \in P : Cardinality({j \in P : j <= k}) = i <=> k = m + i
    BY <1>1, <1>3
  <2> HIDE DEF P
  <2>3. (CHOOSE k \in P : Cardinality({j \in P : j <= k}) = i) = m + i
    BY <2>1, <2>2
  <2>4. QED
    BY <2>3
<1>5. Picked(P) = [i \in 1 .. n - m |-> queue[m + i]]
  BY <1>2, <1>4 DEF Picked
<1>6. SubSeq(queue, m + 1, n) = [i \in 1 .. n - m |-> queue[m + i]]
  <2>1. \A i \in m + 1 .. n : queue[i] \in S
    BY <1>1
  <2>2. /\ SubSeq(queue, m + 1, n) \in Seq(S)
        /\ Len(SubSeq(queue, m + 1, n)) = n - m
        /\ \A i \in 1 .. n - m : SubSeq(queue, m + 1, n)[i] = queue[m + i]
    BY <1>1, <2>1, SubSeqProperties
  <2>3. QED
    BY <1>1, <2>2
<1>7. QED
  BY <1>5, <1>6

\* Older entries come first, so that what is due is the front of the queue.
LEMMA DueIsPrefix ==
    ASSUME Types, Captured
    PROVE  \E m \in 0 .. Len(queue) : /\ DueAt = 1 .. m
                                      /\ DOMAIN queue \ DueAt = m + 1 .. Len(queue)
<1> DEFINE n == Len(queue)
           m == Cardinality(DueAt)
<1>1. n \in Nat /\ DOMAIN queue = 1 .. n /\ DueAt \subseteq 1 .. n
  BY DEF Types, DueAt
<1>2. IsFiniteSet(1 .. n) /\ Cardinality(1 .. n) = n
  <2>1. 1 \in Int /\ n \in Int /\ 1 <= n + 1 /\ n - 1 + 1 = n
    BY <1>1
  <2> HIDE DEF n
  <2>2. QED
    BY <2>1, IntervalSize
<1>3. IsFiniteSet(DueAt) /\ m <= n /\ m \in Nat
  <2>1. DueAt \in SUBSET (1 .. n)
    BY <1>1
  <2>2. IsFiniteSet(DueAt) /\ Cardinality(DueAt) <= Cardinality(1 .. n)
    BY <1>2, <2>1, FS_Subset
  <2>3. QED
    BY <1>2, <2>2, FS_CardinalityType
<1>4. ASSUME NEW k \in DueAt
      PROVE  k \in 1 .. m
  <2>1. \A j \in 1 .. k : j \in DueAt
    <3> SUFFICES ASSUME NEW j \in 1 .. k PROVE j \in DueAt
      OBVIOUS
    <3>1. j \in 1 .. n /\ k \in 1 .. n /\ j <= k
      BY <1>1
    <3>2. queue[k].age <= queue[j].age /\ queue[j].age \in Nat /\ queue[k].age \in Nat
      <4>1. queue[k] \in Entries /\ queue[j] \in Entries
        BY <1>1, <3>1 DEF Types
      <4>2. queue[k].age <= queue[j].age
        BY <1>1, <3>1 DEF Captured
      <4>3. QED
        BY <4>1, <4>2 DEF Entries
    <3>3. queue[k].age >= FlushTicks
      BY DEF DueAt
    <3>4. QED
      BY <1>1, <3>1, <3>2, <3>3, BoundsAssumption DEF DueAt
  <2>2. 1 .. k \in SUBSET DueAt /\ k \in 1 .. n
    BY <1>1, <2>1
  <2>3. Cardinality(1 .. k) <= m
    BY <1>3, <2>2, FS_Subset
  <2>4. QED
    BY <1>1, <1>3, <2>2, <2>3, IntervalSize
<1>5. DueAt = 1 .. m
  <2>1. IsFiniteSet(1 .. m) /\ Cardinality(1 .. m) = m
    BY <1>3, IntervalSize
  <2>2. DueAt \in SUBSET (1 .. m)
    BY <1>4
  <2>3. QED
    BY <2>1, <2>2, FS_Subset
<1>6. QED
  BY <1>1, <1>3, <1>5

\* A pass of the worker parts the queue into a front and a rest.
LEMMA CollectSplits ==
    ASSUME Types, Captured, Collect
    PROVE  /\ due' \in Seq(Entries) /\ queue' \in Seq(Entries)
           /\ due' \o queue' = queue
           /\ \E m \in 0 .. Len(queue) :
                /\ Len(due') = m /\ Len(queue') = Len(queue) - m
                /\ \A k \in 1 .. m : due'[k] = queue[k]
                /\ \A k \in 1 .. Len(queue) - m : queue'[k] = queue[m + k]
<1>1. queue \in Seq(Entries) /\ Len(queue) \in Nat
  BY DEF Types
<1>2. PICK m \in 0 .. Len(queue) : /\ DueAt = 0 + 1 .. m
                                   /\ DOMAIN queue \ DueAt = m + 1 .. Len(queue)
  BY DueIsPrefix
<1>3. due' = SubSeq(queue, 1, m)
  <2>1. Picked(0 + 1 .. m) = SubSeq(queue, 0 + 1, m)
    BY <1>1, PickedStretch
  <2>2. QED
    BY <1>2, <2>1 DEF Collect
<1>4. queue' = SubSeq(queue, m + 1, Len(queue))
  <2>1. Picked(m + 1 .. Len(queue)) = SubSeq(queue, m + 1, Len(queue))
    <3>1. m \in 0 .. Len(queue) /\ Len(queue) \in m .. Len(queue)
      BY <1>1
    <3> DEFINE n == Len(queue)
    <3> HIDE DEF n
    <3>2. Picked(m + 1 .. n) = SubSeq(queue, m + 1, n)
      BY <1>1, <3>1, PickedStretch DEF n
    <3>3. QED
      BY <3>2 DEF n
  <2>2. QED
    BY <1>2, <2>1 DEF Collect
<1>5. SubSeq(queue, 1, m) \o SubSeq(queue, m + 1, Len(queue)) = queue
  <2>1. SubSeq(queue, 1, m) \o SubSeq(queue, m + 1, Len(queue)) = SubSeq(queue, 1, Len(queue))
    <3>1. /\ 1 \in 1 .. Len(queue) + 1 /\ m \in 1 - 1 .. Len(queue)
          /\ Len(queue) \in m .. Len(queue)
      BY <1>1
    <3>2. QED
      BY <1>1, <3>1, ConcatAdjacentSubSeq
  <2>2. QED
    BY <1>1, <2>1, SubSeqFull
<1>6. \A k \in 1 .. Len(queue) : queue[k] \in Entries
  BY <1>1
<1>7. /\ due' \in Seq(Entries) /\ Len(due') = m
      /\ \A k \in 1 .. m : due'[k] = queue[k]
  BY <1>1, <1>3, <1>6, SubSeqProperties
<1>8. /\ queue' \in Seq(Entries) /\ Len(queue') = Len(queue) - m
      /\ \A k \in 1 .. Len(queue) - m : queue'[k] = queue[m + k]
  <2>1. \A k \in m + 1 .. Len(queue) : queue[k] \in Entries
    BY <1>1, <1>6
  <2> DEFINE q == SubSeq(queue, m + 1, Len(queue))
  <2>2. /\ q \in Seq(Entries)
        /\ Len(q) = IF m + 1 <= Len(queue) THEN Len(queue) - (m + 1) + 1 ELSE 0
        /\ \A k \in 1 .. Len(queue) - (m + 1) + 1 : q[k] = queue[m + 1 + k - 1]
    BY <1>1, <2>1, SubSeqProperties
  <2> HIDE DEF q
  <2>3. q = queue'
    BY <1>4 DEF q
  <2> DEFINE n == Len(queue)
  <2>4. n \in Nat /\ m \in 0 .. n
    BY <1>1
  <2> HIDE DEF n
  <2>5. n - (m + 1) + 1 = n - m
        /\ (IF m + 1 <= n THEN n - (m + 1) + 1 ELSE 0) = n - m
        /\ \A k \in 1 .. n - m : m + 1 + k - 1 = m + k
    BY <2>4
  <2>6. Len(q) = n - m
    BY <2>2, <2>5 DEF n
  <2>7. \A k \in 1 .. n - m : q[k] = queue[m + k]
    BY <2>2, <2>5 DEF n
  <2>8. QED
    BY <2>2, <2>3, <2>6, <2>7, Zenon DEF n
<1>9. QED
  BY <1>3, <1>4, <1>5, <1>7, <1>8
-----------------------------------------------------------------------------
(* The inductive invariant is preserved. *)

\* The elements of the three sequences have their types.
LEMMA Elements ==
    ASSUME Types
    PROVE  /\ \A k \in DOMAIN queue : queue[k] \in Entries /\ queue[k].record \in Records
           /\ \A k \in DOMAIN due : due[k] \in Entries /\ due[k].record \in Records
           /\ \A k \in DOMAIN written : written[k] \in Lines /\ written[k].record \in Records
<1>1. ASSUME NEW k \in DOMAIN queue PROVE queue[k] \in Entries /\ queue[k].record \in Records
  <2>1. queue[k] \in Entries
    BY DEF Types
  <2>2. QED
    BY <2>1 DEF Entries
<1>2. ASSUME NEW k \in DOMAIN due PROVE due[k] \in Entries /\ due[k].record \in Records
  <2>1. due[k] \in Entries
    BY DEF Types
  <2>2. QED
    BY <2>1 DEF Entries
<1>3. ASSUME NEW k \in DOMAIN written PROVE written[k] \in Lines /\ written[k].record \in Records
  <2>1. written[k] \in Lines
    BY DEF Types
  <2>2. QED
    BY <2>1 DEF Lines
<1>4. QED
  BY <1>1, <1>2, <1>3

LEMMA InitIInv == Init => IInv
<1> SUFFICES ASSUME Init PROVE IInv
  OBVIOUS
<1>1. DOMAIN queue = {} /\ DOMAIN due = {} /\ DOMAIN written = {}
  BY DEF Init
<1>2. Types
  <2>1. queue \in Seq(Entries) /\ due \in Seq(Entries) /\ written \in Seq(Lines)
    BY EmptySeq DEF Init
  <2>2. Idle \in [at : Places, new : Addrs \cup {Null}, old : Addrs \cup {Null}]
    BY DEF Idle, Places
  <2>3. /\ installer \in [Installers -> [at : Places, new : Addrs \cup {Null},
                                         old : Addrs \cup {Null}]]
        /\ request \in [Records -> {"start", "enqueue", "sync", "queued"}]
    BY <2>2 DEF Init
  <2>4. QED
    BY <2>1, <2>3 DEF Init, Types
<1>3. NeverNull /\ InTurn
  BY DEF Init, NeverNull, InTurn, Idle
<1>4. CapturedSinkWasAlive /\ Captured
  BY <1>1 DEF CapturedSinkWasAlive, Captured
<1>5. QED
  BY <1>2, <1>3, <1>4 DEF IInv

\* An installation leaves alone what has been captured.
LEMMA InstallKeepsCaptured ==
    ASSUME IInv, UNCHANGED logVars, overlapped => overlapped'
    PROVE  CapturedSinkWasAlive' /\ Captured'
BY DEF IInv, CapturedSinkWasAlive, Captured, logVars

LEMMA ConstructIInv ==
    ASSUME IInv, process = "running", NEW i \in Installers, Construct(i)
    PROVE  IInv'
<1> USE DEF IInv
<1>1. /\ installer[i].at = "idle"
      /\ born' = born + 1
      /\ overlapped' = (overlapped \/ \E j \in Installers : installer[j].at # "idle")
      /\ UNCHANGED <<gSink, logVars, process>>
  BY DEF Construct
<1>2. PICK a \in Free : /\ heap' = [heap EXCEPT ![a] = born + 1]
                        /\ installer' = [installer EXCEPT
                                           ![i] = [at |-> "read", new |-> a, old |-> Null]]
  BY DEF Construct
<1>3. a \in Addrs /\ heap[a] = 0 /\ a # Null
  BY NullAssumption DEF Free
<1>4. Types'
  BY <1>1, <1>2, <1>3 DEF Types, Places, logVars
<1>5. NeverNull'
  BY <1>1, <1>2, <1>3 DEF NeverNull, Types, logVars
<1>6. InTurn'
  <2> SUFFICES ASSUME ~overlapped' PROVE InTurn'
    BY DEF InTurn
  <2>1. ~overlapped /\ \A j \in Installers : installer[j].at = "idle"
    BY <1>1
  <2>2. /\ gSink # Null => heap[gSink] # 0
        /\ \A b \in Addrs : heap[b] # 0 => b = gSink
    BY <2>1 DEF InTurn
  <2>3. /\ \A b \in Addrs : heap'[b] = IF b = a THEN born + 1 ELSE heap[b]
        /\ \A j \in Installers : installer'[j] = IF j = i THEN [at |-> "read", new |-> a, old |-> Null]
                                                 ELSE installer[j]
        /\ born + 1 # 0 /\ gSink' = gSink /\ gSink # a
    BY <1>1, <1>2, <1>3, <2>2 DEF Types
  <2>4. gSink' # Null => heap'[gSink'] # 0
    BY <2>2, <2>3 DEF Types
  <2>5. \A j \in Installers : installer'[j].at # "idle" => j = i
    BY <2>1, <2>3
  <2>6. installer'[i].at = "read" /\ installer'[i].new = a
    BY <2>3
  <2>7. \A b \in Addrs : heap'[b] # 0 => b \in {gSink', a}
    BY <2>2, <2>3
  <2>8. heap'[a] # 0
    BY <1>3, <2>3
  <2>9. process' # "aborted"
    BY <1>1
  <2>10. QED
    BY <2>3, <2>4, <2>5, <2>6, <2>7, <2>8, <2>9 DEF InTurn
<1>7. QED
  BY <1>1, <1>4, <1>5, <1>6, InstallKeepsCaptured

LEMMA ReadOldIInv ==
    ASSUME IInv, NEW i \in Installers, ReadOld(i)
    PROVE  IInv'
<1> USE DEF IInv
<1>1. /\ installer[i].at = "read"
      /\ installer' = [installer EXCEPT ![i].at = "swap", ![i].old = gSink]
      /\ UNCHANGED <<gSink, heap, born, overlapped, logVars, process>>
  BY DEF ReadOld
<1>2. /\ installer'[i] = [at |-> "swap", new |-> installer[i].new, old |-> gSink]
      /\ \A j \in Installers : j # i => installer'[j] = installer[j]
  BY <1>1 DEF Types
<1>3. Types'
  BY <1>1 DEF Types, Places, logVars
<1>4. NeverNull'
  <2>1. \A j \in Installers : installer'[j].at # "idle" => installer'[j].new # Null
    <3>1. installer[i].new # Null /\ installer'[i].new # Null
      BY <1>1, <1>2 DEF NeverNull
    <3>2. \A j \in Installers : j # i => (installer'[j].at # "idle" => installer'[j].new # Null)
      BY <1>2 DEF NeverNull
    <3>3. QED
      BY <3>1, <3>2
  <2>2. QED
    BY <1>1, <2>1 DEF NeverNull, logVars
<1>5. InTurn'
  <2> SUFFICES ASSUME ~overlapped PROVE InTurn'
    BY <1>1 DEF InTurn
  <2>1. /\ \A j \in Installers : installer[j].at # "idle" => j = i
        /\ process # "aborted"
        /\ installer[i].new # gSink /\ heap[installer[i].new] # 0
        /\ gSink # Null => heap[gSink] # 0
        /\ \A a \in Addrs : heap[a] # 0 => a \in {gSink, installer[i].new}
    BY <1>1 DEF InTurn
  <2>2. \A j \in Installers : installer'[j].at # "idle" => j = i
    BY <1>2, <2>1
  <2>3. /\ installer'[i].at = "swap" /\ installer'[i].new = installer[i].new
        /\ installer'[i].old = gSink
    BY <1>2
  <2>4. heap' = heap /\ process' = process /\ gSink' = gSink
    BY <1>1
  <2>5. QED
    BY <1>1, <2>1, <2>2, <2>3, <2>4 DEF InTurn
<1>6. QED
  BY <1>1, <1>3, <1>4, <1>5, InstallKeepsCaptured

LEMMA SwapIInv ==
    ASSUME IInv, NEW i \in Installers, Swap(i)
    PROVE  IInv'
<1> USE DEF IInv
<1>1. /\ installer[i].at = "swap"
      /\ gSink' = installer[i].new
      /\ installer' = [installer EXCEPT ![i].at = "delete"]
      /\ UNCHANGED <<heap, born, overlapped, logVars, process>>
  BY DEF Swap
<1>2. /\ installer'[i] = [at |-> "delete", new |-> installer[i].new, old |-> installer[i].old]
      /\ \A j \in Installers : j # i => installer'[j] = installer[j]
  BY <1>1 DEF Types
<1>3. gSink' # Null
  BY <1>1 DEF NeverNull
<1>4. Types'
  BY <1>1 DEF Types, Places, logVars
<1>5. NeverNull'
  BY <1>1, <1>2, <1>3 DEF NeverNull, logVars
<1>6. InTurn'
  <2> SUFFICES ASSUME ~overlapped PROVE InTurn'
    BY <1>1 DEF InTurn
  <2>1. /\ \A j \in Installers : installer[j].at # "idle" => j = i
        /\ process # "aborted"
        /\ installer[i].new # gSink /\ heap[installer[i].new] # 0
        /\ installer[i].old = gSink /\ (gSink # Null => heap[gSink] # 0)
        /\ \A a \in Addrs : heap[a] # 0 => a \in {gSink, installer[i].new}
    BY <1>1 DEF InTurn
  <2>2. \A j \in Installers : installer'[j].at # "idle" => j = i
    BY <1>2, <2>1
  <2>3. /\ installer'[i].at = "delete" /\ installer'[i].new = gSink'
        /\ installer'[i].old = gSink
    BY <1>1, <1>2, <2>1
  <2>4. heap' = heap /\ process' = process
    BY <1>1
  <2>5. QED
    BY <1>1, <2>1, <2>2, <2>3, <2>4 DEF InTurn
<1>7. QED
  BY <1>1, <1>4, <1>5, <1>6, InstallKeepsCaptured

LEMMA DeleteOldIInv ==
    ASSUME IInv, process = "running", NEW i \in Installers, DeleteOld(i)
    PROVE  IInv'
<1> USE DEF IInv
<1> DEFINE old == installer[i].old
<1>1. /\ installer[i].at = "delete"
      /\ installer' = [installer EXCEPT ![i] = Idle]
      /\ UNCHANGED <<gSink, born, overlapped, logVars>>
      /\ \/ old = Null /\ heap' = heap /\ process' = process
         \/ old # Null /\ old \notin Free /\ heap' = [heap EXCEPT ![old] = 0] /\ process' = process
         \/ old \in Free /\ process' = "aborted" /\ heap' = heap
  BY DEF DeleteOld
<1>2. /\ installer'[i] = Idle /\ Idle.at = "idle"
      /\ \A j \in Installers : j # i => installer'[j] = installer[j]
  BY <1>1 DEF Types, Idle
<1>3. old \in Addrs \cup {Null}
  BY DEF Types
<1>4. Types'
  <2>1. heap' \in [Addrs -> Nat]
    BY <1>1 DEF Types
  <2>2. installer' \in [Installers -> [at : Places, new : Addrs \cup {Null},
                                       old : Addrs \cup {Null}]]
    BY <1>1 DEF Types, Places, Idle
  <2>3. QED
    BY <1>1, <2>1, <2>2 DEF Types, logVars
<1>5. NeverNull'
  BY <1>1, <1>2 DEF NeverNull, logVars
<1>6. InTurn'
  <2> SUFFICES ASSUME ~overlapped PROVE InTurn'
    BY <1>1 DEF InTurn
  <2>1. /\ \A j \in Installers : installer[j].at # "idle" => j = i
        /\ gSink # Null => heap[gSink] # 0
        /\ old # gSink /\ (old # Null => heap[old] # 0)
        /\ \A a \in Addrs : heap[a] # 0 => a \in {gSink, old}
    BY <1>1 DEF InTurn
  <2>2. old \notin Free
    BY <2>1, NullAssumption DEF Free
  <2>3. /\ process' # "aborted"
        /\ \A a \in Addrs : heap'[a] # 0 => a = gSink
        /\ gSink # Null => heap'[gSink] # 0
    <3>1. CASE old = Null
      BY <1>1, <2>1, <2>2, <3>1, NullAssumption
    <3>2. CASE old # Null
      <4>1. heap' = [heap EXCEPT ![old] = 0] /\ process' = process
        BY <1>1, <2>2, <3>2
      <4>2. QED
        BY <2>1, <3>2, <4>1 DEF Types
    <3>3. QED
      BY <3>1, <3>2
  <2>4. \A j \in Installers : installer'[j].at = "idle"
    BY <1>2, <2>1
  <2>5. gSink' = gSink
    BY <1>1
  <2>6. QED
    BY <2>3, <2>4, <2>5 DEF InTurn
<1>7. QED
  BY <1>1, <1>4, <1>5, <1>6, InstallKeepsCaptured

\* The steps of the log leave the sinks alone.
LEMMA LogKeepsSinks ==
    ASSUME IInv, UNCHANGED sinkVars, process' # "aborted",
           \A r \in Records : request'[r] = "enqueue" => gSink # Null
    PROVE  NeverNull' /\ InTurn'
BY DEF IInv, NeverNull, InTurn, sinkVars

LEMMA CheckSinkIInv ==
    ASSUME IInv, process = "running", NEW r \in Records, CheckSink(r)
    PROVE  IInv'
<1> USE DEF IInv
<1>1. /\ request[r] = "start"
      /\ request' = [request EXCEPT ![r] = IF gSink # Null THEN "enqueue" ELSE "sync"]
      /\ UNCHANGED <<sinkVars, queue, due, written, process>>
  BY DEF CheckSink
<1>2. \A q \in Records : q # r => request'[q] = request[q]
  BY <1>1 DEF Types
<1>3. Types'
  BY <1>1 DEF Types, sinkVars
<1>4. NeverNull' /\ InTurn'
  <2>1. \A q \in Records : request'[q] = "enqueue" => gSink # Null
    BY <1>1, <1>2 DEF Types, NeverNull
  <2>2. QED
    BY <1>1, <2>1, LogKeepsSinks
<1>5. CapturedSinkWasAlive'
  BY <1>1 DEF CapturedSinkWasAlive, sinkVars
<1>6. Captured'
  <2>1. \A q \in Records : request[q] = "queued" => request'[q] = "queued"
    BY <1>1, <1>2
  <2>2. /\ \A k \in DOMAIN queue : queue[k].record \in Records
        /\ \A k \in DOMAIN due : due[k].record \in Records
        /\ \A k \in DOMAIN written : written[k].record \in Records
    BY Elements
  <2>3. QED
    BY <1>1, <2>1, <2>2 DEF Captured
<1>7. QED
  BY <1>3, <1>4, <1>5, <1>6

LEMMA EnqueueIInv ==
    ASSUME IInv, process = "running", NEW r \in Records, Enqueue(r)
    PROVE  IInv'
<1> USE DEF IInv
<1> DEFINE e == [record |-> r, sink |-> gSink, of |-> At(gSink), age |-> 0]
<1>1. /\ request[r] = "enqueue"
      /\ queue' = Append(queue, e)
      /\ request' = [request EXCEPT ![r] = "queued"]
      /\ UNCHANGED <<sinkVars, due, written, process>>
  BY DEF Enqueue
<1>2. gSink # Null /\ gSink \in Addrs /\ At(gSink) = heap[gSink] /\ At(gSink) \in Nat
  BY <1>1 DEF NeverNull, At, Types
<1>3. e \in Entries
  BY <1>2 DEF Entries
<1>4. /\ queue' \in Seq(Entries)
      /\ DOMAIN queue' = 1 .. Len(queue) + 1
      /\ \A k \in DOMAIN queue : k \in DOMAIN queue' /\ queue'[k] = queue[k]
      /\ queue'[Len(queue) + 1] = e
      /\ \A k \in DOMAIN queue' : k \in DOMAIN queue \/ k = Len(queue) + 1
  <2>1. queue \in Seq(Entries)
    BY DEF Types
  <2> HIDE DEF e
  <2>2. QED
    BY <1>1, <1>3, <2>1, AppendProperties
<1>5. Types'
  <2>1. request' \in [Records -> {"start", "enqueue", "sync", "queued"}]
    BY <1>1 DEF Types
  <2>2. QED
    BY <1>1, <1>4, <2>1 DEF Types, sinkVars
<1>6. \A q \in Records : q # r => request'[q] = request[q]
  BY <1>1 DEF Types
<1>7. request'[r] = "queued"
  BY <1>1 DEF Types
<1>8. NeverNull' /\ InTurn'
  <2>1. \A q \in Records : request'[q] = "enqueue" => gSink # Null
    BY <1>2
  <2>2. QED
    BY <1>1, <2>1, LogKeepsSinks
<1>9. CapturedSinkWasAlive'
  <2>1. e.sink # Null /\ (~overlapped => e.of # 0)
    BY <1>2 DEF InTurn
  <2>2. \A k \in DOMAIN queue' : queue'[k].sink # Null /\ (~overlapped => queue'[k].of # 0)
    <3> HIDE DEF e
    <3>1. QED
      BY <1>4, <2>1 DEF CapturedSinkWasAlive
  <2>3. \A k \in DOMAIN due : due[k].sink # Null /\ (~overlapped => due[k].of # 0)
    BY DEF CapturedSinkWasAlive
  <2>4. due' = due /\ overlapped' = overlapped
    BY <1>1 DEF sinkVars
  <2>5. QED
    BY <2>2, <2>3, <2>4 DEF CapturedSinkWasAlive
<1>10. Captured'
  <2>1. \A q \in Records : request[q] = "queued" => request'[q] = "queued"
    BY <1>6, <1>7
  <2>2. /\ \A k \in DOMAIN due : request'[due[k].record] = "queued"
        /\ \A k \in DOMAIN queue : request'[queue[k].record] = "queued"
        /\ \A k \in DOMAIN written : request'[written[k].record] = "queued"
    BY <2>1, Elements DEF Captured
  <2>3. \A k \in DOMAIN queue' : request'[queue'[k].record] = "queued"
    BY <1>4, <1>7, <2>2
  <2>4. \A k \in DOMAIN queue : queue[k].age \in Nat
    BY Elements DEF Entries
  <2>5. e.age = 0
    OBVIOUS
  <2>6. \A j, k \in DOMAIN queue' : j <= k => queue'[k].age <= queue'[j].age
    <3> SUFFICES ASSUME NEW j \in DOMAIN queue', NEW k \in DOMAIN queue', j <= k
                 PROVE  queue'[k].age <= queue'[j].age
      OBVIOUS
    <3> HIDE DEF e
    <3>1. Len(queue) \in Nat /\ DOMAIN queue = 1 .. Len(queue)
      BY DEF Types
    <3>2. CASE k = Len(queue) + 1
      BY <1>4, <2>4, <2>5, <3>2
    <3>3. CASE k # Len(queue) + 1
      <4>1. k \in DOMAIN queue /\ j \in DOMAIN queue
        BY <1>4, <3>1, <3>3
      <4>2. QED
        BY <1>4, <4>1 DEF Captured
    <3>4. QED
      BY <3>2, <3>3
  <2>7. due' = due /\ written' = written
    BY <1>1
  <2>8. QED
    BY <2>2, <2>3, <2>6, <2>7 DEF Captured
<1>11. QED
  BY <1>5, <1>8, <1>9, <1>10

LEMMA TickIInv ==
    ASSUME IInv, process = "running", Tick
    PROVE  IInv'
<1> USE DEF IInv
<1> DEFINE older(n) == IF n < FlushTicks THEN n + 1 ELSE n
<1>1. /\ queue' = [k \in DOMAIN queue |-> [queue[k] EXCEPT !.age = older(queue[k].age)]]
      /\ UNCHANGED <<sinkVars, request, due, written, process>>
  BY DEF Tick
<1>2. queue \in Seq(Entries) /\ Len(queue) \in Nat /\ DOMAIN queue = 1 .. Len(queue)
  BY DEF Types
<1>3. \A m, n \in Nat : m <= n => older(m) \in Nat /\ older(m) <= older(n)
  BY BoundsAssumption
<1>4. ASSUME NEW k \in DOMAIN queue
      PROVE  /\ queue'[k] \in Entries
             /\ queue'[k].record = queue[k].record
             /\ queue'[k].sink = queue[k].sink
             /\ queue'[k].of = queue[k].of
             /\ queue'[k].age = older(queue[k].age)
  <2>1. queue[k] \in Entries
    BY Elements
  <2>2. queue'[k] = [queue[k] EXCEPT !.age = older(queue[k].age)]
    BY <1>1
  <2>3. older(queue[k].age) \in Nat
    BY <2>1, <1>3 DEF Entries
  <2> HIDE DEF older
  <2>4. QED
    BY <2>1, <2>2, <2>3 DEF Entries
<1>5. DOMAIN queue' = DOMAIN queue /\ queue' \in Seq(Entries)
  <2>1. DOMAIN queue' = DOMAIN queue /\ queue' = [k \in 1 .. Len(queue) |-> queue'[k]]
    BY <1>1, <1>2
  <2>2. queue' \in [1 .. Len(queue) -> Entries]
    BY <1>2, <1>4, <2>1
  <2>3. QED
    BY <1>2, <2>1, <2>2, SeqDef
<1>6. Types'
  BY <1>1, <1>5 DEF Types, sinkVars
<1>7. NeverNull' /\ InTurn'
  <2>1. \A q \in Records : request'[q] = "enqueue" => gSink # Null
    BY <1>1 DEF NeverNull
  <2>2. process' # "aborted"
    BY <1>1
  <2>3. QED
    BY <1>1, <2>1, <2>2, LogKeepsSinks
<1>8. CapturedSinkWasAlive'
  <2>1. due' = due /\ overlapped' = overlapped
    BY <1>1 DEF sinkVars
  <2>2. \A k \in DOMAIN queue' : queue'[k].sink # Null /\ (~overlapped => queue'[k].of # 0)
    BY <1>4, <1>5 DEF CapturedSinkWasAlive
  <2>3. QED
    BY <2>1, <2>2 DEF CapturedSinkWasAlive
<1>9. Captured'
  <2>1. request' = request /\ due' = due /\ written' = written
    BY <1>1
  <2>2. \A k \in DOMAIN queue : queue[k].age \in Nat
    BY Elements DEF Entries
  <2>3. \A j, k \in DOMAIN queue' : j <= k => queue'[k].age <= queue'[j].age
    BY <1>3, <1>4, <1>5, <2>2 DEF Captured
  <2>4. \A k \in DOMAIN queue' : request'[queue'[k].record] = "queued"
    BY <1>4, <1>5, <2>1 DEF Captured
  <2>5. QED
    BY <2>1, <2>3, <2>4 DEF Captured
<1>10. QED
  BY <1>6, <1>7, <1>8, <1>9

LEMMA CollectIInv ==
    ASSUME IInv, process = "running", Collect
    PROVE  IInv'
<1> USE DEF IInv
<1>1. UNCHANGED <<sinkVars, request, written, process>>
  BY DEF Collect
<1>2. /\ due' \in Seq(Entries) /\ queue' \in Seq(Entries)
      /\ \E m \in 0 .. Len(queue) :
           /\ Len(due') = m /\ Len(queue') = Len(queue) - m
           /\ \A k \in 1 .. m : due'[k] = queue[k]
           /\ \A k \in 1 .. Len(queue) - m : queue'[k] = queue[m + k]
  BY CollectSplits
<1>3. PICK m \in 0 .. Len(queue) :
        /\ Len(due') = m /\ Len(queue') = Len(queue) - m
        /\ \A k \in 1 .. m : due'[k] = queue[k]
        /\ \A k \in 1 .. Len(queue) - m : queue'[k] = queue[m + k]
  BY <1>2
<1>4. Len(queue) \in Nat /\ DOMAIN queue = 1 .. Len(queue)
  BY DEF Types
<1>5. /\ DOMAIN due' = 1 .. m /\ \A k \in 1 .. m : k \in DOMAIN queue /\ due'[k] = queue[k]
      /\ DOMAIN queue' = 1 .. Len(queue) - m
      /\ \A k \in 1 .. Len(queue) - m : m + k \in DOMAIN queue /\ queue'[k] = queue[m + k]
  BY <1>2, <1>3, <1>4
<1>6. Types'
  BY <1>1, <1>2 DEF Types, sinkVars
<1>7. NeverNull' /\ InTurn'
  <2>1. \A q \in Records : request'[q] = "enqueue" => gSink # Null
    BY <1>1 DEF NeverNull
  <2>2. process' # "aborted"
    BY <1>1
  <2>3. QED
    BY <1>1, <2>1, <2>2, LogKeepsSinks
<1>8. CapturedSinkWasAlive'
  <2>1. \A k \in DOMAIN queue : queue[k].sink # Null /\ (~overlapped => queue[k].of # 0)
    BY DEF CapturedSinkWasAlive
  <2>2. overlapped' = overlapped
    BY <1>1 DEF sinkVars
  <2>3. QED
    BY <1>5, <2>1, <2>2 DEF CapturedSinkWasAlive
<1>9. Captured'
  <2>1. request' = request /\ written' = written
    BY <1>1
  <2>2. \A j, k \in DOMAIN queue' : j <= k => queue'[k].age <= queue'[j].age
    <3> SUFFICES ASSUME NEW j \in DOMAIN queue', NEW k \in DOMAIN queue', j <= k
                 PROVE  queue'[k].age <= queue'[j].age
      OBVIOUS
    <3>1. m + j \in DOMAIN queue /\ m + k \in DOMAIN queue /\ m + j <= m + k
      BY <1>4, <1>5
    <3>2. QED
      BY <1>5, <3>1 DEF Captured
  <2>3. /\ \A k \in DOMAIN due' : request'[due'[k].record] = "queued"
        /\ \A k \in DOMAIN queue' : request'[queue'[k].record] = "queued"
    BY <1>5, <2>1 DEF Captured
  <2>4. QED
    BY <2>1, <2>2, <2>3 DEF Captured
<1>10. QED
  BY <1>6, <1>7, <1>8, <1>9

LEMMA WriteDueIInv ==
    ASSUME IInv, process = "running", WriteDue
    PROVE  /\ IInv'
           /\ written' = Append(written, [record |-> Head(due).record, of |-> Head(due).of,
                                          by |-> heap[Head(due).sink]])
<1> USE DEF IInv
<1> DEFINE e == Head(due)
           line == [record |-> e.record, of |-> e.of, by |-> heap[e.sink]]
<1>1. /\ due # <<>> /\ due' = Tail(due)
      /\ written' = IF e.sink = Null THEN written ELSE Append(written, line)
      /\ UNCHANGED <<sinkVars, request, queue, process>>
  BY DEF WriteDue
<1>2. /\ due \in Seq(Entries) /\ Len(due) \in Nat /\ DOMAIN due = 1 .. Len(due)
      /\ 1 \in DOMAIN due /\ e = due[1]
  BY <1>1 DEF Types
<1>3. e \in Entries /\ e.sink # Null /\ e.record \in Records /\ request[e.record] = "queued"
  BY <1>2, Elements DEF CapturedSinkWasAlive, Captured
<1>4. written' = Append(written, line) /\ line \in Lines
  <2>1. e.sink \in Addrs /\ e.of \in Nat
    BY <1>3 DEF Entries
  <2>2. heap[e.sink] \in Nat
    BY <2>1 DEF Types
  <2>3. QED
    BY <1>1, <1>3, <2>1, <2>2 DEF Lines
<1>5. /\ due' \in Seq(Entries) /\ DOMAIN due' = 1 .. Len(due) - 1
      /\ \A k \in DOMAIN due' : k + 1 \in DOMAIN due /\ due'[k] = due[k + 1]
  <2>1. /\ due' \in Seq(Entries) /\ Len(due') = Len(due) - 1
        /\ \A k \in 1 .. Len(due') : due'[k] = due[k + 1]
    BY <1>1, <1>2, HeadTailProperties
  <2>2. DOMAIN due' = 1 .. Len(due')
    BY <2>1
  <2>3. QED
    BY <1>2, <2>1, <2>2
<1>6. /\ written' \in Seq(Lines)
      /\ \A k \in DOMAIN written' :
           (k \in DOMAIN written /\ written'[k] = written[k]) \/ written'[k] = line
  <2>1. written \in Seq(Lines)
    BY DEF Types
  <2> HIDE DEF line
  <2>2. QED
    BY <1>4, <2>1, AppendProperties
<1>7. Types'
  BY <1>1, <1>5, <1>6 DEF Types, sinkVars
<1>8. NeverNull' /\ InTurn'
  <2>1. \A q \in Records : request'[q] = "enqueue" => gSink # Null
    BY <1>1 DEF NeverNull
  <2>2. process' # "aborted"
    BY <1>1
  <2>3. QED
    BY <1>1, <2>1, <2>2, LogKeepsSinks
<1>9. CapturedSinkWasAlive'
  BY <1>1, <1>5 DEF CapturedSinkWasAlive, sinkVars
<1>10. Captured'
  <2>1. \A k \in DOMAIN written' : request[written'[k].record] = "queued"
    BY <1>3, <1>6 DEF Captured
  <2>2. request' = request /\ queue' = queue
    BY <1>1
  <2>3. \A k \in DOMAIN due' : request[due'[k].record] = "queued"
    BY <1>5 DEF Captured
  <2>4. QED
    BY <2>1, <2>2, <2>3 DEF Captured
<1>11. QED
  BY <1>4, <1>7, <1>8, <1>9, <1>10

LEMMA EndIInv ==
    ASSUME IInv, process' # "aborted" \/ process' = process, UNCHANGED <<sinkVars, logVars>>
    PROVE  IInv'
<1> USE DEF IInv
<1>1. Types' /\ NeverNull'
  BY DEF Types, NeverNull, sinkVars, logVars
<1>2. InTurn'
  BY DEF InTurn, sinkVars
<1>3. CapturedSinkWasAlive' /\ Captured'
  BY DEF CapturedSinkWasAlive, Captured, sinkVars, logVars
<1>4. QED
  BY <1>1, <1>2, <1>3

LEMMA NextIInv == IInv /\ [Next]_vars => IInv'
<1> SUFFICES ASSUME IInv, [Next]_vars PROVE IInv'
  OBVIOUS
<1>1. ASSUME process = "running", NEW i \in Installers, Install(i) PROVE IInv'
  BY <1>1, ConstructIInv, ReadOldIInv, SwapIInv, DeleteOldIInv DEF Install
<1>2. ASSUME process = "running", NEW r \in Records, CheckSink(r) \/ Enqueue(r) PROVE IInv'
  BY <1>2, CheckSinkIInv, EnqueueIInv
<1>3. ASSUME process = "running", Tick \/ Collect \/ WriteDue PROVE IInv'
  BY <1>3, TickIInv, CollectIInv, WriteDueIInv
<1>4. ASSUME WriteFaults \/ Exit PROVE IInv'
  <2>1. process' # "aborted" /\ UNCHANGED <<sinkVars, logVars>>
    BY <1>4 DEF WriteFaults, Exit
  <2>2. QED
    BY <2>1, EndIInv
<1>5. CASE Ended \/ UNCHANGED vars
  <2>1. process' = process /\ UNCHANGED <<sinkVars, logVars>>
    BY <1>5 DEF Ended, vars
  <2>2. QED
    BY <2>1, EndIInv
<1>6. QED
  BY <1>1, <1>2, <1>3, <1>4, <1>5 DEF Next, Running, Worker

\* Every reachable state of the log satisfies the inductive invariant.
THEOREM SinkInvariant == Spec => []IInv
<1>1. Init => IInv
  BY InitIInv
<1>2. QED
  BY <1>1, NextIInv, PTL DEF Spec

\* As long as no two installations overlap, g_sink never names a deleted
\* object and no sink is deleted twice, for any number of threads, addresses
\* and sinks.
THEOREM SinkCurrentSinkLives == Spec => []CurrentSinkLives
<1>1. IInv => CurrentSinkLives
  BY DEF IInv, InTurn, CurrentSinkLives
<1>2. QED
  BY <1>1, SinkInvariant, PTL

\* The second read of g_sink, in enqueue_log_record(), captures an object,
\* though it is not the one that was compared with nullptr.
THEOREM SinkCapturedSinkWasAlive == Spec => []CapturedSinkWasAlive
<1>1. IInv => CapturedSinkWasAlive
  BY DEF IInv
<1>2. QED
  BY <1>1, SinkInvariant, PTL

\* Between installations that did not overlap, the installed sink is the only
\* one that exists.
THEOREM SinkNoSinkLeaks == Spec => []NoSinkLeaks
<1>1. IInv => NoSinkLeaks
  <2> SUFFICES ASSUME IInv, ~overlapped, \A i \in Installers : installer[i].at = "idle"
               PROVE  Live = {At(gSink)} \ {0}
    BY DEF NoSinkLeaks
  <2>1. /\ gSink # Null => heap[gSink] # 0
        /\ \A a \in Addrs : heap[a] # 0 => a = gSink
    BY DEF IInv, InTurn
  <2>2. gSink \in Addrs \cup {Null} /\ heap \in [Addrs -> Nat]
    BY DEF IInv, Types
  <2>3. CASE gSink = Null
    <3>1. Addrs \ Free = {} /\ At(gSink) = 0
      BY <2>1, <2>3, NullAssumption DEF Free, At
    <3>2. QED
      BY <3>1 DEF Live
  <2>4. CASE gSink # Null
    <3>1. Addrs \ Free = {gSink} /\ At(gSink) = heap[gSink] /\ heap[gSink] # 0
      BY <2>1, <2>2, <2>4 DEF Free, At
    <3>2. QED
      BY <3>1 DEF Live
  <2>5. QED
    BY <2>3, <2>4
<1>2. QED
  BY <1>1, SinkInvariant, PTL
-----------------------------------------------------------------------------
(* The log implements LogPipe. *)

Pending == due \o queue

\* The records of a sequence, one by one.
LEMMA RecordsOfElements ==
    ASSUME NEW E, \A x \in E : x.record \in Records, NEW s \in Seq(E)
    PROVE  /\ RecordsOf(s) \in Seq(Records) /\ Len(RecordsOf(s)) = Len(s)
           /\ DOMAIN RecordsOf(s) = DOMAIN s /\ DOMAIN s = 1 .. Len(s)
           /\ \A k \in 1 .. Len(s) : RecordsOf(s)[k] = s[k].record
<1>1. DOMAIN s = 1 .. Len(s) /\ Len(s) \in Nat /\ \A k \in 1 .. Len(s) : s[k] \in E
  OBVIOUS
<1>2. RecordsOf(s) = [k \in 1 .. Len(s) |-> s[k].record]
  BY <1>1 DEF RecordsOf
<1>3. RecordsOf(s) \in [1 .. Len(s) -> Records]
  BY <1>1, <1>2
<1>4. QED
  BY <1>1, <1>2, <1>3, SeqDef

\* Taking the records commutes with appending,
LEMMA RecordsOfAppend ==
    ASSUME NEW E, \A x \in E : x.record \in Records, NEW s \in Seq(E), NEW e \in E
    PROVE  RecordsOf(Append(s, e)) = Append(RecordsOf(s), e.record)
<1> DEFINE t == Append(s, e)
           u == Append(RecordsOf(s), e.record)
<1>1. /\ t \in Seq(E) /\ Len(t) = Len(s) + 1
      /\ \A k \in 1 .. Len(s) : t[k] = s[k]
      /\ t[Len(s) + 1] = e
  BY AppendProperties
<1>2. /\ RecordsOf(s) \in Seq(Records) /\ Len(RecordsOf(s)) = Len(s)
      /\ \A k \in 1 .. Len(s) : RecordsOf(s)[k] = s[k].record
  BY RecordsOfElements
<1>3. /\ u \in Seq(Records) /\ Len(u) = Len(s) + 1
      /\ \A k \in 1 .. Len(s) : u[k] = s[k].record
      /\ u[Len(s) + 1] = e.record
  BY <1>2, AppendProperties
<1> HIDE DEF t, u
<1>4. /\ RecordsOf(t) \in Seq(Records) /\ Len(RecordsOf(t)) = Len(t)
      /\ \A k \in 1 .. Len(t) : RecordsOf(t)[k] = t[k].record
  BY <1>1, RecordsOfElements
<1>5. Len(s) \in Nat
  OBVIOUS
<1>6. \A k \in 1 .. Len(s) + 1 : RecordsOf(t)[k] = u[k]
  BY <1>1, <1>3, <1>4, <1>5
<1>7. RecordsOf(t) = u
  BY <1>1, <1>3, <1>4, <1>6, SeqEqual
<1>8. QED
  BY <1>7 DEF t, u

\* and with parting the first element from the rest.
LEMMA RecordsOfTail ==
    ASSUME NEW E, \A x \in E : x.record \in Records, NEW s \in Seq(E), s # <<>>
    PROVE  /\ RecordsOf(s) # <<>>
           /\ Head(RecordsOf(s)) = Head(s).record
           /\ RecordsOf(Tail(s)) = Tail(RecordsOf(s))
<1>1. /\ RecordsOf(s) \in Seq(Records) /\ Len(RecordsOf(s)) = Len(s)
      /\ \A k \in 1 .. Len(s) : RecordsOf(s)[k] = s[k].record
  BY RecordsOfElements
<1>2. Len(s) \in Nat \ {0}
  BY EmptySeq
<1>3. RecordsOf(s) # <<>>
  BY <1>1, <1>2
<1>4. Head(RecordsOf(s)) = Head(s).record
  BY <1>1, <1>2
<1>5. /\ Tail(s) \in Seq(E) /\ Len(Tail(s)) = Len(s) - 1
      /\ \A k \in 1 .. Len(Tail(s)) : Tail(s)[k] = s[k + 1]
  BY HeadTailProperties
<1>6. /\ RecordsOf(Tail(s)) \in Seq(Records) /\ Len(RecordsOf(Tail(s))) = Len(s) - 1
      /\ \A k \in 1 .. Len(s) - 1 : RecordsOf(Tail(s))[k] = s[k + 1].record
  <2> DEFINE t == Tail(s)
  <2> HIDE DEF t
  <2>1. t \in Seq(E) /\ Len(t) = Len(s) - 1 /\ \A k \in 1 .. Len(t) : t[k] = s[k + 1]
    BY <1>5 DEF t
  <2>2. /\ RecordsOf(t) \in Seq(Records) /\ Len(RecordsOf(t)) = Len(t)
        /\ \A k \in 1 .. Len(t) : RecordsOf(t)[k] = t[k].record
    BY <2>1, RecordsOfElements
  <2>3. QED
    BY <2>1, <2>2 DEF t
<1>7. /\ Tail(RecordsOf(s)) \in Seq(Records) /\ Len(Tail(RecordsOf(s))) = Len(s) - 1
      /\ \A k \in 1 .. Len(s) - 1 : Tail(RecordsOf(s))[k] = RecordsOf(s)[k + 1]
  BY <1>1, <1>3, HeadTailProperties
<1>8. \A k \in 1 .. Len(s) - 1 : RecordsOf(s)[k + 1] = s[k + 1].record
  BY <1>1, <1>2
<1>9. RecordsOf(Tail(s)) = Tail(RecordsOf(s))
  <2> DEFINE t == RecordsOf(Tail(s))
             u == Tail(RecordsOf(s))
  <2>1. /\ t \in Seq(Records) /\ u \in Seq(Records) /\ Len(t) = Len(s) - 1
        /\ Len(u) = Len(s) - 1 /\ \A k \in 1 .. Len(s) - 1 : t[k] = u[k]
    BY <1>6, <1>7, <1>8
  <2> HIDE DEF t, u
  <2>2. t = u
    BY <2>1, SeqEqual
  <2>3. QED
    BY <2>2 DEF t, u
<1>10. QED
  BY <1>3, <1>4, <1>9

\* The record of a well-typed entry or line.
LEMMA HasRecord == /\ \A x \in Entries : x.record \in Records
                   /\ \A x \in Lines : x.record \in Records
BY DEF Entries, Lines

\* What is pending was queued by its request thread.
LEMMA PendingQueued ==
    ASSUME IInv
    PROVE  /\ Pending \in Seq(Entries)
           /\ \A k \in DOMAIN Pending : request[Pending[k].record] = "queued"
<1>1. due \in Seq(Entries) /\ queue \in Seq(Entries)
  BY DEF IInv, Types
<1>2. /\ Pending \in Seq(Entries) /\ Len(Pending) = Len(due) + Len(queue)
      /\ \A k \in 1 .. Len(due) + Len(queue) :
            Pending[k] = IF k <= Len(due) THEN due[k] ELSE queue[k - Len(due)]
  BY <1>1, ConcatProperties DEF Pending
<1>3. ASSUME NEW k \in DOMAIN Pending PROVE request[Pending[k].record] = "queued"
  <2>1. k \in 1 .. Len(due) + Len(queue) /\ Len(due) \in Nat /\ Len(queue) \in Nat
    BY <1>1, <1>2
  <2>2. CASE k <= Len(due)
    <3>1. k \in DOMAIN due /\ Pending[k] = due[k]
      BY <1>1, <1>2, <2>1, <2>2
    <3>2. QED
      BY <3>1 DEF IInv, Captured
  <2>3. CASE ~(k <= Len(due))
    <3>1. k - Len(due) \in DOMAIN queue /\ Pending[k] = queue[k - Len(due)]
      BY <1>1, <1>2, <2>1, <2>3
    <3>2. QED
      BY <3>1 DEF IInv, Captured
  <2>4. QED
    BY <2>2, <2>3
<1>4. QED
  BY <1>2, <1>3

LEMMA EnqueueRefines ==
    ASSUME IInv, NEW r \in Records, Enqueue(r)
    PROVE  Pipe!Next
<1> DEFINE e == [record |-> r, sink |-> gSink, of |-> At(gSink), age |-> 0]
<1>1. /\ request[r] = "enqueue" /\ queue' = Append(queue, e)
      /\ UNCHANGED <<due, written>>
  BY DEF Enqueue
<1>2. due \in Seq(Entries) /\ queue \in Seq(Entries) /\ written \in Seq(Lines)
  BY DEF IInv, Types
<1>3. e \in Entries
  <2>1. gSink # Null /\ gSink \in Addrs /\ At(gSink) = heap[gSink] /\ At(gSink) \in Nat
    BY <1>1 DEF IInv, NeverNull, At, Types
  <2>2. QED
    BY <2>1 DEF Entries
<1>4. RecordsOf(due \o queue)' = Append(RecordsOf(due \o queue), r)
  <2>1. (due \o queue)' = Append(due \o queue, e)
    <3> HIDE DEF e
    <3>1. QED
      BY <1>1, <1>2, <1>3
  <2>2. due \o queue \in Seq(Entries)
    BY PendingQueued DEF Pending
  <2>3. RecordsOf(Append(due \o queue, e)) = Append(RecordsOf(due \o queue), e.record)
    <3> HIDE DEF e
    <3>1. QED
      BY <1>3, <2>2, HasRecord, RecordsOfAppend
  <2>4. RecordsOf(due \o queue)' = RecordsOf((due \o queue)')
    BY DEF RecordsOf
  <2>5. QED
    BY <2>1, <2>3, <2>4
<1>5. r \notin Pipe!Seen
  <2>1. \A k \in DOMAIN RecordsOf(due \o queue) : RecordsOf(due \o queue)[k] # r
    BY <1>1, PendingQueued DEF Pending, RecordsOf
  <2>2. \A k \in DOMAIN RecordsOf(written) : RecordsOf(written)[k] # r
    BY <1>1 DEF IInv, Captured, RecordsOf
  <2>3. QED
    BY <2>1, <2>2 DEF Pipe!Seen
<1>6. RecordsOf(written)' = RecordsOf(written)
  BY <1>1 DEF RecordsOf
<1>7. QED
  BY <1>4, <1>5, <1>6 DEF Pipe!Next, Pipe!Capture

LEMMA WriteDueRefines ==
    ASSUME IInv, process = "running", WriteDue
    PROVE  Pipe!Next
<1> DEFINE line == [record |-> Head(due).record, of |-> Head(due).of,
                    by |-> heap[Head(due).sink]]
<1>1. /\ due # <<>> /\ due' = Tail(due) /\ queue' = queue
  BY DEF WriteDue
<1>2. written' = Append(written, line) /\ written' \in Seq(Lines)
  BY WriteDueIInv DEF IInv, Types
<1>3. due \in Seq(Entries) /\ queue \in Seq(Entries) /\ written \in Seq(Lines)
  BY DEF IInv, Types
<1>4. line \in Lines
  <2>1. /\ Len(written) \in Nat /\ Len(written') = Len(written) + 1
        /\ written'[Len(written) + 1] = line
    <3> HIDE DEF line
    <3>1. QED
      BY <1>2, <1>3
  <2> HIDE DEF line
  <2>2. QED
    BY <1>2, <2>1
<1>5. RecordsOf(written') = Append(RecordsOf(written), line.record)
  <2> HIDE DEF line
  <2>1. QED
    BY <1>2, <1>3, <1>4, HasRecord, RecordsOfAppend
<1>6. /\ due \o queue \in Seq(Entries) /\ due \o queue # <<>>
      /\ Head(due \o queue) = Head(due)
      /\ (due \o queue)' = Tail(due \o queue)
  <2>1. /\ due \o queue \in Seq(Entries) /\ due \o queue # <<>>
        /\ Head(due \o queue) = Head(due)
    BY <1>1, <1>3
  <2>2. Tail(due) \o queue = Tail(due \o queue)
    BY <1>1, <1>3
  <2>3. QED
    BY <1>1, <2>1, <2>2
<1>7. /\ RecordsOf(due \o queue) # <<>>
      /\ Head(RecordsOf(due \o queue)) = Head(due).record
      /\ RecordsOf(Tail(due \o queue)) = Tail(RecordsOf(due \o queue))
  <2> DEFINE s == due \o queue
  <2> HIDE DEF s
  <2>1. s \in Seq(Entries) /\ s # <<>> /\ Head(s) = Head(due)
    BY <1>6 DEF s
  <2>2. /\ RecordsOf(s) # <<>> /\ Head(RecordsOf(s)) = Head(s).record
        /\ RecordsOf(Tail(s)) = Tail(RecordsOf(s))
    BY <2>1, HasRecord, RecordsOfTail
  <2>3. QED
    BY <2>1, <2>2 DEF s
<1>8. line.record = Head(due).record
  OBVIOUS
<1>9. /\ RecordsOf(due \o queue)' = Tail(RecordsOf(due \o queue))
      /\ RecordsOf(written)' = Append(RecordsOf(written), Head(RecordsOf(due \o queue)))
  <2>1. RecordsOf(due \o queue)' = RecordsOf((due \o queue)')
    BY DEF RecordsOf
  <2>2. RecordsOf(written)' = RecordsOf(written')
    BY DEF RecordsOf
  <2>3. QED
    BY <1>5, <1>6, <1>7, <1>8, <2>1, <2>2
<1>10. QED
  BY <1>7, <1>9 DEF Pipe!Next, Pipe!Write

\* Neither time nor a pass of the worker shows.
LEMMA CollectRefines ==
    ASSUME IInv, Collect
    PROVE  UNCHANGED Pipe!vars
<1>1. due = <<>> /\ UNCHANGED written
  BY DEF Collect
<1>2. queue \in Seq(Entries) /\ due' \o queue' = queue
  BY CollectSplits DEF IInv, Types
<1>3. (due \o queue)' = due \o queue
  BY <1>1, <1>2
<1>4. QED
  BY <1>1, <1>3 DEF Pipe!vars, RecordsOf

LEMMA TickRefines ==
    ASSUME IInv, Tick
    PROVE  UNCHANGED Pipe!vars
<1>1. /\ queue' = [k \in DOMAIN queue |->
                     [queue[k] EXCEPT !.age = IF @ < FlushTicks THEN @ + 1 ELSE @]]
      /\ UNCHANGED <<due, written>>
  BY DEF Tick
<1>2. due \in Seq(Entries) /\ queue \in Seq(Entries) /\ Len(queue) \in Nat /\ Len(due) \in Nat
  BY DEF IInv, Types
<1>3. \A k \in DOMAIN queue : queue'[k].record = queue[k].record
  <2> SUFFICES ASSUME NEW k \in DOMAIN queue PROVE queue'[k].record = queue[k].record
    OBVIOUS
  <2>1. queue[k] \in Entries
    BY <1>2
  <2>2. QED
    BY <1>1, <2>1 DEF Entries
<1>4. DOMAIN queue' = DOMAIN queue /\ Len(queue') = Len(queue)
  BY <1>1, <1>2
<1>5. DOMAIN (due \o queue') = DOMAIN (due \o queue)
  BY <1>2, <1>4
<1>6. \A k \in DOMAIN (due \o queue) : (due \o queue')[k].record = (due \o queue)[k].record
  BY <1>2, <1>3, <1>4
<1>7. RecordsOf(due \o queue') = RecordsOf(due \o queue)
  BY <1>5, <1>6 DEF RecordsOf
<1>8. RecordsOf(due \o queue)' = RecordsOf(due \o queue') /\ RecordsOf(written)' = RecordsOf(written)
  BY <1>1 DEF RecordsOf
<1>9. QED
  BY <1>7, <1>8 DEF Pipe!vars

LEMMA NextRefines == IInv /\ [Next]_vars => [Pipe!Next]_(Pipe!vars)
<1> SUFFICES ASSUME IInv, [Next]_vars PROVE [Pipe!Next]_(Pipe!vars)
  OBVIOUS
<1>1. ASSUME NEW r \in Records, Enqueue(r) PROVE Pipe!Next
  BY <1>1, EnqueueRefines
<1>2. CASE process = "running" /\ WriteDue
  BY <1>2, WriteDueRefines
<1>3. CASE Collect
  BY <1>3, CollectRefines
<1>4. CASE Tick
  BY <1>4, TickRefines
<1>5. ASSUME UNCHANGED <<queue, due, written>> PROVE UNCHANGED Pipe!vars
  BY <1>5 DEF Pipe!vars, RecordsOf
<1>6. ASSUME NEW i \in Installers, Install(i) PROVE UNCHANGED <<queue, due, written>>
  BY <1>6 DEF Install, Construct, ReadOld, Swap, DeleteOld, logVars
<1>7. ASSUME NEW r \in Records, CheckSink(r) PROVE UNCHANGED <<queue, due, written>>
  BY <1>7 DEF CheckSink
<1>8. ASSUME WriteFaults \/ Exit \/ Ended \/ UNCHANGED vars PROVE UNCHANGED <<queue, due, written>>
  BY <1>8 DEF WriteFaults, Exit, Ended, vars, logVars
<1>9. QED
  BY <1>1, <1>2, <1>3, <1>4, <1>5, <1>6, <1>7, <1>8 DEF Next, Running, Worker

\* Whatever the sinks do meanwhile, every captured record is written at most
\* once and in the order of capture, with none skipped: the queue, its split
\* into due and kept entries and the writes outside the lock are a pipe.
THEOREM SinkImplementsPipe == Spec => ImplementsPipe
<1>1. Init => Pipe!Init
  <2> SUFFICES ASSUME Init PROVE Pipe!Init
    OBVIOUS
  <2>1. due \o queue = <<>> /\ written = <<>>
    BY DEF Init
  <2>2. RecordsOf(<<>>) = <<>>
    BY DEF RecordsOf
  <2>3. QED
    BY <2>1, <2>2 DEF Pipe!Init
<1>2. IInv /\ [Next]_vars => [Pipe!Next]_(Pipe!vars)
  BY NextRefines
<1>3. QED
  BY <1>1, <1>2, SinkInvariant, PTL DEF Spec, ImplementsPipe, Pipe!Spec
=============================================================================
