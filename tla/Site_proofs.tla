------------------------------ MODULE Site_proofs ------------------------------
(***************************************************************************)
(* The safety of Site for any number of deployments, clients and archives: *)
(* what a deployment reports, which of its files land, how long a body is, *)
(* and what a 304 says.                                                    *)
(***************************************************************************)
EXTENDS Site, Integers, TLAPS, FiniteSetTheorems, SequenceTheorems

Places == {"start", "entry", "open", "write", "done", "refused"}
GetPlaces == {"idle", "examined", "read", "200", "304"}
Blocks == STRING \cup {Hole}
EntryRecords == [kind : Kinds, path : Seq(STRING), blocks : Seq(STRING)]
Gets == [at : GetPlaces, path : Seq(STRING), size : Nat, mtime : Nat, body : Seq(Blocks)]
Copies == [blocks : Seq(Blocks), mtime : Nat]

FileTypes == /\ now \in Nat /\ now <= MaxSecond
             /\ DOMAIN content \subseteq Paths /\ DOMAIN mtime = DOMAIN content
             /\ content \in [DOMAIN content -> Seq(Blocks)]
             /\ mtime \in [DOMAIN mtime -> Nat]
DeployTypes == /\ at \in [Deployers -> Places]
               /\ entry \in [Deployers -> Nat] /\ written \in [Deployers -> Nat]
               /\ extracted \in [Deployers -> Nat] /\ tails \in [Deployers -> Nat]
               /\ full \in [Deployers -> SUBSET Nat] /\ opened \in [Deployers -> SUBSET Nat]
               /\ overlapped \in BOOLEAN
GetTypes == /\ get \in [Clients -> Gets]
            /\ copy \in [Clients -> [Asked -> Copies]]
            /\ seen \in [Asked -> Nat]

\* Where a deployer is in its archive.
OpenedSoFar(d) ==
    \A k \in opened[d] :
      /\ k \in DOMAIN Archive[d] /\ Exists(Archive[d][k].path)
      /\ k < entry[d] \/ (k = entry[d] /\ at[d] = "write")
InOrder(d) ==
    /\ 1 <= entry[d]
    /\ at[d] = "start" => entry[d] = 1 /\ extracted[d] = 0 /\ tails[d] = 0 /\ opened[d] = {}
    /\ at[d] = "done" => entry[d] > Len(Archive[d])
    /\ at[d] \in {"open", "write"} => entry[d] <= Len(Archive[d]) /\ Current(d).kind = "file"
    /\ at[d] = "write" => Exists(Current(d).path) /\ written[d] <= Len(Current(d).blocks)
    /\ at[d] # "write" => written[d] = 0
    /\ at[d] = "write" => entry[d] \in opened[d]
    /\ OpenedSoFar(d)
AtEntry == \A d \in Deployers : InOrder(d)

\* A name stands for a file or for a directory; whoever deploys has made
\* deploy/, and the parent of what it is about to open, unless there was no
\* space for them.
Due(d) == Shallow(d) \ full[d]
DirsNeeded == {<<>>} \cup {Front(p) : p \in Paths}
Tree == /\ \A p \in DOMAIN content : Front(p) \in dirs /\ p \notin dirs
        /\ dirs \subseteq DirsNeeded
        /\ \A d \in Deployers :
             at[d] \notin {"start", "refused"} => <<>> \in dirs \/ full[d] = DOMAIN Archive[d]
        /\ \A d \in Deployers : at[d] = "open" /\ entry[d] \in Due(d)
                                    => Front(Current(d).path) \in dirs

\* Every shallow entry so far was counted, or the disk or the descriptors ran
\* out on it.
Before(d, k) == {j \in DOMAIN Archive[d] : j < k}
LandSoFar == \A d \in Deployers :
                 extracted[d] >= Cardinality(Due(d) \cap Before(d, entry[d]))

\* While one deployment is under way at a time, its count is right so far,
\* and the file it writes holds what it has written.
CountedAs(d) ==
    /\ LET left == Cardinality(OnDisk(d) \cap Before(d, entry[d])) + tails[d]
       IN  left <= extracted[d] /\ extracted[d] <= left + Cardinality(Replaced(d))
    /\ at[d] = "write" => content[Current(d).path] = SubSeq(Current(d).blocks, 1, written[d])
CountSoFar == ~overlapped => /\ \A d, e \in Busy : d = e
                             /\ \A d \in Busy : CountedAs(d)

\* A download knows the file as it was examined, which nobody wrote since in
\* the same second; a copy is true while its time is the file's.
Past == \A p \in DOMAIN mtime : mtime[p] <= now
Knows(g) ==
    /\ g.path \in Asked /\ Exists(g.path)
    /\ g.mtime <= seen[g.path] /\ seen[g.path] <= now
    /\ g.path \notin racy =>
         /\ g.at \in {"examined", "read"} =>
              /\ g.size = Len(content[g.path]) /\ g.mtime = mtime[g.path]
              /\ Len(g.body) <= g.size
              /\ \A i \in 1 .. Len(g.body) : g.body[i] = content[g.path][i]
         /\ g.at = "200" =>
              /\ Len(g.body) = g.size
              /\ g.mtime = mtime[g.path] => g.body = content[g.path]
GetsKnow == \A c \in Clients : get[c].at # "idle" => Knows(get[c])
True(p, k) == k.mtime # Never =>
                 /\ Exists(p) /\ k.mtime <= seen[p] /\ seen[p] <= now
                 /\ p \notin racy /\ k.mtime = mtime[p] => k.blocks = content[p]
CopiesTrue == \A c \in Clients, p \in Asked : True(p, copy[c][p])

\* The inductive invariant.
IInv == /\ FileTypes /\ DeployTypes /\ GetTypes /\ AtEntry /\ Tree /\ LandSoFar /\ CountSoFar
        /\ Past /\ GetsKnow /\ CopiesTrue
-----------------------------------------------------------------------------
(* The operators of the model. *)

\* What an archive's entries are.
LEMMA EntryTyped ==
    ASSUME NEW d \in Deployers, NEW k \in 1 .. Len(Archive[d])
    PROVE  /\ Archive[d][k] \in EntryRecords
           /\ Archive[d][k].blocks \in Seq(Blocks)
           /\ Archive[d][k].kind # "directory" => Archive[d][k].path \in Paths
<1> DEFINE e == Archive[d][k]
<1>0. Archive[d] \in Seq(EntryRecords)
  BY ArchiveAssumption DEF EntryRecords
<1>1. Archive[d] \in Seq(EntryRecords) /\ DOMAIN Archive[d] = 1 .. Len(Archive[d])
  BY <1>0
<1>2. e \in EntryRecords
  BY <1>1
<1>3. e.blocks \in Seq(Blocks)
  BY <1>2, SeqMonotonic DEF EntryRecords, Blocks
<1>4. e \in ToSet(Archive[d])
  BY <1>1 DEF ToSet
<1>5. e \in Entries
  BY <1>4 DEF Entries
<1>6. e.kind # "directory" => e.path \in Paths
  BY <1>5 DEF Paths
<1> QED  BY <1>2, <1>3, <1>6

\* A path that names a file, and the directory above it.
LEMMA PathTyped ==
    ASSUME NEW p \in Paths
    PROVE  /\ p \in Seq(STRING) /\ p # <<>> /\ Len(p) \in Nat \ {0}
           /\ Front(p) \in Seq(STRING) /\ Len(Front(p)) = Len(p) - 1
<1>0. PICK d \in Deployers : \E e \in ToSet(Archive[d]) : p = e.path
  BY DEF Paths, Entries
<1>1. PICK e \in ToSet(Archive[d]) : p = e.path
  BY <1>0
<1>2. PICK k \in DOMAIN Archive[d] : e = Archive[d][k]
  BY <1>1 DEF ToSet
<1>3. Archive[d] \in Seq(EntryRecords) /\ IsEntry(e)
  BY <1>2, ArchiveAssumption DEF EntryRecords
<1>4. e \in EntryRecords
  BY <1>2, <1>3
<1>5. p \in Seq(STRING) /\ p # <<>>
  BY <1>1, <1>3, <1>4 DEF EntryRecords, IsEntry
<1>6. Len(p) \in Nat \ {0}
  BY <1>5
<1>7. Front(p) \in Seq(STRING) /\ Len(Front(p)) = Len(p) - 1
  <2>1. PICK n \in Nat : n = Len(p) /\ n >= 1
    BY <1>6
  <2>2. \A i \in 1 .. n - 1 : p[i] \in STRING
    BY <1>5, <2>1
  <2>3. /\ SubSeq(p, 1, n - 1) \in Seq(STRING)
        /\ Len(SubSeq(p, 1, n - 1)) = IF 1 <= n - 1 THEN (n - 1) - 1 + 1 ELSE 0
    BY <2>2, SubSeqProperties
  <2>4. (IF 1 <= n - 1 THEN (n - 1) - 1 + 1 ELSE 0) = n - 1
    BY <2>1
  <2>5. Front(p) = SubSeq(p, 1, n - 1)
    BY Zenon, <2>1 DEF Front
  <2> QED  BY Zenon, <2>1, <2>3, <2>4, <2>5
<1> QED  BY <1>5, <1>6, <1>7

\* A write at an offset leaves a sequence of blocks, and a longer prefix of
\* the entry where there was a prefix of it.
LEMMA PatchedTyped ==
    ASSUME NEW old \in Seq(Blocks), NEW k \in Nat \ {0}, NEW b \in Blocks
    PROVE  Patched(old, k, b) \in Seq(Blocks)
<1> DEFINE n == IF k > Len(old) THEN k ELSE Len(old)
           F(i) == IF i = k THEN b ELSE IF i <= Len(old) THEN old[i] ELSE Hole
<1>1. n \in Nat
  OBVIOUS
<1>2. \A i \in 1 .. n : F(i) \in Blocks
  <2>1. \A i \in 1 .. Len(old) : old[i] \in Blocks
    OBVIOUS
  <2>2. Hole \in Blocks
    BY DEF Blocks
  <2> QED  BY <2>1, <2>2
<1>3. [i \in 1 .. n |-> F(i)] \in [1 .. n -> Blocks]
  BY <1>2
<1>4. [i \in 1 .. n |-> F(i)] \in Seq(Blocks)
  BY <1>1, <1>3, SeqDef
<1> QED  BY <1>4 DEF Patched

LEMMA PatchedPrefix ==
    ASSUME NEW blocks \in Seq(Blocks), NEW w \in Nat, w < Len(blocks)
    PROVE  Patched(SubSeq(blocks, 1, w), w + 1, blocks[w + 1]) = SubSeq(blocks, 1, w + 1)
<1> DEFINE old == SubSeq(blocks, 1, w)
<1>1. old \in Seq(Blocks) /\ Len(old) = w /\ \A i \in 1 .. w : old[i] = blocks[i]
  BY SubSeqProperties
<1>2. SubSeq(blocks, 1, w + 1) = [i \in 1 .. w + 1 |-> blocks[i]]
  OBVIOUS
<1>3. Patched(old, w + 1, blocks[w + 1]) = [i \in 1 .. w + 1 |-> blocks[i]]
  BY <1>1 DEF Patched
<1> QED  BY <1>2, <1>3
-----------------------------------------------------------------------------
(* The steps, as the two halves of the model see them. *)

\* What a write does to the files, and to whom it comes too late.
LEMMA Writes ==
    ASSUME FileTypes, NEW p \in Paths, NEW b \in Seq(Blocks), Write(p, b)
    PROVE  /\ DOMAIN content' = DOMAIN content \cup {p}
           /\ DOMAIN mtime' = DOMAIN mtime \cup {p}
           /\ content'[p] = b /\ mtime'[p] = now
           /\ \A q \in DOMAIN content :
                q # p => content'[q] = content[q] /\ mtime'[q] = mtime[q]
           /\ content' \in [DOMAIN content' -> Seq(Blocks)]
           /\ mtime' \in [DOMAIN mtime' -> Nat]
           /\ racy \subseteq racy'
           /\ p \in Asked /\ (Downloading(p) # {} \/ seen[p] = now) => p \in racy'
<1>1. /\ DOMAIN content' = DOMAIN content \cup {p}
      /\ DOMAIN mtime' = DOMAIN mtime \cup {p}
  BY DEF Write
<1>2. /\ content'[p] = b /\ mtime'[p] = now
      /\ \A q \in DOMAIN content :
           q # p => content'[q] = content[q] /\ mtime'[q] = mtime[q]
  BY DEF Write, FileTypes
<1>3. content' \in [DOMAIN content' -> Seq(Blocks)] /\ mtime' \in [DOMAIN mtime' -> Nat]
  BY DEF Write, FileTypes
<1>4. racy \subseteq racy'
  BY DEF Write
<1>5. p \in Asked /\ (Downloading(p) # {} \/ seen[p] = now) => p \in racy'
  BY DEF Write
<1> QED  BY <1>1, <1>2, <1>3, <1>4, <1>5

\* The entry a deployer is at.
LEMMA AtTyped ==
    ASSUME DeployTypes, AtEntry, NEW d \in Deployers, at[d] \in {"open", "write"}
    PROVE  /\ entry[d] \in 1 .. Len(Archive[d]) /\ Current(d) = Archive[d][entry[d]]
           /\ Current(d) \in EntryRecords /\ Current(d).kind = "file"
           /\ Current(d).path \in Paths /\ Current(d).blocks \in Seq(Blocks)
<1>0. Archive[d] \in Seq(EntryRecords) /\ entry[d] \in Nat
  BY ArchiveAssumption DEF EntryRecords, DeployTypes
<1>1. /\ 1 <= entry[d] /\ entry[d] <= Len(Archive[d]) /\ Current(d).kind = "file"
  BY DEF AtEntry, InOrder
<1>2. entry[d] \in 1 .. Len(Archive[d])
  BY <1>0, <1>1
<1> QED  BY <1>1, <1>2, EntryTyped DEF Current

\* The writes of a deployer: the truncation, and one of a block that leaves
\* in full what was there in full so far.
LEMMA OpenWrites ==
    ASSUME FileTypes, DeployTypes, AtEntry, NEW d \in Deployers, OpenEntry(d)
    PROVE  /\ Current(d).path \in Paths /\ <<>> \in Seq(Blocks)
           /\ Write(Current(d).path, <<>>)
BY AtTyped DEF OpenEntry

LEMMA BlockWrites ==
    ASSUME FileTypes, DeployTypes, AtEntry, NEW d \in Deployers, WriteBlock(d)
    PROVE  \E b \in Seq(Blocks) :
             /\ Write(Current(d).path, b)
             /\ content[Current(d).path] = SubSeq(Current(d).blocks, 1, written[d])
                  => b = SubSeq(Current(d).blocks, 1, written[d] + 1)
<1> DEFINE old == content[Current(d).path]
           blocks == Current(d).blocks
           k == written[d] + 1
<1>1. at[d] = "write" /\ written[d] < Len(blocks) /\ Write(Current(d).path, Patched(old, k, blocks[k]))
  BY DEF WriteBlock
<1>2. blocks \in Seq(Blocks) /\ Exists(Current(d).path) /\ written[d] \in Nat
  BY <1>1, AtTyped DEF AtEntry, InOrder, DeployTypes
<1>3. old \in Seq(Blocks)
  BY <1>2 DEF Exists, FileTypes
<1>4. k \in Nat \ {0} /\ blocks[k] \in Blocks
  BY <1>1, <1>2
<1>5. Patched(old, k, blocks[k]) \in Seq(Blocks)
  BY <1>3, <1>4, PatchedTyped
<1>6. old = SubSeq(blocks, 1, written[d]) => Patched(old, k, blocks[k]) = SubSeq(blocks, 1, k)
  BY <1>1, <1>2, PatchedPrefix
<1> QED  BY <1>1, <1>5, <1>6

\* What the downloads see of a step.
Writing(d, b) == /\ Current(d).path \in Paths
                 /\ Write(Current(d).path, b) /\ UNCHANGED <<now, getVars>>

LEMMA DownloadSteps ==
    ASSUME FileTypes, DeployTypes, AtEntry, [Next]_vars
    PROVE  \/ UNCHANGED <<now, files, getVars, racy>>
           \/ Tick
           \/ \E d \in Deployers, b \in Seq(Blocks) : Writing(d, b)
           \/ \E c \in Clients : Download(c)
<1>1. ASSUME NEW d \in Deployers, Deploy(d), ~OpenEntry(d), ~WriteBlock(d)
      PROVE  UNCHANGED <<now, files, getVars, racy>>
  BY <1>1 DEF Deploy, Ensure, Refuse, SkipEntry, MakeParent, OpenFails, OpenRefused, ShortWrite, LoseTail,
              EntryDone, Report
<1>2. ASSUME NEW d \in Deployers, OpenEntry(d)
      PROVE  \E b \in Seq(Blocks) : Writing(d, b)
  <2>1. UNCHANGED <<now, getVars>>
    BY <1>2 DEF OpenEntry
  <2> QED  BY <1>2, <2>1, OpenWrites DEF Writing
<1>3. ASSUME NEW d \in Deployers, WriteBlock(d)
      PROVE  \E b \in Seq(Blocks) : Writing(d, b)
  <2>1. UNCHANGED <<now, getVars>> /\ at[d] = "write"
    BY <1>3 DEF WriteBlock
  <2> QED  BY <1>3, <2>1, BlockWrites, AtTyped DEF Writing
<1>4. CASE Quiet
  BY <1>4 DEF Quiet, vars
<1>5. CASE UNCHANGED vars
  BY <1>5 DEF vars
<1> QED  BY <1>1, <1>2, <1>3, <1>4, <1>5 DEF Next

\* And what a deployment sees of the others'.
LEMMA DeploySteps ==
    ASSUME [Next]_vars
    PROVE  \/ UNCHANGED <<content, deployVars>>
           \/ \E d \in Deployers : Deploy(d)
<1>1. CASE Tick
  BY <1>1 DEF Tick, files
<1>2. ASSUME NEW c \in Clients, Download(c)
      PROVE  UNCHANGED <<content, deployVars>>
  BY <1>2 DEF Download, Examine, Decide, ReadBlock, ReadEnds, Leave, Keep, files
<1>3. CASE Quiet
  BY <1>3 DEF Quiet, vars, files
<1>4. CASE UNCHANGED vars
  BY <1>4 DEF vars, files
<1> QED  BY <1>1, <1>2, <1>3, <1>4 DEF Next
-----------------------------------------------------------------------------
(* The downloads. *)

DownloadInv == FileTypes /\ GetTypes /\ Past /\ GetsKnow /\ CopiesTrue

LEMMA TickKnows ==
    ASSUME DownloadInv, Tick
    PROVE  DownloadInv'
<1>1. /\ now' = now + 1 /\ now' <= MaxSecond /\ now' \in Nat /\ now <= now'
      /\ content' = content /\ mtime' = mtime /\ get' = get /\ copy' = copy /\ seen' = seen
      /\ racy' = racy
  BY BoundsAssumption DEF Tick, files, getVars, DownloadInv, FileTypes
<1>2. FileTypes' /\ GetTypes'
  BY <1>1 DEF DownloadInv, FileTypes, GetTypes
<1>3. Past'
  BY <1>1 DEF DownloadInv, Past, FileTypes
<1>4. GetsKnow'
  <2>2. SUFFICES ASSUME NEW c \in Clients, get[c].at # "idle"
                 PROVE  Knows(get[c])'
    BY <1>1 DEF GetsKnow
  <2>3. Knows(get[c]) /\ seen[get[c].path] \in Nat /\ now \in Nat
    BY <2>2 DEF DownloadInv, GetsKnow, Knows, GetTypes, FileTypes
  <2>4. /\ get[c].path \in Asked /\ Exists(get[c].path)'
        /\ get[c].mtime <= seen'[get[c].path] /\ seen'[get[c].path] <= now'
    BY <2>3, <1>1 DEF Knows, Exists
  <2> QED  BY <2>3, <2>4, <1>1 DEF Knows
<1>5. CopiesTrue'
  <2>1. SUFFICES ASSUME NEW c \in Clients, NEW p \in Asked
                 PROVE  True(p, copy[c][p])'
    BY <1>1 DEF CopiesTrue
  <2>2. True(p, copy[c][p]) /\ seen[p] \in Nat
    BY DEF DownloadInv, CopiesTrue, GetTypes
  <2>3. seen[p] <= now => seen'[p] <= now'
    BY <1>1, <2>2 DEF DownloadInv, FileTypes
  <2> QED  BY <2>2, <2>3, <1>1 DEF True, Exists
<1> QED  BY <1>2, <1>3, <1>4, <1>5 DEF DownloadInv

\* A write under a download, or in the second of the examination, is racy;
\* any other makes the file younger than whatever was examined.
LEMMA WriteKnows ==
    ASSUME DownloadInv, NEW d \in Deployers, NEW b \in Seq(Blocks), Writing(d, b)
    PROVE  DownloadInv'
<1> DEFINE w == Current(d).path
<1>1. /\ now' = now /\ get' = get /\ copy' = copy /\ seen' = seen /\ w \in Paths
  BY DEF Writing, getVars
<1>2. /\ DOMAIN content' = DOMAIN content \cup {w}
      /\ DOMAIN mtime' = DOMAIN mtime \cup {w}
      /\ mtime'[w] = now
      /\ \A q \in DOMAIN content : q # w => content'[q] = content[q] /\ mtime'[q] = mtime[q]
      /\ content' \in [DOMAIN content' -> Seq(Blocks)]
      /\ mtime' \in [DOMAIN mtime' -> Nat]
      /\ racy \subseteq racy'
      /\ w \in Asked /\ (Downloading(w) # {} \/ seen[w] = now) => w \in racy'
  BY Writes DEF Writing, DownloadInv
<1> HIDE DEF w
<1>3. FileTypes' /\ GetTypes'
  BY <1>1, <1>2 DEF DownloadInv, FileTypes, GetTypes
<1>4. Past'
  BY <1>1, <1>2 DEF DownloadInv, Past, FileTypes
<1>5. GetsKnow'
  <2>2. SUFFICES ASSUME NEW c \in Clients, get[c].at # "idle"
                 PROVE  Knows(get[c])'
    BY <1>1 DEF GetsKnow
  <2> DEFINE g == get[c]
  <2>3. Knows(g) /\ g \in Gets /\ seen[g.path] \in Nat /\ now \in Nat
    BY <2>2 DEF DownloadInv, GetsKnow, Knows, GetTypes, FileTypes
  <2>4. /\ g.path \in Asked /\ Exists(g.path)'
        /\ g.mtime <= seen'[g.path] /\ seen'[g.path] <= now'
    BY <2>3, <1>1, <1>2 DEF Knows, Exists
  <2>5. CASE g.path # w
    BY <2>3, <2>4, <2>5, <1>1, <1>2 DEF Knows, Exists
  <2>6. CASE g.path = w
    <3>1. g.path \notin racy' => g.at \notin {"examined", "read"} /\ seen[w] # now
      BY <2>6, <2>3, <1>2 DEF Downloading, Knows
    <3>2. g.path \notin racy' => g.mtime # mtime'[g.path]
      BY <3>1, <2>3, <2>6, <1>2 DEF Knows, Gets
    <3>3. g.path \notin racy' => g.path \notin racy
      BY <1>2
    <3> QED  BY <3>1, <3>2, <3>3, <2>3, <2>4, <1>1 DEF Knows
  <2> QED  BY <2>5, <2>6
<1>6. CopiesTrue'
  <2>1. SUFFICES ASSUME NEW c \in Clients, NEW p \in Asked
                 PROVE  True(p, copy[c][p])'
    BY <1>1 DEF CopiesTrue
  <2> DEFINE k == copy[c][p]
  <2>2. True(p, k) /\ seen[p] \in Nat /\ k \in Copies /\ now \in Nat
    BY DEF DownloadInv, CopiesTrue, GetTypes, FileTypes
  <2>5. CASE p # w
    BY <2>2, <2>5, <1>1, <1>2 DEF True, Exists
  <2>6. CASE p = w
    <3>1. p \notin racy' => seen[p] # now
      BY <2>6, <1>2
    <3>2. p \notin racy' /\ k.mtime # Never => k.mtime # mtime'[p]
      BY <3>1, <2>2, <2>6, <1>2 DEF True, Copies
    <3> QED  BY <3>2, <2>2, <2>6, <1>1, <1>2 DEF True, Exists
  <2> QED  BY <2>5, <2>6
<1> QED  BY <1>3, <1>4, <1>5, <1>6 DEF DownloadInv

\* A download leaves the files, and whatever the other clients know of them.
LEMMA OthersKnow ==
    ASSUME DownloadInv, NEW c \in Clients, Download(c), ~Examine(c)
    PROVE  /\ now' = now /\ content' = content /\ mtime' = mtime /\ racy' = racy /\ seen' = seen
           /\ FileTypes' /\ Past'
           /\ \A o \in Clients : o # c => get'[o] = get[o]
<1>1. now' = now /\ content' = content /\ mtime' = mtime /\ racy' = racy /\ seen' = seen
  BY DEF Download, Decide, ReadBlock, ReadEnds, Leave, Keep, files
<1>2. FileTypes' /\ Past'
  BY <1>1 DEF DownloadInv, FileTypes, Past
<1>3. \A o \in Clients : o # c => get'[o] = get[o]
  <2>1. get \in [Clients -> Gets]
    BY DEF DownloadInv, GetTypes
  <2> QED  BY <2>1 DEF Download, Decide, ReadBlock, ReadEnds, Leave, Keep
<1> QED  BY <1>1, <1>2, <1>3

\* Once it is known what becomes of the client's own download, a step that
\* examines nothing and keeps nothing is done.
LEMMA OwnKnows ==
    ASSUME DownloadInv, NEW c \in Clients, Download(c), ~Examine(c), copy' = copy,
           NEW g \in Gets, get' = [get EXCEPT ![c] = g], g.at = "idle" \/ Knows(g)
    PROVE  DownloadInv'
<1>1. /\ now' = now /\ content' = content /\ mtime' = mtime /\ racy' = racy /\ seen' = seen
      /\ FileTypes' /\ Past'
  BY OthersKnow
<1>2. get \in [Clients -> Gets] /\ GetTypes'
  BY <1>1 DEF DownloadInv, GetTypes
<1>3. GetsKnow'
  <2>1. \A o \in Clients : get'[o].at # "idle" => Knows(get'[o])
    BY <1>2 DEF DownloadInv, GetsKnow
  <2> QED  BY <2>1, <1>1 DEF GetsKnow, Knows, Exists
<1>4. CopiesTrue'
  BY <1>1 DEF DownloadInv, CopiesTrue, True, Exists
<1> QED  BY <1>1, <1>2, <1>3, <1>4 DEF DownloadInv

LEMMA DecideKnows ==
    ASSUME DownloadInv, NEW c \in Clients, Decide(c)
    PROVE  DownloadInv'
<1> DEFINE place == IF copy[c][get[c].path].mtime = get[c].mtime THEN "304" ELSE "read"
           g == [get[c] EXCEPT !.at = place]
<1>1. get[c].at = "examined" /\ get[c] \in Gets /\ Knows(get[c]) /\ get \in [Clients -> Gets]
  BY DEF Decide, DownloadInv, GetTypes, GetsKnow
<1>2. g \in Gets
  BY <1>1 DEF Gets, GetPlaces
<1>3. get' = [get EXCEPT ![c] = g] /\ copy' = copy
  BY <1>1 DEF Decide
<1>4. Knows(g)
  BY <1>1 DEF Knows, Gets
<1>5. Download(c) /\ ~Examine(c)
  BY <1>1 DEF Download, Examine
<1> QED  BY <1>2, <1>3, <1>4, <1>5, OwnKnows

LEMMA ReadBlockKnows ==
    ASSUME DownloadInv, NEW c \in Clients, ReadBlock(c)
    PROVE  DownloadInv'
<1> DEFINE old == get[c]
           file == content[old.path]
           g == [old EXCEPT !.body = Append(@, file[Len(old.body) + 1])]
<1>1. /\ old.at = "read" /\ old \in Gets /\ Knows(old) /\ get \in [Clients -> Gets]
      /\ Len(old.body) < Len(file)
  BY DEF ReadBlock, DownloadInv, GetTypes, GetsKnow
<1>2. file \in Seq(Blocks) /\ old.body \in Seq(Blocks)
  BY <1>1 DEF Knows, Exists, DownloadInv, FileTypes, Gets
<1>3. /\ Append(old.body, file[Len(old.body) + 1]) \in Seq(Blocks)
      /\ Len(Append(old.body, file[Len(old.body) + 1])) = Len(old.body) + 1
      /\ \A i \in 1 .. Len(old.body) + 1 :
           Append(old.body, file[Len(old.body) + 1])[i] =
               IF i <= Len(old.body) THEN old.body[i] ELSE file[i]
  BY <1>1, <1>2
<1> DEFINE body == Append(old.body, file[Len(old.body) + 1])
<1>4. /\ g.at = "read" /\ g.path = old.path /\ g.size = old.size /\ g.mtime = old.mtime
      /\ g.body = body /\ g \in Gets
  BY <1>1, <1>3 DEF Gets
<1>5. Knows(g)
  <2>1. /\ g.path \in Asked /\ Exists(g.path)
        /\ g.mtime <= seen[g.path] /\ seen[g.path] <= now
    BY <1>1, <1>4 DEF Knows
  <2>2. ASSUME g.path \notin racy
        PROVE  /\ g.size = Len(content[g.path]) /\ g.mtime = mtime[g.path]
               /\ Len(g.body) <= g.size
               /\ \A i \in 1 .. Len(g.body) : g.body[i] = content[g.path][i]
    <3>1. /\ old.size = Len(file) /\ old.mtime = mtime[old.path]
          /\ \A i \in 1 .. Len(old.body) : old.body[i] = file[i]
      BY <1>1, <1>4, <2>2 DEF Knows
    <3>2. Len(body) = Len(old.body) + 1 /\ Len(old.body) \in Nat /\ Len(file) \in Nat
      BY <1>2, <1>3
    <3> HIDE DEF body, g, old, file
    <3>3. \A i \in 1 .. Len(body) : body[i] = file[i]
      BY <1>3, <3>1, <3>2 DEF body
    <3> QED  BY <3>1, <3>2, <3>3, <1>1, <1>4 DEF file
  <2> QED  BY <2>1, <2>2, <1>4 DEF Knows
<1>6. get' = [get EXCEPT ![c] = g] /\ copy' = copy
  BY <1>1 DEF ReadBlock
<1>7. Download(c) /\ ~Examine(c)
  BY <1>1 DEF Download, Examine
<1> QED  BY <1>4, <1>5, <1>6, <1>7, OwnKnows

LEMMA ReadEndsKnows ==
    ASSUME DownloadInv, NEW c \in Clients, ReadEnds(c)
    PROVE  DownloadInv'
<1> DEFINE old == get[c]
           file == content[old.path]
           g == [old EXCEPT !.at = "200"]
<1>1. /\ old.at = "read" /\ old \in Gets /\ Knows(old) /\ get \in [Clients -> Gets]
      /\ Len(old.body) >= Len(file)
  BY DEF ReadEnds, DownloadInv, GetTypes, GetsKnow
<1>2. file \in Seq(Blocks) /\ old.body \in Seq(Blocks)
  BY <1>1 DEF Knows, Exists, DownloadInv, FileTypes, Gets
<1>3. g \in Gets
  BY <1>1 DEF Gets, GetPlaces
<1>4. old.path \notin racy => old.body = file /\ Len(old.body) = old.size
  <2>1. SUFFICES ASSUME old.path \notin racy
                 PROVE  old.body = file /\ Len(old.body) = old.size
    OBVIOUS
  <2>2. /\ old.size = Len(file) /\ Len(old.body) <= old.size
        /\ \A i \in 1 .. Len(old.body) : old.body[i] = file[i]
    BY <1>1, <2>1 DEF Knows
  <2>3. Len(old.body) = Len(file)
    BY <1>1, <1>2, <2>2
  <2> QED  BY <1>2, <2>2, <2>3, SeqEqual
<1>5. Knows(g)
  BY <1>1, <1>4 DEF Knows, Gets
<1>6. get' = [get EXCEPT ![c] = g] /\ copy' = copy
  BY <1>1 DEF ReadEnds
<1>7. Download(c) /\ ~Examine(c)
  BY <1>1 DEF Download, Examine
<1> QED  BY <1>3, <1>5, <1>6, <1>7, OwnKnows

LEMMA LeaveKnows ==
    ASSUME DownloadInv, NEW c \in Clients, Leave(c)
    PROVE  DownloadInv'
<1>1. get[c].at = "read" /\ get' = [get EXCEPT ![c] = NoGet] /\ copy' = copy
  BY DEF Leave
<1>2. NoGet \in Gets /\ NoGet.at = "idle"
  BY BoundsAssumption DEF NoGet, Gets, GetPlaces, Never
<1>3. Download(c) /\ ~Examine(c)
  BY <1>1 DEF Download, Examine, Leave
<1> QED  BY <1>1, <1>2, <1>3, OwnKnows

\* What is examined is known; that it was examined later does no harm.
LEMMA ExamineKnows ==
    ASSUME DownloadInv, NEW c \in Clients, Examine(c)
    PROVE  DownloadInv'
<1>1. /\ now' = now /\ content' = content /\ mtime' = mtime /\ racy' = racy /\ copy' = copy
  BY DEF Examine, files
<1>2. PICK p \in Asked \cap DOMAIN content : Examined(c, p)
  BY DEF Examine
<1> DEFINE g == [at |-> "examined", path |-> p, size |-> Len(content[p]),
                 mtime |-> mtime[p], body |-> <<>>]
<1>3. /\ get' = [get EXCEPT ![c] = g] /\ seen' = [seen EXCEPT ![p] = now]
      /\ get \in [Clients -> Gets] /\ seen \in [Asked -> Nat] /\ now \in Nat
  BY <1>2 DEF Examined, DownloadInv, GetTypes, FileTypes
<1>4. content[p] \in Seq(Blocks) /\ mtime[p] \in Nat /\ p \in Seq(STRING) /\ mtime[p] <= now
  BY <1>2, PathTyped DEF DownloadInv, FileTypes, Past
<1>5. g \in Gets
  BY <1>4 DEF Gets, GetPlaces
<1>6. FileTypes' /\ Past' /\ GetTypes'
  BY <1>1, <1>3, <1>5 DEF DownloadInv, FileTypes, Past, GetTypes
<1>7. /\ seen'[p] = now
      /\ \A q \in Asked : q # p => seen'[q] = seen[q]
  BY <1>3
<1>8. GetsKnow'
  <2>1. SUFFICES ASSUME NEW o \in Clients, get'[o].at # "idle"
                 PROVE  Knows(get[o])'
    BY DEF GetsKnow
  <2>2. CASE o = c
    <3>1. get'[o] = g
      BY <1>3, <2>2
    <3>2. /\ g.path = p /\ g.at = "examined" /\ g.size = Len(content[p])
          /\ g.mtime = mtime[p] /\ g.body = <<>> /\ Len(<<>>) = 0 /\ Len(content[p]) \in Nat
      BY <1>4
    <3> HIDE DEF g
    <3> QED  BY <3>1, <3>2, <1>1, <1>2, <1>3, <1>4, <1>7 DEF Knows, Exists
  <2>3. CASE o # c
    <3>1. get'[o] = get[o] /\ get[o].at # "idle" /\ get[o] \in Gets
      BY <1>3, <2>1, <2>3
    <3>2. Knows(get[o])
      BY <3>1 DEF DownloadInv, GetsKnow
    <3> DEFINE h == get[o]
    <3>3. /\ h.path \in Asked /\ h.mtime \in Nat /\ seen[h.path] \in Nat
          /\ h.mtime <= seen[h.path] /\ seen[h.path] <= now
      BY <3>1, <3>2, <1>3 DEF Knows, Gets
    <3>4. h.mtime <= seen'[h.path] /\ seen'[h.path] <= now
      BY <3>3, <1>3, <1>7
    <3> QED  BY <3>1, <3>2, <3>3, <3>4, <1>1 DEF Knows, Exists
  <2> QED  BY <2>2, <2>3
<1>9. CopiesTrue'
  <2>1. SUFFICES ASSUME NEW o \in Clients, NEW q \in Asked
                 PROVE  True(q, copy[o][q])'
    BY DEF CopiesTrue
  <2>2. True(q, copy[o][q]) /\ copy[o][q] \in Copies /\ seen[q] \in Nat
    BY <1>3 DEF DownloadInv, CopiesTrue, GetTypes
  <2>3. seen[q] <= now => seen[q] <= seen'[q] /\ seen'[q] <= now
    BY <2>2, <1>3, <1>7
  <2>4. seen'[q] \in Nat
    BY <1>3
  <2> QED  BY <2>2, <2>3, <2>4, <1>1, <1>3 DEF True, Exists, Copies
<1> QED  BY <1>6, <1>8, <1>9 DEF DownloadInv

LEMMA KeepKnows ==
    ASSUME DownloadInv, NEW c \in Clients, Keep(c)
    PROVE  DownloadInv'
<1> DEFINE g == get[c]
           k == [blocks |-> SubSeq(g.body, 1, g.size), mtime |-> g.mtime]
<1>1. /\ g \in Gets /\ g.at \in {"200", "304"} /\ Knows(g) /\ get' = [get EXCEPT ![c] = NoGet]
      /\ get \in [Clients -> Gets] /\ copy \in [Clients -> [Asked -> Copies]]
  BY DEF Keep, DownloadInv, GetTypes, GetsKnow
<1>2. NoGet \in Gets /\ NoGet.at = "idle"
  BY BoundsAssumption DEF NoGet, Gets, GetPlaces, Never
<1>3. Download(c) /\ ~Examine(c)
  BY <1>1 DEF Download, Examine
<1>4. /\ now' = now /\ content' = content /\ mtime' = mtime /\ racy' = racy /\ seen' = seen
      /\ FileTypes' /\ Past'
  BY <1>3, OthersKnow
<1>5. CASE copy' = copy
  BY <1>1, <1>2, <1>3, <1>5, OwnKnows
<1>6. CASE g.at = "200" /\ Len(g.body) >= g.size /\ copy' = [copy EXCEPT ![c][g.path] = k]
  <2>1. g.body \in Seq(Blocks) /\ g.size \in Nat /\ g.mtime \in Nat /\ g.path \in Asked
    BY <1>1 DEF Gets, Knows
  <2>2. k \in Copies
    <3>1. \A i \in 1 .. g.size : g.body[i] \in Blocks
      BY <2>1, <1>6
    <3>2. SubSeq(g.body, 1, g.size) \in Seq(Blocks)
      BY <3>1, <2>1, SubSeqProperties
    <3> QED  BY <3>2, <2>1 DEF Copies
  <2>3. True(g.path, k)
    <3>1. ASSUME g.path \notin racy, g.mtime = mtime[g.path]
          PROVE  SubSeq(g.body, 1, g.size) = content[g.path]
      <4>1. Len(g.body) = g.size /\ g.body = content[g.path]
        BY <3>1, <1>1, <1>6 DEF Knows
      <4> QED  BY <4>1, <2>1, SubSeqFull
    <3>2. /\ Exists(g.path) /\ g.mtime <= seen[g.path] /\ seen[g.path] <= now
      BY <1>1 DEF Knows
    <3> QED  BY <3>1, <3>2 DEF True
  <2> HIDE DEF k
  <2>4. GetTypes'
    BY <1>1, <1>2, <1>4, <1>6, <2>1, <2>2 DEF DownloadInv, GetTypes
  <2>5. GetsKnow'
    BY <1>1, <1>2, <1>4 DEF DownloadInv, GetsKnow, Knows, Exists
  <2>6. \A o \in Clients, q \in Asked :
            copy'[o][q] = IF o = c /\ q = g.path THEN k ELSE copy[o][q]
    BY <1>1, <1>6, <2>1
  <2>7. \A o \in Clients, q \in Asked : True(q, copy'[o][q])
    BY <2>3, <2>6 DEF DownloadInv, CopiesTrue
  <2>8. CopiesTrue'
    BY <2>7, <1>4 DEF CopiesTrue, True, Exists
  <2> QED  BY <1>4, <2>4, <2>5, <2>8 DEF DownloadInv
<1> QED  BY <1>5, <1>6 DEF Keep

\* The downloads keep their invariant, given where the deployers are.
LEMMA DownloadsKnow ==
    ASSUME DownloadInv, DeployTypes, AtEntry, [Next]_vars
    PROVE  DownloadInv'
<1>1. CASE UNCHANGED <<now, files, getVars, racy>>
  BY <1>1 DEF files, getVars, DownloadInv, FileTypes, GetTypes, Past, GetsKnow, Knows, Exists,
              CopiesTrue, True
<1>2. CASE Tick
  BY <1>2, TickKnows
<1>3. ASSUME NEW d \in Deployers, NEW b \in Seq(Blocks), Writing(d, b)
      PROVE  DownloadInv'
  BY <1>3, WriteKnows
<1>4. ASSUME NEW c \in Clients, Download(c)
      PROVE  DownloadInv'
  BY <1>4, ExamineKnows, DecideKnows, ReadBlockKnows, ReadEndsKnows, LeaveKnows, KeepKnows
     DEF Download
<1> QED  BY <1>1, <1>2, <1>3, <1>4, DownloadSteps DEF DownloadInv
-----------------------------------------------------------------------------
(* The deployments. *)

\* No file disappears.
LEMMA FilesStay ==
    ASSUME FileTypes, DeployTypes, AtEntry, [Next]_vars
    PROVE  DOMAIN content \subseteq DOMAIN content'
<1>1. CASE UNCHANGED <<now, files, getVars, racy>>
  BY <1>1 DEF files
<1>2. CASE Tick
  BY <1>2 DEF Tick, files
<1>3. ASSUME NEW d \in Deployers, NEW b \in Seq(Blocks), Writing(d, b)
      PROVE  DOMAIN content \subseteq DOMAIN content'
  BY <1>3, Writes DEF Writing
<1>4. ASSUME NEW c \in Clients, Download(c)
      PROVE  DOMAIN content \subseteq DOMAIN content'
  BY <1>4 DEF Download, Examine, Decide, ReadBlock, ReadEnds, Leave, Keep, files
<1> QED  BY <1>1, <1>2, <1>3, <1>4, DownloadSteps

\* A deployment's step moves no other deployment, and takes no directory away.
LEMMA DeployFrame ==
    ASSUME DeployTypes, NEW d \in Deployers, Deploy(d)
    PROVE  /\ DeployTypes'
           /\ \A e \in Deployers :
                e # d => /\ at'[e] = at[e] /\ entry'[e] = entry[e] /\ written'[e] = written[e]
                         /\ extracted'[e] = extracted[e] /\ full'[e] = full[e]
                         /\ tails'[e] = tails[e] /\ opened'[e] = opened[e]
           /\ dirs \subseteq dirs'
           /\ overlapped => overlapped'
<1>0. DOMAIN Archive[d] \in SUBSET Nat
  <2>1. Archive[d] \in Seq(EntryRecords)
    BY ArchiveAssumption DEF EntryRecords
  <2> QED  BY <2>1
<1> USE DEF DeployTypes, Places, Move, NextEntry, RanOut
<1>1. CASE Ensure(d)
  BY <1>0, <1>1 DEF Ensure
<1>2. CASE Refuse(d)
  BY <1>2 DEF Refuse
<1>3. CASE SkipEntry(d)
  BY <1>3 DEF SkipEntry
<1>4. CASE MakeParent(d)
  <2>1. /\ at' = [at EXCEPT ![d] = "open"] /\ dirs \subseteq dirs'
        /\ UNCHANGED <<entry, written, extracted, tails, opened, overlapped>>
        /\ full' = full \/ full' = [full EXCEPT ![d] = @ \cup {entry[d]}]
    BY <1>4 DEF MakeParent
  <2>2. full' \in [Deployers -> SUBSET Nat] /\ \A e \in Deployers : e # d => full'[e] = full[e]
    BY <2>1
  <2> QED  BY <2>1, <2>2
<1>5. CASE OpenEntry(d)
  BY <1>5 DEF OpenEntry
<1>6. CASE OpenFails(d)
  BY <1>6 DEF OpenFails
<1>7. CASE WriteBlock(d)
  BY <1>7 DEF WriteBlock
<1>8. CASE ShortWrite(d)
  BY <1>8 DEF ShortWrite
<1>9. CASE LoseTail(d)
  BY <1>9 DEF LoseTail
<1>10. CASE EntryDone(d)
  BY <1>10 DEF EntryDone
<1>11. CASE Report(d)
  BY <1>11 DEF Report
<1>12. CASE OpenRefused(d)
  BY <1>12 DEF OpenRefused
<1> QED  BY <1>12, <1>1, <1>2, <1>3, <1>4, <1>5, <1>6, <1>7, <1>8, <1>9, <1>10, <1>11 DEF Deploy

LEMMA StaysInOrder ==
    ASSUME FileTypes, DeployTypes, AtEntry, [Next]_vars
    PROVE  DeployTypes' /\ AtEntry'
<1>0. DOMAIN content \subseteq DOMAIN content'
  BY FilesStay
<1>1. CASE UNCHANGED <<content, deployVars>>
  BY <1>1 DEF deployVars, DeployTypes, AtEntry, InOrder, OpenedSoFar, Exists, Current
<1>2. ASSUME NEW d \in Deployers, Deploy(d)
      PROVE  DeployTypes' /\ AtEntry'
  <2>1. DeployTypes'
    BY <1>2, DeployFrame
  <2>2. ASSUME NEW e \in Deployers, e # d
        PROVE  InOrder(e)'
    BY <1>0, <1>2, <2>2, DeployFrame DEF AtEntry, InOrder, OpenedSoFar, Exists, Current
  <2>3. CASE OpenEntry(d)
    <3>1. Current(d).path \in Paths /\ Write(Current(d).path, <<>>) /\ <<>> \in Seq(Blocks)
      BY <2>3, OpenWrites
    <3>2. Current(d).path \in DOMAIN content'
      BY <3>1 DEF Write
    <3>3. Len(Current(d).blocks) \in Nat /\ Current(d).kind = "file"
      BY <2>3, AtTyped DEF OpenEntry
    <3>4. /\ at[d] = "open" /\ at'[d] = "write" /\ entry' = entry /\ written' = written
          /\ opened'[d] = opened[d] \cup {entry[d]}
      BY <2>3 DEF OpenEntry, DeployTypes, Move
    <3>5. entry[d] \in DOMAIN Archive[d] /\ Archive[d][entry[d]] = Current(d)
      <4>1. Archive[d] \in Seq(EntryRecords)
        BY ArchiveAssumption DEF EntryRecords
      <4> QED  BY <3>4, <4>1, AtTyped
    <3>6. \A k \in opened[d] : /\ k \in DOMAIN Archive[d] /\ Exists(Archive[d][k].path)
                               /\ k < entry[d]
      BY <3>4 DEF AtEntry, InOrder, OpenedSoFar
    <3>7. \A k \in opened'[d] :
            /\ k \in DOMAIN Archive[d] /\ Exists(Archive[d][k].path)'
            /\ k < entry[d] \/ k = entry[d]
      BY <1>0, <3>2, <3>4, <3>5, <3>6 DEF Exists
    <3>8. 1 <= entry[d] /\ entry[d] <= Len(Archive[d]) /\ written[d] = 0
      BY <3>4 DEF AtEntry, InOrder
    <3>9. InOrder(d)'
      BY <3>2, <3>3, <3>4, <3>7, <3>8 DEF Current, InOrder, OpenedSoFar, Exists
    <3> QED  BY <2>1, <2>2, <3>9 DEF AtEntry
  <2>4. CASE ~OpenEntry(d)
    <3>0. SUFFICES InOrder(d)'
      BY <2>1, <2>2 DEF AtEntry
    <3>1. InOrder(d) /\ opened' = opened /\ entry[d] \in Nat
      BY <1>2, <2>4
         DEF AtEntry, DeployTypes, Deploy, Ensure, Refuse, SkipEntry, MakeParent, OpenFails, OpenRefused,
             WriteBlock, ShortWrite, LoseTail, EntryDone, Report
    <3>2. \/ entry'[d] = entry[d] /\ (at[d] = "write" => at'[d] = "write")
          \/ entry'[d] = entry[d] + 1
      BY <1>2, <2>4
         DEF DeployTypes, Deploy, Ensure, Refuse, SkipEntry, MakeParent, OpenFails, OpenRefused,
             WriteBlock, ShortWrite, LoseTail, EntryDone, Report, Move, NextEntry
    <3>3. OpenedSoFar(d)'
      <4>1. ASSUME NEW k \in opened[d]
            PROVE  /\ k \in DOMAIN Archive[d] /\ Exists(Archive[d][k].path)'
                   /\ k < entry'[d] \/ (k = entry'[d] /\ at'[d] = "write")
        <5>1. /\ k \in DOMAIN Archive[d] /\ Archive[d][k].path \in DOMAIN content
              /\ k < entry[d] \/ (k = entry[d] /\ at[d] = "write")
          BY <3>1 DEF InOrder, OpenedSoFar, Exists
        <5>2. k \in Nat
          BY <3>1 DEF DeployTypes
        <5>3. Exists(Archive[d][k].path)'
          BY <1>0, <5>1 DEF Exists
        <5> QED  BY <3>1, <3>2, <5>1, <5>2, <5>3
      <4> QED  BY <3>1, <4>1 DEF OpenedSoFar
    <3> USE DEF InOrder, DeployTypes, Move, NextEntry
    <3>4. CASE Ensure(d)
      BY <3>1, <3>3, <3>4 DEF Ensure
    <3>5. CASE Refuse(d)
      BY <3>1, <3>3, <3>5 DEF Refuse
    <3>6. CASE SkipEntry(d)
      BY <3>1, <3>3, <3>6 DEF SkipEntry
    <3>7. CASE MakeParent(d)
      BY <3>1, <3>3, <3>7 DEF MakeParent, Current
    <3>8. CASE OpenFails(d)
      BY <3>1, <3>3, <3>8 DEF OpenFails
    <3>9. CASE WriteBlock(d)
      BY <3>1, <3>3, <3>9, <1>0 DEF WriteBlock, Current, Exists
    <3>10. CASE ShortWrite(d)
      BY <3>1, <3>3, <3>10 DEF ShortWrite
    <3>11. CASE LoseTail(d)
      BY <3>1, <3>3, <3>11 DEF LoseTail
    <3>12. CASE EntryDone(d)
      BY <3>1, <3>3, <3>12 DEF EntryDone
    <3>13. CASE Report(d)
      BY <3>1, <3>3, <3>13 DEF Report
    <3>14. CASE OpenRefused(d)
      BY <3>1, <3>3, <3>14 DEF OpenRefused
    <3> QED  BY <1>2, <2>4, <3>4, <3>5, <3>6, <3>7, <3>8, <3>9, <3>10, <3>11, <3>12, <3>13, <3>14
             DEF Deploy
  <2> QED  BY <2>3, <2>4
<1> QED  BY <1>1, <1>2, DeploySteps

\* A shallow entry's parent can be made, and its name is no directory's.
LEMMA ShallowTyped ==
    ASSUME NEW d \in Deployers, NEW k \in Shallow(d)
    PROVE  /\ k \in 1 .. Len(Archive[d]) /\ Archive[d][k].kind = "file"
           /\ Archive[d][k].path \in Paths /\ Len(Archive[d][k].path) <= 2
           /\ ~Clash(Archive[d][k].path)
<1>1. Archive[d] \in Seq(EntryRecords)
  BY ArchiveAssumption DEF EntryRecords
<1>2. k \in 1 .. Len(Archive[d]) /\ Archive[d][k].kind = "file"
  BY <1>1 DEF Shallow
<1>3. Archive[d][k].path \in Paths
  BY <1>2, EntryTyped
<1> QED  BY <1>2, <1>3 DEF Shallow

LEMMA ParentCanBeMade ==
    ASSUME NEW p \in Paths, Len(p) <= 2, ~Clash(p)
    PROVE  /\ Front(p) \notin Paths
           /\ Front(p) # <<>> => Front(Front(p)) = <<>>
<1>1. Front(p) \notin Paths
  BY DEF Clash
<1>2. ASSUME Front(p) # <<>>
      PROVE  Front(Front(p)) = <<>>
  <2>1. PICK n \in Nat : n = Len(p) /\ n >= 1
    BY PathTyped
  <2>2. Front(p) \in Seq(STRING) /\ Len(Front(p)) = n - 1
    BY <2>1, PathTyped
  <2>3. n - 1 = 1
    <3>1. n - 1 # 0
      BY <1>2, <2>2
    <3> QED  BY <2>1, <3>1
  <2>4. 1 - 1 = 0
    OBVIOUS
  <2>5. Front(Front(p)) = SubSeq(Front(p), 1, 0)
    BY Zenon, <2>4, <2>2, <2>3 DEF Front
  <2> QED  BY <2>5, SubSeqEmpty
<1> QED  BY <1>1, <1>2

LEMMA NoDirectoryOfThatName ==
    ASSUME NEW p \in Paths, ~Clash(p)
    PROVE  p \notin DirsNeeded
<1>1. SUFFICES ASSUME p \in DirsNeeded PROVE FALSE
  OBVIOUS
<1>2. PICK q \in Paths : p = Front(q)
  BY <1>1, PathTyped DEF DirsNeeded
<1>3. PICK n \in Nat : n = Len(q) /\ n >= 1
  BY PathTyped
<1>4. Len(p) = n - 1
  BY <1>2, <1>3, PathTyped
<1>5. SubSeq(q, 1, Len(p)) = p
  BY Zenon, <1>2, <1>3, <1>4 DEF Front
<1>6. Len(q) > Len(p)
  BY <1>3, <1>4
<1> QED  BY <1>5, <1>6 DEF Clash

LEMMA TreeStays ==
    ASSUME FileTypes, DeployTypes, AtEntry, Tree, [Next]_vars
    PROVE  Tree'
<1>1. CASE UNCHANGED <<content, deployVars>>
  BY <1>1 DEF deployVars, Tree, Current, Due
<1>2. ASSUME NEW d \in Deployers, Deploy(d)
      PROVE  Tree'
  <2>0. /\ \A e \in Deployers : e # d => at'[e] = at[e] /\ entry'[e] = entry[e] /\ full'[e] = full[e]
        /\ dirs \subseteq dirs'
        /\ at' \in [Deployers -> Places]
    BY <1>2, DeployFrame DEF DeployTypes
  <2>1. \A p \in DOMAIN content : p \in Paths /\ p # <<>>
    BY PathTyped DEF FileTypes
  <2>2. (\A p \in DOMAIN content' : Front(p) \in dirs' /\ p \notin dirs') /\ dirs' \subseteq DirsNeeded
    <3>1. CASE Ensure(d) \/ Refuse(d)
      BY <3>1, <2>1 DEF Ensure, Refuse, files, Tree, DirsNeeded
    <3>2. CASE MakeParent(d)
      <4> DEFINE parent == Front(Current(d).path)
      <4>1. /\ dirs' = dirs \/ (dirs' = dirs \cup {parent} /\ (parent = <<>> \/ ~Exists(parent)))
            /\ content' = content
        BY <3>2 DEF MakeParent, files
      <4>2. Archive[d] \in Seq(EntryRecords)
        BY ArchiveAssumption DEF EntryRecords
      <4>3. entry[d] \in 1 .. Len(Archive[d])
        BY <3>2, <4>2 DEF MakeParent, DeployTypes, AtEntry, InOrder
      <4>4. Current(d).path \in Paths
        BY <3>2, <4>3, EntryTyped DEF MakeParent, Current
      <4>5. parent \in DirsNeeded
        BY <4>4 DEF DirsNeeded
      <4> HIDE DEF parent
      <4> QED  BY <4>1, <4>5, <2>1 DEF Tree, Exists
    <3>3. CASE OpenEntry(d)
      <4>1. dirs' = dirs /\ CanOpen(Current(d).path)
            /\ DOMAIN content' = DOMAIN content \cup {Current(d).path}
        BY <3>3 DEF OpenEntry, Write
      <4> QED  BY <4>1 DEF Tree, CanOpen
    <3>4. CASE WriteBlock(d)
      <4>1. dirs' = dirs /\ Exists(Current(d).path)
            /\ DOMAIN content' = DOMAIN content \cup {Current(d).path}
        BY <3>4 DEF WriteBlock, Write, AtEntry, InOrder
      <4> QED  BY <4>1 DEF Tree, Exists
    <3>5. CASE dirs' = dirs /\ content' = content
      BY <3>5 DEF Tree
    <3> QED  BY <1>2, <3>1, <3>2, <3>3, <3>4, <3>5
             DEF Deploy, SkipEntry, OpenFails, OpenRefused, ShortWrite, LoseTail, EntryDone, Report, files
  <2>3. \A e \in Deployers : at'[e] \notin {"start", "refused"} => <<>> \in dirs' \/ full'[e] = DOMAIN Archive[e]
    <3>1. ASSUME NEW e \in Deployers, e # d, at'[e] \notin {"start", "refused"}
          PROVE  <<>> \in dirs' \/ full'[e] = DOMAIN Archive[e]
      BY <3>1, <2>0 DEF Tree
    <3>2. CASE Ensure(d)
      BY <3>2, <3>1 DEF Ensure, DeployTypes
    <3>3. CASE Refuse(d)
      BY <3>3, <3>1 DEF Refuse, Move, DeployTypes
    <3>4. CASE at[d] \notin {"start", "refused"}
      <4>1. ~Ensure(d) /\ full'[d] \in {full[d], full[d] \cup {entry[d]}}
        BY <1>2, <3>4 DEF Deploy, Ensure, Refuse, SkipEntry, MakeParent, OpenEntry, OpenFails, OpenRefused,
                          WriteBlock, ShortWrite, LoseTail, EntryDone, Report, RanOut, DeployTypes
      <4>2. full[d] = DOMAIN Archive[d] => full'[d] = full[d]
        <5>1. full'[d] # full[d] => entry[d] <= Len(Archive[d])
          BY <1>2, <3>4
             DEF Deploy, Ensure, Refuse, SkipEntry, MakeParent, OpenEntry, OpenFails, OpenRefused,
                 WriteBlock, ShortWrite, LoseTail, EntryDone, Report, RanOut, DeployTypes, AtEntry, InOrder
        <5>2. Archive[d] \in Seq(EntryRecords) /\ entry[d] \in Nat /\ 1 <= entry[d]
          BY ArchiveAssumption DEF EntryRecords, DeployTypes, AtEntry, InOrder
        <5>3. full'[d] # full[d] => entry[d] \in DOMAIN Archive[d]
          BY <5>1, <5>2
        <5> QED  BY <4>1, <5>3
      <4> QED  BY <3>4, <3>1, <2>0, <4>2 DEF Tree
    <3> QED  BY <1>2, <3>2, <3>3, <3>4
             DEF Deploy, SkipEntry, MakeParent, OpenEntry, OpenFails, OpenRefused, WriteBlock, ShortWrite,
                 LoseTail, EntryDone, Report
  <2>4. ASSUME NEW e \in Deployers, at'[e] = "open", entry'[e] \in Shallow(e) \ full'[e]
        PROVE  Front(Archive[e][entry'[e]].path) \in dirs'
    <3>1. CASE e # d
      <4>1. at[e] = "open" /\ entry[e] \in Due(e) /\ entry'[e] = entry[e]
        BY <3>1, <2>0, <2>4 DEF Due
      <4> QED  BY <4>1, <2>0 DEF Tree, Current
    <3>2. CASE e = d
      <4>1. MakeParent(d)
        BY <1>2, <2>4, <3>2
           DEF Deploy, Ensure, Refuse, SkipEntry, OpenEntry, OpenFails, OpenRefused, WriteBlock, ShortWrite,
               LoseTail, EntryDone, Report, Move, DeployTypes
      <4> DEFINE path == Current(d).path
      <4>0. entry[d] \notin full[d] /\ UNCHANGED full
        BY <4>1, <2>4, <3>2 DEF MakeParent, RanOut, DeployTypes
      <4>2. /\ entry' = entry /\ entry[d] \in Shallow(d) /\ at[d] = "entry"
            /\ dirs' = IF Front(path) = <<>> \/ (Front(Front(path)) \in dirs /\ ~Exists(Front(path)))
                       THEN dirs \cup {Front(path)} ELSE dirs
        BY <4>0, <4>1, <2>4, <3>2 DEF MakeParent, RanOut, DeployTypes
      <4>3. path \in Paths /\ Len(path) <= 2 /\ ~Clash(path)
        BY <4>2, ShallowTyped DEF Current
      <4>4. <<>> \in dirs
        <5>1. entry[d] \in DOMAIN Archive[d]
          BY <4>2 DEF Shallow
        <5> QED  BY <4>0, <4>2, <5>1 DEF Tree
      <4>5. Front(path) \notin Paths /\ (Front(path) # <<>> => Front(Front(path)) = <<>>)
        BY <4>3, ParentCanBeMade
      <4>6. ~Exists(Front(path))
        BY <4>5, <2>1 DEF Exists
      <4>7. Front(path) \in dirs'
        BY <4>2, <4>4, <4>5, <4>6
      <4> QED  BY <4>2, <4>7, <3>2 DEF Current
    <3> QED  BY <3>1, <3>2
  <2> QED  BY <2>2, <2>3, <2>4 DEF Tree, Current, Due
<1> QED  BY <1>1, <1>2, DeploySteps

\* How many of the entries in a set a deployment has passed.
LEMMA OneMore ==
    ASSUME NEW d \in Deployers, NEW k \in 1 .. Len(Archive[d]), NEW S,
           S \subseteq DOMAIN Archive[d]
    PROVE  /\ Cardinality(S \cap Before(d, k)) \in Nat
           /\ k \in S => Cardinality(S \cap Before(d, k + 1)) = Cardinality(S \cap Before(d, k)) + 1
           /\ k \notin S => S \cap Before(d, k + 1) = S \cap Before(d, k)
<1> DEFINE old == S \cap Before(d, k)
           new == S \cap Before(d, k + 1)
<1>1. Archive[d] \in Seq(EntryRecords)
  BY ArchiveAssumption DEF EntryRecords
<1>2. DOMAIN Archive[d] = 1 .. Len(Archive[d]) /\ Len(Archive[d]) \in Nat
  BY <1>1
<1>3. IsFiniteSet(old)
  <2>1. old \subseteq 1 .. Len(Archive[d])
    BY <1>2
  <2>2. IsFiniteSet(1 .. Len(Archive[d]))
    BY <1>2, FS_Interval
  <2> QED  BY <2>1, <2>2, FS_Subset
<1>4. new = (IF k \in S THEN old \cup {k} ELSE old) /\ k \notin old
  BY <1>2 DEF Before
<1> QED  BY <1>3, <1>4, FS_AddElement, FS_CardinalityType

LEMMA NoneYet ==
    ASSUME NEW d \in Deployers, NEW S
    PROVE  Cardinality(S \cap Before(d, 1)) = 0
<1>1. Archive[d] \in Seq(EntryRecords)
  BY ArchiveAssumption DEF EntryRecords
<1>2. S \cap Before(d, 1) = {}
  BY <1>1 DEF Before
<1> QED  BY <1>2, FS_EmptySet

LEMMA AllOfThem ==
    ASSUME NEW d \in Deployers, NEW k \in Nat, k > Len(Archive[d]), NEW S,
           S \subseteq DOMAIN Archive[d]
    PROVE  S \cap Before(d, k) = S
<1>1. Archive[d] \in Seq(EntryRecords)
  BY ArchiveAssumption DEF EntryRecords
<1> QED  BY <1>1 DEF Before

\* A shallow entry can be opened when its turn comes.
LEMMA ShallowOpens ==
    ASSUME DeployTypes, Tree, NEW d \in Deployers, at[d] = "open", entry[d] \in Due(d)
    PROVE  CanOpen(Current(d).path)
<1>1. Front(Current(d).path) \in dirs
  BY DEF Tree
<1>2. Current(d).path \notin dirs
  BY ShallowTyped, NoDirectoryOfThatName DEF Tree, Current, Due
<1> QED  BY <1>1, <1>2 DEF CanOpen

LEMMA LandsOnward ==
    ASSUME DeployTypes, AtEntry, Tree, LandSoFar, [Next]_vars
    PROVE  LandSoFar'
<1>1. CASE UNCHANGED <<content, deployVars>>
  BY <1>1 DEF deployVars, LandSoFar, Due
<1>2. ASSUME NEW d \in Deployers, Deploy(d)
      PROVE  LandSoFar'
  <2> DEFINE Passed(k) == Cardinality(Due(d) \cap Before(d, k))
  <2>1. extracted[d] >= Passed(entry[d])
    BY DEF LandSoFar
  <2>2. SUFFICES extracted'[d] >= Cardinality(Due(d)' \cap Before(d, entry'[d]))
    BY <1>2, DeployFrame DEF LandSoFar, Due
  <2>3. entry[d] \in Nat /\ 1 <= entry[d] /\ extracted[d] \in Nat
    BY DEF DeployTypes, AtEntry, InOrder
  <2>4. Due(d) \subseteq DOMAIN Archive[d] /\ Due(d)' = Shallow(d) \ full'[d]
    BY DEF Due, Shallow
  <2>5. Len(Archive[d]) \in Nat /\ DOMAIN Archive[d] = 1 .. Len(Archive[d])
    <3>1. Archive[d] \in Seq(EntryRecords)
      BY ArchiveAssumption DEF EntryRecords
    <3> QED  BY <3>1
\* An entry that is not due any more does not count.
  <2>6. ASSUME entry[d] \in 1 .. Len(Archive[d]), entry'[d] = entry[d] + 1, extracted' = extracted,
               full'[d] \in {full[d], full[d] \cup {entry[d]}}, entry[d] \notin Due(d)'
        PROVE  extracted'[d] >= Cardinality(Due(d)' \cap Before(d, entry'[d]))
    <3>1. Due(d)' \cap Before(d, entry[d] + 1) = Due(d) \cap Before(d, entry[d])
      BY <2>4, <2>5, <2>6 DEF Due, Before
    <3> QED  BY <2>1, <2>6, <3>1
  <2>7. CASE SkipEntry(d) \/ OpenFails(d)
    <3>1. /\ entry[d] <= Len(Archive[d]) /\ entry'[d] = entry[d] + 1
          /\ extracted' = extracted /\ full' = full
      BY <2>7 DEF SkipEntry, OpenFails, NextEntry, DeployTypes, AtEntry, InOrder
    <3>2. entry[d] \notin Due(d)
      <4>1. CASE SkipEntry(d)
        BY <4>1, ShallowTyped DEF SkipEntry, Current, Due
      <4>2. CASE OpenFails(d)
        BY <4>2, ShallowOpens DEF OpenFails
      <4> QED  BY <2>7, <4>1, <4>2
    <3> QED  BY <2>3, <2>5, <2>6, <3>1, <3>2 DEF Due
  <2>8. CASE OpenRefused(d) \/ ShortWrite(d)
    <3>1. /\ entry[d] <= Len(Archive[d]) /\ entry'[d] = entry[d] + 1
          /\ extracted' = extracted /\ full'[d] = full[d] \cup {entry[d]}
      BY <2>8 DEF OpenRefused, ShortWrite, NextEntry, RanOut, DeployTypes, AtEntry, InOrder
    <3> QED  BY <2>3, <2>4, <2>5, <2>6, <3>1
  <2>9. CASE LoseTail(d) \/ EntryDone(d)
    <3>1. /\ entry[d] <= Len(Archive[d]) /\ entry'[d] = entry[d] + 1
          /\ extracted'[d] = extracted[d] + 1 /\ full' = full
      BY <2>9 DEF LoseTail, EntryDone, NextEntry, DeployTypes, AtEntry, InOrder
    <3>2. entry[d] \in 1 .. Len(Archive[d])
      BY <2>3, <2>5, <3>1
    <3>3. PICK m \in Nat : m = Passed(entry[d])
      BY <2>4, <3>2, OneMore
    <3>4. /\ entry[d] \in Due(d) => Passed(entry[d] + 1) = Passed(entry[d]) + 1
          /\ entry[d] \notin Due(d) => Passed(entry[d] + 1) = Passed(entry[d])
      BY Zenon, <2>4, <3>2, OneMore
    <3>5. Cardinality(Due(d)' \cap Before(d, entry'[d])) = Passed(entry[d] + 1)
      BY <3>1 DEF Due
    <3> HIDE DEF Passed
    <3>6. Passed(entry[d] + 1) = m + 1 \/ Passed(entry[d] + 1) = m
      BY <3>4, <3>3
    <3> QED  BY <2>1, <2>3, <3>1, <3>3, <3>5, <3>6
  <2>10. CASE MakeParent(d)
    <3>1. entry' = entry /\ extracted' = extracted
          /\ full'[d] \in {full[d], full[d] \cup {entry[d]}}
      BY <2>10 DEF MakeParent, RanOut, DeployTypes
    <3>2. Due(d)' \cap Before(d, entry[d]) = Due(d) \cap Before(d, entry[d])
      BY <2>3, <2>4, <2>5, <3>1 DEF Due, Before
    <3> QED  BY <2>1, <3>1, <3>2
  <2>11. CASE Ensure(d)
    <3>1. entry'[d] = 1 /\ extracted'[d] \in Nat
      BY <2>3, <2>11 DEF Ensure, AtEntry, InOrder
    <3>2. Cardinality(Due(d)' \cap Before(d, 1)) = 0
      BY NoneYet
    <3> QED  BY <3>1, <3>2
  <2>12. CASE entry' = entry /\ extracted' = extracted /\ full' = full
    BY <2>1, <2>12 DEF Due
  <2> QED  BY <1>2, <2>7, <2>8, <2>9, <2>10, <2>11, <2>12 DEF Deploy, Refuse, OpenEntry, WriteBlock, Report
<1> QED  BY <1>1, <1>2, DeploySteps

\* The count of a deployment that is under way alone: an entry is counted
\* when the file holds all of it, or when its tail was lost, and stays counted
\* when a later one of its path is written.
LEMMA AloneStaysAlone ==
    ASSUME DeployTypes, CountSoFar, NEW d \in Deployers, Deploy(d), ~overlapped'
    PROVE  /\ ~overlapped /\ Busy' \subseteq Busy \cup {d}
           /\ Ensure(d) => Busy = {}
           /\ \A e, f \in Busy' : e = f
<1>1. ~overlapped
  BY DeployFrame
<1>2. \A e \in Deployers : e # d => at'[e] = at[e]
  BY DeployFrame
<1>3. Busy' \subseteq Busy \cup {d}
  BY <1>2 DEF Busy
<1>4. Ensure(d) => Busy = {}
  BY DEF Ensure
<1>5. ~Ensure(d) /\ ~Refuse(d) => d \in Busy
  BY DEF Busy, Deploy, SkipEntry, MakeParent, OpenEntry, OpenFails, OpenRefused, WriteBlock, ShortWrite,
         LoseTail, EntryDone, Report
<1>6. Refuse(d) => d \notin Busy'
  BY DEF Busy, Refuse, Move, DeployTypes
<1>7. \A e, f \in Busy : e = f
  BY <1>1 DEF CountSoFar
<1> QED  BY <1>1, <1>3, <1>4, <1>5, <1>6, <1>7

\* What opening an entry makes of the entries before it: of those with its
\* path, the last that was not replaced so far is replaced now.
LEMMA OpeningReplaces ==
    ASSUME FileTypes, DeployTypes, AtEntry, NEW d \in Deployers, OpenEntry(d)
    PROVE  LET old == OnDisk(d) \cap Before(d, entry[d])
               new == OnDisk(d)' \cap Before(d, entry[d])
           IN  /\ Cardinality(old) \in Nat /\ Cardinality(new) \in Nat
               /\ Cardinality(Replaced(d)) \in Nat /\ Cardinality(Replaced(d)') \in Nat
               /\ Cardinality(new) <= Cardinality(old)
               /\ Cardinality(old) + Cardinality(Replaced(d))
                    <= Cardinality(new) + Cardinality(Replaced(d)')
<1> DEFINE k == entry[d]
           R == Replaced(d)
           J == {j \in opened[d] \ R : SamePath(d, j, k)}
           old == OnDisk(d) \cap Before(d, k)
           new == OnDisk(d)' \cap Before(d, k)
<1>1. Archive[d] \in Seq(EntryRecords)
  BY ArchiveAssumption DEF EntryRecords
<1>2. DOMAIN Archive[d] = 1 .. Len(Archive[d]) /\ Len(Archive[d]) \in Nat
  BY <1>1
<1>3. at[d] = "open" /\ opened'[d] = opened[d] \cup {k} /\ Write(Current(d).path, <<>>)
  BY DEF OpenEntry, DeployTypes
<1>4. k \in 1 .. Len(Archive[d]) /\ Current(d) = Archive[d][k] /\ Current(d).path \in Paths
  BY <1>3, AtTyped
<1>5. \A j \in opened[d] : j \in 1 .. Len(Archive[d]) /\ j < k /\ Archive[d][j].path \in DOMAIN content
  BY <1>2, <1>3 DEF AtEntry, InOrder, OpenedSoFar, Exists
<1>6. \A q \in DOMAIN content : q # Archive[d][k].path => content'[q] = content[q]
  BY <1>3, <1>4 DEF Write
<1>7. k \notin opened[d]
  BY <1>4, <1>5
<1>8. Replaced(d)' = R \cup J
  <2>1. Replaced(d)' = {j \in opened'[d] : \E i \in opened'[d] : j < i /\ SamePath(d, j, i)}
    BY DEF Replaced, SamePath
  <2>2. \A j \in opened[d] : k < j => FALSE
    BY <1>4, <1>5
  <2>3. ~(k < k)
    BY <1>4
  <2> HIDE DEF k
  <2> QED  BY <1>3, <1>5, <2>1, <2>2, <2>3 DEF Replaced
<1>9. new = old \ J
  <2>1. ASSUME NEW j \in opened[d]
        PROVE  j \in new <=> j \in old /\ j \notin J
    <3>1. j \in Before(d, k)
      BY <1>2, <1>5 DEF Before
    <3>2. j \in OnDisk(d)' <=> j \notin R \cup J /\ content'[Archive[d][j].path] = Archive[d][j].blocks
      BY <1>3, <1>8 DEF OnDisk
    <3>3. j \in OnDisk(d) <=> j \notin R /\ content[Archive[d][j].path] = Archive[d][j].blocks
      BY DEF OnDisk
    <3>4. j \notin R \cup J => Archive[d][j].path # Archive[d][k].path
      BY DEF SamePath
    <3>5. j \notin R \cup J => content'[Archive[d][j].path] = content[Archive[d][j].path]
      BY <1>5, <1>6, <3>4
    <3> QED  BY <3>1, <3>2, <3>3, <3>5
  <2>2. old \subseteq opened[d]
    BY DEF OnDisk
  <2>3. new \subseteq opened[d]
    <3>1. OnDisk(d)' \subseteq opened[d] \cup {k}
      BY <1>3 DEF OnDisk
    <3>2. k \notin Before(d, k)
      BY <1>4 DEF Before
    <3> QED  BY <3>1, <3>2
  <2> HIDE DEF new, old, J
  <2> QED  BY <2>1, <2>2, <2>3
<1>10. \A i, j \in J : i = j
  <2>1. SUFFICES ASSUME NEW i \in J, NEW j \in J, i < j
                 PROVE  FALSE
    BY <1>5
  <2>2. i \in R
    BY <2>1 DEF Replaced, SamePath
  <2> QED  BY <2>1, <2>2
<1>11. IsFiniteSet(old) /\ IsFiniteSet(R)
  <2>1. old \subseteq 1 .. Len(Archive[d]) /\ R \subseteq 1 .. Len(Archive[d])
    BY <1>5 DEF OnDisk, Replaced
  <2>2. IsFiniteSet(1 .. Len(Archive[d]))
    <3>1. 1 \in Int /\ Len(Archive[d]) \in Int
      BY <1>2
    <3> HIDE DEF k, R, J, old, new
    <3> QED  BY Zenon, <3>1, FS_Interval
  <2> HIDE DEF old, R
  <2> QED  BY <2>1, <2>2, FS_Subset
<1>12. J \cap R = {}
  OBVIOUS
<1> HIDE DEF old, new, R, J, k
<1>13. Cardinality(old) \in Nat /\ Cardinality(R) \in Nat
  BY <1>11, FS_CardinalityType
<1>14. CASE J = {}
  <2>1. new = old /\ Replaced(d)' = R
    BY <1>8, <1>9, <1>14
  <2>2. /\ Cardinality(new) \in Nat /\ Cardinality(Replaced(d)') \in Nat
        /\ Cardinality(new) <= Cardinality(old)
        /\ Cardinality(old) + Cardinality(R) <= Cardinality(new) + Cardinality(Replaced(d)')
    BY <1>13, <2>1
  <2> QED  BY Zenon, <1>13, <2>2 DEF old, new, R, k
<1>15. CASE J # {}
  <2>1. PICK j : J = {j}
    BY <1>10, <1>15
  <2>2. Replaced(d)' = R \cup {j} /\ j \notin R
    BY <1>8, <1>12, <2>1
  <2>3. Cardinality(Replaced(d)') = Cardinality(R) + 1
    BY <1>11, <2>2, FS_AddElement
  <2>4. new = old \ {j}
    BY <1>9, <2>1
  <2>5. Cardinality(new) = IF j \in old THEN Cardinality(old) - 1 ELSE Cardinality(old)
    BY <1>11, <2>4, FS_RemoveElement
  <2>6. IsFiniteSet(new)
    BY <1>11, <2>4, FS_RemoveElement
  <2>7. Cardinality(new) \in Nat
    BY <2>6, FS_CardinalityType
  <2>8. Cardinality(Replaced(d)') \in Nat
    BY <1>13, <2>3
  <2>9. /\ Cardinality(new) <= Cardinality(old)
        /\ Cardinality(old) + Cardinality(R) <= Cardinality(new) + Cardinality(Replaced(d)')
    BY <1>13, <2>3, <2>5, <2>7
  <2> QED  BY Zenon, <1>13, <2>7, <2>8, <2>9 DEF old, new, R, k
<1> QED  BY <1>14, <1>15

\* Nothing but its own file changes when an entry is written, and whoever had
\* that path before is replaced already.
LEMMA EarlierEntriesStay ==
    ASSUME FileTypes, DeployTypes, AtEntry, NEW d \in Deployers, at[d] = "write", opened' = opened,
           NEW b \in Seq(Blocks), Write(Current(d).path, b)
    PROVE  /\ OnDisk(d)' \cap Before(d, entry[d]) = OnDisk(d) \cap Before(d, entry[d])
           /\ Replaced(d)' = Replaced(d)
<1>1. /\ entry[d] \in 1 .. Len(Archive[d]) /\ Current(d) = Archive[d][entry[d]]
      /\ Current(d).path \in Paths /\ entry[d] \in opened[d]
  BY AtTyped DEF AtEntry, InOrder
<1>2. \A q \in DOMAIN content : q # Current(d).path => content'[q] = content[q]
  BY <1>1 DEF Write
<1>3. Replaced(d)' = Replaced(d)
  BY DEF Replaced, SamePath
<1>4. ASSUME NEW j \in Before(d, entry[d])
      PROVE  j \in OnDisk(d)' <=> j \in OnDisk(d)
  <2>1. CASE j \in opened[d] /\ j \notin Replaced(d)
    <3>1. j < entry[d] /\ Archive[d][j].path \in DOMAIN content
      BY <1>4, <2>1 DEF Before, AtEntry, InOrder, OpenedSoFar, Exists
    <3>2. Archive[d][j].path # Current(d).path
      BY <1>1, <2>1, <3>1 DEF Replaced, SamePath
    <3> QED  BY <1>2, <1>3, <2>1, <3>1, <3>2 DEF OnDisk
  <2>2. CASE ~(j \in opened[d] /\ j \notin Replaced(d))
    BY <1>3, <2>2 DEF OnDisk
  <2> QED  BY <2>1, <2>2
<1> QED  BY <1>3, <1>4

\* What a step makes of the count, for who deploys alone.
LEMMA CountGoesOn ==
    ASSUME FileTypes, DeployTypes, AtEntry, NEW d \in Deployers,
           Deploy(d), ~Ensure(d), ~Refuse(d), CountedAs(d)
    PROVE  CountedAs(d)'
<1> DEFINE Counted(k) == Cardinality(OnDisk(d) \cap Before(d, k))
           path == Current(d).path
           blocks == Current(d).blocks
           r == Cardinality(Replaced(d))
<1>1. /\ entry[d] \in Nat /\ 1 <= entry[d] /\ extracted[d] \in Nat /\ tails[d] \in Nat
      /\ opened[d] \subseteq DOMAIN Archive[d]
  BY DEF DeployTypes, AtEntry, InOrder, OpenedSoFar
<1>2. Len(Archive[d]) \in Nat /\ DOMAIN Archive[d] = 1 .. Len(Archive[d])
  <2>1. Archive[d] \in Seq(EntryRecords)
    BY ArchiveAssumption DEF EntryRecords
  <2> QED  BY <2>1
<1>3. /\ Counted(entry[d]) + tails[d] <= extracted[d]
      /\ extracted[d] <= Counted(entry[d]) + tails[d] + r
      /\ at[d] = "write" => content[path] = SubSeq(blocks, 1, written[d])
  BY DEF CountedAs
<1>4. OnDisk(d) \subseteq DOMAIN Archive[d] /\ Counted(entry[d]) \in Nat /\ r \in Nat
  <2>1. OnDisk(d) \subseteq 1 .. Len(Archive[d]) /\ Replaced(d) \subseteq 1 .. Len(Archive[d])
    BY <1>1, <1>2 DEF OnDisk, Replaced
  <2>2. IsFiniteSet(1 .. Len(Archive[d]))
    BY <1>2, FS_Interval
  <2>3. IsFiniteSet(OnDisk(d) \cap Before(d, entry[d])) /\ IsFiniteSet(Replaced(d))
    <3>1. OnDisk(d) \cap Before(d, entry[d]) \subseteq 1 .. Len(Archive[d])
      BY <2>1
    <3> QED  BY <2>1, <2>2, <3>1, FS_Subset
  <2> QED  BY <1>2, <2>1, <2>3, FS_CardinalityType
\* An entry that is passed and is not on disk does not count.
<1>5. ASSUME content' = content, opened' = opened, entry'[d] = entry[d] + 1,
             entry[d] \in 1 .. Len(Archive[d]),
             extracted'[d] - tails'[d] = extracted[d] - tails[d], at'[d] # "write",
             extracted'[d] \in Nat, tails'[d] \in Nat,
             entry[d] \notin OnDisk(d)
      PROVE  CountedAs(d)'
  <2>1. Counted(entry[d] + 1) = Counted(entry[d])
    BY Zenon, <1>4, <1>5, OneMore
  <2>2. OnDisk(d)' = OnDisk(d) /\ Replaced(d)' = Replaced(d)
    BY <1>5 DEF OnDisk, Replaced, SamePath
  <2> DEFINE n == Counted(entry[d])
  <2>3. n \in Nat /\ n + tails[d] <= extracted[d] /\ extracted[d] <= n + tails[d] + r
    BY <1>3, <1>4
  <2> HIDE DEF Counted, r, n
  <2>4. n + tails'[d] <= extracted'[d] /\ extracted'[d] <= n + tails'[d] + r
    <3>1. /\ extracted'[d] - tails'[d] = extracted[d] - tails[d]
          /\ extracted'[d] \in Nat /\ tails'[d] \in Nat
      BY <1>5
    <3>2. extracted[d] \in Nat /\ tails[d] \in Nat /\ r \in Nat
      BY <1>1, <1>4
    <3> QED  BY <2>3, <3>1, <3>2
  <2>5. Counted(entry[d] + 1) = n
    BY <2>1 DEF n
  <2> QED  BY <1>5, <2>2, <2>4, <2>5 DEF CountedAs, Counted, r
<1>6. CASE SkipEntry(d) \/ OpenFails(d) \/ OpenRefused(d)
  <2>1. /\ content' = content /\ opened' = opened /\ entry'[d] = entry[d] + 1 /\ at'[d] # "write"
        /\ extracted' = extracted /\ tails' = tails /\ at[d] # "write" /\ entry[d] <= Len(Archive[d])
    BY <1>6 DEF SkipEntry, OpenFails, OpenRefused, NextEntry, Move, DeployTypes, files, AtEntry, InOrder
  <2>2. entry[d] \notin OnDisk(d)
    BY <1>1, <2>1 DEF OnDisk, AtEntry, InOrder, OpenedSoFar
  <2> QED  BY <1>1, <1>2, <1>5, <2>1, <2>2
<1>7. CASE ShortWrite(d) \/ LoseTail(d)
  <2>1. at[d] = "write" /\ written[d] < Len(blocks) /\ written[d] \in Nat
    <3>1. at[d] = "write" /\ written[d] \in Nat
      BY <1>7 DEF ShortWrite, LoseTail, DeployTypes
    <3>2. Len(blocks) \in Nat
      BY <3>1, AtTyped
    <3> QED  BY <1>7, <3>1, <3>2 DEF ShortWrite, LoseTail
  <2>2. entry[d] \notin OnDisk(d)
    <3>1. blocks \in Seq(Blocks)
      BY <2>1, AtTyped
    <3>2. Len(SubSeq(blocks, 1, written[d])) = written[d]
      BY <2>1, <3>1, SubSeqProperties
    <3>3. content[path] # blocks
      BY <1>3, <2>1, <3>2
    <3> QED  BY <3>3 DEF OnDisk, Current
  <2>3. entry[d] \in 1 .. Len(Archive[d])
    BY <2>1, AtTyped
  <2>4. /\ content' = content /\ opened' = opened /\ entry'[d] = entry[d] + 1 /\ at'[d] # "write"
        /\ extracted'[d] - tails'[d] = extracted[d] - tails[d]
        /\ extracted'[d] \in Nat /\ tails'[d] \in Nat
    BY <1>1, <1>7 DEF ShortWrite, LoseTail, NextEntry, Move, DeployTypes, files
  <2> QED  BY <1>5, <2>2, <2>3, <2>4
<1>8. CASE EntryDone(d)
  <2>1. /\ at[d] = "write" /\ written[d] = Len(blocks)
        /\ content' = content /\ opened' = opened /\ entry'[d] = entry[d] + 1 /\ at'[d] # "write"
        /\ extracted'[d] = extracted[d] + 1 /\ tails'[d] = tails[d]
    BY <1>8 DEF EntryDone, NextEntry, Move, DeployTypes, files
  <2>2. /\ entry[d] \in 1 .. Len(Archive[d]) /\ blocks \in Seq(Blocks)
        /\ Current(d) = Archive[d][entry[d]] /\ entry[d] \in opened[d]
    BY <2>1, AtTyped DEF AtEntry, InOrder
  <2>3. content[path] = blocks
    BY <1>3, <2>1, <2>2, SubSeqFull
  <2>4. entry[d] \notin Replaced(d)
    <3>1. \A j \in opened[d] : j \in Nat /\ ~(entry[d] < j)
      BY <1>1, <1>2 DEF AtEntry, InOrder, OpenedSoFar
    <3> QED  BY <3>1 DEF Replaced
  <2>5. entry[d] \in OnDisk(d)
    BY <2>2, <2>3, <2>4 DEF OnDisk
  <2>6. Counted(entry[d] + 1) = Counted(entry[d]) + 1
    BY Zenon, <1>4, <2>2, <2>5, OneMore
  <2>7. OnDisk(d)' = OnDisk(d) /\ Replaced(d)' = Replaced(d)
    BY <2>1 DEF OnDisk, Replaced, SamePath
  <2> DEFINE n == Counted(entry[d])
  <2>8. n \in Nat /\ n + tails[d] <= extracted[d] /\ extracted[d] <= n + tails[d] + r
    BY <1>3, <1>4
  <2> HIDE DEF Counted, r, n
  <2>9. n + 1 + tails'[d] <= extracted'[d] /\ extracted'[d] <= n + 1 + tails'[d] + r
    BY <1>1, <1>4, <2>1, <2>8
  <2>10. Counted(entry[d] + 1) = n + 1
    BY <2>6 DEF n
  <2> QED  BY <2>1, <2>7, <2>9, <2>10 DEF CountedAs, Counted, r
\* Otherwise the deployment stays at its entry.
<1>9. CASE MakeParent(d) \/ Report(d)
  <2>1. /\ content' = content /\ entry' = entry /\ extracted' = extracted /\ tails' = tails
        /\ opened' = opened /\ at'[d] # "write"
    BY <1>9 DEF MakeParent, Report, Move, DeployTypes, files
  <2>2. OnDisk(d)' = OnDisk(d) /\ Replaced(d)' = Replaced(d)
    BY <2>1 DEF OnDisk, Replaced, SamePath
  <2> QED  BY <1>3, <2>1, <2>2 DEF CountedAs
<1>10. CASE OpenEntry(d)
  <2>1. /\ at[d] = "open" /\ entry' = entry /\ extracted' = extracted /\ tails' = tails
        /\ written'[d] = 0 /\ Write(path, <<>>)
    BY <1>10 DEF OpenEntry, AtEntry, InOrder
  <2>2. SubSeq(blocks, 1, 0) = <<>> /\ content'[path] = <<>>
    BY <2>1, SubSeqEmpty DEF Write
  <2> DEFINE n == Counted(entry[d])
             n2 == Cardinality(OnDisk(d)' \cap Before(d, entry[d]))
             r2 == Cardinality(Replaced(d)')
  <2>3. n2 \in Nat /\ r2 \in Nat /\ n2 <= n /\ n + r <= n2 + r2
    BY <1>10, OpeningReplaces
  <2>4. n \in Nat /\ n + tails[d] <= extracted[d] /\ extracted[d] <= n + tails[d] + r
    BY <1>3, <1>4
  <2> HIDE DEF n, n2, r2, r, Counted
  <2>5. n2 + tails[d] <= extracted[d] /\ extracted[d] <= n2 + tails[d] + r2
    BY <1>1, <1>4, <2>3, <2>4
  <2> QED  BY <2>1, <2>2, <2>5 DEF CountedAs, Current, n2, r2
<1>11. CASE WriteBlock(d)
  <2>1. /\ at[d] = "write" /\ entry' = entry /\ extracted' = extracted /\ tails' = tails
        /\ opened' = opened /\ written'[d] = written[d] + 1
    BY <1>11 DEF WriteBlock, DeployTypes
  <2>2. PICK b \in Seq(Blocks) : Write(path, b) /\ b = SubSeq(blocks, 1, written[d] + 1)
    BY <1>3, <1>11, <2>1, BlockWrites
  <2>3. /\ OnDisk(d)' \cap Before(d, entry[d]) = OnDisk(d) \cap Before(d, entry[d])
        /\ Replaced(d)' = Replaced(d)
    BY <2>1, <2>2, EarlierEntriesStay
  <2>4. content'[path] = b
    BY <2>2 DEF Write
  <2> QED  BY <1>3, <2>1, <2>2, <2>3, <2>4 DEF CountedAs, Current
<1> QED  BY <1>6, <1>7, <1>8, <1>9, <1>10, <1>11 DEF Deploy

LEMMA CountsOnward ==
    ASSUME FileTypes, DeployTypes, AtEntry, Tree, CountSoFar, [Next]_vars
    PROVE  CountSoFar'
<1>1. CASE UNCHANGED <<content, deployVars>>
  <2>1. /\ overlapped' = overlapped /\ Busy' = Busy
        /\ at' = at /\ entry' = entry /\ written' = written /\ extracted' = extracted
        /\ tails' = tails /\ opened' = opened /\ content' = content
    BY <1>1 DEF deployVars, Busy
  <2>2. ASSUME NEW d \in Deployers
        PROVE  OnDisk(d)' = OnDisk(d) /\ Replaced(d)' = Replaced(d) /\ Current(d)' = Current(d)
    BY <2>1 DEF OnDisk, Replaced, SamePath, Current
  <2>3. ASSUME NEW d \in Deployers, CountedAs(d)
        PROVE  CountedAs(d)'
    BY <2>1, <2>2, <2>3 DEF CountedAs
  <2> QED  BY <2>1, <2>3 DEF CountSoFar, Busy
<1>2. ASSUME NEW d \in Deployers, Deploy(d), ~overlapped'
      PROVE  (\A e, f \in Busy' : e = f) /\ \A e \in Busy' : CountedAs(e)'
  <2>1. \A e, f \in Busy' : e = f
    BY <1>2, AloneStaysAlone
  <2>2. CASE Refuse(d)
    <3>1. \A e \in Busy' : e \in Busy /\ e # d
      BY <2>2, <1>2, AloneStaysAlone DEF Refuse, Move, Busy, DeployTypes
    <3>2. /\ content' = content /\ extracted' = extracted /\ entry' = entry /\ tails' = tails
          /\ written' = written /\ opened' = opened /\ ~overlapped
      BY <2>2, <1>2, AloneStaysAlone DEF Refuse, files
    <3>3. \A e \in Busy' : CountedAs(e) /\ at'[e] = at[e]
      BY <1>2, <3>1, <3>2, DeployFrame DEF CountSoFar, Busy
    <3> QED  BY <2>1, <3>2, <3>3 DEF CountedAs, Current, OnDisk, Replaced, SamePath
  <2>3. CASE Ensure(d)
    <3>1. Busy' \subseteq {d}
      BY <1>2, <2>3, AloneStaysAlone
    <3>2. /\ extracted'[d] = 0 /\ tails'[d] = 0 /\ entry'[d] = 1 /\ at'[d] = "entry"
          /\ opened'[d] = {}
      BY <2>3 DEF Ensure, Move, AtEntry, InOrder, DeployTypes
    <3>3. Cardinality(OnDisk(d)' \cap Before(d, 1)) = 0
      BY NoneYet
    <3>4. Cardinality(Replaced(d)') = 0
      <4>1. Replaced(d)' = {}
        BY <3>2 DEF Replaced
      <4> QED  BY <4>1, FS_EmptySet
    <3>5. CountedAs(d)'
      BY <3>2, <3>3, <3>4 DEF CountedAs
    <3> QED  BY <2>1, <3>1, <3>5
  <2>4. CASE ~Refuse(d) /\ ~Ensure(d)
    <3>1. d \in Busy
      BY <1>2, <2>4 DEF Busy, Deploy, SkipEntry, MakeParent, OpenEntry, OpenFails, OpenRefused, WriteBlock,
                        ShortWrite, LoseTail, EntryDone, Report
    <3>2. ~overlapped /\ (\A e, f \in Busy : e = f) /\ Busy' \subseteq Busy \cup {d}
      BY <1>2, AloneStaysAlone DEF CountSoFar
    <3>3. Busy' \subseteq {d} /\ CountedAs(d)
      BY <3>1, <3>2 DEF CountSoFar
    <3>4. CountedAs(d)'
      BY <1>2, <2>4, <3>3, CountGoesOn
    <3> QED  BY <2>1, <3>3, <3>4
  <2> QED  BY <2>2, <2>3, <2>4
<1> QED  BY <1>1, <1>2, DeploySteps DEF CountSoFar
-----------------------------------------------------------------------------
(* The invariant, and what it implies. *)

LEMMA InitIInv == Init => IInv
<1> SUFFICES ASSUME Init PROVE IInv
  OBVIOUS
<1>1. now = 0 /\ DOMAIN content = {} /\ DOMAIN mtime = {} /\ dirs = {} /\ overlapped = FALSE
  BY DEF Init
<1>2. /\ content \in [DOMAIN content -> Seq(Blocks)]
      /\ mtime \in [DOMAIN mtime -> Nat]
  BY DEF Init
<1>3. FileTypes
  BY <1>1, <1>2, BoundsAssumption DEF FileTypes
<1>4. DeployTypes
  BY <1>1 DEF Init, DeployTypes, Places
<1>5. GetTypes
  <2>1. Never \in Nat
    BY BoundsAssumption DEF Never
  <2>2. NoGet \in Gets /\ NoCopy \in Copies
    BY <2>1 DEF NoGet, NoCopy, Gets, Copies, GetPlaces
  <2> QED  BY <2>1, <2>2 DEF Init, GetTypes
<1>6. /\ \A d \in Deployers : at[d] = "start" /\ entry[d] = 1 /\ written[d] = 0
                              /\ extracted[d] = 0 /\ full[d] = {} /\ tails[d] = 0
                              /\ opened[d] = {}
      /\ \A c \in Clients : get[c] = NoGet /\ \A p \in Asked : copy[c][p] = NoCopy
  BY DEF Init
<1>7. AtEntry
  BY <1>6 DEF AtEntry, InOrder, OpenedSoFar
<1>8. Tree
  BY <1>1, <1>6 DEF Tree
<1>9. LandSoFar
  BY <1>6, NoneYet DEF LandSoFar
<1>10. CountSoFar
  <2>1. Busy = {}
    BY <1>6 DEF Busy
  <2> QED  BY <2>1 DEF CountSoFar
<1>11. Past /\ GetsKnow /\ CopiesTrue
  BY <1>1, <1>6 DEF Past, GetsKnow, CopiesTrue, True, NoGet, NoCopy
<1> QED  BY <1>3, <1>4, <1>5, <1>7, <1>8, <1>9, <1>10, <1>11 DEF IInv

LEMMA NextIInv == IInv /\ [Next]_vars => IInv'
<1> SUFFICES ASSUME IInv, [Next]_vars PROVE IInv'
  OBVIOUS
<1>1. FileTypes' /\ GetTypes' /\ Past' /\ GetsKnow' /\ CopiesTrue'
  BY DownloadsKnow DEF IInv, DownloadInv
<1>2. DeployTypes' /\ AtEntry'
  BY StaysInOrder DEF IInv
<1>3. Tree'
  BY TreeStays DEF IInv
<1>4. LandSoFar'
  BY LandsOnward DEF IInv
<1>5. CountSoFar'
  BY CountsOnward DEF IInv
<1> QED  BY <1>1, <1>2, <1>3, <1>4, <1>5 DEF IInv

\* The inductive invariant holds in every state of the site.
THEOREM SiteInvariant == Spec => []IInv
BY InitIInv, NextIInv, PTL DEF Spec

\* static_files.cpp:181-183: a body has the length that its header declared,
\* for any number of clients, unless its file was written meanwhile.
THEOREM SiteDeclaredLengthSent == Spec => []DeclaredLengthSent
<1>1. IInv => DeclaredLengthSent
  BY DEF IInv, GetsKnow, Knows, DeclaredLengthSent
<1> QED  BY <1>1, SiteInvariant, PTL

\* deploy.cpp:190: a deployment that overlaps no other counts all that it left
\* on disk in full and what it lost at fclose(), and besides those at most what
\* later entries of the same paths have replaced: for any archives, with paths
\* that are repeated too.
THEOREM SiteCountIsOnDisk == Spec => []CountIsOnDisk
<1>1. ASSUME IInv, NEW d \in Deployers, at[d] = "entry", entry[d] > Len(Archive[d]), ~overlapped
      PROVE  LET left == Cardinality(OnDisk(d)) + tails[d]
             IN  extracted[d] \in left .. left + Cardinality(Replaced(d))
  <2>1. d \in Busy
    BY <1>1 DEF Busy
  <2>2. /\ entry[d] \in Nat /\ OnDisk(d) \subseteq DOMAIN Archive[d]
        /\ Replaced(d) \subseteq DOMAIN Archive[d]
        /\ extracted[d] \in Nat /\ tails[d] \in Nat
    BY <1>1 DEF IInv, DeployTypes, AtEntry, InOrder, OpenedSoFar, OnDisk, Replaced
  <2>3. OnDisk(d) \cap Before(d, entry[d]) = OnDisk(d)
    BY Zenon, <1>1, <2>2, AllOfThem
  <2>4. Cardinality(OnDisk(d)) \in Nat /\ Cardinality(Replaced(d)) \in Nat
    <3>1. Archive[d] \in Seq(EntryRecords)
      BY ArchiveAssumption DEF EntryRecords
    <3>2. DOMAIN Archive[d] = 1 .. Len(Archive[d]) /\ IsFiniteSet(1 .. Len(Archive[d]))
      BY <3>1, FS_Interval
    <3> QED  BY <2>2, <3>2, FS_Subset, FS_CardinalityType
  <2>5. CountedAs(d)
    BY <1>1, <2>1 DEF IInv, CountSoFar
  <2> DEFINE n == Cardinality(OnDisk(d))
             r == Cardinality(Replaced(d))
  <2>6. n + tails[d] <= extracted[d] /\ extracted[d] <= n + tails[d] + r
    BY <2>3, <2>5 DEF CountedAs
  <2>7. n \in Nat /\ r \in Nat
    BY <2>4
  <2> HIDE DEF n, r
  <2>8. extracted[d] \in n + tails[d] .. n + tails[d] + r
    BY <2>2, <2>6, <2>7
  <2> QED  BY <2>8 DEF n, r
<1>2. IInv => CountIsOnDisk
  BY <1>1 DEF CountIsOnDisk
<1> QED  BY <1>2, SiteInvariant, PTL

\* deploy.cpp:39: every file at most one directory deep was counted, or the disk
\* or the descriptors ran out on it, however many deployments there are and
\* wherever they are.
THEOREM SiteShallowEntriesLand == Spec => []ShallowEntriesLand
<1>1. ASSUME IInv, NEW d \in Deployers, at[d] = "done"
      PROVE  extracted[d] >= Cardinality(Shallow(d) \ full[d])
  <2>1. entry[d] \in Nat /\ entry[d] > Len(Archive[d]) /\ Due(d) \subseteq DOMAIN Archive[d]
    BY <1>1 DEF IInv, DeployTypes, AtEntry, InOrder, Shallow, Due
  <2>2. Due(d) \cap Before(d, entry[d]) = Due(d)
    BY Zenon, <2>1, AllOfThem
  <2> QED  BY <1>1, <2>2 DEF IInv, LandSoFar, Due
<1>2. IInv => ShallowEntriesLand
  BY <1>1 DEF ShallowEntriesLand
<1> QED  BY <1>2, SiteInvariant, PTL

\* A 304 is given for a copy that is what the file holds, unless the file was
\* written under a download or in the second in which it was examined.
THEOREM SiteNotModifiedIsTrue == Spec => NotModifiedIsTrue
<1> DEFINE Honest == \A c \in Clients : get[c].at # "304" /\ get'[c].at = "304" =>
                         LET p == get[c].path
                         IN  p \in racy \/ copy[c][p].blocks = content[p]
<1>1. ASSUME IInv, [Next]_vars PROVE Honest
  <2>1. SUFFICES ASSUME NEW c \in Clients, get[c].at # "304", get'[c].at = "304",
                        get[c].path \notin racy
                 PROVE  copy[c][get[c].path].blocks = content[get[c].path]
    OBVIOUS
  <2>2. get \in [Clients -> Gets] /\ DownloadInv
    BY <1>1 DEF IInv, DownloadInv, GetTypes
  <2>3. PICK o \in Clients : Download(o)
    BY <1>1, <2>1, DownloadSteps DEF IInv, Tick, getVars, Writing
  <2>4. o = c
    BY <2>1, <2>2, <2>3 DEF Download, Examine, Examined, Decide, ReadBlock, ReadEnds, Leave, Keep
  <2>5. get[c] \in [at : GetPlaces, path : Seq(STRING), size : Nat, mtime : Nat, body : Seq(Blocks)]
    BY <2>2 DEF Gets
  <2>6. Examine(c) => get'[c].at = "examined"
    BY <2>2 DEF Examine, Examined
  <2>7. ReadBlock(c) => get'[c].at = "read"
    BY <2>2, <2>5 DEF ReadBlock
  <2>8. ReadEnds(c) => get'[c].at = "200"
    BY <2>2, <2>5 DEF ReadEnds
  <2>9. Leave(c) \/ Keep(c) => get'[c].at = "idle"
    BY <2>2 DEF Leave, Keep, NoGet
  <2>10. Decide(c)
    BY <2>1, <2>3, <2>4, <2>6, <2>7, <2>8, <2>9 DEF Download
  <2>11. copy[c][get[c].path].mtime # get[c].mtime => get'[c].at = "read"
    BY <2>2, <2>10, <2>5 DEF Decide
  <2>12. get[c].at = "examined" /\ copy[c][get[c].path].mtime = get[c].mtime
    BY <2>1, <2>10, <2>11 DEF Decide
  <2>13. Knows(get[c]) /\ get[c] \in Gets
    BY <2>2, <2>12 DEF DownloadInv, GetsKnow
  <2>14. True(get[c].path, copy[c][get[c].path])
    BY <2>2, <2>13 DEF DownloadInv, CopiesTrue, Knows
  <2>15. copy[c][get[c].path].mtime # Never
    BY <2>2, <2>12, <2>13, BoundsAssumption
       DEF Knows, Never, DownloadInv, FileTypes, GetTypes, Gets
  <2> QED  BY <2>1, <2>12, <2>13, <2>14, <2>15 DEF Knows, True
<1> QED  BY <1>1, SiteInvariant, PTL DEF Spec, NotModifiedIsTrue
=============================================================================
