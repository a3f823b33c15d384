-------------------------- MODULE CgiHelper_proofs --------------------------
(***************************************************************************)
(* The safety of CgiHelper for any number of requests, workers and blocks: *)
(* what requests that do not overlap are answered, and what they leave.    *)
(***************************************************************************)
EXTENDS CgiHelper, TLAPS, FiniteSetTheorems

Staging == {"copy", "chmod", "exec", "run", "remove"}
Arriving == {"start", "claim", "resolve", "open"}
Places == Arriving \cup Staging \cup {"done"}
Answers == {"pending", "path", "not found", "500", "nothing", "helper output", "no output"}

Types == /\ resolved \in BOOLEAN /\ ok \in BOOLEAN
         /\ at \in [Requests -> Places]
         /\ name \in 0 .. born /\ born \in Nat
         /\ content \in [Files -> SUBSET Blocks]
         /\ mode \in [Files -> BOOLEAN]
         /\ file \in [Requests -> Nat]
         /\ copied \in [Requests -> 0 .. Chunks]
         /\ answer \in [Requests -> Answers]
         /\ overlapped \in BOOLEAN

\* A request creates one file at most, once it has arrived.
ToCreate == {r \in Requests : at[r] \in Arriving}
FilesSuffice == born + Cardinality(ToCreate) <= Cardinality(Requests)

\* Only files that were created are open, and only they have content.
FilesExist == /\ \A r \in Requests : file[r] <= born
              /\ \A f \in Files : f > born => content[f] = {}

\* What the temporary path names is some request's to remove.
NameIsStaged == name # 0 => \E r \in Requests : at[r] \in Staging

\* While requests do not overlap, the one under way has the path, the file and
\* the statics to itself, and they are as far as it is.
Alone == \A r, s \in Busy : r = s

FileOf(r) ==
    /\ at[r] \in Arriving => copied[r] = 0
    /\ file[r] # 0 => at[r] \in {"copy", "run"}
    /\ at[r] = "copy" => name # 0 /\ file[r] = name /\ content[name] = 1 .. copied[r]
    /\ at[r] \in {"chmod", "exec"} => name # 0 /\ content[name] = Blocks
    /\ at[r] = "exec" => mode[name]

AnswerOf(r) ==
    Installed => /\ answer[r] # "not found" /\ (answer[r] = "500" => r \in OpenFails)
                 /\ at[r] \in {"run", "remove", "done"} =>
                        \/ r \in ForkFails \cup OpenFails \cup Echoes
                        \/ answer[r] = "helper output"

Resolution == Installed /\ resolved => ok \/ \E r \in Busy : at[r] = "resolve"

InTurn == ~overlapped => Alone /\ Resolution /\ \A r \in Requests : FileOf(r) /\ AnswerOf(r)

\* The inductive invariant.
IInv == Types /\ FilesSuffice /\ FilesExist /\ NameIsStaged /\ InTurn
-----------------------------------------------------------------------------
(* Types. *)

LEMMA Counts == Cardinality(Requests) \in Nat
BY RequestsAssumption, FS_CardinalityType

LEMMA MoveTypes ==
    ASSUME Types, NEW r \in Requests, NEW p \in Places, Move(r, p)
    PROVE  /\ at' \in [Requests -> Places] /\ at'[r] = p
           /\ \A s \in Requests : s # r => at'[s] = at[s]
BY DEF Types, Move

LEMMA AnswerTypes ==
    ASSUME Types, NEW r \in Requests, NEW a \in Answers, Answer(r, a)
    PROVE  /\ answer' \in [Requests -> Answers] /\ answer'[r] = a
           /\ \A s \in Requests : s # r => answer'[s] = answer[s]
BY DEF Types, Answer

\* Where get_cgi_helper_path() leads.
LEMMA LocatedTypes ==
    ASSUME Types, NEW r \in Requests, Located(r) \/ NotLocated(r)
    PROVE  /\ at' \in [Requests -> Places] /\ at'[r] \in {"done", "open"}
           /\ answer' \in [Requests -> Answers]
           /\ \A s \in Requests : s # r => at'[s] = at[s] /\ answer'[s] = answer[s]
<1>1. CASE Located(r) /\ ~NotLocated(r)
  <2>1. CASE Move(r, "done") /\ Answer(r, "path")
    BY <2>1, MoveTypes, AnswerTypes DEF Places, Answers
  <2>2. CASE Move(r, "open") /\ answer' = answer
    BY <2>2, MoveTypes DEF Places, Arriving, Types
  <2>3. QED
    BY <1>1, <2>1, <2>2 DEF Located
<1>2. CASE NotLocated(r)
  <2>1. Move(r, "done") /\ \E a \in {"not found", "500"} : Answer(r, a)
    BY <1>2 DEF NotLocated
  <2>2. QED
    BY <2>1, MoveTypes, AnswerTypes DEF Places, Answers
<1>3. QED
  BY <1>1, <1>2

LEMMA InitTypes == Init => Types
<1> SUFFICES ASSUME Init PROVE Types
  OBVIOUS
<1>1. "start" \in Places /\ "pending" \in Answers /\ 0 \in 0 .. Chunks /\ 0 \in 0 .. 0
  BY SizesAssumption DEF Places, Arriving, Answers
<1>2. /\ at \in [Requests -> Places] /\ answer \in [Requests -> Answers]
      /\ copied \in [Requests -> 0 .. Chunks] /\ file \in [Requests -> Nat]
  BY <1>1 DEF Init
<1>3. content \in [Files -> SUBSET Blocks] /\ mode \in [Files -> BOOLEAN]
  BY DEF Init
<1>4. QED
  BY <1>1, <1>2, <1>3 DEF Init, Types

LEMMA OpenTempTypes ==
    ASSUME Types, FilesSuffice, NEW r \in Requests, OpenTemp(r)
    PROVE  /\ name' \in 1 .. born' /\ born' \in Files /\ file'[r] = name'
           /\ born' = IF name = 0 THEN born + 1 ELSE born
           /\ \A s \in Requests : s # r => file'[s] = file[s]
           /\ Types'
<1>1. /\ IF name = 0 THEN born' = born + 1 /\ name' = born + 1 /\ content' = content
         ELSE content' = [content EXCEPT ![name] = {}] /\ born' = born /\ name' = name
      /\ file' = [file EXCEPT ![r] = name']
      /\ at[r] = "open" /\ Move(r, "copy")
      /\ UNCHANGED <<statics, mode, copied, answer, overlapped>>
  BY DEF OpenTemp
<1>2. Cardinality(ToCreate) \in Nat /\ Cardinality(ToCreate) >= 1
  <2>1. ToCreate \in SUBSET Requests /\ r \in ToCreate
    BY <1>1 DEF ToCreate, Arriving
  <2>2. IsFiniteSet(ToCreate)
    BY <2>1, RequestsAssumption, FS_Subset
  <2>3. QED
    BY <2>1, <2>2, FS_CardinalityType, FS_EmptySet
<1>3. born + 1 <= Cardinality(Requests)
  BY <1>2, Counts DEF FilesSuffice, Types
<1>4. /\ name' \in 1 .. born' /\ born' \in Files
      /\ born' = IF name = 0 THEN born + 1 ELSE born
  BY <1>1, <1>3, Counts DEF Types, Files
<1>5. /\ file'[r] = name' /\ \A s \in Requests : s # r => file'[s] = file[s]
      /\ file' \in [Requests -> Nat]
  BY <1>1, <1>4 DEF Types
<1>6. at' \in [Requests -> Places]
  BY <1>1, MoveTypes DEF Places, Staging
<1>7. content' \in [Files -> SUBSET Blocks]
  BY <1>1 DEF Types
<1>8. QED
  BY <1>1, <1>4, <1>5, <1>6, <1>7 DEF Types, statics

LEMMA NextTypes == Types /\ FilesSuffice /\ [Next]_vars => Types'
<1> SUFFICES ASSUME Types, FilesSuffice, [Next]_vars PROVE Types'
  OBVIOUS
<1> USE DEF statics, fs
<1>1. ASSUME NEW r \in Requests, CheckResolved(r) PROVE Types'
  <2>1. at' \in [Requests -> Places] /\ answer' \in [Requests -> Answers]
    <3>1. CASE Move(r, "claim") /\ UNCHANGED answer
      BY <3>1, MoveTypes DEF Places, Arriving, Types
    <3>2. CASE Located(r) \/ NotLocated(r)
      BY <3>2, LocatedTypes
    <3>3. QED
      BY <1>1, <3>1, <3>2 DEF CheckResolved
  <2>2. QED
    BY <1>1, <2>1 DEF CheckResolved, Types
<1>2. ASSUME NEW r \in Requests, Claim(r) PROVE Types'
  <2>1. at' \in [Requests -> Places]
    BY <1>2, MoveTypes DEF Claim, Places, Arriving
  <2>2. QED
    BY <1>2, <2>1 DEF Claim, Types
<1>3. ASSUME NEW r \in Requests, Resolve(r) PROVE Types'
  <2>1. Located(r) \/ NotLocated(r)
    BY <1>3 DEF Resolve
  <2>2. ok' \in BOOLEAN
    BY <1>3, InstanceAssumption DEF Resolve, Types
  <2>3. QED
    BY <1>3, <2>1, <2>2, LocatedTypes DEF Resolve, Types
<1>4. ASSUME NEW r \in Requests, OpenTempFails(r) PROVE Types'
  BY <1>4, MoveTypes, AnswerTypes DEF OpenTempFails, Types, Places, Answers
<1>5. ASSUME NEW r \in Requests, CopyBlock(r) PROVE Types'
  <2>1. copied[r] + 1 \in Blocks /\ copied[r] + 1 \in 0 .. Chunks
    BY <1>5, SizesAssumption DEF CopyBlock, Types, Blocks
  <2>2. copied' \in [Requests -> 0 .. Chunks]
    BY <1>5, <2>1 DEF CopyBlock, Types
  <2>3. content' \in [Files -> SUBSET Blocks]
    BY <1>5, <2>1 DEF CopyBlock, Types
  <2>4. QED
    BY <1>5, <2>2, <2>3 DEF CopyBlock, Types
<1>6. ASSUME NEW r \in Requests, CloseTemp(r) PROVE Types'
  <2>1. at' \in [Requests -> Places]
    BY <1>6, MoveTypes DEF CloseTemp, Places, Staging
  <2>2. QED
    BY <1>6, <2>1 DEF CloseTemp, Types
<1>7. ASSUME NEW r \in Requests, ChmodTemp(r) PROVE Types'
  <2>1. at' \in [Requests -> Places]
    BY <1>7, MoveTypes DEF ChmodTemp, Places, Staging
  <2>2. mode' \in [Files -> BOOLEAN]
    BY <1>7 DEF ChmodTemp, Types
  <2>3. QED
    BY <1>7, <2>1, <2>2 DEF ChmodTemp, Types
<1>8. ASSUME NEW r \in Requests, PopenFails(r) PROVE Types'
  <2>1. at' \in [Requests -> Places] /\ answer' \in [Requests -> Answers]
    BY <1>8, MoveTypes, AnswerTypes DEF PopenFails, Places, Staging, Answers
  <2>2. QED
    BY <1>8, <2>1 DEF PopenFails, Types
<1>9. ASSUME NEW r \in Requests, Popen(r) PROVE Types'
  <2>1. at' \in [Requests -> Places]
    BY <1>9, MoveTypes DEF Popen, Places, Staging
  <2>2. file' \in [Requests -> Nat] /\ answer' \in [Requests -> Answers]
    <3>1. CASE file' = [file EXCEPT ![r] = name] /\ Answer(r, "helper output")
      <4>1. "helper output" \in Answers /\ name \in Nat /\ file \in [Requests -> Nat]
        <5>1. name \in 0 .. born /\ born \in Nat /\ file \in [Requests -> Nat]
          BY DEF Types
        <5>2. QED
          BY <5>1 DEF Answers
      <4>2. answer' \in [Requests -> Answers]
        BY <3>1, <4>1, AnswerTypes
      <4>3. QED
        BY <3>1, <4>1, <4>2
    <3>2. CASE Answer(r, "no output") /\ UNCHANGED file
      BY <3>2, AnswerTypes DEF Types, Answers
    <3>3. QED
      BY <1>9, <3>1, <3>2 DEF Popen
  <2>3. QED
    BY <1>9, <2>1, <2>2 DEF Popen, Types
<1>10. ASSUME NEW r \in Requests, Pclose(r) PROVE Types'
  <2>1. at' \in [Requests -> Places]
    BY <1>10, MoveTypes DEF Pclose, Places, Staging
  <2>2. QED
    BY <1>10, <2>1 DEF Pclose, Types
<1>11. ASSUME NEW r \in Requests, RemoveTemp(r) PROVE Types'
  <2>1. at' \in [Requests -> Places]
    BY <1>11, MoveTypes DEF RemoveTemp, Places
  <2>2. QED
    BY <1>11, <2>1 DEF RemoveTemp, Types
<1>12. CASE UNCHANGED vars
  BY <1>12 DEF vars, Types
<1>13. QED
  BY <1>1, <1>2, <1>3, <1>4, <1>5, <1>6, <1>7, <1>8, <1>9, <1>10, <1>11, <1>12,
     OpenTempTypes DEF Next, Handle
-----------------------------------------------------------------------------
(* The files, and the name of the copy. *)

LEMMA ToCreateFinite == IsFiniteSet(ToCreate) /\ Cardinality(ToCreate) \in Nat
<1>1. ToCreate \in SUBSET Requests
  BY DEF ToCreate
<1>2. QED
  BY <1>1, RequestsAssumption, FS_Subset, FS_CardinalityType

\* Every step but the creation of a file leaves fewer files to create, and
\* moves one request.
LEMMA StepMoves ==
    ASSUME Types, NEW r \in Requests, Handle(r)
    PROVE  /\ \A s \in Requests : s # r => at'[s] = at[s]
           /\ at'[r] \in Arriving => at[r] \in Arriving
           /\ at[r] \in Staging => at'[r] \in Staging \/ (at'[r] = "done" /\ name' = 0)
           /\ OpenTemp(r) \/ (born' = born /\ name' \in {name, 0})
<1>1. CASE CheckResolved(r)
  <2>1. at[r] = "start" /\ UNCHANGED fs
    BY <1>1 DEF CheckResolved
  <2>2. Move(r, "claim") \/ Located(r) \/ NotLocated(r)
    BY <1>1 DEF CheckResolved
  <2>3. \A s \in Requests : s # r => at'[s] = at[s]
    BY <2>2, LocatedTypes, MoveTypes DEF Places, Arriving
  <2>4. QED
    BY <2>1, <2>3 DEF fs, Arriving, Staging
<1>2. CASE Claim(r)
  BY <1>2, MoveTypes DEF Claim, fs, Places, Arriving, Staging
<1>3. CASE Resolve(r)
  BY <1>3, LocatedTypes DEF Resolve, fs, Arriving, Staging
<1>4. CASE OpenTemp(r)
  BY <1>4, MoveTypes DEF OpenTemp, Places, Arriving, Staging
<1>5. CASE OpenTempFails(r)
  BY <1>5, MoveTypes DEF OpenTempFails, fs, Places, Arriving, Staging
<1>6. CASE CopyBlock(r)
  BY <1>6 DEF CopyBlock, Arriving, Staging
<1>7. CASE CloseTemp(r)
  BY <1>7, MoveTypes DEF CloseTemp, fs, Places, Arriving, Staging
<1>8. CASE ChmodTemp(r)
  BY <1>8, MoveTypes DEF ChmodTemp, Places, Arriving, Staging
<1>9. CASE PopenFails(r) \/ Popen(r)
  <2>1. (Move(r, "remove") \/ Move(r, "run")) /\ UNCHANGED fs
    BY <1>9 DEF PopenFails, Popen
  <2>2. QED
    BY <2>1, MoveTypes DEF fs, Places, Arriving, Staging
<1>10. CASE Pclose(r)
  BY <1>10, MoveTypes DEF Pclose, fs, Places, Arriving, Staging
<1>11. CASE RemoveTemp(r)
  BY <1>11, MoveTypes DEF RemoveTemp, Places, Arriving, Staging
<1>12. QED
  BY <1>1, <1>2, <1>3, <1>4, <1>5, <1>6, <1>7, <1>8, <1>9, <1>10, <1>11 DEF Handle

LEMMA NextFilesSuffice == Types /\ FilesSuffice /\ [Next]_vars => FilesSuffice'
<1> SUFFICES ASSUME Types, FilesSuffice, [Next]_vars PROVE FilesSuffice'
  OBVIOUS
<1>1. CASE UNCHANGED vars
  BY <1>1 DEF vars, fs, FilesSuffice, ToCreate
<1>2. ASSUME NEW r \in Requests, Handle(r) PROVE FilesSuffice'
  <2>1. CASE OpenTemp(r)
    <3>1. at[r] = "open" /\ at'[r] = "copy" /\ \A s \in Requests : s # r => at'[s] = at[s]
      BY <2>1, MoveTypes DEF OpenTemp, Places, Staging
    <3>2. ToCreate' = ToCreate \ {r} /\ r \in ToCreate
      BY <3>1 DEF ToCreate, Arriving
    <3>3. Cardinality(ToCreate') = Cardinality(ToCreate) - 1
      BY <3>2, ToCreateFinite, FS_RemoveElement
    <3>4. born' <= born + 1
      BY <2>1, OpenTempTypes DEF Types
    <3>5. QED
      BY <3>3, <3>4, <2>1, OpenTempTypes, ToCreateFinite, Counts DEF FilesSuffice, Types
  <2>2. CASE born' = born
    <3>1. ToCreate' \in SUBSET ToCreate
      BY <1>2, StepMoves DEF ToCreate
    <3>2. Cardinality(ToCreate') <= Cardinality(ToCreate) /\ Cardinality(ToCreate') \in Nat
      BY <3>1, ToCreateFinite, FS_Subset, FS_CardinalityType
    <3>3. QED
      BY <2>2, <3>2, ToCreateFinite, Counts DEF FilesSuffice, Types
  <2>3. QED
    BY <1>2, <2>1, <2>2, StepMoves
<1>3. QED
  BY <1>1, <1>2 DEF Next

LEMMA NextFilesExist == Types /\ FilesSuffice /\ FilesExist /\ [Next]_vars => FilesExist'
<1> SUFFICES ASSUME Types, FilesSuffice, FilesExist, [Next]_vars PROVE FilesExist'
  OBVIOUS
<1>0. /\ born \in Nat /\ name \in 0 .. born /\ name <= born
      /\ \A r \in Requests : file[r] \in Nat
  BY DEF Types
<1>1. ASSUME NEW r \in Requests, OpenTemp(r) PROVE FilesExist'
  <2>1. /\ name' \in 1 .. born' /\ file'[r] = name'
        /\ born' = IF name = 0 THEN born + 1 ELSE born
        /\ \A s \in Requests : s # r => file'[s] = file[s]
    BY <1>1, OpenTempTypes
  <2>2. content' = content \/ content' = [content EXCEPT ![name] = {}]
    BY <1>1 DEF OpenTemp
  <2>3. \A f \in Files : f > born' => content'[f] = {}
    <3>1. \A f \in Files : f > born' => content[f] = {}
      BY <1>0, <2>1, Counts DEF FilesExist, Files
    <3>2. \A f \in Files : content'[f] \in {content[f], {}}
      BY <2>2 DEF Types
    <3>3. QED
      BY <3>1, <3>2
  <2>4. \A s \in Requests : file'[s] <= born'
    BY <1>0, <2>1 DEF FilesExist
  <2>5. QED
    BY <2>3, <2>4 DEF FilesExist
<1>2. ASSUME NEW r \in Requests, CopyBlock(r) PROVE FilesExist'
  <2>1. /\ content' = [content EXCEPT ![file[r]] = @ \cup {copied[r] + 1}]
        /\ file' = file /\ born' = born
    BY <1>2 DEF CopyBlock
  <2>2. file[r] <= born /\ file[r] \in Nat
    BY <1>0 DEF FilesExist
  <2>3. \A f \in Files : f > born => f # file[r] /\ content'[f] = content[f]
    BY <1>0, <2>1, <2>2 DEF Types, Files
  <2>4. QED
    BY <2>1, <2>3 DEF FilesExist
<1>3. ASSUME UNCHANGED <<born, content>>, NEW r \in Requests,
             \/ file' = file
             \/ file' = [file EXCEPT ![r] = 0]
             \/ file' = [file EXCEPT ![r] = name]
      PROVE  FilesExist'
  <2>1. \A s \in Requests : file'[s] \in {file[s], 0, name}
    BY <1>3 DEF Types
  <2>2. \A s \in Requests : file'[s] <= born
    BY <1>0, <2>1 DEF FilesExist
  <2>3. QED
    BY <1>3, <2>2 DEF FilesExist
<1>4. ASSUME NEW r \in Requests, Handle(r), ~OpenTemp(r), ~CopyBlock(r) PROVE FilesExist'
  <2>1. UNCHANGED <<born, content>>
    BY <1>4 DEF Handle, CheckResolved, Claim, Resolve, OpenTempFails, CloseTemp, ChmodTemp,
                PopenFails, Popen, Pclose, RemoveTemp, fs
  <2>2. \/ file' = file
        \/ file' = [file EXCEPT ![r] = 0]
        \/ file' = [file EXCEPT ![r] = name]
    BY <1>4 DEF Handle, CheckResolved, Claim, Resolve, OpenTempFails, CloseTemp, ChmodTemp,
                PopenFails, Popen, Pclose, RemoveTemp
  <2>3. QED
    BY <1>3, <2>1, <2>2
<1>5. CASE UNCHANGED vars
  BY <1>5 DEF vars, fs, FilesExist
<1>6. QED
  BY <1>1, <1>2, <1>4, <1>5 DEF Next

LEMMA NextNameIsStaged == Types /\ FilesSuffice /\ NameIsStaged /\ [Next]_vars => NameIsStaged'
<1> SUFFICES ASSUME Types, FilesSuffice, NameIsStaged, [Next]_vars, name' # 0
             PROVE  \E r \in Requests : at'[r] \in Staging
  BY DEF NameIsStaged
<1>1. CASE UNCHANGED vars
  BY <1>1 DEF vars, fs, NameIsStaged
<1>2. ASSUME NEW r \in Requests, Handle(r) PROVE \E s \in Requests : at'[s] \in Staging
  <2>1. CASE OpenTemp(r)
    BY <2>1, MoveTypes DEF OpenTemp, Places, Staging
  <2>2. CASE name' \in {name, 0}
    <3>1. PICK s \in Requests : at[s] \in Staging
      BY <2>2 DEF NameIsStaged
    <3>2. CASE s = r
      BY <1>2, <3>1, <3>2, StepMoves
    <3>3. CASE s # r
      BY <1>2, <3>1, <3>3, StepMoves
    <3>4. QED
      BY <3>2, <3>3
  <2>3. QED
    BY <1>2, <2>1, <2>2, StepMoves
<1>3. QED
  BY <1>1, <1>2 DEF Next
-----------------------------------------------------------------------------
(* Requests that do not overlap. *)

\* With one request under way, the others have not begun or have ended.
LEMMA Others ==
    ASSUME Types, Alone, NEW r \in Requests, at[r] \notin {"start", "done"}
    PROVE  /\ \A s \in Requests : s # r => at[s] \in {"start", "done"}
           /\ Busy = {r}
BY DEF Alone, Busy

\* A step of the only request is checked on what it and the statics become.
LEMMA OneStep ==
    ASSUME Types, InTurn, ~overlapped, NEW r \in Requests,
           \A s \in Requests : s # r => /\ at[s] \in {"start", "done"} /\ at'[s] = at[s]
                                        /\ file'[s] = file[s] /\ copied'[s] = copied[s]
                                        /\ answer'[s] = answer[s],
           FileOf(r)', AnswerOf(r)', Resolution'
    PROVE  InTurn'
<1>1. Alone'
  BY DEF Alone, Busy
<1>2. ASSUME NEW s \in Requests, s # r PROVE FileOf(s)' /\ AnswerOf(s)'
  <2>1. FileOf(s) /\ AnswerOf(s)
    BY DEF InTurn
  <2>2. /\ at[s] \in {"start", "done"} /\ at'[s] = at[s] /\ file'[s] = file[s]
        /\ copied'[s] = copied[s] /\ answer'[s] = answer[s]
    BY <1>2
  <2>3. QED
    BY <2>1, <2>2 DEF FileOf, AnswerOf
<1>3. QED
  BY <1>1, <1>2 DEF InTurn

\* The state of a request in turn, seen from its step.
LEMMA MyTurn ==
    ASSUME Types, InTurn, ~overlapped, NEW r \in Requests, at[r] \notin {"start", "done"}
    PROVE  /\ \A s \in Requests : s # r => at[s] \in {"start", "done"} /\ file[s] = 0
           /\ FileOf(r) /\ AnswerOf(r) /\ Resolution
           /\ Busy = {r}
           /\ NameIsStaged /\ at[r] \notin Staging => name = 0
<1>1. Alone /\ Resolution /\ \A s \in Requests : FileOf(s) /\ AnswerOf(s)
  BY DEF InTurn
<1>2. /\ \A s \in Requests : s # r => at[s] \in {"start", "done"}
      /\ Busy = {r}
  BY <1>1, Others
<1>3. \A s \in Requests : s # r => file[s] = 0
  BY <1>1, <1>2 DEF FileOf
<1>4. NameIsStaged /\ at[r] \notin Staging => name = 0
  BY <1>2 DEF NameIsStaged, Staging
<1>5. QED
  BY <1>1, <1>2, <1>3, <1>4

\* A name is one of the files that the model has room for.
LEMMA NameIsFile ==
    ASSUME Types, FilesSuffice, name # 0
    PROVE  name \in Files
<1>1. name # 0 /\ name \in 0 .. born /\ born \in Nat
  BY DEF Types
<1>2. born <= Cardinality(Requests)
  BY Counts, ToCreateFinite, <1>1 DEF FilesSuffice
<1>3. QED
  BY <1>1, <1>2, Counts DEF Files

\* What a located helper leads to: a page, the staging, or a 500 for want of a
\* descriptor.
LEMMA LocatedAnswers ==
    ASSUME Types, NEW r \in Requests, Located(r)
    PROVE  \/ r \in Echoes /\ answer'[r] = "path"
           \/ at'[r] = "open" /\ answer' = answer
           \/ r \in OpenFails /\ answer'[r] = "500"
<1>1. CASE r \in Echoes /\ Answer(r, "path")
  BY <1>1, AnswerTypes DEF Answers
<1>2. CASE Move(r, "open") /\ answer' = answer
  BY <1>2, MoveTypes DEF Places, Arriving
<1>3. CASE r \in OpenFails \ Echoes /\ NotLocated(r)
  <2>1. Answer(r, "500") /\ r \in OpenFails
    BY <1>3 DEF NotLocated
  <2>2. QED
    BY <2>1, AnswerTypes DEF Answers
<1>4. QED
  BY <1>1, <1>2, <1>3 DEF Located

LEMMA CheckResolvedTurn ==
    ASSUME Types, InTurn, NameIsStaged, NEW r \in Requests, CheckResolved(r), ~overlapped'
    PROVE  InTurn'
<1>1. /\ at[r] = "start" /\ ~overlapped /\ Busy = {}
      /\ UNCHANGED <<statics, fs, file, copied>>
      /\ IF ~resolved THEN Move(r, "claim") /\ UNCHANGED answer
         ELSE IF ok THEN Located(r) ELSE NotLocated(r)
  BY DEF CheckResolved
<1>2. /\ Resolution /\ FileOf(r) /\ AnswerOf(r)
  BY <1>1 DEF InTurn
<1>3. \A s \in Requests : at[s] \in {"start", "done"}
  BY <1>1 DEF Busy
<1>4. /\ at'[r] \in {"claim", "done", "open"}
      /\ \A s \in Requests : s # r => at'[s] = at[s] /\ answer'[s] = answer[s]
  BY <1>1, LocatedTypes, MoveTypes DEF Places, Arriving
<1>5. FileOf(r)'
  BY <1>1, <1>2, <1>4 DEF FileOf, fs, Arriving
<1>6. Resolution'
  BY <1>1, <1>2 DEF Resolution, statics
<1>7. AnswerOf(r)'
  <2> SUFFICES ASSUME Installed
               PROVE  /\ answer'[r] # "not found" /\ (answer'[r] = "500" => r \in OpenFails)
                      /\ \/ r \in OpenFails \cup Echoes
                         \/ at'[r] \notin {"run", "remove", "done"}
    BY DEF AnswerOf
  <2>1. CASE ~resolved
    <3>1. answer' = answer /\ Move(r, "claim")
      BY <1>1, <2>1
    <3>2. at'[r] = "claim"
      BY <3>1, MoveTypes DEF Places, Arriving
    <3>3. QED
      BY <1>2, <3>1, <3>2 DEF AnswerOf
  <2>2. CASE resolved
    <3>1. Located(r)
      BY <1>1, <1>2, <2>2 DEF Resolution
    <3>2. QED
      BY <1>2, <3>1, LocatedAnswers DEF AnswerOf
  <2>3. QED
    BY <2>1, <2>2
<1>8. QED
  BY <1>1, <1>3, <1>4, <1>5, <1>6, <1>7, OneStep

LEMMA ClaimTurn ==
    ASSUME Types, InTurn, NameIsStaged, NEW r \in Requests, Claim(r), ~overlapped'
    PROVE  InTurn'
<1>1. /\ at[r] = "claim" /\ ~overlapped /\ Move(r, "resolve")
      /\ UNCHANGED <<ok, fs, file, copied, answer>>
  BY DEF Claim
<1>2. at'[r] = "resolve" /\ \A s \in Requests : s # r => at'[s] = at[s]
  BY <1>1, MoveTypes DEF Places, Arriving
<1>3. /\ \A s \in Requests : s # r => at[s] \in {"start", "done"}
      /\ FileOf(r) /\ AnswerOf(r)
  BY <1>1, MyTurn
<1>4. FileOf(r)' /\ AnswerOf(r)' /\ Resolution'
  BY <1>1, <1>2, <1>3 DEF FileOf, AnswerOf, Resolution, Busy, Arriving
<1>5. QED
  BY <1>1, <1>2, <1>3, <1>4, OneStep

LEMMA ResolveTurn ==
    ASSUME Types, InTurn, NameIsStaged, NEW r \in Requests, Resolve(r), ~overlapped'
    PROVE  InTurn'
<1>1. /\ at[r] = "resolve" /\ ~overlapped
      /\ ok' = (ok \/ Installed)
      /\ IF Installed THEN Located(r) ELSE NotLocated(r)
      /\ UNCHANGED <<resolved, fs, file, copied>>
  BY DEF Resolve
<1>2. /\ \A s \in Requests : s # r => at[s] \in {"start", "done"}
      /\ FileOf(r) /\ AnswerOf(r)
  BY <1>1, MyTurn
<1>3. /\ at'[r] \in {"done", "open"}
      /\ \A s \in Requests : s # r => at'[s] = at[s] /\ answer'[s] = answer[s]
  BY <1>1, LocatedTypes
<1>4. FileOf(r)'
  BY <1>1, <1>2, <1>3 DEF FileOf, Arriving
<1>5. Resolution'
  BY <1>1 DEF Resolution
<1>6. AnswerOf(r)'
  <2> SUFFICES ASSUME Installed
               PROVE  /\ answer'[r] # "not found" /\ (answer'[r] = "500" => r \in OpenFails)
                      /\ \/ r \in OpenFails \cup Echoes
                         \/ at'[r] \notin {"run", "remove", "done"}
    BY DEF AnswerOf
  <2>1. Located(r)
    BY <1>1
  <2>2. QED
    BY <1>2, <2>1, LocatedAnswers DEF AnswerOf
<1>7. QED
  BY <1>1, <1>2, <1>3, <1>4, <1>5, <1>6, OneStep

LEMMA OpenTempTurn ==
    ASSUME Types, FilesSuffice, FilesExist, InTurn, NameIsStaged,
           NEW r \in Requests, OpenTemp(r), ~overlapped'
    PROVE  InTurn'
<1>1. /\ at[r] = "open" /\ ~overlapped /\ Move(r, "copy")
      /\ UNCHANGED <<statics, mode, copied, answer>>
  BY DEF OpenTemp
<1>2. at'[r] = "copy" /\ \A s \in Requests : s # r => at'[s] = at[s]
  BY <1>1, MoveTypes DEF Places, Staging
<1>3. /\ \A s \in Requests : s # r => at[s] \in {"start", "done"}
      /\ FileOf(r) /\ AnswerOf(r) /\ Resolution /\ Busy = {r} /\ name = 0
  BY <1>1, MyTurn DEF Staging
<1>4. /\ name' \in 1 .. born' /\ file'[r] = name' /\ Types'
      /\ \A s \in Requests : s # r => file'[s] = file[s]
  BY OpenTempTypes
<1>5. content'[name'] = {} /\ 1 .. copied'[r] = {}
  <2>1. content' = content /\ name' = born + 1 /\ copied'[r] = 0
    BY <1>1, <1>3 DEF OpenTemp, FileOf, Arriving
  <2>2. name' \in Files /\ name' > born
    BY <1>4, <2>1, OpenTempTypes DEF Types
  <2>3. QED
    BY <2>1, <2>2 DEF FilesExist
<1>6. Resolution'
  BY <1>1, <1>3 DEF Resolution, statics
<1>7. FileOf(r)'
  <2>1. name' # 0 /\ file'[r] = name' /\ content'[name'] = 1 .. copied'[r]
    <3>1. name' # 0
      BY <1>4, OpenTempTypes DEF Types
    <3>2. QED
      BY <1>4, <1>5, <3>1
  <2>2. QED
    BY <1>2, <2>1 DEF FileOf, Arriving
<1>8. AnswerOf(r)'
  BY <1>1, <1>2, <1>3 DEF AnswerOf
<1>9. QED
  BY <1>1, <1>2, <1>3, <1>4, <1>6, <1>7, <1>8, OneStep

\* With nobody else under way, only a want of descriptors keeps the copy from
\* being opened.
LEMMA OpenTempFailsTurn ==
    ASSUME Types, InTurn, NameIsStaged, NEW r \in Requests, OpenTempFails(r), ~overlapped'
    PROVE  InTurn'
<1>1. /\ at[r] = "open" /\ ~overlapped
      /\ Executing(name) \/ r \in OpenFails
      /\ Answer(r, "nothing") /\ Move(r, "done") /\ UNCHANGED <<statics, fs, file, copied>>
  BY DEF OpenTempFails
<1>2. /\ \A s \in Requests : s # r => at[s] \in {"start", "done"}
      /\ FileOf(r) /\ AnswerOf(r) /\ Resolution /\ Busy = {r} /\ name = 0
  BY <1>1, MyTurn DEF Staging
<1>3. r \in OpenFails
  BY <1>1, <1>2 DEF Executing
<1>4. at'[r] = "done" /\ \A s \in Requests : s # r => at'[s] = at[s]
  BY <1>1, MoveTypes DEF Places
<1>5. answer'[r] = "nothing" /\ \A s \in Requests : s # r => answer'[s] = answer[s]
  BY <1>1, AnswerTypes DEF Answers
<1>6. file' = file /\ copied' = copied /\ file[r] = 0
  BY <1>1, <1>2 DEF FileOf
<1>7. Resolution'
  BY <1>1, <1>2 DEF Resolution, statics
<1>8. FileOf(r)' /\ AnswerOf(r)'
  BY <1>3, <1>4, <1>5, <1>6 DEF FileOf, AnswerOf, Arriving
<1>9. QED
  BY <1>1, <1>2, <1>4, <1>5, <1>6, <1>7, <1>8, OneStep

LEMMA CopyBlockTurn ==
    ASSUME Types, FilesSuffice, InTurn, NameIsStaged, NEW r \in Requests, CopyBlock(r),
           ~overlapped'
    PROVE  InTurn'
<1>1. /\ at[r] = "copy" /\ ~overlapped /\ copied[r] < Chunks
      /\ copied' = [copied EXCEPT ![r] = @ + 1]
      /\ content' = [content EXCEPT ![file[r]] = @ \cup {copied[r] + 1}]
      /\ UNCHANGED <<statics, name, mode, at, file, answer>>
  BY DEF CopyBlock
<1>2. /\ \A s \in Requests : s # r => at[s] \in {"start", "done"}
      /\ FileOf(r) /\ AnswerOf(r) /\ Resolution
  BY <1>1, MyTurn
<1>3. /\ copied'[r] = copied[r] + 1
      /\ \A s \in Requests : s # r => copied'[s] = copied[s]
  BY <1>1 DEF Types
<1>4. name \in Files
  BY <1>1, <1>2, NameIsFile DEF FileOf
<1>5. content'[name] = 1 .. copied'[r]
  <2>1. file[r] = name /\ content[name] = 1 .. copied[r] /\ copied[r] \in Nat
    BY <1>1, <1>2 DEF FileOf, Types
  <2>2. content'[name] = content[name] \cup {copied[r] + 1}
    BY <1>1, <1>4, <2>1 DEF Types
  <2>3. QED
    BY <1>3, <2>1, <2>2
<1>6. FileOf(r)' /\ AnswerOf(r)' /\ Resolution'
  BY <1>1, <1>2, <1>5 DEF FileOf, AnswerOf, Resolution, Busy, statics, Arriving
<1>7. QED
  BY <1>1, <1>2, <1>3, <1>6, OneStep

LEMMA CloseTempTurn ==
    ASSUME Types, InTurn, NameIsStaged, NEW r \in Requests, CloseTemp(r), ~overlapped'
    PROVE  InTurn'
<1>1. /\ at[r] = "copy" /\ ~overlapped /\ copied[r] = Chunks
      /\ file' = [file EXCEPT ![r] = 0] /\ Move(r, "chmod")
      /\ UNCHANGED <<statics, fs, copied, answer>>
  BY DEF CloseTemp
<1>2. /\ \A s \in Requests : s # r => at[s] \in {"start", "done"}
      /\ FileOf(r) /\ AnswerOf(r) /\ Resolution /\ Busy = {r}
  BY <1>1, MyTurn
<1>3. at'[r] = "chmod" /\ \A s \in Requests : s # r => at'[s] = at[s]
  BY <1>1, MoveTypes DEF Places, Staging
<1>4. file'[r] = 0 /\ \A s \in Requests : s # r => file'[s] = file[s]
  BY <1>1 DEF Types
<1>5. name' = name /\ name # 0 /\ content' = content /\ content[name] = Blocks
  BY <1>1, <1>2 DEF FileOf, fs, Blocks
<1>6. Resolution'
  BY <1>1, <1>2 DEF Resolution, statics
<1>7. FileOf(r)' /\ AnswerOf(r)'
  BY <1>1, <1>2, <1>3, <1>4, <1>5 DEF FileOf, AnswerOf, Arriving
<1>8. QED
  BY <1>1, <1>2, <1>3, <1>4, <1>6, <1>7, OneStep

LEMMA ChmodTempTurn ==
    ASSUME Types, FilesSuffice, InTurn, NameIsStaged, NEW r \in Requests, ChmodTemp(r),
           ~overlapped'
    PROVE  InTurn'
<1>1. /\ at[r] = "chmod" /\ ~overlapped /\ Move(r, "exec")
      /\ mode' = IF name = 0 THEN mode ELSE [mode EXCEPT ![name] = TRUE]
      /\ UNCHANGED <<statics, name, content, file, copied, answer>>
  BY DEF ChmodTemp
<1>2. /\ \A s \in Requests : s # r => at[s] \in {"start", "done"}
      /\ FileOf(r) /\ AnswerOf(r) /\ Resolution /\ Busy = {r}
  BY <1>1, MyTurn
<1>3. at'[r] = "exec" /\ \A s \in Requests : s # r => at'[s] = at[s]
  BY <1>1, MoveTypes DEF Places, Staging
<1>4. name # 0 /\ content[name] = Blocks /\ mode'[name]
  <2>1. name # 0 /\ content[name] = Blocks
    BY <1>1, <1>2 DEF FileOf
  <2>2. QED
    BY <1>1, <2>1, NameIsFile DEF Types
<1>5. Resolution'
  BY <1>1, <1>2 DEF Resolution, statics
<1>6. FileOf(r)' /\ AnswerOf(r)'
  BY <1>1, <1>2, <1>3, <1>4 DEF FileOf, AnswerOf, Arriving
<1>7. QED
  BY <1>1, <1>2, <1>3, <1>5, <1>6, OneStep

LEMMA PopenTurn ==
    ASSUME Types, InTurn, NameIsStaged, NEW r \in Requests, PopenFails(r) \/ Popen(r),
           ~overlapped'
    PROVE  InTurn'
<1>1. /\ at[r] = "exec" /\ ~overlapped /\ UNCHANGED <<statics, fs, copied>>
      /\ Move(r, "run") \/ Move(r, "remove")
  <2>1. CASE PopenFails(r)
    BY <2>1 DEF PopenFails
  <2>2. CASE Popen(r)
    BY <2>2 DEF Popen
  <2>3. QED
    BY <2>1, <2>2
<1>2. /\ \A s \in Requests : s # r => at[s] \in {"start", "done"} /\ file[s] = 0
      /\ FileOf(r) /\ AnswerOf(r) /\ Resolution /\ Busy = {r}
  BY <1>1, MyTurn
<1>3. at'[r] \in {"run", "remove"} /\ \A s \in Requests : s # r => at'[s] = at[s]
  BY <1>1, MoveTypes DEF Places, Staging
<1>4. name # 0 /\ mode[name] /\ content[name] = Blocks /\ file[r] = 0
  BY <1>1, <1>2 DEF FileOf
<1>5. ~Written(name)
  BY <1>2, <1>4 DEF Written, HasOpen
<1>6. Resolution'
  BY <1>1, <1>2 DEF Resolution, statics
<1>7. CASE PopenFails(r)
  <2>1. r \in ForkFails /\ Answer(r, "nothing") /\ file' = file /\ at'[r] = "remove"
    BY <1>7, MoveTypes DEF PopenFails, Places, Staging
  <2>2. answer'[r] = "nothing" /\ \A s \in Requests : s # r => answer'[s] = answer[s]
    BY <2>1, AnswerTypes DEF Answers
  <2>3. FileOf(r)' /\ AnswerOf(r)'
    BY <1>4, <2>1, <2>2 DEF FileOf, AnswerOf, Arriving
  <2>4. QED
    BY <1>1, <1>2, <1>3, <1>6, <2>1, <2>2, <2>3, OneStep
<1>8. CASE Popen(r)
  <2>1. /\ Answer(r, "helper output") /\ file' = [file EXCEPT ![r] = name]
        /\ Move(r, "run")
    BY <1>4, <1>5, <1>8 DEF Popen
  <2>2. at'[r] = "run"
    BY <2>1, MoveTypes DEF Places, Staging
  <2>3. /\ answer'[r] = "helper output"
        /\ \A s \in Requests : s # r => answer'[s] = answer[s] /\ file'[s] = file[s]
    BY <2>1, AnswerTypes DEF Answers, Types
  <2>4. FileOf(r)' /\ AnswerOf(r)'
    BY <2>2, <2>3 DEF FileOf, AnswerOf, Arriving
  <2>5. QED
    BY <1>1, <1>2, <1>3, <1>6, <2>3, <2>4, OneStep
<1>9. QED
  BY <1>7, <1>8

LEMMA PcloseTurn ==
    ASSUME Types, InTurn, NameIsStaged, NEW r \in Requests, Pclose(r) \/ RemoveTemp(r),
           ~overlapped'
    PROVE  InTurn'
<1>1. /\ at[r] \in {"run", "remove"} /\ ~overlapped
      /\ file' = [file EXCEPT ![r] = 0] \/ (file' = file /\ at[r] = "remove")
      /\ Move(r, "remove") \/ Move(r, "done")
      /\ UNCHANGED <<statics, copied, answer>>
  BY DEF Pclose, RemoveTemp
<1>2. /\ \A s \in Requests : s # r => at[s] \in {"start", "done"}
      /\ FileOf(r) /\ AnswerOf(r) /\ Resolution /\ Busy = {r}
  BY <1>1, MyTurn
<1>3. at'[r] \in {"remove", "done"} /\ \A s \in Requests : s # r => at'[s] = at[s]
  BY <1>1, MoveTypes DEF Places, Staging
<1>4. file'[r] = 0 /\ \A s \in Requests : s # r => file'[s] = file[s]
  BY <1>1, <1>2 DEF Types, FileOf
<1>5. Resolution'
  BY <1>1, <1>2 DEF Resolution, statics
<1>6. FileOf(r)' /\ AnswerOf(r)'
  BY <1>1, <1>2, <1>3, <1>4 DEF FileOf, AnswerOf, Arriving
<1>7. QED
  BY <1>1, <1>2, <1>3, <1>4, <1>5, <1>6, OneStep

LEMMA NextInTurn ==
    Types /\ FilesSuffice /\ FilesExist /\ NameIsStaged /\ InTurn /\ [Next]_vars => InTurn'
<1> SUFFICES ASSUME Types, FilesSuffice, FilesExist, NameIsStaged, InTurn, [Next]_vars,
                    ~overlapped'
             PROVE  InTurn'
  BY DEF InTurn
<1>1. CASE UNCHANGED vars
  <2>1. Alone /\ Resolution /\ \A r \in Requests : FileOf(r) /\ AnswerOf(r)
    BY <1>1 DEF vars, InTurn
  <2>2. Busy' = Busy
    BY <1>1 DEF vars, Busy
  <2>3. Alone' /\ Resolution'
    BY <1>1, <2>1, <2>2 DEF vars, statics, Alone, Resolution
  <2>4. \A r \in Requests : FileOf(r)' /\ AnswerOf(r)'
    BY <1>1, <2>1 DEF vars, fs, FileOf, AnswerOf
  <2>5. QED
    BY <2>3, <2>4 DEF InTurn
<1>2. QED
  BY <1>1, CheckResolvedTurn, ClaimTurn, ResolveTurn, OpenTempTurn, OpenTempFailsTurn,
     CopyBlockTurn, CloseTempTurn, ChmodTempTurn, PopenTurn, PcloseTurn DEF Next, Handle
-----------------------------------------------------------------------------
(* The theorems. *)

LEMMA InitIInv == Init => IInv
<1> SUFFICES ASSUME Init PROVE IInv
  OBVIOUS
<1>1. FilesSuffice
  <2>1. ToCreate = Requests /\ born = 0
    BY DEF Init, ToCreate, Arriving
  <2>2. QED
    BY <2>1, Counts DEF FilesSuffice
<1>2. FilesExist /\ NameIsStaged
  BY DEF Init, FilesExist, NameIsStaged
<1>3. InTurn
  BY DEF Init, InTurn, Alone, Busy, Resolution, FileOf, AnswerOf
<1>4. QED
  BY <1>1, <1>2, <1>3, InitTypes DEF IInv

LEMMA NextIInv == IInv /\ [Next]_vars => IInv'
BY NextTypes, NextFilesSuffice, NextFilesExist, NextNameIsStaged, NextInTurn DEF IInv

\* Every reachable state of the helper requests satisfies the inductive
\* invariant.
THEOREM HelperInvariant == Spec => []IInv
BY InitIInv, NextIInv, PTL DEF Spec

\* While requests do not overlap, each is answered with what the installed
\* helper prints, whatever number of them came before and failed, unless a call
\* of its own fails.
THEOREM HelperRuns == Spec => [](Installed => HelperRan)
<1>1. IInv => (Installed => HelperRan)
  BY DEF IInv, InTurn, AnswerOf, HelperRan
<1>2. QED
  BY <1>1, HelperInvariant, PTL

\* On the same condition, no request is told that the helper is missing but one
\* that cannot open it: the statics of get_cgi_helper_path() are resolved once
\* and stay good.
THEOREM HelperLocatedOnce == Spec => []LocatedOnce
<1>1. IInv => LocatedOnce
  BY InstanceAssumption DEF IInv, InTurn, AnswerOf, LocatedOnce
<1>2. QED
  BY <1>1, HelperInvariant, PTL

\* However requests overlap and fail, the last of them leaves no copy behind.
THEOREM HelperLeavesNothing == Spec => []NothingLeftBehind
<1>1. IInv => NothingLeftBehind
  BY DEF IInv, NameIsStaged, NothingLeftBehind, Busy, Staging
<1>2. QED
  BY <1>1, HelperInvariant, PTL
=============================================================================
