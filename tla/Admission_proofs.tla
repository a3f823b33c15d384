--------------------------- MODULE Admission_proofs ---------------------------
(***************************************************************************)
(* What the server reads of a request, and whom it admits, for any number  *)
(* of clients, requests and seconds, and for texts of any length.          *)
(*                                                                         *)
(* The first part is about Sessions, which takes right credentials as a    *)
(* Boolean: whose session an id is, and when credentials are refused.  The *)
(* others are about Text, where credentials are bytes and a request is a   *)
(* text: codes are undone as clients made them, the request line decides   *)
(* how a request is answered, a session cookie is read as it was set, a    *)
(* redirect leads to its directory, and the echo page shows what was sent. *)
(* Nothing can be proved by induction over data with the operators of the  *)
(* libraries; where a text is of any length, the proofs take the least     *)
(* position at which a claim fails.                                        *)
(***************************************************************************)
EXTENDS Sessions, Text, TLAPS, SequenceTheorems, WellFoundedInduction

(* Sessions: whose they are, and who is admitted. *)

Ids == Nat \X Nat
AnyId == Ids \cup Presented \cup {NoSession}   \* what a request may name
Stages == {"idle", "refused", "authorize", "publish", "fill", "decode", "handle",
           "mint", "draw", "store", "reply"}

Types == /\ now \in Nat /\ seed \in Nat /\ drawn \in Nat /\ seeded \subseteq Nat
         /\ sessions \in [Stored -> {"default_user_data", "authenticated:admin"}]
         /\ jar \in [Clients -> AnyId]
         /\ sent \in [Clients -> Nat]
         /\ stage \in [Clients -> Stages]
         /\ kind \in [Clients -> Kinds]
         /\ credentials \in [Clients -> BOOLEAN]
         /\ sid \in [Clients -> AnyId]
         /\ table \in Nat /\ filled \subseteq Nat
         /\ mine \in [Clients -> Nat]
         /\ vouched \subseteq AnyId

\* An id that was drawn: since the last srand() it is one of the numbers
\* drawn, and no earlier seed comes back.
Minted(id) == /\ id \in Ids
              /\ id[1] \in seeded
              /\ id[1] = seed => id[2] <= drawn

\* The ids given to a client: its cookie's, and one that is being minted.
Given(c) == {jar[c]} \cup (IF stage[c] \in {"store", "reply"} THEN {sid[c]} ELSE {})

\* Every id that is given to a client was drawn, and is given to nobody else;
\* one that is to be stored is new to its own client too.
EachItsOwn ==
    /\ \A c \in Clients : stage[c] = "draw" => seed \in seeded
    /\ \A c \in Clients : \A id \in Given(c) \ {NoSession} : Minted(id)
    /\ \A c, d \in Clients : c # d => Given(c) \cap Given(d) \subseteq {NoSession}
    /\ \A c \in Clients : stage[c] = "store" => sid[c] \in Ids /\ sid[c] # jar[c]

\* An id is authenticated only if right credentials have come with it; while
\* they are looked at they stay with the request.
Vouching ==
    /\ \A id \in Stored : DataOf(id) = "authenticated:admin" => id \in vouched
    /\ \A c \in Clients : stage[c] \in {"authorize", "publish", "fill", "decode"} =>
           (credentials[c] /\ ByCookie(c) => sid[c] \in vouched)
    /\ \A c \in Clients : stage[c] = "handle" =>
           credentials[c] \/ (ByCookie(c) /\ sid[c] \in vouched)

\* A table that was published and is not filled is about to be filled by the
\* worker that published it, and nobody fills or reads a table before there is
\* one.
NeedsTable(c) == \/ stage[c] \in {"fill", "decode"}
                 \/ stage[c] = "handle" /\ kind[c] = "whoami"
TableComes ==
    /\ table # 0 /\ table \notin filled =>
           \E d \in Clients : stage[d] = "fill" /\ mine[d] = table
    /\ \A c \in Clients : NeedsTable(c) => table # 0

\* The inductive invariant.
IInv == Types /\ (Spaced => EachItsOwn) /\ TableComes /\ Vouching
-----------------------------------------------------------------------------
(* Types. *)

LEMMA InitTypes == Init => Types
<1> SUFFICES ASSUME Init PROVE Types
  OBVIOUS
<1>1. Stored = {} /\ sessions \in [Stored -> {"default_user_data", "authenticated:admin"}]
  BY DEF Init, Stored
<1>2. QED
  BY <1>1 DEF Init, Types, Stages, Kinds, AnyId

\* What becomes of the map of sessions, of the request that ends, and of one
\* that goes on.
LEMMA StoreTypes ==
    ASSUME Types, NEW id, NEW data \in {"default_user_data", "authenticated:admin"},
           Store(id, data)
    PROVE  /\ sessions' \in [Stored' -> {"default_user_data", "authenticated:admin"}]
           /\ Stored' = Stored \cup {id}
           /\ \A i : DataOf(i)' = IF i = id THEN data ELSE DataOf(i)
<1>1. sessions' = [i \in Stored \cup {id} |-> IF i = id THEN data ELSE sessions[i]]
  BY DEF Store
<1>2. Stored' = Stored \cup {id}
  BY <1>1 DEF Stored
<1>3. \A i \in Stored : sessions[i] \in {"default_user_data", "authenticated:admin"}
  BY DEF Types
<1>4. QED
  BY <1>1, <1>2, <1>3 DEF DataOf

LEMMA EndTypes ==
    ASSUME Types, NEW c \in Clients, NEW answer \in {"idle", "refused"}, End(c, answer)
    PROVE  /\ stage' \in [Clients -> Stages] /\ kind' \in [Clients -> Kinds]
           /\ credentials' \in [Clients -> BOOLEAN]
           /\ sid' \in [Clients -> AnyId]
           /\ stage'[c] = answer /\ kind'[c] = "page" /\ ~credentials'[c]
           /\ sid'[c] = NoSession
           /\ \A d \in Clients : d # c => /\ stage'[d] = stage[d] /\ kind'[d] = kind[d]
                                          /\ credentials'[d] = credentials[d]
                                          /\ sid'[d] = sid[d]
BY DEF Types, End, Move, Stages, Kinds, AnyId

LEMMA MoveTypes ==
    ASSUME Types, NEW c \in Clients, NEW s \in Stages, Move(c, s)
    PROVE  /\ stage' \in [Clients -> Stages] /\ stage'[c] = s
           /\ \A d \in Clients : d # c => stage'[d] = stage[d]
BY DEF Types, Move

LEMMA NextTypes == Types /\ [Next]_vars => Types'
<1> SUFFICES ASSUME Types, [Next]_vars PROVE Types'
  OBVIOUS
<1> USE DEF random, request, decoding
<1>1. CASE Tick
  BY <1>1 DEF Tick, Types, Stored
<1>2. ASSUME NEW c \in Clients, Send(c) PROVE Types'
  <2>1. PICK k \in Kinds, right \in BOOLEAN,
             id \in {jar[d] : d \in Clients} \cup Presented \cup {NoSession} :
          /\ sid' = [sid EXCEPT ![c] = id]
          /\ vouched' = IF right /\ k # "whoami" THEN vouched \cup {id} ELSE vouched
          /\ kind' = [kind EXCEPT ![c] = k]
          /\ credentials' = [credentials EXCEPT ![c] = right]
          /\ Move(c, IF k \in AdminKinds THEN "authorize" ELSE "mint")
    BY <1>2 DEF Send
  <2>2. stage' \in [Clients -> Stages]
    BY <2>1, MoveTypes DEF Stages
  <2>0. id \in AnyId
    BY <2>1 DEF Types, AnyId
  <2>3. sid' \in [Clients -> AnyId] /\ vouched' \subseteq AnyId /\ sent' \in [Clients -> Nat]
    BY <1>2, <2>0, <2>1 DEF Send, Types
  <2>4. kind' \in [Clients -> Kinds] /\ credentials' \in [Clients -> BOOLEAN]
    BY <2>1 DEF Types
  <2>5. QED
    BY <1>2, <2>2, <2>3, <2>4 DEF Send, Types, Stored
<1>3. ASSUME NEW c \in Clients, AdmitSession(c) PROVE Types'
  <2>1. stage' \in [Clients -> Stages]
    BY <1>3, MoveTypes DEF AdmitSession, Stages
  <2>2. QED
    BY <1>3, <2>1 DEF AdmitSession, Types, Stored
<1>4. ASSUME NEW c \in Clients, FallBack(c) PROVE Types'
  <2>1. CASE End(c, "refused")
    BY <1>4, <2>1, EndTypes DEF FallBack, Types, Stored
  <2>2. CASE ~End(c, "refused")
    <3>1. /\ Move(c, IF table = 0 THEN "publish" ELSE "decode")
          /\ UNCHANGED <<kind, credentials, sid>>
      BY <1>4, <2>2 DEF FallBack
    <3>2. stage' \in [Clients -> Stages]
      BY <3>1, MoveTypes DEF Stages
    <3>3. QED
      BY <1>4, <3>1, <3>2 DEF FallBack, Types, Stored
  <2>3. QED
    BY <2>1, <2>2
<1>5. ASSUME NEW c \in Clients, PublishTable(c) PROVE Types'
  <2>1. stage' \in [Clients -> Stages]
    BY <1>5, MoveTypes DEF PublishTable, Stages
  <2>2. table' \in Nat /\ mine' \in [Clients -> Nat]
    BY <1>5 DEF PublishTable, Types
  <2>3. QED
    BY <1>5, <2>1, <2>2 DEF PublishTable, Types, Stored
<1>6. ASSUME NEW c \in Clients, FillTable(c) PROVE Types'
  <2>1. stage' \in [Clients -> Stages]
    BY <1>6, MoveTypes DEF FillTable, Stages
  <2>2. filled' \subseteq Nat
    <3>1. table \in Nat /\ mine[c] \in Nat /\ filled \subseteq Nat
      BY DEF Types
    <3>2. QED
      BY <1>6, <3>1 DEF FillTable
  <2>3. QED
    BY <1>6, <2>1, <2>2 DEF FillTable, Types, Stored
<1>7. ASSUME NEW c \in Clients, BasicAuth(c) PROVE Types'
  <2>1. CASE Readable(c)
    <3>1. /\ IF ByCookie(c) THEN Store(sid[c], "authenticated:admin") ELSE UNCHANGED sessions
          /\ Move(c, "handle")
          /\ UNCHANGED <<kind, credentials, sid>>
      BY <1>7, <2>1 DEF BasicAuth
    <3>2. sessions' \in [Stored' -> {"default_user_data", "authenticated:admin"}]
      BY <3>1, StoreTypes DEF Types, Stored
    <3>3. stage' \in [Clients -> Stages]
      BY <3>1, MoveTypes DEF Stages
    <3>4. QED
      BY <1>7, <3>1, <3>2, <3>3 DEF BasicAuth, Types
  <2>2. CASE ~Readable(c)
    BY <1>7, <2>2, EndTypes DEF BasicAuth, Types, Stored
  <2>3. QED
    BY <2>1, <2>2
<1>8. ASSUME NEW c \in Clients, HandleAdmin(c) PROVE Types'
  <2>1. CASE End(c, "idle")
    BY <1>8, <2>1, EndTypes DEF HandleAdmin, Types, Stored
  <2>2. CASE ~End(c, "idle")
    <3>1. stage' \in [Clients -> Stages] /\ UNCHANGED <<kind, credentials, sid>>
      BY <1>8, <2>2, MoveTypes DEF HandleAdmin, Stages
    <3>2. QED
      BY <1>8, <3>1 DEF HandleAdmin, Types, Stored
  <2>3. QED
    BY <2>1, <2>2
<1>9. ASSUME NEW c \in Clients, Whoami(c) PROVE Types'
  BY <1>9, EndTypes DEF Whoami, Types, Stored
<1>10. ASSUME NEW c \in Clients, Seed(c) PROVE Types'
  <2>1. stage' \in [Clients -> Stages]
    BY <1>10, MoveTypes DEF Seed, Stages
  <2>2. QED
    BY <1>10, <2>1 DEF Seed, Types, Stored
<1>11. ASSUME NEW c \in Clients, Draw(c) PROVE Types'
  <2>1. stage' \in [Clients -> Stages]
    BY <1>11, MoveTypes DEF Draw, Stages
  <2>2. drawn' \in Nat /\ sid' \in [Clients -> AnyId]
    BY <1>11 DEF Draw, Types, Ids, AnyId
  <2>3. QED
    BY <1>11, <2>1, <2>2 DEF Draw, Types, Stored
<1>12. ASSUME NEW c \in Clients, StoreSession(c) PROVE Types'
  <2>1. sessions' \in [Stored' -> {"default_user_data", "authenticated:admin"}]
    BY <1>12, StoreTypes DEF StoreSession
  <2>2. stage' \in [Clients -> Stages]
    BY <1>12, MoveTypes DEF StoreSession, Stages
  <2>3. QED
    BY <1>12, <2>1, <2>2 DEF StoreSession, Types
<1>13. ASSUME NEW c \in Clients, SkipMint(c) PROVE Types'
  BY <1>13, EndTypes DEF SkipMint, Types, Stored
<1>14. ASSUME NEW c \in Clients, Reply(c) PROVE Types'
  <2>1. jar' \in [Clients -> AnyId]
    BY <1>14 DEF Reply, Types
  <2>2. QED
    BY <1>14, <2>1, EndTypes DEF Reply, Types, Stored
<1>15. CASE UNCHANGED vars
  BY <1>15 DEF vars, Types, Stored
<1>16. QED
  BY <1>1, <1>2, <1>3, <1>4, <1>5, <1>6, <1>7, <1>8, <1>9, <1>10, <1>11, <1>12, <1>13,
     <1>14, <1>15 DEF Next, Serve, Quiet
-----------------------------------------------------------------------------
(* The decoding table. *)

\* A step that leaves the tables alone and takes no worker away from filling
\* one.
LEMMA TablesAlone ==
    ASSUME TableComes, UNCHANGED decoding,
           \A d \in Clients : stage[d] = "fill" => stage'[d] = "fill",
           \A d \in Clients : NeedsTable(d)' => table # 0 \/ NeedsTable(d)
    PROVE  TableComes'
BY DEF TableComes, decoding

\* Such a step, of one client that is not filling a table.
LEMMA ClientAlone ==
    ASSUME TableComes, UNCHANGED decoding, NEW c \in Clients, stage[c] # "fill",
           \A d \in Clients : d # c => stage'[d] = stage[d] /\ kind'[d] = kind[d],
           NeedsTable(c)' => table # 0
    PROVE  TableComes'
<1>1. \A d \in Clients : stage[d] = "fill" => stage'[d] = "fill"
  OBVIOUS
<1>2. \A d \in Clients : NeedsTable(d)' => table # 0 \/ NeedsTable(d)
  BY DEF NeedsTable
<1>3. QED
  BY <1>1, <1>2, TablesAlone

LEMMA PublishTableComes ==
    ASSUME Types, TableComes, NEW c \in Clients, PublishTable(c)
    PROVE  TableComes'
<1>1. table' = table + 1 /\ table' # 0
  BY DEF PublishTable, Types
<1>2. stage'[c] = "fill"
  BY MoveTypes DEF PublishTable, Stages
<1>3. mine'[c] = table'
  BY <1>1 DEF PublishTable, Types
<1>4. QED
  BY <1>1, <1>2, <1>3 DEF TableComes

LEMMA FillTableComes ==
    ASSUME Types, TableComes, NEW c \in Clients, FillTable(c)
    PROVE  TableComes'
<1>1. /\ stage[c] = "fill" /\ table' = table /\ mine' = mine /\ kind' = kind
      /\ Move(c, "decode")
  BY DEF FillTable
<1>2. PICK t \in {table, mine[c]} : filled' = filled \cup {t}
  BY DEF FillTable
<1>3. stage'[c] = "decode" /\ \A d \in Clients : d # c => stage'[d] = stage[d]
  BY <1>1, MoveTypes DEF Stages
<1>4. ASSUME table # 0, table \notin filled'
      PROVE  \E d \in Clients : stage'[d] = "fill" /\ mine'[d] = table
  <2>1. PICK d \in Clients : stage[d] = "fill" /\ mine[d] = table
    BY <1>2, <1>4 DEF TableComes
  <2>2. d # c
    BY <1>2, <1>4, <2>1
  <2>3. QED
    BY <1>1, <1>3, <2>1, <2>2
<1>5. table # 0
  BY <1>1 DEF TableComes, NeedsTable
<1>6. QED
  BY <1>1, <1>3, <1>4, <1>5 DEF TableComes

LEMMA NextTableComes == Types /\ TableComes /\ [Next]_vars => TableComes'
<1> SUFFICES ASSUME Types, TableComes, [Next]_vars PROVE TableComes'
  OBVIOUS
<1>1. CASE Tick \/ UNCHANGED vars
  <2>1. UNCHANGED <<stage, kind, table, mine, filled>>
    BY <1>1 DEF Tick, vars, request, decoding
  <2>2. QED
    BY <2>1 DEF TableComes, NeedsTable
<1>2. ASSUME NEW c \in Clients, Send(c) PROVE TableComes'
  <2>1. PICK k \in Kinds :
          /\ kind' = [kind EXCEPT ![c] = k]
          /\ Move(c, IF k \in AdminKinds THEN "authorize" ELSE "mint")
    BY <1>2 DEF Send
  <2>2. /\ stage'[c] \in {"authorize", "mint"}
        /\ \A d \in Clients : d # c => stage'[d] = stage[d] /\ kind'[d] = kind[d]
    BY <2>1, MoveTypes DEF Stages, Types
  <2>3. stage[c] # "fill" /\ UNCHANGED decoding
    BY <1>2 DEF Send
  <2>4. QED
    BY <2>2, <2>3, ClientAlone DEF NeedsTable
<1>3. ASSUME NEW c \in Clients, AdmitSession(c) PROVE TableComes'
  <2>1. /\ stage[c] = "authorize" /\ UNCHANGED <<decoding, kind>> /\ Move(c, "handle")
        /\ kind[c] # "whoami"
    BY <1>3 DEF AdmitSession, Authenticated, ByCookie
  <2>2. stage'[c] = "handle" /\ \A d \in Clients : d # c => stage'[d] = stage[d]
    BY <2>1, MoveTypes DEF Stages
  <2>3. QED
    BY <2>1, <2>2, ClientAlone DEF NeedsTable
<1>4. ASSUME NEW c \in Clients, FallBack(c) PROVE TableComes'
  <2>1. stage[c] = "authorize" /\ UNCHANGED decoding
    BY <1>4 DEF FallBack
  <2>2. CASE End(c, "refused")
    BY <2>1, <2>2, EndTypes, ClientAlone DEF NeedsTable
  <2>3. CASE ~End(c, "refused")
    <3>1. Move(c, IF table = 0 THEN "publish" ELSE "decode") /\ UNCHANGED kind
      BY <1>4, <2>3 DEF FallBack
    <3>2. /\ stage'[c] = IF table = 0 THEN "publish" ELSE "decode"
          /\ \A d \in Clients : d # c => stage'[d] = stage[d]
      BY <3>1, MoveTypes DEF Stages
    <3>3. QED
      BY <2>1, <3>1, <3>2, ClientAlone DEF NeedsTable
  <2>4. QED
    BY <2>2, <2>3
<1>5. ASSUME NEW c \in Clients, BasicAuth(c) PROVE TableComes'
  <2>1. stage[c] = "decode" /\ UNCHANGED decoding /\ table # 0
    BY <1>5 DEF BasicAuth, TableComes, NeedsTable
  <2>2. CASE Readable(c)
    <3>1. Move(c, "handle") /\ UNCHANGED kind
      BY <1>5, <2>2 DEF BasicAuth
    <3>2. \A d \in Clients : d # c => stage'[d] = stage[d]
      BY <3>1, MoveTypes DEF Stages
    <3>3. QED
      BY <2>1, <3>1, <3>2, ClientAlone
  <2>3. CASE ~Readable(c)
    BY <1>5, <2>1, <2>3, EndTypes, ClientAlone DEF BasicAuth, NeedsTable
  <2>4. QED
    BY <2>2, <2>3
<1>6. ASSUME NEW c \in Clients, HandleAdmin(c) PROVE TableComes'
  <2>1. stage[c] = "handle" /\ UNCHANGED decoding
    BY <1>6 DEF HandleAdmin
  <2>2. CASE End(c, "idle")
    BY <2>1, <2>2, EndTypes, ClientAlone DEF NeedsTable
  <2>3. CASE ~End(c, "idle")
    <3>1. Move(c, "mint") /\ UNCHANGED kind
      BY <1>6, <2>3 DEF HandleAdmin
    <3>2. stage'[c] = "mint" /\ \A d \in Clients : d # c => stage'[d] = stage[d]
      BY <3>1, MoveTypes DEF Stages
    <3>3. QED
      BY <2>1, <3>1, <3>2, ClientAlone DEF NeedsTable
  <2>4. QED
    BY <2>2, <2>3
<1>7. ASSUME NEW c \in Clients, Whoami(c) \/ SkipMint(c) \/ Reply(c) PROVE TableComes'
  <2>1. /\ stage[c] # "fill" /\ UNCHANGED decoding
        /\ \E answer \in {"idle", "refused"} : End(c, answer)
    BY <1>7 DEF Whoami, SkipMint, Reply
  <2>2. PICK answer \in {"idle", "refused"} : End(c, answer)
    BY <2>1
  <2>3. QED
    BY <2>1, <2>2, EndTypes, ClientAlone DEF NeedsTable
<1>8. ASSUME NEW c \in Clients, Seed(c) \/ Draw(c) \/ StoreSession(c) PROVE TableComes'
  <2>1. /\ stage[c] # "fill" /\ UNCHANGED <<decoding, kind>>
        /\ \E s \in {"draw", "store", "reply"} : Move(c, s)
    BY <1>8 DEF Seed, Draw, StoreSession
  <2>2. PICK s \in {"draw", "store", "reply"} : Move(c, s)
    BY <2>1
  <2>3. stage'[c] = s /\ \A d \in Clients : d # c => stage'[d] = stage[d]
    BY <2>2, MoveTypes DEF Stages
  <2>4. QED
    BY <2>1, <2>3, ClientAlone DEF NeedsTable
<1>9. ASSUME NEW c \in Clients, PublishTable(c) \/ FillTable(c) PROVE TableComes'
  BY <1>9, PublishTableComes, FillTableComes
<1>10. QED
  BY <1>1, <1>2, <1>3, <1>4, <1>5, <1>6, <1>7, <1>8, <1>9 DEF Next, Serve, Quiet
-----------------------------------------------------------------------------
(* Whose session an id is, while fresh visitors come at different seconds. *)

\* What a step must leave alone of the other clients.
OthersAlone(c) ==
    \A d \in Clients : d # c => /\ jar'[d] = jar[d] /\ sid'[d] = sid[d]
                                /\ stage'[d] = stage[d]

\* A step that mints nothing, and by which a client is given no id.
LEMMA NothingNew ==
    ASSUME EachItsOwn, NEW c \in Clients, UNCHANGED random, OthersAlone(c),
           Given(c)' \subseteq Given(c) \cup {NoSession}, stage'[c] \notin {"draw", "store"}
    PROVE  EachItsOwn'
<1>1. \A d \in Clients : Given(d)' \subseteq Given(d) \cup {NoSession}
  BY DEF OthersAlone, Given
<1>2. \A d \in Clients : stage'[d] \in {"draw", "store"} =>
          d # c /\ stage'[d] = stage[d] /\ sid'[d] = sid[d] /\ jar'[d] = jar[d]
  BY DEF OthersAlone
<1>3. \A id : Minted(id)' = Minted(id)
  BY DEF random, Minted
<1>4. /\ \A d \in Clients : stage'[d] = "draw" => seed' \in seeded'
      /\ \A d \in Clients : stage'[d] = "store" => sid'[d] \in Ids /\ sid'[d] # jar'[d]
  BY <1>2 DEF EachItsOwn, random
<1>5. /\ \A d \in Clients : \A id \in Given(d)' \ {NoSession} : Minted(id)'
      /\ \A d, e \in Clients : d # e => Given(d)' \cap Given(e)' \subseteq {NoSession}
  BY <1>1, <1>3 DEF EachItsOwn
<1>6. QED
  BY <1>4, <1>5 DEF EachItsOwn

LEMMA SendOwn ==
    ASSUME Types, EachItsOwn, NEW c \in Clients, Send(c)
    PROVE  EachItsOwn'
<1>1. PICK k \in Kinds, id \in {jar[d] : d \in Clients} \cup Presented \cup {NoSession} :
         sid' = [sid EXCEPT ![c] = id] /\ Move(c, IF k \in AdminKinds THEN "authorize" ELSE "mint")
  BY DEF Send
<1>2. /\ stage'[c] \in {"authorize", "mint"}
      /\ \A d \in Clients : d # c => stage'[d] = stage[d]
  BY <1>1, MoveTypes DEF Stages
<1>3. /\ \A d \in Clients : d # c => sid'[d] = sid[d]
      /\ UNCHANGED <<random, jar>>
  BY <1>1 DEF Send, Types
<1>4. OthersAlone(c) /\ Given(c)' \subseteq Given(c)
  BY <1>2, <1>3 DEF OthersAlone, Given
<1>5. QED
  BY <1>2, <1>3, <1>4, NothingNew

\* A request that has nothing minted goes on, or a request ends.
LEMMA ProceedOwn ==
    ASSUME Types, EachItsOwn, NEW c \in Clients, UNCHANGED <<random, jar>>,
           \/ \E s \in Stages \ {"draw", "store", "reply"} : Move(c, s) /\ sid' = sid
           \/ \E answer \in {"idle", "refused"} : End(c, answer)
    PROVE  EachItsOwn'
<1>1. /\ stage'[c] \notin {"draw", "store", "reply"}
      /\ \A d \in Clients : d # c => stage'[d] = stage[d] /\ sid'[d] = sid[d]
  BY EndTypes, MoveTypes
<1>2. OthersAlone(c) /\ Given(c)' \subseteq Given(c)
  BY <1>1 DEF OthersAlone, Given
<1>3. QED
  BY <1>1, <1>2, NothingNew

\* A seed that is not in force again leaves the ids minted before apart.
LEMMA SeedOwn ==
    ASSUME Types, EachItsOwn, Spaced, NEW c \in Clients, Seed(c)
    PROVE  EachItsOwn'
<1>1. /\ now \notin seeded /\ seed' = now /\ seeded' = seeded \cup {now}
      /\ Move(c, "draw") /\ stage[c] = "mint"
      /\ UNCHANGED <<jar, sid>>
  BY DEF Seed
<1>2. stage'[c] = "draw" /\ \A d \in Clients : d # c => stage'[d] = stage[d]
  BY <1>1, MoveTypes DEF Stages
<1>3. \A id : Minted(id) => Minted(id)'
  BY <1>1 DEF Minted
<1>4. \A d \in Clients : Given(d)' = Given(d)
  BY <1>1, <1>2 DEF Given
<1>5. QED
  BY <1>1, <1>2, <1>3, <1>4 DEF EachItsOwn

LEMMA DrawOwn ==
    ASSUME Types, EachItsOwn, NEW c \in Clients, Draw(c)
    PROVE  EachItsOwn'
<1>0. PICK new : new = <<seed, drawn + 1>>
  OBVIOUS
<1>1. /\ stage[c] = "draw" /\ drawn' = drawn + 1
      /\ sid' = [sid EXCEPT ![c] = new]
      /\ Move(c, "store")
      /\ UNCHANGED <<seed, seeded, jar>>
  BY <1>0 DEF Draw
<1>2. stage'[c] = "store" /\ \A d \in Clients : d # c => stage'[d] = stage[d]
  BY <1>1, MoveTypes DEF Stages
<1>3. sid'[c] = new /\ \A d \in Clients : d # c => sid'[d] = sid[d]
  BY <1>1 DEF Types
<1>4. new \in Ids /\ new[1] = seed /\ new[2] = drawn + 1 /\ new # NoSession
  BY <1>0, NoSessionAssumption DEF Types, Ids
<1>5. ~Minted(new)
  BY <1>4 DEF Minted, Types
<1>6. Minted(new)'
  BY <1>1, <1>4 DEF Minted, EachItsOwn, Types
<1>7. \A id : Minted(id) => Minted(id)'
  <2> SUFFICES ASSUME NEW id, Minted(id) PROVE Minted(id)'
    OBVIOUS
  <2>1. id[2] \in Nat
    BY DEF Minted, Ids
  <2>2. QED
    BY <1>1, <2>1 DEF Minted, Types
<1>8. \A d \in Clients : new \notin Given(d)
  BY <1>4, <1>5 DEF EachItsOwn
<1>9. /\ Given(c)' \subseteq Given(c) \cup {new}
      /\ \A d \in Clients : d # c => Given(d)' = Given(d)
  BY <1>1, <1>2, <1>3 DEF Given
<1>10. \A d, e \in Clients : d # e => Given(d)' \cap Given(e)' \subseteq {NoSession}
  BY <1>8, <1>9 DEF EachItsOwn
<1>11. \A d \in Clients : \A id \in Given(d)' \ {NoSession} : Minted(id)'
  BY <1>6, <1>7, <1>9 DEF EachItsOwn
<1>12. new # jar[c]
  BY <1>8 DEF Given
<1>13. \A d \in Clients : stage'[d] = "store" => sid'[d] \in Ids /\ sid'[d] # jar'[d]
  BY <1>1, <1>2, <1>3, <1>4, <1>12 DEF EachItsOwn
<1>14. \A d \in Clients : stage'[d] = "draw" => seed' \in seeded'
  BY <1>1, <1>2 DEF EachItsOwn
<1>15. QED
  BY <1>10, <1>11, <1>13, <1>14 DEF EachItsOwn

\* The id is stored, then sent, when it may become the client's cookie.
LEMMA StoreSessionOwn ==
    ASSUME Types, EachItsOwn, NEW c \in Clients, StoreSession(c)
    PROVE  EachItsOwn'
<1>1. /\ stage[c] = "store" /\ Move(c, "reply") /\ UNCHANGED <<random, jar, sid>>
  BY DEF StoreSession
<1>2. stage'[c] = "reply" /\ \A d \in Clients : d # c => stage'[d] = stage[d]
  BY <1>1, MoveTypes DEF Stages
<1>3. OthersAlone(c) /\ Given(c)' \subseteq Given(c)
  BY <1>1, <1>2 DEF OthersAlone, Given
<1>4. QED
  BY <1>1, <1>2, <1>3, NothingNew

LEMMA ReplyOwn ==
    ASSUME Types, EachItsOwn, NEW c \in Clients, Reply(c)
    PROVE  EachItsOwn'
<1>1. /\ stage[c] = "reply" /\ End(c, "idle") /\ UNCHANGED random
      /\ jar' = jar \/ jar' = [jar EXCEPT ![c] = sid[c]]
  BY DEF Reply
<1>2. /\ stage'[c] = "idle"
      /\ \A d \in Clients : d # c => stage'[d] = stage[d] /\ sid'[d] = sid[d]
  BY <1>1, EndTypes
<1>3. jar'[c] \in {jar[c], sid[c]} /\ \A d \in Clients : d # c => jar'[d] = jar[d]
  BY <1>1 DEF Types
<1>4. OthersAlone(c) /\ Given(c)' \subseteq Given(c)
  BY <1>1, <1>2, <1>3 DEF OthersAlone, Given
<1>5. QED
  BY <1>1, <1>2, <1>4, NothingNew

LEMMA NextOwn == Types /\ EachItsOwn /\ Spaced /\ [Next]_vars => EachItsOwn'
<1> SUFFICES ASSUME Types, EachItsOwn, Spaced, [Next]_vars PROVE EachItsOwn'
  OBVIOUS
<1>1. CASE Tick \/ UNCHANGED vars
  <2>1. UNCHANGED <<random, jar, stage, sid>>
    BY <1>1 DEF Tick, vars, request
  <2>2. QED
    BY <2>1 DEF EachItsOwn, Given, Minted, random
<1>2. ASSUME NEW c \in Clients,
             \/ AdmitSession(c) \/ FallBack(c) \/ PublishTable(c) \/ FillTable(c)
             \/ BasicAuth(c) \/ HandleAdmin(c) \/ Whoami(c) \/ SkipMint(c)
      PROVE  EachItsOwn'
  <2>1. UNCHANGED <<random, jar>>
    BY <1>2 DEF AdmitSession, FallBack, PublishTable, FillTable, BasicAuth, HandleAdmin,
                Whoami, SkipMint
  <2>2. \/ \E s \in Stages \ {"draw", "store", "reply"} : Move(c, s) /\ sid' = sid
        \/ \E answer \in {"idle", "refused"} : End(c, answer)
    BY <1>2 DEF AdmitSession, FallBack, PublishTable, FillTable, BasicAuth, HandleAdmin,
                Whoami, SkipMint, Stages
  <2>3. QED
    BY <2>1, <2>2, ProceedOwn
<1>3. ASSUME NEW c \in Clients,
             Send(c) \/ Seed(c) \/ Draw(c) \/ StoreSession(c) \/ Reply(c)
      PROVE  EachItsOwn'
  BY <1>3, SendOwn, SeedOwn, DrawOwn, StoreSessionOwn, ReplyOwn
<1>4. QED
  BY <1>1, <1>2, <1>3 DEF Next, Serve, Quiet
-----------------------------------------------------------------------------
(* Credentials vouch for the id that they come with. *)

\* A step of one client that authenticates nothing.
LEMMA VouchedAlone ==
    ASSUME Vouching, NEW c \in Clients, UNCHANGED <<sessions, vouched>>,
           \A d \in Clients : d # c => /\ stage'[d] = stage[d] /\ kind'[d] = kind[d]
                                       /\ credentials'[d] = credentials[d] /\ sid'[d] = sid[d],
           stage'[c] \notin {"authorize", "publish", "fill", "decode", "handle"}
    PROVE  Vouching'
<1>1. Stored' = Stored /\ \A id : DataOf(id)' = DataOf(id)
  BY DEF Stored, DataOf
<1>2. QED
  BY <1>1 DEF Vouching, ByCookie

LEMMA SendVouching ==
    ASSUME Types, Vouching, NEW c \in Clients, Send(c)
    PROVE  Vouching'
<1>1. PICK k \in Kinds, right \in BOOLEAN,
           id \in {jar[d] : d \in Clients} \cup Presented \cup {NoSession} :
        /\ sid' = [sid EXCEPT ![c] = id]
        /\ vouched' = IF right /\ k # "whoami" THEN vouched \cup {id} ELSE vouched
        /\ kind' = [kind EXCEPT ![c] = k]
        /\ credentials' = [credentials EXCEPT ![c] = right]
        /\ Move(c, IF k \in AdminKinds THEN "authorize" ELSE "mint")
  BY DEF Send
<1>2. /\ stage'[c] \in {"authorize", "mint"}
      /\ \A d \in Clients : d # c => stage'[d] = stage[d]
  BY <1>1, MoveTypes DEF Stages
<1>3. /\ sid'[c] = id /\ kind'[c] = k /\ credentials'[c] = right
      /\ \A d \in Clients : d # c => /\ kind'[d] = kind[d] /\ sid'[d] = sid[d]
                                     /\ credentials'[d] = credentials[d]
  BY <1>1 DEF Types
<1>4. vouched \subseteq vouched' /\ (right /\ k # "whoami" => id \in vouched')
  BY <1>1
<1>5. Stored' = Stored /\ \A i : DataOf(i)' = DataOf(i)
  BY DEF Send, Stored, DataOf
<1>6. \A i \in Stored' : DataOf(i)' = "authenticated:admin" => i \in vouched'
  BY <1>4, <1>5 DEF Vouching
<1>7. ASSUME NEW d \in Clients
      PROVE  /\ stage'[d] \in {"authorize", "publish", "fill", "decode"} =>
                    (credentials'[d] /\ ByCookie(d)' => sid'[d] \in vouched')
             /\ stage'[d] = "handle" =>
                    credentials'[d] \/ (ByCookie(d)' /\ sid'[d] \in vouched')
  <2>1. CASE d = c
    BY <1>2, <1>3, <1>4, <2>1 DEF ByCookie
  <2>2. CASE d # c
    BY <1>2, <1>3, <1>4, <2>2 DEF ByCookie, Vouching
  <2>3. QED
    BY <2>1, <2>2
<1>8. QED
  BY <1>6, <1>7 DEF Vouching

\* A request goes on with what it has sent, to where it may be only if it or
\* its session is vouched for.
LEMMA GoesOnVouching ==
    ASSUME Types, Vouching, NEW c \in Clients, NEW s \in Stages, Move(c, s),
           UNCHANGED <<sessions, vouched, kind, credentials, sid>>,
           stage[c] \in {"authorize", "publish", "fill", "decode"},
           s = "handle" => credentials[c] \/ Authenticated(c)
    PROVE  Vouching'
<1>1. stage'[c] = s /\ \A d \in Clients : d # c => stage'[d] = stage[d]
  BY MoveTypes
<1>2. Stored' = Stored /\ \A id : DataOf(id)' = DataOf(id)
  BY DEF Stored, DataOf
<1>3. Authenticated(c) => ByCookie(c) /\ sid[c] \in vouched
  BY DEF Authenticated, DataOf, Vouching
<1>4. QED
  BY <1>1, <1>2, <1>3 DEF Vouching, ByCookie

LEMMA BasicAuthVouching ==
    ASSUME Types, Vouching, NEW c \in Clients, BasicAuth(c), Readable(c)
    PROVE  Vouching'
<1>1. /\ stage[c] = "decode" /\ credentials[c] /\ Move(c, "handle")
      /\ IF ByCookie(c) THEN Store(sid[c], "authenticated:admin") ELSE UNCHANGED sessions
      /\ UNCHANGED <<kind, credentials, sid, vouched>>
  BY DEF BasicAuth, Readable
<1>2. CASE ~ByCookie(c)
  BY <1>1, <1>2, GoesOnVouching DEF Stages
<1>3. CASE ByCookie(c)
  <2>1. /\ Stored' = Stored \cup {sid[c]}
        /\ \A id : DataOf(id)' = IF id = sid[c] THEN "authenticated:admin" ELSE DataOf(id)
    BY <1>1, <1>3, StoreTypes
  <2>2. sid[c] \in vouched
    BY <1>1, <1>3 DEF Vouching
  <2>3. stage'[c] = "handle" /\ \A d \in Clients : d # c => stage'[d] = stage[d]
    BY <1>1, MoveTypes DEF Stages
  <2>4. \A id \in Stored' : DataOf(id)' = "authenticated:admin" => id \in vouched'
    BY <1>1, <2>1, <2>2 DEF Vouching
  <2>5. QED
    BY <1>1, <2>3, <2>4 DEF Vouching, ByCookie
<1>4. QED
  BY <1>2, <1>3

LEMMA StoreSessionVouching ==
    ASSUME Types, Vouching, NEW c \in Clients, StoreSession(c)
    PROVE  Vouching'
<1>1. /\ Store(sid[c], "default_user_data") /\ Move(c, "reply")
      /\ UNCHANGED <<kind, credentials, sid, vouched>>
  BY DEF StoreSession
<1>2. stage'[c] = "reply" /\ \A d \in Clients : d # c => stage'[d] = stage[d]
  BY <1>1, MoveTypes DEF Stages
<1>3. /\ Stored' = Stored \cup {sid[c]}
      /\ \A id : DataOf(id)' = IF id = sid[c] THEN "default_user_data" ELSE DataOf(id)
  BY <1>1, StoreTypes
<1>4. QED
  BY <1>1, <1>2, <1>3 DEF Vouching, ByCookie

LEMMA NextVouching == Types /\ Vouching /\ [Next]_vars => Vouching'
<1> SUFFICES ASSUME Types, Vouching, [Next]_vars PROVE Vouching'
  OBVIOUS
<1>1. CASE Tick \/ UNCHANGED vars
  <2>1. UNCHANGED <<sessions, vouched, request>>
    BY <1>1 DEF Tick, vars
  <2>2. QED
    BY <2>1 DEF Vouching, ByCookie, DataOf, Stored, request
<1>2. ASSUME NEW c \in Clients, NEW answer \in {"idle", "refused"}, End(c, answer),
             UNCHANGED <<sessions, vouched>>
      PROVE  Vouching'
  BY <1>2, EndTypes, VouchedAlone
<1>3. ASSUME NEW c \in Clients, AdmitSession(c) \/ PublishTable(c) \/ FillTable(c)
      PROVE  Vouching'
  <2>1. /\ UNCHANGED <<sessions, vouched, kind, credentials, sid>>
        /\ stage[c] \in {"authorize", "publish", "fill", "decode"}
        /\ \E s \in Stages : Move(c, s) /\ (s = "handle" => Authenticated(c))
    BY <1>3 DEF AdmitSession, PublishTable, FillTable, Stages
  <2>2. QED
    BY <2>1, GoesOnVouching
<1>4. ASSUME NEW c \in Clients, FallBack(c) PROVE Vouching'
  <2>1. CASE End(c, "refused")
    BY <1>2, <1>4, <2>1 DEF FallBack
  <2>2. CASE ~End(c, "refused")
    BY <1>4, <2>2, GoesOnVouching DEF FallBack, Stages
  <2>3. QED
    BY <2>1, <2>2
<1>5. ASSUME NEW c \in Clients, BasicAuth(c) PROVE Vouching'
  <2>1. CASE ~Readable(c)
    BY <1>2, <1>5, <2>1 DEF BasicAuth
  <2>2. QED
    BY <1>5, <2>1, BasicAuthVouching
<1>6. ASSUME NEW c \in Clients, HandleAdmin(c) PROVE Vouching'
  <2>1. UNCHANGED <<sessions, vouched>>
    BY <1>6 DEF HandleAdmin
  <2>2. CASE End(c, "idle")
    BY <1>2, <2>1, <2>2
  <2>3. CASE ~End(c, "idle")
    <3>1. Move(c, "mint") /\ UNCHANGED <<kind, credentials, sid>>
      BY <1>6, <2>3 DEF HandleAdmin
    <3>2. stage'[c] = "mint" /\ \A d \in Clients : d # c => stage'[d] = stage[d]
      BY <3>1, MoveTypes DEF Stages
    <3>3. QED
      BY <2>1, <3>1, <3>2, VouchedAlone
  <2>4. QED
    BY <2>2, <2>3
<1>7. ASSUME NEW c \in Clients, Whoami(c) \/ SkipMint(c) \/ Reply(c) PROVE Vouching'
  <2>1. UNCHANGED <<sessions, vouched>> /\ \E answer \in {"idle", "refused"} : End(c, answer)
    BY <1>7 DEF Whoami, SkipMint, Reply
  <2>2. QED
    BY <1>2, <2>1
<1>8. ASSUME NEW c \in Clients, Seed(c) \/ Draw(c) PROVE Vouching'
  <2>1. /\ UNCHANGED <<sessions, vouched, kind, credentials>>
        /\ \E s \in {"draw", "store"} : Move(c, s)
        /\ \A d \in Clients : d # c => sid'[d] = sid[d]
    BY <1>8 DEF Seed, Draw, Types
  <2>2. PICK s \in {"draw", "store"} : Move(c, s)
    BY <2>1
  <2>3. stage'[c] = s /\ \A d \in Clients : d # c => stage'[d] = stage[d]
    BY <2>2, MoveTypes DEF Stages
  <2>4. QED
    BY <2>1, <2>3, VouchedAlone
<1>9. ASSUME NEW c \in Clients, Send(c) \/ StoreSession(c) PROVE Vouching'
  BY <1>9, SendVouching, StoreSessionVouching
<1>10. QED
  BY <1>1, <1>3, <1>4, <1>5, <1>6, <1>7, <1>8, <1>9 DEF Next, Serve, Quiet
-----------------------------------------------------------------------------
(* The theorems. *)

LEMMA InitIInv == Init => IInv
<1>1. Init => TableComes
  BY DEF Init, TableComes, NeedsTable
<1>2. Init => EachItsOwn
  BY DEF Init, EachItsOwn, Given
<1>3. Init => Vouching
  BY DEF Init, Vouching, Stored
<1>4. QED
  BY <1>1, <1>2, <1>3, InitTypes DEF IInv

LEMMA NextIInv == IInv /\ [Next]_vars => IInv'
BY NextTypes, NextTableComes, NextOwn, NextVouching DEF IInv

\* Every reachable state of sessions and admission satisfies the inductive
\* invariant.
THEOREM SessionsInvariant == Spec => []IInv
BY InitIInv, NextIInv, PTL DEF Spec

\* As long as fresh visitors come at different seconds, no two clients are
\* given the same session, however srand() and rand() of their mintings
\* interleave.
THEOREM SessionsStayDistinct == Spec => [](Spaced => SessionsDistinct)
<1>1. IInv => (Spaced => SessionsDistinct)
  <2> SUFFICES ASSUME IInv, Spaced, NEW c \in Clients, NEW d \in Clients,
                      jar[c] = jar[d], jar[c] # NoSession
               PROVE  c = d
    BY DEF SessionsDistinct
  <2>1. jar[c] \in Given(c) /\ jar[c] \in Given(d)
    BY DEF Given
  <2>2. QED
    BY <2>1 DEF IInv, EachItsOwn
<1>2. QED
  BY <1>1, SessionsInvariant, PTL

\* Whatever ids requests name, and however they are minted: only right
\* credentials authenticate an id, and whoever is admitted has sent them or
\* names an id that they have come with.
THEOREM SessionsAdmitByCredentials == Spec => []AdmittedByCredentials
<1>1. IInv => AdmittedByCredentials
  BY DEF IInv, Vouching, AdmittedByCredentials
<1>2. QED
  BY <1>1, SessionsInvariant, PTL

\* As long as fresh visitors come at different seconds, the map never loses
\* that a session is authenticated which a client was given or which is not
\* the generator's: sessions[session_id] = "default_user_data" is about
\* another one.
THEOREM SessionsStayAuthenticated ==
    ASSUME Spaced
    PROVE  Spec => StaysAuthenticated
<1> DEFINE Kept == \A id \in Stored :
                      /\ sessions[id] = "authenticated:admin"
                      /\ id \notin Nat \X Nat \/ \E c \in Clients : jar[c] = id
                      => id \in DOMAIN sessions' /\ sessions'[id] = "authenticated:admin"
<1>1. IInv /\ [Next]_vars => [Kept]_vars
  <2> SUFFICES ASSUME IInv, [Next]_vars, NEW id \in Stored,
                      sessions[id] = "authenticated:admin",
                      id \notin Nat \X Nat \/ \E c \in Clients : jar[c] = id
               PROVE  id \in Stored' /\ sessions'[id] = "authenticated:admin"
    BY DEF Stored
  <2>1. CASE UNCHANGED sessions
    BY <2>1 DEF Stored
  <2>2. ASSUME NEW c \in Clients, BasicAuth(c), ~UNCHANGED sessions
        PROVE  id \in Stored' /\ sessions'[id] = "authenticated:admin"
    <3>1. Store(sid[c], "authenticated:admin")
      BY <2>2 DEF BasicAuth
    <3>2. QED
      BY <3>1 DEF Store, Stored
  <2>3. ASSUME NEW c \in Clients, StoreSession(c)
        PROVE  id \in Stored' /\ sessions'[id] = "authenticated:admin"
    <3>1. Store(sid[c], "default_user_data") /\ stage[c] = "store"
      BY <2>3 DEF StoreSession
    <3>2. sid[c] \in Ids /\ sid[c] # jar[c] /\ sid[c] # NoSession
      BY <3>1, NoSessionAssumption DEF IInv, EachItsOwn, Ids
    <3>3. \A d \in Clients : d # c => sid[c] \notin Given(d)
      BY <3>1, <3>2 DEF IInv, EachItsOwn, Given
    <3>4. id # sid[c]
      BY <3>2, <3>3 DEF Given, Ids
    <3>5. QED
      BY <3>1, <3>4 DEF Store, Stored
  <2>4. QED
    BY <2>1, <2>2, <2>3
       DEF Next, Tick, Quiet, vars, Send, Serve, AdmitSession, FallBack, PublishTable,
           FillTable, HandleAdmin, Whoami, Seed, Draw, SkipMint, Reply
<1>2. QED
  BY <1>1, SessionsInvariant, PTL DEF Spec, StaysAuthenticated

\* Whatever the clients and the clock do, right credentials are refused only
\* while some worker is filling a table.
THEOREM SessionsRefuseOnlyWhileBuilding == Spec => RefusedOnlyWhileBuilding
<1> DEFINE Excused == \A c \in Clients :
                        credentials[c] /\ stage[c] # "refused" /\ stage'[c] = "refused"
                            => \E d \in Clients : stage[d] = "fill"
<1>1. IInv /\ [Next]_vars => [Excused]_vars
  <2> SUFFICES ASSUME IInv, [Next]_vars, NEW c \in Clients,
                      credentials[c], stage[c] # "refused", stage'[c] = "refused"
               PROVE  \E d \in Clients : stage[d] = "fill"
    OBVIOUS
  <2> USE DEF IInv
  <2>1. ASSUME NeedsTable(c), ~Readable(c)
        PROVE  \E d \in Clients : stage[d] = "fill"
    BY <2>1 DEF TableComes, Readable
  <2>2. ASSUME NEW d \in Clients, End(d, "refused")
        PROVE  c = d
    BY <2>2, EndTypes
  <2>3. ASSUME NEW d \in Clients, \E answer \in {"idle", "refused"} : End(d, answer)
        PROVE  c = d /\ End(c, "refused")
    <3>1. PICK answer \in {"idle", "refused"} : End(d, answer)
      BY <2>3
    <3>2. QED
      BY <3>1, EndTypes
  <2>4. ASSUME NEW d \in Clients, NEW s \in Stages, s # "refused", Move(d, s)
        PROVE  FALSE
    BY <2>4, MoveTypes
  <2>5. ASSUME NEW d \in Clients, BasicAuth(d) PROVE \E e \in Clients : stage[e] = "fill"
    <3>1. End(d, "refused") /\ ~Readable(d) /\ NeedsTable(d)
      BY <2>4, <2>5 DEF BasicAuth, NeedsTable, Stages
    <3>2. QED
      BY <2>1, <2>2, <3>1
  <2>6. ASSUME NEW d \in Clients, Whoami(d) PROVE \E e \in Clients : stage[e] = "fill"
    <3>1. c = d /\ stage[d] = "handle" /\ kind[d] = "whoami"
      BY <2>3, <2>6 DEF Whoami
    <3>2. NeedsTable(c)
      BY <3>1 DEF NeedsTable
    <3>3. ~Readable(c)
      BY <2>6, <3>1, EndTypes DEF Whoami
    <3>4. QED
      BY <2>1, <3>2, <3>3
  <2>7. ASSUME NEW d \in Clients, FallBack(d) PROVE FALSE
    BY <2>2, <2>4, <2>7 DEF FallBack, Stages
  <2>8. ASSUME NEW d \in Clients, SkipMint(d) \/ Reply(d) \/ HandleAdmin(d) PROVE FALSE
    <3>1. End(d, "idle") \/ Move(d, "mint")
      BY <2>8 DEF SkipMint, Reply, HandleAdmin
    <3>2. QED
      BY <2>4, <3>1, EndTypes DEF Stages
  <2>9. ASSUME NEW d \in Clients,
               Send(d) \/ AdmitSession(d) \/ PublishTable(d) \/ FillTable(d)
                   \/ Seed(d) \/ Draw(d) \/ StoreSession(d)
        PROVE  FALSE
    <3>1. \E s \in Stages \ {"refused"} : Move(d, s)
      BY <2>9 DEF Send, AdmitSession, PublishTable, FillTable, Seed, Draw, StoreSession, Stages
    <3>2. QED
      BY <2>4, <3>1
  <2>10. CASE Tick \/ UNCHANGED vars
    BY <2>10 DEF Tick, vars, request
  <2>11. QED
    BY <2>5, <2>6, <2>7, <2>8, <2>9, <2>10 DEF Next, Serve, Quiet
<1>2. QED
  BY <1>1, SessionsInvariant, PTL DEF Spec, RefusedOnlyWhileBuilding
-----------------------------------------------------------------------------
(* Base64: what is encoded comes back, and quartets go by themselves. *)

\* What is to be sent as credentials, parameter or code is a text of bytes.
BytesTyped == bytes \in Seq(Bytes)

\* The alphabet: 64 letters, all different, and none of them the padding.
LEMMA LetterFacts ==
    ASSUME NEW s \in 0 .. 63
    PROVE  /\ Letter(s) \in Bytes /\ Letter(s) # Pad
           /\ \A r \in 0 .. 63 : Letter(r) = Letter(s) => r = s
BY SMT DEF Letter, Bytes, Pad

LEMMA LetterDecodes ==
    ASSUME NEW s \in 0 .. 63
    PROVE  Sextet(Letter(s)) = s
BY LetterFacts, SMT DEF DecodingTable, Letters, Sextet

LEMMA SextetOfLetter ==
    ASSUME NEW c \in Letters
    PROVE  /\ c \in Bytes /\ c # Pad
           /\ DecodingTable[c] \in 0 .. 63
           /\ Sextet(c) = DecodingTable[c]
<1>1. PICK s \in 0 .. 63 : c = Letter(s)
  BY SMT DEF Letters
<1>2. QED
  BY <1>1, LetterFacts, LetterDecodes, SMT DEF Sextet

\* The arithmetic of the two ways to split a word.
LEMMA OctetsOfWord ==
    ASSUME NEW a \in Bytes, NEW b \in Bytes, NEW c \in Bytes
    PROVE  /\ OfOctets(a, b, c) \in Nat /\ OfOctets(a, b, c) < WordSize
           /\ OctetOf(OfOctets(a, b, c), 1) = a
           /\ OctetOf(OfOctets(a, b, c), 2) = b
           /\ OctetOf(OfOctets(a, b, c), 3) = c
<1>1. (a * 65536 + b * 256 + c) \div 256 = a * 256 + b
  BY SMT DEF Bytes
<1>2. QED
  BY <1>1, SMT DEF WordSize, OctetOf, OfOctets, Bytes

\* A sextet is less than 64, and the four of a word make it up.
LEMMA SextetIsBounded ==
    ASSUME NEW w \in Nat, NEW k \in 1 .. 4
    PROVE  SextetOf(w, k) \in 0 .. 63
BY SMT DEF SextetOf

LEMMA SextetsOfWord ==
    ASSUME NEW w \in Nat, w < WordSize
    PROVE  OfSextets(SextetOf(w, 1), SextetOf(w, 2), SextetOf(w, 3), SextetOf(w, 4)) = w
<1>1. w \div 4096 = (w \div 64) \div 64 /\ w \div 262144 = (w \div 4096) \div 64
  BY SMT
<1>2. w = 64 * (w \div 64) + ((w \div 1) % 64)
  BY SMT
<1>3. w \div 64 = 64 * (w \div 4096) + ((w \div 64) % 64)
  BY SMT
<1>4. w \div 4096 = 64 * (w \div 262144) + ((w \div 4096) % 64)
  BY SMT
<1>5. (w \div 262144) % 64 = w \div 262144
  BY SMT DEF WordSize
<1>6. QED
  BY <1>1, <1>2, <1>3, <1>4, <1>5, SMT DEF SextetOf, OfSextets

\* What encode() reads of its data, and the word it makes of three octets.
LEMMA OctetIsByte ==
    ASSUME NEW data \in Seq(Bytes), NEW i \in Nat \ {0}
    PROVE  Octet(data, i) \in Bytes
BY ElementOfSeq, LenProperties, SMT DEF Octet, Bytes

LEMMA WordFacts ==
    ASSUME NEW data \in Seq(Bytes), NEW q \in Nat
    PROVE  /\ Word(data, q) \in Nat /\ Word(data, q) < WordSize
           /\ OctetOf(Word(data, q), 1) = Octet(data, 3 * q + 1)
           /\ OctetOf(Word(data, q), 2) = Octet(data, 3 * q + 2)
           /\ OctetOf(Word(data, q), 3) = Octet(data, 3 * q + 3)
<1>2. /\ Octet(data, 3 * q + 1) \in Bytes
      /\ Octet(data, 3 * q + 2) \in Bytes
      /\ Octet(data, 3 * q + 3) \in Bytes
  BY OctetIsByte, SMT
<1> DEFINE a == Octet(data, 3 * q + 1)
           b == Octet(data, 3 * q + 2)
           c == Octet(data, 3 * q + 3)
<1>3. Word(data, q) = OfOctets(a, b, c)
  BY Zenon DEF Word
<1>4. a \in Bytes /\ b \in Bytes /\ c \in Bytes
  BY <1>2, Zenon
<1> HIDE DEF a, b, c
<1>5. /\ OfOctets(a, b, c) \in Nat /\ OfOctets(a, b, c) < WordSize
      /\ OctetOf(OfOctets(a, b, c), 1) = a
      /\ OctetOf(OfOctets(a, b, c), 2) = b
      /\ OctetOf(OfOctets(a, b, c), 3) = c
  BY <1>4, OctetsOfWord, SMT
<1>6. QED
  BY <1>3, <1>5, Zenon DEF a, b, c

\* The lengths of a text of n bytes.
LEMMA Lengths ==
    ASSUME NEW n \in Nat
    PROVE  /\ PadsFor(n) \in 0 .. 2
           /\ (n + 2) \div 3 \in Nat
           /\ 3 * ((n + 2) \div 3) - PadsFor(n) = n
           /\ n > 0 => (n + 2) \div 3 > 0
BY SMT DEF PadsFor

\* An encoded text by its letters: four for every three octets begun, and
\* padding for the last one or two that stand for no octet.
LEMMA EncodeFacts ==
    ASSUME NEW data \in Seq(Bytes)
    PROVE  LET Q == (Len(data) + 2) \div 3
           IN  /\ Encode(data) \in Seq(Bytes)
               /\ Len(Encode(data)) = 4 * Q
               /\ \A i \in 1 .. 4 * Q, q \in 0 .. Q - 1, k \in 1 .. 4 :
                     i = 4 * q + k =>
                        Encode(data)[i] = IF i > 4 * Q - PadsFor(Len(data)) THEN Pad
                                          ELSE Letter(SextetOf(Word(data, q), k))
<1> DEFINE Q == (Len(data) + 2) \div 3
           pads == PadsFor(Len(data))
           E(i) == IF i > 4 * Q - pads THEN Pad
                   ELSE Letter(SextetOf(Word(data, (i - 1) \div 4), ((i - 1) % 4) + 1))
<1>1. Len(data) \in Nat /\ Q \in Nat /\ pads \in 0 .. 2
  BY Lengths, LenProperties, SMT
<1>2. Encode(data) = [i \in 1 .. 4 * Q |-> E(i)]
  BY SMT DEF Encode
<1> HIDE DEF Q, pads
<1>3. ASSUME NEW i \in 1 .. 4 * Q, NEW q \in 0 .. Q - 1, NEW k \in 1 .. 4, i = 4 * q + k
      PROVE  /\ E(i) = IF i > 4 * Q - pads THEN Pad ELSE Letter(SextetOf(Word(data, q), k))
             /\ E(i) \in Bytes
  <2>1. (i - 1) \div 4 = q /\ ((i - 1) % 4) + 1 = k
    BY <1>1, <1>3, SMT
  <2>0. q \in Nat
    BY <1>1, SMT
  <2>2. Word(data, q) \in Nat /\ Word(data, q) < WordSize
    BY <2>0, WordFacts, Zenon
  <2>3. SextetOf(Word(data, q), k) \in 0 .. 63
    BY <2>2, SextetIsBounded, Zenon
  <2>4. Letter(SextetOf(Word(data, q), k)) \in Bytes
    BY <2>3, LetterFacts, Zenon
  <2>5. E(i) = IF i > 4 * Q - pads THEN Pad ELSE Letter(SextetOf(Word(data, q), k))
    BY <2>1, SMT
  <2>6. QED
    BY <2>4, <2>5, SMT DEF Bytes, Pad
<1> HIDE DEF E
<1>4. ASSUME NEW i \in 1 .. 4 * Q
      PROVE  \E q \in 0 .. Q - 1, k \in 1 .. 4 : i = 4 * q + k
  <2>1. (i - 1) \div 4 \in 0 .. Q - 1 /\ ((i - 1) % 4) + 1 \in 1 .. 4
    BY <1>1, SMT
  <2>2. i = 4 * ((i - 1) \div 4) + (((i - 1) % 4) + 1)
    BY <1>1, SMT
  <2>3. QED
    BY <2>1, <2>2, SMT
<1>5. Encode(data) \in [1 .. 4 * Q -> Bytes]
  <2>1. \A i \in 1 .. 4 * Q : E(i) \in Bytes
    BY <1>3, <1>4, SMT
  <2>2. QED
    BY <1>2, <2>1, SMT
<1>6. 4 * Q \in Nat
  BY <1>1, SMT
<1>7. Encode(data) \in Seq(Bytes)
  BY <1>5, <1>6, SeqDef, SMT
<1>8. Len(Encode(data)) = 4 * Q
  BY <1>5, <1>6, <1>7, LenProperties, SMT
<1>9. \A i \in 1 .. 4 * Q : Encode(data)[i] = E(i)
  BY <1>2, SMT
<1>10. QED
  BY <1>3, <1>7, <1>8, <1>9, SMT DEF Q, pads

\* The sextets that padding replaces are zero.
LEMMA PaddedSextets ==
    ASSUME NEW a \in Bytes, NEW b \in Bytes
    PROVE  /\ SextetOf(OfOctets(a, b, 0), 4) = 0
           /\ SextetOf(OfOctets(a, 0, 0), 3) = 0
           /\ SextetOf(OfOctets(a, 0, 0), 4) = 0
BY SMT DEF SextetOf, OfOctets, Bytes

\* What the decoder sees of each character of an encoded text.
LEMMA SextetsOfEncode ==
    ASSUME NEW data \in Seq(Bytes), NEW q \in 0 .. ((Len(data) + 2) \div 3) - 1,
           NEW k \in 1 .. 4
    PROVE  Sextet(Encode(data)[4 * q + k]) = SextetOf(Word(data, q), k)
<1> DEFINE Q == (Len(data) + 2) \div 3
           pads == PadsFor(Len(data))
           i == 4 * q + k
<1>1. /\ Len(data) \in Nat /\ Q \in Nat /\ pads \in 0 .. 2
      /\ 3 * Q - pads = Len(data)
  BY Lengths, LenProperties
<1>2. q \in Nat /\ q \in 0 .. Q - 1
  BY <1>1
<1> HIDE DEF Q, pads
<1>3. i \in 1 .. 4 * Q
  BY <1>1, <1>2
<1>4. Encode(data)[i] = IF i > 4 * Q - pads THEN Pad ELSE Letter(SextetOf(Word(data, q), k))
  BY <1>2, <1>3, EncodeFacts DEF Q, pads
<1>5. CASE ~(i > 4 * Q - pads)
  <2>1. Word(data, q) \in Nat
    BY <1>2, WordFacts, Zenon
  <2>2. SextetOf(Word(data, q), k) \in 0 .. 63
    BY <2>1, SextetIsBounded, Zenon
  <2>3. QED
    BY <1>4, <1>5, <2>2, LetterDecodes, Zenon
<1>6. CASE i > 4 * Q - pads
  <2>1. Sextet(Encode(data)[i]) = 0
    BY <1>4, <1>6, SMT DEF Sextet
  <2>2. q = Q - 1 /\ k > 4 - pads
    BY <1>1, <1>2, <1>6, SMT
  <2>3. Octet(data, 3 * q + 3) = 0 /\ (pads = 2 => Octet(data, 3 * q + 2) = 0)
    BY <1>1, <1>2, <2>2, SMT DEF Octet
  <2>4. /\ Octet(data, 3 * q + 1) \in Bytes
        /\ Octet(data, 3 * q + 2) \in Bytes
    BY <1>2, OctetIsByte
  <2>5. Word(data, q) = OfOctets(Octet(data, 3 * q + 1), Octet(data, 3 * q + 2), 0)
    BY <2>3, Zenon DEF Word
  <2>6. CASE k = 4
    BY <2>1, <2>4, <2>5, <2>6, PaddedSextets, Zenon
  <2>7. CASE k # 4
    <3>1. k = 3 /\ pads = 2
      BY <1>1, <2>2, <2>7, SMT
    <3>2. Word(data, q) = OfOctets(Octet(data, 3 * q + 1), 0, 0)
      BY <2>3, <2>5, <3>1, Zenon
    <3>3. QED
      BY <2>1, <2>4, <3>1, <3>2, PaddedSextets, Zenon
  <2>8. QED
    BY <2>6, <2>7
<1>7. QED
  BY <1>5, <1>6

\* The word that the decoder puts together is the one the encoder took apart.
LEMMA TripleOfEncode ==
    ASSUME NEW data \in Seq(Bytes), NEW q \in 0 .. ((Len(data) + 2) \div 3) - 1
    PROVE  Triple(Encode(data), q) = Word(data, q)
<1>1. Len(data) \in Nat /\ (Len(data) + 2) \div 3 \in Nat
  BY Lengths, LenProperties
<1>2. q \in Nat
  BY <1>1
<1>3. Word(data, q) \in Nat /\ Word(data, q) < WordSize
  BY <1>2, WordFacts, Zenon
<1>4. \A k \in 1 .. 4 : Sextet(Encode(data)[4 * q + k]) = SextetOf(Word(data, q), k)
  BY SextetsOfEncode, Zenon
<1>5. 1 \in 1 .. 4 /\ 2 \in 1 .. 4 /\ 3 \in 1 .. 4 /\ 4 \in 1 .. 4
  OBVIOUS
<1>6. OfSextets(Sextet(Encode(data)[4 * q + 1]), Sextet(Encode(data)[4 * q + 2]),
                Sextet(Encode(data)[4 * q + 3]), Sextet(Encode(data)[4 * q + 4])) = Word(data, q)
  BY <1>3, <1>4, <1>5, SextetsOfWord, Zenon
<1>7. Triple(Encode(data), q) = Word(data, q) % WordSize
  BY <1>6, Zenon DEF Triple
<1>8. QED
  BY <1>3, <1>7, SMT DEF WordSize

\* base64_decode() (base64.cpp:63-102) gives back whatever bytes, however
\* many, base64_encode() (:36-61) was given, and takes what that made for
\* decodable.
THEOREM DecodeInvertsEncode ==
    ASSUME NEW data \in Seq(Bytes), data # <<>>
    PROVE  /\ Decodable(Encode(data))
           /\ Decode(Encode(data)) = data
<1> DEFINE n == Len(data)
           Q == (n + 2) \div 3
           pads == PadsFor(n)
           text == Encode(data)
<1>1. /\ n \in Nat /\ n > 0 /\ Q \in Nat /\ Q > 0 /\ pads \in 0 .. 2
      /\ 3 * Q - pads = n
  <2>1. n \in Nat /\ n > 0
    BY EmptySeq
  <2> HIDE DEF n
  <2>2. QED
    BY <2>1, Lengths
<1>2. Len(text) = 4 * Q
  BY EncodeFacts
<1> HIDE DEF n, Q, pads
<1>3. /\ text[4 * Q] = Pad <=> pads > 0
      /\ text[4 * Q - 1] = Pad <=> pads = 2
  <2>1. /\ 4 * Q \in 1 .. 4 * Q /\ 4 * Q - 1 \in 1 .. 4 * Q /\ Q - 1 \in 0 .. Q - 1
        /\ 4 * Q = 4 * (Q - 1) + 4 /\ 4 * Q - 1 = 4 * (Q - 1) + 3 /\ Q - 1 \in Nat
    BY <1>1
  <2>2. Word(data, Q - 1) \in Nat
    BY <2>1, WordFacts, Zenon
  <2>3. \A k \in 1 .. 4 : Letter(SextetOf(Word(data, Q - 1), k)) # Pad
    BY <2>2, SextetIsBounded, LetterFacts, Zenon
  <2> DEFINE C(i, k) == IF i > 4 * Q - pads THEN Pad ELSE Letter(SextetOf(Word(data, Q - 1), k))
  <2>4. text[4 * Q] = C(4 * Q, 4) /\ text[4 * Q - 1] = C(4 * Q - 1, 3)
    <3> DEFINE i == 4 * Q
               j == 4 * Q - 1
    <3>1. /\ i \in 1 .. 4 * Q /\ i = 4 * (Q - 1) + 4 /\ 4 \in 1 .. 4
          /\ j \in 1 .. 4 * Q /\ j = 4 * (Q - 1) + 3 /\ 3 \in 1 .. 4
      BY <2>1
    <3> HIDE DEF i, j
    <3>2. QED
      BY <2>1, <3>1, EncodeFacts, Zenon DEF Q, pads, n, i, j
  <2>5. QED
    BY <1>1, <2>3, <2>4
<1>4. DecodedLength(text) = n
  <2>1. DecodedLength(text) = ((4 * Q) \div 4) * 3 - (IF pads > 0 THEN 1 ELSE 0)
                                - (IF pads = 2 THEN 1 ELSE 0)
    BY <1>2, <1>3 DEF DecodedLength
  <2>2. QED
    BY <1>1, <2>1
<1>5. ASSUME NEW j \in 1 .. n
      PROVE  OctetOf(Triple(text, (j - 1) \div 3), ((j - 1) % 3) + 1) = data[j]
  <2> DEFINE q == (j - 1) \div 3
             k == ((j - 1) % 3) + 1
  <2>1. q \in 0 .. Q - 1 /\ q \in Nat /\ k \in 1 .. 3 /\ j = 3 * q + k
    BY <1>1, SMT
  <2> HIDE DEF q, k
  <2>2. Triple(text, q) = Word(data, q)
    BY <2>1, TripleOfEncode DEF n, Q
  <2>3. /\ OctetOf(Word(data, q), 1) = Octet(data, 3 * q + 1)
        /\ OctetOf(Word(data, q), 2) = Octet(data, 3 * q + 2)
        /\ OctetOf(Word(data, q), 3) = Octet(data, 3 * q + 3)
    BY <2>1, WordFacts, Zenon
  <2>4. OctetOf(Word(data, q), k) = Octet(data, j)
    BY <2>1, <2>3
  <2>5. Octet(data, j) = data[j]
    BY <1>1 DEF Octet, n
  <2>6. QED
    BY <2>2, <2>4, <2>5 DEF q, k
<1>6. Decode(text) = [j \in 1 .. n |-> data[j]]
  BY <1>4, <1>5, Zenon DEF Decode
<1>7. data = [j \in 1 .. n |-> data[j]]
  BY LenProperties DEF n
<1>8. QED
  BY <1>1, <1>2, <1>6, <1>7 DEF Decodable

\* The least number of a set.
LEMMA HasMinimum ==
    ASSUME NEW T, T \subseteq Nat, T # {}
    PROVE  Min(T) \in T /\ \A y \in T : Min(T) <= y
<1>1. IsWellFoundedOn(OpToRel(<, Nat), Nat)
  BY NatLessThanWellFounded
<1>2. PICK x \in T : \A y \in T : ~(<<y, x>> \in OpToRel(<, Nat))
  BY <1>1, WFMin, Zenon
<1>3. \A y \in T : x <= y
  <2>1. SUFFICES ASSUME NEW y \in T, y < x
                 PROVE  FALSE
    BY SMT
  <2> DEFINE p == <<y, x>>
  <2>2. p \in Nat \X Nat /\ p[1] < p[2]
    BY <2>1
  <2> HIDE DEF p
  <2>3. p \in OpToRel(<, Nat)
    BY <2>2, Zenon DEF OpToRel
  <2>4. QED
    BY <1>2, <2>3 DEF p
<1>4. QED
  BY <1>3, Zenon DEF Min

\* The first position of a byte in a text, or 0 if it does not occur in it.
LEMMA FirstPosition ==
    ASSUME NEW text \in Seq(Bytes), NEW b
    PROVE  LET n == Position(text, b)
           IN  /\ ~Contains(text, b) => n = 0
               /\ Contains(text, b) =>
                    /\ n \in 1 .. Len(text)
                    /\ text[n] = b
                    /\ \A i \in 1 .. n - 1 : text[i] # b
<1> DEFINE I == {i \in 1 .. Len(text) : text[i] = b}
           n == Position(text, b)
<1>1. n = IF I # {} THEN Min(I) ELSE 0
  BY DEF SelectInSeq, Position
<1>2. Len(text) \in Nat
  BY LenProperties
<1>3. CASE I = {}
  BY <1>1, <1>3 DEF Contains
<1>4. CASE I # {}
  <2>1. Min(I) \in I /\ \A y \in I : Min(I) <= y
    <3>1. I \subseteq Nat
      BY <1>2
    <3> HIDE DEF I
    <3>2. QED
      BY <1>4, <3>1, HasMinimum
  <2>2. n = Min(I)
    BY <1>1, <1>4
  <2>3. n \in I /\ \A y \in I : n <= y
    BY <2>1, <2>2
  <2>4. n \in 1 .. Len(text) /\ text[n] = b
    BY <2>3
  <2> HIDE DEF n
  <2>5. \A i \in 1 .. n - 1 : text[i] # b
    BY <1>2, <2>3, <2>4
  <2>6. QED
    BY <2>4, <2>5 DEF Contains, n
<1>5. QED
  BY <1>3, <1>4

\* The split at the first colon: nothing of the text is lost, and no colon
\* is left in the user name.
LEMMA SplitFacts ==
    ASSUME NEW text \in Seq(Bytes), Contains(text, Colon)
    PROVE  LET got == SplitAtColon(text)
           IN  /\ got.result = "true"
               /\ ~Contains(got.username, Colon)
               /\ text = got.username \o <<Colon>> \o got.password
<1> DEFINE n == Position(text, Colon)
           user == SubSeq(text, 1, n - 1)
           pass == SubSeq(text, n + 1, Len(text))
<1>1. /\ Len(text) \in Nat /\ n \in 1 .. Len(text) /\ text[n] = Colon
      /\ \A i \in 1 .. n - 1 : text[i] # Colon
  BY FirstPosition, LenProperties
<1>2. SplitAtColon(text) = [result |-> "true", username |-> user, password |-> pass]
  BY <1>1 DEF SplitAtColon
<1> HIDE DEF n
<1>3. \A i \in 1 .. Len(text) : text[i] \in Bytes
  BY ElementOfSeq
<1>4. /\ user \in Seq(Bytes) /\ Len(user) = n - 1
      /\ \A i \in 1 .. n - 1 : user[i] = text[i]
  <2>1. \A i \in 1 .. n - 1 : text[i] \in Bytes
    BY <1>1, <1>3
  <2>2. /\ SubSeq(text, 1, n - 1) \in Seq(Bytes)
        /\ Len(SubSeq(text, 1, n - 1)) = IF 1 <= n - 1 THEN (n - 1) - 1 + 1 ELSE 0
        /\ \A i \in 1 .. (n - 1) - 1 + 1 : SubSeq(text, 1, n - 1)[i] = text[1 + i - 1]
    BY <1>1, <2>1, SubSeqProperties
  <2>3. QED
    BY <1>1, <2>2
<1>5. /\ pass \in Seq(Bytes) /\ Len(pass) = Len(text) - n
      /\ \A i \in 1 .. Len(text) - n : pass[i] = text[n + i]
  <2>1. \A i \in n + 1 .. Len(text) : text[i] \in Bytes
    BY <1>1, <1>3
  <2>2. /\ SubSeq(text, n + 1, Len(text)) \in Seq(Bytes)
        /\ Len(SubSeq(text, n + 1, Len(text))) =
              IF n + 1 <= Len(text) THEN Len(text) - (n + 1) + 1 ELSE 0
        /\ \A i \in 1 .. Len(text) - (n + 1) + 1 :
              SubSeq(text, n + 1, Len(text))[i] = text[n + 1 + i - 1]
    BY <1>1, <2>1, SubSeqProperties
  <2>3. QED
    BY <1>1, <2>2
<1> HIDE DEF user, pass
<1>6. ~Contains(user, Colon)
  BY <1>1, <1>4 DEF Contains
<1>7. <<Colon>> \in Seq(Bytes) /\ Len(<<Colon>>) = 1 /\ <<Colon>>[1] = Colon
  BY DEF Colon, Bytes
<1> DEFINE front == user \o <<Colon>>
           whole == front \o pass
<1>8. /\ front \in Seq(Bytes) /\ Len(front) = n
      /\ \A i \in 1 .. n : front[i] = IF i <= n - 1 THEN user[i] ELSE Colon
  <2>1. /\ front \in Seq(Bytes) /\ Len(front) = Len(user) + Len(<<Colon>>)
        /\ \A i \in 1 .. Len(user) + Len(<<Colon>>) :
              front[i] = IF i <= Len(user) THEN user[i] ELSE <<Colon>>[i - Len(user)]
    BY <1>4, <1>7, ConcatProperties
  <2>2. QED
    BY <1>1, <1>4, <1>7, <2>1
<1> HIDE DEF front
<1>9. /\ whole \in Seq(Bytes) /\ Len(whole) = Len(text)
      /\ \A i \in 1 .. Len(text) : whole[i] = IF i <= n THEN front[i] ELSE pass[i - n]
  <2>1. /\ whole \in Seq(Bytes) /\ Len(whole) = Len(front) + Len(pass)
        /\ \A i \in 1 .. Len(front) + Len(pass) :
              whole[i] = IF i <= Len(front) THEN front[i] ELSE pass[i - Len(front)]
    BY <1>5, <1>8, ConcatProperties
  <2>2. QED
    BY <1>1, <1>5, <1>8, <2>1
<1> HIDE DEF whole
<1>10. \A i \in 1 .. Len(text) : whole[i] = text[i]
  <2>1. ASSUME NEW i \in 1 .. Len(text)
        PROVE  whole[i] = text[i]
    <3>1. CASE i <= n - 1
      BY <1>1, <1>4, <1>8, <1>9, <3>1
    <3>2. CASE i = n
      BY <1>1, <1>8, <1>9, <3>2
    <3>3. CASE i > n
      BY <1>1, <1>5, <1>9, <3>3
    <3>4. QED
      BY <1>1, <3>1, <3>2, <3>3
  <2>2. QED
    BY <2>1
<1>11. text = whole
  BY <1>9, <1>10, SeqEqual
<1>12. QED
  BY <1>2, <1>6, <1>11 DEF whole, front

\* What follows a prefix.
LEMMA AfterPrefix ==
    ASSUME NEW S, NEW p \in Seq(S), NEW t \in Seq(S)
    PROVE  /\ Len(p \o t) = Len(p) + Len(t)
           /\ SubSeq(p \o t, Len(p) + 1, Len(p \o t)) = t
<1> DEFINE s == p \o t
           m == Len(p)
           n == Len(t)
<1>1. /\ m \in Nat /\ n \in Nat
      /\ \A i \in 1 .. m : p[i] \in S
      /\ \A i \in 1 .. n : t[i] \in S
  BY LenProperties, ElementOfSeq
<1>2. /\ s \in Seq(S) /\ Len(s) = m + n
      /\ \A i \in 1 .. m + n : s[i] = IF i <= m THEN p[i] ELSE t[i - m]
  BY ConcatProperties
<1> HIDE DEF s, m
<1> DEFINE r == SubSeq(s, m + 1, Len(s))
<1>3. /\ r \in Seq(S)
      /\ Len(r) = IF m + 1 <= Len(s) THEN Len(s) - (m + 1) + 1 ELSE 0
      /\ \A i \in 1 .. Len(s) - (m + 1) + 1 : r[i] = s[(m + 1) + i - 1]
  <2> HIDE DEF n
  <2>1. \A i \in m + 1 .. Len(s) : s[i] \in S
    BY <1>1, <1>2, ElementOfSeq
  <2>2. Len(s) \in Int /\ m + 1 \in Int
    BY <1>1, <1>2
  <2>3. QED
    BY <2>1, <2>2, SubSeqProperties
<1> HIDE DEF r
<1>4. Len(r) = Len(t) /\ \A i \in 1 .. Len(t) : r[i] = t[i]
  <2> HIDE DEF n
  <2>1. Len(r) = n /\ \A i \in 1 .. n : r[i] = t[i]
    BY <1>1, <1>2, <1>3
  <2>2. QED
    BY <2>1 DEF n
<1>5. r = t
  BY <1>3, <1>4, SeqEqual
<1>6. QED
  BY <1>2, <1>5 DEF r, s, m

\* From the header that a client makes of its credentials,
\* extract_username_password() (utils.cpp:108-139) gets the credentials,
\* whatever bytes but NUL they are and however many.
THEOREM BasicCredentialsReadBack ==
    ASSUME NEW data \in Seq(Bytes), data # <<>>, ~Contains(data, Nul)
    PROVE  ExtractUsernamePassword(BasicPrefix \o Encode(data)) = SplitAtColon(data)
<1> DEFINE text == Encode(data)
           header == BasicPrefix \o text
<1>1. text \in Seq(Bytes)
  BY EncodeFacts
<1>2. Decodable(text) /\ Decode(text) = data
  BY DecodeInvertsEncode
<1> HIDE DEF text
<1>3. BasicPrefix \in Seq(Bytes) /\ Len(BasicPrefix) = 6
  BY DEF BasicPrefix, Bytes
<1>4. /\ Len(header) = Len(BasicPrefix) + Len(text) /\ Len(text) \in Nat
      /\ SubSeq(header, Len(BasicPrefix) + 1, Len(header)) = text
  BY <1>1, <1>3, AfterPrefix, LenProperties
<1> HIDE DEF header
<1>5. CString(data) = data
  BY FirstPosition DEF CString
<1>6. ExtractUsernamePassword(header) = SplitAtColon(data)
  <2>1. ~(Len(header) < Len(BasicPrefix))
    BY <1>3, <1>4
  <2>2. ExtractUsernamePassword(header) =
          IF ~Decodable(text) \/ Decode(text) = <<>> THEN NoCredentials("false")
          ELSE SplitAtColon(CString(Decode(text)))
    BY <1>4, <2>1, Zenon DEF ExtractUsernamePassword
  <2>3. QED
    BY <1>2, <1>5, <2>2, Zenon
<1>7. QED
  BY <1>6 DEF header, text

\* The bits of a sum whose parts do not overlap.
LEMMA BitsAbove4 ==
    ASSUME NEW h \in Nat, NEW l \in Nat, l < 4
    PROVE  /\ \A p \in {1, 2, 4, 8, 16, 32} : (h * 4 + l) \div (4 * p) = h \div p
           /\ \A p \in {1, 2} : ((h * 4 + l) \div p) % 2 = (l \div p) % 2
BY SMT

LEMMA BitsAbove16 ==
    ASSUME NEW h \in Nat, NEW l \in Nat, l < 16
    PROVE  /\ \A p \in {1, 2, 4, 8} : (h * 16 + l) \div (16 * p) = h \div p
           /\ \A p \in {1, 2, 4, 8} : ((h * 16 + l) \div p) % 2 = (l \div p) % 2
BY SMT

LEMMA BitsAbove64 ==
    ASSUME NEW h \in Nat, NEW l \in Nat, l < 64
    PROVE  /\ \A p \in {1, 2} : (h * 64 + l) \div (64 * p) = h \div p
           /\ \A p \in {1, 2, 4, 8, 16, 32} : ((h * 64 + l) \div p) % 2 = (l \div p) % 2
BY SMT

\* Four sextets make a word whose octets have the bits of the sextets.
KeepsBits(a, b, c, d) ==
    LET w == OfSextets(a, b, c, d)
    IN  /\ w \in Nat /\ w < WordSize
        /\ \A n \in 0 .. 23 :
              Bit(OctetOf(w, (n \div 8) + 1), 8, n % 8) = Bit(<<a, b, c, d>>[(n \div 6) + 1], 6, n % 6)

LEMMA BitsOfSextets ==
    \A a, b, c, d \in 0 .. 63 : KeepsBits(a, b, c, d)
<1> SUFFICES ASSUME NEW a \in 0 .. 63, NEW b \in 0 .. 63, NEW c \in 0 .. 63, NEW d \in 0 .. 63
             PROVE  KeepsBits(a, b, c, d)
  OBVIOUS
<1> DEFINE w == OfSextets(a, b, c, d)
           x == b \div 16
           y == b % 16
           z == c \div 4
           t == c % 4
<1>1. w \in Nat /\ w < WordSize
  BY SMT DEF OfSextets, WordSize
<1>2. /\ OctetOf(w, 1) = a * 4 + x
      /\ OctetOf(w, 2) = y * 16 + z
      /\ OctetOf(w, 3) = t * 64 + d
  BY SMT DEF OfSextets, OctetOf
<1>3. /\ x \in Nat /\ x < 4 /\ y \in Nat /\ y < 16 /\ b = x * 16 + y
      /\ z \in Nat /\ z < 16 /\ t \in Nat /\ t < 4 /\ c = z * 4 + t
      /\ a \in Nat /\ b \in Nat /\ c \in Nat /\ d \in Nat /\ d < 64
  BY SMT
<1> HIDE DEF w, x, y, z, t
<1>4. /\ \A p \in {1, 2, 4, 8, 16, 32} : (a * 4 + x) \div (4 * p) = a \div p
      /\ \A p \in {1, 2} : ((a * 4 + x) \div p) % 2 = (x \div p) % 2
  BY <1>3, BitsAbove4, Zenon
<1>5. /\ \A p \in {1, 2, 4, 8} : (y * 16 + z) \div (16 * p) = y \div p
      /\ \A p \in {1, 2, 4, 8} : ((y * 16 + z) \div p) % 2 = (z \div p) % 2
  BY <1>3, BitsAbove16, Zenon
<1>6. /\ \A p \in {1, 2} : (t * 64 + d) \div (64 * p) = t \div p
      /\ \A p \in {1, 2, 4, 8, 16, 32} : ((t * 64 + d) \div p) % 2 = (d \div p) % 2
  <2>1. t \in Nat /\ d \in Nat /\ d < 64
    BY <1>3
  <2>2. QED
    BY <2>1, BitsAbove64
<1>7. /\ \A p \in {1, 2, 4, 8} : (x * 16 + y) \div (16 * p) = x \div p
      /\ \A p \in {1, 2, 4, 8} : ((x * 16 + y) \div p) % 2 = (y \div p) % 2
  BY <1>3, BitsAbove16, Zenon
<1>8. /\ \A p \in {1, 2, 4, 8, 16, 32} : (z * 4 + t) \div (4 * p) = z \div p
      /\ \A p \in {1, 2} : ((z * 4 + t) \div p) % 2 = (t \div p) % 2
  BY <1>3, BitsAbove4, Zenon
<1> DEFINE Same(n) == Bit(OctetOf(w, (n \div 8) + 1), 8, n % 8)
                         = Bit(<<a, b, c, d>>[(n \div 6) + 1], 6, n % 6)
<1>9. \A n \in 0 .. 7 : Same(n)
  <2>1. Same(0) /\ Same(1) /\ Same(2)
    BY <1>2, <1>3, <1>4, SMT DEF Bit
  <2>2. Same(3) /\ Same(4) /\ Same(5)
    BY <1>2, <1>3, <1>4, SMT DEF Bit
  <2>3. Same(6) /\ Same(7)
    BY <1>2, <1>3, <1>4, <1>7, SMT DEF Bit
  <2> HIDE DEF Same
  <2>4. QED
    BY <2>1, <2>2, <2>3, SMT
<1>10. \A n \in 8 .. 15 : Same(n)
  <2>1. Same(8) /\ Same(9) /\ Same(10) /\ Same(11)
    BY <1>2, <1>3, <1>5, <1>7, SMT DEF Bit
  <2>2. Same(12) /\ Same(13)
    BY <1>2, <1>3, <1>5, <1>8, SMT DEF Bit
  <2>3. Same(14) /\ Same(15)
    BY <1>2, <1>3, <1>5, <1>8, SMT DEF Bit
  <2> HIDE DEF Same
  <2>4. QED
    BY <2>1, <2>2, <2>3, SMT
<1>11. \A n \in 16 .. 23 : Same(n)
  <2>1. Same(16) /\ Same(17)
    BY <1>2, <1>3, <1>6, <1>8, SMT DEF Bit
  <2>2. Same(18) /\ Same(19) /\ Same(20)
    BY <1>2, <1>3, <1>6, SMT DEF Bit
  <2>3. Same(21) /\ Same(22) /\ Same(23)
    BY <1>2, <1>3, <1>6, SMT DEF Bit
  <2> HIDE DEF Same
  <2>4. QED
    BY <2>1, <2>2, <2>3, SMT
<1>12. \A n \in 0 .. 23 : Same(n)
  <2> HIDE DEF Same
  <2>1. QED
    BY <1>9, <1>10, <1>11, SMT
<1>13. QED
  BY <1>1, <1>12, Zenon DEF w, KeepsBits

\* Four letters of a text of any length decode to their own 24 bits, whatever
\* the other characters are: base64_decode() carries nothing from one quartet
\* to the next (base64.cpp:84-99).
THEOREM LettersDecodeAlone ==
    ASSUME NEW text \in Seq(Bytes), text # <<>>, Decodable(text),
           NEW q \in 0 .. (Len(text) \div 4) - 1,
           \A k \in 1 .. 4 : text[4 * q + k] \in Letters
    PROVE  \A n \in 0 .. 23 :
              Bit(Decode(text)[3 * q + (n \div 8) + 1], 8, n % 8)
                  = Bit(DecodingTable[text[4 * q + (n \div 6) + 1]], 6, n % 6)
<1> DEFINE L == Len(text) \div 4
           C(k) == text[4 * q + k]
           a == DecodingTable[C(1)]
           b == DecodingTable[C(2)]
           c == DecodingTable[C(3)]
           d == DecodingTable[C(4)]
           w == OfSextets(a, b, c, d)
<1>1. Len(text) \in Nat /\ Len(text) > 0
  BY EmptySeq
<1>2. Len(text) = 4 * L /\ L \in Nat /\ q \in Nat /\ q < L
  BY <1>1 DEF Decodable
<1>3. /\ a \in 0 .. 63 /\ Sextet(C(1)) = a /\ C(1) # Pad
      /\ b \in 0 .. 63 /\ Sextet(C(2)) = b /\ C(2) # Pad
      /\ c \in 0 .. 63 /\ Sextet(C(3)) = c /\ C(3) # Pad
      /\ d \in 0 .. 63 /\ Sextet(C(4)) = d /\ C(4) # Pad
  <2>1. C(1) \in Letters /\ C(2) \in Letters /\ C(3) \in Letters /\ C(4) \in Letters
    OBVIOUS
  <2>2. QED
    BY <2>1, SextetOfLetter, Zenon
<1>4. DecodedLength(text) \in Int /\ 3 * q + 3 <= DecodedLength(text)
  <2>1. DecodedLength(text) = L * 3 - (IF text[4 * L] = Pad THEN 1 ELSE 0)
                                - (IF text[4 * L - 1] = Pad THEN 1 ELSE 0)
    BY <1>2, Zenon DEF DecodedLength
  <2>2. q = L - 1 => text[4 * L] # Pad /\ text[4 * L - 1] # Pad
    <3>1. q = L - 1 => 4 * L = 4 * q + 4 /\ 4 * L - 1 = 4 * q + 3
      BY <1>2
    <3>2. QED
      BY <1>3, <3>1, Zenon
  <2> HIDE DEF L
  <2>3. QED
    BY <1>2, <2>1, <2>2
<1> HIDE DEF L
<1>5. /\ w \in Nat /\ w < WordSize
      /\ \A n \in 0 .. 23 :
            Bit(OctetOf(w, (n \div 8) + 1), 8, n % 8) = Bit(<<a, b, c, d>>[(n \div 6) + 1], 6, n % 6)
  <2> HIDE DEF a, b, c, d, w
  <2>1. a \in 0 .. 63 /\ b \in 0 .. 63 /\ c \in 0 .. 63 /\ d \in 0 .. 63
    BY <1>3
  <2>2. KeepsBits(a, b, c, d)
    BY <2>1, BitsOfSextets, Zenon
  <2>3. QED
    BY <2>2 DEF KeepsBits, w
<1>6. Triple(text, q) = w
  <2>1. Triple(text, q) = OfSextets(Sextet(C(1)), Sextet(C(2)), Sextet(C(3)), Sextet(C(4))) % WordSize
    BY Zenon DEF Triple
  <2>2. Triple(text, q) = w % WordSize
    BY <1>3, <2>1, Zenon
  <2> HIDE DEF w
  <2>3. QED
    BY <1>5, <2>2, SMT DEF WordSize
<1>7. ASSUME NEW n \in 0 .. 23
      PROVE  Decode(text)[3 * q + (n \div 8) + 1] = OctetOf(w, (n \div 8) + 1)
  <2> DEFINE j == 3 * q + (n \div 8) + 1
  <2>1. j \in 1 .. DecodedLength(text) /\ (j - 1) \div 3 = q /\ (j - 1) % 3 = n \div 8
    BY <1>2, <1>4
  <2> HIDE DEF j, w
  <2>2. Decode(text)[j] = OctetOf(Triple(text, (j - 1) \div 3), ((j - 1) % 3) + 1)
    BY <2>1, Zenon DEF Decode
  <2>3. QED
    BY <1>6, <2>1, <2>2, Zenon DEF j
<1>8. ASSUME NEW n \in 0 .. 23
      PROVE  <<a, b, c, d>>[(n \div 6) + 1] = DecodingTable[text[4 * q + (n \div 6) + 1]]
  <2>1. n \div 6 \in 0 .. 3
    OBVIOUS
  <2> DEFINE k == (n \div 6) + 1
  <2>2. k \in 1 .. 4 /\ 4 * q + (n \div 6) + 1 = 4 * q + k
    BY <1>2, <2>1
  <2> HIDE DEF k
  <2>3. <<a, b, c, d>>[k] = DecodingTable[C(k)]
    BY <2>2
  <2>4. QED
    BY <2>2, <2>3, Zenon DEF k
<1>9. QED
  BY <1>5, <1>7, <1>8, Zenon

\* What is to be sent is a text of bytes, since its alphabet consists of them.
LEMMA InitBytes == TextInit => BytesTyped
BY DEF TextInit, BytesTyped

LEMMA TypeBytes ==
    ASSUME BytesTyped, NEW c, Type(c)
    PROVE  BytesTyped'
<1>1. PICK x \in Alphabets : ToSet(bytes) \cup {c} \subseteq x.bytes
  BY DEF Type
<1>2. c \in Bytes
  BY <1>1, AlphabetsAssumption
<1>3. QED
  BY <1>2, AppendProperties DEF Type, BytesTyped

LEMMA NextBytes == BytesTyped /\ [TextNext]_textVars => BytesTyped'
<1> SUFFICES ASSUME BytesTyped, [TextNext]_textVars
             PROVE  BytesTyped'
  OBVIOUS
<1>1. ASSUME NEW c, Type(c)
      PROVE  BytesTyped'
  BY <1>1, TypeBytes
<1>2. CASE UNCHANGED bytes
  BY <1>2 DEF BytesTyped
<1>3. QED
  BY <1>1, <1>2 DEF TextNext, textVars, StartLine, ExtendTarget, AddHeader, AddBody, Complete

\* Whatever is typed, it is a text of bytes: the model of a client sends
\* nothing that the codecs (base64.cpp, utils.cpp) could not be given.
LEMMA BytesAreTyped == TextSpec => []BytesTyped
BY InitBytes, NextBytes, PTL DEF TextSpec

\* Basic credentials of any length come out of authenticate()'s reading of
\* the header as user and password, and without a colon they are refused
\* (utils.cpp:108-139): for all alphabets, not only the seven bytes of the run.
THEOREM CredentialsAlwaysSurvive == TextSpec => []CredentialsSurvive
<1>1. BytesTyped => CredentialsSurvive
  <2> SUFFICES ASSUME bytes \in Seq(Bytes), bytes # <<>>, ~Contains(bytes, Nul)
               PROVE  LET got == ExtractUsernamePassword(BasicPrefix \o Encode(bytes))
                      IN  IF Contains(bytes, Colon)
                          THEN /\ got.result = "true"
                               /\ ~Contains(got.username, Colon)
                               /\ bytes = got.username \o <<Colon>> \o got.password
                          ELSE got.result = "false"
    BY DEF BytesTyped, CredentialsSurvive
  <2>1. ExtractUsernamePassword(BasicPrefix \o Encode(bytes)) = SplitAtColon(bytes)
    BY BasicCredentialsReadBack, Zenon
  <2>2. CASE Contains(bytes, Colon)
    BY <2>1, <2>2, SplitFacts, Zenon
  <2>3. CASE ~Contains(bytes, Colon)
    <3>1. Position(bytes, Colon) = 0
      BY <2>3, FirstPosition
    <3>2. QED
      BY <2>1, <2>3, <3>1 DEF SplitAtColon, NoCredentials
  <2>4. QED
    BY <2>2, <2>3
<1>2. QED
  BY <1>1, BytesAreTyped, PTL

\* Whatever text of whatever length is decoded, a quartet of letters gives
\* its own 24 bits (base64.cpp:84-99).
THEOREM QuartetsAlwaysDecodeAlone == TextSpec => []QuartetsDecodeAlone
<1>1. BytesTyped => QuartetsDecodeAlone
  BY LettersDecodeAlone, Zenon DEF BytesTyped, QuartetsDecodeAlone
<1>2. QED
  BY <1>1, BytesAreTyped, PTL
-----------------------------------------------------------------------------
(* Texts of tokens: searches and concatenations. *)

\* Where a text has the tokens of another, read from a position on.
MatchAt(text, s, i) == \A j \in 1 .. Len(s) : text[i + j - 1] = s[j]

LEMMA MatchIsSubSeq ==
    ASSUME NEW S, NEW text \in Seq(S), NEW s \in Seq(S),
           NEW i \in 1 .. Len(text) - Len(s) + 1
    PROVE  SubSeq(text, i, i + Len(s) - 1) = s <=> MatchAt(text, s, i)
<1> DEFINE n == Len(s)
           r == SubSeq(text, i, i + n - 1)
<1>1. n \in Nat /\ Len(text) \in Nat
  BY LenProperties
<1>2. \A k \in i .. i + n - 1 : text[k] \in S
  <2> HIDE DEF n
  <2>1. \A k \in i .. i + n - 1 : k \in 1 .. Len(text)
    BY <1>1 DEF n
  <2>2. QED
    BY <2>1, ElementOfSeq
<1>3. /\ r \in Seq(S)
      /\ Len(r) = IF i <= i + n - 1 THEN i + n - 1 - i + 1 ELSE 0
      /\ \A j \in 1 .. i + n - 1 - i + 1 : r[j] = text[i + j - 1]
  <2> DEFINE m == i + n - 1
  <2>1. i \in Int /\ m \in Int /\ \A k \in i .. m : text[k] \in S
    BY <1>1, <1>2
  <2> HIDE DEF m
  <2>2. /\ SubSeq(text, i, m) \in Seq(S)
        /\ Len(SubSeq(text, i, m)) = IF i <= m THEN m - i + 1 ELSE 0
        /\ \A j \in 1 .. m - i + 1 : SubSeq(text, i, m)[j] = text[i + j - 1]
    BY <2>1, SubSeqProperties
  <2>3. QED
    BY <2>2 DEF m
<1> HIDE DEF r
<1>4. Len(r) = n /\ \A j \in 1 .. n : r[j] = text[i + j - 1]
  <2> HIDE DEF n
  <2>1. QED
    BY <1>1, <1>3
<1>5. ASSUME MatchAt(text, s, i)
      PROVE  r = s
  BY <1>3, <1>4, <1>5, SeqEqual DEF MatchAt
<1>6. ASSUME r = s
      PROVE  MatchAt(text, s, i)
  BY <1>4, <1>6 DEF MatchAt
<1>7. QED
  BY <1>5, <1>6 DEF r, n

\* Find(), as std::string::find(): the first position at which the text has
\* all of the tokens looked for, from a position on, or 0.
LEMMA FindFacts ==
    ASSUME NEW S, NEW text \in Seq(S), NEW s \in Seq(S), NEW from \in Nat \ {0}
    PROVE  LET at == Find(text, s, from)
               last == Len(text) - Len(s) + 1
           IN  \/ at = 0 /\ \A i \in from .. last : ~MatchAt(text, s, i)
               \/ /\ at \in from .. last /\ MatchAt(text, s, at)
                  /\ \A i \in from .. last : MatchAt(text, s, i) => at <= i
<1> DEFINE last == Len(text) - Len(s) + 1
           P == {i \in from .. last : SubSeq(text, i, i + Len(s) - 1) = s}
           at == Find(text, s, from)
<1>1. Len(text) \in Nat /\ Len(s) \in Nat /\ last \in Int
  BY LenProperties
<1>2. at = IF P = {} THEN 0 ELSE Min(P)
  BY DEF Find
<1>3. \A i \in from .. last : i \in P <=> MatchAt(text, s, i)
  <2>1. \A i \in from .. last : i \in 1 .. last
    BY <1>1
  <2>2. QED
    BY <2>1, MatchIsSubSeq
<1>4. P \subseteq from .. last /\ P \subseteq Nat
  BY <1>1
<1> HIDE DEF P, last, at
<1>5. CASE P = {}
  BY <1>2, <1>3, <1>5 DEF last, at
<1>6. CASE P # {}
  <2>1. at \in P /\ \A i \in P : at <= i
    BY <1>2, <1>4, <1>6, HasMinimum
  <2>2. QED
    BY <1>3, <1>4, <2>1 DEF last, at
<1>7. QED
  BY <1>5, <1>6

LEMMA FindFirst ==
    ASSUME NEW S, NEW text \in Seq(S), NEW s \in Seq(S), NEW from \in Nat \ {0},
           NEW p \in from .. Len(text) - Len(s) + 1, MatchAt(text, s, p),
           \A i \in from .. p - 1 : ~MatchAt(text, s, i)
    PROVE  Find(text, s, from) = p
<1> DEFINE at == Find(text, s, from)
           last == Len(text) - Len(s) + 1
<1>1. \/ at = 0 /\ \A i \in from .. last : ~MatchAt(text, s, i)
      \/ /\ at \in from .. last /\ MatchAt(text, s, at)
         /\ \A i \in from .. last : MatchAt(text, s, i) => at <= i
  BY FindFacts
<1>2. last \in Int
  BY LenProperties
<1> HIDE DEF at, last
<1>3. p \in from .. last
  BY DEF last
<1>4. QED
  BY <1>1, <1>2, <1>3 DEF at

LEMMA FindNone ==
    ASSUME NEW S, NEW text \in Seq(S), NEW s \in Seq(S), NEW from \in Nat \ {0},
           \A i \in from .. Len(text) - Len(s) + 1 : ~MatchAt(text, s, i)
    PROVE  Find(text, s, from) = 0
BY FindFacts, Zenon

\* A method at a place of a text, as FindMethod() looks for it: maybe at the end
\* of a longer word.
MethodAt(text, method, i) == text[i] \in EndingIn[method] /\ text[i + 1] = Blank /\ text[i + 2] = "/"

LEMMA FindMethodFirst ==
    ASSUME NEW S, NEW text \in Seq(S), NEW method,
           NEW p \in 1 .. Len(text) - 2, MethodAt(text, method, p),
           \A i \in 1 .. p - 1 : ~MethodAt(text, method, i)
    PROVE  FindMethod(text, method) = p
<1> DEFINE last == Len(text) - 2
           at == {i \in 1 .. last :
                    text[i] \in EndingIn[method] /\ text[i + 1] = Blank /\ text[i + 2] = "/"}
<1>1. FindMethod(text, method) = IF at = {} THEN 0 ELSE Min(at)
  BY Zenon DEF FindMethod
<1>2. \A i \in 1 .. last : i \in at <=> MethodAt(text, method, i)
  BY DEF MethodAt
<1>3. last \in Int
  BY LenProperties
<1>4. at \subseteq 1 .. last /\ at \subseteq Nat
  OBVIOUS
<1> HIDE DEF at, last
<1>5. p \in 1 .. last
  BY DEF last
<1>6. p \in at
  BY <1>2, <1>5
<1>7. Min(at) \in at /\ Min(at) <= p
  BY <1>4, <1>6, HasMinimum
<1>8. Min(at) \in 1 .. last /\ MethodAt(text, method, Min(at))
  BY <1>2, <1>4, <1>7
<1>9. Min(at) \notin 1 .. p - 1
  BY <1>8
<1>10. QED
  BY <1>1, <1>3, <1>5, <1>6, <1>7, <1>8, <1>9

LEMMA FindMethodNone ==
    ASSUME NEW text, NEW method
    PROVE  FindMethod(text, method) = 0 <=> \A i \in 1 .. Len(text) - 2 : ~MethodAt(text, method, i)
<1> DEFINE last == Len(text) - 2
           at == {i \in 1 .. last :
                    text[i] \in EndingIn[method] /\ text[i + 1] = Blank /\ text[i + 2] = "/"}
<1>1. FindMethod(text, method) = IF at = {} THEN 0 ELSE Min(at)
  BY Zenon DEF FindMethod
<1>2. \A i \in 1 .. last : i \in at <=> MethodAt(text, method, i)
  BY DEF MethodAt
<1>3. at \subseteq 1 .. last /\ at \subseteq Nat /\ 0 \notin at
  OBVIOUS
<1> HIDE DEF at
<1>4. at # {} => Min(at) \in at
  BY <1>3, HasMinimum
<1>5. FindMethod(text, method) = 0 <=> at = {}
  BY <1>1, <1>3, <1>4
<1>6. at = {} <=> \A i \in 1 .. last : ~MethodAt(text, method, i)
  BY <1>2, <1>3
<1>7. QED
  BY <1>5, <1>6

\* Induction over the numbers, for a set of them.
LEMMA NatInductive ==
    ASSUME NEW T, 0 \in T, \A n \in Nat : n \in T => n + 1 \in T
    PROVE  \A n \in Nat : n \in T
<1> DEFINE U == {n \in Nat : n \notin T}
<1>1. SUFFICES ASSUME U # {}
               PROVE  FALSE
  OBVIOUS
<1>2. Min(U) \in U /\ \A n \in U : Min(U) <= n
  BY <1>1, HasMinimum
<1>3. PICK m \in U : \A n \in U : m <= n
  BY <1>2
<1>4. m \in Nat /\ m # 0 /\ m - 1 \in Nat
  BY <1>3
<1>5. m - 1 \in T
  BY <1>3, <1>4
<1>6. QED
  BY <1>3, <1>4, <1>5

\* FlattenSeq() by its partial results.
IsFlattening(f, seqs, n) ==
    f = [i \in 1 .. n |-> IF i = 1 THEN seqs[i] ELSE f[i - 1] \o seqs[i]]

LEMMA FlatteningExists ==
    ASSUME NEW seqs, NEW n \in Nat
    PROVE  \E f : IsFlattening(f, seqs, n)
<1> DEFINE T == {m \in Nat : \E f : IsFlattening(f, seqs, m)}
<1>1. 0 \in T
  <2>1. IsFlattening([i \in 1 .. 0 |-> 0], seqs, 0)
    BY DEF IsFlattening
  <2>2. QED
    BY <2>1
<1>2. ASSUME NEW m \in Nat, m \in T
      PROVE  m + 1 \in T
  <2>1. PICK f : IsFlattening(f, seqs, m)
    BY <1>2
  <2> DEFINE g == [i \in 1 .. m + 1 |-> IF i = 1 THEN seqs[i] ELSE f[i - 1] \o seqs[i]]
  <2>2. \A i \in 1 .. m : f[i] = IF i = 1 THEN seqs[i] ELSE f[i - 1] \o seqs[i]
    BY <2>1 DEF IsFlattening
  <2>3. \A i \in 1 .. m : g[i] = f[i]
    BY <2>2
  <2>4. \A i \in 1 .. m + 1 : i # 1 => i - 1 \in 1 .. m
    OBVIOUS
  <2>5. \A i \in 1 .. m + 1 :
           (IF i = 1 THEN seqs[i] ELSE f[i - 1] \o seqs[i])
             = (IF i = 1 THEN seqs[i] ELSE g[i - 1] \o seqs[i])
    BY <2>3, <2>4
  <2>6. g = [i \in 1 .. m + 1 |-> IF i = 1 THEN seqs[i] ELSE g[i - 1] \o seqs[i]]
    BY <2>5
  <2>7. IsFlattening(g, seqs, m + 1)
    BY <2>6 DEF IsFlattening
  <2>8. QED
    BY <2>7
<1> HIDE DEF T
<1>3. n \in T
  BY <1>1, <1>2, NatInductive
<1>4. QED
  BY <1>3 DEF T

LEMMA FlattenFacts ==
    ASSUME NEW seqs, Len(seqs) \in Nat
    PROVE  \E f : /\ \A i \in 1 .. Len(seqs) : f[i] = IF i = 1 THEN seqs[i] ELSE f[i - 1] \o seqs[i]
                  /\ FlattenSeq(seqs) = IF Len(seqs) = 0 THEN seqs ELSE f[Len(seqs)]
<1> DEFINE F == CHOOSE f : f = [i \in 1 .. Len(seqs) |-> IF i = 1 THEN seqs[i] ELSE f[i - 1] \o seqs[i]]
<1>1. \E f : f = [i \in 1 .. Len(seqs) |-> IF i = 1 THEN seqs[i] ELSE f[i - 1] \o seqs[i]]
  BY FlatteningExists DEF IsFlattening
<1>2. F = [i \in 1 .. Len(seqs) |-> IF i = 1 THEN seqs[i] ELSE F[i - 1] \o seqs[i]]
  BY <1>1
<1>3. FlattenSeq(seqs) = IF Len(seqs) = 0 THEN seqs ELSE F[Len(seqs)]
  BY DEF FlattenSeq
<1> HIDE DEF F
<1>4. QED
  BY <1>2, <1>3

\* A concatenation of texts is a text, and begins as the first one does.
LEMMA FlattenTyped ==
    ASSUME NEW S, NEW seqs \in Seq(Seq(S))
    PROVE  /\ FlattenSeq(seqs) \in Seq(S)
           /\ Len(seqs) > 0 /\ seqs[1] # <<>> =>
                Len(FlattenSeq(seqs)) > 0 /\ FlattenSeq(seqs)[1] = seqs[1][1]
<1> DEFINE n == Len(seqs)
<1>1. n \in Nat /\ \A i \in 1 .. n : seqs[i] \in Seq(S)
  BY LenProperties, ElementOfSeq
<1>2. PICK f : /\ \A i \in 1 .. n : f[i] = IF i = 1 THEN seqs[i] ELSE f[i - 1] \o seqs[i]
               /\ FlattenSeq(seqs) = IF n = 0 THEN seqs ELSE f[n]
  BY <1>1, FlattenFacts
<1> HIDE DEF n
<1> DEFINE Good(i) == /\ f[i] \in Seq(S)
                      /\ seqs[1] # <<>> => Len(f[i]) > 0 /\ f[i][1] = seqs[1][1]
           T == {m \in Nat : m \in 1 .. n => Good(m)}
<1>3. 0 \in T
  OBVIOUS
<1>4. ASSUME NEW m \in Nat, m \in T
      PROVE  m + 1 \in T
  <2>1. SUFFICES ASSUME m + 1 \in 1 .. n
                 PROVE  Good(m + 1)
    OBVIOUS
  <2>2. CASE m = 0
    <3>1. 1 \in 1 .. n
      BY <2>1, <2>2
    <3>2. f[1] = seqs[1] /\ seqs[1] \in Seq(S)
      BY <1>1, <1>2, <3>1
    <3>3. Good(1)
      BY <3>2, EmptySeq
    <3>4. QED
      BY <2>2, <3>3
  <2>3. CASE m # 0
    <3>1. m \in 1 .. n /\ m + 1 # 1 /\ (m + 1) - 1 = m
      BY <2>1, <2>3, <1>1
    <3>2. Good(m)
      BY <1>4, <3>1
    <3>3. f[m + 1] = f[m] \o seqs[m + 1] /\ seqs[m + 1] \in Seq(S)
      BY <1>1, <1>2, <2>1, <3>1
    <3>4. /\ f[m + 1] \in Seq(S) /\ Len(f[m + 1]) = Len(f[m]) + Len(seqs[m + 1])
          /\ \A i \in 1 .. Len(f[m]) : f[m + 1][i] = f[m][i]
      <4> DEFINE a == f[m]
                 b == seqs[m + 1]
      <4>1. a \in Seq(S) /\ b \in Seq(S)
        BY <3>2, <3>3
      <4> HIDE DEF a, b
      <4>2. /\ a \o b \in Seq(S) /\ Len(a \o b) = Len(a) + Len(b)
            /\ \A i \in 1 .. Len(a) : (a \o b)[i] = a[i]
        BY <4>1, ConcatProperties, LenProperties
      <4>3. QED
        BY <3>3, <4>2 DEF a, b
    <3>5. Len(f[m]) \in Nat /\ Len(seqs[m + 1]) \in Nat
      BY <3>2, <3>3, LenProperties
    <3>6. ASSUME seqs[1] # <<>>
          PROVE  Len(f[m + 1]) > 0 /\ f[m + 1][1] = seqs[1][1]
      <4>1. Len(f[m]) > 0 /\ f[m][1] = seqs[1][1]
        BY <3>2, <3>6
      <4>2. 1 \in 1 .. Len(f[m]) /\ Len(f[m]) + Len(seqs[m + 1]) > 0
        <5> DEFINE a == Len(f[m])
                   b == Len(seqs[m + 1])
        <5>1. a \in Nat /\ b \in Nat /\ a > 0
          BY <3>5, <4>1
        <5> HIDE DEF a, b
        <5>2. 1 \in 1 .. a /\ a + b > 0
          BY <5>1
        <5>3. QED
          BY <5>2 DEF a, b
      <4>3. f[m + 1][1] = f[m][1]
        BY <3>4, <4>2
      <4>4. QED
        BY <3>4, <4>1, <4>2, <4>3
    <3>7. QED
      BY <3>4, <3>6
  <2>4. QED
    BY <2>2, <2>3
<1> HIDE DEF T
<1>5. \A m \in Nat : m \in T
  BY <1>3, <1>4, NatInductive
<1>6. CASE n = 0
  BY <1>1, <1>2, <1>6, EmptySeq DEF n
<1>7. CASE n # 0
  <2>1. n \in 1 .. n
    BY <1>1, <1>7
  <2>2. Good(n)
    BY <1>1, <1>5, <2>1 DEF T
  <2>3. QED
    BY <1>2, <1>7, <2>2 DEF n
<1>8. QED
  BY <1>6, <1>7

\* A concatenation, position by position.
Joins(c, a, b) ==
    /\ Len(a) \in Nat /\ Len(b) \in Nat /\ Len(c) = Len(a) + Len(b)
    /\ \A i \in 1 .. Len(a) : c[i] = a[i]
    /\ \A i \in 1 .. Len(b) : c[Len(a) + i] = b[i]

LEMMA JoinFacts ==
    ASSUME NEW S, NEW a \in Seq(S), NEW b \in Seq(S)
    PROVE  a \o b \in Seq(S) /\ Joins(a \o b, a, b)
<1>1. Len(a) \in Nat /\ Len(b) \in Nat
  BY LenProperties
<1>2. /\ a \o b \in Seq(S) /\ Len(a \o b) = Len(a) + Len(b)
      /\ \A i \in 1 .. Len(a) + Len(b) : (a \o b)[i] = IF i <= Len(a) THEN a[i] ELSE b[i - Len(a)]
  BY ConcatProperties
<1>3. \A i \in 1 .. Len(a) : (a \o b)[i] = a[i]
  BY <1>1, <1>2
<1>4. ASSUME NEW i \in 1 .. Len(b) PROVE (a \o b)[Len(a) + i] = b[i]
  BY <1>1, <1>2
<1>5. QED
  BY <1>1, <1>2, <1>3, <1>4 DEF Joins

-----------------------------------------------------------------------------
(* Requests: the shape of what is sent. *)

\* The inductive invariant of composing a request: nothing yet, or a record
\* of words whose target starts with a slash or a star.
Shaped ==
    \/ message = Nothing
    \/ /\ message \in [method : SentMethods, target : Seq(Seq(Words)), version : SentVersions,
                       headers : Seq(SentHeaders), body : Seq(Tokens)]
       /\ Len(message.target) > 0 /\ message.target[1] \in {<<"/">>, <<"*">>}

LEMMA InitShaped == TextInit => Shaped
BY DEF TextInit, Shaped

LEMMA NextShaped == Shaped /\ [TextNext]_textVars => Shaped'
<1> SUFFICES ASSUME Shaped, [TextNext]_textVars
             PROVE  Shaped'
  OBVIOUS
<1> DEFINE Tgts == Seq(Seq(Words))
           Hdrs == Seq(SentHeaders)
           Txts == Seq(Tokens)
<1>0. ASSUME message # Nothing
      PROVE  /\ message \in [method : SentMethods, target : Tgts, version : SentVersions,
                             headers : Hdrs, body : Txts]
             /\ Len(message.target) > 0 /\ message.target[1] \in {<<"/">>, <<"*">>}
  BY <1>0 DEF Shaped
<1>n. Nothing.target = <<>> /\ Len(<<>>) = 0
  BY DEF Nothing
<1>1. ASSUME NEW m \in SentMethods, NEW v \in SentVersions, NEW t \in {<<"/">>, <<"*">>},
             StartLine(m, v, t)
      PROVE  Shaped'
  <2>1. message' = [method |-> m, target |-> <<t>>, version |-> v, headers |-> <<>>, body |-> <<>>]
    BY <1>1 DEF StartLine, Nothing
  <2>2. <<>> \in Hdrs /\ <<>> \in Txts
    OBVIOUS
  <2>3. t \in Seq(Words)
    <3>1. "/" \in Words /\ "*" \in Words
      BY TokensAssumption DEF Words, CRLF, Blank
    <3>2. \A x \in Words : <<x>> \in Seq(Words)
      OBVIOUS
    <3>3. QED
      BY <3>1, <3>2
  <2>4. <<t>> \in Tgts /\ Len(<<t>>) = 1 /\ <<t>>[1] = t
    BY <2>3
  <2> HIDE DEF Tgts, Hdrs, Txts
  <2>5. message' \in [method : SentMethods, target : Tgts, version : SentVersions,
                      headers : Hdrs, body : Txts]
    BY <2>1, <2>2, <2>4
  <2>6. Len(message'.target) > 0 /\ message'.target[1] = t
    BY <2>1, <2>4
  <2>7. QED
    BY <2>5, <2>6 DEF Shaped, Tgts, Hdrs, Txts
<1>2. ASSUME NEW p \in TargetPieces, ExtendTarget(p)
      PROVE  Shaped'
  <2>1. Len(message.target) \in 1 .. MaxTarget - 1 /\ message' = [message EXCEPT !.target = Append(@, p)]
    BY <1>2 DEF ExtendTarget
  <2>2. message # Nothing
    BY <1>n, <2>1
  <2>3. p \in Seq(Words)
    BY SentAssumption
  <2>4. message.target \in Tgts /\ Len(message.target) \in Nat
    BY <1>0, <2>2, LenProperties
  <2> DEFINE t == Append(message.target, p)
  <2>5. t \in Tgts /\ Len(t) > 0 /\ t[1] = message.target[1]
    BY <1>0, <2>2, <2>3, <2>4, AppendProperties
  <2> HIDE DEF Tgts, Hdrs, Txts, t
  <2>6. message' = [message EXCEPT !.target = t]
    BY <2>1 DEF t
  <2>7. message' \in [method : SentMethods, target : Tgts, version : SentVersions,
                      headers : Hdrs, body : Txts] /\ message'.target = t
    BY <1>0, <2>2, <2>5, <2>6
  <2>8. QED
    BY <1>0, <2>2, <2>5, <2>7 DEF Shaped, Tgts, Hdrs, Txts
<1>3. ASSUME NEW h \in SentHeaders, AddHeader(h)
      PROVE  Shaped'
  <2>1. Len(message.target) \in 1 .. ShortTarget /\ message' = [message EXCEPT !.headers = Append(@, h)]
    BY <1>3 DEF AddHeader
  <2>2. message # Nothing
    BY <1>n, <2>1
  <2> DEFINE hs == Append(message.headers, h)
  <2>3. hs \in Hdrs
    BY <1>0, <2>2, AppendProperties
  <2> HIDE DEF Tgts, Hdrs, Txts, hs
  <2>4. message' = [message EXCEPT !.headers = hs]
    BY <2>1 DEF hs
  <2>5. message' \in [method : SentMethods, target : Tgts, version : SentVersions,
                      headers : Hdrs, body : Txts] /\ message'.target = message.target
    BY <1>0, <2>2, <2>3, <2>4
  <2>6. QED
    BY <1>0, <2>2, <2>5 DEF Shaped, Tgts, Hdrs, Txts
<1>4. ASSUME NEW b \in SentBodies, AddBody(b)
      PROVE  Shaped'
  <2>1. Len(message.target) \in 1 .. ShortTarget /\ message' = [message EXCEPT !.body = b]
    BY <1>4 DEF AddBody
  <2>2. message # Nothing
    BY <1>n, <2>1
  <2>3. b \in Txts
    BY SentAssumption
  <2> HIDE DEF Tgts, Hdrs, Txts
  <2>4. message' \in [method : SentMethods, target : Tgts, version : SentVersions,
                      headers : Hdrs, body : Txts] /\ message'.target = message.target
    BY <1>0, <2>1, <2>2, <2>3
  <2>5. QED
    BY <1>0, <2>2, <2>4 DEF Shaped, Tgts, Hdrs, Txts
<1>5. CASE UNCHANGED message
  BY <1>5 DEF Shaped
<1>6. ASSUME NEW c, Type(c)
      PROVE  UNCHANGED message
  BY <1>6 DEF Type
<1>7. QED
  BY <1>1, <1>2, <1>3, <1>4, <1>5, <1>6, Zenon DEF TextNext, textVars, Complete

\* Every request that a client composes has the shape of one, with any number
\* of pieces and headers: what HttpRequest::parse() (http/request.cpp) is given.
LEMMA RequestsAreShaped == TextSpec => []Shaped
BY InitShaped, NextShaped, PTL DEF TextSpec

\* The target and what follows the request line are texts.
LEMMA TargetFacts ==
    ASSUME Shaped, Composed
    PROVE  /\ Target \in Seq(Words) /\ Len(Target) > 0
           /\ Target[1] \in {"/", "*"}
<1>1. /\ message.target \in Seq(Seq(Words))
      /\ Len(message.target) > 0 /\ message.target[1] \in {<<"/">>, <<"*">>}
  BY DEF Shaped, Composed
<1>2. message.target[1] # <<>> /\ message.target[1][1] \in {"/", "*"}
  <2> DEFINE t == message.target[1]
  <2>1. PICK x \in {"/", "*"} : t = <<x>>
    BY <1>1
  <2> HIDE DEF t
  <2>2. t # <<>> /\ t[1] = x
    BY <2>1
  <2>3. QED
    BY <2>2 DEF t
<1>3. QED
  BY <1>1, <1>2, FlattenTyped DEF Target

\* The request line.
Line == <<message.method, Blank>> \o Target \o VersionText[message.version]

LEMMA VersionTexts ==
    ASSUME NEW v \in {"none", "bare", "full"}
    PROVE  /\ VersionText[v] \in Seq(Tokens \ {CRLF})
           /\ v = "none" => Len(VersionText[v]) = 0
           /\ v # "none" => VersionText[v][1] = Blank /\ VersionText[v][2] = "HTTP/"
           /\ v = "bare" => Len(VersionText[v]) = 2
           /\ v = "full" => Len(VersionText[v]) = 3 /\ VersionText[v][3] = "1.1"
<1> DEFINE S == Tokens \ {CRLF}
           t == VersionText[v]
<1>1. Blank \in S /\ "HTTP/" \in S /\ "1.1" \in S
  BY TokensAssumption DEF CRLF, Blank
<1> HIDE DEF S
<1>2. <<Blank, "HTTP/">> \in Seq(S) /\ <<Blank, "HTTP/", "1.1">> \in Seq(S)
  BY <1>1
<1>3. CASE v = "none"
  <2>1. t = <<>>
    BY <1>3 DEF VersionText
  <2> HIDE DEF t
  <2>2. QED
    BY <1>3, <2>1 DEF t, S
<1>4. CASE v = "bare"
  <2>1. t = <<Blank, "HTTP/">>
    BY <1>4 DEF VersionText, Version
  <2> HIDE DEF t
  <2>2. QED
    BY <1>2, <1>4, <2>1 DEF t, S
<1>5. CASE v = "full"
  <2>1. t = <<Blank, "HTTP/", "1.1">>
    BY <1>5 DEF VersionText, FullVersion
  <2> HIDE DEF t
  <2>2. QED
    BY <1>2, <1>5, <2>1 DEF t, S
<1>6. QED
  BY <1>3, <1>4, <1>5

\* What stands where in the request line.
LEMMA LineFacts ==
    ASSUME Shaped, Composed
    PROVE  /\ Line \in Seq(Tokens \ {CRLF})
           /\ Len(Target) \in Nat /\ Len(Target) > 0
           /\ Line[1] = message.method /\ Line[2] = Blank /\ Line[3] = Target[1]
           /\ \A i \in 1 .. Len(Target) : Line[2 + i] = Target[i]
           /\ Len(Line) = Len(Target) + (CASE message.version = "none" -> 2
                                           [] message.version = "bare" -> 4
                                           [] OTHER -> 5)
           /\ message.version # "none" =>
                Line[Len(Target) + 3] = Blank /\ Line[Len(Target) + 4] = "HTTP/"
           /\ message.version = "full" => Line[Len(Target) + 5] = "1.1"
<1> DEFINE S == Tokens \ {CRLF}
           m == message.method
           v == message.version
           front == <<m, Blank>>
           text == front \o Target
           ver == VersionText[v]
           L == Len(Target)
<1>1. m \in S /\ Blank \in S /\ v \in {"none", "bare", "full"}
  <2>1. m \in SentMethods /\ v \in SentVersions
    BY DEF Shaped, Composed
  <2>2. m \in S /\ v \in {"none", "bare", "full"}
    BY <2>1, SentAssumption DEF Words
  <2>3. Blank \in S
    BY TokensAssumption DEF Blank, CRLF
  <2>4. QED
    BY <2>2, <2>3
<1>2. front \in Seq(S) /\ Len(front) = 2 /\ front[1] = m /\ front[2] = Blank
  <2> HIDE DEF S
  <2>1. QED
    BY <1>1
<1>3. Target \in Seq(S) /\ L \in Nat /\ L > 0
  <2>1. Words \subseteq S
    BY DEF Words
  <2>2. Target \in Seq(Words) /\ L > 0
    BY TargetFacts
  <2> HIDE DEF S, L
  <2>3. \A i \in 1 .. Len(Target) : Target[i] \in S
    BY <2>1, <2>2, ElementOfSeq
  <2>4. QED
    BY <2>2, <2>3, LenProperties DEF L
<1>4. /\ ver \in Seq(S)
      /\ v = "none" => Len(ver) = 0
      /\ v # "none" => ver[1] = Blank /\ ver[2] = "HTTP/"
      /\ v = "bare" => Len(ver) = 2
      /\ v = "full" => Len(ver) = 3 /\ ver[3] = "1.1"
  BY <1>1, VersionTexts
<1> HIDE DEF S, front, ver, m, v
<1>5. /\ text \in Seq(S) /\ Len(text) = 2 + L
      /\ \A i \in 1 .. 2 : text[i] = front[i]
      /\ \A i \in 1 .. L : text[2 + i] = Target[i]
  <2>1. front \in Seq(S) /\ Target \in Seq(S)
    BY <1>2, <1>3
  <2>2. text \in Seq(S) /\ Joins(text, front, Target)
    BY <2>1, JoinFacts, Zenon
  <2> HIDE DEF text
  <2>3. QED
    BY <1>2, <2>2 DEF Joins
<1> HIDE DEF text
<1>6. /\ Line \in Seq(S) /\ Len(Line) = 2 + L + Len(ver)
      /\ \A i \in 1 .. 2 + L : Line[i] = text[i]
      /\ \A i \in 1 .. Len(ver) : Line[2 + L + i] = ver[i]
  <2>1. Line = text \o ver
    BY Zenon DEF Line, text, front, ver, m, v
  <2>2. text \in Seq(S) /\ ver \in Seq(S)
    BY <1>4, <1>5
  <2>3. Line \in Seq(S) /\ Joins(Line, text, ver)
    BY <2>1, <2>2, JoinFacts, Zenon
  <2> HIDE DEF L
  <2>4. QED
    BY <1>5, <2>3 DEF Joins
<1> HIDE DEF L
<1>7. Line[1] = m /\ Line[2] = Blank /\ \A i \in 1 .. L : Line[2 + i] = Target[i]
  BY <1>2, <1>3, <1>5, <1>6
<1>8. Line[3] = Target[1]
  BY <1>3, <1>7
<1>9. CASE v = "none"
  BY <1>1, <1>3, <1>4, <1>6, <1>7, <1>8, <1>9 DEF S, L, v, m
<1>10. CASE v = "bare"
  <2>1. Line[L + 3] = Blank /\ Line[L + 4] = "HTTP/" /\ Len(Line) = L + 4
    <3>1. Len(ver) = 2 /\ ver[1] = Blank /\ ver[2] = "HTTP/"
      BY <1>4, <1>10
    <3>2. Line[2 + L + 1] = ver[1] /\ Line[2 + L + 2] = ver[2]
      BY <1>6, <3>1
    <3>3. 2 + L + 1 = L + 3 /\ 2 + L + 2 = L + 4
      BY <1>3
    <3>4. QED
      BY <1>6, <3>1, <3>2, <3>3
  <2>2. QED
    BY <1>3, <1>6, <1>7, <1>8, <1>10, <2>1 DEF S, L, v, m
<1>11. CASE v = "full"
  <2>1. Line[L + 3] = Blank /\ Line[L + 4] = "HTTP/" /\ Line[L + 5] = "1.1" /\ Len(Line) = L + 5
    <3>1. Len(ver) = 3 /\ ver[1] = Blank /\ ver[2] = "HTTP/" /\ ver[3] = "1.1"
      BY <1>4, <1>11
    <3>2. Line[2 + L + 1] = ver[1] /\ Line[2 + L + 2] = ver[2] /\ Line[2 + L + 3] = ver[3]
      BY <1>6, <3>1
    <3>3. 2 + L + 1 = L + 3 /\ 2 + L + 2 = L + 4 /\ 2 + L + 3 = L + 5
      BY <1>3
    <3>4. QED
      BY <1>6, <3>1, <3>2, <3>3
  <2>2. QED
    BY <1>3, <1>6, <1>7, <1>8, <1>11, <2>1 DEF S, L, v, m
<1>12. QED
  BY <1>1, <1>9, <1>10, <1>11

\* The request line has its blanks around the target only.
LEMMA LineBlanks ==
    ASSUME Shaped, Composed, NEW i \in 1 .. Len(Line)
    PROVE  Line[i] = Blank <=> i = 2 \/ (message.version # "none" /\ i = Len(Target) + 3)
<1>1. message.method # Blank /\ message.version \in {"none", "bare", "full"}
  BY SentAssumption DEF Shaped, Composed, Words
<1>2. \A j \in 1 .. Len(Target) : Target[j] # Blank
  BY TargetFacts, ElementOfSeq DEF Words
<1> DEFINE L == Len(Target)
<1>3. /\ L \in Nat /\ L > 0
      /\ Line[1] = message.method /\ Line[2] = Blank
      /\ \A j \in 1 .. L : Line[2 + j] = Target[j]
      /\ Len(Line) = L + (CASE message.version = "none" -> 2
                            [] message.version = "bare" -> 4
                            [] OTHER -> 5)
      /\ message.version # "none" => Line[L + 3] = Blank /\ Line[L + 4] = "HTTP/"
      /\ message.version = "full" => Line[L + 5] = "1.1"
  BY LineFacts, Zenon
<1> HIDE DEF L
<1>4. CASE i <= 2
  BY <1>1, <1>3, <1>4
<1>5. CASE i > 2 /\ i <= L + 2
  <2>1. i - 2 \in 1 .. L /\ i = 2 + (i - 2)
    BY <1>3, <1>5
  <2>2. Line[i] = Target[i - 2] /\ Target[i - 2] # Blank
    BY <1>2, <1>3, <2>1 DEF L
  <2>3. QED
    BY <1>3, <1>5, <2>2 DEF L
<1>6. CASE i > L + 2
  <2>1. CASE message.version = "none"
    BY <1>3, <1>6, <2>1
  <2>2. CASE message.version = "bare"
    <3>1. i = L + 3 \/ i = L + 4
      BY <1>3, <1>6, <2>2
    <3>2. QED
      BY <1>3, <2>2, <3>1 DEF L, Blank
  <2>3. CASE message.version = "full"
    <3>1. i = L + 3 \/ i = L + 4 \/ i = L + 5
      BY <1>3, <1>6, <2>3
    <3>2. QED
      BY <1>3, <2>3, <3>1 DEF L, Blank
  <2>4. QED
    BY <1>1, <2>1, <2>2, <2>3
<1>7. QED
  BY <1>3, <1>4, <1>5, <1>6

\* A header as it is sent.
HeaderLine(h) == <<h.name, Blank>> \o h.value \o <<CRLF>>

LEMMA HeaderLineFacts ==
    ASSUME NEW h \in SentHeaders
    PROVE  HeaderLine(h) \in Seq(Tokens)
<1>1. h.name \in Tokens /\ Blank \in Tokens /\ CRLF \in Tokens
  BY SentAssumption, TokensAssumption DEF Words
<1>2. h.value \in Seq(Tokens)
  <2>1. h.value \in Seq(Tokens \ {CRLF})
    BY SentAssumption
  <2>2. \A i \in 1 .. Len(h.value) : h.value[i] \in Tokens
    BY <2>1, ElementOfSeq
  <2>3. QED
    BY <2>1, <2>2, LenProperties
<1>3. <<h.name, Blank>> \in Seq(Tokens) /\ <<CRLF>> \in Seq(Tokens)
  BY <1>1
<1> DEFINE a == <<h.name, Blank>>
           b == h.value
           c == <<CRLF>>
<1>4. a \in Seq(Tokens) /\ b \in Seq(Tokens) /\ c \in Seq(Tokens)
  BY <1>2, <1>3
<1>5. HeaderLine(h) = (a \o b) \o c
  BY DEF HeaderLine
<1> HIDE DEF a, b, c
<1>6. a \o b \in Seq(Tokens)
  BY <1>4, JoinFacts, Zenon
<1>7. QED
  BY <1>4, <1>5, <1>6, JoinFacts, Zenon

LEMMA ShapedParts ==
    ASSUME Shaped
    PROVE  message.headers \in Seq(SentHeaders) /\ message.body \in Seq(Tokens)
<1>1. CASE message = Nothing
  <2>1. message.headers = <<>> /\ message.body = <<>>
    BY <1>1 DEF Nothing
  <2>2. <<>> \in Seq(SentHeaders) /\ <<>> \in Seq(Tokens)
    OBVIOUS
  <2>3. QED
    BY <2>1, <2>2, Zenon
<1>2. CASE message # Nothing
  BY <1>2 DEF Shaped
<1>3. QED
  BY <1>1, <1>2

LEMMA HeaderLinesFacts ==
    ASSUME Shaped
    PROVE  /\ Len(message.headers) \in Nat
           /\ [i \in DOMAIN message.headers |-> HeaderLine(message.headers[i])] \in Seq(Seq(Tokens))
           /\ Len([i \in DOMAIN message.headers |-> HeaderLine(message.headers[i])]) = Len(message.headers)
           /\ HeaderText = FlattenSeq([i \in DOMAIN message.headers |-> HeaderLine(message.headers[i])])
           /\ \A i \in 1 .. Len(message.headers) : message.headers[i] \in SentHeaders
<1> DEFINE hs == message.headers
           f == [i \in DOMAIN hs |-> HeaderLine(hs[i])]
<1>1. hs \in Seq(SentHeaders)
  BY ShapedParts
<1>2. HeaderText = FlattenSeq(f)
  BY Zenon DEF HeaderText, HeaderLine
<1> HIDE DEF hs
<1>3. /\ Len(hs) \in Nat /\ DOMAIN hs = 1 .. Len(hs)
      /\ \A i \in 1 .. Len(hs) : hs[i] \in SentHeaders
  BY <1>1, LenProperties, ElementOfSeq
<1>4. \A i \in 1 .. Len(hs) : HeaderLine(hs[i]) \in Seq(Tokens)
  BY <1>3, HeaderLineFacts, Zenon
<1>5. f \in [1 .. Len(hs) -> Seq(Tokens)]
  BY <1>3, <1>4
<1> HIDE DEF f
<1>6. f \in Seq(Seq(Tokens)) /\ Len(f) = Len(hs)
  <2>1. f \in Seq(Seq(Tokens))
    BY <1>3, <1>5, SeqDef
  <2>2. QED
    BY <1>3, <1>5, <2>1, LenProperties
<1>7. QED
  BY <1>2, <1>3, <1>6 DEF f, hs

LEMMA RestFacts ==
    ASSUME Shaped
    PROVE  /\ HeaderText \in Seq(Tokens) /\ Rest \in Seq(Tokens)
           /\ HeaderText \o <<CRLF>> \in Seq(Tokens) /\ message.body \in Seq(Tokens)
           /\ Joins(HeaderText \o <<CRLF>>, HeaderText, <<CRLF>>)
           /\ Joins(Rest, HeaderText \o <<CRLF>>, message.body)
<1> DEFINE c == <<CRLF>>
           front == HeaderText \o c
<1>1. HeaderText \in Seq(Tokens)
  BY HeaderLinesFacts, FlattenTyped
<1>2. c \in Seq(Tokens) /\ message.body \in Seq(Tokens)
  BY ShapedParts, TokensAssumption
<1>3. Rest = front \o message.body
  BY DEF Rest
<1> HIDE DEF c
<1>4. front \in Seq(Tokens) /\ Joins(front, HeaderText, c)
  BY <1>1, <1>2, JoinFacts, Zenon
<1> HIDE DEF front
<1>5. Rest \in Seq(Tokens) /\ Joins(Rest, front, message.body)
  BY <1>2, <1>3, <1>4, JoinFacts, Zenon
<1>6. QED
  BY <1>1, <1>2, <1>4, <1>5, Zenon DEF front, c

\* The request is its first line, a line end, and the rest.
LEMMA RawFacts ==
    ASSUME Shaped, Composed
    PROVE  /\ Raw \in Seq(Tokens) /\ Len(Line) \in Nat /\ Len(Rest) \in Nat
           /\ Len(Raw) = Len(Line) + 1 + Len(Rest)
           /\ \A i \in 1 .. Len(Line) : Raw[i] = Line[i] /\ Line[i] \in Tokens \ {CRLF}
           /\ Raw[Len(Line) + 1] = CRLF
           /\ \A i \in 1 .. Len(Rest) : Raw[Len(Line) + 1 + i] = Rest[i]
<1> DEFINE c == <<CRLF>>
           front == Line \o c
<1>1. Line \in Seq(Tokens) /\ \A i \in 1 .. Len(Line) : Line[i] \in Tokens \ {CRLF}
  <2>1. Line \in Seq(Tokens \ {CRLF})
    BY LineFacts
  <2>2. \A i \in 1 .. Len(Line) : Line[i] \in Tokens \ {CRLF}
    BY <2>1, ElementOfSeq
  <2>3. QED
    BY <2>1, <2>2, LenProperties
<1>2. c \in Seq(Tokens) /\ Rest \in Seq(Tokens) /\ Len(c) = 1 /\ c[1] = CRLF
  BY RestFacts, TokensAssumption
<1>3. Raw = front \o Rest
  BY Zenon DEF Raw, Line
<1> HIDE DEF c
<1>4. front \in Seq(Tokens) /\ Joins(front, Line, c)
  BY <1>1, <1>2, JoinFacts, Zenon
<1> HIDE DEF front
<1>5. Raw \in Seq(Tokens) /\ Joins(Raw, front, Rest)
  BY <1>2, <1>3, <1>4, JoinFacts, Zenon
<1>6. /\ Len(Line) \in Nat /\ Len(Rest) \in Nat /\ Len(front) = Len(Line) + 1
      /\ Len(Raw) = Len(front) + Len(Rest)
      /\ \A i \in 1 .. Len(Line) : front[i] = Line[i]
      /\ front[Len(Line) + 1] = CRLF
  BY <1>2, <1>4, <1>5 DEF Joins
<1>7. \A i \in 1 .. Len(Line) + 1 : Raw[i] = front[i]
  BY <1>5, <1>6 DEF Joins
<1>8. \A i \in 1 .. Len(Rest) : Raw[Len(Line) + 1 + i] = Rest[i]
  BY <1>5, <1>6 DEF Joins
<1> DEFINE n == Len(Line)
<1>9. n \in Nat
  BY <1>6
<1> HIDE DEF n
<1>10. \A i \in 1 .. n : i \in 1 .. n + 1
  BY <1>9
<1>11. n + 1 \in 1 .. n + 1
  BY <1>9
<1>12. QED
  BY <1>1, <1>5, <1>6, <1>7, <1>8, <1>10, <1>11 DEF n

\* What reads like nothing in the rest is found in the first line only.
LEMMA MatchesInLine ==
    ASSUME Shaped, Composed, NEW s \in Seq(Tokens \ {CRLF}), Len(s) > 0, ~Has(Rest, s),
           NEW i \in 1 .. Len(Raw) - Len(s) + 1, MatchAt(Raw, s, i)
    PROVE  i + Len(s) - 1 <= Len(Line)
<1> DEFINE n == Len(s)
           p == Len(Line)
           r == Len(Rest)
<1>1. /\ p \in Nat /\ r \in Nat /\ Len(Raw) = p + 1 + r
      /\ Raw[p + 1] = CRLF /\ \A k \in 1 .. r : Raw[p + 1 + k] = Rest[k]
  BY RawFacts
<1>2. /\ n \in Nat /\ n > 0 /\ \A j \in 1 .. n : s[j] # CRLF
      /\ s \in Seq(Tokens)
  <2>1. \A j \in 1 .. Len(s) : s[j] \in Tokens \ {CRLF}
    BY ElementOfSeq
  <2>2. QED
    BY <2>1, LenProperties
<1>3. \A j \in 1 .. n : Raw[i + j - 1] = s[j]
  BY DEF MatchAt
<1>4. \A k \in 1 .. r - n + 1 : ~MatchAt(Rest, s, k)
  <2>1. Rest \in Seq(Tokens)
    BY RestFacts
  <2>2. Find(Rest, s, 1) = 0
    BY DEF Has
  <2>3. 1 \in Nat \ {0}
    OBVIOUS
  <2>4. QED
    BY <1>2, <2>1, <2>2, <2>3, FindFacts
<1> HIDE DEF n, p, r
<1>5. SUFFICES ASSUME i + n - 1 >= p + 1
               PROVE  FALSE
  BY <1>1, <1>2 DEF n, p
<1>6. i \in 1 .. p + 1 + r - n + 1
  BY <1>1 DEF n
<1>7. CASE i <= p + 1
  <2>1. p + 1 - i + 1 \in 1 .. n /\ i + (p + 1 - i + 1) - 1 = p + 1
    BY <1>1, <1>2, <1>5, <1>6, <1>7
  <2>2. QED
    BY <1>1, <1>2, <1>3, <2>1
<1>8. CASE i > p + 1
  <2> DEFINE k == i - (p + 1)
  <2>1. k \in 1 .. r - n + 1 /\ i = p + 1 + k
    BY <1>1, <1>2, <1>6, <1>8
  <2> HIDE DEF k
  <2>2. ASSUME NEW j \in 1 .. n
        PROVE  Rest[k + j - 1] = s[j]
    <3>1. k + j - 1 \in 1 .. r /\ i + j - 1 = p + 1 + (k + j - 1)
      BY <1>1, <1>2, <2>1
    <3>2. QED
      BY <1>1, <1>3, <3>1
  <2>3. MatchAt(Rest, s, k)
    BY <2>2 DEF MatchAt, n
  <2>4. QED
    BY <1>4, <2>1, <2>3
<1>9. QED
  BY <1>1, <1>6, <1>7, <1>8
-----------------------------------------------------------------------------
(* Requests: what the server finds in them. *)

\* What parse() looks for.
LEMMA MethodFacts ==
    ASSUME NEW k \in 1 .. 3
    PROVE  /\ Methods[k] \in ToSet(Methods)
           /\ \A j \in 1 .. 3 : Methods[j] = Methods[k] => j = k
           /\ Methods[k] \in EndingIn[Methods[k]]
           /\ EndingIn[Methods[k]] \subseteq Tokens \ {Blank, CRLF}
           /\ \A w, j : j \in 1 .. 3 /\ w \in EndingIn[Methods[k]] /\ w \in EndingIn[Methods[j]] => j = k
<1> DEFINE M == Methods[k]
<1>1. Methods \in Seq({"GET", "POST", "HEAD"}) /\ Len(Methods) = 3 /\ DOMAIN Methods = 1 .. 3
  BY DEF Methods
<1>2. \A j \in 1 .. 3 : Methods[j] \in ToSet(Methods)
  BY <1>1 DEF ToSet
<1>3. \A j \in 1 .. 3 : Methods[j] = M => j = k
  BY DEF Methods
<1>4. M \in ToSet(Methods)
  BY <1>2
<1> HIDE DEF M
<1>5. M \in EndingIn[M] /\ \A n \in ToSet(Methods) : M # n => EndingIn[M] \cap EndingIn[n] = {}
  BY <1>4, EndingInAssumption
<1>6. EndingIn[M] \subseteq Tokens \ {Blank, CRLF}
  BY <1>4, EndingsAssumption DEF Words
<1>7. ASSUME NEW w, NEW j \in 1 .. 3, w \in EndingIn[M], w \in EndingIn[Methods[j]]
      PROVE  j = k
  BY <1>2, <1>3, <1>5, <1>7
<1>8. QED
  BY <1>3, <1>4, <1>5, <1>6, <1>7 DEF M

\* A method in a text is three tokens.
LEMMA MethodMatch ==
    ASSUME NEW text, NEW w, NEW i \in Nat
    PROVE  MatchAt(text, <<w, Blank, "/">>, i)
             <=> text[i] = w /\ text[i + 1] = Blank /\ text[i + 2] = "/"
<1> DEFINE s == <<w, Blank, "/">>
<1>1. Len(s) = 3 /\ s[1] = w /\ s[2] = Blank /\ s[3] = "/"
  OBVIOUS
<1> HIDE DEF s
<1>2. i + 1 - 1 = i /\ i + 2 - 1 = i + 1 /\ i + 3 - 1 = i + 2
  OBVIOUS
<1>3. MatchAt(text, s, i) <=> text[i + 1 - 1] = s[1] /\ text[i + 2 - 1] = s[2] /\ text[i + 3 - 1] = s[3]
  <2>1. MatchAt(text, s, i) <=> \A j \in 1 .. 3 : text[i + j - 1] = s[j]
    BY <1>1 DEF MatchAt
  <2>2. (\A j \in 1 .. 3 : text[i + j - 1] = s[j])
          <=> text[i + 1 - 1] = s[1] /\ text[i + 2 - 1] = s[2] /\ text[i + 3 - 1] = s[3]
    OBVIOUS
  <2>3. QED
    BY <2>1, <2>2
<1>4. QED
  BY <1>1, <1>2, <1>3 DEF s

LEMMA VersionFacts ==
    Version \in Seq(Tokens \ {CRLF}) /\ Len(Version) = 2 /\ Version[1] = Blank /\ Version[2] = "HTTP/"
<1> DEFINE S == Tokens \ {CRLF}
<1>1. Blank \in S /\ "HTTP/" \in S
  BY TokensAssumption DEF CRLF, Blank
<1> HIDE DEF S
<1>2. <<Blank, "HTTP/">> \in Seq(S)
  BY <1>1
<1>3. QED
  BY <1>2 DEF Version, S

LEMMA Widen ==
    ASSUME NEW s \in Seq(Tokens \ {CRLF})
    PROVE  s \in Seq(Tokens)
<1>1. \A i \in 1 .. Len(s) : s[i] \in Tokens
  BY ElementOfSeq
<1>2. QED
  BY <1>1, LenProperties

\* What Find() sees of the request line.
LEMMA LineInRaw ==
    ASSUME Shaped, Composed
    PROVE  LET L == Len(Target)
           IN  /\ L \in Nat /\ L > 0 /\ Len(Line) \in Nat /\ Len(Raw) \in Nat /\ Len(Line) < Len(Raw)
               /\ L + 2 <= Len(Line)
               /\ message.version # "none" => L + 4 <= Len(Line)
               /\ Raw[1] = message.method /\ Raw[2] = Blank /\ Raw[3] = Target[1]
               /\ Target[1] \in {"/", "*"}
               /\ message.version # "none" => Raw[L + 3] = Blank /\ Raw[L + 4] = "HTTP/"
               /\ \A i \in 1 .. Len(Line) :
                     Raw[i] = Blank <=> i = 2 \/ (message.version # "none" /\ i = L + 3)
<1> DEFINE L == Len(Target)
           n == Len(Line)
<1>1. /\ L \in Nat /\ L > 0
      /\ Line[1] = message.method /\ Line[2] = Blank /\ Line[3] = Target[1]
      /\ n = L + (CASE message.version = "none" -> 2
                    [] message.version = "bare" -> 4
                    [] OTHER -> 5)
      /\ message.version # "none" => Line[L + 3] = Blank /\ Line[L + 4] = "HTTP/"
  BY LineFacts, Zenon
<1>2. /\ n \in Nat /\ Len(Rest) \in Nat /\ Len(Raw) = n + 1 + Len(Rest)
      /\ \A i \in 1 .. n : Raw[i] = Line[i]
  BY RawFacts, Zenon
<1>3. \A i \in 1 .. n : Line[i] = Blank <=> i = 2 \/ (message.version # "none" /\ i = L + 3)
  BY LineBlanks
<1>4. Target[1] \in {"/", "*"}
  BY TargetFacts
<1> HIDE DEF L, n
<1>5. L + 2 <= n /\ (message.version # "none" => L + 4 <= n)
  BY <1>1
<1>6. 1 \in 1 .. n /\ 2 \in 1 .. n /\ 3 \in 1 .. n
  BY <1>1, <1>2, <1>5
<1>7. message.version # "none" => L + 3 \in 1 .. n /\ L + 4 \in 1 .. n
  <2>1. SUFFICES ASSUME message.version # "none"
                 PROVE  L + 3 \in 1 .. n /\ L + 4 \in 1 .. n
    OBVIOUS
  <2>2. L \in Nat /\ n \in Nat /\ L + 4 <= n
    BY <1>1, <1>2, <1>5, <2>1
  <2>3. QED
    BY <2>2
<1>8. Len(Raw) \in Nat /\ n < Len(Raw)
  BY <1>2
<1>9. Raw[1] = message.method /\ Raw[2] = Blank /\ Raw[3] = Target[1]
  BY <1>1, <1>2, <1>6
<1>10. message.version # "none" => Raw[L + 3] = Blank /\ Raw[L + 4] = "HTTP/"
  BY <1>1, <1>2, <1>7
<1>11. \A i \in 1 .. n : Raw[i] = Blank <=> i = 2 \/ (message.version # "none" /\ i = L + 3)
  BY <1>2, <1>3
<1>12. QED
  BY <1>1, <1>2, <1>4, <1>5, <1>8, <1>9, <1>10, <1>11, Zenon DEF L, n

\* The search for a method finds it at the start of the request line, at the
\* end of its word, or nowhere, as long as nothing after that line is misleading.
LEMMA StartFound ==
    ASSUME Shaped, Composed, ~Misleading, NEW k \in 1 .. 3
    PROVE  FindMethod(Raw, Methods[k]) =
              IF message.method \in EndingIn[Methods[k]] /\ Target[1] = "/" THEN 1 ELSE 0
<1> DEFINE M == Methods[k]
           L == Len(Target)
<1>1. M \in ToSet(Methods) /\ EndingIn[M] \subseteq Tokens \ {Blank, CRLF}
  BY MethodFacts
<1>2. FindMethod(Rest, M) = 0
  BY <1>1 DEF Misleading
<1>3. Raw \in Seq(Tokens) /\ Rest \in Seq(Tokens)
  BY RawFacts, RestFacts
<1>4. /\ L \in Nat /\ L > 0 /\ Len(Line) \in Nat /\ Len(Raw) \in Nat /\ Len(Line) < Len(Raw)
      /\ L + 2 <= Len(Line)
      /\ Raw[1] = message.method /\ Raw[2] = Blank /\ Raw[3] = Target[1]
      /\ message.version # "none" => Raw[L + 3] = Blank /\ Raw[L + 4] = "HTTP/"
      /\ \A i \in 1 .. Len(Line) :
            Raw[i] = Blank <=> i = 2 \/ (message.version # "none" /\ i = L + 3)
  BY LineInRaw
<1> HIDE DEF M, L
<1>5. CASE message.method \in EndingIn[M] /\ Target[1] = "/"
  <2> DEFINE p == 1
  <2>1. MethodAt(Raw, M, p)
    BY <1>4, <1>5 DEF MethodAt
  <2>2. p \in 1 .. Len(Raw) - 2
    BY <1>4
  <2>3. \A i \in 1 .. p - 1 : ~MethodAt(Raw, M, i)
    OBVIOUS
  <2> HIDE DEF p
  <2>4. FindMethod(Raw, M) = p
    BY <1>3, <2>1, <2>2, <2>3, FindMethodFirst, Zenon
  <2>5. QED
    BY <1>5, <2>4 DEF p, M
<1>6. CASE ~(message.method \in EndingIn[M] /\ Target[1] = "/")
  <2>1. ASSUME NEW i \in 1 .. Len(Raw) - 2, MethodAt(Raw, M, i)
        PROVE  FALSE
    <3> DEFINE w == Raw[i]
               s == <<w, Blank, "/">>
    <3>1. w \in EndingIn[M] /\ Raw[i + 1] = Blank /\ Raw[i + 2] = "/"
      BY <2>1 DEF MethodAt
    <3>2. w \in Tokens \ {CRLF} /\ Blank \in Tokens \ {CRLF} /\ "/" \in Tokens \ {CRLF}
      BY <1>1, <3>1, TokensAssumption DEF CRLF, Blank
    <3>3. Len(s) = 3
      OBVIOUS
    <3>4. s \in Seq(Tokens \ {CRLF})
      BY <3>2
    <3>5. i \in Nat /\ i >= 1 /\ MatchAt(Raw, s, i)
      BY <3>1, MethodMatch
    <3>6. ~Has(Rest, s)
      <4> DEFINE one == 1
      <4>1. ASSUME NEW x \in one .. Len(Rest) - Len(s) + 1, MatchAt(Rest, s, x)
            PROVE  FALSE
        <5>1. x \in Nat /\ x \in 1 .. Len(Rest) - 2
          BY <1>3, <3>3, <4>1, LenProperties
        <5>2. Rest[x] = w /\ Rest[x + 1] = Blank /\ Rest[x + 2] = "/"
          BY <4>1, <5>1, MethodMatch
        <5>3. MethodAt(Rest, M, x)
          BY <3>1, <5>2 DEF MethodAt
        <5>4. QED
          BY <1>2, <5>1, <5>3, FindMethodNone
      <4>2. one \in Nat \ {0} /\ s \in Seq(Tokens)
        BY <3>4, Widen
      <4> HIDE DEF one, s
      <4>3. \A x \in one .. Len(Rest) - Len(s) + 1 : ~MatchAt(Rest, s, x)
        BY <4>1
      <4>4. Find(Rest, s, one) = 0
        BY <1>3, <4>2, <4>3, FindNone, Zenon
      <4>5. QED
        BY <4>4 DEF Has, one
    <3> HIDE DEF s, w
    <3>7. i + Len(s) - 1 <= Len(Line)
      <4>1. Len(s) > 0 /\ i \in 1 .. Len(Raw) - Len(s) + 1
        BY <1>4, <2>1, <3>3
      <4>2. QED
        BY <3>4, <3>5, <3>6, <4>1, MatchesInLine, Zenon
    <3>8. i \in Nat /\ i >= 1 /\ i + 2 <= Len(Line) /\ i + 1 \in 1 .. Len(Line)
      BY <1>4, <3>3, <3>5, <3>7
    <3>9. i + 1 = 2 \/ (message.version # "none" /\ i + 1 = L + 3)
      BY <1>4, <3>1, <3>8
    <3>10. CASE i + 1 = 2
      <4>1. i = 1
        BY <3>8, <3>10
      <4>2. QED
        BY <1>4, <1>6, <3>1, <4>1 DEF w
    <3>11. CASE message.version # "none" /\ i + 1 = L + 3
      <4>1. i + 2 = L + 4
        BY <1>4, <3>8, <3>11
      <4>2. QED
        BY <1>4, <3>1, <3>11, <4>1
    <3>12. QED
      BY <3>9, <3>10, <3>11
  <2>2. \A i \in 1 .. Len(Raw) - 2 : ~MethodAt(Raw, M, i)
    BY <2>1
  <2>3. FindMethod(Raw, M) = 0
    BY <2>2, FindMethodNone
  <2>4. QED
    BY <1>6, <2>3 DEF M
<1>7. QED
  BY <1>5, <1>6

\* The search for a version finds it after the target, or nowhere.
LEMMA EndFound ==
    ASSUME Shaped, Composed, ~Misleading
    PROVE  Find(Raw, Version, 1) = IF message.version = "none" THEN 0 ELSE Len(Target) + 3
<1> DEFINE L == Len(Target)
<1>1. Version \in Seq(Tokens \ {CRLF}) /\ Len(Version) = 2 /\ Version[1] = Blank /\ Version[2] = "HTTP/"
  BY VersionFacts
<1>2. ~Has(Rest, Version)
  BY DEF Misleading
<1>3. Version \in Seq(Tokens) /\ Raw \in Seq(Tokens) /\ 1 \in Nat \ {0}
  BY <1>1, Widen, RawFacts
<1>4. /\ L \in Nat /\ L > 0 /\ Len(Line) \in Nat /\ Len(Raw) \in Nat /\ Len(Line) < Len(Raw)
      /\ message.version # "none" => L + 4 <= Len(Line)
      /\ Raw[3] = Target[1] /\ Target[1] \in {"/", "*"}
      /\ message.version # "none" => Raw[L + 3] = Blank /\ Raw[L + 4] = "HTTP/"
      /\ \A i \in 1 .. Len(Line) :
            Raw[i] = Blank <=> i = 2 \/ (message.version # "none" /\ i = L + 3)
  BY LineInRaw
<1> HIDE DEF L
<1>5. ASSUME NEW i \in 1 .. Len(Raw) - Len(Version) + 1, MatchAt(Raw, Version, i)
      PROVE  message.version # "none" /\ i = L + 3
  <2>1. i + Len(Version) - 1 <= Len(Line)
    <3>1. Len(Version) > 0
      BY <1>1
    <3>2. QED
      BY <1>1, <1>2, <1>5, <3>1, MatchesInLine, Zenon
  <2>2. i \in 1 .. Len(Line)
    BY <1>1, <1>4, <2>1
  <2>3. Raw[i] = Blank /\ Raw[i + 1] = "HTTP/"
    BY <1>1, <1>5, <2>2 DEF MatchAt
  <2>4. i # 2
    BY <1>4, <2>3
  <2>5. QED
    BY <1>4, <2>2, <2>3, <2>4
<1>6. CASE message.version = "none"
  <2>1. \A i \in 1 .. Len(Raw) - Len(Version) + 1 : ~MatchAt(Raw, Version, i)
    BY <1>5, <1>6
  <2>2. Find(Raw, Version, 1) = 0
    BY <1>3, <2>1, FindNone, Zenon
  <2>3. QED
    BY <1>6, <2>2
<1>7. CASE message.version # "none"
  <2> DEFINE p == L + 3
  <2>1. p \in 1 .. Len(Raw) - Len(Version) + 1
    BY <1>1, <1>4, <1>7
  <2>2. MatchAt(Raw, Version, p)
    <3>1. p + 1 - 1 = L + 3 /\ p + 2 - 1 = L + 4
      BY <1>4
    <3> HIDE DEF p
    <3>2. Raw[p + 1 - 1] = Version[1] /\ Raw[p + 2 - 1] = Version[2]
      BY <1>1, <1>4, <1>7, <3>1
    <3>3. QED
      BY <1>1, <3>2 DEF MatchAt
  <2>3. \A i \in 1 .. p - 1 : ~MatchAt(Raw, Version, i)
    <3>1. \A i \in 1 .. p - 1 : i \in 1 .. Len(Raw) - Len(Version) + 1 /\ i # p
      BY <1>1, <1>4, <2>1
    <3>2. QED
      BY <1>5, <3>1
  <2> HIDE DEF p
  <2>4. Find(Raw, Version, 1) = p
    BY <1>3, <2>1, <2>2, <2>3, FindFirst, Zenon
  <2>5. QED
    BY <1>7, <2>4 DEF p, L
<1>8. QED
  BY <1>6, <1>7

\* A search for one token.
LEMMA FindToken ==
    ASSUME NEW S, NEW text \in Seq(S), NEW c \in S, NEW from \in Nat \ {0}
    PROVE  /\ \A p \in from .. Len(text) :
                 text[p] = c /\ (\A i \in from .. p - 1 : text[i] # c) => Find(text, <<c>>, from) = p
           /\ (\A i \in from .. Len(text) : text[i] # c) => Find(text, <<c>>, from) = 0
<1> DEFINE s == <<c>>
<1>1. s \in Seq(S) /\ Len(s) = 1 /\ s[1] = c
  OBVIOUS
<1> HIDE DEF s
<1>2. Len(text) \in Nat /\ Len(text) - Len(s) + 1 = Len(text)
  BY <1>1, LenProperties
<1>3. \A i \in Nat : MatchAt(text, s, i) <=> text[i] = c
  BY <1>1 DEF MatchAt
<1>4. ASSUME NEW p \in from .. Len(text), text[p] = c, \A i \in from .. p - 1 : text[i] # c
      PROVE  Find(text, s, from) = p
  <2>1. p \in from .. Len(text) - Len(s) + 1 /\ p \in Nat
    BY <1>2
  <2>2. MatchAt(text, s, p)
    BY <1>3, <1>4, <2>1
  <2>3. \A i \in from .. p - 1 : ~MatchAt(text, s, i)
    BY <1>3, <1>4, <2>1
  <2>4. QED
    BY <1>1, <2>1, <2>2, <2>3, FindFirst, Zenon
<1>5. ASSUME \A i \in from .. Len(text) : text[i] # c
      PROVE  Find(text, s, from) = 0
  <2>1. \A i \in from .. Len(text) - Len(s) + 1 : ~MatchAt(text, s, i)
    BY <1>2, <1>3, <1>5
  <2>2. QED
    BY <1>1, <2>1, FindNone, Zenon
<1>6. QED
  BY <1>4, <1>5 DEF s

\* The first line, as extract_method_token() cuts it off.
LEMMA LineCutOff ==
    ASSUME Shaped, Composed
    PROVE  /\ Find(Raw, <<CRLF>>, 1) = Len(Line) + 1
           /\ Before(Raw, Len(Line) + 1) = Line
<1> DEFINE n == Len(Line)
<1>1. /\ Raw \in Seq(Tokens) /\ n \in Nat /\ Len(Rest) \in Nat
      /\ Len(Raw) = n + 1 + Len(Rest)
      /\ \A i \in 1 .. n : Raw[i] = Line[i] /\ Line[i] \in Tokens \ {CRLF}
      /\ Raw[n + 1] = CRLF
  BY RawFacts
<1>2. Line \in Seq(Tokens)
  BY LineFacts, Widen, Zenon
<1>3. CRLF \in Tokens
  BY TokensAssumption
<1> HIDE DEF n
<1>4. Find(Raw, <<CRLF>>, 1) = n + 1
  <2> DEFINE p == n + 1
  <2>1. p \in 1 .. Len(Raw) /\ Raw[p] = CRLF /\ \A i \in 1 .. p - 1 : Raw[i] # CRLF
    BY <1>1
  <2>2. 1 \in Nat \ {0}
    OBVIOUS
  <2>3. Raw \in Seq(Tokens)
    BY <1>1
  <2> HIDE DEF p
  <2>4. Find(Raw, <<CRLF>>, 1) = p
    BY <1>3, <2>1, <2>2, <2>3, FindToken, Zenon
  <2>5. QED
    BY <2>4 DEF p
<1>5. Before(Raw, n + 1) = Line
  <2> DEFINE r == SubSeq(Raw, 1, n)
  <2>1. (n + 1) - 1 = n
    BY <1>1
  <2>2. \A i \in 1 .. n : Raw[i] \in Tokens
    BY <1>1
  <2>3. /\ r \in Seq(Tokens)
        /\ Len(r) = IF 1 <= n THEN n - 1 + 1 ELSE 0
        /\ \A i \in 1 .. n - 1 + 1 : r[i] = Raw[1 + i - 1]
    <3>1. 1 \in Int /\ n \in Int
      BY <1>1
    <3>2. QED
      BY <1>1, <2>2, <3>1, SubSeqProperties
  <2> HIDE DEF r
  <2>4. Len(r) = n /\ \A i \in 1 .. n : r[i] = Line[i]
    BY <1>1, <2>3
  <2>5. r = Line
    BY <1>2, <2>3, <2>4, SeqEqual DEF n
  <2>6. QED
    BY <2>1, <2>5 DEF Before, r
<1>6. QED
  BY <1>4, <1>5 DEF n

\* extract_method_token() gives the method of a line with a whole version.
LEMMA FirstWord ==
    ASSUME Shaped, Composed
    PROVE  ExtractMethodToken(Raw) = IF message.version = "full" THEN <<message.method>> ELSE <<>>
<1> DEFINE L == Len(Target)
           n == Len(Line)
           sp2 == Find(Line, <<Blank>>, 3)
<1>1. /\ L \in Nat /\ L > 0
      /\ Line[1] = message.method /\ Line[2] = Blank
      /\ n = L + (CASE message.version = "none" -> 2
                    [] message.version = "bare" -> 4
                    [] OTHER -> 5)
      /\ message.version # "none" => Line[L + 3] = Blank /\ Line[L + 4] = "HTTP/"
  BY LineFacts, Zenon
<1>2. /\ Line \in Seq(Tokens) /\ Blank \in Tokens /\ message.method # Blank
      /\ message.method \in Tokens /\ message.version \in {"none", "bare", "full"}
  <2>1. message.method \in SentMethods /\ message.version \in SentVersions
    BY DEF Shaped, Composed
  <2>2. Line \in Seq(Tokens)
    BY LineFacts, Widen, Zenon
  <2>3. QED
    BY <2>1, <2>2, SentAssumption, TokensAssumption DEF Words
<1>3. \A i \in 1 .. n : Line[i] = Blank <=> i = 2 \/ (message.version # "none" /\ i = L + 3)
  BY LineBlanks
<1> HIDE DEF n, L
<1>4. n \in Nat /\ n >= 3
  BY <1>1
<1>5. Find(Line, <<Blank>>, 1) = 2
  <2>1. 2 \in 1 .. n /\ Line[2] = Blank /\ \A i \in 1 .. 2 - 1 : Line[i] # Blank
    BY <1>1, <1>2, <1>4
  <2>2. 1 \in Nat \ {0}
    OBVIOUS
  <2>3. QED
    BY <1>2, <2>1, <2>2, FindToken, Zenon DEF n
<1>6. message.version = "none" => sp2 = 0
  <2>1. SUFFICES ASSUME message.version = "none"
                 PROVE  sp2 = 0
    OBVIOUS
  <2>2. \A i \in 3 .. n : Line[i] # Blank
    BY <1>3, <1>4, <2>1
  <2>3. 3 \in Nat \ {0}
    OBVIOUS
  <2>4. QED
    BY <1>2, <2>2, <2>3, FindToken, Zenon DEF n
<1>7. message.version # "none" => sp2 = L + 3
  <2>1. SUFFICES ASSUME message.version # "none"
                 PROVE  sp2 = L + 3
    OBVIOUS
  <2> DEFINE p == L + 3
  <2>2. p \in 3 .. n
    BY <1>1, <1>2, <2>1
  <2>3. Line[p] = Blank /\ \A i \in 3 .. p - 1 : Line[i] # Blank
    BY <1>1, <1>3, <1>4, <2>1, <2>2
  <2>4. 3 \in Nat \ {0}
    OBVIOUS
  <2> HIDE DEF p
  <2>5. sp2 = p
    BY <1>2, <2>2, <2>3, <2>4, FindToken, Zenon DEF n
  <2>6. QED
    BY <2>5 DEF p
<1>8. ExtractMethodToken(Raw) =
        IF sp2 # 0 /\ n > sp2 + 1 /\ Line[sp2 + 1] = "HTTP/" THEN Before(Line, 2) ELSE <<>>
  <2>1. Find(Raw, <<CRLF>>, 1) = n + 1 /\ Before(Raw, n + 1) = Line
    BY LineCutOff DEF n
  <2>2. n + 1 # 0 /\ 2 + 1 = 3 /\ 2 > 1
    BY <1>4
  <2> HIDE DEF sp2
  <2>3. QED
    BY <1>5, <2>1, <2>2, Zenon DEF ExtractMethodToken, sp2, n
<1>9. Before(Line, 2) = <<message.method>>
  <2>1. Before(Line, 2) = SubSeq(Line, 1, 1)
    BY DEF Before
  <2> DEFINE r == SubSeq(Line, 1, 1)
  <2>2. r \in Seq(Tokens) /\ Len(r) = 1 /\ r[1] = message.method
    <3>1. \A i \in 1 .. 1 : Line[i] \in Tokens
      BY <1>1, <1>2
    <3>2. /\ r \in Seq(Tokens) /\ Len(r) = (IF 1 <= 1 THEN 1 - 1 + 1 ELSE 0)
          /\ \A i \in 1 .. 1 - 1 + 1 : r[i] = Line[1 + i - 1]
      BY <1>2, <3>1, SubSeqProperties
    <3> HIDE DEF r
    <3>3. QED
      BY <1>1, <3>2
  <2> HIDE DEF r
  <2>3. r = <<message.method>>
    BY <1>2, <2>2, SeqEqual
  <2>4. QED
    BY <2>1, <2>3 DEF r
<1> HIDE DEF sp2
<1>10. QED
  <2>1. CASE message.version = "none"
    BY <1>6, <1>8, <2>1
  <2>2. CASE message.version = "bare"
    <3>1. n = L + 4 /\ sp2 = L + 3
      BY <1>1, <1>7, <2>2
    <3>2. ~(n > sp2 + 1)
      BY <1>1, <3>1
    <3>3. QED
      BY <1>8, <2>2, <3>2
  <2>3. CASE message.version = "full"
    <3>1. n = L + 5 /\ sp2 = L + 3
      BY <1>1, <1>7, <2>3
    <3>2. sp2 # 0 /\ n > sp2 + 1 /\ sp2 + 1 = L + 4 /\ Line[L + 4] = "HTTP/"
      BY <1>1, <2>3, <3>1
    <3>3. QED
      BY <1>8, <1>9, <2>3, <3>2
  <2>4. QED
    BY <1>2, <2>1, <2>2, <2>3

\* The method that parse() settles on, by its place in the order it tries them.
Starts == [m \in 1 .. 3 |-> FindMethod(Raw, Methods[m])]
Chosen == SelectInSeq(Starts, LAMBDA i : i # 0)

LEMMA ChosenFacts ==
    ASSUME Shaped, Composed, ~Misleading
    PROVE  IF Taken # {}
           THEN /\ Chosen \in 1 .. 3 /\ Taken = {Methods[Chosen]} /\ Starts[Chosen] = 1
                /\ message.method \in EndingIn[Methods[Chosen]] /\ Target[1] = "/"
           ELSE Chosen = 0
<1>1. \A k \in 1 .. 3 : Starts[k] = IF message.method \in EndingIn[Methods[k]] /\ Target[1] = "/"
                                    THEN 1 ELSE 0
  BY StartFound DEF Starts
<1>2. Len(Starts) = 3
  BY DEF Starts
<1> DEFINE I == {i \in 1 .. 3 : Starts[i] # 0}
<1>3. Chosen = IF I # {} THEN Min(I) ELSE 0
  BY <1>2, Zenon DEF Chosen, SelectInSeq
<1>4. I \subseteq Nat
  OBVIOUS
<1>5. Methods \in Seq({"GET", "POST", "HEAD"}) /\ DOMAIN Methods = 1 .. 3
  BY DEF Methods
<1>6. ToSet(Methods) = {Methods[k] : k \in 1 .. 3}
  BY <1>5 DEF ToSet
<1>7. CASE Taken # {}
  <2>1. PICK k \in 1 .. 3 : message.method \in EndingIn[Methods[k]] /\ Target[1] = "/"
    BY <1>6, <1>7 DEF Taken
  <2>2. \A j \in 1 .. 3 : message.method \in EndingIn[Methods[j]] => j = k
    BY <2>1, MethodFacts
  <2>3. I = {k}
    BY <1>1, <2>1, <2>2
  <2>4. Min(I) \in I
    BY <1>4, <2>3, HasMinimum
  <2>5. Chosen = k
    BY <1>3, <2>3, <2>4
  <2>6. Taken = {Methods[k]}
    BY <1>6, <2>1, <2>2 DEF Taken
  <2>7. QED
    BY <1>1, <1>7, <2>1, <2>5, <2>6
<1>8. CASE Taken = {}
  <2>1. I = {}
    BY <1>1, <1>6, <1>8 DEF Taken
  <2>2. QED
    BY <1>3, <1>8, <2>1
<1>9. QED
  BY <1>7, <1>8

\* What parse() makes of the request: the method its word ends in, if it does
\* so before a path and there is a version, and else what the first line says.
LEMMA ParseFacts ==
    ASSUME Shaped, Composed, ~Misleading
    PROVE  IF Taken # {} /\ message.version # "none"
           THEN Parse(Raw).ok /\ Taken = {Methods[Chosen]} /\ Parse(Raw).method = <<Methods[Chosen]>>
           ELSE Parse(Raw) = Unparsed(Raw)
<1> DEFINE start == Starts[Chosen]
           end == Find(Raw, Version, start)
           target == SubSeq(Raw, start + (IF Chosen = 3 THEN 2 ELSE 3), end - 1)
           qmark == Find(target, <<"?">>, 1)
           path == Normalize(IF qmark = 0 THEN target ELSE Before(target, qmark))
           query == IF qmark = 0 THEN <<>> ELSE After(target, qmark)
<1>1. Parse(Raw) = IF Chosen = 0 THEN Unparsed(Raw) ELSE IF end = 0 THEN Unversioned(Raw, Chosen)
                   ELSE [ok |-> TRUE, method |-> <<Methods[Chosen]>>, path |-> path, query |-> query]
  BY Zenon DEF Parse, Chosen, Starts
<1> HIDE DEF path, query
<1>2. Taken # {} => Chosen # 0 /\ Taken = {Methods[Chosen]} /\ start = 1
  BY ChosenFacts
<1>3. Taken = {} => Chosen = 0
  BY ChosenFacts
<1> HIDE DEF start
<1>4. Taken # {} => end = IF message.version = "none" THEN 0 ELSE Len(Target) + 3
  BY <1>2, EndFound
<1>5. Len(Target) + 3 # 0
  BY LineInRaw
<1> HIDE DEF end
<1>6. CASE Taken # {} /\ message.version # "none"
  BY <1>1, <1>2, <1>4, <1>5, <1>6
<1>7. CASE Taken # {} /\ message.version = "none"
  BY <1>1, <1>2, <1>4, <1>7 DEF Unversioned
<1>8. CASE Taken = {}
  BY <1>1, <1>3, <1>8
<1>9. QED
  BY <1>6, <1>7, <1>8

\* How dispatch() answers is decided by the request line alone
\* (http/request.h:25-29), for requests with any number of headers and of
\* any length, unless something after that line reads like a request line:
\* a word that ends in a supported method is served as that method before a path
\* with a version, in any other well-formed line a method is answered 405, and a
\* line that is not well-formed 400.
THEOREM RequestLineAlwaysDecides == TextSpec => []RequestLineDecides
<1>1. ASSUME Shaped, Composed, ~Misleading
      PROVE  RequestLineDecides
  <2> DEFINE parsed == Parse(Raw)
             v == message.version
  <2>1. v \in {"none", "bare", "full"}
    BY <1>1, SentAssumption DEF Shaped, Composed
  <2>2. IF Taken # {} /\ v # "none"
        THEN parsed.ok /\ \A m \in Taken : parsed.method = <<m>>
        ELSE parsed = Unparsed(Raw)
    BY <1>1, ParseFacts
  <2>3. Unparsed(Raw).ok = FALSE
        /\ Unparsed(Raw).method = IF v = "full" THEN <<message.method>> ELSE <<>>
    BY <1>1, FirstWord DEF Unparsed
  <2>4. Verdict(Raw) = CASE parsed.ok -> "served"
                         [] ~parsed.ok /\ parsed.method # <<>> -> "405"
                         [] OTHER -> "400"
    BY Zenon DEF Verdict
  <2>5. <<message.method>> # <<>>
    OBVIOUS
  <2> HIDE DEF parsed
  <2>6. CASE Taken # {} /\ v # "none"
    <3>1. Verdict(Raw) = "served"
      BY <2>2, <2>4, <2>6
    <3>2. QED
      BY <2>1, <2>2, <2>6, <3>1 DEF RequestLineDecides, parsed
  <2>7. CASE v = "none"
    <3>1. Verdict(Raw) = "400"
      BY <2>2, <2>3, <2>4, <2>7
    <3>2. QED
      BY <2>7, <3>1 DEF RequestLineDecides
  <2>8. CASE v = "bare" /\ Taken = {}
    <3>1. Verdict(Raw) = "400"
      BY <2>2, <2>3, <2>4, <2>8
    <3>2. QED
      BY <2>8, <3>1 DEF RequestLineDecides
  <2>9. CASE v = "full" /\ Taken = {}
    <3>1. Verdict(Raw) = "405" /\ parsed.method = <<message.method>>
      BY <2>2, <2>3, <2>4, <2>5, <2>9
    <3>2. QED
      BY <2>9, <3>1 DEF RequestLineDecides, parsed
  <2>10. QED
    BY <2>1, <2>6, <2>7, <2>8, <2>9
<1>2. Shaped => RequestLineDecides
  BY <1>1 DEF RequestLineDecides
<1>3. QED
  BY <1>2, RequestsAreShaped, PTL
-----------------------------------------------------------------------------
(* Percent escapes: what is escaped comes back from both readers. *)

\* The bytes that PercentEncode() leaves as they are, and the escape of one.
Plain == Letters \ {PlusSign, 47}
Escape(b, upper) ==
    IF b \in Plain THEN <<b>>
    ELSE <<PercentSign, HexDigit(b \div 16, upper), HexDigit(b % 16, upper)>>

LEMMA HexFacts ==
    ASSUME NEW n \in 0 .. 15, NEW upper \in BOOLEAN
    PROVE  /\ HexDigit(n, upper) \in Bytes
           /\ HexVal(HexDigit(n, upper)) = n
           /\ HexDigit(n, upper) \notin LineEnds \cup Whitespace \cup {PlusSign, MinusSign}
<1>1. CASE n < 10
  BY <1>1, SMT DEF HexDigit, HexVal, Bytes, LineEnds, Whitespace, PlusSign, MinusSign
<1>2. CASE n >= 10 /\ upper
  BY <1>2, SMT DEF HexDigit, HexVal, Bytes, LineEnds, Whitespace, PlusSign, MinusSign
<1>3. CASE n >= 10 /\ ~upper
  BY <1>3, SMT DEF HexDigit, HexVal, Bytes, LineEnds, Whitespace, PlusSign, MinusSign
<1>4. QED
  BY <1>1, <1>2, <1>3, SMT

LEMMA PlainFacts ==
    ASSUME NEW b \in Plain
    PROVE  b \in Bytes /\ b # PercentSign /\ b # PlusSign /\ b \notin LineEnds
<1>1. PICK s \in 0 .. 63 : b = Letter(s)
  BY SMT DEF Plain, Letters
<1>2. b # PlusSign
  BY DEF Plain
<1>3. b \in Bytes /\ b # PercentSign /\ b \notin LineEnds
  BY <1>1, SMT DEF Letter, Bytes, PercentSign, LineEnds
<1>4. QED
  BY <1>2, <1>3

\* What both readers make of an escape.
LEMMA EscapeFacts ==
    ASSUME NEW b \in Bytes, NEW upper \in BOOLEAN, b \notin Plain, NEW left
    PROVE  LET h == HexDigit(b \div 16, upper)
               l == HexDigit(b % 16, upper)
           IN  /\ Escape(b, upper) = <<PercentSign, h, l>>
               /\ h \in Bytes \ LineEnds /\ l \in Bytes \ LineEnds
               /\ HexVal(h) \in Nat /\ HexVal(l) \in Nat
               /\ 16 * HexVal(h) + HexVal(l) = b
               /\ StreamHex(h, l, left) = b
<1> DEFINE h == HexDigit(b \div 16, upper)
           l == HexDigit(b % 16, upper)
<1>1. b \div 16 \in 0 .. 15 /\ b % 16 \in 0 .. 15 /\ 16 * (b \div 16) + (b % 16) = b
  BY SMT DEF Bytes
<1>2. h \in Bytes /\ l \in Bytes /\ HexVal(h) = b \div 16 /\ HexVal(l) = b % 16
      /\ h \notin LineEnds \cup Whitespace \cup {PlusSign, MinusSign}
      /\ l \notin LineEnds \cup Whitespace \cup {PlusSign, MinusSign}
  BY <1>1, HexFacts, Zenon
<1> HIDE DEF h, l
<1>3. HexVal(h) \in Nat /\ HexVal(l) \in Nat /\ 16 * HexVal(h) + HexVal(l) = b
  BY <1>1, <1>2, SMT
<1>4. StreamHex(h, l, left) = b
  <2>1. h \notin Whitespace \cup {PlusSign} /\ h # MinusSign
    BY <1>2, Zenon
  <2>2. StreamHex(h, l, left) = 16 * HexVal(h) + HexVal(l)
    BY <1>3, <2>1, SMT DEF StreamHex
  <2>3. QED
    BY <1>3, <2>2
<1>5. Escape(b, upper) = <<PercentSign, h, l>>
  BY DEF Escape, h, l
<1>6. QED
  BY <1>2, <1>3, <1>4, <1>5, Zenon DEF h, l

\* A function that is given at each position by its value at a later one.
Forward(N, stop, next) == \A i \in 1 .. N : i \notin stop => next[i] \in i + 1 .. N
IsBackward(f, S, N, base, stop, next, g) ==
    /\ f \in [1 .. N -> S]
    /\ \A i \in 1 .. N : f[i] = IF i \in stop THEN base ELSE g[i][f[next[i]]]

\* A function defined backwards over the positions of a text exists: TLA+ has
\* CHOOSE of it, and says nothing of it otherwise.
LEMMA BackwardExists ==
    ASSUME NEW S, NEW N \in Nat, NEW base \in S, NEW stop, NEW next, NEW g,
           \A i \in 1 .. N : g[i] \in [S -> S], Forward(N, stop, next)
    PROVE  \E f : IsBackward(f, S, N, base, stop, next, g)
<1>0. \A i \in 1 .. N : i \notin stop => next[i] \in i + 1 .. N
  BY DEF Forward
<1> DEFINE Onward(f, m) ==
              \A i \in m .. N : f[i] \in S /\ f[i] = IF i \in stop THEN base ELSE g[i][f[next[i]]]
           T == {m \in Nat : m <= N => \E f : Onward(f, N - m + 1)}
<1>1. 0 \in T
  <2>1. \A i \in N - 0 + 1 .. N : FALSE
    OBVIOUS
  <2>2. QED
    BY <2>1
<1>2. ASSUME NEW m \in Nat, m \in T
      PROVE  m + 1 \in T
  <2>1. SUFFICES ASSUME m + 1 <= N
                 PROVE  \E f : Onward(f, N - (m + 1) + 1)
    OBVIOUS
  <2> DEFINE k == N - m
  <2>2. k \in 1 .. N /\ N - m + 1 = k + 1 /\ N - (m + 1) + 1 = k
    BY <2>1
  <2>3. PICK f : Onward(f, k + 1)
    BY <1>2, <2>1, <2>2
  <2> HIDE DEF k
  <2> DEFINE v == IF k \in stop THEN base ELSE g[k][f[next[k]]]
             h == [i \in k .. N |-> IF i = k THEN v ELSE f[i]]
  <2>4. v \in S
    <3>1. CASE k \in stop
      BY <3>1
    <3>2. CASE k \notin stop
      <4>1. next[k] \in k + 1 .. N
        BY <1>0, <2>2, <3>2
      <4>2. f[next[k]] \in S /\ g[k] \in [S -> S]
        BY <2>2, <2>3, <4>1
      <4>3. QED
        BY <3>2, <4>2
    <3>3. QED
      BY <3>1, <3>2
  <2>5. \A i \in k + 1 .. N : i \in k .. N /\ i # k /\ i \in 1 .. N
    BY <2>2
  <2>6. h[k] = v /\ \A i \in k + 1 .. N : h[i] = f[i]
    <3>1. k \in k .. N
      BY <2>2
    <3> HIDE DEF v
    <3>2. QED
      BY <2>5, <3>1
  <2> HIDE DEF h
  <2>7. ASSUME NEW i \in k .. N
        PROVE  h[i] \in S /\ h[i] = IF i \in stop THEN base ELSE g[i][h[next[i]]]
    <3>1. i \in 1 .. N /\ (i # k => i \in k + 1 .. N)
      BY <2>2
    <3>2. i \notin stop => h[next[i]] = f[next[i]]
      <4>1. SUFFICES ASSUME i \notin stop
                     PROVE  h[next[i]] = f[next[i]]
        OBVIOUS
      <4>2. next[i] \in i + 1 .. N
        BY <1>0, <3>1, <4>1
      <4>3. next[i] \in k + 1 .. N
        BY <2>2, <3>1, <4>2
      <4>4. QED
        BY <2>6, <4>3
    <3>3. CASE i = k
      BY <2>4, <2>6, <3>2, <3>3
    <3>4. CASE i # k
      <4>1. h[i] = f[i] /\ f[i] \in S /\ f[i] = IF i \in stop THEN base ELSE g[i][f[next[i]]]
        BY <2>3, <2>6, <3>1, <3>4
      <4>2. QED
        BY <3>2, <4>1
    <3>5. QED
      BY <3>3, <3>4
  <2>8. QED
    BY <2>2, <2>7
<1> HIDE DEF T
<1>3. N \in T
  BY <1>1, <1>2, NatInductive
<1>4. PICK f : Onward(f, 1)
  <2>1. N - N + 1 = 1 /\ N <= N
    OBVIOUS
  <2>2. QED
    BY <1>3, <2>1 DEF T
<1>5. [i \in 1 .. N |-> f[i]] \in [1 .. N -> S]
  BY <1>4
<1> DEFINE h == [i \in 1 .. N |-> f[i]]
<1>6. \A i \in 1 .. N : h[i] = f[i]
  OBVIOUS
<1> HIDE DEF h
<1>7. ASSUME NEW i \in 1 .. N
      PROVE  h[i] = IF i \in stop THEN base ELSE g[i][h[next[i]]]
  <2>1. f[i] = IF i \in stop THEN base ELSE g[i][f[next[i]]]
    BY <1>4
  <2>2. i \notin stop => next[i] \in 1 .. N
    <3>1. \A j \in i + 1 .. N : j \in 1 .. N
      OBVIOUS
    <3>2. QED
      BY <1>0, <3>1
  <2>3. i \notin stop => h[next[i]] = f[next[i]]
    BY <1>6, <2>2
  <2>4. QED
    BY <1>6, <2>1, <2>3
<1>8. IsBackward(h, S, N, base, stop, next, g)
  BY <1>5, <1>7 DEF h, IsBackward
<1>9. QED
  BY <1>8

\* What a text continues as, behind one of its tokens.
LEMMA ConsSubSeq ==
    ASSUME NEW S, NEW text \in Seq(S), NEW i \in 1 .. Len(text)
    PROVE  <<text[i]>> \o SubSeq(text, i + 1, Len(text)) = SubSeq(text, i, Len(text))
<1> DEFINE n == Len(text)
           a == <<text[i]>>
           b == SubSeq(text, i + 1, n)
           c == SubSeq(text, i, n)
<1>1. n \in Nat /\ \A j \in 1 .. n : text[j] \in S
  BY LenProperties, ElementOfSeq
<1>2. a \in Seq(S) /\ Len(a) = 1 /\ a[1] = text[i]
  BY <1>1
<1>3. /\ b \in Seq(S) /\ Len(b) = n - i
      /\ \A j \in 1 .. n - i : b[j] = text[i + j]
  <2> DEFINE m == i + 1
  <2>1. m \in Int /\ n \in Int /\ \A j \in m .. n : text[j] \in S
    BY <1>1
  <2> HIDE DEF m, n
  <2>2. /\ SubSeq(text, m, n) \in Seq(S)
        /\ Len(SubSeq(text, m, n)) = IF m <= n THEN n - m + 1 ELSE 0
        /\ \A j \in 1 .. n - m + 1 : SubSeq(text, m, n)[j] = text[m + j - 1]
    BY <2>1, SubSeqProperties
  <2>3. i \in 1 .. n
    BY DEF n
  <2>4. n - m + 1 = n - i /\ \A j \in 1 .. n - i : m + j - 1 = i + j
    BY <2>1, <2>3 DEF m
  <2>5. (IF m <= n THEN n - m + 1 ELSE 0) = n - i
    BY <2>1, <2>3 DEF m
  <2>6. QED
    BY <2>2, <2>4, <2>5 DEF m
<1>4. /\ c \in Seq(S) /\ Len(c) = n - i + 1
      /\ \A j \in 1 .. n - i + 1 : c[j] = text[i + j - 1]
  <2>1. i \in Int /\ n \in Int /\ \A j \in i .. n : text[j] \in S
    BY <1>1
  <2>2. i \in 1 .. n
    BY DEF n
  <2> HIDE DEF n
  <2>3. /\ SubSeq(text, i, n) \in Seq(S)
        /\ Len(SubSeq(text, i, n)) = IF i <= n THEN n - i + 1 ELSE 0
        /\ \A j \in 1 .. n - i + 1 : SubSeq(text, i, n)[j] = text[i + j - 1]
    BY <2>1, SubSeqProperties
  <2>4. QED
    BY <2>1, <2>2, <2>3
<1> HIDE DEF a, b, c
<1>5. a \o b \in Seq(S) /\ Joins(a \o b, a, b)
  BY <1>2, <1>3, JoinFacts, Zenon
<1> DEFINE d == a \o b
<1> HIDE DEF d
<1>6. d \in Seq(S) /\ Joins(d, a, b)
  BY <1>5 DEF d
<1>7. i \in 1 .. n
  BY DEF n
<1> HIDE DEF n
<1>8. Len(d) = Len(c)
  BY <1>1, <1>2, <1>3, <1>4, <1>6, <1>7 DEF Joins
<1>9. ASSUME NEW j \in 1 .. n - i + 1
      PROVE  d[j] = c[j]
  <2>1. CASE j = 1
    BY <1>1, <1>2, <1>4, <1>6, <1>7, <2>1 DEF Joins
  <2>2. CASE j # 1
    <3>1. j - 1 \in 1 .. n - i /\ 1 + (j - 1) = j /\ i + (j - 1) = i + j - 1
      BY <1>1, <1>7, <2>2
    <3>2. d[1 + (j - 1)] = b[j - 1]
      BY <1>2, <1>3, <1>6, <3>1 DEF Joins
    <3>3. QED
      BY <1>3, <1>4, <3>1, <3>2
  <2>3. QED
    BY <2>1, <2>2
<1>10. d = c
  BY <1>4, <1>6, <1>8, <1>9, SeqEqual
<1>11. QED
  BY <1>10 DEF a, b, c, d, n

\* Where the texts of a sequence of texts begin in their concatenation.
Cuts(pos, seqs, whole) ==
    /\ pos[1] = 1 /\ pos[Len(seqs) + 1] = Len(whole) + 1
    /\ \A i \in 1 .. Len(seqs) :
          /\ pos[i] \in Nat \ {0} /\ Len(seqs[i]) \in Nat
          /\ pos[i + 1] = pos[i] + Len(seqs[i]) /\ pos[i + 1] <= Len(whole) + 1
          /\ \A k \in 1 .. Len(seqs[i]) : whole[pos[i] + k - 1] = seqs[i][k]

LEMMA FlattenCuts ==
    ASSUME NEW S, NEW seqs \in Seq(Seq(S))
    PROVE  \E pos : Cuts(pos, seqs, FlattenSeq(seqs))
<1> DEFINE n == Len(seqs)
           W == FlattenSeq(seqs)
<1>1. n \in Nat /\ \A i \in 1 .. n : seqs[i] \in Seq(S) /\ Len(seqs[i]) \in Nat
  BY LenProperties, ElementOfSeq
<1>2. PICK f : /\ \A i \in 1 .. n : f[i] = IF i = 1 THEN seqs[i] ELSE f[i - 1] \o seqs[i]
               /\ W = IF n = 0 THEN seqs ELSE f[n]
  BY <1>1, FlattenFacts
<1> DEFINE pos == [i \in 1 .. n + 1 |-> IF i = 1 THEN 1 ELSE Len(f[i - 1]) + 1]
           Good(m) == /\ f[m] \in Seq(S)
                      /\ pos[m + 1] = pos[m] + Len(seqs[m])
                      /\ \A i \in 1 .. m :
                           /\ pos[i] \in Nat \ {0}
                           /\ pos[i + 1] = pos[i] + Len(seqs[i]) /\ pos[i + 1] <= Len(f[m]) + 1
                           /\ \A k \in 1 .. Len(seqs[i]) : f[m][pos[i] + k - 1] = seqs[i][k]
           T == {m \in Nat : m \in 1 .. n => Good(m)}
<1>3. /\ pos[1] = 1
      /\ \A i \in 1 .. n : pos[i + 1] = Len(f[i]) + 1
  <2>1. 1 \in 1 .. n + 1
    BY <1>1
  <2>2. \A i \in 1 .. n : i + 1 \in 1 .. n + 1 /\ i + 1 # 1 /\ (i + 1) - 1 = i
    BY <1>1
  <2> HIDE DEF n
  <2>3. QED
    BY <2>1, <2>2
<1> HIDE DEF n, W, pos
<1>4. 0 \in T
  OBVIOUS
<1>5. ASSUME NEW m \in Nat, m \in T
      PROVE  m + 1 \in T
  <2>1. SUFFICES ASSUME m + 1 \in 1 .. n
                 PROVE  Good(m + 1)
    OBVIOUS
  <2>2. CASE m = 0
    <3>1. 1 \in 1 .. n
      BY <2>1, <2>2
    <3>2. f[1] = seqs[1] /\ seqs[1] \in Seq(S) /\ Len(seqs[1]) \in Nat
      BY <1>1, <1>2, <3>1
    <3>3. pos[1] = 1 /\ pos[1 + 1] = pos[1] + Len(seqs[1])
      BY <1>3, <3>1, <3>2
    <3>4. \A k \in 1 .. Len(seqs[1]) : 1 + k - 1 = k
      BY <3>2
    <3>5. Good(1)
      BY <3>2, <3>3, <3>4
    <3>6. QED
      BY <2>2, <3>5
  <2>3. CASE m # 0
    <3> DEFINE a == f[m]
               b == seqs[m + 1]
               c == f[m + 1]
    <3>1. m \in 1 .. n /\ m + 1 # 1 /\ (m + 1) - 1 = m
      BY <2>1, <2>3, <1>1
    <3>2. Good(m)
      BY <1>5, <3>1
    <3>3. c = a \o b /\ a \in Seq(S) /\ b \in Seq(S)
      BY <1>1, <1>2, <2>1, <3>1, <3>2
    <3> HIDE DEF a, b, c
    <3>4. c \in Seq(S) /\ Joins(c, a, b)
      BY <3>3, JoinFacts, Zenon
    <3>5. /\ Len(a) \in Nat /\ Len(b) \in Nat /\ Len(c) = Len(a) + Len(b)
          /\ \A i \in 1 .. Len(a) : c[i] = a[i]
          /\ \A i \in 1 .. Len(b) : c[Len(a) + i] = b[i]
      BY <3>4 DEF Joins
    <3>6. pos[m + 1] = Len(a) + 1 /\ pos[(m + 1) + 1] = Len(c) + 1
      BY <1>3, <2>1, <3>1 DEF a, c
    <3>7. pos[(m + 1) + 1] = pos[m + 1] + Len(b)
      BY <3>5, <3>6
    <3>8. ASSUME NEW i \in 1 .. m
          PROVE  /\ pos[i] \in Nat \ {0}
                 /\ pos[i + 1] = pos[i] + Len(seqs[i]) /\ pos[i + 1] <= Len(c) + 1
                 /\ \A k \in 1 .. Len(seqs[i]) : c[pos[i] + k - 1] = seqs[i][k]
      <4> DEFINE p == pos[i]
                 q == pos[i + 1]
                 s == seqs[i]
      <4>1. /\ p \in Nat \ {0} /\ q = p + Len(s) /\ q <= Len(a) + 1
            /\ \A k \in 1 .. Len(s) : a[p + k - 1] = s[k]
        BY <3>2 DEF a
      <4>2. Len(s) \in Nat
        BY <1>1, <3>1
      <4> HIDE DEF p, q, s
      <4>3. \A k \in 1 .. Len(s) : p + k - 1 \in 1 .. Len(a)
        BY <3>5, <4>1, <4>2
      <4>4. \A k \in 1 .. Len(s) : c[p + k - 1] = s[k]
        BY <3>5, <4>1, <4>3
      <4>5. q <= Len(c) + 1
        BY <3>5, <4>1, <4>2
      <4>6. QED
        BY <4>1, <4>4, <4>5 DEF p, q, s
    <3>9. /\ pos[m + 1] \in Nat \ {0} /\ pos[(m + 1) + 1] <= Len(c) + 1
          /\ \A k \in 1 .. Len(b) : c[pos[m + 1] + k - 1] = b[k]
      <4>1. \A k \in 1 .. Len(b) : (Len(a) + 1) + k - 1 = Len(a) + k
        BY <3>5
      <4>2. \A k \in 1 .. Len(b) : c[pos[m + 1] + k - 1] = b[k]
        BY <3>5, <3>6, <4>1
      <4>3. QED
        BY <3>5, <3>6, <4>2
    <3>10. \A i \in 1 .. m + 1 : i \in 1 .. m \/ i = m + 1
      OBVIOUS
    <3> DEFINE Fine(i) == /\ pos[i] \in Nat \ {0}
                          /\ pos[i + 1] = pos[i] + Len(seqs[i]) /\ pos[i + 1] <= Len(c) + 1
                          /\ \A k \in 1 .. Len(seqs[i]) : c[pos[i] + k - 1] = seqs[i][k]
    <3>11. \A i \in 1 .. m : Fine(i)
      BY <3>8
    <3>12. Fine(m + 1)
      BY <3>7, <3>9 DEF b
    <3> HIDE DEF Fine
    <3>13. \A i \in 1 .. m + 1 : Fine(i)
      BY <3>10, <3>11, <3>12
    <3>14. QED
      BY <3>4, <3>7, <3>13, Zenon DEF Fine, b, c
  <2>4. QED
    BY <2>2, <2>3
<1> HIDE DEF T
<1>6. \A m \in Nat : m \in T
  BY <1>4, <1>5, NatInductive
<1>7. CASE n = 0
  <2>1. W = <<>> /\ seqs = <<>>
    BY <1>2, <1>7, EmptySeq DEF n
  <2>2. Len(seqs) = 0 /\ Len(W) = 0
    BY <2>1
  <2>3. Cuts(pos, seqs, W)
    BY <1>3, <2>2 DEF Cuts
  <2>4. QED
    BY <2>3 DEF W
<1>8. CASE n # 0
  <2>1. n \in 1 .. n
    BY <1>1, <1>8
  <2>2. Good(n)
    BY <1>1, <1>6, <2>1 DEF T
  <2>3. W = f[n] /\ pos[n + 1] = Len(f[n]) + 1
    BY <1>2, <1>3, <1>8, <2>1
  <2>4. Cuts(pos, seqs, W)
    <3>1. pos[1] = 1 /\ pos[n + 1] = Len(W) + 1
      BY <1>3, <2>3
    <3>2. \A i \in 1 .. n : Len(seqs[i]) \in Nat
      BY <1>1
    <3>3. QED
      BY <2>2, <2>3, <3>1, <3>2, Zenon DEF Cuts, n
  <2>5. QED
    BY <2>4 DEF W
<1>9. QED
  BY <1>7, <1>8

\* Reading a text piece by piece gives what the pieces stand for.
LEMMA WalkBack ==
    ASSUME NEW S, NEW text \in Seq(S), NEW f, NEW pos,
           f[pos[Len(text) + 1]] = <<>>,
           \A i \in 1 .. Len(text) : f[pos[i]] = <<text[i]>> \o f[pos[i + 1]]
    PROVE  f[pos[1]] = text
<1> DEFINE n == Len(text)
           T == {m \in Nat : m <= n => f[pos[n + 1 - m]] = SubSeq(text, n + 1 - m, n)}
<1>1. n \in Nat
  BY LenProperties
<1>2. 0 \in T
  <2>1. n + 1 - 0 = n + 1
    BY <1>1
  <2>2. SubSeq(text, n + 1, n) = <<>>
    <3>1. n + 1 > n
      BY <1>1
    <3> HIDE DEF n
    <3>2. QED
      BY <1>1, <3>1
  <2>3. QED
    BY <2>1, <2>2
<1>3. ASSUME NEW m \in Nat, m \in T
      PROVE  m + 1 \in T
  <2>1. SUFFICES ASSUME m + 1 <= n
                 PROVE  f[pos[n + 1 - (m + 1)]] = SubSeq(text, n + 1 - (m + 1), n)
    OBVIOUS
  <2> DEFINE i == n - m
  <2>2. i \in 1 .. n /\ n + 1 - (m + 1) = i /\ n + 1 - m = i + 1
    BY <1>1, <2>1
  <2>3. f[pos[i + 1]] = SubSeq(text, i + 1, n)
    BY <1>1, <1>3, <2>1, <2>2
  <2> HIDE DEF i
  <2>4. f[pos[i]] = <<text[i]>> \o SubSeq(text, i + 1, n)
    BY <2>2, <2>3
  <2>5. f[pos[i]] = SubSeq(text, i, n)
    BY <2>2, <2>4, ConsSubSeq
  <2>6. QED
    BY <2>2, <2>5
<1> HIDE DEF T
<1>4. n \in T
  BY <1>1, <1>2, <1>3, NatInductive
<1>5. f[pos[1]] = SubSeq(text, 1, n)
  <2>1. n + 1 - n = 1 /\ n <= n
    BY <1>1
  <2>2. QED
    BY <1>4, <2>1 DEF T
<1>6. SubSeq(text, 1, n) = text
  <2>1. \A i \in 1 .. n : text[i] \in S
    BY ElementOfSeq
  <2>2. 1 \in Int /\ n \in Int
    BY <1>1
  <2> DEFINE r == SubSeq(text, 1, n)
  <2> HIDE DEF n
  <2>3. /\ r \in Seq(S) /\ Len(r) = IF 1 <= n THEN n - 1 + 1 ELSE 0
        /\ \A i \in 1 .. n - 1 + 1 : r[i] = text[1 + i - 1]
    BY <2>1, <2>2, SubSeqProperties
  <2> HIDE DEF r
  <2>4. Len(r) = n /\ \A i \in 1 .. n : r[i] = text[i]
    BY <1>1, <2>3
  <2>5. r = text
    BY <2>3, <2>4, SeqEqual DEF n
  <2>6. QED
    BY <2>5 DEF r
<1>7. QED
  BY <1>5, <1>6

\* And counting the pieces gives their number.
LEMMA CountBack ==
    ASSUME NEW n \in Nat, NEW f, NEW pos, f[pos[n + 1]] = 0,
           \A i \in 1 .. n : f[pos[i]] = 1 + f[pos[i + 1]]
    PROVE  f[pos[1]] = n
<1> DEFINE T == {m \in Nat : m <= n => f[pos[n + 1 - m]] = m}
<1>1. 0 \in T
  <2>1. n + 1 - 0 = n + 1
    OBVIOUS
  <2>2. QED
    BY <2>1
<1>2. ASSUME NEW m \in Nat, m \in T
      PROVE  m + 1 \in T
  <2>1. SUFFICES ASSUME m + 1 <= n
                 PROVE  f[pos[n + 1 - (m + 1)]] = m + 1
    OBVIOUS
  <2> DEFINE i == n - m
  <2>2. i \in 1 .. n /\ n + 1 - (m + 1) = i /\ n + 1 - m = i + 1
    BY <2>1
  <2>3. f[pos[i + 1]] = m
    BY <1>2, <2>1, <2>2
  <2> HIDE DEF i
  <2>4. f[pos[i]] = 1 + m
    BY <2>2, <2>3
  <2>5. QED
    BY <2>2, <2>4
<1> HIDE DEF T
<1>3. n \in T
  BY <1>1, <1>2, NatInductive
<1>4. n + 1 - n = 1 /\ n <= n
  OBVIOUS
<1>5. QED
  BY <1>3, <1>4 DEF T

\* The shape of a decoder: at every position it emits something and goes on
\* some way further.
IsDecoder(f, N, stop, next, v) ==
    f = [i \in 1 .. N |-> IF i \in stop THEN <<>> ELSE <<v[i]>> \o f[next[i]]]

LEMMA DecoderExists ==
    ASSUME NEW N \in Nat, NEW stop, NEW next, NEW v, Forward(N, stop, next)
    PROVE  \E f : IsDecoder(f, N, stop, next, v)
<1> DEFINE V == {v[i] : i \in 1 .. N}
           S == Seq(V)
           g == [i \in 1 .. N |-> [x \in S |-> <<v[i]>> \o x]]
<1>1. ASSUME NEW i \in 1 .. N
      PROVE  /\ g[i] \in [S -> S]
             /\ \A x \in S : g[i][x] = <<v[i]>> \o x
  <2>1. <<v[i]>> \in Seq(V)
    OBVIOUS
  <2> DEFINE a == <<v[i]>>
  <2> HIDE DEF a, V
  <2>2. \A x \in Seq(V) : a \o x \in Seq(V)
    BY <2>1 DEF a
  <2>3. g[i] = [x \in S |-> a \o x]
    BY DEF a
  <2>4. QED
    BY <2>2, <2>3 DEF a
<1>2. <<>> \in S
  OBVIOUS
<1> HIDE DEF g, S
<1> DEFINE base == <<>>
<1> HIDE DEF base
<1>3. PICK f : IsBackward(f, S, N, base, stop, next, g)
  <2>1. \A i \in 1 .. N : g[i] \in [S -> S]
    BY <1>1
  <2>2. base \in S
    BY <1>2 DEF base
  <2>3. QED
    BY <2>1, <2>2, BackwardExists, Zenon
<1> USE DEF IsBackward
<1>4. ASSUME NEW i \in 1 .. N
      PROVE  f[i] = IF i \in stop THEN <<>> ELSE <<v[i]>> \o f[next[i]]
  <2>1. CASE i \in stop
    BY <1>3, <2>1 DEF base
  <2>2. CASE i \notin stop
    <3>1. next[i] \in 1 .. N
      <4>1. \A j \in i + 1 .. N : j \in 1 .. N
        OBVIOUS
      <4>2. QED
        BY <2>2, <4>1 DEF Forward
    <3>2. f[next[i]] \in S
      BY <1>3, <3>1
    <3>3. QED
      BY <1>1, <1>3, <2>2, <3>2
  <2>3. QED
    BY <2>1, <2>2
<1>5. f = [i \in 1 .. N |-> IF i \in stop THEN <<>> ELSE <<v[i]>> \o f[next[i]]]
  <2>1. f = [i \in 1 .. N |-> f[i]]
    BY <1>3
  <2>2. QED
    BY <1>4, <2>1
<1>6. QED
  BY <1>5 DEF IsDecoder

\* url_decode() by the steps of its loop.
LEMMA UrlDecodeSteps ==
    ASSUME NEW e, Len(e) \in Nat
    PROVE  \E f : /\ UrlDecode(e) = f[1]
                  /\ f[Len(e) + 1] = <<>>
                  /\ \A i \in 1 .. Len(e) :
                        f[i] = IF e[i] = PercentSign /\ i + 2 <= Len(e)
                               THEN <<StreamHex(e[i + 1], e[i + 2], Leftover(i))>> \o f[i + 3]
                               ELSE <<IF e[i] = PlusSign THEN Space ELSE e[i]>> \o f[i + 1]
<1> DEFINE D == Len(e)
           N == D + 3
           Pct(i) == e[i] = PercentSign /\ i + 2 <= D
           F == CHOOSE f : f =
                  [i \in 1 .. N |->
                     IF i > D THEN <<>>
                     ELSE IF e[i] = PercentSign /\ i + 2 <= D
                          THEN <<StreamHex(e[i + 1], e[i + 2], Leftover(i))>> \o f[i + 3]
                     ELSE <<IF e[i] = PlusSign THEN Space ELSE e[i]>> \o f[i + 1]]
           stop == {i \in 1 .. N : i > D}
           next == [i \in 1 .. N |-> IF Pct(i) THEN i + 3 ELSE i + 1]
           v == [i \in 1 .. N |-> IF Pct(i) THEN StreamHex(e[i + 1], e[i + 2], Leftover(i))
                                  ELSE IF e[i] = PlusSign THEN Space ELSE e[i]]
<1>1. UrlDecode(e) = F[1]
  BY DEF UrlDecode
<1>2. Forward(N, stop, next)
  BY DEF Forward
<1>3. N \in Nat /\ D \in Nat
  OBVIOUS
<1>4. \E f : IsDecoder(f, N, stop, next, v)
  <2> HIDE DEF N, stop, next, v
  <2>1. QED
    BY <1>2, <1>3, DecoderExists, Zenon
<1>5. ASSUME NEW f, NEW i \in 1 .. N
      PROVE  (IF i \in stop THEN <<>> ELSE <<v[i]>> \o f[next[i]])
               = (IF i > D THEN <<>>
                  ELSE IF e[i] = PercentSign /\ i + 2 <= D
                       THEN <<StreamHex(e[i + 1], e[i + 2], Leftover(i))>> \o f[i + 3]
                  ELSE <<IF e[i] = PlusSign THEN Space ELSE e[i]>> \o f[i + 1])
  <2> HIDE DEF D, N
  <2>1. CASE i > D
    BY <2>1
  <2>2. CASE ~(i > D) /\ Pct(i)
    BY <2>2
  <2>3. CASE ~(i > D) /\ ~Pct(i)
    BY <2>3
  <2>4. QED
    BY <2>1, <2>2, <2>3
<1> HIDE DEF stop, next, v
<1>6. PICK f : IsDecoder(f, N, stop, next, v)
  BY <1>4
<1> HIDE DEF N, D
<1>7. f = [i \in 1 .. N |->
             IF i > D THEN <<>>
             ELSE IF e[i] = PercentSign /\ i + 2 <= D
                  THEN <<StreamHex(e[i + 1], e[i + 2], Leftover(i))>> \o f[i + 3]
             ELSE <<IF e[i] = PlusSign THEN Space ELSE e[i]>> \o f[i + 1]]
  BY <1>5, <1>6 DEF IsDecoder
<1>8. F = [i \in 1 .. N |->
             IF i > D THEN <<>>
             ELSE IF e[i] = PercentSign /\ i + 2 <= D
                  THEN <<StreamHex(e[i + 1], e[i + 2], Leftover(i))>> \o F[i + 3]
             ELSE <<IF e[i] = PlusSign THEN Space ELSE e[i]>> \o F[i + 1]]
  BY <1>7
<1> HIDE DEF F
<1>9. D + 1 \in 1 .. N /\ D + 1 > D /\ \A i \in 1 .. D : i \in 1 .. N /\ ~(i > D)
  BY <1>3 DEF N
<1>10. F[D + 1] = <<>>
  BY <1>8, <1>9
<1>11. ASSUME NEW i \in 1 .. D
       PROVE  F[i] = IF e[i] = PercentSign /\ i + 2 <= D
                     THEN <<StreamHex(e[i + 1], e[i + 2], Leftover(i))>> \o F[i + 3]
                     ELSE <<IF e[i] = PlusSign THEN Space ELSE e[i]>> \o F[i + 1]
  BY <1>8, <1>9
<1>12. QED
  BY <1>1, <1>10, <1>11 DEF D

\* decode_status_param() by the steps of its loop.
LEMMA DecodeStatusSteps ==
    ASSUME NEW t, Len(t) \in Nat
    PROVE  \E f : /\ DecodeStatusParam(t) = f[1]
                  /\ \A i \in 1 .. Len(t) :
                        f[i] = IF t[i] \in LineEnds THEN <<>>
                               ELSE IF /\ t[i] = PercentSign
                                       /\ HexVal(At(t, i + 1)) >= 0
                                       /\ HexVal(At(t, i + 2)) >= 0
                               THEN <<16 * HexVal(t[i + 1]) + HexVal(t[i + 2])>> \o f[i + 3]
                               ELSE <<t[i]>> \o f[i + 1]
<1> DEFINE D == Len(t)
           N == D + 3
           Pct(i) == /\ t[i] = PercentSign
                     /\ HexVal(At(t, i + 1)) >= 0
                     /\ HexVal(At(t, i + 2)) >= 0
           F == CHOOSE f : f =
                  [i \in 1 .. N |->
                     IF At(t, i) \in LineEnds THEN <<>>
                     ELSE IF Pct(i)
                          THEN <<16 * HexVal(t[i + 1]) + HexVal(t[i + 2])>> \o f[i + 3]
                     ELSE <<t[i]>> \o f[i + 1]]
           stop == {i \in 1 .. N : At(t, i) \in LineEnds}
           next == [i \in 1 .. N |-> IF Pct(i) THEN i + 3 ELSE i + 1]
           v == [i \in 1 .. N |-> IF Pct(i) THEN 16 * HexVal(t[i + 1]) + HexVal(t[i + 2]) ELSE t[i]]
<1>1. DecodeStatusParam(t) = F[1]
  BY DEF DecodeStatusParam
<1> HIDE DEF Pct
<1>2. Forward(N, stop, next)
  <2>1. \A i \in 1 .. N : i \notin stop => i <= D
    BY DEF At, LineEnds
  <2>2. ASSUME NEW i \in 1 .. N, i \notin stop
        PROVE  next[i] \in i + 1 .. N
    <3>1. next[i] = i + 3 \/ next[i] = i + 1
      OBVIOUS
    <3>2. i <= D
      BY <2>1, <2>2
    <3> HIDE DEF next, stop
    <3>3. QED
      BY <3>1, <3>2
  <2>3. QED
    BY <2>2 DEF Forward
<1>3. N \in Nat /\ D \in Nat
  OBVIOUS
<1>4. \E f : IsDecoder(f, N, stop, next, v)
  <2> HIDE DEF N, stop, next, v
  <2>1. QED
    BY <1>2, <1>3, DecoderExists, Zenon
<1>5. ASSUME NEW f, NEW i \in 1 .. N
      PROVE  (IF i \in stop THEN <<>> ELSE <<v[i]>> \o f[next[i]])
               = (IF At(t, i) \in LineEnds THEN <<>>
                  ELSE IF Pct(i)
                       THEN <<16 * HexVal(t[i + 1]) + HexVal(t[i + 2])>> \o f[i + 3]
                  ELSE <<t[i]>> \o f[i + 1])
  <2> HIDE DEF D, N
  <2>1. CASE At(t, i) \in LineEnds
    BY <2>1
  <2>2. CASE ~(At(t, i) \in LineEnds) /\ Pct(i)
    BY <2>2
  <2>3. CASE ~(At(t, i) \in LineEnds) /\ ~Pct(i)
    BY <2>3
  <2>4. QED
    BY <2>1, <2>2, <2>3
<1> HIDE DEF stop, next, v
<1>6. PICK f : IsDecoder(f, N, stop, next, v)
  BY <1>4
<1> HIDE DEF N, D
<1>7. f = [i \in 1 .. N |->
             IF At(t, i) \in LineEnds THEN <<>>
             ELSE IF Pct(i)
                  THEN <<16 * HexVal(t[i + 1]) + HexVal(t[i + 2])>> \o f[i + 3]
             ELSE <<t[i]>> \o f[i + 1]]
  BY <1>5, <1>6 DEF IsDecoder
<1>8. F = [i \in 1 .. N |->
             IF At(t, i) \in LineEnds THEN <<>>
             ELSE IF Pct(i)
                  THEN <<16 * HexVal(t[i + 1]) + HexVal(t[i + 2])>> \o F[i + 3]
             ELSE <<t[i]>> \o F[i + 1]]
  BY <1>7
<1> HIDE DEF F
<1>9. \A i \in 1 .. D : i \in 1 .. N /\ At(t, i) = t[i]
  BY <1>3 DEF N, At, D
<1>10. ASSUME NEW i \in 1 .. D
       PROVE  F[i] = IF t[i] \in LineEnds THEN <<>>
                     ELSE IF Pct(i)
                     THEN <<16 * HexVal(t[i + 1]) + HexVal(t[i + 2])>> \o F[i + 3]
                     ELSE <<t[i]>> \o F[i + 1]
  BY <1>8, <1>9
<1>11. QED
  BY <1>1, <1>10 DEF D, Pct

\* estimate_decoded_length() by the steps of its loop.
LEMMA EstimateSteps ==
    ASSUME NEW t, Len(t) \in Nat
    PROVE  \E f : /\ EstimateDecodedLength(t) = f[1]
                  /\ \A i \in 1 .. Len(t) :
                        f[i] = IF t[i] \in LineEnds THEN 0
                               ELSE 1 + f[IF t[i] = PercentSign THEN i + 3 ELSE i + 1]
<1> DEFINE D == Len(t)
           N == D + 3
           F == CHOOSE f : f =
                  [i \in 1 .. N |->
                     IF At(t, i) \in LineEnds THEN 0
                     ELSE 1 + f[IF t[i] = PercentSign THEN i + 3 ELSE i + 1]]
           stop == {i \in 1 .. N : At(t, i) \in LineEnds}
           next == [i \in 1 .. N |-> IF t[i] = PercentSign THEN i + 3 ELSE i + 1]
           g == [i \in 1 .. N |-> [x \in Nat |-> 1 + x]]
<1>1. EstimateDecodedLength(t) = F[1]
  BY DEF EstimateDecodedLength
<1>2. Forward(N, stop, next)
  <2>1. \A i \in 1 .. N : i \notin stop => i <= D
    BY DEF At, LineEnds
  <2>2. ASSUME NEW i \in 1 .. N, i \notin stop
        PROVE  next[i] \in i + 1 .. N
    <3>1. next[i] = i + 3 \/ next[i] = i + 1
      OBVIOUS
    <3>2. i <= D
      BY <2>1, <2>2
    <3> HIDE DEF next, stop
    <3>3. QED
      BY <3>1, <3>2
  <2>3. QED
    BY <2>2 DEF Forward
<1>3. N \in Nat /\ D \in Nat /\ \A i \in 1 .. N : g[i] \in [Nat -> Nat]
  OBVIOUS
<1>4. \E f : IsBackward(f, Nat, N, 0, stop, next, g)
  <2>1. 0 \in Nat
    OBVIOUS
  <2> HIDE DEF N, stop, next, g
  <2>2. QED
    BY <1>2, <1>3, <2>1, BackwardExists, Zenon
<1>5. PICK f : IsBackward(f, Nat, N, 0, stop, next, g)
  BY <1>4
<1>6. /\ f \in [1 .. N -> Nat]
      /\ \A i \in 1 .. N : f[i] = IF i \in stop THEN 0 ELSE g[i][f[next[i]]]
  BY <1>5 DEF IsBackward
<1>7. ASSUME NEW i \in 1 .. N
      PROVE  f[i] = IF At(t, i) \in LineEnds THEN 0
                    ELSE 1 + f[IF t[i] = PercentSign THEN i + 3 ELSE i + 1]
  <2> DEFINE j == IF t[i] = PercentSign THEN i + 3 ELSE i + 1
  <2>1. next[i] = j
    OBVIOUS
  <2>2. i \in stop <=> At(t, i) \in LineEnds
    OBVIOUS
  <2>3. i \notin stop => j \in 1 .. N
    <3>1. i \notin stop => next[i] \in i + 1 .. N
      BY <1>2 DEF Forward
    <3> HIDE DEF j, next, stop
    <3>2. \A k \in i + 1 .. N : k \in 1 .. N
      OBVIOUS
    <3>3. QED
      BY <2>1, <3>1, <3>2
  <2>4. \A x \in Nat : g[i][x] = 1 + x
    OBVIOUS
  <2> HIDE DEF stop, next, g, j
  <2>5. f[i] = IF At(t, i) \in LineEnds THEN 0 ELSE 1 + f[j]
    BY <1>6, <2>1, <2>2, <2>3, <2>4
  <2>6. QED
    BY <2>5 DEF j
<1> HIDE DEF N, D
<1>8. f = [i \in 1 .. N |-> IF At(t, i) \in LineEnds THEN 0
                            ELSE 1 + f[IF t[i] = PercentSign THEN i + 3 ELSE i + 1]]
  <2>1. f = [i \in 1 .. N |-> f[i]]
    BY <1>6
  <2>2. QED
    BY <1>7, <2>1
<1>9. F = [i \in 1 .. N |-> IF At(t, i) \in LineEnds THEN 0
                            ELSE 1 + F[IF t[i] = PercentSign THEN i + 3 ELSE i + 1]]
  BY <1>8
<1> HIDE DEF F
<1>10. \A i \in 1 .. D : i \in 1 .. N /\ At(t, i) = t[i]
  BY <1>3 DEF N, At, D
<1>11. ASSUME NEW i \in 1 .. D
       PROVE  F[i] = IF t[i] \in LineEnds THEN 0
                     ELSE 1 + F[IF t[i] = PercentSign THEN i + 3 ELSE i + 1]
  BY <1>9, <1>10
<1>12. QED
  BY <1>1, <1>11 DEF D

\* The escape of a byte in a text, from one position up to another.
EscapedAt(e, p, q, b) ==
    /\ p \in Nat \ {0} /\ q <= Len(e) + 1
    /\ \/ b \in Plain /\ e[p] = b /\ q = p + 1
       \/ /\ e[p] = PercentSign /\ q = p + 3
          /\ HexVal(e[p + 1]) \in Nat /\ HexVal(e[p + 2]) \in Nat
          /\ 16 * HexVal(e[p + 1]) + HexVal(e[p + 2]) = b
          /\ StreamHex(e[p + 1], e[p + 2], Leftover(p)) = b

\* Where the escape of each byte of a text begins.
Marks(pos, text, e) ==
    /\ pos[1] = 1 /\ pos[Len(text) + 1] = Len(e) + 1
    /\ \A i \in 1 .. Len(text) : EscapedAt(e, pos[i], pos[i + 1], text[i])

LEMMA EscapeTyped ==
    ASSUME NEW b \in Bytes, NEW upper \in BOOLEAN
    PROVE  Escape(b, upper) \in Seq(Bytes)
<1>1. CASE b \in Plain
  <2>1. <<b>> \in Seq(Bytes)
    OBVIOUS
  <2>2. QED
    BY <1>1, <2>1 DEF Escape
<1>2. CASE b \notin Plain
  <2> DEFINE h == HexDigit(b \div 16, upper)
             l == HexDigit(b % 16, upper)
  <2>1. h \in Bytes /\ l \in Bytes /\ Escape(b, upper) = <<PercentSign, h, l>>
    BY <1>2, EscapeFacts, Zenon
  <2>2. PercentSign \in Bytes
    BY SMT DEF PercentSign, Bytes
  <2> HIDE DEF h, l
  <2>3. <<PercentSign, h, l>> \in Seq(Bytes)
    BY <2>1, <2>2
  <2>4. QED
    BY <2>1, <2>3
<1>3. QED
  BY <1>1, <1>2

LEMMA EncodedMarks ==
    ASSUME NEW text \in Seq(Bytes), NEW upper \in BOOLEAN
    PROVE  /\ PercentEncode(text, upper) \in Seq(Bytes)
           /\ \E pos : Marks(pos, text, PercentEncode(text, upper))
<1> DEFINE n == Len(text)
           escs == [i \in DOMAIN text |-> Escape(text[i], upper)]
           e == PercentEncode(text, upper)
<1>1. n \in Nat /\ DOMAIN text = 1 .. n /\ \A i \in 1 .. n : text[i] \in Bytes
  BY LenProperties, ElementOfSeq
<1>2. e = FlattenSeq(escs)
  BY Zenon DEF PercentEncode, Escape, Plain
<1>3. escs \in [1 .. n -> Seq(Bytes)] /\ \A i \in 1 .. n : escs[i] = Escape(text[i], upper)
  <2>1. \A i \in 1 .. n : Escape(text[i], upper) \in Seq(Bytes)
    BY <1>1, EscapeTyped, Zenon
  <2> HIDE DEF n
  <2>2. QED
    BY <1>1, <2>1
<1> HIDE DEF escs, e
<1>4. escs \in Seq(Seq(Bytes)) /\ Len(escs) = n
  <2>1. escs \in Seq(Seq(Bytes))
    BY <1>1, <1>3, SeqDef
  <2>2. QED
    BY <1>1, <1>3, <2>1, LenProperties
<1>5. e \in Seq(Bytes)
  BY <1>2, <1>4, FlattenTyped
<1>6. PICK pos : Cuts(pos, escs, e)
  BY <1>2, <1>4, FlattenCuts
<1>7. /\ pos[1] = 1 /\ pos[n + 1] = Len(e) + 1
      /\ \A i \in 1 .. n :
            /\ pos[i] \in Nat \ {0} /\ Len(escs[i]) \in Nat
            /\ pos[i + 1] = pos[i] + Len(escs[i]) /\ pos[i + 1] <= Len(e) + 1
            /\ \A k \in 1 .. Len(escs[i]) : e[pos[i] + k - 1] = escs[i][k]
  BY <1>4, <1>6 DEF Cuts
<1>8. ASSUME NEW i \in 1 .. n
      PROVE  EscapedAt(e, pos[i], pos[i + 1], text[i])
  <2> DEFINE p == pos[i]
             q == pos[i + 1]
             b == text[i]
             s == escs[i]
  <2>1. /\ p \in Nat \ {0} /\ q = p + Len(s) /\ q <= Len(e) + 1
        /\ \A k \in 1 .. Len(s) : e[p + k - 1] = s[k]
        /\ s = Escape(b, upper) /\ b \in Bytes
    BY <1>1, <1>3, <1>7
  <2> HIDE DEF p, q, b, s
  <2>0. SUFFICES EscapedAt(e, p, q, b)
    BY DEF p, q, b
  <2>2. CASE b \in Plain
    <3>1. s = <<b>>
      BY <2>1, <2>2 DEF Escape
    <3>2. Len(s) = 1 /\ s[1] = b
      BY <3>1
    <3>3. e[p + 1 - 1] = b
      BY <2>1, <3>2
    <3>4. p + 1 - 1 = p
      BY <2>1
    <3>5. e[p] = b /\ q = p + 1
      BY <2>1, <3>2, <3>3, <3>4
    <3>6. QED
      BY <2>1, <2>2, <3>5 DEF EscapedAt
  <2>3. CASE b \notin Plain
    <3> DEFINE h == HexDigit(b \div 16, upper)
               l == HexDigit(b % 16, upper)
    <3>1. /\ Escape(b, upper) = <<PercentSign, h, l>>
          /\ HexVal(h) \in Nat /\ HexVal(l) \in Nat
          /\ 16 * HexVal(h) + HexVal(l) = b
          /\ StreamHex(h, l, Leftover(p)) = b
      BY <2>1, <2>3, EscapeFacts, Zenon
    <3> HIDE DEF h, l
    <3>2. s = <<PercentSign, h, l>>
      BY <2>1, <3>1
    <3>3. Len(s) = 3 /\ s[1] = PercentSign /\ s[2] = h /\ s[3] = l
      BY <3>2
    <3>4. e[p + 1 - 1] = PercentSign /\ e[p + 2 - 1] = h /\ e[p + 3 - 1] = l
      BY <2>1, <3>3
    <3>5. p + 1 - 1 = p /\ p + 2 - 1 = p + 1 /\ p + 3 - 1 = p + 2
      BY <2>1
    <3>6. e[p] = PercentSign /\ e[p + 1] = h /\ e[p + 2] = l /\ q = p + 3
      BY <2>1, <3>3, <3>4, <3>5
    <3>7. QED
      BY <2>1, <3>1, <3>6, Zenon DEF EscapedAt
  <2>4. QED
    BY <2>2, <2>3
<1>9. Marks(pos, text, e)
  BY <1>7, <1>8, Zenon DEF Marks, n
<1>10. QED
  BY <1>5, <1>9 DEF e

\* One step over an escape, and where it is.
LEMMA EscapedInside ==
    ASSUME NEW e \in Seq(Bytes), NEW p, NEW q, NEW b, EscapedAt(e, p, q, b)
    PROVE  /\ p \in 1 .. Len(e)
           /\ \/ /\ q = p + 1 /\ e[p] = b
                 /\ b # PercentSign /\ b # PlusSign /\ b \notin LineEnds
              \/ /\ q = p + 3 /\ p + 2 <= Len(e) /\ p + 1 \in 1 .. Len(e) /\ p + 2 \in 1 .. Len(e)
                 /\ e[p] = PercentSign /\ PercentSign \notin LineEnds
                 /\ HexVal(e[p + 1]) >= 0 /\ HexVal(e[p + 2]) >= 0
                 /\ 16 * HexVal(e[p + 1]) + HexVal(e[p + 2]) = b
                 /\ StreamHex(e[p + 1], e[p + 2], Leftover(p)) = b
<1> DEFINE D == Len(e)
<1>1. D \in Nat /\ p \in Nat \ {0} /\ q <= D + 1
  BY LenProperties DEF EscapedAt
<1>2. PercentSign \notin LineEnds
  BY DEF PercentSign, LineEnds
<1> HIDE DEF D
<1>3. CASE b \in Plain /\ e[p] = b /\ q = p + 1
  <2>1. b # PercentSign /\ b # PlusSign /\ b \notin LineEnds
    BY <1>3, PlainFacts
  <2>2. p \in 1 .. D
    BY <1>1, <1>3
  <2>3. QED
    BY <1>3, <2>1, <2>2 DEF D
<1>4. CASE /\ e[p] = PercentSign /\ q = p + 3
           /\ HexVal(e[p + 1]) \in Nat /\ HexVal(e[p + 2]) \in Nat
           /\ 16 * HexVal(e[p + 1]) + HexVal(e[p + 2]) = b
           /\ StreamHex(e[p + 1], e[p + 2], Leftover(p)) = b
  <2>1. p \in 1 .. D /\ p + 2 <= D /\ p + 1 \in 1 .. D /\ p + 2 \in 1 .. D
    BY <1>1, <1>4
  <2>2. HexVal(e[p + 1]) >= 0 /\ HexVal(e[p + 2]) >= 0
    <3>1. \A x \in Nat : x >= 0
      OBVIOUS
    <3>2. QED
      BY <1>4, <3>1, Zenon
  <2>3. QED
    BY <1>2, <1>4, <2>1, <2>2, Zenon DEF D
<1>5. QED
  BY <1>3, <1>4 DEF EscapedAt

\* url_decode() (utils.cpp:16-34) gives back whatever bytes, however many, a
\* client has escaped, with digits of either case.
THEOREM UrlDecodeInvertsEscapes ==
    ASSUME NEW text \in Seq(Bytes), NEW upper \in BOOLEAN
    PROVE  UrlDecode(PercentEncode(text, upper)) = text
<1> DEFINE e == PercentEncode(text, upper)
           n == Len(text)
<1>1. PICK pos : Marks(pos, text, e)
  BY EncodedMarks
<1>2. e \in Seq(Bytes)
  BY EncodedMarks
<1> HIDE DEF e
<1>3. Len(e) \in Nat /\ n \in Nat
  BY <1>2, LenProperties
<1>4. PICK f : /\ UrlDecode(e) = f[1]
               /\ f[Len(e) + 1] = <<>>
               /\ \A i \in 1 .. Len(e) :
                     f[i] = IF e[i] = PercentSign /\ i + 2 <= Len(e)
                            THEN <<StreamHex(e[i + 1], e[i + 2], Leftover(i))>> \o f[i + 3]
                            ELSE <<IF e[i] = PlusSign THEN Space ELSE e[i]>> \o f[i + 1]
  BY <1>3, UrlDecodeSteps
<1>5. ASSUME NEW i \in 1 .. n
      PROVE  f[pos[i]] = <<text[i]>> \o f[pos[i + 1]]
  <2> DEFINE p == pos[i]
             q == pos[i + 1]
             b == text[i]
  <2>1. EscapedAt(e, p, q, b)
    BY <1>1 DEF Marks
  <2> HIDE DEF p, q, b
  <2>2. p \in 1 .. Len(e)
    BY <1>2, <2>1, EscapedInside
  <2>3. \/ /\ q = p + 1 /\ e[p] = b
           /\ b # PercentSign /\ b # PlusSign
        \/ /\ q = p + 3 /\ p + 2 <= Len(e) /\ e[p] = PercentSign
           /\ StreamHex(e[p + 1], e[p + 2], Leftover(p)) = b
    BY <1>2, <2>1, EscapedInside
  <2>4. f[p] = <<b>> \o f[q]
    BY <1>4, <2>2, <2>3
  <2>5. QED
    BY <2>4 DEF p, q, b
<1>6. pos[1] = 1 /\ f[pos[n + 1]] = <<>>
  BY <1>1, <1>4 DEF Marks
<1>7. f[pos[1]] = text
  BY <1>5, <1>6, WalkBack
<1>8. QED
  BY <1>4, <1>6, <1>7 DEF e

\* A text and the end of its line.
LEMMA EndedText ==
    ASSUME NEW e \in Seq(Bytes)
    PROVE  LET t == e \o <<13, 10>>
           IN  /\ Len(t) \in Nat /\ Len(e) \in Nat /\ Len(t) = Len(e) + 2
               /\ \A i \in 1 .. Len(e) : i \in 1 .. Len(t) /\ t[i] = e[i] /\ At(t, i) = e[i]
               /\ Len(e) + 1 \in 1 .. Len(t) /\ t[Len(e) + 1] \in LineEnds
<1> DEFINE l == <<13, 10>>
           t == e \o l
<1>1. l \in Seq(Bytes) /\ Len(l) = 2 /\ l[1] = 13
  <2>1. 13 \in Bytes /\ 10 \in Bytes
    BY SMT DEF Bytes
  <2>2. QED
    BY <2>1
<1> HIDE DEF l
<1>2. t \in Seq(Bytes) /\ Joins(t, e, l)
  BY <1>1, JoinFacts, Zenon
<1> HIDE DEF t
<1>3. /\ Len(e) \in Nat /\ Len(t) = Len(e) + 2
      /\ \A i \in 1 .. Len(e) : t[i] = e[i]
      /\ t[Len(e) + 1] = 13
  BY <1>1, <1>2 DEF Joins
<1> DEFINE n == Len(e)
           m == Len(t)
<1>4. n \in Nat /\ m = n + 2
  BY <1>3
<1> HIDE DEF n, m
<1>5. m \in Nat /\ n + 1 \in 1 .. m /\ \A i \in 1 .. n : i \in 1 .. m /\ i <= m
  BY <1>4
<1>6. \A i \in 1 .. n : At(t, i) = e[i]
  BY <1>3, <1>5 DEF At, n, m
<1>7. 13 \in LineEnds
  BY DEF LineEnds
<1>8. QED
  BY <1>3, <1>4, <1>5, <1>6, <1>7, Zenon DEF n, m, t, l

\* decode_status_param() (admin.cpp) does so too, up to the end of the line, and
\* the buffer that estimate_decoded_length() (utils.cpp) sizes for it is
\* exactly as long as what it writes (admin.cpp:76-81).
THEOREM StatusDecodeInvertsEscapes ==
    ASSUME NEW text \in Seq(Bytes), NEW upper \in BOOLEAN
    PROVE  LET escaped == PercentEncode(text, upper) \o <<13, 10>>
           IN  /\ DecodeStatusParam(escaped) = text
               /\ EstimateDecodedLength(escaped) = Len(text)
<1> DEFINE e == PercentEncode(text, upper)
           n == Len(text)
           t == e \o <<13, 10>>
<1>1. PICK pos : Marks(pos, text, e)
  BY EncodedMarks
<1>2. e \in Seq(Bytes)
  BY EncodedMarks
<1> HIDE DEF e
<1>3. /\ Len(t) \in Nat /\ Len(e) \in Nat
      /\ \A i \in 1 .. Len(e) : i \in 1 .. Len(t) /\ t[i] = e[i] /\ At(t, i) = e[i]
      /\ Len(e) + 1 \in 1 .. Len(t) /\ t[Len(e) + 1] \in LineEnds
  BY <1>2, EndedText
<1> HIDE DEF t
<1>4. n \in Nat /\ pos[1] = 1 /\ pos[n + 1] = Len(e) + 1
  BY <1>1, LenProperties DEF Marks
<1>5. ASSUME NEW i \in 1 .. n
      PROVE  EscapedAt(e, pos[i], pos[i + 1], text[i])
  BY <1>1 DEF Marks
<1>6. DecodeStatusParam(t) = text
  <2>1. PICK f : /\ DecodeStatusParam(t) = f[1]
                 /\ \A i \in 1 .. Len(t) :
                       f[i] = IF t[i] \in LineEnds THEN <<>>
                              ELSE IF /\ t[i] = PercentSign
                                      /\ HexVal(At(t, i + 1)) >= 0
                                      /\ HexVal(At(t, i + 2)) >= 0
                              THEN <<16 * HexVal(t[i + 1]) + HexVal(t[i + 2])>> \o f[i + 3]
                              ELSE <<t[i]>> \o f[i + 1]
    BY <1>3, DecodeStatusSteps
  <2>2. ASSUME NEW i \in 1 .. n
        PROVE  f[pos[i]] = <<text[i]>> \o f[pos[i + 1]]
    <3> DEFINE p == pos[i]
               q == pos[i + 1]
               b == text[i]
    <3>1. EscapedAt(e, p, q, b)
      BY <1>5
    <3> HIDE DEF p, q, b
    <3>0. SUFFICES f[p] = <<b>> \o f[q]
      BY DEF p, q, b
    <3>2. p \in 1 .. Len(e)
      BY <1>2, <3>1, EscapedInside
    <3>3. p \in 1 .. Len(t) /\ t[p] = e[p]
      BY <1>3, <3>2
    <3>4. CASE q = p + 1 /\ e[p] = b /\ b # PercentSign /\ b \notin LineEnds
      BY <2>1, <3>3, <3>4
    <3>5. CASE /\ q = p + 3 /\ p + 1 \in 1 .. Len(e) /\ p + 2 \in 1 .. Len(e)
               /\ e[p] = PercentSign /\ PercentSign \notin LineEnds
               /\ HexVal(e[p + 1]) >= 0 /\ HexVal(e[p + 2]) >= 0
               /\ 16 * HexVal(e[p + 1]) + HexVal(e[p + 2]) = b
      <4>1. /\ At(t, p + 1) = e[p + 1] /\ At(t, p + 2) = e[p + 2]
            /\ t[p + 1] = e[p + 1] /\ t[p + 2] = e[p + 2]
        BY <1>3, <3>5
      <4>2. f[p] = <<16 * HexVal(t[p + 1]) + HexVal(t[p + 2])>> \o f[p + 3]
        BY <2>1, <3>3, <3>5, <4>1
      <4>3. QED
        BY <3>5, <4>1, <4>2
    <3>6. QED
      BY <1>2, <3>1, <3>4, <3>5, EscapedInside
  <2>3. f[pos[n + 1]] = <<>>
    BY <1>3, <1>4, <2>1
  <2>4. f[pos[1]] = text
    BY <2>2, <2>3, WalkBack
  <2>5. QED
    BY <1>4, <2>1, <2>4
<1>7. EstimateDecodedLength(t) = n
  <2>1. PICK f : /\ EstimateDecodedLength(t) = f[1]
                 /\ \A i \in 1 .. Len(t) :
                       f[i] = IF t[i] \in LineEnds THEN 0
                              ELSE 1 + f[IF t[i] = PercentSign THEN i + 3 ELSE i + 1]
    BY <1>3, EstimateSteps
  <2>2. ASSUME NEW i \in 1 .. n
        PROVE  f[pos[i]] = 1 + f[pos[i + 1]]
    <3> DEFINE p == pos[i]
               q == pos[i + 1]
               b == text[i]
    <3>1. EscapedAt(e, p, q, b)
      BY <1>5
    <3> HIDE DEF p, q, b
    <3>2. /\ p \in 1 .. Len(e)
          /\ e[p] \notin LineEnds /\ q = IF e[p] = PercentSign THEN p + 3 ELSE p + 1
      BY <1>2, <3>1, EscapedInside
    <3>3. p \in 1 .. Len(t) /\ t[p] = e[p]
      BY <1>3, <3>2
    <3>4. f[p] = 1 + f[q]
      BY <2>1, <3>2, <3>3
    <3>5. QED
      BY <3>4 DEF p, q
  <2>3. f[pos[n + 1]] = 0
    BY <1>3, <1>4, <2>1
  <2> HIDE DEF n
  <2>4. f[pos[1]] = n
    BY <1>4, <2>2, <2>3, CountBack, Zenon
  <2>5. QED
    BY <1>4, <2>1, <2>4
<1>8. QED
  BY <1>6, <1>7 DEF t, e

\* Escaped text of any length comes back from both readers, and fills the
\* buffer of the second without overrunning it: for all alphabets.
THEOREM EscapedTextAlwaysComesBack == TextSpec => []EscapedTextComesBack
<1>1. BytesTyped => EscapedTextComesBack
  BY UrlDecodeInvertsEscapes, StatusDecodeInvertsEscapes DEF BytesTyped, EscapedTextComesBack
<1>2. QED
  BY <1>1, BytesAreTyped, PTL
-----------------------------------------------------------------------------
(* Session cookies: the one that was set is the one that is read. *)

\* No header that the server looks for is named in the request line or in the
\* body.
Others == Tokens \ EchoHeaders
HeaderFree == /\ message.method \in Others /\ message.target \in Seq(Seq(Others))
              /\ message.body \in Seq(Others)

LEMMA OtherTokens ==
    /\ {Blank, CRLF, "/", "*", "HTTP/", "1.1", "GET", "session_id=", Semicolon} \subseteq Others
    /\ \A name \in EchoHeaders : name \notin Others /\ name # Blank /\ name # CRLF
    /\ "Cookie:" \in Tokens /\ "Cookie:" \in EchoHeaders
BY TokensAssumption DEF Others, Blank, CRLF, Semicolon, EchoHeaders

LEMMA InitHeaderFree == TextInit => HeaderFree
<1>1. "GET" \in Others /\ <<>> \in Seq(Seq(Others)) /\ <<>> \in Seq(Others)
  BY OtherTokens
<1>2. QED
  BY <1>1 DEF TextInit, Nothing, HeaderFree

LEMMA NextHeaderFree == Shaped /\ HeaderFree /\ [TextNext]_textVars => HeaderFree'
<1> SUFFICES ASSUME Shaped, HeaderFree, [TextNext]_textVars
             PROVE  HeaderFree'
  OBVIOUS
<1> DEFINE Tgts == Seq(Seq(Others))
           Bodies == Seq(Others)
           Hdrs == Seq(SentHeaders)
           Txts == Seq(Tokens)
           Ws == Seq(Seq(Words))
<1>8. message # Nothing => message \in [method : SentMethods, target : Ws, version : SentVersions,
                                         headers : Hdrs, body : Txts]
  BY DEF Shaped
<1>9. Len(message.target) \in 1 .. MaxTarget - 1 \/ Len(message.target) \in 1 .. ShortTarget
      => message # Nothing
  <2>1. Nothing.target = <<>> /\ Len(<<>>) = 0
    BY DEF Nothing
  <2>2. QED
    BY <2>1
<1>10. message.method \in Others /\ message.target \in Tgts /\ message.body \in Bodies
  BY DEF HeaderFree
<1>1. ASSUME NEW m \in SentMethods, NEW v \in SentVersions, NEW t \in {<<"/">>, <<"*">>},
             StartLine(m, v, t)
      PROVE  HeaderFree'
  <2>1. message' = [Nothing EXCEPT !.method = m, !.version = v, !.target = <<t>>]
    BY <1>1 DEF StartLine
  <2>2. message'.method = m /\ message'.target = <<t>> /\ message'.body = <<>>
    BY <2>1 DEF Nothing
  <2>3. m \in Others
    BY HeaderAssumption DEF Others
  <2>4. t \in Seq(Others)
    <3>1. "/" \in Others /\ "*" \in Others
      BY OtherTokens
    <3>2. \A x \in Others : <<x>> \in Seq(Others)
      OBVIOUS
    <3>3. QED
      BY <3>1, <3>2
  <2>5. <<t>> \in Tgts
    BY <2>4
  <2>6. <<>> \in Bodies
    OBVIOUS
  <2>7. QED
    BY <2>2, <2>3, <2>5, <2>6 DEF HeaderFree
<1>2. ASSUME NEW p \in TargetPieces, ExtendTarget(p)
      PROVE  HeaderFree'
  <2>1. Len(message.target) \in 1 .. MaxTarget - 1 /\ message' = [message EXCEPT !.target = Append(@, p)]
    BY <1>2 DEF ExtendTarget
  <2>2. p \in Seq(Others)
    BY HeaderAssumption DEF Others
  <2> DEFINE t == Append(message.target, p)
  <2>3. t \in Tgts
    BY <1>10, <2>2, AppendProperties
  <2>4. message'.target = t /\ message'.method = message.method /\ message'.body = message.body
    <3> HIDE DEF Hdrs, Txts, Ws, t, Bodies, Tgts
    <3>1. message' = [message EXCEPT !.target = t]
      BY <2>1 DEF t
    <3>2. QED
      BY <1>8, <1>9, <2>1, <3>1
  <2>5. QED
    BY <1>10, <2>3, <2>4 DEF HeaderFree
<1>3. ASSUME NEW h \in SentHeaders, AddHeader(h)
      PROVE  HeaderFree'
  <2>1. /\ Len(message.target) \in 1 .. ShortTarget
        /\ message' = [message EXCEPT !.headers = Append(@, h)]
    BY <1>3 DEF AddHeader
  <2> DEFINE hs == Append(message.headers, h)
  <2>2. message'.target = message.target /\ message'.method = message.method
        /\ message'.body = message.body
    <3> HIDE DEF Hdrs, Txts, Ws, Bodies, Tgts, hs
    <3>1. message' = [message EXCEPT !.headers = hs]
      BY <2>1 DEF hs
    <3>2. QED
      BY <1>8, <1>9, <2>1, <3>1
  <2>3. QED
    BY <1>10, <2>2 DEF HeaderFree
<1>4. ASSUME NEW b \in SentBodies, AddBody(b)
      PROVE  HeaderFree'
  <2>1. Len(message.target) \in 1 .. ShortTarget /\ message' = [message EXCEPT !.body = b]
    BY <1>4 DEF AddBody
  <2>2. b \in Bodies
    BY BodyAssumption DEF Others
  <2>3. message'.target = message.target /\ message'.method = message.method /\ message'.body = b
    <3> HIDE DEF Hdrs, Txts, Ws, Bodies, Tgts
    <3>1. QED
      BY <1>8, <1>9, <2>1
  <2>4. QED
    BY <1>10, <2>2, <2>3 DEF HeaderFree
<1>5. CASE UNCHANGED message
  BY <1>5 DEF HeaderFree
<1>6. ASSUME NEW c, Type(c)
      PROVE  UNCHANGED message
  BY <1>6 DEF Type
<1>7. QED
  BY <1>1, <1>2, <1>3, <1>4, <1>5, <1>6, Zenon DEF TextNext, textVars, Complete

\* The only name of a header that extract_header_value() (utils.cpp:54-73) and
\* get_session_id_from_cookie() (session_manager.cpp:33) can meet in what a client
\* composes is the one that begins a header; that values have none is an
\* assumption.
LEMMA HeaderNamesStandAlone == TextSpec => [](Shaped /\ HeaderFree)
<1>1. TextInit => HeaderFree
  BY InitHeaderFree
<1>2. Shaped /\ HeaderFree /\ [TextNext]_textVars => HeaderFree'
  BY NextHeaderFree
<1>3. QED
  BY <1>1, <1>2, RequestsAreShaped, PTL DEF TextSpec

\* The request line names no header.
LEMMA LineOthers ==
    ASSUME Shaped, Composed, HeaderFree
    PROVE  \A i \in 1 .. Len(Line) : Line[i] \in Others
<1> DEFINE L == Len(Target)
<1>1. Target \in Seq(Others)
  BY FlattenTyped DEF Target, HeaderFree
<1>2. \A j \in 1 .. L : Target[j] \in Others
  BY <1>1, ElementOfSeq
<1>3. /\ L \in Nat /\ L > 0
      /\ Line[1] = message.method /\ Line[2] = Blank
      /\ \A j \in 1 .. L : Line[2 + j] = Target[j]
      /\ Len(Line) = L + (CASE message.version = "none" -> 2
                            [] message.version = "bare" -> 4
                            [] OTHER -> 5)
      /\ message.version # "none" => Line[L + 3] = Blank /\ Line[L + 4] = "HTTP/"
      /\ message.version = "full" => Line[L + 5] = "1.1"
  BY LineFacts, Zenon
<1>4. message.version \in {"none", "bare", "full"} /\ message.method \in Others
  BY SentAssumption DEF Shaped, Composed, HeaderFree
<1>5. Blank \in Others /\ "HTTP/" \in Others /\ "1.1" \in Others
  BY OtherTokens
<1> HIDE DEF L
<1>6. SUFFICES ASSUME NEW i \in 1 .. Len(Line)
               PROVE  Line[i] \in Others
  OBVIOUS
<1>7. CASE i <= 2
  BY <1>3, <1>4, <1>5, <1>7
<1>8. CASE i > 2 /\ i <= L + 2
  <2>1. i - 2 \in 1 .. L /\ i = 2 + (i - 2)
    BY <1>3, <1>8
  <2>2. QED
    BY <1>2, <1>3, <2>1
<1>9. CASE i > L + 2
  <2>1. CASE message.version = "none"
    BY <1>3, <1>9, <2>1
  <2>2. CASE message.version = "bare"
    <3>1. i = L + 3 \/ i = L + 4
      BY <1>3, <1>9, <2>2
    <3>2. QED
      BY <1>3, <1>5, <2>2, <3>1
  <2>3. CASE message.version = "full"
    <3>1. i = L + 3 \/ i = L + 4 \/ i = L + 5
      BY <1>3, <1>9, <2>3
    <3>2. QED
      BY <1>3, <1>5, <2>3, <3>1
  <2>4. QED
    BY <1>4, <2>1, <2>2, <2>3
<1>10. QED
  BY <1>3, <1>7, <1>8, <1>9

\* The parts of a header as it is sent.
LEMMA HeaderLineParts ==
    ASSUME NEW h \in SentHeaders
    PROVE  /\ Len(h.value) \in Nat /\ Len(HeaderLine(h)) = Len(h.value) + 3
           /\ HeaderLine(h)[1] = h.name /\ HeaderLine(h)[2] = Blank
           /\ \A i \in 1 .. Len(h.value) :
                 /\ HeaderLine(h)[2 + i] = h.value[i]
                 /\ h.value[i] \in Others /\ h.value[i] # CRLF
           /\ HeaderLine(h)[Len(h.value) + 3] = CRLF
<1> DEFINE a == <<h.name, Blank>>
           b == h.value
           c == <<CRLF>>
           ab == a \o b
           n == Len(b)
<1>1. h.name \in Tokens /\ Blank \in Tokens /\ CRLF \in Tokens
  BY SentAssumption, TokensAssumption DEF Words
<1>2. b \in Seq(Tokens \ {CRLF}) /\ b \in Seq(Others)
  BY SentAssumption, HeaderAssumption DEF Others
<1>3. \A i \in 1 .. n : b[i] \in Others /\ b[i] # CRLF
  <2>1. \A i \in 1 .. n : b[i] \in Tokens \ {CRLF}
    BY <1>2, ElementOfSeq
  <2>2. \A i \in 1 .. n : b[i] \in Others
    BY <1>2, ElementOfSeq
  <2>3. QED
    BY <2>1, <2>2
<1>4. /\ a \in Seq(Tokens) /\ Len(a) = 2 /\ a[1] = h.name /\ a[2] = Blank
      /\ c \in Seq(Tokens) /\ Len(c) = 1 /\ c[1] = CRLF
  BY <1>1
<1>5. b \in Seq(Tokens)
  BY <1>2, Widen, Zenon
<1>6. HeaderLine(h) = ab \o c
  BY DEF HeaderLine
<1> HIDE DEF a, b, c
<1>7. ab \in Seq(Tokens) /\ Joins(ab, a, b)
  BY <1>4, <1>5, JoinFacts, Zenon
<1> HIDE DEF ab
<1>8. Joins(HeaderLine(h), ab, c)
  BY <1>4, <1>6, <1>7, JoinFacts, Zenon
<1>9. /\ n \in Nat /\ Len(ab) = 2 + n /\ Len(HeaderLine(h)) = Len(ab) + 1
      /\ ab[1] = h.name /\ ab[2] = Blank /\ \A i \in 1 .. n : ab[2 + i] = b[i]
      /\ \A i \in 1 .. Len(ab) : HeaderLine(h)[i] = ab[i]
      /\ HeaderLine(h)[Len(ab) + 1] = CRLF
  BY <1>4, <1>7, <1>8 DEF Joins
<1> HIDE DEF n
<1>10. /\ Len(HeaderLine(h)) = n + 3 /\ HeaderLine(h)[n + 3] = CRLF
       /\ 1 \in 1 .. Len(ab) /\ 2 \in 1 .. Len(ab)
       /\ \A i \in 1 .. n : 2 + i \in 1 .. Len(ab)
  <2>1. Len(ab) + 1 = n + 3
    BY <1>9
  <2>2. QED
    BY <1>9, <2>1
<1>11. /\ HeaderLine(h)[1] = h.name /\ HeaderLine(h)[2] = Blank
       /\ \A i \in 1 .. n : HeaderLine(h)[2 + i] = b[i]
  BY <1>9, <1>10
<1>12. QED
  BY <1>3, <1>9, <1>10, <1>11 DEF b, n

\* What stands where in the headers of a request.
LEMMA HeadersInRaw ==
    ASSUME Shaped, Composed
    PROVE  /\ Raw \in Seq(Tokens) /\ Len(Line) \in Nat /\ Len(HeaderText) \in Nat
           /\ Len(Line) + 1 + Len(HeaderText) < Len(Raw)
           /\ \A x \in 1 .. Len(Line) + 1 : Raw[x] = IF x = Len(Line) + 1 THEN CRLF ELSE Line[x]
           /\ \A x \in 1 .. Len(HeaderText) : Raw[Len(Line) + 1 + x] = HeaderText[x]
<1> DEFINE heads == HeaderText \o <<CRLF>>
           L == Len(Line)
           H == Len(HeaderText)
<1>1. /\ Joins(heads, HeaderText, <<CRLF>>)
      /\ Joins(Rest, heads, message.body)
  BY RestFacts
<1>2. /\ Raw \in Seq(Tokens) /\ L \in Nat /\ Len(Rest) \in Nat
      /\ Len(Raw) = L + 1 + Len(Rest)
      /\ \A i \in 1 .. L : Raw[i] = Line[i]
      /\ Raw[L + 1] = CRLF
      /\ \A i \in 1 .. Len(Rest) : Raw[L + 1 + i] = Rest[i]
  BY RawFacts
<1>3. Len(<<CRLF>>) = 1
  OBVIOUS
<1> DEFINE R == Len(Rest)
           M == Len(message.body)
           all == Len(Raw)
<1> HIDE DEF heads, L
<1>4. /\ H \in Nat /\ Len(heads) = H + 1 /\ Len(message.body) \in Nat
      /\ Len(Rest) = H + 1 + Len(message.body)
      /\ \A i \in 1 .. H : heads[i] = HeaderText[i]
      /\ \A i \in 1 .. H + 1 : Rest[i] = heads[i]
  BY <1>1, <1>3 DEF Joins
<1>11. H \in Nat /\ M \in Nat /\ R = H + 1 + M /\ L \in Nat /\ all = L + 1 + R
  BY <1>2, <1>4
<1> HIDE DEF H, R, M, all
<1>5. \A i \in 1 .. H : i \in 1 .. H + 1 /\ i \in 1 .. R
  BY <1>11
<1>6. \A i \in 1 .. H : Raw[L + 1 + i] = HeaderText[i]
  BY <1>2, <1>4, <1>5 DEF R
<1>7. \A x \in 1 .. L + 1 : x = L + 1 \/ x \in 1 .. L
  BY <1>2
<1>8. L + 1 + H < all
  BY <1>11
<1>9. \A x \in 1 .. L + 1 : Raw[x] = IF x = L + 1 THEN CRLF ELSE Line[x]
  BY <1>2, <1>7
<1>10. QED
  BY <1>2, <1>6, <1>8, <1>9, <1>11 DEF L, H, all

\* Nor has a header of another name.
LEMMA OtherHeaders ==
    ASSUME Shaped, NEW name \in EchoHeaders, NEW h \in SentHeaders, h.name # name, NEW j \in 1 .. Len(HeaderLine(h))
    PROVE  HeaderLine(h)[j] # name
<1> DEFINE n == Len(h.value)
<1>1. /\ n \in Nat /\ Len(HeaderLine(h)) = n + 3
      /\ HeaderLine(h)[1] = h.name /\ HeaderLine(h)[2] = Blank
      /\ \A i \in 1 .. n : HeaderLine(h)[2 + i] = h.value[i] /\ h.value[i] \in Others
      /\ HeaderLine(h)[n + 3] = CRLF
  BY HeaderLineParts
<1>2. Blank # name /\ CRLF # name /\ name \notin Others
  BY OtherTokens
<1> HIDE DEF n
<1>3. j = 1 \/ j = 2 \/ j = n + 3 \/ (j - 2 \in 1 .. n /\ j = 2 + (j - 2))
  BY <1>1
<1>4. CASE j - 2 \in 1 .. n /\ j = 2 + (j - 2)
  BY <1>1, <1>2, <1>4
<1>5. QED
  BY <1>1, <1>2, <1>3, <1>4

\* The first header of a name: where it is, and that the server's search finds
\* this one.
HeaderAt(name, b, value) ==
    /\ Find(Raw, <<name>>, 1) = b + 1
    /\ Raw \in Seq(Tokens) /\ b \in Nat /\ Len(value) \in Nat /\ b + 3 + Len(value) <= Len(Raw)
    /\ Raw[b + 1] = name /\ Raw[b + 2] = Blank /\ Raw[b + 3 + Len(value)] = CRLF
    /\ \A i \in 1 .. Len(value) : Raw[b + 2 + i] = value[i] /\ value[i] # CRLF

LEMMA HeaderFound ==
    ASSUME Shaped, HeaderFree, NEW name \in EchoHeaders, NEW k \in 1 .. Len(message.headers),
           message.headers[k].name = name,
           \A i \in 1 .. k - 1 : message.headers[i].name # name
    PROVE  \E b : HeaderAt(name, b, message.headers[k].value)
<1> DEFINE hs == message.headers
           seqs == [i \in DOMAIN hs |-> HeaderLine(hs[i])]
           v == hs[k].value
           n == Len(v)
           N == Len(hs)
           L == Len(Line)
<1>1. Composed
  <2>1. Nothing.headers = <<>> /\ Len(<<>>) = 0
    BY DEF Nothing
  <2>2. Len(message.headers) # 0
    <3>1. N \in Nat
      BY HeaderLinesFacts
    <3>2. QED
      BY <3>1
  <2>3. QED
    BY <2>1, <2>2 DEF Composed
<1>2. /\ N \in Nat /\ seqs \in Seq(Seq(Tokens)) /\ Len(seqs) = N /\ HeaderText = FlattenSeq(seqs)
      /\ \A i \in 1 .. N : hs[i] \in SentHeaders
  BY HeaderLinesFacts
<1>3. \A i \in 1 .. N : seqs[i] = HeaderLine(hs[i])
  <2>1. hs \in Seq(SentHeaders)
    BY ShapedParts
  <2>2. DOMAIN hs = 1 .. N
    BY <2>1
  <2>3. QED
    BY <2>2
<1> HIDE DEF hs, seqs
<1>4. PICK pos : Cuts(pos, seqs, HeaderText)
  BY <1>2, FlattenCuts
<1>5. /\ pos[1] = 1
      /\ \A i \in 1 .. N :
            /\ pos[i] \in Nat \ {0} /\ Len(seqs[i]) \in Nat
            /\ pos[i + 1] = pos[i] + Len(seqs[i]) /\ pos[i + 1] <= Len(HeaderText) + 1
            /\ \A j \in 1 .. Len(seqs[i]) : HeaderText[pos[i] + j - 1] = seqs[i][j]
  BY <1>2, <1>4 DEF Cuts
<1>6. k \in 1 .. N /\ N \in Nat /\ hs[k].name = name /\ \A i \in 1 .. k - 1 : hs[i].name # name
  BY <1>2 DEF hs
<1> HIDE DEF N
<1> DEFINE Free(x) == HeaderText[x] # name
           T == {m \in Nat : m < k => \A x \in 1 .. pos[m + 1] - 1 : Free(x)}
<1>7. 0 \in T
  BY <1>5
<1>8. ASSUME NEW m \in Nat, m \in T
      PROVE  m + 1 \in T
  <2> DEFINE i == m + 1
  <2>1. SUFFICES ASSUME i < k, NEW x \in 1 .. pos[i + 1] - 1
                 PROVE  Free(x)
    OBVIOUS
  <2>2. i \in 1 .. N /\ i \in 1 .. k - 1 /\ m < k
    BY <1>6, <2>1
  <2>3. \A y \in 1 .. pos[i] - 1 : Free(y)
    BY <1>8, <2>2
  <2>4. pos[i] \in Nat \ {0} /\ Len(seqs[i]) \in Nat /\ pos[i + 1] = pos[i] + Len(seqs[i])
    BY <1>5, <2>2
  <2> DEFINE q == pos[i + 1]
             p == pos[i]
  <2>5. CASE x < p
    BY <2>3, <2>4, <2>5
  <2>6. CASE x >= p
    <3> DEFINE j == x - p + 1
    <3>1. j \in 1 .. Len(seqs[i]) /\ x = p + j - 1
      BY <2>4, <2>6
    <3> HIDE DEF j, i
    <3>2. HeaderText[x] = seqs[i][j]
      BY <1>5, <2>2, <3>1
    <3>3. seqs[i] = HeaderLine(hs[i]) /\ hs[i] \in SentHeaders /\ hs[i].name # name
      BY <1>2, <1>3, <1>6, <2>2
    <3>4. HeaderLine(hs[i])[j] # name
      BY <3>1, <3>3, OtherHeaders
    <3>5. QED
      BY <3>2, <3>3, <3>4
  <2>7. QED
    BY <2>4, <2>5, <2>6
<1> HIDE DEF T
<1>9. \A m \in Nat : m \in T
  BY <1>7, <1>8, NatInductive
<1>10. \A x \in 1 .. pos[k] - 1 : HeaderText[x] # name
  <2>1. k - 1 \in Nat /\ k - 1 < k /\ (k - 1) + 1 = k
    BY <1>6
  <2>2. QED
    BY <1>9, <2>1 DEF T
<1>11. /\ hs[k] \in SentHeaders /\ seqs[k] = HeaderLine(hs[k])
       /\ pos[k] \in Nat \ {0} /\ Len(seqs[k]) \in Nat
       /\ pos[k] + Len(seqs[k]) <= Len(HeaderText) + 1
       /\ \A j \in 1 .. Len(seqs[k]) : HeaderText[pos[k] + j - 1] = seqs[k][j]
  BY <1>2, <1>3, <1>5, <1>6
<1>12. /\ n \in Nat /\ Len(seqs[k]) = n + 3
       /\ seqs[k][1] = name /\ seqs[k][2] = Blank /\ seqs[k][n + 3] = CRLF
       /\ \A i \in 1 .. n : seqs[k][2 + i] = v[i] /\ v[i] # CRLF
  BY <1>6, <1>11, HeaderLineParts DEF v, n
<1>13. /\ Raw \in Seq(Tokens) /\ L \in Nat /\ Len(HeaderText) \in Nat
       /\ L + 1 + Len(HeaderText) < Len(Raw)
       /\ \A x \in 1 .. L + 1 : Raw[x] = IF x = L + 1 THEN CRLF ELSE Line[x]
       /\ \A x \in 1 .. Len(HeaderText) : Raw[L + 1 + x] = HeaderText[x]
  BY <1>1, HeadersInRaw
<1>14. \A x \in 1 .. L : Line[x] # name
  BY <1>1, LineOthers, OtherTokens
<1> DEFINE p == pos[k]
           b == L + p
           H == Len(HeaderText)
           all == Len(Raw)
<1>26. name \in Tokens
  BY <1>6, <1>11, SentAssumption DEF Words
<1>24. /\ n \in Nat /\ L \in Nat /\ H \in Nat /\ p \in Nat \ {0} /\ all \in Nat
       /\ p + (n + 3) <= H + 1 /\ L + 1 + H < all
  BY <1>11, <1>12, <1>13, LenProperties
<1>25. \A j \in 1 .. n + 3 : HeaderText[p + j - 1] = seqs[k][j]
  BY <1>11, <1>12
<1> HIDE DEF v, n, L, T, p, H, all
<1>15. \A j \in 1 .. n + 3 : /\ p + j - 1 \in 1 .. H
                             /\ b + j = L + 1 + (p + j - 1)
                             /\ HeaderText[p + j - 1] = seqs[k][j]
  <2>1. SUFFICES ASSUME NEW j \in 1 .. n + 3
                 PROVE  p + j - 1 \in 1 .. H /\ b + j = L + 1 + (p + j - 1)
    BY <1>25
  <2>2. j \in Nat /\ j >= 1 /\ j <= n + 3
    BY <1>24
  <2>3. QED
    BY <1>24, <2>2
<1>16. \A j \in 1 .. n + 3 : Raw[b + j] = seqs[k][j]
  BY <1>13, <1>15 DEF H
<1>17. 1 \in 1 .. n + 3 /\ 2 \in 1 .. n + 3 /\ n + 3 \in 1 .. n + 3 /\ \A i \in 1 .. n : 2 + i \in 1 .. n + 3
  BY <1>12
<1>18. /\ b \in Nat /\ b + 3 + n <= all
       /\ b + (n + 3) = b + 3 + n /\ \A i \in 1 .. n : b + (2 + i) = b + 2 + i
  BY <1>24
<1>19. \A x \in 1 .. b : Raw[x] # name
  <2>1. SUFFICES ASSUME NEW x \in 1 .. b
                 PROVE  Raw[x] # name
    OBVIOUS
  <2>2. CASE x <= L + 1
    <3>1. x \in 1 .. L + 1 /\ (x = L + 1 \/ x \in 1 .. L)
      BY <1>18, <1>24, <2>2
    <3>2. CRLF # name
      BY OtherTokens
    <3>3. QED
      BY <1>13, <1>14, <3>1, <3>2
  <2>3. CASE x > L + 1
    <3>1. x - (L + 1) \in 1 .. p - 1 /\ x - (L + 1) \in 1 .. H /\ x = L + 1 + (x - (L + 1))
      BY <1>24, <2>3
    <3>2. QED
      BY <1>10, <1>13, <3>1 DEF p, H
  <2>4. QED
    BY <1>13, <1>18, <2>2, <2>3
<1> HIDE DEF b
<1>20. /\ Raw[b + 1] = name /\ Raw[b + 2] = Blank
       /\ Raw[b + 3 + n] = CRLF
       /\ \A i \in 1 .. n : Raw[b + 2 + i] = v[i]
  BY <1>12, <1>16, <1>17, <1>18
<1>21. Find(Raw, <<name>>, 1) = b + 1
  <2> DEFINE q == b + 1
             one == 1
  <2>1. q \in one .. Len(Raw)
    BY <1>18, <1>24 DEF all
  <2>5. Raw[q] = name /\ one \in Nat \ {0} /\ name \in Tokens
    BY <1>20, <1>26
  <2>6. Raw \in Seq(Tokens)
    BY <1>13
  <2>2. \A i \in one .. q - 1 : Raw[i] # name
    BY <1>18, <1>19
  <2> HIDE DEF q, one
  <2>3. Find(Raw, <<name>>, one) = q
    BY <2>1, <2>2, <2>5, <2>6, FindToken, Zenon
  <2>4. QED
    BY <2>3 DEF q, one
<1>22. HeaderAt(name, b, v)
  BY <1>12, <1>13, <1>18, <1>20, <1>21 DEF HeaderAt, n, all
<1>23. QED
  BY <1>22 DEF v, hs

\* The value of the first header of a name, if there is one.
LEMMA HeaderValue ==
    ASSUME Shaped, HeaderFree, NEW name \in EchoHeaders
    PROVE  \/ /\ SentHeader(name) = <<>>
              /\ \A i \in 1 .. Len(message.headers) : message.headers[i].name # name
           \/ \E b : HeaderAt(name, b, SentHeader(name))
<1> DEFINE hs == message.headers
           I == {i \in 1 .. Len(hs) : hs[i].name = name}
           k == SelectInSeq(hs, LAMBDA h : h.name = name)
<1>1. k = IF I # {} THEN Min(I) ELSE 0
  BY Zenon DEF SelectInSeq
<1>2. SentHeader(name) = IF k = 0 THEN <<>> ELSE hs[k].value
  BY Zenon DEF SentHeader
<1> HIDE DEF k
<1>3. CASE I = {}
  BY <1>1, <1>2, <1>3
<1>4. CASE I # {}
  <2>1. I \subseteq Nat
    OBVIOUS
  <2>2. Min(I) \in I /\ \A y \in I : Min(I) <= y
    BY <1>4, <2>1, HasMinimum
  <2>3. k \in I /\ \A y \in I : k <= y
    BY <1>1, <1>4, <2>2
  <2>4. k \in 1 .. Len(hs) /\ hs[k].name = name /\ k # 0
    BY <2>3
  <2>5. \A i \in 1 .. k - 1 : hs[i].name # name
    <3>1. \A i \in 1 .. k - 1 : i \in 1 .. Len(hs) /\ ~(k <= i)
      BY <2>4, HeaderLinesFacts
    <3>2. QED
      BY <2>3, <3>1
  <2>6. \E b : HeaderAt(name, b, hs[k].value)
    BY <2>4, <2>5, HeaderFound
  <2>7. QED
    BY <1>2, <2>4, <2>6
<1>5. QED
  BY <1>3, <1>4

\* What a search for one token finds.
TokenAt(text, c, from, at) ==
    \/ at = 0 /\ \A i \in from .. Len(text) : text[i] # c
    \/ at \in from .. Len(text) /\ text[at] = c /\ \A i \in from .. at - 1 : text[i] # c

LEMMA FindsToken ==
    ASSUME NEW S, NEW text \in Seq(S), NEW c \in S, NEW from \in Nat \ {0}
    PROVE  TokenAt(text, c, from, Find(text, <<c>>, from))
<1> DEFINE s == <<c>>
           at == Find(text, s, from)
           last == Len(text) - Len(s) + 1
<1>1. s \in Seq(S) /\ Len(s) = 1 /\ s[1] = c
  OBVIOUS
<1> HIDE DEF s
<1>2. Len(text) \in Nat /\ last = Len(text)
  BY <1>1, LenProperties
<1>3. \A i \in Nat : MatchAt(text, s, i) <=> text[i] = c
  BY <1>1 DEF MatchAt
<1>4. \/ at = 0 /\ \A i \in from .. last : ~MatchAt(text, s, i)
      \/ /\ at \in from .. last /\ MatchAt(text, s, at)
         /\ \A i \in from .. last : MatchAt(text, s, i) => at <= i
  BY <1>1, FindFacts, Zenon
<1> HIDE DEF at, last
<1>5. CASE at = 0 /\ \A i \in from .. last : ~MatchAt(text, s, i)
  BY <1>2, <1>3, <1>5 DEF TokenAt, at, s
<1>6. CASE /\ at \in from .. last /\ MatchAt(text, s, at)
           /\ \A i \in from .. last : MatchAt(text, s, i) => at <= i
  <2>1. at \in from .. Len(text) /\ at \in Nat /\ text[at] = c
    BY <1>2, <1>3, <1>6
  <2>2. \A i \in from .. at - 1 : i \in Nat /\ i \in from .. last /\ ~(at <= i)
    BY <1>2, <2>1
  <2>3. \A i \in from .. at - 1 : text[i] # c
    BY <1>3, <1>6, <2>2
  <2>4. QED
    BY <2>1, <2>3 DEF TokenAt, at, s
<1>7. QED
  BY <1>4, <1>5, <1>6

\* Searches in the value of a header, and what they find in the request.
LEMMA FoundInHeader ==
    ASSUME NEW name, NEW value, NEW b, HeaderAt(name, b, value), NEW c \in Tokens,
           NEW from \in 1 .. Len(value), NEW at, at # 0, TokenAt(value, c, from, at)
    PROVE  Find(Raw, <<c>>, b + 2 + from) = b + 2 + at
<1> DEFINE n == Len(value)
           all == Len(Raw)
           q == b + 2 + at
           start == b + 2 + from
<1>1. at \in from .. n /\ value[at] = c /\ \A i \in from .. at - 1 : value[i] # c
  BY DEF TokenAt
<1>2. /\ Raw \in Seq(Tokens) /\ b \in Nat /\ n \in Nat /\ b + 3 + n <= all /\ all \in Nat
      /\ \A i \in 1 .. n : Raw[b + 2 + i] = value[i]
  BY LenProperties DEF HeaderAt
<1> HIDE DEF n, all
<1>3. from \in 1 .. n
  BY DEF n
<1>4. q \in start .. all /\ start \in Nat \ {0} /\ at \in 1 .. n
  BY <1>1, <1>2, <1>3
<1>5. Raw[q] = c
  BY <1>1, <1>2, <1>4
<1>6. \A i \in start .. q - 1 : Raw[i] # c
  <2>1. SUFFICES ASSUME NEW i \in start .. q - 1
                 PROVE  Raw[i] # c
    OBVIOUS
  <2>2. i - (b + 2) \in from .. at - 1 /\ i - (b + 2) \in 1 .. n /\ i = b + 2 + (i - (b + 2))
    BY <1>1, <1>2, <1>3
  <2>3. QED
    BY <1>1, <1>2, <2>2
<1> HIDE DEF q, start
<1>7. q \in start .. Len(Raw)
  BY <1>4 DEF all
<1>8. Find(Raw, <<c>>, start) = q
  BY <1>2, <1>4, <1>5, <1>6, <1>7, FindToken, Zenon
<1>9. QED
  BY <1>8 DEF q, start

\* The same stretch of a text, in a request that has it at an offset.
Within(raw, value, o) ==
    o + Len(value) <= Len(raw) /\ \A x \in 1 .. Len(value) : raw[o + x] = value[x]

LEMMA StretchInRaw ==
    ASSUME NEW raw \in Seq(Tokens), NEW value \in Seq(Tokens), NEW o \in Nat, Within(raw, value, o),
           NEW i \in Nat \ {0}, NEW j \in Nat, j <= Len(value)
    PROVE  SubSeq(raw, o + i, o + j) = SubSeq(value, i, j)
<1> DEFINE m == o + i
           n == o + j
           r == SubSeq(raw, m, n)
           v == SubSeq(value, i, j)
           N == Len(value)
           all == Len(raw)
<1>1. N \in Nat /\ all \in Nat
  BY LenProperties
<1>2. /\ \A x \in 1 .. N : value[x] \in Tokens
      /\ \A x \in 1 .. all : raw[x] \in Tokens
  BY ElementOfSeq
<1>3. o + N <= all /\ j <= N /\ \A x \in 1 .. N : raw[o + x] = value[x]
  BY DEF Within
<1> HIDE DEF N, all
<1>4. \A x \in i .. j : x \in 1 .. N
  BY <1>1, <1>3
<1>5. \A x \in m .. n : x \in 1 .. all
  BY <1>1, <1>3
<1>6. m \in Int /\ n \in Int /\ i \in Int /\ j \in Int
  OBVIOUS
<1>7. \A x \in i .. j : value[x] \in Tokens
  BY <1>2, <1>4
<1>8. /\ v \in Seq(Tokens) /\ Len(v) = IF i <= j THEN j - i + 1 ELSE 0
      /\ \A x \in 1 .. j - i + 1 : v[x] = value[i + x - 1]
  BY <1>6, <1>7, SubSeqProperties
<1>9. \A x \in m .. n : raw[x] \in Tokens
  BY <1>2, <1>5
<1> HIDE DEF m, n, v
<1>10. /\ r \in Seq(Tokens) /\ Len(r) = IF m <= n THEN n - m + 1 ELSE 0
       /\ \A x \in 1 .. n - m + 1 : r[x] = raw[m + x - 1]
  BY <1>6, <1>9, SubSeqProperties
<1> HIDE DEF r
<1>11. n - m + 1 = j - i + 1 /\ (m <= n <=> i <= j)
  BY DEF m, n
<1>12. Len(r) = Len(v)
  BY <1>8, <1>10, <1>11
<1>13. \A x \in 1 .. j - i + 1 : r[x] = v[x]
  <2>1. SUFFICES ASSUME NEW x \in 1 .. j - i + 1
                 PROVE  r[x] = v[x]
    OBVIOUS
  <2>2. i + x - 1 \in 1 .. N /\ m + x - 1 = o + (i + x - 1)
    BY <1>1, <1>3 DEF m
  <2>3. raw[m + x - 1] = value[i + x - 1]
    BY <1>3, <2>2
  <2>4. QED
    BY <1>8, <1>10, <1>11, <2>3
<1>14. \A x \in 1 .. Len(v) : x \in 1 .. j - i + 1
  BY <1>8
<1>15. \A x \in 1 .. Len(r) : r[x] = v[x]
  BY <1>12, <1>13, <1>14
<1>16. r = v
  BY <1>8, <1>10, <1>12, <1>15, SeqEqual
<1>17. QED
  BY <1>16 DEF r, v, m, n

\* The same for all stretches.
SameStretches(raw, value, o) ==
    \A i \in Nat \ {0}, j \in Nat : j <= Len(value) => SubSeq(raw, o + i, o + j) = SubSeq(value, i, j)

LEMMA StretchesInRaw ==
    ASSUME NEW raw \in Seq(Tokens), NEW value \in Seq(Tokens), NEW o \in Nat, Within(raw, value, o)
    PROVE  SameStretches(raw, value, o)
BY StretchInRaw, Zenon DEF SameStretches

LEMMA HeaderTyped ==
    ASSUME Shaped, NEW name
    PROVE  SentHeader(name) \in Seq(Tokens)
<1> DEFINE hs == message.headers
           I == {i \in 1 .. Len(hs) : hs[i].name = name}
           k == SelectInSeq(hs, LAMBDA h : h.name = name)
<1>1. k = IF I # {} THEN Min(I) ELSE 0
  BY Zenon DEF SelectInSeq
<1>2. SentHeader(name) = IF k = 0 THEN <<>> ELSE hs[k].value
  BY Zenon DEF SentHeader
<1>3. I # {} => Min(I) \in I
  <2>1. I \subseteq Nat
    OBVIOUS
  <2>2. QED
    BY <2>1, HasMinimum
<1> HIDE DEF k
<1>4. CASE k = 0
  <2>1. <<>> \in Seq(Tokens)
    OBVIOUS
  <2>2. SentHeader(name) = <<>>
    BY <1>2, <1>4
  <2>3. QED
    BY <2>1, <2>2
<1>5. CASE k # 0
  <2>1. k \in 1 .. Len(hs)
    BY <1>1, <1>3, <1>5
  <2>2. hs[k] \in SentHeaders
    BY <2>1, HeaderLinesFacts
  <2>3. hs[k].value \in Seq(Tokens \ {CRLF})
    BY <2>2, SentAssumption
  <2>4. hs[k].value \in Seq(Tokens)
    BY <2>3, Widen, Zenon
  <2>5. QED
    BY <1>2, <1>5, <2>4
<1>6. QED
  BY <1>4, <1>5

\* Before anything is composed, too, there is a text of tokens.
LEMMA RawTyped ==
    ASSUME Shaped
    PROVE  Raw \in Seq(Tokens)
<1>1. CASE Composed
  BY <1>1, RawFacts
<1>2. CASE message = Nothing
  <2> DEFINE l == <<message.method, Blank>>
             t == Target
             v == VersionText[message.version]
             e == <<CRLF>>
             ts == Tokens
  <2>1. message.method \in ts /\ message.version = "none" /\ message.target = <<>>
    BY <1>2, TokensAssumption DEF Nothing
  <2>2. l \in Seq(ts) /\ e \in Seq(ts)
    BY <2>1, TokensAssumption
  <2>3. v \in Seq(Tokens \ {CRLF})
    BY <2>1, VersionTexts
  <2>4. v \in Seq(ts)
    BY <2>3, Widen, Zenon
  <2>5. t \in Seq(ts)
    <3>1. message.target \in Seq(Seq(ts))
      BY <2>1
    <3>2. QED
      BY <3>1, FlattenTyped DEF Target
  <2>6. Rest \in Seq(ts)
    BY RestFacts
  <2>7. Raw = l \o t \o v \o e \o Rest
    BY Zenon DEF Raw
  <2> HIDE DEF l, t, v, e, ts
  <2>8. QED
    BY <2>2, <2>4, <2>5, <2>6, <2>7 DEF ts
<1>3. QED
  BY <1>1, <1>2 DEF Composed

\* A request that names no session, wherever its cookies are.
LEMMA NoSessionNamed ==
    ASSUME Shaped, ~Contains(Raw, "session_id=")
    PROVE  GetSessionIdFromCookie(Raw) = <<>>
<1> DEFINE one == 1
           cookie == Find(Raw, <<"Cookie:">>, one)
           session == Find(Raw, <<"session_id=">>, cookie)
<1>1. GetSessionIdFromCookie(Raw) = <<>> \/ (cookie # 0 /\ session # 0)
  BY Zenon DEF GetSessionIdFromCookie
<1>2. ASSUME cookie # 0
      PROVE  session = 0
  <2>1. Raw \in Seq(Tokens) /\ one \in Nat \ {0} /\ "Cookie:" \in Tokens /\ "session_id=" \in Tokens
    BY RawTyped, TokensAssumption
  <2> HIDE DEF one
  <2>2. TokenAt(Raw, "Cookie:", one, cookie)
    BY <2>1, FindsToken, Zenon
  <2> HIDE DEF cookie
  <2>3. cookie \in Nat \ {0}
    BY <1>2, <2>1, <2>2 DEF TokenAt
  <2>4. \A i \in cookie .. Len(Raw) : i \in 1 .. Len(Raw)
    BY <2>3, LenProperties
  <2>5. \A i \in cookie .. Len(Raw) : Raw[i] # "session_id="
    BY <2>4 DEF Contains
  <2>6. QED
    BY <2>1, <2>3, <2>5, FindToken, Zenon
<1>3. QED
  BY <1>1, <1>2

\* A request whose first Cookie header names a session.
LEMMA SessionFound ==
    ASSUME NEW value \in Seq(Tokens), NEW b, HeaderAt("Cookie:", b, value),
           NEW start, start # 0, TokenAt(value, "session_id=", 1, start)
    PROVE  /\ start \in 1 .. Len(value) /\ Len(value) \in Nat /\ b \in Nat /\ b + 3 + Len(value) <= Len(Raw)
           /\ Raw[b + 2 + start] = "session_id="
           /\ Find(Raw, <<"session_id=">>, Find(Raw, <<"Cookie:">>, 1)) = b + 2 + start
<1> DEFINE n == Len(value)
           all == Len(Raw)
           from == b + 1
           q == b + 2 + start
<1>1. start \in 1 .. n /\ value[start] = "session_id=" /\ \A i \in 1 .. start - 1 : value[i] # "session_id="
  BY DEF TokenAt
<1>2. /\ Raw \in Seq(Tokens) /\ b \in Nat /\ n \in Nat /\ b + 3 + n <= all /\ all \in Nat
      /\ Raw[b + 1] = "Cookie:" /\ Raw[b + 2] = Blank
      /\ \A i \in 1 .. n : Raw[b + 2 + i] = value[i]
      /\ Find(Raw, <<"Cookie:">>, 1) = from
  BY LenProperties DEF HeaderAt
<1>3. "session_id=" \in Tokens /\ "session_id=" # "Cookie:" /\ "session_id=" # Blank
  BY TokensAssumption DEF Blank
<1> HIDE DEF n, all
<1>4. from \in Nat \ {0} /\ q \in from .. all
  BY <1>1, <1>2
<1>5. Raw[q] = "session_id="
  BY <1>1, <1>2
<1>6. \A i \in from .. q - 1 : Raw[i] # "session_id="
  <2>1. SUFFICES ASSUME NEW i \in from .. q - 1
                 PROVE  Raw[i] # "session_id="
    OBVIOUS
  <2>2. i = b + 1 \/ i = b + 2 \/ (i - (b + 2) \in 1 .. start - 1 /\ i - (b + 2) \in 1 .. n /\ i = b + 2 + (i - (b + 2)))
    BY <1>1, <1>2
  <2>3. QED
    BY <1>1, <1>2, <1>3, <2>2
<1> HIDE DEF from, q
<1>7. q \in from .. Len(Raw)
  BY <1>4 DEF all
<1>8. Find(Raw, <<"session_id=">>, from) = q
  <2>1. Raw \in Seq(Tokens) /\ from \in Nat \ {0} /\ "session_id=" \in Tokens
    BY <1>2, <1>3, <1>4
  <2>2. QED
    BY <1>5, <1>6, <1>7, <2>1, FindToken, Zenon
<1>9. QED
  BY <1>1, <1>2, <1>5, <1>8 DEF q, n, all

\* Its value goes up to a semicolon of the header.
LEMMA SessionUpToSemicolon ==
    ASSUME NEW value \in Seq(Tokens), NEW b, HeaderAt("Cookie:", b, value),
           NEW start, start # 0, TokenAt(value, "session_id=", 1, start),
           NEW stop, stop # 0, TokenAt(value, Semicolon, start, stop)
    PROVE  GetSessionIdFromCookie(Raw) = SubSeq(value, start + 1, stop - 1)
<1> DEFINE cookie == Find(Raw, <<"Cookie:">>, 1)
           session == Find(Raw, <<"session_id=">>, cookie)
           semicolon == Find(Raw, <<Semicolon>>, session)
           eol == Find(Raw, <<CRLF>>, session)
           end == IF semicolon # 0 THEN semicolon ELSE eol
           n == Len(value)
           o == b + 2
           i == start + 1
           j == stop - 1
<1>1. GetSessionIdFromCookie(Raw) = IF cookie = 0 \/ session = 0 \/ end = 0 THEN <<>>
                                    ELSE SubSeq(Raw, session + 1, end - 1)
  BY Zenon DEF GetSessionIdFromCookie
<1>2. /\ start \in 1 .. n /\ n \in Nat /\ b \in Nat /\ b + 3 + n <= Len(Raw)
      /\ session = b + 2 + start
  BY SessionFound
<1>3. cookie = b + 1 /\ Raw \in Seq(Tokens) /\ \A x \in 1 .. n : Raw[b + 2 + x] = value[x]
  BY DEF HeaderAt
<1>4. stop \in start .. n /\ value[stop] = Semicolon /\ value[start] = "session_id="
  BY <1>2 DEF TokenAt
<1>5. Semicolon \in Tokens /\ Semicolon # "session_id="
  BY TokensAssumption DEF Semicolon
<1>6. stop > start
  BY <1>2, <1>4, <1>5
<1> HIDE DEF cookie, session, eol, n
<1>7. Find(Raw, <<Semicolon>>, b + 2 + start) = b + 2 + stop
  <2>1. start \in 1 .. Len(value)
    BY <1>2 DEF n
  <2>2. QED
    BY <1>5, <2>1, FoundInHeader
<1>8. semicolon = b + 2 + stop
  BY <1>2, <1>7
<1> HIDE DEF semicolon
<1>9. cookie # 0 /\ session # 0 /\ end # 0 /\ end = semicolon
  <2>1. stop \in Nat
    BY <1>2, <1>4
  <2>2. b + 1 # 0 /\ b + 2 + start # 0 /\ b + 2 + stop # 0
    BY <1>2, <2>1
  <2>3. QED
    BY <1>2, <1>3, <1>8, <2>2
<1>10. GetSessionIdFromCookie(Raw) = SubSeq(Raw, session + 1, semicolon - 1)
  BY <1>1, <1>9
<1>11. /\ o \in Nat /\ i \in Nat \ {0} /\ j \in Nat /\ j <= n
       /\ session + 1 = o + i /\ semicolon - 1 = o + j /\ o + n <= Len(Raw)
       /\ \A x \in 1 .. n : Raw[o + x] = value[x]
  BY <1>2, <1>3, <1>4, <1>8, LenProperties
<1> HIDE DEF o, i, j
<1>12. SubSeq(Raw, o + i, o + j) = SubSeq(value, i, j)
  <2>1. Within(Raw, value, o) /\ j <= Len(value)
    BY <1>11 DEF n, Within
  <2>2. Raw \in Seq(Tokens) /\ o \in Nat /\ i \in Nat \ {0} /\ j \in Nat
    BY <1>3, <1>11
  <2>3. value \in Seq(Tokens)
    OBVIOUS
  <2>4. SameStretches(Raw, value, o)
    BY <2>1, <2>2, <2>3, StretchesInRaw, Zenon
  <2>5. QED
    BY <2>1, <2>2, <2>4, Zenon DEF SameStretches
<1>13. QED
  BY <1>10, <1>11, <1>12 DEF i, j

\* Where no semicolon follows at all, it goes to the end of the header.
LEMMA SessionUpToLineEnd ==
    ASSUME NEW value \in Seq(Tokens), NEW b, HeaderAt("Cookie:", b, value),
           NEW start, start # 0, TokenAt(value, "session_id=", 1, start),
           NEW first \in 1 .. b + 2 + start, \A x \in first + 1 .. Len(Raw) : Raw[x] # Semicolon
    PROVE  GetSessionIdFromCookie(Raw) = After(value, start)
<1> DEFINE cookie == Find(Raw, <<"Cookie:">>, 1)
           session == Find(Raw, <<"session_id=">>, cookie)
           semicolon == Find(Raw, <<Semicolon>>, session)
           eol == Find(Raw, <<CRLF>>, session)
           end == IF semicolon # 0 THEN semicolon ELSE eol
           n == Len(value)
           all == Len(Raw)
           o == b + 2
           i == start + 1
           q == b + 3 + n
<1>1. GetSessionIdFromCookie(Raw) = IF cookie = 0 \/ session = 0 \/ end = 0 THEN <<>>
                                    ELSE SubSeq(Raw, session + 1, end - 1)
  BY Zenon DEF GetSessionIdFromCookie
<1>2. /\ start \in 1 .. n /\ n \in Nat /\ b \in Nat /\ b + 3 + n <= all
      /\ session = b + 2 + start /\ Raw[b + 2 + start] = "session_id="
  BY SessionFound
<1>3. /\ cookie = b + 1 /\ Raw \in Seq(Tokens) /\ all \in Nat
      /\ \A x \in 1 .. n : Raw[b + 2 + x] = value[x] /\ value[x] # CRLF
      /\ Raw[q] = CRLF
  BY LenProperties DEF HeaderAt
<1>5. /\ Semicolon \in Tokens /\ Semicolon # "session_id=" /\ CRLF \in Tokens
  BY TokensAssumption DEF Semicolon
<1> HIDE DEF cookie, session, n, all
<1>6. session \in Nat \ {0} /\ q \in session .. all /\ first \in 1 .. session
  BY <1>2, <1>3
<1>7. semicolon = 0
  <2>1. \A x \in session .. all : x = session \/ x \in first + 1 .. all
    BY <1>3, <1>6
  <2>2. \A x \in first + 1 .. all : Raw[x] # Semicolon
    BY DEF all
  <2>3. \A x \in session .. Len(Raw) : Raw[x] # Semicolon
    BY <1>2, <1>5, <2>1, <2>2 DEF all
  <2>4. Raw \in Seq(Tokens) /\ session \in Nat \ {0} /\ Semicolon \in Tokens
    BY <1>3, <1>5, <1>6
  <2>5. QED
    BY <2>3, <2>4, FindToken, Zenon
<1>8. eol = q
  <2>1. \A x \in session .. q - 1 : Raw[x] # CRLF
    <3>1. SUFFICES ASSUME NEW x \in session .. q - 1
                   PROVE  Raw[x] # CRLF
      OBVIOUS
    <3>2. x - (b + 2) \in 1 .. n /\ x = b + 2 + (x - (b + 2))
      BY <1>2
    <3>3. QED
      BY <1>3, <3>2
  <2> HIDE DEF q
  <2>2. q \in session .. Len(Raw) /\ Raw[q] = CRLF
    BY <1>3, <1>6 DEF all
  <2>3. QED
    BY <1>3, <1>5, <1>6, <2>1, <2>2, FindToken, Zenon
<1> HIDE DEF semicolon, eol
<1>9. cookie # 0 /\ session # 0 /\ end # 0 /\ end = q
  BY <1>2, <1>3, <1>7, <1>8
<1>10. GetSessionIdFromCookie(Raw) = SubSeq(Raw, session + 1, q - 1)
  BY <1>1, <1>9
<1>11. /\ o \in Nat /\ i \in Nat \ {0} /\ n \in Nat /\ n <= n
       /\ session + 1 = o + i /\ q - 1 = o + n /\ o + n <= all
       /\ \A x \in 1 .. n : Raw[o + x] = value[x]
  BY <1>2, <1>3
<1> HIDE DEF o, i, q
<1>12. SubSeq(Raw, o + i, o + n) = SubSeq(value, i, n)
  <2>1. Within(Raw, value, o) /\ n <= Len(value)
    BY <1>11 DEF n, all, Within
  <2>2. Raw \in Seq(Tokens) /\ o \in Nat /\ i \in Nat \ {0} /\ n \in Nat
    BY <1>3, <1>11
  <2>3. value \in Seq(Tokens)
    OBVIOUS
  <2>4. SameStretches(Raw, value, o)
    BY <2>1, <2>2, <2>3, StretchesInRaw, Zenon
  <2>5. QED
    BY <2>1, <2>2, <2>4, Zenon DEF SameStretches
<1>13. QED
  BY <1>10, <1>11, <1>12 DEF i, n, After

\* All of SessionIsRead, from the shape of what is sent.
LEMMA SessionReadFromShape ==
    ASSUME Shaped, HeaderFree
    PROVE  SessionIsRead
<1> DEFINE value == SentHeader("Cookie:")
           one == 1
           start == Find(value, <<"session_id=">>, one)
           stop == Find(value, <<Semicolon>>, start)
           first == Find(Raw, <<"session_id=">>, one)
           end == Len(Raw)
<1>1. /\ value \in Seq(Tokens) /\ Raw \in Seq(Tokens) /\ one \in Nat \ {0}
      /\ "session_id=" \in Tokens /\ Semicolon \in Tokens
  BY HeaderTyped, RawTyped, TokensAssumption
<1>2. value = <<>> \/ \E b : HeaderAt("Cookie:", b, value)
  BY HeaderValue, OtherTokens
<1> HIDE DEF value, one
<1>3. TokenAt(value, "session_id=", one, start)
  BY <1>1, FindsToken, Zenon
<1>4. TokenAt(Raw, "session_id=", one, first)
  BY <1>1, FindsToken, Zenon
<1> HIDE DEF start, first
<1>5. ASSUME start # 0
      PROVE  /\ \E b : HeaderAt("Cookie:", b, value)
             /\ start \in 1 .. Len(value) /\ TokenAt(value, "session_id=", 1, start)
             /\ TokenAt(value, Semicolon, start, stop)
  <2>1. TokenAt(value, "session_id=", 1, start)
    BY <1>3 DEF one
  <2>2. start \in 1 .. Len(value)
    BY <1>5, <2>1 DEF TokenAt
  <2>3. start \in Nat \ {0}
    BY <1>1, <2>2, LenProperties
  <2>4. TokenAt(value, Semicolon, start, stop)
    BY <1>1, <2>3, FindsToken, Zenon
  <2>5. value # <<>>
    BY <2>2
  <2>6. QED
    BY <1>2, <2>1, <2>2, <2>4, <2>5
<1> HIDE DEF stop
<1>6. ASSUME start # 0, stop # 0
      PROVE  GetSessionIdFromCookie(Raw) = SubSeq(value, start + 1, stop - 1)
  <2>1. PICK b : HeaderAt("Cookie:", b, value)
    BY <1>5, <1>6
  <2>2. QED
    BY <1>1, <1>5, <1>6, <2>1, SessionUpToSemicolon
<1>7. ASSUME start # 0, ~Contains(After(Raw, first), Semicolon)
      PROVE  GetSessionIdFromCookie(Raw) = After(value, start)
  <2>1. PICK b : HeaderAt("Cookie:", b, value)
    BY <1>5, <1>7
  <2> DEFINE session == b + 2 + start
             m == first + 1
  <2>2. start \in 1 .. Len(value) /\ TokenAt(value, "session_id=", 1, start)
    BY <1>5, <1>7
  <2>3. /\ Len(value) \in Nat /\ b \in Nat /\ b + 3 + Len(value) <= end
        /\ Raw[session] = "session_id="
    BY <1>1, <1>7, <2>1, <2>2, SessionFound
  <2>4. end \in Nat
    BY <1>1, LenProperties
  <2>5. session \in 1 .. end
    BY <2>2, <2>3, <2>4
  <2> HIDE DEF session
  <2>6. first \in 1 .. session
    <3>1. CASE first = 0 /\ \A i \in one .. end : Raw[i] # "session_id="
      BY <2>3, <2>5, <3>1 DEF one
    <3>2. CASE first \in one .. end /\ \A i \in one .. first - 1 : Raw[i] # "session_id="
      <4>1. ~(session \in one .. first - 1)
        BY <2>3, <3>2
      <4>2. QED
        BY <2>4, <2>5, <3>2, <4>1 DEF one
    <3>3. QED
      BY <1>4, <3>1, <3>2 DEF TokenAt
  <2>7. \A x \in m .. end : Raw[x] # Semicolon
    <3>1. \A x \in m .. end : x \in 1 .. Len(Raw)
      BY <2>4, <2>5, <2>6
    <3>2. \A x \in m .. end : Raw[x] \in Tokens
      BY <1>1, <3>1, ElementOfSeq
    <3>3. m \in Int /\ end \in Int
      BY <2>4, <2>5, <2>6
    <3> HIDE DEF m, end
    <3>4. /\ Len(SubSeq(Raw, m, end)) = IF m <= end THEN end - m + 1 ELSE 0
          /\ \A i \in 1 .. end - m + 1 : SubSeq(Raw, m, end)[i] = Raw[m + i - 1]
      BY <3>2, <3>3, SubSeqProperties
    <3>5. After(Raw, first) = SubSeq(Raw, m, end)
      BY DEF After, m, end
    <3>6. \A i \in 1 .. Len(SubSeq(Raw, m, end)) : SubSeq(Raw, m, end)[i] # Semicolon
      BY <1>7, <3>5 DEF Contains
    <3>7. SUFFICES ASSUME NEW x \in m .. end
                   PROVE  Raw[x] # Semicolon
      OBVIOUS
    <3>8. x - m + 1 \in 1 .. end - m + 1 /\ m + (x - m + 1) - 1 = x /\ m <= end
      BY <3>3
    <3>9. QED
      BY <3>4, <3>6, <3>8
  <2>8. QED
    BY <1>1, <1>7, <2>1, <2>2, <2>6, <2>7, SessionUpToLineEnd DEF session
<1>8. ~Contains(Raw, "session_id=") => GetSessionIdFromCookie(Raw) = <<>>
  BY NoSessionNamed
<1>9. SessionIsRead = (/\ start # 0 /\ stop # 0 =>
                              GetSessionIdFromCookie(Raw) = SubSeq(value, start + 1, stop - 1)
                       /\ start # 0 /\ ~Contains(After(Raw, first), Semicolon) =>
                              GetSessionIdFromCookie(Raw) = After(value, start)
                       /\ ~Contains(Raw, "session_id=") => GetSessionIdFromCookie(Raw) = <<>>)
  BY Zenon DEF SessionIsRead, value, one, start, stop, first
<1>10. QED
  BY <1>6, <1>7, <1>8, <1>9

\* get_session_id_from_cookie() (session_manager.cpp:33-55) reads the session a
\* client sends, wherever it stands among cookies and headers, up to the next
\* semicolon; and no session where none is named: for requests of any length.
THEOREM SessionAlwaysRead == TextSpec => []SessionIsRead
<1>1. Shaped /\ HeaderFree => SessionIsRead
  BY SessionReadFromShape
<1>2. QED
  BY <1>1, HeaderNamesStandAlone, PTL
-----------------------------------------------------------------------------
(* Pages: what is escaped is shown as it was. *)

\* What html_escape() makes of one character.
Safe(c) == CASE c = "&" -> <<"&", "amp;">>
             [] c = "<" -> <<"&", "lt;">>
             [] c = ">" -> <<"&", "gt;">>
             [] c = "quote" -> <<"&", "quot;">>
             [] OTHER -> <<c>>

Markup == {"<", ">", "quote"}
Harmless(S) == (S \cup {"&", "amp;", "lt;", "gt;", "quot;"}) \ Markup

LEMMA SafeFacts ==
    ASSUME NEW S, NEW c \in S
    PROVE  /\ Safe(c) \in Seq(Harmless(S))
           /\ \/ /\ Len(Safe(c)) = 1 /\ Safe(c)[1] = c /\ c # "&"
              \/ /\ Len(Safe(c)) = 2 /\ Safe(c)[1] = "&"
                 /\ Safe(c)[2] \in DOMAIN Entity /\ Entity[Safe(c)[2]] = c
<1>1. CASE c = "&"
  BY <1>1 DEF Safe, Harmless, Markup, Entity
<1>2. CASE c = "<"
  BY <1>2 DEF Safe, Harmless, Markup, Entity
<1>3. CASE c = ">"
  BY <1>3 DEF Safe, Harmless, Markup, Entity
<1>4. CASE c = "quote"
  BY <1>4 DEF Safe, Harmless, Markup, Entity
<1>5. CASE c \notin Markup \cup {"&"}
  <2>1. Safe(c) = <<c>>
    BY <1>5 DEF Safe, Markup
  <2>2. c \in Harmless(S)
    BY <1>5 DEF Harmless
  <2>3. QED
    BY <1>5, <2>1, <2>2
<1>6. QED
  BY <1>1, <1>2, <1>3, <1>4, <1>5 DEF Markup

\* A browser's reading of escaped text, step by step.
LEMMA ShownSteps ==
    ASSUME NEW e, Len(e) \in Nat
    PROVE  \E f : /\ Shown(e) = f[1]
                  /\ f[Len(e) + 1] = <<>>
                  /\ \A i \in 1 .. Len(e) :
                        f[i] = IF e[i] = "&" /\ i < Len(e) /\ e[i + 1] \in DOMAIN Entity
                               THEN <<Entity[e[i + 1]]>> \o f[i + 2]
                               ELSE <<e[i]>> \o f[i + 1]
<1> DEFINE D == Len(e)
           N == D + 2
           Ent(i) == e[i] = "&" /\ i < D /\ e[i + 1] \in DOMAIN Entity
           F == CHOOSE f : f =
                  [i \in 1 .. N |->
                     IF i > D THEN <<>>
                     ELSE IF e[i] = "&" /\ i < D /\ e[i + 1] \in DOMAIN Entity
                          THEN <<Entity[e[i + 1]]>> \o f[i + 2]
                     ELSE <<e[i]>> \o f[i + 1]]
           stop == {i \in 1 .. N : i > D}
           next == [i \in 1 .. N |-> IF Ent(i) THEN i + 2 ELSE i + 1]
           v == [i \in 1 .. N |-> IF Ent(i) THEN Entity[e[i + 1]] ELSE e[i]]
<1>1. Shown(e) = F[1]
  BY DEF Shown
<1>2. Forward(N, stop, next)
  BY DEF Forward
<1>3. N \in Nat /\ D \in Nat
  OBVIOUS
<1>4. \E f : IsDecoder(f, N, stop, next, v)
  <2> HIDE DEF N, stop, next, v
  <2>1. QED
    BY <1>2, <1>3, DecoderExists, Zenon
<1>5. ASSUME NEW f, NEW i \in 1 .. N
      PROVE  (IF i \in stop THEN <<>> ELSE <<v[i]>> \o f[next[i]])
               = (IF i > D THEN <<>>
                  ELSE IF e[i] = "&" /\ i < D /\ e[i + 1] \in DOMAIN Entity
                       THEN <<Entity[e[i + 1]]>> \o f[i + 2]
                  ELSE <<e[i]>> \o f[i + 1])
  <2> HIDE DEF D, N
  <2>1. CASE i > D
    BY <2>1
  <2>2. CASE ~(i > D) /\ Ent(i)
    BY <2>2
  <2>3. CASE ~(i > D) /\ ~Ent(i)
    BY <2>3
  <2>4. QED
    BY <2>1, <2>2, <2>3
<1> HIDE DEF stop, next, v
<1>6. PICK f : IsDecoder(f, N, stop, next, v)
  BY <1>4
<1> HIDE DEF N, D
<1>7. f = [i \in 1 .. N |->
             IF i > D THEN <<>>
             ELSE IF e[i] = "&" /\ i < D /\ e[i + 1] \in DOMAIN Entity
                  THEN <<Entity[e[i + 1]]>> \o f[i + 2]
             ELSE <<e[i]>> \o f[i + 1]]
  BY <1>5, <1>6 DEF IsDecoder
<1>8. F = [i \in 1 .. N |->
             IF i > D THEN <<>>
             ELSE IF e[i] = "&" /\ i < D /\ e[i + 1] \in DOMAIN Entity
                  THEN <<Entity[e[i + 1]]>> \o F[i + 2]
             ELSE <<e[i]>> \o F[i + 1]]
  BY <1>7
<1> HIDE DEF F
<1>9. D + 1 \in 1 .. N /\ D + 1 > D /\ \A i \in 1 .. D : i \in 1 .. N /\ ~(i > D)
  BY <1>3 DEF N
<1>10. F[D + 1] = <<>>
  BY <1>8, <1>9
<1>11. ASSUME NEW i \in 1 .. D
       PROVE  F[i] = IF e[i] = "&" /\ i < D /\ e[i + 1] \in DOMAIN Entity
                     THEN <<Entity[e[i + 1]]>> \o F[i + 2]
                     ELSE <<e[i]>> \o F[i + 1]
  BY <1>8, <1>9
<1>12. QED
  BY <1>1, <1>10, <1>11 DEF D

\* html_escape() (handlers/echo.cpp:22-45) puts no markup on a page, and a browser
\* shows the text that was escaped: any text, of any length.
THEOREM PageShowsText ==
    ASSUME NEW S, NEW text \in Seq(S)
    PROVE  Shown(HtmlEscape(text)) = text /\ ToSet(HtmlEscape(text)) \cap Markup = {}
<1> DEFINE n == Len(text)
           H == Harmless(S)
           safe == [i \in DOMAIN text |-> Safe(text[i])]
           e == HtmlEscape(text)
<1>1. n \in Nat /\ DOMAIN text = 1 .. n /\ \A i \in 1 .. n : text[i] \in S
  BY LenProperties, ElementOfSeq
<1>2. e = FlattenSeq(safe)
  BY Zenon DEF HtmlEscape, Safe
<1>3. safe \in [1 .. n -> Seq(H)] /\ \A i \in 1 .. n : safe[i] = Safe(text[i])
  <2>1. \A i \in 1 .. n : Safe(text[i]) \in Seq(H)
    BY <1>1, SafeFacts, Zenon
  <2> HIDE DEF n, H
  <2>2. QED
    BY <1>1, <2>1
<1> HIDE DEF safe, e, H
<1>4. safe \in Seq(Seq(H)) /\ Len(safe) = n
  <2>1. safe \in Seq(Seq(H))
    BY <1>1, <1>3, SeqDef
  <2>2. QED
    BY <1>1, <1>3, <2>1, LenProperties
<1>5. e \in Seq(H)
  BY <1>2, <1>4, FlattenTyped
<1>6. PICK pos : Cuts(pos, safe, e)
  BY <1>2, <1>4, FlattenCuts
<1>7. Len(e) \in Nat /\ pos[1] = 1 /\ pos[n + 1] = Len(e) + 1
  BY <1>4, <1>5, <1>6, LenProperties DEF Cuts
<1>8. PICK f : /\ Shown(e) = f[1]
               /\ f[Len(e) + 1] = <<>>
               /\ \A i \in 1 .. Len(e) :
                     f[i] = IF e[i] = "&" /\ i < Len(e) /\ e[i + 1] \in DOMAIN Entity
                            THEN <<Entity[e[i + 1]]>> \o f[i + 2]
                            ELSE <<e[i]>> \o f[i + 1]
  BY <1>7, ShownSteps
<1>9. ASSUME NEW i \in 1 .. n
      PROVE  f[pos[i]] = <<text[i]>> \o f[pos[i + 1]]
  <2> DEFINE p == pos[i]
             q == pos[i + 1]
             c == text[i]
             s == safe[i]
  <2>1. /\ p \in Nat \ {0} /\ Len(s) \in Nat /\ q = p + Len(s) /\ q <= Len(e) + 1
        /\ \A k \in 1 .. Len(s) : e[p + k - 1] = s[k]
    BY <1>4, <1>6 DEF Cuts
  <2>2. \/ Len(s) = 1 /\ s[1] = c /\ c # "&"
        \/ Len(s) = 2 /\ s[1] = "&" /\ s[2] \in DOMAIN Entity /\ Entity[s[2]] = c
    <3>1. c \in S /\ s = Safe(c)
      BY <1>1, <1>3
    <3>2. QED
      BY <3>1, SafeFacts
  <2> HIDE DEF p, q, c, s
  <2>3. CASE Len(s) = 1 /\ s[1] = c /\ c # "&"
    <3>1. e[p + 1 - 1] = s[1]
      BY <2>1, <2>3
    <3>2. p + 1 - 1 = p /\ p \in 1 .. Len(e) /\ q = p + 1
      BY <1>7, <2>1, <2>3
    <3>3. QED
      BY <1>8, <2>3, <3>1, <3>2 DEF p, q, c
  <2>4. CASE Len(s) = 2 /\ s[1] = "&" /\ s[2] \in DOMAIN Entity /\ Entity[s[2]] = c
    <3>1. e[p + 1 - 1] = s[1] /\ e[p + 2 - 1] = s[2]
      BY <2>1, <2>4
    <3>2. p + 1 - 1 = p /\ p + 2 - 1 = p + 1 /\ p \in 1 .. Len(e) /\ p < Len(e) /\ q = p + 2
      BY <1>7, <2>1, <2>4
    <3>3. QED
      BY <1>8, <2>4, <3>1, <3>2 DEF p, q, c
  <2>5. QED
    BY <2>2, <2>3, <2>4
<1>10. f[pos[n + 1]] = <<>>
  BY <1>7, <1>8
<1>11. f[pos[1]] = text
  BY <1>9, <1>10, WalkBack
<1>12. ToSet(e) \cap Markup = {}
  <2>1. \A x \in 1 .. Len(e) : e[x] \in H
    BY <1>5, ElementOfSeq
  <2>2. DOMAIN e = 1 .. Len(e)
    BY <1>5
  <2>3. QED
    BY <2>1, <2>2 DEF ToSet, H, Harmless
<1>13. QED
  BY <1>7, <1>8, <1>11, <1>12 DEF e
-----------------------------------------------------------------------------
(* Paths and queries: what parse() takes a target for. *)

\* Path and query of a target.
PathOf(target) ==
    LET q == Find(target, <<"?">>, 1) IN IF q = 0 THEN target ELSE Before(target, q)

QueryOf(target) ==
    LET q == Find(target, <<"?">>, 1) IN IF q = 0 THEN <<>> ELSE After(target, q)

\* A text without its first token, and a text up to some token.
LEMMA AfterFirst ==
    ASSUME NEW S, NEW t \in Seq(S), Len(t) > 0
    PROVE  /\ After(t, 1) \in Seq(S) /\ Len(t) \in Nat /\ Len(After(t, 1)) = Len(t) - 1
           /\ \A i \in 1 .. Len(t) - 1 : After(t, 1)[i] = t[i + 1]
<1> DEFINE n == Len(t)
           two == 2
<1>1. n \in Nat /\ \A i \in 1 .. n : t[i] \in S
  BY LenProperties, ElementOfSeq
<1>2. After(t, 1) = SubSeq(t, two, n)
  BY DEF After
<1>3. two \in Int /\ n \in Int /\ \A i \in two .. n : t[i] \in S
  BY <1>1
<1>4. n > 0 /\ (two <= n <=> 2 <= n) /\ n - two + 1 = n - 1
  BY <1>1
<1> HIDE DEF n, two
<1>5. /\ SubSeq(t, two, n) \in Seq(S)
      /\ Len(SubSeq(t, two, n)) = IF two <= n THEN n - two + 1 ELSE 0
      /\ \A i \in 1 .. n - two + 1 : SubSeq(t, two, n)[i] = t[two + i - 1]
  BY <1>3, SubSeqProperties
<1>6. Len(SubSeq(t, two, n)) = n - 1
  BY <1>1, <1>4, <1>5
<1>7. \A i \in 1 .. n - 1 : two + i - 1 = i + 1
  BY <1>1 DEF two
<1>8. QED
  BY <1>1, <1>2, <1>4, <1>5, <1>6, <1>7 DEF n

LEMMA UpTo ==
    ASSUME NEW S, NEW t \in Seq(S), NEW q \in 1 .. Len(t)
    PROVE  /\ Before(t, q) \in Seq(S) /\ Len(Before(t, q)) = q - 1
           /\ \A i \in 1 .. q - 1 : Before(t, q)[i] = t[i]
<1> DEFINE n == Len(t)
           one == 1
           j == q - 1
<1>1. n \in Nat /\ q \in 1 .. n /\ \A i \in 1 .. n : t[i] \in S
  BY LenProperties, ElementOfSeq
<1>2. Before(t, q) = SubSeq(t, one, j)
  BY DEF Before
<1>3. one \in Int /\ j \in Int /\ j \in Nat
  BY <1>1
<1> HIDE DEF n
<1>4. \A i \in one .. j : t[i] \in S
  BY <1>1
<1>5. j - one + 1 = j /\ (IF one <= j THEN j - one + 1 ELSE 0) = j /\ \A i \in 1 .. j : one + i - 1 = i
  BY <1>3
<1> HIDE DEF one, j
<1>6. /\ SubSeq(t, one, j) \in Seq(S)
      /\ Len(SubSeq(t, one, j)) = IF one <= j THEN j - one + 1 ELSE 0
      /\ \A i \in 1 .. j - one + 1 : SubSeq(t, one, j)[i] = t[one + i - 1]
  BY <1>3, <1>4, SubSeqProperties
<1>7. QED
  BY <1>2, <1>5, <1>6 DEF j

\* The path of a target begins as the target does, and has no question mark.
LEMMA PathFacts ==
    ASSUME NEW target \in Seq(Tokens), Len(target) > 0, target[1] = "/"
    PROVE  /\ PathOf(target) \in Seq(Tokens) /\ Len(PathOf(target)) \in 1 .. Len(target)
           /\ \A i \in 1 .. Len(PathOf(target)) :
                 PathOf(target)[i] = target[i] /\ PathOf(target)[i] # "?"
           /\ PathOf(target)[1] = "/"
<1> DEFINE one == 1
           q == Find(target, <<"?">>, one)
           n == Len(target)
           P == PathOf(target)
<1>1. one \in Nat \ {0} /\ "?" \in Tokens /\ n \in Nat
  BY TokensAssumption, LenProperties
<1>2. P = IF q = 0 THEN target ELSE Before(target, q)
  BY DEF PathOf
<1> HIDE DEF one, P
<1>3. TokenAt(target, "?", one, q)
  BY <1>1, FindsToken, Zenon
<1> HIDE DEF q
<1>4. CASE q = 0
  <2>1. \A i \in 1 .. n : target[i] # "?"
    BY <1>1, <1>3, <1>4 DEF TokenAt, one
  <2>2. P = target
    BY <1>2, <1>4
  <2>3. QED
    BY <1>1, <2>1, <2>2 DEF P
<1>5. CASE q # 0
  <2>1. q \in 1 .. n /\ target[q] = "?" /\ \A i \in 1 .. q - 1 : target[i] # "?"
    BY <1>3, <1>5 DEF TokenAt, one
  <2>2. q # 1
    BY <2>1
  <2>3. P = Before(target, q)
    BY <1>2, <1>5
  <2>4. P \in Seq(Tokens) /\ Len(P) = q - 1 /\ \A i \in 1 .. q - 1 : P[i] = target[i]
    BY <2>1, <2>3, UpTo
  <2> HIDE DEF n
  <2>5. q - 1 \in 1 .. n /\ 1 \in 1 .. q - 1
    BY <1>1, <2>1, <2>2
  <2>6. P[1] = target[1]
    BY <2>4, <2>5
  <2>7. QED
    BY <2>1, <2>4, <2>5, <2>6 DEF P, n
<1>6. QED
  BY <1>4, <1>5

\* A target without its first slash has the same query, and the same path but
\* for the slash.
LEMMA WithoutSlash ==
    ASSUME NEW target \in Seq(Tokens), Len(target) > 0, target[1] = "/"
    PROVE  /\ PathOf(After(target, 1)) = After(PathOf(target), 1)
           /\ QueryOf(After(target, 1)) = QueryOf(target)
<1> DEFINE one == 1
           q == Find(target, <<"?">>, one)
           n == Len(target)
           T == target
           R == After(target, 1)
           r == Find(R, <<"?">>, one)
           P == Before(target, q)
<1>1. one \in Nat \ {0} /\ "?" \in Tokens /\ n \in Nat /\ T \in Seq(Tokens) /\ T[1] = "/"
  BY TokensAssumption, LenProperties
<1>2. /\ PathOf(target) = IF q = 0 THEN T ELSE P
      /\ QueryOf(target) = IF q = 0 THEN <<>> ELSE After(T, q)
      /\ PathOf(R) = IF r = 0 THEN R ELSE Before(R, r)
      /\ QueryOf(R) = IF r = 0 THEN <<>> ELSE After(R, r)
  BY DEF PathOf, QueryOf
<1>3. R \in Seq(Tokens) /\ Len(R) = n - 1 /\ \A i \in 1 .. n - 1 : R[i] = T[i + 1]
  BY AfterFirst
<1>4. n > 0
  OBVIOUS
<1> HIDE DEF one, R, T, n
<1>5. TokenAt(T, "?", one, q)
  BY <1>1, FindsToken, Zenon DEF T
<1> HIDE DEF q, P
<1>6. CASE q = 0
  <2>1. \A i \in 1 .. n : T[i] # "?"
    BY <1>1, <1>5, <1>6 DEF TokenAt, one, T, n
  <2>2. \A i \in 1 .. n - 1 : i + 1 \in 1 .. n
    BY <1>1
  <2>3. \A i \in one .. Len(R) : R[i] # "?"
    BY <1>3, <2>1, <2>2 DEF one
  <2>4. r = 0
    <3> HIDE DEF r
    <3>1. Find(R, <<"?">>, one) = 0
      BY <1>1, <1>3, <2>3, FindToken, Zenon
    <3>2. QED
      BY <3>1 DEF r
  <2>5. QED
    BY <1>2, <1>6, <2>4 DEF R, T
<1>7. CASE q # 0
  <2>1. q \in 1 .. n /\ T[q] = "?" /\ \A i \in 1 .. q - 1 : T[i] # "?"
    BY <1>5, <1>7 DEF TokenAt, one, T, n
  <2>2. q # 1
    BY <1>1, <2>1
  <2> DEFINE s == q - 1
  <2>3. s \in 1 .. n - 1 /\ s \in Nat \ {0} /\ q = s + 1 /\ n - 1 \in Nat
    BY <1>1, <2>1, <2>2
  <2>4. R[s] = "?" /\ \A i \in 1 .. s - 1 : R[i] # "?"
    <3>1. \A i \in 1 .. s - 1 : i + 1 \in 1 .. q - 1 /\ i \in 1 .. n - 1
      BY <1>1, <2>3
    <3>2. QED
      BY <1>3, <2>1, <2>3, <3>1
  <2>5. r = s
    <3> HIDE DEF s, r
    <3>1. s \in one .. Len(R) /\ \A i \in one .. s - 1 : R[i] # "?"
      BY <1>3, <2>3, <2>4 DEF one
    <3>2. Find(R, <<"?">>, one) = s
      <4>1. R \in Seq(Tokens) /\ one \in Nat \ {0} /\ "?" \in Tokens /\ R[s] = "?"
        BY <1>1, <1>3, <2>4
      <4>2. QED
        BY <3>1, <4>1, FindToken, Zenon
    <3>3. QED
      BY <3>2 DEF r
  <2> HIDE DEF r
  <2>6. SameStretches(T, R, one)
    <3>1. Within(T, R, one)
      <4>1. one + Len(R) <= Len(T)
        BY <1>1, <1>3 DEF one, n, T
      <4>2. \A x \in 1 .. Len(R) : T[one + x] = R[x]
        <5>1. \A x \in 1 .. Len(R) : x \in 1 .. n - 1 /\ one + x = x + 1
          BY <1>1, <1>3 DEF one
        <5>2. QED
          BY <1>3, <5>1
      <4>3. QED
        BY <4>1, <4>2 DEF Within
    <3>2. one \in Nat
      BY <1>1
    <3>3. QED
      BY <1>1, <1>3, <3>1, <3>2, StretchesInRaw, Zenon
  <2>7. P \in Seq(Tokens) /\ Len(P) = s /\ \A i \in 1 .. s : P[i] = T[i]
    <3>1. q \in 1 .. Len(target)
      BY <2>1 DEF n
    <3>2. QED
      BY <3>1, UpTo DEF P, T
  <2> DEFINE zero == 0
  <2>8. SameStretches(T, P, zero)
    <3>1. Within(T, P, zero)
      <4>1. zero + Len(P) <= Len(T)
        BY <1>1, <2>3, <2>7 DEF n, T
      <4>2. \A x \in 1 .. Len(P) : zero + x = x
        BY <2>3, <2>7
      <4>3. QED
        BY <2>7, <4>1, <4>2 DEF Within
    <3>2. zero \in Nat
      OBVIOUS
    <3> HIDE DEF zero
    <3>3. QED
      BY <1>1, <2>7, <3>1, <3>2, StretchesInRaw, Zenon
  <2>9. After(P, 1) = Before(R, r)
    <3>1. SubSeq(T, zero + 2, zero + s) = SubSeq(P, 2, s)
      BY <2>3, <2>7, <2>8 DEF SameStretches
    <3>2. SubSeq(T, one + 1, one + (s - 1)) = SubSeq(R, 1, s - 1)
      <4>1. s - 1 \in Nat /\ 1 \in Nat \ {0} /\ s - 1 <= Len(R)
        BY <1>3, <2>3
      <4>2. QED
        BY <2>6, <4>1, Zenon DEF SameStretches
    <3>3. zero + 2 = one + 1 /\ zero + s = one + (s - 1)
      BY <2>3 DEF one
    <3>4. SubSeq(P, 2, s) = SubSeq(R, 1, s - 1)
      BY <3>1, <3>2, <3>3
    <3>5. After(P, 1) = SubSeq(P, 2, s)
      BY <2>7 DEF After
    <3>6. Before(R, r) = SubSeq(R, 1, s - 1)
      BY <2>5 DEF Before
    <3>7. QED
      BY <3>4, <3>5, <3>6
  <2>10. After(R, r) = After(T, q)
    <3>1. SubSeq(T, one + (s + 1), one + (n - 1)) = SubSeq(R, s + 1, n - 1)
      <4>1. n - 1 \in Nat /\ s + 1 \in Nat \ {0} /\ n - 1 <= Len(R)
        BY <1>3, <2>3
      <4>2. QED
        BY <2>6, <4>1, Zenon DEF SameStretches
    <3>2. one + (s + 1) = q + 1 /\ one + (n - 1) = n
      BY <1>1, <2>3 DEF one
    <3>3. After(R, r) = SubSeq(R, s + 1, n - 1)
      BY <1>3, <2>5 DEF After
    <3>4. After(T, q) = SubSeq(T, q + 1, n)
      BY DEF After, n, T
    <3>5. QED
      BY <3>1, <3>2, <3>3, <3>4
  <2>11. r # 0
    BY <2>3, <2>5
  <2>12. QED
    BY <1>2, <1>7, <2>9, <2>10, <2>11 DEF R, T
<1>8. QED
  BY <1>6, <1>7

\* A request text in which parse() finds a method and a target.
Reads(raw, k, target) ==
    /\ raw \in Seq(Tokens) /\ target \in Seq(Tokens) /\ Len(target) > 0 /\ target[1] = "/"
    /\ Within(raw, target, 2)
    /\ \A j \in 1 .. 3 : FindMethod(raw, Methods[j]) = IF j = k THEN 1 ELSE 0
    /\ Find(raw, Version, 1) = Len(target) + 3

\* What it makes of the path.
PathTaken(path, P) ==
    \/ path = P
    \/ path = <<>> /\ P = <<"/">>
    \/ path = After(P, 1) /\ Len(P) >= 2 /\ P[2] = "/"

\* All of a text.
LEMMA WholeText ==
    ASSUME NEW S, NEW P \in Seq(S)
    PROVE  SubSeq(P, 1, Len(P)) = P
<1> DEFINE n == Len(P)
           q == SubSeq(P, 1, n)
<1>1. 1 \in Int /\ n \in Int /\ n \in Nat /\ \A i \in 1 .. n : P[i] \in S
  BY ElementOfSeq, LenProperties
<1> HIDE DEF n
<1>2. /\ q \in Seq(S)
      /\ Len(q) = IF 1 <= n THEN n - 1 + 1 ELSE 0
      /\ \A i \in 1 .. n - 1 + 1 : q[i] = P[1 + i - 1]
  BY <1>1, SubSeqProperties
<1> HIDE DEF q
<1>3. q \in Seq(S) /\ Len(q) = n /\ \A i \in 1 .. n : q[i] = P[i]
  BY <1>1, <1>2
<1>4. q = P
  BY <1>3, SeqEqual DEF n
<1>5. QED
  BY <1>4 DEF q, n

\* parse() (http/request.cpp:91-96) puts the first slash of a path back, unless
\* another follows it or nothing does.
LEMMA PathNormalized ==
    ASSUME NEW P \in Seq(Tokens), Len(P) >= 1, P[1] = "/"
    PROVE  Normalize(P) = P /\ PathTaken(Normalize(After(P, 1)), P)
<1> DEFINE n == Len(P)
           A == After(P, 1)
<1>1. n \in Nat /\ A \in Seq(Tokens) /\ Len(A) = n - 1 /\ \A i \in 1 .. n - 1 : A[i] = P[i + 1]
  BY AfterFirst
<1>2. Normalize(P) = P
  BY DEF Normalize
<1>3. Normalize(A) = IF A = <<>> \/ A[1] = "/" THEN A ELSE <<"/">> \o A
  BY DEF Normalize
<1>4. CASE n = 1
  <2>1. A = <<>>
    BY <1>1, <1>4
  <2>2. P = <<"/">>
    BY <1>4
  <2>3. QED
    BY <1>2, <1>3, <2>1, <2>2 DEF PathTaken
<1>5. CASE n >= 2 /\ P[2] = "/"
  <2>1. A[1] = "/"
    BY <1>1, <1>5
  <2>2. QED
    BY <1>2, <1>3, <1>5, <2>1 DEF PathTaken
<1>6. CASE n >= 2 /\ P[2] # "/"
  <2>1. A[1] # "/" /\ A # <<>>
    BY <1>1, <1>6
  <2> DEFINE one == 1
  <2>2. one \in 1 .. n /\ one + 1 = 2
    BY <1>1, <1>6
  <2>3. A = SubSeq(P, one + 1, Len(P))
    BY DEF After
  <2>4. P = SubSeq(P, one, Len(P))
    BY WholeText
  <2> HIDE DEF A
  <2>5. <<P[one]>> \o SubSeq(P, one + 1, Len(P)) = SubSeq(P, one, Len(P))
    <3>1. one \in 1 .. Len(P)
      BY <2>2
    <3> HIDE DEF one, n
    <3>2. QED
      BY <3>1, ConsSubSeq, Zenon
  <2>6. <<"/">> \o A = P
    BY <2>3, <2>4, <2>5
  <2>7. QED
    BY <1>2, <1>3, <2>1, <2>6 DEF PathTaken, A
<1>7. QED
  BY <1>1, <1>4, <1>5, <1>6

\* What parse() makes of a text with a method, a target and a version.
LEMMA Parsed ==
    ASSUME NEW raw, NEW k \in 1 .. 3, NEW target, Reads(raw, k, target)
    PROVE  /\ Parse(raw).ok /\ Parse(raw).method = <<Methods[k]>>
           /\ PathTaken(Parse(raw).path, PathOf(target))
           /\ Parse(raw).query = QueryOf(target)
<1> DEFINE starts == [m \in 1 .. 3 |-> FindMethod(raw, Methods[m])]
           m == SelectInSeq(starts, LAMBDA i : i # 0)
           start == starts[m]
           end == Find(raw, Version, start)
           t == SubSeq(raw, start + (IF m = 3 THEN 2 ELSE 3), end - 1)
           I == {i \in 1 .. 3 : starts[i] # 0}
           L == Len(target)
<1>1. Parse(raw) = IF m = 0 THEN Unparsed(raw) ELSE IF end = 0 THEN Unversioned(raw, m)
                   ELSE [ok |-> TRUE, method |-> <<Methods[m]>>,
                         path |-> Normalize(PathOf(t)), query |-> QueryOf(t)]
  BY Zenon DEF Parse, PathOf, QueryOf
<1>2. \A j \in 1 .. 3 : starts[j] = IF j = k THEN 1 ELSE 0
  BY DEF Reads
<1>3. Len(starts) = 3
  OBVIOUS
<1>4. m = k
  <2>1. m = IF I # {} THEN Min(I) ELSE 0
    BY <1>3, Zenon DEF SelectInSeq
  <2>2. I = {k} /\ I \subseteq Nat
    BY <1>2
  <2>3. Min(I) \in I
    BY <2>2, HasMinimum
  <2>4. QED
    BY <2>1, <2>2, <2>3
<1>5. start = 1
  BY <1>2, <1>4
<1> HIDE DEF starts, m, start
<1>6. L \in Nat /\ L > 0 /\ target \in Seq(Tokens) /\ target[1] = "/" /\ raw \in Seq(Tokens)
  BY LenProperties DEF Reads
<1>7. end = L + 3
  BY <1>5 DEF Reads
<1> HIDE DEF end
<1> DEFINE two == 2
<1>8. SameStretches(raw, target, two)
  <2>1. two \in Nat /\ Within(raw, target, two)
    BY DEF Reads
  <2> HIDE DEF two
  <2>2. QED
    BY <1>6, <2>1, StretchesInRaw, Zenon
<1>9. \A i \in {1, 2} : SubSeq(raw, two + i, two + L) = SubSeq(target, i, L)
  <2>1. L <= Len(target) /\ \A i \in {1, 2} : i \in Nat \ {0}
    BY <1>6
  <2> HIDE DEF L, two
  <2>2. QED
    BY <1>6, <1>8, <2>1, Zenon DEF SameStretches
<1>10. t = IF k = 3 THEN target ELSE After(target, 1)
  <2>1. end - 1 = two + L
    BY <1>6, <1>7
  <2>2. CASE k = 3
    <3>1. start + (IF m = 3 THEN 2 ELSE 3) = two + 1
      BY <1>4, <1>5, <2>2
    <3>2. t = SubSeq(target, 1, L)
      BY <1>9, <2>1, <3>1
    <3>3. QED
      BY <1>6, <2>2, <3>2, WholeText
  <2>3. CASE k # 3
    <3>1. start + (IF m = 3 THEN 2 ELSE 3) = two + 2
      BY <1>4, <1>5, <2>3
    <3>2. t = SubSeq(target, 2, L)
      BY <1>9, <2>1, <3>1
    <3>3. After(target, 1) = SubSeq(target, 2, L)
      BY DEF After
    <3>4. QED
      BY <2>3, <3>2, <3>3
  <2>4. QED
    BY <2>2, <2>3
<1> DEFINE P == PathOf(target)
<1>11. P \in Seq(Tokens) /\ Len(P) >= 1 /\ P[1] = "/"
  <2>1. /\ P \in Seq(Tokens) /\ Len(P) \in 1 .. Len(target)
        /\ P[1] = "/"
    BY <1>6, PathFacts
  <2>2. QED
    BY <1>6, <2>1
<1>12. PathTaken(Normalize(PathOf(t)), P) /\ QueryOf(t) = QueryOf(target)
  <2>1. PathOf(After(target, 1)) = After(P, 1) /\ QueryOf(After(target, 1)) = QueryOf(target)
    BY <1>6, WithoutSlash
  <2> HIDE DEF P, t
  <2>2. Normalize(P) = P /\ PathTaken(Normalize(After(P, 1)), P)
    BY <1>11, PathNormalized
  <2>3. CASE k = 3
    BY <1>10, <2>2, <2>3 DEF PathTaken, P
  <2>4. CASE k # 3
    BY <1>10, <2>1, <2>2, <2>4
  <2>5. QED
    BY <2>3, <2>4
<1> HIDE DEF t
<1>13. m # 0 /\ end # 0
  BY <1>4, <1>6, <1>7
<1>14. QED
  BY <1>1, <1>4, <1>12, <1>13

\* What a client sends, when it is served, is such a text.
LEMMA SentReads ==
    ASSUME Shaped, Composed, ~Misleading, Verdict(Raw) = "served"
    PROVE  \E k \in 1 .. 3 : /\ Reads(Raw, k, Target) /\ message.method \in EndingIn[Methods[k]]
                             /\ Taken = {Methods[k]}
<1> DEFINE v == message.version
           k == Chosen
           L == Len(Target)
<1>1. Taken # {} /\ v # "none"
  <2>1. Parse(Raw).ok
    BY Zenon DEF Verdict
  <2>2. Unparsed(Raw).ok = FALSE
    BY DEF Unparsed
  <2>3. QED
    BY <2>1, <2>2, ParseFacts
<1>2. /\ k \in 1 .. 3 /\ message.method \in EndingIn[Methods[k]] /\ Taken = {Methods[k]}
      /\ Target[1] = "/"
  BY <1>1, ChosenFacts
<1> HIDE DEF k
<1>3. Target[1] = "/"
  BY <1>2
<1>4. ASSUME NEW j \in 1 .. 3
      PROVE  FindMethod(Raw, Methods[j]) = IF j = k THEN 1 ELSE 0
  <2>1. message.method \in EndingIn[Methods[j]] <=> j = k
    BY <1>2, MethodFacts
  <2>2. QED
    BY <1>3, <2>1, StartFound
<1>5. Find(Raw, Version, 1) = L + 3
  BY <1>1, EndFound
<1>6. Target \in Seq(Tokens) /\ L > 0 /\ L \in Nat
  <2>1. Target \in Seq(Words) /\ L > 0
    BY TargetFacts
  <2>2. \A i \in 1 .. L : Target[i] \in Tokens
    BY <2>1, ElementOfSeq DEF Words
  <2>3. QED
    BY <2>1, <2>2, LenProperties
<1>7. Raw \in Seq(Tokens)
  BY RawTyped
<1>8. Within(Raw, Target, 2)
  <2>1. /\ L + 2 <= Len(Line) /\ Len(Line) < Len(Raw) /\ Len(Line) \in Nat /\ Len(Raw) \in Nat
    BY LineInRaw
  <2>2. \A i \in 1 .. Len(Line) : Raw[i] = Line[i]
    BY RawFacts
  <2>3. \A i \in 1 .. L : Line[2 + i] = Target[i]
    BY LineFacts
  <2> HIDE DEF L
  <2>4. 2 + L <= Len(Raw) /\ \A i \in 1 .. L : 2 + i \in 1 .. Len(Line)
    BY <1>6, <2>1
  <2>5. \A i \in 1 .. L : Raw[2 + i] = Target[i]
    BY <2>2, <2>3, <2>4
  <2>6. QED
    BY <2>4, <2>5 DEF Within, L
<1>9. QED
  BY <1>2, <1>3, <1>4, <1>5, <1>6, <1>7, <1>8 DEF Reads

LEMMA SentPathIs == SentPath = PathOf(Target) /\ SentQuery = QueryOf(Target)
BY Zenon DEF SentPath, SentQuery, PathOf, QueryOf
-----------------------------------------------------------------------------
(* Redirects: they lead to the directory that was asked for. *)

\* A text inside another, up to its end or to a separator.
Embedded(raw, value, o, c) ==
    /\ Within(raw, value, o)
    /\ \/ o + Len(value) = Len(raw)
       \/ o + Len(value) < Len(raw) /\ raw[o + Len(value) + 1] = c

SamePieces(raw, value, o, c) ==
    \A i \in 1 .. Len(value) : PieceFrom(raw, c, o + i) = PieceFrom(value, c, i)

LEMMA PiecesInRaw ==
    ASSUME NEW raw \in Seq(Tokens), NEW value \in Seq(Tokens), NEW o \in Nat, NEW c \in Tokens,
           Embedded(raw, value, o, c)
    PROVE  SamePieces(raw, value, o, c)
<1> DEFINE n == Len(value)
           N == Len(raw)
<1>1. n \in Nat /\ N \in Nat /\ o \in Nat
  BY LenProperties
<1>2. /\ o + n <= N /\ \A x \in 1 .. n : raw[o + x] = value[x]
      /\ o + n = N \/ (o + n < N /\ raw[o + n + 1] = c)
  BY DEF Embedded, Within
<1>3. SameStretches(raw, value, o)
  <2>1. Within(raw, value, o)
    BY DEF Embedded
  <2>2. QED
    BY <2>1, StretchesInRaw, Zenon
<1>4. ASSUME NEW i \in 1 .. n
      PROVE  PieceFrom(raw, c, o + i) = PieceFrom(value, c, i)
  <2> DEFINE e == Find(value, <<c>>, i)
             j == o + i
             E == Find(raw, <<c>>, j)
             upto == IF e = 0 THEN n ELSE e - 1
  <2>1. i \in Nat \ {0} /\ j \in Nat \ {0}
    BY <1>1
  <2>2. TokenAt(value, c, i, e)
    BY <2>1, FindsToken, Zenon
  <2>3. \/ e = 0 /\ \A x \in i .. n : value[x] # c
        \/ e \in i .. n /\ value[e] = c /\ \A x \in i .. e - 1 : value[x] # c
    BY <2>2 DEF TokenAt
  <2>4. PieceFrom(value, c, i) = SubSeq(value, i, upto)
    BY DEF PieceFrom
  <2>5. PieceFrom(raw, c, j) = SubSeq(raw, j, IF E = 0 THEN N ELSE E - 1)
    BY DEF PieceFrom
  <2> HIDE DEF e, n, N
  <2>6. upto \in Nat /\ upto <= n /\ upto >= i - 1 /\ \A x \in i .. upto : value[x] # c
    BY <1>1, <2>1, <2>3
  <2>7. \A x \in j .. o + upto : raw[x] # c
    <3>1. SUFFICES ASSUME NEW x \in j .. o + upto
                   PROVE  raw[x] # c
      OBVIOUS
    <3> DEFINE y == x - o
    <3>2. y \in i .. upto /\ y \in 1 .. n /\ x = o + y
      BY <1>1, <2>1, <2>6
    <3> HIDE DEF y
    <3>3. QED
      BY <1>2, <2>6, <3>2
  <2>8. (IF E = 0 THEN N ELSE E - 1) = o + upto
    <3> DEFINE p == o + upto + 1
    <3>1. CASE e = 0 /\ o + n = N
      <4>1. \A x \in j .. Len(raw) : raw[x] # c
        BY <2>7, <3>1 DEF N
      <4> HIDE DEF j
      <4>2. E = 0
        <5> HIDE DEF E
        <5>1. Find(raw, <<c>>, j) = 0
          BY <2>1, <4>1, FindToken, Zenon
        <5>2. QED
          BY <5>1 DEF E
      <4>3. QED
        BY <3>1, <4>2
    <3>2. CASE ~(e = 0 /\ o + n = N)
      <4>1. p \in j .. N /\ raw[p] = c
        <5>1. CASE e = 0
          <6>1. o + n < N /\ raw[o + n + 1] = c
            BY <1>2, <3>2, <5>1
          <6>2. QED
            BY <1>1, <2>1, <2>6, <5>1, <6>1
        <5>2. CASE e # 0
          <6>1. e \in i .. n /\ value[e] = c
            BY <2>3, <5>2
          <6>2. p = o + e /\ e \in 1 .. n
            BY <1>1, <2>1, <5>2, <6>1
          <6> HIDE DEF p
          <6>3. raw[p] = c
            BY <1>2, <6>1, <6>2
          <6>4. QED
            BY <1>1, <1>2, <2>1, <6>1, <6>2, <6>3
        <5>3. QED
          BY <5>1, <5>2
      <4>2. \A x \in j .. p - 1 : raw[x] # c
        <5>1. p - 1 = o + upto
          BY <1>1, <2>6
        <5>2. QED
          BY <2>7, <5>1
      <4>3. p - 1 = o + upto /\ p # 0
        BY <1>1, <2>6
      <4>4. p \in j .. Len(raw)
        BY <4>1 DEF N
      <4> HIDE DEF j, p
      <4>5. E = p
        <5> HIDE DEF E
        <5>1. raw[p] = c /\ j \in Nat \ {0}
          BY <2>1, <4>1
        <5>2. Find(raw, <<c>>, j) = p
          BY <4>2, <4>4, <5>1, FindToken, Zenon
        <5>3. QED
          BY <5>2 DEF E
      <4>6. QED
        BY <4>3, <4>5
    <3>3. QED
      BY <3>1, <3>2
  <2> HIDE DEF E, upto
  <2>9. SubSeq(raw, j, o + upto) = SubSeq(value, i, upto)
    <3>1. upto <= Len(value)
      BY <2>6 DEF n
    <3>2. QED
      BY <1>3, <2>1, <2>6, <3>1 DEF SameStretches
  <2>10. QED
    BY <2>4, <2>5, <2>8, <2>9
<1>5. QED
  BY <1>4 DEF SamePieces

\* What the names of a path are strung together from.
NameAt(path, i) ==
    IF StartsPiece(path, "/", i) /\ path[i] # "/" THEN <<PieceFrom(path, "/", i)>> ELSE <<>>

NamesAt(path) == [i \in DOMAIN path |-> NameAt(path, i)]

LEMMA NamesFacts ==
    ASSUME NEW path \in Seq(Tokens)
    PROVE  /\ Names(path) = FlattenSeq(NamesAt(path))
           /\ NamesAt(path) \in Seq(Seq(Seq(Tokens))) /\ Len(NamesAt(path)) = Len(path)
           /\ \A i \in 1 .. Len(path) : NamesAt(path)[i] = NameAt(path, i)
<1> DEFINE n == Len(path)
           S == Seq(Seq(Tokens))
<1>1. n \in Nat /\ DOMAIN path = 1 .. n /\ \A i \in 1 .. n : path[i] \in Tokens
  BY LenProperties, ElementOfSeq
<1>2. ASSUME NEW i \in 1 .. n
      PROVE  NameAt(path, i) \in S
  <2> DEFINE e == Find(path, <<"/">>, i)
             j == IF e = 0 THEN n ELSE e - 1
  <2>1. PieceFrom(path, "/", i) = SubSeq(path, i, j)
    BY DEF PieceFrom
  <2>2. i \in Nat \ {0} /\ "/" \in Tokens
    BY <1>1, TokensAssumption
  <2>3. TokenAt(path, "/", i, e)
    BY <2>2, FindsToken, Zenon
  <2> HIDE DEF e
  <2>4. e = 0 \/ e \in i .. n
    BY <2>3 DEF TokenAt
  <2> HIDE DEF n
  <2>5. i \in Int /\ j \in Int /\ \A x \in i .. j : path[x] \in Tokens
    BY <1>1, <2>2, <2>4
  <2> HIDE DEF j
  <2>6. SubSeq(path, i, j) \in Seq(Tokens)
    BY <2>5, SubSeqProperties
  <2> DEFINE P == PieceFrom(path, "/", i)
             Q == Seq(Tokens)
  <2>7. P \in Q
    BY <2>1, <2>6
  <2> HIDE DEF P, Q
  <2>8. <<P>> \in Seq(Q) /\ <<>> \in Seq(Q)
    BY <2>7
  <2>9. QED
    BY <2>8 DEF NameAt, P, Q
<1>3. NamesAt(path) \in [1 .. n -> S] /\ \A i \in 1 .. n : NamesAt(path)[i] = NameAt(path, i)
  <2> HIDE DEF S, n
  <2>1. NamesAt(path) = [i \in 1 .. n |-> NameAt(path, i)]
    BY <1>1 DEF NamesAt
  <2>2. QED
    BY <1>2, <2>1
<1> HIDE DEF n, S
<1>4. NamesAt(path) \in Seq(S)
  BY <1>1, <1>3, SeqDef
<1>5. Len(NamesAt(path)) = n
  BY <1>1, <1>3, <1>4, LenProperties
<1>6. Names(path) = FlattenSeq(NamesAt(path))
  BY Zenon DEF Names, NamesAt, NameAt
<1>7. QED
  BY <1>3, <1>4, <1>5, <1>6 DEF n, S

\* Texts strung together, with nothing before or after them.
LEMMA FlattenThenNothing ==
    ASSUME NEW S, NEW a \in Seq(Seq(S)), NEW b, Len(a) > 0, Len(b) = Len(a) + 1,
           \A i \in 1 .. Len(a) : b[i] = a[i], b[Len(a) + 1] = <<>>
    PROVE  FlattenSeq(b) = FlattenSeq(a)
<1> DEFINE n == Len(a)
<1>1. n \in Nat /\ n > 0 /\ Len(b) = n + 1 /\ n + 1 \in Nat
  BY LenProperties
<1>2. PICK f : /\ \A i \in 1 .. n : f[i] = IF i = 1 THEN a[i] ELSE f[i - 1] \o a[i]
               /\ FlattenSeq(a) = IF n = 0 THEN a ELSE f[n]
  BY <1>1, FlattenFacts
<1> DEFINE N == Len(b)
<1>14. N \in Nat /\ N = n + 1
  BY <1>1
<1>3. PICK g : /\ \A i \in 1 .. N : g[i] = IF i = 1 THEN b[i] ELSE g[i - 1] \o b[i]
               /\ FlattenSeq(b) = IF N = 0 THEN b ELSE g[N]
  BY <1>14, FlattenFacts
<1>4. (\A i \in 1 .. n : b[i] = a[i]) /\ b[n + 1] = <<>>
  OBVIOUS
<1>5. FlattenSeq(a) \in Seq(S)
  BY FlattenTyped
<1> HIDE DEF n, N
<1> DEFINE T == {m \in Nat : m \in 1 .. n => g[m] = f[m]}
<1>6. 0 \in T
  OBVIOUS
<1>7. ASSUME NEW m \in Nat, m \in T
      PROVE  m + 1 \in T
  <2>1. SUFFICES ASSUME m + 1 \in 1 .. n
                 PROVE  g[m + 1] = f[m + 1]
    OBVIOUS
  <2>2. m + 1 \in 1 .. N /\ m + 1 - 1 = m
    BY <1>1, <1>14, <2>1
  <2>3. /\ g[m + 1] = IF m + 1 = 1 THEN b[m + 1] ELSE g[m] \o b[m + 1]
        /\ f[m + 1] = IF m + 1 = 1 THEN a[m + 1] ELSE f[m] \o a[m + 1]
    BY <1>2, <1>3, <2>1, <2>2
  <2>4. m + 1 = 1 \/ m \in 1 .. n
    BY <1>1, <2>1
  <2>5. QED
    BY <1>4, <1>7, <2>1, <2>3, <2>4
<1> HIDE DEF T
<1>8. \A m \in Nat : m \in T
  BY <1>6, <1>7, NatInductive
<1>9. g[n] = f[n]
  BY <1>1, <1>8 DEF T
<1>10. g[N] = g[n] \o <<>>
  <2>1. N \in 1 .. N /\ N # 1 /\ N - 1 = n /\ N = n + 1
    BY <1>1, <1>14
  <2>2. b[N] = <<>>
    BY <1>4, <2>1
  <2>3. g[N] = g[N - 1] \o b[N]
    BY <1>3, <2>1
  <2>4. QED
    BY <2>1, <2>2, <2>3
<1>11. FlattenSeq(a) = f[n] /\ FlattenSeq(b) = g[N]
  BY <1>1, <1>2, <1>3, <1>14
<1>12. f[n] \o <<>> = f[n]
  BY <1>5, <1>11
<1>13. QED
  BY <1>9, <1>10, <1>11, <1>12

LEMMA FlattenAfterNothing ==
    ASSUME NEW S, NEW a \in Seq(Seq(S)), NEW b, Len(a) > 0, Len(b) = Len(a) + 1,
           \A i \in 1 .. Len(a) : b[i + 1] = a[i], b[1] = <<>>
    PROVE  FlattenSeq(b) = FlattenSeq(a)
<1> DEFINE n == Len(a)
<1>1. n \in Nat /\ n > 0 /\ Len(b) = n + 1 /\ n + 1 \in Nat
  BY LenProperties
<1>2. PICK f : /\ \A i \in 1 .. n : f[i] = IF i = 1 THEN a[i] ELSE f[i - 1] \o a[i]
               /\ FlattenSeq(a) = IF n = 0 THEN a ELSE f[n]
  BY <1>1, FlattenFacts
<1> DEFINE N == Len(b)
<1>14. N \in Nat /\ N = n + 1
  BY <1>1
<1>3. PICK g : /\ \A i \in 1 .. N : g[i] = IF i = 1 THEN b[i] ELSE g[i - 1] \o b[i]
               /\ FlattenSeq(b) = IF N = 0 THEN b ELSE g[N]
  BY <1>14, FlattenFacts
<1>4. (\A i \in 1 .. n : b[i + 1] = a[i]) /\ b[1] = <<>>
  OBVIOUS
<1>5. a[1] \in Seq(S)
  BY <1>1, ElementOfSeq
<1> HIDE DEF n, N
<1> DEFINE T == {m \in Nat : m \in 1 .. n => g[m + 1] = f[m]}
<1>6. 0 \in T
  OBVIOUS
<1>7. ASSUME NEW m \in Nat, m \in T
      PROVE  m + 1 \in T
  <2> DEFINE k == m + 1
  <2>1. SUFFICES ASSUME k \in 1 .. n
                 PROVE  g[k + 1] = f[k]
    OBVIOUS
  <2> DEFINE q == k + 1
  <2>2. q \in 1 .. N /\ q - 1 = k /\ q # 1 /\ k - 1 = m
    BY <1>1, <1>14, <2>1
  <2>3. g[k + 1] = g[k] \o a[k]
    <3>1. b[q] = a[k]
      BY <1>4, <2>1
    <3> HIDE DEF k, q
    <3>2. g[q] = g[q - 1] \o b[q]
      BY <1>3, <2>2
    <3>3. QED
      BY <2>2, <3>1, <3>2 DEF q
  <2>4. f[k] = IF k = 1 THEN a[k] ELSE f[m] \o a[k]
    BY <1>2, <2>1, <2>2
  <2>5. CASE k = 1
    <3>1. g[1] = <<>>
      <4>1. 1 \in 1 .. N
        BY <1>1, <1>14
      <4>2. QED
        BY <1>3, <1>4, <4>1
    <3>2. <<>> \o a[1] = a[1]
      BY <1>5
    <3>3. QED
      BY <2>3, <2>4, <2>5, <3>1, <3>2
  <2>6. CASE k # 1
    <3>1. m \in 1 .. n
      BY <1>1, <2>1, <2>6
    <3>2. g[k] = f[m]
      BY <1>7, <3>1
    <3>3. QED
      BY <2>3, <2>4, <2>6, <3>2
  <2>7. QED
    BY <2>5, <2>6
<1> HIDE DEF T
<1>8. \A m \in Nat : m \in T
  BY <1>6, <1>7, NatInductive
<1>9. g[n + 1] = f[n]
  BY <1>1, <1>8 DEF T
<1>10. QED
  BY <1>1, <1>2, <1>3, <1>9, <1>14

\* A slash more at either end is no name.
LEMMA SlashBehind ==
    ASSUME NEW path \in Seq(Tokens), Len(path) > 0
    PROVE  Names(Append(path, "/")) = Names(path)
<1> DEFINE n == Len(path)
           loc == Append(path, "/")
           zero == 0
           S == Seq(Tokens)
<1>1. n \in Nat /\ n > 0 /\ "/" \in Tokens /\ \A i \in 1 .. n : path[i] \in Tokens
  BY TokensAssumption, LenProperties, ElementOfSeq
<1>2. /\ loc \in Seq(Tokens) /\ Len(loc) = n + 1 /\ loc[n + 1] = "/"
      /\ \A i \in 1 .. n : loc[i] = path[i]
  BY <1>1, AppendProperties
<1>3. SamePieces(loc, path, zero, "/")
  <2>1. Within(loc, path, zero)
    <3>1. \A x \in 1 .. n : zero + x = x
      OBVIOUS
    <3>2. zero + n <= Len(loc)
      BY <1>1, <1>2
    <3>3. QED
      BY <1>2, <3>1, <3>2 DEF Within
  <2>2. Embedded(loc, path, zero, "/")
    <3>1. zero + n < Len(loc) /\ zero + n + 1 = n + 1
      BY <1>1, <1>2
    <3>2. QED
      BY <1>2, <2>1, <3>1 DEF Embedded
  <2>3. zero \in Nat
    OBVIOUS
  <2> HIDE DEF loc, zero
  <2>4. QED
    BY <1>1, <1>2, <2>2, <2>3, PiecesInRaw
<1>4. /\ Names(path) = FlattenSeq(NamesAt(path))
      /\ NamesAt(path) \in Seq(Seq(S)) /\ Len(NamesAt(path)) = n
      /\ \A i \in 1 .. n : NamesAt(path)[i] = NameAt(path, i)
  BY NamesFacts
<1> HIDE DEF loc, S
<1>5. /\ Names(loc) = FlattenSeq(NamesAt(loc)) /\ Len(NamesAt(loc)) = n + 1
      /\ \A i \in 1 .. n + 1 : NamesAt(loc)[i] = NameAt(loc, i)
  BY <1>2, NamesFacts
<1>6. ASSUME NEW i \in 1 .. n
      PROVE  NamesAt(loc)[i] = NamesAt(path)[i]
  <2>1. PieceFrom(loc, "/", i) = PieceFrom(path, "/", i)
    <3>1. zero + i = i
      BY <1>1
    <3>2. QED
      BY <1>3, <3>1 DEF SamePieces
  <2>2. loc[i] = path[i] /\ (i = 1 \/ loc[i - 1] = path[i - 1])
    <3>1. i = 1 \/ i - 1 \in 1 .. n
      BY <1>1
    <3>2. QED
      BY <1>2, <3>1
  <2>3. StartsPiece(loc, "/", i) <=> StartsPiece(path, "/", i)
    BY <2>2 DEF StartsPiece
  <2>4. NameAt(loc, i) = NameAt(path, i)
    BY <2>1, <2>2, <2>3 DEF NameAt
  <2>5. i \in 1 .. n + 1
    BY <1>1
  <2>6. QED
    BY <1>4, <1>5, <2>4, <2>5
<1>7. NamesAt(loc)[n + 1] = <<>>
  <2>1. n + 1 \in 1 .. n + 1
    BY <1>1
  <2>2. QED
    BY <1>2, <1>5, <2>1 DEF NameAt
<1> DEFINE a == NamesAt(path)
           b == NamesAt(loc)
<1>8. /\ a \in Seq(Seq(S)) /\ Len(a) > 0 /\ Len(b) = Len(a) + 1
      /\ \A i \in 1 .. Len(a) : b[i] = a[i]
      /\ b[Len(a) + 1] = <<>>
  BY <1>1, <1>4, <1>5, <1>6, <1>7
<1> HIDE DEF a, b
<1>9. FlattenSeq(b) = FlattenSeq(a)
  BY <1>8, FlattenThenNothing
<1>10. QED
  BY <1>4, <1>5, <1>9 DEF a, b, loc

LEMMA SlashBefore ==
    ASSUME NEW path \in Seq(Tokens), Len(path) > 1, path[1] = "/"
    PROVE  Names(After(path, 1)) = Names(path)
<1> DEFINE n == Len(path) - 1
           sub == After(path, 1)
           one == 1
           S == Seq(Tokens)
<1>1. /\ sub \in Seq(Tokens) /\ Len(path) \in Nat /\ Len(sub) = n /\ n \in Nat /\ n > 0
      /\ Len(path) = n + 1
      /\ \A i \in 1 .. n : sub[i] = path[i + 1]
  BY AfterFirst
<1>2. "/" \in Tokens
  BY TokensAssumption
<1> HIDE DEF n, sub
<1>3. SamePieces(path, sub, one, "/")
  <2>1. one \in Nat /\ one + Len(sub) = Len(path) /\ \A x \in 1 .. n : one + x = x + 1
    BY <1>1
  <2>2. Within(path, sub, one)
    BY <1>1, <2>1 DEF Within
  <2>3. Embedded(path, sub, one, "/")
    BY <2>1, <2>2 DEF Embedded
  <2> HIDE DEF one
  <2>4. QED
    BY <1>1, <1>2, <2>1, <2>3, PiecesInRaw
<1>4. /\ Names(sub) = FlattenSeq(NamesAt(sub))
      /\ NamesAt(sub) \in Seq(Seq(S)) /\ Len(NamesAt(sub)) = n
      /\ \A i \in 1 .. n : NamesAt(sub)[i] = NameAt(sub, i)
  BY <1>1, NamesFacts
<1> HIDE DEF S
<1>5. /\ Names(path) = FlattenSeq(NamesAt(path)) /\ Len(NamesAt(path)) = n + 1
      /\ \A i \in 1 .. n + 1 : NamesAt(path)[i] = NameAt(path, i)
  BY <1>1, NamesFacts
<1>6. ASSUME NEW i \in 1 .. n
      PROVE  NamesAt(path)[i + 1] = NamesAt(sub)[i]
  <2> DEFINE k == i + 1
  <2>1. k \in 1 .. n + 1 /\ k - 1 = i /\ k # 1 /\ one + i = k
    BY <1>1
  <2>2. PieceFrom(path, "/", k) = PieceFrom(sub, "/", i)
    BY <1>1, <1>3, <2>1 DEF SamePieces
  <2>3. path[k] = sub[i]
    BY <1>1
  <2> HIDE DEF k
  <2>4. StartsPiece(path, "/", k) <=> StartsPiece(sub, "/", i)
    <3>1. CASE i = 1
      BY <2>1, <3>1 DEF StartsPiece
    <3>2. CASE i # 1
      <4> DEFINE h == i - 1
      <4>1. h \in 1 .. n /\ h + 1 = i
        BY <1>1, <3>2
      <4> HIDE DEF h
      <4>2. sub[h] = path[h + 1]
        BY <1>1, <4>1
      <4>3. QED
        BY <2>1, <3>2, <4>1, <4>2 DEF StartsPiece, h
    <3>3. QED
      BY <3>1, <3>2
  <2>5. NameAt(path, k) = NameAt(sub, i)
    BY <2>2, <2>3, <2>4 DEF NameAt
  <2>6. QED
    BY <1>4, <1>5, <2>1, <2>5 DEF k
<1>7. NamesAt(path)[1] = <<>>
  <2>1. 1 \in 1 .. n + 1
    BY <1>1
  <2>2. QED
    BY <1>5, <2>1 DEF NameAt
<1> DEFINE a == NamesAt(sub)
           b == NamesAt(path)
<1>8. /\ a \in Seq(Seq(S)) /\ Len(a) > 0 /\ Len(b) = Len(a) + 1
      /\ \A i \in 1 .. Len(a) : b[i + 1] = a[i]
      /\ b[1] = <<>>
  BY <1>1, <1>4, <1>5, <1>6, <1>7
<1> HIDE DEF a, b
<1>9. FlattenSeq(b) = FlattenSeq(a)
  BY <1>8, FlattenAfterNothing
<1>10. QED
  BY <1>4, <1>5, <1>9 DEF a, b, sub

\* The request of a client that follows a redirect.
Follow(word, target) == <<word, Blank>> \o target \o FullVersion

LEMMA FollowText ==
    ASSUME NEW word \in Words, NEW target \in Seq(Words)
    PROVE  LET raw == Follow(word, target)
               L == Len(target)
           IN  /\ raw \in Seq(Tokens) /\ L \in Nat /\ Len(raw) = L + 5
               /\ raw[1] = word /\ raw[2] = Blank
               /\ \A i \in 1 .. L : raw[2 + i] = target[i]
               /\ raw[L + 3] = Blank /\ raw[L + 4] = "HTTP/"
               /\ \A i \in 1 .. L + 5 : raw[i] = Blank <=> i = 2 \/ i = L + 3
<1> DEFINE L == Len(target)
           a == <<word, Blank>>
           b == a \o target
           c == FullVersion
           raw == Follow(word, target)
<1>1. word \in Tokens /\ word # Blank /\ Blank \in Tokens
  BY TokensAssumption DEF Words
<1>2. L \in Nat /\ \A i \in 1 .. L : target[i] \in Tokens /\ target[i] # Blank
  BY LenProperties, ElementOfSeq DEF Words
<1>3. a \in Seq(Tokens) /\ Len(a) = 2 /\ a[1] = word /\ a[2] = Blank
  BY <1>1
<1>4. c \in Seq(Tokens) /\ Len(c) = 3 /\ c[1] = Blank /\ c[2] = "HTTP/" /\ c[3] = "1.1"
  BY TokensAssumption DEF FullVersion
<1>5. target \in Seq(Tokens)
  BY <1>2
<1> HIDE DEF a, c
<1>6. b \in Seq(Tokens) /\ Joins(b, a, target)
  BY <1>3, <1>5, JoinFacts
<1> HIDE DEF b
<1>7. b \o c \in Seq(Tokens) /\ Joins(b \o c, b, c)
  BY <1>4, <1>6, JoinFacts
<1>8. raw = b \o c
  BY DEF Follow, a, b, c
<1> HIDE DEF raw
<1>9. /\ Len(b) = L + 2 /\ \A i \in 1 .. 2 : b[i] = a[i]
      /\ \A i \in 1 .. L : b[2 + i] = target[i]
  BY <1>3, <1>6 DEF Joins
<1>10. /\ Len(raw) = L + 5 /\ \A i \in 1 .. L + 2 : raw[i] = b[i]
       /\ \A i \in 1 .. 3 : raw[L + 2 + i] = c[i]
  BY <1>2, <1>4, <1>7, <1>8, <1>9 DEF Joins
<1> HIDE DEF L
<1>11. /\ 1 \in 1 .. L + 2 /\ 2 \in 1 .. L + 2 /\ \A i \in 1 .. L : 2 + i \in 1 .. L + 2
       /\ L + 2 + 1 = L + 3 /\ L + 2 + 2 = L + 4 /\ L + 2 + 3 = L + 5
  BY <1>2
<1>12. raw[1] = word /\ raw[2] = Blank
  BY <1>3, <1>9, <1>10, <1>11
<1>13. \A i \in 1 .. L : raw[2 + i] = target[i]
  BY <1>9, <1>10, <1>11
<1>14. raw[L + 3] = Blank /\ raw[L + 4] = "HTTP/" /\ raw[L + 5] = "1.1"
  <2>1. raw[L + 2 + 1] = c[1] /\ raw[L + 2 + 2] = c[2] /\ raw[L + 2 + 3] = c[3]
    BY <1>10
  <2>2. QED
    BY <1>4, <1>11, <2>1
<1>15. ASSUME NEW i \in 1 .. L + 5
       PROVE  raw[i] = Blank <=> i = 2 \/ i = L + 3
  <2>1. i = 1 \/ i = 2 \/ i - 2 \in 1 .. L \/ i = L + 3 \/ i = L + 4 \/ i = L + 5
    BY <1>2
  <2>2. CASE i - 2 \in 1 .. L
    <3> DEFINE j == i - 2
    <3>1. i = 2 + j /\ j \in 1 .. L /\ i # 2 /\ i # L + 3
      BY <1>2, <2>2
    <3> HIDE DEF j
    <3>2. raw[i] = target[j]
      BY <1>13, <3>1
    <3>3. QED
      BY <1>2, <3>1, <3>2
  <2>3. CASE i \in {L + 4, L + 5}
    <3>1. i # 2 /\ i # L + 3
      BY <1>2, <2>3
    <3>2. "HTTP/" # Blank /\ "1.1" # Blank
      BY DEF Blank
    <3>3. QED
      BY <1>14, <2>3, <3>1, <3>2
  <2>4. CASE i = 1
    <3>1. i # L + 3 /\ i # 2
      BY <1>2, <2>4
    <3>2. QED
      BY <1>1, <1>12, <2>4, <3>1
  <2>5. QED
    BY <1>12, <1>14, <2>1, <2>2, <2>3, <2>4
<1>16. raw \in Seq(Tokens)
  BY <1>7, <1>8
<1>17. QED
  BY <1>2, <1>10, <1>12, <1>13, <1>14, <1>15, <1>16, Zenon DEF L, raw

LEMMA FollowReads ==
    ASSUME NEW k \in 1 .. 3, NEW word \in EndingIn[Methods[k]],
           NEW target \in Seq(Words), Len(target) > 0, target[1] = "/"
    PROVE  Reads(Follow(word, target), k, target)
<1> DEFINE raw == Follow(word, target)
           L == Len(target)
<1>1. /\ raw \in Seq(Tokens) /\ L \in Nat /\ Len(raw) = L + 5
      /\ raw[1] = word /\ raw[2] = Blank
      /\ \A i \in 1 .. L : raw[2 + i] = target[i]
      /\ raw[L + 3] = Blank /\ raw[L + 4] = "HTTP/"
      /\ \A i \in 1 .. L + 5 : raw[i] = Blank <=> i = 2 \/ i = L + 3
  <2>1. word \in Words
    BY MethodFacts DEF Words
  <2>2. QED
    BY <2>1, FollowText
<1>2. target \in Seq(Tokens) /\ L > 0 /\ target[1] = "/"
  BY ElementOfSeq, LenProperties DEF Words
<1> HIDE DEF raw
<1>3. Within(raw, target, 2)
  BY <1>1 DEF Within
<1> HIDE DEF L
<1>4. raw[3] = "/"
  <2>1. 1 \in 1 .. L /\ 2 + 1 = 3
    BY <1>1, <1>2
  <2>2. raw[2 + 1] = target[1]
    BY <1>1, <2>1
  <2>3. QED
    BY <1>2, <2>1, <2>2
<1>5. ASSUME NEW j \in 1 .. 3
      PROVE  FindMethod(raw, Methods[j]) = IF j = k THEN 1 ELSE 0
  <2> DEFINE M == Methods[j]
             one == 1
  <2>1. word \in EndingIn[M] <=> j = k
    BY MethodFacts
  <2> HIDE DEF M
  <2>2. ASSUME NEW i \in 1 .. Len(raw) - 2, MethodAt(raw, M, i)
        PROVE  i = 1 /\ j = k
    <3>1. raw[i] \in EndingIn[M] /\ raw[i + 1] = Blank /\ raw[i + 2] = "/"
      BY <2>2 DEF MethodAt
    <3>2. i + 1 \in 1 .. L + 5
      BY <1>1
    <3>3. i + 1 = 2 \/ i + 1 = L + 3
      BY <1>1, <3>1, <3>2
    <3>4. i + 1 # L + 3
      <4>1. i + 1 = L + 3 => i + 2 = L + 4
        BY <1>1
      <4>2. QED
        BY <1>1, <3>1, <4>1
    <3>5. i = 1
      BY <3>3, <3>4
    <3>6. QED
      BY <1>1, <2>1, <3>1, <3>5
  <2>3. CASE j = k
    <3>1. MethodAt(raw, M, one)
      BY <1>1, <1>4, <2>1, <2>3 DEF MethodAt
    <3>2. one \in 1 .. Len(raw) - 2 /\ \A i \in 1 .. one - 1 : ~MethodAt(raw, M, i)
      BY <1>1, <1>2
    <3> HIDE DEF one
    <3>3. FindMethod(raw, M) = one
      BY <1>1, <3>1, <3>2, FindMethodFirst, Zenon
    <3>4. QED
      BY <2>3, <3>3 DEF one, M
  <2>4. CASE j # k
    <3>1. \A i \in 1 .. Len(raw) - 2 : ~MethodAt(raw, M, i)
      BY <2>2, <2>4
    <3>2. FindMethod(raw, M) = 0
      BY <3>1, FindMethodNone
    <3>3. QED
      BY <2>4, <3>2 DEF M
  <2>5. QED
    BY <2>3, <2>4
<1>6. Find(raw, Version, 1) = L + 3
  <2> DEFINE p == L + 3
             one == 1
  <2>1. Version \in Seq(Tokens \ {CRLF}) /\ Len(Version) = 2 /\ Version[1] = Blank /\ Version[2] = "HTTP/"
    BY VersionFacts
  <2>2. Version \in Seq(Tokens) /\ one \in Nat \ {0}
    BY <2>1, Widen
  <2>3. MatchAt(raw, Version, p)
    <3>1. p + 1 - 1 = L + 3 /\ p + 2 - 1 = L + 4
      BY <1>1
    <3> HIDE DEF p
    <3>2. raw[p + 1 - 1] = Version[1] /\ raw[p + 2 - 1] = Version[2]
      BY <1>1, <2>1, <3>1
    <3>3. QED
      BY <2>1, <3>2 DEF MatchAt
  <2>4. \A i \in one .. p - 1 : ~MatchAt(raw, Version, i)
    <3>1. SUFFICES ASSUME NEW i \in one .. p - 1, MatchAt(raw, Version, i)
                   PROVE  FALSE
      OBVIOUS
    <3>2. \A x \in 1 .. 2 : raw[i + x - 1] = Version[x]
      BY <2>1, <3>1 DEF MatchAt
    <3>3. i + 1 - 1 = i /\ i + 2 - 1 = i + 1 /\ i \in 1 .. L + 5 /\ i # L + 3
      BY <1>1
    <3>4. raw[i + 1 - 1] = Version[1] /\ raw[i + 2 - 1] = Version[2]
      BY <3>2
    <3>5. i = 2
      BY <1>1, <2>1, <3>3, <3>4
    <3>6. "/" # "HTTP/"
      OBVIOUS
    <3>7. QED
      BY <1>4, <2>1, <3>3, <3>4, <3>5, <3>6
  <2>5. p \in one .. Len(raw) - Len(Version) + 1
    BY <1>1, <2>1
  <2> HIDE DEF p, one
  <2>6. raw \in Seq(Tokens)
    BY <1>1
  <2>7. Version \in Seq(Tokens)
    BY <2>2
  <2>8. one \in Nat \ {0}
    BY <2>2
  <2>9. \A x \in one .. Len(raw) - Len(Version) + 1 :
           MatchAt(raw, Version, x) /\ (\A i \in one .. x - 1 : ~MatchAt(raw, Version, i))
           => Find(raw, Version, one) = x
    BY <2>6, <2>7, <2>8, FindFirst, Zenon
  <2>10. Find(raw, Version, one) = p
    BY <2>3, <2>4, <2>5, <2>9, Zenon
  <2>11. QED
    BY <2>10 DEF p, one
<1>7. QED
  BY <1>1, <1>2, <1>3, <1>5, <1>6 DEF Reads, raw, L

\* A path that parse() may have taken for another leads to the same place.
SamePlace(path, P) ==
    /\ Len(path) > 0 /\ path[1] = "/" /\ Last(path) = Last(P)
    /\ Names(path) = Names(P) /\ ToSet(path) \subseteq ToSet(P)

LEMMA TakenPath ==
    ASSUME NEW S, S \subseteq Tokens, NEW P \in Seq(S), Len(P) > 0, P[1] = "/", NEW path, PathTaken(path, P)
    PROVE  path \in Seq(S) /\ ((path = <<>> /\ P = <<"/">>) \/ SamePlace(path, P))
<1>1. CASE path = P
  BY <1>1 DEF SamePlace
<1>2. CASE path = <<>> /\ P = <<"/">>
  <2>1. <<>> \in Seq(S)
    OBVIOUS
  <2>2. QED
    BY <1>2, <2>1
<1>3. CASE path = After(P, 1) /\ Len(P) >= 2 /\ P[2] = "/"
  <2> DEFINE n == Len(P)
  <2>1. /\ path \in Seq(S) /\ n \in Nat /\ Len(path) = n - 1
        /\ \A i \in 1 .. n - 1 : path[i] = P[i + 1]
    BY <1>3, AfterFirst
  <2>2. P \in Seq(Tokens)
    <3>1. \A i \in 1 .. n : P[i] \in Tokens
      BY ElementOfSeq
    <3>2. QED
      BY <3>1, <2>1
  <2>3. n >= 2
    BY <1>3
  <2>4. Names(path) = Names(P)
    <3>1. Len(P) > 1
      BY <1>3
    <3>2. QED
      BY <1>3, <2>2, <3>1, SlashBefore
  <2>5. DOMAIN path = 1 .. n - 1 /\ DOMAIN P = 1 .. n
    BY <2>1
  <2>6. Last(path) = path[n - 1] /\ Last(P) = P[n]
    BY <2>1 DEF Last
  <2> HIDE DEF n
  <2>7. path[1] = "/" /\ Len(path) > 0
    <3>1. 1 \in 1 .. n - 1 /\ 1 + 1 = 2
      BY <2>1, <2>3
    <3>2. QED
      BY <1>3, <2>1, <3>1
  <2>8. Last(path) = Last(P)
    <3> DEFINE m == n - 1
    <3>1. m \in 1 .. n - 1 /\ m + 1 = n
      BY <2>1, <2>3
    <3> HIDE DEF m
    <3>2. path[m] = P[m + 1]
      BY <2>1, <3>1
    <3>3. QED
      BY <2>6, <3>1, <3>2 DEF m
  <2>9. ToSet(path) \subseteq ToSet(P)
    <3>1. \A i \in 1 .. n - 1 : i + 1 \in 1 .. n
      BY <2>1
    <3>2. QED
      BY <2>1, <2>5, <3>1 DEF ToSet
  <2>10. QED
    BY <2>1, <2>4, <2>7, <2>8, <2>9 DEF SamePlace
<1>4. QED
  BY <1>1, <1>2, <1>3 DEF PathTaken

\* A path is the whole of a target without a question mark.
LEMMA NoQuestion ==
    ASSUME NEW t \in Seq(Tokens), \A i \in 1 .. Len(t) : t[i] # "?"
    PROVE  PathOf(t) = t
<1> DEFINE one == 1
<1>1. one \in Nat \ {0} /\ "?" \in Tokens
  BY TokensAssumption
<1>2. PathOf(t) = LET q == Find(t, <<"?">>, one) IN IF q = 0 THEN t ELSE Before(t, q)
  BY DEF PathOf
<1>3. \A i \in one .. Len(t) : t[i] # "?"
  OBVIOUS
<1> HIDE DEF one
<1>4. Find(t, <<"?">>, one) = 0
  BY <1>1, <1>3, FindToken, Zenon
<1>5. QED
  BY <1>2, <1>4

PathWords == Words \ {"?"}

\* The path of what is sent.
LEMMA SentPathFacts ==
    ASSUME Shaped, Composed, ~Misleading, Verdict(Raw) = "served"
    PROVE  /\ SentPath \in Seq(PathWords) /\ Len(SentPath) > 0 /\ SentPath[1] = "/"
           /\ PathTaken(Parse(Raw).path, SentPath) /\ Parse(Raw).query = SentQuery
           /\ \A m \in Taken : Parse(Raw).method = <<m>>
<1>1. PICK k \in 1 .. 3 : /\ Reads(Raw, k, Target) /\ message.method \in EndingIn[Methods[k]]
                          /\ Taken = {Methods[k]}
  BY SentReads
<1>2. /\ Parse(Raw).method = <<Methods[k]>>
      /\ PathTaken(Parse(Raw).path, PathOf(Target)) /\ Parse(Raw).query = QueryOf(Target)
  BY <1>1, Parsed
<1>3. Target \in Seq(Tokens) /\ Len(Target) > 0 /\ Target[1] = "/"
  BY <1>1 DEF Reads
<1> DEFINE P == PathOf(Target)
<1>4. /\ P \in Seq(Tokens) /\ Len(P) \in 1 .. Len(Target) /\ P[1] = "/"
      /\ \A i \in 1 .. Len(P) : P[i] = Target[i] /\ P[i] # "?"
  BY <1>3, PathFacts
<1>5. Len(Target) \in Nat /\ \A i \in 1 .. Len(Target) : Target[i] \in Words
  <2>1. Target \in Seq(Words)
    BY TargetFacts
  <2>2. QED
    BY <2>1, ElementOfSeq, LenProperties
<1> HIDE DEF P
<1>6. \A i \in 1 .. Len(P) : i \in 1 .. Len(Target)
  BY <1>4, <1>5
<1>7. \A i \in 1 .. Len(P) : P[i] \in PathWords
  BY <1>4, <1>5, <1>6 DEF PathWords
<1>8. P \in Seq(PathWords) /\ Len(P) > 0
  BY <1>4, <1>7
<1>9. QED
  BY <1>1, <1>2, <1>4, <1>8, SentPathIs DEF P

\* Whoever follows a redirect asks for the same names, with a slash at the end.
LEMMA Followed ==
    ASSUME NEW k \in 1 .. 3, NEW word \in EndingIn[Methods[k]],
           NEW path \in Seq(PathWords), Len(path) > 0, path[1] = "/"
    PROVE  LET p == Parse(Follow(word, Append(path, "/"))).path
           IN  (Last(path) # "/" => p # <<>>) /\ (p = <<>> \/ (p # <<>> /\ Last(p) = "/" /\ Names(p) = Names(path)))
<1> DEFINE loc == Append(path, "/")
           n == Len(path)
           p == Parse(Follow(word, loc)).path
<1>1. n \in Nat /\ n > 0 /\ \A i \in 1 .. n : path[i] \in PathWords
  BY LenProperties, ElementOfSeq
<1>2. "/" \in PathWords
  BY TokensAssumption DEF PathWords, Words, Blank, CRLF
<1>3. /\ loc \in Seq(PathWords) /\ Len(loc) = n + 1 /\ loc[n + 1] = "/"
      /\ \A i \in 1 .. n : loc[i] = path[i]
  BY <1>1, <1>2, AppendProperties
<1>4. PathWords \subseteq Words /\ PathWords \subseteq Tokens /\ "?" \notin PathWords
  BY DEF PathWords, Words
<1>5. path \in Seq(Tokens)
  BY <1>1, <1>4
<1>6. Names(loc) = Names(path)
  BY <1>5, SlashBehind
<1>7. Last(path) = path[n]
  BY DEF Last
<1> HIDE DEF loc
<1>8. \A i \in 1 .. Len(loc) : loc[i] \in PathWords
  BY <1>3, ElementOfSeq
<1>9. loc \in Seq(Words) /\ loc \in Seq(Tokens) /\ Len(loc) > 0
  <2>1. \A i \in 1 .. Len(loc) : loc[i] \in Words /\ loc[i] \in Tokens
    BY <1>4, <1>8
  <2>2. QED
    BY <1>1, <1>3, <2>1
<1>10. Last(loc) = "/"
  BY <1>3 DEF Last
<1> HIDE DEF n
<1>11. loc[1] = "/"
  <2>1. 1 \in 1 .. n
    BY <1>1
  <2>2. QED
    BY <1>3, <2>1
<1>12. PathOf(loc) = loc
  BY <1>4, <1>8, <1>9, NoQuestion
<1>13. PathTaken(p, loc)
  <2>1. Reads(Follow(word, loc), k, loc)
    BY <1>9, <1>11, FollowReads
  <2>2. QED
    BY <1>12, <2>1, Parsed
<1> HIDE DEF p
<1>14. (p = <<>> /\ loc = <<"/">>) \/ SamePlace(p, loc)
  BY <1>4, <1>3, <1>9, <1>11, <1>13, TakenPath
<1>15. ~(Last(path) # "/" /\ loc = <<"/">>)
  <2>1. SUFFICES ASSUME Last(path) # "/", loc = <<"/">>
                 PROVE  FALSE
    OBVIOUS
  <2>2. Len(loc) = 1
    BY <2>1
  <2>3. Len(loc) = n + 1 /\ n \in Nat /\ n > 0
    BY <1>1, <1>3
  <2>4. QED
    BY <2>2, <2>3
<1>16. SamePlace(p, loc) => p # <<>> /\ Last(p) = "/" /\ Names(p) = Names(path)
  BY <1>6, <1>10 DEF SamePlace
<1>17. (Last(path) # "/" => p # <<>>) /\ (p = <<>> \/ (p # <<>> /\ Last(p) = "/" /\ Names(p) = Names(path)))
  BY <1>14, <1>15, <1>16
<1>18. QED
  BY <1>17 DEF p, loc

\* What serve_static() does with a path, by what its definitions look at.
LEMMA Served ==
    ASSUME NEW path
    PROVE  LET walk == Walk(path)
               r == ServeStatic(path)
               redirect == walk.at \in Directories /\ ~Slashed(path) /\ Redirectable(path)
           IN  /\ r.at = walk.at /\ r.location = Append(path, "/")
               /\ r.kind = IF walk.outside THEN "elsewhere"
                           ELSE IF redirect THEN "301" ELSE Found(walk.at, Slashed(path))
<1> DEFINE at == Walk(path).at
           redirect == at \in Directories /\ ~Slashed(path) /\ Redirectable(path)
           out == Walk(path).outside
           found == Found(at, Slashed(path))
<1>1. ServeStatic(path) =
        [kind |-> CASE out -> "elsewhere"
                    [] ~out /\ redirect -> "301"
                    [] OTHER -> found,
         at |-> at, location |-> Append(path, "/")]
  BY Zenon DEF ServeStatic
<1> HIDE DEF at, redirect, found, out
<1>2. ServeStatic(path).kind = IF out THEN "elsewhere" ELSE IF redirect THEN "301" ELSE found
  BY <1>1
<1>3. ServeStatic(path).at = at /\ ServeStatic(path).location = Append(path, "/")
  BY <1>1
<1>4. QED
  BY <1>2, <1>3, Zenon DEF at, redirect, found, out

\* What serve_file() makes of a place: only a directory has an index or a listing.
LEMMA FoundFacts ==
    ASSUME NEW at, NEW slashed
    PROVE  /\ at \in Directories <=> Found(at, slashed) \in {"index", "listing"}
           /\ Found(at, slashed) # "301"
<1>1. at \in Directories => at \notin FilesThere
  BY TreeAssumption
<1>2. QED
  BY <1>1 DEF Found

\* A text that starts with two slashes.
LEMMA TwoSlashes ==
    ASSUME NEW S, NEW P \in Seq(S), Len(P) >= 2, P[1] = "/"
    PROVE  SubSeq(P, 1, 2) = <<"/", "/">> <=> P[2] = "/"
<1> DEFINE two == 2
           one == 1
           r == SubSeq(P, one, two)
           d == <<"/", "/">>
<1>1. Len(P) \in Nat /\ two \in Int /\ one \in Int
  BY LenProperties
<1>2. Len(d) = 2 /\ d[1] = "/" /\ d[2] = "/" /\ d \in Seq({"/"})
  OBVIOUS
<1>3. \A x \in one .. two : P[x] \in S
  BY <1>1, ElementOfSeq
<1>4. /\ r \in Seq(S) /\ Len(r) = (IF one <= two THEN two - one + 1 ELSE 0)
      /\ \A x \in 1 .. two - one + 1 : r[x] = P[one + x - 1]
  <2> HIDE DEF one, two
  <2>1. QED
    BY <1>1, <1>3, SubSeqProperties
<1> HIDE DEF r, d
<1>5. Len(r) = 2 /\ r[1] = P[1] /\ r[2] = P[2]
  BY <1>4
<1>6. CASE P[2] = "/"
  <2>1. \A x \in 1 .. 2 : r[x] = d[x]
    BY <1>2, <1>5, <1>6
  <2>2. r = d
    BY <1>2, <1>4, <1>5, <2>1, SeqEqual
  <2>3. QED
    BY <1>6, <2>2 DEF r, d
<1>7. CASE P[2] # "/"
  <2>1. r # d
    BY <1>2, <1>5, <1>7
  <2>2. QED
    BY <1>7, <2>1 DEF r, d
<1>8. QED
  BY <1>6, <1>7

\* A Location that names another host goes back to a doubled first slash.
LEMMA NetworkPathAsked ==
    ASSUME NEW S, "/" \in S, NEW P \in Seq(S), Len(P) > 0, P[1] = "/",
           NEW path \in Seq(S), Len(path) > 0, path[1] = "/", Last(path) # "/", PathTaken(path, P),
           NetworkPath(Append(path, "/"))
    PROVE  NetworkPath(P)
<1> DEFINE loc == Append(path, "/")
           n == Len(path)
<1>1. n \in Nat /\ n > 0
  BY LenProperties
<1>2. loc \in Seq(S) /\ \A i \in 1 .. n : loc[i] = path[i]
  BY <1>1, AppendProperties
<1>3. Last(path) = path[n]
  BY DEF Last
<1> HIDE DEF loc, n
<1>4. n >= 2
  BY <1>1, <1>3
<1>5. loc[1] = path[1] /\ loc[2] = path[2]
  <2>1. 1 \in 1 .. n /\ 2 \in 1 .. n
    BY <1>1, <1>4
  <2>2. QED
    BY <1>2, <2>1
<1>6. Len(path) >= 2 /\ path[2] = "/"
  <2>1. SubSeq(loc, 1, 2) = <<"/", "/">>
    BY DEF NetworkPath, loc
  <2>2. Len(loc) = n + 1
    BY AppendProperties DEF loc, n
  <2>3. loc[2] = "/"
    BY <1>1, <1>2, <1>4, <1>5, <2>1, <2>2, TwoSlashes
  <2>4. QED
    BY <1>4, <1>5, <2>3 DEF n
<1>7. CASE path = P
  <2>1. Len(P) >= 2 /\ P[2] = "/"
    BY <1>6, <1>7
  <2>2. QED
    BY <2>1, LenProperties, TwoSlashes DEF NetworkPath
<1>8. CASE path = After(P, 1) /\ Len(P) >= 2 /\ P[2] = "/"
  BY <1>8, LenProperties, TwoSlashes DEF NetworkPath
<1>9. CASE path = <<>>
  BY <1>6, <1>9
<1>10. QED
  BY <1>7, <1>8, <1>9 DEF PathTaken

\* Whatever request is redirected, following the redirect shows the directory.
LEMMA RedirectFollowed ==
    ASSUME Shaped, Composed, ~Misleading, Verdict(Raw) = "served"
    PROVE  RedirectArrives
<1> DEFINE P == SentPath
           p == Parse(Raw).path
           r == ServeStatic(p)
           again == <<message.method, Blank>> \o r.location \o FullVersion
           q == Parse(again).path
           arrived == ServeStatic(q)
<1>1. /\ P \in Seq(PathWords) /\ Len(P) > 0 /\ P[1] = "/" /\ PathTaken(p, P)
  BY SentPathFacts
<1>2. PICK k \in 1 .. 3 : message.method \in EndingIn[Methods[k]]
  BY SentReads
<1> HIDE DEF P, p
<1>3. PathWords \subseteq Tokens
  BY DEF PathWords, Words
<1>4. p \in Seq(PathWords) /\ ((p = <<>> /\ P = <<"/">>) \/ SamePlace(p, P))
  BY <1>1, <1>3, TakenPath
<1>5. /\ r.at = Walk(p).at /\ r.location = Append(p, "/")
      /\ r.kind = IF Walk(p).outside THEN "elsewhere"
                  ELSE IF Walk(p).at \in Directories /\ ~Slashed(p) /\ Redirectable(p)
                       THEN "301" ELSE Found(Walk(p).at, Slashed(p))
  BY Served
<1> HIDE DEF r
<1>6. again = Follow(message.method, Append(p, "/"))
  BY <1>5 DEF Follow
<1> HIDE DEF again
<1>7. /\ arrived.at = Walk(q).at
      /\ arrived.kind = IF Walk(q).outside THEN "elsewhere"
                        ELSE IF Walk(q).at \in Directories /\ ~Slashed(q) /\ Redirectable(q)
                             THEN "301" ELSE Found(Walk(q).at, Slashed(q))
  BY Served
<1> HIDE DEF arrived
<1>8. r.kind = "301" => Walk(p).at \in Directories /\ ~Slashed(p) /\ ~Walk(p).outside
  <2>1. Found(Walk(p).at, Slashed(p)) # "301"
    BY FoundFacts
  <2>2. QED
    BY <1>5, <2>1
<1>9. ASSUME r.kind = "301"
      PROVE  /\ arrived.kind \in {"index", "listing"} /\ arrived.at = r.at
             /\ NetworkPath(r.location) => NetworkPath(P)
  <2>1. ~Slashed(p) /\ Walk(p).at \in Directories /\ ~Walk(p).outside
    BY <1>8, <1>9
  <2>2. Last(Joined(p)) # "/"
    BY <2>1 DEF Slashed
  <2>3. p # <<>>
    <3>1. Last(<<"/">>) = "/"
      BY DEF Last
    <3>2. QED
      BY <2>2, <3>1 DEF Joined
  <2>4. SamePlace(p, P) /\ Joined(p) = p
    BY <1>4, <2>3 DEF Joined
  <2>5. Len(p) > 0 /\ p[1] = "/" /\ Last(p) # "/"
    BY <2>2, <2>4 DEF SamePlace
  <2>6. q # <<>> /\ Last(q) = "/" /\ Names(q) = Names(p)
    <3>1. LET q2 == Parse(Follow(message.method, Append(p, "/"))).path
          IN  (Last(p) # "/" => q2 # <<>>) /\ (q2 = <<>> \/ (q2 # <<>> /\ Last(q2) = "/" /\ Names(q2) = Names(p)))
      BY <1>2, <1>4, <2>5, Followed
    <3>2. QED
      BY <1>6, <2>5, <3>1
  <2> HIDE DEF q
  <2>7. Joined(q) = q
    BY <2>6 DEF Joined
  <2>8. Walk(q) = Walk(p)
    BY <2>4, <2>6, <2>7 DEF Walk
  <2>9. Slashed(q)
    BY <2>6, <2>7 DEF Slashed
  <2>10. arrived.kind = Found(Walk(p).at, Slashed(q))
    BY <1>7, <2>1, <2>8, <2>9
  <2>11. Found(Walk(p).at, Slashed(q)) \in {"index", "listing"}
    BY <2>1, FoundFacts
  <2>12. NetworkPath(r.location) => NetworkPath(P)
    BY <1>1, <1>3, <1>4, <1>5, <2>5, NetworkPathAsked
  <2>13. QED
    BY <1>5, <1>7, <2>8, <2>10, <2>11, <2>12
<1>10. ASSUME r.kind \in {"index", "listing"}
       PROVE  \/ Last(P) = "/"
              \/ ~Redirectable(P)
              \/ Walk(P).lost /\ Last(Names(P)) \in Dots
  <2>1. Slashed(p) \/ ~Redirectable(p)
    <3>1. Walk(p).at \in Directories <=> Found(Walk(p).at, Slashed(p)) \in {"index", "listing"}
      BY FoundFacts
    <3>2. QED
      BY <1>5, <1>10, <3>1
  <2>2. CASE p = <<>> /\ P = <<"/">>
    BY <2>2 DEF Last
  <2>3. CASE SamePlace(p, P)
    <3>1. p # <<>> /\ P # <<>>
      BY <1>1, <2>3 DEF SamePlace
    <3>2. Joined(p) = p /\ Joined(P) = P
      BY <3>1 DEF Joined
    <3>3. Last(p) = Last(P) /\ Names(p) = Names(P) /\ ToSet(p) \subseteq ToSet(P)
      BY <2>3 DEF SamePlace
    <3>4. Walk(p) = Walk(P)
      BY <3>2, <3>3 DEF Walk
    <3>5. Slashed(p) => Last(P) = "/" \/ (Walk(P).lost /\ Last(Names(P)) \in Dots)
      BY <3>2, <3>3, <3>4 DEF Slashed
    <3>6. ~Redirectable(p) => ~Redirectable(P)
      BY <3>3 DEF Redirectable
    <3>7. QED
      BY <2>1, <3>5, <3>6
  <2>4. QED
    BY <1>4, <2>2, <2>3
<1>11. QED
  BY <1>9, <1>10, Zenon DEF RedirectArrives, P, p, r, again, q, arrived

\* A redirect of serve_static() (static_files.cpp:289-318) leads to the
\* directory that was asked for, and not to another redirect: for any set of
\* directories and files, and targets of any length.  Only who asked with a
\* doubled first slash may be sent to another host: what follows the first
\* slash is a network-path reference for a client.
THEOREM RedirectAlwaysArrives == TextSpec => []RedirectArrives
<1>1. Shaped => RedirectArrives
  BY RedirectFollowed DEF RedirectArrives
<1>2. QED
  BY <1>1, RequestsAreShaped, PTL
-----------------------------------------------------------------------------
(* The echo page: it shows what was sent. *)

\* A header that was not sent is nowhere in the request.
LEMMA HeaderNowhere ==
    ASSUME Shaped, HeaderFree, Composed, NEW name \in EchoHeaders,
           \A i \in 1 .. Len(message.headers) : message.headers[i].name # name
    PROVE  \A x \in 1 .. Len(Raw) : Raw[x] # name
<1> DEFINE hs == message.headers
           S == Tokens \ {name}
           seqs == [i \in DOMAIN hs |-> HeaderLine(hs[i])]
           N == Len(hs)
           body == message.body
           heads == HeaderText \o <<CRLF>>
           H == Len(HeaderText)
           L == Len(Line)
           M == Len(body)
<1>1. /\ N \in Nat /\ seqs \in Seq(Seq(Tokens)) /\ Len(seqs) = N /\ HeaderText = FlattenSeq(seqs)
      /\ \A i \in 1 .. N : hs[i] \in SentHeaders
  BY HeaderLinesFacts
<1>2. DOMAIN hs = 1 .. N
  <2>1. hs \in Seq(SentHeaders)
    BY ShapedParts
  <2>2. QED
    BY <2>1
<1>3. name \notin Others /\ name # Blank /\ name # CRLF
  BY OtherTokens
<1>4. ASSUME NEW i \in 1 .. N
      PROVE  HeaderLine(hs[i]) \in Seq(S)
  <2> DEFINE line == HeaderLine(hs[i])
  <2>1. hs[i] \in SentHeaders /\ hs[i].name # name
    BY <1>1
  <2> HIDE DEF hs
  <2>2. line \in Seq(Tokens)
    BY <2>1, HeaderLineFacts
  <2>3. \A j \in 1 .. Len(line) : line[j] # name
    BY <2>1, OtherHeaders
  <2> HIDE DEF line
  <2>4. \A j \in 1 .. Len(line) : line[j] \in S
    BY <2>2, <2>3, ElementOfSeq
  <2>5. line \in Seq(S)
    BY <2>2, <2>4
  <2>6. QED
    BY <2>5 DEF line
<1>5. seqs \in Seq(Seq(S))
  <2> DEFINE Q == Seq(S)
  <2> HIDE DEF hs, S, N
  <2>1. seqs = [i \in 1 .. N |-> HeaderLine(hs[i])]
    BY <1>2
  <2> HIDE DEF seqs
  <2>2. \A i \in 1 .. N : HeaderLine(hs[i]) \in Q
    BY <1>4
  <2> HIDE DEF Q
  <2>3. seqs \in [1 .. N -> Q]
    BY <2>1, <2>2
  <2>4. QED
    BY <1>1, <2>3, SeqDef DEF Q
<1>6. HeaderText \in Seq(S)
  BY <1>1, <1>5, FlattenTyped
<1>7. \A x \in 1 .. H : HeaderText[x] # name
  BY <1>6, ElementOfSeq
<1>8. \A x \in 1 .. M : body[x] # name
  <2>1. body \in Seq(Others)
    BY DEF HeaderFree
  <2>2. QED
    BY <1>3, <2>1, ElementOfSeq
<1>9. /\ Joins(heads, HeaderText, <<CRLF>>)
      /\ Joins(Rest, heads, body)
  BY RestFacts
<1>10. /\ L \in Nat /\ Len(Rest) \in Nat
       /\ Len(Raw) = L + 1 + Len(Rest)
       /\ \A i \in 1 .. L : Raw[i] = Line[i]
       /\ Raw[L + 1] = CRLF
       /\ \A i \in 1 .. Len(Rest) : Raw[L + 1 + i] = Rest[i]
  BY RawFacts
<1>11. \A x \in 1 .. L : Line[x] # name
  BY <1>3, LineOthers
<1>12. Len(<<CRLF>>) = 1 /\ <<CRLF>>[1] = CRLF
  OBVIOUS
<1> HIDE DEF heads, L, body
<1>13. /\ H \in Nat /\ Len(heads) = H + 1 /\ M \in Nat
       /\ Len(Rest) = H + 1 + M
       /\ \A i \in 1 .. H : heads[i] = HeaderText[i]
       /\ heads[H + 1] = CRLF
       /\ \A i \in 1 .. H + 1 : Rest[i] = heads[i]
       /\ \A i \in 1 .. M : Rest[H + 1 + i] = body[i]
  <2>1. /\ H \in Nat /\ Len(heads) = H + 1 /\ M \in Nat
        /\ Len(Rest) = H + 1 + M
        /\ \A i \in 1 .. H : heads[i] = HeaderText[i]
        /\ \A i \in 1 .. H + 1 : Rest[i] = heads[i]
        /\ \A i \in 1 .. M : Rest[H + 1 + i] = body[i]
    BY <1>9, <1>12 DEF Joins
  <2>2. heads[H + 1] = <<CRLF>>[1]
    BY <1>9, <1>12 DEF Joins
  <2>3. QED
    BY <1>12, <2>1, <2>2
<1> HIDE DEF H, M
<1>14. ASSUME NEW x \in 1 .. H + 1 + M
       PROVE  Rest[x] # name
  <2>1. x \in 1 .. H \/ x = H + 1 \/ x - (H + 1) \in 1 .. M
    BY <1>13
  <2>2. CASE x \in 1 .. H
    <3>1. x \in 1 .. H + 1
      BY <1>13, <2>2
    <3>2. QED
      BY <1>7, <1>13, <2>2, <3>1
  <2>3. CASE x = H + 1
    <3>1. x \in 1 .. H + 1
      BY <1>13, <2>3
    <3>2. QED
      BY <1>3, <1>13, <2>3, <3>1
  <2>4. CASE x - (H + 1) \in 1 .. M
    <3> DEFINE y == x - (H + 1)
    <3>1. y \in 1 .. M /\ x = H + 1 + y
      BY <1>13, <2>4
    <3> HIDE DEF y
    <3>2. QED
      BY <1>8, <1>13, <3>1
  <2>5. QED
    BY <2>1, <2>2, <2>3, <2>4
<1>15. ASSUME NEW x \in 1 .. Len(Raw)
       PROVE  Raw[x] # name
  <2>1. x \in 1 .. L \/ x = L + 1 \/ x - (L + 1) \in 1 .. Len(Rest)
    BY <1>10
  <2>2. CASE x \in 1 .. L
    BY <1>10, <1>11, <2>2
  <2>3. CASE x = L + 1
    BY <1>3, <1>10, <2>3
  <2>4. CASE x - (L + 1) \in 1 .. Len(Rest)
    <3> DEFINE y == x - (L + 1)
    <3>1. y \in 1 .. Len(Rest) /\ x = L + 1 + y
      BY <1>10, <2>4
    <3> HIDE DEF y
    <3>2. QED
      BY <1>10, <1>13, <1>14, <3>1
  <2>5. QED
    BY <2>1, <2>2, <2>3, <2>4
<1>16. QED
  BY <1>15

\* Of a header that was sent, its value: not blank at its start, it is not
\* shortened.
LEMMA ValueExtracted ==
    ASSUME NEW name, NEW value \in Seq(Tokens), NEW b, HeaderAt(name, b, value),
           Len(value) > 0, value[1] # Blank
    PROVE  ExtractHeaderValue(Raw, name) = value
<1> DEFINE n == Len(value)
           pos == Find(Raw, <<name>>, 1)
           p1 == pos + 1
           I == {i \in p1 .. Len(Raw) : Raw[i] \notin {Blank, CRLF}}
           v == SelectInSubSeq(Raw, p1, Len(Raw), LAMBDA c : c \notin {Blank, CRLF})
           eol == Find(Raw, <<CRLF>>, v)
           q == b + 3
           all == Len(Raw)
<1>1. /\ pos = b + 1
      /\ Raw \in Seq(Tokens) /\ b \in Nat /\ n \in Nat /\ b + 3 + n <= all
      /\ Raw[b + 2] = Blank /\ Raw[b + 3 + n] = CRLF
      /\ \A i \in 1 .. n : Raw[b + 2 + i] = value[i] /\ value[i] # CRLF
  BY DEF HeaderAt
<1>2. n > 0 /\ all \in Nat
  BY <1>1, LenProperties
<1>3. ExtractHeaderValue(Raw, name) =
        IF pos = 0 \/ v = 0 THEN <<>> ELSE SubSeq(Raw, v, IF eol = 0 THEN all ELSE eol - 1)
  BY Zenon DEF ExtractHeaderValue
<1>4. v = IF I # {} THEN Min(I) ELSE 0
  BY Zenon DEF SelectInSubSeq
<1> HIDE DEF pos, n, all, v
<1>5. Raw[q] = value[1] /\ value[1] # CRLF
  <2>1. 1 \in 1 .. n /\ b + 2 + 1 = q
    BY <1>1, <1>2
  <2>2. QED
    BY <1>1, <2>1
<1>6. q \in p1 .. all /\ p1 = b + 2 /\ pos # 0 /\ q # 0 /\ q \in Nat \ {0}
  BY <1>1, <1>2
<1>7. q \in I /\ \A i \in I : q <= i
  <2>1. Raw[q] \notin {Blank, CRLF}
    BY <1>5
  <2>2. q \in I
    BY <1>6, <2>1 DEF all
  <2>3. \A i \in p1 .. all : i = b + 2 \/ q <= i
    BY <1>1, <1>6
  <2>4. QED
    BY <1>1, <2>2, <2>3 DEF all
<1>8. v = q
  <2>1. I \subseteq Nat /\ I # {}
    BY <1>1, <1>6, <1>7
  <2> HIDE DEF I
  <2>2. Min(I) \in I /\ \A y \in I : Min(I) <= y
    BY <2>1, HasMinimum
  <2>3. q <= Min(I) /\ Min(I) <= q /\ Min(I) \in Nat /\ q \in Nat
    BY <1>6, <1>7, <2>1, <2>2
  <2>4. QED
    BY <1>4, <2>1, <2>3
<1> HIDE DEF I
<1>9. eol = q + n
  <2> DEFINE e == q + n
  <2>1. e \in q .. all /\ Raw[e] = CRLF
    BY <1>1, <1>2
  <2>2. ASSUME NEW x \in q .. e - 1
        PROVE  Raw[x] # CRLF
    <3> DEFINE i == x - (b + 2)
    <3>1. i \in 1 .. n /\ x = b + 2 + i
      BY <1>1
    <3> HIDE DEF i
    <3>2. QED
      BY <1>1, <3>1
  <2>3. CRLF \in Tokens /\ Raw \in Seq(Tokens)
    BY <1>1, TokensAssumption
  <2>4. e \in q .. Len(Raw) /\ \A x \in q .. e - 1 : Raw[x] # CRLF
    BY <2>1, <2>2 DEF all
  <2> HIDE DEF e, q
  <2>5. Find(Raw, <<CRLF>>, q) = e
    BY <1>6, <2>1, <2>3, <2>4, FindToken, Zenon
  <2>6. QED
    BY <1>8, <2>5 DEF e
<1> DEFINE o == b + 2
<1>10. SubSeq(Raw, q, q + n - 1) = value
  <2>1. Within(Raw, value, o)
    <3>1. o + n <= all
      BY <1>1, <1>2
    <3>2. QED
      BY <1>1, <3>1 DEF Within, n, all
  <2>2. o \in Nat /\ o + 1 = q /\ o + n = q + n - 1
    BY <1>1
  <2>3. Raw \in Seq(Tokens) /\ 1 \in Nat \ {0} /\ n <= Len(value)
    BY <1>1 DEF n
  <2> HIDE DEF o
  <2>4. SameStretches(Raw, value, o)
    BY <2>1, <2>2, <2>3, StretchesInRaw, Zenon
  <2>5. SubSeq(Raw, o + 1, o + n) = SubSeq(value, 1, n)
    BY <1>1, <2>3, <2>4, Zenon DEF SameStretches
  <2>6. SubSeq(value, 1, n) = value
    BY WholeText DEF n
  <2> HIDE DEF q
  <2>7. QED
    BY <2>2, <2>5, <2>6
<1>11. eol # 0 /\ v # 0
  BY <1>1, <1>6, <1>8, <1>9
<1> HIDE DEF eol
<1>12. ExtractHeaderValue(Raw, name) = SubSeq(Raw, v, eol - 1)
  BY <1>3, <1>6, <1>11, Zenon
<1> HIDE DEF q, p1, o
<1>13. eol - 1 = q + n - 1
  BY <1>1, <1>6, <1>9
<1>14. SubSeq(Raw, v, eol - 1) = SubSeq(Raw, q, q + n - 1)
  BY <1>8, <1>13
<1>15. QED
  BY <1>10, <1>12, <1>14

\* The header that a client has sent under a name, the first if there are many.
LEMMA SentHeaderIs ==
    ASSUME Shaped, NEW name
    PROVE  \/ /\ SentHeader(name) = <<>>
              /\ \A i \in 1 .. Len(message.headers) : message.headers[i].name # name
           \/ \E i \in 1 .. Len(message.headers) :
                 message.headers[i].name = name /\ SentHeader(name) = message.headers[i].value
<1> DEFINE hs == message.headers
           I == {i \in 1 .. Len(hs) : hs[i].name = name}
           k == SelectInSeq(hs, LAMBDA h : h.name = name)
<1>1. k = IF I # {} THEN Min(I) ELSE 0
  BY Zenon DEF SelectInSeq
<1>2. SentHeader(name) = IF k = 0 THEN <<>> ELSE hs[k].value
  BY Zenon DEF SentHeader
<1> HIDE DEF k
<1>3. CASE I = {}
  BY <1>1, <1>2, <1>3
<1>4. CASE I # {}
  <2>1. I \subseteq Nat
    OBVIOUS
  <2>2. Min(I) \in I
    BY <1>4, <2>1, HasMinimum
  <2>3. k \in I /\ k # 0
    BY <1>1, <1>4, <2>2
  <2>4. QED
    BY <1>2, <2>3
<1>5. QED
  BY <1>3, <1>4

\* What the echo page reads of a header is its value.
LEMMA HeaderReported ==
    ASSUME Shaped, HeaderFree, Composed, NEW name \in EchoHeaders,
           \A i \in 1 .. Len(message.headers) : message.headers[i].value # <<>>
    PROVE  /\ ExtractHeaderValue(Raw, name) = SentHeader(name)
           /\ SentHeader(name) \in Seq(Tokens)
<1>1. SentHeader(name) \in Seq(Tokens)
  BY HeaderTyped
<1>2. CASE \A i \in 1 .. Len(message.headers) : message.headers[i].name # name
  <2>1. SentHeader(name) = <<>>
    BY <1>2, SentHeaderIs
  <2>2. \A x \in 1 .. Len(Raw) : Raw[x] # name
    BY <1>2, HeaderNowhere
  <2> DEFINE one == 1
             pos == Find(Raw, <<name>>, one)
  <2>3. pos = 0
    <3>1. Raw \in Seq(Tokens) /\ name \in Tokens \cup EchoHeaders /\ one \in Nat \ {0}
      BY RawTyped
    <3>2. \A x \in one .. Len(Raw) : Raw[x] # name
      BY <2>2
    <3>3. Raw \in Seq(Tokens \cup EchoHeaders)
      <4>1. \A i \in 1 .. Len(Raw) : Raw[i] \in Tokens \cup EchoHeaders
        BY <3>1, ElementOfSeq
      <4>2. QED
        BY <3>1, <4>1
    <3> HIDE DEF one, pos
    <3>4. Find(Raw, <<name>>, one) = 0
      BY <3>1, <3>2, <3>3, FindToken, Zenon
    <3>5. QED
      BY <3>4 DEF pos
  <2>4. ExtractHeaderValue(Raw, name) = <<>>
    BY <2>3, Zenon DEF ExtractHeaderValue
  <2>5. QED
    BY <1>1, <2>1, <2>4
<1>3. CASE \E i \in 1 .. Len(message.headers) : message.headers[i].name = name
  <2>1. PICK i \in 1 .. Len(message.headers) :
           message.headers[i].name = name /\ SentHeader(name) = message.headers[i].value
    BY <1>3, SentHeaderIs
  <2>2. PICK b : HeaderAt(name, b, SentHeader(name))
    BY <1>3, HeaderValue
  <2>3. message.headers[i] \in SentHeaders
    BY HeaderLinesFacts
  <2> DEFINE value == SentHeader(name)
  <2>4. value # <<>> /\ value[1] # Blank
    BY <2>1, <2>3, ValueAssumption
  <2> HIDE DEF value
  <2>5. value \in Seq(Tokens)
    BY <1>1 DEF value
  <2>6. Len(value) > 0
    BY <2>4, <2>5
  <2>7. HeaderAt(name, b, value)
    BY <2>2 DEF value
  <2>8. ExtractHeaderValue(Raw, name) = value
    BY <2>4, <2>5, <2>6, <2>7, ValueExtracted
  <2>9. QED
    BY <1>1, <2>8 DEF value
<1>4. QED
  BY <1>2, <1>3

\* What a stretch of a text has.
Stretched(t, i, j) ==
    /\ Len(SubSeq(t, i, j)) = j - i + 1
    /\ \A x \in 1 .. j - i + 1 : SubSeq(t, i, j)[x] = t[i + x - 1]
    /\ \A c : Contains(SubSeq(t, i, j), c) <=> \E x \in i .. j : t[x] = c

\* A stretch of a text, by its positions.
LEMMA StretchText ==
    ASSUME NEW S, NEW t \in Seq(S), NEW i \in Nat \ {0}, NEW j \in Nat, i <= j + 1, j <= Len(t)
    PROVE  SubSeq(t, i, j) \in Seq(S) /\ Stretched(t, i, j)
<1> DEFINE q == SubSeq(t, i, j)
<1>1. i \in Int /\ j \in Int /\ \A x \in i .. j : t[x] \in S
  <2>1. \A x \in i .. j : x \in 1 .. Len(t)
    BY LenProperties
  <2>2. QED
    BY <2>1, ElementOfSeq
<1>2. /\ q \in Seq(S)
      /\ Len(q) = IF i <= j THEN j - i + 1 ELSE 0
      /\ \A x \in 1 .. j - i + 1 : q[x] = t[i + x - 1]
  BY <1>1, SubSeqProperties
<1> HIDE DEF q
<1>3. Len(q) = j - i + 1
  BY <1>2
<1>4. ASSUME NEW c
      PROVE  Contains(q, c) <=> \E x \in i .. j : t[x] = c
  <2>1. Contains(q, c) <=> \E x \in 1 .. j - i + 1 : q[x] = c
    BY <1>3 DEF Contains
  <2>2. ASSUME NEW x \in 1 .. j - i + 1, q[x] = c
        PROVE  \E y \in i .. j : t[y] = c
    <3>1. i + x - 1 \in i .. j /\ t[i + x - 1] = c
      BY <1>2, <2>2
    <3>2. QED
      BY <3>1
  <2>3. ASSUME NEW y \in i .. j, t[y] = c
        PROVE  \E x \in 1 .. j - i + 1 : q[x] = c
    <3> DEFINE x == y - i + 1
    <3>1. x \in 1 .. j - i + 1 /\ i + x - 1 = y
      OBVIOUS
    <3> HIDE DEF x
    <3>2. q[x] = c
      BY <1>2, <2>3, <3>1
    <3>3. QED
      BY <3>1, <3>2
  <2>4. QED
    BY <2>1, <2>2, <2>3
<1>5. QED
  BY <1>2, <1>3, <1>4 DEF q, Stretched

\* The parameters of a query by where they begin in it.
PieceAt(query, i) == PieceFrom(query, "&", i)
EqualsAt(query, i) == Find(PieceAt(query, i), <<"=">>, 1)
ParamStarts(query) == {i \in 1 .. Len(query) : StartsPiece(query, "&", i) /\ EqualsAt(query, i) # 0}
KeyAt(query, i) == Before(PieceAt(query, i), EqualsAt(query, i))
ValueAt(query, i) == After(PieceAt(query, i), EqualsAt(query, i))

\* The piece that begins somewhere, up to the next ampersand or the end.
LEMMA PieceFacts ==
    ASSUME NEW query \in Seq(Tokens), NEW i \in 1 .. Len(query)
    PROVE  /\ PieceAt(query, i) \in Seq(Tokens)
           /\ \E z \in i .. Len(query) + 1 :
                 /\ z = Len(query) + 1 \/ (z <= Len(query) /\ query[z] = "&")
                 /\ \A x \in i .. z - 1 : query[x] # "&"
                 /\ PieceAt(query, i) = SubSeq(query, i, z - 1)
<1> DEFINE n == Len(query)
           e == Find(query, <<"&">>, i)
           z == IF e = 0 THEN n + 1 ELSE e
           j == z - 1
<1>1. n \in Nat /\ i \in Nat \ {0} /\ i <= n /\ "&" \in Tokens
  BY LenProperties, TokensAssumption
<1>2. TokenAt(query, "&", i, e)
  BY <1>1, FindsToken, Zenon
<1>3. PieceAt(query, i) = SubSeq(query, i, IF e = 0 THEN n ELSE e - 1)
  BY DEF PieceAt, PieceFrom
<1>4. \/ e = 0 /\ \A x \in i .. n : query[x] # "&"
      \/ e \in i .. n /\ query[e] = "&" /\ \A x \in i .. e - 1 : query[x] # "&"
  BY <1>2 DEF TokenAt
<1> HIDE DEF e, n
<1>5. z \in i .. n + 1 /\ (z = n + 1 \/ (z <= n /\ query[z] = "&"))
  <2>1. CASE e = 0
    <3>1. z = n + 1
      BY <2>1
    <3> HIDE DEF z
    <3>2. z \in i .. n + 1
      BY <1>1, <3>1
    <3>3. QED
      BY <3>1, <3>2
  <2>2. CASE e # 0
    <3>1. z = e /\ e \in i .. n /\ query[e] = "&"
      BY <1>4, <2>2
    <3> HIDE DEF z
    <3>2. z \in i .. n + 1 /\ z <= n
      BY <1>1, <3>1
    <3>3. QED
      BY <3>1, <3>2
  <2>3. QED
    BY <2>1, <2>2
<1>6. \A x \in i .. j : query[x] # "&"
  BY <1>1, <1>4
<1>7. (IF e = 0 THEN n ELSE e - 1) = j
  BY <1>1, <1>4
<1>8. j \in Nat /\ i <= j + 1 /\ j <= Len(query)
  BY <1>1, <1>5 DEF n
<1> HIDE DEF z
<1>9. SubSeq(query, i, j) \in Seq(Tokens)
  <2> HIDE DEF j
  <2>1. QED
    BY <1>1, <1>8, StretchText
<1>10. QED
  BY <1>3, <1>5, <1>6, <1>7, <1>9 DEF n

LEMMA EqualsFound ==
    ASSUME NEW piece \in Seq(Tokens)
    PROVE  Find(piece, <<"=">>, 1) # 0 <=> Contains(piece, "=")
<1> DEFINE one == 1
           e == Find(piece, <<"=">>, one)
<1>1. one \in Nat \ {0} /\ "=" \in Tokens
  BY TokensAssumption
<1> HIDE DEF one
<1>2. TokenAt(piece, "=", one, e)
  BY <1>1, FindsToken, Zenon
<1> HIDE DEF e
<1>3. \/ e = 0 /\ \A x \in 1 .. Len(piece) : piece[x] # "="
      \/ e \in 1 .. Len(piece) /\ piece[e] = "="
  BY <1>2 DEF TokenAt, one
<1>4. e # 0 <=> Contains(piece, "=")
  BY <1>3 DEF Contains
<1>5. QED
  BY <1>4 DEF e, one

\* A stretch of what was sent that a client takes for a parameter is a piece
\* that the server splits off, and the other way round.
LEMMA StretchIsPiece ==
    ASSUME SentQuery \in Seq(Tokens), NEW s \in Stretches
    PROVE  s[1] + 1 \in ParamStarts(SentQuery) /\ PairOf(s) = PieceAt(SentQuery, s[1] + 1)
<1> DEFINE Q == SentQuery
           n == Len(Q)
           a == s[1]
           z == s[2]
           i == a + 1
           j == z - 1
<1>1. n \in Nat /\ Q \in Seq(Tokens) /\ "&" \in Tokens
  BY LenProperties, TokensAssumption
<1>2. /\ a \in 0 .. n /\ z \in 1 .. n + 1
      /\ a = 0 \/ (a > 0 /\ Q[a] = "&")
      /\ z = n + 1 \/ (z <= n /\ Q[z] = "&")
      /\ a < z /\ ~Contains(PairOf(s), "&") /\ Contains(PairOf(s), "=")
  BY DEF Stretches
<1>3. PairOf(s) = SubSeq(Q, i, j)
  BY DEF PairOf
<1> HIDE DEF Q, n, a, z
<1>4. i \in Nat \ {0} /\ j \in Nat /\ i <= j + 1 /\ j <= n
  BY <1>1, <1>2
<1> DEFINE pair == SubSeq(Q, i, j)
<1>5. /\ pair \in Seq(Tokens)
      /\ \A c : Contains(pair, c) <=> \E x \in i .. j : Q[x] = c
  <2>1. j <= Len(Q)
    BY <1>4 DEF n
  <2> HIDE DEF i, j
  <2>2. i \in Nat \ {0} /\ j \in Nat /\ i <= j + 1
    BY <1>4
  <2>3. Q \in Seq(Tokens)
    BY <1>1
  <2>4. SubSeq(Q, i, j) \in Seq(Tokens) /\ Stretched(Q, i, j)
    BY <2>1, <2>2, <2>3, StretchText
  <2>5. QED
    BY <2>4, Zenon DEF Stretched
<1>6. (\A x \in i .. j : Q[x] # "&") /\ (\E x \in i .. j : Q[x] = "=")
  BY <1>2, <1>3, <1>5
<1>7. i \in 1 .. n
  BY <1>1, <1>2, <1>6
<1>8. StartsPiece(Q, "&", i)
  BY <1>1, <1>2 DEF StartsPiece
<1>9. PieceAt(Q, i) = pair
  <2> DEFINE e == Find(Q, <<"&">>, i)
  <2>1. PieceAt(Q, i) = SubSeq(Q, i, IF e = 0 THEN n ELSE e - 1)
    BY DEF PieceAt, PieceFrom, n
  <2> HIDE DEF e
  <2>2. (IF e = 0 THEN n ELSE e - 1) = j
    <3>1. CASE z = n + 1
      <4>1. \A x \in i .. Len(Q) : Q[x] # "&"
        <5>1. j = Len(Q)
          BY <1>1, <3>1 DEF n
        <5>2. QED
          BY <1>6, <5>1
      <4> HIDE DEF i
      <4>2. Find(Q, <<"&">>, i) = 0
        BY <1>1, <1>4, <4>1, FindToken, Zenon
      <4>3. e = 0
        BY <4>2 DEF e
      <4>4. QED
        BY <1>1, <3>1, <4>3
    <3>2. CASE z <= n /\ Q[z] = "&"
      <4>1. z \in i .. Len(Q) /\ Q[z] = "&" /\ z # 0
        BY <1>1, <1>2, <3>2 DEF n
      <4>2. \A x \in i .. z - 1 : Q[x] # "&"
        BY <1>6
      <4> HIDE DEF i, j
      <4>3. Find(Q, <<"&">>, i) = z
        BY <1>1, <1>4, <4>1, <4>2, FindToken, Zenon
      <4>4. e = z
        BY <4>3 DEF e
      <4>5. QED
        BY <4>1, <4>4 DEF j
    <3>3. QED
      BY <1>2, <3>1, <3>2
  <2>3. QED
    BY <2>1, <2>2
<1> HIDE DEF i, pair
<1>10. Find(pair, <<"=">>, 1) # 0
  BY <1>2, <1>3, <1>5, EqualsFound DEF pair
<1>11. i \in ParamStarts(Q)
  BY <1>7, <1>8, <1>9, <1>10 DEF ParamStarts, EqualsAt, n
<1>12. QED
  BY <1>3, <1>9, <1>11 DEF i, a, Q, pair

LEMMA PieceIsStretch ==
    ASSUME SentQuery \in Seq(Tokens), NEW i \in ParamStarts(SentQuery)
    PROVE  \E s \in Stretches : s[1] + 1 = i
<1> DEFINE Q == SentQuery
           n == Len(Q)
           a == i - 1
<1>1. n \in Nat /\ Q \in Seq(Tokens)
  BY LenProperties
<1>2. i \in 1 .. n /\ StartsPiece(Q, "&", i) /\ EqualsAt(Q, i) # 0
  BY DEF ParamStarts
<1>3. PICK z \in i .. n + 1 :
         /\ z = n + 1 \/ (z <= n /\ Q[z] = "&")
         /\ \A x \in i .. z - 1 : Q[x] # "&"
         /\ PieceAt(Q, i) = SubSeq(Q, i, z - 1)
  BY <1>1, <1>2, PieceFacts
<1>4. PieceAt(Q, i) \in Seq(Tokens)
  BY <1>1, <1>2, PieceFacts
<1> DEFINE s == <<a, z>>
           j == z - 1
<1>5. i \in Nat \ {0} /\ j \in Nat /\ i <= j + 1 /\ j <= n
  BY <1>1, <1>2, <1>3
<1>6. PairOf(s) = SubSeq(Q, i, j)
  <2>1. PairOf(s) = SubSeq(Q, a + 1, j)
    BY DEF PairOf
  <2>2. a + 1 = i
    BY <1>2
  <2>3. QED
    BY <2>1, <2>2
<1>7. Contains(PairOf(s), "=")
  <2>1. Find(PieceAt(Q, i), <<"=">>, 1) # 0
    BY <1>2 DEF EqualsAt
  <2>2. Contains(PieceAt(Q, i), "=")
    BY <1>4, <2>1, EqualsFound
  <2>3. QED
    BY <1>3, <1>6, <2>2
<1>8. ~Contains(PairOf(s), "&")
  <2>1. \A c : Contains(SubSeq(Q, i, j), c) <=> \E x \in i .. j : Q[x] = c
    <3>1. j <= Len(Q)
      BY <1>5
    <3>2. Q \in Seq(Tokens)
      BY <1>1
    <3>3. i \in Nat \ {0} /\ j \in Nat /\ i <= j + 1
      BY <1>5
    <3> HIDE DEF j, Q
    <3>4. Stretched(Q, i, j)
      BY <3>1, <3>2, <3>3, StretchText
    <3>5. QED
      BY <3>4, Zenon DEF Stretched
  <2>2. QED
    BY <1>3, <1>6, <2>1
<1> HIDE DEF Q, n
<1>9. /\ a \in 0 .. n /\ z \in 1 .. n + 1 /\ a < z
      /\ a = 0 \/ (a > 0 /\ Q[a] = "&")
  BY <1>1, <1>2, <1>3 DEF StartsPiece
<1>10. s \in (0 .. n) \X (1 .. n + 1) /\ s[1] = a /\ s[2] = z
  BY <1>9
<1> HIDE DEF s, a
<1>11. s \in Stretches
  BY <1>3, <1>7, <1>8, <1>9, <1>10 DEF Stretches, Q, n
<1>12. s[1] + 1 = i
  BY <1>2, <1>10 DEF a
<1>13. QED
  BY <1>11, <1>12

\* The last parameter of its key.
LastOfKey(query) == {i \in ParamStarts(query) :
                       \A j \in ParamStarts(query) : KeyAt(query, j) = KeyAt(query, i) => j <= i}

\* What a client has sent, by the positions of its query.
LEMMA SentParamsAt ==
    ASSUME SentQuery \in Seq(Tokens)
    PROVE  SentParams = {<<KeyAt(SentQuery, i), ValueAt(SentQuery, i)>> : i \in LastOfKey(SentQuery)}
<1> DEFINE Q == SentQuery
           Val(s) == After(PairOf(s), Find(PairOf(s), <<"=">>, 1))
           Ls == {s \in Stretches : \A t \in Stretches : KeyOf(t) = KeyOf(s) => t[1] <= s[1]}
<1>1. ASSUME NEW s \in Stretches
      PROVE  /\ s[1] \in Nat /\ s[1] + 1 \in ParamStarts(Q)
             /\ KeyOf(s) = KeyAt(Q, s[1] + 1) /\ Val(s) = ValueAt(Q, s[1] + 1)
  <2>1. s[1] + 1 \in ParamStarts(Q) /\ PairOf(s) = PieceAt(Q, s[1] + 1)
    BY StretchIsPiece
  <2>2. s[1] \in Nat
    BY LenProperties DEF Stretches
  <2>3. QED
    BY <2>1, <2>2 DEF KeyOf, KeyAt, ValueAt, EqualsAt
<1>2. \A i \in ParamStarts(Q) : \E s \in Stretches : s[1] + 1 = i
  BY PieceIsStretch
<1>3. SentParams = {<<KeyOf(s), Val(s)>> : s \in Ls}
  BY Zenon DEF SentParams
<1>4. \A i \in ParamStarts(Q) : i \in Nat
  BY DEF ParamStarts
<1> HIDE DEF Val, Q
<1>5. ASSUME NEW s \in Ls
      PROVE  s[1] + 1 \in LastOfKey(Q)
  <2>1. s \in Stretches /\ \A t \in Stretches : KeyOf(t) = KeyOf(s) => t[1] <= s[1]
    OBVIOUS
  <2> DEFINE i == s[1] + 1
  <2>2. i \in ParamStarts(Q) /\ KeyOf(s) = KeyAt(Q, i) /\ s[1] \in Nat
    BY <1>1, <2>1
  <2>3. ASSUME NEW j \in ParamStarts(Q), KeyAt(Q, j) = KeyAt(Q, i)
        PROVE  j <= i
    <3>1. PICK t \in Stretches : t[1] + 1 = j
      BY <1>2
    <3>2. KeyOf(t) = KeyAt(Q, j) /\ t[1] \in Nat
      BY <1>1, <3>1
    <3>3. t[1] <= s[1]
      BY <2>1, <2>2, <2>3, <3>2
    <3>4. QED
      BY <2>2, <3>1, <3>2, <3>3
  <2> HIDE DEF i
  <2>4. i \in LastOfKey(Q)
    BY <2>2, <2>3 DEF LastOfKey
  <2>5. QED
    BY <2>4 DEF i
<1>6. ASSUME NEW i \in LastOfKey(Q)
      PROVE  \E s \in Ls : s[1] + 1 = i
  <2>1. i \in ParamStarts(Q) /\ \A j \in ParamStarts(Q) : KeyAt(Q, j) = KeyAt(Q, i) => j <= i
    BY DEF LastOfKey
  <2>2. PICK s \in Stretches : s[1] + 1 = i
    BY <1>2, <2>1
  <2>3. KeyOf(s) = KeyAt(Q, i) /\ s[1] \in Nat
    BY <1>1, <2>2
  <2>4. ASSUME NEW t \in Stretches, KeyOf(t) = KeyOf(s)
        PROVE  t[1] <= s[1]
    <3>1. t[1] + 1 \in ParamStarts(Q) /\ KeyOf(t) = KeyAt(Q, t[1] + 1) /\ t[1] \in Nat
      BY <1>1
    <3>2. t[1] + 1 <= i
      BY <2>1, <2>3, <2>4, <3>1
    <3>3. QED
      BY <2>2, <2>3, <3>1, <3>2
  <2>5. QED
    BY <2>2, <2>4
<1> DEFINE B == {<<KeyAt(Q, i), ValueAt(Q, i)>> : i \in LastOfKey(Q)}
<1>7. ASSUME NEW x \in {<<KeyOf(s), Val(s)>> : s \in Ls}
      PROVE  x \in B
  <2>1. PICK s \in Ls : x = <<KeyOf(s), Val(s)>>
    OBVIOUS
  <2>2. s[1] + 1 \in LastOfKey(Q)
    BY <1>5
  <2>3. KeyOf(s) = KeyAt(Q, s[1] + 1) /\ Val(s) = ValueAt(Q, s[1] + 1)
    BY <1>1
  <2>4. QED
    BY <2>1, <2>2, <2>3
<1>8. ASSUME NEW x \in B
      PROVE  x \in {<<KeyOf(s), Val(s)>> : s \in Ls}
  <2>1. PICK i \in LastOfKey(Q) : x = <<KeyAt(Q, i), ValueAt(Q, i)>>
    OBVIOUS
  <2>2. PICK s \in Ls : s[1] + 1 = i
    BY <1>6
  <2>3. KeyOf(s) = KeyAt(Q, s[1] + 1) /\ Val(s) = ValueAt(Q, s[1] + 1)
    BY <1>1
  <2>4. QED
    BY <2>1, <2>2, <2>3
<1>9. QED
  BY <1>3, <1>7, <1>8 DEF Q

\* What the server's loop over the query does, step by step.
Collect(query, i, params) ==
    IF i \in ParamStarts(query)
    THEN [k \in DOMAIN params \cup {KeyAt(query, i)} |->
            IF k = KeyAt(query, i) THEN ValueAt(query, i) ELSE params[k]]
    ELSE params

IsCollector(f, query, n) ==
    f = [i \in 0 .. n |-> IF i = 0 THEN NoParams
                          ELSE IF StartsPiece(query, "&", i)
                               THEN AddParam(f[i - 1], PieceFrom(query, "&", i))
                          ELSE f[i - 1]]

LEMMA CollectorExists ==
    ASSUME NEW query, NEW n \in Nat
    PROVE  \E f : IsCollector(f, query, n)
<1> DEFINE T == {m \in Nat : \E f : IsCollector(f, query, m)}
           Step(i, p) == IF StartsPiece(query, "&", i) THEN AddParam(p, PieceFrom(query, "&", i)) ELSE p
<1>1. 0 \in T
  <2> DEFINE f == [i \in 0 .. 0 |-> NoParams]
  <2>1. f = [i \in 0 .. 0 |-> IF i = 0 THEN NoParams
                          ELSE IF StartsPiece(query, "&", i)
                               THEN AddParam(f[i - 1], PieceFrom(query, "&", i))
                          ELSE f[i - 1]]
    OBVIOUS
  <2> HIDE DEF f
  <2>2. IsCollector(f, query, 0)
    BY <2>1, Zenon DEF IsCollector
  <2>3. QED
    BY <2>2
<1>2. ASSUME NEW m \in Nat, m \in T
      PROVE  m + 1 \in T
  <2>1. PICK f : IsCollector(f, query, m)
    BY <1>2
  <2>2. f = [i \in 0 .. m |-> IF i = 0 THEN NoParams ELSE Step(i, f[i - 1])]
    BY <2>1, Zenon DEF IsCollector
  <2> HIDE DEF Step
  <2> DEFINE g == [i \in 0 .. m + 1 |-> IF i = 0 THEN NoParams ELSE Step(i, f[i - 1])]
  <2>3. \A i \in 0 .. m : g[i] = f[i]
    BY <2>2
  <2>4. \A i \in 0 .. m + 1 : i # 0 => i - 1 \in 0 .. m
    OBVIOUS
  <2>5. g = [i \in 0 .. m + 1 |-> IF i = 0 THEN NoParams ELSE Step(i, g[i - 1])]
    <3>1. \A i \in 0 .. m + 1 :
             (IF i = 0 THEN NoParams ELSE Step(i, f[i - 1]))
               = (IF i = 0 THEN NoParams ELSE Step(i, g[i - 1]))
      BY <2>3, <2>4
    <3>2. QED
      BY <3>1
  <2> HIDE DEF g
  <2>6. IsCollector(g, query, m + 1)
    BY <2>5, Zenon DEF IsCollector, Step
  <2>7. QED
    BY <2>6
<1> HIDE DEF T
<1>3. n \in T
  BY <1>1, <1>2, NatInductive
<1>4. QED
  BY <1>3 DEF T

LEMMA ParamsSteps ==
    ASSUME NEW query, Len(query) \in Nat
    PROVE  \E f : /\ ParamsOf(query) = f[Len(query)]
                  /\ f[0] = NoParams
                  /\ \A i \in 1 .. Len(query) : f[i] = Collect(query, i, f[i - 1])
<1> DEFINE n == Len(query)
           F == CHOOSE f : f =
                  [i \in 0 .. n |-> IF i = 0 THEN NoParams
                          ELSE IF StartsPiece(query, "&", i)
                               THEN AddParam(f[i - 1], PieceFrom(query, "&", i))
                          ELSE f[i - 1]]
<1>1. ParamsOf(query) = F[n]
  BY Zenon DEF ParamsOf
<1>2. \E f : IsCollector(f, query, n)
  BY CollectorExists
<1>3. F = [i \in 0 .. n |-> IF i = 0 THEN NoParams
                          ELSE IF StartsPiece(query, "&", i)
                               THEN AddParam(F[i - 1], PieceFrom(query, "&", i))
                          ELSE F[i - 1]]
  BY <1>2, Zenon DEF IsCollector
<1> HIDE DEF F, n
<1>4. n \in Nat /\ 0 \in 0 .. n /\ \A i \in 1 .. n : i \in 0 .. n /\ i # 0
  BY DEF n
<1>5. F[0] = NoParams
  BY <1>3, <1>4
<1>6. ASSUME NEW i \in 1 .. n
      PROVE  F[i] = Collect(query, i, F[i - 1])
  <2> DEFINE p == F[i - 1]
             piece == PieceFrom(query, "&", i)
  <2>1. F[i] = IF StartsPiece(query, "&", i) THEN AddParam(p, piece) ELSE p
    BY <1>3, <1>4
  <2> HIDE DEF p
  <2>2. AddParam(p, piece) =
          IF EqualsAt(query, i) = 0 THEN p
          ELSE [k \in DOMAIN p \cup {KeyAt(query, i)} |->
                  IF k = KeyAt(query, i) THEN ValueAt(query, i) ELSE p[k]]
    BY Zenon DEF AddParam, EqualsAt, KeyAt, ValueAt, PieceAt
  <2>3. i \in ParamStarts(query) <=> StartsPiece(query, "&", i) /\ EqualsAt(query, i) # 0
    BY DEF ParamStarts, n
  <2> HIDE DEF piece
  <2>4. QED
    BY <2>1, <2>2, <2>3 DEF Collect, p
<1>7. QED
  BY <1>1, <1>5, <1>6, Zenon DEF n

\* The parameters collected from the first m positions of a query.
CollectedOne(query, p, m, k) ==
    \E i \in ParamStarts(query) :
        /\ i <= m /\ KeyAt(query, i) = k /\ p[k] = ValueAt(query, i)
        /\ \A j \in ParamStarts(query) : j <= m /\ KeyAt(query, j) = k => j <= i

Collected(query, p, m) ==
    /\ \A k \in DOMAIN p : CollectedOne(query, p, m, k)
    /\ \A i \in ParamStarts(query) : i <= m => KeyAt(query, i) \in DOMAIN p

LEMMA CollectedNext ==
    ASSUME NEW query, Len(query) \in Nat, NEW m \in Nat, NEW p, Collected(query, p, m),
           NEW q, q = Collect(query, m + 1, p)
    PROVE  Collected(query, q, m + 1)
<1> DEFINE n == m + 1
           P == ParamStarts(query)
           K(i) == KeyAt(query, i)
           V(i) == ValueAt(query, i)
<1>1. \A i \in P : i \in Nat
  BY DEF ParamStarts
<1>2. n \in Nat /\ \A i \in Nat : i <= n <=> i <= m \/ i = n
  OBVIOUS
<1>3. \A i \in Nat : i <= m => i # n /\ i <= n
  OBVIOUS
<1>4. /\ \A k \in DOMAIN p : \E i \in P : /\ i <= m /\ K(i) = k /\ p[k] = V(i)
                                          /\ \A j \in P : j <= m /\ K(j) = k => j <= i
      /\ \A i \in P : i <= m => K(i) \in DOMAIN p
  BY DEF Collected, CollectedOne
<1>5. q = IF n \in P THEN [k \in DOMAIN p \cup {K(n)} |-> IF k = K(n) THEN V(n) ELSE p[k]] ELSE p
  BY DEF Collect
<1> HIDE DEF n, P, K, V
<1>6. CASE n \notin P
  <2>1. q = p
    BY <1>5, <1>6
  <2>2. \A i \in P : i <= n <=> i <= m
    BY <1>1, <1>2, <1>6
  <2>3. ASSUME NEW k \in DOMAIN q
        PROVE  \E i \in P : /\ i <= n /\ K(i) = k /\ q[k] = V(i)
                            /\ \A j \in P : j <= n /\ K(j) = k => j <= i
    BY <1>4, <2>1, <2>2
  <2>4. \A i \in P : i <= n => K(i) \in DOMAIN q
    BY <1>4, <2>1, <2>2
  <2>5. QED
    BY <2>3, <2>4 DEF Collected, CollectedOne, P, K, V, n
<1>7. CASE n \in P
  <2>1. q = [k \in DOMAIN p \cup {K(n)} |-> IF k = K(n) THEN V(n) ELSE p[k]]
    BY <1>5, <1>7
  <2>2. ASSUME NEW k \in DOMAIN q
        PROVE  \E i \in P : /\ i <= n /\ K(i) = k /\ q[k] = V(i)
                            /\ \A j \in P : j <= n /\ K(j) = k => j <= i
    <3>1. CASE k = K(n)
      <4>1. q[k] = V(n)
        BY <2>1, <3>1
      <4>2. n <= n
        BY <1>2
      <4>3. QED
        BY <1>7, <3>1, <4>1, <4>2
    <3>2. CASE k # K(n)
      <4>1. k \in DOMAIN p /\ q[k] = p[k]
        BY <2>1, <2>2, <3>2
      <4>2. PICK i \in P : /\ i <= m /\ K(i) = k /\ p[k] = V(i)
                           /\ \A j \in P : j <= m /\ K(j) = k => j <= i
        BY <1>4, <4>1
      <4>3. i <= n
        BY <1>1, <1>3, <4>2
      <4>4. \A j \in P : j <= n /\ K(j) = k => j <= m
        BY <1>1, <1>2, <3>2
      <4>5. QED
        BY <4>1, <4>2, <4>3, <4>4
    <3>3. QED
      BY <3>1, <3>2
  <2>3. ASSUME NEW i \in P, i <= n
        PROVE  K(i) \in DOMAIN q
    <3>1. i <= m \/ i = n
      BY <1>1, <1>2, <2>3
    <3>2. QED
      BY <1>4, <2>1, <3>1
  <2>4. QED
    BY <2>2, <2>3 DEF Collected, CollectedOne, P, K, V, n
<1>8. QED
  BY <1>6, <1>7

\* The last parameter of a key is the one that the server keeps.
LEMMA ParamsCollected ==
    ASSUME NEW query, Len(query) \in Nat
    PROVE  Collected(query, ParamsOf(query), Len(query))
<1> DEFINE n == Len(query)
<1>1. PICK f : /\ ParamsOf(query) = f[n] /\ f[0] = NoParams
               /\ \A i \in 1 .. n : f[i] = Collect(query, i, f[i - 1])
  BY ParamsSteps
<1> DEFINE T == {m \in Nat : m <= n => Collected(query, f[m], m)}
<1>2. 0 \in T
  <2>1. DOMAIN NoParams = {}
    BY DEF NoParams
  <2>2. \A i \in ParamStarts(query) : ~(i <= 0)
    BY DEF ParamStarts
  <2>3. Collected(query, f[0], 0)
    BY <1>1, <2>1, <2>2 DEF Collected
  <2>4. QED
    BY <2>3
<1>3. ASSUME NEW m \in Nat, m \in T
      PROVE  m + 1 \in T
  <2>1. SUFFICES ASSUME m + 1 <= n
                 PROVE  Collected(query, f[m + 1], m + 1)
    OBVIOUS
  <2>2. m + 1 \in 1 .. n /\ m + 1 - 1 = m /\ m <= n
    BY <2>1
  <2>3. Collected(query, f[m], m)
    BY <1>3, <2>2
  <2>4. f[m + 1] = Collect(query, m + 1, f[m])
    BY <1>1, <2>2
  <2>5. QED
    BY <2>3, <2>4, CollectedNext
<1> HIDE DEF T
<1>4. \A m \in Nat : m \in T
  BY <1>2, <1>3, NatInductive
<1>5. Collected(query, f[n], n)
  BY <1>4 DEF T
<1>6. QED
  BY <1>1, <1>5

LEMMA ParamsAreLast ==
    ASSUME NEW query, Len(query) \in Nat
    PROVE  {<<k, ParamsOf(query)[k]>> : k \in DOMAIN ParamsOf(query)}
             = {<<KeyAt(query, i), ValueAt(query, i)>> : i \in LastOfKey(query)}
<1> DEFINE p == ParamsOf(query)
           n == Len(query)
           P == ParamStarts(query)
           K(i) == KeyAt(query, i)
           V(i) == ValueAt(query, i)
           L == {i \in P : \A j \in P : K(j) = K(i) => j <= i}
<1>1. /\ \A k \in DOMAIN p : \E i \in P : /\ i <= n /\ K(i) = k /\ p[k] = V(i)
                                          /\ \A j \in P : j <= n /\ K(j) = k => j <= i
      /\ \A i \in P : i <= n => K(i) \in DOMAIN p
  BY ParamsCollected DEF Collected, CollectedOne
<1>2. \A i \in P : i <= n /\ i \in Nat
  BY DEF ParamStarts
<1>3. L = LastOfKey(query)
  BY DEF LastOfKey
<1> HIDE DEF p, P, K, V
<1>4. ASSUME NEW k \in DOMAIN p
      PROVE  \E i \in L : <<k, p[k]>> = <<K(i), V(i)>>
  <2>1. PICK i \in P : /\ K(i) = k /\ p[k] = V(i) /\ \A j \in P : j <= n /\ K(j) = k => j <= i
    BY <1>1
  <2>2. i \in L
    BY <1>2, <2>1
  <2>3. QED
    BY <2>1, <2>2
<1>5. ASSUME NEW i \in L
      PROVE  K(i) \in DOMAIN p /\ p[K(i)] = V(i)
  <2>1. i \in P /\ \A j \in P : K(j) = K(i) => j <= i
    OBVIOUS
  <2>2. K(i) \in DOMAIN p
    BY <1>1, <1>2, <2>1
  <2>3. PICK h \in P : /\ K(h) = K(i) /\ p[K(i)] = V(h)
                       /\ \A j \in P : j <= n /\ K(j) = K(i) => j <= h
    BY <1>1, <2>2
  <2>4. h <= i /\ i <= h
    BY <1>2, <2>1, <2>3
  <2>5. h = i
    BY <1>2, <2>1, <2>4
  <2>6. QED
    BY <2>2, <2>3, <2>5
<1>6. {<<k, p[k]>> : k \in DOMAIN p} = {<<K(i), V(i)>> : i \in L}
  <2> HIDE DEF L
  <2>1. QED
    BY <1>4, <1>5
<1>7. QED
  BY <1>3, <1>6 DEF p, K, V

LEMMA QueryTyped ==
    ASSUME NEW target \in Seq(Tokens)
    PROVE  QueryOf(target) \in Seq(Tokens)
<1> DEFINE one == 1
           q == Find(target, <<"?">>, one)
           n == Len(target)
           i == q + 1
<1>1. one \in Nat \ {0} /\ "?" \in Tokens /\ n \in Nat
  BY TokensAssumption, LenProperties
<1>2. QueryOf(target) = IF q = 0 THEN <<>> ELSE After(target, q)
  BY DEF QueryOf
<1> HIDE DEF one
<1>3. TokenAt(target, "?", one, q)
  BY <1>1, FindsToken, Zenon
<1> HIDE DEF q
<1>4. CASE q = 0
  <2>1. <<>> \in Seq(Tokens)
    OBVIOUS
  <2>2. QED
    BY <1>2, <1>4, <2>1
<1>5. CASE q # 0
  <2>1. q \in 1 .. n
    BY <1>3, <1>5 DEF TokenAt, one
  <2>2. i \in Nat \ {0} /\ i <= n + 1 /\ n <= Len(target)
    BY <1>1, <2>1
  <2>3. After(target, q) = SubSeq(target, i, n)
    BY DEF After
  <2> HIDE DEF i, n
  <2>4. SubSeq(target, i, n) \in Seq(Tokens)
    BY <1>1, <2>2, StretchText
  <2>5. QED
    BY <1>2, <1>5, <2>3, <2>4
<1>6. QED
  BY <1>4, <1>5

LEMMA KeyTyped ==
    ASSUME NEW query \in Seq(Tokens), NEW i \in ParamStarts(query)
    PROVE  KeyAt(query, i) \in Seq(Tokens) /\ ValueAt(query, i) \in Seq(Tokens)
<1> DEFINE piece == PieceAt(query, i)
           one == 1
           e == Find(piece, <<"=">>, one)
           n == Len(piece)
           j == e - 1
           k == e + 1
<1>1. i \in 1 .. Len(query) /\ EqualsAt(query, i) # 0
  BY DEF ParamStarts
<1>2. piece \in Seq(Tokens)
  BY <1>1, PieceFacts
<1>3. EqualsAt(query, i) = e
  BY DEF EqualsAt
<1>4. one \in Nat \ {0} /\ "=" \in Tokens /\ n \in Nat
  BY <1>2, TokensAssumption, LenProperties
<1>5. KeyAt(query, i) = SubSeq(piece, one, j) /\ ValueAt(query, i) = SubSeq(piece, k, n)
  BY DEF KeyAt, ValueAt, EqualsAt, Before, After
<1> HIDE DEF one, piece
<1>6. TokenAt(piece, "=", one, e)
  BY <1>2, <1>4, FindsToken, Zenon
<1> HIDE DEF e
<1>7. e \in 1 .. n
  BY <1>1, <1>3, <1>6 DEF TokenAt, one
<1>8. /\ j \in Nat /\ one <= j + 1 /\ j <= Len(piece)
      /\ k \in Nat \ {0} /\ k <= n + 1 /\ n <= Len(piece)
  BY <1>4, <1>7 DEF one
<1> HIDE DEF j, k, n
<1>9. SubSeq(piece, one, j) \in Seq(Tokens)
  BY <1>2, <1>4, <1>8, StretchText
<1>10. SubSeq(piece, k, n) \in Seq(Tokens)
  BY <1>2, <1>4, <1>8, StretchText
<1>11. QED
  BY <1>5, <1>9, <1>10

\* The reader of the query, which looks for the first two blanks, comes upon the
\* query that parse() found.
LEMMA QueryFound ==
    ASSUME Shaped, Composed, message.version # "none"
    PROVE  ExtractQueryParameters(Raw) = ParamsOf(SentQuery)
<1> DEFINE L == Len(Target)
           one == 1
           two == 2
           three == 3
           start == Find(Raw, <<Blank>>, one)
           end == Find(Raw, <<Blank>>, start + 1)
           target == SubSeq(Raw, start + 1, end - 1)
           e == L + 3
<1>1. /\ L \in Nat /\ L > 0 /\ Len(Line) \in Nat /\ Len(Raw) \in Nat /\ Len(Line) < Len(Raw)
      /\ L + 4 <= Len(Line)
      /\ Raw[1] = message.method /\ Raw[2] = Blank
      /\ Raw[L + 3] = Blank
      /\ \A i \in 1 .. Len(Line) :
            Raw[i] = Blank <=> i = 2 \/ (message.version # "none" /\ i = L + 3)
  BY LineInRaw
<1>2. Raw \in Seq(Tokens) /\ Blank \in Tokens
  BY RawTyped, TokensAssumption
<1>3. one \in Nat \ {0} /\ three \in Nat \ {0} /\ two + 1 = three
  OBVIOUS
<1> HIDE DEF L
<1>4. start = two
  <2>1. two \in one .. Len(Raw) /\ Raw[two] = Blank /\ \A i \in one .. two - 1 : Raw[i] # Blank
    <3>1. 1 \in 1 .. Len(Line) /\ 1 # 2 /\ 1 # L + 3
      BY <1>1
    <3>2. Raw[1] # Blank
      BY <1>1, <3>1
    <3>3. QED
      BY <1>1, <3>2
  <2> HIDE DEF one, two, start
  <2>2. Find(Raw, <<Blank>>, one) = two
    BY <1>2, <1>3, <2>1, FindToken, Zenon
  <2>3. QED
    BY <2>2 DEF start
<1>5. end = e
  <2>1. e \in three .. Len(Raw) /\ Raw[e] = Blank
    BY <1>1
  <2>2. \A i \in three .. e - 1 : Raw[i] # Blank
    <3>1. \A i \in three .. e - 1 : i \in 1 .. Len(Line) /\ i # 2 /\ i # L + 3
      BY <1>1
    <3>2. QED
      BY <1>1, <3>1
  <2>3. start + 1 = three
    BY <1>3, <1>4
  <2> HIDE DEF one, two, three, start, e
  <2>4. Find(Raw, <<Blank>>, three) = e
    BY <1>2, <1>3, <2>1, <2>2, FindToken, Zenon
  <2>5. QED
    BY <2>3, <2>4
<1>6. target = Target
  <2>1. Target \in Seq(Tokens)
    <3>1. Target \in Seq(Words)
      BY TargetFacts
    <3>2. \A i \in 1 .. Len(Target) : Target[i] \in Tokens
      BY <3>1, ElementOfSeq DEF Words
    <3>3. QED
      BY <3>1, <3>2
  <2>2. Within(Raw, Target, two)
    <3>1. \A i \in 1 .. Len(Line) : Raw[i] = Line[i]
      BY RawFacts
    <3>2. \A i \in 1 .. L : Line[2 + i] = Target[i]
      BY LineFacts DEF L
    <3>3. two + L <= Len(Raw) /\ \A i \in 1 .. L : 2 + i \in 1 .. Len(Line)
      BY <1>1
    <3>4. \A i \in 1 .. L : Raw[two + i] = Target[i]
      BY <3>1, <3>2, <3>3
    <3>5. QED
      BY <3>3, <3>4 DEF Within, L
  <2>3. start + 1 = two + 1 /\ end - 1 = two + L /\ two \in Nat /\ 1 \in Nat \ {0} /\ L <= Len(Target)
    BY <1>1, <1>4, <1>5 DEF L
  <2> HIDE DEF two, start, end
  <2>4. SameStretches(Raw, Target, two)
    BY <1>2, <2>1, <2>2, <2>3, StretchesInRaw, Zenon
  <2>5. SubSeq(Raw, two + 1, two + L) = SubSeq(Target, 1, L)
    BY <1>1, <2>3, <2>4, Zenon DEF SameStretches
  <2>6. SubSeq(Target, 1, L) = Target
    BY <2>1, WholeText DEF L
  <2>7. QED
    BY <2>3, <2>5, <2>6
<1>7. start # 0 /\ end # 0
  BY <1>1, <1>4, <1>5
<1> DEFINE q == Find(Target, <<"?">>, 1)
<1>8. ExtractQueryParameters(Raw) = IF q = 0 THEN NoParams ELSE ParamsOf(After(Target, q))
  <2>1. ExtractQueryParameters(Raw) =
          IF start = 0 \/ end = 0 \/ Find(target, <<"?">>, 1) = 0 THEN NoParams
          ELSE ParamsOf(After(target, Find(target, <<"?">>, 1)))
    BY Zenon DEF ExtractQueryParameters
  <2> HIDE DEF start, end, target
  <2>2. QED
    BY <1>6, <1>7, <2>1, Zenon
<1>9. SentQuery = IF q = 0 THEN <<>> ELSE After(Target, q)
  BY Zenon DEF SentQuery
<1>10. ParamsOf(<<>>) = NoParams
  <2> DEFINE empty == <<>>
  <2>1. Len(empty) = 0
    OBVIOUS
  <2> HIDE DEF empty
  <2>2. PICK f : ParamsOf(empty) = f[Len(empty)] /\ f[0] = NoParams
    BY <2>1, ParamsSteps
  <2>3. QED
    BY <2>1, <2>2 DEF empty
<1> HIDE DEF q
<1>11. CASE q = 0
  BY <1>8, <1>9, <1>10, <1>11
<1>12. CASE q # 0
  BY <1>8, <1>9, <1>12
<1>13. QED
  BY <1>11, <1>12

LEMMA SentVersion ==
    ASSUME Shaped, Composed, ~Misleading, Verdict(Raw) = "served"
    PROVE  message.version # "none"
<1>1. Parse(Raw).ok
  BY Zenon DEF Verdict
<1>2. Unparsed(Raw).ok = FALSE
  BY DEF Unparsed
<1>3. QED
  BY <1>1, <1>2, ParseFacts

\* The parameters on the page are those of the request.
ParamsShown(params) == {<<HtmlEscape(k), HtmlEscape(params[k])>> : k \in DOMAIN params}

LEMMA ParamsReported ==
    ASSUME NEW query \in Seq(Tokens)
    PROVE  /\ {<<Shown(p[1]), Shown(p[2])>> : p \in ParamsShown(ParamsOf(query))}
                = {<<k, ParamsOf(query)[k]>> : k \in DOMAIN ParamsOf(query)}
           /\ \A p \in ParamsShown(ParamsOf(query)) :
                 ToSet(p[1]) \cap Markup = {} /\ ToSet(p[2]) \cap Markup = {}
<1> DEFINE ps == ParamsOf(query)
           page == ParamsShown(ps)
           n == Len(query)
           Texts == Seq(Tokens)
<1>1. \A k \in DOMAIN ps : CollectedOne(query, ps, n, k)
  BY LenProperties, ParamsCollected DEF Collected
<1>2. ASSUME NEW k \in DOMAIN ps
      PROVE  k \in Texts /\ ps[k] \in Texts
  <2>1. PICK i \in ParamStarts(query) : KeyAt(query, i) = k /\ ps[k] = ValueAt(query, i)
    BY <1>1 DEF CollectedOne
  <2>2. QED
    BY <2>1, KeyTyped
<1>3. page = {<<HtmlEscape(k), HtmlEscape(ps[k])>> : k \in DOMAIN ps}
  BY Zenon DEF ParamsShown
<1>4. ASSUME NEW t \in Texts
      PROVE  Shown(HtmlEscape(t)) = t /\ ToSet(HtmlEscape(t)) \cap Markup = {}
  BY PageShowsText, Zenon
<1> HIDE DEF ps, page, Texts
<1>5. ASSUME NEW k \in DOMAIN ps
      PROVE  /\ Shown(HtmlEscape(k)) = k /\ Shown(HtmlEscape(ps[k])) = ps[k]
             /\ ToSet(HtmlEscape(k)) \cap Markup = {} /\ ToSet(HtmlEscape(ps[k])) \cap Markup = {}
  BY <1>2, <1>4
<1>6. {<<Shown(p[1]), Shown(p[2])>> : p \in page} = {<<k, ps[k]>> : k \in DOMAIN ps}
  <2>1. ASSUME NEW p \in page
        PROVE  <<Shown(p[1]), Shown(p[2])>> \in {<<k, ps[k]>> : k \in DOMAIN ps}
    <3>1. PICK k \in DOMAIN ps : p = <<HtmlEscape(k), HtmlEscape(ps[k])>>
      BY <1>3
    <3>2. Shown(p[1]) = k /\ Shown(p[2]) = ps[k]
      BY <1>5, <3>1
    <3>3. QED
      BY <3>2
  <2>2. ASSUME NEW k \in DOMAIN ps
        PROVE  \E p \in page : <<k, ps[k]>> = <<Shown(p[1]), Shown(p[2])>>
    <3> DEFINE p == <<HtmlEscape(k), HtmlEscape(ps[k])>>
    <3>1. p \in page /\ Shown(p[1]) = k /\ Shown(p[2]) = ps[k]
      BY <1>3, <1>5
    <3>2. QED
      BY <3>1
  <2>3. QED
    BY <2>1, <2>2
<1>7. ASSUME NEW p \in page
      PROVE  ToSet(p[1]) \cap Markup = {} /\ ToSet(p[2]) \cap Markup = {}
  <2>1. PICK k \in DOMAIN ps : p = <<HtmlEscape(k), HtmlEscape(ps[k])>>
    BY <1>3
  <2>2. QED
    BY <1>5, <2>1
<1>8. QED
  BY <1>6, <1>7 DEF ps, page

\* What the server takes for the value of a header is a text.
LEMMA ValueTyped ==
    ASSUME Shaped, NEW name
    PROVE  ExtractHeaderValue(Raw, name) \in Seq(Tokens)
<1> DEFINE pos == Find(Raw, <<name>>, 1)
           n == Len(Raw)
           p1 == pos + 1
           I == {i \in p1 .. n : Raw[i] \notin {Blank, CRLF}}
           v == SelectInSubSeq(Raw, p1, n, LAMBDA c : c \notin {Blank, CRLF})
           eol == Find(Raw, <<CRLF>>, v)
           j == IF eol = 0 THEN n ELSE eol - 1
<1>1. ExtractHeaderValue(Raw, name) = IF pos = 0 \/ v = 0 THEN <<>> ELSE SubSeq(Raw, v, j)
  BY Zenon DEF ExtractHeaderValue
<1>2. v = IF I # {} THEN Min(I) ELSE 0
  BY Zenon DEF SelectInSubSeq
<1>3. Raw \in Seq(Tokens) /\ n \in Nat /\ CRLF \in Tokens
  BY RawTyped, TokensAssumption, LenProperties
<1>4. pos \in Nat
  <2> DEFINE s == <<name>>
             one == 1
             S == Tokens \cup {name}
  <2>1. Raw \in Seq(S)
    <3>1. \A i \in 1 .. Len(Raw) : Raw[i] \in S
      BY <1>3, ElementOfSeq
    <3>2. QED
      BY <1>3, <3>1
  <2>2. one \in Nat \ {0} /\ name \in S
    OBVIOUS
  <2> HIDE DEF one, S
  <2>3. TokenAt(Raw, name, one, Find(Raw, <<name>>, one))
    BY <2>1, <2>2, FindsToken, Zenon
  <2>4. QED
    BY <1>3, <2>3 DEF TokenAt, one
<1> HIDE DEF pos, v
<1>5. CASE pos = 0 \/ v = 0
  <2>1. <<>> \in Seq(Tokens)
    OBVIOUS
  <2>2. QED
    BY <1>1, <1>5, <2>1
<1>6. CASE ~(pos = 0 \/ v = 0)
  <2>1. I # {} /\ I \subseteq Nat
    BY <1>2, <1>3, <1>4, <1>6
  <2>2. Min(I) \in I
    BY <2>1, HasMinimum
  <2>3. v \in 1 .. n /\ v \in Nat \ {0}
    BY <1>2, <1>3, <1>4, <2>1, <2>2
  <2>4. TokenAt(Raw, CRLF, v, eol)
    BY <1>3, <2>3, FindsToken, Zenon
  <2> HIDE DEF eol
  <2>5. eol = 0 \/ eol \in v .. n
    BY <2>4 DEF TokenAt
  <2>6. j \in Nat /\ v <= j + 1 /\ j <= Len(Raw)
    BY <1>3, <2>3, <2>5
  <2> HIDE DEF j, n
  <2>7. SubSeq(Raw, v, j) \in Seq(Tokens)
    BY <1>3, <2>3, <2>6, StretchText
  <2>8. QED
    BY <1>1, <1>6, <2>7
<1>7. QED
  BY <1>5, <1>6

\* All of EchoReportsRequest, from the shape of what is sent.
LEMMA RequestReported ==
    ASSUME Shaped, HeaderFree, Composed, ~Misleading, Verdict(Raw) = "served"
    PROVE  EchoReportsRequest
<1> DEFINE page == EchoPage(Raw)
           req == Parse(Raw)
           params == ExtractQueryParameters(Raw)
           value(h) == ExtractHeaderValue(Raw, h)
           Plain_(text) == ToSet(text) \cap {"<", ">", "quote"} = {}
           P == SentPath
           Texts == Seq(Tokens)
<1>1. page = [method |-> HtmlEscape(req.method), uri |-> HtmlEscape(req.path),
              query |-> HtmlEscape(req.query),
              params |-> ParamsShown(params),
              headers |-> [h \in EchoHeaders |-> HtmlEscape(value(h))]]
  BY Zenon DEF EchoPage, ParamsShown
<1>2. ASSUME NEW S, NEW t \in Seq(S)
      PROVE  Shown(HtmlEscape(t)) = t /\ Plain_(HtmlEscape(t))
  BY PageShowsText, Zenon DEF Markup
<1> HIDE DEF value, params, req, page, Plain_
<1>3. /\ P \in Seq(PathWords) /\ Len(P) > 0 /\ P[1] = "/"
      /\ PathTaken(req.path, P) /\ req.query = SentQuery
      /\ \A m \in Taken : req.method = <<m>>
  BY SentPathFacts DEF req
<1>4. PathWords \subseteq Tokens
  BY DEF PathWords, Words
<1>5. req.path \in Seq(PathWords)
  BY <1>3, <1>4, TakenPath
<1>6. SentQuery \in Seq(Tokens)
  <2>1. PICK k \in 1 .. 3 : Reads(Raw, k, Target)
    BY SentReads
  <2>2. Target \in Seq(Tokens)
    BY <2>1 DEF Reads
  <2>3. QED
    BY <2>2, QueryTyped, SentPathIs
<1>7. page.method = HtmlEscape(req.method) /\ page.uri = HtmlEscape(req.path)
      /\ page.query = HtmlEscape(req.query) /\ page.params = ParamsShown(params)
      /\ \A h \in EchoHeaders : page.headers[h] = HtmlEscape(value(h))
  BY <1>1
<1>8. ASSUME NEW m \in Taken
      PROVE  Shown(page.method) = <<m>>
  <2>1. <<m>> \in Seq({m})
    OBVIOUS
  <2>2. QED
    BY <1>2, <1>3, <1>7, <2>1
<1>9. Shown(page.uri) = req.path /\ Plain_(page.uri)
  BY <1>2, <1>5, <1>7
<1>10. \/ Shown(page.uri) = P \/ P = <<"/">> \/ SubSeq(P, 1, 2) = <<"/", "/">>
  <2>1. CASE req.path = P
    BY <1>9, <2>1
  <2>2. CASE Len(P) >= 2 /\ P[2] = "/"
    <3> DEFINE r == SubSeq(P, 1, 2)
               two == 2
    <3>1. /\ SubSeq(P, 1, two) \in Seq(PathWords) /\ Len(SubSeq(P, 1, two)) = two - 1 + 1
          /\ \A x \in 1 .. two - 1 + 1 : SubSeq(P, 1, two)[x] = P[1 + x - 1]
      <4>1. two \in Nat /\ 1 \in Nat \ {0} /\ 1 <= two + 1 /\ two <= Len(P)
        BY <2>2
      <4>2. P \in Seq(PathWords)
        BY <1>3
      <4> HIDE DEF two, P
      <4>3. SubSeq(P, 1, two) \in Seq(PathWords) /\ Stretched(P, 1, two)
        BY <4>1, <4>2, StretchText
      <4>4. QED
        BY <4>3 DEF Stretched
    <3> HIDE DEF P
    <3>2. Len(r) = 2 /\ r[1] = "/" /\ r[2] = "/"
      BY <1>3, <2>2, <3>1
    <3>3. r \in Seq(PathWords)
      BY <3>1
    <3> HIDE DEF r
    <3>4. r = <<"/", "/">>
      BY <3>2, <3>3
    <3>5. QED
      BY <3>4 DEF r
  <2>3. QED
    BY <1>3, <2>1, <2>2 DEF PathTaken
<1>11. Shown(page.query) = SentQuery /\ Plain_(page.query)
  BY <1>2, <1>3, <1>6, <1>7
<1>12. params = ParamsOf(SentQuery)
  BY SentVersion, QueryFound DEF params
<1>13. {<<Shown(p[1]), Shown(p[2])>> : p \in page.params} = SentParams
  <2>1. {<<Shown(p[1]), Shown(p[2])>> : p \in page.params}
          = {<<k, ParamsOf(SentQuery)[k]>> : k \in DOMAIN ParamsOf(SentQuery)}
    BY <1>6, <1>7, <1>12, ParamsReported
  <2>2. Len(SentQuery) \in Nat
    BY <1>6, LenProperties
  <2>3. {<<k, ParamsOf(SentQuery)[k]>> : k \in DOMAIN ParamsOf(SentQuery)}
          = {<<KeyAt(SentQuery, i), ValueAt(SentQuery, i)>> : i \in LastOfKey(SentQuery)}
    BY <2>2, ParamsAreLast
  <2>4. QED
    BY <1>6, <2>1, <2>3, SentParamsAt
<1>14. \A p \in page.params : Plain_(p[1]) /\ Plain_(p[2])
  BY <1>6, <1>7, <1>12, ParamsReported DEF Plain_, Markup
<1>15. ASSUME \A i \in DOMAIN message.headers : message.headers[i].value # <<>>, NEW h \in EchoHeaders
       PROVE  Shown(page.headers[h]) = SentHeader(h)
  <2>1. \A i \in 1 .. Len(message.headers) : message.headers[i].value # <<>>
    <3>1. message.headers \in Seq(SentHeaders)
      BY ShapedParts
    <3>2. DOMAIN message.headers = 1 .. Len(message.headers)
      BY <3>1
    <3>3. QED
      BY <1>15, <3>2
  <2>2. value(h) = SentHeader(h) /\ SentHeader(h) \in Seq(Tokens)
    BY <2>1, HeaderReported DEF value
  <2>3. QED
    BY <1>2, <1>7, <2>2
<1>16. ASSUME NEW h \in EchoHeaders
       PROVE  Plain_(page.headers[h])
  <2>1. value(h) \in Seq(Tokens)
    BY ValueTyped DEF value
  <2>2. QED
    BY <1>2, <1>7, <2>1
<1>17. QED
  BY <1>8, <1>9, <1>10, <1>11, <1>13, <1>14, <1>15, <1>16, Zenon
     DEF EchoReportsRequest, page, Plain_, P

\* The echo page (handlers/echo.cpp:78-111) shows the method, path, query,
\* parameters and headers that were sent, and no markup of theirs, but for what
\* EchoReportsRequest excepts: for requests of any length with any number of
\* headers and parameters, if nothing after the request line reads like one.
THEOREM EchoAlwaysReports == TextSpec => []EchoReportsRequest
<1>1. Shaped /\ HeaderFree => EchoReportsRequest
  BY RequestReported DEF EchoReportsRequest
<1>2. QED
  BY <1>1, HeaderNamesStandAlone, PTL
=============================================================================
