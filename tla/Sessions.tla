------------------------------ MODULE Sessions ------------------------------
(***************************************************************************)
(* Sessions and the admission to the admin routes: dispatch() of           *)
(* src/router.cpp with src/session_manager.cpp, the credentials check of   *)
(* src/authentication.cpp, and the decoding table of src/base64.cpp that   *)
(* the first check builds.  A client has one request under way at a time;  *)
(* the requests of different clients are served by different workers and   *)
(* interleave.                                                             *)
(*                                                                         *)
(* A session id is rand() mixed with the process id.  The generator is     *)
(* shared and reseeded with the second at each minting, so that an id is   *)
(* determined by the seed in force and by how many numbers were drawn      *)
(* since: <<second, k>>.  Different seeds and draws are taken to give      *)
(* different numbers.  Nothing ties an id to the client it was given to: a *)
(* request may name any id, one that somebody else was given, one that was *)
(* guessed before it was minted, or one the server never mints.            *)
(***************************************************************************)
EXTENDS Naturals, FiniteSets

CONSTANTS Clients,
          NoSession,   \* no cookie: the empty session id
          Presented,   \* ids that requests name although nobody was given them
          MaxSecond,   \* bound on the clock
          MaxRequests, \* bound on the requests of one client
          Spaced       \* whether fresh visitors come at different seconds

ASSUME BoundsAssumption == MaxSecond \in Nat /\ MaxRequests \in Nat /\ Spaced \in BOOLEAN
ASSUME ClientsAssumption == IsFiniteSet(Clients)
ASSUME NoSessionAssumption == NoSession \notin Nat \X Nat

VARIABLES now,        \* time(0)
          seed, drawn,\* rand()'s state: the last srand() and the draws since
          seeded,     \* the seconds at which a session was minted
          sessions,   \* the map, as a function on the ids ever stored
          jar,        \* the session_id cookie each client keeps
          sent,       \* how many requests each client has sent
          stage, kind, credentials, sid, \* the request under way, see below
          table, mine,\* decoding_table, 0 for nullptr, and the one each is building
          filled,     \* the tables that have all their entries
          vouched     \* history: the ids that right credentials came with

request == <<stage, kind, credentials, sid>>
random == <<seed, drawn, seeded>>
decoding == <<table, mine, filled>>
vars == <<now, random, sessions, jar, sent, request, decoding, vouched>>

\* What a request asks for: a page, a page that is not there, an admin
\* endpoint, an /admin/ path that is no endpoint, or /whoami.
Kinds == {"page", "missing", "admin", "admin page", "whoami"}
AdminKinds == {"admin", "admin page", "whoami"}

Stored == DOMAIN sessions
DataOf(id) == IF id \in Stored THEN sessions[id] ELSE "none"
Store(id, data) == sessions' = [i \in Stored \cup {id} |->
                                  IF i = id THEN data ELSE sessions[i]]
Move(c, s) == stage' = [stage EXCEPT ![c] = s]

\* The request is answered: what dispatch() knew of it is gone.
End(c, answer) == /\ Move(c, answer)
                  /\ kind' = [kind EXCEPT ![c] = "page"]
                  /\ credentials' = [credentials EXCEPT ![c] = FALSE]
                  /\ sid' = [sid EXCEPT ![c] = NoSession]

Init == /\ now = 0
        /\ seed = 0 /\ drawn = 0 /\ seeded = {}
        /\ sessions = [id \in {} |-> "none"]
        /\ jar = [c \in Clients |-> NoSession]
        /\ sent = [c \in Clients |-> 0]
        /\ stage = [c \in Clients |-> "idle"]
        /\ kind = [c \in Clients |-> "page"]
        /\ credentials = [c \in Clients |-> FALSE]
        /\ sid = [c \in Clients |-> NoSession]
        /\ table = 0 /\ filled = {}
        /\ mine = [c \in Clients |-> 0]
        /\ vouched = {}
-----------------------------------------------------------------------------
Tick == /\ now < MaxSecond
        /\ now' = now + 1
        /\ UNCHANGED <<random, sessions, jar, sent, request, decoding, vouched>>

\* A request arrives.  It names the session id that its client was given, that
\* of another client, any other or none, and has, for an admin route, the right
\* credentials or not.  /whoami does not look at the session.
Send(c) ==
    /\ stage[c] \in {"idle", "refused"}
    /\ sent[c] < MaxRequests
    /\ sent' = [sent EXCEPT ![c] = @ + 1]
    /\ \E k \in Kinds, right \in BOOLEAN,
          id \in {jar[d] : d \in Clients} \cup Presented \cup {NoSession} :
         /\ right => k \in AdminKinds
         /\ sid' = [sid EXCEPT ![c] = id]
         /\ vouched' = IF right /\ k # "whoami" THEN vouched \cup {id} ELSE vouched
         /\ kind' = [kind EXCEPT ![c] = k]
         /\ credentials' = [credentials EXCEPT ![c] = right]
         /\ Move(c, IF k \in AdminKinds THEN "authorize" ELSE "mint")
    /\ UNCHANGED <<now, random, sessions, jar, decoding>>

ByCookie(c) == kind[c] # "whoami" /\ sid[c] # NoSession
Authenticated(c) == ByCookie(c) /\ DataOf(sid[c]) = "authenticated:admin"

\* An authenticated session is admitted as it is, except to /whoami.
AdmitSession(c) ==
    /\ stage[c] = "authorize"
    /\ Authenticated(c)
    /\ Move(c, "handle")
    /\ UNCHANGED <<now, random, sessions, jar, sent, kind, credentials, sid, decoding, vouched>>

\* Everything else falls back to Basic credentials: 401 without any, else
\* base64_decode() finds a decoding table or builds it.
FallBack(c) ==
    /\ stage[c] = "authorize"
    /\ ~Authenticated(c)
    /\ \/ ~credentials[c] /\ End(c, "refused")
       \/ /\ Move(c, IF table = 0 THEN "publish" ELSE "decode")
          /\ UNCHANGED <<kind, credentials, sid>>
    /\ UNCHANGED <<now, random, sessions, jar, sent, decoding, vouched>>

\* `decoding_table = malloc(256)`, visible to every worker from then on ...
PublishTable(c) ==
    /\ stage[c] = "publish"
    /\ table' = table + 1
    /\ mine' = [mine EXCEPT ![c] = table + 1]
    /\ Move(c, "fill")
    /\ UNCHANGED <<now, random, sessions, jar, sent, kind, credentials, sid, filled,
                   vouched>>

\* Faulty variant: the table keeps what memset() has left in it.
FillBlank(c) ==
    /\ stage[c] = "fill"
    /\ Move(c, "decode")
    /\ UNCHANGED <<now, random, sessions, jar, sent, kind, credentials, sid, decoding,
                   vouched>>

\* ... and filled afterwards, through the shared pointer or through a copy of
\* it in a register, as the compiler likes.
FillTable(c) ==
    /\ stage[c] = "fill"
    /\ \E t \in {table, mine[c]} : filled' = filled \cup {t}
    /\ Move(c, "decode")
    /\ UNCHANGED <<now, random, sessions, jar, sent, kind, credentials, sid, table, mine,
                   vouched>>

\* The credentials as they come out of the table the pointer denotes by now:
\* garbled, and refused, if it has not been filled.
Readable(c) == credentials[c] /\ table \in filled

\* Faulty variant: the session is marked before the credentials are checked.
MarkThenCheck(c) ==
    /\ stage[c] = "decode"
    /\ IF ByCookie(c) THEN Store(sid[c], "authenticated:admin") ELSE UNCHANGED sessions
    /\ Move(c, IF Readable(c) THEN "handle" ELSE "refused")
    /\ UNCHANGED <<now, random, jar, sent, kind, credentials, sid, decoding, vouched>>

\* Right credentials authenticate the session that the request names, whoever
\* it was given to, and under the same id; others are answered with 401.
BasicAuth(c) ==
    /\ stage[c] = "decode"
    /\ IF Readable(c)
       THEN /\ IF ByCookie(c) THEN Store(sid[c], "authenticated:admin") ELSE UNCHANGED sessions
            /\ Move(c, "handle")
            /\ UNCHANGED <<kind, credentials, sid>>
       ELSE End(c, "refused") /\ UNCHANGED sessions
    /\ UNCHANGED <<now, random, jar, sent, decoding, vouched>>

\* The handlers of the endpoints answer; an /admin/ path without a handler
\* falls through to the static files.
HandleAdmin(c) ==
    /\ stage[c] = "handle"
    /\ \/ kind[c] = "admin" /\ End(c, "idle")
       \/ kind[c] = "admin page" /\ Move(c, "mint") /\ UNCHANGED <<kind, credentials, sid>>
    /\ UNCHANGED <<now, random, sessions, jar, sent, decoding, vouched>>

\* whoami() decodes the credentials that admitted the request once more.
Whoami(c) ==
    /\ stage[c] = "handle"
    /\ kind[c] = "whoami"
    /\ End(c, IF Readable(c) THEN "idle" ELSE "refused")
    /\ UNCHANGED <<now, random, sessions, jar, sent, decoding, vouched>>

\* Faulty variants: the generator is seeded with a constant; not at all.
SeedConstant(c) == /\ stage[c] = "mint"
                   /\ sid[c] = NoSession
                   /\ Spaced => now \notin seeded
                   /\ seed' = 0
                   /\ drawn' = 0
                   /\ seeded' = seeded \cup {now}
                   /\ Move(c, "draw")
                   /\ UNCHANGED <<now, sessions, jar, sent, kind, credentials, sid, decoding, vouched>>

SeedNever(c) == /\ stage[c] = "mint"
                /\ sid[c] = NoSession
                /\ Spaced => now \notin seeded
                /\ seeded' = seeded \cup {now}
                /\ Move(c, "draw")
                /\ UNCHANGED <<now, seed, drawn, sessions, jar, sent, kind, credentials, sid,
                               decoding, vouched>>

\* generate_session_id() for a fresh visitor: srand(time(0)) ...
Seed(c) == /\ stage[c] = "mint"
           /\ sid[c] = NoSession
           /\ Spaced => now \notin seeded
           /\ seed' = now
           /\ drawn' = 0
           /\ seeded' = seeded \cup {now}
           /\ Move(c, "draw")
           /\ UNCHANGED <<now, sessions, jar, sent, kind, credentials, sid, decoding, vouched>>

\* ... then rand(), which continues from whatever seed is in force by now.
Draw(c) == /\ stage[c] = "draw"
           /\ drawn' = drawn + 1
           /\ sid' = [sid EXCEPT ![c] = <<seed, drawn + 1>>]
           /\ Move(c, "store")
           /\ UNCHANGED <<now, seed, seeded, sessions, jar, sent, kind, credentials, decoding, vouched>>

\* `sessions[session_id] = "default_user_data"`
StoreSession(c) == /\ stage[c] = "store"
                   /\ Store(sid[c], "default_user_data")
                   /\ Move(c, "reply")
                   /\ UNCHANGED <<now, random, jar, sent, kind, credentials, sid, decoding, vouched>>

\* A returning visitor has nothing minted.
SkipMint(c) == /\ stage[c] = "mint"
               /\ sid[c] # NoSession
               /\ End(c, "idle")
               /\ UNCHANGED <<now, random, sessions, jar, sent, decoding, vouched>>

\* serve_static() sends the Set-Cookie header with a page, but not with the
\* 404 of a missing one.
Reply(c) == /\ stage[c] = "reply"
            /\ jar' = IF kind[c] = "missing" THEN jar ELSE [jar EXCEPT ![c] = sid[c]]
            /\ End(c, "idle")
            /\ UNCHANGED <<now, random, sessions, sent, decoding, vouched>>

Serve(c) == \/ AdmitSession(c) \/ FallBack(c) \/ PublishTable(c) \/ FillTable(c)
            \/ BasicAuth(c) \/ HandleAdmin(c) \/ Whoami(c)
            \/ Seed(c) \/ Draw(c) \/ StoreSession(c) \/ SkipMint(c) \/ Reply(c)

Quiet == (\A c \in Clients : stage[c] \in {"idle", "refused", "mint"}) /\ UNCHANGED vars

Next == Tick \/ (\E c \in Clients : Send(c) \/ Serve(c)) \/ Quiet

Spec == Init /\ [][Next]_vars
-----------------------------------------------------------------------------
\* "Fresh visitors get a minted session" (router.cpp:169), each a session of
\* its own: no two clients hold the same id, although srand() and rand() of
\* concurrent mintings interleave.
SessionsDistinct == \A c, d \in Clients : jar[c] = jar[d] /\ jar[c] # NoSession => c = d

\* "An already-authenticated session is admitted directly; otherwise fall
\* back to Basic credentials" (router.cpp:134-135): only right credentials
\* authenticate an id, and whoever is admitted has sent them, or names an id
\* that they have come with, from this client or another one.
AdmittedByCredentials ==
    /\ \A id \in Stored : DataOf(id) = "authenticated:admin" => id \in vouched
    /\ \A c \in Clients : stage[c] = "handle" =>
           credentials[c] \/ (ByCookie(c) /\ sid[c] \in vouched)

\* Authentication sticks: minting a session for somebody else never resets
\* one that credentials have authenticated and some client was given, or one
\* that is never minted.  (An id that is authenticated before it is given to
\* anybody is reset when it is stored.)
StaysAuthenticated ==
    [][\A id \in Stored :
           /\ sessions[id] = "authenticated:admin"
           /\ id \notin Nat \X Nat \/ \E c \in Clients : jar[c] = id
           => id \in DOMAIN sessions' /\ sessions'[id] = "authenticated:admin"]_vars

\* Right credentials are admitted, and known to whoami() (admin.cpp:93-103).
\* Only while some worker is still filling a decoding table that it has
\* published (base64.cpp:19-28) may they be refused: first uses of the table
\* that overlap do no lasting harm.
RefusedOnlyWhileBuilding ==
    [][\A c \in Clients : credentials[c] /\ stage[c] # "refused" /\ stage'[c] = "refused"
           => \E d \in Clients : stage[d] = "fill"]_vars
=============================================================================
