------------------------------- MODULE Router -------------------------------
(***************************************************************************)
(* dispatch() of src/router.cpp: which handler answers a request, what it  *)
(* answers with, and the registry of /cgi-bin rules that two admin         *)
(* handlers change while other workers look rules up (src/cgi_rules.cpp,   *)
(* src/handlers/cgi.cpp, src/handlers/admin.cpp).                          *)
(*                                                                         *)
(* The registry is a vector of rule objects and a map from a path to a     *)
(* tag; neither is locked, and a rule is pushed before its path is tagged. *)
(* A reply is its status code, its standard header fields and whether a    *)
(* body follows.  Who is admitted is the business of Sessions, the rotated *)
(* log of LogRotation, the staged helper of CgiHelper: here they succeed   *)
(* or fail.                                                                *)
(***************************************************************************)
EXTENDS Naturals, Sequences, FiniteSets

CONSTANTS Requests, \* requests, one worker each
          Workers,  \* how many are served at a time
          Paths,    \* paths below /cgi-bin/
          Asks      \* what the clients may ask, a subset of AllAsks

Methods == {"GET", "HEAD", "unsupported", "malformed"}
Types == {"static", "cgi"}

\* The endpoints that take no part in the registry, by how they are reached.
OpenRoutes == {"/status", "/logs", "/echo", "/cgi-helper"}
AdminRoutes == {"/admin/system_status", "/admin/upload_file", "/admin/logging",
                "/admin/deploy_site", "/whoami"}
RuleRoutes == {"/admin/add_rule", "/admin/update_rule"}
PageRoutes == {"/cgi-bin/", "/admin/", "page"}
Routes == OpenRoutes \cup AdminRoutes \cup RuleRoutes \cup PageRoutes
IsAdmin(route) == route \in AdminRoutes \cup RuleRoutes \cup {"/admin/"}

\* `trusted`: an authenticated session or good credentials come along.
AllAsks == [method : Methods, route : Routes, path : Paths, type : Types \cup {"other"},
            trusted : BOOLEAN]

ASSUME AsksAssumption == Asks \subseteq AllAsks
ASSUME WorkersAssumption == Workers \in Nat \ {0} /\ IsFiniteSet(Requests)

VARIABLES asked,    \* the request that each worker serves
          at,       \* where it is
          replies,  \* what was sent on its connection
          counter,  \* g_request_count
          rules,    \* cgi_rules(): the class and path of each object
          types,    \* route_types(), a function on the paths it has
          storage,  \* how often the vector has moved to larger storage
          scan,     \* the lookup of a request: its iterators, see NoScan
          ran,      \* the index of the rule that a request executed, or 0
          faulted   \* a read of freed storage has ended the process

registry == <<rules, types, storage>>
vars == <<asked, at, replies, counter, registry, scan, ran, faulted>>

NoScan == [next |-> 1, end |-> 0, storage |-> 0, expects |-> FALSE]
Standard == {"Content-Length", "Server", "Date", "Connection"}

Init == /\ asked \in [Requests -> Asks]
        /\ at = [r \in Requests |-> "arriving"]
        /\ replies = [r \in Requests |-> <<>>]
        /\ counter = 0
        /\ rules = <<>>
        /\ types = [p \in {} |-> "static"]
        /\ storage = 0
        /\ scan = [r \in Requests |-> NoScan]
        /\ ran = [r \in Requests |-> 0]
        /\ faulted = FALSE

Is(r, place) == ~faulted /\ at[r] = place
Move(r, place) == at' = [at EXCEPT ![r] = place]
Send(r, reply) == replies' = [replies EXCEPT ![r] = Append(@, reply)]
Route(r) == asked[r].route
Path(r) == asked[r].path
HeadOnly(r) == asked[r].method = "HEAD"
Active == {r \in Requests : at[r] \notin {"arriving", "closed"}}

\* send_status(): every standard header, and the body unless the caller says
\* that headers are enough.
Full(code, headOnly) == [code |-> code, fields |-> Standard, body |-> ~headOnly]
Bare(code, fields) == [code |-> code, fields |-> fields, body |-> FALSE]
-----------------------------------------------------------------------------
\* A worker has received a request.
Receive(r) == /\ Is(r, "arriving")
              /\ Cardinality(Active) < Workers
              /\ Move(r, "parse")
              /\ UNCHANGED <<asked, replies, counter, registry, scan, ran, faulted>>

\* "Answer instead of dropping the connection": 405 or 400, not counted.
Reject(r) ==
    /\ Is(r, "parse")
    /\ asked[r].method \in {"unsupported", "malformed"}
    /\ Send(r, Full(IF asked[r].method = "unsupported" THEN 405 ELSE 400, FALSE))
    /\ Move(r, "close")
    /\ UNCHANGED <<asked, counter, registry, scan, ran, faulted>>

\* The counter, then the comparisons of the path.
Accept(r) == /\ Is(r, "parse")
             /\ asked[r].method \in {"GET", "HEAD"}
             /\ counter' = counter + 1
             /\ Move(r, IF Route(r) \in OpenRoutes THEN "open"
                        ELSE IF IsAdmin(Route(r)) THEN "authorize" ELSE "lookup")
             /\ UNCHANGED <<asked, replies, registry, scan, ran, faulted>>

\* status() and echo_request() answer with one document; the log viewer may
\* refuse the level, and its 500 ignores HEAD; the helper's output has no
\* length, the close delimits it.
Document(r) == Full(200, HeadOnly(r))
LogReplies(r) == {Document(r), Full(400, HeadOnly(r)), Full(500, FALSE)}
HelperReplies(r) == {Full(500, HeadOnly(r)),
                     [Document(r) EXCEPT !.fields = @ \ {"Content-Length"}]}

\* Faulty variant: the log viewer sends its document to HEAD as well.
OpenRepliesAlike(r) == IF Route(r) = "/logs" THEN {Full(200, FALSE)} ELSE {Document(r)}

OpenReplies(r) == IF Route(r) = "/logs" THEN LogReplies(r)
                  ELSE IF Route(r) = "/cgi-helper" THEN HelperReplies(r)
                  ELSE {Document(r)}

\* Faulty variant: the return after the handler is missing.
AnswerOpenFallsThrough(r) == /\ Is(r, "open")
                             /\ \E reply \in OpenReplies(r) : Send(r, reply)
                             /\ Move(r, "lookup")
                             /\ UNCHANGED <<asked, counter, registry, scan, ran, faulted>>

AnswerOpen(r) == /\ Is(r, "open")
                 /\ \E reply \in OpenReplies(r) : Send(r, reply)
                 /\ Move(r, "close")
                 /\ UNCHANGED <<asked, counter, registry, scan, ran, faulted>>

\* The helper's copy cannot be created, or fork() fails: nothing is sent.
HelperFails(r) == /\ Is(r, "open")
                  /\ Route(r) = "/cgi-helper"
                  /\ Move(r, "close")
                  /\ UNCHANGED <<asked, replies, counter, registry, scan, ran, faulted>>

\* 401 with an empty body, or on to the handler; an /admin/ path that has
\* none falls through to the rules and the files.
Authorize(r) ==
    /\ Is(r, "authorize")
    /\ IF asked[r].trusted
       THEN /\ Move(r, IF Route(r) = "/admin/" THEN "lookup" ELSE "handle")
            /\ UNCHANGED replies
       ELSE /\ Send(r, Bare(401, Standard))
            /\ Move(r, "close")
    /\ UNCHANGED <<asked, counter, registry, scan, ran, faulted>>

\* The handlers that leave the registry alone answer with one document; an
\* upload whose buffer cannot be allocated gets no answer.
AnswerAdmin(r) == /\ Is(r, "handle")
                  /\ Route(r) \in AdminRoutes
                  /\ Send(r, Document(r))
                  /\ Move(r, "close")
                  /\ UNCHANGED <<asked, counter, registry, scan, ran, faulted>>

UploadFails(r) == /\ Is(r, "handle")
                  /\ Route(r) = "/admin/upload_file"
                  /\ Move(r, "close")
                  /\ UNCHANGED <<asked, replies, counter, registry, scan, ran, faulted>>
-----------------------------------------------------------------------------
(* The registry: add_rule(), update_rule() and cgi_dispatch(). *)

\* The vector doubles its storage when it is full: 1, 2, 4, ... objects.
AtCapacity(n) == n = 0 \/ \E k \in 0 .. n : n = 2 ^ k
Tagged(p, t) == types' = [q \in DOMAIN types \cup {p} |-> IF q = p THEN t ELSE types[q]]

\* `new StaticRoute()` or `new CgiRoute()`, and push_back().
PushRule(r) == /\ Is(r, "handle")
               /\ Route(r) = "/admin/add_rule"
               /\ asked[r].type \in Types
               /\ rules' = Append(rules, [path |-> Path(r), class |-> asked[r].type])
               /\ storage' = IF AtCapacity(Len(rules)) THEN storage + 1 ELSE storage
               /\ Move(r, "tag")
               /\ UNCHANGED <<asked, replies, counter, types, scan, ran, faulted>>

\* Faulty variant: a path that has a tag keeps it.
TagOnce(r) == /\ Is(r, "tag")
              /\ IF Path(r) \in DOMAIN types THEN UNCHANGED types
                                            ELSE Tagged(Path(r), asked[r].type)
              /\ Send(r, Document(r))
              /\ Move(r, "close")
              /\ UNCHANGED <<asked, counter, rules, storage, scan, ran, faulted>>

\* `route_types()[path] = ...` of add_rule(), and its answer.
TagRule(r) == /\ Is(r, "tag")
              /\ Tagged(Path(r), asked[r].type)
              /\ Send(r, Document(r))
              /\ Move(r, "close")
              /\ UNCHANGED <<asked, counter, rules, storage, scan, ran, faulted>>

\* update_rule() rewrites the tag of a path that has one, and the object
\* stays as it is.
UpdateRule(r) == /\ Is(r, "handle")
                 /\ Route(r) = "/admin/update_rule"
                 /\ asked[r].type \in Types
                 /\ Path(r) \in DOMAIN types
                 /\ Tagged(Path(r), asked[r].type)
                 /\ Send(r, Document(r))
                 /\ Move(r, "close")
                 /\ UNCHANGED <<asked, counter, rules, storage, scan, ran, faulted>>

\* An unknown type, or no rule to update.
RefuseRule(r) == /\ Is(r, "handle")
                 /\ \/ Route(r) \in RuleRoutes /\ asked[r].type \notin Types
                    \/ Route(r) = "/admin/update_rule" /\ Path(r) \notin DOMAIN types
                 /\ Send(r, Document(r))
                 /\ Move(r, "close")
                 /\ UNCHANGED <<asked, counter, registry, scan, ran, faulted>>

\* Requests that may leave path p with the tag t.
Tagging(p, t) == {r \in Requests : /\ Route(r) \in RuleRoutes
                                   /\ Path(r) = p /\ asked[r].type = t
                                   /\ asked[r].trusted
                                   /\ asked[r].method \in {"GET", "HEAD"}}
Acknowledged(p) == \E r \in Tagging(p, "cgi") :
                       Route(r) = "/admin/add_rule" /\ at[r] = "closed"

\* cgi_dispatch(): other paths go to the files at once; a range-based for
\* takes begin() and end() before its first round.
StartScan(r) ==
    /\ Is(r, "lookup")
    /\ IF Route(r) = "/cgi-bin/"
       THEN /\ Move(r, "scan")
            /\ scan' = [scan EXCEPT ![r] = [next |-> 1, end |-> Len(rules),
                                            storage |-> storage,
                                            expects |-> Acknowledged(Path(r))]]
       ELSE /\ Move(r, "file")
            /\ UNCHANGED scan
    /\ UNCHANGED <<asked, replies, counter, registry, ran, faulted>>

\* The iterators may point into storage that push_back() has freed: what is
\* left there is still read, or the process faults.
ScanFaults(r) == /\ Is(r, "scan")
                 /\ scan[r].next <= scan[r].end
                 /\ scan[r].storage # storage
                 /\ faulted' = TRUE
                 /\ UNCHANGED <<asked, at, replies, counter, registry, scan, ran>>

Current(r) == rules[scan[r].next]
Matches(r) == /\ Is(r, "scan")
              /\ scan[r].next <= scan[r].end
              /\ Current(r).path = Path(r)
TagOf(p) == IF p \in DOMAIN types THEN types[p] ELSE "static"
Skip(r) == scan' = [scan EXCEPT ![r].next = @ + 1]

ScanOther(r) == /\ Is(r, "scan")
                /\ scan[r].next <= scan[r].end
                /\ Current(r).path # Path(r)
                /\ Skip(r)
                /\ UNCHANGED <<asked, at, replies, counter, registry, ran, faulted>>

\* operator[] inserts the first enumerator, STATIC, for a path whose rule is
\* pushed but not yet tagged.
ScanStatic(r) == /\ Matches(r)
                 /\ TagOf(Path(r)) # "cgi"
                 /\ Tagged(Path(r), TagOf(Path(r)))
                 /\ Skip(r)
                 /\ UNCHANGED <<asked, at, replies, counter, rules, storage, ran, faulted>>

\* CgiRoute::execute() answers HEAD with a body as well; 500 without popen().
RuleReplies == {Full(200, FALSE), Full(500, FALSE)}

\* Faulty variant: the tag is not examined.
RunAny(r) == /\ Matches(r)
             /\ ran' = [ran EXCEPT ![r] = scan[r].next]
             /\ \E reply \in RuleReplies : Send(r, reply)
             /\ Move(r, "close")
             /\ UNCHANGED <<asked, counter, registry, scan, faulted>>

\* static_cast<CgiRoute*>(rule)->execute(client_socket)
RunRule(r) == /\ Matches(r)
              /\ TagOf(Path(r)) = "cgi"
              /\ ran' = [ran EXCEPT ![r] = scan[r].next]
              /\ \E reply \in RuleReplies : Send(r, reply)
              /\ Move(r, "close")
              /\ UNCHANGED <<asked, counter, registry, scan, faulted>>

ScanEnds(r) == /\ Is(r, "scan")
               /\ scan[r].next > scan[r].end
               /\ Move(r, "file")
               /\ UNCHANGED <<asked, replies, counter, registry, scan, ran, faulted>>
-----------------------------------------------------------------------------
\* serve_static(): the document, the redirect, the listing or an error, all
\* with the standard fields; or 304, which has no length.
FileReplies(r) == {Full(code, HeadOnly(r)) : code \in {200, 301, 403, 404}}
                      \cup {Bare(304, Standard \ {"Content-Length"})}

AnswerFile(r) == /\ Is(r, "file")
                 /\ \E reply \in FileReplies(r) : Send(r, reply)
                 /\ Move(r, "close")
                 /\ UNCHANGED <<asked, counter, registry, scan, ran, faulted>>

\* Every path through dispatch() ends with close(client_socket).
Close(r) == /\ Is(r, "close")
            /\ Move(r, "closed")
            /\ UNCHANGED <<asked, replies, counter, registry, scan, ran, faulted>>

Dispatch(r) == \/ Receive(r) \/ Reject(r) \/ Accept(r) \/ AnswerOpen(r) \/ HelperFails(r)
               \/ Authorize(r) \/ AnswerAdmin(r) \/ UploadFails(r)
               \/ PushRule(r) \/ TagRule(r) \/ UpdateRule(r) \/ RefuseRule(r)
               \/ StartScan(r) \/ ScanFaults(r) \/ ScanOther(r) \/ ScanStatic(r)
               \/ RunRule(r) \/ ScanEnds(r) \/ AnswerFile(r) \/ Close(r)

Stopped == faulted \/ \A r \in Requests : at[r] = "closed"

Next == (\E r \in Requests : Dispatch(r)) \/ (Stopped /\ UNCHANGED vars)

Spec == Init /\ [][Next]_vars
-----------------------------------------------------------------------------
\* Each handler finalizes the response of its route (handlers/admin.h:10),
\* and dispatch() returns after it: a connection that is closed has had one
\* answer, unless the server ran out of memory, processes or temporary files.
MayStaySilent(r) == Route(r) \in {"/cgi-helper", "/admin/upload_file"}
AnsweredOnce ==
    \A r \in Requests : at[r] = "closed" =>
        Len(replies[r]) = 1 \/ (replies[r] = <<>> /\ MayStaySilent(r))

\* HEAD "suppresses the body" (http/response.h:30-31), for whatever route; a
\* rule that runs, and the 500 of the log viewer, do not.
HeadHasNoBody ==
    \A r \in Requests : HeadOnly(r) /\ ran[r] = 0 =>
        \A k \in DOMAIN replies[r] :
            replies[r][k].body => Route(r) = "/logs" /\ replies[r][k].code = 500

\* Once an admin has been told that a CGI rule was added, requests for its
\* path run the first rule of that path and never fall through to the files,
\* while other rules are being added; unless an admin tags the path static.
AddedRuleIsServed ==
    \A r \in Requests :
        scan[r].expects /\ at[r] = "closed" /\ Tagging(Path(r), "static") = {} =>
            /\ ran[r] # 0
            /\ \A i \in 1 .. ran[r] : rules[i].path = Path(r) => i = ran[r]

\* "Duplicates the information already encoded in each object's C++ class"
\* (cgi_rules.h:14-15): a rule is run only if it is a CgiRoute, as long as no
\* path is given both types, by a second rule or by /admin/update_rule.
OnlyCgiRulesRun ==
    \A r \in Requests : ran[r] # 0 =>
        \/ rules[ran[r]].class = "cgi"
        \/ Tagging(Path(r), "cgi") # {} /\ Tagging(Path(r), "static") # {}
=============================================================================
