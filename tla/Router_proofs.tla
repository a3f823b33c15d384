----------------------------- MODULE Router_proofs -----------------------------
(***************************************************************************)
(* The safety of Router for any number of requests, workers and paths: how *)
(* often and with what a request is answered, and which rule a lookup      *)
(* executes while admins add and change rules.                             *)
(***************************************************************************)
EXTENDS Router, Integers, TLAPS, FiniteSetTheorems

Places == {"arriving", "parse", "open", "authorize", "handle", "tag", "lookup", "scan",
           "file", "close", "closed"}
Replies == [code : Nat, fields : SUBSET Standard, body : BOOLEAN]
Rules == [path : Paths, class : Types]
Scans == [next : Nat, end : Nat, storage : Nat, expects : BOOLEAN]

TypeOK == /\ asked \in [Requests -> AllAsks]
          /\ at \in [Requests -> Places]
          /\ replies \in [Requests -> Seq(Replies)]
          /\ counter \in Nat /\ storage \in Nat
          /\ rules \in Seq(Rules)
          /\ DOMAIN types \subseteq Paths /\ types \in [DOMAIN types -> Types]
          /\ scan \in [Requests -> Scans]
          /\ ran \in [Requests -> Nat]
          /\ faulted \in BOOLEAN

\* What a request has passed to be where it is.
Fits(r, place) ==
    /\ place \notin {"arriving", "parse", "close", "closed"} => asked[r].method \in {"GET", "HEAD"}
    /\ place = "open" => Route(r) \in OpenRoutes
    /\ place = "authorize" => IsAdmin(Route(r))
    /\ place \in {"handle", "tag"} => asked[r].trusted /\ Route(r) \in AdminRoutes \cup RuleRoutes
    /\ place = "tag" => Route(r) = "/admin/add_rule" /\ asked[r].type \in Types
    /\ place \in {"lookup", "scan", "file"} => Route(r) \in PageRoutes
InPlace == \A r \in Requests : Fits(r, at[r])

\* Nothing is sent before the request is done with.
Answered ==
    \A r \in Requests :
        IF at[r] \in {"close", "closed"}
        THEN Len(replies[r]) = 1 \/ (replies[r] = <<>> /\ MayStaySilent(r))
        ELSE replies[r] = <<>>

\* A lookup stays within the rules there were, and so does what it ran.
InBounds ==
    \A r \in Requests : /\ scan[r].end <= Len(rules)
                        /\ 1 <= scan[r].next /\ scan[r].next <= scan[r].end + 1
                        /\ ran[r] <= Len(rules)

\* Who is responsible for a tag, and for an object.
TagsAsked == \A p \in DOMAIN types : types[p] = "cgi" => Tagging(p, "cgi") # {}
RulesAsked == \A i \in 1 .. Len(rules) :
                  rules[i].class = "static" => Tagging(rules[i].path, "static") # {}

\* A path is settled when its rule is both pushed and tagged.  It stays so
\* if nobody asks for it to be static, although a lookup that comes between
\* the two inserts that tag.
Pushed(p) == \E i \in 1 .. Len(rules) : rules[i].path = p
Settled(p) == p \in DOMAIN types /\ types[p] = "cgi" /\ Pushed(p)
Undisputed(p) == Tagging(p, "static") = {}

PushedFirst == \A r \in Requests : at[r] = "tag" => Pushed(Path(r))
Adds(r, p) == r \in Tagging(p, "cgi") /\ Route(r) = "/admin/add_rule"
SettledBeforeTold ==
    \A r \in Requests, p \in Paths :
        Adds(r, p) /\ at[r] \in {"close", "closed"} /\ Undisputed(p) => Settled(p)

\* A lookup that expects a rule has it ahead, and none of its path behind.
Ahead(r) == /\ \E i \in scan[r].next .. scan[r].end : rules[i].path = Path(r)
            /\ \A i \in 1 .. scan[r].next - 1 : rules[i].path # Path(r)
RanFirst(r) == ran[r] # 0 /\ \A i \in 1 .. ran[r] : rules[i].path = Path(r) => i = ran[r]
ExpectsRule ==
    \A r \in Requests :
        scan[r].expects /\ Undisputed(Path(r)) =>
            /\ at[r] \in {"scan", "close", "closed"} /\ Settled(Path(r))
            /\ IF at[r] = "scan" THEN Ahead(r) ELSE RanFirst(r)

\* The inductive invariant.
IInv == /\ TypeOK /\ InPlace /\ Answered /\ HeadHasNoBody /\ InBounds
        /\ TagsAsked /\ RulesAsked /\ PushedFirst /\ SettledBeforeTold /\ ExpectsRule
        /\ OnlyCgiRulesRun
-----------------------------------------------------------------------------
(* What the pieces of an action do. *)

Done == {"close", "closed"}

LEMMA AskParts ==
    ASSUME TypeOK, NEW r \in Requests
    PROVE  /\ asked[r].method \in Methods /\ Route(r) \in Routes /\ Path(r) \in Paths
           /\ asked[r].type \in Types \cup {"other"} /\ asked[r].trusted \in BOOLEAN
<1>1. asked[r] \in AllAsks
  BY DEF TypeOK
<1>2. QED
  BY <1>1 DEF AllAsks, Route, Path

\* What is asked is never rewritten, and with it everything about it.
LEMMA AskedStays ==
    ASSUME asked' = asked
    PROVE  /\ \A r \in Requests : /\ Route(r)' = Route(r) /\ Path(r)' = Path(r)
                                  /\ HeadOnly(r)' = HeadOnly(r)
                                  /\ MayStaySilent(r)' = MayStaySilent(r)
           /\ \A p, t : Tagging(p, t)' = Tagging(p, t)
           /\ \A p : Undisputed(p)' = Undisputed(p)
           /\ \A r \in Requests : \A p : Adds(r, p)' = Adds(r, p)
<1>1. \A r \in Requests : /\ Route(r)' = Route(r) /\ Path(r)' = Path(r)
                          /\ HeadOnly(r)' = HeadOnly(r)
                          /\ MayStaySilent(r)' = MayStaySilent(r)
  BY DEF Route, Path, HeadOnly, MayStaySilent
<1>2. \A p, t : Tagging(p, t)' = Tagging(p, t)
  BY DEF Tagging, Route, Path
<1>3. QED
  BY <1>1, <1>2 DEF Undisputed, Adds

LEMMA MoveFacts ==
    ASSUME TypeOK, NEW r \in Requests, NEW q \in Places, Move(r, q)
    PROVE  /\ at' \in [Requests -> Places] /\ at'[r] = q
           /\ \A u \in Requests : u # r => at'[u] = at[u]
BY DEF TypeOK, Move

LEMMA SendFacts ==
    ASSUME TypeOK, NEW r \in Requests, NEW m \in Replies, Send(r, m)
    PROVE  /\ replies' \in [Requests -> Seq(Replies)]
           /\ replies'[r] = Append(replies[r], m)
           /\ \A u \in Requests : u # r => replies'[u] = replies[u]
<1>1. replies[r] \in Seq(Replies)
  BY DEF TypeOK
<1>2. Append(replies[r], m) \in Seq(Replies)
  BY <1>1
<1>3. QED
  BY <1>2 DEF TypeOK, Send

LEMMA FirstReply ==
    ASSUME NEW m \in Replies
    PROVE  /\ Len(Append(<<>>, m)) = 1 /\ DOMAIN Append(<<>>, m) = 1 .. 1
           /\ Append(<<>>, m)[1] = m
OBVIOUS

LEMMA FullFacts ==
    ASSUME NEW c \in Nat, NEW h \in BOOLEAN
    PROVE  Full(c, h) \in Replies /\ (h => ~Full(c, h).body) /\ Full(c, h).code = c
BY DEF Full, Replies

\* What a handler sends that obeys HEAD.
LEMMA HeadFacts ==
    ASSUME NEW c \in Nat, NEW r \in Requests
    PROVE  /\ Full(c, HeadOnly(r)) \in Replies
           /\ HeadOnly(r) => ~Full(c, HeadOnly(r)).body
<1>1. HeadOnly(r) \in BOOLEAN
  BY DEF HeadOnly
<1>2. PICK h \in BOOLEAN : h = HeadOnly(r)
  BY <1>1
<1>3. Full(c, h) \in Replies /\ (h => ~Full(c, h).body)
  BY FullFacts
<1>4. QED
  BY <1>2, <1>3, Zenon

LEMMA BareFacts ==
    ASSUME NEW c \in Nat, NEW f \in SUBSET Standard
    PROVE  Bare(c, f) \in Replies /\ ~Bare(c, f).body
BY DEF Bare, Replies

LEMMA TaggedFacts ==
    ASSUME TypeOK, NEW p \in Paths, NEW t \in Types, Tagged(p, t)
    PROVE  /\ DOMAIN types' = DOMAIN types \cup {p}
           /\ DOMAIN types' \subseteq Paths /\ types' \in [DOMAIN types' -> Types]
           /\ types'[p] = t
           /\ \A q \in DOMAIN types : q # p => types'[q] = types[q]
<1>1. types' = [q \in DOMAIN types \cup {p} |-> IF q = p THEN t ELSE types[q]]
  BY DEF Tagged
<1>2. DOMAIN types' = DOMAIN types \cup {p} /\ DOMAIN types \subseteq Paths
  BY <1>1 DEF TypeOK
<1>3. /\ types'[p] = t
      /\ \A q \in DOMAIN types : q # p => types'[q] = types[q]
  BY <1>1
<1>4. \A q \in DOMAIN types \cup {p} : types'[q] \in Types
  BY <1>3 DEF TypeOK
<1>5. types' \in [DOMAIN types' -> Types]
  BY <1>1, <1>2, <1>4
<1>6. QED
  BY <1>2, <1>3, <1>5

LEMMA PushFacts ==
    ASSUME TypeOK, NEW e \in Rules, rules' = Append(rules, e)
    PROVE  /\ rules' \in Seq(Rules) /\ Len(rules') = Len(rules) + 1
           /\ rules'[Len(rules) + 1] = e
           /\ \A i \in 1 .. Len(rules) : rules'[i] = rules[i]
BY DEF TypeOK

LEMMA RuleParts ==
    ASSUME TypeOK, NEW i \in 1 .. Len(rules)
    PROVE  rules[i].path \in Paths /\ rules[i].class \in Types
<1>1. rules[i] \in Rules
  BY DEF TypeOK
<1>2. QED
  BY <1>1 DEF Rules

LEMMA ScanParts ==
    ASSUME TypeOK, NEW r \in Requests
    PROVE  scan[r].next \in Nat /\ scan[r].end \in Nat /\ scan[r].expects \in BOOLEAN
<1>1. scan[r] \in Scans
  BY DEF TypeOK
<1>2. QED
  BY <1>1 DEF Scans

LEMMA SkipFacts ==
    ASSUME TypeOK, NEW r \in Requests, Skip(r)
    PROVE  /\ scan' \in [Requests -> Scans] /\ scan'[r].next = scan[r].next + 1
           /\ scan'[r].end = scan[r].end /\ scan'[r].expects = scan[r].expects
           /\ \A u \in Requests : u # r => scan'[u] = scan[u]
<1>1. scan[r] \in Scans /\ scan \in [Requests -> Scans]
  BY DEF TypeOK
<1>2. PICK x : x = [scan[r] EXCEPT !.next = @ + 1]
  OBVIOUS
<1>3. /\ x \in Scans /\ x.next = scan[r].next + 1
      /\ x.end = scan[r].end /\ x.expects = scan[r].expects
  BY <1>1, <1>2 DEF Scans
<1>4. scan' = [scan EXCEPT ![r] = x]
  BY <1>1, <1>2 DEF Skip
<1>5. QED
  BY <1>1, <1>3, <1>4

LEMMA InitIInv == Init => IInv
<1> SUFFICES ASSUME Init PROVE IInv
  OBVIOUS
<1>1. TypeOK
  <2>1. asked \in [Requests -> AllAsks]
    BY AsksAssumption DEF Init
  <2>2. at \in [Requests -> Places]
    BY DEF Init, Places
  <2>3. replies \in [Requests -> Seq(Replies)] /\ rules \in Seq(Rules)
    BY DEF Init
  <2>4. NoScan \in Scans
    BY DEF NoScan, Scans
  <2>5. scan \in [Requests -> Scans] /\ ran \in [Requests -> Nat]
    BY <2>4 DEF Init
  <2>6. DOMAIN types = {} /\ types \in [DOMAIN types -> Types]
    BY DEF Init
  <2>7. counter \in Nat /\ storage \in Nat /\ faulted \in BOOLEAN
    BY DEF Init
  <2>8. QED
    BY <2>1, <2>2, <2>3, <2>5, <2>6, <2>7 DEF TypeOK
<1>2. Len(rules) = 0 /\ DOMAIN types = {}
  BY DEF Init
<1>3. \A r \in Requests : /\ at[r] = "arriving" /\ replies[r] = <<>> /\ ran[r] = 0
                          /\ scan[r].next = 1 /\ scan[r].end = 0 /\ ~scan[r].expects
  BY DEF Init, NoScan
<1>4. InPlace /\ Answered /\ PushedFirst /\ SettledBeforeTold
  BY <1>3 DEF InPlace, Fits, Answered, PushedFirst, SettledBeforeTold
<1>5. InBounds /\ TagsAsked /\ RulesAsked
  BY <1>2, <1>3 DEF InBounds, TagsAsked, RulesAsked
<1>6. ExpectsRule /\ OnlyCgiRulesRun
  BY <1>3 DEF ExpectsRule, OnlyCgiRulesRun
<1>7. HeadHasNoBody
  <2>1. \A r \in Requests : DOMAIN replies[r] = {}
    BY <1>3
  <2>2. QED
    BY <2>1 DEF HeadHasNoBody
<1>8. QED
  BY <1>1, <1>4, <1>5, <1>6, <1>7 DEF IInv
-----------------------------------------------------------------------------
(* Every step moves one request and either answers it or sends nothing. *)

Unanswered(r) == /\ UNCHANGED <<replies, ran>>
                 /\ at[r] \in Done => at'[r] \in Done
                 /\ at'[r] \in Done => at[r] \in Done \/ MayStaySilent(r)

\* The one answer with a body that HEAD may get.
LogFails(r, m) == Route(r) = "/logs" /\ m.code = 500
Answers(r) ==
    /\ at[r] \notin Done /\ at'[r] \in Done
    /\ \E m \in Replies : /\ Send(r, m)
                          /\ (HeadOnly(r) /\ ran'[r] = 0 /\ m.body) => LogFails(r, m)
    /\ \A u \in Requests : u # r => ran'[u] = ran[u]

Steps(r) == /\ asked' = asked /\ TypeOK' /\ InPlace'
            /\ \A u \in Requests : u # r => at'[u] = at[u]
            /\ Unanswered(r) \/ Answers(r)

LEMMA PlaceKept ==
    ASSUME TypeOK, InPlace, NEW r \in Requests, NEW q \in Places, Move(r, q), Fits(r, q),
           asked' = asked
    PROVE  InPlace'
<1>1. \A u \in Requests : Fits(u, at'[u])
  BY MoveFacts DEF InPlace
<1>2. \A u \in Requests : \A x : Fits(u, x) => Fits(u, x)'
  BY DEF Fits, Route
<1>3. \A u \in Requests : Fits(u, at[u])'
  BY <1>1 DEF Fits, Route
<1>4. QED
  BY <1>3 DEF InPlace

LEMMA SilentMove ==
    ASSUME TypeOK, InPlace, NEW r \in Requests, NEW q \in Places, Move(r, q), Fits(r, q),
           UNCHANGED <<asked, replies, registry, scan, ran, faulted>>,
           counter' \in {counter, counter + 1},
           at[r] \in Done => q \in Done, q \in Done => at[r] \in Done \/ MayStaySilent(r)
    PROVE  Steps(r)
<1>1. InPlace'
  BY PlaceKept
<1>2. /\ at' \in [Requests -> Places] /\ at'[r] = q
      /\ \A u \in Requests : u # r => at'[u] = at[u]
  BY MoveFacts
<1>3. TypeOK'
  BY <1>2 DEF TypeOK, registry
<1>4. QED
  BY <1>1, <1>2, <1>3 DEF Steps, Unanswered

LEMMA AnswerMove ==
    ASSUME TypeOK, InPlace, NEW r \in Requests, Move(r, "close"), at[r] \notin Done,
           NEW m \in Replies, Send(r, m), (HeadOnly(r) /\ m.body) => LogFails(r, m),
           UNCHANGED <<asked, counter, registry, scan, ran, faulted>>
    PROVE  Steps(r)
<1>1. "close" \in Places /\ Fits(r, "close")
  BY DEF Places, Fits
<1>2. InPlace'
  BY <1>1, PlaceKept
<1>3. /\ at' \in [Requests -> Places] /\ at'[r] = "close"
      /\ \A u \in Requests : u # r => at'[u] = at[u]
  BY <1>1, MoveFacts
<1>4. replies' \in [Requests -> Seq(Replies)]
  BY SendFacts
<1>5. TypeOK'
  BY <1>3, <1>4 DEF TypeOK, registry
<1>6. Answers(r)
  BY <1>3 DEF Answers, Done
<1>7. QED
  BY <1>2, <1>3, <1>5, <1>6 DEF Steps

\* The steps that leave the registry, the lookups and what ran alone.
Silent(r) == \/ Receive(r) \/ Accept(r) \/ HelperFails(r) \/ UploadFails(r)
             \/ ScanEnds(r) \/ Close(r)
Plain(r) == \/ Reject(r) \/ AnswerOpen(r) \/ AnswerAdmin(r) \/ RefuseRule(r) \/ AnswerFile(r)

LEMMA SilentSteps ==
    ASSUME TypeOK, InPlace, NEW r \in Requests, Silent(r)
    PROVE  Steps(r)
<1> USE DEF Is
<1>1. Fits(r, at[r]) /\ Route(r) \in Routes
  BY AskParts DEF InPlace
<1>2. CASE Receive(r)
  <2>1. "parse" \in Places /\ Fits(r, "parse") /\ Move(r, "parse") /\ at[r] = "arriving"
    BY <1>2 DEF Receive, Places, Fits
  <2>2. QED
    BY <1>2, <2>1, SilentMove DEF Receive, Done
<1>3. CASE Accept(r)
  <2>1. PICK q : /\ q = IF Route(r) \in OpenRoutes THEN "open"
                        ELSE IF IsAdmin(Route(r)) THEN "authorize" ELSE "lookup"
                 /\ Move(r, q)
    BY <1>3 DEF Accept
  <2>2. q \in Places /\ q \notin Done /\ Fits(r, q)
    BY <1>1, <1>3, <2>1 DEF Accept, Places, Done, Fits, Routes, IsAdmin
  <2>3. at[r] = "parse" /\ counter' = counter + 1
    BY <1>3 DEF Accept
  <2>4. QED
    BY <1>3, <2>1, <2>2, <2>3, SilentMove DEF Accept, Done
<1>4. CASE HelperFails(r) \/ UploadFails(r)
  <2>1. "close" \in Places /\ Fits(r, "close") /\ Move(r, "close") /\ MayStaySilent(r)
    BY <1>4 DEF HelperFails, UploadFails, Places, Fits, MayStaySilent
  <2>2. UNCHANGED <<asked, replies, counter, registry, scan, ran, faulted>>
    BY <1>4 DEF HelperFails, UploadFails
  <2>3. QED
    BY <2>1, <2>2, SilentMove DEF Done
<1>5. CASE ScanEnds(r)
  <2>1. "file" \in Places /\ Fits(r, "file") /\ Move(r, "file") /\ at[r] = "scan"
    BY <1>1, <1>5 DEF ScanEnds, Places, Fits
  <2>2. QED
    BY <1>5, <2>1, SilentMove DEF ScanEnds, Done
<1>6. CASE Close(r)
  <2>1. "closed" \in Places /\ Fits(r, "closed") /\ Move(r, "closed") /\ at[r] = "close"
    BY <1>6 DEF Close, Places, Fits
  <2>2. QED
    BY <1>6, <2>1, SilentMove DEF Close, Done
<1>7. QED
  BY <1>2, <1>3, <1>4, <1>5, <1>6 DEF Silent

LEMMA PlainSteps ==
    ASSUME TypeOK, InPlace, NEW r \in Requests, Plain(r)
    PROVE  Steps(r)
<1>1. \A c \in {200, 301, 400, 403, 404, 405, 500} :
          Full(c, HeadOnly(r)) \in Replies /\ (HeadOnly(r) => ~Full(c, HeadOnly(r)).body)
  BY HeadFacts
<1>2. Document(r) \in Replies /\ (HeadOnly(r) => ~Document(r).body)
  <2>1. Document(r) = Full(200, HeadOnly(r))
    BY DEF Document
  <2>2. QED
    BY <1>1, <2>1
<1>3. CASE Reject(r)
  <2>1. ~HeadOnly(r)
    BY <1>3 DEF Reject, HeadOnly
  <2>2. PICK c \in {400, 405} : c = IF asked[r].method = "unsupported" THEN 405 ELSE 400
    OBVIOUS
  <2>3. Full(c, FALSE) \in Replies
    <3>1. c \in Nat /\ FALSE \in BOOLEAN
      OBVIOUS
    <3>2. QED
      BY <3>1, FullFacts, Zenon
  <2>4. Send(r, Full(c, FALSE))
    BY <1>3, <2>2, Zenon DEF Reject
  <2>5. /\ at[r] \notin Done /\ Move(r, "close")
        /\ UNCHANGED <<asked, counter, registry, scan, ran, faulted>>
    BY <1>3 DEF Reject, Is, Done
  <2>6. QED
    BY <2>1, <2>3, <2>4, <2>5, AnswerMove
<1>4. CASE AnswerOpen(r)
  <2>1. PICK m \in OpenReplies(r) : Send(r, m)
    BY <1>4 DEF AnswerOpen
  <2>2. m \in Replies /\ ((HeadOnly(r) /\ m.body) => LogFails(r, m))
    <3>1. CASE Route(r) = "/logs"
      <4>1. m = Document(r) \/ m = Full(400, HeadOnly(r)) \/ m = Full(500, FALSE)
        BY <2>1, <3>1 DEF OpenReplies, LogReplies
      <4>2. QED
        <5>1. CASE m = Document(r)
          BY <1>2, <5>1
        <5>2. CASE m = Full(400, HeadOnly(r))
          BY <1>1, <5>2
        <5>3. CASE m = Full(500, FALSE)
          <6>1. PICK c \in Nat : c = 500
            OBVIOUS
          <6>2. FALSE \in BOOLEAN
            OBVIOUS
          <6>3. Full(c, FALSE) \in Replies /\ Full(c, FALSE).code = c
            BY <6>2, FullFacts, Zenon
          <6>4. QED
            BY <3>1, <5>3, <6>1, <6>3, Zenon DEF LogFails
        <5>4. QED
          BY <4>1, <5>1, <5>2, <5>3
    <3>2. CASE Route(r) = "/cgi-helper"
      <4>1. \/ m = Full(500, HeadOnly(r))
            \/ m = [Document(r) EXCEPT !.fields = @ \ {"Content-Length"}]
        BY <2>1, <3>2 DEF OpenReplies, HelperReplies
      <4>2. CASE m = Full(500, HeadOnly(r))
        BY <1>1, <4>2
      <4>3. CASE m = [Document(r) EXCEPT !.fields = @ \ {"Content-Length"}]
        <5>1. m \in Replies /\ m.body = Document(r).body
          BY <1>2, <4>3 DEF Replies
        <5>2. QED
          BY <1>2, <5>1
      <4>4. QED
        BY <4>1, <4>2, <4>3
    <3>3. CASE Route(r) \notin {"/logs", "/cgi-helper"}
      BY <1>2, <2>1, <3>3 DEF OpenReplies
    <3>4. QED
      BY <3>1, <3>2, <3>3
  <2>3. /\ at[r] \notin Done /\ Move(r, "close")
        /\ UNCHANGED <<asked, counter, registry, scan, ran, faulted>>
    BY <1>4 DEF AnswerOpen, Is, Done
  <2>4. QED
    BY <2>1, <2>2, <2>3, AnswerMove
<1>5. CASE AnswerAdmin(r) \/ RefuseRule(r)
  <2>1. /\ at[r] \notin Done /\ Move(r, "close") /\ Send(r, Document(r))
        /\ UNCHANGED <<asked, counter, registry, scan, ran, faulted>>
    BY <1>5 DEF AnswerAdmin, RefuseRule, Is, Done
  <2>2. QED
    BY <1>2, <2>1, AnswerMove
<1>6. CASE AnswerFile(r)
  <2>1. PICK m \in FileReplies(r) : Send(r, m)
    BY <1>6 DEF AnswerFile
  <2>2. m \in Replies /\ (HeadOnly(r) => ~m.body)
    <3>1. CASE \E c \in {200, 301, 403, 404} : m = Full(c, HeadOnly(r))
      BY <1>1, <3>1
    <3>2. CASE m = Bare(304, Standard \ {"Content-Length"})
      <4>1. 304 \in Nat /\ Standard \ {"Content-Length"} \in SUBSET Standard
        OBVIOUS
      <4>2. m \in Replies /\ ~m.body
        BY <3>2, <4>1, BareFacts, Zenon
      <4>3. QED
        BY <4>2
    <3>3. QED
      BY <2>1, <3>1, <3>2 DEF FileReplies
  <2>3. /\ at[r] \notin Done /\ Move(r, "close")
        /\ UNCHANGED <<asked, counter, registry, scan, ran, faulted>>
    BY <1>6 DEF AnswerFile, Is, Done
  <2>4. QED
    BY <2>1, <2>2, <2>3, AnswerMove
<1>7. QED
  BY <1>3, <1>4, <1>5, <1>6 DEF Plain

\* Authorize() answers, or moves on.
LEMMA AuthorizeSteps ==
    ASSUME TypeOK, InPlace, NEW r \in Requests, Authorize(r)
    PROVE  Steps(r)
<1>1. Fits(r, "authorize") /\ at[r] = "authorize"
  BY DEF InPlace, Authorize, Is
<1>2. UNCHANGED <<asked, counter, registry, scan, ran, faulted>>
  BY DEF Authorize
<1>3. CASE asked[r].trusted
  <2>1. PICK q : q = (IF Route(r) = "/admin/" THEN "lookup" ELSE "handle") /\ Move(r, q)
    BY <1>3 DEF Authorize
  <2>2. q \in Places /\ q \notin Done /\ Fits(r, q)
    BY <1>1, <1>3, <2>1 DEF Places, Done, Fits, IsAdmin, PageRoutes
  <2>3. replies' = replies
    BY <1>3 DEF Authorize
  <2>4. QED
    BY <1>1, <1>2, <2>1, <2>2, <2>3, SilentMove DEF Done
<1>4. CASE ~asked[r].trusted
  <2>1. Send(r, Bare(401, Standard)) /\ Move(r, "close")
    BY <1>4 DEF Authorize
  <2>2. Bare(401, Standard) \in Replies /\ ~Bare(401, Standard).body
    <3>1. 401 \in Nat /\ Standard \in SUBSET Standard
      OBVIOUS
    <3>2. QED
      BY <3>1, BareFacts, Zenon
  <2>3. QED
    BY <1>1, <1>2, <2>1, <2>2, AnswerMove DEF Done
<1>5. QED
  BY <1>3, <1>4

LEMMA PushSteps ==
    ASSUME TypeOK, InPlace, NEW r \in Requests, PushRule(r)
    PROVE  /\ Steps(r) /\ at[r] = "handle" /\ at'[r] = "tag"
           /\ UNCHANGED <<types, scan, ran>>
           /\ Len(rules') = Len(rules) + 1
           /\ rules'[Len(rules) + 1] = [path |-> Path(r), class |-> asked[r].type]
           /\ \A i \in 1 .. Len(rules) : rules'[i] = rules[i]
<1>1. /\ at[r] = "handle" /\ Route(r) = "/admin/add_rule" /\ asked[r].type \in Types
      /\ Move(r, "tag") /\ Fits(r, "handle")
      /\ rules' = Append(rules, [path |-> Path(r), class |-> asked[r].type])
      /\ storage' \in {storage, storage + 1}
      /\ UNCHANGED <<asked, replies, counter, types, scan, ran, faulted>>
  BY DEF PushRule, Is, InPlace
<1>2. "tag" \in Places /\ Fits(r, "tag")
  BY <1>1 DEF Places, Fits
<1>3. InPlace'
  BY <1>1, <1>2, PlaceKept
<1>4. /\ at' \in [Requests -> Places] /\ at'[r] = "tag"
      /\ \A u \in Requests : u # r => at'[u] = at[u]
  BY <1>1, <1>2, MoveFacts
<1>5. [path |-> Path(r), class |-> asked[r].type] \in Rules
  BY <1>1, AskParts DEF Rules
<1>6. /\ rules' \in Seq(Rules) /\ Len(rules') = Len(rules) + 1
      /\ rules'[Len(rules) + 1] = [path |-> Path(r), class |-> asked[r].type]
      /\ \A i \in 1 .. Len(rules) : rules'[i] = rules[i]
  BY <1>1, <1>5, PushFacts
<1>7. TypeOK'
  BY <1>1, <1>4, <1>6 DEF TypeOK
<1>8. Unanswered(r)
  BY <1>1, <1>4 DEF Unanswered, Done
<1>9. QED
  BY <1>1, <1>3, <1>4, <1>6, <1>7, <1>8 DEF Steps

\* A path gets a tag and an admin the answer.
LEMMA TagSteps ==
    ASSUME TypeOK, InPlace, NEW r \in Requests, TagRule(r) \/ UpdateRule(r)
    PROVE  /\ Steps(r) /\ at[r] \in {"handle", "tag"} /\ at'[r] = "close"
           /\ at[r] # "tag" => Route(r) = "/admin/update_rule"
           /\ Fits(r, at[r])
           /\ Route(r) \in RuleRoutes /\ asked[r].type \in Types /\ asked[r].trusted
           /\ asked[r].method \in {"GET", "HEAD"}
           /\ UNCHANGED <<rules, scan, ran>> /\ Tagged(Path(r), asked[r].type)
<1>1. /\ at[r] \in {"handle", "tag"} /\ Move(r, "close")
      /\ Route(r) \in RuleRoutes /\ asked[r].type \in Types /\ asked[r].trusted
      /\ asked[r].method \in {"GET", "HEAD"} /\ Fits(r, at[r])
      /\ at[r] # "tag" => Route(r) = "/admin/update_rule"
      /\ Tagged(Path(r), asked[r].type) /\ Send(r, Document(r))
      /\ UNCHANGED <<asked, counter, rules, storage, scan, ran, faulted>>
  BY DEF TagRule, UpdateRule, Is, InPlace, Fits, RuleRoutes
<1>2. "close" \in Places /\ Fits(r, "close")
  BY DEF Places, Fits
<1>3. InPlace'
  BY <1>1, <1>2, PlaceKept
<1>4. /\ at' \in [Requests -> Places] /\ at'[r] = "close"
      /\ \A u \in Requests : u # r => at'[u] = at[u]
  BY <1>1, <1>2, MoveFacts
<1>5. Document(r) \in Replies /\ (HeadOnly(r) => ~Document(r).body)
  BY HeadFacts DEF Document
<1>6. replies' \in [Requests -> Seq(Replies)]
  BY <1>1, <1>5, SendFacts
<1>7. DOMAIN types' \subseteq Paths /\ types' \in [DOMAIN types' -> Types]
  BY <1>1, AskParts, TaggedFacts
<1>8. TypeOK'
  BY <1>1, <1>4, <1>6, <1>7 DEF TypeOK
<1>9. Answers(r)
  BY <1>1, <1>4, <1>5 DEF Answers, Done
<1>10. QED
  BY <1>1, <1>3, <1>4, <1>8, <1>9 DEF Steps

LEMMA StartScanSteps ==
    ASSUME TypeOK, InPlace, NEW r \in Requests, StartScan(r)
    PROVE  /\ Steps(r) /\ at[r] = "lookup" /\ UNCHANGED <<rules, types, ran>>
           /\ \A u \in Requests : u # r => scan'[u] = scan[u]
           /\ \/ at'[r] = "file" /\ scan'[r] = scan[r]
              \/ /\ at'[r] = "scan"
                 /\ scan'[r].next = 1 /\ scan'[r].end = Len(rules)
                 /\ scan'[r].expects => Acknowledged(Path(r))
<1>1. /\ at[r] = "lookup" /\ Fits(r, "lookup")
      /\ UNCHANGED <<asked, replies, counter, registry, ran, faulted>>
  BY DEF StartScan, Is, InPlace
<1>2. UNCHANGED <<rules, types, storage>>
  BY <1>1 DEF registry
<1>3. PICK q \in {"scan", "file"} : Move(r, q)
  BY DEF StartScan
<1>4. q \in Places /\ Fits(r, q) /\ q \notin Done
  BY <1>1 DEF Places, Fits, Done
<1>5. InPlace'
  BY <1>1, <1>3, <1>4, PlaceKept
<1>6. /\ at' \in [Requests -> Places] /\ at'[r] = q
      /\ \A u \in Requests : u # r => at'[u] = at[u]
  BY <1>3, <1>4, MoveFacts
<1>7. /\ scan' \in [Requests -> Scans]
      /\ \A u \in Requests : u # r => scan'[u] = scan[u]
      /\ \/ at'[r] = "file" /\ scan'[r] = scan[r]
         \/ /\ at'[r] = "scan"
            /\ scan'[r].next = 1 /\ scan'[r].end = Len(rules)
            /\ scan'[r].expects => Acknowledged(Path(r))
  <2>1. CASE Route(r) = "/cgi-bin/"
    <3>1. PICK e \in BOOLEAN : e = Acknowledged(Path(r))
      BY DEF Acknowledged
    <3>2. PICK x : x = [next |-> 1, end |-> Len(rules), storage |-> storage, expects |-> e]
      OBVIOUS
    <3>3. /\ x \in Scans /\ x.next = 1 /\ x.end = Len(rules) /\ x.expects = e
      BY <3>2 DEF Scans, TypeOK
    <3>4. Move(r, "scan") /\ scan' = [scan EXCEPT ![r] = x]
      BY <2>1, <3>1, <3>2, Zenon DEF StartScan
    <3>5. at'[r] = "scan"
      BY <3>4 DEF Move, TypeOK
    <3>6. scan' \in [Requests -> Scans] /\ scan'[r] = x /\ \A u \in Requests : u # r => scan'[u] = scan[u]
      BY <3>3, <3>4 DEF TypeOK
    <3>7. QED
      BY <3>1, <3>3, <3>5, <3>6
  <2>2. CASE Route(r) # "/cgi-bin/"
    BY <2>2 DEF StartScan, Move, TypeOK
  <2>3. QED
    BY <2>1, <2>2
<1>8. TypeOK'
  BY <1>1, <1>2, <1>6, <1>7 DEF TypeOK
<1>9. Unanswered(r)
  BY <1>1, <1>4, <1>6 DEF Unanswered, Done
<1>10. QED
  BY <1>1, <1>2, <1>5, <1>6, <1>7, <1>8, <1>9 DEF Steps

LEMMA ScanFaultsSteps ==
    ASSUME TypeOK, InPlace, NEW r \in Requests, ScanFaults(r)
    PROVE  Steps(r) /\ UNCHANGED <<at, rules, types, scan, ran>>
<1>1. UNCHANGED <<asked, at, replies, counter, registry, scan, ran>> /\ faulted' = TRUE
  BY DEF ScanFaults
<1>2. UNCHANGED <<rules, types, storage>>
  BY <1>1 DEF registry
<1>3. TypeOK' /\ InPlace'
  BY <1>1, <1>2 DEF TypeOK, InPlace, Fits, Route
<1>4. QED
  BY <1>1, <1>2, <1>3 DEF Steps, Unanswered

\* The steps of the loop that go on with the next object.
LEMMA SkipSteps ==
    ASSUME TypeOK, InPlace, NEW r \in Requests, ScanOther(r) \/ ScanStatic(r)
    PROVE  /\ Steps(r) /\ at[r] = "scan" /\ scan[r].next <= scan[r].end
           /\ UNCHANGED <<at, rules, ran>> /\ Skip(r)
           /\ \/ types' = types /\ Current(r).path # Path(r)
              \/ /\ Tagged(Path(r), TagOf(Path(r))) /\ TagOf(Path(r)) # "cgi"
                 /\ TagOf(Path(r)) \in Types
<1>1. /\ at[r] = "scan" /\ scan[r].next <= scan[r].end
      /\ UNCHANGED <<asked, at, replies, counter, rules, storage, ran, faulted>> /\ Skip(r)
      /\ \/ types' = types /\ Current(r).path # Path(r)
         \/ Tagged(Path(r), TagOf(Path(r))) /\ TagOf(Path(r)) # "cgi"
  BY DEF ScanOther, ScanStatic, Matches, Is, registry
<1>2. TagOf(Path(r)) \in Types
  BY DEF TagOf, Types, TypeOK
<1>3. scan' \in [Requests -> Scans]
  BY <1>1, SkipFacts
<1>4. DOMAIN types' \subseteq Paths /\ types' \in [DOMAIN types' -> Types]
  <2>1. CASE types' = types
    BY <2>1 DEF TypeOK
  <2>2. CASE Tagged(Path(r), TagOf(Path(r)))
    BY <1>2, <2>2, AskParts, TaggedFacts
  <2>3. QED
    BY <1>1, <2>1, <2>2
<1>5. TypeOK'
  BY <1>1, <1>3, <1>4 DEF TypeOK
<1>6. InPlace'
  BY <1>1 DEF InPlace, Fits, Route
<1>7. QED
  BY <1>1, <1>2, <1>5, <1>6 DEF Steps, Unanswered

LEMMA RunRuleSteps ==
    ASSUME TypeOK, InPlace, NEW r \in Requests, 1 <= scan[r].next, RunRule(r)
    PROVE  /\ Steps(r) /\ at[r] = "scan" /\ at'[r] = "close" /\ scan[r].next <= scan[r].end
           /\ UNCHANGED <<rules, types, scan>>
           /\ Current(r).path = Path(r) /\ TagOf(Path(r)) = "cgi"
           /\ ran'[r] = scan[r].next /\ \A u \in Requests : u # r => ran'[u] = ran[u]
<1>1. /\ at[r] = "scan" /\ scan[r].next <= scan[r].end /\ Move(r, "close")
      /\ Current(r).path = Path(r) /\ TagOf(Path(r)) = "cgi"
      /\ ran' = [ran EXCEPT ![r] = scan[r].next]
      /\ \E reply \in RuleReplies : Send(r, reply)
      /\ UNCHANGED <<asked, counter, rules, types, storage, scan, faulted>>
  BY DEF RunRule, Matches, Is, registry
<1>2. "close" \in Places /\ Fits(r, "close")
  BY DEF Places, Fits
<1>3. InPlace'
  BY <1>1, <1>2, PlaceKept
<1>4. /\ at' \in [Requests -> Places] /\ at'[r] = "close"
      /\ \A u \in Requests : u # r => at'[u] = at[u]
  BY <1>1, <1>2, MoveFacts
<1>5. PICK m \in RuleReplies : Send(r, m)
  BY <1>1
<1>6. m \in Replies
  <2>1. m = Full(200, FALSE) \/ m = Full(500, FALSE)
    BY <1>5, Zenon DEF RuleReplies
  <2>2. PICK c \in Nat, d \in Nat : c = 200 /\ d = 500
    OBVIOUS
  <2>3. FALSE \in BOOLEAN
    OBVIOUS
  <2>4. Full(c, FALSE) \in Replies /\ Full(d, FALSE) \in Replies
    BY <2>3, FullFacts, Zenon
  <2>5. CASE m = Full(200, FALSE)
    <3>1. m = Full(c, FALSE)
      BY <2>2, <2>5, Zenon
    <3>2. QED
      BY <2>4, <3>1, Zenon
  <2>6. CASE m = Full(500, FALSE)
    <3>1. m = Full(d, FALSE)
      BY <2>2, <2>6, Zenon
    <3>2. QED
      BY <2>4, <3>1, Zenon
  <2>7. QED
    BY <2>1, <2>5, <2>6, Zenon
<1>7. replies' \in [Requests -> Seq(Replies)]
  BY <1>5, <1>6, SendFacts
<1>8. /\ ran' \in [Requests -> Nat] /\ ran'[r] = scan[r].next /\ ran'[r] # 0
      /\ \A u \in Requests : u # r => ran'[u] = ran[u]
  <2>1. scan[r].next \in Nat /\ scan[r].next # 0
    BY ScanParts
  <2>2. QED
    BY <1>1, <2>1 DEF TypeOK
<1>9. TypeOK'
  BY <1>1, <1>4, <1>7, <1>8 DEF TypeOK
<1>10. Answers(r)
  BY <1>1, <1>4, <1>5, <1>6, <1>8 DEF Answers, Done
<1>11. QED
  BY <1>1, <1>3, <1>4, <1>8, <1>9, <1>10 DEF Steps

LEMMA DispatchSteps ==
    ASSUME TypeOK, InPlace, InBounds, NEW r \in Requests, Dispatch(r)
    PROVE  Steps(r)
BY SilentSteps, PlainSteps, AuthorizeSteps, PushSteps, TagSteps, StartScanSteps,
   ScanFaultsSteps, SkipSteps, RunRuleSteps DEF Dispatch, Silent, Plain, InBounds
-----------------------------------------------------------------------------
(* The answers. *)

LEMMA StepAnswered ==
    ASSUME TypeOK, Answered, NEW r \in Requests, Steps(r)
    PROVE  Answered'
<1>1. /\ asked' = asked /\ \A u \in Requests : u # r => at'[u] = at[u]
      /\ Unanswered(r) \/ Answers(r)
  BY DEF Steps
<1>2. \A u \in Requests : MayStaySilent(u)' = MayStaySilent(u)
  BY <1>1, AskedStays
<1>3. CASE Unanswered(r)
  BY <1>1, <1>2, <1>3 DEF Unanswered, Answered, Done
<1>4. CASE Answers(r)
  <2>1. PICK m \in Replies : Send(r, m)
    BY <1>4 DEF Answers
  <2>2. replies[r] = <<>> /\ at'[r] \in Done
    BY <1>4 DEF Answers, Answered, Done
  <2>3. Len(replies'[r]) = 1
    <3>1. replies'[r] = Append(<<>>, m)
      BY <2>1, <2>2, SendFacts
    <3>2. QED
      BY <3>1, FirstReply
  <2>4. \A u \in Requests : u # r => replies'[u] = replies[u]
    BY <2>1, SendFacts
  <2>5. QED
    BY <1>1, <1>2, <2>2, <2>3, <2>4 DEF Answered, Done
<1>5. QED
  BY <1>1, <1>3, <1>4

LEMMA StepHeadHasNoBody ==
    ASSUME TypeOK, Answered, HeadHasNoBody, NEW r \in Requests, Steps(r)
    PROVE  HeadHasNoBody'
<1>1. asked' = asked /\ (Unanswered(r) \/ Answers(r))
  BY DEF Steps
<1>2. \A u \in Requests : HeadOnly(u)' = HeadOnly(u) /\ Route(u)' = Route(u)
  BY <1>1, AskedStays
<1>3. CASE Unanswered(r)
  BY <1>2, <1>3 DEF Unanswered, HeadHasNoBody
<1>4. CASE Answers(r)
  <2> SUFFICES ASSUME NEW u \in Requests, HeadOnly(u), ran'[u] = 0,
                      NEW k \in DOMAIN replies'[u], replies'[u][k].body
               PROVE  Route(u) = "/logs" /\ replies'[u][k].code = 500
    BY <1>2 DEF HeadHasNoBody
  <2>1. PICK m \in Replies : /\ Send(r, m)
                             /\ (HeadOnly(r) /\ ran'[r] = 0 /\ m.body) => LogFails(r, m)
    BY <1>4 DEF Answers
  <2>2. CASE u = r
    <3>1. replies[r] = <<>>
      BY <1>4 DEF Answers, Answered, Done
    <3>2. k \in 1 .. 1 /\ replies'[r][1] = m
      BY <2>1, <2>2, <3>1, SendFacts, FirstReply
    <3>3. k = 1
      BY <3>2
    <3>4. QED
      BY <2>1, <2>2, <3>2, <3>3 DEF LogFails
  <2>3. CASE u # r
    <3>1. replies'[u] = replies[u] /\ ran'[u] = ran[u]
      BY <1>4, <2>1, <2>3, SendFacts DEF Answers
    <3>2. QED
      BY <3>1 DEF HeadHasNoBody
  <2>4. QED
    BY <2>2, <2>3
<1>5. QED
  BY <1>1, <1>3, <1>4
-----------------------------------------------------------------------------
(* The registry. *)

Quiet(r) == Silent(r) \/ Plain(r) \/ Authorize(r)

LEMMA Kinds ==
    ASSUME NEW r \in Requests, Dispatch(r)
    PROVE  \/ Quiet(r) \/ PushRule(r) \/ TagRule(r) \/ UpdateRule(r) \/ StartScan(r)
           \/ ScanFaults(r) \/ ScanOther(r) \/ ScanStatic(r) \/ RunRule(r)
BY DEF Dispatch, Quiet, Silent, Plain

\* A step away from the registry does not end a request that adds a rule.
LEMMA QuietMoves ==
    ASSUME TypeOK, InPlace, NEW r \in Requests, Quiet(r)
    PROVE  /\ UNCHANGED <<rules, types, scan, ran>>
           /\ at[r] # "tag" /\ at'[r] \notin {"tag", "scan"}
           /\ at[r] = "scan" => scan[r].next > scan[r].end
           /\ at[r] \in Done => at'[r] \in Done
           /\ at'[r] \in Done /\ at[r] \notin Done => \A p : ~Adds(r, p)
<1>1. UNCHANGED <<rules, types, scan, ran>>
  BY DEF Quiet, Silent, Plain, Receive, Accept, HelperFails, UploadFails, ScanEnds, Close,
         Reject, AnswerOpen, AnswerAdmin, RefuseRule, AnswerFile, Authorize, registry
<1>2. Fits(r, at[r]) /\ at \in [Requests -> Places]
  BY DEF InPlace, TypeOK
<1>3. ASSUME NEW p, Adds(r, p)
      PROVE  /\ Route(r) = "/admin/add_rule" /\ asked[r].type = "cgi" /\ asked[r].trusted
             /\ asked[r].method \in {"GET", "HEAD"}
  BY <1>3 DEF Adds, Tagging
<1>4. CASE Receive(r) \/ Accept(r) \/ ScanEnds(r)
  BY <1>1, <1>2, <1>4 DEF Receive, Accept, ScanEnds, Is, Move, Done
<1>5. CASE HelperFails(r) \/ UploadFails(r)
  BY <1>1, <1>2, <1>3, <1>5 DEF HelperFails, UploadFails, Is, Move, Done
<1>6. CASE Close(r)
  BY <1>1, <1>2, <1>6 DEF Close, Is, Move, Done
<1>7. CASE Reject(r)
  BY <1>1, <1>2, <1>3, <1>7 DEF Reject, Is, Move, Done
<1>8. CASE AnswerOpen(r)
  BY <1>1, <1>2, <1>3, <1>8 DEF AnswerOpen, Is, Move, Done, Fits, OpenRoutes
<1>9. CASE AnswerAdmin(r)
  BY <1>1, <1>2, <1>3, <1>9 DEF AnswerAdmin, Is, Move, Done, AdminRoutes
<1>10. CASE RefuseRule(r)
  BY <1>1, <1>2, <1>3, <1>10 DEF RefuseRule, Is, Move, Done, Types
<1>11. CASE AnswerFile(r)
  BY <1>1, <1>2, <1>3, <1>11 DEF AnswerFile, Is, Move, Done, Fits, PageRoutes
<1>12. CASE Authorize(r)
  BY <1>1, <1>2, <1>3, <1>12 DEF Authorize, Is, Move, Done
<1>13. QED
  BY <1>4, <1>5, <1>6, <1>7, <1>8, <1>9, <1>10, <1>11, <1>12 DEF Quiet, Silent, Plain

\* Objects are only ever added behind the others.
LEMMA RulesGrow ==
    ASSUME TypeOK, InPlace, InBounds, NEW r \in Requests, Dispatch(r)
    PROVE  /\ Len(rules) \in Nat /\ Len(rules') \in Nat /\ Len(rules) <= Len(rules')
           /\ \A i \in 1 .. Len(rules) : rules'[i] = rules[i]
<1>1. Len(rules) \in Nat
  BY DEF TypeOK
<1>2. CASE PushRule(r)
  <2>1. /\ Len(rules') = Len(rules) + 1
        /\ \A i \in 1 .. Len(rules) : rules'[i] = rules[i]
    BY <1>2, PushSteps
  <2>2. QED
    BY <1>1, <2>1
<1>3. CASE ~PushRule(r)
  <2>1. rules' = rules
    BY <1>3, Kinds, QuietMoves, TagSteps, StartScanSteps, ScanFaultsSteps, SkipSteps,
       RunRuleSteps DEF InBounds
  <2>2. QED
    BY <1>1, <2>1
<1>4. QED
  BY <1>2, <1>3

LEMMA StepInBounds ==
    ASSUME TypeOK, InPlace, InBounds, NEW r \in Requests, Dispatch(r)
    PROVE  InBounds'
<1>1. /\ Len(rules) \in Nat /\ Len(rules') \in Nat /\ Len(rules) <= Len(rules')
      /\ \A u \in Requests : /\ scan[u].next \in Nat /\ scan[u].end \in Nat /\ ran[u] \in Nat
                             /\ scan[u].end <= Len(rules)
                             /\ 1 <= scan[u].next /\ scan[u].next <= scan[u].end + 1
                             /\ ran[u] <= Len(rules)
  BY RulesGrow, ScanParts DEF InBounds, TypeOK
<1>2. CASE scan' = scan /\ ran' = ran
  BY <1>1, <1>2 DEF InBounds
<1>3. CASE StartScan(r)
  <2>1. ran' = ran /\ Len(rules') = Len(rules)
    BY <1>3, StartScanSteps
  <2>2. \A u \in Requests : /\ scan'[u].end <= Len(rules)
                            /\ 1 <= scan'[u].next /\ scan'[u].next <= scan'[u].end + 1
    BY <1>1, <1>3, StartScanSteps
  <2>3. QED
    BY <1>1, <2>1, <2>2 DEF InBounds
<1>4. CASE ScanOther(r) \/ ScanStatic(r)
  <2>1. ran' = ran /\ Len(rules') = Len(rules) /\ Skip(r) /\ scan[r].next <= scan[r].end
    BY <1>4, SkipSteps
  <2>2. \A u \in Requests : /\ scan'[u].end <= Len(rules)
                            /\ 1 <= scan'[u].next /\ scan'[u].next <= scan'[u].end + 1
    BY <1>1, <2>1, SkipFacts
  <2>3. QED
    BY <1>1, <2>1, <2>2 DEF InBounds
<1>5. CASE RunRule(r)
  <2>1. /\ scan' = scan /\ Len(rules') = Len(rules) /\ scan[r].next <= scan[r].end
        /\ ran'[r] = scan[r].next /\ \A u \in Requests : u # r => ran'[u] = ran[u]
    BY <1>1, <1>5, RunRuleSteps
  <2>2. \A u \in Requests : ran'[u] <= Len(rules)
    BY <1>1, <2>1
  <2>3. QED
    BY <1>1, <2>1, <2>2 DEF InBounds
<1>6. QED
  BY <1>2, <1>3, <1>4, <1>5, Kinds, QuietMoves, PushSteps, TagSteps, ScanFaultsSteps

LEMMA StepTagsAsked ==
    ASSUME TypeOK, InPlace, InBounds, TagsAsked, NEW r \in Requests, Dispatch(r)
    PROVE  TagsAsked'
<1>1. \A p, t : Tagging(p, t)' = Tagging(p, t)
  BY DispatchSteps, AskedStays DEF Steps
<1>2. CASE types' = types
  BY <1>1, <1>2 DEF TagsAsked
<1>3. CASE TagRule(r) \/ UpdateRule(r)
  <2>1. /\ Route(r) \in RuleRoutes /\ asked[r].type \in Types /\ asked[r].trusted
        /\ asked[r].method \in {"GET", "HEAD"} /\ Tagged(Path(r), asked[r].type)
    BY <1>3, TagSteps
  <2>2. r \in Tagging(Path(r), asked[r].type)
    BY <2>1 DEF Tagging
  <2>3. /\ DOMAIN types' = DOMAIN types \cup {Path(r)} /\ types'[Path(r)] = asked[r].type
        /\ \A q \in DOMAIN types : q # Path(r) => types'[q] = types[q]
    BY <2>1, AskParts, TaggedFacts
  <2>4. QED
    BY <1>1, <2>2, <2>3 DEF TagsAsked
<1>4. CASE /\ Tagged(Path(r), TagOf(Path(r))) /\ TagOf(Path(r)) # "cgi"
           /\ TagOf(Path(r)) \in Types
  <2>1. /\ DOMAIN types' = DOMAIN types \cup {Path(r)} /\ types'[Path(r)] # "cgi"
        /\ \A q \in DOMAIN types : q # Path(r) => types'[q] = types[q]
    BY <1>4, AskParts, TaggedFacts
  <2>2. QED
    BY <1>1, <2>1 DEF TagsAsked
<1>5. QED
  BY <1>2, <1>3, <1>4, Kinds, QuietMoves, PushSteps, StartScanSteps, ScanFaultsSteps, SkipSteps,
     RunRuleSteps DEF InBounds

LEMMA StepRulesAsked ==
    ASSUME TypeOK, InPlace, InBounds, RulesAsked, NEW r \in Requests, Dispatch(r)
    PROVE  RulesAsked'
<1>1. \A p, t : Tagging(p, t)' = Tagging(p, t)
  BY DispatchSteps, AskedStays DEF Steps
<1>2. CASE rules' = rules
  BY <1>1, <1>2 DEF RulesAsked
<1>3. CASE PushRule(r)
  <2>1. /\ Len(rules') = Len(rules) + 1 /\ Len(rules) \in Nat
        /\ rules'[Len(rules) + 1] = [path |-> Path(r), class |-> asked[r].type]
        /\ \A i \in 1 .. Len(rules) : rules'[i] = rules[i]
    BY <1>3, PushSteps, RulesGrow
  <2>2. r \in Tagging(Path(r), asked[r].type)
    BY <1>3 DEF PushRule, Is, InPlace, Fits, Tagging, RuleRoutes
  <2>3. ASSUME NEW i \in 1 .. Len(rules'), rules'[i].class = "static"
        PROVE  Tagging(rules'[i].path, "static") # {}
    <3>1. CASE i \in 1 .. Len(rules)
      BY <2>1, <2>3, <3>1 DEF RulesAsked
    <3>2. CASE i = Len(rules) + 1
      BY <2>1, <2>2, <2>3, <3>2
    <3>3. QED
      BY <2>1, <3>1, <3>2
  <2>4. QED
    BY <1>1, <2>3 DEF RulesAsked
<1>4. QED
  BY <1>2, <1>3, Kinds, QuietMoves, TagSteps, StartScanSteps, ScanFaultsSteps, SkipSteps,
     RunRuleSteps DEF InBounds

LEMMA PushedStays ==
    ASSUME TypeOK, InPlace, InBounds, NEW r \in Requests, Dispatch(r), NEW p, Pushed(p)
    PROVE  Pushed(p)'
<1>1. PICK i \in 1 .. Len(rules) : rules[i].path = p
  BY DEF Pushed
<1>2. i \in 1 .. Len(rules') /\ rules'[i].path = p
  BY <1>1, RulesGrow
<1>3. QED
  BY <1>2 DEF Pushed

LEMMA SettledStays ==
    ASSUME TypeOK, InPlace, InBounds, NEW r \in Requests, Dispatch(r),
           NEW p \in Paths, Undisputed(p), Settled(p)
    PROVE  Settled(p)'
<1>1. Pushed(p)'
  BY PushedStays DEF Settled
<1>2. CASE types' = types
  BY <1>1, <1>2 DEF Settled
<1>3. CASE TagRule(r) \/ UpdateRule(r)
  <2>1. /\ Route(r) \in RuleRoutes /\ asked[r].type \in Types /\ asked[r].trusted
        /\ asked[r].method \in {"GET", "HEAD"} /\ Tagged(Path(r), asked[r].type)
    BY <1>3, TagSteps
  <2>2. r \in Tagging(Path(r), asked[r].type)
    BY <2>1 DEF Tagging
  <2>3. Path(r) = p => asked[r].type = "cgi"
    BY <2>1, <2>2 DEF Undisputed, Types
  <2>4. p \in DOMAIN types' /\ types'[p] = "cgi"
    BY <2>1, <2>3, AskParts, TaggedFacts DEF Settled
  <2>5. QED
    BY <1>1, <2>4 DEF Settled
<1>4. CASE /\ Tagged(Path(r), TagOf(Path(r))) /\ TagOf(Path(r)) # "cgi"
           /\ TagOf(Path(r)) \in Types
  <2>1. Path(r) # p
    BY <1>4 DEF TagOf, Settled
  <2>2. p \in DOMAIN types' /\ types'[p] = "cgi"
    BY <1>4, <2>1, AskParts, TaggedFacts DEF Settled
  <2>3. QED
    BY <1>1, <2>2 DEF Settled
<1>5. QED
  BY <1>2, <1>3, <1>4, Kinds, QuietMoves, PushSteps, StartScanSteps, ScanFaultsSteps, SkipSteps,
     RunRuleSteps DEF InBounds

LEMMA StepPushedFirst ==
    ASSUME TypeOK, InPlace, InBounds, PushedFirst, NEW r \in Requests, Dispatch(r)
    PROVE  PushedFirst'
<1>1. /\ \A u \in Requests : Path(u)' = Path(u)
      /\ \A u \in Requests : u # r => at'[u] = at[u]
  BY DispatchSteps, AskedStays DEF Steps
<1> SUFFICES ASSUME NEW u \in Requests, at'[u] = "tag" PROVE Pushed(Path(u))'
  BY DEF PushedFirst
<1>2. PICK p : p = Path(u) /\ p = Path(u)'
  BY <1>1
<1>3. CASE at[u] = "tag"
  <2>1. Pushed(p)
    BY <1>2, <1>3 DEF PushedFirst
  <2>2. Pushed(p)'
    BY <2>1, PushedStays
  <2>3. QED
    BY <1>2, <2>2 DEF Pushed
<1>4. CASE at[u] # "tag"
  <2>1. u = r /\ PushRule(r)
    BY <1>1, <1>4, Kinds, QuietMoves, TagSteps, StartScanSteps, ScanFaultsSteps, SkipSteps,
       RunRuleSteps DEF InBounds
  <2>2. /\ Len(rules') = Len(rules) + 1
        /\ rules'[Len(rules) + 1] = [path |-> Path(r), class |-> asked[r].type]
    BY <2>1, PushSteps
  <2>3. Len(rules) + 1 \in 1 .. Len(rules') /\ rules'[Len(rules) + 1].path = Path(r)
    BY <2>2, RulesGrow
  <2>4. QED
    BY <1>2, <2>1, <2>3 DEF Pushed
<1>5. QED
  BY <1>3, <1>4

LEMMA StepSettledBeforeTold ==
    ASSUME TypeOK, InPlace, InBounds, PushedFirst, SettledBeforeTold,
           NEW r \in Requests, Dispatch(r)
    PROVE  SettledBeforeTold'
<1>1. /\ \A u \in Requests : \A p : Adds(u, p)' = Adds(u, p)
      /\ \A p : Undisputed(p)' = Undisputed(p)
      /\ \A u \in Requests : u # r => at'[u] = at[u]
  BY DispatchSteps, AskedStays DEF Steps
<1> SUFFICES ASSUME NEW u \in Requests, NEW p \in Paths, Adds(u, p), at'[u] \in Done,
                    Undisputed(p)
             PROVE  Settled(p)'
  BY <1>1 DEF SettledBeforeTold, Done
<1>2. CASE at[u] \in Done
  BY <1>2, SettledStays DEF SettledBeforeTold, Done
<1>3. CASE at[u] \notin Done
  <2>1. u = r
    BY <1>1, <1>3
  <2>2. /\ Route(r) = "/admin/add_rule" /\ Path(r) = p /\ asked[r].type = "cgi"
        /\ Fits(r, at[r])
    BY <2>1 DEF Adds, Tagging, InPlace
  <2>3. ~Quiet(r)
    BY <1>3, <2>1, QuietMoves
  <2>4. ~RunRule(r)
    <3>1. Route(r) \notin PageRoutes
      BY <2>2 DEF PageRoutes
    <3>2. at[r] # "scan"
      BY <2>2, <3>1 DEF Fits
    <3>3. QED
      BY <3>2 DEF RunRule, Matches, Is
  <2>5. TagRule(r) \/ UpdateRule(r)
    BY <1>3, <2>1, <2>3, <2>4, Kinds, PushSteps, StartScanSteps, ScanFaultsSteps, SkipSteps
       DEF Done
  <2>6. at[r] = "tag" /\ Tagged(p, "cgi")
    BY <2>2, <2>5, TagSteps
  <2>7. Pushed(p)'
    BY <2>2, <2>6, PushedStays DEF PushedFirst
  <2>8. p \in DOMAIN types' /\ types'[p] = "cgi"
    <3>1. "cgi" \in Types
      BY DEF Types
    <3>2. QED
      BY <2>6, <3>1, TaggedFacts
  <2>9. QED
    BY <2>7, <2>8 DEF Settled
<1>4. QED
  BY <1>2, <1>3
-----------------------------------------------------------------------------
(* The lookups. *)

Expected(r) == /\ at[r] \in {"scan", "close", "closed"} /\ Settled(Path(r))
               /\ IF at[r] = "scan" THEN Ahead(r) ELSE RanFirst(r)

\* What a lookup has behind it and ahead stays where it is.
LEMMA ExpectedStays ==
    ASSUME TypeOK, InPlace, InBounds, NEW r \in Requests, Dispatch(r),
           NEW u \in Requests, Undisputed(Path(u)), Expected(u),
           scan'[u] = scan[u], ran'[u] = ran[u],
           at'[u] = at[u] \/ (at[u] \in Done /\ at'[u] \in Done)
    PROVE  Expected(u)'
<1>1. Path(u)' = Path(u)
  BY DispatchSteps, AskedStays DEF Steps
<1>2. PICK p \in Paths : p = Path(u) /\ p = Path(u)'
  BY <1>1, AskParts
<1>3. Settled(p)'
  BY <1>2, SettledStays DEF Expected
<1>4. /\ scan[u].end \in Nat /\ scan[u].next \in Nat /\ ran[u] \in Nat /\ Len(rules) \in Nat
      /\ scan[u].end <= Len(rules) /\ 1 <= scan[u].next /\ scan[u].next <= scan[u].end + 1
      /\ ran[u] <= Len(rules) /\ \A i \in 1 .. Len(rules) : rules'[i] = rules[i]
  BY ScanParts, RulesGrow DEF InBounds, TypeOK
<1>5. CASE at[u] = "scan"
  <2>1. PICK i \in scan[u].next .. scan[u].end : rules[i].path = p
    BY <1>2, <1>5 DEF Expected, Ahead
  <2>2. i \in 1 .. Len(rules)
    BY <1>4
  <2>3. rules'[i].path = p
    BY <1>4, <2>1, <2>2
  <2>4. \A j \in 1 .. scan[u].next - 1 : rules'[j].path # p
    BY <1>2, <1>4, <1>5 DEF Expected, Ahead
  <2>5. Ahead(u)'
    BY <1>2, <2>3, <2>4 DEF Ahead
  <2>6. at'[u] = "scan"
    BY <1>5 DEF Done
  <2>7. QED
    BY <1>2, <1>3, <2>5, <2>6 DEF Expected, Settled, Pushed
<1>6. CASE at[u] \in Done
  <2>1. ran[u] # 0 /\ \A i \in 1 .. ran[u] : rules[i].path = p => i = ran[u]
    BY <1>2, <1>6 DEF Expected, RanFirst, Done
  <2>2. \A i \in 1 .. ran[u] : rules'[i].path = p => i = ran[u]
    BY <1>4, <2>1
  <2>3. RanFirst(u)'
    BY <1>2, <2>1, <2>2 DEF RanFirst
  <2>4. at'[u] \in Done
    BY <1>6
  <2>5. QED
    BY <1>2, <1>3, <2>3, <2>4 DEF Expected, Settled, Pushed, Done
<1>7. QED
  BY <1>5, <1>6 DEF Expected, Done

LEMMA ScanFrame ==
    ASSUME TypeOK, InPlace, InBounds, NEW r \in Requests, Dispatch(r),
           NEW u \in Requests, u # r
    PROVE  scan'[u] = scan[u] /\ ran'[u] = ran[u]
BY Kinds, QuietMoves, PushSteps, TagSteps, StartScanSteps, ScanFaultsSteps, SkipSteps,
   SkipFacts, RunRuleSteps DEF InBounds

LEMMA StartsExpected ==
    ASSUME TypeOK, InPlace, InBounds, SettledBeforeTold, NEW r \in Requests, Dispatch(r),
           StartScan(r), Undisputed(Path(r)), at'[r] = "scan", scan'[r].expects
    PROVE  Expected(r)'
<1>1. /\ UNCHANGED <<rules, types>> /\ scan'[r].next = 1 /\ scan'[r].end = Len(rules)
      /\ Acknowledged(Path(r)) /\ Path(r)' = Path(r) /\ Path(r) \in Paths
  BY StartScanSteps, DispatchSteps, AskedStays, AskParts DEF Steps
<1>2. PICK u \in Requests : Adds(u, Path(r)) /\ at[u] = "closed"
  BY <1>1 DEF Acknowledged, Adds, Tagging
<1>3. Settled(Path(r))
  BY <1>1, <1>2 DEF SettledBeforeTold
<1>4. Settled(Path(r))'
  BY <1>1, <1>3 DEF Settled, Pushed
<1>5. Ahead(r)'
  BY <1>1, <1>3 DEF Settled, Pushed, Ahead
<1>6. QED
  BY <1>4, <1>5 DEF Expected

LEMMA GoesOnExpected ==
    ASSUME TypeOK, InPlace, InBounds, NEW r \in Requests, Dispatch(r),
           ScanOther(r) \/ ScanStatic(r), Undisputed(Path(r)), Expected(r)
    PROVE  Expected(r)'
<1>1. /\ at' = at /\ rules' = rules /\ at[r] = "scan" /\ Skip(r)
      /\ Path(r)' = Path(r) /\ Path(r) \in Paths
  BY SkipSteps, DispatchSteps, AskedStays, AskParts DEF Steps
<1>2. scan'[r].next = scan[r].next + 1 /\ scan'[r].end = scan[r].end
  BY <1>1, SkipFacts
<1>3. Settled(Path(r)) /\ Ahead(r)
  BY <1>1 DEF Expected
<1>4. TagOf(Path(r)) = "cgi"
  BY <1>3 DEF Settled, TagOf
<1>5. rules[scan[r].next].path # Path(r)
  BY <1>4, SkipSteps DEF Current
<1>6. Ahead(r)'
  <2>1. scan[r].next \in Nat /\ scan[r].end \in Nat /\ 1 <= scan[r].next
    BY ScanParts DEF InBounds
  <2>2. PICK i \in scan[r].next .. scan[r].end : rules[i].path = Path(r)
    BY <1>3 DEF Ahead
  <2>3. i \in scan[r].next + 1 .. scan[r].end
    BY <1>5, <2>1, <2>2
  <2>4. \A j \in 1 .. scan[r].next : rules[j].path # Path(r)
    BY <1>3, <1>5, <2>1 DEF Ahead
  <2>5. (scan[r].next + 1) - 1 = scan[r].next
    BY <2>1
  <2>6. QED
    BY <1>1, <1>2, <2>2, <2>3, <2>4, <2>5 DEF Ahead
<1>7. Settled(Path(r))'
  <2>1. PICK p \in Paths : p = Path(r) /\ p = Path(r)'
    BY <1>1
  <2>2. Settled(p)'
    BY <1>3, <2>1, SettledStays
  <2>3. QED
    BY <2>1, <2>2 DEF Settled, Pushed
<1>8. QED
  BY <1>1, <1>6, <1>7 DEF Expected

LEMMA RunsExpected ==
    ASSUME TypeOK, InPlace, InBounds, NEW r \in Requests, Dispatch(r),
           RunRule(r), Undisputed(Path(r)), Expected(r)
    PROVE  Expected(r)'
<1>1. /\ at[r] = "scan" /\ at'[r] = "close" /\ UNCHANGED <<rules, types>>
      /\ ran'[r] = scan[r].next /\ Path(r)' = Path(r) /\ 1 <= scan[r].next
      /\ scan[r].next \in Nat
  BY RunRuleSteps, DispatchSteps, AskedStays, ScanParts DEF Steps, InBounds
<1>2. Settled(Path(r)) /\ \A i \in 1 .. scan[r].next - 1 : rules[i].path # Path(r)
  BY <1>1 DEF Expected, Ahead
<1>3. Settled(Path(r))'
  BY <1>1, <1>2 DEF Settled, Pushed
<1>4. RanFirst(r)'
  BY <1>1, <1>2 DEF RanFirst
<1>5. QED
  BY <1>1, <1>3, <1>4 DEF Expected

LEMMA StepExpectsRule ==
    ASSUME TypeOK, InPlace, InBounds, SettledBeforeTold, ExpectsRule,
           NEW r \in Requests, Dispatch(r)
    PROVE  ExpectsRule'
<1>1. /\ \A u \in Requests : Path(u)' = Path(u)
      /\ \A p : Undisputed(p)' = Undisputed(p)
      /\ \A u \in Requests : u # r => at'[u] = at[u]
  BY DispatchSteps, AskedStays DEF Steps
<1>2. \A u \in Requests : scan[u].expects /\ Undisputed(Path(u)) => Expected(u)
  BY DEF ExpectsRule, Expected
<1>3. ASSUME NEW u \in Requests, scan'[u].expects, Undisputed(Path(u))
      PROVE  Expected(u)'
  <2>1. CASE u # r
    BY <1>1, <1>2, <1>3, <2>1, ScanFrame, ExpectedStays
  <2>2. CASE u = r /\ Quiet(r)
    <3>1. scan'[r] = scan[r] /\ ran'[r] = ran[r] /\ Expected(r)
      BY <1>2, <1>3, <2>2, QuietMoves
    <3>2. scan[r].next \in Nat /\ scan[r].end \in Nat
      BY ScanParts
    <3>3. at[r] # "scan"
      BY <2>2, <3>1, <3>2, QuietMoves DEF Expected, Ahead
    <3>4. at[r] \in Done /\ at'[r] \in Done
      BY <2>2, <3>1, <3>3, QuietMoves DEF Expected, Done
    <3>5. QED
      BY <1>3, <2>2, <3>1, <3>4, ExpectedStays
  <2>3. CASE u = r /\ (PushRule(r) \/ TagRule(r) \/ UpdateRule(r))
    <3>1. at[r] \in {"handle", "tag"} /\ scan'[r] = scan[r]
      BY <2>3, PushSteps, TagSteps
    <3>2. QED
      BY <1>2, <1>3, <2>3, <3>1 DEF Expected
  <2>4. CASE u = r /\ StartScan(r)
    <3>1. CASE at'[r] = "scan"
      BY <1>3, <2>4, <3>1, StartsExpected
    <3>2. CASE at'[r] # "scan"
      <4>1. at[r] = "lookup" /\ scan'[r] = scan[r]
        BY <2>4, <3>2, StartScanSteps
      <4>2. QED
        BY <1>2, <1>3, <2>4, <4>1 DEF Expected
    <3>3. QED
      BY <3>1, <3>2
  <2>5. CASE u = r /\ ScanFaults(r)
    BY <1>2, <1>3, <2>5, ScanFaultsSteps, ExpectedStays
  <2>6. CASE u = r /\ (ScanOther(r) \/ ScanStatic(r))
    <3>1. scan'[r].expects = scan[r].expects
      BY <2>6, SkipSteps, SkipFacts
    <3>2. QED
      BY <1>2, <1>3, <2>6, <3>1, GoesOnExpected
  <2>7. CASE u = r /\ RunRule(r)
    <3>1. scan' = scan
      BY <2>7, RunRuleSteps DEF InBounds
    <3>2. QED
      BY <1>2, <1>3, <2>7, <3>1, RunsExpected
  <2>8. QED
    BY <2>1, <2>2, <2>3, <2>4, <2>5, <2>6, <2>7, Kinds
<1>4. \A u \in Requests : (scan[u].expects /\ Undisputed(Path(u)))' => Expected(u)'
  <2> SUFFICES ASSUME NEW u \in Requests, (scan[u].expects /\ Undisputed(Path(u)))'
               PROVE  Expected(u)'
    OBVIOUS
  <2>1. PICK p : p = Path(u) /\ p = Path(u)'
    BY <1>1
  <2>2. Undisputed(p)'
    BY <2>1 DEF Undisputed
  <2>3. QED
    BY <1>1, <1>3, <2>1, <2>2
<1>5. QED
  BY <1>4 DEF ExpectsRule, Expected

LEMMA StepOnlyCgiRulesRun ==
    ASSUME TypeOK, InPlace, InBounds, TagsAsked, RulesAsked, OnlyCgiRulesRun,
           NEW r \in Requests, Dispatch(r)
    PROVE  OnlyCgiRulesRun'
<1>1. /\ \A u \in Requests : Path(u)' = Path(u)
      /\ \A p, t : Tagging(p, t)' = Tagging(p, t)
  BY DispatchSteps, AskedStays DEF Steps
<1> DEFINE Both(p) == Tagging(p, "cgi") # {} /\ Tagging(p, "static") # {}
<1>2. ASSUME NEW u \in Requests, ran'[u] # 0
      PROVE  rules'[ran'[u]].class = "cgi" \/ Both(Path(u))
  <2>1. CASE ran'[u] = ran[u]
    <3>1. ran[u] \in 1 .. Len(rules)
      BY <1>2, <2>1, RulesGrow DEF InBounds, TypeOK
    <3>2. rules'[ran'[u]] = rules[ran[u]]
      BY <2>1, <3>1, RulesGrow
    <3>3. QED
      BY <1>2, <2>1, <3>2 DEF OnlyCgiRulesRun
  <2>2. CASE u = r /\ RunRule(r)
    <3>1. /\ ran'[r] = scan[r].next /\ scan[r].next <= scan[r].end /\ 1 <= scan[r].next
          /\ rules[scan[r].next].path = Path(r) /\ TagOf(Path(r)) = "cgi" /\ rules' = rules
      BY <2>2, RunRuleSteps DEF InBounds, Current
    <3>2. scan[r].next \in 1 .. Len(rules)
      BY <3>1, ScanParts, RulesGrow DEF InBounds
    <3>3. Path(r) \in DOMAIN types /\ types[Path(r)] = "cgi"
      BY <3>1 DEF TagOf
    <3>4. Tagging(Path(r), "cgi") # {}
      BY <3>3 DEF TagsAsked
    <3>5. rules[scan[r].next].class \in Types
      BY <3>2, RuleParts
    <3>6. rules[scan[r].next].class = "static" => Tagging(Path(r), "static") # {}
      BY <3>1, <3>2 DEF RulesAsked
    <3>7. QED
      BY <2>2, <3>1, <3>4, <3>5, <3>6 DEF Types
  <2>3. QED
    BY <2>1, <2>2, Kinds, QuietMoves, PushSteps, TagSteps, StartScanSteps, ScanFaultsSteps,
       SkipSteps, RunRuleSteps DEF InBounds
<1>3. QED
  BY <1>1, <1>2 DEF OnlyCgiRulesRun
-----------------------------------------------------------------------------
LEMMA NextIInv == IInv /\ [Next]_vars => IInv'
<1> SUFFICES ASSUME IInv, [Next]_vars PROVE IInv'
  OBVIOUS
<1>1. ASSUME NEW r \in Requests, Dispatch(r) PROVE IInv'
  <2>1. TypeOK' /\ InPlace' /\ Answered' /\ HeadHasNoBody'
    BY <1>1, DispatchSteps, StepAnswered, StepHeadHasNoBody DEF IInv, Steps
  <2>2. InBounds' /\ TagsAsked' /\ RulesAsked' /\ OnlyCgiRulesRun'
    BY <1>1, StepInBounds, StepTagsAsked, StepRulesAsked, StepOnlyCgiRulesRun DEF IInv
  <2>3. PushedFirst' /\ SettledBeforeTold' /\ ExpectsRule'
    BY <1>1, StepPushedFirst, StepSettledBeforeTold, StepExpectsRule DEF IInv
  <2>4. QED
    BY <2>1, <2>2, <2>3 DEF IInv
<1>2. CASE UNCHANGED vars
  <2>1. UNCHANGED <<asked, at, replies, counter, rules, types, storage, scan, ran, faulted>>
    BY <1>2 DEF vars, registry
  <2>2. /\ \A u \in Requests : /\ Route(u)' = Route(u) /\ Path(u)' = Path(u)
                               /\ HeadOnly(u)' = HeadOnly(u)
                               /\ MayStaySilent(u)' = MayStaySilent(u)
        /\ \A p, t : Tagging(p, t)' = Tagging(p, t)
        /\ \A p : Undisputed(p)' = Undisputed(p)
        /\ \A u \in Requests : \A p : Adds(u, p)' = Adds(u, p)
    BY <2>1, AskedStays
  <2>3. TypeOK' /\ InPlace' /\ Answered' /\ HeadHasNoBody'
    BY <2>1, <2>2 DEF IInv, TypeOK, InPlace, Fits, Answered, HeadHasNoBody
  <2>4. InBounds' /\ TagsAsked' /\ RulesAsked' /\ OnlyCgiRulesRun'
    BY <2>1, <2>2 DEF IInv, InBounds, TagsAsked, RulesAsked, OnlyCgiRulesRun
  <2>5. PushedFirst' /\ SettledBeforeTold'
    BY <2>1, <2>2 DEF IInv, PushedFirst, SettledBeforeTold, Settled, Pushed
  <2>6. ExpectsRule'
    BY <2>1, <2>2 DEF IInv, ExpectsRule, Settled, Pushed, Ahead, RanFirst
  <2>7. QED
    BY <2>3, <2>4, <2>5, <2>6 DEF IInv
<1>3. QED
  BY <1>1, <1>2 DEF Next

\* The inductive invariant holds in every state of the router.
THEOREM RouterInvariant == Spec => []IInv
BY InitIInv, NextIInv, PTL DEF Spec

\* handlers/admin.h:10: whatever the interleaving, a connection that dispatch()
\* has closed was answered once, or its handler ran out of resources.
THEOREM RouterAnswersOnce == Spec => []AnsweredOnce
<1>1. IInv => AnsweredOnce
  BY DEF IInv, Answered, AnsweredOnce
<1>2. QED
  BY <1>1, RouterInvariant, PTL

\* http/response.h:30-31: HEAD gets no body but from a rule or a broken log.
THEOREM RouterHeadHasNoBody == Spec => []HeadHasNoBody
<1>1. IInv => HeadHasNoBody
  BY DEF IInv
<1>2. QED
  BY <1>1, RouterInvariant, PTL

\* A rule that an admin was told of is served, however many requests add
\* rules meanwhile, and it is the first of its path that runs.
THEOREM RouterServesAddedRule == Spec => []AddedRuleIsServed
<1>1. IInv => AddedRuleIsServed
  BY DEF IInv, ExpectsRule, RanFirst, Undisputed, AddedRuleIsServed
<1>2. QED
  BY <1>1, RouterInvariant, PTL

\* cgi_rules.h:14-15: only an object of the class CgiRoute is cast to it,
\* unless its path was given both types.
THEOREM RouterRunsOnlyCgiRules == Spec => []OnlyCgiRulesRun
<1>1. IInv => OnlyCgiRulesRun
  BY DEF IInv
<1>2. QED
  BY <1>1, RouterInvariant, PTL
=============================================================================
