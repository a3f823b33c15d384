-------------------------------- MODULE Text --------------------------------
(***************************************************************************)
(* What clients send, and that the server's readers (Base64, Percent,      *)
(* Request, DocRoot) take it for what it is.  A client has bytes to send,  *)
(* as credentials or as a parameter, or composes a request; the states are *)
(* the inputs, which grow symbol by symbol.                                *)
(***************************************************************************)
EXTENDS Base64, Percent, DocRoot

CONSTANTS Alphabets,    \* bounds: which bytes occur together, up to which length
          Tokens,       \* what the texts of requests consist of
          SentMethods, SentVersions, TargetPieces, SentHeaders, SentBodies,
          MaxTarget, ShortTarget, MaxHeaders   \* bounds on a request

ASSUME AlphabetsAssumption ==
    \A a \in Alphabets : a.bytes \subseteq Bytes /\ a.max \in Nat
ASSUME TextBounds == {MaxTarget, ShortTarget, MaxHeaders} \subseteq Nat

\* What blanks and line ends separate is free of them.
Words == Tokens \ {Blank, CRLF}
ASSUME TokensAssumption ==
    {Blank, CRLF, "/", "*", "HTTP/", "1.1", "GET", "POST", "HEAD", "Cookie:", "session_id=", Semicolon,
     "?", "&", "="} \subseteq Tokens
ASSUME EndingsAssumption == \A m \in ToSet(Methods) : EndingIn[m] \subseteq Words
ASSUME SentAssumption ==
    /\ SentMethods \subseteq Words /\ SentVersions \subseteq {"none", "bare", "full"}
    /\ TargetPieces \subseteq Seq(Words) /\ SentBodies \subseteq Seq(Tokens)
    /\ \A h \in SentHeaders : h.name \in Words /\ h.value \in Seq(Tokens \ {CRLF})

\* The name of a header that is looked for would be found anywhere: it stands
\* only where a header begins, and white space before a value is skipped.
ASSUME HeaderAssumption ==
    LET others == Tokens \ EchoHeaders
    IN  /\ SentMethods \subseteq others /\ TargetPieces \subseteq Seq(others)
        /\ \A h \in SentHeaders : h.value \in Seq(others)
ASSUME BodyAssumption == SentBodies \subseteq Seq(Tokens \ EchoHeaders)
ASSUME ValueAssumption == \A h \in SentHeaders : h.value = <<>> \/ h.value[1] # Blank

VARIABLES bytes,  \* what is to be sent as credentials, parameter or code
          message \* the request composed so far

textVars == <<bytes, message>>

Nothing == [method |-> "GET", target |-> <<>>, version |-> "none",
            headers |-> <<>>, body |-> <<>>]

TextInit == bytes = <<>> /\ message = Nothing

\* Padding, once begun, is all that follows; other bytes mix freely.
Type(c) == /\ message = Nothing
           /\ \E a \in Alphabets :
                /\ ToSet(bytes) \cup {c} \subseteq a.bytes
                /\ Len(bytes) < a.max
           /\ Contains(bytes, Pad) => c = Pad
           /\ bytes' = Append(bytes, c)
           /\ UNCHANGED message

StartLine(m, v, t) ==
    /\ bytes = <<>> /\ message = Nothing
    /\ message' = [message EXCEPT !.method = m, !.version = v, !.target = <<t>>]
    /\ UNCHANGED bytes

ExtendTarget(p) ==
    /\ Len(message.target) \in 1 .. MaxTarget - 1
    /\ message.headers = <<>> /\ message.body = <<>>
    /\ message' = [message EXCEPT !.target = Append(@, p)]
    /\ UNCHANGED bytes

AddHeader(h) ==
    /\ Len(message.target) \in 1 .. ShortTarget
    /\ Len(message.headers) < MaxHeaders /\ message.body = <<>>
    /\ message' = [message EXCEPT !.headers = Append(@, h)]
    /\ UNCHANGED bytes

AddBody(b) ==
    /\ Len(message.target) \in 1 .. ShortTarget
    /\ message.body = <<>>
    /\ message' = [message EXCEPT !.body = b]
    /\ UNCHANGED bytes

Complete == UNCHANGED textVars

TextNext == \/ \E c \in UNION {a.bytes : a \in Alphabets} : Type(c)
            \/ \E m \in SentMethods, v \in SentVersions, t \in {<<"/">>, <<"*">>} : StartLine(m, v, t)
            \/ \E p \in TargetPieces : ExtendTarget(p)
            \/ \E h \in SentHeaders : AddHeader(h)
            \/ \E b \in SentBodies : AddBody(b)
            \/ Complete

TextSpec == TextInit /\ [][TextNext]_textVars
-----------------------------------------------------------------------------
(* Credentials and codes. *)

\* What a client sends is what authenticate() compares: Basic credentials come
\* out of extract_username_password() (utils.cpp:108-139) as user and password,
\* whatever bytes but NUL they consist of, and colons in the password; without
\* any colon they are refused, and no such header throws.
CredentialsSurvive ==
    bytes # <<>> /\ ~Contains(bytes, Nul) =>
        LET got == ExtractUsernamePassword(BasicPrefix \o Encode(bytes))
        IN  IF Contains(bytes, Colon)
            THEN /\ got.result = "true"
                 /\ ~Contains(got.username, Colon)
                 /\ bytes = got.username \o <<Colon>> \o got.password
            ELSE got.result = "false"

\* Bit i, from the left, of a number of that many bits, 8 at most.
Bit(number, width, i) ==
    (number \div <<128, 64, 32, 16, 8, 4, 2, 1>>[8 - width + i + 1]) % 2

\* Bytes go by quartets (base64.cpp:84-99): four letters of a text, padded at
\* its end only, decode to their own 24 bits, although a character outside the
\* alphabet spills from its sextet over the others of its quartet.
QuartetsDecodeAlone ==
    /\ bytes # <<>> /\ Decodable(bytes)
    /\ \A i \in 1 .. Len(bytes) - 2 : bytes[i] # Pad
    => \A q \in 0 .. Len(bytes) \div 4 - 1 :
          (\A k \in 1 .. 4 : bytes[4 * q + k] \in Letters) =>
              \A n \in 0 .. 23 :
                  Bit(Decode(bytes)[3 * q + n \div 8 + 1], 8, n % 8)
                      = Bit(DecodingTable[bytes[4 * q + n \div 6 + 1]], 6, n % 6)

HexDigit(n, upper) == IF n < 10 THEN 48 + n ELSE IF upper THEN 55 + n ELSE 87 + n
PercentEncode(text, upper) ==
    FlattenSeq([i \in DOMAIN text |->
        IF text[i] \in Letters \ {PlusSign, 47} THEN <<text[i]>>
        ELSE <<PercentSign, HexDigit(text[i] \div 16, upper), HexDigit(text[i] % 16, upper)>>])

\* Both readers of escapes give back what a client has escaped, line ends and
\* percent signs included, and the buffer that estimate_decoded_length() sizes
\* for decode_status_param() is full to the byte (admin.cpp:76-81).
EscapedTextComesBack ==
    \A upper \in BOOLEAN :
        LET escaped == PercentEncode(bytes, upper)
        IN  /\ UrlDecode(escaped) = bytes
            /\ DecodeStatusParam(escaped \o <<13, 10>>) = bytes
            /\ EstimateDecodedLength(escaped \o <<13, 10>>) = Len(bytes)
-----------------------------------------------------------------------------
(* Requests. *)

FullVersion == <<Blank, "HTTP/", "1.1">>
VersionText == [none |-> <<>>, bare |-> Version, full |-> FullVersion]
Target == FlattenSeq(message.target)
HeaderText == FlattenSeq([i \in DOMAIN message.headers |->
                            <<message.headers[i].name, Blank>> \o message.headers[i].value \o <<CRLF>>])
Rest == HeaderText \o <<CRLF>> \o message.body
Raw == <<message.method, Blank>> \o Target \o VersionText[message.version] \o <<CRLF>> \o Rest

Has(text, s) == Find(text, s, 1) # 0
Composed == message # Nothing

\* The method that the request line is taken for: one that its word ends in.
Taken == {m \in ToSet(Methods) : message.method \in EndingIn[m] /\ Target[1] = "/"}

\* Something that reads like a request line follows the request line.
Misleading == Has(Rest, Version) \/ \E m \in ToSet(Methods) : FindMethod(Rest, m) # 0

\* "method holds the request-line token when the line was well-formed but the
\* method is unsupported (caller answers 405), or "" when the line is malformed
\* (caller answers 400)" (http/request.h:25-29): unless something else in the
\* request reads like a request line, and but for a word that ends in a
\* supported method, which is served as that one.  Of a method it serves, the
\* server takes any " HTTP/" for a version.
RequestLineDecides ==
    Composed /\ ~Misleading =>
        CASE message.version = "none" -> Verdict(Raw) = "400"
          [] message.version # "none" /\ Taken # {} ->
                 Verdict(Raw) = "served" /\ \A m \in Taken : Parse(Raw).method = <<m>>
          [] message.version = "full" /\ Taken = {} ->
                 Verdict(Raw) = "405" /\ Parse(Raw).method = <<message.method>>
          [] OTHER -> Verdict(Raw) = "400"

\* How a browser shows escaped text.
Entity == [e \in {"amp;", "lt;", "gt;", "quot;"} |->
             CASE e = "amp;" -> "&" [] e = "lt;" -> "<" [] e = "gt;" -> ">" [] OTHER -> "quote"]
Shown(text) ==
    LET from[i \in 1 .. Len(text) + 2] ==
          IF i > Len(text) THEN <<>>
          ELSE IF text[i] = "&" /\ i < Len(text) /\ text[i + 1] \in DOMAIN Entity
               THEN <<Entity[text[i + 1]]>> \o from[i + 2]
          ELSE <<text[i]>> \o from[i + 1]
    IN  from[1]

SentPath == LET q == Find(Target, <<"?">>, 1) IN IF q = 0 THEN Target ELSE Before(Target, q)
SentQuery == LET q == Find(Target, <<"?">>, 1) IN IF q = 0 THEN <<>> ELSE After(Target, q)

\* A parameter: a stretch of the query between ampersands, with a '=', and the
\* last such stretch of its key.
PairOf(s) == SubSeq(SentQuery, s[1] + 1, s[2] - 1)
Stretches ==
    {s \in (0 .. Len(SentQuery)) \X (1 .. Len(SentQuery) + 1) :
        /\ s[1] = 0 \/ (s[1] > 0 /\ SentQuery[s[1]] = "&")
        /\ s[2] = Len(SentQuery) + 1 \/ (s[2] <= Len(SentQuery) /\ SentQuery[s[2]] = "&")
        /\ s[1] < s[2] /\ ~Contains(PairOf(s), "&") /\ Contains(PairOf(s), "=")}
KeyOf(s) == Before(PairOf(s), Find(PairOf(s), <<"=">>, 1))
SentParams == {<<KeyOf(s), After(PairOf(s), Find(PairOf(s), <<"=">>, 1))>> :
                 s \in {s \in Stretches : \A t \in Stretches : KeyOf(t) = KeyOf(s) => t[1] <= s[1]}}

\* The value of the first header of that name.
SentHeader(name) ==
    LET i == SelectInSeq(message.headers, LAMBDA h : h.name = name)
    IN  IF i = 0 THEN <<>> ELSE message.headers[i].value

\* "Reports what the server actually saw on the wire" (handlers/echo.cpp:3-5),
\* through two readers of the query and an escape: the page shows the method,
\* path, query, parameters and headers that were sent and no markup but its
\* own.  Headers without a value, the root (an empty path), doubled first
\* slashes and the beginning of a word that ends in a supported method are not
\* reported as they were sent.
EchoReportsRequest ==
    Composed /\ ~Misleading /\ Verdict(Raw) = "served" =>
        LET page == EchoPage(Raw)
            Plain(text) == ToSet(text) \cap {"<", ">", "quote"} = {}
        IN  /\ \A m \in Taken : Shown(page.method) = <<m>>
            /\ \/ Shown(page.uri) = SentPath
               \/ SentPath = <<"/">> \/ SubSeq(SentPath, 1, 2) = <<"/", "/">>
            /\ Shown(page.query) = SentQuery
            /\ {<<Shown(p[1]), Shown(p[2])>> : p \in page.params} = SentParams
            /\ (\A i \in DOMAIN message.headers : message.headers[i].value # <<>>) =>
                   \A h \in EchoHeaders : Shown(page.headers[h]) = SentHeader(h)
            /\ Plain(page.uri) /\ Plain(page.query)
            /\ \A p \in page.params : Plain(p[1]) /\ Plain(p[2])
            /\ \A h \in EchoHeaders : Plain(page.headers[h])

\* A reference to another host, whose name follows (RFC 3986, section 4.2).
NetworkPath(location) == Len(location) > 1 /\ SubSeq(location, 1, 2) = <<"/", "/">>

\* "A directory requested without its trailing slash gets a 301 redirect"
\* (static_files.cpp:289), and whoever follows it gets the index or the listing
\* of that directory and is not sent on: "the root URL serves the directory
\* index instead of bouncing to itself" (:255).  Only who asked with a doubled
\* first slash may be sent to another host instead.  Paths that are not
\* printable, or end in dots behind a name that does not exist, get the
\* directory at once.
RedirectArrives ==
    Composed /\ ~Misleading /\ Verdict(Raw) = "served" =>
        LET r == ServeStatic(Parse(Raw).path)
            again == <<message.method, Blank>> \o r.location \o FullVersion
            arrived == ServeStatic(Parse(again).path)
        IN  /\ r.kind = "301" =>
                   \/ ~NetworkPath(r.location) /\ arrived.kind \in {"index", "listing"}
                                              /\ arrived.at = r.at
                   \/ NetworkPath(r.location) /\ NetworkPath(SentPath)
            /\ r.kind \in {"index", "listing"} =>
                   \/ Last(SentPath) = "/"
                   \/ ~Redirectable(SentPath)
                   \/ Walk(SentPath).lost /\ Last(Names(SentPath)) \in Dots

\* A session cookie comes back as it was set (session_manager.cpp:33-55),
\* wherever it stands among other cookies, provided that a semicolon of the
\* Cookie header ends it or none follows in the request at all; and a request
\* that names no session has none.
SessionIsRead ==
    LET value == SentHeader("Cookie:")
        start == Find(value, <<"session_id=">>, 1)
        stop == Find(value, <<Semicolon>>, start)
        RestOf(text, s) == After(text, Find(text, <<s>>, 1))
    IN  /\ start # 0 /\ stop # 0 =>
               GetSessionIdFromCookie(Raw) = SubSeq(value, start + 1, stop - 1)
        /\ start # 0 /\ ~Contains(RestOf(Raw, "session_id="), Semicolon) =>
               GetSessionIdFromCookie(Raw) = After(value, start)
        /\ ~Contains(Raw, "session_id=") => GetSessionIdFromCookie(Raw) = <<>>
=============================================================================
