------------------------------- MODULE Request -------------------------------
(***************************************************************************)
(* What the server reads out of the text of a request: HttpRequest::parse()*)
(* of src/http/request.cpp, the header and query readers of src/utils.cpp, *)
(* the session cookie of src/session_manager.cpp, and the echo page of     *)
(* src/handlers/echo.cpp, which reports all of them.                       *)
(*                                                                         *)
(* A text is a sequence of tokens.  The searches below look for sequences  *)
(* of tokens none of which occurs inside another token, but for methods,   *)
(* which are found at the end of longer words too.                         *)
(***************************************************************************)
EXTENDS Integers, Sequences, SequencesExt

CONSTANT EndingIn   \* for each method, the words that end in it

CRLF == "crlf"
Blank == "blank"
Semicolon == "semicolon"
Methods == <<"GET", "POST", "HEAD">>
Version == <<Blank, "HTTP/">>

\* A method ends in itself, and no word ends in two of them.
ASSUME EndingInAssumption ==
    \A m, n \in ToSet(Methods) :
        m \in EndingIn[m] /\ (m # n => EndingIn[m] \cap EndingIn[n] = {})

\* The first position of s in text, not before `from`; 0 for npos.
Find(text, s, from) ==
    LET at == {i \in from .. Len(text) - Len(s) + 1 : SubSeq(text, i, i + Len(s) - 1) = s}
    IN  IF at = {} THEN 0 ELSE Min(at)

\* strstr() for "GET /" and the like: the first word that ends in the method,
\* before a blank and a slash.
FindMethod(text, method) ==
    LET at == {i \in 1 .. Len(text) - 2 :
                  text[i] \in EndingIn[method] /\ text[i + 1] = Blank /\ text[i + 2] = "/"}
    IN  IF at = {} THEN 0 ELSE Min(at)

Before(text, i) == SubSeq(text, 1, i - 1)
After(text, i) == SubSeq(text, i + 1, Len(text))
-----------------------------------------------------------------------------
\* extract_method_token(): the first word of a line of three whose third is
\* a version with something after the slash; else nothing.
ExtractMethodToken(raw) ==
    LET eol == Find(raw, <<CRLF>>, 1)
        line == IF eol = 0 THEN raw ELSE Before(raw, eol)
        sp1 == Find(line, <<Blank>>, 1)
        sp2 == Find(line, <<Blank>>, sp1 + 1)
    IN  IF sp1 > 1 /\ sp2 # 0 /\ Len(line) > sp2 + 1 /\ line[sp2 + 1] = "HTTP/"
        THEN Before(line, sp1)
        ELSE <<>>

\* "Normalize the path to start with '/'", which most offsets have skipped.
Normalize(path) ==
    IF path = <<>> \/ path[1] = "/" THEN path ELSE <<"/">> \o path

Unparsed(raw) == [ok |-> FALSE, method |-> ExtractMethodToken(raw), path |-> <<>>, query |-> <<>>]

\* Faulty variant: the method found before the version was missed is kept.
UnversionedKept(raw, m) == [Unparsed(raw) EXCEPT !.method = <<Methods[m]>>]

\* A method without a version: the method found is not trusted.
Unversioned(raw, m) == Unparsed(raw)

\* parse(): GET is searched in the whole request, inside words too, then POST,
\* then HEAD; the path extends to the next version.  HEAD has the offset of GET, one less than
\* its own length: its slash stays.  Paths are short enough for clean_path.
Parse(raw) ==
    LET starts == [m \in 1 .. 3 |-> FindMethod(raw, Methods[m])]
        m == SelectInSeq(starts, LAMBDA i : i # 0)
        start == starts[m]
        end == Find(raw, Version, start)
        target == SubSeq(raw, start + (IF m = 3 THEN 2 ELSE 3), end - 1)
        qmark == Find(target, <<"?">>, 1)
    IN  IF m = 0 THEN Unparsed(raw) ELSE IF end = 0 THEN Unversioned(raw, m)
        ELSE [ok |-> TRUE, method |-> <<Methods[m]>>,
              path |-> Normalize(IF qmark = 0 THEN target ELSE Before(target, qmark)),
              query |-> IF qmark = 0 THEN <<>> ELSE After(target, qmark)]

\* How dispatch() answers what cannot be parsed.
Verdict(raw) == CASE Parse(raw).ok -> "served"
                  [] ~Parse(raw).ok /\ Parse(raw).method # <<>> -> "405"
                  [] OTHER -> "400"
-----------------------------------------------------------------------------
\* extract_header_value(): the value starts after white space, line ends
\* included, and goes on to the next line end.
ExtractHeaderValue(raw, name) ==
    LET pos == Find(raw, <<name>>, 1)
        value == SelectInSubSeq(raw, pos + 1, Len(raw), LAMBDA c : c \notin {Blank, CRLF})
        eol == Find(raw, <<CRLF>>, value)
    IN  IF pos = 0 \/ value = 0 THEN <<>>
        ELSE SubSeq(raw, value, IF eol = 0 THEN Len(raw) ELSE eol - 1)

\* The pieces of a text between separators, as std::getline() yields them: one
\* starts at the start of the text or behind a separator, unless the text is
\* over there, and goes on to the next separator.
StartsPiece(text, separator, i) == i = 1 \/ text[i - 1] = separator
PieceFrom(text, separator, i) ==
    LET end == Find(text, <<separator>>, i)
    IN  SubSeq(text, i, IF end = 0 THEN Len(text) ELSE end - 1)

NoParams == [key \in {} |-> <<>>]

\* Faulty variant: the first of two values of one key is kept.
KeepFirstParam(params, pair) ==
    LET eq == Find(pair, <<"=">>, 1)
        key == Before(pair, eq)
    IN  IF eq = 0 \/ key \in DOMAIN params THEN params
        ELSE [k \in DOMAIN params \cup {key} |-> IF k = key THEN After(pair, eq) ELSE params[k]]

\* `query_params[key] = value`, for a pair that has a '='.
AddParam(params, pair) ==
    LET eq == Find(pair, <<"=">>, 1)
        key == Before(pair, eq)
    IN  IF eq = 0 THEN params
        ELSE [k \in DOMAIN params \cup {key} |-> IF k = key THEN After(pair, eq) ELSE params[k]]

\* The loop over the pieces, by the positions of the query.
ParamsOf(query) ==
    LET params[i \in 0 .. Len(query)] ==
          IF i = 0 THEN NoParams
          ELSE IF StartsPiece(query, "&", i)
               THEN AddParam(params[i - 1], PieceFrom(query, "&", i))
          ELSE params[i - 1]
    IN  params[Len(query)]

\* extract_query_parameters(): of the text between the first two spaces.
ExtractQueryParameters(raw) ==
    LET start == Find(raw, <<Blank>>, 1)
        end == Find(raw, <<Blank>>, start + 1)
        target == SubSeq(raw, start + 1, end - 1)
        qmark == Find(target, <<"?">>, 1)
    IN  IF start = 0 \/ end = 0 \/ qmark = 0 THEN NoParams
        ELSE ParamsOf(After(target, qmark))

\* Faulty variant: the cookie ends with its line if it does, and only else
\* at a semicolon.
SessionIdByLine(raw) ==
    LET cookie == Find(raw, <<"Cookie:">>, 1)
        session == Find(raw, <<"session_id=">>, cookie)
        eol == Find(raw, <<CRLF>>, session)
    IN  IF cookie = 0 \/ session = 0 \/ eol = 0 THEN <<>> ELSE SubSeq(raw, session + 1, eol - 1)

\* get_session_id_from_cookie(): up to the next semicolon, wherever it is,
\* else to the end of the line.
GetSessionIdFromCookie(raw) ==
    LET cookie == Find(raw, <<"Cookie:">>, 1)
        session == Find(raw, <<"session_id=">>, cookie)
        semicolon == Find(raw, <<Semicolon>>, session)
        end == IF semicolon # 0 THEN semicolon ELSE Find(raw, <<CRLF>>, session)
    IN  IF cookie = 0 \/ session = 0 \/ end = 0 THEN <<>> ELSE SubSeq(raw, session + 1, end - 1)
-----------------------------------------------------------------------------
\* html_escape(): character by character.
HtmlEscape(text) ==
    FlattenSeq([i \in DOMAIN text |-> CASE text[i] = "&" -> <<"&", "amp;">>
                                        [] text[i] = "<" -> <<"&", "lt;">>
                                        [] text[i] = ">" -> <<"&", "gt;">>
                                        [] text[i] = "quote" -> <<"&", "quot;">>
                                        [] OTHER -> <<text[i]>>])

EchoHeaders == {"Host:", "Cookie:", "Accept:"}

\* echo_request(): the fields of the page that depend on the request.
EchoPage(raw) ==
    LET req == Parse(raw)
        params == ExtractQueryParameters(raw)
    IN  [method |-> HtmlEscape(req.method), uri |-> HtmlEscape(req.path),
         query |-> HtmlEscape(req.query),
         params |-> {<<HtmlEscape(k), HtmlEscape(params[k])>> : k \in DOMAIN params},
         headers |-> [h \in EchoHeaders |-> HtmlEscape(ExtractHeaderValue(raw, h))]]
=============================================================================
