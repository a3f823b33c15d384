------------------------------- MODULE MCText -------------------------------
(* Small instances of Text.                                                *)
EXTENDS Text

\* Bytes of every kind: NUL, CR, '%', '+', ':', a letter, a byte above 127;
\* and texts of two quartets: 'l' (100101), '/' (111111), '=', a space.
Kinds == [bytes |-> {0, 13, 37, 43, 58, 97, 200}, max |-> 4]
Quartets == [bytes |-> {108, 47, 61, 32}, max |-> 8]
MCAlphabets == {Kinds, Quartets}

MCLeftover(position) == 200

MCPieces == {<<"a">>, <<"/">>, <<"?">>, <<"&">>, <<"<">>, <<"a", "=", "b">>, <<"a", "=", "=">>,
             <<"..">>, <<"e'">>}

MCEndingIn == [GET |-> {"GET", "FORGET"}, POST |-> {"POST"}, HEAD |-> {"HEAD"}]

\* A root and a directory with an index, one without, one with an accent in
\* its name, and a file.
MCDirectories == {<<>>, <<<<"a">>>>, <<<<"a">>, <<"a">>>>, <<<<"e'">>>>}
MCFiles == {<<IndexDoc>>, <<<<"a">>, IndexDoc>>, <<<<"a", "a">>>>}

Header(n, v) == [name |-> n, value |-> v]
MCHeaders == {Header("Host:", <<"a">>), Header("Accept:", <<>>),
              Header("Accept:", <<"<", "&", "amp;", "quote">>), Header("Referer:", <<"GET", Blank, "/", "a">>),
              Header("Cookie:", <<"session_id=", "S">>),
              Header("Cookie:", <<"a", "=", "b", Semicolon, Blank, "session_id=", "S">>),
              Header("Cookie:", <<"session_id=", "S", Semicolon, Blank, "a", "=", "b">>)}
MCBodies == {<<"a", Semicolon>>, <<"POST", Blank, "/">>, <<"session_id=", "T">>}

MCTokens == {Blank, CRLF, "/", "*", "HTTP/", "1.1", "GET", "POST", "HEAD", "PUT", "FORGET", "Host:", "Accept:",
             "Referer:", "Cookie:", "session_id=", Semicolon, "a", "b", "S", "T", "?", "&", "=", "<",
             "amp;", "quote", "..", "e'"}
=============================================================================
