\* Byte strings of four of seven kinds, base64 texts of two quartets; request
\* lines with targets of five pieces over a small document tree, and two headers
\* and a body after short ones.
SPECIFICATION TextSpec
CONSTANTS
    Alphabets <- MCAlphabets
    Leftover <- MCLeftover
    Tokens <- MCTokens
    EndingIn <- MCEndingIn
    SentMethods = {"GET", "POST", "HEAD", "PUT", "FORGET"}
    SentVersions = {"none", "bare", "full"}
    TargetPieces <- MCPieces
    SentHeaders <- MCHeaders
    SentBodies <- MCBodies
    Directories <- MCDirectories
    FilesThere <- MCFiles
    Unprintable = {"e'"}
    MaxTarget = 5
    ShortTarget = 2
    MaxHeaders = 2
INVARIANTS
    CredentialsSurvive
    QuartetsDecodeAlone
    EscapedTextComesBack
    RequestLineDecides
    EchoReportsRequest
    RedirectArrives
    SessionIsRead
