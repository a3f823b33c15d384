------------------------------- MODULE DocRoot -------------------------------
(***************************************************************************)
(* How serve_static() of src/handlers/static_files.cpp maps the path of a  *)
(* request into the document root, and serve_file() to a file in it.       *)
(* Paths are texts of Request; the tree is given by its directories and    *)
(* files, each the sequence of the names that lead to it from the document *)
(* root.  There are no symbolic links in it.                               *)
(***************************************************************************)
EXTENDS Request

CONSTANTS Directories, \* the directories below the document root, <<>> itself
          FilesThere,  \* the regular files
          Unprintable  \* the tokens with a byte outside 0x21 .. 0x7e

ASSUME TreeAssumption ==
    /\ <<>> \in Directories /\ Directories \cap FilesThere = {}
    /\ \A p \in Directories \cup FilesThere : p = <<>> \/ Front(p) \in Directories

IndexDoc == <<"index.html">>
Exists(at) == at \in Directories \cup FilesThere
Dots == {<<".">>, <<"..">>}

\* The names in a path: the pieces between slashes that are not empty.
Names(path) ==
    FlattenSeq([i \in DOMAIN path |->
        IF StartsPiece(path, "/", i) /\ path[i] # "/" THEN <<PieceFrom(path, "/", i)>> ELSE <<>>])

\* The root's own path is empty after parse(): it gets its slash back.
Joined(path) == IF path = <<>> THEN <<"/">> ELSE path

\* weakly_canonical(): name by name, `..` taking back the name before it.  From
\* the first name that is not found (`lost`) the rest is only put in normal
\* form.  What climbs above the document root is somewhere else.
Start == [at |-> <<>>, lost |-> FALSE, outside |-> FALSE]
Go(walk, name) ==
    LET to == CASE name = <<".">> -> walk.at
                [] name = <<"..">> /\ walk.at # <<>> -> Front(walk.at)
                [] name = <<"..">> /\ walk.at = <<>> -> <<>>
                [] OTHER -> Append(walk.at, name)
    IN  [at |-> to,
         lost |-> walk.lost \/ (IF name \in Dots THEN walk.at \notin Directories ELSE ~Exists(to)),
         outside |-> walk.outside \/ (name = <<"..">> /\ walk.at = <<>>)]
WalkAlong(names) == FoldLeft(Go, Start, names)
Walk(path) == WalkAlong(Names(Joined(path)))

\* Faulty variant: the slash that weakly_canonical() drops is not put back.
SlashNotRestored(path) == Walk(path).lost /\ Last(Names(Joined(path))) \in Dots

\* The path ends with a slash: its own, restored after weakly_canonical(), or
\* the one that the normal form has after a dot name that was not looked up.
Slashed(path) == \/ Last(Joined(path)) = "/"
                 \/ Walk(path).lost /\ Last(Names(Joined(path))) \in Dots

Redirectable(path) == ToSet(path) \cap Unprintable = {}

\* serve_file(): a file, which takes no slash after its name, the index or the
\* listing of a directory, or a 404.
Found(at, slashed) ==
    CASE at \in Directories /\ Append(at, IndexDoc) \in FilesThere -> "index"
      [] at \in Directories /\ Append(at, IndexDoc) \notin FilesThere -> "listing"
      [] at \in FilesThere /\ ~slashed -> "file"
      [] OTHER -> "404"

\* serve_static(): a directory without its slash redirects to itself with one.
ServeStatic(path) ==
    LET at == Walk(path).at
        redirect == at \in Directories /\ ~Slashed(path) /\ Redirectable(path)
    IN  [kind |-> CASE Walk(path).outside -> "elsewhere"
                    [] ~Walk(path).outside /\ redirect -> "301"
                    [] OTHER -> Found(at, Slashed(path)),
         at |-> at, location |-> Append(path, "/")]
=============================================================================
