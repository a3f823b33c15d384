-------------------------------- MODULE Site --------------------------------
(***************************************************************************)
(* The files below <docroot>/deploy: /admin/deploy_site                    *)
(* (src/handlers/deploy.cpp) writes them from an archive, entry by entry   *)
(* and in place, while src/handlers/static_files.cpp reads them for        *)
(* clients that keep copies and revalidate these with If-Modified-Since.   *)
(*                                                                         *)
(* A path is the sequence of its components below deploy/, a file the      *)
(* sequence of its blocks and a modification time in seconds.  Nothing     *)
(* removes a file, and opening with "wb" truncates it in place, so that a  *)
(* path stands for its file.                                               *)
(***************************************************************************)
EXTENDS Naturals, Sequences, FiniteSets, SequencesExt

CONSTANTS Deployers, \* requests for /admin/deploy_site
          Archive,   \* the entries of each deployer's archive, see Entry
          Clients,   \* clients that download, with a copy of each file
          Asked,     \* the paths they ask for
          MaxGets,   \* bound on the downloads of a client
          MaxSecond, \* bound on the clock
          Hole,      \* a block that was never written: zeros
          MayFill    \* deployers to whom the disk may be full, or no descriptor left

\* An entry is a directory, a file, or one that miniz cannot extract.
Kinds == {"directory", "file", "corrupt"}
IsEntry(e) == e.path # <<>> /\ Hole \notin ToSet(e.blocks)

ASSUME ArchiveAssumption ==
    /\ DOMAIN Archive = Deployers
    /\ \A d \in Deployers :
         /\ Archive[d] \in Seq([kind : Kinds, path : Seq(STRING), blocks : Seq(STRING)])
         /\ \A k \in DOMAIN Archive[d] : IsEntry(Archive[d][k])
ASSUME BoundsAssumption == {MaxGets, MaxSecond} \subseteq Nat /\ MayFill \subseteq Deployers

Entries == UNION {ToSet(Archive[d]) : d \in Deployers}
Paths == {e.path : e \in {f \in Entries : f.kind # "directory"}}

ASSUME AskedAssumption == Asked \subseteq Paths

VARIABLES now,       \* the clock, in seconds
          dirs,      \* the directories that exist, as paths; <<>> is deploy/
          content,   \* the blocks of each file that exists
          mtime,     \* and its modification time
          at, entry, \* where each deployer is, and at which entry
          written,   \* how many blocks of the entry it has written
          extracted, \* extracted_count
          full,      \* history: the entries for which the disk was full or no
                     \* descriptor was left
          tails,     \* history: how many it has counted and yet lost in part
          opened,    \* history: the entries whose files it has opened
          get,       \* the download under way of each client, see NoGet
          copy,      \* the copies each client keeps
          gets,
          seen,      \* history: the second at which each file was last examined
          racy,      \* history: files written under a download, or in the
                     \* second in which they had been examined
          overlapped \* history: two deployments were once under way together

files == <<content, mtime>>
deployVars == <<dirs, at, entry, written, extracted, full, tails, opened, overlapped>>
getVars == <<get, copy, gets, seen>>
vars == <<now, files, deployVars, getVars, racy>>

Never == MaxSecond + 1
NoCopy == [blocks |-> <<>>, mtime |-> Never]
NoGet == [at |-> "idle", path |-> <<>>, size |-> 0, mtime |-> Never, body |-> <<>>]
Exists(p) == p \in DOMAIN content
Busy == {d \in Deployers : at[d] \notin {"start", "done", "refused"}}
Downloading(p) == {c \in Clients : get[c].at \in {"examined", "read"} /\ get[c].path = p}

Init == /\ now = 0
        /\ dirs = {}
        /\ content = [p \in {} |-> <<>>]
        /\ mtime = [p \in {} |-> 0]
        /\ at = [d \in Deployers |-> "start"]
        /\ entry = [d \in Deployers |-> 1]
        /\ written = [d \in Deployers |-> 0]
        /\ extracted = [d \in Deployers |-> 0]
        /\ full = [d \in Deployers |-> {}]
        /\ tails = [d \in Deployers |-> 0]
        /\ opened = [d \in Deployers |-> {}]
        /\ get = [c \in Clients |-> NoGet]
        /\ copy = [c \in Clients |-> [p \in Asked |-> NoCopy]]
        /\ gets = [c \in Clients |-> 0]
        /\ seen = [p \in Asked |-> Never]
        /\ racy = {}
        /\ overlapped = FALSE

Tick == /\ now < MaxSecond
        /\ now' = now + 1
        /\ UNCHANGED <<files, deployVars, getVars, racy>>
-----------------------------------------------------------------------------
(* deploy_site(). *)

Move(d, place) == at' = [at EXCEPT ![d] = place]
Current(d) == Archive[d][entry[d]]
RanOut(d) == full' = [full EXCEPT ![d] = @ \cup {entry[d]}]
NextEntry(d) == entry' = [entry EXCEPT ![d] = @ + 1] /\ written' = [written EXCEPT ![d] = 0]

\* Whatever writes a file sets its time, and may do so too late for somebody.
Write(p, blocks) ==
    /\ content' = [q \in DOMAIN content \cup {p} |-> IF q = p THEN blocks ELSE content[q]]
    /\ mtime' = [q \in DOMAIN mtime \cup {p} |-> IF q = p THEN now ELSE mtime[q]]
    /\ racy' = IF p \in Asked /\ (Downloading(p) # {} \/ seen[p] = now)
               THEN racy \cup {p} ELSE racy

\* ensure_deploy_directory(), whose mkdir() may fail unnoticed: then there is
\* no place for any entry.
Ensure(d) == /\ at[d] = "start"
             /\ \/ dirs' = dirs \cup {<<>>} /\ UNCHANGED full
                \/ /\ d \in MayFill /\ <<>> \notin dirs
                   /\ full' = [full EXCEPT ![d] = DOMAIN Archive[d]]
                   /\ UNCHANGED dirs
             /\ overlapped' = (overlapped \/ Busy # {})
             /\ Move(d, "entry")
             /\ UNCHANGED <<now, files, entry, written, extracted, tails, opened, getVars, racy>>

\* A missing or impossible length, no body, no memory; or, with the directory
\* made by then, no archive in the body.
Refuse(d) == /\ at[d] = "start"
             /\ dirs' \in {dirs, dirs \cup {<<>>}}
             /\ Move(d, "refused")
             /\ UNCHANGED <<now, files, entry, written, extracted, full, tails, opened, overlapped,
                            getVars, racy>>

\* Directories are skipped, and so is what cannot be extracted.
SkipEntry(d) == /\ at[d] = "entry"
                /\ entry[d] <= Len(Archive[d])
                /\ Current(d).kind # "file"
                /\ NextEntry(d)
                /\ UNCHANGED <<now, files, dirs, at, extracted, full, tails, opened, overlapped, getVars, racy>>

\* Faulty variant: no directory is made.
MakeNone(d) == /\ at[d] = "entry"
               /\ entry[d] <= Len(Archive[d])
               /\ Current(d).kind = "file"
               /\ Move(d, "open")
               /\ UNCHANGED <<now, files, dirs, entry, written, extracted, full, tails, opened, overlapped,
                              getVars, racy>>

\* write_file(): mkdir() of the parent, which takes a grandparent; "creating
\* parent directories if needed", but one level only.  Its result is ignored,
\* whether there is something in the way or no space.
MakeParent(d) ==
    /\ at[d] = "entry"
    /\ entry[d] <= Len(Archive[d])
    /\ Current(d).kind = "file"
    /\ LET parent == Front(Current(d).path)
       IN  \/ /\ dirs' = IF parent = <<>> \/ (Front(parent) \in dirs /\ ~Exists(parent))
                         THEN dirs \cup {parent} ELSE dirs
              /\ UNCHANGED full
           \/ d \in MayFill /\ parent \notin dirs /\ RanOut(d) /\ UNCHANGED dirs
    /\ Move(d, "open")
    /\ UNCHANGED <<now, files, entry, written, extracted, tails, opened, overlapped, getVars, racy>>

\* fopen(path, "wb") takes the directory, and no directory of that name.
CanOpen(p) == Front(p) \in dirs /\ p \notin dirs

OpenEntry(d) ==
    /\ at[d] = "open"
    /\ CanOpen(Current(d).path)
    /\ Write(Current(d).path, <<>>)
    /\ opened' = [opened EXCEPT ![d] = @ \cup {entry[d]}]
    /\ Move(d, "write")
    /\ UNCHANGED <<now, dirs, entry, written, extracted, full, tails, overlapped, getVars>>

OpenFails(d) ==
    /\ at[d] = "open"
    /\ ~CanOpen(Current(d).path)
    /\ NextEntry(d)
    /\ Move(d, "entry")
    /\ UNCHANGED <<now, files, dirs, extracted, full, tails, opened, overlapped, getVars, racy>>

\* No descriptor is left, or no space for a new file.
OpenRefused(d) ==
    /\ d \in MayFill
    /\ at[d] = "open"
    /\ CanOpen(Current(d).path)
    /\ RanOut(d)
    /\ NextEntry(d)
    /\ Move(d, "entry")
    /\ UNCHANGED <<now, files, dirs, extracted, tails, opened, overlapped, getVars, racy>>

\* What a write at offset k makes of a file that may have become shorter.
Patched(old, k, block) ==
    [i \in 1 .. (IF k > Len(old) THEN k ELSE Len(old)) |->
        IF i = k THEN block ELSE IF i <= Len(old) THEN old[i] ELSE Hole]

WriteBlock(d) ==
    /\ at[d] = "write"
    /\ written[d] < Len(Current(d).blocks)
    /\ LET k == written[d] + 1
       IN  /\ Write(Current(d).path,
                    Patched(content[Current(d).path], k, Current(d).blocks[k]))
           /\ written' = [written EXCEPT ![d] = k]
    /\ UNCHANGED <<now, dirs, at, entry, extracted, full, tails, opened, overlapped, getVars>>

\* Faulty variant: the result of fwrite() is not compared with the size.
ShortWriteCounted(d) ==
    /\ d \in MayFill
    /\ at[d] = "write"
    /\ written[d] < Len(Current(d).blocks)
    /\ RanOut(d)
    /\ extracted' = [extracted EXCEPT ![d] = @ + 1]
    /\ NextEntry(d)
    /\ Move(d, "entry")
    /\ UNCHANGED <<now, files, dirs, tails, opened, overlapped, getVars, racy>>

\* What stdio still buffers after fwrite() is written by fclose(), whose
\* result nobody reads: the entry is counted without its last block.
LoseTail(d) ==
    /\ d \in MayFill
    /\ at[d] = "write"
    /\ written[d] + 1 = Len(Current(d).blocks)
    /\ tails' = [tails EXCEPT ![d] = @ + 1]
    /\ extracted' = [extracted EXCEPT ![d] = @ + 1]
    /\ NextEntry(d)
    /\ Move(d, "entry")
    /\ UNCHANGED <<now, files, dirs, full, opened, overlapped, getVars, racy>>

\* A short fwrite(): the entry is not counted, and its file stays as it is.
ShortWrite(d) ==
    /\ d \in MayFill
    /\ at[d] = "write"
    /\ written[d] < Len(Current(d).blocks)
    /\ RanOut(d)
    /\ NextEntry(d)
    /\ Move(d, "entry")
    /\ UNCHANGED <<now, files, dirs, extracted, tails, opened, overlapped, getVars, racy>>

EntryDone(d) ==
    /\ at[d] = "write"
    /\ written[d] = Len(Current(d).blocks)
    /\ extracted' = [extracted EXCEPT ![d] = @ + 1]
    /\ NextEntry(d)
    /\ Move(d, "entry")
    /\ UNCHANGED <<now, files, dirs, full, tails, opened, overlapped, getVars, racy>>

\* "Deployed %d files to /deploy/"
Report(d) == /\ at[d] = "entry"
             /\ entry[d] > Len(Archive[d])
             /\ Move(d, "done")
             /\ UNCHANGED <<now, files, dirs, entry, written, extracted, full, tails, opened, overlapped,
                            getVars, racy>>

Deploy(d) == \/ Ensure(d) \/ Refuse(d) \/ SkipEntry(d) \/ MakeParent(d)
             \/ OpenEntry(d) \/ OpenFails(d) \/ OpenRefused(d) \/ WriteBlock(d)
             \/ ShortWrite(d) \/ LoseTail(d) \/ EntryDone(d) \/ Report(d)
-----------------------------------------------------------------------------
(* serve_file(). *)

\* fopen() and fstat() of a file that is there; the header declares what
\* fstat() has found.
Examined(c, p) == /\ get' = [get EXCEPT ![c] = [at |-> "examined", path |-> p,
                                                size |-> Len(content[p]),
                                                mtime |-> mtime[p], body |-> <<>>]]
                  /\ seen' = [seen EXCEPT ![p] = now]

Examine(c) == /\ get[c].at = "idle"
              /\ gets[c] < MaxGets
              /\ \E p \in Asked \cap DOMAIN content : Examined(c, p)
              /\ gets' = [gets EXCEPT ![c] = @ + 1]
              /\ UNCHANGED <<now, files, deployVars, copy, racy>>

\* Faulty variant: any If-Modified-Since earns a 304.
NotModifiedSince(c) ==
    /\ get[c].at = "examined"
    /\ IF copy[c][get[c].path] # NoCopy
       THEN get' = [get EXCEPT ![c].at = "304"]
       ELSE get' = [get EXCEPT ![c].at = "read"]
    /\ UNCHANGED <<now, files, deployVars, copy, gets, seen, racy>>

\* "A byte-identical If-Modified-Since earns a 304", anything else the file.
Decide(c) ==
    /\ get[c].at = "examined"
    /\ IF copy[c][get[c].path].mtime = get[c].mtime
       THEN get' = [get EXCEPT ![c].at = "304"]
       ELSE get' = [get EXCEPT ![c].at = "read"]
    /\ UNCHANGED <<now, files, deployVars, copy, gets, seen, racy>>

\* The loop of fread() and send(), up to the end of the file as it is then.
ReadBlock(c) ==
    /\ get[c].at = "read"
    /\ Len(get[c].body) < Len(content[get[c].path])
    /\ get' = [get EXCEPT ![c].body =
                 Append(@, content[get[c].path][Len(get[c].body) + 1])]
    /\ UNCHANGED <<now, files, deployVars, copy, gets, seen, racy>>

\* Faulty variant: a short last block ends the loop before it is sent.
ReadStopsEarly(c) == /\ get[c].at = "read"
                     /\ Len(get[c].body) + 1 >= Len(content[get[c].path])
                     /\ get' = [get EXCEPT ![c].at = "200"]
                     /\ UNCHANGED <<now, files, deployVars, copy, gets, seen, racy>>

ReadEnds(c) == /\ get[c].at = "read"
               /\ Len(get[c].body) >= Len(content[get[c].path])
               /\ get' = [get EXCEPT ![c].at = "200"]
               /\ UNCHANGED <<now, files, deployVars, copy, gets, seen, racy>>

\* A HEAD request ends before the body, and so does a send() that fails.
Leave(c) == /\ get[c].at = "read"
            /\ get' = [get EXCEPT ![c] = NoGet]
            /\ UNCHANGED <<now, files, deployVars, copy, gets, seen, racy>>

\* The client keeps a body of the declared length, cut to it if it is longer.
Keep(c) ==
    /\ get[c].at \in {"200", "304"}
    /\ LET g == get[c]
       IN  copy' = IF g.at = "200" /\ Len(g.body) >= g.size
                   THEN [copy EXCEPT ![c][g.path] = [blocks |-> SubSeq(g.body, 1, g.size),
                                                     mtime |-> g.mtime]]
                   ELSE copy
    /\ get' = [get EXCEPT ![c] = NoGet]
    /\ UNCHANGED <<now, files, deployVars, gets, seen, racy>>

Download(c) == Examine(c) \/ Decide(c) \/ ReadBlock(c) \/ ReadEnds(c)
               \/ Leave(c) \/ Keep(c)
-----------------------------------------------------------------------------
\* Everybody has stopped, whether or not something more may be asked.
Quiet == /\ \A d \in Deployers : at[d] \in {"start", "done", "refused"}
         /\ \A c \in Clients : get[c].at = "idle"
         /\ UNCHANGED vars

Next == \/ Tick
        \/ \E d \in Deployers : Deploy(d)
        \/ \E c \in Clients : Download(c)
        \/ Quiet

Spec == Init /\ [][Next]_vars
-----------------------------------------------------------------------------
\* "fstat() on the open FILE* avoids a TOCTOU window"
\* (static_files.cpp:181-183): the body has the declared Content-Length, of
\* every file that was not written meanwhile; a deployment in place breaks it
\* for the others.
DeclaredLengthSent ==
    \A c \in Clients : get[c].at = "200" /\ get[c].path \notin racy =>
        Len(get[c].body) = get[c].size

\* A 304 is only given to a client whose copy is what the file holds, although
\* times are whole seconds, as long as no file was written under a download
\* or again in the second in which it was examined.
NotModifiedIsTrue ==
    [][\A c \in Clients : get[c].at # "304" /\ get'[c].at = "304" =>
           LET p == get[c].path
           IN  p \in racy \/ copy[c][p].blocks = content[p]]_vars

\* "Deployed %d files to /deploy/" (deploy.cpp:190), also after entries that
\* could not be extracted, opened or written, unless deployments overlap: all
\* that it left on disk in full was counted, and so was what it lost in
\* fclose() (deploy.cpp:57); else only entries were whose files a later entry
\* of the same path has opened again, none if no path is repeated.
SamePath(d, j, k) == Archive[d][j].path = Archive[d][k].path
Replaced(d) == {j \in opened[d] : \E k \in opened[d] : j < k /\ SamePath(d, j, k)}
OnDisk(d) == {k \in opened[d] \ Replaced(d) : content[Archive[d][k].path] = Archive[d][k].blocks}

CountIsOnDisk ==
    \A d \in Deployers :
        at[d] = "entry" /\ entry[d] > Len(Archive[d]) /\ ~overlapped =>
            LET left == Cardinality(OnDisk(d)) + tails[d]
            IN  extracted[d] \in left .. left + Cardinality(Replaced(d))

\* "creating parent directories if needed" (deploy.cpp:39): every file at most
\* one directory deep is counted, whatever other deployments do, unless the disk
\* or the descriptors ran out on it or a name is used for a file and for a
\* directory.  Deeper ones may not, without an entry that makes their parents.
Clash(p) == \E q \in Paths : Front(p) = q \/ (Len(q) > Len(p) /\ SubSeq(q, 1, Len(p)) = p)

Shallow(d) == {k \in DOMAIN Archive[d] :
                  LET e == Archive[d][k]
                  IN  e.kind = "file" /\ Len(e.path) <= 2 /\ ~Clash(e.path)}

ShallowEntriesLand ==
    \A d \in Deployers :
        at[d] = "done" => extracted[d] >= Cardinality(Shallow(d) \ full[d])
=============================================================================
