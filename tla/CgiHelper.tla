------------------------------ MODULE CgiHelper ------------------------------
(***************************************************************************)
(* GET /cgi-helper: handle_cgi_helper() of src/mime_type_handler.cpp and   *)
(* get_cgi_helper_path() of src/utils.cpp, run by several workers of one   *)
(* process, and the echo page, which reports that path.  The path of the   *)
(* staged copy depends on the process only, so that all requests share one *)
(* file name; what a name means is modelled as the file system does it:    *)
(* truncation keeps the file, remove() takes the name away from a file     *)
(* that may still be open or running, a file open for writing is not       *)
(* executed and a running file is not opened for writing.                  *)
(***************************************************************************)
EXTENDS Naturals, FiniteSets

CONSTANTS Requests,   \* requests for /cgi-helper or /echo
          Echoes,     \* those for /echo
          Workers,    \* how many of them run at a time, N_WORKER_THREADS
          Chunks,     \* the helper's size, in blocks of file_buffer
          Installed,  \* whether the helper lies next to the server
          ForkFails,  \* requests during which popen() cannot fork
          OpenFails   \* requests whose fopen() may find no descriptor left

ASSUME SizesAssumption == Workers \in Nat \ {0} /\ Chunks \in Nat \ {0}
ASSUME InstanceAssumption == Installed \in BOOLEAN /\ ForkFails \cup OpenFails \cup Echoes \subseteq Requests
ASSUME RequestsAssumption == IsFiniteSet(Requests)

VARIABLES resolved, ok, \* the statics of get_cgi_helper_path()
          at,         \* where each request is
          name,       \* the file that the temporary path names, 0 for none
          born,       \* how many files were created at that path
          content,    \* the blocks present in each file
          mode,       \* whether chmod() made each file executable
          file,       \* the file each request has open, or runs
          copied,     \* how many blocks each request has copied
          answer,     \* what each client got
          overlapped  \* history: two requests were once under way together

statics == <<resolved, ok>>
fs == <<name, born, content, mode>>
vars == <<statics, fs, at, file, copied, answer, overlapped>>

Files == 1 .. Cardinality(Requests)
Blocks == 1 .. Chunks

Busy == {r \in Requests : at[r] \notin {"start", "done"}}
HasOpen(r) == IF at[r] = "run" THEN 0 ELSE file[r]
Written(f) == f # 0 /\ \E r \in Requests : HasOpen(r) = f
Executing(f) == f # 0 /\ \E r \in Requests : at[r] = "run" /\ file[r] = f

Init == /\ resolved = FALSE /\ ok = FALSE
        /\ at = [r \in Requests |-> "start"]
        /\ name = 0
        /\ born = 0
        /\ content = [f \in Files |-> {}]
        /\ mode = [f \in Files |-> FALSE]
        /\ file = [r \in Requests |-> 0]
        /\ copied = [r \in Requests |-> 0]
        /\ answer = [r \in Requests |-> "pending"]
        /\ overlapped = FALSE

Move(r, place) == at' = [at EXCEPT ![r] = place]
Answer(r, a) == answer' = [answer EXCEPT ![r] = a]
-----------------------------------------------------------------------------
(* get_cgi_helper_path() and what its callers make of the result. *)

\* The 500 of handle_cgi_helper() on NULL, or a page that says "(not found)".
NotLocated(r) == /\ Move(r, "done")
                 /\ Answer(r, IF r \in Echoes THEN "not found" ELSE "500")

\* The helper is staged, or its path goes into the echo page.  A helper that
\* was located and cannot be opened earns the same 500.
Located(r) == \/ r \in Echoes /\ Move(r, "done") /\ Answer(r, "path")
              \/ r \notin Echoes /\ Move(r, "open") /\ UNCHANGED answer
              \/ r \in OpenFails \ Echoes /\ NotLocated(r)

\* `if (resolved) return ok ? path : NULL`; without a lock, so that a second
\* request may come here before the first goes on.
CheckResolved(r) ==
    /\ at[r] = "start"
    /\ Cardinality(Busy) < Workers
    /\ IF ~resolved THEN Move(r, "claim") /\ UNCHANGED answer
       ELSE IF ok THEN Located(r) ELSE NotLocated(r)
    /\ overlapped' = (overlapped \/ Busy # {})
    /\ UNCHANGED <<statics, fs, file, copied>>

\* `resolved = true`, before the path is known.
Claim(r) == /\ at[r] = "claim"
            /\ resolved' = TRUE
            /\ Move(r, "resolve")
            /\ UNCHANGED <<ok, fs, file, copied, answer, overlapped>>

\* Faulty variant: the success is returned but not recorded.
ResolveForgetsOk(r) ==
    /\ at[r] = "resolve"
    /\ IF Installed THEN Located(r) ELSE NotLocated(r)
    /\ UNCHANGED <<statics, fs, file, copied, overlapped>>

\* $DVWS_CGI_HELPER, or the directory of the executable; ok stays FALSE when
\* no helper is there.
Resolve(r) == /\ at[r] = "resolve"
              /\ ok' = (ok \/ Installed)
              /\ IF Installed THEN Located(r) ELSE NotLocated(r)
              /\ UNCHANGED <<resolved, fs, file, copied, overlapped>>
-----------------------------------------------------------------------------
(* handle_cgi_helper(). *)

\* fopen(temp_file_path, "wb") creates the file or truncates the one that
\* another request has left there.
OpenTemp(r) ==
    /\ at[r] = "open"
    /\ ~Executing(name)
    /\ IF name = 0
       THEN /\ born' = born + 1
            /\ name' = born + 1
            /\ UNCHANGED content
       ELSE /\ content' = [content EXCEPT ![name] = {}]
            /\ UNCHANGED <<born, name>>
    /\ file' = [file EXCEPT ![r] = name']
    /\ Move(r, "copy")
    /\ UNCHANGED <<statics, mode, copied, answer, overlapped>>

\* ETXTBSY, or no descriptor is left: the handler returns, and dispatch()
\* closes a connection on which nothing was sent.
OpenTempFails(r) == /\ at[r] = "open"
                    /\ Executing(name) \/ r \in OpenFails
                    /\ Answer(r, "nothing")
                    /\ Move(r, "done")
                    /\ UNCHANGED <<statics, fs, file, copied, overlapped>>

\* The loop of fread() and fwrite(): each writer has an offset of its own.
CopyBlock(r) == /\ at[r] = "copy"
                /\ copied[r] < Chunks
                /\ copied' = [copied EXCEPT ![r] = @ + 1]
                /\ content' = [content EXCEPT ![file[r]] = @ \cup {copied[r] + 1}]
                /\ UNCHANGED <<statics, name, born, mode, at, file, answer, overlapped>>

\* Faulty variant: the copy is executed without having been closed.
CloseForgotten(r) == /\ at[r] = "copy"
                     /\ copied[r] = Chunks
                     /\ Move(r, "chmod")
                     /\ UNCHANGED <<statics, fs, file, copied, answer, overlapped>>

\* fclose(), then the pause.
CloseTemp(r) == /\ at[r] = "copy"
                /\ copied[r] = Chunks
                /\ file' = [file EXCEPT ![r] = 0]
                /\ Move(r, "chmod")
                /\ UNCHANGED <<statics, fs, copied, answer, overlapped>>

\* chmod() by name; its failure is ignored.
ChmodTemp(r) == /\ at[r] = "chmod"
                /\ mode' = IF name = 0 THEN mode ELSE [mode EXCEPT ![name] = TRUE]
                /\ Move(r, "exec")
                /\ UNCHANGED <<statics, name, born, content, file, copied, answer, overlapped>>

\* popen() fails only if it cannot fork; nothing is sent.
PopenFails(r) == /\ at[r] = "exec"
                 /\ r \in ForkFails
                 /\ Answer(r, "nothing")
                 /\ Move(r, "remove")
                 /\ UNCHANGED <<statics, fs, file, copied, overlapped>>

\* The shell of popen() executes what the path names by then, a complete and
\* executable copy that nobody is writing; otherwise it prints nothing here.
Popen(r) ==
    /\ at[r] = "exec"
    /\ r \notin ForkFails
    /\ IF name # 0 /\ mode[name] /\ content[name] = Blocks /\ ~Written(name)
       THEN /\ file' = [file EXCEPT ![r] = name]
            /\ Answer(r, "helper output")
       ELSE /\ Answer(r, "no output")
            /\ UNCHANGED file
    /\ Move(r, "run")
    /\ UNCHANGED <<statics, fs, copied, overlapped>>

\* The output is streamed after a 200 header; pclose() waits for the helper.
Pclose(r) == /\ at[r] = "run"
             /\ file' = [file EXCEPT ![r] = 0]
             /\ Move(r, "remove")
             /\ UNCHANGED <<statics, fs, copied, answer, overlapped>>

\* Faulty variant: the copy stays when popen() has failed.
RemoveAfterSuccess(r) == /\ at[r] = "remove"
                         /\ name' = IF answer[r] = "nothing" THEN name ELSE 0
                         /\ Move(r, "done")
                         /\ UNCHANGED <<statics, born, content, mode, file, copied, answer, overlapped>>

RemoveTemp(r) == /\ at[r] = "remove"
                 /\ name' = 0
                 /\ Move(r, "done")
                 /\ UNCHANGED <<statics, born, content, mode, file, copied, answer, overlapped>>

Handle(r) == \/ CheckResolved(r) \/ Claim(r) \/ Resolve(r)
             \/ OpenTemp(r) \/ OpenTempFails(r) \/ CopyBlock(r) \/ CloseTemp(r)
             \/ ChmodTemp(r) \/ PopenFails(r) \/ Popen(r) \/ Pclose(r) \/ RemoveTemp(r)

Served == \A r \in Requests : at[r] = "done"

Next == (\E r \in Requests : Handle(r)) \/ (Served /\ UNCHANGED vars)

Spec == Init /\ [][Next]_vars
-----------------------------------------------------------------------------
\* "every /cgi-helper request stages a copy of the bundled executable [...],
\* closes it, waits, then executes it" (mime_type_handler.cpp:64-66): requests
\* that do not overlap, the first of the process and later ones, are answered
\* with what the helper prints, whatever failed for others before, unless the
\* process cannot fork or open a file for them.
HelperRan ==
    ~overlapped => \A r \in Requests \ (ForkFails \cup OpenFails \cup Echoes) :
                       at[r] = "done" => answer[r] = "helper output"

\* "Resolved once and reused" (utils.cpp:142): no request that can open it is
\* told that the installed helper could not be located, and no echo page says
\* so.  It takes a first request, of either kind, that has resolved it before
\* the second arrives, and may then have failed to open it.
LocatedOnce ==
    Installed /\ ~overlapped =>
        /\ \A r \in Requests \ OpenFails : answer[r] # "500"
        /\ \A r \in Echoes : answer[r] # "not found"

\* Whoever stages removes, also after a failure and whatever overlaps: with
\* no request under way, the temporary path names nothing.
NothingLeftBehind == Busy = {} => name = 0
=============================================================================
