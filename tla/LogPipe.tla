------------------------------- MODULE LogPipe -------------------------------
(***************************************************************************)
(* What the asynchronous log pipeline promises to request threads: records *)
(* come out in the order in which they were captured, none twice and none  *)
(* skipped.  LogSink implements this specification.                        *)
(***************************************************************************)
EXTENDS Sequences

CONSTANT Records

VARIABLES buffer,     \* captured and not written, oldest first
          out         \* written, oldest first

vars == <<buffer, out>>

Seen == {buffer[i] : i \in DOMAIN buffer} \cup {out[i] : i \in DOMAIN out}

Init == buffer = <<>> /\ out = <<>>

Capture(r) == /\ r \notin Seen
              /\ buffer' = Append(buffer, r)
              /\ UNCHANGED out

Write == /\ buffer # <<>>
         /\ out' = Append(out, Head(buffer))
         /\ buffer' = Tail(buffer)

Next == (\E r \in Records : Capture(r)) \/ Write

Spec == Init /\ [][Next]_vars
=============================================================================
