----------------------------- MODULE MCRouter -----------------------------
(* A small instance of Router.  Every route is asked for; the requests that *)
(* touch the registry come in every form, the others once or with HEAD.     *)
EXTENDS Router, TLC

Ask(method, route, path, type, trusted) ==
    [method |-> method, route |-> route, path |-> path, type |-> type, trusted |-> trusted]

SomePath == CHOOSE p \in Paths : TRUE

RuleAsks == {Ask("GET", route, p, t, TRUE) : route \in RuleRoutes, p \in Paths, t \in Types}
                \cup {Ask(m, "/cgi-bin/", SomePath, "other", FALSE) : m \in {"GET", "HEAD"}}

OtherAsks == {Ask("HEAD", route, SomePath, "other", TRUE) : route \in Routes \ {"/cgi-bin/"}}
                 \cup {Ask(m, "page", SomePath, "other", FALSE) : m \in Methods \ {"HEAD"}}
                 \cup {Ask("GET", "/admin/", SomePath, "other", FALSE)}

SmallAsks == RuleAsks \cup OtherAsks

Symmetry == Permutations(Requests)
=============================================================================
