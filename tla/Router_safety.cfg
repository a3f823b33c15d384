\* Three requests of any kind, served at the same time: admins add and update
\* rules of two paths while clients look one of them up.
SPECIFICATION Spec
CONSTANTS
    Requests = {r1, r2, r3}
    Workers = 3
    Paths = {p1, p2}
    Asks <- SmallAsks
SYMMETRY Symmetry
INVARIANTS
    AnsweredOnce
    HeadHasNoBody
    AddedRuleIsServed
    OnlyCgiRulesRun
