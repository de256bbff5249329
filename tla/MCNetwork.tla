----------------------------- MODULE MCNetwork -----------------------------
(***************************************************************************)
(* TLC instances of Network: a network n1 that meets every mishap but a     *)
(* failing cleanup, and a network n2 that meets none.                       *)
(***************************************************************************)
EXTENDS Network

CONSTANTS n1, n2, ip1, ip2, alpha, beta

Hosts(first, second) == [ip \in IP |-> IF ip = ip1 THEN first ELSE second]

\* n1 gains and loses one host beside one that stays; in n2 two host names swap
\* their addresses, and all hosts come and go.
MCWanted == [n \in Network |->
    IF n = n1 THEN {Hosts({alpha}, {}), Hosts({alpha}, {beta})}
    ELSE {Hosts({}, {}), Hosts({alpha}, {beta}), Hosts({beta}, {alpha})}]

AllButCleanup == Call \ {"destroy", "undefine"}

MCMishap == [n \in Network |->
    IF n = n1 THEN AllButCleanup \union {"stopped", "undefined", "edited"} ELSE {}]

OnlyEdited == [n \in Network |-> {"edited"}]
=============================================================================
