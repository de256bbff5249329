------------------------------ MODULE MCDomain ------------------------------
(***************************************************************************)
(* TLC instances of Domain: a domain n1 that meets every mishap, and a      *)
(* domain n2 that meets none, in one network.                               *)
(***************************************************************************)
EXTENDS Domain

CONSTANTS n1, n2, ip1, ip2

Want(addr, wait, run) == [addr |-> addr, wait |-> wait, run |-> run]

\* Both want one address, and n2 also takes whatever address it gets.
MCWanted == [n \in Domain |->
    IF n = n1 THEN {Want(ip1, TRUE, FALSE)}
    ELSE {Want(ip1, FALSE, TRUE), Want(None, TRUE, FALSE)}]

MCMishap == [n \in Domain |->
    IF n = n1 THEN Call \union {"stopped", "undefined", "paused"} ELSE {}]

NoMishap == [n \in Domain |-> {}]

OnOff == [n \in Domain |-> {Want(ip1, FALSE, TRUE), Want(ip1, FALSE, FALSE), Want(ip2, TRUE, TRUE)}]
=============================================================================
