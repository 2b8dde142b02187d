-------------------------------- MODULE MCClaims --------------------------------
(* One line that wants two units: a claim of one sent twice, a copy of it that    *)
(* asks for two, a firm claim of two, and a release of each of the two claims,    *)
(* the first one's sent twice.                                                    *)
EXTENDS Claims

CONSTANTS c1, c2, c3, f1, q1, q2, qf, idC, idF, line

MCRequests == {c1, c2, c3, f1}
MCReleases == {q1, q2, qf}
MCIdOf     == [c \in MCRequests \cup MCReleases |-> IF c \in {f1, qf} THEN idF ELSE idC]
MCLineOf   == [r \in MCRequests |-> line]
MCUnits    == [r \in MCRequests |-> IF r \in {c1, c2} THEN 1 ELSE 2]
MCWanted   == [l \in {line} |-> 2]
==============================================================================
