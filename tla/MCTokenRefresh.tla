--------------------------- MODULE MCTokenRefresh ---------------------------
(* Small instances of TokenRefresh for TLC. *)
EXTENDS TokenRefresh, TLC
CONSTANTS p1, p2, s1, s2
Tokens2 == 1..2
Nested == {{s1}, {s1, s2}}   \* a pilot's and a director's login
Workers == {p1, p2}

\* Which worker serves what.
Only(ops) == [op \in Request |-> IF op \in ops THEN Workers ELSE {}]
Everything == [op \in Request |->
    IF op \in {"sweep", "disconnect", "detach"} THEN {p2} ELSE Workers]
Logins == Only({"login"})
Dying == Only({"login", "refresh", "pilot"})
=============================================================================
