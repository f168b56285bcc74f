-------------------------- MODULE WorldSessionsMC --------------------------
(***************************************************************************)
(* WorldSessions with two or three accounts and one session more.          *)
(***************************************************************************)
EXTENDS WorldSessions

CONSTANTS a1, a2, a3, s1, s2, s3, s4

TwoAccounts == {a1, a2}
ThreeAccounts == {a1, a2, a3}
TwoSessions == {s1, s2}
ThreeSessions == {s1, s2, s3}
FourSessions == {s1, s2, s3, s4}
Nobody == {}
GameMaster == {a1}
OnlyOne == {1}
OneOrTwo == {1, 2}
OneOrNone == {0, 1}

\* The addresses of the sessions are interchangeable.
Addresses == Permutations(Sessions)
AddressesAndAccounts == Permutations(Sessions) \cup Permutations(Accounts)
=============================================================================
