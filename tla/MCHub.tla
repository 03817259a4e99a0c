--------------------------------- MODULE MCHub ---------------------------------
(***************************************************************************)
(* Small instances of Hub for TLC.                                         *)
(***************************************************************************)
EXTENDS Hub

\* Both clients send what the hub asks for.
AskForAUTH == [c \in Conns |-> "AUTH"]
\* One client sends what api.js and test_connection.sh send.
SecondAsApiJs == [c \in Conns |-> IF c = "c2" THEN "auth" ELSE "AUTH"]
=============================================================================
