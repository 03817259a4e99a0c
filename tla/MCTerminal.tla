----------------------------- MODULE MCTerminal -----------------------------
(***************************************************************************)
(* A small instance of Terminal for TLC.                                   *)
(***************************************************************************)
EXTENDS Terminal

\* Two lots of the list; the second ends first, and has bids above its start.
OneAfterTheOther == [a \in Auctions |-> IF a = "108" THEN 2 ELSE 1]
OneAndTwo == [a \in Auctions |-> IF a = "108" THEN 1 ELSE 2]
FromOne == [a \in Auctions |-> 1]

\* hub.go; and a server that also takes what this client sends.
HubAndOther == {{"AUTH"}, {"AUTH", "auth"}}
=============================================================================
