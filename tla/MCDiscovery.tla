----------------------------- MODULE MCDiscovery -----------------------------
(* A casilla of six notifications, a third of them unread, for TLC.         *)
EXTENDS Discovery

MCBox == <<6, 5, 4, 3, 2, 1>>
MCWindow ==
  [week |-> {6, 5}, april |-> 1..5, reset |-> {5, 4, 3}, limit |-> 1..6, year |-> 1..6]
MCCaseFile == [n \in 1..6 |-> IF n % 2 = 0 THEN "x" ELSE "y"]
MCRefusable ==
  [dates : {"limit"}, estado : {""}, expediente : {""}]
    \cup [dates : {"week"}, estado : {""}, expediente : {"?"}]

=============================================================================
