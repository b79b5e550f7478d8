----------------------------- MODULE MCExplorer -----------------------------
(* Small sites: four pages on the portal's host, one page elsewhere, and a  *)
(* URL the portal may answer with another page.                             *)
EXTENDS Explorer

Elsewhere == "x"
MCUrls == {"u0", "u1", "u2", "u3", Elsewhere}
MCHost == [u \in MCUrls |-> IF u = Elsewhere THEN "other" ELSE "casillas"]
MCUnsafe == {<<"u0", "u3">>}
MCSeeds == <<"u2">>

\* u2 and u3 have names whose slugs coincide.
MCSlug == [u \in MCUrls |-> IF u = "u3" THEN "u2" ELSE u]

\* The menu of the first page: up to two links, in any order.
FirstMenus ==
  LET others == {"u1", "u2", "u3"}
  IN  {<<>>} \cup {<<v>> : v \in others}
        \cup {<<p[1], p[2]>> : p \in {q \in others \X others : q[1] # q[2]}}

\* The page elsewhere links to itself; u1 may be answered with it or with u2.
MCSites ==
  {[links |-> [u \in MCUrls |->
                 CASE u = "u0" -> a [] u = "u1" -> b [] u = "u2" -> c [] u = "u3" -> d
                   [] OTHER -> <<Elsewhere, "u3">>],
    lands |-> [u \in MCUrls |-> IF u = "u1" THEN to ELSE u]] :
     a \in FirstMenus, b \in {<<>>, <<"u0">>, <<"u3">>, <<"u3", "u2">>},
     c \in {<<>>, <<"u1">>, <<"u3", "u0">>}, d \in {<<>>, <<"u1">>},
     to \in {"u1", "u2", Elsewhere}}

=============================================================================
