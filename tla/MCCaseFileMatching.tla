------------------------- MODULE MCCaseFileMatching -------------------------
EXTENDS CaseFileMatching, TLC

CONSTANTS s1, s2, s3, n1, n2, n3, f1, f2, f3, alice, bob

\* Three accounts: two of alice, one of bob.
Casillas == (s1 :> {n1}) @@ (s2 :> {n2}) @@ (s3 :> {n3})

Customers ==
  (n1 :> alice) @@ (n2 :> alice) @@ (n3 :> bob)
  @@ (f1 :> alice) @@ (f2 :> alice) @@ (f3 :> bob)

\* One expediente in two spellings, and n2 of another one.
Spellings ==
  [x \in {n1, n2, n3, f1, f2, f3} |->
     [number |-> IF x = n2 THEN 2 ELSE 1,
      dash |-> IF x \in {n1, f2} THEN "en dash" ELSE "ascii"]]

=============================================================================
