-------------------------- MODULE MCAgreementHttp --------------------------
(***************************************************************************)
(* Three browsers with wallets of their own and two places in each table:  *)
(* a third address pushes one of the others out.                           *)
(***************************************************************************)
EXTENDS AgreementHttp, TLC

CONSTANTS c1, c2, c3, alice, bob, carol

MCowner ==
  [c \in {c1, c2, c3} |-> CASE c = c1 -> alice [] c = c2 -> bob [] c = c3 -> carol]

Does(first, second, third) == (c1 :> first) @@ (c2 :> second) @@ (c3 :> third)

\* Signing in; using up limits; stopping.
MCScenarios ==
  { [does |-> Does({"challenge", "verify", "creation", "logout", "leave"},
                   {"challenge", "verify"}, {"challenge"}),
     signedIn |-> {}, stops |-> FALSE],
    [does |-> Does({"creation", "confirmation"}, {"creation"}, {"creation"}),
     signedIn |-> Clients, stops |-> FALSE],
    [does |-> Does({"creation", "working", "answered", "leave"}, {"request", "confirmation"}, {}),
     signedIn |-> {c1, c2}, stops |-> TRUE] }
=============================================================================
