----------------------------- MODULE MCServices -----------------------------
EXTENDS Services

CONSTANTS p1, p2, p3, t1, t2, ann, bob, n1

MCThread == {t1, t2}
MCPhone == {p1, p2, p3}
MCOwner == {p1}
MCPerson == {ann, bob}
MCNumber == {n1}
MCBytes == {2}
MCOwnFields == <<"name", "password">>
MCCardFields == <<"creditcard.number">>
MCMenu == [accounts |-> 4, texts |-> 2, mail |-> 2, conference |-> 3]
MCCuts == 0 .. 2
MCGroups == {{p1}, {p1, p2}}

ServicesSymmetry ==
  Permutations(MCThread) \cup Permutations(MCPerson)

=============================================================================
