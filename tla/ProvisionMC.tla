----------------------------- MODULE ProvisionMC -----------------------------
(* Provision for two states of agency.json: the second moves the first agent *)
(* to another provider with another limit, and declares both of them twice.  *)
EXTENDS Provision

A(n, pr, l) == [name |-> n, provider |-> pr, limit |-> l]

FilesValue ==
  {[providers |-> <<"p">>, agents |-> <<A("a", 1, 1), A("b", 1, 0)>>,
    wiring |-> [w \in Plans |-> 2]],
   [providers |-> <<"q", "q">>, agents |-> <<A("a", 2, 2), A("a", 1, 0)>>,
    wiring |-> [w \in Plans |-> 1]]}
=============================================================================
