----------------------------- MODULE MCServices -----------------------------
(***************************************************************************)
(* A small instance of each of the seven parts of Services.                *)
(***************************************************************************)
EXTENDS Services, TLC

CONSTANTS k1, d1, e1, e2, u1, u2

\* Nothing tells one user of the console from another.
PageSymmetry == Permutations({u1, u2})

OneClient == {[user |-> "ann", key |-> k1, device |-> d1]}

TwoRequests == 1..2

\* Two users and an administrator, by session or by key.
ThreeCallers ==
  {[user |-> "ann", admin |-> FALSE, session |-> TRUE],
   [user |-> "bob", admin |-> FALSE, session |-> FALSE],
   [user |-> "root", admin |-> TRUE, session |-> TRUE]}

TwoMappings == {<<2, 2>>, <<2, 3>>}

\* What is in the store: something of everybody, of every kind.
SmallStock ==
  {[table |-> "tunnel",  id |-> 0, owner |-> "ann",  data |-> "n1"],
   [table |-> "key",     id |-> 0, owner |-> "ann",  data |-> None],
   [table |-> "user",    id |-> 0, owner |-> "ann",  data |-> FALSE],
   [table |-> "user",    id |-> 0, owner |-> "root", data |-> FALSE],
   [table |-> "mapping", id |-> 0, owner |-> "root", data |-> <<1, 1>>],
   [table |-> "device",  id |-> 0, owner |-> "ann",  data |-> None],
   [table |-> "device",  id |-> 0, owner |-> "bob",  data |-> None],
   [table |-> "usage",   id |-> 0, owner |-> "ann",  data |-> None],
   [table |-> "usage",   id |-> 0, owner |-> "bob",  data |-> None]}

OneSession == {[table |-> "tunnel", id |-> 0, owner |-> "bob", data |-> "s1"]}

\* Newest first.
TwoEarlier == <<"old2", "old1">>
=============================================================================
