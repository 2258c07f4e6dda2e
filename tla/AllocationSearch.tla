-------------------------- MODULE AllocationSearch --------------------------
(***************************************************************************)
(* grevir::allocation::search, which is not in this repository, as its two *)
(* callers use it: it answers the first way, in the order of the columns,  *)
(* to give each unit an eligible one so that all agree; without success it *)
(* has run out of budget or there is no such way.                          *)
(***************************************************************************)
EXTENDS Integers

Ways(units, columns, eligible, Agree(_, _)) ==
  {s \in [units -> columns] :
     /\ \A u \in units : s[u] \in eligible[u]
     /\ \A u, v \in units : u < v => Agree(s[u], s[v])}

ComesFirst(s, ways) ==
  \A t \in ways : \A u \in DOMAIN s :
    (\A v \in DOMAIN s : v < u => s[v] = t[v]) => s[u] <= t[u]

=============================================================================
