---------------------------- MODULE MCTurnRaces ----------------------------
(* Small instances of TurnRaces for TLC.                                   *)
EXTENDS TurnRaces, TLC

CONSTANTS c1, c2, t1, t2, t3, e1, e2, p1, p2, p3, p4, r1, r2

MCPair == {{p1, p2}}
MCPairs == {{p1, p2}, {p3, p4}}

RowSymmetry == Permutations({t1, t2, t3}) \cup Permutations({c1, c2})
RequestSymmetry == RowSymmetry \cup Permutations({r1, r2})
============================================================================
