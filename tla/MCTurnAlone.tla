---------------------------- MODULE MCTurnAlone ----------------------------
(* Small instances of TurnAlone and its invariant for TLC.                 *)
EXTENDS TurnAloneInv, TLC

CONSTANTS c1, c2, t1, t2, t3, e1, e2, p1, p2, p3, p4, r1

MCGroups == {{p1, p2}, {p2, p3}, {p1}}

RowSymmetry == Permutations({t1, t2, t3}) \cup Permutations({c1, c2})
                 \cup Permutations({e1, e2})
============================================================================
