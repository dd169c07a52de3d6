---------------------------- MODULE MCTurnBoard ----------------------------
(* Small instances of TurnBoard for TLC.                                   *)
EXTENDS TurnBoard, TLC

CONSTANTS c1, c2, t1, t2, t3, e1, e2, p1, p2, p3, p4

\* Two overlapping pairs, so that one player is wanted by both, and a group
\* that is too small for a court.
MCGroups == {{p1, p2}, {p2, p3}, {p1}}

\* Four players, each wanted by two groups at most.
MCChain == {{p1, p2}, {p2, p3}, {p3, p4}}

\* Rows are told apart only by what is in them.
RowSymmetry == Permutations({t1, t2, t3}) \cup Permutations({c1, c2})
                 \cup Permutations({e1, e2})
============================================================================
