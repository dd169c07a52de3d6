---------------------------- MODULE MCBackOffice ----------------------------
(* A small instance of BackOffice for TLC.                                 *)
EXTENDS BackOffice
CONSTANTS t1, p1, p2, c1, c2, c3, c4, m1, m2, w, a1, k1, u1, u2, r1, r2, s1, s2
=============================================================================
