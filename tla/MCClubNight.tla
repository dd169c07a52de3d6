---------------------------- MODULE MCClubNight ----------------------------
(* A small instance of ClubNight for TLC.                                  *)
EXTENDS ClubNight

CONSTANTS k1, k2, d1, u1, e1, e2, b1, b2, x, y

Mix(h, t, d, o, b) == [hours |-> h, ticks |-> t, desk |-> d, door |-> o, booth |-> b]

\* Two ticks and a request of the staff; one tick and two requests; one evening at
\* the door and one at the polls; and one where all of them meet the loop.
MCMixes == {Mix(3, 2, 1, 0, 0), Mix(3, 1, 2, 0, 0), Mix(1, 0, 2, 3, 0), Mix(1, 0, 2, 1, 3),
            Mix(3, 1, 0, 2, 1)}
=============================================================================
