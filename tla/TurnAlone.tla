------------------------------ MODULE TurnAlone ------------------------------
(***************************************************************************)
(* TurnRaces with the rows remembered as they were when no request was     *)
(* under way.  With one request at a time these rows move as TurnBoard     *)
(* says: the handlers, call by call, implement its actions.                *)
(***************************************************************************)
EXTENDS TurnRaces

VARIABLE settled   \* the rows when the last request was answered

Snapshot == [turn |-> turn, game |-> game, court |-> court, entry |-> entry]

AloneInit == Init /\ settled = Snapshot
AloneNext == Next /\ settled' = IF Settled' THEN Snapshot' ELSE settled
AloneSpec == AloneInit /\ [][AloneNext]_<<vars, settled>>

\* TurnBoard in a running session with everyone present and every court usable.
Board == INSTANCE TurnBoard WITH
  turn <- settled.turn, game <- settled.game, court <- settled.court, entry <- settled.entry,
  present <- Players, inLesson <- {}, resting <- {}, session <- "ACTIVE",
  Resters <- {}, Learners <- {}, Serviced <- {}, Penalised <- {}

\* What one request does to the rows, from its first call to its answer, is
\* one action of TurnBoard or nothing.
HandlersImplementBoard == [][Board!TurnStep \/ Board!BoardStep]_settled
=============================================================================
