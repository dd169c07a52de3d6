------------------------------- MODULE TurnRows -------------------------------
(***************************************************************************)
(* The rows the turn handlers work on, the queries they share and the      *)
(* agreements between rows.  TurnBoard runs the handlers one by one,       *)
(* TurnRaces lets them overlap.                                            *)
(***************************************************************************)
EXTENDS Integers, FiniteSets

CONSTANTS
  Courts,     \* Court rows of the session
  Turns,      \* identities a CourtTurn row can get; Game.turnId is unique, so
              \* they are the identities of the games too
  Entries,    \* identities a GameBoardEntry row can get
  Players,    \* users
  None        \* SQL null

VARIABLES
  turn,       \* CourtTurn rows
  game,       \* Game.status, "NONE" before the row exists
  court,      \* Court.status
  entry       \* GameBoardEntry rows

TurnStatus  == {"NONE", "WAITING", "PLAYING", "COMPLETED", "CANCELLED"}
GameStatus  == {"NONE", "IN_PROGRESS", "COMPLETED", "CANCELLED"}
CourtStatus == {"EMPTY", "IN_USE", "MAINTENANCE"}
EntryStatus == {"NONE", "QUEUED", "MATERIALIZED", "COMPLETED", "CANCELLED"}

TurnRow  == [status : TurnStatus, court : Courts \cup {None}, pos : Nat,
             players : SUBSET Players]
EntryRow == [status : EntryStatus, turn : Turns \cup {None},
             court : Courts \cup {None}, players : SUBSET Players]

NoTurnRow  == [status |-> "NONE", court |-> None, pos |-> 0, players |-> {}]
NoEntryRow == [status |-> "NONE", turn |-> None, court |-> None, players |-> {}]

RowsInit ==
  /\ turn  = [t \in Turns |-> NoTurnRow]
  /\ game  = [t \in Turns |-> "NONE"]
  /\ court = [c \in Courts |-> "EMPTY"]
  /\ entry = [e \in Entries |-> NoEntryRow]

RowsTypeOK ==
  /\ turn \in [Turns -> TurnRow]
  /\ game \in [Turns -> GameStatus]
  /\ court \in [Courts -> CourtStatus]
  /\ entry \in [Entries -> EntryRow]

-----------------------------------------------------------------------------
(* Queries                                                                 *)

Waiting(c) == {t \in Turns : turn[t].status = "WAITING" /\ turn[t].court = c}
Playing(c) == {t \in Turns : turn[t].status = "PLAYING" /\ turn[t].court = c}
Active(c)  == Waiting(c) \cup Playing(c)

\* Someone of G is in a game on another court than c.
PlaysElsewhere(G, c) ==
  \E u \in Turns : /\ turn[u].status = "PLAYING" /\ turn[u].court # c
                   /\ turn[u].players \cap G # {}

\* "orderBy position asc" and position := index + 1.  Rows of equal position
\* come back in any order.
Numberings(S) ==
  {r \in [S -> 1..Cardinality(S)] :
     \A s, t \in S : s # t => /\ r[s] # r[t]
                              /\ turn[s].pos < turn[t].pos => r[s] < r[t]}

\* updateMany on the entries materialised into one of the turns S.
CloseEntries(en, S, status) ==
  [e \in Entries |->
     IF en[e].status = "MATERIALIZED" /\ en[e].turn \in S
     THEN [en[e] EXCEPT !.status = status] ELSE en[e]]

-----------------------------------------------------------------------------
(* Agreements between rows                                                 *)

\* The game record and its turn never drift apart, whichever of the nine
\* handlers that touch them ran: a game is in progress exactly while its turn
\* is played, and it counts as played exactly when its turn was completed.
GameMatchesTurn ==
  \A t \in Turns :
    /\ game[t] = "IN_PROGRESS" <=> turn[t].status = "PLAYING"
    /\ game[t] = "COMPLETED" <=> turn[t].status = "COMPLETED"
    /\ game[t] = "CANCELLED" => turn[t].status = "CANCELLED"

\* Two games are never in play on one court (registerTurn starts a turn only
\* on an idle court, completeTurnCore promotes one, moveCourtGame needs an
\* idle target).
OnePlayingPerCourt ==
  \A s, t \in Turns :
    turn[s].status = "PLAYING" /\ turn[t].status = "PLAYING" /\ turn[s].court = turn[t].court
      => s = t

\* A materialised board entry names its own turn, on the turn's court, with
\* the turn's players, and that turn was not completed: registration, player
\* replacement, moving and unassigning change both sides together.
EntryMatchesTurn ==
  \A e \in Entries :
    entry[e].status = "MATERIALIZED" =>
      /\ entry[e].turn \in Turns
      /\ turn[entry[e].turn].status \in {"WAITING", "PLAYING", "CANCELLED"}
      /\ turn[entry[e].turn].court = entry[e].court
      /\ turn[entry[e].turn].players = entry[e].players

\* No ghost game on the board: what the board shows on a court is a turn that
\* waits or is played.
GhostFree ==
  \A e \in Entries :
    entry[e].status = "MATERIALIZED" =>
      turn[entry[e].turn].status \in {"WAITING", "PLAYING"}
=============================================================================
