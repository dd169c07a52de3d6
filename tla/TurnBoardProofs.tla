--------------------------- MODULE TurnBoardProofs ---------------------------
(***************************************************************************)
(* Theorems of TurnBoard for every set of courts, turns, entries, players  *)
(* and every maxTurnsPerCourt.  IInv is inductive; each of its parts has   *)
(* its lemma below, one step per handler that can disturb it.              *)
(***************************************************************************)
EXTENDS TurnBoard, FiniteSetTheorems, TLAPS

(* Renumbering gives positions that count from one.                        *)
LEMMA NumberingsType ==
  ASSUME NEW S \in SUBSET Turns, NEW r \in Numberings(S)
  PROVE  /\ IsFiniteSet(S) /\ Cardinality(S) \in Nat
         /\ r \in [S -> Nat]
         /\ \A s \in S : r[s] \in 1..Cardinality(S)
<1>1. IsFiniteSet(S) /\ Cardinality(S) \in Nat
  BY TurnBoardAssumption, FS_Subset, FS_CardinalityType
<1>2. r \in [S -> 1..Cardinality(S)]
  BY DEF Numberings
<1>. QED
  BY <1>1, <1>2

(* The number of active turns on a court is a natural number.              *)
LEMMA ActiveFinite ==
  ASSUME NEW c
  PROVE  /\ Active(c) \subseteq Turns
         /\ IsFiniteSet(Active(c)) /\ Cardinality(Active(c)) \in Nat
<1>1. Active(c) \subseteq Turns
  BY DEF Active, Waiting, Playing
<1>. QED
  BY <1>1, TurnBoardAssumption, FS_Subset, FS_CardinalityType

(* The handlers a step can be.  A requeue is a registration of the turn's  *)
(* players, an assignment a push; the rest touch no turn and no game.      *)
Quiet == UNCHANGED <<turn, game>>
BoardEdit == \/ \E G \in SUBSET Players : AddEntry(G)
             \/ \E e \in Entries : DeleteEntry(e)
             \/ \E e \in Entries, G \in SUBSET Players : UpdateEntry(e, G)
             \/ \E p \in Players, on \in BOOLEAN : SetResting(p) \/ SetPlayerLesson(p, on)
Plain == \/ \E c \in Courts : SetMaintenance(c) \/ SetUsable(c)
         \/ \E p \in Players : CheckIn(p) \/ SetAvailable(p)
         \/ UNCHANGED vars

(* Every step is one of these.                                            *)
LEMMA NextCases ==
  ASSUME TypeOK, [Next]_vars
  PROVE  \/ \E c \in Courts, G \in SUBSET Players : RegisterTurn(c, G)
         \/ \E t \in Turns : CompleteTurn(t)
         \/ \E t \in Turns : CancelTurn(t)
         \/ \E c \in Courts : ClearCourt(c)
         \/ \E t \in Turns, out, in \in Players : ReplacePlayer(t, out, in)
         \/ \E src, dst \in Courts : MoveCourtGame(src, dst)
         \/ \E e \in Entries, c \in Courts : PushEntry(e, c)
         \/ \E e \in Entries : UnassignEntry(e)
         \/ \E p \in Players : CheckOut(p)
         \/ EndSession
         \/ CloseSession
         \/ BoardEdit
         \/ Plain
<1>1. ASSUME NEW t \in Turns, NEW c \in Courts, RequeueTurn(t, c)
      PROVE  \E G \in SUBSET Players : RegisterTurn(c, G)
  <2>1. turn[t].players \in SUBSET Players
    BY DEF TypeOK, RowsTypeOK, TurnRow
  <2> QED
    BY <1>1, <2>1 DEF RequeueTurn
<1>2. ASSUME NEW e \in Entries, NEW c \in Courts, AssignEntry(e, c)
      PROVE  PushEntry(e, c)
  BY <1>2 DEF AssignEntry
<1>3. CASE TurnStep
  BY <1>1, <1>3, TurnBoardAssumption DEF TurnStep
<1>4. CASE CourtStep
  BY <1>4, TurnBoardAssumption DEF CourtStep, Plain
<1>5. CASE BoardStep
  BY <1>2, <1>5, TurnBoardAssumption DEF BoardStep, BoardEdit
<1>6. CASE AttendanceStep
  BY <1>6, TurnBoardAssumption DEF AttendanceStep, BoardEdit, Plain
<1> QED
  BY <1>3, <1>4, <1>5, <1>6 DEF Next, Plain

(* Board edits and the plain attendance steps touch no turn and no game.   *)
LEMMA QuietSteps == BoardEdit \/ Plain => Quiet
BY DEF BoardEdit, Plain, Quiet, AddEntry, DeleteEntry, UpdateEntry, SetResting,
       SetPlayerLesson, SetMaintenance, SetUsable, CheckIn, SetAvailable, vars

(* A new session is well formed.                                           *)
LEMMA InitType == Init => TypeOK
BY TurnBoardAssumption
DEF Init, RowsInit, TypeOK, RowsTypeOK, TurnRow, EntryRow, NoTurnRow, NoEntryRow, TurnStatus,
    EntryStatus, GameStatus, CourtStatus

(* A turn keeps its type when it is renumbered, finished or promoted.       *)
LEMMA TurnRowEdits ==
  ASSUME NEW x \in TurnRow
  PROVE  /\ \A s \in TurnStatus : [x EXCEPT !.status = s] \in TurnRow
         /\ \A n \in Nat : [x EXCEPT !.pos = n] \in TurnRow
         /\ [x EXCEPT !.status = "PLAYING", !.pos = 1] \in TurnRow
<1>1. \A s \in TurnStatus : [x EXCEPT !.status = s] \in TurnRow
  BY DEF TurnRow
<1>2. \A n \in Nat : [x EXCEPT !.pos = n] \in TurnRow
  BY DEF TurnRow
<1>3. [x EXCEPT !.status = "PLAYING", !.pos = 1]
        = [[x EXCEPT !.status = "PLAYING"] EXCEPT !.pos = 1]
  BY DEF TurnRow
<1> QED
  BY <1>1, <1>2, <1>3 DEF TurnStatus, TurnRow

(* Rows keep their type when their entries are closed or stripped.          *)
LEMMA CloseEntriesType ==
  ASSUME NEW en \in [Entries -> EntryRow], NEW S, NEW status \in EntryStatus
  PROVE  CloseEntries(en, S, status) \in [Entries -> EntryRow]
BY DEF CloseEntries, EntryRow

(* The same for dropping a player from the queue.                          *)
LEMMA StripType ==
  ASSUME NEW en \in [Entries -> EntryRow], NEW p
  PROVE  Strip(en, p) \in [Entries -> EntryRow]
BY DEF Strip, EntryRow

(* The game moved is one of the source court's active turns.               *)
LEMMA MoveCandidates ==
  ASSUME NEW c PROVE FirstToMove(c) \subseteq Active(c) /\ FirstToMove(c) \subseteq Turns
BY DEF FirstToMove, Active, Waiting, Playing

(* Registering a turn writes rows of their types.                          *)
LEMMA CreateTurnType ==
  ASSUME TypeOK, NEW t \in Turns, NEW c \in Courts, NEW G \in SUBSET Players,
         CreateTurn(t, c, G)
  PROVE  /\ turn' \in [Turns -> TurnRow]
         /\ game' \in [Turns -> GameStatus]
         /\ court' \in [Courts -> CourtStatus]
<1>1. Cardinality(Active(c)) + 1 \in Nat
  BY ActiveFinite
<1>2. turn' \in [Turns -> TurnRow]
  BY <1>1 DEF CreateTurn, TypeOK, RowsTypeOK, TurnRow, TurnStatus
<1>3. game' \in [Turns -> GameStatus]
  BY DEF CreateTurn, TypeOK, RowsTypeOK, GameStatus
<1>4. court' \in [Courts -> CourtStatus]
  BY DEF CreateTurn, TypeOK, RowsTypeOK, CourtStatus
<1> QED
  BY <1>2, <1>3, <1>4

(* Each handler leaves every row of its type.                              *)
LEMMA NextType ==
  ASSUME TypeOK
  PROVE  [Next]_vars => TypeOK'
<1>1. ASSUME NEW c \in Courts, NEW G \in SUBSET Players, RegisterTurn(c, G)
      PROVE  TypeOK'
  <2>1. /\ turn' \in [Turns -> TurnRow]
        /\ game' \in [Turns -> GameStatus]
        /\ court' \in [Courts -> CourtStatus]
    BY <1>1, CreateTurnType DEF RegisterTurn
  <2> QED
    BY <1>1, <2>1 DEF RegisterTurn, attendance, TypeOK, RowsTypeOK
<1>2. ASSUME NEW t \in Turns, CompleteTurn(t)
      PROVE  TypeOK'
  <2>1. PICK r \in Numberings(Waiting(turn[t].court)) :
          FinishAndPromote(t, Waiting(turn[t].court), r)
    BY <1>2 DEF CompleteTurn
  <2>2. Waiting(turn[t].court) \subseteq Turns
    BY DEF Waiting
  <2>3. turn' \in [Turns -> TurnRow]
    <3> DEFINE W == Waiting(turn[t].court)
    <3>1. \A u \in W : r[u] \in Nat
      BY <2>2, NumberingsType
    <3>2. \A u \in Turns : turn[u] \in TurnRow
      BY DEF TypeOK, RowsTypeOK
    <3>3. "COMPLETED" \in TurnStatus
      BY DEF TurnStatus
    <3> HIDE DEF W
    <3>4. FinishAndPromote(t, W, r)
      BY <2>1 DEF W
    <3> QED
      BY <3>1, <3>2, <3>3, <3>4, TurnRowEdits DEF FinishAndPromote
  <2>4. game' \in [Turns -> GameStatus]
    BY <2>1 DEF FinishAndPromote, TypeOK, RowsTypeOK, GameStatus
  <2>5. court' \in [Courts -> CourtStatus]
    BY <1>2 DEF CompleteTurn, TypeOK, RowsTypeOK, CourtStatus
  <2>6. entry' \in [Entries -> EntryRow]
    BY <1>2, CloseEntriesType DEF CompleteTurn, TypeOK, RowsTypeOK, EntryStatus
  <2> QED
    BY <1>2, <2>3, <2>4, <2>5, <2>6 DEF CompleteTurn, attendance, TypeOK, RowsTypeOK
<1>3. ASSUME NEW t \in Turns, CancelTurn(t)
      PROVE  TypeOK'
  <2>1. turn' \in [Turns -> TurnRow]
    BY <1>3, NumberingsType, ActiveFinite DEF CancelTurn, TypeOK, RowsTypeOK, TurnRow,
      TurnStatus
  <2>2. entry' \in [Entries -> EntryRow]
    BY <1>3 DEF CancelTurn, CloseEntries, TypeOK, RowsTypeOK, EntryRow, EntryStatus
  <2> QED
    BY <1>3, <2>1, <2>2 DEF CancelTurn, attendance, TypeOK, RowsTypeOK
<1>4. ASSUME NEW c \in Courts, ClearCourt(c)
      PROVE  TypeOK'
  <2>1. turn' \in [Turns -> TurnRow]
    BY <1>4 DEF ClearCourt, TypeOK, RowsTypeOK, TurnRow, TurnStatus
  <2>2. game' \in [Turns -> GameStatus]
    BY <1>4 DEF ClearCourt, TypeOK, RowsTypeOK, GameStatus
  <2>3. court' \in [Courts -> CourtStatus]
    BY <1>4 DEF ClearCourt, TypeOK, RowsTypeOK, CourtStatus
  <2>4. entry' \in [Entries -> EntryRow]
    BY <1>4, CloseEntriesType DEF ClearCourt, TypeOK, RowsTypeOK, EntryStatus
  <2> QED
    BY <1>4, <2>1, <2>2, <2>3, <2>4 DEF ClearCourt, attendance,
      TypeOK, RowsTypeOK
<1>5. ASSUME NEW t \in Turns, NEW out \in Players, NEW in \in Players, ReplacePlayer(t, out, in)
      PROVE  TypeOK'
  <2>1. turn' \in [Turns -> TurnRow]
    BY <1>5 DEF ReplacePlayer, TypeOK, RowsTypeOK, TurnRow, TurnStatus
  <2>2. entry' \in [Entries -> EntryRow]
    BY <1>5 DEF ReplacePlayer, TypeOK, RowsTypeOK, EntryRow, EntryStatus
  <2> QED
    BY <1>5, <2>1, <2>2 DEF ReplacePlayer, attendance, TypeOK, RowsTypeOK
<1>6. ASSUME NEW src \in Courts, NEW dst \in Courts, MoveCourtGame(src, dst)
      PROVE  TypeOK'
  <2>1. turn' \in [Turns -> TurnRow]
    BY <1>6, MoveCandidates DEF MoveCourtGame, TypeOK, RowsTypeOK, TurnRow, TurnStatus
  <2>2. court' \in [Courts -> CourtStatus]
    BY <1>6, MoveCandidates DEF MoveCourtGame, TypeOK, RowsTypeOK, CourtStatus
  <2>3. entry' \in [Entries -> EntryRow]
    BY <1>6, MoveCandidates DEF MoveCourtGame, TypeOK, RowsTypeOK, EntryRow, EntryStatus
  <2> QED
    BY <1>6, <2>1, <2>2, <2>3 DEF MoveCourtGame, attendance, TypeOK, RowsTypeOK
<1>7. ASSUME NEW e \in Entries, NEW c \in Courts, PushEntry(e, c)
      PROVE  TypeOK'
  <2>1. PICK t \in Turns :
          /\ CreateTurn(t, c, entry[e].players)
          /\ entry' = [entry EXCEPT ![e] = [status |-> "MATERIALIZED", turn |-> t,
                                             court |-> c, players |-> @.players]]
    BY <1>7 DEF PushEntry
  <2>2. entry[e] \in EntryRow /\ entry[e].players \in SUBSET Players
    BY DEF TypeOK, RowsTypeOK, EntryRow
  <2>3. /\ turn' \in [Turns -> TurnRow]
        /\ game' \in [Turns -> GameStatus]
        /\ court' \in [Courts -> CourtStatus]
    BY <2>1, <2>2, CreateTurnType
  <2>4. entry' \in [Entries -> EntryRow]
    BY <2>1 DEF TypeOK, RowsTypeOK, EntryRow, EntryStatus
  <2> QED
    BY <1>7, <2>3, <2>4 DEF PushEntry, attendance, TypeOK, RowsTypeOK
<1>8. ASSUME NEW e \in Entries, UnassignEntry(e)
      PROVE  TypeOK'
  <2>1. turn' \in [Turns -> TurnRow]
    BY <1>8 DEF UnassignEntry, TypeOK, RowsTypeOK, TurnRow, TurnStatus
  <2>2. game' \in [Turns -> GameStatus]
    BY <1>8 DEF UnassignEntry, TypeOK, RowsTypeOK, GameStatus
  <2>3. court' \in [Courts -> CourtStatus]
    BY <1>8 DEF UnassignEntry, TypeOK, RowsTypeOK, CourtStatus
  <2>4. entry' \in [Entries -> EntryRow]
    BY <1>8 DEF UnassignEntry, TypeOK, RowsTypeOK, EntryRow, EntryStatus
  <2> QED
    BY <1>8, <2>1, <2>2, <2>3, <2>4 DEF UnassignEntry, attendance,
      TypeOK, RowsTypeOK
<1>9. ASSUME NEW p \in Players, CheckOut(p)
      PROVE  TypeOK'
  <2> DEFINE mine == {t \in Turns : turn[t].status = "WAITING" /\ p \in turn[t].players}
  <2>1. PICK r : /\ \A c \in Touched(mine) : r[c] \in Numberings(Left(mine, c))
                 /\ CancelAndRenumber(mine, r)
    BY <1>9 DEF CheckOut
  <2>2. \A c : Left(mine, c) \in SUBSET Turns
    BY DEF Left, Active, Waiting, Playing
  <2>3. \A c \in Touched(mine) : \A u \in Left(mine, c) :
           c = turn[u].court /\ r[turn[u].court][u] \in Nat
    <3>1. ASSUME NEW c \in Touched(mine), NEW u \in Left(mine, c)
          PROVE  c = turn[u].court /\ r[c][u] \in Nat
      <4>1. r[c] \in Numberings(Left(mine, c))
        BY <2>1
      <4>2. r[c][u] \in Nat
        BY <4>1, <2>2, NumberingsType
      <4> QED
        BY <4>2 DEF Left, Active, Waiting, Playing
    <3> QED
      BY <3>1
  <2> HIDE DEF mine
  <2>4. turn' \in [Turns -> TurnRow]
    BY <2>1, <2>3 DEF CancelAndRenumber, TypeOK, RowsTypeOK, TurnRow, TurnStatus
  <2>5. entry' \in [Entries -> EntryRow]
    BY <1>9, CloseEntriesType, StripType DEF CheckOut, TypeOK, RowsTypeOK, EntryStatus
  <2> QED
    BY <1>9, <2>4, <2>5 DEF CheckOut, attendance, TypeOK, RowsTypeOK
<1>10. ASSUME EndSession
      PROVE  TypeOK'
  <2>1. turn' \in [Turns -> TurnRow]
    BY <1>10 DEF EndSession, TypeOK, RowsTypeOK, TurnRow, TurnStatus
  <2>2. game' \in [Turns -> GameStatus]
    BY <1>10 DEF EndSession, TypeOK, RowsTypeOK, GameStatus
  <2>3. court' \in [Courts -> CourtStatus]
    BY <1>10 DEF EndSession, FreeCourts, TypeOK, RowsTypeOK, CourtStatus
  <2>4. entry' \in [Entries -> EntryRow]
    BY <1>10, CloseEntriesType DEF EndSession, TypeOK, RowsTypeOK, EntryStatus
  <2> QED
    BY <1>10, <2>1, <2>2, <2>3, <2>4 DEF EndSession, attendance,
      TypeOK, RowsTypeOK
<1>11. ASSUME CloseSession
      PROVE  TypeOK'
  <2>1. turn' \in [Turns -> TurnRow]
    BY <1>11 DEF CloseSession, TypeOK, RowsTypeOK, TurnRow, TurnStatus
  <2>2. game' \in [Turns -> GameStatus]
    BY <1>11 DEF CloseSession, TypeOK, RowsTypeOK, GameStatus
  <2>3. court' \in [Courts -> CourtStatus]
    BY <1>11 DEF CloseSession, FreeCourts, TypeOK, RowsTypeOK, CourtStatus
  <2> QED
    BY <1>11, <2>1, <2>2, <2>3 DEF CloseSession, attendance, TypeOK, RowsTypeOK
<1>12. ASSUME BoardEdit
      PROVE  TypeOK'
  <2>1. entry' \in [Entries -> EntryRow]
    <3>1. ASSUME NEW G \in SUBSET Players, AddEntry(G) PROVE entry' \in [Entries -> EntryRow]
      BY <3>1 DEF AddEntry, TypeOK, RowsTypeOK, EntryRow, EntryStatus
    <3>2. ASSUME NEW e \in Entries, DeleteEntry(e) PROVE entry' \in [Entries -> EntryRow]
      BY <3>2 DEF DeleteEntry, NoEntryRow, TypeOK, RowsTypeOK, EntryRow, EntryStatus
    <3>3. ASSUME NEW e \in Entries, NEW G \in SUBSET Players, UpdateEntry(e, G)
          PROVE  entry' \in [Entries -> EntryRow]
      BY <3>3 DEF UpdateEntry, TypeOK, RowsTypeOK, EntryRow, EntryStatus
    <3>4. ASSUME NEW p \in Players, NEW on \in BOOLEAN, SetResting(p) \/ SetPlayerLesson(p, on)
          PROVE  entry' \in [Entries -> EntryRow]
      BY <3>4, StripType DEF SetResting, SetPlayerLesson, TypeOK, RowsTypeOK
    <3> QED
      BY <1>12, <3>1, <3>2, <3>3, <3>4 DEF BoardEdit
  <2> QED
    BY <1>12, <2>1 DEF BoardEdit, AddEntry, DeleteEntry, UpdateEntry,
      SetResting, SetPlayerLesson, attendance, TypeOK, RowsTypeOK
<1>13. ASSUME Plain
      PROVE  TypeOK'
  BY <1>13 DEF Plain, SetMaintenance, SetUsable, CheckIn, SetAvailable, vars,
      attendance, TypeOK, RowsTypeOK, GameStatus, CourtStatus
<1> QED
  BY <1>1, <1>2, <1>3, <1>4, <1>5, <1>6, <1>7, <1>8, <1>9, <1>10,
      <1>11, <1>12, <1>13, NextCases

(* What completing a turn does to the statuses: the turn is completed and at *)
(* most one turn waiting on its court is promoted.                           *)
Promotion(t, first) ==
  /\ turn[t].status = "PLAYING"
  /\ first \subseteq Waiting(turn[t].court)
  /\ \A v, w \in first : v = w
  /\ \A u \in Turns :
       /\ turn'[u].status = IF u = t THEN "COMPLETED"
                            ELSE IF u \in first THEN "PLAYING" ELSE turn[u].status
       /\ turn'[u].court = turn[u].court /\ turn'[u].players = turn[u].players
       /\ game'[u] = IF u = t THEN "COMPLETED"
                     ELSE IF u \in first THEN "IN_PROGRESS" ELSE game[u]

(* That is what completeTurn does.                                         *)
LEMMA CompleteEffect ==
  ASSUME TypeOK, NEW t \in Turns, CompleteTurn(t)
  PROVE  \E first \in SUBSET Turns : Promotion(t, first)
<1> DEFINE W == Waiting(turn[t].court)
<1>1. PICK r \in Numberings(W) : FinishAndPromote(t, W, r)
  BY DEF CompleteTurn
<1> DEFINE first == {w \in W : r[w] = 1}
<1>2. \A v, w \in first : v = w
  BY DEF Numberings
<1>3. \A u \in Turns : turn[u] \in TurnRow
  BY DEF TypeOK, RowsTypeOK
<1>4. ASSUME NEW u \in Turns
      PROVE  /\ turn'[u].status = IF u = t THEN "COMPLETED"
                                  ELSE IF u \in first THEN "PLAYING" ELSE turn[u].status
             /\ turn'[u].court = turn[u].court /\ turn'[u].players = turn[u].players
             /\ game'[u] = IF u = t THEN "COMPLETED"
                           ELSE IF u \in first THEN "IN_PROGRESS" ELSE game[u]
  <2> HIDE DEF W
  <2> QED
    BY <1>1, <1>3 DEF FinishAndPromote, TurnRow
<1> QED
  BY <1>2, <1>4 DEF CompleteTurn, Promotion, Waiting

(* A cancelled turn leaves the others' statuses, courts and players alone.   *)
LEMMA CancelEffect ==
  ASSUME TypeOK, NEW t \in Turns, CancelTurn(t)
  PROVE  \A u \in Turns :
           /\ turn'[u].status = IF u = t THEN "CANCELLED" ELSE turn[u].status
           /\ turn'[u].court = turn[u].court /\ turn'[u].players = turn[u].players
<1>1. \A u \in Turns : turn[u] \in TurnRow
  BY DEF TypeOK, RowsTypeOK
<1> QED
  BY <1>1 DEF CancelTurn, TurnRow

(* So does a check-out, which cancels the waiting turns of the player.       *)
LEMMA CheckOutEffect ==
  ASSUME TypeOK, NEW p \in Players, CheckOut(p)
  PROVE  \A u \in Turns :
           /\ turn'[u].status = IF turn[u].status = "WAITING" /\ p \in turn[u].players
                                THEN "CANCELLED" ELSE turn[u].status
           /\ turn'[u].court = turn[u].court /\ turn'[u].players = turn[u].players
<1> DEFINE mine == {u \in Turns : turn[u].status = "WAITING" /\ p \in turn[u].players}
<1>1. PICK r : CancelAndRenumber(mine, r)
  BY DEF CheckOut
<1>2. \A u \in Turns : turn[u] \in TurnRow
  BY DEF TypeOK, RowsTypeOK
<1>3. ASSUME NEW u \in Turns
      PROVE  /\ turn'[u].status = IF u \in mine THEN "CANCELLED" ELSE turn[u].status
             /\ turn'[u].court = turn[u].court /\ turn'[u].players = turn[u].players
  <2> HIDE DEF mine
  <2> QED
    BY <1>1, <1>2 DEF CancelAndRenumber, TurnRow
<1> QED
  BY <1>3

(* Closing entries changes nothing but their status.                         *)
LEMMA CloseEntriesEffect ==
  ASSUME NEW en \in [Entries -> EntryRow], NEW S, NEW status, NEW e \in Entries
  PROVE  /\ CloseEntries(en, S, status)[e].status
              = IF en[e].status = "MATERIALIZED" /\ en[e].turn \in S
                THEN status ELSE en[e].status
         /\ CloseEntries(en, S, status)[e].turn = en[e].turn
         /\ CloseEntries(en, S, status)[e].court = en[e].court
         /\ CloseEntries(en, S, status)[e].players = en[e].players
<1>1. en[e] \in EntryRow
  OBVIOUS
<1> QED
  BY <1>1 DEF CloseEntries, EntryRow

(* The same for dropping a player from the queue.                          *)
LEMMA StripEffect ==
  ASSUME NEW en \in [Entries -> EntryRow], NEW p, NEW e \in Entries
  PROVE  /\ Strip(en, p)[e].status = en[e].status
         /\ Strip(en, p)[e].turn = en[e].turn
         /\ Strip(en, p)[e].court = en[e].court
         /\ en[e].status # "QUEUED" => Strip(en, p)[e].players = en[e].players
<1>1. en[e] \in EntryRow
  OBVIOUS
<1> QED
  BY <1>1 DEF Strip, EntryRow

(* Each handler changes a turn and its game together.                      *)
LEMMA NextGame ==
  ASSUME TypeOK, GameMatchesTurn
  PROVE  [Next]_vars => GameMatchesTurn'
<1> USE DEF TypeOK, RowsTypeOK, TurnRow, GameMatchesTurn
<1>1. ASSUME NEW c \in Courts, NEW G \in SUBSET Players, RegisterTurn(c, G)
      PROVE  GameMatchesTurn'
  BY <1>1 DEF RegisterTurn, CreateTurn
<1>2. ASSUME NEW t \in Turns, CompleteTurn(t)
      PROVE  GameMatchesTurn'
  BY <1>2, CompleteEffect DEF Promotion, Waiting
<1>3. ASSUME NEW t \in Turns, CancelTurn(t)
      PROVE  GameMatchesTurn'
  BY <1>3, CancelEffect DEF CancelTurn
<1>4. ASSUME NEW c \in Courts, ClearCourt(c)
      PROVE  GameMatchesTurn'
  BY <1>4 DEF ClearCourt, Waiting, Playing
<1>5. ASSUME NEW t \in Turns, NEW out \in Players, NEW in \in Players, ReplacePlayer(t, out, in)
      PROVE  GameMatchesTurn'
  BY <1>5 DEF ReplacePlayer
<1>6. ASSUME NEW src \in Courts, NEW dst \in Courts, MoveCourtGame(src, dst)
      PROVE  GameMatchesTurn'
  BY <1>6 DEF MoveCourtGame, FirstToMove, Waiting, Playing
<1>7. ASSUME NEW e \in Entries, NEW c \in Courts, PushEntry(e, c)
      PROVE  GameMatchesTurn'
  BY <1>7 DEF PushEntry, CreateTurn
<1>8. ASSUME NEW e \in Entries, UnassignEntry(e)
      PROVE  GameMatchesTurn'
  BY <1>8 DEF UnassignEntry
<1>9. ASSUME NEW p \in Players, CheckOut(p)
      PROVE  GameMatchesTurn'
  BY <1>9, CheckOutEffect DEF CheckOut
<1>10. ASSUME EndSession
      PROVE  GameMatchesTurn'
  BY <1>10 DEF EndSession
<1>11. ASSUME CloseSession
      PROVE  GameMatchesTurn'
  BY <1>11 DEF CloseSession
<1>12. ASSUME BoardEdit
      PROVE  GameMatchesTurn'
  BY <1>12 DEF BoardEdit, AddEntry, DeleteEntry, UpdateEntry, NoEntryRow,
      SetResting, SetPlayerLesson, Strip
<1>13. ASSUME Plain
      PROVE  GameMatchesTurn'
  BY <1>13 DEF Plain, SetMaintenance, SetUsable, CheckIn, SetAvailable, vars
<1> QED
  BY <1>1, <1>2, <1>3, <1>4, <1>5, <1>6, <1>7, <1>8, <1>9, <1>10,
      <1>11, <1>12, <1>13, NextCases

(* No handler puts a second game in play on a court.                       *)
LEMMA NextOnePlaying ==
  ASSUME TypeOK, OnePlayingPerCourt
  PROVE  [Next]_vars => OnePlayingPerCourt'
<1> USE DEF TypeOK, RowsTypeOK, TurnRow, OnePlayingPerCourt
<1>1. ASSUME NEW c \in Courts, NEW G \in SUBSET Players, RegisterTurn(c, G)
      PROVE  OnePlayingPerCourt'
  BY <1>1 DEF RegisterTurn, CreateTurn, Active, Waiting, Playing
<1>2. ASSUME NEW t \in Turns, CompleteTurn(t)
      PROVE  OnePlayingPerCourt'
  <2>1. PICK first \in SUBSET Turns : Promotion(t, first)
    BY <1>2, CompleteEffect
  <2>2. \A u \in Turns : turn'[u].status = "PLAYING" /\ turn'[u].court = turn[t].court
           => u \in first
    BY <2>1 DEF Promotion, Waiting
  <2>3. \A u \in Turns : turn'[u].status = "PLAYING" /\ turn'[u].court # turn[t].court
           => turn[u].status = "PLAYING"
    BY <2>1 DEF Promotion, Waiting
  <2> QED
    BY <2>1, <2>2, <2>3 DEF Promotion
<1>3. ASSUME NEW t \in Turns, CancelTurn(t)
      PROVE  OnePlayingPerCourt'
  BY <1>3, CancelEffect DEF CancelTurn
<1>4. ASSUME NEW c \in Courts, ClearCourt(c)
      PROVE  OnePlayingPerCourt'
  BY <1>4 DEF ClearCourt
<1>5. ASSUME NEW t \in Turns, NEW out \in Players, NEW in \in Players, ReplacePlayer(t, out, in)
      PROVE  OnePlayingPerCourt'
  BY <1>5 DEF ReplacePlayer
<1>6. ASSUME NEW src \in Courts, NEW dst \in Courts, MoveCourtGame(src, dst)
      PROVE  OnePlayingPerCourt'
  BY <1>6 DEF MoveCourtGame, FirstToMove, Active, Waiting, Playing
<1>7. ASSUME NEW e \in Entries, NEW c \in Courts, PushEntry(e, c)
      PROVE  OnePlayingPerCourt'
  BY <1>7 DEF PushEntry, CreateTurn, Active, Waiting, Playing
<1>8. ASSUME NEW e \in Entries, UnassignEntry(e)
      PROVE  OnePlayingPerCourt'
  BY <1>8 DEF UnassignEntry
<1>9. ASSUME NEW p \in Players, CheckOut(p)
      PROVE  OnePlayingPerCourt'
  BY <1>9, CheckOutEffect DEF CheckOut
<1>10. ASSUME EndSession
      PROVE  OnePlayingPerCourt'
  BY <1>10 DEF EndSession
<1>11. ASSUME CloseSession
      PROVE  OnePlayingPerCourt'
  BY <1>11 DEF CloseSession
<1>12. ASSUME BoardEdit
      PROVE  OnePlayingPerCourt'
  BY <1>12 DEF BoardEdit, AddEntry, DeleteEntry, UpdateEntry, NoEntryRow,
      SetResting, SetPlayerLesson, Strip
<1>13. ASSUME Plain
      PROVE  OnePlayingPerCourt'
  BY <1>13 DEF Plain, SetMaintenance, SetUsable, CheckIn, SetAvailable, vars
<1> QED
  BY <1>1, <1>2, <1>3, <1>4, <1>5, <1>6, <1>7, <1>8, <1>9, <1>10,
      <1>11, <1>12, <1>13, NextCases

(* What the handlers that finish turns have in common: rows keep their      *)
(* references and players, and an entry stays materialised only if its turn *)
(* stays as it was, keeps waiting or playing, or the session ends with it.  *)
Closing ==
  /\ \A t \in Turns :
       /\ turn'[t].court = turn[t].court /\ turn'[t].players = turn[t].players
       /\ turn'[t].status = "NONE" <=> turn[t].status = "NONE"
       /\ turn'[t].status = "WAITING" => turn[t].status = "WAITING"
       /\ turn'[t].status = "PLAYING" => turn[t].status \in {"WAITING", "PLAYING"}
  /\ \A e \in Entries :
       /\ entry'[e].turn = entry[e].turn /\ entry'[e].court = entry[e].court
       /\ entry'[e].status = "MATERIALIZED" =>
            /\ entry[e].status = "MATERIALIZED" /\ entry'[e].players = entry[e].players
            /\ entry[e].turn \in Turns =>
                 \/ turn'[entry[e].turn].status = turn[entry[e].turn].status
                 \/ turn'[entry[e].turn].status \in {"WAITING", "PLAYING"}
                 \/ /\ turn'[entry[e].turn].status = "CANCELLED"
                    /\ session' # "ACTIVE"

(* Six handlers are of this form.                                          *)
LEMMA ClosingSteps ==
  ASSUME TypeOK
  PROVE  /\ \A t \in Turns : CompleteTurn(t) \/ CancelTurn(t) => Closing
         /\ \A c \in Courts : ClearCourt(c) => Closing
         /\ \A p \in Players : CheckOut(p) => Closing
         /\ EndSession \/ CloseSession => Closing
<1>0. /\ \A t \in Turns : turn[t] \in TurnRow
      /\ \A e \in Entries : entry[e] \in EntryRow
      /\ entry \in [Entries -> EntryRow]
  BY DEF TypeOK, RowsTypeOK
<1>1. ASSUME NEW t \in Turns, CompleteTurn(t) PROVE Closing
  <2>1. PICK first \in SUBSET Turns : Promotion(t, first)
    BY <1>1, CompleteEffect
  <2>2. entry' = CloseEntries(entry, {t}, "COMPLETED")
    BY <1>1 DEF CompleteTurn
  <2>3. \A u \in first : turn[u].status = "WAITING"
    BY <2>1 DEF Promotion, Waiting
  <2> QED
    BY <2>1, <2>2, <2>3, <1>0, CloseEntriesEffect DEF Promotion, Closing
<1>2. ASSUME NEW t \in Turns, CancelTurn(t) PROVE Closing
  <2>1. entry' = CloseEntries(entry, {t}, "CANCELLED") /\ turn[t].status = "WAITING"
    BY <1>2 DEF CancelTurn
  <2> QED
    BY <1>2, <2>1, <1>0, CancelEffect, CloseEntriesEffect DEF Closing
<1>3. ASSUME NEW c \in Courts, ClearCourt(c) PROVE Closing
  <2>1. PICK P \in SUBSET Playing(c) :
           /\ turn' = [u \in Turns |->
                IF u \in Waiting(c) THEN [turn[u] EXCEPT !.status = "CANCELLED"]
                ELSE IF u \in P THEN [turn[u] EXCEPT !.status = "COMPLETED"]
                ELSE turn[u]]
           /\ entry' = CloseEntries(CloseEntries(entry, Waiting(c), "CANCELLED"), P, "COMPLETED")
    BY <1>3 DEF ClearCourt
  <2> DEFINE W == Waiting(c)
             en == CloseEntries(entry, W, "CANCELLED")
  <2>2. \A u \in W : turn[u].status = "WAITING"
    BY DEF Waiting
  <2>3. \A u \in P : turn[u].status = "PLAYING"
    BY DEF Playing
  <2>4. en \in [Entries -> EntryRow]
    BY <1>0, CloseEntriesType DEF EntryStatus
  <2>5. \A e \in Entries :
           /\ en[e].turn = entry[e].turn /\ en[e].court = entry[e].court
           /\ en[e].players = entry[e].players
           /\ en[e].status = IF entry[e].status = "MATERIALIZED" /\ entry[e].turn \in W
                             THEN "CANCELLED" ELSE entry[e].status
    BY <1>0, CloseEntriesEffect
  <2>6. \A e \in Entries :
           /\ entry'[e].turn = en[e].turn /\ entry'[e].court = en[e].court
           /\ entry'[e].players = en[e].players
           /\ entry'[e].status = IF en[e].status = "MATERIALIZED" /\ en[e].turn \in P
                                 THEN "COMPLETED" ELSE en[e].status
    <3> HIDE DEF en
    <3> QED
      BY <2>1, <2>4, CloseEntriesEffect DEF en
  <2>7. \A u \in Turns :
           /\ turn'[u].court = turn[u].court /\ turn'[u].players = turn[u].players
           /\ turn'[u].status = IF u \in W THEN "CANCELLED"
                                ELSE IF u \in P THEN "COMPLETED" ELSE turn[u].status
    <3> HIDE DEF W
    <3> QED
      BY <1>0, <2>1 DEF TurnRow, W
  <2> HIDE DEF W, en
  <2> QED
    BY <2>2, <2>3, <2>5, <2>6, <2>7 DEF Closing
<1>4. ASSUME NEW p \in Players, CheckOut(p) PROVE Closing
  <2> DEFINE mine == {u \in Turns : turn[u].status = "WAITING" /\ p \in turn[u].players}
             en == CloseEntries(entry, mine, "CANCELLED")
  <2>1. entry' = Strip(en, p)
    BY <1>4 DEF CheckOut
  <2>2. en \in [Entries -> EntryRow]
    BY <1>0, CloseEntriesType DEF EntryStatus
  <2>3. \A e \in Entries :
           /\ en[e].turn = entry[e].turn /\ en[e].court = entry[e].court
           /\ en[e].players = entry[e].players
           /\ en[e].status = IF entry[e].status = "MATERIALIZED" /\ entry[e].turn \in mine
                             THEN "CANCELLED" ELSE entry[e].status
    BY <1>0, CloseEntriesEffect
  <2>4. \A u \in Turns :
           /\ turn'[u].court = turn[u].court /\ turn'[u].players = turn[u].players
           /\ turn'[u].status = IF u \in mine THEN "CANCELLED" ELSE turn[u].status
    BY <1>4, CheckOutEffect
  <2>5. \A u \in mine : turn[u].status = "WAITING"
    OBVIOUS
  <2> HIDE DEF mine, en
  <2>6. \A e \in Entries :
           /\ entry'[e].turn = en[e].turn /\ entry'[e].court = en[e].court
           /\ entry'[e].status = en[e].status
           /\ en[e].status # "QUEUED" => entry'[e].players = en[e].players
    BY <2>1, <2>2, StripEffect
  <2> QED
    BY <2>3, <2>4, <2>5, <2>6 DEF Closing
<1>5. ASSUME EndSession PROVE Closing
  <2> DEFINE P == {t \in Turns : turn[t].status = "PLAYING"}
  <2>1. entry' = CloseEntries(entry, P, "COMPLETED")
    BY <1>5 DEF EndSession
  <2>2. \A u \in Turns :
           /\ turn'[u].court = turn[u].court /\ turn'[u].players = turn[u].players
           /\ turn'[u].status = IF turn[u].status = "PLAYING" THEN "COMPLETED"
                                ELSE IF turn[u].status = "WAITING" THEN "CANCELLED"
                                ELSE turn[u].status
    BY <1>0, <1>5 DEF EndSession, TurnRow
  <2>3. session' # "ACTIVE"
    BY <1>5 DEF EndSession
  <2>4. \A u \in Turns : u \in P <=> turn[u].status = "PLAYING"
    OBVIOUS
  <2> HIDE DEF P
  <2> QED
    BY <1>0, <2>1, <2>2, <2>3, <2>4, CloseEntriesEffect DEF Closing
<1>6. ASSUME CloseSession PROVE Closing
  BY <1>0, <1>6 DEF CloseSession, TurnRow, Closing
<1> QED
  BY <1>1, <1>2, <1>3, <1>4, <1>5, <1>6

(* Editing the queue makes no entry refer to a turn and leaves the           *)
(* materialised ones as they are.                                            *)
LEMMA EditEffect ==
  ASSUME TypeOK, BoardEdit
  PROVE  /\ UNCHANGED <<turn, game, session>>
         /\ \A e \in Entries :
              /\ entry'[e].turn = entry[e].turn \/ entry'[e].turn = None
              /\ entry'[e].status = "MATERIALIZED" =>
                   /\ entry[e].status = "MATERIALIZED"
                   /\ entry'[e].turn = entry[e].turn /\ entry'[e].court = entry[e].court
                   /\ entry'[e].players = entry[e].players
<1> DEFINE Same(e) ==
      /\ entry'[e].turn = entry[e].turn \/ entry'[e].turn = None
      /\ entry'[e].status = "MATERIALIZED" =>
           /\ entry[e].status = "MATERIALIZED"
           /\ entry'[e].turn = entry[e].turn /\ entry'[e].court = entry[e].court
           /\ entry'[e].players = entry[e].players
<1>0. entry \in [Entries -> EntryRow] /\ \A e \in Entries : entry[e] \in EntryRow
  BY DEF TypeOK, RowsTypeOK
<1>1. ASSUME NEW G, AddEntry(G) PROVE \A e \in Entries : Same(e)
  BY <1>0, <1>1 DEF AddEntry, EntryRow
<1>2. ASSUME NEW f \in Entries, DeleteEntry(f) PROVE \A e \in Entries : Same(e)
  BY <1>0, <1>2 DEF DeleteEntry, NoEntryRow, EntryRow
<1>3. ASSUME NEW f \in Entries, NEW G, UpdateEntry(f, G) PROVE \A e \in Entries : Same(e)
  BY <1>0, <1>3 DEF UpdateEntry, EntryRow
<1>4. ASSUME NEW p, NEW on, SetResting(p) \/ SetPlayerLesson(p, on)
      PROVE  \A e \in Entries : Same(e)
  BY <1>0, <1>4, StripEffect DEF SetResting, SetPlayerLesson
<1>5. \A e \in Entries : Same(e)
  BY <1>1, <1>2, <1>3, <1>4 DEF BoardEdit
<1> QED
  BY <1>5 DEF BoardEdit, AddEntry, DeleteEntry, UpdateEntry, SetResting, SetPlayerLesson

(* No handler leaves an entry or a turn referring to nothing.              *)
LEMMA NextRowsLinked ==
  ASSUME TypeOK, RowsLinked
  PROVE  [Next]_vars => RowsLinked'
<1> USE DEF TypeOK, RowsTypeOK, TurnRow, EntryRow, RowsLinked
<1>1. ASSUME NEW c \in Courts, NEW G \in SUBSET Players, RegisterTurn(c, G)
      PROVE  RowsLinked'
  BY <1>1 DEF RegisterTurn, CreateTurn
<1>2. ASSUME NEW t \in Turns, CompleteTurn(t)
      PROVE  RowsLinked'
  BY <1>2, ClosingSteps DEF Closing
<1>3. ASSUME NEW t \in Turns, CancelTurn(t)
      PROVE  RowsLinked'
  BY <1>3, ClosingSteps DEF Closing
<1>4. ASSUME NEW c \in Courts, ClearCourt(c)
      PROVE  RowsLinked'
  BY <1>4, ClosingSteps DEF Closing
<1>5. ASSUME NEW t \in Turns, NEW out \in Players, NEW in \in Players, ReplacePlayer(t, out, in)
      PROVE  RowsLinked'
  BY <1>5 DEF ReplacePlayer
<1>6. ASSUME NEW src \in Courts, NEW dst \in Courts, MoveCourtGame(src, dst)
      PROVE  RowsLinked'
  BY <1>6 DEF MoveCourtGame, FirstToMove, Waiting, Playing
<1>7. ASSUME NEW e \in Entries, NEW c \in Courts, PushEntry(e, c)
      PROVE  RowsLinked'
  BY <1>7 DEF PushEntry, CreateTurn
<1>8. ASSUME NEW e \in Entries, UnassignEntry(e)
      PROVE  RowsLinked'
  BY <1>8, TurnBoardAssumption DEF UnassignEntry
<1>9. ASSUME NEW p \in Players, CheckOut(p)
      PROVE  RowsLinked'
  BY <1>9, ClosingSteps DEF Closing
<1>10. ASSUME EndSession
      PROVE  RowsLinked'
  BY <1>10, ClosingSteps DEF Closing
<1>11. ASSUME CloseSession
      PROVE  RowsLinked'
  BY <1>11, ClosingSteps DEF Closing
<1>12. ASSUME BoardEdit
      PROVE  RowsLinked'
  BY <1>12, EditEffect
<1>13. ASSUME Plain
      PROVE  RowsLinked'
  BY <1>13 DEF Plain, SetMaintenance, SetUsable, CheckIn, SetAvailable, vars
<1> QED
  BY <1>1, <1>2, <1>3, <1>4, <1>5, <1>6, <1>7, <1>8, <1>9, <1>10,
      <1>11, <1>12, <1>13, NextCases

(* Each handler changes a materialised entry along with its turn.          *)
LEMMA NextEntryMatches ==
  ASSUME TypeOK, RowsLinked, EntryMatchesTurn
  PROVE  [Next]_vars => EntryMatchesTurn'
<1> USE DEF TypeOK, RowsTypeOK, TurnRow, EntryRow, EntryMatchesTurn
<1>1. ASSUME NEW c \in Courts, NEW G \in SUBSET Players, RegisterTurn(c, G)
      PROVE  EntryMatchesTurn'
  BY <1>1 DEF RegisterTurn, CreateTurn, RowsLinked
<1>2. ASSUME NEW t \in Turns, CompleteTurn(t)
      PROVE  EntryMatchesTurn'
  BY <1>2, ClosingSteps DEF Closing
<1>3. ASSUME NEW t \in Turns, CancelTurn(t)
      PROVE  EntryMatchesTurn'
  BY <1>3, ClosingSteps DEF Closing
<1>4. ASSUME NEW c \in Courts, ClearCourt(c)
      PROVE  EntryMatchesTurn'
  BY <1>4, ClosingSteps DEF Closing
<1>5. ASSUME NEW t \in Turns, NEW out \in Players, NEW in \in Players, ReplacePlayer(t, out, in)
      PROVE  EntryMatchesTurn'
  <2>1. \A u \in Turns :
           turn'[u].status = turn[u].status /\ turn'[u].court = turn[u].court
    BY <1>5 DEF ReplacePlayer
  <2>2. \A e \in Entries :
           /\ entry'[e].status = entry[e].status /\ entry'[e].turn = entry[e].turn
           /\ entry'[e].court = entry[e].court
    BY <1>5 DEF ReplacePlayer
  <2>3. \A u \in Turns :
           turn'[u].players = IF u = t THEN (turn[u].players \ {out}) \cup {in}
                              ELSE turn[u].players
    <3>1. turn' = [turn EXCEPT ![t].players = (@ \ {out}) \cup {in}]
      BY <1>5 DEF ReplacePlayer
    <3>2. turn'[t].players = (turn[t].players \ {out}) \cup {in}
      BY <3>1
    <3>3. \A u \in Turns : u # t => turn'[u] = turn[u]
      BY <3>1
    <3> QED
      BY <3>2, <3>3
  <2>4. \A e \in Entries :
           entry'[e].players = IF entry[e].turn = t /\ out \in entry[e].players
                               THEN (entry[e].players \ {out}) \cup {in}
                               ELSE entry[e].players
    BY <1>5 DEF ReplacePlayer
  <2>5. out \in turn[t].players
    BY <1>5 DEF ReplacePlayer
  <2>6. ASSUME NEW e \in Entries, entry[e].status = "MATERIALIZED"
        PROVE  turn'[entry[e].turn].players = entry'[e].players
    <3>1. entry[e].turn \in Turns /\ turn[entry[e].turn].players = entry[e].players
      BY <2>6
    <3> HIDE DEF TypeOK, RowsTypeOK, EntryMatchesTurn
    <3> QED
      BY <2>3, <2>4, <2>5, <3>1
  <2> HIDE DEF TypeOK, RowsTypeOK
  <2> QED
    BY <2>1, <2>2, <2>6
<1>6. ASSUME NEW src \in Courts, NEW dst \in Courts, MoveCourtGame(src, dst)
      PROVE  EntryMatchesTurn'
  BY <1>6 DEF MoveCourtGame, FirstToMove, RowsLinked
<1>7. ASSUME NEW e \in Entries, NEW c \in Courts, PushEntry(e, c)
      PROVE  EntryMatchesTurn'
  BY <1>7 DEF PushEntry, CreateTurn, RowsLinked
<1>8. ASSUME NEW e \in Entries, UnassignEntry(e)
      PROVE  EntryMatchesTurn'
  BY <1>8, TurnBoardAssumption DEF UnassignEntry, RowsLinked
<1>9. ASSUME NEW p \in Players, CheckOut(p)
      PROVE  EntryMatchesTurn'
  BY <1>9, ClosingSteps DEF Closing
<1>10. ASSUME EndSession
      PROVE  EntryMatchesTurn'
  BY <1>10, ClosingSteps DEF Closing
<1>11. ASSUME CloseSession
      PROVE  EntryMatchesTurn'
  BY <1>11, ClosingSteps DEF Closing
<1>12. ASSUME BoardEdit
      PROVE  EntryMatchesTurn'
  BY <1>12, EditEffect
<1>13. ASSUME Plain
      PROVE  EntryMatchesTurn'
  BY <1>13 DEF Plain, SetMaintenance, SetUsable, CheckIn, SetAvailable, vars
<1> QED
  BY <1>1, <1>2, <1>3, <1>4, <1>5, <1>6, <1>7, <1>8, <1>9, <1>10,
      <1>11, <1>12, <1>13, NextCases

(* While the session runs, no handler leaves a ghost on the board.         *)
LEMMA NextNoGhost ==
  ASSUME TypeOK, RowsLinked, EntryMatchesTurn, NoGhostWhileActive
  PROVE  [Next]_vars => NoGhostWhileActive'
<1> USE DEF TypeOK, RowsTypeOK, TurnRow, EntryRow, EntryMatchesTurn, NoGhostWhileActive,
      GhostFree
<1>1. ASSUME NEW c \in Courts, NEW G \in SUBSET Players, RegisterTurn(c, G)
      PROVE  NoGhostWhileActive'
  BY <1>1 DEF RegisterTurn, CreateTurn, RowsLinked
<1>2. ASSUME NEW t \in Turns, CompleteTurn(t)
      PROVE  NoGhostWhileActive'
  <2>1. Closing
    BY <1>2, ClosingSteps
  <2>2. session' = session
    BY <1>2 DEF CompleteTurn
  <2> QED
    BY <2>1, <2>2 DEF Closing
<1>3. ASSUME NEW t \in Turns, CancelTurn(t)
      PROVE  NoGhostWhileActive'
  <2>1. Closing
    BY <1>3, ClosingSteps
  <2>2. session' = session
    BY <1>3 DEF CancelTurn
  <2> QED
    BY <2>1, <2>2 DEF Closing
<1>4. ASSUME NEW c \in Courts, ClearCourt(c)
      PROVE  NoGhostWhileActive'
  <2>1. Closing
    BY <1>4, ClosingSteps
  <2>2. session' = session
    BY <1>4 DEF ClearCourt
  <2> QED
    BY <2>1, <2>2 DEF Closing
<1>5. ASSUME NEW t \in Turns, NEW out \in Players, NEW in \in Players, ReplacePlayer(t, out, in)
      PROVE  NoGhostWhileActive'
  BY <1>5 DEF ReplacePlayer
<1>6. ASSUME NEW src \in Courts, NEW dst \in Courts, MoveCourtGame(src, dst)
      PROVE  NoGhostWhileActive'
  BY <1>6 DEF MoveCourtGame, FirstToMove, RowsLinked
<1>7. ASSUME NEW e \in Entries, NEW c \in Courts, PushEntry(e, c)
      PROVE  NoGhostWhileActive'
  BY <1>7 DEF PushEntry, CreateTurn, RowsLinked
<1>8. ASSUME NEW e \in Entries, UnassignEntry(e)
      PROVE  NoGhostWhileActive'
  BY <1>8, TurnBoardAssumption DEF UnassignEntry, RowsLinked
<1>9. ASSUME NEW p \in Players, CheckOut(p)
      PROVE  NoGhostWhileActive'
  <2>1. Closing
    BY <1>9, ClosingSteps
  <2>2. session' = session
    BY <1>9 DEF CheckOut
  <2> QED
    BY <2>1, <2>2 DEF Closing
<1>10. ASSUME EndSession
      PROVE  NoGhostWhileActive'
  BY <1>10, ClosingSteps DEF Closing, EndSession
<1>11. ASSUME CloseSession
      PROVE  NoGhostWhileActive'
  BY <1>11, ClosingSteps DEF Closing, CloseSession
<1>12. ASSUME BoardEdit
      PROVE  NoGhostWhileActive'
  BY <1>12, EditEffect
<1>13. ASSUME Plain
      PROVE  NoGhostWhileActive'
  BY <1>13 DEF Plain, SetMaintenance, SetUsable, CheckIn, SetAvailable, vars
<1> QED
  BY <1>1, <1>2, <1>3, <1>4, <1>5, <1>6, <1>7, <1>8, <1>9, <1>10,
      <1>11, <1>12, <1>13, NextCases

(* No handler leaves someone waiting who has gone home.                    *)
LEMMA NextWaitingPresent ==
  ASSUME TypeOK, WaitingArePresent
  PROVE  [Next]_vars => WaitingArePresent'
<1> USE DEF TypeOK, RowsTypeOK, TurnRow, WaitingArePresent, attendance
<1>1. ASSUME NEW c \in Courts, NEW G \in SUBSET Players, RegisterTurn(c, G)
      PROVE  WaitingArePresent'
  BY <1>1 DEF RegisterTurn, CreateTurn, CanRegister
<1>2. ASSUME NEW t \in Turns, CompleteTurn(t)
      PROVE  WaitingArePresent'
  BY <1>2, ClosingSteps DEF Closing, CompleteTurn
<1>3. ASSUME NEW t \in Turns, CancelTurn(t)
      PROVE  WaitingArePresent'
  BY <1>3, ClosingSteps DEF Closing, CancelTurn
<1>4. ASSUME NEW c \in Courts, ClearCourt(c)
      PROVE  WaitingArePresent'
  BY <1>4, ClosingSteps DEF Closing, ClearCourt
<1>5. ASSUME NEW t \in Turns, NEW out \in Players, NEW in \in Players, ReplacePlayer(t, out, in)
      PROVE  WaitingArePresent'
  BY <1>5 DEF ReplacePlayer
<1>6. ASSUME NEW src \in Courts, NEW dst \in Courts, MoveCourtGame(src, dst)
      PROVE  WaitingArePresent'
  BY <1>6 DEF MoveCourtGame, FirstToMove
<1>7. ASSUME NEW e \in Entries, NEW c \in Courts, PushEntry(e, c)
      PROVE  WaitingArePresent'
  BY <1>7 DEF PushEntry, CreateTurn, CanRegister
<1>8. ASSUME NEW e \in Entries, UnassignEntry(e)
      PROVE  WaitingArePresent'
  BY <1>8, TurnBoardAssumption DEF UnassignEntry
<1>9. ASSUME NEW p \in Players, CheckOut(p)
      PROVE  WaitingArePresent'
  BY <1>9, CheckOutEffect DEF CheckOut
<1>10. ASSUME EndSession
      PROVE  WaitingArePresent'
  BY <1>10, ClosingSteps DEF Closing, EndSession, EndSession
<1>11. ASSUME CloseSession
      PROVE  WaitingArePresent'
  BY <1>11, ClosingSteps DEF Closing, CloseSession
<1>12. ASSUME BoardEdit
      PROVE  WaitingArePresent'
  BY <1>12, EditEffect DEF BoardEdit, AddEntry, DeleteEntry, UpdateEntry,
      SetResting, SetPlayerLesson
<1>13. ASSUME Plain
      PROVE  WaitingArePresent'
  BY <1>13 DEF Plain, SetMaintenance, SetUsable, CheckIn, SetAvailable, vars
<1> QED
  BY <1>1, <1>2, <1>3, <1>4, <1>5, <1>6, <1>7, <1>8, <1>9, <1>10,
      <1>11, <1>12, <1>13, NextCases

(* A court that gains no turn keeps within the maximum.                      *)
LEMMA FewerActive ==
  ASSUME CountWithinMax, NEW c \in Courts, Active(c)' \subseteq Active(c)
  PROVE  Cardinality(Active(c)') <= MaxTurns
<1>1. IsFiniteSet(Active(c)) /\ Cardinality(Active(c)) \in Nat
  BY ActiveFinite
<1>2. IsFiniteSet(Active(c)') /\ Cardinality(Active(c)') <= Cardinality(Active(c))
  BY <1>1, FS_Subset
<1>3. Cardinality(Active(c)') \in Nat
  BY <1>2, FS_CardinalityType
<1> QED
  BY <1>1, <1>2, <1>3, TurnBoardAssumption DEF CountWithinMax

(* A registration adds one turn to a court with room for it.                 *)
LEMMA OneMoreActive ==
  ASSUME TypeOK, CountWithinMax, NEW t \in Turns, NEW c \in Courts, NEW G,
         CreateTurn(t, c, G), Cardinality(Active(c)) < MaxTurns
  PROVE  CountWithinMax'
<1>1. /\ turn[t].status = "NONE"
      /\ \A u \in Turns : u # t => turn'[u] = turn[u]
      /\ turn'[t].court = c
  BY DEF CreateTurn, TypeOK, RowsTypeOK
<1>2. \A d \in Courts : d # c => Active(d)' \subseteq Active(d)
  BY <1>1 DEF Active, Waiting, Playing
<1>3. Active(c)' \subseteq Active(c) \cup {t}
  BY <1>1 DEF Active, Waiting, Playing
<1>4. /\ IsFiniteSet(Active(c)) /\ Cardinality(Active(c)) \in Nat
      /\ t \notin Active(c)
  BY <1>1, ActiveFinite DEF Active, Waiting, Playing
<1>5. /\ IsFiniteSet(Active(c) \cup {t})
      /\ Cardinality(Active(c) \cup {t}) = Cardinality(Active(c)) + 1
  BY <1>4, FS_AddElement
<1>6. IsFiniteSet(Active(c)') /\ Cardinality(Active(c)') <= Cardinality(Active(c)) + 1
  BY <1>3, <1>5, FS_Subset
<1>7. Cardinality(Active(c)') \in Nat
  BY <1>6, FS_CardinalityType
<1>8. Cardinality(Active(c)') <= MaxTurns
  BY <1>4, <1>6, <1>7, TurnBoardAssumption
<1> QED
  BY <1>2, <1>8, FewerActive DEF CountWithinMax

(* The numbers given to turns of one court stay within the maximum.          *)
LEMMA NumberingsBound ==
  ASSUME CountWithinMax, NEW c \in Courts, NEW S \in SUBSET Active(c),
         NEW r \in Numberings(S)
  PROVE  \A s \in S : r[s] \in 1..MaxTurns
<1>1. S \in SUBSET Turns /\ IsFiniteSet(Active(c)) /\ Cardinality(Active(c)) \in Nat
  BY ActiveFinite
<1>2. /\ Cardinality(S) \in Nat
      /\ \A s \in S : r[s] \in 1..Cardinality(S)
  BY <1>1, NumberingsType
<1>3. Cardinality(S) <= Cardinality(Active(c))
  BY <1>1, FS_Subset
<1>4. Cardinality(S) <= MaxTurns
  BY <1>1, <1>2, <1>3, TurnBoardAssumption DEF CountWithinMax
<1> QED
  BY <1>2, <1>4, TurnBoardAssumption

(* No handler puts more than maxTurnsPerCourt turns on a court.            *)
LEMMA NextCount ==
  ASSUME TypeOK, CountWithinMax
  PROVE  [Next]_vars => CountWithinMax'
<1>1. ASSUME NEW c \in Courts, NEW G \in SUBSET Players, RegisterTurn(c, G)
      PROVE  CountWithinMax'
  BY <1>1, OneMoreActive DEF RegisterTurn, CanRegister
<1>2. ASSUME NEW t \in Turns, CompleteTurn(t)
      PROVE  CountWithinMax'
  BY <1>2, ClosingSteps, FewerActive DEF Closing, Active, Waiting, Playing,
      CountWithinMax, TypeOK, RowsTypeOK, TurnRow
<1>3. ASSUME NEW t \in Turns, CancelTurn(t)
      PROVE  CountWithinMax'
  BY <1>3, ClosingSteps, FewerActive DEF Closing, Active, Waiting, Playing,
      CountWithinMax, TypeOK, RowsTypeOK, TurnRow
<1>4. ASSUME NEW c \in Courts, ClearCourt(c)
      PROVE  CountWithinMax'
  BY <1>4, ClosingSteps, FewerActive DEF Closing, Active, Waiting, Playing,
      CountWithinMax, TypeOK, RowsTypeOK, TurnRow
<1>5. ASSUME NEW t \in Turns, NEW out \in Players, NEW in \in Players, ReplacePlayer(t, out, in)
      PROVE  CountWithinMax'
  BY <1>5, FewerActive DEF ReplacePlayer, Active, Waiting, Playing,
      CountWithinMax, TypeOK, RowsTypeOK, TurnRow
<1>6. ASSUME NEW src \in Courts, NEW dst \in Courts, MoveCourtGame(src, dst)
      PROVE  CountWithinMax'
  <2>1. PICK t \in FirstToMove(src) : turn' = [turn EXCEPT ![t].court = dst]
    BY <1>6 DEF MoveCourtGame
  <2>2. t \in Turns /\ t \in Active(src)
    BY MoveCandidates
  <2>3. \A u \in Turns : turn'[u].status = turn[u].status
                         /\ turn'[u].court = IF u = t THEN dst ELSE turn[u].court
    BY <2>1, <2>2 DEF TypeOK, RowsTypeOK, TurnRow
  <2>4. \A c \in Courts : c # dst => Active(c)' \subseteq Active(c)
    BY <2>2, <2>3 DEF Active, Waiting, Playing
  <2>5. Active(dst)' \subseteq {t}
    <3>1. Active(dst) = {}
      BY <1>6 DEF MoveCourtGame
    <3>2. \A u \in Turns : u # t => (u \in Active(dst)' => u \in Active(dst))
      BY <2>3 DEF Active, Waiting, Playing
    <3>3. ASSUME NEW u \in Active(dst)' PROVE u = t
      <4>1. u \in Turns
        BY <3>3 DEF Active, Waiting, Playing
      <4> QED
        BY <3>1, <3>2, <3>3, <4>1
    <3> QED
      BY <3>3
  <2>6. IsFiniteSet({t}) /\ Cardinality({t}) = 1
    BY FS_Singleton
  <2>7. /\ IsFiniteSet(Active(dst)') /\ Cardinality(Active(dst)') <= Cardinality({t})
        /\ Cardinality(Active(dst)') \in Nat
    BY <2>5, <2>6, FS_Subset, FS_CardinalityType
  <2>8. Cardinality(Active(dst)') <= MaxTurns
    BY <2>6, <2>7, TurnBoardAssumption
  <2> QED
    BY <2>4, <2>8, FewerActive DEF CountWithinMax
<1>7. ASSUME NEW e \in Entries, NEW c \in Courts, PushEntry(e, c)
      PROVE  CountWithinMax'
  BY <1>7, OneMoreActive DEF PushEntry, CanRegister
<1>8. ASSUME NEW e \in Entries, UnassignEntry(e)
      PROVE  CountWithinMax'
  BY <1>8, FewerActive DEF UnassignEntry, Active, Waiting, Playing,
      CountWithinMax, TypeOK, RowsTypeOK, TurnRow
<1>9. ASSUME NEW p \in Players, CheckOut(p)
      PROVE  CountWithinMax'
  BY <1>9, ClosingSteps, FewerActive DEF Closing, Active, Waiting, Playing,
      CountWithinMax, TypeOK, RowsTypeOK, TurnRow
<1>10. ASSUME EndSession
      PROVE  CountWithinMax'
  BY <1>10, ClosingSteps, FewerActive DEF Closing, Active, Waiting, Playing,
      CountWithinMax, TypeOK, RowsTypeOK, TurnRow
<1>11. ASSUME CloseSession
      PROVE  CountWithinMax'
  BY <1>11, ClosingSteps, FewerActive DEF Closing, Active, Waiting, Playing,
      CountWithinMax, TypeOK, RowsTypeOK, TurnRow
<1>12. ASSUME BoardEdit
      PROVE  CountWithinMax'
  BY <1>12, EditEffect, FewerActive DEF Active, Waiting, Playing,
      CountWithinMax, TypeOK, RowsTypeOK, TurnRow
<1>13. ASSUME Plain
      PROVE  CountWithinMax'
  BY <1>13, FewerActive DEF Plain, SetMaintenance, SetUsable, CheckIn,
      SetAvailable, vars, Active, Waiting, Playing, CountWithinMax, TypeOK, RowsTypeOK,
      TurnRow
<1> QED
  BY <1>1, <1>2, <1>3, <1>4, <1>5, <1>6, <1>7, <1>8, <1>9, <1>10,
      <1>11, <1>12, <1>13, NextCases

(* Each handler numbers turns within 1..maxTurnsPerCourt.                  *)
LEMMA NextPositions ==
  ASSUME TypeOK, RowsLinked, CountWithinMax, PositionsWithinMax
  PROVE  [Next]_vars => PositionsWithinMax'
<1>1. ASSUME NEW c \in Courts, NEW G \in SUBSET Players, RegisterTurn(c, G)
      PROVE  PositionsWithinMax'
  BY <1>1, ActiveFinite, TurnBoardAssumption DEF RegisterTurn, CanRegister,
      CreateTurn, PositionsWithinMax, TypeOK, RowsTypeOK, TurnRow
<1>2. ASSUME NEW t \in Turns, CompleteTurn(t)
      PROVE  PositionsWithinMax'
  <2> DEFINE W == Waiting(turn[t].court)
  <2>1. PICK r \in Numberings(W) : FinishAndPromote(t, W, r)
    BY <1>2 DEF CompleteTurn
  <2>0. turn[t].court \in Courts /\ W \subseteq Active(turn[t].court)
    BY <1>2 DEF CompleteTurn, RowsLinked, Active
  <2>2. \A u \in W : turn[u].court = turn[t].court /\ r[u] \in 1..MaxTurns
    BY <2>0, NumberingsBound DEF Waiting
  <2>3. turn[t].status = "PLAYING"
    BY <1>2 DEF CompleteTurn
  <2>4. \A u \in Turns : turn[u] \in TurnRow
    BY DEF TypeOK, RowsTypeOK
  <2>5. \A u \in Turns \ W : turn[u].status # "WAITING" \/ turn[u].court # turn[t].court
    BY DEF Waiting
  <2> HIDE DEF W
  <2>6. ASSUME NEW u \in Turns, turn'[u].status \in {"WAITING", "PLAYING"}
        PROVE  turn'[u].pos \in 1..MaxTurns
    <3>1. CASE u = t
      BY <2>1, <2>4, <2>6, <3>1 DEF FinishAndPromote, TurnRow
    <3>2. CASE u # t /\ u \in W
      BY <2>1, <2>2, <2>4, <3>2, TurnBoardAssumption DEF FinishAndPromote, TurnRow
    <3>3. CASE u # t /\ u \notin W
      BY <2>1, <2>6, <3>3 DEF FinishAndPromote, PositionsWithinMax
    <3> QED
      BY <3>1, <3>2, <3>3
  <2> QED
    BY <2>6 DEF PositionsWithinMax
<1>3. ASSUME NEW t \in Turns, CancelTurn(t)
      PROVE  PositionsWithinMax'
  <2> DEFINE rest == Active(turn[t].court) \ {t}
  <2>1. PICK r \in Numberings(rest) :
          turn' = [u \in Turns |->
                IF u = t THEN [turn[u] EXCEPT !.status = "CANCELLED"]
                ELSE IF u \in rest THEN [turn[u] EXCEPT !.pos = r[u]]
                ELSE turn[u]]
    BY <1>3 DEF CancelTurn
  <2>2. turn[t].court \in Courts
    BY <1>3 DEF CancelTurn, RowsLinked
  <2>3. \A u \in rest : r[u] \in 1..MaxTurns
    BY <2>2, NumberingsBound
  <2>4. \A u \in Turns : turn[u] \in TurnRow
    BY DEF TypeOK, RowsTypeOK
  <2> HIDE DEF rest
  <2> QED
    BY <2>1, <2>3, <2>4 DEF PositionsWithinMax, TurnRow
<1>4. ASSUME NEW c \in Courts, ClearCourt(c)
      PROVE  PositionsWithinMax'
  BY <1>4 DEF ClearCourt, PositionsWithinMax, TypeOK, RowsTypeOK, TurnRow
<1>5. ASSUME NEW t \in Turns, NEW out \in Players, NEW in \in Players, ReplacePlayer(t, out, in)
      PROVE  PositionsWithinMax'
  BY <1>5 DEF ReplacePlayer, PositionsWithinMax, TypeOK, RowsTypeOK, TurnRow
<1>6. ASSUME NEW src \in Courts, NEW dst \in Courts, MoveCourtGame(src, dst)
      PROVE  PositionsWithinMax'
  BY <1>6 DEF MoveCourtGame, FirstToMove, PositionsWithinMax, TypeOK, RowsTypeOK, TurnRow
<1>7. ASSUME NEW e \in Entries, NEW c \in Courts, PushEntry(e, c)
      PROVE  PositionsWithinMax'
  BY <1>7, ActiveFinite, TurnBoardAssumption DEF PushEntry, CanRegister,
      CreateTurn, PositionsWithinMax, TypeOK, RowsTypeOK, TurnRow
<1>8. ASSUME NEW e \in Entries, UnassignEntry(e)
      PROVE  PositionsWithinMax'
  BY <1>8 DEF UnassignEntry, PositionsWithinMax, TypeOK, RowsTypeOK, TurnRow
<1>9. ASSUME NEW p \in Players, CheckOut(p)
      PROVE  PositionsWithinMax'
  <2> DEFINE mine == {t \in Turns : turn[t].status = "WAITING" /\ p \in turn[t].players}
  <2>1. PICK r : /\ \A c \in Touched(mine) : r[c] \in Numberings(Left(mine, c))
                 /\ CancelAndRenumber(mine, r)
    BY <1>9 DEF CheckOut
  <2>2. ASSUME NEW c \in Touched(mine), NEW u \in Left(mine, c)
        PROVE  c = turn[u].court /\ r[c][u] \in 1..MaxTurns
    <3>1. c \in Courts /\ r[c] \in Numberings(Left(mine, c))
      BY <2>1 DEF Touched
    <3>2. Left(mine, c) \subseteq Active(c)
      BY DEF Left
    <3>3. r[c][u] \in 1..MaxTurns
      BY <3>1, <3>2, NumberingsBound
    <3> QED
      BY <3>3 DEF Left, Active, Waiting, Playing
  <2>3. \A u \in Turns : turn[u] \in TurnRow
    BY DEF TypeOK, RowsTypeOK
  <2> HIDE DEF mine
  <2> QED
    BY <2>1, <2>2, <2>3 DEF CancelAndRenumber, PositionsWithinMax, TurnRow
<1>10. ASSUME EndSession
      PROVE  PositionsWithinMax'
  BY <1>10 DEF EndSession, PositionsWithinMax, TypeOK, RowsTypeOK, TurnRow
<1>11. ASSUME CloseSession
      PROVE  PositionsWithinMax'
  BY <1>11 DEF CloseSession, PositionsWithinMax, TypeOK, RowsTypeOK, TurnRow
<1>12. ASSUME BoardEdit
      PROVE  PositionsWithinMax'
  BY <1>12, EditEffect DEF PositionsWithinMax, TypeOK, RowsTypeOK, TurnRow
<1>13. ASSUME Plain
      PROVE  PositionsWithinMax'
  BY <1>13 DEF Plain, SetMaintenance, SetUsable, CheckIn, SetAvailable, vars,
      PositionsWithinMax, TypeOK, RowsTypeOK, TurnRow
<1> QED
  BY <1>1, <1>2, <1>3, <1>4, <1>5, <1>6, <1>7, <1>8, <1>9, <1>10,
      <1>11, <1>12, <1>13, NextCases

(* No handler rewrites a finished turn.                                    *)
LEMMA StepKeepsFinished ==
  ASSUME TypeOK, GameMatchesTurn
  PROVE  [Next]_vars => KeepsFinished
<1> USE DEF TypeOK, RowsTypeOK, TurnRow, GameMatchesTurn, KeepsFinished
<1>1. ASSUME NEW c \in Courts, NEW G \in SUBSET Players, RegisterTurn(c, G)
      PROVE  KeepsFinished
  BY <1>1 DEF RegisterTurn, CreateTurn
<1>2. ASSUME NEW t \in Turns, CompleteTurn(t)
      PROVE  KeepsFinished
  BY <1>2, CompleteEffect DEF Promotion, Waiting
<1>3. ASSUME NEW t \in Turns, CancelTurn(t)
      PROVE  KeepsFinished
  BY <1>3, CancelEffect DEF CancelTurn
<1>4. ASSUME NEW c \in Courts, ClearCourt(c)
      PROVE  KeepsFinished
  BY <1>4 DEF ClearCourt, Waiting, Playing
<1>5. ASSUME NEW t \in Turns, NEW out \in Players, NEW in \in Players, ReplacePlayer(t, out, in)
      PROVE  KeepsFinished
  BY <1>5 DEF ReplacePlayer
<1>6. ASSUME NEW src \in Courts, NEW dst \in Courts, MoveCourtGame(src, dst)
      PROVE  KeepsFinished
  BY <1>6 DEF MoveCourtGame, FirstToMove, Waiting, Playing
<1>7. ASSUME NEW e \in Entries, NEW c \in Courts, PushEntry(e, c)
      PROVE  KeepsFinished
  BY <1>7 DEF PushEntry, CreateTurn
<1>8. ASSUME NEW e \in Entries, UnassignEntry(e)
      PROVE  KeepsFinished
  BY <1>8 DEF UnassignEntry
<1>9. ASSUME NEW p \in Players, CheckOut(p)
      PROVE  KeepsFinished
  BY <1>9, CheckOutEffect DEF CheckOut
<1>10. ASSUME EndSession
      PROVE  KeepsFinished
  BY <1>10 DEF EndSession
<1>11. ASSUME CloseSession
      PROVE  KeepsFinished
  BY <1>11 DEF CloseSession
<1>12. ASSUME BoardEdit
      PROVE  KeepsFinished
  BY <1>12, QuietSteps DEF Quiet
<1>13. ASSUME Plain
      PROVE  KeepsFinished
  BY <1>13, QuietSteps DEF Quiet
<1> QED
  BY <1>1, <1>2, <1>3, <1>4, <1>5, <1>6, <1>7, <1>8, <1>9, <1>10,
      <1>11, <1>12, <1>13, NextCases

(* No handler releases a court with a turn left on it.                     *)
LEMMA StepReleasesIdle ==
  ASSUME TypeOK, OnePlayingPerCourt
  PROVE  [Next]_vars => ReleasedIdle
<1> USE DEF TypeOK, RowsTypeOK, TurnRow, ReleasedIdle, CourtStatus
<1>1. ASSUME NEW c \in Courts, NEW G \in SUBSET Players, RegisterTurn(c, G)
      PROVE  ReleasedIdle
  BY <1>1 DEF RegisterTurn, CreateTurn
<1>2. ASSUME NEW t \in Turns, CompleteTurn(t)
      PROVE  ReleasedIdle
  <2>0. PICK d : d = turn[t].court
    OBVIOUS
  <2>1. PICK first \in SUBSET Turns : Promotion(t, first)
    BY <1>2, CompleteEffect
  <2>2. \A c \in Courts : court[c] = "IN_USE" /\ court'[c] = "EMPTY"
           => c = d /\ Waiting(d) = {}
    <3>1. court' = [court EXCEPT ![d] = IF Waiting(d) = {} THEN "EMPTY" ELSE "IN_USE"]
      BY <1>2, <2>0 DEF CompleteTurn
    <3> QED
      BY <3>1
  <2>3. ASSUME Waiting(d) = {}, NEW u \in Active(d)' PROVE FALSE
    <3>1. u \in Turns /\ turn'[u].status \in {"WAITING", "PLAYING"} /\ turn'[u].court = d
      BY <2>3 DEF Active, Waiting, Playing
    <3>2. u # t /\ u \notin first
      BY <2>0, <2>1, <2>3, <3>1 DEF Promotion
    <3>3. turn[u].status \in {"WAITING", "PLAYING"} /\ turn[u].court = d
      BY <2>1, <3>1, <3>2 DEF Promotion
    <3>4. turn[u].status = "PLAYING"
      BY <2>3, <3>1, <3>3 DEF Waiting
    <3> QED
      BY <2>0, <2>1, <3>1, <3>2, <3>3, <3>4 DEF Promotion, OnePlayingPerCourt
  <2> QED
    BY <2>2, <2>3
<1>3. ASSUME NEW t \in Turns, CancelTurn(t)
      PROVE  ReleasedIdle
  BY <1>3 DEF CancelTurn
<1>4. ASSUME NEW c \in Courts, ClearCourt(c)
      PROVE  ReleasedIdle
  BY <1>4 DEF ClearCourt, Active, Waiting, Playing, OnePlayingPerCourt
<1>5. ASSUME NEW t \in Turns, NEW out \in Players, NEW in \in Players, ReplacePlayer(t, out, in)
      PROVE  ReleasedIdle
  BY <1>5 DEF ReplacePlayer
<1>6. ASSUME NEW src \in Courts, NEW dst \in Courts, MoveCourtGame(src, dst)
      PROVE  ReleasedIdle
  BY <1>6, MoveCandidates DEF MoveCourtGame, Active, Waiting, Playing
<1>7. ASSUME NEW e \in Entries, NEW c \in Courts, PushEntry(e, c)
      PROVE  ReleasedIdle
  BY <1>7 DEF PushEntry, CreateTurn
<1>8. ASSUME NEW e \in Entries, UnassignEntry(e)
      PROVE  ReleasedIdle
  BY <1>8 DEF UnassignEntry, Active, Waiting, Playing
<1>9. ASSUME NEW p \in Players, CheckOut(p)
      PROVE  ReleasedIdle
  BY <1>9 DEF CheckOut
<1>10. ASSUME EndSession
      PROVE  ReleasedIdle
  BY <1>10 DEF EndSession, FreeCourts, Active, Waiting, Playing
<1>11. ASSUME CloseSession
      PROVE  ReleasedIdle
  BY <1>11 DEF CloseSession, FreeCourts, Active, Waiting, Playing
<1>12. ASSUME BoardEdit
      PROVE  ReleasedIdle
  BY <1>12 DEF BoardEdit, AddEntry, DeleteEntry, UpdateEntry, SetResting,
      SetPlayerLesson
<1>13. ASSUME Plain
      PROVE  ReleasedIdle
  BY <1>13 DEF Plain, SetMaintenance, SetUsable, CheckIn, SetAvailable, vars
<1> QED
  BY <1>1, <1>2, <1>3, <1>4, <1>5, <1>6, <1>7, <1>8, <1>9, <1>10,
      <1>11, <1>12, <1>13, NextCases

-----------------------------------------------------------------------------
(* The theorems.                                                           *)

(* A new session satisfies the invariant ...                               *)
LEMMA InitInv == Init => IInv
<1> SUFFICES ASSUME Init PROVE IInv
  OBVIOUS
<1>1. TypeOK
  BY InitType
<1>2. \A c : Active(c) = {}
  <2>1. \A t \in Turns : turn[t].status = "NONE"
    BY DEF Init, RowsInit, NoTurnRow
  <2> QED
    BY <2>1 DEF Active, Waiting, Playing
<1>3. CountWithinMax
  <2>1. ASSUME NEW c \in Courts PROVE Cardinality(Active(c)) = 0
    BY <1>2, FS_EmptySet, Zenon
  <2> QED
    BY <2>1, TurnBoardAssumption DEF CountWithinMax
<1>4. PositionsWithinMax /\ WaitingArePresent /\ OnePlayingPerCourt /\ GameMatchesTurn
  BY DEF Init, RowsInit, NoTurnRow, PositionsWithinMax, WaitingArePresent, OnePlayingPerCourt,
         GameMatchesTurn
<1>5. RowsLinked /\ EntryMatchesTurn /\ NoGhostWhileActive
  BY DEF Init, RowsInit, NoTurnRow, NoEntryRow, RowsLinked, EntryMatchesTurn, NoGhostWhileActive, GhostFree
<1> QED
  BY <1>1, <1>3, <1>4, <1>5 DEF IInv, WithinMaxTurns

(* ... and every step keeps it.                                            *)
LEMMA NextInv == IInv /\ [Next]_vars => IInv'
BY NextType, NextGame, NextOnePlaying, NextRowsLinked, NextEntryMatches, NextNoGhost,
   NextWaitingPresent, NextCount, NextPositions
DEF IInv, WithinMaxTurns

(* IInv holds in every reachable state, whatever the size of the hall.      *)
THEOREM Invariant == Spec => []IInv
BY InitInv, NextInv, PTL DEF Spec

(* Every handler leaves every row well formed.                              *)
THEOREM TypeCorrect == Spec => []TypeOK
<1>1. IInv => TypeOK
  BY DEF IInv
<1> QED
  BY <1>1, Invariant, PTL

(* A game is in progress exactly while its turn is played, and counts as    *)
(* played exactly when its turn was completed.                              *)
THEOREM GamesFollowTurns == Spec => []GameMatchesTurn
<1>1. IInv => GameMatchesTurn
  BY DEF IInv
<1> QED
  BY <1>1, Invariant, PTL

(* Two games are never in play on one court when handlers run one by one.   *)
THEOREM OneGamePerCourt == Spec => []OnePlayingPerCourt
<1>1. IInv => OnePlayingPerCourt
  BY DEF IInv
<1> QED
  BY <1>1, Invariant, PTL

(* The board shows each materialised entry where its turn is, with the      *)
(* players of its turn.                                                     *)
THEOREM BoardFollowsTurns == Spec => []EntryMatchesTurn
<1>1. IInv => EntryMatchesTurn
  BY DEF IInv
<1> QED
  BY <1>1, Invariant, PTL

(* While the session runs, no entry stays on a court whose turn is over.    *)
THEOREM NoGhosts == Spec => []NoGhostWhileActive
<1>1. IInv => NoGhostWhileActive
  BY DEF IInv
<1> QED
  BY <1>1, Invariant, PTL

(* Nobody who checked out stays in a waiting turn.                          *)
THEOREM WaitingAreThere == Spec => []WaitingArePresent
<1>1. IInv => WaitingArePresent
  BY DEF IInv
<1> QED
  BY <1>1, Invariant, PTL

(* No court holds more turns, and no turn a later position, than            *)
(* maxTurnsPerCourt.                                                        *)
THEOREM TurnsBounded == Spec => []WithinMaxTurns
<1>1. IInv => WithinMaxTurns
  BY DEF IInv
<1> QED
  BY <1>1, Invariant, PTL

(* What was played or cancelled is never rewritten.                         *)
THEOREM HistoryKept == Spec => FinishedStaysFinished
<1>1. IInv /\ [Next]_vars => [KeepsFinished]_vars
  BY StepKeepsFinished DEF IInv
<1> QED
  BY <1>1, Invariant, PTL DEF Spec, FinishedStaysFinished

(* A court in use is released only when no turn is left on it.              *)
THEOREM CourtsReleasedIdle == Spec => ReleasedOnlyWhenIdle
<1>1. IInv /\ [Next]_vars => [ReleasedIdle]_vars
  BY StepReleasesIdle DEF IInv
<1> QED
  BY <1>1, Invariant, PTL DEF Spec, ReleasedOnlyWhenIdle
=============================================================================
