-------------------------- MODULE TurnRacesProofs --------------------------
(***************************************************************************)
(* Theorems of TurnRaces for every set of rows and requests, whatever      *)
(* overlaps and crashes.  What a handler has read may be stale by the time *)
(* it is used, so the invariant says only what no other request can take   *)
(* back: which rows a handler at each of its calls refers to, and that a   *)
(* turn, once started, is never again one that waits.                      *)
(***************************************************************************)
EXTENDS TurnRaces, FiniteSetTheorems, TLAPS

\* The calls that name a turn, a board entry, or the two players of a swap.
TurnCalls == {"start", "createGame", "load", "endGame", "loadWaiting", "loadPlayers",
              "inElsewhere", "readEntry", "swap"}
SwapCalls == {"loadPlayers", "inElsewhere", "readEntry", "swap"}
GameCalls == {"createGame", "endGame"}

Started(t) == turn[t].status \notin {"NONE", "WAITING"}
IsNowStarted(t) == turn'[t].status \notin {"NONE", "WAITING"}

\* What the handler of r, wherever it stands, can rely on.
HoldsRows(r) ==
  /\ r.at \in TurnCalls => r.turn \in Turns
  /\ r.at = "renumber" => r.turn \in Turns \/ r.kind = "cancel"
  /\ r.at = "remaining" => r.kind = "cancel"
  /\ r.at \in {"free", "entry"} => r.entry \in Entries
  /\ r.at \in SwapCalls => r.in \in Players

RequestsHoldRows == \A p \in Requests : HoldsRows(req[p])
GamesAreCreatedLate == \A p \in Requests : req[p].at \in GameCalls => Started(req[p].turn)

\* The inductive invariant.
RacesInv == TypeOK /\ RequestsHoldRows /\ GamesAreCreatedLate /\ GameOnlyOnceStarted

-----------------------------------------------------------------------------
(* Requests                                                                *)

(* Rows numbered by a handler: the numbers count from one, so what is left *)
(* to write is a set of turns and naturals.                                *)
LEMMA NumberedType ==
  ASSUME NEW S \in SUBSET Turns, NEW r \in Numberings(S)
  PROVE  /\ Numbered(r) \in SUBSET (Turns \X Nat)
         /\ Updates(r) \in SUBSET (Turns \X Nat)
<1>1. IsFiniteSet(S) /\ Cardinality(S) \in Nat
  BY TurnRacesAssumption, FS_Subset, FS_CardinalityType
<1>2. r \in [S -> Nat]
  BY <1>1 DEF Numberings
<1>3. \A u \in Numbered(r) : u \in Turns \X Nat
  BY <1>2 DEF Numbered
<1>. QED
  BY <1>3 DEF Updates

(* The waiting and the active turns of a court are turns.                  *)
LEMMA QueriesType ==
  ASSUME NEW c
  PROVE  /\ Waiting(c) \in SUBSET Turns /\ Playing(c) \in SUBSET Turns
         /\ Active(c) \in SUBSET Turns /\ Cardinality(Active(c)) \in Nat
<1>1. Waiting(c) \in SUBSET Turns /\ Playing(c) \in SUBSET Turns /\ Active(c) \in SUBSET Turns
  BY DEF Active, Waiting, Playing
<1>. QED
  BY <1>1, TurnRacesAssumption, FS_Subset, FS_CardinalityType

(* An idle request is a request.                                           *)
LEMMA IdleType == Idle \in RequestRow /\ HoldsRows(Idle) /\ Idle.at = "idle"
BY DEF Idle, RequestRow, RequestKinds, Places, HoldsRows, TurnCalls, SwapCalls

\* One request is now r, which may rely on the rows as they are now.
Becomes(p, r) == /\ req' = [req EXCEPT ![p] = r]
                 /\ r \in RequestRow /\ HoldsRows(r)
                 /\ r.at \in GameCalls => IsNowStarted(r.turn)
MovesOn(p) == \E r : Becomes(p, r)

(* A request that only goes on to its next call still has its rows.        *)
LEMMA GotoMovesOn ==
  ASSUME TypeOK, NEW p \in Requests, NEW l \in Places, Goto(p, l),
         l \in TurnCalls => req[p].turn \in Turns,
         l = "renumber" => req[p].turn \in Turns \/ req[p].kind = "cancel",
         l = "remaining" => req[p].kind = "cancel",
         l \in {"free", "entry"} => req[p].entry \in Entries,
         l \in SwapCalls => req[p].in \in Players,
         l \in GameCalls => IsNowStarted(req[p].turn)
  PROVE  MovesOn(p)
<1>1. PICK r : r = IF l = "idle" THEN Idle ELSE [req[p] EXCEPT !.at = l]
  OBVIOUS
<1>2. req[p] \in RequestRow
  BY DEF TypeOK
<1>3. CASE l = "idle"
  <2>1. r = Idle /\ req' = [req EXCEPT ![p] = r]
    BY <1>1, <1>3 DEF Goto
  <2>. QED
    BY <2>1, IdleType DEF Becomes, MovesOn, GameCalls
<1>4. CASE l # "idle"
  <2>1. r = [req[p] EXCEPT !.at = l] /\ req' = [req EXCEPT ![p] = r]
    BY <1>1, <1>4 DEF Goto
  <2>2. r \in RequestRow /\ r.at = l /\ r.turn = req[p].turn
        /\ r.entry = req[p].entry /\ r.in = req[p].in /\ r.kind = req[p].kind
    BY <1>2, <2>1 DEF RequestRow
  <2>3. HoldsRows(r)
    BY <2>2 DEF HoldsRows
  <2>4. r.at \in GameCalls => IsNowStarted(r.turn)
    BY <2>2
  <2>. QED
    BY <2>1, <2>2, <2>3, <2>4 DEF Becomes, MovesOn
<1>. QED
  BY <1>3, <1>4

LEMMA DoneMovesOn ==
  ASSUME TypeOK, NEW p \in Requests, Done(p)
  PROVE  MovesOn(p)
BY GotoMovesOn DEF Done, Places, TurnCalls, SwapCalls, GameCalls

-----------------------------------------------------------------------------
(* Rows                                                                    *)

\* What no step takes back: the rows are of their types, a turn that was
\* started is not one that waits, and whoever has a game was started.
RowsMoveOn ==
  /\ RowsTypeOK'
  /\ \A t \in Turns : Started(t) => IsNowStarted(t)
  /\ \A t \in Turns : game'[t] # "NONE" => IsNowStarted(t)

(* A read changes no row.                                                  *)
LEMMA ReadsMoveOn ==
  ASSUME RacesInv, UNCHANGED rows
  PROVE  RowsMoveOn
BY DEF RacesInv, TypeOK, RowsTypeOK, RowsMoveOn, GameOnlyOnceStarted, Started, IsNowStarted, rows

(* Nor does a write to the courts or the board change any turn.            *)
LEMMA BoardWritesMoveOn ==
  ASSUME RacesInv, UNCHANGED <<turn, game>>,
         court' \in [Courts -> CourtStatus], entry' \in [Entries -> EntryRow]
  PROVE  RowsMoveOn
BY DEF RacesInv, TypeOK, RowsTypeOK, RowsMoveOn, GameOnlyOnceStarted, Started, IsNowStarted

(* Closing entries keeps them of their type.                               *)
LEMMA CloseEntriesType ==
  ASSUME NEW S, NEW status \in EntryStatus, entry \in [Entries -> EntryRow]
  PROVE  CloseEntries(entry, S, status) \in [Entries -> EntryRow]
BY DEF CloseEntries, EntryRow

(* A write to turns that takes no started turn back.                       *)
LEMMA TurnWritesMoveOn ==
  ASSUME RacesInv, turn' \in [Turns -> TurnRow], UNCHANGED <<court, entry>>, UNCHANGED game,
         \A t \in Turns : Started(t) => IsNowStarted(t)
  PROVE  RowsMoveOn
BY DEF RacesInv, TypeOK, RowsTypeOK, RowsMoveOn, GameOnlyOnceStarted, Started, IsNowStarted

(* Setting a turn to a status that is not one of a turn in the queue.      *)
LEMMA SetStatus ==
  ASSUME TypeOK, NEW t, NEW s \in TurnStatus \ {"NONE", "WAITING"},
         turn' = [turn EXCEPT ![t].status = s]
  PROVE  /\ turn' \in [Turns -> TurnRow]
         /\ \A u \in Turns : Started(u) => IsNowStarted(u)
         /\ t \in Turns => IsNowStarted(t)
<1>1. turn \in [Turns -> TurnRow]
  BY DEF TypeOK, RowsTypeOK
<1>2. turn' \in [Turns -> TurnRow]
  BY <1>1 DEF TurnRow
<1>. QED
  BY <1>1, <1>2 DEF TurnRow, Started, IsNowStarted

-----------------------------------------------------------------------------
(* Assigning and registering                                               *)

(* The rows a request under way may rely on.                               *)
LEMMA Relies ==
  ASSUME RacesInv, NEW p \in Requests
  PROVE  /\ TypeOK /\ req[p] \in RequestRow /\ HoldsRows(req[p])
         /\ req[p].at \in GameCalls => Started(req[p].turn)
         /\ \A t \in Turns : game[t] # "NONE" => Started(t)
BY DEF RacesInv, TypeOK, RequestsHoldRows, GamesAreCreatedLate, GameOnlyOnceStarted, Started

(* assignEntry, pushEntry and registerTurn up to the new turn.             *)
LEMMA RegisterSteps ==
  ASSUME RacesInv, NEW p \in Requests,
         CheckFree(p) \/ ReadEntry(p) \/ CheckElsewhere(p) \/ CountTurns(p)
  PROVE  MovesOn(p) /\ RowsMoveOn
<1>0. /\ TypeOK /\ req[p] \in RequestRow /\ HoldsRows(req[p])
  BY Relies
<1>1. RowsMoveOn
  BY ReadsMoveOn DEF CheckFree, ReadEntry, CheckElsewhere, CountTurns
<1>. SUFFICES MovesOn(p)
  BY <1>1
<1>2. CASE CheckFree(p)
  <2>1. req[p].entry \in Entries
    BY <1>0, <1>2 DEF CheckFree, At, HoldsRows
  <2>2. Goto(p, "entry") => MovesOn(p)
    BY <1>0, <2>1, GotoMovesOn DEF Places, TurnCalls, SwapCalls, GameCalls
  <2>. QED
    BY <1>0, <1>2, <2>2, DoneMovesOn DEF CheckFree
<1>3. CASE ReadEntry(p)
  <2>1. PICK e : e = entry[req[p].entry]
    OBVIOUS
  <2>2. e \in EntryRow
    BY <1>0, <1>3, <2>1 DEF ReadEntry, At, HoldsRows, TypeOK, RowsTypeOK
  <2>3. CASE e.status = "QUEUED" /\ Cardinality(e.players) \in 2..4
    <3>1. PICK r : r = [req[p] EXCEPT !.at = "elsewhere", !.players = e.players]
      OBVIOUS
    <3>2. req' = [req EXCEPT ![p] = r]
      BY <1>0, <1>3, <2>1, <2>3, <3>1 DEF ReadEntry, TypeOK
    <3>3. r \in RequestRow /\ r.at = "elsewhere"
      BY <1>0, <2>2, <3>1 DEF RequestRow, EntryRow, Places
    <3>. QED
      BY <3>2, <3>3 DEF MovesOn, Becomes, HoldsRows, TurnCalls, SwapCalls, GameCalls
  <2>4. CASE ~(e.status = "QUEUED" /\ Cardinality(e.players) \in 2..4)
    BY <1>0, <1>3, <2>1, <2>4, DoneMovesOn DEF ReadEntry
  <2>. QED
    BY <2>3, <2>4
<1>4. CASE CheckElsewhere(p)
  <2>1. Goto(p, "count") => MovesOn(p)
    BY <1>0, GotoMovesOn DEF Places, TurnCalls, SwapCalls, GameCalls
  <2>. QED
    BY <1>0, <1>4, <2>1, DoneMovesOn DEF CheckElsewhere
<1>5. CASE CountTurns(p)
  <2>1. PICK n \in Nat : n = Cardinality(Active(req[p].court))
    BY QueriesType
  <2>2. CASE n < MaxTurns
    <3>1. PICK r : r = [req[p] EXCEPT !.at = "create", !.count = n]
      OBVIOUS
    <3>2. req' = [req EXCEPT ![p] = r]
      BY <1>0, <1>5, <2>1, <2>2, <3>1 DEF CountTurns, TypeOK
    <3>3. r \in RequestRow /\ r.at = "create"
      BY <1>0, <3>1 DEF RequestRow, Places
    <3>. QED
      BY <3>2, <3>3 DEF MovesOn, Becomes, HoldsRows, TurnCalls, SwapCalls, GameCalls
  <2>3. CASE ~(n < MaxTurns)
    BY <1>0, <1>5, <2>1, <2>3, DoneMovesOn DEF CountTurns
  <2>. QED
    BY <2>2, <2>3
<1>. QED
  BY <1>2, <1>3, <1>4, <1>5

(* The new turn waits in the queue; if the court was idle it will be       *)
(* started.                                                                *)
LEMMA CreateTurnStep ==
  ASSUME RacesInv, NEW p \in Requests, CreateTurn(p)
  PROVE  MovesOn(p) /\ RowsMoveOn
<1>1. /\ TypeOK /\ req[p] \in RequestRow
  BY Relies
<1>2. PICK n \in Nat : n = req[p].count
  BY <1>1 DEF RequestRow
<1>3. PICK t \in Turns :
        /\ turn[t].status = "NONE"
        /\ turn' = [turn EXCEPT ![t] = [status |-> "WAITING", court |-> req[p].court,
                                        pos |-> n + 1, players |-> req[p].players]]
        /\ IF n > 0 /\ req[p].kind = "register"
           THEN Done(p)
           ELSE req' = [req EXCEPT ![p].turn = t,
                                   ![p].at = IF n = 0 THEN "start" ELSE "mark"]
  BY <1>2 DEF CreateTurn
<1>4. turn' \in [Turns -> TurnRow]
  <2>1. [status |-> "WAITING", court |-> req[p].court, pos |-> n + 1,
         players |-> req[p].players] \in TurnRow
    BY <1>1 DEF RequestRow, TurnRow, TurnStatus
  <2>. QED
    BY <1>1, <1>3, <2>1 DEF TypeOK, RowsTypeOK
<1>5. \A u \in Turns : Started(u) => IsNowStarted(u)
  BY <1>1, <1>3 DEF Started, IsNowStarted, TypeOK, RowsTypeOK
<1>6. RowsMoveOn
  BY <1>4, <1>5, TurnWritesMoveOn DEF CreateTurn
<1>7. CASE n > 0 /\ req[p].kind = "register"
  BY <1>1, <1>3, <1>6, <1>7, DoneMovesOn
<1>8. CASE ~(n > 0 /\ req[p].kind = "register")
  <2>1. PICK l \in {"start", "mark"} : l = IF n = 0 THEN "start" ELSE "mark"
    OBVIOUS
  <2>2. PICK r : r = [req[p] EXCEPT !.turn = t, !.at = l]
    OBVIOUS
  <2>3. req' = [req EXCEPT ![p] = r]
    BY <1>1, <1>3, <1>8, <2>1, <2>2 DEF TypeOK
  <2>4. r \in RequestRow /\ r.at = l /\ r.turn = t
    BY <1>1, <2>2 DEF RequestRow, Places
  <2>. QED
    BY <1>6, <2>3, <2>4 DEF MovesOn, Becomes, HoldsRows, TurnCalls, SwapCalls, GameCalls
<1>. QED
  BY <1>7, <1>8

(* The three writes of startTurn, and the last one of pushEntry.           *)
LEMMA StartTurnStep ==
  ASSUME RacesInv, NEW p \in Requests, StartTurn(p)
  PROVE  MovesOn(p) /\ RowsMoveOn
<1>1. /\ TypeOK /\ req[p] \in RequestRow /\ req[p].turn \in Turns
  BY Relies DEF StartTurn, At, HoldsRows, TurnCalls
<1>2. /\ turn' \in [Turns -> TurnRow]
      /\ \A u \in Turns : Started(u) => IsNowStarted(u)
      /\ IsNowStarted(req[p].turn)
  <2>1. PICK t \in Turns : t = req[p].turn
    BY <1>1
  <2>2. turn' = [turn EXCEPT ![t].status = "PLAYING"]
    BY <2>1 DEF StartTurn
  <2>3. "PLAYING" \in TurnStatus \ {"NONE", "WAITING"}
    BY DEF TurnStatus
  <2>. QED
    BY <1>1, <2>1, <2>2, <2>3, SetStatus
<1>3. RowsMoveOn
  BY <1>2, TurnWritesMoveOn DEF StartTurn
<1>4. MovesOn(p)
  BY <1>1, <1>2, GotoMovesOn DEF StartTurn, Places, TurnCalls, SwapCalls
<1>. QED
  BY <1>3, <1>4

(* A game is written for a turn that was started by then.                  *)
LEMMA GameWritesMoveOn ==
  ASSUME RacesInv, NEW t \in Turns, Started(t), NEW s \in GameStatus,
         game' = [game EXCEPT ![t] = s], UNCHANGED <<turn, court, entry>>
  PROVE  RowsMoveOn
<1>1. game' \in [Turns -> GameStatus] /\ \A u \in Turns : game'[u] # "NONE" => Started(u)
  BY DEF RacesInv, TypeOK, RowsTypeOK, GameOnlyOnceStarted, Started
<1>. QED
  BY <1>1 DEF RacesInv, TypeOK, RowsTypeOK, RowsMoveOn, Started, IsNowStarted

LEMMA CreateGameStep ==
  ASSUME RacesInv, NEW p \in Requests, CreateGame(p)
  PROVE  MovesOn(p) /\ RowsMoveOn
<1>1. /\ TypeOK /\ req[p].turn \in Turns /\ Started(req[p].turn)
  BY Relies DEF CreateGame, At, HoldsRows, TurnCalls, GameCalls
<1>2. CASE game[req[p].turn] = "NONE"
  <2>1. RowsMoveOn
    BY <1>1, <1>2, GameWritesMoveOn DEF CreateGame, GameStatus
  <2>2. MovesOn(p)
    BY <1>1, <1>2, GotoMovesOn DEF CreateGame, Places, TurnCalls, SwapCalls, GameCalls
  <2>. QED
    BY <2>1, <2>2
<1>3. CASE game[req[p].turn] # "NONE"
  BY <1>1, <1>3, DoneMovesOn, ReadsMoveOn DEF CreateGame, rows
<1>. QED
  BY <1>2, <1>3

LEMMA EndGameStep ==
  ASSUME RacesInv, NEW p \in Requests, EndGame(p)
  PROVE  MovesOn(p) /\ RowsMoveOn
<1>1. /\ TypeOK /\ req[p].turn \in Turns /\ Started(req[p].turn)
  BY Relies DEF EndGame, At, HoldsRows, TurnCalls, GameCalls
<1>2. RowsMoveOn
  BY <1>1, GameWritesMoveOn DEF EndGame, GameStatus
<1>3. MovesOn(p)
  BY <1>1, GotoMovesOn DEF EndGame, Places, TurnCalls, SwapCalls, GameCalls
<1>. QED
  BY <1>2, <1>3

(* The writes to a court.                                                  *)
LEMMA CourtSteps ==
  ASSUME RacesInv, NEW p \in Requests, MarkInUse(p) \/ LeaveEmpty(p) \/ Release(p)
  PROVE  MovesOn(p) /\ RowsMoveOn
<1>1. TypeOK
  BY Relies
<1>2. /\ court' \in [Courts -> CourtStatus]
      /\ UNCHANGED <<turn, game, entry>>
  BY <1>1 DEF MarkInUse, LeaveEmpty, Release, TypeOK, RowsTypeOK, CourtStatus
<1>3. RowsMoveOn
  BY <1>1, <1>2, BoardWritesMoveOn DEF TypeOK, RowsTypeOK
<1>4. Goto(p, AfterStart(req[p])) => MovesOn(p)
  <2>1. AfterStart(req[p]) \in {"mark", "recount", "idle"}
    BY DEF AfterStart
  <2>. QED
    BY <1>1, <2>1, GotoMovesOn DEF Places, TurnCalls, SwapCalls, GameCalls
<1>. QED
  BY <1>1, <1>3, <1>4, DoneMovesOn DEF MarkInUse, LeaveEmpty, Release

(* The writes to the board: marking an entry as materialised, closing it.  *)
LEMMA MarkEntryStep ==
  ASSUME RacesInv, NEW p \in Requests, MarkEntry(p)
  PROVE  MovesOn(p) /\ RowsMoveOn
<1>1. TypeOK /\ req[p] \in RequestRow
  BY Relies
<1>2. \A e \in Entries :
        [status |-> "MATERIALIZED", turn |-> req[p].turn, court |-> req[p].court,
         players |-> entry[e].players] \in EntryRow
  BY <1>1 DEF TypeOK, RowsTypeOK, EntryRow, EntryStatus, RequestRow
<1>3. entry' \in [Entries -> EntryRow]
  BY <1>1, <1>2 DEF MarkEntry, TypeOK, RowsTypeOK
<1>4. RowsMoveOn
  BY <1>1, <1>3, BoardWritesMoveOn DEF MarkEntry, TypeOK, RowsTypeOK
<1>. QED
  BY <1>1, <1>4, DoneMovesOn DEF MarkEntry

-----------------------------------------------------------------------------
(* Completing, clearing and cancelling                                     *)

(* A turn read as one in play goes on to its game or its end.              *)
LEMMA EndFromMovesOn ==
  ASSUME RacesInv, NEW p \in Requests, NEW t \in Turns, turn[t].status = "PLAYING",
         NEW r \in RequestRow, r.at = EndFrom(t), r.turn = t,
         req' = [req EXCEPT ![p] = r], UNCHANGED turn
  PROVE  MovesOn(p)
<1>1. r.at \in {"endTurn", "endGame"}
  BY DEF EndFrom
<1>2. HoldsRows(r)
  BY <1>1 DEF HoldsRows, TurnCalls, SwapCalls
<1>3. IsNowStarted(r.turn)
  BY DEF IsNowStarted
<1>. QED
  BY <1>2, <1>3 DEF MovesOn, Becomes

LEMMA LoadTurnStep ==
  ASSUME RacesInv, NEW p \in Requests, LoadTurn(p)
  PROVE  MovesOn(p) /\ RowsMoveOn
<1>1. RowsMoveOn
  BY ReadsMoveOn DEF LoadTurn
<1>2. /\ TypeOK /\ req[p] \in RequestRow /\ req[p].turn \in Turns
  BY Relies DEF LoadTurn, At, HoldsRows, TurnCalls
<1>3. PICK t \in Turns : t = req[p].turn
  BY <1>2
<1>4. CASE turn[t].status = "PLAYING"
  <2>1. EndFrom(t) \in Places
    BY DEF EndFrom, Places
  <2>2. PICK r : r = [req[p] EXCEPT !.at = EndFrom(t), !.court = turn[t].court]
    OBVIOUS
  <2>3. req' = [req EXCEPT ![p] = r]
    BY <1>2, <1>3, <1>4, <2>2 DEF LoadTurn, TypeOK
  <2>4. turn[t].court \in Courts \cup {None}
    BY <1>2 DEF TypeOK, RowsTypeOK, TurnRow
  <2>5. r \in RequestRow /\ r.at = EndFrom(t) /\ r.turn = t
    BY <1>2, <1>3, <2>1, <2>2, <2>4 DEF RequestRow
  <2>6. UNCHANGED turn
    BY DEF LoadTurn, rows
  <2>. QED
    BY <1>1, <1>4, <2>3, <2>5, <2>6, EndFromMovesOn
<1>5. CASE turn[t].status # "PLAYING"
  BY <1>1, <1>2, <1>3, <1>5, DoneMovesOn DEF LoadTurn
<1>. QED
  BY <1>4, <1>5

(* The turn is over, whatever became of it meanwhile.                      *)
LEMMA EndTurnStep ==
  ASSUME RacesInv, NEW p \in Requests, EndTurn(p)
  PROVE  MovesOn(p) /\ RowsMoveOn
<1>1. TypeOK
  BY Relies
<1>2. "COMPLETED" \in TurnStatus \ {"NONE", "WAITING"}
  BY DEF TurnStatus
<1>3. PICK t : t = req[p].turn
  OBVIOUS
<1>4. turn' = [turn EXCEPT ![t].status = "COMPLETED"]
  BY <1>3 DEF EndTurn
<1>5. /\ turn' \in [Turns -> TurnRow]
      /\ \A u \in Turns : Started(u) => IsNowStarted(u)
  BY <1>1, <1>2, <1>4, SetStatus
<1>6. RowsMoveOn
  BY <1>5, TurnWritesMoveOn DEF EndTurn
<1>. QED
  BY <1>1, <1>6, GotoMovesOn DEF EndTurn, Places, TurnCalls, SwapCalls, GameCalls

LEMMA EndEntryStep ==
  ASSUME RacesInv, NEW p \in Requests, EndEntry(p)
  PROVE  MovesOn(p) /\ RowsMoveOn
<1>1. TypeOK
  BY Relies
<1>2. entry' \in [Entries -> EntryRow]
  BY <1>1, CloseEntriesType DEF EndEntry, TypeOK, RowsTypeOK, EntryStatus
<1>3. RowsMoveOn
  BY <1>1, <1>2, BoardWritesMoveOn DEF EndEntry, TypeOK, RowsTypeOK
<1>. QED
  BY <1>1, <1>3, GotoMovesOn DEF EndEntry, Places, TurnCalls, SwapCalls, GameCalls

(* The queue as it was read: the turn to start is one of it.               *)
LEMMA ReadQueueStep ==
  ASSUME RacesInv, NEW p \in Requests, ReadQueue(p)
  PROVE  MovesOn(p) /\ RowsMoveOn
<1>1. RowsMoveOn
  BY ReadsMoveOn DEF ReadQueue
<1>2. /\ TypeOK /\ req[p] \in RequestRow
  BY Relies
<1>3. PICK W : W = Waiting(req[p].court)
  OBVIOUS
<1>4. CASE W = {}
  BY <1>1, <1>2, <1>3, <1>4, GotoMovesOn DEF ReadQueue, Places, TurnCalls, SwapCalls, GameCalls
<1>5. CASE W # {}
  <2>1. PICK r \in Numberings(W), t \in W :
          req' = [req EXCEPT ![p].at = IF Updates(r) = {} THEN "start" ELSE "renumber",
                             ![p].turn = t, ![p].todo = Updates(r)]
    BY <1>3, <1>5 DEF ReadQueue
  <2>2. W \in SUBSET Turns
    BY <1>3, QueriesType
  <2>3. Updates(r) \in SUBSET (Turns \X Nat)
    BY <2>2, NumberedType
  <2>4. PICK l \in {"start", "renumber"} : l = IF Updates(r) = {} THEN "start" ELSE "renumber"
    OBVIOUS
  <2>5. PICK x : x = [req[p] EXCEPT !.at = l, !.turn = t, !.todo = Updates(r)]
    OBVIOUS
  <2>6. req' = [req EXCEPT ![p] = x]
    BY <1>2, <2>1, <2>4, <2>5 DEF TypeOK
  <2>7. x \in RequestRow /\ x.at = l /\ x.turn = t
    BY <1>2, <2>2, <2>3, <2>5 DEF RequestRow, Places
  <2>8. HoldsRows(x)
    BY <2>2, <2>7 DEF HoldsRows, TurnCalls, SwapCalls
  <2>. QED
    BY <1>1, <2>6, <2>7, <2>8 DEF MovesOn, Becomes, GameCalls
<1>. QED
  BY <1>4, <1>5

(* Each number written is one of those that were worked out.               *)
LEMMA RenumberStep ==
  ASSUME RacesInv, NEW p \in Requests, Renumber(p)
  PROVE  MovesOn(p) /\ RowsMoveOn
<1>1. /\ TypeOK /\ req[p] \in RequestRow /\ HoldsRows(req[p]) /\ req[p].at = "renumber"
  BY Relies DEF Renumber, At
<1>2. PICK u \in First(p) :
        /\ turn' = [turn EXCEPT ![u[1]].pos = u[2]]
        /\ IF req[p].todo # {u} THEN req' = [req EXCEPT ![p].todo = @ \ {u}]
           ELSE Goto(p, IF req[p].kind = "cancel" THEN "idle" ELSE "start")
  BY DEF Renumber
<1>3. u[1] \in Turns /\ u[2] \in Nat
  BY <1>1, <1>2 DEF First, RequestRow
<1>4. turn' \in [Turns -> TurnRow]
  BY <1>1, <1>2, <1>3 DEF TypeOK, RowsTypeOK, TurnRow
<1>5. \A t \in Turns : Started(t) => IsNowStarted(t)
  BY <1>1, <1>2, <1>3 DEF Started, IsNowStarted, TypeOK, RowsTypeOK, TurnRow
<1>6. RowsMoveOn
  BY <1>4, <1>5, TurnWritesMoveOn DEF Renumber
<1>7. CASE req[p].todo # {u}
  <2>1. PICK r : r = [req[p] EXCEPT !.todo = @ \ {u}]
    OBVIOUS
  <2>2. req' = [req EXCEPT ![p] = r]
    BY <1>1, <1>2, <1>7, <2>1 DEF TypeOK
  <2>3. r \in RequestRow /\ r.at = "renumber" /\ r.turn = req[p].turn /\ r.kind = req[p].kind
    BY <1>1, <2>1 DEF RequestRow
  <2>4. HoldsRows(r)
    BY <1>1, <2>3 DEF HoldsRows, TurnCalls, SwapCalls
  <2>. QED
    BY <1>6, <2>2, <2>3, <2>4 DEF MovesOn, Becomes, GameCalls
<1>8. CASE req[p].todo = {u} /\ req[p].kind = "cancel"
  BY <1>1, <1>2, <1>6, <1>8, DoneMovesOn DEF Done
<1>9. CASE req[p].todo = {u} /\ req[p].kind # "cancel"
  <2>1. Goto(p, "start") /\ req[p].turn \in Turns
    BY <1>1, <1>2, <1>9 DEF HoldsRows
  <2>. QED
    BY <1>1, <1>6, <2>1, GotoMovesOn DEF Places, TurnCalls, SwapCalls, GameCalls
<1>. QED
  BY <1>7, <1>8, <1>9

(* The reads of clearing a court.                                          *)
LEMMA ListWaitingStep ==
  ASSUME RacesInv, NEW p \in Requests, ListWaiting(p)
  PROVE  MovesOn(p) /\ RowsMoveOn
<1>1. RowsMoveOn
  BY ReadsMoveOn DEF ListWaiting
<1>2. /\ TypeOK /\ req[p] \in RequestRow
  BY Relies
<1>3. PICK n \in Numberings(Waiting(req[p].court)) :
        req' = [req EXCEPT ![p].at = IF Numbered(n) = {} THEN "playing" ELSE "cancel",
                           ![p].todo = Numbered(n)]
  BY DEF ListWaiting
<1>4. Numbered(n) \in SUBSET (Turns \X Nat)
  BY QueriesType, NumberedType
<1>5. PICK l \in {"playing", "cancel"} : l = IF Numbered(n) = {} THEN "playing" ELSE "cancel"
  OBVIOUS
<1>6. PICK r : r = [req[p] EXCEPT !.at = l, !.todo = Numbered(n)]
  OBVIOUS
<1>7. req' = [req EXCEPT ![p] = r]
  BY <1>2, <1>3, <1>5, <1>6 DEF TypeOK
<1>8. r \in RequestRow /\ r.at = l
  BY <1>2, <1>4, <1>6 DEF RequestRow, Places
<1>. QED
  BY <1>1, <1>7, <1>8 DEF MovesOn, Becomes, HoldsRows, TurnCalls, SwapCalls, GameCalls

LEMMA FindPlayingStep ==
  ASSUME RacesInv, NEW p \in Requests, FindPlaying(p)
  PROVE  MovesOn(p) /\ RowsMoveOn
<1>1. RowsMoveOn
  BY ReadsMoveOn DEF FindPlaying
<1>2. /\ TypeOK /\ req[p] \in RequestRow
  BY Relies
<1>3. CASE Playing(req[p].court) = {}
  BY <1>1, <1>2, <1>3, GotoMovesOn
  DEF FindPlaying, Places, TurnCalls, SwapCalls, GameCalls
<1>4. CASE Playing(req[p].court) # {}
  <2>1. PICK t \in Playing(req[p].court) :
          req' = [req EXCEPT ![p].at = EndFrom(t), ![p].turn = t]
    BY <1>4 DEF FindPlaying
  <2>2. t \in Turns /\ turn[t].status = "PLAYING"
    BY DEF Playing
  <2>3. EndFrom(t) \in Places
    BY DEF EndFrom, Places
  <2>4. PICK r : r = [req[p] EXCEPT !.at = EndFrom(t), !.turn = t]
    OBVIOUS
  <2>5. req' = [req EXCEPT ![p] = r]
    BY <1>2, <2>1, <2>4 DEF TypeOK
  <2>6. r \in RequestRow /\ r.at = EndFrom(t) /\ r.turn = t
    BY <1>2, <2>2, <2>3, <2>4 DEF RequestRow
  <2>7. UNCHANGED turn
    BY DEF FindPlaying, rows
  <2>. QED
    BY <1>1, <2>2, <2>5, <2>6, <2>7, EndFromMovesOn
<1>. QED
  BY <1>3, <1>4

LEMMA RecountStep ==
  ASSUME RacesInv, NEW p \in Requests, Recount(p)
  PROVE  MovesOn(p) /\ RowsMoveOn
<1>1. RowsMoveOn
  BY ReadsMoveOn DEF Recount
<1>2. TypeOK
  BY Relies
<1>. QED
  BY <1>1, <1>2, GotoMovesOn, DoneMovesOn
  DEF Recount, Places, TurnCalls, SwapCalls, GameCalls

(* cancelTurn, and the turns listed to be cancelled.                       *)
LEMMA LoadWaitingStep ==
  ASSUME RacesInv, NEW p \in Requests, LoadWaiting(p)
  PROVE  MovesOn(p) /\ RowsMoveOn
<1>1. RowsMoveOn
  BY ReadsMoveOn DEF LoadWaiting
<1>2. /\ TypeOK /\ req[p] \in RequestRow /\ req[p].turn \in Turns
  BY Relies DEF LoadWaiting, At, HoldsRows, TurnCalls
<1>3. PICK t \in Turns : t = req[p].turn
  BY <1>2
<1>4. CASE turn[t].status = "WAITING"
  <2>1. PICK r : r = [req[p] EXCEPT !.at = "cancel", !.court = turn[t].court,
                                    !.todo = {<<t, 1>>}]
    OBVIOUS
  <2>2. req' = [req EXCEPT ![p] = r]
    BY <1>2, <1>3, <1>4, <2>1 DEF LoadWaiting, TypeOK
  <2>3. turn[t].court \in Courts \cup {None}
    BY <1>2 DEF TypeOK, RowsTypeOK, TurnRow
  <2>4. {<<t, 1>>} \in SUBSET (Turns \X Nat)
    OBVIOUS
  <2>5. r \in RequestRow /\ r.at = "cancel"
    BY <1>2, <2>1, <2>3, <2>4 DEF RequestRow, Places
  <2>. QED
    BY <1>1, <2>2, <2>5 DEF MovesOn, Becomes, HoldsRows, TurnCalls, SwapCalls, GameCalls
<1>5. CASE turn[t].status # "WAITING"
  BY <1>1, <1>2, <1>3, <1>5, DoneMovesOn DEF LoadWaiting
<1>. QED
  BY <1>4, <1>5

LEMMA CancelListedStep ==
  ASSUME RacesInv, NEW p \in Requests, CancelListed(p)
  PROVE  MovesOn(p) /\ RowsMoveOn
<1>1. TypeOK
  BY Relies
<1>2. "CANCELLED" \in TurnStatus \ {"NONE", "WAITING"}
  BY DEF TurnStatus
<1>3. PICK u \in First(p) : turn' = [turn EXCEPT ![u[1]].status = "CANCELLED"]
  BY DEF CancelListed
<1>4. PICK t : t = u[1]
  OBVIOUS
<1>5. turn' = [turn EXCEPT ![t].status = "CANCELLED"]
  BY <1>3, <1>4
<1>6. /\ turn' \in [Turns -> TurnRow]
      /\ \A x \in Turns : Started(x) => IsNowStarted(x)
  BY <1>1, <1>2, <1>5, SetStatus
<1>7. RowsMoveOn
  BY <1>6, TurnWritesMoveOn DEF CancelListed
<1>. QED
  BY <1>1, <1>7, GotoMovesOn DEF CancelListed, Places, TurnCalls, SwapCalls, GameCalls

LEMMA CancelEntryStep ==
  ASSUME RacesInv, NEW p \in Requests, CancelEntry(p)
  PROVE  MovesOn(p) /\ RowsMoveOn
<1>1. /\ TypeOK /\ req[p] \in RequestRow
  BY Relies
<1>2. PICK u \in First(p) :
        /\ entry' = CloseEntries(entry, {u[1]}, "CANCELLED")
        /\ req' = [req EXCEPT ![p].todo = @ \ {u},
                              ![p].at = IF req[p].kind = "cancel" THEN "remaining"
                                        ELSE IF req[p].todo # {u} THEN "cancel" ELSE "playing"]
  BY DEF CancelEntry
<1>3. entry' \in [Entries -> EntryRow]
  BY <1>1, <1>2, CloseEntriesType DEF TypeOK, RowsTypeOK, EntryStatus
<1>4. RowsMoveOn
  BY <1>1, <1>3, BoardWritesMoveOn DEF CancelEntry, TypeOK, RowsTypeOK
<1>5. PICK l \in {"remaining", "cancel", "playing"} :
        /\ l = IF req[p].kind = "cancel" THEN "remaining"
               ELSE IF req[p].todo # {u} THEN "cancel" ELSE "playing"
        /\ l = "remaining" => req[p].kind = "cancel"
  OBVIOUS
<1>6. PICK r : r = [req[p] EXCEPT !.todo = @ \ {u}, !.at = l]
  OBVIOUS
<1>7. req' = [req EXCEPT ![p] = r]
  BY <1>1, <1>2, <1>5, <1>6 DEF TypeOK
<1>8. r \in RequestRow /\ r.at = l /\ r.kind = req[p].kind
  BY <1>1, <1>6 DEF RequestRow, Places
<1>9. HoldsRows(r)
  BY <1>5, <1>8 DEF HoldsRows, TurnCalls, SwapCalls
<1>. QED
  BY <1>4, <1>7, <1>8, <1>9 DEF MovesOn, Becomes, GameCalls

LEMMA ListRemainingStep ==
  ASSUME RacesInv, NEW p \in Requests, ListRemaining(p)
  PROVE  MovesOn(p) /\ RowsMoveOn
<1>1. RowsMoveOn
  BY ReadsMoveOn DEF ListRemaining
<1>2. /\ TypeOK /\ req[p] \in RequestRow /\ req[p].kind = "cancel"
  BY Relies DEF ListRemaining, At, HoldsRows
<1>3. PICK n \in Numberings(Active(req[p].court)) :
        IF Updates(n) = {} THEN Done(p)
        ELSE req' = [req EXCEPT ![p].at = "renumber", ![p].todo = Updates(n)]
  BY DEF ListRemaining
<1>4. Updates(n) \in SUBSET (Turns \X Nat)
  BY QueriesType, NumberedType
<1>5. CASE Updates(n) = {}
  BY <1>1, <1>2, <1>3, <1>5, DoneMovesOn
<1>6. CASE Updates(n) # {}
  <2>1. PICK r : r = [req[p] EXCEPT !.at = "renumber", !.todo = Updates(n)]
    OBVIOUS
  <2>2. req' = [req EXCEPT ![p] = r]
    BY <1>2, <1>3, <1>6, <2>1 DEF TypeOK
  <2>3. r \in RequestRow /\ r.at = "renumber" /\ r.kind = "cancel"
    BY <1>2, <1>4, <2>1 DEF RequestRow, Places
  <2>. QED
    BY <1>1, <2>2, <2>3 DEF MovesOn, Becomes, HoldsRows, TurnCalls, SwapCalls, GameCalls
<1>. QED
  BY <1>5, <1>6

-----------------------------------------------------------------------------
(* Unassigning and replacing                                               *)

LEMMA FindEntryStep ==
  ASSUME RacesInv, NEW p \in Requests, FindEntry(p)
  PROVE  MovesOn(p) /\ RowsMoveOn
<1>1. RowsMoveOn
  BY ReadsMoveOn DEF FindEntry
<1>2. /\ TypeOK /\ req[p] \in RequestRow
  BY Relies
<1>3. CASE Done(p)
  BY <1>1, <1>2, <1>3, DoneMovesOn
<1>4. CASE \E e \in Entries : req' = [req EXCEPT ![p].at = "findTurn", ![p].entry = e,
                                                 ![p].turn = entry[e].turn]
  <2>1. PICK e \in Entries : req' = [req EXCEPT ![p].at = "findTurn", ![p].entry = e,
                                                ![p].turn = entry[e].turn]
    BY <1>4
  <2>2. PICK r : r = [req[p] EXCEPT !.at = "findTurn", !.entry = e, !.turn = entry[e].turn]
    OBVIOUS
  <2>3. req' = [req EXCEPT ![p] = r]
    BY <1>2, <2>1, <2>2 DEF TypeOK
  <2>4. entry[e].turn \in Turns \cup {None}
    BY <1>2 DEF TypeOK, RowsTypeOK, EntryRow
  <2>5. r \in RequestRow /\ r.at = "findTurn"
    BY <1>2, <2>2, <2>4 DEF RequestRow, Places
  <2>. QED
    BY <1>1, <2>3, <2>5 DEF MovesOn, Becomes, HoldsRows, TurnCalls, SwapCalls, GameCalls
<1>5. Done(p) \/ \E e \in Entries : req' = [req EXCEPT ![p].at = "findTurn", ![p].entry = e,
                                                       ![p].turn = entry[e].turn]
  BY DEF FindEntry
<1>. QED
  BY <1>3, <1>4, <1>5

LEMMA FindTurnStep ==
  ASSUME RacesInv, NEW p \in Requests, FindTurn(p)
  PROVE  MovesOn(p) /\ RowsMoveOn
<1>1. RowsMoveOn
  BY ReadsMoveOn DEF FindTurn
<1>2. TypeOK
  BY Relies
<1>. QED
  BY <1>1, <1>2, GotoMovesOn, DoneMovesOn
  DEF FindTurn, Places, TurnCalls, SwapCalls, GameCalls

(* The game that was played is called off together with its turn.          *)
LEMMA UndoAssignmentStep ==
  ASSUME RacesInv, NEW p \in Requests, UndoAssignment(p)
  PROVE  MovesOn(p) /\ RowsMoveOn
<1>1. /\ TypeOK /\ req[p] \in RequestRow /\ \A t \in Turns : game[t] # "NONE" => Started(t)
  BY Relies
<1>2. PICK t : t = req[p].turn
  OBVIOUS
<1>3. "CANCELLED" \in TurnStatus \ {"NONE", "WAITING"}
  BY DEF TurnStatus
<1>4. turn' = [turn EXCEPT ![t].status = "CANCELLED"]
  BY <1>2 DEF UndoAssignment
<1>5. /\ turn' \in [Turns -> TurnRow]
      /\ \A u \in Turns : Started(u) => IsNowStarted(u)
  BY <1>1, <1>3, <1>4, SetStatus
<1>6. /\ game' \in [Turns -> GameStatus]
      /\ \A u \in Turns : game'[u] # "NONE" => game[u] # "NONE"
  BY <1>1, <1>2 DEF UndoAssignment, TypeOK, RowsTypeOK, GameStatus
<1>7. court' \in [Courts -> CourtStatus]
  BY <1>1 DEF UndoAssignment, TypeOK, RowsTypeOK, CourtStatus
<1>8. entry' \in [Entries -> EntryRow]
  <2>1. \A e \in Entries : [status |-> "QUEUED", turn |-> None, court |-> None,
                            players |-> entry[e].players] \in EntryRow
    BY <1>1 DEF TypeOK, RowsTypeOK, EntryRow, EntryStatus
  <2>. QED
    BY <1>1, <2>1 DEF UndoAssignment, TypeOK, RowsTypeOK
<1>9. RowsMoveOn
  BY <1>1, <1>5, <1>6, <1>7, <1>8 DEF RowsMoveOn, RowsTypeOK
<1>. QED
  BY <1>1, <1>9, DoneMovesOn DEF UndoAssignment

LEMMA LoadPlayersStep ==
  ASSUME RacesInv, NEW p \in Requests, LoadPlayers(p)
  PROVE  MovesOn(p) /\ RowsMoveOn
<1>1. RowsMoveOn
  BY ReadsMoveOn DEF LoadPlayers
<1>2. /\ TypeOK /\ req[p] \in RequestRow /\ req[p].turn \in Turns /\ req[p].in \in Players
  BY Relies DEF LoadPlayers, At, HoldsRows, TurnCalls, SwapCalls
<1>3. CASE Done(p)
  BY <1>1, <1>2, <1>3, DoneMovesOn
<1>4. CASE req' = [req EXCEPT ![p].at = "inElsewhere", ![p].court = turn[req[p].turn].court]
  <2>1. PICK c \in Courts \cup {None} : c = turn[req[p].turn].court
    BY <1>2 DEF TypeOK, RowsTypeOK, TurnRow
  <2>2. PICK r : r = [req[p] EXCEPT !.at = "inElsewhere", !.court = c]
    OBVIOUS
  <2>3. req' = [req EXCEPT ![p] = r]
    BY <1>2, <1>4, <2>1, <2>2 DEF TypeOK
  <2>4. /\ r \in RequestRow /\ r.at = "inElsewhere"
        /\ r.turn = req[p].turn /\ r.in = req[p].in
    BY <1>2, <2>2 DEF RequestRow, Places
  <2>. QED
    BY <1>1, <1>2, <2>3, <2>4 DEF MovesOn, Becomes, HoldsRows, TurnCalls, SwapCalls, GameCalls
<1>5. Done(p) \/ req' = [req EXCEPT ![p].at = "inElsewhere",
                                    ![p].court = turn[req[p].turn].court]
  BY DEF LoadPlayers
<1>. QED
  BY <1>3, <1>4, <1>5

LEMMA InElsewhereStep ==
  ASSUME RacesInv, NEW p \in Requests, InElsewhere(p)
  PROVE  MovesOn(p) /\ RowsMoveOn
<1>1. RowsMoveOn
  BY ReadsMoveOn DEF InElsewhere
<1>2. /\ TypeOK /\ req[p].turn \in Turns /\ req[p].in \in Players
  BY Relies DEF InElsewhere, At, HoldsRows, TurnCalls, SwapCalls
<1>. QED
  BY <1>1, <1>2, GotoMovesOn, DoneMovesOn
  DEF InElsewhere, Places, TurnCalls, SwapCalls, GameCalls

LEMMA ReadTurnEntryStep ==
  ASSUME RacesInv, NEW p \in Requests, ReadTurnEntry(p)
  PROVE  MovesOn(p) /\ RowsMoveOn
<1>1. RowsMoveOn
  BY ReadsMoveOn DEF ReadTurnEntry
<1>2. /\ TypeOK /\ req[p] \in RequestRow /\ req[p].turn \in Turns /\ req[p].in \in Players
  BY Relies DEF ReadTurnEntry, At, HoldsRows, TurnCalls, SwapCalls
<1>3. CASE Goto(p, "swap")
  BY <1>1, <1>2, <1>3, GotoMovesOn DEF Places, TurnCalls, SwapCalls, GameCalls
<1>4. CASE \E e \in Entries : req' = [req EXCEPT ![p].at = "swap", ![p].entry = e,
                                                 ![p].players = entry[e].players]
  <2>1. PICK e \in Entries : req' = [req EXCEPT ![p].at = "swap", ![p].entry = e,
                                                ![p].players = entry[e].players]
    BY <1>4
  <2>2. PICK r : r = [req[p] EXCEPT !.at = "swap", !.entry = e, !.players = entry[e].players]
    OBVIOUS
  <2>3. req' = [req EXCEPT ![p] = r]
    BY <1>2, <2>1, <2>2 DEF TypeOK
  <2>4. entry[e].players \in SUBSET Players
    BY <1>2 DEF TypeOK, RowsTypeOK, EntryRow
  <2>5. /\ r \in RequestRow /\ r.at = "swap"
        /\ r.turn = req[p].turn /\ r.in = req[p].in
    BY <1>2, <2>2, <2>4 DEF RequestRow, Places
  <2>. QED
    BY <1>1, <1>2, <2>3, <2>5 DEF MovesOn, Becomes, HoldsRows, TurnCalls, SwapCalls, GameCalls
<1>5. Goto(p, "swap") \/ \E e \in Entries : req' = [req EXCEPT ![p].at = "swap",
                                    ![p].entry = e, ![p].players = entry[e].players]
  BY DEF ReadTurnEntry
<1>. QED
  BY <1>3, <1>4, <1>5

LEMMA SwapPlayerStep ==
  ASSUME RacesInv, NEW p \in Requests, SwapPlayer(p)
  PROVE  MovesOn(p) /\ RowsMoveOn
<1>1. /\ TypeOK /\ req[p] \in RequestRow /\ req[p].turn \in Turns /\ req[p].in \in Players
  BY Relies DEF SwapPlayer, At, HoldsRows, TurnCalls, SwapCalls
<1>2. PICK K \in SUBSET Players : K = turn[req[p].turn].players \ {req[p].out}
  BY <1>1 DEF TypeOK, RowsTypeOK, TurnRow
<1>3. MovesOn(p)
  BY <1>1, DoneMovesOn DEF SwapPlayer
<1>4. CASE req[p].in \in K
  BY <1>2, <1>3, <1>4, ReadsMoveOn DEF SwapPlayer, rows
<1>5. CASE req[p].in \notin K
  <2>1. PICK t \in Turns, G \in SUBSET Players : t = req[p].turn /\ G = K \cup {req[p].in}
    BY <1>1
  <2>2. turn' = [turn EXCEPT ![t].players = G]
    BY <1>2, <1>5, <2>1 DEF SwapPlayer
  <2>3. /\ turn' \in [Turns -> TurnRow]
        /\ \A u \in Turns : turn'[u].status = turn[u].status
    BY <1>1, <2>2 DEF TypeOK, RowsTypeOK, TurnRow
  <2>4. entry' \in [Entries -> EntryRow]
    <3>1. PICK N \in SUBSET Players :
            N = IF req[p].out \in req[p].players
                THEN (req[p].players \ {req[p].out}) \cup {req[p].in} ELSE req[p].players
      BY <1>1 DEF RequestRow
    <3>2. entry' = entry \/ entry' = [entry EXCEPT ![req[p].entry].players = N]
      BY <1>2, <1>5, <3>1 DEF SwapPlayer
    <3>. QED
      BY <1>1, <3>2 DEF TypeOK, RowsTypeOK, EntryRow
  <2>5. UNCHANGED <<game, court>>
    BY DEF SwapPlayer
  <2>6. RowsTypeOK'
    BY <1>1, <2>3, <2>4, <2>5 DEF TypeOK, RowsTypeOK
  <2>7. \A u \in Turns : game[u] # "NONE" => Started(u)
    BY Relies
  <2>. QED
    BY <1>3, <2>3, <2>5, <2>6, <2>7 DEF RowsMoveOn, Started, IsNowStarted
<1>. QED
  BY <1>4, <1>5

-----------------------------------------------------------------------------
(* New requests, and crashes                                               *)

(* A request comes in naming the rows its first call needs.                *)
LEMMA FreshType ==
  ASSUME NEW k \in RequestKinds, NEW l \in Places
  PROVE  Fresh(k, l) \in RequestRow /\ Fresh(k, l).at = l
<1>1. PICK i \in RequestRow : i = Idle
  BY IdleType
<1>2. PICK r : r = [i EXCEPT !.kind = k, !.at = l]
  OBVIOUS
<1>3. r \in RequestRow /\ r.at = l
  BY <1>2 DEF RequestRow
<1>. QED
  BY <1>1, <1>2, <1>3 DEF Fresh

LEMMA MakeStep ==
  ASSUME RacesInv, NEW p \in Requests, Make(p)
  PROVE  MovesOn(p) /\ RowsMoveOn
<1>. SUFFICES MovesOn(p)
  BY ReadsMoveOn DEF Make
<1>1. ASSUME NEW e \in Entries, NEW c \in Courts,
             Send(p, [Fresh("assign", "free") EXCEPT !.entry = e, !.court = c])
      PROVE  MovesOn(p)
  <2>1. PICK x : x = Fresh("assign", "free")
    OBVIOUS
  <2>2. x \in RequestRow /\ x.at = "free"
    BY <2>1, FreshType DEF RequestKinds, Places
  <2>3. PICK r : r = [x EXCEPT !.entry = e, !.court = c]
    OBVIOUS
  <2>4. r \in RequestRow /\ r.at = "free" /\ r.entry \in Entries
    BY <2>2, <2>3 DEF RequestRow
  <2>5. req' = [req EXCEPT ![p] = r]
    BY <1>1, <2>1, <2>3 DEF Send
  <2>. QED
    BY <2>4, <2>5 DEF MovesOn, Becomes, HoldsRows, TurnCalls, SwapCalls, GameCalls
<1>2. ASSUME NEW G \in Groups, NEW c \in Courts,
             Send(p, [Fresh("register", "elsewhere") EXCEPT !.players = G, !.court = c])
      PROVE  MovesOn(p)
  <2>1. PICK x : x = Fresh("register", "elsewhere")
    OBVIOUS
  <2>2. x \in RequestRow /\ x.at = "elsewhere" /\ G \in SUBSET Players
    BY <2>1, FreshType, TurnRacesAssumption DEF RequestKinds, Places
  <2>3. PICK r : r = [x EXCEPT !.players = G, !.court = c]
    OBVIOUS
  <2>4. r \in RequestRow /\ r.at = "elsewhere"
    BY <2>2, <2>3 DEF RequestRow
  <2>5. req' = [req EXCEPT ![p] = r]
    BY <1>2, <2>1, <2>3 DEF Send
  <2>. QED
    BY <2>4, <2>5 DEF MovesOn, Becomes, HoldsRows, TurnCalls, SwapCalls, GameCalls
<1>3. ASSUME NEW c \in Courts, Send(p, [Fresh("unassign", "findEntry") EXCEPT !.court = c])
      PROVE  MovesOn(p)
  <2>1. PICK x : x = Fresh("unassign", "findEntry")
    OBVIOUS
  <2>2. x \in RequestRow /\ x.at = "findEntry"
    BY <2>1, FreshType DEF RequestKinds, Places
  <2>3. PICK r : r = [x EXCEPT !.court = c]
    OBVIOUS
  <2>4. r \in RequestRow /\ r.at = "findEntry"
    BY <2>2, <2>3 DEF RequestRow
  <2>5. req' = [req EXCEPT ![p] = r]
    BY <1>3, <2>1, <2>3 DEF Send
  <2>. QED
    BY <2>4, <2>5 DEF MovesOn, Becomes, HoldsRows, TurnCalls, SwapCalls, GameCalls
<1>4. ASSUME NEW t \in Turns, \/ Send(p, [Fresh("complete", "load") EXCEPT !.turn = t])
                              \/ Send(p, [Fresh("cancel", "loadWaiting") EXCEPT !.turn = t])
      PROVE  MovesOn(p)
  <2>1. PICK k \in {"complete", "cancel"}, l \in {"load", "loadWaiting"} :
          Send(p, [Fresh(k, l) EXCEPT !.turn = t])
    BY <1>4
  <2>2. PICK x : x = Fresh(k, l)
    OBVIOUS
  <2>3. x \in RequestRow /\ x.at = l
    BY <2>2, FreshType DEF RequestKinds, Places
  <2>4. PICK r : r = [x EXCEPT !.turn = t]
    OBVIOUS
  <2>5. r \in RequestRow /\ r.at = l /\ r.turn \in Turns
    BY <2>3, <2>4 DEF RequestRow
  <2>6. req' = [req EXCEPT ![p] = r]
    BY <2>1, <2>2, <2>4 DEF Send
  <2>. QED
    BY <2>5, <2>6 DEF MovesOn, Becomes, HoldsRows, TurnCalls, SwapCalls, GameCalls
<1>5. ASSUME NEW t \in Turns, NEW x \in Players, NEW y \in Players,
             Send(p, [Fresh("replace", "loadPlayers") EXCEPT !.turn = t, !.out = x, !.in = y])
      PROVE  MovesOn(p)
  <2>1. PICK z : z = Fresh("replace", "loadPlayers")
    OBVIOUS
  <2>2. z \in RequestRow /\ z.at = "loadPlayers"
    BY <2>1, FreshType DEF RequestKinds, Places
  <2>3. PICK r : r = [z EXCEPT !.turn = t, !.out = x, !.in = y]
    OBVIOUS
  <2>4. r \in RequestRow /\ r.at = "loadPlayers" /\ r.turn \in Turns /\ r.in \in Players
    BY <2>2, <2>3 DEF RequestRow
  <2>5. req' = [req EXCEPT ![p] = r]
    BY <1>5, <2>1, <2>3 DEF Send
  <2>. QED
    BY <2>4, <2>5 DEF MovesOn, Becomes, HoldsRows, TurnCalls, SwapCalls, GameCalls
<1>6. \A t \in Turns : turn[t].players \subseteq Players
  BY DEF RacesInv, TypeOK, RowsTypeOK, TurnRow
<1>. QED
  BY <1>1, <1>2, <1>3, <1>4, <1>5, <1>6 DEF Make

LEMMA MakeClearStep ==
  ASSUME RacesInv, NEW p \in Requests, NEW c \in Courts, MakeClear(p, c)
  PROVE  MovesOn(p) /\ RowsMoveOn
<1>1. RowsMoveOn
  BY ReadsMoveOn DEF MakeClear
<1>2. PICK x : x = Fresh("clear", "waiting")
  OBVIOUS
<1>3. x \in RequestRow /\ x.at = "waiting"
  BY <1>2, FreshType DEF RequestKinds, Places
<1>4. PICK r : r = [x EXCEPT !.court = c]
  OBVIOUS
<1>5. req' = [req EXCEPT ![p] = r]
  BY <1>2, <1>4 DEF MakeClear
<1>6. r \in RequestRow /\ r.at = "waiting"
  BY <1>3, <1>4 DEF RequestRow
<1>. QED
  BY <1>1, <1>5, <1>6 DEF MovesOn, Becomes, HoldsRows, TurnCalls, SwapCalls, GameCalls

LEMMA AddEntryStep ==
  ASSUME RacesInv, NEW p \in Requests, NEW G \in Groups, AddEntry(p, G)
  PROVE  RowsMoveOn
<1>1. TypeOK
  BY DEF RacesInv
<1>2. [status |-> "QUEUED", turn |-> None, court |-> None, players |-> G] \in EntryRow
  BY TurnRacesAssumption DEF EntryRow, EntryStatus
<1>3. entry' \in [Entries -> EntryRow]
  BY <1>1, <1>2 DEF AddEntry, TypeOK, RowsTypeOK
<1>. QED
  BY <1>1, <1>3, BoardWritesMoveOn DEF AddEntry, TypeOK, RowsTypeOK

(* One request moving on leaves the others what they rely on.              *)
LEMMA OneMovesOn ==
  ASSUME RacesInv, NEW p \in Requests, MovesOn(p), RowsMoveOn,
         made' \in 0..MaxRequests, crashes' \in 0..MaxCrashes
  PROVE  RacesInv'
<1>1. PICK r : Becomes(p, r)
  BY DEF MovesOn
<1>2. /\ req \in [Requests -> RequestRow]
      /\ req' = [req EXCEPT ![p] = r] /\ r \in RequestRow
      /\ HoldsRows(r) /\ (r.at \in GameCalls => IsNowStarted(r.turn))
  BY <1>1 DEF Becomes, RacesInv, TypeOK
<1>3. /\ req' \in [Requests -> RequestRow] /\ req'[p] = r
      /\ \A q \in Requests \ {p} : req'[q] = req[q]
  BY <1>2
<1>4. TypeOK'
  BY <1>3 DEF TypeOK, RowsMoveOn
<1>5. \A q \in Requests : HoldsRows(req'[q])
  BY <1>2, <1>3 DEF RacesInv, RequestsHoldRows
<1>6. RequestsHoldRows'
  BY <1>5 DEF RequestsHoldRows, HoldsRows
<1>7. \A q \in Requests : req'[q].at \in GameCalls => IsNowStarted(req'[q].turn)
  <2>1. TAKE q \in Requests
  <2>2. CASE q # p
    BY <1>3, <2>2, Relies DEF HoldsRows, GameCalls, TurnCalls, RowsMoveOn
  <2>. QED
    BY <1>2, <1>3, <2>2
<1>8. GamesAreCreatedLate'
  BY <1>7 DEF GamesAreCreatedLate, Started, IsNowStarted
<1>9. GameOnlyOnceStarted'
  BY DEF RowsMoveOn, GameOnlyOnceStarted, IsNowStarted
<1>. QED
  BY <1>4, <1>6, <1>8, <1>9 DEF RacesInv

(* A step that leaves the requests alone, or loses all of them.            *)
LEMMA RequestsStayOrGo ==
  ASSUME RacesInv, RowsMoveOn, UNCHANGED req \/ req' = [p \in Requests |-> Idle],
         made' \in 0..MaxRequests, crashes' \in 0..MaxCrashes
  PROVE  RacesInv'
<1>1. req' \in [Requests -> RequestRow]
  BY IdleType DEF RacesInv, TypeOK
<1>2. \A p \in Requests : req'[p] = req[p] \/ req'[p] = Idle
  OBVIOUS
<1>3. TypeOK'
  BY <1>1 DEF TypeOK, RowsMoveOn
<1>4. \A p \in Requests : HoldsRows(req'[p])
  BY <1>2, IdleType DEF RacesInv, RequestsHoldRows
<1>5. RequestsHoldRows'
  BY <1>4 DEF RequestsHoldRows, HoldsRows
<1>6. \A p \in Requests : req'[p].at \in GameCalls => IsNowStarted(req'[p].turn)
  BY <1>2, IdleType, Relies DEF HoldsRows, GameCalls, TurnCalls, RowsMoveOn
<1>7. GamesAreCreatedLate'
  BY <1>6 DEF GamesAreCreatedLate, Started, IsNowStarted
<1>8. GameOnlyOnceStarted'
  BY DEF RowsMoveOn, GameOnlyOnceStarted, IsNowStarted
<1>. QED
  BY <1>3, <1>5, <1>7, <1>8 DEF RacesInv

-----------------------------------------------------------------------------
(* The invariant                                                           *)

LEMMA RacesInit == Init => RacesInv
<1>. SUFFICES ASSUME Init PROVE RacesInv
  OBVIOUS
<1>1. RowsTypeOK
  BY DEF Init, RowsInit, RowsTypeOK, TurnRow, EntryRow, NoTurnRow, NoEntryRow, TurnStatus,
     EntryStatus, GameStatus, CourtStatus
<1>2. req \in [Requests -> RequestRow]
  BY IdleType DEF Init
<1>3. TypeOK
  BY <1>1, <1>2, TurnRacesAssumption DEF TypeOK, Init
<1>4. RequestsHoldRows /\ GamesAreCreatedLate
  BY IdleType DEF Init, RequestsHoldRows, GamesAreCreatedLate, GameCalls
<1>5. GameOnlyOnceStarted
  BY DEF Init, RowsInit, GameOnlyOnceStarted
<1>. QED
  BY <1>3, <1>4, <1>5 DEF RacesInv

(* Every call of every handler.                                            *)
LEMMA CallsMoveOn ==
  ASSUME RacesInv, NEW p \in Requests, Step(p)
  PROVE  MovesOn(p) /\ RowsMoveOn
BY RegisterSteps, CreateTurnStep, StartTurnStep, CreateGameStep, CourtSteps, MarkEntryStep,
   LoadTurnStep, EndGameStep, EndTurnStep, EndEntryStep, ReadQueueStep, RenumberStep,
   ListWaitingStep, FindPlayingStep, RecountStep, LoadWaitingStep, CancelListedStep,
   CancelEntryStep, ListRemainingStep, FindEntryStep, FindTurnStep, UndoAssignmentStep,
   LoadPlayersStep, InElsewhereStep, ReadTurnEntryStep, SwapPlayerStep
DEF Step

LEMMA RacesNext == RacesInv /\ [Next]_vars => RacesInv'
<1>. SUFFICES ASSUME RacesInv, [Next]_vars PROVE RacesInv'
  OBVIOUS
<1>0. made \in 0..MaxRequests /\ crashes \in 0..MaxCrashes
  BY DEF RacesInv, TypeOK
<1>1. ASSUME NEW p \in Requests, Make(p) PROVE RacesInv'
  <2>1. made' \in 0..MaxRequests /\ crashes' \in 0..MaxCrashes
    <3>1. made' = made + 1 /\ crashes' = crashes /\ made < MaxRequests
      BY <1>1 DEF Make
    <3>. QED
      BY <1>0, <3>1, TurnRacesAssumption
  <2>. QED
    BY <1>1, <2>1, MakeStep, OneMovesOn
<1>2. ASSUME NEW p \in Requests, Step(p) PROVE RacesInv'
  <2>1. UNCHANGED <<made, crashes>>
    BY <1>2 DEF Step, CheckFree, ReadEntry, CheckElsewhere, CountTurns, CreateTurn, StartTurn,
       CreateGame, MarkInUse, MarkEntry, LoadTurn, EndGame, EndTurn, EndEntry, ReadQueue,
       Renumber, LeaveEmpty, ListWaiting, FindPlaying, Recount, Release, LoadWaiting,
       CancelListed, CancelEntry, ListRemaining, FindEntry, FindTurn, UndoAssignment,
       LoadPlayers, InElsewhere, ReadTurnEntry, SwapPlayer
  <2>. QED
    BY <1>0, <1>2, <2>1, CallsMoveOn, OneMovesOn
<1>3. ASSUME NEW p \in Requests, NEW c \in Courts, MakeClear(p, c) PROVE RacesInv'
  <2>1. UNCHANGED <<made, crashes>>
    BY <1>3 DEF MakeClear
  <2>. QED
    BY <1>0, <1>3, <2>1, MakeClearStep, OneMovesOn
<1>4. ASSUME NEW p \in Requests, NEW G \in Groups, AddEntry(p, G) PROVE RacesInv'
  <2>1. UNCHANGED <<req, made, crashes>>
    BY <1>4 DEF AddEntry
  <2>. QED
    BY <1>0, <1>4, <2>1, AddEntryStep, RequestsStayOrGo
<1>5. CASE Crash
  <2>1. /\ made' \in 0..MaxRequests /\ crashes' \in 0..MaxCrashes
        /\ req' = [p \in Requests |-> Idle]
    BY <1>0, <1>5, TurnRacesAssumption DEF Crash
  <2>2. RowsMoveOn
    BY <1>5, ReadsMoveOn DEF Crash
  <2>. QED
    BY <2>1, <2>2, RequestsStayOrGo
<1>6. CASE UNCHANGED vars
  <2>1. RowsMoveOn
    BY <1>6, ReadsMoveOn DEF vars, rows
  <2>2. UNCHANGED <<req, made, crashes>>
    BY <1>6 DEF vars
  <2>. QED
    BY <1>0, <2>1, <2>2, RequestsStayOrGo
<1>. QED
  BY <1>1, <1>2, <1>3, <1>4, <1>5, <1>6 DEF Next

LEMMA RacesAlways == Spec => []RacesInv
BY RacesInit, RacesNext, PTL DEF Spec

(* Whatever requests overlap and whenever the server crashes, every row    *)
(* and every request stays of its type.                                    *)
THEOREM RacesTyped == Spec => []TypeOK
<1>1. RacesInv => TypeOK
  BY DEF RacesInv
<1>. QED
  BY <1>1, RacesAlways, PTL

(* No overlap and no crash writes a game for a turn that is still in the   *)
(* queue: a turn that was started never waits again, so what startTurn has *)
(* read of it may be stale but not that far.                               *)
THEOREM GamesOfStartedTurns == Spec => []GameOnlyOnceStarted
<1>1. RacesInv => GameOnlyOnceStarted
  BY DEF RacesInv
<1>. QED
  BY <1>1, RacesAlways, PTL
=============================================================================
