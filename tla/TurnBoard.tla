------------------------------ MODULE TurnBoard ------------------------------
(***************************************************************************)
(* The courts, turns, games and board entries of one club session          *)
(* (turn.service.ts, court.service.ts, gameBoard.service.ts) with the      *)
(* attendance operations that reach into them (checkin.service.ts,         *)
(* clubSession.service.ts, session.service.ts).                            *)
(*                                                                         *)
(* One action is one whole request handler, run alone.  What changes when  *)
(* two handlers overlap at their awaits is the subject of TurnRaces.       *)
(***************************************************************************)
EXTENDS TurnRows

CONSTANTS
  Groups,     \* the playerIds a request may carry
  Resters,    \* players who may take a rest
  Learners,   \* players who may be put in a lesson
  Serviced,   \* courts that may be taken out of use
  Penalised,  \* players with a running no-show penalty
  MaxTurns    \* FacilityPolicy.maxTurnsPerCourt

ASSUME TurnBoardAssumption ==
  /\ IsFiniteSet(Turns)
  /\ MaxTurns \in Nat \ {0}
  /\ Groups \subseteq SUBSET Players
  /\ Penalised \subseteq Players /\ Resters \subseteq Players /\ Learners \subseteq Players
  /\ Serviced \subseteq Courts
  /\ None \notin Turns \cup Courts

VARIABLES
  present,    \* players with an open check-in (checkedOutAt = null)
  inLesson,   \* ... whose open check-in has isInLesson
  resting,    \* ... whose open check-in has restingAt
  session     \* "ACTIVE", "ENDED" (endSession), "CLOSED" (closeSession)

attendance == <<present, inLesson, resting>>
vars == <<turn, game, court, entry, present, inLesson, resting, session>>

Init ==
  /\ RowsInit
  /\ present = {} /\ inLesson = {} /\ resting = {}
  /\ session = "ACTIVE"

-----------------------------------------------------------------------------
\* dropFromQueuedEntries, and the end of cleanupTurnsOnCheckout.
Strip(en, p) ==
  [e \in Entries |->
     IF en[e].status = "QUEUED"
     THEN [en[e] EXCEPT !.players = @ \ {p}] ELSE en[e]]

-----------------------------------------------------------------------------
(* turn.service.ts                                                         *)

\* Mutated CanRegister: one turn too many; without the check-in check.
CanRegisterOneMore(c, G) ==
  /\ court[c] # "MAINTENANCE"
  /\ Cardinality(G) \in 2..4
  /\ G \subseteq present
  /\ G \cap (inLesson \cup Penalised) = {}
  /\ ~PlaysElsewhere(G, c)
  /\ Cardinality(Active(c)) <= MaxTurns

CanRegisterAnyone(c, G) ==
  /\ court[c] # "MAINTENANCE"
  /\ Cardinality(G) \in 2..4
  /\ G \cap (inLesson \cup Penalised) = {}
  /\ ~PlaysElsewhere(G, c)
  /\ Cardinality(Active(c)) < MaxTurns

CanRegister(c, G) ==
  /\ court[c] # "MAINTENANCE"
  /\ Cardinality(G) \in 2..4
  /\ G \subseteq present
  /\ G \cap (inLesson \cup Penalised) = {}
  /\ ~PlaysElsewhere(G, c)
  /\ Cardinality(Active(c)) < MaxTurns

\* Mutated CreateTurn: starts the turn when nobody else waits.
CreateTurnIfNoneWaits(t, c, G) ==
  LET starts == Waiting(c) = {}
  IN  /\ turn[t].status = "NONE"
      /\ turn' = [turn EXCEPT ![t] =
                    [status |-> IF starts THEN "PLAYING" ELSE "WAITING",
                     court  |-> c, pos |-> Cardinality(Active(c)) + 1,
                     players |-> G]]
      /\ game' = IF starts THEN [game EXCEPT ![t] = "IN_PROGRESS"] ELSE game
      /\ court' = IF starts THEN [court EXCEPT ![c] = "IN_USE"] ELSE court

\* The create of registerTurn and, for a first turn, startTurn: the court's
\* status is overwritten whatever it was.
CreateTurn(t, c, G) ==
  LET starts == Active(c) = {}
  IN  /\ turn[t].status = "NONE"
      /\ turn' = [turn EXCEPT ![t] =
                    [status |-> IF starts THEN "PLAYING" ELSE "WAITING",
                     court  |-> c, pos |-> Cardinality(Active(c)) + 1,
                     players |-> G]]
      /\ game' = IF starts THEN [game EXCEPT ![t] = "IN_PROGRESS"] ELSE game
      /\ court' = IF starts THEN [court EXCEPT ![c] = "IN_USE"] ELSE court

RegisterTurn(c, G) ==
  /\ CanRegister(c, G)
  /\ \E t \in Turns : CreateTurn(t, c, G)
  /\ UNCHANGED <<entry, attendance, session>>

RequeueTurn(t, c) ==
  /\ turn[t].status = "COMPLETED"
  /\ RegisterTurn(c, turn[t].players)

\* r numbers the waiting turns W; the first of them is promoted.
FinishAndPromote(t, W, r) ==
  LET first == {w \in W : r[w] = 1}
  IN  /\ turn' = [u \in Turns |->
           IF u = t THEN [turn[u] EXCEPT !.status = "COMPLETED"]
           ELSE IF u \in first THEN [turn[u] EXCEPT !.status = "PLAYING", !.pos = 1]
           ELSE IF u \in W THEN [turn[u] EXCEPT !.pos = r[u]]
           ELSE turn[u]]
      /\ game' = [u \in Turns |->
           IF u = t THEN "COMPLETED"
           ELSE IF u \in first THEN "IN_PROGRESS" ELSE game[u]]

\* Mutated CompleteTurn: completes a turn in any state; always frees the court.
CompleteAnyTurn(t) ==
  LET c == turn[t].court
      W == Waiting(c) \ {t}
  IN  /\ turn[t].status # "NONE"
      /\ \E r \in Numberings(W) : FinishAndPromote(t, W, r)
      /\ entry' = CloseEntries(entry, {t}, "COMPLETED")
      /\ court' = [court EXCEPT ![c] = IF W = {} THEN "EMPTY" ELSE "IN_USE"]
      /\ UNCHANGED <<attendance, session>>

CompleteAndFree(t) ==
  LET W == Waiting(turn[t].court)
  IN  /\ turn[t].status = "PLAYING"
      /\ \E r \in Numberings(W) : FinishAndPromote(t, W, r)
      /\ entry' = CloseEntries(entry, {t}, "COMPLETED")
      /\ court' = [court EXCEPT ![turn[t].court] = "EMPTY"]
      /\ UNCHANGED <<attendance, session>>

CompleteTurn(t) ==
  LET c == turn[t].court
      W == Waiting(c)
  IN  /\ turn[t].status = "PLAYING"
      /\ \E r \in Numberings(W) : FinishAndPromote(t, W, r)
      /\ entry' = CloseEntries(entry, {t}, "COMPLETED")
      /\ court' = [court EXCEPT ![c] = IF W = {} THEN "EMPTY" ELSE "IN_USE"]
      /\ UNCHANGED <<attendance, session>>

\* completeActiveTurnByCourt: the waiting turns are cancelled first, then the
\* game in play is completed and promotes nobody.
ClearCourt(c) ==
  LET W == Waiting(c)
      inPlay == IF Playing(c) = {} THEN {{}} ELSE {{t} : t \in Playing(c)}
  IN  /\ \E P \in inPlay :
           /\ turn' = [u \in Turns |->
                IF u \in W THEN [turn[u] EXCEPT !.status = "CANCELLED"]
                ELSE IF u \in P THEN [turn[u] EXCEPT !.status = "COMPLETED"]
                ELSE turn[u]]
           /\ game' = [u \in Turns |-> IF u \in P THEN "COMPLETED" ELSE game[u]]
           /\ entry' = CloseEntries(CloseEntries(entry, W, "CANCELLED"), P, "COMPLETED")
           /\ court' = IF P # {} \/ court[c] # "MAINTENANCE"
                       THEN [court EXCEPT ![c] = "EMPTY"] ELSE court
      /\ UNCHANGED <<attendance, session>>

CancelTurn(t) ==
  LET rest == Active(turn[t].court) \ {t}
  IN  /\ turn[t].status = "WAITING"
      /\ \E r \in Numberings(rest) :
           turn' = [u \in Turns |->
                IF u = t THEN [turn[u] EXCEPT !.status = "CANCELLED"]
                ELSE IF u \in rest THEN [turn[u] EXCEPT !.pos = r[u]]
                ELSE turn[u]]
      /\ entry' = CloseEntries(entry, {t}, "CANCELLED")
      /\ UNCHANGED <<game, court, attendance, session>>

\* Mutated ReplacePlayer: forgets the board entry.
ReplaceInTurnOnly(t, out, in) ==
  /\ turn[t].status = "PLAYING"
  /\ out \in turn[t].players /\ in \notin turn[t].players
  /\ in \in present \ (inLesson \cup Penalised)
  /\ ~PlaysElsewhere({in}, turn[t].court)
  /\ turn' = [turn EXCEPT ![t].players = (@ \ {out}) \cup {in}]
  /\ UNCHANGED <<game, court, entry, attendance, session>>

ReplacePlayer(t, out, in) ==
  /\ turn[t].status = "PLAYING"
  /\ out \in turn[t].players /\ in \notin turn[t].players
  /\ in \in present \ (inLesson \cup Penalised)
  /\ ~PlaysElsewhere({in}, turn[t].court)
  /\ turn' = [turn EXCEPT ![t].players = (@ \ {out}) \cup {in}]
  /\ entry' = [e \in Entries |->
       IF entry[e].turn = t /\ out \in entry[e].players
       THEN [entry[e] EXCEPT !.players = (@ \ {out}) \cup {in}] ELSE entry[e]]
  /\ UNCHANGED <<game, court, attendance, session>>

-----------------------------------------------------------------------------
(* court.service.ts                                                        *)

SetMaintenance(c) ==
  /\ court' = [court EXCEPT ![c] = "MAINTENANCE"]
  /\ UNCHANGED <<turn, game, entry, attendance, session>>

SetUsable(c) ==
  /\ court[c] = "MAINTENANCE"
  /\ court' = [court EXCEPT ![c] = "EMPTY"]
  /\ UNCHANGED <<turn, game, entry, attendance, session>>

\* "orderBy status asc, position asc": TurnStatus is a PostgreSQL enum that
\* declares WAITING before PLAYING, so a waiting turn comes first.
FirstToMove(c) ==
  LET S == IF Waiting(c) # {} THEN Waiting(c) ELSE Playing(c)
  IN  {t \in S : \A u \in S : turn[t].pos <= turn[u].pos}

\* Mutated MoveCourtGame: leaves the board entry on the old court.
MoveTurnOnly(src, dst) ==
  /\ src # dst
  /\ court[dst] # "MAINTENANCE"
  /\ Active(dst) = {}
  /\ \E t \in FirstToMove(src) :
       /\ turn' = [turn EXCEPT ![t].court = dst]
       /\ court' = [court EXCEPT
            ![src] = IF Active(src) = {t} THEN "EMPTY" ELSE "IN_USE",
            ![dst] = "IN_USE"]
  /\ UNCHANGED <<game, entry, attendance, session>>

MoveCourtGame(src, dst) ==
  /\ src # dst
  /\ court[dst] # "MAINTENANCE"
  /\ Active(dst) = {}
  /\ \E t \in FirstToMove(src) :
       /\ turn' = [turn EXCEPT ![t].court = dst]
       /\ entry' = [e \in Entries |->
            IF entry[e].turn = t THEN [entry[e] EXCEPT !.court = dst] ELSE entry[e]]
       /\ court' = [court EXCEPT
            ![src] = IF Active(src) = {t} THEN "EMPTY" ELSE "IN_USE",
            ![dst] = "IN_USE"]
  /\ UNCHANGED <<game, attendance, session>>

-----------------------------------------------------------------------------
(* gameBoard.service.ts                                                    *)

AddEntry(G) ==
  /\ Cardinality(G) \in 1..4
  /\ G \cap inLesson = {}
  /\ \E e \in Entries :
       /\ entry[e].status = "NONE"
       /\ entry' = [entry EXCEPT ![e] =
                       [status |-> "QUEUED", turn |-> None, court |-> None, players |-> G]]
  /\ UNCHANGED <<turn, game, court, attendance, session>>

\* updateEntry (no lesson check here), and the swaps of swapRestedForward.
UpdateEntry(e, G) ==
  /\ entry[e].status = "QUEUED"
  /\ Cardinality(G) \in 1..4
  /\ entry' = [entry EXCEPT ![e].players = G]
  /\ UNCHANGED <<turn, game, court, attendance, session>>

\* deleteEntry, and the deletions of replanStaleQueue.
DeleteEntry(e) ==
  /\ entry[e].status = "QUEUED"
  /\ entry' = [entry EXCEPT ![e] = NoEntryRow]
  /\ UNCHANGED <<turn, game, court, attendance, session>>

PushEntry(e, c) ==
  /\ entry[e].status = "QUEUED"
  /\ CanRegister(c, entry[e].players)
  /\ \E t \in Turns :
       /\ CreateTurn(t, c, entry[e].players)
       /\ entry' = [entry EXCEPT ![e] = [status |-> "MATERIALIZED", turn |-> t,
                                          court |-> c, players |-> @.players]]
  /\ UNCHANGED <<attendance, session>>

\* assignEntry; pushAllEntries is a loop of it over the empty courts.
AssignEntry(e, c) == Active(c) = {} /\ PushEntry(e, c)

\* Mutated UnassignEntry: the game goes on.
UnassignKeepingGame(e) ==
  LET c == entry[e].court
      t == entry[e].turn
  IN  /\ entry[e].status = "MATERIALIZED"
      /\ turn[t].status # "COMPLETED"
      /\ turn' = [turn EXCEPT ![t].status = "CANCELLED"]
      /\ entry' = [entry EXCEPT ![e] = [status |-> "QUEUED", turn |-> None,
                                         court |-> None, players |-> @.players]]
      /\ court' = IF Active(c) \ {t} = {} /\ court[c] # "MAINTENANCE"
                  THEN [court EXCEPT ![c] = "EMPTY"] ELSE court
      /\ UNCHANGED <<game, attendance, session>>

UnassignEntry(e) ==
  LET c == entry[e].court
      t == entry[e].turn
  IN  /\ entry[e].status = "MATERIALIZED"
      /\ turn[t].status # "COMPLETED"
      /\ turn' = [turn EXCEPT ![t].status = "CANCELLED"]
      /\ game' = [game EXCEPT ![t] = IF @ = "IN_PROGRESS" THEN "CANCELLED" ELSE @]
      /\ entry' = [entry EXCEPT ![e] = [status |-> "QUEUED", turn |-> None,
                                         court |-> None, players |-> @.players]]
      /\ court' = IF Active(c) \ {t} = {} /\ court[c] # "MAINTENANCE"
                  THEN [court EXCEPT ![c] = "EMPTY"] ELSE court
      /\ UNCHANGED <<attendance, session>>

-----------------------------------------------------------------------------
(* checkin.service.ts, and the lesson toggle of clubSession.service.ts     *)

CheckIn(p) ==
  /\ p \notin present
  /\ present' = present \cup {p}
  /\ UNCHANGED <<turn, game, court, entry, inLesson, resting, session>>

\* cleanupTurnsOnCheckout: the waiting turns S of the player are cancelled and
\* what is left on each court they lay on is numbered anew.
Left(S, c) == Active(c) \ S
Touched(S) == {c \in Courts : Active(c) \cap S # {}}
CancelAndRenumber(S, r) ==
  turn' = [u \in Turns |->
     IF u \in S THEN [turn[u] EXCEPT !.status = "CANCELLED"]
     ELSE IF \E c \in Touched(S) : u \in Left(S, c)
          THEN [turn[u] EXCEPT !.pos = r[turn[u].court][u]]
     ELSE turn[u]]

\* Mutated CheckOut: cancels the turns and forgets their entries.
CheckOutTurnsOnly(p) ==
  LET mine == {t \in Turns : turn[t].status = "WAITING" /\ p \in turn[t].players}
  IN  /\ p \in present
      /\ present' = present \ {p}
      /\ inLesson' = inLesson \ {p}
      /\ resting' = resting \ {p}
      /\ \E r \in [Touched(mine) -> UNION {Numberings(Left(mine, c)) : c \in Touched(mine)}] :
           /\ \A c \in Touched(mine) : r[c] \in Numberings(Left(mine, c))
           /\ CancelAndRenumber(mine, r)
      /\ entry' = Strip(entry, p)
      /\ UNCHANGED <<game, court, session>>

\* checkOut and operatorCheckOut with cleanupTurnsOnCheckout: the waiting
\* turns of the player are cancelled on every court, a game in play goes on.
CheckOut(p) ==
  LET mine == {t \in Turns : turn[t].status = "WAITING" /\ p \in turn[t].players}
  IN  /\ p \in present
      /\ present' = present \ {p}
      /\ inLesson' = inLesson \ {p}
      /\ resting' = resting \ {p}
      /\ \E r \in [Touched(mine) -> UNION {Numberings(Left(mine, c)) : c \in Touched(mine)}] :
           /\ \A c \in Touched(mine) : r[c] \in Numberings(Left(mine, c))
           /\ CancelAndRenumber(mine, r)
      /\ entry' = Strip(CloseEntries(entry, mine, "CANCELLED"), p)
      /\ UNCHANGED <<game, court, session>>

SetResting(p) ==
  /\ p \in present \ resting
  /\ \A t \in Turns :
       turn[t].status \in {"WAITING", "PLAYING"} => p \notin turn[t].players
  /\ resting' = resting \cup {p}
  /\ entry' = Strip(entry, p)
  /\ UNCHANGED <<turn, game, court, present, inLesson, session>>

SetAvailable(p) ==
  /\ p \in resting
  /\ resting' = resting \ {p}
  /\ UNCHANGED <<turn, game, court, entry, present, inLesson, session>>

SetPlayerLesson(p, on) ==
  /\ p \in present
  /\ inLesson' = IF on THEN inLesson \cup {p} ELSE inLesson \ {p}
  /\ entry' = IF on THEN Strip(entry, p) ELSE entry
  /\ UNCHANGED <<turn, game, court, present, resting, session>>

-----------------------------------------------------------------------------
(* Ending the session.  Neither handler is checked by the later ones, so   *)
(* every other action stays enabled.                                       *)

FreeCourts == [c \in Courts |-> IF court[c] = "MAINTENANCE" THEN court[c] ELSE "EMPTY"]

\* clubSession.service.ts: games in play count as played, waiting turns are
\* cancelled and their entries are left as they are.
EndSession ==
  LET P == {t \in Turns : turn[t].status = "PLAYING"}
  IN  /\ session = "ACTIVE"
      /\ session' = "ENDED"
      /\ turn' = [t \in Turns |->
           IF t \in P THEN [turn[t] EXCEPT !.status = "COMPLETED"]
           ELSE IF turn[t].status = "WAITING"
                THEN [turn[t] EXCEPT !.status = "CANCELLED"]
           ELSE turn[t]]
      /\ game' = [t \in Turns |-> IF t \in P THEN "COMPLETED" ELSE game[t]]
      /\ entry' = CloseEntries(entry, P, "COMPLETED")
      /\ court' = FreeCourts
      /\ present' = {} /\ inLesson' = {} /\ resting' = {}

\* session.service.ts: closing the facility session cancels everything and
\* leaves the check-ins and the board entries open.
CloseSession ==
  /\ session # "CLOSED"
  /\ session' = "CLOSED"
  /\ turn' = [t \in Turns |->
       IF turn[t].status \in {"WAITING", "PLAYING"}
       THEN [turn[t] EXCEPT !.status = "CANCELLED"] ELSE turn[t]]
  /\ game' = [t \in Turns |-> IF game[t] = "IN_PROGRESS" THEN "CANCELLED" ELSE game[t]]
  /\ court' = FreeCourts
  /\ UNCHANGED <<entry, attendance>>

-----------------------------------------------------------------------------
TurnStep ==
  \/ \E c \in Courts, G \in Groups : RegisterTurn(c, G)
  \/ \E t \in Turns, c \in Courts : RequeueTurn(t, c)
  \/ \E t \in Turns : CompleteTurn(t) \/ CancelTurn(t)
  \/ \E c \in Courts : ClearCourt(c)
  \/ \E t \in Turns, out, in \in Players : ReplacePlayer(t, out, in)

CourtStep ==
  \/ \E c \in Serviced : SetMaintenance(c) \/ SetUsable(c)
  \/ \E src, dst \in Courts : MoveCourtGame(src, dst)

BoardStep ==
  \/ \E G \in Groups : AddEntry(G)
  \/ \E e \in Entries : DeleteEntry(e) \/ UnassignEntry(e)
  \/ \E e \in Entries, G \in Groups : UpdateEntry(e, G)
  \/ \E e \in Entries, c \in Courts : PushEntry(e, c) \/ AssignEntry(e, c)

AttendanceStep ==
  \/ \E p \in Players : CheckIn(p) \/ CheckOut(p)
  \/ \E p \in Resters : SetResting(p) \/ SetAvailable(p)
  \/ \E p \in Learners, on \in BOOLEAN : SetPlayerLesson(p, on)

Next == TurnStep \/ CourtStep \/ BoardStep \/ AttendanceStep
        \/ EndSession \/ CloseSession

Spec == Init /\ [][Next]_vars

-----------------------------------------------------------------------------
(* Properties                                                              *)

\* Every row is of its model's type (schema.prisma).
TypeOK ==
  /\ RowsTypeOK
  /\ present \subseteq Players /\ inLesson \subseteq Players /\ resting \subseteq Players
  /\ session \in {"ACTIVE", "ENDED", "CLOSED"}

\* References between rows: a turn lies on a court, an entry's turnId refers to
\* a turn that was created, and no two entries to the same one.  (The part of
\* the inductive invariant that the other properties leave unsaid.)
RowsLinked ==
  /\ \A t \in Turns : turn[t].status # "NONE" => turn[t].court \in Courts
  /\ \A e \in Entries :
       entry[e].turn # None =>
         /\ turn[entry[e].turn].status # "NONE"
         /\ \A f \in Entries : entry[f].turn = entry[e].turn => f = e

\* No ghost game on the board of a running session.
NoGhostWhileActive == session = "ACTIVE" => GhostFree

CountWithinMax == \A c \in Courts : Cardinality(Active(c)) <= MaxTurns
PositionsWithinMax ==
  \A t \in Turns : turn[t].status \in {"WAITING", "PLAYING"} => turn[t].pos \in 1..MaxTurns

\* A court never holds more than maxTurnsPerCourt turns, and their positions
\* stay within 1..maxTurnsPerCourt as schema.prisma says, across
\* cancellations, moves, unassignments and check-outs.
WithinMaxTurns == CountWithinMax /\ PositionsWithinMax

\* Nobody who left the hall is promoted onto a court: everyone in a waiting
\* turn has an open check-in.
WaitingArePresent ==
  \A t \in Turns : turn[t].status = "WAITING" => turn[t].players \subseteq present

\* The inductive invariant.
IInv == /\ TypeOK /\ GameMatchesTurn /\ OnePlayingPerCourt
        /\ RowsLinked /\ EntryMatchesTurn /\ NoGhostWhileActive
        /\ WaitingArePresent /\ WithinMaxTurns

ReleasedIdle ==
  \A c \in Courts : court[c] = "IN_USE" /\ court'[c] = "EMPTY" => Active(c)' = {}
\* A court in use is released only when no turn is left on it.
ReleasedOnlyWhenIdle == [][ReleasedIdle]_vars

KeepsFinished ==
  \A t \in Turns : turn[t].status \in {"COMPLETED", "CANCELLED"} =>
    /\ turn'[t].status = turn[t].status
    /\ turn'[t].players = turn[t].players
    /\ game'[t] = game[t]
\* A turn that was completed or cancelled keeps its state, its players and
\* its game record for good: statistics are computed from them.
FinishedStaysFinished == [][KeepsFinished]_vars

\* turn.service.ts:188 "keeps one person from playing on two courts at once".
NoDoublePlay ==
  \A s, t \in Turns :
    s # t /\ turn[s].status = "PLAYING" /\ turn[t].status = "PLAYING"
      => turn[s].players \cap turn[t].players = {}

\* court.service.ts:145 "the source's active turn (the one in play first)".
GameInPlayMovesFirst ==
  [][\A t \in Turns :
       turn[t].status = "WAITING" /\ turn'[t].court # turn[t].court
         => Playing(turn[t].court) = {}]_vars
=============================================================================
