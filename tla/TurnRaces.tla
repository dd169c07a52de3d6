------------------------------ MODULE TurnRaces ------------------------------
(***************************************************************************)
(* The turn handlers as they really run: every "await prisma..." of the    *)
(* one server process lets another request go on, so each database call is *)
(* a step of its own and the handler keeps what it read before.  Prisma    *)
(* transactions are one step.  A crash loses the requests under way and    *)
(* keeps the rows.                                                         *)
(***************************************************************************)
EXTENDS TurnRows

CONSTANTS
  Requests,    \* identities of requests under way at the same time
  Kinds,       \* the kinds of request that are made
  Groups,      \* the playerIds a request may carry
  MaxTurns,    \* FacilityPolicy.maxTurnsPerCourt
  MaxRequests, \* bound on the requests made, clearings of a court aside
  MaxCrashes   \* bound on the crashes

ASSUME TurnRacesAssumption ==
  /\ MaxTurns \in Nat \ {0} /\ MaxRequests \in Nat /\ MaxCrashes \in Nat
  /\ Groups \subseteq SUBSET Players
  /\ IsFiniteSet(Turns)
  /\ None \notin Turns \cup Courts \cup Entries

VARIABLES
  req,         \* the requests: where each stands and what it has read
  made,        \* requests made
  crashes      \* crashes so far

rows == <<turn, game, court, entry>>
vars == <<turn, game, court, entry, req, made, crashes>>

\* at: the database call to come; then the locals of the handlers.
Idle == [kind |-> "none", at |-> "idle", court |-> None, turn |-> None, entry |-> None,
         players |-> {}, count |-> 0, todo |-> {}, out |-> None, in |-> None]

Init ==
  /\ RowsInit
  /\ req = [p \in Requests |-> Idle]
  /\ made = 0 /\ crashes = 0

-----------------------------------------------------------------------------
At(p, l) == req[p].at = l
Goto(p, l) == req' = [req EXCEPT ![p] = IF l = "idle" THEN Idle ELSE [@ EXCEPT !.at = l]]
Done(p) == Goto(p, "idle")

\* The updates that give the rows their numbers, but for those that have the right
\* one; work on rows that were listed is done in the order of their numbers.
Numbered(r) == {<<t, r[t]>> : t \in DOMAIN r}
Updates(r) == {u \in Numbered(r) : turn[u[1]].pos # u[2]}
First(p) == {u \in req[p].todo : \A v \in req[p].todo : u[2] <= v[2]}

\* A request comes in, with the first call its handler makes; one about rows
\* that are not there is not worth making.
Fresh(k, l) == [Idle EXCEPT !.kind = k, !.at = l]
Send(p, r) == r.kind \in Kinds /\ req' = [req EXCEPT ![p] = r]

Make(p) ==
  /\ At(p, "idle") /\ made < MaxRequests
  /\ \/ \E e \in Entries, c \in Courts :
          /\ entry[e].status # "NONE"
          /\ Send(p, [Fresh("assign", "free") EXCEPT !.entry = e, !.court = c])
     \/ \E G \in Groups, c \in Courts :
          /\ Cardinality(G) \in 2..4
          /\ Send(p, [Fresh("register", "elsewhere") EXCEPT !.players = G, !.court = c])
     \/ \E c \in Courts : Send(p, [Fresh("unassign", "findEntry") EXCEPT !.court = c])
     \/ \E t \in Turns :
          /\ turn[t].status # "NONE"
          /\ \/ Send(p, [Fresh("complete", "load") EXCEPT !.turn = t])
             \/ Send(p, [Fresh("cancel", "loadWaiting") EXCEPT !.turn = t])
             \/ \E x \in turn[t].players, y \in Players \ turn[t].players :
                  Send(p, [Fresh("replace", "loadPlayers") EXCEPT !.turn = t, !.out = x, !.in = y])
  /\ made' = made + 1
  /\ UNCHANGED <<rows, crashes>>

\* The operator empties a court that is shown as busy, as often as it takes.
MakeClear(p, c) ==
  /\ At(p, "idle")
  /\ "clear" \in Kinds
  /\ Active(c) # {} \/ court[c] # "EMPTY"
  /\ req' = [req EXCEPT ![p] = [Fresh("clear", "waiting") EXCEPT !.court = c]]
  /\ UNCHANGED <<rows, made, crashes>>

\* addEntry: one insert.
AddEntry(p, G) ==
  /\ At(p, "idle")
  /\ Cardinality(G) \in 1..4
  /\ \E e \in Entries :
       /\ entry[e].status = "NONE"
       /\ entry' = [entry EXCEPT ![e] =
                       [status |-> "QUEUED", turn |-> None, court |-> None, players |-> G]]
  /\ UNCHANGED <<turn, game, court, req, made, crashes>>

-----------------------------------------------------------------------------
(* assignEntry, pushEntry, registerTurn                                    *)

CheckFree(p) ==
  /\ At(p, "free")
  /\ IF Active(req[p].court) = {} THEN Goto(p, "entry") ELSE Done(p)
  /\ UNCHANGED <<rows, made, crashes>>

ReadEntry(p) ==
  LET e == entry[req[p].entry]
  IN  /\ At(p, "entry")
      /\ IF e.status = "QUEUED" /\ Cardinality(e.players) \in 2..4
         THEN req' = [req EXCEPT ![p].at = "elsewhere", ![p].players = e.players]
         ELSE Done(p)
      /\ UNCHANGED <<rows, made, crashes>>

CheckElsewhere(p) ==
  /\ At(p, "elsewhere")
  /\ IF PlaysElsewhere(req[p].players, req[p].court) THEN Done(p) ELSE Goto(p, "count")
  /\ UNCHANGED <<rows, made, crashes>>

CountTurns(p) ==
  LET n == Cardinality(Active(req[p].court))
  IN  /\ At(p, "count")
      /\ IF n < MaxTurns
         THEN req' = [req EXCEPT ![p].at = "create", ![p].count = n]
         ELSE Done(p)
      /\ UNCHANGED <<rows, made, crashes>>

AfterStart(r) == IF r.kind = "assign" THEN "mark"
                 ELSE IF r.kind = "clear" THEN "recount" ELSE "idle"

CreateTurn(p) ==
  LET r == req[p]
      n == r.count
  IN  /\ At(p, "create")
      /\ \E t \in Turns :
           /\ turn[t].status = "NONE"
           /\ turn' = [turn EXCEPT ![t] = [status |-> "WAITING", court |-> r.court,
                                           pos |-> n + 1, players |-> r.players]]
           /\ IF n > 0 /\ r.kind = "register"
              THEN Done(p)
              ELSE req' = [req EXCEPT ![p].turn = t,
                                      ![p].at = IF n = 0 THEN "start" ELSE "mark"]
      /\ UNCHANGED <<game, court, entry, made, crashes>>

\* Mutated StartTurn: the turn is not set to PLAYING.
StartGameOnly(p) ==
  /\ At(p, "start")
  /\ Goto(p, "createGame")
  /\ UNCHANGED <<rows, made, crashes>>

\* startTurn: three writes.  Game.turnId is unique, a second create throws and
\* ends the request.
StartTurn(p) ==
  /\ At(p, "start")
  /\ turn' = [turn EXCEPT ![req[p].turn].status = "PLAYING"]
  /\ Goto(p, "createGame")
  /\ UNCHANGED <<game, court, entry, made, crashes>>

CreateGame(p) ==
  LET t == req[p].turn
  IN  /\ At(p, "createGame")
      /\ IF game[t] = "NONE"
         THEN game' = [game EXCEPT ![t] = "IN_PROGRESS"] /\ Goto(p, "inUse")
         ELSE Done(p) /\ UNCHANGED game
      /\ UNCHANGED <<turn, court, entry, made, crashes>>

MarkInUse(p) ==
  /\ At(p, "inUse")
  /\ court' = [court EXCEPT ![req[p].court] = "IN_USE"]
  /\ Goto(p, AfterStart(req[p]))
  /\ UNCHANGED <<turn, game, entry, made, crashes>>

\* The last write of pushEntry names the row by its id alone.
MarkEntry(p) ==
  LET r == req[p]
  IN  /\ At(p, "mark")
      /\ entry' = [entry EXCEPT ![r.entry] = [status |-> "MATERIALIZED", turn |-> r.turn,
                                              court |-> r.court, players |-> @.players]]
      /\ Done(p)
      /\ UNCHANGED <<turn, game, court, made, crashes>>

-----------------------------------------------------------------------------
(* completeTurn and completeTurnCore                                       *)

EndFrom(t) == IF game[t] = "NONE" THEN "endTurn" ELSE "endGame"

LoadTurn(p) ==
  LET t == req[p].turn
  IN  /\ At(p, "load")
      /\ IF turn[t].status = "PLAYING"
         THEN req' = [req EXCEPT ![p].at = EndFrom(t), ![p].court = turn[t].court]
         ELSE Done(p)
      /\ UNCHANGED <<rows, made, crashes>>

EndGame(p) ==
  /\ At(p, "endGame")
  /\ game' = [game EXCEPT ![req[p].turn] = "COMPLETED"]
  /\ Goto(p, "endTurn")
  /\ UNCHANGED <<turn, court, entry, made, crashes>>

EndTurn(p) ==
  /\ At(p, "endTurn")
  /\ turn' = [turn EXCEPT ![req[p].turn].status = "COMPLETED"]
  /\ Goto(p, "endEntry")
  /\ UNCHANGED <<game, court, entry, made, crashes>>

EndEntry(p) ==
  /\ At(p, "endEntry")
  /\ entry' = CloseEntries(entry, {req[p].turn}, "COMPLETED")
  /\ Goto(p, "queue")
  /\ UNCHANGED <<turn, game, court, made, crashes>>

\* Mutated ReadQueue: the last turn of the queue is started.
ReadQueueLast(p) ==
  LET W == Waiting(req[p].court)
  IN  /\ At(p, "queue")
      /\ IF W = {} THEN Goto(p, "empty")
         ELSE \E r \in Numberings(W), t \in W :
                /\ r[t] = Cardinality(W)
                /\ req' = [req EXCEPT ![p].at = IF Updates(r) = {} THEN "start" ELSE "renumber",
                                      ![p].turn = t, ![p].todo = Updates(r)]
      /\ UNCHANGED <<rows, made, crashes>>

\* The queue is read once; its first turn is the one that will be started.
ReadQueue(p) ==
  LET W == Waiting(req[p].court)
  IN  /\ At(p, "queue")
      /\ IF W = {} THEN Goto(p, "empty")
         ELSE \E r \in Numberings(W), t \in W :
                /\ r[t] = 1
                /\ req' = [req EXCEPT ![p].at = IF Updates(r) = {} THEN "start" ELSE "renumber",
                                      ![p].turn = t, ![p].todo = Updates(r)]
      /\ UNCHANGED <<rows, made, crashes>>

\* One update per row; then completeTurnCore starts the first turn and
\* cancelTurn is through.
Renumber(p) ==
  /\ At(p, "renumber")
  /\ \E u \in First(p) :
       /\ turn' = [turn EXCEPT ![u[1]].pos = u[2]]
       /\ IF req[p].todo # {u} THEN req' = [req EXCEPT ![p].todo = @ \ {u}]
          ELSE Goto(p, IF req[p].kind = "cancel" THEN "idle" ELSE "start")
  /\ UNCHANGED <<game, court, entry, made, crashes>>

LeaveEmpty(p) ==
  /\ At(p, "empty")
  /\ court' = [court EXCEPT ![req[p].court] = "EMPTY"]
  /\ Goto(p, AfterStart(req[p]))
  /\ UNCHANGED <<turn, game, entry, made, crashes>>

-----------------------------------------------------------------------------
(* completeActiveTurnByCourt and cancelTurn                                *)

\* Mutated ListWaiting: the stuck waiting turns are not cancelled.
ListNothing(p) ==
  /\ At(p, "waiting")
  /\ Goto(p, "playing")
  /\ UNCHANGED <<rows, made, crashes>>

ListWaiting(p) ==
  /\ At(p, "waiting")
  /\ \E r \in Numberings(Waiting(req[p].court)) :
       req' = [req EXCEPT ![p].at = IF Numbered(r) = {} THEN "playing" ELSE "cancel",
                          ![p].todo = Numbered(r)]
  /\ UNCHANGED <<rows, made, crashes>>

FindPlaying(p) ==
  LET c == req[p].court
  IN  /\ At(p, "playing")
      /\ IF Playing(c) = {} THEN Goto(p, "recount")
         ELSE \E t \in Playing(c) : req' = [req EXCEPT ![p].at = EndFrom(t), ![p].turn = t]
      /\ UNCHANGED <<rows, made, crashes>>

Recount(p) ==
  /\ At(p, "recount")
  /\ IF Active(req[p].court) = {} THEN Goto(p, "release") ELSE Done(p)
  /\ UNCHANGED <<rows, made, crashes>>

Release(p) ==
  /\ At(p, "release")
  /\ court' = [court EXCEPT ![req[p].court] = "EMPTY"]
  /\ Done(p)
  /\ UNCHANGED <<turn, game, entry, made, crashes>>

LoadWaiting(p) ==
  LET t == req[p].turn
  IN  /\ At(p, "loadWaiting")
      /\ IF turn[t].status = "WAITING"
         THEN req' = [req EXCEPT ![p].at = "cancel", ![p].court = turn[t].court,
                                 ![p].todo = {<<t, 1>>}]
         ELSE Done(p)
      /\ UNCHANGED <<rows, made, crashes>>

\* cancelStuckWaitingTurn for each turn listed, and the same two writes of
\* cancelTurn.
CancelListed(p) ==
  /\ At(p, "cancel")
  /\ \E u \in First(p) : turn' = [turn EXCEPT ![u[1]].status = "CANCELLED"]
  /\ Goto(p, "cancelEntry")
  /\ UNCHANGED <<game, court, entry, made, crashes>>

CancelEntry(p) ==
  /\ At(p, "cancelEntry")
  /\ \E u \in First(p) :
       /\ entry' = CloseEntries(entry, {u[1]}, "CANCELLED")
       /\ req' = [req EXCEPT ![p].todo = @ \ {u},
                             ![p].at = IF req[p].kind = "cancel" THEN "remaining"
                                       ELSE IF req[p].todo # {u} THEN "cancel" ELSE "playing"]
  /\ UNCHANGED <<turn, game, court, made, crashes>>

ListRemaining(p) ==
  /\ At(p, "remaining")
  /\ \E r \in Numberings(Active(req[p].court)) :
       IF Updates(r) = {} THEN Done(p)
       ELSE req' = [req EXCEPT ![p].at = "renumber", ![p].todo = Updates(r)]
  /\ UNCHANGED <<rows, made, crashes>>

-----------------------------------------------------------------------------
(* unassignEntryByCourt and replacePlayerInRunningTurn                     *)

FindEntry(p) ==
  LET E == {e \in Entries : entry[e].status = "MATERIALIZED" /\ entry[e].court = req[p].court}
  IN  /\ At(p, "findEntry")
      /\ IF E = {} THEN Done(p)
         ELSE \E e \in E : req' = [req EXCEPT ![p].at = "findTurn", ![p].entry = e,
                                              ![p].turn = entry[e].turn]
      /\ UNCHANGED <<rows, made, crashes>>

FindTurn(p) ==
  /\ At(p, "findTurn")
  /\ IF turn[req[p].turn].status = "COMPLETED" THEN Done(p) ELSE Goto(p, "undo")
  /\ UNCHANGED <<rows, made, crashes>>

UndoAssignment(p) ==
  LET r == req[p]
  IN  /\ At(p, "undo")
      /\ game' = [game EXCEPT ![r.turn] = IF @ = "IN_PROGRESS" THEN "CANCELLED" ELSE @]
      /\ turn' = [turn EXCEPT ![r.turn].status = "CANCELLED"]
      /\ entry' = [entry EXCEPT ![r.entry] = [status |-> "QUEUED", turn |-> None,
                                              court |-> None, players |-> @.players]]
      /\ court' = IF Active(r.court) \ {r.turn} = {}
                  THEN [court EXCEPT ![r.court] = "EMPTY"] ELSE court
      /\ Done(p)
      /\ UNCHANGED <<made, crashes>>

LoadPlayers(p) ==
  LET r == req[p]
      t == turn[r.turn]
  IN  /\ At(p, "loadPlayers")
      /\ IF t.status = "PLAYING" /\ r.out \in t.players /\ r.in \notin t.players
         THEN req' = [req EXCEPT ![p].at = "inElsewhere", ![p].court = t.court]
         ELSE Done(p)
      /\ UNCHANGED <<rows, made, crashes>>

InElsewhere(p) ==
  /\ At(p, "inElsewhere")
  /\ IF PlaysElsewhere({req[p].in}, req[p].court) THEN Done(p) ELSE Goto(p, "readEntry")
  /\ UNCHANGED <<rows, made, crashes>>

\* The entry is read before the transaction and written back within it.
ReadTurnEntry(p) ==
  LET E == {e \in Entries : entry[e].turn = req[p].turn}
  IN  /\ At(p, "readEntry")
      /\ IF E = {} THEN Goto(p, "swap")
         ELSE \E e \in E : req' = [req EXCEPT ![p].at = "swap", ![p].entry = e,
                                              ![p].players = entry[e].players]
      /\ UNCHANGED <<rows, made, crashes>>

\* TurnPlayer is unique by turn and user: putting in a player who is there by
\* now throws.
SwapPlayer(p) ==
  LET r == req[p]
      kept == turn[r.turn].players \ {r.out}
  IN  /\ At(p, "swap")
      /\ IF r.in \in kept THEN UNCHANGED <<turn, entry>>
         ELSE /\ turn' = [turn EXCEPT ![r.turn].players = kept \cup {r.in}]
              /\ entry' = IF r.entry = None THEN entry
                          ELSE [entry EXCEPT ![r.entry].players =
                                  IF r.out \in r.players
                                  THEN (r.players \ {r.out}) \cup {r.in} ELSE r.players]
      /\ Done(p)
      /\ UNCHANGED <<game, court, made, crashes>>

-----------------------------------------------------------------------------
Crash ==
  /\ crashes < MaxCrashes
  /\ \E p \in Requests : ~At(p, "idle")
  /\ req' = [p \in Requests |-> Idle]
  /\ crashes' = crashes + 1
  /\ UNCHANGED <<rows, made>>

Step(p) ==
  \/ CheckFree(p) \/ ReadEntry(p) \/ CheckElsewhere(p) \/ CountTurns(p)
  \/ CreateTurn(p) \/ StartTurn(p) \/ CreateGame(p) \/ MarkInUse(p) \/ MarkEntry(p)
  \/ LoadTurn(p) \/ EndGame(p) \/ EndTurn(p) \/ EndEntry(p)
  \/ ReadQueue(p) \/ Renumber(p) \/ LeaveEmpty(p)
  \/ ListWaiting(p) \/ FindPlaying(p) \/ Recount(p) \/ Release(p)
  \/ LoadWaiting(p) \/ CancelListed(p) \/ CancelEntry(p) \/ ListRemaining(p)
  \/ FindEntry(p) \/ FindTurn(p) \/ UndoAssignment(p)
  \/ LoadPlayers(p) \/ InElsewhere(p) \/ ReadTurnEntry(p) \/ SwapPlayer(p)

Next ==
  \/ \E p \in Requests : Make(p) \/ Step(p)
  \/ \E p \in Requests, c \in Courts : MakeClear(p, c)
  \/ \E p \in Requests, G \in Groups : AddEntry(p, G)
  \/ Crash

Spec == Init /\ [][Next]_vars

\* A request under way is answered, and the operator keeps clearing a court
\* that is shown as busy.
Fairness == /\ \A p \in Requests : WF_vars(Step(p))
            /\ \A c \in Courts : WF_vars(\E p \in Requests : MakeClear(p, c))
FairSpec == Spec /\ Fairness

-----------------------------------------------------------------------------
(* Properties                                                              *)

Places == {"idle", "free", "entry", "elsewhere", "count", "create", "start", "createGame",
           "inUse", "mark", "load", "endGame", "endTurn", "endEntry", "queue", "renumber",
           "empty", "waiting", "playing", "recount", "release", "loadWaiting", "cancel",
           "cancelEntry", "remaining", "findEntry", "findTurn", "undo", "loadPlayers",
           "inElsewhere", "readEntry", "swap"}

RequestKinds == {"none", "assign", "register", "complete", "cancel", "unassign", "replace", "clear"}
RequestRow == [kind : RequestKinds, at : Places, court : Courts \cup {None},
               turn : Turns \cup {None}, entry : Entries \cup {None}, players : SUBSET Players,
               count : Nat, todo : SUBSET (Turns \X Nat),
               out : Players \cup {None}, in : Players \cup {None}]

\* Rows are well formed whatever overlapped, and every request stands at a call.
TypeOK ==
  /\ RowsTypeOK
  /\ req \in [Requests -> RequestRow]
  /\ made \in 0..MaxRequests /\ crashes \in 0..MaxCrashes

Settled == \A p \in Requests : At(p, "idle")

\* A game record exists only for a turn that was started: no overlap of
\* registering, promoting and cancelling writes one for a turn in the queue.
GameOnlyOnceStarted ==
  \A t \in Turns : game[t] # "NONE" => turn[t].status \notin {"NONE", "WAITING"}

\* turn.service.ts:508 "the stuck-court recovery": whatever requests overlapped
\* and crashed before, clearing a court ends with it empty and shown as such.
CourtsRecover ==
  \A c \in Courts : <>[](Active(c) = {} /\ court[c] = "EMPTY")
=============================================================================
