---------------------------- MODULE TurnAloneInv ----------------------------
(***************************************************************************)
(* Where the one request of TurnAlone stands: what its calls so far have   *)
(* done of the action of TurnBoard that the handler implements, and what   *)
(* of the rows it read before still holds.  One line for each call of      *)
(* TurnRaces, in the rows s when the request came in and the rows w of now.*)
(***************************************************************************)
EXTENDS TurnAlone

WaitingIn(s, c) == {t \in Turns : s.turn[t].status = "WAITING" /\ s.turn[t].court = c}
PlayingIn(s, c) == {t \in Turns : s.turn[t].status = "PLAYING" /\ s.turn[t].court = c}
ActiveIn(s, c) == WaitingIn(s, c) \cup PlayingIn(s, c)
ElsewhereIn(s, G, c) ==
  \E u \in Turns : /\ s.turn[u].status = "PLAYING" /\ s.turn[u].court # c
                   /\ s.turn[u].players \cap G # {}
NumberingsIn(s, S) ==
  {r \in [S -> 1..Cardinality(S)] :
     \A x, y \in S : x # y => /\ r[x] # r[y]
                              /\ s.turn[x].pos < s.turn[y].pos => r[x] < r[y]}

\* The turns of S have got the status, those of S their numbers, and of the
\* updates of n those to do are left.
Marked(tu, S, status) ==
  [u \in Turns |-> IF u \in S THEN [tu[u] EXCEPT !.status = status] ELSE tu[u]]
Placed(tu, n, S) ==
  [u \in Turns |-> IF u \in S THEN [tu[u] EXCEPT !.pos = n[u]] ELSE tu[u]]
DoneOf(n, todo) == {u \in DOMAIN n : <<u, n[u]>> \notin todo}

\* registerTurn, of itself and for pushEntry: what was checked, and the new turn.
Registering(r, s) ==
  /\ r.kind \in {"assign", "register"}
  /\ r.court \in Courts /\ r.players \subseteq Players /\ Cardinality(r.players) \in 2..4
  /\ r.kind = "register" => r.players \in Groups
  /\ r.kind = "assign" => /\ r.entry \in Entries
                          /\ s.entry[r.entry].status = "QUEUED"
                          /\ s.entry[r.entry].players = r.players
Allowed(r, s) == Registering(r, s) /\ ~ElsewhereIn(s, r.players, r.court)
Created(r, s) ==
  /\ Allowed(r, s)
  /\ Cardinality(ActiveIn(s, r.court)) < MaxTurns
  /\ r.turn \in Turns /\ s.turn[r.turn].status = "NONE"
NewTurn(r, s, status) ==
  [s.turn EXCEPT ![r.turn] = [status |-> status, court |-> r.court,
      pos |-> Cardinality(ActiveIn(s, r.court)) + 1, players |-> r.players]]

\* completeTurnCore after the queue was read: t is over, and the turn that
\* comes first by the numbers n is to be started.
Promoting(r, s, w, t, n) ==
  /\ r.kind = "complete"
  /\ t \in Turns /\ s.turn[t].status = "PLAYING" /\ s.turn[t].court = r.court
  /\ n \in NumberingsIn(s, WaitingIn(s, r.court))
  /\ r.turn \in WaitingIn(s, r.court) /\ n[r.turn] = 1
  /\ w.court = s.court
  /\ w.entry = CloseEntries(s.entry, {t}, "COMPLETED")
Promoted(s, t, n, todo) == Placed(Marked(s.turn, {t}, "COMPLETED"), n, DoneOf(n, todo))

\* startTurn, of a new turn on an idle court or of the first in the queue.
StartsNew(r, s, w) ==
  /\ Created(r, s) /\ ActiveIn(s, r.court) = {}
  /\ w.court = s.court /\ w.entry = s.entry
  /\ w.turn = NewTurn(r, s, IF r.at = "start" THEN "WAITING" ELSE "PLAYING")
  /\ w.game = IF r.at = "inUse" THEN [s.game EXCEPT ![r.turn] = "IN_PROGRESS"] ELSE s.game
StartsNext(r, s, w) ==
  \E t \in Turns : \E n \in NumberingsIn(s, WaitingIn(s, r.court)) :
    /\ Promoting(r, s, w, t, n)
    /\ w.turn = IF r.at = "start" THEN Promoted(s, t, n, {})
                ELSE Marked(Promoted(s, t, n, {}), {r.turn}, "PLAYING")
    /\ w.game = IF r.at = "inUse"
                THEN [s.game EXCEPT ![t] = "COMPLETED", ![r.turn] = "IN_PROGRESS"]
                ELSE [s.game EXCEPT ![t] = "COMPLETED"]
Pushed(r, s, w) ==
  LET starts == ActiveIn(s, r.court) = {}
  IN  /\ r.kind = "assign" /\ Created(r, s)
      /\ w.turn = NewTurn(r, s, IF starts THEN "PLAYING" ELSE "WAITING")
      /\ w.game = IF starts THEN [s.game EXCEPT ![r.turn] = "IN_PROGRESS"] ELSE s.game
      /\ w.court = IF starts THEN [s.court EXCEPT ![r.court] = "IN_USE"] ELSE s.court
      /\ w.entry = s.entry

\* A game is about to end: of completeTurn, or of clearing a court, which has
\* cancelled the waiting turns by then.
Stuck(r, s) == IF r.kind = "clear" THEN WaitingIn(s, r.court) ELSE {}
BaseTurn(r, s) == Marked(s.turn, Stuck(r, s), "CANCELLED")
BaseEntry(r, s) == CloseEntries(s.entry, Stuck(r, s), "CANCELLED")
EndsGame(r, s, w) ==
  /\ r.kind \in {"complete", "clear"} /\ r.court \in Courts
  /\ r.turn \in PlayingIn(s, r.court)
  /\ w.court = s.court
  /\ w.game = IF r.at = "endGame" THEN s.game ELSE [s.game EXCEPT ![r.turn] = "COMPLETED"]
  /\ w.turn = IF r.at \in {"endGame", "endTurn"} THEN BaseTurn(r, s)
              ELSE Marked(BaseTurn(r, s), {r.turn}, "COMPLETED")
  /\ w.entry = IF r.at \in {"queue", "empty"}
               THEN CloseEntries(BaseEntry(r, s), {r.turn}, "COMPLETED") ELSE BaseEntry(r, s)
  /\ r.at = "empty" /\ r.kind = "complete" => WaitingIn(s, r.court) = {}
Renumbers(r, s, w) ==
  \E t \in Turns : \E n \in NumberingsIn(s, WaitingIn(s, r.court)) :
    /\ Promoting(r, s, w, t, n)
    /\ w.game = [s.game EXCEPT ![t] = "COMPLETED"]
    /\ r.todo \subseteq Numbered(n) /\ r.todo # {}
    /\ w.turn = Promoted(s, t, n, r.todo)

\* The waiting turns that are to be cancelled, and how far it has come.
Lowest(r, u) == \A v \in r.todo : u[2] <= v[2]
CancelsOne(r, s) == r.kind = "cancel" /\ r.turn \in WaitingIn(s, r.court)
ToCancel(r, s) == IF r.kind = "clear" THEN WaitingIn(s, r.court) ELSE {r.turn}
Cancels(r, s, w) ==
  /\ CancelsOne(r, s) \/ (r.kind = "clear" /\ r.court \in Courts)
  /\ w.game = s.game /\ w.court = s.court
  /\ \E n \in NumberingsIn(s, ToCancel(r, s)) :
       /\ r.todo # {} /\ r.todo \subseteq Numbered(n)
       /\ w.entry = CloseEntries(s.entry, DoneOf(n, r.todo), "CANCELLED")
       /\ IF r.at = "cancel" THEN w.turn = Marked(s.turn, DoneOf(n, r.todo), "CANCELLED")
          ELSE \E u \in r.todo :
                 /\ Lowest(r, u)
                 /\ w.turn = Marked(s.turn, DoneOf(n, r.todo \ {u}), "CANCELLED")
Remains(r, s, w) ==
  /\ CancelsOne(r, s)
  /\ w.game = s.game /\ w.court = s.court
  /\ w.entry = CloseEntries(s.entry, {r.turn}, "CANCELLED")
Rest(r, s) == ActiveIn(s, r.court) \ {r.turn}
RenumbersRest(r, s, w) ==
  /\ Remains(r, s, w)
  /\ \E n \in NumberingsIn(s, Rest(r, s)) :
       /\ r.todo \subseteq Numbered(n) /\ r.todo # {}
       /\ w.turn = Placed(Marked(s.turn, {r.turn}, "CANCELLED"), n, DoneOf(n, r.todo))

\* completeActiveTurnByCourt: the waiting turns are cancelled, and when P,
\* which was in play, is completed too only the court is left to do.
Clears(r) == r.kind = "clear" /\ r.court \in Courts
NoneWaits(r, s, w) ==
  /\ w.turn = BaseTurn(r, s) /\ w.entry = BaseEntry(r, s)
  /\ w.game = s.game /\ w.court = s.court
Cleared(r, s, w, P) ==
  /\ w.turn = Marked(BaseTurn(r, s), P, "COMPLETED")
  /\ w.game = [u \in Turns |-> IF u \in P THEN "COMPLETED" ELSE s.game[u]]
  /\ w.entry = CloseEntries(BaseEntry(r, s), P, "COMPLETED")
  /\ w.court = IF P = {} THEN s.court ELSE [s.court EXCEPT ![r.court] = "EMPTY"]
InPlay(s, c) == IF PlayingIn(s, c) = {} THEN {{}} ELSE {{t} : t \in PlayingIn(s, c)}

\* unassignEntryByCourt and replacePlayerInRunningTurn: what was read.
Found(r, s) ==
  /\ r.court \in Courts /\ r.entry \in Entries
  /\ s.entry[r.entry].status = "MATERIALIZED"
  /\ s.entry[r.entry].court = r.court /\ s.entry[r.entry].turn = r.turn
Swaps(r) == r.turn \in Turns /\ r.out \in Players /\ r.in \in Players
Swappable(r, s) ==
  /\ Swaps(r)
  /\ s.turn[r.turn].status = "PLAYING" /\ s.turn[r.turn].court = r.court
  /\ r.out \in s.turn[r.turn].players /\ r.in \notin s.turn[r.turn].players
EntryRead(r, s) ==
  \/ r.entry = None /\ \A e \in Entries : s.entry[e].turn # r.turn
  \/ /\ r.entry \in Entries /\ s.entry[r.entry].turn = r.turn
     /\ s.entry[r.entry].players = r.players

\* Where the request stands, and what it has done of its action so far.
Stands(r, s, w) ==
  /\ r.at = "idle" => w = s
  /\ r.at \in {"free", "entry"} =>
       w = s /\ r.kind = "assign" /\ r.court \in Courts /\ r.entry \in Entries
  /\ r.at = "elsewhere" => w = s /\ Registering(r, s)
  /\ r.at = "count" => w = s /\ Allowed(r, s)
  /\ r.at = "create" => /\ w = s /\ Allowed(r, s)
                        /\ r.count = Cardinality(ActiveIn(s, r.court)) /\ r.count < MaxTurns
  /\ r.at \in {"start", "createGame", "inUse"} => StartsNew(r, s, w) \/ StartsNext(r, s, w)
  /\ r.at = "mark" => Pushed(r, s, w)
  /\ r.at = "load" => w = s /\ r.kind = "complete" /\ r.turn \in Turns
  /\ r.at \in {"endGame", "endTurn", "endEntry", "queue", "empty"} => EndsGame(r, s, w)
  /\ r.at = "renumber" => Renumbers(r, s, w) \/ RenumbersRest(r, s, w)
  /\ r.at = "loadWaiting" => w = s /\ r.kind = "cancel" /\ r.turn \in Turns
  /\ r.at \in {"cancel", "cancelEntry"} => Cancels(r, s, w)
  /\ r.at = "remaining" => Remains(r, s, w) /\ w.turn = Marked(s.turn, {r.turn}, "CANCELLED")
  /\ r.at = "waiting" => w = s /\ Clears(r)
  /\ r.at = "playing" => Clears(r) /\ NoneWaits(r, s, w)
  /\ r.at \in {"recount", "release"} =>
       Clears(r) /\ \E P \in InPlay(s, r.court) : Cleared(r, s, w, P)
  /\ r.at = "findEntry" => w = s /\ r.court \in Courts
  /\ r.at = "findTurn" => w = s /\ Found(r, s)
  /\ r.at = "undo" => w = s /\ Found(r, s) /\ s.turn[r.turn].status # "COMPLETED"
  /\ r.at = "loadPlayers" => w = s /\ Swaps(r) /\ r.entry = None
  /\ r.at \in {"inElsewhere", "readEntry"} => w = s /\ Swappable(r, s) /\ r.entry = None
  /\ r.at = "swap" => w = s /\ Swappable(r, s) /\ EntryRead(r, s)
  /\ r.at \in {"readEntry", "swap"} => ~ElsewhereIn(s, {r.in}, r.court)

\* What the rows agree on when no request is under way, and that no court is
\* out of use.
Agreed(s) ==
  /\ s.turn \in [Turns -> TurnRow] /\ s.game \in [Turns -> GameStatus]
  /\ s.court \in [Courts -> CourtStatus] /\ s.entry \in [Entries -> EntryRow]
  /\ \A t \in Turns : /\ s.turn[t].status \in {"NONE", "WAITING"} => s.game[t] = "NONE"
                      /\ s.turn[t].status = "PLAYING" => s.game[t] # "NONE"
                      /\ s.turn[t].status # "NONE" => s.turn[t].court \in Courts
  /\ \A e \in Entries : s.entry[e].status = "MATERIALIZED" => s.entry[e].turn \in Turns
  /\ \A e, f \in Entries :
       s.entry[e].turn # None /\ s.entry[e].turn = s.entry[f].turn => e = f
InUse(s) == \A c \in Courts : s.court[c] # "MAINTENANCE"

\* Wherever the request stands, the rows are those of its start with the part of its
\* action done that its calls have made so far, no more and no less.
HandlersStand ==
  /\ \A p \in Requests : Stands(req[p], settled, Snapshot)
  /\ Agreed(settled) /\ InUse(settled)
=============================================================================
