--------------------------- MODULE TurnAloneProofs ---------------------------
(***************************************************************************)
(* With one request at a time the handlers, call by call, implement        *)
(* TurnBoard, for every set of rows, players and every maxTurnsPerCourt.   *)
(* Every call keeps the request where TurnAloneInv says it stands; at the  *)
(* answer this is an action of TurnBoard, whose own theorems then hold of  *)
(* the rows.                                                               *)
(***************************************************************************)
EXTENDS TurnAloneInv, TurnRacesProofs

-----------------------------------------------------------------------------
(* The board that is proved about is the one TurnAlone names               *)

Proved == INSTANCE TurnBoardProofs WITH
  turn <- settled.turn, game <- settled.game, court <- settled.court, entry <- settled.entry,
  present <- Players, inLesson <- {}, resting <- {}, session <- "ACTIVE",
  Resters <- {}, Learners <- {}, Serviced <- {}, Penalised <- {}

-----------------------------------------------------------------------------
(* Rows that are marked, placed and closed one after the other             *)

(* One turn that gets a status, and turns that get none.                   *)
LEMMA MarkedOne ==
  ASSUME NEW tu \in [Turns -> TurnRow], NEW t \in Turns, NEW z \in TurnStatus
  PROVE  [tu EXCEPT ![t].status = z] = Marked(tu, {t}, z)
BY DEF Marked

LEMMA MarkedNone ==
  ASSUME NEW tu \in [Turns -> TurnRow], NEW z
  PROVE  Marked(tu, {}, z) = tu
BY DEF Marked

(* Rows keep their type, and marks of one status add up.                   *)
LEMMA MarkedType ==
  ASSUME NEW tu \in [Turns -> TurnRow], NEW S, NEW z \in TurnStatus
  PROVE  Marked(tu, S, z) \in [Turns -> TurnRow]
BY DEF Marked, TurnRow

LEMMA MarkedMore ==
  ASSUME NEW tu \in [Turns -> TurnRow], NEW S, NEW R, NEW z \in TurnStatus
  PROVE  Marked(Marked(tu, S, z), R, z) = Marked(tu, S \cup R, z)
BY DEF Marked, TurnRow

(* The same for numbers; turns that have theirs are as they were.          *)
LEMMA PlacedType ==
  ASSUME NEW tu \in [Turns -> TurnRow], NEW S, NEW n, \A u \in S : n[u] \in Nat
  PROVE  Placed(tu, n, S) \in [Turns -> TurnRow]
BY DEF Placed, TurnRow

LEMMA PlacedAlready ==
  ASSUME NEW tu \in [Turns -> TurnRow], NEW S, NEW n, \A u \in S : tu[u].pos = n[u]
  PROVE  Placed(tu, n, S) = tu
BY DEF Placed, TurnRow

(* The same for the entries of turns.                                      *)
LEMMA ClosedNone ==
  ASSUME NEW en \in [Entries -> EntryRow], NEW z
  PROVE  CloseEntries(en, {}, z) = en
BY DEF CloseEntries

LEMMA ClosedType ==
  ASSUME NEW en \in [Entries -> EntryRow], NEW S, NEW z \in EntryStatus
  PROVE  CloseEntries(en, S, z) \in [Entries -> EntryRow]
BY DEF CloseEntries, EntryRow

LEMMA ClosedMore ==
  ASSUME NEW en \in [Entries -> EntryRow], NEW S, NEW R,
         NEW z \in EntryStatus \ {"MATERIALIZED"}
  PROVE  CloseEntries(CloseEntries(en, S, z), R, z) = CloseEntries(en, S \cup R, z)
BY DEF CloseEntries, EntryRow

-----------------------------------------------------------------------------
(* Numbers and the updates that give them                                  *)

(* Numbers tell the turns apart.                                           *)
LEMMA NumbersIn ==
  ASSUME NEW s, NEW S, NEW n \in NumberingsIn(s, S), IsFiniteSet(S)
  PROVE  /\ DOMAIN n = S
         /\ \A u \in S : n[u] \in Nat
         /\ \A x, y \in S : n[x] = n[y] => x = y
<1>1. Cardinality(S) \in Nat
  BY FS_CardinalityType
<1>. QED
  BY <1>1 DEF NumberingsIn

(* An update names a turn and its number.                                  *)
LEMMA NumberedPairs ==
  ASSUME NEW n, NEW v \in Numbered(n)
  PROVE  v[1] \in DOMAIN n /\ v[2] = n[v[1]] /\ v = <<v[1], n[v[1]]>>
BY DEF Numbered

(* One update more, all updates and none.                                  *)
LEMMA OneDone ==
  ASSUME NEW n, NEW todo, todo \subseteq Numbered(n), NEW v \in todo
  PROVE  DoneOf(n, todo \ {v}) = DoneOf(n, todo) \cup {v[1]}
<1>1. v[1] \in DOMAIN n /\ v = <<v[1], n[v[1]]>>
  BY NumberedPairs
<1>. QED
  BY <1>1 DEF DoneOf

LEMMA AllDone ==
  ASSUME NEW n
  PROVE  DoneOf(n, {}) = DOMAIN n
BY DEF DoneOf

LEMMA NoneDone ==
  ASSUME NEW n
  PROVE  DoneOf(n, Numbered(n)) = {}
BY DEF DoneOf, Numbered

(* Turns whose positions are the same have the same numbers.               *)
LEMMA SameOrder ==
  ASSUME NEW s, NEW w, NEW S, \A u \in S : s.turn[u].pos = w.turn[u].pos
  PROVE  NumberingsIn(s, S) = NumberingsIn(w, S)
BY DEF NumberingsIn

\* The calls work on the rows of now, and TurnBoard on those of the start.

(* The calls work on the rows of now, and TurnBoard on those of the start. *)
LEMMA RowsNow ==
  /\ \A c : /\ Waiting(c) = WaitingIn(Snapshot, c) /\ Playing(c) = PlayingIn(Snapshot, c)
            /\ Active(c) = ActiveIn(Snapshot, c)
  /\ \A G, c : PlaysElsewhere(G, c) <=> ElsewhereIn(Snapshot, G, c)
  /\ \A S : Numberings(S) = NumberingsIn(Snapshot, S)
<1>1. Snapshot.turn = turn
  BY DEF Snapshot
<1>2. \A c : Waiting(c) = WaitingIn(Snapshot, c) /\ Playing(c) = PlayingIn(Snapshot, c)
  BY <1>1 DEF Waiting, Playing, WaitingIn, PlayingIn
<1>3. \A c : Active(c) = ActiveIn(Snapshot, c)
  BY <1>2 DEF Active, ActiveIn
<1>4. \A G, c : PlaysElsewhere(G, c) <=> ElsewhereIn(Snapshot, G, c)
  BY <1>1 DEF PlaysElsewhere, ElsewhereIn
<1>5. \A S : Numberings(S) = NumberingsIn(Snapshot, S)
  BY <1>1 DEF Numberings, NumberingsIn
<1>. QED
  BY <1>2, <1>3, <1>4, <1>5

(* The library is instantiated with the module: one notion of size.        *)
LEMMA SameCount ==
  ASSUME NEW S
  PROVE  Board!Cardinality(S) = Cardinality(S) /\ Proved!Cardinality(S) = Cardinality(S)
<1>1. Board!Cardinality(S) = Cardinality(S)
  BY Zenon DEF Board!Cardinality, Cardinality
<1>2. Proved!Cardinality(S) = Cardinality(S)
  BY Zenon DEF Proved!Cardinality, Cardinality
<1>. QED
  BY <1>1, <1>2

(* The queries of TurnBoard are about the rows of the start.               *)
LEMMA RowsThen ==
  /\ \A c : /\ Board!Waiting(c) = WaitingIn(settled, c)
            /\ Board!Playing(c) = PlayingIn(settled, c)
            /\ Board!Active(c) = ActiveIn(settled, c)
  /\ \A G, c : Board!PlaysElsewhere(G, c) <=> ElsewhereIn(settled, G, c)
  /\ \A S : Board!Numberings(S) = NumberingsIn(settled, S)
  /\ \A en, S, z : Board!CloseEntries(en, S, z) = CloseEntries(en, S, z)
<1>1. \A c : Board!Waiting(c) = WaitingIn(settled, c) /\ Board!Playing(c) = PlayingIn(settled, c)
  BY DEF Board!Waiting, Board!Playing, WaitingIn, PlayingIn
<1>2. \A c : Board!Active(c) = ActiveIn(settled, c)
  BY <1>1 DEF Board!Active, ActiveIn
<1>3. \A G, c : Board!PlaysElsewhere(G, c) <=> ElsewhereIn(settled, G, c)
  BY DEF Board!PlaysElsewhere, ElsewhereIn
<1>4. \A S : Board!Numberings(S) = NumberingsIn(settled, S)
  BY SameCount, Zenon DEF Board!Numberings, NumberingsIn
<1>5. \A en, S, z : Board!CloseEntries(en, S, z) = CloseEntries(en, S, z)
  BY Zenon DEF Board!CloseEntries, CloseEntries
<1>. QED
  BY <1>1, <1>2, <1>3, <1>4, <1>5

-----------------------------------------------------------------------------
(* Steps of the one request                                                *)

AloneInv ==
  /\ RacesInv /\ Agreed(settled) /\ InUse(settled)
  /\ \A p \in Requests : Stands(req[p], settled, Snapshot)

\* What the request does from its first call to its answer: the actions of
\* TurnBoard that it implements.
BoardDoes ==
  \/ \E c \in Courts, G \in Groups : Board!RegisterTurn(c, G)
  \/ \E t \in Turns : Board!CompleteTurn(t) \/ Board!CancelTurn(t)
  \/ \E c \in Courts : Board!ClearCourt(c)
  \/ \E t \in Turns, out \in Players, in \in Players : Board!ReplacePlayer(t, out, in)
  \/ \E G \in Groups : Board!AddEntry(G)
  \/ \E e \in Entries : Board!UnassignEntry(e)
  \/ \E e \in Entries, c \in Courts : Board!PushEntry(e, c)

GoesOn(p) ==
  \E r : req' = [req EXCEPT ![p] = r] /\ r.at # "idle" /\ Stands(r, settled, Snapshot')
Answered(p) ==
  /\ req' = [req EXCEPT ![p] = Idle]
  /\ settled' = Snapshot' => settled' = settled \/ BoardDoes

SameLocals(r, q) ==
  /\ r.kind = q.kind /\ r.court = q.court /\ r.turn = q.turn /\ r.entry = q.entry
  /\ r.players = q.players /\ r.count = q.count /\ r.todo = q.todo
  /\ r.out = q.out /\ r.in = q.in

(* A request that goes on to another call keeps what it has read.          *)
LEMMA GotoRow ==
  ASSUME TypeOK, NEW p \in Requests, NEW l, l # "idle", Goto(p, l)
  PROVE  \E r : req' = [req EXCEPT ![p] = r] /\ r.at = l /\ SameLocals(r, req[p])
<1>1. req[p] \in RequestRow
  BY DEF TypeOK
<1>2. PICK r : r = [req[p] EXCEPT !.at = l]
  OBVIOUS
<1>3. req' = [req EXCEPT ![p] = r]
  BY <1>2 DEF Goto
<1>4. r.at = l /\ SameLocals(r, req[p])
  BY <1>1, <1>2 DEF RequestRow, SameLocals
<1>. QED
  BY <1>3, <1>4

(* A read leaves the rows as they are.                                     *)
LEMMA ReadsKeep ==
  ASSUME UNCHANGED rows
  PROVE  Snapshot' = Snapshot
BY DEF rows, Snapshot

(* A request that gives up before it wrote anything did nothing.           *)
LEMMA GivesUp ==
  ASSUME NEW p \in Requests, Done(p), UNCHANGED rows, Snapshot = settled
  PROVE  Answered(p)
<1>1. req' = [req EXCEPT ![p] = Idle]
  BY DEF Done, Goto
<1>. QED
  BY <1>1, ReadsKeep DEF Answered

(* What a request can rely on at each of its calls.                        *)
LEMMA StandsNow ==
  ASSUME AloneInv, NEW p \in Requests
  PROVE  /\ TypeOK /\ req[p] \in RequestRow
         /\ Agreed(settled) /\ InUse(settled) /\ Stands(req[p], settled, Snapshot)
BY DEF AloneInv, RacesInv, TypeOK

(* assignEntry and pushEntry: the reads.                                   *)
LEMMA CheckFreeAlone ==
  ASSUME AloneInv, NEW p \in Requests, CheckFree(p)
  PROVE  GoesOn(p) \/ Answered(p)
<1>1. Snapshot = settled /\ req[p].kind = "assign" /\ req[p].court \in Courts
      /\ req[p].entry \in Entries
  BY StandsNow DEF Stands, CheckFree, At
<1>2. UNCHANGED rows
  BY DEF CheckFree
<1>3. CASE Done(p)
  BY <1>1, <1>2, <1>3, GivesUp
<1>4. CASE Goto(p, "entry")
  <2>1. PICK r : req' = [req EXCEPT ![p] = r] /\ r.at = "entry" /\ SameLocals(r, req[p])
    BY <1>4, StandsNow, GotoRow
  <2>2. Stands(r, settled, Snapshot')
    BY <1>1, <1>2, <2>1, ReadsKeep DEF Stands, SameLocals
  <2>. QED
    BY <2>1, <2>2 DEF GoesOn
<1>. QED
  BY <1>3, <1>4 DEF CheckFree

LEMMA ReadEntryAlone ==
  ASSUME AloneInv, NEW p \in Requests, ReadEntry(p)
  PROVE  GoesOn(p) \/ Answered(p)
<1>. DEFINE q == req[p]
            G == entry[q.entry].players
<1>1. Snapshot = settled /\ q.kind = "assign" /\ q.court \in Courts /\ q.entry \in Entries
  BY StandsNow DEF Stands, ReadEntry, At
<1>2. UNCHANGED rows
  BY DEF ReadEntry
<1>3. CASE Done(p)
  BY <1>1, <1>2, <1>3, GivesUp
<1>4. CASE ~Done(p)
  <2>1. PICK r : r = [q EXCEPT !.at = "elsewhere", !.players = G]
    OBVIOUS
  <2>2. req' = [req EXCEPT ![p] = r] /\ entry[q.entry].status = "QUEUED" /\ Cardinality(G) \in 2..4
    BY <1>4, <2>1 DEF ReadEntry, TypeOK
  <2>3. r.at = "elsewhere" /\ r.players = G /\ r.kind = q.kind /\ r.court = q.court
        /\ r.entry = q.entry
    BY <2>1, StandsNow DEF RequestRow
  <2>4. G \subseteq Players
    BY <1>1, StandsNow DEF TypeOK, RowsTypeOK, EntryRow
  <2>5. settled.entry = entry
    BY <1>1 DEF Snapshot
  <2>6. Registering(r, settled)
    BY <1>1, <2>2, <2>3, <2>4, <2>5 DEF Registering
  <2>7. Stands(r, settled, Snapshot')
    BY <1>1, <1>2, <2>3, <2>6, ReadsKeep DEF Stands
  <2>. QED
    BY <2>2, <2>3, <2>7 DEF GoesOn
<1>. QED
  BY <1>3, <1>4

(* registerTurn: the checks.                                               *)
LEMMA CheckElsewhereAlone ==
  ASSUME AloneInv, NEW p \in Requests, CheckElsewhere(p)
  PROVE  GoesOn(p) \/ Answered(p)
<1>. DEFINE q == req[p]
<1>1. Snapshot = settled /\ Registering(q, settled)
  BY StandsNow DEF Stands, CheckElsewhere, At
<1>2. UNCHANGED rows
  BY DEF CheckElsewhere
<1>3. CASE Done(p)
  BY <1>1, <1>2, <1>3, GivesUp
<1>4. CASE ~Done(p)
  <2>1. Goto(p, "count") /\ ~PlaysElsewhere(q.players, q.court)
    BY <1>4 DEF CheckElsewhere
  <2>2. PICK r : req' = [req EXCEPT ![p] = r] /\ r.at = "count" /\ SameLocals(r, q)
    BY <2>1, StandsNow, GotoRow
  <2>3. Allowed(r, settled)
    BY <1>1, <2>1, <2>2, RowsNow DEF Allowed, Registering, SameLocals
  <2>4. Stands(r, settled, Snapshot')
    BY <1>1, <1>2, <2>2, <2>3, ReadsKeep DEF Stands
  <2>. QED
    BY <2>2, <2>4 DEF GoesOn
<1>. QED
  BY <1>3, <1>4

LEMMA CountTurnsAlone ==
  ASSUME AloneInv, NEW p \in Requests, CountTurns(p)
  PROVE  GoesOn(p) \/ Answered(p)
<1>. DEFINE q == req[p]
            n == Cardinality(Active(q.court))
<1>1. Snapshot = settled /\ Allowed(q, settled)
  BY StandsNow DEF Stands, CountTurns, At
<1>2. UNCHANGED rows
  BY DEF CountTurns
<1>3. CASE Done(p)
  BY <1>1, <1>2, <1>3, GivesUp
<1>4. CASE ~Done(p)
  <2>1. PICK r : r = [q EXCEPT !.at = "create", !.count = n]
    OBVIOUS
  <2>2. req' = [req EXCEPT ![p] = r] /\ n < MaxTurns
    BY <1>4, <2>1 DEF CountTurns, TypeOK
  <2>3. r.at = "create" /\ r.count = n /\ r.kind = q.kind /\ r.court = q.court
        /\ r.entry = q.entry /\ r.players = q.players
    BY <2>1, StandsNow DEF RequestRow
  <2>4. n = Cardinality(ActiveIn(settled, r.court))
    BY <1>1, <2>3, RowsNow
  <2>5. Allowed(r, settled)
    BY <1>1, <2>3 DEF Allowed, Registering
  <2>6. Stands(r, settled, Snapshot')
    BY <1>1, <1>2, <2>2, <2>3, <2>4, <2>5, ReadsKeep DEF Stands
  <2>. QED
    BY <2>2, <2>3, <2>6 DEF GoesOn
<1>. QED
  BY <1>3, <1>4

(* What registerTurn checked is what TurnBoard asks for.                   *)
LEMMA MayRegister ==
  ASSUME NEW r, Created(r, settled), InUse(settled)
  PROVE  Board!CanRegister(r.court, r.players)
<1>1. settled.court[r.court] # "MAINTENANCE"
  BY DEF InUse, Created, Allowed, Registering
<1>2. Board!Cardinality(r.players) \in 2..4 /\ r.players \subseteq Players
  BY SameCount DEF Created, Allowed, Registering
<1>3. ~Board!PlaysElsewhere(r.players, r.court)
  BY RowsThen DEF Created, Allowed
<1>4. Board!Cardinality(Board!Active(r.court)) < MaxTurns
  BY SameCount, RowsThen DEF Created
<1>. QED
  BY <1>1, <1>2, <1>3, <1>4 DEF Board!CanRegister

\* The rows s have become w by the new turn of r, which starts at once on an
\* idle court.
TurnIsNew(r, s, w) ==
  LET starts == ActiveIn(s, r.court) = {}
  IN  /\ w.turn = NewTurn(r, s, IF starts THEN "PLAYING" ELSE "WAITING")
      /\ w.game = IF starts THEN [s.game EXCEPT ![r.turn] = "IN_PROGRESS"] ELSE s.game
      /\ w.court = IF starts THEN [s.court EXCEPT ![r.court] = "IN_USE"] ELSE s.court

(* The new turn is the one TurnBoard creates, started or not.              *)
LEMMA CreatesTurn ==
  ASSUME NEW r, Created(r, settled), TurnIsNew(r, settled, settled')
  PROVE  Board!CreateTurn(r.turn, r.court, r.players)
<1>1. Board!Active(r.court) = ActiveIn(settled, r.court)
      /\ Board!Cardinality(Board!Active(r.court)) = Cardinality(ActiveIn(settled, r.court))
  BY SameCount, RowsThen
<1>. QED
  BY <1>1 DEF Board!CreateTurn, TurnIsNew, NewTurn, Created

(* registerTurn of its own.                                                *)
LEMMA RegistersTurn ==
  ASSUME NEW r, r.kind = "register", Created(r, settled), InUse(settled),
         TurnIsNew(r, settled, settled'), settled'.entry = settled.entry
  PROVE  BoardDoes
<1>1. Board!RegisterTurn(r.court, r.players)
  BY MayRegister, CreatesTurn
  DEF Board!RegisterTurn, Board!attendance, Created
<1>2. r.court \in Courts /\ r.players \in Groups
  BY DEF Created, Allowed, Registering
<1>. QED
  BY <1>1, <1>2 DEF BoardDoes

(* ... and for pushEntry.                                                  *)
LEMMA PushesEntry ==
  ASSUME NEW r, r.kind = "assign", Created(r, settled), InUse(settled),
         TurnIsNew(r, settled, settled'),
         settled'.entry = [settled.entry EXCEPT ![r.entry] =
           [status |-> "MATERIALIZED", turn |-> r.turn, court |-> r.court,
            players |-> @.players]]
  PROVE  BoardDoes
<1>1. /\ r.court \in Courts /\ r.entry \in Entries
      /\ settled.entry[r.entry].status = "QUEUED"
      /\ settled.entry[r.entry].players = r.players /\ r.turn \in Turns
  BY DEF Created, Allowed, Registering
<1>2. Board!PushEntry(r.entry, r.court)
  BY <1>1, MayRegister, CreatesTurn DEF Board!PushEntry, Board!attendance
<1>. QED
  BY <1>1, <1>2 DEF BoardDoes

(* Counting none is finding none.                                          *)
LEMMA CountsTurns ==
  ASSUME NEW s, NEW c
  PROVE  /\ Cardinality(ActiveIn(s, c)) \in Nat
         /\ Cardinality(ActiveIn(s, c)) = 0 <=> ActiveIn(s, c) = {}
<1>1. IsFiniteSet(ActiveIn(s, c))
  <2>1. ActiveIn(s, c) \subseteq Turns
    BY DEF ActiveIn, WaitingIn, PlayingIn
  <2>. QED
    BY <2>1, TurnRacesAssumption, FS_Subset
<1>. QED
  BY <1>1, FS_CardinalityType, FS_EmptySet

(* registerTurn: the create, with which a turn that waits is answered.     *)
LEMMA CreateTurnAlone ==
  ASSUME AloneInv, NEW p \in Requests, CreateTurn(p)
  PROVE  GoesOn(p) \/ Answered(p)
<1>. DEFINE q == req[p]
            n == q.count
<1>1. /\ Snapshot = settled /\ Allowed(q, settled)
      /\ n = Cardinality(ActiveIn(settled, q.court)) /\ n < MaxTurns
  BY StandsNow DEF Stands, CreateTurn, At
<1>2. PICK t \in Turns :
        /\ turn[t].status = "NONE"
        /\ turn' = [turn EXCEPT ![t] = [status |-> "WAITING", court |-> q.court,
                                        pos |-> n + 1, players |-> q.players]]
        /\ IF n > 0 /\ q.kind = "register" THEN Done(p)
           ELSE req' = [req EXCEPT ![p].turn = t, ![p].at = IF n = 0 THEN "start" ELSE "mark"]
  BY DEF CreateTurn
<1>3. UNCHANGED <<game, court, entry>>
  BY DEF CreateTurn
<1>4. PICK r : r = [q EXCEPT !.turn = t, !.at = IF n = 0 THEN "start" ELSE "mark"]
  OBVIOUS
<1>5. /\ r.kind = q.kind /\ r.court = q.court /\ r.players = q.players /\ r.entry = q.entry
      /\ r.turn = t /\ r.at = IF n = 0 THEN "start" ELSE "mark"
  BY <1>4, StandsNow DEF RequestRow
<1>6. settled.turn = turn /\ settled.game = game /\ settled.court = court /\ settled.entry = entry
  BY <1>1 DEF Snapshot
<1>7. Created(r, settled)
  BY <1>1, <1>2, <1>5, <1>6 DEF Created, Allowed, Registering
<1>8. /\ Snapshot'.turn = NewTurn(r, settled, "WAITING")
      /\ Snapshot'.game = settled.game /\ Snapshot'.court = settled.court
      /\ Snapshot'.entry = settled.entry
  BY <1>1, <1>2, <1>3, <1>5, <1>6 DEF NewTurn, Snapshot
<1>9. n = 0 <=> ActiveIn(settled, r.court) = {}
  BY <1>1, <1>5, CountsTurns
<1>10. n \in Nat
  BY <1>1, CountsTurns
<1>11. q.kind \in {"assign", "register"}
  BY <1>1 DEF Allowed, Registering
<1>12. CASE n > 0 /\ q.kind = "register"
  <2>1. req' = [req EXCEPT ![p] = Idle]
    BY <1>2, <1>12 DEF Done, Goto
  <2>2. TurnIsNew(r, settled, Snapshot')
    BY <1>8, <1>9, <1>10, <1>12 DEF TurnIsNew
  <2>3. ASSUME settled' = Snapshot' PROVE BoardDoes
    BY <1>5, <1>7, <1>8, <1>12, <2>2, <2>3, RegistersTurn, StandsNow
  <2>. QED
    BY <2>1, <2>3 DEF Answered
<1>13. CASE ~(n > 0 /\ q.kind = "register")
  <2>1. req' = [req EXCEPT ![p] = r]
    BY <1>2, <1>4, <1>13, StandsNow DEF TypeOK
  <2>2. CASE n = 0
    <3>1. StartsNew(r, settled, Snapshot')
      BY <1>5, <1>7, <1>8, <1>9, <2>2 DEF StartsNew
    <3>. QED
      BY <1>5, <2>1, <2>2, <3>1 DEF GoesOn, Stands
  <2>3. CASE n # 0
    <3>1. r.kind = "assign" /\ ActiveIn(settled, r.court) # {}
      BY <1>5, <1>9, <1>10, <1>11, <1>13, <2>3
    <3>2. Pushed(r, settled, Snapshot')
      BY <1>7, <1>8, <3>1 DEF Pushed
    <3>. QED
      BY <1>5, <2>1, <2>3, <3>2 DEF GoesOn, Stands
  <2>. QED
    BY <2>2, <2>3
<1>. QED
  BY <1>12, <1>13

(* startTurn sets the new turn to PLAYING.                                 *)
LEMMA NewTurnStarts ==
  ASSUME NEW r, NEW s, s.turn \in [Turns -> TurnRow], r.turn \in Turns
  PROVE  [NewTurn(r, s, "WAITING") EXCEPT ![r.turn].status = "PLAYING"] = NewTurn(r, s, "PLAYING")
BY DEF NewTurn

(* The waiting turns of a court are finitely many turns of it, and numbers *)
(* of them are natural.                                                    *)
LEMMA QueueNumbers ==
  ASSUME NEW s, NEW c, NEW n \in NumberingsIn(s, WaitingIn(s, c))
  PROVE  /\ DOMAIN n = WaitingIn(s, c)
         /\ \A u \in WaitingIn(s, c) : n[u] \in Nat
         /\ \A x, y \in WaitingIn(s, c) : n[x] = n[y] => x = y
         /\ WaitingIn(s, c) \subseteq Turns
<1>1. WaitingIn(s, c) \subseteq Turns
  BY DEF WaitingIn
<1>2. IsFiniteSet(WaitingIn(s, c))
  BY <1>1, TurnRacesAssumption, FS_Subset
<1>. QED
  BY <1>1, <1>2, NumbersIn

(* Rows keep their type while the queue moves up.                          *)
LEMMA PromotedType ==
  ASSUME NEW r, NEW s, Agreed(s), NEW t \in Turns, NEW todo,
         NEW n \in NumberingsIn(s, WaitingIn(s, r.court))
  PROVE  Promoted(s, t, n, todo) \in [Turns -> TurnRow]
<1>1. Marked(s.turn, {t}, "COMPLETED") \in [Turns -> TurnRow]
  BY MarkedType DEF Agreed, TurnStatus
<1>2. \A u \in DoneOf(n, todo) : n[u] \in Nat
  BY QueueNumbers DEF DoneOf
<1>. QED
  BY <1>1, <1>2, PlacedType DEF Promoted

(* startTurn, call by call; the last one answers, unless a board entry is  *)
(* to be marked.                                                           *)
LEMMA StartTurnAlone ==
  ASSUME AloneInv, NEW p \in Requests, StartTurn(p)
  PROVE  GoesOn(p) \/ Answered(p)
<1>. DEFINE q == req[p]
<1>1. q.at = "start" /\ (StartsNew(q, settled, Snapshot) \/ StartsNext(q, settled, Snapshot))
  BY StandsNow DEF Stands, StartTurn, At
<1>2. /\ turn' = [turn EXCEPT ![q.turn].status = "PLAYING"]
      /\ Goto(p, "createGame") /\ UNCHANGED <<game, court, entry>>
  BY DEF StartTurn
<1>3. PICK r : req' = [req EXCEPT ![p] = r] /\ r.at = "createGame" /\ SameLocals(r, q)
  BY <1>2, StandsNow, GotoRow
<1>4. Agreed(settled)
  BY StandsNow
<1>5. CASE StartsNew(q, settled, Snapshot)
  <2>1. turn = NewTurn(q, settled, "WAITING") /\ q.turn \in Turns
    BY <1>1, <1>5 DEF StartsNew, Snapshot, Created
  <2>2. turn' = NewTurn(r, settled, "PLAYING")
    BY <1>2, <1>3, <1>4, <2>1, NewTurnStarts DEF NewTurn, SameLocals, Agreed
  <2>3. StartsNew(r, settled, Snapshot')
    BY <1>1, <1>2, <1>3, <1>5, <2>2
    DEF StartsNew, Snapshot, SameLocals, Created, Allowed, Registering
  <2>. QED
    BY <1>3, <2>3 DEF GoesOn, Stands
<1>6. CASE StartsNext(q, settled, Snapshot)
  <2>1. PICK t \in Turns : \E n \in NumberingsIn(settled, WaitingIn(settled, q.court)) :
          /\ Promoting(q, settled, Snapshot, t, n)
          /\ turn = Promoted(settled, t, n, {})
          /\ game = [settled.game EXCEPT ![t] = "COMPLETED"]
    BY <1>1, <1>6 DEF StartsNext, Snapshot
  <2>2. PICK n \in NumberingsIn(settled, WaitingIn(settled, q.court)) :
          /\ Promoting(q, settled, Snapshot, t, n)
          /\ turn = Promoted(settled, t, n, {})
          /\ game = [settled.game EXCEPT ![t] = "COMPLETED"]
    BY <2>1
  <2>3. q.turn \in Turns
    BY <2>2 DEF Promoting, WaitingIn
  <2>4. turn' = Marked(Promoted(settled, t, n, {}), {r.turn}, "PLAYING")
    <3>1. Promoted(settled, t, n, {}) \in [Turns -> TurnRow]
      BY <1>4, PromotedType
    <3>2. [turn EXCEPT ![q.turn].status = "PLAYING"] = Marked(turn, {q.turn}, "PLAYING")
      BY <2>2, <2>3, <3>1, MarkedOne DEF TurnStatus
    <3>3. r.turn = q.turn
      BY <1>3 DEF SameLocals
    <3>. QED
      BY <1>2, <2>2, <3>2, <3>3
  <2>5. Promoting(r, settled, Snapshot', t, n)
    BY <1>2, <1>3, <2>2 DEF Promoting, Snapshot, SameLocals
  <2>6. n \in NumberingsIn(settled, WaitingIn(settled, r.court))
    BY <1>3, <2>2 DEF SameLocals
  <2>7. StartsNext(r, settled, Snapshot')
    BY <1>2, <1>3, <2>2, <2>4, <2>5, <2>6 DEF StartsNext, Snapshot
  <2>. QED
    BY <1>3, <2>7 DEF GoesOn, Stands
<1>. QED
  BY <1>1, <1>5, <1>6

LEMMA CreateGameAlone ==
  ASSUME AloneInv, NEW p \in Requests, CreateGame(p)
  PROVE  GoesOn(p) \/ Answered(p)
<1>. DEFINE q == req[p]
<1>1. q.at = "createGame" /\ (StartsNew(q, settled, Snapshot) \/ StartsNext(q, settled, Snapshot))
  BY StandsNow DEF Stands, CreateGame, At
<1>2. Agreed(settled)
  BY StandsNow
<1>3. UNCHANGED <<turn, court, entry>>
  BY DEF CreateGame
<1>4. CASE StartsNew(q, settled, Snapshot)
  <2>1. game = settled.game /\ q.turn \in Turns /\ settled.turn[q.turn].status = "NONE"
    BY <1>1, <1>4 DEF StartsNew, Snapshot, Created
  <2>2. game[q.turn] = "NONE"
    BY <1>2, <2>1 DEF Agreed
  <2>3. game' = [settled.game EXCEPT ![q.turn] = "IN_PROGRESS"] /\ Goto(p, "inUse")
    BY <2>1, <2>2 DEF CreateGame
  <2>4. PICK r : req' = [req EXCEPT ![p] = r] /\ r.at = "inUse" /\ SameLocals(r, q)
    BY <2>3, StandsNow, GotoRow
  <2>5. StartsNew(r, settled, Snapshot')
    BY <1>1, <1>3, <1>4, <2>3, <2>4
    DEF StartsNew, Snapshot, SameLocals, Created, Allowed, Registering, NewTurn
  <2>. QED
    BY <2>4, <2>5 DEF GoesOn, Stands
<1>5. CASE StartsNext(q, settled, Snapshot)
  <2>1. PICK t \in Turns : \E n \in NumberingsIn(settled, WaitingIn(settled, q.court)) :
          /\ Promoting(q, settled, Snapshot, t, n)
          /\ turn = Marked(Promoted(settled, t, n, {}), {q.turn}, "PLAYING")
          /\ game = [settled.game EXCEPT ![t] = "COMPLETED"]
    BY <1>1, <1>5 DEF StartsNext, Snapshot
  <2>2. PICK n \in NumberingsIn(settled, WaitingIn(settled, q.court)) :
          /\ Promoting(q, settled, Snapshot, t, n)
          /\ turn = Marked(Promoted(settled, t, n, {}), {q.turn}, "PLAYING")
          /\ game = [settled.game EXCEPT ![t] = "COMPLETED"]
    BY <2>1
  <2>3. q.turn \in Turns /\ settled.turn[q.turn].status = "WAITING" /\ q.turn # t
    BY <2>2 DEF Promoting, WaitingIn
  <2>4. game[q.turn] = "NONE"
    BY <1>2, <2>2, <2>3 DEF Agreed
  <2>5. /\ game' = [settled.game EXCEPT ![t] = "COMPLETED", ![q.turn] = "IN_PROGRESS"]
        /\ Goto(p, "inUse")
    BY <2>2, <2>4 DEF CreateGame
  <2>6. PICK r : req' = [req EXCEPT ![p] = r] /\ r.at = "inUse" /\ SameLocals(r, q)
    BY <2>5, StandsNow, GotoRow
  <2>7. /\ Promoting(r, settled, Snapshot', t, n)
        /\ n \in NumberingsIn(settled, WaitingIn(settled, r.court))
    BY <1>3, <2>2, <2>6 DEF Promoting, Snapshot, SameLocals
  <2>8. StartsNext(r, settled, Snapshot')
    BY <1>3, <2>2, <2>5, <2>6, <2>7 DEF StartsNext, Snapshot, SameLocals
  <2>. QED
    BY <2>6, <2>8 DEF GoesOn, Stands
<1>. QED
  BY <1>1, <1>4, <1>5

\* What FinishAndPromote makes of the turns and the games.
FinishedTurns(s, t, W, n) ==
  [u \in Turns |->
     IF u = t THEN [s.turn[u] EXCEPT !.status = "COMPLETED"]
     ELSE IF u \in W /\ n[u] = 1 THEN [s.turn[u] EXCEPT !.status = "PLAYING", !.pos = 1]
     ELSE IF u \in W THEN [s.turn[u] EXCEPT !.pos = n[u]] ELSE s.turn[u]]
FinishedGames(s, t, W, n) ==
  [u \in Turns |-> IF u = t THEN "COMPLETED"
                   ELSE IF u \in W /\ n[u] = 1 THEN "IN_PROGRESS" ELSE s.game[u]]

(* What completeTurnCore did is what TurnBoard's CompleteTurn does.        *)
LEMMA CompletesTurn ==
  ASSUME NEW t \in Turns, NEW c, settled.turn[t].status = "PLAYING", settled.turn[t].court = c,
         NEW W, W = WaitingIn(settled, c), NEW n \in NumberingsIn(settled, W),
         settled'.turn = FinishedTurns(settled, t, W, n),
         settled'.game = FinishedGames(settled, t, W, n),
         settled'.entry = CloseEntries(settled.entry, {t}, "COMPLETED"),
         settled'.court = [settled.court EXCEPT ![c] = IF W = {} THEN "EMPTY" ELSE "IN_USE"]
  PROVE  BoardDoes
<1>. DEFINE first == {w \in W : n[w] = 1}
<1>1. \A u : u \in first <=> u \in W /\ n[u] = 1
  OBVIOUS
<1>2. Board!FinishAndPromote(t, W, n)
  BY <1>1 DEF Board!FinishAndPromote, FinishedTurns, FinishedGames
<1>3. Board!Waiting(settled.turn[t].court) = W /\ n \in Board!Numberings(W)
  BY RowsThen
<1>4. Board!CompleteTurn(t)
  BY <1>2, <1>3, RowsThen DEF Board!CompleteTurn, Board!attendance
<1>. QED
  BY <1>4 DEF BoardDoes

LEMMA MarkInUseAlone ==
  ASSUME AloneInv, NEW p \in Requests, MarkInUse(p)
  PROVE  GoesOn(p) \/ Answered(p)
<1>. DEFINE q == req[p]
<1>1. q.at = "inUse" /\ (StartsNew(q, settled, Snapshot) \/ StartsNext(q, settled, Snapshot))
  BY StandsNow DEF Stands, MarkInUse, At
<1>2. /\ court' = [court EXCEPT ![q.court] = "IN_USE"]
      /\ Goto(p, AfterStart(q)) /\ UNCHANGED <<turn, game, entry>>
  BY DEF MarkInUse
<1>3. CASE StartsNew(q, settled, Snapshot)
  <2>1. /\ Created(q, settled) /\ ActiveIn(settled, q.court) = {}
        /\ Snapshot'.turn = NewTurn(q, settled, "PLAYING")
        /\ Snapshot'.game = [settled.game EXCEPT ![q.turn] = "IN_PROGRESS"]
        /\ Snapshot'.court = [settled.court EXCEPT ![q.court] = "IN_USE"]
        /\ Snapshot'.entry = settled.entry
    BY <1>1, <1>2, <1>3 DEF StartsNew, Snapshot
  <2>2. TurnIsNew(q, settled, Snapshot')
    BY <2>1 DEF TurnIsNew
  <2>3. CASE q.kind = "register"
    <3>1. req' = [req EXCEPT ![p] = Idle]
      BY <1>2, <2>3 DEF AfterStart, Goto
    <3>2. ASSUME settled' = Snapshot' PROVE BoardDoes
      BY <2>1, <2>2, <2>3, <3>2, RegistersTurn, StandsNow
    <3>. QED
      BY <3>1, <3>2 DEF Answered
  <2>4. CASE q.kind = "assign"
    <3>1. Goto(p, "mark")
      BY <1>2, <2>4 DEF AfterStart
    <3>2. PICK r : req' = [req EXCEPT ![p] = r] /\ r.at = "mark" /\ SameLocals(r, q)
      BY <3>1, StandsNow, GotoRow
    <3>3. Pushed(r, settled, Snapshot')
      BY <2>1, <2>4, <3>2
      DEF Pushed, SameLocals, Created, Allowed, Registering, NewTurn
    <3>. QED
      BY <3>2, <3>3 DEF GoesOn, Stands
  <2>. QED
    BY <2>1, <2>3, <2>4 DEF Created, Allowed, Registering
<1>4. CASE StartsNext(q, settled, Snapshot)
  <2>1. PICK t \in Turns : \E n \in NumberingsIn(settled, WaitingIn(settled, q.court)) :
          /\ Promoting(q, settled, Snapshot, t, n)
          /\ turn = Marked(Promoted(settled, t, n, {}), {q.turn}, "PLAYING")
          /\ game = [settled.game EXCEPT ![t] = "COMPLETED", ![q.turn] = "IN_PROGRESS"]
    BY <1>1, <1>4 DEF StartsNext, Snapshot
  <2>2. PICK n \in NumberingsIn(settled, WaitingIn(settled, q.court)) :
          /\ Promoting(q, settled, Snapshot, t, n)
          /\ turn = Marked(Promoted(settled, t, n, {}), {q.turn}, "PLAYING")
          /\ game = [settled.game EXCEPT ![t] = "COMPLETED", ![q.turn] = "IN_PROGRESS"]
    BY <2>1
  <2>. DEFINE W == WaitingIn(settled, q.court)
  <2>3. /\ q.kind = "complete" /\ settled.turn[t].status = "PLAYING"
        /\ settled.turn[t].court = q.court /\ q.turn \in W /\ n[q.turn] = 1
        /\ court = settled.court /\ entry = CloseEntries(settled.entry, {t}, "COMPLETED")
    BY <2>2 DEF Promoting, Snapshot
  <2>4. W \subseteq Turns /\ t \notin W /\ DOMAIN n = W /\ \A u \in W : n[u] = 1 <=> u = q.turn
    <3>1. W \subseteq Turns /\ DOMAIN n = W /\ \A x, y \in W : n[x] = n[y] => x = y
      BY QueueNumbers
    <3>2. t \notin W
      BY <2>3 DEF WaitingIn
    <3>. QED
      BY <2>3, <3>1, <3>2
  <2>5. req' = [req EXCEPT ![p] = Idle]
    BY <1>2, <2>3 DEF AfterStart, Goto
  <2>6. settled.turn \in [Turns -> TurnRow] /\ settled.game \in [Turns -> GameStatus]
    BY StandsNow DEF Agreed
  <2>7. turn = FinishedTurns(settled, t, W, n)
    BY <2>2, <2>3, <2>4, <2>6, AllDone DEF Promoted, Marked, Placed, TurnRow, FinishedTurns
  <2>8. game = FinishedGames(settled, t, W, n)
    BY <2>2, <2>3, <2>4, <2>6 DEF FinishedGames
  <2>9. court' = [settled.court EXCEPT ![q.court] = IF W = {} THEN "EMPTY" ELSE "IN_USE"]
    BY <1>2, <2>3
  <2>10. ASSUME settled' = Snapshot' PROVE BoardDoes
    <3>1. /\ settled'.turn = turn /\ settled'.game = game /\ settled'.entry = entry
          /\ settled'.court = court'
      BY <1>2, <2>10 DEF Snapshot
    <3>. QED
      BY <2>3, <2>7, <2>8, <2>9, <3>1, CompletesTurn
  <2>. QED
    BY <2>5, <2>10 DEF Answered
<1>. QED
  BY <1>1, <1>3, <1>4

(* pushEntry: the entry is marked, and the request answered.               *)
LEMMA MarkEntryAlone ==
  ASSUME AloneInv, NEW p \in Requests, MarkEntry(p)
  PROVE  GoesOn(p) \/ Answered(p)
<1>. DEFINE q == req[p]
<1>1. Pushed(q, settled, Snapshot)
  BY StandsNow DEF Stands, MarkEntry, At
<1>2. req' = [req EXCEPT ![p] = Idle]
  BY DEF MarkEntry, Done, Goto
<1>3. /\ q.kind = "assign" /\ Created(q, settled) /\ TurnIsNew(q, settled, Snapshot')
      /\ Snapshot'.entry = [settled.entry EXCEPT ![q.entry] =
           [status |-> "MATERIALIZED", turn |-> q.turn, court |-> q.court,
            players |-> @.players]]
  BY <1>1 DEF Pushed, TurnIsNew, MarkEntry, Snapshot
<1>4. ASSUME settled' = Snapshot' PROVE BoardDoes
  BY <1>3, <1>4, PushesEntry, StandsNow
<1>. QED
  BY <1>2, <1>4 DEF Answered

-----------------------------------------------------------------------------
(* completeTurn: what was closed so far                                    *)

LEMMA LoadTurnAlone ==
  ASSUME AloneInv, NEW p \in Requests, LoadTurn(p)
  PROVE  GoesOn(p) \/ Answered(p)
<1>. DEFINE q == req[p]
            t == q.turn
<1>1. Snapshot = settled /\ q.kind = "complete" /\ t \in Turns
  BY StandsNow DEF Stands, LoadTurn, At
<1>2. UNCHANGED rows
  BY DEF LoadTurn
<1>3. CASE Done(p)
  BY <1>1, <1>2, <1>3, GivesUp
<1>4. CASE ~Done(p)
  <2>1. settled.turn = turn /\ settled.game = game /\ settled.court = court /\ settled.entry = entry
    BY <1>1 DEF Snapshot
  <2>2. turn[t].status = "PLAYING"
    BY <1>4 DEF LoadTurn
  <2>3. turn[t].court \in Courts /\ game[t] # "NONE"
    BY <1>1, <2>1, <2>2, StandsNow DEF Agreed
  <2>4. PICK r : r = [q EXCEPT !.at = "endGame", !.court = turn[t].court]
    OBVIOUS
  <2>5. req' = [req EXCEPT ![p] = r]
    BY <1>4, <2>3, <2>4 DEF LoadTurn, EndFrom, TypeOK
  <2>6. r.at = "endGame" /\ r.kind = "complete" /\ r.turn = t /\ r.court = turn[t].court
    BY <1>1, <2>4, StandsNow DEF RequestRow
  <2>7. BaseTurn(r, settled) = turn /\ BaseEntry(r, settled) = entry
    BY <2>1, <2>6, MarkedNone, ClosedNone, StandsNow DEF BaseTurn, BaseEntry, Stuck, Agreed
  <2>8. EndsGame(r, settled, Snapshot')
    BY <1>1, <1>2, <2>1, <2>2, <2>3, <2>6, <2>7, ReadsKeep DEF EndsGame, PlayingIn
  <2>. QED
    BY <2>5, <2>6, <2>8 DEF GoesOn, Stands
<1>. QED
  BY <1>3, <1>4

(* completeTurnCore: the game, the turn and its entry are closed.          *)
LEMMA EndGameAlone ==
  ASSUME AloneInv, NEW p \in Requests, EndGame(p)
  PROVE  GoesOn(p) \/ Answered(p)
<1>. DEFINE q == req[p]
<1>1. q.at = "endGame" /\ EndsGame(q, settled, Snapshot)
  BY StandsNow DEF Stands, EndGame, At
<1>2. PICK r : req' = [req EXCEPT ![p] = r] /\ r.at = "endTurn" /\ SameLocals(r, q)
  BY StandsNow, GotoRow DEF EndGame
<1>3. EndsGame(r, settled, Snapshot')
  BY <1>1, <1>2 DEF EndsGame, EndGame, Snapshot, SameLocals, BaseTurn, BaseEntry, Stuck
<1>. QED
  BY <1>2, <1>3 DEF GoesOn, Stands

(* Rows keep their type when the turns that wait are cancelled.            *)
LEMMA BaseTurnType ==
  ASSUME NEW r, NEW s, Agreed(s)
  PROVE  BaseTurn(r, s) \in [Turns -> TurnRow]
BY MarkedType DEF BaseTurn, Agreed, TurnStatus

LEMMA EndTurnAlone ==
  ASSUME AloneInv, NEW p \in Requests, EndTurn(p)
  PROVE  GoesOn(p) \/ Answered(p)
<1>. DEFINE q == req[p]
<1>1. q.at = "endTurn" /\ EndsGame(q, settled, Snapshot)
  BY StandsNow DEF Stands, EndTurn, At
<1>2. PICK r : req' = [req EXCEPT ![p] = r] /\ r.at = "endEntry" /\ SameLocals(r, q)
  BY StandsNow, GotoRow DEF EndTurn
<1>3. turn = BaseTurn(q, settled) /\ q.turn \in Turns
  BY <1>1 DEF EndsGame, Snapshot, PlayingIn
<1>4. turn' = Marked(BaseTurn(q, settled), {q.turn}, "COMPLETED")
  <2>1. turn' = [turn EXCEPT ![q.turn].status = "COMPLETED"]
    BY DEF EndTurn
  <2>2. [turn EXCEPT ![q.turn].status = "COMPLETED"] = Marked(turn, {q.turn}, "COMPLETED")
    BY <1>3, BaseTurnType, StandsNow, MarkedOne DEF TurnStatus
  <2>. QED
    BY <1>3, <2>1, <2>2
<1>5. BaseTurn(r, settled) = BaseTurn(q, settled) /\ BaseEntry(r, settled) = BaseEntry(q, settled)
  BY <1>2 DEF BaseTurn, BaseEntry, Stuck, SameLocals
<1>6. EndsGame(r, settled, Snapshot')
  BY <1>1, <1>2, <1>4, <1>5 DEF EndsGame, EndTurn, Snapshot, SameLocals
<1>. QED
  BY <1>2, <1>6 DEF GoesOn, Stands

LEMMA EndEntryAlone ==
  ASSUME AloneInv, NEW p \in Requests, EndEntry(p)
  PROVE  GoesOn(p) \/ Answered(p)
<1>. DEFINE q == req[p]
<1>1. q.at = "endEntry" /\ EndsGame(q, settled, Snapshot)
  BY StandsNow DEF Stands, EndEntry, At
<1>2. PICK r : req' = [req EXCEPT ![p] = r] /\ r.at = "queue" /\ SameLocals(r, q)
  BY StandsNow, GotoRow DEF EndEntry
<1>3. BaseTurn(r, settled) = BaseTurn(q, settled) /\ BaseEntry(r, settled) = BaseEntry(q, settled)
  BY <1>2 DEF BaseTurn, BaseEntry, Stuck, SameLocals
<1>4. EndsGame(r, settled, Snapshot')
  BY <1>1, <1>2, <1>3 DEF EndsGame, EndEntry, Snapshot, SameLocals
<1>. QED
  BY <1>2, <1>4 DEF GoesOn, Stands

(* When the game is over nobody waits on a court that is cleared, and on   *)
(* any other the queue is as it was.                                       *)
LEMMA QueueNow ==
  ASSUME NEW q, Agreed(settled), q.turn \in PlayingIn(settled, q.court),
         turn = Marked(BaseTurn(q, settled), {q.turn}, "COMPLETED")
  PROVE  /\ q.kind = "clear" => Waiting(q.court) = {}
         /\ q.kind # "clear" => /\ turn = Marked(settled.turn, {q.turn}, "COMPLETED")
                                /\ Waiting(q.court) = WaitingIn(settled, q.court)
<1>1. settled.turn \in [Turns -> TurnRow] /\ q.turn \in Turns
      /\ settled.turn[q.turn].status = "PLAYING"
  BY DEF Agreed, PlayingIn
<1>2. CASE q.kind = "clear"
  <2>1. \A u \in Turns : turn[u].status = "WAITING" => u \notin WaitingIn(settled, q.court)
                         /\ settled.turn[u].status = "WAITING" /\ turn[u].court = settled.turn[u].court
    BY <1>1, <1>2 DEF BaseTurn, Marked, Stuck, TurnRow
  <2>. QED
    BY <1>2, <2>1 DEF Waiting, WaitingIn
<1>3. CASE q.kind # "clear"
  <2>1. turn = Marked(settled.turn, {q.turn}, "COMPLETED")
    BY <1>1, <1>3, MarkedNone DEF BaseTurn, Stuck
  <2>2. \A u \in Turns : turn[u].court = settled.turn[u].court
                         /\ (turn[u].status = "WAITING" <=> settled.turn[u].status = "WAITING")
    BY <1>1, <2>1 DEF Marked, TurnRow
  <2>. QED
    BY <1>3, <2>1, <2>2 DEF Waiting, WaitingIn
<1>. QED
  BY <1>2, <1>3

(* The updates that are left out change nothing.                           *)
LEMMA UpdatesLeft ==
  ASSUME turn \in [Turns -> TurnRow], NEW n
  PROVE  /\ Updates(n) \subseteq Numbered(n)
         /\ Placed(turn, n, DoneOf(n, Updates(n))) = turn
<1>1. Updates(n) \subseteq Numbered(n)
  BY DEF Updates
<1>2. \A u \in DoneOf(n, Updates(n)) : turn[u].pos = n[u]
  <2>1. TAKE u \in DoneOf(n, Updates(n))
  <2>2. u \in DOMAIN n /\ <<u, n[u]>> \notin Updates(n)
    BY DEF DoneOf
  <2>3. <<u, n[u]>> \in Numbered(n)
    BY <2>2 DEF Numbered
  <2>. QED
    BY <2>2, <2>3 DEF Updates
<1>. QED
  BY <1>1, <1>2, PlacedAlready

(* completeTurnCore: the queue is read and numbered.                       *)
LEMMA ReadQueueAlone ==
  ASSUME AloneInv, NEW p \in Requests, ReadQueue(p)
  PROVE  GoesOn(p) \/ Answered(p)
<1>. DEFINE q == req[p]
            t == q.turn
            W == Waiting(q.court)
<1>1. q.at = "queue" /\ EndsGame(q, settled, Snapshot)
  BY StandsNow DEF Stands, ReadQueue, At
<1>2. Agreed(settled) /\ settled.turn \in [Turns -> TurnRow] /\ turn \in [Turns -> TurnRow]
      /\ q \in RequestRow
  BY StandsNow DEF Agreed, TypeOK, RowsTypeOK
<1>3. /\ q.kind \in {"complete", "clear"} /\ q.court \in Courts
      /\ t \in PlayingIn(settled, q.court)
      /\ turn = Marked(BaseTurn(q, settled), {t}, "COMPLETED")
      /\ entry = CloseEntries(BaseEntry(q, settled), {t}, "COMPLETED")
      /\ game = [settled.game EXCEPT ![t] = "COMPLETED"] /\ court = settled.court
  BY <1>1 DEF EndsGame, Snapshot
<1>4. /\ q.kind = "clear" => W = {}
      /\ q.kind # "clear" => /\ turn = Marked(settled.turn, {t}, "COMPLETED")
                             /\ W = WaitingIn(settled, q.court)
  BY <1>2, <1>3, QueueNow
<1>5. UNCHANGED rows
  BY DEF ReadQueue
<1>6. CASE W = {}
  <2>1. PICK r : req' = [req EXCEPT ![p] = r] /\ r.at = "empty" /\ SameLocals(r, q)
    BY <1>6, StandsNow, GotoRow DEF ReadQueue
  <2>2. EndsGame(r, settled, Snapshot)
    BY <1>1, <1>4, <1>6, <2>1 DEF EndsGame, SameLocals, BaseTurn, BaseEntry, Stuck
  <2>. QED
    BY <1>5, <2>1, <2>2, ReadsKeep DEF GoesOn, Stands
<1>7. CASE W # {}
  <2>1. PICK n \in Numberings(W), f \in W :
          /\ n[f] = 1
          /\ req' = [req EXCEPT ![p].at = IF Updates(n) = {} THEN "start" ELSE "renumber",
                                ![p].turn = f, ![p].todo = Updates(n)]
    BY <1>7 DEF ReadQueue
  <2>2. PICK r : r = [q EXCEPT !.at = IF Updates(n) = {} THEN "start" ELSE "renumber",
                               !.turn = f, !.todo = Updates(n)]
    OBVIOUS
  <2>3. req' = [req EXCEPT ![p] = r]
    BY <2>1, <2>2, StandsNow DEF TypeOK
  <2>4. /\ r.kind = q.kind /\ r.court = q.court /\ r.turn = f /\ r.todo = Updates(n)
        /\ r.at = IF Updates(n) = {} THEN "start" ELSE "renumber"
    BY <1>2, <2>2 DEF RequestRow
  <2>5. /\ q.kind = "complete" /\ W = WaitingIn(settled, q.court)
        /\ turn = Marked(settled.turn, {t}, "COMPLETED")
    BY <1>3, <1>4, <1>7
  <2>6. n \in NumberingsIn(settled, W)
    <3>1. \A u \in W : settled.turn[u].pos = Snapshot.turn[u].pos
      BY <1>2, <2>5 DEF Snapshot, Marked, TurnRow, WaitingIn
    <3>. QED
      BY <2>1, <3>1, RowsNow, SameOrder
  <2>7. t \in Turns /\ settled.turn[t].status = "PLAYING" /\ settled.turn[t].court = q.court
    BY <1>3 DEF PlayingIn
  <2>8. entry = CloseEntries(settled.entry, {t}, "COMPLETED")
    BY <1>2, <1>3, <2>5, ClosedNone DEF BaseEntry, Stuck, Agreed
  <2>9. Promoting(r, settled, Snapshot, t, n) /\ n \in NumberingsIn(settled, WaitingIn(settled, r.court))
    BY <1>3, <2>1, <2>4, <2>5, <2>6, <2>7, <2>8 DEF Promoting, Snapshot
  <2>10. turn = Promoted(settled, t, n, Updates(n)) /\ Updates(n) \subseteq Numbered(n)
    BY <1>2, <2>5, UpdatesLeft DEF Promoted
  <2>11. CASE Updates(n) = {}
    <3>1. StartsNext(r, settled, Snapshot)
      BY <1>3, <2>4, <2>7, <2>9, <2>10, <2>11 DEF StartsNext, Snapshot
    <3>. QED
      BY <1>5, <2>3, <2>4, <2>11, <3>1, ReadsKeep DEF GoesOn, Stands
  <2>12. CASE Updates(n) # {}
    <3>1. Renumbers(r, settled, Snapshot)
      BY <1>3, <2>4, <2>7, <2>9, <2>10, <2>12 DEF Renumbers, Snapshot
    <3>. QED
      BY <1>5, <2>3, <2>4, <2>12, <3>1, ReadsKeep DEF GoesOn, Stands
  <2>. QED
    BY <2>11, <2>12
<1>. QED
  BY <1>6, <1>7

(* On a court nobody waits for there is one numbering, the empty one.      *)
LEMMA NobodyNumbered ==
  ASSUME NEW s
  PROVE  \E n : n \in NumberingsIn(s, {})
<1>1. [x \in {} |-> 0] \in [{} -> 1..Cardinality({})]
  OBVIOUS
<1>. QED
  BY <1>1 DEF NumberingsIn

(* completeTurnCore: nobody waits, the court is left empty.                *)
LEMMA LeaveEmptyAlone ==
  ASSUME AloneInv, NEW p \in Requests, LeaveEmpty(p)
  PROVE  GoesOn(p) \/ Answered(p)
<1>. DEFINE q == req[p]
            t == q.turn
<1>1. q.at = "empty" /\ EndsGame(q, settled, Snapshot)
  BY StandsNow DEF Stands, LeaveEmpty, At
<1>2. Agreed(settled) /\ settled.turn \in [Turns -> TurnRow]
      /\ settled.game \in [Turns -> GameStatus] /\ settled.entry \in [Entries -> EntryRow]
  BY StandsNow DEF Agreed
<1>3. /\ q.kind \in {"complete", "clear"} /\ q.court \in Courts
      /\ t \in PlayingIn(settled, q.court)
      /\ turn = Marked(BaseTurn(q, settled), {t}, "COMPLETED")
      /\ entry = CloseEntries(BaseEntry(q, settled), {t}, "COMPLETED")
      /\ game = [settled.game EXCEPT ![t] = "COMPLETED"] /\ court = settled.court
      /\ q.kind = "complete" => WaitingIn(settled, q.court) = {}
  BY <1>1 DEF EndsGame, Snapshot
<1>4. court' = [settled.court EXCEPT ![q.court] = "EMPTY"] /\ UNCHANGED <<turn, game, entry>>
  BY <1>3 DEF LeaveEmpty
<1>5. CASE q.kind = "complete"
  <2>1. req' = [req EXCEPT ![p] = Idle]
    BY <1>5 DEF LeaveEmpty, AfterStart, Goto
  <2>2. PICK n : n \in NumberingsIn(settled, {})
    BY NobodyNumbered
  <2>3. t \in Turns /\ settled.turn[t].status = "PLAYING" /\ settled.turn[t].court = q.court
    BY <1>3 DEF PlayingIn
  <2>4. turn = FinishedTurns(settled, t, {}, n)
    BY <1>2, <1>3, <1>5, <2>3, MarkedNone DEF BaseTurn, Stuck, Marked, FinishedTurns
  <2>5. game = FinishedGames(settled, t, {}, n)
    BY <1>2, <1>3, <2>3 DEF FinishedGames
  <2>6. entry = CloseEntries(settled.entry, {t}, "COMPLETED")
    BY <1>2, <1>3, <1>5, ClosedNone DEF BaseEntry, Stuck
  <2>7. ASSUME settled' = Snapshot' PROVE BoardDoes
    <3>1. /\ settled'.turn = turn /\ settled'.game = game /\ settled'.entry = entry
          /\ settled'.court = court'
      BY <1>4, <2>7 DEF Snapshot
    <3>. QED
      BY <1>3, <1>4, <1>5, <2>2, <2>3, <2>4, <2>5, <2>6, <3>1, CompletesTurn
  <2>. QED
    BY <2>1, <2>7 DEF Answered
<1>6. CASE q.kind = "clear"
  <2>1. PICK r : req' = [req EXCEPT ![p] = r] /\ r.at = "recount" /\ SameLocals(r, q)
    BY <1>6, StandsNow, GotoRow DEF LeaveEmpty, AfterStart
  <2>2. r.kind = q.kind /\ r.court = q.court
        /\ BaseTurn(r, settled) = BaseTurn(q, settled)
        /\ BaseEntry(r, settled) = BaseEntry(q, settled)
    BY <2>1 DEF SameLocals, BaseTurn, BaseEntry, Stuck
  <2>3. game = [u \in Turns |-> IF u \in {t} THEN "COMPLETED" ELSE settled.game[u]]
    BY <1>2, <1>3
  <2>4. Cleared(r, settled, Snapshot', {t})
    BY <1>3, <1>4, <2>2, <2>3 DEF Cleared, Snapshot
  <2>5. {t} \in InPlay(settled, r.court) /\ Clears(r)
    BY <1>3, <1>6, <2>2 DEF InPlay, Clears
  <2>. QED
    BY <2>1, <2>4, <2>5 DEF GoesOn, Stands
<1>. QED
  BY <1>3, <1>5, <1>6

\* One update of a position.
Repositioned(tu, u) == [tu EXCEPT ![u[1]].pos = u[2]]

(* One update: one more turn has its number.                               *)
LEMMA PlacedOne ==
  ASSUME NEW tu \in [Turns -> TurnRow], NEW n, NEW S, \A x \in S : n[x] \in Nat,
         NEW u, u[1] \in Turns, u[2] \in Nat, u[2] = n[u[1]]
  PROVE  Repositioned(Placed(tu, n, S), u) = Placed(tu, n, S \cup {u[1]})
<1>1. PICK v, k : v = u[1] /\ k = u[2]
  OBVIOUS
<1>2. PICK f : f = Placed(tu, n, S)
  OBVIOUS
<1>3. f \in [Turns -> TurnRow]
  BY <1>2, PlacedType
<1>4. PICK g : g = Repositioned(f, u)
  OBVIOUS
<1>5. g = [f EXCEPT ![v].pos = k]
  BY <1>1, <1>4 DEF Repositioned
<1>6. g = [x \in Turns |-> IF x = v THEN [f[x] EXCEPT !.pos = k] ELSE f[x]]
  BY <1>3, <1>5
<1>7. g = Placed(tu, n, S \cup {v})
  BY <1>1, <1>2, <1>6 DEF Placed, TurnRow
<1>. QED
  BY <1>1, <1>2, <1>4, <1>7

(* The next update, which is the first of those left.                      *)
LEMMA PlacesOne ==
  ASSUME NEW tu \in [Turns -> TurnRow], NEW n, DOMAIN n \subseteq Turns,
         \A x \in DOMAIN n : n[x] \in Nat,
         NEW todo, todo \subseteq Numbered(n), NEW u \in todo
  PROVE  Repositioned(Placed(tu, n, DoneOf(n, todo)), u) = Placed(tu, n, DoneOf(n, todo \ {u}))
<1>1. u[1] \in Turns /\ u[2] \in Nat /\ u[2] = n[u[1]]
  BY NumberedPairs
<1>2. PICK D : D = DoneOf(n, todo)
  OBVIOUS
<1>3. DoneOf(n, todo \ {u}) = D \cup {u[1]}
  BY <1>2, OneDone
<1>4. \A x \in D : n[x] \in Nat
  BY <1>2 DEF DoneOf
<1>5. Repositioned(Placed(tu, n, D), u) = Placed(tu, n, D \cup {u[1]})
  BY <1>1, <1>4, PlacedOne
<1>. QED
  BY <1>2, <1>3, <1>5

(* Numbers of the turns that a cancelled one leaves behind.                *)
LEMMA RestNumbers ==
  ASSUME NEW r, NEW s, NEW n \in NumberingsIn(s, Rest(r, s))
  PROVE  DOMAIN n = Rest(r, s) /\ Rest(r, s) \subseteq Turns /\ \A x \in DOMAIN n : n[x] \in Nat
<1>1. Rest(r, s) \subseteq Turns
  BY DEF Rest, ActiveIn, WaitingIn, PlayingIn
<1>2. IsFiniteSet(Rest(r, s))
  BY <1>1, TurnRacesAssumption, FS_Subset
<1>. QED
  BY <1>1, <1>2, NumbersIn

(* What cancelTurn did is what TurnBoard's CancelTurn does.                *)
LEMMA CancelsTurn ==
  ASSUME NEW r, CancelsOne(r, settled), Agreed(settled),
         NEW n \in NumberingsIn(settled, Rest(r, settled)),
         settled'.turn = Placed(Marked(settled.turn, {r.turn}, "CANCELLED"), n, Rest(r, settled)),
         settled'.entry = CloseEntries(settled.entry, {r.turn}, "CANCELLED"),
         settled'.game = settled.game, settled'.court = settled.court
  PROVE  BoardDoes
<1>. DEFINE t == r.turn
<1>1. t \in Turns /\ settled.turn[t].status = "WAITING" /\ settled.turn[t].court = r.court
  BY DEF CancelsOne, WaitingIn
<1>. DEFINE rest == Board!Active(settled.turn[t].court) \ {t}
<1>2. rest = Rest(r, settled)
  BY <1>1, RowsThen DEF Rest
<1>3. n \in Board!Numberings(rest)
  BY <1>2, RowsThen
<1>4. settled'.turn = [u \in Turns |->
        IF u = t THEN [settled.turn[u] EXCEPT !.status = "CANCELLED"]
        ELSE IF u \in rest THEN [settled.turn[u] EXCEPT !.pos = n[u]] ELSE settled.turn[u]]
  <2>1. settled.turn \in [Turns -> TurnRow]
    BY DEF Agreed
  <2>2. settled'.turn = Placed(Marked(settled.turn, {t}, "CANCELLED"), n, rest)
    BY <1>2
  <2>3. t \notin rest
    OBVIOUS
  <2>. HIDE DEF rest
  <2>. QED
    BY <1>1, <2>1, <2>2, <2>3 DEF Placed, Marked, TurnRow
<1>5. Board!CancelTurn(t)
  BY <1>1, <1>3, <1>4, RowsThen DEF Board!CancelTurn, Board!attendance
<1>. QED
  BY <1>1, <1>5 DEF BoardDoes

(* The updates of completeTurnCore, of cancelTurn, and of either.          *)
LEMMA RenumberQueue ==
  ASSUME AloneInv, NEW p \in Requests, Renumber(p), Renumbers(req[p], settled, Snapshot)
  PROVE  GoesOn(p)
<1>. DEFINE q == req[p]
            W == WaitingIn(settled, q.court)
<1>1. PICK t \in Turns : \E n \in NumberingsIn(settled, W) :
        /\ Promoting(q, settled, Snapshot, t, n)
        /\ game = [settled.game EXCEPT ![t] = "COMPLETED"]
        /\ q.todo \subseteq Numbered(n) /\ q.todo # {}
        /\ turn = Promoted(settled, t, n, q.todo)
  BY DEF Renumbers, Snapshot
<1>2. PICK n \in NumberingsIn(settled, W) :
        /\ Promoting(q, settled, Snapshot, t, n)
        /\ game = [settled.game EXCEPT ![t] = "COMPLETED"]
        /\ q.todo \subseteq Numbered(n) /\ q.todo # {}
        /\ turn = Promoted(settled, t, n, q.todo)
  BY <1>1
<1>3. PICK u \in q.todo :
        /\ turn' = Repositioned(turn, u)
        /\ IF q.todo # {u} THEN req' = [req EXCEPT ![p].todo = @ \ {u}]
           ELSE Goto(p, IF q.kind = "cancel" THEN "idle" ELSE "start")
  BY DEF Renumber, First, Repositioned
<1>4. UNCHANGED <<game, court, entry>> /\ q.at = "renumber" /\ q.kind = "complete"
  BY <1>2 DEF Renumber, At, Promoting
<1>5. turn' = Promoted(settled, t, n, q.todo \ {u})
  <2>1. PICK tu : tu = Marked(settled.turn, {t}, "COMPLETED")
    OBVIOUS
  <2>2. tu \in [Turns -> TurnRow]
    BY <2>1, MarkedType, StandsNow DEF Agreed, TurnStatus
  <2>3. DOMAIN n \subseteq Turns /\ \A x \in DOMAIN n : n[x] \in Nat
    BY QueueNumbers
  <2>4. Repositioned(Placed(tu, n, DoneOf(n, q.todo)), u) = Placed(tu, n, DoneOf(n, q.todo \ {u}))
    BY <1>2, <2>2, <2>3, PlacesOne
  <2>. QED
    BY <1>2, <1>3, <2>1, <2>4 DEF Promoted
<1>6. CASE q.todo # {u}
  <2>1. PICK r : r = [q EXCEPT !.todo = q.todo \ {u}]
    OBVIOUS
  <2>2. req' = [req EXCEPT ![p] = r]
    BY <1>3, <1>6, <2>1, StandsNow DEF TypeOK
  <2>3. /\ r.at = "renumber" /\ r.kind = q.kind /\ r.court = q.court /\ r.turn = q.turn
        /\ r.todo = q.todo \ {u}
    BY <1>4, <2>1, StandsNow DEF RequestRow
  <2>4. Promoting(r, settled, Snapshot', t, n) /\ n \in NumberingsIn(settled, WaitingIn(settled, r.court))
    BY <1>2, <1>4, <2>3 DEF Promoting, Snapshot
  <2>5. Renumbers(r, settled, Snapshot')
    BY <1>2, <1>4, <1>5, <1>6, <2>3, <2>4 DEF Renumbers, Snapshot
  <2>. QED
    BY <2>2, <2>3, <2>5 DEF GoesOn, Stands
<1>7. CASE q.todo = {u}
  <2>1. PICK r : req' = [req EXCEPT ![p] = r] /\ r.at = "start" /\ SameLocals(r, q)
    BY <1>3, <1>4, <1>7, StandsNow, GotoRow
  <2>2. turn' = Promoted(settled, t, n, {})
    BY <1>5, <1>7
  <2>3. Promoting(r, settled, Snapshot', t, n) /\ n \in NumberingsIn(settled, WaitingIn(settled, r.court))
    BY <1>2, <1>4, <2>1 DEF Promoting, Snapshot, SameLocals
  <2>4. StartsNext(r, settled, Snapshot')
    BY <1>2, <1>4, <2>1, <2>2, <2>3 DEF StartsNext, Snapshot
  <2>. QED
    BY <2>1, <2>4 DEF GoesOn, Stands
<1>. QED
  BY <1>6, <1>7

LEMMA RenumberRest ==
  ASSUME AloneInv, NEW p \in Requests, Renumber(p), RenumbersRest(req[p], settled, Snapshot)
  PROVE  GoesOn(p) \/ Answered(p)
<1>. DEFINE q == req[p]
            tu == Marked(settled.turn, {q.turn}, "CANCELLED")
<1>1. PICK n \in NumberingsIn(settled, Rest(q, settled)) :
        /\ q.todo \subseteq Numbered(n) /\ q.todo # {}
        /\ turn = Placed(tu, n, DoneOf(n, q.todo))
  BY DEF RenumbersRest, Snapshot
<1>2. /\ CancelsOne(q, settled) /\ q.kind = "cancel" /\ game = settled.game /\ court = settled.court
      /\ entry = CloseEntries(settled.entry, {q.turn}, "CANCELLED")
  BY DEF RenumbersRest, Remains, Snapshot, CancelsOne
<1>3. PICK u \in q.todo :
        /\ turn' = Repositioned(turn, u)
        /\ IF q.todo # {u} THEN req' = [req EXCEPT ![p].todo = @ \ {u}]
           ELSE Goto(p, IF q.kind = "cancel" THEN "idle" ELSE "start")
  BY DEF Renumber, First, Repositioned
<1>4. UNCHANGED <<game, court, entry>> /\ q.at = "renumber"
  BY DEF Renumber, At
<1>5. turn' = Placed(tu, n, DoneOf(n, q.todo \ {u}))
  <2>1. tu \in [Turns -> TurnRow]
    BY MarkedType, StandsNow DEF Agreed, TurnStatus
  <2>2. DOMAIN n \subseteq Turns /\ \A x \in DOMAIN n : n[x] \in Nat
    BY RestNumbers
  <2>. QED
    BY <1>1, <1>3, <2>1, <2>2, PlacesOne
<1>6. CASE q.todo # {u}
  <2>1. PICK r : r = [q EXCEPT !.todo = q.todo \ {u}]
    OBVIOUS
  <2>2. req' = [req EXCEPT ![p] = r]
    BY <1>3, <1>6, <2>1, StandsNow DEF TypeOK
  <2>3. /\ r.at = "renumber" /\ r.kind = q.kind /\ r.court = q.court /\ r.turn = q.turn
        /\ r.todo = q.todo \ {u}
    BY <1>4, <2>1, StandsNow DEF RequestRow
  <2>4. Rest(r, settled) = Rest(q, settled)
    BY <2>3 DEF Rest
  <2>5. Remains(r, settled, Snapshot')
    BY <1>2, <1>4, <2>3 DEF Remains, CancelsOne, Snapshot
  <2>6. RenumbersRest(r, settled, Snapshot')
    BY <1>1, <1>5, <1>6, <2>3, <2>4, <2>5 DEF RenumbersRest, Snapshot
  <2>. QED
    BY <2>2, <2>3, <2>6 DEF GoesOn, Stands
<1>7. CASE q.todo = {u}
  <2>1. req' = [req EXCEPT ![p] = Idle]
    BY <1>2, <1>3, <1>7 DEF Goto
  <2>2. turn' = Placed(tu, n, Rest(q, settled))
    BY <1>5, <1>7, AllDone, RestNumbers
  <2>3. ASSUME settled' = Snapshot' PROVE BoardDoes
    BY <1>2, <1>4, <2>2, <2>3, CancelsTurn, StandsNow DEF Snapshot
  <2>. QED
    BY <2>1, <2>3 DEF Answered
<1>. QED
  BY <1>6, <1>7

LEMMA RenumberAlone ==
  ASSUME AloneInv, NEW p \in Requests, Renumber(p)
  PROVE  GoesOn(p) \/ Answered(p)
<1>1. Renumbers(req[p], settled, Snapshot) \/ RenumbersRest(req[p], settled, Snapshot)
  BY StandsNow DEF Stands, Renumber, At
<1>. QED
  BY <1>1, RenumberQueue, RenumberRest

-----------------------------------------------------------------------------
(* cancelTurn and completeActiveTurnByCourt: what was cancelled so far     *)

LEMMA CancelNumbers ==
  ASSUME NEW r, NEW s, r.turn \in Turns \/ r.kind = "clear", NEW n \in NumberingsIn(s, ToCancel(r, s))
  PROVE  /\ DOMAIN n = ToCancel(r, s) /\ ToCancel(r, s) \subseteq Turns
         /\ \A u \in DOMAIN n : n[u] \in Nat
         /\ \A x, y \in DOMAIN n : n[x] = n[y] => x = y
<1>1. ToCancel(r, s) \subseteq Turns
  BY DEF ToCancel, WaitingIn
<1>2. IsFiniteSet(ToCancel(r, s))
  BY <1>1, TurnRacesAssumption, FS_Subset
<1>. QED
  BY <1>1, <1>2, NumbersIn

(* Of the turns left there is one that comes first.                        *)
LEMMA OneLowest ==
  ASSUME NEW r, NEW n, \A u \in DOMAIN n : n[u] \in Nat,
         \A x, y \in DOMAIN n : n[x] = n[y] => x = y, r.todo \subseteq Numbered(n),
         NEW u \in r.todo, NEW v \in r.todo, Lowest(r, u), Lowest(r, v)
  PROVE  u = v
<1>1. /\ u[1] \in DOMAIN n /\ u[2] = n[u[1]] /\ u = <<u[1], n[u[1]]>>
      /\ v[1] \in DOMAIN n /\ v[2] = n[v[1]] /\ v = <<v[1], n[v[1]]>>
  BY NumberedPairs
<1>2. u[2] <= v[2] /\ v[2] <= u[2]
  BY DEF Lowest
<1>3. u[2] = v[2]
  BY <1>1, <1>2
<1>. QED
  BY <1>1, <1>3

(* cancelTurn reads its turn, completeActiveTurnByCourt lists the turns    *)
(* that wait.                                                              *)
LEMMA LoadWaitingAlone ==
  ASSUME AloneInv, NEW p \in Requests, LoadWaiting(p)
  PROVE  GoesOn(p) \/ Answered(p)
<1>. DEFINE q == req[p]
            t == q.turn
<1>1. Snapshot = settled /\ q.kind = "cancel" /\ t \in Turns
  BY StandsNow DEF Stands, LoadWaiting, At
<1>2. UNCHANGED rows
  BY DEF LoadWaiting
<1>3. CASE Done(p)
  BY <1>1, <1>2, <1>3, GivesUp
<1>4. CASE ~Done(p)
  <2>1. settled.turn = turn /\ settled.game = game /\ settled.court = court /\ settled.entry = entry
    BY <1>1 DEF Snapshot
  <2>2. turn[t].status = "WAITING"
    BY <1>4 DEF LoadWaiting
  <2>3. PICK r : r = [q EXCEPT !.at = "cancel", !.court = turn[t].court, !.todo = {<<t, 1>>}]
    OBVIOUS
  <2>4. req' = [req EXCEPT ![p] = r]
    BY <1>4, <2>3, StandsNow DEF LoadWaiting, TypeOK
  <2>5. /\ r.at = "cancel" /\ r.kind = "cancel" /\ r.turn = t /\ r.court = turn[t].court
        /\ r.todo = {<<t, 1>>}
    BY <1>1, <2>3, StandsNow DEF RequestRow
  <2>6. CancelsOne(r, settled) /\ ToCancel(r, settled) = {t}
    BY <1>1, <2>1, <2>2, <2>5 DEF CancelsOne, WaitingIn, ToCancel
  <2>7. PICK n : n = [x \in {t} |-> 1]
    OBVIOUS
  <2>8. n \in NumberingsIn(settled, {t})
    <3>1. Cardinality({t}) = 1
      BY FS_Singleton
    <3>2. n \in [{t} -> 1..Cardinality({t})]
      BY <2>7, <3>1
    <3>. QED
      BY <2>7, <3>2 DEF NumberingsIn
  <2>9. DOMAIN n = {t} /\ n[t] = 1
    BY <2>7
  <2>10. r.todo \subseteq Numbered(n) /\ r.todo # {} /\ DoneOf(n, r.todo) = {}
    BY <2>5, <2>9 DEF Numbered, DoneOf
  <2>11. /\ turn = Marked(settled.turn, {}, "CANCELLED")
         /\ entry = CloseEntries(settled.entry, {}, "CANCELLED")
    BY <2>1, MarkedNone, ClosedNone, StandsNow DEF Agreed
  <2>12. Cancels(r, settled, Snapshot)
    BY <2>1, <2>5, <2>6, <2>8, <2>10, <2>11 DEF Cancels, Snapshot
  <2>. QED
    BY <1>2, <2>4, <2>5, <2>12, ReadsKeep DEF GoesOn, Stands
<1>. QED
  BY <1>3, <1>4

LEMMA ListWaitingAlone ==
  ASSUME AloneInv, NEW p \in Requests, ListWaiting(p)
  PROVE  GoesOn(p) \/ Answered(p)
<1>. DEFINE q == req[p]
            W == Waiting(q.court)
<1>1. Snapshot = settled /\ Clears(q)
  BY StandsNow DEF Stands, ListWaiting, At
<1>2. UNCHANGED rows
  BY DEF ListWaiting
<1>3. PICK n \in Numberings(W) :
        req' = [req EXCEPT ![p].at = IF Numbered(n) = {} THEN "playing" ELSE "cancel",
                           ![p].todo = Numbered(n)]
  BY DEF ListWaiting
<1>4. settled.turn = turn /\ settled.game = game /\ settled.court = court /\ settled.entry = entry
  BY <1>1 DEF Snapshot
<1>5. PICK r : r = [q EXCEPT !.at = IF Numbered(n) = {} THEN "playing" ELSE "cancel",
                             !.todo = Numbered(n)]
  OBVIOUS
<1>6. req' = [req EXCEPT ![p] = r]
  BY <1>3, <1>5, StandsNow DEF TypeOK
<1>7. /\ r.kind = q.kind /\ r.court = q.court /\ r.todo = Numbered(n)
      /\ r.at = IF Numbered(n) = {} THEN "playing" ELSE "cancel"
  BY <1>5, StandsNow DEF RequestRow
<1>8. W = WaitingIn(settled, r.court) /\ n \in NumberingsIn(settled, W)
  BY <1>1, <1>3, <1>7, RowsNow
<1>9. Clears(r) /\ ToCancel(r, settled) = W /\ Stuck(r, settled) = W
  BY <1>1, <1>7, <1>8 DEF Clears, ToCancel, Stuck
<1>10. /\ turn = Marked(settled.turn, {}, "CANCELLED")
       /\ entry = CloseEntries(settled.entry, {}, "CANCELLED")
  BY <1>4, MarkedNone, ClosedNone, StandsNow DEF Agreed
<1>11. CASE Numbered(n) = {}
  <2>1. W = {}
    <3>1. DOMAIN n = W
      BY <1>8, QueueNumbers
    <3>. QED
      BY <1>11, <3>1, AllDone, NoneDone
  <2>2. NoneWaits(r, settled, Snapshot)
    BY <1>4, <1>9, <1>10, <2>1 DEF NoneWaits, BaseTurn, BaseEntry, Snapshot
  <2>. QED
    BY <1>2, <1>6, <1>7, <1>9, <1>11, <2>2, ReadsKeep DEF GoesOn, Stands
<1>12. CASE Numbered(n) # {}
  <2>1. DoneOf(n, r.todo) = {}
    BY <1>7, NoneDone
  <2>2. n \in NumberingsIn(settled, ToCancel(r, settled))
    BY <1>8, <1>9
  <2>3. Cancels(r, settled, Snapshot)
    BY <1>4, <1>7, <1>9, <1>10, <1>12, <2>1, <2>2 DEF Cancels, Clears, Snapshot
  <2>. QED
    BY <1>2, <1>6, <1>7, <1>12, <2>3, ReadsKeep DEF GoesOn, Stands
<1>. QED
  BY <1>11, <1>12

(* A turn and then its entry are cancelled.                                *)
LEMMA CancelListedAlone ==
  ASSUME AloneInv, NEW p \in Requests, CancelListed(p)
  PROVE  GoesOn(p) \/ Answered(p)
<1>. DEFINE q == req[p]
<1>1. q.at = "cancel" /\ Cancels(q, settled, Snapshot)
  BY StandsNow DEF Stands, CancelListed, At
<1>2. PICK u \in q.todo : Lowest(q, u) /\ turn' = [turn EXCEPT ![u[1]].status = "CANCELLED"]
  BY DEF CancelListed, First, Lowest
<1>3. PICK r : req' = [req EXCEPT ![p] = r] /\ r.at = "cancelEntry" /\ SameLocals(r, q)
  BY StandsNow, GotoRow DEF CancelListed
<1>4. PICK n \in NumberingsIn(settled, ToCancel(q, settled)) :
        /\ q.todo # {} /\ q.todo \subseteq Numbered(n)
        /\ entry = CloseEntries(settled.entry, DoneOf(n, q.todo), "CANCELLED")
        /\ turn = Marked(settled.turn, DoneOf(n, q.todo), "CANCELLED")
  BY <1>1 DEF Cancels, Snapshot
<1>5. /\ CancelsOne(q, settled) \/ Clears(q)
      /\ game = settled.game /\ court = settled.court
  BY <1>1 DEF Cancels, Clears, Snapshot
<1>6. q.turn \in Turns \/ q.kind = "clear"
  BY <1>5 DEF CancelsOne, WaitingIn, Clears
<1>7. turn' = Marked(settled.turn, DoneOf(n, q.todo \ {u}), "CANCELLED")
  <2>1. PICK S, v : S = DoneOf(n, q.todo) /\ v = u[1]
    OBVIOUS
  <2>2. DoneOf(n, q.todo \ {u}) = S \cup {v}
    BY <1>4, <2>1, OneDone
  <2>3. v \in Turns
    BY <1>4, <1>6, <2>1, CancelNumbers, NumberedPairs
  <2>4. settled.turn \in [Turns -> TurnRow]
    BY StandsNow DEF Agreed
  <2>5. turn = Marked(settled.turn, S, "CANCELLED") /\ turn \in [Turns -> TurnRow]
    BY <1>4, <2>1, <2>4, MarkedType DEF TurnStatus
  <2>6. turn' = [turn EXCEPT ![v].status = "CANCELLED"]
    BY <1>2, <2>1
  <2>7. turn' = Marked(turn, {v}, "CANCELLED")
    BY <2>3, <2>5, <2>6, MarkedOne DEF TurnStatus
  <2>8. turn' = Marked(settled.turn, S \cup {v}, "CANCELLED")
    BY <2>4, <2>5, <2>7, MarkedMore DEF TurnStatus
  <2>. QED
    BY <2>2, <2>8
<1>8. UNCHANGED <<game, court, entry>>
  BY DEF CancelListed
<1>9. /\ r.todo = q.todo /\ ToCancel(r, settled) = ToCancel(q, settled)
      /\ (CancelsOne(r, settled) \/ Clears(r)) /\ Lowest(r, u)
  BY <1>2, <1>3, <1>5 DEF SameLocals, ToCancel, CancelsOne, Clears, Lowest
<1>10. /\ Snapshot'.turn = Marked(settled.turn, DoneOf(n, r.todo \ {u}), "CANCELLED")
       /\ Snapshot'.entry = CloseEntries(settled.entry, DoneOf(n, r.todo), "CANCELLED")
       /\ Snapshot'.game = settled.game /\ Snapshot'.court = settled.court
  BY <1>4, <1>5, <1>7, <1>8, <1>9 DEF Snapshot
<1>11. n \in NumberingsIn(settled, ToCancel(r, settled)) /\ u \in r.todo
       /\ r.todo # {} /\ r.todo \subseteq Numbered(n)
  BY <1>4, <1>9
<1>12. Cancels(r, settled, Snapshot')
  BY <1>3, <1>9, <1>10, <1>11 DEF Cancels, Clears
<1>. QED
  BY <1>3, <1>12 DEF GoesOn, Stands

LEMMA CancelEntryAlone ==
  ASSUME AloneInv, NEW p \in Requests, CancelEntry(p)
  PROVE  GoesOn(p) \/ Answered(p)
<1>. DEFINE q == req[p]
<1>1. q.at = "cancelEntry" /\ Cancels(q, settled, Snapshot)
  BY StandsNow DEF Stands, CancelEntry, At
<1>2. PICK n \in NumberingsIn(settled, ToCancel(q, settled)) :
        /\ q.todo # {} /\ q.todo \subseteq Numbered(n)
        /\ entry = CloseEntries(settled.entry, DoneOf(n, q.todo), "CANCELLED")
        /\ \E u \in q.todo : /\ Lowest(q, u)
                             /\ turn = Marked(settled.turn, DoneOf(n, q.todo \ {u}), "CANCELLED")
  BY <1>1 DEF Cancels, Snapshot
<1>3. PICK u \in q.todo : /\ Lowest(q, u)
                          /\ turn = Marked(settled.turn, DoneOf(n, q.todo \ {u}), "CANCELLED")
  BY <1>2
<1>4. /\ CancelsOne(q, settled) \/ Clears(q)
      /\ game = settled.game /\ court = settled.court
  BY <1>1 DEF Cancels, Clears, Snapshot
<1>5. q.turn \in Turns \/ q.kind = "clear"
  BY <1>4 DEF CancelsOne, WaitingIn, Clears
<1>6. UNCHANGED <<turn, game, court>>
  BY DEF CancelEntry
<1>. DEFINE l == IF q.kind = "cancel" THEN "remaining"
                 ELSE IF q.todo # {u} THEN "cancel" ELSE "playing"
<1>7. /\ entry' = CloseEntries(entry, {u[1]}, "CANCELLED")
      /\ req' = [req EXCEPT ![p].todo = @ \ {u}, ![p].at = l]
  <2>1. PICK v \in q.todo :
          /\ Lowest(q, v)
          /\ entry' = CloseEntries(entry, {v[1]}, "CANCELLED")
          /\ req' = [req EXCEPT ![p].todo = @ \ {v},
                       ![p].at = IF q.kind = "cancel" THEN "remaining"
                                 ELSE IF q.todo # {v} THEN "cancel" ELSE "playing"]
    BY DEF CancelEntry, First, Lowest
  <2>2. u = v
    BY <1>2, <1>3, <1>5, <2>1, CancelNumbers, OneLowest
  <2>. QED
    BY <2>1, <2>2
<1>8. PICK r : r = [q EXCEPT !.todo = q.todo \ {u}, !.at = l]
  OBVIOUS
<1>9. req' = [req EXCEPT ![p] = r]
  BY <1>7, <1>8, StandsNow DEF TypeOK
<1>10. r.at = l /\ r.kind = q.kind /\ r.court = q.court /\ r.turn = q.turn /\ r.todo = q.todo \ {u}
  BY <1>8, StandsNow DEF RequestRow
<1>11. entry' = CloseEntries(settled.entry, DoneOf(n, r.todo), "CANCELLED")
  <2>1. PICK S, v : S = DoneOf(n, q.todo) /\ v = u[1]
    OBVIOUS
  <2>2. DoneOf(n, r.todo) = S \cup {v}
    BY <1>2, <1>10, <2>1, OneDone
  <2>3. settled.entry \in [Entries -> EntryRow]
    BY StandsNow DEF Agreed
  <2>4. CloseEntries(CloseEntries(settled.entry, S, "CANCELLED"), {v}, "CANCELLED")
          = CloseEntries(settled.entry, S \cup {v}, "CANCELLED")
    BY <2>3, ClosedMore DEF EntryStatus
  <2>. QED
    BY <1>2, <1>7, <2>1, <2>2, <2>4
<1>12. turn' = Marked(settled.turn, DoneOf(n, r.todo), "CANCELLED")
  BY <1>3, <1>6, <1>10
<1>13. DOMAIN n = ToCancel(q, settled)
  BY <1>5, CancelNumbers
<1>14. /\ Snapshot'.turn = turn' /\ Snapshot'.game = settled.game /\ Snapshot'.court = settled.court
       /\ Snapshot'.entry = entry'
  BY <1>4, <1>6 DEF Snapshot
<1>15. CASE CancelsOne(q, settled)
  <2>1. r.at = "remaining" /\ ToCancel(q, settled) = {q.turn}
    BY <1>10, <1>15 DEF CancelsOne, ToCancel
  <2>2. r.todo = {}
    <3>1. \A x \in q.todo : x = <<q.turn, n[q.turn]>>
      BY <1>2, <1>13, <2>1, NumberedPairs
    <3>. QED
      BY <1>10, <3>1
  <2>3. DoneOf(n, r.todo) = {r.turn}
    BY <1>10, <1>13, <2>1, <2>2, AllDone
  <2>4. Remains(r, settled, Snapshot') /\ Snapshot'.turn = Marked(settled.turn, {r.turn}, "CANCELLED")
    BY <1>10, <1>11, <1>12, <1>14, <1>15, <2>3 DEF Remains, CancelsOne
  <2>. QED
    BY <1>9, <2>1, <2>4 DEF GoesOn, Stands
<1>16. CASE Clears(q)
  <2>1. Clears(r) /\ ToCancel(r, settled) = ToCancel(q, settled)
    BY <1>10, <1>16 DEF Clears, ToCancel
  <2>2. CASE q.todo # {u}
    <3>1. r.at = "cancel" /\ r.todo # {} /\ r.todo \subseteq Numbered(n)
      BY <1>2, <1>10, <1>16, <2>2 DEF Clears
    <3>2. Cancels(r, settled, Snapshot')
      BY <1>2, <1>11, <1>12, <1>14, <2>1, <3>1 DEF Cancels, Clears
    <3>. QED
      BY <1>9, <3>1, <3>2 DEF GoesOn, Stands
  <2>3. CASE q.todo = {u}
    <3>1. r.at = "playing" /\ r.todo = {}
      BY <1>10, <1>16, <2>3 DEF Clears
    <3>2. DoneOf(n, r.todo) = Stuck(r, settled)
      BY <1>13, <2>1, <3>1, AllDone DEF Stuck, ToCancel, Clears
    <3>3. NoneWaits(r, settled, Snapshot')
      BY <1>11, <1>12, <1>14, <3>2 DEF NoneWaits, BaseTurn, BaseEntry
    <3>. QED
      BY <1>9, <2>1, <3>1, <3>3 DEF GoesOn, Stands
  <2>. QED
    BY <2>2, <2>3
<1>. QED
  BY <1>4, <1>15, <1>16

(* cancelTurn: what remains on the court is listed.                        *)
LEMMA ListRemainingAlone ==
  ASSUME AloneInv, NEW p \in Requests, ListRemaining(p)
  PROVE  GoesOn(p) \/ Answered(p)
<1>. DEFINE q == req[p]
            tu == Marked(settled.turn, {q.turn}, "CANCELLED")
<1>1. Remains(q, settled, Snapshot) /\ turn = tu
  BY StandsNow DEF Stands, ListRemaining, At, Snapshot
<1>2. /\ CancelsOne(q, settled) /\ game = settled.game /\ court = settled.court
      /\ entry = CloseEntries(settled.entry, {q.turn}, "CANCELLED")
  BY <1>1 DEF Remains, Snapshot
<1>3. UNCHANGED rows
  BY DEF ListRemaining
<1>4. settled.turn \in [Turns -> TurnRow] /\ turn \in [Turns -> TurnRow] /\ q.turn \in Turns
  BY <1>2, StandsNow DEF Agreed, TypeOK, RowsTypeOK, CancelsOne, WaitingIn
<1>5. Active(q.court) = Rest(q, settled)
  <2>1. \A u \in Turns :
          /\ turn[u].court = settled.turn[u].court
          /\ turn[u].status = IF u = q.turn THEN "CANCELLED" ELSE settled.turn[u].status
    BY <1>1, <1>4 DEF Marked, TurnRow
  <2>. QED
    BY <2>1 DEF Active, Waiting, Playing, Rest, ActiveIn, WaitingIn, PlayingIn
<1>6. PICK n \in Numberings(Active(q.court)) :
        IF Updates(n) = {} THEN Done(p)
        ELSE req' = [req EXCEPT ![p].at = "renumber", ![p].todo = Updates(n)]
  BY DEF ListRemaining
<1>7. n \in NumberingsIn(settled, Rest(q, settled))
  <2>1. \A u \in Rest(q, settled) : settled.turn[u].pos = Snapshot.turn[u].pos
    BY <1>1, <1>4 DEF Snapshot, Marked, TurnRow, Rest, ActiveIn, WaitingIn, PlayingIn
  <2>. QED
    BY <1>5, <1>6, <2>1, RowsNow, SameOrder
<1>8. Updates(n) \subseteq Numbered(n) /\ turn = Placed(tu, n, DoneOf(n, Updates(n)))
  BY <1>1, <1>4, UpdatesLeft
<1>9. CASE Updates(n) = {}
  <2>1. req' = [req EXCEPT ![p] = Idle]
    BY <1>6, <1>9 DEF Done, Goto
  <2>2. turn = Placed(tu, n, Rest(q, settled))
    BY <1>7, <1>8, <1>9, AllDone, RestNumbers
  <2>3. ASSUME settled' = Snapshot' PROVE BoardDoes
    <3>1. /\ settled'.turn = turn /\ settled'.game = game /\ settled'.court = court
          /\ settled'.entry = entry
      BY <1>3, <2>3 DEF Snapshot, rows
    <3>. QED
      BY <1>2, <1>7, <2>2, <3>1, CancelsTurn, StandsNow
  <2>. QED
    BY <2>1, <2>3 DEF Answered
<1>10. CASE Updates(n) # {}
  <2>1. PICK r : r = [q EXCEPT !.at = "renumber", !.todo = Updates(n)]
    OBVIOUS
  <2>2. req' = [req EXCEPT ![p] = r]
    BY <1>6, <1>10, <2>1, StandsNow DEF TypeOK
  <2>3. /\ r.at = "renumber" /\ r.kind = q.kind /\ r.court = q.court /\ r.turn = q.turn
        /\ r.todo = Updates(n)
    BY <2>1, StandsNow DEF RequestRow
  <2>4. Remains(r, settled, Snapshot) /\ Rest(r, settled) = Rest(q, settled)
    BY <1>1, <2>3 DEF Remains, CancelsOne, Rest
  <2>5. RenumbersRest(r, settled, Snapshot)
    BY <1>7, <1>8, <1>10, <2>3, <2>4 DEF RenumbersRest, Snapshot
  <2>. QED
    BY <1>3, <2>2, <2>3, <2>5, ReadsKeep DEF GoesOn, Stands
<1>. QED
  BY <1>9, <1>10

(* What completeActiveTurnByCourt did is what TurnBoard's ClearCourt does. *)
LEMMA ClearsCourt ==
  ASSUME NEW r, Clears(r), Agreed(settled), InUse(settled), NEW P \in InPlay(settled, r.court),
         settled'.turn = Marked(BaseTurn(r, settled), P, "COMPLETED"),
         settled'.game = [u \in Turns |-> IF u \in P THEN "COMPLETED" ELSE settled.game[u]],
         settled'.entry = CloseEntries(BaseEntry(r, settled), P, "COMPLETED"),
         settled'.court = [settled.court EXCEPT ![r.court] = "EMPTY"]
  PROVE  BoardDoes
<1>. DEFINE c == r.court
            W == Board!Waiting(c)
<1>1. W = WaitingIn(settled, c) /\ Board!Playing(c) = PlayingIn(settled, c) /\ c \in Courts
  BY RowsThen DEF Clears
<1>2. P \in IF Board!Playing(c) = {} THEN {{}} ELSE {{t} : t \in Board!Playing(c)}
  BY <1>1 DEF InPlay
<1>3. settled'.turn = Marked(Marked(settled.turn, W, "CANCELLED"), P, "COMPLETED")
  BY <1>1 DEF BaseTurn, Stuck, Clears
<1>4. settled'.turn = [u \in Turns |->
        IF u \in W THEN [settled.turn[u] EXCEPT !.status = "CANCELLED"]
        ELSE IF u \in P THEN [settled.turn[u] EXCEPT !.status = "COMPLETED"]
        ELSE settled.turn[u]]
  <2>1. settled.turn \in [Turns -> TurnRow]
    BY DEF Agreed
  <2>2. \A u \in P : u \notin W
    BY <1>1 DEF InPlay, PlayingIn, WaitingIn
  <2>. HIDE DEF W
  <2>. QED
    BY <1>3, <2>1, <2>2 DEF Marked, TurnRow
<1>5. settled'.entry = Board!CloseEntries(Board!CloseEntries(settled.entry, W, "CANCELLED"), P, "COMPLETED")
  BY <1>1, RowsThen DEF BaseEntry, Stuck, Clears
<1>6. settled.court[c] # "MAINTENANCE"
  BY <1>1 DEF InUse
<1>7. Board!ClearCourt(c)
  BY <1>2, <1>4, <1>5, <1>6 DEF Board!ClearCourt, Board!attendance
<1>. QED
  BY <1>1, <1>7 DEF BoardDoes

(* completeActiveTurnByCourt: the game in play, and what is left after it. *)
LEMMA FindPlayingAlone ==
  ASSUME AloneInv, NEW p \in Requests, FindPlaying(p)
  PROVE  GoesOn(p) \/ Answered(p)
<1>. DEFINE q == req[p]
            c == q.court
<1>1. Clears(q) /\ NoneWaits(q, settled, Snapshot)
  BY StandsNow DEF Stands, FindPlaying, At
<1>2. /\ turn = BaseTurn(q, settled) /\ entry = BaseEntry(q, settled)
      /\ game = settled.game /\ court = settled.court
  BY <1>1 DEF NoneWaits, Snapshot
<1>3. UNCHANGED rows
  BY DEF FindPlaying
<1>4. settled.turn \in [Turns -> TurnRow] /\ settled.game \in [Turns -> GameStatus]
      /\ turn \in [Turns -> TurnRow] /\ entry \in [Entries -> EntryRow]
  BY StandsNow DEF Agreed, TypeOK, RowsTypeOK
<1>5. Playing(c) = PlayingIn(settled, c)
  <2>1. \A u \in Turns : turn[u].court = settled.turn[u].court
                         /\ (turn[u].status = "PLAYING" <=> settled.turn[u].status = "PLAYING")
    BY <1>2, <1>4 DEF BaseTurn, Stuck, Marked, TurnRow, WaitingIn
  <2>. QED
    BY <2>1 DEF Playing, PlayingIn
<1>6. CASE Playing(c) = {}
  <2>1. PICK r : req' = [req EXCEPT ![p] = r] /\ r.at = "recount" /\ SameLocals(r, q)
    BY <1>6, StandsNow, GotoRow DEF FindPlaying
  <2>2. /\ Clears(r) /\ r.court = c /\ BaseTurn(r, settled) = turn /\ BaseEntry(r, settled) = entry
    BY <1>1, <1>2, <2>1 DEF SameLocals, Clears, BaseTurn, BaseEntry, Stuck
  <2>3. game = [u \in Turns |-> IF u \in {} THEN "COMPLETED" ELSE settled.game[u]]
    BY <1>2, <1>4
  <2>4. Cleared(r, settled, Snapshot, {})
    BY <1>2, <1>4, <2>2, <2>3, MarkedNone, ClosedNone DEF Cleared, Snapshot
  <2>5. {} \in InPlay(settled, r.court)
    BY <1>5, <1>6, <2>2 DEF InPlay
  <2>. QED
    BY <1>3, <2>1, <2>2, <2>4, <2>5, ReadsKeep DEF GoesOn, Stands
<1>7. CASE Playing(c) # {}
  <2>1. PICK t \in Playing(c) : req' = [req EXCEPT ![p].at = EndFrom(t), ![p].turn = t]
    BY <1>7 DEF FindPlaying
  <2>2. t \in PlayingIn(settled, c)
    BY <1>5
  <2>3. game[t] # "NONE"
    BY <1>2, <2>2, StandsNow DEF Agreed, PlayingIn
  <2>4. PICK r : r = [q EXCEPT !.at = "endGame", !.turn = t]
    OBVIOUS
  <2>5. req' = [req EXCEPT ![p] = r]
    BY <2>1, <2>3, <2>4, StandsNow DEF EndFrom, TypeOK
  <2>6. r.at = "endGame" /\ r.kind = q.kind /\ r.court = c /\ r.turn = t
    BY <2>4, StandsNow DEF RequestRow
  <2>7. BaseTurn(r, settled) = turn /\ BaseEntry(r, settled) = entry /\ Clears(r)
    BY <1>1, <1>2, <2>6 DEF BaseTurn, BaseEntry, Stuck, Clears
  <2>8. EndsGame(r, settled, Snapshot)
    BY <1>2, <2>2, <2>6, <2>7 DEF EndsGame, Clears, Snapshot
  <2>. QED
    BY <1>3, <2>5, <2>6, <2>8, ReadsKeep DEF GoesOn, Stands
<1>. QED
  BY <1>6, <1>7

LEMMA RecountAlone ==
  ASSUME AloneInv, NEW p \in Requests, Recount(p)
  PROVE  GoesOn(p) \/ Answered(p)
<1>. DEFINE q == req[p]
            c == q.court
<1>1. Clears(q) /\ \E P \in InPlay(settled, c) : Cleared(q, settled, Snapshot, P)
  BY StandsNow DEF Stands, Recount, At
<1>2. PICK P \in InPlay(settled, c) : Cleared(q, settled, Snapshot, P)
  BY <1>1
<1>3. UNCHANGED rows
  BY DEF Recount
<1>4. CASE Active(c) = {}
  <2>1. PICK r : req' = [req EXCEPT ![p] = r] /\ r.at = "release" /\ SameLocals(r, q)
    BY <1>4, StandsNow, GotoRow DEF Recount
  <2>2. Clears(r) /\ Cleared(r, settled, Snapshot, P) /\ P \in InPlay(settled, r.court)
    BY <1>1, <1>2, <2>1 DEF Clears, Cleared, SameLocals, BaseTurn, BaseEntry, Stuck
  <2>. QED
    BY <1>3, <2>1, <2>2, ReadsKeep DEF GoesOn, Stands
<1>5. CASE Active(c) # {}
  <2>1. req' = [req EXCEPT ![p] = Idle]
    BY <1>5 DEF Recount, Done, Goto
  <2>2. P # {}
    <3>1. SUFFICES ASSUME P = {} PROVE FALSE
      OBVIOUS
    <3>2. settled.turn \in [Turns -> TurnRow] /\ BaseTurn(q, settled) \in [Turns -> TurnRow]
      BY StandsNow, BaseTurnType DEF Agreed
    <3>3. turn = BaseTurn(q, settled) /\ PlayingIn(settled, c) = {}
      BY <1>2, <3>1, <3>2, MarkedNone DEF Cleared, Snapshot, InPlay
    <3>4. \A u \in Turns :
            /\ turn[u].court = settled.turn[u].court
            /\ turn[u].status = IF u \in WaitingIn(settled, c) THEN "CANCELLED"
                                ELSE settled.turn[u].status
      BY <1>1, <3>2, <3>3 DEF Clears, BaseTurn, Stuck, Marked, TurnRow
    <3>. QED
      BY <1>5, <3>3, <3>4 DEF Active, Waiting, Playing, WaitingIn, PlayingIn
  <2>3. ASSUME settled' = Snapshot' PROVE BoardDoes
    <3>1. settled' = Snapshot
      BY <1>3, <2>3, ReadsKeep
    <3>. QED
      BY <1>1, <1>2, <2>2, <3>1, ClearsCourt, StandsNow DEF Cleared
  <2>. QED
    BY <2>1, <2>3 DEF Answered
<1>. QED
  BY <1>4, <1>5

LEMMA ReleaseAlone ==
  ASSUME AloneInv, NEW p \in Requests, Release(p)
  PROVE  GoesOn(p) \/ Answered(p)
<1>. DEFINE q == req[p]
            c == q.court
<1>1. Clears(q) /\ \E P \in InPlay(settled, c) : Cleared(q, settled, Snapshot, P)
  BY StandsNow DEF Stands, Release, At
<1>2. PICK P \in InPlay(settled, c) : Cleared(q, settled, Snapshot, P)
  BY <1>1
<1>3. req' = [req EXCEPT ![p] = Idle]
  BY DEF Release, Done, Goto
<1>4. court' = [settled.court EXCEPT ![c] = "EMPTY"] /\ UNCHANGED <<turn, game, entry>>
  BY <1>2, StandsNow DEF Release, Cleared, Snapshot, Agreed
<1>5. ASSUME settled' = Snapshot' PROVE BoardDoes
  <2>1. /\ settled'.turn = Snapshot.turn /\ settled'.game = Snapshot.game
        /\ settled'.entry = Snapshot.entry /\ settled'.court = court'
    BY <1>4, <1>5 DEF Snapshot
  <2>. QED
    BY <1>1, <1>2, <1>4, <2>1, ClearsCourt, StandsNow DEF Cleared
<1>. QED
  BY <1>3, <1>5 DEF Answered

-----------------------------------------------------------------------------
(* unassignEntryByCourt and replacePlayerInRunningTurn                     *)

(* unassignEntryByCourt: two reads and a transaction.                      *)
LEMMA FindEntryAlone ==
  ASSUME AloneInv, NEW p \in Requests, FindEntry(p)
  PROVE  GoesOn(p) \/ Answered(p)
<1>. DEFINE q == req[p]
<1>1. Snapshot = settled /\ q.court \in Courts
  BY StandsNow DEF Stands, FindEntry, At
<1>2. UNCHANGED rows
  BY DEF FindEntry
<1>3. CASE Done(p)
  BY <1>1, <1>2, <1>3, GivesUp
<1>4. CASE ~Done(p)
  <2>1. PICK e \in Entries :
          /\ entry[e].status = "MATERIALIZED" /\ entry[e].court = q.court
          /\ req' = [req EXCEPT ![p].at = "findTurn", ![p].entry = e, ![p].turn = entry[e].turn]
    BY <1>4 DEF FindEntry
  <2>2. PICK r : r = [q EXCEPT !.at = "findTurn", !.entry = e, !.turn = entry[e].turn]
    OBVIOUS
  <2>3. req' = [req EXCEPT ![p] = r]
    BY <2>1, <2>2, StandsNow DEF TypeOK
  <2>4. r.at = "findTurn" /\ r.court = q.court /\ r.entry = e /\ r.turn = entry[e].turn
    BY <2>2, StandsNow DEF RequestRow
  <2>5. Found(r, settled)
    BY <1>1, <2>1, <2>4 DEF Found, Snapshot
  <2>. QED
    BY <1>1, <1>2, <2>3, <2>4, <2>5, ReadsKeep DEF GoesOn, Stands
<1>. QED
  BY <1>3, <1>4

LEMMA FindTurnAlone ==
  ASSUME AloneInv, NEW p \in Requests, FindTurn(p)
  PROVE  GoesOn(p) \/ Answered(p)
<1>. DEFINE q == req[p]
<1>1. Snapshot = settled /\ Found(q, settled)
  BY StandsNow DEF Stands, FindTurn, At
<1>2. UNCHANGED rows
  BY DEF FindTurn
<1>3. CASE Done(p)
  BY <1>1, <1>2, <1>3, GivesUp
<1>4. CASE ~Done(p)
  <2>1. turn[q.turn].status # "COMPLETED" /\ Goto(p, "undo")
    BY <1>4 DEF FindTurn
  <2>2. PICK r : req' = [req EXCEPT ![p] = r] /\ r.at = "undo" /\ SameLocals(r, q)
    BY <2>1, StandsNow, GotoRow
  <2>3. Found(r, settled) /\ settled.turn[r.turn].status # "COMPLETED"
    BY <1>1, <2>1, <2>2 DEF Found, SameLocals, Snapshot
  <2>. QED
    BY <1>1, <1>2, <2>2, <2>3, ReadsKeep DEF GoesOn, Stands
<1>. QED
  BY <1>3, <1>4

\* The entry e is back in the queue, and its turn t on the court c is over.
Unassigned(s, w, e, t, c) ==
  /\ w.game = [s.game EXCEPT ![t] = IF @ = "IN_PROGRESS" THEN "CANCELLED" ELSE @]
  /\ w.turn = [s.turn EXCEPT ![t].status = "CANCELLED"]
  /\ w.entry = [s.entry EXCEPT ![e] =
       [status |-> "QUEUED", turn |-> None, court |-> None, players |-> @.players]]
  /\ w.court = IF ActiveIn(s, c) \ {t} = {} THEN [s.court EXCEPT ![c] = "EMPTY"] ELSE s.court

(* What unassignEntryByCourt did is what TurnBoard's UnassignEntry does.   *)
LEMMA UnassignsEntry ==
  ASSUME NEW e \in Entries, NEW t, NEW c \in Courts, InUse(settled),
         settled.entry[e].status = "MATERIALIZED",
         settled.entry[e].court = c, settled.entry[e].turn = t,
         settled.turn[t].status # "COMPLETED",
         Unassigned(settled, settled', e, t, c)
  PROVE  BoardDoes
<1>1. Board!Active(c) = ActiveIn(settled, c) /\ settled.court[c] # "MAINTENANCE"
  BY RowsThen DEF InUse
<1>2. Board!UnassignEntry(e)
  BY <1>1 DEF Unassigned, Board!UnassignEntry, Board!attendance
<1>. QED
  BY <1>2 DEF BoardDoes

LEMMA UndoAssignmentAlone ==
  ASSUME AloneInv, NEW p \in Requests, UndoAssignment(p)
  PROVE  GoesOn(p) \/ Answered(p)
<1>. DEFINE q == req[p]
<1>1. Snapshot = settled /\ Found(q, settled) /\ settled.turn[q.turn].status # "COMPLETED"
  BY StandsNow DEF Stands, UndoAssignment, At
<1>2. req' = [req EXCEPT ![p] = Idle]
  BY DEF UndoAssignment, Done, Goto
<1>3. PICK e, t, c : e = q.entry /\ t = q.turn /\ c = q.court
  OBVIOUS
<1>4. settled.turn = turn /\ settled.game = game /\ settled.court = court /\ settled.entry = entry
  BY <1>1 DEF Snapshot
<1>5. Active(c) = ActiveIn(settled, c)
  BY <1>1, RowsNow
<1>6. Unassigned(settled, Snapshot', e, t, c)
  BY <1>3, <1>4, <1>5 DEF UndoAssignment, Unassigned, Snapshot
<1>7. ASSUME settled' = Snapshot' PROVE BoardDoes
  <2>1. /\ e \in Entries /\ c \in Courts /\ settled.entry[e].status = "MATERIALIZED"
        /\ settled.entry[e].court = c /\ settled.entry[e].turn = t
        /\ settled.turn[t].status # "COMPLETED"
    BY <1>1, <1>3 DEF Found
  <2>. QED
    BY <1>6, <1>7, <2>1, UnassignsEntry, StandsNow
<1>. QED
  BY <1>2, <1>7 DEF Answered

(* replacePlayerInRunningTurn: three reads and a transaction.              *)
LEMMA LoadPlayersAlone ==
  ASSUME AloneInv, NEW p \in Requests, LoadPlayers(p)
  PROVE  GoesOn(p) \/ Answered(p)
<1>. DEFINE q == req[p]
<1>1. Snapshot = settled /\ Swaps(q) /\ q.entry = None
  BY StandsNow DEF Stands, LoadPlayers, At
<1>2. UNCHANGED rows
  BY DEF LoadPlayers
<1>3. CASE Done(p)
  BY <1>1, <1>2, <1>3, GivesUp
<1>4. CASE ~Done(p)
  <2>1. /\ turn[q.turn].status = "PLAYING" /\ q.out \in turn[q.turn].players
        /\ q.in \notin turn[q.turn].players
        /\ req' = [req EXCEPT ![p].at = "inElsewhere", ![p].court = turn[q.turn].court]
    BY <1>4 DEF LoadPlayers
  <2>2. PICK r : r = [q EXCEPT !.at = "inElsewhere", !.court = turn[q.turn].court]
    OBVIOUS
  <2>3. req' = [req EXCEPT ![p] = r]
    BY <2>1, <2>2, StandsNow DEF TypeOK
  <2>4. /\ r.at = "inElsewhere" /\ r.court = turn[q.turn].court /\ r.turn = q.turn
        /\ r.out = q.out /\ r.in = q.in /\ r.entry = q.entry
    BY <2>2, StandsNow DEF RequestRow
  <2>5. Swappable(r, settled)
    BY <1>1, <2>1, <2>4 DEF Swappable, Swaps, Snapshot
  <2>. QED
    BY <1>1, <1>2, <2>3, <2>4, <2>5, ReadsKeep DEF GoesOn, Stands
<1>. QED
  BY <1>3, <1>4

LEMMA InElsewhereAlone ==
  ASSUME AloneInv, NEW p \in Requests, InElsewhere(p)
  PROVE  GoesOn(p) \/ Answered(p)
<1>. DEFINE q == req[p]
<1>1. Snapshot = settled /\ Swappable(q, settled) /\ q.entry = None
  BY StandsNow DEF Stands, InElsewhere, At
<1>2. UNCHANGED rows
  BY DEF InElsewhere
<1>3. CASE Done(p)
  BY <1>1, <1>2, <1>3, GivesUp
<1>4. CASE ~Done(p)
  <2>1. ~PlaysElsewhere({q.in}, q.court) /\ Goto(p, "readEntry")
    BY <1>4 DEF InElsewhere
  <2>2. PICK r : req' = [req EXCEPT ![p] = r] /\ r.at = "readEntry" /\ SameLocals(r, q)
    BY <2>1, StandsNow, GotoRow
  <2>3. Swappable(r, settled) /\ r.entry = None /\ ~ElsewhereIn(settled, {r.in}, r.court)
    BY <1>1, <2>1, <2>2, RowsNow DEF Swappable, Swaps, SameLocals
  <2>. QED
    BY <1>1, <1>2, <2>2, <2>3, ReadsKeep DEF GoesOn, Stands
<1>. QED
  BY <1>3, <1>4

LEMMA ReadTurnEntryAlone ==
  ASSUME AloneInv, NEW p \in Requests, ReadTurnEntry(p)
  PROVE  GoesOn(p) \/ Answered(p)
<1>. DEFINE q == req[p]
            E == {e \in Entries : entry[e].turn = q.turn}
<1>1. Snapshot = settled /\ Swappable(q, settled) /\ q.entry = None
      /\ ~ElsewhereIn(settled, {q.in}, q.court)
  BY StandsNow DEF Stands, ReadTurnEntry, At
<1>2. UNCHANGED rows /\ settled.entry = entry
  BY <1>1 DEF ReadTurnEntry, Snapshot
<1>3. CASE E = {}
  <2>1. PICK r : req' = [req EXCEPT ![p] = r] /\ r.at = "swap" /\ SameLocals(r, q)
    BY <1>3, StandsNow, GotoRow DEF ReadTurnEntry
  <2>2. Swappable(r, settled) /\ ~ElsewhereIn(settled, {r.in}, r.court) /\ EntryRead(r, settled)
    BY <1>1, <1>2, <1>3, <2>1 DEF Swappable, Swaps, SameLocals, EntryRead
  <2>. QED
    BY <1>1, <1>2, <2>1, <2>2, ReadsKeep DEF GoesOn, Stands
<1>4. CASE E # {}
  <2>1. PICK e \in E : req' = [req EXCEPT ![p].at = "swap", ![p].entry = e,
                                          ![p].players = entry[e].players]
    BY <1>4 DEF ReadTurnEntry
  <2>2. PICK r : r = [q EXCEPT !.at = "swap", !.entry = e, !.players = entry[e].players]
    OBVIOUS
  <2>3. req' = [req EXCEPT ![p] = r]
    BY <2>1, <2>2, StandsNow DEF TypeOK
  <2>4. /\ r.at = "swap" /\ r.entry = e /\ r.players = entry[e].players
        /\ r.court = q.court /\ r.turn = q.turn /\ r.out = q.out /\ r.in = q.in
    BY <2>2, StandsNow DEF RequestRow
  <2>5. Swappable(r, settled) /\ ~ElsewhereIn(settled, {r.in}, r.court) /\ EntryRead(r, settled)
    BY <1>1, <1>2, <2>1, <2>4 DEF Swappable, Swaps, EntryRead
  <2>. QED
    BY <1>1, <1>2, <2>3, <2>4, <2>5, ReadsKeep DEF GoesOn, Stands
<1>. QED
  BY <1>3, <1>4

\* y plays for x in the turn t, and stands for x in its board entry.
Swapped(s, w, t, x, y) ==
  /\ w.turn = [s.turn EXCEPT ![t].players = (@ \ {x}) \cup {y}]
  /\ w.entry = [e \in Entries |->
       IF s.entry[e].turn = t /\ x \in s.entry[e].players
       THEN [s.entry[e] EXCEPT !.players = (@ \ {x}) \cup {y}] ELSE s.entry[e]]
  /\ w.game = s.game /\ w.court = s.court

(* What replacePlayerInRunningTurn did is what ReplacePlayer does.         *)
LEMMA ReplacesPlayer ==
  ASSUME NEW t \in Turns, NEW x \in Players, NEW y \in Players,
         settled.turn[t].status = "PLAYING",
         x \in settled.turn[t].players, y \notin settled.turn[t].players,
         ~ElsewhereIn(settled, {y}, settled.turn[t].court),
         Swapped(settled, settled', t, x, y)
  PROVE  BoardDoes
<1>1. Board!ReplacePlayer(t, x, y)
  BY RowsThen DEF Swapped, Board!ReplacePlayer, Board!attendance
<1>. QED
  BY <1>1 DEF BoardDoes

LEMMA SwapPlayerAlone ==
  ASSUME AloneInv, NEW p \in Requests, SwapPlayer(p)
  PROVE  GoesOn(p) \/ Answered(p)
<1>. DEFINE q == req[p]
<1>1. Snapshot = settled /\ Swappable(q, settled) /\ EntryRead(q, settled)
      /\ ~ElsewhereIn(settled, {q.in}, q.court)
  BY StandsNow DEF Stands, SwapPlayer, At
<1>2. req' = [req EXCEPT ![p] = Idle]
  BY DEF SwapPlayer, Done, Goto
<1>3. PICK t, x, y, f, G : t = q.turn /\ x = q.out /\ y = q.in /\ f = q.entry /\ G = q.players
  OBVIOUS
<1>4. settled.turn = turn /\ settled.game = game /\ settled.court = court /\ settled.entry = entry
  BY <1>1 DEF Snapshot
<1>5. /\ t \in Turns /\ x \in Players /\ y \in Players /\ settled.turn[t].status = "PLAYING"
      /\ settled.turn[t].court = q.court
      /\ x \in settled.turn[t].players /\ y \notin settled.turn[t].players
  BY <1>1, <1>3 DEF Swappable, Swaps
<1>6. settled.turn \in [Turns -> TurnRow] /\ settled.entry \in [Entries -> EntryRow]
  BY StandsNow DEF Agreed
<1>7. /\ turn' = [turn EXCEPT ![t].players = (turn[t].players \ {x}) \cup {y}]
      /\ entry' = IF f = None THEN entry
                  ELSE [entry EXCEPT ![f].players = IF x \in G THEN (G \ {x}) \cup {y} ELSE G]
      /\ UNCHANGED <<game, court>>
  BY <1>3, <1>4, <1>5 DEF SwapPlayer
<1>8. turn' = [settled.turn EXCEPT ![t].players = (@ \ {x}) \cup {y}]
  BY <1>4, <1>5, <1>6, <1>7
<1>9. entry' = [e \in Entries |->
        IF settled.entry[e].turn = t /\ x \in settled.entry[e].players
        THEN [settled.entry[e] EXCEPT !.players = (@ \ {x}) \cup {y}] ELSE settled.entry[e]]
  <2>1. CASE f = None /\ \A e \in Entries : settled.entry[e].turn # t
    BY <1>4, <1>6, <1>7, <2>1
  <2>2. CASE f \in Entries /\ settled.entry[f].turn = t /\ settled.entry[f].players = G
    <3>1. f # None /\ t # None
      BY <1>5, <2>2, TurnRacesAssumption
    <3>2. \A e \in Entries : settled.entry[e].turn = t => e = f
      BY <2>2, <3>1, StandsNow DEF Agreed
    <3>3. entry' = [settled.entry EXCEPT ![f].players =
                      IF x \in G THEN (G \ {x}) \cup {y} ELSE G]
      BY <1>4, <1>7, <3>1
    <3>. QED
      BY <1>6, <2>2, <3>2, <3>3 DEF EntryRow
  <2>. QED
    BY <1>1, <1>3, <2>1, <2>2 DEF EntryRead
<1>10. Swapped(settled, Snapshot', t, x, y)
  BY <1>4, <1>7, <1>8, <1>9 DEF Swapped, Snapshot
<1>11. ASSUME settled' = Snapshot' PROVE BoardDoes
  <2>1. ~ElsewhereIn(settled, {y}, settled.turn[t].court)
    BY <1>1, <1>3, <1>5
  <2>. QED
    BY <1>5, <1>10, <1>11, <2>1, ReplacesPlayer
<1>. QED
  BY <1>2, <1>11 DEF Answered

(* Whatever call it is: the request goes on, or it is answered and has     *)
(* done an action of TurnBoard or nothing.                                 *)
LEMMA StepAlone ==
  ASSUME AloneInv, NEW p \in Requests, Step(p)
  PROVE  GoesOn(p) \/ Answered(p)
BY CheckFreeAlone, ReadEntryAlone, CheckElsewhereAlone, CountTurnsAlone, CreateTurnAlone,
   StartTurnAlone, CreateGameAlone, MarkInUseAlone, MarkEntryAlone, LoadTurnAlone,
   EndGameAlone, EndTurnAlone, EndEntryAlone, ReadQueueAlone, RenumberAlone,
   LeaveEmptyAlone, ListWaitingAlone, FindPlayingAlone, RecountAlone, ReleaseAlone,
   LoadWaitingAlone, CancelListedAlone, CancelEntryAlone, ListRemainingAlone,
   FindEntryAlone, FindTurnAlone, UndoAssignmentAlone, LoadPlayersAlone,
   InElsewhereAlone, ReadTurnEntryAlone, SwapPlayerAlone, Zenon DEF Step

(* A request that comes in has read nothing yet.                           *)
LEMMA MakeAlone ==
  ASSUME AloneInv, NEW p \in Requests, Make(p)
  PROVE  GoesOn(p)
<1>1. Snapshot = settled /\ Snapshot' = Snapshot
  BY StandsNow, ReadsKeep DEF Stands, Make, At
<1>2. ASSUME NEW r, Send(p, r), r.at # "idle", Stands(r, settled, settled)
      PROVE  GoesOn(p)
  BY <1>1, <1>2 DEF Send, GoesOn
<1>3. ASSUME NEW e \in Entries, NEW c \in Courts,
             Send(p, [Fresh("assign", "free") EXCEPT !.entry = e, !.court = c])
      PROVE  GoesOn(p)
  <2>1. PICK r : r = [Fresh("assign", "free") EXCEPT !.entry = e, !.court = c]
    OBVIOUS
  <2>2. r.at = "free" /\ r.kind = "assign" /\ r.court = c /\ r.entry = e
    BY <2>1 DEF Fresh, Idle
  <2>. QED
    BY <1>2, <1>3, <2>1, <2>2 DEF Stands
<1>4. ASSUME NEW G \in Groups, NEW c \in Courts, Cardinality(G) \in 2..4,
             Send(p, [Fresh("register", "elsewhere") EXCEPT !.players = G, !.court = c])
      PROVE  GoesOn(p)
  <2>1. PICK r : r = [Fresh("register", "elsewhere") EXCEPT !.players = G, !.court = c]
    OBVIOUS
  <2>2. r.at = "elsewhere" /\ r.kind = "register" /\ r.court = c /\ r.players = G
    BY <2>1 DEF Fresh, Idle
  <2>3. G \subseteq Players
    BY TurnRacesAssumption
  <2>4. Registering(r, settled)
    BY <1>4, <2>2, <2>3 DEF Registering
  <2>. QED
    BY <1>2, <1>4, <2>1, <2>2, <2>4 DEF Stands
<1>5. ASSUME NEW c \in Courts, Send(p, [Fresh("unassign", "findEntry") EXCEPT !.court = c])
      PROVE  GoesOn(p)
  <2>1. PICK r : r = [Fresh("unassign", "findEntry") EXCEPT !.court = c]
    OBVIOUS
  <2>2. r.at = "findEntry" /\ r.court = c
    BY <2>1 DEF Fresh, Idle
  <2>. QED
    BY <1>2, <1>5, <2>1, <2>2 DEF Stands
<1>6. ASSUME NEW t \in Turns, Send(p, [Fresh("complete", "load") EXCEPT !.turn = t])
      PROVE  GoesOn(p)
  <2>1. PICK r : r = [Fresh("complete", "load") EXCEPT !.turn = t]
    OBVIOUS
  <2>2. r.at = "load" /\ r.kind = "complete" /\ r.turn = t
    BY <2>1 DEF Fresh, Idle
  <2>. QED
    BY <1>2, <1>6, <2>1, <2>2 DEF Stands
<1>7. ASSUME NEW t \in Turns, Send(p, [Fresh("cancel", "loadWaiting") EXCEPT !.turn = t])
      PROVE  GoesOn(p)
  <2>1. PICK r : r = [Fresh("cancel", "loadWaiting") EXCEPT !.turn = t]
    OBVIOUS
  <2>2. r.at = "loadWaiting" /\ r.kind = "cancel" /\ r.turn = t
    BY <2>1 DEF Fresh, Idle
  <2>. QED
    BY <1>2, <1>7, <2>1, <2>2 DEF Stands
<1>8. ASSUME NEW t \in Turns, NEW x \in turn[t].players, NEW y \in Players \ turn[t].players,
             Send(p, [Fresh("replace", "loadPlayers") EXCEPT !.turn = t, !.out = x, !.in = y])
      PROVE  GoesOn(p)
  <2>1. PICK r : r = [Fresh("replace", "loadPlayers") EXCEPT !.turn = t, !.out = x, !.in = y]
    OBVIOUS
  <2>2. r.at = "loadPlayers" /\ r.turn = t /\ r.out = x /\ r.in = y /\ r.entry = None
    BY <2>1 DEF Fresh, Idle
  <2>3. x \in Players
    BY StandsNow DEF TypeOK, RowsTypeOK, TurnRow
  <2>4. Swaps(r)
    BY <2>2, <2>3 DEF Swaps
  <2>. QED
    BY <1>2, <1>8, <2>1, <2>2, <2>4 DEF Stands
<1>. QED
  BY <1>3, <1>4, <1>5, <1>6, <1>7, <1>8 DEF Make

LEMMA MakeClearAlone ==
  ASSUME AloneInv, NEW p \in Requests, NEW c \in Courts, MakeClear(p, c)
  PROVE  GoesOn(p)
<1>1. Snapshot = settled /\ Snapshot' = Snapshot
  BY StandsNow, ReadsKeep DEF Stands, MakeClear, At
<1>2. PICK r : r = [Fresh("clear", "waiting") EXCEPT !.court = c]
  OBVIOUS
<1>3. r.at = "waiting" /\ r.kind = "clear" /\ r.court = c
  BY <1>2 DEF Fresh, Idle
<1>4. req' = [req EXCEPT ![p] = r]
  BY <1>2 DEF MakeClear
<1>. QED
  BY <1>1, <1>3, <1>4 DEF GoesOn, Stands, Clears

(* addEntry is one call: the request has no handler that goes on.          *)
LEMMA AddEntryAlone ==
  ASSUME AloneInv, NEW p \in Requests, NEW G \in Groups, AddEntry(p, G)
  PROVE  /\ req' = req /\ Snapshot = settled
         /\ settled' = Snapshot' => BoardDoes
<1>1. Snapshot = settled /\ req' = req
  BY StandsNow DEF Stands, AddEntry, At
<1>2. ASSUME settled' = Snapshot' PROVE Board!AddEntry(G)
  <2>1. PICK e \in Entries :
          /\ entry[e].status = "NONE"
          /\ entry' = [entry EXCEPT ![e] =
                        [status |-> "QUEUED", turn |-> None, court |-> None, players |-> G]]
    BY DEF AddEntry
  <2>2. /\ settled.turn = turn /\ settled.game = game /\ settled.court = court
        /\ settled.entry = entry
    BY <1>1 DEF Snapshot
  <2>3. /\ settled'.turn = settled.turn /\ settled'.game = settled.game
        /\ settled'.court = settled.court /\ settled'.entry = entry'
    BY <1>2, <2>2 DEF Snapshot, AddEntry
  <2>4. Board!Cardinality(G) \in 1..4
    BY SameCount DEF AddEntry
  <2>5. /\ settled.entry[e].status = "NONE"
        /\ settled'.entry = [settled.entry EXCEPT ![e] =
                        [status |-> "QUEUED", turn |-> None, court |-> None, players |-> G]]
    BY <2>1, <2>2, <2>3
  <2>. QED
    BY <2>3, <2>4, <2>5 DEF Board!AddEntry, Board!attendance
<1>. QED
  BY <1>1, <1>2 DEF BoardDoes

-----------------------------------------------------------------------------
(* From answer to answer                                                   *)

(* Operator by operator, the two instances of TurnBoard are the same.      *)
LEMMA SameQueries ==
  /\ \A c : Proved!Waiting(c) = Board!Waiting(c) /\ Proved!Playing(c) = Board!Playing(c)
            /\ Proved!Active(c) = Board!Active(c)
  /\ \A G, c : Proved!PlaysElsewhere(G, c) <=> Board!PlaysElsewhere(G, c)
  /\ \A en, S, s : Proved!CloseEntries(en, S, s) = Board!CloseEntries(en, S, s)
<1>1. \A c : Proved!Waiting(c) = Board!Waiting(c) /\ Proved!Playing(c) = Board!Playing(c)
            /\ Proved!Active(c) = Board!Active(c)
  BY Zenon DEF Proved!Waiting, Proved!Playing, Proved!Active, Board!Waiting, Board!Playing, Board!Active
<1>2. \A G, c : Proved!PlaysElsewhere(G, c) <=> Board!PlaysElsewhere(G, c)
  BY Zenon DEF Proved!PlaysElsewhere, Board!PlaysElsewhere
<1>3. \A en, S, s : Proved!CloseEntries(en, S, s) = Board!CloseEntries(en, S, s)
  BY Zenon DEF Proved!CloseEntries, Board!CloseEntries
<1>. QED
  BY <1>1, <1>2, <1>3

LEMMA SameNumberings ==
  ASSUME NEW S
  PROVE  Proved!Numberings(S) = Board!Numberings(S)
BY SameCount, Zenon DEF Proved!Numberings, Board!Numberings

LEMMA SameChecks ==
  ASSUME NEW c, NEW G
  PROVE  Proved!CanRegister(c, G) <=> Board!CanRegister(c, G)
BY SameCount, SameQueries, Zenon DEF Proved!CanRegister, Board!CanRegister

LEMMA SameCreate ==
  ASSUME NEW t, NEW c, NEW G
  PROVE  Proved!CreateTurn(t, c, G) <=> Board!CreateTurn(t, c, G)
BY SameCount, SameQueries, Zenon DEF Proved!CreateTurn, Board!CreateTurn

LEMMA SameFinish ==
  ASSUME NEW t, NEW W, NEW r
  PROVE  Proved!FinishAndPromote(t, W, r) <=> Board!FinishAndPromote(t, W, r)
BY Zenon DEF Proved!FinishAndPromote, Board!FinishAndPromote

(* What the instance of the board in TurnAlone does is what the proved one does. *)
LEMMA SameSteps ==
  /\ \A c, G : Board!RegisterTurn(c, G) => Proved!RegisterTurn(c, G)
  /\ \A t : Board!CompleteTurn(t) => Proved!CompleteTurn(t)
  /\ \A t : Board!CancelTurn(t) => Proved!CancelTurn(t)
  /\ \A c : Board!ClearCourt(c) => Proved!ClearCourt(c)
  /\ \A t, x, y : Board!ReplacePlayer(t, x, y) => Proved!ReplacePlayer(t, x, y)
  /\ \A G : Board!AddEntry(G) => Proved!AddEntry(G)
  /\ \A e, c : Board!PushEntry(e, c) => Proved!PushEntry(e, c)
  /\ \A e : Board!UnassignEntry(e) => Proved!UnassignEntry(e)
<1>1. Board!attendance = Proved!attendance
  BY DEF Board!attendance, Proved!attendance
<1>2. \A c, G : Board!RegisterTurn(c, G) => Proved!RegisterTurn(c, G)
  BY <1>1, SameChecks, SameCreate, Zenon DEF Proved!RegisterTurn, Board!RegisterTurn, Proved!attendance, Board!attendance
<1>3. \A t : Board!CompleteTurn(t) => Proved!CompleteTurn(t)
  BY <1>1, SameQueries, SameNumberings, SameFinish, Zenon DEF Proved!CompleteTurn, Board!CompleteTurn, Proved!attendance, Board!attendance
<1>4. \A t : Board!CancelTurn(t) => Proved!CancelTurn(t)
  BY <1>1, SameQueries, SameNumberings, Zenon DEF Proved!CancelTurn, Board!CancelTurn, Proved!attendance, Board!attendance
<1>5. \A c : Board!ClearCourt(c) => Proved!ClearCourt(c)
  BY <1>1, SameQueries, Zenon DEF Proved!ClearCourt, Board!ClearCourt, Proved!attendance, Board!attendance
<1>6. \A t, x, y : Board!ReplacePlayer(t, x, y) => Proved!ReplacePlayer(t, x, y)
  BY <1>1, SameQueries, Zenon DEF Proved!ReplacePlayer, Board!ReplacePlayer, Proved!attendance, Board!attendance
<1>7. \A G : Board!AddEntry(G) => Proved!AddEntry(G)
  BY <1>1, SameCount, Zenon DEF Proved!AddEntry, Board!AddEntry, Proved!attendance, Board!attendance
<1>8. \A e, c : Board!PushEntry(e, c) => Proved!PushEntry(e, c)
  BY <1>1, SameChecks, SameCreate, Zenon DEF Proved!PushEntry, Board!PushEntry, Proved!attendance, Board!attendance
<1>9. \A e : Board!UnassignEntry(e) => Proved!UnassignEntry(e)
  BY <1>1, SameQueries, Zenon DEF Proved!UnassignEntry, Board!UnassignEntry, Proved!attendance, Board!attendance
<1>. QED
  BY <1>2, <1>3, <1>4, <1>5, <1>6, <1>7, <1>8, <1>9

(* What TurnBoardProofs assumes of its constants.                          *)
LEMMA BoardAssumed == Proved!TurnBoardAssumption
<1>1. Proved!IsFiniteSet(Turns)
  BY TurnRacesAssumption, Zenon DEF Proved!IsFiniteSet, IsFiniteSet
<1>. QED
  BY <1>1, TurnRacesAssumption DEF Proved!TurnBoardAssumption

(* These actions are steps of TurnBoard.                                   *)
LEMMA BoardSteps ==
  ASSUME BoardDoes
  PROVE  /\ Board!TurnStep \/ Board!BoardStep
         /\ Proved!Next
<1>1. Board!TurnStep \/ Board!BoardStep
  BY Zenon DEF BoardDoes, Board!TurnStep, Board!BoardStep
<1>2. Proved!TurnStep \/ Proved!BoardStep
  BY SameSteps, Zenon DEF BoardDoes, Proved!TurnStep, Proved!BoardStep
<1>. QED
  BY <1>1, <1>2 DEF Proved!Next

(* So they keep its invariant.                                             *)
LEMMA BoardStepInv ==
  ASSUME Proved!IInv, settled' = settled \/ BoardDoes
  PROVE  Proved!IInv'
<1>1. CASE BoardDoes
  BY <1>1, BoardAssumed, BoardSteps, Proved!NextInv
<1>2. CASE settled' = settled
  <2>1. UNCHANGED Proved!vars
    BY <1>2 DEF Proved!vars
  <2>. QED
    BY <2>1, BoardAssumed, Proved!NextInv
<1>. QED
  BY <1>1, <1>2

(* The invariant of the board is what the requests rely on.                *)
LEMMA BoardAgrees ==
  ASSUME Proved!IInv
  PROVE  Agreed(settled)
<1>1. /\ Proved!TypeOK /\ Proved!GameMatchesTurn /\ Proved!RowsLinked
      /\ Proved!EntryMatchesTurn
  BY DEF Proved!IInv
<1>2. /\ settled.turn \in [Turns -> TurnRow] /\ settled.game \in [Turns -> GameStatus]
      /\ settled.court \in [Courts -> CourtStatus] /\ settled.entry \in [Entries -> EntryRow]
  BY <1>1 DEF Proved!TypeOK, Proved!RowsTypeOK, Proved!TurnRow, Proved!EntryRow,
              Proved!GameStatus, Proved!CourtStatus, Proved!TurnStatus, Proved!EntryStatus,
              TurnRow, EntryRow, GameStatus, CourtStatus, TurnStatus, EntryStatus
<1>3. \A t \in Turns : /\ settled.turn[t].status \in {"NONE", "WAITING"} => settled.game[t] = "NONE"
                       /\ settled.turn[t].status = "PLAYING" => settled.game[t] # "NONE"
  BY <1>1, <1>2 DEF Proved!GameMatchesTurn, GameStatus
<1>4. \A t \in Turns : settled.turn[t].status # "NONE" => settled.turn[t].court \in Courts
  BY <1>1 DEF Proved!RowsLinked
<1>5. \A e \in Entries : settled.entry[e].status = "MATERIALIZED" => settled.entry[e].turn \in Turns
  BY <1>1 DEF Proved!EntryMatchesTurn
<1>6. \A e, f \in Entries :
        settled.entry[e].turn # None /\ settled.entry[e].turn = settled.entry[f].turn => e = f
  BY <1>1 DEF Proved!RowsLinked
<1>. QED
  BY <1>2, <1>3, <1>4, <1>5, <1>6 DEF Agreed

(* None of these actions takes a court out of use.                         *)
LEMMA StaysInUse ==
  ASSUME Agreed(settled), InUse(settled), settled' = settled \/ BoardDoes
  PROVE  InUse(settled')
<1>. DEFINE ct == settled.court
            Kept == \E c, v : v \in {"EMPTY", "IN_USE"} /\ settled'.court = [ct EXCEPT ![c] = v]
<1>1. ct \in [Courts -> CourtStatus]
  BY DEF Agreed
<1>2. CASE settled'.court = ct
  BY <1>2 DEF InUse
<1>3. CASE Kept
  BY <1>1, <1>3 DEF InUse
<1>4. ASSUME NEW t, NEW c, NEW G, Board!CreateTurn(t, c, G) PROVE settled'.court = ct \/ Kept
  BY <1>4 DEF Board!CreateTurn
<1>5. ASSUME NEW t, Board!CompleteTurn(t) PROVE Kept
  BY <1>5 DEF Board!CompleteTurn
<1>6. ASSUME NEW c, Board!ClearCourt(c) PROVE settled'.court = ct \/ Kept
  BY <1>6 DEF Board!ClearCourt
<1>7. ASSUME NEW e, Board!UnassignEntry(e) PROVE settled'.court = ct \/ Kept
  BY <1>7 DEF Board!UnassignEntry
<1>8. CASE settled' = settled
  BY <1>2, <1>8
<1>9. CASE BoardDoes
  <2>1. ASSUME NEW c, NEW G, Board!RegisterTurn(c, G) PROVE settled'.court = ct \/ Kept
    BY <2>1, <1>4 DEF Board!RegisterTurn
  <2>2. ASSUME NEW t, Board!CancelTurn(t) PROVE settled'.court = ct
    BY <2>2 DEF Board!CancelTurn
  <2>3. ASSUME NEW t, NEW x, NEW y, Board!ReplacePlayer(t, x, y) PROVE settled'.court = ct
    BY <2>3 DEF Board!ReplacePlayer
  <2>4. ASSUME NEW G, Board!AddEntry(G) PROVE settled'.court = ct
    BY <2>4 DEF Board!AddEntry
  <2>5. ASSUME NEW e, NEW c, Board!PushEntry(e, c) PROVE settled'.court = ct \/ Kept
    BY <2>5, <1>4 DEF Board!PushEntry
  <2>. HIDE DEF ct, Kept
  <2>6. settled'.court = ct \/ Kept
    BY <1>5, <1>6, <1>7, <1>9, <2>1, <2>2, <2>3, <2>4, <2>5, Zenon DEF BoardDoes
  <2>. QED
    BY <1>2, <1>3, <2>6
<1>. QED
  BY <1>8, <1>9

-----------------------------------------------------------------------------
(* One request at a time implements the board                              *)

OneAtATime == MaxCrashes = 0 /\ \A p, q \in Requests : p = q

\* The inductive invariant: the rows of the last answer satisfy the board's, and
\* the request under way stands where its calls so far have brought it.
AInv ==
  /\ RacesInv /\ Proved!IInv /\ InUse(settled)
  /\ \A p \in Requests : Stands(req[p], settled, Snapshot)

(* The invariant says all that the calls rely on.                          *)
LEMMA AInvAlone == AInv => AloneInv
BY BoardAgrees DEF AInv, AloneInv

(* A request that is not under way has done nothing.                       *)
LEMMA IdleStands ==
  ASSUME NEW r, r.at = "idle", NEW s
  PROVE  Stands(r, s, s)
BY DEF Stands

(* A new session: the board's invariant holds of rows that are not there.  *)
LEMMA AloneInitInv == AloneInit => AInv
<1>. SUFFICES ASSUME AloneInit PROVE AInv
  OBVIOUS
<1>1. Init /\ settled = Snapshot
  BY DEF AloneInit
<1>2. RacesInv
  BY <1>1, RacesInit
<1>3. /\ settled.turn = [t \in Turns |-> NoTurnRow]
      /\ settled.game = [t \in Turns |-> "NONE"]
      /\ settled.court = [c \in Courts |-> "EMPTY"]
      /\ settled.entry = [e \in Entries |-> NoEntryRow]
  BY <1>1 DEF Init, RowsInit, Snapshot
<1>4. /\ \A t \in Turns : settled.turn[t].status = "NONE" /\ settled.game[t] = "NONE"
      /\ \A e \in Entries : settled.entry[e].status = "NONE" /\ settled.entry[e].turn = None
  BY <1>3 DEF NoTurnRow, NoEntryRow
<1>5. Proved!TypeOK
  BY <1>3
  DEF Proved!TypeOK, Proved!RowsTypeOK, Proved!TurnRow, Proved!EntryRow, Proved!GameStatus,
      Proved!CourtStatus, Proved!TurnStatus, Proved!EntryStatus, NoTurnRow, NoEntryRow
<1>6. Proved!GameMatchesTurn /\ Proved!OnePlayingPerCourt /\ Proved!RowsLinked
      /\ Proved!EntryMatchesTurn /\ Proved!NoGhostWhileActive /\ Proved!WaitingArePresent
  BY <1>4
  DEF Proved!GameMatchesTurn, Proved!OnePlayingPerCourt, Proved!RowsLinked,
      Proved!EntryMatchesTurn, Proved!NoGhostWhileActive, Proved!GhostFree,
      Proved!WaitingArePresent
<1>7. Proved!WithinMaxTurns
  <2>1. \A c \in Courts : Proved!Active(c) = {}
    BY <1>4 DEF Proved!Active, Proved!Waiting, Proved!Playing
  <2>2. \A c \in Courts : Proved!Cardinality(Proved!Active(c)) = 0
    BY <2>1, SameCount, FS_EmptySet
  <2>3. Proved!CountWithinMax
    BY <2>2, TurnRacesAssumption DEF Proved!CountWithinMax
  <2>4. Proved!PositionsWithinMax
    BY <1>4 DEF Proved!PositionsWithinMax
  <2>. QED
    BY <2>3, <2>4 DEF Proved!WithinMaxTurns
<1>8. InUse(settled)
  BY <1>3 DEF InUse
<1>9. \A p \in Requests : Stands(req[p], settled, Snapshot)
  <2>. SUFFICES ASSUME NEW p \in Requests PROVE Stands(req[p], settled, Snapshot)
    OBVIOUS
  <2>1. req[p].at = "idle"
    BY <1>1 DEF Init, Idle
  <2>. QED
    BY <1>1, <2>1, IdleStands
<1>. QED
  BY <1>2, <1>5, <1>6, <1>7, <1>8, <1>9 DEF AInv, Proved!IInv

(* The rows settle when the one request is answered, and only then.        *)
LEMMA SettlesOnce ==
  ASSUME OneAtATime, TypeOK, NEW p \in Requests
  PROVE  /\ GoesOn(p) => ~Settled'
         /\ Answered(p) => Settled' /\ \A q \in Requests : req'[q].at = "idle"
<1>1. ASSUME GoesOn(p) PROVE ~Settled'
  <2>1. PICK r : req' = [req EXCEPT ![p] = r] /\ r.at # "idle"
    BY <1>1 DEF GoesOn
  <2>2. req'[p].at # "idle"
    BY <2>1 DEF TypeOK
  <2>. QED
    BY <2>2 DEF Settled, At
<1>2. ASSUME Answered(p) PROVE Settled' /\ \A q \in Requests : req'[q].at = "idle"
  <2>1. req'[p] = Idle
    BY <1>2 DEF Answered, TypeOK
  <2>2. \A q \in Requests : req'[q].at = "idle"
    BY <2>1 DEF OneAtATime, Idle
  <2>. QED
    BY <2>2 DEF Settled, At
<1>. QED
  BY <1>1, <1>2

(* Each call leaves the settled rows alone, but for the last of a request. *)
LEMMA CallAlone ==
  ASSUME OneAtATime, AloneInv, settled' = IF Settled' THEN Snapshot' ELSE settled,
         NEW p \in Requests, GoesOn(p) \/ Answered(p)
  PROVE  /\ settled' = settled \/ BoardDoes
         /\ \A q \in Requests : Stands(req'[q], settled', Snapshot')
<1>0. TypeOK
  BY StandsNow
<1>1. CASE GoesOn(p)
  <2>1. PICK r : req' = [req EXCEPT ![p] = r] /\ Stands(r, settled, Snapshot')
    BY <1>1 DEF GoesOn
  <2>2. settled' = settled
    BY <1>0, <1>1, SettlesOnce
  <2>3. req'[p] = r
    BY <1>0, <2>1 DEF TypeOK
  <2>4. \A q \in Requests : q = p
    BY DEF OneAtATime
  <2>. QED
    BY <2>1, <2>2, <2>3, <2>4
<1>2. CASE Answered(p)
  <2>1. settled' = Snapshot' /\ \A q \in Requests : req'[q].at = "idle"
    BY <1>0, <1>2, SettlesOnce
  <2>2. settled' = settled \/ BoardDoes
    BY <1>2, <2>1 DEF Answered
  <2>3. ASSUME NEW q \in Requests PROVE Stands(req'[q], settled', Snapshot')
    <3>1. PICK r : r = req'[q]
      OBVIOUS
    <3>2. Stands(r, settled', settled')
      BY <2>1, <3>1, IdleStands
    <3>. QED
      BY <2>1, <3>1, <3>2
  <2>. QED
    BY <2>2, <2>3
<1>. QED
  BY <1>1, <1>2

(* Every step keeps the invariant, and moves the settled rows as TurnBoard *)
(* does.                                                                   *)
LEMMA NextAlone ==
  ASSUME OneAtATime, AInv, [AloneNext]_<<vars, settled>>
  PROVE  AInv' /\ (settled' = settled \/ BoardDoes)
<1>0. AloneInv /\ TypeOK
  BY AInvAlone, StandsNow DEF AInv, RacesInv
<1>. DEFINE Goal == /\ settled' = settled \/ BoardDoes
                    /\ \A q \in Requests : Stands(req'[q], settled', Snapshot')
<1>1. ASSUME AloneNext PROVE Goal
  <2>0. Next /\ settled' = IF Settled' THEN Snapshot' ELSE settled
    BY <1>1 DEF AloneNext
  <2>1. ASSUME NEW p \in Requests, Make(p) \/ Step(p) PROVE Goal
    <3>1. GoesOn(p) \/ Answered(p)
      BY <1>0, <2>1, MakeAlone, StepAlone
    <3>. QED
      BY <1>0, <2>0, <3>1, CallAlone
  <2>2. ASSUME NEW p \in Requests, NEW c \in Courts, MakeClear(p, c) PROVE Goal
    <3>1. GoesOn(p)
      BY <1>0, <2>2, MakeClearAlone
    <3>. QED
      BY <1>0, <2>0, <3>1, CallAlone
  <2>3. ASSUME NEW p \in Requests, NEW G \in Groups, AddEntry(p, G) PROVE Goal
    <3>1. req' = req /\ (settled' = Snapshot' => BoardDoes)
      BY <1>0, <2>3, AddEntryAlone
    <3>2. \A q \in Requests : req'[q].at = "idle"
      BY <2>3, <3>1 DEF AddEntry, At, OneAtATime
    <3>3. settled' = Snapshot'
      BY <2>0, <3>2 DEF Settled, At
    <3>4. ASSUME NEW q \in Requests PROVE Stands(req'[q], settled', Snapshot')
      <4>1. PICK r : r = req'[q]
        OBVIOUS
      <4>2. Stands(r, settled', settled')
        BY <3>2, <4>1, IdleStands
      <4>. QED
        BY <3>3, <4>1, <4>2
    <3>. QED
      BY <3>1, <3>3, <3>4
  <2>4. ~Crash
    <3>1. crashes \in 0..0
      BY <1>0 DEF OneAtATime, TypeOK
    <3>. QED
      BY <3>1 DEF Crash, OneAtATime
  <2>. QED
    BY <2>0, <2>1, <2>2, <2>3, <2>4 DEF Next
<1>2. ASSUME UNCHANGED <<vars, settled>> PROVE Goal
  <2>1. settled' = settled /\ req' = req /\ Snapshot' = Snapshot
    BY <1>2 DEF vars, Snapshot
  <2>. QED
    BY <2>1 DEF AInv
<1>3. Goal
  BY <1>1, <1>2
<1>4. RacesInv'
  <2>1. [Next]_vars
    BY DEF AloneNext
  <2>. QED
    BY <2>1, RacesNext DEF AInv
<1>5. Proved!IInv'
  BY <1>3, BoardStepInv DEF AInv
<1>6. InUse(settled')
  BY <1>0, <1>3, StaysInUse DEF AInv, AloneInv
<1>. QED
  BY <1>3, <1>4, <1>5, <1>6 DEF AInv

LEMMA AloneAlways ==
  ASSUME OneAtATime
  PROVE  AloneSpec => []AInv
<1>1. AInv /\ [AloneNext]_<<vars, settled>> => AInv'
  BY NextAlone
<1>. QED
  BY <1>1, AloneInitInv, PTL DEF AloneSpec

(* Wherever the one request stands, it has done that part of its action    *)
(* which its calls so far make, and what it relies on still holds.         *)
THEOREM RequestsStand ==
  ASSUME MaxCrashes = 0, \A p, q \in Requests : p = q
  PROVE  AloneSpec => []HandlersStand
<1>1. AInv => HandlersStand
  BY BoardAgrees DEF AInv, HandlersStand
<1>2. OneAtATime
  BY DEF OneAtATime
<1>. QED
  BY <1>1, <1>2, AloneAlways, PTL

(* What one request does to the rows, from its first call to its answer,   *)
(* is one of TurnBoard's actions or nothing.                               *)
THEOREM HandlersRunAlone ==
  ASSUME MaxCrashes = 0, \A p, q \in Requests : p = q
  PROVE  AloneSpec => HandlersImplementBoard
<1>1. OneAtATime
  BY DEF OneAtATime
<1>2. AloneInit => AInv
  BY AloneInitInv
<1>3. AInv /\ [AloneNext]_<<vars, settled>> => AInv' /\ [Board!TurnStep \/ Board!BoardStep]_settled
  BY <1>1, NextAlone, BoardSteps
<1>. QED
  BY <1>2, <1>3, PTL DEF AloneSpec, HandlersImplementBoard

(* What TurnBoardProofs shows of handlers that are one step holds of the   *)
(* handlers as they run: whenever the one request is answered, games,      *)
(* turns, courts and the board agree.                                      *)
THEOREM AnswersAgree ==
  ASSUME MaxCrashes = 0, NEW p, Requests = {p}
  PROVE  AloneSpec =>
           [](Settled => GameMatchesTurn /\ OnePlayingPerCourt /\ EntryMatchesTurn /\ GhostFree)
<1>1. OneAtATime
  BY DEF OneAtATime
<1>2. AInv /\ Settled => GameMatchesTurn /\ OnePlayingPerCourt /\ EntryMatchesTurn /\ GhostFree
  <2>. SUFFICES ASSUME AInv, Settled
                PROVE  GameMatchesTurn /\ OnePlayingPerCourt /\ EntryMatchesTurn /\ GhostFree
    OBVIOUS
  <2>1. Snapshot = settled
    BY DEF AInv, Settled, At, Stands
  <2>2. settled.turn = turn /\ settled.game = game /\ settled.entry = entry
    BY <2>1 DEF Snapshot
  <2>3. Proved!GameMatchesTurn /\ Proved!OnePlayingPerCourt /\ Proved!EntryMatchesTurn
        /\ Proved!NoGhostWhileActive
    BY DEF AInv, Proved!IInv
  <2>4. GameMatchesTurn
    BY <2>2, <2>3 DEF Proved!GameMatchesTurn, GameMatchesTurn
  <2>5. OnePlayingPerCourt
    BY <2>2, <2>3 DEF Proved!OnePlayingPerCourt, OnePlayingPerCourt
  <2>6. EntryMatchesTurn
    BY <2>2, <2>3 DEF Proved!EntryMatchesTurn, EntryMatchesTurn
  <2>7. GhostFree
    BY <2>2, <2>3 DEF Proved!NoGhostWhileActive, Proved!GhostFree, GhostFree
  <2>. QED
    BY <2>4, <2>5, <2>6, <2>7
<1>. QED
  BY <1>1, <1>2, AloneAlways, PTL
=============================================================================
