------------------------------ MODULE Sessions ------------------------------
(***************************************************************************)
(* Club sessions of one club with a weekly slot: opened and ended by hand  *)
(* (clubSession.service.ts) and by a loop that opens the slot's session    *)
(* and ends one that was forgotten (autoSession.service.ts).  Each call to *)
(* the database is a step; ticks of the loop may overlap.                  *)
(***************************************************************************)
EXTENDS Integers, FiniteSets

CONSTANTS
  Ticks,          \* ticks of the loop under way at the same time
  Desks,          \* requests of the staff under way at the same time
  SlotHours,      \* when the tick finds the weekly slot on
  AutoEndHours,
  Mixes,          \* bounds of one evening: its hours, how many ticks there are at
                  \* the same time, and how many requests of each kind in all
  MaxHour, MaxNights, MaxNightFaults             \* bounds

ASSUME SessionsAssumption ==
  /\ Ticks \cap Desks = {}
  /\ MaxHour \in Nat \ {0} /\ MaxNights \in Nat /\ MaxNightFaults \in Nat
  /\ Mixes \subseteq [hours : 0..MaxHour, ticks : Nat, desk : Nat, door : Nat, booth : Nat]
  /\ SlotHours \subseteq 1..MaxHour /\ AutoEndHours \in Nat

Nights == 1..MaxNights
Callers == Ticks \cup Desks

VARIABLES
  hour,       \* the time
  night,      \* ClubSession rows of the club by the order they were created
  caller,     \* the ticks and requests: about is a row, todo those to be ended
  left,       \* the requests left
  nightFaults

sessionVars == <<hour, night, caller, left, nightFaults>>

\* auto, blind, late, cut and swept are no columns: a tick opened the row; the start
\* did not see an earlier one, whose row or key was written after it looked; the
\* tick did not come to write the key; an end is past its check-ins, its polls;
\* the facility session was closed.
NoNight == [status |-> "NONE", key |-> FALSE, since |-> 0, auto |-> FALSE, blind |-> FALSE,
            late |-> FALSE, cut |-> FALSE, swept |-> {}]
NoCaller == [at |-> "idle", about |-> 0, todo |-> {}, blind |-> FALSE, late |-> FALSE]

SessionsInit ==
  /\ hour = 1
  /\ night = [n \in Nights |-> NoNight]
  /\ caller = [c \in Callers |-> NoCaller]
  /\ left \in Mixes /\ nightFaults = 0

CallerAt(c, l) == caller[c].at = l
CallerBecomes(c, r) == caller' = [caller EXCEPT ![c] = r]
CallerTo(c, l) == CallerBecomes(c, [caller[c] EXCEPT !.at = l])
CallerDone(c) == CallerBecomes(c, NoCaller)
Active == {n \in Nights : night[n].status = "ACTIVE"}
Unused == {n \in Nights : night[n].status = "NONE"}

\* A name is left for every start under way.
RoomForNight ==
  Cardinality({c \in Callers : caller[c].at \in {"look", "create"}}) < Cardinality(Unused)

HourPasses == hour < left.hours /\ hour' = hour + 1 /\ UNCHANGED <<night, caller, left, nightFaults>>

Ask(kind) == left[kind] > 0 /\ left' = [left EXCEPT ![kind] = @ - 1]

CallDesk(c) ==
  /\ c \in Desks /\ CallerAt(c, "idle") /\ Ask("desk")
  /\ \/ RoomForNight /\ CallerTo(c, "look")
     \/ \E n \in Active : CallerBecomes(c, [NoCaller EXCEPT !.at = "end", !.about = n])
  /\ UNCHANGED <<hour, night, nightFaults>>

-----------------------------------------------------------------------------
(* startSession                                                            *)

\* Mutated LookActive: only sessions that the loop opened are looked for.
LookActiveAuto(c) ==
  /\ CallerAt(c, "look")
  /\ IF \A n \in Active : ~night[n].auto THEN CallerTo(c, "create")
     ELSE IF c \in Ticks THEN CallerTo(c, "stale") ELSE CallerDone(c)
  /\ UNCHANGED <<hour, night, left, nightFaults>>

\* A tick catches the refusal and goes on.
LookActive(c) ==
  /\ CallerAt(c, "look")
  /\ IF Active = {} THEN CallerTo(c, "create")
     ELSE IF c \in Ticks THEN CallerTo(c, "stale") ELSE CallerDone(c)
  /\ UNCHANGED <<hour, night, left, nightFaults>>

\* Mutated CreateSession: the row of a tick is left without its key's writing.
CreateSessionOnly(c) ==
  \E n \in Unused :
    /\ CallerAt(c, "create") /\ \A m \in Unused : n <= m
    /\ night' = [night EXCEPT ![n] = [NoNight EXCEPT !.status = "ACTIVE", !.since = hour,
         !.auto = c \in Ticks, !.blind = caller[c].blind,
         !.late = caller[c].late \/ \E d \in Ticks : CallerAt(d, "key")]]
    /\ caller' = [d \in Callers |->
         IF d = c THEN IF c \in Ticks THEN [NoCaller EXCEPT !.at = "stale"] ELSE NoCaller
         ELSE [caller[d] EXCEPT !.blind = @ \/ CallerAt(d, "create")]]
    /\ UNCHANGED <<hour, left, nightFaults>>

\* The row, with its courts; who looked before it was there is blind to it.
CreateSession(c) ==
  \E n \in Unused :
    /\ CallerAt(c, "create") /\ \A m \in Unused : n <= m
    /\ night' = [night EXCEPT ![n] = [NoNight EXCEPT !.status = "ACTIVE", !.since = hour,
         !.auto = c \in Ticks, !.blind = caller[c].blind,
         !.late = caller[c].late \/ \E d \in Ticks : CallerAt(d, "key")]]
    /\ caller' = [d \in Callers |->
         IF d = c THEN IF c \in Ticks THEN [NoCaller EXCEPT !.at = "key", !.about = n] ELSE NoCaller
         ELSE [caller[d] EXCEPT !.blind = @ \/ CallerAt(d, "create")]]
    /\ UNCHANGED <<hour, left, nightFaults>>

-----------------------------------------------------------------------------
(* runAutoSessionTick                                                      *)

FindSlot(c) ==
  /\ c \in Ticks /\ CallerAt(c, "idle")
  /\ Cardinality({d \in Ticks : ~CallerAt(d, "idle")}) < left.ticks
  /\ IF /\ hour \in SlotHours /\ RoomForNight
        /\ \A n \in Nights : ~night[n].key
     THEN CallerTo(c, "look") ELSE CallerTo(c, "stale")
  /\ UNCHANGED <<hour, night, left, nightFaults>>

\* autoSlotKey is unique, and the row may be gone: the error is caught.
WriteKey(c) ==
  LET n == caller[c].about
      free == night[n].status # "DELETED" /\ \A m \in Nights : ~night[m].key
  IN  /\ CallerAt(c, "key")
      /\ night' = [night EXCEPT ![n].key = free, ![n].cut = ~free]
      /\ caller' = [d \in Callers |->
           IF d = c THEN [NoCaller EXCEPT !.at = "stale"]
           ELSE [caller[d] EXCEPT !.late = @ \/ caller[d].at \in {"look", "create"}]]
      /\ UNCHANGED <<hour, left, nightFaults>>

\* Mutated ListStale: only sessions that the loop opened are ended.
ListStaleAuto(c) ==
  LET S == {n \in Active : night[n].key /\ hour - night[n].since > AutoEndHours}
  IN  /\ CallerAt(c, "stale")
      /\ IF S = {} THEN CallerDone(c)
         ELSE \E n \in S : CallerBecomes(c, [NoCaller EXCEPT !.at = "end", !.about = n,
                                                             !.todo = S \ {n}])
      /\ UNCHANGED <<hour, night, left, nightFaults>>

ListStale(c) ==
  LET S == {n \in Active : hour - night[n].since > AutoEndHours}
  IN  /\ CallerAt(c, "stale")
      /\ IF S = {} THEN CallerDone(c)
         ELSE \E n \in S : CallerBecomes(c, [NoCaller EXCEPT !.at = "end", !.about = n,
                                                             !.todo = S \ {n}])
      /\ UNCHANGED <<hour, night, left, nightFaults>>

-----------------------------------------------------------------------------
(* endSession: the check-ins and the polls are closed in between           *)

\* The next of the list, for a tick.
AfterEnd(c) ==
  IF caller[c].todo = {} THEN CallerDone(c)
  ELSE \E n \in caller[c].todo :
         CallerBecomes(c, [NoCaller EXCEPT !.at = "end", !.about = n, !.todo = caller[c].todo \ {n}])

LookForEnd(c) ==
  /\ CallerAt(c, "end")
  /\ IF caller[c].about \in Active THEN CallerTo(c, "checkIns") ELSE AfterEnd(c)
  /\ UNCHANGED <<hour, night, left, nightFaults>>

\* Mutated FinishEnd: the status of a facility session that is over.
FinishAsClosed(c) ==
  LET n == caller[c].about
  IN  /\ CallerAt(c, "finish")
      /\ night' = IF night[n].status = "DELETED" THEN night
                  ELSE [night EXCEPT ![n].status = "CLOSED"]
      /\ AfterEnd(c)
      /\ UNCHANGED <<hour, left, nightFaults>>

FinishEnd(c) ==
  LET n == caller[c].about
  IN  /\ CallerAt(c, "finish")
      /\ night' = IF night[n].status = "DELETED" THEN night
                  ELSE [night EXCEPT ![n].status = "ENDED"]
      /\ AfterEnd(c)
      /\ UNCHANGED <<hour, left, nightFaults>>

\* closeSession of session.service.ts: updateMany.
CloseFacility ==
  /\ Active # {} /\ Ask("desk")
  /\ night' = [n \in Nights |-> IF n \in Active
                 THEN [night[n] EXCEPT !.status = "ENDED", !.swept = @ \cup {"closed"}]
                 ELSE night[n]]
  /\ UNCHANGED <<hour, caller, nightFaults>>

\* A tick that catches the failure of a start goes on to the forgotten sessions, and
\* after a failed end to the next of them.
GoesOn(c) == \/ /\ caller[c].at \in {"look", "create", "key"}
                /\ CallerBecomes(c, [NoCaller EXCEPT !.at = "stale"])
             \/ /\ caller[c].at \in {"end", "checkIns", "polls", "finish"}
                /\ AfterEnd(c)

\* A call to the database fails or the process stops; the next tick comes.
NightCallFails(c) ==
  /\ ~CallerAt(c, "idle") /\ nightFaults < MaxNightFaults /\ nightFaults' = nightFaults + 1
  /\ night' = IF CallerAt(c, "key") THEN [night EXCEPT ![caller[c].about].cut = TRUE] ELSE night
  /\ CallerDone(c) \/ (c \in Ticks /\ GoesOn(c))
  /\ UNCHANGED <<hour, left>>

\* The steps that touch sessions alone; deletion is in Polls.
StartStep(c) == LookActive(c) \/ CreateSession(c) \/ WriteKey(c)
EndStep(c) == ListStale(c) \/ LookForEnd(c) \/ FinishEnd(c)

-----------------------------------------------------------------------------
(* Properties                                                              *)

SessionsTypeOK ==
  /\ hour \in 1..MaxHour
  /\ night \in [Nights ->
       [status : {"NONE", "ACTIVE", "ENDED", "DELETED"}, key : BOOLEAN, since : 0..MaxHour,
        auto : BOOLEAN, blind : BOOLEAN, late : BOOLEAN, cut : BOOLEAN,
        swept : SUBSET {"checkIns", "polls", "closed"}]]
  /\ caller \in [Callers ->
       [at : {"idle", "look", "create", "key", "stale", "end", "checkIns", "polls", "finish"},
        about : {0} \cup Nights, todo : SUBSET Nights, blind : BOOLEAN, late : BOOLEAN]]
  /\ left \in [hours : 0..MaxHour, ticks : Nat, desk : Nat, door : Nat, booth : Nat] /\ nightFaults \in 0..MaxNightFaults

\* clubSession.service.ts:180: the club has two active sessions only if the second
\* start, by hand or by a tick, looked before the first had its row.
OneActiveSession == \A m, n \in Active : m < n => night[n].blind

\* autoSession.service.ts:10 "once for each slot": however often sessions are ended,
\* closed and started by hand, a slot is opened again only if the first row was
\* deleted, its key was not written (a crash, another row with the key), or the
\* second tick had looked for the key before it was written.
SlotOpensOnce ==
  \A m, n \in Nights :
    m < n /\ night[m].auto /\ night[n].auto =>
      \/ night[m].status = "DELETED" \/ night[m].cut
      \/ night[n].late \/ night[n].blind

\* autoSession.service.ts:11: a session that is forgotten ends, whatever fails, and
\* whatever refuses the opening of the slot in the same tick.
ForgottenSessionEnds ==
  \A n \in Nights :
    (n \in Active /\ hour - night[n].since > AutoEndHours) ~> n \notin Active
=============================================================================
