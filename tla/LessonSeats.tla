----------------------------- MODULE LessonSeats -----------------------------
(***************************************************************************)
(* Seats and waiting list of one lesson (lab.service.ts): applyLesson      *)
(* checks for an application of the member's own, counts the seats taken   *)
(* and creates a row, three calls to the database; operators promote,      *)
(* confirm, cancel and add.  Nothing is done in a transaction.             *)
(***************************************************************************)
EXTENDS Integers, FiniteSets

CONSTANTS
  Members,      \* users who may apply
  Walkin,       \* userId of a student without an account: null
  SeatCalls,    \* the requests made; a request that creates a row names it
  Capacity      \* LessonOffer.capacity, 0 for null

ASSUME SeatsAssumption ==
  /\ Walkin \notin Members
  /\ IsFiniteSet(SeatCalls)
  /\ Capacity \in Nat

VARIABLES
  application,  \* LessonApplication rows of the lesson, by the request that made them
  seatCall      \* the requests: where each stands

seatVars == <<application, seatCall>>

LessonStatus == {"PENDING", "CONFIRMED", "CANCELLED", "WAITLIST"}
Live == {"PENDING", "CONFIRMED", "WAITLIST"}
Seated == {"PENDING", "CONFIRMED"}

\* byStaff and saw are no columns: whether an operator made or changed the row,
\* and which live applications were there when the member applied.
NoApplication == [who |-> Walkin, status |-> "NONE", order |-> 0, byStaff |-> FALSE, saw |-> {}]
NewSeatCall == [at |-> "new", who |-> Walkin, app |-> "none", order |-> 0, saw |-> {}]

SeatsInit ==
  /\ application = [c \in SeatCalls |-> NoApplication]
  /\ seatCall = [c \in SeatCalls |-> NewSeatCall]

With(S) == {c \in SeatCalls : application[c].status \in S}
Rows == With(LessonStatus)

SeatAt(c, l) == seatCall[c].at = l
SeatBecomes(c, r) == seatCall' = [seatCall EXCEPT ![c] = r]
SeatTo(c, l) == SeatBecomes(c, [seatCall[c] EXCEPT !.at = l])
SeatDone(c) == SeatBecomes(c, [NewSeatCall EXCEPT !.at = "done"])

-----------------------------------------------------------------------------
(* applyLesson                                                             *)

Apply(c) == /\ SeatAt(c, "new")
            /\ \E m \in Members : SeatBecomes(c, [NewSeatCall EXCEPT !.at = "own", !.who = m])
            /\ UNCHANGED application

\* Mutated LookForOwn: an application on the waiting list is not looked for.
LookForSeat(c) ==
  /\ SeatAt(c, "own")
  /\ IF \E d \in With(Seated) : application[d].who = seatCall[c].who
     THEN SeatDone(c)
     ELSE SeatBecomes(c, [seatCall[c] EXCEPT !.at = "count", !.saw = With(Live)])
  /\ UNCHANGED application

LookForOwn(c) ==
  /\ SeatAt(c, "own")
  /\ IF \E d \in With(Live) : application[d].who = seatCall[c].who
     THEN SeatDone(c)
     ELSE SeatBecomes(c, [seatCall[c] EXCEPT !.at = "count", !.saw = With(Live)])
  /\ UNCHANGED application

\* Mutated CountSeats: one more than the capacity.
CountOneOver(c) ==
  /\ SeatAt(c, "count")
  /\ SeatTo(c, IF Capacity # 0 /\ Cardinality(With(Seated)) > Capacity THEN "order" ELSE "create")
  /\ UNCHANGED application

CountSeats(c) ==
  /\ SeatAt(c, "count")
  /\ SeatTo(c, IF Capacity # 0 /\ Cardinality(With(Seated)) >= Capacity THEN "order" ELSE "create")
  /\ UNCHANGED application

\* _max of waitOrder, 0 for null: rows that left the list by promotion have none.
TakeOrder(c) ==
  /\ SeatAt(c, "order")
  /\ \E n \in {0} \cup {application[d].order : d \in With({"WAITLIST"})} :
       /\ \A d \in With({"WAITLIST"}) : application[d].order <= n
       /\ SeatBecomes(c, [seatCall[c] EXCEPT !.at = "create", !.order = n + 1])
  /\ UNCHANGED application

CreateApplication(c) ==
  /\ SeatAt(c, "create")
  /\ application' = [application EXCEPT ![c] =
       [who |-> seatCall[c].who, status |-> IF seatCall[c].order = 0 THEN "PENDING" ELSE "WAITLIST",
        order |-> seatCall[c].order, byStaff |-> FALSE, saw |-> seatCall[c].saw]]
  /\ SeatDone(c)

-----------------------------------------------------------------------------
(* promoteFromWaitlist, updateLessonApplication, addLessonStudent          *)

FindWaiting(c) ==
  /\ SeatAt(c, "new")
  /\ \E d \in With({"WAITLIST"}) :
       SeatBecomes(c, [NewSeatCall EXCEPT !.at = "promote", !.app = d])
  /\ UNCHANGED application

\* By id: whatever the row's status has become.
Promote(c) ==
  /\ SeatAt(c, "promote")
  /\ application' = [application EXCEPT ![seatCall[c].app].status = "PENDING",
                                        ![seatCall[c].app].order = 0,
                                        ![seatCall[c].app].byStaff = TRUE]
  /\ SeatDone(c)

\* The row keeps its waitOrder.
SetStatus(c) ==
  /\ SeatAt(c, "new")
  /\ \E d \in Rows, s \in LessonStatus \ {"WAITLIST"} :
       application' = [application EXCEPT ![d].status = s, ![d].byStaff = TRUE]
  /\ SeatDone(c)

AddStudent(c) ==
  /\ SeatAt(c, "new")
  /\ application' = [application EXCEPT ![c] =
       [who |-> Walkin, status |-> "CONFIRMED", order |-> 0, byStaff |-> TRUE, saw |-> {}]]
  /\ SeatDone(c)

\* The request fails at one of its calls, or the process stops.
SeatCallFails(c) == /\ seatCall[c].at \notin {"new", "done"}
                    /\ SeatDone(c)
                    /\ UNCHANGED application

-----------------------------------------------------------------------------
SeatsNext == \E c \in SeatCalls :
  \/ Apply(c) \/ LookForOwn(c) \/ CountSeats(c) \/ TakeOrder(c) \/ CreateApplication(c)
  \/ FindWaiting(c) \/ Promote(c) \/ SetStatus(c) \/ AddStudent(c) \/ SeatCallFails(c)

SeatsSpec == SeatsInit /\ [][SeatsNext]_seatVars

-----------------------------------------------------------------------------
(* Properties                                                              *)

SeatsTypeOK ==
  /\ application \in [SeatCalls ->
       [who : Members \cup {Walkin}, status : LessonStatus \cup {"NONE"}, order : Nat,
        byStaff : BOOLEAN, saw : SUBSET SeatCalls]]
  /\ seatCall \in [SeatCalls ->
       [at : {"new", "own", "count", "order", "create", "promote", "done"},
        who : Members \cup {Walkin}, app : SeatCalls \cup {"none"}, order : Nat,
        saw : SUBSET SeatCalls]]

\* The seats members took themselves.
SelfSeats == {c \in With(Seated) : ~application[c].byStaff}
Knew(c, d) == c \in application[d].saw \/ d \in application[c].saw

\* lab.service.ts:913 "prevents going over the capacity and applying twice": among
\* the seats members took by applying, any that did not overlap (of any two, one
\* application was there when the other was made) fit the capacity, whatever
\* operators add, promote, cancel and restore meanwhile.
KnownSeatsFit ==
  Capacity # 0 =>
    \A S \in SUBSET SelfSeats :
      (\A c, d \in S : c # d => Knew(c, d)) => Cardinality(S) <= Capacity

\* lab.service.ts:924: of two applications of one member neither was live when the
\* other's request looked, whatever operators cancel and restore; and of two that
\* wait, who looked later waits further back.
OneApplicationEach ==
  \A c, d \in SeatCalls :
    c \in application[d].saw =>
      /\ application[c].who # application[d].who
      /\ application[c].status = "WAITLIST" /\ application[d].status = "WAITLIST" =>
           application[c].order < application[d].order
=============================================================================
