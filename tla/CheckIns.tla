------------------------------ MODULE CheckIns ------------------------------
(***************************************************************************)
(* Check-ins to the sessions of Sessions (checkin.service.ts): by place,   *)
(* by the QR code of a session or by an operator, and out again.  A row is *)
(* looked for and then written; no key of the table keeps rows apart.      *)
(***************************************************************************)
EXTENDS Sessions, Sequences

CONSTANTS Attendees, Doors   \* users; requests under way at the same time

VARIABLES
  checkIn,   \* CheckIn rows by checkedInAt; night 0 is null
  door,      \* the requests: night and row are what they have read
  doorsMet   \* users two requests were about at the same time (no state of the code)

checkInVars == <<checkIn, door, doorsMet>>

NoDoor == [at |-> "idle", who |-> "none", night |-> 0, row |-> 0]

CheckInsInit ==
  /\ checkIn = <<>>
  /\ door = [d \in Doors |-> NoDoor]
  /\ doorsMet = {}

DoorAt(d, l) == door[d].at = l
DoorBecomes(d, r) ==
  /\ door' = [door EXCEPT ![d] = r]
  /\ doorsMet' = doorsMet \cup {u \in Attendees :
       \E e, f \in Doors : e # f /\ door'[e].who = u /\ door'[f].who = u}
DoorTo(d, l) == DoorBecomes(d, [door[d] EXCEPT !.at = l])
DoorDone(d) == DoorBecomes(d, NoDoor)

\* Open rows of a user in a session, 0: of the facility alone.
Open(u, n) == {i \in DOMAIN checkIn : checkIn[i].open /\ checkIn[i].who = u /\ checkIn[i].night = n}
OpenAnywhere(u) == {i \in DOMAIN checkIn : checkIn[i].open /\ checkIn[i].who = u}

AskFor(kind) == Ask(kind) /\ UNCHANGED <<hour, night, caller, nightFaults>>

-----------------------------------------------------------------------------
(* checkIn: by place                                                       *)

\* An active session that the code of the evening names; with the facility's code the
\* only active one, or none: of several one must be named.
FindPlace(d) ==
  /\ DoorAt(d, "idle") /\ AskFor("door")
  /\ \E u \in Attendees, n \in (IF Active = {} THEN {0} ELSE Active) :
       DoorBecomes(d, [NoDoor EXCEPT !.at = "any", !.who = u, !.night = n])
  /\ UNCHANGED checkIn

\* Mutated LookAnywhere: a row of another session does not count.
LookInSession(d) ==
  /\ DoorAt(d, "any")
  /\ IF Open(door[d].who, door[d].night) # {} THEN DoorDone(d) ELSE DoorTo(d, "create")
  /\ UNCHANGED <<sessionVars, checkIn>>

LookAnywhere(d) ==
  /\ DoorAt(d, "any")
  /\ IF OpenAnywhere(door[d].who) # {} THEN DoorDone(d) ELSE DoorTo(d, "create")
  /\ UNCHANGED <<sessionVars, checkIn>>

\* after is no column: an end of the session had closed the check-ins already.
CreateCheckIn(d) ==
  LET n == door[d].night
  IN  /\ DoorAt(d, "create")
      /\ checkIn' = IF n # 0 /\ night[n].status = "DELETED" THEN checkIn
                    ELSE Append(checkIn, [who |-> door[d].who, night |-> n, open |-> TRUE,
                                          after |-> n # 0 /\ "checkIns" \in night[n].swept])
      /\ DoorDone(d)
      /\ UNCHANGED sessionVars

-----------------------------------------------------------------------------
(* attendViaQr, memberCheckIn                                              *)

FindNight(d) ==
  /\ DoorAt(d, "idle") /\ AskFor("door")
  /\ \E u \in Attendees, n \in Active :
       DoorBecomes(d, [NoDoor EXCEPT !.at = "own", !.who = u, !.night = n])
  /\ UNCHANGED checkIn

LookForCheckIn(d) ==
  /\ DoorAt(d, "own")
  /\ IF Open(door[d].who, door[d].night) # {} THEN DoorDone(d) ELSE DoorTo(d, "facility")
  /\ UNCHANGED <<sessionVars, checkIn>>

LookForFacility(d) ==
  LET S == Open(door[d].who, 0)
  IN  /\ DoorAt(d, "facility")
      /\ IF S = {} THEN DoorTo(d, "create")
         ELSE \E i \in S : DoorBecomes(d, [door[d] EXCEPT !.at = "upgrade", !.row = i])
      /\ UNCHANGED <<sessionVars, checkIn>>

\* By id, whatever the row has become.
UpgradeCheckIn(d) ==
  LET n == door[d].night
  IN  /\ DoorAt(d, "upgrade")
      /\ checkIn' = IF night[n].status = "DELETED" THEN checkIn
                    ELSE [checkIn EXCEPT ![door[d].row].night = n,
                                         ![door[d].row].after = "checkIns" \in night[n].swept]
      /\ DoorDone(d)
      /\ UNCHANGED sessionVars

-----------------------------------------------------------------------------
(* checkOut, operatorCheckOut                                              *)

Newest(S) == {i \in S : \A j \in S : j <= i}

\* The newest row of an active session, else the newest.
FindToClose(d) ==
  /\ DoorAt(d, "idle") /\ AskFor("door")
  /\ \E u \in Attendees :
       LET S == {i \in OpenAnywhere(u) : checkIn[i].night \in Active}
       IN  \E i \in Newest(IF S = {} THEN OpenAnywhere(u) ELSE S) :
             DoorBecomes(d, [NoDoor EXCEPT !.at = "close", !.who = u, !.row = i])
  /\ UNCHANGED checkIn

\* An operator's: of the session, else of the facility.
FindToRemove(d) ==
  /\ DoorAt(d, "idle") /\ AskFor("door")
  /\ \E u \in Attendees, n \in {m \in Nights : night[m].status \in {"ACTIVE", "ENDED"}} :
       \E i \in (IF Open(u, n) = {} THEN Open(u, 0) ELSE Open(u, n)) :
         DoorBecomes(d, [NoDoor EXCEPT !.at = "close", !.who = u, !.row = i])
  /\ UNCHANGED checkIn

CloseRow(d) ==
  /\ DoorAt(d, "close")
  /\ checkIn' = [checkIn EXCEPT ![door[d].row].open = FALSE]
  /\ DoorDone(d)
  /\ UNCHANGED sessionVars

DoorFails(d) ==
  /\ ~DoorAt(d, "idle") /\ nightFaults < MaxNightFaults /\ nightFaults' = nightFaults + 1
  /\ DoorDone(d)
  /\ UNCHANGED <<hour, night, caller, left, checkIn>>

-----------------------------------------------------------------------------
(* endSession                                                              *)

CloseCheckInsOf(n) ==
  checkIn' = [i \in DOMAIN checkIn |-> IF checkIn[i].night = n
                                       THEN [checkIn[i] EXCEPT !.open = FALSE] ELSE checkIn[i]]

Sweep(c, what, next) ==
  /\ night' = [night EXCEPT ![caller[c].about].swept = @ \cup {what}]
  /\ CallerTo(c, next)
  /\ UNCHANGED <<hour, left, nightFaults>>

\* Mutated CloseCheckIns: the rows are left as they are.
PassCheckIns(c) ==
  /\ CallerAt(c, "checkIns")
  /\ Sweep(c, "checkIns", "polls")
  /\ UNCHANGED checkInVars

CloseCheckIns(c) ==
  /\ CallerAt(c, "checkIns")
  /\ CloseCheckInsOf(caller[c].about)
  /\ Sweep(c, "checkIns", "polls")
  /\ UNCHANGED <<door, doorsMet>>

DoorCall(d) == FindPlace(d) \/ FindNight(d) \/ FindToClose(d) \/ FindToRemove(d)
DoorStep(d) == \/ LookAnywhere(d) \/ CreateCheckIn(d) \/ LookForCheckIn(d) \/ LookForFacility(d)
               \/ UpgradeCheckIn(d) \/ CloseRow(d)

-----------------------------------------------------------------------------
(* Properties                                                              *)

CheckInsTypeOK ==
  /\ checkIn \in Seq([who : Attendees, night : {0} \cup Nights, open : BOOLEAN, after : BOOLEAN])
  /\ door \in [Doors ->
       [at : {"idle", "any", "own", "facility", "create", "upgrade", "close"},
        who : Attendees \cup {"none"}, night : {0} \cup Nights, row : {0} \cup DOMAIN checkIn]]
  /\ doorsMet \subseteq Attendees

\* checkin.service.ts:189-192 "two active check-ins would surface them twice in the
\* pool": a user has two open rows among the facility's and those of one active
\* session only if two requests about the user overlapped, whatever rows earlier
\* sessions left open and however the user came in.
OneOpenCheckIn ==
  \A u \in Attendees \ doorsMet, n \in Active : Cardinality(Open(u, n) \cup Open(u, 0)) <= 1
=============================================================================
