------------------------------- MODULE Polls -------------------------------
(***************************************************************************)
(* Polls of the sessions of Sessions (poll.service.ts), for those CheckIns *)
(* has in; and the deletion of a session, which takes all along.           *)
(***************************************************************************)
EXTENDS CheckIns

CONSTANTS Booths, Choices   \* requests under way at the same time; options

VARIABLES
  poll,      \* SessionPoll rows in the order they were made
  ballot,    \* PollVote: <<poll, user, option>>, unique
  booth,     \* the requests: already is whether the same choice was there
  boothsMet  \* users two of whose votes were under way together (no state of the code)

pollVars == <<poll, ballot, booth, boothsMet>>

NoBooth == [at |-> "idle", who |-> "none", poll |-> 0, night |-> 0, choice |-> "none",
            already |-> FALSE]

PollsInit ==
  /\ poll = <<>>
  /\ ballot = {}
  /\ booth = [b \in Booths |-> NoBooth]
  /\ boothsMet = {}

BoothAt(b, l) == booth[b].at = l
BoothBecomes(b, r) ==
  /\ booth' = [booth EXCEPT ![b] = r]
  /\ boothsMet' = boothsMet \cup {u \in Attendees :
       \E e, f \in Booths : e # f /\ booth'[e].who = u /\ booth'[f].who = u}
BoothTo(b, l) == BoothBecomes(b, [booth[b] EXCEPT !.at = l])
BoothDone(b) == BoothBecomes(b, NoBooth)
Mine(b) == {v \in ballot : v[1] = booth[b].poll /\ v[2] = booth[b].who}
OneChoice(b) == <<booth[b].poll, booth[b].who, booth[b].choice>>
There(q) == poll[q].status # "DELETED"

-----------------------------------------------------------------------------
(* createPoll, closePoll, deletePoll                                       *)

FindNightForPoll(b) ==
  /\ BoothAt(b, "idle") /\ AskFor("booth")
  /\ \E n \in Active : BoothBecomes(b, [NoBooth EXCEPT !.at = "open", !.night = n])
  /\ UNCHANGED <<checkInVars, poll, ballot>>

CreatePoll(b) ==
  LET n == booth[b].night
  IN  /\ BoothAt(b, "open")
      /\ \E many \in BOOLEAN :
           poll' = IF night[n].status = "DELETED" THEN poll
                   ELSE Append(poll, [night |-> n, status |-> "OPEN", multi |-> many,
                                      after |-> "polls" \in night[n].swept])
      /\ BoothDone(b)
      /\ UNCHANGED <<sessionVars, checkInVars, ballot>>

ClosePoll(q) ==
  /\ poll[q].status = "OPEN" /\ AskFor("booth")
  /\ poll' = [poll EXCEPT ![q].status = "CLOSED"]
  /\ UNCHANGED <<checkInVars, ballot, booth, boothsMet>>

DeletePoll(q) ==
  /\ There(q) /\ AskFor("booth")
  /\ poll' = [poll EXCEPT ![q].status = "DELETED"]
  /\ ballot' = {v \in ballot : v[1] # q}
  /\ UNCHANGED <<checkInVars, booth, boothsMet>>

-----------------------------------------------------------------------------
(* vote; whether closesAt has passed only adds refusals                    *)

FindPoll(b) ==
  /\ BoothAt(b, "idle") /\ AskFor("booth")
  /\ \E q \in DOMAIN poll, u \in Attendees, o \in Choices :
       /\ poll[q].status = "OPEN"
       /\ BoothBecomes(b, [NoBooth EXCEPT !.at = "present", !.who = u, !.poll = q, !.choice = o])
  /\ UNCHANGED <<checkInVars, poll, ballot>>

LookPresent(b) ==
  /\ BoothAt(b, "present")
  /\ IF Open(booth[b].who, poll[booth[b].poll].night) = {} THEN BoothDone(b) ELSE BoothTo(b, "read")
  /\ UNCHANGED <<sessionVars, checkInVars, poll, ballot>>

\* multi never changes.
ReadMine(b) ==
  LET q == booth[b].poll
      has == OneChoice(b) \in ballot
  IN  /\ BoothAt(b, "read")
      /\ BoothBecomes(b, [booth[b] EXCEPT !.already = has,
           !.at = IF ~poll[q].multi THEN "clear" ELSE IF has THEN "drop" ELSE "cast"])
      /\ UNCHANGED <<sessionVars, checkInVars, poll, ballot>>

AfterClear(b) == IF booth[b].already THEN BoothDone(b) ELSE BoothTo(b, "cast")

\* Mutated ClearMine: only the same choice is taken back.
ClearSame(b) ==
  /\ BoothAt(b, "clear")
  /\ ballot' = ballot \ {OneChoice(b)}
  /\ AfterClear(b)
  /\ UNCHANGED <<sessionVars, checkInVars, poll>>

ClearMine(b) ==
  /\ BoothAt(b, "clear")
  /\ ballot' = ballot \ Mine(b)
  /\ AfterClear(b)
  /\ UNCHANGED <<sessionVars, checkInVars, poll>>

DropVote(b) ==
  /\ BoothAt(b, "drop")
  /\ ballot' = ballot \ {OneChoice(b)}
  /\ BoothDone(b)
  /\ UNCHANGED <<sessionVars, checkInVars, poll>>

\* Refused if the vote is there, or the poll is not.
CastVote(b) ==
  /\ BoothAt(b, "cast")
  /\ ballot' = IF There(booth[b].poll) THEN ballot \cup {OneChoice(b)} ELSE ballot
  /\ BoothDone(b)
  /\ UNCHANGED <<sessionVars, checkInVars, poll>>

BoothFails(b) ==
  /\ ~BoothAt(b, "idle") /\ nightFaults < MaxNightFaults /\ nightFaults' = nightFaults + 1
  /\ BoothDone(b)
  /\ UNCHANGED <<hour, night, caller, left, checkInVars, poll, ballot>>

-----------------------------------------------------------------------------
(* endSession, deleteSession                                               *)

\* Mutated ClosePolls: the rows are left as they are.
PassPolls(c) ==
  /\ CallerAt(c, "polls")
  /\ Sweep(c, "polls", "finish")
  /\ UNCHANGED <<checkInVars, pollVars>>

ClosePolls(c) ==
  LET n == caller[c].about
  IN  /\ CallerAt(c, "polls")
      /\ poll' = [q \in DOMAIN poll |-> IF poll[q].night = n /\ poll[q].status = "OPEN"
                                        THEN [poll[q] EXCEPT !.status = "CLOSED"] ELSE poll[q]]
      /\ Sweep(c, "polls", "finish")
      /\ UNCHANGED <<checkInVars, ballot, booth, boothsMet>>

\* One transaction; a check-in that is deleted stands here as one that is closed.
DeleteSession(n) ==
  /\ night[n].status \in {"ACTIVE", "ENDED"}
  /\ Ask("desk")
  /\ night' = [night EXCEPT ![n].status = "DELETED", ![n].key = FALSE]
  /\ CloseCheckInsOf(n)
  /\ poll' = [q \in DOMAIN poll |-> IF poll[q].night = n
                                    THEN [poll[q] EXCEPT !.status = "DELETED"] ELSE poll[q]]
  /\ ballot' = {v \in ballot : poll[v[1]].night # n}
  /\ UNCHANGED <<hour, caller, nightFaults, door, doorsMet, booth, boothsMet>>

BoothCall(b) == FindNightForPoll(b) \/ FindPoll(b)
BoothStep(b) == \/ CreatePoll(b) \/ LookPresent(b) \/ ReadMine(b) \/ ClearMine(b) \/ DropVote(b)
                \/ CastVote(b)

-----------------------------------------------------------------------------
(* Properties                                                              *)

PollsTypeOK ==
  /\ poll \in Seq([night : Nights, status : {"OPEN", "CLOSED", "DELETED"}, multi : BOOLEAN,
                   after : BOOLEAN])
  /\ ballot \subseteq (DOMAIN poll) \X Attendees \X Choices
  /\ booth \in [Booths ->
       [at : {"idle", "open", "present", "read", "clear", "drop", "cast"},
        who : Attendees \cup {"none"}, poll : {0} \cup DOMAIN poll, night : {0} \cup Nights,
        choice : Choices \cup {"none"}, already : BOOLEAN]]
  /\ boothsMet \subseteq Attendees

\* schema.prisma:639 "one vote each": in a poll with one choice a user has two votes
\* only if two of their own requests overlapped, however often they change their
\* mind, and whatever fails between taking the old vote back and casting the new.
OneVoteEach ==
  \A q \in DOMAIN poll, u \in Attendees \ boothsMet :
    ~poll[q].multi => Cardinality({v \in ballot : v[1] = q /\ v[2] = u}) <= 1

\* clubSession.service.ts:553-556, 565: nobody is left checked in to a session that has
\* ended, and no poll of it is left open: unless the row was written after the end had
\* been through the table, or the facility was closed, which ends sessions
\* without going through either.
NothingLeftOpen ==
  \A n \in Nights :
    night[n].status = "ENDED" /\ "closed" \notin night[n].swept =>
      /\ \A i \in DOMAIN checkIn : checkIn[i].night = n /\ checkIn[i].open => checkIn[i].after
      /\ \A q \in DOMAIN poll : poll[q].night = n /\ poll[q].status = "OPEN" => poll[q].after
=============================================================================
