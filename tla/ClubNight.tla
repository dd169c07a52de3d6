----------------------------- MODULE ClubNight -----------------------------
(***************************************************************************)
(* A club's evenings: sessions, the check-ins and the polls of Sessions,   *)
(* CheckIns and Polls, whose requests interleave with the ticks of the     *)
(* loop and share the rows an end of a session sweeps.                     *)
(***************************************************************************)
EXTENDS Polls

CONSTANTS MaxUnderWay   \* bound: requests and ticks under way together

nightVars == <<sessionVars, checkInVars, pollVars>>

NightInit == SessionsInit /\ CheckInsInit /\ PollsInit

UnderWayNow == {c \in Callers : ~CallerAt(c, "idle")} \cup {d \in Doors : ~DoorAt(d, "idle")}
                 \cup {b \in Booths : ~BoothAt(b, "idle")}
MayStart == Cardinality(UnderWayNow) < MaxUnderWay

Others == UNCHANGED <<checkInVars, pollVars>>

StaffActs ==
  \/ HourPasses /\ Others
  \/ \E c \in Desks : MayStart /\ CallDesk(c) /\ Others
  \/ CloseFacility /\ Others
  \/ \E n \in Nights : DeleteSession(n)
  \/ \E q \in DOMAIN poll : ClosePoll(q) \/ DeletePoll(q)

CallerStep(c) ==
  \/ c \in Ticks /\ MayStart /\ FindSlot(c) /\ Others
  \/ (StartStep(c) \/ EndStep(c)) /\ Others
  \/ CloseCheckIns(c) /\ UNCHANGED pollVars
  \/ ClosePolls(c)

GuestStep(d) == ((MayStart /\ DoorCall(d)) \/ DoorStep(d)) /\ UNCHANGED pollVars
VoterStep(b) == (MayStart /\ BoothCall(b)) \/ BoothStep(b)

SomethingFails ==
  \/ \E c \in Callers : NightCallFails(c) /\ Others
  \/ \E d \in Doors : DoorFails(d) /\ UNCHANGED pollVars
  \/ \E b \in Booths : BoothFails(b)

NightNext ==
  \/ StaffActs \/ SomethingFails
  \/ \E c \in Callers : CallerStep(c)
  \/ \E d \in Doors : GuestStep(d)
  \/ \E b \in Booths : VoterStep(b)

\* The interval goes on, and what is under way gets its answers.
NightFairness == /\ \A c \in Callers : WF_nightVars(CallerStep(c))
                 /\ \A d \in Doors : WF_nightVars(DoorStep(d) /\ UNCHANGED pollVars)
                 /\ \A b \in Booths : WF_nightVars(BoothStep(b))

NightSpec == NightInit /\ [][NightNext]_nightVars /\ NightFairness

-----------------------------------------------------------------------------
\* Sessions, check-ins, polls and requests stay well formed, and no vote or request
\* refers to a row that was never made.
NightTypeOK == SessionsTypeOK /\ CheckInsTypeOK /\ PollsTypeOK
=============================================================================
