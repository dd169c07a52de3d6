----------------------------- MODULE BackOffice -----------------------------
(***************************************************************************)
(* The parts of the server that share no row with each other or with the   *)
(* courts: timers of a game, seats and fees of a lesson, guests of a day,  *)
(* hiring, operators, tokens and duels.  What one of them does no other    *)
(* can see, so a behaviour here is a behaviour of one of them, chosen at   *)
(* the start: their states add up where a product would say no more.       *)
(***************************************************************************)
EXTENDS Jobs, LessonSeats, LessonFees, Guests, Hiring, Operators, Tokens, Rally

VARIABLES desk   \* the part that is at work

officeVars == <<desk, jobVars, seatVars, feeVars, guestVars, hiringVars, operatorVars,
                tokenVars, rallyVars>>

OfficeInit ==
  /\ desk \in {"jobs", "seats", "fees", "guests", "hiring", "operators", "tokens", "rally"}
  /\ JobsInit /\ SeatsInit /\ FeesInit /\ GuestsInit /\ HiringInit /\ OperatorsInit
  /\ TokensInit /\ RallyInit

JobsDesk == /\ desk = "jobs" /\ JobsNext
            /\ UNCHANGED <<desk, seatVars, feeVars, guestVars, hiringVars, operatorVars,
                           tokenVars, rallyVars>>
SeatsDesk == /\ desk = "seats" /\ SeatsNext
             /\ UNCHANGED <<desk, jobVars, feeVars, guestVars, hiringVars, operatorVars,
                            tokenVars, rallyVars>>
FeesDesk == /\ desk = "fees" /\ FeesNext
            /\ UNCHANGED <<desk, jobVars, seatVars, guestVars, hiringVars, operatorVars,
                           tokenVars, rallyVars>>
GuestsDesk == /\ desk = "guests" /\ GuestsNext
              /\ UNCHANGED <<desk, jobVars, seatVars, feeVars, hiringVars, operatorVars,
                             tokenVars, rallyVars>>
HiringDesk == /\ desk = "hiring" /\ HiringNext
              /\ UNCHANGED <<desk, jobVars, seatVars, feeVars, guestVars, operatorVars,
                             tokenVars, rallyVars>>
OperatorsDesk == /\ desk = "operators" /\ OperatorsNext
                 /\ UNCHANGED <<desk, jobVars, seatVars, feeVars, guestVars, hiringVars,
                                tokenVars, rallyVars>>
TokensDesk == /\ desk = "tokens" /\ TokensNext
              /\ UNCHANGED <<desk, jobVars, seatVars, feeVars, guestVars, hiringVars,
                             operatorVars, rallyVars>>
RallyDesk == /\ desk = "rally" /\ RallyNext
             /\ UNCHANGED <<desk, jobVars, seatVars, feeVars, guestVars, hiringVars,
                            operatorVars, tokenVars>>

OfficeNext == \/ JobsDesk \/ SeatsDesk \/ FeesDesk \/ GuestsDesk
              \/ HiringDesk \/ OperatorsDesk \/ TokensDesk \/ RallyDesk

\* The fairness of the parts; where another part is at work none of their steps is
\* ever enabled.
OfficeFairness == JobsFairness /\ RallyFairness

OfficeSpec == OfficeInit /\ [][OfficeNext]_officeVars /\ OfficeFairness

-----------------------------------------------------------------------------
\* Rows and requests of every part stay well formed: a status is one that the
\* rest of the code knows (most are strings to the schema), and nothing refers to a row that is not there.
OfficeTypeOK == /\ JobsTypeOK /\ SeatsTypeOK /\ FeesTypeOK /\ GuestsTypeOK
                /\ HiringTypeOK /\ OperatorsTypeOK /\ TokensTypeOK /\ RallyTypeOK
=============================================================================
