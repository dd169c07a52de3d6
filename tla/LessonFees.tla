----------------------------- MODULE LessonFees -----------------------------
(***************************************************************************)
(* Lesson fees paid by transfer (lab.service.ts): students report, the     *)
(* manager confirms or takes it back, and the column feePaid of the        *)
(* application is kept as a copy for the current month.  Each database     *)
(* call is a step; months pass while requests are under way.               *)
(***************************************************************************)
EXTENDS Integers, FiniteSets

CONSTANTS
  Students,   \* LessonApplication rows, confirmed and not ended
  FeeCalls,   \* the requests made
  LastMonth   \* bound: months are 1..LastMonth

ASSUME FeesAssumption == LastMonth \in Nat \ {0}

Months == 1..LastMonth

VARIABLES
  month,      \* currentPeriod()
  feeRecord,  \* LessonFeeRecord rows by student and month, "UNPAID" for no row
  feePaid,    \* LessonApplication.feePaid
  feeCall,    \* the requests
  flagMonth,  \* the month feePaid was last derived for, 0 for a card payment,
              \* which writes the column by itself (no state of the code)
  feeMet      \* students two requests were about at the same time, or a failed
              \* one (no state of the code)

feeVars == <<month, feeRecord, feePaid, feeCall, flagMonth, feeMet>>

NewFeeCall == [at |-> "new", app |-> "none", month |-> 0, paid |-> FALSE]

FeesInit ==
  /\ month = 1
  /\ feeRecord = [a \in Students |-> [m \in Months |-> "UNPAID"]]
  /\ feePaid = [a \in Students |-> FALSE]
  /\ feeCall = [c \in FeeCalls |-> NewFeeCall]
  /\ flagMonth = [a \in Students |-> 1]
  /\ feeMet = {}

FeeAt(c, l) == feeCall[c].at = l
UnderWay(fc) == {c \in FeeCalls : fc[c].at \notin {"new", "done"}}
FeesMet(fc) == {a \in Students : \E c, d \in UnderWay(fc) : c # d /\ fc[c].app = a /\ fc[d].app = a}
FeeBecomes(c, r) == /\ feeCall' = [feeCall EXCEPT ![c] = r]
                    /\ feeMet' = feeMet \cup FeesMet(feeCall')
FeeTo(c, l) == FeeBecomes(c, [feeCall[c] EXCEPT !.at = l])
FeeDone(c) == FeeBecomes(c, [NewFeeCall EXCEPT !.at = "done"])

MonthPasses == /\ month < LastMonth /\ month' = month + 1
               /\ UNCHANGED <<feeRecord, feePaid, feeCall, flagMonth, feeMet>>

\* Reports, and the manager's link, are for the current month; the operators'
\* screen names the month.
CallFee(c) ==
  /\ FeeAt(c, "new")
  /\ \E a \in Students :
       \/ FeeBecomes(c, [NewFeeCall EXCEPT !.at = "look", !.app = a])
       \/ \E m \in 1..month, k \in {"confirm", "unconfirm"} :
            FeeBecomes(c, [NewFeeCall EXCEPT !.at = k, !.app = a, !.month = m])
       \/ FeeBecomes(c, [NewFeeCall EXCEPT !.at = "withdraw", !.app = a, !.month = month])
       \/ FeeBecomes(c, [NewFeeCall EXCEPT !.at = "card", !.app = a])
  /\ UNCHANGED <<month, feeRecord, feePaid, flagMonth>>

-----------------------------------------------------------------------------
(* reportLessonFee, cancelLessonFeeReport                                  *)

\* Mutated LookReported: a record that is there is not looked at.
LookNowhere(c) ==
  /\ FeeAt(c, "look")
  /\ FeeBecomes(c, [feeCall[c] EXCEPT !.at = "report", !.month = month])
  /\ UNCHANGED <<month, feeRecord, feePaid, flagMonth>>

LookReported(c) ==
  /\ FeeAt(c, "look")
  /\ IF feeRecord[feeCall[c].app][month] = "CONFIRMED" THEN FeeDone(c)
     ELSE FeeBecomes(c, [feeCall[c] EXCEPT !.at = "report", !.month = month])
  /\ UNCHANGED <<month, feeRecord, feePaid, flagMonth>>

Record(c, s) == feeRecord' = [feeRecord EXCEPT ![feeCall[c].app][feeCall[c].month] = s]

\* The upsert, whatever the record has become.
WriteReport(c) ==
  /\ FeeAt(c, "report")
  /\ Record(c, "REPORTED")
  /\ FeeDone(c)
  /\ UNCHANGED <<month, feePaid, flagMonth>>

\* deleteMany where REPORTED: the condition is part of the call.
WithdrawReport(c) ==
  /\ FeeAt(c, "withdraw")
  /\ IF feeRecord[feeCall[c].app][feeCall[c].month] = "REPORTED" THEN Record(c, "UNPAID")
     ELSE UNCHANGED feeRecord
  /\ FeeDone(c)
  /\ UNCHANGED <<month, feePaid, flagMonth>>

-----------------------------------------------------------------------------
(* confirmLessonFee, unconfirmLessonFee, syncFeePaidFlag                   *)

\* The flag is written only for the current month, which is looked up here.
AfterRecord(c) == IF feeCall[c].month = month THEN FeeTo(c, "sync") ELSE FeeDone(c)

Confirm(c) ==
  /\ FeeAt(c, "confirm")
  /\ Record(c, "CONFIRMED")
  /\ AfterRecord(c)
  /\ UNCHANGED <<month, feePaid, flagMonth>>

\* Mutated Unconfirm: the flag is left as it was.
UnconfirmOnly(c) ==
  /\ FeeAt(c, "unconfirm")
  /\ Record(c, "UNPAID")
  /\ FeeDone(c)
  /\ UNCHANGED <<month, feePaid, flagMonth>>

Unconfirm(c) ==
  /\ FeeAt(c, "unconfirm")
  /\ Record(c, "UNPAID")
  /\ AfterRecord(c)
  /\ UNCHANGED <<month, feePaid, flagMonth>>

ReadRecord(c) ==
  /\ FeeAt(c, "sync")
  /\ FeeBecomes(c, [feeCall[c] EXCEPT !.at = "flag",
                      !.paid = feeRecord[feeCall[c].app][feeCall[c].month] = "CONFIRMED"])
  /\ UNCHANGED <<month, feeRecord, feePaid, flagMonth>>

WriteFlag(c) ==
  /\ FeeAt(c, "flag")
  /\ feePaid' = [feePaid EXCEPT ![feeCall[c].app] = feeCall[c].paid]
  /\ flagMonth' = [flagMonth EXCEPT ![feeCall[c].app] = feeCall[c].month]
  /\ FeeDone(c)
  /\ UNCHANGED <<month, feeRecord>>

\* chargeApplication of payment.service.ts sets the column and no record.
CardPaid(c) ==
  /\ FeeAt(c, "card")
  /\ feePaid' = [feePaid EXCEPT ![feeCall[c].app] = TRUE]
  /\ flagMonth' = [flagMonth EXCEPT ![feeCall[c].app] = 0]
  /\ FeeDone(c)
  /\ UNCHANGED <<month, feeRecord>>

\* A call to the database fails, or the process stops.
FeeCallFails(c) ==
  /\ c \in UnderWay(feeCall)
  /\ feeCall' = [feeCall EXCEPT ![c] = [NewFeeCall EXCEPT !.at = "done"]]
  /\ feeMet' = feeMet \cup {feeCall[c].app}
  /\ UNCHANGED <<month, feeRecord, feePaid, flagMonth>>

-----------------------------------------------------------------------------
FeesNext == MonthPasses \/ \E c \in FeeCalls :
  \/ CallFee(c) \/ LookReported(c) \/ WriteReport(c) \/ WithdrawReport(c)
  \/ Confirm(c) \/ Unconfirm(c) \/ ReadRecord(c) \/ WriteFlag(c) \/ CardPaid(c)
  \/ FeeCallFails(c)

FeesSpec == FeesInit /\ [][FeesNext]_feeVars

-----------------------------------------------------------------------------
(* Properties                                                              *)

FeesTypeOK ==
  /\ month \in Months
  /\ feeRecord \in [Students -> [Months -> {"UNPAID", "REPORTED", "CONFIRMED"}]]
  /\ feePaid \in [Students -> BOOLEAN]
  /\ feeCall \in [FeeCalls ->
       [at : {"new", "look", "report", "confirm", "unconfirm", "withdraw", "card", "sync",
              "flag", "done"},
        app : Students \cup {"none"}, month : Months \cup {0}, paid : BOOLEAN]]
  /\ flagMonth \in [Students -> Months \cup {0}]
  /\ feeMet \subseteq Students

\* schema.prisma:745: feePaid is derived from the record of the current month.  It
\* is so if the flag was last written this month by the lab, no two requests about
\* the student overlapped and none failed; when a month has passed since, or a card
\* was charged, the column says nothing about this month.
FlagFollowsRecord ==
  \A a \in Students \ feeMet :
    (\A c \in UnderWay(feeCall) : feeCall[c].app # a) /\ flagMonth[a] = month =>
      feePaid[a] = (feeRecord[a][month] = "CONFIRMED")

\* lab.service.ts:1441 "one that is confirmed is left alone": a confirmation falls
\* back to a report only if a report met another request, and never by
\* withdrawing a report.
ConfirmationStays ==
  [][\A a \in Students, m \in Months :
       feeRecord[a][m] = "CONFIRMED" /\ feeRecord'[a][m] # "CONFIRMED" =>
         \/ a \in feeMet
         \/ \E c \in FeeCalls : FeeAt(c, "unconfirm") /\ feeCall[c].app = a]_feeVars
=============================================================================
