------------------------------- MODULE Payments -------------------------------
(***************************************************************************)
(* Lesson fees of one month (payment.service.ts): payment by the student,  *)
(* cancellation, the hourly billing, the monthly closing and the payout to *)
(* coaches, with the payment provider as a ledger outside the database.    *)
(*                                                                         *)
(* Each call to the database or the provider is a step: nothing is done in *)
(* a transaction, any request may go on in between, a database call may    *)
(* fail and the process may stop.                                          *)
(***************************************************************************)
EXTENDS Integers, Sequences, FiniteSets

CONSTANTS
  Apps,         \* LessonApplication rows, confirmed and not ended
  Coaches,      \* CoachProfile rows
  CoachOf,      \* LessonOffer.coachProfileId of an application's lesson
  DefaultCard,  \* the default card of the student: "none", "good", "declined"
  Requests,     \* identities of requests under way at the same time
  Kinds,        \* the kinds of request that are made
  MaxRequests,  \* bound on the requests made, billing aside
  MaxFaults,    \* bound on the failing database calls and crashes
  None          \* SQL null

ASSUME PaymentsAssumption ==
  /\ CoachOf \in [Apps -> Coaches \cup {None}]
  /\ None \notin Apps \cup Coaches /\ Apps \cap Coaches = {}
  /\ DefaultCard \in [Apps -> {"none", "good", "declined"}]
  /\ MaxRequests \in Nat /\ MaxFaults \in Nat

VARIABLES
  pay,        \* LessonPayment rows of the month: status and pgTxId
  ledger,     \* the provider's charges for an application, in order
  batch,      \* CoachPayout rows of the month: status and what was summed up
  req,        \* the requests: where each stands and what it has read
  made, faults,
  disturbed   \* applications on which two requests met, a call failed or the
              \* process stopped (no state of the code)

rows == <<pay, ledger, batch>>
bounds == <<made, faults>>
vars == <<rows, bounds, req, disturbed>>

PaymentStatus == {"NONE", "PAID", "FAILED", "CANCELLED"}
NoPayment == [status |-> "NONE", tx |-> 0]
NoBatch == [status |-> "NONE", of |-> {}]

\* at: the call to come.  app, tx: what a charge or a cancellation is about,
\* good: whether the card chosen will be accepted.  todo: applications still to
\* be billed, coaches still to be settled.  sum: the payments summed up.
Fresh(what, l, a, k, g) == [kind |-> what, at |-> l, app |-> a, coach |-> k, tx |-> 0,
                            good |-> g, todo |-> {}, sum |-> {}]
Idle == Fresh("none", "idle", None, None, FALSE)

Init ==
  /\ pay = [a \in Apps |-> NoPayment]
  /\ ledger = [a \in Apps |-> <<>>]
  /\ batch = [k \in Coaches |-> NoBatch]
  /\ req = [p \in Requests |-> Idle]
  /\ made = 0 /\ faults = 0
  /\ disturbed = {}

-----------------------------------------------------------------------------
\* The applications a request works on or is going to, and those on which two
\* requests have met.
On(r) == ({r.app} \cup r.todo) \cap Apps
Met(rq) == {a \in Apps : \E p, q \in Requests : p # q /\ a \in On(rq[p]) \cap On(rq[q])}

At(p, l) == req[p].at = l
Become(p, r) == /\ req' = [req EXCEPT ![p] = r]
                /\ disturbed' = disturbed \cup Met(req')
Goto(p, l) == Become(p, [req[p] EXCEPT !.at = l])
Done(p) == Become(p, Idle)

Paid(a) == pay[a].status = "PAID"
Taken(a) == {i \in DOMAIN ledger[a] : ledger[a][i] = "CHARGED"}

Make(p) ==
  /\ At(p, "idle") /\ made < MaxRequests
  /\ \/ /\ "pay" \in Kinds
        /\ \E a \in Apps, g \in BOOLEAN : Become(p, Fresh("pay", "check", a, None, g))
     \/ /\ "cancel" \in Kinds
        /\ \E a \in Apps : Become(p, Fresh("cancel", "find", a, None, FALSE))
     \/ /\ "close" \in Kinds
        /\ Become(p, Fresh("close", "sum", None, None, FALSE))
     \/ /\ "payout" \in Kinds
        /\ \E k \in Coaches : Become(p, Fresh("payout", "look", None, k, FALSE))
  /\ made' = made + 1
  /\ UNCHANGED <<rows, faults>>

\* startBillingLoop, and the administrator's run-billing.
Tick(p) ==
  /\ At(p, "idle") /\ "bill" \in Kinds
  /\ Become(p, Fresh("bill", "list", None, None, FALSE))
  /\ UNCHANGED <<rows, bounds>>

-----------------------------------------------------------------------------
(* payLessonFee, runMonthlyBilling and chargeApplication                   *)

\* Mutated CheckUnpaid: the month is not looked up.
CheckNothing(p) ==
  /\ At(p, "check")
  /\ Goto(p, "charge")
  /\ UNCHANGED <<rows, bounds>>

CheckUnpaid(p) ==
  /\ At(p, "check")
  /\ IF Paid(req[p].app) THEN Done(p) ELSE Goto(p, "charge")
  /\ UNCHANGED <<rows, bounds>>

\* Mutated ListUnpaid: a month that was tried is not tried again.
ListUntried(p) ==
  /\ At(p, "list")
  /\ Become(p, [req[p] EXCEPT !.at = "next",
                   !.todo = {a \in Apps : pay[a] = NoPayment /\ DefaultCard[a] # "none"}])
  /\ UNCHANGED <<rows, bounds>>

\* runMonthlyBilling takes every month that is not PAID for one to bill, and
\* passes over students without a default card.
ListUnpaid(p) ==
  /\ At(p, "list")
  /\ Become(p, [req[p] EXCEPT !.at = "next",
                   !.todo = {a \in Apps : ~Paid(a) /\ DefaultCard[a] # "none"}])
  /\ UNCHANGED <<rows, bounds>>

BillNext(p) ==
  /\ At(p, "next")
  /\ IF req[p].todo = {} THEN Done(p)
     ELSE \E a \in req[p].todo :
            Become(p, [req[p] EXCEPT !.at = "charge", !.app = a, !.todo = @ \ {a},
                                     !.good = DefaultCard[a] = "good"])
  /\ UNCHANGED <<rows, bounds>>

\* The end of chargeApplication.
Charged(p) == IF req[p].kind = "bill"
              THEN Become(p, [req[p] EXCEPT !.at = "next", !.app = None, !.tx = 0])
              ELSE Done(p)

Charge(p) ==
  LET a == req[p].app
  IN  /\ At(p, "charge")
      /\ IF req[p].good
         THEN /\ ledger' = [ledger EXCEPT ![a] = Append(@, "CHARGED")]
              /\ Become(p, [req[p] EXCEPT !.at = "record", !.tx = Len(ledger[a]) + 1])
         ELSE Goto(p, "fail") /\ UNCHANGED ledger
      /\ UNCHANGED <<pay, batch, bounds>>

RecordPaid(p) ==
  /\ At(p, "record")
  /\ pay' = [pay EXCEPT ![req[p].app] = [status |-> "PAID", tx |-> req[p].tx]]
  /\ Goto(p, "flag")
  /\ UNCHANGED <<ledger, batch, bounds>>

\* lessonApplication.feePaid, which lab.service.ts writes too.
FlagPaid(p) ==
  /\ At(p, "flag")
  /\ Charged(p)
  /\ UNCHANGED <<rows, bounds>>

RecordFailed(p) ==
  /\ At(p, "fail")
  /\ pay' = [pay EXCEPT ![req[p].app] = [status |-> "FAILED", tx |-> 0]]
  /\ Charged(p)
  /\ UNCHANGED <<ledger, batch, bounds>>

-----------------------------------------------------------------------------
(* cancelLessonPayment                                                     *)

FindPaid(p) ==
  LET a == req[p].app
  IN  /\ At(p, "find")
      /\ IF Paid(a) THEN Become(p, [req[p] EXCEPT !.at = "refund", !.tx = pay[a].tx])
         ELSE Done(p)
      /\ UNCHANGED <<rows, bounds>>

\* The provider takes a second refund of the same charge without a word.
Refund(p) ==
  /\ At(p, "refund")
  /\ ledger' = [ledger EXCEPT ![req[p].app][req[p].tx] = "REFUNDED"]
  /\ Goto(p, "cancelled")
  /\ UNCHANGED <<pay, batch, bounds>>

RecordCancelled(p) ==
  /\ At(p, "cancelled")
  /\ pay' = [pay EXCEPT ![req[p].app].status = "CANCELLED"]
  /\ Done(p)
  /\ UNCHANGED <<ledger, batch, bounds>>

-----------------------------------------------------------------------------
(* closeSettlement and executePayout                                       *)

\* Mutated SumUp: sums up the failed payments as well.
SumUpTried(p) ==
  LET S == {a \in Apps : pay[a].status \in {"PAID", "FAILED"} /\ CoachOf[a] # None}
  IN  /\ At(p, "sum")
      /\ IF S = {} THEN Done(p)
         ELSE Become(p, [req[p] EXCEPT !.at = "upsert", !.sum = S,
                                       !.todo = {CoachOf[a] : a \in S}])
      /\ UNCHANGED <<rows, bounds>>

SumUp(p) ==
  LET S == {a \in Apps : Paid(a) /\ CoachOf[a] # None}
  IN  /\ At(p, "sum")
      /\ IF S = {} THEN Done(p)
         ELSE Become(p, [req[p] EXCEPT !.at = "upsert", !.sum = S,
                                       !.todo = {CoachOf[a] : a \in S}])
      /\ UNCHANGED <<rows, bounds>>

SumOf(p, k) == {a \in req[p].sum : CoachOf[a] = k}
NextCoach(p, k) == IF req[p].todo = {k} THEN Done(p)
                   ELSE Become(p, [req[p] EXCEPT !.at = "upsert", !.todo = @ \ {k}])

\* Creates the batch or reads it; one that is paid is left alone.
UpsertBatch(p) ==
  /\ At(p, "upsert")
  /\ \E k \in req[p].todo :
       /\ batch' = IF batch[k] = NoBatch
                   THEN [batch EXCEPT ![k] = [status |-> "PENDING", of |-> SumOf(p, k)]]
                   ELSE batch
       /\ IF batch[k].status = "PAID" THEN NextCoach(p, k)
          ELSE Become(p, [req[p] EXCEPT !.at = "amounts", !.coach = k])
  /\ UNCHANGED <<pay, ledger, bounds>>

WriteAmounts(p) ==
  LET k == req[p].coach
  IN  /\ At(p, "amounts")
      /\ batch' = [batch EXCEPT ![k].of = SumOf(p, k)]
      /\ NextCoach(p, k)
      /\ UNCHANGED <<pay, ledger, bounds>>

LookAtBatch(p) ==
  /\ At(p, "look")
  /\ IF batch[req[p].coach].status = "PENDING" THEN Goto(p, "transfer") ELSE Done(p)
  /\ UNCHANGED <<rows, bounds>>

MarkPaidOut(p) ==
  /\ At(p, "transfer")
  /\ batch' = [batch EXCEPT ![req[p].coach].status = "PAID"]
  /\ Done(p)
  /\ UNCHANGED <<pay, ledger, bounds>>

-----------------------------------------------------------------------------
(* Failures                                                                *)

\* A database call throws.  Between charge and end chargeApplication catches it
\* and records FAILED; anywhere else the request is over, the billing run too.
DbError(p) ==
  /\ faults < MaxFaults /\ faults' = faults + 1
  /\ req[p].at \notin {"idle", "refund"}
  /\ req' = [req EXCEPT ![p] = IF @.at \in {"record", "flag"}
                               THEN [@ EXCEPT !.at = "fail"] ELSE Idle]
  /\ disturbed' = disturbed \cup ({req[p].app} \cap Apps)
  /\ UNCHANGED <<rows, made>>

Crash ==
  /\ faults < MaxFaults /\ faults' = faults + 1
  /\ \E p \in Requests : ~At(p, "idle")
  /\ req' = [p \in Requests |-> Idle]
  /\ disturbed' = disturbed \cup ({req[p].app : p \in Requests} \cap Apps)
  /\ UNCHANGED <<rows, made>>

-----------------------------------------------------------------------------
Step(p) ==
  \/ CheckUnpaid(p) \/ ListUnpaid(p) \/ BillNext(p) \/ Charge(p)
  \/ RecordPaid(p) \/ FlagPaid(p) \/ RecordFailed(p)
  \/ FindPaid(p) \/ Refund(p) \/ RecordCancelled(p)
  \/ SumUp(p) \/ UpsertBatch(p) \/ WriteAmounts(p) \/ LookAtBatch(p) \/ MarkPaidOut(p)

Next == \/ \E p \in Requests : Make(p) \/ Tick(p) \/ Step(p) \/ DbError(p)
        \/ Crash

Spec == Init /\ [][Next]_vars

\* A request under way goes on, and the billing comes round every hour.
Fairness == /\ \A p \in Requests : WF_vars(Step(p))
            /\ WF_vars(\E p \in Requests : Tick(p))
FairSpec == Spec /\ Fairness

-----------------------------------------------------------------------------
(* Properties                                                              *)

Request ==
  [kind : {"none", "pay", "cancel", "bill", "close", "payout"},
   at : {"idle", "check", "list", "next", "charge", "record", "flag", "fail", "find",
         "refund", "cancelled", "sum", "upsert", "amounts", "look", "transfer"},
   app : Apps \cup {None}, coach : Coaches \cup {None}, tx : Nat, good : BOOLEAN,
   todo : SUBSET (Apps \cup Coaches), sum : SUBSET Apps]

\* Rows and requests are well formed whatever overlapped and failed.
TypeOK ==
  /\ pay \in [Apps -> [status : PaymentStatus, tx : Nat]]
  /\ ledger \in [Apps -> Seq({"CHARGED", "REFUNDED"})]
  /\ batch \in [Coaches -> [status : {"NONE", "PENDING", "PAID"}, of : SUBSET Apps]]
  /\ req \in [Requests -> Request]
  /\ made \in Nat /\ faults \in Nat
  /\ disturbed \subseteq Apps

\* A student's card was charged exactly once for the month if the month is
\* recorded as paid, by the transaction on record, and is not charged (or was
\* refunded) otherwise: unless two requests about this student met, a call
\* failed or the process stopped, over any number of payments, cancellations,
\* billings and students.
ChargedAsRecorded ==
  \A a \in Apps \ disturbed :
    (\A p \in Requests : req[p].app # a) =>
      Taken(a) = IF Paid(a) THEN {pay[a].tx} ELSE {}

\* No month is recorded as paid, and no coach is settled for it, without a
\* charge of that student at the provider, whatever overlapped or failed; and
\* nobody is settled for another coach's lesson.
MoneyBehindEveryRow ==
  /\ \A a \in Apps : Paid(a) => pay[a].tx \in DOMAIN ledger[a]
  /\ \A k \in Coaches : \A a \in batch[k].of : CoachOf[a] = k /\ ledger[a] # <<>>

\* payment.service.ts:192 "everyone whose month is unpaid": whatever failed
\* or was cancelled, the hourly billing ends with the month of everyone with a
\* working card paid.
EveryoneBilled == \A a \in Apps : DefaultCard[a] = "good" => <>[]Paid(a)

\* schema.prisma:788 "one payment a month", payment.service.ts:193 "idempotent
\* by unique(applicationId, period)".
ChargedOnce == \A a \in Apps : Cardinality(Taken(a)) <= 1

\* payment.service.ts:357 "closing again does not overwrite a batch that is
\* paid out".
PaidBatchKept == [][\A k \in Coaches : batch[k].status = "PAID" => batch'[k] = batch[k]]_vars
=============================================================================
