---------------------------- MODULE PaymentsProofs ----------------------------
(***************************************************************************)
(* What Payments keeps for every number of students, coaches, requests and *)
(* failures: every row typed, money at the provider behind every row, and  *)
(* where no two requests met and nothing failed, a card charged exactly as *)
(* the month is recorded.                                                  *)
(***************************************************************************)
EXTENDS Payments, SequenceTheorems, TLAPS

-----------------------------------------------------------------------------
(* The inductive invariant                                                 *)

\* A request that works on a student names one, one about to record a charge
\* names a charge of the provider, and one that settles sums up charged months.
RequestOK(r) ==
  /\ r.at \in {"check", "charge", "record", "flag", "fail", "find", "refund", "cancelled"}
       => r.app \in Apps
  /\ r.at = "record" => r.tx \in DOMAIN ledger[r.app]
  /\ r.at \in {"list", "next"} => r.kind = "bill"
  /\ r.at \in {"sum", "upsert", "amounts"} => r.kind = "close"
  /\ r.kind = "bill" => r.todo \subseteq Apps
  /\ r.kind = "close" => r.todo \subseteq Coaches
  /\ r.at \in {"list", "sum"} => r.app = None
  /\ r.app \notin r.todo
  /\ \A a \in r.sum : ledger[a] # <<>>

RequestsOK == \A p \in Requests : RequestOK(req[p])

\* Between the provider's answer and the row about it.
Pending(r, a) == r.app = a /\ r.at \in {"record", "cancelled"}

Consistent(a) == Taken(a) = IF Paid(a) THEN {pay[a].tx} ELSE {}

\* What a request has read about a student is still so.
Agrees(r, a) ==
  /\ r.app = a =>
       /\ r.at \in {"charge", "fail"} => ~Paid(a)
       /\ r.at = "record" => ~Paid(a) /\ Taken(a) = {r.tx}
       /\ r.at = "refund" => Paid(a) /\ pay[a].tx = r.tx
       /\ r.at = "cancelled" => Paid(a) /\ Taken(a) = {}
  /\ a \in r.todo => ~Paid(a)

Undisturbed(a) ==
  /\ (\A p \in Requests : ~Pending(req[p], a)) => Consistent(a)
  /\ \A p \in Requests : Agrees(req[p], a)

Inv ==
  /\ TypeOK
  /\ RequestsOK
  /\ MoneyBehindEveryRow
  /\ Met(req) \subseteq disturbed
  /\ \A a \in Apps \ disturbed : Undisturbed(a)

-----------------------------------------------------------------------------
(* Lemmas                                                                  *)

(* A charge appended to an application's ledger is one taken more.         *)
LEMMA TakenAppend ==
  ASSUME NEW s \in Seq({"CHARGED", "REFUNDED"}), NEW t,
         t = Append(s, "CHARGED")
  PROVE  /\ t \in Seq({"CHARGED", "REFUNDED"})
         /\ Len(s) + 1 \in DOMAIN t /\ DOMAIN s \subseteq DOMAIN t
         /\ {i \in DOMAIN t : t[i] = "CHARGED"}
              = {i \in DOMAIN s : s[i] = "CHARGED"} \cup {Len(s) + 1}
<1>1. /\ DOMAIN s = 1..Len(s) /\ Len(s) \in Nat
      /\ t \in Seq({"CHARGED", "REFUNDED"}) /\ Len(t) = Len(s) + 1 /\ DOMAIN t = 1..Len(t)
      /\ \A i \in 1..Len(s) : t[i] = s[i]
      /\ t[Len(s) + 1] = "CHARGED"
  OBVIOUS
<1>2. DOMAIN t = (DOMAIN s) \cup {Len(s) + 1}
  BY <1>1
<1>. QED
  BY <1>1, <1>2

(* A refunded charge is taken no more, and stays in the ledger.            *)
LEMMA TakenRefund ==
  ASSUME NEW s \in Seq({"CHARGED", "REFUNDED"}), NEW x, NEW t,
         t = [s EXCEPT ![x] = "REFUNDED"]
  PROVE  /\ t \in Seq({"CHARGED", "REFUNDED"}) /\ DOMAIN t = DOMAIN s
         /\ {i \in DOMAIN t : t[i] = "CHARGED"}
              = {i \in DOMAIN s : s[i] = "CHARGED"} \ {x}
<1>1. DOMAIN s = 1..Len(s) /\ Len(s) \in Nat /\ s \in [1..Len(s) -> {"CHARGED", "REFUNDED"}]
  OBVIOUS
<1>2. t \in [1..Len(s) -> {"CHARGED", "REFUNDED"}]
  BY <1>1
<1>3. t \in Seq({"CHARGED", "REFUNDED"})
  BY <1>1, <1>2
<1>4. \A i \in DOMAIN s : t[i] = IF i = x THEN "REFUNDED" ELSE s[i]
  BY <1>1
<1>. QED
  BY <1>1, <1>2, <1>3, <1>4

(* A request that works on an undisturbed student does so alone.           *)
LEMMA AloneOn ==
  ASSUME Inv, NEW p \in Requests, NEW r \in Request, Become(p, r),
         NEW a \in Apps \ disturbed', a \in On(req[p]) \cup On(r)
  PROVE  /\ a \in Apps \ disturbed
         /\ \A q \in Requests \ {p} : req[q].app # a /\ a \notin req[q].todo
         /\ Agrees(req[p], a)
         /\ ~Pending(req[p], a) => Consistent(a)
<1>1. /\ disturbed \subseteq disturbed' /\ Met(req') \subseteq disturbed'
      /\ Met(req) \subseteq disturbed
      /\ req' = [req EXCEPT ![p] = r] /\ req \in [Requests -> Request]
  BY DEF Become, Inv, TypeOK
<1>2. a \in Apps \ disturbed /\ Undisturbed(a)
  BY <1>1 DEF Inv
<1>3. ASSUME NEW q \in Requests \ {p}  PROVE a \notin On(req[q])
  <2>1. CASE a \in On(req[p])
    BY <1>1, <1>2, <1>3, <2>1 DEF Met
  <2>2. CASE a \in On(r)
    <3>1. req'[p] = r /\ req'[q] = req[q]
      BY <1>1, <1>3
    <3>. QED
      BY <1>1, <1>3, <2>2, <3>1 DEF Met
  <2>. QED
    BY <2>1, <2>2
<1>4. \A q \in Requests \ {p} : req[q].app # a /\ a \notin req[q].todo
  BY <1>2, <1>3 DEF On
<1>. QED
  BY <1>2, <1>4 DEF Undisturbed, Pending

(* A step of one request keeps the invariant when it touches the rows of no *)
(* student but its own, takes nothing off the ledger, and what it knows     *)
(* afterwards is so.                                                        *)
LEMMA StepKeeps ==
  ASSUME Inv, NEW p \in Requests, NEW r \in Request, Become(p, r),
         pay' \in [Apps -> [status : PaymentStatus, tx : Nat]],
         ledger' \in [Apps -> Seq({"CHARGED", "REFUNDED"})],
         batch' \in [Coaches -> [status : {"NONE", "PENDING", "PAID"}, of : SUBSET Apps]],
         made' \in Nat, faults' \in Nat,
         \A a \in Apps : DOMAIN ledger[a] \subseteq DOMAIN ledger'[a],
         \A a \in Apps : a # req[p].app => pay'[a] = pay[a] /\ ledger'[a] = ledger[a],
         RequestOK(r)', MoneyBehindEveryRow',
         \A a \in Apps \ disturbed' :
            a \in On(req[p]) \cup On(r) =>
               Agrees(r, a)' /\ (Pending(r, a) \/ Consistent(a)')
  PROVE  Inv'
<1>1. /\ req' = [req EXCEPT ![p] = r] /\ disturbed' = disturbed \cup Met(req')
      /\ req \in [Requests -> Request] /\ disturbed \subseteq Apps
  BY DEF Become, Inv, TypeOK
<1>2. req' \in [Requests -> Request] /\ req'[p] = r /\ \A q \in Requests \ {p} : req'[q] = req[q]
  BY <1>1
<1>3. TypeOK'
  <2>1. disturbed' \subseteq Apps
    BY <1>1 DEF Met
  <2>. QED
    BY <1>2, <2>1 DEF TypeOK
<1>4. RequestsOK'
  <2>1. ASSUME NEW q \in Requests \ {p}  PROVE RequestOK(req[q])'
    <3>1. RequestOK(req[q]) /\ req'[q] = req[q] /\ req[q] \in Request
      BY <1>1, <1>2 DEF Inv, RequestsOK
    <3>2. \A a \in Apps : ledger[a] # <<>> => ledger'[a] # <<>>
      <4>1. \A a \in Apps : ledger[a] \in Seq({"CHARGED", "REFUNDED"})
                             /\ ledger'[a] \in Seq({"CHARGED", "REFUNDED"})
        BY DEF Inv, TypeOK
      <4>2. \A s \in Seq({"CHARGED", "REFUNDED"}) : s = <<>> <=> DOMAIN s = {}
        OBVIOUS
      <4>. QED
        BY <4>1, <4>2
    <3>3. req[q].sum \subseteq Apps
      BY <3>1 DEF Request
    <3>4. req[q].at = "record" => req[q].tx \in DOMAIN ledger'[req[q].app]
      BY <3>1 DEF RequestOK
    <3>. QED
      BY <3>1, <3>2, <3>3, <3>4 DEF RequestOK
  <2>2. RequestOK(req[p])'
    BY <1>2 DEF RequestOK
  <2>. QED
    BY <2>1, <2>2 DEF RequestsOK
<1>5. (Met(req) \subseteq disturbed)'
  BY <1>1 DEF Met, On
<1>6. ASSUME NEW a \in Apps \ disturbed'  PROVE Undisturbed(a)'
  <2>1. CASE a \in On(req[p]) \cup On(r)
    <3>1. \A q \in Requests \ {p} : req[q].app # a /\ a \notin req[q].todo
      BY <1>6, <2>1, AloneOn
    <3>2. Agrees(r, a)' /\ (Pending(r, a) \/ Consistent(a)')
      BY <1>6, <2>1
    <3>3. \A q \in Requests : Agrees(req[q], a)'
      BY <1>2, <3>1, <3>2 DEF Agrees
    <3>4. Pending(r, a) => Pending(req[p], a)'
      BY <1>2 DEF Pending
    <3>. QED
      BY <3>2, <3>3, <3>4 DEF Undisturbed
  <2>2. CASE a \notin On(req[p]) \cup On(r)
    <3>1. a # req[p].app /\ a \notin req[p].todo /\ a # r.app /\ a \notin r.todo
      BY <2>2 DEF On
    <3>2. pay'[a] = pay[a] /\ ledger'[a] = ledger[a]
      BY <3>1
    <3>3. Undisturbed(a)
      BY <1>1, <1>6 DEF Inv
    <3>4. (Paid(a)' <=> Paid(a)) /\ Taken(a)' = Taken(a)
      BY <3>2 DEF Paid, Taken
    <3>5. \A q \in Requests : Agrees(req[q], a)'
      BY <1>2, <3>1, <3>2, <3>3, <3>4 DEF Agrees, Undisturbed
    <3>6. Consistent(a)' <=> Consistent(a)
      BY <3>2, <3>4 DEF Consistent
    <3>7. \A q \in Requests : Pending(req[q], a) <=> Pending(req[q], a)'
      BY <1>2, <3>1 DEF Pending
    <3>. QED
      BY <3>3, <3>5, <3>6, <3>7 DEF Undisturbed
  <2>. QED
    BY <2>1, <2>2
<1>. QED
  BY <1>3, <1>4, <1>5, <1>6 DEF Inv

(* A step of one request that touches no row keeps the invariant when what *)
(* it knows afterwards is so.                                              *)
LEMMA ReadKeeps ==
  ASSUME Inv, NEW p \in Requests, NEW r \in Request, Become(p, r),
         UNCHANGED rows, made' \in Nat, faults' \in Nat,
         RequestOK(r),
         req[p].at \notin {"record", "cancelled"}, r.at \notin {"record", "cancelled"},
         \A a \in Apps : Agrees(req[p], a) => Agrees(r, a)
  PROVE  Inv'
<1>1. pay' = pay /\ ledger' = ledger /\ batch' = batch
  BY DEF rows
<1>2. /\ pay' \in [Apps -> [status : PaymentStatus, tx : Nat]]
      /\ ledger' \in [Apps -> Seq({"CHARGED", "REFUNDED"})]
      /\ batch' \in [Coaches -> [status : {"NONE", "PENDING", "PAID"}, of : SUBSET Apps]]
  BY <1>1 DEF Inv, TypeOK
<1>3. RequestOK(r)'
  BY <1>1 DEF RequestOK
<1>4. MoneyBehindEveryRow'
  BY <1>1 DEF Inv, MoneyBehindEveryRow, Paid
<1>5. ASSUME NEW a \in Apps \ disturbed', a \in On(req[p]) \cup On(r)
      PROVE  Agrees(r, a)' /\ Consistent(a)'
  <2>1. Agrees(req[p], a) /\ Consistent(a)
    BY <1>5, AloneOn DEF Pending
  <2>2. Agrees(r, a) /\ Consistent(a)
    BY <2>1
  <2>. QED
    BY <1>1, <2>2 DEF Agrees, Consistent, Paid, Taken
<1>. QED
  BY <1>1, <1>2, <1>3, <1>4, <1>5, StepKeeps

-----------------------------------------------------------------------------
(* One lemma per action                                                    *)

LEMMA InitKeeps == Init => Inv
<1>. SUFFICES ASSUME Init PROVE Inv
  OBVIOUS
<1>1. Idle \in Request /\ Idle.app = None /\ Idle.todo = {} /\ Idle.at = "idle" /\ Idle.sum = {}
      /\ Idle.kind = "none"
  BY DEF Idle, Fresh, Request
<1>2. TypeOK
  BY <1>1 DEF Init, TypeOK, NoPayment, NoBatch, PaymentStatus
<1>3. RequestsOK
  BY <1>1 DEF Init, RequestsOK, RequestOK
<1>4. MoneyBehindEveryRow
  BY DEF Init, MoneyBehindEveryRow, Paid, NoPayment, NoBatch
<1>5. Met(req) \subseteq disturbed
  BY <1>1, PaymentsAssumption DEF Init, Met, On
<1>6. ASSUME NEW a \in Apps  PROVE Undisturbed(a)
  <2>1. ~Paid(a) /\ Taken(a) = {}
    BY DEF Init, Paid, Taken, NoPayment
  <2>. QED
    BY <1>1, <2>1, PaymentsAssumption DEF Init, Undisturbed, Consistent, Agrees
<1>. QED
  BY <1>2, <1>3, <1>4, <1>5, <1>6 DEF Inv

(* What is known of a request under way.                                   *)
LEMMA UnderWay ==
  ASSUME Inv, NEW p \in Requests
  PROVE  /\ req[p] \in Request /\ RequestOK(req[p])
         /\ made \in Nat /\ faults \in Nat
         /\ Idle \in Request /\ RequestOK(Idle) /\ Idle.at = "idle"
         /\ \A a \in Apps : Agrees(Idle, a)
<1>1. Idle \in Request
  BY DEF Idle, Fresh, Request
<1>2. RequestOK(Idle) /\ \A a \in Apps : Agrees(Idle, a)
  BY PaymentsAssumption DEF Idle, Fresh, RequestOK, Agrees
<1>. QED
  BY <1>1, <1>2 DEF Inv, TypeOK, RequestsOK, Idle, Fresh

(* A request that is over, its rows left as they are.                      *)
LEMMA DoneKeeps ==
  ASSUME Inv, NEW p \in Requests, Done(p), UNCHANGED <<rows, bounds>>,
         req[p].at \notin {"record", "cancelled"}
  PROVE  Inv'
<1>1. /\ Idle \in Request /\ Become(p, Idle) /\ RequestOK(Idle) /\ Idle.at = "idle"
      /\ \A a \in Apps : Agrees(Idle, a)
      /\ UNCHANGED rows /\ made' \in Nat /\ faults' \in Nat
  BY UnderWay DEF Done, bounds
<1>. QED
  BY <1>1, ReadKeeps

LEMMA MakeKeeps ==
  ASSUME Inv, NEW p \in Requests, Make(p)
  PROVE  Inv'
<1>1. /\ req[p].at = "idle" /\ UNCHANGED rows
      /\ made' \in Nat /\ faults' \in Nat
  BY UnderWay DEF Make, At
<1>. DEFINE OK == {n \in Request : RequestOK(n) /\ n.at \in {"check", "find", "sum", "look"}
                                                 /\ n.todo = {}}
<1>2. PICK r \in OK : Become(p, r)
  <2>1. ASSUME NEW a \in Apps, NEW g \in BOOLEAN  PROVE Fresh("pay", "check", a, None, g) \in OK
    BY PaymentsAssumption DEF Fresh, Request, RequestOK
  <2>2. ASSUME NEW a \in Apps  PROVE Fresh("cancel", "find", a, None, FALSE) \in OK
    BY PaymentsAssumption DEF Fresh, Request, RequestOK
  <2>3. Fresh("close", "sum", None, None, FALSE) \in OK
    BY DEF Fresh, Request, RequestOK
  <2>4. ASSUME NEW k \in Coaches  PROVE Fresh("payout", "look", None, k, FALSE) \in OK
    BY DEF Fresh, Request, RequestOK
  <2>. HIDE DEF OK
  <2>. QED
    BY <2>1, <2>2, <2>3, <2>4 DEF Make
<1>3. \A a \in Apps : Agrees(r, a)
  BY DEF Agrees
<1>. QED
  BY <1>1, <1>2, <1>3, ReadKeeps

LEMMA TickKeeps ==
  ASSUME Inv, NEW p \in Requests, Tick(p)
  PROVE  Inv'
<1>. DEFINE r == Fresh("bill", "list", None, None, FALSE)
<1>1. /\ req[p].at = "idle" /\ UNCHANGED rows /\ Become(p, r)
      /\ made' \in Nat /\ faults' \in Nat
  BY UnderWay DEF Tick, At, bounds
<1>2. r \in Request /\ RequestOK(r) /\ r.at = "list" /\ r.todo = {}
  BY PaymentsAssumption DEF Fresh, Request, RequestOK
<1>3. \A a \in Apps : Agrees(r, a)
  BY <1>2 DEF Agrees
<1>. HIDE DEF r
<1>. QED
  BY <1>1, <1>2, <1>3, ReadKeeps

LEMMA CheckUnpaidKeeps ==
  ASSUME Inv, NEW p \in Requests, CheckUnpaid(p)
  PROVE  Inv'
<1>. DEFINE r == [req[p] EXCEPT !.at = "charge"]
<1>1. req[p].at = "check" /\ UNCHANGED <<rows, bounds>>
  BY DEF CheckUnpaid, At
<1>2. CASE Paid(req[p].app)
  BY <1>1, <1>2, DoneKeeps DEF CheckUnpaid
<1>3. CASE ~Paid(req[p].app)
  <2>1. Become(p, r) /\ UNCHANGED rows /\ made' \in Nat /\ faults' \in Nat
    BY <1>1, <1>3, UnderWay DEF CheckUnpaid, Goto, bounds
  <2>2. r \in Request /\ RequestOK(r) /\ r.at = "charge"
    BY <1>1, UnderWay DEF Request, RequestOK
  <2>3. ASSUME NEW a \in Apps, Agrees(req[p], a)  PROVE Agrees(r, a)
    BY <1>3, <2>3, UnderWay DEF Agrees, Request
  <2>. HIDE DEF r
  <2>. QED
    BY <1>1, <2>1, <2>2, <2>3, ReadKeeps
<1>. QED
  BY <1>2, <1>3

LEMMA ListUnpaidKeeps ==
  ASSUME Inv, NEW p \in Requests, ListUnpaid(p)
  PROVE  Inv'
<1>. DEFINE S == {a \in Apps : ~Paid(a) /\ DefaultCard[a] # "none"}
            r == [req[p] EXCEPT !.at = "next", !.todo = S]
<1>1. /\ req[p].at = "list" /\ UNCHANGED rows /\ Become(p, r)
      /\ made' \in Nat /\ faults' \in Nat
  BY UnderWay DEF ListUnpaid, At, bounds
<1>2. r \in Request /\ RequestOK(r) /\ r.at = "next"
  <2>1. S \subseteq Apps /\ req[p] \in Request /\ RequestOK(req[p]) /\ req[p].at = "list"
    BY <1>1, UnderWay
  <2>. HIDE DEF S
  <2>2. /\ r \in Request /\ r.at = "next" /\ r.todo = S /\ r.kind = req[p].kind
        /\ r.app = req[p].app /\ r.sum = req[p].sum
    BY <2>1 DEF Request
  <2>. HIDE DEF r
  <2>3. RequestOK(r)
    BY <2>1, <2>2, PaymentsAssumption DEF RequestOK
  <2>. QED
    BY <2>2, <2>3
<1>3. ASSUME NEW a \in Apps, Agrees(req[p], a)  PROVE Agrees(r, a)
  BY <1>2, <1>3, UnderWay DEF Agrees, Request
<1>. HIDE DEF r
<1>. QED
  BY <1>1, <1>2, <1>3, ReadKeeps

LEMMA BillNextKeeps ==
  ASSUME Inv, NEW p \in Requests, BillNext(p)
  PROVE  Inv'
<1>1. req[p].at = "next" /\ UNCHANGED <<rows, bounds>>
  BY DEF BillNext, At
<1>2. CASE req[p].todo = {}
  BY <1>1, <1>2, DoneKeeps DEF BillNext
<1>3. CASE req[p].todo # {}
  <2>1. PICK b \in req[p].todo :
          Become(p, [req[p] EXCEPT !.at = "charge", !.app = b, !.todo = @ \ {b},
                                   !.good = DefaultCard[b] = "good"])
    BY <1>3 DEF BillNext
  <2>. DEFINE g == DefaultCard[b] = "good"
              r == [req[p] EXCEPT !.at = "charge", !.app = b, !.todo = req[p].todo \ {b}, !.good = g]
  <2>2. req[p] \in Request /\ RequestOK(req[p]) /\ b \in Apps /\ g \in BOOLEAN
    BY <1>1, UnderWay DEF RequestOK
  <2>3. Become(p, r) /\ UNCHANGED rows /\ made' \in Nat /\ faults' \in Nat
    BY <1>1, <2>1, UnderWay DEF bounds
  <2>. HIDE DEF g
  <2>4. /\ r \in Request /\ r.at = "charge" /\ r.app = b /\ r.todo = req[p].todo \ {b}
        /\ r.kind = req[p].kind /\ r.sum = req[p].sum
    BY <2>2 DEF Request
  <2>. HIDE DEF r
  <2>5. RequestOK(r)
    BY <2>2, <2>4 DEF RequestOK
  <2>6. ASSUME NEW a \in Apps, Agrees(req[p], a)  PROVE Agrees(r, a)
    BY <2>4, <2>6 DEF Agrees
  <2>. QED
    BY <1>1, <2>3, <2>4, <2>5, <2>6, ReadKeeps
<1>. QED
  BY <1>2, <1>3

(* What a request is after a charge is dealt with.                         *)
LEMMA AfterCharge ==
  ASSUME Inv, NEW p \in Requests, Charged(p),
         req[p].at \in {"flag", "fail"}
  PROVE  \E r \in Request :
           /\ Become(p, r) /\ RequestOK(r) /\ r.at \in {"next", "idle"}
           /\ r.app = None /\ r.todo \subseteq req[p].todo /\ r.sum \subseteq req[p].sum
<1>. DEFINE r == [req[p] EXCEPT !.at = "next", !.app = None, !.tx = 0]
<1>1. CASE req[p].kind = "bill"
  <2>1. /\ r \in Request /\ r.at = "next" /\ r.app = None /\ r.todo = req[p].todo
        /\ r.kind = req[p].kind /\ r.sum = req[p].sum
    BY UnderWay DEF Request
  <2>2. Become(p, r)
    BY <1>1 DEF Charged
  <2>. HIDE DEF r
  <2>3. RequestOK(r)
    BY <1>1, <2>1, UnderWay, PaymentsAssumption DEF RequestOK, Request
  <2>. QED
    BY <2>1, <2>2, <2>3
<1>2. CASE req[p].kind # "bill"
  BY <1>2, UnderWay DEF Charged, Done, Idle, Fresh
<1>. QED
  BY <1>1, <1>2

LEMMA FlagPaidKeeps ==
  ASSUME Inv, NEW p \in Requests, FlagPaid(p)
  PROVE  Inv'
<1>1. /\ req[p].at = "flag" /\ UNCHANGED rows /\ Charged(p)
      /\ made' \in Nat /\ faults' \in Nat
  BY UnderWay DEF FlagPaid, At, bounds
<1>2. PICK r \in Request :
        /\ Become(p, r) /\ RequestOK(r) /\ r.at \in {"next", "idle"}
        /\ r.app = None /\ r.todo \subseteq req[p].todo
  BY <1>1, AfterCharge
<1>3. ASSUME NEW a \in Apps, Agrees(req[p], a)  PROVE Agrees(r, a)
  BY <1>2, <1>3, PaymentsAssumption DEF Agrees
<1>. QED
  BY <1>1, <1>2, <1>3, ReadKeeps

LEMMA FindPaidKeeps ==
  ASSUME Inv, NEW p \in Requests, FindPaid(p)
  PROVE  Inv'
<1>. DEFINE b == req[p].app
            t == pay[b].tx
            r == [req[p] EXCEPT !.at = "refund", !.tx = t]
<1>1. req[p].at = "find" /\ UNCHANGED <<rows, bounds>>
  BY DEF FindPaid, At
<1>2. CASE ~Paid(b)
  BY <1>1, <1>2, DoneKeeps DEF FindPaid
<1>3. CASE Paid(b)
  <2>1. Become(p, r) /\ UNCHANGED rows /\ made' \in Nat /\ faults' \in Nat
    BY <1>1, <1>3, UnderWay DEF FindPaid, bounds
  <2>2. req[p] \in Request /\ RequestOK(req[p]) /\ b \in Apps
    BY <1>1, UnderWay DEF RequestOK
  <2>3. t \in Nat
    BY <2>2 DEF Inv, TypeOK
  <2>4. /\ r \in Request /\ r.at = "refund" /\ r.app = b /\ r.todo = req[p].todo
        /\ r.kind = req[p].kind /\ r.sum = req[p].sum /\ r.tx = t
    <3>. HIDE DEF t
    <3>. QED
      BY <2>2, <2>3 DEF Request
  <2>. HIDE DEF r
  <2>5. RequestOK(r)
    BY <2>2, <2>4 DEF RequestOK
  <2>6. ASSUME NEW a \in Apps, Agrees(req[p], a)  PROVE Agrees(r, a)
    BY <1>3, <2>4, <2>6 DEF Agrees
  <2>. QED
    BY <1>1, <2>1, <2>4, <2>5, <2>6, ReadKeeps
<1>. QED
  BY <1>2, <1>3

LEMMA SumUpKeeps ==
  ASSUME Inv, NEW p \in Requests, SumUp(p)
  PROVE  Inv'
<1>. DEFINE S == {a \in Apps : Paid(a) /\ CoachOf[a] # None}
            K == {CoachOf[a] : a \in S}
            r == [req[p] EXCEPT !.at = "upsert", !.sum = S, !.todo = K]
<1>1. req[p].at = "sum" /\ UNCHANGED <<rows, bounds>>
  BY DEF SumUp, At
<1>2. CASE S = {}
  BY <1>1, <1>2, DoneKeeps DEF SumUp
<1>3. CASE S # {}
  <2>1. Become(p, r) /\ UNCHANGED rows /\ made' \in Nat /\ faults' \in Nat
    BY <1>1, <1>3, UnderWay DEF SumUp, bounds
  <2>2. req[p] \in Request /\ RequestOK(req[p])
    BY UnderWay
  <2>3. S \subseteq Apps /\ K \subseteq Coaches
    BY PaymentsAssumption
  <2>4. \A a \in S : ledger[a] # <<>>
    BY DEF Inv, MoneyBehindEveryRow
  <2>. HIDE DEF S, K
  <2>5. /\ r \in Request /\ r.at = "upsert" /\ r.app = req[p].app /\ r.todo = K
        /\ r.kind = req[p].kind /\ r.sum = S
    BY <2>2, <2>3 DEF Request
  <2>. HIDE DEF r
  <2>6. RequestOK(r) /\ r.todo \cap Apps = {} /\ r.app = None
    BY <1>1, <2>2, <2>3, <2>4, <2>5, PaymentsAssumption DEF RequestOK
  <2>7. ASSUME NEW a \in Apps, Agrees(req[p], a)  PROVE Agrees(r, a)
    BY <2>5, <2>6, PaymentsAssumption DEF Agrees
  <2>. QED
    BY <1>1, <2>1, <2>5, <2>6, <2>7, ReadKeeps
<1>. QED
  BY <1>2, <1>3

LEMMA LookAtBatchKeeps ==
  ASSUME Inv, NEW p \in Requests, LookAtBatch(p)
  PROVE  Inv'
<1>. DEFINE r == [req[p] EXCEPT !.at = "transfer"]
<1>1. req[p].at = "look" /\ UNCHANGED <<rows, bounds>> /\ (Done(p) \/ Become(p, r))
  BY DEF LookAtBatch, At, Goto
<1>2. CASE Done(p)
  BY <1>1, <1>2, DoneKeeps
<1>3. CASE Become(p, r)
  <2>1. UNCHANGED rows /\ made' \in Nat /\ faults' \in Nat
    BY <1>1, UnderWay DEF bounds
  <2>2. r \in Request /\ RequestOK(r) /\ r.at = "transfer"
    BY UnderWay DEF Request, RequestOK
  <2>3. ASSUME NEW a \in Apps, Agrees(req[p], a)  PROVE Agrees(r, a)
    BY <2>3, UnderWay DEF Agrees, Request
  <2>. HIDE DEF r
  <2>. QED
    BY <1>1, <1>3, <2>1, <2>2, <2>3, ReadKeeps
<1>. QED
  BY <1>1, <1>2, <1>3

(* The student a request writes about, when its two ends are known.        *)
LEMMA OwnRow ==
  ASSUME Inv, NEW p \in Requests, NEW r \in Request, Become(p, r),
         r.todo \subseteq req[p].todo, r.app \in {None, req[p].app},
         NEW a \in Apps \ disturbed', a \in On(req[p]) \cup On(r)
  PROVE  /\ a = req[p].app \/ a \in req[p].todo
         /\ a = req[p].app => a \notin req[p].todo
         /\ Agrees(req[p], a) /\ (~Pending(req[p], a) => Consistent(a))
<1>1. a = req[p].app \/ a \in req[p].todo
  BY PaymentsAssumption DEF On
<1>2. Agrees(req[p], a) /\ (~Pending(req[p], a) => Consistent(a))
  BY AloneOn
<1>. QED
  BY <1>1, <1>2, UnderWay DEF RequestOK

LEMMA ChargeKeeps ==
  ASSUME Inv, NEW p \in Requests, Charge(p)
  PROVE  Inv'
<1>1. /\ req[p].at = "charge" /\ UNCHANGED <<pay, batch, bounds>>
      /\ req[p] \in Request /\ RequestOK(req[p])
      /\ made' \in Nat /\ faults' \in Nat
  BY UnderWay DEF Charge, At, bounds
<1>2. PICK b \in Apps : b = req[p].app
  BY <1>1 DEF RequestOK
<1>3. CASE ~req[p].good
  <2>. DEFINE f == [req[p] EXCEPT !.at = "fail"]
  <2>1. Become(p, f) /\ UNCHANGED rows
    BY <1>1, <1>3 DEF Charge, Goto, rows
  <2>2. f \in Request /\ RequestOK(f) /\ f.at = "fail" /\ f.app = b /\ f.todo = req[p].todo
    BY <1>1, <1>2 DEF Request, RequestOK
  <2>. HIDE DEF f
  <2>3. ASSUME NEW a \in Apps, Agrees(req[p], a)  PROVE Agrees(f, a)
    BY <1>1, <1>2, <2>2, <2>3 DEF Agrees
  <2>. QED
    BY <1>1, <2>1, <2>2, <2>3, ReadKeeps
<1>4. CASE req[p].good
  <2>1. PICK t : t = Len(ledger[b]) + 1
    OBVIOUS
  <2>2. PICK r : r = [req[p] EXCEPT !.at = "record", !.tx = t]
    OBVIOUS
  <2>3. ledger' = [ledger EXCEPT ![b] = Append(ledger[b], "CHARGED")] /\ Become(p, r)
    BY <1>2, <1>4, <2>1, <2>2 DEF Charge
  <2>4. /\ pay \in [Apps -> [status : PaymentStatus, tx : Nat]]
        /\ ledger \in [Apps -> Seq({"CHARGED", "REFUNDED"})]
        /\ batch \in [Coaches -> [status : {"NONE", "PENDING", "PAID"}, of : SUBSET Apps]]
        /\ MoneyBehindEveryRow
    BY DEF Inv, TypeOK
  <2>5. ledger'[b] = Append(ledger[b], "CHARGED") /\ \A a \in Apps : a # b => ledger'[a] = ledger[a]
    BY <2>3, <2>4
  <2>6. /\ ledger'[b] \in Seq({"CHARGED", "REFUNDED"})
        /\ t \in DOMAIN ledger'[b] /\ DOMAIN ledger[b] \subseteq DOMAIN ledger'[b]
        /\ Taken(b)' = Taken(b) \cup {t}
    BY <2>1, <2>4, <2>5, TakenAppend DEF Taken
  <2>7. ledger' \in [Apps -> Seq({"CHARGED", "REFUNDED"})]
    BY <2>3, <2>4, <2>6
  <2>8. t \in Nat
    BY <2>1, <2>4
  <2>9. /\ r \in Request /\ r.at = "record" /\ r.app = b /\ r.tx = t /\ r.todo = req[p].todo
        /\ r.kind = req[p].kind /\ r.sum = req[p].sum
    BY <1>1, <1>2, <2>2, <2>8 DEF Request
  <2>10. \A a \in Apps : ledger[a] # <<>> => ledger'[a] # <<>>
    BY <2>5, <2>6
  <2>11. \A a \in Apps : DOMAIN ledger[a] \subseteq DOMAIN ledger'[a]
    BY <2>5, <2>6
  <2>12. RequestOK(r)'
    <3>1. r.sum \subseteq Apps
      BY <2>9 DEF Request
    <3>. QED
      BY <1>1, <1>2, <2>6, <2>9, <2>10, <3>1 DEF RequestOK
  <2>13. MoneyBehindEveryRow'
    <3>1. \A k \in Coaches : batch[k].of \subseteq Apps
      BY <2>4
    <3>. QED
      BY <1>1, <2>4, <2>10, <2>11, <3>1 DEF MoneyBehindEveryRow, Paid
  <2>14. ASSUME NEW a \in Apps \ disturbed', a \in On(req[p]) \cup On(r)
         PROVE  Agrees(r, a)' /\ (Pending(r, a) \/ Consistent(a)')
    <3>1. /\ a = b => a \notin req[p].todo
          /\ Agrees(req[p], a) /\ Consistent(a)
      BY <1>1, <1>2, <2>3, <2>9, <2>14, OwnRow DEF Pending
    <3>2. CASE a = b
      <4>1. ~Paid(a) /\ Taken(a) = {}
        BY <1>1, <1>2, <3>1, <3>2 DEF Agrees, Consistent
      <4>2. Taken(a)' = {t} /\ ~Paid(a)'
        BY <1>1, <2>6, <3>2, <4>1 DEF Paid
      <4>. QED
        BY <2>9, <3>1, <3>2, <4>2 DEF Agrees, Pending
    <3>3. CASE a # b
      <4>1. ledger'[a] = ledger[a] /\ pay'[a] = pay[a]
        BY <1>1, <2>5, <3>3
      <4>. QED
        BY <2>9, <3>1, <3>3, <4>1 DEF Agrees, Consistent, Paid, Taken
    <3>. QED
      BY <3>2, <3>3
  <2>. QED
    BY <1>1, <1>2, <2>3, <2>4, <2>5, <2>7, <2>9, <2>11, <2>12, <2>13, <2>14, StepKeeps
<1>. QED
  BY <1>3, <1>4

(* A step that only writes the month of the student a request is about     *)
(* keeps the invariant when it writes what the provider has taken.         *)
LEMMA WriteKeeps ==
  ASSUME Inv, NEW p \in Requests, NEW r \in Request, Become(p, r),
         NEW b \in Apps, b = req[p].app,
         NEW w \in [status : PaymentStatus, tx : Nat], pay' = [pay EXCEPT ![b] = w],
         UNCHANGED <<ledger, batch, bounds>>,
         RequestOK(r), r.todo \subseteq req[p].todo, r.app \in {None, b},
         r.at \in {"flag", "next", "idle"},
         w.status = "PAID" => w.tx \in DOMAIN ledger[b],
         Agrees(req[p], b) /\ (~Pending(req[p], b) => Consistent(b))
           => Taken(b) = IF w.status = "PAID" THEN {w.tx} ELSE {}
  PROVE  Inv'
<1>1. /\ pay \in [Apps -> [status : PaymentStatus, tx : Nat]]
      /\ ledger \in [Apps -> Seq({"CHARGED", "REFUNDED"})]
      /\ batch \in [Coaches -> [status : {"NONE", "PENDING", "PAID"}, of : SUBSET Apps]]
      /\ MoneyBehindEveryRow
  BY DEF Inv, TypeOK
<1>2. /\ ledger' = ledger /\ batch' = batch /\ made' \in Nat /\ faults' \in Nat
  BY UnderWay DEF bounds
<1>3. /\ pay' \in [Apps -> [status : PaymentStatus, tx : Nat]]
      /\ pay'[b] = w /\ \A a \in Apps : a # b => pay'[a] = pay[a]
  BY <1>1
<1>4. RequestOK(r)'
  BY <1>2 DEF RequestOK
<1>5. MoneyBehindEveryRow'
  BY <1>1, <1>2, <1>3 DEF MoneyBehindEveryRow, Paid
<1>6. ASSUME NEW a \in Apps \ disturbed', a \in On(req[p]) \cup On(r)
      PROVE  Agrees(r, a)' /\ (Pending(r, a) \/ Consistent(a)')
  <2>1. /\ a = b => a \notin req[p].todo
        /\ Agrees(req[p], a) /\ (~Pending(req[p], a) => Consistent(a))
    BY <1>6, OwnRow
  <2>2. CASE a = b
    <3>1. Taken(a)' = IF w.status = "PAID" THEN {w.tx} ELSE {}
      BY <1>2, <2>1, <2>2 DEF Taken
    <3>2. Consistent(a)'
      BY <1>3, <2>2, <3>1 DEF Consistent, Paid
    <3>. QED
      BY <2>1, <2>2, <3>2 DEF Agrees
  <2>3. CASE a # b
    <3>1. pay'[a] = pay[a] /\ ledger'[a] = ledger[a]
      BY <1>2, <1>3, <2>3
    <3>2. Consistent(a)
      BY <2>1, <2>3 DEF Pending
    <3>. QED
      BY <2>1, <2>3, <3>1, <3>2 DEF Agrees, Consistent, Paid, Taken
  <2>. QED
    BY <2>2, <2>3
<1>. QED
  BY <1>1, <1>2, <1>3, <1>4, <1>5, <1>6, StepKeeps

LEMMA RecordPaidKeeps ==
  ASSUME Inv, NEW p \in Requests, RecordPaid(p)
  PROVE  Inv'
<1>1. /\ req[p].at = "record" /\ UNCHANGED <<ledger, batch, bounds>>
      /\ req[p] \in Request /\ RequestOK(req[p])
  BY UnderWay DEF RecordPaid, At
<1>2. PICK b \in Apps : b = req[p].app
  BY <1>1 DEF RequestOK
<1>3. PICK w : w = [status |-> "PAID", tx |-> req[p].tx]
  OBVIOUS
<1>4. PICK r : r = [req[p] EXCEPT !.at = "flag"]
  OBVIOUS
<1>5. pay' = [pay EXCEPT ![b] = w] /\ Become(p, r)
  BY <1>2, <1>3, <1>4 DEF RecordPaid, Goto
<1>6. w \in [status : PaymentStatus, tx : Nat] /\ w.status = "PAID" /\ w.tx = req[p].tx
  BY <1>1, <1>3 DEF Request, PaymentStatus
<1>7. r \in Request /\ RequestOK(r) /\ r.at = "flag" /\ r.app = b /\ r.todo = req[p].todo
  BY <1>1, <1>2, <1>4 DEF Request, RequestOK
<1>8. w.tx \in DOMAIN ledger[b]
  BY <1>1, <1>2, <1>6 DEF RequestOK
<1>9. Agrees(req[p], b) => Taken(b) = {w.tx}
  BY <1>1, <1>2, <1>6 DEF Agrees
<1>. QED
  BY <1>1, <1>2, <1>5, <1>6, <1>7, <1>8, <1>9, WriteKeeps

LEMMA RecordFailedKeeps ==
  ASSUME Inv, NEW p \in Requests, RecordFailed(p)
  PROVE  Inv'
<1>1. /\ req[p].at = "fail" /\ UNCHANGED <<ledger, batch, bounds>> /\ Charged(p)
      /\ req[p] \in Request /\ RequestOK(req[p])
  BY UnderWay DEF RecordFailed, At
<1>2. PICK b \in Apps : b = req[p].app
  BY <1>1 DEF RequestOK
<1>3. PICK w : w = [status |-> "FAILED", tx |-> 0]
  OBVIOUS
<1>4. PICK r \in Request :
        /\ Become(p, r) /\ RequestOK(r) /\ r.at \in {"next", "idle"}
        /\ r.app = None /\ r.todo \subseteq req[p].todo
  BY <1>1, AfterCharge
<1>5. pay' = [pay EXCEPT ![b] = w]
  BY <1>2, <1>3 DEF RecordFailed
<1>6. w \in [status : PaymentStatus, tx : Nat] /\ w.status = "FAILED"
  BY <1>3 DEF PaymentStatus
<1>7. Agrees(req[p], b) /\ Consistent(b) => Taken(b) = {}
  BY <1>1, <1>2 DEF Agrees, Consistent
<1>8. ~Pending(req[p], b)
  BY <1>1 DEF Pending
<1>. QED
  BY <1>1, <1>2, <1>4, <1>5, <1>6, <1>7, <1>8, WriteKeeps

LEMMA RecordCancelledKeeps ==
  ASSUME Inv, NEW p \in Requests, RecordCancelled(p)
  PROVE  Inv'
<1>1. /\ req[p].at = "cancelled" /\ UNCHANGED <<ledger, batch, bounds>>
      /\ req[p] \in Request /\ RequestOK(req[p]) /\ Become(p, Idle)
      /\ Idle \in Request /\ RequestOK(Idle) /\ Idle.at = "idle"
      /\ Idle.app = None /\ Idle.todo = {}
  BY UnderWay DEF RecordCancelled, At, Done, Idle, Fresh
<1>2. PICK b \in Apps : b = req[p].app
  BY <1>1 DEF RequestOK
<1>3. PICK w : w = [pay[b] EXCEPT !.status = "CANCELLED"]
  OBVIOUS
<1>4. /\ pay' = [pay EXCEPT ![b] = w]
      /\ w \in [status : PaymentStatus, tx : Nat] /\ w.status = "CANCELLED"
  <2>1. pay \in [Apps -> [status : PaymentStatus, tx : Nat]]
    BY DEF Inv, TypeOK
  <2>. QED
    BY <1>2, <1>3, <2>1 DEF RecordCancelled, PaymentStatus
<1>5. Agrees(req[p], b) => Taken(b) = {}
  BY <1>1, <1>2 DEF Agrees
<1>. QED
  BY <1>1, <1>2, <1>4, <1>5, WriteKeeps

LEMMA RefundKeeps ==
  ASSUME Inv, NEW p \in Requests, Refund(p)
  PROVE  Inv'
<1>1. /\ req[p].at = "refund" /\ UNCHANGED <<pay, batch, bounds>>
      /\ req[p] \in Request /\ RequestOK(req[p])
      /\ made' \in Nat /\ faults' \in Nat
  BY UnderWay DEF Refund, At, bounds
<1>2. PICK b \in Apps : b = req[p].app
  BY <1>1 DEF RequestOK
<1>3. PICK t : t = req[p].tx
  OBVIOUS
<1>4. PICK r : r = [req[p] EXCEPT !.at = "cancelled"]
  OBVIOUS
<1>5. /\ pay \in [Apps -> [status : PaymentStatus, tx : Nat]]
      /\ ledger \in [Apps -> Seq({"CHARGED", "REFUNDED"})]
      /\ batch \in [Coaches -> [status : {"NONE", "PENDING", "PAID"}, of : SUBSET Apps]]
      /\ MoneyBehindEveryRow
  BY DEF Inv, TypeOK
<1>6. /\ ledger' = [ledger EXCEPT ![b] = [ledger[b] EXCEPT ![t] = "REFUNDED"]]
      /\ Become(p, r)
  BY <1>2, <1>3, <1>4 DEF Refund, Goto
<1>7. /\ ledger'[b] = [ledger[b] EXCEPT ![t] = "REFUNDED"]
      /\ \A a \in Apps : a # b => ledger'[a] = ledger[a]
  BY <1>5, <1>6
<1>8. /\ ledger'[b] \in Seq({"CHARGED", "REFUNDED"}) /\ DOMAIN ledger'[b] = DOMAIN ledger[b]
      /\ Taken(b)' = Taken(b) \ {t}
  BY <1>5, <1>7, TakenRefund DEF Taken
<1>9. ledger' \in [Apps -> Seq({"CHARGED", "REFUNDED"})]
  BY <1>5, <1>6, <1>7, <1>8
<1>10. \A a \in Apps : DOMAIN ledger'[a] = DOMAIN ledger[a]
  BY <1>7, <1>8
<1>11. \A a \in Apps : ledger[a] # <<>> => ledger'[a] # <<>>
  <2>1. \A s \in Seq({"CHARGED", "REFUNDED"}) : s = <<>> <=> DOMAIN s = {}
    OBVIOUS
  <2>. QED
    BY <1>5, <1>9, <1>10, <2>1
<1>12. /\ r \in Request /\ r.at = "cancelled" /\ r.app = b /\ r.todo = req[p].todo
       /\ r.kind = req[p].kind /\ r.sum = req[p].sum
  BY <1>1, <1>2, <1>4 DEF Request
<1>13. RequestOK(r)'
  <2>1. r.sum \subseteq Apps
    BY <1>12 DEF Request
  <2>. QED
    BY <1>1, <1>2, <1>11, <1>12, <2>1 DEF RequestOK
<1>14. MoneyBehindEveryRow'
  <2>1. \A k \in Coaches : batch[k].of \subseteq Apps
    BY <1>5
  <2>. QED
    BY <1>1, <1>5, <1>10, <1>11, <2>1 DEF MoneyBehindEveryRow, Paid
<1>15. ASSUME NEW a \in Apps \ disturbed', a \in On(req[p]) \cup On(r)
       PROVE  Agrees(r, a)' /\ (Pending(r, a) \/ Consistent(a)')
  <2>1. /\ a = b => a \notin req[p].todo
        /\ Agrees(req[p], a) /\ Consistent(a)
    BY <1>1, <1>2, <1>6, <1>12, <1>15, OwnRow DEF Pending
  <2>2. CASE a = b
    <3>1. Paid(a) /\ pay[a].tx = t /\ Taken(a) = {t}
      BY <1>1, <1>2, <1>3, <2>1, <2>2 DEF Agrees, Consistent
    <3>2. Taken(a)' = {} /\ Paid(a)'
      BY <1>1, <1>8, <2>2, <3>1 DEF Paid
    <3>. QED
      BY <1>12, <2>1, <2>2, <3>2 DEF Agrees, Pending
  <2>3. CASE a # b
    <3>1. ledger'[a] = ledger[a] /\ pay'[a] = pay[a]
      BY <1>1, <1>7, <2>3
    <3>. QED
      BY <1>12, <2>1, <2>3, <3>1 DEF Agrees, Consistent, Paid, Taken
  <2>. QED
    BY <2>2, <2>3
<1>. QED
  BY <1>1, <1>2, <1>5, <1>6, <1>7, <1>9, <1>10, <1>12, <1>13, <1>14, <1>15, StepKeeps

(* A step that only writes a coach's batch keeps the invariant when what   *)
(* it puts in was charged and is that coach's.                             *)
LEMMA BatchKeeps ==
  ASSUME Inv, NEW p \in Requests, NEW r \in Request, Become(p, r),
         UNCHANGED <<pay, ledger, bounds>>,
         batch' \in [Coaches -> [status : {"NONE", "PENDING", "PAID"}, of : SUBSET Apps]],
         \A k \in Coaches : batch'[k].of = batch[k].of
            \/ \A a \in batch'[k].of : CoachOf[a] = k /\ ledger[a] # <<>>,
         RequestOK(r),
         req[p].at \in {"upsert", "amounts", "transfer"}, r.at \in {"upsert", "amounts", "idle"},
         r.app \in {None, req[p].app}, r.todo \subseteq req[p].todo
  PROVE  Inv'
<1>1. /\ pay' = pay /\ ledger' = ledger /\ made' \in Nat /\ faults' \in Nat
  BY UnderWay DEF bounds
<1>2. /\ pay' \in [Apps -> [status : PaymentStatus, tx : Nat]]
      /\ ledger' \in [Apps -> Seq({"CHARGED", "REFUNDED"})]
      /\ MoneyBehindEveryRow
  BY <1>1 DEF Inv, TypeOK
<1>3. RequestOK(r)'
  BY <1>1 DEF RequestOK
<1>4. MoneyBehindEveryRow'
  BY <1>1, <1>2 DEF MoneyBehindEveryRow, Paid
<1>5. ASSUME NEW a \in Apps \ disturbed', a \in On(req[p]) \cup On(r)
      PROVE  Agrees(r, a)' /\ Consistent(a)'
  <2>1. Agrees(req[p], a) /\ Consistent(a)
    BY <1>5, OwnRow DEF Pending
  <2>2. Agrees(r, a)
    BY <2>1 DEF Agrees
  <2>. QED
    BY <1>1, <2>1, <2>2 DEF Agrees, Consistent, Paid, Taken
<1>. QED
  BY <1>1, <1>2, <1>3, <1>4, <1>5, StepKeeps

(* Whatever closing settles next, it settles with the same sums.           *)
LEMMA NextCoachBecomes ==
  ASSUME Inv, NEW p \in Requests, NEW k, NextCoach(p, k),
         req[p].at \in {"upsert", "amounts"}
  PROVE  \E r \in Request :
           /\ Become(p, r) /\ RequestOK(r) /\ r.at \in {"upsert", "idle"}
           /\ r.app \in {None, req[p].app} /\ r.todo \subseteq req[p].todo
<1>1. CASE req[p].todo = {k}
  BY <1>1, UnderWay DEF NextCoach, Done, Idle, Fresh
<1>2. CASE req[p].todo # {k}
  <2>. DEFINE T == req[p].todo \ {k}
              r == [req[p] EXCEPT !.at = "upsert", !.todo = T]
  <2>1. Become(p, r)
    BY <1>2 DEF NextCoach
  <2>2. req[p] \in Request /\ RequestOK(req[p]) /\ T \subseteq req[p].todo
    BY UnderWay
  <2>. HIDE DEF T
  <2>3. /\ r \in Request /\ r.at = "upsert" /\ r.app = req[p].app /\ r.todo = T
        /\ r.kind = req[p].kind /\ r.sum = req[p].sum
    BY <2>2 DEF Request
  <2>. HIDE DEF r
  <2>4. RequestOK(r)
    BY <2>2, <2>3 DEF RequestOK
  <2>. QED
    BY <2>1, <2>2, <2>3, <2>4
<1>. QED
  BY <1>1, <1>2

(* What closing sums up for a coach was charged and is that coach's.       *)
LEMMA SumsCharged ==
  ASSUME Inv, NEW p \in Requests, NEW k
  PROVE  /\ SumOf(p, k) \subseteq Apps
         /\ \A a \in SumOf(p, k) : CoachOf[a] = k /\ ledger[a] # <<>>
BY UnderWay DEF SumOf, Request, RequestOK

LEMMA UpsertBatchKeeps ==
  ASSUME Inv, NEW p \in Requests, UpsertBatch(p)
  PROVE  Inv'
<1>1. /\ req[p].at = "upsert" /\ UNCHANGED <<pay, ledger, bounds>>
      /\ req[p] \in Request /\ RequestOK(req[p])
      /\ batch \in [Coaches -> [status : {"NONE", "PENDING", "PAID"}, of : SUBSET Apps]]
  BY UnderWay DEF UpsertBatch, At, Inv, TypeOK
<1>2. PICK k \in req[p].todo :
        /\ batch' = IF batch[k] = NoBatch
                    THEN [batch EXCEPT ![k] = [status |-> "PENDING", of |-> SumOf(p, k)]]
                    ELSE batch
        /\ IF batch[k].status = "PAID" THEN NextCoach(p, k)
           ELSE Become(p, [req[p] EXCEPT !.at = "amounts", !.coach = k])
  BY DEF UpsertBatch
<1>3. k \in Coaches
  BY <1>1 DEF RequestOK
<1>4. /\ batch' \in [Coaches -> [status : {"NONE", "PENDING", "PAID"}, of : SUBSET Apps]]
      /\ \A c \in Coaches : batch'[c].of = batch[c].of
           \/ \A a \in batch'[c].of : CoachOf[a] = c /\ ledger[a] # <<>>
  <2>1. PICK S : S = SumOf(p, k)
    OBVIOUS
  <2>2. S \subseteq Apps /\ \A a \in S : CoachOf[a] = k /\ ledger[a] # <<>>
    BY <2>1, SumsCharged
  <2>3. PICK n : n = [status |-> "PENDING", of |-> S]
    OBVIOUS
  <2>4. n \in [status : {"NONE", "PENDING", "PAID"}, of : SUBSET Apps] /\ n.of = S
    BY <2>2, <2>3
  <2>5. batch' = batch \/ batch' = [batch EXCEPT ![k] = n]
    BY <1>2, <2>1, <2>3
  <2>. QED
    BY <1>1, <1>3, <2>2, <2>4, <2>5
<1>5. CASE batch[k].status = "PAID"
  <2>1. PICK r \in Request :
          /\ Become(p, r) /\ RequestOK(r) /\ r.at \in {"upsert", "idle"}
          /\ r.app \in {None, req[p].app} /\ r.todo \subseteq req[p].todo
    BY <1>1, <1>2, <1>5, NextCoachBecomes
  <2>. QED
    BY <1>1, <1>4, <2>1, BatchKeeps
<1>6. CASE batch[k].status # "PAID"
  <2>. DEFINE r == [req[p] EXCEPT !.at = "amounts", !.coach = k]
  <2>1. Become(p, r)
    BY <1>2, <1>6
  <2>2. /\ r \in Request /\ r.at = "amounts" /\ r.app = req[p].app /\ r.todo = req[p].todo
        /\ r.kind = req[p].kind /\ r.sum = req[p].sum
    BY <1>1, <1>3 DEF Request
  <2>. HIDE DEF r
  <2>3. RequestOK(r)
    BY <1>1, <2>2 DEF RequestOK
  <2>. QED
    BY <1>1, <1>4, <2>1, <2>2, <2>3, BatchKeeps
<1>. QED
  BY <1>5, <1>6

LEMMA WriteAmountsKeeps ==
  ASSUME Inv, NEW p \in Requests, WriteAmounts(p)
  PROVE  Inv'
<1>1. /\ req[p].at = "amounts" /\ UNCHANGED <<pay, ledger, bounds>>
      /\ batch \in [Coaches -> [status : {"NONE", "PENDING", "PAID"}, of : SUBSET Apps]]
  BY DEF WriteAmounts, At, Inv, TypeOK
<1>2. PICK k : k = req[p].coach
  OBVIOUS
<1>3. batch' = [batch EXCEPT ![k].of = SumOf(p, k)] /\ NextCoach(p, k)
  BY <1>2 DEF WriteAmounts
<1>4. /\ batch' \in [Coaches -> [status : {"NONE", "PENDING", "PAID"}, of : SUBSET Apps]]
      /\ \A c \in Coaches : batch'[c].of = batch[c].of
           \/ \A a \in batch'[c].of : CoachOf[a] = c /\ ledger[a] # <<>>
  <2>1. PICK S : S = SumOf(p, k)
    OBVIOUS
  <2>2. S \subseteq Apps /\ \A a \in S : CoachOf[a] = k /\ ledger[a] # <<>>
    BY <2>1, SumsCharged
  <2>3. batch' = [batch EXCEPT ![k].of = S]
    BY <1>3, <2>1
  <2>. QED
    BY <1>1, <2>2, <2>3
<1>5. PICK r \in Request :
        /\ Become(p, r) /\ RequestOK(r) /\ r.at \in {"upsert", "idle"}
        /\ r.app \in {None, req[p].app} /\ r.todo \subseteq req[p].todo
  BY <1>1, <1>3, NextCoachBecomes
<1>. QED
  BY <1>1, <1>4, <1>5, BatchKeeps

LEMMA MarkPaidOutKeeps ==
  ASSUME Inv, NEW p \in Requests, MarkPaidOut(p)
  PROVE  Inv'
<1>1. /\ req[p].at = "transfer" /\ UNCHANGED <<pay, ledger, bounds>> /\ Become(p, Idle)
      /\ batch \in [Coaches -> [status : {"NONE", "PENDING", "PAID"}, of : SUBSET Apps]]
      /\ batch' = [batch EXCEPT ![req[p].coach].status = "PAID"]
  BY DEF MarkPaidOut, At, Done, Inv, TypeOK
<1>2. /\ batch' \in [Coaches -> [status : {"NONE", "PENDING", "PAID"}, of : SUBSET Apps]]
      /\ \A c \in Coaches : batch'[c].of = batch[c].of
  BY <1>1
<1>3. Idle \in Request /\ RequestOK(Idle) /\ Idle.at = "idle" /\ Idle.app = None /\ Idle.todo = {}
  BY UnderWay DEF Idle, Fresh
<1>. QED
  BY <1>1, <1>2, <1>3, BatchKeeps

(* A failing call puts its student among the disturbed and ends the        *)
(* request, or sends it to record a failed charge.                         *)
LEMMA DbErrorKeeps ==
  ASSUME Inv, NEW p \in Requests, DbError(p)
  PROVE  Inv'
<1>1. /\ UNCHANGED <<rows, made>> /\ faults' = faults + 1
      /\ req \in [Requests -> Request] /\ req[p] \in Request /\ RequestOK(req[p])
      /\ disturbed' = disturbed \cup ({req[p].app} \cap Apps)
      /\ Idle \in Request /\ RequestOK(Idle) /\ Idle.app = None /\ Idle.todo = {}
  BY UnderWay DEF DbError, Inv, TypeOK, Idle, Fresh
<1>2. PICK r \in Request :
        /\ req' = [req EXCEPT ![p] = r] /\ RequestOK(r)
        /\ r.app \in {None, req[p].app} /\ r.todo \subseteq req[p].todo
  <2>. DEFINE f == [req[p] EXCEPT !.at = "fail"]
  <2>1. CASE req[p].at \in {"record", "flag"}
    <3>1. req' = [req EXCEPT ![p] = f]
      BY <1>1, <2>1 DEF DbError
    <3>2. f \in Request /\ RequestOK(f) /\ f.app = req[p].app /\ f.todo = req[p].todo
      BY <1>1, <2>1 DEF Request, RequestOK
    <3>. HIDE DEF f
    <3>. QED
      BY <3>1, <3>2
  <2>2. CASE req[p].at \notin {"record", "flag"}
    BY <1>1, <2>2 DEF DbError
  <2>. QED
    BY <2>1, <2>2
<1>3. pay' = pay /\ ledger' = ledger /\ batch' = batch
  BY <1>1 DEF rows
<1>4. req' \in [Requests -> Request] /\ req'[p] = r /\ \A q \in Requests \ {p} : req'[q] = req[q]
  BY <1>1, <1>2
<1>5. TypeOK'
  BY <1>1, <1>3, <1>4 DEF Inv, TypeOK
<1>6. RequestsOK'
  BY <1>2, <1>3, <1>4 DEF Inv, RequestsOK, RequestOK
<1>7. MoneyBehindEveryRow'
  BY <1>3 DEF Inv, MoneyBehindEveryRow, Paid
<1>8. (Met(req) \subseteq disturbed)'
  <2>1. On(r) \subseteq On(req[p])
    BY <1>2, PaymentsAssumption DEF On
  <2>2. Met(req') \subseteq Met(req)
    BY <1>4, <2>1 DEF Met
  <2>. QED
    BY <1>1, <2>2 DEF Inv
<1>9. ASSUME NEW a \in Apps \ disturbed'  PROVE Undisturbed(a)'
  <2>1. a \in Apps \ disturbed /\ a # req[p].app /\ a # r.app
    BY <1>1, <1>2, <1>9, PaymentsAssumption
  <2>2. Undisturbed(a)
    BY <2>1 DEF Inv
  <2>3. \A q \in Requests : Pending(req[q], a) <=> Pending(req[q], a)'
    BY <1>4, <2>1 DEF Pending
  <2>4. \A q \in Requests : Agrees(req[q], a)'
    BY <1>2, <1>3, <1>4, <2>1, <2>2 DEF Undisturbed, Agrees, Paid, Taken
  <2>5. Consistent(a)' <=> Consistent(a)
    BY <1>3 DEF Consistent, Paid, Taken
  <2>. QED
    BY <2>2, <2>3, <2>4, <2>5 DEF Undisturbed
<1>. QED
  BY <1>5, <1>6, <1>7, <1>8, <1>9 DEF Inv

LEMMA CrashKeeps ==
  ASSUME Inv, Crash
  PROVE  Inv'
<1>1. /\ UNCHANGED <<rows, made>> /\ faults' = faults + 1
      /\ req' = [p \in Requests |-> Idle]
      /\ disturbed' = disturbed \cup ({req[p].app : p \in Requests} \cap Apps)
      /\ Idle.app = None /\ Idle.todo = {}
  BY DEF Crash, Idle, Fresh
<1>2. \A p \in Requests : Idle \in Request /\ RequestOK(Idle)
  BY UnderWay
<1>3. pay' = pay /\ ledger' = ledger /\ batch' = batch
  BY <1>1 DEF rows
<1>4. TypeOK'
  BY <1>1, <1>2, <1>3 DEF Inv, TypeOK
<1>5. RequestsOK'
  BY <1>1, <1>2, <1>3 DEF RequestsOK, RequestOK
<1>6. MoneyBehindEveryRow'
  BY <1>3 DEF Inv, MoneyBehindEveryRow, Paid
<1>7. (Met(req) \subseteq disturbed)'
  <2>1. Met(req') = {}
    BY <1>1, PaymentsAssumption DEF Met, On
  <2>. QED
    BY <2>1
<1>8. ASSUME NEW a \in Apps \ disturbed'  PROVE Undisturbed(a)'
  <2>1. a \in Apps \ disturbed /\ \A p \in Requests : req[p].app # a
    BY <1>1, <1>8
  <2>2. Consistent(a)
    BY <2>1 DEF Inv, Undisturbed, Pending
  <2>3. Consistent(a)'
    BY <1>3, <2>2 DEF Consistent, Paid, Taken
  <2>4. \A p \in Requests : Agrees(req[p], a)'
    BY <1>1, PaymentsAssumption DEF Agrees
  <2>. QED
    BY <2>3, <2>4 DEF Undisturbed
<1>. QED
  BY <1>4, <1>5, <1>6, <1>7, <1>8 DEF Inv

-----------------------------------------------------------------------------
(* The theorems                                                            *)

LEMMA Inductive == Inv /\ [Next]_vars => Inv'
<1>. SUFFICES ASSUME Inv, [Next]_vars PROVE Inv'
  OBVIOUS
<1>1. ASSUME NEW p \in Requests, Make(p)  PROVE Inv'
  BY <1>1, MakeKeeps
<1>2. ASSUME NEW p \in Requests, Tick(p)  PROVE Inv'
  BY <1>2, TickKeeps
<1>3. ASSUME NEW p \in Requests, Step(p)  PROVE Inv'
  BY <1>3, CheckUnpaidKeeps, ListUnpaidKeeps, BillNextKeeps, ChargeKeeps, RecordPaidKeeps,
     FlagPaidKeeps, RecordFailedKeeps, FindPaidKeeps, RefundKeeps, RecordCancelledKeeps,
     SumUpKeeps, UpsertBatchKeeps, WriteAmountsKeeps, LookAtBatchKeeps, MarkPaidOutKeeps
  DEF Step
<1>4. ASSUME NEW p \in Requests, DbError(p)  PROVE Inv'
  BY <1>4, DbErrorKeeps
<1>5. CASE Crash
  BY <1>5, CrashKeeps
<1>6. CASE UNCHANGED vars
  <2>1. /\ pay' = pay /\ ledger' = ledger /\ batch' = batch /\ req' = req
        /\ made' = made /\ faults' = faults /\ disturbed' = disturbed
    BY <1>6 DEF vars, rows, bounds
  <2>2. TypeOK' /\ RequestsOK' /\ MoneyBehindEveryRow'
    BY <2>1 DEF Inv, TypeOK, RequestsOK, RequestOK, MoneyBehindEveryRow, Paid
  <2>3. (Met(req) \subseteq disturbed)'
    BY <2>1 DEF Inv
  <2>4. \A a \in Apps : Undisturbed(a) => Undisturbed(a)'
    BY <2>1 DEF Undisturbed, Agrees, Pending, Consistent, Paid, Taken
  <2>. QED
    BY <2>1, <2>2, <2>3, <2>4 DEF Inv
<1>. QED
  BY <1>1, <1>2, <1>3, <1>4, <1>5, <1>6 DEF Next

(* The inductive invariant holds throughout.                               *)
LEMMA Invariant == Spec => []Inv
BY InitKeeps, Inductive, PTL DEF Spec

(* Rows and requests stay well formed, whatever overlaps and fails.        *)
THEOREM TypeCorrect == Spec => []TypeOK
<1>1. Inv => TypeOK
  BY DEF Inv
<1>. QED
  BY <1>1, Invariant, PTL

(* No month is recorded as paid and no coach is settled for it without a   *)
(* charge of that student at the provider, and no coach is settled for     *)
(* another's lesson, whatever overlaps and fails.                          *)
THEOREM MoneyBehind == Spec => []MoneyBehindEveryRow
<1>1. Inv => MoneyBehindEveryRow
  BY DEF Inv
<1>. QED
  BY <1>1, Invariant, PTL

(* Where no two requests met and nothing failed, a student's card is       *)
(* charged exactly as the month is recorded, once the request is over.     *)
THEOREM ChargesRecorded == Spec => []ChargedAsRecorded
<1>1. Inv => ChargedAsRecorded
  <2>. SUFFICES ASSUME Inv, NEW a \in Apps \ disturbed, \A p \in Requests : req[p].app # a
                PROVE  Consistent(a)
    BY DEF ChargedAsRecorded, Consistent
  <2>. QED
    BY DEF Inv, Undisturbed, Pending
<1>. QED
  BY <1>1, Invariant, PTL

=============================================================================
