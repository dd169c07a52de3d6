----------------------------- MODULE LabProofs -----------------------------
(***************************************************************************)
(* Safety of the lab, for any members, students, guests and requests: seats*)
(* and fees of a lesson, and the guests of a day.                          *)
(***************************************************************************)
EXTENDS LessonSeats, LessonFees, Guests, FiniteSetTheorems, SequenceTheorems, TLAPS

-----------------------------------------------------------------------------
(* LessonSeats: what a request saw before it made its row bounds the seats *)

ApplicationRow == [who : Members \cup {Walkin}, status : LessonStatus \cup {"NONE"}, order : Nat,
                   byStaff : BOOLEAN, saw : SUBSET SeatCalls]
SeatCallRow == [at : {"new", "own", "count", "order", "create", "promote", "done"},
                who : Members \cup {Walkin}, app : SeatCalls \cup {"none"}, order : Nat,
                saw : SUBSET SeatCalls]

\* What request c may rely on, when it stands as k: its row is not made before it is
\* done, what it saw exists and belongs to others, its place is behind those who waited
\* then, and a seat it is about to take was free among them.
SeatCallHolds(c, k) ==
  /\ k.at # "done" => application[c].status = "NONE"
  /\ k.saw \subseteq Rows
  /\ k.at = "promote" => k.app \in Rows
  /\ k.at = "own" => k.order = 0
  /\ \A d \in k.saw :
       /\ application[d].who # k.who
       /\ k.order # 0 /\ application[d].status = "WAITLIST" => application[d].order < k.order
  /\ Capacity # 0 /\ k.at = "create" /\ k.order = 0 => Cardinality(SelfSeats \cap k.saw) < Capacity

CallsHold == \A c \in SeatCalls : SeatCallHolds(c, seatCall[c])
SeenExist == \A d \in SeatCalls : application[d].saw \subseteq Rows

SeatsInv == SeatsTypeOK /\ CallsHold /\ SeenExist /\ OneApplicationEach /\ KnownSeatsFit

\* What every step leaves of the rows that are there: a row stays, whose it is and what
\* it saw stay, nobody joins the waiting list again, and no row becomes a self-taken seat.
RowsFollow ==
  \A d \in Rows :
    /\ application'[d].status \in LessonStatus
    /\ application'[d].who = application[d].who /\ application'[d].saw = application[d].saw
    /\ d \in SelfSeats' => d \in SelfSeats
    /\ application'[d].status = "WAITLIST" =>
         application[d].status = "WAITLIST" /\ application'[d].order = application[d].order

-----------------------------------------------------------------------------
(* Lemmas on rows and requests                                             *)

(* The rows there are, and a request that is done.                          *)
LEMMA RowsMeaning ==
  ASSUME SeatsTypeOK
  PROVE  \A d \in SeatCalls : d \in Rows <=> application[d].status # "NONE"
BY DEF SeatsTypeOK, Rows, With, LessonStatus

(* A request that is done stands for nothing any more.                      *)
LEMMA DoneFields ==
  ASSUME NEW c \in SeatCalls, SeatDone(c)
  PROVE  \E r \in SeatCallRow : /\ seatCall' = [seatCall EXCEPT ![c] = r]
                                /\ r.at = "done" /\ r.saw = {} /\ r.order = 0
<1> PICK r : r = [NewSeatCall EXCEPT !.at = "done"]
  OBVIOUS
<1>1. r \in SeatCallRow /\ r.at = "done" /\ r.saw = {} /\ r.order = 0
  BY DEF NewSeatCall, SeatCallRow
<1>2. seatCall' = [seatCall EXCEPT ![c] = r]
  BY DEF SeatDone, SeatBecomes
<1> QED
  BY <1>1, <1>2

(* A request that did not move may rely on what it relied on.               *)
LEMMA OthersHold ==
  ASSUME SeatsTypeOK, NEW c \in SeatCalls, NEW k \in SeatCallRow, SeatCallHolds(c, k), RowsFollow,
         k.at # "done" => application'[c].status = "NONE"
  PROVE  SeatCallHolds(c, k)'
<1>1. Rows \subseteq Rows'
  BY DEF RowsFollow, Rows, With
<1>2. k.saw \subseteq Rows
  BY DEF SeatCallHolds
<1>3. \A d \in k.saw :
        /\ application'[d].who # k.who
        /\ k.order # 0 /\ application'[d].status = "WAITLIST" => application'[d].order < k.order
  BY <1>2 DEF SeatCallHolds, RowsFollow
<1>4. ASSUME Capacity # 0, k.at = "create", k.order = 0
      PROVE  Cardinality(SelfSeats' \cap k.saw) < Capacity
  <2>1. SelfSeats' \cap k.saw \subseteq SelfSeats \cap k.saw
    BY <1>2 DEF RowsFollow
  <2>2. IsFiniteSet(SelfSeats \cap k.saw)
    BY SeatsAssumption, FS_Subset DEF SelfSeats, With
  <2>3. Cardinality(SelfSeats' \cap k.saw) <= Cardinality(SelfSeats \cap k.saw)
    BY <2>1, <2>2, FS_Subset
  <2>4. Cardinality(SelfSeats' \cap k.saw) \in Nat /\ Cardinality(SelfSeats \cap k.saw) \in Nat
    BY <2>1, <2>2, FS_Subset, FS_CardinalityType
  <2> QED
    BY <1>4, <2>3, <2>4, SeatsAssumption DEF SeatCallHolds
<1> QED
  BY <1>1, <1>2, <1>3, <1>4 DEF SeatCallHolds

(* Rows that are there keep the agreements among them, when no row is new.  *)
LEMMA OldRowsAgree ==
  ASSUME SeatsInv, SeatsTypeOK', RowsFollow,
         \A d \in SeatCalls \ Rows : application'[d] = application[d]
  PROVE  SeenExist' /\ OneApplicationEach' /\ KnownSeatsFit'
<1> USE DEF SeatsInv
<1>1. /\ Rows \subseteq Rows'
      /\ \A d \in SeatCalls : application'[d].saw = application[d].saw
  BY DEF RowsFollow, Rows, With
<1>2. SeenExist'
  BY <1>1 DEF SeenExist
<1>3. OneApplicationEach'
  <2> SUFFICES ASSUME NEW c \in SeatCalls, NEW d \in SeatCalls, c \in application'[d].saw
               PROVE  /\ application'[c].who # application'[d].who
                      /\ application'[c].status = "WAITLIST" /\ application'[d].status = "WAITLIST" =>
                           application'[c].order < application'[d].order
    BY DEF OneApplicationEach
  <2>1. c \in application[d].saw /\ c \in Rows
    BY <1>1 DEF SeenExist
  <2>2. /\ application'[d].who = application[d].who
        /\ application'[d].status = "WAITLIST" =>
             application[d].status = "WAITLIST" /\ application'[d].order = application[d].order
    BY DEF RowsFollow
  <2> QED
    BY <2>1, <2>2 DEF OneApplicationEach, RowsFollow
<1>4. SelfSeats' \subseteq SelfSeats
  BY RowsMeaning DEF RowsFollow, SelfSeats, With, Seated
<1>5. KnownSeatsFit'
  BY <1>1, <1>4 DEF KnownSeatsFit, Knew, SelfSeats, With
<1> QED
  BY <1>2, <1>3, <1>5

(* A request that reads and moves on.                                       *)
LEMMA ReadKeeps ==
  ASSUME SeatsInv, NEW c \in SeatCalls, NEW k \in SeatCallRow, SeatCallHolds(c, k),
         seatCall' = [seatCall EXCEPT ![c] = k], UNCHANGED application
  PROVE  SeatsInv'
<1>1. SeatsTypeOK'
  BY DEF SeatsInv, SeatsTypeOK, SeatCallRow
<1>2. RowsFollow
  BY DEF RowsFollow, Rows, With, SelfSeats
<1>3. SeenExist' /\ OneApplicationEach' /\ KnownSeatsFit'
  BY <1>1, <1>2, OldRowsAgree
<1>4. CallsHold'
  BY DEF SeatsInv, SeatsTypeOK, CallsHold, SeatCallHolds, Rows, With, SelfSeats
<1> QED
  BY <1>1, <1>3, <1>4 DEF SeatsInv

(* A request that writes a row and is done: what the others rely on stays.  *)
LEMMA WriteHolds ==
  ASSUME SeatsInv, NEW c \in SeatCalls, SeatDone(c), RowsFollow,
         application' \in [SeatCalls -> ApplicationRow],
         \A d \in SeatCalls \ Rows : d = c \/ application'[d] = application[d]
  PROVE  SeatsTypeOK' /\ CallsHold'
<1> PICK r \in SeatCallRow : /\ seatCall' = [seatCall EXCEPT ![c] = r]
                             /\ r.at = "done" /\ r.saw = {} /\ r.order = 0
  BY DoneFields
<1>1. SeatsTypeOK'
  BY DEF SeatsInv, SeatsTypeOK, SeatCallRow, ApplicationRow
<1>2. SeatCallHolds(c, r)'
  BY DEF SeatCallHolds
<1>3. ASSUME NEW d \in SeatCalls, d # c PROVE SeatCallHolds(d, seatCall[d])'
  <2>1. seatCall[d] \in SeatCallRow /\ seatCall'[d] = seatCall[d]
    BY <1>3 DEF SeatsInv, SeatsTypeOK, SeatCallRow
  <2>2. seatCall[d].at # "done" => application'[d].status = "NONE"
    BY <1>3, RowsMeaning DEF SeatsInv, CallsHold, SeatCallHolds
  <2> PICK k \in SeatCallRow : k = seatCall[d]
    BY <2>1
  <2>3. SeatCallHolds(d, k)
    BY DEF SeatsInv, CallsHold
  <2>4. SeatCallHolds(d, k)'
    BY <2>2, <2>3, OthersHold DEF SeatsInv
  <2> QED
    BY <2>1, <2>4
<1> QED
  BY <1>1, <1>2, <1>3 DEF CallsHold, SeatsInv, SeatsTypeOK

-----------------------------------------------------------------------------
(* Each step                                                               *)

(* A member applies: nothing is read yet.                                   *)
LEMMA SeatApplyKeeps ==
  ASSUME SeatsInv, NEW c \in SeatCalls, Apply(c)
  PROVE  SeatsInv'
<1> PICK m \in Members : SeatBecomes(c, [NewSeatCall EXCEPT !.at = "own", !.who = m])
  BY DEF Apply
<1> PICK k : k = [NewSeatCall EXCEPT !.at = "own", !.who = m]
  OBVIOUS
<1>1. k \in SeatCallRow /\ k.at = "own" /\ k.saw = {} /\ k.order = 0
  BY DEF NewSeatCall, SeatCallRow
<1>2. SeatCallHolds(c, k)
  BY <1>1 DEF SeatCallHolds, Apply, SeatAt, SeatsInv, CallsHold
<1>3. seatCall' = [seatCall EXCEPT ![c] = k]
  BY DEF SeatBecomes
<1> QED
  BY <1>1, <1>2, <1>3, ReadKeeps DEF Apply

(* A request that is done without a write.                                  *)
LEMMA DoneKeeps ==
  ASSUME SeatsInv, NEW c \in SeatCalls, SeatDone(c), UNCHANGED application
  PROVE  SeatsInv'
<1> PICK r \in SeatCallRow : /\ seatCall' = [seatCall EXCEPT ![c] = r]
                             /\ r.at = "done" /\ r.saw = {} /\ r.order = 0
  BY DoneFields
<1>1. SeatCallHolds(c, r)
  BY DEF SeatCallHolds
<1> QED
  BY <1>1, ReadKeeps

(* The live applications are seen, and none is the applicant's.             *)
LEMMA SeatLookKeeps ==
  ASSUME SeatsInv, NEW c \in SeatCalls, LookForOwn(c)
  PROVE  SeatsInv'
<1>1. CASE SeatDone(c)
  BY <1>1, DoneKeeps DEF LookForOwn
<1>2. CASE /\ ~ \E d \in With(Live) : application[d].who = seatCall[c].who
           /\ SeatBecomes(c, [seatCall[c] EXCEPT !.at = "count", !.saw = With(Live)])
  <2> PICK k : k = [seatCall[c] EXCEPT !.at = "count", !.saw = With(Live)]
    OBVIOUS
  <2>1. seatCall[c] \in SeatCallRow
    BY DEF SeatsInv, SeatsTypeOK, SeatCallRow
  <2>2. /\ k \in SeatCallRow /\ k.at = "count" /\ k.saw = With(Live)
        /\ k.who = seatCall[c].who /\ k.order = seatCall[c].order
    BY <2>1 DEF SeatCallRow, With
  <2>3. With(Live) \subseteq Rows
    BY DEF Rows, With, Live, LessonStatus
  <2>4. k.order = 0
    BY <2>2 DEF LookForOwn, SeatAt, SeatsInv, CallsHold, SeatCallHolds
  <2>5. SeatCallHolds(c, k)
    BY <1>2, <2>2, <2>3, <2>4 DEF SeatCallHolds, LookForOwn, SeatAt, SeatsInv, CallsHold
  <2>6. seatCall' = [seatCall EXCEPT ![c] = k]
    BY <1>2 DEF SeatBecomes
  <2> QED
    BY <2>2, <2>5, <2>6, ReadKeeps DEF LookForOwn
<1> QED
  BY <1>1, <1>2 DEF LookForOwn

(* The seats are counted: among those seen, one is free, or an order comes  *)
(* next.                                                                    *)
LEMMA CountKeeps ==
  ASSUME SeatsInv, NEW c \in SeatCalls, CountSeats(c)
  PROVE  SeatsInv'
<1> PICK l \in {"order", "create"} :
      /\ SeatTo(c, l)
      /\ l = "create" => ~(Capacity # 0 /\ Cardinality(With(Seated)) >= Capacity)
  BY Zenon DEF CountSeats
<1> PICK k : k = [seatCall[c] EXCEPT !.at = l]
  OBVIOUS
<1>1. seatCall[c] \in SeatCallRow
  BY DEF SeatsInv, SeatsTypeOK, SeatCallRow
<1>2. /\ k \in SeatCallRow /\ k.at = l /\ k.saw = seatCall[c].saw
      /\ k.who = seatCall[c].who /\ k.order = seatCall[c].order
  BY <1>1 DEF SeatCallRow
<1>3. ASSUME Capacity # 0, l = "create" PROVE Cardinality(SelfSeats \cap k.saw) < Capacity
  <2>1. SelfSeats \cap k.saw \subseteq With(Seated) /\ IsFiniteSet(With(Seated))
    BY SeatsAssumption, FS_Subset DEF SelfSeats, With
  <2>2. Cardinality(SelfSeats \cap k.saw) <= Cardinality(With(Seated))
    BY <2>1, FS_Subset
  <2>3. Cardinality(SelfSeats \cap k.saw) \in Nat /\ Cardinality(With(Seated)) \in Nat
    BY <2>1, FS_Subset, FS_CardinalityType
  <2> QED
    BY <1>3, <2>2, <2>3, SeatsAssumption
<1>4. SeatCallHolds(c, seatCall[c]) /\ seatCall[c].at = "count"
  BY DEF SeatsInv, CallsHold, CountSeats, SeatAt
<1>5. SeatCallHolds(c, k)
  BY <1>2, <1>3, <1>4 DEF SeatCallHolds
<1>6. seatCall' = [seatCall EXCEPT ![c] = k]
  BY DEF SeatTo, SeatBecomes
<1> QED
  BY <1>2, <1>5, <1>6, ReadKeeps DEF CountSeats

(* The place taken lies behind everyone who waits.                          *)
LEMMA OrderKeeps ==
  ASSUME SeatsInv, NEW c \in SeatCalls, TakeOrder(c)
  PROVE  SeatsInv'
<1> PICK n \in {0} \cup {application[d].order : d \in With({"WAITLIST"})} :
       /\ \A d \in With({"WAITLIST"}) : application[d].order <= n
       /\ SeatBecomes(c, [seatCall[c] EXCEPT !.at = "create", !.order = n + 1])
  BY DEF TakeOrder
<1> PICK k : k = [seatCall[c] EXCEPT !.at = "create", !.order = n + 1]
  OBVIOUS
<1>1. seatCall[c] \in SeatCallRow
  BY DEF SeatsInv, SeatsTypeOK, SeatCallRow
<1>2. n \in Nat
  BY DEF SeatsInv, SeatsTypeOK, With
<1>3. n + 1 \in Nat /\ n + 1 # 0
  BY <1>2
<1>4. /\ k \in SeatCallRow /\ k.at = "create" /\ k.saw = seatCall[c].saw
      /\ k.who = seatCall[c].who /\ k.order = n + 1
  BY <1>1, <1>3 DEF SeatCallRow
<1>5. SeatCallHolds(c, seatCall[c]) /\ seatCall[c].at = "order"
  BY DEF SeatsInv, CallsHold, TakeOrder, SeatAt
<1>6. ASSUME NEW d \in k.saw, application[d].status = "WAITLIST" PROVE application[d].order < n + 1
  <2>1. d \in SeatCalls
    BY <1>4, <1>1 DEF SeatCallRow
  <2>2. application[d].order <= n /\ application[d].order \in Nat
    BY <1>6, <2>1 DEF With, SeatsInv, SeatsTypeOK
  <2> QED
    BY <2>2, <1>2
<1>7. SeatCallHolds(c, k)
  BY <1>3, <1>4, <1>5, <1>6 DEF SeatCallHolds
<1>8. seatCall' = [seatCall EXCEPT ![c] = k]
  BY DEF SeatBecomes
<1> QED
  BY <1>4, <1>7, <1>8, ReadKeeps DEF TakeOrder

(* An operator picks somebody who waits.                                    *)
LEMMA FindWaitingKeeps ==
  ASSUME SeatsInv, NEW c \in SeatCalls, FindWaiting(c)
  PROVE  SeatsInv'
<1> PICK d \in With({"WAITLIST"}) : SeatBecomes(c, [NewSeatCall EXCEPT !.at = "promote", !.app = d])
  BY DEF FindWaiting
<1> PICK k : k = [NewSeatCall EXCEPT !.at = "promote", !.app = d]
  OBVIOUS
<1>1. k \in SeatCallRow /\ k.at = "promote" /\ k.saw = {} /\ k.app = d
  BY DEF NewSeatCall, SeatCallRow, With
<1>2. SeatCallHolds(c, k)
  BY <1>1 DEF SeatCallHolds, FindWaiting, SeatAt, SeatsInv, CallsHold, Rows, With, LessonStatus
<1>3. seatCall' = [seatCall EXCEPT ![c] = k]
  BY DEF SeatBecomes
<1> QED
  BY <1>1, <1>2, <1>3, ReadKeeps DEF FindWaiting

(* A row that an operator changed is no seat taken by the member.           *)
LEMMA StaffKeeps ==
  ASSUME SeatsInv, NEW c \in SeatCalls, SeatDone(c), NEW d \in Rows,
         NEW r \in ApplicationRow, application' = [application EXCEPT ![d] = r],
         r.who = application[d].who, r.saw = application[d].saw, r.byStaff = TRUE,
         r.status \in LessonStatus \ {"WAITLIST"}
  PROVE  SeatsInv'
<1>1. application' \in [SeatCalls -> ApplicationRow]
  BY DEF SeatsInv, SeatsTypeOK, ApplicationRow
<1>2. d \in SeatCalls /\ application'[d] = r
  BY DEF SeatsInv, SeatsTypeOK, Rows, With
<1>3. \A e \in SeatCalls : e # d => application'[e] = application[e]
  BY DEF SeatsInv, SeatsTypeOK
<1>4. RowsFollow
  BY <1>2, <1>3 DEF RowsFollow, Rows, With, SelfSeats
<1>5. \A e \in SeatCalls \ Rows : application'[e] = application[e]
  BY <1>3
<1>6. SeatsTypeOK' /\ CallsHold'
  BY <1>1, <1>4, <1>5, WriteHolds
<1>7. SeenExist' /\ OneApplicationEach' /\ KnownSeatsFit'
  BY <1>4, <1>5, <1>6, OldRowsAgree
<1> QED
  BY <1>6, <1>7 DEF SeatsInv

(* A new row: it knows whom it saw, and nobody saw it.  A set of self-taken  *)
(* seats that know each other and holds the new one holds else only seats   *)
(* that it saw.                                                             *)
LEMMA NewRowKeeps ==
  ASSUME SeatsInv, NEW c \in SeatCalls, seatCall[c].at # "done", SeatDone(c),
         NEW r \in ApplicationRow, r.status \in LessonStatus,
         application' = [application EXCEPT ![c] = r], r.saw \subseteq Rows,
         \A d \in r.saw :
           /\ application[d].who # r.who
           /\ r.status = "WAITLIST" /\ application[d].status = "WAITLIST" =>
                application[d].order < r.order,
         Capacity # 0 /\ r.status \in Seated /\ ~r.byStaff =>
           Cardinality(SelfSeats \cap r.saw) < Capacity
  PROVE  SeatsInv'
<1>1. application' \in [SeatCalls -> ApplicationRow]
  BY DEF SeatsInv, SeatsTypeOK, ApplicationRow
<1>2. c \notin Rows
  BY RowsMeaning DEF SeatsInv, CallsHold, SeatCallHolds
<1>3. application'[c] = r /\ \A d \in SeatCalls : d # c => application'[d] = application[d]
  BY DEF SeatsInv, SeatsTypeOK
<1>4. RowsFollow
  BY <1>2, <1>3 DEF RowsFollow, Rows, With, SelfSeats
<1>5. SeatsTypeOK' /\ CallsHold'
  BY <1>1, <1>3, <1>4, WriteHolds
<1>6. Rows \subseteq Rows'
  BY <1>4 DEF RowsFollow, Rows, With
<1>7. SeenExist'
  BY <1>3, <1>6 DEF SeenExist, SeatsInv
<1>8. OneApplicationEach'
  <2> SUFFICES ASSUME NEW a \in SeatCalls, NEW d \in SeatCalls, a \in application'[d].saw
               PROVE  /\ application'[a].who # application'[d].who
                      /\ application'[a].status = "WAITLIST" /\ application'[d].status = "WAITLIST" =>
                           application'[a].order < application'[d].order
    BY DEF OneApplicationEach
  <2>1. a \in Rows /\ a # c
    BY <1>2, <1>3 DEF SeenExist, SeatsInv
  <2>2. CASE d = c
    BY <2>1, <2>2, <1>3
  <2>3. CASE d # c
    BY <2>1, <2>3, <1>3 DEF SeatsInv, OneApplicationEach
  <2> QED
    BY <2>2, <2>3
<1>9. KnownSeatsFit'
  <2> SUFFICES ASSUME Capacity # 0, NEW S \in SUBSET SelfSeats',
                      \A a, d \in S : a # d => Knew(a, d)'
               PROVE  Cardinality(S) <= Capacity
    BY DEF KnownSeatsFit
  <2> DEFINE T == S \ {c}
  <2>1. S \subseteq SeatCalls /\ T \subseteq SelfSeats
    BY <1>3 DEF SelfSeats, With
  <2>2. \A a, d \in T : a # d => Knew(a, d)
    BY <1>3, <2>1 DEF Knew
  <2>3. Cardinality(T) <= Capacity
    BY <2>1, <2>2 DEF SeatsInv, KnownSeatsFit
  <2>4. CASE c \notin S
    <3>1. T = S
      BY <2>4
    <3> QED
      BY <2>3, <3>1
  <2>5. CASE c \in S
    <3>1. r.status \in Seated /\ ~r.byStaff
      BY <2>5, <1>3 DEF SelfSeats, With
    <3>2. ASSUME NEW d \in T PROVE d \in SelfSeats \cap r.saw
      <4>1. c \in application'[d].saw \/ d \in application'[c].saw
        BY <2>5 DEF Knew
      <4>2. c \notin application[d].saw
        BY <1>2, <2>1 DEF SeenExist, SeatsInv
      <4> QED
        BY <4>1, <4>2, <1>3, <2>1
    <3>3. IsFiniteSet(SelfSeats \cap r.saw)
      BY SeatsAssumption, FS_Subset DEF SelfSeats, With
    <3>4. T \subseteq SelfSeats \cap r.saw
      BY <3>2
    <3>5. Cardinality(T) <= Cardinality(SelfSeats \cap r.saw) /\ IsFiniteSet(T)
      BY <3>3, <3>4, FS_Subset
    <3>6. Cardinality(T) \in Nat /\ Cardinality(SelfSeats \cap r.saw) \in Nat
      BY <3>3, <3>5, FS_CardinalityType
    <3>7. Cardinality(T) < Capacity
      BY <3>1, <3>5, <3>6, SeatsAssumption
    <3>8. Cardinality(T \cup {c}) = Cardinality(T) + 1
      BY <3>5, FS_AddElement
    <3>9. S = T \cup {c}
      BY <2>5
    <3> HIDE DEF T
    <3> QED
      BY <3>6, <3>7, <3>8, <3>9, SeatsAssumption
  <2> QED
    BY <2>4, <2>5
<1> QED
  BY <1>5, <1>7, <1>8, <1>9 DEF SeatsInv

(* The application is made, with what the request saw.                      *)
LEMMA CreateKeeps ==
  ASSUME SeatsInv, NEW c \in SeatCalls, CreateApplication(c)
  PROVE  SeatsInv'
<1> PICK r : r = [who |-> seatCall[c].who,
                  status |-> IF seatCall[c].order = 0 THEN "PENDING" ELSE "WAITLIST",
                  order |-> seatCall[c].order, byStaff |-> FALSE, saw |-> seatCall[c].saw]
  OBVIOUS
<1>1. seatCall[c] \in SeatCallRow
  BY DEF SeatsInv, SeatsTypeOK, SeatCallRow
<1>2. /\ r.who = seatCall[c].who /\ r.order = seatCall[c].order /\ r.saw = seatCall[c].saw
      /\ r.status = IF seatCall[c].order = 0 THEN "PENDING" ELSE "WAITLIST"
  OBVIOUS
<1>3. r \in ApplicationRow /\ r.status \in LessonStatus
  BY <1>1 DEF ApplicationRow, SeatCallRow, LessonStatus
<1>4. SeatCallHolds(c, seatCall[c]) /\ seatCall[c].at = "create"
  BY DEF SeatsInv, CallsHold, CreateApplication, SeatAt
<1>5. r.saw \subseteq Rows
  BY <1>2, <1>4 DEF SeatCallHolds
<1>6. \A d \in r.saw :
        /\ application[d].who # r.who
        /\ r.status = "WAITLIST" /\ application[d].status = "WAITLIST" =>
             application[d].order < r.order
  BY <1>2, <1>4 DEF SeatCallHolds
<1>7. Capacity # 0 /\ r.status \in Seated => Cardinality(SelfSeats \cap r.saw) < Capacity
  BY <1>2, <1>4 DEF SeatCallHolds, Seated
<1>8. application' = [application EXCEPT ![c] = r] /\ SeatDone(c)
  BY DEF CreateApplication
<1> QED
  BY <1>3, <1>4, <1>5, <1>6, <1>7, <1>8, NewRowKeeps

(* A student added by an operator takes no seat of the members' own.        *)
LEMMA AddKeeps ==
  ASSUME SeatsInv, NEW c \in SeatCalls, AddStudent(c)
  PROVE  SeatsInv'
<1> PICK r : r = [who |-> Walkin, status |-> "CONFIRMED", order |-> 0, byStaff |-> TRUE, saw |-> {}]
  OBVIOUS
<1>1. r \in ApplicationRow /\ r.status \in LessonStatus /\ r.saw = {} /\ r.byStaff
  BY DEF ApplicationRow, LessonStatus
<1>2. application' = [application EXCEPT ![c] = r] /\ SeatDone(c) /\ seatCall[c].at # "done"
  BY DEF AddStudent, SeatAt
<1> QED
  BY <1>1, <1>2, NewRowKeeps

(* An operator promotes, by the id found before.                            *)
LEMMA PromoteKeeps ==
  ASSUME SeatsInv, NEW c \in SeatCalls, Promote(c)
  PROVE  SeatsInv'
<1> DEFINE d == seatCall[c].app
<1>1. d \in Rows
  BY DEF SeatsInv, CallsHold, SeatCallHolds, Promote, SeatAt
<1> PICK r : r = [application[d] EXCEPT !.status = "PENDING", !.order = 0, !.byStaff = TRUE]
  OBVIOUS
<1>2. application[d] \in ApplicationRow /\ d \in SeatCalls
  BY <1>1 DEF SeatsInv, SeatsTypeOK, ApplicationRow, Rows, With
<1>3. /\ r \in ApplicationRow /\ r.who = application[d].who /\ r.saw = application[d].saw
      /\ r.byStaff = TRUE /\ r.status = "PENDING"
  BY <1>2 DEF ApplicationRow, LessonStatus
<1>4. application' = [application EXCEPT ![d] = r] /\ SeatDone(c)
  BY <1>2 DEF Promote, SeatsInv, SeatsTypeOK
<1> QED
  BY <1>1, <1>3, <1>4, StaffKeeps DEF LessonStatus

(* An operator sets the status of a row.                                    *)
LEMMA SetKeeps ==
  ASSUME SeatsInv, NEW c \in SeatCalls, SetStatus(c)
  PROVE  SeatsInv'
<1> PICK d \in Rows, s \in LessonStatus \ {"WAITLIST"} :
      application' = [application EXCEPT ![d].status = s, ![d].byStaff = TRUE]
  BY DEF SetStatus
<1> PICK r : r = [application[d] EXCEPT !.status = s, !.byStaff = TRUE]
  OBVIOUS
<1>1. application[d] \in ApplicationRow /\ d \in SeatCalls
  BY DEF SeatsInv, SeatsTypeOK, ApplicationRow, Rows, With
<1>2. /\ r \in ApplicationRow /\ r.who = application[d].who /\ r.saw = application[d].saw
      /\ r.byStaff = TRUE /\ r.status = s
  BY <1>1 DEF ApplicationRow
<1>3. application' = [application EXCEPT ![d] = r] /\ SeatDone(c)
  BY <1>1 DEF SetStatus, SeatsInv, SeatsTypeOK
<1> QED
  BY <1>2, <1>3, StaffKeeps

-----------------------------------------------------------------------------
(* The theorems                                                             *)

(* A lesson nobody applied for ...                                          *)
LEMMA SeatsStart == SeatsInit => SeatsInv
<1> SUFFICES ASSUME SeatsInit PROVE SeatsInv
  OBVIOUS
<1>1. SeatsTypeOK
  BY DEF SeatsInit, SeatsTypeOK, NoApplication, NewSeatCall
<1>2. CallsHold
  BY DEF SeatsInit, CallsHold, SeatCallHolds, NoApplication, NewSeatCall
<1>3. SeenExist /\ OneApplicationEach
  BY DEF SeatsInit, SeenExist, OneApplicationEach, NoApplication
<1>4. SelfSeats = {}
  BY DEF SeatsInit, SelfSeats, With, Seated, NoApplication
<1>5. KnownSeatsFit
  <2>1. \A S \in SUBSET SelfSeats : S = {}
    BY <1>4
  <2>2. Cardinality({}) = 0
    BY FS_EmptySet
  <2> QED
    BY <2>1, <2>2, SeatsAssumption DEF KnownSeatsFit
<1> QED
  BY <1>1, <1>2, <1>3, <1>5 DEF SeatsInv

(* ... and every step keeps the invariant.                                  *)
LEMMA SeatsSteps == SeatsInv /\ [SeatsNext]_seatVars => SeatsInv'
<1> SUFFICES ASSUME SeatsInv, [SeatsNext]_seatVars PROVE SeatsInv'
  OBVIOUS
<1>1. CASE UNCHANGED seatVars
  BY <1>1 DEF seatVars, SeatsInv, SeatsTypeOK, CallsHold, SeatCallHolds, SeenExist, OneApplicationEach,
              KnownSeatsFit, Knew, SelfSeats, With, Rows
<1>2. CASE SeatsNext
  <2> PICK c \in SeatCalls :
        \/ Apply(c) \/ LookForOwn(c) \/ CountSeats(c) \/ TakeOrder(c) \/ CreateApplication(c)
        \/ FindWaiting(c) \/ Promote(c) \/ SetStatus(c) \/ AddStudent(c) \/ SeatCallFails(c)
    BY <1>2 DEF SeatsNext
  <2> QED
    BY SeatApplyKeeps, SeatLookKeeps, CountKeeps, OrderKeeps, CreateKeeps, FindWaitingKeeps, PromoteKeeps,
       SetKeeps, AddKeeps, DoneKeeps
    DEF SeatCallFails
<1> QED
  BY <1>1, <1>2

(* The invariant of rows and requests.                                      *)
LEMMA SeatsInvariant == SeatsSpec => []SeatsInv
BY SeatsStart, SeatsSteps, PTL DEF SeatsSpec

(* Applications and requests stay well formed.                              *)
THEOREM SeatsTyped == SeatsSpec => []SeatsTypeOK
<1>1. SeatsInv => SeatsTypeOK
  BY DEF SeatsInv
<1> QED
  BY <1>1, SeatsInvariant, PTL

(* The seats that members took one knowing of the other fit the capacity.   *)
THEOREM SeatsFit == SeatsSpec => []KnownSeatsFit
<1>1. SeatsInv => KnownSeatsFit
  BY DEF SeatsInv
<1> QED
  BY <1>1, SeatsInvariant, PTL

(* Nobody applies twice who saw the first application, and the waiting list *)
(* is in the order of those who saw each other.                             *)
THEOREM AppliedOnce == SeatsSpec => []OneApplicationEach
<1>1. SeatsInv => OneApplicationEach
  BY DEF SeatsInv
<1> QED
  BY <1>1, SeatsInvariant, PTL

-----------------------------------------------------------------------------
(* LessonFees: where requests neither meet nor fail, feePaid is the record *)

FCall == [at : {"new", "look", "report", "confirm", "unconfirm", "withdraw", "card", "sync",
                "flag", "done"},
          app : Students \cup {"none"}, month : Months \cup {0}, paid : BOOLEAN]

\* A request under way is about a student, and about a month that has begun.
FeeBusy(r) == r.at \notin {"new", "done"}
FeeCallOK(r) ==
  /\ FeeBusy(r) => r.app \in Students
  /\ r.at \in {"report", "confirm", "unconfirm", "withdraw", "sync", "flag"} => r.month \in Months
  /\ r.month <= month

\* What a request has read about a student's fee is still so.
Confirmed(a, m) == feeRecord[a][m] = "CONFIRMED"
Agrees(r, a) ==
  /\ r.at = "report" => ~Confirmed(a, r.month)
  /\ r.at = "flag" /\ r.month = month => (r.paid <=> Confirmed(a, month))

Syncing(r) == r.at \in {"sync", "flag"} /\ r.month = month

FlagFollows(a) == flagMonth[a] = month => (feePaid[a] <=> Confirmed(a, month))

FeeTidy(a) ==
  /\ \A c \in FeeCalls : FeeBusy(feeCall[c]) /\ feeCall[c].app = a => Agrees(feeCall[c], a)
  /\ (\A c \in FeeCalls : Syncing(feeCall[c]) => feeCall[c].app # a) => FlagFollows(a)

\* From what the request of c knows about student a to what it knows as r.
FeeLeavesTidy(c, r, a) ==
  (/\ FeeBusy(feeCall[c]) => Agrees(feeCall[c], a)
   /\ ~Syncing(feeCall[c]) => FlagFollows(a))
  => (/\ FeeBusy(r) => Agrees(r, a)'
      /\ ~Syncing(r)' => FlagFollows(a)')

FeesInv ==
  /\ FeesTypeOK
  /\ \A c \in FeeCalls : FeeCallOK(feeCall[c])
  /\ \A a \in Students : flagMonth[a] <= month
  /\ FeesMet(feeCall) \subseteq feeMet
  /\ \A a \in Students \ feeMet : FeeTidy(a)

-----------------------------------------------------------------------------
(* Lemmas                                                                  *)

(* In the first month nobody has paid and every flag says so.              *)
LEMMA FeesStart == ASSUME FeesInit PROVE FeesInv
<1>1. /\ feeCall \in [FeeCalls -> FCall]
      /\ \A c \in FeeCalls : ~FeeBusy(feeCall[c]) /\ FeeCallOK(feeCall[c]) /\ ~Syncing(feeCall[c])
  BY DEF FeesInit, NewFeeCall, FCall, FeeBusy, FeeCallOK, Syncing
<1>2. FeesTypeOK
  BY <1>1, FeesAssumption DEF FeesInit, FeesTypeOK, FCall, Months
<1>3. FeesMet(feeCall) \subseteq feeMet
  BY <1>1 DEF FeesMet, UnderWay, FeeBusy
<1>4. 1 \in Months
  BY FeesAssumption DEF Months
<1>5. \A a \in Students : FeeTidy(a) /\ flagMonth[a] <= month
  BY <1>1, <1>4 DEF FeesInit, FeeTidy, FlagFollows, Confirmed
<1>. QED
  BY <1>1, <1>2, <1>3, <1>5 DEF FeesInv

(* A request that moves on leaves the others where they are.               *)
LEMMA FeeMoves ==
  ASSUME FeesInv, NEW c \in FeeCalls, NEW r \in FCall, FeeBecomes(c, r)
  PROVE  /\ feeCall' \in [FeeCalls -> FCall]
         /\ feeCall'[c] = r
         /\ \A d \in FeeCalls \ {c} : feeCall'[d] = feeCall[d]
         /\ feeMet \subseteq feeMet' /\ feeMet' \subseteq Students
         /\ FeesMet(feeCall)' \subseteq feeMet'
<1>1. /\ feeCall' = [feeCall EXCEPT ![c] = r] /\ feeCall \in [FeeCalls -> FCall]
      /\ feeMet' = feeMet \cup FeesMet(feeCall') /\ feeMet \subseteq Students
  BY DEF FeesInv, FeesTypeOK, FCall, FeeBecomes
<1>. QED
  BY <1>1 DEF FeesMet

(* Whoever works on the fee of a student not marked does so alone.         *)
LEMMA FeeAlone ==
  ASSUME FeesInv, NEW c \in FeeCalls, NEW r \in FCall, FeeBecomes(c, r),
         NEW a \in Students \ feeMet',
         \/ FeeBusy(r) /\ r.app = a
         \/ FeeBusy(feeCall[c]) /\ feeCall[c].app = a,
         NEW d \in FeeCalls \ {c}, FeeBusy(feeCall[d])
  PROVE  feeCall[d].app # a
<1>1. /\ feeCall'[c] = r /\ feeCall'[d] = feeCall[d]
      /\ feeMet \subseteq feeMet' /\ FeesMet(feeCall)' \subseteq feeMet'
      /\ FeesMet(feeCall) \subseteq feeMet
  BY FeeMoves DEF FeesInv
<1>2. CASE FeeBusy(r) /\ r.app = a
  BY <1>1, <1>2 DEF FeesMet, UnderWay, FeeBusy
<1>3. CASE FeeBusy(feeCall[c]) /\ feeCall[c].app = a
  BY <1>1, <1>3 DEF FeesMet, UnderWay, FeeBusy
<1>. QED
  BY <1>2, <1>3

(* Other students are left as tidy as they were.                           *)
LEMMA OthersTidy ==
  ASSUME FeesInv, NEW c \in FeeCalls, NEW r \in FCall, feeCall'[c] = r,
         \A d \in FeeCalls \ {c} : feeCall'[d] = feeCall[d],
         month' = month, NEW l \in Students \ feeMet,
         FeeBusy(feeCall[c]) => feeCall[c].app # l, FeeBusy(r) => r.app # l,
         feeRecord'[l] = feeRecord[l], feePaid'[l] = feePaid[l], flagMonth'[l] = flagMonth[l]
  PROVE  FeeTidy(l)'
<1>1. FeeTidy(l)
  BY DEF FeesInv
<1>2. ASSUME NEW d \in FeeCalls, FeeBusy(feeCall'[d]), feeCall'[d].app = l
      PROVE  Agrees(feeCall[d], l)'
  <2>1. d # c /\ feeCall'[d] = feeCall[d]
    BY <1>2
  <2>2. Agrees(feeCall[d], l)
    BY <1>1, <1>2, <2>1 DEF FeeTidy
  <2>. QED
    BY <2>1, <2>2 DEF Agrees, Confirmed
<1>3. ASSUME \A d \in FeeCalls : Syncing(feeCall[d])' => feeCall'[d].app # l
      PROVE  FlagFollows(l)'
  <2>1. \A d \in FeeCalls : Syncing(feeCall[d]) => feeCall[d].app # l
    BY <1>3 DEF Syncing, FeeBusy
  <2>. QED
    BY <1>1, <2>1 DEF FeeTidy, FlagFollows, Confirmed
<1>. QED
  BY <1>2, <1>3 DEF FeeTidy

(* A step about one student keeps the invariant if, from what the request  *)
(* knew, it leaves the student's record and flag tidy.                     *)
LEMMA FeesKeep ==
  ASSUME FeesInv, NEW c \in FeeCalls, NEW r \in FCall, FeeCallOK(r), FeeBecomes(c, r),
         month' = month, NEW a \in Students,
         feeRecord' \in [Students -> [Months -> {"UNPAID", "REPORTED", "CONFIRMED"}]],
         feePaid' \in [Students -> BOOLEAN], flagMonth' \in [Students -> Months \cup {0}],
         flagMonth'[a] <= month,
         FeeBusy(feeCall[c]) \/ FeeBusy(r),
         FeeBusy(feeCall[c]) => feeCall[c].app = a,
         FeeBusy(r) => r.app = a,
         \A l \in Students \ {a} : /\ feeRecord'[l] = feeRecord[l] /\ feePaid'[l] = feePaid[l]
                                   /\ flagMonth'[l] = flagMonth[l],
         FeeLeavesTidy(c, r, a)
  PROVE  FeesInv'
<1>1. /\ feeCall' \in [FeeCalls -> FCall]
      /\ feeCall'[c] = r
      /\ \A d \in FeeCalls \ {c} : feeCall'[d] = feeCall[d]
      /\ feeMet \subseteq feeMet' /\ feeMet' \subseteq Students
      /\ FeesMet(feeCall)' \subseteq feeMet'
  BY FeeMoves
<1>2. FeesTypeOK'
  BY <1>1 DEF FeesInv, FeesTypeOK, FCall
<1>3. ASSUME NEW d \in FeeCalls  PROVE FeeCallOK(feeCall[d])'
  BY <1>1 DEF FeesInv, FeeCallOK
<1>4. \A l \in Students : flagMonth'[l] <= month'
  BY DEF FeesInv
<1>5. ASSUME NEW l \in Students \ feeMet', l # a  PROVE FeeTidy(l)'
  BY <1>1, <1>5, OthersTidy
<1>6. ASSUME a \notin feeMet'  PROVE FeeTidy(a)'
  <2>1. ASSUME NEW d \in FeeCalls \ {c}, FeeBusy(feeCall[d])  PROVE feeCall[d].app # a
    BY <1>6, <2>1, FeeAlone
  <2>2. FeeTidy(a)
    BY <1>1, <1>6 DEF FeesInv
  <2>3. FeeBusy(feeCall[c]) => Agrees(feeCall[c], a)
    BY <2>2 DEF FeeTidy
  <2>4. ~Syncing(feeCall[c]) => FlagFollows(a)
    BY <2>1, <2>2 DEF FeeTidy, Syncing, FeeBusy
  <2>5. /\ FeeBusy(r) => Agrees(r, a)'
        /\ ~Syncing(r)' => FlagFollows(a)'
    BY <2>3, <2>4, Zenon DEF FeeLeavesTidy
  <2>6. ASSUME NEW d \in FeeCalls, FeeBusy(feeCall'[d]), feeCall'[d].app = a
        PROVE  Agrees(feeCall[d], a)'
    <3>1. d = c /\ feeCall'[d] = r
      BY <1>1, <2>1, <2>6
    <3>. QED
      BY <2>5, <2>6, <3>1 DEF Agrees
  <2>7. ASSUME \A d \in FeeCalls : Syncing(feeCall[d])' => feeCall'[d].app # a
        PROVE  FlagFollows(a)'
    <3>1. Syncing(r)' => FeeBusy(r)
      BY DEF Syncing, FeeBusy
    <3>2. Syncing(r)' <=> Syncing(feeCall[c])'
      BY <1>1 DEF Syncing
    <3>. QED
      BY <1>1, <2>5, <2>7, <3>1, <3>2
  <2>. QED
    BY <2>6, <2>7 DEF FeeTidy
<1>. QED
  BY <1>1, <1>2, <1>3, <1>4, <1>5, <1>6 DEF FeesInv

(* A request that is done is about nobody.                                 *)
LEMMA FeeDoneAs ==
  ASSUME NEW c \in FeeCalls, FeeDone(c), FeesInv
  PROVE  \E r \in FCall : /\ FeeBecomes(c, r) /\ r.at = "done" /\ ~FeeBusy(r) /\ FeeCallOK(r)
                          /\ ~Syncing(r)'
<1>1. PICK r : r = [NewFeeCall EXCEPT !.at = "done"]
  OBVIOUS
<1>2. r \in FCall /\ r.at = "done" /\ r.month = 0
  BY <1>1 DEF NewFeeCall, FCall
<1>3. month \in Months
  BY DEF FeesInv, FeesTypeOK
<1>4. ~FeeBusy(r) /\ FeeCallOK(r) /\ ~Syncing(r)'
  BY <1>2, <1>3 DEF FeeBusy, FeeCallOK, Months, Syncing
<1>5. FeeBecomes(c, r)
  BY <1>1 DEF FeeDone
<1>. QED
  BY <1>2, <1>4, <1>5

(* When a month passes no flag is about the new one.                       *)
LEMMA MonthKeeps == ASSUME FeesInv, MonthPasses PROVE FeesInv'
<1>1. /\ month \in Nat /\ month' = month + 1 /\ month' \in Months
      /\ UNCHANGED <<feeRecord, feePaid, feeCall, flagMonth, feeMet>>
      /\ feeCall \in [FeeCalls -> FCall] /\ flagMonth \in [Students -> Months \cup {0}]
  BY FeesAssumption DEF MonthPasses, FeesInv, FeesTypeOK, Months, FCall
<1>2. FeesTypeOK'
  BY <1>1 DEF FeesInv, FeesTypeOK
<1>3. ASSUME NEW d \in FeeCalls  PROVE FeeCallOK(feeCall[d])'
  BY <1>1 DEF FeesInv, FeeCallOK, FCall, Months
<1>4. ASSUME NEW l \in Students  PROVE flagMonth'[l] <= month' /\ flagMonth'[l] # month'
  BY <1>1 DEF FeesInv, Months
<1>5. ASSUME NEW l \in Students \ feeMet'  PROVE FeeTidy(l)'
  <2>1. FlagFollows(l)'
    BY <1>4 DEF FlagFollows
  <2>2. ASSUME NEW d \in FeeCalls, FeeBusy(feeCall[d]), feeCall[d].app = l
        PROVE  Agrees(feeCall[d], l)'
    <3>1. Agrees(feeCall[d], l) /\ feeCall[d].month <= month /\ feeCall[d].month \in Months \cup {0}
      BY <1>1, <1>5, <2>2 DEF FeesInv, FeeTidy, FeeCallOK, FCall
    <3>2. feeCall[d].month # month'
      BY <1>1, <3>1 DEF Months
    <3>. QED
      BY <1>1, <3>1, <3>2 DEF Agrees, Confirmed
  <2>. QED
    BY <1>1, <2>1, <2>2 DEF FeeTidy
<1>. QED
  BY <1>1, <1>2, <1>3, <1>4, <1>5 DEF FeesInv, FeesMet

(* A request that fails marks the student it was about.                    *)
LEMMA FeeFailureKeeps ==
  ASSUME FeesInv, NEW c \in FeeCalls, FeeCallFails(c)
  PROVE  FeesInv'
<1>1. PICK r : r = [NewFeeCall EXCEPT !.at = "done"]
  OBVIOUS
<1>2. r \in FCall /\ r.at = "done" /\ ~FeeBusy(r) /\ r.month = 0
  BY <1>1 DEF NewFeeCall, FCall, FeeBusy
<1>3. /\ feeCall' = [feeCall EXCEPT ![c] = r] /\ feeCall \in [FeeCalls -> FCall]
      /\ feeMet' = feeMet \cup {feeCall[c].app}
      /\ FeeBusy(feeCall[c]) /\ feeCall[c].app \in Students
      /\ UNCHANGED <<month, feeRecord, feePaid, flagMonth>>
  BY <1>1 DEF FeeCallFails, UnderWay, FeeBusy, FeesInv, FeesTypeOK, FCall, FeeCallOK
<1>4. /\ feeCall' \in [FeeCalls -> FCall] /\ feeCall'[c] = r
      /\ \A d \in FeeCalls \ {c} : feeCall'[d] = feeCall[d]
  BY <1>2, <1>3
<1>5. FeesTypeOK'
  BY <1>3, <1>4 DEF FeesInv, FeesTypeOK, FCall
<1>6. ASSUME NEW d \in FeeCalls  PROVE FeeCallOK(feeCall[d])'
  <2>1. month \in Months
    BY DEF FeesInv, FeesTypeOK
  <2>2. FeeCallOK(feeCall[d])
    BY DEF FeesInv
  <2>. QED
    BY <1>2, <1>3, <1>4, <2>1, <2>2 DEF FeeCallOK, Months, FeeBusy
<1>7. FeesMet(feeCall)' \subseteq feeMet'
  BY <1>2, <1>3, <1>4 DEF FeesInv, FeesMet, UnderWay, FeeBusy
<1>8. ASSUME NEW l \in Students \ feeMet'  PROVE FeeTidy(l)'
  BY <1>2, <1>3, <1>4, <1>8, OthersTidy
<1>9. \A l \in Students : flagMonth'[l] <= month'
  BY <1>3 DEF FeesInv
<1>. QED
  BY <1>5, <1>6, <1>7, <1>8, <1>9 DEF FeesInv

(* What every step of a request starts from.                               *)
LEMMA FeeStartsFrom ==
  ASSUME FeesInv, NEW c \in FeeCalls
  PROVE  /\ month \in Months /\ month \in Nat
         /\ feeRecord \in [Students -> [Months -> {"UNPAID", "REPORTED", "CONFIRMED"}]]
         /\ feePaid \in [Students -> BOOLEAN] /\ flagMonth \in [Students -> Months \cup {0}]
         /\ \A a \in Students : flagMonth[a] <= month
         /\ feeCall[c] \in FCall /\ FeeCallOK(feeCall[c])
BY DEF FeesInv, FeesTypeOK, FCall, Months

(* A request that only looks, and what it then knows.                      *)
LEMMA FeeLookKeeps ==
  ASSUME FeesInv, NEW c \in FeeCalls, NEW r \in FCall, FeeBecomes(c, r), FeeCallOK(r),
         UNCHANGED <<month, feeRecord, feePaid, flagMonth>>,
         NEW a \in Students, FeeBusy(feeCall[c]) \/ FeeBusy(r),
         FeeBusy(feeCall[c]) => feeCall[c].app = a, FeeBusy(r) => r.app = a,
         Syncing(feeCall[c]) => Syncing(r),
         Agrees(r, a)
  PROVE  FeesInv'
<1>1. FeeLeavesTidy(c, r, a)
  BY DEF FeeLeavesTidy, Agrees, FlagFollows, Syncing, Confirmed
<1>. QED
  BY <1>1, FeeStartsFrom, FeesKeep

(* The call, the look at the month's record and the look after a write.    *)
LEMMA FeeLooksKeep ==
  ASSUME FeesInv, NEW c \in FeeCalls, CallFee(c) \/ LookReported(c) \/ ReadRecord(c)
  PROVE  FeesInv'
<1>1. /\ month \in Months /\ month \in Nat /\ feeCall[c] \in FCall /\ FeeCallOK(feeCall[c])
  BY FeeStartsFrom
<1>2. CASE CallFee(c)
  <2>1. PICK a \in Students :
          \/ FeeBecomes(c, [NewFeeCall EXCEPT !.at = "look", !.app = a])
          \/ \E m \in 1..month, k \in {"confirm", "unconfirm"} :
               FeeBecomes(c, [NewFeeCall EXCEPT !.at = k, !.app = a, !.month = m])
          \/ FeeBecomes(c, [NewFeeCall EXCEPT !.at = "withdraw", !.app = a, !.month = month])
          \/ FeeBecomes(c, [NewFeeCall EXCEPT !.at = "card", !.app = a])
    BY <1>2 DEF CallFee
  <2>2. \A m \in 1..month : m \in Months /\ m <= month
    BY <1>1, FeesAssumption DEF Months
  <2>3. PICK r \in FCall :
          /\ FeeBecomes(c, r) /\ r.app = a /\ r.month <= month
          /\ r.at \in {"look", "confirm", "unconfirm", "withdraw", "card"}
          /\ r.at \in {"confirm", "unconfirm", "withdraw"} => r.month \in Months
    <3>1. 0 <= month /\ month \in 1..month
      BY <1>1, FeesAssumption DEF Months
    <3>2. CASE \E k \in {"look", "card"} : FeeBecomes(c, [NewFeeCall EXCEPT !.at = k, !.app = a])
      <4>1. PICK k \in {"look", "card"} : FeeBecomes(c, [NewFeeCall EXCEPT !.at = k, !.app = a])
        BY <3>2
      <4>2. PICK r : r = [NewFeeCall EXCEPT !.at = k, !.app = a]
        OBVIOUS
      <4>3. r \in FCall /\ r.app = a /\ r.at = k /\ r.month = 0
        BY <4>2 DEF NewFeeCall, FCall
      <4>. QED
        BY <3>1, <4>1, <4>2, <4>3
    <3>3. CASE \E m \in 1..month, k \in {"confirm", "unconfirm", "withdraw"} :
                 FeeBecomes(c, [NewFeeCall EXCEPT !.at = k, !.app = a, !.month = m])
      <4>1. PICK m \in 1..month, k \in {"confirm", "unconfirm", "withdraw"} :
              FeeBecomes(c, [NewFeeCall EXCEPT !.at = k, !.app = a, !.month = m])
        BY <3>3
      <4>2. PICK r : r = [NewFeeCall EXCEPT !.at = k, !.app = a, !.month = m]
        OBVIOUS
      <4>3. r \in FCall /\ r.app = a /\ r.at = k /\ r.month = m /\ m \in Months /\ m <= month
        BY <2>2, <4>1, <4>2 DEF NewFeeCall, FCall
      <4>. QED
        BY <4>1, <4>2, <4>3
    <3>. QED
      BY <2>1, <3>1, <3>2, <3>3
  <2>5. FeeBusy(r) /\ FeeCallOK(r) /\ Agrees(r, a)
    BY <2>3 DEF FeeBusy, FeeCallOK, Agrees
  <2>4. ~FeeBusy(feeCall[c]) /\ ~Syncing(feeCall[c]) /\ UNCHANGED <<month, feeRecord, feePaid, flagMonth>>
    BY <1>2 DEF CallFee, FeeAt, FeeBusy, Syncing
  <2>. QED
    BY <2>3, <2>4, <2>5, FeeLookKeeps
<1>3. CASE LookReported(c)
  <2>1. /\ feeCall[c].at = "look" /\ FeeBusy(feeCall[c]) /\ ~Syncing(feeCall[c])
        /\ UNCHANGED <<month, feeRecord, feePaid, flagMonth>>
    BY <1>3 DEF LookReported, FeeAt, FeeBusy, Syncing
  <2>2. PICK a \in Students : a = feeCall[c].app
    BY <1>1, <2>1 DEF FeeCallOK
  <2>3. CASE Confirmed(a, month)
    <3>1. FeeDone(c)
      BY <1>3, <2>2, <2>3 DEF LookReported, Confirmed
    <3>2. PICK r \in FCall : FeeBecomes(c, r) /\ r.at = "done" /\ ~FeeBusy(r) /\ FeeCallOK(r)
      BY <3>1, FeeDoneAs
    <3>3. Agrees(r, a)
      BY <3>2 DEF Agrees
    <3>. QED
      BY <2>1, <2>2, <3>2, <3>3, FeeLookKeeps
  <2>4. CASE ~Confirmed(a, month)
    <3>1. PICK r : r = [feeCall[c] EXCEPT !.at = "report", !.month = month]
      OBVIOUS
    <3>2. FeeBecomes(c, r)
      BY <1>3, <2>2, <2>4, <3>1 DEF LookReported, Confirmed
    <3>3. r \in FCall /\ r.at = "report" /\ r.month = month /\ r.app = a
      BY <1>1, <2>2, <3>1 DEF FCall
    <3>4. FeeBusy(r) /\ FeeCallOK(r) /\ Agrees(r, a)
      BY <1>1, <2>4, <3>3 DEF FeeBusy, FeeCallOK, Agrees
    <3>. QED
      BY <2>1, <2>2, <3>2, <3>3, <3>4, FeeLookKeeps
  <2>. QED
    BY <2>3, <2>4
<1>4. CASE ReadRecord(c)
  <2>1. /\ feeCall[c].at = "sync" /\ FeeBusy(feeCall[c])
        /\ UNCHANGED <<month, feeRecord, feePaid, flagMonth>>
    BY <1>4 DEF ReadRecord, FeeAt, FeeBusy
  <2>2. PICK a \in Students, m \in Months : a = feeCall[c].app /\ m = feeCall[c].month /\ m <= month
    BY <1>1, <2>1 DEF FeeCallOK
  <2>3. PICK r : r = [feeCall[c] EXCEPT !.at = "flag", !.paid = Confirmed(a, m)]
    OBVIOUS
  <2>4. FeeBecomes(c, r)
    BY <1>4, <2>2, <2>3 DEF ReadRecord, Confirmed
  <2>5. /\ r \in FCall /\ r.at = "flag" /\ r.month = m /\ r.app = a
        /\ r.paid <=> Confirmed(a, m)
    BY <1>1, <2>2, <2>3 DEF FCall, Confirmed
  <2>6. FeeBusy(r) /\ FeeCallOK(r) /\ Agrees(r, a) /\ (Syncing(feeCall[c]) => Syncing(r))
    BY <2>2, <2>5 DEF FeeBusy, FeeCallOK, Agrees, Syncing
  <2>. QED
    BY <2>1, <2>2, <2>4, <2>5, <2>6, FeeLookKeeps
<1>. QED
  BY <1>2, <1>3, <1>4

(* Writes of the record: a report where nothing was confirmed, a report    *)
(* taken back, and a confirmation or its reversal, which the flag follows  *)
(* if it is about this month.                                              *)
LEMMA RecordKeeps ==
  ASSUME FeesInv, NEW c \in FeeCalls,
         WriteReport(c) \/ WithdrawReport(c) \/ Confirm(c) \/ Unconfirm(c)
  PROVE  FeesInv'
<1>1. /\ month \in Months /\ month \in Nat
      /\ feeRecord \in [Students -> [Months -> {"UNPAID", "REPORTED", "CONFIRMED"}]]
      /\ feePaid \in [Students -> BOOLEAN] /\ flagMonth \in [Students -> Months \cup {0}]
      /\ \A a \in Students : flagMonth[a] <= month
      /\ feeCall[c] \in FCall /\ FeeCallOK(feeCall[c])
  BY FeeStartsFrom
<1>2. /\ feeCall[c].at \in {"report", "withdraw", "confirm", "unconfirm"}
      /\ FeeBusy(feeCall[c]) /\ ~Syncing(feeCall[c])
      /\ UNCHANGED <<month, feePaid, flagMonth>>
  BY DEF WriteReport, WithdrawReport, Confirm, Unconfirm, FeeAt, FeeBusy, Syncing
<1>3. PICK a \in Students, m \in Months : a = feeCall[c].app /\ m = feeCall[c].month
  BY <1>1, <1>2 DEF FeeCallOK
<1>4. ASSUME NEW s \in {"UNPAID", "REPORTED", "CONFIRMED"},
             feeRecord' = [feeRecord EXCEPT ![a][m] = s]
      PROVE  /\ feeRecord' \in [Students -> [Months -> {"UNPAID", "REPORTED", "CONFIRMED"}]]
             /\ \A l \in Students \ {a} : feeRecord'[l] = feeRecord[l]
             /\ feeRecord'[a][m] = s
             /\ \A n \in Months \ {m} : feeRecord'[a][n] = feeRecord[a][n]
  BY <1>1, <1>4
<1>5. CASE WriteReport(c) \/ WithdrawReport(c)
  <2>1. PICK r \in FCall : FeeBecomes(c, r) /\ r.at = "done" /\ ~FeeBusy(r) /\ FeeCallOK(r)
    BY <1>5, FeeDoneAs DEF WriteReport, WithdrawReport
  <2>2. /\ feeRecord' \in [Students -> [Months -> {"UNPAID", "REPORTED", "CONFIRMED"}]]
        /\ \A l \in Students \ {a} : feeRecord'[l] = feeRecord[l]
        /\ Agrees(feeCall[c], a) => (Confirmed(a, month)' <=> Confirmed(a, month))
    <3>1. CASE WriteReport(c)
      <4>1. feeRecord' = [feeRecord EXCEPT ![a][m] = "REPORTED"] /\ feeCall[c].at = "report"
        BY <1>3, <3>1 DEF WriteReport, Record, FeeAt
      <4>. QED
        BY <1>1, <1>2, <1>3, <1>4, <4>1 DEF Agrees, Confirmed
    <3>2. CASE WithdrawReport(c) /\ feeRecord[a][m] = "REPORTED"
      <4>1. feeRecord' = [feeRecord EXCEPT ![a][m] = "UNPAID"]
        BY <1>3, <3>2 DEF WithdrawReport, Record
      <4>. QED
        BY <1>1, <1>2, <1>4, <3>2, <4>1 DEF Confirmed
    <3>3. CASE WithdrawReport(c) /\ feeRecord[a][m] # "REPORTED"
      <4>1. feeRecord' = feeRecord
        BY <1>3, <3>3 DEF WithdrawReport
      <4>. QED
        BY <1>1, <1>2, <4>1 DEF Confirmed
    <3>. QED
      BY <1>5, <3>1, <3>2, <3>3
  <2>3. FeeLeavesTidy(c, r, a)
    BY <1>2, <2>1, <2>2 DEF FeeLeavesTidy, FlagFollows
  <2>. QED
    BY <1>1, <1>2, <1>3, <2>1, <2>2, <2>3, FeesKeep
<1>6. CASE Confirm(c) \/ Unconfirm(c)
  <2>1. PICK s \in {"UNPAID", "CONFIRMED"} : feeRecord' = [feeRecord EXCEPT ![a][m] = s]
    BY <1>3, <1>6 DEF Confirm, Unconfirm, Record
  <2>2. /\ feeRecord' \in [Students -> [Months -> {"UNPAID", "REPORTED", "CONFIRMED"}]]
        /\ \A l \in Students \ {a} : feeRecord'[l] = feeRecord[l]
        /\ \A n \in Months \ {m} : feeRecord'[a][n] = feeRecord[a][n]
    BY <1>4, <2>1
  <2>3. CASE m = month
    <3>1. PICK r : r = [feeCall[c] EXCEPT !.at = "sync"]
      OBVIOUS
    <3>2. FeeBecomes(c, r)
      BY <1>3, <1>6, <2>3, <3>1 DEF Confirm, Unconfirm, AfterRecord, FeeTo
    <3>3. r \in FCall /\ r.at = "sync" /\ r.month = m /\ r.app = a
      BY <1>1, <1>3, <3>1 DEF FCall
    <3>4. FeeBusy(r) /\ FeeCallOK(r) /\ FeeLeavesTidy(c, r, a)
      BY <1>1, <1>2, <2>3, <3>3 DEF FeeBusy, FeeCallOK, FeeLeavesTidy, Agrees, Syncing
    <3>. QED
      BY <1>1, <1>2, <1>3, <2>2, <3>2, <3>3, <3>4, FeesKeep
  <2>4. CASE m # month
    <3>1. FeeDone(c)
      BY <1>3, <1>6, <2>4 DEF Confirm, Unconfirm, AfterRecord
    <3>2. PICK r \in FCall : FeeBecomes(c, r) /\ r.at = "done" /\ ~FeeBusy(r) /\ FeeCallOK(r)
      BY <3>1, FeeDoneAs
    <3>3. FeeLeavesTidy(c, r, a)
      BY <1>1, <1>2, <2>2, <2>4, <3>2 DEF FeeLeavesTidy, FlagFollows, Confirmed
    <3>. QED
      BY <1>1, <1>2, <1>3, <2>2, <3>2, <3>3, FeesKeep
  <2>. QED
    BY <2>3, <2>4
<1>. QED
  BY <1>5, <1>6

(* Writes of the flag: what was read, or that a card was charged.          *)
LEMMA FlagKeeps ==
  ASSUME FeesInv, NEW c \in FeeCalls, WriteFlag(c) \/ CardPaid(c)
  PROVE  FeesInv'
<1>1. /\ month \in Months /\ month \in Nat
      /\ feeRecord \in [Students -> [Months -> {"UNPAID", "REPORTED", "CONFIRMED"}]]
      /\ feePaid \in [Students -> BOOLEAN] /\ flagMonth \in [Students -> Months \cup {0}]
      /\ \A a \in Students : flagMonth[a] <= month
      /\ feeCall[c] \in FCall /\ FeeCallOK(feeCall[c])
  BY FeeStartsFrom
<1>2. /\ feeCall[c].at \in {"flag", "card"} /\ FeeBusy(feeCall[c])
      /\ UNCHANGED <<month, feeRecord>> /\ FeeDone(c)
  BY DEF WriteFlag, CardPaid, FeeAt, FeeBusy
<1>3. PICK a \in Students : a = feeCall[c].app
  BY <1>1, <1>2 DEF FeeCallOK
<1>4. PICK r \in FCall : FeeBecomes(c, r) /\ r.at = "done" /\ ~FeeBusy(r) /\ FeeCallOK(r)
  BY <1>2, FeeDoneAs
<1>5. CASE WriteFlag(c)
  <2>1. feeCall[c].at = "flag" /\ feeCall[c].paid \in BOOLEAN /\ feeCall[c].month \in Months
        /\ feeCall[c].month <= month
    BY <1>1, <1>5 DEF WriteFlag, FeeAt, FCall, FeeCallOK
  <2>2. /\ feePaid' \in [Students -> BOOLEAN] /\ flagMonth' \in [Students -> Months \cup {0}]
        /\ feePaid'[a] = feeCall[c].paid /\ flagMonth'[a] = feeCall[c].month
        /\ \A l \in Students \ {a} : feePaid'[l] = feePaid[l] /\ flagMonth'[l] = flagMonth[l]
    BY <1>1, <1>3, <1>5, <2>1 DEF WriteFlag
  <2>3. FeeLeavesTidy(c, r, a)
    BY <1>2, <1>4, <2>1, <2>2 DEF FeeLeavesTidy, Agrees, FlagFollows, Confirmed
  <2>. QED
    BY <1>1, <1>2, <1>3, <1>4, <2>1, <2>2, <2>3, FeesKeep
<1>6. CASE CardPaid(c)
  <2>1. /\ feePaid' \in [Students -> BOOLEAN] /\ flagMonth' \in [Students -> Months \cup {0}]
        /\ flagMonth'[a] = 0
        /\ \A l \in Students \ {a} : feePaid'[l] = feePaid[l] /\ flagMonth'[l] = flagMonth[l]
    BY <1>1, <1>3, <1>6 DEF CardPaid
  <2>2. 0 # month /\ 0 <= month
    BY <1>1 DEF Months
  <2>3. FeeLeavesTidy(c, r, a)
    BY <1>2, <1>4, <2>1, <2>2 DEF FeeLeavesTidy, FlagFollows
  <2>. QED
    BY <1>1, <1>2, <1>3, <1>4, <2>1, <2>2, <2>3, FeesKeep
<1>. QED
  BY <1>5, <1>6

(* Every step keeps the invariant.                                         *)
LEMMA FeesStep == ASSUME FeesInv, [FeesNext]_feeVars PROVE FeesInv'
<1>1. CASE UNCHANGED feeVars
  BY <1>1 DEF feeVars, FeesInv, FeesTypeOK, FeeCallOK, FeesMet, UnderWay, FeeTidy, Agrees, Syncing,
              FlagFollows, Confirmed
<1>2. CASE FeesNext
  BY <1>2, MonthKeeps, FeeFailureKeeps, FeeLooksKeep, RecordKeeps, FlagKeeps DEF FeesNext
<1>. QED
  BY <1>1, <1>2

(* The invariant holds throughout.                                         *)
LEMMA FeesInvariant == FeesSpec => []FeesInv
BY FeesStart, FeesStep, PTL DEF FeesSpec

-----------------------------------------------------------------------------
(* Theorems                                                                *)

(* Records, flags and what is under way are always of the kinds the schema *)
(* has, and no month is ahead of the calendar.                             *)
THEOREM FeesTyped == FeesSpec => []FeesTypeOK
<1>1. FeesInv => FeesTypeOK
  BY DEF FeesInv
<1>. QED
  BY <1>1, FeesInvariant, PTL

(* lab.service.ts syncFeePaidFlag: the column is what the record of the    *)
(* month says, once it was derived this month and nothing overlapped.      *)
THEOREM FlagIsRecord == FeesSpec => []FlagFollowsRecord
<1>1. ASSUME FeesInv  PROVE FlagFollowsRecord
  <2>1. ASSUME NEW a \in Students \ feeMet, flagMonth[a] = month,
               \A c \in UnderWay(feeCall) : feeCall[c].app # a
        PROVE  feePaid[a] = (feeRecord[a][month] = "CONFIRMED")
    <3>1. FeeTidy(a) /\ feePaid[a] \in BOOLEAN
      BY <1>1 DEF FeesInv, FeesTypeOK
    <3>2. FlagFollows(a)
      BY <2>1, <3>1 DEF FeeTidy, UnderWay, Syncing
    <3>. QED
      BY <2>1, <3>1, <3>2 DEF FlagFollows, Confirmed
  <2>. QED
    BY <2>1 DEF FlagFollowsRecord
<1>. QED
  BY <1>1, FeesInvariant, PTL

(* lab.service.ts reportLessonFee: a confirmation is undone only by the    *)
(* manager, or by a report that met another request.                       *)
THEOREM ConfirmedFeesStay == FeesSpec => ConfirmationStays
<1>1. ASSUME FeesInv, [FeesNext]_feeVars
      PROVE  [\A a \in Students, m \in Months :
                feeRecord[a][m] = "CONFIRMED" /\ feeRecord'[a][m] # "CONFIRMED" =>
                  \/ a \in feeMet
                  \/ \E c \in FeeCalls : FeeAt(c, "unconfirm") /\ feeCall[c].app = a]_feeVars
  <2>1. SUFFICES ASSUME FeesNext, NEW a \in Students \ feeMet, NEW m \in Months,
                        feeRecord[a][m] = "CONFIRMED", feeRecord'[a][m] # "CONFIRMED"
                 PROVE  \E c \in FeeCalls : FeeAt(c, "unconfirm") /\ feeCall[c].app = a
    BY <1>1 DEF feeVars
  <2>2. PICK c \in FeeCalls : \/ WriteReport(c) \/ WithdrawReport(c) \/ Confirm(c) \/ Unconfirm(c)
    BY <2>1 DEF FeesNext, MonthPasses, CallFee, LookReported, ReadRecord, WriteFlag, CardPaid,
                FeeCallFails
  <2>3. /\ feeRecord \in [Students -> [Months -> {"UNPAID", "REPORTED", "CONFIRMED"}]]
        /\ FeeCallOK(feeCall[c])
    BY <1>1 DEF FeesInv, FeesTypeOK
  <2>4. CASE WriteReport(c)
    <3>1. feeCall[c].at = "report" /\ feeCall[c].app = a /\ feeCall[c].month = m
      BY <2>1, <2>3, <2>4 DEF WriteReport, FeeAt, Record
    <3>2. Agrees(feeCall[c], a)
      BY <1>1, <2>1, <3>1 DEF FeesInv, FeeTidy, FeeBusy
    <3>. QED
      BY <2>1, <3>1, <3>2 DEF Agrees, Confirmed
  <2>5. CASE WithdrawReport(c)
    BY <2>1, <2>3, <2>5 DEF WithdrawReport, Record
  <2>6. CASE Confirm(c)
    BY <2>1, <2>3, <2>6 DEF Confirm, Record
  <2>7. CASE Unconfirm(c)
    BY <2>1, <2>3, <2>7 DEF Unconfirm, Record
  <2>. QED
    BY <2>2, <2>4, <2>5, <2>6, <2>7
<1>. QED
  BY <1>1, FeesInvariant, PTL DEF FeesSpec, ConfirmationStays

-----------------------------------------------------------------------------
(* Guests: where requests neither meet nor fail, the queue is in order     *)

GuestRow == [status : {"PENDING", "CONFIRMED", "CANCELLED", "WAITLIST"}, byStaff : BOOLEAN]
GuestCallRow == [at : {"new", "create", "cancel", "count", "next", "promote", "done"},
                 app : Nat, full : BOOLEAN, seated : BOOLEAN]

GuestBusy(r) == r.at \notin {"new", "done"}
GuestsSeated == GuestsWith({"PENDING", "CONFIRMED"})
GuestsWaiting == GuestsWith({"WAITLIST"})

\* Nobody who came later has a seat before one who waits.
SeatsInOrder == \A i \in GuestsWaiting, j \in GuestsSeated : j > i => guest[j].byStaff

\* What holds while r is the only request under way: one seat may be free while it is
\* on the way to give it to the first who waits.
GuestFits(r) ==
  /\ SeatsInOrder
  /\ GuestsWaiting # {} => IF r.at \in {"count", "next", "promote"} THEN Taken + 1 >= MaxGuestsPerDay
                     ELSE Taken >= MaxGuestsPerDay
  /\ r.at = "create" => (r.full <=> Taken >= MaxGuestsPerDay)
  /\ r.at = "cancel" => /\ r.app \in GuestsSeated \cup GuestsWaiting
                        /\ r.app \in GuestsSeated => r.seated
  /\ r.at = "promote" => r.app \in GuestsWaiting /\ \A j \in GuestsWaiting : r.app <= j

GuestsInv ==
  /\ GuestsTypeOK
  /\ \A c \in GuestCalls : guestCall[c].at \in {"cancel", "promote"} => guestCall[c].app \in DOMAIN guest
  /\ ~guestMet =>
       /\ \A c, d \in GuestCalls : GuestBusy(guestCall[c]) /\ GuestBusy(guestCall[d]) => c = d
       /\ \A c \in GuestCalls : GuestBusy(guestCall[c]) => GuestFits(guestCall[c])
       /\ (\A c \in GuestCalls : ~GuestBusy(guestCall[c])) => GuestFits(NewGuestCall)

LEMMA GuestFields ==
  ASSUME GuestsInv
  PROVE  /\ guest \in Seq(GuestRow) /\ \A i \in DOMAIN guest : guest[i] \in GuestRow
         /\ guestCall \in [GuestCalls -> GuestCallRow] /\ guestMet \in BOOLEAN
         /\ DOMAIN guest \subseteq Nat /\ Len(guest) \in Nat /\ DOMAIN guest = 1..Len(guest)
         /\ IsFiniteSet(DOMAIN guest)
<1>1. guest \in Seq(GuestRow) /\ guestCall \in [GuestCalls -> GuestCallRow] /\ guestMet \in BOOLEAN
  BY DEF GuestsInv, GuestsTypeOK, GuestRow, GuestCallRow
<1>2. DOMAIN guest = 1..Len(guest) /\ Len(guest) \in Nat
  BY <1>1
<1>3. IsFiniteSet(1..Len(guest))
  BY <1>2, FS_Interval
<1> QED
  BY <1>1, <1>2, <1>3

LEMMA WithFinite ==
  ASSUME GuestsInv, NEW S
  PROVE  IsFiniteSet(GuestsWith(S)) /\ Cardinality(GuestsWith(S)) \in Nat
<1>1. GuestsWith(S) \subseteq DOMAIN guest
  BY DEF GuestsWith
<1> QED
  BY <1>1, GuestFields, FS_Subset, FS_CardinalityType

\* Before a step of c that meets no other request, c is alone with what holds.
LEMMA GuestBefore ==
  ASSUME GuestsInv, NEW c \in GuestCalls, ~guestMet,
         \A d \in GuestCalls \ {c} : guestCall[d].at \in {"new", "done"}
  PROVE  GuestFits(guestCall[c])
<1>1. CASE GuestBusy(guestCall[c])
  BY <1>1 DEF GuestsInv
<1>2. CASE ~GuestBusy(guestCall[c])
  <2>1. GuestFits(NewGuestCall)
    BY <1>2 DEF GuestsInv, GuestBusy
  <2> QED
    BY <1>2, <2>1 DEF GuestFits, GuestBusy, NewGuestCall
<1> QED
  BY <1>1, <1>2

LEMMA GuestGoes ==
  ASSUME GuestsInv, NEW c \in GuestCalls, NEW r \in GuestCallRow, GuestBecomes(c, r),
         guest' \in Seq(GuestRow), DOMAIN guest \subseteq DOMAIN guest',
         r.at \in {"cancel", "promote"} => r.app \in DOMAIN guest',
         ~guestMet /\ GuestFits(guestCall[c]) => GuestFits(r)'
  PROVE  GuestsInv'
<1>1. guestCall \in [GuestCalls -> GuestCallRow]
  BY GuestFields
<1>2. \A d \in GuestCalls : guestCall'[d] = IF d = c THEN r ELSE guestCall[d]
  BY <1>1 DEF GuestBecomes
<1>3. guestCall' \in [GuestCalls -> GuestCallRow] /\ guestMet' \in BOOLEAN
  BY <1>1 DEF GuestBecomes
<1>4. GuestsTypeOK'
  BY <1>3 DEF GuestsTypeOK, GuestRow, GuestCallRow
<1>5. \A d \in GuestCalls : guestCall'[d].at \in {"cancel", "promote"} => guestCall'[d].app \in DOMAIN guest'
  BY <1>2 DEF GuestsInv
<1>6. ASSUME ~guestMet'
      PROVE  /\ \A d, e \in GuestCalls : GuestBusy(guestCall'[d]) /\ GuestBusy(guestCall'[e]) => d = e
             /\ \A d \in GuestCalls : GuestBusy(guestCall'[d]) => GuestFits(guestCall[d])'
             /\ (\A d \in GuestCalls : ~GuestBusy(guestCall'[d])) => GuestFits(NewGuestCall)'
  <2>1. ~guestMet /\ \A d \in GuestCalls \ {c} : guestCall[d].at \in {"new", "done"}
    BY <1>6 DEF GuestBecomes
  <2>2. GuestFits(r)'
    BY <2>1, GuestBefore
  <2>3. guestCall'[c] = r /\ \A d \in GuestCalls : GuestBusy(guestCall'[d]) => d = c
    BY <1>2, <2>1 DEF GuestBusy
  <2>4. GuestFits(guestCall[c])'
    BY <2>2, <2>3 DEF GuestFits
  <2>5. (\A d \in GuestCalls : ~GuestBusy(guestCall'[d])) => GuestFits(NewGuestCall)'
    BY <2>2, <2>3 DEF GuestFits, GuestBusy, NewGuestCall
  <2> QED
    BY <2>3, <2>4, <2>5
<1> QED
  BY <1>4, <1>5, <1>6 DEF GuestsInv, GuestBusy

LEMMA GuestRecords ==
  ASSUME GuestsInv, NEW c \in GuestCalls
  PROVE  LET r == [NewGuestCall EXCEPT !.at = "done"]
         IN  r \in GuestCallRow /\ r.at = "done"
BY DEF NewGuestCall, GuestCallRow

\* One row changes.
LEMMA GuestChanges ==
  ASSUME GuestsInv, NEW i \in DOMAIN guest, NEW x \in GuestRow, guest' = [guest EXCEPT ![i] = x]
  PROVE  /\ guest' \in Seq(GuestRow) /\ DOMAIN guest' = DOMAIN guest
         /\ guest'[i] = x /\ \A j \in DOMAIN guest \ {i} : guest'[j] = guest[j]
         /\ GuestsWaiting' = IF x.status = "WAITLIST" THEN GuestsWaiting \cup {i} ELSE GuestsWaiting \ {i}
         /\ GuestsSeated' = IF x.status \in {"PENDING", "CONFIRMED"} THEN GuestsSeated \cup {i} ELSE GuestsSeated \ {i}
         /\ Taken' \in Nat /\ Taken \in Nat /\ Taken' + 1 >= Taken
         /\ x.status \in {"PENDING", "CONFIRMED"} => Taken' >= Taken
         /\ x.status \in {"PENDING", "CONFIRMED"} /\ i \notin GuestsSeated => Taken' = Taken + 1
         /\ i \notin GuestsSeated => Taken' >= Taken
<1>1. /\ guest' \in Seq(GuestRow) /\ DOMAIN guest' = DOMAIN guest
      /\ guest'[i] = x /\ \A j \in DOMAIN guest \ {i} : guest'[j] = guest[j]
  BY GuestFields
<1>2. /\ GuestsWaiting' = IF x.status = "WAITLIST" THEN GuestsWaiting \cup {i} ELSE GuestsWaiting \ {i}
      /\ GuestsSeated' = IF x.status \in {"PENDING", "CONFIRMED"} THEN GuestsSeated \cup {i} ELSE GuestsSeated \ {i}
  BY <1>1 DEF GuestsWaiting, GuestsSeated, GuestsWith
<1>3. Taken = Cardinality(GuestsSeated) /\ Taken' = Cardinality(GuestsSeated') /\ IsFiniteSet(GuestsSeated)
  BY WithFinite DEF Taken, GuestsSeated
<1>4. Cardinality(GuestsSeated) \in Nat
  BY <1>3, FS_CardinalityType
<1>5. /\ IsFiniteSet(GuestsSeated \cup {i})
      /\ Cardinality(GuestsSeated \cup {i})
           = IF i \in GuestsSeated THEN Cardinality(GuestsSeated)
             ELSE Cardinality(GuestsSeated) + 1
  BY <1>3, FS_AddElement
<1>6. /\ IsFiniteSet(GuestsSeated \ {i})
      /\ Cardinality(GuestsSeated \ {i})
           = IF i \in GuestsSeated THEN Cardinality(GuestsSeated) - 1
             ELSE Cardinality(GuestsSeated)
  BY <1>3, FS_RemoveElement
<1>7. Cardinality(GuestsSeated \ {i}) \in Nat
  BY <1>6, FS_CardinalityType
<1> HIDE DEF GuestsWaiting, GuestsSeated, Taken
<1>8. CASE x.status \in {"PENDING", "CONFIRMED"}
  BY <1>1, <1>2, <1>3, <1>4, <1>5, <1>8
<1>9. CASE x.status \notin {"PENDING", "CONFIRMED"}
  BY <1>1, <1>2, <1>3, <1>4, <1>6, <1>7, <1>9
<1> QED
  BY <1>8, <1>9

LEMMA GuestsSteady ==
  ASSUME guest' = guest, NEW r, GuestFits(r) PROVE GuestFits(r)'
BY DEF GuestFits, SeatsInOrder, GuestsSeated, GuestsWaiting, GuestsWith, Taken

LEMMA GuestLooks ==
  ASSUME GuestsInv, NEW c \in GuestCalls,
         CountGuests(c) \/ LookAtOwn(c) \/ CountForPromotion(c) \/ FindNext(c)
  PROVE  GuestsInv'
<1>1. /\ guest' = guest /\ guest \in Seq(GuestRow) /\ guestCall[c] \in GuestCallRow
      /\ \A i \in DOMAIN guest : guest[i] \in GuestRow /\ i \in Nat
  BY GuestFields DEF CountGuests, LookAtOwn, CountForPromotion, FindNext
<1>2. ASSUME NEW r \in GuestCallRow, GuestBecomes(c, r),
             r.at \in {"cancel", "promote"} => r.app \in DOMAIN guest,
             GuestFits(guestCall[c]) => GuestFits(r)
      PROVE  GuestsInv'
  <2>1. GuestFits(r) => GuestFits(r)'
    BY <1>1, GuestsSteady
  <2> QED
    BY <1>1, <1>2, <2>1, GuestGoes
<1>3. CASE CountGuests(c)
  <2>1. PICK full \in BOOLEAN : full <=> Taken >= MaxGuestsPerDay
    <3>1. (TRUE <=> Taken >= MaxGuestsPerDay) \/ (FALSE <=> Taken >= MaxGuestsPerDay)
      OBVIOUS
    <3> QED
      BY <3>1
  <2>2. PICK r : r = [guestCall[c] EXCEPT !.at = "create", !.full = full]
    OBVIOUS
  <2>3. r \in GuestCallRow /\ r.at = "create" /\ r.full = full /\ guestCall[c].at = "new"
    BY <1>1, <1>3, <2>2 DEF GuestCallRow, CountGuests, GuestAt
  <2>4. full = (Taken >= MaxGuestsPerDay)
    BY <2>1
  <2>5. GuestBecomes(c, r)
    BY <1>3, <2>2, <2>4 DEF CountGuests
  <2>6. GuestFits(guestCall[c]) => GuestFits(r)
    BY <2>1, <2>3 DEF GuestFits
  <2> QED
    BY <1>2, <2>3, <2>5, <2>6
<1>4. CASE LookAtOwn(c)
  <2> PICK i \in GuestsWith({"PENDING", "WAITLIST"}) :
        GuestBecomes(c, [guestCall[c] EXCEPT !.at = "cancel", !.app = i, !.seated = guest[i].status = "PENDING"])
    BY <1>4 DEF LookAtOwn
  <2>0. i \in DOMAIN guest /\ guest[i].status \in {"PENDING", "WAITLIST"} /\ i \in Nat
    BY <1>1 DEF GuestsWith
  <2>1. PICK seated \in BOOLEAN : seated = (guest[i].status = "PENDING")
    <3>1. TRUE = (guest[i].status = "PENDING") \/ FALSE = (guest[i].status = "PENDING")
      OBVIOUS
    <3> QED
      BY <3>1
  <2>2. PICK r : r = [guestCall[c] EXCEPT !.at = "cancel", !.app = i, !.seated = seated]
    OBVIOUS
  <2>3. r \in GuestCallRow /\ r.at = "cancel" /\ r.app = i /\ r.seated = seated /\ guestCall[c].at = "new"
    BY <1>1, <1>4, <2>0, <2>2 DEF GuestCallRow, LookAtOwn, GuestAt
  <2>4. GuestBecomes(c, r)
    BY <2>1, <2>2
  <2>5. i \in GuestsSeated \cup GuestsWaiting /\ (i \in GuestsSeated => seated)
    BY <2>0, <2>1 DEF GuestsSeated, GuestsWaiting, GuestsWith
  <2>6. GuestFits(guestCall[c]) => GuestFits(r)
    BY <2>3, <2>5 DEF GuestFits
  <2> QED
    BY <1>2, <2>0, <2>3, <2>4, <2>6
<1>5. ASSUME GuestDone(c), GuestFits(guestCall[c]) => GuestsWaiting = {} \/ Taken >= MaxGuestsPerDay PROVE GuestsInv'
  <2>1. PICK r : r = [NewGuestCall EXCEPT !.at = "done"]
    OBVIOUS
  <2>2. r \in GuestCallRow /\ r.at = "done" /\ GuestBecomes(c, r)
    BY <1>5, <2>1, GuestRecords DEF GuestDone
  <2>3. GuestFits(guestCall[c]) => GuestFits(r)
    BY <1>5, <2>2 DEF GuestFits
  <2> QED
    BY <1>2, <2>2, <2>3
<1>6. CASE CountForPromotion(c)
  <2>1. CASE Taken >= MaxGuestsPerDay
    BY <1>5, <1>6, <2>1 DEF CountForPromotion
  <2>2. CASE ~(Taken >= MaxGuestsPerDay)
    <3>1. PICK r : r = [guestCall[c] EXCEPT !.at = "next"]
      OBVIOUS
    <3>2. r \in GuestCallRow /\ r.at = "next" /\ guestCall[c].at = "count" /\ GuestBecomes(c, r)
      BY <1>1, <1>6, <2>2, <3>1 DEF GuestCallRow, CountForPromotion, GuestAt, GuestTo
    <3>3. GuestFits(guestCall[c]) => GuestFits(r)
      BY <3>2 DEF GuestFits
    <3> QED
      BY <1>2, <3>2, <3>3
  <2> QED
    BY <2>1, <2>2
<1>7. CASE FindNext(c)
  <2>1. CASE GuestsWaiting = {}
    BY <1>5, <1>7, <2>1 DEF FindNext, GuestsWaiting
  <2>2. CASE GuestsWaiting # {}
    <3> PICK i \in GuestsWaiting : /\ \A j \in GuestsWaiting : i <= j
                                   /\ GuestBecomes(c, [guestCall[c] EXCEPT !.at = "promote", !.app = i])
      BY <1>7, <2>2 DEF FindNext, GuestsWaiting
    <3>0. i \in DOMAIN guest /\ i \in Nat
      BY <1>1 DEF GuestsWaiting, GuestsWith
    <3>1. PICK r : r = [guestCall[c] EXCEPT !.at = "promote", !.app = i]
      OBVIOUS
    <3>2. r \in GuestCallRow /\ r.at = "promote" /\ r.app = i /\ guestCall[c].at = "next"
      BY <1>1, <1>7, <3>0, <3>1 DEF GuestCallRow, FindNext, GuestAt
    <3>3. GuestFits(guestCall[c]) => GuestFits(r)
      BY <3>2 DEF GuestFits
    <3> QED
      BY <1>2, <3>0, <3>1, <3>2, <3>3
  <2> QED
    BY <2>1, <2>2
<1> QED
  BY <1>3, <1>4, <1>6, <1>7

\* The row goes to the end of the queue, or takes a seat nobody waits for.
LEMMA GuestApplies == ASSUME GuestsInv, NEW c \in GuestCalls, CreateGuest(c) PROVE GuestsInv'
<1>1. /\ guest \in Seq(GuestRow) /\ Len(guest) \in Nat /\ DOMAIN guest = 1..Len(guest)
      /\ guestCall[c].at = "create" /\ GuestDone(c)
  BY GuestFields DEF CreateGuest, GuestAt
<1>2. PICK x : x = [status |-> IF guestCall[c].full THEN "WAITLIST" ELSE "PENDING", byStaff |-> FALSE]
  OBVIOUS
<1>3. x \in GuestRow /\ x.status = (IF guestCall[c].full THEN "WAITLIST" ELSE "PENDING")
  BY <1>2 DEF GuestRow
<1>4. PICK k : k = Len(guest) + 1
  OBVIOUS
<1>5. guest' = Append(guest, x)
  BY <1>2 DEF CreateGuest
<1>6. /\ guest' \in Seq(GuestRow) /\ DOMAIN guest' = DOMAIN guest \cup {k} /\ k \notin DOMAIN guest
      /\ guest'[k] = x /\ \A i \in DOMAIN guest : guest'[i] = guest[i] /\ i < k
      /\ \A i \in DOMAIN guest : i \in Nat
  BY <1>1, <1>3, <1>4, <1>5, AppendProperties
<1>7. /\ GuestsWaiting' = IF guestCall[c].full THEN GuestsWaiting \cup {k} ELSE GuestsWaiting
      /\ GuestsSeated' = IF guestCall[c].full THEN GuestsSeated ELSE GuestsSeated \cup {k}
  BY <1>3, <1>6 DEF GuestsWaiting, GuestsSeated, GuestsWith
<1>8. /\ Taken = Cardinality(GuestsSeated) /\ Taken' = Cardinality(GuestsSeated')
      /\ IsFiniteSet(GuestsSeated) /\ Taken \in Nat
  BY WithFinite DEF Taken, GuestsSeated
<1>9. PICK r : r = [NewGuestCall EXCEPT !.at = "done"]
  OBVIOUS
<1>10. r \in GuestCallRow /\ r.at = "done" /\ GuestBecomes(c, r)
  BY <1>1, <1>9, GuestRecords DEF GuestDone
<1>11. ASSUME GuestFits(guestCall[c]) PROVE GuestFits(r)'
  <2>1. SeatsInOrder /\ (GuestsWaiting # {} => Taken >= MaxGuestsPerDay)
        /\ (guestCall[c].full <=> Taken >= MaxGuestsPerDay)
    BY <1>1, <1>11 DEF GuestFits
  <2>2. \A i \in GuestsWaiting \cup GuestsSeated : i \in DOMAIN guest
    BY DEF GuestsWaiting, GuestsSeated, GuestsWith
  <2>3. SeatsInOrder'
    <3>1. CASE guestCall[c].full
      <4> SUFFICES ASSUME NEW i \in GuestsWaiting', NEW j \in GuestsSeated', j > i PROVE guest'[j].byStaff
        BY DEF SeatsInOrder
      <4>1. j \in GuestsSeated /\ j \in DOMAIN guest
        BY <1>7, <2>2, <3>1
      <4>2. i # k
        BY <1>1, <1>4, <1>6, <4>1
      <4> QED
        BY <1>6, <1>7, <2>1, <3>1, <4>1, <4>2 DEF SeatsInOrder
    <3>2. CASE ~guestCall[c].full
      <4>1. GuestsWaiting' = {}
        BY <1>7, <2>1, <3>2
      <4> QED
        BY <4>1 DEF SeatsInOrder
    <3> QED
      BY <3>1, <3>2
  <2>4. GuestsWaiting' # {} => Taken' >= MaxGuestsPerDay
    BY <1>7, <1>8, <2>1
  <2> QED
    BY <1>10, <2>3, <2>4 DEF GuestFits
<1> QED
  BY <1>6, <1>10, <1>11, GuestGoes

\* A seat that comes free is on its way to the first who waits.
LEMMA GuestCancels == ASSUME GuestsInv, NEW c \in GuestCalls, CancelOwn(c) \/ StaffCancels(c) PROVE GuestsInv'
<1>1. PICK i \in DOMAIN guest, r \in GuestCallRow :
        /\ guest' = [guest EXCEPT ![i].status = "CANCELLED"] /\ GuestBecomes(c, r)
        /\ \/ r.at = "count"
           \/ /\ r.at = "done" /\ guestCall[c].at = "cancel" /\ guestCall[c].app = i
              /\ ~guestCall[c].seated
        /\ guestCall[c].at \in {"new", "cancel"}
  <2>1. guestCall[c] \in GuestCallRow
    BY GuestFields
  <2>2. CASE CancelOwn(c)
    <3>1. PICK i : i = guestCall[c].app
      OBVIOUS
    <3>2. i \in DOMAIN guest /\ guest' = [guest EXCEPT ![i].status = "CANCELLED"]
          /\ guestCall[c].at = "cancel"
      BY <2>2, <3>1 DEF CancelOwn, GuestAt, GuestsInv
    <3>3. CASE guestCall[c].seated
      <4>1. PICK r : r = [guestCall[c] EXCEPT !.at = "count"]
        OBVIOUS
      <4>2. r \in GuestCallRow /\ r.at = "count" /\ GuestBecomes(c, r)
        BY <2>1, <2>2, <3>3, <4>1 DEF GuestCallRow, CancelOwn, GuestTo
      <4> QED
        BY <3>2, <4>2
    <3>4. CASE ~guestCall[c].seated
      <4>1. PICK r : r = [NewGuestCall EXCEPT !.at = "done"]
        OBVIOUS
      <4>2. r \in GuestCallRow /\ r.at = "done" /\ GuestBecomes(c, r)
        BY <2>2, <3>4, <4>1, GuestRecords DEF CancelOwn, GuestDone
      <4> QED
        BY <3>1, <3>2, <3>4, <4>2
    <3> QED
      BY <3>3, <3>4
  <2>3. CASE StaffCancels(c)
    <3>1. PICK i \in DOMAIN guest : /\ guest' = [guest EXCEPT ![i].status = "CANCELLED"]
                                    /\ GuestBecomes(c, [guestCall[c] EXCEPT !.at = "count", !.app = i])
                                    /\ guestCall[c].at = "new"
      BY <2>3 DEF StaffCancels, GuestAt
    <3>2. i \in Nat
      BY GuestFields
    <3>3. PICK r : r = [guestCall[c] EXCEPT !.at = "count", !.app = i]
      OBVIOUS
    <3>4. r \in GuestCallRow /\ r.at = "count"
      BY <2>1, <3>2, <3>3 DEF GuestCallRow
    <3> QED
      BY <3>1, <3>3, <3>4
  <2> QED
    BY <2>2, <2>3
<1>2. PICK x : x = [guest[i] EXCEPT !.status = "CANCELLED"]
  OBVIOUS
<1>3. x \in GuestRow /\ x.status = "CANCELLED" /\ guest' = [guest EXCEPT ![i] = x]
  BY <1>1, <1>2, GuestFields DEF GuestRow
<1>4. /\ guest' \in Seq(GuestRow) /\ DOMAIN guest' = DOMAIN guest
      /\ \A j \in DOMAIN guest \ {i} : guest'[j] = guest[j]
      /\ GuestsWaiting' = GuestsWaiting \ {i} /\ GuestsSeated' = GuestsSeated \ {i}
      /\ Taken' \in Nat /\ Taken \in Nat /\ Taken' + 1 >= Taken
      /\ i \notin GuestsSeated => Taken' >= Taken
  BY <1>3, GuestChanges
<1>5. ASSUME GuestFits(guestCall[c]) PROVE GuestFits(r)'
  <2>1. SeatsInOrder /\ (GuestsWaiting # {} => Taken >= MaxGuestsPerDay)
    BY <1>1, <1>5 DEF GuestFits
  <2>2. SeatsInOrder'
    BY <1>4, <2>1 DEF SeatsInOrder, GuestsSeated, GuestsWith
  <2>3. r.at = "done" => i \notin GuestsSeated
    BY <1>1, <1>5 DEF GuestFits
  <2>4. /\ GuestsWaiting' # {} => Taken' + 1 >= MaxGuestsPerDay
        /\ GuestsWaiting' # {} /\ r.at = "done" => Taken' >= MaxGuestsPerDay
    BY <1>4, <2>1, <2>3, GuestsAssumption
  <2> QED
    BY <1>1, <2>2, <2>4 DEF GuestFits
<1> QED
  BY <1>1, <1>4, <1>5, GuestGoes

LEMMA GuestToggles == ASSUME GuestsInv, NEW c \in GuestCalls, StaffTogglesFee(c) PROVE GuestsInv'
<1>1. PICK i \in DOMAIN guest, s \in {"CONFIRMED", "PENDING"} :
        guest' = [guest EXCEPT ![i] = [status |-> s, byStaff |-> TRUE]]
  BY DEF StaffTogglesFee
<1>2. PICK x : x = [status |-> s, byStaff |-> TRUE]
  OBVIOUS
<1>3. x \in GuestRow /\ x.status = s /\ x.byStaff
  BY <1>2 DEF GuestRow
<1>4. /\ guest' \in Seq(GuestRow) /\ DOMAIN guest' = DOMAIN guest
      /\ guest'[i] = x /\ \A j \in DOMAIN guest \ {i} : guest'[j] = guest[j]
      /\ GuestsWaiting' = GuestsWaiting \ {i} /\ GuestsSeated' = GuestsSeated \cup {i}
      /\ Taken' \in Nat /\ Taken \in Nat /\ Taken' >= Taken
  BY <1>1, <1>2, <1>3, GuestChanges
<1>5. PICK r : r = [NewGuestCall EXCEPT !.at = "done"]
  OBVIOUS
<1>6. r \in GuestCallRow /\ r.at = "done" /\ GuestBecomes(c, r) /\ guestCall[c].at = "new"
  BY <1>5, GuestRecords DEF GuestDone, StaffTogglesFee, GuestAt
<1>7. ASSUME GuestFits(guestCall[c]) PROVE GuestFits(r)'
  <2>1. SeatsInOrder /\ (GuestsWaiting # {} => Taken >= MaxGuestsPerDay)
    BY <1>6, <1>7 DEF GuestFits
  <2>2. SeatsInOrder'
    BY <1>3, <1>4, <2>1 DEF SeatsInOrder, GuestsSeated, GuestsWith
  <2>3. GuestsWaiting' # {} => Taken' >= MaxGuestsPerDay
    BY <1>4, <2>1, GuestsAssumption
  <2> QED
    BY <1>6, <2>2, <2>3 DEF GuestFits
<1> QED
  BY <1>4, <1>6, <1>7, GuestGoes

\* The one who moves up came before all who wait on.
LEMMA GuestPromotes == ASSUME GuestsInv, NEW c \in GuestCalls, PromoteNext(c) PROVE GuestsInv'
<1>1. PICK i : i = guestCall[c].app
  OBVIOUS
<1>2. /\ i \in DOMAIN guest /\ guest' = [guest EXCEPT ![i].status = "PENDING"]
      /\ guestCall[c].at = "promote" /\ GuestDone(c)
  BY <1>1 DEF PromoteNext, GuestAt, GuestsInv
<1>3. PICK x : x = [guest[i] EXCEPT !.status = "PENDING"]
  OBVIOUS
<1>4. x \in GuestRow /\ x.status = "PENDING" /\ guest' = [guest EXCEPT ![i] = x]
  BY <1>2, <1>3, GuestFields DEF GuestRow
<1>5. /\ guest' \in Seq(GuestRow) /\ DOMAIN guest' = DOMAIN guest
      /\ \A j \in DOMAIN guest \ {i} : guest'[j] = guest[j]
      /\ GuestsWaiting' = GuestsWaiting \ {i} /\ GuestsSeated' = GuestsSeated \cup {i}
      /\ Taken' \in Nat /\ Taken \in Nat /\ (i \notin GuestsSeated => Taken' = Taken + 1)
  BY <1>2, <1>4, GuestChanges
<1>6. PICK r : r = [NewGuestCall EXCEPT !.at = "done"]
  OBVIOUS
<1>7. r \in GuestCallRow /\ r.at = "done" /\ GuestBecomes(c, r)
  BY <1>2, <1>6, GuestRecords DEF GuestDone
<1>8. ASSUME GuestFits(guestCall[c]) PROVE GuestFits(r)'
  <2>1. /\ SeatsInOrder /\ Taken + 1 >= MaxGuestsPerDay /\ i \in GuestsWaiting
        /\ \A j \in GuestsWaiting : i <= j
    BY <1>1, <1>2, <1>8 DEF GuestFits
  <2>2. i \notin GuestsSeated /\ \A j \in GuestsWaiting : j \in Nat
    BY <2>1, GuestFields DEF GuestsWaiting, GuestsSeated, GuestsWith
  <2>3. SeatsInOrder'
    <3> SUFFICES ASSUME NEW w \in GuestsWaiting', NEW j \in GuestsSeated', j > w PROVE guest'[j].byStaff
      BY DEF SeatsInOrder
    <3>1. w \in GuestsWaiting /\ i <= w /\ i # w
      BY <1>5, <2>1
    <3>2. j # i
      BY <2>1, <2>2, <3>1
    <3>3. j \in GuestsSeated /\ j \in DOMAIN guest
      BY <1>5, <3>2 DEF GuestsSeated, GuestsWith
    <3> QED
      BY <1>5, <2>1, <3>1, <3>2, <3>3 DEF SeatsInOrder
  <2>4. Taken' >= MaxGuestsPerDay
    BY <1>5, <2>1, <2>2
  <2> QED
    BY <1>7, <2>3, <2>4 DEF GuestFits
<1> QED
  BY <1>5, <1>7, <1>8, GuestGoes

LEMMA GuestFailure == ASSUME GuestsInv, NEW c \in GuestCalls, GuestCallFails(c) PROVE GuestsInv'
<1>1. PICK r : r = [NewGuestCall EXCEPT !.at = "done"]
  OBVIOUS
<1>2. r \in GuestCallRow /\ r.at = "done" /\ guestCall' = [guestCall EXCEPT ![c] = r]
  BY <1>1, GuestRecords DEF GuestCallFails
<1>3. guestMet' /\ guest' = guest /\ guestMet' \in BOOLEAN
  BY DEF GuestCallFails
<1>4. guestCall \in [GuestCalls -> GuestCallRow]
  BY GuestFields
<1>5. guestCall' \in [GuestCalls -> GuestCallRow]
      /\ \A d \in GuestCalls : guestCall'[d] = IF d = c THEN r ELSE guestCall[d]
  BY <1>2, <1>4
<1> QED
  BY <1>2, <1>3, <1>5 DEF GuestsInv, GuestsTypeOK, GuestCallRow

LEMMA GuestsStart == GuestsInit => GuestsInv
<1> SUFFICES ASSUME GuestsInit PROVE GuestsInv
  OBVIOUS
<1>1. guest = <<>> /\ guestCall = [c \in GuestCalls |-> NewGuestCall] /\ guestMet = FALSE
  BY DEF GuestsInit
<1>2. GuestsTypeOK
  <2>1. NewGuestCall \in GuestCallRow
    BY DEF NewGuestCall, GuestCallRow
  <2>2. guestCall \in [GuestCalls -> GuestCallRow]
    BY <1>1, <2>1
  <2>3. guest \in Seq(GuestRow) /\ guestMet \in BOOLEAN
    BY <1>1, EmptySeq
  <2> QED
    BY <2>2, <2>3 DEF GuestsTypeOK, GuestRow, GuestCallRow
<1>3. GuestsWaiting = {} /\ \A c \in GuestCalls : guestCall[c].at = "new"
  BY <1>1 DEF GuestsWaiting, GuestsWith, NewGuestCall
<1>4. GuestFits(NewGuestCall)
  BY <1>3 DEF GuestFits, SeatsInOrder, NewGuestCall
<1> QED
  BY <1>2, <1>3, <1>4 DEF GuestsInv, GuestBusy

LEMMA GuestsSteps == GuestsInv /\ [GuestsNext]_guestVars => GuestsInv'
<1> SUFFICES ASSUME GuestsInv, [GuestsNext]_guestVars PROVE GuestsInv'
  OBVIOUS
<1>1. CASE UNCHANGED guestVars
  BY <1>1 DEF guestVars, GuestsInv, GuestsTypeOK, GuestFits, GuestBusy, SeatsInOrder, GuestsSeated, GuestsWaiting,
              GuestsWith, Taken
<1>2. CASE GuestsNext
  BY <1>2, GuestLooks, GuestApplies, GuestCancels, GuestToggles, GuestPromotes, GuestFailure DEF GuestsNext
<1> QED
  BY <1>1, <1>2

LEMMA GuestsInvariant == GuestsSpec => []GuestsInv
  BY GuestsStart, GuestsSteps, PTL DEF GuestsSpec

\* Guest rows and the requests about them are well formed.
THEOREM GuestsTyped == GuestsSpec => []GuestsTypeOK
<1>1. GuestsInv => GuestsTypeOK
  BY DEF GuestsInv
<1> QED
  BY <1>1, GuestsInvariant, PTL

\* For any limit and any number of requests one after the other: no seat is free
\* while a guest waits, and nobody overtakes who waits but by the staff's hand.
THEOREM SeatToFirst == GuestsSpec => []FreeSeatToFirst
<1>1. GuestsInv => FreeSeatToFirst
  <2> SUFFICES ASSUME GuestsInv, ~guestMet, \A c \in GuestCalls : guestCall[c].at \in {"new", "done"},
                      NEW i \in GuestsWaiting
               PROVE  /\ Taken >= MaxGuestsPerDay
                      /\ \A j \in GuestsSeated : j > i => guest[j].byStaff
    BY DEF FreeSeatToFirst, GuestsWaiting, GuestsSeated
  <2>1. GuestFits(NewGuestCall)
    BY DEF GuestsInv, GuestBusy
  <2> QED
    BY <2>1 DEF GuestFits, SeatsInOrder, NewGuestCall
<1> QED
  BY <1>1, GuestsInvariant, PTL
=============================================================================
