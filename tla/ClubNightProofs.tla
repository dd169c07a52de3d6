-------------------------- MODULE ClubNightProofs --------------------------
(***************************************************************************)
(* Proofs about ClubNight.  The invariants of the sessions, of the doors   *)
(* and of the booths speak of variables of their own, and are kept one by  *)
(* one; the last, SweptRows, ties the rows to the ends of their sessions.  *)
(***************************************************************************)
EXTENDS ClubNight, FiniteSetTheorems, SequenceTheorems, TLAPS

NightRow == [status : {"NONE", "ACTIVE", "ENDED", "DELETED"}, key : BOOLEAN, since : 0..MaxHour,
             auto : BOOLEAN, blind : BOOLEAN, late : BOOLEAN, cut : BOOLEAN,
             swept : SUBSET {"checkIns", "polls", "closed"}]
CallerRow == [at : {"idle", "look", "create", "key", "stale", "end", "checkIns", "polls", "finish"},
              about : {0} \cup Nights, todo : SUBSET Nights, blind : BOOLEAN, late : BOOLEAN]
LeftRow == [hours : 0..MaxHour, ticks : Nat, desk : Nat, door : Nat, booth : Nat]

-----------------------------------------------------------------------------
(* The sessions, the ticks and the staff                                   *)

Used(n) == night[n].status # "NONE"

\* What a caller knows where it stands: the row it is about is there, an end has
\* been through what it says, a start that is not blind found no active session,
\* and a tick that is not late no key.
CallerFits(c, r) ==
  /\ r.at \in {"key", "end", "checkIns", "polls", "finish"} => r.about \in Nights /\ Used(r.about)
  /\ \A n \in r.todo : Used(n)
  /\ r.at = "key" => c \in Ticks /\ ~night[r.about].cut
  /\ r.at \in {"polls", "finish"} => "checkIns" \in night[r.about].swept
  /\ r.at = "finish" => "polls" \in night[r.about].swept
  /\ r.at = "create" /\ ~r.blind => Active = {}
  /\ c \in Ticks /\ r.at \in {"look", "create"} /\ ~r.late => \A m \in Nights : ~night[m].key

CallersFit == \A c \in Callers : CallerFits(c, caller[c])

KeysApart == \A c, d \in Callers : caller[c].at = "key" /\ caller[d].at = "key" /\ c # d
               => caller[c].about # caller[d].about

RowsInOrder == \A m, n \in Nights : m < n /\ Used(n) => Used(m)

UnusedAreBlank == \A n \in Nights : ~Used(n) => ~night[n].auto /\ ~night[n].key

\* A tick's row that nothing has befallen has the key, or the tick comes to it.
KeyOrTick ==
  \A m \in Nights : night[m].auto /\ night[m].status # "DELETED" /\ ~night[m].cut =>
    night[m].key \/ \E d \in Ticks : caller[d].at = "key" /\ caller[d].about = m

EndedAreSwept ==
  \A n \in Nights : night[n].status = "ENDED" /\ "closed" \notin night[n].swept =>
    "checkIns" \in night[n].swept /\ "polls" \in night[n].swept

SessionsInv ==
  /\ SessionsTypeOK /\ CallersFit /\ KeysApart /\ RowsInOrder /\ UnusedAreBlank /\ KeyOrTick
  /\ EndedAreSwept /\ OneActiveSession /\ SlotOpensOnce

\* What is never undone, and the rows that no step but a creation makes.
RowsAge ==
  \A n \in Nights :
    /\ Used(n) <=> Used(n)'
    /\ night'[n].status = "ACTIVE" => night[n].status = "ACTIVE"
    /\ night[n].status = "DELETED" => night'[n].status = "DELETED"
    /\ night'[n].key => night[n].key
    /\ night[n].key => night'[n].key \/ night'[n].status = "DELETED"
    /\ night'[n].auto <=> night[n].auto
    /\ night'[n].blind <=> night[n].blind
    /\ night'[n].late <=> night[n].late
    /\ night'[n].cut <=> night[n].cut
    /\ night[n].swept \subseteq night'[n].swept

\* A step that makes no row and writes no key keeps the invariant if those it moves
\* know what they should.
LEMMA RowsAgeKeep ==
  ASSUME SessionsInv, SessionsTypeOK', RowsAge, EndedAreSwept',
         \A c \in Callers : \/ caller'[c] = caller[c]
                            \/ /\ caller[c].at # "key" /\ caller'[c].at # "key"
                               /\ CallerFits(c, caller[c])'
  PROVE  SessionsInv'
<1>1. Active' \subseteq Active
  BY DEF RowsAge, Active
<1>2. ASSUME NEW c \in Callers PROVE CallerFits(c, caller[c])'
  <2> SUFFICES ASSUME caller'[c] = caller[c] PROVE CallerFits(c, caller[c])'
    OBVIOUS
  <2>1. CallerFits(c, caller[c])
    BY DEF SessionsInv, CallersFit
  <2>2. caller[c].todo \subseteq Nights
    BY DEF SessionsInv, SessionsTypeOK
  <2>3. caller[c].about \in Nights => night[caller[c].about].swept \subseteq night'[caller[c].about].swept
    BY DEF RowsAge
  <2> QED
    BY <1>1, <2>1, <2>2, <2>3 DEF CallerFits, RowsAge
<1>3. KeysApart' /\ KeyOrTick'
  BY DEF SessionsInv, KeysApart, KeyOrTick, RowsAge, Callers
<1>4. RowsInOrder' /\ UnusedAreBlank'
  BY DEF SessionsInv, RowsInOrder, UnusedAreBlank, RowsAge
<1>5. OneActiveSession'
  BY <1>1 DEF SessionsInv, OneActiveSession, RowsAge, Active
<1>6. SlotOpensOnce'
  BY DEF SessionsInv, SlotOpensOnce, RowsAge
<1> QED
  BY <1>2, <1>3, <1>4, <1>5, <1>6 DEF SessionsInv, CallersFit

LEMMA AskTyped ==
  ASSUME SessionsTypeOK, NEW kind \in {"desk", "door", "booth"}, Ask(kind)
  PROVE  left' \in LeftRow
<1>1. left \in LeftRow /\ left[kind] \in Nat /\ left[kind] > 0
  BY DEF SessionsTypeOK, LeftRow, Ask
<1>2. left[kind] - 1 \in Nat
  BY <1>1
<1> QED
  BY <1>1, <1>2 DEF Ask, LeftRow

\* One caller moves on and the rows stay: looks, lists and calls.
LEMMA CallerMoves ==
  ASSUME SessionsInv, NEW c \in Callers, NEW r \in CallerRow, CallerBecomes(c, r),
         hour' \in 1..MaxHour, night' = night, left' \in LeftRow, nightFaults' \in 0..MaxNightFaults,
         caller[c].at # "key", r.at # "key", CallerFits(c, r)
  PROVE  SessionsInv'
<1>1. SessionsTypeOK'
  BY DEF SessionsInv, SessionsTypeOK, CallerBecomes, CallerRow, LeftRow
<1>2. \A d \in Callers : caller'[d] = IF d = c THEN r ELSE caller[d]
  BY DEF SessionsInv, SessionsTypeOK, CallerBecomes
<1>3. CallerFits(c, caller[c])'
  BY <1>2 DEF CallerFits, Used, Active
<1>4. RowsAge /\ EndedAreSwept'
  BY DEF SessionsInv, EndedAreSwept, RowsAge, Used
<1> QED
  BY <1>1, <1>2, <1>3, <1>4, RowsAgeKeep

LEMMA CallerFields ==
  ASSUME SessionsTypeOK, NEW c \in Callers
  PROVE  /\ caller[c] \in CallerRow /\ NoCaller \in CallerRow
         /\ NoCaller.at = "idle" /\ NoCaller.todo = {}
BY DEF SessionsTypeOK, CallerRow, NoCaller

LEMMA ToRecord ==
  ASSUME SessionsTypeOK, NEW c \in Callers,
         NEW l \in {"idle", "look", "create", "key", "stale", "end", "checkIns", "polls", "finish"}
  PROVE  LET r == [caller[c] EXCEPT !.at = l]
         IN  /\ r \in CallerRow /\ r.at = l /\ r.about = caller[c].about
             /\ r.todo = caller[c].todo /\ r.late = caller[c].late
BY DEF SessionsTypeOK, CallerRow

LEMMA EndRecord ==
  ASSUME NEW n \in Nights, NEW S \in SUBSET Nights
  PROVE  LET r == [NoCaller EXCEPT !.at = "end", !.about = n, !.todo = S]
         IN  r \in CallerRow /\ r.at = "end" /\ r.about = n /\ r.todo = S
BY DEF CallerRow, NoCaller

LEMMA AskingKeeps ==
  ASSUME SessionsInv, NEW c \in Callers, CallDesk(c) PROVE SessionsInv'
<1>1. left' \in LeftRow
  BY AskTyped DEF CallDesk, SessionsInv
<1>2. hour' \in 1..MaxHour /\ nightFaults' \in 0..MaxNightFaults /\ night' = night
  BY DEF CallDesk, SessionsInv, SessionsTypeOK
<1>3. CallerFits(c, caller[c]) /\ caller[c].at = "idle" /\ c \notin Ticks
  BY SessionsAssumption DEF SessionsInv, CallersFit, CallDesk, CallerAt
<1>4. CASE CallerTo(c, "look")
  <2> DEFINE r == [caller[c] EXCEPT !.at = "look"]
  <2>1. r \in CallerRow /\ r.at = "look" /\ r.todo = caller[c].todo
    BY ToRecord DEF SessionsInv
  <2> HIDE DEF r
  <2>2. CallerFits(c, r)
    BY <1>3, <2>1 DEF CallerFits
  <2>3. CallerBecomes(c, r)
    BY <1>4 DEF CallerTo, r
  <2> QED
    BY <1>1, <1>2, <1>3, <2>1, <2>2, <2>3, CallerMoves
<1>5. CASE \E n \in Active : CallerBecomes(c, [NoCaller EXCEPT !.at = "end", !.about = n])
  <2> PICK n \in Active : CallerBecomes(c, [NoCaller EXCEPT !.at = "end", !.about = n])
    BY <1>5
  <2> DEFINE r == [NoCaller EXCEPT !.at = "end", !.about = n]
  <2>1. n \in Nights /\ Used(n)
    BY DEF Active, Used
  <2>2. r \in CallerRow /\ r.at = "end" /\ r.about = n /\ r.todo = {}
    BY <2>1 DEF CallerRow, NoCaller
  <2> HIDE DEF r
  <2>3. CallerFits(c, r)
    BY <2>1, <2>2 DEF CallerFits
  <2>4. CallerBecomes(c, r)
    BY DEF r
  <2> QED
    BY <1>1, <1>2, <1>3, <2>2, <2>3, <2>4, CallerMoves
<1> QED
  BY <1>4, <1>5 DEF CallDesk

\* Where a look of a start leads: to the row, on, or to the end of the call.
LEMMA LookingKeeps ==
  ASSUME SessionsInv, NEW c \in Callers, LookActive(c) \/ FindSlot(c) PROVE SessionsInv'
<1>1. /\ hour' \in 1..MaxHour /\ nightFaults' \in 0..MaxNightFaults /\ night' = night
      /\ left' \in LeftRow
  BY DEF LookActive, FindSlot, SessionsInv, SessionsTypeOK, LeftRow
<1>2. CallerFits(c, caller[c]) /\ caller[c].at \in {"look", "idle"}
  BY DEF SessionsInv, CallersFit, LookActive, FindSlot, CallerAt
<1>3. CASE CallerDone(c)
  <2>1. CallerFits(c, NoCaller)
    BY DEF CallerFits, NoCaller
  <2> QED
    BY <1>1, <1>2, <1>3, <2>1, CallerFields, CallerMoves DEF CallerDone, SessionsInv
<1>4. ASSUME NEW l \in {"look", "create", "stale"}, CallerTo(c, l),
             l = "create" => Active = {} /\ caller[c].at = "look",
             l = "look" => \A n \in Nights : ~night[n].key
      PROVE  SessionsInv'
  <2> DEFINE r == [caller[c] EXCEPT !.at = l]
  <2>0. l \in {"idle", "look", "create", "key", "stale", "end", "checkIns", "polls", "finish"}
    OBVIOUS
  <2>1. r \in CallerRow /\ r.at = l /\ r.todo = caller[c].todo /\ r.late = caller[c].late
    BY <2>0, ToRecord DEF SessionsInv
  <2>2. CallerBecomes(c, r)
    BY <1>4 DEF CallerTo
  <2> HIDE DEF r
  <2>3. CallerFits(c, r)
    BY <1>2, <1>4, <2>1 DEF CallerFits
  <2> QED
    BY <1>1, <1>2, <2>1, <2>2, <2>3, CallerMoves
<1> QED
  BY <1>3, <1>4 DEF LookActive, FindSlot, CallerAt

LEMMA AfterEndIs ==
  ASSUME SessionsTypeOK, NEW c \in Callers, AfterEnd(c)
  PROVE  \E r \in CallerRow :
           /\ CallerBecomes(c, r) /\ r.at \in {"idle", "end"} /\ r.todo \subseteq caller[c].todo
           /\ r.at = "end" => r.about \in caller[c].todo
<1>1. CASE caller[c].todo = {}
  <2>1. NoCaller \in CallerRow /\ NoCaller.at = "idle" /\ NoCaller.todo = {}
    BY CallerFields
  <2> QED
    BY <1>1, <2>1 DEF AfterEnd, CallerDone
<1>2. CASE caller[c].todo # {}
  <2> PICK n \in caller[c].todo :
        CallerBecomes(c, [NoCaller EXCEPT !.at = "end", !.about = n, !.todo = caller[c].todo \ {n}])
    BY <1>2 DEF AfterEnd
  <2>1. caller[c].todo \subseteq Nights
    BY DEF SessionsTypeOK
  <2>2. n \in Nights /\ caller[c].todo \ {n} \in SUBSET Nights
    BY <2>1
  <2> DEFINE r == [NoCaller EXCEPT !.at = "end", !.about = n, !.todo = caller[c].todo \ {n}]
  <2>3. r \in CallerRow /\ r.at = "end" /\ r.about = n /\ r.todo = caller[c].todo \ {n}
    BY <2>2, EndRecord
  <2>4. CallerBecomes(c, r)
    OBVIOUS
  <2> HIDE DEF r
  <2> QED
    BY <2>3, <2>4
<1> QED
  BY <1>1, <1>2

LEMMA ListingKeeps ==
  ASSUME SessionsInv, NEW c \in Callers, ListStale(c) \/ LookForEnd(c) PROVE SessionsInv'
<1>1. /\ hour' \in 1..MaxHour /\ nightFaults' \in 0..MaxNightFaults /\ night' = night
      /\ left' \in LeftRow
  BY DEF ListStale, LookForEnd, SessionsInv, SessionsTypeOK, LeftRow
<1>2. CallerFits(c, caller[c]) /\ caller[c].at \in {"stale", "end"}
  BY DEF SessionsInv, CallersFit, ListStale, LookForEnd, CallerAt
<1>3. \E r \in CallerRow : CallerBecomes(c, r) /\ r.at # "key" /\ CallerFits(c, r)
  <2>1. CASE ListStale(c)
    <3> DEFINE S == {n \in Active : hour - night[n].since > AutoEndHours}
    <3>0. \A n \in S : n \in Nights /\ Used(n)
      BY DEF Active, Used
    <3>1. CASE S = {}
      <4>1. CallerFits(c, NoCaller)
        BY DEF CallerFits, NoCaller
      <4> QED
        BY <2>1, <3>1, <4>1, CallerFields DEF ListStale, CallerDone, SessionsInv
    <3>2. CASE S # {}
      <4> PICK n \in S : CallerBecomes(c, [NoCaller EXCEPT !.at = "end", !.about = n, !.todo = S \ {n}])
        BY <2>1, <3>2 DEF ListStale
      <4> DEFINE r == [NoCaller EXCEPT !.at = "end", !.about = n, !.todo = S \ {n}]
      <4>1. S \ {n} \in SUBSET Nights /\ n \in Nights
        BY <3>0
      <4>2. r \in CallerRow /\ r.at = "end" /\ r.about = n /\ r.todo = S \ {n}
        BY <4>1, EndRecord
      <4>3. CallerBecomes(c, r)
        OBVIOUS
      <4> HIDE DEF r, S
      <4>4. CallerFits(c, r)
        BY <3>0, <4>2 DEF CallerFits
      <4> QED
        BY <4>2, <4>3, <4>4
    <3> QED
      BY <3>1, <3>2
  <2>2. CASE LookForEnd(c) /\ caller[c].about \in Active
    <3> DEFINE r == [caller[c] EXCEPT !.at = "checkIns"]
    <3>1. r \in CallerRow /\ r.at = "checkIns" /\ r.todo = caller[c].todo /\ r.about = caller[c].about
      BY ToRecord DEF SessionsInv
    <3>2. CallerBecomes(c, r)
      BY <2>2 DEF LookForEnd, CallerTo
    <3> HIDE DEF r
    <3>3. CallerFits(c, r)
      BY <1>2, <2>2, <3>1 DEF CallerFits, Active, Used
    <3> QED
      BY <3>1, <3>2, <3>3
  <2>3. CASE LookForEnd(c) /\ caller[c].about \notin Active
    <3> PICK r \in CallerRow :
          /\ CallerBecomes(c, r) /\ r.at \in {"idle", "end"} /\ r.todo \subseteq caller[c].todo
          /\ r.at = "end" => r.about \in caller[c].todo
      BY <2>3, AfterEndIs DEF LookForEnd, SessionsInv
    <3>1. caller[c].todo \subseteq Nights
      BY DEF SessionsInv, SessionsTypeOK
    <3>2. CallerFits(c, r)
      BY <1>2, <3>1 DEF CallerFits
    <3> QED
      BY <3>2
  <2> QED
    BY <2>1, <2>2, <2>3
<1>4. caller[c].at # "key"
  BY <1>2
<1> QED
  BY <1>1, <1>3, <1>4, CallerMoves

\* The clock, a request that is taken in elsewhere and a failure elsewhere.
LEMMA RowsStay ==
  ASSUME SessionsInv, hour' \in 1..MaxHour, left' \in LeftRow, nightFaults' \in 0..MaxNightFaults,
         UNCHANGED <<night, caller>>
  PROVE  SessionsInv'
<1>1. SessionsTypeOK'
  BY DEF SessionsInv, SessionsTypeOK, LeftRow
<1>2. RowsAge /\ EndedAreSwept'
  BY DEF SessionsInv, EndedAreSwept, RowsAge, Used
<1> QED
  BY <1>1, <1>2, RowsAgeKeep

LEMMA HourKeeps == ASSUME SessionsInv, HourPasses PROVE SessionsInv'
<1>1. hour \in 1..MaxHour /\ left.hours \in 0..MaxHour /\ left' \in LeftRow
  BY DEF SessionsInv, SessionsTypeOK, HourPasses, LeftRow
<1>2. hour' \in 1..MaxHour
  BY <1>1, SessionsAssumption DEF HourPasses
<1> QED
  BY <1>1, <1>2, RowsStay DEF HourPasses, SessionsInv, SessionsTypeOK

LEMMA RowTyped ==
  ASSUME SessionsTypeOK, NEW n \in Nights
  PROVE  /\ night[n] \in NightRow
         /\ \A st \in {"ENDED", "DELETED"} : [night[n] EXCEPT !.status = st] \in NightRow
         /\ [night[n] EXCEPT !.status = "DELETED", !.key = FALSE] \in NightRow
         /\ \A what \in {"checkIns", "polls", "closed"} :
              [night[n] EXCEPT !.swept = @ \cup {what}] \in NightRow
         /\ [night[n] EXCEPT !.status = "ENDED", !.swept = @ \cup {"closed"}] \in NightRow
<1>1. night[n] \in NightRow
  BY DEF SessionsTypeOK, NightRow
<1>2. \A what \in {"checkIns", "polls", "closed"} :
        night[n].swept \cup {what} \in SUBSET {"checkIns", "polls", "closed"}
  BY <1>1 DEF NightRow
<1> QED
  BY <1>1, <1>2 DEF NightRow

LEMMA FacilityKeeps == ASSUME SessionsInv, CloseFacility PROVE SessionsInv'
<1>1. left' \in LeftRow
  BY AskTyped DEF CloseFacility, SessionsInv
<1>2. \A n \in Nights : night'[n] = IF n \in Active
        THEN [night[n] EXCEPT !.status = "ENDED", !.swept = @ \cup {"closed"}] ELSE night[n]
  BY DEF CloseFacility
<1>3. \A n \in Nights : night'[n] \in NightRow
  BY <1>2, RowTyped DEF SessionsInv
<1>4. night' \in [Nights -> NightRow]
  BY <1>3 DEF CloseFacility
<1>5. SessionsTypeOK'
  BY <1>1, <1>4 DEF SessionsInv, SessionsTypeOK, CloseFacility, LeftRow, NightRow
<1>6. night \in [Nights -> NightRow]
  BY DEF SessionsInv, SessionsTypeOK, NightRow
<1>7. RowsAge
  BY <1>2, <1>6 DEF RowsAge, Used, Active, NightRow
<1>8. EndedAreSwept'
  BY <1>2, <1>6 DEF EndedAreSwept, SessionsInv, Active, NightRow
<1> QED
  BY <1>5, <1>7, <1>8, RowsAgeKeep DEF CloseFacility

\* One row changes, as a row may.
LEMMA RowChanges ==
  ASSUME SessionsInv, NEW n \in Nights, NEW r \in NightRow, night' = [night EXCEPT ![n] = r],
         r.status # "NONE" /\ Used(n), r.status = "ACTIVE" => night[n].status = "ACTIVE",
         night[n].status = "DELETED" => r.status = "DELETED",
         \/ r.key <=> night[n].key
         \/ r.status = "DELETED" /\ ~r.key,
         r.auto <=> night[n].auto, r.blind <=> night[n].blind,
         r.late <=> night[n].late, r.cut <=> night[n].cut, night[n].swept \subseteq r.swept,
         r.status = "ENDED" /\ "closed" \notin r.swept => "checkIns" \in r.swept /\ "polls" \in r.swept
  PROVE  /\ night' \in [Nights -> NightRow] /\ RowsAge /\ EndedAreSwept'
         /\ night'[n] = r /\ \A m \in Nights \ {n} : night'[m] = night[m]
<1>1. night \in [Nights -> NightRow]
  BY DEF SessionsInv, SessionsTypeOK, NightRow
<1>2. night' \in [Nights -> NightRow] /\ night'[n] = r /\ \A m \in Nights \ {n} : night'[m] = night[m]
  BY <1>1
<1>3. RowsAge
  BY <1>2 DEF RowsAge, Used
<1>4. EndedAreSwept'
  BY <1>2 DEF EndedAreSwept, SessionsInv
<1> QED
  BY <1>2, <1>3, <1>4

\* What a deletion does to the sessions.
LEMMA DeletionKeeps ==
  ASSUME SessionsInv, NEW n \in Nights, night[n].status \in {"ACTIVE", "ENDED"}, Ask("desk"),
         night' = [night EXCEPT ![n].status = "DELETED", ![n].key = FALSE],
         UNCHANGED <<hour, caller, nightFaults>>
  PROVE  SessionsInv'
<1>1. left' \in LeftRow
  BY AskTyped DEF SessionsInv
<1>2. PICK r : r = [night[n] EXCEPT !.status = "DELETED", !.key = FALSE]
  OBVIOUS
<1>3. night' = [night EXCEPT ![n] = r]
  BY <1>2
<1>4. r \in NightRow
  BY <1>2, RowTyped DEF SessionsInv
<1>5. night[n] \in NightRow
  BY RowTyped DEF SessionsInv
<1>6. /\ r.status = "DELETED" /\ ~r.key /\ r.swept = night[n].swept
      /\ (r.auto <=> night[n].auto) /\ (r.blind <=> night[n].blind)
      /\ (r.late <=> night[n].late) /\ (r.cut <=> night[n].cut)
  BY <1>2, <1>5 DEF NightRow
<1>7. night' \in [Nights -> NightRow] /\ RowsAge /\ EndedAreSwept'
  BY <1>3, <1>4, <1>6, RowChanges DEF Used
<1>8. SessionsTypeOK'
  BY <1>1, <1>7 DEF SessionsInv, SessionsTypeOK, LeftRow, NightRow
<1> QED
  BY <1>7, <1>8, RowsAgeKeep

\* An end goes through a table.
LEMMA SweepKeeps ==
  ASSUME SessionsInv, NEW c \in Callers,
         \/ CallerAt(c, "checkIns") /\ Sweep(c, "checkIns", "polls")
         \/ CallerAt(c, "polls") /\ Sweep(c, "polls", "finish")
  PROVE  SessionsInv'
<1>1. PICK what \in {"checkIns", "polls"}, next \in {"polls", "finish"} :
        /\ Sweep(c, what, next) /\ caller[c].at = what
        /\ what = "checkIns" <=> next = "polls"
  BY DEF CallerAt
<1>2. PICK n : n = caller[c].about
  OBVIOUS
<1>3. CallerFits(c, caller[c])
  BY DEF SessionsInv, CallersFit
<1>4. n \in Nights /\ Used(n)
  BY <1>1, <1>2, <1>3 DEF CallerFits
<1>5. PICK w : w = [night[n] EXCEPT !.swept = @ \cup {what}]
  OBVIOUS
<1>6. night' = [night EXCEPT ![n] = w]
  BY <1>1, <1>2, <1>5 DEF Sweep
<1>7. w \in NightRow /\ night[n] \in NightRow
  BY <1>4, <1>5, RowTyped DEF SessionsInv
<1>8. /\ w.status = night[n].status /\ (w.key <=> night[n].key) /\ w.swept = night[n].swept \cup {what}
      /\ (w.auto <=> night[n].auto) /\ (w.blind <=> night[n].blind)
      /\ (w.late <=> night[n].late) /\ (w.cut <=> night[n].cut)
  BY <1>5, <1>7 DEF NightRow
<1>9. w.status = "ENDED" /\ "closed" \notin w.swept => "checkIns" \in w.swept /\ "polls" \in w.swept
  BY <1>4, <1>8 DEF SessionsInv, EndedAreSwept
<1>10. night' \in [Nights -> NightRow] /\ RowsAge /\ EndedAreSwept' /\ night'[n] = w
  BY <1>4, <1>6, <1>7, <1>8, <1>9, RowChanges DEF Used
<1>11. PICK r : r = [caller[c] EXCEPT !.at = next]
  OBVIOUS
<1>12. next \in {"idle", "look", "create", "key", "stale", "end", "checkIns", "polls", "finish"}
  OBVIOUS
<1>13. r \in CallerRow /\ r.at = next /\ r.about = n /\ r.todo = caller[c].todo
  BY <1>2, <1>11, <1>12, ToRecord DEF SessionsInv
<1>14. \A d \in Callers : caller'[d] = IF d = c THEN r ELSE caller[d]
  BY <1>1, <1>11 DEF Sweep, CallerTo, CallerBecomes, SessionsInv, SessionsTypeOK
<1>15. caller' = [caller EXCEPT ![c] = r]
  BY <1>1, <1>11 DEF Sweep, CallerTo, CallerBecomes
<1>16. SessionsTypeOK'
  BY <1>1, <1>10, <1>13, <1>15 DEF Sweep, SessionsInv, SessionsTypeOK, NightRow, CallerRow
<1>17. caller[c].todo \subseteq Nights /\ caller'[c] = r
  BY <1>14 DEF SessionsInv, SessionsTypeOK
<1>18. CallerFits(c, caller[c])'
  <2>1. what \in w.swept /\ night[n].swept \subseteq w.swept /\ Used(n)'
    BY <1>4, <1>8, <1>10 DEF Used
  <2>2. \A m \in r.todo : Used(m)'
    BY <1>3, <1>10, <1>13, <1>17 DEF CallerFits, RowsAge
  <2>3. next = "finish" => "checkIns" \in w.swept /\ "polls" \in w.swept
    BY <1>1, <1>2, <1>3, <2>1 DEF CallerFits
  <2>4. next = "polls" => "checkIns" \in w.swept
    BY <1>1, <2>1
  <2> QED
    BY <1>4, <1>10, <1>13, <1>17, <2>1, <2>2, <2>3, <2>4 DEF CallerFits
<1>19. caller[c].at # "key" /\ caller'[c].at # "key"
  BY <1>1, <1>13, <1>17
<1> QED
  BY <1>10, <1>14, <1>16, <1>18, <1>19, RowsAgeKeep

LEMMA FinishKeeps == ASSUME SessionsInv, NEW c \in Callers, FinishEnd(c) PROVE SessionsInv'
<1>1. PICK n : n = caller[c].about
  OBVIOUS
<1>2. CallerFits(c, caller[c]) /\ caller[c].at = "finish"
  BY DEF SessionsInv, CallersFit, FinishEnd, CallerAt
<1>3. n \in Nights /\ Used(n) /\ "checkIns" \in night[n].swept /\ "polls" \in night[n].swept
  BY <1>1, <1>2 DEF CallerFits
<1>4. night[n] \in NightRow
  BY <1>3, RowTyped DEF SessionsInv
<1>5. night' \in [Nights -> NightRow] /\ RowsAge /\ EndedAreSwept'
  <2>1. CASE night[n].status = "DELETED"
    <3>1. night' = night
      BY <1>1, <2>1 DEF FinishEnd
    <3> QED
      BY <3>1 DEF SessionsInv, SessionsTypeOK, NightRow, RowsAge, Used, EndedAreSwept
  <2>2. CASE night[n].status # "DELETED"
    <3>1. PICK w : w = [night[n] EXCEPT !.status = "ENDED"]
      OBVIOUS
    <3>2. night' = [night EXCEPT ![n] = w]
      BY <1>1, <2>2, <3>1 DEF FinishEnd
    <3>3. w \in NightRow
      BY <1>3, <3>1, RowTyped DEF SessionsInv
    <3>4. /\ w.status = "ENDED" /\ (w.key <=> night[n].key) /\ w.swept = night[n].swept
          /\ (w.auto <=> night[n].auto) /\ (w.blind <=> night[n].blind)
          /\ (w.late <=> night[n].late) /\ (w.cut <=> night[n].cut)
      BY <1>4, <3>1 DEF NightRow
    <3> QED
      BY <1>3, <2>2, <3>2, <3>3, <3>4, RowChanges
  <2> QED
    BY <2>1, <2>2
<1>6. PICK r \in CallerRow :
        /\ CallerBecomes(c, r) /\ r.at \in {"idle", "end"} /\ r.todo \subseteq caller[c].todo
        /\ r.at = "end" => r.about \in caller[c].todo
  BY AfterEndIs DEF FinishEnd, SessionsInv
<1>7. \A d \in Callers : caller'[d] = IF d = c THEN r ELSE caller[d]
  BY <1>6 DEF CallerBecomes, SessionsInv, SessionsTypeOK
<1>8. SessionsTypeOK'
  BY <1>5, <1>6 DEF FinishEnd, CallerBecomes, SessionsInv, SessionsTypeOK, NightRow, CallerRow
<1>9. caller[c].todo \subseteq Nights /\ caller'[c] = r
  BY <1>7 DEF SessionsInv, SessionsTypeOK
<1>10. CallerFits(c, caller[c])'
  BY <1>2, <1>5, <1>6, <1>9 DEF CallerFits, RowsAge
<1>11. caller[c].at # "key" /\ caller'[c].at # "key"
  BY <1>2, <1>6, <1>9
<1> QED
  BY <1>5, <1>7, <1>8, <1>10, <1>11, RowsAgeKeep

\* The new row comes after all that are there; those who are about to create one
\* become blind to it.
LEMMA CreationKeeps == ASSUME SessionsInv, NEW c \in Callers, CreateSession(c) PROVE SessionsInv'
<1>1. PICK n \in Unused : /\ \A m \in Unused : n <= m
        /\ night' = [night EXCEPT ![n] = [NoNight EXCEPT !.status = "ACTIVE", !.since = hour,
             !.auto = c \in Ticks, !.blind = caller[c].blind,
             !.late = caller[c].late \/ \E d \in Ticks : CallerAt(d, "key")]]
        /\ caller' = [d \in Callers |->
             IF d = c THEN IF c \in Ticks THEN [NoCaller EXCEPT !.at = "key", !.about = n] ELSE NoCaller
             ELSE [caller[d] EXCEPT !.blind = @ \/ CallerAt(d, "create")]]
  BY DEF CreateSession
<1>2. /\ caller[c].at = "create" /\ CallerFits(c, caller[c]) /\ n \in Nights /\ ~Used(n)
      /\ UNCHANGED <<hour, left, nightFaults>>
  BY <1>1 DEF CreateSession, CallerAt, SessionsInv, CallersFit, Unused, Used
<1>3. night \in [Nights -> NightRow] /\ caller \in [Callers -> CallerRow] /\ hour \in 0..MaxHour
  BY SessionsAssumption DEF SessionsInv, SessionsTypeOK, NightRow, CallerRow
<1>4. PICK w : w = [NoNight EXCEPT !.status = "ACTIVE", !.since = hour,
             !.auto = c \in Ticks, !.blind = caller[c].blind,
             !.late = caller[c].late \/ \E d \in Ticks : CallerAt(d, "key")]
  OBVIOUS
<1>5. /\ w \in NightRow /\ w.status = "ACTIVE" /\ ~w.key /\ ~w.cut /\ (w.auto <=> c \in Ticks)
      /\ (w.blind <=> caller[c].blind)
      /\ (w.late <=> caller[c].late \/ \E d \in Ticks : caller[d].at = "key")
  <2>1. caller[c].blind \in BOOLEAN /\ caller[c].late \in BOOLEAN
    BY <1>3 DEF CallerRow
  <2>2. PICK late \in BOOLEAN : late = (caller[c].late \/ \E d \in Ticks : CallerAt(d, "key"))
    OBVIOUS
  <2>3. PICK auto \in BOOLEAN : auto = (c \in Ticks)
    <3>1. CASE c \in Ticks
      <4>1. TRUE = (c \in Ticks)
        BY <3>1
      <4> QED
        BY <4>1
    <3>2. CASE c \notin Ticks
      <4>1. FALSE = (c \in Ticks)
        BY <3>2
      <4> QED
        BY <4>1
    <3> QED
      BY <3>1, <3>2
  <2>4. w = [NoNight EXCEPT !.status = "ACTIVE", !.since = hour, !.auto = auto,
                            !.blind = caller[c].blind, !.late = late]
    BY <1>4, <2>2, <2>3
  <2>5. /\ w \in NightRow /\ w.status = "ACTIVE" /\ ~w.key /\ ~w.cut /\ w.auto = auto
        /\ w.blind = caller[c].blind /\ w.late = late
    BY <1>3, <2>1, <2>4 DEF NightRow, NoNight
  <2> QED
    BY <2>2, <2>3, <2>5 DEF CallerAt
<1>6. night' = [night EXCEPT ![n] = w]
  BY <1>1, <1>4
<1>7. /\ night' \in [Nights -> NightRow] /\ night'[n] = w
      /\ \A m \in Nights \ {n} : night'[m] = night[m]
  BY <1>2, <1>3, <1>5, <1>6
<1>8. /\ caller'[c].at = IF c \in Ticks THEN "key" ELSE "idle"
      /\ caller'[c].about = IF c \in Ticks THEN n ELSE 0
      /\ caller'[c].todo = {} /\ caller'[c] \in CallerRow
  BY <1>1, <1>2 DEF NoCaller, CallerRow
<1>9. ASSUME NEW d \in Callers, d # c
      PROVE  /\ caller'[d] \in CallerRow /\ caller'[d].at = caller[d].at
             /\ caller'[d].about = caller[d].about /\ caller'[d].todo = caller[d].todo
             /\ (caller'[d].late <=> caller[d].late)
             /\ (caller'[d].blind <=> caller[d].blind \/ caller[d].at = "create")
  <2>1. caller[d] \in CallerRow
    BY <1>3
  <2>2. PICK blind \in BOOLEAN : blind = (caller[d].blind \/ CallerAt(d, "create"))
    OBVIOUS
  <2>3. caller'[d] = [caller[d] EXCEPT !.blind = blind]
    BY <1>1, <1>9, <2>2
  <2>4. /\ caller'[d] \in CallerRow /\ caller'[d].at = caller[d].at /\ caller'[d].blind = blind
        /\ caller'[d].about = caller[d].about /\ caller'[d].todo = caller[d].todo
        /\ caller'[d].late = caller[d].late
    BY <2>1, <2>3 DEF CallerRow
  <2> QED
    BY <2>2, <2>4 DEF CallerAt
<1>10. caller' \in [Callers -> CallerRow]
  BY <1>1, <1>8, <1>9
<1>11. SessionsTypeOK'
  BY <1>2, <1>7, <1>10 DEF SessionsInv, SessionsTypeOK, NightRow, CallerRow
<1>12. CallersFit'
  <2> SUFFICES ASSUME NEW d \in Callers PROVE CallerFits(d, caller[d])'
    BY DEF CallersFit
  <2>1. \A m \in Nights : Used(m) => Used(m)'
    BY <1>5, <1>7 DEF Used
  <2>2. CASE d = c
    BY <1>2, <1>5, <1>7, <1>8, <2>2 DEF CallerFits, Used
  <2>3. CASE d # c
    <3>1. CallerFits(d, caller[d]) /\ caller[d] \in CallerRow
      BY <1>3 DEF SessionsInv, CallersFit
    <3>2. caller[d].todo \subseteq Nights
      BY <3>1 DEF CallerRow
    <3>3. caller[d].about \in Nights /\ Used(caller[d].about) => night'[caller[d].about] = night[caller[d].about]
      BY <1>2, <1>7
    <3>4. \A m \in Nights : night'[m].key <=> night[m].key
      BY <1>2, <1>5, <1>7 DEF SessionsInv, UnusedAreBlank
    <3> QED
      BY <1>9, <2>1, <2>3, <3>1, <3>2, <3>3, <3>4 DEF CallerFits
  <2> QED
    BY <2>2, <2>3
<1>13. KeysApart'
  <2>1. \A d \in Callers : caller[d].at = "key" => caller[d].about # n
    BY <1>2 DEF SessionsInv, CallersFit, CallerFits
  <2> QED
    BY <1>8, <1>9, <2>1 DEF SessionsInv, KeysApart
<1>14. \A m \in Nights : m < n => Used(m)
  <2> SUFFICES ASSUME NEW m \in Nights, m < n, ~Used(m) PROVE FALSE
    OBVIOUS
  <2>1. m \in Unused /\ m \in Int /\ n \in Int
    BY <1>2 DEF Unused, Used, Nights
  <2> QED
    BY <1>1, <2>1
<1>15. \A m \in Nights : n < m => ~Used(m)
  BY <1>2 DEF SessionsInv, RowsInOrder
<1>16. \A m \in Nights : m # n => m < n \/ n < m
  BY <1>2 DEF Nights
<1>17. RowsInOrder' /\ UnusedAreBlank'
  <2>1. \A m \in Nights \ {n} : Used(m)' <=> Used(m)
    BY <1>7 DEF Used
  <2>2. Used(n)'
    BY <1>5, <1>7 DEF Used
  <2>3. RowsInOrder'
    BY <1>14, <2>1, <2>2 DEF SessionsInv, RowsInOrder
  <2>4. UnusedAreBlank'
    BY <1>7, <2>1, <2>2 DEF SessionsInv, UnusedAreBlank
  <2> QED
    BY <2>3, <2>4
<1>18. KeyOrTick'
  <2> SUFFICES ASSUME NEW m \in Nights, night'[m].auto, night'[m].status # "DELETED", ~night'[m].cut, ~night'[m].key
               PROVE  \E d \in Ticks : caller'[d].at = "key" /\ caller'[d].about = m
    BY DEF KeyOrTick
  <2>1. CASE m = n
    BY <1>5, <1>7, <1>8, <2>1
  <2>2. CASE m # n
    <3>1. PICK d \in Ticks : caller[d].at = "key" /\ caller[d].about = m
      BY <1>7, <2>2 DEF SessionsInv, KeyOrTick
    <3>2. d # c /\ d \in Callers
      BY <1>2, <3>1 DEF Callers
    <3> QED
      BY <1>9, <3>1, <3>2
  <2> QED
    BY <2>1, <2>2
<1>19. EndedAreSwept'
  BY <1>5, <1>7 DEF SessionsInv, EndedAreSwept
<1>20. OneActiveSession'
  <2> SUFFICES ASSUME NEW m \in Active', NEW k \in Active', m < k PROVE night'[k].blind
    BY DEF OneActiveSession
  <2>1. m \in Nights /\ k \in Nights /\ night'[m].status = "ACTIVE" /\ night'[k].status = "ACTIVE"
    BY DEF Active
  <2>2. CASE k = n
    <3>1. m \in Active
      BY <1>7, <2>1, <2>2 DEF Active, Nights
    <3>2. caller[c].blind
      BY <1>2, <3>1 DEF CallerFits
    <3> QED
      BY <1>5, <1>7, <2>2, <3>2
  <2>3. CASE m = n
    <3>1. k # n /\ ~Used(k)
      BY <1>15, <2>1, <2>3 DEF Nights
    <3> QED
      BY <1>7, <2>1, <3>1 DEF Used
  <2>4. CASE k # n /\ m # n
    BY <1>7, <2>1, <2>4 DEF SessionsInv, OneActiveSession, Active
  <2> QED
    BY <2>2, <2>3, <2>4
<1>21. SlotOpensOnce'
  <2> SUFFICES ASSUME NEW m \in Nights, NEW k \in Nights, m < k, night'[m].auto, night'[k].auto,
                      night'[m].status # "DELETED", ~night'[m].cut
               PROVE  night'[k].late \/ night'[k].blind
    BY DEF SlotOpensOnce
  <2>1. CASE k = n
    <3>1. m # n /\ night'[m] = night[m]
      BY <1>7, <2>1 DEF Nights
    <3>2. c \in Ticks
      BY <1>5, <1>7, <2>1
    <3>3. night[m].key \/ \E d \in Ticks : caller[d].at = "key"
      BY <3>1 DEF SessionsInv, KeyOrTick
    <3>4. caller[c].late \/ \E d \in Ticks : caller[d].at = "key"
      BY <1>2, <3>2, <3>3 DEF CallerFits
    <3> QED
      BY <1>5, <1>7, <2>1, <3>4
  <2>2. CASE m = n
    <3>1. k # n /\ ~Used(k)
      BY <1>15, <2>2 DEF Nights
    <3> QED
      BY <1>7, <3>1 DEF SessionsInv, UnusedAreBlank
  <2>3. CASE k # n /\ m # n
    BY <1>7, <2>3 DEF SessionsInv, SlotOpensOnce
  <2> QED
    BY <2>1, <2>2, <2>3
<1> QED
  BY <1>11, <1>12, <1>13, <1>17, <1>18, <1>19, <1>20, <1>21 DEF SessionsInv

\* The other ticks that have looked for the key, or will not look again, are late.
LEMMA WritingKeeps == ASSUME SessionsInv, NEW c \in Callers, WriteKey(c) PROVE SessionsInv'
<1>1. PICK n : n = caller[c].about
  OBVIOUS
<1>2. PICK free \in BOOLEAN : free = (night[n].status # "DELETED" /\ \A m \in Nights : ~night[m].key)
  OBVIOUS
<1>3. /\ caller[c].at = "key" /\ CallerFits(c, caller[c]) /\ UNCHANGED <<hour, left, nightFaults>>
      /\ night' = [night EXCEPT ![n].key = free, ![n].cut = ~free]
      /\ caller' = [d \in Callers |->
           IF d = c THEN [NoCaller EXCEPT !.at = "stale"]
           ELSE [caller[d] EXCEPT !.late = @ \/ caller[d].at \in {"look", "create"}]]
  BY <1>1, <1>2 DEF WriteKey, CallerAt, SessionsInv, CallersFit
<1>4. n \in Nights /\ Used(n) /\ c \in Ticks /\ ~night[n].cut
  BY <1>1, <1>3 DEF CallerFits
<1>5. night \in [Nights -> NightRow] /\ caller \in [Callers -> CallerRow]
  BY DEF SessionsInv, SessionsTypeOK, NightRow, CallerRow
<1>6. PICK w : w = [night[n] EXCEPT !.key = free, !.cut = ~free]
  OBVIOUS
<1>7. night' = [night EXCEPT ![n] = w]
  BY <1>3, <1>6
<1>8. night[n] \in NightRow /\ (~free) \in BOOLEAN
  BY <1>4, <1>5
<1>9. /\ w \in NightRow /\ w.status = night[n].status /\ (w.key <=> free) /\ (w.cut <=> ~free)
      /\ (w.auto <=> night[n].auto) /\ (w.blind <=> night[n].blind) /\ (w.late <=> night[n].late)
      /\ w.swept = night[n].swept
  BY <1>6, <1>8 DEF NightRow
<1>10. /\ night' \in [Nights -> NightRow] /\ night'[n] = w
       /\ \A m \in Nights \ {n} : night'[m] = night[m]
  BY <1>4, <1>5, <1>7, <1>9
<1>11. caller'[c].at = "stale" /\ caller'[c].todo = {} /\ caller'[c] \in CallerRow
  BY <1>3 DEF NoCaller, CallerRow
<1>12. ASSUME NEW d \in Callers, d # c
       PROVE  /\ caller'[d] \in CallerRow /\ caller'[d].at = caller[d].at
              /\ caller'[d].about = caller[d].about /\ caller'[d].todo = caller[d].todo
              /\ (caller'[d].blind <=> caller[d].blind)
              /\ (caller'[d].late <=> caller[d].late \/ caller[d].at \in {"look", "create"})
  <2>1. caller[d] \in CallerRow
    BY <1>5
  <2>2. PICK late \in BOOLEAN : late = (caller[d].late \/ caller[d].at \in {"look", "create"})
    OBVIOUS
  <2>3. caller'[d] = [caller[d] EXCEPT !.late = late]
    BY <1>3, <1>12, <2>2
  <2>4. /\ caller'[d] \in CallerRow /\ caller'[d].at = caller[d].at /\ caller'[d].late = late
        /\ caller'[d].about = caller[d].about /\ caller'[d].todo = caller[d].todo
        /\ caller'[d].blind = caller[d].blind
    BY <2>1, <2>3 DEF CallerRow
  <2> QED
    BY <2>2, <2>4
<1>13. caller' \in [Callers -> CallerRow]
  BY <1>3, <1>11, <1>12
<1>14. SessionsTypeOK'
  BY <1>3, <1>10, <1>13 DEF SessionsInv, SessionsTypeOK, NightRow, CallerRow
<1>15. /\ \A m \in Nights : Used(m)' <=> Used(m)
       /\ \A m \in Nights : night'[m].status = night[m].status /\ night'[m].swept = night[m].swept
       /\ \A m \in Nights : (night'[m].auto <=> night[m].auto) /\ (night'[m].blind <=> night[m].blind)
                             /\ (night'[m].late <=> night[m].late)
  BY <1>9, <1>10 DEF Used
<1>16. Active' = Active
  BY <1>15 DEF Active
<1>17. \A d \in Callers : caller[d].at = "key" /\ d # c => caller[d].about # n
  BY <1>1, <1>3 DEF SessionsInv, KeysApart
<1>18. CallersFit'
  <2> SUFFICES ASSUME NEW d \in Callers PROVE CallerFits(d, caller[d])'
    BY DEF CallersFit
  <2>1. CASE d = c
    BY <1>11, <2>1 DEF CallerFits
  <2>2. CASE d # c
    <3>1. CallerFits(d, caller[d]) /\ caller[d].todo \subseteq Nights
      BY <1>5 DEF SessionsInv, CallersFit, CallerRow
    <3>2. caller[d].at = "key" => night'[caller[d].about] = night[caller[d].about]
      BY <1>10, <1>17, <2>2, <3>1 DEF CallerFits
    <3> QED
      BY <1>12, <1>15, <1>16, <2>2, <3>1, <3>2 DEF CallerFits
  <2> QED
    BY <2>1, <2>2
<1>19. KeysApart'
  BY <1>11, <1>12 DEF SessionsInv, KeysApart
<1>20. RowsInOrder' /\ UnusedAreBlank' /\ EndedAreSwept'
  BY <1>4, <1>10, <1>15 DEF SessionsInv, RowsInOrder, UnusedAreBlank, EndedAreSwept
<1>21. KeyOrTick'
  <2> SUFFICES ASSUME NEW m \in Nights, night'[m].auto, night'[m].status # "DELETED", ~night'[m].cut, ~night'[m].key
               PROVE  \E d \in Ticks : caller'[d].at = "key" /\ caller'[d].about = m
    BY DEF KeyOrTick
  <2>1. m # n
    BY <1>9, <1>10
  <2>2. PICK d \in Ticks : caller[d].at = "key" /\ caller[d].about = m
    BY <1>10, <2>1 DEF SessionsInv, KeyOrTick
  <2>3. d # c /\ d \in Callers
    BY <1>1, <2>1, <2>2 DEF Callers
  <2> QED
    BY <1>12, <2>2, <2>3
<1>22. OneActiveSession'
  BY <1>15, <1>16 DEF SessionsInv, OneActiveSession, Active
<1>23. SlotOpensOnce'
  <2> SUFFICES ASSUME NEW m \in Nights, NEW k \in Nights, m < k, night'[m].auto, night'[k].auto,
                      night'[m].status # "DELETED", ~night'[m].cut
               PROVE  night'[k].late \/ night'[k].blind
    BY DEF SlotOpensOnce
  <2>1. ~night[m].cut
    BY <1>4, <1>10
  <2> QED
    BY <1>15, <2>1 DEF SessionsInv, SlotOpensOnce
<1> QED
  BY <1>14, <1>18, <1>19, <1>20, <1>21, <1>22, <1>23 DEF SessionsInv

\* A failure ends what was under way; a tick that catches it goes on without it.
LEMMA FailingKeeps == ASSUME SessionsInv, NEW c \in Callers, NightCallFails(c) PROVE SessionsInv'
<1>1. hour' \in 1..MaxHour /\ left' \in LeftRow /\ CallerFits(c, caller[c])
  BY DEF NightCallFails, SessionsInv, SessionsTypeOK, LeftRow, CallersFit
<1>2. nightFaults' \in 0..MaxNightFaults
  BY SessionsAssumption DEF NightCallFails, SessionsInv, SessionsTypeOK
<1>3. PICK r \in CallerRow :
        /\ CallerBecomes(c, r) /\ r.at # "key" /\ CallerFits(c, r)
        /\ caller[c].at = "key" => r.at \in {"idle", "stale"} /\ r.todo = {}
  <2>1. NoCaller \in CallerRow /\ NoCaller.at = "idle" /\ NoCaller.todo = {}
    BY CallerFields DEF SessionsInv
  <2>2. CASE CallerDone(c)
    BY <2>1, <2>2 DEF CallerDone, CallerFits
  <2>3. CASE CallerBecomes(c, [NoCaller EXCEPT !.at = "stale"])
    <3>1. PICK r : r = [NoCaller EXCEPT !.at = "stale"]
      OBVIOUS
    <3>2. r \in CallerRow /\ r.at = "stale" /\ r.todo = {}
      BY <2>1, <3>1 DEF CallerRow
    <3>3. CallerFits(c, r)
      BY <3>2 DEF CallerFits
    <3> QED
      BY <2>3, <3>1, <3>2, <3>3
  <2>4. CASE AfterEnd(c) /\ caller[c].at # "key"
    <3>1. PICK r \in CallerRow :
            /\ CallerBecomes(c, r) /\ r.at \in {"idle", "end"} /\ r.todo \subseteq caller[c].todo
            /\ r.at = "end" => r.about \in caller[c].todo
      BY <2>4, AfterEndIs DEF SessionsInv
    <3>2. caller[c].todo \subseteq Nights
      BY DEF SessionsInv, SessionsTypeOK
    <3>3. CallerFits(c, r)
      BY <1>1, <3>1, <3>2 DEF CallerFits
    <3> QED
      BY <2>4, <3>1, <3>3
  <2> QED
    BY <2>2, <2>3, <2>4 DEF NightCallFails, GoesOn
<1>4. CASE caller[c].at # "key"
  <2>1. night' = night
    BY <1>4 DEF NightCallFails, CallerAt
  <2> QED
    BY <1>1, <1>2, <1>4, <1>3, <2>1, CallerMoves
<1>5. CASE caller[c].at = "key"
  <2>1. PICK n : n = caller[c].about
    OBVIOUS
  <2>2. n \in Nights /\ Used(n) /\ c \in Ticks /\ ~night[n].cut
    BY <1>1, <1>5, <2>1 DEF CallerFits
  <2>3. PICK w : w = [night[n] EXCEPT !.cut = TRUE]
    OBVIOUS
  <2>4. night' = [night EXCEPT ![n] = w]
    BY <1>5, <2>1, <2>3 DEF NightCallFails, CallerAt
  <2>5. night \in [Nights -> NightRow] /\ caller \in [Callers -> CallerRow] /\ night[n] \in NightRow
    BY <2>2 DEF SessionsInv, SessionsTypeOK, NightRow, CallerRow
  <2>6. /\ w \in NightRow /\ w.status = night[n].status /\ (w.key <=> night[n].key) /\ w.cut
        /\ (w.auto <=> night[n].auto) /\ (w.blind <=> night[n].blind) /\ (w.late <=> night[n].late)
        /\ w.swept = night[n].swept
    BY <2>3, <2>5 DEF NightRow
  <2>7. /\ night' \in [Nights -> NightRow] /\ night'[n] = w
        /\ \A m \in Nights \ {n} : night'[m] = night[m]
    BY <2>2, <2>4, <2>5, <2>6
  <2>8. \A d \in Callers : caller'[d] = IF d = c THEN r ELSE caller[d]
    BY <1>3, <2>5 DEF CallerBecomes
  <2>9. SessionsTypeOK'
    BY <1>1, <1>2, <1>3, <2>5, <2>7 DEF CallerBecomes, SessionsInv, SessionsTypeOK, NightRow, CallerRow, LeftRow
  <2>10. /\ \A m \in Nights : Used(m)' <=> Used(m)
         /\ \A m \in Nights : night'[m].status = night[m].status /\ night'[m].swept = night[m].swept
         /\ \A m \in Nights : (night'[m].auto <=> night[m].auto) /\ (night'[m].blind <=> night[m].blind)
                               /\ (night'[m].late <=> night[m].late) /\ (night'[m].key <=> night[m].key)
    BY <2>6, <2>7 DEF Used
  <2>11. Active' = Active
    BY <2>10 DEF Active
  <2>12. \A d \in Callers : caller[d].at = "key" /\ d # c => caller[d].about # n
    BY <1>5, <2>1 DEF SessionsInv, KeysApart
  <2>13. CallersFit'
    <3> SUFFICES ASSUME NEW d \in Callers PROVE CallerFits(d, caller[d])'
      BY DEF CallersFit
    <3>1. CASE d = c
      BY <1>5, <1>3, <2>8, <3>1 DEF CallerFits
    <3>2. CASE d # c
      <4>1. CallerFits(d, caller[d]) /\ caller[d].todo \subseteq Nights /\ caller'[d] = caller[d]
        BY <2>5, <2>8, <3>2 DEF SessionsInv, CallersFit, CallerRow
      <4>2. caller[d].at = "key" => night'[caller[d].about] = night[caller[d].about]
        BY <2>7, <2>12, <3>2, <4>1 DEF CallerFits
      <4> QED
        BY <2>10, <2>11, <4>1, <4>2 DEF CallerFits
    <3> QED
      BY <3>1, <3>2
  <2>14. KeysApart'
    BY <1>3, <2>8 DEF SessionsInv, KeysApart
  <2>15. RowsInOrder' /\ UnusedAreBlank' /\ EndedAreSwept'
    BY <2>10 DEF SessionsInv, RowsInOrder, UnusedAreBlank, EndedAreSwept
  <2>16. KeyOrTick'
    <3> SUFFICES ASSUME NEW m \in Nights, night'[m].auto, night'[m].status # "DELETED", ~night'[m].cut, ~night'[m].key
                 PROVE  \E d \in Ticks : caller'[d].at = "key" /\ caller'[d].about = m
      BY DEF KeyOrTick
    <3>1. m # n
      BY <2>6, <2>7
    <3>2. PICK d \in Ticks : caller[d].at = "key" /\ caller[d].about = m
      BY <2>7, <3>1 DEF SessionsInv, KeyOrTick
    <3>3. d # c /\ d \in Callers
      BY <2>1, <3>1, <3>2 DEF Callers
    <3> QED
      BY <2>8, <3>2, <3>3
  <2>17. OneActiveSession' /\ SlotOpensOnce'
    <3>1. OneActiveSession'
      BY <2>10, <2>11 DEF SessionsInv, OneActiveSession, Active
    <3>2. \A m \in Nights : night[m].cut => night'[m].cut
      BY <2>6, <2>7
    <3>3. SlotOpensOnce'
      BY <2>10, <3>2 DEF SessionsInv, SlotOpensOnce
    <3> QED
      BY <3>1, <3>3
  <2> QED
    BY <2>9, <2>13, <2>14, <2>15, <2>16, <2>17 DEF SessionsInv
<1> QED
  BY <1>4, <1>5

-----------------------------------------------------------------------------
(* The doors and the check-ins                                             *)

CheckInRow == [who : Attendees, night : {0} \cup Nights, open : BOOLEAN, after : BOOLEAN]
DoorRow == [at : {"idle", "any", "own", "facility", "create", "upgrade", "close"},
            who : Attendees \cup {"none"}, night : {0} \cup Nights, row : {0} \cup DOMAIN checkIn]

\* What a request knows where it stands, if no other has been about its user.
DoorFits(r) ==
  /\ r.at # "idle" => r.who \in Attendees
  /\ r.at \in {"own", "facility", "upgrade"} => r.night \in Nights
  /\ r.at \in {"upgrade", "close"} => r.row \in DOMAIN checkIn
  /\ r.at = "upgrade" => checkIn[r.row].who = r.who
  /\ r.at # "idle" /\ r.who \notin doorsMet =>
       /\ r.at \in {"facility", "upgrade", "create"} => Open(r.who, r.night) = {}
       /\ r.at = "upgrade" => Open(r.who, 0) \subseteq {r.row}
       /\ r.at = "create" => Open(r.who, 0) = {} /\ (r.night = 0 => OpenAnywhere(r.who) = {})

DoorsFit == \A d \in Doors : DoorFits(door[d])

OneDoorEach ==
  \A d, e \in Doors :
    d # e /\ door[d].at # "idle" /\ door[e].at # "idle" /\ door[d].who = door[e].who
      => door[d].who \in doorsMet

\* In any session, over or not, and the facility taken together.
OneRowEach ==
  \A u \in Attendees \ doorsMet, n \in Nights \cup {0} :
    \A i, j \in Open(u, n) \cup Open(u, 0) : i = j

DoorsInv == CheckInsTypeOK /\ DoorsFit /\ OneDoorEach /\ OneRowEach

LEMMA SeqRemade ==
  ASSUME NEW S, NEW s \in Seq(S), NEW t, DOMAIN t = DOMAIN s, t = [i \in DOMAIN t |-> t[i]],
         \A i \in DOMAIN s : t[i] \in S
  PROVE  t \in Seq(S) /\ Len(t) = Len(s)
<1>1. DOMAIN s = 1..Len(s) /\ Len(s) \in Nat
  OBVIOUS
<1>2. t \in [1..Len(s) -> S]
  BY <1>1
<1> QED
  BY <1>1, <1>2

\* A request moves on and the rows stay.
LEMMA DoorMoves ==
  ASSUME DoorsInv, NEW d \in Doors, NEW r \in DoorRow, DoorBecomes(d, r), checkIn' = checkIn, DoorFits(r)
  PROVE  DoorsInv'
<1>1. \A e \in Doors : door'[e] = IF e = d THEN r ELSE door[e]
  BY DEF DoorsInv, CheckInsTypeOK, DoorBecomes
<1>2. doorsMet \subseteq doorsMet' /\ doorsMet' \subseteq Attendees
  BY DEF DoorsInv, CheckInsTypeOK, DoorBecomes
<1>3. CheckInsTypeOK'
  BY <1>2 DEF DoorsInv, CheckInsTypeOK, DoorBecomes, DoorRow
<1>4. DoorsFit'
  BY <1>1, <1>2 DEF DoorsInv, DoorsFit, DoorFits, Open, OpenAnywhere
<1>5. OneDoorEach'
  <2> SUFFICES ASSUME NEW e \in Doors, NEW f \in Doors, e # f, door'[e].at # "idle", door'[f].at # "idle",
                      door'[e].who = door'[f].who
               PROVE  door'[e].who \in doorsMet'
    BY DEF OneDoorEach
  <2>1. door'[e].who \in Attendees
    BY <1>4 DEF DoorsFit, DoorFits
  <2> QED
    BY <2>1 DEF DoorBecomes
<1>6. OneRowEach'
  BY <1>2 DEF DoorsInv, OneRowEach, Open
<1> QED
  BY <1>3, <1>4, <1>5, <1>6 DEF DoorsInv

\* What a write leaves as it is: rows are for their users, and nothing is opened
\* but for user w; the request that writes is done, or it is none of a user.
LEMMA RowsOfOthers ==
  ASSUME DoorsInv, checkIn' \in Seq(CheckInRow), DOMAIN checkIn \subseteq DOMAIN checkIn',
         \A i \in DOMAIN checkIn : checkIn'[i].who = checkIn[i].who,
         NEW w,
         \A u \in Attendees \ {w}, n \in Nights \cup {0} : Open(u, n)' \subseteq Open(u, n),
         \A u \in Attendees \ {w} : OpenAnywhere(u)' \subseteq OpenAnywhere(u),
         \/ /\ UNCHANGED <<door, doorsMet>> /\ w \notin Attendees
         \/ \E d \in Doors : /\ DoorDone(d) /\ door[d].at # "idle"
                             /\ w \in Attendees => w = door[d].who,
         w \in Attendees \ doorsMet =>
           \A n \in Nights \cup {0} : \A i, j \in Open(w, n)' \cup Open(w, 0)' : i = j
  PROVE  DoorsInv'
<1>1. \A e \in Doors : door'[e] = door[e] \/ door'[e] = NoDoor
  BY DEF DoorsInv, CheckInsTypeOK, DoorDone, DoorBecomes
<1>2. doorsMet \subseteq doorsMet' /\ doorsMet' \subseteq Attendees
  BY DEF DoorsInv, CheckInsTypeOK, DoorDone, DoorBecomes
<1>3. NoDoor.at = "idle" /\ NoDoor \in DoorRow'
  BY DEF NoDoor, DoorRow
<1>4. \A e \in Doors : door[e] \in DoorRow'
  BY DEF DoorsInv, CheckInsTypeOK, DoorRow
<1>5. DOMAIN door' = Doors /\ door' = [e \in Doors |-> door'[e]]
  BY DEF DoorsInv, CheckInsTypeOK, DoorDone, DoorBecomes
<1>6. CheckInsTypeOK'
  <2>1. \A e \in Doors : door'[e] \in DoorRow'
    BY <1>1, <1>3, <1>4
  <2>2. door' \in [Doors -> DoorRow']
    BY <1>5, <2>1
  <2> QED
    BY <1>2, <2>2 DEF CheckInsTypeOK, CheckInRow, DoorRow
<1>7. DoorsFit'
  <2> SUFFICES ASSUME NEW e \in Doors, door'[e] = door[e], door[e].at # "idle" PROVE DoorFits(door[e])'
    BY <1>1, <1>3 DEF DoorsFit, DoorFits
  <2>1. DoorFits(door[e]) /\ door[e] \in DoorRow
    BY DEF DoorsInv, DoorsFit, CheckInsTypeOK, DoorRow
  <2>2. door[e].who \in Attendees /\ door[e].night \in Nights \cup {0}
    BY <2>1 DEF DoorFits, DoorRow
  <2>3. door[e].who \notin doorsMet' => door[e].who # w
    <3> SUFFICES ASSUME door[e].who \notin doorsMet', door[e].who = w PROVE FALSE
      OBVIOUS
    <3>1. PICK d \in Doors : DoorDone(d) /\ door[d].at # "idle" /\ w = door[d].who
      BY <2>2
    <3>2. d # e
      BY <1>3, <3>1 DEF DoorDone, DoorBecomes, DoorsInv, CheckInsTypeOK
    <3> QED
      BY <1>2, <3>1, <3>2 DEF DoorsInv, OneDoorEach
  <2>4. /\ door[e].at \in {"upgrade", "close"} => door[e].row \in DOMAIN checkIn'
        /\ door[e].at = "upgrade" => checkIn'[door[e].row].who = door[e].who
    BY <2>1 DEF DoorFits
  <2> QED
    BY <1>2, <2>1, <2>2, <2>3, <2>4 DEF DoorFits
<1>8. OneDoorEach'
  BY <1>1, <1>2, <1>3 DEF DoorsInv, OneDoorEach
<1>9. OneRowEach'
  BY <1>2 DEF DoorsInv, OneRowEach
<1> QED
  BY <1>6, <1>7, <1>8, <1>9 DEF DoorsInv

LEMMA DoorsStay == ASSUME DoorsInv, UNCHANGED checkInVars PROVE DoorsInv'
BY DEF checkInVars, DoorsInv, CheckInsTypeOK, DoorsFit, DoorFits, OneDoorEach, OneRowEach, Open,
       OpenAnywhere

LEMMA CheckInsAreRows ==
  ASSUME DoorsInv PROVE checkIn \in Seq(CheckInRow) /\ \A i \in DOMAIN checkIn : checkIn[i] \in CheckInRow
<1>1. checkIn \in Seq(CheckInRow)
  BY DEF DoorsInv, CheckInsTypeOK, CheckInRow
<1> QED
  BY <1>1

LEMMA DoorFields ==
  ASSUME DoorsInv, NEW d \in Doors
  PROVE  door[d] \in DoorRow /\ NoDoor \in DoorRow /\ NoDoor.at = "idle" /\ DoorFits(NoDoor) /\ DoorFits(door[d])
BY DEF DoorsInv, CheckInsTypeOK, DoorRow, NoDoor, DoorsFit, DoorFits

\* The four calls, which look for a session or for a row first.
LEMMA CallsKeep == ASSUME DoorsInv, NEW d \in Doors, DoorCall(d) PROVE DoorsInv'
<1>1. ASSUME NEW r \in DoorRow, DoorBecomes(d, r), checkIn' = checkIn, r.who \in Attendees,
             \/ r.at = "any"
             \/ r.at = "own" /\ r.night \in Nights
             \/ r.at = "close" /\ r.row \in DOMAIN checkIn
      PROVE  DoorsInv'
  BY <1>1, DoorMoves DEF DoorFits
<1>2. CASE FindPlace(d)
  <2> PICK u \in Attendees, n \in (IF Active = {} THEN {0} ELSE Active) :
        DoorBecomes(d, [NoDoor EXCEPT !.at = "any", !.who = u, !.night = n])
    BY <1>2 DEF FindPlace
  <2>1. n \in {0} \cup Nights
    BY DEF Active
  <2>2. PICK r : r = [NoDoor EXCEPT !.at = "any", !.who = u, !.night = n]
    OBVIOUS
  <2>3. r \in DoorRow /\ r.at = "any" /\ r.who = u
    BY <2>1, <2>2 DEF DoorRow, NoDoor
  <2> QED
    BY <1>1, <1>2, <2>2, <2>3 DEF FindPlace
<1>3. CASE FindNight(d)
  <2> PICK u \in Attendees, n \in Active :
        DoorBecomes(d, [NoDoor EXCEPT !.at = "own", !.who = u, !.night = n])
    BY <1>3 DEF FindNight
  <2>1. n \in Nights
    BY DEF Active
  <2>2. PICK r : r = [NoDoor EXCEPT !.at = "own", !.who = u, !.night = n]
    OBVIOUS
  <2>3. r \in DoorRow /\ r.at = "own" /\ r.who = u /\ r.night = n
    BY <2>1, <2>2 DEF DoorRow, NoDoor
  <2> QED
    BY <1>1, <1>3, <2>1, <2>2, <2>3 DEF FindNight
<1>4. ASSUME NEW u \in Attendees, NEW i \in DOMAIN checkIn, checkIn' = checkIn,
             DoorBecomes(d, [NoDoor EXCEPT !.at = "close", !.who = u, !.row = i])
      PROVE  DoorsInv'
  <2>2. PICK r : r = [NoDoor EXCEPT !.at = "close", !.who = u, !.row = i]
    OBVIOUS
  <2>3. r \in DoorRow /\ r.at = "close" /\ r.who = u /\ r.row = i
    BY <2>2 DEF DoorRow, NoDoor
  <2> QED
    BY <1>1, <1>4, <2>2, <2>3
<1>5. CASE FindToClose(d)
  <2> PICK u \in Attendees :
        LET S == {i \in OpenAnywhere(u) : checkIn[i].night \in Active}
        IN  \E i \in Newest(IF S = {} THEN OpenAnywhere(u) ELSE S) :
              DoorBecomes(d, [NoDoor EXCEPT !.at = "close", !.who = u, !.row = i])
    BY <1>5 DEF FindToClose
  <2>1. PICK i \in DOMAIN checkIn : DoorBecomes(d, [NoDoor EXCEPT !.at = "close", !.who = u, !.row = i])
    BY DEF Newest, OpenAnywhere
  <2> QED
    BY <1>4, <1>5, <2>1 DEF FindToClose
<1>6. CASE FindToRemove(d)
  <2> PICK u \in Attendees, n \in Nights : \E i \in (IF Open(u, n) = {} THEN Open(u, 0) ELSE Open(u, n)) :
        DoorBecomes(d, [NoDoor EXCEPT !.at = "close", !.who = u, !.row = i])
    BY <1>6 DEF FindToRemove
  <2>1. PICK i \in DOMAIN checkIn : DoorBecomes(d, [NoDoor EXCEPT !.at = "close", !.who = u, !.row = i])
    BY DEF Open
  <2> QED
    BY <1>4, <1>6, <2>1 DEF FindToRemove
<1> QED
  BY <1>2, <1>3, <1>5, <1>6 DEF DoorCall

LEMMA DoorLooksKeep ==
  ASSUME DoorsInv, NEW d \in Doors, LookAnywhere(d) \/ LookForCheckIn(d) \/ LookForFacility(d)
  PROVE  DoorsInv'
<1>1. checkIn' = checkIn /\ DoorFits(door[d]) /\ door[d] \in DoorRow
  BY DoorFields DEF LookAnywhere, LookForCheckIn, LookForFacility
<1>2. CASE DoorDone(d)
  BY <1>1, <1>2, DoorFields, DoorMoves DEF DoorDone
<1>3. ASSUME NEW l \in {"create", "facility"}, DoorTo(d, l), door[d].who \in Attendees,
             Open(door[d].who, door[d].night) = {}, l = "facility" => door[d].night \in Nights,
             l = "create" => /\ Open(door[d].who, 0) = {}
                             /\ door[d].night = 0 => OpenAnywhere(door[d].who) = {}
      PROVE  DoorsInv'
  <2>1. PICK r : r = [door[d] EXCEPT !.at = l]
    OBVIOUS
  <2>2. r \in DoorRow /\ r.at = l /\ r.who = door[d].who /\ r.night = door[d].night
    BY <1>1, <2>1 DEF DoorRow
  <2>3. DoorFits(r)
    BY <1>3, <2>2 DEF DoorFits
  <2> QED
    BY <1>1, <1>3, <2>1, <2>2, <2>3, DoorMoves DEF DoorTo
<1>4. CASE LookAnywhere(d) /\ ~DoorDone(d)
  <2>1. /\ DoorTo(d, "create") /\ OpenAnywhere(door[d].who) = {} /\ door[d].who \in Attendees
    BY <1>1, <1>4 DEF LookAnywhere, DoorAt, DoorFits
  <2>2. \A n : Open(door[d].who, n) = {}
    BY <2>1 DEF Open, OpenAnywhere
  <2> QED
    BY <1>3, <2>1, <2>2
<1>5. CASE LookForCheckIn(d) /\ ~DoorDone(d)
  <2>1. /\ DoorTo(d, "facility") /\ Open(door[d].who, door[d].night) = {} /\ door[d].who \in Attendees
        /\ door[d].night \in Nights
    BY <1>1, <1>5 DEF LookForCheckIn, DoorAt, DoorFits
  <2> QED
    BY <1>3, <2>1
<1>6. CASE LookForFacility(d) /\ ~DoorDone(d)
  <2>0. door[d].at = "facility" /\ door[d].who \in Attendees /\ door[d].night \in Nights
    BY <1>1, <1>6 DEF LookForFacility, DoorAt, DoorFits
  <2>1. ASSUME NEW r \in DoorRow, DoorBecomes(d, r), r.who = door[d].who, r.night = door[d].night,
               \/ r.at = "create" /\ Open(r.who, 0) = {}
               \/ r.at = "upgrade" /\ r.row \in Open(r.who, 0)
        PROVE  DoorsInv'
    <3>1. r.night # 0
      BY <2>0, <2>1 DEF Nights
    <3>2. r.who \notin doorsMet => Open(r.who, r.night) = {}
      BY <1>1, <2>0, <2>1 DEF DoorFits
    <3>3. r.who \notin doorsMet /\ r.at = "upgrade" => Open(r.who, 0) \subseteq {r.row}
      <4> SUFFICES ASSUME r.who \notin doorsMet, r.at = "upgrade", NEW i \in Open(r.who, 0) PROVE i = r.row
        OBVIOUS
      <4> QED
        BY <2>0, <2>1 DEF DoorsInv, OneRowEach
    <3>4. r.at = "upgrade" => r.row \in DOMAIN checkIn /\ checkIn[r.row].who = r.who
      BY <2>1 DEF Open
    <3>5. DoorFits(r)
      BY <2>0, <2>1, <3>1, <3>2, <3>3, <3>4 DEF DoorFits
    <3> QED
      BY <1>1, <2>1, <3>5, DoorMoves
  <2>2. CASE Open(door[d].who, 0) = {}
    <3>1. PICK r : r = [door[d] EXCEPT !.at = "create"]
      OBVIOUS
    <3>2. r \in DoorRow /\ r.at = "create" /\ r.who = door[d].who /\ r.night = door[d].night
      BY <1>1, <3>1 DEF DoorRow
    <3> QED
      BY <1>6, <2>1, <2>2, <3>1, <3>2 DEF LookForFacility, DoorTo
  <2>3. CASE Open(door[d].who, 0) # {}
    <3>0. PICK i \in Open(door[d].who, 0) : DoorBecomes(d, [door[d] EXCEPT !.at = "upgrade", !.row = i])
      BY <1>6, <2>3 DEF LookForFacility
    <3>1. PICK r : r = [door[d] EXCEPT !.at = "upgrade", !.row = i]
      OBVIOUS
    <3>2. i \in DOMAIN checkIn
      BY DEF Open
    <3>3. r \in DoorRow /\ r.at = "upgrade" /\ r.who = door[d].who /\ r.night = door[d].night /\ r.row = i
      BY <1>1, <3>1, <3>2 DEF DoorRow
    <3> QED
      BY <2>1, <3>0, <3>1, <3>3
  <2> QED
    BY <2>2, <2>3
<1> QED
  BY <1>2, <1>4, <1>5, <1>6

\* Rows are closed, and none is opened.
LEMMA ClosedRows ==
  ASSUME DoorsInv, DOMAIN checkIn' = DOMAIN checkIn, checkIn' = [i \in DOMAIN checkIn' |-> checkIn'[i]],
         \A i \in DOMAIN checkIn : \/ checkIn'[i] = checkIn[i]
                                   \/ checkIn'[i] = [checkIn[i] EXCEPT !.open = FALSE],
         \/ UNCHANGED <<door, doorsMet>>
         \/ \E d \in Doors : DoorDone(d) /\ door[d].at # "idle"
  PROVE  DoorsInv'
<1>1. ASSUME NEW i \in DOMAIN checkIn
      PROVE  /\ checkIn'[i] \in CheckInRow /\ checkIn'[i].who = checkIn[i].who
             /\ checkIn'[i].night = checkIn[i].night /\ (checkIn'[i].open => checkIn[i].open)
  <2>1. checkIn[i] \in CheckInRow
    BY CheckInsAreRows
  <2>2. PICK r : r = [checkIn[i] EXCEPT !.open = FALSE]
    OBVIOUS
  <2>3. /\ r \in CheckInRow /\ r.who = checkIn[i].who /\ r.night = checkIn[i].night /\ ~r.open
    BY <2>1, <2>2 DEF CheckInRow
  <2> QED
    BY <2>1, <2>2, <2>3
<1>2. checkIn' \in Seq(CheckInRow)
  <2>1. checkIn \in Seq(CheckInRow)
    BY DEF DoorsInv, CheckInsTypeOK, CheckInRow
  <2> QED
    BY <1>1, <2>1, SeqRemade
<1>3. PICK w : w \notin Attendees
  BY NoSetContainsEverything
<1>4. /\ \A u \in Attendees, n \in Nights \cup {0} : Open(u, n)' \subseteq Open(u, n)
      /\ \A u \in Attendees : OpenAnywhere(u)' \subseteq OpenAnywhere(u)
  BY <1>1 DEF Open, OpenAnywhere
<1> QED
  BY <1>1, <1>2, <1>3, <1>4, RowsOfOthers

LEMMA ClosingKeeps ==
  ASSUME DoorsInv, NEW n \in Nights, CloseCheckInsOf(n), UNCHANGED <<door, doorsMet>> PROVE DoorsInv'
BY ClosedRows DEF CloseCheckInsOf

LEMMA CheckOutKeeps == ASSUME DoorsInv, NEW d \in Doors, CloseRow(d) PROVE DoorsInv'
<1>1. DoorDone(d) /\ door[d].at # "idle" /\ checkIn' = [checkIn EXCEPT ![door[d].row].open = FALSE]
  BY DEF CloseRow, DoorAt
<1>2. \A i \in DOMAIN checkIn : checkIn'[i] = IF i = door[d].row THEN [checkIn[i] EXCEPT !.open = FALSE]
                                              ELSE checkIn[i]
  BY <1>1
<1>3. DOMAIN checkIn' = DOMAIN checkIn /\ checkIn' = [i \in DOMAIN checkIn' |-> checkIn'[i]]
  BY <1>1
<1> QED
  BY <1>1, <1>2, <1>3, ClosedRows

LEMMA CheckInKeeps == ASSUME DoorsInv, NEW d \in Doors, CreateCheckIn(d) PROVE DoorsInv'
<1>1. /\ door[d].at = "create" /\ DoorDone(d) /\ DoorFits(door[d]) /\ DoorFits(NoDoor)
      /\ door[d] \in DoorRow /\ NoDoor \in DoorRow /\ door[d].who \in Attendees
  BY DoorFields DEF CreateCheckIn, DoorAt, DoorFits
<1>2. CASE checkIn' = checkIn
  BY <1>1, <1>2, DoorMoves DEF DoorDone
<1>3. CASE checkIn' # checkIn
  <2>1. PICK u, n : u = door[d].who /\ n = door[d].night
    OBVIOUS
  <2>2. PICK x : x = [who |-> u, night |-> n, open |-> TRUE, after |-> n # 0 /\ "checkIns" \in night[n].swept]
    OBVIOUS
  <2>3. x \in CheckInRow /\ x.who = u /\ x.night = n /\ checkIn' = Append(checkIn, x)
    BY <1>1, <1>3, <2>1, <2>2 DEF CreateCheckIn, CheckInRow, DoorRow
  <2>4. checkIn \in Seq(CheckInRow)
    BY DEF DoorsInv, CheckInsTypeOK, CheckInRow
  <2>5. PICK k : k = Len(checkIn) + 1
    OBVIOUS
  <2>6. /\ checkIn' \in Seq(CheckInRow) /\ DOMAIN checkIn' = DOMAIN checkIn \cup {k} /\ k \notin DOMAIN checkIn
        /\ checkIn'[k] = x /\ \A i \in DOMAIN checkIn : checkIn'[i] = checkIn[i]
    BY <2>3, <2>4, <2>5, AppendProperties
  <2>7. /\ \A v \in Attendees \ {u}, m \in Nights \cup {0} : Open(v, m)' = Open(v, m)
        /\ \A v \in Attendees \ {u} : OpenAnywhere(v)' = OpenAnywhere(v)
    BY <2>3, <2>6 DEF Open, OpenAnywhere
  <2>8. \A m : Open(u, m)' \subseteq Open(u, m) \cup {k} /\ (m # n => k \notin Open(u, m)')
    BY <2>3, <2>6 DEF Open
  <2>9. u \in Attendees \ doorsMet =>
          \A m \in Nights \cup {0} : \A i, j \in Open(u, m)' \cup Open(u, 0)' : i = j
    <3> SUFFICES ASSUME u \in Attendees \ doorsMet, NEW m \in Nights \cup {0},
                        NEW i \in Open(u, m)' \cup Open(u, 0)', NEW j \in Open(u, m)' \cup Open(u, 0)'
                 PROVE  i = j
      OBVIOUS
    <3>1. Open(u, n) = {} /\ Open(u, 0) = {} /\ (n = 0 => OpenAnywhere(u) = {})
      BY <1>1, <2>1 DEF DoorFits
    <3>2. CASE n = 0
      <4>1. Open(u, m) = {}
        BY <3>1, <3>2 DEF Open, OpenAnywhere
      <4> QED
        BY <2>8, <3>1, <4>1
    <3>3. CASE n # 0 /\ m = n
      BY <2>8, <3>1, <3>3
    <3>4. CASE n # 0 /\ m # n
      <4>1. i \in Open(u, m) \cup Open(u, 0) /\ j \in Open(u, m) \cup Open(u, 0)
        BY <2>8, <3>4
      <4> QED
        BY <4>1 DEF DoorsInv, OneRowEach
    <3> QED
      BY <3>2, <3>3, <3>4
  <2>10. \E e \in Doors : /\ DoorDone(e) /\ door[e].at # "idle"
                          /\ u \in Attendees => u = door[e].who
    BY <1>1, <2>1
  <2>11. /\ DOMAIN checkIn \subseteq DOMAIN checkIn'
         /\ \A i \in DOMAIN checkIn : checkIn'[i].who = checkIn[i].who
    BY <2>6
  <2>12. /\ \A v \in Attendees \ {u}, m \in Nights \cup {0} : Open(v, m)' \subseteq Open(v, m)
         /\ \A v \in Attendees \ {u} : OpenAnywhere(v)' \subseteq OpenAnywhere(v)
    BY <2>7
  <2> QED
    BY <2>6, <2>9, <2>10, <2>11, <2>12, RowsOfOthers
<1> QED
  BY <1>2, <1>3

LEMMA UpgradeKeeps == ASSUME DoorsInv, NEW d \in Doors, UpgradeCheckIn(d) PROVE DoorsInv'
<1>1. /\ door[d].at = "upgrade" /\ DoorDone(d) /\ DoorFits(door[d]) /\ DoorFits(NoDoor)
      /\ door[d] \in DoorRow /\ NoDoor \in DoorRow
  BY DoorFields DEF UpgradeCheckIn, DoorAt
<1>2. CASE checkIn' = checkIn
  BY <1>1, <1>2, DoorMoves DEF DoorDone
<1>3. CASE checkIn' # checkIn
  <2>1. PICK u, n, k : u = door[d].who /\ n = door[d].night /\ k = door[d].row
    OBVIOUS
  <2>2. u \in Attendees /\ n \in Nights /\ k \in DOMAIN checkIn /\ checkIn[k].who = u
    BY <1>1, <2>1 DEF DoorFits
  <2>3. PICK after \in BOOLEAN : after = ("checkIns" \in night[n].swept)
    <3>1. TRUE = ("checkIns" \in night[n].swept) \/ FALSE = ("checkIns" \in night[n].swept)
      OBVIOUS
    <3> QED
      BY <3>1
  <2>4. PICK x : x = [checkIn[k] EXCEPT !.night = n, !.after = after]
    OBVIOUS
  <2>5. checkIn' = [checkIn EXCEPT ![k] = x]
    BY <1>3, <2>1, <2>3, <2>4 DEF UpgradeCheckIn
  <2>6. checkIn[k] \in CheckInRow /\ checkIn \in Seq(CheckInRow)
    BY <2>2, CheckInsAreRows
  <2>7. x \in CheckInRow /\ x.who = u /\ x.night = n
    BY <2>2, <2>4, <2>6 DEF CheckInRow
  <2>8. /\ DOMAIN checkIn' = DOMAIN checkIn /\ checkIn' = [i \in DOMAIN checkIn' |-> checkIn'[i]]
        /\ checkIn'[k] = x /\ \A i \in DOMAIN checkIn \ {k} : checkIn'[i] = checkIn[i]
    BY <2>2, <2>5
  <2>9. checkIn' \in Seq(CheckInRow)
    <3>1. \A i \in DOMAIN checkIn : checkIn'[i] \in CheckInRow
      BY <2>6, <2>7, <2>8
    <3> QED
      BY <2>6, <2>8, <3>1, SeqRemade
  <2>10. /\ \A v \in Attendees \ {u}, m \in Nights \cup {0} : Open(v, m)' = Open(v, m)
         /\ \A v \in Attendees \ {u} : OpenAnywhere(v)' = OpenAnywhere(v)
    BY <2>2, <2>7, <2>8 DEF Open, OpenAnywhere
  <2>11. \A m : Open(u, m)' \subseteq Open(u, m) \cup {k} /\ (m # n => k \notin Open(u, m)')
    BY <2>2, <2>7, <2>8 DEF Open
  <2>12. u \in Attendees \ doorsMet =>
           \A m \in Nights \cup {0} : \A i, j \in Open(u, m)' \cup Open(u, 0)' : i = j
    <3> SUFFICES ASSUME u \in Attendees \ doorsMet, NEW m \in Nights \cup {0},
                        NEW i \in Open(u, m)' \cup Open(u, 0)', NEW j \in Open(u, m)' \cup Open(u, 0)'
                 PROVE  i = j
      OBVIOUS
    <3>1. Open(u, n) = {} /\ Open(u, 0) \subseteq {k} /\ n # 0
      BY <1>1, <2>1, <2>2 DEF DoorFits, Nights
    <3>2. Open(u, 0)' = {}
      BY <2>11, <3>1
    <3>3. CASE m = n
      BY <2>11, <3>1, <3>2, <3>3
    <3>4. CASE m # n
      <4>1. i \in Open(u, m) \cup Open(u, 0) /\ j \in Open(u, m) \cup Open(u, 0)
        BY <2>11, <3>2, <3>4
      <4> QED
        BY <4>1 DEF DoorsInv, OneRowEach
    <3> QED
      BY <3>3, <3>4
  <2>13. \A i \in DOMAIN checkIn : checkIn'[i].who = checkIn[i].who
    BY <2>2, <2>7, <2>8
  <2>14. \E e \in Doors : /\ DoorDone(e) /\ door[e].at # "idle"
                          /\ u \in Attendees => u = door[e].who
    BY <1>1, <2>1
  <2>15. /\ \A v \in Attendees \ {u}, m \in Nights \cup {0} : Open(v, m)' \subseteq Open(v, m)
         /\ \A v \in Attendees \ {u} : OpenAnywhere(v)' \subseteq OpenAnywhere(v)
    BY <2>10
  <2>16. DOMAIN checkIn \subseteq DOMAIN checkIn'
    BY <2>8
  <2> QED
    BY <2>9, <2>12, <2>13, <2>14, <2>15, <2>16, RowsOfOthers
<1> QED
  BY <1>2, <1>3

-----------------------------------------------------------------------------
(* The booths, the polls and the votes                                     *)

PollRow == [night : Nights, status : {"OPEN", "CLOSED", "DELETED"}, multi : BOOLEAN, after : BOOLEAN]
BoothRow == [at : {"idle", "open", "present", "read", "clear", "drop", "cast"},
             who : Attendees \cup {"none"}, poll : {0} \cup DOMAIN poll, night : {0} \cup Nights,
             choice : Choices \cup {"none"}, already : BOOLEAN]
Votes(r) == r.at \in {"present", "read", "clear", "drop", "cast"}

BoothKnows(r) ==
  /\ r.at = "open" => r.night \in Nights
  /\ Votes(r) => r.who \in Attendees /\ r.choice \in Choices /\ r.poll \in DOMAIN poll

BallotsIn(S, q, u) == {v \in S : v[1] = q /\ v[2] = u}

\* Who is about to cast the vote of a poll with one choice has none there.
BoothCleared(r) ==
  r.at = "cast" /\ r.who \notin boothsMet /\ ~poll[r.poll].multi => BallotsIn(ballot, r.poll, r.who) = {}

BoothsFit == \A b \in Booths : BoothKnows(booth[b]) /\ BoothCleared(booth[b])

OneBoothEach ==
  \A b, e \in Booths : b # e /\ Votes(booth[b]) /\ Votes(booth[e]) /\ booth[b].who = booth[e].who
    => booth[b].who \in boothsMet

OneBallotEach ==
  \A q \in DOMAIN poll, u \in Attendees \ boothsMet :
    ~poll[q].multi => \A v, w \in BallotsIn(ballot, q, u) : v = w

BoothsInv == PollsTypeOK /\ BoothsFit /\ OneBoothEach /\ OneBallotEach

LEMMA BoothFields ==
  ASSUME BoothsInv
  PROVE  /\ poll \in Seq(PollRow) /\ \A q \in DOMAIN poll : poll[q] \in PollRow
         /\ NoBooth \in BoothRow /\ BoothKnows(NoBooth) /\ NoBooth.at = "idle" /\ ~Votes(NoBooth)
         /\ booth \in [Booths -> BoothRow]
         /\ \A b \in Booths : booth[b] \in BoothRow /\ BoothKnows(booth[b]) /\ BoothCleared(booth[b])
<1>1. poll \in Seq(PollRow)
  BY DEF BoothsInv, PollsTypeOK, PollRow
<1>2. NoBooth \in BoothRow /\ BoothKnows(NoBooth) /\ NoBooth.at = "idle" /\ ~Votes(NoBooth)
  BY DEF NoBooth, BoothRow, BoothKnows, Votes
<1>3. booth \in [Booths -> BoothRow]
  BY DEF BoothsInv, PollsTypeOK, BoothRow
<1> QED
  BY <1>1, <1>2, <1>3 DEF BoothsInv, BoothsFit

LEMMA BoothsStay == ASSUME BoothsInv, UNCHANGED pollVars PROVE BoothsInv'
BY DEF pollVars, BoothsInv, PollsTypeOK, BoothsFit, BoothKnows, BoothCleared, Votes, OneBoothEach,
       OneBallotEach, BallotsIn

\* No vote is cast: polls are made, closed and deleted, votes taken back, and at
\* most one request moves on.
LEMMA BoothMoves ==
  ASSUME BoothsInv, poll' \in Seq(PollRow), DOMAIN poll \subseteq DOMAIN poll',
         \A q \in DOMAIN poll : poll'[q].multi <=> poll[q].multi, ballot' \subseteq ballot,
         \/ UNCHANGED <<booth, boothsMet>>
         \/ \E b \in Booths, r \in BoothRow :
              /\ BoothBecomes(b, r) /\ BoothKnows(r)
              /\ r.at = "cast" /\ r.who \notin boothsMet /\ ~poll[r.poll].multi
                   => BallotsIn(ballot', r.poll, r.who) = {}
  PROVE  BoothsInv'
<1>1. booth \in [Booths -> BoothRow] /\ \A b \in Booths : BoothKnows(booth[b]) /\ BoothCleared(booth[b])
  BY BoothFields
<1>2. boothsMet \subseteq boothsMet' /\ boothsMet' \subseteq Attendees
  BY DEF BoothsInv, PollsTypeOK, BoothBecomes
<1>3. \A r \in BoothRow : r \in BoothRow' /\ (BoothKnows(r) => BoothKnows(r)')
  BY DEF BoothRow, BoothKnows
<1>4. \A q, u : BallotsIn(ballot', q, u) \subseteq BallotsIn(ballot, q, u)
  BY DEF BallotsIn
<1>5. ballot' \subseteq (DOMAIN poll') \X Attendees \X Choices
  <2>1. ((DOMAIN poll) \X Attendees \X Choices) \subseteq ((DOMAIN poll') \X Attendees \X Choices)
    OBVIOUS
  <2> QED
    BY <2>1 DEF BoothsInv, PollsTypeOK
<1>6. ASSUME NEW e \in Booths
      PROVE  /\ booth'[e] \in BoothRow /\ BoothKnows(booth'[e])
             /\ booth'[e].at = "cast" /\ booth'[e].who \notin boothsMet /\ ~poll[booth'[e].poll].multi
                  => BallotsIn(ballot', booth'[e].poll, booth'[e].who) = {}
  <2>1. CASE booth'[e] = booth[e]
    BY <1>1, <1>4, <2>1 DEF BoothCleared
  <2>2. CASE booth'[e] # booth[e]
    BY <1>1, <2>2 DEF BoothBecomes
  <2> QED
    BY <2>1, <2>2
<1>7. booth' \in [Booths -> BoothRow]
  BY <1>1 DEF BoothBecomes
<1>8. PollsTypeOK'
  <2>1. booth' \in [Booths -> BoothRow']
    BY <1>3, <1>7
  <2> QED
    BY <1>2, <1>5, <2>1 DEF PollsTypeOK, BoothRow, PollRow
<1>9. BoothsFit'
  <2> SUFFICES ASSUME NEW e \in Booths PROVE BoothKnows(booth[e])' /\ BoothCleared(booth[e])'
    BY DEF BoothsFit
  <2>1. BoothKnows(booth[e])'
    BY <1>3, <1>6
  <2>2. booth'[e].at = "cast" => booth'[e].poll \in DOMAIN poll
    BY <1>6 DEF BoothKnows, Votes
  <2>3. BoothCleared(booth[e])'
    BY <1>2, <1>6, <2>2 DEF BoothCleared
  <2> QED
    BY <2>1, <2>3
<1>10. OneBoothEach'
  <2> SUFFICES ASSUME NEW e \in Booths, NEW f \in Booths, e # f, Votes(booth'[e]), Votes(booth'[f]),
                      booth'[e].who = booth'[f].who
               PROVE  booth'[e].who \in boothsMet'
    BY DEF OneBoothEach, Votes
  <2>1. booth'[e].who \in Attendees
    BY <1>6 DEF BoothKnows
  <2> QED
    BY <2>1 DEF BoothBecomes, BoothsInv, OneBoothEach
<1>11. OneBallotEach'
  <2> SUFFICES ASSUME NEW q \in DOMAIN poll', NEW u \in Attendees \ boothsMet', ~poll'[q].multi,
                      NEW v \in BallotsIn(ballot', q, u), NEW w \in BallotsIn(ballot', q, u)
               PROVE  v = w
    BY DEF OneBallotEach
  <2>1. v \in BallotsIn(ballot, q, u) /\ w \in BallotsIn(ballot, q, u)
    BY <1>4
  <2>2. v[1] = q /\ v[1] \in DOMAIN poll
    BY <2>1 DEF BallotsIn, BoothsInv, PollsTypeOK
  <2> QED
    BY <1>2, <2>1, <2>2 DEF BoothsInv, OneBallotEach
<1> QED
  BY <1>8, <1>9, <1>10, <1>11 DEF BoothsInv

\* A request moves on; polls and votes stay, or votes are taken back.
LEMMA BoothGoes ==
  ASSUME BoothsInv, NEW b \in Booths, NEW r \in BoothRow, BoothBecomes(b, r), poll' = poll,
         ballot' \subseteq ballot, BoothKnows(r),
         r.at = "cast" /\ r.who \notin boothsMet /\ ~poll[r.poll].multi => BallotsIn(ballot', r.poll, r.who) = {}
  PROVE  BoothsInv'
BY BoothMoves, BoothFields

LEMMA BoothEnds ==
  ASSUME BoothsInv, NEW b \in Booths, BoothDone(b), poll' = poll, ballot' \subseteq ballot
  PROVE  BoothsInv'
<1>1. NoBooth \in BoothRow /\ BoothKnows(NoBooth) /\ NoBooth.at # "cast"
  BY BoothFields
<1> QED
  BY <1>1, BoothGoes DEF BoothDone

LEMMA BoothGoesTo ==
  ASSUME BoothsInv, NEW b \in Booths, NEW l \in {"read", "clear", "drop", "cast"}, BoothTo(b, l),
         Votes(booth[b]), poll' = poll, ballot' \subseteq ballot,
         l = "cast" /\ booth[b].who \notin boothsMet /\ ~poll[booth[b].poll].multi
           => BallotsIn(ballot', booth[b].poll, booth[b].who) = {}
  PROVE  BoothsInv'
<1>1. booth[b] \in BoothRow /\ BoothKnows(booth[b])
  BY BoothFields
<1>2. PICK r : r = [booth[b] EXCEPT !.at = l]
  OBVIOUS
<1>3. /\ r \in BoothRow /\ r.at = l /\ r.who = booth[b].who /\ r.poll = booth[b].poll
      /\ r.choice = booth[b].choice
  BY <1>1, <1>2 DEF BoothRow
<1>4. BoothKnows(r)
  BY <1>1, <1>3 DEF BoothKnows, Votes
<1>5. BoothBecomes(b, r)
  BY <1>2 DEF BoothTo
<1> HIDE <1>2
<1> QED
  BY <1>3, <1>4, <1>5, BoothGoes

LEMMA BoothCallsKeep == ASSUME BoothsInv, NEW b \in Booths, BoothCall(b) PROVE BoothsInv'
<1>1. CASE FindNightForPoll(b)
  <2> PICK n \in Active : BoothBecomes(b, [NoBooth EXCEPT !.at = "open", !.night = n])
    BY <1>1 DEF FindNightForPoll
  <2>1. n \in Nights
    BY DEF Active
  <2>2. PICK r : r = [NoBooth EXCEPT !.at = "open", !.night = n]
    OBVIOUS
  <2>3. r \in BoothRow /\ r.at = "open" /\ r.night = n
    BY <2>1, <2>2 DEF BoothRow, NoBooth
  <2>4. BoothKnows(r)
    BY <2>1, <2>3 DEF BoothKnows, Votes
  <2> QED
    BY <1>1, <2>2, <2>3, <2>4, BoothGoes DEF FindNightForPoll
<1>2. CASE FindPoll(b)
  <2> PICK q \in DOMAIN poll, u \in Attendees, o \in Choices :
        BoothBecomes(b, [NoBooth EXCEPT !.at = "present", !.who = u, !.poll = q, !.choice = o])
    BY <1>2 DEF FindPoll
  <2>2. PICK r : r = [NoBooth EXCEPT !.at = "present", !.who = u, !.poll = q, !.choice = o]
    OBVIOUS
  <2>3. r \in BoothRow /\ r.at = "present" /\ r.who = u /\ r.poll = q /\ r.choice = o
    BY <2>2 DEF BoothRow, NoBooth
  <2>4. BoothKnows(r)
    BY <2>3 DEF BoothKnows, Votes
  <2> QED
    BY <1>2, <2>2, <2>3, <2>4, BoothGoes DEF FindPoll
<1> QED
  BY <1>1, <1>2 DEF BoothCall

LEMMA PollIsMade == ASSUME BoothsInv, NEW b \in Booths, CreatePoll(b) PROVE BoothsInv'
<1>1. /\ booth[b].at = "open" /\ BoothKnows(booth[b]) /\ BoothDone(b) /\ ballot' = ballot
      /\ poll \in Seq(PollRow)
  BY BoothFields DEF CreatePoll, BoothAt
<1>2. PICK n : n = booth[b].night
  OBVIOUS
<1>3. n \in Nights
  BY <1>1, <1>2 DEF BoothKnows
<1>4. CASE poll' = poll
  BY <1>1, <1>4, BoothEnds
<1>5. CASE poll' # poll
  <2>1. PICK many \in BOOLEAN : poll' = Append(poll, [night |-> n, status |-> "OPEN", multi |-> many,
                                                      after |-> "polls" \in night[n].swept])
    BY <1>2, <1>5 DEF CreatePoll
  <2>2. PICK x : x = [night |-> n, status |-> "OPEN", multi |-> many, after |-> "polls" \in night[n].swept]
    OBVIOUS
  <2>3. x \in PollRow /\ poll' = Append(poll, x)
    BY <1>3, <2>1, <2>2 DEF PollRow
  <2>4. /\ poll' \in Seq(PollRow) /\ DOMAIN poll \subseteq DOMAIN poll'
        /\ \A q \in DOMAIN poll : poll'[q] = poll[q]
    BY <1>1, <2>3, AppendProperties
  <2>5. NoBooth \in BoothRow /\ BoothKnows(NoBooth) /\ NoBooth.at # "cast" /\ BoothBecomes(b, NoBooth)
    BY <1>1, BoothFields DEF BoothDone
  <2>6. \E c \in Booths, r \in BoothRow :
              /\ BoothBecomes(c, r) /\ BoothKnows(r)
              /\ r.at = "cast" /\ r.who \notin boothsMet /\ ~poll[r.poll].multi
                   => BallotsIn(ballot', r.poll, r.who) = {}
    BY <2>5
  <2> QED
    BY <1>1, <2>4, <2>6, BoothMoves
<1> QED
  BY <1>4, <1>5

\* Polls are closed and deleted, with their votes.
LEMMA PollsChange ==
  ASSUME BoothsInv, DOMAIN poll' = DOMAIN poll, poll' = [q \in DOMAIN poll' |-> poll'[q]],
         \A q \in DOMAIN poll : \/ poll'[q] = poll[q]
                                \/ \E st \in {"CLOSED", "DELETED"} : poll'[q] = [poll[q] EXCEPT !.status = st],
         ballot' \subseteq ballot, UNCHANGED <<booth, boothsMet>>
  PROVE  BoothsInv'
<1>1. ASSUME NEW q \in DOMAIN poll PROVE poll'[q] \in PollRow /\ (poll'[q].multi <=> poll[q].multi)
  <2>1. poll[q] \in PollRow
    BY BoothFields
  <2>2. CASE poll'[q] # poll[q]
    <3> PICK st \in {"CLOSED", "DELETED"} : poll'[q] = [poll[q] EXCEPT !.status = st]
      BY <1>1, <2>2
    <3>1. PICK r : r = [poll[q] EXCEPT !.status = st]
      OBVIOUS
    <3>2. r \in PollRow /\ r.multi = poll[q].multi
      BY <2>1, <3>1 DEF PollRow
    <3> QED
      BY <3>1, <3>2
  <2> QED
    BY <2>1, <2>2
<1>2. poll \in Seq(PollRow)
  BY BoothFields
<1>3. poll' \in Seq(PollRow)
  BY <1>1, <1>2, SeqRemade
<1> QED
  BY <1>1, <1>3, BoothMoves

LEMMA VotingKeeps ==
  ASSUME BoothsInv, NEW b \in Booths,
         LookPresent(b) \/ ReadMine(b) \/ ClearMine(b) \/ DropVote(b)
  PROVE  BoothsInv'
<1>1. /\ Votes(booth[b]) /\ booth[b] \in BoothRow /\ BoothKnows(booth[b]) /\ poll' = poll
      /\ ballot' \subseteq ballot
  BY BoothFields DEF Votes, LookPresent, ReadMine, ClearMine, DropVote, BoothAt
<1>2. CASE LookPresent(b)
  BY <1>1, <1>2, BoothEnds, BoothGoesTo DEF LookPresent
<1>3. CASE ReadMine(b)
  <2>1. PICK has \in BOOLEAN, l \in {"clear", "drop", "cast"} :
          /\ BoothBecomes(b, [booth[b] EXCEPT !.already = has, !.at = l])
          /\ l # "clear" => poll[booth[b].poll].multi
    <3>1. OneChoice(b) \in ballot \/ OneChoice(b) \notin ballot
      OBVIOUS
    <3>2. CASE OneChoice(b) \in ballot
      <4>1. (OneChoice(b) \in ballot) = TRUE
        BY <3>2
      <4>2. CASE ~poll[booth[b].poll].multi
        <5>1. BoothBecomes(b, [booth[b] EXCEPT !.already = TRUE, !.at = "clear"])
          BY <1>3, <4>1, <4>2 DEF ReadMine
        <5> QED
          BY <5>1
      <4>3. CASE poll[booth[b].poll].multi
        <5>1. BoothBecomes(b, [booth[b] EXCEPT !.already = TRUE, !.at = "drop"])
          BY <1>3, <4>1, <4>3 DEF ReadMine
        <5> QED
          BY <4>3, <5>1
      <4> QED
        BY <4>2, <4>3
    <3>3. CASE OneChoice(b) \notin ballot
      <4>1. (OneChoice(b) \in ballot) = FALSE
        BY <3>3
      <4>2. CASE ~poll[booth[b].poll].multi
        <5>1. BoothBecomes(b, [booth[b] EXCEPT !.already = FALSE, !.at = "clear"])
          BY <1>3, <4>1, <4>2 DEF ReadMine
        <5> QED
          BY <5>1
      <4>3. CASE poll[booth[b].poll].multi
        <5>1. BoothBecomes(b, [booth[b] EXCEPT !.already = FALSE, !.at = "cast"])
          BY <1>3, <4>1, <4>3 DEF ReadMine
        <5> QED
          BY <4>3, <5>1
      <4> QED
        BY <4>2, <4>3
    <3> QED
      BY <3>2, <3>3
  <2>2. PICK r : r = [booth[b] EXCEPT !.already = has, !.at = l]
    OBVIOUS
  <2>3. /\ r \in BoothRow /\ r.at = l /\ r.who = booth[b].who /\ r.poll = booth[b].poll
        /\ r.choice = booth[b].choice
    BY <1>1, <2>2 DEF BoothRow
  <2>4. BoothKnows(r)
    BY <1>1, <2>3 DEF BoothKnows, Votes
  <2> QED
    BY <1>1, <2>1, <2>2, <2>3, <2>4, BoothGoes
<1>4. CASE ClearMine(b)
  <2>1. BallotsIn(ballot', booth[b].poll, booth[b].who) = {}
    BY <1>4 DEF ClearMine, Mine, BallotsIn
  <2> QED
    BY <1>1, <1>4, <2>1, BoothEnds, BoothGoesTo DEF ClearMine, AfterClear
<1>5. CASE DropVote(b)
  BY <1>1, <1>5, BoothEnds DEF DropVote
<1> QED
  BY <1>2, <1>3, <1>4, <1>5

LEMMA CastKeeps == ASSUME BoothsInv, NEW b \in Booths, CastVote(b) PROVE BoothsInv'
<1>1. /\ booth[b].at = "cast" /\ Votes(booth[b]) /\ BoothKnows(booth[b]) /\ BoothCleared(booth[b])
      /\ BoothDone(b) /\ poll' = poll
  BY BoothFields DEF CastVote, BoothAt, Votes
<1>2. PICK q, u, o : q = booth[b].poll /\ u = booth[b].who /\ o = booth[b].choice
  OBVIOUS
<1>3. q \in DOMAIN poll /\ u \in Attendees /\ o \in Choices
  BY <1>1, <1>2 DEF BoothKnows
<1>4. CASE ballot' = ballot
  BY <1>1, <1>4, BoothEnds
<1>5. CASE ballot' # ballot
  <2>1. ballot' = ballot \cup {<<q, u, o>>}
    BY <1>2, <1>5 DEF CastVote, OneChoice
  <2>2. u \notin boothsMet /\ ~poll[q].multi => BallotsIn(ballot, q, u) = {}
    BY <1>1, <1>2 DEF BoothCleared
  <2>3. \A p, w : BallotsIn(ballot', p, w) \subseteq BallotsIn(ballot, p, w) \cup {<<q, u, o>>}
    BY <2>1 DEF BallotsIn
  <2>4. \A p, w : <<p, w>> # <<q, u>> => BallotsIn(ballot', p, w) = BallotsIn(ballot, p, w)
    BY <2>1 DEF BallotsIn
  <2>5. boothsMet \subseteq boothsMet' /\ boothsMet' \subseteq Attendees
    BY <1>1 DEF BoothDone, BoothBecomes, BoothsInv, PollsTypeOK
  <2>6. booth \in [Booths -> BoothRow] /\ NoBooth \in BoothRow /\ ~Votes(NoBooth) /\ BoothKnows(NoBooth)
        /\ NoBooth.at = "idle"
    BY BoothFields
  <2>7. \A e \in Booths : booth'[e] = IF e = b THEN NoBooth ELSE booth[e]
    BY <1>1, <2>6 DEF BoothDone, BoothBecomes
  <2>8. booth' \in [Booths -> BoothRow]
    BY <1>1, <2>6 DEF BoothDone, BoothBecomes
  <2>9. ballot' \subseteq (DOMAIN poll) \X Attendees \X Choices
    BY <1>3, <2>1 DEF BoothsInv, PollsTypeOK
  <2>10. PollsTypeOK'
    BY <1>1, <2>5, <2>8, <2>9 DEF BoothsInv, PollsTypeOK, BoothRow
  <2>11. \A e \in Booths : e # b /\ Votes(booth[e]) /\ booth[e].who = u => u \in boothsMet
    BY <1>1, <1>2 DEF BoothsInv, OneBoothEach
  <2>12. BoothsFit'
    <3> SUFFICES ASSUME NEW e \in Booths PROVE BoothKnows(booth[e])' /\ BoothCleared(booth[e])'
      BY DEF BoothsFit
    <3>1. CASE e = b
      BY <1>1, <2>6, <2>7, <3>1 DEF BoothKnows, BoothCleared, Votes
    <3>2. CASE e # b
      <4>1. BoothKnows(booth[e]) /\ BoothCleared(booth[e]) /\ booth'[e] = booth[e]
        BY <2>7, <3>2, BoothFields
      <4>2. booth[e].at = "cast" /\ booth[e].who \notin boothsMet' => <<booth[e].poll, booth[e].who>> # <<q, u>>
        BY <2>5, <2>11, <3>2 DEF Votes
      <4>3. BoothCleared(booth[e])'
        BY <1>1, <2>4, <2>5, <4>1, <4>2 DEF BoothCleared
      <4> QED
        BY <1>1, <4>1, <4>3 DEF BoothKnows
    <3> QED
      BY <3>1, <3>2
  <2>13. OneBoothEach'
    BY <2>5, <2>6, <2>7 DEF BoothsInv, OneBoothEach, Votes
  <2>14. OneBallotEach'
    <3> SUFFICES ASSUME NEW p \in DOMAIN poll, NEW w \in Attendees \ boothsMet', ~poll[p].multi,
                        NEW v1 \in BallotsIn(ballot', p, w), NEW v2 \in BallotsIn(ballot', p, w)
                 PROVE  v1 = v2
      BY <1>1 DEF OneBallotEach
    <3>1. CASE p = q /\ w = u
      BY <2>2, <2>3, <2>5, <3>1
    <3>2. CASE ~(p = q /\ w = u)
      <4>1. v1 \in BallotsIn(ballot, p, w) /\ v2 \in BallotsIn(ballot, p, w)
        BY <2>4, <3>2
      <4> QED
        BY <2>5, <4>1 DEF BoothsInv, OneBallotEach
    <3> QED
      BY <3>1, <3>2
  <2> QED
    BY <2>10, <2>12, <2>13, <2>14 DEF BoothsInv
<1> QED
  BY <1>4, <1>5

-----------------------------------------------------------------------------
(* What an end leaves behind it                                            *)

\* A row that is open where an end has been through was written afterwards.
ClosedOrAfter(n) ==
  /\ "checkIns" \in night[n].swept =>
       \A i \in DOMAIN checkIn : checkIn[i].night = n /\ checkIn[i].open => checkIn[i].after
  /\ "polls" \in night[n].swept =>
       \A q \in DOMAIN poll : poll[q].night = n /\ poll[q].status = "OPEN" => poll[q].after

SweptRows == \A n \in Nights : ClosedOrAfter(n)

NightInv == SessionsInv /\ DoorsInv /\ BoothsInv /\ SweptRows

LEMMA SweptStay ==
  ASSUME SweptRows, checkIn' = checkIn, poll' = poll,
         \A n \in Nights : night'[n].swept \subseteq night[n].swept \cup {"closed"}
  PROVE  SweptRows'
BY DEF SweptRows, ClosedOrAfter

\* Only the two passes of an end mark a session as swept.
LEMMA NothingSwept ==
  ASSUME SessionsInv, NEW c \in Callers,
         \/ HourPasses \/ CallDesk(c) \/ CloseFacility \/ FindSlot(c) \/ StartStep(c) \/ EndStep(c)
         \/ NightCallFails(c)
  PROVE  \A n \in Nights : night'[n].swept \subseteq night[n].swept \cup {"closed"}
<1>1. night \in [Nights -> NightRow]
  BY DEF SessionsInv, SessionsTypeOK, NightRow
<1>2. CASE night' = night
  BY <1>2
<1>3. CASE CloseFacility
  BY <1>1, <1>3 DEF CloseFacility, NightRow
<1>4. CASE CreateSession(c)
  <2> PICK n \in Unused :
        night' = [night EXCEPT ![n] = [NoNight EXCEPT !.status = "ACTIVE", !.since = hour,
             !.auto = c \in Ticks, !.blind = caller[c].blind,
             !.late = caller[c].late \/ \E d \in Ticks : CallerAt(d, "key")]]
    BY <1>4 DEF CreateSession
  <2>1. PICK w : w = [NoNight EXCEPT !.status = "ACTIVE", !.since = hour,
             !.auto = c \in Ticks, !.blind = caller[c].blind,
             !.late = caller[c].late \/ \E d \in Ticks : CallerAt(d, "key")]
    OBVIOUS
  <2>2. w.swept = {}
    BY <2>1 DEF NoNight
  <2>3. \A m \in Nights : night'[m] = IF m = n THEN w ELSE night[m]
    BY <1>1, <2>1
  <2> QED
    BY <2>2, <2>3
<1>5. CASE WriteKey(c)
  BY <1>1, <1>5 DEF WriteKey, NightRow
<1>6. CASE FinishEnd(c)
  BY <1>1, <1>6 DEF FinishEnd, NightRow
<1>7. CASE NightCallFails(c)
  BY <1>1, <1>7 DEF NightCallFails, NightRow
<1> QED
  BY <1>2, <1>3, <1>4, <1>5, <1>6, <1>7
  DEF HourPasses, CallDesk, FindSlot, StartStep, EndStep, LookActive, ListStale, LookForEnd

\* At the doors a row is written with what it finds of its session.
LEMMA DoorRowsSwept ==
  ASSUME DoorsInv, SweptRows, NEW d \in Doors, DoorCall(d) \/ DoorStep(d) \/ DoorFails(d), poll' = poll
  PROVE  SweptRows'
<1>1. night' = night
  BY DEF DoorCall, DoorStep, DoorFails, FindPlace, FindNight, FindToClose, FindToRemove, AskFor, sessionVars,
         LookAnywhere, CreateCheckIn, LookForCheckIn, LookForFacility, UpgradeCheckIn, CloseRow
<1>2. checkIn \in Seq(CheckInRow) /\ \A i \in DOMAIN checkIn : checkIn[i] \in CheckInRow
  BY CheckInsAreRows
<1>3. CASE checkIn' = checkIn
  BY <1>1, <1>3, SweptStay
<1>4. ASSUME \A i \in DOMAIN checkIn' :
               \/ /\ i \in DOMAIN checkIn
                  /\ checkIn'[i].night = checkIn[i].night /\ (checkIn'[i].open => checkIn[i].open)
                  /\ (checkIn[i].after => checkIn'[i].after)
               \/ checkIn'[i].night # 0 /\ "checkIns" \in night[checkIn'[i].night].swept => checkIn'[i].after
      PROVE  SweptRows'
  <2> SUFFICES ASSUME NEW n \in Nights, "checkIns" \in night[n].swept, NEW i \in DOMAIN checkIn',
                      checkIn'[i].night = n, checkIn'[i].open
               PROVE  checkIn'[i].after
    BY <1>1 DEF SweptRows, ClosedOrAfter
  <2>1. n # 0
    BY DEF Nights
  <2> QED
    BY <1>4, <2>1 DEF SweptRows, ClosedOrAfter
<1>5. CASE CreateCheckIn(d) /\ checkIn' # checkIn
  <2>1. PICK x : x = [who |-> door[d].who, night |-> door[d].night, open |-> TRUE,
                      after |-> door[d].night # 0 /\ "checkIns" \in night[door[d].night].swept]
    OBVIOUS
  <2>2. checkIn' = Append(checkIn, x) /\ x.night = door[d].night
        /\ (x.after <=> door[d].night # 0 /\ "checkIns" \in night[door[d].night].swept)
    BY <1>5, <2>1 DEF CreateCheckIn
  <2>3. /\ \A i \in DOMAIN checkIn' : i \in DOMAIN checkIn \/ checkIn'[i] = x
        /\ \A i \in DOMAIN checkIn : checkIn'[i] = checkIn[i]
    <3>1. Append(checkIn, x) = checkIn' /\ Len(checkIn) \in Nat /\ DOMAIN checkIn = 1..Len(checkIn)
      BY <1>2, <2>2
    <3>2. DOMAIN checkIn' = 1..(Len(checkIn) + 1)
      BY <1>2, <3>1
    <3> QED
      BY <1>2, <3>1, <3>2
  <2> QED
    BY <1>4, <2>2, <2>3
<1>6. CASE UpgradeCheckIn(d) /\ checkIn' # checkIn
  <2>1. PICK k, n : k = door[d].row /\ n = door[d].night
    OBVIOUS
  <2>2. k \in DOMAIN checkIn
    BY <1>6, <2>1, DoorFields DEF UpgradeCheckIn, DoorAt, DoorFits
  <2>3. PICK x : x = [checkIn[k] EXCEPT !.night = n, !.after = "checkIns" \in night[n].swept]
    OBVIOUS
  <2>4. checkIn' = [checkIn EXCEPT ![k] = x]
    BY <1>6, <2>1, <2>3 DEF UpgradeCheckIn
  <2>5. x.night = n /\ (x.after <=> "checkIns" \in night[n].swept)
    BY <1>2, <2>2, <2>3 DEF CheckInRow
  <2>6. \A i \in DOMAIN checkIn' : i \in DOMAIN checkIn /\ checkIn'[i] = IF i = k THEN x ELSE checkIn[i]
    BY <2>2, <2>4
  <2> QED
    BY <1>4, <2>5, <2>6
<1>7. CASE CloseRow(d)
  <2>1. PICK k : k = door[d].row
    OBVIOUS
  <2>2. k \in DOMAIN checkIn
    BY <1>7, <2>1, DoorFields DEF CloseRow, DoorAt, DoorFits
  <2>3. PICK x : x = [checkIn[k] EXCEPT !.open = FALSE]
    OBVIOUS
  <2>4. checkIn' = [checkIn EXCEPT ![k] = x]
    BY <1>7, <2>1, <2>3 DEF CloseRow
  <2>5. x.night = checkIn[k].night /\ x.after = checkIn[k].after /\ ~x.open
    BY <1>2, <2>2, <2>3 DEF CheckInRow
  <2>6. \A i \in DOMAIN checkIn' : i \in DOMAIN checkIn /\ checkIn'[i] = IF i = k THEN x ELSE checkIn[i]
    BY <2>2, <2>4
  <2> QED
    BY <1>4, <2>5, <2>6
<1> QED
  BY <1>3, <1>5, <1>6, <1>7
  DEF DoorCall, DoorStep, DoorFails, FindPlace, FindNight, FindToClose, FindToRemove, checkInVars,
      LookAnywhere, LookForCheckIn, LookForFacility

LEMMA ClosedAre ==
  ASSUME DoorsInv, NEW n \in Nights, CloseCheckInsOf(n)
  PROVE  /\ DOMAIN checkIn' = DOMAIN checkIn
         /\ \A i \in DOMAIN checkIn :
              /\ checkIn'[i].night = checkIn[i].night /\ (checkIn'[i].open => checkIn[i].open)
              /\ checkIn'[i].after = checkIn[i].after
              /\ checkIn[i].night = n => ~checkIn'[i].open
<1>1. \A i \in DOMAIN checkIn : checkIn[i] \in CheckInRow
  BY CheckInsAreRows
<1> QED
  BY <1>1 DEF CloseCheckInsOf, CheckInRow

LEMMA CheckInsPass ==
  ASSUME SessionsInv, DoorsInv, SweptRows, NEW c \in Callers, CloseCheckIns(c), poll' = poll
  PROVE  DoorsInv' /\ SweptRows'
<1>1. PICK n : n = caller[c].about
  OBVIOUS
<1>2. /\ n \in Nights /\ CloseCheckInsOf(n) /\ UNCHANGED <<door, doorsMet>>
      /\ night' = [night EXCEPT ![n].swept = @ \cup {"checkIns"}]
  BY <1>1 DEF CloseCheckIns, Sweep, CallerAt, SessionsInv, CallersFit, CallerFits
<1>3. night \in [Nights -> NightRow]
  BY DEF SessionsInv, SessionsTypeOK, NightRow
<1>4. \A m \in Nights : night'[m].swept = IF m = n THEN night[m].swept \cup {"checkIns"} ELSE night[m].swept
  BY <1>2, <1>3 DEF NightRow
<1>5. SweptRows'
  BY <1>2, <1>4, ClosedAre DEF SweptRows, ClosedOrAfter
<1> QED
  BY <1>2, <1>5, ClosingKeeps

LEMMA PollsPass ==
  ASSUME SessionsInv, BoothsInv, SweptRows, NEW c \in Callers, ClosePolls(c)
  PROVE  BoothsInv' /\ SweptRows'
<1>1. PICK n : n = caller[c].about
  OBVIOUS
<1>2. /\ n \in Nights /\ night' = [night EXCEPT ![n].swept = @ \cup {"polls"}]
      /\ poll' = [q \in DOMAIN poll |-> IF poll[q].night = n /\ poll[q].status = "OPEN"
                                        THEN [poll[q] EXCEPT !.status = "CLOSED"] ELSE poll[q]]
      /\ checkIn' = checkIn /\ UNCHANGED <<ballot, booth, boothsMet>>
  BY <1>1 DEF ClosePolls, Sweep, CallerAt, SessionsInv, CallersFit, CallerFits, checkInVars
<1>3. night \in [Nights -> NightRow] /\ \A q \in DOMAIN poll : poll[q] \in PollRow
  BY BoothFields DEF SessionsInv, SessionsTypeOK, NightRow
<1>4. \A m \in Nights : night'[m].swept = IF m = n THEN night[m].swept \cup {"polls"} ELSE night[m].swept
  BY <1>2, <1>3 DEF NightRow
<1>5. \A q \in DOMAIN poll :
        /\ \/ poll'[q] = poll[q]
           \/ poll'[q] = [poll[q] EXCEPT !.status = "CLOSED"]
        /\ poll[q].night = n => poll'[q].status # "OPEN"
        /\ poll'[q].night = poll[q].night /\ poll'[q].after = poll[q].after
        /\ poll'[q].status = "OPEN" => poll[q].status = "OPEN"
  BY <1>2, <1>3 DEF PollRow
<1>6. DOMAIN poll' = DOMAIN poll /\ poll' = [q \in DOMAIN poll' |-> poll'[q]]
  BY <1>2
<1>7. SweptRows'
  BY <1>2, <1>4, <1>5, <1>6 DEF SweptRows, ClosedOrAfter
<1>8. BoothsInv'
  BY <1>2, <1>5, <1>6, PollsChange
<1> QED
  BY <1>7, <1>8

\* A deletion takes the check-ins, the polls and the votes of its session along.
LEMMA DeletionTakesAll ==
  ASSUME NightInv, NEW n \in Nights, DeleteSession(n) PROVE NightInv'
<1>1. SessionsInv'
  BY DeletionKeeps DEF NightInv, DeleteSession
<1>2. DoorsInv'
  BY ClosingKeeps DEF NightInv, DeleteSession
<1>3. night \in [Nights -> NightRow] /\ \A q \in DOMAIN poll : poll[q] \in PollRow
  BY BoothFields DEF NightInv, SessionsInv, SessionsTypeOK, NightRow
<1>4. \A m \in Nights : night'[m].swept = night[m].swept
  BY <1>3 DEF DeleteSession, NightRow
<1>5. \A q \in DOMAIN poll :
        /\ \/ poll'[q] = poll[q]
           \/ poll'[q] = [poll[q] EXCEPT !.status = "DELETED"]
        /\ poll'[q].night = poll[q].night /\ poll'[q].after = poll[q].after
        /\ poll'[q].status = "OPEN" => poll[q].status = "OPEN"
  BY <1>3 DEF DeleteSession, PollRow
<1>6. /\ DOMAIN poll' = DOMAIN poll /\ poll' = [q \in DOMAIN poll' |-> poll'[q]]
      /\ ballot' \subseteq ballot /\ UNCHANGED <<booth, boothsMet>>
  BY DEF DeleteSession
<1>7. BoothsInv'
  BY <1>5, <1>6, PollsChange DEF NightInv
<1>8. CloseCheckInsOf(n)
  BY DEF DeleteSession
<1>9. SweptRows'
  BY <1>4, <1>5, <1>6, <1>8, ClosedAre DEF NightInv, SweptRows, ClosedOrAfter
<1> QED
  BY <1>1, <1>2, <1>7, <1>9 DEF NightInv

LEMMA PollWork ==
  ASSUME NightInv, NEW q \in DOMAIN poll, ClosePoll(q) \/ DeletePoll(q) PROVE NightInv'
<1>1. /\ Ask("booth") /\ UNCHANGED <<hour, night, caller, nightFaults, checkInVars, booth, boothsMet>>
      /\ ballot' \subseteq ballot
  BY DEF ClosePoll, DeletePoll, AskFor
<1>2. PICK st \in {"CLOSED", "DELETED"} : poll' = [poll EXCEPT ![q].status = st]
  BY DEF ClosePoll, DeletePoll
<1>3. left' \in LeftRow
  BY <1>1, AskTyped DEF NightInv, SessionsInv
<1>4. SessionsInv'
  BY <1>1, <1>3, RowsStay DEF NightInv, SessionsInv, SessionsTypeOK
<1>5. DoorsInv'
  BY <1>1, DoorsStay DEF NightInv
<1>6. \A p \in DOMAIN poll : poll[p] \in PollRow
  BY BoothFields DEF NightInv
<1>7. \A p \in DOMAIN poll :
        /\ \/ poll'[p] = poll[p]
           \/ poll'[p] = [poll[p] EXCEPT !.status = st]
        /\ poll'[p].night = poll[p].night /\ poll'[p].after = poll[p].after
        /\ poll'[p].status = "OPEN" => poll[p].status = "OPEN"
  BY <1>2, <1>6 DEF PollRow
<1>8. DOMAIN poll' = DOMAIN poll /\ poll' = [p \in DOMAIN poll' |-> poll'[p]]
  BY <1>2
<1>9. BoothsInv'
  BY <1>1, <1>7, <1>8, PollsChange DEF NightInv
<1>10. SweptRows'
  BY <1>1, <1>7, <1>8 DEF NightInv, SweptRows, ClosedOrAfter, checkInVars
<1> QED
  BY <1>4, <1>5, <1>9, <1>10 DEF NightInv

\* A poll is written with what it finds of its session.
LEMMA VoterKeeps ==
  ASSUME NightInv, NEW b \in Booths, BoothCall(b) \/ BoothStep(b) \/ BoothFails(b) PROVE NightInv'
<1>1. UNCHANGED <<hour, night, caller, checkInVars>>
  BY DEF BoothCall, BoothStep, BoothFails, FindNightForPoll, FindPoll, AskFor, sessionVars, CreatePoll,
         LookPresent, ReadMine, ClearMine, DropVote, CastVote
<1>2. left' \in LeftRow
  <2>1. CASE BoothCall(b)
    BY <2>1, AskTyped DEF NightInv, SessionsInv, BoothCall, FindNightForPoll, FindPoll, AskFor
  <2>2. CASE ~BoothCall(b)
    <3>1. left' = left
      BY <2>2 DEF BoothStep, BoothFails, sessionVars, CreatePoll, LookPresent, ReadMine, ClearMine,
                  DropVote, CastVote
    <3> QED
      BY <3>1 DEF NightInv, SessionsInv, SessionsTypeOK, LeftRow
  <2> QED
    BY <2>1, <2>2
<1>3. nightFaults' \in 0..MaxNightFaults
  <2>1. nightFaults' = nightFaults \/ (nightFaults < MaxNightFaults /\ nightFaults' = nightFaults + 1)
    BY DEF BoothCall, BoothStep, BoothFails, FindNightForPoll, FindPoll, AskFor, sessionVars, CreatePoll,
           LookPresent, ReadMine, ClearMine, DropVote, CastVote
  <2> QED
    BY <2>1, SessionsAssumption DEF NightInv, SessionsInv, SessionsTypeOK
<1>4. SessionsInv'
  BY <1>1, <1>2, <1>3, RowsStay DEF NightInv, SessionsInv, SessionsTypeOK
<1>5. DoorsInv'
  BY <1>1, DoorsStay DEF NightInv
<1>6. BoothsInv'
  <2>1. CASE BoothFails(b)
    BY <2>1, BoothEnds DEF NightInv, BoothFails
  <2> QED
    BY <2>1, BoothCallsKeep, PollIsMade, VotingKeeps, CastKeeps DEF NightInv, BoothStep
<1>7. SweptRows'
  <2>1. CASE poll' = poll
    BY <1>1, <2>1 DEF NightInv, SweptRows, ClosedOrAfter, checkInVars
  <2>2. CASE poll' # poll
    <3>1. CreatePoll(b)
      BY <2>2 DEF BoothCall, BoothStep, BoothFails, FindNightForPoll, FindPoll, LookPresent, ReadMine,
                  ClearMine, DropVote, CastVote
    <3>0. PICK n : n = booth[b].night
      OBVIOUS
    <3>2. PICK many \in BOOLEAN :
            poll' = Append(poll, [night |-> n, status |-> "OPEN", multi |-> many,
                                  after |-> "polls" \in night[n].swept])
      BY <2>2, <3>0, <3>1 DEF CreatePoll
    <3>3. PICK x : x = [night |-> n, status |-> "OPEN", multi |-> many, after |-> "polls" \in night[n].swept]
      OBVIOUS
    <3>4. x.night = n /\ (x.after <=> "polls" \in night[n].swept) /\ poll' = Append(poll, x)
      BY <3>2, <3>3
    <3>5. poll \in Seq(PollRow)
      BY BoothFields DEF NightInv
    <3>6. /\ \A q \in DOMAIN poll' : q \in DOMAIN poll \/ poll'[q] = x
          /\ \A q \in DOMAIN poll : poll'[q] = poll[q]
      <4>1. Len(poll) \in Nat /\ DOMAIN poll = 1..Len(poll)
        BY <3>5
      <4>2. DOMAIN poll' = 1..(Len(poll) + 1)
        BY <3>4, <3>5
      <4> QED
        BY <3>4, <3>5, <4>1, <4>2
    <3> QED
      BY <1>1, <3>4, <3>6 DEF NightInv, SweptRows, ClosedOrAfter, checkInVars
  <2> QED
    BY <2>1, <2>2
<1> QED
  BY <1>4, <1>5, <1>6, <1>7 DEF NightInv

LEMMA GuestKeeps ==
  ASSUME NightInv, NEW d \in Doors, DoorCall(d) \/ DoorStep(d) \/ DoorFails(d), UNCHANGED pollVars
  PROVE  NightInv'
<1>1. UNCHANGED <<hour, night, caller>>
  BY DEF DoorCall, DoorStep, DoorFails, FindPlace, FindNight, FindToClose, FindToRemove, AskFor, sessionVars,
         LookAnywhere, CreateCheckIn, LookForCheckIn, LookForFacility, UpgradeCheckIn, CloseRow
<1>2. left' \in LeftRow
  <2>1. CASE DoorCall(d)
    BY <2>1, AskTyped DEF NightInv, SessionsInv, DoorCall, FindPlace, FindNight, FindToClose, FindToRemove, AskFor
  <2>2. CASE ~DoorCall(d)
    <3>1. left' = left
      BY <2>2 DEF DoorStep, DoorFails, sessionVars, LookAnywhere, CreateCheckIn, LookForCheckIn,
                  LookForFacility, UpgradeCheckIn, CloseRow
    <3> QED
      BY <3>1 DEF NightInv, SessionsInv, SessionsTypeOK, LeftRow
  <2> QED
    BY <2>1, <2>2
<1>3. nightFaults' \in 0..MaxNightFaults
  <2>1. nightFaults' = nightFaults \/ (nightFaults < MaxNightFaults /\ nightFaults' = nightFaults + 1)
    BY DEF DoorCall, DoorStep, DoorFails, FindPlace, FindNight, FindToClose, FindToRemove, AskFor,
           sessionVars, LookAnywhere, CreateCheckIn, LookForCheckIn, LookForFacility, UpgradeCheckIn, CloseRow
  <2> QED
    BY <2>1, SessionsAssumption DEF NightInv, SessionsInv, SessionsTypeOK
<1>4. SessionsInv'
  BY <1>1, <1>2, <1>3, RowsStay DEF NightInv, SessionsInv, SessionsTypeOK
<1>5. DoorsInv'
  <2>1. CASE DoorFails(d)
    BY <2>1, DoorFields, DoorMoves DEF NightInv, DoorFails, DoorDone
  <2> QED
    BY <2>1, CallsKeep, DoorLooksKeep, CheckInKeeps, UpgradeKeeps, CheckOutKeeps DEF NightInv, DoorStep
<1>6. BoothsInv' /\ SweptRows'
  BY BoothsStay, DoorRowsSwept DEF NightInv, pollVars
<1> QED
  BY <1>4, <1>5, <1>6 DEF NightInv

LEMMA CallersKeep ==
  ASSUME NightInv, NEW c \in Callers,
         \/ /\ Others
            /\ \/ HourPasses \/ CallDesk(c) \/ CloseFacility \/ FindSlot(c) \/ StartStep(c) \/ EndStep(c)
               \/ NightCallFails(c)
         \/ CloseCheckIns(c) /\ UNCHANGED pollVars
         \/ ClosePolls(c)
  PROVE  NightInv'
<1>1. CASE CloseCheckIns(c) /\ UNCHANGED pollVars
  BY <1>1, CheckInsPass, SweepKeeps, BoothsStay DEF NightInv, CloseCheckIns, pollVars
<1>2. CASE ClosePolls(c)
  BY <1>2, PollsPass, SweepKeeps, DoorsStay DEF NightInv, ClosePolls
<1>3. CASE /\ Others
           /\ \/ HourPasses \/ CallDesk(c) \/ CloseFacility \/ FindSlot(c) \/ StartStep(c) \/ EndStep(c)
              \/ NightCallFails(c)
  <2>1. SessionsInv'
    BY <1>3, HourKeeps, AskingKeeps, FacilityKeeps, LookingKeeps, CreationKeeps, WritingKeeps, ListingKeeps,
       FinishKeeps, FailingKeeps DEF NightInv, StartStep, EndStep
  <2>2. DoorsInv' /\ BoothsInv'
    BY <1>3, DoorsStay, BoothsStay DEF NightInv, Others
  <2>3. SweptRows'
    BY <1>3, NothingSwept, SweptStay DEF NightInv, Others, checkInVars, pollVars
  <2> QED
    BY <2>1, <2>2, <2>3 DEF NightInv
<1> QED
  BY <1>1, <1>2, <1>3

-----------------------------------------------------------------------------
(* The invariant and what follows from it                                  *)

LEMMA NightStart == ASSUME NightInit PROVE NightInv
<1>1. /\ hour = 1 /\ night = [n \in Nights |-> NoNight] /\ caller = [c \in Callers |-> NoCaller]
      /\ left \in LeftRow /\ nightFaults = 0
  BY SessionsAssumption DEF NightInit, SessionsInit, LeftRow
<1>2. NoNight \in NightRow /\ NoCaller \in CallerRow
  BY SessionsAssumption DEF NoNight, NightRow, NoCaller, CallerRow
<1>3. SessionsTypeOK
  <2>1. night \in [Nights -> NightRow] /\ caller \in [Callers -> CallerRow]
    BY <1>1, <1>2
  <2>2. hour \in 1..MaxHour /\ nightFaults \in 0..MaxNightFaults
    BY <1>1, SessionsAssumption
  <2> QED
    BY <1>1, <2>1, <2>2 DEF SessionsTypeOK, NightRow, CallerRow, LeftRow
<1>4. /\ \A n \in Nights : /\ night[n].status = "NONE" /\ ~night[n].key /\ ~night[n].auto
                           /\ night[n].swept = {}
      /\ \A c \in Callers : caller[c].at = "idle" /\ caller[c].todo = {}
  BY <1>1 DEF NoNight, NoCaller
<1>5. SessionsInv
  BY <1>3, <1>4 DEF SessionsInv, CallersFit, CallerFits, KeysApart, RowsInOrder, UnusedAreBlank, KeyOrTick,
                    EndedAreSwept, OneActiveSession, SlotOpensOnce, Used, Active
<1>6. /\ checkIn = <<>> /\ door = [d \in Doors |-> NoDoor] /\ doorsMet = {}
      /\ poll = <<>> /\ ballot = {} /\ booth = [b \in Booths |-> NoBooth] /\ boothsMet = {}
  BY DEF NightInit, CheckInsInit, PollsInit
<1>7. CheckInsTypeOK /\ PollsTypeOK
  BY <1>6 DEF CheckInsTypeOK, PollsTypeOK, NoDoor, NoBooth
<1>8. /\ \A d \in Doors : door[d].at = "idle"
      /\ \A b \in Booths : booth[b].at = "idle"
  BY <1>6 DEF NoDoor, NoBooth
<1>9. DoorsInv
  BY <1>6, <1>7, <1>8 DEF DoorsInv, DoorsFit, DoorFits, OneDoorEach, OneRowEach, Open
<1>10. BoothsInv
  BY <1>6, <1>7, <1>8 DEF BoothsInv, BoothsFit, BoothKnows, BoothCleared, Votes, OneBoothEach, OneBallotEach
<1>11. SweptRows
  BY <1>4 DEF SweptRows, ClosedOrAfter
<1> QED
  BY <1>5, <1>9, <1>10, <1>11 DEF NightInv

LEMMA NightSteps == NightInv /\ [NightNext]_nightVars => NightInv'
<1> SUFFICES ASSUME NightInv, [NightNext]_nightVars PROVE NightInv'
  OBVIOUS
<1>1. CASE UNCHANGED nightVars
  <2>1. /\ UNCHANGED <<hour, night, caller, left, nightFaults>> /\ UNCHANGED checkInVars
        /\ UNCHANGED pollVars
    BY <1>1 DEF nightVars, sessionVars
  <2>2. SessionsInv'
    BY <2>1, RowsStay DEF NightInv, SessionsInv, SessionsTypeOK, LeftRow
  <2>3. SweptRows'
    BY <2>1, SweptStay DEF NightInv, checkInVars, pollVars
  <2> QED
    BY <2>1, <2>2, <2>3, DoorsStay, BoothsStay DEF NightInv
<1>2. CASE StaffActs
  <2>1. CASE HourPasses /\ Others
    <3>1. SessionsInv'
      BY <2>1, HourKeeps DEF NightInv
    <3> QED
      BY <2>1, <3>1, DoorsStay, BoothsStay, SweptStay DEF NightInv, HourPasses, Others, checkInVars, pollVars
  <2>2. CASE CloseFacility /\ Others
    <3>1. SessionsInv'
      BY <2>2, FacilityKeeps DEF NightInv
    <3>2. \A n \in Nights : night'[n].swept \subseteq night[n].swept \cup {"closed"}
      <4>1. night \in [Nights -> NightRow]
        BY DEF NightInv, SessionsInv, SessionsTypeOK, NightRow
      <4> QED
        BY <2>2, <4>1 DEF CloseFacility, NightRow
    <3> QED
      BY <2>2, <3>1, <3>2, DoorsStay, BoothsStay, SweptStay DEF NightInv, Others, checkInVars, pollVars
  <2>3. CASE \E c \in Desks : MayStart /\ CallDesk(c) /\ Others
    BY <2>3, CallersKeep DEF Callers
  <2> QED
    BY <1>2, <2>1, <2>2, <2>3, DeletionTakesAll, PollWork DEF StaffActs
<1>3. CASE SomethingFails
  BY <1>3, CallersKeep, GuestKeeps, VoterKeeps DEF SomethingFails
<1>4. CASE \E c \in Callers : CallerStep(c)
  BY <1>4, CallersKeep DEF CallerStep
<1>5. CASE \E d \in Doors : GuestStep(d)
  BY <1>5, GuestKeeps DEF GuestStep
<1>6. CASE \E b \in Booths : VoterStep(b)
  BY <1>6, VoterKeeps DEF VoterStep
<1> QED
  BY <1>1, <1>2, <1>3, <1>4, <1>5, <1>6 DEF NightNext

LEMMA NightInvariant == NightSpec => []NightInv
<1>1. NightInit => NightInv
  BY NightStart
<1> QED
  BY <1>1, NightSteps, PTL DEF NightSpec

\* Rows and requests of an evening are well formed, on whatever evening.
THEOREM NightTyped == NightSpec => []NightTypeOK
<1>1. NightInv => NightTypeOK
  BY DEF NightInv, SessionsInv, DoorsInv, BoothsInv, NightTypeOK
<1> QED
  BY <1>1, NightInvariant, PTL

\* However ticks and requests overlap and fail: two sessions of the club are active
\* only if the later start had looked before the earlier one's row was there.
THEOREM OneSessionAtATime == NightSpec => []OneActiveSession
<1>1. NightInv => OneActiveSession
  BY DEF NightInv, SessionsInv
<1> QED
  BY <1>1, NightInvariant, PTL

\* With any number of overlapping ticks a slot's session is opened once, but for the
\* causes that SlotOpensOnce names.
THEOREM SlotOnce == NightSpec => []SlotOpensOnce
<1>1. NightInv => SlotOpensOnce
  BY DEF NightInv, SessionsInv
<1> QED
  BY <1>1, NightInvariant, PTL

LEMMA AtMostOne ==
  ASSUME NEW S, \A x, y \in S : x = y PROVE IsFiniteSet(S) /\ Cardinality(S) <= 1
<1>1. CASE S = {}
  BY <1>1, FS_EmptySet
<1>2. CASE S # {}
  <2> PICK x : x \in S
    BY <1>2
  <2>1. S = {x}
    OBVIOUS
  <2>2. IsFiniteSet({x}) /\ Cardinality({x}) = 1
    BY FS_Singleton
  <2>3. IsFiniteSet(S) /\ Cardinality(S) = 1
    BY <2>1, <2>2
  <2> QED
    BY <2>3
<1> QED
  BY <1>1, <1>2

\* Whoever comes in by whichever way, while sessions start, end and are deleted, has
\* one open row in a session and the facility, unless their own requests overlapped.
THEOREM CheckedInOnce == NightSpec => []OneOpenCheckIn
<1>1. NightInv => OneOpenCheckIn
  <2> SUFFICES ASSUME NightInv, NEW u \in Attendees \ doorsMet, NEW n \in Active
               PROVE  Cardinality(Open(u, n) \cup Open(u, 0)) <= 1
    BY DEF OneOpenCheckIn
  <2>1. \A i, j \in Open(u, n) \cup Open(u, 0) : i = j
    BY DEF NightInv, DoorsInv, OneRowEach, Active
  <2> HIDE DEF Open
  <2> QED
    BY <2>1, AtMostOne
<1> QED
  BY <1>1, NightInvariant, PTL

\* A vote that is changed, taken back, or lost half-way by a failure leaves at most
\* one of its user in a poll with one choice, unless their requests overlapped.
THEOREM VotedOnce == NightSpec => []OneVoteEach
<1>1. NightInv => OneVoteEach
  <2> SUFFICES ASSUME NightInv, NEW q \in DOMAIN poll, NEW u \in Attendees \ boothsMet, ~poll[q].multi
               PROVE  Cardinality({v \in ballot : v[1] = q /\ v[2] = u}) <= 1
    BY DEF OneVoteEach
  <2>1. \A v, w \in {x \in ballot : x[1] = q /\ x[2] = u} : v = w
    BY DEF NightInv, BoothsInv, OneBallotEach, BallotsIn
  <2> QED
    BY <2>1, AtMostOne
<1> QED
  BY <1>1, NightInvariant, PTL

\* What is open of a session that has ended was written after the end had been
\* through its table, or the facility was closed, whatever came in between.
THEOREM EndsCloseAll == NightSpec => []NothingLeftOpen
<1>1. NightInv => NothingLeftOpen
  BY DEF NightInv, SessionsInv, EndedAreSwept, SweptRows, ClosedOrAfter, NothingLeftOpen
<1> QED
  BY <1>1, NightInvariant, PTL
=============================================================================
