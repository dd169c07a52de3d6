------------------------------- MODULE Guests -------------------------------
(***************************************************************************)
(* Guests of one day of a club: handleApply (guestApply.router.ts) seats   *)
(* or queues an applicant, a cancellation promotes the oldest in the queue *)
(* (lab.service.ts, user.router.ts).  Each database call is a step.        *)
(***************************************************************************)
EXTENDS Integers, Sequences, FiniteSets

CONSTANTS
  GuestCalls,      \* the requests made
  MaxGuestsPerDay

ASSUME GuestsAssumption == MaxGuestsPerDay \in Nat \ {0} /\ IsFiniteSet(GuestCalls)

VARIABLES
  guest,      \* GuestApplication rows of the day by createdAt; byStaff is no
              \* column: whether an operator toggled the row's fee
  guestCall,  \* the requests: app is the row they are about
  guestMet    \* two requests were under way together, or one failed (no state
              \* of the code)

guestVars == <<guest, guestCall, guestMet>>

NewGuestCall == [at |-> "new", app |-> 0, full |-> FALSE, seated |-> FALSE]

GuestsInit ==
  /\ guest = <<>>
  /\ guestCall = [c \in GuestCalls |-> NewGuestCall]
  /\ guestMet = FALSE

GuestsWith(S) == {i \in DOMAIN guest : guest[i].status \in S}
Taken == Cardinality(GuestsWith({"PENDING", "CONFIRMED"}))

GuestAt(c, l) == guestCall[c].at = l
GuestBecomes(c, r) ==
  /\ guestCall' = [guestCall EXCEPT ![c] = r]
  /\ guestMet' = (guestMet \/ \E d \in GuestCalls \ {c} : guestCall[d].at \notin {"new", "done"})
GuestTo(c, l) == GuestBecomes(c, [guestCall[c] EXCEPT !.at = l])
GuestDone(c) == GuestBecomes(c, [NewGuestCall EXCEPT !.at = "done"])

-----------------------------------------------------------------------------
(* handleApply                                                             *)

\* computeAvailableDates: FULL if no seat remains.
CountGuests(c) ==
  /\ GuestAt(c, "new")
  /\ GuestBecomes(c, [guestCall[c] EXCEPT !.at = "create", !.full = Taken >= MaxGuestsPerDay])
  /\ UNCHANGED guest

CreateGuest(c) ==
  /\ GuestAt(c, "create")
  /\ guest' = Append(guest, [status |-> IF guestCall[c].full THEN "WAITLIST" ELSE "PENDING",
                             byStaff |-> FALSE])
  /\ GuestDone(c)

-----------------------------------------------------------------------------
(* Cancelling: by the guest (user.router.ts), by an operator               *)

LookAtOwn(c) ==
  /\ GuestAt(c, "new")
  /\ \E i \in GuestsWith({"PENDING", "WAITLIST"}) :
       GuestBecomes(c, [guestCall[c] EXCEPT !.at = "cancel", !.app = i,
                                            !.seated = guest[i].status = "PENDING"])
  /\ UNCHANGED guest

\* Mutated CancelOwn: the other spelling.
CancelSpelled(c) ==
  /\ GuestAt(c, "cancel")
  /\ guest' = [guest EXCEPT ![guestCall[c].app].status = "CANCELED"]
  /\ IF guestCall[c].seated THEN GuestTo(c, "count") ELSE GuestDone(c)

\* By id: the row is cancelled whatever it has become, and the queue moves up
\* only if it was seen PENDING.
CancelOwn(c) ==
  /\ GuestAt(c, "cancel")
  /\ guest' = [guest EXCEPT ![guestCall[c].app].status = "CANCELLED"]
  /\ IF guestCall[c].seated THEN GuestTo(c, "count") ELSE GuestDone(c)

StaffCancels(c) ==
  /\ GuestAt(c, "new")
  /\ \E i \in DOMAIN guest :
       /\ guest' = [guest EXCEPT ![i].status = "CANCELLED"]
       /\ GuestBecomes(c, [guestCall[c] EXCEPT !.at = "count", !.app = i])

\* feePaid on confirms, feePaid off sets back to pending, from any status.
StaffTogglesFee(c) ==
  /\ GuestAt(c, "new")
  /\ \E i \in DOMAIN guest, s \in {"CONFIRMED", "PENDING"} :
       guest' = [guest EXCEPT ![i] = [status |-> s, byStaff |-> TRUE]]
  /\ GuestDone(c)

-----------------------------------------------------------------------------
(* promoteWaitlist                                                         *)

CountForPromotion(c) ==
  /\ GuestAt(c, "count")
  /\ IF Taken >= MaxGuestsPerDay THEN GuestDone(c) ELSE GuestTo(c, "next")
  /\ UNCHANGED guest

\* Mutated FindNext: the one who came last.
FindLast(c) ==
  LET W == GuestsWith({"WAITLIST"})
  IN  /\ GuestAt(c, "next")
      /\ IF W = {} THEN GuestDone(c)
         ELSE \E i \in W : /\ \A j \in W : j <= i
                           /\ GuestBecomes(c, [guestCall[c] EXCEPT !.at = "promote", !.app = i])
      /\ UNCHANGED guest

FindNext(c) ==
  LET W == GuestsWith({"WAITLIST"})
  IN  /\ GuestAt(c, "next")
      /\ IF W = {} THEN GuestDone(c)
         ELSE \E i \in W : /\ \A j \in W : i <= j
                           /\ GuestBecomes(c, [guestCall[c] EXCEPT !.at = "promote", !.app = i])
      /\ UNCHANGED guest

\* By id, whatever the row has become.
PromoteNext(c) ==
  /\ GuestAt(c, "promote")
  /\ guest' = [guest EXCEPT ![guestCall[c].app].status = "PENDING"]
  /\ GuestDone(c)

\* A call to the database fails; the promotion's failure is swallowed.
GuestCallFails(c) ==
  /\ guestCall[c].at \notin {"new", "done"}
  /\ guestCall' = [guestCall EXCEPT ![c] = [NewGuestCall EXCEPT !.at = "done"]]
  /\ guestMet' = TRUE
  /\ UNCHANGED guest

-----------------------------------------------------------------------------
GuestsNext == \E c \in GuestCalls :
  \/ CountGuests(c) \/ CreateGuest(c) \/ LookAtOwn(c) \/ CancelOwn(c) \/ StaffCancels(c)
  \/ StaffTogglesFee(c) \/ CountForPromotion(c) \/ FindNext(c) \/ PromoteNext(c)
  \/ GuestCallFails(c)

GuestsSpec == GuestsInit /\ [][GuestsNext]_guestVars

-----------------------------------------------------------------------------
(* Properties                                                              *)

GuestsTypeOK ==
  /\ guest \in Seq([status : {"PENDING", "CONFIRMED", "CANCELLED", "WAITLIST"},
                    byStaff : BOOLEAN])
  /\ guestCall \in [GuestCalls ->
       [at : {"new", "create", "cancel", "count", "next", "promote", "done"},
        app : Nat, full : BOOLEAN, seated : BOOLEAN]]
  /\ guestMet \in BOOLEAN

\* guestApply.router.ts:190 "when a seat comes free, promoted by itself": while no
\* two requests overlapped and none failed, no seat is free between requests while
\* somebody waits, and nobody who applied later has a seat before them except by
\* an operator's hand, through any number of cancellations and confirmations.
FreeSeatToFirst ==
  ~guestMet /\ (\A c \in GuestCalls : guestCall[c].at \in {"new", "done"}) =>
    \A i \in GuestsWith({"WAITLIST"}) :
      /\ Taken >= MaxGuestsPerDay
      /\ \A j \in GuestsWith({"PENDING", "CONFIRMED"}) : j > i => guest[j].byStaff
=============================================================================
