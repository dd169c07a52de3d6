----------------------------- MODULE PeopleProofs -----------------------------
(***************************************************************************)
(* Safety of what people do with their accounts, for any coaches, people,  *)
(* users, requests, lost answers, seconds, sockets and restarts: hiring,   *)
(* operators, tokens and duels.                                            *)
(***************************************************************************)
EXTENDS Hiring, Operators, Tokens, Rally, TLAPS

-----------------------------------------------------------------------------
(* Hiring: where requests neither meet nor fail, stages follow one another *)

HCall == [at : {"new", "existing", "apply", "move", "class", "done"},
          coach : Applicants \cup {"none"}, to : Stages \cup {"none"},
          found : {"NONE", "WITHDRAWN", "none"}]

\* A request under way is about a coach.
HiringBusy(r) == r.at \notin {"new", "done"}
HiringCallOK(r) == /\ HiringBusy(r) => r.coach \in Applicants
                   /\ r.at = "move" => r.to \in Stages
                   /\ r.at = "apply" => r.found \in {"NONE", "WITHDRAWN"}

\* What a request has read about a coach's application is still so.
HiringFits(r, k) ==
  /\ r.at = "apply" => job[k] = r.found
  /\ r.at = "move" => r.to \in Transitions[job[k]]
  /\ r.at = "class" => job[k] = "ACCEPTED" /\ classes[k] = 0

Counted(k) == classes[k] = IF job[k] = "ACCEPTED" THEN 1 ELSE 0

Tidy(k) ==
  /\ \A c \in HiringCalls : HiringBusy(hiringCall[c]) /\ hiringCall[c].coach = k => HiringFits(hiringCall[c], k)
  /\ (\A c \in HiringCalls : hiringCall[c].at = "class" => hiringCall[c].coach # k) => Counted(k)

\* From what the request of c knows about coach k to what it knows as r.
HiringLeavesTidy(c, r, k) ==
  (/\ HiringBusy(hiringCall[c]) => HiringFits(hiringCall[c], k)
   /\ hiringCall[c].at # "class" => Counted(k))
  => (/\ HiringBusy(r) => HiringFits(r, k)'
      /\ r.at # "class" => Counted(k)')

HiringInv ==
  /\ HiringTypeOK
  /\ \A c \in HiringCalls : HiringCallOK(hiringCall[c])
  /\ HiringsMet(hiringCall) \subseteq hiringMet
  /\ post # "DELETED" => \A k \in Applicants \ hiringMet : Tidy(k)

-----------------------------------------------------------------------------
(* Lemmas                                                                  *)

(* Before anybody applies nobody is hired.                                 *)
LEMMA HiringStart == ASSUME HiringInit PROVE HiringInv
<1>1. /\ hiringCall \in [HiringCalls -> HCall]
      /\ \A c \in HiringCalls : ~HiringBusy(hiringCall[c]) /\ HiringCallOK(hiringCall[c])
  BY DEF HiringInit, NewHiringCall, HCall, HiringBusy, HiringCallOK, Stages
<1>2. HiringTypeOK
  BY <1>1 DEF HiringInit, HiringTypeOK, HCall
<1>3. HiringsMet(hiringCall) \subseteq hiringMet
  BY <1>1 DEF HiringsMet, Handling, HiringBusy
<1>4. \A k \in Applicants : Tidy(k)
  BY <1>1 DEF HiringInit, Tidy, Counted, HiringBusy
<1>. QED
  BY <1>1, <1>2, <1>3, <1>4 DEF HiringInv

(* A request that moves on leaves the others where they are.               *)
LEMMA HiringMoves ==
  ASSUME HiringInv, NEW c \in HiringCalls, NEW r \in HCall, HiringBecomes(c, r)
  PROVE  /\ hiringCall' \in [HiringCalls -> HCall]
         /\ hiringCall'[c] = r
         /\ \A d \in HiringCalls \ {c} : hiringCall'[d] = hiringCall[d]
         /\ hiringMet \subseteq hiringMet' /\ hiringMet' \subseteq Applicants
         /\ HiringsMet(hiringCall)' \subseteq hiringMet'
<1>1. /\ hiringCall' = [hiringCall EXCEPT ![c] = r] /\ hiringCall \in [HiringCalls -> HCall]
      /\ hiringMet' = hiringMet \cup HiringsMet(hiringCall') /\ hiringMet \subseteq Applicants
  BY DEF HiringInv, HiringTypeOK, HCall, HiringBecomes
<1>. QED
  BY <1>1 DEF HiringsMet

(* Whoever works on an application that is not marked does so alone.       *)
LEMMA HiringAlone ==
  ASSUME HiringInv, NEW c \in HiringCalls, NEW r \in HCall, HiringBecomes(c, r),
         NEW k \in Applicants \ hiringMet',
         \/ HiringBusy(r) /\ r.coach = k
         \/ HiringBusy(hiringCall[c]) /\ hiringCall[c].coach = k,
         NEW d \in HiringCalls \ {c}, HiringBusy(hiringCall[d])
  PROVE  hiringCall[d].coach # k
<1>1. /\ hiringCall'[c] = r /\ hiringCall'[d] = hiringCall[d]
      /\ hiringMet \subseteq hiringMet' /\ HiringsMet(hiringCall)' \subseteq hiringMet'
      /\ HiringsMet(hiringCall) \subseteq hiringMet
  BY HiringMoves DEF HiringInv
<1>2. CASE HiringBusy(r) /\ r.coach = k
  BY <1>1, <1>2 DEF HiringsMet, Handling, HiringBusy
<1>3. CASE HiringBusy(hiringCall[c]) /\ hiringCall[c].coach = k
  BY <1>1, <1>3 DEF HiringsMet, Handling, HiringBusy
<1>. QED
  BY <1>2, <1>3

(* A step about one coach keeps the invariant if, from what the request    *)
(* knew, it leaves the application and the classes of that coach tidy.     *)
LEMMA HiringKeeps ==
  ASSUME HiringInv, NEW c \in HiringCalls, NEW r \in HCall, HiringCallOK(r), HiringBecomes(c, r),
         post' = post,
         job' \in [Applicants -> Stages \cup {"NONE"}], classes' \in [Applicants -> Nat],
         NEW k \in Applicants,
         HiringBusy(hiringCall[c]) \/ HiringBusy(r),
         HiringBusy(hiringCall[c]) => hiringCall[c].coach = k,
         HiringBusy(r) => r.coach = k,
         \A l \in Applicants \ {k} : job'[l] = job[l] /\ classes'[l] = classes[l],
         HiringLeavesTidy(c, r, k)
  PROVE  HiringInv'
<1>1. /\ hiringCall' \in [HiringCalls -> HCall]
      /\ hiringCall'[c] = r
      /\ \A d \in HiringCalls \ {c} : hiringCall'[d] = hiringCall[d]
      /\ hiringMet \subseteq hiringMet' /\ hiringMet' \subseteq Applicants
      /\ HiringsMet(hiringCall)' \subseteq hiringMet'
  BY HiringMoves
<1>2. HiringTypeOK'
  BY <1>1 DEF HiringInv, HiringTypeOK, HCall
<1>3. ASSUME NEW d \in HiringCalls  PROVE HiringCallOK(hiringCall'[d])
  BY <1>1 DEF HiringInv
<1>4. ASSUME post' # "DELETED", NEW l \in Applicants \ hiringMet', l # k  PROVE Tidy(l)'
  <2>1. Tidy(l) /\ job'[l] = job[l] /\ classes'[l] = classes[l]
    BY <1>1, <1>4 DEF HiringInv
  <2>2. ASSUME NEW d \in HiringCalls, HiringBusy(hiringCall'[d]), hiringCall'[d].coach = l
        PROVE  HiringFits(hiringCall[d], l)'
    <3>1. d # c /\ hiringCall'[d] = hiringCall[d]
      BY <1>1, <1>4, <2>2
    <3>2. HiringFits(hiringCall[d], l)
      BY <2>1, <2>2, <3>1 DEF Tidy
    <3>. QED
      BY <2>1, <3>1, <3>2 DEF HiringFits
  <2>3. (\A d \in HiringCalls : hiringCall'[d].at = "class" => hiringCall'[d].coach # l)
          => Counted(l)'
    <3>1. ASSUME NEW d \in HiringCalls, hiringCall[d].at = "class", hiringCall[d].coach = l
          PROVE  hiringCall'[d] = hiringCall[d]
      BY <1>1, <1>4, <3>1 DEF HiringBusy
    <3>. QED
      BY <2>1, <3>1 DEF Tidy, Counted
  <2>. QED
    BY <2>2, <2>3 DEF Tidy
<1>5. ASSUME post' # "DELETED", k \notin hiringMet'  PROVE Tidy(k)'
  <2>1. ASSUME NEW d \in HiringCalls \ {c}, HiringBusy(hiringCall[d])  PROVE hiringCall[d].coach # k
    BY <1>5, <2>1, HiringAlone
  <2>2. Tidy(k)
    BY <1>1, <1>5 DEF HiringInv
  <2>3. HiringBusy(hiringCall[c]) => HiringFits(hiringCall[c], k)
    BY <2>2 DEF Tidy
  <2>4. hiringCall[c].at # "class" => Counted(k)
    BY <2>1, <2>2 DEF Tidy, HiringBusy
  <2>5. /\ HiringBusy(r) => HiringFits(r, k)'
        /\ r.at # "class" => Counted(k)'
    BY <2>3, <2>4, Zenon DEF HiringLeavesTidy
  <2>6. ASSUME NEW d \in HiringCalls, HiringBusy(hiringCall'[d]), hiringCall'[d].coach = k
        PROVE  HiringFits(hiringCall[d], k)'
    <3>1. d = c /\ hiringCall'[d] = r
      BY <1>1, <2>1, <2>6
    <3>. QED
      BY <2>5, <2>6, <3>1 DEF HiringFits
  <2>7. (\A d \in HiringCalls : hiringCall'[d].at = "class" => hiringCall'[d].coach # k)
          => Counted(k)'
    BY <1>1, <2>5 DEF HiringBusy
  <2>. QED
    BY <2>6, <2>7 DEF Tidy
<1>. QED
  BY <1>1, <1>2, <1>3, <1>4, <1>5 DEF HiringInv

(* A request that is done is about nobody.                                 *)
LEMMA HiringDoneAs ==
  ASSUME NEW c \in HiringCalls, HiringDone(c)
  PROVE  \E r \in HCall : HiringBecomes(c, r) /\ r.at = "done" /\ ~HiringBusy(r) /\ HiringCallOK(r)
<1>1. PICK r : r = [NewHiringCall EXCEPT !.at = "done"]
  OBVIOUS
<1>2. r \in HCall /\ r.at = "done"
  BY <1>1 DEF NewHiringCall, HCall
<1>. QED
  BY <1>1, <1>2 DEF HiringDone, HiringBusy, HiringCallOK

(* The status and the deletion of the post.                                *)
LEMMA PostKeeps == ASSUME HiringInv, SetPost \/ DeletePost PROVE HiringInv'
<1>1. HiringTypeOK'
  BY DEF SetPost, DeletePost, HiringInv, HiringTypeOK
<1>2. CASE SetPost
  BY <1>1, <1>2 DEF SetPost, HiringInv, HiringsMet, Tidy, HiringFits, Counted
<1>3. CASE DeletePost
  BY <1>1, <1>3 DEF DeletePost, HiringInv, HiringsMet
<1>. QED
  BY <1>2, <1>3

(* A request that fails marks the coach it was about.                      *)
LEMMA HiringFailureKeeps ==
  ASSUME HiringInv, NEW c \in HiringCalls, HiringCallFails(c)
  PROVE  HiringInv'
<1>1. PICK r : r = [NewHiringCall EXCEPT !.at = "done"]
  OBVIOUS
<1>2. r \in HCall /\ r.at = "done" /\ ~HiringBusy(r) /\ HiringCallOK(r)
  BY <1>1 DEF NewHiringCall, HCall, HiringBusy, HiringCallOK
<1>3. /\ hiringCall' = [hiringCall EXCEPT ![c] = r] /\ hiringCall \in [HiringCalls -> HCall]
      /\ hiringMet' = hiringMet \cup {hiringCall[c].coach}
      /\ HiringBusy(hiringCall[c]) /\ hiringCall[c].coach \in Applicants
      /\ post' = post /\ job' = job /\ classes' = classes
  BY <1>1 DEF HiringCallFails, Handling, HiringBusy, HiringInv, HiringTypeOK, HCall, HiringCallOK
<1>4. /\ hiringCall' \in [HiringCalls -> HCall] /\ hiringCall'[c] = r
      /\ \A d \in HiringCalls \ {c} : hiringCall'[d] = hiringCall[d]
  BY <1>2, <1>3
<1>5. HiringTypeOK'
  BY <1>3, <1>4 DEF HiringInv, HiringTypeOK, HCall
<1>6. \A d \in HiringCalls : HiringCallOK(hiringCall'[d])
  BY <1>2, <1>4 DEF HiringInv
<1>7. HiringsMet(hiringCall)' \subseteq hiringMet'
  BY <1>2, <1>3, <1>4 DEF HiringInv, HiringsMet, Handling, HiringBusy
<1>8. ASSUME post' # "DELETED", NEW l \in Applicants \ hiringMet'  PROVE Tidy(l)'
  <2>1. Tidy(l) /\ hiringCall[c].coach # l
    BY <1>3, <1>8 DEF HiringInv
  <2>2. ASSUME NEW d \in HiringCalls, HiringBusy(hiringCall'[d]), hiringCall'[d].coach = l
        PROVE  HiringFits(hiringCall[d], l)'
    <3>1. d # c /\ hiringCall'[d] = hiringCall[d]
      BY <1>2, <1>4, <2>2
    <3>2. HiringFits(hiringCall[d], l)
      BY <2>1, <2>2, <3>1 DEF Tidy
    <3>. QED
      BY <1>3, <3>1, <3>2 DEF HiringFits
  <2>3. (\A d \in HiringCalls : hiringCall'[d].at = "class" => hiringCall'[d].coach # l)
          => Counted(l)'
    BY <1>3, <1>4, <2>1 DEF Tidy, Counted
  <2>. QED
    BY <2>2, <2>3 DEF Tidy
<1>. QED
  BY <1>5, <1>6, <1>7, <1>8 DEF HiringInv

(* applyJob's look at the post and at an earlier application.              *)
LEMMA HiringLooksKeep ==
  ASSUME HiringInv, NEW c \in HiringCalls, FindPost(c) \/ FindExisting(c)
  PROVE  HiringInv'
<1>1. /\ job \in [Applicants -> Stages \cup {"NONE"}] /\ classes \in [Applicants -> Nat]
      /\ hiringCall[c] \in HCall /\ HiringCallOK(hiringCall[c])
  BY DEF HiringInv, HiringTypeOK, HCall
<1>2. CASE FindPost(c)
  <2>1. PICK k \in Applicants :
          HiringBecomes(c, [NewHiringCall EXCEPT !.at = "existing", !.coach = k])
    BY <1>2 DEF FindPost
  <2>2. PICK r : r = [NewHiringCall EXCEPT !.at = "existing", !.coach = k]
    OBVIOUS
  <2>3. r \in HCall /\ r.at = "existing" /\ r.coach = k /\ HiringBecomes(c, r)
    BY <2>1, <2>2 DEF NewHiringCall, HCall
  <2>4. ~HiringBusy(hiringCall[c]) /\ hiringCall[c].at # "class" /\ post' = post /\ job' = job /\ classes' = classes
    BY <1>2 DEF FindPost, HiringAt, HiringBusy
  <2>5. HiringBusy(r) /\ HiringCallOK(r) /\ HiringFits(r, k)' /\ (Counted(k) => Counted(k)')
    BY <2>3, <2>4 DEF HiringBusy, HiringCallOK, HiringFits, Counted
  <2>. QED
    BY <1>1, <2>3, <2>4, <2>5, HiringKeeps DEF HiringLeavesTidy
<1>3. CASE FindExisting(c)
  <2>1. PICK k \in Applicants : k = hiringCall[c].coach
    BY <1>1, <1>3 DEF FindExisting, HiringAt, HiringCallOK, HiringBusy
  <2>2. /\ HiringBusy(hiringCall[c]) /\ hiringCall[c].at # "class"
        /\ post' = post /\ job' = job /\ classes' = classes
    BY <1>3 DEF FindExisting, HiringAt, HiringBusy
  <2>3. Counted(k) => Counted(k)'
    BY <2>2 DEF Counted
  <2>4. CASE job[k] \in {"NONE", "WITHDRAWN"}
    <3>1. PICK r : r = [hiringCall[c] EXCEPT !.at = "apply", !.found = job[k]]
      OBVIOUS
    <3>2. HiringBecomes(c, r)
      BY <1>3, <2>1, <2>4, <3>1 DEF FindExisting
    <3>3. r \in HCall /\ r.at = "apply" /\ r.coach = k /\ r.found = job[k]
      BY <1>1, <2>1, <2>4, <3>1 DEF HCall
    <3>4. HiringBusy(r) /\ HiringCallOK(r) /\ HiringFits(r, k)'
      BY <2>2, <2>4, <3>3 DEF HiringBusy, HiringCallOK, HiringFits
    <3>. QED
      BY <1>1, <2>1, <2>2, <2>3, <3>2, <3>3, <3>4, HiringKeeps DEF HiringLeavesTidy
  <2>5. CASE job[k] \notin {"NONE", "WITHDRAWN"}
    <3>1. HiringDone(c)
      BY <1>3, <2>1, <2>5 DEF FindExisting
    <3>2. PICK r \in HCall : HiringBecomes(c, r) /\ r.at = "done" /\ ~HiringBusy(r) /\ HiringCallOK(r)
      BY <3>1, HiringDoneAs
    <3>. QED
      BY <1>1, <2>1, <2>2, <2>3, <3>2, HiringKeeps DEF HiringLeavesTidy
  <2>. QED
    BY <2>4, <2>5
<1>. QED
  BY <1>2, <1>3

(* applyJob's write: the row is as it was read.                            *)
LEMMA HiringApplyKeeps ==
  ASSUME HiringInv, NEW c \in HiringCalls, ApplyJob(c)
  PROVE  HiringInv'
<1>1. /\ job \in [Applicants -> Stages \cup {"NONE"}] /\ classes \in [Applicants -> Nat]
      /\ hiringCall[c].at = "apply" /\ HiringCallOK(hiringCall[c]) /\ HiringBusy(hiringCall[c])
      /\ post' = post /\ classes' = classes
  BY DEF HiringInv, HiringTypeOK, ApplyJob, HiringAt, HiringBusy
<1>2. PICK k \in Applicants : k = hiringCall[c].coach
  BY <1>1 DEF HiringCallOK
<1>3. PICK r \in HCall : HiringBecomes(c, r) /\ r.at = "done" /\ ~HiringBusy(r) /\ HiringCallOK(r)
  BY HiringDoneAs DEF ApplyJob
<1>4. /\ job' = job \/ job' = [job EXCEPT ![k] = "APPLIED"]
      /\ job' \in [Applicants -> Stages \cup {"NONE"}]
      /\ \A l \in Applicants \ {k} : job'[l] = job[l]
  BY <1>1, <1>2 DEF ApplyJob, Stages
<1>5. HiringFits(hiringCall[c], k) /\ Counted(k) => Counted(k)'
  <2>1. ASSUME HiringFits(hiringCall[c], k)  PROVE job[k] # "ACCEPTED"
    BY <1>1, <2>1 DEF HiringFits, HiringCallOK
  <2>2. ASSUME job[k] # "ACCEPTED"  PROVE job'[k] # "ACCEPTED"
    BY <1>1, <1>4, <2>2
  <2>. QED
    BY <1>1, <2>1, <2>2 DEF Counted
<1>. QED
  BY <1>1, <1>2, <1>3, <1>4, <1>5, HiringKeeps DEF HiringLeavesTidy

(* updateApplicationStatus: the row is as it was read, and an offer that   *)
(* is accepted opens a class where there was none.                         *)
LEMMA HiringMoveKeeps ==
  ASSUME HiringInv, NEW c \in HiringCalls,
         FindApplication(c) \/ MoveApplication(c) \/ OpenClass(c)
  PROVE  HiringInv'
<1>1. /\ job \in [Applicants -> Stages \cup {"NONE"}] /\ classes \in [Applicants -> Nat]
      /\ hiringCall[c] \in HCall /\ HiringCallOK(hiringCall[c])
  BY DEF HiringInv, HiringTypeOK, HCall
<1>2. CASE FindApplication(c)
  <2>0. PICK k \in Applicants : \E s \in Transitions[job[k]] :
          HiringBecomes(c, [NewHiringCall EXCEPT !.at = "move", !.coach = k, !.to = s])
    BY <1>2 DEF FindApplication
  <2>1. PICK s \in Transitions[job[k]] :
          HiringBecomes(c, [NewHiringCall EXCEPT !.at = "move", !.coach = k, !.to = s])
    BY <2>0
  <2>2. s \in Stages
    BY <1>1, <2>1 DEF Transitions, Stages
  <2>3. PICK r : r = [NewHiringCall EXCEPT !.at = "move", !.coach = k, !.to = s]
    OBVIOUS
  <2>4. r \in HCall /\ r.at = "move" /\ r.coach = k /\ r.to = s /\ HiringBecomes(c, r)
    BY <2>1, <2>2, <2>3 DEF NewHiringCall, HCall
  <2>5. /\ ~HiringBusy(hiringCall[c]) /\ hiringCall[c].at # "class"
        /\ post' = post /\ job' = job /\ classes' = classes
    BY <1>2 DEF FindApplication, HiringAt, HiringBusy
  <2>6. HiringBusy(r) /\ HiringCallOK(r) /\ HiringFits(r, k)' /\ (Counted(k) => Counted(k)')
    BY <2>1, <2>2, <2>4, <2>5 DEF HiringBusy, HiringCallOK, HiringFits, Counted
  <2>. QED
    BY <1>1, <2>4, <2>5, <2>6, HiringKeeps DEF HiringLeavesTidy
<1>3. CASE MoveApplication(c)
  <2>1. hiringCall[c].at = "move" /\ HiringBusy(hiringCall[c]) /\ post' = post /\ classes' = classes
    BY <1>3 DEF MoveApplication, HiringAt, HiringBusy
  <2>2. PICK k \in Applicants : k = hiringCall[c].coach
    BY <1>1, <2>1 DEF HiringCallOK
  <2>3. PICK s \in Stages : s = hiringCall[c].to
    BY <1>1, <2>1 DEF HiringCallOK
  <2>4. CASE job[k] = "NONE"
    <3>1. HiringDone(c) /\ job' = job
      BY <1>3, <2>2, <2>4 DEF MoveApplication
    <3>2. PICK r \in HCall : HiringBecomes(c, r) /\ r.at = "done" /\ ~HiringBusy(r) /\ HiringCallOK(r)
      BY <3>1, HiringDoneAs
    <3>3. Counted(k) => Counted(k)'
      BY <2>1, <3>1 DEF Counted
    <3>. QED
      BY <1>1, <2>1, <2>2, <3>1, <3>2, <3>3, HiringKeeps DEF HiringLeavesTidy
  <2>5. CASE job[k] # "NONE"
    <3>1. /\ job' = [job EXCEPT ![k] = s]
          /\ IF s = "ACCEPTED" THEN HiringTo(c, "class") ELSE HiringDone(c)
      BY <1>3, <2>2, <2>3, <2>5 DEF MoveApplication
    <3>2. /\ job' \in [Applicants -> Stages \cup {"NONE"}] /\ job'[k] = s
          /\ \A l \in Applicants \ {k} : job'[l] = job[l]
      BY <1>1, <3>1
    <3>3. HiringFits(hiringCall[c], k) => job[k] # "ACCEPTED"
      BY <1>1, <2>1 DEF HiringFits, Transitions
    <3>4. CASE s = "ACCEPTED"
      <4>1. PICK r : r = [hiringCall[c] EXCEPT !.at = "class"]
        OBVIOUS
      <4>2. HiringBecomes(c, r)
        BY <3>1, <3>4, <4>1 DEF HiringTo
      <4>3. r \in HCall /\ r.at = "class" /\ r.coach = k
        BY <1>1, <2>2, <4>1 DEF HCall
      <4>4. HiringBusy(r) /\ HiringCallOK(r)
        BY <4>3 DEF HiringBusy, HiringCallOK
      <4>5. HiringFits(hiringCall[c], k) /\ Counted(k) => HiringFits(r, k)'
        BY <2>1, <3>2, <3>3, <3>4, <4>3 DEF HiringFits, Counted
      <4>. QED
        BY <1>1, <2>1, <2>2, <3>2, <4>2, <4>3, <4>4, <4>5, HiringKeeps DEF HiringLeavesTidy
    <3>5. CASE s # "ACCEPTED"
      <4>1. PICK r \in HCall : HiringBecomes(c, r) /\ r.at = "done" /\ ~HiringBusy(r) /\ HiringCallOK(r)
        BY <3>1, <3>5, HiringDoneAs
      <4>2. HiringFits(hiringCall[c], k) /\ Counted(k) => Counted(k)'
        BY <2>1, <3>2, <3>3, <3>5 DEF Counted
      <4>. QED
        BY <1>1, <2>1, <2>2, <3>2, <4>1, <4>2, HiringKeeps DEF HiringLeavesTidy
    <3>. QED
      BY <3>4, <3>5
  <2>. QED
    BY <2>4, <2>5
<1>4. CASE OpenClass(c)
  <2>1. /\ hiringCall[c].at = "class" /\ HiringBusy(hiringCall[c]) /\ post' = post /\ job' = job
        /\ HiringDone(c)
    BY <1>4 DEF OpenClass, HiringAt, HiringBusy
  <2>2. PICK k \in Applicants : k = hiringCall[c].coach
    BY <1>1, <2>1 DEF HiringCallOK
  <2>3. /\ classes' \in [Applicants -> Nat] /\ classes'[k] = classes[k] + 1
        /\ \A l \in Applicants \ {k} : classes'[l] = classes[l]
    BY <1>1, <1>4, <2>2 DEF OpenClass
  <2>4. PICK r \in HCall : HiringBecomes(c, r) /\ r.at = "done" /\ ~HiringBusy(r) /\ HiringCallOK(r)
    BY <2>1, HiringDoneAs
  <2>5. HiringFits(hiringCall[c], k) => Counted(k)'
    BY <2>1, <2>3 DEF HiringFits, Counted
  <2>. QED
    BY <1>1, <2>1, <2>2, <2>3, <2>4, <2>5, HiringKeeps DEF HiringLeavesTidy
<1>. QED
  BY <1>2, <1>3, <1>4

(* Every step keeps the invariant.                                         *)
LEMMA HiringStep == ASSUME HiringInv, [HiringNext]_hiringVars PROVE HiringInv'
<1>1. CASE UNCHANGED hiringVars
  BY <1>1 DEF hiringVars, HiringInv, HiringTypeOK, HiringsMet, Tidy, HiringFits, Counted
<1>2. CASE HiringNext
  BY <1>2, PostKeeps, HiringFailureKeeps, HiringLooksKeep, HiringApplyKeeps, HiringMoveKeeps DEF HiringNext
<1>. QED
  BY <1>1, <1>2

(* The invariant holds throughout.                                         *)
LEMMA HiringInvariant == HiringSpec => []HiringInv
BY HiringStart, HiringStep, PTL DEF HiringSpec

-----------------------------------------------------------------------------
(* Theorems                                                                *)

(* The post, the applications and what is under way are always of the      *)
(* kinds the schema has.                                                   *)
THEOREM HiringTyped == HiringSpec => []HiringTypeOK
<1>1. HiringInv => HiringTypeOK
  BY DEF HiringInv
<1>. QED
  BY <1>1, HiringInvariant, PTL

(* coachJob.service.ts: unless requests overlap or fail between the status *)
(* and the class, a hired coach has one class and any other none.          *)
THEOREM HiredOnce == HiringSpec => []OneClassPerHire
<1>1. ASSUME HiringInv  PROVE OneClassPerHire
  <2>1. ASSUME NEW k \in Applicants \ hiringMet, post # "DELETED",
               \A c \in Handling(hiringCall) : hiringCall[c].coach # k
        PROVE  classes[k] = IF job[k] = "ACCEPTED" THEN 1 ELSE 0
    BY <1>1, <2>1 DEF HiringInv, Tidy, Counted, Handling
  <2>. QED
    BY <2>1 DEF OneClassPerHire
<1>. QED
  BY <1>1, HiringInvariant, PTL

(* coachJob.service.ts TRANSITIONS: stages only go forwards, whoever acts  *)
(* when, unless two requests about the application overlap or one fails.   *)
THEOREM StagesGoForwards == HiringSpec => OnlyForwards
<1>1. ASSUME HiringInv, [HiringNext]_hiringVars
      PROVE  [\A k \in Applicants : job'[k] # job[k] =>
                \/ job'[k] \in Transitions[job[k]]
                \/ job[k] \in {"NONE", "WITHDRAWN"} /\ job'[k] = "APPLIED"
                \/ post' = "DELETED"
                \/ k \in hiringMet]_hiringVars
  <2>1. SUFFICES ASSUME HiringNext, NEW k \in Applicants \ hiringMet, job'[k] # job[k],
                        post' # "DELETED"
                 PROVE  \/ job'[k] \in Transitions[job[k]]
                        \/ job[k] \in {"NONE", "WITHDRAWN"} /\ job'[k] = "APPLIED"
    BY <1>1 DEF hiringVars
  <2>2. PICK c \in HiringCalls : ApplyJob(c) \/ MoveApplication(c)
    BY <2>1 DEF HiringNext, SetPost, DeletePost, HiringCallFails, FindPost, FindExisting,
                FindApplication, OpenClass
  <2>3. /\ job \in [Applicants -> Stages \cup {"NONE"}] /\ HiringCallOK(hiringCall[c])
        /\ post' = post /\ HiringBusy(hiringCall[c])
    BY <1>1, <2>2 DEF HiringInv, HiringTypeOK, ApplyJob, MoveApplication, HiringAt, HiringBusy
  <2>4. k = hiringCall[c].coach
    BY <2>1, <2>2, <2>3 DEF ApplyJob, MoveApplication
  <2>5. HiringFits(hiringCall[c], k)
    BY <1>1, <2>1, <2>3, <2>4 DEF HiringInv, Tidy
  <2>6. CASE ApplyJob(c)
    BY <2>1, <2>3, <2>4, <2>5, <2>6 DEF ApplyJob, HiringAt, HiringFits, HiringCallOK
  <2>7. CASE MoveApplication(c)
    BY <2>1, <2>3, <2>4, <2>5, <2>7 DEF MoveApplication, HiringAt, HiringFits
  <2>. QED
    BY <2>2, <2>6, <2>7
<1>. QED
  BY <1>1, HiringInvariant, PTL DEF HiringSpec, OnlyForwards

-----------------------------------------------------------------------------
(* Operators: an operator's request stands approved                        *)

\* A request files its row at most once and does not look at it before.
Filing == {"new", "pending", "file", "create", "again"}

\* A filed row, and a request to file one, has an applicant, whose account exists
\* where the row is not to create it.
ApplicantKnown(c) ==
  /\ operatorCall[c].at \in Filing => filed[c] = NotFiled
  /\ operatorCall[c].at \in {"pending", "file", "create", "again"} => operatorCall[c].by \in People
  /\ operatorCall[c].at \in {"pending", "file"} => account[operatorCall[c].by].status # "NONE"
  /\ filed[c].status # "NONE" =>
       filed[c].by \in People /\ account[filed[c].by].status # "NONE"
  /\ c \in reviewsMet => filed[c].status # "NONE"

\* A review is about a row that was filed, and one that met no other finds it as it
\* was when it looked.
ReviewFits(c) ==
  /\ operatorCall[c].at \in {"approve", "reject"} => operatorCall[c].about \in OperatorCalls
  /\ operatorCall[c].about \in OperatorCalls =>
       /\ operatorCall[c].at \in {"approve", "reject"}
       /\ filed[operatorCall[c].about].status # "NONE"
       /\ \/ filed[operatorCall[c].about].status = "PENDING"
          \/ operatorCall[c].about \in reviewsMet

OperatorInv ==
  /\ OperatorsTypeOK
  /\ \A c \in OperatorCalls : ApplicantKnown(c) /\ ReviewFits(c)
  /\ Reviewed(operatorCall) \subseteq reviewsMet
  /\ LeadersWereApproved
  /\ NobodyWaitsForNothing

OperatorCall == [at : {"new", "pending", "file", "create", "again", "approve", "reject", "done"},
                 by : People \cup {"none"}, about : OperatorCalls \cup {"none"}]

-----------------------------------------------------------------------------
(* Lemmas                                                                  *)

(* Before anybody acts nothing is filed and nobody is an operator.         *)
LEMMA OperatorsStart == ASSUME OperatorsInit PROVE OperatorInv
BY OperatorsAssumption DEF OperatorsInit, OperatorInv, OperatorsTypeOK, NotFiled, NewOperatorCall,
   Reviewed, LeadersWereApproved, NobodyWaitsForNothing, Filing, ApplicantKnown, ReviewFits, Roles

(* A request that moves on leaves the others where they are, and if its row  *)
(* is another's too the row is marked.                                       *)
LEMMA OneMoves ==
  ASSUME OperatorInv, NEW c \in OperatorCalls, NEW r \in OperatorCall,
         OperatorBecomes(c, r)
  PROVE  /\ operatorCall' \in [OperatorCalls -> OperatorCall]
         /\ operatorCall'[c] = r
         /\ \A d \in OperatorCalls \ {c} : operatorCall'[d] = operatorCall[d]
         /\ reviewsMet \subseteq reviewsMet' /\ reviewsMet' \subseteq OperatorCalls
         /\ Reviewed(operatorCall)' \subseteq reviewsMet'
         /\ r.about \notin OperatorCalls => reviewsMet' = reviewsMet
         /\ r.about \in OperatorCalls => reviewsMet' \subseteq reviewsMet \cup {r.about}
         /\ roleGiven' = roleGiven
<1>1. /\ operatorCall' = [operatorCall EXCEPT ![c] = r]
      /\ operatorCall \in [OperatorCalls -> OperatorCall]
      /\ reviewsMet' = reviewsMet \cup Reviewed(operatorCall')
      /\ reviewsMet \subseteq OperatorCalls
      /\ Reviewed(operatorCall) \subseteq reviewsMet
  BY DEF OperatorInv, OperatorsTypeOK, OperatorCall, OperatorBecomes
<1>2. /\ operatorCall' \in [OperatorCalls -> OperatorCall] /\ operatorCall'[c] = r
      /\ \A d \in OperatorCalls \ {c} : operatorCall'[d] = operatorCall[d]
      /\ roleGiven' = roleGiven
  BY <1>1 DEF OperatorBecomes
<1>3. Reviewed(operatorCall') \subseteq Reviewed(operatorCall) \cup ({r.about} \cap OperatorCalls)
  BY <1>2 DEF Reviewed
<1>. QED
  BY <1>1, <1>2, <1>3 DEF Reviewed

(* A step that changes no row and no account keeps the invariant if what   *)
(* the request has become is about a row that waits.                       *)
LEMMA OnlyMoves ==
  ASSUME OperatorInv, NEW c \in OperatorCalls, NEW r \in OperatorCall,
         OperatorBecomes(c, r), UNCHANGED <<account, filed>>,
         r.at \in Filing => operatorCall[c].at \in Filing,
         r.at \in {"pending", "file", "create", "again"} => r.by \in People,
         r.at \in {"pending", "file"} => account[r.by].status # "NONE",
         r.at \in {"approve", "reject"} <=> r.about \in OperatorCalls,
         r.about \in OperatorCalls => filed[r.about].status = "PENDING"
  PROVE  OperatorInv'
<1>1. /\ operatorCall' \in [OperatorCalls -> OperatorCall]
      /\ operatorCall'[c] = r
      /\ \A d \in OperatorCalls \ {c} : operatorCall'[d] = operatorCall[d]
      /\ reviewsMet \subseteq reviewsMet' /\ reviewsMet' \subseteq OperatorCalls
      /\ Reviewed(operatorCall)' \subseteq reviewsMet'
      /\ r.about \notin OperatorCalls => reviewsMet' = reviewsMet
      /\ r.about \in OperatorCalls => reviewsMet' \subseteq reviewsMet \cup {r.about}
      /\ account' = account /\ filed' = filed /\ roleGiven' = roleGiven
  BY OneMoves
<1>2. OperatorsTypeOK'
  BY <1>1 DEF OperatorInv, OperatorsTypeOK, OperatorCall
<1>3. LeadersWereApproved' /\ NobodyWaitsForNothing'
  BY <1>1 DEF OperatorInv, LeadersWereApproved, NobodyWaitsForNothing, PendingOf
<1>4. ASSUME NEW d \in OperatorCalls  PROVE ApplicantKnown(d)'
  BY <1>1 DEF OperatorInv, ApplicantKnown
<1>5. ASSUME NEW d \in OperatorCalls  PROVE ReviewFits(d)'
  BY <1>1 DEF OperatorInv, ReviewFits
<1>. QED
  BY <1>1, <1>2, <1>3, <1>4, <1>5 DEF OperatorInv

(* A request that is done is about no row.                                 *)
LEMMA FilingEndsAs ==
  ASSUME OperatorInv, NEW c \in OperatorCalls, OperatorDone(c)
  PROVE  /\ operatorCall' \in [OperatorCalls -> OperatorCall]
         /\ operatorCall'[c].at = "done" /\ operatorCall'[c].about \notin OperatorCalls
         /\ \A d \in OperatorCalls \ {c} : operatorCall'[d] = operatorCall[d]
         /\ reviewsMet' = reviewsMet /\ roleGiven' = roleGiven
         /\ Reviewed(operatorCall)' \subseteq reviewsMet'
<1>1. PICK r : r = [at |-> "done", by |-> "none", about |-> "none"]
  OBVIOUS
<1>2. OperatorBecomes(c, r) /\ r \in OperatorCall /\ r.at = "done" /\ r.about \notin OperatorCalls
  BY <1>1, OperatorsAssumption DEF OperatorDone, NewOperatorCall, OperatorCall
<1>. QED
  BY <1>2, OneMoves

(* A request that files its row, of somebody without an approval that the  *)
(* row would hide, makes one that waits.                                   *)
LEMMA Files ==
  ASSUME OperatorInv, NEW c \in OperatorCalls, OperatorDone(c),
         operatorCall[c].at \in {"file", "create", "again"},
         filed' = [filed EXCEPT ![c] = [by |-> operatorCall[c].by, status |-> "PENDING"]],
         \/ account' = account /\ operatorCall[c].at = "file"
         \/ account' = [account EXCEPT ![operatorCall[c].by].status = "PENDING"]
  PROVE  OperatorInv'
<1>1. /\ operatorCall' \in [OperatorCalls -> OperatorCall]
      /\ operatorCall'[c].at = "done" /\ operatorCall'[c].about \notin OperatorCalls
      /\ \A d \in OperatorCalls \ {c} : operatorCall'[d] = operatorCall[d]
      /\ reviewsMet' = reviewsMet /\ roleGiven' = roleGiven
      /\ Reviewed(operatorCall)' \subseteq reviewsMet'
  BY FilingEndsAs
<1>2. PICK u \in People : /\ u = operatorCall[c].by
                          /\ operatorCall[c].at = "file" => account[u].status # "NONE"
  BY DEF OperatorInv, ApplicantKnown
<1>3. filed[c] = NotFiled /\ c \notin reviewsMet
  BY DEF OperatorInv, ApplicantKnown, Filing, NotFiled
<1>4. /\ filed'[c] = [by |-> u, status |-> "PENDING"]
      /\ \A d \in OperatorCalls \ {c} : filed'[d] = filed[d]
      /\ filed' \in [OperatorCalls -> [by : People \cup {"none"},
                                       status : {"NONE", "PENDING", "APPROVED", "REJECTED"}]]
  BY <1>2 DEF OperatorInv, OperatorsTypeOK
<1>5. /\ account' \in [People -> [status : {"NONE", "PENDING", "ACTIVE", "REJECTED"},
                                  role : Roles]]
      /\ \A v \in People : account'[v].role = account[v].role
      /\ \A v \in People \ {u} : account'[v] = account[v]
      /\ account'[u].status # "NONE"
  <2>1. account \in [People -> [status : {"NONE", "PENDING", "ACTIVE", "REJECTED"}, role : Roles]]
    BY DEF OperatorInv, OperatorsTypeOK
  <2>2. CASE account' = account /\ operatorCall[c].at = "file"
    BY <1>2, <2>1, <2>2
  <2>3. CASE account' = [account EXCEPT ![u].status = "PENDING"]
    BY <2>1, <2>3
  <2>. QED
    BY <1>2, <2>2, <2>3
<1>6. OperatorsTypeOK'
  BY <1>1, <1>4, <1>5 DEF OperatorInv, OperatorsTypeOK, OperatorCall
<1>7. LeadersWereApproved'
  <2>1. ASSUME NEW v \in People \ roleGiven', account'[v].role # "PLAYER"
        PROVE  \E d \in OperatorCalls : /\ filed'[d].by = v
                                        /\ filed'[d].status = "APPROVED" \/ d \in reviewsMet'
    <3>1. PICK d \in OperatorCalls : /\ filed[d].by = v
                                     /\ filed[d].status = "APPROVED" \/ d \in reviewsMet
      BY <1>1, <1>5, <2>1 DEF OperatorInv, LeadersWereApproved
    <3>. QED
      BY <1>1, <1>3, <1>4, <3>1 DEF NotFiled
  <2>2. ASSUME NEW d \in OperatorCalls, filed'[d].status = "APPROVED"
        PROVE  account'[filed'[d].by].role # "PLAYER"
    <3>1. d # c /\ filed'[d] = filed[d] /\ filed[d].by \in People
      BY <1>4, <2>2 DEF OperatorInv, ApplicantKnown
    <3>. QED
      BY <1>5, <2>2, <3>1 DEF OperatorInv, LeadersWereApproved
  <2>. QED
    BY <2>1, <2>2 DEF LeadersWereApproved
<1>8. NobodyWaitsForNothing'
  <2>1. ASSUME NEW v \in People \ {u}, account'[v].status = "PENDING"  PROVE PendingOf(v)' # {}
    <3>1. PICK d \in OperatorCalls : filed[d] = [by |-> v, status |-> "PENDING"]
      BY <1>5, <2>1 DEF OperatorInv, NobodyWaitsForNothing, PendingOf
    <3>2. d # c
      BY <1>3, <3>1 DEF NotFiled
    <3>. QED
      BY <1>4, <3>1, <3>2 DEF PendingOf
  <2>2. PendingOf(u)' # {}
    BY <1>4 DEF PendingOf
  <2>. QED
    BY <2>1, <2>2 DEF NobodyWaitsForNothing
<1>9. ASSUME NEW d \in OperatorCalls  PROVE ApplicantKnown(d)'
  <2>1. \A v \in People : account[v].status # "NONE" => account'[v].status # "NONE"
    BY <1>5
  <2>2. CASE d = c
    BY <1>1, <1>3, <1>4, <1>5, <2>2 DEF ApplicantKnown, Filing
  <2>3. CASE d # c
    <3>1. operatorCall'[d] = operatorCall[d] /\ filed'[d] = filed[d]
      BY <1>1, <1>4, <2>3
    <3>2. ApplicantKnown(d)
      BY DEF OperatorInv
    <3>. QED
      BY <1>1, <2>1, <3>1, <3>2 DEF ApplicantKnown
  <2>. QED
    BY <2>2, <2>3
<1>10. ASSUME NEW d \in OperatorCalls  PROVE ReviewFits(d)'
  BY <1>1, <1>4 DEF OperatorInv, ReviewFits
<1>. QED
  BY <1>1, <1>6, <1>7, <1>8, <1>9, <1>10 DEF OperatorInv

(* A review that met no other decides on a row that waits, and one that    *)
(* did leaves the row marked.                                              *)
LEMMA Decides ==
  ASSUME OperatorInv, NEW c \in OperatorCalls, Approve(c) \/ Reject(c)
  PROVE  OperatorInv'
<1>1. /\ operatorCall' \in [OperatorCalls -> OperatorCall]
      /\ operatorCall'[c].at = "done" /\ operatorCall'[c].about \notin OperatorCalls
      /\ \A d \in OperatorCalls \ {c} : operatorCall'[d] = operatorCall[d]
      /\ reviewsMet' = reviewsMet /\ roleGiven' = roleGiven
      /\ Reviewed(operatorCall)' \subseteq reviewsMet'
  BY FilingEndsAs DEF Approve, Reject
<1>2. operatorCall[c].at \in {"approve", "reject"}
  BY DEF Approve, Reject, OperatorAt
<1>3. PICK r \in OperatorCalls : r = operatorCall[c].about
  BY <1>2 DEF OperatorInv, ReviewFits
<1>4. /\ filed[r].status # "NONE"
      /\ filed[r].status = "PENDING" \/ r \in reviewsMet
  BY <1>3 DEF OperatorInv, ReviewFits
<1>5. PICK u \in People : u = filed[r].by /\ account[u].status # "NONE"
  BY <1>4 DEF OperatorInv, ApplicantKnown
<1>6. /\ filed' \in [OperatorCalls -> [by : People \cup {"none"},
                                       status : {"NONE", "PENDING", "APPROVED", "REJECTED"}]]
      /\ \A d \in OperatorCalls \ {r} : filed'[d] = filed[d]
      /\ filed'[r].by = u /\ filed'[r].status \in {"APPROVED", "REJECTED"}
      /\ Approve(c) <=> filed'[r].status = "APPROVED"
  <2>1. CASE Approve(c)
    BY <1>3, <1>5, <2>1 DEF OperatorInv, OperatorsTypeOK, Approve
  <2>2. CASE Reject(c) /\ ~Approve(c)
    BY <1>3, <1>5, <2>2 DEF OperatorInv, OperatorsTypeOK, Reject
  <2>. QED
    BY <2>1, <2>2
<1>7. /\ account' \in [People -> [status : {"NONE", "PENDING", "ACTIVE", "REJECTED"},
                                  role : Roles]]
      /\ \A v \in People \ {u} : account'[v] = account[v]
      /\ account'[u].status \notin {"PENDING", "NONE"}
      /\ account[u].role # "PLAYER" => account'[u].role # "PLAYER"
      /\ Approve(c) => account'[u].role # "PLAYER"
      /\ ~Approve(c) => account'[u].role = account[u].role
  <2>1. account \in [People -> [status : {"NONE", "PENDING", "ACTIVE", "REJECTED"}, role : Roles]]
    BY DEF OperatorInv, OperatorsTypeOK
  <2>2. CASE Approve(c)
    <3>1. account' = [account EXCEPT ![u] = [status |-> "ACTIVE",
                        role |-> IF account[u].role = "PLAYER" THEN "CLUB_LEADER" ELSE account[u].role]]
      BY <1>3, <1>5, <2>2 DEF Approve
    <3>2. account[u].role \in Roles /\ "CLUB_LEADER" \in Roles
      BY <2>1 DEF Roles
    <3>. QED
      BY <2>1, <2>2, <3>1, <3>2
  <2>3. CASE Reject(c) /\ ~Approve(c)
    BY <1>3, <1>5, <2>1, <2>3 DEF Reject
  <2>. QED
    BY <2>2, <2>3
<1>8. OperatorsTypeOK'
  BY <1>1, <1>6, <1>7 DEF OperatorInv, OperatorsTypeOK, OperatorCall
<1>9. LeadersWereApproved'
  <2>1. ASSUME NEW v \in People \ roleGiven', account'[v].role # "PLAYER", account[v].role # "PLAYER"
        PROVE  \E d \in OperatorCalls : /\ filed'[d].by = v
                                        /\ filed'[d].status = "APPROVED" \/ d \in reviewsMet'
    <3>1. PICK d \in OperatorCalls : /\ filed[d].by = v
                                     /\ filed[d].status = "APPROVED" \/ d \in reviewsMet
      BY <1>1, <2>1 DEF OperatorInv, LeadersWereApproved
    <3>2. CASE d = r
      BY <1>1, <1>4, <1>5, <1>6, <3>1, <3>2
    <3>3. CASE d # r
      BY <1>1, <1>6, <3>1, <3>3
    <3>. QED
      BY <3>2, <3>3
  <2>2. ASSUME NEW v \in People, account'[v].role # "PLAYER", account[v].role = "PLAYER"
        PROVE  \E d \in OperatorCalls : /\ filed'[d].by = v
                                        /\ filed'[d].status = "APPROVED" \/ d \in reviewsMet'
    BY <1>6, <1>7, <2>2
  <2>3. ASSUME NEW d \in OperatorCalls, filed'[d].status = "APPROVED"
        PROVE  account'[filed'[d].by].role # "PLAYER"
    <3>1. CASE d = r
      BY <1>2, <1>6, <1>7, <2>3, <3>1 DEF Reject
    <3>2. CASE d # r
      <4>1. filed'[d] = filed[d] /\ filed[d].by \in People /\ account[filed[d].by].role # "PLAYER"
        BY <1>6, <2>3, <3>2 DEF OperatorInv, ApplicantKnown, LeadersWereApproved
      <4>. QED
        BY <1>7, <4>1
    <3>. QED
      BY <3>1, <3>2
  <2>. QED
    BY <2>1, <2>2, <2>3 DEF LeadersWereApproved
<1>10. NobodyWaitsForNothing'
  <2>1. ASSUME NEW v \in People, account'[v].status = "PENDING"  PROVE PendingOf(v)' # {}
    <3>1. v # u
      BY <1>7, <2>1
    <3>2. PICK d \in OperatorCalls : filed[d] = [by |-> v, status |-> "PENDING"]
      BY <1>7, <2>1, <3>1 DEF OperatorInv, NobodyWaitsForNothing, PendingOf
    <3>. QED
      BY <1>5, <1>6, <3>1, <3>2 DEF PendingOf
  <2>. QED
    BY <2>1 DEF NobodyWaitsForNothing
<1>11. ASSUME NEW d \in OperatorCalls  PROVE ApplicantKnown(d)'
  <2>1. ApplicantKnown(d) /\ (d # c => operatorCall'[d] = operatorCall[d])
    BY <1>1 DEF OperatorInv
  <2>2. \A v \in People : account[v].status # "NONE" => account'[v].status # "NONE"
    BY <1>7
  <2>3. filed'[d] = filed[d] \/ (filed[d].status # "NONE" /\ filed'[d].status # "NONE"
                                 /\ filed'[d].by = filed[d].by)
    BY <1>4, <1>5, <1>6
  <2>. QED
    BY <1>1, <2>1, <2>2, <2>3 DEF ApplicantKnown, Filing, NotFiled
<1>12. ASSUME NEW d \in OperatorCalls  PROVE ReviewFits(d)'
  <2>1. CASE d = c
    BY <1>1, <2>1 DEF ReviewFits
  <2>2. CASE d # c
    <3>1. operatorCall'[d] = operatorCall[d] /\ ReviewFits(d)
      BY <1>1, <2>2 DEF OperatorInv
    <3>2. operatorCall[d].about = r => r \in reviewsMet
      BY <1>3, <2>2 DEF OperatorInv, Reviewed
    <3>. QED
      BY <1>1, <1>6, <3>1, <3>2 DEF ReviewFits
  <2>. QED
    BY <2>1, <2>2
<1>. QED
  BY <1>1, <1>8, <1>9, <1>10, <1>11, <1>12 DEF OperatorInv

(* A new account is active, and has the role that the sign-up named.       *)
LEMMA Registers ==
  ASSUME OperatorInv, NEW u \in People, Register(u)
  PROVE  OperatorInv'
<1>1. PICK g \in Roles :
        /\ account[u].status = "NONE"
        /\ account' = [account EXCEPT ![u] = [status |-> "ACTIVE", role |-> g]]
        /\ roleGiven' = IF g = "PLAYER" THEN roleGiven ELSE roleGiven \cup {u}
        /\ UNCHANGED <<filed, operatorCall, reviewsMet>>
  BY DEF Register
<1>2. /\ account \in [People -> [status : {"NONE", "PENDING", "ACTIVE", "REJECTED"}, role : Roles]]
      /\ roleGiven \subseteq People
  BY DEF OperatorInv, OperatorsTypeOK
<1>3. /\ account' \in [People -> [status : {"NONE", "PENDING", "ACTIVE", "REJECTED"}, role : Roles]]
      /\ \A v \in People \ {u} : account'[v] = account[v]
      /\ account'[u].status = "ACTIVE" /\ account'[u].role = g
  BY <1>1, <1>2
<1>4. /\ roleGiven \subseteq roleGiven' /\ roleGiven' \subseteq People
      /\ g # "PLAYER" => u \in roleGiven'
  BY <1>1, <1>2
<1>5. OperatorsTypeOK'
  BY <1>1, <1>3, <1>4 DEF OperatorInv, OperatorsTypeOK
<1>6. LeadersWereApproved'
  <2>1. ASSUME NEW v \in People \ roleGiven', account'[v].role # "PLAYER"
        PROVE  \E d \in OperatorCalls : /\ filed'[d].by = v
                                        /\ filed'[d].status = "APPROVED" \/ d \in reviewsMet'
    BY <1>1, <1>3, <1>4, <2>1 DEF OperatorInv, LeadersWereApproved
  <2>2. ASSUME NEW d \in OperatorCalls, filed'[d].status = "APPROVED"
        PROVE  account'[filed'[d].by].role # "PLAYER"
    <3>1. filed[d].by \in People /\ filed[d].by # u /\ filed[d].status = "APPROVED"
      BY <1>1, <2>2 DEF OperatorInv, ApplicantKnown
    <3>. QED
      BY <1>1, <1>3, <3>1 DEF OperatorInv, LeadersWereApproved
  <2>. QED
    BY <2>1, <2>2 DEF LeadersWereApproved
<1>7. NobodyWaitsForNothing'
  <2>1. ASSUME NEW v \in People, account'[v].status = "PENDING"  PROVE PendingOf(v)' # {}
    <3>1. account[v].status = "PENDING"
      BY <1>3, <2>1
    <3>2. PendingOf(v) # {}
      BY <3>1 DEF OperatorInv, NobodyWaitsForNothing
    <3>. QED
      BY <1>1, <3>2 DEF PendingOf
  <2>. QED
    BY <2>1 DEF NobodyWaitsForNothing
<1>8. ASSUME NEW d \in OperatorCalls  PROVE ApplicantKnown(d)' /\ ReviewFits(d)'
  <2>1. ApplicantKnown(d) /\ ReviewFits(d)
    BY DEF OperatorInv
  <2>2. \A v \in People : account[v].status # "NONE" => account'[v].status # "NONE"
    BY <1>1, <1>3
  <2>3. ApplicantKnown(d)'
    BY <1>1, <2>1, <2>2 DEF ApplicantKnown
  <2>4. ReviewFits(d)'
    BY <1>1, <2>1 DEF ReviewFits
  <2>. QED
    BY <2>3, <2>4
<1>. QED
  BY <1>1, <1>5, <1>6, <1>7, <1>8 DEF OperatorInv, Reviewed

(* Every step keeps the invariant.                                         *)
LEMMA OperatorsStep == ASSUME OperatorInv, OperatorsNext PROVE OperatorInv'
<1>. USE DEF OperatorCall
<1>1. ASSUME NEW u \in People, Register(u)  PROVE OperatorInv'
  BY <1>1, Registers
<1>2. ASSUME NEW c \in OperatorCalls, FindMember(c)  PROVE OperatorInv'
  <2>1. PICK u \in People : /\ account[u].status # "NONE"
                           /\ OperatorBecomes(c, [NewOperatorCall EXCEPT !.at = "pending", !.by = u])
    BY <1>2 DEF FindMember
  <2>2. PICK r : r = [NewOperatorCall EXCEPT !.at = "pending", !.by = u]
    OBVIOUS
  <2>3. /\ r \in OperatorCall /\ r.at = "pending" /\ r.by = u /\ r.about = "none"
        /\ OperatorBecomes(c, r)
    BY <2>1, <2>2 DEF NewOperatorCall
  <2>. QED
    BY <1>2, <2>1, <2>3, OnlyMoves, OperatorsAssumption DEF FindMember, OperatorAt, Filing
<1>3. ASSUME NEW c \in OperatorCalls, OperatorDone(c), UNCHANGED <<account, filed>>
      PROVE  OperatorInv'
  <2>1. OperatorBecomes(c, [at |-> "done", by |-> "none", about |-> "none"])
    BY <1>3 DEF OperatorDone, NewOperatorCall
  <2>. QED
    BY <1>3, <2>1, OnlyMoves, OperatorsAssumption DEF Filing
<1>4. ASSUME NEW c \in OperatorCalls, FindPending(c)  PROVE OperatorInv'
  <2>1. CASE PendingOf(operatorCall[c].by) # {}
    BY <1>3, <1>4, <2>1 DEF FindPending
  <2>2. CASE PendingOf(operatorCall[c].by) = {}
    <3>1. /\ operatorCall[c] \in OperatorCall /\ operatorCall[c].at = "pending"
          /\ operatorCall[c].by \in People /\ operatorCall[c].about \notin OperatorCalls
          /\ account[operatorCall[c].by].status # "NONE"
      BY <1>4 DEF FindPending, OperatorAt, OperatorInv, OperatorsTypeOK, ApplicantKnown, ReviewFits
    <3>2. PICK r : r = [operatorCall[c] EXCEPT !.at = "file"]
      OBVIOUS
    <3>3. /\ r \in OperatorCall /\ r.at = "file" /\ r.by \in People /\ r.about \notin OperatorCalls
          /\ account[r.by].status # "NONE"
      BY <3>1, <3>2
    <3>4. OperatorBecomes(c, r) /\ UNCHANGED <<account, filed>>
      BY <1>4, <2>2, <3>2 DEF FindPending
    <3>. QED
      BY <3>1, <3>3, <3>4, OnlyMoves DEF Filing
  <2>. QED
    BY <2>1, <2>2
<1>5. ASSUME NEW c \in OperatorCalls, FileRequest(c)  PROVE OperatorInv'
  BY <1>5, Files DEF FileRequest, OperatorAt
<1>6. ASSUME NEW c \in OperatorCalls, FindAccount(c)  PROVE OperatorInv'
  <2>1. PICK u \in People : OperatorBecomes(c, [NewOperatorCall EXCEPT !.by = u,
            !.at = IF account[u].status = "NONE" THEN "create" ELSE "again"])
    BY <1>6 DEF FindAccount
  <2>2. PICK r : r = [NewOperatorCall EXCEPT !.by = u,
            !.at = IF account[u].status = "NONE" THEN "create" ELSE "again"]
    OBVIOUS
  <2>3. /\ r \in OperatorCall /\ r.at \in {"create", "again"} /\ r.by = u /\ r.about = "none"
        /\ OperatorBecomes(c, r)
    BY <2>1, <2>2 DEF NewOperatorCall
  <2>. QED
    BY <1>6, <2>3, OnlyMoves, OperatorsAssumption DEF FindAccount, OperatorAt, Filing
<1>7. ASSUME NEW c \in OperatorCalls, SignUp(c)  PROVE OperatorInv'
  <2>1. CASE UNCHANGED <<account, filed>>
    BY <1>3, <1>7, <2>1 DEF SignUp
  <2>2. CASE ~UNCHANGED <<account, filed>>
    BY <1>7, <2>2, Files DEF SignUp
  <2>. QED
    BY <2>1, <2>2
<1>8. ASSUME NEW c \in OperatorCalls, FindRequest(c)  PROVE OperatorInv'
  <2>1. PICK r \in OperatorCalls, d \in {"approve", "reject"} :
          /\ filed[r].status = "PENDING"
          /\ OperatorBecomes(c, [NewOperatorCall EXCEPT !.at = d, !.about = r])
    BY <1>8 DEF FindRequest
  <2>2. PICK n : n = [NewOperatorCall EXCEPT !.at = d, !.about = r]
    OBVIOUS
  <2>3. /\ n \in OperatorCall /\ n.at = d /\ n.by = "none" /\ n.about = r
        /\ OperatorBecomes(c, n)
    BY <2>1, <2>2 DEF NewOperatorCall
  <2>. QED
    BY <1>8, <2>1, <2>3, OnlyMoves DEF FindRequest, Filing
<1>9. ASSUME NEW c \in OperatorCalls, OperatorCallFails(c)  PROVE OperatorInv'
  BY <1>3, <1>9 DEF OperatorCallFails
<1>. QED
  BY <1>1, <1>2, <1>4, <1>5, <1>6, <1>7, <1>8, <1>9, Decides DEF OperatorsNext

(* The invariant holds throughout.                                         *)
LEMMA OperatorsInvariant == OperatorsSpec => []OperatorInv
<1>1. OperatorInv /\ [OperatorsNext]_operatorVars => OperatorInv'
  <2>1. ASSUME OperatorInv, UNCHANGED operatorVars  PROVE OperatorInv'
    BY <2>1 DEF operatorVars, OperatorInv, OperatorsTypeOK, Reviewed, LeadersWereApproved,
                NobodyWaitsForNothing, PendingOf, ApplicantKnown, ReviewFits
  <2>. QED
    BY <2>1, OperatorsStep
<1>. QED
  BY <1>1, OperatorsStart, PTL DEF OperatorsSpec

-----------------------------------------------------------------------------
(* Theorems                                                                *)

(* Accounts, requests for approval and what is under way are always of the *)
(* kinds the schema has.                                                   *)
THEOREM OperatorsTyped == OperatorsSpec => []OperatorsTypeOK
<1>1. OperatorInv => OperatorsTypeOK
  BY DEF OperatorInv
<1>. QED
  BY <1>1, OperatorsInvariant, PTL

(* operatorRequest.service.ts: however many people apply, sign up and are  *)
(* reviewed at once, whoever is an operator and signed up without a role   *)
(* has a request that stands approved, unless two reviews of it overlap,   *)
(* and whoever has an approved request is an operator.                     *)
THEOREM LeadersAreApproved == OperatorsSpec => []LeadersWereApproved
<1>1. OperatorInv => LeadersWereApproved
  BY DEF OperatorInv
<1>. QED
  BY <1>1, OperatorsInvariant, PTL

(* auth.service.ts: an account kept out until it is approved always has a  *)
(* request that can still be approved.                                     *)
THEOREM WaitingCanEnd == OperatorsSpec => []NobodyWaitsForNothing
<1>1. OperatorInv => NobodyWaitsForNothing
  BY DEF OperatorInv
<1>. QED
  BY <1>1, OperatorsInvariant, PTL

-----------------------------------------------------------------------------
(* Tokens: what the user asked for once runs once, and nobody is signed    *)
(* out without a cause                                                     *)

Tap == [kind : {"tap", "login", "guest", "logout", "renew", "renewed", "me"},
        at : {"new", "look", "send", "serve", "ask", "rotate", "write", "keepAccess",
              "keepRefresh", "dropAccess", "dropRefresh", "clearAccess", "clearRefresh", "done"},
        bearer : Nat, token : Nat, body : Nat, retried : BOOLEAN, again : BOOLEAN, ran : Nat,
        lost : BOOLEAN, result : {"none", "ok", "error"}]

\* How often a request has run, by where it stands: one that ran and is not over
\* lost its answer and was sent again for that.
RanOK(r) ==
  /\ r.at \notin {"done", "clearAccess", "clearRefresh"} =>
       /\ r.ran \in {0, 1} /\ (r.ran = 1 => r.lost /\ r.again) /\ r.result = "none"
  /\ r.at \in {"clearAccess", "clearRefresh"} =>
       /\ r.ran \in {0, 1, 2} /\ (r.ran > 0 => r.lost) /\ r.result = "none"
       /\ r.kind \in {"me", "logout"} \/ (r.at = "clearRefresh" /\ r.kind = "guest")
  /\ r.at = "done" => /\ r.ran <= 2
                      /\ r.ran = 2 \/ (r.result = "error" /\ r.ran > 0) => r.lost
                      /\ r.kind = "tap" /\ r.result = "ok" => r.ran > 0

Signs(r) == r.at \in {"ask", "rotate", "write", "keepAccess", "keepRefresh",
                      "dropAccess", "dropRefresh", "clearAccess", "clearRefresh"}

\* On the way from the answer that brought new tokens to the last write of them, or
\* to the end of the tokens.
KeepsTokens(r) == \/ r.at \in {"keepAccess", "keepRefresh"}
                  \/ (r.at = "clearRefresh" /\ r.kind = "guest")
DropsTokens(r) == \/ r.at \in {"dropAccess", "dropRefresh", "clearAccess"}
                  \/ (r.at = "clearRefresh" /\ r.kind # "guest")

\* Where nothing happened that may sign the device out, what asks for a new pair or
\* brings one holds what the server holds, and nothing but an empty storage is cleared.
TapFits(r) ==
  /\ r.kind # "logout"
  /\ DropsTokens(r) => kept = [access |-> 0, refresh |-> 0]
  /\ r.at = "ask" => r.token = column
  /\ r.at = "keepRefresh" => r.kind # "guest"
  /\ r.at \in {"keepAccess", "keepRefresh"} /\ r.kind # "guest" => r.token = column /\ column # 0
  /\ r.at = "clearRefresh" /\ r.kind = "guest" => asGuest

\* The device is signed in with the server's token, or without one as a guest, or not.
Settled == /\ kept.refresh \in {0, column}
           /\ kept.refresh = 0 => kept.access = 0 \/ asGuest

TapsCalm ==
  /\ ~expelled
  /\ \A d, e \in Taps : Signs(tap[d]) /\ Signs(tap[e]) => d = e
  /\ \A c \in Taps : TapFits(tap[c])
  /\ (\A c \in Taps : ~KeepsTokens(tap[c])) => Settled

TokensInv ==
  /\ TokensTypeOK
  /\ \A c \in Taps : RanOK(tap[c])
  /\ ~cause => TapsCalm

\* A step of request c to r: two that are about the tokens together are a cause.
TapGoes(c, r) ==
  /\ tap' = [tap EXCEPT ![c] = r]
  /\ cause' \in BOOLEAN /\ (cause => cause')
  /\ (\E d, e \in Signing(tap') : d # e) => cause'

-----------------------------------------------------------------------------
(* Lemmas                                                                  *)

(* At first the device is signed in with the tokens the server knows, or   *)
(* nobody is.                                                              *)
LEMMA TokensStart == ASSUME TokensInit PROVE TokensInv
<1>1. PICK n : n = NewTap
  OBVIOUS
<1>2. /\ n \in Tap /\ RanOK(n) /\ ~Signs(n) /\ TapFits(n) /\ ~KeepsTokens(n)
  BY <1>1 DEF NewTap, Tap, RanOK, Signs, TapFits, KeepsTokens, DropsTokens
<1>3. tap \in [Taps -> Tap] /\ \A c \in Taps : tap[c] = n
  BY <1>1, <1>2 DEF TokensInit
<1>4. TokensTypeOK
  <2>1. /\ second \in Nat \ {0} /\ column \in Nat /\ mishaps \in Nat
        /\ kept \in [access : Nat, refresh : Nat]
    BY DEF TokensInit
  <2>2. asGuest \in BOOLEAN /\ cause \in BOOLEAN /\ expelled \in BOOLEAN
    BY DEF TokensInit
  <2>. QED
    BY <1>3, <2>1, <2>2, Zenon DEF TokensTypeOK, Tap
<1>5. Settled /\ ~expelled
  BY DEF TokensInit, Settled
<1>6. TapsCalm
  BY <1>2, <1>3, <1>5 DEF TapsCalm
<1>. QED
  BY <1>2, <1>3, <1>4, <1>6 DEF TokensInv

(* What every step starts from.                                            *)
LEMMA TapStartsFrom ==
  ASSUME TokensInv, NEW c \in Taps
  PROVE  /\ second \in Nat \ {0} /\ column \in Nat /\ kept \in [access : Nat, refresh : Nat]
         /\ tap \in [Taps -> Tap] /\ tap[c] \in Tap /\ RanOK(tap[c])
         /\ mishaps \in Nat
         /\ asGuest \in BOOLEAN /\ cause \in BOOLEAN /\ expelled \in BOOLEAN
         /\ ~cause => TapFits(tap[c])
BY DEF TokensInv, TokensTypeOK, Tap, TapsCalm

(* A request that moves on leaves the others where they are, and is a      *)
(* cause if another is about the tokens as well.                           *)
LEMMA TapMoves ==
  ASSUME TokensInv, NEW c \in Taps, NEW r \in Tap, TapGoes(c, r)
  PROVE  /\ tap' \in [Taps -> Tap] /\ tap'[c] = r
         /\ \A d \in Taps \ {c} : tap'[d] = tap[d]
         /\ cause' \in BOOLEAN /\ (~cause' => ~cause)
         /\ ~cause' => \A d, e \in Taps : Signs(tap'[d]) /\ Signs(tap'[e]) => d = e
<1>1. /\ tap' = [tap EXCEPT ![c] = r] /\ tap \in [Taps -> Tap]
      /\ cause' \in BOOLEAN /\ (cause => cause')
      /\ (\E d, e \in Signing(tap') : d # e) => cause'
  BY DEF TokensInv, TokensTypeOK, Tap, TapGoes
<1>2. ~cause' => \A d, e \in Taps : Signs(tap'[d]) /\ Signs(tap'[e]) => d = e
  BY <1>1 DEF Signing, Signs
<1>. QED
  BY <1>1, <1>2

(* The types and counts after a step of one request.                       *)
LEMMA TypesKeep ==
  ASSUME TokensInv, NEW c \in Taps, NEW r \in Tap, RanOK(r), TapGoes(c, r),
         second' = second, column' \in Nat, kept' \in [access : Nat, refresh : Nat],
         mishaps' \in Nat,
         asGuest' \in BOOLEAN, expelled' \in BOOLEAN,
         ~cause' => TapsCalm'
  PROVE  TokensInv'
<1>1. /\ tap' \in [Taps -> Tap] /\ tap'[c] = r
      /\ \A d \in Taps \ {c} : tap'[d] = tap[d]
      /\ cause' \in BOOLEAN
  BY TapMoves
<1>2. TokensTypeOK'
  BY <1>1 DEF TokensInv, TokensTypeOK, Tap
<1>3. \A d \in Taps : RanOK(tap[d])'
  <2>1. \A d \in Taps : RanOK(tap'[d])
    BY <1>1 DEF TokensInv
  <2>. QED
    BY <2>1 DEF RanOK
<1>. QED
  BY <1>2, <1>3 DEF TokensInv

(* A step that leaves the tokens alone, or has a cause, keeps calm.        *)
LEMMA QuietKeeps ==
  ASSUME TokensInv, NEW c \in Taps, NEW r \in Tap, RanOK(r), TapGoes(c, r),
         second' = second, column' \in Nat, kept' \in [access : Nat, refresh : Nat],
         mishaps' \in Nat,
         asGuest' \in BOOLEAN, expelled' \in BOOLEAN,
         ~cause' => /\ UNCHANGED <<column, kept, asGuest, expelled>>
                    /\ TapFits(r)
                    /\ KeepsTokens(r) <=> KeepsTokens(tap[c])
  PROVE  TokensInv'
<1>1. /\ tap'[c] = r /\ \A d \in Taps \ {c} : tap'[d] = tap[d]
      /\ ~cause' => ~cause
      /\ ~cause' => \A d, e \in Taps : Signs(tap'[d]) /\ Signs(tap'[e]) => d = e
  BY TapMoves
<1>2. ASSUME ~cause'  PROVE TapsCalm'
  <2>1. TapsCalm /\ UNCHANGED <<column, kept, asGuest, expelled>>
    BY <1>1, <1>2 DEF TokensInv
  <2>2. ASSUME NEW d \in Taps  PROVE TapFits(tap[d])'
    <3>1. TapFits(tap'[d])
      BY <1>1, <1>2, <2>1 DEF TapsCalm
    <3>. QED
      BY <2>1, <3>1 DEF TapFits, DropsTokens
  <2>3. (\A d \in Taps : ~KeepsTokens(tap[d])') => Settled'
    <3>1. \A d \in Taps : KeepsTokens(tap[d])' <=> KeepsTokens(tap[d])
      BY <1>1, <1>2 DEF KeepsTokens
    <3>. QED
      BY <2>1, <3>1 DEF TapsCalm, Settled
  <2>4. \A d, e \in Taps : Signs(tap[d])' /\ Signs(tap[e])' => d = e
    BY <1>1, <1>2 DEF Signs
  <2>5. ~expelled'
    BY <2>1 DEF TapsCalm
  <2>. QED
    BY <2>2, <2>3, <2>4, <2>5 DEF TapsCalm
<1>. QED
  BY <1>2, TypesKeep

(* A step of a request that is the only one about the tokens, before or    *)
(* after it, may write them.                                               *)
LEMMA AloneKeeps ==
  ASSUME TokensInv, NEW c \in Taps, NEW r \in Tap, RanOK(r), TapGoes(c, r),
         second' = second, column' \in Nat, kept' \in [access : Nat, refresh : Nat],
         mishaps' = mishaps, expelled' = expelled,
         asGuest' \in BOOLEAN,
         Signs(r) \/ Signs(tap[c]),
         ~cause' => TapFits(r)' /\ (KeepsTokens(r) \/ Settled')
  PROVE  TokensInv'
<1>1. /\ tap'[c] = r /\ \A d \in Taps \ {c} : tap'[d] = tap[d]
      /\ ~cause' => ~cause
      /\ ~cause' => \A d, e \in Taps : Signs(tap'[d]) /\ Signs(tap'[e]) => d = e
  BY TapMoves
<1>2. ASSUME ~cause'  PROVE TapsCalm'
  <2>1. TapsCalm
    BY <1>1, <1>2 DEF TokensInv
  <2>2. ASSUME NEW d \in Taps \ {c}  PROVE ~Signs(tap[d])
    BY <1>1, <1>2, <2>1 DEF TapsCalm
  <2>3. ASSUME NEW d \in Taps  PROVE TapFits(tap[d])'
    <3>1. CASE d = c
      BY <1>1, <1>2, <3>1 DEF TapFits, DropsTokens
    <3>2. CASE d # c
      BY <1>1, <2>1, <2>2, <3>2 DEF TapsCalm, TapFits, Signs, DropsTokens
    <3>. QED
      BY <3>1, <3>2
  <2>4. (\A d \in Taps : ~KeepsTokens(tap[d])') => Settled'
    BY <1>1, <1>2 DEF KeepsTokens
  <2>5. \A d, e \in Taps : Signs(tap[d])' /\ Signs(tap[e])' => d = e
    BY <1>1, <1>2 DEF Signs
  <2>6. ~expelled'
    BY <2>1 DEF TapsCalm
  <2>. QED
    BY <2>3, <2>4, <2>5, <2>6 DEF TapsCalm
<1>3. mishaps' \in Nat /\ expelled' \in BOOLEAN
  BY TapStartsFrom
<1>. QED
  BY <1>2, <1>3, TypesKeep

(* What is left of a request that is over.                                 *)
LEMMA OverAs ==
  ASSUME NEW r \in Tap, NEW o \in {"ok", "error"}
  PROVE  /\ Over(r, o) \in Tap /\ Over(r, o).at = "done" /\ Over(r, o).ran = r.ran
         /\ (Over(r, o).lost <=> r.lost) /\ Over(r, o).result = o /\ Over(r, o).kind = r.kind
<1>1. PICK n : n = NewTap
  OBVIOUS
<1>2. n \in Tap
  BY <1>1 DEF NewTap, Tap
<1>3. Over(r, o) = [n EXCEPT !.kind = r.kind, !.at = "done", !.ran = r.ran,
                             !.lost = r.lost, !.result = o]
  BY <1>1 DEF Over
<1>. QED
  BY <1>2, <1>3 DEF Tap

(* What becomes of a request that has failed for good.                     *)
LEMMA FailedAs ==
  ASSUME NEW r \in Tap, r.ran \in {0, 1, 2}, r.ran > 0 => r.lost, r.result = "none"
  PROVE  /\ Failed(r) \in Tap /\ RanOK(Failed(r))
         /\ Failed(r).at \in {"send", "clearAccess", "done"}
         /\ Failed(r).at = "clearAccess" => r.kind \in {"me", "logout"}
         /\ Failed(r).kind = "logout" => r.kind = "logout"
<1>1. CASE r.kind = "renew"
  <2>1. PICK n, f : n = NewTap /\ f = [n EXCEPT !.kind = "me", !.at = "send"]
    OBVIOUS
  <2>2. n \in Tap /\ n.ran = 0 /\ n.result = "none"
    BY <2>1 DEF NewTap, Tap
  <2>3. f \in Tap /\ f.at = "send" /\ f.ran = 0 /\ f.result = "none" /\ f.kind = "me"
    BY <2>1, <2>2 DEF Tap
  <2>4. Failed(r) = f
    BY <1>1, <2>1 DEF Failed, AskMe
  <2>. QED
    BY <2>3, <2>4 DEF RanOK
<1>2. CASE r.kind \in {"me", "logout"}
  <2>1. PICK f : f = [r EXCEPT !.at = "clearAccess"]
    OBVIOUS
  <2>2. /\ f \in Tap /\ f.at = "clearAccess" /\ f.ran = r.ran /\ (f.lost <=> r.lost)
        /\ f.result = r.result /\ f.kind = r.kind
    BY <2>1 DEF Tap
  <2>3. Failed(r) = f
    BY <1>2, <2>1 DEF Failed
  <2>. QED
    BY <1>2, <2>2, <2>3 DEF RanOK
<1>3. CASE r.kind \notin {"renew", "me", "logout"}
  <2>1. PICK f : f = Over(r, "error")
    OBVIOUS
  <2>2. /\ f \in Tap /\ f.at = "done" /\ f.ran = r.ran /\ (f.lost <=> r.lost)
        /\ f.result = "error" /\ f.kind = r.kind
    BY <2>1, OverAs
  <2>3. Failed(r) = f
    BY <1>3, <2>1 DEF Failed
  <2>. QED
    BY <1>3, <2>2, <2>3 DEF RanOK
<1>. QED
  BY <1>1, <1>2, <1>3

(* What becomes of a request that is refused.                              *)
LEMMA UnauthorizedAs ==
  ASSUME TokensInv, NEW r \in Tap, RanOK(r), r.at \in {"serve", "write"}
  PROVE  /\ Unauthorized(r) \in Tap /\ RanOK(Unauthorized(r))
         /\ Unauthorized(r).at \in {"send", "clearAccess", "done", "dropAccess", "ask"}
         /\ Unauthorized(r).at = "clearAccess" => r.kind \in {"me", "logout"} /\ r.retried
         /\ Unauthorized(r).at = "dropAccess" => kept.refresh = 0 /\ ~r.retried
         /\ Unauthorized(r).at = "ask" => Unauthorized(r).token = kept.refresh /\ kept.refresh # 0
         /\ Unauthorized(r).kind = "logout" => r.kind = "logout"
<1>1. r.ran \in {0, 1, 2} /\ (r.ran > 0 => r.lost) /\ (r.ran = 1 => r.again) /\ r.result = "none"
      /\ r.ran \in {0, 1}
  BY DEF RanOK
<1>2. CASE r.retried
  <2>1. Unauthorized(r) = Failed(r)
    BY <1>2 DEF Unauthorized
  <2>. QED
    BY <1>1, <1>2, <2>1, FailedAs
<1>3. CASE ~r.retried
  <2>1. PICK u : u = [r EXCEPT !.retried = TRUE, !.token = kept.refresh, !.bearer = 0,
                               !.at = IF kept.refresh = 0 THEN "dropAccess" ELSE "ask"]
    OBVIOUS
  <2>2. kept.refresh \in Nat
    BY DEF TokensInv, TokensTypeOK
  <2>3. /\ u \in Tap /\ u.ran = r.ran /\ (u.lost <=> r.lost) /\ (u.again <=> r.again)
        /\ u.result = r.result /\ u.kind = r.kind /\ u.token = kept.refresh
        /\ u.at = IF kept.refresh = 0 THEN "dropAccess" ELSE "ask"
    BY <2>1, <2>2 DEF Tap
  <2>4. Unauthorized(r) = u
    BY <1>3, <2>1 DEF Unauthorized
  <2>. QED
    BY <1>1, <1>3, <2>3, <2>4 DEF RanOK
<1>. QED
  BY <1>2, <1>3

(* A refusal without a cause leaves calm: the request asks with what the   *)
(* server holds, or has nothing to clear.                                  *)
LEMMA RefusalKeeps ==
  ASSUME TokensInv, NEW c \in Taps, tap[c].at \in {"serve", "write"},
         TapBecause(c, Unauthorized(tap[c]), RefusedForGood(tap[c])),
         mishaps' \in Nat, UNCHANGED <<second, column, kept, asGuest, expelled>>
  PROVE  TokensInv'
<1>1. /\ column \in Nat /\ kept \in [access : Nat, refresh : Nat]
      /\ tap[c] \in Tap /\ RanOK(tap[c]) /\ asGuest \in BOOLEAN /\ cause \in BOOLEAN
      /\ expelled \in BOOLEAN
      /\ ~cause => TapFits(tap[c])
  BY TapStartsFrom
<1>2. PICK r : r = Unauthorized(tap[c])
  OBVIOUS
<1>3. /\ r \in Tap /\ RanOK(r) /\ r.at \in {"send", "clearAccess", "done", "dropAccess", "ask"}
      /\ r.at = "clearAccess" => tap[c].kind \in {"me", "logout"} /\ tap[c].retried
      /\ r.at = "dropAccess" => kept.refresh = 0 /\ ~tap[c].retried
      /\ r.at = "ask" => r.token = kept.refresh /\ kept.refresh # 0
      /\ r.kind = "logout" => tap[c].kind = "logout"
  BY <1>1, <1>2, UnauthorizedAs
<1>4. TapGoes(c, r) /\ (~cause' => ~RefusedForGood(tap[c]))
  BY <1>1, <1>2 DEF TapBecause, TapGoes
<1>5. ~KeepsTokens(r) /\ ~KeepsTokens(tap[c])
  BY <1>3 DEF KeepsTokens
<1>6. ASSUME ~cause'  PROVE TapFits(r)
  <2>1. /\ tap'[c] = r /\ \A d \in Taps \ {c} : tap'[d] = tap[d]
        /\ ~cause /\ \A d, e \in Taps : Signs(tap'[d]) /\ Signs(tap'[e]) => d = e
    BY <1>3, <1>4, <1>6, TapMoves
  <2>2. TapsCalm /\ tap[c].kind # "logout"
    BY <1>1, <2>1 DEF TokensInv, TapFits
  <2>3. r.at # "clearAccess"
    BY <1>3, <1>4, <1>6, <2>2 DEF RefusedForGood
  <2>4. CASE r.at \in {"send", "done"}
    BY <1>3, <2>2, <2>4 DEF TapFits, DropsTokens
  <2>5. CASE r.at \in {"ask", "dropAccess"}
    <3>1. ASSUME NEW d \in Taps  PROVE ~KeepsTokens(tap[d])
      BY <1>5, <2>1, <2>5 DEF KeepsTokens, Signs
    <3>2. Settled
      BY <2>2, <3>1 DEF TapsCalm
    <3>3. CASE r.at = "ask"
      BY <1>3, <2>2, <3>2, <3>3 DEF TapFits, DropsTokens, Settled
    <3>4. CASE r.at = "dropAccess"
      <4>1. kept.refresh = 0 /\ ~asGuest
        BY <1>3, <1>4, <1>6, <3>4 DEF RefusedForGood
      <4>2. kept = [access |-> 0, refresh |-> 0]
        BY <1>1, <3>2, <4>1 DEF Settled
      <4>. QED
        BY <1>3, <2>2, <3>4, <4>2 DEF TapFits, DropsTokens
    <3>. QED
      BY <2>5, <3>3, <3>4
  <2>. QED
    BY <1>3, <2>3, <2>4, <2>5
<1>. QED
  BY <1>1, <1>3, <1>4, <1>5, <1>6, QuietKeeps

(* A request is begun, sent, or served, or loadUser looks what to renew.   *)
LEMMA BeginsKeep ==
  ASSUME TokensInv, NEW c \in Taps,
         \/ SendTap(c) \/ LoadUser(c) \/ LookForRefresh(c) \/ SignIn(c) \/ Logout(c) \/ Serve(c)
  PROVE  TokensInv'
<1>1. /\ second \in Nat \ {0} /\ column \in Nat /\ kept \in [access : Nat, refresh : Nat]
      /\ tap[c] \in Tap /\ RanOK(tap[c]) /\ mishaps \in Nat
      /\ asGuest \in BOOLEAN /\ cause \in BOOLEAN /\ expelled \in BOOLEAN
      /\ ~cause => TapFits(tap[c])
  BY TapStartsFrom
<1>2. UNCHANGED <<second, column, kept, mishaps, asGuest, expelled>>
  BY DEF SendTap, LoadUser, LookForRefresh, SignIn, Logout, Serve
<1>3. tap[c].at \in {"new", "look", "send", "serve"} /\ ~KeepsTokens(tap[c])
  BY DEF SendTap, LoadUser, LookForRefresh, SignIn, Logout, Serve, TapAt, KeepsTokens
<1>4. ASSUME NEW r \in Tap, RanOK(r), TapGoes(c, r), r.at \in {"look", "send", "serve", "done"},
             ~cause' => r.kind # "logout"
      PROVE  TokensInv'
  <2>1. ~KeepsTokens(r) /\ (~cause' => TapFits(r))
    BY <1>4 DEF KeepsTokens, TapFits, DropsTokens
  <2>. QED
    BY <1>1, <1>2, <1>3, <1>4, <2>1, QuietKeeps
<1>5. ASSUME NEW n, n = NewTap, NEW k \in {"tap", "login", "guest", "logout", "renew", "me"},
             NEW l \in {"look", "send"}, NEW r, r = [n EXCEPT !.kind = k, !.at = l],
             TapGoes(c, r), ~cause' => k # "logout"
      PROVE  TokensInv'
  <2>1. n \in Tap /\ n.ran = 0 /\ n.result = "none"
    BY <1>5 DEF NewTap, Tap
  <2>2. r = [n EXCEPT !.kind = k, !.at = l]
    BY <1>5
  <2>3. r \in Tap /\ r.kind = k /\ r.at = l /\ r.ran = 0 /\ r.result = "none"
    BY <2>1, <2>2 DEF Tap
  <2>4. RanOK(r)
    BY <2>3 DEF RanOK
  <2>. QED
    BY <1>4, <1>5, <2>3, <2>4
<1>6. CASE SendTap(c)
  <2>1. PICK r : r = [tap[c] EXCEPT !.at = "serve",
                        !.bearer = IF kept.access = 0 THEN @ ELSE kept.access]
    OBVIOUS
  <2>2. TapGoes(c, r)
    BY <1>1, <1>6, <2>1 DEF SendTap, TapBecomes, TapBecause, TapGoes
  <2>3. /\ r \in Tap /\ r.at = "serve" /\ r.ran = tap[c].ran /\ (r.lost <=> tap[c].lost)
        /\ (r.again <=> tap[c].again) /\ r.result = tap[c].result /\ r.kind = tap[c].kind
    BY <1>1, <2>1 DEF Tap
  <2>4. RanOK(r)
    BY <1>1, <1>3, <2>3 DEF RanOK
  <2>5. ~cause' => r.kind # "logout"
    BY <1>1, <2>2, <2>3 DEF TapGoes, TapFits
  <2>. QED
    BY <1>4, <2>2, <2>3, <2>4, <2>5
<1>7. CASE LoadUser(c)
  <2>1. PICK n, r : n = NewTap /\ r = [n EXCEPT !.kind = "renew", !.at = "look"]
    OBVIOUS
  <2>2. TapGoes(c, r)
    BY <1>1, <1>7, <2>1 DEF LoadUser, TapBecomes, TapBecause, TapGoes
  <2>. QED
    BY <1>5, <2>1, <2>2
<1>8. CASE LookForRefresh(c)
  <2>1. CASE kept.refresh = 0
    <3>1. PICK n, r : n = NewTap /\ r = [n EXCEPT !.kind = "me", !.at = "send"]
      OBVIOUS
    <3>2. TapGoes(c, r)
      BY <1>1, <1>8, <2>1, <3>1 DEF LookForRefresh, AskMe, TapBecomes, TapBecause, TapGoes
    <3>. QED
      BY <1>5, <3>1, <3>2
  <2>2. CASE kept.refresh # 0
    <3>1. PICK r : r = [tap[c] EXCEPT !.at = "send", !.body = kept.refresh]
      OBVIOUS
    <3>2. TapGoes(c, r)
      BY <1>1, <1>8, <2>2, <3>1 DEF LookForRefresh, TapBecomes, TapBecause, TapGoes
    <3>3. /\ r \in Tap /\ r.at = "send" /\ r.ran = tap[c].ran /\ (r.lost <=> tap[c].lost)
          /\ (r.again <=> tap[c].again) /\ r.result = tap[c].result /\ r.kind = tap[c].kind
      BY <1>1, <3>1 DEF Tap
    <3>4. RanOK(r)
      BY <1>1, <1>3, <3>3 DEF RanOK
    <3>5. ~cause' => r.kind # "logout"
      BY <1>1, <3>2, <3>3 DEF TapGoes, TapFits
    <3>. QED
      BY <1>4, <3>2, <3>3, <3>4, <3>5
  <2>. QED
    BY <2>1, <2>2
<1>9. CASE SignIn(c)
  <2>1. PICK k \in {"login", "guest"} : TapBecomes(c, [NewTap EXCEPT !.kind = k, !.at = "send"])
    BY <1>9 DEF SignIn
  <2>2. PICK n, r : n = NewTap /\ r = [n EXCEPT !.kind = k, !.at = "send"]
    OBVIOUS
  <2>3. TapGoes(c, r)
    BY <1>1, <2>1, <2>2 DEF TapBecomes, TapBecause, TapGoes
  <2>. QED
    BY <1>5, <2>2, <2>3
<1>10. CASE Logout(c)
  <2>1. PICK n, r : n = NewTap /\ r = [n EXCEPT !.kind = "logout", !.at = "send"]
    OBVIOUS
  <2>2. TapGoes(c, r) /\ cause'
    BY <1>1, <1>10, <2>1 DEF Logout, TapBecause, TapGoes
  <2>. QED
    BY <1>5, <2>1, <2>2
<1>11. CASE Serve(c)
  <2>1. PICK n, r : n = [tap[c] EXCEPT !.ran = @ + 1] /\ r = Over(n, "ok")
    OBVIOUS
  <2>2. TapGoes(c, r) /\ tap[c].at = "serve"
    BY <1>1, <1>11, <2>1 DEF Serve, TapAt, TapBecomes, TapBecause, TapGoes
  <2>3. /\ r \in Tap /\ r.at = "done" /\ r.ran = tap[c].ran + 1 /\ (r.lost <=> tap[c].lost)
        /\ r.result = "ok" /\ r.kind = tap[c].kind
    <3>1. tap[c].ran + 1 \in Nat
      BY <1>1 DEF Tap
    <3>2. /\ n \in Tap /\ n.ran = tap[c].ran + 1 /\ (n.lost <=> tap[c].lost)
          /\ n.kind = tap[c].kind
      BY <1>1, <2>1, <3>1 DEF Tap
    <3>3. r = Over(n, "ok")
      BY <2>1
    <3>4. /\ r \in Tap /\ r.at = "done" /\ r.ran = n.ran /\ (r.lost <=> n.lost)
          /\ r.result = "ok" /\ r.kind = n.kind
      BY <3>2, <3>3, OverAs
    <3>. QED
      BY <3>2, <3>4
  <2>4. RanOK(r)
    BY <1>1, <2>2, <2>3 DEF RanOK
  <2>5. ~cause' => r.kind # "logout"
    BY <1>1, <2>2, <2>3 DEF TapGoes, TapFits
  <2>. QED
    BY <1>4, <2>2, <2>3, <2>4, <2>5
<1>. QED
  BY <1>6, <1>7, <1>8, <1>9, <1>10, <1>11

(* What is refused, lost or fails for good clears nothing without a cause. *)
LEMMA FailureKeeps ==
  ASSUME TokensInv, NEW c \in Taps,
         \/ Refused(c) \/ AnswerLost(c) \/ ServerFails(c) \/ CompareBody(c)
  PROVE  TokensInv'
<1>1. /\ second \in Nat \ {0} /\ column \in Nat /\ kept \in [access : Nat, refresh : Nat]
      /\ tap[c] \in Tap /\ RanOK(tap[c]) /\ mishaps \in Nat
      /\ asGuest \in BOOLEAN /\ cause \in BOOLEAN /\ expelled \in BOOLEAN
      /\ ~cause => TapFits(tap[c])
  BY TapStartsFrom
<1>2. UNCHANGED <<second, kept, asGuest, expelled>> /\ tap[c].at \in {"serve", "write"}
  BY DEF Refused, AnswerLost, ServerFails, CompareBody, TapAt
<1>3. mishaps' \in Nat
  <2>1. mishaps + 1 \in Nat
    BY <1>1
  <2>. QED
    BY <1>1, <2>1 DEF Refused, AnswerLost, ServerFails, CompareBody, Mishap
<1>4. /\ ~KeepsTokens(tap[c])
      /\ tap[c].ran \in {0, 1} /\ (tap[c].ran = 1 => tap[c].lost /\ tap[c].again)
      /\ tap[c].result = "none"
  BY <1>1, <1>2 DEF KeepsTokens, RanOK
<1>5. ASSUME TapBecause(c, Unauthorized(tap[c]), RefusedForGood(tap[c])), column' = column
      PROVE  TokensInv'
  BY <1>2, <1>3, <1>5, RefusalKeeps
<1>6. ASSUME NEW r \in Tap, RanOK(r), TapGoes(c, r), r.at \in {"send", "write", "done", "clearAccess"},
             column' \in Nat,
             ~cause' => column' = column /\ r.at # "clearAccess" /\ r.kind # "logout"
      PROVE  TokensInv'
  <2>1. ~KeepsTokens(r) /\ (~cause' => TapFits(r))
    BY <1>6 DEF KeepsTokens, TapFits, DropsTokens
  <2>. QED
    BY <1>1, <1>2, <1>3, <1>4, <1>6, <2>1, QuietKeeps
<1>7. CASE Refused(c)
  BY <1>5, <1>7 DEF Refused
<1>8. CASE AnswerLost(c)
  <2>1. PICK n \in Runs(tap[c]) :
          /\ column' = IF n = 1 THEN Written(tap[c]) ELSE column
          /\ TapBecause(c,
               IF tap[c].again THEN Failed(Ran(tap[c], n)) ELSE SentAgain(Ran(tap[c], n)),
               \/ (n = 1 /\ tap[c].kind \in {"login", "renew"})
               \/ (tap[c].again /\ tap[c].kind = "me"))
    BY <1>8 DEF AnswerLost
  <2>2. n \in {0, 1}
    BY <2>1 DEF Runs
  <2>3. PICK m : m = Ran(tap[c], n)
    OBVIOUS
  <2>4. /\ m \in Tap /\ m.ran = tap[c].ran + n /\ (m.lost <=> tap[c].lost \/ n = 1)
        /\ m.result = "none" /\ m.kind = tap[c].kind
    <3>1. tap[c].ran + n \in Nat
      BY <1>4, <2>2
    <3>2. (tap[c].lost \/ n = 1) \in BOOLEAN
      OBVIOUS
    <3>. QED
      BY <1>1, <1>4, <2>3, <3>1, <3>2 DEF Ran, Tap
  <2>5. m.ran \in {0, 1, 2} /\ (m.ran > 0 => m.lost)
    BY <1>4, <2>2, <2>4
  <2>6. PICK r : r = IF tap[c].again THEN Failed(m) ELSE SentAgain(m)
    OBVIOUS
  <2>7. TapGoes(c, r)
    BY <1>1, <2>1, <2>3, <2>6 DEF TapBecause, TapGoes
  <2>8. ~cause' => /\ ~cause /\ ~(n = 1 /\ tap[c].kind \in {"login", "renew"})
                   /\ ~(tap[c].again /\ tap[c].kind = "me")
    BY <2>1 DEF TapBecause
  <2>9. column' \in Nat /\ (~cause' => column' = column /\ tap[c].kind # "logout")
    BY <1>1, <2>1, <2>8 DEF Written, TapFits
  <2>10. CASE tap[c].again
    <3>1. r = Failed(m)
      BY <2>6, <2>10
    <3>2. /\ r \in Tap /\ RanOK(r) /\ r.at \in {"send", "clearAccess", "done"}
          /\ r.at = "clearAccess" => m.kind \in {"me", "logout"}
          /\ r.kind = "logout" => m.kind = "logout"
      BY <2>4, <2>5, <3>1, FailedAs
    <3>. QED
      BY <1>6, <2>4, <2>7, <2>8, <2>9, <2>10, <3>2
  <2>11. CASE ~tap[c].again
    <3>1. r = [m EXCEPT !.at = "send", !.again = TRUE]
      BY <2>6, <2>11 DEF SentAgain
    <3>2. /\ r \in Tap /\ r.at = "send" /\ r.ran = m.ran /\ (r.lost <=> m.lost) /\ r.again
          /\ r.result = "none" /\ r.kind = m.kind
      BY <2>4, <3>1 DEF Tap
    <3>3. RanOK(r)
      BY <1>4, <2>2, <2>4, <2>5, <2>11, <3>2 DEF RanOK
    <3>. QED
      BY <1>6, <2>4, <2>7, <2>9, <3>2, <3>3
  <2>. QED
    BY <2>10, <2>11
<1>9. CASE ServerFails(c)
  <2>1. CASE tap[c].kind = "renew"
    BY <1>5, <1>9, <2>1 DEF ServerFails
  <2>2. CASE tap[c].kind # "renew"
    <3>1. PICK r : r = Failed(tap[c])
      OBVIOUS
    <3>2. /\ TapGoes(c, r) /\ column' = column
          /\ ~cause' => ~cause /\ tap[c].kind # "me"
      BY <1>1, <1>9, <2>2, <3>1 DEF ServerFails, TapBecause, TapGoes
    <3>3. /\ r \in Tap /\ RanOK(r) /\ r.at \in {"send", "clearAccess", "done"}
          /\ r.at = "clearAccess" => tap[c].kind \in {"me", "logout"}
          /\ r.kind = "logout" => tap[c].kind = "logout"
      <4>1. tap[c].ran \in {0, 1, 2} /\ (tap[c].ran > 0 => tap[c].lost)
        BY <1>4
      <4>. QED
        BY <1>1, <1>4, <3>1, <4>1, FailedAs
    <3>4. ~cause' => tap[c].kind # "logout"
      BY <1>1, <3>2 DEF TapFits
    <3>. QED
      BY <1>1, <1>6, <3>2, <3>3, <3>4
  <2>. QED
    BY <2>1, <2>2
<1>10. CASE CompareBody(c)
  <2>1. CASE column = tap[c].body /\ Fresh(tap[c].body)
    <3>1. PICK r : r = [tap[c] EXCEPT !.at = "write"]
      OBVIOUS
    <3>2. TapGoes(c, r) /\ column' = column /\ tap[c].kind = "renew"
      BY <1>1, <1>10, <2>1, <3>1 DEF CompareBody, TapBecomes, TapBecause, TapGoes
    <3>3. /\ r \in Tap /\ r.at = "write" /\ r.ran = tap[c].ran /\ (r.lost <=> tap[c].lost)
          /\ (r.again <=> tap[c].again) /\ r.result = "none" /\ r.kind = tap[c].kind
      BY <1>1, <1>4, <3>1 DEF Tap
    <3>4. RanOK(r)
      BY <1>4, <3>3 DEF RanOK
    <3>. QED
      BY <1>1, <1>6, <3>2, <3>3, <3>4
  <2>2. CASE ~(column = tap[c].body /\ Fresh(tap[c].body))
    BY <1>5, <1>10, <2>2 DEF CompareBody
  <2>. QED
    BY <2>1, <2>2
<1>. QED
  BY <1>7, <1>8, <1>9, <1>10

(* The interceptor's refresh is granted unless there was a cause to refuse *)
(* it, and a logout is one.                                                *)
LEMMA AskedKeeps ==
  ASSUME TokensInv, NEW c \in Taps, CompareToken(c) \/ RefreshLost(c) \/ Revoke(c)
  PROVE  TokensInv'
<1>1. /\ second \in Nat \ {0} /\ column \in Nat /\ kept \in [access : Nat, refresh : Nat]
      /\ tap[c] \in Tap /\ RanOK(tap[c]) /\ mishaps \in Nat
      /\ asGuest \in BOOLEAN /\ cause \in BOOLEAN /\ expelled \in BOOLEAN
      /\ ~cause => TapFits(tap[c])
  BY TapStartsFrom
<1>2. UNCHANGED <<second, kept, asGuest, expelled>>
  BY DEF CompareToken, RefreshLost, Revoke
<1>3. mishaps' \in Nat
  <2>1. mishaps + 1 \in Nat
    BY <1>1
  <2>. QED
    BY <1>1, <2>1 DEF CompareToken, RefreshLost, Revoke, Mishap
<1>4. ASSUME NEW l \in {"rotate", "dropAccess", "clearAccess"}, NEW r,
             r = [tap[c] EXCEPT !.at = l],
             tap[c].at \in {"ask", "rotate", "keepAccess", "serve"},
             l = "clearAccess" => tap[c].kind = "logout"
      PROVE  /\ r \in Tap /\ RanOK(r) /\ r.at = l /\ r.kind = tap[c].kind
  <2>1. /\ r \in Tap /\ r.at = l /\ r.ran = tap[c].ran /\ (r.lost <=> tap[c].lost)
        /\ (r.again <=> tap[c].again) /\ r.result = tap[c].result /\ r.kind = tap[c].kind
    BY <1>1, <1>4 DEF Tap
  <2>2. RanOK(r)
    BY <1>1, <1>4, <2>1 DEF RanOK
  <2>. QED
    BY <2>1, <2>2
<1>5. CASE CompareToken(c)
  <2>1. PICK l : l = IF column = tap[c].token /\ Fresh(tap[c].token) THEN "rotate" ELSE "dropAccess"
    OBVIOUS
  <2>2. PICK r : r = [tap[c] EXCEPT !.at = l]
    OBVIOUS
  <2>3. /\ TapGoes(c, r) /\ tap[c].at = "ask" /\ column' = column
        /\ ~cause' => ~cause /\ Fresh(tap[c].token)
    BY <1>1, <1>5, <2>1, <2>2 DEF CompareToken, TapAt, TapBecause, TapGoes
  <2>4. r \in Tap /\ RanOK(r) /\ r.at = l /\ r.kind = tap[c].kind
    BY <1>4, <2>1, <2>2, <2>3
  <2>5. ~KeepsTokens(r) /\ ~KeepsTokens(tap[c])
    BY <2>1, <2>3, <2>4 DEF KeepsTokens
  <2>6. ~cause' => TapFits(r)
    BY <1>1, <2>1, <2>3, <2>4 DEF TapFits, DropsTokens
  <2>. QED
    BY <1>1, <1>2, <1>3, <2>3, <2>4, <2>5, <2>6, QuietKeeps
<1>6. CASE RefreshLost(c)
  <2>1. PICK r : r = [tap[c] EXCEPT !.at = "dropAccess"]
    OBVIOUS
  <2>2. TapGoes(c, r) /\ tap[c].at \in {"ask", "rotate", "keepAccess"} /\ column' = column /\ cause'
    BY <1>1, <1>6, <2>1 DEF RefreshLost, TapAt, TapBecause, TapGoes
  <2>3. r \in Tap /\ RanOK(r)
    BY <1>4, <2>1, <2>2
  <2>. QED
    BY <1>1, <1>2, <1>3, <2>2, <2>3, QuietKeeps
<1>7. CASE Revoke(c)
  <2>1. PICK r : r = [tap[c] EXCEPT !.at = "clearAccess"]
    OBVIOUS
  <2>2. TapGoes(c, r) /\ tap[c].at = "serve" /\ tap[c].kind = "logout"
    BY <1>1, <1>7, <2>1 DEF Revoke, TapAt, TapBecomes, TapBecause, TapGoes
  <2>3. r \in Tap /\ RanOK(r)
    BY <1>4, <2>1, <2>2
  <2>4. column' \in Nat
    BY <1>1, <1>7 DEF Revoke, Written
  <2>5. cause'
    BY <1>1, <2>2 DEF TapGoes, TapFits
  <2>. QED
    BY <1>1, <1>2, <1>3, <2>2, <2>3, <2>4, <2>5, QuietKeeps
<1>. QED
  BY <1>5, <1>6, <1>7

(* Without a cause, what is dropped was not there.                         *)
LEMMA DropsKeep ==
  ASSUME TokensInv, NEW c \in Taps,
         \/ DropAccess(c) \/ DropRefresh(c) \/ ClearAccess(c)
         \/ ClearRefresh(c) /\ tap[c].kind # "guest"
  PROVE  TokensInv'
<1>1. /\ second \in Nat \ {0} /\ column \in Nat /\ kept \in [access : Nat, refresh : Nat]
      /\ tap[c] \in Tap /\ RanOK(tap[c]) /\ mishaps \in Nat
      /\ asGuest \in BOOLEAN /\ cause \in BOOLEAN /\ expelled \in BOOLEAN
      /\ ~cause => TapFits(tap[c])
  BY TapStartsFrom
<1>2. /\ UNCHANGED <<second, column, mishaps, asGuest>>
      /\ DropsTokens(tap[c]) /\ ~KeepsTokens(tap[c])
  BY DEF DropAccess, DropRefresh, ClearAccess, ClearRefresh, TapAt, DropsTokens, KeepsTokens
<1>3. /\ kept' \in [access : Nat, refresh : Nat] /\ expelled' \in BOOLEAN
      /\ kept = [access |-> 0, refresh |-> 0] => UNCHANGED <<kept, expelled>>
  <2>1. CASE DropAccess(c)
    BY <1>1, <2>1 DEF DropAccess
  <2>2. CASE DropRefresh(c)
    BY <1>1, <2>2 DEF DropRefresh
  <2>3. CASE ClearAccess(c)
    BY <1>1, <2>3 DEF ClearAccess
  <2>4. CASE ClearRefresh(c)
    BY <1>1, <2>4 DEF ClearRefresh
  <2>. QED
    BY <2>1, <2>2, <2>3, <2>4
<1>4. ASSUME NEW r \in Tap, RanOK(r), TapGoes(c, r), ~KeepsTokens(r),
             r.at \in {"dropRefresh", "send", "clearAccess", "clearRefresh", "done"},
             r.kind = "logout" => tap[c].kind = "logout"
      PROVE  TokensInv'
  <2>1. ASSUME ~cause'  PROVE UNCHANGED <<column, kept, asGuest, expelled>> /\ TapFits(r)
    <3>1. TapFits(tap[c])
      BY <1>1, <1>4, <2>1 DEF TapGoes
    <3>2. kept = [access |-> 0, refresh |-> 0] /\ r.kind # "logout"
      BY <1>2, <1>4, <3>1 DEF TapFits
    <3>3. TapFits(r)
      BY <1>4, <3>2 DEF TapFits, KeepsTokens
    <3>. QED
      BY <1>2, <1>3, <3>2, <3>3
  <2>. QED
    BY <1>1, <1>2, <1>3, <1>4, <2>1, QuietKeeps
<1>5. ASSUME NEW l \in {"dropRefresh", "clearRefresh"}, NEW r, r = [tap[c] EXCEPT !.at = l],
             tap[c].at \in {"dropAccess", "clearAccess"},
             l = "clearRefresh" <=> tap[c].at = "clearAccess",
             TapGoes(c, r)
      PROVE  TokensInv'
  <2>1. /\ r \in Tap /\ r.at = l /\ r.ran = tap[c].ran /\ (r.lost <=> tap[c].lost)
        /\ (r.again <=> tap[c].again) /\ r.result = tap[c].result /\ r.kind = tap[c].kind
    BY <1>1, <1>5 DEF Tap
  <2>2. RanOK(r)
    BY <1>1, <1>5, <2>1 DEF RanOK
  <2>3. ~KeepsTokens(r)
    BY <1>1, <1>5, <2>1 DEF KeepsTokens, RanOK
  <2>. QED
    BY <1>4, <1>5, <2>1, <2>2, <2>3
<1>6. CASE DropAccess(c)
  <2>1. PICK r : r = [tap[c] EXCEPT !.at = "dropRefresh"]
    OBVIOUS
  <2>2. TapGoes(c, r) /\ tap[c].at = "dropAccess"
    BY <1>1, <1>6, <2>1 DEF DropAccess, TapAt, TapBecomes, TapBecause, TapGoes
  <2>. QED
    BY <1>5, <2>1, <2>2
<1>7. CASE DropRefresh(c)
  <2>1. PICK r : r = Failed(tap[c])
    OBVIOUS
  <2>2. TapGoes(c, r) /\ tap[c].at = "dropRefresh"
    BY <1>1, <1>7, <2>1 DEF DropRefresh, TapAt, TapBecomes, TapBecause, TapGoes
  <2>3. tap[c].ran \in {0, 1, 2} /\ (tap[c].ran > 0 => tap[c].lost) /\ tap[c].result = "none"
    BY <1>1, <2>2 DEF RanOK
  <2>4. /\ r \in Tap /\ RanOK(r) /\ r.at \in {"send", "clearAccess", "done"}
        /\ r.kind = "logout" => tap[c].kind = "logout"
    BY <1>1, <2>1, <2>3, FailedAs
  <2>5. ~KeepsTokens(r)
    BY <2>4 DEF KeepsTokens
  <2>. QED
    BY <1>4, <2>2, <2>4, <2>5
<1>8. CASE ClearAccess(c)
  <2>1. PICK r : r = [tap[c] EXCEPT !.at = "clearRefresh"]
    OBVIOUS
  <2>2. TapGoes(c, r) /\ tap[c].at = "clearAccess"
    BY <1>1, <1>8, <2>1 DEF ClearAccess, TapAt, TapBecomes, TapBecause, TapGoes
  <2>. QED
    BY <1>5, <2>1, <2>2
<1>9. CASE ClearRefresh(c)
  <2>1. PICK o, r : o = (IF tap[c].kind = "me" THEN "error" ELSE "ok") /\ r = Over(tap[c], o)
    OBVIOUS
  <2>2. TapGoes(c, r) /\ tap[c].at = "clearRefresh"
    BY <1>1, <1>9, <2>1 DEF ClearRefresh, TapAt, TapBecomes, TapBecause, TapGoes
  <2>3. /\ r \in Tap /\ r.at = "done" /\ r.ran = tap[c].ran /\ (r.lost <=> tap[c].lost)
        /\ r.kind = tap[c].kind
    BY <1>1, <2>1, OverAs
  <2>4. RanOK(r)
    BY <1>1, <2>2, <2>3 DEF RanOK
  <2>5. ~KeepsTokens(r)
    BY <2>3 DEF KeepsTokens
  <2>. QED
    BY <1>4, <2>2, <2>3, <2>4, <2>5
<1>. QED
  BY <1>6, <1>7, <1>8, <1>9

(* What brings new tokens writes them, and is alone about them where       *)
(* nothing was a cause.                                                    *)
LEMMA WritesKeep ==
  ASSUME TokensInv, NEW c \in Taps,
         \/ ServeSignIn(c) \/ Rotate(c) \/ KeepAccess(c) \/ KeepRefresh(c)
         \/ ClearRefresh(c) /\ tap[c].kind = "guest"
  PROVE  TokensInv'
<1>1. /\ second \in Nat \ {0} /\ column \in Nat /\ kept \in [access : Nat, refresh : Nat]
      /\ tap[c] \in Tap /\ RanOK(tap[c])
      /\ asGuest \in BOOLEAN /\ cause \in BOOLEAN /\ expelled \in BOOLEAN
      /\ ~cause => TapFits(tap[c])
  BY TapStartsFrom
<1>2. UNCHANGED <<second, mishaps, expelled>>
  BY DEF ServeSignIn, Rotate, KeepAccess, KeepRefresh, ClearRefresh
<1>3. CASE ServeSignIn(c)
  <2>1. PICK r : r = [tap[c] EXCEPT !.at = "keepAccess", !.token = second]
    OBVIOUS
  <2>2. /\ TapGoes(c, r) /\ tap[c].at = "serve" /\ tap[c].kind \in {"login", "guest"}
        /\ UNCHANGED <<kept, asGuest>>
    BY <1>1, <1>3, <2>1 DEF ServeSignIn, TapAt, TapBecomes, TapBecause, TapGoes
  <2>3. column' \in Nat /\ (tap[c].kind # "guest" => column' = second)
    BY <1>1, <1>3, <2>2 DEF ServeSignIn, Written
  <2>4. /\ r \in Tap /\ r.at = "keepAccess" /\ r.ran = tap[c].ran /\ (r.lost <=> tap[c].lost)
        /\ (r.again <=> tap[c].again) /\ r.result = tap[c].result /\ r.kind = tap[c].kind
        /\ r.token = second
    BY <1>1, <2>1 DEF Tap
  <2>5. RanOK(r)
    BY <1>1, <2>2, <2>4 DEF RanOK
  <2>6. Signs(r) /\ KeepsTokens(r) /\ TapFits(r)'
    BY <1>1, <2>2, <2>3, <2>4 DEF Signs, KeepsTokens, TapFits, DropsTokens
  <2>. QED
    BY <1>1, <1>2, <2>2, <2>3, <2>4, <2>5, <2>6, AloneKeeps
<1>4. CASE Rotate(c)
  <2>1. PICK r : r = [tap[c] EXCEPT !.at = "keepAccess", !.token = second,
                                    !.kind = IF TapAt(c, "write") THEN "renewed" ELSE @]
    OBVIOUS
  <2>2. /\ TapGoes(c, r) /\ tap[c].at \in {"rotate", "write"} /\ column' = second
        /\ UNCHANGED <<kept, asGuest>>
    BY <1>1, <1>4, <2>1 DEF Rotate, TapBecomes, TapBecause, TapGoes
  <2>3. /\ r \in Tap /\ r.at = "keepAccess" /\ r.ran = tap[c].ran /\ (r.lost <=> tap[c].lost)
        /\ (r.again <=> tap[c].again) /\ r.result = tap[c].result /\ r.token = second
        /\ r.kind = IF tap[c].at = "write" THEN "renewed" ELSE tap[c].kind
    BY <1>1, <2>1 DEF Tap, TapAt
  <2>4. RanOK(r)
    BY <1>1, <2>2, <2>3 DEF RanOK
  <2>5. Signs(r) /\ KeepsTokens(r)
    BY <2>3 DEF Signs, KeepsTokens
  <2>6. ~cause' => TapFits(r)'
    BY <1>1, <2>2, <2>3 DEF TapGoes, TapFits, DropsTokens
  <2>. QED
    BY <1>1, <1>2, <2>2, <2>3, <2>4, <2>5, <2>6, AloneKeeps
<1>5. CASE KeepAccess(c)
  <2>1. PICK l : l = IF tap[c].kind = "guest" THEN "clearRefresh" ELSE "keepRefresh"
    OBVIOUS
  <2>2. PICK r : r = [tap[c] EXCEPT !.at = l]
    OBVIOUS
  <2>3. /\ TapGoes(c, r) /\ tap[c].at = "keepAccess" /\ column' = column
        /\ kept' = [kept EXCEPT !.access = tap[c].token]
        /\ asGuest' \in BOOLEAN /\ (tap[c].kind = "guest" => asGuest')
    BY <1>1, <1>5, <2>1, <2>2 DEF KeepAccess, TapAt, TapBecomes, TapBecause, TapGoes
  <2>4. /\ r \in Tap /\ r.at = l /\ r.ran = tap[c].ran /\ (r.lost <=> tap[c].lost)
        /\ (r.again <=> tap[c].again) /\ r.result = tap[c].result /\ r.kind = tap[c].kind
        /\ r.token = tap[c].token
    BY <1>1, <2>1, <2>2 DEF Tap
  <2>5. RanOK(r)
    BY <1>1, <2>1, <2>3, <2>4 DEF RanOK
  <2>6. Signs(r) /\ KeepsTokens(r)
    BY <2>1, <2>4 DEF Signs, KeepsTokens
  <2>7. ~cause' => TapFits(r)'
    BY <1>1, <2>1, <2>3, <2>4 DEF TapGoes, TapFits, DropsTokens
  <2>8. kept' \in [access : Nat, refresh : Nat]
    BY <1>1, <2>3 DEF Tap
  <2>. QED
    BY <1>1, <1>2, <2>3, <2>4, <2>5, <2>6, <2>7, <2>8, AloneKeeps
<1>6. CASE KeepRefresh(c)
  <2>1. PICK r : r = AfterKeeping(tap[c])
    OBVIOUS
  <2>2. /\ TapGoes(c, r) /\ tap[c].at = "keepRefresh" /\ UNCHANGED <<column, asGuest>>
        /\ kept' = [kept EXCEPT !.refresh = tap[c].token]
    BY <1>1, <1>6, <2>1 DEF KeepRefresh, TapAt, TapBecomes, TapBecause, TapGoes
  <2>3. r \in Tap /\ RanOK(r) /\ r.at \in {"done", "send"} /\ (r.kind = "logout" => tap[c].kind = "logout")
    <3>1. CASE tap[c].kind = "login"
      <4>1. r = Over(tap[c], "ok")
        BY <2>1, <3>1 DEF AfterKeeping
      <4>2. /\ r \in Tap /\ r.at = "done" /\ r.ran = tap[c].ran /\ (r.lost <=> tap[c].lost)
            /\ r.result = "ok" /\ r.kind = tap[c].kind
        BY <1>1, <4>1, OverAs
      <4>. QED
        BY <1>1, <2>2, <3>1, <4>2 DEF RanOK
    <3>2. CASE tap[c].kind = "renewed"
      <4>1. PICK n : n = NewTap
        OBVIOUS
      <4>2. r = [n EXCEPT !.kind = "me", !.at = "send"]
        BY <2>1, <3>2, <4>1 DEF AfterKeeping, AskMe
      <4>3. n \in Tap /\ n.ran = 0 /\ n.result = "none"
        BY <4>1 DEF NewTap, Tap
      <4>4. r \in Tap /\ r.at = "send" /\ r.ran = 0 /\ r.result = "none" /\ r.kind = "me"
        BY <4>2, <4>3 DEF Tap
      <4>. QED
        BY <4>4 DEF RanOK
    <3>3. CASE tap[c].kind \notin {"login", "renewed"}
      <4>1. r = [tap[c] EXCEPT !.at = "send", !.bearer = tap[c].token]
        BY <2>1, <3>3 DEF AfterKeeping
      <4>2. /\ r \in Tap /\ r.at = "send" /\ r.ran = tap[c].ran /\ (r.lost <=> tap[c].lost)
            /\ (r.again <=> tap[c].again) /\ r.result = tap[c].result /\ r.kind = tap[c].kind
        BY <1>1, <4>1 DEF Tap
      <4>. QED
        BY <1>1, <2>2, <4>2 DEF RanOK
    <3>. QED
      BY <3>1, <3>2, <3>3
  <2>4. Signs(tap[c])
    BY <2>2 DEF Signs
  <2>5. ASSUME ~cause'  PROVE TapFits(r)' /\ Settled'
    <3>1. tap[c].kind # "logout" /\ tap[c].token = column /\ column # 0
      BY <1>1, <2>2, <2>5 DEF TapGoes, TapFits
    <3>. QED
      BY <1>1, <2>2, <2>3, <3>1 DEF TapFits, DropsTokens, Settled
  <2>6. kept' \in [access : Nat, refresh : Nat]
    BY <1>1, <2>2 DEF Tap
  <2>. QED
    BY <1>1, <1>2, <2>2, <2>3, <2>4, <2>5, <2>6, AloneKeeps
<1>7. CASE ClearRefresh(c) /\ tap[c].kind = "guest"
  <2>1. PICK o, r : o = (IF tap[c].kind = "me" THEN "error" ELSE "ok") /\ r = Over(tap[c], o)
    OBVIOUS
  <2>2. /\ TapGoes(c, r) /\ tap[c].at = "clearRefresh" /\ UNCHANGED <<column, asGuest>>
        /\ kept' = [kept EXCEPT !.refresh = 0]
    BY <1>1, <1>7, <2>1 DEF ClearRefresh, TapAt, TapBecomes, TapBecause, TapGoes
  <2>3. /\ r \in Tap /\ r.at = "done" /\ r.ran = tap[c].ran /\ (r.lost <=> tap[c].lost)
        /\ r.kind = "guest"
    BY <1>1, <1>7, <2>1, OverAs
  <2>4. RanOK(r)
    BY <1>1, <2>2, <2>3 DEF RanOK
  <2>5. Signs(tap[c])
    BY <2>2 DEF Signs
  <2>6. ~cause' => TapFits(r)' /\ Settled'
    BY <1>1, <1>7, <2>2, <2>3 DEF TapGoes, TapFits, DropsTokens, Settled
  <2>7. kept' \in [access : Nat, refresh : Nat]
    BY <1>1, <2>2
  <2>. QED
    BY <1>1, <1>2, <2>2, <2>3, <2>4, <2>5, <2>6, <2>7, AloneKeeps
<1>. QED
  BY <1>3, <1>4, <1>5, <1>6, <1>7

(* The time goes on; what the user does elsewhere is a cause.              *)
LEMMA ElsewhereKeeps == ASSUME TokensInv, TimeGoesOn \/ SignElsewhere PROVE TokensInv'
<1>1. CASE TimeGoesOn
  <2>1. TokensTypeOK'
    <3>1. second' \in Nat \ {0}
      BY <1>1 DEF TimeGoesOn, TokensInv, TokensTypeOK
    <3>2. UNCHANGED <<column, kept, tap, mishaps, asGuest, cause, expelled>>
      BY <1>1 DEF TimeGoesOn
    <3>. QED
      BY <3>1, <3>2 DEF TokensInv, TokensTypeOK
  <2>2. UNCHANGED <<column, kept, tap, asGuest, cause, expelled>>
    BY <1>1 DEF TimeGoesOn
  <2>3. (~cause => TapsCalm)'
    BY <2>2 DEF TokensInv, TapsCalm, Settled, TapFits, KeepsTokens, DropsTokens, Signs
  <2>4. \A c \in Taps : RanOK(tap[c])'
    BY <2>2 DEF TokensInv, RanOK
  <2>. QED
    BY <2>1, <2>3, <2>4 DEF TokensInv
<1>2. CASE SignElsewhere
  <2>1. UNCHANGED <<second, kept, tap, asGuest, expelled>> /\ cause' = TRUE
    BY <1>2 DEF SignElsewhere
  <2>2. column' \in Nat /\ mishaps' \in Nat
    BY <1>2 DEF SignElsewhere, Mishap, TokensInv, TokensTypeOK
  <2>3. TokensTypeOK'
    BY <2>1, <2>2 DEF TokensInv, TokensTypeOK
  <2>4. \A c \in Taps : RanOK(tap[c])'
    BY <2>1 DEF TokensInv, RanOK
  <2>. QED
    BY <2>1, <2>3, <2>4 DEF TokensInv
<1>. QED
  BY <1>1, <1>2

(* No step loses an answer's execution, or takes a token away, unseen.     *)
LEMMA TokensStep == ASSUME TokensInv, [TokensNext]_tokenVars PROVE TokensInv'
<1>1. CASE TimeGoesOn \/ SignElsewhere
  BY <1>1, ElsewhereKeeps
<1>2. ASSUME NEW c \in Taps, SendTap(c) \/ LoadUser(c) \/ SignIn(c) \/ Logout(c)
      PROVE  TokensInv'
  BY <1>2, BeginsKeep
<1>3. ASSUME NEW c \in Taps, TapStep(c)  PROVE TokensInv'
  <2>1. CASE LookForRefresh(c) \/ Serve(c)
    BY <2>1, BeginsKeep
  <2>2. CASE Refused(c) \/ AnswerLost(c) \/ ServerFails(c) \/ CompareBody(c)
    BY <2>2, FailureKeeps
  <2>3. CASE CompareToken(c) \/ RefreshLost(c) \/ Revoke(c)
    BY <2>3, AskedKeeps
  <2>4. CASE DropAccess(c) \/ DropRefresh(c) \/ ClearAccess(c)
    BY <2>4, DropsKeep
  <2>5. CASE ServeSignIn(c) \/ Rotate(c) \/ KeepAccess(c) \/ KeepRefresh(c)
    BY <2>5, WritesKeep
  <2>6. CASE ClearRefresh(c)
    BY <2>6, DropsKeep, WritesKeep
  <2>. QED
    BY <1>3, <2>1, <2>2, <2>3, <2>4, <2>5, <2>6 DEF TapStep
<1>4. CASE UNCHANGED tokenVars
  BY <1>4 DEF tokenVars, TokensInv, TokensTypeOK, RanOK, TapsCalm, Settled, TapFits, KeepsTokens,
     DropsTokens, Signs
<1>. QED
  BY <1>1, <1>2, <1>3, <1>4 DEF TokensNext

(* The strengthening is an invariant.                                      *)
LEMMA TokensInvariant == TokensSpec => []TokensInv
<1>. QED
  BY TokensStart, TokensStep, PTL DEF TokensSpec

-----------------------------------------------------------------------------
(* Theorems                                                                *)

(* The tokens and requests of the app and the server keep their types.     *)
THEOREM TokensTyped == TokensSpec => []TokensTypeOK
<1>1. TokensInv => TokensTypeOK
  BY DEF TokensInv
<1>. QED
  BY <1>1, TokensInvariant, PTL

(* What the user asked for once (api.ts) runs at most twice: twice, or in  *)
(* spite of the error shown, only if the answer to an execution was lost.  *)
THEOREM RunsOnce == TokensSpec => []RunsOnceUnlessLost
<1>1. ASSUME TokensInv, NEW c \in Taps
      PROVE  /\ tap[c].ran <= 2
             /\ tap[c].ran = 2 \/ (tap[c].result = "error" /\ tap[c].ran > 0) => tap[c].lost
             /\ tap[c].kind = "tap" /\ tap[c].result = "ok" => tap[c].ran > 0
  <2>1. tap[c] \in Tap /\ RanOK(tap[c])
    BY <1>1, TapStartsFrom
  <2>. QED
    BY <2>1 DEF Tap, RanOK
<1>2. TokensInv => RunsOnceUnlessLost
  BY <1>1 DEF RunsOnceUnlessLost
<1>. QED
  BY <1>2, TokensInvariant, PTL

(* The app (api.ts, authStore.ts) drops the tokens of its own accord only  *)
(* after two requests were about them at once, the answer to a refresh or  *)
(* a login was lost, the user signed in or out, the refresh token ran out, *)
(* a guest's token ran out, or getMe of a load failed.                     *)
THEOREM NobodySignedOut == TokensSpec => []SignedOutForCause
<1>1. TokensInv => SignedOutForCause
  BY DEF TokensInv, TapsCalm, SignedOutForCause
<1>. QED
  BY <1>1, TokensInvariant, PTL

-----------------------------------------------------------------------------
(* Rally: one match each, and no grace runs on for one who is back         *)

\* A challenge that looked and found nobody busy is as good as a match in the store.
TakesPart(m) == match[m].state \in {"made", "PENDING", "ACTIVE"}

OneChallengeEach ==
  \A m, n \in Matches :
    m # n /\ TakesPart(m) /\ TakesPart(n) /\ Playing2(m) \cap Playing2(n) # {} => {m, n} \in together

\* A socket joins a match together with a user.
JoinedAreNamed == \A s \in RallySockets : socket[s].match # "none" => socket[s].user \in Duellists

RallyInv == RallyTypeOK /\ JoinedAreNamed /\ OneChallengeEach /\ ReturnedPlayersStay

-----------------------------------------------------------------------------
(* Types *)

(* What a match becomes when it is deleted.                                 *)
LEMMA DeleteTyped ==
  ASSUME RallyTypeOK, NEW m \in Matches, DeleteMatch(m)
  PROVE  /\ match' \in [Matches -> [state : {"none", "made", "PENDING", "ACTIVE", "gone"},
                            host : Duellists \cup {"none"}, guest : Duellists \cup {"none"}]]
         /\ \A n \in Matches : n # m => match'[n] = match[n]
         /\ match'[m].state = "gone"
<1> PICK r : r = [NoMatch EXCEPT !.state = "gone"]
  OBVIOUS
<1>1. /\ r \in [state : {"none", "made", "PENDING", "ACTIVE", "gone"},
                host : Duellists \cup {"none"}, guest : Duellists \cup {"none"}]
      /\ r.state = "gone"
  BY DEF NoMatch
<1>2. match' = [match EXCEPT ![m] = r]
  BY DEF DeleteMatch
<1> QED
  BY <1>1, <1>2 DEF RallyTypeOK

(* A match that is deleted frees its players and disturbs no other.         *)
LEMMA DeleteKeeps ==
  ASSUME RallyTypeOK, OneChallengeEach, NEW m \in Matches, DeleteMatch(m), together' = together
  PROVE  OneChallengeEach'
<1>1. \A n \in Matches : TakesPart(n)' => n # m
  BY DeleteTyped DEF TakesPart
<1>2. \A n \in Matches : TakesPart(n)' => TakesPart(n) /\ Playing2(n)' = Playing2(n)
  BY <1>1, DeleteTyped DEF TakesPart, Playing2
<1> QED
  BY <1>2 DEF OneChallengeEach

(* Leaving a match deletes it, or changes nothing.                          *)
LEMMA LeaveKeeps ==
  ASSUME RallyTypeOK, OneChallengeEach, NEW m \in Matches, NEW u, LeaveMatch(m, u),
         together' = together
  PROVE  /\ OneChallengeEach'
         /\ match' \in [Matches -> [state : {"none", "made", "PENDING", "ACTIVE", "gone"},
                            host : Duellists \cup {"none"}, guest : Duellists \cup {"none"}]]
<1>1. CASE DeleteMatch(m)
  BY <1>1, DeleteKeeps, DeleteTyped
<1>2. CASE UNCHANGED match
  BY <1>2 DEF OneChallengeEach, TakesPart, Playing2, RallyTypeOK
<1> QED
  BY <1>1, <1>2 DEF LeaveMatch

(* Who is in the room of a match, read field by field.                      *)
LEMMA InRoomFields ==
  ASSUME RallyTypeOK, NEW s \in RallySockets, NEW m, NEW u
  PROVE  s \in InRoom(m, u) <=> /\ socket[s].state = "up" /\ socket[s].user = u
                                /\ socket[s].match = m
<1>1. socket[s] \in [state : {"free", "up", "down"}, user : Duellists \cup {"none"},
                     match : Matches \cup {"none"}]
  BY DEF RallyTypeOK
<1>2. socket[s] = [state |-> socket[s].state, user |-> socket[s].user, match |-> socket[s].match]
  BY <1>1
<1> QED
  BY <1>2 DEF InRoom

-----------------------------------------------------------------------------
(* Each step *)

(* Rooms, graces and sockets stay as they are.                              *)
LEMMA RoomsKept ==
  ASSUME JoinedAreNamed, ReturnedPlayersStay, UNCHANGED <<socket, leaves, late>>
  PROVE  JoinedAreNamed' /\ ReturnedPlayersStay'
BY DEF JoinedAreNamed, ReturnedPlayersStay, InRoom

(* A challenge: the two are in no match, and challenges on their way are    *)
(* noted.                                                                   *)
LEMMA FindKeeps ==
  ASSUME RallyInv, NEW m \in Matches, FindMatch(m)
  PROVE  RallyInv'
<1> USE DEF RallyInv, RallyTypeOK, FindMatch
<1>1. RallyTypeOK'
  <2>1. {{m, n} : n \in {k \in Matches : match[k].state = "made"}} \subseteq SUBSET Matches
    OBVIOUS
  <2>2. together' \subseteq SUBSET Matches
    BY <2>1
  <2> QED
    BY <2>2
<1>2. OneChallengeEach'
  <2> SUFFICES ASSUME NEW a \in Matches, NEW b \in Matches, a # b, TakesPart(a)', TakesPart(b)',
                      Playing2(a)' \cap Playing2(b)' # {}
               PROVE  {a, b} \in together'
    BY DEF OneChallengeEach
  <2>1. CASE a # m /\ b # m
    BY <2>1 DEF OneChallengeEach, TakesPart, Playing2
  <2>2. ASSUME NEW n \in Matches, n # m, TakesPart(n)', Playing2(m)' \cap Playing2(n)' # {}
        PROVE  {m, n} \in together'
    <3>1. TakesPart(n) /\ Playing2(n)' = Playing2(n)
      BY <2>2 DEF TakesPart, Playing2
    <3>2. PICK u, v \in Duellists : /\ ~Busy(u) /\ ~Busy(v)
                                   /\ match' = [match EXCEPT ![m] = [state |-> "made", host |-> u, guest |-> v]]
      OBVIOUS
    <3>3. Playing2(m)' = {u, v}
      BY <3>2 DEF Playing2
    <3>4. u \in Playing2(n) \/ v \in Playing2(n)
      BY <2>2, <3>1, <3>3
    <3>5. ~Stored(n)
      BY <3>2, <3>4 DEF Busy
    <3>6. match[n].state = "made"
      BY <3>1, <3>5 DEF TakesPart, Stored
    <3> QED
      BY <3>6
  <2>3. {a, b} = {b, a} /\ Playing2(a)' \cap Playing2(b)' = Playing2(b)' \cap Playing2(a)'
    OBVIOUS
  <2> QED
    BY <2>1, <2>2, <2>3
<1>3. JoinedAreNamed' /\ ReturnedPlayersStay'
  BY RoomsKept
<1> QED
  BY <1>1, <1>2, <1>3

(* A match on its way enters the store, or is accepted there.               *)
LEMMA DuelMoveKeeps ==
  ASSUME RallyInv, NEW m \in Matches, PutMatch(m) \/ AcceptMatch(m)
  PROVE  RallyInv'
<1> USE DEF RallyInv, RallyTypeOK, PutMatch, AcceptMatch
<1>1. RallyTypeOK'
  OBVIOUS
<1>2. \A n \in Matches : TakesPart(n)' => TakesPart(n) /\ Playing2(n)' = Playing2(n)
  BY DEF TakesPart, Playing2
<1>3. OneChallengeEach'
  BY <1>2 DEF OneChallengeEach
<1> QED
  BY <1>1, <1>3, RoomsKept

(* Declined or expired.                                                     *)
LEMMA EndKeeps ==
  ASSUME RallyInv, NEW m \in Matches, DeclineMatch(m) \/ ExpireMatch(m)
  PROVE  RallyInv'
<1> USE DEF RallyInv, DeclineMatch, ExpireMatch
<1>1. RallyTypeOK'
  BY DeleteTyped DEF RallyTypeOK
<1> QED
  BY <1>1, DeleteKeeps, RoomsKept

(* Who joins ends the grace of theirs; no other room gains anybody.         *)
LEMMA JoinKeeps ==
  ASSUME RallyInv, NEW s \in RallySockets, JoinRally(s)
  PROVE  RallyInv'
<1> USE DEF RallyInv
<1> PICK m \in Matches, u \in Duellists :
      /\ socket[s].user \in {"none", u} /\ socket[s].match \in {"none", m}
      /\ socket' = [socket EXCEPT ![s] = [state |-> "up", user |-> u, match |-> m]]
      /\ leaves' = leaves \ {<<m, u>>}
      /\ late' = late \ {<<m, u>>}
  BY DEF JoinRally
<1>1. RallyTypeOK'
  BY DEF RallyTypeOK, JoinRally
<1>2. OneChallengeEach'
  BY DEF OneChallengeEach, TakesPart, Playing2, JoinRally
<1>3. ASSUME NEW n \in Matches, NEW v \in Duellists, InRoom(n, v)' # {}, <<n, v>> \in leaves'
      PROVE  <<n, v>> \in late'
  <2>1. <<n, v>> # <<m, u>> /\ <<n, v>> \in leaves
    BY <1>3
  <2>2. PICK r \in RallySockets : r \in InRoom(n, v)'
    BY <1>3 DEF InRoom
  <2>3. r # s
    BY <2>1, <2>2, <1>1 DEF InRoom, RallyTypeOK
  <2>4. r \in InRoom(n, v)
    BY <2>2, <2>3 DEF InRoom, RallyTypeOK
  <2>5. <<n, v>> \in late
    BY <2>1, <2>4 DEF ReturnedPlayersStay
  <2> QED
    BY <2>1, <2>5
<1>4. JoinedAreNamed'
  BY DEF JoinedAreNamed, RallyTypeOK
<1> QED
  BY <1>1, <1>2, <1>3, <1>4 DEF ReturnedPlayersStay

(* Who leaves is in no room, and ends the match.                            *)
LEMMA LeaveRallyKeeps ==
  ASSUME RallyInv, NEW s \in RallySockets, LeaveRally(s)
  PROVE  RallyInv'
<1> USE DEF RallyInv
<1>1. socket[s].match \in Matches
  BY DEF LeaveRally, RallyTypeOK
<1>2. RallyTypeOK'
  BY <1>1, LeaveKeeps DEF LeaveRally, RallyTypeOK
<1>3. OneChallengeEach'
  BY <1>1, LeaveKeeps DEF LeaveRally
<1>4. ASSUME NEW n \in Matches, NEW v \in Duellists, NEW r \in RallySockets, r \in InRoom(n, v)'
      PROVE  r \in InRoom(n, v)
  <2>1. socket'[r].match = n
    BY <1>4 DEF InRoom
  <2>2. r # s
    BY <2>1, RallyAssumption DEF LeaveRally, RallyTypeOK
  <2> QED
    BY <1>4, <2>2 DEF LeaveRally, InRoom, RallyTypeOK
<1>5. UNCHANGED <<leaves, late>>
  BY DEF LeaveRally
<1>6. ReturnedPlayersStay'
  BY <1>4, <1>5 DEF ReturnedPlayersStay, InRoom
<1>7. JoinedAreNamed'
  BY DEF LeaveRally, JoinedAreNamed, RallyTypeOK
<1> QED
  BY <1>2, <1>3, <1>6, <1>7

(* A socket is seen to be gone: a grace starts, or another one is there.    *)
LEMMA DisconnectKeeps ==
  ASSUME RallyInv, NEW s \in RallySockets, Disconnect(s)
  PROVE  RallyInv'
<1> USE DEF RallyInv
<1> DEFINE m == socket[s].match
           u == socket[s].user
<1>1. m # "none" => m \in Matches /\ u \in Duellists
  BY DEF RallyTypeOK, JoinedAreNamed
<1>2. /\ socket' = [socket EXCEPT ![s].state = "down"]
      /\ leaves' = IF m = "none" THEN leaves ELSE leaves \cup {<<m, u>>}
      /\ late' = IF m # "none" /\ InRoom(m, u) # {s} THEN late \cup {<<m, u>>} ELSE late
      /\ UNCHANGED <<match, restarts, together>>
  BY DEF Disconnect
<1> HIDE DEF m, u
<1>3. RallyTypeOK'
  BY <1>1, <1>2 DEF RallyTypeOK
<1>4. OneChallengeEach' /\ JoinedAreNamed'
  BY <1>2 DEF OneChallengeEach, TakesPart, Playing2, JoinedAreNamed, RallyTypeOK
<1>5. ASSUME NEW n \in Matches, NEW v \in Duellists, InRoom(n, v)' # {}, <<n, v>> \in leaves'
      PROVE  <<n, v>> \in late'
  <2>1. PICK r \in RallySockets : r \in InRoom(n, v)'
    BY <1>5 DEF InRoom
  <2>2. r # s /\ r \in InRoom(n, v)
    BY <2>1, <1>2 DEF InRoom, RallyTypeOK
  <2>3. CASE <<n, v>> \in leaves
    BY <2>2, <2>3, <1>2 DEF ReturnedPlayersStay
  <2>4. CASE m # "none" /\ n = m /\ v = u
    BY <2>2, <2>4, <1>2
  <2> QED
    BY <2>3, <2>4, <1>2, <1>5
<1> QED
  BY <1>3, <1>4, <1>5 DEF ReturnedPlayersStay

(* A grace that runs out ends the match.                                    *)
LEMMA GraceKeeps ==
  ASSUME RallyInv, NEW l \in Matches \X Duellists, GraceEnds(l)
  PROVE  RallyInv'
<1> USE DEF RallyInv
<1>1. RallyTypeOK' /\ OneChallengeEach'
  BY LeaveKeeps DEF GraceEnds, RallyTypeOK
<1> QED
  BY <1>1 DEF GraceEnds, JoinedAreNamed, ReturnedPlayersStay, InRoom

(* After a restart there is no match, no grace and nobody in a room.        *)
LEMMA RestartKeeps ==
  ASSUME RallyInv, RallyRestart
  PROVE  RallyInv'
<1> USE DEF RallyInv
<1> PICK r : r = [NoMatch EXCEPT !.state = "gone"]
  OBVIOUS
<1>1. /\ r \in [state : {"none", "made", "PENDING", "ACTIVE", "gone"},
                host : Duellists \cup {"none"}, guest : Duellists \cup {"none"}]
      /\ r.state = "gone"
  BY DEF NoMatch
<1>2. match' = [m \in Matches |-> IF match[m].state = "none" THEN NoMatch ELSE r]
  BY DEF RallyRestart
<1>3. NoMatch \in [state : {"none", "made", "PENDING", "ACTIVE", "gone"},
                   host : Duellists \cup {"none"}, guest : Duellists \cup {"none"}]
      /\ NoMatch.state = "none"
  BY DEF NoMatch
<1> HIDE DEF RallyInv
<1>4. RallyTypeOK'
  BY <1>1, <1>2, <1>3 DEF RallyInv, RallyTypeOK, RallyRestart
<1>5. OneChallengeEach'
  BY <1>1, <1>2, <1>3 DEF OneChallengeEach, TakesPart
<1>6. JoinedAreNamed'
  BY DEF RallyInv, JoinedAreNamed, RallyTypeOK, RallyRestart
<1>7. ReturnedPlayersStay'
  BY DEF ReturnedPlayersStay, RallyRestart
<1> QED
  BY <1>4, <1>5, <1>6, <1>7 DEF RallyInv

-----------------------------------------------------------------------------
(* The theorems                                                             *)

(* Nothing is stored and nobody connected at the start ...                  *)
LEMMA RallyStart == RallyInit => RallyInv
BY RallyAssumption
DEF RallyInit, RallyInv, RallyTypeOK, NoMatch, NoSocket, JoinedAreNamed, OneChallengeEach, TakesPart,
    ReturnedPlayersStay

(* ... and every step keeps the invariant.                                  *)
LEMMA RallySteps == RallyInv /\ [RallyNext]_rallyVars => RallyInv'
<1> SUFFICES ASSUME RallyInv, [RallyNext]_rallyVars PROVE RallyInv'
  OBVIOUS
<1>1. CASE UNCHANGED rallyVars
  BY <1>1 DEF rallyVars, RallyInv, RallyTypeOK, JoinedAreNamed, OneChallengeEach, TakesPart, Playing2,
              ReturnedPlayersStay, InRoom
<1>2. CASE RallyNext
  BY <1>2, FindKeeps, DuelMoveKeeps, EndKeeps, JoinKeeps, LeaveRallyKeeps, DisconnectKeeps, GraceKeeps,
     RestartKeeps
  DEF RallyNext
<1> QED
  BY <1>1, <1>2

(* The invariant of the store, the sockets and the graces.                  *)
LEMMA RallyInvariant == RallySpec => []RallyInv
BY RallyStart, RallySteps, PTL DEF RallySpec

(* Matches, sockets and graces stay well formed.                            *)
THEOREM RallyTyped == RallySpec => []RallyTypeOK
<1>1. RallyInv => RallyTypeOK
  BY DEF RallyInv
<1> QED
  BY <1>1, RallyInvariant, PTL

(* No user is in two matches, through challenges, expiries, declines and    *)
(* restarts, unless two challenges were under way together.                 *)
THEOREM OneMatchForEach == RallySpec => []OneMatchEach
<1>1. RallyInv => OneMatchEach
  BY DEF RallyInv, OneChallengeEach, OneMatchEach, TakesPart, Stored
<1> QED
  BY <1>1, RallyInvariant, PTL

(* No grace runs on for a player who is back, unless the loss of an older   *)
(* socket was seen after the new one had joined.                            *)
THEOREM PlayersStay == RallySpec => []ReturnedPlayersStay
<1>1. RallyInv => ReturnedPlayersStay
  BY DEF RallyInv
<1> QED
  BY <1>1, RallyInvariant, PTL
=============================================================================
