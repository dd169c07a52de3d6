------------------------------- MODULE Hiring -------------------------------
(***************************************************************************)
(* Applications of coaches to one job post of a club                       *)
(* (coachJob.service.ts): a status moved by both sides, each reading it,   *)
(* checking TRANSITIONS and updating the row by id, and the class that an  *)
(* accepted offer opens.  Each database call is a step.                    *)
(***************************************************************************)
EXTENDS Integers, FiniteSets

CONSTANTS
  Applicants,   \* coach profiles
  HiringCalls   \* the requests made

VARIABLES
  post,         \* CoachJobPost.status, "DELETED" for no row
  job,          \* CoachJobApplication.status by coach, "NONE" for no row
  classes,      \* LessonOffer rows opened for a coach who was hired
  hiringCall,   \* the requests
  hiringMet     \* coaches whose application two requests were about together, or
                \* a request that failed (no state of the code)

hiringVars == <<post, job, classes, hiringCall, hiringMet>>

Stages == {"APPLIED", "INTERVIEW", "TRIAL", "OFFERED", "ACCEPTED", "REJECTED", "DECLINED",
           "WITHDRAWN"}

Transitions ==
  [s \in Stages \cup {"NONE"} |->
     CASE s = "APPLIED"   -> {"INTERVIEW", "TRIAL", "OFFERED", "REJECTED", "WITHDRAWN"}
       [] s = "INTERVIEW" -> {"TRIAL", "OFFERED", "REJECTED", "WITHDRAWN"}
       [] s = "TRIAL"     -> {"OFFERED", "REJECTED", "WITHDRAWN"}
       [] s = "OFFERED"   -> {"ACCEPTED", "DECLINED", "REJECTED"}
       [] OTHER           -> {}]

NewHiringCall == [at |-> "new", coach |-> "none", to |-> "none", found |-> "none"]

HiringInit ==
  /\ post = "OPEN"
  /\ job = [k \in Applicants |-> "NONE"]
  /\ classes = [k \in Applicants |-> 0]
  /\ hiringCall = [c \in HiringCalls |-> NewHiringCall]
  /\ hiringMet = {}

HiringAt(c, l) == hiringCall[c].at = l
Handling(hc) == {c \in HiringCalls : hc[c].at \notin {"new", "done"}}
HiringsMet(hc) == {k \in Applicants :
  \E c, d \in Handling(hc) : c # d /\ hc[c].coach = k /\ hc[d].coach = k}
HiringBecomes(c, r) == /\ hiringCall' = [hiringCall EXCEPT ![c] = r]
                       /\ hiringMet' = hiringMet \cup HiringsMet(hiringCall')
HiringTo(c, l) == HiringBecomes(c, [hiringCall[c] EXCEPT !.at = l])
HiringDone(c) == HiringBecomes(c, [NewHiringCall EXCEPT !.at = "done"])

-----------------------------------------------------------------------------
(* applyJob                                                                *)

FindPost(c) ==
  /\ HiringAt(c, "new") /\ post = "OPEN"
  /\ \E k \in Applicants : HiringBecomes(c, [NewHiringCall EXCEPT !.at = "existing", !.coach = k])
  /\ UNCHANGED <<post, job, classes>>

FindExisting(c) ==
  LET s == job[hiringCall[c].coach]
  IN  /\ HiringAt(c, "existing")
      /\ IF s \in {"NONE", "WITHDRAWN"}
         THEN HiringBecomes(c, [hiringCall[c] EXCEPT !.at = "apply", !.found = s])
         ELSE HiringDone(c)
      /\ UNCHANGED <<post, job, classes>>

\* Creates the row, which the unique key or a deleted post refuses, or updates the
\* one that was withdrawn, whatever it has become.
ApplyJob(c) ==
  LET k == hiringCall[c].coach
  IN  /\ HiringAt(c, "apply")
      /\ job' = IF post # "DELETED" /\ (hiringCall[c].found = "NONE" <=> job[k] = "NONE")
                THEN [job EXCEPT ![k] = "APPLIED"] ELSE job
      /\ HiringDone(c)
      /\ UNCHANGED <<post, classes>>

-----------------------------------------------------------------------------
(* updateApplicationStatus                                                 *)

\* Mutated FindApplication: any stage may follow any other.
FindAny(c) ==
  /\ HiringAt(c, "new")
  /\ \E k \in Applicants, s \in Stages \ {"APPLIED"} :
       /\ job[k] # "NONE"
       /\ HiringBecomes(c, [NewHiringCall EXCEPT !.at = "move", !.coach = k, !.to = s])
  /\ UNCHANGED <<post, job, classes>>

FindApplication(c) ==
  /\ HiringAt(c, "new")
  /\ \E k \in Applicants : \E s \in Transitions[job[k]] :
       HiringBecomes(c, [NewHiringCall EXCEPT !.at = "move", !.coach = k, !.to = s])
  /\ UNCHANGED <<post, job, classes>>

\* Mutated MoveApplication: the class is opened with the offer.
MoveOpeningEarly(c) ==
  LET k == hiringCall[c].coach
  IN  /\ HiringAt(c, "move")
      /\ IF job[k] = "NONE" THEN HiringDone(c) /\ UNCHANGED job
         ELSE /\ job' = [job EXCEPT ![k] = hiringCall[c].to]
              /\ IF hiringCall[c].to = "OFFERED" THEN HiringTo(c, "class") ELSE HiringDone(c)
      /\ UNCHANGED <<post, classes>>

\* By id, whatever the row has become; it fails if the row is gone.
MoveApplication(c) ==
  LET k == hiringCall[c].coach
  IN  /\ HiringAt(c, "move")
      /\ IF job[k] = "NONE" THEN HiringDone(c) /\ UNCHANGED job
         ELSE /\ job' = [job EXCEPT ![k] = hiringCall[c].to]
              /\ IF hiringCall[c].to = "ACCEPTED" THEN HiringTo(c, "class") ELSE HiringDone(c)
      /\ UNCHANGED <<post, classes>>

OpenClass(c) ==
  /\ HiringAt(c, "class")
  /\ classes' = [classes EXCEPT ![hiringCall[c].coach] = @ + 1]
  /\ HiringDone(c)
  /\ UNCHANGED <<post, job>>

-----------------------------------------------------------------------------
\* updateJob, and closeExpiredJobs once the deadline has passed.
SetPost == /\ post \in {"OPEN", "CLOSED"}
           /\ post' \in {"OPEN", "CLOSED"} \ {post}
           /\ UNCHANGED <<job, classes, hiringCall, hiringMet>>

\* deleteJob: the applications go with the post, the classes stay.
DeletePost == /\ post # "DELETED" /\ post' = "DELETED"
              /\ job' = [k \in Applicants |-> "NONE"]
              /\ UNCHANGED <<classes, hiringCall, hiringMet>>

\* A database call fails (the class's failure is only logged), or the process stops.
HiringCallFails(c) ==
  /\ c \in Handling(hiringCall)
  /\ hiringCall' = [hiringCall EXCEPT ![c] = [NewHiringCall EXCEPT !.at = "done"]]
  /\ hiringMet' = hiringMet \cup {hiringCall[c].coach}
  /\ UNCHANGED <<post, job, classes>>

HiringNext == SetPost \/ DeletePost \/ \E c \in HiringCalls :
  \/ FindPost(c) \/ FindExisting(c) \/ ApplyJob(c)
  \/ FindApplication(c) \/ MoveApplication(c) \/ OpenClass(c) \/ HiringCallFails(c)

HiringSpec == HiringInit /\ [][HiringNext]_hiringVars

-----------------------------------------------------------------------------
(* Properties                                                              *)

HiringTypeOK ==
  /\ post \in {"OPEN", "CLOSED", "DELETED"}
  /\ job \in [Applicants -> Stages \cup {"NONE"}]
  /\ classes \in [Applicants -> Nat]
  /\ hiringCall \in [HiringCalls ->
       [at : {"new", "existing", "apply", "move", "class", "done"},
        coach : Applicants \cup {"none"}, to : Stages \cup {"none"},
        found : {"NONE", "WITHDRAWN", "none"}]]
  /\ hiringMet \subseteq Applicants

\* coachJob.service.ts:612 "only forwards": both sides may act at any time, but a
\* stage is only followed by one that TRANSITIONS allows (a withdrawn application
\* by a new one, any by the deletion of the post), unless two requests about the
\* application overlapped or one failed.
OnlyForwards ==
  [][\A k \in Applicants : job'[k] # job[k] =>
       \/ job'[k] \in Transitions[job[k]]
       \/ job[k] \in {"NONE", "WITHDRAWN"} /\ job'[k] = "APPLIED"
       \/ post' = "DELETED"
       \/ k \in hiringMet]_hiringVars

\* A coach who was hired has one class of the club and a coach who was not has none:
\* unless requests overlapped or failed between the update and the class.
OneClassPerHire ==
  \A k \in Applicants \ hiringMet :
    post # "DELETED" /\ (\A c \in Handling(hiringCall) : hiringCall[c].coach # k) =>
      classes[k] = IF job[k] = "ACCEPTED" THEN 1 ELSE 0
=============================================================================
