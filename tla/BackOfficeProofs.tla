-------------------------- MODULE BackOfficeProofs --------------------------
(***************************************************************************)
(* The timers of games, for any games, polls, requests, minutes and        *)
(* failures: a job runs once and no notice comes early, but where an       *)
(* overlap or a failure touched the game or the job.  And the back office, *)
(* which does what its parts do: a behaviour of it is, for each part, a    *)
(* behaviour of that part, so that what the parts keep it keeps.           *)
(***************************************************************************)
EXTENDS BackOffice, LabProofs, PeopleProofs, FiniteSetTheorems, SequenceTheorems,
        WellFoundedInduction, TLAPS

-----------------------------------------------------------------------------
(* Timers: who has a job in hand                                           *)

JobRecord == [type : {"warning", "expired"}, turn : TimedTurns, due : Nat,
              executed : BOOLEAN, ran : Nat, cancelled : BOOLEAN, early : BOOLEAN]
LimitRow == [status : {"WAITING", "PLAYING", "COMPLETED", "CANCELLED"}, limit : Nat]
PollRecord(D) == [at : {"idle", "run", "mark"}, todo : SUBSET D]
TimerRow == [kind : {"none", "start", "extend", "complete"},
             at : {"idle", "start", "look", "unwarn", "unexpire", "finish",
                   "relimit", "warn", "expire"},
             turn : TimedTurns \cup {"none"}, limit : Nat]

Lists(p, j) == j \in poller[p].todo
Marks(p, j) == poller[p].at = "mark" /\ j = JobOf(p)
Timing(c, t) == timer[c].at # "idle" /\ timer[c].turn = t

\* What the rows and the polls say of how often a job was run.
RunsKnown(j) ==
  /\ jobRow[j].executed => jobRow[j].cancelled \/ jobRow[j].ran > 0
  /\ j \notin unsure =>
       /\ jobRow[j].ran <= 1
       /\ \A p, q \in Pollers : Lists(p, j) /\ Lists(q, j) => p = q
       /\ jobRow[j].ran > 0 => jobRow[j].executed \/ \E p \in Pollers : Marks(p, j)
       /\ \A p \in Pollers : Lists(p, j) /\ ~Marks(p, j) => jobRow[j].ran = 0

PollFits(p) ==
  /\ poller[p].at = "idle" <=> poller[p].todo = {}
  /\ poller[p].at = "mark" => jobRow[JobOf(p)].ran > 0
  /\ \A j \in poller[p].todo : jobRow[j].due <= clock

\* A job that can still say that the time of the turn is over.
Ticks(j, t) == /\ jobRow[j].turn = t /\ jobRow[j].type = "expired"
               /\ ~jobRow[j].executed \/ \E p \in Pollers : Lists(p, j)

\* Of a turn that no two requests, and no request and poll, were about at once:
\* no job says so before the limit, and from the cancelling to the scheduling
\* of an extension none is left that could.
TurnFits(t) ==
  /\ \A c, d \in TimerCalls : Timing(c, t) /\ Timing(d, t) => c = d
  /\ \A c \in TimerCalls : Timing(c, t) =>
       /\ \A p \in Pollers : \A j \in poller[p].todo : jobRow[j].turn # t
       /\ turnRow[t].status = "WAITING" => timer[c].at \in {"start", "look"}
       /\ timer[c].at = "start" => turnRow[t].status = "WAITING"
       /\ timer[c].at \in {"warn", "expire"} => timer[c].limit = turnRow[t].limit
  /\ \A j \in DOMAIN jobRow : Ticks(j, t) =>
       /\ jobRow[j].due >= turnRow[t].limit
       /\ turnRow[t].status # "WAITING"
       /\ \A c \in TimerCalls : Timing(c, t) => timer[c].at \in {"look", "unwarn", "unexpire"}

JobsInv ==
  /\ JobsTypeOK
  /\ \A c \in TimerCalls : timer[c].at # "idle" => timer[c].turn \in TimedTurns
  /\ \A p \in Pollers : PollFits(p)
  /\ \A j \in DOMAIN jobRow : RunsKnown(j)
  /\ \A t \in TimedTurns \ jobMet : TurnFits(t)
  /\ NoEarlyNotice

LEMMA JobFields ==
  ASSUME JobsTypeOK
  PROVE  /\ clock \in Nat \ {0} /\ turnRow \in [TimedTurns -> LimitRow]
         /\ jobRow \in Seq(JobRecord) /\ DOMAIN jobRow = 1..Len(jobRow) /\ Len(jobRow) \in Nat
         /\ \A j \in DOMAIN jobRow : jobRow[j] \in JobRecord
         /\ poller \in [Pollers -> PollRecord(DOMAIN jobRow)]
         /\ \A p \in Pollers : poller[p].todo \subseteq DOMAIN jobRow
         /\ timer \in [TimerCalls -> TimerRow]
         /\ timersMade \in Nat /\ jobFaults \in Nat
         /\ jobMet \subseteq TimedTurns /\ unsure \subseteq DOMAIN jobRow
<1>1. /\ clock \in Nat \ {0} /\ turnRow \in [TimedTurns -> LimitRow]
      /\ jobRow \in Seq(JobRecord)
      /\ poller \in [Pollers -> PollRecord(DOMAIN jobRow)]
      /\ timer \in [TimerCalls -> TimerRow]
      /\ timersMade \in Nat /\ jobFaults \in Nat
      /\ jobMet \subseteq TimedTurns /\ unsure \subseteq DOMAIN jobRow
  BY Zenon DEF JobsTypeOK, LimitRow, JobRecord, PollRecord, TimerRow
<1>2. DOMAIN jobRow = 1..Len(jobRow) /\ Len(jobRow) \in Nat /\ \A j \in DOMAIN jobRow : jobRow[j] \in JobRecord
  BY <1>1
<1>3. \A p \in Pollers : poller[p].todo \subseteq DOMAIN jobRow
  BY <1>1 DEF PollRecord
<1> QED
  BY <1>1, <1>2, <1>3

\* The next job of a poll is one that it listed.
LEMMA NextJob ==
  ASSUME JobsTypeOK, NEW p \in Pollers, poller[p].todo # {}
  PROVE  JobOf(p) \in poller[p].todo
<1> DEFINE T == {jobRow[j].due : j \in poller[p].todo}
           R == OpToRel(<, Nat)
<1>1. T \subseteq Nat /\ T # {}
  BY JobFields DEF JobRecord
<1>2. PICK d \in T : \A e \in T : ~(<<e, d>> \in R)
  <2>1. IsWellFoundedOn(R, Nat)
    BY NatLessThanWellFounded
  <2> HIDE DEF T, R
  <2> QED
    BY <1>1, <2>1, WFMin
<1> HIDE DEF T, R
<1>3. \A e \in T : d <= e
  <2> TAKE e \in T
  <2>1. ~(<<e, d>> \in R) /\ e \in Nat /\ d \in Nat
    BY <1>1, <1>2
  <2>2. ~(e < d)
    BY <2>1 DEF OpToRel, R
  <2> QED
    BY <2>1, <2>2
<1>4. Earliest(p) # {} /\ Earliest(p) \subseteq poller[p].todo
  BY <1>2, <1>3 DEF Earliest, T
<1> QED
  BY <1>4 DEF JobOf

\* It stays the next as long as the list does: the time of a job never changes.
LEMMA NextJobStays ==
  ASSUME NEW p \in Pollers, poller'[p].todo = poller[p].todo,
         \A j \in poller[p].todo : jobRow'[j].due = jobRow[j].due
  PROVE  JobOf(p)' = JobOf(p)
<1>1. Earliest(p)' = Earliest(p)
  BY DEF Earliest
<1> QED
  BY <1>1 DEF JobOf

LEMMA JobsRemade ==
  ASSUME NEW S, NEW s \in Seq(S), NEW t, DOMAIN t = DOMAIN s, t = [i \in DOMAIN t |-> t[i]],
         \A i \in DOMAIN s : t[i] \in S
  PROVE  t \in Seq(S) /\ Len(t) = Len(s)
<1>1. DOMAIN s = 1..Len(s) /\ Len(s) \in Nat
  OBVIOUS
<1>2. t \in [1..Len(s) -> S]
  BY <1>1
<1> QED
  BY <1>1, <1>2

\* Nobody runs, lists or marks a job; some are cancelled or made.
LEMMA RunsStayKnown ==
  ASSUME JobsInv, poller' = poller, unsure' = unsure,
         DOMAIN jobRow \subseteq DOMAIN jobRow',
         \A j \in DOMAIN jobRow :
           /\ jobRow'[j].due = jobRow[j].due /\ jobRow'[j].ran = jobRow[j].ran
           /\ jobRow[j].executed => jobRow'[j].executed
           /\ jobRow'[j].executed => jobRow[j].executed \/ jobRow'[j].cancelled
           /\ jobRow[j].cancelled => jobRow'[j].cancelled,
         \A j \in DOMAIN jobRow' \ DOMAIN jobRow : ~jobRow'[j].executed /\ jobRow'[j].ran = 0
  PROVE  \A j \in DOMAIN jobRow' : RunsKnown(j)'
<1>1. JobsTypeOK /\ \A p \in Pollers : poller[p].todo \subseteq DOMAIN jobRow
  BY JobFields DEF JobsInv
<1>2. ASSUME NEW p \in Pollers  PROVE JobOf(p)' = JobOf(p)
  BY <1>1, NextJobStays
<1>3. ASSUME NEW p \in Pollers, NEW j  PROVE (Lists(p, j)' <=> Lists(p, j)) /\ (Marks(p, j)' <=> Marks(p, j))
  BY <1>2 DEF Lists, Marks
<1>4. ASSUME NEW j \in DOMAIN jobRow  PROVE RunsKnown(j)'
  <2>1. RunsKnown(j)
    BY DEF JobsInv
  <2> QED
    BY <1>3, <1>4, <2>1 DEF RunsKnown
<1>5. ASSUME NEW j \in DOMAIN jobRow' \ DOMAIN jobRow  PROVE RunsKnown(j)'
  <2>1. \A p \in Pollers : ~Lists(p, j)
    BY <1>1 DEF Lists
  <2> QED
    BY <1>3, <1>5, <2>1 DEF RunsKnown
<1> QED
  BY <1>4, <1>5

LEMMA PollsStillFit ==
  ASSUME JobsInv, poller' = poller, clock' >= clock, clock' \in Nat,
         \A j \in DOMAIN jobRow : jobRow'[j].due = jobRow[j].due /\ jobRow'[j].ran = jobRow[j].ran
  PROVE  \A p \in Pollers : PollFits(p)'
<1> SUFFICES ASSUME NEW p \in Pollers  PROVE PollFits(p)'
  OBVIOUS
<1>1. /\ JobsTypeOK /\ poller[p].todo \subseteq DOMAIN jobRow /\ clock \in Nat
      /\ poller[p].at = "mark" => poller[p].todo # {}
      /\ \A j \in DOMAIN jobRow : jobRow[j].due \in Nat
  BY JobFields DEF JobsInv, PollFits, JobRecord
<1>2. JobOf(p)' = JobOf(p)
  BY <1>1, NextJobStays
<1>3. poller[p].at = "mark" => JobOf(p) \in poller[p].todo
  BY <1>1, NextJob
<1>4. PollFits(p)
  BY DEF JobsInv
<1>5. \A j \in poller[p].todo : jobRow'[j].due <= clock'
  BY <1>1, <1>4 DEF PollFits
<1> QED
  BY <1>1, <1>2, <1>3, <1>4, <1>5 DEF PollFits

\* A turn about which nothing was done.
LEMMA TurnStays ==
  ASSUME NEW t \in TimedTurns, TurnFits(t), turnRow'[t] = turnRow[t],
         \A j \in DOMAIN jobRow' : jobRow'[j].turn = t =>
           /\ j \in DOMAIN jobRow /\ jobRow[j].turn = t
           /\ jobRow'[j].type = jobRow[j].type /\ jobRow'[j].due = jobRow[j].due
           /\ jobRow[j].executed => jobRow'[j].executed,
         \A c \in TimerCalls : Timing(c, t)' => Timing(c, t) /\ timer'[c] = timer[c],
         \A p \in Pollers : poller'[p].todo \subseteq poller[p].todo /\ poller[p].todo \subseteq DOMAIN jobRow,
         \A j \in DOMAIN jobRow : j \in DOMAIN jobRow' /\ jobRow'[j].turn = jobRow[j].turn
  PROVE  TurnFits(t)'
<1>1. \A j \in DOMAIN jobRow' : Ticks(j, t)' => Ticks(j, t)
  BY DEF Ticks, Lists
<1>2. \A c, d \in TimerCalls : Timing(c, t)' /\ Timing(d, t)' => c = d
  BY DEF TurnFits
<1>3. ASSUME NEW c \in TimerCalls, Timing(c, t)'
      PROVE  /\ \A p \in Pollers : \A j \in poller'[p].todo : jobRow'[j].turn # t
             /\ turnRow'[t].status = "WAITING" => timer'[c].at \in {"start", "look"}
             /\ timer'[c].at = "start" => turnRow'[t].status = "WAITING"
             /\ timer'[c].at \in {"warn", "expire"} => timer'[c].limit = turnRow'[t].limit
  BY <1>3 DEF TurnFits
<1>4. ASSUME NEW j \in DOMAIN jobRow', Ticks(j, t)'
      PROVE  /\ jobRow'[j].due >= turnRow'[t].limit
             /\ turnRow'[t].status # "WAITING"
             /\ \A c \in TimerCalls : Timing(c, t)' => timer'[c].at \in {"look", "unwarn", "unexpire"}
  <2>1. j \in DOMAIN jobRow /\ Ticks(j, t)
    BY <1>1, <1>4 DEF Ticks
  <2>2. jobRow'[j].due = jobRow[j].due
    BY <1>4 DEF Ticks
  <2> QED
    BY <2>1, <2>2 DEF TurnFits
<1> QED
  BY <1>2, <1>3, <1>4 DEF TurnFits

\* What a request about t leaves behind as r: what its rows then are.
Leaves(r, t) ==
  /\ r.at # "idle" =>
       /\ turnRow[t].status = "WAITING" => r.at \in {"start", "look"}
       /\ r.at = "start" => turnRow[t].status = "WAITING"
       /\ r.at \in {"warn", "expire"} => r.limit = turnRow[t].limit
  /\ \A j \in DOMAIN jobRow : Ticks(j, t) =>
       /\ jobRow[j].due >= turnRow[t].limit
       /\ turnRow[t].status # "WAITING"
       /\ r.at \in {"idle", "look", "unwarn", "unexpire"}

LEMMA CallMoves ==
  ASSUME JobsTypeOK, NEW c \in TimerCalls, NEW r \in TimerRow, TimerBecomes(c, r)
  PROVE  /\ timer' \in [TimerCalls -> TimerRow] /\ timer'[c] = r
         /\ \A d \in TimerCalls \ {c} : timer'[d] = timer[d]
         /\ jobMet \subseteq jobMet' /\ unsure' = unsure /\ jobMet' \subseteq TimedTurns
<1>1. timer \in [TimerCalls -> TimerRow] /\ jobMet \subseteq TimedTurns
  BY JobFields
<1>2. timer' = [timer EXCEPT ![c] = r] /\ jobMet' = jobMet \cup JobsMet(poller, timer') /\ unsure' = unsure
  BY DEF TimerBecomes
<1>3. JobsMet(poller, timer') \subseteq TimedTurns
  BY DEF JobsMet, Timed
<1> QED
  BY <1>1, <1>2, <1>3

\* A request on the way about a turn that met nothing is alone with it.
LEMMA CallAlone ==
  ASSUME JobsInv, NEW c \in TimerCalls, NEW r \in TimerRow, TimerBecomes(c, r),
         NEW t \in TimedTurns, t \notin jobMet',
         r.at # "idle" => r.turn = t, timer[c].at # "idle" => timer[c].turn = t,
         r.at # "idle" \/ timer[c].at # "idle"
  PROVE  /\ \A d \in TimerCalls \ {c} : ~Timing(d, t)
         /\ \A p \in Pollers : \A j \in poller[p].todo : jobRow[j].turn # t
<1>1. jobMet' = jobMet \cup JobsMet(poller, timer') /\ JobsTypeOK
  BY DEF TimerBecomes, JobsInv
<1>2. timer'[c] = r /\ \A d \in TimerCalls \ {c} : timer'[d] = timer[d]
  BY <1>1, CallMoves
<1>3. CASE timer[c].at # "idle"
  <2>1. TurnFits(t) /\ Timing(c, t)
    BY <1>1, <1>3 DEF JobsInv, Timing
  <2> QED
    BY <2>1 DEF TurnFits
<1>4. CASE r.at # "idle"
  <2>1. t \in Timed(timer', c)
    BY <1>2, <1>4 DEF Timed
  <2>2. t \notin Polled(poller) /\ \A d \in TimerCalls \ {c} : t \notin Timed(timer', d)
    BY <1>1, <2>1 DEF JobsMet
  <2>3. \A d \in TimerCalls \ {c} : ~Timing(d, t)
    BY <1>2, <2>2 DEF Timed, Timing
  <2>4. \A p \in Pollers : \A j \in poller[p].todo : jobRow[j].turn # t
    BY <2>2 DEF Polled
  <2> QED
    BY <2>3, <2>4
<1> QED
  BY <1>3, <1>4

LEMMA CallGoes ==
  ASSUME JobsInv, NEW c \in TimerCalls, NEW r \in TimerRow, TimerBecomes(c, r),
         poller' = poller, clock' = clock, timersMade' \in Nat, jobFaults' \in Nat,
         turnRow' \in [TimedTurns -> LimitRow], jobRow' \in Seq(JobRecord),
         NEW t \in TimedTurns,
         r.at # "idle" => r.turn = t, timer[c].at # "idle" => timer[c].turn = t,
         r.at # "idle" \/ timer[c].at # "idle",
         \A u \in TimedTurns \ {t} : turnRow'[u] = turnRow[u],
         DOMAIN jobRow \subseteq DOMAIN jobRow',
         \A j \in DOMAIN jobRow :
           /\ jobRow'[j].type = jobRow[j].type /\ jobRow'[j].turn = jobRow[j].turn
           /\ jobRow'[j].due = jobRow[j].due /\ jobRow'[j].ran = jobRow[j].ran
           /\ jobRow'[j].early <=> jobRow[j].early
           /\ jobRow[j].executed => jobRow'[j].executed
           /\ jobRow'[j].executed => jobRow[j].executed \/ jobRow'[j].cancelled
           /\ jobRow[j].cancelled => jobRow'[j].cancelled,
         \A j \in DOMAIN jobRow' \ DOMAIN jobRow :
           ~jobRow'[j].executed /\ jobRow'[j].ran = 0 /\ jobRow'[j].turn = t /\ ~jobRow'[j].early,
         /\ t \notin jobMet /\ TurnFits(t)
         /\ \A p \in Pollers : \A j \in poller[p].todo : jobRow[j].turn # t
         /\ \A d \in TimerCalls \ {c} : ~Timing(d, t)
         => Leaves(r, t)'
  PROVE  JobsInv'
<1>1. /\ JobsTypeOK /\ \A p \in Pollers : poller[p].todo \subseteq DOMAIN jobRow
      /\ poller \in [Pollers -> PollRecord(DOMAIN jobRow)] /\ clock \in Nat \ {0} /\ unsure \subseteq DOMAIN jobRow
  BY JobFields DEF JobsInv
<1>2. /\ timer' \in [TimerCalls -> TimerRow] /\ timer'[c] = r
      /\ \A d \in TimerCalls \ {c} : timer'[d] = timer[d]
      /\ jobMet \subseteq jobMet' /\ unsure' = unsure /\ jobMet' \subseteq TimedTurns
  BY <1>1, CallMoves
<1>3. JobsTypeOK'
  <2>1. poller' \in [Pollers -> PollRecord(DOMAIN jobRow')]
    BY <1>1 DEF PollRecord
  <2>2. unsure' \subseteq DOMAIN jobRow'
    BY <1>1, <1>2
  <2> QED
    BY <1>1, <1>2, <2>1, <2>2, Zenon DEF JobsTypeOK, LimitRow, JobRecord, PollRecord, TimerRow
<1>4. \A d \in TimerCalls : timer'[d].at # "idle" => timer'[d].turn \in TimedTurns
  BY <1>2 DEF JobsInv
<1>5. \A p \in Pollers : PollFits(p)'
  BY <1>1, PollsStillFit
<1>6. \A j \in DOMAIN jobRow' : RunsKnown(j)'
  BY <1>1, <1>2, RunsStayKnown
<1>7. NoEarlyNotice'
  <2> SUFFICES ASSUME NEW j \in DOMAIN jobRow', jobRow'[j].early  PROVE jobRow'[j].turn \in jobMet'
    BY DEF NoEarlyNotice
  <2>1. j \in DOMAIN jobRow /\ jobRow[j].early
    OBVIOUS
  <2> QED
    BY <1>2, <2>1 DEF JobsInv, NoEarlyNotice
<1>8. ASSUME NEW u \in TimedTurns \ jobMet'  PROVE TurnFits(u)'
  <2>1. u \notin jobMet /\ TurnFits(u)
    BY <1>2, <1>8 DEF JobsInv
  <2>2. CASE u # t
    <3>1. \A d \in TimerCalls : Timing(d, u)' => Timing(d, u) /\ timer'[d] = timer[d]
      BY <1>2, <2>2 DEF Timing
    <3> QED
      BY <1>1, <2>1, <2>2, <3>1, TurnStays
  <2>3. CASE u = t
    <3>1. /\ \A d \in TimerCalls \ {c} : ~Timing(d, t)
          /\ \A p \in Pollers : \A j \in poller[p].todo : jobRow[j].turn # t
      BY <1>8, <2>3, CallAlone
    <3>2. \A d \in TimerCalls : Timing(d, t)' => d = c /\ r.at # "idle"
      BY <1>2, <3>1 DEF Timing
    <3>3. \A p \in Pollers : \A j \in poller'[p].todo : jobRow'[j].turn # t
      BY <1>1, <3>1
    <3>4. Leaves(r, t)'
      BY <2>1, <2>3, <3>1
    <3> QED
      BY <1>2, <2>3, <3>2, <3>3, <3>4 DEF TurnFits, Leaves
  <2> QED
    BY <2>2, <2>3
<1> QED
  BY <1>3, <1>4, <1>5, <1>6, <1>7, <1>8 DEF JobsInv

LEMMA CallGoesOn ==
  ASSUME JobsInv, NEW c \in TimerCalls, NEW r \in TimerRow, TimerBecomes(c, r),
         poller' = poller, clock' = clock, jobRow' = jobRow, timersMade' \in Nat, jobFaults' \in Nat,
         turnRow' \in [TimedTurns -> LimitRow],
         NEW t \in TimedTurns,
         r.at # "idle" => r.turn = t, timer[c].at # "idle" => timer[c].turn = t,
         r.at # "idle" \/ timer[c].at # "idle",
         \A u \in TimedTurns \ {t} : turnRow'[u] = turnRow[u],
         /\ t \notin jobMet /\ TurnFits(t)
         /\ \A p \in Pollers : \A j \in poller[p].todo : jobRow[j].turn # t
         /\ \A d \in TimerCalls \ {c} : ~Timing(d, t)
         => Leaves(r, t)'
  PROVE  JobsInv'
<1>1. JobsTypeOK
  BY DEF JobsInv
<1>2. jobRow' \in Seq(JobRecord)
  BY <1>1, JobFields
<1>3. \A j \in DOMAIN jobRow' \ DOMAIN jobRow : FALSE
  OBVIOUS
<1> QED
  BY <1>2, <1>3, CallGoes

LEMMA TicksSame ==
  ASSUME jobRow' = jobRow, poller' = poller, NEW j, NEW t
  PROVE  Ticks(j, t)' <=> Ticks(j, t)
  BY DEF Ticks, Lists

LEMMA TimingFields ==
  ASSUME JobsInv, NEW c \in TimerCalls, timer[c].at # "idle"
  PROVE  /\ timer[c] \in TimerRow /\ timer[c].turn \in TimedTurns /\ Timing(c, timer[c].turn)
         /\ JobsTypeOK /\ turnRow \in [TimedTurns -> LimitRow] /\ clock \in Nat
         /\ turnRow[timer[c].turn] \in LimitRow /\ timersMade \in Nat /\ jobFaults \in Nat
         /\ NoTimer \in TimerRow /\ NoTimer.at = "idle"
<1>1. JobsTypeOK /\ timer[c].turn \in TimedTurns
  BY DEF JobsInv
<1>2. NoTimer \in TimerRow /\ NoTimer.at = "idle"
  BY DEF NoTimer, TimerRow
<1> QED
  BY <1>1, <1>2, JobFields DEF Timing

LEMMA CallTimerKeeps == ASSUME JobsInv, NEW c \in TimerCalls, CallTimer(c) PROVE JobsInv'
<1>1. JobsTypeOK /\ timersMade \in Nat /\ jobFaults \in Nat /\ turnRow \in [TimedTurns -> LimitRow]
  BY JobFields DEF JobsInv
<1>2. /\ timer[c].at = "idle" /\ clock' = clock /\ turnRow' = turnRow /\ jobRow' = jobRow
      /\ poller' = poller /\ jobFaults' = jobFaults /\ timersMade' \in Nat
  BY <1>1 DEF CallTimer, TimerAt
<1>3. PICK t \in TimedTurns :
        \/ /\ turnRow[t].status = "WAITING"
           /\ TimerBecomes(c, [kind |-> "start", at |-> "start", turn |-> t, limit |-> 0])
        \/ \E k \in {"extend", "complete"} :
             TimerBecomes(c, [kind |-> k, at |-> "look", turn |-> t, limit |-> 0])
  BY DEF CallTimer
<1>4. PICK r \in TimerRow : /\ TimerBecomes(c, r) /\ r.turn = t
                            /\ \/ r.at = "start" /\ turnRow[t].status = "WAITING"
                               \/ r.at = "look"
  <2>1. CASE /\ turnRow[t].status = "WAITING"
             /\ TimerBecomes(c, [kind |-> "start", at |-> "start", turn |-> t, limit |-> 0])
    BY <2>1 DEF TimerRow
  <2>2. CASE \E k \in {"extend", "complete"} :
               TimerBecomes(c, [kind |-> k, at |-> "look", turn |-> t, limit |-> 0])
    BY <2>2 DEF TimerRow
  <2> QED
    BY <1>3, <2>1, <2>2
<1>5. TurnFits(t) => Leaves(r, t)'
  BY <1>2, <1>4 DEF TurnFits, Leaves, Ticks, Lists
<1> QED
  BY <1>1, <1>2, <1>4, <1>5, CallGoesOn

LEMMA StartKeeps == ASSUME JobsInv, NEW c \in TimerCalls, StartGame(c) PROVE JobsInv'
<1>1. timer[c].at = "start"
  BY DEF StartGame, TimerAt
<1>0. PICK t \in TimedTurns : t = timer[c].turn
  BY <1>1, TimingFields
<1>2. PICK g \in GameLengths :
        LET limit == IF g = 0 THEN 0 ELSE clock + g
        IN  /\ turnRow' = [turnRow EXCEPT ![t] = [status |-> "PLAYING", limit |-> limit]]
            /\ IF g = 0 THEN TimerBecomes(c, NoTimer)
               ELSE TimerBecomes(c, [timer[c] EXCEPT !.at = "warn", !.limit = limit])
  BY <1>0 DEF StartGame
<1>3. clock' = clock /\ jobRow' = jobRow /\ poller' = poller /\ timersMade' = timersMade /\ jobFaults' = jobFaults
  BY DEF StartGame, jobBounds
<1>4. /\ timer[c] \in TimerRow /\ t \in TimedTurns /\ Timing(c, t)
      /\ turnRow \in [TimedTurns -> LimitRow] /\ clock \in Nat
      /\ timersMade \in Nat /\ jobFaults \in Nat /\ NoTimer \in TimerRow /\ NoTimer.at = "idle"
  BY <1>0, <1>1, TimingFields
<1>5. PICK limit \in Nat : limit = IF g = 0 THEN 0 ELSE clock + g
  BY <1>4, JobsAssumption
<1>6. PICK new : new = [status |-> "PLAYING", limit |-> limit]
  OBVIOUS
<1>7. new \in LimitRow /\ new.status = "PLAYING" /\ new.limit = limit
  BY <1>6 DEF LimitRow
<1>8. turnRow' = [turnRow EXCEPT ![t] = new]
  BY <1>2, <1>5, <1>6
<1>9. /\ turnRow' \in [TimedTurns -> LimitRow] /\ turnRow'[t] = new
      /\ \A u \in TimedTurns \ {t} : turnRow'[u] = turnRow[u]
  BY <1>4, <1>7, <1>8
<1>10. PICK r : r = IF g = 0 THEN NoTimer ELSE [timer[c] EXCEPT !.at = "warn", !.limit = limit]
  OBVIOUS
<1>11. TimerBecomes(c, r)
  BY <1>2, <1>5, <1>10
<1>12. /\ r \in TimerRow /\ r.at \in {"idle", "warn"} /\ (r.at # "idle" => r.turn = t)
       /\ r.at = "warn" => r.limit = limit
  BY <1>0, <1>4, <1>5, <1>10 DEF TimerRow
<1>13. TurnFits(t) => turnRow[t].status = "WAITING"
  BY <1>0, <1>1, <1>4 DEF TurnFits
<1>14. TurnFits(t) => \A j \in DOMAIN jobRow : ~Ticks(j, t)
  BY <1>13 DEF TurnFits
<1>15. TurnFits(t) => Leaves(r, t)'
  <2> SUFFICES ASSUME TurnFits(t)  PROVE Leaves(r, t)'
    OBVIOUS
  <2>1. \A j \in DOMAIN jobRow' : ~Ticks(j, t)'
    BY <1>3, <1>14, TicksSame
  <2>2. turnRow'[t].status = "PLAYING" /\ turnRow'[t].limit = limit
    BY <1>7, <1>9
  <2> QED
    BY <1>12, <2>1, <2>2 DEF Leaves
<1> QED
  BY <1>0, <1>1, <1>3, <1>4, <1>9, <1>11, <1>12, <1>15, CallGoesOn

LEMMA LookPlayingKeeps == ASSUME JobsInv, NEW c \in TimerCalls, LookPlaying(c) PROVE JobsInv'
<1>1. timer[c].at = "look" /\ UNCHANGED <<clock, turnRow, jobRow, poller, jobBounds>>
  BY DEF LookPlaying, TimerAt
<1>0. PICK t \in TimedTurns : t = timer[c].turn
  BY <1>1, TimingFields
<1>2. IF turnRow[t].status = "PLAYING"
      THEN TimerBecomes(c, [timer[c] EXCEPT !.at = "unwarn", !.limit = turnRow[t].limit])
      ELSE TimerBecomes(c, NoTimer)
  BY <1>0 DEF LookPlaying
<1>3. /\ timer[c] \in TimerRow /\ t \in TimedTurns /\ Timing(c, t)
      /\ turnRow \in [TimedTurns -> LimitRow] /\ turnRow[t] \in LimitRow
      /\ timersMade \in Nat /\ jobFaults \in Nat /\ NoTimer \in TimerRow /\ NoTimer.at = "idle"
  BY <1>0, <1>1, TimingFields
<1>4. PICK r : r = IF turnRow[t].status = "PLAYING"
                   THEN [timer[c] EXCEPT !.at = "unwarn", !.limit = turnRow[t].limit] ELSE NoTimer
  OBVIOUS
<1>5. TimerBecomes(c, r)
  BY <1>2, <1>4
<1>6. /\ r \in TimerRow /\ r.at \in {"idle", "unwarn"} /\ (r.at # "idle" => r.turn = t)
      /\ r.at = "unwarn" => turnRow[t].status = "PLAYING"
  BY <1>0, <1>3, <1>4 DEF TimerRow, LimitRow
<1>7. TurnFits(t) => Leaves(r, t)'
  <2>1. turnRow' = turnRow /\ jobRow' = jobRow /\ poller' = poller
    BY <1>1
  <2> SUFFICES ASSUME TurnFits(t)  PROVE Leaves(r, t)'
    OBVIOUS
  <2>2. \A j \in DOMAIN jobRow : Ticks(j, t)' <=> Ticks(j, t)
    BY <2>1, TicksSame
  <2>3. \A j \in DOMAIN jobRow : Ticks(j, t) =>
           jobRow[j].due >= turnRow[t].limit /\ turnRow[t].status # "WAITING"
    BY DEF TurnFits
  <2> QED
    BY <1>6, <2>1, <2>2, <2>3 DEF Leaves
<1>8. timersMade' \in Nat /\ jobFaults' \in Nat /\ turnRow' \in [TimedTurns -> LimitRow]
  BY <1>1, <1>3 DEF jobBounds
<1> QED
  BY <1>0, <1>1, <1>3, <1>5, <1>6, <1>7, <1>8, CallGoesOn

LEMMA CancelledAre ==
  ASSUME JobsTypeOK, NEW t, NEW what, CancelJob(t, what)
  PROVE  /\ jobRow' \in Seq(JobRecord) /\ DOMAIN jobRow' = DOMAIN jobRow
         /\ \A j \in DOMAIN jobRow :
              /\ jobRow'[j].type = jobRow[j].type /\ jobRow'[j].turn = jobRow[j].turn
              /\ jobRow'[j].due = jobRow[j].due /\ jobRow'[j].ran = jobRow[j].ran
              /\ jobRow'[j].early <=> jobRow[j].early
              /\ jobRow'[j].executed <=> jobRow[j].executed \/ (jobRow[j].turn = t /\ jobRow[j].type = what)
              /\ jobRow'[j].executed => jobRow[j].executed \/ jobRow'[j].cancelled
              /\ jobRow[j].cancelled => jobRow'[j].cancelled
<1>1. jobRow \in Seq(JobRecord) /\ \A j \in DOMAIN jobRow : jobRow[j] \in JobRecord
  BY JobFields
<1>2. /\ DOMAIN jobRow' = DOMAIN jobRow /\ jobRow' = [j \in DOMAIN jobRow' |-> jobRow'[j]]
      /\ \A j \in DOMAIN jobRow :
           jobRow'[j] = IF jobRow[j].turn = t /\ jobRow[j].type = what /\ ~jobRow[j].executed
                        THEN [jobRow[j] EXCEPT !.executed = TRUE, !.cancelled = TRUE] ELSE jobRow[j]
  BY DEF CancelJob
<1>3. ASSUME NEW j \in DOMAIN jobRow
      PROVE  /\ jobRow'[j] \in JobRecord
             /\ jobRow'[j].type = jobRow[j].type /\ jobRow'[j].turn = jobRow[j].turn
             /\ jobRow'[j].due = jobRow[j].due /\ jobRow'[j].ran = jobRow[j].ran
             /\ jobRow'[j].early <=> jobRow[j].early
             /\ jobRow'[j].executed <=> jobRow[j].executed \/ (jobRow[j].turn = t /\ jobRow[j].type = what)
             /\ jobRow'[j].executed => jobRow[j].executed \/ jobRow'[j].cancelled
             /\ jobRow[j].cancelled => jobRow'[j].cancelled
  <2>1. jobRow[j] \in JobRecord
    BY <1>1
  <2>2. CASE jobRow[j].turn = t /\ jobRow[j].type = what /\ ~jobRow[j].executed
    <3>1. jobRow'[j] = [jobRow[j] EXCEPT !.executed = TRUE, !.cancelled = TRUE]
      BY <1>2, <2>2
    <3> QED
      BY <2>1, <2>2, <3>1 DEF JobRecord
  <2>3. CASE ~(jobRow[j].turn = t /\ jobRow[j].type = what /\ ~jobRow[j].executed)
    BY <1>2, <2>1, <2>3
  <2> QED
    BY <2>2, <2>3
<1>4. jobRow' \in Seq(JobRecord)
  BY <1>1, <1>2, <1>3, JobsRemade
<1> QED
  BY <1>2, <1>3, <1>4

LEMMA CancelKeeps ==
  ASSUME JobsInv, NEW c \in TimerCalls, CancelWarning(c) \/ CancelExpiry(c)
  PROVE  JobsInv'
<1>1. PICK at, what, next :
        /\ timer[c].at = at /\ CancelJob(timer[c].turn, what) /\ TimerTo(c, next)
        /\ \/ at = "unwarn" /\ what = "warning" /\ next = "unexpire"
           \/ at = "unexpire" /\ what = "expired" /\ next \in {"relimit", "finish"}
  BY DEF CancelWarning, CancelExpiry, TimerAt
<1>2. clock' = clock /\ turnRow' = turnRow /\ poller' = poller /\ timersMade' = timersMade /\ jobFaults' = jobFaults
  BY DEF CancelWarning, CancelExpiry, jobBounds
<1>3. timer[c].at # "idle"
  BY <1>1
<1>4. PICK t \in TimedTurns : t = timer[c].turn
  BY <1>3, TimingFields
<1>5. /\ timer[c] \in TimerRow /\ Timing(c, t) /\ JobsTypeOK
      /\ turnRow \in [TimedTurns -> LimitRow] /\ timersMade \in Nat /\ jobFaults \in Nat
  BY <1>3, <1>4, TimingFields
<1>6. PICK r : r = [timer[c] EXCEPT !.at = next]
  OBVIOUS
<1>7. TimerBecomes(c, r)
  BY <1>1, <1>6 DEF TimerTo
<1>8. r \in TimerRow /\ r.at = next /\ r.turn = t /\ next \in {"unexpire", "relimit", "finish"}
  BY <1>1, <1>4, <1>5, <1>6 DEF TimerRow
<1>9. /\ jobRow' \in Seq(JobRecord) /\ DOMAIN jobRow' = DOMAIN jobRow
      /\ \A j \in DOMAIN jobRow :
           /\ jobRow'[j].type = jobRow[j].type /\ jobRow'[j].turn = jobRow[j].turn
           /\ jobRow'[j].due = jobRow[j].due /\ jobRow'[j].ran = jobRow[j].ran
           /\ jobRow'[j].early <=> jobRow[j].early
           /\ jobRow'[j].executed <=> jobRow[j].executed \/ (jobRow[j].turn = t /\ jobRow[j].type = what)
           /\ jobRow'[j].executed => jobRow[j].executed \/ jobRow'[j].cancelled
           /\ jobRow[j].cancelled => jobRow'[j].cancelled
  BY <1>1, <1>4, <1>5, CancelledAre
<1>10. ASSUME TurnFits(t), \A p \in Pollers : \A j \in poller[p].todo : jobRow[j].turn # t
       PROVE  Leaves(r, t)'
  <2>1. turnRow[t].status # "WAITING"
    BY <1>1, <1>5, <1>10 DEF TurnFits
  <2>2. ASSUME NEW j \in DOMAIN jobRow', Ticks(j, t)'
        PROVE  /\ jobRow'[j].due >= turnRow'[t].limit
               /\ r.at \in {"idle", "look", "unwarn", "unexpire"}
    <3>1. j \in DOMAIN jobRow /\ jobRow[j].turn = t /\ jobRow[j].type = "expired"
      BY <1>9, <2>2 DEF Ticks
    <3>2. ~jobRow'[j].executed
      BY <1>2, <1>10, <2>2, <3>1 DEF Ticks, Lists
    <3>3. ~jobRow[j].executed /\ what # "expired"
      BY <1>9, <3>1, <3>2
    <3>4. jobRow[j].due >= turnRow[t].limit
      BY <1>10, <3>1, <3>3 DEF TurnFits, Ticks
    <3> QED
      BY <1>1, <1>2, <1>8, <1>9, <3>1, <3>3, <3>4
  <2> QED
    BY <1>1, <1>2, <1>8, <2>1, <2>2 DEF Leaves
<1>11. \A j \in DOMAIN jobRow' \ DOMAIN jobRow : FALSE
  BY <1>9
<1>12. r.at # "idle"
  BY <1>8
<1> QED
  BY <1>2, <1>4, <1>5, <1>7, <1>8, <1>9, <1>10, <1>11, <1>12, CallGoes

LEMMA LimitKeeps ==
  ASSUME JobsInv, NEW c \in TimerCalls, FinishGame(c) \/ MoveLimit(c)
  PROVE  JobsInv'
<1>1. /\ timer[c].at \in {"finish", "relimit"} /\ clock' = clock /\ jobRow' = jobRow /\ poller' = poller
      /\ timersMade' = timersMade /\ jobFaults' = jobFaults
  BY DEF FinishGame, MoveLimit, TimerAt, jobBounds
<1>2. PICK t \in TimedTurns : t = timer[c].turn
  BY <1>1, TimingFields
<1>3. /\ timer[c] \in TimerRow /\ Timing(c, t) /\ JobsTypeOK /\ clock \in Nat
      /\ turnRow \in [TimedTurns -> LimitRow] /\ turnRow[t] \in LimitRow /\ timersMade \in Nat /\ jobFaults \in Nat
      /\ NoTimer \in TimerRow /\ NoTimer.at = "idle"
  BY <1>1, <1>2, TimingFields
<1>4. PICK new \in LimitRow, r \in TimerRow :
        /\ turnRow' = [turnRow EXCEPT ![t] = new] /\ TimerBecomes(c, r)
        /\ r.at \in {"idle", "warn"} /\ (r.at = "warn" => r.turn = t /\ r.limit = new.limit)
        /\ \/ new.status # "WAITING"
           \/ new.status = turnRow[t].status
  <2>1. CASE FinishGame(c)
    <3>1. PICK new : new = [status |-> "COMPLETED", limit |-> 0]
      OBVIOUS
    <3>2. new \in LimitRow /\ new.status = "COMPLETED"
      BY <3>1 DEF LimitRow
    <3>3. turnRow' = [turnRow EXCEPT ![t] = new] /\ TimerBecomes(c, NoTimer)
      BY <1>2, <2>1, <3>1 DEF FinishGame
    <3> QED
      BY <1>3, <3>2, <3>3
  <2>2. CASE MoveLimit(c)
    <3>1. PICK limit : limit = (IF timer[c].limit = 0 THEN clock ELSE timer[c].limit) + Extension
      OBVIOUS
    <3>2. limit \in Nat
      BY <1>3, <3>1, JobsAssumption DEF TimerRow
    <3>3. /\ turnRow' = [turnRow EXCEPT ![t].limit = limit]
          /\ TimerBecomes(c, [timer[c] EXCEPT !.at = "warn", !.limit = limit])
      BY <1>2, <2>2, <3>1 DEF MoveLimit
    <3>4. PICK new : new = [turnRow[t] EXCEPT !.limit = limit]
      OBVIOUS
    <3>5. new \in LimitRow /\ new.status = turnRow[t].status /\ new.limit = limit
      BY <1>3, <3>2, <3>4 DEF LimitRow
    <3>6. turnRow' = [turnRow EXCEPT ![t] = new]
      BY <1>3, <3>3, <3>4
    <3>7. PICK r : r = [timer[c] EXCEPT !.at = "warn", !.limit = limit]
      OBVIOUS
    <3>8. r \in TimerRow /\ r.at = "warn" /\ r.turn = t /\ r.limit = limit
      BY <1>2, <1>3, <3>2, <3>7 DEF TimerRow
    <3>9. TimerBecomes(c, r)
      BY <3>3, <3>7
    <3> QED
      BY <3>5, <3>6, <3>8, <3>9
  <2> QED
    BY <2>1, <2>2
<1>5. /\ turnRow' \in [TimedTurns -> LimitRow] /\ turnRow'[t] = new
      /\ \A u \in TimedTurns \ {t} : turnRow'[u] = turnRow[u]
  BY <1>3, <1>4
<1>6. ASSUME TurnFits(t)  PROVE Leaves(r, t)'
  <2>1. turnRow[t].status # "WAITING" /\ \A j \in DOMAIN jobRow : ~Ticks(j, t)
    BY <1>1, <1>3, <1>6 DEF TurnFits
  <2>2. \A j \in DOMAIN jobRow' : ~Ticks(j, t)'
    BY <1>1, <2>1, TicksSame
  <2>3. new.status # "WAITING"
    BY <1>4, <2>1
  <2> QED
    BY <1>4, <1>5, <2>2, <2>3 DEF Leaves
<1> QED
  BY <1>1, <1>2, <1>3, <1>4, <1>5, <1>6, CallGoesOn

LEMMA ScheduledIs ==
  ASSUME JobsTypeOK, NEW what \in {"warning", "expired"}, NEW t \in TimedTurns, NEW d \in Nat,
         jobRow' = Append(jobRow, NewJob(what, t, d))
  PROVE  /\ jobRow' \in Seq(JobRecord) /\ DOMAIN jobRow \subseteq DOMAIN jobRow'
         /\ \A j \in DOMAIN jobRow : jobRow'[j] = jobRow[j]
         /\ \A j \in DOMAIN jobRow' \ DOMAIN jobRow :
              /\ jobRow'[j].type = what /\ jobRow'[j].turn = t /\ jobRow'[j].due = d
              /\ ~jobRow'[j].executed /\ jobRow'[j].ran = 0 /\ ~jobRow'[j].early
<1>1. PICK new : new = NewJob(what, t, d)
  OBVIOUS
<1>2. /\ new \in JobRecord /\ new.type = what /\ new.turn = t /\ new.due = d
      /\ ~new.executed /\ new.ran = 0 /\ ~new.early
  BY <1>1 DEF NewJob, JobRecord
<1>3. jobRow \in Seq(JobRecord) /\ DOMAIN jobRow = 1..Len(jobRow) /\ Len(jobRow) \in Nat
  BY JobFields
<1>4. /\ jobRow' \in Seq(JobRecord) /\ Len(jobRow') = Len(jobRow) + 1
      /\ \A i \in 1..Len(jobRow) : jobRow'[i] = jobRow[i]
      /\ jobRow'[Len(jobRow) + 1] = new
  BY <1>1, <1>2, <1>3, AppendProperties
<1>5. DOMAIN jobRow' = 1..Len(jobRow')
  BY <1>4
<1>6. DOMAIN jobRow' \ DOMAIN jobRow = {Len(jobRow) + 1} /\ DOMAIN jobRow \subseteq DOMAIN jobRow'
  BY <1>3, <1>4, <1>5
<1> QED
  BY <1>2, <1>3, <1>4, <1>6

LEMMA ScheduleKeeps ==
  ASSUME JobsInv, NEW c \in TimerCalls, ScheduleWarning(c) \/ ScheduleExpiry(c)
  PROVE  JobsInv'
<1>1. /\ timer[c].at \in {"warn", "expire"} /\ clock' = clock /\ turnRow' = turnRow /\ poller' = poller
      /\ timersMade' = timersMade /\ jobFaults' = jobFaults
  BY DEF ScheduleWarning, ScheduleExpiry, TimerAt, jobBounds
<1>2. PICK t \in TimedTurns : t = timer[c].turn
  BY <1>1, TimingFields
<1>3. /\ timer[c] \in TimerRow /\ Timing(c, t) /\ JobsTypeOK /\ clock \in Nat
      /\ turnRow \in [TimedTurns -> LimitRow] /\ timersMade \in Nat /\ jobFaults \in Nat
      /\ NoTimer \in TimerRow /\ NoTimer.at = "idle"
  BY <1>1, <1>2, TimingFields
<1>4. PICK r \in TimerRow, what \in {"warning", "expired"}, d \in Nat :
        /\ TimerBecomes(c, r)
        /\ \/ jobRow' = Append(jobRow, NewJob(what, t, d))
           \/ jobRow' = jobRow
        /\ \/ what = "warning" /\ r.at = "expire" /\ r.turn = t /\ r.limit = timer[c].limit
           \/ what = "expired" /\ r.at = "idle" /\ d = timer[c].limit
  <2>1. CASE ScheduleWarning(c)
    <3>1. PICK due : due = timer[c].limit - WarnBefore
      OBVIOUS
    <3>2. due \in Int /\ timer[c].limit \in Nat
      BY <1>3, <3>1, JobsAssumption DEF TimerRow
    <3>3. jobRow' = IF due > clock THEN Append(jobRow, NewJob("warning", t, due)) ELSE jobRow
      BY <1>2, <2>1, <3>1 DEF ScheduleWarning
    <3>4. PICK d \in Nat : \/ jobRow' = Append(jobRow, NewJob("warning", t, d))
                           \/ jobRow' = jobRow
      <4>1. CASE due > clock
        BY <1>3, <3>2, <3>3, <4>1
      <4>2. CASE ~(due > clock)
        BY <3>2, <3>3, <4>2
      <4> QED
        BY <4>1, <4>2
    <3>5. PICK r : r = [timer[c] EXCEPT !.at = "expire"]
      OBVIOUS
    <3>6. r \in TimerRow /\ r.at = "expire" /\ r.turn = t /\ r.limit = timer[c].limit
      BY <1>2, <1>3, <3>5 DEF TimerRow
    <3>7. TimerBecomes(c, r)
      BY <2>1, <3>5 DEF ScheduleWarning, TimerTo
    <3> QED
      BY <3>4, <3>6, <3>7
  <2>2. CASE ScheduleExpiry(c)
    BY <1>2, <1>3, <2>2 DEF ScheduleExpiry, TimerRow
  <2> QED
    BY <2>1, <2>2
<1>5. /\ jobRow' \in Seq(JobRecord) /\ DOMAIN jobRow \subseteq DOMAIN jobRow'
      /\ \A j \in DOMAIN jobRow : jobRow'[j] = jobRow[j]
      /\ \A j \in DOMAIN jobRow' \ DOMAIN jobRow :
           /\ jobRow'[j].type = what /\ jobRow'[j].turn = t /\ jobRow'[j].due = d
           /\ ~jobRow'[j].executed /\ jobRow'[j].ran = 0 /\ ~jobRow'[j].early
  <2>1. CASE jobRow' = Append(jobRow, NewJob(what, t, d))
    BY <1>3, <2>1, ScheduledIs
  <2>2. CASE jobRow' = jobRow
    BY <1>3, <2>2, JobFields
  <2> QED
    BY <1>4, <2>1, <2>2
<1>6. ASSUME TurnFits(t)  PROVE Leaves(r, t)'
  <2>1. /\ turnRow[t].status # "WAITING" /\ timer[c].limit = turnRow[t].limit
        /\ \A j \in DOMAIN jobRow : ~Ticks(j, t)
    BY <1>1, <1>3, <1>6 DEF TurnFits
  <2>2. ASSUME NEW j \in DOMAIN jobRow', Ticks(j, t)'
        PROVE  jobRow'[j].due >= turnRow'[t].limit /\ r.at = "idle"
    <3>1. j \notin DOMAIN jobRow
      BY <1>1, <1>5, <2>1, <2>2 DEF Ticks, Lists
    <3>2. what = "expired"
      BY <1>5, <2>2, <3>1 DEF Ticks
    <3>3. r.at = "idle" /\ d = timer[c].limit /\ jobRow'[j].due = d
      BY <1>4, <1>5, <3>1, <3>2
    <3> QED
      BY <1>1, <2>1, <3>3
  <2> QED
    BY <1>1, <1>4, <2>1, <2>2 DEF Leaves
<1> QED
  BY <1>1, <1>2, <1>3, <1>4, <1>5, <1>6, CallGoes

\* The clock and a game that is stopped leave calls, polls and jobs alone.
LEMMA OthersKeepTime ==
  ASSUME JobsInv, TimePasses \/ \E t \in TimedTurns : StopGame(t)
  PROVE  JobsInv'
<1>1. /\ UNCHANGED <<jobRow, poller, timer, jobBounds, jobHistory>>
      /\ clock' \in Nat \ {0} /\ clock' >= clock /\ JobsTypeOK
      /\ turnRow' \in [TimedTurns -> LimitRow]
      /\ \A t \in TimedTurns : /\ turnRow'[t].limit = turnRow[t].limit
                               /\ turnRow'[t].status = "WAITING" <=> turnRow[t].status = "WAITING"
  <2>1. JobsTypeOK /\ clock \in Nat \ {0} /\ turnRow \in [TimedTurns -> LimitRow]
    BY JobFields DEF JobsInv
  <2>2. CASE TimePasses
    BY <2>1, <2>2 DEF TimePasses
  <2>3. ASSUME NEW t \in TimedTurns, StopGame(t)
        PROVE  /\ UNCHANGED <<clock, jobRow, poller, timer, jobBounds, jobHistory>>
               /\ turnRow' \in [TimedTurns -> LimitRow]
               /\ \A u \in TimedTurns : /\ turnRow'[u].limit = turnRow[u].limit
                                        /\ turnRow'[u].status = "WAITING" <=> turnRow[u].status = "WAITING"
    <3>1. PICK new : new = [turnRow[t] EXCEPT !.status = "CANCELLED"]
      OBVIOUS
    <3>2. turnRow[t] \in LimitRow /\ turnRow[t].status = "PLAYING"
      BY <2>1, <2>3 DEF StopGame
    <3>3. new \in LimitRow /\ new.status = "CANCELLED" /\ new.limit = turnRow[t].limit
      BY <3>1, <3>2 DEF LimitRow
    <3>4. turnRow' = [turnRow EXCEPT ![t] = new]
      BY <2>1, <2>3, <3>1 DEF StopGame
    <3>5. UNCHANGED <<clock, jobRow, poller, timer, jobBounds, jobHistory>>
      BY <2>3 DEF StopGame
    <3> QED
      BY <2>1, <3>2, <3>3, <3>4, <3>5
  <2> QED
    BY <2>1, <2>2, <2>3
<1>2. JobsTypeOK'
  <2>1. /\ jobRow \in Seq(JobRecord) /\ poller \in [Pollers -> PollRecord(DOMAIN jobRow)]
        /\ timer \in [TimerCalls -> TimerRow] /\ timersMade \in Nat /\ jobFaults \in Nat
        /\ jobMet \subseteq TimedTurns /\ unsure \subseteq DOMAIN jobRow
    BY <1>1, JobFields
  <2>2. /\ jobRow' = jobRow /\ poller' = poller /\ timer' = timer /\ timersMade' = timersMade
        /\ jobFaults' = jobFaults /\ jobMet' = jobMet /\ unsure' = unsure
    BY <1>1 DEF jobBounds, jobHistory
  <2> QED
    BY <1>1, <2>1, <2>2, Zenon DEF JobsTypeOK, LimitRow, JobRecord, PollRecord, TimerRow
<1>3. \A p \in Pollers : PollFits(p)'
  BY <1>1, PollsStillFit
<1>4. \A j \in DOMAIN jobRow' : RunsKnown(j)'
  <2>1. jobRow' = jobRow /\ poller' = poller /\ unsure' = unsure
    BY <1>1 DEF jobHistory
  <2> QED
    BY <2>1, RunsStayKnown
<1>5. ASSUME NEW t \in TimedTurns \ jobMet'  PROVE TurnFits(t)'
  <2>1. TurnFits(t) /\ timer' = timer /\ poller' = poller /\ jobRow' = jobRow
    BY <1>1, <1>5 DEF JobsInv, jobHistory
  <2>2. \A j : Ticks(j, t)' <=> Ticks(j, t)
    BY <2>1, TicksSame
  <2>3. \A c : Timing(c, t)' <=> Timing(c, t)
    BY <2>1 DEF Timing
  <2> QED
    BY <1>1, <2>1, <2>2, <2>3 DEF TurnFits
<1> QED
  BY <1>1, <1>2, <1>3, <1>4, <1>5 DEF JobsInv, NoEarlyNotice, jobHistory

LEMMA PollMoves ==
  ASSUME JobsTypeOK, NEW p \in Pollers, NEW r \in PollRecord(DOMAIN jobRow), PollerBecomes(p, r)
  PROVE  /\ poller' \in [Pollers -> PollRecord(DOMAIN jobRow)] /\ poller'[p] = r
         /\ \A q \in Pollers \ {p} : poller'[q] = poller[q]
         /\ jobMet \subseteq jobMet' /\ jobMet' \subseteq TimedTurns
<1>1. poller \in [Pollers -> PollRecord(DOMAIN jobRow)] /\ jobMet \subseteq TimedTurns
  BY JobFields
<1>2. poller' = [poller EXCEPT ![p] = r] /\ jobMet' = jobMet \cup JobsMet(poller', timer)
  BY DEF PollerBecomes
<1>3. JobsMet(poller', timer) \subseteq TimedTurns
  BY DEF JobsMet, Timed
<1> QED
  BY <1>1, <1>2, <1>3

\* A poll takes a step: it lists no job that could not tick, and what it does to the
\* rows makes none tick again.
LEMMA TurnsStayFit ==
  ASSUME JobsInv, NEW p \in Pollers, NEW r, PollerBecomes(p, r), timer' = timer, turnRow' = turnRow,
         DOMAIN jobRow' = DOMAIN jobRow,
         \A q \in Pollers : poller'[q].todo \subseteq DOMAIN jobRow,
         \A j \in DOMAIN jobRow : jobRow'[j].turn = jobRow[j].turn /\ jobRow'[j].due = jobRow[j].due,
         NEW t \in TimedTurns \ jobMet',
         \A j \in DOMAIN jobRow : Ticks(j, t)' => Ticks(j, t)
  PROVE  TurnFits(t)'
<1>1. jobMet' = jobMet \cup JobsMet(poller', timer)
  BY DEF PollerBecomes
<1>2. TurnFits(t)
  BY <1>1 DEF JobsInv
<1>3. \A c : Timing(c, t)' <=> Timing(c, t)
  BY DEF Timing
<1>4. ASSUME NEW c \in TimerCalls, Timing(c, t), NEW q \in Pollers, NEW j \in poller'[q].todo
      PROVE  jobRow[j].turn # t
  <2>1. t \in Timed(timer, c)
    BY <1>4 DEF Timed, Timing
  <2>2. t \notin Polled(poller')
    BY <1>1, <2>1 DEF JobsMet
  <2> QED
    BY <1>4, <2>2 DEF Polled
<1>5. \A c \in TimerCalls : Timing(c, t)' => \A q \in Pollers : \A j \in poller'[q].todo : jobRow'[j].turn # t
  BY <1>3, <1>4
<1>6. ASSUME NEW j \in DOMAIN jobRow', Ticks(j, t)'
      PROVE  /\ jobRow'[j].due >= turnRow'[t].limit
             /\ turnRow'[t].status # "WAITING"
             /\ \A c \in TimerCalls : Timing(c, t)' => timer'[c].at \in {"look", "unwarn", "unexpire"}
  BY <1>2, <1>3, <1>6 DEF TurnFits
<1> QED
  BY <1>2, <1>3, <1>5, <1>6 DEF TurnFits

LEMMA ListKeeps == ASSUME JobsInv, NEW p \in Pollers, ListDue(p) PROVE JobsInv'
<1>1. /\ JobsTypeOK /\ poller[p].at = "idle" /\ poller[p].todo = {} /\ clock \in Nat
      /\ clock' = clock /\ turnRow' = turnRow /\ jobRow' = jobRow /\ timer' = timer
      /\ timersMade' = timersMade /\ jobFaults' = jobFaults
  BY JobFields DEF ListDue, JobsInv, PollFits, jobBounds
<1>2. PICK B \in SUBSET {j \in DOMAIN jobRow : Due(j)} :
        /\ B # {} /\ PollerBecomes(p, [at |-> "run", todo |-> B])
        /\ unsure' = unsure \cup (B \cap Listed(p))
  BY DEF ListDue, Batch
<1>3. PICK r : r = [at |-> "run", todo |-> B]
  OBVIOUS
<1>4. r \in PollRecord(DOMAIN jobRow) /\ r.at = "run" /\ r.todo = B /\ PollerBecomes(p, r)
  BY <1>2, <1>3 DEF PollRecord
<1>5. /\ poller' \in [Pollers -> PollRecord(DOMAIN jobRow)] /\ poller'[p] = r
      /\ \A q \in Pollers \ {p} : poller'[q] = poller[q]
      /\ jobMet \subseteq jobMet' /\ jobMet' \subseteq TimedTurns
  BY <1>1, <1>4, PollMoves
<1>6. JobsTypeOK'
  <2>1. /\ turnRow \in [TimedTurns -> LimitRow] /\ jobRow \in Seq(JobRecord) /\ clock \in Nat \ {0}
        /\ timer \in [TimerCalls -> TimerRow] /\ timersMade \in Nat /\ jobFaults \in Nat
        /\ unsure \subseteq DOMAIN jobRow
    BY <1>1, JobFields
  <2>2. unsure' \subseteq DOMAIN jobRow
    BY <1>2, <2>1
  <2> QED
    BY <1>1, <1>5, <2>1, <2>2, Zenon DEF JobsTypeOK, LimitRow, JobRecord, PollRecord, TimerRow
<1>7. ASSUME NEW q \in Pollers \ {p}
      PROVE  /\ JobOf(q)' = JobOf(q)
             /\ \A j : (Lists(q, j)' <=> Lists(q, j)) /\ (Marks(q, j)' <=> Marks(q, j))
  <2>1. JobOf(q)' = JobOf(q)
    BY <1>1, <1>5, NextJobStays
  <2> QED
    BY <1>5, <2>1 DEF Lists, Marks
<1>8. \A j : (Lists(p, j)' <=> j \in B) /\ ~Lists(p, j) /\ ~Marks(p, j)' /\ ~Marks(p, j)
  BY <1>1, <1>4, <1>5 DEF Lists, Marks
<1>9. ASSUME NEW q \in Pollers  PROVE PollFits(q)'
  <2>1. CASE q = p
    BY <1>1, <1>2, <1>4, <1>5, <2>1 DEF PollFits, Due
  <2>2. CASE q # p
    BY <1>1, <1>5, <1>7, <2>2 DEF PollFits, JobsInv
  <2> QED
    BY <2>1, <2>2
<1>10. ASSUME NEW j \in DOMAIN jobRow'  PROVE RunsKnown(j)'
  <2>1. RunsKnown(j) /\ unsure \subseteq unsure'
    BY <1>1, <1>2, <1>10 DEF JobsInv
  <2>2. CASE j \in B /\ j \notin unsure'
    <3>1. \A q \in Pollers \ {p} : ~Lists(q, j)
      BY <1>2, <2>2 DEF Listed, Lists
    <3>2. \A q \in Pollers : ~Marks(q, j)
      <4> SUFFICES ASSUME NEW q \in Pollers, Marks(q, j)  PROVE FALSE
        OBVIOUS
      <4>1. q # p /\ poller[q].todo # {}
        BY <1>8 DEF Marks, JobsInv, PollFits
      <4>2. Lists(q, j)
        BY <1>1, <4>1, NextJob DEF Marks, Lists
      <4> QED
        BY <3>1, <4>1, <4>2
    <3>3. ~jobRow[j].executed
      BY <1>2, <2>2 DEF Due
    <3>4. jobRow[j].ran = 0
      <4>1. jobRow[j].ran \in Nat
        BY <1>1, <1>10, JobFields DEF JobRecord
      <4> QED
        BY <2>1, <2>2, <3>2, <3>3, <4>1 DEF RunsKnown
    <3> QED
      BY <1>1, <1>7, <2>2, <3>1, <3>3, <3>4 DEF RunsKnown
  <2>3. CASE j \notin B \/ j \in unsure'
    BY <1>1, <1>7, <1>8, <2>1, <2>3 DEF RunsKnown
  <2> QED
    BY <2>2, <2>3
<1>11. ASSUME NEW t \in TimedTurns \ jobMet'  PROVE TurnFits(t)'
  <2>1. ASSUME NEW j \in DOMAIN jobRow, Ticks(j, t)'  PROVE Ticks(j, t)
    <3>1. CASE j \in B
      BY <1>1, <1>2, <2>1, <3>1 DEF Ticks, Due
    <3>2. CASE j \notin B
      BY <1>1, <1>7, <1>8, <2>1, <3>2 DEF Ticks
    <3> QED
      BY <3>1, <3>2
  <2>2. \A q \in Pollers : poller'[q].todo \subseteq DOMAIN jobRow
    BY <1>5 DEF PollRecord
  <2> QED
    BY <1>1, <1>4, <2>1, <2>2, TurnsStayFit
<1> QED
  BY <1>1, <1>5, <1>6, <1>9, <1>10, <1>11 DEF JobsInv, NoEarlyNotice

LEMMA RunKeeps == ASSUME JobsInv, NEW p \in Pollers, RunJob(p) PROVE JobsInv'
<1> DEFINE j == JobOf(p)
<1>1. /\ JobsTypeOK /\ poller[p].at = "run" /\ clock' = clock /\ turnRow' = turnRow /\ timer' = timer
      /\ timersMade' = timersMade /\ jobFaults' = jobFaults /\ unsure' = unsure
  BY DEF RunJob, JobsInv, jobBounds
<1>2. /\ poller[p].todo # {} /\ poller[p].todo \subseteq DOMAIN jobRow
      /\ poller \in [Pollers -> PollRecord(DOMAIN jobRow)] /\ poller[p] \in PollRecord(DOMAIN jobRow)
  BY <1>1, JobFields DEF JobsInv, PollFits
<1>3. j \in poller[p].todo /\ j \in DOMAIN jobRow
  BY <1>1, <1>2, NextJob
<1>4. PICK r : r = [poller[p] EXCEPT !.at = "mark"]
  OBVIOUS
<1>5. r \in PollRecord(DOMAIN jobRow) /\ r.at = "mark" /\ r.todo = poller[p].todo /\ PollerBecomes(p, r)
  BY <1>2, <1>4 DEF PollRecord, RunJob
<1>6. /\ poller' \in [Pollers -> PollRecord(DOMAIN jobRow)] /\ poller'[p] = r
      /\ \A q \in Pollers \ {p} : poller'[q] = poller[q]
      /\ jobMet \subseteq jobMet' /\ jobMet' \subseteq TimedTurns
  BY <1>1, <1>5, PollMoves
<1>7. PICK soon \in BOOLEAN :
        soon <=> /\ jobRow[j].type = "expired"
                 /\ turnRow[jobRow[j].turn].status = "PLAYING"
                 /\ clock < turnRow[jobRow[j].turn].limit
  OBVIOUS
<1>8. jobRow' = [jobRow EXCEPT ![j].ran = @ + 1,
                               ![j].early = @ \/ /\ jobRow[j].type = "expired"
                                                 /\ turnRow[jobRow[j].turn].status = "PLAYING"
                                                 /\ clock < turnRow[jobRow[j].turn].limit]
  BY DEF RunJob
<1>9. /\ jobRow \in Seq(JobRecord) /\ jobRow[j] \in JobRecord /\ \A i \in DOMAIN jobRow : jobRow[i] \in JobRecord
      /\ clock \in Nat /\ turnRow \in [TimedTurns -> LimitRow]
  BY <1>1, <1>3, JobFields
<1> HIDE DEF j
<1>10. PICK row, early : /\ row = [jobRow[j] EXCEPT !.ran = @ + 1, !.early = early]
                         /\ early = (jobRow[j].early \/ /\ jobRow[j].type = "expired"
                                                        /\ turnRow[jobRow[j].turn].status = "PLAYING"
                                                        /\ clock < turnRow[jobRow[j].turn].limit)
  OBVIOUS
<1>11. /\ row \in JobRecord /\ row.type = jobRow[j].type /\ row.turn = jobRow[j].turn
       /\ row.due = jobRow[j].due /\ row.ran = jobRow[j].ran + 1
       /\ row.executed <=> jobRow[j].executed
       /\ row.cancelled <=> jobRow[j].cancelled
       /\ row.early <=> jobRow[j].early \/ soon
  <2>1. early \in BOOLEAN /\ (early <=> jobRow[j].early \/ soon)
    BY <1>7, <1>9, <1>10 DEF JobRecord
  <2>2. row = [jobRow[j] EXCEPT !.ran = @ + 1, !.early = early]
    BY <1>10
  <2>3. PICK ran \in Nat : ran = jobRow[j].ran + 1
    BY <1>9 DEF JobRecord
  <2>4. row = [jobRow[j] EXCEPT !.ran = ran, !.early = early]
    BY <2>2, <2>3
  <2>5. row.type = jobRow[j].type /\ row.turn = jobRow[j].turn /\ row.due = jobRow[j].due /\ row.ran = ran
    BY <1>9, <2>4 DEF JobRecord
  <2>6. row.executed = jobRow[j].executed /\ row.cancelled = jobRow[j].cancelled /\ row.early = early
    BY <1>9, <2>4, Zenon DEF JobRecord
  <2>7. row \in JobRecord
    BY <1>9, <2>1, <2>4 DEF JobRecord
  <2> QED
    BY <2>1, <2>3, <2>5, <2>6, <2>7
<1>12. jobRow' = [jobRow EXCEPT ![j] = row]
  BY <1>3, <1>8, <1>9, <1>10
<1>13. /\ jobRow' \in Seq(JobRecord) /\ DOMAIN jobRow' = DOMAIN jobRow /\ jobRow'[j] = row
       /\ \A i \in DOMAIN jobRow \ {j} : jobRow'[i] = jobRow[i]
  BY <1>3, <1>9, <1>11, <1>12
<1>14. JobsTypeOK'
  <2>1. /\ clock \in Nat \ {0} /\ timer \in [TimerCalls -> TimerRow] /\ timersMade \in Nat /\ jobFaults \in Nat
        /\ unsure \subseteq DOMAIN jobRow
    BY <1>1, JobFields
  <2> QED
    BY <1>1, <1>6, <1>9, <1>13, <2>1, Zenon DEF JobsTypeOK, LimitRow, JobRecord, PollRecord, TimerRow
<1>15. \A i \in DOMAIN jobRow : /\ jobRow'[i].due = jobRow[i].due /\ jobRow'[i].turn = jobRow[i].turn
                                /\ jobRow'[i].type = jobRow[i].type
                                /\ jobRow'[i].executed <=> jobRow[i].executed
                                /\ jobRow'[i].cancelled <=> jobRow[i].cancelled
  BY <1>11, <1>13
<1>16. \A q \in Pollers : /\ poller'[q].todo = poller[q].todo /\ poller[q].todo \subseteq DOMAIN jobRow
                          /\ q # p => poller'[q].at = poller[q].at
  BY <1>1, <1>5, <1>6, JobFields
<1>17. \A q \in Pollers : JobOf(q)' = JobOf(q)
  BY <1>15, <1>16, NextJobStays
<1>18. /\ \A q \in Pollers : \A i : Lists(q, i)' <=> Lists(q, i)
       /\ \A i : ~Marks(p, i) /\ (Marks(p, i)' <=> i = j)
       /\ \A q \in Pollers \ {p} : \A i : Marks(q, i)' <=> Marks(q, i)
  <2>1. poller'[p].at = "mark" /\ JobOf(p)' = j
    BY <1>5, <1>6, <1>17 DEF j
  <2> QED
    BY <1>1, <1>16, <1>17, <2>1 DEF Lists, Marks
<1>19. ASSUME NEW q \in Pollers  PROVE PollFits(q)'
  <2>1. PollFits(q) /\ \A i \in DOMAIN jobRow : jobRow[i].ran \in Nat
    BY <1>9 DEF JobsInv, JobRecord
  <2>2. (JobOf(q) = j => jobRow'[JobOf(q)].ran > 0) /\ (q = p => JobOf(q) = j)
    BY <1>3, <1>11, <1>13, <2>1 DEF j
  <2>3. q # p /\ JobOf(q) # j /\ poller[q].at = "mark" => jobRow'[JobOf(q)].ran > 0
    <3> SUFFICES ASSUME q # p, JobOf(q) # j, poller[q].at = "mark"  PROVE jobRow'[JobOf(q)].ran > 0
      OBVIOUS
    <3>1. JobOf(q) \in poller[q].todo
      BY <1>1, <2>1, NextJob DEF PollFits
    <3> QED
      BY <1>13, <1>16, <2>1, <3>1 DEF PollFits
  <2>4. poller'[q].at = "mark" => jobRow'[JobOf(q)'].ran > 0
    BY <1>16, <1>17, <2>2, <2>3
  <2>5. \A i \in poller'[q].todo : jobRow'[i].due <= clock'
    BY <1>1, <1>15, <1>16, <2>1 DEF PollFits
  <2>6. poller'[q].at = "idle" <=> poller'[q].todo = {}
    <3>1. CASE q = p
      BY <1>2, <1>5, <1>6, <3>1
    <3>2. CASE q # p
      BY <1>16, <2>1, <3>2 DEF PollFits
    <3> QED
      BY <3>1, <3>2
  <2> QED
    BY <2>4, <2>5, <2>6 DEF PollFits
<1>20. ASSUME NEW i \in DOMAIN jobRow'  PROVE RunsKnown(i)'
  <2>1. RunsKnown(i) /\ jobRow[i].ran \in Nat
    BY <1>9, <1>13, <1>20 DEF JobsInv, JobRecord
  <2>2. CASE i = j
    <3>1. jobRow'[i].ran = jobRow[i].ran + 1 /\ jobRow'[i].ran > 0
      BY <1>11, <1>13, <2>1, <2>2
    <3>2. i \notin unsure => jobRow[i].ran = 0 /\ \A q \in Pollers : Lists(q, i) => q = p
      BY <1>3, <1>18, <2>1, <2>2 DEF RunsKnown, Lists
    <3> QED
      BY <1>1, <1>18, <2>2, <3>1, <3>2 DEF RunsKnown
  <2>3. CASE i # j
    <3>1. jobRow'[i] = jobRow[i]
      BY <1>13, <1>20, <2>3
    <3>2. \A q \in Pollers : Marks(q, i)' <=> Marks(q, i)
      BY <1>18, <2>3
    <3> QED
      BY <1>1, <1>18, <2>1, <3>1, <3>2 DEF RunsKnown
  <2> QED
    BY <2>2, <2>3
<1>21. ASSUME NEW i, NEW t  PROVE i \in DOMAIN jobRow => (Ticks(i, t)' <=> Ticks(i, t))
  BY <1>15, <1>18 DEF Ticks
<1>22. ASSUME NEW t \in TimedTurns \ jobMet'  PROVE TurnFits(t)'
  <2>1. \A q \in Pollers : poller'[q].todo \subseteq DOMAIN jobRow
    BY <1>16
  <2> QED
    BY <1>1, <1>5, <1>13, <1>15, <1>21, <2>1, TurnsStayFit
<1>23. NoEarlyNotice'
  <2> SUFFICES ASSUME NEW i \in DOMAIN jobRow, jobRow'[i].early, jobRow[i].turn \notin jobMet'
               PROVE  FALSE
    BY <1>13, <1>15 DEF NoEarlyNotice
  <2>1. ~jobRow[i].early
    BY <1>6 DEF JobsInv, NoEarlyNotice
  <2>2. i = j /\ soon
    BY <1>11, <1>13, <2>1
  <2>3. jobRow[j].turn \in TimedTurns
    BY <1>9 DEF JobRecord
  <2>4. TurnFits(jobRow[j].turn)
    BY <1>6, <2>2, <2>3 DEF JobsInv
  <2>5. Ticks(j, jobRow[j].turn)
    BY <1>3, <1>7, <2>2 DEF Ticks, Lists
  <2>6. jobRow[j].due >= turnRow[jobRow[j].turn].limit
    BY <1>3, <2>4, <2>5 DEF TurnFits
  <2>7. jobRow[j].due <= clock
    BY <1>3 DEF JobsInv, PollFits
  <2>8. jobRow[j].due \in Nat /\ turnRow[jobRow[j].turn].limit \in Nat
    BY <1>9, <2>3 DEF JobRecord, LimitRow
  <2> QED
    BY <1>7, <1>9, <2>2, <2>6, <2>7, <2>8
<1>24. \A c \in TimerCalls : timer'[c].at # "idle" => timer'[c].turn \in TimedTurns
  BY <1>1 DEF JobsInv
<1> QED
  BY <1>14, <1>19, <1>20, <1>22, <1>23, <1>24 DEF JobsInv

LEMMA MarkKeeps == ASSUME JobsInv, NEW p \in Pollers, MarkJob(p) PROVE JobsInv'
<1> DEFINE j == JobOf(p)
<1>1. /\ JobsTypeOK /\ poller[p].at = "mark" /\ clock' = clock /\ turnRow' = turnRow /\ timer' = timer
      /\ timersMade' = timersMade /\ jobFaults' = jobFaults /\ unsure' = unsure
      /\ jobRow' = [jobRow EXCEPT ![j].executed = TRUE]
  BY DEF MarkJob, JobsInv, jobBounds
<1>2. /\ poller[p].todo # {} /\ poller[p].todo \subseteq DOMAIN jobRow
      /\ jobRow \in Seq(JobRecord) /\ \A i \in DOMAIN jobRow : jobRow[i] \in JobRecord
      /\ turnRow \in [TimedTurns -> LimitRow] /\ clock \in Nat
  BY <1>1, JobFields DEF JobsInv, PollFits
<1>3. j \in poller[p].todo /\ j \in DOMAIN jobRow
  BY <1>1, <1>2, NextJob
<1>4. PICK r : /\ r = IF poller[p].todo \ {j} = {} THEN NoPoll ELSE [at |-> "run", todo |-> poller[p].todo \ {j}]
               /\ PollerBecomes(p, r)
  BY DEF MarkJob, AfterJob
<1> HIDE DEF j
<1>5. /\ r \in PollRecord(DOMAIN jobRow) /\ r.todo = poller[p].todo \ {j}
      /\ r.at \in {"idle", "run"} /\ (r.at = "idle" <=> r.todo = {})
  BY <1>2, <1>4 DEF PollRecord, NoPoll
<1>6. /\ poller' \in [Pollers -> PollRecord(DOMAIN jobRow)] /\ poller'[p] = r
      /\ \A q \in Pollers \ {p} : poller'[q] = poller[q]
      /\ jobMet \subseteq jobMet' /\ jobMet' \subseteq TimedTurns
  BY <1>1, <1>4, <1>5, PollMoves
<1>7. PICK row : row = [jobRow[j] EXCEPT !.executed = TRUE]
  OBVIOUS
<1>8. /\ row \in JobRecord /\ row.executed /\ row.type = jobRow[j].type /\ row.turn = jobRow[j].turn
      /\ row.due = jobRow[j].due /\ row.ran = jobRow[j].ran
      /\ row.cancelled <=> jobRow[j].cancelled
      /\ row.early <=> jobRow[j].early
  BY <1>2, <1>3, <1>7 DEF JobRecord
<1>9. jobRow' = [jobRow EXCEPT ![j] = row]
  BY <1>1, <1>2, <1>3, <1>7
<1>10. /\ jobRow' \in Seq(JobRecord) /\ DOMAIN jobRow' = DOMAIN jobRow /\ jobRow'[j] = row
       /\ \A i \in DOMAIN jobRow \ {j} : jobRow'[i] = jobRow[i]
  BY <1>2, <1>3, <1>8, <1>9
<1>11. JobsTypeOK'
  <2>1. /\ clock \in Nat \ {0} /\ timer \in [TimerCalls -> TimerRow] /\ timersMade \in Nat /\ jobFaults \in Nat
        /\ unsure \subseteq DOMAIN jobRow
    BY <1>1, JobFields
  <2> QED
    BY <1>1, <1>2, <1>6, <1>10, <2>1, Zenon DEF JobsTypeOK, LimitRow, JobRecord, PollRecord, TimerRow
<1>12. \A i \in DOMAIN jobRow : /\ jobRow'[i].due = jobRow[i].due /\ jobRow'[i].turn = jobRow[i].turn
                                /\ jobRow'[i].type = jobRow[i].type /\ jobRow'[i].ran = jobRow[i].ran
                                /\ jobRow[i].executed => jobRow'[i].executed
                                /\ jobRow'[i].early <=> jobRow[i].early
  BY <1>8, <1>10
<1>13. \A q \in Pollers : poller'[q].todo \subseteq poller[q].todo /\ poller[q].todo \subseteq DOMAIN jobRow
  BY <1>1, <1>5, <1>6, JobFields
<1>14. \A q \in Pollers \ {p} : JobOf(q)' = JobOf(q)
  BY <1>6, <1>12, <1>13, NextJobStays
<1>15. /\ \A i : (Lists(p, i)' <=> Lists(p, i) /\ i # j) /\ ~Marks(p, i)' /\ (Marks(p, i) <=> i = j)
       /\ \A q \in Pollers \ {p} : \A i : (Lists(q, i)' <=> Lists(q, i)) /\ (Marks(q, i)' <=> Marks(q, i))
  BY <1>1, <1>5, <1>6, <1>14 DEF Lists, Marks, j
<1>16. ASSUME NEW q \in Pollers  PROVE PollFits(q)'
  <2>1. PollFits(q)
    BY DEF JobsInv
  <2>2. CASE q = p
    BY <1>1, <1>5, <1>6, <1>12, <1>13, <2>1, <2>2 DEF PollFits
  <2>3. CASE q # p
    <3>1. poller[q].at = "mark" => JobOf(q) \in DOMAIN jobRow
      BY <1>1, <1>13, <2>1, NextJob DEF PollFits
    <3> QED
      BY <1>1, <1>6, <1>12, <1>13, <1>14, <2>1, <2>3, <3>1 DEF PollFits
  <2> QED
    BY <2>2, <2>3
<1>17. jobRow[j].ran > 0
  BY <1>1 DEF JobsInv, PollFits, j
<1>18. ASSUME NEW i \in DOMAIN jobRow'  PROVE RunsKnown(i)'
  <2>1. RunsKnown(i)
    BY <1>10, <1>18 DEF JobsInv
  <2>2. CASE i = j
    <3>1. jobRow'[i].ran = jobRow[i].ran /\ jobRow'[i].executed /\ jobRow'[i].ran > 0
      BY <1>8, <1>10, <1>17, <2>2
    <3>2. i \notin unsure => \A q \in Pollers : Lists(q, i) => q = p
      BY <1>3, <2>1, <2>2 DEF RunsKnown, Lists
    <3> QED
      BY <1>1, <1>15, <2>1, <2>2, <3>1, <3>2 DEF RunsKnown
  <2>3. CASE i # j
    <3>1. jobRow'[i] = jobRow[i]
      BY <1>10, <1>18, <2>3
    <3>2. \A q \in Pollers : (Marks(q, i)' <=> Marks(q, i)) /\ (Lists(q, i)' <=> Lists(q, i))
      BY <1>15, <2>3
    <3> QED
      BY <1>1, <2>1, <3>1, <3>2 DEF RunsKnown
  <2> QED
    BY <2>2, <2>3
<1>19. ASSUME NEW i \in DOMAIN jobRow, NEW t, Ticks(i, t)'  PROVE Ticks(i, t)
  BY <1>12, <1>15, <1>19 DEF Ticks
<1>20. ASSUME NEW t \in TimedTurns \ jobMet'  PROVE TurnFits(t)'
  <2>1. \A q \in Pollers : poller'[q].todo \subseteq DOMAIN jobRow
    BY <1>13
  <2> QED
    BY <1>1, <1>4, <1>10, <1>12, <1>19, <2>1, TurnsStayFit
<1>21. NoEarlyNotice'
  BY <1>6, <1>10, <1>12 DEF JobsInv, NoEarlyNotice
<1>22. \A c \in TimerCalls : timer'[c].at # "idle" => timer'[c].turn \in TimedTurns
  BY <1>1 DEF JobsInv
<1> QED
  BY <1>11, <1>16, <1>18, <1>20, <1>21, <1>22 DEF JobsInv

\* A request fails: its turn stays as the calls before left it.
LEMMA TimerFails ==
  ASSUME JobsInv, NEW c \in TimerCalls, timer[c].at # "idle", TimerBecomes(c, NoTimer),
         UNCHANGED <<clock, turnRow, jobRow, poller, timersMade>>, jobFaults' \in Nat
  PROVE  JobsInv'
<1>1. PICK t \in TimedTurns : t = timer[c].turn
  BY TimingFields
<1>2. /\ turnRow \in [TimedTurns -> LimitRow] /\ timersMade \in Nat
      /\ NoTimer \in TimerRow /\ NoTimer.at = "idle"
  BY TimingFields
<1>3. PICK r \in TimerRow : r = NoTimer /\ r.at = "idle"
  BY <1>2
<1>4. ASSUME TurnFits(t)  PROVE Leaves(r, t)'
  <2>1. turnRow' = turnRow /\ jobRow' = jobRow /\ poller' = poller
    OBVIOUS
  <2>2. \A j \in DOMAIN jobRow : Ticks(j, t)' <=> Ticks(j, t)
    BY <2>1, TicksSame
  <2> QED
    BY <1>3, <1>4, <2>1, <2>2 DEF Leaves, TurnFits
<1> QED
  BY <1>1, <1>2, <1>3, <1>4, CallGoesOn

\* Some polls are over: the job that one of them had run and not marked is unsure.
LEMMA PollsEnd ==
  ASSUME JobsInv, NEW P \in SUBSET Pollers,
         poller' = [p \in Pollers |-> IF p \in P THEN NoPoll ELSE poller[p]],
         unsure' = unsure \cup {JobOf(p) : p \in {q \in P : poller[q].at = "mark"}},
         UNCHANGED <<clock, turnRow, jobRow, timersMade>>, jobFaults' \in Nat,
         timer' \in [TimerCalls -> TimerRow],
         \A c \in TimerCalls : timer'[c] = timer[c] \/ timer'[c].at = "idle",
         jobMet \subseteq jobMet', jobMet' \subseteq TimedTurns
  PROVE  JobsInv'
<1>1. /\ JobsTypeOK /\ poller \in [Pollers -> PollRecord(DOMAIN jobRow)]
      /\ \A p \in Pollers : poller[p].todo \subseteq DOMAIN jobRow
  BY JobFields DEF JobsInv
<1>2. NoPoll \in PollRecord(DOMAIN jobRow) /\ NoPoll.at = "idle" /\ NoPoll.todo = {}
  BY DEF NoPoll, PollRecord
<1>3. poller' \in [Pollers -> PollRecord(DOMAIN jobRow)]
  BY <1>1, <1>2
<1>4. \A p \in Pollers : poller[p].at = "mark" => JobOf(p) \in DOMAIN jobRow
  BY <1>1, NextJob DEF JobsInv, PollFits
<1>5. JobsTypeOK'
  <2>1. /\ clock \in Nat \ {0} /\ turnRow \in [TimedTurns -> LimitRow] /\ jobRow \in Seq(JobRecord)
        /\ timersMade \in Nat /\ unsure \subseteq DOMAIN jobRow
    BY <1>1, JobFields
  <2>2. unsure' \subseteq DOMAIN jobRow'
    BY <1>4, <2>1
  <2>3. clock' = clock /\ turnRow' = turnRow /\ jobRow' = jobRow /\ timersMade' = timersMade
    OBVIOUS
  <2> QED
    BY <1>3, <2>1, <2>2, <2>3, Zenon DEF JobsTypeOK, LimitRow, JobRecord, PollRecord, TimerRow
<1>6. ASSUME NEW p \in Pollers \ P  PROVE poller'[p] = poller[p] /\ JobOf(p)' = JobOf(p)
  <2>1. poller'[p] = poller[p]
    BY <1>6
  <2> QED
    BY <2>1, NextJobStays
<1>7. \A p \in P : poller'[p] = NoPoll
  OBVIOUS
<1>8. /\ \A p \in P : \A j : ~Lists(p, j)' /\ ~Marks(p, j)'
      /\ \A p \in Pollers \ P : \A j : (Lists(p, j)' <=> Lists(p, j)) /\ (Marks(p, j)' <=> Marks(p, j))
  BY <1>2, <1>6, <1>7 DEF Lists, Marks
<1>9. ASSUME NEW p \in Pollers  PROVE PollFits(p)'
  <2>1. CASE p \in P
    BY <1>2, <1>7, <2>1 DEF PollFits
  <2>2. CASE p \notin P
    BY <1>6, <2>2 DEF PollFits, JobsInv
  <2> QED
    BY <2>1, <2>2
<1>10. ASSUME NEW j \in DOMAIN jobRow'  PROVE RunsKnown(j)'
  <2>1. RunsKnown(j) /\ jobRow' = jobRow
    BY DEF JobsInv
  <2>2. j \notin unsure' => j \notin unsure /\ \A p \in P : ~Marks(p, j)
    BY DEF Marks
  <2> QED
    BY <1>8, <2>1, <2>2 DEF RunsKnown
<1>11. ASSUME NEW t \in TimedTurns \ jobMet'  PROVE TurnFits(t)'
  <2>1. TurnFits(t)
    BY <1>11 DEF JobsInv
  <2>2. \A c \in TimerCalls : Timing(c, t)' => Timing(c, t) /\ timer'[c] = timer[c]
    BY DEF Timing
  <2>3. \A p \in Pollers : poller'[p].todo \subseteq poller[p].todo
    BY <1>2, <1>6, <1>7
  <2> QED
    BY <1>1, <2>1, <2>2, <2>3, TurnStays
<1>12. NoEarlyNotice'
  BY DEF JobsInv, NoEarlyNotice
<1>13. \A c \in TimerCalls : timer'[c].at # "idle" => timer'[c].turn \in TimedTurns
  BY DEF JobsInv
<1> QED
  BY <1>5, <1>9, <1>10, <1>11, <1>12, <1>13 DEF JobsInv

LEMMA JobFaultsKeep == ASSUME JobsInv, JobsDbError \/ JobsCrash PROVE JobsInv'
<1>1. /\ jobFaults' \in Nat /\ UNCHANGED <<clock, turnRow, jobRow, timersMade>>
      /\ JobsTypeOK /\ timer \in [TimerCalls -> TimerRow] /\ jobMet \subseteq TimedTurns
      /\ poller \in [Pollers -> PollRecord(DOMAIN jobRow)]
  BY JobFields DEF JobsDbError, JobsCrash, JobsInv
<1>2. NoPoll \in PollRecord(DOMAIN jobRow)
  BY DEF NoPoll, PollRecord
<1>3. CASE \E p \in Pollers : /\ poller[p].at = "mark" /\ PollerBecomes(p, NoPoll)
                              /\ unsure' = unsure \cup {JobOf(p)}
                              /\ UNCHANGED timer
  <2>1. PICK p \in Pollers : /\ poller[p].at = "mark" /\ PollerBecomes(p, NoPoll)
                             /\ unsure' = unsure \cup {JobOf(p)}
                             /\ UNCHANGED timer
    BY <1>3
  <2>2. jobMet \subseteq jobMet' /\ jobMet' \subseteq TimedTurns
    BY <1>1, <1>2, <2>1, PollMoves
  <2>3. poller' = [q \in Pollers |-> IF q \in {p} THEN NoPoll ELSE poller[q]]
    BY <1>1, <2>1 DEF PollerBecomes
  <2>4. unsure' = unsure \cup {JobOf(q) : q \in {s \in {p} : poller[s].at = "mark"}}
    BY <2>1
  <2>5. timer' = timer /\ {p} \in SUBSET Pollers
    BY <2>1
  <2> QED
    BY <1>1, <2>2, <2>3, <2>4, <2>5, PollsEnd
<1>4. CASE \E c \in TimerCalls : /\ ~TimerAt(c, "idle") /\ TimerBecomes(c, NoTimer) /\ UNCHANGED poller
  <2>1. PICK c \in TimerCalls : timer[c].at # "idle" /\ TimerBecomes(c, NoTimer) /\ UNCHANGED poller
    BY <1>4 DEF TimerAt
  <2> QED
    BY <1>1, <2>1, TimerFails
<1>5. CASE JobsCrash
  <2>1. /\ poller' = [p \in Pollers |-> IF p \in Pollers THEN NoPoll ELSE poller[p]]
        /\ timer' = [c \in TimerCalls |-> NoTimer] /\ jobMet' = jobMet
        /\ unsure' = unsure \cup {JobOf(p) : p \in {q \in Pollers : poller[q].at = "mark"}}
    BY <1>5 DEF JobsCrash
  <2>2. NoTimer \in TimerRow /\ NoTimer.at = "idle"
    BY DEF NoTimer, TimerRow
  <2>3. timer' \in [TimerCalls -> TimerRow] /\ \A c \in TimerCalls : timer'[c].at = "idle"
    BY <2>1, <2>2
  <2> QED
    BY <1>1, <2>1, <2>3, PollsEnd
<1> QED
  BY <1>3, <1>4, <1>5 DEF JobsDbError

LEMMA JobsStart == ASSUME JobsInit PROVE JobsInv
<1>1. NoTimer \in TimerRow /\ NoTimer.at = "idle"
  BY DEF NoTimer, TimerRow
<1>2. NoPoll \in PollRecord({}) /\ NoPoll.at = "idle" /\ NoPoll.todo = {}
  BY DEF NoPoll, PollRecord
<1>3. jobRow = <<>> /\ jobRow \in Seq(JobRecord) /\ DOMAIN jobRow = {}
  BY EmptySeq DEF JobsInit
<1>4. /\ timer \in [TimerCalls -> TimerRow] /\ poller \in [Pollers -> PollRecord(DOMAIN jobRow)]
      /\ \A c \in TimerCalls : timer[c].at = "idle"
      /\ \A p \in Pollers : poller[p] = NoPoll
  BY <1>1, <1>2, <1>3 DEF JobsInit
<1>5. turnRow \in [TimedTurns -> LimitRow]
  BY DEF JobsInit, LimitRow
<1>6. JobsTypeOK
  <2>1. /\ clock \in Nat \ {0} /\ timersMade \in Nat /\ jobFaults \in Nat
        /\ jobMet \subseteq TimedTurns /\ unsure \subseteq DOMAIN jobRow
    BY DEF JobsInit
  <2> QED
    BY <1>3, <1>4, <1>5, <2>1, Zenon DEF JobsTypeOK, LimitRow, JobRecord, PollRecord, TimerRow
<1>7. \A p \in Pollers : PollFits(p)
  BY <1>2, <1>4 DEF PollFits
<1>8. \A t \in TimedTurns : TurnFits(t)
  BY <1>3, <1>4 DEF TurnFits, Timing
<1> QED
  BY <1>3, <1>4, <1>6, <1>7, <1>8 DEF JobsInv, NoEarlyNotice

LEMMA JobsSteps == JobsInv /\ [JobsNext]_jobVars => JobsInv'
<1> SUFFICES ASSUME JobsInv, [JobsNext]_jobVars PROVE JobsInv'
  OBVIOUS
<1>1. CASE UNCHANGED jobVars
  <2>1. /\ JobsTypeOK /\ timer \in [TimerCalls -> TimerRow] /\ jobMet \subseteq TimedTurns /\ jobFaults \in Nat
        /\ poller \in [Pollers -> PollRecord(DOMAIN jobRow)]
    BY JobFields DEF JobsInv
  <2>2. /\ UNCHANGED <<clock, turnRow, jobRow, timersMade>> /\ jobFaults' \in Nat /\ unsure' = unsure
        /\ timer' = timer /\ poller' = poller /\ jobMet' = jobMet
    BY <1>1, <2>1 DEF jobVars, jobBounds, jobHistory
  <2>3. poller' = [p \in Pollers |-> IF p \in {} THEN NoPoll ELSE poller[p]]
    BY <2>1, <2>2
  <2>4. unsure' = unsure \cup {JobOf(p) : p \in {q \in {} : poller[q].at = "mark"}}
    BY <2>2
  <2>5. {} \in SUBSET Pollers /\ timer' \in [TimerCalls -> TimerRow] /\ jobMet' \subseteq TimedTurns
    BY <2>1, <2>2
  <2> QED
    BY <2>2, <2>3, <2>4, <2>5, PollsEnd
<1>2. ASSUME NEW p \in Pollers, PollStep(p)  PROVE JobsInv'
  BY <1>2, ListKeeps, RunKeeps, MarkKeeps DEF PollStep
<1>3. ASSUME NEW c \in TimerCalls, CallTimer(c) \/ TimerStep(c)  PROVE JobsInv'
  BY <1>3, CallTimerKeeps, StartKeeps, LookPlayingKeeps, CancelKeeps, LimitKeeps, ScheduleKeeps DEF TimerStep
<1> QED
  BY <1>1, <1>2, <1>3, OthersKeepTime, JobFaultsKeep DEF JobsNext

LEMMA JobsInvariant == JobsSpec => []JobsInv
  BY JobsStart, JobsSteps, PTL DEF JobsSpec

\* Jobs, polls and requests stay well formed: nothing is listed or marked that is not
\* a row, and no job is due before the epoch.
THEOREM JobsTyped == JobsSpec => []JobsTypeOK
<1>1. JobsInv => JobsTypeOK
  BY DEF JobsInv
<1> QED
  BY <1>1, JobsInvariant, PTL

LEMMA RunOnce == JobsInv => JobRunsOnce
  BY DEF JobsInv, RunsKnown, JobRunsOnce

\* scheduler.service.ts:53-62, for any number of polls, requests and jobs: a job is
\* marked only after its handler was called or by cancelJob, and its handler is called
\* twice only if two polls had listed it or one ended before it marked it.
THEOREM JobsRunOnce == JobsSpec => []JobRunsOnce
  BY JobsInvariant, RunOnce, PTL

\* For any turns, lengths, extensions and polls: players are told that their time is
\* over while some is left only if a poll or another request about the game overlapped.
THEOREM NoNoticeIsEarly == JobsSpec => []NoEarlyNotice
<1>1. JobsInv => NoEarlyNotice
  BY DEF JobsInv
<1> QED
  BY <1>1, JobsInvariant, PTL

-----------------------------------------------------------------------------
(* The eight parts side by side                                            *)

LEMMA OfficeStarts ==
  ASSUME OfficeInit
  PROVE  /\ JobsInit /\ SeatsInit /\ FeesInit /\ GuestsInit
         /\ HiringInit /\ OperatorsInit /\ TokensInit /\ RallyInit
  BY DEF OfficeInit

\* Whatever desk is at work, each part takes one of its own steps or none.
LEMMA OfficeSteps ==
  ASSUME [OfficeNext]_officeVars
  PROVE  /\ [JobsNext]_jobVars /\ [SeatsNext]_seatVars /\ [FeesNext]_feeVars /\ [GuestsNext]_guestVars
         /\ [HiringNext]_hiringVars /\ [OperatorsNext]_operatorVars
         /\ [TokensNext]_tokenVars /\ [RallyNext]_rallyVars
<1>1. CASE UNCHANGED officeVars
  BY <1>1 DEF officeVars
<1>2. CASE JobsDesk
  BY <1>2 DEF JobsDesk
<1>3. CASE SeatsDesk
  BY <1>3 DEF SeatsDesk
<1>4. CASE FeesDesk
  BY <1>4 DEF FeesDesk
<1>5. CASE GuestsDesk
  BY <1>5 DEF GuestsDesk
<1>6. CASE HiringDesk
  BY <1>6 DEF HiringDesk
<1>7. CASE OperatorsDesk
  BY <1>7 DEF OperatorsDesk
<1>8. CASE TokensDesk
  BY <1>8 DEF TokensDesk
<1>9. CASE RallyDesk
  BY <1>9 DEF RallyDesk
<1> QED
  BY <1>1, <1>2, <1>3, <1>4, <1>5, <1>6, <1>7, <1>8, <1>9 DEF OfficeNext

\* A behaviour of the back office is one of every part.
THEOREM OfficeIsItsParts ==
  OfficeSpec => /\ JobsSpec /\ SeatsSpec /\ FeesSpec /\ GuestsSpec
                /\ HiringSpec /\ OperatorsSpec /\ TokensSpec /\ RallySpec
<1>1. OfficeInit => /\ JobsInit /\ SeatsInit /\ FeesInit /\ GuestsInit
                    /\ HiringInit /\ OperatorsInit /\ TokensInit /\ RallyInit
  BY OfficeStarts
<1>2. [OfficeNext]_officeVars =>
        /\ [JobsNext]_jobVars /\ [SeatsNext]_seatVars /\ [FeesNext]_feeVars /\ [GuestsNext]_guestVars
        /\ [HiringNext]_hiringVars /\ [OperatorsNext]_operatorVars
        /\ [TokensNext]_tokenVars /\ [RallyNext]_rallyVars
  BY OfficeSteps
<1> QED
  BY <1>1, <1>2, PTL
  DEF OfficeSpec, JobsSpec, SeatsSpec, FeesSpec, GuestsSpec, HiringSpec, OperatorsSpec, TokensSpec, RallySpec

\* Rows and requests of every part stay well formed, for every value of the constants.
THEOREM OfficeTyped == OfficeSpec => []OfficeTypeOK
<1>1. JobsTypeOK /\ SeatsTypeOK /\ FeesTypeOK /\ GuestsTypeOK /\ HiringTypeOK /\ OperatorsTypeOK
        /\ TokensTypeOK /\ RallyTypeOK
      => OfficeTypeOK
  BY DEF OfficeTypeOK
<1> QED
  BY <1>1, OfficeIsItsParts, JobsTyped, SeatsTyped, FeesTyped, GuestsTyped, HiringTyped, OperatorsTyped,
     TokensTyped, RallyTyped, PTL

\* What the parts keep by themselves they keep in the back office, where the run of
\* the model checker has them: no step of one of them disturbs another.
THEOREM OfficeSafe ==
  OfficeSpec =>
    /\ [](JobRunsOnce /\ NoEarlyNotice /\ KnownSeatsFit /\ OneApplicationEach /\ FlagFollowsRecord
          /\ FreeSeatToFirst /\ OneClassPerHire /\ LeadersWereApproved /\ NobodyWaitsForNothing
          /\ SignedOutForCause /\ RunsOnceUnlessLost /\ OneMatchEach /\ ReturnedPlayersStay)
    /\ ConfirmationStays /\ OnlyForwards
BY OfficeIsItsParts, JobsRunOnce, NoNoticeIsEarly, SeatsFit, AppliedOnce, FlagIsRecord, SeatToFirst,
   HiredOnce, LeadersAreApproved, WaitingCanEnd, NobodySignedOut, RunsOnce, OneMatchForEach, PlayersStay,
   ConfirmedFeesStay, StagesGoForwards, PTL
=============================================================================
