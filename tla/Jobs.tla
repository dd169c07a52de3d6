-------------------------------- MODULE Jobs --------------------------------
(***************************************************************************)
(* Timers of a game: scheduler.service.ts polls a table of jobs and marks  *)
(* what it has run, handlers.ts tells the players, and turn.service.ts     *)
(* schedules, cancels and moves the jobs when a game starts, ends or is    *)
(* extended.  Each database call is a step; polls and requests overlap.    *)
(***************************************************************************)
EXTENDS Integers, Sequences, FiniteSets

CONSTANTS
  TimedTurns,     \* CourtTurn rows about to start
  Pollers,        \* polls under way at the same time: the interval waits for none
  TimerCalls,     \* requests under way at the same time
  GameLengths,    \* gameDurationMinutes of the policy at a start, 0: no limit
  WarnBefore,     \* gameWarningMinutes
  Extension,      \* minutes an extension adds
  BatchSize,      \* take: jobs a poll reads at most
  MaxClock, MaxTimerCalls, MaxJobFaults,  \* bounds, the last on how many polls
  MaxTimersAtOnce                         \* and requests are under way together

ASSUME JobsAssumption ==
  /\ GameLengths \subseteq Nat /\ WarnBefore \in Nat /\ Extension \in Nat \ {0}
  /\ BatchSize \in Nat \ {0} /\ MaxClock \in Nat
  /\ MaxTimerCalls \in Nat /\ MaxJobFaults \in Nat /\ MaxTimersAtOnce \in Nat
  /\ IsFiniteSet(TimedTurns)

VARIABLES
  clock,      \* the time, from 1
  turnRow,    \* CourtTurn: status and timeLimitAt, 0 for null
  jobRow,     \* ScheduledJob rows in the order they were created
  poller,     \* the polls: where each stands, the jobs it has listed
  timer,      \* the requests
  timersMade, jobFaults,
  jobMet,     \* turns on which a request met a poll or another request, and
  unsure      \* jobs two polls listed at once, or whose poll ended before it
              \* marked them (both no state of the code)

jobBounds == <<timersMade, jobFaults>>
jobHistory == <<jobMet, unsure>>
jobVars == <<clock, turnRow, jobRow, poller, timer, jobBounds, jobHistory>>

NoTimer == [kind |-> "none", at |-> "idle", turn |-> "none", limit |-> 0]
NoPoll == [at |-> "idle", todo |-> {}]

\* ran, cancelled and early are no columns: how often the handler was called,
\* whether cancelJob marked the row, whether "time is over" went out too soon.
NewJob(what, t, d) == [type |-> what, turn |-> t, due |-> d, executed |-> FALSE,
                       ran |-> 0, cancelled |-> FALSE, early |-> FALSE]

JobsInit ==
  /\ clock = 1
  /\ turnRow = [t \in TimedTurns |-> [status |-> "WAITING", limit |-> 0]]
  /\ jobRow = <<>>
  /\ poller = [p \in Pollers |-> NoPoll]
  /\ timer = [c \in TimerCalls |-> NoTimer]
  /\ timersMade = 0 /\ jobFaults = 0
  /\ jobMet = {} /\ unsure = {}

-----------------------------------------------------------------------------
\* The turns two requests, or a request and a poll, are both about.
Polled(pl) == {jobRow[j].turn : j \in UNION {pl[p].todo : p \in Pollers}}
Timed(tm, c) == {tm[c].turn} \cap TimedTurns
JobsMet(pl, tm) ==
  UNION {Timed(tm, c) \cap (Polled(pl) \cup UNION {Timed(tm, d) : d \in TimerCalls \ {c}}) :
           c \in TimerCalls}

Due(j) == ~jobRow[j].executed /\ jobRow[j].due <= clock
TimerAt(c, l) == timer[c].at = l
TimerBecomes(c, r) == /\ timer' = [timer EXCEPT ![c] = r]
                      /\ jobMet' = jobMet \cup JobsMet(poller, timer')
                      /\ UNCHANGED unsure
TimerTo(c, l) == TimerBecomes(c, [timer[c] EXCEPT !.at = l])

RoomForTimer == Cardinality({p \in Pollers : poller[p].at # "idle"})
                  + Cardinality({c \in TimerCalls : ~TimerAt(c, "idle")}) < MaxTimersAtOnce

TimePasses == /\ clock < MaxClock /\ clock' = clock + 1
              /\ UNCHANGED <<turnRow, jobRow, poller, timer, jobBounds, jobHistory>>

\* A start is called for a waiting turn; the other two look for themselves.
CallTimer(c) ==
  /\ TimerAt(c, "idle") /\ timersMade < MaxTimerCalls /\ RoomForTimer
  /\ \E t \in TimedTurns :
       \/ /\ turnRow[t].status = "WAITING"
          /\ TimerBecomes(c, [kind |-> "start", at |-> "start", turn |-> t, limit |-> 0])
       \/ \E k \in {"extend", "complete"} :
            TimerBecomes(c, [kind |-> k, at |-> "look", turn |-> t, limit |-> 0])
  /\ timersMade' = timersMade + 1
  /\ UNCHANGED <<clock, turnRow, jobRow, poller, jobFaults>>

-----------------------------------------------------------------------------
(* startTurn, extendTurn, completeTurnCore                                 *)

StartGame(c) ==
  /\ TimerAt(c, "start")
  /\ \E g \in GameLengths :
       LET limit == IF g = 0 THEN 0 ELSE clock + g
       IN  /\ turnRow' = [turnRow EXCEPT ![timer[c].turn] = [status |-> "PLAYING", limit |-> limit]]
           /\ IF g = 0 THEN TimerBecomes(c, NoTimer)
              ELSE TimerBecomes(c, [timer[c] EXCEPT !.at = "warn", !.limit = limit])
  /\ UNCHANGED <<clock, jobRow, poller, jobBounds>>

LookPlaying(c) ==
  LET t == timer[c].turn
  IN  /\ TimerAt(c, "look")
      /\ IF turnRow[t].status = "PLAYING"
         THEN TimerBecomes(c, [timer[c] EXCEPT !.at = "unwarn", !.limit = turnRow[t].limit])
         ELSE TimerBecomes(c, NoTimer)
      /\ UNCHANGED <<clock, turnRow, jobRow, poller, jobBounds>>

\* cancelJob: marks what has not run as executed.
CancelJob(t, what) ==
  jobRow' = [j \in DOMAIN jobRow |->
               IF jobRow[j].turn = t /\ jobRow[j].type = what /\ ~jobRow[j].executed
               THEN [jobRow[j] EXCEPT !.executed = TRUE, !.cancelled = TRUE] ELSE jobRow[j]]

CancelWarning(c) ==
  /\ TimerAt(c, "unwarn")
  /\ CancelJob(timer[c].turn, "warning")
  /\ TimerTo(c, "unexpire")
  /\ UNCHANGED <<clock, turnRow, poller, jobBounds>>

\* Mutated CancelExpiry: cancels the warning a second time.
CancelWarningTwice(c) ==
  /\ TimerAt(c, "unexpire")
  /\ CancelJob(timer[c].turn, "warning")
  /\ TimerTo(c, IF timer[c].kind = "extend" THEN "relimit" ELSE "finish")
  /\ UNCHANGED <<clock, turnRow, poller, jobBounds>>

CancelExpiry(c) ==
  /\ TimerAt(c, "unexpire")
  /\ CancelJob(timer[c].turn, "expired")
  /\ TimerTo(c, IF timer[c].kind = "extend" THEN "relimit" ELSE "finish")
  /\ UNCHANGED <<clock, turnRow, poller, jobBounds>>

FinishGame(c) ==
  /\ TimerAt(c, "finish")
  /\ turnRow' = [turnRow EXCEPT ![timer[c].turn] = [status |-> "COMPLETED", limit |-> 0]]
  /\ TimerBecomes(c, NoTimer)
  /\ UNCHANGED <<clock, jobRow, poller, jobBounds>>

\* The new limit counts from the one read at the start, not from the row's.
MoveLimit(c) ==
  LET limit == (IF timer[c].limit = 0 THEN clock ELSE timer[c].limit) + Extension
  IN  /\ TimerAt(c, "relimit")
      /\ turnRow' = [turnRow EXCEPT ![timer[c].turn].limit = limit]
      /\ TimerBecomes(c, [timer[c] EXCEPT !.at = "warn", !.limit = limit])
      /\ UNCHANGED <<clock, jobRow, poller, jobBounds>>

ScheduleWarning(c) ==
  LET due == timer[c].limit - WarnBefore
  IN  /\ TimerAt(c, "warn")
      /\ jobRow' = IF due > clock THEN Append(jobRow, NewJob("warning", timer[c].turn, due))
                   ELSE jobRow
      /\ TimerTo(c, "expire")
      /\ UNCHANGED <<clock, turnRow, poller, jobBounds>>

ScheduleExpiry(c) ==
  /\ TimerAt(c, "expire")
  /\ jobRow' = Append(jobRow, NewJob("expired", timer[c].turn, timer[c].limit))
  /\ TimerBecomes(c, NoTimer)
  /\ UNCHANGED <<clock, turnRow, poller, jobBounds>>

\* cancelTurn, endSession and closeSession stop a game and leave its jobs.
StopGame(t) ==
  /\ turnRow[t].status = "PLAYING"
  /\ turnRow' = [turnRow EXCEPT ![t].status = "CANCELLED"]
  /\ UNCHANGED <<clock, jobRow, poller, timer, jobBounds, jobHistory>>

-----------------------------------------------------------------------------
(* processJobs                                                             *)

PollerBecomes(p, r) == /\ poller' = [poller EXCEPT ![p] = r]
                       /\ jobMet' = jobMet \cup JobsMet(poller', timer)

\* The oldest due jobs, as many as a poll takes.
Batch(S) == {B \in SUBSET S :
               /\ Cardinality(B) = IF Cardinality(S) < BatchSize THEN Cardinality(S) ELSE BatchSize
               /\ \A i \in B, j \in S \ B : jobRow[i].due <= jobRow[j].due}

\* What the other polls have listed.
Listed(p) == UNION {poller[q].todo : q \in Pollers \ {p}}

\* Mutated ListDue: jobs that should have run earlier are not listed.
ListDueNow(p) ==
  /\ poller[p].at = "idle" /\ RoomForTimer
  /\ \E B \in Batch({j \in DOMAIN jobRow : Due(j) /\ jobRow[j].due = clock}) :
       /\ B # {}
       /\ PollerBecomes(p, [at |-> "run", todo |-> B])
       /\ unsure' = unsure \cup (B \cap Listed(p))
  /\ UNCHANGED <<clock, turnRow, jobRow, timer, jobBounds>>

ListDue(p) ==
  /\ poller[p].at = "idle" /\ RoomForTimer
  /\ \E B \in Batch({j \in DOMAIN jobRow : Due(j)}) :
       /\ B # {}
       /\ PollerBecomes(p, [at |-> "run", todo |-> B])
       /\ unsure' = unsure \cup (B \cap Listed(p))
  /\ UNCHANGED <<clock, turnRow, jobRow, timer, jobBounds>>

Earliest(p) == {j \in poller[p].todo : \A i \in poller[p].todo : jobRow[j].due <= jobRow[i].due}
JobOf(p) == CHOOSE j \in Earliest(p) : TRUE

\* The handler of the job: it reads the turn again and tells the players if the
\* game is on; only the warning's handler looks at the limit as well.
RunJob(p) ==
  LET j == JobOf(p)
      t == turnRow[jobRow[j].turn]
  IN  /\ poller[p].at = "run"
      /\ jobRow' = [jobRow EXCEPT ![j].ran = @ + 1,
                                  ![j].early = @ \/ /\ jobRow[j].type = "expired"
                                                    /\ t.status = "PLAYING" /\ clock < t.limit]
      /\ PollerBecomes(p, [poller[p] EXCEPT !.at = "mark"])
      /\ UNCHANGED <<clock, turnRow, timer, jobBounds, unsure>>

AfterJob(p) == LET rest == poller[p].todo \ {JobOf(p)}
               IN  IF rest = {} THEN NoPoll ELSE [at |-> "run", todo |-> rest]

\* Mutated MarkJob: the row is left as it is.
MarkNothing(p) ==
  /\ poller[p].at = "mark"
  /\ PollerBecomes(p, AfterJob(p))
  /\ UNCHANGED <<clock, turnRow, jobRow, timer, jobBounds, unsure>>

MarkJob(p) ==
  /\ poller[p].at = "mark"
  /\ jobRow' = [jobRow EXCEPT ![JobOf(p)].executed = TRUE]
  /\ PollerBecomes(p, AfterJob(p))
  /\ UNCHANGED <<clock, turnRow, timer, jobBounds, unsure>>

-----------------------------------------------------------------------------
\* A database call fails: the poll, or the request, is over.
JobsDbError ==
  /\ jobFaults < MaxJobFaults /\ jobFaults' = jobFaults + 1
  /\ \/ \E p \in Pollers : /\ poller[p].at = "mark" /\ PollerBecomes(p, NoPoll)
                            /\ unsure' = unsure \cup {JobOf(p)}
                            /\ UNCHANGED timer
     \/ \E c \in TimerCalls : ~TimerAt(c, "idle") /\ TimerBecomes(c, NoTimer) /\ UNCHANGED poller
  /\ UNCHANGED <<clock, turnRow, jobRow, timersMade>>

JobsCrash ==
  /\ jobFaults < MaxJobFaults /\ jobFaults' = jobFaults + 1
  /\ poller' = [p \in Pollers |-> NoPoll]
  /\ timer' = [c \in TimerCalls |-> NoTimer]
  /\ <<poller', timer'>> # <<poller, timer>>
  /\ unsure' = unsure \cup {JobOf(p) : p \in {q \in Pollers : poller[q].at = "mark"}}
  /\ UNCHANGED <<clock, turnRow, jobRow, timersMade, jobMet>>

PollStep(p) == ListDue(p) \/ RunJob(p) \/ MarkJob(p)
TimerStep(c) == \/ StartGame(c) \/ LookPlaying(c) \/ CancelWarning(c) \/ CancelExpiry(c)
                \/ FinishGame(c) \/ MoveLimit(c) \/ ScheduleWarning(c) \/ ScheduleExpiry(c)

JobsNext == \/ \E p \in Pollers : PollStep(p)
            \/ \E c \in TimerCalls : CallTimer(c) \/ TimerStep(c)
            \/ \E t \in TimedTurns : StopGame(t)
            \/ TimePasses \/ JobsDbError \/ JobsCrash

JobsSpec == JobsInit /\ [][JobsNext]_jobVars

\* The interval goes on for as long as the process does, and polls and
\* requests under way get their answers.
JobsFairness == /\ \A p \in Pollers : WF_jobVars(PollStep(p))
                /\ \A c \in TimerCalls : WF_jobVars(TimerStep(c))

-----------------------------------------------------------------------------
(* Properties                                                              *)

JobsTypeOK ==
  /\ clock \in Nat \ {0}
  /\ turnRow \in [TimedTurns -> [status : {"WAITING", "PLAYING", "COMPLETED", "CANCELLED"},
                                 limit : Nat]]
  /\ jobRow \in Seq([type : {"warning", "expired"}, turn : TimedTurns, due : Nat,
                     executed : BOOLEAN, ran : Nat, cancelled : BOOLEAN, early : BOOLEAN])
  /\ poller \in [Pollers -> [at : {"idle", "run", "mark"}, todo : SUBSET DOMAIN jobRow]]
  /\ timer \in [TimerCalls -> [kind : {"none", "start", "extend", "complete"},
                               at : {"idle", "start", "look", "unwarn", "unexpire", "finish",
                                     "relimit", "warn", "expire"},
                               turn : TimedTurns \cup {"none"}, limit : Nat]]
  /\ timersMade \in Nat /\ jobFaults \in Nat
  /\ jobMet \subseteq TimedTurns /\ unsure \subseteq DOMAIN jobRow

\* scheduler.service.ts:53-62: a job is marked only once its handler was called
\* (or by cancelJob), and its handler is called twice only if two polls had
\* listed it at the same time, or a poll ended between the call and the mark.
JobRunsOnce ==
  \A j \in DOMAIN jobRow :
    /\ jobRow[j].executed => jobRow[j].cancelled \/ jobRow[j].ran > 0
    /\ j \notin unsure => jobRow[j].ran <= 1

\* Players are told that their time is over while some of it is left only if a
\* poll, a start, an extension or an end of the same game overlapped: a job left
\* over from before an extension never fires.  The handler does not look at
\* timeLimitAt, so this rests on the cancelling and scheduling alone.
NoEarlyNotice == \A j \in DOMAIN jobRow : jobRow[j].early => jobRow[j].turn \in jobMet

\* scheduler.service.ts:33-38: what is overdue is caught up with: whatever crashes
\* and fails, and however late a poll is, there are always again moments at which no
\* job whose time has come is left to run.
DueJobRuns == []<>(\A j \in DOMAIN jobRow : ~Due(j))
=============================================================================
