# Specifications of the badminton club server

TLA+ models, TLC runs and TLAPS proofs for the server of *badminton*, an app with
which a club runs its meetings: members check in at a hall, operators put
foursomes on a board, games go onto courts and end, sessions open and close, and
lessons are sold and paid for. Paths below are relative to the repository
(`packages/server/src/modules/...` is shortened to the file's name).

The server is one Node process (Express, Prisma, PostgreSQL). A request handler is
an `async` function: it runs without interruption between two `await`s, and at
each `await prisma...` any other request may go on. There are almost no
transactions and few unique keys, so "read, check, write" is rarely atomic. The
timers of the process (scheduler, automatic sessions, billing) run in the same
loop. On SIGTERM or a failure the process exits and what its handlers had not
written is lost (`index.ts:57-87`).

## Inventory

| Component | State | Operations | What makes it correct | Hard because | In |
|---|---|---|---|---|---|
| Turns and games (`turn.service.ts`) | `CourtTurn`, `Game`, `TurnPlayer` | register, requeue, complete (promotes the next), clear a court, cancel, replace a player, extend, set winner | turn and game agree; one game per court; at most `maxTurnsPerCourt` turns; nobody plays twice at once; finished turns stay | every handler is 3-8 separate writes; overlap; crash between writes | TurnBoard, TurnRaces, Jobs |
| Courts (`court.service.ts`) | `Court.status` | maintenance on/off, move a game | a busy court is not released | status is a copy of what the turns say | TurnBoard |
| Game board (`gameBoard.service.ts`) | `GameBoardEntry` | add, update, delete, assign, push, push all, unassign, reorder | an entry on a court names a live turn with its court and players | links two rows that different handlers write | TurnBoard, TurnRaces |
| Suggestions (`suggest.algorithm.ts`, `rating.ts`, `clubStyle.ts`) | none kept | suggest foursomes, ratings | what is proposed is allowed | heuristics over histories | - |
| Check-in (`checkin.service.ts`) | `CheckIn` (present, in lesson, resting) | check in/out, operator check-out, rest, available | nobody absent waits for a court | check-out reaches into turns of several courts | TurnBoard, CheckIns |
| Club session (`clubSession.service.ts`) | `ClubSession`, its courts | start, end, lesson toggle, RSVP, report | one active session per club; ending leaves nothing live | read-then-write, many rows | Sessions, TurnBoard |
| Automatic sessions (`autoSession.service.ts`) | `autoSlotKey` | tick every minute: open, end | a slot opens once | tick against manual opening, crash before the key | Sessions |
| Facility session (`session.service.ts`) | `FacilitySession` | open, close | closing cancels what is live | leaves other rows open | TurnBoard, Sessions |
| Scheduler (`scheduler.service.ts`) | `ScheduledJob` | schedule, cancel, poll | a job runs once, unless cancelled | overlapping polls, crash before the mark | Jobs |
| Payments (`payment.service.ts`) | `PaymentMethod`, `LessonPayment`, `CoachPayout` | cards, pay, cancel, monthly billing, closing, payout | a month is charged once; what was paid out is not changed | external charge between two writes | Payments |
| Lab lessons (`lab.service.ts`) | `LessonApplication`, `LessonFeeRecord` | apply, wait-list, promote, fee report/confirm | capacity, waiting order, fee states | count then insert | LessonSeats, LessonFees |
| Coach jobs (`coachJob.service.ts`) | applications to a post | apply, status transitions | the transition table | status read, then updated | Hiring |
| Polls, operator requests | votes; requests | vote, close; submit, review | one vote in a single choice; one review | delete-then-insert; read-then-update | Polls, Operators |
| Authentication (`auth.service.ts`, `services/api.ts`, `store/authStore.ts`) | `User.refreshToken`, the tokens on the device | sign in, as a member or a guest, load the user, refresh, sign out, change the password | nobody is signed out by the app without a cause; a request runs once | two refreshes at once, lost answers, a renewal nobody asked for | Tokens, Operators |
| Rally game (`rallyGame.service.ts`, `socket/index.ts`) | matches in memory | challenge, accept, leave after grace, report the result | one match per user | timers against events | Rally (but not the result) |
| Guest applications (`guestApply.router.ts`, `lab.service.ts`, `user.router.ts`) | `GuestApplication` by day | apply, cancel, toggle the fee, promote | a free seat goes to whoever waits longest | count, find and update are three calls | Guests |
| Clubs, chats, coaches, facilities, users, penalties, notifications, metrics, quiz, uploads | single rows | create, read, update, delete | role checks | - | - |
| Mobile client, infrastructure, scripts | caches, deployment | - | - | - | Tokens (its interceptors and the store of tokens) |

How they interact: the board pushes entries into turns (`pushEntry` calls
`registerTurn`), ending a turn closes its entry and promotes the next turn of the
court, check-out, rest and lessons cancel turns and strip entries, and ending a
session of either kind closes turns, games, entries, courts and check-ins
together. `PROJECT.json` lists under `hazards` each place where this is hard to
test, with its line and the properties that cover it.

## Modules

    TurnRows          rows, the queries over them, the agreements between rows
      TurnBoard       every handler as one action                 <- TurnBoardProofs
      TurnRaces       every database call as one action, crashes  <- TurnRacesProofs
        TurnAlone     one request at a time: TurnRaces implements TurnBoard
        TurnAloneInv  where that request stands at each call      <- TurnAloneProofs
    Payments          a month of lesson fees, every call one action  <- PaymentsProofs
    Sessions          club sessions by hand and by the loop
      CheckIns        check-ins to them
        Polls         their polls
          ClubNight   the three interleaved, with their fairness  <- ClubNightProofs
    Jobs              timers of games                                <- BackOfficeProofs
    LessonSeats       seats and waiting list of a lesson             <- LabProofs
    LessonFees        fees paid by transfer                          <- LabProofs
    Guests            guests of a day                                <- LabProofs
    Hiring            applications to a post                         <- PeopleProofs
    Operators         becoming an operator                           <- PeopleProofs
    Tokens            requests, tokens, the app's interceptors and store  <- PeopleProofs
    Rally             duels over sockets                             <- PeopleProofs
      BackOffice      the eight parts from Jobs on, side by side     <- BackOfficeProofs
    MCTurnBoard, MCTurnRaces, MCTurnAlone, MCPayments, MCClubNight, MCBackOffice
                      instances for TLC

**TurnRows** holds the four tables (`turn`, `game`, `court`, `entry`) as functions
from row identities to records (status "NONE": no such row), and the properties
that relate them. `Game.turnId` is unique, so a game is named by its turn. What no
property tells apart is left out: names, times, game types, the order of the
queue, who made a row. `PLAYING` of the entry enum is written by no code and is
not a value of the model; `TypeOK` says it stays so.

**TurnBoard** runs the handlers one by one: one action is one handler with
everything it changes, whichever service it lies in. `CanRegister` is the row of
checks of `registerTurn`, which pushing an entry shares. `FirstToMove` models the ordering by
status that PostgreSQL gives an enum (declaration order). Attendance is three sets
(`present`, `inLesson`, `resting`); penalties, which change by the clock, are the
constant `Penalised`. `session` is only set: the handlers for turns do not read
it, so after the end of a session every action stays enabled, as in the code.
The constants `Resters`, `Learners`, `Serviced` restrict who may rest, be in a
lesson or which court may be taken out of service; the proofs hold for all
values. Positions that tie are numbered in any order (`Numberings`).

**TurnRaces** breaks the same handlers at their database calls. `req[p]` is a
request under way: `at` names the call to come and the other fields are the locals
the handler read before it; `todo` is the set of turns listed with the number each is
to get, worked off in the order of the numbers (`First`). Prisma transactions (`unassignEntryByCourt`,
`replacePlayerInRunningTurn`) are one step. Calls that write nothing and whose
answers no guard uses (permissions, users, policies, notifications) are left out.
Attendance and the operations on courts are left out of this module: everyone is present and
no court is under maintenance. `Crash` drops all requests and keeps the rows.

**TurnAlone** remembers the rows as they were when no request was under way
(`settled`) and states that they move by TurnBoard's actions (`HandlersImplementBoard`).
**TurnAloneInv** says for each of the 31 calls where the request stands there: `Stands(r, s,
w)` relates its locals `r`, the rows `s` when it came in and the rows `w` of now, for
instance that at `renumber` of a completion the game of the completed turn is over, its entry closed, and
the turns of the queue that are not in `todo` have their numbers already.

**Payments** is one month of `payment.service.ts`, every call to the database or
the provider a step. `pay` and `batch` are the rows (`LessonPayment`,
`CoachPayout`), `ledger` is what the provider took from a card and gave back, which
no crash undoes, and `req[p]` is a request under way, as in TurnRaces: a payment, a
cancellation, a billing run, a closing or a payout. A transaction id is the place
in the ledger. Amounts are abstracted to the set of payments summed up, so a batch
says *what* it settles. `DbError` makes a call throw: `chargeApplication` catches it
and records FAILED although the card was charged, anything else ends the request.
`disturbed` collects the students about whom two requests met or something failed;
it is no state of the code and only serves to say of whom `ChargedAsRecorded`
speaks. Not in the module: cards (the default card is a constant), the bank account
of a coach (taken to be registered), `feePaid` (see LessonFees),
lessons switched off and students who leave within the month.

**Sessions** is one club with one weekly slot. `caller[c]` is a request of the staff
or a tick of the loop (`runAutoSessionTick`), `night` the `ClubSession` rows by
creation. A tick looks for the slot's key, opens through `startSession`, writes the
key, and ends what was forgotten, each call a step; ticks overlap because
`setInterval` waits for none. A tick catches a failed start and goes on to what was
forgotten, and a failed end and goes on to the next (`GoesOn`); a failure that nothing
catches, or a stop of the process, ends it. `blind`, `late`, `cut`, `swept` record which overlap or
failure a row came out of: they are no columns, and the properties name them as the
only excuses. **CheckIns** adds the rows of `checkIn`, by place, by QR code, by an
operator, and the way out: by place a session is named by its own code, or is the only one there, or there is none; **Polls** adds polls and votes, and the deletion of a
session, which takes everything along. **ClubNight** interleaves the three: `endSession`
is LookForEnd, CloseCheckIns, ClosePolls, FinishEnd, and anybody may come in or vote
between them. Left out here: the effect on courts (TurnBoard has it), the list
`courtIds`, a club without a leader (its tick skips), other clubs, the window and the
place of a check-in (they only refuse), and `closesAt`.

**Jobs** has the `ScheduledJob` rows of a game and who writes them: start, extension
and end of a turn create, cancel and move jobs call by call, and polls read a batch,
call the handler and mark the row. `jobMet` and `unsure` say which games and jobs an
overlap or a failure touched.

**LessonSeats**, **LessonFees**, **Guests**, **Hiring**, **Operators** are read-then-write
services with one shape: a request (`seatCall[c]`, `feeCall[c]`, ...) goes through its
calls, what it read is kept in its record, and an error or a stop of the process ends
it anywhere. What two overlapping requests may do to each other is recorded in a
history variable that only grows (`feeMet`, `guestMet`, `hiringMet`, `reviewsMet`), or,
for seats, in the set of rows a request saw before it made its own (`saw`): "fits the
capacity" is said of seats whose applicants knew of each other.

**Operators** also has the open `register`: its schema takes any role
(`validators.ts:9`) and the account is given it (`auth.service.ts:85`), so an operator
may exist that nobody approved. `roleGiven` remembers who signed up that way.
`LeadersWereApproved` is about everybody else, and about what a review does to whomever
it concerns: the applicant of an approved request is an operator and stays one.

**Tokens** follows what a device is made to do (`tap[c]`): a request, a load of the user,
a sign-in, a sign-out, one or two at once. A request is sent with the stored token,
refused when it expired, refreshed by the interceptor, repeated. `loadUser` renews the pair through the same
client without having been refused (kind "renew"), keeps what it got, and asks `getMe`
(kind "me"); when that fails, for whatever reason, it clears both tokens. A guest
(`setGuestSession`) has an access token alone. The two tokens are written and deleted one
after the other, and anything may come in between. The server keeps one refresh token of
a user in a column; a token is the second it was signed in, because signing the same
payload twice in a second gives the same token, and it is accepted for `AccessLife` or
`RefreshLife` seconds. Answers may be lost, the server may fail, and the user may sign in
or out elsewhere. `expelled` says that the app dropped the tokens of its own accord, by the
interceptor or by `loadUser`; `cause` collects what may excuse it: two requests that
refreshed or wrote tokens at once, a refresh or a login whose answer was lost, a use of the account
elsewhere or a sign-out here, a refresh token past its own term, a guest's token past its
term, and a `getMe` of `loadUser` that was lost twice, met an error of the server or was refused with a
new token. What `SignedOutForCause` denies is that anything else signs a user out: tokens that
expire, renewals, ordinary requests that are lost or fail, and any sequence of them.
`cause` is kept once it is set, so the property is about devices to which none of these happened so far.

**Rally** has the matches in memory, sockets and the graces of `pendingLeaves`. A
challenge looks for a match, awaits a name and puts its own; a restart of the server
forgets everything. A socket is seen to be gone at any time after it was lost, also
after its successor has joined (`late`).

**BackOffice** puts the eight parts that share no row next to each other: `desk`, chosen
at the start, says which one a behaviour is about, so their states add up and one run
checks them all.

## Runs

| Run | Question | Bounds | Result |
|---|---|---|---|
| `turn_board` | do turns, games, entries and courts agree under all handlers, run one by one? | 2 courts, 3 turns, 1 entry, 3 players in overlapping pairs, `MaxTurns` 2 | holds |
| `attendance` | do check-out, rest, lessons and maintenance leave ghosts, absent players in the queue, busy courts released? `IInv` is checked as well. | 2 courts, 2 turns, 1 entry, 3 players, one of whom may rest or be in a lesson | holds |
| `turn_races_recover` | two requests overlap at every call, one crash: does clearing still recover the court? | 1 court, 2 turns, 2 concurrent requests, 3 made, 1 crash; clearing is not bounded | holds |
| `turn_alone` | do the calls of each handler add up to TurnBoard's action? | 2 courts, 3 turns, 1 request at a time, 6 in a row | holds |
| `payments` | is a card charged as recorded, is there money behind every row, does billing reach everyone? | 2 students (one card declined, one lesson without a coach), 1 coach, 2 concurrent requests, 2 made, billing runs not bounded, 1 failing call or crash | holds |
| `back_office` | what do overlapping calls, lost answers, failures and restarts break in the eight parts, and does what is due happen? | Jobs: 1 game, 2 polls and 2 requests at once, limits {none, 2}, 3 minutes, batch of 1, 1 failure. LessonSeats: 2 members, 3 requests, 1 seat. LessonFees: 1 student, 3 requests, 2 months. Guests: 4 requests, 1 seat a day. Hiring: 1 coach, 4 requests. Operators: 1 person, 4 requests. Tokens: 2 requests, access tokens accepted for 1 second, refresh tokens for 2, in 3 seconds, 2 mishaps (lost answers, server errors, uses of the account elsewhere). Rally: 2 users, 2 challenges, 2 sockets, 1 restart | holds |
| `club_night` | what do ticks, staff, members and voters that overlap, and failures, leave of a club's evenings? | 2 ticks, 1 request of the staff, 2 of members, 2 of voters, at most 2 under way at once; 3 hours, 2 sessions, 1 failure; 5 mixes of who comes how often | holds |
| `charged_twice` | is a month charged once? | 2 billing runs, no failure | violated |
| `batch_overwritten` | does a batch stay as paid out? | 2 students, 1 coach, 3 requests made and billing | violated |
| `move_order` | does the game in play move first? | as `turn_board`, 2 turns | violated |
| `double_play` | does nobody play on two courts at once? | 4 players in a chain of pairs | violated |
| `two_assigns` | does a court hold one game when two assignments overlap? | 1 court, 2 requests | violated |

Why the bounds are enough to be interesting. Two courts are what a move, a
check-out over several courts and a player wanted twice need; three turns give a
game in play, a queue of one and a turn elsewhere; with `MaxTurns` 2 the queue
limit is reached. Overlapping pairs make every check on players fail and succeed.
Row identities are symmetric (rows differ only by content) and players are not.
TurnBoard is checked for deadlock: some handler is always enabled.
TurnRaces, TurnAlone, BackOffice and ClubNight bound the number of requests, so they end by
running out of requests; their runs say `CHECK_DEADLOCK FALSE`.

In `back_office` three or four requests let two overlap and a third set the scene or
read the outcome; two requests of a device at once are what a race for the column and between the
two writes of a pair needs, two mishaps are a request lost, sent again and lost again, and in
three seconds an access token expires, is renewed, and the refresh token expires too.
One seat is the smallest capacity at which the last seat is raced
for; two months are what a copy that is a month old needs. In `club_night` a product of
everything at once is out of reach; each of the mixes (`MCMixes`) puts those together
that meet at the same rows: two ticks with a request of the staff, one tick with two, the door with an ending
session, polls with it, and the loop with door and booth. Two sessions are what
"two active" and "opened again" are about.

The properties of these runs and what each is about stand in the comments before
them. Types are checked in `attendance` (part of `IInv`), `back_office`
(`OfficeTypeOK`) and `club_night` (`NightTypeOK`), and proved of every module. Every property has a mutant in the modules: a definition next to the one it
changes (`CompleteAndFree`, `ReplaceInTurnOnly`, ...), which makes TLC find the
property violated.

Two requests at once are what every race of Payments needs, and the two students
give every card and both kinds of lesson; billing always comes round again, so the
runs of Payments check deadlock too.

**Fairness.** `CourtsRecover` needs: (1) a request under way goes on
(`WF Step(p)`): Node runs a pending continuation and Prisma answers or throws;
(2) the operator keeps pressing *clear the court* while the board shows it busy
(`WF MakeClear`). (2) is an assumption about a person, and it is what the code
itself states the operation is for ("the stuck-court recovery",
`turn.service.ts:505-510`). `EveryoneBilled` needs (1) as well, and that billing comes
round (`WF Tick`): `startBillingLoop` calls it from a `setInterval` of an hour
(`payment.service.ts:250-256`). `DueJobRuns` needs that polls come round and go on, and
that requests under way go on (`JobsFairness`): the poll is a `setInterval` too.
`ForgottenSessionEnds` needs the same of the ticks and of the requests they may wait
behind (`NightFairness`). `AbandonedMatchEnds` needs that timers fire: `setTimeout` of the grace and of the
expiry (`RallyFairness`). None assumes anything of users, sockets or the database's
luck; failures are bounded in number, not forbidden.

## Disagreements with the code's own words

* `moveCourtGame` orders by status, "PLAYING < WAITING (alphabetical)"
  (`court.service.ts:148`), but the database orders the enum by declaration: with a
  queue on the court, the first *waiting* turn moves and the game stays.
* `registerTurn` refuses players in play elsewhere in order to keep one person
  from playing on two courts (`turn.service.ts:187-188`); promotion does not ask.
* `assignEntry` is called race-safe (`gameBoard.service.ts:1035`) and
  the guard of one court (`turn.service.ts:219`); two that overlap both pass it.
* `runMonthlyBilling` is called idempotent by its unique key
  (`payment.service.ts:193`, `:249`; `schema.prisma:788`). The key makes one row of
  two charges: a second run that starts before the first has written charges again.
* `closeSettlement` says it does not overwrite a batch paid out
  (`payment.service.ts:357`); it reads the status in one call and writes by id in
  another.
* `loadUser` says that when the renewal fails it tries `getMe` with the token it has
  (`authStore.ts:274`); a renewal that is refused passes through the interceptor, which
  has deleted both tokens by then (`api.ts:106-110`), and `getMe` goes out without one.
  Tokens models it (`Unauthorized`, `DropAccess`, `AskMe`); no run counts it as a violation of its own.
* The comment at `autoSession.service.ts:106` says that a slot whose opening failed is not
  tried again at the next tick ("다음 틱에 재시도하지 않도록 로그만"); nothing is written that would
  prevent it, and every tick in the slot tries again. Sessions models the retry; no run
  counts it as a violation of its own.
* `feePaid` is said to follow the record of the current month (`schema.prisma:745`); it is
  rewritten when something happens to the record, not when the month changes, so a
  month later it still says what it said. `FlagFollowsRecord` excludes that case by
  `flagMonth`; no run counts it as a violation of its own.
* The comment on `GuestApplication.status` (`schema.prisma:671`) lists three values; the
  code writes a fourth, WAITLIST.

## Proofs

`TurnBoardProofs` proves, for every finite set of turns, any courts, entries,
players, groups and any `MaxTurns` from one up (`TurnBoardAssumption`), that
`IInv` is an invariant, and from it the properties the runs check: `TypeOK`,
`GameMatchesTurn`, `OnePlayingPerCourt`, `EntryMatchesTurn` with
`NoGhostWhileActive`, `WaitingArePresent`, `WithinMaxTurns`, and the action
properties `FinishedStaysFinished` and `ReleasedOnlyWhenIdle`.

None of the properties is inductive alone. A game completed by `FinishAndPromote`
needs `GameMatchesTurn` to know the state it leaves; that the entry of a cancelled
turn is found needs `EntryMatchesTurn`; and both need what `RowsLinked` adds: a
turn that exists lies on a court, and an entry's `turnId` refers to a turn that
was created and to no other entry's (`turnId` is `@unique` in the schema). `PushEntry` keeps this only
because the turn it links was "NONE" before. `WithinMaxTurns` is inductive
together with the bound on the count: positions are count + 1 on creation and the
renumberings map n rows onto 1..n. `IInv` is also checked by TLC (run
`attendance`). Each part has its lemma with one step per handler; `NextCases`
groups the handlers that touch neither turns nor games.

`PaymentsProofs` proves, for any students, coaches, cards, requests and bounds
(`PaymentsAssumption`), `TypeOK`, `MoneyBehindEveryRow` and `ChargedAsRecorded`.
The last speaks of students between requests; its invariant must say where a
request stands with one. `Agrees` does: before the charge the month is unpaid,
between charge and record exactly the charge in hand is taken, before a refund the
recorded charge is the one read, and between refund and record nothing is taken.
`Met(req) \subseteq disturbed` then gives that a request about an undisturbed
student is alone (`AloneOn`), so that no other step can make what it read untrue.
`StepKeeps` states once what a step of one request has to show; `ReadKeeps`,
`WriteKeeps` and `BatchKeeps` specialise it to steps that write nothing, one month
or one batch, and each action has a lemma that applies one of them.

`TurnRacesProofs` (`RacesInv`) proves `TypeOK` and `GameOnlyOnceStarted` of TurnRaces for
any rows, any number of overlapping requests and any crash. Almost nothing a handler
has read can be relied on there, so the invariant keeps to what no other request takes
back: a handler at a call that names a turn was given one (`HoldsRows`), and a turn once
started is never "NONE" or "WAITING" again, so one about to get or end a game was started
whatever became of it since (`GamesAreCreatedLate`). `MovesOn` and `RowsMoveOn` say what a
call has to show, of its own request and of the rows; each call has a lemma.

`TurnAloneProofs` proves the refinement `HandlersImplementBoard` for every instance with one
request at a time and no crash (`MaxCrashes = 0`, one element of `Requests`: the case in
which it is meant to hold; `two_assigns` shows that two requests break it). `AInv` is the invariant: `IInv` of
TurnBoard about the settled rows, no court out of use (there is no maintenance in
TurnRaces), and `Stands` of every request. Each call has its lemma (`CheckFreeAlone` to
`SwapPlayerAlone`): the request goes on and stands at the next call (`GoesOn`), or it is
answered (`Answered`), and then what it has done is one of eight actions of TurnBoard
(`BoardDoes`) or nothing. The operators behind them are about partial work: rows marked so
far, numbers written so far, entries closed so far (`Marked`, `Placed`, `CloseEntries` over
`DoneOf`), and that one more call adds one more (`MarkedMore`, `PlacedOne`, `OneDone`). `IInv` is needed because a
handler trusts what the rows agree on: that a turn that waits has no game, that a
playing one has, that an entry names its turn alone. It is kept because `BoardDoes` is
a step of TurnBoard, by `NextInv` of TurnBoardProofs, taken over through an instance
(`Proved`). So two more theorems follow: `RequestsStand` (`HandlersStand`, which TLC finds to hold of the instance
of `turn_alone` as well: add it to the cfg as an INVARIANT), and `AnswersAgree`: whenever the one request is answered, the rows
the calls have left satisfy what TurnBoardProofs shows of whole handlers.

`ClubNightProofs` proves what the run `club_night` checks but liveness: `NightTypeOK`,
`OneActiveSession`, `SlotOpensOnce`, `OneOpenCheckIn`, `OneVoteEach`, `NothingLeftOpen`, for
any ticks, staff, members, voters, hours and failures. Each is strengthened by what
the requests under way know (`CallerFits`): a start that is not blind found no active
session and none came since, a tick that is not late no key; a row of a tick without a key is still held
by the tick that made it (`KeyOrTick`); a request at a door (at a booth) whose member is not in
`doorsMet` (`boothsMet`) is the only one about them and knows which rows of theirs are
open. `SweptRows` ties check-ins and polls to the ends of their sessions: what was open
when the end went through the table is closed. Rows are sequences that grow; the
proofs speak of their elements by index and use that appending changes none.

`BackOfficeProofs` (`JobsInv`) proves `JobRunsOnce` and `NoEarlyNotice` of the timers. `RunsKnown`
counts the runs of a job that is not `unsure` by the polls that hold it. For games that no
overlap touched, `TurnFits` says that at most one request is about the game and no poll
holds a job of it meanwhile, that no expiry that can still run (`Ticks`) is due before the
limit, and that none is left between the cancelling and the scheduling of an
extension. The first job of a poll is a minimum, whose
existence needs well-foundedness of the naturals (`NextJob`).

`LabProofs`: `SeatsInv` gives `KnownSeatsFit` and `OneApplicationEach` for any
members, requests and capacity. `Holds` is what a request may rely on at each call: its
own row is not there yet, the rows it saw exist and are others', its place in the queue
lies behind those that waited then, and, once it may take a seat, fewer than `Capacity`
of the seats it saw were taken by members themselves. `RowsFollow` is what no step does
to a row that is there (make it a self-taken seat, put it back on the waiting list), and
with it every other request keeps relying on what it relied on. A new seat adds one to
seats it saw, of which there were fewer than the capacity. `FeesInv` gives
`FlagFollowsRecord` and `ConfirmationStays`. For the guests of a day, `FreeSeatToFirst` needs
to know where the one request under way stands (`GuestFits`): one seat may be free while it is
on the way to give it to the first who waits, and what it counted before it adds its own
row is still so.

`PeopleProofs`: `HiringInv` and `FeesInv` share the argument of
Payments: whoever is not in `feeMet` (`hiringMet`) has at most one request under way
about them, `Agrees` or `Fits` says where that one stands with the row, and a row without
a request is tidy. `OperatorInv` adds to `LeadersWereApproved` that a
review that met no other finds its row PENDING (`ReviewFits`), and that whoever filed a row has an account
(`ApplicantKnown`): an approval then raises a player to CLUB_LEADER and leaves every other
role, and nobody signs up anew, as a player, behind an approved row. `NobodyWaitsForNothing` follows with the
accounts a request in the middle of filing leaves behind. `TokensInv`
counts executions by the state of a request (`RanOK`). While there was no cause
`TapsCalm` holds: one request at most is between the read of a refresh token and the last
write of its successor; while none writes a pair, the device's refresh token is the
column's, or there is none and the device is a guest's or signed out (`Settled`); what is
asked for a new pair, or brings one, holds what the column holds; and nothing but an empty
storage is cleared (`TapFits`). `RallyInv` strengthens
`OneMatchEach` to challenges on their way (`OneChallengeEach`): one that looked and found
nobody busy counts like a match. `ReturnedPlayersStay` is inductive given that a socket
in a room has a user.

`BackOfficeProofs` also composes: `OfficeIsItsParts` shows that `OfficeSpec` implies the
specification of each of its eight parts, because a step of one desk is a step of its
part and leaves the variables of the others; `OfficeTyped` and `OfficeSafe` then carry over
every invariant and action property the run `back_office` checks.

The proofs assume of constants only what is named next to them (`TurnRacesAssumption`,
`SessionsAssumption`, `JobsAssumption`, `SeatsAssumption` and their like).

Model-checked only: liveness (`EveryoneBilled`, `CourtsRecover`, `DueJobRuns`,
`ForgottenSessionEnds`, `AbandonedMatchEnds`), which the prover does not do.

## Not modelled

* **Suggestion of foursomes, ratings** (`suggest.algorithm.ts`, `rating.ts`,
  `clubStyle.ts`): scoring heuristics in floating point over histories. What they return is
  a list of entries to add, and TurnBoard adds any group.
* **Clubs, members, dues, chats, coach profiles, facilities, users, penalties,
  notifications, metrics, quiz, uploads**: handlers of one row each with role checks, or
  output whose failure every caller ignores. A model of one would restate its assignment.
* **Session requests and feedback**: inserts nothing else decides by.
* **Mobile and web client**: except for the interceptors and the store of tokens
  (Tokens), screens show what the server answers. They are the larger part of the
  repository's lines, and hold no state that several steps keep in agreement.
* **Shared types and validators, infrastructure, scripts, marketing**: the first are the
  inputs of the models; the others are no program logic.
* Inside modelled components: creating, renaming and deleting courts; labels, freezing
  and the order of the queue; offers to coaches, ratings; social sign-in, the reset of a
  password, deletion of accounts; registration of cards; the relay of rally inputs and
  `reportResult`, which adds a row whenever the host of an active match reports. Each
  only refuses, or touches rows nothing here reads.

Five hazards of `PROJECT.json` have no property, with the reason at each: three are
races whose outcome no sentence of the repository excludes (a replacement of players in a running
game, an entry pushed twice, a payout executed twice), two are about rows not
modelled (the first card, `courtIds`).

## Plan

Done: courts, board, attendance and session ends, serial and racing; payments;
sessions, check-ins and polls; jobs; seats, fees, guests; hiring, operators, tokens,
rally; every invariant and action property the runs check proved, and the refinement of
TurnBoard by TurnRaces.

What would add most next:

1. `courtIds` in Sessions, so that ending a session and adding a court meet.
2. Registration of cards beside Payments: one default card per user.

## Running

    tlc -workers 2 -config TurnBoard.cfg MCTurnBoard
    tlc -workers 2 -config Payments.cfg MCPayments
    tlc -workers 2 -config BackOffice.cfg MCBackOffice
    tlc -workers 2 -config ClubNight.cfg MCClubNight
    tlapm TurnBoardProofs.tla        (and the other modules *Proofs)
