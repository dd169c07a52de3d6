------------------------------- MODULE Tokens -------------------------------
(***************************************************************************)
(* Staying signed in: the app's interceptors (mobile services/api.ts) send *)
(* a request again after a lost answer, and after a 401 with a new pair of *)
(* tokens; its store (store/authStore.ts) keeps the pair of a login, the   *)
(* one token of a guest, and renews the pair when it loads the user;       *)
(* auth.service.ts keeps one refresh token for each user.  One user or     *)
(* guest at a time, one device, and whatever the user does elsewhere.      *)
(***************************************************************************)
EXTENDS Integers, FiniteSets

CONSTANTS
  Taps,         \* what the device is made to do: a request, a load of the user, ...
  AccessLife,   \* seconds an access token is accepted for
  RefreshLife,  \* seconds a refresh token is accepted for
  MaxSecond, MaxMishaps   \* bounds

ASSUME TokensAssumption == /\ AccessLife \in Nat \ {0} /\ RefreshLife \in Nat \ {0}
                           /\ MaxSecond \in Nat /\ MaxMishaps \in Nat

VARIABLES
  second,     \* the time, from 1
  column,     \* User.refreshToken
  kept,       \* accessToken and refreshToken in the device's storage
  tap,        \* the requests
  mishaps,    \* how many answers were lost, errors given, tokens changed elsewhere
  asGuest,    \* the last to sign in on the device did so as a guest,
  cause,      \* something happened for which the device may be signed out, and
  expelled    \* the app dropped the tokens of its own accord (none of the three
              \* is state of the code)

tokenVars == <<second, column, kept, tap, mishaps, asGuest, cause, expelled>>

\* A token is the second it was signed in: jwt.sign with the same payload in the
\* same second gives the same token.  0 is null.  "renew" and "me" are the two
\* requests of loadUser, "renewed" the first when it has brought a pair.
NewTap == [kind |-> "tap", at |-> "new", bearer |-> 0, token |-> 0, body |-> 0,
           retried |-> FALSE, again |-> FALSE, ran |-> 0, lost |-> FALSE, result |-> "none"]

\* The app starts on a device where the user is signed in, or nobody is.
TokensInit ==
  /\ second = 1 /\ column = 1
  /\ \E t \in {0, 1} : kept = [access |-> t, refresh |-> t]
  /\ tap = [c \in Taps |-> NewTap]
  /\ mishaps = 0
  /\ asGuest = FALSE /\ cause = FALSE /\ expelled = FALSE

TapAt(c, l) == tap[c].at = l

\* A request that is over: what it was and how often it ran is all that is left of it.
Over(r, outcome) == [NewTap EXCEPT !.kind = r.kind, !.at = "done", !.ran = r.ran,
                                   !.lost = r.lost, !.result = outcome]

\* Requests between the read of a refresh token and the write of its successor, or
\* between the two writes of a pair.
Signing(tp) == {c \in Taps : tp[c].at \in {"ask", "rotate", "write", "keepAccess", "keepRefresh",
                                           "dropAccess", "dropRefresh", "clearAccess", "clearRefresh"}}
TapBecause(c, r, why) ==
  /\ tap' = [tap EXCEPT ![c] = r]
  /\ cause' = (cause \/ why \/ \E d, e \in Signing(tap') : d # e)
TapBecomes(c, r) == TapBecause(c, r, FALSE)

Mishap == mishaps < MaxMishaps /\ mishaps' = mishaps + 1

TimeGoesOn == /\ second < MaxSecond /\ second' = second + 1
              /\ UNCHANGED <<column, kept, tap, mishaps, asGuest, cause, expelled>>

-----------------------------------------------------------------------------
(* What the user, or the app for the user, begins                          *)

\* loadUser: at the start of the app and wherever a screen refreshes the user.
LoadUser(c) ==
  /\ TapAt(c, "new") /\ kept.access # 0
  /\ TapBecomes(c, [NewTap EXCEPT !.kind = "renew", !.at = "look"])
  /\ UNCHANGED <<second, column, kept, mishaps, asGuest, expelled>>

AskMe == [NewTap EXCEPT !.kind = "me", !.at = "send"]

\* Without a refresh token, a guest's load has nothing to renew.
LookForRefresh(c) ==
  /\ TapAt(c, "look")
  /\ TapBecomes(c, IF kept.refresh = 0 THEN AskMe
                   ELSE [tap[c] EXCEPT !.at = "send", !.body = kept.refresh])
  /\ UNCHANGED <<second, column, kept, mishaps, asGuest, expelled>>

\* login, and a guest's check-in: the screens for it show when nobody is signed in.
SignIn(c) ==
  /\ TapAt(c, "new") /\ kept = [access |-> 0, refresh |-> 0]
  /\ \E k \in {"login", "guest"} : TapBecomes(c, [NewTap EXCEPT !.kind = k, !.at = "send"])
  /\ UNCHANGED <<second, column, kept, mishaps, asGuest, expelled>>

Logout(c) ==
  /\ TapAt(c, "new") /\ kept.access # 0
  /\ TapBecause(c, [NewTap EXCEPT !.kind = "logout", !.at = "send"], TRUE)
  /\ UNCHANGED <<second, column, kept, mishaps, asGuest, expelled>>

\* A login on another device, a new password.
SignElsewhere ==
  /\ Mishap
  /\ column' \in {0, second}
  /\ cause' = TRUE
  /\ UNCHANGED <<second, kept, tap, asGuest, expelled>>

-----------------------------------------------------------------------------
(* A request and its answer                                                *)

\* The token kept on the device replaces one that a retry brought along.
SendTap(c) ==
  /\ tap[c].at \in {"new", "send"}
  /\ TapBecomes(c, [tap[c] EXCEPT !.at = "serve",
                      !.bearer = IF kept.access = 0 THEN @ ELSE kept.access])
  /\ UNCHANGED <<second, column, kept, mishaps, asGuest, expelled>>

Accepted(t) == t # 0 /\ second < t + AccessLife
Fresh(t) == second < t + RefreshLife

\* authenticate: the routes of login, of guests and of refresh are open.
Allowed(r) == \/ r.kind \in {"login", "guest"}
              \/ r.kind # "renew" /\ Accepted(r.bearer)

Serve(c) ==
  /\ TapAt(c, "serve") /\ tap[c].kind \in {"tap", "me"} /\ Allowed(tap[c])
  /\ TapBecomes(c, Over([tap[c] EXCEPT !.ran = @ + 1], "ok"))
  /\ UNCHANGED <<second, column, kept, mishaps, asGuest, expelled>>

\* What a request leaves in the column: a login writes it without a look at it, a
\* guest is a user with a column of their own.
Written(r) == CASE r.kind = "logout" /\ ~asGuest -> 0
                [] r.kind \in {"login", "renew"} -> second
                [] OTHER -> column

ServeSignIn(c) ==
  /\ TapAt(c, "serve") /\ tap[c].kind \in {"login", "guest"}
  /\ column' = Written(tap[c])
  /\ TapBecomes(c, [tap[c] EXCEPT !.at = "keepAccess", !.token = second])
  /\ UNCHANGED <<second, kept, mishaps, asGuest, expelled>>

Revoke(c) ==
  /\ TapAt(c, "serve") /\ tap[c].kind = "logout" /\ Allowed(tap[c])
  /\ column' = Written(tap[c])
  /\ TapBecomes(c, [tap[c] EXCEPT !.at = "clearAccess"])
  /\ UNCHANGED <<second, kept, mishaps, asGuest, expelled>>

\* A request that has failed for good: loadUser asks getMe in spite of a failed
\* renewal; it and logout then clear what is kept; a screen shows the error.
Failed(r) == CASE r.kind = "renew" -> AskMe
               [] r.kind \in {"me", "logout"} -> [r EXCEPT !.at = "clearAccess"]
               [] OTHER -> Over(r, "error")

\* A request that is refused a first time gets a new pair of tokens first; the token
\* it was refused with is of no more use to it.
Unauthorized(r) ==
  IF r.retried THEN Failed(r)
  ELSE [r EXCEPT !.retried = TRUE, !.token = kept.refresh, !.bearer = 0,
                 !.at = IF kept.refresh = 0 THEN "dropAccess" ELSE "ask"]

\* A guest whose token has expired, or a load that is refused with a new token, is out.
RefusedForGood(r) == IF r.retried THEN r.kind = "me" ELSE asGuest /\ kept.refresh = 0

Refused(c) ==
  /\ TapAt(c, "serve") /\ tap[c].kind # "renew" /\ ~Allowed(tap[c])
  /\ TapBecause(c, Unauthorized(tap[c]), RefusedForGood(tap[c]))
  /\ UNCHANGED <<second, column, kept, mishaps, asGuest, expelled>>

-----------------------------------------------------------------------------
(* Losses and failures                                                     *)

\* Whether what was lost had run: 1 if it had.
Runs(r) == IF r.at = "write" THEN {1} ELSE IF Allowed(r) THEN {0, 1} ELSE {0}
Ran(r, n) == [r EXCEPT !.ran = @ + n, !.lost = @ \/ n = 1]
SentAgain(r) == [r EXCEPT !.at = "send", !.again = TRUE]

\* Mutated AnswerLost: what was sent again is sent again.
AnswerLostAlways(c) ==
  /\ tap[c].at \in {"serve", "write"} /\ Mishap
  /\ \E n \in Runs(tap[c]) :
       /\ column' = IF n = 1 THEN Written(tap[c]) ELSE column
       /\ TapBecause(c, SentAgain(Ran(tap[c], n)), n = 1 /\ tap[c].kind \in {"login", "renew"})
  /\ UNCHANGED <<second, kept, asGuest, expelled>>

\* The request or its answer is lost: once it is sent again.
AnswerLost(c) ==
  /\ tap[c].at \in {"serve", "write"} /\ Mishap
  /\ \E n \in Runs(tap[c]) :
       /\ column' = IF n = 1 THEN Written(tap[c]) ELSE column
       /\ TapBecause(c,
            IF tap[c].again THEN Failed(Ran(tap[c], n)) ELSE SentAgain(Ran(tap[c], n)),
            \/ (n = 1 /\ tap[c].kind \in {"login", "renew"})
            \/ (tap[c].again /\ tap[c].kind = "me"))
  /\ UNCHANGED <<second, kept, asGuest, expelled>>

\* A 5xx is not sent again.  refresh calls every failure of its own a 401.
ServerFails(c) ==
  /\ tap[c].at \in {"serve", "write"} /\ Mishap
  /\ IF tap[c].kind = "renew"
     THEN TapBecause(c, Unauthorized(tap[c]), RefusedForGood(tap[c]))
     ELSE TapBecause(c, Failed(tap[c]), tap[c].kind = "me")
  /\ UNCHANGED <<second, column, kept, asGuest, expelled>>

-----------------------------------------------------------------------------
(* refresh of auth.service.ts                                              *)

\* The token is compared with the column: the interceptor's, asked past the
\* interceptors, and loadUser's, which is a request like any other.
CompareToken(c) ==
  /\ TapAt(c, "ask")
  /\ TapBecause(c, [tap[c] EXCEPT !.at = IF column = tap[c].token /\ Fresh(tap[c].token)
                                         THEN "rotate" ELSE "dropAccess"],
                ~Fresh(tap[c].token))
  /\ UNCHANGED <<second, column, kept, mishaps, asGuest, expelled>>

CompareBody(c) ==
  /\ TapAt(c, "serve") /\ tap[c].kind = "renew"
  /\ IF column = tap[c].body /\ Fresh(tap[c].body)
     THEN TapBecomes(c, [tap[c] EXCEPT !.at = "write"])
     ELSE TapBecause(c, Unauthorized(tap[c]), RefusedForGood(tap[c]))
  /\ UNCHANGED <<second, column, kept, mishaps, asGuest, expelled>>

Rotate(c) ==
  /\ tap[c].at \in {"rotate", "write"}
  /\ column' = second
  /\ TapBecomes(c, [tap[c] EXCEPT !.at = "keepAccess", !.token = second,
                                  !.kind = IF TapAt(c, "write") THEN "renewed" ELSE @])
  /\ UNCHANGED <<second, kept, mishaps, asGuest, expelled>>

\* Any failure of the interceptor's refresh counts as a refusal.
RefreshLost(c) ==
  /\ \/ tap[c].at \in {"ask", "rotate"}
     \/ TapAt(c, "keepAccess") /\ tap[c].kind \in {"tap", "me", "logout", "renew"}
  /\ Mishap
  /\ TapBecause(c, [tap[c] EXCEPT !.at = "dropAccess"], TRUE)
  /\ UNCHANGED <<second, column, kept, asGuest, expelled>>

-----------------------------------------------------------------------------
(* The storage of the device: the tokens come and go one after the other   *)

KeepAccess(c) ==
  /\ TapAt(c, "keepAccess")
  /\ kept' = [kept EXCEPT !.access = tap[c].token]
  /\ asGuest' = IF tap[c].kind \in {"login", "guest"} THEN tap[c].kind = "guest" ELSE asGuest
  /\ TapBecomes(c, [tap[c] EXCEPT !.at = IF tap[c].kind = "guest" THEN "clearRefresh"
                                         ELSE "keepRefresh"])
  /\ UNCHANGED <<second, column, mishaps, expelled>>

\* login is done, loadUser asks getMe, the interceptor sends the request again.
AfterKeeping(r) == CASE r.kind = "login" -> Over(r, "ok")
                     [] r.kind = "renewed" -> AskMe
                     [] OTHER -> [r EXCEPT !.at = "send", !.bearer = r.token]

\* Mutated KeepRefresh: the old refresh token stays.
KeepOldRefresh(c) ==
  /\ TapAt(c, "keepRefresh")
  /\ TapBecomes(c, AfterKeeping(tap[c]))
  /\ UNCHANGED <<second, column, kept, mishaps, asGuest, expelled>>

KeepRefresh(c) ==
  /\ TapAt(c, "keepRefresh")
  /\ kept' = [kept EXCEPT !.refresh = tap[c].token]
  /\ TapBecomes(c, AfterKeeping(tap[c]))
  /\ UNCHANGED <<second, column, mishaps, asGuest, expelled>>

\* The interceptor drops the tokens of whoever is signed in, tells the screens,
\* and lets the request fail.
DropAccess(c) ==
  /\ TapAt(c, "dropAccess")
  /\ kept' = [kept EXCEPT !.access = 0]
  /\ expelled' = (expelled \/ kept.access # 0)
  /\ TapBecomes(c, [tap[c] EXCEPT !.at = "dropRefresh"])
  /\ UNCHANGED <<second, column, mishaps, asGuest>>

DropRefresh(c) ==
  /\ TapAt(c, "dropRefresh")
  /\ kept' = [kept EXCEPT !.refresh = 0]
  /\ TapBecomes(c, Failed(tap[c]))
  /\ UNCHANGED <<second, column, mishaps, asGuest, expelled>>

\* The store clears them: after a logout, which the user asked for, or a failed load.
ClearAccess(c) ==
  /\ TapAt(c, "clearAccess")
  /\ kept' = [kept EXCEPT !.access = 0]
  /\ expelled' = (expelled \/ (tap[c].kind = "me" /\ kept.access # 0))
  /\ TapBecomes(c, [tap[c] EXCEPT !.at = "clearRefresh"])
  /\ UNCHANGED <<second, column, mishaps, asGuest>>

\* setGuestSession ends here as well: a guest has no refresh token.
ClearRefresh(c) ==
  /\ TapAt(c, "clearRefresh")
  /\ kept' = [kept EXCEPT !.refresh = 0]
  /\ TapBecomes(c, Over(tap[c], IF tap[c].kind = "me" THEN "error" ELSE "ok"))
  /\ UNCHANGED <<second, column, mishaps, asGuest, expelled>>

TapStep(c) == \/ LookForRefresh(c) \/ Serve(c) \/ ServeSignIn(c) \/ Revoke(c) \/ Refused(c)
              \/ AnswerLost(c) \/ ServerFails(c) \/ CompareToken(c) \/ CompareBody(c)
              \/ Rotate(c) \/ RefreshLost(c) \/ KeepAccess(c) \/ KeepRefresh(c)
              \/ DropAccess(c) \/ DropRefresh(c) \/ ClearAccess(c) \/ ClearRefresh(c)

TokensNext == \/ TimeGoesOn \/ SignElsewhere
              \/ \E c \in Taps : \/ SendTap(c) \/ LoadUser(c) \/ SignIn(c) \/ Logout(c)
                                 \/ TapStep(c)

TokensSpec == TokensInit /\ [][TokensNext]_tokenVars

-----------------------------------------------------------------------------
(* Properties                                                              *)

TokensTypeOK ==
  /\ second \in Nat \ {0} /\ column \in Nat
  /\ kept \in [access : Nat, refresh : Nat]
  /\ tap \in [Taps ->
       [kind : {"tap", "login", "guest", "logout", "renew", "renewed", "me"},
        at : {"new", "look", "send", "serve", "ask", "rotate", "write", "keepAccess",
              "keepRefresh", "dropAccess", "dropRefresh", "clearAccess", "clearRefresh", "done"},
        bearer : Nat, token : Nat, body : Nat, retried : BOOLEAN, again : BOOLEAN, ran : Nat,
        lost : BOOLEAN, result : {"none", "ok", "error"}]]
  /\ mishaps \in Nat
  /\ asGuest \in BOOLEAN /\ cause \in BOOLEAN /\ expelled \in BOOLEAN

\* api.ts:105-115 and authStore.ts:254-288: access tokens may expire as often as they
\* like, and loadUser may renew the pair as often as it likes and lose what it asks:
\* the app drops the tokens of its own accord only if two requests refreshed or wrote
\* the tokens at the same time; the answer to a refresh or a login was lost; the user
\* signed in or out elsewhere, signed out here, or changed the password; the refresh
\* token outlived its own term; a guest's only token expired; or getMe of loadUser
\* failed: lost twice, an error of the server, or a new token refused.
SignedOutForCause == expelled => cause

\* api.ts:27: what the user asked for once is executed at most twice, whatever
\* mixture of lost answers and expired tokens it meets: twice, or in spite of the
\* error shown, only if the answer to an execution was lost.
RunsOnceUnlessLost ==
  \A c \in Taps :
    /\ tap[c].ran <= 2
    /\ tap[c].ran = 2 \/ (tap[c].result = "error" /\ tap[c].ran > 0) => tap[c].lost
    /\ tap[c].kind = "tap" /\ tap[c].result = "ok" => tap[c].ran > 0
=============================================================================
