-------------------------------- MODULE Rally --------------------------------
(***************************************************************************)
(* Duels of the mini game: matches kept in the memory of the one server    *)
(* process (rallyGame.store.ts), challenged and accepted by requests       *)
(* (rallyGame.service.ts), joined, left and lost over sockets              *)
(* (socket/index.ts), which may come back before they are seen to be gone. *)
(***************************************************************************)
EXTENDS Integers, FiniteSets

CONSTANTS
  Duellists,   \* users checked in to one club session
  Matches,     \* challenges made: the ids of their matches
  RallySockets,
  MaxRestarts  \* bound

ASSUME RallyAssumption == "none" \notin Matches /\ MaxRestarts \in Nat

VARIABLES
  match,       \* the store, and the challenges about to put a match there
  socket,      \* sockets: user and match are socket.data
  leaves,      \* pendingLeaves: <<match, user>> whose grace runs
  restarts,
  together,    \* pairs of challenges under way at the same time, and
  late         \* <<match, user>> whose socket was seen to be gone while another
               \* had joined (both no state of the code)

rallyVars == <<match, socket, leaves, restarts, together, late>>

NoMatch == [state |-> "none", host |-> "none", guest |-> "none"]
NoSocket == [state |-> "free", user |-> "none", match |-> "none"]

RallyInit ==
  /\ match = [m \in Matches |-> NoMatch]
  /\ socket = [s \in RallySockets |-> NoSocket]
  /\ leaves = {} /\ restarts = 0
  /\ together = {} /\ late = {}

Stored(m) == match[m].state \in {"PENDING", "ACTIVE"}
Playing2(m) == {match[m].host, match[m].guest}
Busy(u) == \E m \in Matches : Stored(m) /\ u \in Playing2(m)
InRoom(m, u) == {s \in RallySockets : socket[s] = [state |-> "up", user |-> u, match |-> m]}

-----------------------------------------------------------------------------
(* challenge, accept, decline                                              *)

\* Mutated FindMatch: only the challenger's own challenges are looked for.
FindHostsMatch(m) ==
  /\ match[m].state = "none"
  /\ \E u, v \in Duellists :
       /\ u # v /\ \A n \in Matches : Stored(n) => match[n].host # u
       /\ match' = [match EXCEPT ![m] = [state |-> "made", host |-> u, guest |-> v]]
  /\ together' = together \cup {{m, n} : n \in {k \in Matches : match[k].state = "made"}}
  /\ UNCHANGED <<socket, leaves, restarts, late>>

\* The host's name is read between the look at the store and the put.
FindMatch(m) ==
  /\ match[m].state = "none"
  /\ \E u, v \in Duellists :
       /\ u # v /\ ~Busy(u) /\ ~Busy(v)
       /\ match' = [match EXCEPT ![m] = [state |-> "made", host |-> u, guest |-> v]]
  /\ together' = together \cup {{m, n} : n \in {k \in Matches : match[k].state = "made"}}
  /\ UNCHANGED <<socket, leaves, restarts, late>>

PutMatch(m) ==
  /\ match[m].state = "made"
  /\ match' = [match EXCEPT ![m].state = "PENDING"]
  /\ UNCHANGED <<socket, leaves, restarts, together, late>>

AcceptMatch(m) ==
  /\ match[m].state = "PENDING"
  /\ match' = [match EXCEPT ![m].state = "ACTIVE"]
  /\ UNCHANGED <<socket, leaves, restarts, together, late>>

\* deleteRallyMatch; a name is not used again.
DeleteMatch(m) == match' = [match EXCEPT ![m] = [NoMatch EXCEPT !.state = "gone"]]

\* By either of the two, even after it was accepted; a read that failed.
DeclineMatch(m) ==
  /\ match[m].state \in {"made", "PENDING", "ACTIVE"}
  /\ DeleteMatch(m)
  /\ UNCHANGED <<socket, leaves, restarts, together, late>>

\* The timer of 60 seconds.
ExpireMatch(m) ==
  /\ match[m].state = "PENDING"
  /\ DeleteMatch(m)
  /\ UNCHANGED <<socket, leaves, restarts, together, late>>

-----------------------------------------------------------------------------
(* rally:join, rally:leave, disconnect, the grace                          *)

\* Mutated JoinRally: the grace goes on.
JoinOnly(s) ==
  /\ socket[s].state # "down"
  /\ \E m \in Matches : \E u \in Duellists \cap Playing2(m) :
       /\ Stored(m) /\ socket[s].user \in {"none", u} /\ socket[s].match \in {"none", m}
       /\ socket' = [socket EXCEPT ![s] = [state |-> "up", user |-> u, match |-> m]]
       /\ late' = late \ {<<m, u>>}
  /\ UNCHANGED <<match, leaves, restarts, together>>

\* The app leaves one match before it joins another (net.ts).
JoinRally(s) ==
  /\ socket[s].state # "down"
  /\ \E m \in Matches : \E u \in Duellists \cap Playing2(m) :
       /\ Stored(m) /\ socket[s].user \in {"none", u} /\ socket[s].match \in {"none", m}
       /\ socket' = [socket EXCEPT ![s] = [state |-> "up", user |-> u, match |-> m]]
       /\ leaves' = leaves \ {<<m, u>>}
       /\ late' = late \ {<<m, u>>}
  /\ UNCHANGED <<match, restarts, together>>

LeaveMatch(m, u) == IF Stored(m) /\ u \in Playing2(m) THEN DeleteMatch(m) ELSE UNCHANGED match

LeaveRally(s) ==
  /\ socket[s].state = "up" /\ socket[s].match # "none"
  /\ LeaveMatch(socket[s].match, socket[s].user)
  /\ socket' = [socket EXCEPT ![s].match = "none"]
  /\ UNCHANGED <<leaves, restarts, together, late>>

\* Mutated Disconnect: no grace is started.
DisconnectOnly(s) ==
  /\ socket[s].state = "up"
  /\ socket' = [socket EXCEPT ![s].state = "down"]
  /\ UNCHANGED <<match, leaves, restarts, together, late>>

\* The server notices that a socket is gone; a grace that runs goes on running.
Disconnect(s) ==
  LET m == socket[s].match
      u == socket[s].user
  IN  /\ socket[s].state = "up"
      /\ socket' = [socket EXCEPT ![s].state = "down"]
      /\ leaves' = IF m = "none" THEN leaves ELSE leaves \cup {<<m, u>>}
      /\ late' = IF m # "none" /\ InRoom(m, u) # {s} THEN late \cup {<<m, u>>} ELSE late
      /\ UNCHANGED <<match, restarts, together>>

\* setTimeout of 20 seconds in scheduleLeave.
GraceEnds(l) ==
  /\ l \in leaves
  /\ leaves' = leaves \ {l}
  /\ LeaveMatch(l[1], l[2])
  /\ UNCHANGED <<socket, restarts, together, late>>

\* The process restarts: the store, the timers and the sockets are gone.
RallyRestart ==
  /\ restarts < MaxRestarts /\ restarts' = restarts + 1
  /\ match' = [m \in Matches |-> IF match[m].state = "none" THEN NoMatch
                                 ELSE [NoMatch EXCEPT !.state = "gone"]]
  /\ socket' = [s \in RallySockets |-> IF socket[s].state = "up"
                                       THEN [socket[s] EXCEPT !.state = "down"] ELSE socket[s]]
  /\ leaves' = {} /\ late' = {}
  /\ UNCHANGED together

RallyNext ==
  \/ \E m \in Matches : \/ FindMatch(m) \/ PutMatch(m) \/ AcceptMatch(m) \/ DeclineMatch(m)
                        \/ ExpireMatch(m)
  \/ \E s \in RallySockets : JoinRally(s) \/ LeaveRally(s) \/ Disconnect(s)
  \/ \E l \in Matches \X Duellists : GraceEnds(l)
  \/ RallyRestart

RallySpec == RallyInit /\ [][RallyNext]_rallyVars

\* Timers fire.
RallyFairness == /\ \A m \in Matches : WF_rallyVars(ExpireMatch(m))
                 /\ \A l \in Matches \X Duellists : WF_rallyVars(GraceEnds(l))

-----------------------------------------------------------------------------
(* Properties                                                              *)

RallyTypeOK ==
  /\ match \in [Matches -> [state : {"none", "made", "PENDING", "ACTIVE", "gone"},
                            host : Duellists \cup {"none"}, guest : Duellists \cup {"none"}]]
  /\ socket \in [RallySockets -> [state : {"free", "up", "down"},
                                  user : Duellists \cup {"none"}, match : Matches \cup {"none"}]]
  /\ leaves \subseteq Matches \X Duellists /\ late \subseteq Matches \X Duellists
  /\ restarts \in Nat
  /\ together \subseteq SUBSET Matches

\* rallyGame.service.ts:32: nobody is in two matches, as host or guest, through
\* challenges, expiries, declines and restarts, unless both challenges were under
\* way together, one looking before the other put its match.
OneMatchEach ==
  \A m, n \in Matches :
    m # n /\ Stored(m) /\ Stored(n) /\ Playing2(m) \cap Playing2(n) # {} => {m, n} \in together

\* socket/index.ts:80 "if it is a reconnection the grace is cancelled": no grace
\* runs out on a member who has joined again, unless the server noticed the loss of
\* an older socket only after the new one had joined.
ReturnedPlayersStay ==
  \A m \in Matches, u \in Duellists : InRoom(m, u) # {} /\ <<m, u>> \in leaves => <<m, u>> \in late

\* socket/index.ts:120 "20 seconds of grace": a match that somebody joined ends, or is
\* joined again, once their last socket is gone: nobody stays "already in a match"
\* behind a lost connection, or is left waiting in one.
Abandoned(m) ==
  Stored(m) /\ \E s \in RallySockets : /\ socket[s].state = "down" /\ socket[s].match = m
                                      /\ InRoom(m, socket[s].user) = {}
AbandonedMatchEnds == \A m \in Matches : []<>~Abandoned(m)
=============================================================================
