----------------------------- MODULE Operators -----------------------------
(***************************************************************************)
(* Becoming an operator: a member applies (operatorRequest.service.ts      *)
(* createRequest) or a newcomer signs up as one (auth.service.ts           *)
(* registerOperator), and a SUPER_ADMIN approves or rejects; or a sign-up  *)
(* names the role (register).  Each call to the database is a step, and so *)
(* is each transaction.                                                    *)
(***************************************************************************)
EXTENDS Integers, FiniteSets

CONSTANTS
  People,         \* people, with or without an account
  OperatorCalls   \* the requests made; one that files an OperatorRequest names it

\* "none" stands for null.
ASSUME OperatorsAssumption == "none" \notin OperatorCalls

VARIABLES
  account,        \* User.accountStatus and role, status "NONE" for no row
  filed,          \* OperatorRequest rows by the request that filed them
  operatorCall,   \* the requests
  reviewsMet,     \* OperatorRequest rows two reviews were about together, and
  roleGiven       \* people whose sign-up named a role other than PLAYER (both no
                  \* state of the code)

operatorVars == <<account, filed, operatorCall, reviewsMet, roleGiven>>

Roles == {"SUPER_ADMIN", "FACILITY_ADMIN", "CLUB_LEADER", "PLAYER"}

NotFiled == [by |-> "none", status |-> "NONE"]
NewOperatorCall == [at |-> "new", by |-> "none", about |-> "none"]

OperatorsInit ==
  /\ account = [u \in People |-> [status |-> "NONE", role |-> "PLAYER"]]
  /\ filed = [c \in OperatorCalls |-> NotFiled]
  /\ operatorCall = [c \in OperatorCalls |-> NewOperatorCall]
  /\ reviewsMet = {} /\ roleGiven = {}

PendingOf(u) == {c \in OperatorCalls : filed[c] = [by |-> u, status |-> "PENDING"]}

OperatorAt(c, l) == operatorCall[c].at = l
Reviewed(oc) == {r \in OperatorCalls : \E c, d \in OperatorCalls :
  c # d /\ oc[c].about = r /\ oc[d].about = r}
OperatorBecomes(c, r) == /\ operatorCall' = [operatorCall EXCEPT ![c] = r]
                         /\ reviewsMet' = reviewsMet \cup Reviewed(operatorCall')
                         /\ UNCHANGED roleGiven
OperatorDone(c) == OperatorBecomes(c, [NewOperatorCall EXCEPT !.at = "done"])

-----------------------------------------------------------------------------
\* register: the account has the role that the sign-up names, PLAYER if it names
\* none, and is active; the number is unique.
Register(u) ==
  /\ account[u].status = "NONE"
  /\ \E r \in Roles :
       /\ account' = [account EXCEPT ![u] = [status |-> "ACTIVE", role |-> r]]
       /\ roleGiven' = IF r = "PLAYER" THEN roleGiven ELSE roleGiven \cup {u}
  /\ UNCHANGED <<filed, operatorCall, reviewsMet>>

-----------------------------------------------------------------------------
(* createRequest                                                           *)

FindMember(c) ==
  /\ OperatorAt(c, "new")
  /\ \E u \in People :
       /\ account[u].status # "NONE" /\ account[u].role \in {"PLAYER", "FACILITY_ADMIN"}
       /\ OperatorBecomes(c, [NewOperatorCall EXCEPT !.at = "pending", !.by = u])
  /\ UNCHANGED <<account, filed>>

FindPending(c) ==
  /\ OperatorAt(c, "pending")
  /\ IF PendingOf(operatorCall[c].by) # {} THEN OperatorDone(c)
     ELSE OperatorBecomes(c, [operatorCall[c] EXCEPT !.at = "file"])
  /\ UNCHANGED <<account, filed>>

FileRequest(c) ==
  /\ OperatorAt(c, "file")
  /\ filed' = [filed EXCEPT ![c] = [by |-> operatorCall[c].by, status |-> "PENDING"]]
  /\ OperatorDone(c)
  /\ UNCHANGED account

-----------------------------------------------------------------------------
(* registerOperator                                                        *)

FindAccount(c) ==
  /\ OperatorAt(c, "new")
  /\ \E u \in People :
       /\ account[u].status \in {"NONE", "REJECTED"}
       /\ OperatorBecomes(c, [NewOperatorCall EXCEPT !.by = u,
            !.at = IF account[u].status = "NONE" THEN "create" ELSE "again"])
  /\ UNCHANGED <<account, filed>>

\* Mutated SignUp: the request is left to be filed later.
SignUpOnly(c) ==
  LET u == operatorCall[c].by
  IN  /\ operatorCall[c].at \in {"create", "again"}
      /\ IF OperatorAt(c, "create") /\ account[u].status # "NONE"
         THEN UNCHANGED <<account, filed>>
         ELSE /\ account' = [account EXCEPT ![u].status = "PENDING"]
              /\ UNCHANGED filed
      /\ OperatorDone(c)

\* One transaction: the account, which the unique number refuses a second time, or
\* the rejected account of before, whatever it has become; and the request.
SignUp(c) ==
  LET u == operatorCall[c].by
  IN  /\ operatorCall[c].at \in {"create", "again"}
      /\ IF OperatorAt(c, "create") /\ account[u].status # "NONE"
         THEN UNCHANGED <<account, filed>>
         ELSE /\ account' = [account EXCEPT ![u].status = "PENDING"]
              /\ filed' = [filed EXCEPT ![c] = [by |-> u, status |-> "PENDING"]]
      /\ OperatorDone(c)

-----------------------------------------------------------------------------
(* reviewRequest                                                           *)

\* Mutated FindRequest: a request that was reviewed is reviewed again.
FindAnyRequest(c) ==
  /\ OperatorAt(c, "new")
  /\ \E r \in OperatorCalls, d \in {"approve", "reject"} :
       /\ filed[r].status # "NONE"
       /\ OperatorBecomes(c, [NewOperatorCall EXCEPT !.at = d, !.about = r])
  /\ UNCHANGED <<account, filed>>

FindRequest(c) ==
  /\ OperatorAt(c, "new")
  /\ \E r \in OperatorCalls, d \in {"approve", "reject"} :
       /\ filed[r].status = "PENDING"
       /\ OperatorBecomes(c, [NewOperatorCall EXCEPT !.at = d, !.about = r])
  /\ UNCHANGED <<account, filed>>

\* The transactions write the request by id, whatever it has become.  Only a player
\* is raised; every approved account is active.
Approve(c) ==
  LET r == operatorCall[c].about
  IN  /\ OperatorAt(c, "approve")
      /\ filed' = [filed EXCEPT ![r].status = "APPROVED"]
      /\ account' = [account EXCEPT ![filed[r].by] =
                       [status |-> "ACTIVE", role |-> IF @.role = "PLAYER" THEN "CLUB_LEADER" ELSE @.role]]
      /\ OperatorDone(c)

\* Only an account that waits for its approval is marked.
Reject(c) ==
  LET r == operatorCall[c].about
  IN  /\ OperatorAt(c, "reject")
      /\ filed' = [filed EXCEPT ![r].status = "REJECTED"]
      /\ account' = [account EXCEPT ![filed[r].by].status = IF @ = "PENDING" THEN "REJECTED" ELSE @]
      /\ OperatorDone(c)

OperatorCallFails(c) == /\ operatorCall[c].at \notin {"new", "done"}
                        /\ OperatorDone(c)
                        /\ UNCHANGED <<account, filed>>

OperatorsNext == (\E u \in People : Register(u)) \/ \E c \in OperatorCalls :
  \/ FindMember(c) \/ FindPending(c) \/ FileRequest(c) \/ FindAccount(c) \/ SignUp(c)
  \/ FindRequest(c) \/ Approve(c) \/ Reject(c) \/ OperatorCallFails(c)

OperatorsSpec == OperatorsInit /\ [][OperatorsNext]_operatorVars

-----------------------------------------------------------------------------
(* Properties                                                              *)

OperatorsTypeOK ==
  /\ account \in [People -> [status : {"NONE", "PENDING", "ACTIVE", "REJECTED"},
                             role : Roles]]
  /\ filed \in [OperatorCalls -> [by : People \cup {"none"},
                                  status : {"NONE", "PENDING", "APPROVED", "REJECTED"}]]
  /\ operatorCall \in [OperatorCalls ->
       [at : {"new", "pending", "file", "create", "again", "approve", "reject", "done"},
        by : People \cup {"none"}, about : OperatorCalls \cup {"none"}]]
  /\ reviewsMet \subseteq OperatorCalls /\ roleGiven \subseteq People

\* operatorRequest.service.ts:124-126, validators.ts:9: whoever is an operator and
\* did not sign up with a role has a request that stands approved, through rejections,
\* second applications and requests that overlap, unless two reviews of the same
\* request did, of which the later word stands; and an approved request has made its
\* applicant an operator, or left a higher role, and none later takes the role away.
LeadersWereApproved ==
  /\ \A u \in People \ roleGiven : account[u].role # "PLAYER" =>
       \E c \in OperatorCalls : /\ filed[c].by = u
                                /\ filed[c].status = "APPROVED" \/ c \in reviewsMet
  /\ \A c \in OperatorCalls : filed[c].status = "APPROVED" => account[filed[c].by].role # "PLAYER"

\* auth.service.ts:129-130: an account that is kept out until it is approved has a
\* request that can still be approved, whatever overlapped and failed.
NobodyWaitsForNothing == \A u \in People : account[u].status = "PENDING" => PendingOf(u) # {}
=============================================================================
