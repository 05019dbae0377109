----------------------------- MODULE Membership -----------------------------
(***************************************************************************)
(* Access to a tenant: the dependency get_authorized_context, the admin    *)
(* routes that grant and deactivate memberships, and the status endpoint,  *)
(* as coroutines of one API process over the table tenant_memberships. A   *)
(* request has one session; its statements run at READ COMMITTED and lock  *)
(* nothing, so that other requests commit between its membership check,    *)
(* its SELECT of the row it changes, and its commit.                       *)
(***************************************************************************)
EXTENDS MembershipCalls

CONSTANTS
  Seeds,          \* the tables an API process may start with
  AccessFaults,   \* steps that may raise before they take effect
  AccessAckLoss   \* steps that may take effect and raise all the same

VARIABLES
  mode,      \* settings.auth_mode
  member,    \* the table: the row of each (tenant_id, actor_id)
  request,   \* the handler of each request
  undisputed \* history: deactivations no grant overlapped or followed

membershipVars == <<mode, member, request, undisputed>>

Row == [exists : BOOLEAN, roles : SUBSET Roles, active : BOOLEAN]
NoRow == [exists |-> FALSE, roles |-> {}, active |-> FALSE]

\* t is a table: a row for some of the keys.
IsTable(t) ==
  /\ t \in [Keys -> Row]
  /\ \A k \in Keys : t[k].exists \/ t[k] = NoRow

AccessPc == {"idle", "authorize", "select", "commit", "answer", "done"}
NoStatus == 0
Status == {NoStatus, 200, 204, 401, 403, 404, 500}

ASSUME MembershipAssumption ==
  /\ \A t \in Seeds : IsTable(t)
  /\ AccessFaults \subseteq {"authorize", "select", "commit"}
  /\ AccessAckLoss \subseteq {"commit"}

TypeOK ==
  /\ mode \in Modes
  /\ IsTable(member)
  /\ request \in [Requests -> [pc : AccessPc, call : Calls, row : Row, status : Status]]
  /\ undisputed \subseteq Requests

MembershipInit ==
  /\ mode \in Modes
  /\ member \in Seeds
  /\ request = [r \in Requests |-> [pc |-> "idle", call |-> AnyCall,
                                    row |-> NoRow, status |-> NoStatus]]
  /\ undisputed = {}

AccessAt(r, pc) == request[r].pc = pc

\* The handler ends; what it held in memory is gone.
Ended(r, status) ==
  [request EXCEPT ![r].pc = "done", ![r].row = NoRow, ![r].status = status]

AccessEnd(r, status) ==
  /\ request' = Ended(r, status)
  /\ UNCHANGED <<mode, member, undisputed>>

InFlight(r) == request[r].pc \notin {"idle", "done"}

\* The requests of a kind that concern the membership of a call.
Rivals(kind, c) ==
  {r \in Requests : request[r].call.kind = kind /\ Target(request[r].call) = Target(c)}

Undisputed(r, c) ==
  CASE c.kind = "grant" -> undisputed \ Rivals("deactivate", c)
    [] c.kind = "deactivate" /\ ~\E g \in Rivals("grant", c) : InFlight(g)
         -> undisputed \cup {r}
    [] OTHER -> undisputed

(***************************************************************************)
(* get_auth_context: the header X-Tenant-ID and its companions in local    *)
(* mode, a bearer token in the others. Nothing is read from the database.  *)
(***************************************************************************)
Arrive(r, c) ==
  /\ AccessAt(r, "idle")
  /\ IF c.credential # "valid"
     THEN request' = [Ended(r, 401) EXCEPT ![r].call = c]
     ELSE request' = [request EXCEPT ![r].pc = "authorize", ![r].call = c]
  /\ undisputed' = Undisputed(r, c)
  /\ UNCHANGED <<mode, member>>

(***************************************************************************)
(* get_authorized_context, then the handler up to its first await. Outside *)
(* local mode, get_roles selects the roles of an active membership, which  *)
(* replace those of the token. require_roles raises an AuthorizationError  *)
(* that nobody turns into a response: the caller gets a 500.               *)
(***************************************************************************)
IsMember(c) == mode = "local" \/ (member[Self(c)].exists /\ member[Self(c)].active)

\* Mutant of RolesOf: the roles the token claims are kept beside the table's.
RolesOfClaimed(c) == IF mode = "local" THEN c.claims ELSE c.claims \cup member[Self(c)].roles

RolesOf(c) == IF mode = "local" THEN c.claims ELSE member[Self(c)].roles

Authorize(r) ==
  LET c == request[r].call IN
  /\ AccessAt(r, "authorize")
  /\ \/ /\ ~IsMember(c) \/ ~SameTenant(c)
        /\ request' = Ended(r, 403)
     \/ /\ IsMember(c) /\ SameTenant(c) /\ ~HasRole(c, RolesOf(c))
        /\ request' = Ended(r, 500)
     \/ /\ IsMember(c) /\ SameTenant(c) /\ HasRole(c, RolesOf(c))
        /\ request' = [request EXCEPT ![r].pc = "select"]
  /\ UNCHANGED <<mode, member, undisputed>>

\* upsert_membership: the SELECT.
SelectForGrant(r) ==
  /\ AccessAt(r, "select")
  /\ request[r].call.kind = "grant"
  /\ request' = [request EXCEPT ![r].pc = "commit",
                                ![r].row = member[Target(request[r].call)]]
  /\ UNCHANGED <<mode, member, undisputed>>

\* Mutant of SelectForDeactivation: a member without roles is taken for none.
SelectForDeactivationOfRoles(r) ==
  LET row == member[Target(request[r].call)] IN
  /\ AccessAt(r, "select")
  /\ request[r].call.kind = "deactivate"
  /\ request' = [request EXCEPT ![r].pc = IF row.roles # {} THEN "commit" ELSE "answer",
                                ![r].row = row]
  /\ UNCHANGED <<mode, member, undisputed>>

\* deactivate_membership: the SELECT. Without a row there is nothing to commit.
SelectForDeactivation(r) ==
  LET row == member[Target(request[r].call)] IN
  /\ AccessAt(r, "select")
  /\ request[r].call.kind = "deactivate"
  /\ request' = [request EXCEPT ![r].pc = IF row.exists THEN "commit" ELSE "answer",
                                ![r].row = row]
  /\ UNCHANGED <<mode, member, undisputed>>

\* get_document_status: the newest job of the document, if its tenant matches.
SelectJobStatus(r) ==
  LET c == request[r].call IN
  /\ AccessAt(r, "select")
  /\ c.kind = "status"
  /\ IF Owner[c.document] = c.tenant
     THEN request' = [request EXCEPT ![r].pc = "answer"]
     ELSE request' = Ended(r, 404)
  /\ UNCHANGED <<mode, member, undisputed>>

(***************************************************************************)
(* The commit: an INSERT when the SELECT found no row, which the primary   *)
(* key refuses when another request inserted one since; otherwise an       *)
(* UPDATE of the columns that differ from the selected row.                *)
(***************************************************************************)
Collides(r) == ~request[r].row.exists /\ member[Target(request[r].call)].exists

Desired(c) == c.kind = "grant"

\* Mutant of Committed: an update copies the selected row's existence as well.
CommittedAsSelected(r) ==
  LET c == request[r].call IN
  [request[r].row EXCEPT !.active = Desired(c),
                         !.roles = IF c.kind = "grant" THEN c.roles ELSE @]

Committed(r) ==
  LET c == request[r].call
      read == request[r].row
      current == member[Target(c)]
  IN IF ~read.exists THEN [exists |-> TRUE, roles |-> c.roles, active |-> TRUE]
     ELSE [exists |-> TRUE,
           roles |-> IF c.kind = "grant" /\ c.roles # read.roles
                     THEN c.roles ELSE current.roles,
           active |-> IF read.active # Desired(c) THEN Desired(c) ELSE current.active]

Commit(r) ==
  /\ AccessAt(r, "commit")
  /\ ~Collides(r)
  /\ member' = [member EXCEPT ![Target(request[r].call)] = Committed(r)]
  /\ \/ request' = [request EXCEPT ![r].pc = "answer"]
     \/ /\ "commit" \in AccessAckLoss
        /\ request' = Ended(r, 500)
  /\ UNCHANGED <<mode, undisputed>>

\* The IntegrityError of the INSERT is not caught.
Collide(r) ==
  /\ AccessAt(r, "commit")
  /\ Collides(r)
  /\ AccessEnd(r, 500)

\* The database refuses or is not reached: an exception nobody catches. In local
\* mode, authorizing takes no statement.
AccessFails(r) ==
  /\ request[r].pc \in AccessFaults
  /\ mode = "local" => ~AccessAt(r, "authorize")
  /\ AccessEnd(r, 500)

\* The response: 204 to a change, 200 to a status.
Answer(r) ==
  /\ AccessAt(r, "answer")
  /\ AccessEnd(r, IF request[r].call.kind = "status" THEN 200 ELSE 204)

AccessStep(r) ==
  \/ Authorize(r)
  \/ SelectForGrant(r)
  \/ SelectForDeactivation(r)
  \/ SelectJobStatus(r)
  \/ Commit(r)
  \/ Collide(r)
  \/ AccessFails(r)
  \/ Answer(r)

MembershipNext ==
  \E r \in Requests : AccessStep(r) \/ \E c \in Calls : Arrive(r, c)

MembershipSpec == MembershipInit /\ [][MembershipNext]_membershipVars

(***************************************************************************)
(* Properties                                                              *)
(***************************************************************************)

\* A deactivation answered with 204, which no grant of the same membership
\* overlaps or follows, holds: whatever the other requests do with rows they
\* selected before, the actor stays out (deactivate_membership, get_roles).
RevokedStaysOut ==
  \A r \in undisputed :
    request[r].status = 204 => ~member[Target(request[r].call)].active

(***************************************************************************)
(* The refinement of TenantDirectory. A column whose selected value is the *)
(* one asked for counts as written when it was selected, any other when    *)
(* the commit takes effect.                                                *)
(***************************************************************************)
Found(r) ==
  LET c == request[r].call
      read == request[r].row
  IN (IF read.active = Desired(c) THEN {"active"} ELSE {}) \cup
     (IF c.kind = "grant" /\ read.exists /\ read.roles = c.roles THEN {"roles"} ELSE {})

WrittenBy(r) ==
  LET kind == request[r].call.kind IN
  IF kind = "status" THEN {}
  ELSE IF AccessAt(r, "commit") THEN Found(r)
  ELSE IF AccessAt(r, "answer")
  THEN IF kind = "grant" THEN {"active", "roles"} ELSE {"active"}
  ELSE {}

PhaseOf(r) ==
  CASE AccessAt(r, "idle") -> "idle"
    [] AccessAt(r, "authorize") -> "called"
    [] AccessAt(r, "done") -> "answered"
    [] OTHER -> "admitted"

\* What the directory sees of the table and of a request.
ActiveColumn == [k \in Keys |-> member[k].active]
RolesColumn == [k \in Keys |-> member[k].roles]

OperationOf(r) ==
  [phase |-> PhaseOf(r), call |-> request[r].call, written |-> WrittenBy(r),
   ok |-> request[r].status \in {200, 204}]

Operations == [r \in Requests |-> OperationOf(r)]

Directory == INSTANCE TenantDirectory
             WITH active <- ActiveColumn, roles <- RolesColumn, op <- Operations

\* The memberships behave as the directory of atomic columns: no call is let in
\* but by the membership of one moment after it was made, none writes what it
\* was not asked to or in a tenant it does not administer, and a 204 means that
\* each column it asked for was in place at some moment of the call
\* (routes/admin.py, membership.py, membership_repository.py).
ImplementsDirectory == Directory!DirectorySpec
==============================================================================
