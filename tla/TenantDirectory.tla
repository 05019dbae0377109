--------------------------- MODULE TenantDirectory ---------------------------
(***************************************************************************)
(* What administrators and members may expect of the tenant memberships:   *)
(* every column of a membership is an atomic register. A call is admitted  *)
(* at one moment after it was made, at which its caller is entitled to it; *)
(* it then writes each column it is about once, atomically; and it is      *)
(* answered with success only when it has written them all. Nothing is     *)
(* promised about the two columns together: the roles and the activity two *)
(* overlapping calls ask for may mix.                                      *)
(***************************************************************************)
EXTENDS MembershipCalls

VARIABLES
  mode,     \* the authentication mode of the process
  active,   \* is the actor a member of the tenant?
  roles,    \* the actor's roles in the tenant
  op        \* the operation each request performs

directoryVars == <<mode, active, roles, op>>

Columns == {"active", "roles"}

\* The columns a call writes.
Due(c) ==
  IF c.kind = "grant" THEN Columns
  ELSE IF c.kind = "deactivate" THEN {"active"} ELSE {}

Operation ==
  [phase : {"idle", "called", "admitted", "answered"}, call : Calls,
   written : SUBSET Columns, ok : BOOLEAN]

(***************************************************************************)
(* In local mode the headers are believed; otherwise the membership of the *)
(* moment decides, and what the token claims about roles does not count.   *)
(***************************************************************************)
Entitled(c) ==
  /\ c.credential = "valid"
  /\ SameTenant(c)
  /\ IF mode = "local"
     THEN HasRole(c, c.claims)
     ELSE active[Self(c)] /\ HasRole(c, roles[Self(c)])

DirectoryInit ==
  /\ mode \in Modes
  /\ active \in [Keys -> BOOLEAN]
  /\ roles \in [Keys -> SUBSET Roles]
  /\ op = [r \in Requests |-> [phase |-> "idle", call |-> AnyCall,
                               written |-> {}, ok |-> FALSE]]

New(c) == [phase |-> "called", call |-> c, written |-> {}, ok |-> FALSE]

Answered(o, success) ==
  [phase |-> "answered", call |-> o.call, written |-> {}, ok |-> success]

\* A call is made; it may be turned away at once.
Called(r, c) ==
  /\ op[r].phase = "idle"
  /\ \/ op' = [op EXCEPT ![r] = New(c)]
     \/ op' = [op EXCEPT ![r] = Answered(New(c), FALSE)]
  /\ UNCHANGED <<mode, active, roles>>

Admit(r) ==
  /\ op[r].phase = "called"
  /\ Entitled(op[r].call)
  /\ op' = [op EXCEPT ![r].phase = "admitted"]
  /\ UNCHANGED <<mode, active, roles>>

\* Write some columns at once. A call may be answered with an error, though
\* its write took effect.
Write(r, columns) ==
  LET c == op[r].call IN
  /\ op[r].phase = "admitted"
  /\ columns \subseteq Due(c) \ op[r].written
  /\ active' = IF "active" \in columns
               THEN [active EXCEPT ![Target(c)] = (c.kind = "grant")] ELSE active
  /\ roles' = IF "roles" \in columns
              THEN [roles EXCEPT ![Target(c)] = c.roles] ELSE roles
  /\ \/ op' = [op EXCEPT ![r].written = @ \cup columns]
     \/ op' = [op EXCEPT ![r] = Answered(@, FALSE)]
  /\ UNCHANGED mode

Succeed(r) ==
  LET c == op[r].call IN
  /\ op[r].phase = "admitted"
  /\ op[r].written = Due(c)
  /\ c.kind = "status" => Owner[c.document] = c.home
  /\ op' = [op EXCEPT ![r] = Answered(@, TRUE)]
  /\ UNCHANGED <<mode, active, roles>>

Reject(r) ==
  /\ op[r].phase \in {"called", "admitted"}
  /\ op' = [op EXCEPT ![r] = Answered(@, FALSE)]
  /\ UNCHANGED <<mode, active, roles>>

DirectoryNext ==
  \E r \in Requests :
    \/ \E c \in Calls : Called(r, c)
    \/ Admit(r)
    \/ \E columns \in SUBSET Columns : Write(r, columns)
    \/ Succeed(r)
    \/ Reject(r)

DirectorySpec == DirectoryInit /\ [][DirectoryNext]_directoryVars
==============================================================================
