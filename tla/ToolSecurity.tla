---------------------------- MODULE ToolSecurity ----------------------------
(***************************************************************************)
(* AuthorizedToolExecutor over PostgresAuditSink: the decision about a tool *)
(* call is written to the audit trail, in a transaction of its own, before *)
(* the caller learns of it. An executor's calls share the session of its   *)
(* sink, one call at a time. A session whose flush failed refuses to work  *)
(* until it is rolled back, which nobody does.                             *)
(***************************************************************************)
EXTENDS Integers, Sequences

CONSTANTS
  Invocations,     \* the calls of execute
  Tools,
  AllowedTools,    \* ToolPolicy.allowed_tools
  ApprovalTools    \* ToolPolicy.approval_required_tools

VARIABLES
  invocation,   \* each call of execute, and how it ended
  trail,        \* the committed audit events, in order
  session       \* "ready", or "inactive" after an error

securityVars == <<invocation, trail, session>>

ASSUME ToolSecurityAssumption == AllowedTools \subseteq Tools

Outcomes == {"pending", "returned", "not_allowed", "approval_required", "audit_error"}

NoTool == "none"

SecurityInit ==
  /\ invocation = [i \in Invocations |->
                     [tool |-> NoTool, approved |-> FALSE, outcome |-> "pending"]]
  /\ trail = <<>>
  /\ session = "ready"

Allows(tool) == tool \in AllowedTools

\* An approval is given by the identifier the caller passes.
ApprovalMissing(tool, approved) == tool \in ApprovalTools /\ ~approved

\* Mutant of Reason: the event does not tell that an approval was missing.
ReasonOfPolicy(tool, approved) ==
  IF ~Allows(tool) THEN "not_allowlisted" ELSE "none"

Reason(tool, approved) ==
  IF ~Allows(tool) THEN "not_allowlisted"
  ELSE IF ApprovalMissing(tool, approved) THEN "approval_missing" ELSE "none"

\* A missing approval does not make the recorded event disallowed: its reason
\* alone tells.
Event(i, tool, approved) ==
  [of |-> i, allowed |-> Allows(tool), reason |-> Reason(tool, approved)]

Verdict(tool, approved) ==
  IF ~Allows(tool) THEN "not_allowed"
  ELSE IF ApprovalMissing(tool, approved) THEN "approval_required" ELSE "returned"

Concluded(i, tool, approved, outcome) ==
  /\ invocation[i].outcome = "pending"
  /\ invocation' = [invocation EXCEPT ![i] =
                      [tool |-> tool, approved |-> approved, outcome |-> outcome]]

\* execute, when write commits and returns.
Execute(i, tool, approved) ==
  /\ session = "ready"
  /\ Concluded(i, tool, approved, Verdict(tool, approved))
  /\ trail' = Append(trail, Event(i, tool, approved))
  /\ UNCHANGED session

\* execute, when write raises before the event is committed.
AuditFails(i, tool, approved) ==
  /\ session = "ready"
  /\ Concluded(i, tool, approved, "audit_error")
  /\ session' \in {"ready", "inactive"}
  /\ UNCHANGED trail

\* execute, when the reply to the commit of write is lost.
AuditReplyLost(i, tool, approved) ==
  /\ session = "ready"
  /\ Concluded(i, tool, approved, "audit_error")
  /\ trail' = Append(trail, Event(i, tool, approved))
  /\ session' \in {"ready", "inactive"}

\* execute, when the sink's session awaits a rollback.
SessionRefuses(i, tool, approved) ==
  /\ session = "inactive"
  /\ Concluded(i, tool, approved, "audit_error")
  /\ UNCHANGED <<trail, session>>

SecurityNext ==
  \E i \in Invocations, tool \in Tools, approved \in BOOLEAN :
    \/ Execute(i, tool, approved)
    \/ AuditFails(i, tool, approved)
    \/ AuditReplyLost(i, tool, approved)
    \/ SessionRefuses(i, tool, approved)

\* The trail and the callers agree: whoever learned of a decision finds it in
\* the trail once, a tool ran only for an event without a reason to refuse, and
\* a refusal has its reason there (tool_security.py, audit_repository.py).
AuditTellsOutcome ==
  /\ \A m, n \in DOMAIN trail : trail[m].of = trail[n].of => m = n
  /\ \A i \in Invocations :
       LET events == {trail[n] : n \in {m \in DOMAIN trail : trail[m].of = i}} IN
       CASE invocation[i].outcome = "returned" ->
              \E e \in events : e.allowed /\ e.reason = "none"
         [] invocation[i].outcome \in {"not_allowed", "approval_required"} ->
              \E e \in events : e.reason # "none"
         [] invocation[i].outcome = "pending" -> events = {}
         [] OTHER -> TRUE
==============================================================================
