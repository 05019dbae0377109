-------------------------- MODULE MembershipProofs --------------------------
(***************************************************************************)
(* For any tenants, actors, calls, seeds and faults: the memberships keep  *)
(* their types, an undisputed deactivation holds, and the handlers         *)
(* implement the directory of atomic columns.                              *)
(***************************************************************************)
EXTENDS Membership, TLAPS

(***************************************************************************)
(* The inductive invariant. What authorization and the SELECT established  *)
(* still holds of the call when the handler gets to its commit and answer. *)
(***************************************************************************)
CallInv(r) ==
  LET c == request[r].call
      row == request[r].row
  IN /\ InFlight(r) => c.credential = "valid"
     /\ request[r].pc \in {"select", "commit", "answer"} => SameTenant(c)
     /\ row.exists \/ row = NoRow
     /\ AccessAt(r, "commit") => c.kind = "grant" \/ (c.kind = "deactivate" /\ row.exists)
     /\ AccessAt(r, "answer") /\ c.kind = "status" => Owner[c.document] = c.tenant
     /\ ~AccessAt(r, "done") => request[r].status = NoStatus

\* The actor is out as far as r can tell: r answered, is about to, or has
\* selected a row that needs no change.
HasRevoked(r) ==
  \/ request[r].status = 204
  \/ AccessAt(r, "answer")
  \/ AccessAt(r, "commit") /\ ~request[r].row.active

\* No grant that could bring the actor back is under way.
RevocationInv(r) ==
  LET c == request[r].call IN
  /\ c.kind = "deactivate"
  /\ ~AccessAt(r, "idle")
  /\ \A g \in Rivals("grant", c) : ~InFlight(g)
  /\ HasRevoked(r) => ~member[Target(c)].active

MembershipInv ==
  /\ TypeOK
  /\ \A r \in Requests : CallInv(r)
  /\ \A r \in undisputed : RevocationInv(r)

-----------------------------------------------------------------------------

LEMMA CallType ==
  ASSUME NEW c \in Calls
  PROVE  /\ c \in Call
         /\ c.kind \in Kinds
         /\ Target(c) \in Keys
         /\ Self(c) \in Keys
BY CallsAssumption DEF Call, Target, Self, Keys

LEMMA NoRowType == NoRow \in Row
BY DEF NoRow, Row

LEMMA AnyCallType == AnyCall \in Calls
BY CallsAssumption DEF AnyCall

LEMMA RowType ==
  ASSUME TypeOK, NEW k \in Keys
  PROVE  /\ member[k] \in Row
         /\ member[k].exists \/ member[k] = NoRow
BY DEF TypeOK, IsTable

\* What a commit writes is a row that exists.
LEMMA CommittedType ==
  ASSUME TypeOK, NEW r \in Requests
  PROVE  /\ Committed(r) \in Row
         /\ Committed(r).exists
<1> DEFINE c == request[r].call
<1>1. c \in Calls /\ request[r].row \in Row
  BY DEF TypeOK
<1>2. c.roles \in SUBSET Roles
  BY <1>1, CallType DEF Call
<1>3. member[Target(c)] \in Row
  BY <1>1, CallType, RowType
<1> QED BY <1>1, <1>2, <1>3 DEF Committed, Row, Desired

LEMMA UndisputedType ==
  ASSUME TypeOK, NEW r \in Requests, NEW c \in Calls
  PROVE  Undisputed(r, c) \subseteq Requests
BY DEF TypeOK, Undisputed

(***************************************************************************)
(* The requests' records after a step of one of them.                      *)
(***************************************************************************)
Record == [pc : AccessPc, call : Calls, row : Row, status : Status]

LEMMA EndedType ==
  ASSUME TypeOK, NEW r \in Requests, NEW s \in Status
  PROVE  Ended(r, s) \in [Requests -> Record]
BY NoRowType DEF TypeOK, Ended, Record, AccessPc

LEMMA MovedType ==
  ASSUME TypeOK, NEW r \in Requests
  PROVE  /\ [request EXCEPT ![r].pc = "select"] \in [Requests -> Record]
         /\ [request EXCEPT ![r].pc = "answer"] \in [Requests -> Record]
BY DEF TypeOK, Record, AccessPc

LEMMA TypeInit == MembershipInit => TypeOK
BY NoRowType, AnyCallType, MembershipAssumption
   DEF MembershipInit, TypeOK, AccessPc, Status, NoStatus

LEMMA TypeStep ==
  ASSUME TypeOK, MembershipNext
  PROVE  TypeOK'
<1>1. ASSUME NEW r \in Requests, NEW c \in Calls, Arrive(r, c)
      PROVE  TypeOK'
  <2>1. request' \in [Requests -> Record]
    <3>1. Ended(r, 401) \in [Requests -> Record]
      BY EndedType DEF Status
    <3> QED BY <1>1, <3>1, SMTT(30) DEF Arrive, TypeOK, Record, AccessPc
  <2> QED BY <1>1, <2>1, UndisputedType DEF Arrive, TypeOK, Record
<1>2. ASSUME NEW r \in Requests, AccessStep(r)
      PROVE  TypeOK'
  <2>0. /\ Ended(r, 403) \in [Requests -> Record]
        /\ Ended(r, 404) \in [Requests -> Record]
        /\ Ended(r, 500) \in [Requests -> Record]
        /\ Ended(r, 200) \in [Requests -> Record]
        /\ Ended(r, 204) \in [Requests -> Record]
    BY EndedType DEF Status
  <2>m. /\ [request EXCEPT ![r].pc = "select"] \in [Requests -> Record]
        /\ [request EXCEPT ![r].pc = "answer"] \in [Requests -> Record]
    BY MovedType
  <2>1. CASE Authorize(r)
    <3>1. request' \in [Requests -> Record]
      BY <2>0, <2>1, <2>m DEF Authorize
    <3> QED BY <2>1, <3>1 DEF Authorize, TypeOK, Record
  <2>2. CASE SelectForGrant(r)
    <3>1. member[Target(request[r].call)] \in Row
      BY CallType, RowType DEF TypeOK
    <3> QED BY <2>2, <3>1 DEF SelectForGrant, TypeOK, AccessPc, Record
  <2>3. CASE SelectForDeactivation(r)
    <3>1. member[Target(request[r].call)] \in Row
      BY CallType, RowType DEF TypeOK
    <3>2. PICK pc \in {"commit", "answer"} :
            request' = [request EXCEPT ![r].pc = pc, ![r].row = member[Target(request[r].call)]]
      BY <2>3 DEF SelectForDeactivation
    <3>3. request \in [Requests -> Record] /\ pc \in AccessPc
      BY DEF TypeOK, AccessPc, Record
    <3>4. request' \in [Requests -> Record]
      BY <3>1, <3>2, <3>3 DEF Record
    <3> QED BY <2>3, <3>4 DEF SelectForDeactivation, TypeOK, Record
  <2>4. CASE SelectJobStatus(r)
    <3>1. request' \in [Requests -> Record]
      BY <2>0, <2>4, <2>m DEF SelectJobStatus
    <3> QED BY <2>4, <3>1 DEF SelectJobStatus, TypeOK, Record
  <2>5. CASE Commit(r)
    <3>1. IsTable(member')
      BY <2>5, CommittedType DEF Commit, TypeOK, IsTable
    <3>2. request' \in [Requests -> Record]
      BY <2>0, <2>5, <2>m DEF Commit
    <3> QED BY <2>5, <3>1, <3>2 DEF Commit, TypeOK, Record
  <2>6. CASE Collide(r)
    BY <2>0, <2>6 DEF Collide, AccessEnd, TypeOK, Record
  <2>7. CASE AccessFails(r)
    BY <2>0, <2>7 DEF AccessFails, AccessEnd, TypeOK, Record
  <2>8. CASE Answer(r)
    BY <2>0, <2>8 DEF Answer, AccessEnd, TypeOK, Record
  <2> QED BY <1>2, <2>1, <2>2, <2>3, <2>4, <2>5, <2>6, <2>7, <2>8 DEF AccessStep
<1> QED BY <1>1, <1>2 DEF MembershipNext

(***************************************************************************)
(* The table holds one row at most for each actor of a tenant, with roles  *)
(* of the declared ones, and a handler holds in memory the row it selected *)
(* and nothing else (membership_repository.py).                            *)
(***************************************************************************)
THEOREM MembershipTypeCorrect == MembershipSpec => []TypeOK
<1>1. TypeOK /\ [MembershipNext]_membershipVars => TypeOK'
  <2>1. ASSUME TypeOK, UNCHANGED membershipVars
        PROVE  TypeOK'
    BY <2>1 DEF TypeOK, membershipVars
  <2> QED BY <2>1, TypeStep
<1> QED BY <1>1, TypeInit, PTL DEF MembershipSpec

(***************************************************************************)
(* What a step of request r leaves alone.                                  *)
(***************************************************************************)
LEMMA CallInvElsewhere ==
  ASSUME NEW x \in Requests, request'[x] = request[x], CallInv(x)
  PROVE  CallInv(x)'
BY DEF CallInv, InFlight, AccessAt

LEMMA EndedRecord ==
  ASSUME TypeOK, NEW r \in Requests, NEW s \in Status, request' = Ended(r, s)
  PROVE  /\ \A x \in Requests \ {r} : request'[x] = request[x]
         /\ request'[r].pc = "done"
         /\ request'[r].row = NoRow
         /\ request'[r].status = s
         /\ request'[r].call = request[r].call
BY DEF TypeOK, Ended

LEMMA EndedCallInv ==
  ASSUME TypeOK, \A x \in Requests : CallInv(x),
         NEW r \in Requests, NEW s \in Status, request' = Ended(r, s)
  PROVE  \A x \in Requests : CallInv(x)'
<1>1. CallInv(r)'
  BY EndedRecord DEF CallInv, InFlight, AccessAt
<1>2. ASSUME NEW x \in Requests \ {r} PROVE CallInv(x)'
  BY <1>2, EndedRecord, CallInvElsewhere
<1> QED BY <1>1, <1>2

\* A step of r that leaves the table, does not start r, and lets it believe
\* that it revoked only what is revoked.
LEMMA QuietRevocation ==
  ASSUME MembershipInv, NEW r \in Requests,
         member' = member, undisputed' = undisputed,
         \A x \in Requests \ {r} : request'[x] = request[x],
         request'[r].call = request[r].call,
         InFlight(r), ~AccessAt(r, "idle")',
         r \in undisputed /\ HasRevoked(r)' => ~member[Target(request[r].call)].active
  PROVE  \A x \in undisputed' : RevocationInv(x)'
<1> TAKE x \in undisputed'
<1>1. x \in undisputed /\ x \in Requests /\ RevocationInv(x)
  BY DEF MembershipInv, TypeOK
<1>2. request'[x].call = request[x].call
  BY <1>1
<1>3. \A g \in Requests : InFlight(g)' => InFlight(g)
  BY DEF InFlight
<1>4. \A g \in Requests : request'[g].call = request[g].call
  OBVIOUS
<1>5. ~AccessAt(x, "idle")'
  BY <1>1 DEF RevocationInv, AccessAt
<1>6. (\A g \in Rivals("grant", request[x].call) : ~InFlight(g))'
  BY <1>1, <1>2, <1>3, <1>4 DEF RevocationInv, Rivals
<1>7. HasRevoked(x)' => ~member'[Target(request'[x].call)].active
  <2>1. CASE x = r
    BY <1>1, <1>2, <2>1
  <2>2. CASE x # r
    <3>1. HasRevoked(x)' => HasRevoked(x)
      BY <1>1, <2>2 DEF HasRevoked, AccessAt
    <3> QED BY <1>1, <1>2, <3>1 DEF RevocationInv
  <2> QED BY <2>1, <2>2
<1> QED BY <1>1, <1>2, <1>5, <1>6, <1>7 DEF RevocationInv

LEMMA EndedRevocation ==
  ASSUME MembershipInv, NEW r \in Requests, NEW s \in Status, InFlight(r),
         member' = member, undisputed' = undisputed, request' = Ended(r, s),
         s = 204 /\ r \in undisputed => HasRevoked(r)
  PROVE  \A x \in undisputed' : RevocationInv(x)'
<1> USE DEF MembershipInv
<1>1. ~AccessAt(r, "idle")'
  BY EndedRecord DEF AccessAt
<1>2. r \in undisputed /\ HasRevoked(r)' => ~member[Target(request[r].call)].active
  <2>1. HasRevoked(r)' => s = 204
    BY EndedRecord DEF HasRevoked, AccessAt
  <2> QED BY <2>1 DEF RevocationInv
<1>3. /\ \A x \in Requests \ {r} : request'[x] = request[x]
      /\ request'[r].call = request[r].call
  BY EndedRecord
<1> QED BY <1>1, <1>2, <1>3, QuietRevocation

\* The end of a handler without a 204.
LEMMA EndedInv ==
  ASSUME MembershipInv, TypeOK', NEW r \in Requests, NEW s \in Status, InFlight(r),
         member' = member, undisputed' = undisputed, request' = Ended(r, s),
         s = 204 /\ r \in undisputed => HasRevoked(r)
  PROVE  MembershipInv'
<1>1. \A x \in Requests : CallInv(x)'
  BY EndedCallInv DEF MembershipInv
<1>2. \A x \in undisputed' : RevocationInv(x)'
  BY EndedRevocation
<1> QED BY <1>1, <1>2 DEF MembershipInv

\* A handler that goes on to the next await.
LEMMA MovedInv ==
  ASSUME MembershipInv, TypeOK', NEW r \in Requests,
         member' = member, undisputed' = undisputed,
         \A x \in Requests \ {r} : request'[x] = request[x],
         request'[r].call = request[r].call,
         InFlight(r), CallInv(r)', ~AccessAt(r, "idle")',
         r \in undisputed /\ HasRevoked(r)' => ~member[Target(request[r].call)].active
  PROVE  MembershipInv'
<1>1. ASSUME NEW x \in Requests PROVE CallInv(x)'
  BY <1>1, CallInvElsewhere DEF MembershipInv
<1>2. \A x \in undisputed' : RevocationInv(x)'
  BY QuietRevocation
<1> QED BY <1>1, <1>2 DEF MembershipInv

\* A request arrives: a deactivation is undisputed from then on if no grant of
\* the membership is under way; a grant disputes every one of its membership.
LEMMA ArriveInv ==
  ASSUME MembershipInv, TypeOK', NEW r \in Requests, NEW c \in Calls, Arrive(r, c)
  PROVE  MembershipInv'
<1> USE DEF MembershipInv, AccessAt
<1>1. /\ \A x \in Requests \ {r} : request'[x] = request[x]
      /\ request'[r].call = c
      /\ request'[r].status \in {NoStatus, 401}
      /\ request[r].pc = "idle" /\ request[r].status = NoStatus
      /\ request'[r].row.exists \/ request'[r].row = NoRow
      /\ \/ request'[r].pc = "done"
         \/ /\ request'[r].pc = "authorize" /\ request'[r].status = NoStatus
            /\ c.credential = "valid"
  <2>1. request[r].pc = "idle" /\ request[r].status = NoStatus /\ CallInv(r)
    BY DEF Arrive, CallInv
  <2>2. CASE c.credential # "valid"
    <3>1. request' = [Ended(r, 401) EXCEPT ![r].call = c]
      BY <2>2 DEF Arrive
    <3> QED BY <2>1, <3>1 DEF Ended, TypeOK
  <2>3. CASE c.credential = "valid"
    <3>1. request' = [request EXCEPT ![r].pc = "authorize", ![r].call = c]
      BY <2>3 DEF Arrive
    <3> QED BY <2>1, <2>3, <3>1 DEF CallInv, TypeOK
  <2> QED BY <2>2, <2>3
<1>2. ASSUME NEW x \in Requests PROVE CallInv(x)'
  <2>1. CASE x = r
    BY <1>1, <2>1 DEF CallInv, InFlight
  <2>2. CASE x # r
    BY <1>1, <2>2, CallInvElsewhere
  <2> QED BY <2>1, <2>2
<1>3. ASSUME NEW x \in undisputed' PROVE RevocationInv(x)'
  <2>0. x \in undisputed \cup {r} /\ x \in Requests /\ member' = member
    BY <1>3, UndisputedType DEF Arrive, Undisputed, TypeOK
  <2>1. CASE x = r
    <3>0. r \notin undisputed
      BY <1>1 DEF RevocationInv
    <3>1. c.kind = "deactivate" /\ ~\E g \in Rivals("grant", c) : InFlight(g)
      BY <1>3, <2>1, <3>0 DEF Arrive, Undisputed
    <3>2. ~HasRevoked(r)'
      BY <1>1 DEF HasRevoked, NoStatus
    <3>3. (\A g \in Rivals("grant", c) : ~InFlight(g))'
      BY <1>1, <3>1 DEF Rivals, InFlight
    <3> QED BY <1>1, <2>1, <3>1, <3>2, <3>3 DEF RevocationInv
  <2>2. CASE x # r
    <3>1. x \in undisputed /\ RevocationInv(x) /\ request'[x] = request[x]
      BY <1>1, <2>0, <2>2
    <3>2. c.kind = "grant" => Target(request[x].call) # Target(c)
      <4> SUFFICES ASSUME c.kind = "grant"
                   PROVE  Target(request[x].call) # Target(c)
        OBVIOUS
      <4>1. undisputed' = undisputed \ Rivals("deactivate", c)
        BY DEF Arrive, Undisputed
      <4>2. x \notin Rivals("deactivate", c)
        BY <1>3, <4>1
      <4> QED BY <2>0, <3>1, <4>2 DEF Rivals, RevocationInv
    <3>3. (\A g \in Rivals("grant", request[x].call) : ~InFlight(g))'
      <4> SUFFICES ASSUME NEW g \in Requests, request'[g].call.kind = "grant",
                          Target(request'[g].call) = Target(request'[x].call)
                   PROVE  ~InFlight(g)'
        BY DEF Rivals
      <4>1. CASE g = r
        BY <1>1, <3>1, <3>2, <4>1
      <4>2. CASE g # r
        BY <1>1, <3>1, <4>2 DEF RevocationInv, Rivals, InFlight
      <4> QED BY <4>1, <4>2
    <3>4. HasRevoked(x)' => HasRevoked(x)
      BY <3>1 DEF HasRevoked
    <3> QED BY <2>0, <3>1, <3>3, <3>4 DEF RevocationInv
  <2> QED BY <2>1, <2>2
<1> QED BY <1>2, <1>3

\* The commit: of a request that is no grant, or of a membership without
\* undisputed deactivations.
LEMMA CommitInv ==
  ASSUME MembershipInv, TypeOK', NEW r \in Requests, Commit(r)
  PROVE  MembershipInv'
<1> USE DEF MembershipInv, AccessAt
<1> DEFINE t == Target(request[r].call)
<1>0. t \in Keys /\ member \in [Keys -> Row] /\ undisputed' = undisputed
  BY CallType DEF TypeOK, IsTable, Commit
<1>1. /\ \A x \in Requests \ {r} : request'[x] = request[x]
      /\ request'[r].call = request[r].call
      /\ \/ request'[r].pc = "answer" /\ request'[r].status = NoStatus
         \/ request'[r].pc = "done" /\ request'[r].status = 500
      /\ request'[r].row.exists \/ request'[r].row = NoRow
      /\ request[r].pc = "commit"
  <2>1. CASE request' = [request EXCEPT ![r].pc = "answer"]
    BY <2>1 DEF Commit, TypeOK, CallInv
  <2>2. CASE request' = Ended(r, 500)
    <3>1. 500 \in Status
      BY DEF Status
    <3> QED BY <2>2, <3>1, EndedRecord DEF Commit
  <2> QED BY <2>1, <2>2 DEF Commit
<1>2. \A k \in Keys \ {t} : member'[k] = member[k]
  BY <1>0 DEF Commit
<1>3. member'[t] = Committed(r)
  BY <1>0 DEF Commit
<1>4. CallInv(r)
  OBVIOUS
<1>5. ASSUME NEW x \in Requests PROVE CallInv(x)'
  <2>1. CASE x = r
    BY <1>1, <1>4, <2>1 DEF CallInv, InFlight
  <2>2. CASE x # r
    BY <1>1, <2>2, CallInvElsewhere
  <2> QED BY <2>1, <2>2
<1>6. ASSUME NEW x \in undisputed' PROVE RevocationInv(x)'
  <2>1. x \in undisputed /\ x \in Requests /\ RevocationInv(x)
    BY <1>0, <1>6 DEF TypeOK
  <2>2. request'[x].call = request[x].call /\ Target(request[x].call) \in Keys
    BY <1>1, <2>1, CallType DEF TypeOK
  <2>3. \A g \in Requests : InFlight(g)' => InFlight(g)
    BY <1>1 DEF InFlight
  <2>4. (\A g \in Rivals("grant", request[x].call) : ~InFlight(g))'
    BY <1>1, <2>1, <2>2, <2>3 DEF RevocationInv, Rivals
  <2>5. ~AccessAt(x, "idle")'
    BY <1>1, <2>1 DEF RevocationInv
  <2>6. HasRevoked(x)' => ~member'[Target(request[x].call)].active
    <3>1. x # r => (HasRevoked(x)' <=> HasRevoked(x))
      BY <1>1, <2>1 DEF HasRevoked
    <3>2. CASE Target(request[x].call) # t
      BY <1>1, <1>2, <2>1, <2>2, <3>1, <3>2 DEF RevocationInv
    <3>3. CASE Target(request[x].call) = t
      <4>1. request[r].call.kind = "deactivate" /\ request[r].row.exists
        BY <1>1, <1>4, <2>1, <3>3 DEF CallInv, RevocationInv, Rivals, InFlight
      <4>2. Committed(r).active
              = IF request[r].row.active # FALSE THEN FALSE ELSE member[t].active
        BY <4>1 DEF Committed, Desired
      <4>3. x = r => (request[r].row.active \/ ~member[t].active)
        BY <1>1, <2>1, <3>3 DEF RevocationInv, HasRevoked
      <4>4. x # r /\ HasRevoked(x)' => ~member[t].active
        BY <2>1, <3>1, <3>3 DEF RevocationInv
      <4>5. request[r].row.active \in BOOLEAN
        BY DEF TypeOK, Row
      <4> QED BY <1>3, <3>3, <4>2, <4>3, <4>4, <4>5
    <3> QED BY <3>2, <3>3
  <2> QED BY <2>1, <2>2, <2>4, <2>5, <2>6 DEF RevocationInv
<1> QED BY <1>5, <1>6

LEMMA StepInv ==
  ASSUME MembershipInv, TypeOK', NEW r \in Requests, AccessStep(r)
  PROVE  MembershipInv'
<1> USE DEF AccessAt
<1>0. CallInv(r) /\ 200 \in Status /\ 204 \in Status /\ 403 \in Status
        /\ 404 \in Status /\ 500 \in Status
  BY DEF MembershipInv, Status
<1>t. /\ request \in [Requests -> Record]
      /\ \A k \in Keys : member[k].exists \/ member[k] = NoRow
      /\ Target(request[r].call) \in Keys
  BY CallType, RowType DEF MembershipInv, TypeOK, Record
<1>1. CASE Authorize(r)
  <2>0. InFlight(r) /\ member' = member /\ undisputed' = undisputed
    BY <1>1 DEF Authorize, InFlight
  <2>1. CASE request' = Ended(r, 403) \/ request' = Ended(r, 500)
    BY <1>0, <2>0, <2>1, EndedInv
  <2>2. CASE /\ SameTenant(request[r].call)
             /\ request' = [request EXCEPT ![r].pc = "select"]
    <3>1. /\ \A x \in Requests \ {r} : request'[x] = request[x]
          /\ request'[r] = [request[r] EXCEPT !.pc = "select"]
      BY <1>t, <2>2
    <3>2. request'[r].call = request[r].call /\ ~AccessAt(r, "idle")'
      BY <1>t, <3>1 DEF Record
    <3>3. CallInv(r)' /\ ~HasRevoked(r)'
      BY <1>0, <1>1, <1>t, <2>2, <3>1 DEF CallInv, InFlight, HasRevoked, Authorize, Record, NoStatus
    <3> QED BY <2>0, <3>1, <3>2, <3>3, MovedInv
  <2> QED BY <1>1, <2>1, <2>2 DEF Authorize
<1>2. CASE SelectForGrant(r)
  <2>0. InFlight(r) /\ member' = member /\ undisputed' = undisputed
    BY <1>2 DEF SelectForGrant, InFlight
  <2>1. /\ \A x \in Requests \ {r} : request'[x] = request[x]
        /\ request'[r] = [request[r] EXCEPT !.pc = "commit",
                                            !.row = member[Target(request[r].call)]]
    BY <1>2, <1>t DEF SelectForGrant
  <2>2. request'[r].call = request[r].call /\ ~AccessAt(r, "idle")'
    BY <1>t, <2>1 DEF Record
  <2>3. CallInv(r)' /\ r \notin undisputed
    BY <1>0, <1>2, <1>t, <2>1
       DEF CallInv, InFlight, SelectForGrant, Record, MembershipInv, RevocationInv
  <2> QED BY <2>0, <2>1, <2>2, <2>3, MovedInv
<1>3. CASE SelectForDeactivation(r)
  <2> DEFINE row == member[Target(request[r].call)]
  <2>0. InFlight(r) /\ member' = member /\ undisputed' = undisputed
    BY <1>3 DEF SelectForDeactivation, InFlight
  <2>1. /\ \A x \in Requests \ {r} : request'[x] = request[x]
        /\ request'[r] = [request[r] EXCEPT !.pc = IF row.exists THEN "commit" ELSE "answer",
                                            !.row = row]
    BY <1>3, <1>t DEF SelectForDeactivation
  <2>2. request'[r].call = request[r].call /\ ~AccessAt(r, "idle")'
    BY <1>t, <2>1 DEF Record
  <2>3. CallInv(r)'
    BY <1>0, <1>3, <1>t, <2>1 DEF CallInv, InFlight, SelectForDeactivation, Record
  <2>4. HasRevoked(r)' => ~row.active
    BY <1>0, <1>3, <1>t, <2>1
       DEF HasRevoked, CallInv, SelectForDeactivation, Record, NoRow, NoStatus
  <2> QED BY <2>0, <2>1, <2>2, <2>3, <2>4, MovedInv
<1>4. CASE SelectJobStatus(r)
  <2>0. InFlight(r) /\ member' = member /\ undisputed' = undisputed
    BY <1>4 DEF SelectJobStatus, InFlight
  <2>1. CASE request' = Ended(r, 404)
    BY <1>0, <2>0, <2>1, EndedInv
  <2>2. CASE /\ Owner[request[r].call.document] = request[r].call.tenant
             /\ request' = [request EXCEPT ![r].pc = "answer"]
    <3>1. /\ \A x \in Requests \ {r} : request'[x] = request[x]
          /\ request'[r] = [request[r] EXCEPT !.pc = "answer"]
      BY <1>t, <2>2
    <3>2. request'[r].call = request[r].call /\ ~AccessAt(r, "idle")'
      BY <1>t, <3>1 DEF Record
    <3>3. CallInv(r)' /\ r \notin undisputed
      BY <1>0, <1>4, <1>t, <2>2, <3>1
         DEF CallInv, InFlight, SelectJobStatus, Record, MembershipInv, RevocationInv
    <3> QED BY <2>0, <3>1, <3>2, <3>3, MovedInv
  <2> QED BY <1>4, <2>1, <2>2 DEF SelectJobStatus
<1>5. CASE Commit(r)
  BY <1>5, CommitInv
<1>6. CASE Collide(r)
  BY <1>0, <1>6, EndedInv DEF Collide, AccessEnd, InFlight
<1>7. CASE AccessFails(r)
  <2>1. InFlight(r)
    BY <1>7, MembershipAssumption DEF AccessFails, InFlight
  <2> QED BY <1>0, <1>7, <2>1, EndedInv DEF AccessFails, AccessEnd
<1>8. CASE Answer(r)
  <2>1. InFlight(r) /\ HasRevoked(r)
    BY <1>8 DEF Answer, InFlight, HasRevoked
  <2>2. \/ request' = Ended(r, 200)
        \/ request' = Ended(r, 204)
    BY <1>8 DEF Answer, AccessEnd
  <2> QED BY <1>0, <1>8, <2>1, <2>2, EndedInv DEF Answer, AccessEnd
<1> QED BY <1>1, <1>2, <1>3, <1>4, <1>5, <1>6, <1>7, <1>8 DEF AccessStep

LEMMA MembershipInvHolds == MembershipSpec => []MembershipInv
<1>1. MembershipInit => MembershipInv
  BY TypeInit, NoRowType
     DEF MembershipInit, MembershipInv, CallInv, AccessAt, InFlight
<1>2. MembershipInv /\ [MembershipNext]_membershipVars => MembershipInv'
  <2>1. ASSUME MembershipInv, MembershipNext
        PROVE  MembershipInv'
    <3>1. TypeOK'
      BY <2>1, TypeStep DEF MembershipInv
    <3> QED BY <2>1, <3>1, ArriveInv, StepInv DEF MembershipNext
  <2>2. ASSUME MembershipInv, UNCHANGED membershipVars
        PROVE  MembershipInv'
    <3>1. /\ member' = member /\ request' = request
          /\ undisputed' = undisputed /\ mode' = mode
      BY <2>2 DEF membershipVars
    <3>2. TypeOK'
      BY <2>2, <3>1 DEF MembershipInv, TypeOK
    <3>3. ASSUME NEW x \in Requests PROVE CallInv(x)'
      BY <2>2, <3>1, CallInvElsewhere DEF MembershipInv
    <3>4. ASSUME NEW x \in undisputed' PROVE RevocationInv(x)'
      <4>1. RevocationInv(x)
        BY <2>2, <3>1 DEF MembershipInv
      <4> QED BY <3>1, <4>1 DEF RevocationInv, InFlight, AccessAt, HasRevoked, Rivals
    <3> QED BY <3>2, <3>3, <3>4 DEF MembershipInv
  <2> QED BY <2>1, <2>2
<1> QED BY <1>1, <1>2, PTL DEF MembershipSpec

(***************************************************************************)
(* RevokedStaysOut for any number of requests, rows and faults: a commit   *)
(* writes only the columns that differ from the selected row, so that a    *)
(* handler holding an old row cannot bring back an actor whose             *)
(* deactivation was answered with 204 and that no grant overlapped or      *)
(* followed (deactivate_membership, upsert_membership).                    *)
(***************************************************************************)
THEOREM RevocationHolds == MembershipSpec => []RevokedStaysOut
<1>1. MembershipInv => RevokedStaysOut
  BY DEF MembershipInv, RevocationInv, HasRevoked, RevokedStaysOut
<1> QED BY <1>1, MembershipInvHolds, PTL

-----------------------------------------------------------------------------
(***************************************************************************)
(* The refinement. A step of r changes the operation of r alone.           *)
(***************************************************************************)
LEMMA OperationElsewhere ==
  ASSUME NEW x \in Requests, request'[x] = request[x]
  PROVE  OperationOf(x)' = OperationOf(x)
BY DEF OperationOf, PhaseOf, WrittenBy, Found, AccessAt

LEMMA OperationsChange ==
  ASSUME NEW r \in Requests, \A x \in Requests \ {r} : request'[x] = request[x]
  PROVE  Operations' = [Operations EXCEPT ![r] = OperationOf(r)']
<1>1. \A x \in Requests \ {r} : OperationOf(x)' = OperationOf(x)
  BY OperationElsewhere
<1>2. Operations' = [x \in Requests |-> OperationOf(x)']
  BY DEF Operations
<1>3. Operations = [x \in Requests |-> OperationOf(x)]
  BY DEF Operations
<1> QED BY <1>1, <1>2, <1>3

LEMMA ColumnsStay ==
  ASSUME member' = member
  PROVE  ActiveColumn' = ActiveColumn /\ RolesColumn' = RolesColumn
BY DEF ActiveColumn, RolesColumn

LEMMA OperationAt ==
  ASSUME NEW r \in Requests
  PROVE  /\ Operations[r] = OperationOf(r)
         /\ Operations[r].phase = PhaseOf(r)
         /\ Operations[r].call = request[r].call
         /\ Operations[r].written = WrittenBy(r)
BY DEF Operations, OperationOf

LEMMA Phases ==
  ASSUME NEW r \in Requests
  PROVE  /\ AccessAt(r, "idle") => PhaseOf(r) = "idle"
         /\ AccessAt(r, "authorize") => PhaseOf(r) = "called"
         /\ AccessAt(r, "done") => PhaseOf(r) = "answered"
         /\ request[r].pc \in {"select", "commit", "answer"} => PhaseOf(r) = "admitted"
BY DEF PhaseOf, AccessAt

\* A handler that ends has the operation answered.
LEMMA EndAnswers ==
  ASSUME TypeOK, NEW r \in Requests, NEW s \in Status, request' = Ended(r, s),
         NEW b \in BOOLEAN, b <=> s \in {200, 204}
  PROVE  Operations' = [Operations EXCEPT ![r] = Directory!Answered(@, b)]
<1>1. /\ \A x \in Requests \ {r} : request'[x] = request[x]
      /\ request'[r].pc = "done" /\ request'[r].status = s
      /\ request'[r].call = request[r].call
  BY EndedRecord
<1>2. PhaseOf(r)' = "answered" /\ WrittenBy(r)' = {}
  BY <1>1 DEF PhaseOf, WrittenBy, AccessAt
<1>3. (s \in {200, 204}) = b
  OBVIOUS
<1>4. OperationOf(r)' = [phase |-> "answered", call |-> request[r].call,
                         written |-> {}, ok |-> b]
  BY <1>1, <1>2, <1>3 DEF OperationOf
<1>5. Directory!Answered(Operations[r], b) = OperationOf(r)'
  BY <1>4, OperationAt DEF Directory!Answered
<1> QED BY <1>1, <1>5, OperationsChange

LEMMA EndRejects ==
  ASSUME TypeOK, NEW r \in Requests, NEW s \in {403, 404, 500}, InFlight(r),
         mode' = mode, member' = member, request' = Ended(r, s)
  PROVE  Directory!Reject(r)
<1> PICK b \in BOOLEAN : b = FALSE
  OBVIOUS
<1>1. s \in Status /\ (b <=> s \in {200, 204})
  BY DEF Status
<1>2. Operations' = [Operations EXCEPT ![r] = Directory!Answered(@, b)]
  BY <1>1, EndAnswers
<1>3. PhaseOf(r) \in {"called", "admitted"}
  BY Phases DEF TypeOK, InFlight, AccessAt, AccessPc
<1> QED BY <1>2, <1>3, ColumnsStay, OperationAt DEF Directory!Reject

LEMMA WrittenRecord ==
  ASSUME NEW p, NEW c, NEW w, NEW ok, NEW v,
         NEW o, o = [phase |-> p, call |-> c, written |-> w, ok |-> ok],
         NEW a, a = [o EXCEPT !.written = v]
  PROVE  a = [phase |-> p, call |-> c, written |-> v, ok |-> ok]
OBVIOUS

LEMMA PhaseRecord ==
  ASSUME NEW p, NEW c, NEW w, NEW ok, NEW q,
         NEW o, o = [phase |-> p, call |-> c, written |-> w, ok |-> ok],
         NEW a, a = [o EXCEPT !.phase = q]
  PROVE  a = [phase |-> q, call |-> c, written |-> w, ok |-> ok]
OBVIOUS

LEMMA OperationParts ==
  ASSUME NEW r \in Requests
  PROVE  OperationOf(r) = [phase |-> PhaseOf(r), call |-> request[r].call,
                           written |-> WrittenBy(r), ok |-> OperationOf(r).ok]
BY DEF OperationOf

\* A handler that goes on, admitted before and after, may have written more.
LEMMA GoesOn ==
  ASSUME NEW r \in Requests,
         \A x \in Requests \ {r} : request'[x] = request[x],
         request'[r].call = request[r].call, request'[r].status = request[r].status,
         request[r].pc \in {"select", "commit"}, request'[r].pc \in {"commit", "answer"}
  PROVE  Operations' = [Operations EXCEPT ![r].written = WrittenBy(r)']
<1>1. PhaseOf(r) = "admitted" /\ PhaseOf(r)' = "admitted"
  BY DEF PhaseOf, AccessAt
<1>2. OperationOf(r).ok = OperationOf(r)'.ok
  BY DEF OperationOf
<1>3. OperationOf(r)' = [phase |-> PhaseOf(r), call |-> request[r].call,
                         written |-> WrittenBy(r)', ok |-> OperationOf(r).ok]
  <2>1. OperationOf(r)' = [phase |-> PhaseOf(r)', call |-> request'[r].call,
                           written |-> WrittenBy(r)', ok |-> OperationOf(r)'.ok]
    BY DEF OperationOf
  <2> QED BY <1>1, <1>2, <2>1
<1>4. [OperationOf(r) EXCEPT !.written = WrittenBy(r)'] = OperationOf(r)'
  BY <1>3, OperationParts, WrittenRecord
<1> QED BY <1>4, OperationAt, OperationsChange

LEMMA Admits ==
  ASSUME NEW r \in Requests,
         \A x \in Requests \ {r} : request'[x] = request[x],
         request'[r].call = request[r].call, request'[r].status = request[r].status,
         request[r].pc = "authorize", request'[r].pc = "select"
  PROVE  Operations' = [Operations EXCEPT ![r].phase = "admitted"]
<1>1. PhaseOf(r)' = "admitted"
  BY DEF PhaseOf, AccessAt
<1>2. WrittenBy(r) = {} /\ WrittenBy(r)' = {}
  BY DEF WrittenBy, AccessAt
<1>3. OperationOf(r).ok = OperationOf(r)'.ok
  BY DEF OperationOf
<1>4. OperationOf(r)' = [phase |-> "admitted", call |-> request[r].call,
                         written |-> WrittenBy(r), ok |-> OperationOf(r).ok]
  <2>1. OperationOf(r)' = [phase |-> PhaseOf(r)', call |-> request'[r].call,
                           written |-> WrittenBy(r)', ok |-> OperationOf(r)'.ok]
    BY DEF OperationOf
  <2> QED BY <1>1, <1>2, <1>3, <2>1
<1>5. [OperationOf(r) EXCEPT !.phase = "admitted"] = OperationOf(r)'
  BY <1>4, OperationParts, PhaseRecord
<1> QED BY <1>5, OperationAt, OperationsChange

\* The columns a commit writes.
Pending(r) == Directory!Due(request[r].call) \ Found(r)

\* The columns after a commit: those in which the selected row differs from the
\* one asked for are written, the others left.
LEMMA CommittedColumns ==
  ASSUME MembershipInv, NEW r \in Requests, Commit(r)
  PROVE  /\ ActiveColumn' = IF "active" \in Pending(r)
                            THEN [ActiveColumn EXCEPT ![Target(request[r].call)]
                                    = (request[r].call.kind = "grant")]
                            ELSE ActiveColumn
         /\ RolesColumn' = IF "roles" \in Pending(r)
                           THEN [RolesColumn EXCEPT ![Target(request[r].call)]
                                   = request[r].call.roles]
                           ELSE RolesColumn
<1> DEFINE c == request[r].call
           columns == Pending(r)
           t == Target(c)
           row == request[r].row
<1>1. /\ CallInv(r) /\ AccessAt(r, "commit") /\ ~Collides(r)
      /\ c \in Calls /\ t \in Keys /\ row \in Row /\ member[t] \in Row
      /\ member[t].exists \/ member[t] = NoRow
      /\ member \in [Keys -> Row]
  BY CallType, RowType DEF MembershipInv, TypeOK, IsTable, Commit
<1>2. member' = [member EXCEPT ![t] = Committed(r)]
  BY DEF Commit
<1>3. /\ row.exists \/ row = NoRow
      /\ c.kind = "grant" \/ (c.kind = "deactivate" /\ row.exists)
  BY <1>1 DEF CallInv
<1>4. /\ "active" \in columns <=> row.active # Desired(c)
      /\ "roles" \in columns <=> c.kind = "grant" /\ ~(row.exists /\ row.roles = c.roles)
  BY <1>1, <1>3 DEF Pending, Directory!Due, Directory!Columns, Found
<1>5. Committed(r).active = IF "active" \in columns THEN c.kind = "grant" ELSE member[t].active
  BY <1>1, <1>3, <1>4 DEF Committed, Desired, NoRow, Collides, Row
<1>6. Committed(r).roles = IF "roles" \in columns THEN c.roles ELSE member[t].roles
  BY <1>1, <1>3, <1>4 DEF Committed, NoRow, Collides
<1>7. ActiveColumn' = [ActiveColumn EXCEPT ![t] = Committed(r).active]
  BY <1>1, <1>2 DEF ActiveColumn
<1>8. RolesColumn' = [RolesColumn EXCEPT ![t] = Committed(r).roles]
  BY <1>1, <1>2 DEF RolesColumn
<1>9. /\ [ActiveColumn EXCEPT ![t] = member[t].active] = ActiveColumn
      /\ [RolesColumn EXCEPT ![t] = member[t].roles] = RolesColumn
  BY <1>1 DEF ActiveColumn, RolesColumn
<1> QED BY <1>5, <1>6, <1>7, <1>8, <1>9

LEMMA ArriveCalls ==
  ASSUME MembershipInv, NEW r \in Requests, NEW c \in Calls, Arrive(r, c)
  PROVE  Directory!Called(r, c)
<1>0. /\ TypeOK /\ request[r].status = NoStatus /\ PhaseOf(r) = "idle"
      /\ UNCHANGED <<mode, ActiveColumn, RolesColumn>>
  BY ColumnsStay DEF Arrive, MembershipInv, CallInv, AccessAt, PhaseOf
<1>1. CASE c.credential # "valid"
  <2>1. /\ \A x \in Requests \ {r} : request'[x] = request[x]
        /\ request'[r].pc = "done" /\ request'[r].call = c /\ request'[r].status = 401
    <3>1. request' = [Ended(r, 401) EXCEPT ![r].call = c]
      BY <1>1 DEF Arrive
    <3> QED BY <1>0, <3>1 DEF TypeOK, Ended
  <2>2. PhaseOf(r)' = "answered" /\ WrittenBy(r)' = {}
    BY <2>1 DEF PhaseOf, WrittenBy, AccessAt
  <2>3. (request'[r].status \in {200, 204}) = FALSE
    BY <2>1
  <2>4. OperationOf(r)' = Directory!Answered(Directory!New(c), FALSE)
    BY <2>1, <2>2, <2>3 DEF OperationOf, Directory!Answered, Directory!New
  <2>5. Operations' = [Operations EXCEPT ![r] = OperationOf(r)']
    BY <2>1, OperationsChange
  <2>6. Operations' = [Operations EXCEPT ![r] = Directory!Answered(Directory!New(c), FALSE)]
    BY <2>4, <2>5
  <2> QED BY <1>0, <2>6, OperationAt DEF Directory!Called
<1>2. CASE c.credential = "valid"
  <2>1. /\ \A x \in Requests \ {r} : request'[x] = request[x]
        /\ request'[r].pc = "authorize" /\ request'[r].call = c
        /\ request'[r].status = NoStatus
    <3>1. request' = [request EXCEPT ![r].pc = "authorize", ![r].call = c]
      BY <1>2 DEF Arrive
    <3> QED BY <1>0, <3>1 DEF TypeOK
  <2>2. PhaseOf(r)' = "called" /\ WrittenBy(r)' = {}
    BY <2>1 DEF PhaseOf, WrittenBy, AccessAt
  <2>3. (request'[r].status \in {200, 204}) = FALSE
    BY <2>1 DEF NoStatus
  <2>4. OperationOf(r)' = Directory!New(c)
    BY <2>1, <2>2, <2>3 DEF OperationOf, Directory!New
  <2> QED BY <1>0, <2>1, <2>4, OperationAt, OperationsChange DEF Directory!Called
<1> QED BY <1>1, <1>2

LEMMA AuthorizeAdmits ==
  ASSUME MembershipInv, NEW r \in Requests, Authorize(r)
  PROVE  Directory!Admit(r) \/ Directory!Reject(r)
<1>1. TypeOK /\ CallInv(r) /\ InFlight(r) /\ mode' = mode /\ member' = member
  BY DEF MembershipInv, InFlight, Authorize, AccessAt
<1>2. CASE request' = Ended(r, 403) \/ request' = Ended(r, 500)
  BY <1>1, <1>2, EndRejects
<1>3. CASE /\ IsMember(request[r].call) /\ SameTenant(request[r].call)
           /\ HasRole(request[r].call, RolesOf(request[r].call))
           /\ request' = [request EXCEPT ![r].pc = "select"]
  <2>1. /\ \A x \in Requests \ {r} : request'[x] = request[x]
        /\ request'[r].call = request[r].call /\ request'[r].status = request[r].status
        /\ request[r].pc = "authorize" /\ request'[r].pc = "select"
    BY <1>1, <1>3 DEF TypeOK, Authorize, AccessAt
  <2>2. Operations' = [Operations EXCEPT ![r].phase = "admitted"]
    BY <2>1, Admits
  <2>3. Self(request[r].call) \in Keys
    BY <1>1, CallType DEF TypeOK
  <2>4. request[r].call.credential = "valid"
    BY <1>1 DEF CallInv
  <2>5. Directory!Entitled(request[r].call)
    BY <1>3, <2>3, <2>4
       DEF Directory!Entitled, IsMember, RolesOf, ActiveColumn, RolesColumn,
           Directory!SameTenant, SameTenant, Directory!HasRole, HasRole,
           Directory!Self, Self
  <2>6. PhaseOf(r) = "called"
    BY <2>1, Phases DEF AccessAt
  <2> QED BY <1>1, <2>2, <2>5, <2>6, OperationAt, ColumnsStay DEF Directory!Admit
<1> QED BY <1>2, <1>3 DEF Authorize

LEMMA DirectoryColumns == Directory!Columns = {"active", "roles"}
BY DEF Directory!Columns

LEMMA SelectWrites ==
  ASSUME MembershipInv, NEW r \in Requests,
         SelectForGrant(r) \/ SelectForDeactivation(r)
  PROVE  \E columns \in SUBSET Directory!Columns : Directory!Write(r, columns)
<1> DEFINE c == request[r].call
           t == Target(c)
           row == member[t]
<1>1. /\ TypeOK /\ request[r].pc = "select" /\ c \in Calls /\ t \in Keys
      /\ row \in Row /\ (row.exists \/ row = NoRow)
      /\ c.kind \in {"grant", "deactivate"}
      /\ UNCHANGED <<mode, ActiveColumn, RolesColumn>>
  BY CallType, RowType, ColumnsStay
     DEF MembershipInv, TypeOK, SelectForGrant, SelectForDeactivation, AccessAt
<1>2. /\ \A x \in Requests \ {r} : request'[x] = request[x]
      /\ request'[r].call = c /\ request'[r].status = request[r].status
      /\ request'[r].row = row
      /\ request'[r].pc = "commit" \/ (/\ request'[r].pc = "answer" /\ ~row.exists
                                       /\ c.kind = "deactivate")
  <2>1. CASE SelectForGrant(r)
    BY <1>1, <2>1 DEF SelectForGrant, TypeOK
  <2>2. CASE SelectForDeactivation(r)
    BY <1>1, <2>2 DEF SelectForDeactivation, TypeOK
  <2> QED BY <2>1, <2>2
<1>3. Operations' = [Operations EXCEPT ![r].written = WrittenBy(r)']
  BY <1>1, <1>2, GoesOn
<1>4. WrittenBy(r) = {} /\ PhaseOf(r) = "admitted"
  BY <1>1 DEF WrittenBy, PhaseOf, AccessAt
<1>5. /\ WrittenBy(r)' \subseteq Directory!Due(c)
      /\ WrittenBy(r)' \subseteq {"active", "roles"}
      /\ "active" \in WrittenBy(r)' => row.active = (c.kind = "grant")
      /\ "roles" \in WrittenBy(r)' => row.roles = c.roles
  <2>1. CASE request'[r].pc = "commit"
    <3>1. WrittenBy(r)' = Found(r)'
      BY <1>1, <1>2, <2>1 DEF WrittenBy, AccessAt
    <3>2. /\ "active" \in Found(r)' => row.active = (c.kind = "grant")
          /\ "roles" \in Found(r)' => c.kind = "grant" /\ row.roles = c.roles
          /\ Found(r)' \subseteq {"active", "roles"}
      BY <1>1, <1>2 DEF Found, Desired, Row
    <3> QED BY <1>1, <3>1, <3>2 DEF Directory!Due, Directory!Columns
  <2>2. CASE request'[r].pc = "answer" /\ ~row.exists /\ c.kind = "deactivate"
    <3>1. WrittenBy(r)' = {"active"}
      BY <1>1, <1>2, <2>2 DEF WrittenBy, AccessAt
    <3>2. row.active = FALSE
      BY <1>1, <2>2 DEF NoRow
    <3> QED BY <2>2, <3>1, <3>2 DEF Directory!Due, Directory!Columns
  <2> QED BY <1>2, <2>1, <2>2
<1>6. /\ ActiveColumn[t] = row.active /\ ActiveColumn = [ActiveColumn EXCEPT ![t] = row.active]
      /\ RolesColumn[t] = row.roles /\ RolesColumn = [RolesColumn EXCEPT ![t] = row.roles]
  BY <1>1 DEF ActiveColumn, RolesColumn
<1>7. Directory!Target(c) = t
  BY DEF Directory!Target, Target
<1> DEFINE columns == WrittenBy(r)'
<1>8. ActiveColumn' = IF "active" \in columns
                      THEN [ActiveColumn EXCEPT ![t] = (c.kind = "grant")]
                      ELSE ActiveColumn
  BY <1>1, <1>5, <1>6
<1>9. RolesColumn' = IF "roles" \in columns
                     THEN [RolesColumn EXCEPT ![t] = c.roles]
                     ELSE RolesColumn
  BY <1>1, <1>5, <1>6
<1>10. Operations' = [Operations EXCEPT ![r].written = @ \cup columns]
  BY <1>3, <1>4, OperationAt
<1>11. Directory!Write(r, columns)
  BY <1>1, <1>4, <1>5, <1>7, <1>8, <1>9, <1>10, OperationAt DEF Directory!Write
<1> QED BY <1>5, <1>11, DirectoryColumns

LEMMA CommitWrites ==
  ASSUME MembershipInv, NEW r \in Requests, Commit(r)
  PROVE  \E columns \in SUBSET Directory!Columns : Directory!Write(r, columns)
<1> DEFINE c == request[r].call
           columns == Pending(r)
<1>1. /\ TypeOK /\ request[r].pc = "commit" /\ mode' = mode
      /\ c.kind \in {"grant", "deactivate"}
  BY DEF MembershipInv, Commit, AccessAt, CallInv
<1>2. Directory!Target(c) = Target(c)
  BY DEF Directory!Target, Target
<1>3. /\ ActiveColumn' = IF "active" \in columns
                         THEN [ActiveColumn EXCEPT ![Directory!Target(c)] = (c.kind = "grant")]
                         ELSE ActiveColumn
      /\ RolesColumn' = IF "roles" \in columns
                        THEN [RolesColumn EXCEPT ![Directory!Target(c)] = c.roles]
                        ELSE RolesColumn
  BY <1>2, CommittedColumns
<1>4. WrittenBy(r) = Found(r) /\ PhaseOf(r) = "admitted"
  BY <1>1 DEF WrittenBy, PhaseOf, AccessAt
<1>5. /\ columns \subseteq Directory!Due(c) \ WrittenBy(r)
      /\ columns \subseteq Directory!Columns
  BY <1>4 DEF Pending, Directory!Due, Directory!Columns
<1>6. Found(r) \cup columns = Directory!Due(c)
  BY <1>1 DEF Pending, Found, Directory!Due, Directory!Columns
<1>7. CASE request' = [request EXCEPT ![r].pc = "answer"]
  <2>1. /\ \A x \in Requests \ {r} : request'[x] = request[x]
        /\ request'[r].call = c /\ request'[r].status = request[r].status
        /\ request'[r].pc = "answer"
    BY <1>1, <1>7 DEF TypeOK
  <2>2. WrittenBy(r)' = Directory!Due(c)
    BY <1>1, <2>1 DEF WrittenBy, AccessAt, Directory!Due, Directory!Columns
  <2>3. Operations' = [Operations EXCEPT ![r].written = WrittenBy(r)']
    BY <1>1, <2>1, GoesOn
  <2>4. Operations' = [Operations EXCEPT ![r].written = @ \cup columns]
    BY <1>4, <1>6, <2>2, <2>3, OperationAt
  <2>5. Directory!Write(r, columns)
    BY <1>1, <1>3, <1>4, <1>5, <2>4, OperationAt DEF Directory!Write
  <2> QED BY <1>5, <2>5
<1>8. CASE request' = Ended(r, 500)
  <2> PICK b \in BOOLEAN : b = FALSE
    OBVIOUS
  <2>1. 500 \in Status /\ (b <=> 500 \in {200, 204})
    BY DEF Status
  <2>2. Operations' = [Operations EXCEPT ![r] = Directory!Answered(@, b)]
    BY <1>1, <1>8, <2>1, EndAnswers
  <2>3. Directory!Write(r, columns)
    BY <1>1, <1>3, <1>4, <1>5, <2>2, OperationAt DEF Directory!Write
  <2> QED BY <1>5, <2>3
<1> QED BY <1>7, <1>8 DEF Commit

LEMMA AnswerSucceeds ==
  ASSUME MembershipInv, NEW r \in Requests, Answer(r)
  PROVE  Directory!Succeed(r)
<1> DEFINE c == request[r].call
<1>1. /\ TypeOK /\ CallInv(r) /\ request[r].pc = "answer"
      /\ UNCHANGED <<mode, ActiveColumn, RolesColumn>>
  BY ColumnsStay DEF MembershipInv, Answer, AccessEnd, AccessAt
<1>2. PhaseOf(r) = "admitted" /\ c.kind \in Kinds
  BY <1>1, CallType DEF PhaseOf, AccessAt, TypeOK
<1>3. WrittenBy(r) = Directory!Due(c)
  BY <1>1, <1>2 DEF WrittenBy, AccessAt, Directory!Due, Directory!Columns, Kinds
<1>4. c.kind = "status" => Owner[c.document] = c.home
  BY <1>1 DEF CallInv, AccessAt, SameTenant
<1>5. Operations' = [Operations EXCEPT ![r] = Directory!Answered(@, TRUE)]
  <2> PICK b \in BOOLEAN : b = TRUE
    OBVIOUS
  <2> PICK s \in Status : request' = Ended(r, s) /\ s \in {200, 204}
    BY DEF Answer, AccessEnd, Status
  <2>1. b <=> s \in {200, 204}
    OBVIOUS
  <2>2. Operations' = [Operations EXCEPT ![r] = Directory!Answered(@, b)]
    BY <1>1, <2>1, EndAnswers
  <2> QED BY <2>2
<1> QED BY <1>1, <1>2, <1>3, <1>4, <1>5, OperationAt DEF Directory!Succeed

\* The SELECT of the status endpoint shows in the directory only as a refusal.
LEMMA StatusStutters ==
  ASSUME MembershipInv, NEW r \in Requests, SelectJobStatus(r)
  PROVE  Directory!Reject(r) \/ UNCHANGED Directory!directoryVars
<1>1. /\ TypeOK /\ InFlight(r) /\ request[r].pc = "select"
      /\ mode' = mode /\ member' = member
  BY DEF MembershipInv, SelectJobStatus, InFlight, AccessAt
<1>2. CASE request' = Ended(r, 404)
  BY <1>1, <1>2, EndRejects
<1>3. CASE request' = [request EXCEPT ![r].pc = "answer"]
  <2>1. /\ \A x \in Requests \ {r} : request'[x] = request[x]
        /\ request'[r].call = request[r].call /\ request'[r].status = request[r].status
        /\ request'[r].pc = "answer" /\ request[r].call.kind = "status"
    BY <1>1, <1>3 DEF TypeOK, SelectJobStatus
  <2>2. WrittenBy(r)' = {} /\ WrittenBy(r) = {}
    BY <2>1 DEF WrittenBy
  <2>3. [Operations EXCEPT ![r].written = {}] = Operations
    <3>1. [OperationOf(r) EXCEPT !.written = {}] = OperationOf(r)
      BY <2>2, OperationParts, WrittenRecord
    <3>2. [Operations EXCEPT ![r] = OperationOf(r)] = Operations
      BY DEF Operations
    <3> QED BY <3>1, <3>2, OperationAt
  <2>4. Operations' = Operations
    BY <1>1, <2>1, <2>2, <2>3, GoesOn
  <2> QED BY <1>1, <2>4, ColumnsStay DEF Directory!directoryVars
<1> QED BY <1>2, <1>3 DEF SelectJobStatus

LEMMA DirectoryInitial == MembershipInit => Directory!DirectoryInit
<1> SUFFICES ASSUME MembershipInit PROVE Directory!DirectoryInit
  OBVIOUS
<1>1. TypeOK
  BY TypeInit
<1>2. ActiveColumn \in [Keys -> BOOLEAN] /\ RolesColumn \in [Keys -> SUBSET Roles]
  BY <1>1 DEF TypeOK, IsTable, Row, ActiveColumn, RolesColumn
<1>3. ASSUME NEW r \in Requests
      PROVE  OperationOf(r) = [phase |-> "idle", call |-> AnyCall, written |-> {}, ok |-> FALSE]
  <2>1. PhaseOf(r) = "idle" /\ WrittenBy(r) = {}
    BY DEF MembershipInit, PhaseOf, WrittenBy, AccessAt
  <2>2. (request[r].status \in {200, 204}) = FALSE
    BY DEF MembershipInit, NoStatus
  <2>3. request[r].call = AnyCall
    BY DEF MembershipInit
  <2> QED BY <2>1, <2>2, <2>3 DEF OperationOf
<1>4. Operations = [r \in Requests |-> [phase |-> "idle", call |-> Directory!AnyCall,
                                        written |-> {}, ok |-> FALSE]]
  BY <1>3 DEF Operations, AnyCall, Directory!AnyCall
<1> QED BY <1>2, <1>4 DEF MembershipInit, Directory!DirectoryInit, Modes, Directory!Modes,
                          Keys, Directory!Keys

LEMMA DirectoryStep ==
  ASSUME MembershipInv, [MembershipNext]_membershipVars
  PROVE  [Directory!DirectoryNext]_(Directory!directoryVars)
<1>1. ASSUME NEW r \in Requests, NEW c \in Calls, Arrive(r, c)
      PROVE  Directory!DirectoryNext
  BY <1>1, ArriveCalls DEF Directory!DirectoryNext
<1>2. ASSUME NEW r \in Requests, AccessStep(r)
      PROVE  Directory!DirectoryNext \/ UNCHANGED Directory!directoryVars
  <2>0. TypeOK
    BY DEF MembershipInv
  <2>1. CASE Authorize(r)
    BY <2>1, AuthorizeAdmits DEF Directory!DirectoryNext
  <2>2. CASE SelectForGrant(r) \/ SelectForDeactivation(r)
    BY <2>2, SelectWrites DEF Directory!DirectoryNext
  <2>3. CASE SelectJobStatus(r)
    BY <2>3, StatusStutters DEF Directory!DirectoryNext
  <2>4. CASE Commit(r)
    BY <2>4, CommitWrites DEF Directory!DirectoryNext
  <2>5. CASE Collide(r) \/ AccessFails(r)
    <3>1. InFlight(r)
      BY <2>5, MembershipAssumption DEF Collide, AccessFails, InFlight, AccessAt
    <3>2. mode' = mode /\ member' = member /\ request' = Ended(r, 500)
      BY <2>5 DEF Collide, AccessFails, AccessEnd
    <3>3. Directory!Reject(r)
      BY <2>0, <3>1, <3>2, EndRejects
    <3> QED BY <3>3 DEF Directory!DirectoryNext
  <2>6. CASE Answer(r)
    BY <2>6, AnswerSucceeds DEF Directory!DirectoryNext
  <2> QED BY <1>2, <2>1, <2>2, <2>3, <2>4, <2>5, <2>6 DEF AccessStep
<1>3. CASE UNCHANGED membershipVars
  <2>1. request' = request /\ member' = member /\ mode' = mode
    BY <1>3 DEF membershipVars
  <2>2. Operations' = Operations
    BY <2>1, OperationElsewhere DEF Operations
  <2> QED BY <2>1, <2>2, ColumnsStay DEF Directory!directoryVars
<1> QED BY <1>1, <1>2, <1>3 DEF MembershipNext

(***************************************************************************)
(* The handlers implement the directory, whatever their number and the     *)
(* faults. The invariant gives what each step needs: the credential and    *)
(* the tenant checked before the SELECT still hold of the call, a          *)
(* deactivation commits only a row it found, and an insertion meets an     *)
(* empty key (get_authorized_context, upsert_membership,                   *)
(* deactivate_membership, get_document_status).                            *)
(***************************************************************************)
THEOREM MembershipImplementsDirectory == MembershipSpec => ImplementsDirectory
<1>1. MembershipInv /\ [MembershipNext]_membershipVars
        => [Directory!DirectoryNext]_(Directory!directoryVars)
  BY DirectoryStep
<1> QED BY <1>1, DirectoryInitial, MembershipInvHolds, PTL
        DEF MembershipSpec, ImplementsDirectory, Directory!DirectorySpec
=============================================================================
