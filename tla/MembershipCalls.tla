--------------------------- MODULE MembershipCalls ---------------------------
(***************************************************************************)
(* The calls behind get_authorized_context that the admin routes and the   *)
(* status endpoint serve, and who is entitled to them: what the handlers   *)
(* (Membership) and the abstract directory (TenantDirectory) share.        *)
(***************************************************************************)
EXTENDS Naturals

CONSTANTS
  Tenants, Actors, Documents, Roles,
  Admin,      \* the role require_same_tenant asks for
  Owner,      \* the tenant of each document that has a job
  Requests,   \* the requests in flight, at most one call each
  Calls       \* the calls clients may make

Keys == Tenants \X Actors

\* settings.auth_mode
Modes == {"local", "jwt", "jwks"}

Kinds == {"grant", "deactivate", "status"}

\* A call: the identity its token or its headers claim (home, caller, claims),
\* whether they are there and valid, and the path and body of the request.
Call == [kind : Kinds, credential : {"absent", "invalid", "valid"},
         home : Tenants, caller : Actors, claims : SUBSET Roles,
         tenant : Tenants, target : Actors, roles : SUBSET Roles,
         document : Documents]

ASSUME CallsAssumption ==
  /\ Admin \in Roles
  /\ Owner \in [Documents -> Tenants]
  /\ Calls \subseteq Call
  /\ Calls # {}

AnyCall == CHOOSE c \in Calls : TRUE

\* The membership a call is about, and that of its caller.
Target(c) == <<c.tenant, c.target>>
Self(c) == <<c.home, c.caller>>

(***************************************************************************)
(* require_same_tenant: the path names the authenticated tenant, and a     *)
(* change takes the role "admin". The status endpoint asks for the tenant  *)
(* alone.                                                                  *)
(***************************************************************************)
SameTenant(c) == c.tenant = c.home

HasRole(c, held) == c.kind = "status" \/ Admin \in held
==============================================================================
