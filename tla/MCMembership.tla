---------------------------- MODULE MCMembership ----------------------------
(***************************************************************************)
(* Two tenants with a document each; an administrator of the first, and a  *)
(* second actor whom the calls grant and deactivate and who calls herself. *)
(***************************************************************************)
EXTENDS Membership, TLC

CONSTANTS t1, t2, ann, bob, d1, d2, admin, reader, r1, r2, r3

MCTenants == {t1, t2}
MCActors == {ann, bob}
MCDocuments == {d1, d2}
MCRoles == {admin, reader}
MCOwner == (d1 :> t1) @@ (d2 :> t2)
MCRequests == {r1, r2, r3}

\* A valid call of a caller at home in t1 that claims nothing.
Base(kind, caller) ==
  [kind |-> kind, credential |-> "valid", home |-> t1, caller |-> caller,
   claims |-> {}, tenant |-> t1, target |-> bob, roles |-> {}, document |-> d1]

MCCalls ==
  { Base("grant", ann),
    [Base("grant", ann) EXCEPT !.roles = {admin}],
    Base("deactivate", ann),
    [Base("deactivate", bob) EXCEPT !.target = ann],
    [Base("grant", bob) EXCEPT !.roles = {reader}, !.claims = {admin}],
    [Base("grant", ann) EXCEPT !.tenant = t2, !.claims = {admin}],
    Base("status", bob),
    [Base("status", bob) EXCEPT !.document = d2],
    [Base("status", ann) EXCEPT !.credential = "absent"],
    [Base("grant", ann) EXCEPT !.credential = "invalid"] }

Member(held, on) == [exists |-> TRUE, roles |-> held, active |-> on]

\* ann administers t1; bob is unknown to it, was a member, or administers it too.
MCSeeds ==
  { [k \in Keys |-> IF k = <<t1, ann>> THEN Member({admin}, TRUE)
                    ELSE IF k = <<t1, bob>> THEN row ELSE NoRow] :
    row \in {NoRow, Member({}, FALSE), Member({admin}, FALSE), Member({admin}, TRUE)} }

MCSymmetry == Permutations(MCRequests)
==============================================================================
