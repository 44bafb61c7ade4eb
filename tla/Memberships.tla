---------------------------- MODULE Memberships ----------------------------
(* The members of one organization: its row of the organizations table, the  *)
(* rows of users_organizations, and every handler that writes them.          *)
(*                                                                           *)
(* A handler reads the membership of the caller, reads the membership it is  *)
(* about, and saves or deletes that row, one statement per step; a save      *)
(* writes the whole row back, or inserts it again.  Foreign keys and         *)
(* UNIQUE (user_uuid, org_uuid) are enforced by the database.                *)
EXTENDS Integers, FiniteSets

CONSTANTS
    Users,
    Members,   \* the uuids that Membership::new may generate: numbers, used in order
    Requests,  \* requests that may be in flight at once
    Types,     \* the membership types clients ask for
    Lists,     \* the lists of members clients send to the bulk handlers
    Keys       \* whether clients send the organization's key, or none or an empty one

TYPE_OWNER == 0
TYPE_ADMIN == 1
TYPE_USER == 2
TYPE_MANAGER == 3

STATUS_REVOKED == -1
STATUS_INVITED == 0
STATUS_ACCEPTED == 1
STATUS_CONFIRMED == 2

ASSUME InputsAssumption ==
    /\ Members \subseteq Nat
    /\ Types \subseteq TYPE_OWNER .. TYPE_MANAGER
    /\ Lists \subseteq (SUBSET Members) \ {{}}
    /\ Keys \subseteq BOOLEAN

VARIABLES
    org,        \* "none", "live" or "deleted"
    user,       \* each user's row: "none", "live" or "deleted"
    row,        \* the rows of users_organizations
    req,        \* requests in flight, after their first statement
    minted,     \* HISTORY: uuids in use
    want,       \* HISTORY: what the handlers meant each row to be, while their
                \* writes of it did not overlap
    consented,  \* HISTORY: creators, invitees who accepted, members restored in bulk
    keyless,    \* HISTORY: members confirmed without a key
    promoted    \* HISTORY: the roles that creators, owners and the server's
                \* administrator gave to members and that a row, or a copy
                \* in flight, still has

vars == <<org, user, row, req, minted, want, consented, keyless, promoted>>

\* The columns the handlers tell apart; akey is empty until a key is given.
NoRow == [user |-> "no row"]
Row == [user : Users, status : STATUS_REVOKED .. STATUS_CONFIRMED,
        atype : TYPE_OWNER .. TYPE_MANAGER, akey : BOOLEAN]

live == {m \in Members : row[m] # NoRow}

\* MUTANT: the table has no UNIQUE constraint.
Insertable_NotUnique(m, u) == org = "live" /\ user[u] = "live"

\* The constraints an INSERT or an upsert of a row of u meets.
Insertable(m, u) ==
    /\ org = "live" /\ user[u] = "live"
    /\ \A n \in live \ {m} : row[n].user # u

Confirmed(m) == m \in live /\ row[m].status = STATUS_CONFIRMED

Owners == {m \in live : row[m].atype = TYPE_OWNER /\ row[m].status = STATUS_CONFIRMED}

\* What a handler does with the members it reads.  bulk_confirm and
\* bulk_revoke_member do with each member of a list what confirm and
\* revoke_member do with one.
Ops == {"confirm", "update_member", "remove_member", "revoke_member",
        "restore_member", "bulk_restore_member"}

\* Where a request in flight is:
\*   create  post_organization is about to insert the owner
\*   skip    an invitation is about to look for a membership of the invitee
\*   insert  it is about to insert one
\*   load    a handler is about to read the next member of its list
\*   save    it is about to save its copy
\*   count   leave_organization is about to count the owners
\*   delete  a handler is about to delete the row
\*   purge   the organization is about to lose its members
\*   drop    the organization is about to be deleted
\*   forget  a user without memberships is about to be deleted
IsRequest(q) ==
    /\ q.id \in Requests
    /\ q.at \in {"create", "skip", "insert", "load", "save", "count", "delete",
                 "purge", "drop", "forget"}
    /\ q.at \in {"create", "skip", "insert", "forget"} => q.user \in Users
    /\ q.at \in {"create", "load"} => q.key \in BOOLEAN
    /\ q.at \in {"skip", "insert"} => /\ q.atype \in Types \cup {TYPE_USER}
                                      /\ q.roles \subseteq Types
    /\ q.at = "load" => /\ q.op \in Ops
                        /\ q.owner \in BOOLEAN
                        /\ q.ids \subseteq Members
                        /\ q.atype \in Types \cup {TYPE_USER}
    /\ q.at \in {"save", "count", "delete"} => q.member \in Members
    /\ q.at = "save" => /\ q.row \in Row
                        /\ q.sets \subseteq {"status", "atype", "akey"}
                        /\ q.consents \in BOOLEAN /\ q.bulk \in BOOLEAN
                        /\ q.roles \subseteq Types
    /\ q.at = "delete" => q.leaves \in BOOLEAN /\ q.stale \in BOOLEAN

-----------------------------------------------------------------------------
(* Requests in flight. *)

Free(r) == \A q \in req : q.id # r

Tables == <<org, user, row, minted, want, consented, keyless, promoted>>

Start(p) ==
    /\ Free(p.id)
    /\ req' = req \cup {p}
    /\ UNCHANGED Tables

Continue(q, p) ==
    /\ req' = (req \ {q}) \cup {p}
    /\ UNCHANGED Tables

Finish(q) ==
    /\ req' = req \ {q}
    /\ UNCHANGED Tables

\* HISTORY: after a write, leave_organization's count of the owners is stale.
Stale(S) == {IF p.at = "delete" /\ p.leaves THEN [p EXCEPT !.stale = TRUE] ELSE p : p \in S}

\* HISTORY: the role that somebody who may give one gives, if it is one.
Role(may, atype) == IF may THEN {atype} \ {TYPE_USER} ELSE {}

\* Requests that will save a copy of the row of m.
Savers(m) == {p \in req : p.at = "save" /\ p.member = m}

\* HISTORY: the roles among G that are not taken away from their members for good.
InUse(G, rows, S) ==
    {g \in G : \/ rows[g[1]] # NoRow /\ rows[g[1]].atype = g[2]
               \/ \E p \in S : p.at = "save" /\ p.member = g[1] /\ p.row.atype = g[2]}

-----------------------------------------------------------------------------
(* The organization and its first owner. *)

\* post_organization: the organization is saved, then its owner; the key may
\* be left out of the body.
post_organization(r, u, key) ==
    /\ org = "none" /\ user[u] = "live"
    /\ Free(r)
    /\ org' = "live"
    /\ req' = req \cup {[id |-> r, at |-> "create", user |-> u, key |-> key]}
    /\ UNCHANGED <<user, row, minted, want, consented, keyless, promoted>>

\* INSERT of a row with a new uuid.
Insert(q, m, c) ==
    /\ m \notin minted /\ \A n \in Members \ minted : m <= n
    /\ Insertable(m, c.user)
    /\ minted' = minted \cup {m}
    /\ row' = [row EXCEPT ![m] = c]
    /\ want' = [want EXCEPT ![m] = c]
    /\ req' = Stale(req \ {q})
    /\ UNCHANGED <<org, user>>

\* DELETE of the rows S.
Delete(S) ==
    /\ row' = [m \in Members |-> IF m \in S THEN NoRow ELSE row[m]]
    /\ want' = [m \in Members |-> IF m \in S THEN NoRow ELSE want[m]]
    /\ consented' = {m \in consented : m \in S => Savers(m) # {}}
    /\ keyless' = {m \in keyless : m \in S => Savers(m) # {}}
    /\ promoted' = InUse(promoted, row', req)
    /\ UNCHANGED <<org, user, minted>>

create(q, m) ==
    /\ q.at = "create"
    /\ Insert(q, m, [user |-> q.user, status |-> STATUS_CONFIRMED,
                     atype |-> TYPE_OWNER, akey |-> q.key])
    /\ consented' = consented \cup {m}
    /\ keyless' = IF q.key THEN keyless ELSE keyless \cup {m}
    /\ promoted' = promoted \cup {<<m, TYPE_OWNER>>}

\* delete_organization, admin_delete_org: the members, then the organization.
\* The latter is pinned by a membership that was inserted in between.
purge(q) ==
    /\ q.at = "purge"
    /\ Delete(live)
    /\ req' = Stale((req \ {q}) \cup {[id |-> q.id, at |-> "drop"]})

drop(q) ==
    /\ q.at = "drop"
    /\ live = {}
    /\ org' = "deleted"
    /\ req' = req \ {q}
    /\ UNCHANGED <<user, row, minted, want, consented, keyless, promoted>>

-----------------------------------------------------------------------------
(* Handlers of an organization's administrators. *)

\* require_org_admin: u is a confirmed member, not a manager.
Admins(u) == {m \in live : /\ row[m].user = u
                           /\ row[m].status = STATUS_CONFIRMED
                           /\ row[m].atype <= TYPE_USER}

\* The first read of a handler: the caller's membership.
Admin(r, u, op, ids, atype, key) ==
    \E a \in Admins(u) :
        Start([id |-> r, at |-> "load", op |-> op, ids |-> ids, atype |-> atype,
               key |-> key, owner |-> /\ row[a].atype = TYPE_OWNER
                                      /\ op \in {"update_member", "remove_member"}])

confirm(r, u, m, key) == Admin(r, u, "confirm", {m}, TYPE_USER, key)
revoke_member(r, u, m) == Admin(r, u, "revoke_member", {m}, TYPE_USER, FALSE)
restore_member(r, u, m) == Admin(r, u, "restore_member", {m}, TYPE_USER, FALSE)
remove_member(r, u, m) == Admin(r, u, "remove_member", {m}, TYPE_USER, FALSE)
update_member(r, u, m, atype) == Admin(r, u, "update_member", {m}, atype, FALSE)
bulk_confirm(r, u, ids, key) == Admin(r, u, "confirm", ids, TYPE_USER, key)
bulk_restore_member(r, u, ids) == Admin(r, u, "bulk_restore_member", ids, TYPE_USER, FALSE)
bulk_revoke_member(r, u, ids) == Admin(r, u, "revoke_member", ids, TYPE_USER, FALSE)

\* delete_organization: only owners.
delete_organization(r, u) ==
    /\ \E a \in Admins(u) : row[a].atype = TYPE_OWNER
    /\ Start([id |-> r, at |-> "purge"])

admin_delete_org(r) ==
    /\ org = "live"
    /\ Start([id |-> r, at |-> "purge"])

\* MUTANT: an invited member can be confirmed.
Accepts_AnyStatus(q, c) ==
    CASE q.op = "confirm" -> c.status # STATUS_CONFIRMED
      [] q.op = "update_member" ->
           q.atype # TYPE_USER \/ c.atype # TYPE_USER => q.owner
      [] q.op = "remove_member" -> c.atype \in {TYPE_OWNER, TYPE_ADMIN} => q.owner
      [] OTHER -> TRUE

\* MUTANT: only the role that a member has is protected, not the one they get.
Accepts_AnyRole(q, c) ==
    CASE q.op = "confirm" -> c.status = STATUS_ACCEPTED
      [] q.op = "update_member" -> c.atype # TYPE_USER => q.owner
      [] q.op = "remove_member" -> c.atype \in {TYPE_OWNER, TYPE_ADMIN} => q.owner
      [] OTHER -> TRUE

\* What a handler checks of the membership it reads.
Accepts(q, c) ==
    CASE q.op = "confirm" -> c.status = STATUS_ACCEPTED
      [] q.op = "update_member" ->
           q.atype # TYPE_USER \/ c.atype # TYPE_USER => q.owner
      [] q.op = "remove_member" -> c.atype \in {TYPE_OWNER, TYPE_ADMIN} => q.owner
      [] OTHER -> TRUE

\* MUTANT: revoking also takes the role away.
Edited_RevokeDemotes(q, c) ==
    CASE q.op = "confirm" ->
           [c EXCEPT !.status = STATUS_CONFIRMED, !.akey = q.key]
      [] q.op = "update_member" -> [c EXCEPT !.atype = q.atype]
      [] q.op = "revoke_member" ->
           [c EXCEPT !.status = STATUS_REVOKED, !.atype = TYPE_USER]
      [] q.op = "restore_member" ->
           [c EXCEPT !.status = IF c.akey THEN STATUS_CONFIRMED ELSE STATUS_INVITED]
      [] OTHER -> [c EXCEPT !.status = STATUS_CONFIRMED]

\* What it makes of its copy.  A member who has accepted has no key yet.
Edited(q, c) ==
    CASE q.op = "confirm" ->
           [c EXCEPT !.status = STATUS_CONFIRMED, !.akey = q.key]
      [] q.op = "update_member" -> [c EXCEPT !.atype = q.atype]
      [] q.op = "revoke_member" ->
           [c EXCEPT !.status = STATUS_REVOKED]
      [] q.op = "restore_member" ->
           [c EXCEPT !.status = IF c.akey THEN STATUS_CONFIRMED ELSE STATUS_INVITED]
      [] OTHER -> [c EXCEPT !.status = STATUS_CONFIRMED]

\* A handler has a copy c of the row of m to save, and a list to go on with.
\* HISTORY: which columns it means to change, whether it is the first to make m a
\* member by their consent, whether it gave no key, which role an owner or the
\* administrator gave.
Saves(r, m, op, c, rest, owner) ==
    [id |-> r, at |-> "save", member |-> m, row |-> c, rest |-> rest,
     roles |-> Role(owner /\ op \in {"update_member", "admin_set_org_type"}, c.atype),
     sets |-> CASE op \in {"update_member", "admin_set_org_type"} -> {"atype"}
                [] op = "reset_password_enrollment" -> {}
                [] op = "confirm" -> {"status", "akey"}
                [] OTHER -> {"status"},
     consents |-> op \in {"accept", "bulk_restore_member"} /\ m \notin consented,
     bulk |-> op \in {"confirm", "bulk_restore_member"} /\ ~c.akey]

Deletes(r, m, leaves, stale) ==
    [id |-> r, at |-> "delete", member |-> m, leaves |-> leaves, stale |-> stale]

\* The second read: the member it is about, or the next of the list.
load(q, m) ==
    /\ q.at = "load"
    /\ m \in q.ids /\ m \in live
    /\ Accepts(q, row[m])
    /\ Continue(q, IF q.op = "remove_member" THEN Deletes(q.id, m, FALSE, FALSE)
                   ELSE Saves(q.id, m, q.op, Edited(q, row[m]),
                              IF q.ids = {m} THEN {} ELSE {[q EXCEPT !.ids = @ \ {m}]},
                              q.owner))

\* It is not there, not acceptable, or the read fails: a handler of one member
\* answers an error, a bulk handler goes on with its list.
load_refused(q, m) ==
    /\ q.at = "load"
    /\ m \in q.ids
    /\ IF q.ids = {m} THEN Finish(q) ELSE Continue(q, [q EXCEPT !.ids = @ \ {m}])

\* Find or create the invitee, then look for a membership of theirs.
Invitee(r, u, atype, owner) ==
    /\ Free(r)
    /\ user[u] # "deleted"
    /\ user' = [user EXCEPT ![u] = "live"]
    /\ req' = req \cup {[id |-> r, at |-> "skip", user |-> u, atype |-> atype,
                         roles |-> Role(owner, atype)]}
    /\ UNCHANGED <<org, row, minted, want, consented, keyless, promoted>>

\* invite: one membership per address; another address of the same request is
\* another one of these.
invite(r, u, invitee, atype) ==
    /\ \E a \in Admins(u) : /\ atype = TYPE_USER \/ row[a].atype = TYPE_OWNER
                            /\ Invitee(r, invitee, atype, row[a].atype = TYPE_OWNER)

\* public_org_import: the same for a directory connector, with an API key.
import_invite(r, invitee) ==
    /\ org = "live"
    /\ Invitee(r, invitee, TYPE_USER, FALSE)

\* Someone who is a member already is skipped, unless that read fails.
skip(q) ==
    /\ q.at = "skip"
    /\ \/ /\ \E n \in live : row[n].user = q.user
          /\ Finish(q)
       \/ Continue(q, [q EXCEPT !.at = "insert"])

insert(q, m) ==
    /\ q.at = "insert"
    /\ Insert(q, m, [user |-> q.user, status |-> STATUS_INVITED,
                     atype |-> q.atype, akey |-> FALSE])
    /\ promoted' = promoted \cup ({m} \X q.roles)
    /\ UNCHANGED <<consented, keyless>>

-----------------------------------------------------------------------------
(* Handlers of the member itself, of the server's administrator and of the   *)
(* directory connector: their first read is the membership.                  *)

Held(r, m, op, c) == Start(Saves(r, m, op, c, {}, op = "admin_set_org_type"))

accept(r, m) ==
    /\ m \in live
    /\ row[m].status = STATUS_INVITED
    /\ Held(r, m, "accept", [row[m] EXCEPT !.status = STATUS_ACCEPTED])

\* It writes reset_password_key, which no handler of this module reads.
reset_password_enrollment(r, m) ==
    /\ m \in live
    /\ Held(r, m, "reset_password_enrollment", row[m])

admin_set_org_type(r, m, atype) ==
    /\ m \in live
    /\ Held(r, m, "admin_set_org_type", [row[m] EXCEPT !.atype = atype])

\* leave_organization: an owner must not be the last one.
leave_organization(r, m) ==
    /\ m \in live
    /\ Start(IF row[m].atype = TYPE_OWNER THEN [id |-> r, at |-> "count", member |-> m]
             ELSE Deletes(r, m, TRUE, FALSE))

\* MUTANT: members who are not confirmed count as owners.
count_AnyStatus(q) ==
    /\ q.at = "count"
    /\ IF Cardinality({m \in live : row[m].atype = TYPE_OWNER}) <= 1
       THEN Finish(q)
       ELSE Continue(q, Deletes(q.id, q.member, TRUE, FALSE))

\* find_by_org: when it fails the check is left out.
count(q) ==
    /\ q.at = "count"
    /\ \/ Cardinality(Owners) <= 1 /\ Finish(q)
       \/ Cardinality(Owners) > 1 /\ Continue(q, Deletes(q.id, q.member, TRUE, FALSE))
       \/ Continue(q, Deletes(q.id, q.member, TRUE, TRUE))

\* public_org_import, for a member the directory calls deleted.
import_delete(r, m) ==
    /\ m \in live
    /\ Start(Deletes(r, m, FALSE, FALSE))

\* delete_account, admin_delete_user: DELETE ... WHERE user_uuid, and later the
\* user itself, whom a membership inserted in between pins.
delete_account(r, u) ==
    /\ Free(r)
    /\ user[u] = "live"
    /\ Delete({m \in live : row[m].user = u})
    /\ req' = Stale(req) \cup {[id |-> r, at |-> "forget", user |-> u]}

forget(q) ==
    /\ q.at = "forget"
    /\ \A m \in live : row[m].user # q.user
    /\ user' = [user EXCEPT ![q.user] = "deleted"]
    /\ req' = req \ {q}
    /\ UNCHANGED <<org, row, minted, want, consented, keyless, promoted>>

-----------------------------------------------------------------------------
(* The writes. *)

\* Membership::save; the bulk handlers go on to the next member.
save(q) ==
    /\ q.at = "save"
    /\ Insertable(q.member, q.row.user)
    /\ row' = [row EXCEPT ![q.member] = q.row]
    /\ req' = Stale((req \ {q}) \cup q.rest)
    /\ want' = [want EXCEPT ![q.member] =
                    IF @ = NoRow \/ Savers(q.member) # {q} THEN NoRow
                    ELSE [c \in DOMAIN @ |-> IF c \in q.sets THEN q.row[c] ELSE @[c]]]
    /\ consented' = IF q.consents THEN consented \cup {q.member} ELSE consented
    /\ keyless' = IF q.bulk THEN keyless \cup {q.member} ELSE keyless
    /\ promoted' = InUse(promoted, row', req \ {q}) \cup ({q.member} \X q.roles)
    /\ UNCHANGED <<org, user, minted>>

\* Membership::delete.
delete(q) ==
    /\ q.at = "delete"
    /\ Delete({q.member})
    /\ req' = Stale(req \ {q})

\* A write fails: the handler answers an error; bulk_restore_member and
\* bulk_revoke_member ignore it and go on, bulk_confirm reports it and goes on.
fail(q) ==
    /\ q.at \notin {"skip", "load", "count"}
    /\ req' = (req \ {q}) \cup IF q.at = "save" THEN q.rest ELSE {}
    /\ promoted' = InUse(promoted, row, req \ {q})
    /\ UNCHANGED <<org, user, row, minted, want, consented, keyless>>

-----------------------------------------------------------------------------
(* The specification. *)

Init ==
    /\ org = "none"
    /\ user \in [Users -> {"none", "live"}]
    /\ row = [m \in Members |-> NoRow]
    /\ req = {}
    /\ minted = {}
    /\ want = row
    /\ consented = {}
    /\ keyless = {}
    /\ promoted = {}

\* Clients know only uuids that were generated.
Begin(r, u) ==
    \/ \E key \in Keys : post_organization(r, u, key)
    \/ \E m \in minted : \/ \E key \in Keys : confirm(r, u, m, key)
                         \/ revoke_member(r, u, m)
                         \/ restore_member(r, u, m) \/ remove_member(r, u, m)
                         \/ \E t \in Types : update_member(r, u, m, t)
    \/ \E ids \in {S \in Lists : S \subseteq minted} :
                          \/ \E key \in Keys : bulk_confirm(r, u, ids, key)
                          \/ bulk_restore_member(r, u, ids)
                          \/ bulk_revoke_member(r, u, ids)
    \/ \E v \in Users, t \in Types : invite(r, u, v, t)
    \/ import_invite(r, u)
    \/ delete_organization(r, u)
    \/ delete_account(r, u)

OwnHandler(r, m) ==
    \/ accept(r, m) \/ reset_password_enrollment(r, m)
    \/ \E t \in Types : admin_set_org_type(r, m, t)
    \/ leave_organization(r, m)
    \/ import_delete(r, m)

Proceed(q) ==
    \/ \E m \in Members : load(q, m) \/ load_refused(q, m)
    \/ skip(q)
    \/ count(q)

Write(q) ==
    \/ \E m \in Members : create(q, m) \/ insert(q, m)
    \/ save(q) \/ delete(q) \/ purge(q) \/ drop(q) \/ forget(q)

Next ==
    \/ \E r \in Requests :
          /\ Free(r)
          /\ \/ \E u \in Users : Begin(r, u)
             \/ admin_delete_org(r)
             \/ \E m \in Members : OwnHandler(r, m)
    \/ \E q \in req : Proceed(q) \/ Write(q) \/ fail(q)

Spec == Init /\ [][Next]_vars

-----------------------------------------------------------------------------
(* Properties. *)

\* Every variable holds a value of its type; no user has two memberships, and
\* every one is of an organization and a user that exist.
TypeOK ==
    /\ org \in {"none", "live", "deleted"}
    /\ user \in [Users -> {"none", "live", "deleted"}]
    /\ live \subseteq minted /\ minted \subseteq Members
    /\ row \in [Members -> Row \cup {NoRow}] /\ want \in [Members -> Row \cup {NoRow}]
    /\ \A q \in req : IsRequest(q)
    /\ consented \subseteq Members /\ keyless \subseteq Members
    /\ promoted \subseteq Members \X (TYPE_OWNER .. TYPE_MANAGER)
    /\ \A m, n \in live : row[m].user = row[n].user => m = n
    /\ \A m \in live : org = "live" /\ user[row[m].user] = "live"

\* As long as the writes of a row did not overlap, it has in every column what
\* the last handler that meant to change that column wrote: no handler
\* that saves the whole row puts back what another one changed.
FieldsHold == \A m \in live : want[m] # NoRow => row[m] = want[m]

\* In no interleaving does a member have a role that neither the creation of the
\* organization, nor an owner, nor the server's administrator has given them, and
\* none that was taken away, or that they had when they were removed, unless a
\* copy of the row that was in flight then brings it back.
RolesGranted ==
    \A m \in live : row[m].atype # TYPE_USER => <<m, row[m].atype>> \in promoted

\* In no interleaving is someone a confirmed member who created the organization
\* neither, nor accepted an invitation, nor was restored in bulk; or without the
\* organization's key, unless the one who confirmed them gave none.
ConfirmedRightly ==
    \A m \in Members : Confirmed(m) => /\ m \in consented
                                       /\ row[m].akey \/ m \in keyless

\* leave_organization leaves an owner behind, when its count of the owners is
\* not stale by the time it deletes the row.
LeavesOwner ==
    \A q \in req : /\ q.at = "delete" /\ q.leaves /\ ~q.stale
                   /\ Free(q.id)' /\ Owners # {}
                   => Owners' # {}
=============================================================================
