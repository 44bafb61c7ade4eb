------------------------------ MODULE Deletion ------------------------------
(* The deletion of an account or of an organization, as a walk by hand over  *)
(* the tables that refer to it: delete_account, admin_delete_user,           *)
(* delete_recover_token, delete_organization and admin_delete_org.           *)
(*                                                                           *)
(* Each DELETE is a step of its own and fails, as a whole, while rows of     *)
(* another table refer to one of its rows.  The module keeps, for each owner *)
(* and apart from the others, which tables hold rows of theirs.  What these  *)
(* rows say is the business of the other modules.                            *)
EXTENDS Naturals, Sequences, FiniteSets

CONSTANTS
    Accounts,  \* users.uuid
    Orgs,      \* organizations.uuid
    Requests,  \* requests that may be in flight at once
    MaxRows    \* bound: tables that hold rows of an owner, its own included

ASSUME ConstantsAssumption ==
    /\ Accounts \cap Orgs = {}
    /\ MaxRows \in [Accounts \cup Orgs -> Nat]

VARIABLES
    rows,     \* the tables that hold rows of each owner
    objects,  \* the tables of each owner whose files are in the buckets
    req,      \* requests in flight
    gone      \* HISTORY: owners deleted while no one was about to save them

vars == <<rows, objects, req, gone>>

Owners == Accounts \cup Orgs

-----------------------------------------------------------------------------
(* The schema. *)

\* The row in users or in organizations.
Root == "root"

\* The foreign keys, from table to table.  "shared_links" stands for folders
\* and favorites of other users that hold a cipher of this owner.
AccountKeys ==
    ({"favorites", "archives", "folders", "ciphers", "sends", "auth_requests",
      "emergency_access", "sso_users", "devices", "users_collections",
      "users_organizations", "twofactor", "twofactor_incomplete"} \X {Root})
    \cup ({"favorites", "archives", "folders_ciphers", "attachments",
           "ciphers_collections", "shared_links"} \X {"ciphers"})
    \cup {<<"folders_ciphers", "folders">>, <<"groups_users", "users_organizations">>}

OrgKeys ==
    ({"collections", "groups", "ciphers", "users_organizations", "org_policies",
      "organization_api_key"} \X {Root})
    \cup ({"attachments", "shared_links", "archives", "ciphers_collections"} \X {"ciphers"})
    \cup ({"ciphers_collections", "users_collections", "collections_groups"} \X {"collections"})
    \cup ({"collections_groups", "groups_users"} \X {"groups"})
    \cup {<<"groups_users", "users_organizations">>}

Keys(o) == IF o \in Accounts THEN AccountKeys ELSE OrgKeys

\* The tables whose foreign keys are ON DELETE CASCADE; event has none.
Cascading == {"archives", "sso_users"}

Tables(o) == {k[1] : k \in Keys(o)} \cup {Root, "event"}

\* The tables with an object in a bucket for a row: attachments, file sends.
Stored(o) == {"attachments", "sends"} \cap Tables(o)

\* Rows of another table keep those of t from being deleted.
Referred(o, t) == \E k \in Keys(o) : k[2] = t /\ k[1] \in rows[o] \ Cascading

\* The rows that a DELETE takes along.
Taken(o, t) == {t} \cup {c \in Cascading : <<c, t>> \in Keys(o)}

-----------------------------------------------------------------------------
(* The lists of statements. *)

\* MUTANT: folders before the rows that refer to them.
cleanup_FoldersFirst ==
    <<"favorites", "folders", "folders_ciphers", "attachments", "ciphers_collections",
      "ciphers", "sends", "auth_requests", "emergency_access", "event", "sso_users",
      "devices", "users_collections", "groups_users", "users_organizations", "twofactor",
      Root>>

cleanup ==
    <<"favorites", "folders_ciphers", "folders", "attachments", "ciphers_collections",
      "ciphers", "sends", "auth_requests", "emergency_access", "event", "sso_users",
      "devices", "users_collections", "groups_users", "users_organizations", "twofactor",
      Root>>

org_cleanup ==
    <<"attachments", "ciphers_collections", "users_collections", "collections_groups",
      "collections", "groups_users", "groups", "ciphers", "users_organizations",
      "org_policies", "organization_api_key", "event", Root>>

admin_org_cleanup ==
    <<"ciphers_collections", "users_collections", "collections_groups", "collections",
      "groups_users", "groups", "ciphers", "users_organizations", "org_policies",
      "organization_api_key", Root>>

AccountDeletions == {"delete_account", "admin_delete_user", "delete_recover_token"}
OrgDeletions == {"delete_organization", "admin_delete_org"}

Walk(do) ==
    CASE do \in {"delete_account", "admin_delete_user"} -> cleanup
      [] do = "delete_recover_token" -> <<Root>>
      [] do = "delete_organization" -> org_cleanup
      [] do = "admin_delete_org" -> admin_org_cleanup

\* The tables that a deletion empties.
Walked(do) == {Walk(do)[i] : i \in DOMAIN Walk(do)} \cup Cascading

\* The admin handlers run every statement, and answer "Deleted", whatever fails.
Ignores(do) == do \in {"admin_delete_user", "admin_delete_org"}

-----------------------------------------------------------------------------
(* Requests in flight.  files are the rows with a file that a handler found.  *)
(* A deletion is at the statement Walk(do)[next].  calm says that since it     *)
(* began no one else wrote, and no statement and no call to a bucket failed,  *)
(* here or in a deletion that runs at the same time; covered, that moreover   *)
(* it began with rows, and files of rows, in the tables that it walks only.   *)

Doing == {"write"} \cup AccountDeletions \cup OrgDeletions

Free(r) == \A q \in req : q.id # r

Request(r, do, o, at) ==
    [id |-> r, do |-> do, owner |-> o, at |-> at, next |-> 0,
     files |-> IF do = "write" THEN rows[o] \cap Stored(o) ELSE {},
     covered |-> /\ do # "write" /\ rows[o] \subseteq Walked(do) /\ objects[o] \subseteq rows[o]
                 /\ \A p \in req : p.owner = o => p.calm,
     calm |-> TRUE]

begin(r, do, o, at) ==
    /\ Free(r)
    /\ req' = req \cup {Request(r, do, o, at)}
    /\ UNCHANGED <<rows, objects, gone>>

\* Headers and require_org_admin, which find the row of the owner; the admin
\* token finds none.
delete_account(r, o) == Root \in rows[o] /\ begin(r, "delete_account", o, "sweep")
admin_delete_user(r, o) == begin(r, "admin_delete_user", o, "sweep")
delete_recover_token(r, o) == Root \in rows[o] /\ begin(r, "delete_recover_token", o, "sweep")
delete_organization(r, o) ==
    "users_organizations" \in rows[o] /\ begin(r, "delete_organization", o, "sweep")
admin_delete_org(r, o) == begin(r, "admin_delete_org", o, "sweep")

\* MUTANT: a request that names a row that is gone is let in.
write_Unchecked(r, o) == begin(r, "write", o, "write")

\* Any other handler, once it has loaded the row.
write(r, o) == Root \in rows[o] /\ begin(r, "write", o, "write")

Goto(q, at) == [q EXCEPT !.at = at]

Replace(q, new) == req' = (req \ {q}) \cup {new}

\* What a write of q, or a failure, does to the deletions of the same owner.
Disturbed(q, Q) ==
    {IF p.owner = q.owner /\ p.do # "write" THEN [p EXCEPT !.calm = FALSE, !.covered = FALSE]
     ELSE p : p \in Q}

-----------------------------------------------------------------------------
(* The steps of the other handlers. *)

\* An INSERT, which the foreign keys let through.
insert(q, t) ==
    /\ q.at = "write"
    /\ t \in Tables(q.owner) \ (rows[q.owner] \cup {Root})
    /\ \A k \in Keys(q.owner) : k[1] = t => k[2] \in rows[q.owner]
    /\ Cardinality(rows[q.owner]) < MaxRows[q.owner]
    /\ rows' = [rows EXCEPT ![q.owner] = @ \cup {t}]
    /\ req' = Disturbed(q, req)
    /\ UNCHANGED <<objects, gone>>

\* User::save and Organization::save of the row that was loaded, an upsert.
save(q) ==
    /\ q.at = "write"
    /\ Root \notin rows[q.owner]
    /\ rows' = [rows EXCEPT ![q.owner] = @ \cup {Root}]
    /\ req' = Disturbed(q, req)
    /\ UNCHANGED <<objects, gone>>

\* The upload of a file, for a row that the handler has loaded.
upload(q, t) ==
    /\ q.at = "write"
    /\ t \in Stored(q.owner) \cap (q.files \cup rows[q.owner])
    /\ t \notin objects[q.owner]
    /\ objects' = [objects EXCEPT ![q.owner] = @ \cup {t}]
    /\ req' = Disturbed(q, req)
    /\ UNCHANGED <<rows, gone>>

-----------------------------------------------------------------------------
(* The steps of a deletion. *)

\* On to the next statement that finds rows, or the last one, or the answer.
\* Those in between change nothing, and a row that is inserted too late for one
\* of them is inserted after this step.
Onward(q, R) ==
    LET later == {i \in DOMAIN Walk(q.do) : i > q.next /\ Walk(q.do)[i] \in R \cup {Root}}
    IN  IF later = {} THEN [q EXCEPT !.at = "done"]
        ELSE [q EXCEPT !.at = "walk", !.next = CHOOSE i \in later : \A j \in later : i <= j]

Table(q) == Walk(q.do)[q.next]

\* MUTANT: the objects of attachments are left to the hourly trigger.
found_Sends(q) == {"sends"} \cap rows[q.owner] \cap objects[q.owner]

\* The objects of the rows that are there.
found(q) == Stored(q.owner) \cap rows[q.owner] \cap objects[q.owner]

\* They are deleted, except for those of F: if that fails, no one minds.
sweep(q, F) ==
    /\ q.at = "sweep"
    /\ F \subseteq found(q)
    /\ objects' = [objects EXCEPT ![q.owner] = @ \ (found(q) \ F)]
    /\ LET Q == (req \ {q}) \cup {Onward(q, rows[q.owner])}
       IN  req' = IF F = {} THEN Q ELSE Disturbed(q, Q)
    /\ UNCHANGED <<rows, gone>>

\* The requests that may still save the row of o.
Savers(o) == {p \in req : p.do = "write" /\ p.owner = o}

\* The DELETE goes through.
delete(q) ==
    /\ q.at = "walk"
    /\ Table(q) \in rows[q.owner] => ~Referred(q.owner, Table(q))
    /\ LET left == IF Table(q) \in rows[q.owner]
                   THEN rows[q.owner] \ Taken(q.owner, Table(q)) ELSE rows[q.owner]
       IN  /\ rows' = [rows EXCEPT ![q.owner] = left]
           /\ Replace(q, Onward(q, left))
    /\ gone' = IF Table(q) = Root /\ ~Ignores(q.do) /\ Savers(q.owner) = {}
               THEN gone \cup {q.owner} ELSE gone
    /\ UNCHANGED objects

\* MUTANT: delete_account ignores the error of its last statement.
refuse_LastIgnored(q) ==
    /\ q.at = "walk"
    /\ Table(q) \in rows[q.owner] /\ Referred(q.owner, Table(q))
    /\ Replace(q, IF Ignores(q.do) \/ Table(q) = Root
                  THEN Onward(q, rows[q.owner]) ELSE Goto(q, "refused"))
    /\ gone' = IF Table(q) = Root /\ ~Ignores(q.do) THEN gone \cup {q.owner} ELSE gone
    /\ UNCHANGED <<rows, objects>>

\* A foreign key refuses it.
refuse(q) ==
    /\ q.at = "walk"
    /\ Table(q) \in rows[q.owner] /\ Referred(q.owner, Table(q))
    /\ Replace(q, IF Ignores(q.do) THEN Onward(q, rows[q.owner]) ELSE Goto(q, "refused"))
    /\ UNCHANGED <<rows, objects, gone>>

\* It fails for another reason.
fail(q) ==
    /\ q.at = "walk"
    /\ req' = Disturbed(q, (req \ {q}) \cup (IF Ignores(q.do) THEN {Onward(q, rows[q.owner])} ELSE {}))
    /\ UNCHANGED <<rows, objects, gone>>

respond(q) ==
    /\ q.at \in {"write", "done", "refused"}
    /\ req' = req \ {q}
    /\ UNCHANGED <<rows, objects, gone>>

-----------------------------------------------------------------------------

Init ==
    /\ rows \in [Owners -> {{}, {Root}, {Root, "users_organizations"}}]
    /\ \A o \in Owners : "users_organizations" \in rows[o] <=> rows[o] # {} /\ o \in Orgs
    /\ objects = [o \in Owners |-> {}]
    /\ req = {}
    /\ gone = {}

Next ==
    \/ \E r \in Requests :
          /\ Free(r)
          /\ \/ \E o \in Accounts :
                   delete_account(r, o) \/ admin_delete_user(r, o) \/ delete_recover_token(r, o)
             \/ \E o \in Orgs : delete_organization(r, o) \/ admin_delete_org(r, o)
             \/ \E o \in Owners : write(r, o)
    \/ \E q \in req :
          \/ \E t \in Tables(q.owner) : insert(q, t) \/ upload(q, t)
          \/ \E F \in SUBSET Stored(q.owner) : sweep(q, F)
          \/ save(q) \/ delete(q) \/ refuse(q) \/ fail(q) \/ respond(q)

Spec == Init /\ [][Next]_vars

-----------------------------------------------------------------------------
(* Properties. *)

\* Requests are well formed, and every row refers to rows that exist, whatever
\* is deleted under the handlers that insert.
TypeOK ==
    /\ \A o \in Owners :
          /\ rows[o] \subseteq Tables(o)
          /\ \A k \in Keys(o) : k[1] \in rows[o] => k[2] \in rows[o]
          /\ objects[o] \subseteq Stored(o)
    /\ \A q, p \in req : q.id = p.id => q = p
    /\ \A q \in req :
          /\ q.id \in Requests /\ q.do \in Doing /\ q.owner \in Owners
          /\ q.at \in {"write", "sweep", "walk", "done", "refused"}
          /\ q.files \subseteq Stored(q.owner)
          /\ q.at = "walk" => q.next \in DOMAIN Walk(q.do)
    /\ gone \subseteq Owners

\* A deletion that no one else's write disturbed, of an owner with rows in the
\* tables it walks only, is not refused by a foreign key and leaves nothing
\* behind: no row, no event and no object in a bucket.
DeletesAll ==
    \A q \in req :
        q.covered
          => /\ q.at # "refused"
             /\ q.at = "done" => rows[q.owner] = {} /\ objects[q.owner] = {}

\* An account or organization whose deletion was answered with success is gone
\* for good, unless a request that had loaded the row before was in flight.
DeletedStays == \A o \in gone : Root \notin rows[o]

\* delete_account walks through every table that refers to the account: with
\* no one else writing, a foreign key does not refuse it.
WalksOwnedRows ==
    \A q \in req : q.do = "delete_account" /\ q.calm => q.at # "refused"
=============================================================================
