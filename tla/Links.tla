------------------------------- MODULE Links -------------------------------
(* Who files what where, and who may see it: folders, collections, groups,   *)
(* members, and the junction tables that link them, ciphers and users.       *)
(*                                                                           *)
(* A handler loads the row it works on and then runs a list of statements,   *)
(* one per step and interleaved with those of other requests.  To replace    *)
(* the links of something it removes the old ones, then inserts the new ones *)
(* one by one; a failure of either is ignored.  The foreign keys of the      *)
(* junction tables are enforced.  Bulk handlers are a request per item.      *)
EXTENDS Naturals, Sequences, SequencesExt, FiniteSets

CONSTANTS
    Users,
    Ciphers,      \* ciphers of one organization
    Folders,      \* uuids that Folder::new may generate
    OwnerOf,      \* the user of a folder
    Collections,  \* uuids that Collection::new may generate
    Groups,       \* uuids that Group::new may generate
    Members,      \* uuids that Membership::new may generate
    UserOf,       \* the user of a membership
    AllAccess,    \* the memberships with access_all set
    Requests,     \* requests that may be in flight at once
    MaxRows       \* bound: rows created in all

\* What the constants have to be.
ConstantsOK ==
    /\ OwnerOf \in [Folders -> Users]
    /\ UserOf \in [Members -> Users]
    /\ AllAccess \subseteq Members
    /\ MaxRows \in Nat

VARIABLES
    rows,   \* the folders, collections, groups and members that exist
    links,  \* rows of the junction tables: <<table, left, right>>
    req,    \* requests in flight
    dead,   \* HISTORY: uuids whose row was once deleted
    gone    \* HISTORY: those deleted while no request was about to save them

vars == <<rows, links, req, dead, gone>>

Entities == Folders \cup Collections \cup Groups \cup Members

\* The uuids that a request can name.
Known == rows \cup dead

Present(e) == e \in rows \cup Users \cup Ciphers

Referred(e) == \E x \in links : e \in {x[2], x[3]}

\* The other ends of the links of e, which is on the left or on the right.
Lefts(t, e) == {x[2] : x \in {y \in links : y[1] = t /\ y[3] = e}}
Rights(t, e) == {x[3] : x \in {y \in links : y[1] = t /\ y[2] = e}}

-----------------------------------------------------------------------------
(* Statements. *)

Stmt(op, t, l, r) == [op |-> op, table |-> t, left |-> l, right |-> r]

Insert(t, l, r) == Stmt("insert", t, l, r)   \* INSERT, or update of the link
Unset(t, l, r) == Stmt("unset", t, l, r)     \* DELETE of one link
Clear(t, e) == Stmt("clear", t, e, e)        \* DELETE of all links of e
List(t, e) == Stmt("list", t, e, e)          \* SELECT of them, to unset each
Owned(c, u) == Stmt("owned", "folders_ciphers", c, u)   \* find_by_user: of these, the caller's
Grant(m, k) == Stmt("grant", "users_collections", m, k)      \* find_by_uuid, upsert
GrantAny(m, k) == Stmt("grant_any", "users_collections", m, k)
Save(e) == Stmt("save", "", e, e)
Drop(e) == Stmt("drop", "", e, e)

\* A statement for every element of a list in the request's body.
Each(S, Op(_)) == LET s == SetToSeq(S) IN [i \in DOMAIN s |-> Op(s[i])]

\* An optional list of the body is {} or {S}.
Optional(O, todo) == IF O = {} THEN <<>> ELSE todo

\* A request in flight: the statements to run, and what its links are to be
\* when it ends: among g.among, e is linked to g.want.  HISTORY: touched has
\* what others changed of this meanwhile, or a failed statement left undone.
GoalAmong(t, e, S, A) == [table |-> t, of |-> e, want |-> S, among |-> A]
Goal(t, e, S) == GoalAmong(t, e, S, Entities \cup Users \cup Ciphers)

Goals(O, t, e) == {Goal(t, e, S) : S \in O}

Free(r) == \A q \in req : q.id # r

Request(r, todo, goals) == [id |-> r, todo |-> todo, goals |-> goals, touched |-> {}]

Handler(r, todo, goals) ==
    /\ Free(r)
    /\ req' = req \cup {Request(r, todo, goals)}
    /\ UNCHANGED <<rows, links, dead, gone>>

\* HISTORY: the requests in S note what changed; a row is <<"row", e, e>>.
RowOf(e) == {<<"row", x, x>> : x \in {e} \cup (IF e \in Members THEN {UserOf[e]} ELSE {})}

About(y, g) ==
    \/ y[1] = g.table /\ g.of \in {y[2], y[3]}
    \/ y[1] = "row" /\ y[2] \in g.want \cup {g.of}

Touch(S, L) ==
    {[p EXCEPT !.touched = @ \cup {y \in L : \E g \in p.goals : About(y, g)}] : p \in S}

\* A new row is saved under a new uuid before its links.
Create(r, e, todo, goals) ==
    /\ Free(r)
    /\ e \notin Known
    /\ Cardinality(Known) < MaxRows
    /\ rows' = rows \cup {e}
    /\ req' = Touch(req, RowOf(e)) \cup {Request(r, todo, goals)}
    /\ UNCHANGED <<links, dead, gone>>
-----------------------------------------------------------------------------
(* Folders and filing. *)

OfOwner(u) == {f \in Folders : OwnerOf[f] = u}

post_folder(r, f) == f \in Folders /\ Create(r, f, <<>>, {})

\* MUTANT: the folder is saved without having been loaded.
put_folder_NotLoaded(r, f) == f \in Folders \cap Known /\ Handler(r, <<Save(f)>>, {})

put_folder(r, f) == f \in Folders \cap rows /\ Handler(r, <<Save(f)>>, {})

delete_folder(r, f) == f \in Folders \cap rows /\ Handler(r, <<Drop(f)>>, {})

\* MUTANT: the cipher stays in its old folder as well.
set_cipher_folder_Adds(r, u, c, F) ==
    Handler(r, Each(F, LAMBDA f : Insert("folders_ciphers", c, f)),
            {GoalAmong("folders_ciphers", c, F, F \cup OfOwner(u))})

\* set_cipher_folder, for one folder or none: what post_cipher, put_cipher,
\* put_cipher_partial and bulk_move end with.  It reads the links of the cipher,
\* then the folders of the caller, and unfiles the cipher from these only.
set_cipher_folder(r, u, c, F) ==
    Handler(r, <<List("folders_ciphers", c), Owned(c, u)>>
               \o Each(F, LAMBDA f : Insert("folders_ciphers", c, f)),
            {GoalAmong("folders_ciphers", c, F, F \cup OfOwner(u))})

\* import_ciphers: the folders, or the collections, of the file and then the
\* links of the ciphers to them.
import_ciphers(r, e, c) ==
    /\ e \in Folders \cup Collections
    /\ Create(r, e, <<Insert(IF e \in Folders THEN "folders_ciphers"
                             ELSE "ciphers_collections", c, e)>>, {})

-----------------------------------------------------------------------------
(* Collections. *)

\* Also what share_cipher and bulk_share end with.
put_cipher_collections(r, c, K) ==
    Handler(r, <<List("ciphers_collections", c)>>
               \o Each(K, LAMBDA k : Insert("ciphers_collections", c, k)),
            Goals({K}, "ciphers_collections", c))

bulk_collections(r, c, K, remove) ==
    Handler(r, Each(K, LAMBDA k : IF remove THEN Unset("ciphers_collections", c, k)
                                  ELSE Insert("ciphers_collections", c, k)), {})

\* The users that a list of memberships gives access to.
Granted(k, M) == Goal("users_collections", k, {UserOf[m] : m \in M \ AllAccess})
ToUsers(k, O) == Each(UNION O, LAMBDA m : Grant(m, k))
ToGroups(k, O) == Each(UNION O, LAMBDA g : Insert("collections_groups", k, g))

post_collection(r, k, M, G) ==
    /\ k \in Collections
    /\ Create(r, k, ToUsers(k, {M}) \o ToGroups(k, {G}),
              {Granted(k, M)} \cup Goals({G}, "collections_groups", k))

\* The lists of users and of groups are both optional.
put_collection(r, k, Ms, Gs) ==
    /\ k \in Collections \cap rows
    /\ Handler(r, <<Save(k)>>
                  \o Optional(Ms, <<Clear("users_collections", k)>> \o ToUsers(k, Ms))
                  \o Optional(Gs, <<Clear("collections_groups", k)>> \o ToGroups(k, Gs)),
               {Granted(k, M) : M \in Ms} \cup Goals(Gs, "collections_groups", k))

\* bulk_collection_access, for each of its collections.
bulk_collection_access(r, k, M, G) ==
    /\ k \in Collections \cap rows
    /\ Handler(r, <<Save(k), Clear("collections_groups", k)>> \o ToGroups(k, {G})
                  \o <<Clear("users_collections", k)>> \o ToUsers(k, {M}),
               {Granted(k, M)} \cup Goals({G}, "collections_groups", k))

\* Members with access_all get a link here.
set_collection_users(r, k, M, G) ==
    /\ k \in Collections \cap rows
    /\ Handler(r, <<List("users_collections", k)>>
                  \o Each(M, LAMBDA m : GrantAny(m, k))
                  \o <<Clear("collections_groups", k)>> \o ToGroups(k, {G}),
               {Goal("users_collections", k, {UserOf[m] : m \in M})}
               \cup Goals({G}, "collections_groups", k))

delete_collection(r, k) ==
    /\ k \in Collections \cap rows
    /\ Handler(r, <<Clear("ciphers_collections", k), Clear("users_collections", k),
                    Clear("collections_groups", k), Drop(k)>>, {})
-----------------------------------------------------------------------------
(* Groups. *)

ToMembers(g, O) == Each(UNION O, LAMBDA m : Insert("groups_users", g, m))
ToCollections(g, O) == Each(UNION O, LAMBDA k : Insert("collections_groups", k, g))

post_group(r, g, M, K) ==
    /\ g \in Groups
    /\ Create(r, g, ToMembers(g, {M}) \o ToCollections(g, {K}),
              Goals({M}, "groups_users", g) \cup Goals({K}, "collections_groups", g))

put_group(r, g, Ms, Ks) ==
    /\ g \in Groups \cap rows
    /\ Handler(r, <<Save(g)>>
                  \o Optional(Ms, <<List("groups_users", g)>> \o ToMembers(g, Ms))
                  \o Optional(Ks, <<Clear("collections_groups", g)>> \o ToCollections(g, Ks)),
               Goals(Ms, "groups_users", g) \cup Goals(Ks, "collections_groups", g))

set_group_users(r, g, M) ==
    /\ g \in Groups \cap rows
    /\ Handler(r, <<List("groups_users", g)>> \o ToMembers(g, {M}),
               Goals({M}, "groups_users", g))

remove_group_user(r, g, m) ==
    /\ g \in Groups \cap rows
    /\ Handler(r, <<Unset("groups_users", g, m)>>, {})

\* And bulk_delete_groups, for each of its groups.
delete_group(r, g) ==
    /\ g \in Groups \cap rows
    /\ Handler(r, <<Clear("groups_users", g), Clear("collections_groups", g), Drop(g)>>, {})

-----------------------------------------------------------------------------
(* Members.  What module Memberships says of their rows, without the links,  *)
(* is left out here.                                                         *)

OfUser(u, O) == Each(UNION O, LAMBDA k : Insert("users_collections", u, k))
OfMember(m, O) == Each(UNION O, LAMBDA g : Insert("groups_users", g, m))

\* The part of an invitation for one address.
invite(r, m, K, G) ==
    /\ m \in Members
    /\ \A n \in Members \cap rows : UserOf[n] # UserOf[m]
    /\ Create(r, m, OfUser(UserOf[m], {K}) \o OfMember(m, {G}), Goals({G}, "groups_users", m))

update_member(r, m, Ks, Gs) ==
    /\ m \in Members \cap rows
    /\ Handler(r, <<Save(m)>>
                  \o Optional(Ks, <<List("users_collections", UserOf[m])>>
                                  \o OfUser(UserOf[m], Ks))
                  \o Optional(Gs, <<List("groups_users", m)>> \o OfMember(m, Gs)),
               Goals(Ks, "users_collections", UserOf[m]) \cup Goals(Gs, "groups_users", m))

\* remove_member, leave_organization.
remove_member(r, m) == m \in Members \cap rows /\ Handler(r, <<Drop(m)>>, {})

-----------------------------------------------------------------------------
(* One statement of a request. *)

\* q goes on with todo after a statement that changed L.
Proceed(q, todo, L) ==
    req' = Touch(req \ {q}, L) \cup {[q EXCEPT !.todo = todo]}

\* MUTANT: links to rows that were deleted are inserted as well.
insert_NoForeignKeys(q, s) ==
    /\ s.op = "insert"
    /\ LET x == {<<s.table, s.left, s.right>>}
       IN  links' = links \cup x /\ Proceed(q, Tail(q.todo), x \ links)
    /\ UNCHANGED <<rows, dead, gone>>

\* INSERT ... ON CONFLICT.  It fails when either end does not exist.
insert(q, s) ==
    /\ s.op = "insert"
    /\ LET x == {y \in {<<s.table, s.left, s.right>>} : Present(y[2]) /\ Present(y[3])}
       IN  links' = links \cup x /\ Proceed(q, Tail(q.todo), x \ links)
    /\ UNCHANGED <<rows, dead, gone>>

unset(q, s) ==
    /\ s.op = "unset"
    /\ links' = links \ {<<s.table, s.left, s.right>>}
    /\ Proceed(q, Tail(q.todo), links \ links')
    /\ UNCHANGED <<rows, dead, gone>>

clear(q, s) ==
    /\ s.op = "clear"
    /\ links' = {x \in links : ~(x[1] = s.table /\ s.left \in {x[2], x[3]})}
    /\ Proceed(q, Tail(q.todo), links \ links')
    /\ UNCHANGED <<rows, dead, gone>>

\* The links read are unset one by one, after what is still to be read.
IsOwned(x) == x.op = "owned"

list(q, s) ==
    /\ s.op = "list"
    /\ LET read == {x \in links : x[1] = s.table /\ s.left \in {x[2], x[3]}}
           rest == Tail(q.todo)
       IN  Proceed(q, SelectSeq(rest, IsOwned)
                      \o Each(read, LAMBDA x : Unset(x[1], x[2], x[3]))
                      \o SelectSeq(rest, LAMBDA x : ~IsOwned(x)), {})
    /\ UNCHANGED <<rows, links, dead, gone>>

\* Of the links read before, those to folders found to be the caller's are unset.
owned(q, s) ==
    /\ IsOwned(s)
    /\ Proceed(q, SelectSeq(Tail(q.todo), LAMBDA x :
                     x.op = "unset" => x.right \in rows \cap OfOwner(s.right)), {})
    /\ UNCHANGED <<rows, links, dead, gone>>

\* Membership::find_by_uuid finds the user, who is then given a link.
grant(q, s) ==
    /\ s.op \in {"grant", "grant_any"}
    /\ LET todo == IF s.left \in rows /\ (s.op = "grant" => s.left \notin AllAccess)
                   THEN <<Insert(s.table, UserOf[s.left], s.right)>> \o Tail(q.todo)
                   ELSE Tail(q.todo)
       IN  Proceed(q, todo, {})
    /\ UNCHANGED <<rows, links, dead, gone>>

\* The upsert of the row that was loaded; a user has one membership.
save(q, s) ==
    /\ s.op = "save"
    /\ \A m \in Members \cap rows : s.left \in Members /\ s.left # m => UserOf[m] # UserOf[s.left]
    /\ rows' = rows \cup {s.left}
    /\ Proceed(q, Tail(q.todo), IF s.left \in rows THEN {} ELSE RowOf(s.left))
    /\ UNCHANGED <<links, dead, gone>>

Savers(e) == {p \in req : \E i \in DOMAIN p.todo : p.todo[i] = Save(e)}

\* DELETE.  It fails while a link refers to the row.
drop(q, s) ==
    /\ s.op = "drop"
    /\ ~Referred(s.left)
    /\ rows' = rows \ {s.left}
    /\ dead' = dead \cup {s.left}
    /\ gone' = IF Savers(s.left) = {} THEN gone \cup {s.left} ELSE gone
    /\ Proceed(q, Tail(q.todo), IF s.left \in rows THEN RowOf(s.left) ELSE {})
    /\ UNCHANGED links

\* HISTORY: what a failed statement leaves as it was.
Undone(s) ==
    CASE s.op \in {"grant", "grant_any"} -> {<<s.table, UserOf[s.left], s.right>>}
      [] s.op \in {"list", "owned", "clear"} -> {x \in links : x[1] = s.table /\ s.left \in {x[2], x[3]}}
      [] OTHER -> {<<s.table, s.left, s.right>>}

\* A statement that fails.  The handler stops when it was about the row itself
\* and ignores it otherwise; without the caller's folders it unsets nothing.
fail(q, s) ==
    /\ req' = (req \ {q}) \cup
              IF s.op \in {"save", "drop"} THEN {}
              ELSE {[q EXCEPT !.todo = SelectSeq(Tail(@), LAMBDA x : IsOwned(s) => x.op # "unset"),
                              !.touched = @ \cup Undone(s)]}
    /\ UNCHANGED <<rows, links, dead, gone>>

step(q) ==
    \/ insert(q, Head(q.todo))
    \/ unset(q, Head(q.todo))
    \/ clear(q, Head(q.todo))
    \/ list(q, Head(q.todo))
    \/ owned(q, Head(q.todo))
    \/ grant(q, Head(q.todo))
    \/ save(q, Head(q.todo))
    \/ drop(q, Head(q.todo))
    \/ fail(q, Head(q.todo))

respond(q) ==
    /\ q.todo = <<>>
    /\ req' = req \ {q}
    /\ UNCHANGED <<rows, links, dead, gone>>
-----------------------------------------------------------------------------
Init ==
    /\ rows = {}
    /\ links = {}
    /\ req = {}
    /\ dead = {}
    /\ gone = {}

\* What a list in a body may be: uuids of this kind that were once handed out.
Lists(S) == SUBSET (S \cap Known)
Option(S) == {{}} \cup {{T} : T \in Lists(S)}

Filing(r) ==
    \/ \E f \in Folders : post_folder(r, f) \/ put_folder(r, f) \/ delete_folder(r, f)
    \/ \E u \in Users, c \in Ciphers, F \in {{}} \cup {{f} : f \in Folders \cap Known} :
          set_cipher_folder(r, u, c, F)
    \/ \E e \in Folders \cup Collections, c \in Ciphers : import_ciphers(r, e, c)
    \/ \E c \in Ciphers, K \in Lists(Collections) :
          \/ put_cipher_collections(r, c, K)
          \/ \E remove \in BOOLEAN : bulk_collections(r, c, K, remove)

CollectionAccess(r) ==
    \E k \in Collections :
       \/ delete_collection(r, k)
       \/ \E M \in Lists(Members), G \in Lists(Groups) :
             \/ post_collection(r, k, M, G)
             \/ bulk_collection_access(r, k, M, G)
             \/ set_collection_users(r, k, M, G)
       \/ \E Ms \in Option(Members), Gs \in Option(Groups) : put_collection(r, k, Ms, Gs)

GroupAccess(r) ==
    \E g \in Groups :
       \/ delete_group(r, g)
       \/ \E m \in Members \cap Known : remove_group_user(r, g, m)
       \/ \E M \in Lists(Members) : set_group_users(r, g, M)
       \/ \E M \in Lists(Members), K \in Lists(Collections) : post_group(r, g, M, K)
       \/ \E Ms \in Option(Members), Ks \in Option(Collections) : put_group(r, g, Ms, Ks)

MemberAccess(r) ==
    \E m \in Members :
       \/ remove_member(r, m)
       \/ \E K \in Lists(Collections), G \in Lists(Groups) : invite(r, m, K, G)
       \/ \E Ks \in Option(Collections), Gs \in Option(Groups) : update_member(r, m, Ks, Gs)

Next ==
    \/ \E r \in Requests :
          Free(r) /\ (Filing(r) \/ CollectionAccess(r) \/ GroupAccess(r) \/ MemberAccess(r))
    \/ \E q \in req : respond(q) \/ (q.todo # <<>> /\ step(q))

Spec == Init /\ [][Next]_vars

-----------------------------------------------------------------------------
(* Properties. *)

\* Types.  Every link refers to rows that exist, whatever is deleted while it
\* is about to be inserted.
TypeOK ==
    /\ rows \subseteq Entities
    /\ gone \subseteq dead /\ dead \subseteq Entities
    /\ \A x \in links : Present(x[2]) /\ Present(x[3])
    /\ \A q \in req : q.id \in Requests

\* A user x can only be given access through a membership.
Able(x) == Present(x) /\ (x \in Users => \E m \in Members \cap rows : UserOf[m] = x)

Excused(q, g, x) ==
    \E y \in q.touched : y[1] \in {g.table, "row"} /\ {y[2], y[3]} \subseteq {x, g.of}

\* When a handler that replaces the links of something ends (set_cipher_folder,
\* put_cipher_collections, put_collection, set_collection_users, put_group,
\* set_group_users, update_member, ...) these are the ones asked for, except
\* where another request changed a link or one of its ends while it ran, or
\* where a statement failed: old access does not survive, new access is there.
ReplaceExact ==
    \A q \in req : q.todo = <<>> =>
        \A g \in q.goals :
            LET now == Lefts(g.table, g.of) \cup Rights(g.table, g.of)
            IN  \A x \in g.among :
                   \/ x \in now /\ x \in g.want
                   \/ x \notin now /\ (x \in g.want => ~Able(x))
                   \/ Excused(q, g, x)

\* A folder, collection, group or membership deleted while no request was about
\* to save it stays deleted: save inserts rows that are gone.
DeletedStays == gone \cap rows = {}

\* Every link refers to rows that exist, and what was deleted while no request
\* was about to save it stays deleted.
LinksIntact == TypeOK /\ DeletedStays
=============================================================================
