---------------------------- MODULE ServerAccess ----------------------------
(***************************************************************************)
(* Who may see and change an organization's item in the upstream server    *)
(* (src/src): the access rules of db/models/cipher.rs, collection.rs and   *)
(* group.rs, which the code writes several times over as separate queries, *)
(* and the handlers of api/core/organizations.rs and ciphers.rs that       *)
(* replace the rows those queries read.                                    *)
(*                                                                         *)
(* A handler is a list of statements, `todo[r]`, run one at a time: the    *)
(* server has no transactions, so the statements of two requests           *)
(* interleave and a statement that fails leaves the ones before it done.   *)
(* The organization has one item; a link row exists when its entry is not  *)
(* None.  The owner who sends the administrative requests, and whom every  *)
(* guard of auth.rs admits, is not one of Members.                         *)
(***************************************************************************)
EXTENDS Integers, Sequences, FiniteSets

CONSTANTS
    Members,      \* memberships whose rights are followed
    Collections,  \* collections of the organization
    Groups,       \* groups of the organization
    Flags,        \* link rights in use: records [ro, hp, mg]
    Grants,       \* bound: the rights a request gives, a subset of Flags
    Requests,     \* request slots
    None,         \* no row
    MaxOps        \* bound: requests started

VARIABLES
    groups_on,   \* CONFIG.org_groups_enabled()
    member,      \* users_organizations: [status, atype, all] or None
    coll,        \* collections rows
    group,       \* groups rows: access_all, or None
    gu,          \* groups_users rows
    uc,          \* users_collections rows
    cg,          \* collections_groups rows
    cc,          \* ciphers_collections rows of the item
    todo,        \* statements each request has left
    ops,         \* requests started
    left         \* HISTORY: members removed while nothing else ran

vars == <<groups_on, member, coll, group, gu, uc, cg, cc, todo, ops, left>>

Statuses == {"Invited", "Accepted", "Confirmed"}
Types == {"Admin", "Manager", "User"}

-----------------------------------------------------------------------------
(* The rows a rule's joins reach.                                          *)

Confirmed(m) == member[m] # None /\ member[m].status = "Confirmed"
IsAdmin(m) == member[m] # None /\ member[m].atype = "Admin"
AccessAll(m) == member[m] # None /\ member[m].all

\* Membership::has_full_access
has_full_access(m) == Confirmed(m) /\ (AccessAll(m) \/ IsAdmin(m))

\* groups_users joined with groups through the membership
GroupsOf(m) == {g \in Groups : member[m] # None /\ <<g, m>> \in gu /\ group[g] # None}

\* GroupUser::has_full_access_by_member, Group::is_in_full_access_group
full_access_group(m) == \E g \in GroupsOf(m) : group[g].all

\* GroupUser::has_access_to_collection_by_member
group_links(m, c) == {cg[c][g] : g \in {h \in GroupsOf(m) : cg[c][h] # None}}

\* most permissive: restrictions are ANDed, manage is ORed
Combine(rows) == [ro |-> \A f \in rows : f.ro,
                  hp |-> \A f \in rows : f.hp,
                  mg |-> \E f \in rows : f.mg]

-----------------------------------------------------------------------------
(* Rules about the item.  An Option is a set of at most one value.         *)

Full == [ro |-> FALSE, hp |-> FALSE, mg |-> TRUE]

is_in_full_access_group(m) == groups_on /\ full_access_group(m)

get_user_collections_access_flags(m) == {uc[m][c] : c \in {d \in cc : uc[m][d] # None}}

get_group_collections_access_flags(m) ==
    IF groups_on THEN UNION {group_links(m, c) : c \in cc} ELSE {}

Restrictions(rows) == IF rows = {} THEN {} ELSE {Combine(rows)}

\* one item on its own: the user's links, the groups' only when there is none
get_access_restrictions(m) ==
    IF has_full_access(m) \/ is_in_full_access_group(m)
    THEN {Full}
    ELSE Restrictions(IF get_user_collections_access_flags(m) # {}
                      THEN get_user_collections_access_flags(m)
                      ELSE get_group_collections_access_flags(m))

is_write_accessible_to_user(m) == \E f \in get_access_restrictions(m) : ~f.ro \/ f.mg

is_in_editable_collection_by_user(m) ==
    \E f \in get_access_restrictions(m) : (~f.ro /\ ~f.hp) \/ f.mg

\* CipherSyncData: get_collections_with_cipher_by_user ...
sync_collections(m) ==
    {c \in cc \cap coll : /\ member[m] # None
                          /\ \/ uc[m][c] # None \/ AccessAll(m) \/ IsAdmin(m)
                             \/ full_access_group(m) \/ group_links(m, c) # {}}

\* ... and, per collection, the user's link or else the groups' combined one
sync_rows(m) ==
    LET groupLinks(c) == IF groups_on THEN group_links(m, c) ELSE {}
        linked == {c \in sync_collections(m) : uc[m][c] # None \/ groupLinks(c) # {}}
    IN  {IF uc[m][c] # None THEN uc[m][c] ELSE Combine(groupLinks(c)) : c \in linked}

\* get_access_restrictions on the data of a full sync
sync_access_restrictions(m) ==
    IF has_full_access(m) \/ is_in_full_access_group(m)
    THEN {Full}
    ELSE Restrictions(sync_rows(m))

find_by_user_AnyStatus(m, visible_only) ==
    /\ member[m] # None
    /\ \/ AccessAll(m)
       \/ \E c \in cc : uc[m][c] # None
       \/ groups_on /\ (full_access_group(m) \/ \E c \in cc : group_links(m, c) # {})
       \/ ~visible_only /\ IsAdmin(m)

\* Cipher::find_by_user returns the item
find_by_user(m, visible_only) ==
    /\ Confirmed(m)
    /\ \/ AccessAll(m)
       \/ \E c \in cc : uc[m][c] # None
       \/ groups_on /\ (full_access_group(m) \/ \E c \in cc : group_links(m, c) # {})
       \/ ~visible_only /\ IsAdmin(m)

Writes(rows) == \E f \in rows : ~f.ro

\* without groups the membership is inner-joined, with them left-joined
get_collections(m) ==
    {c \in cc \cap coll :
        \/ AccessAll(m)
        \/ (groups_on \/ member[m] # None) /\ uc[m][c] # None /\ ~uc[m][c].ro
        \/ groups_on /\ (full_access_group(m) \/ Writes(group_links(m, c)))}

get_admin_collections(m) ==
    get_collections(m) \cup {c \in cc \cap coll : IsAdmin(m)}

-----------------------------------------------------------------------------
(* Rules about a collection.                                               *)

is_writable_by_user_NoGroupAll(c, m) ==
    /\ c \in coll /\ member[m] # None
    /\ \/ IsAdmin(m) \/ AccessAll(m)
       \/ uc[m][c] # None /\ ~uc[m][c].ro
       \/ groups_on /\ Writes(group_links(m, c))

is_writable_by_user(c, m) ==
    /\ c \in coll /\ member[m] # None
    /\ \/ IsAdmin(m) \/ AccessAll(m)
       \/ uc[m][c] # None /\ ~uc[m][c].ro
       \/ groups_on /\ (full_access_group(m) \/ Writes(group_links(m, c)))

\* the two rules below do not ask whether groups are enabled
hide_passwords_for_user(c, m) ==
    /\ c \in coll
    /\ \/ uc[m][c] # None /\ uc[m][c].hp
       \/ IsAdmin(m) \/ AccessAll(m) \/ full_access_group(m)
       \/ \E f \in group_links(m, c) : f.hp

is_coll_manageable_by_user(c, m) ==
    /\ c \in coll
    /\ \/ uc[m][c] # None /\ uc[m][c].mg
       \/ IsAdmin(m) \/ AccessAll(m) \/ full_access_group(m)
       \/ \E f \in group_links(m, c) : f.mg

\* Collection::find_by_user_uuid: the collections of a sync
find_by_user_uuid(m) ==
    {c \in coll : /\ Confirmed(m)
                  /\ \/ uc[m][c] # None \/ AccessAll(m)
                     \/ groups_on /\ (full_access_group(m) \/ group_links(m, c) # {})}

find_by_uuid_and_user(c, m) ==
    /\ c \in coll
    /\ \/ uc[m][c] # None \/ AccessAll(m) \/ IsAdmin(m)
       \/ groups_on /\ (full_access_group(m) \/ group_links(m, c) # {})

can_access_collection(c, m) ==
    /\ Confirmed(m)
    /\ \/ has_full_access(m) \/ uc[m][c] # None
       \/ groups_on /\ (full_access_group(m) \/ group_links(m, c) # {})

\* get_org_collections_details: the collections it marks as assigned
get_org_collections_details(m) ==
    {c \in coll : /\ Confirmed(m)
                  /\ \/ has_full_access(m) \/ uc[m][c] # None
                     \/ groups_on /\ (full_access_group(m) \/ group_links(m, c) # {})}

IsManager(m) == member[m] # None /\ member[m].atype = "Manager"
Shut == [ro |-> TRUE, hp |-> TRUE, mg |-> FALSE]
Managed(f, m) == [f EXCEPT !.mg = IsManager(m) /\ (f.mg \/ (~f.ro /\ ~f.hp))]

\* Collection::to_json_details of a full sync ...
sync_details(c, m) ==
    LET groupLinks == IF groups_on THEN group_links(m, c) ELSE {}
    IN  IF ~Confirmed(m) THEN Shut
        ELSE IF has_full_access(m)
             THEN [Full EXCEPT !.mg = member[m].atype \in {"Admin", "Manager"}]
        ELSE IF uc[m][c] # None THEN Managed(uc[m][c], m)
        ELSE IF groupLinks # {} THEN Managed(Combine(groupLinks), m)
        ELSE [Full EXCEPT !.mg = FALSE]

\* ... and of one collection on its own
to_json_details(c, m) ==
    LET ro == ~is_writable_by_user(c, m)
        hp == hide_passwords_for_user(c, m)
    IN  IF ~Confirmed(m) THEN Shut
        ELSE IF has_full_access(m)
             THEN [Full EXCEPT !.mg = member[m].atype \in {"Admin", "Manager"}]
        ELSE IF IsManager(m) /\ is_coll_manageable_by_user(c, m) THEN Full
        ELSE [ro |-> ro, hp |-> hp, mg |-> IsManager(m) /\ ~ro /\ ~hp]

-----------------------------------------------------------------------------
(* Statements.  Each is one closure handed to the database.                *)

Running(r, op) == todo[r] # <<>> /\ Head(todo[r])[1] = op
Arg(r, i) == Head(todo[r])[i]
Continue(r) == todo' = [todo EXCEPT ![r] = Tail(@)]
Abort(r) == todo' = [todo EXCEPT ![r] = <<>>]

\* A row whose parent is gone is not written: SQLite and MySQL fall back to an
\* UPDATE that finds nothing and reports success, PostgreSQL reports the error.
SaveLink(r, parents, write) ==
    IF parents THEN write /\ Continue(r)
    ELSE /\ Continue(r) \/ Abort(r)
         /\ UNCHANGED <<gu, uc, cg>>

\* A row other rows still refer to is not deleted, and the error ends the handler.
DeleteRow(r, children, delete) ==
    IF children THEN Abort(r) /\ UNCHANGED <<member, coll, group>>
    ELSE delete /\ Continue(r)

Same == UNCHANGED <<groups_on, ops, left>>

CollectionUser_save(r) ==
    /\ Running(r, "uc")
    /\ SaveLink(r, Arg(r, 3) \in coll,
                uc' = [uc EXCEPT ![Arg(r, 2)][Arg(r, 3)] = Arg(r, 4)] /\ UNCHANGED <<gu, cg>>)
    /\ Same /\ UNCHANGED <<member, coll, group, cc>>

CollectionGroup_save(r) ==
    /\ Running(r, "cg")
    /\ SaveLink(r, Arg(r, 2) \in coll /\ group[Arg(r, 3)] # None,
                cg' = [cg EXCEPT ![Arg(r, 2)][Arg(r, 3)] = Arg(r, 4)] /\ UNCHANGED <<gu, uc>>)
    /\ Same /\ UNCHANGED <<member, coll, group, cc>>

GroupUser_save(r) ==
    /\ Running(r, "gu")
    /\ SaveLink(r, group[Arg(r, 2)] # None /\ member[Arg(r, 3)] # None,
                gu' = gu \cup {<<Arg(r, 2), Arg(r, 3)>>} /\ UNCHANGED <<uc, cg>>)
    /\ Same /\ UNCHANGED <<member, coll, group, cc>>

\* one turn of the `for user in data.users` loops: a member who is gone is an
\* error, one with access_all needs no link
user_turn(r) ==
    /\ Running(r, "user")
    /\ LET m == Arg(r, 2) IN
       IF member[m] = None THEN Abort(r)
       ELSE IF member[m].all THEN Continue(r)
       ELSE todo' = [todo EXCEPT ![r] = <<<<"uc", m, Arg(r, 3), Arg(r, 4)>>>> \o Tail(@)]
    /\ Same /\ UNCHANGED <<member, coll, group, gu, uc, cg, cc>>

\* one turn of edit_member's `for col in data.collections` loop
col_turn(r) ==
    /\ Running(r, "col")
    /\ IF Arg(r, 3) \notin coll THEN Abort(r)
       ELSE todo' = [todo EXCEPT ![r] = <<<<"uc", Arg(r, 2), Arg(r, 3), Arg(r, 4)>>>> \o Tail(@)]
    /\ Same /\ UNCHANGED <<member, coll, group, gu, uc, cg, cc>>

\* the DELETEs that empty one column of links
LinksDeleted(r) == Continue(r) /\ Same /\ UNCHANGED <<member, coll, group>>

CollectionUser_delete_all_by_collection(r) ==
    /\ Running(r, "ucs of collection")
    /\ uc' = [m \in Members |-> [uc[m] EXCEPT ![Arg(r, 2)] = None]]
    /\ LinksDeleted(r) /\ UNCHANGED <<gu, cg, cc>>

CollectionGroup_delete_all_by_collection(r) ==
    /\ Running(r, "cgs of collection")
    /\ cg' = [cg EXCEPT ![Arg(r, 2)] = [g \in Groups |-> None]]
    /\ LinksDeleted(r) /\ UNCHANGED <<gu, uc, cc>>

CollectionCipher_delete_all_by_collection(r) ==
    /\ Running(r, "ccs of collection")
    /\ cc' = cc \ {Arg(r, 2)}
    /\ LinksDeleted(r) /\ UNCHANGED <<gu, uc, cg>>

CollectionGroup_delete_all_by_group(r) ==
    /\ Running(r, "cgs of group")
    /\ cg' = [c \in Collections |-> [cg[c] EXCEPT ![Arg(r, 2)] = None]]
    /\ LinksDeleted(r) /\ UNCHANGED <<gu, uc, cc>>

GroupUser_delete_all_by_group(r) ==
    /\ Running(r, "gus of group")
    /\ gu' = {l \in gu : l[1] # Arg(r, 2)}
    /\ LinksDeleted(r) /\ UNCHANGED <<uc, cg, cc>>

GroupUser_delete_all_by_member(r) ==
    /\ Running(r, "gus of member")
    /\ gu' = {l \in gu : l[2] # Arg(r, 2)}
    /\ LinksDeleted(r) /\ UNCHANGED <<uc, cg, cc>>

GroupUser_delete_by_group_and_member(r) ==
    /\ Running(r, "gu of member")
    /\ gu' = gu \ {<<Arg(r, 2), Arg(r, 3)>>}
    /\ LinksDeleted(r) /\ UNCHANGED <<uc, cg, cc>>

\* the user links of a member are listed first and deleted afterwards
delete_all_by_user_and_org(r) ==
    /\ \/ /\ Running(r, "ucs of member")
          /\ LET found == {c \in Collections : uc[Arg(r, 2)][c] # None}
             IN  todo' = [todo EXCEPT ![r] = <<<<"listed", Arg(r, 2), found>>>> \o Tail(@)]
          /\ UNCHANGED uc
       \/ /\ Running(r, "listed")
          /\ uc' = [uc EXCEPT ![Arg(r, 2)] =
                        [c \in Collections |-> IF c \in Arg(r, 3) THEN None ELSE @[c]]]
          /\ Continue(r)
    /\ Same /\ UNCHANGED <<member, coll, group, gu, cg, cc>>

\* whole-row upserts: a row deleted meanwhile is inserted again
Collection_save(r) ==
    /\ Running(r, "collection")
    /\ coll' = coll \cup {Arg(r, 2)}
    /\ Continue(r) /\ Same /\ UNCHANGED <<member, group, gu, uc, cg, cc>>

Group_save(r) ==
    /\ Running(r, "group")
    /\ group' = [group EXCEPT ![Arg(r, 2)] = [all |-> Arg(r, 3)]]
    /\ Continue(r) /\ Same /\ UNCHANGED <<member, coll, gu, uc, cg, cc>>

Membership_save(r) ==
    /\ Running(r, "membership")
    /\ member' = [member EXCEPT ![Arg(r, 2)] = Arg(r, 3)]
    /\ left' = left \ {Arg(r, 2)}
    /\ Continue(r) /\ UNCHANGED <<groups_on, ops, coll, group, gu, uc, cg, cc>>

Collection_delete(r) ==
    /\ Running(r, "delete collection")
    /\ LET c == Arg(r, 2) IN
       DeleteRow(r, c \in cc \/ (\E m \in Members : uc[m][c] # None)
                             \/ (\E g \in Groups : cg[c][g] # None),
                 coll' = coll \ {c} /\ UNCHANGED <<member, group>>)
    /\ Same /\ UNCHANGED <<gu, uc, cg, cc>>

Group_delete(r) ==
    /\ Running(r, "delete group")
    /\ LET g == Arg(r, 2) IN
       DeleteRow(r, (\E l \in gu : l[1] = g) \/ (\E c \in Collections : cg[c][g] # None),
                 group' = [group EXCEPT ![g] = None] /\ UNCHANGED <<member, coll>>)
    /\ Same /\ UNCHANGED <<gu, uc, cg, cc>>

Membership_delete(r) ==
    /\ Running(r, "delete membership")
    /\ LET m == Arg(r, 2) IN
       /\ DeleteRow(r, \E l \in gu : l[2] = m,
                    member' = [member EXCEPT ![m] = None] /\ UNCHANGED <<coll, group>>)
       /\ left' = IF Arg(r, 3) = ops /\ member'[m] = None THEN left \cup {m} ELSE left
    /\ UNCHANGED <<groups_on, ops, gu, uc, cg, cc>>

\* one turn of the loops over the symmetric difference: add or remove one link
toggle(r) ==
    /\ Running(r, "toggle")
    /\ LET m == Arg(r, 2)  c == Arg(r, 3) IN
       IF is_writable_by_user(c, m)
       THEN todo' = [todo EXCEPT ![r] = <<<<IF Arg(r, 4) THEN "cc" ELSE "no cc", c>>>> \o Tail(@)]
       ELSE Abort(r)
    /\ Same /\ UNCHANGED <<member, coll, group, gu, uc, cg, cc>>

CollectionCipher_save(r) ==
    /\ Running(r, "cc")
    /\ IF Arg(r, 2) \in coll THEN cc' = cc \cup {Arg(r, 2)} /\ Continue(r)
       ELSE (Continue(r) \/ Abort(r)) /\ UNCHANGED cc
    /\ Same /\ UNCHANGED <<member, coll, group, gu, uc, cg>>

CollectionCipher_delete(r) ==
    /\ Running(r, "no cc")
    /\ cc' = cc \ {Arg(r, 2)}
    /\ Continue(r) /\ Same /\ UNCHANGED <<member, coll, group, gu, uc, cg>>

\* a statement fails and its error ends the handler
fail(r) ==
    /\ todo[r] # <<>>
    /\ Abort(r) /\ Same /\ UNCHANGED <<member, coll, group, gu, uc, cg, cc>>

-----------------------------------------------------------------------------
(* Handlers: guards and first reads, and the statements they will run.     *)

\* a slot is free for another request
Idle(r) == todo[r] = <<>> /\ ops < MaxOps

Start(r, statements) ==
    /\ todo' = [todo EXCEPT ![r] = statements]
    /\ ops' = ops + 1
    /\ UNCHANGED <<left, groups_on, member, coll, group, gu, uc, cg, cc>>

\* bound: a request names at most one group and one member
GroupGrants == {<<>>} \cup {<<<<g, f>>>> : g \in Groups, f \in Grants}
UserGrants == {<<>>} \cup {<<<<m, f>>>> : m \in Members, f \in Grants}

\* FullCollectionData::validate
validate(gs, us) ==
    /\ \A i \in DOMAIN gs : group[gs[i][1]] # None
    /\ \A i \in DOMAIN us : member[us[i][1]] # None

GroupStatements(c, gs) == [i \in DOMAIN gs |-> <<"cg", c, gs[i][1], gs[i][2]>>]
UserStatements(c, us) == [i \in DOMAIN us |-> <<"user", us[i][1], c, us[i][2]>>]

post_organization_collections(r) ==
    \E c \in Collections \ coll, gs \in GroupGrants, us \in UserGrants :
        /\ validate(gs, us)
        /\ Start(r, <<<<"collection", c>>>> \o GroupStatements(c, gs) \o UserStatements(c, us))

\* what replaces the links of one collection
ReplaceLinks(c, gs, us) ==
    <<<<"collection", c>>, <<"cgs of collection", c>>>> \o GroupStatements(c, gs)
        \o <<<<"ucs of collection", c>>>> \o UserStatements(c, us)

post_organization_collection_update(r) ==
    \E c \in coll, gs \in GroupGrants, us \in UserGrants :
        /\ validate(gs, us)
        /\ Start(r, ReplaceLinks(c, gs, us))

\* nothing is validated here, and the collections follow one another
post_bulk_access_collections(r) ==
    \E c \in coll, gs \in GroupGrants, us \in UserGrants :
        \/ Start(r, ReplaceLinks(c, gs, us))
        \/ \E d \in coll : Start(r, ReplaceLinks(c, gs, us) \o ReplaceLinks(d, gs, us))

delete_organization_collection_impl(r) ==
    \E c \in coll :
        Start(r, <<<<"ccs of collection", c>>, <<"ucs of collection", c>>,
                   <<"cgs of collection", c>>, <<"delete collection", c>>>>)

ColGrants == {<<>>} \cup {<<<<c, f>>>> : c \in Collections, f \in Grants}
MemberLists == {<<>>} \cup {<<m>> : m \in Members}

\* GroupRequest::validate
group_validate(cs, ms) ==
    /\ \A i \in DOMAIN cs : cs[i][1] \in coll
    /\ \A i \in DOMAIN ms : member[ms[i]] # None

add_update_group(g, all, cs, ms) ==
    <<<<"group", g, all>>>> \o [i \in DOMAIN cs |-> <<"cg", cs[i][1], g, cs[i][2]>>]
                            \o [i \in DOMAIN ms |-> <<"gu", g, ms[i]>>]

post_groups(r) ==
    \E g \in Groups, all \in BOOLEAN, cs \in ColGrants, ms \in MemberLists :
        /\ groups_on /\ group[g] = None
        /\ group_validate(cs, ms)
        /\ Start(r, add_update_group(g, all, cs, ms))

put_group(r) ==
    \E g \in Groups, all \in BOOLEAN, cs \in ColGrants, ms \in MemberLists :
        /\ groups_on /\ group[g] # None
        /\ group_validate(cs, ms)
        /\ Start(r, <<<<"cgs of group", g>>, <<"gus of group", g>>>>
                    \o add_update_group(g, all, cs, ms))

delete_group_impl(r) ==
    \E g \in Groups :
        /\ groups_on /\ group[g] # None
        /\ Start(r, <<<<"cgs of group", g>>, <<"gus of group", g>>, <<"delete group", g>>>>)

put_group_members(r) ==
    \E g \in Groups, ms \in MemberLists :
        /\ groups_on /\ group[g] # None
        /\ \A i \in DOMAIN ms : member[ms[i]] # None
        /\ Start(r, <<<<"gus of group", g>>>> \o [i \in DOMAIN ms |-> <<"gu", g, ms[i]>>])

post_delete_group_member(r) ==
    \E g \in Groups, m \in Members :
        /\ groups_on /\ group[g] # None /\ member[m] # None
        /\ Start(r, <<<<"gu of member", g, m>>>>)

Order(S) == {s \in [1..Cardinality(S) -> S] : \A i, j \in DOMAIN s : s[i] = s[j] => i = j}

\* the symmetric difference of the posted and the current links, in hash order
Difference(m, posted, current) ==
    {[i \in DOMAIN s |-> <<"toggle", m, s[i], s[i] \in posted>>] :
        s \in Order((posted \ current) \cup (current \ posted))}

post_collections_update(r) ==
    \E m \in Members, posted \in SUBSET Collections :
        /\ is_in_editable_collection_by_user(m)
        /\ \E s \in Difference(m, posted, get_collections(m)) : Start(r, s)

post_collections_admin(r) ==
    \E m \in Members, posted \in SUBSET Collections :
        /\ is_in_editable_collection_by_user(m)
        /\ \E s \in Difference(m, posted, get_admin_collections(m)) : Start(r, s)

post_bulk_collections(r) ==
    \E m \in Members, posted \in SUBSET Collections, remove \in BOOLEAN :
        /\ Confirmed(m)
        /\ \A c \in posted : c \in find_by_user_uuid(m) /\ is_writable_by_user(c, m)
        /\ is_write_accessible_to_user(m)
        /\ \E s \in Order(posted) :
               Start(r, [i \in DOMAIN s |-> <<IF remove THEN "no cc" ELSE "cc", s[i]>>])

\* admins reach every collection, and so do managers whose role came as the
\* custom one with its three permissions on collections
access_all(atype) == CASE atype = "Admin" -> {TRUE} [] atype = "Manager" -> BOOLEAN [] OTHER -> {FALSE}

\* the links of send_invite, after the membership was saved
send_invite(r) ==
    \E m \in Members, atype \in Types, cs \in ColGrants, gs \in GroupGrants :
    \E all \in access_all(atype) :
        /\ member[m] = None
        /\ \A i \in DOMAIN cs : cs[i][1] \in coll
        /\ \A i \in DOMAIN gs : group[gs[i][1]] # None
        /\ Start(r, <<<<"membership", m,
                        [status |-> "Invited", atype |-> atype, all |-> all]>>>>
                    \o (IF all THEN <<>>
                        ELSE [i \in DOMAIN cs |-> <<"col", m, cs[i][1], cs[i][2]>>])
                    \o [i \in DOMAIN gs |-> <<"gu", gs[i][1], m>>])

\* accept and confirm, whose checks Memberships and ServerMembers follow
confirm_invite(r) ==
    \E m \in Members, s \in {"Accepted", "Confirmed"} :
        /\ member[m] # None /\ member[m].status # "Confirmed"
        /\ Start(r, <<<<"membership", m, [member[m] EXCEPT !.status = s]>>>>)

\* every link of the member is replaced, and the copy read first is saved last
edit_member(r) ==
    \E m \in Members, atype \in Types, cs \in ColGrants, gs \in GroupGrants :
    \E all \in access_all(atype) :
        /\ member[m] # None
        /\ Start(r, <<<<"ucs of member", m>>>>
                    \o (IF all THEN <<>>
                        ELSE [i \in DOMAIN cs |-> <<"col", m, cs[i][1], cs[i][2]>>])
                    \o <<<<"gus of member", m>>>>
                    \o [i \in DOMAIN gs |-> <<"gu", gs[i][1], m>>]
                    \o <<<<"membership", m,
                           [member[m] EXCEPT !.atype = atype, !.all = all]>>>>)

\* HISTORY: a removal knows whether another request ran beside it
Alone(r) == IF \A s \in Requests \ {r} : todo[s] = <<>> THEN ops + 1 ELSE 0

delete_member_GroupsOnly(r) ==
    \E m \in Members :
        /\ member[m] # None
        /\ Start(r, <<<<"gus of member", m>>, <<"delete membership", m, Alone(r)>>>>)

\* the rows of a removed member: user links, group links, the membership
delete_member(r) ==
    \E m \in Members :
        /\ member[m] # None
        /\ Start(r, <<<<"ucs of member", m>>, <<"gus of member", m>>,
                      <<"delete membership", m, Alone(r)>>>>)

-----------------------------------------------------------------------------
\* a confirmed member who reaches the item of the organization's only
\* collection by a link of their own and by one of their group
Init ==
    /\ groups_on \in BOOLEAN
    /\ member = [m \in Members |-> [status |-> "Confirmed", atype |-> "User", all |-> FALSE]]
    /\ group = [g \in Groups |-> [all |-> FALSE]]
    /\ gu = Groups \X Members
    /\ \E c \in Collections, f \in Grants :
          /\ coll = {c} /\ cc = {c}
          /\ uc = [m \in Members |-> [d \in Collections |-> IF d = c THEN f ELSE None]]
          /\ cg = [d \in Collections |-> [g \in Groups |-> IF d = c THEN f ELSE None]]
    /\ todo = [r \in Requests |-> <<>>]
    /\ ops = 0
    /\ left = {}

\* any rows the handlers can leave behind, with no request running
InitAny ==
    /\ groups_on \in BOOLEAN
    /\ member \in [Members -> [status : Statuses, atype : Types, all : BOOLEAN]]
    /\ \A m \in Members : member[m].atype = "Admin" => member[m].all
    /\ \A m \in Members : member[m].all => member[m].atype # "User"
    /\ coll = Collections
    /\ group \in [Groups -> [all : BOOLEAN]]
    /\ gu \in SUBSET (Groups \X Members)
    /\ uc \in [Members -> [Collections -> Flags \cup {None}]]
    /\ cg \in [Collections -> [Groups -> Flags \cup {None}]]
    /\ cc \in SUBSET Collections
    /\ todo = [r \in Requests |-> <<>>]
    /\ ops = MaxOps
    /\ left = {}

Handle(r) ==
    \/ post_organization_collections(r)
    \/ post_organization_collection_update(r) \/ post_bulk_access_collections(r)
    \/ delete_organization_collection_impl(r)
    \/ post_groups(r) \/ put_group(r) \/ delete_group_impl(r)
    \/ put_group_members(r) \/ post_delete_group_member(r)
    \/ post_collections_update(r) \/ post_collections_admin(r) \/ post_bulk_collections(r)
    \/ send_invite(r) \/ confirm_invite(r) \/ edit_member(r) \/ delete_member(r)

Statement(r) ==
    \/ CollectionUser_save(r) \/ CollectionGroup_save(r) \/ GroupUser_save(r)
    \/ user_turn(r) \/ col_turn(r)
    \/ CollectionUser_delete_all_by_collection(r) \/ CollectionGroup_delete_all_by_collection(r)
    \/ CollectionCipher_delete_all_by_collection(r) \/ CollectionGroup_delete_all_by_group(r)
    \/ GroupUser_delete_all_by_group(r) \/ GroupUser_delete_all_by_member(r)
    \/ GroupUser_delete_by_group_and_member(r) \/ delete_all_by_user_and_org(r)
    \/ Collection_save(r) \/ Group_save(r) \/ Membership_save(r)
    \/ Collection_delete(r) \/ Group_delete(r) \/ Membership_delete(r)
    \/ toggle(r) \/ CollectionCipher_save(r) \/ CollectionCipher_delete(r)
    \/ fail(r)

Next == \E r \in Requests : (Idle(r) /\ Handle(r)) \/ Statement(r)

Spec == Init /\ [][Next]_vars

-----------------------------------------------------------------------------
(* An item that find_by_user lists for a member is accessible to them both *)
(* in the full sync and on its own (to_json never meets "Cipher ownership  *)
(* assertion failure"), the two agree on whether there is access, and what *)
(* the sync shows as read-only, or as not manageable, is never writable    *)
(* or manageable when the item is asked for on its own: the two            *)
(* implementations of get_access_restrictions differ only in that          *)
(* direction.                                                              *)
SyncAgrees ==
    \A m \in Members :
        /\ find_by_user(m, FALSE) =>
               sync_access_restrictions(m) # {} /\ get_access_restrictions(m) # {}
        /\ member[m] # None =>
               (sync_access_restrictions(m) = {} <=> get_access_restrictions(m) = {})
        /\ \A s \in sync_access_restrictions(m), o \in get_access_restrictions(m) :
               (s.ro => o.ro) /\ (s.hp => o.hp) /\ (o.mg => s.mg)

(* The collections the update handlers compare the posted ones with are    *)
(* all writable to the member, so the loop over the symmetric difference   *)
(* never stops with "No rights to modify the collection" at a link the     *)
(* handler itself chose to remove; and a collection that a sync lists is   *)
(* one the member can open by its id.                                      *)
UpdateNeverStuck ==
    \A m \in Members : member[m] # None =>
        /\ \A c \in get_admin_collections(m) : is_writable_by_user(c, m)
        /\ find_by_user_uuid(m) \subseteq get_org_collections_details(m)
        /\ \A c \in find_by_user_uuid(m) :
               /\ find_by_uuid_and_user(c, m) /\ can_access_collection(c, m)
               /\ sync_details(c, m).ro \/ ~to_json_details(c, m).ro

(* A member removed while no other request was running has no collection   *)
(* and no group link left, whatever the requests that follow do, until     *)
(* they are invited again: the removal deletes every row that grants       *)
(* something, and later handlers refuse a member who is gone.              *)
RemovedHasNoLinks ==
    \A m \in left :
        /\ \A c \in Collections : uc[m][c] = None
        /\ \A l \in gu : l[2] # m

(* Access holds together from both sides: what a member is shown they can  *)
(* open and update, and who was removed is shown nothing.                  *)
AccessHolds == UpdateNeverStuck /\ RemovedHasNoLinks
=============================================================================
