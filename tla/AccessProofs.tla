---------------------------- MODULE AccessProofs ----------------------------
(* For any members, collections and groups, any rights of the links and any  *)
(* number of requests in flight: the access rules that the server writes     *)
(* several times over agree with one another, and a member who has left the  *)
(* organization keeps no link to its collections and groups, whatever the    *)
(* other requests still had to write.                                        *)
EXTENDS ServerAccess, TLAPS

Link == [ro : BOOLEAN, hp : BOOLEAN, mg : BOOLEAN]
MemberRow == [status : Statuses, atype : Types, all : BOOLEAN]
GroupRow == [all : BOOLEAN]

\* Links have three flags, None is no row, and the sets of collections that a
\* request posts are finite: they have a size.
Assumptions ==
    /\ \A S \in SUBSET Collections : Cardinality(S) \in Nat
    /\ Flags \subseteq Link /\ Grants \subseteq Flags
    /\ None \notin Link \cup MemberRow \cup GroupRow

\* The rows are well formed; an item is linked only to collections that exist.
RowsOK ==
    /\ groups_on \in BOOLEAN
    /\ member \in [Members -> MemberRow \cup {None}]
    /\ coll \subseteq Collections /\ cc \subseteq coll
    /\ group \in [Groups -> GroupRow \cup {None}]
    /\ gu \subseteq Groups \X Members
    /\ uc \in [Members -> [Collections -> Flags \cup {None}]]
    /\ cg \in [Collections -> [Groups -> Flags \cup {None}]]

-----------------------------------------------------------------------------
(* The rules on rows that are well formed. *)

\* The groups' links to a collection are links.
LEMMA GroupLinks ==
    ASSUME Assumptions, RowsOK, NEW m \in Members, NEW c \in Collections
    PROVE  group_links(m, c) \subseteq Link
<1>1. ASSUME NEW g \in Groups, cg[c][g] # None PROVE cg[c][g] \in Link
  <2>1. cg[c][g] \in Flags
    BY <1>1 DEF RowsOK
  <2> QED
    BY <2>1 DEF Assumptions
<1> QED
  BY <1>1, Zenon DEF group_links, GroupsOf

\* A combination of links is a link.
LEMMA CombinedLink ==
    ASSUME NEW rows
    PROVE  Combine(rows) \in Link
  BY DEF Combine, Link

\* Where the full sync finds a link for a member, the item on its own finds one.
LEMMA SameAccess ==
    ASSUME Assumptions, RowsOK, NEW m \in Members, member[m] # None
    PROVE  sync_access_restrictions(m) = {} <=> get_access_restrictions(m) = {}
<1> DEFINE links(c) == IF groups_on THEN group_links(m, c) ELSE {}
           linked == {c \in sync_collections(m) : uc[m][c] # None \/ links(c) # {}}
<1>1. CASE has_full_access(m) \/ is_in_full_access_group(m)
  BY <1>1 DEF sync_access_restrictions, get_access_restrictions
<1>2. CASE ~(has_full_access(m) \/ is_in_full_access_group(m))
  <2>1. sync_access_restrictions(m) = {} <=> linked = {}
    BY <1>2, Zenon DEF sync_access_restrictions, Restrictions, sync_rows
  <2>2. linked = {c \in cc : uc[m][c] # None \/ links(c) # {}}
    BY DEF RowsOK, sync_collections
  <2>3. get_access_restrictions(m) = {} <=>
            get_user_collections_access_flags(m) = {} /\ get_group_collections_access_flags(m) = {}
    BY <1>2 DEF get_access_restrictions, Restrictions
  <2>4. get_user_collections_access_flags(m) = {} <=> \A c \in cc : uc[m][c] = None
    BY DEF get_user_collections_access_flags
  <2>5. get_group_collections_access_flags(m) = {} <=> \A c \in cc : links(c) = {}
    BY DEF get_group_collections_access_flags
  <2> QED
    BY <2>1, <2>2, <2>3, <2>4, <2>5
<1> QED
  BY <1>1, <1>2

\* What the full sync calls read-only, or gives no right to manage, is so for
\* the item on its own.
LEMMA SyncNarrower ==
    ASSUME Assumptions, RowsOK, NEW m \in Members,
           NEW s \in sync_access_restrictions(m), NEW o \in get_access_restrictions(m)
    PROVE  (s.ro => o.ro) /\ (s.hp => o.hp) /\ (o.mg => s.mg)
<1> DEFINE links(c) == IF groups_on THEN group_links(m, c) ELSE {}
           mine == get_user_collections_access_flags(m)
           ours == get_group_collections_access_flags(m)
<1>1. CASE has_full_access(m) \/ is_in_full_access_group(m)
  BY <1>1 DEF sync_access_restrictions, get_access_restrictions
<1>2. CASE ~(has_full_access(m) \/ is_in_full_access_group(m))
  <2>1. s = Combine(sync_rows(m)) /\ sync_rows(m) # {}
    BY <1>2 DEF sync_access_restrictions, Restrictions
  <2>2. o = Combine(IF mine # {} THEN mine ELSE ours)
    BY <1>2 DEF get_access_restrictions, Restrictions
  <2>3. /\ s.ro = (\A f \in sync_rows(m) : f.ro)
        /\ s.hp = (\A f \in sync_rows(m) : f.hp)
        /\ s.mg = (\E f \in sync_rows(m) : f.mg)
    BY <2>1 DEF Combine
  <2>4. member[m] # None
    BY <2>1 DEF sync_rows, sync_collections
  <2>5. sync_rows(m) = {IF uc[m][c] # None THEN uc[m][c] ELSE Combine(links(c)) :
                            c \in {d \in cc : uc[m][d] # None \/ links(d) # {}}}
    BY <2>4 DEF RowsOK, sync_rows, sync_collections
  <2>6. CASE mine # {}
    <3>1. mine \subseteq sync_rows(m)
      BY <2>5 DEF get_user_collections_access_flags
    <3>2. o.ro = (\A f \in mine : f.ro) /\ o.hp = (\A f \in mine : f.hp) /\ o.mg = (\E f \in mine : f.mg)
      BY <2>2, <2>6 DEF Combine
    <3> QED
      BY <3>1, <3>2, <2>3
  <2>7. CASE mine = {}
    <3>1. \A c \in cc : uc[m][c] = None
      BY <2>7 DEF get_user_collections_access_flags
    <3>2. ours = UNION {links(c) : c \in cc}
      BY DEF get_group_collections_access_flags
    <3>3. o.ro = (\A f \in ours : f.ro) /\ o.hp = (\A f \in ours : f.hp) /\ o.mg = (\E f \in ours : f.mg)
      BY <2>2, <2>7 DEF Combine
    <3>4. \A f \in ours : \E c \in cc : f \in links(c) /\ Combine(links(c)) \in sync_rows(m)
      BY <2>5, <3>1, <3>2
    <3>5. ASSUME NEW f \in ours PROVE (s.ro => f.ro) /\ (s.hp => f.hp) /\ (f.mg => s.mg)
      <4>1. PICK c \in cc : f \in links(c) /\ Combine(links(c)) \in sync_rows(m)
        BY <3>4
      <4>2. s.ro => Combine(links(c)).ro
        BY <4>1, <2>3, Zenon
      <4>3. s.hp => Combine(links(c)).hp
        BY <4>1, <2>3, Zenon
      <4>4. Combine(links(c)).mg => s.mg
        BY <4>1, <2>3
      <4> QED
        BY <4>1, <4>2, <4>3, <4>4 DEF Combine
    <3> QED
      BY <3>3, <3>5
  <2> QED
    BY <2>6, <2>7
<1> QED
  BY <1>1, <1>2

\* On rows that are well formed the two implementations agree.
LEMMA RowsAgree ==
    ASSUME Assumptions, RowsOK
    PROVE  SyncAgrees
<1>1. ASSUME NEW m \in Members, find_by_user(m, FALSE)
      PROVE  get_access_restrictions(m) # {}
  <2>1. CASE has_full_access(m) \/ is_in_full_access_group(m)
    BY <2>1 DEF get_access_restrictions
  <2>2. CASE ~(has_full_access(m) \/ is_in_full_access_group(m))
    <3>1. \/ \E c \in cc : uc[m][c] # None
          \/ groups_on /\ \E c \in cc : group_links(m, c) # {}
      BY <1>1, <2>2 DEF find_by_user, has_full_access, is_in_full_access_group
    <3>2. get_user_collections_access_flags(m) # {} \/ get_group_collections_access_flags(m) # {}
      BY <3>1 DEF get_user_collections_access_flags, get_group_collections_access_flags
    <3> QED
      BY <2>2, <3>2 DEF get_access_restrictions, Restrictions
  <2> QED
    BY <2>1, <2>2
<1>2. ASSUME NEW m \in Members, find_by_user(m, FALSE) PROVE member[m] # None
  BY <1>2 DEF find_by_user, Confirmed
<1> QED
  BY <1>1, <1>2, SameAccess, SyncNarrower, Zenon DEF SyncAgrees

\* What a sync says about a collection, and what the server answers about the
\* same collection on its own.
LEMMA DetailsAgree ==
    ASSUME Assumptions, RowsOK, NEW m \in Members, NEW c \in find_by_user_uuid(m)
    PROVE  sync_details(c, m).ro \/ ~to_json_details(c, m).ro
<1> DEFINE links == IF groups_on THEN group_links(m, c) ELSE {}
<1>0. c \in coll /\ c \in Collections /\ Confirmed(m) /\ member[m] # None
  BY DEF find_by_user_uuid, RowsOK, Confirmed
<1>1. CASE has_full_access(m)
  BY <1>0, <1>1 DEF to_json_details, Full
<1>2. CASE ~has_full_access(m) /\ is_writable_by_user(c, m)
  BY <1>0, <1>2, Zenon DEF to_json_details, Full
<1>3. CASE ~has_full_access(m) /\ ~is_writable_by_user(c, m)
  <2>1. CASE uc[m][c] # None
    <3>1. uc[m][c] \in Link
      BY <2>1, <1>0 DEF RowsOK, Assumptions
    <3>2. uc[m][c].ro
      BY <3>1, <2>1, <1>0, <1>3 DEF is_writable_by_user, Link
    <3>3. sync_details(c, m) = Managed(uc[m][c], m)
      BY <1>0, <1>3, <2>1 DEF sync_details
    <3> QED
      BY <3>1, <3>2, <3>3 DEF Managed, Link
  <2>2. CASE uc[m][c] = None
    <3>1. links # {}
      BY <2>2, <1>0, <1>3 DEF find_by_user_uuid, has_full_access, is_writable_by_user
    <3>2. \A f \in links : f.ro
      BY <1>0, <1>3 DEF is_writable_by_user, Writes
    <3>3. sync_details(c, m) = Managed(Combine(links), m)
      BY <1>0, <1>3, <2>2, <3>1 DEF sync_details
    <3>4. Combine(links).ro /\ Combine(links) \in Link
      <4>1. Combine(links).ro = (\A f \in links : f.ro)
        BY DEF Combine
      <4>2. Combine(links) \in Link
        BY CombinedLink
      <4> QED
        BY <4>1, <4>2, <3>2, Zenon
    <3> QED
      BY <3>3, <3>4 DEF Managed, Link
  <2> QED
    BY <2>1, <2>2
<1> QED
  BY <1>1, <1>2, <1>3

\* On rows that are well formed no update of an item's collections gets stuck.
LEMMA RowsUnstuck ==
    ASSUME Assumptions, RowsOK
    PROVE  UpdateNeverStuck
<1> SUFFICES ASSUME NEW m \in Members, member[m] # None
             PROVE  /\ \A c \in get_admin_collections(m) : is_writable_by_user(c, m)
                    /\ find_by_user_uuid(m) \subseteq get_org_collections_details(m)
                    /\ \A c \in find_by_user_uuid(m) :
                          /\ find_by_uuid_and_user(c, m) /\ can_access_collection(c, m)
                          /\ sync_details(c, m).ro \/ ~to_json_details(c, m).ro
  BY DEF UpdateNeverStuck
<1>1. \A c \in get_admin_collections(m) : is_writable_by_user(c, m)
  BY DEF get_admin_collections, get_collections, is_writable_by_user
<1>2. find_by_user_uuid(m) \subseteq get_org_collections_details(m)
  BY DEF find_by_user_uuid, get_org_collections_details, has_full_access
<1>3. \A c \in find_by_user_uuid(m) : find_by_uuid_and_user(c, m) /\ can_access_collection(c, m)
  BY DEF find_by_user_uuid, find_by_uuid_and_user, can_access_collection, has_full_access
<1> QED
  BY <1>1, <1>2, <1>3, DetailsAgree

-----------------------------------------------------------------------------
(* The rows stay well formed, whatever statements interleave. *)

\* The statements with their arguments: those that give a member no link ...
Neutral ==
    ({"collection", "cgs of collection", "ucs of collection", "ccs of collection",
      "delete collection", "cc", "no cc"} \X Collections)
    \cup ({"cgs of group", "gus of group", "delete group"} \X Groups)
    \cup ({"gus of member", "ucs of member"} \X Members)
    \cup ({"user"} \X Members \X Collections \X Flags)
    \cup ({"cg"} \X Collections \X Groups \X Flags)
    \cup ({"gu of member"} \X Groups \X Members)
    \cup ({"group"} \X Groups \X BOOLEAN)
    \cup ({"membership"} \X Members \X MemberRow)
    \cup ({"listed"} \X Members \X SUBSET Collections)
    \cup ({"toggle"} \X Members \X Collections \X BOOLEAN)

\* ... those that may give one to a member in M ...
Giving(M) == ({"uc", "col"} \X M \X Collections \X Flags) \cup ({"gu"} \X Groups \X M)

Plain(M) == Neutral \cup Giving(M)

\* ... and the one that removes a member.
Stmt == Plain(Members) \cup ({"delete membership"} \X Members \X Nat)

TodoOK == ops \in Nat /\ todo \in [Requests -> Seq(Stmt)]

\* The arguments of a statement are of the kind its name says.
LEMMA Arguments ==
    ASSUME NEW x \in Stmt
    PROVE  /\ x[1] \in {"collection", "cgs of collection", "ucs of collection",
                        "ccs of collection", "delete collection", "cc", "no cc"}
                 => x[2] \in Collections
           /\ x[1] \in {"cgs of group", "gus of group", "delete group"} => x[2] \in Groups
           /\ x[1] \in {"gus of member", "ucs of member"} => x[2] \in Members
           /\ x[1] \in {"uc", "user", "col"} =>
                 x[2] \in Members /\ x[3] \in Collections /\ x[4] \in Flags
           /\ x[1] = "cg" => x[2] \in Collections /\ x[3] \in Groups /\ x[4] \in Flags
           /\ x[1] \in {"gu", "gu of member"} => x[2] \in Groups /\ x[3] \in Members
           /\ x[1] = "group" => x[2] \in Groups /\ x[3] \in BOOLEAN
           /\ x[1] = "membership" => x[2] \in Members /\ x[3] \in MemberRow
           /\ x[1] = "delete membership" => x[2] \in Members /\ x[3] \in Nat
           /\ x[1] = "listed" => x[2] \in Members /\ x[3] \in SUBSET Collections
           /\ x[1] = "toggle" => x[2] \in Members /\ x[3] \in Collections /\ x[4] \in BOOLEAN
  BY Zenon DEF Stmt, Plain, Neutral, Giving

\* The empty list.
LEMMA EmptyList ==
    ASSUME NEW S
    PROVE  <<>> \in Seq(S) /\ Len(<<>>) = 0
  OBVIOUS

\* The indices of a list.
LEMMA ListDomain ==
    ASSUME NEW S, NEW s \in Seq(S)
    PROVE  Len(s) \in Nat /\ s \in [1 .. Len(s) -> S] /\ DOMAIN s = 1 .. Len(s)
  OBVIOUS

\* An entry of a list.
LEMMA Entry ==
    ASSUME NEW S, NEW s \in Seq(S), NEW i \in 1 .. Len(s)
    PROVE  s[i] \in S
  OBVIOUS

\* The first entry of a list and the others.
LEMMA HeadTail ==
    ASSUME NEW S, NEW s \in Seq(S), s # <<>>
    PROVE  /\ Head(s) \in S /\ Tail(s) \in Seq(S) /\ Len(Tail(s)) = Len(s) - 1
           /\ \A i \in 1 .. Len(Tail(s)) : Tail(s)[i] = s[i + 1]
  OBVIOUS

\* One list after another.
LEMMA Concat ==
    ASSUME NEW S, NEW s \in Seq(S), NEW t \in Seq(S)
    PROVE  /\ s \o t \in Seq(S) /\ Len(s \o t) = Len(s) + Len(t)
           /\ \A i \in 1 .. Len(s) + Len(t) :
                 (s \o t)[i] = IF i <= Len(s) THEN s[i] ELSE t[i - Len(s)]
  OBVIOUS

\* A list over a set is one over a larger set.
LEMMA WiderList ==
    ASSUME NEW S, NEW T, NEW s \in Seq(S), S \subseteq T
    PROVE  s \in Seq(T)
  OBVIOUS

\* Two lists with the same entries are the same.
LEMMA SameLists ==
    ASSUME NEW S, NEW s \in Seq(S), NEW t \in Seq(S),
           Len(s) = Len(t), \A i \in 1 .. Len(s) : s[i] = t[i]
    PROVE  s = t
  OBVIOUS

\* A finite list of statements.
LEMMA IsSeq ==
    ASSUME NEW S, NEW n \in Nat, NEW f \in [1 .. n -> S]
    PROVE  f \in Seq(S)
  OBVIOUS

\* A list of one.
LEMMA OneSeq ==
    ASSUME NEW S, NEW x \in S
    PROVE  <<x>> \in Seq(S) /\ Len(<<x>>) = 1 /\ <<x>>[1] = x
  OBVIOUS

\* Lists of two, three and four.
LEMMA ShortSeq ==
    ASSUME NEW S, NEW x \in S, NEW y \in S, NEW z \in S, NEW w \in S
    PROVE  <<x, y>> \in Seq(S) /\ <<x, y, z>> \in Seq(S) /\ <<x, y, z, w>> \in Seq(S)
  OBVIOUS

\* The statement a request is at.
LEMMA AtHead ==
    ASSUME TodoOK, NEW r \in Requests, NEW op, Running(r, op)
    PROVE  Head(todo[r]) \in Stmt /\ Head(todo[r])[1] = op /\ Tail(todo[r]) \in Seq(Stmt)
  BY HeadTail DEF TodoOK, Running

\* A request goes on with the rest of its list, with one more statement before
\* it, or not at all.
LEMMA TodoStep ==
    ASSUME TodoOK, NEW r \in Requests, ops' = ops, todo[r] # <<>>,
           \/ Continue(r) \/ Abort(r)
           \/ \E x \in Stmt : todo' = [todo EXCEPT ![r] = <<x>> \o Tail(@)]
    PROVE  TodoOK'
<1>1. todo[r] \in Seq(Stmt) /\ Tail(todo[r]) \in Seq(Stmt)
  BY HeadTail DEF TodoOK
<1>2. <<>> \in Seq(Stmt)
  BY EmptyList
<1>3. ASSUME NEW x \in Stmt PROVE <<x>> \o Tail(todo[r]) \in Seq(Stmt)
  BY <1>1, Concat
<1> QED
  BY <1>1, <1>2, <1>3, Zenon DEF TodoOK, Continue, Abort

\* The statements that save one link, and the turns that lead to one.
LEMMA SavesKeepRows ==
    ASSUME RowsOK, TodoOK, NEW r \in Requests,
           \/ CollectionUser_save(r) \/ CollectionGroup_save(r) \/ GroupUser_save(r)
           \/ CollectionCipher_save(r) \/ user_turn(r) \/ col_turn(r) \/ toggle(r)
    PROVE  RowsOK' /\ TodoOK'
<1>1. CASE CollectionUser_save(r)
  <2>1. Arg(r, 2) \in Members /\ Arg(r, 3) \in Collections /\ Arg(r, 4) \in Flags
    BY <1>1, AtHead, Arguments, Zenon DEF CollectionUser_save, Arg
  <2>2. RowsOK'
    <3>1. uc' = uc \/ uc' = [uc EXCEPT ![Arg(r, 2)][Arg(r, 3)] = Arg(r, 4)]
      BY <1>1 DEF CollectionUser_save, SaveLink
    <3>2. uc \in [Members -> [Collections -> Flags \cup {None}]]
      BY DEF RowsOK
    <3>3. uc' \in [Members -> [Collections -> Flags \cup {None}]]
      BY <2>1, <3>1, <3>2
    <3> QED
      BY <1>1, <3>3 DEF CollectionUser_save, SaveLink, Same, RowsOK
  <2>3. TodoOK'
    BY <1>1, TodoStep DEF CollectionUser_save, SaveLink, Same, Running
  <2> QED
    BY <2>2, <2>3
<1>2. CASE CollectionGroup_save(r)
  <2>1. Arg(r, 2) \in Collections /\ Arg(r, 3) \in Groups /\ Arg(r, 4) \in Flags
    BY <1>2, AtHead, Arguments, Zenon DEF CollectionGroup_save, Arg
  <2>2. RowsOK'
    <3>1. cg' = cg \/ cg' = [cg EXCEPT ![Arg(r, 2)][Arg(r, 3)] = Arg(r, 4)]
      BY <1>2 DEF CollectionGroup_save, SaveLink
    <3>2. cg \in [Collections -> [Groups -> Flags \cup {None}]]
      BY DEF RowsOK
    <3>3. cg' \in [Collections -> [Groups -> Flags \cup {None}]]
      BY <2>1, <3>1, <3>2
    <3> QED
      BY <1>2, <3>3 DEF CollectionGroup_save, SaveLink, Same, RowsOK
  <2>3. TodoOK'
    BY <1>2, TodoStep DEF CollectionGroup_save, SaveLink, Same, Running
  <2> QED
    BY <2>2, <2>3
<1>3. CASE GroupUser_save(r)
  <2>1. Arg(r, 2) \in Groups /\ Arg(r, 3) \in Members
    BY <1>3, AtHead, Arguments, Zenon DEF GroupUser_save, Arg
  <2>2. RowsOK'
    BY <1>3, <2>1 DEF GroupUser_save, SaveLink, Same, RowsOK
  <2>3. TodoOK'
    BY <1>3, TodoStep DEF GroupUser_save, SaveLink, Same, Running
  <2> QED
    BY <2>2, <2>3
<1>4. CASE CollectionCipher_save(r)
  <2>1. RowsOK'
    BY <1>4 DEF CollectionCipher_save, Same, RowsOK
  <2>2. TodoOK'
    BY <1>4, TodoStep DEF CollectionCipher_save, Same, Running
  <2> QED
    BY <2>1, <2>2
<1>5. CASE user_turn(r)
  <2>1. Arg(r, 2) \in Members /\ Arg(r, 3) \in Collections /\ Arg(r, 4) \in Flags
    BY <1>5, AtHead, Arguments, Zenon DEF user_turn, Arg
  <2>2. <<"uc", Arg(r, 2), Arg(r, 3), Arg(r, 4)>> \in Stmt
    BY <2>1, Zenon DEF Stmt, Plain, Neutral, Giving
  <2>3. TodoOK'
    BY <1>5, <2>2, TodoStep DEF user_turn, Same, Running
  <2> QED
    BY <1>5, <2>3 DEF user_turn, Same, RowsOK
<1>6. CASE col_turn(r)
  <2>1. Arg(r, 2) \in Members /\ Arg(r, 3) \in Collections /\ Arg(r, 4) \in Flags
    BY <1>6, AtHead, Arguments, Zenon DEF col_turn, Arg
  <2>2. <<"uc", Arg(r, 2), Arg(r, 3), Arg(r, 4)>> \in Stmt
    BY <2>1, Zenon DEF Stmt, Plain, Neutral, Giving
  <2>3. TodoOK'
    BY <1>6, <2>2, TodoStep, Zenon DEF col_turn, Same, Running
  <2> QED
    BY <1>6, <2>3 DEF col_turn, Same, RowsOK
<1>7. CASE toggle(r)
  <2>1. Arg(r, 3) \in Collections
    BY <1>7, AtHead, Arguments, Zenon DEF toggle, Arg
  <2>2. <<IF Arg(r, 4) THEN "cc" ELSE "no cc", Arg(r, 3)>> \in Stmt
    BY <2>1, Zenon DEF Stmt, Plain, Neutral, Giving
  <2>3. TodoOK'
    BY <1>7, <2>2, TodoStep, Zenon DEF toggle, Same, Running
  <2> QED
    BY <1>7, <2>3, Zenon DEF toggle, Same, RowsOK
<1> QED
  BY <1>1, <1>2, <1>3, <1>4, <1>5, <1>6, <1>7

\* The statements that delete links.
LEMMA LinkDeletesKeepRows ==
    ASSUME RowsOK, TodoOK, NEW r \in Requests,
           \/ CollectionUser_delete_all_by_collection(r)
           \/ CollectionGroup_delete_all_by_collection(r)
           \/ CollectionCipher_delete_all_by_collection(r)
           \/ CollectionGroup_delete_all_by_group(r)
           \/ GroupUser_delete_all_by_group(r) \/ GroupUser_delete_all_by_member(r)
           \/ GroupUser_delete_by_group_and_member(r)
           \/ delete_all_by_user_and_org(r) \/ CollectionCipher_delete(r) \/ fail(r)
    PROVE  RowsOK' /\ TodoOK'
<1>1. CASE CollectionUser_delete_all_by_collection(r)
  <2>1. RowsOK'
    BY <1>1, Zenon DEF CollectionUser_delete_all_by_collection, LinksDeleted, Same, RowsOK
  <2>2. TodoOK'
    BY <1>1, TodoStep, Zenon DEF CollectionUser_delete_all_by_collection, LinksDeleted, Same, Running
  <2> QED
    BY <2>1, <2>2
<1>2. CASE CollectionGroup_delete_all_by_collection(r)
  <2>1. RowsOK'
    BY <1>2, Zenon DEF CollectionGroup_delete_all_by_collection, LinksDeleted, Same, RowsOK
  <2>2. TodoOK'
    BY <1>2, TodoStep, Zenon DEF CollectionGroup_delete_all_by_collection, LinksDeleted, Same, Running
  <2> QED
    BY <2>1, <2>2
<1>3. CASE CollectionCipher_delete_all_by_collection(r) \/ CollectionCipher_delete(r)
  <2>1. RowsOK'
    BY <1>3, Zenon DEF CollectionCipher_delete_all_by_collection, CollectionCipher_delete, LinksDeleted,
       Same, RowsOK
  <2>2. TodoOK'
    BY <1>3, TodoStep, Zenon DEF CollectionCipher_delete_all_by_collection, CollectionCipher_delete,
       LinksDeleted, Same, Running
  <2> QED
    BY <2>1, <2>2
<1>4. CASE CollectionGroup_delete_all_by_group(r)
  <2>1. RowsOK'
    BY <1>4, Zenon DEF CollectionGroup_delete_all_by_group, LinksDeleted, Same, RowsOK
  <2>2. TodoOK'
    BY <1>4, TodoStep, Zenon DEF CollectionGroup_delete_all_by_group, LinksDeleted, Same, Running
  <2> QED
    BY <2>1, <2>2
<1>5. CASE \/ GroupUser_delete_all_by_group(r) \/ GroupUser_delete_all_by_member(r)
           \/ GroupUser_delete_by_group_and_member(r)
  <2>1. gu' \subseteq gu
    BY <1>5, Zenon DEF GroupUser_delete_all_by_group, GroupUser_delete_all_by_member,
       GroupUser_delete_by_group_and_member
  <2>2. RowsOK'
    BY <1>5, <2>1, Zenon DEF GroupUser_delete_all_by_group, GroupUser_delete_all_by_member,
       GroupUser_delete_by_group_and_member, LinksDeleted, Same, RowsOK
  <2>3. TodoOK'
    BY <1>5, TodoStep, Zenon DEF GroupUser_delete_all_by_group, GroupUser_delete_all_by_member,
       GroupUser_delete_by_group_and_member, LinksDeleted, Same, Running
  <2> QED
    BY <2>2, <2>3
<1>6. CASE delete_all_by_user_and_org(r)
  <2>1. CASE Running(r, "ucs of member")
    <3> DEFINE found == {c \in Collections : uc[Arg(r, 2)][c] # None}
    <3>1. Arg(r, 2) \in Members
      BY <2>1, AtHead, Arguments, Zenon DEF Arg
    <3>2. <<"listed", Arg(r, 2), found>> \in Stmt
      BY <3>1, Zenon DEF Stmt, Plain, Neutral, Giving
    <3>3. todo' = [todo EXCEPT ![r] = <<<<"listed", Arg(r, 2), found>>>> \o Tail(@)] /\ uc' = uc
      BY <1>6, <2>1, Zenon DEF delete_all_by_user_and_org, Running
    <3>4. TodoOK'
      <4> HIDE DEF found
      <4> QED
        BY <1>6, <2>1, <3>2, <3>3, TodoStep, Zenon DEF delete_all_by_user_and_org, Same, Running
    <3> QED
      BY <1>6, <3>3, <3>4, Zenon DEF delete_all_by_user_and_org, Same, RowsOK
  <2>2. CASE Running(r, "listed")
    <3>1. Arg(r, 2) \in Members
      BY <2>2, AtHead, Arguments, Zenon DEF Arg
    <3>2. /\ Continue(r)
          /\ uc' = [uc EXCEPT ![Arg(r, 2)] =
                        [c \in Collections |-> IF c \in Arg(r, 3) THEN None ELSE uc[Arg(r, 2)][c]]]
      BY <1>6, <2>2, Zenon DEF delete_all_by_user_and_org, Running
    <3>3. uc' \in [Members -> [Collections -> Flags \cup {None}]]
      BY <3>1, <3>2 DEF RowsOK
    <3>4. TodoOK'
      BY <1>6, <2>2, <3>2, TodoStep, Zenon DEF delete_all_by_user_and_org, Same, Running
    <3> QED
      BY <1>6, <3>3, <3>4, Zenon DEF delete_all_by_user_and_org, Same, RowsOK
  <2> QED
    BY <1>6, <2>1, <2>2, Zenon DEF delete_all_by_user_and_org
<1>7. CASE fail(r)
  <2>1. TodoOK'
    BY <1>7, TodoStep DEF fail, Same
  <2> QED
    BY <1>7, <2>1 DEF fail, Same, RowsOK
<1> QED
  BY <1>1, <1>2, <1>3, <1>4, <1>5, <1>6, <1>7

\* The statements on collections, groups and memberships.
LEMMA OwnersKeepRows ==
    ASSUME RowsOK, TodoOK, NEW r \in Requests,
           \/ Collection_save(r) \/ Group_save(r) \/ Membership_save(r)
           \/ Collection_delete(r) \/ Group_delete(r) \/ Membership_delete(r)
    PROVE  RowsOK' /\ TodoOK'
<1>1. CASE Collection_save(r)
  <2>1. Arg(r, 2) \in Collections
    BY <1>1, AtHead, Arguments, Zenon DEF Collection_save, Arg
  <2>2. TodoOK'
    BY <1>1, TodoStep DEF Collection_save, Same, Running
  <2> QED
    BY <1>1, <2>1, <2>2 DEF Collection_save, Same, RowsOK
<1>2. CASE Group_save(r)
  <2>1. Arg(r, 2) \in Groups /\ [all |-> Arg(r, 3)] \in GroupRow
    BY <1>2, AtHead, Arguments, Zenon DEF Group_save, Arg, GroupRow
  <2>2. TodoOK'
    BY <1>2, TodoStep DEF Group_save, Same, Running
  <2> QED
    BY <1>2, <2>1, <2>2 DEF Group_save, Same, RowsOK
<1>3. CASE Membership_save(r)
  <2>1. Arg(r, 2) \in Members /\ Arg(r, 3) \in MemberRow
    BY <1>3, AtHead, Arguments, Zenon DEF Membership_save, Arg
  <2>2. TodoOK'
    BY <1>3, TodoStep DEF Membership_save, Running
  <2> QED
    BY <1>3, <2>1, <2>2 DEF Membership_save, RowsOK
<1>4. CASE Collection_delete(r)
  <2>1. TodoOK'
    BY <1>4, TodoStep, Zenon DEF Collection_delete, DeleteRow, Same, Running
  <2>2. coll' = coll \/ (coll' = coll \ {Arg(r, 2)} /\ Arg(r, 2) \notin cc)
    BY <1>4, Zenon DEF Collection_delete, DeleteRow
  <2>3. UNCHANGED <<groups_on, member, group, gu, uc, cg, cc>>
    BY <1>4, Zenon DEF Collection_delete, DeleteRow, Same
  <2> QED
    BY <2>1, <2>2, <2>3 DEF RowsOK
<1>5. CASE Group_delete(r)
  <2>1. TodoOK'
    BY <1>5, TodoStep, Zenon DEF Group_delete, DeleteRow, Same, Running
  <2>2. group' = group \/ group' = [group EXCEPT ![Arg(r, 2)] = None]
    BY <1>5, Zenon DEF Group_delete, DeleteRow
  <2>3. UNCHANGED <<groups_on, member, coll, gu, uc, cg, cc>>
    BY <1>5, Zenon DEF Group_delete, DeleteRow, Same
  <2> QED
    BY <2>1, <2>2, <2>3 DEF RowsOK
<1>6. CASE Membership_delete(r)
  <2>1. TodoOK'
    BY <1>6, TodoStep, Zenon DEF Membership_delete, DeleteRow, Running
  <2>2. member' = member \/ member' = [member EXCEPT ![Arg(r, 2)] = None]
    BY <1>6, Zenon DEF Membership_delete, DeleteRow
  <2>3. UNCHANGED <<groups_on, coll, group, gu, uc, cg, cc>>
    BY <1>6, Zenon DEF Membership_delete, DeleteRow
  <2> QED
    BY <2>1, <2>2, <2>3 DEF RowsOK
<1> QED
  BY <1>1, <1>2, <1>3, <1>4, <1>5, <1>6

\* The lists of groups, members and collections that requests name.
LEMMA PostedLists ==
    ASSUME Assumptions
    PROVE  /\ \A gs \in GroupGrants : gs \in Seq(Groups \X Flags)
           /\ \A us \in UserGrants : us \in Seq(Members \X Flags)
           /\ \A cs \in ColGrants : cs \in Seq(Collections \X Flags)
           /\ \A ms \in MemberLists : ms \in Seq(Members)
<1>1. ASSUME NEW gs \in GroupGrants PROVE gs \in Seq(Groups \X Flags)
  <2>1. CASE gs = <<>>
    BY <2>1, EmptyList
  <2>2. CASE gs # <<>>
    <3>1. PICK g \in Groups, f \in Grants : gs = <<<<g, f>>>>
      BY <1>1, <2>2 DEF GroupGrants
    <3>2. <<g, f>> \in Groups \X Flags
      BY DEF Assumptions
    <3> QED
      BY <3>1, <3>2, OneSeq
  <2> QED
    BY <2>1, <2>2
<1>2. ASSUME NEW us \in UserGrants PROVE us \in Seq(Members \X Flags)
  <2>1. CASE us = <<>>
    BY <2>1, EmptyList
  <2>2. CASE us # <<>>
    <3>1. PICK m \in Members, f \in Grants : us = <<<<m, f>>>>
      BY <1>2, <2>2 DEF UserGrants
    <3>2. <<m, f>> \in Members \X Flags
      BY DEF Assumptions
    <3> QED
      BY <3>1, <3>2, OneSeq
  <2> QED
    BY <2>1, <2>2
<1>3. ASSUME NEW cs \in ColGrants PROVE cs \in Seq(Collections \X Flags)
  <2>1. CASE cs = <<>>
    BY <2>1, EmptyList
  <2>2. CASE cs # <<>>
    <3>1. PICK c \in Collections, f \in Grants : cs = <<<<c, f>>>>
      BY <1>3, <2>2 DEF ColGrants
    <3>2. <<c, f>> \in Collections \X Flags
      BY DEF Assumptions
    <3> QED
      BY <3>1, <3>2, OneSeq
  <2> QED
    BY <2>1, <2>2
<1>4. ASSUME NEW ms \in MemberLists PROVE ms \in Seq(Members)
  BY <1>4, EmptyList, OneSeq, Zenon DEF MemberLists
<1> QED
  BY <1>1, <1>2, <1>3, <1>4

\* The statements that are made from those lists.
LEMMA GroupStatementsTyped ==
    ASSUME Assumptions, NEW M \in SUBSET Members, NEW gs \in GroupGrants, NEW c, NEW m
    PROVE  /\ c \in Collections => GroupStatements(c, gs) \in Seq(Plain(M))
           /\ m \in M => [i \in DOMAIN gs |-> <<"gu", gs[i][1], m>>] \in Seq(Plain(M))
<1>1. gs \in Seq(Groups \X Flags) /\ Len(gs) \in Nat /\ DOMAIN gs = 1 .. Len(gs)
  BY PostedLists, ListDomain
<1>2. \A i \in DOMAIN gs : gs[i][1] \in Groups /\ gs[i][2] \in Flags
  BY <1>1, Entry
<1>3. c \in Collections => \A i \in DOMAIN gs : <<"cg", c, gs[i][1], gs[i][2]>> \in Plain(M)
  BY <1>2, Zenon DEF Plain, Neutral, Giving
<1>4. m \in M => \A i \in DOMAIN gs : <<"gu", gs[i][1], m>> \in Plain(M)
  BY <1>2, Zenon DEF Plain, Neutral, Giving
<1> QED
  BY <1>1, <1>3, <1>4, IsSeq DEF GroupStatements

\* Statements that look a member up before they give a link.
LEMMA UserStatementsTyped ==
    ASSUME Assumptions, NEW M \in SUBSET Members, NEW us \in UserGrants, NEW c \in Collections
    PROVE  UserStatements(c, us) \in Seq(Plain(M))
<1>1. us \in Seq(Members \X Flags) /\ Len(us) \in Nat /\ DOMAIN us = 1 .. Len(us)
  BY PostedLists, ListDomain
<1>2. \A i \in DOMAIN us : us[i][1] \in Members /\ us[i][2] \in Flags
  BY <1>1, Entry
<1>3. \A i \in DOMAIN us : <<"user", us[i][1], c, us[i][2]>> \in Plain(M)
  BY <1>2, Zenon DEF Plain, Neutral, Giving
<1> QED
  BY <1>1, <1>3, IsSeq DEF UserStatements

\* Statements that link collections to a group or to a member.
LEMMA ColStatementsTyped ==
    ASSUME Assumptions, NEW M \in SUBSET Members, NEW cs \in ColGrants, NEW g, NEW m
    PROVE  /\ g \in Groups =>
                 [i \in DOMAIN cs |-> <<"cg", cs[i][1], g, cs[i][2]>>] \in Seq(Plain(M))
           /\ m \in M =>
                 [i \in DOMAIN cs |-> <<"col", m, cs[i][1], cs[i][2]>>] \in Seq(Plain(M))
<1>1. cs \in Seq(Collections \X Flags) /\ Len(cs) \in Nat /\ DOMAIN cs = 1 .. Len(cs)
  BY PostedLists, ListDomain
<1>2. \A i \in DOMAIN cs : cs[i][1] \in Collections /\ cs[i][2] \in Flags
  BY <1>1, Entry
<1>3. g \in Groups => \A i \in DOMAIN cs : <<"cg", cs[i][1], g, cs[i][2]>> \in Plain(M)
  BY <1>2, Zenon DEF Plain, Neutral, Giving
<1>4. m \in M => \A i \in DOMAIN cs : <<"col", m, cs[i][1], cs[i][2]>> \in Plain(M)
  BY <1>2, Zenon DEF Plain, Neutral, Giving
<1> QED
  BY <1>1, <1>3, <1>4, IsSeq

\* Statements that put members into a group.
LEMMA MemberStatementsTyped ==
    ASSUME Assumptions, NEW M \in SUBSET Members, NEW ms \in MemberLists, NEW g \in Groups,
           \A i \in DOMAIN ms : ms[i] \in M
    PROVE  [i \in DOMAIN ms |-> <<"gu", g, ms[i]>>] \in Seq(Plain(M))
<1>1. Len(ms) \in Nat /\ DOMAIN ms = 1 .. Len(ms)
  BY PostedLists, ListDomain
<1>2. \A i \in DOMAIN ms : <<"gu", g, ms[i]>> \in Plain(M)
  BY Zenon DEF Plain, Neutral, Giving
<1> QED
  BY <1>1, <1>2, IsSeq

\* A set of collections taken in some order.
LEMMA OrderTyped ==
    ASSUME Assumptions, NEW S \in SUBSET Collections, NEW s \in Order(S)
    PROVE  \E n \in Nat : s \in [1 .. n -> Collections] /\ DOMAIN s = 1 .. n
<1>1. Cardinality(S) \in Nat
  BY DEF Assumptions
<1>2. s \in [1 .. Cardinality(S) -> Collections]
  BY DEF Order
<1> QED
  BY <1>1, <1>2

\* Lists of statements are put together.
LEMMA ConcatStmt ==
    ASSUME NEW M
    PROVE  \A s, t \in Seq(Plain(M)) : s \o t \in Seq(Plain(M))
  BY Concat

\* What replaces the links of a collection.
LEMMA ReplaceLinksTyped ==
    ASSUME Assumptions, NEW M \in SUBSET Members,
           NEW c \in Collections, NEW gs \in GroupGrants, NEW us \in UserGrants
    PROVE  ReplaceLinks(c, gs, us) \in Seq(Plain(M))
<1>1. <<"collection", c>> \in Plain(M) /\ <<"cgs of collection", c>> \in Plain(M)
      /\ <<"ucs of collection", c>> \in Plain(M)
  BY Zenon DEF Plain, Neutral, Giving
<1>2. <<<<"collection", c>>, <<"cgs of collection", c>>>> \in Seq(Plain(M))
      /\ <<<<"ucs of collection", c>>>> \in Seq(Plain(M))
  BY <1>1, ShortSeq, OneSeq, Zenon
<1>3. GroupStatements(c, gs) \in Seq(Plain(M))
  BY GroupStatementsTyped, Zenon
<1>4. UserStatements(c, us) \in Seq(Plain(M))
  BY UserStatementsTyped
<1> QED
  BY <1>2, <1>3, <1>4, ConcatStmt, Zenon DEF ReplaceLinks

\* The members whose membership is there.
Present == {m \in Members : member[m] # None}

\* A request begins with statements that give links to present members only,
\* or invites a member first, or removes one.
Begins(r) ==
    \/ \E s \in Seq(Plain(Present)) : Start(r, s)
    \/ \E m \in Members : \E s \in Seq(Plain(Present \cup {m})) :
          Start(r, s) /\ s # <<>> /\ s[1][1] = "membership" /\ s[1][2] = m
    \/ \E m \in Members :
          Start(r, <<<<"ucs of member", m>>, <<"gus of member", m>>,
                     <<"delete membership", m, Alone(r)>>>>)

\* The handlers of collections.
LEMMA CollectionHandlers ==
    ASSUME Assumptions, RowsOK, TodoOK, NEW r \in Requests,
           \/ post_organization_collections(r) \/ post_organization_collection_update(r)
           \/ post_bulk_access_collections(r) \/ delete_organization_collection_impl(r)
    PROVE  \E s \in Seq(Plain(Present)) : Start(r, s)
<1> DEFINE M == Present
<1>0. coll \subseteq Collections /\ M \in SUBSET Members
  BY DEF RowsOK, Present
<1> HIDE DEF M
<1>1. CASE post_organization_collections(r)
  <2>1. PICK c \in Collections, gs \in GroupGrants, us \in UserGrants :
            Start(r, <<<<"collection", c>>>> \o GroupStatements(c, gs) \o UserStatements(c, us))
    BY <1>1 DEF post_organization_collections
  <2>2. <<"collection", c>> \in Plain(M)
    BY Zenon DEF Plain, Neutral, Giving
  <2>3. <<<<"collection", c>>>> \o GroupStatements(c, gs) \o UserStatements(c, us) \in Seq(Plain(M))
    BY <1>0, <2>2, OneSeq, GroupStatementsTyped, UserStatementsTyped, ConcatStmt, Zenon
  <2> QED
    BY <2>1, <2>3, Zenon DEF M
<1>2. CASE post_organization_collection_update(r)
  <2>1. PICK c \in Collections, gs \in GroupGrants, us \in UserGrants : Start(r, ReplaceLinks(c, gs, us))
    BY <1>0, <1>2 DEF post_organization_collection_update
  <2>2. ReplaceLinks(c, gs, us) \in Seq(Plain(M))
    BY <1>0, ReplaceLinksTyped
  <2> QED
    BY <2>1, <2>2 DEF M
<1>3. CASE post_bulk_access_collections(r)
  <2>1. PICK c \in Collections, d \in Collections, gs \in GroupGrants, us \in UserGrants :
            \/ Start(r, ReplaceLinks(c, gs, us))
            \/ Start(r, ReplaceLinks(c, gs, us) \o ReplaceLinks(d, gs, us))
    BY <1>0, <1>3 DEF post_bulk_access_collections
  <2>2. ReplaceLinks(c, gs, us) \in Seq(Plain(M)) /\ ReplaceLinks(d, gs, us) \in Seq(Plain(M))
    BY <1>0, ReplaceLinksTyped
  <2>3. ReplaceLinks(c, gs, us) \o ReplaceLinks(d, gs, us) \in Seq(Plain(M))
    BY <2>2, ConcatStmt
  <2> QED
    BY <2>1, <2>2, <2>3, Zenon DEF M
<1>4. CASE delete_organization_collection_impl(r)
  <2>1. PICK c \in Collections :
            Start(r, <<<<"ccs of collection", c>>, <<"ucs of collection", c>>,
                       <<"cgs of collection", c>>, <<"delete collection", c>>>>)
    BY <1>0, <1>4, Zenon DEF delete_organization_collection_impl
  <2>2. /\ <<"ccs of collection", c>> \in Plain(M) /\ <<"ucs of collection", c>> \in Plain(M)
        /\ <<"cgs of collection", c>> \in Plain(M) /\ <<"delete collection", c>> \in Plain(M)
    BY Zenon DEF Plain, Neutral, Giving
  <2>3. <<<<"ccs of collection", c>>, <<"ucs of collection", c>>,
          <<"cgs of collection", c>>, <<"delete collection", c>>>> \in Seq(Plain(M))
    BY <2>2, ShortSeq, Zenon
  <2> QED
    BY <2>1, <2>3, Zenon DEF M
<1> QED
  BY <1>1, <1>2, <1>3, <1>4

\* The handlers of groups: those that name members have looked them up.
LEMMA GroupHandlers ==
    ASSUME Assumptions, RowsOK, TodoOK, NEW r \in Requests,
           \/ post_groups(r) \/ put_group(r) \/ delete_group_impl(r)
           \/ put_group_members(r) \/ post_delete_group_member(r)
    PROVE  \E s \in Seq(Plain(Present)) : Start(r, s)
<1> DEFINE M == Present
           Looked(ms) == \A i \in DOMAIN ms : ms[i] \in M
<1>0. M \in SUBSET Members
  BY DEF Present
<1>1. ASSUME NEW ms \in MemberLists, \A i \in DOMAIN ms : member[ms[i]] # None
      PROVE  Looked(ms)
  <2>1. ms \in Seq(Members) /\ DOMAIN ms = 1 .. Len(ms)
    BY PostedLists, ListDomain
  <2>2. \A i \in DOMAIN ms : ms[i] \in Members
    BY <2>1, Entry
  <2> QED
    BY <1>1, <2>2 DEF Present
<1> HIDE DEF M
<1>2. ASSUME NEW g \in Groups, NEW all \in BOOLEAN, NEW cs \in ColGrants,
             NEW ms \in MemberLists, Looked(ms)
      PROVE  add_update_group(g, all, cs, ms) \in Seq(Plain(M))
  <2>1. <<"group", g, all>> \in Plain(M)
    BY Zenon DEF Plain, Neutral, Giving
  <2>2. [i \in DOMAIN cs |-> <<"cg", cs[i][1], g, cs[i][2]>>] \in Seq(Plain(M))
    BY <1>0, ColStatementsTyped, Zenon
  <2>3. [i \in DOMAIN ms |-> <<"gu", g, ms[i]>>] \in Seq(Plain(M))
    BY <1>0, <1>2, MemberStatementsTyped
  <2> QED
    BY <2>1, <2>2, <2>3, OneSeq, ConcatStmt DEF add_update_group
<1>3. ASSUME NEW g \in Groups
      PROVE  /\ <<"cgs of group", g>> \in Plain(M) /\ <<"gus of group", g>> \in Plain(M)
             /\ <<"delete group", g>> \in Plain(M)
  BY Zenon DEF Plain, Neutral, Giving
<1>4. CASE post_groups(r)
  <2>1. PICK g \in Groups, all \in BOOLEAN, cs \in ColGrants, ms \in MemberLists :
            group_validate(cs, ms) /\ Start(r, add_update_group(g, all, cs, ms))
    BY <1>4 DEF post_groups
  <2>2. add_update_group(g, all, cs, ms) \in Seq(Plain(M))
    BY <1>1, <1>2, <2>1 DEF group_validate
  <2> QED
    BY <2>1, <2>2 DEF M
<1>5. CASE put_group(r)
  <2>1. PICK g \in Groups, all \in BOOLEAN, cs \in ColGrants, ms \in MemberLists :
            /\ group_validate(cs, ms)
            /\ Start(r, <<<<"cgs of group", g>>, <<"gus of group", g>>>> \o add_update_group(g, all, cs, ms))
    BY <1>5, Zenon DEF put_group
  <2>2. add_update_group(g, all, cs, ms) \in Seq(Plain(M))
    BY <1>1, <1>2, <2>1, Zenon DEF group_validate
  <2>3. <<<<"cgs of group", g>>, <<"gus of group", g>>>> \in Seq(Plain(M))
    BY <1>3, ShortSeq, Zenon
  <2>4. <<<<"cgs of group", g>>, <<"gus of group", g>>>> \o add_update_group(g, all, cs, ms)
            \in Seq(Plain(M))
    BY <2>2, <2>3, ConcatStmt, Zenon
  <2> QED
    BY <2>1, <2>4, Zenon DEF M
<1>6. CASE delete_group_impl(r)
  <2>1. PICK g \in Groups :
            Start(r, <<<<"cgs of group", g>>, <<"gus of group", g>>, <<"delete group", g>>>>)
    BY <1>6, Zenon DEF delete_group_impl
  <2>2. <<<<"cgs of group", g>>, <<"gus of group", g>>, <<"delete group", g>>>> \in Seq(Plain(M))
    BY <1>3, ShortSeq, Zenon
  <2> QED
    BY <2>1, <2>2, Zenon DEF M
<1>7. CASE put_group_members(r)
  <2>1. PICK g \in Groups, ms \in MemberLists :
            /\ \A i \in DOMAIN ms : member[ms[i]] # None
            /\ Start(r, <<<<"gus of group", g>>>> \o [i \in DOMAIN ms |-> <<"gu", g, ms[i]>>])
    BY <1>7, Zenon DEF put_group_members
  <2>2. [i \in DOMAIN ms |-> <<"gu", g, ms[i]>>] \in Seq(Plain(M))
    BY <1>0, <1>1, <2>1, MemberStatementsTyped, Zenon
  <2>3. <<<<"gus of group", g>>>> \o [i \in DOMAIN ms |-> <<"gu", g, ms[i]>>] \in Seq(Plain(M))
    BY <1>3, <2>2, OneSeq, ConcatStmt, Zenon
  <2> QED
    BY <2>1, <2>3, Zenon DEF M
<1>8. CASE post_delete_group_member(r)
  <2>1. PICK g \in Groups, m \in Members : Start(r, <<<<"gu of member", g, m>>>>)
    BY <1>8, Zenon DEF post_delete_group_member
  <2>2. <<"gu of member", g, m>> \in Plain(M)
    BY Zenon DEF Plain, Neutral, Giving
  <2> QED
    BY <2>1, <2>2, OneSeq, Zenon DEF M
<1> QED
  BY <1>4, <1>5, <1>6, <1>7, <1>8

\* The handlers that file the item in collections.
LEMMA CipherHandlers ==
    ASSUME Assumptions, RowsOK, TodoOK, NEW r \in Requests,
           post_collections_update(r) \/ post_collections_admin(r) \/ post_bulk_collections(r)
    PROVE  \E s \in Seq(Plain(Present)) : Start(r, s)
<1> DEFINE M == Present
<1> HIDE DEF M
<1>1. ASSUME NEW m \in Members, NEW posted \in SUBSET Collections,
             NEW current \in SUBSET Collections, NEW s \in Difference(m, posted, current)
      PROVE  s \in Seq(Plain(M))
  <2> DEFINE D == (posted \ current) \cup (current \ posted)
  <2>1. PICK o \in Order(D) : s = [i \in DOMAIN o |-> <<"toggle", m, o[i], o[i] \in posted>>]
    BY Zenon DEF Difference
  <2>2. PICK n \in Nat : o \in [1 .. n -> Collections] /\ DOMAIN o = 1 .. n
    BY OrderTyped
  <2>3. ASSUME NEW i \in 1 .. n PROVE <<"toggle", m, o[i], o[i] \in posted>> \in Plain(M)
    <3>1. \A c \in Collections, b \in BOOLEAN : <<"toggle", m, c, b>> \in Plain(M)
      BY Zenon DEF Plain, Neutral, Giving
    <3>2. o[i] \in Collections /\ (o[i] \in posted) \in BOOLEAN
      BY <2>2
    <3> QED
      BY <3>1, <3>2, Zenon
  <2> QED
    BY <2>1, <2>2, <2>3, IsSeq
<1>2. \A m \in Members : get_collections(m) \subseteq Collections /\ get_admin_collections(m) \subseteq Collections
  BY DEF RowsOK, get_collections, get_admin_collections
<1>3. CASE post_collections_update(r)
  BY <1>1, <1>2, <1>3 DEF post_collections_update, M
<1>4. CASE post_collections_admin(r)
  BY <1>1, <1>2, <1>4 DEF post_collections_admin, M
<1>5. CASE post_bulk_collections(r)
  <2>0. PICK posted \in SUBSET Collections, remove \in BOOLEAN : \E s \in Order(posted) :
            Start(r, [i \in DOMAIN s |-> <<IF remove THEN "no cc" ELSE "cc", s[i]>>])
    BY <1>5, Zenon DEF post_bulk_collections
  <2>1. PICK s \in Order(posted) :
            Start(r, [i \in DOMAIN s |-> <<IF remove THEN "no cc" ELSE "cc", s[i]>>])
    BY <2>0, Zenon
  <2>2. PICK n \in Nat : s \in [1 .. n -> Collections] /\ DOMAIN s = 1 .. n
    BY OrderTyped
  <2>3. \A i \in 1 .. n : <<IF remove THEN "no cc" ELSE "cc", s[i]>> \in Plain(M)
    BY <2>2, Zenon DEF Plain, Neutral, Giving
  <2>4. [i \in DOMAIN s |-> <<IF remove THEN "no cc" ELSE "cc", s[i]>>] \in Seq(Plain(M))
    BY <2>2, <2>3, IsSeq, Zenon
  <2> QED
    BY <2>1, <2>4, Zenon DEF M
<1> QED
  BY <1>3, <1>4, <1>5

\* The handlers of members: an invitation saves the membership before its links.
LEMMA MemberHandlers ==
    ASSUME Assumptions, RowsOK, TodoOK, NEW r \in Requests,
           send_invite(r) \/ confirm_invite(r) \/ edit_member(r) \/ delete_member(r)
    PROVE  Begins(r)
<1>0. \A m \in Members : member[m] # None => member[m] \in MemberRow
  BY DEF RowsOK
<1>0a. \A atype : access_all(atype) \subseteq BOOLEAN
  BY DEF access_all
<1>1. ASSUME NEW M \in SUBSET Members, NEW m \in M, NEW all, NEW cs \in ColGrants
      PROVE  (IF all THEN <<>>
              ELSE [i \in DOMAIN cs |-> <<"col", m, cs[i][1], cs[i][2]>>]) \in Seq(Plain(M))
  BY ColStatementsTyped, EmptyList, Zenon
<1>2. ASSUME NEW M, NEW m \in Members, NEW row \in MemberRow
      PROVE  <<"membership", m, row>> \in Plain(M)
  BY Zenon DEF Plain, Neutral, Giving
<1>3. CASE send_invite(r)
  <2>1. PICK m \in Members, atype \in Types, cs \in ColGrants, gs \in GroupGrants, all \in BOOLEAN :
            Start(r, <<<<"membership", m,
                         [status |-> "Invited", atype |-> atype, all |-> all]>>>>
                     \o (IF all THEN <<>>
                         ELSE [i \in DOMAIN cs |-> <<"col", m, cs[i][1], cs[i][2]>>])
                     \o [i \in DOMAIN gs |-> <<"gu", gs[i][1], m>>])
    BY <1>3, <1>0a, Zenon DEF send_invite
  <2> DEFINE M == Present \cup {m}
             x == <<"membership", m, [status |-> "Invited", atype |-> atype, all |-> all]>>
             cols == IF all THEN <<>>
                     ELSE [i \in DOMAIN cs |-> <<"col", m, cs[i][1], cs[i][2]>>]
             gus == [i \in DOMAIN gs |-> <<"gu", gs[i][1], m>>]
  <2>2. M \in SUBSET Members /\ m \in M
    BY DEF Present
  <2>3. x \in Plain(M) /\ x[1] = "membership" /\ x[2] = m
    <3>1. [status |-> "Invited", atype |-> atype, all |-> all] \in MemberRow
      BY DEF MemberRow, Statuses
    <3> QED
      BY <1>2, <3>1
  <2> HIDE DEF M
  <2>4. cols \in Seq(Plain(M)) /\ gus \in Seq(Plain(M))
    BY <1>1, <2>2, GroupStatementsTyped, Zenon
  <2> HIDE DEF x, cols, gus
  <2>5. /\ <<x>> \in Seq(Plain(M)) /\ <<x>> \o cols \in Seq(Plain(M))
        /\ <<x>> \o cols \o gus \in Seq(Plain(M))
    BY <2>3, <2>4, OneSeq, ConcatStmt
  <2>6. (<<x>> \o cols \o gus) # <<>> /\ (<<x>> \o cols \o gus)[1] = x
    BY <2>3, <2>4, <2>5, OneSeq, Concat, EmptyList, ListDomain
  <2>7. Start(r, <<x>> \o cols \o gus)
    BY <2>1 DEF x, cols, gus
  <2> QED
    BY <2>3, <2>5, <2>6, <2>7, Zenon DEF Begins, M
<1>4. CASE confirm_invite(r)
  <2>1. PICK m \in Members, s \in {"Accepted", "Confirmed"} :
            /\ member[m] # None
            /\ Start(r, <<<<"membership", m, [member[m] EXCEPT !.status = s]>>>>)
    BY <1>4, Zenon DEF confirm_invite
  <2>2. [member[m] EXCEPT !.status = s] \in MemberRow
    BY <1>0, <2>1 DEF MemberRow, Statuses
  <2> QED
    BY <1>2, <2>1, <2>2, OneSeq, Zenon DEF Begins
<1>5. CASE edit_member(r)
  <2> DEFINE row(m, atype, all) == [member[m] EXCEPT !.atype = atype, !.all = all]
  <2>1. PICK m \in Members, atype \in Types, cs \in ColGrants, gs \in GroupGrants, all \in BOOLEAN :
            /\ member[m] # None
            /\ Start(r, <<<<"ucs of member", m>>>>
                        \o (IF all THEN <<>>
                            ELSE [i \in DOMAIN cs |-> <<"col", m, cs[i][1], cs[i][2]>>])
                        \o <<<<"gus of member", m>>>>
                        \o [i \in DOMAIN gs |-> <<"gu", gs[i][1], m>>]
                        \o <<<<"membership", m, row(m, atype, all)>>>>)
    BY <1>5, <1>0a, Zenon DEF edit_member
  <2> DEFINE M == Present
             cols == IF all THEN <<>>
                     ELSE [i \in DOMAIN cs |-> <<"col", m, cs[i][1], cs[i][2]>>]
             gus == [i \in DOMAIN gs |-> <<"gu", gs[i][1], m>>]
  <2>2. M \in SUBSET Members /\ m \in M
    BY <2>1, Zenon DEF Present
  <2>3. row(m, atype, all) \in MemberRow
    BY <1>0, <2>1, Zenon DEF MemberRow
  <2> HIDE DEF row, M
  <2>4. /\ <<"ucs of member", m>> \in Plain(M) /\ <<"gus of member", m>> \in Plain(M)
        /\ <<"membership", m, row(m, atype, all)>> \in Plain(M)
    BY <1>2, <2>3, Zenon DEF Plain, Neutral, Giving
  <2>5. cols \in Seq(Plain(M)) /\ gus \in Seq(Plain(M))
    BY <1>1, <2>2, GroupStatementsTyped, Zenon
  <2> HIDE DEF cols, gus
  <2>6. <<<<"ucs of member", m>>>> \o cols \o <<<<"gus of member", m>>>> \o gus
            \o <<<<"membership", m, row(m, atype, all)>>>> \in Seq(Plain(M))
    BY <2>4, <2>5, OneSeq, ConcatStmt, Zenon
  <2> QED
    BY <2>1, <2>6, Zenon DEF Begins, M, cols, gus
<1>6. CASE delete_member(r)
  BY <1>6, Zenon DEF delete_member, Begins
<1> QED
  BY <1>3, <1>4, <1>5, <1>6

\* What a handler begins with.
LEMMA Handlers ==
    ASSUME Assumptions, RowsOK, TodoOK, NEW r \in Requests, Handle(r)
    PROVE  Begins(r)
  BY CollectionHandlers, GroupHandlers, CipherHandlers, MemberHandlers, Zenon DEF Handle, Begins

\* The statements of a list are statements.
LEMMA PlainIsStmt ==
    ASSUME NEW M \in SUBSET Members
    PROVE  Plain(M) \subseteq Stmt
<1>1. Giving(M) \subseteq Giving(Members)
  BY DEF Giving
<1> QED
  BY <1>1, Zenon DEF Plain, Stmt

\* A request that begins changes no row, and holds the statements it will run.
LEMMA BeginsKeepsRows ==
    ASSUME RowsOK, TodoOK, NEW r \in Requests, Begins(r)
    PROVE  RowsOK' /\ TodoOK'
<1>1. ASSUME NEW M \in SUBSET Members, NEW s \in Seq(Plain(M)) PROVE s \in Seq(Stmt)
  BY PlainIsStmt, WiderList
<1>2. ASSUME NEW m \in Members
      PROVE  <<<<"ucs of member", m>>, <<"gus of member", m>>,
               <<"delete membership", m, Alone(r)>>>> \in Seq(Stmt)
  <2>1. Alone(r) \in Nat
    BY DEF Alone, TodoOK
  <2>2. <<"ucs of member", m>> \in Stmt /\ <<"gus of member", m>> \in Stmt
        /\ <<"delete membership", m, Alone(r)>> \in Stmt
    BY <2>1, Zenon DEF Stmt, Plain, Neutral, Giving
  <2> QED
    BY <2>2, ShortSeq, Zenon
<1>3. \E s \in Seq(Stmt) : Start(r, s)
  BY <1>1, <1>2, Zenon DEF Begins, Present
<1>4. RowsOK'
  BY <1>3 DEF Start, RowsOK
<1>5. TodoOK'
  BY <1>3 DEF Start, TodoOK
<1> QED
  BY <1>4, <1>5

\* Every step keeps the rows well formed.
LEMMA StepKeepsRows ==
    ASSUME Assumptions, RowsOK, TodoOK, [Next]_vars
    PROVE  RowsOK' /\ TodoOK'
<1>1. CASE UNCHANGED vars
  BY <1>1 DEF vars, RowsOK, TodoOK
<1>2. ASSUME NEW r \in Requests, Handle(r) PROVE RowsOK' /\ TodoOK'
  BY <1>2, Handlers, BeginsKeepsRows
<1>3. ASSUME NEW r \in Requests, Statement(r) PROVE RowsOK' /\ TodoOK'
  BY <1>3, SavesKeepRows, LinkDeletesKeepRows, OwnersKeepRows DEF Statement
<1> QED
  BY <1>1, <1>2, <1>3 DEF Next

\* Both initial states are well formed.
LEMMA InitRows ==
    ASSUME Assumptions, Init \/ InitAny, MaxOps \in Nat
    PROVE  RowsOK /\ TodoOK
<1>1. TodoOK
  <2>1. <<>> \in Seq(Stmt)
    BY EmptyList
  <2>2. todo = [r \in Requests |-> <<>>] /\ ops \in {0, MaxOps}
    BY DEF Init, InitAny
  <2> QED
    BY <2>1, <2>2 DEF TodoOK
<1>2. CASE Init
  <2>1. PICK c \in Collections, f \in Grants :
            /\ coll = {c} /\ cc = {c}
            /\ uc = [m \in Members |-> [d \in Collections |-> IF d = c THEN f ELSE None]]
            /\ cg = [d \in Collections |-> [g \in Groups |-> IF d = c THEN f ELSE None]]
    BY <1>2 DEF Init
  <2>2. f \in Flags
    BY DEF Assumptions
  <2>3. uc \in [Members -> [Collections -> Flags \cup {None}]]
        /\ cg \in [Collections -> [Groups -> Flags \cup {None}]]
    BY <2>1, <2>2
  <2>4. member \in [Members -> MemberRow \cup {None}] /\ group \in [Groups -> GroupRow \cup {None}]
    BY <1>2 DEF Init, MemberRow, GroupRow, Statuses, Types
  <2> QED
    BY <1>1, <1>2, <2>1, <2>3, <2>4 DEF Init, RowsOK
<1>3. CASE InitAny
  BY <1>1, <1>3 DEF InitAny, RowsOK, MemberRow, GroupRow
<1> QED
  BY <1>2, <1>3

\* Every row that the handlers leave behind is well formed, and the item is
\* linked only to collections that exist, however the statements interleave.
THEOREM RowsStayWellFormed ==
    ASSUME Assumptions, MaxOps \in Nat
    PROVE  Spec => [](RowsOK /\ TodoOK)
<1>1. Init => RowsOK /\ TodoOK
  BY InitRows
<1>2. (RowsOK /\ TodoOK) /\ [Next]_vars => (RowsOK /\ TodoOK)'
  BY StepKeepsRows
<1> QED
  BY <1>1, <1>2, PTL DEF Spec

\* The full sync and the item on its own agree about a member's access in every
\* state the handlers can reach.
THEOREM SyncAlwaysAgrees ==
    ASSUME Assumptions, MaxOps \in Nat
    PROVE  Spec => []SyncAgrees
<1>1. RowsOK /\ TodoOK => SyncAgrees
  BY RowsAgree
<1> QED
  BY <1>1, RowsStayWellFormed, PTL

\* The update handlers never meet a link of their own choice that they may not
\* change, and the collections that are listed are the ones that open.
THEOREM UpdatesNeverStuck ==
    ASSUME Assumptions, MaxOps \in Nat
    PROVE  Spec => []UpdateNeverStuck
<1>1. RowsOK /\ TodoOK => UpdateNeverStuck
  BY RowsUnstuck
<1> QED
  BY <1>1, RowsStayWellFormed, PTL

-----------------------------------------------------------------------------
(* Members who have left. *)


\* The statement may give m a link without looking m up.
Gives(x, m) == (x[1] \in {"uc", "col"} /\ x[2] = m) \/ (x[1] = "gu" /\ x[3] = m)

\* The list gives m none, or invites m first.
Invites(s, m) == s # <<>> /\ Head(s)[1] = "membership" /\ Head(s)[2] = m
Harmless(s, m) == Invites(s, m) \/ \A i \in DOMAIN s : ~Gives(s[i], m)

Unlinked(m) == \A c \in Collections : uc[m][c] = None
Ungrouped(m) == \A l \in gu : l[2] # m

LeftOK ==
    /\ left \subseteq Members
    /\ \A m \in left : /\ member[m] = None /\ Unlinked(m) /\ Ungrouped(m)
                       /\ \A r \in Requests : Harmless(todo[r], m)

\* How far a removal has come, and what it has achieved if no other request
\* has started since.
Removing(r, m, n) ==
    \/ todo[r] = <<<<"ucs of member", m>>, <<"gus of member", m>>, <<"delete membership", m, n>>>>
    \/ \E found \in SUBSET Collections :
          /\ todo[r] = <<<<"listed", m, found>>, <<"gus of member", m>>, <<"delete membership", m, n>>>>
          /\ n = ops => \A c \in Collections \ found : uc[m][c] = None
    \/ /\ todo[r] = <<<<"gus of member", m>>, <<"delete membership", m, n>>>>
       /\ n = ops => Unlinked(m)
    \/ /\ todo[r] = <<<<"delete membership", m, n>>>>
       /\ n = ops => Unlinked(m) /\ Ungrouped(m)

\* A removal that no other request has followed runs alone.
RemovalOK(r) ==
    \/ todo[r] \in Seq(Plain(Members))
    \/ \E m \in Members, n \in Nat :
          /\ Removing(r, m, n) /\ n <= ops
          /\ n = ops => \A q \in Requests \ {r} : todo[q] = <<>>

RemovalsOK == \A r \in Requests : RemovalOK(r)

IInv == RowsOK /\ TodoOK /\ LeftOK /\ RemovalsOK

\* A statement that is put before the rest gives links to members who are
\* there, or to the one it was about to be given to.
LEMMA NextStatements ==
    ASSUME RowsOK, TodoOK, NEW r \in Requests, Statement(r)
    PROVE  /\ todo[r] # <<>> /\ ops' = ops
           /\ \/ Continue(r) \/ Abort(r)
              \/ \E x \in Plain(Members) :
                    /\ todo' = [todo EXCEPT ![r] = <<x>> \o Tail(todo[r])]
                    /\ \A m \in Members :
                          Gives(x, m) => member[m] # None \/ Gives(Head(todo[r]), m)
<1> DEFINE Put(x) == /\ todo' = [todo EXCEPT ![r] = <<x>> \o Tail(todo[r])]
                     /\ \A m \in Members :
                           Gives(x, m) => member[m] # None \/ Gives(Head(todo[r]), m)
<1>0. todo[r] # <<>> /\ ops' = ops
  <2>1. CASE \/ CollectionUser_save(r) \/ CollectionGroup_save(r) \/ GroupUser_save(r)
             \/ user_turn(r) \/ col_turn(r) \/ toggle(r) \/ CollectionCipher_save(r)
             \/ CollectionCipher_delete(r) \/ fail(r) \/ delete_all_by_user_and_org(r)
    BY <2>1, Zenon DEF CollectionUser_save, CollectionGroup_save, GroupUser_save, user_turn, col_turn, toggle,
       CollectionCipher_save, CollectionCipher_delete, fail, delete_all_by_user_and_org, Same, Running
  <2>2. CASE \/ CollectionUser_delete_all_by_collection(r)
             \/ CollectionGroup_delete_all_by_collection(r)
             \/ CollectionCipher_delete_all_by_collection(r)
             \/ CollectionGroup_delete_all_by_group(r)
             \/ GroupUser_delete_all_by_group(r) \/ GroupUser_delete_all_by_member(r)
             \/ GroupUser_delete_by_group_and_member(r)
    BY <2>2, Zenon DEF CollectionUser_delete_all_by_collection, CollectionGroup_delete_all_by_collection,
       CollectionCipher_delete_all_by_collection, CollectionGroup_delete_all_by_group,
       GroupUser_delete_all_by_group, GroupUser_delete_all_by_member,
       GroupUser_delete_by_group_and_member, LinksDeleted, Same, Running
  <2>3. CASE \/ Collection_save(r) \/ Group_save(r) \/ Membership_save(r)
             \/ Collection_delete(r) \/ Group_delete(r) \/ Membership_delete(r)
    BY <2>3, Zenon DEF Collection_save, Group_save, Membership_save, Collection_delete, Group_delete,
       Membership_delete, Same, Running
  <2> QED
    BY <2>1, <2>2, <2>3 DEF Statement
<1>1. CASE user_turn(r)
  <2> DEFINE x == <<"uc", Arg(r, 2), Arg(r, 3), Arg(r, 4)>>
  <2>1. Arg(r, 2) \in Members /\ Arg(r, 3) \in Collections /\ Arg(r, 4) \in Flags
    BY <1>1, AtHead, Arguments, Zenon DEF user_turn, Arg
  <2>2. x \in Plain(Members)
    BY <2>1, Zenon DEF Plain, Neutral, Giving
  <2>3. member[Arg(r, 2)] # None => \A m \in Members : Gives(x, m) => member[m] # None
    BY DEF Gives
  <2>4. Continue(r) \/ Abort(r) \/ (member[Arg(r, 2)] # None
                                  /\ todo' = [todo EXCEPT ![r] = <<x>> \o Tail(todo[r])])
    BY <1>1 DEF user_turn
  <2> HIDE DEF x
  <2> QED
    BY <1>0, <2>2, <2>3, <2>4
<1>2. CASE col_turn(r)
  <2> DEFINE x == <<"uc", Arg(r, 2), Arg(r, 3), Arg(r, 4)>>
  <2>1. Arg(r, 2) \in Members /\ Arg(r, 3) \in Collections /\ Arg(r, 4) \in Flags
    BY <1>2, AtHead, Arguments, Zenon DEF col_turn, Arg
  <2>2. x \in Plain(Members)
    BY <2>1, Zenon DEF Plain, Neutral, Giving
  <2>3. \A m \in Members : Gives(x, m) => Gives(Head(todo[r]), m)
    BY <1>2 DEF Gives, col_turn, Running, Arg
  <2>4. Abort(r) \/ todo' = [todo EXCEPT ![r] = <<x>> \o Tail(todo[r])]
    BY <1>2, Zenon DEF col_turn
  <2> HIDE DEF x
  <2> QED
    BY <1>0, <2>2, <2>3, <2>4
<1>3. CASE toggle(r)
  <2> DEFINE x == <<IF Arg(r, 4) THEN "cc" ELSE "no cc", Arg(r, 3)>>
  <2>1. Arg(r, 3) \in Collections
    BY <1>3, AtHead, Arguments, Zenon DEF toggle, Arg
  <2>2. x \in Plain(Members)
    BY <2>1, Zenon DEF Plain, Neutral, Giving
  <2>3. \A m \in Members : ~Gives(x, m)
    BY DEF Gives
  <2>4. Abort(r) \/ todo' = [todo EXCEPT ![r] = <<x>> \o Tail(todo[r])]
    BY <1>3, Zenon DEF toggle
  <2> HIDE DEF x
  <2> QED
    BY <1>0, <2>2, <2>3, <2>4
<1>4. CASE delete_all_by_user_and_org(r)
  <2> DEFINE found == {c \in Collections : uc[Arg(r, 2)][c] # None}
             x == <<"listed", Arg(r, 2), found>>
  <2>1. Continue(r) \/ (Running(r, "ucs of member") /\ todo' = [todo EXCEPT ![r] = <<x>> \o Tail(todo[r])])
    BY <1>4, Zenon DEF delete_all_by_user_and_org
  <2>2. Running(r, "ucs of member") => Arg(r, 2) \in Members
    BY AtHead, Arguments, Zenon DEF Arg
  <2>3. Running(r, "ucs of member") => x \in Plain(Members)
    BY <2>2, Zenon DEF Plain, Neutral, Giving
  <2>4. \A m \in Members : ~Gives(x, m)
    BY DEF Gives
  <2> HIDE DEF x
  <2> QED
    BY <1>0, <2>1, <2>3, <2>4, Zenon
<1>5. CASE \/ CollectionUser_save(r) \/ CollectionGroup_save(r) \/ GroupUser_save(r)
           \/ CollectionCipher_save(r) \/ CollectionCipher_delete(r) \/ fail(r)
           \/ Collection_save(r) \/ Group_save(r) \/ Membership_save(r)
           \/ Collection_delete(r) \/ Group_delete(r) \/ Membership_delete(r)
  <2>1. Continue(r) \/ Abort(r)
    BY <1>5, Zenon DEF CollectionUser_save, CollectionGroup_save, GroupUser_save, CollectionCipher_save,
       CollectionCipher_delete, fail, Collection_save, Group_save, Membership_save,
       Collection_delete, Group_delete, Membership_delete, SaveLink, DeleteRow
  <2> QED
    BY <1>0, <2>1
<1>6. CASE \/ CollectionUser_delete_all_by_collection(r)
           \/ CollectionGroup_delete_all_by_collection(r)
           \/ CollectionCipher_delete_all_by_collection(r)
           \/ CollectionGroup_delete_all_by_group(r)
           \/ GroupUser_delete_all_by_group(r) \/ GroupUser_delete_all_by_member(r)
           \/ GroupUser_delete_by_group_and_member(r)
  <2>1. Continue(r)
    BY <1>6, Zenon DEF CollectionUser_delete_all_by_collection, CollectionGroup_delete_all_by_collection,
       CollectionCipher_delete_all_by_collection, CollectionGroup_delete_all_by_group,
       GroupUser_delete_all_by_group, GroupUser_delete_all_by_member,
       GroupUser_delete_by_group_and_member, LinksDeleted
  <2> QED
    BY <1>0, <2>1
<1> QED
  BY <1>1, <1>2, <1>3, <1>4, <1>5, <1>6, Zenon DEF Statement

\* The statements of a removal, and the saving of a membership, are run by one
\* action each, or fail.
LEMMA WhoRuns ==
    ASSUME NEW r \in Requests, Statement(r)
    PROVE  /\ Head(todo[r])[1] = "membership" => Membership_save(r) \/ fail(r)
           /\ Head(todo[r])[1] = "delete membership" => Membership_delete(r) \/ fail(r)
           /\ Head(todo[r])[1] = "gus of member" => GroupUser_delete_all_by_member(r) \/ fail(r)
           /\ Head(todo[r])[1] \in {"ucs of member", "listed"} =>
                 delete_all_by_user_and_org(r) \/ fail(r)
<1> DEFINE op == Head(todo[r])[1]
           Special == {"membership", "delete membership", "gus of member", "ucs of member", "listed"}
<1>1. CASE \/ CollectionUser_save(r) \/ CollectionGroup_save(r) \/ GroupUser_save(r)
           \/ user_turn(r) \/ col_turn(r) \/ toggle(r)
           \/ CollectionCipher_save(r) \/ CollectionCipher_delete(r)
  <2>1. op \in {"uc", "cg", "gu", "user", "col", "toggle", "cc", "no cc"}
    BY <1>1, Zenon DEF CollectionUser_save, CollectionGroup_save, GroupUser_save, user_turn, col_turn, toggle,
       CollectionCipher_save, CollectionCipher_delete, Running
  <2> QED
    BY <2>1, Zenon
<1>2. CASE \/ CollectionUser_delete_all_by_collection(r)
           \/ CollectionGroup_delete_all_by_collection(r)
           \/ CollectionCipher_delete_all_by_collection(r)
           \/ CollectionGroup_delete_all_by_group(r)
           \/ GroupUser_delete_all_by_group(r) \/ GroupUser_delete_by_group_and_member(r)
  <2>1. op \in {"ucs of collection", "cgs of collection", "ccs of collection", "cgs of group",
                "gus of group", "gu of member"}
    BY <1>2, Zenon DEF CollectionUser_delete_all_by_collection, CollectionGroup_delete_all_by_collection,
       CollectionCipher_delete_all_by_collection, CollectionGroup_delete_all_by_group,
       GroupUser_delete_all_by_group, GroupUser_delete_by_group_and_member, Running
  <2> QED
    BY <2>1, Zenon
<1>3. CASE Collection_save(r) \/ Group_save(r) \/ Collection_delete(r) \/ Group_delete(r)
  <2>1. op \in {"collection", "group", "delete collection", "delete group"}
    BY <1>3, Zenon DEF Collection_save, Group_save, Collection_delete, Group_delete, Running
  <2> QED
    BY <2>1, Zenon
<1>4. Membership_save(r) => op = "membership"
  BY DEF Membership_save, Running
<1>5. Membership_delete(r) => op = "delete membership"
  BY Zenon DEF Membership_delete, Running
<1>6. GroupUser_delete_all_by_member(r) => op = "gus of member"
  BY Zenon DEF GroupUser_delete_all_by_member, Running
<1>7. delete_all_by_user_and_org(r) => op \in {"ucs of member", "listed"}
  BY Zenon DEF delete_all_by_user_and_org, Running
<1> QED
  BY <1>1, <1>2, <1>3, <1>4, <1>5, <1>6, <1>7, Zenon DEF Statement

\* Plain statements give links to members in M only, and remove nobody.
LEMMA GivenTo ==
    ASSUME NEW M, NEW x \in Plain(M)
    PROVE  x[1] # "delete membership" /\ \A m : Gives(x, m) => m \in M
<1>1. CASE x \in Neutral
  BY <1>1, Zenon DEF Neutral, Gives
<1>2. CASE x \in Giving(M)
  BY <1>2, Zenon DEF Giving, Gives
<1> QED
  BY <1>1, <1>2, Zenon DEF Plain

\* The first statement of a list that gives a member no link is no save of one.
LEMMA HarmlessHead ==
    ASSUME TodoOK, NEW r \in Requests, NEW m, Harmless(todo[r], m), todo[r] # <<>>
    PROVE  ~Gives(Head(todo[r]), m)
<1>1. todo[r] \in Seq(Stmt) /\ Len(todo[r]) \in Nat /\ Len(todo[r]) # 0 /\ Head(todo[r]) = todo[r][1]
  BY EmptyList, HeadTail, ListDomain DEF TodoOK
<1>2. 1 \in DOMAIN todo[r]
  BY <1>1, ListDomain
<1> QED
  BY <1>1, <1>2 DEF Harmless, Invites, Gives

\* A statement gives a member who left no link and no membership.
LEMMA LeftStaysOut ==
    ASSUME RowsOK, TodoOK, LeftOK, NEW r \in Requests, Statement(r), NEW m \in left
    PROVE  /\ Unlinked(m)' /\ Ungrouped(m)'
           /\ m \in left' => member'[m] = None
<1>0. /\ m \in Members /\ member[m] = None /\ Unlinked(m) /\ Ungrouped(m)
      /\ todo[r] # <<>> /\ ~Gives(Head(todo[r]), m)
  BY NextStatements, HarmlessHead, Zenon DEF LeftOK
<1>1. CASE CollectionUser_save(r)
  <2>1. Arg(r, 2) # m
    BY <1>0, <1>1 DEF CollectionUser_save, Running, Arg, Gives
  <2>2. uc' = uc \/ uc' = [uc EXCEPT ![Arg(r, 2)][Arg(r, 3)] = Arg(r, 4)]
    BY <1>1 DEF CollectionUser_save, SaveLink
  <2>3. uc'[m] = uc[m]
    BY <1>0, <2>1, <2>2 DEF RowsOK
  <2>4. gu' = gu /\ member' = member
    BY <1>1 DEF CollectionUser_save, SaveLink
  <2> QED
    BY <1>0, <2>3, <2>4 DEF Unlinked, Ungrouped
<1>2. CASE GroupUser_save(r)
  <2>1. Arg(r, 3) # m
    BY <1>0, <1>2 DEF GroupUser_save, Running, Arg, Gives
  <2>2. gu' = gu \/ gu' = gu \cup {<<Arg(r, 2), Arg(r, 3)>>}
    BY <1>2 DEF GroupUser_save, SaveLink
  <2>3. uc' = uc /\ member' = member
    BY <1>2 DEF GroupUser_save, SaveLink
  <2> QED
    BY <1>0, <2>1, <2>2, <2>3 DEF Unlinked, Ungrouped
<1>3. CASE \/ CollectionGroup_save(r) \/ user_turn(r) \/ col_turn(r) \/ toggle(r)
           \/ CollectionCipher_save(r) \/ CollectionCipher_delete(r) \/ fail(r)
  <2>1. UNCHANGED <<member, gu, uc>>
    BY <1>3, Zenon DEF CollectionGroup_save, SaveLink, user_turn, col_turn, toggle, CollectionCipher_save,
       CollectionCipher_delete, fail
  <2> QED
    BY <1>0, <2>1 DEF Unlinked, Ungrouped
<1>4. CASE \/ CollectionGroup_delete_all_by_collection(r)
           \/ CollectionCipher_delete_all_by_collection(r) \/ CollectionGroup_delete_all_by_group(r)
           \/ Collection_save(r) \/ Group_save(r) \/ Collection_delete(r) \/ Group_delete(r)
  <2>1. UNCHANGED <<member, gu, uc>>
    BY <1>4, Zenon DEF CollectionGroup_delete_all_by_collection, CollectionCipher_delete_all_by_collection,
       CollectionGroup_delete_all_by_group, Collection_save, Group_save, Collection_delete,
       Group_delete, LinksDeleted, DeleteRow
  <2> QED
    BY <1>0, <2>1 DEF Unlinked, Ungrouped
<1>5. CASE CollectionUser_delete_all_by_collection(r)
  <2>1. uc' = [n \in Members |-> [uc[n] EXCEPT ![Arg(r, 2)] = None]] /\ UNCHANGED <<member, gu>>
    BY <1>5, Zenon DEF CollectionUser_delete_all_by_collection, LinksDeleted
  <2> QED
    BY <1>0, <2>1 DEF Unlinked, Ungrouped, RowsOK
<1>6. CASE \/ GroupUser_delete_all_by_group(r) \/ GroupUser_delete_all_by_member(r)
           \/ GroupUser_delete_by_group_and_member(r)
  <2>1. gu' \subseteq gu /\ UNCHANGED <<member, uc>>
    BY <1>6, Zenon DEF GroupUser_delete_all_by_group, GroupUser_delete_all_by_member,
       GroupUser_delete_by_group_and_member, LinksDeleted
  <2> QED
    BY <1>0, <2>1 DEF Unlinked, Ungrouped
<1>7. CASE delete_all_by_user_and_org(r)
  <2>1. UNCHANGED <<member, gu>>
    BY <1>7, Zenon DEF delete_all_by_user_and_org
  <2>2. \/ uc' = uc
        \/ uc' = [uc EXCEPT ![Arg(r, 2)] =
                      [c \in Collections |-> IF c \in Arg(r, 3) THEN None ELSE uc[Arg(r, 2)][c]]]
    BY <1>7, Zenon DEF delete_all_by_user_and_org
  <2>3. \A c \in Collections : uc'[m][c] \in {uc[m][c], None}
    BY <1>0, <2>2 DEF RowsOK
  <2> QED
    BY <1>0, <2>1, <2>3 DEF Unlinked, Ungrouped
<1>8. CASE Membership_save(r)
  <2>1. /\ member' = [member EXCEPT ![Arg(r, 2)] = Arg(r, 3)] /\ left' = left \ {Arg(r, 2)}
        /\ UNCHANGED <<gu, uc>>
    BY <1>8 DEF Membership_save
  <2> QED
    BY <1>0, <2>1 DEF Unlinked, Ungrouped, RowsOK
<1>9. CASE Membership_delete(r)
  <2>1. /\ member' = member \/ member' = [member EXCEPT ![Arg(r, 2)] = None]
        /\ UNCHANGED <<gu, uc>>
    BY <1>9, Zenon DEF Membership_delete, DeleteRow
  <2> QED
    BY <1>0, <2>1 DEF Unlinked, Ungrouped, RowsOK
<1> QED
  BY <1>1, <1>2, <1>3, <1>4, <1>5, <1>6, <1>7, <1>8, <1>9 DEF Statement

\* A list that gives a member who left no link gives none after a statement.
LEMMA StaysHarmless ==
    ASSUME RowsOK, TodoOK, LeftOK, NEW r \in Requests, Statement(r),
           NEW m \in left, m \in left', NEW q \in Requests
    PROVE  Harmless(todo[q], m)'
<1>0. m \in Members /\ member[m] = None /\ Harmless(todo[q], m) /\ Harmless(todo[r], m) /\ todo[r] # <<>>
  BY NextStatements DEF LeftOK
<1>1. CASE q # r
  <2>1. todo'[q] = todo[q]
    BY <1>1, NextStatements, Zenon DEF TodoOK, Continue, Abort
  <2> QED
    BY <1>0, <2>1 DEF Harmless, Invites
<1>2. CASE q = r
  <2>0. todo[r] \in Seq(Stmt)
    BY DEF TodoOK
  <2>1. CASE todo'[r] = <<>>
    BY <1>2, <2>1 DEF Harmless
  <2>2. CASE Invites(todo[r], m)
    <3>1. Membership_save(r) \/ fail(r)
      BY <2>2, WhoRuns, Zenon DEF Invites
    <3>2. ~Membership_save(r)
      BY <2>2 DEF Membership_save, Invites, Arg
    <3>3. todo'[r] = <<>>
      BY <3>1, <3>2 DEF fail, Abort, TodoOK
    <3> QED
      BY <2>1, <3>3
  <2>3. CASE \A i \in DOMAIN todo[r] : ~Gives(todo[r][i], m)
    <3> DEFINE t == Tail(todo[r])
    <3>1. /\ t \in Seq(Stmt) /\ DOMAIN t = 1 .. Len(t) /\ Len(t) \in Nat
          /\ \A i \in 1 .. Len(t) : i + 1 \in DOMAIN todo[r] /\ t[i] = todo[r][i + 1]
      <4>1. /\ Len(todo[r]) \in Nat /\ Len(todo[r]) # 0 /\ DOMAIN todo[r] = 1 .. Len(todo[r])
        BY <1>0, <2>0, EmptyList, ListDomain
      <4>2. t \in Seq(Stmt) /\ Len(t) = Len(todo[r]) - 1 /\ DOMAIN t = 1 .. Len(t)
            /\ \A i \in 1 .. Len(t) : t[i] = todo[r][i + 1]
        BY <1>0, <2>0, HeadTail, ListDomain
      <4> QED
        BY <4>1, <4>2
    <3> HIDE DEF t
    <3>2. \A i \in DOMAIN t : ~Gives(t[i], m)
      BY <2>3, <3>1
    <3>3. CASE todo'[r] = t
      BY <1>2, <3>2, <3>3 DEF Harmless
    <3>4. ASSUME NEW x \in Plain(Members), todo'[r] = <<x>> \o t,
                 Gives(x, m) => member[m] # None \/ Gives(Head(todo[r]), m)
          PROVE  Harmless(todo[q], m)'
      <4>1. ~Gives(x, m)
        BY <1>0, <3>4, HarmlessHead
      <4>2. x \in Stmt
        BY Zenon DEF Stmt
      <4>3. <<x>> \in Seq(Stmt) /\ Len(<<x>>) = 1 /\ <<x>>[1] = x
        BY <4>2, OneSeq
      <4>4. /\ DOMAIN (<<x>> \o t) = 1 .. 1 + Len(t)
            /\ \A i \in 1 .. 1 + Len(t) : (<<x>> \o t)[i] = IF i <= 1 THEN <<x>>[i] ELSE t[i - 1]
        BY <3>1, <4>3, Concat, ListDomain
      <4>5. ASSUME NEW i \in DOMAIN (<<x>> \o t) PROVE ~Gives((<<x>> \o t)[i], m)
        <5>1. CASE i = 1
          BY <4>1, <4>3, <4>4, <5>1
        <5>2. CASE i # 1
          <6>1. i - 1 \in DOMAIN t /\ (<<x>> \o t)[i] = t[i - 1]
            BY <3>1, <4>4, <5>2
          <6> QED
            BY <3>2, <6>1
        <5> QED
          BY <5>1, <5>2
      <4> QED
        BY <1>2, <3>4, <4>5 DEF Harmless
    <3> QED
      BY <1>0, <2>1, <3>3, <3>4, NextStatements, Zenon DEF Continue, Abort, TodoOK, t
  <2> QED
    BY <1>0, <2>2, <2>3 DEF Harmless
<1> QED
  BY <1>1, <1>2

\* Taking short lists apart and putting them together.
LEMMA ShortLists ==
    ASSUME NEW x, NEW y, NEW z
    PROVE  /\ Head(<<x, y, z>>) = x /\ Tail(<<x, y, z>>) = <<y, z>>
           /\ Head(<<x, y>>) = x /\ Tail(<<x, y>>) = <<y>>
           /\ Head(<<x>>) = x /\ Tail(<<x>>) = <<>>
           /\ \A i \in DOMAIN <<x, y, z>> : <<x, y, z>>[i] \in {x, y, z}
  OBVIOUS

\* A list of one before a list of two.
LEMMA OneBeforeTwo ==
    ASSUME NEW x, NEW y, NEW z
    PROVE  <<x>> \o <<y, z>> = <<x, y, z>>
<1> DEFINE S == {x, y, z}
           a == <<x>>
           b == <<y, z>>
           c == <<x, y, z>>
<1>1. a \in Seq(S) /\ Len(a) = 1 /\ a[1] = x
  OBVIOUS
<1>2. b \in Seq(S) /\ Len(b) = 2 /\ b[1] = y /\ b[2] = z
  OBVIOUS
<1>3. c \in Seq(S) /\ Len(c) = 3 /\ c[1] = x /\ c[2] = y /\ c[3] = z
  OBVIOUS
<1> HIDE DEF a, b, c, S
<1>4. /\ a \o b \in Seq(S) /\ Len(a \o b) = 3
      /\ (a \o b)[1] = x /\ (a \o b)[2] = y /\ (a \o b)[3] = z
  <2>1. a \o b \in Seq(S) /\ Len(a \o b) = Len(a) + Len(b)
    BY <1>1, <1>2, Concat, Zenon
  <2>2. \A i \in 1 .. Len(a) + Len(b) : (a \o b)[i] = IF i <= Len(a) THEN a[i] ELSE b[i - Len(a)]
    BY <1>1, <1>2, Concat, Zenon
  <2> QED
    BY <1>1, <1>2, <2>1, <2>2
<1>5. \A i \in 1 .. Len(c) : (a \o b)[i] = c[i]
  BY <1>3, <1>4
<1>6. a \o b = c
  BY <1>3, <1>4, <1>5, SameLists
<1> QED
  BY <1>6 DEF a, b, c

\* The entries of a statement.
LEMMA Entries ==
    ASSUME NEW x, NEW a, NEW b, NEW c
    PROVE  /\ x = <<a, b>> => x[1] = a /\ x[2] = b
           /\ x = <<a, b, c>> => x[1] = a /\ x[2] = b /\ x[3] = c
  OBVIOUS

\* How far a removal comes with a statement of its own.
LEMMA RemovalAdvances ==
    ASSUME RowsOK, TodoOK, NEW r \in Requests, Statement(r), NEW m \in Members, NEW n \in Nat,
           Removing(r, m, n)
    PROVE  todo'[r] = <<>> \/ Removing(r, m, n)'
<1> DEFINE ucs == <<"ucs of member", m>>
           gus == <<"gus of member", m>>
           del == <<"delete membership", m, n>>
<1>0. ops' = ops
  BY NextStatements
<1>1. fail(r) => todo'[r] = <<>>
  BY DEF fail, Abort, TodoOK
<1>2. CASE todo[r] = <<ucs, gus, del>>
  <2> DEFINE found == {c \in Collections : uc[m][c] # None}
             x == <<"listed", m, found>>
  <2>1. Head(todo[r]) = ucs /\ Head(todo[r])[1] = "ucs of member" /\ Arg(r, 2) = m
    <3>1. Head(todo[r]) = ucs
      <4> HIDE DEF ucs, gus, del
      <4> QED
        BY <1>2, ShortLists
    <3> QED
      BY <3>1, Entries, Zenon DEF Arg
  <2>2. delete_all_by_user_and_org(r) \/ fail(r)
    BY <2>1, WhoRuns, Zenon
  <2>3. CASE delete_all_by_user_and_org(r)
    <3>1. todo' = [todo EXCEPT ![r] = <<x>> \o Tail(todo[r])] /\ uc' = uc
      BY <2>1, <2>3, Zenon DEF delete_all_by_user_and_org, Running
    <3>2. Tail(todo[r]) = <<gus, del>>
      <4> HIDE DEF ucs, gus, del
      <4> QED
        BY <1>2, ShortLists
    <3>3. todo'[r] = <<x, gus, del>>
      <4> HIDE DEF x, gus, del
      <4> QED
        BY <3>1, <3>2, OneBeforeTwo, Zenon DEF TodoOK
    <3>4. found \in SUBSET Collections /\ \A c \in Collections \ found : uc'[m][c] = None
      BY <3>1
    <3> QED
      BY <1>0, <3>3, <3>4, Zenon DEF Removing
  <2> QED
    BY <1>1, <2>2, <2>3
<1>3. ASSUME NEW found \in SUBSET Collections, todo[r] = <<<<"listed", m, found>>, gus, del>>,
             n = ops => \A c \in Collections \ found : uc[m][c] = None
      PROVE  todo'[r] = <<>> \/ Removing(r, m, n)'
  <2>1. Head(todo[r])[1] = "listed" /\ Arg(r, 2) = m /\ Arg(r, 3) = found
    <3> DEFINE x == <<"listed", m, found>>
    <3>1. Head(todo[r]) = x
      <4> HIDE DEF x, gus, del
      <4> QED
        BY <1>3, ShortLists DEF x
    <3> QED
      BY <3>1, Entries DEF Arg
  <2>2. delete_all_by_user_and_org(r) \/ fail(r)
    BY <2>1, WhoRuns, Zenon
  <2>3. CASE delete_all_by_user_and_org(r)
    <3>1. /\ Continue(r)
          /\ uc' = [uc EXCEPT ![m] = [c \in Collections |-> IF c \in found THEN None ELSE uc[m][c]]]
      BY <2>1, <2>3, Zenon DEF delete_all_by_user_and_org, Running
    <3>2. todo'[r] = <<gus, del>>
      <4>1. Tail(todo[r]) = <<gus, del>>
        <5> DEFINE x == <<"listed", m, found>>
        <5>1. todo[r] = <<x, gus, del>>
          BY <1>3, Zenon
        <5> HIDE DEF x, gus, del
        <5> QED
          BY <5>1, ShortLists
      <4> QED
        BY <3>1, <4>1, Zenon DEF Continue, TodoOK
    <3>3. n = ops => \A c \in Collections : uc'[m][c] = None
      BY <1>3, <3>1, Zenon DEF RowsOK
    <3> QED
      BY <1>0, <3>2, <3>3, Zenon DEF Removing, Unlinked
  <2> QED
    BY <1>1, <2>2, <2>3
<1>4. CASE todo[r] = <<gus, del>> /\ (n = ops => Unlinked(m))
  <2>1. Head(todo[r])[1] = "gus of member" /\ Arg(r, 2) = m
    <3>1. Head(todo[r]) = gus
      <4> HIDE DEF gus, del
      <4> QED
        BY <1>4, ShortLists
    <3> QED
      BY <3>1, Entries, Zenon DEF Arg
  <2>2. GroupUser_delete_all_by_member(r) \/ fail(r)
    BY <2>1, WhoRuns, Zenon
  <2>3. CASE GroupUser_delete_all_by_member(r)
    <3>1. Continue(r) /\ uc' = uc /\ gu' = {l \in gu : l[2] # m}
      BY <2>1, <2>3, Zenon DEF GroupUser_delete_all_by_member, LinksDeleted
    <3>2. todo'[r] = <<del>>
      <4>1. Tail(todo[r]) = <<del>>
        <5> HIDE DEF gus, del
        <5> QED
          BY <1>4, ShortLists
      <4> QED
        BY <3>1, <4>1, Zenon DEF Continue, TodoOK
    <3> QED
      BY <1>0, <1>4, <3>1, <3>2, Zenon DEF Removing, Unlinked, Ungrouped
  <2> QED
    BY <1>1, <2>2, <2>3
<1>5. CASE todo[r] = <<del>>
  <2>1. Head(todo[r])[1] = "delete membership" /\ Tail(todo[r]) = <<>>
    <3>1. Head(todo[r]) = del /\ Tail(todo[r]) = <<>>
      <4> HIDE DEF del
      <4> QED
        BY <1>5, ShortLists
    <3> QED
      BY <3>1, Entries, Zenon
  <2>2. Membership_delete(r) \/ fail(r)
    BY <2>1, WhoRuns, Zenon
  <2>3. Membership_delete(r) => Continue(r) \/ Abort(r)
    BY Zenon DEF Membership_delete, DeleteRow
  <2> QED
    BY <1>1, <2>1, <2>2, <2>3, Zenon DEF Continue, Abort, TodoOK
<1> QED
  BY <1>2, <1>3, <1>4, <1>5, Zenon DEF Removing

\* A request that removes nobody goes on removing nobody.
LEMMA PlainStaysPlain ==
    ASSUME RowsOK, TodoOK, NEW r \in Requests, Statement(r), todo[r] \in Seq(Plain(Members))
    PROVE  todo'[r] \in Seq(Plain(Members))
<1>1. Tail(todo[r]) \in Seq(Plain(Members)) /\ <<>> \in Seq(Plain(Members))
  BY NextStatements, HeadTail, EmptyList
<1>2. \A x \in Plain(Members) : <<x>> \o Tail(todo[r]) \in Seq(Plain(Members))
  BY <1>1, OneSeq, ConcatStmt
<1> QED
  BY <1>1, <1>2, NextStatements, Zenon DEF Continue, Abort, TodoOK

\* A removal that nothing followed is not disturbed: another request that has
\* statements left would have been there before it.
LEMMA StatementKeepsRemovals ==
    ASSUME RowsOK, TodoOK, RemovalsOK, NEW r \in Requests, Statement(r), NEW q \in Requests
    PROVE  RemovalOK(q)'
<1>0. todo[r] # <<>> /\ ops' = ops /\ RemovalOK(q) /\ \A p \in Requests \ {r} : todo'[p] = todo[p]
  BY NextStatements, Zenon DEF RemovalsOK, Continue, Abort, TodoOK
<1>1. <<>> \in Seq(Plain(Members))
  BY EmptyList
<1>2. CASE todo[q] \in Seq(Plain(Members))
  BY <1>0, <1>2, PlainStaysPlain DEF RemovalOK
<1>3. ASSUME NEW m \in Members, NEW n \in Nat, Removing(q, m, n), n <= ops,
             n = ops => \A p \in Requests \ {q} : todo[p] = <<>>
      PROVE  RemovalOK(q)'
  <2>1. CASE q = r
    <3>1. todo'[r] = <<>> \/ Removing(r, m, n)'
      BY <1>3, <2>1, RemovalAdvances
    <3>2. n = ops' => \A p \in Requests \ {r} : todo'[p] = <<>>
      BY <1>0, <1>3, <2>1
    <3> QED
      BY <1>0, <1>1, <1>3, <2>1, <3>1, <3>2, Zenon DEF RemovalOK
  <2>2. CASE q # r
    <3>1. n # ops
      BY <1>0, <1>3, <2>2
    <3>2. todo'[q] = todo[q]
      BY <1>0, <2>2
    <3>3. Removing(q, m, n)'
      BY <1>0, <1>3, <3>1, <3>2, Zenon DEF Removing
    <3> QED
      BY <1>0, <1>3, <3>1, <3>3 DEF RemovalOK
  <2> QED
    BY <2>1, <2>2
<1> QED
  BY <1>0, <1>2, <1>3 DEF RemovalOK

\* Only the last statement of a removal that ran alone adds to those who left,
\* and by then every row of theirs is gone.
LEMMA LeavesClean ==
    ASSUME RowsOK, TodoOK, RemovalsOK, NEW r \in Requests, Statement(r), NEW m \in left', m \notin left
    PROVE  /\ m \in Members /\ member'[m] = None /\ Unlinked(m)' /\ Ungrouped(m)'
           /\ \A q \in Requests : todo'[q] = <<>>
<1>1. Membership_delete(r)
  <2>1. ASSUME ~Membership_delete(r), ~Membership_save(r) PROVE left' = left
    <3>1. CASE \/ CollectionUser_save(r) \/ CollectionGroup_save(r) \/ GroupUser_save(r)
               \/ user_turn(r) \/ col_turn(r) \/ toggle(r) \/ CollectionCipher_save(r)
               \/ CollectionCipher_delete(r) \/ fail(r) \/ delete_all_by_user_and_org(r)
      BY <3>1, Zenon DEF CollectionUser_save, CollectionGroup_save, GroupUser_save, user_turn, col_turn, toggle,
         CollectionCipher_save, CollectionCipher_delete, fail, delete_all_by_user_and_org, Same
    <3>2. CASE \/ CollectionUser_delete_all_by_collection(r)
               \/ CollectionGroup_delete_all_by_collection(r)
               \/ CollectionCipher_delete_all_by_collection(r)
               \/ CollectionGroup_delete_all_by_group(r)
               \/ GroupUser_delete_all_by_group(r) \/ GroupUser_delete_all_by_member(r)
               \/ GroupUser_delete_by_group_and_member(r)
      BY <3>2, Zenon DEF CollectionUser_delete_all_by_collection, CollectionGroup_delete_all_by_collection,
         CollectionCipher_delete_all_by_collection, CollectionGroup_delete_all_by_group,
         GroupUser_delete_all_by_group, GroupUser_delete_all_by_member,
         GroupUser_delete_by_group_and_member, LinksDeleted, Same
    <3>3. CASE Collection_save(r) \/ Group_save(r) \/ Collection_delete(r) \/ Group_delete(r)
      BY <3>3, Zenon DEF Collection_save, Group_save, Collection_delete, Group_delete, Same
    <3> QED
      BY <2>1, <3>1, <3>2, <3>3 DEF Statement
  <2>2. Membership_save(r) => left' \subseteq left
    BY DEF Membership_save
  <2> QED
    BY <2>1, <2>2
<1>2. /\ Arg(r, 2) = m /\ Arg(r, 3) = ops /\ member'[m] = None
      /\ Head(todo[r])[1] = "delete membership" /\ todo[r] # <<>>
      /\ uc' = uc /\ gu' = gu /\ (Continue(r) \/ Abort(r))
  BY <1>1, Zenon DEF Membership_delete, DeleteRow, Running
<1>3. todo[r] \notin Seq(Plain(Members))
  <2>1. todo[r] \in Seq(Plain(Members)) => Head(todo[r]) \in Plain(Members)
    BY <1>2, HeadTail, Zenon
  <2> QED
    BY <1>2, <2>1, GivenTo, Zenon
<1>4. PICK k \in Members, n \in Nat :
          /\ Removing(r, k, n)
          /\ n = ops => \A q \in Requests \ {r} : todo[q] = <<>>
  BY <1>3 DEF RemovalsOK, RemovalOK
<1>5. /\ todo[r] = <<<<"delete membership", k, n>>>>
      /\ n = ops => Unlinked(k) /\ Ungrouped(k)
  <2> DEFINE ucs == <<"ucs of member", k>>
             gus == <<"gus of member", k>>
             del == <<"delete membership", k, n>>
             listed(found) == <<"listed", k, found>>
  <2>1. \/ todo[r] = <<ucs, gus, del>>
        \/ \E found \in SUBSET Collections : todo[r] = <<listed(found), gus, del>>
        \/ todo[r] = <<gus, del>>
        \/ todo[r] = <<del>> /\ (n = ops => Unlinked(k) /\ Ungrouped(k))
    BY <1>4, Zenon DEF Removing
  <2>2. /\ ucs[1] = "ucs of member" /\ gus[1] = "gus of member"
        /\ \A found : listed(found)[1] = "listed"
    BY Entries
  <2> HIDE DEF ucs, gus, del, listed
  <2>3. /\ Head(<<ucs, gus, del>>) = ucs /\ Head(<<gus, del>>) = gus
        /\ \A found : Head(<<listed(found), gus, del>>) = listed(found)
    BY ShortLists
  <2>4. /\ todo[r] # <<ucs, gus, del>> /\ todo[r] # <<gus, del>>
        /\ \A found \in SUBSET Collections : todo[r] # <<listed(found), gus, del>>
    <3>1. ucs[1] # Head(todo[r])[1] /\ gus[1] # Head(todo[r])[1]
          /\ \A found : listed(found)[1] # Head(todo[r])[1]
      BY <1>2, <2>2, Zenon
    <3> QED
      BY <2>3, <3>1, Zenon
  <2> QED
    BY <2>1, <2>4, Zenon DEF del
<1>6. k = m /\ n = ops /\ Tail(todo[r]) = <<>>
  <2> DEFINE del == <<"delete membership", k, n>>
  <2>1. Head(todo[r]) = del /\ Tail(todo[r]) = <<>>
    <3> HIDE DEF del
    <3> QED
      BY <1>5, ShortLists, Zenon DEF del
  <2>2. del[2] = k /\ del[3] = n
    BY Entries
  <2> HIDE DEF del
  <2> QED
    BY <1>2, <2>1, <2>2, Zenon DEF Arg
<1>7. \A q \in Requests : todo'[q] = <<>>
  BY <1>2, <1>4, <1>6, Zenon DEF Continue, Abort, TodoOK
<1> QED
  BY <1>2, <1>5, <1>6, <1>7, Zenon DEF Unlinked, Ungrouped

\* A request that begins gives nothing to those who left, and finds every
\* removal in progress no longer alone.
LEMMA BeginsKeepsLeft ==
    ASSUME RowsOK, TodoOK, LeftOK, RemovalsOK, NEW r \in Requests, Begins(r), todo[r] = <<>>
    PROVE  LeftOK' /\ RemovalsOK'
<1> DEFINE removal(m) == <<<<"ucs of member", m>>, <<"gus of member", m>>,
                           <<"delete membership", m, Alone(r)>>>>
<1>1. PICK s : Start(r, s) /\ (\/ s \in Seq(Plain(Present))
                               \/ \E m \in Members : /\ s \in Seq(Plain(Present \cup {m})) /\ s # <<>>
                                                     /\ s[1][1] = "membership" /\ s[1][2] = m
                               \/ \E m \in Members : s = removal(m))
  BY Zenon DEF Begins
<1>2. /\ todo' = [todo EXCEPT ![r] = s] /\ ops' = ops + 1
      /\ UNCHANGED <<left, member, uc, gu>>
  BY <1>1, Zenon DEF Start
<1>3. todo'[r] = s /\ \A q \in Requests \ {r} : todo'[q] = todo[q]
  BY <1>2 DEF TodoOK
<1>4. ASSUME NEW m \in left PROVE Harmless(s, m)
  <2>0. m \in Members /\ m \notin Present
    BY DEF LeftOK, Present
  <2>1. ASSUME NEW M, s \in Seq(Plain(M)), m \notin M PROVE Harmless(s, m)
    <3>1. \A i \in DOMAIN s : s[i] \in Plain(M)
      BY <2>1, Entry, ListDomain
    <3> QED
      BY <2>1, <3>1, GivenTo, Zenon DEF Harmless
  <2>2. ASSUME NEW k \in Members, s \in Seq(Plain(Present \cup {k})), s # <<>>,
               s[1][1] = "membership", s[1][2] = k
        PROVE  Harmless(s, m)
    <3>1. CASE k = m
      <4>1. Head(s) = s[1]
        BY <2>2, HeadTail
      <4> QED
        BY <2>2, <3>1, <4>1 DEF Harmless, Invites
    <3>2. CASE k # m
      BY <2>0, <2>1, <2>2, <3>2
    <3> QED
      BY <3>1, <3>2
  <2>3. ASSUME NEW k \in Members, s = removal(k) PROVE Harmless(s, m)
    <3> DEFINE ucs == <<"ucs of member", k>>
               gus == <<"gus of member", k>>
               del == <<"delete membership", k, Alone(r)>>
    <3>1. s = <<ucs, gus, del>>
      BY <2>3, Zenon
    <3>2. ucs[1] = "ucs of member" /\ gus[1] = "gus of member" /\ del[1] = "delete membership"
      BY Entries
    <3> HIDE DEF ucs, gus, del
    <3>3. \A i \in DOMAIN s : s[i] \in {ucs, gus, del}
      BY <3>1, ShortLists
    <3> QED
      BY <3>2, <3>3, Zenon DEF Harmless, Gives
  <2> QED
    BY <1>1, <2>0, <2>1, <2>2, <2>3, Zenon
<1>5. LeftOK'
  <2>1. ASSUME NEW m \in left PROVE \A q \in Requests : Harmless(todo[q], m)'
    BY <1>3, <1>4 DEF LeftOK, Harmless, Invites
  <2> QED
    BY <1>2, <2>1 DEF LeftOK, Unlinked, Ungrouped
<1>6. ASSUME NEW q \in Requests PROVE RemovalOK(q)'
  <2>1. CASE q # r
    <3>1. CASE todo[q] \in Seq(Plain(Members))
      BY <1>3, <2>1, <3>1 DEF RemovalOK
    <3>2. ASSUME NEW m \in Members, NEW n \in Nat, Removing(q, m, n), n <= ops
          PROVE  RemovalOK(q)'
      <4>1. n # ops' /\ n <= ops' /\ todo'[q] = todo[q]
        BY <1>2, <1>3, <2>1, <3>2 DEF TodoOK
      <4>2. Removing(q, m, n)'
        BY <3>2, <4>1, Zenon DEF Removing
      <4> QED
        BY <4>1, <4>2 DEF RemovalOK
    <3> QED
      BY <3>1, <3>2 DEF RemovalsOK, RemovalOK
  <2>2. CASE q = r
    <3>1. ASSUME NEW M \in SUBSET Members, s \in Seq(Plain(M)) PROVE RemovalOK(r)'
      <4>1. Plain(M) \subseteq Plain(Members)
        BY DEF Plain, Giving
      <4>2. s \in Seq(Plain(Members))
        BY <3>1, <4>1, WiderList
      <4> QED
        BY <1>3, <4>2 DEF RemovalOK
    <3>2. ASSUME NEW m \in Members, s = removal(m) PROVE RemovalOK(r)'
      <4>1. Alone(r) \in Nat /\ Alone(r) <= ops'
        BY <1>2 DEF Alone, TodoOK
      <4>2. Alone(r) = ops' => \A p \in Requests \ {r} : todo'[p] = <<>>
        BY <1>2, <1>3 DEF Alone, TodoOK
      <4>3. \E n \in Nat : /\ todo'[r] = <<<<"ucs of member", m>>, <<"gus of member", m>>,
                                             <<"delete membership", m, n>>>>
                            /\ n <= ops' /\ (n = ops' => \A p \in Requests \ {r} : todo'[p] = <<>>)
        BY <1>3, <3>2, <4>1, <4>2, Zenon
      <4> QED
        BY <4>3, Zenon DEF RemovalOK, Removing
    <3> QED
      BY <1>1, <2>2, <3>1, <3>2, Zenon DEF Present
  <2> QED
    BY <2>1, <2>2
<1> QED
  BY <1>5, <1>6 DEF RemovalsOK

\* Every step keeps the inductive invariant.
LEMMA StepKeepsLeft ==
    ASSUME Assumptions, IInv, [Next]_vars
    PROVE  IInv'
<1>0. RowsOK' /\ TodoOK'
  BY StepKeepsRows DEF IInv
<1>1. CASE UNCHANGED vars
  <2>1. LeftOK'
    BY <1>1 DEF IInv, vars, LeftOK, Unlinked, Ungrouped, Harmless, Invites
  <2>2. RemovalsOK'
    <3>1. ASSUME NEW q \in Requests, NEW m \in Members, NEW n \in Nat, Removing(q, m, n)
          PROVE  Removing(q, m, n)'
      <4>1. todo' = todo /\ ops' = ops /\ uc' = uc /\ gu' = gu
        BY <1>1 DEF vars
      <4> QED
        BY <3>1, <4>1, ZenonT(30) DEF Removing, Unlinked, Ungrouped
    <3> QED
      BY <1>1, <3>1 DEF IInv, vars, RemovalsOK, RemovalOK
  <2> QED
    BY <1>0, <2>1, <2>2 DEF IInv
<1>2. ASSUME NEW r \in Requests, Idle(r), Handle(r) PROVE IInv'
  BY <1>0, <1>2, Handlers, BeginsKeepsLeft DEF IInv, Idle
<1>3. ASSUME NEW r \in Requests, Statement(r) PROVE IInv'
  <2>1. ASSUME NEW m \in left', m \in left
        PROVE  /\ m \in Members /\ member'[m] = None /\ Unlinked(m)' /\ Ungrouped(m)'
               /\ \A q \in Requests : Harmless(todo[q], m)'
    BY <1>3, <2>1, LeftStaysOut, StaysHarmless DEF IInv, LeftOK
  <2>2. ASSUME NEW m \in left', m \notin left
        PROVE  /\ m \in Members /\ member'[m] = None /\ Unlinked(m)' /\ Ungrouped(m)'
               /\ \A q \in Requests : Harmless(todo[q], m)'
    BY <1>3, <2>2, LeavesClean DEF IInv, Harmless
  <2>3. LeftOK'
    BY <2>1, <2>2 DEF LeftOK
  <2> QED
    BY <1>0, <1>3, <2>3, StatementKeepsRemovals DEF IInv, RemovalsOK
<1> QED
  BY <1>1, <1>2, <1>3 DEF Next

\* A member removed while no other request ran has no collection and no group
\* link left, whatever the requests that follow do, until invited again.
THEOREM RemovedStayUnlinked ==
    ASSUME Assumptions, MaxOps \in Nat
    PROVE  Spec => []RemovedHasNoLinks
<1>1. Init => IInv
  <2> SUFFICES ASSUME Init PROVE LeftOK /\ RemovalsOK
    BY InitRows DEF IInv
  <2>1. LeftOK
    BY DEF Init, LeftOK
  <2>2. RemovalsOK
    BY EmptyList DEF Init, RemovalsOK, RemovalOK
  <2> QED
    BY <2>1, <2>2
<1>2. IInv /\ [Next]_vars => IInv'
  BY StepKeepsLeft
<1>3. IInv => RemovedHasNoLinks
  BY DEF IInv, LeftOK, Unlinked, Ungrouped, RemovedHasNoLinks
<1> QED
  BY <1>1, <1>2, <1>3, PTL DEF Spec

\* What a member is shown they can open and update, and a removed member is
\* shown nothing.
THEOREM AccessAlwaysHolds ==
    ASSUME Assumptions, MaxOps \in Nat
    PROVE  Spec => []AccessHolds
<1>1. Spec => []UpdateNeverStuck
  BY UpdatesNeverStuck
<1>2. Spec => []RemovedHasNoLinks
  BY RemovedStayUnlinked
<1>3. UpdateNeverStuck /\ RemovedHasNoLinks => AccessHolds
  BY DEF AccessHolds
<1> QED
  BY <1>1, <1>2, <1>3, PTL
=============================================================================
