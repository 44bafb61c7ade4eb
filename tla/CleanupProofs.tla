--------------------------- MODULE CleanupProofs ---------------------------
(* What is removed, and what removing it leaves behind.  For any accounts,   *)
(* organizations and requests in flight: a deletion that nothing disturbed   *)
(* leaves nothing, and what was deleted stays deleted.  For any devices, any *)
(* number of logins in flight and any Patience: the reminders about          *)
(* incomplete logins are justified, none is lost, and IncompleteLogins       *)
(* implements Reminders.                                                     *)
EXTENDS IncompleteLogins, Deletion, TLAPS

-----------------------------------------------------------------------------
(* Deletion: the inductive invariant. *)

Stages == {"write", "sweep", "walk", "done", "refused"}

DeletionRequest ==
    [id : Requests, do : Doing, owner : Owners, at : Stages, next : Nat,
     files : SUBSET {"attachments", "sends"}, covered : BOOLEAN, calm : BOOLEAN]

\* A request walks over the tables of an owner of its kind.
Matches(do, o) ==
    /\ do \in AccountDeletions => o \in Accounts
    /\ do \in OrgDeletions => o \in Orgs \ Accounts

Fits(q) ==
    /\ q \in DeletionRequest /\ Matches(q.do, q.owner)
    /\ q.do = "write" <=> q.at = "write"
    /\ q.at = "sweep" => q.next = 0
    /\ q.at = "walk" => q.next \in DOMAIN Walk(q.do)

\* Every row refers to rows that exist.
Closed(o) == \A k \in Keys(o) : k[1] \in rows[o] => k[2] \in rows[o]

AllTables == UNION {Tables(o) : o \in Owners}

DeletionTyped ==
    /\ rows \in [Owners -> SUBSET AllTables] /\ objects \in [Owners -> SUBSET AllTables]
    /\ \A o \in Owners :
          rows[o] \subseteq Tables(o) /\ Closed(o) /\ objects[o] \subseteq Stored(o)
    /\ \A q \in req : Fits(q)
    /\ \A q, p \in req : q.id = p.id => q = p
    /\ gone \subseteq Owners

\* A deletion past its sweep that nothing disturbed has left no object of a row.
Swept(q) ==
    q.calm /\ q.at \notin {"write", "sweep"} => objects[q.owner] \cap rows[q.owner] = {}

\* The tables that are still to be walked, and those that go along.
Ahead(q) ==
    {Walk(q.do)[j] : j \in {i \in DOMAIN Walk(q.do) : q.next <= i}} \cup Cascading

\* Where a covered deletion has been, nothing is left; the other requests of its
\* owner are not disturbed either.
Covers(q) ==
    q.covered =>
        /\ q.do # "write"
        /\ \A p \in req : p.owner = q.owner => p.calm
        /\ q.at # "refused"
        /\ q.at = "sweep" => /\ rows[q.owner] \subseteq Walked(q.do)
                            /\ objects[q.owner] \subseteq rows[q.owner]
        /\ q.at \in {"walk", "done"} => objects[q.owner] = {}
        /\ q.at = "walk" => rows[q.owner] \subseteq Ahead(q)
        /\ q.at = "done" => rows[q.owner] = {}

\* Nobody has loaded the row of an owner that is gone.
GoneOwners == \A o \in gone : Root \notin rows[o] /\ \A p \in req : p.owner = o => p.do # "write"

DeletionInv ==
    /\ DeletionTyped
    /\ \A q \in req : Swept(q)
    /\ \A q \in req : Covers(q)
    /\ GoneOwners
-----------------------------------------------------------------------------
(* The schema and the lists of statements. *)

\* A foreign key is a pair, and no table that cascades is referred to.
LEMMA KeyShape ==
    ASSUME NEW o, NEW k \in Keys(o)
    PROVE  k = <<k[1], k[2]>> /\ k[1] # Root /\ k[2] \notin Cascading
<1>1. k \in AccountKeys \/ k \in OrgKeys
  BY DEF Keys
<1>2. CASE k \in AccountKeys
  BY <1>2 DEF AccountKeys, Root, Cascading
<1>3. CASE k \in OrgKeys
  BY <1>3 DEF OrgKeys, Root, Cascading
<1> QED
  BY <1>1, <1>2, <1>3

\* Every cascading foreign key of an owner is one to its row or to a cipher.
LEMMA CascadingRefers ==
    ASSUME NEW o, NEW t \in Cascading \cap Tables(o)
    PROVE  \E k \in Keys(o) : k[1] = t /\ k[2] \in {Root, "ciphers"}
<1>1. PICK k \in Keys(o) : k[1] = t
  BY DEF Tables, Cascading, Root
<1>2. k[2] \in {Root, "ciphers"}
  <2>1. CASE k \in AccountKeys
    BY <1>1, <2>1 DEF AccountKeys, Cascading, Root
  <2>2. CASE k \in OrgKeys
    BY <1>1, <2>2 DEF OrgKeys, Cascading, Root
  <2> QED
    BY <1>1, <2>1, <2>2 DEF Keys
<1> QED
  BY <1>1, <1>2

\* The place of each table in the list of delete_account.
LEMMA CleanupPlaces ==
    /\ DOMAIN cleanup = 1..17
    /\ cleanup[1] = "favorites" /\ cleanup[2] = "folders_ciphers" /\ cleanup[3] = "folders"
    /\ cleanup[4] = "attachments" /\ cleanup[5] = "ciphers_collections"
    /\ cleanup[6] = "ciphers" /\ cleanup[7] = "sends" /\ cleanup[8] = "auth_requests"
    /\ cleanup[9] = "emergency_access" /\ cleanup[10] = "event" /\ cleanup[11] = "sso_users"
    /\ cleanup[12] = "devices" /\ cleanup[13] = "users_collections"
    /\ cleanup[14] = "groups_users" /\ cleanup[15] = "users_organizations"
    /\ cleanup[16] = "twofactor" /\ cleanup[17] = Root
  BY DEF cleanup

\* cleanup: a table comes after every one that refers to it.
LEMMA CleanupOrder ==
    ASSUME NEW i \in 1..17, NEW j \in i..17
    PROVE  <<cleanup[j], cleanup[i]>> \notin AccountKeys
<1>1. ASSUME cleanup[i] = Root PROVE i = 17
  BY <1>1, CleanupPlaces DEF Root
<1>2. ASSUME cleanup[i] = "ciphers" PROVE i = 6
  BY <1>2, CleanupPlaces DEF Root
<1>3. ASSUME cleanup[i] = "folders" PROVE i = 3
  BY <1>3, CleanupPlaces DEF Root
<1>4. ASSUME cleanup[i] = "users_organizations" PROVE i = 15
  BY <1>4, CleanupPlaces DEF Root
<1>5. ASSUME <<cleanup[j], cleanup[i]>> \in AccountKeys
      PROVE  cleanup[i] \in {Root, "ciphers", "folders", "users_organizations"}
  BY <1>5 DEF AccountKeys
<1> QED
  BY <1>1, <1>2, <1>3, <1>4, <1>5, CleanupPlaces DEF AccountKeys, Root

\* The tables of org_cleanup, place by place.
LEMMA OrgPlaces ==
    /\ DOMAIN org_cleanup = 1..13
    /\ org_cleanup[1] = "attachments" /\ org_cleanup[2] = "ciphers_collections"
    /\ org_cleanup[3] = "users_collections" /\ org_cleanup[4] = "collections_groups"
    /\ org_cleanup[5] = "collections" /\ org_cleanup[6] = "groups_users"
    /\ org_cleanup[7] = "groups" /\ org_cleanup[8] = "ciphers"
    /\ org_cleanup[9] = "users_organizations" /\ org_cleanup[10] = "org_policies"
    /\ org_cleanup[11] = "organization_api_key" /\ org_cleanup[12] = "event"
    /\ org_cleanup[13] = Root
  BY DEF org_cleanup

\* org_cleanup: a table comes after every one that refers to it.
LEMMA OrgOrder ==
    ASSUME NEW i \in 1..13, NEW j \in i..13
    PROVE  <<org_cleanup[j], org_cleanup[i]>> \notin OrgKeys
<1>1. ASSUME <<org_cleanup[j], org_cleanup[i]>> \in OrgKeys
      PROVE  org_cleanup[i] \in {Root, "ciphers", "collections", "groups", "users_organizations"}
  BY <1>1 DEF OrgKeys
<1>2. ASSUME org_cleanup[i] = Root PROVE i = 13
  BY <1>2, OrgPlaces DEF Root
<1>3. ASSUME org_cleanup[i] = "ciphers" PROVE i = 8
  BY <1>3, OrgPlaces DEF Root
<1>4. ASSUME org_cleanup[i] = "collections" PROVE i = 5
  BY <1>4, OrgPlaces DEF Root
<1>5. ASSUME org_cleanup[i] = "groups" PROVE i = 7
  BY <1>5, OrgPlaces DEF Root
<1>6. ASSUME org_cleanup[i] = "users_organizations" PROVE i = 9
  BY <1>6, OrgPlaces DEF Root
<1> QED
  BY <1>1, <1>2, <1>3, <1>4, <1>5, <1>6, OrgPlaces DEF OrgKeys, Root

\* The tables of admin_org_cleanup, place by place.
LEMMA AdminPlaces ==
    /\ DOMAIN admin_org_cleanup = 1..11
    /\ admin_org_cleanup[1] = "ciphers_collections" /\ admin_org_cleanup[2] = "users_collections"
    /\ admin_org_cleanup[3] = "collections_groups" /\ admin_org_cleanup[4] = "collections"
    /\ admin_org_cleanup[5] = "groups_users" /\ admin_org_cleanup[6] = "groups"
    /\ admin_org_cleanup[7] = "ciphers" /\ admin_org_cleanup[8] = "users_organizations"
    /\ admin_org_cleanup[9] = "org_policies" /\ admin_org_cleanup[10] = "organization_api_key"
    /\ admin_org_cleanup[11] = Root
  BY DEF admin_org_cleanup

\* admin_org_cleanup: a table comes after every one that refers to it.
LEMMA AdminOrder ==
    ASSUME NEW i \in 1..11, NEW j \in i..11
    PROVE  <<admin_org_cleanup[j], admin_org_cleanup[i]>> \notin OrgKeys
<1>1. ASSUME <<admin_org_cleanup[j], admin_org_cleanup[i]>> \in OrgKeys
      PROVE  admin_org_cleanup[i] \in
                {Root, "ciphers", "collections", "groups", "users_organizations"}
  BY <1>1 DEF OrgKeys
<1>2. ASSUME admin_org_cleanup[i] = Root PROVE i = 11
  BY <1>2, AdminPlaces DEF Root
<1>3. ASSUME admin_org_cleanup[i] = "ciphers" PROVE i = 7
  BY <1>3, AdminPlaces DEF Root
<1>4. ASSUME admin_org_cleanup[i] = "collections" PROVE i = 4
  BY <1>4, AdminPlaces DEF Root
<1>5. ASSUME admin_org_cleanup[i] = "groups" PROVE i = 6
  BY <1>5, AdminPlaces DEF Root
<1>6. ASSUME admin_org_cleanup[i] = "users_organizations" PROVE i = 8
  BY <1>6, AdminPlaces DEF Root
<1> QED
  BY <1>1, <1>2, <1>3, <1>4, <1>5, <1>6, AdminPlaces DEF OrgKeys, Root

Deletions == AccountDeletions \cup OrgDeletions

\* A list deletes the row of the owner last, and a table after the tables that
\* refer to it.
LEMMA WalkOrder ==
    ASSUME NEW do \in Deletions, NEW o \in Owners, Matches(do, o)
    PROVE  /\ DOMAIN Walk(do) \subseteq 1..17
           /\ \A i \in DOMAIN Walk(do) :
                 /\ Walk(do)[i] = Root <=> \A j \in DOMAIN Walk(do) : j <= i
                 /\ \E j \in DOMAIN Walk(do) : i <= j /\ Walk(do)[j] = Root
                 /\ \A j \in DOMAIN Walk(do) : i <= j => <<Walk(do)[j], Walk(do)[i]>> \notin Keys(o)
           /\ \E j \in DOMAIN Walk(do) : Walk(do)[j] = Root
<1>1. CASE do \in {"delete_account", "admin_delete_user"}
  <2>1. Walk(do) = cleanup /\ Keys(o) = AccountKeys
    BY <1>1 DEF Walk, Keys, Matches, AccountDeletions
  <2>2. \A i \in 1..17 : cleanup[i] = Root <=> i = 17
    BY CleanupPlaces DEF Root
  <2> QED
    BY <2>1, <2>2, CleanupPlaces, CleanupOrder
<1>2. CASE do = "delete_recover_token"
  <2>1. Walk(do) = <<Root>> /\ Keys(o) = AccountKeys
    BY <1>2 DEF Walk, Keys, Matches, AccountDeletions
  <2>2. <<Root, Root>> \notin AccountKeys
    BY DEF AccountKeys, Root
  <2>3. DOMAIN <<Root>> = {1} /\ <<Root>>[1] = Root
    OBVIOUS
  <2> QED
    BY <2>1, <2>2, <2>3
<1>3. CASE do = "delete_organization"
  <2>1. Walk(do) = org_cleanup /\ Keys(o) = OrgKeys
    BY <1>3 DEF Walk, Keys, Matches, OrgDeletions, Owners
  <2>2. \A i \in 1..13 : org_cleanup[i] = Root <=> i = 13
    BY OrgPlaces DEF Root
  <2> QED
    BY <2>1, <2>2, OrgPlaces, OrgOrder
<1>4. CASE do = "admin_delete_org"
  <2>1. Walk(do) = admin_org_cleanup /\ Keys(o) = OrgKeys
    BY <1>4 DEF Walk, Keys, Matches, OrgDeletions, Owners
  <2>2. \A i \in 1..11 : admin_org_cleanup[i] = Root <=> i = 11
    BY AdminPlaces DEF Root
  <2> QED
    BY <2>1, <2>2, AdminPlaces, AdminOrder
<1> QED
  BY <1>1, <1>2, <1>3, <1>4 DEF Deletions, AccountDeletions, OrgDeletions

\* Of some places of a walk, one is the first.
LEMMA LeastPlace ==
    ASSUME NEW L \in SUBSET (1..17), L # {}
    PROVE  \E i \in L : \A j \in L : i <= j
<1> SUFFICES ASSUME ~\E i \in L : \A j \in L : i <= j
             PROVE  FALSE
  OBVIOUS
<1>0. \A i \in L : \E j \in L : j < i
  OBVIOUS
<1>1. \A i \in L : i > 3
  BY <1>0
<1>2. \A i \in L : i > 6
  BY <1>0, <1>1
<1>3. \A i \in L : i > 9
  BY <1>0, <1>2
<1>4. \A i \in L : i > 12
  BY <1>0, <1>3
<1>5. \A i \in L : i > 15
  BY <1>0, <1>4
<1>6. \A i \in L : i > 17
  BY <1>0, <1>5
<1>7. \A i \in L : FALSE
  BY <1>6
<1> QED
  BY <1>7, Zenon

-----------------------------------------------------------------------------
(* Requests in flight. *)

\* The same request, at another place.
Moved(p, q) ==
    /\ p \in DeletionRequest
    /\ p.id = q.id /\ p.do = q.do /\ p.owner = q.owner
    /\ p.calm = q.calm /\ p.covered = q.covered

\* A deletion goes on to the first table after its place that holds rows, or is
\* done when there is none.
LEMMA OnwardMoves ==
    ASSUME NEW q, Fits(q), q.do # "write", NEW R
    PROVE  /\ Moved(Onward(q, R), q) /\ Fits(Onward(q, R)) /\ Onward(q, R).at \in {"walk", "done"}
           /\ LET p == Onward(q, R)
                  later == {i \in DOMAIN Walk(q.do) : i > q.next /\ Walk(q.do)[i] \in R \cup {Root}}
              IN  /\ p.at = "done" => later = {}
                  /\ p.at = "walk" => p.next \in later /\ \A j \in later : p.next <= j
<1> DEFINE later == {i \in DOMAIN Walk(q.do) : i > q.next /\ Walk(q.do)[i] \in R \cup {Root}}
           i == CHOOSE i \in later : \A j \in later : i <= j
<1>1. q \in DeletionRequest /\ q.do \in Deletions /\ q.owner \in Owners /\ Matches(q.do, q.owner)
  BY DEF Fits, DeletionRequest, Doing, Deletions
<1>2. later \subseteq 1..17
  BY <1>1, WalkOrder
<1>3. ASSUME later # {} PROVE i \in later /\ \A j \in later : i <= j
  BY <1>2, <1>3, LeastPlace, Zenon
<1>4. CASE later = {}
  <2>1. Onward(q, R) = [q EXCEPT !.at = "done"]
    BY <1>4 DEF Onward
  <2>2. Moved([q EXCEPT !.at = "done"], q)
    BY <1>1, Zenon DEF Moved, DeletionRequest, Stages
  <2> QED
    BY <1>1, <1>4, <2>1, <2>2 DEF Moved, Fits, DeletionRequest
<1>5. CASE later # {}
  <2>1. Onward(q, R) = [q EXCEPT !.at = "walk", !.next = i]
    BY <1>5 DEF Onward
  <2>2. i \in Nat
    BY <1>2, <1>3, <1>5
  <2> HIDE DEF later, i
  <2>3. Moved([q EXCEPT !.at = "walk", !.next = i], q)
    BY <1>1, <2>2, Zenon DEF Moved, DeletionRequest, Stages
  <2>4. /\ [q EXCEPT !.at = "walk", !.next = i].at = "walk"
        /\ [q EXCEPT !.at = "walk", !.next = i].next = i
    BY <1>1 DEF DeletionRequest
  <2> QED
    BY <1>1, <1>3, <1>5, <2>1, <2>3, <2>4 DEF Moved, Fits, later
<1> QED
  BY <1>4, <1>5

\* What a write or a failure of q does to the request p.
Disturb(q, p) ==
    IF p.owner = q.owner /\ p.do # "write" THEN [p EXCEPT !.calm = FALSE, !.covered = FALSE]
    ELSE p

\* A disturbed request is the same one, neither calm nor covered.
LEMMA DisturbIs ==
    ASSUME NEW q, NEW p, Fits(p)
    PROVE  /\ Fits(Disturb(q, p)) /\ Disturb(q, p).id = p.id
           /\ Disturb(q, p).do = p.do /\ Disturb(q, p).owner = p.owner
           /\ p.owner # q.owner \/ p.do = "write" => Disturb(q, p) = p
           /\ p.owner = q.owner /\ p.do # "write" =>
                 ~Disturb(q, p).calm /\ ~Disturb(q, p).covered
<1> DEFINE x == [p EXCEPT !.calm = FALSE, !.covered = FALSE]
<1>1. p \in DeletionRequest
  BY DEF Fits
<1>2. /\ x \in DeletionRequest /\ x.id = p.id /\ x.do = p.do /\ x.owner = p.owner
      /\ x.at = p.at /\ x.next = p.next
  BY <1>1, Zenon DEF DeletionRequest
<1>3. ~x.calm /\ ~x.covered
  BY <1>1, Zenon DEF DeletionRequest
<1>4. Disturb(q, p) = IF p.owner = q.owner /\ p.do # "write" THEN x ELSE p
  BY Zenon DEF Disturb
<1> HIDE DEF x
<1> QED
  BY <1>2, <1>3, <1>4 DEF Fits

\* Disturbed, request by request.
LEMMA DisturbedAll ==
    ASSUME NEW q, NEW Q
    PROVE  Disturbed(q, Q) = {Disturb(q, p) : p \in Q}
  BY Zenon DEF Disturbed, Disturb

-----------------------------------------------------------------------------
(* Steps that disturb the deletions of an owner. *)

\* A step that disturbs the deletions of its owner keeps what is known of the
\* others.
LEMMA DisturbStep ==
    ASSUME DeletionInv, NEW q, NEW Q,
           \A p \in Q : Fits(p),
           \A p \in Q : p.owner # q.owner \/ p.do = "write" => p \in req,
           \A p, s \in Q : p.id = s.id => p = s,
           req' = Disturbed(q, Q),
           \A o \in Owners \ {q.owner} : rows'[o] = rows[o] /\ objects'[o] = objects[o]
    PROVE  /\ \A x \in req' : Fits(x)
           /\ \A x, y \in req' : x.id = y.id => x = y
           /\ (\A x \in req : Swept(x))'
           /\ (\A x \in req : Covers(x))'
           /\ \A x \in req' : x.do = "write" => x \in req
<1>1. req' = {Disturb(q, p) : p \in Q}
  BY DisturbedAll
<1>2. \A x \in req' : Fits(x)
  BY <1>1, DisturbIs
<1>3. \A x, y \in req' : x.id = y.id => x = y
  BY <1>1, DisturbIs
<1>4. \A x \in req' : x \in req \/ (x.owner = q.owner /\ x.do # "write" /\ ~x.calm /\ ~x.covered)
  BY <1>1, DisturbIs
<1>5. \A x \in req' : x.owner = q.owner /\ x.do # "write" => ~x.calm /\ ~x.covered
  BY <1>1, DisturbIs
<1>6. ASSUME NEW x \in req' PROVE Swept(x)' /\ Covers(x)'
  <2>1. CASE x.owner = q.owner /\ x.do # "write"
    BY <1>5, <2>1 DEF Swept, Covers
  <2>2. CASE x.owner # q.owner
    <3>1. x \in req /\ x.owner \in Owners /\ Swept(x) /\ Covers(x)
      BY <1>4, <2>2 DEF DeletionInv, DeletionTyped, Fits, DeletionRequest
    <3>2. rows'[x.owner] = rows[x.owner] /\ objects'[x.owner] = objects[x.owner]
      BY <2>2, <3>1
    <3>3. \A p \in req' : p.owner = x.owner => p \in req
      BY <1>4, <2>2
    <3> QED
      BY <3>1, <3>2, <3>3 DEF Swept, Covers, Ahead
  <2>3. CASE x.do = "write"
    <3>1. x \in req
      BY <1>4, <2>3
    <3> QED
      BY <2>3, <3>1, <1>2 DEF DeletionInv, Covers, Swept, Fits
  <2> QED
    BY <2>1, <2>2, <2>3
<1> QED
  BY <1>2, <1>3, <1>4, <1>6

\* Writers are in flight as before, and the rows of the owners that are gone
\* stay away.
LEMMA GoneStep ==
    ASSUME DeletionInv, gone' = gone,
           \A o \in gone : Root \notin rows'[o],
           \A x \in req' : x.do = "write" => x \in req
    PROVE  GoneOwners'
  BY DEF DeletionInv, GoneOwners

\* A writer inserts a row.
LEMMA InsertStep ==
    ASSUME DeletionInv, NEW q \in req, NEW t \in Tables(q.owner), insert(q, t)
    PROVE  DeletionInv'
<1>1. q.owner \in Owners /\ DeletionTyped /\ t # Root
  BY DEF DeletionInv, DeletionTyped, Fits, DeletionRequest, insert
<1>2. rows' = [rows EXCEPT ![q.owner] = @ \cup {t}] /\ objects' = objects /\ gone' = gone
  BY DEF insert
<1>3. /\ rows'[q.owner] = rows[q.owner] \cup {t}
      /\ \A o \in Owners \ {q.owner} : rows'[o] = rows[o]
  BY <1>1, <1>2 DEF DeletionTyped
<1>4. /\ \A x \in req' : Fits(x)
      /\ \A x, y \in req' : x.id = y.id => x = y
      /\ (\A x \in req : Swept(x))'
      /\ (\A x \in req : Covers(x))'
      /\ \A x \in req' : x.do = "write" => x \in req
  <2>1. req' = Disturbed(q, req)
    BY DEF insert
  <2> QED
    BY <1>1, <1>2, <1>3, <2>1, DisturbStep DEF DeletionTyped
<1>5. Closed(q.owner)'
  BY <1>1, <1>3 DEF Closed, insert, DeletionTyped
<1>6. rows' \in [Owners -> SUBSET AllTables]
  BY <1>1, <1>2 DEF DeletionTyped, AllTables
<1>7. DeletionTyped'
  BY <1>1, <1>2, <1>3, <1>4, <1>5, <1>6 DEF DeletionTyped, Closed
<1>8. GoneOwners'
  BY <1>1, <1>2, <1>3, <1>4, GoneStep DEF DeletionInv, GoneOwners, DeletionTyped
<1> QED
  BY <1>4, <1>7, <1>8 DEF DeletionInv

\* A writer saves the row of an owner that is gone, and so inserts it again.
LEMMA SaveStep ==
    ASSUME DeletionInv, NEW q \in req, save(q)
    PROVE  DeletionInv'
<1>1. q.owner \in Owners /\ DeletionTyped /\ q.do = "write"
  BY DEF DeletionInv, DeletionTyped, Fits, DeletionRequest, save
<1>2. rows' = [rows EXCEPT ![q.owner] = @ \cup {Root}] /\ objects' = objects /\ gone' = gone
  BY DEF save
<1>3. /\ rows'[q.owner] = rows[q.owner] \cup {Root}
      /\ \A o \in Owners \ {q.owner} : rows'[o] = rows[o]
  BY <1>1, <1>2 DEF DeletionTyped
<1>4. /\ \A x \in req' : Fits(x)
      /\ \A x, y \in req' : x.id = y.id => x = y
      /\ (\A x \in req : Swept(x))'
      /\ (\A x \in req : Covers(x))'
      /\ \A x \in req' : x.do = "write" => x \in req
  <2>1. req' = Disturbed(q, req)
    BY DEF save
  <2> QED
    BY <1>1, <1>2, <1>3, <2>1, DisturbStep DEF DeletionTyped
<1>5. Closed(q.owner)'
  BY <1>1, <1>3, KeyShape DEF Closed, DeletionTyped
<1>6. Root \in Tables(q.owner)
  BY DEF Tables
<1>7. rows' \in [Owners -> SUBSET AllTables]
  BY <1>1, <1>2, <1>6 DEF DeletionTyped, AllTables
<1>8. DeletionTyped'
  BY <1>1, <1>2, <1>3, <1>4, <1>5, <1>6, <1>7 DEF DeletionTyped, Closed
<1>9. GoneOwners'
  BY <1>1, <1>2, <1>3, <1>4, GoneStep DEF DeletionInv, GoneOwners, DeletionTyped
<1> QED
  BY <1>4, <1>8, <1>9 DEF DeletionInv

\* A writer stores a file.
LEMMA UploadStep ==
    ASSUME DeletionInv, NEW q \in req, NEW t, upload(q, t)
    PROVE  DeletionInv'
<1>1. q.owner \in Owners /\ DeletionTyped /\ t \in Stored(q.owner)
  BY DEF DeletionInv, DeletionTyped, Fits, DeletionRequest, upload
<1>2. objects' = [objects EXCEPT ![q.owner] = @ \cup {t}] /\ rows' = rows /\ gone' = gone
  BY DEF upload
<1>3. /\ objects'[q.owner] = objects[q.owner] \cup {t}
      /\ \A o \in Owners \ {q.owner} : objects'[o] = objects[o]
  BY <1>1, <1>2 DEF DeletionTyped
<1>4. /\ \A x \in req' : Fits(x)
      /\ \A x, y \in req' : x.id = y.id => x = y
      /\ (\A x \in req : Swept(x))'
      /\ (\A x \in req : Covers(x))'
      /\ \A x \in req' : x.do = "write" => x \in req
  <2>1. req' = Disturbed(q, req)
    BY DEF upload
  <2> QED
    BY <1>1, <1>2, <1>3, <2>1, DisturbStep DEF DeletionTyped
<1>5. objects' \in [Owners -> SUBSET AllTables]
  BY <1>1, <1>2 DEF DeletionTyped, Stored, AllTables
<1>6. DeletionTyped'
  BY <1>1, <1>2, <1>3, <1>4, <1>5 DEF DeletionTyped, Closed
<1>7. GoneOwners'
  BY <1>2, <1>4, GoneStep DEF DeletionInv, GoneOwners
<1> QED
  BY <1>4, <1>6, <1>7 DEF DeletionInv

-----------------------------------------------------------------------------
(* The beginning of a request. *)

\* A request that begins is well formed.
LEMMA RequestIs ==
    ASSUME DeletionTyped, NEW r \in Requests, NEW do \in Doing, NEW o \in Owners, Matches(do, o),
           NEW at \in {"write", "sweep"}, do = "write" <=> at = "write"
    PROVE  LET p == Request(r, do, o, at)
           IN  /\ Fits(p) /\ p.id = r /\ p.do = do /\ p.owner = o /\ p.at = at /\ p.calm
               /\ p.covered => /\ do # "write" /\ rows[o] \subseteq Walked(do)
                               /\ objects[o] \subseteq rows[o]
                               /\ \A x \in req : x.owner = o => x.calm
<1> DEFINE p == Request(r, do, o, at)
           c == /\ do # "write" /\ rows[o] \subseteq Walked(do) /\ objects[o] \subseteq rows[o]
                /\ \A x \in req : x.owner = o => x.calm
           f == IF do = "write" THEN rows[o] \cap Stored(o) ELSE {}
<1>1. p = [id |-> r, do |-> do, owner |-> o, at |-> at, next |-> 0, files |-> f,
           covered |-> c, calm |-> TRUE]
  BY Zenon DEF Request
<1>2. f \in SUBSET {"attachments", "sends"} /\ c \in BOOLEAN
  BY DEF Stored
<1> HIDE DEF p, c, f
<1>3. p \in DeletionRequest
  BY <1>1, <1>2 DEF DeletionRequest, Stages
<1>4. p.id = r /\ p.do = do /\ p.owner = o /\ p.at = at /\ p.next = 0
  BY <1>1
<1>5. p.calm /\ (p.covered => c)
  BY <1>1, Zenon
<1>6. Fits(p)
  BY <1>3, <1>4 DEF Fits
<1> QED
  BY <1>4, <1>5, <1>6 DEF p, c

\* A deletion or a writer begins.
LEMMA BeginStep ==
    ASSUME DeletionInv, NEW r \in Requests, NEW do \in Doing, NEW o \in Owners, Matches(do, o),
           NEW at \in {"write", "sweep"}, do = "write" <=> at = "write",
           do = "write" => Root \in rows[o], begin(r, do, o, at)
    PROVE  DeletionInv'
<1> DEFINE p == Request(r, do, o, at)
<1>1. /\ Fits(p) /\ p.id = r /\ p.do = do /\ p.owner = o /\ p.at = at /\ p.calm
      /\ p.covered => /\ do # "write" /\ rows[o] \subseteq Walked(do)
                      /\ objects[o] \subseteq rows[o]
                      /\ \A x \in req : x.owner = o => x.calm
  BY RequestIs DEF DeletionInv
<1>2. /\ req' = req \cup {p} /\ rows' = rows /\ objects' = objects /\ gone' = gone
      /\ \A q \in req : q.id # r
  BY DEF begin, Free
<1> HIDE DEF p
<1>3. DeletionTyped'
  BY <1>1, <1>2 DEF DeletionInv, DeletionTyped, Closed
<1>4. (\A q \in req : Swept(q))'
  BY <1>1, <1>2 DEF DeletionInv, Swept
<1>5. ASSUME NEW q \in req' PROVE Covers(q)'
  <2>1. CASE q = p
    BY <1>1, <1>2, <2>1 DEF Covers
  <2>2. CASE q \in req
    BY <1>1, <1>2, <2>2 DEF DeletionInv, Covers, Ahead
  <2> QED
    BY <1>2, <2>1, <2>2
<1>6. GoneOwners'
  BY <1>1, <1>2 DEF DeletionInv, GoneOwners
<1> QED
  BY <1>3, <1>4, <1>5, <1>6 DEF DeletionInv

-----------------------------------------------------------------------------
(* The steps of a deletion. *)

\* A deletion only takes rows and objects of its owner away, rows only when it is
\* past its sweep.
LEMMA ShrinkStep ==
    ASSUME DeletionInv, NEW q \in req, NEW p, q.do # "write", Moved(p, q), Fits(p),
           req' = (req \ {q}) \cup {p},
           \A o \in Owners \ {q.owner} : rows'[o] = rows[o] /\ objects'[o] = objects[o],
           rows'[q.owner] \subseteq rows[q.owner], objects'[q.owner] \subseteq objects[q.owner],
           rows'[q.owner] = rows[q.owner] \/ q.at = "walk",
           Swept(p)',
           p.covered => /\ p.at \in {"walk", "done"} /\ objects'[q.owner] = {}
                        /\ p.at = "walk" => rows'[q.owner] \subseteq Ahead(p)
                        /\ p.at = "done" => rows'[q.owner] = {}
    PROVE  /\ \A x \in req' : Fits(x)
           /\ \A x, y \in req' : x.id = y.id => x = y
           /\ (\A x \in req : Swept(x))'
           /\ (\A x \in req : Covers(x))'
           /\ \A x \in req' : x.do = "write" => x \in req
<1>1. /\ p.id = q.id /\ p.do = q.do /\ p.owner = q.owner /\ p.calm = q.calm
      /\ p.covered = q.covered
  BY DEF Moved
<1>2. \A x \in req' : x = p \/ x \in req \ {q}
  OBVIOUS
<1>3. \A x \in req : x.owner \in Owners /\ Fits(x) /\ Swept(x) /\ Covers(x)
  BY DEF DeletionInv, DeletionTyped, Fits, DeletionRequest
<1>4. \A x, y \in req' : x.id = y.id => x = y
  BY <1>1, <1>2 DEF DeletionInv, DeletionTyped
<1>5. ASSUME NEW x \in req' PROVE Swept(x)'
  <2>1. CASE x = p
    BY <2>1
  <2>2. CASE x \in req /\ x.owner = q.owner
    BY <1>3, <2>2 DEF Swept
  <2>3. CASE x \in req /\ x.owner # q.owner
    <3>1. rows'[x.owner] = rows[x.owner] /\ objects'[x.owner] = objects[x.owner]
      BY <1>3, <2>3
    <3> QED
      BY <1>3, <2>3, <3>1 DEF Swept
  <2> QED
    BY <1>2, <2>1, <2>2, <2>3
<1>6. ASSUME NEW x \in req', x.covered
      PROVE  \A y \in req' : y.owner = x.owner => y.calm
  BY <1>1, <1>2, <1>3, <1>6 DEF Covers
<1>7. ASSUME NEW x \in req' PROVE Covers(x)'
  <2>1. CASE x = p
    BY <1>1, <1>6, <2>1 DEF Covers, Ahead
  <2>2. CASE x \in req /\ x.owner = q.owner
    <3>1. Covers(x) /\ (x.covered => q.calm)
      BY <1>3, <2>2 DEF Covers
    <3>2. ASSUME x.covered, x.at = "sweep" PROVE objects'[x.owner] \subseteq rows'[x.owner]
      <4>1. objects[q.owner] \subseteq rows[q.owner]
        BY <2>2, <3>1, <3>2 DEF Covers
      <4>2. ASSUME q.at = "walk" PROVE objects[q.owner] = {}
        BY <1>3, <3>1, <3>2, <4>1, <4>2 DEF Swept
      <4> QED
        BY <2>2, <4>1, <4>2
    <3> QED
      BY <1>6, <2>2, <3>1, <3>2 DEF Covers, Ahead
  <2>3. CASE x \in req /\ x.owner # q.owner
    <3>1. rows'[x.owner] = rows[x.owner] /\ objects'[x.owner] = objects[x.owner]
      BY <1>3, <2>3
    <3> QED
      BY <1>3, <1>6, <2>3, <3>1 DEF Covers, Ahead
  <2> QED
    BY <1>2, <2>1, <2>2, <2>3
<1> QED
  BY <1>1, <1>2, <1>3, <1>4, <1>5, <1>7

\* On its way a deletion leaves no table with rows behind; at its end no row is
\* left, as the tables that go along refer to others.
LEMMA OnwardLeaves ==
    ASSUME NEW q, Fits(q), q.do # "write", NEW R \in SUBSET Tables(q.owner),
           \A k \in Keys(q.owner) : k[1] \in R => k[2] \in R,
           \A t \in R \ Cascading : \E j \in DOMAIN Walk(q.do) : q.next < j /\ Walk(q.do)[j] = t
    PROVE  LET p == Onward(q, R)
           IN  /\ p.at = "walk" => R \subseteq Ahead(p)
               /\ p.at = "done" => R = {}
<1> DEFINE p == Onward(q, R)
           later == {i \in DOMAIN Walk(q.do) : i > q.next /\ Walk(q.do)[i] \in R \cup {Root}}
<1>1. /\ p.do = q.do
      /\ p.at = "done" => later = {}
      /\ p.at = "walk" => p.next \in later /\ \A j \in later : p.next <= j
  BY OnwardMoves DEF Moved
<1>2. \A t \in R \ Cascading : \E j \in later : Walk(q.do)[j] = t
  <2>1. q.next \in Nat /\ DOMAIN Walk(q.do) \subseteq 1..17
    BY WalkOrder DEF Fits, DeletionRequest, Doing, Deletions
  <2> QED
    BY <2>1
<1> HIDE DEF p
<1>3. ASSUME p.at = "walk" PROVE R \subseteq Ahead(p)
  BY <1>1, <1>2, <1>3 DEF Ahead
<1>4. ASSUME p.at = "done", NEW t \in R PROVE FALSE
  <2>1. t \in Cascading \cap Tables(q.owner)
    BY <1>1, <1>2, <1>4
  <2>2. Root \in R \/ "ciphers" \in R
    BY <2>1, CascadingRefers
  <2> QED
    BY <1>1, <1>2, <1>4, <2>2 DEF Cascading, Root
<1> QED
  BY <1>3, <1>4 DEF p

\* The files of the owner that the deletion found go, some of them perhaps not.
LEMMA SweepStep ==
    ASSUME DeletionInv, NEW q \in req, NEW F, sweep(q, F)
    PROVE  DeletionInv'
<1> DEFINE o == q.owner
           B == objects[o] \ (found(q) \ F)
<1>0. PICK p : p = Onward(q, rows[o])
  OBVIOUS
<1> DEFINE Q == (req \ {q}) \cup {p}
<1>1. /\ DeletionTyped /\ Fits(q) /\ o \in Owners /\ q.at = "sweep" /\ q.do # "write" /\ q.next = 0
      /\ Swept(q) /\ Covers(q)
  BY DEF DeletionInv, DeletionTyped, Fits, DeletionRequest, sweep
<1>2. /\ objects' = [objects EXCEPT ![o] = B] /\ rows' = rows /\ gone' = gone
      /\ req' = IF F = {} THEN Q ELSE Disturbed(q, Q)
  BY <1>0, Zenon DEF sweep
<1>3. /\ Moved(p, q) /\ Fits(p) /\ p.at \in {"walk", "done"}
      /\ p.id = q.id /\ p.do = q.do /\ p.owner = q.owner
  BY <1>0, <1>1, OnwardMoves DEF Moved
<1>4. /\ objects'[o] = B /\ B \subseteq objects[o]
      /\ \A x \in Owners \ {o} : objects'[x] = objects[x]
      /\ objects' \in [Owners -> SUBSET AllTables]
  BY <1>1, <1>2 DEF DeletionTyped
<1>5. ASSUME F = {} PROVE B \cap rows[o] = {}
  BY <1>1, <1>5 DEF found, DeletionTyped
<1>6. ASSUME F = {}, q.covered
      PROVE  /\ B = {}
             /\ p.at = "walk" => rows[o] \subseteq Ahead(p)
             /\ p.at = "done" => rows[o] = {}
  <2>1. rows[o] \subseteq Walked(q.do) /\ objects[o] \subseteq rows[o]
    BY <1>1, <1>6 DEF Covers
  <2>2. B = {}
    BY <1>4, <1>5, <1>6, <2>1
  <2>3. \A t \in rows[o] \ Cascading : \E j \in DOMAIN Walk(q.do) : q.next < j /\ Walk(q.do)[j] = t
    <3>1. DOMAIN Walk(q.do) \subseteq 1..17
      BY <1>1, WalkOrder DEF Fits, DeletionRequest, Doing, Deletions
    <3> QED
      BY <1>1, <2>1, <3>1 DEF Walked
  <2>4. rows[o] \subseteq Tables(o) /\ \A k \in Keys(o) : k[1] \in rows[o] => k[2] \in rows[o]
    BY <1>1 DEF DeletionTyped, Closed
  <2> QED
    BY <1>0, <1>1, <2>2, <2>3, <2>4, OnwardLeaves
<1> HIDE DEF o, B
<1>7. /\ \A x \in req' : Fits(x)
      /\ \A x, y \in req' : x.id = y.id => x = y
      /\ (\A x \in req : Swept(x))'
      /\ (\A x \in req : Covers(x))'
      /\ \A x \in req' : x.do = "write" => x \in req
  <2>1. CASE F = {}
    <3>1. req' = (req \ {q}) \cup {p}
      BY <1>2, <2>1
    <3>2. Swept(p)'
      BY <1>2, <1>3, <1>4, <1>5, <2>1 DEF Swept, o
    <3>3. p.covered = q.covered
      BY <1>3 DEF Moved
    <3> QED
      BY <1>1, <1>2, <1>3, <1>4, <1>6, <2>1, <3>1, <3>2, <3>3, ShrinkStep DEF o
  <2>2. CASE F # {}
    <3>1. req' = Disturbed(q, Q)
      BY <1>2, <2>2
    <3>2. /\ \A x \in Q : Fits(x)
          /\ \A x \in Q : x.owner # q.owner \/ x.do = "write" => x \in req
          /\ \A x, y \in Q : x.id = y.id => x = y
      BY <1>1, <1>3 DEF DeletionTyped
    <3> HIDE DEF Q
    <3> QED
      BY <1>2, <1>4, <3>1, <3>2, DisturbStep DEF o
  <2> QED
    BY <2>1, <2>2
<1>8. DeletionTyped'
  <2>1. \A x \in Owners : objects'[x] \subseteq Stored(x)
    BY <1>1, <1>4 DEF DeletionTyped
  <2> QED
    BY <1>1, <1>2, <1>4, <1>7, <2>1, Zenon DEF DeletionTyped, Closed
<1>9. GoneOwners'
  BY <1>2, <1>7, GoneStep, Zenon DEF DeletionInv, GoneOwners
<1> QED
  BY <1>7, <1>8, <1>9 DEF DeletionInv

\* No foreign key stands in the way of a deletion that nothing disturbed.
LEMMA NotReferred ==
    ASSUME DeletionInv, NEW q \in req, q.at = "walk", q.covered
    PROVE  ~Referred(q.owner, Table(q))
<1>1. /\ Fits(q) /\ q.do \in Deletions /\ q.owner \in Owners /\ Matches(q.do, q.owner)
      /\ q.next \in DOMAIN Walk(q.do) /\ rows[q.owner] \subseteq Ahead(q)
  BY DEF DeletionInv, DeletionTyped, Fits, DeletionRequest, Doing, Deletions, Covers
<1> SUFFICES ASSUME NEW k \in Keys(q.owner), k[2] = Table(q), k[1] \in rows[q.owner] \ Cascading
             PROVE  FALSE
  BY DEF Referred
<1>2. PICK j \in DOMAIN Walk(q.do) : q.next <= j /\ Walk(q.do)[j] = k[1]
  BY <1>1 DEF Ahead
<1>3. k = <<Walk(q.do)[j], Walk(q.do)[q.next]>>
  BY <1>2, KeyShape DEF Table
<1> QED
  BY <1>1, <1>2, <1>3, WalkOrder

\* The DELETE on the table at hand.
LEMMA StatementStep ==
    ASSUME DeletionInv, NEW q \in req, delete(q)
    PROVE  DeletionInv'
<1> DEFINE o == q.owner
           t == Table(q)
           R == IF t \in rows[o] THEN rows[o] \ Taken(o, t) ELSE rows[o]
<1>0. PICK p : p = Onward(q, R)
  OBVIOUS
<1>1. /\ DeletionTyped /\ Fits(q) /\ o \in Owners /\ q.at = "walk" /\ q.do # "write"
      /\ q.next \in DOMAIN Walk(q.do) /\ Swept(q) /\ Covers(q)
  BY DEF DeletionInv, DeletionTyped, Fits, DeletionRequest, delete
<1>2. /\ rows' = [rows EXCEPT ![o] = R] /\ objects' = objects
      /\ req' = (req \ {q}) \cup {p}
  BY <1>0 DEF delete, Replace
<1>3. /\ Moved(p, q) /\ Fits(p) /\ p.at \in {"walk", "done"}
      /\ p.id = q.id /\ p.do = q.do /\ p.owner = q.owner
  BY <1>0, <1>1, OnwardMoves DEF Moved
<1>4. R \subseteq rows[o] /\ t \notin R
  BY DEF Taken
<1>5. /\ rows'[o] = R
      /\ \A x \in Owners \ {o} : rows'[x] = rows[x]
      /\ rows' \in [Owners -> SUBSET AllTables]
  BY <1>1, <1>2, <1>4 DEF DeletionTyped
<1>6. ASSUME NEW k \in Keys(o), k[1] \in R PROVE k[2] \in R
  <2>1. k = <<k[1], k[2]>> /\ k[2] \notin Cascading /\ k[2] \in rows[o]
    BY <1>1, <1>4, <1>6, KeyShape DEF DeletionTyped, Closed
  <2>2. CASE t \notin rows[o]
    BY <2>1, <2>2
  <2>3. CASE t \in rows[o]
    <3>1. ~Referred(o, t)
      BY <2>3 DEF delete
    <3>2. ASSUME k[2] = t PROVE FALSE
      <4>1. k[1] \in Cascading
        BY <1>4, <1>6, <3>1, <3>2 DEF Referred
      <4> QED
        BY <1>6, <2>1, <2>3, <3>2, <4>1 DEF Taken
    <3> QED
      BY <2>1, <2>3, <3>2 DEF Taken
  <2> QED
    BY <2>2, <2>3
<1>7. ASSUME q.covered
      PROVE  /\ objects[o] = {}
             /\ p.at = "walk" => R \subseteq Ahead(p)
             /\ p.at = "done" => R = {}
  <2>1. objects[o] = {} /\ rows[o] \subseteq Ahead(q)
    BY <1>1, <1>7 DEF Covers
  <2>2. \A x \in R \ Cascading : \E j \in DOMAIN Walk(q.do) : q.next < j /\ Walk(q.do)[j] = x
    <3>1. DOMAIN Walk(q.do) \subseteq 1..17
      BY <1>1, WalkOrder DEF Fits, DeletionRequest, Doing, Deletions
    <3> SUFFICES ASSUME NEW x \in R \ Cascading
                 PROVE  \E j \in DOMAIN Walk(q.do) : q.next < j /\ Walk(q.do)[j] = x
      OBVIOUS
    <3>2. PICK j \in DOMAIN Walk(q.do) : q.next <= j /\ Walk(q.do)[j] = x
      BY <1>4, <2>1 DEF Ahead
    <3>3. j # q.next
      BY <1>4, <3>2 DEF Table
    <3> QED
      BY <1>1, <3>1, <3>2, <3>3
  <2>3. R \subseteq Tables(o)
    BY <1>1, <1>4 DEF DeletionTyped
  <2> HIDE DEF R
  <2> QED
    BY <1>0, <1>1, <1>6, <2>1, <2>2, <2>3, OnwardLeaves
<1> HIDE DEF o, R, t
<1>8. /\ \A x \in req' : Fits(x)
      /\ \A x, y \in req' : x.id = y.id => x = y
      /\ (\A x \in req : Swept(x))'
      /\ (\A x \in req : Covers(x))'
      /\ \A x \in req' : x.do = "write" => x \in req
  <2>1. p.calm = q.calm /\ p.covered = q.covered
    BY <1>3 DEF Moved
  <2>2. Swept(p)'
    BY <1>1, <1>2, <1>3, <1>4, <1>5, <2>1 DEF Swept, o
  <2> QED
    BY <1>1, <1>2, <1>3, <1>4, <1>5, <1>7, <2>1, <2>2, ShrinkStep DEF o
<1>9. DeletionTyped'
  <2>1. gone' \subseteq Owners
    BY <1>1 DEF DeletionTyped, delete, o
  <2>2. \A x \in Owners : rows'[x] \subseteq Tables(x) /\ Closed(x)'
    BY <1>1, <1>4, <1>5, <1>6 DEF DeletionTyped, Closed
  <2> QED
    BY <1>1, <1>2, <1>5, <1>8, <2>1, <2>2 DEF DeletionTyped
<1>10. GoneOwners'
  <2>1. \A x \in gone : Root \notin rows'[x] /\ \A y \in req' : y.owner = x => y.do # "write"
    BY <1>1, <1>4, <1>5, <1>8 DEF DeletionInv, GoneOwners, DeletionTyped
  <2>2. ASSUME gone' # gone
        PROVE  /\ gone' = gone \cup {o} /\ Root \notin rows'[o]
               /\ \A y \in req' : y.owner = o => y.do # "write"
    <3>1. gone' = gone \cup {o} /\ t = Root /\ Savers(o) = {}
      BY <2>2 DEF delete, o, t
    <3> QED
      BY <1>4, <1>5, <1>8, <3>1 DEF Savers
  <2> QED
    BY <2>1, <2>2 DEF GoneOwners
<1> QED
  BY <1>8, <1>9, <1>10 DEF DeletionInv

\* A foreign key refuses the DELETE.
LEMMA RefuseStep ==
    ASSUME DeletionInv, NEW q \in req, refuse(q)
    PROVE  DeletionInv'
<1>0. PICK p : p = IF Ignores(q.do) THEN Onward(q, rows[q.owner]) ELSE Goto(q, "refused")
  OBVIOUS
<1>1. /\ DeletionTyped /\ Fits(q) /\ q.owner \in Owners /\ q.at = "walk" /\ q.do # "write"
      /\ Swept(q) /\ ~q.covered
  BY NotReferred DEF DeletionInv, DeletionTyped, Fits, DeletionRequest, refuse
<1>2. /\ req' = (req \ {q}) \cup {p} /\ rows' = rows /\ objects' = objects /\ gone' = gone
  BY <1>0 DEF refuse, Replace
<1>3. Moved(p, q) /\ Fits(p) /\ p.at \in {"walk", "done", "refused"}
  <2>1. CASE Ignores(q.do)
    BY <1>0, <1>1, <2>1, OnwardMoves
  <2>2. CASE ~Ignores(q.do)
    <3>1. q \in DeletionRequest
      BY <1>1 DEF Fits
    <3>2. Moved([q EXCEPT !.at = "refused"], q)
      BY <3>1, Zenon DEF Moved, DeletionRequest, Stages
    <3>3. [q EXCEPT !.at = "refused"].at = "refused"
      BY <3>1 DEF DeletionRequest
    <3> QED
      BY <1>0, <1>1, <2>2, <3>2, <3>3 DEF Goto, Moved, Fits
  <2> QED
    BY <2>1, <2>2
<1>4. p.owner = q.owner /\ p.calm = q.calm /\ p.covered = q.covered
  BY <1>3 DEF Moved
<1>5. Swept(p)'
  BY <1>1, <1>2, <1>3, <1>4 DEF Swept
<1>6. /\ \A x \in req' : Fits(x)
      /\ \A x, y \in req' : x.id = y.id => x = y
      /\ (\A x \in req : Swept(x))'
      /\ (\A x \in req : Covers(x))'
      /\ \A x \in req' : x.do = "write" => x \in req
  BY <1>1, <1>2, <1>3, <1>4, <1>5, ShrinkStep
<1>7. DeletionTyped'
  BY <1>1, <1>2, <1>6 DEF DeletionTyped, Closed
<1>8. GoneOwners'
  BY <1>2, <1>6, GoneStep DEF DeletionInv, GoneOwners
<1> QED
  BY <1>6, <1>7, <1>8 DEF DeletionInv

\* The database fails the statement.
LEMMA FailStep ==
    ASSUME DeletionInv, NEW q \in req, fail(q)
    PROVE  DeletionInv'
<1> DEFINE p == Onward(q, rows[q.owner])
           Q == (req \ {q}) \cup (IF Ignores(q.do) THEN {p} ELSE {})
<1>1. DeletionTyped /\ Fits(q) /\ q.at = "walk" /\ q.do # "write"
  BY DEF DeletionInv, DeletionTyped, Fits, fail
<1>2. req' = Disturbed(q, Q) /\ rows' = rows /\ objects' = objects /\ gone' = gone
  BY DEF fail
<1>3. Fits(p) /\ p.id = q.id /\ p.do = q.do /\ p.owner = q.owner
  BY <1>1, OnwardMoves DEF Moved
<1> HIDE DEF p
<1>4. /\ \A x \in Q : Fits(x)
      /\ \A x \in Q : x.owner # q.owner \/ x.do = "write" => x \in req
      /\ \A x, y \in Q : x.id = y.id => x = y
  BY <1>1, <1>3 DEF DeletionTyped
<1> HIDE DEF Q
<1>5. /\ \A x \in req' : Fits(x)
      /\ \A x, y \in req' : x.id = y.id => x = y
      /\ (\A x \in req : Swept(x))'
      /\ (\A x \in req : Covers(x))'
      /\ \A x \in req' : x.do = "write" => x \in req
  BY <1>2, <1>4, DisturbStep
<1>6. DeletionTyped'
  BY <1>1, <1>2, <1>5 DEF DeletionTyped, Closed
<1>7. GoneOwners'
  BY <1>2, <1>5, GoneStep DEF DeletionInv, GoneOwners
<1> QED
  BY <1>5, <1>6, <1>7 DEF DeletionInv

\* The deletion is answered.
LEMMA RespondStep ==
    ASSUME DeletionInv, NEW q \in req, respond(q)
    PROVE  DeletionInv'
<1>1. req' = req \ {q} /\ rows' = rows /\ objects' = objects /\ gone' = gone
  BY DEF respond
<1>2. DeletionTyped'
  BY <1>1 DEF DeletionInv, DeletionTyped, Closed
<1>3. (\A x \in req : Swept(x))' /\ (\A x \in req : Covers(x))'
  BY <1>1 DEF DeletionInv, Swept, Covers, Ahead
<1>4. GoneOwners'
  BY <1>1 DEF DeletionInv, GoneOwners
<1> QED
  BY <1>2, <1>3, <1>4 DEF DeletionInv

-----------------------------------------------------------------------------
(* Deletion: the theorems. *)

\* The invariant holds at first.
LEMMA DeletionInit ==
    ASSUME Init
    PROVE  DeletionInv
<1>1. \A o \in Owners : rows[o] \subseteq {Root, "users_organizations"} /\ objects[o] = {}
  BY DEF Init
<1>2. \A o \in Owners : "users_organizations" \in rows[o] => o \in Orgs /\ Root \in rows[o]
  BY DEF Init
<1>3. <<"users_organizations", Root>> \in OrgKeys
  BY DEF OrgKeys
<1>4. ASSUME NEW o \in Owners PROVE rows[o] \subseteq Tables(o)
  <2>1. ASSUME o \in Orgs PROVE Keys(o) = OrgKeys
    BY <2>1, ConstantsAssumption DEF Keys
  <2> QED
    BY <1>1, <1>2, <1>3, <2>1 DEF Tables
<1>5. ASSUME NEW o \in Owners, NEW k \in Keys(o), k[1] \in rows[o] PROVE k[2] \in rows[o]
  <2>1. k[1] = "users_organizations"
    BY <1>1, <1>5, KeyShape
  <2>2. Keys(o) = OrgKeys /\ Root \in rows[o]
    BY <1>2, <1>5, <2>1, ConstantsAssumption DEF Keys
  <2>3. k[2] = Root
    BY <1>5, <2>1, <2>2 DEF OrgKeys
  <2> QED
    BY <2>2, <2>3
<1>6. rows \in [Owners -> SUBSET AllTables] /\ objects \in [Owners -> SUBSET AllTables]
  <2>1. rows = [o \in Owners |-> rows[o]] /\ objects = [o \in Owners |-> objects[o]]
    BY DEF Init
  <2>2. \A o \in Owners : rows[o] \subseteq AllTables /\ objects[o] \subseteq AllTables
    BY <1>1, <1>4 DEF AllTables
  <2> QED
    BY <2>1, <2>2
<1>7. req = {} /\ gone = {}
  BY DEF Init
<1> QED
  BY <1>1, <1>4, <1>5, <1>6, <1>7 DEF DeletionInv, DeletionTyped, Closed, GoneOwners

\* Every step keeps it.
LEMMA DeletionNext ==
    ASSUME DeletionInv, [Next]_vars
    PROVE  DeletionInv'
<1>1. ASSUME NEW r \in Requests, NEW o \in Accounts,
             delete_account(r, o) \/ admin_delete_user(r, o) \/ delete_recover_token(r, o)
      PROVE  DeletionInv'
  <2>1. PICK do \in AccountDeletions : begin(r, do, o, "sweep")
    BY <1>1 DEF delete_account, admin_delete_user, delete_recover_token, AccountDeletions
  <2>2. do # "write" /\ do \in Doing /\ o \in Owners /\ Matches(do, o)
    BY <2>1 DEF AccountDeletions, OrgDeletions, Doing, Owners, Matches
  <2> QED
    BY <2>1, <2>2, BeginStep
<1>2. ASSUME NEW r \in Requests, NEW o \in Orgs, delete_organization(r, o) \/ admin_delete_org(r, o)
      PROVE  DeletionInv'
  <2>1. PICK do \in OrgDeletions : begin(r, do, o, "sweep")
    BY <1>2 DEF delete_organization, admin_delete_org, OrgDeletions
  <2>2. do # "write" /\ do \in Doing /\ o \in Owners /\ Matches(do, o)
    BY <2>1, ConstantsAssumption DEF AccountDeletions, OrgDeletions, Doing, Owners, Matches
  <2> QED
    BY <2>1, <2>2, BeginStep
<1>3. ASSUME NEW r \in Requests, NEW o \in Owners, write(r, o)
      PROVE  DeletionInv'
  <2>1. "write" \in Doing /\ Matches("write", o)
    BY DEF Doing, Matches, AccountDeletions, OrgDeletions
  <2> QED
    BY <1>3, <2>1, BeginStep DEF write
<1>4. ASSUME NEW q \in req, NEW t \in Tables(q.owner), insert(q, t) \/ upload(q, t)
      PROVE  DeletionInv'
  BY <1>4, InsertStep, UploadStep
<1>5. ASSUME NEW q \in req, NEW F \in SUBSET Stored(q.owner), sweep(q, F)
      PROVE  DeletionInv'
  BY <1>5, SweepStep
<1>6. ASSUME NEW q \in req, save(q) \/ delete(q) \/ refuse(q) \/ fail(q) \/ respond(q)
      PROVE  DeletionInv'
  BY <1>6, SaveStep, StatementStep, RefuseStep, FailStep, RespondStep
<1>7. CASE UNCHANGED vars
  BY <1>7 DEF vars, DeletionInv, DeletionTyped, Closed, Swept, Covers, Ahead, GoneOwners
<1> QED
  BY <1>1, <1>2, <1>3, <1>4, <1>5, <1>6, <1>7 DEF Next

\* So it always holds.
LEMMA DeletionInvariance == Spec => []DeletionInv
  BY DeletionInit, DeletionNext, PTL DEF Spec

\* A deletion that no one else's write disturbed, of an owner with rows in the
\* tables it walks only, is not refused by a foreign key and leaves no row, no
\* event and no object behind (cleanup, org_cleanup and the lists of the admin
\* handlers: every table comes after those that refer to it).
THEOREM AlwaysDeletesAll == Spec => []DeletesAll
<1>1. DeletionInv => DeletesAll
  BY DEF DeletionInv, Covers, DeletesAll
<1> QED
  BY <1>1, DeletionInvariance, PTL

\* An account or organization whose deletion was answered with success is gone
\* for good, unless a request that had loaded the row before was in flight.
THEOREM DeletedStaysDeleted == Spec => []DeletedStays
<1>1. DeletionInv => DeletedStays
  BY DEF DeletionInv, GoneOwners, DeletedStays
<1> QED
  BY <1>1, DeletionInvariance, PTL

-----------------------------------------------------------------------------
(* IncompleteLogins: the inductive invariant. *)

\* A login that passed its challenge has left no row behind.
PassedUntracked == \A d \in Devices : outcome[d] = "passed" => incomplete[d] = None

\* So no row that the trigger selects is of such a login.
NothingFinished == cron.finished = {} /\ nagged = {}

\* A reminder counts only until its row is deleted or renewed.
MailsPending ==
    \A d \in Devices : mails[d] = 0 \/ (mails[d] = 1 /\ cron.at = "delete" /\ cron.dev = d)

\* The row about to be deleted was reminded of, unless that failed, or renewed
\* since; between two rows there is nothing to remember.
MailedFirst ==
    /\ cron.at = "delete" /\ cron.sent /\ incomplete[cron.dev] # None
         => mails[cron.dev] = 1 \/ cron.renewed
    /\ cron.at # "delete" => ~cron.sent /\ ~cron.renewed

IInv == LoginsTyped /\ PassedUntracked /\ NothingFinished /\ MailsPending /\ MailedFirst

\* Everything but the typing, for the steps that leave the trigger alone.
Reminders == PassedUntracked /\ NothingFinished /\ MailsPending /\ MailedFirst

\* The initial state satisfies the inductive invariant.
LEMMA Initially == LoginsInit => IInv
<1> SUFFICES ASSUME LoginsInit PROVE IInv
  OBVIOUS
<1> USE PatienceAssumption
<1>1. cron \in Cron /\ cron.at = "idle" /\ cron.todo = {} /\ cron.finished = {}
      /\ ~cron.sent /\ ~cron.renewed
  BY DEF LoginsInit
<1>2. LoginsTyped
  BY <1>1 DEF LoginsInit, LoginsTyped, Outcome, None
<1>3. Reminders
  BY <1>1 DEF LoginsInit, Reminders, PassedUntracked, NothingFinished, MailsPending, MailedFirst
<1> QED
  BY <1>2, <1>3 DEF IInv, Reminders

\* The handlers of a login preserve it.
LEMMA LoginStep ==
    ASSUME IInv, NEW q \in logins, track(q) \/ untrack(q) \/ delete_tracked(q) \/ statement_fails(q)
    PROVE  IInv'
<1> USE PatienceAssumption
<1>0. q \in Login /\ q.dev \in Devices
  BY DEF IInv, LoginsTyped, Login
<1>1. CASE track(q)
  <2>1. incomplete' \in [Devices -> None .. Patience] /\ mails' \in [Devices -> Nat]
    BY <1>1, <1>0 DEF track, IInv, LoginsTyped, None
  <2>2. cron' \in Cron /\ cron'.at = cron.at /\ cron'.todo = cron.todo /\ cron'.dev = cron.dev
        /\ cron'.finished = cron.finished /\ cron'.sent = cron.sent
        /\ cron'.renewed = (cron.renewed \/ (cron.at = "delete" /\ cron.dev = q.dev))
    BY <1>1 DEF track, IInv, LoginsTyped, Cron
  <2>3. LoginsTyped'
    BY <2>1, <2>2, <1>1, <1>0 DEF track, IInv, LoginsTyped, Outcome
  <2>4. PassedUntracked' /\ NothingFinished'
    BY <2>2, <1>1, <1>0 DEF track, IInv, LoginsTyped, PassedUntracked, NothingFinished
  <2>5. MailsPending'
    BY <2>2, <1>1, <1>0 DEF track, IInv, LoginsTyped, MailsPending
  <2>6. MailedFirst'
    BY <2>2, <1>1, <1>0 DEF track, IInv, LoginsTyped, MailedFirst, Cron
  <2> QED
    BY <2>3, <2>4, <2>5, <2>6 DEF IInv
<1>2. CASE untrack(q)
  <2>1. logins' \subseteq Login /\ (\A a, b \in logins' : a.id = b.id => a = b)
    <3>1. [q EXCEPT !.at = "delete"] \in Login /\ [q EXCEPT !.at = "delete"].id = q.id
      BY <1>0 DEF Login
    <3> QED
      BY <3>1, <1>2 DEF untrack, IInv, LoginsTyped
  <2>2. LoginsTyped'
    BY <2>1, <1>2, <1>0 DEF untrack, IInv, LoginsTyped, Outcome
  <2>3. Reminders'
    BY <1>2, <1>0 DEF untrack, IInv, LoginsTyped, Reminders, PassedUntracked, NothingFinished,
       MailsPending, MailedFirst
  <2> QED
    BY <2>2, <2>3 DEF IInv, Reminders
<1>3. CASE delete_tracked(q)
  <2>1. LoginsTyped'
    BY <1>3, <1>0 DEF delete_tracked, IInv, LoginsTyped, Outcome, None
  <2>2. PassedUntracked' /\ NothingFinished' /\ MailsPending'
    BY <1>3, <1>0
       DEF delete_tracked, IInv, LoginsTyped, PassedUntracked, NothingFinished, MailsPending
  <2>3. MailedFirst'
    BY <1>3, <1>0 DEF delete_tracked, IInv, LoginsTyped, MailedFirst, Cron
  <2> QED
    BY <2>1, <2>2, <2>3 DEF IInv
<1>4. CASE statement_fails(q)
  <2>1. LoginsTyped'
    BY <1>4, <1>0 DEF statement_fails, Leave, IInv, LoginsTyped, Outcome
  <2>2. Reminders'
    BY <1>4, <1>0
       DEF statement_fails, Leave, IInv, LoginsTyped, Reminders, PassedUntracked, NothingFinished, MailsPending,
           MailedFirst
  <2> QED
    BY <2>1, <2>2 DEF IInv, Reminders
<1> QED
  BY <1>1, <1>2, <1>3, <1>4

\* So do the two ways in which a row that was reminded of is dealt with.
LEMMA DeleteStep ==
    ASSUME IInv, delete_incomplete \/ delete_incomplete_fails
    PROVE  IInv'
<1> USE PatienceAssumption
<1>1. cron.at = "delete" /\ cron.dev \in Devices /\ cron.dev \in cron.todo
  BY DEF IInv, LoginsTyped, Cron, delete_incomplete, delete_incomplete_fails
<1>2. /\ cron' \in Cron
      /\ cron'.at \in {"idle", "mail"}
      /\ cron'.at = "idle" <=> cron'.todo = {}
      /\ cron'.todo \subseteq cron.todo
      /\ cron'.finished = cron.finished /\ ~cron'.sent /\ ~cron'.renewed
  <2>1. /\ cron'.at = IF cron.todo = {cron.dev} THEN "idle" ELSE "mail"
        /\ cron'.todo = cron.todo \ {cron.dev}
        /\ cron'.dev = cron.dev /\ cron'.finished = cron.finished /\ ~cron'.sent /\ ~cron'.renewed
    BY DEF IInv, LoginsTyped, Cron, delete_incomplete, delete_incomplete_fails, Advance
  <2> DEFINE at == IF cron.todo = {cron.dev} THEN "idle" ELSE "mail"
             todo == cron.todo \ {cron.dev}
  <2>2. at \in {"idle", "mail", "delete"} /\ todo \in SUBSET Devices /\ cron \in Cron
    BY DEF IInv, LoginsTyped, Cron
  <2>3. cron' = [cron EXCEPT !.at = at, !.todo = todo, !.sent = FALSE, !.renewed = FALSE]
    BY DEF delete_incomplete, delete_incomplete_fails, Advance
  <2>4. cron' \in Cron
    <3> HIDE DEF at, todo
    <3> QED
      BY <2>2, <2>3, Zenon DEF Cron
  <2> QED
    BY <2>1, <2>4, <1>1
<1>3. incomplete' \in [Devices -> None .. Patience] /\ mails' \in [Devices -> Nat]
  BY <1>1 DEF IInv, LoginsTyped, None, delete_incomplete, delete_incomplete_fails
<1>4. LoginsTyped'
  BY <1>2, <1>3 DEF IInv, LoginsTyped, delete_incomplete, delete_incomplete_fails
<1>5. PassedUntracked'
  BY <1>1 DEF IInv, LoginsTyped, PassedUntracked, delete_incomplete, delete_incomplete_fails
<1>6. NothingFinished' /\ MailedFirst'
  BY <1>2 DEF IInv, NothingFinished, MailedFirst, delete_incomplete, delete_incomplete_fails
<1>7. MailsPending'
  BY <1>1 DEF IInv, LoginsTyped, MailsPending, delete_incomplete, delete_incomplete_fails
<1> QED
  BY <1>4, <1>5, <1>6, <1>7 DEF IInv

\* The start of the trigger's work and the reminder.
LEMMA RemindStep ==
    ASSUME IInv, select_incomplete \/ \E d \in Devices : send_reminder(d) \/ send_reminder_fails(d)
    PROVE  IInv'
<1> USE PatienceAssumption
<1>1. CASE select_incomplete
  <2>1. cron' \in Cron /\ cron'.at = "mail" /\ cron'.todo = {d \in Devices : Due(d)}
        /\ cron'.finished = {d \in Passed : Due(d)}
        /\ cron'.sent = cron.sent /\ cron'.renewed = cron.renewed
    <3> DEFINE finished == {d \in Passed : Due(d)}
               todo == {d \in Devices : Due(d)}
    <3>1. finished \in SUBSET Devices /\ todo \in SUBSET Devices /\ cron \in Cron
      BY DEF Passed, IInv, LoginsTyped
    <3>2. cron' = [cron EXCEPT !.at = "mail", !.todo = todo, !.finished = finished]
      BY <1>1 DEF select_incomplete
    <3>3. cron' \in Cron /\ cron'.at = "mail" /\ cron'.todo = todo /\ cron'.finished = finished
          /\ cron'.sent = cron.sent /\ cron'.renewed = cron.renewed
      <4> HIDE DEF finished, todo
      <4> QED
        BY <3>1, <3>2 DEF Cron
    <3> QED
      BY <3>3
  <2>2. LoginsTyped'
    BY <2>1, <1>1 DEF select_incomplete, IInv, LoginsTyped
  <2>3. {d \in Passed : Due(d)} = {}
    BY DEF IInv, PassedUntracked, Passed, Due, None
  <2>4. Reminders'
    BY <2>1, <2>3, <1>1 DEF select_incomplete, IInv, LoginsTyped, Reminders, PassedUntracked,
       NothingFinished, MailsPending, MailedFirst
  <2> QED
    BY <2>2, <2>4 DEF IInv, Reminders
<1>2. ASSUME NEW d \in Devices, send_reminder(d) PROVE IInv'
  <2>1. cron' \in Cron /\ cron'.at = "delete" /\ cron'.dev = d /\ cron'.todo = cron.todo
        /\ cron'.finished = cron.finished
    BY <1>2 DEF send_reminder, IInv, LoginsTyped, Cron
  <2>2. mails \in [Devices -> Nat] /\ \A e \in Devices : mails[e] = 0
    BY <1>2 DEF send_reminder, IInv, LoginsTyped, MailsPending
  <2>3. mails' = [mails EXCEPT ![d] = 1]
    <3>1. mails' = [mails EXCEPT ![d] = mails[d] + 1]
      BY <1>2 DEF send_reminder
    <3>2. mails[d] + 1 = 1
      BY <2>2
    <3> QED
      BY <3>1, <3>2, Zenon
  <2>4. nagged' = {} /\ d \in cron.todo
    BY <1>2 DEF send_reminder, IInv, NothingFinished
  <2>5. /\ mails' \in [Devices -> Nat] /\ incomplete' = incomplete
        /\ outcome' = outcome /\ logins' = logins
    <3>1. mails' \in [Devices -> Nat]
      BY <2>3, <2>2
    <3>2. incomplete' = incomplete /\ outcome' = outcome /\ logins' = logins
      BY <1>2 DEF send_reminder
    <3> QED
      BY <3>1, <3>2
  <2>6. LoginsTyped'
    BY <2>1, <2>5, <2>4 DEF IInv, LoginsTyped
  <2>7. PassedUntracked' /\ NothingFinished'
    BY <2>1, <2>5, <2>4 DEF IInv, PassedUntracked, NothingFinished
  <2>8. MailsPending' /\ MailedFirst'
    BY <2>1, <2>3, <2>2 DEF MailsPending, MailedFirst
  <2> QED
    BY <2>6, <2>7, <2>8 DEF IInv
<1>3. ASSUME NEW d \in Devices, send_reminder_fails(d) PROVE IInv'
  <2>1. cron' \in Cron /\ cron'.at = "delete" /\ cron'.dev = d /\ cron'.todo = cron.todo
        /\ cron'.finished = cron.finished /\ cron'.sent = cron.sent
    BY <1>3 DEF send_reminder_fails, IInv, LoginsTyped, Cron
  <2>2. cron.at = "mail" /\ d \in cron.todo /\ ~cron.sent
    BY <1>3 DEF send_reminder_fails, IInv, MailedFirst
  <2>3. LoginsTyped'
    BY <1>3, <2>1, <2>2 DEF send_reminder_fails, IInv, LoginsTyped
  <2>4. Reminders'
    BY <1>3, <2>1, <2>2 DEF send_reminder_fails, IInv, LoginsTyped, Reminders, PassedUntracked,
       NothingFinished, MailsPending, MailedFirst
  <2> QED
    BY <2>3, <2>4 DEF IInv, Reminders
<1> QED
  BY <1>1, <1>2, <1>3

\* New logins and the passing of time.
LEMMA OtherStep ==
    ASSUME IInv,
           \/ Tick
           \/ \E d \in Devices : skip_two_factor(d)
           \/ \E r \in LoginIds, d \in Devices :
                 require_two_factor(r, d) \/ pass_two_factor(r, d)
    PROVE  IInv'
<1> USE PatienceAssumption
<1>1. CASE Tick
  <2>1. incomplete' \in [Devices -> None .. Patience]
        /\ \A d \in Devices : incomplete'[d] = None <=> incomplete[d] = None
    BY <1>1 DEF Tick, IInv, LoginsTyped, None
  <2>2. LoginsTyped'
    BY <2>1, <1>1 DEF Tick, IInv, LoginsTyped
  <2>3. cron.dev \in Devices
    BY DEF IInv, LoginsTyped, Cron
  <2>4. Reminders'
    BY <2>1, <2>3, <1>1 DEF Tick, IInv, LoginsTyped, Reminders, PassedUntracked, NothingFinished,
       MailsPending, MailedFirst
  <2> QED
    BY <2>2, <2>4 DEF IInv, Reminders
<1>2. ASSUME NEW r \in LoginIds, NEW d \in Devices,
             require_two_factor(r, d) \/ pass_two_factor(r, d)
      PROVE  IInv'
  <2>1. LoginsTyped'
    BY <1>2 DEF require_two_factor, pass_two_factor, FreeLogin, IInv, LoginsTyped, Login
  <2>2. Reminders'
    BY <1>2 DEF require_two_factor, pass_two_factor, IInv, Reminders, PassedUntracked,
       NothingFinished, MailsPending, MailedFirst
  <2> QED
    BY <2>1, <2>2 DEF IInv, Reminders
<1>3. ASSUME NEW d \in Devices, skip_two_factor(d) PROVE IInv'
  <2>1. LoginsTyped'
    BY <1>3 DEF skip_two_factor, Leave, IInv, LoginsTyped, Outcome
  <2>2. Reminders'
    BY <1>3 DEF skip_two_factor, Leave, IInv, LoginsTyped, Reminders, PassedUntracked,
       NothingFinished, MailsPending, MailedFirst
  <2> QED
    BY <2>1, <2>2 DEF IInv, Reminders
<1> QED
  BY <1>1, <1>2, <1>3

\* The inductive invariant holds in every reachable state: password_grant
\* takes a login past the challenge only without its row, and the trigger counts
\* at most one reminder for each row that it deletes.
THEOREM Invariance == LoginsSpec => []IInv
<1>1. IInv /\ [LoginsNext]_loginVars => IInv'
  <2> SUFFICES ASSUME IInv, [LoginsNext]_loginVars PROVE IInv'
    OBVIOUS
  <2>1. CASE UNCHANGED loginVars
    BY <2>1
       DEF loginVars, IInv, LoginsTyped, PassedUntracked, NothingFinished, MailsPending,
           MailedFirst
  <2> QED
    BY <2>1, LoginStep, DeleteStep, RemindStep, OtherStep DEF LoginsNext
<1> QED
  BY <1>1, Initially, PTL DEF LoginsSpec

\* Rows, logins in flight and the trigger stay well formed.
THEOREM TypeCorrect == LoginsSpec => []LoginsTyped
<1>1. IInv => LoginsTyped
  BY DEF IInv
<1> QED
  BY <1>1, Invariance, PTL

\* With any number of devices and logins in flight, the trigger sends at most one
\* reminder about a row before it tries to delete it, and none about a login that
\* had passed its challenge, and cleared its row, when the rows were selected.
THEOREM JustifiedReminders == LoginsSpec => []RemindersJustified
<1>1. IInv => RemindersJustified
  BY DEF IInv, LoginsTyped, NothingFinished, MailsPending, RemindersJustified
<1> QED
  BY <1>1, Invariance, PTL

\* The trigger deletes only the row that it is at, and that not without a
\* reminder, unless the reminder could not be sent or a login on the device
\* renewed the row between the reminder and the DELETE.
THEOREM NoReminderLost == LoginsSpec => RemindersNotLost
<1> DEFINE Lost(d) == cron # cron' /\ incomplete[d] # None /\ incomplete'[d] = None
<1>1. ASSUME IInv, [LoginsNext]_loginVars, NEW d \in Devices, Lost(d)
      PROVE  d = cron.dev /\ (mails[d] = 1 \/ ~cron.sent \/ cron.renewed)
  <2> USE PatienceAssumption
  <2>1. ASSUME NEW q \in logins,
               track(q) \/ untrack(q) \/ delete_tracked(q) \/ statement_fails(q)
        PROVE  FALSE
    BY <1>1, <2>1
       DEF IInv, LoginsTyped, Login, None, track, untrack, delete_tracked, statement_fails
  <2>2. CASE delete_incomplete
    BY <1>1, <2>2 DEF IInv, LoginsTyped, Cron, MailedFirst, delete_incomplete
  <2>3. CASE delete_incomplete_fails \/ select_incomplete \/ Tick \/ UNCHANGED loginVars
    BY <1>1, <2>3 DEF delete_incomplete_fails, select_incomplete, Tick, loginVars
  <2>4. ASSUME NEW e \in Devices,
               send_reminder(e) \/ send_reminder_fails(e) \/ skip_two_factor(e)
        PROVE  FALSE
    BY <1>1, <2>4 DEF send_reminder, send_reminder_fails, skip_two_factor
  <2>5. ASSUME NEW r \in LoginIds, NEW e \in Devices,
               require_two_factor(r, e) \/ pass_two_factor(r, e)
        PROVE  FALSE
    BY <1>1, <2>5 DEF require_two_factor, pass_two_factor
  <2> QED
    BY <1>1, <2>1, <2>2, <2>3, <2>4, <2>5 DEF LoginsNext
<1>2. IInv /\ [LoginsNext]_loginVars
        => [\A d \in Devices :
              Lost(d) => d = cron.dev /\ (mails[d] = 1 \/ ~cron.sent \/ cron.renewed)]_loginVars
  BY <1>1
<1> QED
  BY <1>2, Invariance, PTL DEF LoginsSpec, RemindersNotLost

\* What a step does to the view of one device decides what it does to the view.
LEMMA LastLoginChange ==
    ASSUME IInv, NEW d \in Devices, NEW v,
           \A e \in Devices \ {d} : LastLogin'[e] = LastLogin[e],
           LastLogin'[d] = v
    PROVE  LastLogin' = [LastLogin EXCEPT ![d] = v]
  BY DEF LastLogin

\* Every step is a step of the promise, or none that it can see.
LEMMA PromiseStep ==
    ASSUME IInv, [LoginsNext]_loginVars
    PROVE  [Promise!RNext]_(Promise!rvars)
<1> USE PatienceAssumption
<1>0. /\ incomplete \in [Devices -> None .. Patience] /\ mails \in [Devices -> Nat]
      /\ cron \in Cron
  BY DEF IInv, LoginsTyped
<1>1. ASSUME NEW q \in logins, track(q) PROVE Promise!Open(q.dev)
  <2>0. q.dev \in Devices
    BY DEF IInv, LoginsTyped, Login
  <2>1. Handled' = Handled
    BY <1>0, <1>1 DEF track, Handled, Cron
  <2>2. \A e \in Devices \ {q.dev} : LastLogin'[e] = LastLogin[e]
    BY <1>0, <1>1, <2>1 DEF track, LastLogin, Handled, Cron
  <2>3. LastLogin'[q.dev] = "open"
    <3>1. incomplete'[q.dev] = 0 /\ 0 # None
      BY <1>0, <1>1, <2>0 DEF track, None
    <3>2. q.dev \notin Handled \/ cron'.renewed
      BY <1>0, <1>1 DEF track, Handled, Cron
    <3> QED
      BY <2>0, <2>1, <3>1, <3>2 DEF LastLogin
  <2>4. LastLogin' = [LastLogin EXCEPT ![q.dev] = "open"]
    BY <2>0, <2>2, <2>3, LastLoginChange
  <2>5. Passed' = Passed \ {q.dev}
    BY <1>1, <2>0 DEF track, Passed, IInv, LoginsTyped
  <2> QED
    BY <2>1, <2>4, <2>5 DEF Promise!Open
<1>2. ASSUME NEW q \in logins, untrack(q) PROVE Promise!Complete(q.dev) \/ UNCHANGED Promise!rvars
  <2>0. q.dev \in Devices
    BY DEF IInv, LoginsTyped, Login
  <2>1. LastLogin' = LastLogin /\ Handled' = Handled
    BY <1>2 DEF untrack, LastLogin, Handled
  <2>2. CASE incomplete[q.dev] = None
    <3>1. LastLogin[q.dev] = "none"
      BY <2>0, <2>2 DEF LastLogin
    <3>2. LastLogin' = [LastLogin EXCEPT ![q.dev] = "none"]
      BY <2>0, <2>1, <3>1 DEF LastLogin
    <3>3. Passed' = Passed \cup {q.dev}
      BY <1>2, <2>0, <2>2 DEF untrack, Passed, IInv, LoginsTyped
    <3> QED
      BY <2>1, <3>2, <3>3 DEF Promise!Complete
  <2>3. CASE incomplete[q.dev] # None
    BY <1>2, <2>1, <2>3 DEF untrack, Promise!rvars, Passed
  <2> QED
    BY <2>2, <2>3
<1>3. ASSUME NEW q \in logins, delete_tracked(q) PROVE Promise!Complete(q.dev)
  <2>0. q.dev \in Devices
    BY DEF IInv, LoginsTyped, Login
  <2>1. Handled' = Handled
    BY <1>3 DEF delete_tracked, Handled
  <2>2. \A e \in Devices \ {q.dev} : LastLogin'[e] = LastLogin[e]
    BY <1>0, <1>3, <2>1 DEF delete_tracked, LastLogin
  <2>3. LastLogin'[q.dev] = "none"
    BY <1>0, <1>3, <2>0 DEF delete_tracked, LastLogin
  <2>4. LastLogin' = [LastLogin EXCEPT ![q.dev] = "none"]
    BY <2>0, <2>2, <2>3, LastLoginChange
  <2>5. Passed' = Passed \cup {q.dev}
    BY <1>3, <2>0 DEF delete_tracked, Passed, IInv, LoginsTyped
  <2> QED
    BY <2>1, <2>4, <2>5 DEF Promise!Complete
<1>4. ASSUME NEW d \in Devices, send_reminder(d) \/ send_reminder_fails(d)
      PROVE  Promise!Remind(d) \/ Promise!Miss(d)
  <2> DEFINE result == IF cron'.sent THEN "reminded" ELSE "missed"
  <2>1. cron'.at = "delete" /\ cron'.dev = d /\ cron.at = "mail" /\ ~cron'.renewed
    BY <1>0, <1>4 DEF send_reminder, send_reminder_fails, Cron, IInv, MailedFirst
  <2>2. Handled = {} /\ Handled' = {d}
    BY <2>1 DEF Handled
  <2>3. incomplete' = incomplete /\ Passed' = Passed
    BY <1>4 DEF send_reminder, send_reminder_fails, Passed
  <2>4. \A e \in Devices \ {d} : LastLogin'[e] = LastLogin[e]
    BY <2>2, <2>3 DEF LastLogin
  <2>5. LastLogin'[d] = IF LastLogin[d] = "none" THEN LastLogin[d] ELSE result
    BY <2>1, <2>2, <2>3 DEF LastLogin
  <2>6. LastLogin' =
          [LastLogin EXCEPT ![d] = IF LastLogin[d] = "none" THEN LastLogin[d] ELSE result]
    <3> HIDE DEF result
    <3> QED
      BY <2>4, <2>5, LastLoginChange
  <2>7. Promise!Attempt(d, result)
    BY <2>2, <2>3, <2>6 DEF Promise!Attempt
  <2>8. CASE cron'.sent
    BY <2>7, <2>8 DEF Promise!Remind
  <2>9. CASE ~cron'.sent
    BY <2>7, <2>9 DEF Promise!Miss
  <2> QED
    BY <2>8, <2>9
<1>5. ASSUME delete_incomplete \/ delete_incomplete_fails
      PROVE  cron.dev \in Devices /\ Handled = {cron.dev} /\ Handled' = {} /\ Passed' = Passed
  <2>1. cron.dev \in Devices /\ cron.at = "delete"
    BY <1>0, <1>5 DEF delete_incomplete, delete_incomplete_fails, Cron
  <2>2. cron'.at # "delete"
    BY <1>0, <1>5 DEF delete_incomplete, delete_incomplete_fails, Advance, Cron
  <2> QED
    BY <1>5, <2>1, <2>2 DEF Handled, Passed, delete_incomplete, delete_incomplete_fails
<1>6. ASSUME delete_incomplete PROVE Promise!End(cron.dev)
  <2>1. \A e \in Devices \ {cron.dev} : LastLogin'[e] = LastLogin[e]
    BY <1>0, <1>5, <1>6 DEF delete_incomplete, LastLogin
  <2>2. LastLogin'[cron.dev] = "none"
    BY <1>0, <1>5, <1>6 DEF delete_incomplete, LastLogin
  <2>3. LastLogin' = [LastLogin EXCEPT ![cron.dev] = "none"]
    BY <1>5, <1>6, <2>1, <2>2, LastLoginChange
  <2> QED
    BY <1>5, <1>6, <2>3 DEF Promise!End
<1>7. ASSUME delete_incomplete_fails PROVE Promise!Keep(cron.dev)
  <2> DEFINE v == IF LastLogin[cron.dev] = "none" THEN LastLogin[cron.dev] ELSE "open"
  <2>1. \A e \in Devices \ {cron.dev} : LastLogin'[e] = LastLogin[e]
    BY <1>0, <1>5, <1>7 DEF delete_incomplete_fails, LastLogin
  <2>2. LastLogin'[cron.dev] = v
    BY <1>0, <1>5, <1>7 DEF delete_incomplete_fails, LastLogin
  <2>3. LastLogin' = [LastLogin EXCEPT ![cron.dev] = v]
    <3> HIDE DEF v
    <3> QED
      BY <1>5, <1>7, <2>1, <2>2, LastLoginChange
  <2> QED
    BY <1>5, <1>7, <2>3 DEF Promise!Keep
<1>8. CASE Tick
  <2>1. \A d \in Devices : incomplete'[d] = None <=> incomplete[d] = None
    BY <1>0, <1>8 DEF Tick, None
  <2>2. LastLogin' = LastLogin /\ Handled' = Handled
    BY <1>8, <2>1 DEF Tick, LastLogin, Handled
  <2> QED
    BY <1>8, <2>2 DEF Tick, Passed, Promise!rvars
<1>9. CASE select_incomplete
  <2>1. Handled' = Handled
    BY <1>0, <1>9 DEF select_incomplete, Handled, Cron
  <2>2. LastLogin' = LastLogin
    BY <1>0, <1>9, <2>1 DEF select_incomplete, LastLogin, Handled
  <2> QED
    BY <1>9, <2>1, <2>2 DEF select_incomplete, Passed, Promise!rvars
<1>10. ASSUME \/ UNCHANGED loginVars
              \/ \E r \in LoginIds, d \in Devices :
                    require_two_factor(r, d) \/ pass_two_factor(r, d)
              \/ \E d \in Devices : skip_two_factor(d)
              \/ \E q \in logins : statement_fails(q)
       PROVE  UNCHANGED Promise!rvars
  <2>1. UNCHANGED <<incomplete, cron>>
    BY <1>10 DEF loginVars, require_two_factor, pass_two_factor, skip_two_factor, statement_fails
  <2>2. Passed' = Passed
    BY <1>10 DEF Passed, loginVars, require_two_factor, pass_two_factor, skip_two_factor,
       statement_fails, Leave, IInv, LoginsTyped
  <2> QED
    BY <2>1, <2>2 DEF Promise!rvars, LastLogin, Handled
<1>11. \A q \in logins : q.dev \in Devices
  BY DEF IInv, LoginsTyped, Login
<1> QED
  BY <1>1, <1>2, <1>3, <1>4, <1>5, <1>6, <1>7, <1>8, <1>9, <1>10, <1>11
     DEF LoginsNext, Promise!RNext

\* password_grant and the trigger, statement by statement and with any number of
\* logins in flight, implement what module Reminders promises.
THEOREM PromiseKept == LoginsSpec => KeepsPromise
<1>1. LoginsInit => Promise!RInit
  BY PatienceAssumption DEF LoginsInit, Promise!RInit, LastLogin, Handled, Passed
<1>2. IInv /\ [LoginsNext]_loginVars => [Promise!RNext]_(Promise!rvars)
  BY PromiseStep
<1> QED
  BY <1>1, <1>2, Invariance, PTL DEF LoginsSpec, KeepsPromise, Promise!RSpec

=============================================================================
