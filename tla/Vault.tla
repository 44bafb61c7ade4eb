------------------------------- MODULE Vault -------------------------------
(* Ciphers and their attachments: the rows of ciphers and attachments, the   *)
(* ATTACHMENTS bucket of R2, the handlers that write them and the hourly     *)
(* purge of the trash.                                                       *)
(*                                                                           *)
(* A handler reads a cipher, then saves the whole row it read, edited, or    *)
(* deletes attachments one by one and the row last.  The rows that file a    *)
(* cipher in a folder, a collection or among the favorites matter here for   *)
(* what their foreign keys do: a cipher they refer to cannot be deleted.     *)
(* How those rows themselves change is the subject of module Links.          *)
EXTENDS Integers, FiniteSets

CONSTANTS
    Users,
    Members,      \* the users with a membership in the organization
    Ciphers,      \* the uuids that Cipher::new may generate
    Attachments,  \* attachment ids
    Requests,     \* requests that may be in flight at once
    Data,         \* what clients store in a cipher
    Kinds,        \* the kinds of junction rows that clients write
    TrashDays,    \* how long a cipher stays in the trash
    MaxTime,      \* BOUND: the clock stops here
    NoUser        \* the user_uuid of a cipher that only an organization owns

ASSUME ConstantsAssumption ==
    /\ Members \subseteq Users
    /\ NoUser \notin Users
    /\ Kinds \subseteq {"favorite", "folder", "collection"}
    /\ TrashDays \in Nat
    /\ MaxTime \in Nat

VARIABLES
    now,       \* the clock
    cipher,    \* the ciphers table
    pins,      \* rows of favorites, folders_ciphers and ciphers_collections
    att,       \* the attachments table: the cipher of each attachment
    objects,   \* the bucket: attachments whose object is stored
    req,       \* requests in flight, after their first statement
    cron,      \* the hourly trigger
    want,      \* HISTORY: what the handlers meant each row to be, while their
               \* writes of it did not overlap
    uploaded,  \* HISTORY: attachments whose object was stored
    loose      \* HISTORY: attachments whose deletion failed halfway, or
               \* overlapped an upload, a share or a restore

vars == <<now, cipher, pins, att, objects, req, cron, want, uploaded, loose>>

Kept == MaxTime + 1  \* the deleted_at of a cipher that is not in the trash

NoRow == [user |-> "no row"]
New == [user |-> "not created"]
Raced == [user |-> "raced"]
Row == [user : Users \cup {NoUser}, org : BOOLEAN, data : Data, deleted_at : 0 .. Kept]

\* Rows that refer to a cipher without ON DELETE CASCADE.
Pins == {p \in (Users \cup {NoUser}) \X Kinds : p[1] = NoUser <=> p[2] = "collection"}

live == {c \in Ciphers : cipher[c] \notin {NoRow, New}}

\* The attachments of a cipher.
Of(c) == {a \in Attachments : att[a] = c}

\* Where a request in flight is:
\*   save        it is about to save its copy of a cipher
\*   file        it is about to write the rows that file the cipher
\*   unfavorite  a deletion is about to drop the caller's favorite
\*   scan        it is about to read the attachments of the cipher
\*   wipe        it has attachments to delete, half of one may be done
\*   delete      it is about to delete the cipher
\*   post        post_attachment_v2 is about to insert the attachment
\*   put         upload_attachment is about to write the object
\*   share       share_attachment is about to save its copy of the attachment
IsRequest(q) ==
    /\ q.id \in Requests
    /\ q.at \in {"save", "file", "unfavorite", "scan", "wipe", "delete", "post", "put", "share"}
    /\ q.at \in {"save", "file", "delete", "scan", "unfavorite"} => q.cipher \in Ciphers
    /\ q.at = "save" => q.row \in Row /\ q.sets \subseteq DOMAIN q.row
    /\ q.at \in {"save", "file"} => q.pins \subseteq Pins
    /\ q.at = "wipe" => q.keys \subseteq Attachments /\ q.half \subseteq q.keys
    /\ q.at \in {"post", "share"} => q.att \in Attachments /\ q.cipher \in Ciphers
    /\ q.at = "put" => q.att \in Attachments

-----------------------------------------------------------------------------
(* Requests in flight. *)

Free(r) == \A q \in req : q.id # r

Tables == <<now, cipher, pins, att, objects, cron, want, uploaded, loose>>

Start(p) ==
    /\ Free(p.id)
    /\ req' = req \cup {p}
    /\ UNCHANGED Tables

\* load_owned_cipher: the owner, or a member of the organization when no user
\* owns the cipher.
Owned(c, u) ==
    /\ c \in live
    /\ cipher[c].user = u \/ (cipher[c].user = NoUser /\ u \in Members)

\* load_owned_cipher of the attachment handlers: only the owner.
OwnedByUser(c, u) == c \in live /\ cipher[c].user = u

\* Requests that will save a copy of the row of c.
Savers(c) == {p \in req : p.at = "save" /\ p.cipher = c}

\* A deletion of a is between the object and the row.
Deleting(a) == (\E q \in req : q.at = "wipe" /\ a \in q.half) \/ a \in cron.swept

\* deleted_at IS NOT NULL AND deleted_at < the cutoff of a trigger that started then.
Trashed(start) == {c \in live : /\ cipher[c].deleted_at # Kept
                                /\ cipher[c].deleted_at < start - TrashDays}

\* HISTORY: the attachments of c, when the row that is written moves c into or
\* out of the trash that the hourly trigger is sweeping.
Crossing(c, row) ==
    IF /\ cron.at = "sweep"
       /\ (c \in Trashed(cron.start)) # (row.deleted_at < cron.start - TrashDays)
    THEN Of(c) ELSE {}

-----------------------------------------------------------------------------
(* Handlers that write the row of a cipher. *)

\* What is left to do for a request that has the junction rows in p to write.
ToFile(r, c, p) == IF p = {} THEN {} ELSE {[id |-> r, at |-> "file", cipher |-> c, pins |-> p]}

\* Cipher::new and save, then the rows that file it.
Create(r, c, row, p) ==
    /\ Free(r)
    /\ cipher[c] = New
    /\ cipher' = [cipher EXCEPT ![c] = row]
    /\ want' = [want EXCEPT ![c] = row]
    /\ req' = req \cup ToFile(r, c, p)
    /\ UNCHANGED <<now, pins, att, objects, cron, uploaded, loose>>

Filed(u) == {<<u, "favorite">>, <<u, "folder">>} \cap Pins
Collected == {<<NoUser, "collection">>} \cap Pins

\* post_cipher: an organization's cipher has no user, and a caller who is a
\* member; import_ciphers: the same for each cipher of the file.
post_cipher(r, c, u, org, d) ==
    /\ org => u \in Members
    /\ Create(r, c, [user |-> IF org THEN NoUser ELSE u, org |-> org, data |-> d,
                     deleted_at |-> Kept], Filed(u) \cup Collected)

import_ciphers(r, c, u, org, d) ==
    /\ org => u \in Members
    /\ Create(r, c, [user |-> IF org THEN NoUser ELSE u, org |-> org, data |-> d,
                     deleted_at |-> Kept],
              IF org THEN (Filed(u) \ {<<u, "folder">>}) \cup Collected ELSE Filed(u))

\* A handler that has read the row of c saves it as row, meaning to change the
\* columns in sets, and may write the junction rows in p after that.
Saves(r, c, row, sets, p) ==
    Start([id |-> r, at |-> "save", cipher |-> c, row |-> row, sets |-> sets, pins |-> p])

\* MUTANT: an edit takes the cipher out of the trash.
put_cipher_Restores(r, c, u, d) ==
    /\ Owned(c, u)
    /\ Saves(r, c, [cipher[c] EXCEPT !.data = d, !.deleted_at = Kept], {"data"}, Filed(u))

put_cipher(r, c, u, d) ==
    /\ Owned(c, u)
    /\ Saves(r, c, [cipher[c] EXCEPT !.data = d], {"data"}, Filed(u))

delete_cipher_soft(r, c, u) ==
    /\ Owned(c, u)
    /\ Saves(r, c, [cipher[c] EXCEPT !.deleted_at = now], {"deleted_at"}, {})

restore_cipher(r, c, u) ==
    /\ Owned(c, u)
    /\ Saves(r, c, [cipher[c] EXCEPT !.deleted_at = Kept], {"deleted_at"}, {})

\* The bulk handlers do the same for each cipher of their list, and go on when
\* one of them is refused.
bulk_delete_soft(r, c, u) == delete_cipher_soft(r, c, u)
bulk_restore(r, c, u) == restore_cipher(r, c, u)

share_cipher(r, c, u, d) ==
    /\ Owned(c, u) /\ u \in Members
    /\ Saves(r, c, [cipher[c] EXCEPT !.user = NoUser, !.org = TRUE, !.data = d],
             {"user", "org", "data"}, Collected)

\* bulk_share, for each cipher of its list: the user stays.
bulk_share(r, c, u) ==
    /\ Owned(c, u)
    /\ Saves(r, c, [cipher[c] EXCEPT !.org = TRUE], {"org"}, Collected)

\* Cipher::save.
save(q) ==
    /\ q.at = "save"
    /\ cipher' = [cipher EXCEPT ![q.cipher] = q.row]
    /\ want' = [want EXCEPT ![q.cipher] =
                    IF @ = NoRow THEN NoRow
                    ELSE IF @ = Raced \/ Savers(q.cipher) # {q} THEN Raced
                    ELSE [f \in DOMAIN @ |-> IF f \in q.sets THEN q.row[f] ELSE @[f]]]
    /\ req' = (req \ {q}) \cup ToFile(q.id, q.cipher, q.pins)
    /\ loose' = loose \cup Crossing(q.cipher, q.row)
    /\ UNCHANGED <<now, pins, att, objects, cron, uploaded>>

\* Handlers that only file a cipher: put_cipher_partial, bulk_move,
\* put_cipher_collections, bulk_collections.
Files(r, c, p) ==
    /\ Free(r)
    /\ req' = req \cup ToFile(r, c, p)
    /\ UNCHANGED Tables

put_cipher_partial(r, c, u) == Owned(c, u) /\ Files(r, c, Filed(u))
bulk_move(r, c, u) == Owned(c, u) /\ Files(r, c, Filed(u) \ {<<u, "favorite">>})
put_cipher_collections(r, c, u) == Owned(c, u) /\ cipher[c].org /\ Files(r, c, Collected)
bulk_collections(r, c, u) == Owned(c, u) /\ Files(r, c, Collected)

\* The junction rows among q.pins become whatever the client asked for; without
\* the cipher every one of those statements fails.
file(q) ==
    /\ q.at = "file"
    /\ \E p \in SUBSET q.pins :
         pins' = [pins EXCEPT ![q.cipher] =
                     IF q.cipher \in live THEN (@ \ q.pins) \cup p ELSE @]
    /\ req' = req \ {q}
    /\ UNCHANGED <<now, cipher, att, objects, cron, want, uploaded, loose>>

-----------------------------------------------------------------------------
(* Deleting ciphers.  A request has ciphers to go through, and for each of     *)
(* them the steps that its handler takes.                                      *)

HardSteps == [unfavorite |-> "scan", scan |-> "wipe", wipe |-> "delete"]
PurgeSteps == [scan |-> "wipe", wipe |-> "unfavorite", unfavorite |-> "delete"]
OrgSteps == [scan |-> "wipe", wipe |-> "delete"]
AttachmentSteps == [wipe |-> "done"]

At(q, at) == [q EXCEPT !.at = at]

Removes(r, u, at, steps, c, todo) ==
    [id |-> r, at |-> at, user |-> u, steps |-> steps, cipher |-> c, todo |-> todo,
     keys |-> {}, half |-> {}]

delete_cipher_hard(r, c, u) ==
    /\ Owned(c, u)
    /\ Start(Removes(r, u, "unfavorite", HardSteps, c, {}))

\* purge_user_ciphers: find_owned_by_user, or find_by_org for an owner.
Purges(r, u, C, steps) ==
    \E c \in C : Start(Removes(r, u, "scan", steps, c, C \ {c}))

purge_user_ciphers(r, u) ==
    \/ Purges(r, u, {c \in live : cipher[c].user = u /\ ~cipher[c].org}, PurgeSteps)
    \/ u \in Members /\ Purges(r, u, {c \in live : cipher[c].org}, OrgSteps)

Step(q, p) == req' = (req \ {q}) \cup {p}

\* Favorite::set(.., false); a failure is ignored.
unfavorite(q) ==
    /\ q.at = "unfavorite"
    /\ Step(q, At(q, q.steps[q.at]))
    /\ \/ pins' = [pins EXCEPT ![q.cipher] = @ \ {<<q.user, "favorite">>}]
       \/ UNCHANGED pins
    /\ UNCHANGED <<now, cipher, att, objects, cron, want, uploaded, loose>>

\* Attachment::find_by_cipher; when it fails there is nothing to wipe.
scan(q) ==
    /\ q.at = "scan"
    /\ \/ Step(q, [At(q, "wipe") EXCEPT !.keys = Of(q.cipher)])
       \/ Step(q, At(q, q.steps["wipe"]))
    /\ UNCHANGED Tables

\* MUTANT: the objects are left in the bucket.
wipe_object_Kept(q, a) ==
    /\ q.at = "wipe" /\ a \in q.keys /\ q.half = {}
    /\ Step(q, [q EXCEPT !.half = {a}])
    /\ UNCHANGED Tables

\* bucket.delete; a failure is ignored.
wipe_object(q, a) ==
    /\ q.at = "wipe" /\ a \in q.keys /\ q.half = {}
    /\ Step(q, [q EXCEPT !.half = {a}])
    /\ \/ objects' = objects \ {a} /\ UNCHANGED loose
       \/ loose' = loose \cup {a} /\ UNCHANGED objects
    /\ UNCHANGED <<now, cipher, pins, att, cron, want, uploaded>>

\* Attachment::delete of the same attachment; a failure is ignored.
wipe_row(q, a) ==
    /\ q.at = "wipe" /\ a \in q.half
    /\ Step(q, [q EXCEPT !.keys = @ \ {a}, !.half = {}])
    /\ \/ att' = [att EXCEPT ![a] = NoRow] /\ UNCHANGED loose
       \/ loose' = loose \cup {a} /\ UNCHANGED att
    /\ UNCHANGED <<now, cipher, pins, objects, cron, want, uploaded>>

wiped(q) ==
    /\ q.at = "wipe" /\ q.keys = {}
    /\ IF q.steps.wipe = "done" THEN req' = req \ {q} ELSE Step(q, At(q, q.steps.wipe))
    /\ UNCHANGED Tables

\* MUTANT: the tables have no foreign keys.
Deletable_NoForeignKeys(C) == TRUE

\* The foreign keys that a DELETE of the ciphers C meets.
Deletable(C) == \A c \in C : pins[c] = {} /\ Of(c) = {}

\* DELETE of the ciphers C.
Delete(C) ==
    /\ Deletable(C)
    /\ cipher' = [c \in Ciphers |-> IF c \in C THEN NoRow ELSE cipher[c]]
    /\ want' = [c \in Ciphers |-> IF c \notin C THEN want[c]
                                  ELSE IF Savers(c) = {} THEN NoRow ELSE Raced]

\* Cipher::delete, then the next cipher of the list; one that cannot be deleted
\* is an error or, for purge_user_ciphers, passed over.
delete(q) ==
    /\ q.at = "delete"
    /\ \/ Delete({q.cipher})
       \/ UNCHANGED <<cipher, want>>
    /\ \/ q.todo = {} /\ req' = req \ {q}
       \/ \E c \in q.todo : Step(q, Removes(q.id, q.user, "scan", q.steps, c, q.todo \ {c}))
    /\ UNCHANGED <<now, pins, att, objects, cron, uploaded, loose>>

-----------------------------------------------------------------------------
(* Attachments. *)

post_attachment_v2(r, a, c, u) ==
    /\ OwnedByUser(c, u)
    /\ Start([id |-> r, at |-> "post", att |-> a, cipher |-> c])

\* Attachment::save of a new id; the cipher must still be there.
post(q) ==
    /\ q.at = "post"
    /\ att[q.att] = New /\ q.cipher \in live
    /\ att' = [att EXCEPT ![q.att] = q.cipher]
    /\ loose' = IF cron.at = "sweep" THEN loose \cup {q.att} ELSE loose
    /\ req' = req \ {q}
    /\ UNCHANGED <<now, cipher, pins, objects, cron, want, uploaded>>

\* upload_attachment: the cipher and the attachment are read, then the body.
upload_attachment(r, a, u) ==
    /\ att[a] \notin {New, NoRow} /\ OwnedByUser(att[a], u)
    /\ Start([id |-> r, at |-> "put", att |-> a])

put(q) ==
    /\ q.at = "put"
    /\ objects' = objects \cup {q.att}
    /\ uploaded' = uploaded \cup {q.att}
    /\ loose' = IF att[q.att] = NoRow \/ Deleting(q.att) THEN loose \cup {q.att} ELSE loose
    /\ req' = req \ {q}
    /\ UNCHANGED <<now, cipher, pins, att, cron, want>>

\* delete_attachment: the object, then the row.
delete_attachment(r, a, u) ==
    /\ att[a] \notin {New, NoRow} /\ OwnedByUser(att[a], u)
    /\ Start([Removes(r, u, "wipe", AttachmentSteps, att[a], {}) EXCEPT !.keys = {a}])

\* share_attachment: a new name and key, saved with the row that was read.
share_attachment(r, a, u) ==
    /\ att[a] \notin {New, NoRow} /\ OwnedByUser(att[a], u)
    /\ Start([id |-> r, at |-> "share", att |-> a, cipher |-> att[a]])

share(q) ==
    /\ q.at = "share"
    /\ q.cipher \in live
    /\ att' = [att EXCEPT ![q.att] = q.cipher]
    /\ loose' = IF att[q.att] = NoRow THEN loose \cup {q.att} ELSE loose
    /\ req' = req \ {q}
    /\ UNCHANGED <<now, cipher, pins, objects, cron, want, uploaded>>

\* A statement fails, or the isolate stops.
fail(q) ==
    /\ req' = req \ {q}
    /\ loose' = IF q.at = "wipe" THEN loose \cup q.half ELSE loose
    /\ UNCHANGED <<now, cipher, pins, att, objects, cron, want, uploaded>>

-----------------------------------------------------------------------------
(* The hourly trigger, run_purges: the attachments of old trash are read, their *)
(* objects deleted one by one, their rows by one statement and the ciphers by   *)
(* another, all with the cutoff of its start.                                   *)

Idle == [at |-> "idle", start |-> 0, keys |-> {}, swept |-> {}]

\* MUTANT: the attachments of everything in the trash.
trashed_attachment_keys_AnyAge(start) ==
    {a \in Attachments : att[a] \in live /\ cipher[att[a]].deleted_at # Kept}

trashed_attachment_keys(start) == {a \in Attachments : att[a] \in Trashed(start)}

\* When the SELECT fails or finds nothing, the sweep is left out.
cron_select ==
    /\ cron.at = "idle"
    /\ \E keys \in {trashed_attachment_keys(now), {}} :
         cron' = [at |-> IF keys = {} THEN "purge" ELSE "sweep", start |-> now,
                  keys |-> keys, swept |-> {}]
    /\ UNCHANGED <<now, cipher, pins, att, objects, req, want, uploaded, loose>>

cron_sweep(a) ==
    /\ cron.at = "sweep" /\ a \in cron.keys
    /\ cron' = [cron EXCEPT !.keys = @ \ {a}, !.swept = @ \cup {a}]
    /\ \/ objects' = objects \ {a} /\ UNCHANGED loose
       \/ loose' = loose \cup {a} /\ UNCHANGED objects
    /\ UNCHANGED <<now, cipher, pins, att, req, want, uploaded>>

\* DELETE FROM attachments of the ciphers that are old trash by now; a failure
\* is ignored.
cron_rows ==
    /\ cron.at = "sweep" /\ cron.keys = {}
    /\ cron' = [cron EXCEPT !.at = "purge", !.swept = {}]
    /\ \/ /\ att' = [a \in Attachments |-> IF att[a] \in Trashed(cron.start) THEN NoRow
                                           ELSE att[a]]
          /\ UNCHANGED loose
       \/ /\ loose' = loose \cup cron.swept
          /\ UNCHANGED att
    /\ UNCHANGED <<now, cipher, pins, objects, req, want, uploaded>>

\* purge_trashed_before: one statement, which one reference to one of the
\* ciphers makes fail as a whole.
cron_purge ==
    /\ cron.at = "purge"
    /\ \/ Delete(Trashed(cron.start))
       \/ ~Deletable(Trashed(cron.start)) /\ UNCHANGED <<cipher, want>>
    /\ cron' = Idle
    /\ UNCHANGED <<now, pins, att, objects, req, uploaded, loose>>

\* The invocation is stopped.
cron_stop ==
    /\ cron.at # "idle"
    /\ cron' = Idle
    /\ loose' = loose \cup cron.swept
    /\ UNCHANGED <<now, cipher, pins, att, objects, req, want, uploaded>>

Tick ==
    /\ now < MaxTime
    /\ now' = now + 1
    /\ UNCHANGED <<cipher, pins, att, objects, req, cron, want, uploaded, loose>>

-----------------------------------------------------------------------------
(* The specification. *)

Init ==
    /\ now = 0
    /\ cipher = [c \in Ciphers |-> New]
    /\ pins = [c \in Ciphers |-> {}]
    /\ att = [a \in Attachments |-> New]
    /\ objects = {}
    /\ req = {}
    /\ cron = Idle
    /\ want = cipher
    /\ uploaded = {}
    /\ loose = {}

CipherHandler(r, c, u) ==
    \/ \E d \in Data : \/ \E org \in BOOLEAN : \/ post_cipher(r, c, u, org, d)
                                               \/ import_ciphers(r, c, u, org, d)
                       \/ put_cipher(r, c, u, d) \/ share_cipher(r, c, u, d)
    \/ delete_cipher_soft(r, c, u) \/ bulk_delete_soft(r, c, u)
    \/ restore_cipher(r, c, u) \/ bulk_restore(r, c, u) \/ bulk_share(r, c, u)
    \/ put_cipher_partial(r, c, u) \/ bulk_move(r, c, u)
    \/ put_cipher_collections(r, c, u) \/ bulk_collections(r, c, u)
    \/ delete_cipher_hard(r, c, u)
    \/ \E a \in Attachments : post_attachment_v2(r, a, c, u)

AttachmentHandler(r, a, u) ==
    upload_attachment(r, a, u) \/ delete_attachment(r, a, u) \/ share_attachment(r, a, u)

Proceed(q) ==
    \/ save(q) \/ file(q) \/ unfavorite(q) \/ scan(q)
    \/ \E a \in Attachments : wipe_object(q, a) \/ wipe_row(q, a)
    \/ wiped(q) \/ delete(q) \/ post(q) \/ put(q) \/ share(q) \/ fail(q)

Cron ==
    \/ cron_select
    \/ \E a \in Attachments : cron_sweep(a)
    \/ cron_rows \/ cron_purge

Next ==
    \/ \E r \in {i \in Requests : Free(i)}, u \in Users :
         \/ \E c \in Ciphers : CipherHandler(r, c, u)
         \/ \E a \in Attachments : AttachmentHandler(r, a, u)
         \/ purge_user_ciphers(r, u)
    \/ \E q \in req : Proceed(q)
    \/ Cron \/ cron_stop
    \/ Tick

Spec == Init /\ [][Next]_vars

-----------------------------------------------------------------------------
(* Properties. *)

\* Every variable holds a value of its type; an attachment and the rows that
\* file a cipher refer to a cipher that is there.
TypeOK ==
    /\ now \in 0 .. MaxTime
    /\ cipher \in [Ciphers -> Row \cup {NoRow, New}]
    /\ want \in [Ciphers -> Row \cup {NoRow, New, Raced}]
    /\ pins \in [Ciphers -> SUBSET Pins]
    /\ \A a \in Attachments : att[a] \in {NoRow, New} \/ att[a] \in live
    /\ \A c \in Ciphers \ live : pins[c] = {}
    /\ objects \subseteq uploaded /\ uploaded \subseteq Attachments
    /\ \A q \in req : IsRequest(q)
    /\ cron.at \in {"idle", "sweep", "purge"} /\ cron.start \in 0 .. MaxTime
    /\ cron.keys \cup cron.swept \cup loose \subseteq Attachments

\* As long as the writes of a cipher did not overlap, it has in every column what
\* the last handler that meant to change that column wrote, and once deleted,
\* by a handler or by the hourly purge, it stays deleted.
RowHolds == \A c \in Ciphers : want[c] # Raced => cipher[c] = want[c]

\* Whatever overlaps, a cipher without a user belongs to an organization: the
\* copies that share_cipher, bulk_share and the other handlers save never mix
\* into a row that nobody can open.
NoOrphans == \A c \in live : cipher[c].user = NoUser => cipher[c].org

\* An attachment that was uploaded can be downloaded until it is deleted, unless
\* a deletion of it failed halfway or overlapped a restore or a share.
Downloadable ==
    \A a \in uploaded \ loose :
        att[a] # NoRow /\ ~Deleting(a) => a \in objects

\* No object stays in the bucket without the row of its attachment, unless a
\* deletion failed halfway or overlapped an upload.
ObjectsOwned == \A a \in objects \ loose : att[a] # NoRow
=============================================================================
