---------------------------- MODULE ServerCiphers ----------------------------
(***************************************************************************)
(* The vault of one user of the upstream server: api/core/ciphers.rs,      *)
(* api/core/folders.rs and the rows of db/models/cipher.rs, folder.rs,     *)
(* favorite.rs, archive.rs and attachment.rs.  The user is a confirmed     *)
(* member of one organization, and may write to its one collection.        *)
(*                                                                         *)
(* A request is a list of statements, `todo[r]`, one for each awaited      *)
(* database call.  What a client sends in a cipher is abstracted to its    *)
(* organization, its folder and its marks; the checks of the rest of it (a *)
(* stale revision date, the ownership policy, the size of a note, an       *)
(* unknown type) are a choice to refuse.  The revision dates of accounts   *)
(* are modelled for sends, in ServerSends.                                 *)
(***************************************************************************)
EXTENDS Integers, Sequences, FiniteSets, FiniteSetsExt

CONSTANTS
    Ciphers, Folders, Attachments,   \* ids: disjoint sets of numbers
    Sizes,       \* sizes a client may declare or upload
    Limit,       \* user_attachment_limit and org_attachment_limit
    Leeway,      \* LEEWAY of save_attachment
    Marks,       \* what a client may send: records [org, fav, arch]
    Requests,    \* request slots
    None,
    MaxOps       \* bound: requests started

VARIABLES
    full,     \* the member has full access to the organization
    row,      \* ciphers rows: [owner, data, trash] or None
    folder,   \* folders rows
    filed,    \* folders_ciphers rows, <<cipher, folder>>
    linked,   \* ciphers_collections rows
    fav,      \* favorites rows
    arch,     \* archives rows
    att,      \* attachments rows: [cipher, size] or None
    stored,   \* size of the stored file, 0 when there is none
    todo,
    ops,
    clean,    \* HISTORY: requests no other request has written beside
    torn,     \* HISTORY: an unclean request wrote, or a statement failed
    used      \* HISTORY: ids handed out

vars == <<full, row, folder, filed, linked, fav, arch, att, stored, todo, ops,
          clean, torn, used>>

Exists(c) == row[c] # None

\* get_access_restrictions for this user, from the copy m the handler holds
is_write_accessible_to_user(c, m) ==
    m.owner = "user" \/ (m.owner = "org" /\ full) \/ c \in linked

Accessible(c) == Exists(c) /\ is_write_accessible_to_user(c, row[c])

\* Cipher::new: nobody's yet, and empty
new_cipher == [owner |-> None, data |-> FALSE, trash |-> FALSE]

-----------------------------------------------------------------------------
(* Statements.                                                             *)

Running(r, op) == todo[r] # <<>> /\ Head(todo[r])[1] = op
Arg(r, i) == Head(todo[r])[i]
Continue(r) == todo' = [todo EXCEPT ![r] = Tail(@)]
Instead(r, statements) == todo' = [todo EXCEPT ![r] = statements \o Tail(@)]

\* an error ends the handler, up to the statement that handles it
Abort(r) ==
    LET handlers == {i \in DOMAIN todo[r] : todo[r][i][1] = "catch"}
        first == CHOOSE i \in handlers : \A j \in handlers : i <= j
    IN  todo' = [todo EXCEPT ![r] =
                   IF handlers = {} THEN <<>>
                   ELSE todo[r][first][2] \o SubSeq(@, first + 1, Len(@))]

Wrote(r) ==
    /\ torn' = (torn \/ r \notin clean)
    /\ clean' = clean \cap {r}

Reads == UNCHANGED <<full, row, folder, filed, linked, fav, arch, att, stored,
                     ops, clean, torn, used>>

Cipher_delete(c) ==
    <<<<"unfile", c>>, <<"unlink", c>>, <<"attachments", c>>, <<"unfavorite", c>>, <<"drop", c>>>>
Attachment_delete(a) == <<<<"detach", a>>, <<"remove", a>>>>
Folder_delete(f) == <<<<"empty", f>>, <<"drop_folder", f>>>>

\* the row inserted or replaced; a replaced row takes its archives rows with it,
\* an updated one does not, and the backends differ in which of the two they do
Cipher_save(r) ==
    /\ Running(r, "save")
    /\ row' = [row EXCEPT ![Arg(r, 2)] = Arg(r, 3)]
    /\ arch' \in {arch, arch \ {Arg(r, 2)}}
    /\ Continue(r) /\ Wrote(r)
    /\ UNCHANGED <<full, folder, filed, linked, fav, att, stored, ops, used>>

\* FolderCipher::delete_all_by_cipher
unfile(r) ==
    /\ Running(r, "unfile")
    /\ filed' = {l \in filed : l[1] # Arg(r, 2)}
    /\ Continue(r) /\ Wrote(r)
    /\ UNCHANGED <<full, row, folder, linked, fav, arch, att, stored, ops, used>>

\* CollectionCipher::save and delete_all_by_cipher
link(r) ==
    /\ Running(r, "link")
    /\ IF Exists(Arg(r, 2)) THEN linked' = linked \cup {Arg(r, 2)} /\ Continue(r)
       ELSE UNCHANGED linked /\ Abort(r)
    /\ Wrote(r)
    /\ UNCHANGED <<full, row, folder, filed, fav, arch, att, stored, ops, used>>

unlink(r) ==
    /\ Running(r, "unlink")
    /\ linked' = linked \ {Arg(r, 2)}
    /\ Continue(r) /\ Wrote(r)
    /\ UNCHANGED <<full, row, folder, filed, fav, arch, att, stored, ops, used>>

Belongs(a, c) == att[a] # None /\ att[a].cipher = c

\* Attachment::delete_all_by_cipher: the rows listed, one after another
delete_all_by_cipher(r) ==
    /\ Running(r, "attachments")
    /\ Instead(r, <<<<"each_attachment", {a \in Attachments : Belongs(a, Arg(r, 2))}>>>>)
    /\ Reads

attachment_turn(r) ==
    /\ Running(r, "each_attachment")
    /\ IF Arg(r, 2) = {} THEN Continue(r)
       ELSE \E a \in Arg(r, 2) :
               Instead(r, Attachment_delete(a) \o <<<<"each_attachment", Arg(r, 2) \ {a}>>>>)
    /\ Reads

\* an attachment of a cipher that is gone is neither inserted nor updated
Attachment_save(r) ==
    /\ Running(r, "attach")
    /\ att' = IF Exists(Arg(r, 3).cipher) THEN [att EXCEPT ![Arg(r, 2)] = Arg(r, 3)] ELSE att
    /\ (Continue(r) \/ (~Exists(Arg(r, 3).cipher) /\ Abort(r)))
    /\ Wrote(r)
    /\ UNCHANGED <<full, row, folder, filed, linked, fav, arch, stored, ops, used>>

\* Attachment::delete: the row, then the file
detach(r) ==
    /\ Running(r, "detach")
    /\ att' = [att EXCEPT ![Arg(r, 2)] = None]
    /\ Continue(r) /\ Wrote(r)
    /\ UNCHANGED <<full, row, folder, filed, linked, fav, arch, stored, ops, used>>

remove_file(r) ==
    /\ Running(r, "remove")
    /\ stored' = [stored EXCEPT ![Arg(r, 2)] = 0]
    /\ Continue(r) /\ Wrote(r)
    /\ UNCHANGED <<full, row, folder, filed, linked, fav, arch, att, ops, used>>

save_temp_file(r) ==
    /\ Running(r, "store")
    /\ stored' = [stored EXCEPT ![Arg(r, 2)] = Arg(r, 3)]
    /\ Continue(r) /\ Wrote(r)
    /\ UNCHANGED <<full, row, folder, filed, linked, fav, arch, att, ops, used>>

\* Favorite::set_favorite: a row that is there already is not inserted twice
set_favorite(r) ==
    /\ Running(r, "favorite")
    /\ LET c == Arg(r, 2) IN
       IF (c \in fav) = Arg(r, 3) THEN Continue(r)
       ELSE Instead(r, IF Arg(r, 3) THEN <<<<"mark", c>>>> ELSE <<<<"unfavorite", c>>>>)
    /\ Reads

mark_favorite(r) ==
    /\ Running(r, "mark")
    /\ LET c == Arg(r, 2)  ok == Exists(c) /\ c \notin fav IN
       /\ fav' = IF ok THEN fav \cup {c} ELSE fav
       /\ IF ok THEN Continue(r) ELSE Abort(r)
    /\ Wrote(r)
    /\ UNCHANGED <<full, row, folder, filed, linked, arch, att, stored, ops, used>>

unfavorite(r) ==
    /\ Running(r, "unfavorite")
    /\ fav' = fav \ {Arg(r, 2)}
    /\ Continue(r) /\ Wrote(r)
    /\ UNCHANGED <<full, row, folder, filed, linked, arch, att, stored, ops, used>>

Archive_save(r) ==
    /\ Running(r, "archive")
    /\ IF Exists(Arg(r, 2)) THEN arch' = arch \cup {Arg(r, 2)} /\ Continue(r)
       ELSE UNCHANGED arch /\ Abort(r)
    /\ Wrote(r)
    /\ UNCHANGED <<full, row, folder, filed, linked, fav, att, stored, ops, used>>

Archive_delete(r) ==
    /\ Running(r, "unarchive")
    /\ arch' = arch \ {Arg(r, 2)}
    /\ Continue(r) /\ Wrote(r)
    /\ UNCHANGED <<full, row, folder, filed, linked, fav, att, stored, ops, used>>

\* the row itself, unless another row still refers to it
drop(r) ==
    /\ Running(r, "drop")
    /\ LET c == Arg(r, 2)
           held == \/ c \in linked \cup fav
                   \/ \E l \in filed : l[1] = c
                   \/ \E a \in Attachments : Belongs(a, c)
       IN  IF held THEN UNCHANGED <<row, arch>> /\ Abort(r)
           ELSE row' = [row EXCEPT ![c] = None] /\ arch' = arch \ {c} /\ Continue(r)
    /\ Wrote(r)
    /\ UNCHANGED <<full, folder, filed, linked, fav, att, stored, ops, used>>

move_to_folder_Added(r) ==
    /\ Running(r, "move")
    /\ LET c == Arg(r, 2)  new == Arg(r, 3) IN
       IF new = None THEN Continue(r) ELSE Instead(r, <<<<"file", c, new>>>>)
    /\ Reads

\* Cipher::move_to_folder: the first folder of the user that holds it
move_to_folder(r) ==
    /\ Running(r, "move")
    /\ LET c == Arg(r, 2)
           new == Arg(r, 3)
           in == {l[2] : l \in {l \in filed : l[1] = c}}
       IN  \/ in = {} /\ new = None /\ Continue(r)
           \/ in = {} /\ new # None /\ Instead(r, <<<<"file", c, new>>>>)
           \/ \E old \in in :
                \/ old = new /\ Continue(r)
                \/ new = None /\ Instead(r, <<<<"take", c, old, TRUE>>>>)
                \/ /\ new \notin {None, old}
                   /\ Instead(r, <<<<"take", c, old, FALSE>>, <<"file", c, new>>>>)
    /\ Reads

\* find_by_folder_and_cipher and FolderCipher::delete
take_out(r) ==
    /\ Running(r, "take")
    /\ LET l == <<Arg(r, 2), Arg(r, 3)>> IN
       /\ filed' = filed \ {l}
       /\ IF Arg(r, 4) /\ l \notin filed THEN Abort(r) ELSE Continue(r)
    /\ Wrote(r)
    /\ UNCHANGED <<full, row, folder, linked, fav, arch, att, stored, ops, used>>

FolderCipher_save(r) ==
    /\ Running(r, "file")
    /\ LET ok == Exists(Arg(r, 2)) /\ Arg(r, 3) \in folder IN
       /\ filed' = IF ok THEN filed \cup {<<Arg(r, 2), Arg(r, 3)>>} ELSE filed
       /\ IF ok THEN Continue(r) ELSE Abort(r)
    /\ Wrote(r)
    /\ UNCHANGED <<full, row, folder, linked, fav, arch, att, stored, ops, used>>

Folder_save(r) ==
    /\ Running(r, "save_folder")
    /\ folder' = folder \cup {Arg(r, 2)}
    /\ Continue(r) /\ Wrote(r)
    /\ UNCHANGED <<full, row, filed, linked, fav, arch, att, stored, ops, used>>

empty_folder(r) ==
    /\ Running(r, "empty")
    /\ filed' = {l \in filed : l[2] # Arg(r, 2)}
    /\ Continue(r) /\ Wrote(r)
    /\ UNCHANGED <<full, row, folder, linked, fav, arch, att, stored, ops, used>>

drop_folder(r) ==
    /\ Running(r, "drop_folder")
    /\ IF \E l \in filed : l[2] = Arg(r, 2) THEN UNCHANGED folder /\ Abort(r)
       ELSE folder' = folder \ {Arg(r, 2)} /\ Continue(r)
    /\ Wrote(r)
    /\ UNCHANGED <<full, row, filed, linked, fav, arch, att, stored, ops, used>>

\* a handled error leaves nothing more to do when there was none
catch(r) == Running(r, "catch") /\ Continue(r) /\ Reads

\* a database or storage call fails
fail(r) ==
    /\ todo[r] # <<>> /\ ~Running(r, "catch")
    /\ Abort(r)
    /\ torn' = TRUE
    /\ UNCHANGED <<full, row, folder, filed, linked, fav, arch, att, stored, ops, clean, used>>

-----------------------------------------------------------------------------
(* Shared parts of handlers.                                               *)

\* what a client sends: a folder, whether the organization is given, the favorite
\* mark if one is given, and the archive mark
CipherData == {[org |-> k.org, fav |-> k.fav, arch |-> k.arch, folder |-> f] :
                  k \in Marks, f \in folder \cup {None}}

\* update_cipher_from_data up to its first write, on the copy m
update_cipher_from_data(r) ==
    /\ Running(r, "update")
    /\ LET c == Arg(r, 2)
           m == Arg(r, 3)
           d == Arg(r, 4)
           shared == Arg(r, 5)
           refused == (m.owner = "org" /\ ~d.org)
                      \/ (d.org /\ ~(shared \/ full \/ is_write_accessible_to_user(c, m)))
           saved == [m EXCEPT !.owner = IF d.org THEN "org" ELSE "user", !.data = TRUE]
       IN  \/ Abort(r)
           \/ /\ ~refused
              /\ Instead(r,
                   <<<<"check_folder", d.folder>>, <<"rekey", c>>, <<"save", c, saved>>,
                     <<"move", c, d.folder>>>>
                   \o (IF d.fav = None THEN <<>> ELSE <<<<"favorite", c, d.fav>>>>)
                   \o (IF d.arch THEN <<<<"archive", c>>>> ELSE <<>>))
    /\ Reads

check_folder(r) ==
    /\ Running(r, "check_folder")
    /\ IF Arg(r, 2) \in folder \cup {None} THEN Continue(r) ELSE Abort(r)
    /\ Reads

\* attachments2: one that is gone is passed over, and one of another cipher ends
\* the loop; the others are written back with a new key
rekey(r) ==
    /\ Running(r, "rekey")
    /\ \/ Continue(r)
       \/ \E a \in Attachments :
            Belongs(a, Arg(r, 2)) /\ Instead(r, <<<<"attach", a, att[a]>>>>)
    /\ Reads

\* share_cipher_by_uuid: the collection is written before the cipher
share_cipher_by_uuid(r) ==
    /\ Running(r, "share")
    /\ LET c == Arg(r, 2)  d == Arg(r, 3) IN
       IF ~Accessible(c) THEN Abort(r)
       ELSE Instead(r, (IF d.org THEN <<<<"link", c>>>> ELSE <<>>)
                       \o <<<<"update", c, row[c], d, TRUE>>>>)
    /\ Reads

\* Attachment::size_by_user and size_by_org
size_by(owner) ==
    LET theirs == {a \in Attachments : att[a] # None /\ row[att[a].cipher].owner = owner}
    IN  FoldSet(LAMBDA a, n : att[a].size + n, 0, theirs)

left_WholeLimit(m, k) == Limit

\* what is left for this file; a reserved one is counted already
left(m, k) == Limit - size_by(m.owner) + (IF k = None THEN 0 ELSE k.size)

\* save_attachment: k is the reserved row, None with the legacy API
save_attachment(r) ==
    /\ Running(r, "upload")
    /\ LET c == Arg(r, 2)
           a == Arg(r, 3)
           k == Arg(r, 4)
           n == Arg(r, 5)
           file == <<<<"store", a, n>>>>
           put == <<<<"attach", a, [cipher |-> c, size |-> n]>>>>
       IN  IF \/ ~Accessible(c)
              \/ left(row[c], k) <= 0
              \/ n > left(row[c], k)
           THEN Abort(r)
           ELSE Instead(r,
                  IF k = None THEN put \o file
                  ELSE IF n \notin (k.size - Leeway)..(k.size + Leeway)
                       THEN Attachment_delete(a) \o <<<<"catch", <<>>>>>>
                  ELSE IF n # k.size THEN put \o file ELSE file)
    /\ Reads

\* delete_cipher_by_uuid
delete_cipher_by_uuid(r) ==
    /\ Running(r, "delete")
    /\ LET c == Arg(r, 2) IN
       IF ~Accessible(c) THEN Abort(r)
       ELSE Instead(r, IF Arg(r, 3) THEN Cipher_delete(c)
                       ELSE <<<<"save", c, [row[c] EXCEPT !.trash = TRUE]>>>>)
    /\ Reads

restore_cipher_by_uuid(r) ==
    /\ Running(r, "restore")
    /\ LET c == Arg(r, 2) IN
       IF ~Accessible(c) THEN Abort(r)
       ELSE Instead(r, <<<<"save", c, [row[c] EXCEPT !.trash = FALSE]>>>>)
    /\ Reads

\* archive_cipher and unarchive_cipher
archive_cipher(r) ==
    /\ Running(r, "set_archived")
    /\ LET c == Arg(r, 2) IN
       IF ~Accessible(c) THEN Abort(r)
       ELSE Instead(r, <<<<IF Arg(r, 3) THEN "archive" ELSE "unarchive", c>>>>)
    /\ Reads

delete_cipher_attachment_by_id(r) ==
    /\ Running(r, "delete_attachment")
    /\ LET a == Arg(r, 2) IN
       IF att[a] # None /\ Accessible(att[a].cipher) THEN Instead(r, Attachment_delete(a))
       ELSE Abort(r)
    /\ Reads

\* the ciphers listed, one after another; only the trash job outlives an error
cipher_turn(r) ==
    /\ Running(r, "each_cipher")
    /\ LET rest == Arg(r, 2)  job == Arg(r, 3) IN
       IF rest = {} THEN Continue(r)
       ELSE \E c \in rest :
              Instead(r, Cipher_delete(c) \o (IF job THEN <<<<"catch", <<>>>>>> ELSE <<>>)
                         \o <<<<"each_cipher", rest \ {c}, job>>>>)
    /\ Reads

\* Folder::find_by_user, then a delete of each
folder_turn(r) ==
    \/ Running(r, "folders") /\ Instead(r, <<<<"each_folder", folder>>>>) /\ Reads
    \/ /\ Running(r, "each_folder")
       /\ IF Arg(r, 2) = {} THEN Continue(r)
          ELSE \E f \in Arg(r, 2) :
                 Instead(r, Folder_delete(f) \o <<<<"each_folder", Arg(r, 2) \ {f}>>>>)
       /\ Reads

-----------------------------------------------------------------------------
(* Routes.                                                                 *)

\* a slot is free for another request
Idle(r) == todo[r] = <<>> /\ ops < MaxOps

Start(r, statements) ==
    /\ todo' = [todo EXCEPT ![r] = statements]
    /\ ops' = ops + 1
    /\ clean' = clean \cup {r}
    /\ UNCHANGED <<full, row, folder, filed, linked, fav, arch, att, stored, torn>>

Fresh(ids) ==
    /\ ids \cap used = {}
    /\ \A S \in {Ciphers, Folders, Attachments} : \A i \in S \cap ids, j \in S :
        j < i => j \in used \cup ids
    /\ used' = used \cup ids
Same == UNCHANGED used

\* the ids of a request that names several
Selections == {<<c>> : c \in Ciphers} \cup {<<p[1], p[2]>> : p \in {p \in Ciphers \X Ciphers : p[1] # p[2]}}
Each(ids, Statement(_)) == [i \in DOMAIN ids |-> Statement(ids[i])]

post_ciphers(r) ==
    \E c \in Ciphers, d \in CipherData :
        Start(r, <<<<"update", c, new_cipher, d, FALSE>>>>) /\ Fresh({c})

post_ciphers_create_NoCleanup(r) ==
    \E c \in Ciphers, d \in CipherData :
        /\ Start(r, <<<<"save", c, [new_cipher EXCEPT !.owner = "user"]>>, <<"share", c, d>>>>)
        /\ Fresh({c})

\* an empty cipher is saved first, and deleted again when sharing it failed
post_ciphers_create(r) ==
    \E c \in Ciphers, d \in CipherData :
        /\ Start(r, <<<<"save", c, [new_cipher EXCEPT !.owner = "user"]>>,
                      <<"share", c, d>>, <<"catch", Cipher_delete(c)>>>>)
        /\ Fresh({c})

\* one new folder, one cipher in it and one outside
post_ciphers_import(r) ==
    \E c, d \in Ciphers, f \in Folders :
        LET data(g) == [org |-> FALSE, folder |-> g, fav |-> None, arch |-> FALSE] IN
        /\ c # d
        /\ Start(r, <<<<"save_folder", f>>, <<"update", c, new_cipher, data(f), FALSE>>,
                      <<"update", d, new_cipher, data(None), FALSE>>>>)
        /\ Fresh({c, d, f})

\* a cipher that cannot be imported is passed over, and the links come last
post_org_import(r) ==
    \E c \in Ciphers :
        LET data == [org |-> TRUE, folder |-> None, fav |-> None, arch |-> FALSE] IN
        /\ Start(r, <<<<"update", c, new_cipher, data, TRUE>>, <<"catch", <<>>>>, <<"link", c>>>>)
        /\ Fresh({c})

put_cipher(r) ==
    \E c \in Ciphers, d \in CipherData :
        Accessible(c) /\ Start(r, <<<<"update", c, row[c], d, FALSE>>>>) /\ Same

put_cipher_partial(r) ==
    \E c \in Ciphers, f \in folder \cup {None}, b \in BOOLEAN :
        /\ Accessible(c)
        /\ Start(r, <<<<"check_folder", f>>, <<"move", c, f>>, <<"favorite", c, b>>>>) /\ Same

put_cipher_share(r) ==
    \E c \in Ciphers, d \in CipherData :
        d.org /\ Start(r, <<<<"share", c, d>>>>) /\ Same

put_cipher_share_selected(r) ==
    \E ids \in Selections :
        LET data == [org |-> TRUE, folder |-> None, fav |-> None, arch |-> FALSE]
            Statement(c) == <<"share", c, data>>
        IN  Len(ids) > 1 /\ Start(r, Each(ids, Statement)) /\ Same

post_attachment_v2(r) ==
    \E c \in Ciphers, a \in Attachments, n \in Sizes :
        /\ Accessible(c)
        /\ Start(r, <<<<"attach", a, [cipher |-> c, size |-> n]>>>>) /\ Fresh({a})

post_attachment_v2_data(r) ==
    \E a \in Attachments, n \in Sizes :
        /\ att[a] # None
        /\ Start(r, <<<<"upload", att[a].cipher, a, att[a], n>>>>) /\ Same

post_attachment(r) ==
    \E c \in Ciphers, a \in Attachments, n \in Sizes :
        Exists(c) /\ Start(r, <<<<"upload", c, a, None, n>>>>) /\ Fresh({a})

post_attachment_share(r) ==
    \E a, b \in Attachments, n \in Sizes :
        /\ att[a] # None
        /\ Start(r, <<<<"delete_attachment", a>>, <<"upload", att[a].cipher, b, None, n>>>>)
        /\ Fresh({b})

delete_attachment(r) ==
    \E a \in Attachments : att[a] # None /\ Start(r, <<<<"delete_attachment", a>>>>) /\ Same

\* the delete routes and delete_multiple_ciphers, which stops at the first error
delete_multiple_ciphers(r) ==
    \E ids \in Selections, hard \in BOOLEAN :
        LET Statement(c) == <<"delete", c, hard>>
        IN  Exists(ids[1]) /\ Start(r, Each(ids, Statement)) /\ Same

restore_multiple_ciphers(r) ==
    \E ids \in Selections :
        LET Statement(c) == <<"restore", c>>
        IN  Exists(ids[1]) /\ Start(r, Each(ids, Statement)) /\ Same

archive_multiple_ciphers(r) ==
    \E ids \in Selections, b \in BOOLEAN :
        LET Statement(c) == <<"set_archived", c, b>>
        IN  Exists(ids[1]) /\ Start(r, Each(ids, Statement)) /\ Same

\* those of the named ciphers the user has access to
move_cipher_selected(r) ==
    \E ids \in Selections, f \in folder \cup {None} :
        LET Statement(c) == <<"move", c, f>>
            own == SelectSeq(ids, Accessible)
        IN  own # <<>> /\ Start(r, Each(own, Statement)) /\ Same

\* asked by an owner, who has full access
purge_org_vault(r) ==
    /\ Start(r, <<<<"each_cipher", {c \in Ciphers : Exists(c) /\ row[c].owner = "org"}, FALSE>>>>)
    /\ full /\ Same

purge_personal_vault(r) ==
    /\ Start(r, <<<<"each_cipher", {c \in Ciphers : Exists(c) /\ row[c].owner = "user"}, FALSE>>,
                  <<"folders">>>>)
    /\ Same

\* the job: those that have been in the trash for long enough
purge_trash(r) ==
    \E old \in SUBSET {c \in Ciphers : Exists(c) /\ row[c].trash} :
        old # {} /\ Start(r, <<<<"each_cipher", old, TRUE>>>>) /\ Same

post_folders(r) == \E f \in Folders : Start(r, <<<<"save_folder", f>>>>) /\ Fresh({f})
put_folder(r) == \E f \in folder : Start(r, <<<<"save_folder", f>>>>) /\ Same
delete_folder(r) == \E f \in folder : Start(r, Folder_delete(f)) /\ Same

-----------------------------------------------------------------------------

\* a vault that may hold one cipher, in a folder, with one stored attachment
Init ==
    /\ full \in BOOLEAN
    /\ \E some \in BOOLEAN, owner \in {"user", "org"} :
       LET c == Min(Ciphers)  a == Min(Attachments)  f == Min(Folders) IN
        /\ some \/ owner = "user"
        /\ row = [d \in Ciphers |->
                    IF some /\ d = c THEN [owner |-> owner, data |-> TRUE, trash |-> FALSE] ELSE None]
        /\ folder = {f} /\ filed = IF some THEN {<<c, f>>} ELSE {}
        /\ linked = IF some /\ owner = "org" THEN {c} ELSE {}
        /\ att = [b \in Attachments |-> IF some /\ b = a THEN [cipher |-> c, size |-> Min(Sizes)] ELSE None]
        /\ used = {f} \cup (IF some THEN {c, a} ELSE {})
    /\ stored = [a \in Attachments |-> IF att[a] = None THEN 0 ELSE att[a].size]
    /\ fav = {} /\ arch = {}
    /\ todo = [r \in Requests |-> <<>>] /\ ops = 0
    /\ clean = {} /\ torn = FALSE

Statements(r) ==
    \/ Cipher_save(r) \/ unfile(r) \/ link(r) \/ unlink(r) \/ delete_all_by_cipher(r)
    \/ attachment_turn(r) \/ Attachment_save(r) \/ detach(r) \/ remove_file(r)
    \/ save_temp_file(r) \/ set_favorite(r) \/ mark_favorite(r) \/ unfavorite(r)
    \/ Archive_save(r) \/ Archive_delete(r) \/ drop(r) \/ move_to_folder(r) \/ take_out(r)
    \/ FolderCipher_save(r) \/ Folder_save(r) \/ empty_folder(r) \/ drop_folder(r)
    \/ catch(r) \/ fail(r) \/ update_cipher_from_data(r) \/ check_folder(r) \/ rekey(r)
    \/ share_cipher_by_uuid(r) \/ save_attachment(r) \/ delete_cipher_by_uuid(r)
    \/ restore_cipher_by_uuid(r) \/ archive_cipher(r) \/ delete_cipher_attachment_by_id(r)
    \/ cipher_turn(r) \/ folder_turn(r)

Routes(r) ==
    \/ post_ciphers(r) \/ post_ciphers_create(r) \/ post_ciphers_import(r) \/ post_org_import(r)
    \/ put_cipher(r) \/ put_cipher_partial(r) \/ put_cipher_share(r)
    \/ put_cipher_share_selected(r) \/ post_attachment_v2(r) \/ post_attachment_v2_data(r)
    \/ post_attachment(r) \/ post_attachment_share(r) \/ delete_attachment(r)
    \/ delete_multiple_ciphers(r) \/ restore_multiple_ciphers(r) \/ archive_multiple_ciphers(r)
    \/ move_cipher_selected(r) \/ purge_org_vault(r) \/ purge_personal_vault(r)
    \/ purge_trash(r) \/ post_folders(r) \/ put_folder(r) \/ delete_folder(r)

\* bound: a history ends with its first torn write, of which nothing is promised
Next == ~torn /\ \E r \in Requests : Statements(r) \/ (Idle(r) /\ Routes(r))

Spec == Init /\ [][Next]_vars

-----------------------------------------------------------------------------
(* Properties.                                                             *)

Quiet == \A r \in Requests : todo[r] = <<>>

\* Creating a cipher gives the cipher or nothing: the empty row
\* post_ciphers_create saves first does not outlive its request, wherever
\* sharing it was refused, unless a statement failed or another request wrote
\* beside it.
NoEmptyCiphers ==
    Quiet /\ ~torn => \A c \in Ciphers : Exists(c) => row[c].data

\* Storage is accounted for: every stored file has a row that gives its size,
\* and the files of the user's own ciphers fit into the limit save_attachment
\* checks, reserved uploads, replaced files and shared ciphers included.
StorageAccounts ==
    Quiet /\ ~torn =>
        /\ \A a \in Attachments : stored[a] # 0 => att[a] # None /\ att[a].size = stored[a]
        /\ LET own == {a \in Attachments : stored[a] # 0 /\ row[att[a].cipher].owner = "user"}
           IN  FoldSet(LAMBDA a, n : stored[a] + n, 0, own) <= Limit

\* A cipher is in one folder of its user at most, and in one that exists.
OneFolder ==
    Quiet /\ ~torn =>
        \A l \in filed : l[2] \in folder /\ \A k \in filed : k[1] = l[1] => k = l
=============================================================================
