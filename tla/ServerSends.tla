----------------------------- MODULE ServerSends -----------------------------
(***************************************************************************)
(* Sends of one user of the upstream server: api/core/sends.rs and         *)
(* db/models/send.rs.  A request is a list of statements, `todo[r]`; every *)
(* write stores the whole row the handler read, so that it also puts back  *)
(* what was changed, or deleted, since.                                    *)
(*                                                                         *)
(* The policies a handler enforces first belong to ServerMembers: here a   *)
(* request that was refused has not started.  The file of a send is an     *)
(* object of its own, and its size is the one the row declares.            *)
(***************************************************************************)
EXTENDS Integers, Sequences, FiniteSets

CONSTANTS
    Sends,       \* ids of sends: numbers, handed out in order
    Settings,    \* what a client may ask for: records [max, exp, del, disabled]
    Quota,       \* user_send_limit, in units of one file
    Requests,    \* request slots
    None,
    MaxOps,      \* bound: requests started
    MaxNow       \* bound: the clock

VARIABLES
    row,      \* sends rows: [atype, pw, set, count] or None
    file,     \* sends whose file is stored
    now,
    todo,
    ops,
    dirty,    \* the account's revision date is later than the client's last sync
    current,  \* HISTORY: the rows are as the client last saw them
    silent,   \* HISTORY: a change nobody is told about was made since that sync
    clean,    \* HISTORY: requests no other request has written beside
    torn,     \* HISTORY: some request was not clean when it wrote
    used,     \* HISTORY: ids handed out
    granted,  \* HISTORY: accesses answered
    over,     \* HISTORY: an access was answered beyond the limit then set
    bare      \* HISTORY: sends created without a password, or made so by their owner

vars == <<row, file, now, todo, ops, dirty, current, silent, clean, torn, used,
          granted, over, bare>>

Exists(s) == row[s] # None

-----------------------------------------------------------------------------
(* Statements.                                                             *)

Running(r, op) == todo[r] # <<>> /\ Head(todo[r])[1] = op
Arg(r, i) == Head(todo[r])[i]
Continue(r) == todo' = [todo EXCEPT ![r] = Tail(@)]
Instead(r, statements) == todo' = [todo EXCEPT ![r] = statements \o Tail(@)]

Wrote(r) ==
    /\ torn' = (torn \/ r \notin clean)
    /\ clean' = clean \cap {r}

update_users_revision(r) ==
    /\ Running(r, "revision")
    /\ dirty' = TRUE
    /\ Continue(r)
    /\ UNCHANGED <<row, file, now, ops, current, silent, clean, torn, used, granted, over, bare>>

\* the row inserted or replaced, whatever has become of it since it was read
Send_save(r) ==
    /\ Running(r, "save")
    /\ row' = [row EXCEPT ![Arg(r, 2)] = Arg(r, 3)]
    /\ current' = FALSE
    /\ silent' = (silent \/ ~Arg(r, 4))
    /\ Continue(r) /\ Wrote(r)
    /\ UNCHANGED <<file, now, ops, dirty, used, granted, over, bare>>

\* the row an access wrote back; a text counts here, a file when it is fetched
access_save(r) ==
    /\ Running(r, "access")
    /\ LET s == Arg(r, 2)  m == Arg(r, 3)  counts == Arg(r, 4) IN
       /\ row' = [row EXCEPT ![s] = [m EXCEPT !.count = IF counts THEN @ + 1 ELSE @]]
       /\ granted' = [granted EXCEPT ![s] = IF counts THEN @ + 1 ELSE @]
       /\ over' = (over \/ (counts /\ m.set.max # None /\ granted[s] >= m.set.max))
    /\ current' = FALSE
    /\ Continue(r) /\ Wrote(r)
    /\ UNCHANGED <<file, now, ops, dirty, silent, used, bare>>

save_temp_file(r) ==
    /\ Running(r, "store")
    /\ file' = file \cup {Arg(r, 2)}
    /\ Continue(r) /\ Wrote(r)
    /\ UNCHANGED <<row, now, ops, dirty, current, silent, used, granted, over, bare>>

\* Send::delete: the directory of a file first, and no error of it stops the row
remove_files(r) ==
    /\ Running(r, "remove")
    /\ file' = file \ {Arg(r, 2)} \/ UNCHANGED file
    /\ Continue(r) /\ Wrote(r)
    /\ UNCHANGED <<row, now, ops, dirty, current, silent, used, granted, over, bare>>

Send_delete(r) ==
    /\ Running(r, "delete")
    /\ row' = [row EXCEPT ![Arg(r, 2)] = None]
    /\ current' = (current /\ ~Exists(Arg(r, 2)))
    /\ silent' = (silent \/ ~Arg(r, 3))
    /\ Continue(r) /\ Wrote(r)
    /\ UNCHANGED <<file, now, ops, dirty, used, granted, over, bare>>

\* `told` records whether the handler announces the change
delete(s, m, told) ==
    <<<<"revision">>>> \o (IF m.atype = "File" THEN <<<<"remove", s>>>> ELSE <<>>)
                       \o <<<<"delete", s, told>>>>

\* Send::purge and Send::delete_all_by_user: the rows listed, one after another
delete_turn(r) ==
    /\ Running(r, "each")
    /\ IF Arg(r, 2) = {} THEN Continue(r)
       ELSE \E m \in Arg(r, 2) :
               Instead(r, delete(m[1], m[2], FALSE) \o <<<<"each", Arg(r, 2) \ {m}>>>>)
    /\ UNCHANGED <<row, file, now, ops, dirty, current, silent, clean, torn, used, granted, over, bare>>

size_by_user == Cardinality({s \in Sends : Exists(s) /\ row[s].atype = "File"})

quota_check(r) ==
    /\ Running(r, "quota")
    /\ IF size_by_user < Quota THEN Continue(r) ELSE todo' = [todo EXCEPT ![r] = <<>>]
    /\ UNCHANGED <<row, file, now, ops, dirty, current, silent, clean, torn, used, granted, over, bare>>

\* an error ends a handler where it stands; the purge job goes on
fail(r) ==
    /\ todo[r] # <<>>
    /\ LET loop == SelectSeq(todo[r], LAMBDA t : t[1] = "each") IN
       todo' = [todo EXCEPT ![r] = loop]
    /\ ~Running(r, "each") /\ ~Running(r, "revision")
    /\ UNCHANGED <<row, file, now, ops, dirty, current, silent, clean, torn, used, granted, over, bare>>

-----------------------------------------------------------------------------
(* Handlers.                                                               *)

\* a slot is free for another request
Idle(r) == todo[r] = <<>> /\ ops < MaxOps

Start(r, statements) ==
    /\ todo' = [todo EXCEPT ![r] = statements]
    /\ ops' = ops + 1
    /\ clean' = clean \cup {r}
    /\ UNCHANGED <<row, file, now, dirty, current, silent, torn, granted, over>>

save(s, m, told) == <<<<"revision">>, <<"save", s, m, told>>>>
notify == <<<<"revision">>>>

create_send(atype) ==
    {[atype |-> atype, pw |-> pw, set |-> set, count |-> 0] : pw \in BOOLEAN, set \in Settings}

\* a new send has an id nobody had before
Create(r, s, m, statements) ==
    /\ s \notin used /\ \A t \in Sends \ used : s <= t
    /\ Start(r, statements)
    /\ used' = used \cup {s}
    /\ bare' = IF m.pw THEN bare ELSE bare \cup {s}

post_send(r) ==
    \E s \in Sends, m \in create_send("Text") : Create(r, s, m, save(s, m, TRUE) \o notify)

\* the deprecated upload: the file is stored before its row
post_send_file(r) ==
    \E s \in Sends, m \in create_send("File") :
        Create(r, s, m, <<<<"quota">>, <<"store", s>>>> \o save(s, m, TRUE) \o notify)

\* the row is saved with the declared size, and its file is expected later
post_send_file_v2(r) ==
    \E s \in Sends, m \in create_send("File") :
        Create(r, s, m, <<<<"quota">>>> \o save(s, m, FALSE))

Same == UNCHANGED <<used, bare>>

\* a file whose name, id and size are those of the row
post_send_file_v2_data(r) ==
    \E s \in Sends :
        /\ Exists(s) /\ row[s].atype = "File"
        /\ Start(r, <<<<"store", s>>>> \o notify) /\ Same

Accessible_OneMore(m) ==
    /\ m.set.max # None => m.count <= m.set.max
    /\ m.set.exp # None => now < m.set.exp
    /\ now < m.set.del
    /\ ~m.set.disabled

\* what both access routes ask of the row; a password, when there is one, is right
Accessible(m) ==
    /\ m.set.max # None => m.count < m.set.max
    /\ m.set.exp # None => now < m.set.exp
    /\ now < m.set.del
    /\ ~m.set.disabled

Access(r, s, counts) ==
    Start(r, <<<<"revision">>, <<"access", s, row[s], counts>>>> \o notify) /\ Same

post_access(r) ==
    \E s \in Sends : Exists(s) /\ Accessible(row[s]) /\ Access(r, s, row[s].atype = "Text")

post_access_file(r) ==
    \E s \in Sends : Exists(s) /\ Accessible(row[s]) /\ Access(r, s, TRUE)

update_send_from_data_PasswordAsGiven(m, set, pw) == [m EXCEPT !.set = set, !.pw = pw]

\* the password changes only if one is given
update_send_from_data(m, set, pw) == [m EXCEPT !.set = set, !.pw = @ \/ pw]

put_send(r) ==
    \E s \in Sends, set \in Settings, pw \in BOOLEAN :
        /\ Exists(s)
        /\ Start(r, save(s, update_send_from_data(row[s], set, pw), TRUE) \o notify) /\ Same

put_remove_password(r) ==
    \E s \in Sends :
        /\ Exists(s)
        /\ Start(r, save(s, [row[s] EXCEPT !.pw = FALSE], TRUE) \o notify)
        /\ bare' = bare \cup {s} /\ UNCHANGED used

delete_send_NotTold(r) ==
    \E s \in Sends : Exists(s) /\ Start(r, notify \o delete(s, row[s], TRUE)) /\ Same

delete_send(r) ==
    \E s \in Sends : Exists(s) /\ Start(r, delete(s, row[s], TRUE) \o notify) /\ Same

purge_sends(r) ==
    LET past == {s \in Sends : Exists(s) /\ row[s].set.del < now} IN
    /\ past # {}
    /\ Start(r, <<<<"each", {<<s, row[s]>> : s \in past}>>>>) /\ Same

\* the client downloads its sends because the revision date is a later one
get_sends ==
    /\ current' = TRUE /\ dirty' = FALSE /\ silent' = FALSE
    /\ UNCHANGED <<row, file, now, todo, ops, clean, torn, used, granted, over, bare>>

Tick ==
    /\ now < MaxNow
    /\ now' = now + 1
    /\ UNCHANGED <<row, file, todo, ops, dirty, current, silent, clean, torn, used, granted, over, bare>>

Init ==
    /\ row = [s \in Sends |-> None]
    /\ file = {} /\ now = 0
    /\ todo = [r \in Requests |-> <<>>] /\ ops = 0
    /\ dirty = FALSE /\ current = TRUE /\ silent = FALSE
    /\ clean = {} /\ torn = FALSE
    /\ used = {} /\ granted = [s \in Sends |-> 0] /\ over = FALSE /\ bare = {}

Next ==
    \/ \E r \in Requests :
        \/ update_users_revision(r) \/ Send_save(r) \/ access_save(r) \/ save_temp_file(r)
        \/ remove_files(r) \/ Send_delete(r) \/ delete_turn(r) \/ quota_check(r) \/ fail(r)
        \/ Idle(r) /\ \/ post_send(r) \/ post_send_file(r) \/ post_send_file_v2(r)
                      \/ post_send_file_v2_data(r) \/ post_access(r) \/ post_access_file(r)
                      \/ put_send(r) \/ put_remove_password(r) \/ delete_send(r) \/ purge_sends(r)
    \/ get_sends \/ Tick

Spec == Init /\ [][Next]_vars

-----------------------------------------------------------------------------
(* Properties.                                                             *)

\* A send its owner protected asks for a password as long as nobody removed it:
\* no edit and no write of a stale copy opens it (Send::set_password is called
\* only for a password that was given, and by put_remove_password).
PasswordStays == \A s \in Sends : Exists(s) /\ s \notin bare => row[s].pw

\* Once the requests are answered, a client that does not see a change has a
\* reason to sync: the account's revision date moved after its last sync.  A
\* reserved upload and the purge job announce nothing, and are left out.
EditsNoticed ==
    (\A r \in Requests : todo[r] = <<>>) /\ ~current => dirty \/ silent

\* As long as no two requests write beside each other, the sizes the rows
\* declare stay within the user's limit, and no access is answered beyond the
\* count its owner set.  post_access counts on a copy of the row and size_by_user
\* adds up rows that are not there yet.
LimitsHold == ~torn => size_by_user <= Quota /\ ~over
=============================================================================
