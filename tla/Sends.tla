------------------------------- MODULE Sends -------------------------------
(* Sends: text and files that a user shares by link.  The sends table, the   *)
(* SENDS bucket of R2, the owner's handlers, the anonymous access handlers   *)
(* and the five-minute purge.                                                *)
(*                                                                           *)
(* Every statement on the table and every call on the bucket is one step.    *)
(* Between the read of a handler and its save others run, and a save writes  *)
(* back the whole row that was read, or inserts it again.                    *)
EXTENDS Naturals, FiniteSets

CONSTANTS
    Sends,     \* the uuids that Send::new may generate
    Files,     \* file ids
    Requests,  \* requests that may be in flight at once
    Bodies,    \* what the owner's clients ask for
    Parses,    \* the deletion dates that are written as RFC 3339 has it
    Hour,      \* how long a token lasts when the date is not
    Leeway,    \* how long jsonwebtoken takes a token after its expiry
    MaxLimit,  \* BOUND: the largest max_access_count a client asks for
    MaxTime,   \* BOUND: the clock stops here
    MaxGrants  \* BOUND: accesses granted per send

ASSUME BoundsAssumption ==
    /\ MaxLimit \in Nat
    /\ MaxTime \in Nat
    /\ MaxGrants \in Nat \ {0}

VARIABLES
    now,      \* the clock
    row,      \* the sends table
    objects,  \* the bucket: keys {send uuid}/{file id}
    req,      \* requests in flight, after their first statement
    cron,     \* the five-minute trigger: its now_iso, the sends it still has to
              \* list, the objects it still has to delete
    tokens,   \* SendFileClaims that were issued
    minted,   \* HISTORY: uuids in use
    granted,  \* HISTORY: accesses that were answered with the send
    want,     \* HISTORY: the settings the owner saved last
    raced,    \* HISTORY: a write of the row overlapped another, or failed
    leaked    \* HISTORY: a write of the send overlapped a sweep, or a bucket
              \* call failed

vars == <<now, row, objects, req, cron, tokens, minted, granted, want, raced, leaked>>

SEND_TYPE_TEXT == 0
SEND_TYPE_FILE == 1

NoLimit == MaxLimit + 1
Dates == 0 .. MaxTime + 1
NoRow == [atype |-> 2]

Row == [atype : {SEND_TYPE_TEXT, SEND_TYPE_FILE},
        max_access_count : 0 .. NoLimit,
        access_count : 0 .. MaxGrants,
        disabled : BOOLEAN,
        deletion_date : Dates,
        password_hash : BOOLEAN]

\* What the owner decides about a send.
Settings == [max_access_count : 0 .. NoLimit, disabled : BOOLEAN,
             deletion_date : Dates, password_hash : BOOLEAN]

SettingsOf(c) ==
    [max_access_count |-> c.max_access_count, disabled |-> c.disabled,
     deletion_date |-> c.deletion_date, password_hash |-> c.password_hash]

\* Where a request in flight is:
\*   save        put_send or remove_password is about to save its copy
\*   access      public_access is about to save its copy, counted up
\*   init        public_access_file_init is
\*   delete      delete_send is about to delete the row
\*   list        it is about to list the objects of the send
\*   drop        it is about to delete the objects it listed
\*   put_object  upload_file_send is about to write the object
Saves == {"save", "access", "init"}

IsRequest(q) ==
    /\ q.id \in Requests
    /\ q.send \in Sends
    /\ q.at \in Saves \cup {"delete", "list", "drop", "put_object"}
    /\ q.at \in Saves => q.row \in Row
    /\ q.at = "save" => q.op \in {"put", "remove_password"}
    /\ q.at = "init" => q.file \in Files
    /\ q.at = "delete" => q.was_file_send \in BOOLEAN
    /\ q.at = "drop" => q.keys \subseteq Files
    /\ q.at = "put_object" => q.file \in Files

ASSUME BodiesAssumption == Bodies \subseteq Settings

ASSUME LifetimeAssumption == Hour \in Nat /\ Leeway \in Nat

\* SendFileClaims; HISTORY: the deletion date that was read for the token, and
\* whether it was moved since.
Claims == [send : Sends, file : Files, exp : Nat, date : Dates, moved : BOOLEAN]

-----------------------------------------------------------------------------
(* Requests in flight and the table. *)

Free(r) == \A q \in req : q.id # r

Start(p) ==
    /\ Free(p.id)
    /\ req' = req \cup {p}
    /\ UNCHANGED <<now, row, objects, cron, tokens, minted, granted, want, raced, leaked>>

\* Requests other than q that will save a copy of the row of s.
OtherSavers(s, q) == {p \in req \ {q} : p.send = s /\ p.at \in Saves}

\* Send::find_by_uuid: the columns password_hash and password_salt are not
\* selected, and the fields are skipped in deserialization.
Loaded(s) == [row[s] EXCEPT !.password_hash = FALSE]

\* Send::save: the same two columns are not written.
Stored(c) == [c EXCEPT !.password_hash = FALSE]

\* HISTORY: the row of s was written by q.
Races(s, q) ==
    raced' = [raced EXCEPT ![s] = @ \/ OtherSavers(s, q) # {}]

\* HISTORY: s was written; the trigger may be between its SELECT and its DELETE.
Overlaps(s) ==
    leaked' = [leaked EXCEPT ![s] = @ \/ cron.at = "sweep"]

-----------------------------------------------------------------------------
(* The owner's handlers. *)

\* post_send and post_file_send: a new uuid, one INSERT.
Post(s, atype, c) ==
    /\ s \notin minted
    /\ minted' = minted \cup {s}
    /\ row' = [row EXCEPT ![s] =
          Stored([atype |-> atype, access_count |-> 0,
                  max_access_count |-> c.max_access_count, disabled |-> c.disabled,
                  deletion_date |-> c.deletion_date,
                  password_hash |-> c.password_hash])]
    /\ want' = [want EXCEPT ![s] = c]
    /\ UNCHANGED <<now, objects, req, cron, tokens, granted, raced, leaked>>

post_send(s, c) == Post(s, SEND_TYPE_TEXT, c)
post_file_send(s, c) == Post(s, SEND_TYPE_FILE, c)

\* MUTANT: an edit starts the count again.
put_send_CountReset(r, s, c) ==
    /\ row[s] # NoRow
    /\ Start([id |-> r, at |-> "save", send |-> s, op |-> "put",
              row |-> [Loaded(s) EXCEPT !.max_access_count = c.max_access_count,
                                        !.disabled = c.disabled,
                                        !.deletion_date = c.deletion_date,
                                        !.password_hash = c.password_hash,
                                        !.access_count = 0]])

\* put_send: load_owned, the type cannot change, every setting is replaced.  A
\* body without "disabled" is one that repeats the old value, a body without a
\* password keeps the loaded one.
put_send(r, s, c) ==
    /\ row[s] # NoRow
    /\ Start([id |-> r, at |-> "save", send |-> s, op |-> "put",
              row |-> [Loaded(s) EXCEPT !.max_access_count = c.max_access_count,
                                        !.disabled = c.disabled,
                                        !.deletion_date = c.deletion_date,
                                        !.password_hash = c.password_hash]])

remove_password(r, s) ==
    /\ row[s] # NoRow
    /\ Start([id |-> r, at |-> "save", send |-> s, op |-> "remove_password",
              row |-> [Loaded(s) EXCEPT !.password_hash = FALSE]])

\* Send::save at the end of put_send and remove_password.
save(q) ==
    /\ q.at = "save"
    /\ row' = [row EXCEPT ![q.send] = Stored(q.row)]
    /\ req' = req \ {q}
    /\ want' = [want EXCEPT ![q.send] = IF q.op = "put" /\ @.password_hash
                                       THEN [SettingsOf(q.row) EXCEPT !.password_hash = TRUE]
                                       ELSE SettingsOf(q.row)]
    /\ Races(q.send, q)
    /\ Overlaps(q.send)
    /\ tokens' = {[t EXCEPT !.moved = @ \/ (t.send = q.send /\ t.date # q.row.deletion_date)]
                     : t \in tokens}
    /\ UNCHANGED <<now, objects, cron, minted, granted>>

delete_send(r, s) ==
    /\ row[s] # NoRow
    /\ Start([id |-> r, at |-> "delete", send |-> s,
              was_file_send |-> row[s].atype = SEND_TYPE_FILE])

\* MUTANT: the objects are left behind.
delete_NoSweep(q) ==
    /\ q.at = "delete"
    /\ row' = [row EXCEPT ![q.send] = NoRow]
    /\ req' = req \ {q}
    /\ Races(q.send, q)
    /\ UNCHANGED <<now, objects, cron, tokens, minted, granted, want, leaked>>

\* Send::delete, then the sweep of a file send's objects.
delete(q) ==
    /\ q.at = "delete"
    /\ row' = [row EXCEPT ![q.send] = NoRow]
    /\ req' = (req \ {q}) \cup
              IF q.was_file_send
              THEN {[id |-> q.id, at |-> "list", send |-> q.send]} ELSE {}
    /\ Races(q.send, q)
    /\ UNCHANGED <<now, objects, cron, tokens, minted, granted, want, leaked>>

Keys(s) == {f \in Files : <<s, f>> \in objects}

\* The listing; when it fails nothing is deleted.
list(q) ==
    /\ q.at = "list"
    /\ \/ /\ req' = (req \ {q}) \cup
                    {[id |-> q.id, at |-> "drop", send |-> q.send, keys |-> Keys(q.send)]}
          /\ UNCHANGED leaked
       \/ /\ req' = req \ {q}
          /\ leaked' = [leaked EXCEPT ![q.send] = TRUE]
    /\ UNCHANGED <<now, row, objects, cron, tokens, minted, granted, want, raced>>

\* One deletion; the result of each is ignored.
drop(q) ==
    /\ q.at = "drop"
    /\ \/ q.keys = {} /\ req' = req \ {q} /\ UNCHANGED <<objects, leaked>>
       \/ \E f \in q.keys :
            /\ req' = (req \ {q}) \cup {[q EXCEPT !.keys = @ \ {f}]}
            /\ \/ objects' = objects \ {<<q.send, f>>} /\ UNCHANGED leaked
               \/ leaked' = [leaked EXCEPT ![q.send] = TRUE] /\ UNCHANGED objects
    /\ UNCHANGED <<now, row, cron, tokens, minted, granted, want, raced>>

\* upload_file_send: the row is read, the body is read, the object is written
\* under the file id of the path.
upload_file_send(r, s, f) ==
    /\ row[s].atype = SEND_TYPE_FILE
    /\ Start([id |-> r, at |-> "put_object", send |-> s, file |-> f])

put_object(q) ==
    /\ q.at = "put_object"
    /\ objects' = objects \cup {<<q.send, q.file>>}
    /\ req' = req \ {q}
    /\ leaked' = [leaked EXCEPT ![q.send] =
                     @ \/ cron.at = "sweep" \/ row[q.send] = NoRow]
    /\ UNCHANGED <<now, row, cron, tokens, minted, granted, want, raced>>

-----------------------------------------------------------------------------
(* Anonymous access. *)

\* pw: the password that was supplied is the right one.
verify_send_password(c, pw) == c.password_hash => pw

\* MUTANT: the limit is checked with > instead of >=.
Available_LimitOffByOne(c, pw) ==
    /\ ~c.disabled
    /\ c.deletion_date > now
    /\ c.max_access_count # NoLimit => c.access_count <= c.max_access_count
    /\ verify_send_password(c, pw)

\* The checks of both access handlers, on the row they read.
Available(c, pw) ==
    /\ ~c.disabled
    /\ c.deletion_date > now
    /\ c.max_access_count # NoLimit => c.access_count < c.max_access_count
    /\ verify_send_password(c, pw)

\* MUTANT: the copy that is written back has lost the limit.
CountedUp_NoLimit(s) ==
    [Loaded(s) EXCEPT !.access_count = @ + 1, !.max_access_count = NoLimit]

CountedUp(s) == [Loaded(s) EXCEPT !.access_count = @ + 1]

public_access(r, s, pw) ==
    /\ row[s] # NoRow
    /\ Available(Loaded(s), pw)
    /\ row[s].access_count < MaxGrants
    /\ Start([id |-> r, at |-> "access", send |-> s, row |-> CountedUp(s)])

public_access_file_init(r, s, f, pw) ==
    /\ row[s].atype = SEND_TYPE_FILE
    /\ Available(Loaded(s), pw)
    /\ row[s].access_count < MaxGrants
    /\ Start([id |-> r, at |-> "init", send |-> s, file |-> f, row |-> CountedUp(s)])

\* MUTANT: the token has an expiry of its own.
Token_Forever(q) ==
    [send |-> q.send, file |-> q.file, exp |-> MaxTime + Hour,
     date |-> q.row.deletion_date, moved |-> FALSE]

\* SendFileClaims::new, with the deletion date that was read; the table compares
\* dates as text, but here the text is parsed, and may not be a date of RFC 3339.
Token(q) ==
    [send |-> q.send, file |-> q.file,
     exp |-> IF q.row.deletion_date \in Parses THEN q.row.deletion_date ELSE now + Hour,
     date |-> q.row.deletion_date, moved |-> FALSE]

\* The count is saved, whether or not that succeeds the send is answered; the
\* file handler answers with a download token.
grant(q) ==
    /\ q.at \in {"access", "init"}
    /\ granted[q.send] < MaxGrants
    /\ \/ /\ row' = [row EXCEPT ![q.send] = Stored(q.row)]
          /\ Races(q.send, q)
          /\ Overlaps(q.send)
       \/ /\ raced' = [raced EXCEPT ![q.send] = TRUE]
          /\ UNCHANGED <<row, leaked>>
    /\ granted' = [granted EXCEPT ![q.send] = @ + 1]
    /\ tokens' = IF q.at = "access" THEN tokens
                 ELSE tokens \cup {Token(q)}
    /\ req' = req \ {q}
    /\ UNCHANGED <<now, objects, cron, minted, want>>

\* public_access_file_download answers t with the object.  It reads no row and
\* changes nothing; decode allows the default leeway after the expiry.
Downloads(t) == now <= t.exp + Leeway /\ <<t.send, t.file>> \in objects

\* A statement fails, or the isolate stops: the request answers an error.
fail(q) ==
    /\ req' = req \ {q}
    /\ leaked' = [leaked EXCEPT ![q.send] = @ \/ q.at \in {"list", "drop"}]
    /\ UNCHANGED <<now, row, objects, cron, tokens, minted, granted, want, raced>>

-----------------------------------------------------------------------------
(* The five-minute trigger, run_purges: one SELECT, a sweep of the bucket, one *)
(* DELETE, all with the now_iso of its start.                                  *)

Idle == [at |-> "idle"]

expired_file_send_uuids(iso) ==
    {s \in Sends : row[s].atype = SEND_TYPE_FILE /\ row[s].deletion_date <= iso}

\* When the SELECT fails the sweep is left out.
cron_select ==
    /\ cron = Idle
    /\ \/ /\ cron' = [at |-> "sweep", iso |-> now, keys |-> {},
                      todo |-> expired_file_send_uuids(now)]
          /\ UNCHANGED leaked
       \/ /\ cron' = [at |-> "sweep", iso |-> now, keys |-> {}, todo |-> {}]
          /\ leaked' = [s \in Sends |-> leaked[s] \/ s \in expired_file_send_uuids(now)]
    /\ UNCHANGED <<now, row, objects, req, tokens, minted, granted, want, raced>>

\* The objects of one send are listed, or the listing fails.
cron_list(s) ==
    /\ cron.at = "sweep" /\ cron.keys = {} /\ s \in cron.todo
    /\ \/ /\ cron' = [cron EXCEPT !.todo = @ \ {s}, !.keys = {s} \X Keys(s)]
          /\ UNCHANGED leaked
       \/ /\ cron' = [cron EXCEPT !.todo = @ \ {s}]
          /\ leaked' = [leaked EXCEPT ![s] = TRUE]
    /\ UNCHANGED <<now, row, objects, req, tokens, minted, granted, want, raced>>

\* One object is deleted; a failure is ignored.
cron_drop(k) ==
    /\ cron.at = "sweep" /\ k \in cron.keys
    /\ cron' = [cron EXCEPT !.keys = @ \ {k}]
    /\ \/ objects' = objects \ {k} /\ UNCHANGED leaked
       \/ leaked' = [leaked EXCEPT ![k[1]] = TRUE] /\ UNCHANGED objects
    /\ UNCHANGED <<now, row, req, tokens, minted, granted, want, raced>>

\* MUTANT: only the sends that were swept are deleted.
purge_expired_FilesOnly ==
    /\ cron.at = "sweep" /\ cron.keys = {} /\ cron.todo = {}
    /\ LET purged == expired_file_send_uuids(cron.iso) IN
         /\ row' = [s \in Sends |-> IF s \in purged THEN NoRow ELSE row[s]]
         /\ raced' = [s \in Sends |->
                raced[s] \/ (s \in purged /\ \E q \in req : q.send = s /\ q.at \in Saves)]
    /\ cron' = Idle
    /\ UNCHANGED <<now, objects, req, tokens, minted, granted, want, leaked>>

purge_expired ==
    /\ cron.at = "sweep" /\ cron.keys = {} /\ cron.todo = {}
    /\ LET purged == {s \in Sends : row[s] # NoRow /\ row[s].deletion_date <= cron.iso} IN
         /\ row' = [s \in Sends |-> IF s \in purged THEN NoRow ELSE row[s]]
         /\ raced' = [s \in Sends |->
                raced[s] \/ (s \in purged /\ \E q \in req : q.send = s /\ q.at \in Saves)]
    /\ cron' = Idle
    /\ UNCHANGED <<now, objects, req, tokens, minted, granted, want, leaked>>

\* The DELETE fails: the error is logged.
purge_failed ==
    /\ cron.at = "sweep" /\ cron.keys = {} /\ cron.todo = {}
    /\ cron' = Idle
    /\ UNCHANGED <<now, row, objects, req, tokens, minted, granted, want, raced, leaked>>

Tick ==
    /\ now < MaxTime
    /\ now' = now + 1
    /\ UNCHANGED <<row, objects, req, cron, tokens, minted, granted, want, raced, leaked>>

-----------------------------------------------------------------------------
(* The specification. *)

Init ==
    /\ now = 0
    /\ row = [s \in Sends |-> NoRow]
    /\ objects = {}
    /\ req = {}
    /\ cron = Idle
    /\ tokens = {}
    /\ minted = {}
    /\ granted = [s \in Sends |-> 0]
    /\ want = [s \in Sends |-> [max_access_count |-> NoLimit, disabled |-> FALSE,
                                deletion_date |-> 0, password_hash |-> FALSE]]
    /\ raced = [s \in Sends |-> FALSE]
    /\ leaked = [s \in Sends |-> FALSE]

Owner(r, s) ==
    \/ \E c \in Bodies : put_send(r, s, c)
    \/ remove_password(r, s)
    \/ delete_send(r, s)
    \/ \E f \in Files : upload_file_send(r, s, f)

Anonymous(r, s) ==
    \E pw \in BOOLEAN : \/ public_access(r, s, pw)
                        \/ \E f \in Files : public_access_file_init(r, s, f, pw)

Proceed(q) == save(q) \/ delete(q) \/ list(q) \/ drop(q) \/ put_object(q) \/ grant(q)

Cron ==
    \/ cron_select
    \/ \E s \in Sends : cron_list(s)
    \/ \E k \in Sends \X Files : cron_drop(k)
    \/ purge_expired

Next ==
    \/ \E s \in Sends, c \in Bodies : post_send(s, c) \/ post_file_send(s, c)
    \/ \E r \in Requests, s \in Sends : Owner(r, s) \/ Anonymous(r, s)
    \/ \E q \in req : Proceed(q) \/ fail(q)
    \/ Cron \/ purge_failed
    \/ Tick

Spec == Init /\ [][Next]_vars

\* The trigger fires again and again and its DELETE does not fail for ever.
Fairness == WF_vars(Cron) /\ SF_vars(purge_expired)

FairSpec == Spec /\ Fairness

-----------------------------------------------------------------------------
(* Properties. *)

\* Every variable holds a value of its type.
TypeOK ==
    /\ now \in 0 .. MaxTime
    /\ row \in [Sends -> Row \cup {NoRow}]
    /\ objects \subseteq Sends \X Files
    /\ \A q \in req : IsRequest(q)
    /\ cron = Idle \/ /\ cron.at = "sweep" /\ cron.iso \in 0 .. MaxTime
                      /\ cron.todo \subseteq Sends /\ cron.keys \subseteq Sends \X Files
    /\ tokens \subseteq Claims
    /\ minted \subseteq Sends
    /\ granted \in [Sends -> 0 .. MaxGrants]
    /\ want \in [Sends -> Settings]
    /\ raced \in [Sends -> BOOLEAN]
    /\ leaked \in [Sends -> BOOLEAN]

\* As long as no write of a send overlapped another, its access_count is the
\* number of accesses that were granted, whatever edits came between.  It never
\* runs ahead of them, even after lost updates: no send is closed early.
CountExact ==
    \A s \in Sends : row[s] # NoRow =>
        /\ row[s].access_count <= granted[s]
        /\ ~raced[s] => row[s].access_count = granted[s]

\* As long as no write of a send overlapped another, it has the limit, the
\* deletion date and the disabled flag that its owner saved last: the saves of
\* the access handlers put none of them back.
SettingsHold ==
    \A s \in Sends : row[s] # NoRow /\ ~raced[s] =>
        /\ row[s].max_access_count = want[s].max_access_count
        /\ row[s].disabled = want[s].disabled
        /\ row[s].deletion_date = want[s].deletion_date

\* No object outlives its send: it has a row, or the handler that deleted the
\* row is about to delete it, or a write overlapped the sweep or a call failed.
ObjectsOwned ==
    \A k \in objects :
        \/ row[k[1]] # NoRow
        \/ leaked[k[1]]
        \/ \E q \in req : /\ q.send = k[1]
                          /\ q.at = "list" \/ (q.at = "drop" /\ k[2] \in q.keys)

\* An access is granted at most max_access_count times, as long as no write of
\* the send overlapped another.
GrantsWithin ==
    \A s \in Sends : granted'[s] > granted[s] /\ ~raced'[s] /\ row'[s] # NoRow =>
        \/ row'[s].max_access_count = NoLimit
        \/ granted'[s] <= row'[s].max_access_count

\* A file can be downloaded, by a handler that reads no row, only until its
\* send's deletion date and the leeway of the decoder; when the date does not
\* parse, a link has never more than an hour to go.  Unless the date was moved
\* after the token was issued, or writes of the send overlapped.
DownloadsEnd ==
    \A t \in tokens : Downloads(t) /\ ~t.moved /\ row[t.send] # NoRow /\ ~raced[t.send] =>
        IF row[t.send].deletion_date \in Parses
        THEN now <= row[t.send].deletion_date + Leeway
        ELSE t.exp <= now + Hour

\* The worker counts every access it grants and the row keeps what the owner
\* saved last, unless two writes of the row overlapped; and then it grants none
\* beyond the limit.
AccessesCounted == [][GrantsWithin /\ (CountExact /\ SettingsHold)']_vars

\* An object belongs to a send, and a link to download one ends with the send's
\* date or within the hour, except where a write or a deletion overlapped or
\* failed.
SendFilesAccounted == ObjectsOwned /\ DownloadsEnd

\* A send whose deletion date has passed is deleted by the trigger, unless its
\* owner moves the date.
ExpiredPurged ==
    \A s \in Sends :
        (row[s] # NoRow /\ row[s].deletion_date <= now)
          ~> (row[s] = NoRow \/ row[s].deletion_date > now)

\* "Hash and persist a send password": a send saved with a password has one.
PasswordPersisted ==
    \A s \in Sends : row[s] # NoRow /\ want[s].password_hash => row[s].password_hash
=============================================================================
