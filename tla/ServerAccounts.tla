--------------------------- MODULE ServerAccounts ---------------------------
(***************************************************************************)
(* One account of the Rocket server, its devices and its tokens.           *)
(*                                                                         *)
(* Source: src/auth.rs (the Headers guard, refresh_tokens),                *)
(* src/api/identity.rs (the grants), src/api/core/accounts.rs and the      *)
(* other handlers that save the users row, src/db/models/user.rs and       *)
(* device.rs.                                                              *)
(*                                                                         *)
(* What differs from the worker: a new security stamp rotates the refresh  *)
(* token of every device, one row at a time and before the users row is    *)
(* saved; a password change leaves an exception, for two minutes, for the  *)
(* route that the same client calls next; neither the guard nor a refresh  *)
(* asks whether the account is enabled.                                    *)
(*                                                                         *)
(* Each closure that conn.run executes is a step; a handler is several.    *)
(***************************************************************************)
EXTENDS Integers, FiniteSets

CONSTANTS
    Devices,        \* device identifiers
    Requests,       \* slots for requests in flight
    MaxOps,         \* BOUND: requests started
    MaxFresh        \* BOUND: the last random value that is generated

None == 0
Values == 1..MaxFresh

VARIABLES
    user,       \* the users row
    device,     \* the refresh token of each device, None where there is no row
    access,     \* access tokens handed out: claims.device and claims.sstamp
    req,        \* requests in flight, with the rows they have read
    fresh,      \* the last value generated
    ops,        \* requests started
    goneUser,   \* HISTORY: column values rotated away while no request held them
    goneToken,  \* HISTORY: refresh tokens replaced, or reset, in the same way
    raced,      \* HISTORY: refresh tokens written by a stale copy, or by one reset
                \* during another
    ban         \* HISTORY: whether an administrator disabled the account

vars == <<user, device, access, req, fresh, ops, goneUser, goneToken, raced, ban>>

\* The columns of the row: whether it is enabled, its security stamp, one number
\* for the other credentials (the password and the API key), and the old stamp
\* that the stamp exception admits.  An exception lasts two minutes: as requests
\* take any time, the guard may find one expired whenever it looks.

\* A request is "at" the statement it runs next:
\*   user      Headers has found the device and reads the user
\*   first     deauth_user deletes the devices before it rotates
\*   rotate    reset_security_stamp looks for the devices
\*   rotating  it saves those that are left
\*   save      the changed copy "row" is about to be saved
\*   last      post_sstamp and disable_user delete the devices
\*   find, push          put_device_token looks for the device, saves it
\*   get_device, create  a login looks for its device, saves a new one
\*   login               it saves the device it has
\*   refresh, reread, refreshed  the three statements of a refresh
HoldsRow == {"first", "rotate", "rotating", "save"}
HoldsToken == {"push", "login", "refresh", "reread", "refreshed"}

-----------------------------------------------------------------------------
Free(r) == \A q \in req : q.id # r

Start(p) == req' = req \cup {p}
Continue(q, p) == req' = (req \ {q}) \cup {p}
Finish(q) == req' = req \ {q}

Tables == <<user, device, access>>
History == <<goneUser, goneToken, raced, ban>>

\* HISTORY: what leaves the users row for good when q saves its copy.
Columns == {"stamp", "secret"}

GoneAfterSave(q) ==
    LET held(c) == {p.row[c] : p \in {x \in req \ {q} : x.at \in HoldsRow}} \cup {q.row[c]}
    IN  goneUser \cup {<<c, user[c]>> : c \in {x \in Columns : user[x] \notin held(x)}}

\* HISTORY: what leaves the devices table when q writes the rows ds.
Held(q, d) ==
    {p.tok : p \in {x \in req \ {q} : x.at \in HoldsToken \cup {"create"} /\ x.dev = d}}
        \cup {p.row.stamp : p \in {x \in req \ {q} : x.at \in HoldsRow}}

GoneTokens(q, ds) ==
    goneToken \cup {<<d, device[d]>> : d \in {x \in ds :
        device'[x] # device[x] /\ device[x] \notin Held(q, x) \cup {None}}}

\* HISTORY: what a new stamp ends: the refresh tokens generated before it that no
\* request holds, and that no stale copy wrote back.
TokensReset(q) ==
    {x \in Devices \X (1..(q.row.stamp - 1)) : x[2] \notin Held(q, x[1]) /\ x \notin raced}

-----------------------------------------------------------------------------
(* The Headers guard. *)

\* Device::find_by_uuid_and_user.
guard_device(r, a) ==
    /\ device[a.device] # None
    /\ Start([id |-> r, at |-> "user", dev |-> a.device, stamp |-> a.stamp])
    /\ UNCHANGED <<Tables, fresh, History>>

\* The user is read, and its stamp is that of the claims; or the stamp
\* exception has not expired, names the route, and has the stamp of the claims.
Admitted(q, route) ==
    \/ user.stamp = q.stamp
    \/ user.exc = q.stamp /\ route = "post_rotatekey"

\* Any other stamp is refused.
guard_refused(q) ==
    /\ user.stamp # q.stamp
    /\ Finish(q)
    /\ UNCHANGED <<Tables, fresh, History>>

\* An exception that has expired is removed: the copy is saved without it.
guard_expired(q) ==
    /\ user.stamp # q.stamp
    /\ user.exc # None
    /\ Continue(q, [id |-> q.id, at |-> "save", op |-> "save",
                    row |-> [user EXCEPT !.exc = None]])
    /\ UNCHANGED <<Tables, fresh, History>>

-----------------------------------------------------------------------------
(* Handlers that change headers.user. *)

\* The copy u goes to the statement "at"; n random values were taken for it.
Work(id, at, op, u) == [id |-> id, at |-> at, op |-> op, row |-> u]

Generate == fresh < MaxFresh /\ fresh' = fresh + 1

Edit(q, u) ==
    /\ Admitted(q, "other")
    /\ Continue(q, Work(q.id, "save", "save", u))
    /\ UNCHANGED <<Tables, History>>

\* Columns that no check here reads.
post_profile(q) == Edit(q, user) /\ UNCHANGED fresh
put_avatar(q) == Edit(q, user) /\ UNCHANGED fresh
post_keys(q) == Edit(q, user) /\ UNCHANGED fresh
post_settings_domains(q) == Edit(q, user) /\ UNCHANGED fresh
post_email_token(q) == Edit(q, user) /\ UNCHANGED fresh
generate_recover_code(q) == Edit(q, user) /\ UNCHANGED fresh
\* kdf_upgrade hashes the same password again.
verify_password(q) == Edit(q, user) /\ UNCHANGED fresh

\* A key that exists and is not to rotate is answered and nothing is saved.
update_api_key(q) == Edit(q, [user EXCEPT !.secret = fresh + 1]) /\ Generate

\* reset_security_stamp and set_password: the copy, before the devices rotate.
reset_security_stamp(u) == [u EXCEPT !.stamp = fresh + 1]

set_password(u) == [reset_security_stamp(u) EXCEPT !.secret = fresh + 1]

set_stamp_exception(u) ==
    [u EXCEPT !.exc = user.stamp]

Reset(q, route, op, u) ==
    /\ Admitted(q, route)
    /\ Generate
    /\ Continue(q, Work(q.id, "rotate", op, u))
    /\ UNCHANGED <<Tables, History>>

post_password(q) == Reset(q, "post_password", "reset", set_stamp_exception(set_password(user)))
post_kdf(q) == Reset(q, "post_kdf", "reset", set_password(user))
post_email(q) == Reset(q, "post_email", "reset", set_password(user))
post_sstamp(q) == Reset(q, "post_sstamp", "sweep", reset_security_stamp(user))
\* The items it saves before the user are a matter of KeyRotation.
post_rotatekey(q) == Reset(q, "post_rotatekey", "reset", set_password(user))

-----------------------------------------------------------------------------
(* Handlers that read the account's row themselves. *)

Load(r, at, op, u) ==
    /\ Start(Work(r, at, op, u))
    /\ UNCHANGED <<Tables, History>>

post_verify_email_token(r) == Load(r, "save", "save", user) /\ UNCHANGED fresh
remove_2fa(r) == Load(r, "save", "save", user) /\ UNCHANGED fresh
put_reset_password(r) == Load(r, "rotate", "reset", set_password(user)) /\ Generate
password_emergency_access(r) == Load(r, "rotate", "reset", set_password(user)) /\ Generate
deauth_user(r) == Load(r, "first", "reset", reset_security_stamp(user)) /\ Generate

disable_user(r) ==
    /\ Load(r, "rotate", "disable", [reset_security_stamp(user) EXCEPT !.enabled = FALSE])
    /\ Generate

enable_user(r) == Load(r, "save", "enable", [user EXCEPT !.enabled = TRUE]) /\ UNCHANGED fresh

-----------------------------------------------------------------------------
(* The statements these handlers share. *)

\* Device::find_by_user, in rotate_refresh_tokens_by_user.
rotate_find(q) ==
    /\ q.at = "rotate"
    /\ LET ds == {d \in Devices : device[d] # None}
       IN  Continue(q, IF ds = {} THEN [q EXCEPT !.at = "save"]
                       ELSE [id |-> q.id, at |-> "rotating", op |-> q.op, row |-> q.row,
                             left |-> ds])
    /\ UNCHANGED <<Tables, fresh, History>>

\* MUTANT: the copy is saved as it was read.
rotate_save_Stale(q, d) ==
    /\ q.at = "rotating"
    /\ d \in q.left
    /\ Continue(q, IF q.left = {d} THEN Work(q.id, "save", q.op, q.row)
                   ELSE [q EXCEPT !.left = @ \ {d}])
    /\ UNCHANGED <<Tables, fresh, History>>

\* Device::save of the next device with a token of its own: a device deleted
\* since it was found is inserted again.
rotate_save(q, d) ==
    /\ q.at = "rotating"
    /\ d \in q.left
    /\ device' = [device EXCEPT ![d] = q.row.stamp]
    /\ Continue(q, IF q.left = {d} THEN Work(q.id, "save", q.op, q.row)
                   ELSE [q EXCEPT !.left = @ \ {d}])
    /\ goneToken' = GoneTokens(q, {d})
    /\ raced' = IF \E p \in req \ {q} : p.at \in HoldsRow
                THEN raced \cup {<<d, q.row.stamp>>} ELSE raced
    /\ UNCHANGED <<user, access, fresh, goneUser, ban>>

\* User::save: every column of the copy is written.
save_user(q) ==
    /\ q.at = "save"
    /\ user' = q.row
    /\ goneUser' = GoneAfterSave(q)
    /\ goneToken' = goneToken \cup IF q.op \in {"reset", "sweep", "disable"} THEN TokensReset(q) ELSE {}
    /\ ban' = IF q.op = "enable" THEN "none" ELSE ban
    /\ IF q.op \in {"sweep", "disable"}
       THEN Continue(q, [q EXCEPT !.at = "last"])
       ELSE Finish(q)
    /\ UNCHANGED <<device, access, fresh, raced>>

\* Device::delete_all_by_user.
DeleteAll(q) ==
    /\ device' = [d \in Devices |-> None]
    /\ goneToken' = GoneTokens(q, Devices)
    /\ UNCHANGED <<user, access, fresh, goneUser, raced>>

delete_first(q) ==
    /\ q.at = "first"
    /\ DeleteAll(q)
    /\ Continue(q, [q EXCEPT !.at = "rotate"])
    /\ UNCHANGED ban

\* HISTORY: the ban is "quiet" if disable_user ends as the only request.
delete_last(q) ==
    /\ q.at = "last"
    /\ DeleteAll(q)
    /\ Finish(q)
    /\ ban' = IF q.op = "disable"
              THEN IF req = {q} /\ user = q.row THEN "quiet" ELSE "raced"
              ELSE ban

-----------------------------------------------------------------------------
(* put_device_token: the guard's device is read again and saved. *)

put_device_token(q) ==
    /\ Admitted(q, "put_device_token")
    /\ Continue(q, [id |-> q.id, at |-> "find", dev |-> q.dev])
    /\ UNCHANGED <<Tables, fresh, History>>

\* There is no such device, or it has this push token already.
find(q) ==
    /\ q.at = "find"
    /\ \/ Finish(q)
       \/ device[q.dev] # None /\ Continue(q, [id |-> q.id, at |-> "push", dev |-> q.dev, tok |-> device[q.dev]])
    /\ UNCHANGED <<Tables, fresh, History>>

\* HISTORY: the copy differs from the row, or is new while a stamp is reset.
Stale(q) ==
    /\ q.tok # device[q.dev]
    /\ q.at = "create" => \E p \in req : p.at \in HoldsRow

\* Device::save: a copy is written, its refresh token included.
WriteDevice(q) ==
    /\ device' = [device EXCEPT ![q.dev] = q.tok]
    /\ goneToken' = GoneTokens(q, {q.dev})
    /\ raced' = IF Stale(q) THEN raced \cup {<<q.dev, q.tok>>} ELSE raced
    /\ UNCHANGED <<user, fresh, goneUser, ban>>

\* put_device_token, and register_push_device once more, save the same copy.
save_push(q) ==
    /\ q.at = "push"
    /\ WriteDevice(q)
    /\ Finish(q) \/ UNCHANGED req
    /\ UNCHANGED access

-----------------------------------------------------------------------------
(* The grants. *)

\* MUTANT: the enabled column is not looked at, as in a refresh.
Login_Disabled(r, d) ==
    /\ Start([id |-> r, at |-> "get_device", dev |-> d, stamp |-> user.stamp])
    /\ UNCHANGED <<Tables, fresh, History>>

Login(r, d) ==
    /\ user.enabled
    /\ Start([id |-> r, at |-> "get_device", dev |-> d, stamp |-> user.stamp])
    /\ UNCHANGED <<Tables, fresh, History>>

\* The credentials match the row; the two-factor challenge is ServerTwoFactor's.
password_login(r, d) == Login(r, d)
user_api_key_login(r, d) == Login(r, d)
sso_login(r, d) == Login(r, d)

\* A password login of an account whose hash has too few iterations, or whose
\* address is not verified, first saves the copy; the second then fails.
kdf_upgrade(r) == user.enabled /\ Load(r, "save", "save", user) /\ UNCHANGED fresh
verify_reminder(r) == user.enabled /\ Load(r, "save", "save", user) /\ UNCHANGED fresh

get_device(q) ==
    /\ q.at = "get_device"
    /\ IF device[q.dev] # None
       THEN /\ Continue(q, [id |-> q.id, at |-> "login", dev |-> q.dev,
                            stamp |-> q.stamp, tok |-> device[q.dev]])
            /\ UNCHANGED fresh
       ELSE /\ Generate
            /\ Continue(q, [id |-> q.id, at |-> "create", dev |-> q.dev,
                            stamp |-> q.stamp, tok |-> fresh + 1])
    /\ UNCHANGED <<Tables, History>>

create_device(q) ==
    /\ q.at = "create"
    /\ WriteDevice(q)
    /\ Continue(q, [q EXCEPT !.at = "login"])
    /\ UNCHANGED access

\* authenticated_response: the copy is saved, perhaps twice, and the claims
\* carry the stamp of the user that was read.
authenticated_response(q) ==
    /\ q.at = "login"
    /\ WriteDevice(q)
    /\ access' = access \cup {[device |-> q.dev, stamp |-> q.stamp]}
    /\ Finish(q)

register_push_device(q) ==
    /\ q.at = "login"
    /\ WriteDevice(q)
    /\ UNCHANGED <<access, req>>

\* refresh_tokens: the device by its token, saved; the user, enabled or not;
\* refresh_login saves the same copy again.
refresh_tokens(r, d) ==
    /\ device[d] # None
    /\ Start([id |-> r, at |-> "refresh", dev |-> d, tok |-> device[d]])
    /\ UNCHANGED <<Tables, fresh, History>>

refresh_save(q) ==
    /\ q.at = "refresh"
    /\ WriteDevice(q)
    /\ Continue(q, [q EXCEPT !.at = "reread"])
    /\ UNCHANGED access

refresh_user(q) ==
    /\ q.at = "reread"
    /\ Continue(q, [id |-> q.id, at |-> "refreshed", dev |-> q.dev, tok |-> q.tok,
                    stamp |-> user.stamp])
    /\ UNCHANGED <<Tables, fresh, History>>

refresh_login(q) ==
    /\ q.at = "refreshed"
    /\ WriteDevice(q)
    /\ access' = access \cup {[device |-> q.dev, stamp |-> q.stamp]}
    /\ Finish(q)

-----------------------------------------------------------------------------
\* A statement fails and the handler answers an error; post_sstamp and
\* disable_user delete the devices even if the user was not saved.
fail(q) ==
    /\ IF q.at = "save" /\ q.op \in {"sweep", "disable"}
       THEN Continue(q, [q EXCEPT !.at = "last"])
       ELSE Finish(q)
    /\ UNCHANGED <<Tables, fresh, History>>

Init ==
    /\ user = [enabled |-> TRUE, stamp |-> 1, secret |-> 1, exc |-> None]
    /\ device = [d \in Devices |-> 1]
    /\ access = {[device |-> d, stamp |-> 1] : d \in Devices}
    /\ req = {}
    /\ fresh = 1 /\ ops = 0
    /\ goneUser = {} /\ goneToken = {} /\ raced = {}
    /\ ban = "none"

Begin(r) ==
    \/ \E a \in access : guard_device(r, a)
    \/ post_verify_email_token(r) \/ remove_2fa(r) \/ put_reset_password(r)
    \/ password_emergency_access(r) \/ deauth_user(r) \/ disable_user(r) \/ enable_user(r)
    \/ kdf_upgrade(r) \/ verify_reminder(r)
    \/ \E d \in Devices : \/ password_login(r, d) \/ user_api_key_login(r, d)
                          \/ sso_login(r, d) \/ refresh_tokens(r, d)

Handle(q) ==
    \/ guard_refused(q) \/ guard_expired(q)
    \/ post_profile(q) \/ put_avatar(q) \/ post_keys(q) \/ post_settings_domains(q)
    \/ post_email_token(q) \/ generate_recover_code(q) \/ verify_password(q)
    \/ update_api_key(q)
    \/ post_password(q) \/ post_kdf(q) \/ post_email(q) \/ post_sstamp(q) \/ post_rotatekey(q)
    \/ put_device_token(q)

Statement(q) ==
    \/ rotate_find(q) \/ \E d \in Devices : rotate_save(q, d)
    \/ save_user(q) \/ delete_first(q) \/ delete_last(q)
    \/ find(q) \/ save_push(q)
    \/ get_device(q) \/ create_device(q) \/ authenticated_response(q) \/ register_push_device(q)
    \/ refresh_save(q) \/ refresh_user(q) \/ refresh_login(q)

Next ==
    \/ /\ ops < MaxOps /\ ops' = ops + 1
       /\ \E r \in Requests : Free(r) /\ Begin(r)
    \/ /\ UNCHANGED ops
       /\ \E q \in req : (q.at = "user" /\ Handle(q)) \/ Statement(q) \/ fail(q)

Spec == Init /\ [][Next]_vars

-----------------------------------------------------------------------------
\* A stamp, password, API key or refresh token of the server's account that was
\* replaced while no request in flight held a copy of it is never stored again,
\* and a new stamp ends every refresh token generated before it but those that
\* a request in flight holds or has written back: whatever handlers and failures
\* follow, none of them opens a session.
ServerRotationHolds ==
    /\ \A c \in Columns : <<c, user[c]>> \notin goneUser
    /\ \A d \in Devices : device[d] # None => <<d, device[d]>> \notin goneToken

\* An account that disable_user disabled while no other request was in flight
\* is shut out until enable_user: it stays disabled, and no device, refresh
\* token or session of it exists, although neither the guard nor a refresh
\* looks at the enabled column.
DisabledShutsOut ==
    ban = "quiet" => /\ ~user.enabled
                     /\ \A d \in Devices : device[d] = None
                     /\ \A q \in req : q.at \notin {"user", "login", "refreshed"}

\* What was rotated or disabled without an overlapping request opens no session.
ServerSessionsHold == ServerRotationHolds /\ DisabledShutsOut
=============================================================================
