----------------------------- MODULE Sessions -----------------------------
(***************************************************************************)
(* One account, its devices and the tokens that give access to it.         *)
(*                                                                         *)
(* Source: worker/src/auth.rs (the Headers guard), api/identity.rs (the    *)
(* grants), api/devices.rs, and every handler that saves the users row:    *)
(* api/accounts.rs, api/meta.rs, api/admin.rs, api/two_factor.rs,          *)
(* api/organizations.rs, api/emergency_access.rs.                          *)
(*                                                                         *)
(* User::save and Device::save write every column.  A handler that changes *)
(* one column of a row it read earlier also writes back what the others    *)
(* held at that time.  Statements are atomic and handlers are not: each    *)
(* awaited statement is a step of its own.                                 *)
(*                                                                         *)
(* Accounts do not interact here: no statement below reads or writes the   *)
(* rows of two users, so one account is modelled.                          *)
(***************************************************************************)
EXTENDS Integers, FiniteSets

CONSTANTS
    Devices,        \* device identifiers
    Requests,       \* slots for requests in flight
    MaxFresh        \* BOUND: the last random value that is generated

ASSUME FreshAssumption == MaxFresh \in Nat /\ MaxFresh >= 2

\* Security stamps, master passwords, API keys and refresh tokens come from one
\* supply of numbers: each is random, and none is generated twice.
None == 0

VARIABLES
    user,       \* the users row
    device,     \* the refresh token of each device, None where there is no row
    access,     \* access tokens handed out: claims.device and claims.sstamp
    req,        \* requests in flight, with the rows they have read
    fresh,      \* the last value generated
    fate,       \* HISTORY: which values were rotated away, and how
    ban,        \* HISTORY: whether an administrator disabled the account
    out         \* HISTORY: whether each device was signed out

vars == <<user, device, access, req, fresh, fate, ban, out>>

Values == 1..MaxFresh

User == [enabled : BOOLEAN, stamp : Values, password : Values,
         api_key : Values \cup {None}]

Secrets(u) == {u.stamp, u.password, u.api_key} \ {None}

\* A request in flight is a record of what it remembers, "at" the statement it
\* runs next:
\*   guard      Headers has read the user row and now looks for the device
\*   find       a device handler looks for the device it is about
\*   save_user  the changed copy "row" is about to be saved
\*   sweep      admin_deauth_user is about to delete the devices
\*   save_push  a device row, read with refresh token "old", is about to be
\*              saved with another push token
\*   delete     a device row that was found is about to be deleted
\*   read_user  refresh_grant has found the device and now reads the user
\*   refresh    it is about to save the device with a new refresh token
\*   login      another grant is about to do the same
HoldsRow == {"guard", "save_user", "refresh", "login"}
HoldsDevice == {"guard", "find", "save_push", "delete", "read_user", "refresh", "login"}

IsRequest(q) ==
    /\ q.id \in Requests
    /\ q.at \in HoldsRow \cup HoldsDevice \cup {"sweep"}
    /\ q.at \in HoldsRow => q.row \in User
    /\ q.at \in HoldsDevice => q.dev \in Devices
    /\ q.at = "save_user" => q.op \in {"user", "enable", "disable", "deauth"}
    /\ q.at = "find" => q.op \in {"push", "delete"}
    /\ q.at = "save_push" => q.old \in Values

-----------------------------------------------------------------------------
(* Requests in flight. *)

Free(r) == \A q \in req : q.id # r

\* A new request, whose first statement was a read.
Start(p) ==
    /\ Free(p.id)
    /\ req' = req \cup {p}
    /\ UNCHANGED <<user, device, access, fate, ban, out>>

\* The request q goes on to its next statement, as p.
Continue(q, p) ==
    /\ req' = (req \ {q}) \cup {p}
    /\ UNCHANGED <<user, device, access, fate, ban, out>>

\* The request q answers, with an error or with what it read.
Finish(q) ==
    /\ req' = req \ {q}
    /\ UNCHANGED <<user, device, access, fresh, fate, ban, out>>

\* The next n random values are taken.
Generate(n) == /\ fresh + n <= MaxFresh
               /\ fresh' = fresh + n

\* Copies of the user row that will be written back, other than q's.
OtherCopies(q) == {p \in req \ {q} : p.at \in {"guard", "save_user"}}

\* Requests that will write the row of device d although no one logs in.
DeviceWriters(d) ==
    {p \in req : /\ p.at \in {"save_push", "read_user", "refresh"}
                 /\ p.dev = d}

\* HISTORY: a value that left the tables is "retired" if no request in flight
\* holds a copy of it that it will write back.  If one does, it is "revoked" if
\* it is the stamp of an access token, "raced" otherwise.
FateAfter(lost, held) ==
    [v \in Values |->
        IF v \notin lost THEN fate[v]
        ELSE IF v \notin held THEN "retired"
        ELSE IF \E a \in access : a.stamp = v THEN "revoked" ELSE "raced"]

HeldTokens(q) == {p.old : p \in {x \in req \ {q} : x.at = "save_push"}}

\* HISTORY: out[d] is "quiet" once the row of d was deleted while no request in
\* flight was to write it, "raced" if delete_device deleted it while one was,
\* and "no" again after a login.
SignedOut(d, otherwise) == IF DeviceWriters(d) = {} THEN "quiet" ELSE otherwise

-----------------------------------------------------------------------------
(* The Headers guard of every authenticated route. *)

\* Its first read: the user row, with the stamp and enabled checks.
guard(r, a) ==
    /\ user.stamp = a.stamp
    /\ user.enabled
    /\ Start([id |-> r, at |-> "guard", row |-> user, dev |-> a.device])
    /\ UNCHANGED fresh

\* Its second read: the device.
DeviceFound(q) == q.at = "guard" /\ device[q.dev] # None

device_not_found(q) ==
    /\ q.at = "guard"
    /\ device[q.dev] = None
    /\ Finish(q)

-----------------------------------------------------------------------------
(* Handlers that save headers.user, the row the guard read. *)

Edit(q, u) ==
    /\ DeviceFound(q)
    /\ Continue(q, [id |-> q.id, at |-> "save_user", row |-> u, op |-> "user"])

\* Columns that no check here reads.
put_profile(q) == Edit(q, q.row) /\ UNCHANGED fresh
set_avatar(q) == Edit(q, q.row) /\ UNCHANGED fresh
set_account_keys(q) == Edit(q, q.row) /\ UNCHANGED fresh
settings_domains_save(q) == Edit(q, q.row) /\ UNCHANGED fresh
request_email_change(q) == Edit(q, q.row) /\ UNCHANGED fresh
ensure_recovery_code(q) == Edit(q, q.row) /\ UNCHANGED fresh

\* MUTANT: the new stamp is not random.
NewStamp_Fixed(u) == [u EXCEPT !.stamp = 1]

NewStamp(u) == [u EXCEPT !.stamp = fresh + 1]
NewPassword(u) == [u EXCEPT !.stamp = fresh + 1, !.password = fresh + 2]

rotate_security_stamp(q) == Edit(q, NewStamp(q.row)) /\ Generate(1)
rotate_user_account_keys(q) == Edit(q, NewStamp(q.row)) /\ Generate(1)

\* The master password the client sends must be the one of the copy.
change_password(q) == Edit(q, NewPassword(q.row)) /\ Generate(2)
change_kdf(q) == Edit(q, NewPassword(q.row)) /\ Generate(2)
change_email(q) == Edit(q, NewPassword(q.row)) /\ Generate(2)

\* A key that exists is answered and nothing is saved.
get_or_create_api_key(q) ==
    /\ DeviceFound(q)
    /\ IF q.row.api_key # None
       THEN Finish(q)
       ELSE /\ Edit(q, [q.row EXCEPT !.api_key = fresh + 1])
            /\ Generate(1)

rotate_api_key(q) == Edit(q, [q.row EXCEPT !.api_key = fresh + 1]) /\ Generate(1)

-----------------------------------------------------------------------------
(* Handlers that read the account's row themselves. *)

Load(r, u, op) ==
    Start([id |-> r, at |-> "save_user", row |-> u, op |-> op])

\* MUTANT: verifying the address activates the account.
verify_email_token_Activates(r) ==
    Load(r, [user EXCEPT !.enabled = TRUE], "user") /\ UNCHANGED fresh

verify_email_token(r) == Load(r, user, "user") /\ UNCHANGED fresh
recover(r) == Load(r, NewStamp(user), "user") /\ Generate(1)
reset_password(r) == Load(r, NewPassword(user), "user") /\ Generate(2)
takeover_password(r) == Load(r, NewPassword(user), "user") /\ Generate(2)

admin_disable_user(r) ==
    /\ Load(r, [NewStamp(user) EXCEPT !.enabled = FALSE], "disable")
    /\ Generate(1)

admin_enable_user(r) ==
    /\ Load(r, [user EXCEPT !.enabled = TRUE], "enable")
    /\ UNCHANGED fresh

admin_deauth_user(r) == Load(r, NewStamp(user), "deauth") /\ Generate(1)

\* User::save: every column of the copy is written.
save_user(q) ==
    /\ q.at = "save_user"
    /\ user' = q.row
    /\ req' = (req \ {q}) \cup
               IF q.op = "deauth" THEN {[id |-> q.id, at |-> "sweep"]} ELSE {}
    /\ fate' = FateAfter(Secrets(user) \ Secrets(q.row),
                         UNION {Secrets(p.row) : p \in OtherCopies(q)})
    /\ ban' = CASE q.op = "disable" ->
                        IF \E p \in OtherCopies(q) : p.row.enabled
                        THEN "raced" ELSE "quiet"
                [] q.op = "enable" -> "none"
                [] OTHER -> ban
    /\ UNCHANGED <<device, access, fresh, out>>

\* admin_deauth_user's second statement: DELETE FROM devices.
sweep(q) ==
    /\ q.at = "sweep"
    /\ device' = [d \in Devices |-> None]
    /\ req' = req \ {q}
    /\ fate' = FateAfter({device[d] : d \in Devices} \ {None}, HeldTokens(q))
    /\ out' = [d \in Devices |-> SignedOut(d, "no")]
    /\ UNCHANGED <<user, access, fresh, ban>>

-----------------------------------------------------------------------------
(* Device handlers: the guard's device, then the device of the path. *)

DeviceHandler(q, d, op) ==
    /\ DeviceFound(q)
    /\ Continue(q, [id |-> q.id, at |-> "find", dev |-> d, op |-> op])
    /\ UNCHANGED fresh

\* clear_push_token differs only in the push columns, which nothing here reads.
set_push_token(q, d) == DeviceHandler(q, d, "push")
clear_push_token(q, d) == DeviceHandler(q, d, "push")
delete_device(q, d) == DeviceHandler(q, d, "delete")

find(q) ==
    /\ q.at = "find"
    /\ device[q.dev] # None
    /\ Continue(q, IF q.op = "push"
                   THEN [id |-> q.id, at |-> "save_push", dev |-> q.dev,
                         old |-> device[q.dev]]
                   ELSE [id |-> q.id, at |-> "delete", dev |-> q.dev])
    /\ UNCHANGED fresh

find_none(q) == q.at = "find" /\ device[q.dev] = None /\ Finish(q)

\* Device::save by set_push_token and clear_push_token: an upsert that also
\* writes the refresh token of the copy.
save_push(q) ==
    /\ q.at = "save_push"
    /\ device' = [device EXCEPT ![q.dev] = q.old]
    /\ req' = req \ {q}
    /\ fate' = FateAfter({device[q.dev]} \ {q.old, None}, HeldTokens(q))
    /\ UNCHANGED <<user, access, fresh, ban, out>>

\* Device::delete.
delete(q) ==
    /\ q.at = "delete"
    /\ device' = [device EXCEPT ![q.dev] = None]
    /\ req' = req \ {q}
    /\ fate' = FateAfter({device[q.dev]} \ {None}, HeldTokens(q))
    /\ out' = [out EXCEPT ![q.dev] = SignedOut(q.dev, "raced")]
    /\ UNCHANGED <<user, access, fresh, ban>>

-----------------------------------------------------------------------------
(* The grants of /identity/connect/token. *)

Login(r, d) ==
    /\ user.enabled
    /\ Start([id |-> r, at |-> "login", row |-> user, dev |-> d])
    /\ UNCHANGED fresh

\* The credentials the client sends match the row, or the grant answers an
\* error; the two-factor challenge is a matter of its own.
password_grant(r, d) == Login(r, d)
api_key_grant(r, d) == user.api_key # None /\ Login(r, d)
auth_request_grant(r, d) == Login(r, d)

\* MUTANT: a refresh finds or creates the device, as the other grants do.
refresh_grant_FindOrNew(r, d) ==
    /\ Start([id |-> r, at |-> "read_user", dev |-> d])
    /\ UNCHANGED fresh

refresh_grant(r, d) ==
    /\ device[d] # None
    /\ Start([id |-> r, at |-> "read_user", dev |-> d])
    /\ UNCHANGED fresh

refresh_user(q) ==
    /\ q.at = "read_user"
    /\ user.enabled
    /\ Continue(q, [id |-> q.id, at |-> "refresh", row |-> user, dev |-> q.dev])
    /\ UNCHANGED fresh

refresh_disabled(q) == q.at = "read_user" /\ ~user.enabled /\ Finish(q)

\* MUTANT: the refresh token is derived from the security stamp.
issue_FromStamp(q) ==
    /\ q.at \in {"login", "refresh"}
    /\ Generate(1)
    /\ device' = [device EXCEPT ![q.dev] = q.row.stamp]
    /\ access' = access \cup {[device |-> q.dev, stamp |-> q.row.stamp]}
    /\ req' = req \ {q}
    /\ fate' = FateAfter({device[q.dev]} \ {None}, HeldTokens(q))
    /\ out' = [out EXCEPT ![q.dev] = IF q.at = "login" THEN "no" ELSE @]
    /\ UNCHANGED <<user, ban>>

\* The end of every grant: a new refresh token, Device::save, and claims from
\* the user row the grant read.
issue(q) ==
    /\ q.at \in {"login", "refresh"}
    /\ Generate(1)
    /\ device' = [device EXCEPT ![q.dev] = fresh + 1]
    /\ access' = access \cup {[device |-> q.dev, stamp |-> q.row.stamp]}
    /\ req' = req \ {q}
    /\ fate' = FateAfter({device[q.dev]} \ {None}, HeldTokens(q))
    /\ out' = [out EXCEPT ![q.dev] = IF q.at = "login" THEN "no" ELSE @]
    /\ UNCHANGED <<user, ban>>

-----------------------------------------------------------------------------
(* The specification. *)

Init ==
    /\ user = [enabled |-> TRUE, stamp |-> 1, password |-> 2, api_key |-> None]
    /\ device = [d \in Devices |-> None]
    /\ access = {}
    /\ req = {}
    /\ fresh = 2
    /\ fate = [v \in Values |-> "live"]
    /\ ban = "none"
    /\ out = [d \in Devices |-> "no"]

Begin(r) ==
    \/ \E a \in access : guard(r, a)
    \/ verify_email_token(r) \/ recover(r) \/ reset_password(r)
    \/ takeover_password(r)
    \/ admin_disable_user(r) \/ admin_enable_user(r) \/ admin_deauth_user(r)
    \/ \E d \in Devices : \/ password_grant(r, d) \/ api_key_grant(r, d)
                          \/ auth_request_grant(r, d) \/ refresh_grant(r, d)

UserHandler(q) ==
    \/ put_profile(q) \/ set_avatar(q) \/ set_account_keys(q)
    \/ settings_domains_save(q) \/ request_email_change(q) \/ ensure_recovery_code(q)
    \/ rotate_security_stamp(q) \/ rotate_user_account_keys(q)
    \/ change_password(q) \/ change_kdf(q) \/ change_email(q)
    \/ get_or_create_api_key(q) \/ rotate_api_key(q)

Proceed(q) ==
    \/ device_not_found(q)
    \/ UserHandler(q)
    \/ \E d \in Devices : \/ set_push_token(q, d) \/ clear_push_token(q, d)
                          \/ delete_device(q, d)
    \/ find(q) \/ find_none(q)
    \/ refresh_user(q) \/ refresh_disabled(q)

Write(q) ==
    save_user(q) \/ sweep(q) \/ save_push(q) \/ delete(q) \/ issue(q)

\* A statement fails: the handler answers an error, or, in admin_deauth_user's
\* second statement, ignores it.
fail(q) == Finish(q)

Next == \/ \E r \in Requests : Free(r) /\ Begin(r)
        \/ \E q \in req : Proceed(q) \/ Write(q) \/ fail(q)

Spec == Init /\ [][Next]_vars

-----------------------------------------------------------------------------
(* Properties. *)

\* Every variable holds a value of its type.
TypeOK ==
    /\ user \in User
    /\ device \in [Devices -> Values \cup {None}]
    /\ access \subseteq [device : Devices, stamp : Values]
    /\ \A q \in req : IsRequest(q)
    /\ fresh \in Values
    /\ fate \in [Values -> {"live", "raced", "revoked", "retired"}]
    /\ ban \in {"none", "quiet", "raced"}
    /\ out \in [Devices -> {"no", "quiet", "raced"}]

\* A security stamp, password, API key or refresh token that was replaced while
\* no request in flight held a copy of it is never accepted again: no access
\* token with that stamp passes the guard, no login or refresh succeeds with it.
RotationHolds ==
    \A v \in Values : fate[v] = "retired" =>
        /\ v \notin Secrets(user)
        /\ \A d \in Devices : device[d] # v

\* An account that admin_disable_user disabled while no request in flight held
\* its row enabled stays disabled, so that no guard and no grant succeeds, until
\* admin_enable_user.
DisabledHolds ==
    ban = "quiet" => /\ ~user.enabled
                     /\ \A q \in req : q.at # "guard"

\* A device that was signed out, by delete_device or admin_deauth_user, while
\* no request in flight was to write its row has no row, and so no refresh
\* token, until someone logs in on it again.
SignOutHolds == \A d \in Devices : out[d] = "quiet" => device[d] = None

\* find_by_refresh_token (LIMIT 1) is unambiguous: two devices never share a
\* refresh token, whatever stale copies were written back.
RefreshTokensDistinct ==
    \A d, e \in Devices : device[d] = device[e] /\ device[d] # None => d = e

\* A device that was signed out stays out, and one that is signed in shares its
\* refresh token with no other.
DevicesHold == SignOutHolds /\ RefreshTokensDistinct
=============================================================================
